--------------------------- MODULE DiscoveryProofs --------------------------
(***************************************************************************)
(* Proofs about Discovery: etcd's keys follow from its log of events, a    *)
(* gateway's list from the part of the log it has applied, and its ring from*)
(* the members of the list alone.                                          *)
(***************************************************************************)
EXTENDS Discovery, NatOrder

(* A Get lists a set of instances once each.                               *)
LEMMA KeyOrder ==
  ASSUME NEW S \in SUBSET Nat, IsFiniteSet(S)
  PROVE  /\ InKeyOrder(S) \in Seq(S) /\ IsInjective(InKeyOrder(S))
         /\ \A s : (\E i \in DOMAIN InKeyOrder(S) : InKeyOrder(S)[i] = s) <=> s \in S
<1> DEFINE n == Cardinality(S)
           Up(s) == {t \in S : t <= s}
           rank == [s \in S |-> Cardinality(Up(s))]
<1>1. n \in Nat
  BY FS_CardinalityType
<1>2. ASSUME NEW s \in S PROVE IsFiniteSet(Up(s)) /\ Cardinality(Up(s)) \in 1 .. n
  <2>1. IsFiniteSet(Up(s)) /\ Cardinality(Up(s)) <= n
    BY FS_Subset
  <2>2. s \in Up(s)
    OBVIOUS
  <2>3. Cardinality(Up(s)) \in Nat /\ Cardinality(Up(s)) # 0
    BY <2>1, <2>2, FS_CardinalityType, FS_EmptySet
  <2> HIDE DEF Up
  <2> QED BY <1>1, <2>1, <2>3
<1>3. ASSUME NEW s \in S, NEW t \in S, Cardinality(Up(s)) = Cardinality(Up(t)) PROVE s = t
  <2>1. ASSUME NEW x \in S, NEW y \in S, x <= y, Cardinality(Up(x)) = Cardinality(Up(y))
        PROVE  x = y
    <3>1. x \in Nat /\ y \in Nat
      OBVIOUS
    <3>2. Up(x) \subseteq Up(y)
      <4> SUFFICES ASSUME NEW z \in S, z <= x PROVE z <= y
        OBVIOUS
      <4>1. z \in Nat
        OBVIOUS
      <4> QED BY <2>1, <3>1, <4>1
    <3>3. Up(y) = Up(x)
      BY <1>2, <2>1, <3>2, FS_Subset
    <3>4. y \in Up(y)
      BY <3>1
    <3>5. y <= x
      BY <3>3, <3>4
    <3> QED BY <2>1, <3>1, <3>5
  <2>2. s \in Nat /\ t \in Nat
    OBVIOUS
  <2> HIDE DEF Up
  <2>3. s <= t \/ t <= s
    BY <2>2
  <2> QED BY <1>3, <2>1, <2>3
<1> HIDE DEF Up
<1>4. rank \in Injection(S, 1 .. n)
  <2>1. rank \in [S -> 1 .. n] /\ DOMAIN rank = S
    BY <1>2
  <2>2. IsInjective(rank)
    BY <1>3 DEF IsInjective
  <2> HIDE DEF rank
  <2> QED BY <2>1, <2>2 DEF Injection
<1>5. rank \in Surjection(S, 1 .. n)
  <2>1. IsFiniteSet(1 .. n) /\ Cardinality(1 .. n) = n
    BY <1>1, FS_Interval
  <2> HIDE DEF rank
  <2> QED BY <1>4, <2>1, FS_Injection
<1>6. ASSUME NEW i \in 1 .. n PROVE \E s \in S : Cardinality(Up(s)) = i
  BY <1>5 DEF Surjection
<1> DEFINE q == InKeyOrder(S)
<1>7. q = [i \in 1 .. n |-> CHOOSE s \in S : Cardinality(Up(s)) = i]
  BY DEF InKeyOrder, Up
<1>8. DOMAIN q = 1 .. n /\ \A i \in 1 .. n : q[i] \in S /\ Cardinality(Up(q[i])) = i
  <2>1. DOMAIN q = 1 .. n /\ \A i \in 1 .. n : q[i] = CHOOSE s \in S : Cardinality(Up(s)) = i
    BY <1>7
  <2> QED BY <1>6, <2>1
<1>9. q \in [1 .. n -> S]
  BY <1>7, <1>8
<1> HIDE DEF q
<1>10. q \in Seq(S)
  BY <1>1, <1>9
<1>11. IsInjective(q)
  BY <1>8 DEF IsInjective
<1>12. ASSUME NEW s \in S PROVE \E i \in DOMAIN q : q[i] = s
  BY <1>2, <1>3, <1>8
<1> QED BY <1>8, <1>10, <1>11, <1>12 DEF q

(* The ring of a list depends on its members alone, and sends every key to *)
(* one of them.                                                            *)
LEMMA RingPoints ==
  ASSUME NEW v \in Seq(Servers)
  PROVE  /\ DOMAIN RingOf(v) = UNION {Vnodes[s] : s \in Range(v)}
         /\ \A p \in DOMAIN RingOf(v) : RingOf(v)[p] \in Range(v) /\ p \in Vnodes[RingOf(v)[p]]
<1>1. Range(v) = {v[i] : i \in DOMAIN v} /\ DOMAIN v = 1 .. Len(v) /\ Len(v) \in Nat
  BY DEF Range
<1>2. UNION {Vnodes[v[i]] : i \in DOMAIN v} = UNION {Vnodes[s] : s \in Range(v)}
  BY <1>1
<1>3. DOMAIN RingOf(v) = UNION {Vnodes[v[i]] : i \in DOMAIN v}
  BY DEF RingOf
<1>4. ASSUME NEW p \in DOMAIN RingOf(v) PROVE RingOf(v)[p] \in Range(v) /\ p \in Vnodes[RingOf(v)[p]]
  <2> DEFINE I == {i \in DOMAIN v : p \in Vnodes[v[i]]}
  <2>1. RingOf(v)[p] = v[Max(I)]
    BY <1>3 DEF RingOf
  <2>2. I # {} /\ I \in SUBSET Nat /\ \A i \in I : i <= Len(v)
    BY <1>1, <1>3
  <2>3. \E m \in I : \A k \in I : k <= m
    BY <1>1, <2>2, Greatest
  <2>4. Max(I) \in I
    BY <2>2, <2>3 DEF Max
  <2> QED BY <1>1, <2>1, <2>4
<1> QED BY <1>2, <1>3, <1>4

(* Two lists with the same members give the same ring, whatever their      *)
(* order: no two instances share a point of it.                            *)
LEMMA RingOfMembers ==
  ASSUME NEW v \in Seq(Servers), NEW w \in Seq(Servers), Range(v) = Range(w)
  PROVE  RingOf(v) = RingOf(w)
<1>1. DOMAIN RingOf(v) = DOMAIN RingOf(w)
  BY RingPoints
<1>2. ASSUME NEW p \in DOMAIN RingOf(v) PROVE RingOf(v)[p] = RingOf(w)[p]
  <2>1. /\ RingOf(v)[p] \in Range(v) /\ p \in Vnodes[RingOf(v)[p]]
        /\ RingOf(w)[p] \in Range(v) /\ p \in Vnodes[RingOf(w)[p]]
    BY <1>1, RingPoints
  <2>2. Range(v) \subseteq Servers
    BY DEF Range
  <2> QED BY <2>1, <2>2, HashAssumption
<1>3. RingOf(v) = [p \in DOMAIN RingOf(v) |-> RingOf(v)[p]]
  BY DEF RingOf
<1>4. RingOf(w) = [p \in DOMAIN RingOf(w) |-> RingOf(w)[p]]
  BY DEF RingOf
<1> QED BY <1>1, <1>2, <1>3, <1>4

(* A ring with an instance on it sends every key to one of its instances.  *)
LEMMA RingMember ==
  ASSUME NEW v \in Seq(Servers), NEW k \in Keys, Range(v) # {}
  PROVE  RingGet(RingOf(v), k) \in Range(v)
<1> DEFINE r == RingOf(v)
           after == {p \in DOMAIN r : p >= KeyPoint[k]}
           P == IF after = {} THEN DOMAIN r ELSE after
<1>1. Range(v) \subseteq Servers
  BY DEF Range
<1>2. DOMAIN r # {} /\ DOMAIN r \in SUBSET Nat
  <2>1. DOMAIN r = UNION {Vnodes[s] : s \in Range(v)}
    BY RingPoints
  <2>2. \A s \in Range(v) : Vnodes[s] \subseteq Nat /\ Vnodes[s] # {}
    BY <1>1, HashAssumption
  <2> HIDE DEF r
  <2> QED BY <2>1, <2>2
<1>3. P \in SUBSET Nat /\ P # {} /\ P \subseteq DOMAIN r
  BY <1>2
<1>4. Min(P) \in DOMAIN r
  BY <1>3, MinLeast
<1>5. RingGet(r, k) = r[Min(P)]
  BY <1>2 DEF RingGet
<1> QED BY <1>4, <1>5, RingPoints

(* What etcd can log.                                                      *)
Events == [op : {"PUT", "DELETE"}, addr : Servers]

(* remove takes one instance out of a list and leaves the others.          *)
LEMMA RemoveOne ==
  ASSUME NEW v \in Seq(Servers), IsInjective(v), NEW a \in Servers
  PROVE  /\ remove(v, a) \in Seq(Servers) /\ IsInjective(remove(v, a))
         /\ \A s : contains(remove(v, a), s) <=> contains(v, s) /\ s # a
<1>1. CASE ~contains(v, a)
  BY <1>1 DEF remove, contains
<1>2. CASE contains(v, a)
  <2> DEFINE n == Len(v)
             J == {j \in DOMAIN v : v[j] = a}
             w == [v EXCEPT ![Min(J)] = v[n]]
             x == SubSeq(w, 1, n - 1)
  <2>1. n \in Nat /\ DOMAIN v = 1 .. n /\ v \in [1 .. n -> Servers]
    OBVIOUS
  <2>2. J \in SUBSET Nat /\ J # {}
    BY <1>2, <2>1 DEF contains
  <2>3. PICK i : i = Min(J)
    OBVIOUS
  <2>4. i \in J
    BY <2>2, <2>3, MinLeast
  <2> HIDE DEF J
  <2>5. i \in 1 .. n /\ v[i] = a /\ n \in 1 .. n
    BY <2>1, <2>4 DEF J
  <2>6. \A j \in 1 .. n : w[j] = IF j = i THEN v[n] ELSE v[j]
    BY <2>1, <2>3, <2>5
  <2>7. w \in [1 .. n -> Servers]
    BY <2>1, <2>5
  <2>8. w \in Seq(Servers) /\ Len(w) = n
    BY <2>1, <2>7
  <2> HIDE DEF w
  <2>9. /\ x \in Seq(Servers) /\ Len(x) = n - 1 /\ DOMAIN x = 1 .. n - 1
        /\ \A j \in 1 .. n - 1 : x[j] = w[j]
    BY <2>1, <2>5, <2>8
  <2>10. remove(v, a) = x
    BY <1>2, <2>3 DEF remove, J, w
  <2> HIDE DEF x, n
  <2>11. \A j \in 1 .. n - 1 : j \in 1 .. n /\ j # n /\ x[j] = IF j = i THEN v[n] ELSE v[j]
    BY <2>1, <2>6, <2>9
  <2>12. \A j, k \in 1 .. n : v[j] = v[k] => j = k
    BY <2>1 DEF IsInjective
  <2>13. IsInjective(x)
    <3> SUFFICES ASSUME NEW j \in 1 .. n - 1, NEW k \in 1 .. n - 1, x[j] = x[k] PROVE j = k
      BY <2>9 DEF IsInjective
    <3> QED BY <2>5, <2>11, <2>12
  <2>14. ASSUME NEW s, contains(x, s) PROVE contains(v, s) /\ s # a
    <3>1. PICK j \in 1 .. n - 1 : x[j] = s
      BY <2>9, <2>14 DEF contains
    <3>2. PICK k \in 1 .. n : v[k] = s /\ k # i
      BY <2>5, <2>11, <3>1
    <3>3. s # a
      BY <2>5, <2>12, <3>2
    <3> QED BY <2>1, <3>2, <3>3 DEF contains
  <2>15. ASSUME NEW s, contains(v, s), s # a PROVE contains(x, s)
    <3>1. PICK k \in 1 .. n : v[k] = s /\ k # i
      BY <2>1, <2>5, <2>15 DEF contains
    <3>2. CASE k = n
      <4>1. i \in 1 .. n - 1
        BY <2>1, <2>5, <3>1, <3>2
      <4> QED BY <2>9, <2>11, <3>1, <3>2, <4>1 DEF contains
    <3>3. CASE k # n
      <4>1. k \in 1 .. n - 1
        BY <2>1, <3>1, <3>3
      <4> QED BY <2>9, <2>11, <3>1, <4>1 DEF contains
    <3> QED BY <3>2, <3>3
  <2> QED BY <2>9, <2>10, <2>13, <2>14, <2>15
<1> QED BY <1>1, <1>2

(* Append adds an instance that a list lacks.                              *)
LEMMA AppendOne ==
  ASSUME NEW v \in Seq(Servers), IsInjective(v), NEW a \in Servers, ~contains(v, a)
  PROVE  /\ Append(v, a) \in Seq(Servers) /\ IsInjective(Append(v, a))
         /\ \A s : contains(Append(v, a), s) <=> contains(v, s) \/ s = a
<1>1. PICK w : w = Append(v, a)
  OBVIOUS
<1>2. PICK n \in Nat : n = Len(v)
  OBVIOUS
<1>3. /\ w \in Seq(Servers) /\ DOMAIN w = 1 .. n + 1 /\ DOMAIN v = 1 .. n /\ w[n + 1] = a
      /\ \A i \in 1 .. n : w[i] = v[i]
  BY <1>1, <1>2
<1>4. \A i \in 1 .. n + 1 : i \in 1 .. n \/ i = n + 1
  OBVIOUS
<1>5. \A i \in 1 .. n : v[i] # a
  BY <1>3 DEF contains
<1>6. IsInjective(w)
  BY <1>3, <1>4, <1>5 DEF IsInjective
<1>7. n + 1 \in 1 .. n + 1 /\ 1 .. n \subseteq 1 .. n + 1
  OBVIOUS
<1>8. \A s : contains(w, s) <=> contains(v, s) \/ s = a
  BY <1>3, <1>4, <1>7 DEF contains
<1> QED BY <1>1, <1>3, <1>6, <1>8

(* Applying an event to a list brings its instance or takes it away, and   *)
(* leaves the list without repetitions.                                    *)
LEMMA ApplyOne ==
  ASSUME NEW v \in Seq(Servers), IsInjective(v), NEW e \in Events
  PROVE  /\ Apply(v, e) \in Seq(Servers) /\ IsInjective(Apply(v, e))
         /\ \A s : contains(Apply(v, e), s) <=> IF s = e.addr THEN e.op = "PUT" ELSE contains(v, s)
<1>1. e.addr \in Servers /\ e.op \in {"PUT", "DELETE"}
  BY DEF Events
<1>2. CASE e.op = "DELETE"
  <2>1. Apply(v, e) = remove(v, e.addr)
    BY <1>2 DEF Apply
  <2> QED BY <1>1, <1>2, <2>1, RemoveOne
<1>3. CASE e.op = "PUT" /\ contains(v, e.addr)
  BY <1>3 DEF Apply
<1>4. CASE e.op = "PUT" /\ ~contains(v, e.addr)
  <2>1. Apply(v, e) = Append(v, e.addr)
    BY <1>4 DEF Apply
  <2> QED BY <1>1, <1>4, <2>1, AppendOne
<1> QED BY <1>1, <1>2, <1>3, <1>4

(* Who is registered, one revision later.                                  *)
PresentIn(l, s, n) ==
  \E j \in 1 .. n : /\ l[j] = Event("PUT", s)
                    /\ \A i \in j + 1 .. n : l[i].addr # s

(* The event of a revision decides about its own instance; the others are  *)
(* as they were.                                                           *)
LEMMA PresentNext ==
  ASSUME NEW l \in Seq(Events), NEW n \in Nat, n + 1 <= Len(l), NEW s \in Servers
  PROVE  PresentIn(l, s, n + 1) <=> IF s = l[n + 1].addr THEN l[n + 1].op = "PUT" ELSE PresentIn(l, s, n)
<1>1. n + 1 \in 1 .. Len(l) /\ n + 1 \in Nat
  OBVIOUS
<1>2. l[n + 1] \in Events
  BY <1>1
<1>3. l[n + 1] = Event("PUT", s) <=> l[n + 1].op = "PUT" /\ l[n + 1].addr = s
  BY <1>2 DEF Event, Events
<1>4. \A j \in 1 .. n + 1 : j = n + 1 \/ (j \in 1 .. n /\ n + 1 \in j + 1 .. n + 1)
  OBVIOUS
<1>5. \A j \in 1 .. n : /\ j \in 1 .. n + 1 /\ n + 1 \in j + 1 .. n + 1
                        /\ \A i \in j + 1 .. n + 1 : i \in j + 1 .. n \/ i = n + 1
                        /\ j + 1 .. n \subseteq j + 1 .. n + 1
  OBVIOUS
<1>6. (n + 1) + 1 .. n + 1 = {} /\ n + 1 \in 1 .. n + 1
  OBVIOUS
<1>7. CASE s = l[n + 1].addr
  BY <1>3, <1>4, <1>6, <1>7 DEF PresentIn
<1>8. CASE s # l[n + 1].addr
  <2>1. PresentIn(l, s, n + 1) => PresentIn(l, s, n)
    BY <1>3, <1>4, <1>5, <1>8 DEF PresentIn
  <2>2. PresentIn(l, s, n) => PresentIn(l, s, n + 1)
    BY <1>5, <1>8 DEF PresentIn
  <2> QED BY <1>8, <2>1, <2>2
<1> QED BY <1>7, <1>8

(* etcd's keys follow from its log, and what a gateway has follows from    *)
(* the part of the log it has applied.                                     *)
EtcdSound ==
  /\ kv \in [Servers -> Nat] /\ leases \subseteq Nat \ {0} /\ granted \in Nat
  /\ log \in Seq(Events)
  /\ \A s \in Servers : Registered(s) <=> Present(s, Len(log))

(* A gateway's list holds the instances of its revision, once each.        *)
GatewaysSound ==
  /\ view \in [Gateways -> Seq(Servers)] /\ rev \in [Gateways -> Nat]
  /\ ring = [g \in Gateways |-> RingOf(view[g])]
  /\ \A g \in Gateways :
       /\ rev[g] <= Len(log) /\ IsInjective(view[g])
       /\ \A s \in Servers : contains(view[g], s) <=> Present(s, rev[g])

(* The inductive invariant.                                                *)
DiscoveryInv == EtcdSound /\ GatewaysSound

(* The past of the log does not change.                                    *)
LEMMA PastStays ==
  ASSUME log \in Seq(Events), NEW e \in Events, log' = Append(log, e),
         NEW n \in Nat, n <= Len(log), NEW s
  PROVE  Present(s, n)' <=> Present(s, n)
<1>1. \A i \in 1 .. n : log'[i] = log[i]
  OBVIOUS
<1>2. \A j \in 1 .. n : j + 1 .. n \subseteq 1 .. n
  OBVIOUS
<1> QED BY <1>1, <1>2 DEF Present

(* A step of etcd: keys and log stay, or an event is logged and its key    *)
(* set or deleted.                                                         *)
Logged(s, o, l) ==
  /\ log' = Append(log, Event(o, s)) /\ kv' = [kv EXCEPT ![s] = l]
  /\ l \in Nat /\ (l # 0 <=> o = "PUT") /\ o \in {"PUT", "DELETE"}

(* A step that leaves the gateways alone and logs at most one event, with  *)
(* the key it sets, keeps the invariant.                                   *)
LEMMA EtcdKeeps ==
  ASSUME DiscoveryInv, UNCHANGED <<view, ring, rev>>,
         leases' \subseteq Nat \ {0}, granted' \in Nat,
         UNCHANGED <<kv, log>> \/ \E s \in Servers : \E o, l : Logged(s, o, l)
  PROVE  DiscoveryInv'
<1>1. CASE UNCHANGED <<kv, log>>
  BY <1>1 DEF DiscoveryInv, EtcdSound, GatewaysSound, Registered, Present
<1>2. ASSUME NEW s \in Servers, NEW o, NEW l, Logged(s, o, l) PROVE DiscoveryInv'
  <2>1. PICK e : e = Event(o, s)
    OBVIOUS
  <2>2. e \in Events /\ e.op = o /\ e.addr = s
    BY <1>2, <2>1 DEF Event, Events, Logged
  <2>3. log \in Seq(Events) /\ kv \in [Servers -> Nat]
    BY DEF DiscoveryInv, EtcdSound
  <2>4. PICK n \in Nat : n = Len(log)
    BY <2>3
  <2>5. log' = Append(log, e)
    BY <1>2, <2>1 DEF Logged
  <2>6. log' \in Seq(Events) /\ Len(log') = n + 1 /\ log'[n + 1] = e
    BY <2>2, <2>3, <2>4, <2>5
  <2>7. kv' \in [Servers -> Nat] /\ \A t \in Servers : kv'[t] = IF t = s THEN l ELSE kv[t]
    BY <1>2, <2>3 DEF Logged
  <2>8. ASSUME NEW t \in Servers PROVE Registered(t)' <=> Present(t, n + 1)'
    <3>1. Present(t, n + 1)' <=> IF t = log'[n + 1].addr THEN log'[n + 1].op = "PUT"
                                 ELSE Present(t, n)'
      <4>1. n + 1 <= Len(log')
        BY <2>6
      <4>2. PICK k : k = log'
        OBVIOUS
      <4>3. PresentIn(k, t, n + 1) <=> IF t = k[n + 1].addr THEN k[n + 1].op = "PUT"
                                       ELSE PresentIn(k, t, n)
        BY <2>6, <4>1, <4>2, PresentNext
      <4>4. (Present(t, n + 1)' <=> PresentIn(k, t, n + 1)) /\ (Present(t, n)' <=> PresentIn(k, t, n))
        BY <4>2 DEF Present, PresentIn
      <4> QED BY <4>2, <4>3, <4>4
    <3>2. Present(t, n)' <=> Present(t, n)
      <4>1. n <= Len(log)
        BY <2>4
      <4> QED BY <2>2, <2>3, <2>5, <4>1, PastStays
    <3>3. Registered(t) <=> Present(t, n)
      BY <2>4 DEF DiscoveryInv, EtcdSound
    <3>4. l # 0 <=> o = "PUT"
      BY <1>2 DEF Logged
    <3> QED BY <2>2, <2>6, <2>7, <3>1, <3>2, <3>3, <3>4 DEF Registered
  <2>9. EtcdSound'
    BY <2>6, <2>7, <2>8 DEF EtcdSound
  <2>10. ASSUME NEW g \in Gateways
         PROVE  /\ rev'[g] <= Len(log')
                /\ \A t \in Servers : contains(view'[g], t) <=> Present(t, rev[g])'
    <3>1. PICK m \in Nat : m = rev[g]
      BY DEF DiscoveryInv, GatewaysSound
    <3>2. m <= Len(log) /\ \A t \in Servers : contains(view[g], t) <=> Present(t, m)
      BY <3>1 DEF DiscoveryInv, GatewaysSound
    <3>3. \A t \in Servers : Present(t, m)' <=> Present(t, m)
      BY <2>2, <2>3, <2>5, <3>2, PastStays
    <3>4. rev'[g] = m /\ view'[g] = view[g] /\ m <= Len(log')
      BY <2>4, <2>6, <3>1, <3>2
    <3> QED BY <3>2, <3>3, <3>4
  <2>11. GatewaysSound'
    BY <2>10 DEF DiscoveryInv, GatewaysSound
  <2> QED BY <2>9, <2>11 DEF DiscoveryInv
<1> QED BY <1>1, <1>2

(* Every step of an instance or a lease is one of etcd.                    *)
LEMMA InstanceKeeps ==
  ASSUME DiscoveryInv,
         \/ LeaseExpires
         \/ \E s \in Servers : RegisterGrant(s) \/ ServerStep(s) \/ Deregister(s) \/ Crash(s)
  PROVE  DiscoveryInv'
<1>1. leases \subseteq Nat \ {0} /\ granted \in Nat /\ granted + 1 \in Nat \ {0}
  BY DEF DiscoveryInv, EtcdSound
<1> DEFINE Quiet == UNCHANGED <<kv, log>> \/ \E s \in Servers : \E o, l : Logged(s, o, l)
<1>2. ASSUME UNCHANGED etcdVars PROVE leases' \subseteq Nat \ {0} /\ granted' \in Nat /\ Quiet
  BY <1>1, <1>2 DEF etcdVars
<1>3. ASSUME NEW s \in Servers, Grant(s), UNCHANGED <<kv, log>>
      PROVE  leases' \subseteq Nat \ {0} /\ granted' \in Nat /\ Quiet
  BY <1>1, <1>3 DEF Grant
<1>4. ASSUME NEW s \in Servers, Put(s)
      PROVE  leases' \subseteq Nat \ {0} /\ granted' \in Nat /\ Quiet
  <2>1. lease[s] \in Nat \ {0}
    BY <1>1, <1>4 DEF Put
  <2>2. Logged(s, "PUT", lease[s])
    BY <1>4, <2>1 DEF Put, Logged
  <2> QED BY <1>1, <1>4, <2>2 DEF Put
<1>5. ASSUME NEW l, EndLease(l)
      PROVE  leases' \subseteq Nat \ {0} /\ granted' \in Nat /\ Quiet
  <2>1. leases' \subseteq Nat \ {0} /\ granted' \in Nat
    BY <1>1, <1>5 DEF EndLease
  <2>2. CASE UNCHANGED <<kv, log>>
    BY <2>1, <2>2
  <2>3. ASSUME NEW s \in Servers, kv' = [kv EXCEPT ![s] = 0], log' = Append(log, Event("DELETE", s))
        PROVE  Quiet
    <3>1. Logged(s, "DELETE", 0)
      BY <2>3 DEF Logged
    <3> QED BY <3>1
  <2> QED BY <1>5, <2>1, <2>2, <2>3 DEF EndLease
<1> HIDE DEF Quiet
<1>6. CASE LeaseExpires
  BY <1>5, <1>6, EtcdKeeps DEF LeaseExpires, gwVars, Quiet
<1>7. ASSUME NEW s \in Servers, RegisterGrant(s) \/ ServerStep(s) \/ Deregister(s) \/ Crash(s)
      PROVE  DiscoveryInv'
  <2>1. UNCHANGED <<view, ring, rev>>
    BY <1>7 DEF RegisterGrant, ServerStep, RegisterPut, KeepAlive, ChannelCloses, Revoke, ReGrant,
                RePut, SleepOver, Deregister, Crash, gwVars
  <2>2. UNCHANGED etcdVars \/ (Grant(s) /\ UNCHANGED <<kv, log>>) \/ Put(s) \/ EndLease(lease[s])
    <3>1. CASE RegisterGrant(s)
      BY <3>1 DEF RegisterGrant
    <3>2. CASE RegisterPut(s) \/ RePut(s)
      BY <3>2 DEF RegisterPut, RePut, PutFails, etcdVars
    <3>3. CASE KeepAlive(s) \/ ChannelCloses(s) \/ SleepOver(s) \/ Crash(s)
      BY <3>3 DEF KeepAlive, ChannelCloses, SleepOver, Crash, etcdVars
    <3>4. CASE Revoke(s) \/ Deregister(s)
      BY <3>4 DEF Revoke, Deregister, etcdVars
    <3>5. CASE ReGrant(s)
      BY <3>5 DEF ReGrant, etcdVars
    <3> QED BY <1>7, <3>1, <3>2, <3>3, <3>4, <3>5 DEF ServerStep
  <2> QED BY <1>2, <1>3, <1>4, <1>5, <2>1, <2>2, EtcdKeeps DEF Quiet
<1> QED BY <1>6, <1>7

(* A gateway gets a list with its revision.                                *)
LEMMA GatewayKeeps ==
  ASSUME DiscoveryInv, UNCHANGED <<kv, leases, log, granted>>, NEW g \in Gateways,
         NEW v \in Seq(Servers), SetView(g, v), NEW n \in Nat, n <= Len(log), IsInjective(v),
         rev' = [rev EXCEPT ![g] = n],
         \A s \in Servers : contains(v, s) <=> Present(s, n)
  PROVE  DiscoveryInv'
<1>1. EtcdSound'
  BY DEF DiscoveryInv, EtcdSound, Registered, Present
<1>2. /\ view \in [Gateways -> Seq(Servers)] /\ rev \in [Gateways -> Nat]
      /\ ring = [h \in Gateways |-> RingOf(view[h])]
  BY DEF DiscoveryInv, GatewaysSound
<1>3. /\ view' \in [Gateways -> Seq(Servers)] /\ rev' \in [Gateways -> Nat]
      /\ view'[g] = v /\ rev'[g] = n
      /\ \A h \in Gateways \ {g} : view'[h] = view[h] /\ rev'[h] = rev[h]
  BY <1>2 DEF SetView
<1>4. ring' = [h \in Gateways |-> RingOf(view'[h])]
  <2>1. ring' = [ring EXCEPT ![g] = RingOf(v)]
    BY DEF SetView
  <2> QED BY <1>2, <1>3, <2>1
<1>5. \A s, m : Present(s, m)' <=> Present(s, m)
  BY DEF Present
<1>6. ASSUME NEW h \in Gateways
      PROVE  /\ rev'[h] <= Len(log') /\ IsInjective(view'[h])
             /\ \A s \in Servers : contains(view'[h], s) <=> Present(s, rev[h])'
  <2>1. CASE h = g
    BY <1>3, <1>5, <2>1
  <2>2. CASE h # g
    BY <1>3, <1>5, <2>2 DEF DiscoveryInv, GatewaysSound
  <2> QED BY <2>1, <2>2
<1> QED BY <1>1, <1>3, <1>4, <1>6 DEF DiscoveryInv, GatewaysSound

(* So does a step of a gateway's watch: a Get reaches the newest revision, *)
(* an event the next one, and both rebuild the ring.                       *)
LEMMA WatchKeeps ==
  ASSUME DiscoveryInv, NEW g \in Gateways, WatchStep(g) \/ WatchEnds(g) \/ WatchStops(g)
  PROVE  DiscoveryInv'
<1>1. UNCHANGED <<kv, leases, log, granted>> /\ log \in Seq(Events)
  BY DEF WatchStep, WatchGet, handleEvent, WatchWakes, WatchEnds, WatchStops, etcdVars,
         DiscoveryInv, EtcdSound
<1>2. CASE UNCHANGED <<view, ring, rev>>
  BY <1>1, <1>2, EtcdKeeps DEF DiscoveryInv, EtcdSound
<1>3. CASE /\ SetView(g, InKeyOrder({s \in Servers : Registered(s)}))
           /\ rev' = [rev EXCEPT ![g] = Len(log)]
  <2> DEFINE S == {s \in Servers : Registered(s)}
  <2>1. S \in SUBSET Nat /\ IsFiniteSet(S) /\ S \subseteq Servers
    BY ServersAreNumbers, FS_Subset
  <2>2. PICK v : v = InKeyOrder(S)
    OBVIOUS
  <2>3. /\ v \in Seq(S) /\ IsInjective(v) /\ \A s : contains(v, s) <=> s \in S
    <3> HIDE DEF S
    <3> QED BY <2>1, <2>2, KeyOrder DEF contains
  <2>4. v \in Seq(Servers)
    BY <2>1, <2>3
  <2>5. PICK n \in Nat : n = Len(log)
    BY <1>1
  <2>6. \A s \in Servers : contains(v, s) <=> Present(s, n)
    BY <2>3, <2>5 DEF DiscoveryInv, EtcdSound
  <2>7. SetView(g, v) /\ rev' = [rev EXCEPT ![g] = n] /\ n <= Len(log)
    BY <1>3, <2>2, <2>5
  <2> QED BY <1>1, <2>3, <2>4, <2>6, <2>7, GatewayKeeps
<1>4. CASE handleEvent(g)
  <2>1. PICK m \in Nat : m = rev[g]
    BY DEF DiscoveryInv, GatewaysSound
  <2>2. PICK n \in Nat : n = m + 1
    OBVIOUS
  <2>3. /\ m < Len(log) /\ rev' = [rev EXCEPT ![g] = n] /\ rev'[g] = n
    BY <1>4, <2>1, <2>2 DEF handleEvent, DiscoveryInv, GatewaysSound
  <2>4. n \in 1 .. Len(log) /\ n <= Len(log)
    BY <1>1, <2>2, <2>3
  <2>5. PICK e : e = log[n]
    OBVIOUS
  <2>6. e \in Events
    BY <1>1, <2>4, <2>5
  <2>7. PICK w : w = view[g]
    OBVIOUS
  <2>8. w \in Seq(Servers) /\ IsInjective(w) /\ \A s \in Servers : contains(w, s) <=> Present(s, m)
    BY <2>1, <2>7 DEF DiscoveryInv, GatewaysSound
  <2>9. PICK v : v = Apply(w, e)
    OBVIOUS
  <2>10. /\ v \in Seq(Servers) /\ IsInjective(v)
         /\ \A s : contains(v, s) <=> IF s = e.addr THEN e.op = "PUT" ELSE contains(w, s)
    BY <2>6, <2>8, <2>9, ApplyOne
  <2>11. \A s \in Servers : contains(v, s) <=> Present(s, n)
    <3> SUFFICES ASSUME NEW s \in Servers PROVE contains(v, s) <=> Present(s, n)
      OBVIOUS
    <3>1. Present(s, n) <=> IF s = e.addr THEN e.op = "PUT" ELSE Present(s, m)
      <4>1. PresentIn(log, s, n) <=> IF s = e.addr THEN e.op = "PUT" ELSE PresentIn(log, s, m)
        BY <1>1, <2>2, <2>4, <2>5, PresentNext
      <4> QED BY <4>1 DEF Present, PresentIn
    <3> QED BY <2>8, <2>10, <3>1
  <2>12. SetView(g, v)
    BY <1>4, <2>3, <2>5, <2>7, <2>9 DEF handleEvent
  <2> QED BY <1>1, <2>3, <2>4, <2>10, <2>11, <2>12, GatewayKeeps
<1> QED BY <1>2, <1>3, <1>4 DEF WatchStep, WatchGet, WatchWakes, WatchEnds, WatchStops

(* The invariant is inductive.                                             *)
LEMMA DiscoveryStart == Init => DiscoveryInv
<1> SUFFICES ASSUME Init PROVE DiscoveryInv
  OBVIOUS
<1>1. Len(log) = 0 /\ log \in Seq(Events) /\ \A s : ~Present(s, 0)
  BY DEF Init, Present
<1>2. EtcdSound
  BY <1>1 DEF Init, EtcdSound, Registered
<1>3. \A s : ~contains(<<>>, s)
  BY DEF contains
<1>4. IsInjective(<<>>)
  BY DEF IsInjective
<1>5. view \in [Gateways -> Seq(Servers)] /\ rev \in [Gateways -> Nat]
  <2>1. <<>> \in Seq(Servers)
    OBVIOUS
  <2> QED BY <2>1 DEF Init
<1>6. ring = [g \in Gateways |-> RingOf(view[g])]
  BY DEF Init
<1>7. \A g \in Gateways : rev[g] = 0 /\ view[g] = <<>>
  BY DEF Init
<1>8. GatewaysSound
  BY <1>1, <1>3, <1>4, <1>5, <1>6, <1>7 DEF GatewaysSound
<1> QED BY <1>2, <1>8 DEF DiscoveryInv

(* Every step keeps the invariant.                                         *)
LEMMA DiscoveryStep == DiscoveryInv /\ [Next]_vars => DiscoveryInv'
<1> SUFFICES ASSUME DiscoveryInv, [Next]_vars PROVE DiscoveryInv'
  OBVIOUS
<1>1. CASE UNCHANGED vars
  BY <1>1, EtcdKeeps DEF vars, etcdVars, gwVars, DiscoveryInv, EtcdSound
<1> QED BY <1>1, InstanceKeeps, WatchKeeps DEF Next

(* The invariant gives both properties of the lists and the rings.         *)
LEMMA DiscoveryImplies == DiscoveryInv => ViewIsSnapshot /\ RouteFollowsMembers
<1> SUFFICES ASSUME DiscoveryInv PROVE ViewIsSnapshot /\ RouteFollowsMembers
  OBVIOUS
<1>1. ViewIsSnapshot
  BY DEF DiscoveryInv, GatewaysSound, ViewIsSnapshot
<1>2. ASSUME NEW g \in Gateways, NEW k \in Keys
      PROVE  /\ RingGet(ring[g], k) = RingGet(RingOf(InKeyOrder(Range(view[g]))), k)
             /\ Range(view[g]) # {} => RingGet(ring[g], k) \in Range(view[g])
  <2>1. PICK v : v = view[g]
    OBVIOUS
  <2>2. v \in Seq(Servers) /\ ring[g] = RingOf(v)
    BY <2>1 DEF DiscoveryInv, GatewaysSound
  <2>3. Range(v) \subseteq Servers
    BY <2>2 DEF Range
  <2>4. Range(v) \in SUBSET Nat /\ IsFiniteSet(Range(v))
    BY <2>3, ServersAreNumbers, FS_Subset
  <2>5. PICK w : w = InKeyOrder(Range(v))
    OBVIOUS
  <2>6. w \in Seq(Range(v)) /\ \A s : (\E i \in DOMAIN w : w[i] = s) <=> s \in Range(v)
    BY <2>4, <2>5, KeyOrder
  <2>7. w \in Seq(Servers)
    BY <2>3, <2>6
  <2>8. Range(w) = Range(v)
    <3>1. \A s : s \in Range(w) <=> \E i \in DOMAIN w : w[i] = s
      BY DEF Range
    <3> QED BY <2>6, <3>1
  <2> QED BY <2>1, <2>2, <2>5, <2>7, <2>8, RingOfMembers, RingMember
<1> QED BY <1>1, <1>2 DEF RouteFollowsMembers

(* Discovery's inductive invariant.                                        *)
THEOREM DiscoveryInvariance == Spec => []DiscoveryInv
BY DiscoveryStart, DiscoveryStep, PTL DEF Spec

(* A gateway's list is what was registered at the revision it reached.     *)
THEOREM ListIsSnapshot == Spec => []ViewIsSnapshot
BY DiscoveryInvariance, DiscoveryImplies, PTL

(* Gateways with the same members route every key alike, and to a member.  *)
THEOREM RoutesAgree == Spec => []RouteFollowsMembers
BY DiscoveryInvariance, DiscoveryImplies, PTL
=============================================================================
