--------------------------- MODULE ConnPoolProofs ---------------------------
(***************************************************************************)
(* Proofs about ConnPool for any number of callers and connections and any *)
(* limits.  PoolInv is inductive: the type of active (a natural number     *)
(* although Put and a failed dial subtract one) rests on ActiveExact, and  *)
(* OnePlace rests on Bookkeeping.  The invariant is proved in two parts,   *)
(* counting and ownership.                                                 *)
(***************************************************************************)
EXTENDS ConnPool, FiniteSetTheorems, TLAPS

\* p joins the busy callers: the counter follows.
LEMMA BusyJoins ==
  ASSUME TypeOK, ActiveExact, NEW p \in Callers, NEW s \in {"dial", "hold"},
         pc[p] \notin {"dial", "hold"}, pc' = [pc EXCEPT ![p] = s],
         active' = active + 1
  PROVE  ActiveExact' /\ active' \in Nat
<1>1. Busy' = Busy \cup {p} /\ p \notin Busy
  BY DEF Busy, TypeOK
<1>2. IsFiniteSet(Busy)
  BY FinitelyManyCallers, FS_Subset DEF Busy
<1>3. Cardinality(Busy') = Cardinality(Busy) + 1
  BY <1>1, <1>2, FS_AddElement
<1> QED
  BY <1>3 DEF ActiveExact, TypeOK

\* p leaves the busy callers: the counter follows, and was positive.
LEMMA BusyLeaves ==
  ASSUME TypeOK, ActiveExact, NEW p \in Callers,
         pc[p] \in {"dial", "hold"}, pc' = [pc EXCEPT ![p] = "out"],
         active' = active - 1
  PROVE  ActiveExact' /\ active' \in Nat
<1>1. Busy' = Busy \ {p} /\ p \in Busy
  BY DEF Busy, TypeOK
<1>2. IsFiniteSet(Busy)
  BY FinitelyManyCallers, FS_Subset DEF Busy
<1>3. IsFiniteSet(Busy \ {p}) /\ Cardinality(Busy \ {p}) = Cardinality(Busy) - 1
  BY <1>1, <1>2, FS_RemoveElement
<1>4. Cardinality(Busy') \in Nat /\ Cardinality(Busy') = Cardinality(Busy) - 1
  BY <1>1, <1>3, FS_CardinalityType
<1> QED
  BY <1>4 DEF ActiveExact, TypeOK

\* p moves without joining or leaving the busy callers.
LEMMA BusyStays ==
  ASSUME TypeOK, ActiveExact, NEW p \in Callers, NEW s \in Pcs,
         pc[p] \in {"dial", "hold"} <=> s \in {"dial", "hold"},
         pc' = [pc EXCEPT ![p] = s], active' = active
  PROVE  ActiveExact' /\ active' \in Nat
<1>1. Busy' = Busy
  BY DEF Busy, TypeOK
<1> QED
  BY <1>1 DEF ActiveExact, TypeOK

\* No caller moves.
LEMMA BusySame ==
  ASSUME TypeOK, ActiveExact, pc' = pc, active' = active
  PROVE  ActiveExact' /\ active' \in Nat
<1>1. Busy' = Busy
  BY DEF Busy
<1> QED
  BY <1>1 DEF ActiveExact, TypeOK

\* The counter through every step.
LEMMA CountNext ==
  ASSUME TypeOK, ActiveExact, Next
  PROVE  ActiveExact' /\ active' \in Nat
<1> USE DEF Goto
<1>1. ASSUME NEW p \in Callers, Begin(p) \/ GetClosed(p) \/ GetWait(p) \/ Wake(p) \/ Cancel(p)
      PROVE  ActiveExact' /\ active' \in Nat
  BY <1>1, BusyStays DEF Begin, GetClosed, GetWait, Wake, Cancel, Scanning, Pcs
<1>2. ASSUME NEW p \in Callers, Discard(p)
      PROVE  ActiveExact' /\ active' \in Nat
  BY <1>2, BusyStays DEF Discard, Pcs
<1>3. ASSUME NEW p \in Callers, NEW c \in Conns, GetBad(p, c)
      PROVE  ActiveExact' /\ active' \in Nat
  BY <1>3, BusyStays DEF GetBad, Scanning, Pcs
<1>4. ASSUME NEW p \in Callers, NEW c \in Conns, GetIdle(p, c)
      PROVE  ActiveExact' /\ active' \in Nat
  BY <1>4, BusyJoins DEF GetIdle, Scanning
<1>5. ASSUME NEW p \in Callers, GetReserve(p)
      PROVE  ActiveExact' /\ active' \in Nat
  BY <1>5, BusyJoins DEF GetReserve, Scanning
<1>6. ASSUME NEW p \in Callers, NEW c \in Conns, Dialled(p, c)
      PROVE  ActiveExact' /\ active' \in Nat
  BY <1>6, BusyStays DEF Dialled, Pcs
<1>7. ASSUME NEW p \in Callers, DialFails(p) \/ Put(p)
      PROVE  ActiveExact' /\ active' \in Nat
  BY <1>7, BusyLeaves DEF DialFails, Put
<1>8. ASSUME (\E c \in Conns : Spoil(c)) \/ Clean \/ Close \/ Release
      PROVE  ActiveExact' /\ active' \in Nat
  BY <1>8, BusySame DEF Spoil, Clean, Close, Release
<1> QED
  BY <1>1, <1>2, <1>3, <1>4, <1>5, <1>6, <1>7, <1>8 DEF Next, Step

\* Every variable but active keeps its type.
LEMMA TypeNext ==
  ASSUME TypeOK, Bookkeeping, Next, active' \in Nat
  PROVE  TypeOK'
<1> USE PoolBounds DEF TypeOK, Pcs, Goto, Take, Shut, poolVars
<1>w. WaitCap \in Nat
  BY DEF WaitCap
<1>1. ASSUME NEW p \in Callers, Begin(p) \/ GetClosed(p) \/ GetWait(p) \/ Cancel(p)
      PROVE  TypeOK'
  BY <1>1 DEF Begin, GetClosed, GetWait, Cancel, WaitCap
<1>2. ASSUME NEW p \in Callers, Wake(p)
      PROVE  TypeOK'
  BY <1>2, <1>w DEF Wake
<1>3. ASSUME NEW p \in Callers, Discard(p)
      PROVE  TypeOK'
  BY <1>3 DEF Discard
<1>4. ASSUME NEW p \in Callers, NEW c \in Conns, GetBad(p, c) \/ GetIdle(p, c) \/ Dialled(p, c)
      PROVE  TypeOK'
  BY <1>4 DEF GetBad, GetIdle, Dialled
<1>5. ASSUME NEW p \in Callers, GetReserve(p) \/ DialFails(p)
      PROVE  TypeOK'
  BY <1>5 DEF GetReserve, DialFails
<1>6. ASSUME NEW p \in Callers, Put(p)
      PROVE  TypeOK'
  <2>1. mine[p] \in Conns
    BY <1>6 DEF Put, Bookkeeping
  <2>2. idle' \subseteq Conns /\ live' \subseteq Conns /\ bad' \subseteq Conns
    BY <1>6, <2>1 DEF Put
  <2>3. tokens' \in 0 .. WaitCap /\ panicked' \subseteq Callers
    BY <1>6, <1>w DEF Put, Notify
  <2>4. pc' \in [Callers -> Pcs] /\ mine' \in [Callers -> Conns \cup {NoConn}]
    BY <1>6 DEF Put
  <2>5. UNCHANGED <<closed, drain, released, failures>>
    BY <1>6 DEF Put
  <2> QED
    BY <2>2, <2>3, <2>4, <2>5
<1>7. ASSUME (\E c \in Conns : Spoil(c)) \/ Clean \/ Close \/ Release
      PROVE  TypeOK'
  BY <1>7 DEF Spoil, Clean, Close, Release
<1> QED
  BY <1>1, <1>2, <1>3, <1>4, <1>5, <1>6, <1>7 DEF Next, Step

\* Adding to or taking from p.idle: the cardinality follows.
LEMMA IdleShrinks ==
  ASSUME IsFiniteSet(idle), NEW c \in idle
  PROVE  /\ IsFiniteSet(idle \ {c})
         /\ Cardinality(idle) \in Nat /\ Cardinality(idle \ {c}) \in Nat
         /\ Cardinality(idle \ {c}) = Cardinality(idle) - 1
<1>1. IsFiniteSet(idle \ {c}) /\ Cardinality(idle \ {c}) = Cardinality(idle) - 1
  BY FS_RemoveElement
<1> QED
  BY <1>1, FS_CardinalityType

\* The limit through every step, and that p.idle stays finite: what Get takes
\* from p.idle it adds to active, what Put adds to p.idle it takes from active.
LEMMA LimitNext ==
  ASSUME PoolInv, Next, active' \in Nat
  PROVE  WithinLimit' /\ IsFiniteSet(idle')
<1> USE PoolBounds DEF PoolInv, TypeOK
<1>c. IsFiniteSet(idle) /\ Cardinality(idle) \in Nat
  BY FS_CardinalityType DEF Bookkeeping
<1>e. Cardinality({}) = 0 /\ IsFiniteSet({})
  BY FS_EmptySet
<1>1. ASSUME idle' = idle, active' = active
      PROVE  WithinLimit' /\ IsFiniteSet(idle')
  BY <1>1, <1>c DEF WithinLimit
<1>2. ASSUME NEW p \in Callers, \/ Begin(p) \/ GetClosed(p) \/ GetWait(p) \/ Wake(p)
                                \/ Cancel(p) \/ Discard(p)
      PROVE  WithinLimit' /\ IsFiniteSet(idle')
  BY <1>1, <1>2 DEF Begin, GetClosed, GetWait, Wake, Cancel, Discard
<1>3. ASSUME NEW p \in Callers, NEW c \in Conns, GetBad(p, c)
      PROVE  WithinLimit' /\ IsFiniteSet(idle')
  BY <1>3, <1>c, IdleShrinks DEF GetBad, WithinLimit
<1>4. ASSUME NEW p \in Callers, NEW c \in Conns, GetIdle(p, c)
      PROVE  WithinLimit' /\ IsFiniteSet(idle')
  BY <1>4, <1>c, IdleShrinks DEF GetIdle, WithinLimit
<1>5. ASSUME NEW p \in Callers, GetReserve(p)
      PROVE  WithinLimit' /\ IsFiniteSet(idle')
  BY <1>5, <1>c, <1>e DEF GetReserve, WithinLimit
<1>6. ASSUME NEW p \in Callers, NEW c \in Conns, Dialled(p, c)
      PROVE  WithinLimit' /\ IsFiniteSet(idle')
  BY <1>1, <1>6 DEF Dialled
<1>7. ASSUME NEW p \in Callers, DialFails(p)
      PROVE  WithinLimit' /\ IsFiniteSet(idle')
  BY <1>7, <1>c DEF DialFails, WithinLimit
<1>8. ASSUME NEW p \in Callers, Put(p)
      PROVE  WithinLimit' /\ IsFiniteSet(idle')
  <2>1. CASE idle' = idle \cup {mine[p]}
    <3>0. mine[p] \notin idle
      BY <1>8 DEF Put, Bookkeeping, OnePlace, Lent
    <3>1. IsFiniteSet(idle') /\ Cardinality(idle') = Cardinality(idle) + 1
      BY <2>1, <3>0, <1>c, FS_AddElement
    <3>2. Cardinality(idle') \in Nat
      BY <3>1, FS_CardinalityType
    <3>3. active' = active - 1
      BY <1>8 DEF Put
    <3>4. active \in Nat /\ (MaxActive # 0 => active + Cardinality(idle) <= MaxActive)
      BY DEF WithinLimit
    <3>5. MaxActive # 0 => active' + Cardinality(idle') <= MaxActive
      BY <1>c, <3>1, <3>2, <3>3, <3>4
    <3> QED
      BY <3>1, <3>5 DEF WithinLimit
  <2>2. CASE idle' = idle
    BY <1>8, <2>2, <1>c DEF Put, WithinLimit
  <2> QED
    BY <1>8, <2>1, <2>2 DEF Put
<1>9. ASSUME (\E c \in Conns : Spoil(c)) \/ Release
      PROVE  WithinLimit' /\ IsFiniteSet(idle')
  BY <1>1, <1>9 DEF Spoil, Release
<1>10. ASSUME Clean
       PROVE  WithinLimit' /\ IsFiniteSet(idle')
  <2>1. IsFiniteSet(idle \ bad) /\ Cardinality(idle \ bad) <= Cardinality(idle)
    BY <1>c, FS_Subset
  <2>2. Cardinality(idle \ bad) \in Nat
    BY <2>1, FS_CardinalityType
  <2> QED
    BY <1>10, <1>c, <2>1, <2>2 DEF Clean, WithinLimit
<1>11. ASSUME Close
       PROVE  WithinLimit' /\ IsFiniteSet(idle')
  BY <1>11, <1>c, <1>e DEF Close, WithinLimit
<1> QED
  BY <1>2, <1>3, <1>4, <1>5, <1>6, <1>7, <1>8, <1>9, <1>10, <1>11 DEF Next, Step

-----------------------------------------------------------------------------
(* Ownership                                                               *)

\* The part of PoolInv that says where every connection is.
Owned == OnePlace /\ ClosedIsDrained
           /\ (\A p \in Callers : mine[p] # NoConn <=> pc[p] \in {"hold", "discard"})
           /\ (~closed => drain = {})

\* A caller moves on without touching a connection.
LEMMA OwnedMoves ==
  ASSUME TypeOK, Owned, NEW p \in Callers, NEW s \in Pcs \ {"hold", "discard"},
         pc[p] \notin {"hold", "discard"}, pc' = [pc EXCEPT ![p] = s],
         UNCHANGED <<mine, idle, closed, drain, live>>
  PROVE  Owned'
<1>1. OnePlace' /\ ClosedIsDrained' /\ (~closed => drain = {})'
  BY DEF Owned, OnePlace, ClosedIsDrained, Lent
<1>2. \A q \in Callers : mine'[q] # NoConn <=> pc'[q] \in {"hold", "discard"}
  BY DEF Owned, TypeOK
<1> QED
  BY <1>1, <1>2 DEF Owned

\* A caller takes c, which was idle or is new.
LEMMA OwnedTakes ==
  ASSUME TypeOK, Owned, NEW p \in Callers, NEW c \in Conns, NEW s \in {"hold", "discard"},
         pc[p] \notin {"hold", "discard"}, pc' = [pc EXCEPT ![p] = s],
         mine' = [mine EXCEPT ![p] = c],
         c \in idle \/ c \notin live,
         idle' = idle \ {c}, live' = live \cup {c},
         UNCHANGED <<closed, drain>>
  PROVE  Owned'
<1>1. \A q \in Callers : mine'[q] # NoConn <=> pc'[q] \in {"hold", "discard"}
  BY NoConnApart DEF Owned, TypeOK
<1>2. mine[p] = NoConn /\ Lent' = Lent \cup {p} /\ p \notin Lent
  BY NoConnApart DEF Owned, TypeOK, Lent
<1>3. \A q \in Lent : mine[q] # c /\ mine'[q] = mine[q]
  BY <1>2 DEF Owned, OnePlace, TypeOK, Lent
<1>4. mine'[p] = c /\ c \notin drain
  BY DEF Owned, OnePlace, TypeOK
<1>5. \A q, r \in Lent' : mine'[q] = mine'[r] => q = r
  BY <1>2, <1>3, <1>4 DEF Owned, OnePlace
<1>6. \A q \in Lent' : mine'[q] \notin idle' \cup drain'
  BY <1>2, <1>3, <1>4 DEF Owned, OnePlace
<1>7. idle' \cap drain' = {}
  BY DEF Owned, OnePlace
<1>8. {mine'[q] : q \in Lent'} = {mine[q] : q \in Lent} \cup {c}
  BY <1>2, <1>3, <1>4
<1>9. live' = idle' \cup drain' \cup {mine'[q] : q \in Lent'}
  BY <1>8 DEF Owned, OnePlace
<1>10. OnePlace'
  BY <1>5, <1>6, <1>7, <1>9 DEF OnePlace
<1> QED
  BY <1>1, <1>10 DEF Owned, ClosedIsDrained

\* A caller gives its connection away: it is closed, or becomes idle.
LEMMA OwnedGives ==
  ASSUME TypeOK, Owned, NEW p \in Callers, NEW s \in Pcs \ {"hold", "discard"},
         pc[p] \in {"hold", "discard"}, pc' = [pc EXCEPT ![p] = s],
         mine' = [mine EXCEPT ![p] = NoConn],
         \/ idle' = idle /\ live' = live \ {mine[p]}
         \/ idle' = idle \cup {mine[p]} /\ live' = live /\ ~closed,
         UNCHANGED <<closed, drain>>
  PROVE  Owned'
<1>1. \A q \in Callers : mine'[q] # NoConn <=> pc'[q] \in {"hold", "discard"}
  BY NoConnApart DEF Owned, TypeOK
<1>2. p \in Lent /\ Lent' = Lent \ {p}
  BY DEF Owned, TypeOK, Lent
<1>3. \A q \in Lent' : mine[q] # mine[p] /\ mine'[q] = mine[q]
  BY <1>2 DEF Owned, OnePlace, TypeOK, Lent
<1>4. mine[p] \notin idle \cup drain
  BY <1>2 DEF Owned, OnePlace
<1>5. \A q, r \in Lent' : mine'[q] = mine'[r] => q = r
  BY <1>2, <1>3 DEF Owned, OnePlace
<1>6. \A q \in Lent' : mine'[q] \notin idle' \cup drain'
  BY <1>2, <1>3 DEF Owned, OnePlace
<1>7. idle' \cap drain' = {}
  BY <1>4 DEF Owned, OnePlace
<1>8. {mine'[q] : q \in Lent'} = {mine[q] : q \in Lent} \ {mine[p]}
  BY <1>2, <1>3
<1>9. live' = idle' \cup drain' \cup {mine'[q] : q \in Lent'}
  BY <1>2, <1>4, <1>8 DEF Owned, OnePlace
<1>10. OnePlace'
  BY <1>5, <1>6, <1>7, <1>9 DEF OnePlace
<1> QED
  BY <1>1, <1>10 DEF Owned, ClosedIsDrained

\* Nothing that concerns ownership changes.
LEMMA OwnedSame ==
  ASSUME Owned, UNCHANGED <<pc, mine, idle, closed, drain, live>>
  PROVE  Owned'
BY DEF Owned, OnePlace, ClosedIsDrained, Lent

\* The cleaner closes the expired idle connections.
LEMMA OwnedClean ==
  ASSUME TypeOK, Owned, Clean
  PROVE  Owned'
<1>1. UNCHANGED <<pc, mine, closed, drain>> /\ idle' = idle \ bad /\ live' = live \ (idle \cap bad)
  BY DEF Clean, Shut, poolVars
<1>2. Lent' = Lent
  BY <1>1 DEF Lent
<1>3. OnePlace'
  BY <1>1, <1>2 DEF Owned, OnePlace
<1> QED
  BY <1>1, <1>3 DEF Owned, ClosedIsDrained

\* Close moves the idle connections into its own hands.
LEMMA OwnedClose ==
  ASSUME TypeOK, Owned, Close
  PROVE  Owned'
<1>1. UNCHANGED <<pc, mine, live>> /\ closed' = TRUE /\ drain' = idle /\ idle' = {} /\ drain = {}
  BY DEF Close, Owned
<1>2. Lent' = Lent
  BY <1>1 DEF Lent
<1>3. OnePlace'
  BY <1>1, <1>2 DEF Owned, OnePlace
<1> QED
  BY <1>1, <1>3 DEF Owned, ClosedIsDrained

\* Close closes what it drained.
LEMMA OwnedRelease ==
  ASSUME TypeOK, Owned, Release
  PROVE  Owned'
<1>1. UNCHANGED <<pc, mine, idle, closed>> /\ drain' = {} /\ live' = live \ drain
  BY DEF Release, Shut
<1>2. Lent' = Lent
  BY <1>1 DEF Lent
<1>3. OnePlace'
  BY <1>1, <1>2 DEF Owned, OnePlace
<1> QED
  BY <1>1, <1>3 DEF Owned, ClosedIsDrained

\* Ownership through every step.
LEMMA OwnedNext ==
  ASSUME TypeOK, Owned, Next
  PROVE  Owned'
<1> USE DEF Goto, Take, Shut, Pcs, poolVars
<1>1. ASSUME NEW p \in Callers, \/ Begin(p) \/ GetClosed(p) \/ GetWait(p)
                                \/ Wake(p) \/ Cancel(p) \/ GetReserve(p) \/ DialFails(p)
      PROVE  Owned'
  BY <1>1, OwnedMoves DEF Begin, GetClosed, GetWait, Wake, Cancel, GetReserve, DialFails, Scanning
<1>2. ASSUME NEW p \in Callers, NEW c \in Conns, GetBad(p, c) \/ GetIdle(p, c)
      PROVE  Owned'
  <2>1. c \in idle /\ idle' = idle \ {c} /\ live' = live /\ UNCHANGED <<closed, drain>>
    BY <1>2 DEF GetBad, GetIdle
  <2>2. live' = live \cup {c}
    BY <2>1 DEF Owned, OnePlace
  <2>3. /\ pc[p] \notin {"hold", "discard"} /\ mine' = [mine EXCEPT ![p] = c]
        /\ \E s \in {"hold", "discard"} : pc' = [pc EXCEPT ![p] = s]
    BY <1>2 DEF GetBad, GetIdle, Scanning
  <2> QED
    BY <2>1, <2>2, <2>3, OwnedTakes
<1>3. ASSUME NEW p \in Callers, NEW c \in Conns, Dialled(p, c)
      PROVE  Owned'
  <2>1. c \notin live /\ idle' = idle /\ live' = live \cup {c} /\ UNCHANGED <<closed, drain>>
    BY <1>3 DEF Dialled
  <2>2. idle' = idle \ {c}
    BY <2>1 DEF Owned, OnePlace
  <2>3. pc[p] = "dial" /\ mine' = [mine EXCEPT ![p] = c] /\ pc' = [pc EXCEPT ![p] = "hold"]
    BY <1>3 DEF Dialled
  <2> QED
    BY <2>1, <2>2, <2>3, OwnedTakes
<1>4. ASSUME NEW p \in Callers, Discard(p)
      PROVE  Owned'
  BY <1>4, OwnedGives DEF Discard
<1>5. ASSUME NEW p \in Callers, Put(p)
      PROVE  Owned'
  <2>1. \/ idle' = idle /\ live' = live \ {mine[p]}
        \/ idle' = idle \cup {mine[p]} /\ live' = live /\ ~closed
    BY <1>5 DEF Put, PutBack
  <2>2. /\ pc[p] = "hold" /\ pc' = [pc EXCEPT ![p] = "out"]
        /\ mine' = [mine EXCEPT ![p] = NoConn] /\ UNCHANGED <<closed, drain>>
    BY <1>5 DEF Put
  <2> QED
    BY <2>1, <2>2, OwnedGives
<1>6. ASSUME NEW c \in Conns, Spoil(c)
      PROVE  Owned'
  BY <1>6, OwnedSame DEF Spoil
<1> QED
  BY <1>1, <1>2, <1>3, <1>4, <1>5, <1>6, OwnedClean, OwnedClose, OwnedRelease DEF Next, Step

-----------------------------------------------------------------------------
\* The empty pool satisfies the invariant.
LEMMA PoolInit == Init => PoolInv
<1> SUFFICES ASSUME Init PROVE PoolInv
  OBVIOUS
<1>1. Busy = {} /\ Lent = {}
  BY DEF Init, Busy, Lent
<1>2. Cardinality({}) = 0 /\ IsFiniteSet({})
  BY FS_EmptySet
<1>w. WaitCap \in Nat /\ 0 \in 0 .. WaitCap /\ 0 \in 0 .. MaxFailures
  BY PoolBounds DEF WaitCap
<1>b. closed \in BOOLEAN /\ released \in BOOLEAN
  BY DEF Init
<1>3. TypeOK
  BY <1>w, <1>b DEF Init, TypeOK, Pcs
<1>4. ActiveExact /\ WithinLimit /\ ClosedIsDrained
  BY <1>1, <1>2, PoolBounds DEF Init, ActiveExact, WithinLimit, ClosedIsDrained
<1>5. OnePlace /\ Bookkeeping
  BY <1>1, <1>2 DEF Init, OnePlace, Bookkeeping
<1> QED
  BY <1>3, <1>4, <1>5 DEF PoolInv

\* PoolInv holds in every reachable state of the pool.
THEOREM PoolInvariance == Spec => []PoolInv
<1>1. PoolInv /\ Next => PoolInv'
  <2> SUFFICES ASSUME PoolInv, Next PROVE PoolInv'
    OBVIOUS
  <2>1. TypeOK /\ ActiveExact /\ Bookkeeping /\ Owned
    BY DEF PoolInv, Owned, Bookkeeping
  <2>2. ActiveExact' /\ active' \in Nat
    BY <2>1, CountNext
  <2>3. TypeOK'
    BY <2>1, <2>2, TypeNext
  <2>4. WithinLimit' /\ IsFiniteSet(idle')
    BY <2>2, LimitNext
  <2>5. Owned'
    BY <2>1, OwnedNext
  <2> QED
    BY <2>2, <2>3, <2>4, <2>5 DEF PoolInv, Owned, Bookkeeping
<1>2. PoolInv /\ UNCHANGED vars => PoolInv'
  <2> SUFFICES ASSUME PoolInv, UNCHANGED vars PROVE PoolInv'
    OBVIOUS
  <2> USE DEF vars, PoolInv
  <2>1. TypeOK'
    BY DEF TypeOK
  <2>2. Busy' = Busy /\ Lent' = Lent
    BY DEF Busy, Lent
  <2>3. ActiveExact' /\ WithinLimit' /\ ClosedIsDrained'
    BY <2>2 DEF ActiveExact, WithinLimit, ClosedIsDrained
  <2>4. OnePlace' /\ Bookkeeping'
    BY <2>2 DEF OnePlace, Bookkeeping
  <2> QED
    BY <2>1, <2>3, <2>4
<1> QED
  BY PoolInit, <1>1, <1>2, PTL DEF Spec

\* Type correctness of the pool: the counter active is a natural number, so no
\* failed dial and no Put takes it below zero.
THEOREM PoolTypes == Spec => []TypeOK
BY PoolInvariance, PTL DEF PoolInv

\* p.active is exact: it is the number of connections lent out plus the slots
\* reserved for dials, whatever failed, expired or was closed.
THEOREM CounterIsExact == Spec => []ActiveExact
BY PoolInvariance, PTL DEF PoolInv

\* A limit, where one is set, bounds lent, reserved and idle connections together.
THEOREM LimitHolds == Spec => []WithinLimit
BY PoolInvariance, PTL DEF PoolInv

\* No connection is lent twice, lent while idle, or lost while open.
THEOREM ConnectionsHaveOnePlace == Spec => []OnePlace
BY PoolInvariance, PTL DEF PoolInv

\* After Close the pool keeps no idle connection.
THEOREM ClosedPoolIsEmpty == Spec => []ClosedIsDrained
BY PoolInvariance, PTL DEF PoolInv
=============================================================================
