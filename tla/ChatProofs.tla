----------------------------- MODULE ChatProofs -----------------------------
(***************************************************************************)
(* Proofs about the chat services of Logic: history pages and their cache  *)
(* (History), groups (Groups) and accounts (Accounts), for any number of   *)
(* users, messages, groups and requests.                                   *)
(***************************************************************************)
EXTENDS History, Groups, Accounts, NatOrder

-----------------------------------------------------------------------------
(* History: the cached first page, and a walk by cursor.                   *)

(* A page of n messages: the newest ones, and all when there are fewer.    *)
LEMMA NewestTop ==
  ASSUME NEW S \in SUBSET Nat, NEW b \in Nat, S \subseteq 1 .. b, NEW n \in Nat
  PROVE  /\ Newest(S, n) \subseteq S /\ IsFiniteSet(Newest(S, n))
         /\ \A m \in Newest(S, n), k \in S : k >= m => k \in Newest(S, n)
         /\ Cardinality(Newest(S, n)) # n => Newest(S, n) = S
<1> DEFINE N == Newest(S, n)
           Above(m) == {k \in S : k >= m}
<1>1. IsFiniteSet(S)
  <2>1. IsFiniteSet(1 .. b)
    BY FS_Interval
  <2> QED BY <2>1, FS_Subset
<1>2. \A m : IsFiniteSet(Above(m)) /\ Above(m) \subseteq S
  BY <1>1, FS_Subset
<1>3. N \subseteq S /\ (\A m \in S : m \in N <=> Cardinality(Above(m)) <= n)
  BY DEF Newest
<1>4. IsFiniteSet(N)
  BY <1>1, <1>3, FS_Subset
<1>5. \A m : Cardinality(Above(m)) \in Nat
  BY <1>2, FS_CardinalityType
<1>6. Cardinality(N) \in Nat
  BY <1>4, FS_CardinalityType
<1> HIDE DEF N
<1>7. ASSUME NEW m \in N, NEW k \in S, k >= m PROVE k \in N
  <2>1. m \in S /\ Above(k) \subseteq Above(m)
    <3>1. m \in S /\ m \in Nat /\ k \in Nat
      BY <1>3
    <3>2. ASSUME NEW j \in S, j >= k PROVE j >= m
      <4>1. j \in Nat
        OBVIOUS
      <4> QED BY <1>7, <3>1, <3>2, <4>1
    <3> QED BY <3>1, <3>2
  <2>2. Cardinality(Above(k)) <= Cardinality(Above(m))
    BY <1>2, <2>1, FS_Subset
  <2> HIDE DEF Above
  <2> QED BY <1>3, <1>5, <2>1, <2>2
<1>8. Cardinality(N) <= n
  <2>1. CASE N = {}
    BY <2>1, FS_EmptySet
  <2>2. CASE N # {}
    <3>1. PICK m \in N : \A k \in N : m <= k
      BY <1>3, <2>2, Least
    <3>2. N \subseteq Above(m)
      BY <1>3, <3>1
    <3>3. Cardinality(N) <= Cardinality(Above(m))
      BY <1>2, <3>2, FS_Subset
    <3> HIDE DEF Above
    <3> QED BY <1>3, <1>5, <1>6, <3>1, <3>3
  <2> QED BY <2>1, <2>2
<1>9. ASSUME Cardinality(N) # n PROVE N = S
  <2> SUFFICES ASSUME S \ N # {} PROVE FALSE
    BY <1>3
  <2>1. \A k \in S \ N : k <= b
    OBVIOUS
  <2>2. PICK m \in S \ N : \A k \in S \ N : k <= m
    BY <2>1, Greatest
  <2>3. Above(m) \subseteq N \cup {m}
    <3> SUFFICES ASSUME NEW j \in S, j >= m, j \notin N PROVE j = m
      OBVIOUS
    <3>1. j <= m /\ j \in Nat /\ m \in Nat
      BY <2>2
    <3> QED BY <3>1
  <2>4. IsFiniteSet(N \cup {m}) /\ Cardinality(N \cup {m}) = Cardinality(N) + 1
    BY <1>4, FS_AddElement
  <2>5. Cardinality(Above(m)) <= Cardinality(N) + 1
    BY <2>3, <2>4, FS_Subset
  <2> HIDE DEF Above
  <2>6. Cardinality(Above(m)) <= n
    BY <1>5, <1>6, <1>8, <1>9, <2>5
  <2> QED BY <1>3, <2>2, <2>6
<1> QED BY <1>3, <1>4, <1>7, <1>9 DEF N

(* Message identifiers, pages and walks.                                   *)
MsgIds == Nat \ {0}

CachedPages == [msgs : SUBSET MsgIds, more : BOOLEAN, late : BOOLEAN]
DbPages == [msgs : SUBSET MsgIds, more : BOOLEAN]

Walks ==
  [stage : {"idle", "cache", "db", "fill", "done"}, user : Pair, limit : Limits \cup {1},
   cursor : Nat, got : SUBSET MsgIds, twice : BOOLEAN, start : SUBSET MsgIds,
   page : CachedPages \cup DbPages, at : Nat, hit : BOOLEAN, walks : Nat]

(* Receive, field by field.                                                *)
LEMMA ReceiveFields ==
  ASSUME NEW w \in Walks, NEW p, p.msgs \in SUBSET MsgIds, p.more \in BOOLEAN,
         p.more => p.msgs # {}
  PROVE  LET r == Receive(w, p)
         IN /\ r \in Walks
            /\ r.stage = (IF p.more THEN "db" ELSE "done")
            /\ p.more => r.cursor \in p.msgs /\ \A m \in p.msgs : r.cursor <= m
            /\ r.got = w.got \cup p.msgs /\ (r.twice <=> w.twice \/ w.got \cap p.msgs # {})
            /\ r.user = w.user /\ r.limit = w.limit /\ r.start = w.start /\ r.hit = w.hit
<1> DEFINE c == IF p.more THEN Min(p.msgs) ELSE w.cursor
           s == IF p.more THEN "db" ELSE "done"
           t == w.twice \/ w.got \cap p.msgs # {}
           g == w.got \cup p.msgs
<1>1. c \in Nat /\ (p.more => c \in p.msgs /\ \A m \in p.msgs : c <= m)
  <2>1. CASE p.more
    BY <2>1, MinLeast DEF MsgIds
  <2>2. CASE ~p.more
    BY <2>2 DEF Walks
  <2> QED BY <2>1, <2>2
<1>2. s \in {"idle", "cache", "db", "fill", "done"} /\ t \in BOOLEAN /\ g \in SUBSET MsgIds
  BY DEF Walks
<1>3. Receive(w, p) = [w EXCEPT !.stage = s, !.cursor = c, !.got = g, !.twice = t]
  BY DEF Receive
<1> HIDE DEF c, s, t, g
<1>4. PICK r : r = [w EXCEPT !.stage = s, !.cursor = c, !.got = g, !.twice = t]
  OBVIOUS
<1>5. /\ r \in Walks
      /\ r.stage = s /\ r.cursor = c /\ r.got = g /\ r.twice = t
      /\ r.user = w.user /\ r.limit = w.limit /\ r.start = w.start /\ r.hit = w.hit
  BY <1>1, <1>2, <1>4 DEF Walks
<1>6. r = Receive(w, p)
  BY <1>3, <1>4
<1>7. r.stage = (IF p.more THEN "db" ELSE "done") /\ r.got = w.got \cup p.msgs
  BY <1>5 DEF s, g
<1>8. r.twice <=> w.twice \/ w.got \cap p.msgs # {}
  BY <1>5 DEF t
<1>9. p.more => r.cursor \in p.msgs /\ \A m \in p.msgs : r.cursor <= m
  BY <1>1, <1>5
<1> QED BY <1>5, <1>6, <1>7, <1>8, <1>9

(* The variables the invariant is about.                                   *)
HistoryTypes ==
  /\ sent \in Nat /\ rows \subseteq 1 .. sent /\ sweeps \in Nat /\ lostDel \in BOOLEAN
  /\ cached \in [Pair \X Limits -> CachedPages]
  /\ walk \in [Clients -> Walks]

(* A sweep is still to come, or was lost.                                  *)
Unswept == upload # "idle" \/ erase = "sweep" \/ lostDel

Current(p, l) == [msgs |-> p.msgs, more |-> p.more] = Page(rows, 0, l)

CacheSound ==
  \A u \in Pair, l \in SweptLimits :
    cached[<<u, l>>].msgs # {} /\ ~Current(cached[<<u, l>>], l) => Unswept \/ cached[<<u, l>>].late

(* A page between its query and its way into the cache.                    *)
FillSound(w) ==
  w.stage = "fill" =>
    /\ w.at <= sweeps /\ w.limit \in Limits /\ w.page.msgs # {}
    /\ w.at = sweeps /\ ~Current(w.page, w.limit) => Unswept

(* Where a walk is: what it has is at or above its cursor, and of what     *)
(* there was at its start and still is, it has all from the cursor on.     *)
Fresh(w) == w.stage \in {"cache", "fill"} \/ (w.stage = "db" /\ w.cursor = 0)
Honoured(w) == w.limit <= MaxChatLimit /\ ~w.hit

WalkSound(w) ==
  /\ w.stage # "idle" => w.limit \in Limits
  /\ ~w.twice /\ w.start \subseteq 1 .. sent
  /\ Fresh(w) => w.cursor = 0 /\ w.got = {}
  /\ w.stage = "db" => \A m \in w.got : m >= w.cursor
  /\ Honoured(w) =>
       /\ w.stage = "db" /\ w.cursor # 0 =>
            \A m \in w.start \cap rows : m >= w.cursor => m \in w.got
       /\ w.stage = "fill" =>
            \A m \in w.start \cap rows :
              (w.page.more => \E k \in w.page.msgs : m >= k) => m \in w.page.msgs
       /\ w.stage = "done" => w.start \cap rows \subseteq w.got

HistoryInv ==
  /\ HistoryTypes /\ CacheSound
  /\ \A c \in Clients : FillSound(walk[c]) /\ WalkSound(walk[c])

(* What a query answers.                                                   *)
LEMMA PageFacts ==
  ASSUME HistoryTypes, NEW cursor \in Nat, NEW l \in Limits
  PROVE  LET p == Page(rows, cursor, l)
         IN /\ p \in DbPages /\ p.msgs \subseteq Below(rows, cursor)
            /\ p.more => p.msgs # {}
            /\ l <= MaxChatLimit =>
                 \A m \in Below(rows, cursor) : (p.more => \E k \in p.msgs : m >= k) => m \in p.msgs
<1> DEFINE S == Below(rows, cursor)
           n == dbLimit(l)
           N == Newest(S, n)
<1>1. S \in SUBSET Nat /\ S \subseteq 1 .. sent /\ sent \in Nat
  <2>1. S \subseteq rows /\ rows \subseteq 1 .. sent /\ sent \in Nat
    BY DEF HistoryTypes, Below
  <2>2. 1 .. sent \subseteq Nat
    BY <2>1
  <2> HIDE DEF S
  <2> QED BY <2>1, <2>2, Zenon
<1>2. n \in Nat /\ (l <= MaxChatLimit => n = l) /\ l \in Nat \ {0}
  BY HistoryBounds DEF dbLimit
<1> HIDE DEF S, n
<1>3. /\ N \subseteq S /\ IsFiniteSet(N)
      /\ \A m \in N, k \in S : k >= m => k \in N
      /\ Cardinality(N) # n => N = S
  BY <1>1, <1>2, NewestTop
<1>4. Page(rows, cursor, l) = [msgs |-> N, more |-> Cardinality(N) = l]
  BY DEF Page, S, n
<1> HIDE DEF N
<1>5. N \in SUBSET MsgIds
  BY <1>1, <1>3 DEF MsgIds
<1>6. Cardinality(N) = l => N # {}
  BY <1>2, FS_EmptySet
<1>7. ASSUME l <= MaxChatLimit, NEW m \in S, Cardinality(N) = l => \E k \in N : m >= k
      PROVE  m \in N
  BY <1>2, <1>3, <1>7
<1>8. PICK p : p = Page(rows, cursor, l)
  OBVIOUS
<1>9. p \in DbPages /\ p.msgs = N /\ (p.more <=> Cardinality(N) = l)
  <2> DEFINE b == Cardinality(N) = l
  <2>1. b \in BOOLEAN
    OBVIOUS
  <2>2. p = [msgs |-> N, more |-> b]
    BY <1>4, <1>8
  <2> HIDE DEF b
  <2>3. p \in DbPages /\ p.msgs = N /\ p.more = b
    BY <1>5, <2>1, <2>2 DEF DbPages
  <2> QED BY <2>3 DEF b
<1>10. p.more => p.msgs # {}
  BY <1>6, <1>9
<1>11. l <= MaxChatLimit =>
         \A m \in S : (p.more => \E k \in p.msgs : m >= k) => m \in p.msgs
  BY <1>7, <1>9
<1> QED BY <1>3, <1>8, <1>9, <1>10, <1>11 DEF S

(* The start.                                                              *)
LEMMA HistoryStart == HistoryInit => HistoryInv
<1> SUFFICES ASSUME HistoryInit PROVE HistoryInv
  OBVIOUS
<1>1. NoPage \in CachedPages
  BY DEF NoPage, CachedPages
<1>2. IdleWalk \in Walks
  BY <1>1 DEF IdleWalk, Walks, Pair
<1>3. HistoryTypes
  BY <1>1, <1>2 DEF HistoryInit, HistoryTypes
<1>4. CacheSound
  BY HistoryBounds DEF HistoryInit, CacheSound, NoPage
<1>5. FillSound(IdleWalk) /\ WalkSound(IdleWalk)
  BY DEF FillSound, WalkSound, Fresh, IdleWalk
<1> QED BY <1>3, <1>4, <1>5 DEF HistoryInv, HistoryInit

(* A client's step, the tables and the sweeps unchanged.                   *)
LEMMA OneWalkKeeps ==
  ASSUME HistoryInv, NEW c \in Clients, NEW r \in Walks, SetWalk(c, r),
         UNCHANGED <<rows, sent, sweeps, lostDel, upload, erase>>,
         FillSound(r), WalkSound(r), cached' \in [Pair \X Limits -> CachedPages], CacheSound'
  PROVE  HistoryInv'
<1>1. /\ walk' \in [Clients -> Walks] /\ walk'[c] = r
      /\ \A d \in Clients \ {c} : walk'[d] = walk[d]
  BY DEF SetWalk, HistoryInv, HistoryTypes
<1>2. HistoryTypes'
  BY <1>1 DEF HistoryInv, HistoryTypes
<1>3. \A w : (FillSound(w) => FillSound(w)') /\ (WalkSound(w) => WalkSound(w)')
  BY DEF FillSound, WalkSound, Current, Unswept
<1>4. ASSUME NEW d \in Clients PROVE FillSound(walk[d])' /\ WalkSound(walk[d])'
  <2>1. FillSound(walk'[d]) /\ WalkSound(walk'[d])
    BY <1>1 DEF HistoryInv
  <2> QED BY <1>3, <2>1
<1> QED BY <1>2, <1>4 DEF HistoryInv

(* Steps that leave the messages, the pages and the walks alone and no     *)
(* sweep undone.                                                           *)
LEMMA AsideKeeps ==
  ASSUME HistoryInv, UNCHANGED <<rows, sent, cached, sweeps, lostDel, walk>>, Unswept => Unswept'
  PROVE  HistoryInv'
<1>1. HistoryTypes'
  BY DEF HistoryInv, HistoryTypes
<1>2. \A p, l : Current(p, l)' <=> Current(p, l)
  BY DEF Current
<1>3. CacheSound'
  BY <1>2 DEF HistoryInv, CacheSound
<1>4. \A w : (FillSound(w) => FillSound(w)') /\ (WalkSound(w) => WalkSound(w)')
  BY <1>2 DEF FillSound, WalkSound
<1> QED BY <1>1, <1>3, <1>4 DEF HistoryInv

(* Messages come with a number above all others or go; a sweep follows.    *)
LEMMA RowsKeep ==
  ASSUME HistoryInv, Unswept', UNCHANGED <<cached, sweeps, lostDel, walk>>,
         \/ rows' \in {{}, rows} /\ sent' = sent
         \/ rows' = rows \cup {sent + 1} /\ sent' = sent + 1
  PROVE  HistoryInv'
<1>1. sent \in Nat /\ rows \subseteq 1 .. sent
  BY DEF HistoryInv, HistoryTypes
<1>2. sent' \in Nat /\ sent' >= sent /\ rows' \subseteq 1 .. sent'
  <2>1. CASE rows' \in {{}, rows} /\ sent' = sent
    <3>1. rows' = {} \/ rows' = rows
      BY <2>1
    <3>2. sent' \in Nat /\ sent' >= sent /\ 1 .. sent' = 1 .. sent
      BY <1>1, <2>1
    <3> QED BY <1>1, <3>1, <3>2, Zenon
  <2>2. CASE rows' = rows \cup {sent + 1} /\ sent' = sent + 1
    <3>1. 1 .. sent \subseteq 1 .. sent + 1 /\ sent + 1 \in 1 .. sent + 1
      BY <1>1
    <3> QED BY <1>1, <2>2, <3>1
  <2> QED BY <2>1, <2>2
<1>3. \A S : S \subseteq 1 .. sent => S \cap rows' \subseteq S \cap rows /\ S \subseteq 1 .. sent'
  <2> SUFFICES ASSUME NEW S, S \subseteq 1 .. sent
               PROVE  S \cap rows' \subseteq S \cap rows /\ S \subseteq 1 .. sent'
    OBVIOUS
  <2>1. sent + 1 \notin S
    BY <1>1
  <2>2. 1 .. sent \subseteq 1 .. sent'
    BY <1>1, <1>2
  <2> QED BY <2>1, <2>2
<1>4. HistoryTypes'
  BY <1>2 DEF HistoryInv, HistoryTypes
<1>5. CacheSound'
  BY DEF CacheSound
<1>6. ASSUME NEW c \in Clients PROVE FillSound(walk[c])' /\ WalkSound(walk[c])'
  <2> DEFINE w == walk[c]
  <2>1. w' = w
    OBVIOUS
  <2>2. FillSound(w) /\ WalkSound(w)
    BY DEF HistoryInv
  <2>3. FillSound(w)'
    BY <2>1, <2>2 DEF FillSound
  <2>4. w.start \cap rows' \subseteq w.start \cap rows /\ w.start \subseteq 1 .. sent'
    BY <1>3, <2>2 DEF WalkSound
  <2>5. WalkSound(w)'
    BY <2>1, <2>2, <2>4 DEF WalkSound, Honoured, Fresh
  <2> QED BY <2>3, <2>5
<1> QED BY <1>4, <1>5, <1>6 DEF HistoryInv

(* A sweep empties the pages it knows; a page queried before it and        *)
(* written after it is late.                                               *)
LEMMA SweepKeeps ==
  ASSUME HistoryInv, invalidateChatCache, UNCHANGED <<rows, sent, walk>>
  PROVE  HistoryInv'
<1>1. NoPage \in CachedPages /\ NoPage.msgs = {}
  BY DEF NoPage, CachedPages
<1>2. \A w : WalkSound(w) => WalkSound(w)'
  BY DEF WalkSound
<1>3. CASE lostDel' = TRUE /\ UNCHANGED <<cached, sweeps>>
  <2>1. HistoryTypes' /\ Unswept'
    BY <1>3 DEF HistoryInv, HistoryTypes, Unswept
  <2>2. CacheSound' /\ \A w : FillSound(w) => FillSound(w)'
    BY <1>3, <2>1 DEF CacheSound, FillSound
  <2> QED BY <1>2, <2>1, <2>2 DEF HistoryInv
<1>4. CASE /\ cached' = [k \in Pair \X Limits |-> IF k[2] \in SweptLimits THEN NoPage ELSE cached[k]]
           /\ sweeps' = sweeps + 1 /\ UNCHANGED lostDel
  <2>1. HistoryTypes'
    <3>1. cached' \in [Pair \X Limits -> CachedPages]
      BY <1>1, <1>4 DEF HistoryInv, HistoryTypes
    <3>2. sweeps' \in Nat
      BY <1>4 DEF HistoryInv, HistoryTypes
    <3> QED BY <1>4, <3>1, <3>2 DEF HistoryInv, HistoryTypes
  <2>2. CacheSound'
    <3> SUFFICES ASSUME NEW u \in Pair, NEW l \in SweptLimits PROVE cached'[<<u, l>>].msgs = {}
      BY DEF CacheSound
    <3>1. <<u, l>> \in Pair \X Limits /\ <<u, l>>[2] = l
      BY HistoryBounds
    <3> QED BY <1>1, <1>4, <3>1
  <2>3. ASSUME NEW c \in Clients PROVE FillSound(walk[c])'
    <3>1. walk'[c] = walk[c] /\ FillSound(walk[c])
      BY DEF HistoryInv
    <3>2. walk[c].at \in Nat /\ sweeps \in Nat
      BY DEF HistoryInv, HistoryTypes, Walks
    <3>3. walk[c].at <= sweeps => walk[c].at <= sweeps' /\ walk[c].at # sweeps'
      BY <1>4, <3>2
    <3> QED BY <3>1, <3>3 DEF FillSound
  <2> QED BY <1>2, <2>1, <2>2, <2>3 DEF HistoryInv
<1> QED BY <1>3, <1>4 DEF invalidateChatCache

(* A page expires.                                                         *)
LEMMA ExpireKeeps ==
  ASSUME HistoryInv, NEW k \in Pair \X Limits, ExpirePage(k)
  PROVE  HistoryInv'
<1>1. NoPage \in CachedPages /\ NoPage.msgs = {}
  BY DEF NoPage, CachedPages
<1>2. /\ cached' = [cached EXCEPT ![k] = NoPage]
      /\ UNCHANGED <<rows, sent, sweeps, lostDel, upload, erase, walk>>
  BY DEF ExpirePage
<1>3. /\ cached' \in [Pair \X Limits -> CachedPages]
      /\ \A j \in Pair \X Limits : cached'[j] = cached[j] \/ cached'[j] = NoPage
  BY <1>1, <1>2 DEF HistoryInv, HistoryTypes
<1>4. HistoryTypes'
  BY <1>2, <1>3 DEF HistoryInv, HistoryTypes
<1>5. \A p, l : Current(p, l)' <=> Current(p, l)
  BY <1>2 DEF Current
<1>6. CacheSound'
  <2> SUFFICES ASSUME NEW u \in Pair, NEW l \in SweptLimits, cached'[<<u, l>>].msgs # {},
                      ~Current(cached'[<<u, l>>], l)
               PROVE  Unswept \/ cached'[<<u, l>>].late
    BY <1>2, <1>5 DEF CacheSound, Unswept
  <2>1. <<u, l>> \in Pair \X Limits
    BY HistoryBounds
  <2>2. cached'[<<u, l>>] = cached[<<u, l>>]
    BY <1>1, <1>3, <2>1
  <2> QED BY <2>2 DEF HistoryInv, CacheSound
<1>7. \A w : (FillSound(w) => FillSound(w)') /\ (WalkSound(w) => WalkSound(w)')
  BY <1>2, <1>5 DEF FillSound, WalkSound, Unswept
<1> QED BY <1>2, <1>4, <1>6, <1>7 DEF HistoryInv

(* The cache, when nobody touches it.                                      *)
LEMMA CacheSame ==
  ASSUME HistoryInv, UNCHANGED <<rows, sent, cached, sweeps, lostDel, upload, erase>>
  PROVE  cached' \in [Pair \X Limits -> CachedPages] /\ CacheSound'
<1>1. \A p, l : Current(p, l)' <=> Current(p, l)
  BY DEF Current
<1> QED BY <1>1 DEF HistoryInv, HistoryTypes, CacheSound, Unswept

(* A walk begins, or ends.                                                 *)
LEMMA OpenCloseKeeps ==
  ASSUME HistoryInv, NEW c \in Clients, OpenHistory(c) \/ CloseWalk(c)
  PROVE  HistoryInv'
<1>1. UNCHANGED <<rows, sent, cached, sweeps, lostDel, upload, erase>>
  BY DEF OpenHistory, CloseWalk
<1>2. IdleWalk \in Walks
  <2>1. NoPage \in CachedPages
    BY DEF NoPage, CachedPages
  <2> QED BY <2>1 DEF IdleWalk, Walks, Pair
<1>3. walk[c].walks \in Nat /\ walk[c].walks + 1 \in Nat
  BY DEF HistoryInv, HistoryTypes, Walks
<1>4. rows \in SUBSET MsgIds /\ rows \subseteq 1 .. sent
  <2>1. rows \subseteq 1 .. sent /\ sent \in Nat
    BY DEF HistoryInv, HistoryTypes
  <2>2. 1 .. sent \subseteq MsgIds
    BY <2>1 DEF MsgIds
  <2> QED BY <2>1, <2>2, Zenon
<1>5. IdleWalk.cursor = 0 /\ IdleWalk.got = {} /\ IdleWalk.twice = FALSE /\ IdleWalk.start = {}
      /\ IdleWalk.stage = "idle"
  BY DEF IdleWalk
<1>6. ASSUME NEW u \in Pair, NEW l \in Limits,
             SetWalk(c, [IdleWalk EXCEPT !.stage = "cache", !.user = u, !.limit = l,
                                         !.start = rows, !.walks = walk[c].walks + 1])
      PROVE  HistoryInv'
  <2>1. PICK r : r = [IdleWalk EXCEPT !.stage = "cache", !.user = u, !.limit = l,
                                      !.start = rows, !.walks = walk[c].walks + 1]
    OBVIOUS
  <2>2. /\ r \in Walks /\ r.stage = "cache" /\ r.limit = l /\ r.start = rows
        /\ r.cursor = 0 /\ r.got = {} /\ r.twice = FALSE
    BY <1>2, <1>3, <1>4, <1>5, <2>1 DEF Walks
  <2>3. FillSound(r) /\ WalkSound(r)
    BY <1>4, <2>2 DEF FillSound, WalkSound, Fresh
  <2> QED BY <1>1, <1>6, <2>1, <2>2, <2>3, OneWalkKeeps, CacheSame
<1>7. ASSUME SetWalk(c, [IdleWalk EXCEPT !.walks = walk[c].walks]) PROVE HistoryInv'
  <2>1. PICK r : r = [IdleWalk EXCEPT !.walks = walk[c].walks]
    OBVIOUS
  <2>2. /\ r \in Walks /\ r.stage = "idle" /\ r.start = {}
        /\ r.cursor = 0 /\ r.got = {} /\ r.twice = FALSE
    BY <1>2, <1>3, <1>5, <2>1 DEF Walks
  <2>3. FillSound(r) /\ WalkSound(r)
    BY <2>2 DEF FillSound, WalkSound, Fresh
  <2> QED BY <1>1, <1>7, <2>1, <2>2, <2>3, OneWalkKeeps, CacheSame
<1> QED BY <1>6, <1>7 DEF OpenHistory, CloseWalk

(* The first page from the cache: a hit.                                   *)
LEMMA CacheKeeps ==
  ASSUME HistoryInv, NEW c \in Clients, CacheHit(c) \/ CacheMiss(c)
  PROVE  HistoryInv'
<1> DEFINE w == walk[c]
<1>1. UNCHANGED <<rows, sent, cached, sweeps, lostDel, upload, erase>> /\ w.stage = "cache"
  BY DEF CacheHit, CacheMiss
<1>2. w \in Walks /\ FillSound(w) /\ WalkSound(w)
  BY DEF HistoryInv, HistoryTypes
<1>3. /\ w.cursor = 0 /\ w.got = {} /\ w.limit \in Limits /\ w.start \subseteq 1 .. sent
      /\ w.twice = FALSE /\ w.user \in Pair
  BY <1>1, <1>2 DEF WalkSound, Fresh, Walks
<1> DEFINE p == cached[<<w.user, w.limit>>]
<1>4. p \in CachedPages
  BY <1>3 DEF HistoryInv, HistoryTypes
<1>5. p.msgs \in SUBSET MsgIds /\ p.more \in BOOLEAN
  BY <1>4 DEF CachedPages
<1>6. \/ SetWalk(c, [w EXCEPT !.stage = "db"])
      \/ p.msgs # {} /\ SetWalk(c, [Receive(w, p) EXCEPT !.hit = TRUE])
  BY DEF CacheHit, CacheMiss
<1> HIDE DEF w, p
<1>7. CASE SetWalk(c, [w EXCEPT !.stage = "db"])
  <2>1. PICK r : r = [w EXCEPT !.stage = "db"]
    OBVIOUS
  <2>2. /\ r \in Walks /\ r.stage = "db" /\ r.limit = w.limit /\ r.start = w.start
        /\ r.cursor = 0 /\ r.got = {} /\ r.twice = FALSE
    BY <1>2, <1>3, <2>1 DEF Walks
  <2>3. FillSound(r) /\ WalkSound(r)
    BY <1>3, <2>2 DEF FillSound, WalkSound, Fresh
  <2> QED BY <1>1, <1>7, <2>1, <2>2, <2>3, OneWalkKeeps, CacheSame
<1>8. CASE p.msgs # {} /\ SetWalk(c, [Receive(w, p) EXCEPT !.hit = TRUE])
  <2>1. PICK q : q = Receive(w, p)
    OBVIOUS
  <2>2. /\ q \in Walks /\ q.stage = (IF p.more THEN "db" ELSE "done")
        /\ p.more => q.cursor \in p.msgs /\ \A m \in p.msgs : q.cursor <= m
        /\ q.got = w.got \cup p.msgs /\ (q.twice <=> w.twice \/ w.got \cap p.msgs # {})
        /\ q.limit = w.limit /\ q.start = w.start
    BY <1>2, <1>5, <1>8, <2>1, ReceiveFields
  <2>3. PICK r : r = [q EXCEPT !.hit = TRUE]
    OBVIOUS
  <2>4. /\ r \in Walks /\ r.stage = q.stage /\ r.limit = q.limit /\ r.start = q.start
        /\ r.cursor = q.cursor /\ r.got = q.got /\ r.twice = q.twice /\ r.hit = TRUE
    BY <2>2, <2>3 DEF Walks
  <2>5. r.got = p.msgs /\ r.twice = FALSE /\ ~Honoured(r)
    BY <1>3, <2>2, <2>4 DEF Walks, Honoured
  <2>6. r.stage = "db" => r.cursor # 0 /\ \A m \in r.got : m >= r.cursor
    <3>1. \A m \in p.msgs : m \in Nat \ {0}
      BY <1>5 DEF MsgIds
    <3>2. q.stage = "db" => p.more
      BY <2>2
    <3> QED BY <2>2, <2>4, <2>5, <3>1, <3>2
  <2>7. FillSound(r) /\ WalkSound(r)
    BY <1>3, <2>2, <2>4, <2>5, <2>6 DEF FillSound, WalkSound, Fresh
  <2> QED BY <1>1, <1>8, <2>1, <2>3, <2>4, <2>7, OneWalkKeeps, CacheSame
<1> QED BY <1>6, <1>7, <1>8

(* A page arrives that was not counted yet: what the walk has stays above  *)
(* its cursor and complete down to it.                                     *)
LEMMA ReceiveSound ==
  ASSUME HistoryInv, NEW w \in Walks, WalkSound(w), w.stage \in {"db", "fill"},
         NEW p, p.msgs \in SUBSET MsgIds, p.more \in BOOLEAN, p.more => p.msgs # {},
         w.cursor = 0 \/ (\A m \in p.msgs : m < w.cursor),
         Honoured(w) =>
           \A m \in w.start \cap rows :
             (w.cursor = 0 \/ m < w.cursor) /\ (p.more => \E k \in p.msgs : m >= k) => m \in p.msgs
  PROVE  Receive(w, p) \in Walks /\ FillSound(Receive(w, p)) /\ WalkSound(Receive(w, p))
<1>1. /\ w.limit \in Limits /\ w.twice = FALSE /\ w.start \subseteq 1 .. sent
      /\ w.cursor \in Nat /\ w.got \in SUBSET MsgIds
  BY DEF WalkSound, Walks
<1>2. sent \in Nat
  BY DEF HistoryInv, HistoryTypes
<1>3. w.cursor = 0 => w.got = {}
  BY DEF WalkSound, Fresh
<1>4. w.cursor # 0 => w.stage = "db" /\ \A m \in w.got : m >= w.cursor
  BY DEF WalkSound, Fresh
<1>5. \A m \in p.msgs : m \in Nat /\ m # 0
  BY DEF MsgIds
<1>6. \A m \in w.got : m \in Nat
  BY <1>1 DEF MsgIds
<1>7. w.got \cap p.msgs = {}
  BY <1>1, <1>3, <1>4, <1>5, <1>6
<1>8. PICK r : r = Receive(w, p)
  OBVIOUS
<1>9. /\ r \in Walks /\ r.stage = (IF p.more THEN "db" ELSE "done")
      /\ p.more => r.cursor \in p.msgs /\ \A m \in p.msgs : r.cursor <= m
      /\ r.got = w.got \cup p.msgs /\ (r.twice <=> w.twice \/ w.got \cap p.msgs # {})
      /\ r.limit = w.limit /\ r.start = w.start /\ r.hit = w.hit
  BY <1>8, ReceiveFields
<1>10. ~r.twice /\ (Honoured(r) <=> Honoured(w))
  BY <1>1, <1>7, <1>9 DEF Honoured
<1>11. r.stage = "db" => p.more /\ r.cursor \in Nat /\ r.cursor # 0
  BY <1>5, <1>9
<1>12. r.stage = "db" => \A m \in r.got : m >= r.cursor
  <2> SUFFICES ASSUME r.stage = "db", NEW m \in r.got PROVE m >= r.cursor
    OBVIOUS
  <2>1. CASE m \in p.msgs
    BY <1>5, <1>9, <1>11, <2>1
  <2>2. CASE m \in w.got
    <3>1. w.cursor # 0 /\ m >= w.cursor /\ m \in Nat
      BY <1>3, <1>4, <1>6, <2>2
    <3>2. r.cursor < w.cursor
      BY <1>9, <1>11, <3>1
    <3> QED BY <1>1, <1>11, <3>1, <3>2
  <2> QED BY <1>9, <2>1, <2>2
<1>13. \A m \in w.start : m \in Nat
  BY <1>1, <1>2
<1>14. ASSUME Honoured(w), NEW m \in w.start \cap rows, p.more => \E k \in p.msgs : m >= k
       PROVE  m \in r.got
  <2>1. CASE w.cursor = 0 \/ m < w.cursor
    BY <1>9, <1>14, <2>1
  <2>2. CASE w.cursor # 0 /\ m >= w.cursor
    BY <1>4, <1>9, <1>14, <2>2 DEF WalkSound
  <2> QED BY <1>1, <1>13, <2>1, <2>2
<1>15. Honoured(r) =>
         /\ r.stage = "db" /\ r.cursor # 0 => \A m \in r.start \cap rows : m >= r.cursor => m \in r.got
         /\ r.stage = "done" => r.start \cap rows \subseteq r.got
  <2>1. ASSUME Honoured(w), p.more, NEW m \in w.start \cap rows, m >= r.cursor PROVE m \in r.got
    BY <1>9, <1>14, <2>1
  <2>2. ASSUME Honoured(w), ~p.more, NEW m \in w.start \cap rows PROVE m \in r.got
    BY <1>14, <2>2
  <2> QED BY <1>9, <1>10, <1>11, <2>1, <2>2
<1>16. r.stage \in {"db", "done"}
  BY <1>9
<1>17. FillSound(r)
  BY <1>16 DEF FillSound
<1>18. WalkSound(r)
  BY <1>1, <1>9, <1>10, <1>11, <1>12, <1>15, <1>16 DEF WalkSound, Fresh
<1> QED BY <1>8, <1>9, <1>17, <1>18

(* A query reads what is below the cursor.                                 *)
LEMMA QueryKeeps ==
  ASSUME HistoryInv, NEW c \in Clients, Query(c)
  PROVE  HistoryInv'
<1> DEFINE w == walk[c]
           p == Page(rows, w.cursor, w.limit)
<1>1. /\ UNCHANGED <<rows, sent, cached, sweeps, lostDel, upload, erase>> /\ w.stage = "db"
      /\ SetWalk(c, IF w.cursor = 0 /\ p.msgs # {}
                    THEN [w EXCEPT !.stage = "fill", !.page = p, !.at = sweeps]
                    ELSE Receive(w, p))
  BY DEF Query
<1>2. w \in Walks /\ FillSound(w) /\ WalkSound(w)
  BY DEF HistoryInv, HistoryTypes
<1>3. w.cursor \in Nat /\ w.limit \in Limits /\ w.start \subseteq 1 .. sent /\ w.twice = FALSE
  BY <1>1, <1>2 DEF WalkSound, Walks
<1>4. HistoryTypes /\ sweeps \in Nat
  BY DEF HistoryInv, HistoryTypes
<1> HIDE DEF w
<1>5. /\ p \in DbPages /\ p.msgs \subseteq Below(rows, w.cursor)
      /\ p.more => p.msgs # {}
      /\ w.limit <= MaxChatLimit =>
           \A m \in Below(rows, w.cursor) : (p.more => \E k \in p.msgs : m >= k) => m \in p.msgs
  BY <1>3, <1>4, PageFacts
<1>6. \A m : m \in Below(rows, w.cursor) <=> m \in rows /\ (w.cursor = 0 \/ m < w.cursor)
  BY DEF Below
<1>7. p.msgs \in SUBSET MsgIds /\ p.more \in BOOLEAN
  BY <1>5 DEF DbPages
<1>8. w.cursor = 0 => Current(p, w.limit)
  <2>1. p = [msgs |-> p.msgs, more |-> p.more]
    BY <1>5 DEF DbPages
  <2> QED BY <2>1 DEF Current
<1> HIDE DEF p
<1>9. CASE w.cursor = 0 /\ p.msgs # {}
  <2>1. PICK r : r = [w EXCEPT !.stage = "fill", !.page = p, !.at = sweeps]
    OBVIOUS
  <2>2. /\ r \in Walks /\ r.stage = "fill" /\ r.page = p /\ r.at = sweeps
        /\ r.limit = w.limit /\ r.start = w.start /\ r.hit = w.hit
        /\ r.cursor = w.cursor /\ r.got = w.got /\ r.twice = w.twice
    BY <1>2, <1>4, <1>5, <2>1 DEF Walks
  <2>3. FillSound(r)
    BY <1>3, <1>4, <1>8, <1>9, <2>2 DEF FillSound
  <2>4. w.got = {}
    BY <1>1, <1>2, <1>9 DEF WalkSound, Fresh
  <2>5. Honoured(r) => \A m \in r.start \cap rows :
          (r.page.more => \E k \in r.page.msgs : m >= k) => m \in r.page.msgs
    BY <1>5, <1>6, <1>9, <2>2 DEF Honoured
  <2>6. WalkSound(r)
    BY <1>3, <1>9, <2>2, <2>4, <2>5 DEF WalkSound, Fresh
  <2> QED BY <1>1, <1>9, <2>1, <2>2, <2>3, <2>6, OneWalkKeeps, CacheSame
<1>10. CASE ~(w.cursor = 0 /\ p.msgs # {})
  <2>1. w.cursor = 0 \/ (\A m \in p.msgs : m < w.cursor)
    BY <1>5, <1>6
  <2>2. Honoured(w) => \A m \in w.start \cap rows :
          (w.cursor = 0 \/ m < w.cursor) /\ (p.more => \E k \in p.msgs : m >= k) => m \in p.msgs
    BY <1>5, <1>6 DEF Honoured
  <2>3. Receive(w, p) \in Walks /\ FillSound(Receive(w, p)) /\ WalkSound(Receive(w, p))
    BY <1>1, <1>2, <1>5, <1>7, <2>1, <2>2, ReceiveSound
  <2>4. PICK r : r = Receive(w, p)
    OBVIOUS
  <2>5. SetWalk(c, r)
    BY <1>1, <1>10, <2>4
  <2> QED BY <1>1, <2>3, <2>4, <2>5, OneWalkKeeps, CacheSame
<1> QED BY <1>9, <1>10

(* The first page goes into the cache and to the client.                   *)
LEMMA FillKeeps ==
  ASSUME HistoryInv, NEW c \in Clients, Fill(c)
  PROVE  HistoryInv'
<1> DEFINE w == walk[c]
           e == [msgs |-> w.page.msgs, more |-> w.page.more, late |-> w.at # sweeps]
           k == <<w.user, w.limit>>
<1>1. /\ UNCHANGED <<rows, sent, sweeps, lostDel, upload, erase>> /\ w.stage = "fill"
      /\ cached' = [cached EXCEPT ![k] = e] /\ SetWalk(c, Receive(w, w.page))
  BY DEF Fill
<1>2. w \in Walks /\ FillSound(w) /\ WalkSound(w)
  BY DEF HistoryInv, HistoryTypes
<1>3. /\ w.cursor = 0 /\ w.got = {} /\ w.limit \in Limits /\ w.page.msgs # {} /\ w.user \in Pair
      /\ w.at = sweeps /\ ~Current(w.page, w.limit) => Unswept
  BY <1>1, <1>2 DEF WalkSound, Fresh, FillSound, Walks
<1>4. w.page.msgs \in SUBSET MsgIds /\ w.page.more \in BOOLEAN
  BY <1>2 DEF Walks, CachedPages, DbPages
<1>5. k \in Pair \X Limits
  BY <1>3
<1>6. e \in CachedPages /\ e.msgs = w.page.msgs /\ e.more = w.page.more /\ (e.late <=> w.at # sweeps)
  <2> DEFINE b == w.at # sweeps
  <2>1. b \in BOOLEAN
    OBVIOUS
  <2>2. e = [msgs |-> w.page.msgs, more |-> w.page.more, late |-> b]
    OBVIOUS
  <2> HIDE DEF b
  <2>3. /\ [msgs |-> w.page.msgs, more |-> w.page.more, late |-> b] \in CachedPages
        /\ e.msgs = w.page.msgs /\ e.more = w.page.more /\ e.late = b
    BY <1>4, <2>1, <2>2 DEF CachedPages
  <2> QED BY <2>2, <2>3 DEF b
<1> HIDE DEF e, w
<1>7. cached \in [Pair \X Limits -> CachedPages]
  BY DEF HistoryInv, HistoryTypes
<1>8. /\ cached' \in [Pair \X Limits -> CachedPages]
      /\ \A j \in Pair \X Limits : cached'[j] = IF j = k THEN e ELSE cached[j]
  BY <1>1, <1>5, <1>6, <1>7
<1>9. \A q, l : Current(q, l)' <=> Current(q, l)
  BY <1>1 DEF Current
<1>10. CacheSound'
  <2> SUFFICES ASSUME NEW u \in Pair, NEW l \in SweptLimits, cached'[<<u, l>>].msgs # {},
                      ~Current(cached'[<<u, l>>], l)
               PROVE  Unswept \/ cached'[<<u, l>>].late
    BY <1>1, <1>9 DEF CacheSound, Unswept
  <2>1. <<u, l>> \in Pair \X Limits
    BY HistoryBounds
  <2>2. CASE <<u, l>> = k
    <3>1. cached'[<<u, l>>] = e /\ l = w.limit
      BY <1>8, <2>1, <2>2
    <3>2. ~Current(w.page, w.limit)
      BY <1>6, <3>1 DEF Current
    <3> QED BY <1>3, <1>6, <3>1, <3>2
  <2>3. CASE <<u, l>> # k
    <3>1. cached'[<<u, l>>] = cached[<<u, l>>]
      BY <1>8, <2>1, <2>3
    <3> QED BY <3>1 DEF HistoryInv, CacheSound
  <2> QED BY <2>2, <2>3
<1>11. Receive(w, w.page) \in Walks /\ FillSound(Receive(w, w.page)) /\ WalkSound(Receive(w, w.page))
  <2>1. Honoured(w) => \A m \in w.start \cap rows :
          (w.page.more => \E j \in w.page.msgs : m >= j) => m \in w.page.msgs
    BY <1>1, <1>2 DEF WalkSound
  <2>2. PICK p : p = w.page
    OBVIOUS
  <2>3. Receive(w, p) \in Walks /\ FillSound(Receive(w, p)) /\ WalkSound(Receive(w, p))
    BY <1>1, <1>2, <1>3, <1>4, <2>1, <2>2, ReceiveSound
  <2> QED BY <2>2, <2>3
<1>12. PICK r : r = Receive(w, w.page)
  OBVIOUS
<1>13. SetWalk(c, r)
  BY <1>1, <1>12
<1> QED BY <1>1, <1>8, <1>10, <1>11, <1>12, <1>13, OneWalkKeeps

(* The invariant is inductive.                                             *)
LEMMA HistoryStep == HistoryInv /\ [HistoryNext]_historyVars => HistoryInv'
<1> SUFFICES ASSUME HistoryInv, [HistoryNext]_historyVars PROVE HistoryInv'
  OBVIOUS
<1>1. CASE ApplyFriendHandler \/ ResolveFriendHandler \/ DeleteFriend \/ DeleteConversation
  <2>1. UNCHANGED <<rows, sent, cached, sweeps, lostDel, upload, walk>>
    BY <1>1 DEF ApplyFriendHandler, ApplyFriend, ResolveFriendHandler, ResolveFriend,
                DeleteFriend, DeleteConversation
  <2>2. erase = "sweep" => erase' = "sweep"
    BY <1>1 DEF ApplyFriendHandler, ApplyFriend, ResolveFriendHandler, ResolveFriend,
                DeleteFriend, DeleteConversation
  <2> QED BY <2>1, <2>2, AsideKeeps DEF Unswept
<1>2. CASE UpsertConversation
  BY <1>2, AsideKeeps DEF UpsertConversation, Unswept
<1>3. CASE DeleteMessagesBetween
  BY <1>3, RowsKeep DEF DeleteMessagesBetween, Unswept
<1>4. CASE StoreMessage
  BY <1>4, RowsKeep DEF StoreMessage, Unswept
<1>5. CASE EraseSweep \/ UploadSweep
  BY <1>5, SweepKeeps DEF EraseSweep, UploadSweep
<1>6. ASSUME NEW c \in Clients,
             OpenHistory(c) \/ CacheHit(c) \/ CacheMiss(c) \/ Query(c) \/ Fill(c) \/ CloseWalk(c)
      PROVE  HistoryInv'
  BY <1>6, OpenCloseKeeps, CacheKeeps, QueryKeeps, FillKeeps
<1>7. ASSUME NEW k \in Pair \X Limits, ExpirePage(k) PROVE HistoryInv'
  BY <1>7, ExpireKeeps
<1>8. CASE UNCHANGED historyVars
  BY <1>8, AsideKeeps DEF historyVars, Unswept
<1> QED BY <1>1, <1>2, <1>3, <1>4, <1>5, <1>6, <1>7, <1>8 DEF HistoryNext

(* The invariant gives both properties.                                    *)
LEMMA HistoryImplies == HistoryInv => StaleOnlyWhenOvertaken /\ WalkComplete
<1> SUFFICES ASSUME HistoryInv PROVE StaleOnlyWhenOvertaken /\ WalkComplete
  OBVIOUS
<1>1. StaleOnlyWhenOvertaken
  BY DEF HistoryInv, CacheSound, Current, Unswept, StaleOnlyWhenOvertaken
<1>2. WalkComplete
  BY DEF HistoryInv, WalkSound, Honoured, WalkComplete
<1> QED BY <1>1, <1>2

(* The history's inductive invariant.                                      *)
THEOREM HistoryInvariance == HistorySpec => []HistoryInv
BY HistoryStart, HistoryStep, PTL DEF HistorySpec

(* A cached first page differs from the table only while a sweep is to     *)
(* come or was lost, or when its reader was overtaken by one.              *)
THEOREM CacheFollowsTable == HistorySpec => []StaleOnlyWhenOvertaken
BY HistoryInvariance, HistoryImplies, PTL

(* A walk over the history never shows a message twice nor skips one that  *)
(* was there when it began and still is.                                   *)
THEOREM WalksAreComplete == HistorySpec => []WalkComplete
BY HistoryInvariance, HistoryImplies, PTL

-----------------------------------------------------------------------------
(* Groups: members, conversations and rows of a pair of group and user.    *)

(* What a request is to the pair of group g and user u.                    *)
Joins(q, g, u)  == q.op = "join" /\ q.group = g /\ q.user = u
Leaves(q, g, u) == q.op = "leave" /\ q.group = g /\ q.user = u
Makes(q, g, u)  == q.op = "create" /\ q.group = g /\ u \in q.left
Chats(q, g, u)  == q.op = "chat" /\ q.group = g /\ u \in q.left
Opens(q, g)     == q.op = "dissolve" /\ q.group = g /\ q.at = "start"
Ends(q, g)      == q.op = "dissolve" /\ q.group = g /\ q.at # "start"

Touches(q, g, u) ==
  Joins(q, g, u) \/ Leaves(q, g, u) \/ Makes(q, g, u) \/ Chats(q, g, u) \/ Opens(q, g)

(* Between its statement on the members and the one on the conversations.  *)
Halfway(q, g, u) ==
  \/ Makes(q, g, u) \/ Ends(q, g)
  \/ (Joins(q, g, u) \/ Leaves(q, g, u)) /\ q.at = "conv"

(* The group is gone, or going.                                            *)
Down(g) == g \notin groups \/ \E r \in Requests : Ends(req[r], g)

Reqs ==
  [op : {"free", "create", "join", "leave", "dissolve", "chat"}, user : GroupUsers \cup {0},
   group : Nat, at : {"idle", "start", "convs", "conv", "rows", "row", "group"},
   left : SUBSET GroupUsers]

ReqShape(q) ==
  /\ q.op # "free" => q.user \in GroupUsers
  /\ q.op \in {"free", "dissolve"} \/ (q.op = "create" /\ q.at = "start") => q.left = {}
  /\ q.group = 0 <=> q.op = "free" \/ (q.op = "create" /\ q.at = "start")
  /\ q.op = "chat" /\ q.at = "conv" => q.user \in q.left

GroupPairs == (1 .. created) \X GroupUsers

GroupTypes ==
  /\ created \in Nat /\ created <= MaxGroups /\ gfaults \in Nat
  /\ groups \subseteq 1 .. created
  /\ members \subseteq GroupPairs /\ gconvs \subseteq GroupPairs /\ grows \subseteq GroupPairs
  /\ req \in [Requests -> Reqs] 
  /\ \A r \in Requests : req[r].group <= created /\ ReqShape(req[r])

(* No two requests meet on the pair, nor joins anybody a group going down. *)
Alone(g, u) ==
  /\ \A r, o \in Requests : r # o /\ Touches(req[r], g, u) /\ Touches(req[o], g, u)
                              => Chats(req[r], g, u) /\ Chats(req[o], g, u)
  /\ \A r \in Requests : Joins(req[r], g, u) => ~Down(g)

(* What holds of the pair as long as it is alone and no statement failed.  *)
PairReq(q, g, u) ==
  /\ Makes(q, g, u) \/ Chats(q, g, u) => ~Down(g) /\ <<g, u>> \in members
  /\ Joins(q, g, u) /\ q.at = "conv" => <<g, u>> \in members
  /\ Leaves(q, g, u) /\ q.at = "conv" => <<g, u>> \notin members
  /\ Chats(q, g, u) /\ ~Collides(g, u) => <<g, u>> \in gconvs
  /\ Ends(q, g) /\ q.at \in {"convs", "group"} => <<g, u>> \notin grows
  /\ Ends(q, g) /\ q.at = "group" => <<g, u>> \notin gconvs

PairInv(g, u) ==
  /\ Down(g) => <<g, u>> \notin members
  /\ g \notin groups => <<g, u>> \notin gconvs /\ <<g, u>> \notin grows
  /\ \A r \in Requests : PairReq(req[r], g, u)
  /\ ~Collides(g, u) /\ (\A r \in Requests : ~Halfway(req[r], g, u)) =>
       (<<g, u>> \in members <=> <<g, u>> \in gconvs)

GroupInv ==
  /\ GroupTypes
  /\ \A g \in 1 .. created, u \in GroupUsers :
       <<g, u>> \notin crossed => Alone(g, u) /\ (gfaults = 0 => PairInv(g, u))

(* The pairs a request of this shape touches.                              *)
LEMMA TouchedPairs ==
  ASSUME NEW q \in Reqs, ReqShape(q), NEW g \in Nat, NEW u \in GroupUsers
  PROVE  <<g, u>> \in Touched(q) <=> Touches(q, g, u)
<1>1. CASE q.op \in {"join", "leave"}
  <2>1. Touched(q) = {<<q.group, q.user>>}
    BY <1>1 DEF Touched
  <2>2. <<g, u>> = <<q.group, q.user>> <=> q.group = g /\ q.user = u
    OBVIOUS
  <2> QED BY <1>1, <2>1, <2>2 DEF Touches, Joins, Leaves, Makes, Chats, Opens
<1>2. CASE q.op = "dissolve" /\ q.at = "start"
  <2>1. Touched(q) = {q.group} \X GroupUsers
    BY <1>2 DEF Touched
  <2> QED BY <1>2, <2>1 DEF Touches, Joins, Leaves, Makes, Chats, Opens
<1>3. CASE q.op \notin {"join", "leave"} /\ ~(q.op = "dissolve" /\ q.at = "start")
  <2>1. Touched(q) = {q.group} \X q.left
    BY <1>3 DEF Touched
  <2>2. <<g, u>> \in Touched(q) <=> q.group = g /\ u \in q.left
    BY <2>1
  <2>3. q.op \in {"free", "create", "join", "leave", "dissolve", "chat"}
    BY DEF Reqs
  <2> QED BY <1>3, <2>2, <2>3 DEF Touches, Joins, Leaves, Makes, Chats, Opens, ReqShape
<1> QED BY <1>1, <1>2, <1>3

(* A pair that is not crossed after a step is alone after it.              *)
LEMMA MeetingsCross ==
  ASSUME GroupTypes', crossed' = crossed \cup Meetings(req'),
         NEW g \in Nat, NEW u \in GroupUsers, <<g, u>> \notin crossed'
  PROVE  Alone(g, u)'
<1>1. \A r \in Requests : req'[r] \in Reqs /\ ReqShape(req'[r])
  BY DEF GroupTypes
<1>2. ASSUME NEW r \in Requests PROVE <<g, u>> \in Touched(req'[r]) <=> Touches(req'[r], g, u)
  <2>1. PICK q : q = req'[r]
    OBVIOUS
  <2>2. q \in Reqs /\ ReqShape(q)
    BY <1>1, <2>1
  <2> QED BY <2>1, <2>2, TouchedPairs
<1>3. ASSUME NEW r \in Requests, NEW o \in Requests, r # o,
             Touches(req'[r], g, u), Touches(req'[o], g, u)
      PROVE  Chats(req'[r], g, u) /\ Chats(req'[o], g, u)
  <2>1. <<g, u>> \in Touched(req'[r]) \cap Touched(req'[o])
    BY <1>2, <1>3
  <2>2. req'[r].op = "chat" /\ req'[o].op = "chat"
    <3> SUFFICES ASSUME ~(req'[r].op = "chat" /\ req'[o].op = "chat") PROVE FALSE
      OBVIOUS
    <3>1. PICK p : p = <<r, o>>
      OBVIOUS
    <3>2. /\ p \in Requests \X Requests /\ p[1] = r /\ p[2] = o
      BY <3>1
    <3> DEFINE D == {d \in Requests \X Requests :
                       d[1] # d[2] /\ ~(req'[d[1]].op = "chat" /\ req'[d[2]].op = "chat")}
               F(d) == Touched(req'[d[1]]) \cap Touched(req'[d[2]])
    <3>3. p \in D
      BY <1>3, <3>2
    <3>4. <<g, u>> \in F(p)
      BY <2>1, <3>2
    <3>5. F(p) \subseteq Meetings(req')
      <4> HIDE DEF D
      <4>1. F(p) \subseteq UNION {F(d) : d \in D}
        BY <3>3, Zenon
      <4>2. UNION {F(d) : d \in D} \subseteq Meetings(req')
        BY DEF Meetings, D
      <4> QED BY <4>1, <4>2, Zenon
    <3> QED BY <3>4, <3>5
  <2> QED BY <1>3, <2>2 DEF Touches, Joins, Leaves, Makes, Chats, Opens
<1>4. ASSUME NEW r \in Requests, Joins(req'[r], g, u) PROVE ~Down(g)'
  <2>1. <<g, u>> \in Touched(req'[r])
    BY <1>2, <1>4 DEF Touches
  <2>2. GroupLive(req'[r].group, req')
    <3> SUFFICES ASSUME ~GroupLive(req'[r].group, req') PROVE FALSE
      OBVIOUS
    <3> DEFINE L(o) == GroupLive(req'[o].group, req')
               D == {o \in Requests : req'[o].op = "join" /\ ~L(o)}
    <3>1. UNION {Touched(req'[o]) : o \in D} \subseteq Meetings(req')
      BY Zenon DEF Meetings
    <3>2. req'[r].op = "join" /\ ~L(r)
      BY <1>4 DEF Joins
    <3> HIDE DEF L
    <3>3. r \in D
      BY <3>2
    <3> QED BY <2>1, <3>1, <3>3
  <2>3. req'[r].group = g
    BY <1>4 DEF Joins
  <2> QED BY <2>2, <2>3 DEF GroupLive, Down, Ends
<1> QED BY <1>3, <1>4 DEF Alone

(* A request changes; the others stay.                                     *)
LEMMA ReqSet ==
  ASSUME GroupTypes, NEW r \in Requests, NEW q \in Reqs, SetReq(r, q), ReqShape(q),
         created' \in Nat, created <= created', q.group <= created'
  PROVE  /\ req' \in [Requests -> Reqs] /\ req'[r] = q
         /\ \A o \in Requests \ {r} : req'[o] = req[o]
         /\ \A o \in Requests : req'[o].group <= created' /\ ReqShape(req'[o])
<1>1. /\ req' \in [Requests -> Reqs] /\ req'[r] = q
      /\ \A o \in Requests \ {r} : req'[o] = req[o]
  BY DEF GroupTypes, SetReq
<1>2. ASSUME NEW o \in Requests PROVE req'[o].group <= created' /\ ReqShape(req'[o])
  <2>1. CASE o = r
    BY <1>1, <2>1
  <2>2. CASE o # r
    <3>1. req'[o] = req[o] /\ req[o].group <= created /\ ReqShape(req[o]) /\ created \in Nat
      BY <1>1, <2>2 DEF GroupTypes
    <3>2. req[o].group \in Nat
      BY DEF GroupTypes, Reqs
    <3> QED BY <3>1, <3>2
  <2> QED BY <2>1, <2>2
<1> QED BY <1>1, <1>2

(* The request that is none.                                               *)
LEMMA FreeFacts ==
  /\ FreeReq \in Reqs /\ ReqShape(FreeReq) /\ FreeReq.group = 0
  /\ \A g, u : ~Touches(FreeReq, g, u) /\ ~Ends(FreeReq, g) /\ ~Halfway(FreeReq, g, u)
  BY DEF FreeReq, Reqs, ReqShape, Touches, Ends, Halfway, Joins, Leaves, Makes, Chats, Opens

(* The tables hold the pair as before and the request does it no harm.     *)
LEMMA PairFrame ==
  ASSUME NEW g, NEW u, NEW r \in Requests, PairInv(g, u),
         \A o \in Requests \ {r} : req'[o] = req[o],
         g \in groups' <=> g \in groups,
         <<g, u>> \in members' <=> <<g, u>> \in members,
         <<g, u>> \in gconvs' <=> <<g, u>> \in gconvs,
         <<g, u>> \in grows' <=> <<g, u>> \in grows,
         Ends(req'[r], g) <=> Ends(req[r], g), Halfway(req[r], g, u) => Halfway(req'[r], g, u),
         PairReq(req[r], g, u)'
  PROVE  PairInv(g, u)'
<1>1. Down(g)' <=> Down(g)
  BY DEF Down
<1>2. ASSUME NEW o \in Requests PROVE PairReq(req[o], g, u)'
  <2>1. CASE o = r
    BY <2>1
  <2>2. CASE o # r
    <3>1. req'[o] = req[o] /\ PairReq(req[o], g, u)
      BY <2>2 DEF PairInv
    <3> QED BY <1>1, <3>1 DEF PairReq, Collides
  <2> QED BY <2>1, <2>2
<1>3. (\A o \in Requests : ~Halfway(req'[o], g, u)) => \A o \in Requests : ~Halfway(req[o], g, u)
  OBVIOUS
<1> QED BY <1>1, <1>2, <1>3 DEF PairInv, Collides

(* A request about another group, before and after.                        *)
LEMMA OtherGroup ==
  ASSUME NEW g, NEW u, NEW q, q.group # g
  PROVE  ~Touches(q, g, u) /\ ~Ends(q, g) /\ ~Halfway(q, g, u) /\ PairReq(q, g, u)
  BY DEF Touches, Ends, Halfway, PairReq, Joins, Leaves, Makes, Chats, Opens

(* A request that is nothing to the pair.                                  *)
LEMMA IdleToPair ==
  ASSUME NEW g, NEW u, NEW q, ~Touches(q, g, u), ~Ends(q, g)
  PROVE  ~Halfway(q, g, u) /\ PairReq(q, g, u)
  BY DEF Touches, Halfway, PairReq

(* What a step must do for the pairs.                                      *)
PairsKept ==
  \A g \in 1 .. created', u \in GroupUsers :
    /\ gfaults' = 0 /\ Alone(g, u)'
    /\ g <= created => Alone(g, u) /\ (gfaults = 0 => PairInv(g, u))
    => PairInv(g, u)'

(* A request arrives.                                                      *)
LEMMA BeginKeeps ==
  ASSUME GroupTypes, NEW r \in Requests, NEW op \in {"create", "join", "leave", "dissolve", "chat"},
         NEW v \in GroupUsers, NEW h \in 0 .. created, h = 0 <=> op = "create",
         BeginReq(r, op, v, h)
  PROVE  GroupTypes' /\ PairsKept
<1>1. created \in Nat /\ h \in Nat /\ h <= created
  BY DEF GroupTypes
<1>2. PICK q : q = [FreeReq EXCEPT !.op = op, !.user = v, !.group = h, !.at = "start"]
  OBVIOUS
<1>3. /\ q \in Reqs /\ q.op = op /\ q.user = v /\ q.group = h /\ q.at = "start" /\ q.left = {}
  BY <1>1, <1>2 DEF Reqs, FreeReq
<1>4. ReqShape(q)
  BY <1>3 DEF ReqShape
<1>5. /\ SetReq(r, q) /\ UNCHANGED <<groups, members, gconvs, grows, created, gfaults>>
      /\ req[r].op = "free"
  BY <1>2 DEF BeginReq, tables
<1>6. /\ req' \in [Requests -> Reqs] /\ req'[r] = q
      /\ \A o \in Requests \ {r} : req'[o] = req[o]
      /\ \A o \in Requests : req'[o].group <= created' /\ ReqShape(req'[o])
  <2>1. created' \in Nat /\ created <= created' /\ q.group <= created'
    BY <1>1, <1>3, <1>5
  <2> QED BY <1>3, <1>4, <1>5, <2>1, ReqSet
<1>7. GroupTypes'
  BY <1>5, <1>6 DEF GroupTypes, GroupPairs
<1>8. ASSUME NEW g \in 1 .. created, NEW u \in GroupUsers, PairInv(g, u) PROVE PairInv(g, u)'
  <2>1. ~Ends(q, g) /\ ~Ends(req[r], g) /\ ~Halfway(req[r], g, u)
    BY <1>3, <1>5 DEF Ends, Halfway, Joins, Leaves, Makes
  <2>2. PairReq(req[r], g, u)'
    BY <1>3, <1>6 DEF PairReq, Ends, Joins, Leaves, Makes, Chats
  <2>3. ~Ends(req'[r], g)
    BY <1>6, <2>1
  <2> QED BY <1>5, <1>6, <1>8, <2>1, <2>2, <2>3, PairFrame
<1> QED BY <1>1, <1>5, <1>7, <1>8 DEF PairsKept

(* A group and its members come into being together.                       *)
LEMMA CreateKeeps ==
  ASSUME GroupTypes, NEW r \in Requests, CreateGroup(r)
  PROVE  GroupTypes' /\ PairsKept
<1>0. PICK n : n = created + 1
  OBVIOUS
<1>1. /\ created \in Nat /\ n \in Nat /\ created < n /\ n <= MaxGroups /\ created' = n
      /\ UNCHANGED <<gconvs, grows, gfaults>> /\ gfaults \in Nat
  <2>1. created \in Nat /\ gfaults \in Nat /\ MaxGroups \in Nat
    BY GroupBounds DEF GroupTypes
  <2>2. created < MaxGroups /\ created' = n /\ UNCHANGED <<gconvs, grows, gfaults>>
    BY <1>0 DEF CreateGroup
  <2> QED BY <1>0, <2>1, <2>2
<1>2. /\ req[r] \in Reqs /\ req[r].op = "create" /\ req[r].left = {} /\ req[r].group = 0
      /\ req[r].user \in GroupUsers
  BY DEF CreateGroup, ReqAt, GroupTypes, ReqShape
<1>3. GroupPairs \subseteq (1 .. n) \X GroupUsers /\ 1 .. created \subseteq 1 .. n /\ n \in 1 .. n
      /\ n \notin 1 .. created
  <2>1. 1 .. created \subseteq 1 .. n /\ n \in 1 .. n /\ n \notin 1 .. created
    BY <1>0, <1>1
  <2> QED BY <2>1 DEF GroupPairs
<1>4. /\ groups \subseteq 1 .. created /\ members \subseteq GroupPairs
      /\ gconvs \subseteq GroupPairs /\ grows \subseteq GroupPairs
  BY DEF GroupTypes
<1>5. \A u : <<n, u>> \notin members /\ <<n, u>> \notin gconvs /\ <<n, u>> \notin grows
  BY <1>3, <1>4 DEF GroupPairs
<1>6. \A o \in Requests : req[o].group # n
  <2>1. \A o \in Requests : req[o].group <= created /\ req[o].group \in Nat
    BY DEF GroupTypes, Reqs
  <2> QED BY <1>1, <2>1
<1>7. \A g \in 1 .. n : g # n => g \in 1 .. created /\ g # 0
  BY <1>0, <1>1
<1>8. ASSUME NEW q \in Reqs, SetReq(r, q), ReqShape(q), q.group \in {0, n}, ~Ends(q, n),
             \A g : ~Ends(q, g),
             groups' \subseteq 1 .. n, members' \subseteq (1 .. n) \X GroupUsers,
             \A g \in 1 .. created : (g \in groups' <=> g \in groups) /\
                \A u : <<g, u>> \in members' <=> <<g, u>> \in members,
             \A u \in GroupUsers : <<n, u>> \in members' => Makes(q, n, u),
             \A u \in GroupUsers : Makes(q, n, u) => n \in groups' /\ <<n, u>> \in members',
             n \notin groups' => \A u : <<n, u>> \notin members',
             q.op \in {"free", "create"}
      PROVE  GroupTypes' /\ PairsKept
  <2>1. /\ req' \in [Requests -> Reqs] /\ req'[r] = q
        /\ \A o \in Requests \ {r} : req'[o] = req[o]
        /\ \A o \in Requests : req'[o].group <= created' /\ ReqShape(req'[o])
    <3>1. created' \in Nat /\ created <= created' /\ q.group <= created'
      BY <1>1, <1>8
    <3> QED BY <1>8, <3>1, ReqSet
  <2>2. GroupTypes'
    <3>1. created' <= MaxGroups
      BY <1>1
    <3>2. gconvs' \subseteq GroupPairs' /\ grows' \subseteq GroupPairs' /\ members' \subseteq GroupPairs'
      BY <1>1, <1>3, <1>4, <1>8 DEF GroupPairs
    <3> QED BY <1>1, <1>8, <2>1, <3>1, <3>2 DEF GroupTypes
  <2>3. ASSUME NEW g \in 1 .. created, NEW u \in GroupUsers, PairInv(g, u) PROVE PairInv(g, u)'
    <3>1. q.group # g /\ req[r].group # g
      BY <1>1, <1>2, <1>8
    <3>2. ~Ends(q, g) /\ ~Ends(req[r], g) /\ ~Halfway(req[r], g, u)
      BY <1>8, <3>1, OtherGroup
    <3>3. PairReq(req[r], g, u)'
      BY <2>1, <3>1 DEF PairReq, Ends, Joins, Leaves, Makes, Chats
    <3>4. ~Ends(req'[r], g)
      BY <2>1, <3>2
    <3> QED BY <1>1, <1>8, <2>1, <2>3, <3>2, <3>3, <3>4, PairFrame
  <2>4. ASSUME NEW u \in GroupUsers PROVE PairInv(n, u)'
    <3>1. \A o \in Requests \ {r} : req'[o].group # n
      BY <1>6, <2>1
    <3>2. \A o \in Requests : ~Ends(req'[o], n)
      BY <1>8, <2>1, <3>1 DEF Ends
    <3>3. Down(n)' <=> n \notin groups'
      BY <3>2 DEF Down
    <3>4. <<n, u>> \notin gconvs' /\ <<n, u>> \notin grows'
      BY <1>1, <1>5
    <3>5. ASSUME NEW o \in Requests PROVE PairReq(req[o], n, u)'
      <4>1. CASE o = r
        BY <1>8, <2>1, <3>2, <3>3, <4>1 DEF PairReq, Joins, Leaves, Chats
      <4>2. CASE o # r
        BY <3>1, <4>2 DEF PairReq, Ends, Joins, Leaves, Makes, Chats
      <4> QED BY <4>1, <4>2
    <3>6. (\A o \in Requests : ~Halfway(req'[o], n, u)) => <<n, u>> \notin members'
      BY <1>8, <2>1 DEF Halfway
    <3> QED BY <1>8, <3>3, <3>4, <3>5, <3>6 DEF PairInv
  <2> QED BY <1>1, <1>7, <2>2, <2>3, <2>4 DEF PairsKept
<1>9. ASSUME NEW invited \in SUBSET GroupUsers, NEW all, all = invited \cup {req[r].user},
             groups' = groups \cup {n}, members' = members \cup ({n} \X all),
             SetReq(r, [req[r] EXCEPT !.group = n, !.at = "convs", !.left = all])
      PROVE  GroupTypes' /\ PairsKept
  <2>1. PICK q : q = [req[r] EXCEPT !.group = n, !.at = "convs", !.left = all]
    OBVIOUS
  <2>2. /\ q \in Reqs /\ q.op = "create" /\ q.group = n /\ q.at = "convs" /\ q.left = all
        /\ q.user = req[r].user /\ all \subseteq GroupUsers
    BY <1>1, <1>2, <1>9, <2>1 DEF Reqs
  <2>3. ReqShape(q) /\ \A g : ~Ends(q, g)
    <3>1. n # 0
      BY <1>1
    <3> QED BY <1>2, <2>2, <3>1 DEF ReqShape, Ends
  <2>4. groups' \subseteq 1 .. n /\ members' \subseteq (1 .. n) \X GroupUsers
    BY <1>3, <1>4, <1>9, <2>2
  <2>5. \A u \in GroupUsers : Makes(q, n, u) <=> u \in all
    BY <2>2 DEF Makes
  <2>6. \A u : <<n, u>> \in members' <=> u \in all
    BY <1>5, <1>9
  <2>7. ASSUME NEW g \in 1 .. created
        PROVE  (g \in groups' <=> g \in groups) /\
                 \A u : <<g, u>> \in members' <=> <<g, u>> \in members
    BY <1>3, <1>9
  <2>8. SetReq(r, q) /\ n \in groups'
    BY <1>9, <2>1
  <2> QED BY <1>8, <2>2, <2>3, <2>4, <2>5, <2>6, <2>7, <2>8
<1>10. ASSUME FinishReq(r), UNCHANGED <<groups, members>> PROVE GroupTypes' /\ PairsKept
  <2>1. PICK q : q = FreeReq
    OBVIOUS
  <2>2. q \in Reqs /\ ReqShape(q) /\ q.group = 0 /\ q.op = "free"
    BY <2>1, FreeFacts DEF FreeReq
  <2>3. (\A g : ~Ends(q, g)) /\ (\A u : ~Makes(q, n, u)) /\ SetReq(r, q)
    BY <1>10, <2>1, <2>2 DEF Ends, Makes, FinishReq
  <2>4. groups' \subseteq 1 .. n /\ members' \subseteq (1 .. n) \X GroupUsers /\ n \notin groups'
    BY <1>3, <1>4, <1>10
  <2>5. \A u : <<n, u>> \notin members'
    BY <1>5, <1>10
  <2> QED BY <1>8, <1>10, <2>2, <2>3, <2>4, <2>5
<1> QED BY <1>0, <1>1, <1>9, <1>10 DEF CreateGroup

(* Steps that give out no group: the types, and what is left to show.      *)
LEMMA PlainStep ==
  ASSUME GroupTypes, NEW r \in Requests, NEW q \in Reqs, SetReq(r, q), ReqShape(q),
         q.group \in {0, req[r].group}, UNCHANGED created, gfaults' \in {gfaults, gfaults + 1},
         groups' \subseteq groups, members' \subseteq GroupPairs, gconvs' \subseteq GroupPairs,
         grows' \subseteq GroupPairs
  PROVE  /\ GroupTypes' /\ req'[r] = q /\ \A o \in Requests \ {r} : req'[o] = req[o]
         /\ (gfaults' = gfaults => \A g \in 1 .. created, u \in GroupUsers :
                Alone(g, u) /\ Alone(g, u)' /\ PairInv(g, u) => PairInv(g, u)')
              => PairsKept
<1>1. created \in Nat /\ gfaults \in Nat /\ req[r].group \in Nat /\ req[r].group <= created
  BY DEF GroupTypes, Reqs
<1>2. created' \in Nat /\ created <= created' /\ q.group <= created'
  BY <1>1
<1>3. /\ req' \in [Requests -> Reqs] /\ req'[r] = q
      /\ \A o \in Requests \ {r} : req'[o] = req[o]
      /\ \A o \in Requests : req'[o].group <= created' /\ ReqShape(req'[o])
  BY <1>2, ReqSet
<1>4. gfaults' \in Nat /\ (gfaults' = 0 => gfaults' = gfaults /\ gfaults = 0)
  BY <1>1
<1>5. GroupTypes'
  BY <1>3, <1>4 DEF GroupTypes, GroupPairs
<1>6. \A g \in 1 .. created : g <= created
  BY <1>1
<1> QED BY <1>3, <1>4, <1>5, <1>6 DEF PairsKept

(* A conversation for a member: on creation, on joining, with a message.   *)
LEMMA AddConversation ==
  ASSUME GroupTypes, NEW r \in Requests, NEW a \in Reqs, a = req[r], NEW v \in GroupUsers,
         \/ a.op \in {"create", "chat"} /\ v \in a.left
         \/ a.op = "join" /\ a.at = "conv" /\ v = a.user,
         a.group \in 1 .. created,
         NEW q \in Reqs, SetReq(r, q), ReqShape(q),
         \/ q = FreeReq /\ (a.op = "join" \/ a.left = {v})
         \/ q.op = a.op /\ q.group = a.group /\ q.left = a.left \ {v} /\ a.op # "join",
         OrIgnored(gconvs, gconvs' = gconvs \cup {<<a.group, v>>}),
         UNCHANGED <<groups, created, members, grows>>
  PROVE  GroupTypes' /\ PairsKept
<1>1. q.group \in {0, req[r].group} /\ q.op \in {"free", "create", "chat"}
  BY FreeFacts DEF FreeReq
<1>2. gconvs' \subseteq GroupPairs
  BY DEF OrIgnored, GroupTypes, GroupPairs
<1>3. gfaults' \in {gfaults, gfaults + 1}
  BY DEF OrIgnored
<1>4. gfaults' = gfaults => gconvs' = gconvs \cup {<<a.group, v>>}
  <2>1. gfaults \in Nat
    BY DEF GroupTypes
  <2> QED BY <2>1 DEF OrIgnored
<1>5. /\ GroupTypes' /\ req'[r] = q /\ \A o \in Requests \ {r} : req'[o] = req[o]
      /\ (gfaults' = gfaults => \A g \in 1 .. created, u \in GroupUsers :
             Alone(g, u) /\ Alone(g, u)' /\ PairInv(g, u) => PairInv(g, u)')
           => PairsKept
  <2>1. members' \subseteq GroupPairs /\ grows' \subseteq GroupPairs /\ groups' \subseteq groups
    BY DEF GroupTypes
  <2> QED BY <1>1, <1>2, <1>3, <2>1, PlainStep
<1>6. ASSUME gfaults' = gfaults, NEW g \in 1 .. created, NEW u \in GroupUsers,
             Alone(g, u), PairInv(g, u)
      PROVE  PairInv(g, u)'
  <2>1. PairReq(a, g, u) /\ ~Ends(a, g) /\ ~Ends(q, g)
    BY <1>1, <1>6 DEF PairInv, Ends
  <2>2. Down(g)' <=> Down(g)
    BY <1>5, <2>1 DEF Down
  <2>3. CASE g = a.group /\ u = v
    <3>1. <<g, u>> \in gconvs'
      BY <1>4, <1>6, <2>3
    <3>2. <<g, u>> \in members /\ ~Down(g)
      BY <1>6, <2>1, <2>3 DEF PairReq, Makes, Chats, Joins, Alone
    <3>3. ~Makes(q, g, u) /\ ~Chats(q, g, u) /\ ~Joins(q, g, u) /\ ~Leaves(q, g, u)
      BY <1>1, <2>3, FreeFacts DEF Makes, Chats, Joins, Leaves, Touches, FreeReq
    <3>4. ASSUME NEW o \in Requests PROVE PairReq(req[o], g, u)'
      <4>1. CASE o = r
        BY <1>5, <2>1, <3>3, <4>1 DEF PairReq
      <4>2. CASE o # r
        <5>1. req'[o] = req[o] /\ PairReq(req[o], g, u)
          BY <1>5, <1>6, <4>2 DEF PairInv
        <5>2. ~Ends(req[o], g)
          BY <3>2 DEF Down
        <5> QED BY <2>2, <3>1, <5>1, <5>2 DEF PairReq
      <4> QED BY <4>1, <4>2
    <3> QED BY <2>2, <3>1, <3>2, <3>4 DEF PairInv, Down
  <2>4. CASE ~(g = a.group /\ u = v)
    <3>1. <<g, u>> \in gconvs' <=> <<g, u>> \in gconvs
      BY <1>4, <1>6, <2>4
    <3>2. Halfway(a, g, u) => Halfway(q, g, u)
      BY <2>1, <2>4 DEF Halfway, Makes, Joins, Leaves
    <3>3. /\ Makes(q, g, u) => Makes(a, g, u)
          /\ Chats(q, g, u) => Chats(a, g, u)
          /\ ~Joins(q, g, u) /\ ~Leaves(q, g, u)
      BY <1>1, FreeFacts DEF Makes, Chats, Joins, Leaves, Touches
    <3>4. PairReq(req[r], g, u)'
      BY <1>5, <2>1, <2>2, <3>1, <3>3 DEF PairReq, Collides
    <3>5. Ends(req'[r], g) <=> Ends(req[r], g)
      BY <1>5, <2>1
    <3>6. Halfway(req[r], g, u) => Halfway(req'[r], g, u)
      BY <1>5, <3>2
    <3> QED BY <1>5, <1>6, <3>1, <3>4, <3>5, <3>6, PairFrame
  <2> QED BY <2>3, <2>4
<1> QED BY <1>5, <1>6

(* The fan-out of a message reads the members.                             *)
LEMMA FanOutKeeps ==
  ASSUME GroupTypes, NEW r \in Requests, GetGroupMembers(r)
  PROVE  GroupTypes' /\ PairsKept
<1> DEFINE found == {u \in GroupUsers : <<req[r].group, u>> \in members}
<1>1. PICK a : a = req[r]
  OBVIOUS
<1>2. /\ a \in Reqs /\ ReqShape(a) /\ a.op = "chat" /\ a.at = "start"
      /\ UNCHANGED <<groups, members, gconvs, grows, created, gfaults>>
  BY <1>1 DEF GetGroupMembers, ReqAt, GroupTypes, tables
<1>3. PICK q : q = IF found = {} THEN FreeReq ELSE [a EXCEPT !.at = "row", !.left = found]
  OBVIOUS
<1>4. SetReq(r, q)
  BY <1>1, <1>3 DEF GetGroupMembers, FinishReq
<1>5. /\ q \in Reqs /\ ReqShape(q) /\ q.group \in {0, a.group}
      /\ q.op = "free" \/ (q.op = "chat" /\ q.left = found /\ q.group = a.group)
  <2>1. CASE found = {}
    BY <1>3, <2>1, FreeFacts DEF FreeReq
  <2>2. CASE found # {}
    <3>1. /\ q \in Reqs /\ q.op = "chat" /\ q.left = found /\ q.group = a.group /\ q.at = "row"
          /\ q.user = a.user
      BY <1>2, <1>3, <2>2 DEF Reqs
    <3> QED BY <1>2, <3>1 DEF ReqShape
  <2> QED BY <2>1, <2>2
<1>6. /\ GroupTypes' /\ req'[r] = q /\ \A o \in Requests \ {r} : req'[o] = req[o]
      /\ (gfaults' = gfaults => \A g \in 1 .. created, u \in GroupUsers :
             Alone(g, u) /\ Alone(g, u)' /\ PairInv(g, u) => PairInv(g, u)')
           => PairsKept
  <2>1. members' \subseteq GroupPairs /\ grows' \subseteq GroupPairs /\ groups' \subseteq groups
        /\ gconvs' \subseteq GroupPairs /\ gfaults' \in {gfaults, gfaults + 1}
    BY <1>2 DEF GroupTypes
  <2> QED BY <1>1, <1>2, <1>4, <1>5, <2>1, PlainStep
<1>7. ASSUME NEW g \in 1 .. created, NEW u \in GroupUsers,
             Alone(g, u), Alone(g, u)', PairInv(g, u)
      PROVE  PairInv(g, u)'
  <2>1. ~Ends(a, g) /\ ~Ends(q, g) /\ ~Halfway(a, g, u)
    BY <1>2, <1>5 DEF Ends, Halfway, Joins, Leaves, Makes
  <2>2. Down(g)' <=> Down(g)
    BY <1>1, <1>2, <1>6, <2>1 DEF Down
  <2>3. ASSUME Chats(q, g, u)
        PROVE  <<g, u>> \in members /\ ~Down(g) /\ (~Collides(g, u) => <<g, u>> \in gconvs)
    <3>1. <<g, u>> \in members
      BY <1>1, <1>5, <2>3 DEF Chats
    <3>2. ~Down(g)
      BY <1>7, <3>1 DEF PairInv
    <3>3. ASSUME NEW o \in Requests PROVE ~Halfway(req[o], g, u)
      <4>1. CASE o = r
        BY <1>1, <2>1, <4>1
      <4>2. CASE o # r
        <5>1. req'[o] = req[o] /\ ~Ends(req[o], g)
          BY <1>6, <3>2, <4>2 DEF Down
        <5>2. Touches(req'[r], g, u)
          BY <1>6, <2>3 DEF Touches
        <5>3. Touches(req[o], g, u) => Chats(req[o], g, u)
          BY <1>7, <4>2, <5>1, <5>2 DEF Alone
        <5> QED BY <5>1, <5>3 DEF Touches, Halfway, Joins, Leaves, Makes, Chats
      <4> QED BY <4>1, <4>2
    <3> QED BY <1>7, <3>1, <3>2, <3>3 DEF PairInv
  <2>4. ~Makes(q, g, u) /\ ~Joins(q, g, u) /\ ~Leaves(q, g, u)
    BY <1>5 DEF Makes, Joins, Leaves
  <2>5. PairReq(req[r], g, u)'
    BY <1>2, <1>6, <2>1, <2>2, <2>3, <2>4 DEF PairReq, Collides
  <2>6. ~Ends(req'[r], g) /\ ~Ends(req[r], g) /\ ~Halfway(req[r], g, u)
    BY <1>1, <1>6, <2>1
  <2> QED BY <1>2, <1>6, <1>7, <2>5, <2>6, PairFrame
<1> QED BY <1>6, <1>7

(* A row for one receiver.                                                 *)
LEMMA RowKeeps ==
  ASSUME GroupTypes, NEW r \in Requests, InsertGroupRow(r)
  PROVE  GroupTypes' /\ PairsKept
<1>1. PICK a : a = req[r]
  OBVIOUS
<1>2. /\ a \in Reqs /\ ReqShape(a) /\ a.op = "chat" /\ a.group \in 1 .. created
      /\ UNCHANGED <<groups, members, gconvs, created, gfaults>>
  <2>1. /\ a \in Reqs /\ ReqShape(a) /\ a.op = "chat" /\ a.group <= created /\ created \in Nat
        /\ UNCHANGED <<groups, members, gconvs, created, gfaults>>
    BY <1>1 DEF InsertGroupRow, ReqAt, GroupTypes
  <2>2. a.group # 0 /\ a.group \in Nat
    BY <2>1 DEF ReqShape, Reqs
  <2> QED BY <2>1, <2>2
<1>3. PICK v \in a.left : /\ grows' = grows \cup {<<a.group, v>>}
                          /\ SetReq(r, [a EXCEPT !.at = "conv", !.user = v])
  BY <1>1 DEF InsertGroupRow
<1>4. PICK q : q = [a EXCEPT !.at = "conv", !.user = v]
  OBVIOUS
<1>5. /\ q \in Reqs /\ q.op = "chat" /\ q.left = a.left /\ q.group = a.group /\ q.at = "conv"
      /\ q.user = v /\ v \in GroupUsers
  BY <1>2, <1>3, <1>4 DEF Reqs
<1>6. ReqShape(q)
  BY <1>2, <1>3, <1>5 DEF ReqShape
<1>7. /\ GroupTypes' /\ req'[r] = q /\ \A o \in Requests \ {r} : req'[o] = req[o]
      /\ (gfaults' = gfaults => \A g \in 1 .. created, u \in GroupUsers :
             Alone(g, u) /\ Alone(g, u)' /\ PairInv(g, u) => PairInv(g, u)')
           => PairsKept
  <2>1. members' \subseteq GroupPairs /\ groups' \subseteq groups
        /\ gconvs' \subseteq GroupPairs /\ gfaults' \in {gfaults, gfaults + 1}
    BY <1>2 DEF GroupTypes
  <2>2. grows' \subseteq GroupPairs
    BY <1>2, <1>3, <1>5 DEF GroupTypes, GroupPairs
  <2>3. SetReq(r, q) /\ q.group \in {0, req[r].group}
    BY <1>1, <1>3, <1>4, <1>5
  <2> QED BY <1>2, <1>5, <1>6, <2>1, <2>2, <2>3, PlainStep
<1>8. ASSUME NEW g \in 1 .. created, NEW u \in GroupUsers, Alone(g, u), PairInv(g, u)
      PROVE  PairInv(g, u)'
  <2>1. ~Ends(a, g) /\ ~Ends(q, g) /\ PairReq(a, g, u)
    BY <1>1, <1>2, <1>5, <1>8 DEF Ends, PairInv
  <2>2. Down(g)' <=> Down(g)
    BY <1>1, <1>2, <1>7, <2>1 DEF Down
  <2>3. /\ Chats(q, g, u) <=> Chats(a, g, u)
        /\ ~Makes(q, g, u) /\ ~Joins(q, g, u) /\ ~Leaves(q, g, u)
        /\ ~Halfway(a, g, u)
    BY <1>2, <1>5, <2>1 DEF Makes, Joins, Leaves, Chats, Halfway
  <2>4. PairReq(req[r], g, u)'
    BY <1>2, <1>7, <2>1, <2>2, <2>3 DEF PairReq, Collides
  <2>5. CASE g = a.group /\ u = v
    <3>1. ~Down(g)
      BY <1>2, <1>3, <2>1, <2>5 DEF PairReq, Chats
    <3>2. ASSUME NEW o \in Requests PROVE PairReq(req[o], g, u)'
      <4>1. CASE o = r
        BY <2>4, <4>1
      <4>2. CASE o # r
        <5>1. req'[o] = req[o] /\ PairReq(req[o], g, u)
          BY <1>7, <1>8, <4>2 DEF PairInv
        <5>2. ~Ends(req[o], g)
          BY <3>1 DEF Down
        <5> QED BY <1>2, <2>2, <5>1, <5>2 DEF PairReq, Collides
      <4> QED BY <4>1, <4>2
    <3>3. (\A o \in Requests : ~Halfway(req'[o], g, u)) => \A o \in Requests : ~Halfway(req[o], g, u)
      BY <1>1, <1>7, <2>3
    <3> QED BY <1>2, <1>8, <2>2, <3>1, <3>2, <3>3 DEF PairInv, Down, Collides
  <2>6. CASE ~(g = a.group /\ u = v)
    <3>1. <<g, u>> \in grows' <=> <<g, u>> \in grows
      BY <1>3, <2>6
    <3>2. ~Ends(req'[r], g) /\ ~Ends(req[r], g) /\ ~Halfway(req[r], g, u)
      BY <1>1, <1>7, <2>1, <2>3
    <3> QED BY <1>2, <1>7, <1>8, <2>4, <3>1, <3>2, PairFrame
  <2> QED BY <2>5, <2>6
<1> QED BY <1>7, <1>8

(* The pair a join or a leave is about is nobody else's, save of a chat    *)
(* whose request then is none of these.                                    *)
LEMMA AloneThere ==
  ASSUME NEW g, NEW u, NEW r \in Requests, Alone(g, u),
         Joins(req[r], g, u) \/ Leaves(req[r], g, u) \/ Opens(req[r], g)
  PROVE  \A o \in Requests \ {r} : ~Touches(req[o], g, u)
  BY DEF Alone, Touches, Joins, Leaves, Opens, Chats

(* A member is added, or the unique index refuses.                         *)
LEMMA JoinKeeps ==
  ASSUME GroupTypes, NEW r \in Requests, JoinGroup(r)
  PROVE  GroupTypes' /\ PairsKept
<1>1. PICK a : a = req[r]
  OBVIOUS
<1>2. /\ a \in Reqs /\ ReqShape(a) /\ a.op = "join" /\ a.at = "start" /\ a.user \in GroupUsers
      /\ UNCHANGED <<groups, gconvs, grows, created, gfaults>>
      /\ \/ /\ members' = members \cup {<<a.group, a.user>>}
            /\ SetReq(r, [a EXCEPT !.at = "conv"])
         \/ SetReq(r, FreeReq) /\ UNCHANGED members
  BY <1>1 DEF JoinGroup, ReqAt, GroupTypes, ReqShape, ReqGoto, FinishReq
<1>3. a.group \in 1 .. created
  <2>1. a.group <= created /\ created \in Nat /\ a.group \in Nat /\ a.group # 0
    BY <1>1, <1>2 DEF GroupTypes, ReqShape, Reqs
  <2> QED BY <2>1
<1>4. ASSUME NEW q \in Reqs, ReqShape(q), SetReq(r, q), q.group \in {0, a.group},
             members' \subseteq GroupPairs, \A g : ~Ends(q, g),
             \A u, g : ~Makes(q, g, u) /\ ~Chats(q, g, u) /\ ~Leaves(q, g, u),
             \A u, g : Joins(q, g, u) =>
               Joins(a, g, u) /\ q.at = "conv" /\ <<g, u>> \in members',
             \A u, g : ~(<<g, u>> \in members' <=> <<g, u>> \in members) => Joins(q, g, u)
      PROVE  GroupTypes' /\ PairsKept
  <2>1. /\ GroupTypes' /\ req'[r] = q /\ \A o \in Requests \ {r} : req'[o] = req[o]
        /\ (gfaults' = gfaults => \A g \in 1 .. created, u \in GroupUsers :
               Alone(g, u) /\ Alone(g, u)' /\ PairInv(g, u) => PairInv(g, u)')
             => PairsKept
    <3>1. groups' \subseteq groups /\ grows' \subseteq GroupPairs
          /\ gconvs' \subseteq GroupPairs /\ gfaults' \in {gfaults, gfaults + 1}
      BY <1>2 DEF GroupTypes
    <3> QED BY <1>1, <1>2, <1>4, <3>1, PlainStep
  <2>2. ASSUME NEW g \in 1 .. created, NEW u \in GroupUsers, Alone(g, u), PairInv(g, u)
        PROVE  PairInv(g, u)'
    <3>1. ~Ends(a, g) /\ ~Halfway(a, g, u)
      BY <1>2 DEF Ends, Halfway, Joins, Leaves, Makes
    <3>2. PairReq(req[r], g, u)'
      BY <1>4, <2>1 DEF PairReq
    <3>3. CASE <<g, u>> \in members' <=> <<g, u>> \in members
      <4>1. ~Ends(req'[r], g) /\ ~Ends(req[r], g) /\ ~Halfway(req[r], g, u)
        BY <1>1, <1>4, <2>1, <3>1
      <4> QED BY <1>2, <2>1, <2>2, <3>2, <3>3, <4>1, PairFrame
    <3>4. CASE ~(<<g, u>> \in members' <=> <<g, u>> \in members)
      <4>1. Joins(req[r], g, u) /\ Joins(q, g, u) /\ q.at = "conv" /\ <<g, u>> \in members'
        BY <1>1, <1>4, <3>4
      <4>2. ~Down(g) /\ \A o \in Requests \ {r} : ~Touches(req[o], g, u)
        BY <2>2, <4>1, AloneThere DEF Alone
      <4>3. ~Down(g)' /\ g \in groups'
        BY <1>2, <1>4, <2>1, <4>2 DEF Down
      <4>4. ASSUME NEW o \in Requests PROVE PairReq(req[o], g, u)'
        <5>1. CASE o = r
          BY <3>2, <5>1
        <5>2. CASE o # r
          <6>1. req'[o] = req[o] /\ ~Touches(req[o], g, u) /\ ~Ends(req[o], g)
            BY <2>1, <4>2, <5>2 DEF Down
          <6> QED BY <6>1 DEF PairReq, Touches
        <5> QED BY <5>1, <5>2
      <4>5. Halfway(req'[r], g, u)
        BY <2>1, <4>1 DEF Halfway
      <4> QED BY <4>3, <4>4, <4>5 DEF PairInv
    <3> QED BY <3>3, <3>4
  <2> QED BY <2>1, <2>2
<1>5. CASE /\ members' = members \cup {<<a.group, a.user>>}
           /\ SetReq(r, [a EXCEPT !.at = "conv"])
  <2>1. PICK q : q = [a EXCEPT !.at = "conv"]
    OBVIOUS
  <2>2. /\ q \in Reqs /\ q.op = "join" /\ q.left = a.left /\ q.group = a.group /\ q.at = "conv"
        /\ q.user = a.user
    BY <1>2, <2>1 DEF Reqs
  <2>3. ReqShape(q) /\ SetReq(r, q)
    BY <1>2, <1>5, <2>1, <2>2 DEF ReqShape
  <2>4. members' \subseteq GroupPairs
    BY <1>2, <1>3, <1>5 DEF GroupTypes, GroupPairs
  <2>5. \A u, g : Joins(q, g, u) <=> g = a.group /\ u = a.user
    BY <2>2 DEF Joins
  <2>6. \A u, g : Joins(q, g, u) => Joins(a, g, u) /\ q.at = "conv" /\ <<g, u>> \in members'
    BY <1>2, <1>5, <2>2 DEF Joins
  <2>7. \A u, g : ~(<<g, u>> \in members' <=> <<g, u>> \in members) => Joins(q, g, u)
    BY <1>5, <2>5
  <2>8. \A u, g : ~Makes(q, g, u) /\ ~Chats(q, g, u) /\ ~Leaves(q, g, u) /\ ~Ends(q, g)
    BY <2>2 DEF Makes, Chats, Leaves, Ends
  <2> QED BY <1>4, <2>2, <2>3, <2>4, <2>6, <2>7, <2>8
<1>6. CASE SetReq(r, FreeReq) /\ UNCHANGED members
  <2>1. members' \subseteq GroupPairs
    BY <1>6 DEF GroupTypes
  <2>2. \A u, g : /\ ~Makes(FreeReq, g, u) /\ ~Chats(FreeReq, g, u) /\ ~Leaves(FreeReq, g, u)
                  /\ ~Joins(FreeReq, g, u) /\ ~Ends(FreeReq, g)
    BY FreeFacts DEF Touches
  <2> QED BY <1>4, <1>6, <2>1, <2>2, FreeFacts
<1> QED BY <1>2, <1>5, <1>6

(* A member goes, and stays away while the request is halfway.             *)
LEMMA LeaveKeeps ==
  ASSUME GroupTypes, NEW r \in Requests, LeaveGroup(r)
  PROVE  GroupTypes' /\ PairsKept
<1>1. PICK a : a = req[r]
  OBVIOUS
<1>2. /\ a \in Reqs /\ ReqShape(a) /\ a.op = "leave" /\ a.at = "start" /\ a.user \in GroupUsers
      /\ UNCHANGED <<groups, gconvs, grows, created, gfaults>>
      /\ members' = members \ {<<a.group, a.user>>} /\ SetReq(r, [a EXCEPT !.at = "conv"])
  BY <1>1 DEF LeaveGroup, ReqAt, GroupTypes, ReqShape, ReqGoto
<1>3. PICK q : q = [a EXCEPT !.at = "conv"]
  OBVIOUS
<1>4. /\ q \in Reqs /\ q.op = "leave" /\ q.left = a.left /\ q.group = a.group /\ q.at = "conv"
      /\ q.user = a.user
  BY <1>2, <1>3 DEF Reqs
<1>5. ReqShape(q) /\ SetReq(r, q)
  BY <1>2, <1>3, <1>4 DEF ReqShape
<1>6. /\ GroupTypes' /\ req'[r] = q /\ \A o \in Requests \ {r} : req'[o] = req[o]
      /\ (gfaults' = gfaults => \A g \in 1 .. created, u \in GroupUsers :
             Alone(g, u) /\ Alone(g, u)' /\ PairInv(g, u) => PairInv(g, u)')
           => PairsKept
  <2>1. groups' \subseteq groups /\ grows' \subseteq GroupPairs /\ members' \subseteq GroupPairs
        /\ gconvs' \subseteq GroupPairs /\ gfaults' \in {gfaults, gfaults + 1}
    BY <1>2 DEF GroupTypes
  <2> QED BY <1>1, <1>2, <1>4, <1>5, <2>1, PlainStep
<1>7. ASSUME NEW g \in 1 .. created, NEW u \in GroupUsers, Alone(g, u), PairInv(g, u)
      PROVE  PairInv(g, u)'
  <2>1. ~Ends(a, g) /\ ~Halfway(a, g, u) /\ ~Ends(q, g) /\ ~Makes(q, g, u) /\ ~Chats(q, g, u)
        /\ ~Joins(q, g, u)
    BY <1>2, <1>4 DEF Ends, Halfway, Joins, Leaves, Makes, Chats
  <2>2. Leaves(q, g, u) <=> g = a.group /\ u = a.user
    BY <1>4 DEF Leaves
  <2>3. Leaves(q, g, u) => <<g, u>> \notin members'
    BY <1>2, <2>2
  <2>4. PairReq(req[r], g, u)'
    BY <1>6, <2>1, <2>3 DEF PairReq
  <2>5. Down(g)' <=> Down(g)
    BY <1>1, <1>2, <1>6, <2>1 DEF Down
  <2>6. CASE ~Leaves(q, g, u)
    <3>1. <<g, u>> \in members' <=> <<g, u>> \in members
      BY <1>2, <2>2, <2>6
    <3>2. ~Ends(req'[r], g) /\ ~Ends(req[r], g) /\ ~Halfway(req[r], g, u)
      BY <1>1, <1>6, <2>1
    <3> QED BY <1>2, <1>6, <1>7, <2>4, <3>1, <3>2, PairFrame
  <2>7. CASE Leaves(q, g, u)
    <3>1. Leaves(req[r], g, u)
      BY <1>1, <1>2, <1>4, <2>7 DEF Leaves
    <3>2. \A o \in Requests \ {r} : ~Touches(req[o], g, u)
      BY <1>7, <3>1, AloneThere
    <3>3. ASSUME NEW o \in Requests PROVE PairReq(req[o], g, u)'
      <4>1. CASE o = r
        BY <2>4, <4>1
      <4>2. CASE o # r
        <5>1. req'[o] = req[o] /\ ~Touches(req[o], g, u) /\ PairReq(req[o], g, u)
          BY <1>6, <1>7, <3>2, <4>2 DEF PairInv
        <5> QED BY <1>2, <5>1 DEF PairReq, Touches
      <4> QED BY <4>1, <4>2
    <3>4. Halfway(req'[r], g, u)
      BY <1>4, <1>6, <2>7 DEF Halfway
    <3> QED BY <1>2, <1>7, <2>3, <2>7, <3>3, <3>4 DEF PairInv
  <2> QED BY <2>6, <2>7
<1> QED BY <1>6, <1>7

(* The conversation goes; where numbers coincide, another one too.         *)
LEMMA LeaveConvKeeps ==
  ASSUME GroupTypes, NEW r \in Requests, LeaveConversation(r)
  PROVE  GroupTypes' /\ PairsKept
<1>1. PICK a : a = req[r]
  OBVIOUS
<1>2. /\ a \in Reqs /\ ReqShape(a) /\ a.op = "leave" /\ a.at = "conv" /\ a.user \in GroupUsers
      /\ UNCHANGED <<groups, members, grows, created>> /\ SetReq(r, FreeReq)
      /\ OrIgnored(gconvs, gconvs' = gconvs \ {<<a.group, a.user>>, <<a.user, a.group>>})
  BY <1>1 DEF LeaveConversation, ReqAt, GroupTypes, ReqShape, FinishReq
<1>3. a.group \in GroupIds
  <2>1. a.group <= created /\ created \in Nat /\ a.group \in Nat /\ a.group # 0
        /\ created <= MaxGroups /\ MaxGroups \in Nat
    BY <1>1, <1>2, GroupBounds DEF GroupTypes, ReqShape, Reqs
  <2> QED BY <2>1 DEF GroupIds
<1>4. gfaults' = gfaults => gconvs' = gconvs \ {<<a.group, a.user>>, <<a.user, a.group>>}
  <2>1. gfaults \in Nat
    BY DEF GroupTypes
  <2> QED BY <1>2, <2>1 DEF OrIgnored
<1>5. /\ GroupTypes' /\ req'[r] = FreeReq /\ \A o \in Requests \ {r} : req'[o] = req[o]
      /\ (gfaults' = gfaults => \A g \in 1 .. created, u \in GroupUsers :
             Alone(g, u) /\ Alone(g, u)' /\ PairInv(g, u) => PairInv(g, u)')
           => PairsKept
  <2>1. groups' \subseteq groups /\ grows' \subseteq GroupPairs /\ members' \subseteq GroupPairs
        /\ gconvs' \subseteq GroupPairs /\ gfaults' \in {gfaults, gfaults + 1}
    BY <1>2 DEF GroupTypes, OrIgnored
  <2> QED BY <1>2, <2>1, FreeFacts, PlainStep
<1>6. ASSUME gfaults' = gfaults, NEW g \in 1 .. created, NEW u \in GroupUsers,
             Alone(g, u), PairInv(g, u)
      PROVE  PairInv(g, u)'
  <2>1. ~Ends(a, g) /\ ~Ends(FreeReq, g) /\ ~Touches(FreeReq, g, u)
    BY <1>2, FreeFacts DEF Ends
  <2>2. PairReq(req[r], g, u)'
    BY <1>5, <2>1 DEF PairReq, Touches
  <2>3. Down(g)' <=> Down(g)
    BY <1>1, <1>2, <1>5, <2>1 DEF Down
  <2>4. \A o \in Requests \ {r} : req'[o] = req[o] /\ PairReq(req[o], g, u)
    BY <1>5, <1>6 DEF PairInv
  <2>5. CASE Leaves(a, g, u)
    <3>1. <<g, u>> \notin members /\ <<g, u>> \notin gconvs'
      BY <1>1, <1>2, <1>4, <1>6, <2>5 DEF PairInv, PairReq, Leaves
    <3>2. \A o \in Requests \ {r} : ~Touches(req[o], g, u)
      BY <1>1, <1>6, <2>5, AloneThere
    <3>3. ASSUME NEW o \in Requests PROVE PairReq(req[o], g, u)'
      <4>1. CASE o = r
        BY <2>2, <4>1
      <4>2. CASE o # r
        BY <1>2, <2>4, <3>1, <3>2, <4>2 DEF PairReq, Touches
      <4> QED BY <4>1, <4>2
    <3> QED BY <1>2, <1>6, <2>3, <3>1, <3>3 DEF PairInv
  <2>6. CASE ~Leaves(a, g, u) /\ g = a.user /\ u = a.group
    <3>1. Collides(g, u)
      BY <1>2, <1>3, <2>6 DEF Leaves, Collides, GroupIds
    <3>2. <<g, u>> \notin gconvs'
      BY <1>4, <1>6, <2>6
    <3>3. ASSUME NEW o \in Requests PROVE PairReq(req[o], g, u)'
      <4>1. CASE o = r
        BY <2>2, <4>1
      <4>2. CASE o # r
        BY <1>2, <2>3, <2>4, <3>1, <3>2, <4>2 DEF PairReq, Collides
      <4> QED BY <4>1, <4>2
    <3> QED BY <1>2, <1>6, <2>3, <3>1, <3>2, <3>3 DEF PairInv, Collides
  <2>7. CASE ~Leaves(a, g, u) /\ ~(g = a.user /\ u = a.group)
    <3>1. ~(g = a.group /\ u = a.user)
      BY <1>2, <2>7 DEF Leaves
    <3>2. <<g, u>> \in gconvs' <=> <<g, u>> \in gconvs
      BY <1>4, <1>6, <2>7, <3>1
    <3>3. ~Ends(req'[r], g) /\ ~Ends(req[r], g) /\ ~Halfway(req[r], g, u)
      BY <1>1, <1>2, <1>5, <2>1, <2>7 DEF Halfway, Makes, Joins
    <3> QED BY <1>2, <1>5, <1>6, <2>2, <3>2, <3>3, PairFrame
  <2> QED BY <2>5, <2>6, <2>7
<1> QED BY <1>5, <1>6

(* A dissolution goes on by one table.                                     *)
LEMMA DissolveOne ==
  ASSUME GroupTypes, NEW r \in Requests, NEW a, a = req[r], a.op = "dissolve",
         NEW q \in Reqs, ReqShape(q), SetReq(r, q), UNCHANGED created,
         gfaults' \in {gfaults, gfaults + 1},
         groups' \subseteq groups, members' \subseteq members, gconvs' \subseteq gconvs,
         grows' \subseteq grows,
         \/ q = FreeReq /\ a.at = "group"
         \/ q.op = "dissolve" /\ q.group = a.group /\ q.at # "start",
         \A g \in 1 .. created \ {a.group}, u \in GroupUsers :
           /\ g \in groups' <=> g \in groups
           /\ <<g, u>> \in members' <=> <<g, u>> \in members
           /\ <<g, u>> \in gconvs' <=> <<g, u>> \in gconvs
           /\ <<g, u>> \in grows' <=> <<g, u>> \in grows,
         gfaults' = gfaults =>
           /\ q = FreeReq => a.group \notin groups'
           /\ q # FreeReq => UNCHANGED groups
           /\ \A u \in GroupUsers :
                /\ a.at = "start" => <<a.group, u>> \notin members'
                /\ q.at = "convs" => <<a.group, u>> \notin grows'
                /\ q.at = "group" => <<a.group, u>> \notin gconvs' /\ a.at = "convs"
  PROVE  GroupTypes' /\ PairsKept
<1>1. a \in Reqs /\ ReqShape(a) /\ q.group \in {0, a.group}
  BY FreeFacts DEF GroupTypes
<1>2. /\ GroupTypes' /\ req'[r] = q /\ \A o \in Requests \ {r} : req'[o] = req[o]
      /\ (gfaults' = gfaults => \A g \in 1 .. created, u \in GroupUsers :
             Alone(g, u) /\ Alone(g, u)' /\ PairInv(g, u) => PairInv(g, u)')
           => PairsKept
  <2>1. grows' \subseteq GroupPairs /\ members' \subseteq GroupPairs /\ gconvs' \subseteq GroupPairs
    BY DEF GroupTypes
  <2> QED BY <1>1, <2>1, PlainStep
<1>3. ASSUME gfaults' = gfaults, NEW g \in 1 .. created, NEW u \in GroupUsers,
             Alone(g, u), PairInv(g, u)
      PROVE  PairInv(g, u)'
  <2>1. q = FreeReq => ~Ends(q, g) /\ q.op = "free"
    BY FreeFacts DEF FreeReq
  <2>2. ~Touches(q, g, u)
    BY <1>1, <2>1, FreeFacts DEF Touches, Joins, Leaves, Makes, Chats, Opens
  <2>3. CASE g # a.group
    <3>1. ~Ends(q, g) /\ ~Ends(a, g) /\ ~Halfway(a, g, u)
      BY <2>1, <2>3 DEF Ends, Halfway, Joins, Leaves, Makes
    <3>2. PairReq(req[r], g, u)'
      BY <1>2, <2>2, <3>1 DEF PairReq, Touches
    <3>3. ~Ends(req'[r], g) /\ ~Ends(req[r], g) /\ ~Halfway(req[r], g, u)
      BY <1>2, <3>1
    <3>4. g \in 1 .. created \ {a.group}
      BY <2>3
    <3> QED BY <1>2, <1>3, <3>2, <3>3, <3>4, PairFrame
  <2>4. CASE g = a.group
    <3>1. a.at # "start" => Ends(a, g) /\ Down(g)
      BY <2>4 DEF Ends, Down
    <3>2. <<g, u>> \notin members'
      BY <1>3, <2>4, <3>1 DEF PairInv
    <3>3. \A o \in Requests \ {r} :
            ~Makes(req[o], g, u) /\ ~Chats(req[o], g, u) /\ ~Joins(req[o], g, u)
      <4>1. CASE a.at = "start"
        <5>1. Opens(req[r], g)
          BY <2>4, <4>1 DEF Opens
        <5> QED BY <1>3, <5>1, AloneThere DEF Touches
      <4>2. CASE a.at # "start"
        BY <1>3, <3>1, <4>2 DEF PairInv, PairReq, Alone
      <4> QED BY <4>1, <4>2
    <3>4. PairReq(a, g, u)
      BY <1>3 DEF PairInv
    <3>5. /\ q.at \in {"convs", "group"} \/ q = FreeReq => <<g, u>> \notin grows'
          /\ q.at = "group" \/ q = FreeReq => <<g, u>> \notin gconvs'
      <4>1. a.at \in {"convs", "group"} => <<g, u>> \notin grows /\ <<g, u>> \notin grows'
        BY <3>1, <3>4 DEF PairReq
      <4>2. a.at = "group" => <<g, u>> \notin gconvs /\ <<g, u>> \notin gconvs'
        BY <3>1, <3>4 DEF PairReq
      <4>3. q = FreeReq => q.at = "idle" /\ a.at = "group"
        BY <2>1 DEF FreeReq
      <4> QED BY <1>3, <2>4, <4>1, <4>2, <4>3
    <3>6. ASSUME NEW o \in Requests PROVE PairReq(req[o], g, u)'
      <4>1. CASE o = r
        BY <1>2, <2>2, <3>5, <4>1 DEF PairReq, Touches
      <4>2. CASE o # r
        <5>1. req'[o] = req[o] /\ PairReq(req[o], g, u)
          BY <1>2, <1>3, <4>2 DEF PairInv
        <5> QED BY <3>2, <3>3, <4>2, <5>1 DEF PairReq
      <4> QED BY <4>1, <4>2
    <3>7. q # FreeReq => Halfway(req'[r], g, u) /\ UNCHANGED groups
      BY <1>2, <1>3, <2>4 DEF Halfway, Ends
    <3> QED BY <1>3, <3>2, <3>5, <3>6, <3>7 DEF PairInv
  <2> QED BY <2>3, <2>4
<1> QED BY <1>2, <1>3

(* The four statements of a dissolution.                                   *)
LEMMA DissolveKeeps ==
  ASSUME GroupTypes, NEW r \in Requests, DissolveGroup(r)
  PROVE  GroupTypes' /\ PairsKept
<1>1. PICK a : a = req[r]
  OBVIOUS
<1> DEFINE Without(t) == {p \in t : p[1] # a.group}
<1>2. a \in Reqs /\ ReqShape(a) /\ a.op = "dissolve" /\ a.group # 0 /\ a.left = {}
      /\ UNCHANGED created /\ gfaults \in Nat
  BY <1>1 DEF DissolveGroup, ReqAt, GroupTypes, ReqShape
<1>3. ASSUME NEW t PROVE /\ Without(t) \subseteq t
                         /\ \A g, u : <<g, u>> \in Without(t) <=> <<g, u>> \in t /\ g # a.group
  OBVIOUS
<1>4. ASSUME NEW p \in {"rows", "convs", "group"}
      PROVE  LET q == [a EXCEPT !.at = p]
             IN q \in Reqs /\ ReqShape(q) /\ q.op = "dissolve" /\ q.group = a.group /\ q.at = p
                /\ q # FreeReq
  <2>1. PICK q : q = [a EXCEPT !.at = p]
    OBVIOUS
  <2>2. /\ q \in Reqs /\ q.op = "dissolve" /\ q.group = a.group /\ q.at = p /\ q.left = a.left
        /\ q.user = a.user
    BY <1>2, <2>1 DEF Reqs
  <2>3. ReqShape(q) /\ q # FreeReq
    BY <1>2, <2>2, FreeFacts DEF ReqShape
  <2> QED BY <2>1, <2>2, <2>3
<1>5. CASE /\ a.at = "start" /\ SetReq(r, [a EXCEPT !.at = "rows"])
           /\ OrIgnored(members, members' = Without(members))
           /\ UNCHANGED <<groups, gconvs, grows>>
  <2>1. PICK q : q = [a EXCEPT !.at = "rows"]
    OBVIOUS
  <2>2. /\ q \in Reqs /\ ReqShape(q) /\ q.op = "dissolve" /\ q.group = a.group /\ q.at = "rows"
        /\ q # FreeReq /\ SetReq(r, q)
    BY <1>4, <1>5, <2>1
  <2>3. /\ members' = members \/ members' = Without(members)
        /\ gfaults' \in {gfaults, gfaults + 1}
        /\ gfaults' = gfaults => members' = Without(members)
    BY <1>2, <1>5 DEF OrIgnored
  <2> HIDE DEF Without
  <2>4. /\ members' \subseteq members
        /\ \A g, u : g # a.group => (<<g, u>> \in members' <=> <<g, u>> \in members)
        /\ gfaults' = gfaults => \A u : <<a.group, u>> \notin members'
    BY <1>3, <2>3
  <2> QED BY <1>1, <1>2, <1>5, <2>2, <2>3, <2>4, DissolveOne
<1>6. CASE /\ a.at = "rows" /\ SetReq(r, [a EXCEPT !.at = "convs"])
           /\ OrIgnored(grows, grows' = Without(grows))
           /\ UNCHANGED <<groups, members, gconvs>>
  <2>1. PICK q : q = [a EXCEPT !.at = "convs"]
    OBVIOUS
  <2>2. /\ q \in Reqs /\ ReqShape(q) /\ q.op = "dissolve" /\ q.group = a.group /\ q.at = "convs"
        /\ q # FreeReq /\ SetReq(r, q)
    BY <1>4, <1>6, <2>1
  <2>3. /\ grows' = grows \/ grows' = Without(grows)
        /\ gfaults' \in {gfaults, gfaults + 1}
        /\ gfaults' = gfaults => grows' = Without(grows)
    BY <1>2, <1>6 DEF OrIgnored
  <2> HIDE DEF Without
  <2>4. /\ grows' \subseteq grows
        /\ \A g, u : g # a.group => (<<g, u>> \in grows' <=> <<g, u>> \in grows)
        /\ gfaults' = gfaults => \A u : <<a.group, u>> \notin grows'
    BY <1>3, <2>3
  <2> QED BY <1>1, <1>2, <1>6, <2>2, <2>3, <2>4, DissolveOne
<1>7. CASE /\ a.at = "convs" /\ SetReq(r, [a EXCEPT !.at = "group"])
           /\ OrIgnored(gconvs, gconvs' = Without(gconvs))
           /\ UNCHANGED <<groups, members, grows>>
  <2>1. PICK q : q = [a EXCEPT !.at = "group"]
    OBVIOUS
  <2>2. /\ q \in Reqs /\ ReqShape(q) /\ q.op = "dissolve" /\ q.group = a.group /\ q.at = "group"
        /\ q # FreeReq /\ SetReq(r, q)
    BY <1>4, <1>7, <2>1
  <2>3. /\ gconvs' = gconvs \/ gconvs' = Without(gconvs)
        /\ gfaults' \in {gfaults, gfaults + 1}
        /\ gfaults' = gfaults => gconvs' = Without(gconvs)
    BY <1>2, <1>7 DEF OrIgnored
  <2> HIDE DEF Without
  <2>4. /\ gconvs' \subseteq gconvs
        /\ \A g, u : g # a.group => (<<g, u>> \in gconvs' <=> <<g, u>> \in gconvs)
        /\ gfaults' = gfaults => \A u : <<a.group, u>> \notin gconvs'
    BY <1>3, <2>3
  <2> QED BY <1>1, <1>2, <1>7, <2>2, <2>3, <2>4, DissolveOne
<1>8. CASE /\ a.at = "group" /\ SetReq(r, FreeReq)
           /\ OrIgnored(groups, groups' = groups \ {a.group})
           /\ UNCHANGED <<members, gconvs, grows>>
  <2>1. /\ groups' = groups \/ groups' = groups \ {a.group}
        /\ gfaults' \in {gfaults, gfaults + 1}
        /\ gfaults' = gfaults => a.group \notin groups'
    BY <1>2, <1>8 DEF OrIgnored
  <2>2. FreeReq.at = "idle"
    BY DEF FreeReq
  <2> QED BY <1>1, <1>2, <1>8, <2>1, <2>2, FreeFacts, DissolveOne
<1> QED BY <1>1, <1>5, <1>6, <1>7, <1>8 DEF DissolveGroup, ReqAt, ReqGoto, FinishReq

(* Conversations on creation, on joining and with a message.               *)
LEMMA ConversationKeeps ==
  ASSUME GroupTypes, NEW r \in Requests,
         CreateConversation(r) \/ JoinConversation(r) \/ UpdateGroupConversation(r)
  PROVE  GroupTypes' /\ PairsKept
<1>1. PICK a : a = req[r]
  OBVIOUS
<1>2. /\ a \in Reqs /\ ReqShape(a) /\ a.group <= created /\ created \in Nat /\ a.group \in Nat
      /\ a.left \subseteq GroupUsers
  BY <1>1 DEF GroupTypes, Reqs
<1>3. ASSUME a.op \in {"create", "chat"}, a.group # 0, NEW v \in a.left,
             IF a.left = {v} THEN SetReq(r, FreeReq)
             ELSE SetReq(r, [a EXCEPT !.at = IF a.op = "chat" THEN "row" ELSE @, !.left = @ \ {v}]),
             a.op = "create" => a.at = "convs",
             OrIgnored(gconvs, gconvs' = gconvs \cup {<<a.group, v>>}),
             UNCHANGED <<groups, created, members, grows>>
      PROVE  GroupTypes' /\ PairsKept
  <2>1. v \in GroupUsers /\ a.group \in 1 .. created
    BY <1>2, <1>3
  <2>2. CASE a.left = {v}
    BY <1>1, <1>2, <1>3, <2>1, <2>2, FreeFacts, AddConversation
  <2>3. CASE a.left # {v}
    <3> DEFINE s == IF a.op = "chat" THEN "row" ELSE a.at
    <3>1. s \in {"row", "convs"} /\ (a.op = "create" => s = "convs") /\ (a.op = "chat" => s = "row")
      BY <1>3
    <3>2. PICK q : q = [a EXCEPT !.at = s, !.left = a.left \ {v}]
      OBVIOUS
    <3>3. SetReq(r, q)
      BY <1>3, <2>3, <3>2
    <3> HIDE DEF s
    <3>4. /\ q \in Reqs /\ q.op = a.op /\ q.group = a.group /\ q.left = a.left \ {v} /\ q.at = s
          /\ q.user = a.user
      BY <1>2, <3>1, <3>2 DEF Reqs
    <3>5. ReqShape(q)
      BY <1>2, <1>3, <3>1, <3>4 DEF ReqShape
    <3>6. a.op # "join"
      BY <1>3
    <3> QED BY <1>1, <1>2, <1>3, <2>1, <3>3, <3>4, <3>5, <3>6, AddConversation
  <2> QED BY <2>2, <2>3
<1>4. CASE JoinConversation(r)
  <2>1. /\ a.op = "join" /\ a.at = "conv" /\ SetReq(r, FreeReq)
        /\ OrIgnored(gconvs, gconvs' = gconvs \cup {<<a.group, a.user>>})
        /\ UNCHANGED <<groups, created, members, grows>>
    BY <1>1, <1>4 DEF JoinConversation, ReqAt, FinishReq
  <2>2. a.user \in GroupUsers /\ a.group \in 1 .. created
    BY <1>2, <2>1 DEF ReqShape
  <2> QED BY <1>1, <1>2, <2>1, <2>2, FreeFacts, AddConversation
<1>5. CASE CreateConversation(r)
  <2>1. /\ a.op = "create" /\ a.at = "convs" /\ UNCHANGED <<groups, created, members, grows>>
    BY <1>1, <1>5 DEF CreateConversation, ReqAt
  <2>2. a.group # 0
    BY <1>2, <2>1 DEF ReqShape
  <2>3. PICK v \in a.left :
          /\ OrIgnored(gconvs, gconvs' = gconvs \cup {<<a.group, v>>})
          /\ IF a.left = {v} THEN SetReq(r, FreeReq) ELSE SetReq(r, [a EXCEPT !.left = @ \ {v}])
    BY <1>1, <1>5 DEF CreateConversation, FinishReq
  <2>4. [a EXCEPT !.left = @ \ {v}] = [a EXCEPT !.at = IF a.op = "chat" THEN "row" ELSE @,
                                                !.left = @ \ {v}]
    BY <1>2, <2>1 DEF Reqs
  <2> QED BY <1>3, <2>1, <2>2, <2>3, <2>4
<1>6. CASE UpdateGroupConversation(r)
  <2>1. /\ a.op = "chat" /\ a.at = "conv" /\ UNCHANGED <<groups, created, members, grows>>
    BY <1>1, <1>6 DEF UpdateGroupConversation, ReqAt
  <2>2. a.group # 0 /\ a.user \in a.left
    BY <1>2, <2>1 DEF ReqShape
  <2>3. /\ OrIgnored(gconvs, gconvs' = gconvs \cup {<<a.group, a.user>>})
        /\ IF a.left = {a.user} THEN SetReq(r, FreeReq)
           ELSE SetReq(r, [a EXCEPT !.at = "row", !.left = @ \ {a.user}])
    BY <1>1, <1>6 DEF UpdateGroupConversation, FinishReq
  <2> QED BY <1>3, <2>1, <2>2, <2>3
<1> QED BY <1>4, <1>5, <1>6

(* The invariant is inductive.                                             *)
LEMMA GroupInvStep == GroupInv /\ [GroupNext]_groupVars => GroupInv'
<1> SUFFICES ASSUME GroupInv, [GroupNext]_groupVars PROVE GroupInv'
  OBVIOUS
<1>1. GroupTypes /\ created \in Nat
  BY DEF GroupInv, GroupTypes
<1>2. CASE UNCHANGED groupVars
  <2>1. GroupTypes'
    BY <1>1, <1>2 DEF groupVars, GroupTypes, GroupPairs
  <2>2. \A g, u : (Alone(g, u) => Alone(g, u)') /\ (PairInv(g, u) => PairInv(g, u)')
    BY <1>2 DEF groupVars, Alone, PairInv, PairReq, Down, Collides
  <2> QED BY <1>2, <2>1, <2>2 DEF groupVars, GroupInv
<1>3. CASE GroupNext
  <2>1. GroupTypes' /\ PairsKept
    <3>1. PICK r \in Requests :
            \/ GroupStep(r)
            \/ \E u \in GroupUsers :
                 \/ CreateGroupHandler(r, u)
                 \/ \E g \in 1 .. created :
                      \/ JoinGroupHandler(r, u, g) \/ ApproveJoinGroupHandler(r, u, g)
                      \/ LeaveGroupHandler(r, u, g) \/ DissolveGroupHandler(r, u, g)
                      \/ TakeGroupChat(r, u, g)
      BY <1>3 DEF GroupNext
    <3>2. CASE GroupStep(r)
      BY <1>1, <3>2, CreateKeeps, ConversationKeeps, JoinKeeps, LeaveKeeps, LeaveConvKeeps,
         DissolveKeeps, FanOutKeeps, RowKeeps DEF GroupStep
    <3>3. ASSUME NEW u \in GroupUsers, CreateGroupHandler(r, u) PROVE GroupTypes' /\ PairsKept
      <4>1. 0 \in 0 .. created
        BY <1>1
      <4> QED BY <1>1, <3>3, <4>1, BeginKeeps DEF CreateGroupHandler
    <3>4. ASSUME NEW u \in GroupUsers, NEW g \in 1 .. created,
                 \/ JoinGroupHandler(r, u, g) \/ ApproveJoinGroupHandler(r, u, g)
                 \/ LeaveGroupHandler(r, u, g) \/ DissolveGroupHandler(r, u, g)
                 \/ TakeGroupChat(r, u, g)
          PROVE  GroupTypes' /\ PairsKept
      <4>1. g \in 0 .. created /\ g # 0
        BY <1>1
      <4>2. PICK op \in {"join", "leave", "dissolve", "chat"} : BeginReq(r, op, u, g)
        BY <3>4 DEF JoinGroupHandler, ApproveJoinGroupHandler, LeaveGroupHandler,
                    DissolveGroupHandler, TakeGroupChat
      <4> QED BY <1>1, <4>1, <4>2, BeginKeeps
    <3> QED BY <3>1, <3>2, <3>3, <3>4
  <2>2. crossed' = crossed \cup Meetings(req')
    BY <1>3 DEF GroupNext
  <2>3. ASSUME NEW g \in 1 .. created', NEW u \in GroupUsers, <<g, u>> \notin crossed'
        PROVE  Alone(g, u)' /\ (gfaults' = 0 => PairInv(g, u)')
    <3>1. g \in Nat /\ 1 <= g
      BY <2>1 DEF GroupTypes
    <3>2. Alone(g, u)'
      BY <2>1, <2>2, <2>3, <3>1, MeetingsCross
    <3>3. g <= created => Alone(g, u) /\ (gfaults = 0 => PairInv(g, u))
      <4>1. g <= created => g \in 1 .. created
        BY <1>1, <3>1
      <4> QED BY <2>2, <2>3, <4>1 DEF GroupInv
    <3> QED BY <2>1, <2>3, <3>2, <3>3 DEF PairsKept
  <2> QED BY <2>1, <2>3 DEF GroupInv
<1> QED BY <1>2, <1>3

(* The start.                                                              *)
LEMMA GroupStart == GroupInit => GroupInv
<1> SUFFICES ASSUME GroupInit PROVE GroupInv
  OBVIOUS
<1>1. created = 0 /\ 0 <= MaxGroups
  BY GroupBounds DEF GroupInit
<1>2. GroupTypes
  BY <1>1, FreeFacts DEF GroupInit, GroupTypes
<1> QED BY <1>1, <1>2 DEF GroupInv

(* The invariant gives both properties.                                    *)
LEMMA GroupImplies == GroupInv => ConvFollowsMembership /\ DissolvedIsGone
<1> SUFFICES ASSUME GroupInv PROVE ConvFollowsMembership /\ DissolvedIsGone
  OBVIOUS
<1>1. /\ created \in Nat /\ members \subseteq GroupPairs /\ gconvs \subseteq GroupPairs
      /\ grows \subseteq GroupPairs
  BY DEF GroupInv, GroupTypes
<1>2. ASSUME NEW g \in GroupIds, NEW u \in GroupUsers, GroupSettled(g), gfaults = 0,
             <<g, u>> \notin crossed, ~Collides(g, u)
      PROVE  <<g, u>> \in members <=> <<g, u>> \in gconvs
  <2>1. CASE g \in 1 .. created
    <3>1. PairInv(g, u)
      BY <1>2, <2>1 DEF GroupInv
    <3>2. \A r \in Requests : ~Halfway(req[r], g, u)
      BY <1>2, OtherGroup DEF GroupSettled
    <3> QED BY <1>2, <3>1, <3>2 DEF PairInv
  <2>2. CASE g \notin 1 .. created
    BY <1>1, <2>2 DEF GroupPairs
  <2> QED BY <2>1, <2>2
<1>3. DissolvedIsGone
  BY DEF GroupInv, PairInv, Down, DissolvedIsGone
<1> QED BY <1>2, <1>3 DEF ConvFollowsMembership

(* The groups' inductive invariant.                                        *)
THEOREM GroupInvariance == GroupSpec => []GroupInv
BY GroupStart, GroupInvStep, PTL DEF GroupSpec

(* Member list and conversation list agree on every pair that no two       *)
(* requests met on.                                                        *)
THEOREM MembersHaveConversations == GroupSpec => []ConvFollowsMembership
BY GroupInvariance, GroupImplies, PTL

(* A dissolved group leaves nothing behind.                                *)
THEOREM DissolvedLeavesNothing == GroupSpec => []DissolvedIsGone
BY GroupInvariance, GroupImplies, PTL

-----------------------------------------------------------------------------
(* Accounts: a row belongs to who founded it.                              *)

(* A row, an entry of a login, a token.                                    *)
IsRow(r) == r = [id |-> r.id, name |-> r.name, password |-> r.password, nick |-> r.nick]

(* What p wrote.                                                           *)
WroteNick(p, n) == n \in {p, DefaultNick}

(* Rows and founders go together, one founder to an identifier.            *)
OneFounder ==
  /\ \A f \in founder : f = <<f[1], f[2]>> /\ \E r \in users : r.id = f[1]
  /\ \A f, h \in founder : f[1] = h[1] => f[2] = h[2]

RowsAreFounders ==
  \A r \in users : /\ IsRow(r)
                   /\ \E p : /\ <<r.id, p>> \in founder /\ r.password \in Passwords(p)
                             /\ WroteNick(p, r.nick)

(* A login in progress, a token and a request name a founder.              *)
HoldersAreFounders ==
  \A t \in checked \cup tokens \cup acting : <<t.id, t.who>> \in founder

SeenIsWritten ==
  \A s \in seen : \E p : <<s.id, p>> \in founder /\ WroteNick(p, s.nick)

AccountInv ==
  OneFounder /\ RowsAreFounders /\ HoldersAreFounders /\ SeenIsWritten

(* People choose their own passwords.                                      *)
LEMMA OwnPasswords ==
  ASSUME NEW p, NEW q, NEW w \in Passwords(p), w \in Passwords(q)
  PROVE  p = q
BY DEF Passwords

(* A registration adds a row and its founder.                              *)
LEMMA RegisterKeeps ==
  ASSUME AccountInv, NEW p \in People, UserRegisterHandler(p)
  PROVE  AccountInv'
<1>1. PICK id \in UserIds, name \in Names, pw \in Passwords(p), nick \in {p, ""} :
        UserRegister(p, id, name, pw, nick)
  BY DEF UserRegisterHandler
<1> DEFINE r == NewUser(id, name, pw, nick)
<1>2. /\ \A o \in users : o.id # r.id
      /\ users' = users \cup {r}
      /\ founder' = IF r.id \in RowIds THEN founder ELSE founder \cup {<<r.id, p>>}
      /\ UNCHANGED <<checked, tokens, acting, seen>>
  BY <1>1 DEF UserRegister, InsertUser
<1>3. IsRow(r) /\ r.password \in Passwords(p) /\ WroteNick(p, r.nick)
  BY DEF IsRow, NewUser, WroteNick
<1> HIDE DEF r
<1>4. founder' = founder \cup {<<r.id, p>>}
  BY <1>2 DEF RowIds
<1>5. \A f \in founder : f[1] # r.id
  BY <1>2 DEF AccountInv, OneFounder
<1>6. OneFounder'
  <2> DEFINE new == <<r.id, p>>
  <2>1. new[1] = r.id /\ new[2] = p /\ new = <<new[1], new[2]>>
    OBVIOUS
  <2>2. founder' = founder \cup {new} /\ r \in users'
    BY <1>2, <1>4
  <2> HIDE DEF new
  <2>3. ASSUME NEW f \in founder' PROVE f = <<f[1], f[2]>> /\ \E o \in users' : o.id = f[1]
    <3>1. CASE f \in founder
      BY <1>2, <3>1 DEF AccountInv, OneFounder
    <3>2. CASE f = new
      BY <2>1, <2>2, <3>2
    <3> QED BY <2>2, <3>1, <3>2
  <2>4. ASSUME NEW f \in founder', NEW h \in founder', f[1] = h[1] PROVE f[2] = h[2]
    <3>1. CASE f \in founder /\ h \in founder
      BY <2>4, <3>1 DEF AccountInv, OneFounder
    <3>2. CASE f = new \/ h = new
      BY <1>5, <2>1, <2>2, <2>4, <3>2
    <3> QED BY <2>2, <3>1, <3>2
  <2> QED BY <2>3, <2>4 DEF OneFounder
<1>7. RowsAreFounders'
  <2> SUFFICES ASSUME NEW o \in users'
               PROVE  IsRow(o) /\ \E q : /\ <<o.id, q>> \in founder' /\ o.password \in Passwords(q)
                                         /\ WroteNick(q, o.nick)
    BY DEF RowsAreFounders
  <2>1. CASE o \in users
    BY <1>4, <2>1 DEF AccountInv, RowsAreFounders
  <2>2. CASE o = r
    BY <1>3, <1>4, <2>2
  <2> QED BY <1>2, <2>1, <2>2
<1>8. HoldersAreFounders'
  BY <1>2, <1>4 DEF AccountInv, HoldersAreFounders
<1>9. SeenIsWritten'
  BY <1>2, <1>4 DEF AccountInv, SeenIsWritten
<1> QED BY <1>6, <1>7, <1>8, <1>9 DEF AccountInv

(* A login succeeds only for the founder.                                  *)
LEMMA LoginKeeps ==
  ASSUME AccountInv, NEW p \in People, UserLoginHandler(p)
  PROVE  AccountInv'
<1>1. PICK name \in Names, pw \in Passwords(p) : UserLogin(p, name, pw)
  BY DEF UserLoginHandler
<1>2. PICK r \in users : pw = r.password /\ checked' = checked \cup {[who |-> p, id |-> r.id]}
  BY <1>1 DEF UserLogin, FindUserByName, CheckPasswordHash
<1>3. UNCHANGED <<users, founder, tokens, acting, seen>>
  BY <1>1 DEF UserLogin
<1>4. <<r.id, p>> \in founder
  <2>1. PICK q : <<r.id, q>> \in founder /\ r.password \in Passwords(q)
    BY DEF AccountInv, RowsAreFounders
  <2>2. p = q
    BY <1>2, <2>1, OwnPasswords
  <2> QED BY <2>1, <2>2
<1>5. HoldersAreFounders'
  <2> DEFINE new == [who |-> p, id |-> r.id]
  <2>1. new.who = p /\ new.id = r.id /\ checked' = checked \cup {new}
    BY <1>2
  <2> HIDE DEF new
  <2> QED BY <1>3, <1>4, <2>1 DEF AccountInv, HoldersAreFounders
<1> QED BY <1>3, <1>5 DEF AccountInv, OneFounder, RowsAreFounders, SeenIsWritten

(* The token names the login, the request the token.                       *)
LEMMA TokenKeeps ==
  ASSUME AccountInv, (\E c \in checked : GenerateToken(c)) \/ (\E t \in tokens : JWTAuthMiddleware(t))
  PROVE  AccountInv'
<1>1. UNCHANGED <<users, founder, seen>>
  BY DEF GenerateToken, JWTAuthMiddleware
<1>2. HoldersAreFounders'
  <2>1. ASSUME NEW c \in checked, GenerateToken(c) PROVE HoldersAreFounders'
    <3> DEFINE new == [who |-> c.who, id |-> c.id, expires |-> clock + Lifetime]
    <3>1. /\ new.who = c.who /\ new.id = c.id /\ tokens' = tokens \cup {new}
          /\ checked' = checked \ {c} /\ UNCHANGED <<founder, acting>>
      BY <2>1 DEF GenerateToken
    <3> HIDE DEF new
    <3> QED BY <3>1 DEF AccountInv, HoldersAreFounders
  <2>2. ASSUME NEW t \in tokens, JWTAuthMiddleware(t) PROVE HoldersAreFounders'
    <3> DEFINE new == [who |-> t.who, id |-> t.id]
    <3>1. /\ new.who = t.who /\ new.id = t.id /\ acting' = acting \cup {new}
          /\ UNCHANGED <<founder, checked, tokens>>
      BY <2>2 DEF JWTAuthMiddleware
    <3> HIDE DEF new
    <3> QED BY <3>1 DEF AccountInv, HoldersAreFounders
  <2> QED BY <2>1, <2>2
<1> QED BY <1>1, <1>2 DEF AccountInv, OneFounder, RowsAreFounders, SeenIsWritten

(* A row after an update.                                                  *)
LEMMA UpdatedRow ==
  ASSUME NEW r, IsRow(r), NEW v, NEW n
  PROVE  [r EXCEPT !.password = v, !.nick = n]
           = [id |-> r.id, name |-> r.name, password |-> v, nick |-> n]
<1>1. PICK s : s = [id |-> r.id, name |-> r.name, password |-> r.password, nick |-> r.nick]
  OBVIOUS
<1>2. PICK t : t = [s EXCEPT !.password = v, !.nick = n]
  OBVIOUS
<1>3. t \in [id : {r.id}, name : {r.name}, password : {v}, nick : {n}]
  BY <1>1, <1>2
<1>4. t = [id |-> r.id, name |-> r.name, password |-> v, nick |-> n]
  BY <1>3
<1> QED BY <1>1, <1>2, <1>4 DEF IsRow

(* The value of an updated field is the old one or a given one.            *)
LEMMA UpdatedValue == \A given, old : Updated(given, old) \in given \cup {old}
<1> SUFFICES ASSUME NEW given, NEW old PROVE Updated(given, old) \in given \cup {old}
  OBVIOUS
<1>1. given # {} => (CHOOSE v \in given : TRUE) \in given
  OBVIOUS
<1> QED BY <1>1 DEF Updated

(* The profile changes on the row the token names, which is its holder's.  *)
LEMMA UpdateKeeps ==
  ASSUME AccountInv, NEW q \in acting, UpdateUserInfoHandler(q)
  PROVE  AccountInv'
<1>1. PICK pw \in {{}} \cup {{w} : w \in Passwords(q.who)}, nick \in {{}, {q.who}} :
        UpdateUserInfo(q, pw, nick)
  BY DEF UpdateUserInfoHandler
<1>2. /\ UNCHANGED <<founder, checked, tokens, seen>> /\ acting' = acting \ {q}
      /\ UpdateUser(q.id, pw, nick)
  BY <1>1 DEF UpdateUserInfo
<1> DEFINE New(r) == IF r.id = q.id
                     THEN [r EXCEPT !.password = Updated(pw, r.password), !.nick = Updated(nick, r.nick)]
                     ELSE r
<1>3. users' = {New(r) : r \in users}
  BY <1>2 DEF UpdateUser
<1>4. <<q.id, q.who>> \in founder
  BY DEF AccountInv, HoldersAreFounders
<1>5. ASSUME NEW r \in users
      PROVE  /\ New(r).id = r.id /\ IsRow(New(r))
             /\ \E p : /\ <<r.id, p>> \in founder /\ New(r).password \in Passwords(p)
                       /\ WroteNick(p, New(r).nick)
  <2>1. PICK p : <<r.id, p>> \in founder /\ r.password \in Passwords(p) /\ WroteNick(p, r.nick)
    BY DEF AccountInv, RowsAreFounders
  <2>2. IsRow(r)
    BY DEF AccountInv, RowsAreFounders
  <2>3. CASE r.id # q.id
    BY <2>1, <2>2, <2>3
  <2>4. CASE r.id = q.id
    <3> DEFINE v == Updated(pw, r.password)
               n == Updated(nick, r.nick)
    <3>1. p = q.who
      <4>1. <<r.id, p>>[1] = <<q.id, q.who>>[1]
        BY <2>4
      <4>2. <<r.id, p>>[2] = <<q.id, q.who>>[2]
        BY <1>4, <2>1, <4>1 DEF AccountInv, OneFounder
      <4> QED BY <4>2
    <3>2. v \in Passwords(p)
      <4>1. pw \subseteq Passwords(p) /\ v \in pw \cup {r.password}
        BY <3>1, UpdatedValue
      <4> QED BY <2>1, <4>1
    <3>3. WroteNick(p, n)
      <4>1. nick \subseteq {p} /\ n \in nick \cup {r.nick}
        BY <3>1, UpdatedValue
      <4> QED BY <2>1, <4>1 DEF WroteNick
    <3>4. New(r) = [id |-> r.id, name |-> r.name, password |-> v, nick |-> n]
      BY <2>2, <2>4, UpdatedRow
    <3> HIDE DEF v, n, New
    <3> QED BY <2>1, <3>2, <3>3, <3>4 DEF IsRow
  <2> QED BY <2>3, <2>4
<1> HIDE DEF New
<1>6. RowsAreFounders'
  <2> SUFFICES ASSUME NEW o \in users'
               PROVE  IsRow(o) /\ \E p : /\ <<o.id, p>> \in founder' /\ o.password \in Passwords(p)
                                         /\ WroteNick(p, o.nick)
    BY DEF RowsAreFounders
  <2>1. PICK r \in users : o = New(r)
    BY <1>3
  <2> QED BY <1>2, <1>5, <2>1
<1>7. OneFounder'
  <2>1. ASSUME NEW f \in founder' PROVE f = <<f[1], f[2]>> /\ \E o \in users' : o.id = f[1]
    <3>1. f = <<f[1], f[2]>>
      BY <1>2 DEF AccountInv, OneFounder
    <3>2. PICK r \in users : r.id = f[1]
      BY <1>2 DEF AccountInv, OneFounder
    <3>3. New(r) \in users' /\ New(r).id = f[1]
      BY <1>3, <1>5, <3>2
    <3> QED BY <3>1, <3>3
  <2> QED BY <1>2, <2>1 DEF AccountInv, OneFounder
<1> QED BY <1>2, <1>6, <1>7 DEF AccountInv, HoldersAreFounders, SeenIsWritten

(* What is shown of a row is what its founder wrote.                       *)
LEMMA ShowKeeps ==
  ASSUME AccountInv, NEW q \in acting, GetUserInfoHandler(q) \/ SearchUserHandler(q)
  PROVE  AccountInv'
<1>1. /\ UNCHANGED <<users, founder, checked, tokens>> /\ acting' = acting \ {q}
      /\ \E shown \in SUBSET users : seen' = seen \cup {Shown(r) : r \in shown}
  <2>1. ASSUME NEW id, GetUserInfo(q, id)
        PROVE  /\ UNCHANGED <<users, founder, checked, tokens>> /\ acting' = acting \ {q}
               /\ \E shown \in SUBSET users : seen' = seen \cup {Shown(r) : r \in shown}
    <3>1. GetUserByID(id) \in SUBSET users
      BY DEF GetUserByID
    <3> QED BY <2>1, <3>1 DEF GetUserInfo
  <2>2. ASSUME NEW containing \in SUBSET users, NEW indexed \in SUBSET containing,
               SearchUser(q, indexed, containing)
        PROVE  /\ UNCHANGED <<users, founder, checked, tokens>> /\ acting' = acting \ {q}
               /\ \E shown \in SUBSET users : seen' = seen \cup {Shown(r) : r \in shown}
    <3>1. SearchUsers(indexed, containing) \in SUBSET users
      BY DEF SearchUsers
    <3> QED BY <2>2, <3>1 DEF SearchUser
  <2> QED BY <2>1, <2>2 DEF GetUserInfoHandler, SearchUserHandler
<1>2. PICK shown \in SUBSET users : seen' = seen \cup {Shown(r) : r \in shown}
  BY <1>1
<1>3. SeenIsWritten'
  <2> SUFFICES ASSUME NEW s \in seen'
               PROVE  \E p : <<s.id, p>> \in founder /\ WroteNick(p, s.nick)
    BY <1>1 DEF SeenIsWritten
  <2>1. CASE s \in seen
    BY <2>1 DEF AccountInv, SeenIsWritten
  <2>2. ASSUME NEW r \in shown, s = Shown(r)
        PROVE  \E p : <<s.id, p>> \in founder /\ WroteNick(p, s.nick)
    <3>1. s.id = r.id /\ s.nick = r.nick
      BY <2>2 DEF Shown
    <3> QED BY <3>1 DEF AccountInv, RowsAreFounders
  <2> QED BY <1>2, <2>1, <2>2
<1> QED BY <1>1, <1>3 DEF AccountInv, OneFounder, RowsAreFounders, HoldersAreFounders

(* Every step keeps the invariant.                                         *)
LEMMA AccountStep == AccountInv /\ [AccountNext]_accountVars => AccountInv'
<1> SUFFICES ASSUME AccountInv, [AccountNext]_accountVars PROVE AccountInv'
  OBVIOUS
<1>1. CASE Tick
  BY <1>1 DEF Tick, AccountInv, OneFounder, RowsAreFounders, HoldersAreFounders, SeenIsWritten
<1>2. CASE UNCHANGED accountVars
  BY <1>2 DEF accountVars, AccountInv, OneFounder, RowsAreFounders, HoldersAreFounders, SeenIsWritten
<1> QED BY <1>1, <1>2, RegisterKeeps, LoginKeeps, TokenKeeps, UpdateKeeps, ShowKeeps DEF AccountNext

(* The invariant implies the property.                                     *)
LEMMA AccountImplies == AccountInv => AccountIsFounders
<1> SUFFICES ASSUME AccountInv, NEW f \in founder
             PROVE  /\ \A r \in users : r.id = f[1] =>
                         r.password \in Passwords(f[2]) /\ r.nick \in {f[2], DefaultNick}
                    /\ \A t \in tokens \cup acting : t.id = f[1] => t.who = f[2]
                    /\ \A s \in seen : s.id = f[1] => s.nick \in {f[2], DefaultNick}
  BY DEF AccountIsFounders
<1>1. ASSUME NEW i, NEW p, <<i, p>> \in founder, i = f[1] PROVE p = f[2]
  <2>1. <<i, p>>[1] = f[1] /\ <<i, p>>[2] = p
    BY <1>1
  <2> QED BY <1>1, <2>1 DEF AccountInv, OneFounder
<1>2. ASSUME NEW r \in users, r.id = f[1]
      PROVE  r.password \in Passwords(f[2]) /\ r.nick \in {f[2], DefaultNick}
  BY <1>1, <1>2 DEF AccountInv, RowsAreFounders, WroteNick
<1>3. ASSUME NEW t \in tokens \cup acting, t.id = f[1] PROVE t.who = f[2]
  BY <1>1, <1>3 DEF AccountInv, HoldersAreFounders
<1>4. ASSUME NEW s \in seen, s.id = f[1] PROVE s.nick \in {f[2], DefaultNick}
  BY <1>1, <1>4 DEF AccountInv, SeenIsWritten, WroteNick
<1> QED BY <1>2, <1>3, <1>4

(* An account stays its founder's, for any people, names and identifiers.  *)
THEOREM AccountsStayTheirFounders == AccountSpec => []AccountIsFounders
<1>1. AccountInit => AccountInv
  BY DEF AccountInit, AccountInv, OneFounder, RowsAreFounders, HoldersAreFounders, SeenIsWritten
<1> QED BY <1>1, AccountStep, AccountImplies, PTL DEF AccountSpec
=============================================================================
