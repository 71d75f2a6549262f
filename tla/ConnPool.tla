------------------------------ MODULE ConnPool ------------------------------
(***************************************************************************)
(* The client connection pool of GrowRPC (apps/pkg/GrowRPC/pool/pool.go)   *)
(* under concurrent callers.  A caller runs Get, uses the connection and   *)
(* returns it with Put, as XClient.call does; the cleaner and Close run    *)
(* beside them.  A step is what happens under one acquisition of p.mu, or  *)
(* one call made without the lock.                                         *)
(*                                                                         *)
(* Time is abstracted: an idle connection may pass idleTimeout or          *)
(* maxLifetime at any moment (Put looks at neither, and a connection whose *)
(* lifetime ended while it was lent expires right after it is put back).   *)
(* So is the order of the idle stack: Get may take any idle connection,    *)
(* the code takes the one returned last.                                   *)
(***************************************************************************)
EXTENDS Integers, FiniteSets

CONSTANTS Callers,
          Conns,       \* identities of connections, reused after they are closed
          NoConn,
          MaxIdle,     \* WithMaxIdle
          MaxActive,   \* WithMaxActive; 0 means no limit
          Unlimited,   \* capacity of waitCh without a limit (64 in New)
          MaxFailures  \* bound: dials that fail

ASSUME PoolBounds ==
  /\ MaxIdle \in Nat /\ MaxActive \in Nat
  /\ Unlimited \in Nat \ {0} /\ MaxFailures \in Nat
ASSUME NoConnApart == NoConn \notin Conns
ASSUME FinitelyManyCallers == IsFiniteSet(Callers)

VARIABLES
  pc,        \* pc[p]: where caller p is
  mine,      \* mine[p]: the connection p borrowed or is discarding
  idle,      \* p.idle
  active,    \* p.active
  tokens,    \* signals in waitCh
  closed,    \* p.closed
  drain,     \* idle connections Close took out and has not closed yet
  released,  \* TRUE once Close has closed waitCh
  live,      \* connections that are open
  bad,       \* open connections that are broken or, when idle, expired
  panicked,  \* callers whose Put sent on the closed waitCh
  failures   \* dials that failed

vars == <<pc, mine, idle, active, tokens, closed, drain, released, live, bad,
          panicked, failures>>
poolVars == <<closed, drain, released>>

Pcs == {"out", "get", "scan", "discard", "dial", "wait", "hold"}
WaitCap == IF MaxActive = 0 THEN Unlimited ELSE MaxActive

TypeOK ==
  /\ pc \in [Callers -> Pcs]
  /\ mine \in [Callers -> Conns \cup {NoConn}]
  /\ idle \subseteq Conns
  /\ active \in Nat
  /\ tokens \in 0 .. WaitCap
  /\ closed \in BOOLEAN /\ released \in BOOLEAN
  /\ drain \subseteq Conns /\ live \subseteq Conns /\ bad \subseteq Conns
  /\ panicked \subseteq Callers
  /\ failures \in 0 .. MaxFailures

Init ==
  /\ pc = [p \in Callers |-> "out"]
  /\ mine = [p \in Callers |-> NoConn]
  /\ idle = {} /\ active = 0 /\ tokens = 0
  /\ closed = FALSE /\ drain = {} /\ released = FALSE
  /\ live = {} /\ bad = {}
  /\ panicked = {} /\ failures = 0

-----------------------------------------------------------------------------
Goto(p, s) == pc' = [pc EXCEPT ![p] = s]
Take(p, c) == mine' = [mine EXCEPT ![p] = c]

\* client.Close() on the connections C.
Shut(C) == live' = live \ C /\ bad' = bad \ C

-----------------------------------------------------------------------------
(* Get                                                                     *)

Begin(p) ==
  /\ pc[p] = "out" /\ Goto(p, "get")
  /\ UNCHANGED <<mine, idle, active, tokens, poolVars, live, bad, panicked, failures>>

\* Only the head of the outer loop looks at p.closed.
GetClosed(p) ==
  /\ pc[p] = "get" /\ closed /\ Goto(p, "out")
  /\ UNCHANGED <<mine, idle, active, tokens, poolVars, live, bad, panicked, failures>>

Scanning(p) == pc[p] = "scan" \/ (pc[p] = "get" /\ ~closed)

\* The connection is expired or broken: it is taken out, the lock released.
GetBad(p, c) ==
  /\ Scanning(p) /\ c \in idle \cap bad
  /\ idle' = idle \ {c} /\ Take(p, c) /\ Goto(p, "discard")
  /\ UNCHANGED <<active, tokens, poolVars, live, bad, panicked, failures>>

\* The inner loop goes on under the lock without looking at p.closed again.
Discard(p) ==
  /\ pc[p] = "discard" /\ Goto(p, "scan")
  /\ Shut({mine[p]}) /\ Take(p, NoConn)
  /\ UNCHANGED <<idle, active, tokens, poolVars, panicked, failures>>

\* Mutant: the connection is handed out and stays idle.
GetIdlePeeks(p, c) ==
  /\ Scanning(p) /\ c \in idle \ bad
  /\ Take(p, c) /\ Goto(p, "hold") /\ active' = active + 1
  /\ UNCHANGED <<idle, tokens, poolVars, live, bad, panicked, failures>>

GetIdle(p, c) ==
  /\ Scanning(p) /\ c \in idle \ bad
  /\ idle' = idle \ {c} /\ Take(p, c) /\ Goto(p, "hold") /\ active' = active + 1
  /\ UNCHANGED <<tokens, poolVars, live, bad, panicked, failures>>

\* The slot is reserved before the factory is called without the lock.
GetReserve(p) ==
  /\ Scanning(p) /\ idle = {} /\ (MaxActive = 0 \/ active < MaxActive)
  /\ Goto(p, "dial") /\ active' = active + 1
  /\ UNCHANGED <<mine, idle, tokens, poolVars, live, bad, panicked, failures>>

GetWait(p) ==
  /\ Scanning(p) /\ idle = {} /\ MaxActive # 0 /\ active >= MaxActive
  /\ Goto(p, "wait")
  /\ UNCHANGED <<mine, idle, active, tokens, poolVars, live, bad, panicked, failures>>

Dialled(p, c) ==
  /\ pc[p] = "dial" /\ c \notin live
  /\ live' = live \cup {c} /\ Take(p, c) /\ Goto(p, "hold")
  /\ UNCHANGED <<idle, active, tokens, poolVars, bad, panicked, failures>>

\* Mutant: a failed dial keeps its slot.
DialFailsLeaks(p) ==
  /\ pc[p] = "dial" /\ failures < MaxFailures /\ failures' = failures + 1
  /\ Goto(p, "out")
  /\ UNCHANGED <<mine, idle, active, tokens, poolVars, live, bad, panicked>>

\* The slot is given back; nobody is notified.
DialFails(p) ==
  /\ pc[p] = "dial" /\ failures < MaxFailures /\ failures' = failures + 1
  /\ active' = active - 1 /\ Goto(p, "out")
  /\ UNCHANGED <<mine, idle, tokens, poolVars, live, bad, panicked>>

\* A receive from waitCh: a signal, or anything once the channel is closed.
Wake(p) ==
  /\ pc[p] = "wait" /\ Goto(p, "get")
  /\ \/ tokens > 0 /\ tokens' = tokens - 1
     \/ tokens = 0 /\ released /\ UNCHANGED tokens
  /\ UNCHANGED <<mine, idle, active, poolVars, live, bad, panicked, failures>>

Cancel(p) ==
  /\ pc[p] = "wait" /\ Goto(p, "out")
  /\ UNCHANGED <<mine, idle, active, tokens, poolVars, live, bad, panicked, failures>>

-----------------------------------------------------------------------------
(* Put                                                                     *)

\* Mutant: only a connection that becomes idle is announced.
NotifyIdleOnly(p, kept) ==
  /\ tokens' = IF kept /\ tokens < WaitCap THEN tokens + 1 ELSE tokens
  /\ UNCHANGED panicked

\* A non-blocking send on waitCh, which panics when the channel is closed.
Notify(p, kept) ==
  IF released THEN panicked' = panicked \cup {p} /\ UNCHANGED tokens
  ELSE /\ tokens' = IF tokens < WaitCap THEN tokens + 1 ELSE tokens
       /\ UNCHANGED panicked

PutBack(p) == ~closed /\ mine[p] \notin bad /\ Cardinality(idle) < MaxIdle

Put(p) ==
  /\ pc[p] = "hold" /\ Goto(p, "out") /\ Take(p, NoConn)
  /\ active' = active - 1
  /\ IF PutBack(p) THEN idle' = idle \cup {mine[p]} /\ UNCHANGED <<live, bad>>
     ELSE Shut({mine[p]}) /\ UNCHANGED idle
  /\ Notify(p, PutBack(p))
  /\ UNCHANGED <<poolVars, failures>>

-----------------------------------------------------------------------------
(* cleanIdle, Close and the environment                                    *)

\* cleanIdle filters p.idle under the lock and closes what it took out.
Clean ==
  /\ ~closed /\ idle \cap bad # {}
  /\ idle' = idle \ bad
  /\ Shut(idle \cap bad)
  /\ UNCHANGED <<pc, mine, active, tokens, poolVars, panicked, failures>>

Close ==
  /\ ~closed /\ closed' = TRUE
  /\ drain' = idle /\ idle' = {}
  /\ UNCHANGED <<pc, mine, active, tokens, released, live, bad, panicked, failures>>

\* Without the lock: the drained connections are closed, then waitCh.
Release ==
  /\ closed /\ ~released /\ released' = TRUE
  /\ Shut(drain) /\ drain' = {}
  /\ UNCHANGED <<pc, mine, idle, active, tokens, closed, panicked, failures>>

\* The peer goes away, or an idle connection expires.
Spoil(c) ==
  /\ c \in live \ bad /\ bad' = bad \cup {c}
  /\ UNCHANGED <<pc, mine, idle, active, tokens, poolVars, live, panicked, failures>>

Step(p) == \/ GetClosed(p) \/ Discard(p)
           \/ GetReserve(p) \/ GetWait(p) \/ Put(p)
           \/ DialFails(p)
           \/ \E c \in Conns : GetBad(p, c) \/ GetIdle(p, c) \/ Dialled(p, c)

Next == \/ \E p \in Callers : Begin(p) \/ Step(p) \/ Wake(p) \/ Cancel(p)
        \/ \E c \in Conns : Spoil(c)
        \/ Clean \/ Close \/ Release

Spec == Init /\ [][Next]_vars

\* Callers run and put back what they borrowed (XClient.call defers putClient),
\* and a dial ends.  Go queues the receivers of a channel, so a waiter is not
\* passed over for ever (SF).  Nothing is assumed of deadlines.
Fairness ==
  /\ \A p \in Callers : WF_vars(Step(p)) /\ SF_vars(Wake(p))
  /\ WF_vars(Release)
LiveSpec == Spec /\ Fairness

-----------------------------------------------------------------------------
(* Properties                                                              *)

\* Callers that hold a connection or a slot reserved for one.
Busy == {p \in Callers : pc[p] \in {"dial", "hold"}}

\* p.active counts exactly the connections lent out and the slots reserved for
\* dials under way, through every failure, expiry and close.
ActiveExact == active = Cardinality(Busy)

\* With a limit, lent, reserved and idle connections together never exceed it,
\* although Get takes an idle connection without looking at the limit.
WithinLimit == MaxActive # 0 => active + Cardinality(idle) <= MaxActive

Lent == {p \in Callers : mine[p] # NoConn}

\* Every open connection has one place: one caller, p.idle or the hands
\* of Close.  None is shared by two callers, none is forgotten.
OnePlace ==
  /\ \A p, q \in Lent : mine[p] = mine[q] => p = q
  /\ \A p \in Lent : mine[p] \notin idle \cup drain
  /\ idle \cap drain = {}
  /\ live = idle \cup drain \cup {mine[p] : p \in Lent}

\* A closed pool keeps no idle connection, whoever returns one late.
ClosedIsDrained == closed => idle = {}

\* What makes the properties above inductive: p.idle is finite, a caller has a
\* connection exactly while it uses or discards one, and only Close drains.
Bookkeeping ==
  /\ IsFiniteSet(idle)
  /\ \A p \in Callers : mine[p] # NoConn <=> pc[p] \in {"hold", "discard"}
  /\ ~closed => drain = {}

PoolInv == /\ TypeOK /\ ActiveExact /\ WithinLimit /\ ClosedIsDrained
           /\ OnePlace /\ Bookkeeping

\* A caller waiting for a slot does not wait for ever, as long as no dial
\* failed: every slot given back wakes somebody.
WaiterServed ==
  \A p \in Callers : pc[p] = "wait" ~> pc[p] # "wait" \/ failures > 0

\* Returning a connection to a closed pool closes it and nothing else.
PutNeverPanics == panicked = {}
=============================================================================
