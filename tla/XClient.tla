------------------------------ MODULE XClient ------------------------------
(***************************************************************************)
(* XClient (apps/pkg/GrowRPC/xclient/xclient.go): a pool of connections    *)
(* per server, and Broadcast, which calls every server in a goroutine of   *)
(* its own and cancels the others when one fails.  Close may run at any    *)
(* time.  A pool is its number: after Close the next dial makes a new one. *)
(* What a pool does inside is the module ConnPool; here its Get gives a    *)
(* new or an idle connection, or fails.                                    *)
(***************************************************************************)
EXTENDS Integers, FiniteSets

CONSTANTS Servers,
          MaxPools    \* bound on the pools made

NoReply == "no reply"
NoError == "no error"
Cancelled == "cancelled"

(* A server's name also stands for its own error.                          *)
ASSUME XClientAssumption ==
  MaxPools \in Nat /\ Servers \cap {NoReply, NoError, Cancelled, "none", "ok"} = {}

VARIABLES
  pool,        \* pool[s]: xc.pools, 0 when there is none
  pools,       \* pools made so far
  closedPools, \* pools that were closed
  conns,       \* connections: <<server, number of the pool they are idle in>>
  worker,      \* worker[s]: [at, from, err]: Broadcast's goroutine for s
  berr, breply,    \* Broadcast's error e and its reply
  cancelled,   \* Broadcast called cancel
  outcome,     \* outcome[s]: "none", "ok", or the error of the call itself
  returned     \* Broadcast returned

xVars == <<pool, pools, closedPools, conns, worker, berr, breply, cancelled, outcome, returned>>

Idle0 == [at |-> "new", from |-> 0, err |-> NoError]
At(s, p) == worker' = [worker EXCEPT ![s].at = p]

----------------------------------------------------------------------------
(* dial: the pool of the server, made when it is not there.                *)
DialPool(s) ==
  /\ worker[s].at = "new"
  /\ IF pool[s] = 0
     THEN /\ pools < MaxPools /\ pools' = pools + 1
          /\ pool' = [pool EXCEPT ![s] = pools + 1]
     ELSE UNCHANGED <<pool, pools>>
  /\ worker' = [worker EXCEPT ![s].at = "get", ![s].from = pool'[s]]
  /\ UNCHANGED <<closedPools, conns, berr, breply, cancelled, outcome, returned>>

(* Get: an idle connection or a new one; it fails after five seconds, when *)
(* the dial fails and when the pool was closed.                            *)
PoolGet(s) ==
  /\ worker[s].at = "get"
  /\ \/ /\ worker[s].from \notin closedPools /\ At(s, "call")
        /\ conns' = conns \ {<<s, worker[s].from>>} /\ UNCHANGED outcome
     \/ /\ worker' = [worker EXCEPT ![s].at = "merge", ![s].err = s]
        /\ outcome' = [outcome EXCEPT ![s] = s] /\ UNCHANGED conns
  /\ UNCHANGED <<pool, pools, closedPools, berr, breply, cancelled, returned>>

(* Call: a reply, an error of the server, or the end of the context.       *)
ClientCall(s) ==
  /\ worker[s].at = "call"
  /\ \/ /\ At(s, "put") /\ outcome' = [outcome EXCEPT ![s] = "ok"]
     \/ /\ worker' = [worker EXCEPT ![s].at = "put", ![s].err = s]
        /\ outcome' = [outcome EXCEPT ![s] = s]
     \/ /\ cancelled /\ worker' = [worker EXCEPT ![s].at = "put", ![s].err = Cancelled]
        /\ UNCHANGED outcome
  /\ UNCHANGED <<pool, pools, closedPools, conns, berr, breply, cancelled, returned>>

(* putClient, deferred: the pool the map has now, looked up under mu.      *)
putClient(s) ==
  /\ worker[s].at = "put"
  /\ worker' = [worker EXCEPT ![s].at = "return", ![s].from = pool[s]]
  /\ UNCHANGED <<pool, pools, closedPools, conns, berr, breply, cancelled, outcome, returned>>

(* Put, after mu is released: without a pool, or with one closed by now,   *)
(* the connection is closed.                                               *)
PoolPut(s) ==
  /\ worker[s].at = "return" /\ At(s, "merge")
  /\ conns' = IF worker[s].from \in closedPools \cup {0} THEN conns
              ELSE conns \cup {<<s, worker[s].from>>}
  /\ UNCHANGED <<pool, pools, closedPools, berr, breply, cancelled, outcome, returned>>

(* As Merge, but the last error is kept.                                   *)
MutMerge(s) ==
  /\ worker[s].at = "merge" /\ At(s, "done")
  /\ IF worker[s].err # NoError
     THEN berr' = worker[s].err /\ cancelled' = TRUE /\ UNCHANGED breply
     ELSE /\ breply' = IF breply = NoReply THEN s ELSE breply
          /\ UNCHANGED <<berr, cancelled>>
  /\ UNCHANGED <<pool, pools, closedPools, conns, outcome, returned>>

(* Under mu: the first error is kept and cancels the other calls, the      *)
(* first reply is copied.                                                  *)
Merge(s) ==
  /\ worker[s].at = "merge" /\ At(s, "done")
  /\ IF worker[s].err # NoError
     THEN /\ berr' = IF berr = NoError THEN worker[s].err ELSE berr
          /\ cancelled' = TRUE /\ UNCHANGED breply
     ELSE /\ breply' = IF breply = NoReply THEN s ELSE breply
          /\ UNCHANGED <<berr, cancelled>>
  /\ UNCHANGED <<pool, pools, closedPools, conns, outcome, returned>>

(* wg.Wait.                                                                *)
BroadcastReturns ==
  /\ ~returned /\ \A s \in Servers : worker[s].at = "done"
  /\ returned' = TRUE
  /\ UNCHANGED <<pool, pools, closedPools, conns, worker, berr, breply, cancelled, outcome>>

(* Close closes every pool with its idle connections and forgets it.       *)
XClose ==
  /\ \E s \in Servers : pool[s] # 0
  /\ closedPools' = (closedPools \cup {pool[s] : s \in Servers}) \ {0}
  /\ conns' = {c \in conns : \A s \in Servers : c[2] # pool[s]}
  /\ pool' = [s \in Servers |-> 0]
  /\ UNCHANGED <<pools, worker, berr, breply, cancelled, outcome, returned>>

----------------------------------------------------------------------------
XInit ==
  /\ pool = [s \in Servers |-> 0] /\ pools = 0 /\ closedPools = {} /\ conns = {}
  /\ worker = [s \in Servers |-> Idle0] /\ berr = NoError /\ breply = NoReply
  /\ cancelled = FALSE /\ outcome = [s \in Servers |-> "none"] /\ returned = FALSE

XNext ==
  \/ \E s \in Servers : \/ DialPool(s) \/ PoolGet(s) \/ ClientCall(s) \/ putClient(s)
                        \/ PoolPut(s) \/ Merge(s)
  \/ BroadcastReturns \/ XClose

XSpec == XInit /\ [][XNext]_xVars

----------------------------------------------------------------------------
(* Properties.                                                             *)

(* Broadcast reports what happened: success only when every server         *)
(* answered, otherwise the failure of a server and never its own           *)
(* cancellation, and a reply only of a server that answered, although the  *)
(* goroutines finish in any order and cancel each other (Broadcast, call). *)
BroadcastFaithful ==
  returned => /\ (berr = NoError) <=> (\A s \in Servers : outcome[s] = "ok")
              /\ berr # NoError => berr \in Servers /\ outcome[berr] = berr
              /\ breply # NoReply => outcome[breply] = "ok"
              /\ (\E s \in Servers : outcome[s] = "ok") => breply # NoReply
=============================================================================
