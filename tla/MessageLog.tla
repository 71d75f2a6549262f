----------------------------- MODULE MessageLog -----------------------------
(***************************************************************************)
(* What the upload pipeline promises about a chat message once the broker  *)
(* has accepted it: rows are written for its recipients, a push towards a  *)
(* recipient's gateway follows that recipient's row, and the message is    *)
(* finally settled once (acknowledged or dead-lettered).  Batches,         *)
(* instances, redelivery and faults do not appear here.                    *)
(***************************************************************************)
CONSTANTS Msgs,      \* messages a gateway may publish
          Users,     \* users of the system
          Required   \* Required[m]: users whose row an acknowledgement promises

VARIABLES state,     \* state[m]: "new", "accepted", "acked" or "dead"
          log,       \* set of <<m, u>>: a row of m for u is in MySQL
          pushed     \* set of <<m, u>>: m was published towards u's gateway

logVars == <<state, log, pushed>>

Init == /\ state = [m \in Msgs |-> "new"]
        /\ log = {}
        /\ pushed = {}

Accept(m) == /\ state[m] = "new"
             /\ state' = [state EXCEPT ![m] = "accepted"]
             /\ UNCHANGED <<log, pushed>>

\* Rows are written and messages published; a row precedes its publication.
Record == /\ log \subseteq log' /\ log' \subseteq Msgs \X Users
          /\ pushed \subseteq pushed' /\ pushed' \ pushed \subseteq log'
          /\ \A x \in (log' \ log) \cup (pushed' \ pushed) : state[x[1]] # "new"
          /\ UNCHANGED state

Acknowledge(m) == /\ state[m] = "accepted"
                  /\ \A u \in Required[m] : <<m, u>> \in log
                  /\ state' = [state EXCEPT ![m] = "acked"]
                  /\ UNCHANGED <<log, pushed>>

\* A dead letter may come with a row: an insert that reports an error may
\* have been applied.
DeadLetter(m) == /\ state[m] = "accepted"
                 /\ log \subseteq log' /\ log' \ log \subseteq {m} \X Users
                 /\ state' = [state EXCEPT ![m] = "dead"]
                 /\ UNCHANGED pushed

Next == \/ \E m \in Msgs : Accept(m) \/ Acknowledge(m) \/ DeadLetter(m)
        \/ Record

Spec == Init /\ [][Next]_logVars
=============================================================================
