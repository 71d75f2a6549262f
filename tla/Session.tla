------------------------------ MODULE Session ------------------------------
(***************************************************************************)
(* One answer of the Agent with tool calls a person has to approve:        *)
(* ChatSSE (apps/agent/handler/chat_sse.go), the channel the decision      *)
(* comes through (engine/session_channel.go), the approve request          *)
(* (handler/approve.go) and the middleware in front of the tools           *)
(* (middleware/approval.go, safe_agent.go).  The runner is external: in a  *)
(* round the model calls some tools, the destructive ones interrupt, and a *)
(* resumed run enters again the calls it was stopped at.  A round's        *)
(* interrupts carry the checkpoint id of the answer, the same in every     *)
(* round.                                                                  *)
(***************************************************************************)
EXTENDS Integers, FiniteSets

CONSTANTS Tools,         \* calls the model may make in a round
          Destructive,   \* the ones of destructiveToolNames
          Requests,      \* approve requests of the client
          MaxRounds      \* bound on rounds (maxIterations, 5)

ASSUME SessionAssumption == Destructive \subseteq Tools /\ MaxRounds \in Nat \ {0}

VARIABLES
  sse,       \* where ChatSSE stands
  round,     \* the model's turn in this answer
  calls,     \* calls of this round still without a result
  waiting,   \* calls of this round with a stored interrupt state
  executed,  \* destructive calls that ran: <<round, tool>>
  mapped,    \* sessionChans: ids of the channels under the checkpoint id, 0 or 1
  chan,      \* chan[n]: buffer of the channel registered in round n
  decision,  \* what ChatSSE received
  request    \* request[q]: [at, seen, ok, ch] of an approve request

sessVars == <<sse, round, calls, waiting, executed, mapped, chan, decision, request>>

Rounds == 1 .. MaxRounds
NoRequest == [at |-> "idle", seen |-> 0, ok |-> FALSE, ch |-> 0]

----------------------------------------------------------------------------
(* The model's next turn: tool calls, or the end of the answer.            *)
ModelTurn ==
  /\ sse = "running" /\ calls = {} /\ waiting = {}
  /\ \/ /\ round < MaxRounds /\ round' = round + 1
        /\ calls' \in (SUBSET Tools \ {{}}) /\ UNCHANGED sse
     \/ sse' = "done" /\ UNCHANGED <<round, calls>>
  /\ UNCHANGED <<waiting, executed, mapped, chan, decision, request>>

(* As WrapInvokableToolCall, but a destructive call entered for the first  *)
(* time runs at once.                                                      *)
MutWrapInvokableToolCall(t) ==
  /\ sse = "running" /\ t \in calls /\ calls' = calls \ {t}
  /\ executed' = IF t \in Destructive THEN executed \cup {<<round, t>>} ELSE executed
  /\ UNCHANGED <<sse, round, waiting, mapped, chan, decision, request>>

(* WrapInvokableToolCall on first entry: a read-only call runs, a          *)
(* destructive one interrupts and keeps its arguments.                     *)
WrapInvokableToolCall(t) ==
  /\ sse = "running" /\ t \in calls /\ calls' = calls \ {t}
  /\ waiting' = IF t \in Destructive THEN waiting \cup {t} ELSE waiting
  /\ UNCHANGED <<sse, round, executed, mapped, chan, decision, request>>

(* The interrupt event reaches the client before its channel is there.     *)
sendInterruptEvent ==
  /\ sse = "running" /\ calls = {} /\ waiting # {}
  /\ sse' = "shown"
  /\ UNCHANGED <<round, calls, waiting, executed, mapped, chan, decision, request>>

RegisterSessionChan ==
  /\ sse = "shown" /\ sse' = "waiting" /\ mapped' = round
  /\ chan' = [chan EXCEPT ![round] = <<>>]
  /\ UNCHANGED <<round, calls, waiting, executed, decision, request>>

ReceiveDecision ==
  /\ sse = "waiting" /\ chan[round] # <<>>
  /\ sse' = "resume" /\ decision' = chan[round]
  /\ chan' = [chan EXCEPT ![round] = <<>>]
  /\ UNCHANGED <<round, calls, waiting, executed, mapped, request>>

(* buildTargets gives the decision to every interrupted call.  A call that *)
(* is not a target interrupts again; an approved one runs with the stored  *)
(* arguments, a refused one answers that it was cancelled.                 *)
Resume ==
  /\ sse = "resume" /\ sse' = "running"
  /\ executed' = IF decision[1] THEN executed \cup ({round} \X waiting) ELSE executed
  /\ waiting' = {} /\ decision' = <<>>
  /\ UNCHANGED <<round, calls, mapped, chan, request>>

ResumeFails ==
  /\ sse = "resume" /\ sse' = "done" /\ decision' = <<>>
  /\ UNCHANGED <<round, calls, waiting, executed, mapped, chan, request>>

(* The request's context ends, or a write to the client fails.  A channel  *)
(* that waits stays in the map.                                            *)
ClientLeaves ==
  /\ sse \notin {"done", "gone"} /\ sse' = "gone"
  /\ UNCHANGED <<round, calls, waiting, executed, mapped, chan, decision, request>>

----------------------------------------------------------------------------
(* A person decides on the interrupt shown in this round.                  *)
Approve(q) ==
  /\ request[q].at = "idle" /\ sse \in {"shown", "waiting"}
  /\ \E ok \in BOOLEAN :
       request' = [request EXCEPT ![q] = [at |-> "sent", seen |-> round, ok |-> ok, ch |-> 0]]
  /\ UNCHANGED <<sse, round, calls, waiting, executed, mapped, chan, decision>>

(* As TakeChannel, but the channel stays in the map.                       *)
MutTakeChannel(q) ==
  /\ request[q].at = "sent"
  /\ request' = [request EXCEPT ![q].at = IF mapped = 0 THEN "404" ELSE "push",
                                ![q].ch = mapped]
  /\ UNCHANGED <<sse, round, calls, waiting, executed, mapped, chan, decision>>

(* PushSessionDecision takes the channel out of the map under the mutex... *)
TakeChannel(q) ==
  /\ request[q].at = "sent" /\ mapped' = 0
  /\ request' = [request EXCEPT ![q].at = IF mapped = 0 THEN "404" ELSE "push",
                                ![q].ch = mapped]
  /\ UNCHANGED <<sse, round, calls, waiting, executed, chan, decision>>

(* ...and sends after it: the channel holds one decision.                  *)
SendDecision(q) ==
  LET n == request[q].ch
  IN /\ request[q].at = "push" /\ chan[n] = <<>>
     /\ chan' = [chan EXCEPT ![n] = <<request[q].ok, request[q].seen>>]
     /\ request' = [request EXCEPT ![q].at = "200"]
     /\ UNCHANGED <<sse, round, calls, waiting, executed, mapped, decision>>

----------------------------------------------------------------------------
SessionInit ==
  /\ sse = "running" /\ round = 0 /\ calls = {} /\ waiting = {} /\ executed = {}
  /\ mapped = 0 /\ chan = [n \in Rounds |-> <<>>] /\ decision = <<>>
  /\ request = [q \in Requests |-> NoRequest]

SessionNext ==
  \/ ModelTurn \/ sendInterruptEvent \/ RegisterSessionChan \/ ReceiveDecision
  \/ Resume \/ ResumeFails \/ ClientLeaves
  \/ \E t \in Tools : WrapInvokableToolCall(t)
  \/ \E q \in Requests : Approve(q) \/ TakeChannel(q) \/ SendDecision(q)

SessionSpec == SessionInit /\ [][SessionNext]_sessVars

----------------------------------------------------------------------------
(* Properties.                                                             *)

(* A destructive tool runs only in a round in which a person was shown its *)
(* interrupt, or, when a decision on an earlier round arrived late, one of *)
(* an earlier round, and approved (WrapInvokableToolCall, buildTargets).   *)
RunsAreApproved ==
  \A e \in executed : \E q \in Requests :
    /\ request[q].ok /\ request[q].seen \in 1 .. e[1] /\ request[q].at \in {"push", "200"}
    /\ request[q].ch = e[1]

(* An approve request never blocks: when it has a channel, the one place   *)
(* in it is free, whatever requests are repeated or come late              *)
(* (PushSessionDecision, RegisterSessionChan).                             *)
PushNeverBlocks ==
  \A q \in Requests : request[q].at = "push" => chan[request[q].ch] = <<>>
=============================================================================
