---------------------------- MODULE AgentProofs ----------------------------
(***************************************************************************)
(* The parts of the Agent, each for any value of its constants: approvals  *)
(* (Session), scheduled messages (Scheduler), what is kept across a reload *)
(* (RunnerCache), the short-term memory (Memory), the bounds of the        *)
(* middleware (AgentRun) and the chunks of documents (Documents).  The     *)
(* parts share no state; each has an inductive invariant and one lemma per *)
(* action.                                                                 *)
(***************************************************************************)
EXTENDS Session, Scheduler, RunnerCache, Memory, AgentRun, Documents,
        FiniteSetTheorems, SequenceTheorems, TLAPS

----------------------------------------------------------------------------
(* Session: approvals.                                                    *)

Decisions == BOOLEAN \X Rounds
Ats == {"idle", "sent", "push", "200", "404"}
Entered == calls # {} \/ waiting # {}

(* The variables of Session.                                               *)
SessTypes ==
  /\ sse \in {"running", "shown", "waiting", "resume", "done", "gone"}
  /\ round \in 0 .. MaxRounds /\ (sse \in {"shown", "waiting", "resume"} => round # 0)
  /\ (Entered => round # 0) /\ (sse \in {"shown", "waiting", "resume"} => calls = {})
  /\ mapped \in 0 .. MaxRounds
  /\ chan \in [Rounds -> {<<>>} \cup Decisions]
  /\ decision \in {<<>>} \cup Decisions
  /\ request \in [Requests -> [at : Ats, seen : 0 .. MaxRounds, ok : BOOLEAN, ch : 0 .. MaxRounds]]

(* A channel in the map is the one ChatSSE waits on, or waited on when its *)
(* client left (RegisterSessionChan, PushSessionDecision).                 *)
MapSound == mapped # 0 => mapped = round /\ sse \in {"waiting", "gone"}

(* A channel is taken by one request, after which it is out of the map;    *)
(* until the tools of a round have been decided on, nobody has taken its   *)
(* channel (delete under sessionChanMu).                                   *)
TakenOnce ==
  /\ \A q \in Requests : request[q].ch # 0 => mapped # request[q].ch
  /\ \A q, r \in Requests : request[q].ch # 0 /\ request[q].ch = request[r].ch => q = r
  /\ sse = "shown" \/ (sse = "running" /\ Entered) =>
       \A q \in Requests : request[q].ch # round

(* A request was sent after its interrupt was shown, and holds a channel   *)
(* of that round or a later one.                                           *)
RequestSound ==
  \A q \in Requests :
    /\ request[q].seen <= round /\ request[q].ch <= round
    /\ request[q].at \in {"idle", "sent", "404"} => request[q].ch = 0
    /\ request[q].at \in {"push", "200"} =>
         request[q].ch # 0 /\ request[q].seen \in 1 .. request[q].ch
    /\ request[q].at = "sent" => request[q].seen # 0
    /\ request[q].at = "push" => chan[request[q].ch] = <<>>

Answered(q, n, d) ==
  request[q].at = "200" /\ request[q].ch = n /\ request[q].ok = d[1]

(* What is in a channel, and what ChatSSE took from one, was sent by a     *)
(* request.                                                                *)
DecisionSound ==
  /\ \A n \in Rounds : chan[n] # <<>> => \E q \in Requests : Answered(q, n, chan[n])
  /\ sse = "resume" => decision # <<>> /\ \E q \in Requests : Answered(q, round, decision)

SessInv ==
  SessTypes /\ MapSound /\ TakenOnce /\ RequestSound /\ DecisionSound /\ RunsAreApproved

(* A decision is not the empty channel.                                    *)
LEMMA DecisionNotEmpty == \A d \in Decisions : d # <<>>
BY DEF Decisions

(* Nothing has happened at the start of an answer.                         *)
LEMMA SessStart == SessionInit => SessInv
<1> SUFFICES ASSUME SessionInit PROVE SessInv
  OBVIOUS
<1>1. MaxRounds \in Nat \ {0}
  BY SessionAssumption
<1>2. request \in [Requests -> [at : Ats, seen : 0 .. MaxRounds, ok : BOOLEAN, ch : 0 .. MaxRounds]]
  BY <1>1 DEF SessionInit, NoRequest, Ats
<1>3. \A q \in Requests : request[q] = NoRequest
  BY DEF SessionInit
<1>4. SessTypes
  BY <1>1, <1>2 DEF SessTypes, SessionInit, Entered
<1>5. MapSound /\ TakenOnce /\ RequestSound
  BY <1>1, <1>3 DEF MapSound, TakenOnce, RequestSound, SessionInit, NoRequest, Entered
<1>6. DecisionSound /\ RunsAreApproved
  BY DEF DecisionSound, RunsAreApproved, SessionInit
<1> QED BY <1>4, <1>5, <1>6 DEF SessInv

(* The model's turn opens a round nobody has seen.                         *)
LEMMA ModelTurnKeeps == SessInv /\ ModelTurn => SessInv'
<1> SUFFICES ASSUME SessInv, ModelTurn PROVE SessInv'
  OBVIOUS
<1> USE DEF SessInv
<1>1. UNCHANGED <<waiting, executed, mapped, chan, decision, request>> /\ sse = "running"
  BY DEF ModelTurn
<1>2. CASE round < MaxRounds /\ round' = round + 1 /\ sse' = sse
  <2>1. SessTypes'
    BY <1>1, <1>2, SessionAssumption DEF SessTypes, Entered
  <2>2. mapped = 0
    BY <1>1 DEF MapSound
  <2>3. MapSound' /\ RequestSound' /\ DecisionSound' /\ RunsAreApproved'
    BY <1>1, <1>2, <2>2, SessionAssumption
       DEF MapSound, RequestSound, DecisionSound, RunsAreApproved, SessTypes, Answered
  <2>4. TakenOnce'
    <3>1. \A q \in Requests : request[q].ch <= round /\ request[q].ch \in Nat /\ round \in Nat
      BY SessionAssumption DEF RequestSound, SessTypes
    <3> QED BY <1>1, <1>2, <3>1 DEF TakenOnce
  <2> QED BY <2>1, <2>3, <2>4
<1>3. CASE sse' = "done" /\ UNCHANGED <<round, calls>>
  BY <1>1, <1>3 DEF SessTypes, MapSound, TakenOnce, RequestSound, DecisionSound,
     RunsAreApproved, Answered, Entered
<1> QED BY <1>2, <1>3 DEF ModelTurn

(* Entering a tool call changes nothing a request can see.                 *)
LEMMA WrapKeeps ==
  ASSUME SessInv, NEW t \in Tools, WrapInvokableToolCall(t)
  PROVE  SessInv'
BY DEF SessInv, WrapInvokableToolCall, SessTypes, MapSound, TakenOnce, RequestSound,
   DecisionSound, RunsAreApproved, Answered, Entered

(* Showing the interrupt does not yet make a channel.                      *)
LEMMA InterruptKeeps == SessInv /\ sendInterruptEvent => SessInv'
BY DEF SessInv, sendInterruptEvent, SessTypes, MapSound, TakenOnce, RequestSound,
   DecisionSound, RunsAreApproved, Answered, Entered

(* The round's channel is new: no request holds it.                        *)
LEMMA RegisterKeeps == SessInv /\ RegisterSessionChan => SessInv'
<1> SUFFICES ASSUME SessInv, RegisterSessionChan PROVE SessInv'
  OBVIOUS
<1> USE DEF SessInv
<1>1. /\ UNCHANGED <<round, calls, waiting, executed, decision, request>>
      /\ sse = "shown" /\ sse' = "waiting" /\ mapped' = round
      /\ chan' = [chan EXCEPT ![round] = <<>>]
  BY DEF RegisterSessionChan
<1>2. round \in Rounds /\ round # 0
  BY <1>1, SessionAssumption DEF SessTypes, Rounds
<1>3. SessTypes'
  BY <1>1, <1>2 DEF SessTypes, Entered
<1>4. \A n \in Rounds : chan'[n] = (IF n = round THEN <<>> ELSE chan[n])
  BY <1>1 DEF SessTypes
<1>5. \A q \in Requests : request[q].at = "push" => request[q].ch \in Rounds
  BY SessionAssumption DEF RequestSound, SessTypes, Rounds
<1>6. MapSound' /\ TakenOnce'
  BY <1>1, <1>2 DEF MapSound, TakenOnce
<1>7. RequestSound'
  BY <1>1, <1>4, <1>5 DEF RequestSound
<1>8. DecisionSound' /\ RunsAreApproved'
  BY <1>1, <1>4 DEF DecisionSound, RunsAreApproved, Answered
<1> QED BY <1>3, <1>6, <1>7, <1>8

(* ChatSSE takes the decision of its own round, so its channel is out of   *)
(* the map.                                                                *)
LEMMA ReceiveKeeps == SessInv /\ ReceiveDecision => SessInv'
<1> SUFFICES ASSUME SessInv, ReceiveDecision PROVE SessInv'
  OBVIOUS
<1> USE DEF SessInv
<1>1. /\ UNCHANGED <<round, calls, waiting, executed, mapped, request>>
      /\ sse = "waiting" /\ sse' = "resume" /\ chan[round] # <<>>
      /\ decision' = chan[round] /\ chan' = [chan EXCEPT ![round] = <<>>]
  BY DEF ReceiveDecision
<1>2. round \in Rounds /\ round # 0
  BY <1>1, SessionAssumption DEF SessTypes, Rounds
<1>3. PICK q \in Requests : Answered(q, round, chan[round])
  BY <1>1, <1>2 DEF DecisionSound
<1>4. mapped = 0
  BY <1>2, <1>3 DEF MapSound, TakenOnce, Answered
<1>5. \A n \in Rounds : chan'[n] = (IF n = round THEN <<>> ELSE chan[n])
  BY <1>1 DEF SessTypes
<1>6. SessTypes'
  BY <1>1, <1>2 DEF SessTypes, Entered
<1>7. \A r \in Requests : request[r].at = "push" => request[r].ch \in Rounds
  BY SessionAssumption DEF RequestSound, SessTypes, Rounds
<1>8. MapSound' /\ TakenOnce' /\ RequestSound' /\ RunsAreApproved'
  BY <1>1, <1>4, <1>5, <1>7 DEF MapSound, TakenOnce, RequestSound, RunsAreApproved
<1>9. DecisionSound'
  BY <1>1, <1>3, <1>5 DEF DecisionSound, Answered
<1> QED BY <1>6, <1>8, <1>9

(* What runs on Resume was approved by the request whose decision it is.   *)
LEMMA ResumeKeeps == SessInv /\ Resume => SessInv'
<1> SUFFICES ASSUME SessInv, Resume PROVE SessInv'
  OBVIOUS
<1> USE DEF SessInv
<1>1. /\ UNCHANGED <<round, calls, mapped, chan, request>>
      /\ sse = "resume" /\ sse' = "running" /\ waiting' = {} /\ decision' = <<>>
      /\ executed' = IF decision[1] THEN executed \cup ({round} \X waiting) ELSE executed
  BY DEF Resume
<1>2. PICK q \in Requests : Answered(q, round, decision)
  BY <1>1 DEF DecisionSound
<1>3. SessTypes' /\ MapSound' /\ RequestSound' /\ DecisionSound'
  BY <1>1 DEF SessTypes, MapSound, RequestSound, DecisionSound, Answered, Entered
<1>4. TakenOnce'
  BY <1>1 DEF TakenOnce, Entered, SessTypes
<1>5. RunsAreApproved'
  <2> SUFFICES ASSUME NEW e \in executed'
               PROVE  \E r \in Requests :
                        /\ request'[r].ok /\ request'[r].seen \in 1 .. e[1]
                        /\ request'[r].at \in {"push", "200"} /\ request'[r].ch = e[1]
    BY DEF RunsAreApproved
  <2>1. CASE e \in executed
    BY <1>1, <2>1 DEF RunsAreApproved
  <2>2. CASE e \notin executed
    <3>1. decision[1] /\ e[1] = round
      BY <1>1, <2>2
    <3> QED BY <1>1, <1>2, <3>1 DEF Answered, RequestSound
  <2> QED BY <2>1, <2>2
<1> QED BY <1>3, <1>4, <1>5

(* An answer that ends leaves its channel where it is.                     *)
LEMMA EndKeeps == SessInv /\ (ResumeFails \/ ClientLeaves) => SessInv'
BY DEF SessInv, ResumeFails, ClientLeaves, SessTypes, MapSound, TakenOnce, RequestSound,
   DecisionSound, RunsAreApproved, Answered, Entered

(* A new request knows the round and no channel.                           *)
LEMMA ApproveKeeps ==
  ASSUME SessInv, NEW q \in Requests, Approve(q)
  PROVE  SessInv'
<1> USE DEF SessInv
<1>1. PICK ok \in BOOLEAN :
        request' = [request EXCEPT ![q] = [at |-> "sent", seen |-> round, ok |-> ok, ch |-> 0]]
  BY DEF Approve
<1>2. /\ UNCHANGED <<sse, round, calls, waiting, executed, mapped, chan, decision>>
      /\ request[q].at = "idle" /\ sse \in {"shown", "waiting"}
  BY DEF Approve
<1>3. round \in 1 .. MaxRounds
  BY <1>2, SessionAssumption DEF SessTypes
<1>4. request' \in [Requests -> [at : Ats, seen : 0 .. MaxRounds, ok : BOOLEAN, ch : 0 .. MaxRounds]]
  BY <1>1, <1>3, SessionAssumption DEF SessTypes, Ats
<1>5. \A r \in Requests : request'[r] = IF r = q
        THEN [at |-> "sent", seen |-> round, ok |-> ok, ch |-> 0] ELSE request[r]
  BY <1>1 DEF SessTypes
<1>6. SessTypes' /\ MapSound'
  BY <1>2, <1>4 DEF SessTypes, MapSound, Entered
<1>7. TakenOnce'
  BY <1>2, <1>3, <1>5 DEF TakenOnce, Entered
<1>8. RequestSound'
  BY <1>2, <1>3, <1>5 DEF RequestSound
<1>9. \A r \in Requests : request[r].at \in {"push", "200"} => request'[r] = request[r]
  BY <1>2, <1>5
<1>10. DecisionSound' /\ RunsAreApproved'
  BY <1>2, <1>9 DEF DecisionSound, RunsAreApproved, Answered
<1> QED BY <1>6, <1>7, <1>8, <1>10

(* The channel a request takes is the only one in the map, still empty,    *)
(* and nobody else's.                                                      *)
LEMMA TakeKeeps ==
  ASSUME SessInv, NEW q \in Requests, TakeChannel(q)
  PROVE  SessInv'
<1> USE DEF SessInv
<1> DEFINE new == [request[q] EXCEPT !.at = IF mapped = 0 THEN "404" ELSE "push", !.ch = mapped]
<1>1. /\ UNCHANGED <<sse, round, calls, waiting, executed, chan, decision>>
      /\ request[q].at = "sent" /\ mapped' = 0
      /\ request' = [request EXCEPT ![q].at = IF mapped = 0 THEN "404" ELSE "push",
                                    ![q].ch = mapped]
  BY DEF TakeChannel
<1>2. request[q] \in [at : Ats, seen : 0 .. MaxRounds, ok : BOOLEAN, ch : 0 .. MaxRounds]
  BY DEF SessTypes
<1>3. /\ \A r \in Requests : request'[r] = IF r = q THEN new ELSE request[r]
      /\ request' \in [Requests -> [at : Ats, seen : 0 .. MaxRounds, ok : BOOLEAN, ch : 0 .. MaxRounds]]
  BY <1>1, <1>2 DEF SessTypes, Ats
<1>4. /\ new.at = IF mapped = 0 THEN "404" ELSE "push"
      /\ new.ch = mapped /\ new.seen = request[q].seen
  BY <1>2
<1>5. request[q].ch = 0 /\ request[q].seen # 0 /\ request[q].seen <= round
  BY <1>1 DEF RequestSound
<1>6. mapped # 0 => mapped = round /\ mapped \in Rounds /\ chan[mapped] = <<>>
  <2> SUFFICES ASSUME mapped # 0 PROVE mapped = round /\ mapped \in Rounds /\ chan[mapped] = <<>>
    OBVIOUS
  <2>1. mapped = round /\ mapped \in Rounds
    BY SessionAssumption DEF MapSound, SessTypes, Rounds
  <2>2. chan[mapped] # <<>> => \E r \in Requests : request[r].ch = mapped
    BY <2>1 DEF DecisionSound, Answered
  <2> QED BY <2>1, <2>2 DEF TakenOnce
<1> HIDE DEF new
<1>7. SessTypes' /\ MapSound'
  BY <1>1, <1>3, SessionAssumption DEF SessTypes, MapSound, Entered
<1>8. TakenOnce'
  <2>1. \A r \in Requests : request'[r].ch # 0 => mapped' # request'[r].ch
    BY <1>1
  <2>2. ASSUME NEW r \in Requests, NEW s \in Requests,
               request'[r].ch # 0, request'[r].ch = request'[s].ch
        PROVE  r = s
    <3>1. CASE r # q /\ s # q
      BY <1>3, <2>2, <3>1 DEF TakenOnce
    <3>2. CASE r = q \/ s = q
      BY <1>3, <1>4, <2>2, <3>2 DEF TakenOnce
    <3> QED BY <3>1, <3>2
  <2>3. sse' = "shown" \/ (sse' = "running" /\ Entered') =>
          \A r \in Requests : request'[r].ch # round'
    <3> SUFFICES ASSUME sse = "shown" \/ (sse = "running" /\ Entered), NEW r \in Requests
                 PROVE  request'[r].ch # round
      BY <1>1 DEF Entered
    <3>1. mapped = 0 /\ round # 0
      BY DEF MapSound, SessTypes
    <3> QED BY <1>3, <1>4, <3>1 DEF TakenOnce
  <2> QED BY <2>1, <2>2, <2>3 DEF TakenOnce
<1>9. RequestSound'
  <2> SUFFICES ASSUME NEW r \in Requests
               PROVE  /\ request'[r].seen <= round' /\ request'[r].ch <= round'
                      /\ request'[r].at \in {"idle", "sent", "404"} => request'[r].ch = 0
                      /\ request'[r].at \in {"push", "200"} =>
                           request'[r].ch # 0 /\ request'[r].seen \in 1 .. request'[r].ch
                      /\ request'[r].at = "sent" => request'[r].seen # 0
                      /\ request'[r].at = "push" => chan'[request'[r].ch] = <<>>
    BY DEF RequestSound
  <2>1. CASE r # q
    BY <1>1, <1>3, <2>1 DEF RequestSound
  <2>2. CASE r = q
    <3>1. round \in Nat /\ request[q].seen \in Nat
      BY <1>2, SessionAssumption DEF SessTypes
    <3> QED BY <1>1, <1>3, <1>4, <1>5, <1>6, <2>2, <3>1
  <2> QED BY <2>1, <2>2
<1>10. \A r \in Requests : request[r].at \in {"push", "200"} => request'[r] = request[r]
  BY <1>1, <1>3
<1>11. UNCHANGED <<sse, round, executed, chan, decision>>
  BY <1>1
<1>12. DecisionSound'
  BY <1>10, <1>11 DEF DecisionSound, Answered
<1>13. RunsAreApproved'
  BY <1>10, <1>11 DEF RunsAreApproved
<1> QED BY <1>7, <1>8, <1>9, <1>12, <1>13

(* A request fills the channel it took, which no other request holds.      *)
LEMMA SendKeeps ==
  ASSUME SessInv, NEW q \in Requests, SendDecision(q)
  PROVE  SessInv'
<1> USE DEF SessInv
<1> DEFINE n == request[q].ch
           d == <<request[q].ok, request[q].seen>>
           new == [request[q] EXCEPT !.at = "200"]
<1>1. /\ UNCHANGED <<sse, round, calls, waiting, executed, mapped, decision>>
      /\ request[q].at = "push" /\ chan' = [chan EXCEPT ![n] = d]
      /\ request' = [request EXCEPT ![q].at = "200"]
  BY DEF SendDecision
<1>2. request[q] \in [at : Ats, seen : 0 .. MaxRounds, ok : BOOLEAN, ch : 0 .. MaxRounds]
  BY DEF SessTypes
<1>3. /\ \A r \in Requests : request'[r] = IF r = q THEN new ELSE request[r]
      /\ request' \in [Requests -> [at : Ats, seen : 0 .. MaxRounds, ok : BOOLEAN, ch : 0 .. MaxRounds]]
  BY <1>1, <1>2 DEF SessTypes, Ats
<1>4. new.at = "200" /\ new.ch = n /\ new.seen = request[q].seen /\ new.ok = request[q].ok
  BY <1>2
<1>5. n \in Rounds /\ request[q].seen \in Rounds
  BY <1>1, <1>2, SessionAssumption DEF RequestSound, Rounds
<1>6. d \in Decisions /\ d[1] = request[q].ok
  BY <1>2, <1>5 DEF Decisions
<1>7. \A k \in Rounds : chan'[k] = IF k = n THEN d ELSE chan[k]
  BY <1>1, <1>5 DEF SessTypes
<1> HIDE DEF new, d
<1>8. SessTypes' /\ MapSound'
  BY <1>1, <1>3, <1>5, <1>6 DEF SessTypes, MapSound, Entered
<1>9. \A r \in Requests : request'[r].ch = request[r].ch
  BY <1>3, <1>4
<1>10. TakenOnce'
  BY <1>1, <1>9 DEF TakenOnce, Entered
<1>11. \A r \in Requests : request[r].at = "push" /\ r # q => request[r].ch # n /\ request[r].ch \in Rounds
  BY <1>5, SessionAssumption DEF TakenOnce, RequestSound, SessTypes, Rounds
<1>12. RequestSound'
  BY <1>1, <1>3, <1>4, <1>7, <1>11 DEF RequestSound
<1>13. \A r \in Requests : request[r].at = "200" => request'[r] = request[r]
  BY <1>1, <1>3
<1>14. DecisionSound'
  <2>1. ASSUME NEW k \in Rounds, chan'[k] # <<>>
        PROVE  \E r \in Requests : Answered(r, k, chan[k])'
    <3>1. CASE k = n
      BY <1>3, <1>4, <1>6, <1>7, <3>1 DEF Answered
    <3>2. CASE k # n
      BY <1>7, <1>13, <2>1, <3>2 DEF DecisionSound, Answered
    <3> QED BY <3>1, <3>2
  <2>2. sse' = "resume" =>
          decision' # <<>> /\ \E r \in Requests : Answered(r, round, decision)'
    BY <1>1, <1>13 DEF DecisionSound, Answered
  <2> QED BY <2>1, <2>2 DEF DecisionSound
<1>15. RunsAreApproved'
  BY <1>1, <1>3, <1>4 DEF RunsAreApproved
<1> QED BY <1>8, <1>10, <1>12, <1>14, <1>15

(* The inductive invariant of approvals: a channel belongs to one request, *)
(* and what it carries is that request's decision.                         *)
THEOREM SessionInvariance == SessionSpec => []SessInv
<1>1. SessInv /\ [SessionNext]_sessVars => SessInv'
  <2> SUFFICES ASSUME SessInv, [SessionNext]_sessVars PROVE SessInv'
    OBVIOUS
  <2>1. CASE ModelTurn \/ sendInterruptEvent \/ RegisterSessionChan \/ ReceiveDecision
    BY <2>1, ModelTurnKeeps, InterruptKeeps, RegisterKeeps, ReceiveKeeps
  <2>2. CASE Resume \/ ResumeFails \/ ClientLeaves
    BY <2>2, ResumeKeeps, EndKeeps
  <2>3. CASE \E t \in Tools : WrapInvokableToolCall(t)
    BY <2>3, WrapKeeps
  <2>4. CASE \E q \in Requests : Approve(q) \/ TakeChannel(q) \/ SendDecision(q)
    BY <2>4, ApproveKeeps, TakeKeeps, SendKeeps
  <2>5. CASE UNCHANGED sessVars
    BY <2>5 DEF sessVars, SessInv, SessTypes, MapSound, TakenOnce, RequestSound,
       DecisionSound, RunsAreApproved, Answered, Entered
  <2> QED BY <2>1, <2>2, <2>3, <2>4, <2>5 DEF SessionNext
<1> QED BY <1>1, SessStart, PTL DEF SessionSpec

(* No destructive tool runs without a decision of a person who was shown   *)
(* an interrupt of this answer (WrapInvokableToolCall).                    *)
THEOREM ToolsNeedApproval == SessionSpec => []RunsAreApproved
<1>1. SessInv => RunsAreApproved
  BY DEF SessInv
<1> QED BY <1>1, SessionInvariance, PTL

(* However approve requests are repeated, PushSessionDecision finds room   *)
(* in the channel it took.                                                 *)
THEOREM ApproveNeverBlocks == SessionSpec => []PushNeverBlocks
<1>1. SessInv => PushNeverBlocks
  BY DEF SessInv, RequestSound, PushNeverBlocks
<1> QED BY <1>1, SessionInvariance, PTL

----------------------------------------------------------------------------
(* Scheduler: one copy per receiver.                                       *)

SendStates == {"none", "members", "group", "single", "mark", "fail", "ok", "failed"}
Statuses == {"none", "pending", "claimed", "done", "failed"}
SenderType == [at : SendStates, by : Schedulers \cup {NoSender.by}, left : SUBSET Receivers]

(* The variables of Scheduler.                                             *)
SchedTypes ==
  /\ columns \in BOOLEAN /\ status \in [Tasks -> Statuses] /\ due \subseteq Tasks
  /\ copies \in [Tasks -> [Receivers -> Nat]]
  /\ feedback \in [Tasks -> SUBSET {"ok", "failed"}]
  /\ scan \in [Schedulers -> SUBSET Tasks]
  /\ sender \in [Tasks -> SenderType] /\ sfaults \in Nat

(* A task nobody has claimed has no sender and has sent nothing: the row   *)
(* moves from 0 to 1 once (ClaimTask).                                     *)
Unclaimed(t) ==
  status[t] \in {"none", "pending"} =>
    /\ sender[t].at = "none" /\ feedback[t] = {}
    /\ \A u \in Receivers : copies[t][u] = 0

(* What the one sender has inserted, by where it stands.                   *)
Progress(t) ==
  /\ sender[t].at \in {"members", "single"} =>
       sender[t].left = Targets[t] /\ \A u \in Receivers : copies[t][u] = 0
  /\ sender[t].at = "single" => t \notin GroupTasks
  /\ sender[t].at = "group" =>
       \A u \in Targets[t] : copies[t][u] = IF u \in sender[t].left THEN 0 ELSE 1
  /\ sender[t].at \in {"mark", "ok"} => \A u \in Targets[t] : copies[t][u] = 1
  /\ sender[t].at # "none" => sender[t].left \subseteq Targets[t]

AllSent(t) == \A u \in Targets[t] : copies[t][u] = 1

TaskInv(t) ==
  /\ Unclaimed(t) /\ Progress(t)
  /\ \A u \in Receivers : copies[t][u] <= 1
  /\ status[t] = "done" \/ "ok" \in feedback[t] => AllSent(t)

SchedInv == SchedTypes /\ \A t \in Tasks : TaskInv(t)

(* The receiver of a task that is not for a group.                         *)
LEMMA OneTarget ==
  ASSUME NEW t \in Tasks \ GroupTasks PROVE \E u : Targets[t] = {u}
BY SchedulerAssumption

(* A target is a receiver.                                                 *)
LEMMA TargetsReceive == \A t \in Tasks : Targets[t] \subseteq Receivers
BY DEF Receivers

(* What a task's invariant looks at.                                       *)
LEMMA TaskFrame ==
  ASSUME NEW t \in Tasks, TaskInv(t), status'[t] = status[t], copies'[t] = copies[t],
         feedback'[t] = feedback[t],
         sender'[t] = sender[t] \/ sender'[t].at = "none"
  PROVE  TaskInv(t)'
BY DEF TaskInv, Unclaimed, Progress, AllSent

(* At the start no task exists.                                            *)
LEMMA SchedStart == SchedInit => SchedInv
<1> SUFFICES ASSUME SchedInit PROVE SchedInv
  OBVIOUS
<1>1. SchedTypes
  BY SchedulerAssumption
     DEF SchedInit, SchedTypes, SenderType, NoSender, SendStates, Statuses
<1>2. ASSUME NEW t \in Tasks PROVE TaskInv(t)
  BY DEF SchedInit, TaskInv, Unclaimed, Progress, AllSent, NoSender
<1> QED BY <1>1, <1>2 DEF SchedInv

(* Creating a task, and its time coming.                                   *)
LEMMA CreateKeeps ==
  ASSUME SchedInv, NEW t \in Tasks, CreateScheduledMessage(t) \/ TimeComes(t)
  PROVE  SchedInv'
<1>1. UNCHANGED <<columns, copies, feedback, scan, sender, sfaults>>
  BY DEF CreateScheduledMessage, TimeComes
<1>2. /\ status' = status \/ (status[t] = "none" /\ status' = [status EXCEPT ![t] = "pending"])
      /\ due' \subseteq due \cup {t}
  BY DEF CreateScheduledMessage, TimeComes
<1>3. SchedTypes'
  BY <1>1, <1>2 DEF SchedInv, SchedTypes, Statuses
<1>4. ASSUME NEW x \in Tasks PROVE TaskInv(x)'
  BY <1>1, <1>2 DEF SchedInv, SchedTypes, TaskInv, Unclaimed, Progress, AllSent
<1> QED BY <1>3, <1>4 DEF SchedInv

(* A query changes no task.                                                *)
LEMMA ScanKeeps ==
  ASSUME SchedInv, NEW s \in Schedulers, GetPendingScheduledTasks(s)
  PROVE  SchedInv'
<1>1. UNCHANGED <<columns, status, due, copies, feedback, sender, sfaults>>
  BY DEF GetPendingScheduledTasks
<1>2. \E found \in SUBSET due : scan' = [scan EXCEPT ![s] = found]
  BY DEF GetPendingScheduledTasks
<1>3. SchedTypes'
  BY <1>1, <1>2 DEF SchedInv, SchedTypes
<1> QED BY <1>1, <1>3, TaskFrame DEF SchedInv

(* Whoever moves the row from 0 to 1 is the task's first sender.           *)
LEMMA ClaimKeeps ==
  ASSUME SchedInv, NEW s \in Schedulers, ClaimTask(s)
  PROVE  SchedInv'
<1>1. PICK t \in scan[s] :
        LET won == status[t] = "pending"
        IN Statement(IF won THEN [status EXCEPT ![t] = "claimed"] ELSE status,
                    /\ scan' = [scan EXCEPT ![s] = @ \ {t}]
                    /\ sender' = IF won THEN Start(s, t) ELSE sender,
                    scan' = [scan EXCEPT ![s] = {}] /\ UNCHANGED sender)
  BY DEF ClaimTask
<1>2. UNCHANGED <<columns, due, copies, feedback>> /\ t \in Tasks
  BY DEF ClaimTask, SchedInv, SchedTypes
<1>3. /\ status' = status \/ (status[t] = "pending" /\ status' = [status EXCEPT ![t] = "claimed"])
      /\ sender' = sender \/ (status[t] = "pending" /\ sender' = Start(s, t)
                                  /\ status' = [status EXCEPT ![t] = "claimed"])
      /\ sfaults' = sfaults \/ sfaults' = sfaults + 1
      /\ scan' = [scan EXCEPT ![s] = @ \ {t}] \/ scan' = [scan EXCEPT ![s] = {}]
  BY <1>1 DEF Statement, SchedFault
<1>4. SchedTypes'
  <2>1. sender' \in [Tasks -> SenderType]
    BY <1>2, <1>3, TargetsReceive DEF SchedInv, SchedTypes, Start, SenderType, SendStates
  <2>2. status' \in [Tasks -> Statuses]
    BY <1>2, <1>3 DEF SchedInv, SchedTypes, Statuses
  <2>3. scan' \in [Schedulers -> SUBSET Tasks] /\ sfaults' \in Nat
    BY <1>3 DEF SchedInv, SchedTypes
  <2> QED BY <1>2, <2>1, <2>2, <2>3 DEF SchedInv, SchedTypes
<1>5. ASSUME NEW x \in Tasks, x # t PROVE TaskInv(x)'
  BY <1>2, <1>3, <1>5, TaskFrame DEF SchedInv, SchedTypes, Start
<1>6. TaskInv(t)'
  <2>1. CASE UNCHANGED <<status, sender>>
    BY <1>2, <2>1, TaskFrame DEF SchedInv
  <2>2. CASE status[t] = "pending" /\ status' = [status EXCEPT ![t] = "claimed"]
    <3>1. /\ status'[t] = "claimed" /\ feedback'[t] = {}
          /\ \A u \in Receivers : copies'[t][u] = 0
      BY <1>2, <2>2 DEF SchedInv, SchedTypes, TaskInv, Unclaimed
    <3>2. sender'[t].at = "none" \/ (sender'[t].at \in {"members", "single"}
            /\ sender'[t].left = Targets[t] /\ (sender'[t].at = "single" => t \notin GroupTasks))
      BY <1>2, <1>3, <2>2 DEF SchedInv, SchedTypes, Start, TaskInv, Unclaimed
    <3> QED BY <3>1, <3>2 DEF TaskInv, Unclaimed, Progress, AllSent
  <2> QED BY <1>3, <2>1, <2>2
<1> QED BY <1>4, <1>5, <1>6 DEF SchedInv

(* Moving the sender of one task.                                          *)
LEMMA SendAtTypes ==
  ASSUME SchedInv, NEW t \in Tasks, NEW p \in SendStates, SendAt(t, p)
  PROVE  /\ sender' \in [Tasks -> SenderType]
         /\ sender'[t].at = p /\ sender'[t].left = sender[t].left
         /\ \A x \in Tasks \ {t} : sender'[x] = sender[x]
BY DEF SchedInv, SchedTypes, SendAt, SenderType

(* The group is asked for before anything is sent.                         *)
LEMMA MembersKeeps ==
  ASSUME SchedInv, NEW t \in Tasks, GetMembers(t)
  PROVE  SchedInv'
<1>1. UNCHANGED <<columns, status, due, copies, feedback, scan>> /\ sender[t].at = "members"
  BY DEF GetMembers
<1>2. PICK p \in {"group", "fail"} : SendAt(t, p)
  BY DEF GetMembers
<1>3. sfaults' \in Nat
  BY DEF GetMembers, SchedFault, SchedInv, SchedTypes
<1>4. /\ sender' \in [Tasks -> SenderType]
      /\ sender'[t].at = p /\ sender'[t].left = sender[t].left
      /\ \A x \in Tasks \ {t} : sender'[x] = sender[x]
  BY <1>2, SendAtTypes DEF SendStates
<1>5. SchedTypes'
  BY <1>1, <1>3, <1>4 DEF SchedInv, SchedTypes
<1>6. ASSUME NEW x \in Tasks, x # t PROVE TaskInv(x)'
  BY <1>1, <1>4, <1>6, TaskFrame DEF SchedInv
<1>7. TaskInv(t)'
  BY <1>1, <1>4, TargetsReceive DEF SchedInv, TaskInv, Unclaimed, Progress, AllSent
<1> QED BY <1>5, <1>6, <1>7 DEF SchedInv

(* Inserting one more copy.                                                *)
LEMMA DeliveredTypes ==
  ASSUME SchedInv, NEW t \in Tasks, NEW u \in Receivers, Delivered(t, u)
  PROVE  /\ copies' \in [Tasks -> [Receivers -> Nat]]
         /\ \A x \in Tasks \ {t} : copies'[x] = copies[x]
         /\ \A v \in Receivers :
              copies'[t][v] = IF v = u THEN copies[t][v] + 1 ELSE copies[t][v]
BY DEF SchedInv, SchedTypes, Delivered

(* A copy goes to a member who still has none.                             *)
LEMMA InsertMemberKeeps ==
  ASSUME SchedInv, NEW t \in Tasks, InsertForMember(t)
  PROVE  SchedInv'
<1>1. UNCHANGED <<columns, status, due, feedback, scan>> /\ sender[t].at = "group"
  BY DEF InsertForMember
<1>2. sfaults' \in Nat
  BY DEF InsertForMember, SchedFault, SchedInv, SchedTypes
<1>3. CASE sender[t].left = {} /\ SendAt(t, "mark") /\ UNCHANGED copies
  <2>1. /\ sender' \in [Tasks -> SenderType]
        /\ sender'[t].at = "mark" /\ sender'[t].left = sender[t].left
        /\ \A x \in Tasks \ {t} : sender'[x] = sender[x]
    BY <1>3, SendAtTypes DEF SendStates
  <2>2. SchedTypes'
    BY <1>1, <1>2, <1>3, <2>1 DEF SchedInv, SchedTypes
  <2>3. ASSUME NEW x \in Tasks, x # t PROVE TaskInv(x)'
    BY <1>1, <1>3, <2>1, <2>3, TaskFrame DEF SchedInv
  <2>4. TaskInv(t)'
    BY <1>1, <1>3, <2>1 DEF SchedInv, TaskInv, Unclaimed, Progress, AllSent
  <2> QED BY <2>2, <2>3, <2>4 DEF SchedInv
<1>4. ASSUME NEW u \in sender[t].left, Delivered(t, u),
             sender' = [sender EXCEPT ![t].left = @ \ {u}]
      PROVE  SchedInv'
  <2>1. u \in Receivers /\ u \in Targets[t]
    BY <1>1, <1>4, TargetsReceive DEF SchedInv, TaskInv, Progress
  <2>2. /\ sender' \in [Tasks -> SenderType]
        /\ sender'[t].at = "group" /\ sender'[t].left = sender[t].left \ {u}
        /\ \A x \in Tasks \ {t} : sender'[x] = sender[x]
    BY <1>1, <1>4 DEF SchedInv, SchedTypes, SenderType
  <2>3. /\ copies' \in [Tasks -> [Receivers -> Nat]]
        /\ \A x \in Tasks \ {t} : copies'[x] = copies[x]
        /\ \A v \in Receivers :
             copies'[t][v] = IF v = u THEN copies[t][v] + 1 ELSE copies[t][v]
    BY <1>4, <2>1, DeliveredTypes
  <2>4. SchedTypes'
    BY <1>1, <1>2, <2>2, <2>3 DEF SchedInv, SchedTypes
  <2>5. ASSUME NEW x \in Tasks, x # t PROVE TaskInv(x)'
    BY <1>1, <2>2, <2>3, <2>5, TaskFrame DEF SchedInv
  <2>6. TaskInv(t) /\ copies[t] \in [Receivers -> Nat]
    BY DEF SchedInv, SchedTypes
  <2>7. status[t] \notin {"none", "pending", "done"} /\ "ok" \notin feedback[t]
    BY <1>1, <1>4, <2>1, <2>6 DEF TaskInv, Unclaimed, Progress, AllSent
  <2>8. \A v \in Targets[t] :
          copies'[t][v] = IF v \in sender'[t].left THEN 0 ELSE 1
    BY <1>1, <1>4, <2>2, <2>3, <2>6, TargetsReceive DEF TaskInv, Progress
  <2>9. \A v \in Receivers : copies'[t][v] <= 1
    BY <1>1, <1>4, <2>1, <2>3, <2>6 DEF TaskInv, Progress
  <2>10. TaskInv(t)'
    BY <1>1, <2>2, <2>6, <2>7, <2>8, <2>9 DEF TaskInv, Unclaimed, Progress
  <2> QED BY <2>4, <2>5, <2>10 DEF SchedInv
<1>5. CASE SendAt(t, "fail") /\ UNCHANGED copies
  <2>1. /\ sender' \in [Tasks -> SenderType]
        /\ sender'[t].at = "fail" /\ sender'[t].left = sender[t].left
        /\ \A x \in Tasks \ {t} : sender'[x] = sender[x]
    BY <1>5, SendAtTypes DEF SendStates
  <2>2. SchedTypes'
    BY <1>1, <1>2, <1>5, <2>1 DEF SchedInv, SchedTypes
  <2>3. ASSUME NEW x \in Tasks, x # t PROVE TaskInv(x)'
    BY <1>1, <1>5, <2>1, <2>3, TaskFrame DEF SchedInv
  <2>4. TaskInv(t)'
    BY <1>1, <1>5, <2>1 DEF SchedInv, TaskInv, Unclaimed, Progress, AllSent
  <2> QED BY <2>2, <2>3, <2>4 DEF SchedInv
<1> QED BY <1>3, <1>4, <1>5 DEF InsertForMember

(* The one copy of a message to a person.                                  *)
LEMMA InsertSingleKeeps ==
  ASSUME SchedInv, NEW t \in Tasks, InsertSingle(t)
  PROVE  SchedInv'
<1>1. UNCHANGED <<columns, status, due, feedback, scan>> /\ sender[t].at = "single"
  BY DEF InsertSingle
<1>2. sfaults' \in Nat
  BY DEF InsertSingle, SchedFault, SchedInv, SchedTypes
<1>3. TaskInv(t) /\ copies[t] \in [Receivers -> Nat]
  BY DEF SchedInv, SchedTypes
<1>4. PICK u : Targets[t] = {u}
  BY <1>1, <1>3, OneTarget DEF TaskInv, Progress
<1>5. CASE Delivered(t, u) /\ SendAt(t, "mark")
  <2>1. /\ sender' \in [Tasks -> SenderType]
        /\ sender'[t].at = "mark" /\ sender'[t].left = sender[t].left
        /\ \A x \in Tasks \ {t} : sender'[x] = sender[x]
    BY <1>5, SendAtTypes DEF SendStates
  <2>2. u \in Receivers
    BY <1>4, TargetsReceive
  <2>3. /\ copies' \in [Tasks -> [Receivers -> Nat]]
        /\ \A x \in Tasks \ {t} : copies'[x] = copies[x]
        /\ \A v \in Receivers :
             copies'[t][v] = IF v = u THEN copies[t][v] + 1 ELSE copies[t][v]
    BY <1>5, <2>2, DeliveredTypes
  <2>4. SchedTypes'
    BY <1>1, <1>2, <2>1, <2>3 DEF SchedInv, SchedTypes
  <2>5. ASSUME NEW x \in Tasks, x # t PROVE TaskInv(x)'
    BY <1>1, <2>1, <2>3, <2>5, TaskFrame DEF SchedInv
  <2>6. \A v \in Receivers : copies'[t][v] = IF v = u THEN 1 ELSE 0
    BY <1>1, <1>3, <2>3 DEF TaskInv, Progress
  <2>7. status[t] \notin {"none", "pending"}
    BY <1>1, <1>3 DEF TaskInv, Unclaimed
  <2>8. TaskInv(t)'
    BY <1>1, <1>3, <1>4, <2>1, <2>2, <2>6, <2>7 DEF TaskInv, Unclaimed, Progress, AllSent
  <2> QED BY <2>4, <2>5, <2>8 DEF SchedInv
<1>6. CASE SendAt(t, "fail") /\ UNCHANGED copies
  <2>1. /\ sender' \in [Tasks -> SenderType]
        /\ sender'[t].at = "fail" /\ sender'[t].left = sender[t].left
        /\ \A x \in Tasks \ {t} : sender'[x] = sender[x]
    BY <1>6, SendAtTypes DEF SendStates
  <2>2. SchedTypes'
    BY <1>1, <1>2, <1>6, <2>1 DEF SchedInv, SchedTypes
  <2>3. ASSUME NEW x \in Tasks, x # t PROVE TaskInv(x)'
    BY <1>1, <1>6, <2>1, <2>3, TaskFrame DEF SchedInv
  <2>4. TaskInv(t)'
    BY <1>1, <1>3, <1>6, <2>1 DEF TaskInv, Unclaimed, Progress, AllSent
  <2> QED BY <2>2, <2>3, <2>4 DEF SchedInv
<1> QED BY <1>4, <1>5, <1>6 DEF InsertSingle

(* Only a task whose copies are all there is marked as done.               *)
LEMMA MarkKeeps ==
  ASSUME SchedInv, NEW t \in Tasks, MarkSchTaskDone(t)
  PROVE  SchedInv'
<1>1. UNCHANGED <<columns, due, copies, feedback, scan>> /\ sender[t].at = "mark"
  BY DEF MarkSchTaskDone
<1>2. PICK p \in {"ok", "fail"} : SendAt(t, p)
  BY DEF MarkSchTaskDone, Statement
<1>3. sfaults' \in Nat
  BY DEF MarkSchTaskDone, Statement, SchedFault, SchedInv, SchedTypes
<1>4. /\ sender' \in [Tasks -> SenderType]
      /\ sender'[t].at = p /\ sender'[t].left = sender[t].left
      /\ \A x \in Tasks \ {t} : sender'[x] = sender[x]
  BY <1>2, SendAtTypes DEF SendStates
<1>5. status' = status \/ status' = [status EXCEPT ![t] = IF @ = "claimed" THEN "done" ELSE @]
  BY DEF MarkSchTaskDone, Statement
<1>6. SchedTypes'
  BY <1>1, <1>3, <1>4, <1>5 DEF SchedInv, SchedTypes, Statuses
<1>7. ASSUME NEW x \in Tasks, x # t PROVE TaskInv(x)'
  BY <1>1, <1>4, <1>5, <1>7, TaskFrame DEF SchedInv, SchedTypes
<1>8. status[t] \notin {"none", "pending"} /\ status'[t] \in {status[t], "done"}
  BY <1>1, <1>5 DEF SchedInv, SchedTypes, TaskInv, Unclaimed
<1>9. TaskInv(t)'
  BY <1>1, <1>4, <1>8 DEF SchedInv, TaskInv, Unclaimed, Progress, AllSent
<1> QED BY <1>6, <1>7, <1>9 DEF SchedInv

(* Senders that end with their process leave what they have sent.          *)
LEMMA DieKeeps ==
  ASSUME SchedInv, NEW s \in Schedulers \cup {NoSender.by}, Die(s), sfaults' = sfaults + 1,
         UNCHANGED <<columns, status, due, copies, feedback>>
  PROVE  SchedInv'
<1>1. sender' \in [Tasks -> SenderType]
  BY DEF Die, SchedInv, SchedTypes, SenderType, NoSender, SendStates
<1>2. scan' \in [Schedulers -> SUBSET Tasks] /\ sfaults' \in Nat
  <2>1. scan' = [scan EXCEPT ![s] = {}] /\ scan \in [Schedulers -> SUBSET Tasks]
    BY DEF Die, SchedInv, SchedTypes
  <2>2. scan' \in [Schedulers -> SUBSET Tasks]
    BY <2>1
  <2> QED BY <2>2 DEF SchedInv, SchedTypes
<1>3. SchedTypes'
  BY <1>1, <1>2 DEF SchedInv, SchedTypes
<1>4. \A x \in Tasks : sender'[x] = sender[x] \/ sender'[x].at = "none"
  BY DEF Die, NoSender
<1> QED BY <1>3, <1>4, TaskFrame DEF SchedInv

(* A failed task keeps the copies that were inserted.                      *)
LEMMA FailKeeps ==
  ASSUME SchedInv, NEW t \in Tasks, FailedTask(t)
  PROVE  SchedInv'
<1>1. CASE SchedFault /\ Die(sender[t].by) /\ UNCHANGED status
  <2>1. sender[t].by \in Schedulers \cup {NoSender.by}
    BY DEF SchedInv, SchedTypes, SenderType
  <2> QED BY <1>1, <2>1, DieKeeps DEF FailedTask, SchedFault
<1>2. CASE /\ columns /\ SendAt(t, "failed") /\ UNCHANGED <<scan, sfaults>>
           /\ status' = [status EXCEPT ![t] = IF @ = "claimed" THEN "failed" ELSE @]
  <2>1. UNCHANGED <<columns, due, copies, feedback>> /\ sender[t].at = "fail"
    BY DEF FailedTask
  <2>2. /\ sender' \in [Tasks -> SenderType]
        /\ sender'[t].at = "failed" /\ sender'[t].left = sender[t].left
        /\ \A x \in Tasks \ {t} : sender'[x] = sender[x]
    BY <1>2, SendAtTypes DEF SendStates
  <2>3. SchedTypes'
    BY <1>2, <2>1, <2>2 DEF SchedInv, SchedTypes, Statuses
  <2>4. ASSUME NEW x \in Tasks, x # t PROVE TaskInv(x)'
    BY <1>2, <2>1, <2>2, <2>4, TaskFrame DEF SchedInv, SchedTypes
  <2>5. status[t] \notin {"none", "pending"} /\ status'[t] \in {status[t], "failed"}
    BY <1>2, <2>1 DEF SchedInv, SchedTypes, TaskInv, Unclaimed
  <2>6. TaskInv(t)'
    BY <2>1, <2>2, <2>5 DEF SchedInv, TaskInv, Unclaimed, Progress, AllSent
  <2> QED BY <2>3, <2>4, <2>6 DEF SchedInv
<1> QED BY <1>1, <1>2 DEF FailedTask

(* Success is reported by a sender whose copies are all there.             *)
LEMMA FeedbackKeeps ==
  ASSUME SchedInv, NEW t \in Tasks, InsertFeedback(t)
  PROVE  SchedInv'
<1>1. PICK r \in {"ok", "failed"} :
        /\ sender[t].at = r
        /\ \/ feedback' = [feedback EXCEPT ![t] = @ \cup {r}] /\ UNCHANGED sfaults
           \/ SchedFault /\ UNCHANGED feedback
        /\ sender' = [sender EXCEPT ![t] = NoSender]
        /\ UNCHANGED <<columns, status, due, copies, scan>>
  BY DEF InsertFeedback
<1>2. NoSender \in SenderType /\ NoSender.at = "none"
  BY DEF SenderType, NoSender, SendStates
<1>3. SchedTypes'
  BY <1>1, <1>2 DEF SchedInv, SchedTypes, SchedFault
<1>4. ASSUME NEW x \in Tasks, x # t PROVE TaskInv(x)'
  BY <1>1, <1>4, TaskFrame DEF SchedInv, SchedTypes
<1>5. sender'[t].at = "none" /\ feedback'[t] \subseteq feedback[t] \cup {r}
  BY <1>1, <1>2 DEF SchedInv, SchedTypes
<1>6. TaskInv(t)'
  BY <1>1, <1>5 DEF SchedInv, TaskInv, Unclaimed, Progress, AllSent
<1> QED BY <1>3, <1>4, <1>6 DEF SchedInv

(* Every step of the scheduler keeps the invariant.                        *)
LEMMA SchedStep == SchedInv /\ [SchedNext]_schedVars => SchedInv'
<1> SUFFICES ASSUME SchedInv, [SchedNext]_schedVars PROVE SchedInv'
  OBVIOUS
<1>1. ASSUME NEW s \in Schedulers, SchedulerDies(s) PROVE SchedInv'
  BY <1>1, DieKeeps DEF SchedulerDies, SchedFault
<1>2. CASE UNCHANGED schedVars
  BY <1>2, TaskFrame DEF schedVars, SchedInv, SchedTypes
<1> QED BY <1>1, <1>2, CreateKeeps, ScanKeeps, ClaimKeeps, MembersKeeps, InsertMemberKeeps,
           InsertSingleKeeps, MarkKeeps, FailKeeps, FeedbackKeeps DEF SchedNext, SendStep

(* The scheduler's invariant, for any tasks, receivers, schedulers and     *)
(* faults.                                                                 *)
THEOREM SchedInvariance == SchedSpec => []SchedInv
BY SchedStart, SchedStep, PTL DEF SchedSpec

(* Nobody gets a scheduled message twice.                                  *)
THEOREM ScheduledOnce == SchedSpec => []SentAtMostOnce
<1>1. SchedInv => SentAtMostOnce
  BY DEF SchedInv, TaskInv, SentAtMostOnce
<1> QED BY <1>1, SchedInvariance, PTL

(* Done and reported means delivered.                                      *)
THEOREM DoneMeansDelivered == SchedSpec => []DoneIsDelivered
<1>1. SchedInv => DoneIsDelivered
  BY DEF SchedInv, TaskInv, AllSent, DoneIsDelivered
<1> QED BY <1>1, SchedInvariance, PTL

----------------------------------------------------------------------------
(* RunnerCache: nothing older than the last reload.                        *)

(* The oldest configuration that what is kept under c may be built from:   *)
(* the running reload's own once its hook for c is over.                   *)
Floor(c) == IF c \in reload.hooks THEN reload.done ELSE version

(* The same of the pipeline, which is reset after the runner's mutex.      *)
PipelineFloor ==
  IF "runner" \in reload.hooks \/ reload.at = "reset" THEN reload.done ELSE version

CallerType ==
  [at : {"idle", "fast", "lock", "recheck", "read", "tools", "store", "returned"},
   c : Caches \cup {Idle.c}, since : Nat, got : SUBSET Nat]

ReloadType ==
  [at : {"idle", "hooks", "reset", "once"}, hooks : SUBSET Caches, done : Nat]

(* The variables of RunnerCache.                                           *)
CacheTypes ==
  /\ version \in Nat /\ cached \in [Caches -> SUBSET Nat]
  /\ caller \in [Callers -> CallerType]
  /\ reload \in ReloadType
  /\ orch \in SUBSET Nat /\ once \in BOOLEAN

(* Outside a reload the last one over is the configuration.                *)
ReloadSound ==
  /\ reload.done <= version /\ reload.done >= 1
  /\ reload.at = "idle" => reload.hooks = {} /\ reload.done = version
  /\ reload.at \in {"reset", "once"} => "runner" \notin reload.hooks

(* Nothing kept is older than its floor, and neither is anything that is   *)
(* being built under the lock, which the hook has to take.                 *)
KeptSound == \A c \in Caches : \A v \in cached[c] : v >= Floor(c) /\ v <= version
PipelineSound == \A v \in orch : v >= PipelineFloor /\ v <= version
CallerSound ==
  \A p \in Callers :
    /\ caller[p].at # "idle" => caller[p].c \in Caches
    /\ caller[p].since <= reload.done
    /\ caller[p].at \in {"read", "tools", "store"} =>
         \A v \in caller[p].got : v >= Floor(caller[p].c) /\ v <= version
    /\ caller[p].at \in {"lock", "recheck"} => caller[p].got = {}

CacheInv ==
  CacheTypes /\ ReloadSound /\ KeptSound /\ PipelineSound /\ CallerSound /\ FreshAfterReload

(* The pipeline stays sound while neither it nor the reload changes.       *)
LEMMA PipelineFrame ==
  ASSUME PipelineSound, UNCHANGED <<version, reload, orch>>
  PROVE  PipelineSound'
BY DEF PipelineSound, PipelineFloor

(* At the start nothing is kept.                                           *)
LEMMA CacheStart == CacheInit => CacheInv
<1> SUFFICES ASSUME CacheInit PROVE CacheInv
  OBVIOUS
<1>5. Idle \in CallerType
  BY DEF Idle, CallerType
<1>6. reload = [at |-> "idle", hooks |-> {}, done |-> 1] /\ version = 1
  BY DEF CacheInit
<1>7. reload \in ReloadType /\ ReloadSound
  BY <1>6 DEF ReloadSound, ReloadType
<1>8. caller \in [Callers -> CallerType] /\ cached \in [Caches -> SUBSET Nat]
  BY <1>5 DEF CacheInit
<1>9. orch \in SUBSET Nat /\ once \in BOOLEAN /\ version \in Nat
  <2>1. orch = {} /\ once = FALSE
    BY DEF CacheInit
  <2> QED BY <1>6, <2>1
<1>1. CacheTypes /\ ReloadSound
  BY <1>7, <1>8, <1>9 DEF CacheTypes
<1>2. KeptSound /\ PipelineSound
  BY DEF CacheInit, KeptSound, PipelineSound
<1>3. \A p \in Callers : caller[p].at = "idle" /\ caller[p].since = 1 /\ reload.done = 1
  BY DEF CacheInit, Idle
<1>4. CallerSound /\ FreshAfterReload
  BY <1>3 DEF CallerSound, FreshAfterReload, CacheInit
<1> QED BY <1>1, <1>2, <1>4 DEF CacheInv

(* A caller's own step: its new record must be sound, the others' are.     *)
LEMMA CallerFrame ==
  ASSUME CacheInv, NEW p \in Callers, UNCHANGED <<version, reload>>,
         NEW r \in CallerType,
         caller' = [caller EXCEPT ![p] = r],
         cached' \in [Caches -> SUBSET Nat], KeptSound',
         orch' \in SUBSET Nat, once' \in BOOLEAN, PipelineSound',
         r.at # "idle" => r.c \in Caches,
         r.since <= reload.done,
         r.at \in {"read", "tools", "store"} => \A v \in r.got : v >= Floor(r.c) /\ v <= version,
         r.at \in {"lock", "recheck"} => r.got = {},
         r.at = "returned" => \A v \in r.got : v >= r.since
  PROVE  CacheInv'
<1>1. CacheTypes' /\ ReloadSound'
  BY DEF CacheInv, CacheTypes, ReloadSound
<1>2. \A q \in Callers : caller'[q] = IF q = p THEN r ELSE caller[q]
  BY DEF CacheInv, CacheTypes
<1>3. CallerSound'
  BY <1>2 DEF CacheInv, CallerSound, Floor
<1>4. \A v \in orch' : v >= reload'.done
  <2>1. /\ reload'.done \in Nat /\ version' \in Nat /\ orch' \in SUBSET Nat
        /\ reload'.done <= version'
    BY <1>1 DEF CacheTypes, ReloadSound, ReloadType
  <2>2. PipelineFloor' \in Nat /\ reload'.done <= PipelineFloor'
    BY <2>1 DEF PipelineFloor
  <2> QED BY <2>1, <2>2 DEF PipelineSound
<1>5. FreshAfterReload'
  BY <1>2, <1>4 DEF CacheInv, FreshAfterReload
<1> QED BY <1>1, <1>3, <1>5 DEF CacheInv

(* What is kept satisfies whoever asked after the last reload was over.    *)
LEMMA KeptIsFresh ==
  ASSUME CacheInv, NEW p \in Callers, caller[p].c \in Caches
  PROVE  /\ caller[p].since \in Nat /\ cached[caller[p].c] \in SUBSET Nat
         /\ \A v \in cached[caller[p].c] : v >= caller[p].since
<1>1. /\ caller[p].since \in Nat /\ reload.done \in Nat /\ version \in Nat
      /\ cached[caller[p].c] \in SUBSET Nat /\ caller[p].since <= reload.done
      /\ reload.done <= version
  BY DEF CacheInv, CacheTypes, CallerSound, ReloadSound, CallerType, ReloadType
<1>2. Floor(caller[p].c) \in Nat /\ Floor(caller[p].c) >= reload.done
  BY <1>1 DEF Floor
<1>3. ASSUME NEW v \in cached[caller[p].c] PROVE v >= caller[p].since
  BY <1>1, <1>2, <1>3 DEF CacheInv, KeptSound
<1> QED BY <1>1, <1>3

(* Nothing kept changes.                                                   *)
LEMMA KeptFrame ==
  ASSUME CacheInv, UNCHANGED <<version, cached, reload, orch, once>>
  PROVE  /\ KeptSound' /\ cached' \in [Caches -> SUBSET Nat]
         /\ PipelineSound' /\ orch' \in SUBSET Nat /\ once' \in BOOLEAN
<1>1. PipelineSound'
  BY PipelineFrame DEF CacheInv
<1> QED BY <1>1 DEF CacheInv, KeptSound, Floor, CacheTypes

(* The idle caller.                                                        *)
LEMMA IdleSound ==
  CacheInv => /\ Idle.at = "idle" /\ Idle.since = 1 /\ Idle.since <= reload.done
              /\ Idle \in CallerType
<1> SUFFICES ASSUME CacheInv PROVE Idle.since <= reload.done
  BY DEF Idle, CallerType
<1> QED BY DEF CacheInv, ReloadSound, Idle, CacheTypes

(* Asking: the time of the question is the last reload over.               *)
LEMMA CallKeeps ==
  ASSUME CacheInv, NEW p \in Callers, Call(p)
  PROVE  CacheInv'
<1>1. PICK c \in Caches : caller' = [caller EXCEPT ![p] =
         [at |-> IF cached[c] # {} THEN "fast" ELSE "lock",
          c |-> c, since |-> reload.done, got |-> {}]]
  BY DEF Call
<1> DEFINE r == [at |-> IF cached[c] # {} THEN "fast" ELSE "lock",
                 c |-> c, since |-> reload.done, got |-> {}]
<1>2. r \in CallerType
  BY DEF CacheInv, CacheTypes, CallerType, ReloadType
<1>3. UNCHANGED <<version, cached, reload, orch, once>>
  BY DEF Call
<1>4. r.at \notin {"idle", "recheck", "read", "store", "returned"} /\ r.c \in Caches
      /\ r.since <= reload.done /\ r.got = {}
  BY DEF CacheInv, CacheTypes, ReloadType
<1>5. caller' = [caller EXCEPT ![p] = r]
  BY <1>1
<1> HIDE DEF r
<1> QED BY <1>2, <1>3, <1>4, <1>5, KeptFrame, CallerFrame

(* A caller's record after a step that sets where it stands.               *)
Moved(p, a, g) == [caller[p] EXCEPT !.at = a, !.got = g]

(* Returning what is kept, with or without the lock.                       *)
LEMMA ReturnKeeps ==
  ASSUME CacheInv, NEW p \in Callers, caller[p].at # "idle",
         NEW g \in SUBSET Nat, \A v \in g : v >= caller[p].since,
         caller' = Return(p, g), UNCHANGED <<version, reload, orch, once>>,
         KeptSound', cached' \in [Caches -> SUBSET Nat]
  PROVE  CacheInv'
<1> DEFINE r == Moved(p, "returned", g)
<1>1. /\ r \in CallerType /\ r.at = "returned" /\ r.got = g
      /\ r.c = caller[p].c /\ r.since = caller[p].since /\ r.since <= reload.done
      /\ caller' = [caller EXCEPT ![p] = r]
  BY DEF CacheInv, CacheTypes, CallerType, CallerSound, Moved, Return
<1>2. caller[p].c \in Caches
  BY DEF CacheInv, CallerSound
<1>3. PipelineSound' /\ orch' \in SUBSET Nat /\ once' \in BOOLEAN
  BY PipelineFrame DEF CacheInv, CacheTypes
<1> HIDE DEF r
<1> QED BY <1>1, <1>2, <1>3, CallerFrame

(* The unlocked test and read.                                             *)
LEMMA FastKeeps ==
  ASSUME CacheInv, NEW p \in Callers, FastReturn(p)
  PROVE  CacheInv'
<1>1. caller[p].at = "fast" /\ UNCHANGED <<version, cached, reload, orch, once>>
      /\ caller' = Return(p, cached[caller[p].c])
  BY DEF FastReturn
<1>2. caller[p].c \in Caches
  BY <1>1 DEF CacheInv, CallerSound
<1> QED BY <1>1, <1>2, KeptIsFresh, KeptFrame, ReturnKeeps

(* Taking the lock.                                                        *)
LEMMA LockKeeps ==
  ASSUME CacheInv, NEW p \in Callers, Lock(p)
  PROVE  CacheInv'
<1>1. caller[p].at = "lock" /\ UNCHANGED <<version, cached, reload, orch, once>>
      /\ caller' = [caller EXCEPT ![p].at = "recheck"]
  BY DEF Lock
<1>2. caller[p].c \in Caches /\ caller[p].got = {}
  BY <1>1 DEF CacheInv, CallerSound
<1> DEFINE r == Moved(p, "recheck", {})
<1>3. /\ r \in CallerType /\ r.at = "recheck" /\ r.got = {}
      /\ r.c = caller[p].c /\ r.since = caller[p].since /\ r.since <= reload.done
  BY DEF CacheInv, CacheTypes, CallerType, CallerSound, Moved
<1>4. caller' = [caller EXCEPT ![p] = r]
  BY <1>1, <1>2 DEF CacheInv, CacheTypes, CallerType, Moved
<1> HIDE DEF r
<1> QED BY <1>1, <1>2, <1>3, <1>4, KeptFrame, CallerFrame

(* The test under the lock.                                                *)
LEMMA RecheckKeeps ==
  ASSUME CacheInv, NEW p \in Callers, Recheck(p)
  PROVE  CacheInv'
<1>1. caller[p].at = "recheck" /\ UNCHANGED <<version, cached, reload, orch, once>>
  BY DEF Recheck
<1>2. caller[p].c \in Caches /\ caller[p].got = {}
  BY <1>1 DEF CacheInv, CallerSound
<1>3. CASE caller' = Return(p, cached[caller[p].c])
  BY <1>1, <1>2, <1>3, KeptIsFresh, KeptFrame, ReturnKeeps
<1>4. CASE caller' = [caller EXCEPT ![p].at = "read"]
  <2> DEFINE r == Moved(p, "read", {})
  <2>1. /\ r \in CallerType /\ r.at = "read" /\ r.got = {}
        /\ r.c = caller[p].c /\ r.since = caller[p].since /\ r.since <= reload.done
    BY DEF CacheInv, CacheTypes, CallerType, CallerSound, Moved
  <2>2. caller' = [caller EXCEPT ![p] = r]
    BY <1>2, <1>4 DEF CacheInv, CacheTypes, CallerType, Moved
  <2> HIDE DEF r
  <2> QED BY <1>1, <1>2, <2>1, <2>2, KeptFrame, CallerFrame
<1> QED BY <1>3, <1>4 DEF Recheck

(* A floor is never above the configuration.                               *)
LEMMA FloorBelow ==
  ASSUME CacheInv, NEW c
  PROVE  Floor(c) \in Nat /\ Floor(c) <= version /\ version \in Nat
         /\ reload.done <= Floor(c) /\ reload.done \in Nat
BY DEF CacheInv, CacheTypes, ReloadSound, Floor, ReloadType

(* A build reads the configuration of the moment, which is the newest.     *)
LEMMA BuildKeeps ==
  ASSUME CacheInv, NEW p \in Callers, Build(p)
  PROVE  CacheInv'
<1>1. caller[p].at \in {"read", "tools"} /\ UNCHANGED <<version, cached, reload, orch, once>>
  BY DEF Build
<1>2. /\ caller[p].c \in Caches /\ caller[p].got \in SUBSET Nat
      /\ \A v \in caller[p].got : v >= Floor(caller[p].c) /\ v <= version
  BY <1>1 DEF CacheInv, CallerSound, CacheTypes, CallerType
<1>3. ASSUME NEW a \in {"read", "tools", "store"}, NEW g \in SUBSET Nat,
             g \subseteq caller[p].got \cup {version},
             caller' = [caller EXCEPT ![p].at = a, ![p].got = g]
      PROVE  CacheInv'
  <2> DEFINE r == Moved(p, a, g)
  <2>1. /\ r \in CallerType /\ r.at = a /\ r.got = g
        /\ r.c = caller[p].c /\ r.since = caller[p].since /\ r.since <= reload.done
        /\ caller' = [caller EXCEPT ![p] = r]
    BY <1>3 DEF CacheInv, CacheTypes, CallerType, CallerSound, Moved
  <2>2. \A v \in g : v >= Floor(caller[p].c) /\ v <= version
    BY <1>2, <1>3, FloorBelow
  <2> HIDE DEF r
  <2> QED BY <1>1, <1>2, <1>3, <2>1, <2>2, KeptFrame, CallerFrame
<1>4. CASE caller' = [caller EXCEPT ![p].got = @ \cup {version}]
  <2>1. caller' = [caller EXCEPT ![p].at = caller[p].at, ![p].got = caller[p].got \cup {version}]
    BY <1>1, <1>4 DEF CacheInv, CacheTypes, CallerType
  <2>2. caller[p].got \cup {version} \in SUBSET Nat
    BY <1>2, FloorBelow
  <2> QED BY <1>1, <1>3, <2>1, <2>2
<1>5. CASE caller' = [caller EXCEPT ![p].at = "store"]
  <2>1. caller' = [caller EXCEPT ![p].at = "store", ![p].got = caller[p].got]
    BY <1>1, <1>5 DEF CacheInv, CacheTypes, CallerType
  <2> QED BY <1>2, <1>3, <2>1
<1>6. CASE caller' = [caller EXCEPT ![p] = Idle]
  BY <1>1, <1>6, IdleSound, KeptFrame, CallerFrame
<1> QED BY <1>4, <1>5, <1>6 DEF Build

(* The pipeline gets what its builder read under the runner's mutex.       *)
LEMMA SetModelKeeps ==
  ASSUME CacheInv, NEW p \in Callers, SetChatModel(p)
  PROVE  CacheInv'
<1>1. /\ caller[p].at = "read" /\ caller[p].c = "runner" /\ UNCHANGED <<version, cached, reload>>
      /\ caller' = [caller EXCEPT ![p].at = "tools"]
      /\ once' = TRUE /\ orch' \in {orch, caller[p].got}
  BY DEF SetChatModel
<1>2. /\ caller[p].c \in Caches /\ caller[p].got \in SUBSET Nat
      /\ \A v \in caller[p].got : v >= Floor("runner") /\ v <= version
  BY <1>1 DEF CacheInv, CallerSound, CacheTypes, CallerType
<1>3. PipelineFloor <= Floor("runner") /\ PipelineFloor \in Nat /\ Floor("runner") \in Nat
  BY DEF CacheInv, CacheTypes, ReloadSound, ReloadType, PipelineFloor, Floor
<1>4. \A v \in caller[p].got : v >= PipelineFloor
  BY <1>2, <1>3
<1>5. \A v \in orch' : v >= PipelineFloor /\ v <= version
  BY <1>1, <1>2, <1>4 DEF CacheInv, PipelineSound
<1>6. PipelineSound' /\ orch' \in SUBSET Nat /\ once' \in BOOLEAN
  BY <1>1, <1>2, <1>5 DEF PipelineSound, PipelineFloor, CacheInv, CacheTypes
<1>7. KeptSound' /\ cached' \in [Caches -> SUBSET Nat]
  BY <1>1 DEF CacheInv, KeptSound, Floor, CacheTypes
<1> DEFINE r == Moved(p, "tools", caller[p].got)
<1>8. /\ r \in CallerType /\ r.at = "tools" /\ r.got = caller[p].got
      /\ r.c = caller[p].c /\ r.since = caller[p].since /\ r.since <= reload.done
      /\ caller' = [caller EXCEPT ![p] = r]
  BY <1>1 DEF CacheInv, CacheTypes, CallerType, CallerSound, Moved
<1> HIDE DEF r
<1> QED BY <1>1, <1>2, <1>6, <1>7, <1>8, CallerFrame

(* What was built is kept: the hook cannot have run in between.            *)
LEMMA StoreKeeps ==
  ASSUME CacheInv, NEW p \in Callers, Store(p)
  PROVE  CacheInv'
<1>1. /\ caller[p].at = "store" /\ UNCHANGED <<version, reload, orch, once>>
      /\ cached' = [cached EXCEPT ![caller[p].c] = caller[p].got]
      /\ caller' = Return(p, caller[p].got)
  BY DEF Store
<1>2. /\ caller[p].c \in Caches /\ caller[p].got \in SUBSET Nat
      /\ \A v \in caller[p].got : v >= Floor(caller[p].c) /\ v <= version
      /\ caller[p].since \in Nat /\ caller[p].since <= reload.done
  BY <1>1 DEF CacheInv, CallerSound, CacheTypes, CallerType
<1>3. cached' \in [Caches -> SUBSET Nat]
  BY <1>1, <1>2 DEF CacheInv, CacheTypes
<1>4. \A c \in Caches : cached'[c] = IF c = caller[p].c THEN caller[p].got ELSE cached[c]
  BY <1>1 DEF CacheInv, CacheTypes
<1>5. KeptSound'
  BY <1>1, <1>2, <1>4 DEF CacheInv, KeptSound, Floor
<1>6. \A v \in caller[p].got : v >= caller[p].since
  BY <1>2, FloorBelow
<1> QED BY <1>1, <1>2, <1>3, <1>5, <1>6, ReturnKeeps

(* Using what was returned ends the call.                                  *)
LEMMA UseKeeps ==
  ASSUME CacheInv, NEW p \in Callers, Use(p)
  PROVE  CacheInv'
BY IdleSound, KeptFrame, CallerFrame DEF Use

(* A reload makes every hook due: what is kept was built from what was the *)
(* configuration until now.                                                *)
LEMMA ReloadStoreKeeps == CacheInv /\ ReloadStore => CacheInv'
<1> SUFFICES ASSUME CacheInv, ReloadStore PROVE CacheInv'
  OBVIOUS
<1>1. /\ version' = version + 1 /\ UNCHANGED <<cached, caller, orch, once>>
      /\ reload' = [reload EXCEPT !.at = "hooks", !.hooks = Caches] /\ reload.at = "idle"
  BY DEF ReloadStore
<1>2. /\ reload'.at = "hooks" /\ reload'.hooks = Caches /\ reload'.done = reload.done
      /\ reload.done = version /\ reload.hooks = {} /\ version \in Nat
      /\ reload' \in ReloadType
  BY <1>1 DEF CacheInv, CacheTypes, ReloadSound, ReloadType
<1>3. CacheTypes' /\ ReloadSound'
  BY <1>1, <1>2 DEF CacheInv, CacheTypes, ReloadSound
<1>4. \A c \in Caches : Floor(c)' = version /\ Floor(c) = version
  BY <1>1, <1>2 DEF Floor
<1>8. PipelineSound'
  <2>1. PipelineFloor' = version /\ PipelineFloor = version
    BY <1>1, <1>2, CacheAssumption DEF PipelineFloor
  <2> QED BY <1>1, <1>2, <2>1 DEF CacheInv, PipelineSound, CacheTypes
<1>5. KeptSound'
  BY <1>1, <1>2, <1>4 DEF CacheInv, KeptSound, CacheTypes
<1>6. ASSUME NEW p \in Callers PROVE
        /\ caller'[p].at # "idle" => caller'[p].c \in Caches
        /\ caller'[p].since <= reload'.done
        /\ caller'[p].at \in {"read", "tools", "store"} =>
             \A v \in caller'[p].got : v >= Floor(caller[p].c)' /\ v <= version'
        /\ caller'[p].at \in {"lock", "recheck"} => caller'[p].got = {}
  <2>1. caller[p] \in CallerType
    BY DEF CacheInv, CacheTypes
  <2> QED BY <1>1, <1>2, <1>4, <2>1 DEF CacheInv, CallerSound, CallerType
<1>7. CallerSound' /\ FreshAfterReload'
  BY <1>1, <1>2, <1>6 DEF CallerSound, FreshAfterReload, CacheInv
<1> QED BY <1>3, <1>5, <1>7, <1>8 DEF CacheInv

(* A hook runs when nobody builds under its lock.                          *)
LEMMA ClearKeeps == CacheInv /\ ClearCached => CacheInv'
<1> SUFFICES ASSUME CacheInv, ClearCached PROVE CacheInv'
  OBVIOUS
<1>1. PICK c \in reload.hooks :
        /\ ~Held(c) /\ cached' = [cached EXCEPT ![c] = {}]
        /\ reload' = [reload EXCEPT !.at = IF c = "runner" THEN "reset" ELSE "hooks",
                                    !.hooks = @ \ {c}]
  BY DEF ClearCached
<1>2. UNCHANGED <<version, caller, orch, once>> /\ reload.at = "hooks" /\ c \in Caches
  BY DEF ClearCached, CacheInv, CacheTypes, ReloadType
<1>3. /\ reload'.at = (IF c = "runner" THEN "reset" ELSE "hooks")
      /\ reload'.hooks = reload.hooks \ {c}
      /\ reload'.done = reload.done
      /\ reload' \in ReloadType
  BY <1>1, <1>2 DEF CacheInv, CacheTypes, ReloadType
<1>4. CacheTypes' /\ ReloadSound'
  BY <1>1, <1>2, <1>3 DEF CacheInv, CacheTypes, ReloadSound
<1>5. \A d : d # c => Floor(d)' = Floor(d)
  BY <1>2, <1>3 DEF Floor
<1>6. \A d \in Caches : cached'[d] = IF d = c THEN {} ELSE cached[d]
  BY <1>1 DEF CacheInv, CacheTypes
<1>7. KeptSound'
  BY <1>2, <1>5, <1>6 DEF CacheInv, KeptSound
<1>8. \A p \in Callers : caller[p].at \in {"read", "tools", "store"} => caller[p].c # c
  BY <1>1 DEF Held
<1>9. CallerSound' /\ FreshAfterReload'
  BY <1>2, <1>3, <1>5, <1>8 DEF CacheInv, CallerSound, FreshAfterReload
<1>10. PipelineSound'
  <2>1. PipelineFloor' = PipelineFloor
    BY <1>2, <1>3 DEF PipelineFloor
  <2> QED BY <1>2, <2>1 DEF CacheInv, PipelineSound
<1> QED BY <1>4, <1>7, <1>9, <1>10 DEF CacheInv

(* The pipeline's reset: afterwards nothing old is in it, and whoever sets *)
(* it anew started after the runner was cleared.                           *)
LEMMA ResetKeeps == CacheInv /\ (ResetPipeline \/ ResetOnce) => CacheInv'
<1> SUFFICES ASSUME CacheInv, ResetPipeline \/ ResetOnce PROVE CacheInv'
  OBVIOUS
<1>1. /\ UNCHANGED <<version, cached, caller>> /\ once' \in {once, FALSE}
      /\ \/ reload.at = "reset" /\ reload' = [reload EXCEPT !.at = "once"] /\ orch' = {}
         \/ reload.at = "once" /\ reload' = [reload EXCEPT !.at = "hooks"] /\ orch' = orch
  BY DEF ResetPipeline, ResetOnce
<1>2. /\ reload' \in ReloadType /\ reload'.hooks = reload.hooks /\ reload'.done = reload.done
      /\ reload'.at \in {"once", "hooks"}
  BY <1>1 DEF CacheInv, CacheTypes, ReloadType
<1>3. CacheTypes' /\ ReloadSound'
  BY <1>1, <1>2 DEF CacheInv, CacheTypes, ReloadSound
<1>4. \A c : Floor(c)' = Floor(c)
  BY <1>1, <1>2 DEF Floor
<1>5. KeptSound' /\ CallerSound'
  BY <1>1, <1>2, <1>4 DEF CacheInv, KeptSound, CallerSound
<1>6. PipelineSound'
  BY <1>1, <1>2 DEF CacheInv, PipelineSound, PipelineFloor
<1>7. FreshAfterReload'
  BY <1>1, <1>2 DEF CacheInv, FreshAfterReload
<1> QED BY <1>3, <1>5, <1>6, <1>7 DEF CacheInv

(* When the last hook is over everything kept is of this configuration.    *)
LEMMA ReloadReturnsKeeps == CacheInv /\ ReloadReturns => CacheInv'
<1> SUFFICES ASSUME CacheInv, ReloadReturns PROVE CacheInv'
  OBVIOUS
<1>1. /\ reload.at = "hooks" /\ reload.hooks = {}
      /\ UNCHANGED <<version, cached, caller, orch, once>>
      /\ reload' = [at |-> "idle", hooks |-> {}, done |-> version]
  BY DEF ReloadReturns
<1>2. CacheTypes' /\ ReloadSound'
  BY <1>1 DEF CacheInv, CacheTypes, ReloadSound, ReloadType
<1>3. \A c : Floor(c)' = Floor(c)
  BY <1>1 DEF Floor
<1>4. KeptSound'
  BY <1>1, <1>3 DEF CacheInv, KeptSound
<1>5. \A p \in Callers : caller[p].since <= reload'.done
  <2> SUFFICES ASSUME NEW p \in Callers PROVE caller[p].since <= version
    BY <1>1
  <2>1. caller[p].since \in Nat
    BY DEF CacheInv, CacheTypes, CallerType
  <2> QED BY <2>1 DEF CacheInv, CallerSound, ReloadSound, CacheTypes, ReloadType
<1>7. PipelineSound'
  BY <1>1 DEF CacheInv, PipelineSound, PipelineFloor
<1>8. \A v \in orch' : v >= reload'.done
  BY <1>1, <1>7 DEF PipelineSound, PipelineFloor
<1>6. CallerSound' /\ FreshAfterReload'
  BY <1>1, <1>3, <1>5, <1>8 DEF CacheInv, CallerSound, FreshAfterReload
<1> QED BY <1>2, <1>4, <1>6, <1>7 DEF CacheInv

(* Every step of callers and reloads keeps the invariant.                  *)
LEMMA CacheStep == CacheInv /\ [CacheNext]_cacheVars => CacheInv'
<1> SUFFICES ASSUME CacheInv, [CacheNext]_cacheVars PROVE CacheInv'
  OBVIOUS
<1>1. CASE UNCHANGED cacheVars
  BY <1>1 DEF cacheVars, CacheInv, CacheTypes, ReloadSound, KeptSound, CallerSound,
     FreshAfterReload, Floor, PipelineSound, PipelineFloor
<1> QED BY <1>1, SetModelKeeps, ResetKeeps, CallKeeps, FastKeeps, LockKeeps, RecheckKeeps, BuildKeeps, StoreKeeps,
           UseKeeps, ReloadStoreKeeps, ClearKeeps, ReloadReturnsKeeps DEF CacheNext

(* Whoever asks after a reload returned gets nothing older, for any        *)
(* callers, caches and reloads.                                            *)
THEOREM FreshnessOfCaches == CacheSpec => []FreshAfterReload
<1>1. CacheInv => FreshAfterReload
  BY DEF CacheInv
<1> QED BY <1>1, CacheStart, CacheStep, PTL DEF CacheSpec

----------------------------------------------------------------------------
(* Memory: the list is the conversation.                                   *)

(* The index in the log of the last message the first item speaks for.     *)
Oldest == Len(log) - Len(list) + 1

(* The list is the conversation, the first item standing for its start.    *)
Faithful ==
  /\ Oldest > 0 /\ list # <<>>
  /\ list[1] = Prefix(log, Oldest)
  /\ \A i \in 2 .. Len(list) : list[i] = {log[Oldest + i - 1]}

(* The one compression that runs has a full window in front of it, and     *)
(* what it read are the items it will replace.                             *)
CompressSound ==
  /\ \A m, n \in Messages : comp[m].at # "none" /\ comp[n].at # "none" => m = n
  /\ \A m \in Messages : comp[m].at # "none" => Len(list) >= WindowSize
  /\ \A m \in Messages : comp[m].at = "llm" => comp[m].read = Prefix(log, Oldest + toCompress - 1)

MemInv ==
  /\ MemoryTypeOK
  /\ overlapped \/ (((list = <<>> /\ log = <<>>) \/ Faithful) /\ CompressSound)

(* A message is one of a turn.                                             *)
LEMMA MessageTypes == \A t \in Turns : <<t, "question">> \in Messages /\ <<t, "answer">> \in Messages
BY DEF Messages

(* The items a compression replaces.                                       *)
LEMMA CompressBounds == toCompress \in Nat /\ toCompress >= 1 /\ toCompress < WindowSize /\ WindowSize \in Nat
BY MemoryAssumption DEF toCompress

(* At the start the memory is empty.                                       *)
LEMMA MemStart == MemoryInit => MemInv
<1> SUFFICES ASSUME MemoryInit PROVE MemInv
  OBVIOUS
<1>1. MemoryTypeOK
  <2>1. list \in Seq(SUBSET Messages) /\ log \in Seq(Messages)
    BY DEF MemoryInit
  <2>2. comp \in [Messages -> [at : {"none", "start", "llm"}, read : SUBSET Messages]]
    BY DEF MemoryInit, NoComp
  <2>3. turn \in [Turns -> {"idle", "asked", "running", "answered", "over"}]
        /\ overlapped \in BOOLEAN
    BY DEF MemoryInit
  <2> QED BY <2>1, <2>2, <2>3 DEF MemoryTypeOK
<1>2. CompressSound
  BY DEF MemoryInit, CompressSound, NoComp
<1> QED BY <1>1, <1>2 DEF MemInv, MemoryInit

(* A message is added behind the conversation and behind what a            *)
(* compression has read.                                                   *)
LEMMA AppendKeeps ==
  ASSUME MemInv, NEW m \in Messages, NEW from,
         NEW to \in {"idle", "asked", "running", "answered", "over"}, Append1(m, from, to)
  PROVE  MemInv'
<1>1. /\ list' = Append(list, {m}) /\ log' = Append(log, m)
      /\ turn' = [turn EXCEPT ![m[1]] = to] /\ UNCHANGED <<comp, overlapped>>
  BY DEF Append1
<1>2. list \in Seq(SUBSET Messages) /\ log \in Seq(Messages)
  BY DEF MemInv, MemoryTypeOK
<1>3. MemoryTypeOK'
  <2>1. list' \in Seq(SUBSET Messages) /\ log' \in Seq(Messages)
    <3>1. {m} \in SUBSET Messages
      OBVIOUS
    <3> HIDE DEF Messages
    <3> QED BY <1>1, <1>2, <3>1
  <2>2. turn' \in [Turns -> {"idle", "asked", "running", "answered", "over"}]
    BY <1>1 DEF MemInv, MemoryTypeOK
  <2> QED BY <1>1, <2>1, <2>2 DEF MemInv, MemoryTypeOK
<1>4. CASE overlapped
  BY <1>1, <1>3, <1>4 DEF MemInv
<1>5. CASE ~overlapped
  <2>1. /\ Len(list') = Len(list) + 1 /\ Len(log') = Len(log) + 1
        /\ Len(list) \in Nat /\ Len(log) \in Nat
        /\ \A i \in 1 .. Len(list) : list'[i] = list[i]
        /\ \A i \in 1 .. Len(log) : log'[i] = log[i]
        /\ list'[Len(list) + 1] = {m} /\ log'[Len(log) + 1] = m
    BY <1>1, <1>2
  <2>2. Oldest' = Oldest /\ Oldest \in Int
    BY <2>1 DEF Oldest
  <2>3. ASSUME NEW n \in Nat, n <= Len(log) PROVE Prefix(log', n) = Prefix(log, n)
    BY <2>1, <2>3 DEF Prefix
  <2>4. Faithful'
    <3>1. CASE list = <<>> /\ log = <<>>
      <4>1. Len(list') = 1 /\ Len(log') = 1 /\ Oldest' = 1 /\ list'[1] = {m} /\ log'[1] = m
        BY <1>1, <3>1 DEF Oldest
      <4>2. Prefix(log', 1) = {m}
        BY <4>1 DEF Prefix
      <4> QED BY <4>1, <4>2 DEF Faithful
    <3>2. CASE Faithful
      <4>1. Len(list) >= 1 /\ Oldest \in Nat /\ Oldest <= Len(log) /\ Oldest >= 1
        BY <1>2, <2>1, <3>2 DEF Faithful, Oldest
      <4>2. list'[1] = Prefix(log', Oldest')
        BY <2>1, <2>2, <2>3, <3>2, <4>1 DEF Faithful
      <4>3. ASSUME NEW i \in 2 .. Len(list') PROVE list'[i] = {log'[Oldest' + i - 1]}
        <5>1. CASE i <= Len(list)
          <6>1. i \in 2 .. Len(list) /\ Oldest + i - 1 \in 1 .. Len(log)
            BY <2>1, <4>1, <4>3, <5>1 DEF Oldest
          <6> QED BY <2>1, <2>2, <3>2, <6>1 DEF Faithful
        <5>2. CASE i = Len(list) + 1
          <6>1. Oldest' + i - 1 = Len(log) + 1
            BY <2>1, <2>2, <5>2 DEF Oldest
          <6> QED BY <2>1, <5>2, <6>1
        <5> QED BY <2>1, <4>3, <5>1, <5>2
      <4>4. list' # <<>>
        BY <2>1
      <4> QED BY <2>2, <4>1, <4>2, <4>3, <4>4 DEF Faithful
    <3> QED BY <1>5, <3>1, <3>2 DEF MemInv
  <2>5. CompressSound'
    <3>1. CompressSound
      BY <1>5 DEF MemInv
    <3>2. ASSUME NEW n \in Messages, comp[n].at = "llm"
          PROVE  comp[n].read = Prefix(log', Oldest' + toCompress - 1)
      <4>1. Len(list) >= WindowSize /\ comp[n].read = Prefix(log, Oldest + toCompress - 1)
        BY <3>1, <3>2 DEF CompressSound
      <4>2. list # <<>>
        BY <2>1, <4>1, CompressBounds
      <4>3. Oldest >= 1
        BY <1>5, <2>2, <4>2 DEF MemInv, Faithful
      <4>4. Oldest + toCompress - 1 \in Nat /\ Oldest + toCompress - 1 <= Len(log)
        BY <2>1, <4>1, <4>3, CompressBounds DEF Oldest
      <4> QED BY <2>2, <2>3, <4>1, <4>4
    <3> QED BY <1>1, <2>1, <3>1, <3>2, CompressBounds DEF CompressSound
  <2> QED BY <1>3, <2>4, <2>5 DEF MemInv
<1> QED BY <1>4, <1>5

(* A compression is started on a full window, or overlaps another.         *)
LEMMA CheckKeeps ==
  ASSUME MemInv, NEW m \in Messages, NEW from,
         NEW to \in {"idle", "asked", "running", "answered", "over"}, CheckLength(m, from, to)
  PROVE  MemInv'
<1>1. turn' = [turn EXCEPT ![m[1]] = to] /\ UNCHANGED <<list, log>>
  BY DEF CheckLength
<1>2. CASE UNCHANGED <<comp, overlapped>>
  BY <1>1, <1>2 DEF MemInv, MemoryTypeOK, Faithful, CompressSound, Oldest
<1>3. CASE /\ Len(list) >= WindowSize /\ comp' = [comp EXCEPT ![m].at = "start"]
           /\ overlapped' = (overlapped \/ Running # {})
  <2>1. MemoryTypeOK'
    BY <1>1, <1>3 DEF MemInv, MemoryTypeOK
  <2>2. CASE overlapped'
    BY <2>1, <2>2 DEF MemInv
  <2>3. CASE ~overlapped'
    <3>1. ~overlapped /\ \A n \in Messages : comp[n].at = "none"
      BY <1>3, <2>3 DEF Running
    <3>2. \A n \in Messages : comp'[n].at = IF n = m THEN "start" ELSE "none"
      BY <1>3, <3>1 DEF MemInv, MemoryTypeOK
    <3>3. CompressSound'
      BY <1>1, <1>3, <3>2 DEF CompressSound
    <3>4. (list' = <<>> /\ log' = <<>>) \/ Faithful'
      BY <1>1, <3>1 DEF MemInv, Faithful, Oldest
    <3> QED BY <2>1, <3>3, <3>4 DEF MemInv
  <2> QED BY <2>2, <2>3
<1> QED BY <1>2, <1>3 DEF CheckLength

(* A turn that ends early.                                                 *)
LEMMA TurnEndKeeps ==
  ASSUME MemInv, NEW t \in Turns, TurnEnds(t)
  PROVE  MemInv'
BY DEF MemInv, MemoryTypeOK, Faithful, CompressSound, Oldest, TurnEnds

(* What the oldest items of a faithful list speak for.                     *)
LEMMA UnionOfOldest ==
  ASSUME MemoryTypeOK, Faithful, NEW n \in Nat, n >= 1, n <= Len(list)
  PROVE  UNION Prefix(list, n) = Prefix(log, Oldest + n - 1)
<1>1. Len(list) \in Nat /\ Len(log) \in Nat /\ Oldest \in Nat /\ Oldest >= 1
  BY DEF MemoryTypeOK, Faithful, Oldest
<1>2. list[1] = {log[i] : i \in 1 .. Oldest}
  BY DEF Faithful, Prefix
<1>3. ASSUME NEW x \in UNION Prefix(list, n) PROVE x \in Prefix(log, Oldest + n - 1)
  <2>1. PICK i \in 1 .. n : x \in list[i]
    BY <1>3 DEF Prefix
  <2>2. CASE i = 1
    <3>1. PICK j \in 1 .. Oldest : x = log[j]
      BY <1>2, <2>1, <2>2
    <3>2. j \in 1 .. (Oldest + n - 1)
      BY <1>1, <3>1
    <3> QED BY <3>1, <3>2 DEF Prefix
  <2>3. CASE i # 1
    <3>1. i \in 2 .. Len(list) /\ Oldest + i - 1 \in 1 .. (Oldest + n - 1)
      BY <1>1, <2>1, <2>3
    <3>2. x = log[Oldest + i - 1]
      BY <2>1, <3>1 DEF Faithful
    <3> QED BY <3>1, <3>2 DEF Prefix
  <2> QED BY <2>2, <2>3
<1>4. ASSUME NEW x \in Prefix(log, Oldest + n - 1) PROVE x \in UNION Prefix(list, n)
  <2>1. PICK j \in 1 .. (Oldest + n - 1) : x = log[j]
    BY <1>4 DEF Prefix
  <2>2. CASE j <= Oldest
    <3>1. x \in list[1] /\ 1 \in 1 .. n
      BY <1>1, <1>2, <2>1, <2>2
    <3> QED BY <3>1 DEF Prefix
  <2>3. CASE j > Oldest
    <3> DEFINE k == j - Oldest + 1
    <3>1. k \in 2 .. Len(list) /\ k \in 1 .. n /\ Oldest + k - 1 = j
      BY <1>1, <2>1, <2>3
    <3>2. x \in list[k]
      BY <2>1, <3>1 DEF Faithful
    <3> QED BY <3>1, <3>2 DEF Prefix
  <2> QED BY <1>1, <2>1, <2>2, <2>3
<1> QED BY <1>3, <1>4

(* A compression reads what it will replace.                               *)
LEMMA ReadKeeps ==
  ASSUME MemInv, NEW m \in Messages, ReadOldest(m)
  PROVE  MemInv'
<1> DEFINE n == IF Len(list) < toCompress THEN Len(list) ELSE toCompress
<1>1. /\ comp[m].at = "start" /\ UNCHANGED <<list, log, turn, overlapped>>
      /\ comp' = [comp EXCEPT ![m] = IF n = 0 THEN NoComp
                   ELSE [at |-> "llm", read |-> UNION Prefix(list, n)]]
  BY DEF ReadOldest
<1>2. list \in Seq(SUBSET Messages) /\ Len(list) \in Nat /\ n \in Nat /\ n <= Len(list)
  BY CompressBounds DEF MemInv, MemoryTypeOK
<1>3. UNION Prefix(list, n) \in SUBSET Messages
  <2>1. \A i \in 1 .. n : list[i] \in SUBSET Messages
    BY <1>2
  <2> HIDE DEF n
  <2> QED BY <2>1 DEF Prefix
<1>4. MemoryTypeOK'
  <2> HIDE DEF n
  <2> QED BY <1>1, <1>3 DEF MemInv, MemoryTypeOK, NoComp
<1>5. CASE overlapped
  BY <1>1, <1>4, <1>5 DEF MemInv
<1>6. CASE ~overlapped
  <2>1. CompressSound /\ Len(list) >= WindowSize
    BY <1>1, <1>6 DEF MemInv, CompressSound
  <2>2. n = toCompress /\ n # 0 /\ n >= 1 /\ list # <<>>
    BY <1>2, <2>1, CompressBounds
  <2>3. Faithful
    BY <1>6, <2>2 DEF MemInv
  <2>4. UNION Prefix(list, n) = Prefix(log, Oldest + n - 1)
    BY <1>2, <2>2, <2>3, UnionOfOldest DEF MemInv
  <2> HIDE DEF n
  <2>5. \A x \in Messages : comp'[x] = IF x = m
          THEN [at |-> "llm", read |-> UNION Prefix(list, n)] ELSE comp[x]
    BY <1>1, <2>2 DEF MemInv, MemoryTypeOK
  <2>6. Oldest' = Oldest /\ log' = log /\ list' = list
    BY <1>1 DEF Oldest
  <2>7. CompressSound'
    <3>1. \A x \in Messages : comp'[x].at = "none" <=> comp[x].at = "none"
      BY <1>1, <2>5
    <3>2. \A x \in Messages :
            comp'[x].at = "llm" => comp'[x].read = Prefix(log, Oldest + toCompress - 1)
      <4>1. comp'[m].read = Prefix(log, Oldest + toCompress - 1)
        <5>1. comp'[m].read = UNION Prefix(list, n)
          BY <2>5
        <5>2. n = toCompress
          BY <2>2
        <5> QED BY <2>4, <5>1, <5>2
      <4>2. \A x \in Messages \ {m} : comp'[x] = comp[x]
        BY <2>5
      <4> QED BY <2>1, <4>1, <4>2 DEF CompressSound
    <3> QED BY <2>1, <2>6, <3>1, <3>2 DEF CompressSound
  <2>8. Faithful'
    BY <2>3, <2>6 DEF Faithful
  <2> QED BY <1>4, <2>7, <2>8 DEF MemInv
<1> QED BY <1>5, <1>6

(* Giving up leaves the list alone.                                        *)
LEMMA CompressionFailsKeeps ==
  ASSUME MemInv, NEW m \in Messages, CompressionFails(m)
  PROVE  MemInv'
<1>1. UNCHANGED <<list, log, turn, overlapped>> /\ comp' = [comp EXCEPT ![m] = NoComp]
  BY DEF CompressionFails
<1>2. MemoryTypeOK'
  BY <1>1 DEF MemInv, MemoryTypeOK, NoComp
<1>3. \A x \in Messages : comp'[x] = comp[x] \/ comp'[x].at = "none"
  BY <1>1 DEF MemInv, MemoryTypeOK, NoComp
<1>4. CompressSound => CompressSound'
  BY <1>1, <1>3 DEF CompressSound, Oldest
<1> QED BY <1>1, <1>2, <1>4 DEF MemInv, Faithful, Oldest

(* The summary takes the place of exactly what it speaks for.              *)
LEMMA ReplaceKeeps ==
  ASSUME MemInv, NEW m \in Messages, ReplaceOldest(m)
  PROVE  MemInv'
<1>1. /\ comp[m].at = "llm" /\ UNCHANGED <<log, turn, overlapped>>
      /\ comp' = [comp EXCEPT ![m] = NoComp]
      /\ list' = <<comp[m].read>> \o SubSeq(list, toCompress + 1, Len(list))
  BY DEF ReplaceOldest
<1>2. list \in Seq(SUBSET Messages) /\ Len(list) \in Nat /\ comp[m].read \in SUBSET Messages
  BY DEF MemInv, MemoryTypeOK
<1>3. SubSeq(list, toCompress + 1, Len(list)) \in Seq(SUBSET Messages)
  BY <1>2, CompressBounds
<1>4. list' \in Seq(SUBSET Messages)
  BY <1>1, <1>2, <1>3
<1>5. MemoryTypeOK'
  BY <1>1, <1>4 DEF MemInv, MemoryTypeOK, NoComp
<1>6. CASE overlapped
  BY <1>1, <1>5, <1>6 DEF MemInv
<1>7. CASE ~overlapped
  <2>1. /\ Len(list) >= WindowSize /\ comp[m].read = Prefix(log, Oldest + toCompress - 1)
        /\ \A x \in Messages : comp[x].at # "none" => x = m
    BY <1>1, <1>7 DEF MemInv, CompressSound
  <2>2. Faithful
    BY <1>2, <1>7, <2>1, CompressBounds DEF MemInv
  <2>3. /\ Len(list') = Len(list) - toCompress + 1
        /\ list'[1] = comp[m].read
        /\ \A i \in 2 .. Len(list') : list'[i] = list[i + toCompress - 1]
    <3> DEFINE rest == SubSeq(list, toCompress + 1, Len(list))
    <3>1. /\ Len(rest) = Len(list) - toCompress
          /\ \A i \in 1 .. Len(rest) : rest[i] = list[i + toCompress]
      BY <1>2, <2>1, CompressBounds
    <3> HIDE DEF rest
    <3>2. rest \in Seq(SUBSET Messages) /\ list' = <<comp[m].read>> \o rest
      BY <1>1, <1>3 DEF rest
    <3>3. Len(list') = 1 + Len(rest) /\ list'[1] = comp[m].read
          /\ \A i \in 2 .. Len(list') : list'[i] = rest[i - 1] /\ i - 1 \in 1 .. Len(rest)
      BY <1>2, <3>2
    <3> QED BY <1>2, <3>1, <3>3, CompressBounds
  <2>4. Oldest' = Oldest + toCompress - 1 /\ Oldest \in Int /\ Len(log) \in Nat
    <3>1. Len(log) \in Nat /\ log' = log
      BY <1>1 DEF MemInv, MemoryTypeOK
    <3> QED BY <1>2, <2>3, <3>1, CompressBounds DEF Oldest
  <2>5. ASSUME NEW i \in 2 .. Len(list') PROVE list'[i] = {log'[Oldest' + i - 1]}
    <3>1. i + toCompress - 1 \in 2 .. Len(list)
      BY <1>2, <2>3, <2>5, CompressBounds
    <3>2. list'[i] = {log[Oldest + (i + toCompress - 1) - 1]}
      BY <2>2, <2>3, <3>1 DEF Faithful
    <3>3. Oldest + (i + toCompress - 1) - 1 = Oldest' + i - 1
      BY <2>4, CompressBounds
    <3> QED BY <1>1, <3>2, <3>3
  <2>6. Faithful'
    <3>1. Oldest' > 0
      BY <2>2, <2>4, CompressBounds DEF Faithful
    <3>2. list' # <<>>
      BY <1>2, <2>1, <2>3, CompressBounds
    <3>3. list'[1] = Prefix(log', Oldest')
      BY <1>1, <2>1, <2>3, <2>4
    <3> QED BY <2>5, <3>1, <3>2, <3>3 DEF Faithful
  <2>7. \A x \in Messages : comp'[x].at = "none"
    BY <1>1, <2>1 DEF MemInv, MemoryTypeOK, NoComp
  <2>8. CompressSound'
    BY <2>7 DEF CompressSound
  <2> QED BY <1>5, <2>6, <2>8 DEF MemInv
<1> QED BY <1>6, <1>7

(* A list expires when nothing is running.                                 *)
LEMMA ExpireKeeps == MemInv /\ Expire => MemInv'
<1> SUFFICES ASSUME MemInv, Expire PROVE MemInv'
  OBVIOUS
<1>1. list' = <<>> /\ log' = <<>> /\ UNCHANGED <<turn, comp, overlapped>>
  BY DEF Expire
<1>2. \A m \in Messages : comp[m].at = "none"
  BY DEF Expire, Running
<1>3. CompressSound'
  BY <1>1, <1>2 DEF CompressSound
<1>4. MemoryTypeOK'
  BY <1>1 DEF MemInv, MemoryTypeOK
<1> QED BY <1>1, <1>3, <1>4 DEF MemInv

(* Every step of turns and compressions keeps the invariant.               *)
LEMMA MemStep == MemInv /\ [MemoryNext]_memVars => MemInv'
<1> SUFFICES ASSUME MemInv, [MemoryNext]_memVars PROVE MemInv'
  OBVIOUS
<1>1. ASSUME NEW t \in Turns, AppendQuestion(t) \/ AppendAnswer(t) PROVE MemInv'
  BY <1>1, MessageTypes, AppendKeeps DEF AppendQuestion, AppendAnswer
<1>2. ASSUME NEW t \in Turns, CheckQuestion(t) \/ CheckAnswer(t) PROVE MemInv'
  BY <1>2, MessageTypes, CheckKeeps DEF CheckQuestion, CheckAnswer
<1>3. CASE UNCHANGED memVars
  BY <1>3 DEF memVars, MemInv, MemoryTypeOK, Faithful, CompressSound, Oldest
<1> QED BY <1>1, <1>2, <1>3, TurnEndKeeps, ReadKeeps, ReplaceKeeps, CompressionFailsKeeps,
           ExpireKeeps DEF MemoryNext

(* The memory is the whole conversation in order unless compressions       *)
(* overlapped, for any number of turns and any window.                     *)
THEOREM MemoryIsConversation == MemorySpec => []WindowIsConversation
<1>1. MemInv => WindowIsConversation
  BY DEF MemInv, WindowIsConversation, Faithful, Oldest
<1> QED BY <1>1, MemStart, MemStep, PTL DEF MemorySpec

----------------------------------------------------------------------------
(* AgentRun: the middleware's bounds.                                      *)

(* The variables of the rate limit.                                        *)
LimitTypes ==
  /\ now \in Nat /\ stamp \in [Asks -> Nat \cup {-1}]
  /\ zset \in SUBSET Nat /\ IsFiniteSet(zset)
  /\ expires \in Nat /\ admitted \in SUBSET (Nat \X Nat)

(* No stamp on its way to Redis is older than MaxDelay.                    *)
StampSound == \A q \in Asks : stamp[q] # -1 => stamp[q] <= now /\ now - stamp[q] <= MaxDelay

(* What was let through is counted for a whole window after its stamp: no  *)
(* script has dropped it and the key has not expired.                      *)
Counted(a) ==
  /\ a[1] <= a[2] /\ a[2] <= now /\ a[2] - a[1] <= MaxDelay
  /\ expires >= a[2] + RateWindow
  /\ a[1] > now - RateWindow => a[1] \in zset

LimitInv == LimitTypes /\ StampSound /\ (\A a \in admitted : Counted(a)) /\ RateBounded

(* The stamps RateBounded counts for one admission.                        *)
Recent(adm, t) == {a[1] : a \in {b \in adm : b[2] <= t /\ b[2] > t - (RateWindow - MaxDelay)}}

(* At the start nobody was let through.                                    *)
LEMMA LimitStart == RunInit => LimitInv
<1> SUFFICES ASSUME RunInit PROVE LimitInv
  OBVIOUS
<1>1. LimitTypes
  BY FS_EmptySet DEF RunInit, LimitTypes
<1>2. StampSound
  BY DEF RunInit, StampSound
<1> QED BY <1>1, <1>2 DEF RunInit, LimitInv, RateBounded

(* A new stamp is the time itself.                                         *)
LEMMA StampKeeps ==
  ASSUME LimitInv, NEW q \in Asks, BeforeAgent(q)
  PROVE  LimitInv'
<1>1. stamp' = [stamp EXCEPT ![q] = now] /\ UNCHANGED <<now, zset, expires, admitted>>
  BY DEF BeforeAgent
<1>2. LimitTypes'
  BY <1>1 DEF LimitInv, LimitTypes
<1>3. StampSound'
  BY <1>1, AgentRunAssumption DEF LimitInv, LimitTypes, StampSound
<1>4. (\A a \in admitted : Counted(a))' /\ RateBounded'
  BY <1>1 DEF LimitInv, Counted, RateBounded
<1> QED BY <1>2, <1>3, <1>4 DEF LimitInv

(* Time lets go of stamps, never the other way.                            *)
LEMMA TimeKeeps == LimitInv /\ TimePasses => LimitInv'
<1> SUFFICES ASSUME LimitInv, TimePasses PROVE LimitInv'
  OBVIOUS
<1>1. /\ now' = now + 1 /\ UNCHANGED <<stamp, zset, expires, admitted>>
      /\ \A q \in Asks : stamp[q] # -1 => now' - stamp[q] <= MaxDelay
  BY DEF TimePasses
<1>2. LimitTypes'
  BY <1>1 DEF LimitInv, LimitTypes
<1>3. StampSound'
  BY <1>1, AgentRunAssumption DEF LimitInv, LimitTypes, StampSound
<1>4. ASSUME NEW a \in admitted PROVE Counted(a)'
  <2>1. a \in Nat \X Nat /\ Counted(a) /\ now \in Nat
    BY DEF LimitInv, LimitTypes
  <2> QED BY <1>1, <2>1, AgentRunAssumption DEF Counted
<1>5. RateBounded'
  BY <1>1 DEF LimitInv, RateBounded
<1> QED BY <1>1, <1>2, <1>3, <1>4, <1>5 DEF LimitInv

(* The script: whatever was let through within a window, less the delay,   *)
(* is among the members it counts.                                         *)
LEMMA ScriptKeeps ==
  ASSUME LimitInv, NEW q \in Asks, rateLimitLua(q)
  PROVE  LimitInv'
<1> DEFINE live == IF now < expires THEN zset ELSE {}
           kept == {s \in live : s > stamp[q] - RateWindow}
<1>1. /\ stamp[q] # -1 /\ stamp' = [stamp EXCEPT ![q] = -1] /\ now' = now
      /\ \/ /\ Admits(kept) /\ zset' = kept \cup {stamp[q]} /\ expires' = now + RateWindow
            /\ admitted' = admitted \cup {<<stamp[q], now>>}
         \/ zset' = kept /\ UNCHANGED <<expires, admitted>>
  BY DEF rateLimitLua
<1>2. /\ now \in Nat /\ expires \in Nat /\ zset \in SUBSET Nat /\ IsFiniteSet(zset)
      /\ stamp[q] \in Nat /\ stamp[q] <= now /\ now - stamp[q] <= MaxDelay
      /\ admitted \in SUBSET (Nat \X Nat)
  BY <1>1 DEF LimitInv, LimitTypes, StampSound
<1>3. RateWindow \in Nat /\ MaxDelay \in Nat /\ MaxDelay <= RateWindow /\ RateLimit \in Nat \ {0}
  BY AgentRunAssumption
<1>4. kept \in SUBSET zset /\ IsFiniteSet(kept) /\ Cardinality(kept) \in Nat
  <2>1. kept \in SUBSET zset
    OBVIOUS
  <2> HIDE DEF kept
  <2>2. IsFiniteSet(kept)
    BY <1>2, <2>1, FS_Subset
  <2> QED BY <2>1, <2>2, FS_CardinalityType
<1>5. ASSUME NEW a \in admitted, a[1] > now - RateWindow PROVE a[1] \in kept
  <2>1. a \in Nat \X Nat /\ Counted(a)
    BY <1>2 DEF LimitInv
  <2>2. a[1] \in zset /\ now < expires
    BY <1>2, <1>3, <1>5, <2>1 DEF Counted
  <2>3. a[1] > stamp[q] - RateWindow
    BY <1>2, <1>3, <1>5, <2>1
  <2> QED BY <2>2, <2>3
<1> HIDE DEF kept
<1>6. StampSound'
  <2>1. \A p \in Asks : stamp'[p] = IF p = q THEN -1 ELSE stamp[p]
    BY <1>1 DEF LimitInv, LimitTypes
  <2> QED BY <1>1, <2>1 DEF LimitInv, StampSound
<1>7. stamp' \in [Asks -> Nat \cup {-1}]
  BY <1>1 DEF LimitInv, LimitTypes
<1>8. CASE zset' = kept /\ UNCHANGED <<expires, admitted>>
  <2>1. LimitTypes'
    BY <1>1, <1>2, <1>4, <1>7, <1>8 DEF LimitTypes
  <2>2. \A a \in admitted : Counted(a)'
    BY <1>1, <1>5, <1>8 DEF LimitInv, Counted
  <2>3. RateBounded'
    BY <1>8 DEF LimitInv, RateBounded
  <2> QED BY <1>6, <1>8, <2>1, <2>2, <2>3 DEF LimitInv
<1>9. CASE /\ Admits(kept) /\ zset' = kept \cup {stamp[q]} /\ expires' = now + RateWindow
           /\ admitted' = admitted \cup {<<stamp[q], now>>}
  <2>1. /\ IsFiniteSet(kept \cup {stamp[q]}) /\ Cardinality(kept \cup {stamp[q]}) \in Nat
        /\ Cardinality(kept \cup {stamp[q]}) <= RateLimit
    <3>1. /\ IsFiniteSet(kept \cup {stamp[q]})
          /\ Cardinality(kept \cup {stamp[q]}) =
               IF stamp[q] \in kept THEN Cardinality(kept) ELSE Cardinality(kept) + 1
      BY <1>4, FS_AddElement
    <3> QED BY <1>3, <1>4, <1>9, <3>1 DEF Admits
  <2>2. LimitTypes'
    <3>1. zset' \in SUBSET Nat /\ IsFiniteSet(zset')
      BY <1>2, <1>4, <1>9, <2>1
    <3>2. admitted' \in SUBSET (Nat \X Nat)
      BY <1>2, <1>9
    <3>3. expires' \in Nat /\ now' \in Nat
      BY <1>1, <1>2, <1>3, <1>9
    <3> QED BY <1>7, <3>1, <3>2, <3>3 DEF LimitTypes
  <2>3. ASSUME NEW a \in admitted' PROVE Counted(a)'
    <3>1. CASE a = <<stamp[q], now>>
      BY <1>1, <1>2, <1>3, <1>9, <3>1 DEF Counted
    <3>2. CASE a \in admitted
      <4>1. a \in Nat \X Nat /\ Counted(a)
        BY <1>2, <3>2 DEF LimitInv
      <4> QED BY <1>1, <1>2, <1>3, <1>5, <1>9, <3>2, <4>1 DEF Counted
    <3> QED BY <1>9, <2>3, <3>1, <3>2
  <2>4. ASSUME NEW last \in admitted' PROVE Cardinality(Recent(admitted', last[2])) <= RateLimit
    <3>1. CASE last[2] = now
      <4>1. Recent(admitted', now) \in SUBSET (kept \cup {stamp[q]})
        <5> SUFFICES ASSUME NEW a \in admitted', a[2] > now - (RateWindow - MaxDelay)
                     PROVE  a[1] \in kept \cup {stamp[q]}
          BY DEF Recent
        <5>1. CASE a \in admitted
          <6>1. a \in Nat \X Nat /\ Counted(a)
            BY <1>2, <5>1 DEF LimitInv
          <6>2. a[1] > now - RateWindow
            BY <1>2, <1>3, <6>1 DEF Counted
          <6> QED BY <1>5, <5>1, <6>2
        <5> QED BY <1>9, <5>1
      <4>2. /\ Cardinality(Recent(admitted', now)) <= Cardinality(kept \cup {stamp[q]})
            /\ Cardinality(Recent(admitted', now)) \in Nat
        BY <2>1, <4>1, FS_Subset, FS_CardinalityType
      <4> QED BY <1>3, <2>1, <3>1, <4>2
    <3>2. CASE last[2] # now
      <4>1. last \in admitted /\ last \in Nat \X Nat /\ last[2] <= now
        BY <1>2, <1>9, <2>4, <3>2 DEF LimitInv, Counted
      <4>2. Recent(admitted', last[2]) = Recent(admitted, last[2])
        <5>1. \A b \in admitted' : b[2] <= last[2] => b \in admitted
          BY <1>2, <1>9, <3>2, <4>1
        <5>2. admitted \subseteq admitted'
          BY <1>9
        <5>3. {b \in admitted' : b[2] <= last[2] /\ b[2] > last[2] - (RateWindow - MaxDelay)}
              = {b \in admitted : b[2] <= last[2] /\ b[2] > last[2] - (RateWindow - MaxDelay)}
          BY <5>1, <5>2
        <5> QED BY <5>3 DEF Recent
      <4>3. Cardinality(Recent(admitted, last[2])) <= RateLimit
        BY <4>1 DEF LimitInv, RateBounded, Recent
      <4> QED BY <4>2, <4>3
    <3> QED BY <3>1, <3>2
  <2>5. RateBounded'
    BY <2>4 DEF RateBounded, Recent
  <2> QED BY <1>6, <2>2, <2>3, <2>5 DEF LimitInv
<1> QED BY <1>1, <1>8, <1>9

(* The steps of an answer do not touch the limit.                          *)
LEMMA LimitFrame == LimitInv /\ UNCHANGED limitVars => LimitInv'
BY DEF LimitInv, limitVars, LimitTypes, StampSound, Counted, RateBounded

(* A message of an answer, and the variables of one.                       *)
Msg == [role : {"assistant", "tool"}, text : BOOLEAN, tool : ToolNames \cup {""},
        injected : BOOLEAN, whole : BOOLEAN]
AnswerTypes ==
  /\ state \in {"model", "tools", "done"} /\ msgs \in Seq(Msg) /\ unanswered \in SUBSET ToolNames
  /\ injected \in BOOLEAN /\ turns \in Nat /\ retries \in Nat

(* The indices countRecentContinues counts, and those that ContinueBounded *)
(* counts between i and j.                                                 *)
RecentContinues(s) ==
  {i \in 1 .. Len(s) :
    /\ IsContinue(s[i])
    /\ \A j \in i .. Len(s) : IsContinue(s[j]) \/ s[j].role = "assistant"}
Continued(s, i, j) == {k \in i .. j : IsContinue(s[k]) /\ s[k].injected}
Unbroken(s, i, j) == \A k \in i .. j : IsContinue(s[k]) \/ s[k].role = "assistant"
Bounded(s) ==
  \A i, j \in 1 .. Len(s) : Unbroken(s, i, j) => Cardinality(Continued(s, i, j)) <= MaxContinue
Whole(s) ==
  \A i \in 1 .. Len(s) :
    ~s[i].whole => /\ s[i].role = "tool" /\ s[i].tool \in noisyPrefixes
                   /\ \E j \in i + 1 .. Len(s) : IsText(s[j])

(* A call AutoContinueMiddleware added is the only one, and there is room  *)
(* for its result.                                                         *)
RoomLeft ==
  injected /\ unanswered # {} =>
    unanswered = {"continue_output"} /\ Cardinality(RecentContinues(msgs)) < MaxContinue

AnswerInv == AnswerTypes /\ Bounded(msgs) /\ Whole(msgs) /\ RoomLeft

(* Two conversations that differ in what was omitted.                      *)
SameTalk(s, r) ==
  /\ Len(s) = Len(r)
  /\ \A i \in 1 .. Len(s) : /\ s[i].role = r[i].role /\ s[i].tool = r[i].tool
                            /\ s[i].text = r[i].text /\ s[i].injected = r[i].injected

(* Trimming changes nothing but what is omitted.                           *)
LEMMA TrimSame ==
  ASSUME NEW s \in Seq(Msg)
  PROVE  /\ TrimResult(s) \in Seq(Msg) /\ SameTalk(TrimResult(s), s)
         /\ Whole(s) => Whole(TrimResult(s))
<1>1. Len(s) \in Nat /\ \A i \in 1 .. Len(s) : s[i] \in Msg
  OBVIOUS
<1>2. TrimResult(s) \in [1 .. Len(s) -> Msg]
  BY <1>1 DEF TrimResult, Msg
<1>3. TrimResult(s) \in Seq(Msg) /\ Len(TrimResult(s)) = Len(s)
  BY <1>1, <1>2, SeqDef
<1>4. \A i \in 1 .. Len(s) :
        /\ TrimResult(s)[i].role = s[i].role /\ TrimResult(s)[i].tool = s[i].tool
        /\ TrimResult(s)[i].text = s[i].text /\ TrimResult(s)[i].injected = s[i].injected
  BY <1>1 DEF TrimResult, Msg
<1>5. \A i \in 1 .. Len(s) :
        TrimResult(s)[i].whole = s[i].whole
        \/ (/\ s[i].role = "tool" /\ s[i].tool \in noisyPrefixes
            /\ \E j \in i + 1 .. Len(s) : IsText(s[j]))
  BY <1>1 DEF TrimResult, Msg
<1>6. ASSUME Whole(s), NEW i \in 1 .. Len(TrimResult(s)), ~TrimResult(s)[i].whole
      PROVE  /\ TrimResult(s)[i].role = "tool" /\ TrimResult(s)[i].tool \in noisyPrefixes
             /\ \E j \in i + 1 .. Len(TrimResult(s)) : IsText(TrimResult(s)[j])
  <2>1. i \in 1 .. Len(s)
    BY <1>3
  <2>2. /\ s[i].role = "tool" /\ s[i].tool \in noisyPrefixes
        /\ \E j \in i + 1 .. Len(s) : IsText(s[j])
    BY <1>5, <1>6, <2>1 DEF Whole
  <2>3. \A j \in i + 1 .. Len(s) : IsText(TrimResult(s)[j]) <=> IsText(s[j])
    BY <1>1, <1>4, <2>1 DEF IsText
  <2> QED BY <1>3, <1>4, <2>1, <2>2, <2>3
<1> QED BY <1>3, <1>4, <1>6 DEF SameTalk, Whole

(* The bound does not look at what is omitted.                             *)
LEMMA BoundedSame ==
  ASSUME NEW s, NEW r, SameTalk(s, r), Bounded(r), Len(r) \in Nat
  PROVE  Bounded(s)
<1> SUFFICES ASSUME NEW i \in 1 .. Len(s), NEW j \in 1 .. Len(s), Unbroken(s, i, j)
             PROVE  Cardinality(Continued(s, i, j)) <= MaxContinue
  BY DEF Bounded
<1>1. i \in 1 .. Len(r) /\ j \in 1 .. Len(r) /\ \A k \in i .. j : k \in 1 .. Len(s)
  BY DEF SameTalk
<1>2. \A k \in i .. j : /\ s[k].role = r[k].role /\ s[k].injected = r[k].injected
                        /\ IsContinue(s[k]) <=> IsContinue(r[k])
  BY <1>1 DEF SameTalk, IsContinue
<1>3. Unbroken(r, i, j) /\ Continued(r, i, j) = Continued(s, i, j)
  BY <1>2 DEF Unbroken, Continued
<1> QED BY <1>1, <1>3 DEF Bounded

(* What is counted is finite.                                              *)
LEMMA CountsFinite ==
  ASSUME NEW s, Len(s) \in Nat, NEW i \in Int, NEW j \in Int
  PROVE  /\ IsFiniteSet(Continued(s, i, j)) /\ Cardinality(Continued(s, i, j)) \in Nat
         /\ IsFiniteSet(RecentContinues(s)) /\ Cardinality(RecentContinues(s)) \in Nat
<1>1. IsFiniteSet(i .. j) /\ IsFiniteSet(1 .. Len(s))
  BY FS_Interval
<1>2. Continued(s, i, j) \in SUBSET (i .. j) /\ RecentContinues(s) \in SUBSET (1 .. Len(s))
  BY DEF Continued, RecentContinues
<1>3. IsFiniteSet(Continued(s, i, j)) /\ IsFiniteSet(RecentContinues(s))
  BY <1>1, <1>2, FS_Subset
<1> QED BY <1>3, FS_CardinalityType

(* One more message: the bound holds if it is no continuation that was     *)
(* added, or if fewer have just been answered.                             *)
LEMMA BoundedAppend ==
  ASSUME NEW s \in Seq(Msg), NEW m \in Msg, Bounded(s),
         IsContinue(m) /\ m.injected => Cardinality(RecentContinues(s)) < MaxContinue
  PROVE  Bounded(Append(s, m))
<1> DEFINE r == Append(s, m)
           n == Len(s) + 1
<1>1. /\ Len(s) \in Nat /\ Len(r) = n /\ r[n] = m
      /\ \A k \in 1 .. Len(s) : r[k] = s[k]
  OBVIOUS
<1> HIDE DEF r
<1> SUFFICES ASSUME NEW i \in 1 .. Len(r), NEW j \in 1 .. Len(r), Unbroken(r, i, j)
             PROVE  Cardinality(Continued(r, i, j)) <= MaxContinue
  BY DEF Bounded, r
<1>2. MaxContinue \in Nat
  BY AgentRunAssumption
<1>3. CASE j <= Len(s) /\ i <= Len(s)
  <2>1. i \in 1 .. Len(s) /\ j \in 1 .. Len(s) /\ \A k \in i .. j : r[k] = s[k]
    BY <1>1, <1>3
  <2>2. Unbroken(s, i, j) /\ Continued(s, i, j) = Continued(r, i, j)
    BY <2>1 DEF Unbroken, Continued
  <2> QED BY <2>1, <2>2 DEF Bounded
<1>4. CASE i = n /\ j <= Len(s)
  <2>1. Continued(r, i, j) = {}
    BY <1>1, <1>4 DEF Continued
  <2> QED BY <1>2, <2>1, FS_EmptySet
<1>5. CASE j = n
  <2>1. Continued(r, i, j) = Continued(s, i, Len(s)) \cup
          IF IsContinue(m) /\ m.injected THEN {n} ELSE {}
    <3>1. \A k \in i .. j : k \in i .. Len(s) \/ k = n
      BY <1>1, <1>5
    <3>2. \A k \in i .. Len(s) : k \in i .. j /\ r[k] = s[k]
      BY <1>1, <1>5
    <3>3. n \in i .. j
      BY <1>1, <1>5
    <3> QED BY <1>1, <3>1, <3>2, <3>3 DEF Continued
  <2>2. Unbroken(s, i, Len(s))
    <3>1. \A k \in i .. Len(s) : k \in i .. j /\ r[k] = s[k]
      BY <1>1, <1>5
    <3> QED BY <3>1 DEF Unbroken
  <2>3. Cardinality(Continued(s, i, Len(s))) <= MaxContinue
    <3>1. CASE i = n
      <4>1. Continued(s, i, Len(s)) = {}
        BY <1>1, <3>1 DEF Continued
      <4> QED BY <1>2, <4>1, FS_EmptySet
    <3>2. CASE i <= Len(s)
      <4>1. i \in 1 .. Len(s) /\ Len(s) \in 1 .. Len(s)
        BY <1>1, <3>2
      <4> QED BY <2>2, <4>1 DEF Bounded
    <3> QED BY <1>1, <3>1, <3>2
  <2>4. /\ IsFiniteSet(Continued(s, i, Len(s))) /\ Cardinality(Continued(s, i, Len(s))) \in Nat
        /\ IsFiniteSet(RecentContinues(s)) /\ Cardinality(RecentContinues(s)) \in Nat
    BY <1>1, CountsFinite
  <2>5. CASE IsContinue(m) /\ m.injected
    <3>1. Continued(s, i, Len(s)) \in SUBSET RecentContinues(s)
      <4> SUFFICES ASSUME NEW k \in i .. Len(s), IsContinue(s[k])
                   PROVE  k \in RecentContinues(s)
        BY DEF Continued
      <4>1. k \in 1 .. Len(s) /\ \A l \in k .. Len(s) : l \in i .. Len(s)
        BY <1>1
      <4> QED BY <2>2, <4>1 DEF RecentContinues, Unbroken
    <3>2. Cardinality(Continued(s, i, Len(s))) <= Cardinality(RecentContinues(s))
      BY <2>4, <3>1, FS_Subset
    <3>3. Cardinality(Continued(s, i, Len(s)) \cup {n}) <= Cardinality(Continued(s, i, Len(s))) + 1
      <4>1. Cardinality(Continued(s, i, Len(s)) \cup {n}) = IF n \in Continued(s, i, Len(s))
              THEN Cardinality(Continued(s, i, Len(s))) ELSE Cardinality(Continued(s, i, Len(s))) + 1
        BY <2>4, FS_AddElement
      <4> QED BY <2>4, <4>1
    <3>4. Cardinality(Continued(s, i, Len(s)) \cup {n}) \in Nat
      BY <2>4, FS_AddElement, FS_CardinalityType
    <3>5. Continued(r, i, j) = Continued(s, i, Len(s)) \cup {n}
      BY <2>1, <2>5
    <3> QED BY <1>2, <2>4, <2>5, <3>2, <3>3, <3>4, <3>5
  <2>6. CASE ~(IsContinue(m) /\ m.injected)
    <3>1. Continued(r, i, j) = Continued(s, i, Len(s))
      BY <2>1, <2>6
    <3> QED BY <2>3, <3>1
  <2> QED BY <2>5, <2>6
<1> QED BY <1>1, <1>3, <1>4, <1>5

(* One more message omits nothing.                                         *)
LEMMA WholeAppend ==
  ASSUME NEW s \in Seq(Msg), NEW m \in Msg, Whole(s), m.whole
  PROVE  Whole(Append(s, m))
<1> DEFINE r == Append(s, m)
<1>1. /\ Len(s) \in Nat /\ Len(r) = Len(s) + 1 /\ r[Len(s) + 1] = m
      /\ \A k \in 1 .. Len(s) : r[k] = s[k]
  OBVIOUS
<1> HIDE DEF r
<1> SUFFICES ASSUME NEW i \in 1 .. Len(r), ~r[i].whole
             PROVE  /\ r[i].role = "tool" /\ r[i].tool \in noisyPrefixes
                    /\ \E j \in i + 1 .. Len(r) : IsText(r[j])
  BY DEF Whole, r
<1>2. i \in 1 .. Len(s) /\ r[i] = s[i]
  BY <1>1
<1>3. s[i].role = "tool" /\ s[i].tool \in noisyPrefixes
  BY <1>2 DEF Whole
<1>4. PICK j \in i + 1 .. Len(s) : IsText(s[j])
  BY <1>2 DEF Whole
<1>5. j \in i + 1 .. Len(r) /\ r[j] = s[j]
  BY <1>1, <1>2, <1>4
<1> QED BY <1>2, <1>3, <1>4, <1>5

(* At the start there is no message.                                       *)
LEMMA AnswerStart == RunInit => AnswerInv
<1> SUFFICES ASSUME RunInit PROVE AnswerInv
  OBVIOUS
<1>1. msgs = <<>> /\ msgs \in Seq(Msg) /\ Len(msgs) = 0
  BY DEF RunInit
<1>2. AnswerTypes
  BY <1>1 DEF RunInit, AnswerTypes
<1>3. Bounded(msgs) /\ Whole(msgs)
  BY <1>1 DEF Bounded, Whole
<1> QED BY <1>2, <1>3 DEF AnswerInv, RoomLeft, RunInit

(* The model's turn, on the trimmed messages.                              *)
LEMMA ModelKeeps ==
  ASSUME AnswerInv, NEW text \in BOOLEAN, NEW cut \in BOOLEAN, NEW c \in SUBSET ToolNames,
         ModelAnswers(text, c, cut)
  PROVE  AnswerInv'
<1> DEFINE s == Append(TrimResult(msgs), Assistant(text))
           go == cut /\ c = {} /\ countRecentContinues(s) < MaxContinue
<1>1. /\ turns' = turns + 1 /\ retries' = 0 /\ msgs' = s /\ injected' = go
      /\ unanswered' = (IF go THEN {"continue_output"} ELSE c)
      /\ state' = (IF unanswered' = {} THEN "done" ELSE "tools")
  BY DEF ModelAnswers
<1>2. msgs \in Seq(Msg) /\ Len(msgs) \in Nat
  BY DEF AnswerInv, AnswerTypes
<1>3. Assistant(text) \in Msg /\ ~IsContinue(Assistant(text)) /\ Assistant(text).whole
  BY DEF Assistant, Msg, IsContinue
<1>4. TrimResult(msgs) \in Seq(Msg) /\ Bounded(TrimResult(msgs)) /\ Whole(TrimResult(msgs))
  BY <1>2, TrimSame, BoundedSame DEF AnswerInv
<1>5. s \in Seq(Msg)
  BY <1>3, <1>4
<1>6. Bounded(s) /\ Whole(s)
  BY <1>3, <1>4, BoundedAppend, WholeAppend
<1>7. countRecentContinues(s) = Cardinality(RecentContinues(s))
  BY DEF countRecentContinues, RecentContinues
<1> HIDE DEF s
<1>8. RoomLeft'
  BY <1>1, <1>7 DEF RoomLeft
<1>9. AnswerTypes'
  <2>1. go \in BOOLEAN /\ {"continue_output"} \in SUBSET ToolNames
    BY DEF ToolNames
  <2> HIDE DEF go
  <2> QED BY <1>1, <1>5, <2>1 DEF AnswerInv, AnswerTypes
<1> QED BY <1>1, <1>6, <1>8, <1>9 DEF AnswerInv

(* A failed call of the model changes no message.                          *)
LEMMA ModelFailsKeeps ==
  ASSUME AnswerInv, NEW throttled \in BOOLEAN, ModelFails(throttled)
  PROVE  AnswerInv'
BY DEF AnswerInv, AnswerTypes, RoomLeft, ModelFails

(* The result of a tool, the model's own call or the one that was added.   *)
LEMMA ToolKeeps ==
  ASSUME AnswerInv, NEW t \in unanswered, ToolAnswers(t)
  PROVE  AnswerInv'
<1>1. /\ unanswered' = unanswered \ {t} /\ msgs' = Append(msgs, Result(t))
      /\ state' \in {"model", state} /\ UNCHANGED <<injected, turns, retries>>
  BY DEF ToolAnswers
<1>2. t \in ToolNames /\ msgs \in Seq(Msg) /\ injected \in BOOLEAN
  BY DEF AnswerInv, AnswerTypes
<1>3. Result(t) \in Msg /\ Result(t).injected = injected /\ Result(t).whole
  BY <1>2 DEF Result, Msg
<1>4. injected => unanswered = {t} /\ Cardinality(RecentContinues(msgs)) < MaxContinue
  BY DEF AnswerInv, RoomLeft
<1>5. Bounded(msgs') /\ Whole(msgs')
  BY <1>1, <1>2, <1>3, <1>4, BoundedAppend, WholeAppend DEF AnswerInv
<1>6. RoomLeft'
  BY <1>1, <1>4 DEF RoomLeft
<1>7. AnswerTypes'
  BY <1>1, <1>2, <1>3 DEF AnswerInv, AnswerTypes
<1> QED BY <1>1, <1>5, <1>6, <1>7 DEF AnswerInv

(* The steps of the limit do not touch an answer.                          *)
LEMMA AnswerFrame == AnswerInv /\ UNCHANGED answerVars => AnswerInv'
BY DEF AnswerInv, answerVars, AnswerTypes, RoomLeft

(* Every step keeps both invariants.                                       *)
LEMMA RunStep ==
  LimitInv /\ AnswerInv /\ [LimitNext \/ AnswerNext]_runVars => LimitInv' /\ AnswerInv'
<1> SUFFICES ASSUME LimitInv, AnswerInv, [LimitNext \/ AnswerNext]_runVars
             PROVE  LimitInv' /\ AnswerInv'
  OBVIOUS
<1>1. CASE LimitNext
  <2>1. UNCHANGED answerVars
    BY <1>1 DEF LimitNext, TimePasses, BeforeAgent, rateLimitLua
  <2> QED BY <1>1, <2>1, AnswerFrame, StampKeeps, TimeKeeps, ScriptKeeps DEF LimitNext
<1>2. CASE AnswerNext
  <2>1. UNCHANGED limitVars
    BY <1>2 DEF AnswerNext, ModelAnswers, ModelFails, ToolAnswers
  <2> QED BY <1>2, <2>1, LimitFrame, ModelKeeps, ModelFailsKeeps, ToolKeeps DEF AnswerNext
<1>3. CASE UNCHANGED runVars
  BY <1>3, LimitFrame, AnswerFrame DEF runVars
<1> QED BY <1>1, <1>2, <1>3

(* The rate limit, the bound on continuations and what the model still     *)
(* sees, for any limits and any number of requests and turns.              *)
THEOREM MiddlewareBounds == RunSpec => []AnswerBounded
<1>1. LimitInv /\ AnswerInv => AnswerBounded
  <2>1. Bounded(msgs) => ContinueBounded
    BY DEF Bounded, ContinueBounded, Unbroken, Continued
  <2>2. Whole(msgs) => UnansweredKept
    BY DEF Whole, UnansweredKept
  <2> QED BY <2>1, <2>2 DEF LimitInv, AnswerInv, AnswerBounded
<1> QED BY <1>1, LimitStart, AnswerStart, RunStep, PTL DEF RunSpec

----------------------------------------------------------------------------
(* Documents: chunks and batches.                                          *)

Chunks == [from : Int, to : Int]

DocTypes ==
  /\ runes \in Nat /\ setting \in Int \X Int
  /\ phase \in {"received", "cut", "store", "ok", "failed"}
  /\ start \in Nat /\ chunks \in Seq(Chunks)
  /\ stored \in 0 .. Len(chunks)

(* Where the loop of Chunk is: what it has cut so far is covered, and the  *)
(* next chunk begins the overlap before the end of the last one.           *)
CutSound ==
  /\ Len(chunks) = 0 => start = 0
  /\ Len(chunks) > 0 =>
       /\ start = chunks[Len(chunks)].to - Shared
       /\ chunks[Len(chunks)].to < runes
  /\ runes > 0

(* What is covered: everything before the end of the last chunk.           *)
CutCovers ==
  \A r \in 0 .. runes - 1 :
    Len(chunks) > 0 /\ r < chunks[Len(chunks)].to => Covered(r, Len(chunks))

(* The inductive invariant of Documents.                                   *)
DocInv ==
  /\ DocTypes /\ ChunksSound /\ CutCovers
  /\ phase = "received" => Len(chunks) = 0 /\ start = 0
  /\ phase = "cut" => CutSound
  /\ phase \in {"store", "ok"} => Len(chunks) > 0 /\ chunks[Len(chunks)].to = runes
  /\ phase \in {"received", "cut"} => stored = 0
  /\ phase = "ok" => stored = Len(chunks)
  /\ stored = Len(chunks) \/ \E b \in 0 .. stored : stored = b * StoreBatch

(* The numbers of NewFixedSizeChunker: the loop moves on, by what is left  *)
(* of a chunk behind the part its neighbour shares with it.                *)
LEMMA ChunkerNumbers ==
  ASSUME DocTypes
  PROVE  /\ ChunkSize \in Nat \ {0} /\ Step \in Nat \ {0}
         /\ Shared \in Nat /\ Step = ChunkSize - Shared
<1>1. setting[1] \in Int /\ setting[2] \in Int
  BY DEF DocTypes
<1> QED BY <1>1 DEF ChunkSize, ChunkOverlap, Step, Shared

(* A number of whole batches and one more.                                 *)
LEMMA OneMoreBatch ==
  ASSUME NEW b \in Nat, NEW k \in Nat \ {0}
  PROVE  b * k + k = (b + 1) * k /\ b + 1 \in 0 .. (b * k + k)
<1>1. b * k \in Nat /\ b * k >= b
  <2>1. b * k = b * (k - 1) + b /\ k - 1 \in Nat
    OBVIOUS
  <2>2. b * (k - 1) \in Nat
    BY <2>1
  <2> QED BY <2>1, <2>2
<1> QED BY <1>1

(* Nothing has been cut when the file is read.                             *)
LEMMA DocReadFile ==
  ASSUME DocInv, ReadFile
  PROVE  DocInv'
<1> USE DEF DocInv, ReadFile
<1>1. DocTypes'
  BY DEF DocTypes
<1>2. ChunksSound' /\ CutCovers'
  BY DEF ChunksSound, CutCovers, Covered, Shared, ChunkSize, ChunkOverlap
<1>3. (phase = "cut" => CutSound)'
  BY DEF CutSound, DocTypes
<1> QED BY <1>1, <1>2, <1>3

(* A round adds a chunk that ends behind the last one, or ends the loop.   *)
LEMMA DocChunkRound ==
  ASSUME DocInv, ChunkRound
  PROVE  DocInv'
<1> DEFINE size == ChunkSize
           end == IF start + ChunkSize > runes THEN runes ELSE start + ChunkSize
           c == [from |-> start, to |-> end]
           n == Len(chunks)
<1>1. /\ size \in Nat \ {0} /\ Step \in Nat \ {0} /\ Shared \in Nat /\ Step = size - Shared
      /\ runes \in Nat /\ start \in Nat /\ chunks \in Seq(Chunks) /\ n \in Nat
  BY ChunkerNumbers DEF DocInv, DocTypes
<1>2. /\ phase = "cut" /\ runes > size /\ CutSound /\ stored = 0 /\ runes > 0
      /\ chunks' = Append(chunks, c) /\ start' = start + Step
      /\ phase' = IF end = runes \/ start + Step >= runes THEN "store" ELSE "cut"
      /\ runes' = runes /\ setting' = setting /\ stored' = stored
  BY DEF DocInv, ChunkRound, CutSound
<1>3. /\ size' = size /\ Shared' = Shared
  BY <1>2 DEF ChunkSize, ChunkOverlap, Shared
<1>4. start < runes
  <2>1. CASE n = 0
    BY <1>2, <2>1 DEF CutSound
  <2>2. CASE n > 0
    <3>1. chunks[n] \in Chunks
      BY <1>1, <2>2
    <3>2. chunks[n].to \in Int
      BY <3>1 DEF Chunks
    <3>3. chunks[n].to < runes /\ start = chunks[n].to - Shared
      BY <1>2, <2>2 DEF CutSound
    <3> QED BY <1>1, <3>2, <3>3
  <2> QED BY <1>1, <2>1, <2>2
<1>5. /\ end \in Nat /\ end > start /\ end <= runes /\ end - start <= size
      /\ end < runes => end = start + size /\ start + Step < runes
      /\ start + Step >= runes => end = runes
  BY <1>1, <1>4
<1>6. n > 0 => /\ chunks[n].to \in Int /\ chunks[n].to < runes
               /\ start = chunks[n].to - Shared /\ end > chunks[n].to
  <2> SUFFICES ASSUME n > 0 PROVE /\ chunks[n].to \in Int /\ chunks[n].to < runes
               /\ start = chunks[n].to - Shared /\ end > chunks[n].to
    OBVIOUS
  <2>1. chunks[n] \in Chunks
    BY <1>1
  <2>2. chunks[n].to \in Int
    BY <2>1 DEF Chunks
  <2>3. chunks[n].to < runes /\ start = chunks[n].to - Shared
    BY <1>2 DEF CutSound
  <2> QED BY <1>1, <2>2, <2>3
<1>7. /\ c \in Chunks /\ c.from = start /\ c.to = end
  BY <1>1, <1>5 DEF Chunks
<1> HIDE DEF c, end
<1>8. /\ chunks' \in Seq(Chunks) /\ Len(chunks') = n + 1
      /\ \A i \in 1 .. n : chunks'[i] = chunks[i]
      /\ chunks'[n + 1] = c
  BY <1>1, <1>2, <1>7
<1>9. DocTypes'
  BY <1>1, <1>2, <1>8 DEF DocInv, DocTypes
<1>10. ChunksSound'
  <2>1. ASSUME NEW i \in 1 .. n + 1
        PROVE  /\ chunks'[i].from >= 0 /\ chunks'[i].from < chunks'[i].to /\ chunks'[i].to <= runes
               /\ chunks'[i].to - chunks'[i].from <= size
    <3>1. CASE i = n + 1
      BY <1>1, <1>5, <1>7, <1>8, <3>1
    <3>2. CASE i \in 1 .. n
      BY <1>8, <3>2 DEF DocInv, ChunksSound
    <3> QED BY <1>1, <3>1, <3>2
  <2>2. ASSUME NEW i \in 2 .. n + 1
        PROVE  /\ chunks'[i].from = chunks'[i - 1].to - Shared
               /\ chunks'[i].to > chunks'[i - 1].to
    <3>1. CASE i = n + 1
      <4>1. n > 0 /\ i - 1 = n /\ chunks'[n] = chunks[n]
        BY <1>1, <1>8, <3>1
      <4> QED BY <1>6, <1>7, <1>8, <3>1, <4>1
    <3>2. CASE i \in 2 .. n
      <4>1. chunks'[i] = chunks[i] /\ chunks'[i - 1] = chunks[i - 1]
        BY <1>1, <1>8, <3>2
      <4> QED BY <3>2, <4>1 DEF DocInv, ChunksSound
    <3> QED BY <1>1, <3>1, <3>2
  <2> HIDE DEF n
  <2> QED BY <1>2, <1>3, <1>8, <2>1, <2>2 DEF ChunksSound
<1>11. CutCovers'
  <2>1. ASSUME NEW r \in 0 .. runes - 1, r < end
        PROVE  \E i \in 1 .. n + 1 : chunks'[i].from <= r /\ r < chunks'[i].to
    <3>1. CASE r >= start
      BY <1>1, <1>7, <1>8, <2>1, <3>1
    <3>2. CASE r < start
      <4>1. n > 0
        BY <1>1, <1>2, <3>2 DEF CutSound
      <4>2. r < chunks[n].to
        BY <1>1, <1>6, <3>2, <4>1
      <4>3. PICK i \in 1 .. n : chunks[i].from <= r /\ r < chunks[i].to
        BY <4>1, <4>2 DEF DocInv, CutCovers, Covered
      <4> QED BY <1>1, <1>8, <4>3
    <3> QED BY <1>1, <3>1, <3>2
  <2> HIDE DEF n
  <2> QED BY <1>1, <1>2, <1>7, <1>8, <2>1 DEF CutCovers, Covered
<1>12. (phase = "cut" => CutSound)'
  <2>1. phase' = "cut" => end < runes /\ start' = end - Shared
    BY <1>1, <1>2, <1>5 DEF end
  <2> HIDE DEF n
  <2> QED BY <1>1, <1>2, <1>3, <1>7, <1>8, <2>1 DEF CutSound
<1>13. phase' = "store" => Len(chunks') > 0 /\ chunks'[Len(chunks')].to = runes
  <2>1. phase' = "store" => end = runes
    BY <1>2, <1>5 DEF end
  <2> HIDE DEF n
  <2> QED BY <1>1, <1>7, <1>8, <2>1
<1>14. stored' = 0 * StoreBatch /\ 0 \in 0 .. stored'
  BY <1>2, DocumentsAssumption
<1> QED BY <1>2, <1>9, <1>10, <1>11, <1>12, <1>13, <1>14 DEF DocInv

(* The one chunk of a short text.                                          *)
LEMMA DocChunkShort ==
  ASSUME DocInv, ChunkShort
  PROVE  DocInv'
<1> DEFINE c == [from |-> 0, to |-> runes]
<1>1. /\ ChunkSize \in Nat \ {0} /\ Shared \in Nat /\ runes \in Nat /\ runes > 0 /\ stored = 0
      /\ start \in Nat /\ runes <= ChunkSize
  BY ChunkerNumbers DEF DocInv, DocTypes, ChunkShort, CutSound
<1>2. /\ chunks' = <<c>> /\ phase' = "store"
      /\ runes' = runes /\ setting' = setting /\ start' = start /\ stored' = stored
  BY DEF ChunkShort
<1>3. c \in Chunks /\ c.from = 0 /\ c.to = runes
  BY <1>1 DEF Chunks
<1> HIDE DEF c
<1>4. chunks' \in Seq(Chunks) /\ Len(chunks') = 1 /\ chunks'[1] = c
  BY <1>2, <1>3
<1>5. DocTypes'
  BY <1>1, <1>2, <1>4 DEF DocInv, DocTypes
<1>6. ChunkSize' = ChunkSize
  BY <1>2 DEF ChunkSize
<1>7. ChunksSound'
  BY <1>1, <1>2, <1>3, <1>4, <1>6 DEF ChunksSound
<1>8. CutCovers'
  BY <1>1, <1>2, <1>3, <1>4 DEF CutCovers, Covered
<1>9. stored' = 0 * StoreBatch /\ 0 \in 0 .. stored'
  BY <1>1, <1>2, DocumentsAssumption
<1> QED BY <1>1, <1>2, <1>3, <1>4, <1>5, <1>7, <1>8, <1>9 DEF DocInv

(* Both outcomes of a batch.                                               *)
LEMMA DocStore ==
  ASSUME DocInv, StoreDocs \/ StoreFails
  PROVE  DocInv'
<1>1. /\ phase = "store" /\ runes' = runes /\ setting' = setting /\ start' = start
      /\ chunks' = chunks /\ stored' \in {stored, BatchEnd}
      /\ phase' \in {"store", "ok", "failed"}
      /\ phase' = "ok" => stored' = BatchEnd /\ BatchEnd >= Len(chunks)
  BY DEF StoreDocs, StoreFails
<1>2. /\ stored \in 0 .. Len(chunks) /\ Len(chunks) \in Nat /\ StoreBatch \in Nat \ {0}
  BY DocumentsAssumption DEF DocInv, DocTypes
<1>3. /\ BatchEnd \in 0 .. Len(chunks)
      /\ BatchEnd # Len(chunks) => stored + StoreBatch = BatchEnd /\ stored # Len(chunks)
  BY <1>2 DEF BatchEnd
<1>4. DocTypes'
  BY <1>1, <1>3 DEF DocInv, DocTypes
<1>5. ChunksSound' /\ CutCovers'
  BY <1>1 DEF DocInv, ChunksSound, CutCovers, Covered, Shared, ChunkSize, ChunkOverlap
<1>6. stored' = Len(chunks) \/ \E b \in 0 .. stored' : stored' = b * StoreBatch
  <2>1. CASE stored' = stored
    BY <2>1 DEF DocInv
  <2>2. CASE stored' = BatchEnd /\ BatchEnd # Len(chunks)
    <3>1. PICK b \in 0 .. stored : stored = b * StoreBatch
      BY <1>3, <2>2 DEF DocInv
    <3>2. b \in Nat /\ stored' = b * StoreBatch + StoreBatch
      BY <1>2, <1>3, <2>2, <3>1
    <3>3. stored' = (b + 1) * StoreBatch /\ b + 1 \in 0 .. stored'
      BY <1>2, <3>2, OneMoreBatch
    <3> QED BY <3>3
  <2> QED BY <1>1, <2>1, <2>2
<1>7. phase' = "ok" => stored' = Len(chunks)
  BY <1>1, <1>2, <1>3
<1>8. Len(chunks) > 0 /\ chunks[Len(chunks)].to = runes
  BY <1>1 DEF DocInv
<1> QED BY <1>1, <1>4, <1>5, <1>6, <1>7, <1>8 DEF DocInv

(* DocInv holds in every state of an indexing request.                     *)
THEOREM DocumentInvariance == DocumentsSpec => []DocInv
<1>1. DocumentsInit => DocInv
  <2> SUFFICES ASSUME DocumentsInit PROVE DocInv
    OBVIOUS
  <2>1. /\ runes \in Nat /\ setting \in Int \X Int /\ phase = "received" /\ start = 0
        /\ chunks \in Seq(Chunks) /\ Len(chunks) = 0 /\ stored = 0
    BY DocumentsAssumption DEF DocumentsInit
  <2>2. DocTypes /\ ChunksSound /\ CutCovers
    BY <2>1 DEF DocTypes, ChunksSound, CutCovers
  <2> QED BY <2>1, <2>2 DEF DocInv
<1>2. DocInv /\ [DocumentsNext]_docVars => DocInv'
  <2> SUFFICES ASSUME DocInv, [DocumentsNext]_docVars PROVE DocInv'
    OBVIOUS
  <2>1. CASE ReadFile
    BY <2>1, DocReadFile
  <2>2. CASE ChunkRound
    BY <2>2, DocChunkRound
  <2>3. CASE ChunkShort
    BY <2>3, DocChunkShort
  <2>4. CASE StoreDocs \/ StoreFails
    BY <2>4, DocStore
  <2>5. CASE UNCHANGED docVars
    BY <2>5 DEF docVars, DocInv, DocTypes, ChunksSound, CutCovers, CutSound, Covered, Shared,
                ChunkSize, ChunkOverlap
  <2> QED BY <2>1, <2>2, <2>3, <2>4, <2>5 DEF DocumentsNext
<1> QED BY <1>1, <1>2, PTL DEF DocumentsSpec

(* No text is lost between a document and Milvus, and none is repeated     *)
(* beyond the overlap, for any length, chunk size, overlap and batch size  *)
(* (Chunk, IndexDocumentHandler).                                          *)
THEOREM DocumentsAreKept == DocumentsSpec => []DocumentKept
<1>1. DocInv => DocumentKept
  <2> SUFFICES ASSUME DocInv PROVE DocumentKept
    OBVIOUS
  <2>1. ASSUME phase = "ok", NEW r \in 0 .. runes - 1 PROVE Covered(r, stored)
    <3>1. Len(chunks) > 0 /\ chunks[Len(chunks)].to = runes /\ stored = Len(chunks) /\ runes \in Nat
      BY <2>1 DEF DocInv, DocTypes
    <3>2. r < chunks[Len(chunks)].to
      BY <3>1
    <3>3. Covered(r, Len(chunks))
      BY <3>1, <3>2 DEF DocInv, CutCovers
    <3> QED BY <3>1, <3>3
  <2> QED BY <2>1 DEF DocInv, DocumentKept
<1> QED BY <1>1, DocumentInvariance, PTL
=============================================================================
