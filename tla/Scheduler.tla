----------------------------- MODULE Scheduler -----------------------------
(***************************************************************************)
(* Scheduled messages of the Agent: the tool that stores a task            *)
(* (apps/agent/tools/schedule_message.go, mcp/schedule_msg.go), the cron   *)
(* job that claims due tasks and the goroutine that sends one              *)
(* (task/schedule_msg.go), with their statements                           *)
(* (dao/scheduled_messages.go).  A scheduler is an Agent process, or one   *)
(* of two overlapping runs of its cron job.  Every statement is a step of  *)
(* its own; a failed one spends the fault budget.                          *)
(*                                                                         *)
(* The statements that change a task name the columns sch_msg_id and       *)
(* updated_time.  columns says whether the table has them: the tables      *)
(* AutoMigrate makes from models/scheduled_messages.go do not.             *)
(***************************************************************************)
EXTENDS Integers, FiniteSets

CONSTANTS Schedulers,
          Tasks,
          Targets,         \* Targets[t]: the receiver, or the group without the creator
          GroupTasks,      \* tasks sent to a group
          Schemas,         \* values of columns
          Batch,           \* tasks taken by one query (100)
          MaxSchedFaults   \* bound on failed statements and crashes

ASSUME SchedulerAssumption ==
  /\ GroupTasks \subseteq Tasks /\ Schemas \subseteq BOOLEAN
  /\ \A t \in Tasks \ GroupTasks : \E u \in Targets[t] : Targets[t] = {u}
  /\ Batch \in Nat \ {0} /\ MaxSchedFaults \in Nat

VARIABLES
  columns,   \* the table has the columns the statements name
  status,    \* status[t]: "none", "pending" 0, "claimed" 1, "done" 2, "failed" 3
  due,       \* tasks whose time has come
  copies,    \* copies[t][u]: messages of task t inserted for u
  feedback,  \* feedback[t]: reports inserted for the creator
  scan,      \* scan[s]: tasks the cron job still has to claim
  sender,    \* sender[t]: [at, by, left] of SendSchMessages
  sfaults

schedVars == <<columns, status, due, copies, feedback, scan, sender, sfaults>>

Receivers == UNION {Targets[t] : t \in Tasks}
NoSender == [at |-> "none", by |-> CHOOSE s \in Schedulers : TRUE, left |-> {}]
SchedFault == sfaults < MaxSchedFaults /\ sfaults' = sfaults + 1

(* The outcome of a statement on the task table: it works, fails, or its   *)
(* answer is lost although it worked.  Without the columns it fails.       *)
Statement(new, works, fails) ==
  \/ columns /\ works /\ status' = new /\ UNCHANGED sfaults
  \/ ~columns /\ fails /\ UNCHANGED <<sfaults, status>>
  \/ SchedFault /\ fails /\ (UNCHANGED status \/ (columns /\ status' = new))

----------------------------------------------------------------------------
(* schMessageInvoker stores a task for a time in the future.               *)
CreateScheduledMessage(t) ==
  /\ status[t] = "none" /\ status' = [status EXCEPT ![t] = "pending"]
  /\ UNCHANGED <<columns, due, copies, feedback, scan, sender, sfaults>>

TimeComes(t) ==
  /\ status[t] = "pending" /\ t \notin due /\ due' = due \cup {t}
  /\ UNCHANGED <<columns, status, copies, feedback, scan, sender, sfaults>>

(* handleScheduledMessages, once a minute: the due tasks, in any order.    *)
GetPendingScheduledTasks(s) ==
  LET pending == {t \in due : status[t] = "pending"}
  IN /\ scan[s] = {} /\ pending # {}
     /\ \E found \in SUBSET pending :
          /\ Cardinality(found) = IF Cardinality(pending) < Batch
                                  THEN Cardinality(pending) ELSE Batch
          /\ scan' = [scan EXCEPT ![s] = found]
     /\ UNCHANGED <<columns, status, due, copies, feedback, sender, sfaults>>

Start(s, t) ==
  [sender EXCEPT ![t] = [at |-> IF t \in GroupTasks THEN "members" ELSE "single",
                         by |-> s, left |-> Targets[t]]]

(* As ClaimTask, but any row counts as claimed.                            *)
MutClaimTask(s) ==
  \E t \in scan[s] :
    /\ Statement([status EXCEPT ![t] = "claimed"],
                 scan' = [scan EXCEPT ![s] = @ \ {t}] /\ sender' = Start(s, t),
                 scan' = [scan EXCEPT ![s] = {}] /\ UNCHANGED sender)
    /\ UNCHANGED <<columns, due, copies, feedback>>

(* ClaimTask moves one row from 0 to 1.  No row: somebody else was faster. *)
(* An error ends the cron run.                                             *)
ClaimTask(s) ==
  \E t \in scan[s] :
    LET won == status[t] = "pending"
    IN /\ Statement(IF won THEN [status EXCEPT ![t] = "claimed"] ELSE status,
                    /\ scan' = [scan EXCEPT ![s] = @ \ {t}]
                    /\ sender' = IF won THEN Start(s, t) ELSE sender,
                    scan' = [scan EXCEPT ![s] = {}] /\ UNCHANGED sender)
       /\ UNCHANGED <<columns, due, copies, feedback>>

----------------------------------------------------------------------------
(* SendSchMessages.                                                        *)

SendAt(t, p) == sender' = [sender EXCEPT ![t].at = p]
Delivered(t, u) == copies' = [copies EXCEPT ![t][u] = @ + 1]

(* GetGroupMembers; a failed query and an empty group are errors.          *)
GetMembers(t) ==
  /\ sender[t].at = "members"
  /\ \/ SendAt(t, "group") /\ UNCHANGED sfaults
     \/ SendAt(t, "fail") /\ SchedFault
  /\ UNCHANGED <<columns, status, due, copies, feedback, scan>>

(* As InsertForMember, but a member whose insert fails is skipped.         *)
MutInsertForMember(t) ==
  /\ sender[t].at = "group"
  /\ \/ /\ sender[t].left = {} /\ SendAt(t, "mark") /\ UNCHANGED <<copies, sfaults>>
     \/ \E u \in sender[t].left :
          /\ sender' = [sender EXCEPT ![t].left = @ \ {u}]
          /\ \/ Delivered(t, u) /\ UNCHANGED sfaults
             \/ SchedFault /\ UNCHANGED copies
  /\ UNCHANGED <<columns, status, due, feedback, scan>>

(* sendGroupSchMessage inserts a copy per member; the first error ends it. *)
InsertForMember(t) ==
  /\ sender[t].at = "group"
  /\ \/ /\ sender[t].left = {} /\ SendAt(t, "mark") /\ UNCHANGED <<copies, sfaults>>
     \/ \E u \in sender[t].left :
          \/ /\ Delivered(t, u) /\ UNCHANGED sfaults
             /\ sender' = [sender EXCEPT ![t].left = @ \ {u}]
          \/ SchedFault /\ SendAt(t, "fail") /\ UNCHANGED copies
  /\ UNCHANGED <<columns, status, due, feedback, scan>>

(* ExecuteSchSend inserts the message on its own connection, outside the   *)
(* transaction that then marks the task.                                   *)
InsertSingle(t) ==
  /\ sender[t].at = "single"
  /\ \/ \E u \in Targets[t] : Delivered(t, u) /\ SendAt(t, "mark") /\ UNCHANGED sfaults
     \/ SchedFault /\ SendAt(t, "fail") /\ UNCHANGED copies
  /\ UNCHANGED <<columns, status, due, feedback, scan>>

(* The update from 1 to 2 of ExecuteSchSend and MarkSchTaskDone.           *)
MarkSchTaskDone(t) ==
  /\ sender[t].at = "mark"
  /\ Statement([status EXCEPT ![t] = IF @ = "claimed" THEN "done" ELSE @],
               SendAt(t, "ok"), SendAt(t, "fail"))
  /\ UNCHANGED <<columns, due, copies, feedback, scan>>

(* A scheduler's process ends with its cron run and its goroutines.        *)
Die(s) ==
  /\ scan' = [scan EXCEPT ![s] = {}]
  /\ sender' = [t \in Tasks |-> IF sender[t].by = s THEN [NoSender EXCEPT !.by = s]
                                ELSE sender[t]]

(* FailedTask moves the task from 1 to 3; when that fails, Fatalf.         *)
FailedTask(t) ==
  /\ sender[t].at = "fail"
  /\ \/ /\ columns /\ SendAt(t, "failed") /\ UNCHANGED <<scan, sfaults>>
        /\ status' = [status EXCEPT ![t] = IF @ = "claimed" THEN "failed" ELSE @]
     \/ SchedFault /\ Die(sender[t].by) /\ UNCHANGED status
  /\ UNCHANGED <<columns, due, copies, feedback>>

(* The report to the creator; its error is ignored.                        *)
InsertFeedback(t) ==
  \E r \in {"ok", "failed"} :
    /\ sender[t].at = r
    /\ \/ feedback' = [feedback EXCEPT ![t] = @ \cup {r}] /\ UNCHANGED sfaults
       \/ SchedFault /\ UNCHANGED feedback
    /\ sender' = [sender EXCEPT ![t] = NoSender]
    /\ UNCHANGED <<columns, status, due, copies, scan>>

SchedulerDies(s) ==
  /\ SchedFault /\ Die(s) /\ UNCHANGED <<columns, status, due, copies, feedback>>

----------------------------------------------------------------------------
SchedInit ==
  /\ columns \in Schemas
  /\ status = [t \in Tasks |-> "none"] /\ due = {}
  /\ copies = [t \in Tasks |-> [u \in Receivers |-> 0]]
  /\ feedback = [t \in Tasks |-> {}] /\ scan = [s \in Schedulers |-> {}]
  /\ sender = [t \in Tasks |-> NoSender] /\ sfaults = 0

SendStep(t) ==
  \/ GetMembers(t) \/ InsertForMember(t) \/ InsertSingle(t) \/ MarkSchTaskDone(t)
  \/ FailedTask(t) \/ InsertFeedback(t)

SchedNext ==
  \/ \E t \in Tasks : CreateScheduledMessage(t) \/ TimeComes(t) \/ SendStep(t)
  \/ \E s \in Schedulers : \/ GetPendingScheduledTasks(s) \/ ClaimTask(s)
                           \/ SchedulerDies(s)

(* The cron job runs every minute and statements are answered.             *)
SchedFairness ==
  /\ \A t \in Tasks : WF_schedVars(TimeComes(t)) /\ WF_schedVars(SendStep(t))
  /\ \A s \in Schedulers : WF_schedVars(GetPendingScheduledTasks(s) \/ ClaimTask(s))

SchedSpec == SchedInit /\ [][SchedNext]_schedVars /\ SchedFairness

----------------------------------------------------------------------------
(* Properties.                                                             *)

(* No receiver gets a scheduled message twice, with several schedulers,    *)
(* overlapping cron runs, lost answers and crashes: only the one that      *)
(* moves the row from 0 to 1 sends (ClaimTask, SendSchMessages).           *)
SentAtMostOnce == \A t \in Tasks, u \in Receivers : copies[t][u] <= 1

(* A task marked as done, and a report of success to its creator, mean     *)
(* that every receiver has the message, also when inserting for a group    *)
(* fails half-way (sendGroupSchMessage, SendSchMessages).                  *)
DoneIsDelivered ==
  \A t \in Tasks :
    (status[t] = "done" \/ "ok" \in feedback[t]) =>
      \A u \in Targets[t] : copies[t][u] = 1

(* schedule_message.go tells the user that the message goes out by itself  *)
(* when its time comes.  Without faults every due task is sent.            *)
DueIsSent ==
  \A t \in Tasks : (t \in due) ~> (status[t] = "done" \/ sfaults > 0)
=============================================================================
