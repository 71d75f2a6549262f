------------------------------ MODULE AgentRun ------------------------------
(***************************************************************************)
(* What the Agent's middleware does to one answer (apps/agent/middleware): *)
(* RateLimitMiddleware lets it start, TrimResultMiddleWare shortens the    *)
(* conversation before the model is called, AutoContinueMiddleware goes on *)
(* with a text that was cut off, SafeAgentMiddleware turns the errors of   *)
(* tools into results.  The model and the tools are external: a turn of    *)
(* the model is a text, calls of tools, or both.                           *)
(***************************************************************************)
EXTENDS Integers, Sequences, FiniteSets

CONSTANTS Asks,         \* requests of one user
          RateLimit,    \* limit, 5
          RateWindow,   \* one minute
          MaxDelay,     \* bound on the time from time.Now() to the script
          MaxNow,       \* bound on the clock
          MaxContinue,  \* maxContinue, 3
          MaxTurns,     \* turns of the model (MaxIterations)
          MaxRetries    \* of a call the provider throttles

ASSUME AgentRunAssumption ==
  /\ RateLimit \in Nat \ {0} /\ RateWindow \in Nat /\ MaxDelay \in 0 .. RateWindow
  /\ MaxContinue \in Nat /\ MaxTurns \in Nat /\ MaxRetries \in Nat /\ MaxNow \in Nat

VARIABLES
  now,        \* the time
  stamp,      \* stamp[q]: now of checkRateLimit, -1 before and after
  zset,       \* rate_limit:ai:<user>: stamps, each its own member and score
  expires,    \* when Redis drops the key
  admitted,   \* history: pairs <<stamp, time of the script>> let through
  state,      \* "model", "tools", "done": the answer's turn
  msgs,       \* its messages: [role, text, tool, injected, whole]
  unanswered, \* tool calls without a result
  injected,   \* the pending call was added by AutoContinueMiddleware
  turns, retries

limitVars == <<now, stamp, zset, expires, admitted>>
answerVars == <<state, msgs, unanswered, injected, turns, retries>>
runVars == <<limitVars, answerVars>>

----------------------------------------------------------------------------
(* checkRateLimit takes the time before the script is run.                 *)
BeforeAgent(q) ==
  /\ stamp[q] = -1 /\ stamp' = [stamp EXCEPT ![q] = now]
  /\ UNCHANGED <<now, zset, expires, admitted, answerVars>>

(* As Admits, but the last place is given out twice.                       *)
MutAdmits(kept) == Cardinality(kept) <= RateLimit

(* ZCARD below the limit.                                                  *)
Admits(kept) == Cardinality(kept) < RateLimit

(* rateLimitLua, atomic in Redis: drop the stamps outside the window,      *)
(* count, add.  A key that expired is empty; the same stamp is one member. *)
rateLimitLua(q) ==
  LET live == IF now < expires THEN zset ELSE {}
      kept == {s \in live : s > stamp[q] - RateWindow}
  IN /\ stamp[q] # -1 /\ stamp' = [stamp EXCEPT ![q] = -1]
     /\ IF Admits(kept)
        THEN /\ zset' = kept \cup {stamp[q]} /\ expires' = now + RateWindow
             /\ admitted' = admitted \cup {<<stamp[q], now>>}
        ELSE zset' = kept /\ UNCHANGED <<expires, admitted>>
     /\ UNCHANGED <<now, answerVars>>

(* Time passes; no request takes longer than MaxDelay to reach Redis.      *)
TimePasses ==
  /\ now < MaxNow /\ now' = now + 1
  /\ \A q \in Asks : stamp[q] # -1 => now' - stamp[q] <= MaxDelay
  /\ UNCHANGED <<stamp, zset, expires, admitted, answerVars>>

----------------------------------------------------------------------------
(* Tools: "search" stands for those whose name starts with                 *)
(* search_chat_history, "other" for the rest.                              *)
ToolNames == {"search", "other", "continue_output"}
noisyPrefixes == {"search"}

Assistant(text) == [role |-> "assistant", text |-> text, tool |-> "", injected |-> FALSE,
                    whole |-> TRUE]
Result(t) == [role |-> "tool", text |-> TRUE, tool |-> t,
              injected |-> injected, whole |-> TRUE]
IsText(m) == m.role = "assistant" /\ m.text

(* TrimResultMiddleWare: results of the noisy tools before the last text   *)
(* of the model are omitted.                                               *)
TrimResult(s) ==
  [i \in 1 .. Len(s) |->
     IF /\ s[i].role = "tool" /\ s[i].tool \in noisyPrefixes
        /\ \E j \in i + 1 .. Len(s) : IsText(s[j])
     THEN [s[i] EXCEPT !.whole = FALSE] ELSE s[i]]

IsContinue(m) == m.role = "tool" /\ m.tool = "continue_output"

(* countRecentContinues: from the end, over the model's own messages.      *)
countRecentContinues(s) ==
  Cardinality({i \in 1 .. Len(s) :
    /\ IsContinue(s[i])
    /\ \A j \in i .. Len(s) : IsContinue(s[j]) \/ s[j].role = "assistant"})

(* A turn of the model on the trimmed messages.  AfterModelRewriteState    *)
(* adds the call continue_output to a text that was cut off, unless three  *)
(* of them have just been answered.  A turn without calls ends the answer. *)
ModelAnswers(text, calls, cut) ==
  LET s == Append(TrimResult(msgs), Assistant(text))
      go == cut /\ calls = {} /\ countRecentContinues(s) < MaxContinue
  IN /\ state = "model" /\ turns < MaxTurns /\ turns' = turns + 1 /\ retries' = 0
     /\ msgs' = s /\ injected' = go
     /\ unanswered' = IF go THEN {"continue_output"} ELSE calls
     /\ state' = IF unanswered' = {} THEN "done" ELSE "tools"
     /\ UNCHANGED limitVars

(* safeModelWrapper keeps the text of an error, so that a throttled call   *)
(* is recognised and tried again; any other error ends the answer.         *)
ModelFails(throttled) ==
  /\ state = "model"
  /\ IF throttled /\ retries < MaxRetries
     THEN retries' = retries + 1 /\ UNCHANGED state
     ELSE state' = "done" /\ UNCHANGED retries
  /\ UNCHANGED <<limitVars, msgs, unanswered, injected, turns>>

(* A result, or the text of the error in its place (WrapInvokableToolCall, *)
(* WrapStreamableToolCall); the model's next turn follows the last one.    *)
ToolAnswers(t) ==
  /\ state = "tools" /\ t \in unanswered /\ unanswered' = unanswered \ {t}
  /\ msgs' = Append(msgs, Result(t))
  /\ state' = IF unanswered' = {} THEN "model" ELSE state
  /\ UNCHANGED <<limitVars, injected, turns, retries>>

----------------------------------------------------------------------------
RunInit ==
  /\ now = 0 /\ stamp = [q \in Asks |-> -1] /\ zset = {} /\ expires = 0 /\ admitted = {}
  /\ state = "model" /\ msgs = <<>> /\ unanswered = {} /\ injected = FALSE
  /\ turns = 0 /\ retries = 0

LimitNext == TimePasses \/ \E q \in Asks : BeforeAgent(q) \/ rateLimitLua(q)

AnswerNext ==
  \/ \E text, cut \in BOOLEAN, calls \in SUBSET ToolNames : ModelAnswers(text, calls, cut)
  \/ \E throttled \in BOOLEAN : ModelFails(throttled)
  \/ \E t \in unanswered : ToolAnswers(t)

RunSpec == RunInit /\ [][LimitNext \/ AnswerNext]_runVars

----------------------------------------------------------------------------
(* Properties.                                                             *)

(* No more than RateLimit scripts let a request through within a window,   *)
(* shortened by the time a request may take from time.Now() to Redis;      *)
(* requests that took the same nanosecond count as one.                    *)
RateBounded ==
  \A last \in admitted :
    Cardinality({a[1] : a \in {b \in admitted :
                   b[2] <= last[2] /\ b[2] > last[2] - (RateWindow - MaxDelay)}})
      <= RateLimit

(* A text is continued at most MaxContinue times before a tool of the      *)
(* model's own choice or the end intervenes.                               *)
ContinueBounded ==
  \A i, j \in 1 .. Len(msgs) :
    (\A k \in i .. j : IsContinue(msgs[k]) \/ msgs[k].role = "assistant") =>
      Cardinality({k \in i .. j : IsContinue(msgs[k]) /\ msgs[k].injected}) <= MaxContinue

(* Only results of searches are omitted, and none before the model has     *)
(* written a text after it.                                                *)
UnansweredKept ==
  \A i \in 1 .. Len(msgs) :
    ~msgs[i].whole => /\ msgs[i].role = "tool" /\ msgs[i].tool \in noisyPrefixes
                      /\ \E j \in i + 1 .. Len(msgs) : IsText(msgs[j])

(* The middleware bounds an answer without taking from the model what it   *)
(* still needs: the rate limit holds although stamps reach Redis late and  *)
(* out of order (checkRateLimit, rateLimitLua), continuations end          *)
(* (AfterModelRewriteState, countRecentContinues), and results the model   *)
(* has not answered stay whole (BeforeModelRewriteState).                  *)
AnswerBounded == RateBounded /\ ContinueBounded /\ UnansweredKept
=============================================================================
