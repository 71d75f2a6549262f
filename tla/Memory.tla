------------------------------ MODULE Memory ------------------------------
(***************************************************************************)
(* The Agent's short-term memory of one session                            *)
(* (apps/agent/memory/memory.go): a Redis list to which every turn appends *)
(* the question and the answer (engine.go PrepareAgentContext,             *)
(* chat_sse.go ChatSSE) and which a goroutine compresses, once it has      *)
(* WindowSize items, by putting one summary in the place of the oldest     *)
(* WindowSize - KeepAfterCompress.  Several turns of one user may run at   *)
(* once.  An item of the list is the set of messages it speaks for: a      *)
(* message has one member, a summary has those of the items it replaces.   *)
(* The copies of a summary in MySQL and Milvus are left out: their errors  *)
(* are ignored and nothing here reads them.  So are the reads of the list  *)
(* for the model's prompt (GetMessages), which change nothing.             *)
(***************************************************************************)
EXTENDS Integers, Sequences

CONSTANTS Turns,
          WindowSize,         \* length that starts a compression (20)
          KeepAfterCompress   \* items a compression leaves alone (15)

ASSUME MemoryAssumption ==
  /\ WindowSize \in Nat /\ KeepAfterCompress \in 1 .. (WindowSize - 1)

Messages == Turns \X {"question", "answer"}
toCompress == WindowSize - KeepAfterCompress

VARIABLES
  list,        \* the Redis list
  log,         \* messages appended since the list last expired, in order
  turn,        \* turn[t]: where PrepareAgentContext and ChatSSE stand
  comp,        \* comp[m]: [at, read] of the compression started after message m
  overlapped   \* a compression was started while another was running

memVars == <<list, log, turn, comp, overlapped>>

NoComp == [at |-> "none", read |-> {}]
Running == {m \in Messages : comp[m].at # "none"}
Prefix(s, n) == {s[i] : i \in 1 .. n}

----------------------------------------------------------------------------
(* Append: RPUSH and EXPIRE are one script.                                *)
Append1(m, from, to) ==
  /\ turn[m[1]] = from /\ turn' = [turn EXCEPT ![m[1]] = to]
  /\ list' = Append(list, {m}) /\ log' = Append(log, m)
  /\ UNCHANGED <<comp, overlapped>>

(* Then LLEN, which other turns and compressions may have changed; when it *)
(* fails the length counts as 0.                                           *)
CheckLength(m, from, to) ==
  /\ turn[m[1]] = from /\ turn' = [turn EXCEPT ![m[1]] = to]
  /\ \/ /\ Len(list) >= WindowSize
        /\ comp' = [comp EXCEPT ![m].at = "start"]
        /\ overlapped' = (overlapped \/ Running # {})
     \/ UNCHANGED <<comp, overlapped>>
  /\ UNCHANGED <<list, log>>

AppendQuestion(t) == Append1(<<t, "question">>, "idle", "asked")
CheckQuestion(t) == CheckLength(<<t, "question">>, "asked", "running")

(* The goroutine at the end of ChatSSE; a client that left, an answer      *)
(* without text and a failed Redis call end the turn without it.           *)
AppendAnswer(t) == Append1(<<t, "answer">>, "running", "answered")
CheckAnswer(t) == CheckLength(<<t, "answer">>, "answered", "over")

TurnEnds(t) ==
  /\ turn[t] \in {"asked", "running", "answered"}
  /\ turn' = [turn EXCEPT ![t] = "over"]
  /\ UNCHANGED <<list, log, comp, overlapped>>

----------------------------------------------------------------------------
(* triggerSummaryCompress: LRANGE of the oldest items.                     *)
ReadOldest(m) ==
  LET n == IF Len(list) < toCompress THEN Len(list) ELSE toCompress
  IN /\ comp[m].at = "start"
     /\ comp' = [comp EXCEPT ![m] = IF n = 0 THEN NoComp
                   ELSE [at |-> "llm", read |-> UNION Prefix(list, n)]]
     /\ UNCHANGED <<list, log, turn, overlapped>>

(* As ReplaceOldest, but one item too many is trimmed.                     *)
MutReplaceOldest(m) ==
  /\ comp[m].at = "llm" /\ comp' = [comp EXCEPT ![m] = NoComp]
  /\ list' = <<comp[m].read>> \o SubSeq(list, toCompress + 2, Len(list))
  /\ UNCHANGED <<log, turn, overlapped>>

(* summaryScript, once the model has answered: LTRIM and LPUSH in one.     *)
ReplaceOldest(m) ==
  /\ comp[m].at = "llm" /\ comp' = [comp EXCEPT ![m] = NoComp]
  /\ list' = <<comp[m].read>> \o SubSeq(list, toCompress + 1, Len(list))
  /\ UNCHANGED <<log, turn, overlapped>>

(* SummarizeWithLLM or the script fails, or the Agent dies.                *)
CompressionFails(m) ==
  /\ comp[m].at \in {"start", "llm"} /\ comp' = [comp EXCEPT ![m] = NoComp]
  /\ UNCHANGED <<list, log, turn, overlapped>>

(* A day without a turn; no compression takes that long.                   *)
Expire ==
  /\ list # <<>> /\ Running = {}
  /\ \A t \in Turns : turn[t] \in {"idle", "running", "over"}
  /\ list' = <<>> /\ log' = <<>> /\ UNCHANGED <<turn, comp, overlapped>>

----------------------------------------------------------------------------
MemoryInit ==
  /\ list = <<>> /\ log = <<>> /\ overlapped = FALSE
  /\ turn = [t \in Turns |-> "idle"]
  /\ comp = [m \in Messages |-> NoComp]

MemoryNext ==
  \/ \E t \in Turns : \/ AppendQuestion(t) \/ CheckQuestion(t) \/ AppendAnswer(t)
                      \/ CheckAnswer(t) \/ TurnEnds(t)
  \/ \E m \in Messages : ReadOldest(m) \/ ReplaceOldest(m) \/ CompressionFails(m)
  \/ Expire

MemorySpec == MemoryInit /\ [][MemoryNext]_memVars

----------------------------------------------------------------------------
(* Properties.                                                             *)

MemoryTypeOK ==
  /\ list \in Seq(SUBSET Messages) /\ log \in Seq(Messages)
  /\ turn \in [Turns -> {"idle", "asked", "running", "answered", "over"}]
  /\ overlapped \in BOOLEAN
  /\ comp \in [Messages -> [at : {"none", "start", "llm"}, read : SUBSET Messages]]

(* As long as no two compressions overlapped, the memory is the whole      *)
(* conversation in its order: the first item speaks for the oldest         *)
(* messages and every later one is the next message, whatever turns,       *)
(* compressions and failures interleave (Append, triggerSummaryCompress).  *)
(* When two overlap, the second trims messages it never read.              *)
WindowIsConversation ==
  LET oldest == Len(log) - Len(list) + 1
  IN overlapped \/ (list = <<>> /\ log = <<>>) \/
       /\ oldest > 0 /\ list # <<>>
       /\ list[1] = Prefix(log, oldest)
       /\ \A i \in 2 .. Len(list) : list[i] = {log[oldest + i - 1]}
=============================================================================
