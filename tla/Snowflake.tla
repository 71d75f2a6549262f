----------------------------- MODULE Snowflake -----------------------------
(***************************************************************************)
(* Message identifiers (apps/pkg/utils/snowflake.go).  Every process has   *)
(* one generator, numbered by its node; Generate runs under its mutex.     *)
(* The wall clock may show any millisecond at any reading: it stands       *)
(* still, jumps and moves back.  Fields keep their meaning, not their      *)
(* width: 12 and 10 bits become SeqSize and NodeSize values.               *)
(***************************************************************************)
EXTENDS Integers

CONSTANTS Nodes,      \* node numbers in use, one per process
          NodeSize,   \* 2^10: values of the node field
          SeqSize,    \* 2^12: values of the sequence field
          MaxTime     \* bound: milliseconds the clock can show

ASSUME SnowflakeSizes ==
  /\ NodeSize \in Nat \ {0} /\ SeqSize \in Nat \ {0} /\ MaxTime \in Nat
  /\ Nodes \subseteq 0 .. NodeSize - 1

VARIABLES lastTimestamp,  \* lastTimestamp[n]
          sequence,       \* sequence[n]
          lastId          \* lastId[n]: the newest identifier, 0 before the first

snowVars == <<lastTimestamp, sequence, lastId>>

Compose(t, n, s) == (t * NodeSize + n) * SeqSize + s

(* ParseSnowflakeID, without the epoch it adds and Generate never took off.*)
Parse(id) == [time |-> id \div (NodeSize * SeqSize),
              node |-> (id \div SeqSize) % NodeSize, seq |-> id % SeqSize]

SnowInit ==
  /\ lastTimestamp = [n \in Nodes |-> 0] /\ sequence = [n \in Nodes |-> 0]
  /\ lastId = [n \in Nodes |-> 0]

(* As Generate, but the loop that waits for the next millisecond when the  *)
(* sequence is used up ends at once.                                       *)
MutGenerate(n) ==
  \E first \in 1 .. MaxTime, later \in 1 .. MaxTime :
    LET last == lastTimestamp[n]
        s == IF first = last THEN (sequence[n] + 1) % SeqSize ELSE 0
        current == IF first < last THEN later ELSE first
    IN /\ first < last => later > last
       /\ lastTimestamp' = [lastTimestamp EXCEPT ![n] = current]
       /\ sequence' = [sequence EXCEPT ![n] = s]
       /\ lastId' = [lastId EXCEPT ![n] = Compose(current, n, s)]

(* first is the reading at entry, later the one that ends the waiting loop *)
(* after a clock that moved back or a sequence that was used up.           *)
Generate(n) ==
  \E first \in 1 .. MaxTime, later \in 1 .. MaxTime :
    LET last == lastTimestamp[n]
        s == IF first = last THEN (sequence[n] + 1) % SeqSize ELSE 0
        waits == first < last \/ (first = last /\ s = 0)
        current == IF waits THEN later ELSE first
    IN /\ waits => later > last
       /\ lastTimestamp' = [lastTimestamp EXCEPT ![n] = current]
       /\ sequence' = [sequence EXCEPT ![n] = s]
       /\ lastId' = [lastId EXCEPT ![n] = Compose(current, n, s)]

SnowNext == \E n \in Nodes : Generate(n)

SnowSpec == SnowInit /\ [][SnowNext]_snowVars

(* interview.md: a later identifier is always larger.  However the clock   *)
(* behaves a generator never goes back (Generate), and an identifier names *)
(* its node, so no two processes meet.                                     *)
IdsIncrease ==
  [][\A n \in Nodes :
       lastId'[n] # lastId[n] =>
         lastId'[n] > lastId[n] /\ Parse(lastId'[n]).node = n]_snowVars
=============================================================================
