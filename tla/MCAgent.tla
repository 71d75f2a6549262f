------------------------------ MODULE MCAgent ------------------------------
(* The parts of the Agent, and the path of a message from a client's frame *)
(* to its row and to the Agent's queue, on small instances.  They share no *)
(* state in the models; part says which of them a behaviour is about.      *)
EXTENDS Scheduler, Memory, RunnerCache, Session, Retrieval,
        AgentRun, Documents, ChatPath
LOCAL INSTANCE TLC

VARIABLE part
engineVars == <<cacheVars, sessVars, runVars>>
dataVars == <<schedVars, memVars, retrVars, docVars>>
agentVars == <<engineVars, dataVars, pathVars, part>>

MCTargets == [t \in Tasks |-> IF t \in GroupTasks THEN {"u", "v"} ELSE {"u"}]
MCSettings == (-1 .. 5) \X (-1 .. 6)
TurnSymmetry == Permutations(Turns)

(* A sender with a single chat and an AI chat, a recipient, one gateway.   *)
MCUsers == {"v"}
MCFrom == [f \in Frames |-> "u"]
MCKinds == {[f \in Frames |-> ChatType(f)]}
MCConvOf == [f \in Frames |-> ChatType(f)]
MCGatewayOf == [u \in {"u"} |-> 1]
MCSender == [m \in Group |-> "v"]
MCReceiver == [m \in Single \cup AI |-> "v"]

AgentInit ==
  /\ part \in {"schedule", "memory", "config", "approval", "retrieval",
              "limit", "answer", "document", "path"}
  /\ SchedInit /\ MemoryInit /\ CacheInit /\ SessionInit /\ RetrievalInit
  /\ RunInit /\ DocumentsInit /\ PathInit
  /\ part # "document" => runes = 0 /\ setting = CHOOSE x \in Settings : TRUE
  /\ part # "schedule" => columns = CHOOSE c \in Schemas : TRUE

EngineNext ==
  \/ /\ part = "config" /\ CacheNext
     /\ UNCHANGED <<sessVars, runVars>>
  \/ /\ part = "approval" /\ SessionNext
     /\ UNCHANGED <<cacheVars, runVars>>
  \/ /\ \/ part = "limit" /\ LimitNext
        \/ part = "answer" /\ AnswerNext
     /\ UNCHANGED <<cacheVars, sessVars>>

DataNext ==
  \/ /\ part = "schedule" /\ SchedNext
     /\ UNCHANGED <<memVars, retrVars, docVars>>
  \/ /\ part = "memory" /\ MemoryNext
     /\ UNCHANGED <<schedVars, retrVars, docVars>>
  \/ /\ part = "retrieval" /\ RetrievalNext
     /\ UNCHANGED <<schedVars, memVars, docVars>>
  \/ /\ part = "document" /\ DocumentsNext
     /\ UNCHANGED <<schedVars, memVars, retrVars>>

AgentNext ==
  /\ UNCHANGED part
  /\ \/ EngineNext /\ UNCHANGED <<dataVars, pathVars>>
     \/ DataNext /\ UNCHANGED <<engineVars, pathVars>>
     \/ part = "path" /\ PathNext /\ UNCHANGED <<engineVars, dataVars>>

AgentSpec == AgentInit /\ [][AgentNext]_agentVars
=============================================================================
