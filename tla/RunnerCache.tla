---------------------------- MODULE RunnerCache ----------------------------
(***************************************************************************)
(* The objects the Agent builds from its configuration and keeps:          *)
(* the runner (apps/agent/engine/runner.go GetAgentGraphRunner) and the    *)
(* chat model of the summariser (memory/summarizer.go                      *)
(* getSummaryChatModel), with the hot reload that replaces the             *)
(* configuration and clears both (pkg/config/hotreload.go Reload).  A      *)
(* runner's build also sets the retrieval pipeline, once, and its hook     *)
(* resets that after the mutex (graph/rag_graph.go).                       *)
(* A configuration is its version.  What is built from it reads the global *)
(* configuration more than once, so it is a set of versions.  The first    *)
(* test of a cache, and the read that returns it, take no lock.  Neither   *)
(* does SetChatModel exclude ResetOrchestrator, whose two writes are two   *)
(* steps; that the second may hit a Do in progress is left out.            *)
(***************************************************************************)
EXTENDS Integers

CONSTANTS Caches,       \* "runner", "summary": one hook of Reload each
          Callers,      \* goroutines that need a cached object
          MaxVersion    \* bound on reloads

ASSUME CacheAssumption == MaxVersion \in Nat \ {0} /\ "runner" \in Caches

VARIABLES
  version,   \* GlobalConfig
  cached,    \* cached[c]: versions the kept object was built from, {} for nil
  caller,    \* caller[p]: [at, c, since, got]
  reload,    \* [at, hooks, done]: a Reload under reloadMu; done is the last one over
  orch,      \* versions the retrieval pipeline was built from, {} for nil
  once       \* orchOnce is used up

cacheVars == <<version, cached, caller, reload, orch, once>>

Idle == [at |-> "idle", c |-> CHOOSE c \in Caches : TRUE, since |-> 1, got |-> {}]
Held(c) == \E p \in Callers : caller[p].c = c /\ caller[p].at \in {"recheck", "read", "tools", "store"}

----------------------------------------------------------------------------
(* GetAgentGraphRunner and getSummaryChatModel.                            *)
Call(p) ==
  \E c \in Caches :
    /\ caller[p].at = "idle"
    /\ caller' = [caller EXCEPT ![p] =
         [at |-> IF cached[c] # {} THEN "fast" ELSE "lock",
          c |-> c, since |-> reload.done, got |-> {}]]
    /\ UNCHANGED <<version, cached, reload, orch, once>>

Return(p, got) == [caller EXCEPT ![p].at = "returned", ![p].got = got]

(* The second unlocked read, of what may have been cleared in between.     *)
FastReturn(p) ==
  /\ caller[p].at = "fast" /\ caller' = Return(p, cached[caller[p].c])
  /\ UNCHANGED <<version, cached, reload, orch, once>>

Lock(p) ==
  /\ caller[p].at = "lock" /\ ~Held(caller[p].c)
  /\ caller' = [caller EXCEPT ![p].at = "recheck"]
  /\ UNCHANGED <<version, cached, reload, orch, once>>

Recheck(p) ==
  LET c == caller[p].c
  IN /\ caller[p].at = "recheck"
     /\ caller' = IF cached[c] # {} THEN Return(p, cached[c])
                  ELSE [caller EXCEPT ![p].at = "read"]
     /\ UNCHANGED <<version, cached, reload, orch, once>>

(* buildRunner, or the body of getSummaryChatModel, reads the provider,    *)
(* the key and the tools' address, and may fail.                           *)
Build(p) ==
  /\ caller[p].at \in {"read", "tools"}
  /\ \/ caller' = [caller EXCEPT ![p].got = @ \cup {version}]
     \/ /\ caller[p].got # {} /\ (caller[p].c = "runner" => caller[p].at = "tools")
        /\ caller' = [caller EXCEPT ![p].at = "store"]
     \/ caller' = [caller EXCEPT ![p] = Idle]
  /\ UNCHANGED <<version, cached, reload, orch, once>>

(* buildChatModel hands its model to the pipeline, if none was set since   *)
(* the last reset; then come the tools (buildAgent).                       *)
SetChatModel(p) ==
  /\ caller[p].at = "read" /\ caller[p].c = "runner" /\ caller[p].got # {}
  /\ caller' = [caller EXCEPT ![p].at = "tools"]
  /\ orch' = (IF once THEN orch ELSE caller[p].got) /\ once' = TRUE
  /\ UNCHANGED <<version, cached, reload>>

(* The object is kept, the lock released.                                  *)
Store(p) ==
  /\ caller[p].at = "store"
  /\ cached' = [cached EXCEPT ![caller[p].c] = caller[p].got]
  /\ caller' = Return(p, caller[p].got)
  /\ UNCHANGED <<version, reload, orch, once>>

Use(p) ==
  /\ caller[p].at = "returned" /\ caller' = [caller EXCEPT ![p] = Idle]
  /\ UNCHANGED <<version, cached, reload, orch, once>>

----------------------------------------------------------------------------
(* Reload: the new configuration is stored, then the hooks run.            *)
ReloadStore ==
  /\ reload.at = "idle" /\ version < MaxVersion
  /\ version' = version + 1
  /\ reload' = [reload EXCEPT !.at = "hooks", !.hooks = Caches]
  /\ UNCHANGED <<cached, caller, orch, once>>

(* As ClearCached, but the lock is not taken.                              *)
MutClearCached ==
  /\ reload.at = "hooks"
  /\ \E c \in reload.hooks :
       /\ cached' = [cached EXCEPT ![c] = {}]
       /\ reload' = [reload EXCEPT !.at = IF c = "runner" THEN "reset" ELSE "hooks",
                                   !.hooks = @ \ {c}]
  /\ UNCHANGED <<version, caller, orch, once>>

(* ClearCachedRunner and ClearCachedSummaryCM, each under its mutex.       *)
ClearCached ==
  /\ reload.at = "hooks"
  /\ \E c \in reload.hooks :
       /\ ~Held(c) /\ cached' = [cached EXCEPT ![c] = {}]
       /\ reload' = [reload EXCEPT !.at = IF c = "runner" THEN "reset" ELSE "hooks",
                                   !.hooks = @ \ {c}]
  /\ UNCHANGED <<version, caller, orch, once>>

(* ResetOrchestrator, after runnerMu is released: the pipeline, the Once.  *)
ResetPipeline ==
  /\ reload.at = "reset" /\ reload' = [reload EXCEPT !.at = "once"] /\ orch' = {}
  /\ UNCHANGED <<version, cached, caller, once>>

ResetOnce ==
  /\ reload.at = "once" /\ reload' = [reload EXCEPT !.at = "hooks"] /\ once' = FALSE
  /\ UNCHANGED <<version, cached, caller, orch>>

ReloadReturns ==
  /\ reload.at = "hooks" /\ reload.hooks = {}
  /\ reload' = [at |-> "idle", hooks |-> {}, done |-> version]
  /\ UNCHANGED <<version, cached, caller, orch, once>>

----------------------------------------------------------------------------
CacheInit ==
  /\ version = 1 /\ cached = [c \in Caches |-> {}]
  /\ caller = [p \in Callers |-> Idle]
  /\ reload = [at |-> "idle", hooks |-> {}, done |-> 1]
  /\ orch = {} /\ once = FALSE

CacheNext ==
  \/ \E p \in Callers : \/ Call(p) \/ FastReturn(p) \/ Lock(p) \/ Recheck(p)
                        \/ Build(p) \/ SetChatModel(p) \/ Store(p) \/ Use(p)
  \/ ReloadStore \/ ClearCached \/ ResetPipeline \/ ResetOnce \/ ReloadReturns

CacheSpec == CacheInit /\ [][CacheNext]_cacheVars

----------------------------------------------------------------------------
(* Properties.                                                             *)

(* Whoever asks for a runner or a summary model after a reload returned    *)
(* never gets one built from an older configuration, although the caches   *)
(* are tested without a lock and built while a reload is running, and no   *)
(* older retrieval pipeline outlives the reload, although a build may set  *)
(* it at any moment of it (GetAgentGraphRunner, getSummaryChatModel,       *)
(* SetChatModel, Reload).  Either may be nil.                              *)
FreshAfterReload ==
  /\ \A p \in Callers : caller[p].at = "returned" =>
       \A v \in caller[p].got : v >= caller[p].since
  /\ \A v \in orch : v >= reload.done
=============================================================================
