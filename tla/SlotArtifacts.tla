---------------------------- MODULE SlotArtifacts ----------------------------
(***************************************************************************)
(* The agents of a scenario's slots: registered in an in-memory store,     *)
(* inspected by the host for the closure of their actions, checked when an *)
(* engine is created and once more by the adapter at every invocation      *)
(* (packages/scenario-orchestrator-runtime-demo and -runtime-contract).    *)
(* The store and the registry of actions stay the host's to change.        *)
(***************************************************************************)
EXTENDS Naturals

CONSTANTS SlotPaths,    \* the slots of the document, by the path of their artifact
          Agents,       \* contents of agent artifacts, by hash
          ActionsOf,    \* [Agents -> the action ids an agent references]
          ActionIds,
          Hashes,       \* config hashes
          SlotRef,      \* [SlotPaths -> what the document says: agent, config, archetype]
          MaxChanges,   \* bound: changes of the store or of the registry
          Missing

VARIABLES artifacts,    \* InMemorySlotArtifactStore
  registry,             \* the action ids the host's registry has a function for
  closures,             \* actionClosureBySlot: the reports the host has made
  engineReady,          \* an engine was created
  engineAnswer,         \* what createEngine or the last invocation came to
  cleared, shrunk, relabelled,  \* since the engine: store cleared, a function removed,
                        \*   an artifact registered again for another archetype
  changes

artifactVars ==
  <<artifacts, registry, closures, engineReady, engineAnswer, cleared, shrunk, relabelled, changes>>

Records == [agent : Agents, config : Hashes, archetype : {"approval", "intake"}]
Rejections ==
  {"not found", "artifact hash", "config hash", "archetype", "closure incomplete"}

ASSUME ArtifactsAssumption ==
  /\ SlotRef \in [SlotPaths -> Records] /\ Missing \notin Records
  /\ ActionsOf \in [Agents -> SUBSET ActionIds] /\ MaxChanges \in Nat

ArtifactsTypeOK ==
  /\ artifacts \in [SlotPaths -> Records \cup {Missing}]
  /\ registry \subseteq ActionIds
  /\ closures \in [SlotPaths -> [agent : Agents, complete : BOOLEAN] \cup {Missing}]
  /\ engineReady \in BOOLEAN
  /\ engineAnswer \in Rejections \cup {"none", "ok", "incompatible", "artifact missing"}
  /\ cleared \in BOOLEAN /\ shrunk \in BOOLEAN /\ relabelled \in BOOLEAN
  /\ changes \in 0 .. MaxChanges

ArtifactsInit ==
  /\ artifacts = [p \in SlotPaths |-> Missing] /\ registry = ActionIds
  /\ closures = [p \in SlotPaths |-> Missing]
  /\ engineReady = FALSE /\ engineAnswer = "none"
  /\ cleared = FALSE /\ shrunk = FALSE /\ relabelled = FALSE /\ changes = 0

-----------------------------------------------------------------------------
Changed == changes < MaxChanges /\ changes' = changes + 1

(* register: what is there may be registered again, for another archetype   *)
(* too; another agent or config is refused and changes nothing.             *)
MayOverwrite(p, r) == TRUE
MayRegister(p, r) ==
  artifacts[p] # Missing => artifacts[p].agent = r.agent /\ artifacts[p].config = r.config

Register(p, r) ==
  /\ Changed /\ MayRegister(p, r)
  /\ artifacts' = [artifacts EXCEPT ![p] = r]
  /\ relabelled' = (relabelled \/ (artifacts[p] # Missing /\ artifacts[p] # r))
  /\ UNCHANGED <<registry, closures, engineReady, engineAnswer, cleared, shrunk>>

Clear ==
  /\ Changed
  /\ artifacts' = [p \in SlotPaths |-> Missing]
  /\ cleared' = TRUE
  /\ UNCHANGED <<registry, closures, engineReady, engineAnswer, shrunk, relabelled>>

EditRegistry(a) ==
  /\ Changed
  /\ registry' = IF a \in registry THEN registry \ {a} ELSE registry \cup {a}
  /\ shrunk' = (shrunk \/ a \in registry)
  /\ UNCHANGED <<artifacts, closures, engineReady, engineAnswer, cleared, relabelled>>

(* inspectSlotActionClosure, on the agent the host has for the slot         *)
Complete(agent) == ActionsOf[agent] \subseteq registry

InspectClosure(p, agent) ==
  /\ closures' = [closures EXCEPT ![p] = [agent |-> agent, complete |-> Complete(agent)]]
  /\ UNCHANGED <<artifacts, registry, engineReady, engineAnswer, cleared, shrunk, relabelled, changes>>

-----------------------------------------------------------------------------
(* resolveOrchestratorRuntimeCompatibility, as far as the agents go         *)
Compatible ==
  \A p \in SlotPaths : /\ closures[p] # Missing
                       /\ closures[p].agent = SlotRef[p].agent
                       /\ closures[p].complete

Stored(p) ==
  /\ artifacts[p] # Missing
  /\ artifacts[p].agent = SlotRef[p].agent /\ artifacts[p].config = SlotRef[p].config

CreateEngine ==
  /\ ~engineReady
  /\ engineAnswer' = IF ~Compatible THEN "incompatible"
                     ELSE IF \E p \in SlotPaths : ~Stored(p) THEN "artifact missing" ELSE "ok"
  /\ engineReady' = (engineAnswer' = "ok")
  /\ cleared' = FALSE /\ shrunk' = (\E p \in SlotPaths : ~Complete(SlotRef[p].agent))
  /\ relabelled' = (\E p \in SlotPaths :
                      Stored(p) /\ artifacts[p].archetype # SlotRef[p].archetype)
  /\ UNCHANGED <<artifacts, registry, closures, changes>>

(* The preflights of invokeCanonical, in the order of its tests.            *)
InvokeAgent(p) ==
  /\ engineReady
  /\ engineAnswer' =
       IF artifacts[p] = Missing THEN "not found"
       ELSE IF artifacts[p].agent # SlotRef[p].agent THEN "artifact hash"
       ELSE IF artifacts[p].config # SlotRef[p].config THEN "config hash"
       ELSE IF artifacts[p].archetype # SlotRef[p].archetype THEN "archetype"
       ELSE IF ~Complete(artifacts[p].agent) THEN "closure incomplete" ELSE "ok"
  /\ UNCHANGED <<artifacts, registry, closures, engineReady, cleared, shrunk, relabelled, changes>>

ArtifactsNext ==
  \/ \E p \in SlotPaths, r \in Records : Register(p, r)
  \/ Clear
  \/ \E a \in ActionIds : EditRegistry(a)
  \/ \E p \in SlotPaths, agent \in Agents : InspectClosure(p, agent)
  \/ CreateEngine
  \/ \E p \in SlotPaths : InvokeAgent(p)

ArtifactsSpec == ArtifactsInit /\ [][ArtifactsNext]_artifactVars

-----------------------------------------------------------------------------
(* An engine that was created invokes every slot: its agent is there, is    *)
(* the one the document names and finds its actions, unless the host has    *)
(* cleared the store or taken an action away since the reports it gave, or  *)
(* the archetype, which creation does not look at, is another one           *)
(* (in-memory-demo-runtime-adapter.ts:94-133).                              *)
CreatedEnginesInvoke ==
  engineReady =>
    /\ engineAnswer \in {"not found", "artifact hash", "config hash"} => cleared
    /\ engineAnswer = "archetype" => relabelled \/ cleared
    /\ engineAnswer = "closure incomplete" => shrunk

=============================================================================
