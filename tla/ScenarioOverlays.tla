--------------------------- MODULE ScenarioOverlays ---------------------------
(***************************************************************************)
(* The overlays of an orchestrator document and what they decide at the    *)
(* stages of a scenario (packages/scenario-orchestrator-engine-demo/src/   *)
(* overlay-evaluator.ts, called by overlayDecision of the engine). Each    *)
(* overlay has scopes, an enforcement mode and an evaluator injected under *)
(* its id; the document lists them in an order the author chose.           *)
(***************************************************************************)
EXTENDS Naturals, Sequences, FiniteSets, SequencesExt

CONSTANTS OverlayChoices,   \* overlays an author may list
          AdapterModes,     \* publicExposure.mode of the runtime adapter
          MaxOverlays

VARIABLES overlays, adapterMode

overlayVars == <<overlays, adapterMode>>

(* A slot or route scope names something; "here" is the slot invoked or the *)
(* route selected, "there" another one.                                     *)
OverlayScopes ==
  [type : {"scenario"}, at : {"everywhere"}] \cup [type : {"slot", "route"}, at : {"here", "there"}]
Modes == {"deny_override", "require_handoff", "audit_required", "adapter_boundary",
          "feedback_capture"}
OverlayStages == {"scenario_start", "slot_before", "route_before", "terminal_before"}

ASSUME OverlayAssumption ==
  /\ MaxOverlays \in Nat
  /\ \A o \in OverlayChoices :
       /\ o.scopes \subseteq OverlayScopes /\ o.mode \in Modes
       /\ o.says \in {"allow", "deny", "handoff", "nothing"}

(* Where the engine says that an audit reference is available.              *)
AuditAvailable(stage) == stage \in {"route_before", "terminal_before"}

OverlayTypeOK ==
  /\ overlays \in Seq(OverlayChoices) /\ Len(overlays) <= MaxOverlays
  /\ adapterMode \in AdapterModes
  /\ \A i \in DOMAIN overlays :
       /\ overlays[i].scopes \subseteq OverlayScopes /\ overlays[i].mode \in Modes
       /\ overlays[i].says \in {"allow", "deny", "handoff", "nothing"}

-----------------------------------------------------------------------------

Applies(overlay, stage) ==
  \E scope \in overlay.scopes :
    \/ scope.type = "scenario"
    \/ scope.type = "slot" /\ stage = "slot_before" /\ scope.at = "here"
    \/ scope.type = "route" /\ stage = "route_before" /\ scope.at = "here"

(* contractDecision ?? evaluator(...); "nothing": no evaluator is registered *)
(* under the id of the overlay, which is looked for first.                  *)
Decision(overlay, stage) ==
  CASE overlay.says = "nothing" -> "unknown"
    [] overlay.says # "nothing" /\ overlay.mode = "audit_required"
         /\ ~ AuditAvailable(stage) -> "deny"
    [] overlay.says # "nothing" /\ overlay.mode = "adapter_boundary"
         /\ adapterMode # "demo_only" -> "deny"
    [] OTHER -> overlay.says

(* Decisions after which no later overlay is asked.                         *)
StopsAtHandoff == {"deny", "unknown", "handoff"}
Stops == {"deny", "unknown"}

Applying(list, stage) == {i \in DOMAIN list : Applies(list[i], stage)}
Stopping(list, stage) == {i \in Applying(list, stage) : Decision(list[i], stage) \in Stops}

(* The first deny ends the evaluation, as does an unknown overlay; a        *)
(* handoff stands unless a later overlay denies.                            *)
Evaluated(list, stage) ==
  LET stopping == Stopping(list, stage)
  IN  IF stopping # {}
      THEN Decision(list[CHOOSE i \in stopping : \A j \in stopping : i <= j], stage)
      ELSE IF \E i \in Applying(list, stage) : Decision(list[i], stage) = "handoff"
      THEN "handoff" ELSE "allow"

OverlayInit == overlays = <<>> /\ adapterMode \in AdapterModes

ListOverlay(o) ==
  /\ Len(overlays) < MaxOverlays
  /\ overlays' = Append(overlays, o)
  /\ UNCHANGED adapterMode

OverlayNext == \E o \in OverlayChoices : ListOverlay(o)

OverlaySpec == OverlayInit /\ [][OverlayNext]_overlayVars

-----------------------------------------------------------------------------
Strictness == [allow |-> 0, handoff |-> 1, deny |-> 2, unknown |-> 2]

(* An overlay with only slot or route scopes is silent while the scenario   *)
(* starts and while it ends: nothing but a scenario-wide overlay stops a    *)
(* completed run.                                                           *)
ScopedOverlaysKeepToTheirStage ==
  \A s \in {"scenario_start", "terminal_before"} :
    Evaluated(overlays, s) # "allow" =>
      \E i \in DOMAIN overlays : \E scope \in overlays[i].scopes : scope.type = "scenario"

(* One overlay more never relaxes what a scenario may do at any stage, and  *)
(* neither does the order in which the document lists them.                 *)
AddedOverlayTightens ==
  \A s \in OverlayStages :
    /\ Strictness[Evaluated(overlays, s)] <= Strictness[Evaluated(overlays', s)]
    /\ Strictness[Evaluated(Reverse(overlays'), s)] = Strictness[Evaluated(overlays', s)]

(* Overlays only tighten, and one scoped to another slot or route never     *)
(* decides here.                                                            *)
OverlaysKeepTheirPlace ==
  []ScopedOverlaysKeepToTheirStage /\ [][AddedOverlayTightens]_overlayVars

=============================================================================
