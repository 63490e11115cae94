------------------------------ MODULE MCSlotParts ------------------------------
(***************************************************************************)
(* What happens around one slot of a scenario, part by part: the calls on  *)
(* the adapter (SlotAdapter), the actions of one invocation                *)
(* (SlotDispatch), the projection of its answer to an outcome              *)
(* (OutcomeProjection), the overlays decided before it                     *)
(* (ScenarioOverlays), data handed back to a caller (ScenarioBindings),    *)
(* the artifacts the slots are run from (SlotArtifacts), and the policy    *)
(* pack its runtime asks about every action (PolicyPacks). The parts share *)
(* no state: a behaviour moves one and leaves the others where they start. *)
(***************************************************************************)
EXTENDS SlotAdapter, SlotDispatch, SlotArtifacts, PolicyPacks, OutcomeProjection,
        ScenarioOverlays, ScenarioBindings, TLC

CONSTANTS firstCaller, secondCaller, thirdCaller

(* Two requests share a key, one has a key of its own, one fails its       *)
(* preflight and one comes with a key that is not its own.                 *)
RequestKey ==
  [q \in Requests |-> IF q \in {"complaint", "complaint-late"} THEN "k1"
                        ELSE IF q = "policy" THEN "k2" ELSE "k3"]

AnyOutcome == [q \in Requests |-> OutcomeKinds]

VARIABLE part

partsVars == <<part, vars, projectionVars, dispatchVars, overlayVars, bindingVars,
               artifactVars, pack>>

-----------------------------------------------------------------------------
(* Rules an author may write, beside the two every demo contract has.       *)
Term(source, operator, value) == [source |-> source, operator |-> operator, value |-> value]
Rule(priority, outcome, terms) == [priority |-> priority, outcome |-> outcome, all |-> terms]
FinalDone    == Term("runtime_final_state", "equals", "done")
StatusHanded == Term("runtime_status", "equals", "handoff_required")

MCRuleChoices ==
  {Rule(1, "approved", {FinalDone}), Rule(2, "approved", {FinalDone}),
   Rule(2, "human_review_required", {FinalDone}),
   Rule(2, "human_review_required", {StatusHanded}),
   Rule(3, "human_review_required",
        {Term("control_signal", "equals", "handoff_required"), StatusHanded}),
   Rule(3, "approved", {Term("output_path", "is_true", "absent")}),
   Rule(1, "human_review_required", {Term("error_code", "equals", "E_ACTION")}),
   Rule(1, "odd", {Term("output_path", "exists", "absent")}),
   Rule(4, "approved", {Term("output_path", "equals", "approved")})}
MCAcceptedSets == {{"approved"}, {"approved", "human_review_required"}, {"approved", "odd"}}

MCReferenced == {{"look"}, {"look", "pay"}, {"look", "gone"}, {"pay", "sign"}}
MCClassified == {("look" :> 1) @@ ("pay" :> 3) @@ ("sign" :> 5) @@ ("gone" :> 0),
               ("look" :> 0) @@ ("pay" :> 3), "look" :> 1}

Scope(type, at) == [type |-> type, at |-> at]
MCOverlayChoices ==
  [scopes : {{Scope("scenario", "everywhere")}, {Scope("slot", "here")},
             {Scope("slot", "there"), Scope("route", "here")}},
   mode : {"deny_override", "require_handoff", "audit_required", "adapter_boundary"},
   says : {"allow", "deny", "handoff", "nothing"}]

Bind(from, to, required) == [from |-> from, to |-> to, required |-> required]
MCBindingChoices ==
  {Bind(<<"a">>, <<"x">>, TRUE), Bind(<<"a", "b">>, <<"x", "y">>, FALSE),
   Bind(<<"c">>, <<"x">>, FALSE), Bind(<<"c">>, <<"z">>, FALSE),
   Bind(<<"a", "b">>, <<"z", "y">>, TRUE)}
MCOutputs ==
  {<<"a">> :> 1, <<"a", "b">> :> 2, (<<"a", "b">> :> 3) @@ (<<"a", "d">> :> 4),
   (<<"a", "d">> :> 2) @@ (<<"c">> :> 5)}
MCCallerInputs == {<<"x", "w">> :> 9, <<"z">> :> 8}

MCActionsOf == ("g1" :> {"pay"}) @@ ("g2" :> {"pay", "look"})
MCSlotRef == ("p1" :> [agent |-> "g1", config |-> "h1", archetype |-> "approval"])
        @@ ("p2" :> [agent |-> "g2", config |-> "h1", archetype |-> "intake"])

MCEnvironmentSets == {{}, {"dev"}, {"prod"}}

-----------------------------------------------------------------------------
First(S) == CHOOSE x \in S : TRUE

PartsInit ==
  /\ part \in {"calls", "projection", "dispatch", "overlays", "bindings", "artifacts", "packs"}
  /\ Init /\ ProjectionInit /\ DispatchInit /\ OverlayInit
  /\ BindingsInit /\ ArtifactsInit /\ PacksInit
  /\ part # "projection" => declared = First(AcceptedSets)
  /\ part # "dispatch" => referenced = First(Referenced) /\ levels = First(Classified)
  /\ part # "overlays" => adapterMode = First(AdapterModes)
  /\ part # "bindings" => callerInput = First(CallerInputs)

PartsNext ==
  /\ UNCHANGED part
  /\ \/ /\ part = "calls" /\ Next
        /\ UNCHANGED <<projectionVars, dispatchVars, overlayVars, bindingVars,
                       artifactVars, pack>>
     \/ /\ part = "projection" /\ ProjectionNext
        /\ UNCHANGED <<vars, dispatchVars, overlayVars, bindingVars, artifactVars,
                       pack>>
     \/ /\ part = "dispatch" /\ DispatchNext
        /\ UNCHANGED <<vars, projectionVars, overlayVars, bindingVars,
                       artifactVars, pack>>
     \/ /\ part = "overlays" /\ OverlayNext
        /\ UNCHANGED <<vars, projectionVars, dispatchVars, bindingVars,
                       artifactVars, pack>>
     \/ /\ part = "bindings" /\ BindingsNext
        /\ UNCHANGED <<vars, projectionVars, dispatchVars, overlayVars,
                       artifactVars, pack>>
     \/ /\ part = "artifacts" /\ ArtifactsNext
        /\ UNCHANGED <<vars, projectionVars, dispatchVars, overlayVars,
                       bindingVars, pack>>
     \/ /\ part = "packs" /\ PacksNext
        /\ UNCHANGED <<vars, projectionVars, dispatchVars, overlayVars,
                       bindingVars, artifactVars>>

Others == <<part, projectionVars, dispatchVars, overlayVars, bindingVars, artifactVars,
            pack>>

(* The fairness of SlotAdapter's FairSpec; the other parts owe nothing.     *)
PartsSpec ==
  /\ PartsInit /\ [][PartsNext]_partsVars
  /\ \A k \in Keys : WF_partsVars(part = "calls" /\ Settle(k) /\ UNCHANGED Others)
  /\ \A who \in Callers :
       WF_partsVars(part = "calls" /\ AnswerCaller(who) /\ UNCHANGED Others)

-----------------------------------------------------------------------------
(* Each part keeps to its types.                                            *)
PartsTypeOK ==
  /\ TypeOK /\ ProjectionTypeOK /\ DispatchTypeOK /\ OverlayTypeOK
  /\ BindingsTypeOK /\ ArtifactsTypeOK

=============================================================================
