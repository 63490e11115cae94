-------------------------- MODULE CompositionCompiler --------------------------
(***************************************************************************)
(* From a scenario composition plan to a preview bundle: validation        *)
(* against the plan's pattern, readiness against what the host supports,   *)
(* and one rule compilation per slot, all or nothing                       *)
(* (packages/scenario-composition-core and -compiler).  An author writes   *)
(* the plan piece by piece and compiles when ready.                        *)
(***************************************************************************)
EXTENDS Naturals, Sequences, FiniteSets, SequencesExt

CONSTANTS SlotChoices,     \* the slots an author may write
          OverlayRefs,     \* the cross-cutting overlays an author may list
          RouteChoices, BindingRefs,
          Pattern,         \* the registered pattern: primary, supporting, crossCutting
          ProductArchetypes, CrossCuttingArchetypes,
          SupportContexts, \* what hosts support
          MaxSlots, MaxOverlayRefs, MaxRefs

VARIABLES composition,     \* the plan
          support,         \* the support context of the host
          bundle           \* what the last compilation answered

compositionVars == <<composition, support, bundle>>

TerminalTargets == {"$scenario_done", "$human_handoff", "$fail_closed"}
NoBundle == [ok |-> FALSE, code |-> "none", slots |-> <<>>, index |-> <<>>]

Plans ==
  [slots : Seq(SlotChoices), overlays : Seq(OverlayRefs), routes : Seq(RouteChoices),
   bindings : Seq(BindingRefs)]

CompositionTypeOK ==
  /\ composition \in Plans
  /\ support \in SupportContexts
  /\ bundle.ok \in BOOLEAN /\ bundle.slots \in Seq(SlotChoices)

CompositionInit ==
  /\ composition = [slots |-> <<>>, overlays |-> <<>>, routes |-> <<>>, bindings |-> <<>>]
  /\ support \in SupportContexts
  /\ bundle = NoBundle

-----------------------------------------------------------------------------
Each(list, field) == [i \in DOMAIN list |-> list[i][field]]

(* The slots of a role, in the plan's order: the k-th of them is the one    *)
(* with k of them up to it.                                                 *)
PlacesOf(slots, role) == {i \in DOMAIN slots : slots[i].role = role}
UpTo(places, i) == {j \in places : j <= i}
OfRole(slots, role) ==
  LET places == PlacesOf(slots, role)
  IN  [k \in 1 .. Cardinality(places) |->
         slots[CHOOSE i \in places : Cardinality(UpTo(places, i)) = k]]

(* exactSetMatch: every expected value once, and nothing else               *)
ExactSetMatch(actual, expected) == IsInjective(actual) /\ ToSet(actual) = expected

(* A pack config that validatePackConfig accepts, of the slot's archetype,  *)
(* named as the slot says, with mock adapters only                          *)
ConfigFits(slot) ==
  /\ slot.config.valid /\ slot.config.named
  /\ slot.config.archetype = slot.archetype /\ slot.config.adapters = "mock"

(* (A plan names its primary slot: that primarySlotId is its id is left     *)
(* out.)                                                                    *)
SlotsValid(plan) ==
  /\ IsInjective(Each(plan.slots, "id"))
  /\ Len(OfRole(plan.slots, "primary")) = 1
  /\ \A i \in DOMAIN plan.slots :
       LET slot == plan.slots[i]
       IN  /\ slot.archetype \in ProductArchetypes
           /\ slot.archetype \in IF slot.role = "primary" THEN {Pattern.primary}
                                 ELSE Pattern.supporting
           /\ ConfigFits(slot)
  /\ ExactSetMatch(Each(OfRole(plan.slots, "supporting"), "archetype"), Pattern.supporting)

SlotIds(plan) == ToSet(Each(plan.slots, "id"))

OverlaysValid(plan) ==
  /\ \A i \in DOMAIN plan.overlays :
       LET overlay == plan.overlays[i]
       IN  /\ overlay.archetype \in CrossCuttingArchetypes
           /\ overlay.scope.type = "slot" => overlay.scope.at \in SlotIds(plan)
           /\ overlay.scope.type = "route" =>
                \E j \in DOMAIN plan.routes : plan.routes[j].id = overlay.scope.at
  /\ ExactSetMatch(Each(plan.overlays, "archetype"), Pattern.crossCutting)

RoutesValid(plan) ==
  /\ IsInjective(Each(plan.routes, "id"))
  /\ \A i \in DOMAIN plan.routes :
       /\ plan.routes[i].from \in SlotIds(plan)
       /\ plan.routes[i].to \in SlotIds(plan) \cup TerminalTargets
       /\ plan.routes[i].from # plan.routes[i].to

BindingsValid(plan) ==
  /\ IsInjective(Each(plan.bindings, "id"))
  /\ \A i \in DOMAIN plan.bindings : {plan.bindings[i].from, plan.bindings[i].to} \subseteq SlotIds(plan)

(* validateScenarioComposition                                              *)
PlanValid(plan) ==
  SlotsValid(plan) /\ OverlaysValid(plan) /\ RoutesValid(plan) /\ BindingsValid(plan)

-----------------------------------------------------------------------------
Readiness(plan, host) ==
  LET products == ToSet(Each(plan.slots, "archetype"))
      compiler == products \subseteq host.compiler
      workbench == products \subseteq host.workbench
      overlays == ToSet(Each(plan.overlays, "archetype")) \subseteq host.crossCutting
  IN  IF ~PlanValid(plan) THEN "invalid"
      ELSE IF compiler /\ workbench /\ overlays THEN "compile_ready"
      ELSE IF ~compiler /\ ~workbench THEN "contract_only" ELSE "partially_supported"

Refused(code) == [NoBundle EXCEPT !.code = code]

(* The slot index of the artifacts, in the order the slots were compiled    *)
Index(slots) == [i \in DOMAIN slots |-> [id |-> slots[i].id, config |-> slots[i].config]]

(* The slots compiled before the first that fails, which a compiler that    *)
(* does not fail closed would return                                        *)
CompiledAsFarAs(slots) ==
  LET fails == {i \in DOMAIN slots : ~slots[i].config.compiles}
      n == IF fails = {} THEN Len(slots)
           ELSE (CHOOSE i \in fails : \A j \in fails : i <= j) - 1
      done == SubSeq(slots, 1, n)
  IN  [ok |-> n > 0, code |-> "none", slots |-> done, index |-> Index(done)]

CompiledSlots(slots) ==
  IF \E i \in DOMAIN slots : ~slots[i].config.compiles THEN Refused("PARTIAL_RESULT_NOT_ALLOWED")
  ELSE [ok |-> TRUE, code |-> "none", slots |-> slots, index |-> Index(slots)]

(* compileScenarioCompositionPreview, in the order of its early returns     *)
Preview(plan, host) ==
  IF ~IsInjective(Each(plan.slots, "id")) THEN Refused("SLOT_NAMESPACE_COLLISION")
  ELSE IF ~PlanValid(plan) THEN Refused("COMPILE_INPUT_INVALID")
  ELSE IF \E i \in DOMAIN plan.slots : ~plan.slots[i].safe THEN Refused("OUTPUT_PATH_UNSAFE")
  ELSE IF Readiness(plan, host) # "compile_ready" THEN Refused("NOT_COMPILE_READY")
  ELSE IF ~host.available THEN Refused("COMPILER_NOT_AVAILABLE")
  ELSE CompiledSlots(OfRole(plan.slots, "primary") \o OfRole(plan.slots, "supporting"))

CompilePlan ==
  /\ bundle' = Preview(composition, support)
  /\ UNCHANGED <<composition, support>>

Write(field, item, limit) ==
  /\ Len(composition[field]) < limit
  /\ composition' = [composition EXCEPT ![field] = Append(@, item)]
  /\ UNCHANGED <<support, bundle>>

CompositionNext ==
  \/ \E s \in SlotChoices : Write("slots", s, MaxSlots)
  \/ \E o \in OverlayRefs : Write("overlays", o, MaxOverlayRefs)
  \/ \E r \in RouteChoices : Write("routes", r, MaxRefs)
  \/ \E b \in BindingRefs : Write("bindings", b, MaxRefs)
  \/ CompilePlan

CompositionSpec == CompositionInit /\ [][CompositionNext]_compositionVars

-----------------------------------------------------------------------------
(* A bundle is all of a plan or nothing: its primary slot first, one slot   *)
(* for each archetype of the pattern, every one compiled from the config    *)
(* the index lists for it and none of them able to leave the demo           *)
(* (compile-scenario-composition.ts:154).                                   *)
BundlesAreWhole ==
  IF bundle.ok
  THEN /\ bundle.slots[1].role = "primary" /\ bundle.slots[1].archetype = Pattern.primary
       /\ ToSet(Each(bundle.slots, "archetype")) = {Pattern.primary} \cup Pattern.supporting
       /\ Len(bundle.slots) = 1 + Cardinality(Pattern.supporting)
       /\ ToSet(bundle.slots) \subseteq ToSet(composition.slots)
       /\ \A i \in DOMAIN bundle.slots :
            /\ bundle.index[i].config = bundle.slots[i].config
            /\ bundle.slots[i].config.adapters = "mock"
  ELSE bundle.slots = <<>> /\ bundle.index = <<>>

(* A host that supports more refuses no plan a lesser one compiles.         *)
SupportOnlyHelps ==
  \A less \in SupportContexts : Preview(composition, less).ok =>
    \A more \in SupportContexts :
      /\ less.compiler \subseteq more.compiler /\ less.workbench \subseteq more.workbench
      /\ less.crossCutting \subseteq more.crossCutting /\ (less.available => more.available)
      => Preview(composition, more).ok

(* Both of them: what a plan compiles to, and whether it does.              *)
PlansCompileWhole == BundlesAreWhole /\ SupportOnlyHelps

=============================================================================
