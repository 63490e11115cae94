-------------------------- MODULE OrchestratorCompiler --------------------------
(***************************************************************************)
(* From a composition plan and a compile profile to an orchestrator        *)
(* document: two validators, one before the document is bound and one      *)
(* after it, and the engine that takes what both let through for granted.  *)
(* An author writes plan and profile route by route, links slots by data   *)
(* bindings, may hand over a composition result of an earlier plan or one  *)
(* that was edited, and compiles when ready.  The two validators agree in  *)
(* what a valid profile binds to, but for the cases a property lists.      *)
(***************************************************************************)
EXTENDS Naturals, Sequences, FiniteSets, SequencesExt, FiniteSetsExt

CONSTANTS DeskSlots, DeskPrimary,  \* the slots of the plan, and the primary one
          RouteIds,                \* the routes a plan may have
          RouteEffects,            \* the effects a profile may give a route
          PlanChoices,             \* the routes an author may write in a plan
          ProfileChoices,          \* what the author may say of one in the profile
          SlotProfiles,            \* what profiles may say of slots
          Bindings,                \* the data bindings a plan may have
          Outcomes,                \* what slots may come to
          Terminal,                \* the status of each terminal
          NoResult

Modes == {"return_to_caller", "replace_current_flow", "terminate_scenario"}
Ending == {"terminate", "request_handoff", "fail_closed"}

(* The schemas: an effect that ends a scenario names a terminal, and one    *)
(* that invokes may name anything.                                          *)
ASSUME OrchestratorAssumption ==
  /\ DeskPrimary \in DeskSlots /\ DOMAIN Terminal \cap DeskSlots = {}
  /\ RouteIds \subseteq Nat
  /\ PlanChoices \subseteq [from : DeskSlots, to : DeskSlots \cup DOMAIN Terminal, mode : Modes]
  /\ ProfileChoices \subseteq [outcome : Outcomes, priority : Nat, effect : RouteEffects]
  /\ \A e \in RouteEffects :
       /\ e.type \in {"invoke_slot", "resume_caller"} \cup Ending
       /\ e.type \in Ending => e.target \in DOMAIN Terminal

VARIABLES
  plan,       \* the routes of the composition plan
  links,      \* its data bindings
  profile,    \* the compile profile: its version, routes and slots
  supplied,   \* a supplied composition result: the plan it is of, and how it
              \* was edited since; or NoResult
  compiled    \* what the last compilation answered

orchestratorVars == <<plan, links, profile, supplied, compiled>>

PlanRoutes == [id : RouteIds, from : DeskSlots, to : DeskSlots \cup DOMAIN Terminal, mode : Modes]
RouteProfiles ==
  [id : RouteIds, outcome : Outcomes, priority : Nat, effect : RouteEffects]
DocumentRoutes ==
  [id : RouteIds, from : DeskSlots, outcome : Outcomes, priority : Nat,
   effect : RouteEffects]
Alterations == {"none", "removed", "edited", "rehashed"}
(* A semantic version, or one with a label; the document of a profile adds  *)
(* a label of its own.                                                      *)
Versions == {"1.0.0", "1.0.0-rc"}
Profiles == [version : Versions, routes : Seq(RouteProfiles), slots : SlotProfiles]
Results == [routes : Seq(PlanRoutes), bindings : SUBSET Bindings, altered : Alterations]
AnswerCodes ==
  {"none", "composition not ready", "artifact missing", "hash mismatch", "result mismatch",
   "slot mismatch", "route missing or extra", "priority conflict", "profile invalid",
   "document invalid"}
Failed(code) == [ok |-> FALSE, code |-> code, routes |-> <<>>, bindings |-> {}]
NotCompiled == Failed("none")

OrchestratorTypeOK ==
  /\ plan \in Seq(PlanRoutes)
  /\ links \subseteq Bindings
  /\ profile \in Profiles
  /\ supplied = NoResult \/ supplied \in Results
  /\ compiled.ok \in BOOLEAN /\ compiled.code \in AnswerCodes
  /\ compiled.routes \in Seq(DocumentRoutes) /\ compiled.bindings \subseteq Bindings

OrchestratorInit ==
  /\ plan = <<>> /\ links = {}
  /\ \E s \in SlotProfiles :
       profile = [version |-> "1.0.0", routes |-> <<>>, slots |-> s]
  /\ supplied = NoResult
  /\ compiled = NotCompiled

-----------------------------------------------------------------------------
Ids(routes) == [i \in DOMAIN routes |-> routes[i].id]
Supporting == DeskSlots \ {DeskPrimary}
Entry(routes, id) == routes[CHOOSE i \in DOMAIN routes : routes[i].id = id]

(* validateScenarioComposition, as far as routes and bindings go.           *)
PlanAccepted(routes, bindings) ==
  /\ IsInjective(Ids(routes))
  /\ \A b, c \in bindings : b.id = c.id => b = c
  /\ \A b \in bindings : {b.from, b.to} \subseteq DeskSlots
  /\ \A i \in DOMAIN routes :
       /\ routes[i].to \in DeskSlots \cup DOMAIN Terminal
       /\ routes[i].from # routes[i].to

(* effectMatchesPlan                                                        *)
EffectMatches(e, route) ==
  CASE e.type = "invoke_slot" ->
         /\ route.to = e.target /\ route.from = e.returnTo
         /\ route.mode = "return_to_caller"
    [] e.type = "resume_caller" ->
         route.to = DeskPrimary /\ route.mode = "return_to_caller"
    [] OTHER ->
         /\ route.to = e.target /\ route.mode = "terminate_scenario"
         /\ e.type = "terminate" => Terminal[e.target] = "completed"

(* The slot part of a profile: which slots may call which, and the outcomes *)
(* each accepts.                                                            *)
SlotsAligned(slots) ==
  /\ DOMAIN slots = DeskSlots
  /\ \A s \in DeskSlots :
       /\ slots[s].accepts # {}
       /\ slots[s].callableBy = IF s = DeskPrimary THEN {} ELSE {DeskPrimary}

RoutesAligned(p, routes) ==
  \A i \in DOMAIN p.routes :
    LET mine == {j \in DOMAIN routes : routes[j].id = p.routes[i].id}
    IN  /\ mine # {}
        /\ \A j \in mine :
             /\ p.routes[i].outcome \in p.slots[routes[j].from].accepts
             /\ EffectMatches(p.routes[i].effect, routes[j])

DistinctPriorities(routes) ==
  IsInjective([i \in DOMAIN routes |-> routes[i].priority])

ProfileIssue(p, routes) ==
  IF ~SlotsAligned(p.slots) THEN "slot mismatch"
  ELSE IF ToSet(Ids(p.routes)) # ToSet(Ids(routes)) THEN "route missing or extra"
  ELSE IF ~DistinctPriorities(p.routes) THEN "priority conflict"
  ELSE IF ~RoutesAligned(p, routes) THEN "profile invalid"
  ELSE "none"

(* bindScenarioOrchestratorDocument: one route per plan route; the last     *)
(* profile of a route is the one its map keeps.                             *)
BoundRoutes(p, routes) ==
  [i \in DOMAIN routes |->
     LET q == p.routes[Max({j \in DOMAIN p.routes : p.routes[j].id = routes[i].id})]
     IN  [id |-> routes[i].id, from |-> routes[i].from, outcome |-> q.outcome,
          priority |-> q.priority, effect |-> q.effect]]
Bound(p, routes, bindings) ==
  [version |-> IF p.version = "1.0.0" THEN "preview" ELSE "rc-preview",
   slots |-> p.slots, routes |-> BoundRoutes(p, routes), bindings |-> bindings,
   sources |-> [slots |-> DOMAIN p.slots, routes |-> ToSet(Ids(routes)),
                bindings |-> {b.id : b \in bindings}]]

-----------------------------------------------------------------------------
(* validateScenarioOrchestrator                                             *)
Invoked(doc) == {doc[i].effect.target : i \in {j \in DOMAIN doc : doc[j].effect.type = "invoke_slot"}}

MayReturn(doc, r) == r.from \in Supporting /\ r.from \in Invoked(doc)

RouteAllowed(doc, slots, r) ==
  /\ r.outcome \in slots[r.from].accepts
  /\ CASE r.effect.type = "invoke_slot" ->
            /\ r.from = DeskPrimary /\ r.effect.target \in Supporting
            /\ r.effect.returnTo = r.from
            /\ r.from \in slots[r.effect.target].callableBy
       [] r.effect.type = "resume_caller" -> MayReturn(doc, r)
       [] r.effect.type = "terminate" ->
            r.from = DeskPrimary /\ Terminal[r.effect.target] = "completed"
       [] OTHER -> r.effect.target \in DOMAIN Terminal

PrioritiesClash(doc) ==
  \E i, j \in DOMAIN doc : i < j /\ doc[i].from = doc[j].from
    /\ doc[i].outcome = doc[j].outcome /\ doc[i].priority = doc[j].priority

(* hasInvokeCycle: a slot that invocations lead back to.                    *)
Calls(doc, s, t) ==
  \E i \in DOMAIN doc : doc[i].effect.type = "invoke_slot"
    /\ doc[i].from = s /\ doc[i].effect.target = t
InvokeCycle(doc) ==
  \E s \in DeskSlots, S \in SUBSET DeskSlots :
    s \in S /\ \A x \in S : \E y \in S : Calls(doc, x, y)

(* scenarioOrchestratorDocumentSchema: a version has one label at most.     *)
WellFormed(doc) == doc.routes # <<>> /\ doc.version = "preview"

SlotsMatch(doc) ==
  /\ DOMAIN doc.slots = DeskSlots
  /\ \A s \in DeskSlots : s \notin doc.slots[s].callableBy
  /\ \A s \in Supporting : doc.slots[s].callableBy \subseteq {DeskPrimary}

BindingsMatch(doc, bindings) ==
  /\ doc.bindings \subseteq bindings
  /\ {b \in bindings : b.required} \subseteq doc.bindings

ProvenanceCloses(doc, routes, bindings) ==
  /\ doc.sources.slots = DOMAIN doc.slots
  /\ doc.sources.routes = ToSet(Ids(doc.routes)) /\ doc.sources.routes = ToSet(Ids(routes))
  /\ doc.sources.bindings = {b.id : b \in doc.bindings}
  /\ doc.sources.bindings = {b.id : b \in bindings}

(* (The terminals, policies and precedence of a document are the fixed ones,*)
(* and its overlays those of the plan: what is checked of them is left out.)*)
DocumentAccepted(doc, routes, bindings) ==
  /\ WellFormed(doc) /\ SlotsMatch(doc)
  /\ IsInjective(Ids(doc.routes)) /\ ~PrioritiesClash(doc.routes) /\ ~InvokeCycle(doc.routes)
  /\ \A i \in DOMAIN doc.routes : RouteAllowed(doc.routes, doc.slots, doc.routes[i])
  /\ BindingsMatch(doc, bindings) /\ ProvenanceCloses(doc, routes, bindings)

-----------------------------------------------------------------------------
Refuse(code) == compiled' = Failed(code)

(* What is wrong with a supplied result, looked at file by file before it   *)
(* is compared with a fresh compilation of the plan; and what one who       *)
(* trusts its hashes would find.                                            *)
HashIssue(result, routes, bindings) ==
  CASE result = NoResult -> "none"
    [] result.altered = "removed" -> "artifact missing"
    [] result.altered = "edited" -> "hash mismatch"
    [] OTHER -> "none"
SuppliedIssue(result, routes, bindings) ==
  CASE result = NoResult -> "none"
    [] result.altered = "removed" -> "artifact missing"
    [] result.altered = "edited" -> "hash mismatch"
    [] result.altered = "rehashed" -> "result mismatch"
    [] result.routes # routes \/ result.bindings # bindings -> "result mismatch"
    [] OTHER -> "none"

(* compileScenarioOrchestratorPreview: nothing of a compilation that fails  *)
(* is kept.                                                                 *)
CompileDocument ==
  /\ UNCHANGED <<plan, links, profile, supplied>>
  /\ LET doc == Bound(profile, plan, links)
         mismatch == SuppliedIssue(supplied, plan, links)
         issue == IF mismatch # "none" THEN mismatch ELSE ProfileIssue(profile, plan)
     IN  IF ~PlanAccepted(plan, links) THEN Refuse("composition not ready")
         ELSE IF issue # "none" THEN Refuse(issue)
         ELSE IF ~DocumentAccepted(doc, plan, links) THEN Refuse("document invalid")
         ELSE compiled' = [ok |-> TRUE, code |-> "none", routes |-> doc.routes,
                           bindings |-> doc.bindings]

(* An author's edits. (Bounds: plans of several routes are plain, and a     *)
(* result is supplied with a plain version.)                                *)
PlainVersion == profile.version = "1.0.0"
Plain == links = {} /\ PlainVersion /\ SlotsAligned(profile.slots) /\ supplied = NoResult

Writable == {id \in RouteIds : id = Len(plan) + 1 /\ (id > 1 => Plain)}
WriteRoute(id, r, q) ==
  /\ plan' = Append(plan, [id |-> id, from |-> r.from, to |-> r.to, mode |-> r.mode])
  /\ profile' = [profile EXCEPT !.routes =
       Append(@, [id |-> id, outcome |-> q.outcome, priority |-> q.priority, effect |-> q.effect])]
  /\ compiled' = NotCompiled
  /\ UNCHANGED <<links, supplied>>

DropProfile ==
  /\ profile.routes # <<>>
  /\ profile' = [profile EXCEPT !.routes = Front(@)]
  /\ compiled' = NotCompiled
  /\ UNCHANGED <<plan, links, supplied>>

Link(b) ==
  /\ b \notin links /\ Len(plan) < 2
  /\ links' = links \cup {b}
  /\ compiled' = NotCompiled
  /\ UNCHANGED <<plan, profile, supplied>>

Relabel ==
  /\ PlainVersion /\ supplied = NoResult /\ Len(plan) < 2
  /\ profile' = [profile EXCEPT !.version = "1.0.0-rc"]
  /\ compiled' = NotCompiled
  /\ UNCHANGED <<plan, links, supplied>>

SupplyResult ==
  /\ PlainVersion /\ supplied = NoResult /\ PlanAccepted(plan, links) /\ Len(plan) < 2
  /\ \E a \in Alterations :
       supplied' = [routes |-> plan, bindings |-> links, altered |-> a]
  /\ compiled' = NotCompiled
  /\ UNCHANGED <<plan, links, profile>>

OrchestratorNext ==
  \/ \E id \in Writable, r \in PlanChoices, q \in ProfileChoices : WriteRoute(id, r, q)
  \/ \E b \in Bindings : Link(b)
  \/ DropProfile \/ Relabel \/ SupplyResult \/ CompileDocument

OrchestratorSpec == OrchestratorInit /\ [][OrchestratorNext]_orchestratorVars

-----------------------------------------------------------------------------
(* A compiled document is one the scenario engine can run without meeting   *)
(* a case it takes as excluded (ScenarioEngine's DocumentAssumption): the   *)
(* primary calls and terminates, a slot it called returns, and one route at *)
(* most applies at each priority.                                           *)
CompiledDocumentsRun ==
  compiled.ok =>
    /\ \A i \in DOMAIN compiled.routes :
         LET r == compiled.routes[i]
         IN  CASE r.effect.type = "invoke_slot" -> r.from = DeskPrimary /\ r.effect.target # r.from
               [] r.effect.type = "resume_caller" ->
                    r.from # DeskPrimary /\ Calls(compiled.routes, DeskPrimary, r.from)
               [] r.effect.type = "terminate" -> r.from = DeskPrimary
               [] OTHER -> TRUE
    /\ \A i, j \in DOMAIN compiled.routes :
         LET r == compiled.routes[i]  q == compiled.routes[j]
         IN  r.from = q.from /\ r.outcome = q.outcome /\ r.priority = q.priority => i = j

(* A profile the first validator accepts is refused by the second only for  *)
(* what the first does not look at: which slot a route that calls, returns  *)
(* or terminates leaves, that what is called is a slot (compile-profile.ts: *)
(* 48 and 230), a label in its version, and a plan with no route at all     *)
(* (orchestrator-schema.ts:334 and 349).                                    *)
LateRefusalsAreOfDirection ==
  compiled.code = "document invalid" =>
    \/ plan = <<>> \/ profile.version # "1.0.0"
    \/ \E i \in DOMAIN profile.routes :
         LET q == profile.routes[i]  r == Entry(plan, q.id)
         IN  \/ q.effect.type \in {"invoke_slot", "terminate"} /\ r.from # DeskPrimary
             \/ q.effect.type = "invoke_slot" /\ r.to \notin DeskSlots
             \/ q.effect.type = "resume_caller" /\ r.from \notin Invoked(BoundRoutes(profile, plan))

(* Whatever result is handed over, what is compiled is of the plan as it    *)
(* is, with all of its bindings (compile-scenario-orchestrator.ts:90).      *)
CompiledIsOfPlan ==
  compiled.ok =>
    /\ Ids(compiled.routes) = Ids(plan) /\ compiled.bindings = links
    /\ supplied # NoResult =>
         supplied = [routes |-> plan, bindings |-> links, altered |-> "none"]

(* The three together: what the compiler hands on, and why it does not      *)
(* (compile-scenario-orchestrator.ts:90).                                   *)
DocumentsAreSound == CompiledDocumentsRun /\ LateRefusalsAreOfDirection /\ CompiledIsOfPlan

=============================================================================
