------------------------------ MODULE MCAuthoring ------------------------------
(***************************************************************************)
(* What authors make before anything runs, part by part: the builder's     *)
(* studio (Studio) and its scenario workbench (Workbench), pack            *)
(* configurations and the agents compiled of them (RuleImpacts,            *)
(* CompiledAgents), the desk on which configurations are edited            *)
(* (CreatorDesk) and the commands that compile them into files             *)
(* (CompileCommands), composition plans (CompositionCompiler),             *)
(* orchestrator profiles (OrchestratorCompiler), AI drafts of the form of  *)
(* the builder and the agents made of it (BuiltAgents, DraftDesk) and DSL  *)
(* documents (DslDocuments). The parts share no state: a behaviour moves   *)
(* one and leaves the others where they start.                             *)
(***************************************************************************)
EXTENDS RuleImpacts, Workbench, Studio, CreatorDesk, CompileCommands,
        CompositionCompiler, OrchestratorCompiler, DraftDesk, Sequences, TLC

VARIABLES part, document

vars == <<part, studioVars, workbenchVars, compositionVars, orchestratorVars,
          agentVars, creatorVars, commandVars, draftVars, document>>

-----------------------------------------------------------------------------
(* The workbench: the cases of three compositions, of which the third       *)
(* allows no previews                                                       *)
CasesOf   == ("a" :> {"k1", "k2"}) @@ ("b" :> {"k3"}) @@ ("c" :> {})
FirstCase == ("a" :> "k1") @@ ("b" :> "k3") @@ ("c" :> "k1")

(* Composition plans: slots an author may get right or wrong                *)
PackConfig(archetype, adapters, good) ==
  [archetype |-> archetype, valid |-> TRUE, named |-> TRUE, adapters |-> adapters,
   compiles |-> good]
Slot(id, role, archetype, pack_, safe) ==
  [id |-> id, role |-> role, archetype |-> archetype, config |-> pack_, safe |-> safe]
Sound(archetype) == PackConfig(archetype, "mock", TRUE)
MCSlotChoices ==
  {Slot("desk", "primary", "approval", Sound("approval"), TRUE),
   Slot("desk2", "primary", "request", Sound("request"), TRUE),
   Slot("know", "supporting", "knowledge", Sound("knowledge"), TRUE),
   Slot("know", "supporting", "knowledge", Sound("approval"), TRUE),
   Slot("k2", "supporting", "knowledge", PackConfig("knowledge", "mock", FALSE), TRUE),
   Slot("k3", "supporting", "knowledge", PackConfig("knowledge", "http", TRUE), TRUE),
   Slot("k/4", "supporting", "knowledge", Sound("knowledge"), FALSE),
   Slot("req", "supporting", "request", Sound("request"), TRUE)}
Scope(type, id) == [type |-> type, at |-> id]
MCOverlayRefs ==
  {[archetype |-> "audit", scope |-> Scope("slot", "know")],
   [archetype |-> "audit", scope |-> Scope("scenario", "")],
   [archetype |-> "intake", scope |-> Scope("scenario", "")]}
Between(id, from, to) == [id |-> id, from |-> from, to |-> to]
MCRouteChoices == {Between("r1", "desk", "know"), Between("r1", "desk", "gone")}
MCBindingRefs  == {Between("b1", "know", "desk"), Between("b1", "k2", "desk")}
MCPattern == [primary |-> "approval", supporting |-> {"knowledge", "request"},
            crossCutting |-> {"audit"}]
Products == {"approval", "knowledge", "request"}
Host(workbench, crossCutting, available) ==
  [compiler |-> Products, workbench |-> workbench, crossCutting |-> crossCutting,
   available |-> available]
MCSupportContexts ==
  {Host(Products, {"audit"}, TRUE), Host(Products, {"audit"}, FALSE),
   Host({"approval"}, {"audit", "access"}, TRUE), Host(Products, {"audit", "access"}, TRUE)}

(* Orchestrator profiles over a plan of three slots and two routes          *)
MCTerminal == ("$scenario_done" :> "completed") @@ ("$fail_closed" :> "failed_closed")
Effect(type, target, returnTo) == [type |-> type, target |-> target, returnTo |-> returnTo]
MCRouteEffects ==
  {Effect("invoke_slot", "stock", "desk"), Effect("invoke_slot", "stock", "policy"),
   Effect("invoke_slot", "$scenario_done", "desk"),
   Effect("resume_caller", "desk", "desk"), Effect("terminate", "$scenario_done", "desk"),
   Effect("fail_closed", "$fail_closed", "desk")}
ProfileSlots(callers) ==
  [s \in DeskSlots |->
     [accepts |-> {"known"},
      callableBy |-> CASE s = "desk" -> {} [] s = "policy" -> {"desk"} [] OTHER -> callers]]
MCSlotProfiles == {ProfileSlots({"desk"}), ProfileSlots({"desk", "policy"})}
MCBindings == {Between("b1", "stock", "desk") @@ [required |-> TRUE],
             Between("b1", "policy", "desk") @@ [required |-> TRUE],
             Between("b2", "policy", "cellar") @@ [required |-> FALSE]}
Step(from, to, mode_) == [from |-> from, to |-> to, mode |-> mode_]
MCPlanChoices ==
  {Step(f, t, IF t \in DeskSlots THEN "return_to_caller" ELSE "terminate_scenario") :
     f \in DeskSlots, t \in {"desk", "stock"} \cup DOMAIN Terminal}
  \cup {Step("desk", "stock", "terminate_scenario"),
        Step("desk", "$scenario_done", "return_to_caller")}
MCProfileChoices ==
  {[outcome |-> "known", priority |-> p, effect |-> e] : p \in {10, 20}, e \in RouteEffects}
  \cup {[outcome |-> "odd", priority |-> 10, effect |-> Effect("terminate", "$scenario_done", "desk")]}

(* Pack configurations: one of each kind with the rules of the samples, and *)
(* for each rule another that differs in it alone; the threshold is in      *)
(* hundredths                                                               *)
RequestPolicy ==
  [kind |-> "request", orderLookup |-> TRUE, shippingLookup |-> TRUE, refundRequest |-> TRUE,
   returnRequest |-> TRUE, handoff |-> TRUE, autoRefundWhenNotShipped |-> TRUE,
   autoRefundMaxAmount |-> 300, shippedOrderStrategy |-> "require_return_first",
   expiredAfterSaleStrategy |-> "ask_for_more_info", apiFailureStrategy |-> "retry_then_handoff",
   highValueRefund |-> TRUE, complaint |-> TRUE, orderNotFound |-> TRUE, ruleConflict |-> TRUE,
   maxUserRetryCount |-> 2]
ApprovalPolicy ==
  [kind |-> "approval", autoApproveLowRisk |-> TRUE, lowRiskMaxAmount |-> 300,
   missingEvidenceStrategy |-> "ask_for_more_info",
   highRiskStrategy |-> "require_human_approval", policyConflictStrategy |-> "handoff",
   requireReasonForRejection |-> TRUE]
KnowledgePolicy ==
  [kind |-> "knowledge", minConfidence |-> 72, lowConfidence |-> "ask_clarification",
   noAnswer |-> "no_answer_with_reason", sensitive |-> "handoff", cite |-> TRUE,
   unverified |-> FALSE]
IntakePolicy ==
  [kind |-> "intake", requiredFields |-> "some", maxClarificationRounds |-> 2,
   incomplete |-> "ask_missing_fields", invalid |-> "ask_correction",
   duplicate |-> "warn_and_confirm", confirm |-> TRUE]
DiagnosticPolicy ==
  [kind |-> "diagnostic", requiredSignals |-> "some", maxDiagnosticRounds |-> 3,
   maxRemediationAttempts |-> 1, inconclusive |-> "ask_more_signals", checkFailure |-> "retry",
   remediation |-> "suggest_only", evidence |-> TRUE, verify |-> TRUE]
Differing(policy, values) ==
  {policy} \cup UNION {{[policy EXCEPT ![rule] = v] : v \in values[rule]} : rule \in DOMAIN values}
MCConfigs ==
  Differing(RequestPolicy,
    [rule \in DOMAIN RequestPolicy \ {"kind"} |->
       CASE rule \in {"autoRefundMaxAmount", "maxUserRetryCount"} -> {0}
         [] rule \in {"shippedOrderStrategy", "expiredAfterSaleStrategy", "apiFailureStrategy"}
              -> {"handoff"}
         [] OTHER -> {FALSE}])
  \cup Differing(ApprovalPolicy,
    [autoApproveLowRisk |-> {FALSE}, lowRiskMaxAmount |-> {0},
     missingEvidenceStrategy |-> {"handoff"},
     highRiskStrategy |-> {"handoff", "reject_with_reason"},
     policyConflictStrategy |-> {"fail_closed_error"}, requireReasonForRejection |-> {FALSE}])
  \cup Differing(KnowledgePolicy,
    [minConfidence |-> {100}, lowConfidence |-> {"handoff", "no_answer"},
     noAnswer |-> {"handoff", "ask_clarification"}, sensitive |-> {"no_answer"},
     cite |-> {FALSE}, unverified |-> {TRUE}])
  \cup Differing(IntakePolicy,
    [requiredFields |-> {"none"}, maxClarificationRounds |-> {0},
     incomplete |-> {"handoff", "stop_with_reason"}, invalid |-> {"handoff"},
     duplicate |-> {"handoff", "reject_duplicate"}, confirm |-> {FALSE}])
  \cup Differing(DiagnosticPolicy,
    [requiredSignals |-> {"none"}, maxDiagnosticRounds |-> {0}, maxRemediationAttempts |-> {0},
     inconclusive |-> {"handoff", "stop_with_reason"},
     checkFailure |-> {"handoff", "stop_with_reason"},
     remediation |-> {"handoff", "mock_safe_attempt"}, evidence |-> {FALSE}, verify |-> {FALSE}])
  \cup {[IntakePolicy EXCEPT !.duplicate = "reject_duplicate", !.confirm = FALSE],
        [DiagnosticPolicy EXCEPT !.checkFailure = "handoff", !.remediation = "mock_safe_attempt"]}

(* The Creator Workbench and the compile commands: two archetypes to edit;  *)
(* the samples, whose rules say where their values come from, and what an   *)
(* author or an AI may have made of them                                    *)
Field(from) == [source |-> from, flagged |-> from = "inferredByAI"]
Sample(archetype, rule) ==
  [archetype |-> archetype, rule |-> Field(rule), template |-> Field("defaultFromPack"),
   adapter |-> "mock", marked |-> FALSE, auto |-> "read", publishable |-> TRUE,
   environment |-> "demo", handoff |-> TRUE, capability |-> TRUE, strategies |-> TRUE,
   dsl |-> TRUE]
Request == Sample("request", "confirmedByUser")
MCDefaults == ("request" :> Request) @@ ("knowledge" :> Sample("knowledge", "defaultFromPack"))
Filled ==
  {[Request EXCEPT !.environment = e, !.rule = Field(r), !.template = Field("inferredByAI")] :
     e \in {"demo", "production"},
     r \in {"inferredByAI", "requiredButMissing", "confirmedByUser"}}
  \cup
  {[Request EXCEPT !.environment = "production", !.rule = Field(r), !.template = Field(t)] :
     r, t \in {"inferredByAI", "requiredButMissing", "confirmedByUser"}}
Odd ==
  {[Sample("diagnostic", "confirmedByUser") EXCEPT !.marked = TRUE],
   [Sample("diagnostic", "confirmedByUser") EXCEPT !.strategies = FALSE],
   [Request EXCEPT !.publishable = FALSE], [Request EXCEPT !.handoff = FALSE],
   [Request EXCEPT !.auto = "write"], [Request EXCEPT !.capability = FALSE],
   [Request EXCEPT !.adapter = "real_placeholder"],
   [Request EXCEPT !.adapter = "real_placeholder", !.environment = "production"],
   [Request EXCEPT !.rule.flagged = TRUE, !.environment = "production"],
   [Sample("knowledge", "confirmedByUser") EXCEPT !.dsl = FALSE],
   Sample("process", "confirmedByUser"), Sample("unknown", "confirmedByUser")}
PackOf(c, mode_) == [kind |-> "pack", config |-> c, mode |-> mode_]
Peers ==
  {PackOf(Request, "publish"), [kind |-> "orchestrator", sound |-> TRUE],
   [kind |-> "composition", sound |-> TRUE], [kind |-> "composition", sound |-> FALSE]}
MCGivenTo ==
  [one |-> Peers \cup {PackOf(c, "publish") : c \in Filled \cup Odd}, two |-> Peers]

(* AI drafts: the form the builder opens with, tags the panel takes and     *)
(* refuses, and what a real provider may draft, well or not                 *)
MCOpening ==
  [name |-> "string", version |-> "string", intents |-> {"shipping_query", "refund_request"},
   skills |-> {"query_order", "query_shipping_status", "create_refund_request",
               "create_support_ticket"},
   window |-> 7, handoff |-> None]
Tags(scenario, capabilities, approval, brief, provider) ==
  [scenario |-> scenario, capabilities |-> capabilities, approval |-> approval,
   brief |-> brief, provider |-> provider]
MCDefaultTags == Tags("ecommerce_support", MCOpening.skills, FALSE, "days", "mock")
MCTagChoices ==
  {MCDefaultTags, Tags("ecommerce_support", {"query_order"}, TRUE, "plain", "mock"),
   Tags("ecommerce_support", {"render_customer_reply"}, FALSE, "plain", "mock"),
   Tags("ecommerce_support", {}, FALSE, "plain", "mock"),
   Tags("ecommerce_support", {"query_order"}, FALSE, "plain", "real")}
Draft(scenario, intents, skills, window_, used) ==
  [scenario |-> scenario, intents |-> intents, skills |-> skills, window |-> window_,
   handoff |-> "risk", states |-> {"triage"}, used |-> used, entered |-> {"triage"}]
MCLlmDrafts ==
  {Draft("custom", {"refund_request"}, {"create_refund_request"}, None, {}),
   Draft("ecommerce_support", {"return_request", "handoff"}, {"create_return_request"}, 30, {}),
   Draft("ecommerce_support", {"refund_request"}, {"create_refund_request", "wire_money"}, 30, {}),
   Draft("ecommerce_support", {"handoff"}, {"query_order"}, 30, {"create_support_ticket"})}

(* DSL documents: two names with one base, one that is the numbered form of *)
(* that base, and a word of the language                                    *)
Base ==
  ("DeviceType" :> "device_type") @@ ("device-type" :> "device_type")
    @@ ("device_type_2" :> "device_type_2") @@ ("zhuangtai" :> "u_72b6_6001")
Names == DOMAIN Base
Alias == ("zhuangtai" :> "states")
Words == {"DeviceType", "device_type_2"}
Ideographs == {"zhuangtai"}
Values == {"x", "intent"}
FirstName == "DeviceType"
MaxParts == 4
MaxMoves == 2
Condition(kind, path, value) == [form |-> kind, path |-> path, value |-> value]
Conditions ==
  {Condition("none", <<>>, None), Condition("otherwise", <<>>, None),
   Condition("bare", <<"intent">>, "x")}
  \cup {Condition("compare", path, "x") :
          path \in {<<"DeviceType">>, <<"device-type">>, <<"zhuangtai">>,
                   <<"intent", "name">>, <<"order", "intent">>}}
  \cup {Condition("compare", <<"intent">>, "intent")}

Doc == INSTANCE DslDocuments

ASSUME
  /\ TextsAssumption /\ CasesAssumption /\ NoneAssumption
  /\ AgentsAssumption /\ CommandsAssumption /\ CreatorAssumption
  /\ Doc!NamesAssumption

-----------------------------------------------------------------------------
First(S) == CHOOSE x \in S : TRUE

Init ==
  /\ part \in {"studio", "workbench", "compositions", "orchestrators", "agents",
              "creator", "commands", "drafts", "documents"}
  /\ IF part = "studio" THEN StudioInit ELSE Opened(First(Forms))
  /\ IF part = "workbench" THEN WorkbenchInit ELSE Selected(First(Compositions))
  /\ CompositionInit /\ OrchestratorInit
  /\ IF part = "agents" THEN AgentInit
     ELSE Started(KnowledgePolicy, "handoff", None, NoFacts)
  /\ CreatorInit
  /\ IF part = "commands" THEN CommandsInit
     ELSE Given([c \in Commands |-> [kind |-> "composition", sound |-> TRUE]],
                    [c \in Commands |-> [force |-> FALSE, dry |-> FALSE]])
  /\ DraftInit /\ Doc!DocumentInit
  /\ part # "compositions" => support = First(SupportContexts)
  /\ part # "orchestrators" => profile.slots = First(SlotProfiles)

Next ==
  /\ UNCHANGED part
  /\ \/ /\ part = "studio" /\ StudioNext
        /\ UNCHANGED <<workbenchVars, compositionVars, orchestratorVars,
                       agentVars, creatorVars, commandVars, draftVars, document>>
     \/ /\ part = "workbench" /\ WorkbenchNext
        /\ UNCHANGED <<studioVars, compositionVars, orchestratorVars,
                       agentVars, creatorVars, commandVars, draftVars, document>>
     \/ /\ part = "compositions" /\ CompositionNext
        /\ UNCHANGED <<studioVars, workbenchVars, orchestratorVars,
                       agentVars, creatorVars, commandVars, draftVars, document>>
     \/ /\ part = "orchestrators" /\ OrchestratorNext
        /\ UNCHANGED <<studioVars, workbenchVars, compositionVars,
                       agentVars, creatorVars, commandVars, draftVars, document>>
     \/ /\ part = "agents" /\ AgentNext
        /\ UNCHANGED <<studioVars, workbenchVars, compositionVars,
                       orchestratorVars, creatorVars, commandVars, draftVars,
                       document>>
     \/ /\ part = "creator" /\ CreatorNext
        /\ UNCHANGED <<studioVars, workbenchVars, compositionVars,
                       orchestratorVars, agentVars, commandVars, draftVars,
                       document>>
     \/ /\ part = "commands" /\ CommandsNext
        /\ UNCHANGED <<studioVars, workbenchVars, compositionVars,
                       orchestratorVars, agentVars, creatorVars, draftVars,
                       document>>
     \/ /\ part = "drafts" /\ DraftNext
        /\ UNCHANGED <<studioVars, workbenchVars, compositionVars,
                       orchestratorVars, agentVars, creatorVars, commandVars,
                       document>>
     \/ /\ part = "documents" /\ Doc!DocumentNext
        /\ UNCHANGED <<studioVars, workbenchVars, compositionVars,
                       orchestratorVars, agentVars, creatorVars, commandVars,
                       draftVars>>

Spec == Init /\ [][Next]_vars

-----------------------------------------------------------------------------
(* Each part keeps to its types.                                            *)
AuthoringTypeOK ==
  /\ part = "studio" => StudioTypeOK
  /\ part = "workbench" => WorkbenchTypeOK
  /\ part = "compositions" => CompositionTypeOK
  /\ part = "orchestrators" => OrchestratorTypeOK
  /\ part = "agents" => AgentTypeOK
  /\ part = "creator" => CreatorTypeOK
  /\ part = "commands" => CommandsTypeOK
  /\ part = "drafts" => DraftTypeOK
  /\ part = "documents" => Doc!DocumentTypeOK

(* What the creator is told of the transitions a rule affects is so, but    *)
(* for the rules RuleImpacts lists, most of them; what a draft changes of   *)
(* the form is told, an offered one makes a valid agent, agents keep to     *)
(* their forms, and a document means after it is made canonical what its    *)
(* author wrote.                                                            *)
WrittenIsMeant ==
  /\ part = "agents" => ImpactsAreTold
  /\ part = "drafts" =>
       /\ DiffTellsWhatApplyDoes /\ OffersMakeAgents
       /\ GeneratingHasRequest /\ AgentsKeepForms
  /\ part = "documents" => Doc!DocumentsMeanWhatTheySay

=============================================================================
