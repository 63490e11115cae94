---------------------------- MODULE CompiledAgents ----------------------------
(***************************************************************************)
(* The agents the rule compiler makes of pack configurations, as the       *)
(* runtime runs them.  A compiled agent is a graph of states; in each the  *)
(* handlers of a host settle the facts the guards of the state ask for,    *)
(* and the first transition whose guard holds is taken.  The compiler also *)
(* writes test cases: a trial is a run of one of them, with handlers that  *)
(* keep the facts of its input as the demo handlers do.                    *)
(***************************************************************************)
EXTENDS Naturals, Sequences, FiniteSets, FiniteSetsExt, Absence

CONSTANT Configs     \* pack configurations: kind and strategies

VARIABLES config,    \* the configuration that was compiled
          trial,     \* the test case being run, or None
          entry,     \* the state the intent of the run starts in
          facts,     \* what the context says: "true", "false" or nothing
          at,        \* the current state
          trail,     \* the states a trial has been in
          status

agentVars == <<config, trial, entry, facts, at, trail, status>>

-----------------------------------------------------------------------------
(* Guards as the compiler writes them.  evaluateExpression reads literals   *)
(* and equalities; a guard it cannot read, like `<`, is passed over.        *)
Always       == [fact |-> "nothing", says |-> "true"]
Is(f)        == [fact |-> f, says |-> "true"]
IsNot(f)     == [fact |-> f, says |-> "false"]
Below(f)     == [fact |-> f, says |-> "less"]
Never        == [fact |-> "nothing", says |-> "false"]

To(s)        == [when |-> Always, to |-> s]
If(guard, s) == [when |-> guard, to |-> s]

Holds(guard, said) ==
  \/ guard = Always
  \/ guard.says # "less" /\ guard.fact \in DOMAIN said /\ said[guard.fact] = guard.says

FinalStates == {"done", "complete", "stopped"}

RequestAgent ==
  [classify_request |->
      <<If(Is("missing_required_info"), "collect_required_info"), To("check_order")>>,
   collect_required_info |-> <<If(Is("requires_handoff"), "handoff"), To("check_order")>>,
   check_order |-> <<If(IsNot("order_found"), "handoff"), If(Is("api_failed"), "handoff"),
                     To("evaluate_rules")>>,
   evaluate_rules |-> <<If(Is("high_risk"), "handoff"), If(Is("rule_conflict"), "handoff"),
                        If(Is("requires_handoff"), "handoff"), To("execute_resolution")>>,
   execute_resolution |-> <<If(Is("api_failed"), "handoff"), To("done")>>,
   done |-> <<>>, handoff |-> <<>>]

(* A policy that approves before it asks for conflicts and risks            *)
ApprovingFirst ==
  <<If(Is("low_risk"), "auto_approved"), If(Is("policy_conflict"), "handoff"),
    If(Is("high_risk"), "human_review"), If(Is("decision_reason_required"), "rejected"),
    To("human_review")>>
PolicyTransitions ==
  <<If(Is("policy_conflict"), "handoff"), If(Is("high_risk"), "human_review"),
    If(Is("decision_reason_required"), "rejected"), If(Is("low_risk"), "auto_approved"),
    To("human_review")>>

ApprovalAgent ==
  [collect_request |-> <<To("collect_evidence")>>,
   collect_evidence |-> <<If(Is("requires_human_review"), "handoff"), To("validate_evidence")>>,
   validate_evidence |-> <<If(Is("missing_evidence"), "collect_evidence"),
                           If(IsNot("evidence_valid"), "handoff"), To("evaluate_policy")>>,
   evaluate_policy |-> PolicyTransitions,
   auto_approved |-> <<To("done")>>, rejected |-> <<To("done")>>,
   human_review |-> <<To("handoff")>>, done |-> <<>>, handoff |-> <<>>]

(* no_answer_with_reason is what no other strategy asks for.                *)
Reply(strategy) == IF strategy \in {"ask_clarification", "handoff"} THEN strategy ELSE "no_answer"

KnowledgeAgent(c) ==
  [classify_question |->
      <<If(Is("sensitive_question"), IF c.sensitive = "handoff" THEN "handoff" ELSE "no_answer"),
        To("collect_question_context")>>,
   collect_question_context |-> <<To("retrieve_knowledge")>>,
   retrieve_knowledge |->
      <<If(IsNot("knowledge_hit"), Reply(c.noAnswer)), To("evaluate_confidence")>>,
   evaluate_confidence |->
      <<If(Below("confidence_score"), Reply(c.lowConfidence)), To("check_source_policy")>>,
   check_source_policy |->
      <<If(IF c.unverified THEN Never ELSE IsNot("source_verified"), "no_answer"),
        If(IF c.cite THEN Below("demo_source_count") ELSE Never, "no_answer"),
        To("generate_answer")>>,
   generate_answer |-> <<To("done")>>, ask_clarification |-> <<To("done")>>,
   no_answer |-> <<To("done")>>, handoff |-> <<To("done")>>, done |-> <<>>]

Otherwise(strategy, target) ==
  CASE strategy = "handoff" -> "handoff" [] strategy = "stop_with_reason" -> "stopped"
    [] OTHER -> target
Exhausted(strategy) == IF strategy = "stop_with_reason" THEN "stopped" ELSE "handoff"

InvalidTarget(c) == IF c.invalid = "handoff" THEN "handoff" ELSE "request_correction"
DuplicateTarget(c) ==
  CASE c.duplicate = "handoff" -> "handoff" [] c.duplicate = "reject_duplicate" -> "stopped"
    [] OTHER -> "confirm_record"
CompletionTarget(c) == IF c.confirm THEN "confirm_record" ELSE "complete"

IntakeAgent(c) ==
  [start |-> <<To("collect_fields")>>, collect_fields |-> <<To("validate_fields")>>,
   validate_fields |->
      <<If(IsNot("fields_valid"), InvalidTarget(c)), To("detect_missing")>>,
   detect_missing |->
      <<If(Is("missing_fields"), Otherwise(c.incomplete, "request_clarification")),
        To("check_duplicate")>>,
   check_duplicate |->
      <<If(Is("duplicate_detected"), DuplicateTarget(c)), To(CompletionTarget(c))>>,
   request_clarification |->
      <<If(Is("clarification_budget_exhausted"), Exhausted(c.incomplete)), To("collect_fields")>>,
   request_correction |->
      <<If(Is("clarification_budget_exhausted"), "handoff"), To("collect_fields")>>,
   confirm_record |-> <<If(Is("record_confirmed"), "complete"), To("request_clarification")>>,
   complete |-> <<>>, handoff |-> <<>>, stopped |-> <<>>]

RemediationTarget(c) ==
  CASE c.remediation = "handoff" -> "handoff"
    [] c.remediation = "mock_safe_attempt" -> "mock_safe_remediation"
    [] OTHER -> "suggest_remediation"

VerificationTarget(c) == IF c.verify THEN "verify_resolution" ELSE "complete"

ValidationTransitions(c) ==
  LET more    == If(Is("missing_signals"), "request_more_signals")
      invalid == If(IsNot("signals_valid"), "handoff")
      unsaid  == If(IsNot("evidence_available"), "request_more_signals")
      go      == To("run_diagnostic_checks")
  IN  IF c.evidence THEN <<more, invalid, unsaid, go>> ELSE <<more, invalid, go>>

DiagnosticAgent(c) ==
  [start |-> <<To("collect_signals")>>, collect_signals |-> <<To("validate_signals")>>,
   validate_signals |-> ValidationTransitions(c),
   run_diagnostic_checks |->
      <<If(Is("diagnostic_budget_exhausted"), Exhausted(c.inconclusive)),
        If(Is("diagnostic_check_failed"), Otherwise(c.checkFailure, "run_diagnostic_checks")),
        To("evaluate_diagnosis")>>,
   evaluate_diagnosis |->
      <<If(Is("diagnosis_inconclusive"), Otherwise(c.inconclusive, "request_more_signals")),
        If(Is("diagnosis_known"), RemediationTarget(c)), To("handoff")>>,
   request_more_signals |->
      <<If(Is("diagnostic_budget_exhausted"), Exhausted(c.inconclusive)), To("collect_signals")>>,
   suggest_remediation |-> <<To(VerificationTarget(c))>>,
   mock_safe_remediation |->
      <<If(Is("remediation_attempts_exhausted"), "handoff"), To(VerificationTarget(c))>>,
   verify_resolution |-> <<If(Is("resolution_verified"), "complete"), To("handoff")>>,
   complete |-> <<>>, handoff |-> <<>>, stopped |-> <<>>]

Agent(c) ==
  CASE c.kind = "request" -> RequestAgent [] c.kind = "approval" -> ApprovalAgent
    [] c.kind = "knowledge" -> KnowledgeAgent(c) [] c.kind = "intake" -> IntakeAgent(c)
    [] c.kind = "diagnostic" -> DiagnosticAgent(c)

(* A guard that is the literal false is written to the YAML unquoted; what  *)
(* comes back is not a string, and the compilation fails on its own output. *)
Compilable(c) ==
  \A s \in DOMAIN Agent(c) : \A i \in DOMAIN Agent(c)[s] : Agent(c)[s][i].when # Never

Entries(c) ==
  CASE c.kind = "request" -> {"classify_request"} [] c.kind = "approval" -> {"collect_request"}
    [] c.kind = "knowledge" -> {"classify_question", "collect_question_context", "handoff"}
    [] OTHER -> {"start"}
(* A strategy may be any word; the rest of a configuration is a yes or a no. *)
AgentsAssumption ==
  \A c \in Configs :
    /\ c.kind \in {"request", "approval", "knowledge", "intake", "diagnostic"}
    /\ c.kind = "knowledge" => c.cite \in BOOLEAN /\ c.unverified \in BOOLEAN
    /\ c.kind = "intake" => c.confirm \in BOOLEAN
    /\ c.kind = "diagnostic" => c.evidence \in BOOLEAN /\ c.verify \in BOOLEAN
    /\ None \notin DOMAIN Agent(c)
-----------------------------------------------------------------------------
(* The facts the guards of a state ask for, and their defaults.             *)
Consulted(c, s) == {Agent(c)[s][i].when.fact : i \in DOMAIN Agent(c)[s]} \ {"nothing"}
Facts(c) == UNION {Consulted(c, s) : s \in DOMAIN Agent(c)}

Default(c, f) ==
  IF c.kind = "knowledge" \/ f = "order_found" THEN "unsaid"
  ELSE IF \/ f \in {"fields_valid", "signals_valid", "diagnosis_known", "resolution_verified"}
          \/ f = "evidence_available"
       THEN "true" ELSE "false"

(* A test case: the facts of its input and the state its outcome names.     *)
Case(name, given, expects) == [name |-> name, given |-> given, expects |-> expects]

ApprovalCases ==
  {Case("approved", [low_risk |-> "true", evidence_valid |-> "true"], "auto_approved"),
   Case("ask_more", [missing_evidence |-> "true"], "collect_evidence"),
   Case("high_risk", [high_risk |-> "true", evidence_valid |-> "true"], "human_review"),
   Case("conflict", [policy_conflict |-> "true", evidence_valid |-> "true"], "handoff"),
   Case("rejected", [decision_reason_required |-> "true", evidence_valid |-> "true"], "rejected")}

(* Nothing in these inputs is a fact a guard asks for.                      *)
RequestCases ==
  {Case("shipping", <<>>, "done"), Case("refund_high_value", <<>>, "handoff"),
   Case("missing_order_id", <<>>, "collect_required_info"),
   Case("api_failure", <<>>, "handoff")}

Sourced(hit, confidence, count, verified) ==
  [knowledge_hit |-> hit, confidence_score |-> confidence, demo_source_count |-> count,
   source_verified |-> verified]

KnowledgeCases ==
  {Case("known", Sourced("true", "true", "true", "true"), "generate_answer"),
   Case("low_confidence", Sourced("true", "less", "true", "true"), "ask_clarification"),
   Case("no_answer", Sourced("false", "less", "less", "false"), "no_answer"),
   Case("sensitive", [sensitive_question |-> "true", knowledge_hit |-> "false"], "handoff"),
   Case("no_source", Sourced("true", "true", "less", "false"), "no_answer")}

IntakeCases(c) ==
  {Case("complete", [record_confirmed |-> "true"], "complete"),
   Case("missing", [missing_fields |-> "true"], "request_clarification"),
   Case("invalid", [fields_valid |-> "false"], InvalidTarget(c)),
   Case("budget", [missing_fields |-> "true", clarification_budget_exhausted |-> "true"],
        Exhausted(c.incomplete)),
   Case("duplicate", [duplicate_detected |-> "true"], DuplicateTarget(c)),
   Case("confirmation", [record_confirmed |-> "false"], CompletionTarget(c))}

DiagnosticCases(c) ==
  {Case("known", [resolution_verified |-> "true"], "complete"),
   Case("missing", [missing_signals |-> "true"], "request_more_signals"),
   Case("inconclusive", [diagnosis_inconclusive |-> "true"],
        Otherwise(c.inconclusive, "request_more_signals")),
   Case("check_failure", [diagnostic_check_failed |-> "true"],
        Otherwise(c.checkFailure, "run_diagnostic_checks")),
   Case("budget", [diagnostic_budget_exhausted |-> "true"], Exhausted(c.inconclusive)),
   Case("mock_remediation", [diagnosis_known |-> "true", resolution_verified |-> "true"],
        VerificationTarget(c)),
   Case("attempts_exhausted", [remediation_attempts_exhausted |-> "true"], "handoff"),
   Case("no_evidence", [evidence_available |-> "false"], "request_more_signals")}

Cases(c) ==
  CASE c.kind = "request" -> RequestCases [] c.kind = "approval" -> ApprovalCases
    [] c.kind = "knowledge" -> KnowledgeCases [] c.kind = "intake" -> IntakeCases(c)
    [] c.kind = "diagnostic" -> DiagnosticCases(c)
-----------------------------------------------------------------------------
Said == {"true", "false", "less", "unsaid"}
NoFacts == [f \in {} |-> "unsaid"]

AgentTypeOK ==
  /\ config \in Configs /\ Compilable(config) /\ trial \in Cases(config) \cup {None}
  /\ {entry, at} \cup trail \subseteq DOMAIN Agent(config)
  /\ facts \in [Facts(config) -> Said]
  /\ status \in {"running", "completed", "handoff", "stuck", "failed"}

Started(c, s, k, given) ==
  /\ config = c /\ entry = s /\ at = s /\ trial = k /\ status = "running"
  /\ facts = [f \in Facts(c) |-> IF f \in DOMAIN given THEN given[f] ELSE Default(c, f)]
  /\ trail = IF k = None THEN {} ELSE {s}

AgentInit ==
  \E c \in {x \in Configs : Compilable(x)} :
    \/ \E s \in Entries(c) : Started(c, s, None, NoFacts)
    \/ \E k \in Cases(c), s \in Entries(c) :
         s \notin {"collect_question_context", "handoff"} /\ Started(c, s, k, k.given)

(* What the handlers of a state may say of the facts its guards ask for.    *)
Sayings(f) ==
  {"true", IF f \in {"confidence_score", "demo_source_count"} THEN "less" ELSE "false"}
HostSays ==
  {[f \in DOMAIN facts |-> IF f \in DOMAIN answers THEN answers[f] ELSE facts[f]] :
     answers \in {x \in [Consulted(config, at) -> Said] :
                    \A f \in DOMAIN x : x[f] \in Sayings(f) \cup {facts[f]}}}

(* The demo handlers keep what the input says and have an answer for the    *)
(* rest.                                                                    *)
DemoSays ==
  [f \in DOMAIN facts |->
     IF f \in Consulted(config, at) /\ facts[f] = "unsaid"
     THEN IF f = "sensitive_question" THEN "false" ELSE "true"
     ELSE facts[f]]

(* One state of executeRun: its handlers, then its transitions in order; a  *)
(* state is final or a handoff only for a run that has nowhere to go.       *)
Target(said) ==
  LET edges == Agent(config)[at]
      open  == {i \in DOMAIN edges : Holds(edges[i].when, said)}
  IN  IF open = {} THEN None ELSE edges[Min(open)].to

Enter(said) ==
  /\ facts' = said
  /\ IF Target(said) # None
     THEN /\ at' = Target(said) /\ status' = status
          /\ trail' = IF trial = None THEN trail ELSE trail \cup {at'}
     ELSE /\ status' = CASE at \in FinalStates -> "completed" [] at = "handoff" -> "handoff"
                          [] OTHER -> "stuck"
          /\ UNCHANGED <<at, trail>>

Visit ==
  /\ status = "running"
  /\ \E said \in (IF trial = None THEN HostSays ELSE {DemoSays}) : Enter(said)
  /\ UNCHANGED <<config, trial, entry>>

(* A handler fails or is missing, or the steps of a loop have run out.      *)
GiveUp ==
  /\ status = "running" /\ trial = None
  /\ status' = "failed"
  /\ UNCHANGED <<config, trial, entry, facts, at, trail>>

AgentNext == Visit \/ GiveUp
AgentSpec == AgentInit /\ [][AgentNext]_agentVars

-----------------------------------------------------------------------------
Unless(f) == facts[f] # "true"
NotDenied(f) == facts[f] # "false"

(* Whatever the handlers say and however the run loops, an agent commits    *)
(* itself only where its facts allow it: no path through the compiled graph *)
(* leads around a check.  A clarifying intent enters past the check for     *)
(* sensitive questions (knowledge-answering-compiler.ts:33).  The graphs of *)
(* requests and approvals read no rule, so for them the configuration adds  *)
(* nothing to the facts: without autoApproveLowRisk a low risk is still     *)
(* approved (approval-decision-compiler.ts:69, 118).                        *)
CommitsAsConfigured ==
  /\ at = "execute_resolution" =>
       NotDenied("order_found") /\ Unless("high_risk") /\ Unless("rule_conflict")
         /\ Unless("requires_handoff")
  /\ at = "auto_approved" =>
       /\ facts["low_risk"] = "true" /\ facts["evidence_valid"] = "true"
       /\ \A f \in {"missing_evidence", "policy_conflict", "high_risk", "requires_human_review"} :
            Unless(f)
  /\ at = "generate_answer" =>
       /\ NotDenied("knowledge_hit") /\ NotDenied("source_verified")
       /\ entry = "classify_question" => Unless("sensitive_question")
  /\ at = "complete" /\ config.kind = "intake" =>
       /\ facts["fields_valid"] = "true" /\ Unless("missing_fields")
       /\ Unless("duplicate_detected") \/ DuplicateTarget(config) = "confirm_record"
       /\ (config.confirm \/ ~Unless("duplicate_detected")) => facts["record_confirmed"] = "true"
  /\ at = "complete" /\ config.kind = "diagnostic" =>
       /\ Unless("diagnosis_inconclusive") /\ facts["diagnosis_known"] = "true"
       /\ facts["signals_valid"] = "true" /\ Unless("diagnostic_check_failed")
       /\ config.evidence => facts["evidence_available"] = "true"
       /\ config.verify => facts["resolution_verified"] = "true"

(* No state but a final one or a handoff leaves a run without a next step.  *)
NeverStuck == status # "stuck"

(* The cases whose input names no fact a guard asks for, whose guard is not *)
(* read, or whose outcome is fixed although the configuration chose another *)
Unmet ==
  {"refund_high_value", "missing_order_id", "api_failure", "low_confidence"} \cup
  (CASE config.kind = "knowledge" ->
          (IF Reply(config.noAnswer) = "no_answer" THEN {} ELSE {"no_answer"}) \cup
          (IF config.sensitive = "handoff" THEN {} ELSE {"sensitive"})
     [] config.kind = "intake" ->
          IF Otherwise(config.incomplete, "request_clarification") = "request_clarification"
          THEN {} ELSE {"missing"}
     [] config.kind = "diagnostic" ->
          (CASE RemediationTarget(config) = "suggest_remediation" -> {"attempts_exhausted"}
             [] RemediationTarget(config) = "handoff" -> {"known", "mock_remediation"}
             [] OTHER -> {}) \cup
          (IF config.evidence THEN {} ELSE {"no_evidence"})
     [] OTHER -> {})

(* The run of a compiled test case comes by the state its outcome names     *)
(* before it ends or turns in a loop, but for the cases listed.             *)
CasesComeTrue ==
  /\ trial # None /\ trial.name \notin Unmet
  /\ Target(DemoSays) \in trail \cup {None}
  => trial.expects \in trail

(* An agent commits itself only where its facts and, of the kinds whose     *)
(* graphs read rules, its configuration allow it, and is never stuck; and   *)
(* its own test cases show what they say.                                   *)
AgentsDecideAsConfigured == CommitsAsConfigured /\ NeverStuck /\ CasesComeTrue

(* knowledge-answering-config.ts:90: below the threshold the answer must    *)
(* ask clarification, hand off, or refuse with reason.                      *)
LowConfidenceNeverAnswers == at = "generate_answer" => facts["confidence_score"] # "less"

=============================================================================
