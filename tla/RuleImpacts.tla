------------------------------ MODULE RuleImpacts ------------------------------
(***************************************************************************)
(* What the creator is told a rule of a configuration affects, beside what *)
(* changing the rule does to the compiled agent.  An impact names a state  *)
(* and where it may lead; a rule with none says nothing of transitions.    *)
(* The two disagree for most rules: the lists below say for which.         *)
(***************************************************************************)
EXTENDS CompiledAgents

Leads(from, to) == [from |-> from, to |-> to]

(* Rules the graphs of requests and approvals are said to depend on.        *)
RequestImpacts ==
  [shippingLookup |-> {}, refundRequest |-> {},
   orderLookup |-> {Leads("check_order", {"handoff"})},
   returnRequest |-> {Leads("evaluate_rules", {"execute_resolution"})},
   handoff |-> {Leads("evaluate_rules", {"handoff"})},
   autoRefundWhenNotShipped |-> {Leads("evaluate_rules", {"execute_resolution"})},
   autoRefundMaxAmount |-> {Leads("evaluate_rules", {"handoff"})},
   shippedOrderStrategy |-> {Leads("evaluate_rules", {"handoff"})},
   expiredAfterSaleStrategy |-> {Leads("evaluate_rules", {"handoff"})},
   apiFailureStrategy |-> {Leads("check_order", {"handoff"})},
   highValueRefund |-> {Leads("evaluate_rules", {"handoff"})},
   complaint |-> {Leads("classify_request", {"handoff"})},
   orderNotFound |-> {Leads("check_order", {"handoff"})},
   ruleConflict |-> {Leads("evaluate_rules", {"handoff"})},
   maxUserRetryCount |-> {Leads("collect_required_info", {"handoff"})}]

ApprovalImpacts ==
  [autoApproveLowRisk |-> {}, requireReasonForRejection |-> {},
   lowRiskMaxAmount |-> {Leads("evaluate_policy", {"auto_approved", "human_review"})},
   missingEvidenceStrategy |-> {Leads("collect_evidence", {"ask_more_info", "handoff", "rejected"})},
   highRiskStrategy |-> {Leads("evaluate_policy", {"human_review", "rejected"})},
   policyConflictStrategy |-> {Leads("evaluate_policy", {"handoff", "fail_closed"})}]

KnowledgeImpacts ==
  [minConfidence |-> {Leads("evaluate_confidence", {"answer", "ask_clarification", "handoff"})},
   lowConfidence |-> {Leads("evaluate_confidence", {"ask_clarification", "handoff", "no_answer"})},
   noAnswer |-> {Leads("retrieve_knowledge", {"ask_clarification", "handoff", "no_answer"})},
   sensitive |-> {Leads("evaluate_policy", {"handoff", "no_answer", "safe_answer"})},
   cite |-> {}, unverified |-> {}]

IntakeImpacts ==
  [requiredFields |-> {Leads("detect_missing", {"complete", "request_clarification"})},
   maxClarificationRounds |-> {Leads("request_clarification", {"handoff", "stopped"})},
   incomplete |-> {Leads("detect_missing", {"request_clarification", "handoff", "stopped"})},
   invalid |-> {Leads("validate_fields", {"request_correction", "handoff"})},
   duplicate |-> {Leads("check_duplicate", {"confirm_record", "handoff", "stopped"})},
   confirm |-> {Leads("confirm_record", {"complete"})}]

DiagnosticImpacts ==
  [requiredSignals |-> {Leads("validate_signals", {"request_more_signals"})},
   maxDiagnosticRounds |-> {Leads("run_diagnostic_checks", {"handoff", "stopped"})},
   inconclusive |-> {Leads("evaluate_diagnosis", {"request_more_signals", "handoff", "stopped"})},
   checkFailure |-> {Leads("run_diagnostic_checks", {"retry", "handoff", "stopped"})},
   remediation |-> {Leads("evaluate_diagnosis",
                          {"suggest_remediation", "mock_safe_remediation", "handoff"})},
   maxRemediationAttempts |-> {Leads("mock_safe_remediation", {"handoff"})},
   evidence |-> {Leads("validate_signals", {"run_diagnostic_checks"})},
   verify |-> {Leads("verify_resolution", {"complete", "handoff"})}]

Impacts(kind) ==
  CASE kind = "request" -> RequestImpacts [] kind = "approval" -> ApprovalImpacts
    [] kind = "knowledge" -> KnowledgeImpacts [] kind = "intake" -> IntakeImpacts
    [] kind = "diagnostic" -> DiagnosticImpacts

-----------------------------------------------------------------------------
Kinds == {"request", "approval", "knowledge", "intake", "diagnostic"}
Kin(kind) == {c \in Configs : c.kind = kind}
Apart(c, d) == {rule \in DOMAIN c : c[rule] # d[rule]}

(* The states where two configurations that differ in one rule alone part. *)
PartedBy ==
  [kind \in Kinds |->
     [rule \in DOMAIN Impacts(kind) |->
        UNION {{s \in DOMAIN Agent(p[1]) : Agent(p[1])[s] # Agent(p[2])[s]} :
               p \in {q \in Kin(kind) \X Kin(kind) : Apart(q[1], q[2]) = {rule}}}]]

(* Where the transitions of a kind lead, in any of its configurations.      *)
Edges ==
  [kind \in Kinds |->
     UNION {UNION {{<<s, Agent(c)[s][i].to>> : i \in DOMAIN Agent(c)[s]} : s \in DOMAIN Agent(c)} :
            c \in Kin(kind)}]

ToldFrom(kind, rule) == {l.from : l \in Impacts(kind)[rule]}
Untrue(kind, rule) ==
  UNION {{to \in l.to : <<l.from, to>> \notin Edges[kind]} : l \in Impacts(kind)[rule]}

(* The disagreements.  No rule of requests or approvals moves a transition: *)
(* their graphs are literals (request-resolution-compiler.ts:61,            *)
(* approval-decision-compiler.ts:43), and what is read of their rules goes  *)
(* into the metadata, the declared actions and the other artifacts; yet the *)
(* creator is told that highRiskStrategy controls how evaluate_policy leads *)
(* to human_review or rejected (rule-impact.ts:381), and so on.  Idle too   *)
(* are the fields, rounds and attempts of the others, and the threshold,    *)
(* which is written into a guard the evaluator does not read.               *)
Idle ==
  DOMAIN RequestImpacts \cup DOMAIN ApprovalImpacts
    \cup {"minConfidence", "requiredFields", "maxClarificationRounds",
          "requiredSignals", "maxDiagnosticRounds", "maxRemediationAttempts"}

(* Rules that move other states than the creator is told, or more states.   *)
Elsewhere ==
  [sensitive |-> {"classify_question"}, confirm |-> {"check_duplicate"},
   verify |-> {"suggest_remediation", "mock_safe_remediation"},
   cite |-> {"check_source_policy"}, unverified |-> {"check_source_policy"}]
Besides ==
  [incomplete |-> {"request_clarification"},
   inconclusive |-> {"run_diagnostic_checks", "request_more_signals"}]

(* Where impacts say a state leads and no configuration makes it.           *)
LeadsNowhere ==
  [complaint |-> {"handoff"}, missingEvidenceStrategy |-> {"ask_more_info", "rejected"},
   policyConflictStrategy |-> {"fail_closed"}, minConfidence |-> {"answer"},
   sensitive |-> {"handoff", "no_answer", "safe_answer"}, requiredFields |-> {"complete"},
   checkFailure |-> {"retry"}]

(* Each rule is seen in two values with all others alike.                   *)
ASSUME RulesVary ==
  \A kind \in Kinds : \A rule \in DOMAIN Impacts(kind) :
    \E c, d \in Kin(kind) : Apart(c, d) = {rule}

(* What the creator is told of a rule's transitions is wrong for the rules  *)
(* listed, in the way listed, and right for all others: such a rule moves   *)
(* the state it is told to move and no other, and every transition it is    *)
(* told of is one that some configuration has.                              *)
ImpactsAreTold ==
  at = entry =>
    \A rule \in DOMAIN Impacts(config.kind) :
      /\ PartedBy[config.kind][rule] =
           CASE rule \in Idle -> {}
             [] rule \in DOMAIN Elsewhere -> Elsewhere[rule]
             [] rule \in DOMAIN Besides -> ToldFrom(config.kind, rule) \cup Besides[rule]
             [] OTHER -> ToldFrom(config.kind, rule)
      /\ Untrue(config.kind, rule) =
           IF rule \in DOMAIN LeadsNowhere THEN LeadsNowhere[rule] ELSE {}

=============================================================================
