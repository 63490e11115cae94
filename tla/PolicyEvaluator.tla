--------------------------- MODULE PolicyEvaluator ---------------------------
(***************************************************************************)
(* The decision a policy pack takes on one action before it is executed:   *)
(* evaluatePolicyForAction of packages/runtime/src/policy-evaluator.ts.    *)
(*                                                                         *)
(* A pack holds two lists of rules. Later rules override earlier ones: of  *)
(* the rules that match, only the last one counts. The rule for the action *)
(* itself is looked at first, then the rule for the action's side-effect   *)
(* class, which may also cap the external calls of the run.                *)
(*                                                                         *)
(* Handoff rules, reason codes and the handoff payload only word a         *)
(* decision that is already taken and are left out.                        *)
(***************************************************************************)
EXTENDS Naturals, Sequences

CONSTANT NoCap          \* a side-effect rule without maxCalls

SideEffects == {"none", "read", "write", "external"}
Effects     == {"allow", "deny", "handoff"}

(* A rule without environments applies in every environment.               *)
MatchesEnvironment(rule, env) ==
  rule.environments = {} \/ env \in rule.environments

(* The indices of the rules for `subject' that apply in `env'.              *)
Matching(rules, subject, env) ==
  { i \in DOMAIN rules : /\ rules[i].subject = subject
                         /\ MatchesEnvironment(rules[i], env) }

FirstIndex(indices) == CHOOSE i \in indices : \A j \in indices : i <= j

(* [...rules].reverse().find(...): the last matching rule decides.         *)
LastIndex(indices) == CHOOSE i \in indices : \A j \in indices : j <= i

Denies(rules, subject, env) ==
  LET m == Matching(rules, subject, env)
  IN  m # {} /\ ~ rules[LastIndex(m)].allow

RequiresHandoff(rules, subject, env) ==
  LET m == Matching(rules, subject, env)
  IN  m # {} /\ rules[LastIndex(m)].requireHandoff

CapPassed(rules, subject, env, externalCallsUsed) ==
  LET m == Matching(rules, subject, env)
  IN  /\ m # {}
      /\ rules[LastIndex(m)].maxCalls # NoCap
      /\ externalCallsUsed > rules[LastIndex(m)].maxCalls

(* maxCalls counts the external calls of the whole run, whatever class the *)
(* rule is about.                                                          *)
CapReached(rules, subject, env, externalCallsUsed) ==
  LET m == Matching(rules, subject, env)
  IN  /\ m # {}
      /\ rules[LastIndex(m)].maxCalls # NoCap
      /\ externalCallsUsed >= rules[LastIndex(m)].maxCalls

(* The order of the tests is the order of the early returns.               *)
PolicyEffect(pack, env, action, sideEffect, externalCallsUsed) ==
  IF Denies(pack.actionRules, action, env) THEN "deny"
  ELSE IF RequiresHandoff(pack.actionRules, action, env) THEN "handoff"
  ELSE IF \/ Denies(pack.sideEffectRules, sideEffect, env)
          \/ CapReached(pack.sideEffectRules, sideEffect, env, externalCallsUsed)
       THEN "deny"
  ELSE IF RequiresHandoff(pack.sideEffectRules, sideEffect, env) THEN "handoff"
  ELSE "allow"

=============================================================================
