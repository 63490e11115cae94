------------------------------ MODULE PolicyPacks ------------------------------
(* Every policy pack of at most MaxRules rules, written rule by rule, and    *)
(* the decisions the evaluator takes on it.                                 *)
EXTENDS PolicyEvaluator, FiniteSets

CONSTANTS ActionNames, Classes, Environments, MaxRules,
          EnvironmentSets,  \* the environments a rule may name
          Caps,             \* the caps a rule may set on the run's external calls
          MaxCalls          \* the calls a run has made, at most, when it asks

ASSUME PackAssumption == Caps \subseteq Nat /\ MaxCalls \in Nat

VARIABLE pack

RuleFor(subjects, caps) ==
  [subject : subjects, environments : EnvironmentSets,
   allow : BOOLEAN, requireHandoff : BOOLEAN, maxCalls : caps]

ActionRules     == RuleFor(ActionNames, {NoCap})
SideEffectRules == RuleFor(Classes, Caps \cup {NoCap})

RuleCount == Len(pack.actionRules) + Len(pack.sideEffectRules)

PacksInit == pack = [actionRules |-> <<>>, sideEffectRules |-> <<>>]

AddActionRule(rule) ==
  RuleCount < MaxRules /\ pack' = [pack EXCEPT !.actionRules = Append(@, rule)]

AddSideEffectRule(rule) ==
  RuleCount < MaxRules /\ pack' = [pack EXCEPT !.sideEffectRules = Append(@, rule)]

PacksNext ==
  \/ \E rule \in ActionRules : AddActionRule(rule)
  \/ \E rule \in SideEffectRules : AddSideEffectRule(rule)

PacksSpec == PacksInit /\ [][PacksNext]_pack

-----------------------------------------------------------------------------
CallsUsed == 0 .. MaxCalls

EffectStrictness == [allow |-> 0, handoff |-> 1, deny |-> 2]

(* The more external calls a run has made, the stricter the decision: no    *)
(* action that is denied or handed over is allowed again later in the run.  *)
CallsOnlyTighten ==
  \A a \in ActionNames, c \in Classes, e \in Environments, n \in CallsUsed :
    EffectStrictness[PolicyEffect(pack, e, a, c, n)]
      <= EffectStrictness[PolicyEffect(pack, e, a, c, n + 1)]

(* The rules heard on a subject: the one added last alone where it speaks,  *)
(* all the others where it does not.                                        *)
Speaks(rule, subject, e) == rule.subject = subject /\ MatchesEnvironment(rule, e)

Heard(old, new, subject, e) ==
  IF new # old /\ Speaks(new[Len(new)], subject, e) THEN <<new[Len(new)]>> ELSE old

(* The last rule added decides alone, also what earlier ones forbade.       *)
LastSpeaksAlone ==
  \A a \in ActionNames \cup {"unruled"}, c \in Classes, e \in Environments, n \in CallsUsed :
    PolicyEffect(pack', e, a, c, n) =
      PolicyEffect(
        [actionRules |-> Heard(pack.actionRules, pack'.actionRules, a, e),
         sideEffectRules |-> Heard(pack.sideEffectRules, pack'.sideEffectRules, c, e)],
        e, a, c, n)

(* More calls never relax a decision; a rule added last speaks alone for    *)
(* its subject in the environments it names, allows what earlier rules      *)
(* forbade included, and leaves every other decision as it was.             *)
PackSpeaksClearly == []CallsOnlyTighten /\ [][LastSpeaksAlone]_pack

=============================================================================
