--------------------------- MODULE OutcomeProjection ---------------------------
(***************************************************************************)
(* What a slot's runtime result means to the scenario                      *)
(* (packages/scenario-orchestrator-core/src/outcome-projection.ts): a      *)
(* contract of prioritised rules over the projection evidence, its         *)
(* validation, and its evaluation. An author writes the contract rule by   *)
(* rule.                                                                    *)
(***************************************************************************)
EXTENDS Integers, Sequences, FiniteSets, SequencesExt

CONSTANTS RuleChoices,     \* the rules an author may write
          AcceptedSets,    \* what the slot may declare as its outcomes
          MaxContractRules

(* A priority is a number; a slot declares some outcome.                    *)
ASSUME ProjectionAssumption ==
  /\ \A rule \in RuleChoices : rule.priority \in Int
  /\ \A outcomes \in AcceptedSets : outcomes # {} /\ IsFiniteSet(outcomes)
  /\ MaxContractRules \in Nat

VARIABLES contract, declared

projectionVars == <<contract, declared>>

(* Evidence as normalizeRuntimeResult builds it; the one output marker it   *)
(* ever holds is slotResult.semanticMarker. "true" stands for the boolean,  *)
(* "absent" for a property that is not there.                               *)
Evidence ==
  [runtime_status : {"completed", "handoff_required", "failed"},
   runtime_final_state : {"done", "stopped", "absent"},
   control_signal : {"handoff_required", "absent"},
   error_code : {"E_ACTION", "absent"},
   output_path : {"approved", "human_review_required", "odd", "true", "absent"}]
StringMarkers == {"approved", "human_review_required", "odd"}

-----------------------------------------------------------------------------
Outcomes(rules) == {rules[i].outcome : i \in DOMAIN rules}

ConditionMatches(condition, evidence) ==
  CASE condition.operator = "exists"  -> evidence.output_path # "absent"
    [] condition.operator = "is_true" -> evidence.output_path = "true"
    [] OTHER -> evidence[condition.source] = condition.value

Matches(rules, evidence) ==
  {i \in DOMAIN rules : \A c \in rules[i].all : ConditionMatches(c, evidence)}

Decisive(rules, matches) ==
  {i \in matches : \A j \in matches : rules[j].priority <= rules[i].priority}

(* The outcome the contract names, or why it names none, tested in this     *)
(* order.                                                                   *)
Evaluate(rules, evidence) ==
  LET decisive == Decisive(rules, Matches(rules, evidence))
  IN  IF evidence.output_path \in StringMarkers \ Outcomes(rules) THEN "MARKER_UNKNOWN"
      ELSE IF decisive = {} THEN "NO_MATCH"
      ELSE IF \E i, j \in decisive : i # j THEN "AMBIGUOUS"
      ELSE rules[CHOOSE i \in decisive : TRUE].outcome

Failures == {"MARKER_UNKNOWN", "NO_MATCH", "AMBIGUOUS"}

DoneOnly(rule) ==
  /\ rule.all # {}
  /\ \A c \in rule.all : /\ c.source = "runtime_final_state" /\ c.operator = "equals"
                          /\ c.value = "done"

AcceptedUnranked(rules, outcomes) == rules # <<>> /\ Outcomes(rules) = outcomes

(* No issue of validateSlotOutcomeProjectionContract.                       *)
ContractAccepted(rules, outcomes) ==
  /\ rules # <<>>
  /\ IsInjective([i \in DOMAIN rules |-> rules[i].priority])
  /\ Outcomes(rules) = outcomes
  /\ Cardinality({rules[i].outcome : i \in {j \in DOMAIN rules : DoneOnly(rules[j])}}) <= 1

-----------------------------------------------------------------------------
Condition(source, value) == [source |-> source, operator |-> "equals", value |-> value]

StatusOf(outcome) ==
  IF outcome = "human_review_required" THEN "handoff_required" ELSE "completed"

(* createProjectionContract, for the outcomes in their order.               *)
DemoRule(outcome, place) ==
  [priority |-> place * 10, outcome |-> outcome,
   all |-> {Condition("runtime_status", StatusOf(outcome)),
            Condition("output_path", outcome)}
           \cup (IF outcome = "human_review_required"
                 THEN {Condition("control_signal", "handoff_required")} ELSE {})]

DemoContract(outcomes) ==
  LET order == SetToSeq(outcomes) IN [i \in DOMAIN order |-> DemoRule(order[i], i)]

ProjectionTypeOK ==
  /\ declared \in AcceptedSets /\ Len(contract) <= MaxContractRules
  /\ \A i \in DOMAIN contract :
       contract[i] \in RuleChoices \cup {DemoRule(o, p) : o \in declared, p \in 1 .. MaxContractRules}

ProjectionInit == contract = <<>> /\ declared \in AcceptedSets

AddRule(rule) ==
  /\ Len(contract) < MaxContractRules
  /\ contract' = Append(contract, rule)
  /\ UNCHANGED declared

(* The author starts from the contract of the built-in documents.           *)
StartFromDemo ==
  /\ contract = <<>> /\ Cardinality(declared) <= MaxContractRules
  /\ contract' = DemoContract(declared)
  /\ UNCHANGED declared

ProjectionNext == StartFromDemo \/ \E rule \in RuleChoices : AddRule(rule)

ProjectionSpec == ProjectionInit /\ [][ProjectionNext]_projectionVars

-----------------------------------------------------------------------------
(* No evidence leaves an accepted contract undecided between two rules, so  *)
(* the engine never fails a scenario for ambiguity; and whatever an         *)
(* accepted contract decides is an outcome the slot declares.               *)
AcceptedNeverAmbiguous ==
  ContractAccepted(contract, declared) =>
    \A e \in Evidence : Evaluate(contract, e) \in declared \cup (Failures \ {"AMBIGUOUS"})

(* The built-in contract is accepted for every set of outcomes, and names   *)
(* an outcome only where the slot itself wrote it down as its marker.       *)
DemoOutcomesAreMarked ==
  contract = DemoContract(declared) =>
    /\ ContractAccepted(contract, declared)
    /\ \A e \in Evidence :
         Evaluate(contract, e) \notin Failures => Evaluate(contract, e) = e.output_path

(* A rule added to a contract takes an outcome away from earlier rules only *)
(* where it matches and ranks no lower than the rules that matched.         *)
AddedRuleRespectsRank ==
  contract # <<>> =>
    \A e \in Evidence :
      LET new == contract'[Len(contract')]
      IN  Evaluate(contract, e) \notin Failures /\ Evaluate(contract', e) # Evaluate(contract, e)
          => /\ \A c \in new.all : ConditionMatches(c, e)
             /\ \A i \in Matches(contract, e) : contract[i].priority <= new.priority

(* The slot's rules decide what they are written for: a contract the        *)
(* validator accepted never leaves two outcomes standing, in a demo         *)
(* contract every outcome answers to its marker, and a rule more changes an *)
(* outcome only when it outranks what decided it.                           *)
RulesDecideTheirOwn ==
  /\ [](AcceptedNeverAmbiguous /\ DemoOutcomesAreMarked)
  /\ [][AddedRuleRespectsRank]_projectionVars

=============================================================================
