------------------------------ MODULE MCRuntime ------------------------------
(* Agents and options for checking Runtime with TLC.                        *)
EXTENDS Runtime, TLC

CONSTANTS r1, r2, r3, charge, mail, note

RunSymmetry == Permutations(Runs)

(* The policy pack without rules, and one that denies an action, hands      *)
(* another over and caps the external calls.                                *)
NoPack == [actionRules |-> <<>>, sideEffectRules |-> <<>>]

Rule(subject, allow, handoff, cap) ==
  [subject |-> subject, environments |-> {}, allow |-> allow,
   requireHandoff |-> handoff, maxCalls |-> cap]

PackCap == 1
StrictPack ==
  [actionRules |-> <<Rule(note, FALSE, FALSE, NoCap)>>,
   sideEffectRules |-> <<Rule("external", TRUE, FALSE, PackCap),
                         Rule("write", TRUE, TRUE, NoCap)>>]

(* An agent that loops in "work" and closes in "wrap". `charge' calls out,  *)
(* `mail' writes, any other action only computes.                           *)
AgentStates == {"work", "wrap"}
AgentLists ==
  [on_enter |-> [s \in AgentStates |-> <<>>],
   actions  |-> [s \in AgentStates |-> IF s = "work" THEN <<charge>> ELSE <<>>],
   on_exit  |-> [s \in AgentStates |-> IF s = "work" THEN <<>> ELSE <<mail>>]]
AgentTargets ==
  [s \in AgentStates |-> IF s = "work" THEN {"work", "wrap"} ELSE {NoMatch}]
AgentSideEffect ==
  [a \in Actions |-> CASE a = charge -> "external" [] a = mail -> "write"
                       [] OTHER -> "none"]

(* The same agent where both actions call out and may not answer in time.   *)
CallingOut == [a \in Actions |-> IF a \in {charge, mail} THEN "external" ELSE "none"]
SlowOutcomes ==
  [a \in Actions |-> IF a = charge THEN {"ok", "timeout", "conflict"}
                     ELSE {"ok", "timeout"}]

NoKeys == [a \in Actions |-> NoKey]
AllOutcomes == [a \in Actions |-> OutcomeKinds]
FewOutcomes ==
  [a \in Actions |-> IF a = charge THEN {"ok", "timeout", "conflict"} ELSE {"ok"}]
TimeoutOnly ==
  [a \in Actions |-> IF a = charge THEN {"ok", "timeout"} ELSE {"ok"}]
OkOnly == [a \in Actions |-> {"ok"}]

(* Handlers with error codes of their own, and handlers that may answer the *)
(* two codes the runtime itself gives a meaning.                            *)
PlainCodes == {"failed"}
AnyCodes == {"failed"} \cup BranchedCodes

(* `charge' and `mail' under one explicit key: the second one conflicts.   *)
CONSTANT card
CardKey == [a \in Actions |-> IF a \in {charge, mail} THEN card ELSE NoKey]

(* `charge' answers with a key of its own.                                  *)
ChargeSupplies == [a \in Actions |-> IF a = charge THEN card ELSE NoKey]

(* An agent that can end in every way: "wrap" is final, "desk" hands off,   *)
(* "jam" has nowhere to go, `fax' has no handler, and "work" may name a     *)
(* state that is not there.                                                 *)
CONSTANT fax
FullStates == {"work", "wrap", "desk", "jam", "odd"}
FullLists ==
  [on_enter |-> [s \in FullStates |-> IF s = "odd" THEN <<fax>> ELSE <<>>],
   actions  |-> [s \in FullStates |->
                   IF s = "work" THEN <<charge>> ELSE IF s = "wrap" THEN <<mail>> ELSE <<>>],
   on_exit  |-> [s \in FullStates |-> IF s = "desk" THEN <<note>> ELSE <<>>]]
FullTargets ==
  [s \in FullStates |->
     IF s = "work" THEN {"work", "wrap", "desk", "jam", "odd", Missing} ELSE {NoMatch}]

=============================================================================
