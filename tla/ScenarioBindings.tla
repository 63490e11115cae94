--------------------------- MODULE ScenarioBindings ---------------------------
(***************************************************************************)
(* Handing data back to the slot that called (packages/scenario-           *)
(* orchestrator-engine-demo: data-binding-engine.ts and writePath of       *)
(* scenario-context-store.ts). Each return of a supporting slot applies    *)
(* the bindings of that pair of slots in order to the caller's input,      *)
(* which keeps what earlier returns wrote. A document is the set of its    *)
(* scalar leaves: a function from paths to values.                         *)
(***************************************************************************)
EXTENDS Naturals, Sequences, FiniteSets, SequencesExt

CONSTANTS FieldNames,      \* a path is a sequence of them
          BindingChoices,  \* the bindings an author may list
          Outputs,         \* what the supporting slot may answer, as documents
          CallerInputs,    \* what the caller may have been started with
          MaxBindings, MaxReturns, MaxApplications

Paths == Seq(FieldNames)
Scalars == Nat

ASSUME BindingsAssumption ==
  /\ \A b \in BindingChoices : b.from \in Paths /\ b.to \in Paths /\ b.required \in BOOLEAN
  /\ \A doc \in Outputs \cup CallerInputs :
       DOMAIN doc \subseteq Paths /\ \A p \in DOMAIN doc : doc[p] \in Scalars
  /\ {MaxReturns, MaxApplications} \subseteq Nat

VARIABLES bindings,
  calleeOutput,  \* the answer handed back last
  callerInput,   \* slots.<caller>.input
  earlier,       \* callerInput before that answer was handed back
  spent,         \* budget.usage.bindingApplications
  returns, ended \* returns so far, and how the last one ended

bindingVars == <<bindings, calleeOutput, callerInput, earlier, spent, returns, ended>>

Nowhere == [p \in {} |-> 0]

BindingsTypeOK ==
  /\ bindings \in Seq(BindingChoices) /\ calleeOutput \in Outputs \cup {Nowhere}
  /\ DOMAIN callerInput \subseteq Paths
  /\ \A p \in DOMAIN callerInput : callerInput[p] \in Scalars
  /\ spent \in 0 .. MaxApplications /\ returns \in 0 .. MaxReturns
  /\ ended \in {"idle", "returned", "source missing", "collision", "exhausted"}

BindingsInit ==
  /\ bindings = <<>> /\ calleeOutput = Nowhere
  /\ callerInput \in CallerInputs /\ earlier = callerInput
  /\ spent = 0 /\ returns = 0 /\ ended = "idle"

-----------------------------------------------------------------------------
(* readPath: what hangs below a path, or Nowhere.                           *)
At(doc, path) ==
  [q \in {SubSeq(p, Len(path) + 1, Len(p)) : p \in {x \in DOMAIN doc : IsPrefix(path, x)}}
     |-> doc[path \o q]]

(* A proper prefix of the path holds a scalar.                              *)
Collides(doc, path) == \E p \in DOMAIN doc : IsStrictPrefix(p, path)

Overlaid(doc, path, value) ==
  [p \in DOMAIN doc \cup {path \o q : q \in DOMAIN value} |->
     IF \E q \in DOMAIN value : p = path \o q
     THEN value[SubSeq(p, Len(path) + 1, Len(p))] ELSE doc[p]]

(* writePath: the value replaces whatever the path held; one that merges    *)
(* leaves the old leaves beside the new ones.                               *)
WriteMerging(doc, path, value) == Overlaid(doc, path, value)
WritePath(doc, path, value) ==
  Overlaid([p \in {x \in DOMAIN doc : ~IsPrefix(path, x)} |-> doc[p]], path, value)

(* One binding after what those before it have come to.                     *)
Applied(answer, state, b) ==
  LET value == At(answer, b.from)
  IN  IF state.ended # "returned" THEN state
      ELSE IF state.spent = MaxApplications
           THEN [state EXCEPT !.ended = "exhausted"]
      ELSE IF value = Nowhere
           THEN [state EXCEPT !.spent = @ + 1,
                              !.ended = IF b.required THEN "source missing" ELSE @]
      ELSE IF Collides(state.input, b.to)
           THEN [state EXCEPT !.spent = @ + 1, !.ended = "collision"]
      ELSE [state EXCEPT !.spent = @ + 1, !.input = WritePath(@, b.to, value)]

(* The bindings of a list, in its order.                                    *)
AppliedAll(answer, list, start) ==
  LET after[n \in 0 .. Len(list)] ==
        IF n = 0 THEN start ELSE Applied(answer, after[n - 1], list[n])
  IN  after[Len(list)]

ListBinding(b) ==
  /\ returns = 0 /\ Len(bindings) < MaxBindings
  /\ bindings' = Append(bindings, b)
  /\ UNCHANGED <<calleeOutput, callerInput, earlier, spent, returns, ended>>

(* applyIdentityBindings; a binding that fails ends the scenario, with what *)
(* the bindings before it wrote.                                            *)
ReturnToCaller(answer) ==
  /\ ended \in {"idle", "returned"} /\ returns < MaxReturns
  /\ calleeOutput' = answer
  /\ earlier' = callerInput
  /\ returns' = returns + 1
  /\ LET start == [input |-> callerInput, spent |-> spent, ended |-> "returned"]
         after == AppliedAll(answer, bindings, start)
     IN  callerInput' = after.input /\ spent' = after.spent /\ ended' = after.ended
  /\ UNCHANGED bindings

BindingsNext ==
  \/ \E b \in BindingChoices : ListBinding(b)
  \/ \E answer \in Outputs : ReturnToCaller(answer)

BindingsSpec == BindingsInit /\ [][BindingsNext]_bindingVars

-----------------------------------------------------------------------------
Overlap(p, q) == IsPrefix(p, q) \/ IsPrefix(q, p)
Overwritten(i) ==
  \E j \in DOMAIN bindings : /\ j > i /\ Overlap(bindings[i].to, bindings[j].to)
                             /\ At(calleeOutput, bindings[j].from) # Nowhere

(* After a return, each target holds exactly what its source answered this  *)
(* time, or, of an optional source that answered nothing, what it held      *)
(* before: an earlier return's value. Only a binding listed later, to an    *)
(* overlapping path, takes it away (data-binding-engine.ts:22,              *)
(* scenario-context-store.ts:49).                                           *)
LostOnlyByOverlap ==
  ended = "returned" =>
    \A i \in DOMAIN bindings : ~Overwritten(i) =>
      LET given == bindings[i]
          answered == At(calleeOutput, given.from)
      IN  /\ answered # Nowhere => At(callerInput, given.to) = answered
          /\ answered = Nowhere /\ (\A j \in DOMAIN bindings :
                 ~ (j # i /\ Overlap(given.to, bindings[j].to)))
               => At(callerInput, given.to) = At(earlier, given.to)

=============================================================================
