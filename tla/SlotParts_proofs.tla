--------------------------- MODULE SlotParts_proofs ---------------------------
(* Proofs about what happens around one slot, component by component: the    *)
(* calls on the adapter (SlotAdapter), the actions of one invocation         *)
(* (SlotDispatch), the artifacts it is run from (SlotArtifacts), the rules   *)
(* its answers and actions are judged by (OutcomeProjection,                 *)
(* ScenarioOverlays, PolicyPacks), and the data the next slot is given of    *)
(* its answer (ScenarioBindings). The components share no state; at the end  *)
(* stand the theorems of a behaviour that moves any of them (MCSlotParts).   *)
EXTENDS MCSlotParts, FiniteSetTheorems, TLAPS

(* SlotAdapter: the busy flag, and that the adapter implements              *)
(* MemoizedCalls, for any callers, keys, requests and Runtimes.             *)
(* A key nobody has brought yet carries nothing.                             *)
UnboundIsEmpty ==
  \A k \in Keys : ledger[k].request = Unset =>
    ledger[k].runs = 0 /\ ledger[k].settled = Unset /\ ledger[k].status = "absent"

(* The handlers of a promise run after it has settled.                       *)
HandlersRunLate ==
  \A k \in Keys : ledger[k].status \in {"completed", "failed"} =>
    ledger[k].settled # Unset

(* A caller who waits, waits for the execution of its own request.           *)
WaitsForOwn ==
  \A c \in Callers :
    /\ caller[c].request = Unset => caller[c].answer = Unset
    /\ caller[c].request # Unset /\ caller[c].answer = Unset =>
         BoundTo(caller[c].request)

AdapterInv ==
  TypeOK /\ FlagMeansRunning /\ UnboundIsEmpty /\ HandlersRunLate /\ WaitsForOwn

-----------------------------------------------------------------------------
(* A new adapter runs nothing, has an empty ledger and owes nobody an answer. *)
LEMMA InitInv == Init => AdapterInv
<1> SUFFICES ASSUME Init PROVE AdapterInv
  OBVIOUS
<1>1. TypeOK
  BY DEF Init, TypeOK, LedgerRecord, CallerState, Statuses
<1>2. FlagMeansRunning
  BY AdapterAssumption DEF Init, FlagMeansRunning
<1>3. UnboundIsEmpty /\ HandlersRunLate /\ WaitsForOwn
  BY DEF Init, UnboundIsEmpty, HandlersRunLate, WaitsForOwn
<1> QED
  BY <1>1, <1>2, <1>3 DEF AdapterInv

(* A call that is answered at once, or joins, touches only its caller.       *)
LEMMA AskedInv ==
  ASSUME AdapterInv, NEW c \in Callers, NEW q \in Requests,
         NEW x \in Refusals \cup {Unset},
         caller[c].request = Unset, Asked(c, q, x),
         x = Unset => BoundTo(q),
         UNCHANGED <<active, ledger>>
  PROVE  AdapterInv'
<1>1. TypeOK'
  BY DEF AdapterInv, TypeOK, Asked, CallerState
<1>2. FlagMeansRunning' /\ UnboundIsEmpty' /\ HandlersRunLate'
  BY DEF AdapterInv, FlagMeansRunning, UnboundIsEmpty, HandlersRunLate
<1>3. q # Unset
  BY AdapterAssumption
<1>4. ASSUME NEW d \in Callers
      PROVE  caller'[d] = IF d = c THEN [request |-> q, answer |-> x] ELSE caller[d]
  BY <1>4 DEF AdapterInv, TypeOK, Asked
<1>5. WaitsForOwn'
  BY <1>3, <1>4 DEF AdapterInv, WaitsForOwn, BoundTo
<1> QED
  BY <1>1, <1>2, <1>5 DEF AdapterInv

(* A call that binds its key, to an execution or to a refusal.               *)
LEMMA RecordedInv ==
  ASSUME AdapterInv, NEW c \in Callers, NEW q \in Requests,
         NEW n \in {0, 1}, NEW x \in {"busy", "preflight", Unset},
         caller[c].request = Unset, Asked(c, q, Unset),
         ledger[KeyOf[q]].request = Unset, Recorded(q, n, x),
         IF n = 1 THEN x = Unset /\ active = Nobody /\ active' = KeyOf[q]
                  ELSE x # Unset /\ UNCHANGED active
  PROVE  AdapterInv'
<1> DEFINE k == KeyOf[q]
<1>1. k \in Keys /\ q # Unset /\ Nobody \notin Keys
  BY AdapterAssumption
<1> DEFINE new == [request |-> q, status |-> "running", runs |-> n, settled |-> x]
<1>2. ledger' = [ledger EXCEPT ![k] = new]
  BY DEF Recorded
<1>3. new \in LedgerRecord
  BY DEF LedgerRecord, Statuses, Answers
<1>4. ASSUME NEW j \in Keys
      PROVE  ledger'[j] = IF j = k THEN new ELSE ledger[j]
  BY <1>1, <1>2, <1>4 DEF AdapterInv, TypeOK
<1>5. ASSUME NEW d \in Callers
      PROVE  caller'[d] = IF d = c THEN [request |-> q, answer |-> Unset]
                                   ELSE caller[d]
  BY <1>5 DEF AdapterInv, TypeOK, Asked
<1>6. TypeOK'
  <2>1. active' \in Keys \cup {Nobody}
    BY <1>1 DEF AdapterInv, TypeOK
  <2>2. ledger' \in [Keys -> LedgerRecord]
    BY <1>1, <1>2, <1>3 DEF AdapterInv, TypeOK
  <2>3. caller' \in [Callers -> CallerState]
    BY DEF AdapterInv, TypeOK, Asked, CallerState
  <2> QED
    BY <2>1, <2>2, <2>3 DEF TypeOK
<1>7. FlagMeansRunning'
  <2>1. active # k
    BY <1>1 DEF AdapterInv, FlagMeansRunning, UnboundIsEmpty
  <2>2. new.runs = n /\ new.settled = x
    OBVIOUS
  <2> SUFFICES ASSUME NEW j \in Keys
               PROVE  active' = j <=> ledger'[j].runs = 1 /\ ledger'[j].settled = Unset
    BY DEF FlagMeansRunning
  <2>3. active = j <=> ledger[j].runs = 1 /\ ledger[j].settled = Unset
    BY DEF AdapterInv, FlagMeansRunning
  <2>4. CASE j = k
    BY <1>4, <2>1, <2>2, <2>4
  <2>5. CASE j # k
    BY <1>1, <1>4, <2>3, <2>5
  <2> QED
    BY <2>4, <2>5
<1>8. UnboundIsEmpty' /\ HandlersRunLate'
  BY <1>1, <1>4 DEF AdapterInv, UnboundIsEmpty, HandlersRunLate
<1>9. WaitsForOwn'
  <2> SUFFICES ASSUME NEW d \in Callers
               PROVE  /\ caller'[d].request = Unset => caller'[d].answer = Unset
                      /\ caller'[d].request # Unset /\ caller'[d].answer = Unset =>
                           ledger'[KeyOf[caller'[d].request]].request
                             = caller'[d].request
    BY DEF WaitsForOwn, BoundTo
  <2>1. CASE d = c
    BY <1>1, <1>4, <1>5, <2>1
  <2>2. CASE d # c
    <3>1. caller'[d] = caller[d] /\ caller[d].request \in Requests \cup {Unset}
      BY <1>5, <2>2 DEF AdapterInv, TypeOK, CallerState
    <3>2. ASSUME caller[d].request # Unset, caller[d].answer = Unset
          PROVE  ledger'[KeyOf[caller[d].request]].request = caller[d].request
      <4>1. ledger[KeyOf[caller[d].request]].request = caller[d].request
        BY <3>2 DEF AdapterInv, WaitsForOwn, BoundTo
      <4>2. KeyOf[caller[d].request] \in Keys \ {k}
        BY <3>1, <3>2, <4>1, AdapterAssumption
      <4> QED
        BY <1>4, <4>1, <4>2
    <3> QED
      BY <3>1, <3>2 DEF AdapterInv, WaitsForOwn
  <2> QED
    BY <2>1, <2>2
<1> QED
  BY <1>6, <1>7, <1>8, <1>9 DEF AdapterInv

(* The Runtime's return settles the promise and frees the flag together.     *)
LEMMA FinishInv ==
  ASSUME AdapterInv, NEW k \in Keys, FinishInvocation(k)
  PROVE  AdapterInv'
<1>1. Nobody \notin Keys
  BY AdapterAssumption
<1>2. ledger[k].request \in Requests
  BY DEF AdapterInv, TypeOK, FlagMeansRunning, UnboundIsEmpty, FinishInvocation,
         LedgerRecord
<1>3. PICK x \in RuntimeOutcomes[ledger[k].request] :
        ledger' = [ledger EXCEPT ![k].settled = x] /\ active' = Nobody
  BY DEF FinishInvocation, Released
<1>4. x \in Answers /\ x # Unset
  BY <1>2, AdapterAssumption DEF Answers
<1> DEFINE new == [ledger[k] EXCEPT !.settled = x]
<1>5. ledger' = [ledger EXCEPT ![k] = new]
  BY <1>3
<1>6. /\ new \in LedgerRecord
      /\ new.request = ledger[k].request /\ new.runs = ledger[k].runs
      /\ new.status = ledger[k].status /\ new.settled = x
  BY <1>4 DEF AdapterInv, TypeOK, LedgerRecord
<1> HIDE DEF new
<1>7. ASSUME NEW j \in Keys
      PROVE  ledger'[j] = IF j = k THEN new ELSE ledger[j]
  BY <1>5, <1>7 DEF AdapterInv, TypeOK
<1>8. active = k /\ caller' = caller
  BY DEF FinishInvocation
<1>9. TypeOK'
  BY <1>3, <1>5, <1>6, <1>8 DEF AdapterInv, TypeOK
<1>10. FlagMeansRunning'
  <2> SUFFICES ASSUME NEW j \in Keys
               PROVE  active' = j <=> ledger'[j].runs = 1 /\ ledger'[j].settled = Unset
    BY DEF FlagMeansRunning
  <2>1. active' # j
    BY <1>1, <1>3
  <2>2. ~ (ledger'[j].runs = 1 /\ ledger'[j].settled = Unset)
    BY <1>4, <1>6, <1>7, <1>8 DEF AdapterInv, FlagMeansRunning
  <2> QED
    BY <2>1, <2>2
<1>11. UnboundIsEmpty' /\ HandlersRunLate'
  BY <1>2, <1>4, <1>6, <1>7, AdapterAssumption
     DEF AdapterInv, UnboundIsEmpty, HandlersRunLate
<1>12. WaitsForOwn'
  <2>1. ASSUME NEW j \in Keys PROVE ledger'[j].request = ledger[j].request
    BY <1>6, <1>7, <2>1
  <2>2. ASSUME NEW d \in Callers PROVE caller[d].request \in Requests \cup {Unset}
    BY <2>2 DEF AdapterInv, TypeOK, CallerState
  <2>3. ASSUME NEW q \in Requests PROVE KeyOf[q] \in Keys
    BY <2>3, AdapterAssumption
  <2> QED
    BY <1>8, <2>1, <2>2, <2>3 DEF AdapterInv, WaitsForOwn, BoundTo
<1> QED
  BY <1>9, <1>10, <1>11, <1>12 DEF AdapterInv

(* The handlers of a settled promise touch only the status of its record.    *)
LEMMA RecordInv ==
  ASSUME AdapterInv, NEW k \in Keys, RecordOutcome(k)
  PROVE  AdapterInv'
<1> DEFINE s == IF ledger[k].settled = "completed" THEN "completed" ELSE "failed"
<1> DEFINE new == [ledger[k] EXCEPT !.status = s]
<1>1. ledger' = [ledger EXCEPT ![k] = new] /\ active' = active /\ caller' = caller
  BY DEF RecordOutcome
<1>2. /\ new \in LedgerRecord
      /\ new.request = ledger[k].request /\ new.runs = ledger[k].runs
      /\ new.settled = ledger[k].settled
  BY DEF AdapterInv, TypeOK, LedgerRecord, Statuses
<1>3. ledger[k].settled # Unset
  BY DEF RecordOutcome, Handled
<1> HIDE DEF new
<1>4. ASSUME NEW j \in Keys
      PROVE  ledger'[j] = IF j = k THEN new ELSE ledger[j]
  BY <1>1, <1>4 DEF AdapterInv, TypeOK
<1>5. ASSUME NEW j \in Keys
      PROVE  /\ ledger'[j].request = ledger[j].request
             /\ ledger'[j].runs = ledger[j].runs
             /\ ledger'[j].settled = ledger[j].settled
  BY <1>2, <1>4, <1>5
<1>6. TypeOK'
  BY <1>1, <1>2 DEF AdapterInv, TypeOK
<1>7. FlagMeansRunning'
  BY <1>1, <1>5 DEF AdapterInv, FlagMeansRunning
<1>8. UnboundIsEmpty' /\ HandlersRunLate'
  BY <1>3, <1>4, <1>5 DEF AdapterInv, UnboundIsEmpty, HandlersRunLate
<1>9. WaitsForOwn'
  <2>1. ASSUME NEW d \in Callers PROVE caller[d].request \in Requests \cup {Unset}
    BY <2>1 DEF AdapterInv, TypeOK, CallerState
  <2>2. ASSUME NEW q \in Requests PROVE KeyOf[q] \in Keys
    BY <2>2, AdapterAssumption
  <2> QED
    BY <1>1, <1>5, <2>1, <2>2 DEF AdapterInv, WaitsForOwn, BoundTo
<1> QED
  BY <1>6, <1>7, <1>8, <1>9 DEF AdapterInv

(* What the promise came to is handed to one who waited for it.              *)
LEMMA AnswerInv ==
  ASSUME AdapterInv, NEW c \in Callers, AnswerCaller(c)
  PROVE  AdapterInv'
<1> DEFINE q == caller[c].request
<1> DEFINE x == ledger[KeyOf[q]].settled
<1>1. q \in Requests /\ KeyOf[q] \in Keys
  BY AdapterAssumption DEF AdapterInv, TypeOK, CallerState, AnswerCaller
<1>2. x \in Answers /\ x # Unset
  BY <1>1 DEF AdapterInv, TypeOK, LedgerRecord, HandlersRunLate, AnswerCaller
<1> DEFINE new == [caller[c] EXCEPT !.answer = x]
<1>3. caller' = [caller EXCEPT ![c] = new] /\ UNCHANGED <<active, ledger>>
  BY DEF AnswerCaller
<1>4. new \in CallerState /\ new.request = q /\ new.answer = x
  BY <1>2 DEF AdapterInv, TypeOK, CallerState
<1> HIDE DEF new, x
<1>5. ASSUME NEW d \in Callers
      PROVE  caller'[d] = IF d = c THEN new ELSE caller[d]
  BY <1>3, <1>5 DEF AdapterInv, TypeOK
<1>6. TypeOK'
  BY <1>3, <1>4 DEF AdapterInv, TypeOK
<1>7. FlagMeansRunning' /\ UnboundIsEmpty' /\ HandlersRunLate'
  BY <1>3 DEF AdapterInv, FlagMeansRunning, UnboundIsEmpty, HandlersRunLate
<1>8. WaitsForOwn'
  BY <1>1, <1>2, <1>3, <1>4, <1>5, AdapterAssumption
     DEF AdapterInv, WaitsForOwn, BoundTo
<1> QED
  BY <1>6, <1>7, <1>8 DEF AdapterInv

-----------------------------------------------------------------------------
(* Every step of the adapter preserves the invariant.                        *)
LEMMA NextInv == AdapterInv /\ [Next]_vars => AdapterInv'
<1> SUFFICES ASSUME AdapterInv, [Next]_vars PROVE AdapterInv'
  OBVIOUS
<1>1. ASSUME NEW c \in Callers, NEW q \in Requests, Invoke(c, q)
      PROVE  AdapterInv'
  <2>1. CASE RejectInvocation(c, q)
    BY <2>1, AskedInv, AdapterAssumption DEF RejectInvocation, MayInvoke, Refusals
  <2>2. CASE ConflictInvocation(c, q)
    BY <2>2, AskedInv, AdapterAssumption DEF ConflictInvocation, MayInvoke, Refusals
  <2>3. CASE JoinInvocation(c, q)
    BY <2>3, AskedInv DEF JoinInvocation, MayInvoke
  <2>4. CASE RefuseBusy(c, q)
    <3>1. "busy" # Unset
      BY AdapterAssumption DEF Answers
    <3> QED
      BY <2>4, <3>1, RecordedInv DEF RefuseBusy, MayInvoke
  <2>5. CASE FailPreflight(c, q)
    <3>1. "preflight" # Unset
      BY AdapterAssumption DEF Answers
    <3> QED
      BY <2>5, <3>1, RecordedInv DEF FailPreflight, MayInvoke
  <2>6. CASE StartInvocation(c, q)
    BY <2>6, RecordedInv DEF StartInvocation, MayInvoke, Free
  <2> QED
    BY <1>1, <2>1, <2>2, <2>3, <2>4, <2>5, <2>6 DEF Invoke
<1>2. ASSUME NEW k \in Keys, Settle(k) PROVE AdapterInv'
  BY <1>2, FinishInv, RecordInv DEF Settle
<1>3. ASSUME NEW c \in Callers, AnswerCaller(c) PROVE AdapterInv'
  BY <1>3, AnswerInv
<1>4. CASE UNCHANGED vars
  BY <1>4 DEF vars, AdapterInv, TypeOK, FlagMeansRunning, UnboundIsEmpty,
              HandlersRunLate, WaitsForOwn, BoundTo
<1> QED
  BY <1>1, <1>2, <1>3, <1>4 DEF Next

(* AdapterInv holds in every reachable state.                                *)
LEMMA AlwaysAdapterInv == Spec => []AdapterInv
BY InitInv, NextInv, PTL DEF Spec

(* invokeCanonical's activeInvocation is set exactly while one Runtime is at *)
(* work, for any callers, keys, requests and outcomes of the Runtime.        *)
THEOREM FlagAlwaysMeansRunning == Spec => []FlagMeansRunning
<1>1. AdapterInv => FlagMeansRunning
  BY DEF AdapterInv
<1> QED
  BY <1>1, AlwaysAdapterInv, PTL

(* Ledger records, the flag and what callers are told stay well typed.       *)
THEOREM AdapterTypeCorrect == Spec => []TypeOK
<1>1. AdapterInv => TypeOK
  BY DEF AdapterInv
<1> QED
  BY <1>1, AlwaysAdapterInv, PTL

-----------------------------------------------------------------------------
(* The mapping of Memo, named: what keys are bound to, what they came to,    *)
(* and what callers were given.                                              *)
Bound   == [k \in Keys |-> ledger[k].request]
Outcome == [k \in Keys |-> ledger[k].settled]
Given   == [c \in Callers |->
              IF caller[c].answer \in Answers
              THEN <<caller[c].request, caller[c].answer>> ELSE Unset]

(* A caller who is refused, or waits, has been given nothing.                *)
LEMMA AskedGivesNothing ==
  ASSUME AdapterInv, NEW c \in Callers, NEW q \in Requests,
         NEW x \in Refusals \cup {Unset},
         caller[c].request = Unset, Asked(c, q, x)
  PROVE  Given' = Given
<1>1. Unset \notin Answers
  BY AdapterAssumption
<1>2. x \notin Answers
  BY <1>1 DEF Refusals, Answers, OutcomeKinds
<1>3. caller[c].answer = Unset
  BY DEF AdapterInv, WaitsForOwn
<1>4. ASSUME NEW d \in Callers
      PROVE  caller'[d] = IF d = c THEN [request |-> q, answer |-> x] ELSE caller[d]
  BY <1>4 DEF AdapterInv, TypeOK, Asked
<1>5. ASSUME NEW d \in Callers
      PROVE  (IF caller'[d].answer \in Answers
              THEN <<caller'[d].request, caller'[d].answer>> ELSE Unset)
             = (IF caller[d].answer \in Answers
                THEN <<caller[d].request, caller[d].answer>> ELSE Unset)
  BY <1>1, <1>2, <1>3, <1>4, <1>5
<1> QED
  BY <1>5 DEF Given

(* Recording a request binds its key and settles it with x, or not at all.   *)
LEMMA RecordedBinds ==
  ASSUME AdapterInv, NEW q \in Requests, NEW n, NEW x,
         ledger[KeyOf[q]].request = Unset, Recorded(q, n, x)
  PROVE  /\ Bound[KeyOf[q]] = Unset
         /\ Bound' = [Bound EXCEPT ![KeyOf[q]] = q]
         /\ Outcome' = [Outcome EXCEPT ![KeyOf[q]] = x]
         /\ x = Unset => Outcome' = Outcome
<1>1. KeyOf[q] \in Keys
  BY AdapterAssumption
<1>2. ASSUME NEW j \in Keys
      PROVE  /\ ledger'[j].request = IF j = KeyOf[q] THEN q ELSE ledger[j].request
             /\ ledger'[j].settled = IF j = KeyOf[q] THEN x ELSE ledger[j].settled
  BY <1>1, <1>2 DEF AdapterInv, TypeOK, Recorded
<1>3. ledger[KeyOf[q]].settled = Unset
  BY <1>1 DEF AdapterInv, UnboundIsEmpty
<1>4. Bound[KeyOf[q]] = Unset
  BY <1>1 DEF Bound
<1>5. Bound' = [Bound EXCEPT ![KeyOf[q]] = q]
  BY <1>1, <1>2 DEF Bound
<1>6. Outcome' = [Outcome EXCEPT ![KeyOf[q]] = x]
  BY <1>1, <1>2 DEF Outcome
<1>7. ASSUME x = Unset PROVE Outcome' = Outcome
  BY <1>1, <1>2, <1>3, <1>7 DEF Outcome
<1> QED
  BY <1>4, <1>5, <1>6, <1>7

(* The adapter starts as the memo does.                                      *)
LEMMA InitIsMemoInit == Init => Memo!MemoInit
<1>1. Unset \notin Answers
  BY AdapterAssumption
<1> QED
  BY <1>1 DEF Init, Memo!MemoInit

(* Every step of the adapter is a step of the memo, or changes nothing of it.*)
LEMMA StepIsMemoStep ==
  ASSUME AdapterInv, [Next]_vars
  PROVE  [Memo!MemoNext]_(Memo!memoVars)
<1> DEFINE Stays == Bound' = Bound /\ Outcome' = Outcome /\ Given' = Given
<1>0. ASSUME Stays PROVE [Memo!MemoNext]_(Memo!memoVars)
  BY <1>0 DEF Bound, Outcome, Given, Memo!memoVars
<1>1. ASSUME NEW c \in Callers, NEW q \in Requests, Invoke(c, q)
      PROVE  [Memo!MemoNext]_(Memo!memoVars)
  <2>1. ASSUME NEW x \in Refusals \cup {Unset}, caller[c].request = Unset,
               Asked(c, q, x), UNCHANGED ledger
        PROVE  Stays
    BY <2>1, AskedGivesNothing DEF Bound, Outcome
  <2>2. CASE RejectInvocation(c, q) \/ ConflictInvocation(c, q) \/ JoinInvocation(c, q)
    BY <1>0, <2>1, <2>2
       DEF RejectInvocation, ConflictInvocation, JoinInvocation, MayInvoke, Refusals
  <2>3. ASSUME NEW n, NEW x \in Answers, caller[c].request = Unset,
               ledger[KeyOf[q]].request = Unset, Asked(c, q, Unset), Recorded(q, n, x)
        PROVE  Memo!BindResolved(q)
    <3>1. Given' = Given
      BY <2>3, AskedGivesNothing
    <3>2. /\ Bound[KeyOf[q]] = Unset /\ Bound' = [Bound EXCEPT ![KeyOf[q]] = q]
          /\ Outcome' = [Outcome EXCEPT ![KeyOf[q]] = x]
      BY <2>3, RecordedBinds
    <3>3. \E y \in Answers : Outcome' = [Outcome EXCEPT ![KeyOf[q]] = y]
      BY <2>3, <3>2
    <3> QED
      BY <3>1, <3>2, <3>3 DEF Memo!BindResolved, Bound, Outcome, Given
  <2>4. CASE RefuseBusy(c, q) \/ FailPreflight(c, q)
    <3>1. Memo!BindResolved(q)
      BY <2>3, <2>4 DEF RefuseBusy, FailPreflight, MayInvoke, Answers
    <3> QED
      BY <3>1 DEF Memo!MemoNext
  <2>5. CASE StartInvocation(c, q)
    <3>1. Memo!Bind(q)
      BY <2>5, RecordedBinds, AskedGivesNothing
         DEF StartInvocation, MayInvoke, Memo!Bind, Bound, Outcome, Given
    <3> QED
      BY <3>1 DEF Memo!MemoNext
  <2> QED
    BY <1>1, <2>2, <2>4, <2>5 DEF Invoke
<1>2. ASSUME NEW k \in Keys, FinishInvocation(k)
      PROVE  Memo!Resolve(k)
  <2>1. ledger[k].request \in Requests
    BY <1>2 DEF AdapterInv, TypeOK, FlagMeansRunning, UnboundIsEmpty,
                FinishInvocation, LedgerRecord
  <2>2. PICK x \in RuntimeOutcomes[ledger[k].request] :
          ledger' = [ledger EXCEPT ![k].settled = x]
    BY <1>2 DEF FinishInvocation
  <2>3. x \in Answers
    BY <2>1, AdapterAssumption DEF Answers
  <2>4. ASSUME NEW j \in Keys
        PROVE  /\ ledger'[j].request = ledger[j].request
               /\ ledger'[j].settled = IF j = k THEN x ELSE ledger[j].settled
    BY <2>2, <2>4 DEF AdapterInv, TypeOK, LedgerRecord
  <2>5. Bound' = Bound /\ Outcome' = [Outcome EXCEPT ![k] = x]
    BY <2>4 DEF Bound, Outcome
  <2>6. Bound[k] # Unset /\ Outcome[k] = Unset
    BY <1>2, <2>1, AdapterAssumption DEF FinishInvocation, Bound, Outcome
  <2>7. Given' = Given
    BY <1>2 DEF FinishInvocation, Given
  <2> QED
    BY <2>3, <2>5, <2>6, <2>7 DEF Memo!Resolve, Bound, Outcome, Given
<1>3. ASSUME NEW k \in Keys, RecordOutcome(k) PROVE Stays
  <2> DEFINE s == IF ledger[k].settled = "completed" THEN "completed" ELSE "failed"
  <2>1. ledger' = [ledger EXCEPT ![k].status = s] /\ caller' = caller
    BY <1>3 DEF RecordOutcome
  <2> HIDE DEF s
  <2>2. ASSUME NEW j \in Keys
        PROVE  /\ ledger'[j].request = ledger[j].request
               /\ ledger'[j].settled = ledger[j].settled
    BY <2>1, <2>2 DEF AdapterInv, TypeOK, LedgerRecord
  <2> QED
    BY <2>1, <2>2 DEF Bound, Outcome, Given
<1>4. ASSUME NEW c \in Callers, NEW q \in Requests, q = caller[c].request,
             AnswerCaller(c)
      PROVE  Memo!Give(c, q)
  <2> DEFINE x == ledger[KeyOf[q]].settled
  <2>1. KeyOf[q] \in Keys
    BY AdapterAssumption
  <2>2. x \in Answers /\ x # Unset /\ ledger[KeyOf[q]].request = q
    BY <1>4, <2>1 DEF AdapterInv, TypeOK, LedgerRecord, HandlersRunLate,
                      WaitsForOwn, BoundTo, AnswerCaller
  <2>3. caller' = [caller EXCEPT ![c].answer = x] /\ ledger' = ledger
    BY <1>4 DEF AnswerCaller
  <2>4. Outcome[KeyOf[q]] = x /\ Bound[KeyOf[q]] = q
    BY <2>1, <2>2 DEF Outcome, Bound
  <2>5. Given[c] = Unset
    BY <1>4, AdapterAssumption DEF AnswerCaller, Given
  <2> HIDE DEF x
  <2>6. ASSUME NEW d \in Callers
        PROVE  /\ caller'[d].request = caller[d].request
               /\ caller'[d].answer = IF d = c THEN x ELSE caller[d].answer
    BY <2>3, <2>6 DEF AdapterInv, TypeOK, CallerState
  <2>7. Given' = [Given EXCEPT ![c] = <<q, x>>]
    BY <1>4, <2>2, <2>6 DEF Given
  <2>8. Bound' = Bound /\ Outcome' = Outcome
    BY <2>3 DEF Bound, Outcome
  <2> QED
    BY <2>1, <2>2, <2>4, <2>5, <2>7, <2>8 DEF Memo!Give, Bound, Outcome, Given
<1>5. CASE UNCHANGED vars
  BY <1>0, <1>5 DEF vars, Bound, Outcome, Given
<1>6. ASSUME NEW k \in Keys, Settle(k) PROVE [Memo!MemoNext]_(Memo!memoVars)
  BY <1>0, <1>2, <1>3, <1>6 DEF Settle, Memo!MemoNext
<1>7. ASSUME NEW c \in Callers, AnswerCaller(c) PROVE Memo!MemoNext
  <2>1. caller[c].request \in Requests
    BY <1>7 DEF AdapterInv, TypeOK, CallerState, AnswerCaller
  <2>2. PICK q \in Requests : q = caller[c].request
    BY <2>1
  <2>3. Memo!Give(c, q)
    BY <1>4, <1>7, <2>2
  <2> QED
    BY <2>3 DEF Memo!MemoNext
<1> QED
  BY <1>1, <1>5, <1>6, <1>7 DEF Next

(* The adapter keeps the promise of its invocation ledger: per key one       *)
(* execution, for the request that brought it first, and that execution's    *)
(* result for everyone who repeats the request.                              *)
THEOREM AdapterKeepsPromise == Spec => OneResultPerKey
<1>1. AdapterInv /\ [Next]_vars => [Memo!MemoNext]_(Memo!memoVars)
  BY StepIsMemoStep
<1> QED
  BY <1>1, InitIsMemoInit, AlwaysAdapterInv, PTL
     DEF Spec, OneResultPerKey, Memo!MemoSpec

-----------------------------------------------------------------------------
(* SlotDispatch: for any agent, classification and number of dispatches.     *)

HandlerRecord ==
  [action : (UNION Referenced) \cup {"no action"},
   phase : {"unused", "running", "returned", "threw", "refused"},
   effect : BOOLEAN, late : BOOLEAN]

(* Nothing is dispatched before the preflight passed, and nothing is        *)
(* answered before the end.                                                 *)
StageInv ==
  /\ stage \in {"preflight", "running", "ended"}
  /\ stage = "preflight" => \A d \in Dispatches : handler[d].phase = "unused"
  /\ stage = "running" => PreflightPasses /\ \A d \in Dispatches : ~ handler[d].late
  /\ reply.kind # "none" => stage = "ended"

(* What was begun is classified, and counted at its level before it can     *)
(* have an effect.                                                          *)
BegunInv ==
  \A d \in Began :
    /\ handler[d].action \in DOMAIN levels
    /\ levels[handler[d].action] <= counted.highest
    /\ levels[handler[d].action] >= 1 => counted.count >= 1
    /\ handler[d].effect => levels[handler[d].action] >= 1
    /\ handler[d].effect /\ handler[d].phase = "returned" => counted.external

IdleInv ==
  \A d \in Dispatches \ Began : ~ handler[d].effect /\ ~ handler[d].late

(* A result was made of these counts, and of a run that said timed_out if   *)
(* it left a handler at work.                                               *)
ResultInv ==
  reply.kind = "result" =>
    \A d \in Began :
      /\ levels[handler[d].action] <= reply.level
      /\ levels[handler[d].action] >= 1 => reply.count >= 1
      /\ handler[d].phase = "running" => reply.status = "timed_out"
      /\ handler[d].late => reply.status = "timed_out"
      /\ handler[d].effect =>
           reply.external \/ handler[d].phase = "threw" \/ reply.status = "timed_out"

DispatchInv ==
  /\ referenced \in Referenced /\ levels \in Classified
  /\ handler \in [Dispatches -> HandlerRecord]
  /\ counted \in [highest : Levels, count : Nat, external : BOOLEAN]
  /\ violation # "unclassified"
  /\ StageInv /\ BegunInv /\ IdleInv /\ ResultInv

(* Nothing was dispatched when an invocation begins.                         *)
LEMMA InvocationStarts == DispatchInit => DispatchInv
<1> SUFFICES ASSUME DispatchInit PROVE DispatchInv
  OBVIOUS
<1>1. handler \in [Dispatches -> HandlerRecord] /\ Began = {}
  BY DEF DispatchInit, HandlerRecord, Unused, Began
<1>2. counted \in [highest : Levels, count : Nat, external : BOOLEAN]
  BY DEF DispatchInit, Levels
<1>3. \A d \in Dispatches : handler[d].phase = "unused" /\ ~ handler[d].effect /\ ~ handler[d].late
  BY DEF DispatchInit, Unused
<1> QED
  BY <1>1, <1>2, <1>3 DEF DispatchInit, DispatchInv, StageInv, BegunInv, IdleInv, ResultInv, NoReply

(* The preflight passes or the invocation ends.                              *)
LEMMA PreflightKeeps ==
  ASSUME DispatchInv, Preflight
  PROVE  DispatchInv'
<1>1. UNCHANGED <<referenced, levels, handler, counted, violation>> /\ Began' = Began
  BY DEF Preflight, Began
<1>2. StageInv'
  <2>1. stage = "preflight" /\ reply.kind = "none"
    BY DEF Preflight, DispatchInv, StageInv
  <2>2. \A d \in Dispatches : ~ handler[d].late
    BY <2>1 DEF DispatchInv, StageInv, IdleInv, Began
  <2>3. CASE PreflightPasses
    BY <1>1, <2>1, <2>2, <2>3 DEF Preflight, StageInv, PreflightPasses
  <2>4. CASE ~ PreflightPasses
    BY <1>1, <2>4 DEF Preflight, StageInv
  <2> QED
    BY <2>3, <2>4
<1>3. Began = {} /\ ResultInv'
  BY <1>1 DEF Preflight, DispatchInv, StageInv, ResultInv, Began
<1> QED
  BY <1>1, <1>2, <1>3 DEF DispatchInv, BegunInv, IdleInv

(* An action refused changes no count; one begun is counted at once.        *)
LEMMA DispatchKeeps ==
  ASSUME DispatchAssumption, DispatchInv, NEW d \in Dispatches, NEW a, Dispatch(d, a)
  PROVE  DispatchInv'
<1>1. /\ stage = "running" /\ a \in referenced /\ a \in DOMAIN levels /\ levels[a] \in Levels
      /\ handler[d].phase = "unused" /\ a \in UNION Referenced
      /\ UNCHANGED <<referenced, levels, stage, reply>> /\ reply.kind = "none"
  BY DEF Dispatch, NextFree, DispatchInv, StageInv, PreflightPasses, DispatchAssumption
<1>2. PICK p \in {"running", "refused"} :
        /\ handler' = [handler EXCEPT ![d] = [handler[d] EXCEPT !.action = a, !.phase = p]]
        /\ p = "running" => CountBegun(levels[a])
        /\ p = "refused" => counted' = counted
        /\ violation' # "unclassified"
  BY <1>1 DEF Dispatch, Begin, Refuse, DispatchInv
<1>3. handler' \in [Dispatches -> HandlerRecord] /\ handler'[d].action = a /\ handler'[d].phase = p
      /\ handler'[d].effect = handler[d].effect /\ handler'[d].late = handler[d].late
      /\ \A x \in Dispatches \ {d} : handler'[x] = handler[x]
  BY <1>1, <1>2 DEF DispatchInv, HandlerRecord
<1>4. /\ counted' \in [highest : Levels, count : Nat, external : BOOLEAN]
      /\ counted.highest <= counted'.highest /\ counted.count <= counted'.count
      /\ counted'.external = counted.external
      /\ p = "running" => levels[a] <= counted'.highest /\ (levels[a] >= 1 => counted'.count >= 1)
  <2> DEFINE l == levels[a]
  <2>1. l \in 0 .. 5 /\ counted.highest \in 0 .. 5 /\ counted.count \in Nat
        /\ counted.external \in BOOLEAN
    BY <1>1 DEF DispatchInv, Levels
  <2> HIDE DEF l
  <2>2. CASE p = "running"
    <3>1. counted' = [counted EXCEPT !.highest = IF l > counted.highest THEN l ELSE counted.highest,
                                     !.count = IF l # 0 THEN counted.count + 1 ELSE counted.count]
      BY <1>2, <2>2 DEF CountBegun, l
    <3>2. /\ counted'.highest = IF l > counted.highest THEN l ELSE counted.highest
          /\ counted'.count = IF l # 0 THEN counted.count + 1 ELSE counted.count
          /\ counted'.external = counted.external
      BY <3>1 DEF DispatchInv
    <3>3. (IF l > counted.highest THEN l ELSE counted.highest) \in Levels
          /\ (IF l # 0 THEN counted.count + 1 ELSE counted.count) \in Nat
      BY <2>1 DEF Levels
    <3>4. counted' \in [highest : Levels, count : Nat, external : BOOLEAN]
      BY <3>1, <3>3 DEF DispatchInv
    <3> QED
      BY <2>1, <3>2, <3>4 DEF l
  <2>3. CASE p = "refused"
    BY <1>2, <2>1, <2>3 DEF DispatchInv
  <2> QED
    BY <2>2, <2>3
<1>5. Began' = (IF p = "running" THEN Began \cup {d} ELSE Began) /\ d \notin Began
  BY <1>1, <1>3 DEF Began
<1>6. ~ handler[d].effect /\ ~ handler[d].late
  BY <1>5 DEF DispatchInv, IdleInv
<1>7. BegunInv'
  <2> SUFFICES ASSUME NEW x \in Began'
               PROVE  /\ handler'[x].action \in DOMAIN levels
                      /\ levels[handler'[x].action] <= counted'.highest
                      /\ levels[handler'[x].action] >= 1 => counted'.count >= 1
                      /\ handler'[x].effect => levels[handler'[x].action] >= 1
                      /\ handler'[x].effect /\ handler'[x].phase = "returned" => counted'.external
    BY <1>1 DEF BegunInv
  <2>1. CASE x = d
    BY <2>1, <1>1, <1>3, <1>4, <1>5, <1>6
  <2>2. CASE x # d
    <3>1. x \in Began /\ handler'[x] = handler[x]
      BY <2>2, <1>3, <1>5 DEF Began
    <3>2. levels[handler[x].action] \in Levels
      BY <3>1 DEF DispatchInv, BegunInv, DispatchAssumption
    <3> QED
      BY <3>1, <3>2, <1>4 DEF DispatchInv, BegunInv, Levels
  <2> QED
    BY <2>1, <2>2
<1>8. IdleInv'
  BY <1>3, <1>5, <1>6 DEF DispatchInv, IdleInv, Began
<1>9. StageInv' /\ ResultInv'
  BY <1>1, <1>3, <1>6 DEF DispatchInv, StageInv, ResultInv, PreflightPasses
<1> QED
  BY <1>1, <1>2, <1>3, <1>4, <1>7, <1>8, <1>9 DEF DispatchInv

(* An effect is of a handler at work, whose action was counted.              *)
LEMMA TakeEffectKeeps ==
  ASSUME DispatchAssumption, DispatchInv, NEW d \in Dispatches, TakeEffect(d)
  PROVE  DispatchInv'
<1>1. /\ handler[d].phase = "running" /\ levels[handler[d].action] >= 1 /\ d \in Began
      /\ UNCHANGED <<referenced, levels, stage, counted, violation, reply>>
      /\ handler' = [handler EXCEPT ![d] = [handler[d] EXCEPT !.effect = TRUE, !.late = stage = "ended"]]
  BY DEF TakeEffect, Began
<1>2. handler' \in [Dispatches -> HandlerRecord] /\ handler'[d].action = handler[d].action
      /\ handler'[d].phase = "running" /\ handler'[d].late = (stage = "ended")
      /\ \A x \in Dispatches \ {d} : handler'[x] = handler[x]
  <2>1. handler \in [Dispatches -> HandlerRecord]
    BY DEF DispatchInv
  <2>2. [handler[d] EXCEPT !.effect = TRUE, !.late = stage = "ended"] \in HandlerRecord
    BY <2>1 DEF HandlerRecord
  <2>3. /\ [handler[d] EXCEPT !.effect = TRUE, !.late = stage = "ended"].action = handler[d].action
        /\ [handler[d] EXCEPT !.effect = TRUE, !.late = stage = "ended"].phase = handler[d].phase
        /\ [handler[d] EXCEPT !.effect = TRUE, !.late = stage = "ended"].late = (stage = "ended")
    BY <2>1 DEF HandlerRecord
  <2> QED
    BY <1>1, <2>1, <2>2, <2>3
<1>3. Began' = Began
  BY <1>1, <1>2 DEF Began
<1>4. BegunInv' /\ IdleInv'
  BY <1>1, <1>2, <1>3 DEF DispatchInv, BegunInv, IdleInv, Began
<1>5. StageInv'
  BY <1>1, <1>2 DEF DispatchInv, StageInv, PreflightPasses
<1>6. ResultInv'
  BY <1>1, <1>2, <1>3 DEF DispatchInv, ResultInv, Began
<1> QED
  BY <1>1, <1>2, <1>4, <1>5, <1>6 DEF DispatchInv

(* A handler that returns reports its effect; one that throws does not.     *)
LEMMA HandlerEndKeeps ==
  ASSUME DispatchAssumption, DispatchInv, NEW d \in Dispatches, Return(d) \/ Throw(d)
  PROVE  DispatchInv'
<1>1. PICK p \in {"returned", "threw"} :
        /\ handler' = [handler EXCEPT ![d].phase = p]
        /\ p = "returned" => counted' = [counted EXCEPT !.external = counted.external \/ handler[d].effect]
        /\ p = "threw" => counted' = counted
  BY DEF Return, Throw
<1>2. /\ handler[d].phase = "running" /\ d \in Began
      /\ UNCHANGED <<referenced, levels, stage, violation, reply>>
  BY DEF Return, Throw, Began
<1>3. handler' \in [Dispatches -> HandlerRecord] /\ handler'[d].action = handler[d].action
      /\ handler'[d].phase = p /\ handler'[d].effect = handler[d].effect
      /\ handler'[d].late = handler[d].late /\ \A x \in Dispatches \ {d} : handler'[x] = handler[x]
  <2>1. handler \in [Dispatches -> HandlerRecord] /\ handler[d] \in HandlerRecord
    BY DEF DispatchInv
  <2>2. [handler[d] EXCEPT !.phase = p] \in HandlerRecord
    BY <2>1 DEF HandlerRecord
  <2>3. handler' = [handler EXCEPT ![d] = [handler[d] EXCEPT !.phase = p]]
    BY <1>1
  <2> QED
    BY <2>1, <2>2, <2>3 DEF HandlerRecord
<1>4. /\ counted' \in [highest : Levels, count : Nat, external : BOOLEAN]
      /\ counted'.highest = counted.highest /\ counted'.count = counted.count
      /\ counted.external => counted'.external
      /\ p = "returned" /\ handler[d].effect => counted'.external
  <2>1. handler[d].effect \in BOOLEAN /\ counted.external \in BOOLEAN
    BY DEF DispatchInv, HandlerRecord
  <2> QED
    BY <1>1, <2>1 DEF DispatchInv
<1>5. Began' = Began
  BY <1>2, <1>3 DEF Began
<1>6. BegunInv' /\ IdleInv'
  BY <1>2, <1>3, <1>4, <1>5 DEF DispatchInv, BegunInv, IdleInv, Began
<1>7. StageInv'
  BY <1>2, <1>3 DEF DispatchInv, StageInv, PreflightPasses
<1>8. ResultInv'
  BY <1>2, <1>3, <1>5 DEF DispatchInv, ResultInv, Began
<1> QED
  BY <1>2, <1>3, <1>4, <1>6, <1>7, <1>8 DEF DispatchInv

(* A result says what was counted, and timed_out of a handler left at work. *)
LEMMA EndRunKeeps ==
  ASSUME DispatchInv, NEW s, NEW f, NEW t \in BOOLEAN, EndRun(s, f, t)
  PROVE  DispatchInv'
<1>1. /\ stage = "running" /\ stage' = "ended" /\ reply' = Delivered(s, f, t)
      /\ UNCHANGED <<referenced, levels, handler, counted, violation>> /\ Began' = Began
  BY DEF EndRun, Began
<1>2. reply'.kind = "result" =>
        /\ reply'.level = counted.highest /\ reply'.count = counted.count
        /\ reply'.external = counted.external
        /\ Busy => reply'.status = "timed_out"
  <2>1. Busy => t /\ s = "failed"
    BY DEF EndRun
  <2>2. Busy => Normalized(s, t) = "timed_out"
    BY <2>1 DEF Normalized
  <2> DEFINE result == [kind |-> "result", status |-> Normalized(s, t), level |-> counted.highest,
                        count |-> counted.count, external |-> counted.external]
  <2>3. reply' = [NoReply EXCEPT !.kind = "threw"] \/ reply' = result
    BY <1>1 DEF Delivered
  <2>4. CASE reply' = result
    BY <2>2, <2>4
  <2> QED
    BY <2>3, <2>4 DEF NoReply
<1>3. \A d \in Began : handler[d].phase \in {"running", "returned", "threw"} /\ ~ handler[d].late
        /\ (handler[d].phase = "running" => Busy)
  BY <1>1 DEF DispatchInv, StageInv, Began, Busy
<1>4. ResultInv'
  BY <1>1, <1>2, <1>3 DEF DispatchInv, BegunInv, ResultInv
<1>5. StageInv' /\ BegunInv' /\ IdleInv'
  BY <1>1 DEF DispatchInv, StageInv, BegunInv, IdleInv
<1> QED
  BY <1>1, <1>4, <1>5 DEF DispatchInv

(* The invariant holds throughout an invocation.                            *)
LEMMA InvocationKeepsInv ==
  ASSUME DispatchAssumption
  PROVE  DispatchSpec => []DispatchInv
<1>1. DispatchInv /\ [DispatchNext]_dispatchVars => DispatchInv'
  <2> SUFFICES ASSUME DispatchInv, [DispatchNext]_dispatchVars PROVE DispatchInv'
    OBVIOUS
  <2>1. CASE DispatchNext
    BY <2>1, PreflightKeeps, DispatchKeeps, TakeEffectKeeps, HandlerEndKeeps, EndRunKeeps,
       DispatchAssumption DEF DispatchNext
  <2>2. CASE UNCHANGED dispatchVars
    BY <2>2 DEF dispatchVars, DispatchInv, StageInv, BegunInv, IdleInv, ResultInv, Began,
                PreflightPasses
  <2> QED
    BY <2>1, <2>2
<1> QED
  BY <1>1, InvocationStarts, PTL DEF DispatchSpec

(* One invocation, whatever its agent references and however late its       *)
(* handlers are: nothing let through lacks a classification, its result owns *)
(* up to every effect it can know of, and a later one is of a timed_out.     *)
THEOREM DispatchIsAlwaysToldOf ==
  ASSUME DispatchAssumption
  PROVE  DispatchSpec => []DispatchIsToldOf
<1>1. DispatchInv => DispatchIsToldOf
  <2> SUFFICES ASSUME DispatchInv PROVE DispatchIsToldOf
    OBVIOUS
  <2>1. SummaryOwnsUp
    BY DEF DispatchInv, ResultInv, BegunInv, SummaryOwnsUp
  <2>2. LateEffectsAreOfTimeouts
    BY DEF DispatchInv, ResultInv, IdleInv, LateEffectsAreOfTimeouts
  <2> QED
    BY <2>1, <2>2 DEF DispatchIsToldOf, PreflightCovers, DispatchInv
<1> QED
  BY <1>1, InvocationKeepsInv, PTL

-----------------------------------------------------------------------------
(* SlotArtifacts: for any agents, slots and changes by the host.             *)

(* Since an engine was created each slot's agent is the document's and      *)
(* finds its actions, for what the host has not undone.                     *)
HeldInv ==
  engineReady =>
    \A p \in SlotPaths :
      /\ ~ cleared => Stored(p)
      /\ ~ cleared /\ ~ relabelled => artifacts[p].archetype = SlotRef[p].archetype
      /\ ~ shrunk => Complete(SlotRef[p].agent)

ArtifactsInv ==
  /\ artifacts \in [SlotPaths -> Records \cup {Missing}]
  /\ registry \subseteq ActionIds
  /\ cleared \in BOOLEAN /\ shrunk \in BOOLEAN /\ relabelled \in BOOLEAN
  /\ HeldInv /\ CreatedEnginesInvoke

(* No engine was created yet.                                               *)
LEMMA ArtifactsStart == ArtifactsInit => ArtifactsInv
BY DEF ArtifactsInit, ArtifactsInv, HeldInv, CreatedEnginesInvoke

(* Registering again keeps the agent and the config.                        *)
LEMMA RegisterKeeps ==
  ASSUME ArtifactsAssumption, ArtifactsInv, NEW p \in SlotPaths, NEW r \in Records, Register(p, r)
  PROVE  ArtifactsInv'
<1>1. /\ MayRegister(p, r) /\ artifacts' = [artifacts EXCEPT ![p] = r]
      /\ relabelled' = (relabelled \/ (artifacts[p] # Missing /\ artifacts[p] # r))
      /\ UNCHANGED <<registry, engineReady, engineAnswer, cleared, shrunk>>
  BY DEF Register
<1>2. artifacts' \in [SlotPaths -> Records \cup {Missing}] /\ artifacts'[p] = r
      /\ \A x \in SlotPaths \ {p} : artifacts'[x] = artifacts[x]
  BY <1>1 DEF ArtifactsInv
<1>3. relabelled' \in BOOLEAN /\ (relabelled => relabelled')
      /\ (~ relabelled' /\ artifacts[p] # Missing => artifacts[p] = r)
  BY <1>1 DEF ArtifactsInv
<1>4. ASSUME engineReady, NEW x \in SlotPaths
      PROVE  /\ ~ cleared => Stored(x)'
             /\ ~ cleared /\ ~ relabelled' => artifacts'[x].archetype = SlotRef[x].archetype
  <2>1. ~ cleared => Stored(x)
    BY <1>4 DEF ArtifactsInv, HeldInv
  <2>2. ~ cleared /\ ~ relabelled => artifacts[x].archetype = SlotRef[x].archetype
    BY <1>4 DEF ArtifactsInv, HeldInv
  <2>3. CASE x = p
    <3>1. r # Missing
      BY DEF ArtifactsAssumption
    <3> QED
      BY <1>1, <1>2, <1>3, <2>1, <2>2, <2>3, <3>1 DEF Stored, MayRegister
  <2>4. CASE x # p
    BY <1>2, <1>3, <2>1, <2>2, <2>4 DEF Stored
  <2> QED
    BY <2>3, <2>4
<1>5. HeldInv'
  BY <1>1, <1>4 DEF ArtifactsInv, HeldInv, Complete
<1>6. CreatedEnginesInvoke'
  BY <1>1, <1>3 DEF ArtifactsInv, CreatedEnginesInvoke
<1> QED
  BY <1>1, <1>2, <1>3, <1>5, <1>6 DEF ArtifactsInv

(* A cleared store is remembered.                                           *)
LEMMA ClearKeeps ==
  ASSUME ArtifactsInv, Clear
  PROVE  ArtifactsInv'
<1>1. artifacts' \in [SlotPaths -> Records \cup {Missing}] /\ cleared' = TRUE
      /\ UNCHANGED <<registry, engineReady, engineAnswer, shrunk, relabelled>>
  BY DEF Clear
<1>2. HeldInv' /\ CreatedEnginesInvoke'
  BY <1>1 DEF ArtifactsInv, HeldInv, CreatedEnginesInvoke, Complete
<1> QED
  BY <1>1, <1>2 DEF ArtifactsInv

(* Actions only appear, or the registry is said to have shrunk.             *)
LEMMA EditKeeps ==
  ASSUME ArtifactsInv, NEW a \in ActionIds, EditRegistry(a)
  PROVE  ArtifactsInv'
<1>1. UNCHANGED <<artifacts, engineReady, engineAnswer, cleared, relabelled>>
      /\ registry' \subseteq ActionIds /\ shrunk' \in BOOLEAN /\ (shrunk => shrunk')
      /\ (~ shrunk' => registry \subseteq registry')
  BY DEF EditRegistry, ArtifactsInv
<1>2. HeldInv' /\ CreatedEnginesInvoke'
  BY <1>1 DEF ArtifactsInv, HeldInv, CreatedEnginesInvoke, Complete, Stored
<1> QED
  BY <1>1, <1>2 DEF ArtifactsInv

(* An engine is created from what is stored and complete.                   *)
LEMMA CreateKeeps ==
  ASSUME ArtifactsInv, CreateEngine
  PROVE  ArtifactsInv'
<1>1. UNCHANGED <<artifacts, registry>> /\ cleared' = FALSE
      /\ shrunk' = (\E p \in SlotPaths : ~ Complete(SlotRef[p].agent))
      /\ relabelled' = (\E p \in SlotPaths :
                          Stored(p) /\ artifacts[p].archetype # SlotRef[p].archetype)
  BY DEF CreateEngine
<1>2. engineReady' => engineAnswer' = "ok" /\ \A p \in SlotPaths : Stored(p)
  BY DEF CreateEngine
<1>3. HeldInv'
  BY <1>1, <1>2 DEF HeldInv, Stored, Complete
<1>4. CreatedEnginesInvoke'
  BY <1>2 DEF CreatedEnginesInvoke
<1> QED
  BY <1>1, <1>3, <1>4 DEF ArtifactsInv

(* What an invocation finds wrong is what the host undid.                   *)
LEMMA InvokeKeeps ==
  ASSUME ArtifactsInv, NEW p \in SlotPaths, InvokeAgent(p)
  PROVE  ArtifactsInv'
<1>1. engineReady /\ UNCHANGED <<artifacts, registry, engineReady, cleared, shrunk, relabelled>>
  BY DEF InvokeAgent
<1>2. /\ ~ cleared => Stored(p)
      /\ ~ cleared /\ ~ relabelled => artifacts[p].archetype = SlotRef[p].archetype
      /\ ~ shrunk => Complete(SlotRef[p].agent)
  BY <1>1 DEF ArtifactsInv, HeldInv
<1>3. CreatedEnginesInvoke'
  <2>1. engineAnswer' \in {"not found", "artifact hash", "config hash"} => ~ Stored(p)
    BY DEF InvokeAgent, Stored
  <2>2. engineAnswer' = "archetype" => artifacts[p].archetype # SlotRef[p].archetype
    BY DEF InvokeAgent
  <2>3. engineAnswer' = "closure incomplete" => ~ Complete(SlotRef[p].agent)
    BY DEF InvokeAgent
  <2> QED
    BY <1>1, <1>2, <2>1, <2>2, <2>3 DEF CreatedEnginesInvoke
<1>4. HeldInv'
  BY <1>1 DEF ArtifactsInv, HeldInv, Stored, Complete
<1> QED
  BY <1>1, <1>3, <1>4 DEF ArtifactsInv

(* An engine that could be created invokes its agents until the host takes  *)
(* away what it was created from.                                           *)
THEOREM CreatedEnginesAlwaysInvoke ==
  ASSUME ArtifactsAssumption
  PROVE  ArtifactsSpec => []CreatedEnginesInvoke
<1>1. ASSUME ArtifactsInv, NEW p \in SlotPaths, NEW agent \in Agents, InspectClosure(p, agent)
      PROVE  ArtifactsInv'
  BY <1>1 DEF InspectClosure, ArtifactsInv, HeldInv, CreatedEnginesInvoke, Stored, Complete
<1>2. ArtifactsInv /\ UNCHANGED artifactVars => ArtifactsInv'
  <2> SUFFICES ASSUME ArtifactsInv, UNCHANGED artifactVars PROVE ArtifactsInv'
    OBVIOUS
  <2>1. UNCHANGED <<artifacts, registry, engineReady, engineAnswer, cleared, shrunk, relabelled>>
    BY DEF artifactVars
  <2>2. HeldInv' /\ CreatedEnginesInvoke'
    BY <2>1 DEF ArtifactsInv, HeldInv, CreatedEnginesInvoke, Stored, Complete
  <2> QED
    BY <2>1, <2>2 DEF ArtifactsInv
<1>3. ArtifactsInv /\ [ArtifactsNext]_artifactVars => ArtifactsInv'
  BY <1>1, <1>2, RegisterKeeps, ClearKeeps, EditKeeps, CreateKeeps, InvokeKeeps,
     ArtifactsAssumption DEF ArtifactsNext
<1>4. ArtifactsInv => CreatedEnginesInvoke
  BY DEF ArtifactsInv
<1> QED
  BY <1>3, <1>4, ArtifactsStart, PTL DEF ArtifactsSpec

-----------------------------------------------------------------------------
(* Sets of indices have a least and a greatest element.                     *)
LEMMA LeastExists ==
  ASSUME NEW S \in SUBSET Nat, S # {}
  PROVE  \E i \in S : \A j \in S : i <= j
<1> DEFINE R == OpToRel(<, Nat)
<1>1. IsWellFoundedOn(R, Nat)
  BY NatLessThanWellFounded
<1> HIDE DEF R
<1>2. PICK i \in S : \A j \in S : ~ (<<j, i>> \in R)
  BY <1>1, WFMin
<1>3. ASSUME NEW j \in S PROVE i <= j
  <2>1. ~ (j < i)
    BY <1>2 DEF R, OpToRel
  <2> QED
    BY <2>1
<1> QED
  BY <1>3

LEMMA GreatestExists ==
  ASSUME NEW n \in Nat, NEW S, S \subseteq 1 .. n, S # {}
  PROVE  \E i \in S : \A j \in S : j <= i
<1> DEFINE D == {n - i : i \in S}
<1>1. \A i \in S : n - i \in Nat /\ n - i \in D
  OBVIOUS
<1>2. \A x \in D : \E i \in S : x = n - i
  OBVIOUS
<1>3. D \in SUBSET Nat /\ D # {}
  BY <1>1, <1>2
<1> HIDE DEF D
<1>4. PICK x \in D : \A y \in D : x <= y
  BY <1>3, LeastExists
<1>5. PICK i \in S : x = n - i
  BY <1>2
<1>6. \A j \in S : n - i <= n - j
  BY <1>1, <1>4, <1>5
<1> QED
  BY <1>6

-----------------------------------------------------------------------------
(* PolicyPacks: for any pack and any number of calls.                        *)

(* What the last of a set of indices is. *)
LEMMA LastIsGreatest ==
  ASSUME NEW n \in Nat, NEW S, S \subseteq 1 .. n, S # {}
  PROVE  LastIndex(S) \in S /\ \A j \in S : j <= LastIndex(S)
BY GreatestExists DEF LastIndex

(* An index greater than all others is the last.                            *)
LEMMA AppendIsLast ==
  ASSUME NEW n \in Nat, NEW S, S \subseteq 1 .. n + 1, n + 1 \in S
  PROVE  LastIndex(S) = n + 1
<1>1. n + 1 \in Nat /\ S # {}
  OBVIOUS
<1>2. LastIndex(S) \in S /\ n + 1 <= LastIndex(S)
  BY <1>1, LastIsGreatest
<1>3. LastIndex(S) \in 1 .. n + 1
  BY <1>2
<1> QED
  BY <1>2, <1>3

(* The rules that match after one more was added.                           *)
LEMMA MatchingAppend ==
  ASSUME NEW R, NEW q \in Seq(R), NEW r \in R, NEW s, NEW e
  PROVE  /\ Matching(q, s, e) \subseteq 1 .. Len(q)
         /\ Speaks(r, s, e) =>
              /\ Matching(Append(q, r), s, e) = Matching(q, s, e) \cup {Len(q) + 1}
              /\ Matching(<<r>>, s, e) = {1}
         /\ ~ Speaks(r, s, e) => Matching(Append(q, r), s, e) = Matching(q, s, e)
BY DEF Matching, Speaks

(* The rule that decides is one of the list.                                *)
LEMMA LastOfRules ==
  ASSUME NEW R, NEW q \in Seq(R), NEW s, NEW e, Matching(q, s, e) # {}
  PROVE  LastIndex(Matching(q, s, e)) \in DOMAIN q /\ q[LastIndex(Matching(q, s, e))] \in R
<1>1. Matching(q, s, e) \subseteq 1 .. Len(q)
  BY DEF Matching
<1> QED
  BY <1>1, LastIsGreatest

(* The rule that decides after one more was added: this one, or the one    *)
(* that did before.                                                        *)
LEMMA AddedRule ==
  ASSUME NEW R, NEW q \in Seq(R), NEW r \in R, NEW s, NEW e, NEW n
  PROVE  LET p == Heard(q, Append(q, r), s, e)
         IN  /\ Denies(Append(q, r), s, e) = Denies(p, s, e)
             /\ RequiresHandoff(Append(q, r), s, e) = RequiresHandoff(p, s, e)
             /\ CapReached(Append(q, r), s, e, n) = CapReached(p, s, e, n)
<1> DEFINE m == Matching(q, s, e)  l == Append(q, r)
<1>1. l # q /\ l[Len(l)] = r
  OBVIOUS
<1>2. CASE Speaks(r, s, e)
  <2>1. m \subseteq 1 .. Len(q) /\ Matching(l, s, e) = m \cup {Len(q) + 1} /\ Matching(<<r>>, s, e) = {1}
    BY <1>2, MatchingAppend
  <2>2. LastIndex(Matching(l, s, e)) = Len(q) + 1 /\ l[Len(q) + 1] = r
    BY <2>1, AppendIsLast
  <2>3. LastIndex({1}) = 1 /\ <<r>>[1] = r
    BY LastIsGreatest DEF LastIndex
  <2>4. Heard(q, l, s, e) = <<r>>
    BY <1>1, <1>2 DEF Heard
  <2> HIDE DEF m, l
  <2> QED
    BY <2>1, <2>2, <2>3, <2>4 DEF Denies, RequiresHandoff, CapReached, l
<1>3. CASE ~ Speaks(r, s, e)
  <2>1. Matching(l, s, e) = m
    BY <1>3 DEF Matching, Speaks
  <2>2. m # {} => LastIndex(m) \in DOMAIN q /\ l[LastIndex(m)] = q[LastIndex(m)]
    BY LastOfRules
  <2>3. Heard(q, l, s, e) = q
    BY <1>1, <1>3 DEF Heard
  <2> HIDE DEF m, l
  <2> QED
    BY <2>1, <2>2, <2>3 DEF Denies, RequiresHandoff, CapReached, l, m
<1> QED
  BY <1>2, <1>3

(* A cap that is reached stays reached.                                     *)
LEMMA CapsOnlyTighten ==
  ASSUME NEW S, NEW q \in Seq(RuleFor(S, Caps \cup {NoCap})), NEW s, NEW e, NEW n \in Nat,
         CapReached(q, s, e, n), PackAssumption
  PROVE  CapReached(q, s, e, n + 1)
<1> DEFINE m == Matching(q, s, e)
           rule == q[LastIndex(m)]
<1>1. m # {} /\ rule.maxCalls # NoCap /\ n >= rule.maxCalls
  BY DEF CapReached
<1>2. rule \in RuleFor(S, Caps \cup {NoCap})
  BY <1>1, LastOfRules
<1>3. rule.maxCalls \in Nat
  BY <1>1, <1>2 DEF RuleFor, PackAssumption
<1>4. n + 1 >= rule.maxCalls
  BY <1>1, <1>3
<1> QED
  BY <1>1, <1>4 DEF CapReached

(* A pack is made of rules.                                                 *)
PackInv ==
  pack \in [actionRules : Seq(ActionRules), sideEffectRules : Seq(SideEffectRules)]

LEMMA PacksAreRules == PacksSpec => []PackInv
<1>1. PacksInit => PackInv
  BY DEF PacksInit, PackInv
<1>2. PackInv /\ [PacksNext]_pack => PackInv'
  <2> SUFFICES ASSUME PackInv, [PacksNext]_pack PROVE PackInv'
    OBVIOUS
  <2>1. ASSUME NEW rule \in ActionRules, AddActionRule(rule) PROVE PackInv'
    <3>1. Append(pack.actionRules, rule) \in Seq(ActionRules)
      BY DEF PackInv
    <3> QED
      BY <2>1, <3>1 DEF PackInv, AddActionRule
  <2>2. ASSUME NEW rule \in SideEffectRules, AddSideEffectRule(rule) PROVE PackInv'
    <3>1. Append(pack.sideEffectRules, rule) \in Seq(SideEffectRules)
      BY DEF PackInv
    <3> QED
      BY <2>2, <3>1 DEF PackInv, AddSideEffectRule
  <2>3. CASE UNCHANGED pack
    BY <2>3 DEF PackInv
  <2> QED
    BY <2>1, <2>2, <2>3 DEF PacksNext
<1> QED
  BY <1>1, <1>2, PTL DEF PacksSpec

(* The more external calls a run has made, the stricter the decision, for   *)
(* any pack.                                                                *)
LEMMA RulesOnlyTighten ==
  ASSUME PackAssumption PROVE PackInv => CallsOnlyTighten
<1> SUFFICES ASSUME PackInv, NEW a \in ActionNames, NEW c \in Classes,
                    NEW e \in Environments, NEW n \in CallsUsed
             PROVE  EffectStrictness[PolicyEffect(pack, e, a, c, n)]
                      <= EffectStrictness[PolicyEffect(pack, e, a, c, n + 1)]
  BY DEF CallsOnlyTighten
<1>1. n \in Nat
  BY PackAssumption DEF CallsUsed, PackAssumption
<1>2. pack.sideEffectRules \in Seq(RuleFor(Classes, Caps \cup {NoCap}))
  BY DEF PackInv, SideEffectRules
<1>3. CapReached(pack.sideEffectRules, c, e, n) => CapReached(pack.sideEffectRules, c, e, n + 1)
  BY <1>1, <1>2, PackAssumption, CapsOnlyTighten
<1> QED
  BY <1>3 DEF PolicyEffect, EffectStrictness

(* A list of rules after a step of the author.                             *)
LEMMA HeardDecide ==
  ASSUME NEW R, NEW q \in Seq(R), NEW l, l = q \/ \E r \in R : l = Append(q, r),
         NEW s, NEW e, NEW n
  PROVE  LET p == Heard(q, l, s, e)
         IN  /\ Denies(l, s, e) = Denies(p, s, e)
             /\ RequiresHandoff(l, s, e) = RequiresHandoff(p, s, e)
             /\ CapReached(l, s, e, n) = CapReached(p, s, e, n)
<1>1. CASE l = q
  BY <1>1 DEF Heard
<1>2. ASSUME NEW r \in R, l = Append(q, r)
      PROVE  LET p == Heard(q, l, s, e)
             IN  /\ Denies(l, s, e) = Denies(p, s, e)
                 /\ RequiresHandoff(l, s, e) = RequiresHandoff(p, s, e)
                 /\ CapReached(l, s, e, n) = CapReached(p, s, e, n)
  BY <1>2, AddedRule
<1> QED
  BY <1>1, <1>2

(* Each list of the pack is heard on its subject as a step left it.         *)
LEMMA StepHearsLast ==
  ASSUME PackInv, PacksNext
  PROVE  LastSpeaksAlone
<1> SUFFICES ASSUME NEW a, NEW c, NEW e, NEW n
             PROVE  PolicyEffect(pack', e, a, c, n) =
                      PolicyEffect(
                        [actionRules |-> Heard(pack.actionRules, pack'.actionRules, a, e),
                         sideEffectRules |-> Heard(pack.sideEffectRules, pack'.sideEffectRules, c, e)],
                        e, a, c, n)
  BY DEF LastSpeaksAlone
<1> DEFINE q == pack.actionRules       l == pack'.actionRules
           o == pack.sideEffectRules   w == pack'.sideEffectRules
<1>1. q \in Seq(ActionRules) /\ o \in Seq(SideEffectRules)
  BY DEF PackInv
<1>2. /\ l = q \/ \E r \in ActionRules : l = Append(q, r)
      /\ w = o \/ \E r \in SideEffectRules : w = Append(o, r)
  BY DEF PacksNext, AddActionRule, AddSideEffectRule, PackInv
<1> HIDE DEF q, l, o, w
<1>3. /\ Denies(l, a, e) = Denies(Heard(q, l, a, e), a, e)
      /\ RequiresHandoff(l, a, e) = RequiresHandoff(Heard(q, l, a, e), a, e)
  BY <1>1, <1>2, HeardDecide
<1>4. /\ Denies(w, c, e) = Denies(Heard(o, w, c, e), c, e)
      /\ RequiresHandoff(w, c, e) = RequiresHandoff(Heard(o, w, c, e), c, e)
      /\ CapReached(w, c, e, n) = CapReached(Heard(o, w, c, e), c, e, n)
  BY <1>1, <1>2, HeardDecide
<1> QED
  BY <1>3, <1>4 DEF PolicyEffect, q, l, o, w

(* For any pack: more calls never relax a decision, and a rule added last   *)
(* speaks alone for its subject where it applies and changes no other       *)
(* decision.                                                                *)
THEOREM PackAlwaysSpeaksClearly ==
  ASSUME PackAssumption PROVE PacksSpec => PackSpeaksClearly
<1>1. PackInv => CallsOnlyTighten
  BY RulesOnlyTighten
<1>2. PackInv /\ [PacksNext]_pack => [LastSpeaksAlone]_pack
  BY StepHearsLast
<1> QED
  BY <1>1, <1>2, PacksAreRules, PTL DEF PacksSpec, PackSpeaksClearly

-----------------------------------------------------------------------------
(* OutcomeProjection: for any rules and outcomes.                            *)

(* What an author can have in a contract, whatever slot it is for.          *)
KnownRules ==
  RuleChoices \cup {DemoRule(o, p) : o \in UNION AcceptedSets, p \in Nat}

ContractInv == declared \in AcceptedSets /\ contract \in Seq(KnownRules)

LEMMA PrioritiesAreNumbers ==
  ASSUME ProjectionAssumption
  PROVE  \A r \in KnownRules : r.priority \in Int
BY DEF ProjectionAssumption, KnownRules, DemoRule

(* The outcomes in their order are listed each once.                        *)
LEMMA OutcomesInOrder ==
  ASSUME NEW S, IsFiniteSet(S)
  PROVE  /\ SetToSeq(S) \in Seq(S) /\ Len(SetToSeq(S)) = Cardinality(S)
         /\ IsInjective(SetToSeq(S))
         /\ \A x \in S : \E i \in DOMAIN SetToSeq(S) : SetToSeq(S)[i] = x
<1> DEFINE n == Cardinality(S)
           f == SetToSeq(S)
<1>1. n \in Nat /\ ExistsBijection(1 .. n, S)
  BY FS_CardinalityType
<1>2. PICK g \in [1 .. n -> S] : IsInjective(g)
  BY <1>1 DEF ExistsBijection, Bijection, Injection, IsInjective
<1>3. f \in [1 .. n -> S] /\ IsInjective(f)
  BY <1>2 DEF SetToSeq
<1>4. f \in Seq(S) /\ Len(f) = n
  BY <1>1, <1>3
<1>5. f \in Injection(1 .. n, S)
  BY <1>3 DEF Injection, IsInjective
<1>6. IsFiniteSet(1 .. n) /\ Cardinality(1 .. n) = n
  BY <1>1, FS_Interval
<1>7. f \in Surjection(1 .. n, S)
  BY <1>5, <1>6, FS_Injection
<1> HIDE DEF f, n
<1> QED
  BY <1>3, <1>4, <1>7 DEF Surjection, f, n

(* The built-in contract has one rule for each outcome.                     *)
LEMMA DemoContractIs ==
  ASSUME NEW S, IsFiniteSet(S), S # {}
  PROVE  /\ DemoContract(S) \in Seq({DemoRule(o, p) : o \in S, p \in Nat})
         /\ DemoContract(S) # <<>>
         /\ \A i \in DOMAIN DemoContract(S) :
              i \in Nat /\ \E o \in S : DemoContract(S)[i] = DemoRule(o, i)
         /\ Outcomes(DemoContract(S)) = S
<1> DEFINE order == SetToSeq(S)
           n == Len(order)
           d == DemoContract(S)
           R == {DemoRule(o, p) : o \in S, p \in Nat}
<1>1. order \in Seq(S) /\ n \in Nat /\ DOMAIN order = 1 .. n
      /\ \A x \in S : \E i \in 1 .. n : order[i] = x
  BY OutcomesInOrder
<1>2. d = [i \in 1 .. n |-> DemoRule(order[i], i)]
  BY <1>1 DEF DemoContract
<1> HIDE DEF order, n, d
<1>3. \A i \in 1 .. n : order[i] \in S /\ i \in Nat /\ d[i] = DemoRule(order[i], i) /\ d[i] \in R
  BY <1>1, <1>2 DEF n
<1>4. d \in Seq(R) /\ DOMAIN d = 1 .. n
  <2>1. d \in [1 .. n -> R]
    BY <1>2, <1>3
  <2> HIDE DEF R
  <2> QED
    BY <1>1, <2>1
<1>5. \A i \in DOMAIN d : d[i].outcome = order[i]
  BY <1>3, <1>4 DEF DemoRule
<1>6. Outcomes(d) = S
  <2>1. ASSUME NEW x \in S PROVE x \in Outcomes(d)
    <3>1. PICK i \in 1 .. n : order[i] = x
      BY <1>1
    <3> QED
      BY <1>4, <1>5, <3>1 DEF Outcomes
  <2>2. \A x \in Outcomes(d) : x \in S
    BY <1>3, <1>4, <1>5 DEF Outcomes
  <2> QED
    BY <2>1, <2>2
<1>7. d # <<>>
  BY <1>6 DEF Outcomes
<1> QED
  BY <1>3, <1>4, <1>6, <1>7 DEF d

(* Whatever an author does, a contract is made of such rules.               *)
LEMMA ContractsAreKnown ==
  ASSUME ProjectionAssumption
  PROVE  ProjectionSpec => []ContractInv
<1>1. ProjectionInit => ContractInv
  BY DEF ProjectionInit, ContractInv
<1>2. ContractInv /\ [ProjectionNext]_projectionVars => ContractInv'
  <2> SUFFICES ASSUME ContractInv, [ProjectionNext]_projectionVars PROVE ContractInv'
    OBVIOUS
  <2>1. ASSUME NEW rule \in RuleChoices, AddRule(rule) PROVE ContractInv'
    BY <2>1 DEF ContractInv, AddRule, KnownRules
  <2>2. CASE StartFromDemo
    <3>1. IsFiniteSet(declared) /\ declared # {} /\ declared \in AcceptedSets
      BY DEF ContractInv, ProjectionAssumption
    <3>2. DemoContract(declared) \in Seq({DemoRule(o, p) : o \in declared, p \in Nat})
      BY <3>1, DemoContractIs
    <3>3. {DemoRule(o, p) : o \in declared, p \in Nat} \subseteq KnownRules
      BY <3>1 DEF KnownRules
    <3>4. DemoContract(declared) \in Seq(KnownRules)
      BY <3>2, <3>3
    <3> QED
      BY <2>2, <3>1, <3>4 DEF StartFromDemo, ContractInv
  <2>3. CASE UNCHANGED projectionVars
    BY <2>3 DEF projectionVars, ContractInv
  <2> QED
    BY <2>1, <2>2, <2>3 DEF ProjectionNext
<1> QED
  BY <1>1, <1>2, PTL DEF ProjectionSpec

(* Of the rules that match none outranks a decisive one.                    *)
LEMMA DecisiveIs ==
  ASSUME NEW q, NEW e
  PROVE  /\ Decisive(q, Matches(q, e)) \subseteq Matches(q, e)
         /\ Matches(q, e) \subseteq DOMAIN q
         /\ \A i \in Matches(q, e) : q[i].outcome \in Outcomes(q)
                                     /\ \A c \in q[i].all : ConditionMatches(c, e)
BY DEF Decisive, Matches, Outcomes

(* A contract that answers names the outcome of its one decisive rule.      *)
LEMMA AnswerIsDecisive ==
  ASSUME NEW q, NEW e
  PROVE  \/ Evaluate(q, e) \in Failures
         \/ /\ e.output_path \notin StringMarkers \ Outcomes(q)
            /\ \E i \in Matches(q, e) :
                 Decisive(q, Matches(q, e)) = {i} /\ Evaluate(q, e) = q[i].outcome
<1> DEFINE D == Decisive(q, Matches(q, e))
<1> SUFFICES ASSUME Evaluate(q, e) \notin Failures
             PROVE  /\ e.output_path \notin StringMarkers \ Outcomes(q)
                    /\ \E i \in Matches(q, e) : D = {i} /\ Evaluate(q, e) = q[i].outcome
  OBVIOUS
<1>1. /\ e.output_path \notin StringMarkers \ Outcomes(q)
      /\ D # {} /\ ~ (\E i, j \in D : i # j)
      /\ Evaluate(q, e) = q[CHOOSE i \in D : TRUE].outcome
  BY DEF Evaluate, Failures
<1>2. PICK i : D = {i}
  BY <1>1
<1>3. (CHOOSE j \in D : TRUE) = i /\ i \in Matches(q, e)
  BY <1>2, DecisiveIs
<1> QED
  BY <1>1, <1>2, <1>3

(* Unique priorities leave one rule standing, and the rules of an accepted  *)
(* contract name the outcomes of the slot.                                  *)
LEMMA AcceptedIsDecided ==
  ASSUME ProjectionAssumption, ContractInv
  PROVE  AcceptedNeverAmbiguous
<1> SUFFICES ASSUME ContractAccepted(contract, declared), NEW e \in Evidence
             PROVE  Evaluate(contract, e) \in declared \cup (Failures \ {"AMBIGUOUS"})
  BY DEF AcceptedNeverAmbiguous
<1> DEFINE D == Decisive(contract, Matches(contract, e))
<1>1. \A i \in DOMAIN contract : contract[i].priority \in Int
  BY PrioritiesAreNumbers DEF ContractInv
<1>2. \A i, j \in DOMAIN contract : contract[i].priority = contract[j].priority => i = j
  BY DEF ContractAccepted, IsInjective
<1>3. \A i, j \in D : i = j
  <2> SUFFICES ASSUME NEW i \in D, NEW j \in D PROVE i = j
    OBVIOUS
  <2>1. i \in DOMAIN contract /\ j \in DOMAIN contract
    BY DecisiveIs
  <2>2. contract[i].priority <= contract[j].priority /\ contract[j].priority <= contract[i].priority
    BY DEF Decisive
  <2> QED
    BY <1>1, <1>2, <2>1, <2>2
<1>4. Evaluate(contract, e) # "AMBIGUOUS" \/ Evaluate(contract, e) \in Outcomes(contract)
  <2>1. CASE D = {}
    BY <2>1 DEF Evaluate
  <2>2. CASE D # {}
    <3>1. (CHOOSE i \in D : TRUE) \in Matches(contract, e)
      BY <2>2, DecisiveIs
    <3> QED
      BY <1>3, <2>2, <3>1, DecisiveIs DEF Evaluate
  <2> QED
    BY <2>1, <2>2
<1>5. Outcomes(contract) = declared
  BY DEF ContractAccepted
<1>6. Evaluate(contract, e) \in Failures \/ Evaluate(contract, e) \in Outcomes(contract)
  BY AnswerIsDecisive, DecisiveIs
<1> QED
  BY <1>4, <1>5, <1>6

(* Every rule of the built-in contract asks for its outcome as the marker.  *)
LEMMA DemoIsMarked ==
  ASSUME ProjectionAssumption, ContractInv
  PROVE  DemoOutcomesAreMarked
<1> DEFINE d == DemoContract(declared)
<1>1. IsFiniteSet(declared) /\ declared # {}
  BY DEF ContractInv, ProjectionAssumption
<1>2. /\ d # <<>> /\ Outcomes(d) = declared
      /\ \A i \in DOMAIN d : i \in Nat /\ \E o \in declared : d[i] = DemoRule(o, i)
  <2>1. d \in Seq({DemoRule(o, p) : o \in declared, p \in Nat})
    BY <1>1, DemoContractIs
  <2> QED
    BY <1>1, <2>1, DemoContractIs
<1> HIDE DEF d
<1>3. \A i \in DOMAIN d :
        /\ i \in Nat /\ d[i].priority = i * 10
        /\ Condition("runtime_status", StatusOf(d[i].outcome)) \in d[i].all
        /\ Condition("output_path", d[i].outcome) \in d[i].all
  BY <1>2 DEF DemoRule
<1>4. IsInjective([i \in DOMAIN d |-> d[i].priority])
  BY <1>3 DEF IsInjective
<1>5. {d[i].outcome : i \in {j \in DOMAIN d : DoneOnly(d[j])}} = {}
  BY <1>3 DEF DoneOnly, Condition
<1>6. ContractAccepted(d, declared)
  <2>1. Cardinality({}) <= 1
    BY FS_EmptySet
  <2>2. Cardinality({d[i].outcome : i \in {j \in DOMAIN d : DoneOnly(d[j])}}) <= 1
    BY <1>5, <2>1
  <2> QED
    BY <1>2, <1>4, <2>2 DEF ContractAccepted
<1>7. ASSUME NEW e \in Evidence, Evaluate(d, e) \notin Failures
      PROVE  Evaluate(d, e) = e.output_path
  <2>1. PICK i \in Matches(d, e) : Evaluate(d, e) = d[i].outcome
    BY <1>7, AnswerIsDecisive
  <2>2. ConditionMatches(Condition("output_path", d[i].outcome), e)
    BY <1>3, DecisiveIs
  <2> QED
    BY <2>1, <2>2 DEF ConditionMatches, Condition
<1> QED
  <2> SUFFICES ASSUME contract = d
               PROVE  /\ ContractAccepted(contract, declared)
                      /\ \A e \in Evidence :
                           Evaluate(contract, e) \notin Failures => Evaluate(contract, e) = e.output_path
    BY DEF DemoOutcomesAreMarked, d
  <2> QED
    BY <1>6, <1>7

(* A rule added leaves the other rules and their matches as they are.       *)
LEMMA MatchesOfAppend ==
  ASSUME NEW R, NEW q \in Seq(R), NEW r \in R, NEW e
  PROVE  /\ Append(q, r) \in Seq(R) /\ Append(q, r)[Len(Append(q, r))] = r
         /\ \A i \in DOMAIN q : Append(q, r)[i] = q[i] /\ i # Len(q) + 1
         /\ Append(q, r)[Len(q) + 1] = r
         /\ Outcomes(q) \subseteq Outcomes(Append(q, r))
         /\ Matches(Append(q, r), e) \ {Len(q) + 1} = Matches(q, e)
         /\ Len(q) + 1 \in Matches(Append(q, r), e) <=> \A c \in r.all : ConditionMatches(c, e)
<1> DEFINE l == Append(q, r)
<1>1. /\ l \in Seq(R) /\ DOMAIN l = DOMAIN q \cup {Len(q) + 1} /\ Len(q) + 1 \notin DOMAIN q
      /\ Len(l) = Len(q) + 1 /\ l[Len(q) + 1] = r /\ \A i \in DOMAIN q : l[i] = q[i]
  OBVIOUS
<1> HIDE DEF l
<1>2. Outcomes(q) \subseteq Outcomes(l)
  BY <1>1 DEF Outcomes
<1>3. Matches(l, e) \ {Len(q) + 1} = Matches(q, e)
  BY <1>1 DEF Matches
<1>4. Len(q) + 1 \in Matches(l, e) <=> \A c \in r.all : ConditionMatches(c, e)
  BY <1>1 DEF Matches
<1> QED
  BY <1>1, <1>2, <1>3, <1>4 DEF l

(* A rule that does not match, or is outranked by one that does, changes no *)
(* answer.                                                                  *)
LEMMA OutrankedIsSilent ==
  ASSUME NEW R, \A x \in R : x.priority \in Int, NEW q \in Seq(R), NEW r \in R, NEW e,
         Evaluate(q, e) \notin Failures,
         \/ ~ \A c \in r.all : ConditionMatches(c, e)
         \/ \E i \in Matches(q, e) : ~ (q[i].priority <= r.priority)
  PROVE  Evaluate(Append(q, r), e) = Evaluate(q, e)
<1> DEFINE l == Append(q, r)
           k == Len(q) + 1
           M == Matches(l, e)
           N == Matches(q, e)
<1>1. /\ l[k] = r /\ \A i \in DOMAIN q : l[i] = q[i] /\ i # k
      /\ Outcomes(q) \subseteq Outcomes(l) /\ M \ {k} = N
      /\ k \in M <=> \A c \in r.all : ConditionMatches(c, e)
      /\ N \subseteq DOMAIN q /\ \A i \in DOMAIN q : q[i] \in R
  BY MatchesOfAppend, DecisiveIs
<1>2. PICK d \in N : Decisive(q, N) = {d} /\ Evaluate(q, e) = q[d].outcome
                     /\ e.output_path \notin StringMarkers \ Outcomes(q)
  BY AnswerIsDecisive
<1> HIDE DEF l, k, M, N
<1>3. \A i \in N : q[i].priority \in Int /\ l[i] = q[i]
  BY <1>1
<1>4. r.priority \in Int
  OBVIOUS
<1>5. Decisive(l, M) = {d}
  <2>1. CASE k \notin M
    <3>1. M = N
      BY <1>1, <2>1
    <3> QED
      BY <1>2, <1>3, <3>1 DEF Decisive
  <2>2. CASE k \in M
    <3>1. PICK i \in N : ~ (q[i].priority <= r.priority)
      BY <1>1, <2>2 DEF N
    <3>2. M = N \cup {k} /\ k \notin N
      BY <1>1, <2>2
    <3>3. \A j \in N : q[j].priority <= q[d].priority
      BY <1>2 DEF Decisive
    <3>4. r.priority < q[i].priority /\ l[k].priority <= q[d].priority
      BY <1>1, <1>3, <1>4, <3>1, <3>3
    <3>5. k \notin Decisive(l, M)
      BY <1>1, <1>3, <1>4, <3>1, <3>2, <3>4 DEF Decisive
    <3>6. \A j \in N : j \in Decisive(l, M) => j \in Decisive(q, N)
      BY <1>3, <3>2 DEF Decisive
    <3>7. d \in Decisive(l, M)
      BY <1>3, <3>2, <3>3, <3>4 DEF Decisive
    <3>8. Decisive(l, M) \subseteq M
      BY DEF Decisive
    <3> QED
      BY <1>2, <3>2, <3>5, <3>6, <3>7, <3>8
  <2> QED
    BY <2>1, <2>2
<1>6. e.output_path \notin StringMarkers \ Outcomes(l)
  BY <1>1, <1>2
<1>7. Evaluate(l, e) = l[CHOOSE i \in {d} : TRUE].outcome
  BY <1>5, <1>6 DEF Evaluate, M
<1>8. (CHOOSE i \in {d} : TRUE) = d
  OBVIOUS
<1> QED
  BY <1>2, <1>3, <1>7, <1>8 DEF l

(* So a rule that changes an answer matches and ranks no lower.             *)
LEMMA AddedIsRanked ==
  ASSUME ProjectionAssumption, ContractInv, ProjectionNext
  PROVE  AddedRuleRespectsRank
<1> SUFFICES ASSUME contract # <<>>, NEW e \in Evidence, Evaluate(contract, e) \notin Failures,
                    Evaluate(contract', e) # Evaluate(contract, e)
             PROVE  LET new == contract'[Len(contract')]
                    IN  /\ \A c \in new.all : ConditionMatches(c, e)
                        /\ \A i \in Matches(contract, e) : contract[i].priority <= new.priority
  BY DEF AddedRuleRespectsRank
<1>1. PICK r \in RuleChoices : contract' = Append(contract, r)
  BY DEF ProjectionNext, StartFromDemo, AddRule
<1>2. contract \in Seq(KnownRules) /\ r \in KnownRules
  BY DEF ContractInv, KnownRules
<1>3. contract'[Len(contract')] = r
  BY <1>1, <1>2
<1> QED
  BY <1>1, <1>2, <1>3, PrioritiesAreNumbers, OutrankedIsSilent

(* For any rules: an accepted contract never leaves two outcomes standing,  *)
(* the built-in one answers with the marker, and a rule more changes an     *)
(* outcome only when it outranks what decided it.                           *)
THEOREM RulesAlwaysDecideTheirOwn ==
  ASSUME ProjectionAssumption
  PROVE  ProjectionSpec => RulesDecideTheirOwn
<1>1. ContractInv => AcceptedNeverAmbiguous /\ DemoOutcomesAreMarked
  BY AcceptedIsDecided, DemoIsMarked, ProjectionAssumption
<1>2. ContractInv /\ [ProjectionNext]_projectionVars => [AddedRuleRespectsRank]_projectionVars
  BY AddedIsRanked, ProjectionAssumption
<1> QED
  BY <1>1, <1>2, ContractsAreKnown, PTL DEF ProjectionSpec, RulesDecideTheirOwn

-----------------------------------------------------------------------------
(* ScenarioOverlays: for any overlays in any order.                          *)

(* What an overlay can say.                                                 *)
LEMMA DecisionsAre ==
  ASSUME OverlayAssumption, NEW o \in OverlayChoices, NEW s
  PROVE  Decision(o, s) \in {"allow", "deny", "handoff", "unknown"}
BY DEF OverlayAssumption, Decision

(* The first overlay that stops is one that stops.                          *)
LEMMA FirstStops ==
  ASSUME NEW q \in Seq(OverlayChoices), NEW s, Stopping(q, s) # {}
  PROVE  Evaluated(q, s) \in Stops
<1> DEFINE S == Stopping(q, s)
           f == CHOOSE i \in S : \A j \in S : i <= j
<1>1. S \subseteq Nat /\ S # {}
  BY DEF Stopping, Applying
<1>2. f \in S
  BY <1>1, LeastExists
<1>3. Decision(q[f], s) \in Stops
  BY <1>2 DEF Stopping
<1> QED
  BY <1>1, <1>3 DEF Evaluated

(* How strict a list of overlays is, without the order of its entries.      *)
LEMMA StrictnessIs ==
  ASSUME NEW q \in Seq(OverlayChoices), NEW s
  PROVE  /\ Stopping(q, s) # {} => Strictness[Evaluated(q, s)] = 2
         /\ Stopping(q, s) = {} =>
              Strictness[Evaluated(q, s)]
                = IF \E i \in Applying(q, s) : Decision(q[i], s) = "handoff" THEN 1 ELSE 0
<1>1. CASE Stopping(q, s) # {}
  BY <1>1, FirstStops DEF Stops, Strictness
<1>2. CASE Stopping(q, s) = {}
  BY <1>2 DEF Evaluated, Strictness
<1> QED
  BY <1>1, <1>2

(* One overlay more is never laxer.                                         *)
LEMMA AppendedTightens ==
  ASSUME NEW q \in Seq(OverlayChoices), NEW o \in OverlayChoices, NEW s
  PROVE  Strictness[Evaluated(q, s)] <= Strictness[Evaluated(Append(q, o), s)]
<1> DEFINE l == Append(q, o)
<1>1. l \in Seq(OverlayChoices) /\ \A i \in DOMAIN q : i \in DOMAIN l /\ l[i] = q[i]
  OBVIOUS
<1> SUFFICES Strictness[Evaluated(q, s)] <= Strictness[Evaluated(l, s)]
  OBVIOUS
<1> HIDE DEF l
<1>2. \A i \in Applying(q, s) : i \in Applying(l, s) /\ l[i] = q[i]
  BY <1>1 DEF Applying
<1>3. Stopping(q, s) # {} => Stopping(l, s) # {}
  BY <1>2 DEF Stopping
<1>4. CASE Stopping(l, s) # {}
  BY <1>1, <1>4, StrictnessIs
<1>5. CASE Stopping(l, s) = {}
  <2>1. Stopping(q, s) = {}
    BY <1>3, <1>5
  <2>2. Strictness[Evaluated(l, s)]
          = IF \E i \in Applying(l, s) : Decision(l[i], s) = "handoff" THEN 1 ELSE 0
    BY <1>1, <1>5, StrictnessIs
  <2>3. Strictness[Evaluated(q, s)]
          = IF \E i \in Applying(q, s) : Decision(q[i], s) = "handoff" THEN 1 ELSE 0
    BY <2>1, StrictnessIs
  <2> QED
    BY <1>2, <2>2, <2>3
<1> QED
  BY <1>4, <1>5

(* The order of the overlays does not matter.                               *)
LEMMA OrderIsNothing ==
  ASSUME NEW q \in Seq(OverlayChoices), NEW s
  PROVE  Strictness[Evaluated(Reverse(q), s)] = Strictness[Evaluated(q, s)]
<1> DEFINE r == Reverse(q)
           n == Len(q)
<1>1. r \in Seq(OverlayChoices) /\ Len(r) = n /\ n \in Nat /\ DOMAIN q = 1 .. n /\ DOMAIN r = 1 .. n
      /\ \A i \in 1 .. n : r[i] = q[n - i + 1] /\ q[i] = r[n - i + 1] /\ n - i + 1 \in 1 .. n
  BY DEF Reverse
<1> HIDE DEF r, n
<1>2. \A i \in Applying(q, s) : n - i + 1 \in Applying(r, s) /\ r[n - i + 1] = q[i]
  BY <1>1 DEF Applying
<1>3. \A i \in Applying(r, s) : n - i + 1 \in Applying(q, s) /\ q[n - i + 1] = r[i]
  BY <1>1 DEF Applying
<1>4. Stopping(q, s) # {} <=> Stopping(r, s) # {}
  BY <1>2, <1>3 DEF Stopping
<1>5. (\E i \in Applying(q, s) : Decision(q[i], s) = "handoff")
        <=> \E i \in Applying(r, s) : Decision(r[i], s) = "handoff"
  BY <1>2, <1>3
<1>6. CASE Stopping(q, s) # {}
  BY <1>1, <1>4, <1>6, StrictnessIs DEF r
<1>7. CASE Stopping(q, s) = {}
  <2>1. Strictness[Evaluated(q, s)]
          = IF \E i \in Applying(q, s) : Decision(q[i], s) = "handoff" THEN 1 ELSE 0
    BY <1>7, StrictnessIs
  <2>2. Strictness[Evaluated(r, s)]
          = IF \E i \in Applying(r, s) : Decision(r[i], s) = "handoff" THEN 1 ELSE 0
    BY <1>1, <1>4, <1>7, StrictnessIs
  <2> QED
    BY <1>5, <2>1, <2>2 DEF r
<1> QED
  BY <1>6, <1>7

OverlayInv == overlays \in Seq(OverlayChoices)

(* For any overlays: one more only tightens what is decided, in any order,  *)
(* and one scoped to a slot or route is silent at the start and the end.    *)
THEOREM OverlaysAlwaysKeepTheirPlace == OverlaySpec => OverlaysKeepTheirPlace
<1>1. OverlayInit => OverlayInv
  BY DEF OverlayInit, OverlayInv
<1>2. OverlayInv /\ [OverlayNext]_overlayVars => OverlayInv'
  BY DEF OverlayInv, OverlayNext, ListOverlay, overlayVars
<1>3. OverlayInv => ScopedOverlaysKeepToTheirStage
  <2> SUFFICES ASSUME OverlayInv, NEW s \in {"scenario_start", "terminal_before"},
                      Evaluated(overlays, s) # "allow"
               PROVE  \E i \in DOMAIN overlays :
                        \E scope \in overlays[i].scopes : scope.type = "scenario"
    BY DEF ScopedOverlaysKeepToTheirStage
  <2>1. PICK i : i \in Applying(overlays, s)
    BY DEF Evaluated, Stopping
  <2> QED
    BY <2>1 DEF Applying, Applies
<1>4. OverlayInv /\ [OverlayNext]_overlayVars => [AddedOverlayTightens]_overlayVars
  <2> SUFFICES ASSUME OverlayInv, OverlayNext, NEW s
               PROVE  /\ Strictness[Evaluated(overlays, s)] <= Strictness[Evaluated(overlays', s)]
                      /\ Strictness[Evaluated(Reverse(overlays'), s)] = Strictness[Evaluated(overlays', s)]
    BY DEF AddedOverlayTightens
  <2>1. PICK o \in OverlayChoices : overlays' = Append(overlays, o)
    BY DEF OverlayNext, ListOverlay
  <2>2. overlays' \in Seq(OverlayChoices)
    BY <2>1 DEF OverlayInv
  <2> QED
    BY <2>1, <2>2, AppendedTightens, OrderIsNothing DEF OverlayInv
<1> QED
  BY <1>1, <1>2, <1>3, <1>4, PTL DEF OverlaySpec, OverlaysKeepTheirPlace

-----------------------------------------------------------------------------
(* ScenarioBindings: for any documents, bindings, returns and applications.  *)

(* A path and what is below it.                                             *)
LEMMA PathBelow ==
  ASSUME NEW p \in Paths, NEW q \in Paths
  PROVE  /\ p \o q \in Paths /\ IsPrefix(p, p \o q)
         /\ SubSeq(p \o q, Len(p) + 1, Len(p \o q)) = q
<1>1. /\ p \o q \in Seq(FieldNames) /\ Len(p) \in Nat /\ Len(q) \in Nat /\ p \in Seq(FieldNames)
      /\ q \in Seq(FieldNames)
      /\ Len(p \o q) = Len(p) + Len(q)
      /\ \A i \in 1 .. Len(p) : (p \o q)[i] = p[i]
      /\ \A i \in 1 .. Len(q) : (p \o q)[Len(p) + i] = q[i]
  BY DEF Paths
<1> DEFINE x == p \o q
<1>2. IsPrefix(p, x)
  BY <1>1 DEF IsPrefix
<1> HIDE DEF x
<1>3. SubSeq(x, Len(p) + 1, Len(x)) = q
  <2>1. x \in Seq(FieldNames) /\ Len(x) = Len(p) + Len(q)
        /\ \A i \in 1 .. Len(q) : x[Len(p) + i] = q[i]
    BY <1>1 DEF x
  <2> DEFINE s == SubSeq(x, Len(p) + 1, Len(x))
  <2>2. s \in Seq(FieldNames) /\ Len(s) = Len(q) /\ \A i \in 1 .. Len(q) : s[i] = x[Len(p) + i]
    BY <1>1, <2>1
  <2> HIDE DEF s
  <2>3. s = q
    BY <1>1, <2>1, <2>2
  <2> QED
    BY <2>3 DEF s
<1> QED
  BY <1>1, <1>2, <1>3 DEF x, Paths

LEMMA PrefixIs ==
  ASSUME NEW p \in Paths, NEW x \in Paths
  PROVE  /\ Len(p) \in Nat /\ Len(x) \in Nat
         /\ IsPrefix(p, x) <=> Len(p) <= Len(x) /\ \A i \in 1 .. Len(p) : p[i] = x[i]
  BY DEF Paths, IsPrefix

(* Two prefixes of a path overlap.                                          *)
LEMMA PrefixesOverlap ==
  ASSUME NEW p \in Paths, NEW q \in Paths, NEW x \in Paths, IsPrefix(p, x), IsPrefix(q, x)
  PROVE  Overlap(p, q)
<1>1. Len(p) \in Nat /\ Len(q) \in Nat /\ Len(p) <= Len(x) /\ Len(q) <= Len(x) /\ Len(x) \in Nat
      /\ (\A i \in 1 .. Len(p) : p[i] = x[i]) /\ (\A i \in 1 .. Len(q) : q[i] = x[i])
  BY PrefixIs
<1>2. CASE Len(p) <= Len(q)
  <2>1. \A i \in 1 .. Len(p) : p[i] = q[i]
    BY <1>1, <1>2
  <2> QED
    BY <1>2, <2>1, PrefixIs DEF Overlap
<1>3. CASE Len(q) <= Len(p)
  <2>1. \A i \in 1 .. Len(q) : q[i] = p[i]
    BY <1>1, <1>3
  <2> QED
    BY <1>3, <2>1, PrefixIs DEF Overlap
<1> QED
  BY <1>1, <1>2, <1>3

(* A path that begins with another is it and what is below.                 *)
LEMMA BelowOfPrefix ==
  ASSUME NEW p \in Paths, NEW x \in Paths, IsPrefix(p, x)
  PROVE  LET q == SubSeq(x, Len(p) + 1, Len(x)) IN q \in Paths /\ x = p \o q
<1> DEFINE q == SubSeq(x, Len(p) + 1, Len(x))
<1>1. Len(p) \in Nat /\ Len(x) \in Nat /\ Len(p) <= Len(x) /\ \A i \in 1 .. Len(p) : p[i] = x[i]
  BY PrefixIs
<1>2. /\ q \in Seq(FieldNames) /\ Len(q) = Len(x) - Len(p)
      /\ \A i \in 1 .. Len(q) : q[i] = x[Len(p) + i]
  BY <1>1 DEF Paths
<1> HIDE DEF q
<1> DEFINE y == p \o q
<1>3. /\ y \in Seq(FieldNames) /\ Len(y) = Len(x) /\ p \in Seq(FieldNames) /\ x \in Seq(FieldNames)
      /\ \A i \in 1 .. Len(x) : y[i] = IF i <= Len(p) THEN p[i] ELSE q[i - Len(p)]
  BY <1>1, <1>2 DEF Paths
<1> HIDE DEF y
<1>4. ASSUME NEW i \in 1 .. Len(x) PROVE y[i] = x[i]
  <2>1. CASE i <= Len(p)
    BY <1>1, <1>3, <2>1
  <2>2. CASE i > Len(p)
    <3>1. i - Len(p) \in 1 .. Len(q) /\ Len(p) + (i - Len(p)) = i
      BY <1>1, <1>2, <2>2
    <3> QED
      BY <1>1, <1>2, <1>3, <2>2, <3>1
  <2> QED
    BY <1>1, <2>1, <2>2
<1>5. x = y
  BY <1>1, <1>3, <1>4
<1> QED
  BY <1>2, <1>5 DEF y, q, Paths

(* What At reads: every leaf below the path.                                *)
LEMMA AtIs ==
  ASSUME NEW doc, DOMAIN doc \subseteq Paths, NEW path \in Paths
  PROVE  At(doc, path) = [q \in {r \in Paths : path \o r \in DOMAIN doc} |-> doc[path \o q]]
<1> DEFINE below == {SubSeq(p, Len(path) + 1, Len(p)) : p \in {x \in DOMAIN doc : IsPrefix(path, x)}}
           D == {r \in Paths : path \o r \in DOMAIN doc}
<1>1. ASSUME NEW q \in below PROVE q \in D
  <2>1. PICK x \in DOMAIN doc : IsPrefix(path, x) /\ q = SubSeq(x, Len(path) + 1, Len(x))
    BY <1>1
  <2> QED
    BY <2>1, BelowOfPrefix
<1>2. ASSUME NEW q \in D PROVE q \in below
  <2>1. IsPrefix(path, path \o q) /\ q = SubSeq(path \o q, Len(path) + 1, Len(path \o q))
    BY PathBelow
  <2> QED
    BY <2>1
<1>3. below = D
  BY <1>1, <1>2
<1> HIDE DEF below, D
<1>4. At(doc, path) = [q \in below |-> doc[path \o q]]
  BY DEF At, below
<1> QED
  BY <1>3, <1>4 DEF D

(* The leaves of a document after a write: those elsewhere, and the value's. *)
LEMMA WriteIs ==
  ASSUME NEW doc, DOMAIN doc \subseteq Paths, NEW path \in Paths,
         NEW value, DOMAIN value \subseteq Paths
  PROVE  LET after == WritePath(doc, path, value)
         IN  /\ DOMAIN after \subseteq Paths
             /\ \A x \in Paths : ~ IsPrefix(path, x) =>
                  (x \in DOMAIN after <=> x \in DOMAIN doc)
                  /\ (x \in DOMAIN doc => after[x] = doc[x])
             /\ \A q \in Paths : (path \o q \in DOMAIN after <=> q \in DOMAIN value)
                  /\ (q \in DOMAIN value => after[path \o q] = value[q])
<1> DEFINE rest == [p \in {x \in DOMAIN doc : ~IsPrefix(path, x)} |-> doc[p]]
           after == WritePath(doc, path, value)
           new == {path \o q : q \in DOMAIN value}
<1>1. after = [p \in DOMAIN rest \cup new |->
                 IF \E q \in DOMAIN value : p = path \o q
                 THEN value[SubSeq(p, Len(path) + 1, Len(p))] ELSE rest[p]]
  BY DEF WritePath, Overlaid
<1>2. /\ DOMAIN rest = {x \in DOMAIN doc : ~IsPrefix(path, x)}
      /\ \A x \in DOMAIN rest : rest[x] = doc[x]
  OBVIOUS
<1>3. /\ \A q \in Paths : path \o q \in Paths /\ IsPrefix(path, path \o q)
           /\ SubSeq(path \o q, Len(path) + 1, Len(path \o q)) = q
      /\ \A q, r \in Paths : path \o q = path \o r => q = r
  BY PathBelow
<1> HIDE DEF rest, after
<1>4. DOMAIN after = DOMAIN rest \cup new /\ DOMAIN after \subseteq Paths
  <2>1. DOMAIN after = DOMAIN rest \cup new
    BY <1>1
  <2>2. DOMAIN rest \subseteq Paths
    BY <1>2
  <2>3. new \subseteq Paths
    BY <1>3
  <2> HIDE DEF new
  <2> QED
    BY <2>1, <2>2, <2>3
<1>5. ASSUME NEW x \in Paths, ~ IsPrefix(path, x)
      PROVE  /\ x \in DOMAIN after <=> x \in DOMAIN doc
             /\ x \in DOMAIN doc => after[x] = doc[x]
  <2>1. x \notin new /\ ~ \E q \in DOMAIN value : x = path \o q
    BY <1>3, <1>5
  <2> QED
    BY <1>1, <1>2, <1>4, <1>5, <2>1
<1>6. ASSUME NEW q \in Paths
      PROVE  /\ path \o q \in DOMAIN after <=> q \in DOMAIN value
             /\ q \in DOMAIN value => after[path \o q] = value[q]
  <2>1. path \o q \notin DOMAIN rest
    BY <1>2, <1>3
  <2>2. path \o q \in new <=> q \in DOMAIN value
    BY <1>3
  <2>3. ASSUME q \in DOMAIN value PROVE after[path \o q] = value[q]
    <3>1. after[path \o q] = value[SubSeq(path \o q, Len(path) + 1, Len(path \o q))]
      BY <1>1, <2>2, <2>3
    <3> QED
      BY <1>3, <3>1
  <2> QED
    BY <1>4, <2>1, <2>2, <2>3
<1> QED
  BY <1>4, <1>5, <1>6 DEF after

(* What was written is read there, and what was elsewhere stays.            *)
LEMMA ReadsWhatWasWritten ==
  ASSUME NEW doc, DOMAIN doc \subseteq Paths, NEW path \in Paths,
         NEW answer, DOMAIN answer \subseteq Paths, NEW from \in Paths
  PROVE  At(WritePath(doc, path, At(answer, from)), path) = At(answer, from)
<1> DEFINE value == At(answer, from)
           after == WritePath(doc, path, value)
           D == {r \in Paths : from \o r \in DOMAIN answer}
<1>1. value = [q \in D |-> answer[from \o q]]
  BY AtIs
<1>2. DOMAIN value = D /\ D \subseteq Paths /\ value = [q \in D |-> value[q]]
  BY <1>1
<1> HIDE DEF value, D
<1>3. /\ DOMAIN after \subseteq Paths
      /\ \A q \in Paths : (path \o q \in DOMAIN after <=> q \in DOMAIN value)
           /\ (q \in DOMAIN value => after[path \o q] = value[q])
  BY <1>2, WriteIs
<1> HIDE DEF after
<1>4. At(after, path) = [q \in {r \in Paths : path \o r \in DOMAIN after} |-> after[path \o q]]
  BY <1>3, AtIs
<1>5. {r \in Paths : path \o r \in DOMAIN after} = D
  BY <1>2, <1>3
<1>6. At(after, path) = [q \in D |-> value[q]]
  BY <1>2, <1>3, <1>4, <1>5
<1> QED
  BY <1>2, <1>6 DEF after, value

LEMMA WriteKeepsElsewhere ==
  ASSUME NEW doc, DOMAIN doc \subseteq Paths, NEW path \in Paths,
         NEW value, DOMAIN value \subseteq Paths, NEW p \in Paths, ~ Overlap(p, path)
  PROVE  At(WritePath(doc, path, value), p) = At(doc, p)
<1> DEFINE after == WritePath(doc, path, value)
<1>1. /\ DOMAIN after \subseteq Paths
      /\ \A x \in Paths : ~ IsPrefix(path, x) =>
                  (x \in DOMAIN after <=> x \in DOMAIN doc)
                  /\ (x \in DOMAIN doc => after[x] = doc[x])
  BY WriteIs
<1> HIDE DEF after
<1>2. ASSUME NEW q \in Paths PROVE p \o q \in Paths /\ ~ IsPrefix(path, p \o q)
  BY PathBelow, PrefixesOverlap
<1>3. /\ At(after, p) = [q \in {r \in Paths : p \o r \in DOMAIN after} |-> after[p \o q]]
      /\ At(doc, p) = [q \in {r \in Paths : p \o r \in DOMAIN doc} |-> doc[p \o q]]
  BY <1>1, AtIs
<1> DEFINE A == {r \in Paths : p \o r \in DOMAIN after}
           B == {r \in Paths : p \o r \in DOMAIN doc}
<1>4. A = B
  BY <1>1, <1>2
<1>5. \A q \in B : after[p \o q] = doc[p \o q]
  BY <1>1, <1>2
<1> QED
  BY <1>3, <1>4, <1>5 DEF after

(* A document's leaves hang from paths and are scalars.                     *)
IsDocument(doc) == DOMAIN doc \subseteq Paths /\ \A p \in DOMAIN doc : doc[p] \in Scalars

LEMMA WrittenIsDocument ==
  ASSUME NEW doc, IsDocument(doc), NEW path \in Paths,
         NEW answer, IsDocument(answer), NEW from \in Paths
  PROVE  IsDocument(WritePath(doc, path, At(answer, from)))
<1> DEFINE value == At(answer, from)
           after == WritePath(doc, path, value)
           D == {r \in Paths : from \o r \in DOMAIN answer}
<1>1. value = [q \in D |-> answer[from \o q]]
  BY AtIs DEF IsDocument
<1>2. DOMAIN value = D /\ D \subseteq Paths /\ \A q \in D : value[q] \in Scalars
  BY <1>1 DEF IsDocument
<1> HIDE DEF value, D
<1>3. /\ DOMAIN after \subseteq Paths
      /\ \A x \in Paths : ~ IsPrefix(path, x) =>
           (x \in DOMAIN after <=> x \in DOMAIN doc)
           /\ (x \in DOMAIN doc => after[x] = doc[x])
      /\ \A q \in Paths : (path \o q \in DOMAIN after <=> q \in DOMAIN value)
           /\ (q \in DOMAIN value => after[path \o q] = value[q])
  BY <1>2, WriteIs DEF IsDocument
<1> HIDE DEF after
<1>4. ASSUME NEW x \in DOMAIN after PROVE after[x] \in Scalars
  <2>1. CASE IsPrefix(path, x)
    <3>1. PICK q \in Paths : x = path \o q
      BY <1>3, <2>1, BelowOfPrefix
    <3> QED
      BY <1>2, <1>3, <1>4, <3>1
  <2>2. CASE ~ IsPrefix(path, x)
    BY <1>3, <1>4, <2>2 DEF IsDocument
  <2> QED
    BY <2>1, <2>2
<1> QED
  BY <1>3, <1>4 DEF IsDocument, after, value

Endings == {"returned", "source missing", "collision", "exhausted"}
State(doc, n, e) == [input |-> doc, spent |-> n, ended |-> e]
IsState(s) ==
  \E doc : \E n \in 0 .. MaxApplications : \E e \in Endings :
    IsDocument(doc) /\ s = State(doc, n, e)

LEMMA StateIs ==
  ASSUME NEW s, IsState(s)
  PROVE  /\ IsDocument(s.input) /\ s.spent \in 0 .. MaxApplications /\ s.ended \in Endings
         /\ s = State(s.input, s.spent, s.ended)
  BY DEF IsState, State

(* One binding leaves a document, and goes on only from a state that        *)
(* returned, by writing what the source answered if it did.                 *)
LEMMA AppliedIs ==
  ASSUME BindingsAssumption, NEW answer, IsDocument(answer), NEW s, IsState(s),
         NEW b \in BindingChoices
  PROVE  LET t == Applied(answer, s, b)
             value == At(answer, b.from)
         IN  /\ IsState(t)
             /\ t.ended = "returned" =>
                  /\ s.ended = "returned"
                  /\ t.input = IF value = Nowhere THEN s.input
                               ELSE WritePath(s.input, b.to, value)
<1> DEFINE t == Applied(answer, s, b)
           value == At(answer, b.from)
           written == WritePath(s.input, b.to, value)
<1>1. b.from \in Paths /\ b.to \in Paths /\ b.required \in BOOLEAN /\ MaxApplications \in Nat
  BY DEF BindingsAssumption
<1>2. PICK doc : \E n \in 0 .. MaxApplications : \E e \in Endings :
                    IsDocument(doc) /\ s = State(doc, n, e)
  BY DEF IsState
<1>3. PICK n \in 0 .. MaxApplications, e \in Endings : IsDocument(doc) /\ s = State(doc, n, e)
  BY <1>2
<1>4. s.input = doc /\ s.spent = n /\ s.ended = e
  BY <1>3 DEF State
<1>5. IsDocument(written)
  BY <1>1, <1>3, <1>4, WrittenIsDocument
<1>6. \/ t = State(doc, n, e) /\ e # "returned"
      \/ t = State(doc, n, "exhausted")
      \/ /\ e = "returned" /\ n # MaxApplications /\ value = Nowhere
         /\ \E end \in {"source missing", "returned"} : t = State(doc, n + 1, end)
      \/ n # MaxApplications /\ t = State(doc, n + 1, "collision")
      \/ /\ e = "returned" /\ n # MaxApplications /\ value # Nowhere
         /\ t = State(written, n + 1, "returned")
  <2> HIDE DEF value, written
  <2> QED
    BY <1>3, <1>4 DEF Applied, State, value, written
<1> HIDE DEF t, value, written
<1>7. IsState(t)
  <2>1. n # MaxApplications => n + 1 \in 0 .. MaxApplications
    BY <1>1
  <2>2. {"exhausted", "collision", "source missing", "returned"} \subseteq Endings
    BY DEF Endings
  <2> QED
    BY <1>3, <1>5, <1>6, <2>1, <2>2 DEF IsState
<1>8. t.ended = "returned" => e = "returned" /\ t.input = IF value = Nowhere THEN doc ELSE written
  <2>1. CASE t = State(doc, n, e) /\ e # "returned"
    BY <2>1 DEF State
  <2>2. CASE t = State(doc, n, "exhausted")
    BY <2>2 DEF State
  <2>3. CASE /\ e = "returned" /\ value = Nowhere
             /\ \E end \in {"source missing", "returned"} : t = State(doc, n + 1, end)
    BY <2>3 DEF State
  <2>4. CASE t = State(doc, n + 1, "collision")
    BY <2>4 DEF State
  <2>5. CASE e = "returned" /\ value # Nowhere /\ t = State(written, n + 1, "returned")
    BY <2>5 DEF State
  <2> QED
    BY <1>6, <2>1, <2>2, <2>3, <2>4, <2>5
<1> QED
  BY <1>4, <1>7, <1>8 DEF t, value, written

(* The states that the bindings of a list come to.                          *)
Applications(answer, list, start, n, after) ==
  after = [k \in 0 .. n |-> IF k = 0 THEN start ELSE Applied(answer, after[k - 1], list[k])]

LEMMA ApplicationAt ==
  ASSUME NEW answer, NEW list, NEW start, NEW n, NEW after,
         Applications(answer, list, start, n, after), NEW k \in 0 .. n
  PROVE  after[k] = IF k = 0 THEN start ELSE Applied(answer, after[k - 1], list[k])
  BY DEF Applications

LEMMA ApplicationsExist ==
  ASSUME NEW answer, NEW list, NEW start, NEW n \in Nat
  PROVE  \E after : Applications(answer, list, start, n, after)
<1> DEFINE Lacking == {k \in Nat : ~ \E after : Applications(answer, list, start, k, after)}
<1> SUFFICES ASSUME Lacking # {} PROVE FALSE
  OBVIOUS
<1>1. PICK k \in Lacking : \A j \in Lacking : k <= j
  BY LeastExists
<1>2. k # 0
  <2> DEFINE one == [i \in 0 .. 0 |-> start]
  <2>1. Applications(answer, list, start, 0, one)
    BY DEF Applications
  <2> QED
    BY <1>1, <2>1
<1>3. k - 1 \in Nat /\ k - 1 \notin Lacking
  BY <1>1, <1>2
<1>4. PICK before : Applications(answer, list, start, k - 1, before)
  BY <1>3
<1> DEFINE more == [i \in 0 .. k |-> IF i = k THEN Applied(answer, before[k - 1], list[k])
                                     ELSE before[i]]
<1>5. ASSUME NEW i \in 0 .. k
      PROVE  more[i] = IF i = 0 THEN start ELSE Applied(answer, more[i - 1], list[i])
  <2>1. CASE i = k
    BY <1>1, <1>2, <2>1
  <2>2. CASE i # k
    <3>1. i \in 0 .. k - 1 /\ (i # 0 => i - 1 \in 0 .. k - 1 /\ i - 1 # k)
      BY <1>1, <2>2
    <3>2. before[i] = IF i = 0 THEN start ELSE Applied(answer, before[i - 1], list[i])
      BY <1>4, <3>1, ApplicationAt
    <3>3. more[i] = before[i] /\ (i # 0 => more[i - 1] = before[i - 1])
      BY <1>1, <2>2, <3>1
    <3> QED
      BY <3>2, <3>3
  <2> QED
    BY <2>1, <2>2
<1>6. Applications(answer, list, start, k, more)
  BY <1>5 DEF Applications
<1> QED
  BY <1>1, <1>6

LEMMA AppliedAllIs ==
  ASSUME NEW answer, NEW list, NEW start, Len(list) \in Nat
  PROVE  \E after : /\ Applications(answer, list, start, Len(list), after)
                    /\ AppliedAll(answer, list, start) = after[Len(list)]
<1> DEFINE f == CHOOSE after : Applications(answer, list, start, Len(list), after)
<1>1. Applications(answer, list, start, Len(list), f)
  BY ApplicationsExist
<1>2. AppliedAll(answer, list, start) = f[Len(list)]
  BY DEF AppliedAll, Applications
<1> QED
  BY <1>1, <1>2

-----------------------------------------------------------------------------
Answered(answer, list, i) == At(answer, list[i].from) # Nowhere

(* The first k bindings that returned: each target holds its answer unless  *)
(* a later one of them overlaps it, and other paths hold what they held.    *)
TargetsHold(answer, list, input, k) ==
  \A i \in 1 .. k :
    /\ Answered(answer, list, i)
    /\ \A j \in 1 .. k : j > i /\ Answered(answer, list, j) => ~ Overlap(list[i].to, list[j].to)
    => At(input, list[i].to) = At(answer, list[i].from)
OthersKept(answer, list, first, input, k) ==
  \A p \in Paths :
    (\A j \in 1 .. k : Answered(answer, list, j) => ~ Overlap(p, list[j].to))
      => At(input, p) = At(first, p)
Handed(answer, list, first, s, k) ==
  /\ IsState(s)
  /\ s.ended = "returned" =>
       TargetsHold(answer, list, s.input, k) /\ OthersKept(answer, list, first, s.input, k)

LEMMA OneMoreHanded ==
  ASSUME BindingsAssumption, NEW answer, IsDocument(answer), NEW list \in Seq(BindingChoices),
         NEW k \in 1 .. Len(list), NEW first, NEW s, Handed(answer, list, first, s, k - 1)
  PROVE  Handed(answer, list, first, Applied(answer, s, list[k]), k)
<1> DEFINE t == Applied(answer, s, list[k])
           value == At(answer, list[k].from)
<1>1. /\ \A i \in 1 .. Len(list) : list[i].to \in Paths /\ list[i].from \in Paths
      /\ list[k] \in BindingChoices /\ k \in Nat /\ Len(list) \in Nat
  BY DEF BindingsAssumption
<1>2. IsState(s) /\ IsDocument(s.input)
  BY StateIs DEF Handed
<1>3. /\ IsState(t)
      /\ t.ended = "returned" =>
           /\ s.ended = "returned"
           /\ t.input = IF value = Nowhere THEN s.input ELSE WritePath(s.input, list[k].to, value)
  BY <1>1, <1>2, AppliedIs
<1> HIDE DEF t
<1> SUFFICES ASSUME t.ended = "returned"
             PROVE  TargetsHold(answer, list, t.input, k) /\ OthersKept(answer, list, first, t.input, k)
  BY <1>3 DEF Handed, t
<1>4. TargetsHold(answer, list, s.input, k - 1) /\ OthersKept(answer, list, first, s.input, k - 1)
  BY <1>3 DEF Handed
<1>5. ASSUME NEW p \in Paths, value # Nowhere => ~ Overlap(p, list[k].to)
      PROVE  At(t.input, p) = At(s.input, p)
  <2>1. CASE value = Nowhere
    BY <1>3, <2>1
  <2>2. CASE value # Nowhere
    <3>1. DOMAIN value \subseteq Paths
      <4> DEFINE D == {r \in Paths : list[k].from \o r \in DOMAIN answer}
      <4>1. value = [q \in D |-> answer[list[k].from \o q]]
        BY <1>1, AtIs DEF IsDocument
      <4> HIDE DEF value
      <4> QED
        BY <4>1
    <3> HIDE DEF value
    <3>2. At(WritePath(s.input, list[k].to, value), p) = At(s.input, p)
      BY <1>1, <1>2, <1>5, <2>2, <3>1, WriteKeepsElsewhere DEF IsDocument
    <3> QED
      BY <1>3, <2>2, <3>2
  <2> QED
    BY <2>1, <2>2
<1>6. TargetsHold(answer, list, t.input, k)
  <2> SUFFICES ASSUME NEW i \in 1 .. k, Answered(answer, list, i),
                      \A j \in 1 .. k : j > i /\ Answered(answer, list, j)
                                          => ~ Overlap(list[i].to, list[j].to)
               PROVE  At(t.input, list[i].to) = At(answer, list[i].from)
    BY DEF TargetsHold
  <2>1. CASE i = k
    <3>1. t.input = WritePath(s.input, list[k].to, value)
      BY <1>3, <2>1 DEF Answered
    <3>2. At(WritePath(s.input, list[k].to, value), list[k].to) = value
      BY <1>1, <1>2, ReadsWhatWasWritten DEF IsDocument
    <3> QED
      BY <2>1, <3>1, <3>2
  <2>2. CASE i # k
    <3>1. i \in 1 .. k - 1 /\ k > i /\ k \in 1 .. k /\ \A j \in 1 .. k - 1 : j \in 1 .. k
      BY <1>1, <2>2
    <3>2. At(s.input, list[i].to) = At(answer, list[i].from)
      BY <1>4, <3>1 DEF TargetsHold
    <3>3. value # Nowhere => ~ Overlap(list[i].to, list[k].to)
      BY <3>1 DEF Answered
    <3>4. list[i].to \in Paths
      BY <1>1
    <3> HIDE DEF value
    <3>5. At(t.input, list[i].to) = At(s.input, list[i].to)
      BY <1>5, <3>3, <3>4
    <3> QED
      BY <3>2, <3>5
  <2> QED
    BY <2>1, <2>2
<1>7. OthersKept(answer, list, first, t.input, k)
  <2> SUFFICES ASSUME NEW p \in Paths,
                      \A j \in 1 .. k : Answered(answer, list, j) => ~ Overlap(p, list[j].to)
               PROVE  At(t.input, p) = At(first, p)
    BY DEF OthersKept
  <2>1. k \in 1 .. k /\ \A j \in 1 .. k - 1 : j \in 1 .. k
    BY <1>1
  <2>2. At(s.input, p) = At(first, p)
    BY <1>4, <2>1 DEF OthersKept
  <2>3. value # Nowhere => ~ Overlap(p, list[k].to)
    BY <2>1 DEF Answered
  <2> HIDE DEF value
  <2> QED
    BY <1>5, <2>2, <2>3
<1> QED
  BY <1>6, <1>7

LEMMA AllHanded ==
  ASSUME BindingsAssumption, NEW answer, IsDocument(answer), NEW list \in Seq(BindingChoices),
         NEW start, IsState(start)
  PROVE  Handed(answer, list, start.input, AppliedAll(answer, list, start), Len(list))
<1> DEFINE n == Len(list)
<1>1. n \in Nat
  OBVIOUS
<1>2. PICK after : /\ Applications(answer, list, start, n, after)
                   /\ AppliedAll(answer, list, start) = after[n]
  BY <1>1, AppliedAllIs
<1> DEFINE Bad == {k \in 0 .. n : ~ Handed(answer, list, start.input, after[k], k)}
<1>3. ASSUME Bad # {} PROVE FALSE
  <2>1. Bad \in SUBSET Nat
    BY <1>1
  <2>2. PICK k \in Bad : \A j \in Bad : k <= j
    BY <1>3, <2>1, LeastExists
  <2>3. k \in 0 .. n /\ ~ Handed(answer, list, start.input, after[k], k)
    BY <2>2
  <2>4. after[k] = IF k = 0 THEN start ELSE Applied(answer, after[k - 1], list[k])
    BY <1>2, <2>3, ApplicationAt
  <2>5. CASE k = 0
    <3>1. Handed(answer, list, start.input, start, 0)
      BY DEF Handed, TargetsHold, OthersKept
    <3> QED
      BY <2>3, <2>4, <2>5, <3>1
  <2>6. CASE k # 0
    <3>1. k - 1 \in 0 .. n /\ k \in 1 .. n /\ ~ (k <= k - 1)
      BY <1>1, <2>3, <2>6
    <3>2. Handed(answer, list, start.input, after[k - 1], k - 1)
      BY <2>2, <3>1
    <3> QED
      BY <2>3, <2>4, <2>6, <3>1, <3>2, OneMoreHanded
  <2> QED
    BY <2>5, <2>6
<1>4. n \in 0 .. n
  BY <1>1
<1> HIDE DEF n
<1> QED
  BY <1>2, <1>3, <1>4 DEF n

-----------------------------------------------------------------------------
(* Bindings are listed before the first return; what a return that ended    *)
(* well left is what the whole list comes to.                               *)
BindingsInv ==
  /\ bindings \in Seq(BindingChoices) /\ returns \in 0 .. MaxReturns
  /\ returns = 0 => ended = "idle"
  /\ spent \in 0 .. MaxApplications /\ ended \in Endings \cup {"idle"}
  /\ IsDocument(callerInput) /\ calleeOutput \in Outputs \cup {Nowhere}
  /\ ended = "returned" =>
       /\ TargetsHold(calleeOutput, bindings, callerInput, Len(bindings))
       /\ OthersKept(calleeOutput, bindings, earlier, callerInput, Len(bindings))

LEMMA BindingsStart ==
  ASSUME BindingsAssumption PROVE BindingsInit => BindingsInv
  BY DEF BindingsAssumption, BindingsInit, BindingsInv, IsDocument, Endings

LEMMA ListBindingKeeps ==
  ASSUME BindingsInv, NEW b \in BindingChoices, ListBinding(b) PROVE BindingsInv'
<1>1. /\ bindings' \in Seq(BindingChoices) /\ ended = "idle"
      /\ UNCHANGED <<calleeOutput, callerInput, earlier, spent, returns, ended>>
  BY DEF BindingsInv, ListBinding
<1> QED
  BY <1>1 DEF BindingsInv

LEMMA ReturnKeeps ==
  ASSUME BindingsAssumption, BindingsInv, NEW answer \in Outputs, ReturnToCaller(answer)
  PROVE  BindingsInv'
<1> DEFINE start == [input |-> callerInput, spent |-> spent, ended |-> "returned"]
           after == AppliedAll(answer, bindings, start)
<1>1. /\ IsDocument(answer)
      /\ bindings \in Seq(BindingChoices)
      /\ IsDocument(callerInput) /\ spent \in 0 .. MaxApplications
  BY DEF BindingsAssumption, BindingsInv, IsDocument
<1>2. IsState(start) /\ start.input = callerInput
  BY <1>1 DEF IsState, State, Endings
<1> HIDE DEF start
<1>3. Handed(answer, bindings, callerInput, after, Len(bindings))
  BY <1>1, <1>2, AllHanded
<1>4. /\ calleeOutput' = answer /\ earlier' = callerInput /\ bindings' = bindings
      /\ callerInput' = after.input /\ spent' = after.spent /\ ended' = after.ended
      /\ returns' = returns + 1 /\ returns < MaxReturns
  BY DEF ReturnToCaller, start
<1> HIDE DEF after
<1>5. IsDocument(callerInput') /\ spent' \in 0 .. MaxApplications /\ ended' \in Endings
  BY <1>3, <1>4, StateIs DEF Handed
<1>6. returns' \in 0 .. MaxReturns /\ returns' # 0
  BY <1>4 DEF BindingsInv, BindingsAssumption
<1>7. ended' = "returned" =>
        /\ TargetsHold(calleeOutput', bindings', callerInput', Len(bindings'))
        /\ OthersKept(calleeOutput', bindings', earlier', callerInput', Len(bindings'))
  BY <1>3, <1>4 DEF Handed
<1> QED
  BY <1>1, <1>4, <1>5, <1>6, <1>7 DEF BindingsInv

LEMMA BindingsAlwaysInv ==
  ASSUME BindingsAssumption PROVE BindingsSpec => []BindingsInv
<1>1. BindingsInv /\ [BindingsNext]_bindingVars => BindingsInv'
  <2> SUFFICES ASSUME BindingsInv, [BindingsNext]_bindingVars PROVE BindingsInv'
    OBVIOUS
  <2>1. CASE BindingsNext
    BY <2>1, ListBindingKeeps, ReturnKeeps DEF BindingsNext
  <2>2. CASE UNCHANGED bindingVars
    BY <2>2 DEF BindingsInv, bindingVars
  <2> QED
    BY <2>1, <2>2
<1> QED
  BY <1>1, BindingsStart, PTL DEF BindingsSpec

(* For any documents and bindings: after a return each target holds what    *)
(* its source answered, or kept what it held; only a later binding to an    *)
(* overlapping path takes it away (data-binding-engine.ts:22).              *)
THEOREM AlwaysLostOnlyByOverlap ==
  ASSUME BindingsAssumption PROVE BindingsSpec => []LostOnlyByOverlap
<1>1. BindingsInv => LostOnlyByOverlap
  <2> SUFFICES ASSUME BindingsInv, ended = "returned",
                      NEW i \in DOMAIN bindings, ~ Overwritten(i)
               PROVE  LET given == bindings[i]
                          answered == At(calleeOutput, given.from)
                      IN  /\ answered # Nowhere => At(callerInput, given.to) = answered
                          /\ answered = Nowhere /\ (\A j \in DOMAIN bindings :
                                 ~ (j # i /\ Overlap(given.to, bindings[j].to)))
                               => At(callerInput, given.to) = At(earlier, given.to)
    BY DEF LostOnlyByOverlap
  <2>1. /\ DOMAIN bindings = 1 .. Len(bindings) /\ bindings[i].to \in Paths
        /\ TargetsHold(calleeOutput, bindings, callerInput, Len(bindings))
        /\ OthersKept(calleeOutput, bindings, earlier, callerInput, Len(bindings))
    BY DEF BindingsInv, BindingsAssumption
  <2>2. \A j \in DOMAIN bindings :
          j > i /\ Answered(calleeOutput, bindings, j) => ~ Overlap(bindings[i].to, bindings[j].to)
    BY DEF Overwritten, Answered
  <2>3. Answered(calleeOutput, bindings, i)
          => At(callerInput, bindings[i].to) = At(calleeOutput, bindings[i].from)
    BY <2>1, <2>2 DEF TargetsHold
  <2>4. ASSUME ~ Answered(calleeOutput, bindings, i),
               \A j \in DOMAIN bindings : ~ (j # i /\ Overlap(bindings[i].to, bindings[j].to))
        PROVE  At(callerInput, bindings[i].to) = At(earlier, bindings[i].to)
    BY <2>1, <2>4 DEF OthersKept
  <2> QED
    BY <2>3, <2>4 DEF Answered
<1>2. BindingsSpec => []BindingsInv
  BY BindingsAlwaysInv
<1> QED
  BY <1>1, <1>2, PTL

-----------------------------------------------------------------------------
(* The parts together: MCSlotParts moves one at a time, so that each behaves *)
(* as its own specification says, and keeps its types and its promises.      *)

LEMMA ContractsAreTyped ==
  ASSUME ProjectionAssumption PROVE ProjectionSpec => []ProjectionTypeOK
<1>1. ProjectionInit => ProjectionTypeOK
  BY ProjectionAssumption DEF ProjectionInit, ProjectionTypeOK, ProjectionAssumption
<1>2. ContractInv /\ ProjectionTypeOK /\ [ProjectionNext]_projectionVars => ProjectionTypeOK'
  <2> DEFINE Written(d) ==
               RuleChoices \cup {DemoRule(o, p) : o \in d, p \in 1 .. MaxContractRules}
  <2> SUFFICES ASSUME ContractInv, ProjectionTypeOK, [ProjectionNext]_projectionVars
               PROVE  ProjectionTypeOK'
    OBVIOUS
  <2> HIDE DEF Written
  <2>1. /\ contract \in Seq(KnownRules) /\ declared \in AcceptedSets
        /\ DOMAIN contract = 1 .. Len(contract) /\ Len(contract) \in Nat
        /\ Len(contract) <= MaxContractRules /\ MaxContractRules \in Nat
        /\ \A i \in DOMAIN contract : contract[i] \in Written(declared)
    BY DEF ContractInv, ProjectionTypeOK, ProjectionAssumption, Written
  <2>2. ASSUME NEW rule \in RuleChoices, AddRule(rule) PROVE ProjectionTypeOK'
    <3>1. /\ contract' = Append(contract, rule) /\ declared' = declared
          /\ Len(contract) < MaxContractRules
      BY <2>2 DEF AddRule
    <3>2. /\ Len(contract') = Len(contract) + 1
          /\ DOMAIN contract' = 1 .. Len(contract) + 1
          /\ \A i \in 1 .. Len(contract) : contract'[i] = contract[i]
          /\ contract'[Len(contract) + 1] = rule
      BY <2>1, <3>1
    <3>3. \A i \in DOMAIN contract' : contract'[i] \in Written(declared')
      BY <2>1, <2>2, <3>1, <3>2 DEF Written
    <3> QED
      BY <2>1, <3>1, <3>2, <3>3 DEF ProjectionTypeOK, Written
  <2>3. CASE StartFromDemo
    <3>1. /\ IsFiniteSet(declared) /\ declared # {} /\ contract' = DemoContract(declared)
          /\ declared' = declared /\ Cardinality(declared) <= MaxContractRules
      BY <2>1, <2>3 DEF StartFromDemo, ProjectionAssumption
    <3> DEFINE n == Len(SetToSeq(declared))
    <3>2. /\ SetToSeq(declared) \in Seq(declared) /\ n \in Nat /\ n = Cardinality(declared)
          /\ DOMAIN SetToSeq(declared) = 1 .. n
      BY <3>1, OutcomesInOrder
    <3> HIDE DEF n
    <3>3. DOMAIN contract' = 1 .. n
      BY <3>1, <3>2 DEF DemoContract
    <3>4. contract' \in Seq(KnownRules)
      <4>1. DemoContract(declared) \in Seq({DemoRule(o, p) : o \in declared, p \in Nat})
        BY <3>1, DemoContractIs
      <4>2. {DemoRule(o, p) : o \in declared, p \in Nat} \subseteq KnownRules
        BY <2>1 DEF KnownRules
      <4> QED
        BY <3>1, <4>1, <4>2
    <3>5. Len(contract') = n
      BY <3>2, <3>3, <3>4
    <3>6. \A i \in DOMAIN contract' : \E o \in declared : contract'[i] = DemoRule(o, i)
      <4>1. \A i \in DOMAIN DemoContract(declared) :
              i \in Nat /\ \E o \in declared : DemoContract(declared)[i] = DemoRule(o, i)
        <5>1. IsFiniteSet(declared) /\ declared # {}
          BY <3>1
        <5>2. DemoContract(declared) \in Seq({DemoRule(o, p) : o \in declared, p \in Nat})
          BY <5>1, DemoContractIs
        <5> QED
          BY <5>1, <5>2, DemoContractIs
      <4> QED
        BY <3>1, <4>1
    <3>7. \A i \in DOMAIN contract' : i \in 1 .. MaxContractRules
      BY <2>1, <3>1, <3>2, <3>3
    <3>8. \A i \in DOMAIN contract' : contract'[i] \in Written(declared')
      BY <3>1, <3>6, <3>7 DEF Written
    <3> QED
      BY <2>1, <3>1, <3>2, <3>5, <3>8 DEF ProjectionTypeOK, Written
  <2>4. CASE UNCHANGED projectionVars
    BY <2>4 DEF projectionVars, ProjectionTypeOK
  <2> QED
    BY <2>2, <2>3, <2>4 DEF ProjectionNext
<1> QED
  BY <1>1, <1>2, ContractsAreKnown, PTL DEF ProjectionSpec

LEMMA InvocationsAreTyped ==
  ASSUME DispatchAssumption PROVE DispatchSpec => []DispatchTypeOK
<1> DEFINE Rest ==
      /\ \A d \in Dispatches : handler[d].action \in referenced \cup {"no action"}
      /\ violation \in {"none", "unclassified", "level exceeded"}
      /\ reply.kind \in {"none", "threw", "result"}
<1>1. DispatchInit => Rest
  <2>1. Unused.action = "no action" /\ NoReply.kind = "none"
    BY DEF Unused, NoReply
  <2>2. DispatchInit => /\ \A d \in Dispatches : handler[d] = Unused
                        /\ violation = "none" /\ reply = NoReply
    BY DEF DispatchInit
  <2> QED
    BY <2>1, <2>2
<1>2. DispatchInv /\ Rest /\ [DispatchNext]_dispatchVars => Rest'
  <2> SUFFICES ASSUME DispatchInv, Rest, [DispatchNext]_dispatchVars PROVE Rest'
    OBVIOUS
  <2>0. handler \in [Dispatches -> HandlerRecord]
    BY DEF DispatchInv
  <2>1. CASE Preflight
    BY <2>1 DEF Preflight, NoReply
  <2>2. ASSUME NEW d \in Dispatches, NEW a \in UNION Referenced, Dispatch(d, a) PROVE Rest'
    <3>1. /\ a \in referenced /\ UNCHANGED <<referenced, reply>>
          /\ violation' \in {violation, "unclassified", "level exceeded"}
      BY <2>2 DEF Dispatch, Refuse
    <3>2. \E p : handler' = [handler EXCEPT ![d] = [handler[d] EXCEPT !.action = a, !.phase = p]]
      BY <2>2 DEF Dispatch, Refuse, Begin
    <3>3. handler'[d].action = a /\ \A x \in Dispatches \ {d} : handler'[x] = handler[x]
      BY <2>0, <3>2 DEF HandlerRecord
    <3> QED
      BY <3>1, <3>3
  <2>3. ASSUME NEW d \in Dispatches, TakeEffect(d) \/ Return(d) \/ Throw(d) PROVE Rest'
    <3>1. /\ UNCHANGED <<referenced, violation, reply>>
          /\ \A x \in Dispatches : handler'[x].action = handler[x].action
      <4>1. CASE TakeEffect(d)
        BY <2>0, <4>1 DEF TakeEffect, HandlerRecord
      <4>2. CASE Return(d) \/ Throw(d)
        <5>1. PICK p : handler' = [handler EXCEPT ![d] = [handler[d] EXCEPT !.phase = p]]
          BY <4>2 DEF Return, Throw
        <5>2. UNCHANGED <<referenced, violation, reply>>
          BY <4>2 DEF Return, Throw
        <5> QED
          BY <2>0, <5>1, <5>2 DEF HandlerRecord
      <4> QED
        BY <2>3, <4>1, <4>2
    <3> QED
      BY <3>1
  <2>4. ASSUME NEW s, NEW f, NEW t, EndRun(s, f, t) PROVE Rest'
    BY <2>4 DEF EndRun, Delivered, NoReply
  <2>5. CASE UNCHANGED dispatchVars
    BY <2>5 DEF dispatchVars
  <2> QED
    BY <2>1, <2>2, <2>3, <2>4, <2>5 DEF DispatchNext
<1>3. DispatchInv /\ Rest => DispatchTypeOK
  BY DEF DispatchInv, StageInv, HandlerRecord, DispatchTypeOK
<1> HIDE DEF Rest
<1> QED
  BY <1>1, <1>2, <1>3, InvocationKeepsInv, PTL DEF DispatchSpec

LEMMA OverlaysAreTyped ==
  ASSUME OverlayAssumption PROVE OverlaySpec => []OverlayTypeOK
<1>1. OverlayInit => OverlayTypeOK
  BY OverlayAssumption DEF OverlayInit, OverlayTypeOK, OverlayAssumption
<1>2. OverlayTypeOK /\ [OverlayNext]_overlayVars => OverlayTypeOK'
  <2> SUFFICES ASSUME OverlayTypeOK, [OverlayNext]_overlayVars PROVE OverlayTypeOK'
    OBVIOUS
  <2>1. overlays \in Seq(OverlayChoices) /\ MaxOverlays \in Nat
    BY DEF OverlayTypeOK, OverlayAssumption
  <2>2. ASSUME NEW o \in OverlayChoices, ListOverlay(o)
        PROVE  /\ overlays' \in Seq(OverlayChoices) /\ Len(overlays') <= MaxOverlays
               /\ adapterMode' = adapterMode
    <3>1. overlays' = Append(overlays, o) /\ Len(overlays) < MaxOverlays
      BY <2>2 DEF ListOverlay
    <3> QED
      BY <2>1, <2>2, <3>1 DEF ListOverlay
  <2>3. /\ overlays' \in Seq(OverlayChoices) /\ Len(overlays') <= MaxOverlays
        /\ adapterMode' = adapterMode
    BY <2>2 DEF OverlayNext, OverlayTypeOK, overlayVars
  <2>4. \A i \in DOMAIN overlays' : overlays'[i] \in OverlayChoices
    BY <2>3
  <2> QED
    BY <2>3, <2>4 DEF OverlayTypeOK, OverlayAssumption
<1> QED
  BY <1>1, <1>2, PTL DEF OverlaySpec

LEMMA ArtifactsAreTyped ==
  ASSUME ArtifactsAssumption PROVE ArtifactsSpec => []ArtifactsTypeOK
<1>1. ArtifactsInit => ArtifactsTypeOK
  <2>1. MaxChanges \in Nat
    BY DEF ArtifactsAssumption
  <2>2. 0 \in 0 .. MaxChanges
    BY <2>1
  <2> QED
    BY <2>2 DEF ArtifactsInit, ArtifactsTypeOK
<1>2. ArtifactsTypeOK /\ [ArtifactsNext]_artifactVars => ArtifactsTypeOK'
  <2> SUFFICES ASSUME ArtifactsTypeOK, [ArtifactsNext]_artifactVars PROVE ArtifactsTypeOK'
    OBVIOUS
  <2>0. MaxChanges \in Nat
    BY DEF ArtifactsAssumption
  <2>c. ASSUME Changed PROVE changes' \in 0 .. MaxChanges
    <3>1. changes \in 0 .. MaxChanges
      BY DEF ArtifactsTypeOK
    <3>2. changes < MaxChanges /\ changes' = changes + 1
      BY <2>c DEF Changed
    <3> QED
      BY <2>0, <3>1, <3>2
  <2>1. ASSUME NEW p \in SlotPaths, NEW r \in Records, Register(p, r) PROVE ArtifactsTypeOK'
    <3>1. relabelled' \in BOOLEAN
      BY <2>1 DEF Register
    <3> QED
      BY <2>1, <2>c, <3>1 DEF Register, ArtifactsTypeOK
  <2>2. CASE Clear
    BY <2>2, <2>c DEF Clear, ArtifactsTypeOK
  <2>3. ASSUME NEW a \in ActionIds, EditRegistry(a) PROVE ArtifactsTypeOK'
    <3>1. registry' \subseteq ActionIds
      BY <2>3 DEF EditRegistry, ArtifactsTypeOK
    <3>2. shrunk' \in BOOLEAN
      BY <2>3 DEF EditRegistry
    <3> QED
      BY <2>3, <2>c, <3>1, <3>2 DEF EditRegistry, ArtifactsTypeOK
  <2>4. ASSUME NEW p \in SlotPaths, NEW g \in Agents, InspectClosure(p, g)
        PROVE  ArtifactsTypeOK'
    <3>1. [agent |-> g, complete |-> Complete(g)] \in [agent : Agents, complete : BOOLEAN]
      BY DEF Complete
    <3> QED
      BY <2>4, <3>1 DEF InspectClosure, ArtifactsTypeOK
  <2>5. CASE CreateEngine
    BY <2>5 DEF CreateEngine, ArtifactsTypeOK
  <2>6. ASSUME NEW p \in SlotPaths, InvokeAgent(p) PROVE ArtifactsTypeOK'
    BY <2>6 DEF InvokeAgent, ArtifactsTypeOK, Rejections
  <2>7. CASE UNCHANGED artifactVars
    BY <2>7 DEF artifactVars, ArtifactsTypeOK
  <2> QED
    BY <2>1, <2>2, <2>3, <2>4, <2>5, <2>6, <2>7 DEF ArtifactsNext
<1> QED
  BY <1>1, <1>2, PTL DEF ArtifactsSpec

LEMMA DataIsTyped ==
  ASSUME BindingsAssumption PROVE BindingsSpec => []BindingsTypeOK
<1>1. BindingsInv => BindingsTypeOK
  BY DEF BindingsInv, BindingsTypeOK, IsDocument, Endings
<1>2. BindingsSpec => []BindingsInv
  BY BindingsAlwaysInv
<1> QED
  BY <1>1, <1>2, PTL

(* The part that moves takes a step of its own, the others take none.        *)
LEMMA PartsBehave ==
  PartsSpec =>
    /\ Spec /\ ProjectionSpec /\ DispatchSpec /\ OverlaySpec
    /\ BindingsSpec /\ ArtifactsSpec /\ PacksSpec
<1>1. PartsInit => /\ Init /\ ProjectionInit /\ DispatchInit /\ OverlayInit
                   /\ BindingsInit /\ ArtifactsInit /\ PacksInit
  BY DEF PartsInit
<1>2. [PartsNext]_partsVars =>
        /\ [Next]_vars /\ [ProjectionNext]_projectionVars /\ [DispatchNext]_dispatchVars
        /\ [OverlayNext]_overlayVars /\ [BindingsNext]_bindingVars
        /\ [ArtifactsNext]_artifactVars /\ [PacksNext]_pack
  <2> SUFFICES ASSUME [PartsNext]_partsVars
               PROVE  /\ Next \/ UNCHANGED vars
                      /\ ProjectionNext \/ UNCHANGED projectionVars
                      /\ DispatchNext \/ UNCHANGED dispatchVars
                      /\ OverlayNext \/ UNCHANGED overlayVars
                      /\ BindingsNext \/ UNCHANGED bindingVars
                      /\ ArtifactsNext \/ UNCHANGED artifactVars
                      /\ PacksNext \/ UNCHANGED pack
    OBVIOUS
  <2> QED
    BY DEF PartsNext, partsVars
<1> QED
  BY <1>1, <1>2, PTL
     DEF PartsSpec, Spec, ProjectionSpec, DispatchSpec, OverlaySpec, BindingsSpec,
         ArtifactsSpec, PacksSpec

(* For any values of the constants: the ledger and the calls of the adapter, *)
(* the records of an invocation, contracts, overlays, documents and          *)
(* artifacts stay what the code takes them for.                              *)
THEOREM PartsKeepTheirTypes ==
  ASSUME ProjectionAssumption, DispatchAssumption, OverlayAssumption,
         BindingsAssumption, ArtifactsAssumption
  PROVE  PartsSpec => []PartsTypeOK
<1>1. /\ Spec => []TypeOK
      /\ ProjectionSpec => []ProjectionTypeOK
      /\ DispatchSpec => []DispatchTypeOK
      /\ OverlaySpec => []OverlayTypeOK
      /\ BindingsSpec => []BindingsTypeOK
      /\ ArtifactsSpec => []ArtifactsTypeOK
  BY AdapterTypeCorrect, ContractsAreTyped, InvocationsAreTyped, OverlaysAreTyped,
     DataIsTyped, ArtifactsAreTyped
<1> QED
  BY <1>1, PartsBehave, PTL DEF PartsTypeOK

(* What is proved of each part holds of the parts together.                  *)
THEOREM PartsKeepTheirPromises ==
  ASSUME ProjectionAssumption, DispatchAssumption, BindingsAssumption,
         ArtifactsAssumption, PackAssumption
  PROVE  PartsSpec =>
           /\ []FlagMeansRunning /\ []DispatchIsToldOf /\ []LostOnlyByOverlap
           /\ []CreatedEnginesInvoke /\ OneResultPerKey /\ RulesDecideTheirOwn
           /\ OverlaysKeepTheirPlace /\ PackSpeaksClearly
BY PartsBehave, FlagAlwaysMeansRunning, DispatchIsAlwaysToldOf, AlwaysLostOnlyByOverlap,
   CreatedEnginesAlwaysInvoke, AdapterKeepsPromise, RulesAlwaysDecideTheirOwn,
   OverlaysAlwaysKeepTheirPlace, PackAlwaysSpeaksClearly

=============================================================================
