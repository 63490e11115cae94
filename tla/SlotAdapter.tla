----------------------------- MODULE SlotAdapter -----------------------------
(***************************************************************************)
(* The in-memory runtime adapter for slots:                                *)
(* packages/scenario-orchestrator-runtime-demo (invokeSlot and             *)
(* invokeCanonical of in-memory-demo-runtime-adapter.ts, and the           *)
(* invocation ledger of in-memory-idempotency-ledger.ts).                  *)
(*                                                                         *)
(* Several callers invoke slots on one adapter. A request names its        *)
(* idempotency key; the ledger keeps the promise of the one execution      *)
(* behind a key, and the adapter runs one Runtime at a time. A step is     *)
(* what happens between two awaits.                                        *)
(***************************************************************************)
EXTENDS Naturals

CONSTANTS
  Callers,
  Keys,             \* idempotency keys (hash of run, index, slot, input)
  Requests,         \* requests; two of them may carry the same key
  KeyOf,            \* [Requests -> Keys]
  Malformed,        \* requests the contract or validateIdempotencyKey rejects
  Unready,          \* requests whose artifact, closure or coverage preflight
                    \*   fails before the Runtime is called
  RuntimeOutcomes,  \* [Requests -> what the Runtime may come to]
  Nobody, Unset

(* "thrown": a dispatch violation, an invalid result, or a Runtime that     *)
(* throws. The others are results, whatever status they carry.             *)
OutcomeKinds == {"completed", "handoff_required", "timed_out", "failed", "thrown"}

(* What a promise of the ledger may come to, and what a caller may be told  *)
(* without one.                                                             *)
Answers  == OutcomeKinds \cup {"busy", "preflight"}
Refusals == {"conflict", "invalid"}

ASSUME AdapterAssumption ==
  /\ KeyOf \in [Requests -> Keys]
  /\ Malformed \subseteq Requests /\ Unready \subseteq Requests
  /\ RuntimeOutcomes \in [Requests -> SUBSET OutcomeKinds]
  /\ Nobody \notin Keys /\ Unset \notin Requests \cup Answers \cup Refusals

VARIABLES
  active,   \* key whose invocation holds activeInvocation, or Nobody
  ledger,   \* [Keys -> record of the InMemoryInvocationLedger]
  caller    \* [Callers -> what the caller asked and what it was given]

vars == <<active, ledger, caller>>

Statuses == {"absent", "running", "completed", "failed"}

(* request: whose fingerprint the key is bound to. settled: what the        *)
(* promise came to; status and result follow in its then and catch.        *)
LedgerRecord ==
  [request : Requests \cup {Unset}, status : Statuses, runs : Nat,
   settled : Answers \cup {Unset}]

CallerState ==
  [request : Requests \cup {Unset}, answer : Answers \cup Refusals \cup {Unset}]

Init ==
  /\ active = Nobody
  /\ ledger = [k \in Keys |-> [request |-> Unset, status |-> "absent", runs |-> 0,
                               settled |-> Unset]]
  /\ caller = [c \in Callers |-> [request |-> Unset, answer |-> Unset]]

-----------------------------------------------------------------------------
MayInvoke(c) == caller[c].request = Unset

Asked(c, q, answer) == caller' = [caller EXCEPT ![c] = [request |-> q, answer |-> answer]]

(* The contract check, or the key does not belong to the request.           *)
RejectInvocation(c, q) ==
  /\ MayInvoke(c) /\ q \in Malformed
  /\ Asked(c, q, "invalid")
  /\ UNCHANGED <<active, ledger>>

BoundToAny(q) == ledger[KeyOf[q]].request # Unset

(* existing.requestFingerprint === requestFingerprint                       *)
BoundTo(q) == ledger[KeyOf[q]].request = q

(* The key is bound to a request with another fingerprint.                  *)
ConflictInvocation(c, q) ==
  /\ MayInvoke(c) /\ q \notin Malformed
  /\ ledger[KeyOf[q]].request # Unset /\ ~ BoundTo(q)
  /\ Asked(c, q, "conflict")
  /\ UNCHANGED <<active, ledger>>

(* The same request again, running or settled: its promise is shared.       *)
JoinInvocation(c, q) ==
  /\ MayInvoke(c) /\ q \notin Malformed
  /\ BoundTo(q)
  /\ Asked(c, q, Unset)
  /\ UNCHANGED <<active, ledger>>

Recorded(q, runs, settled) ==
  ledger' = [ledger EXCEPT ![KeyOf[q]] =
    [request |-> q, status |-> "running", runs |-> runs, settled |-> settled]]

(* Nothing else is being invoked.                                           *)
Free == active = Nobody

(* BUSY: the promise is rejected before it is recorded, and the rejection   *)
(* is what the key stands for from now on.                                  *)
RefuseBusy(c, q) ==
  /\ MayInvoke(c) /\ q \notin Malformed
  /\ ledger[KeyOf[q]].request = Unset
  /\ ~ Free
  /\ Recorded(q, 0, "busy")
  /\ Asked(c, q, Unset)
  /\ UNCHANGED active

(* A preflight throws; the flag is set and cleared within the step.         *)
FailPreflight(c, q) ==
  /\ MayInvoke(c) /\ q \notin Malformed
  /\ ledger[KeyOf[q]].request = Unset
  /\ Free /\ q \in Unready
  /\ Recorded(q, 0, "preflight")
  /\ Asked(c, q, Unset)
  /\ UNCHANGED active

StartInvocation(c, q) ==
  /\ MayInvoke(c) /\ q \notin Malformed
  /\ ledger[KeyOf[q]].request = Unset
  /\ Free /\ q \notin Unready
  /\ Recorded(q, 1, Unset)
  /\ Asked(c, q, Unset)
  /\ active' = KeyOf[q]

ReleasedOnResult(x) == IF x = "thrown" THEN active ELSE Nobody

ReleasedTo(x) == x

(* finally { activeInvocation = false }                                     *)
Released(x) == Nobody

(* The Runtime returns or throws; the finally block clears the flag.        *)
FinishInvocation(k) ==
  /\ active = k /\ k # Nobody /\ ledger[k].settled = Unset
  /\ \E x \in RuntimeOutcomes[ledger[k].request] :
       /\ ledger' = [ledger EXCEPT ![k].settled = x]
       /\ active' = Released(x)
  /\ UNCHANGED caller

HandledThen(x) == x \notin {Unset, "thrown", "busy", "preflight"}

(* Both what is resolved and what is rejected has a handler.                *)
Handled(x) == x # Unset

(* The then and catch handlers of the ledger write the record's status.     *)
RecordOutcome(k) ==
  /\ ledger[k].status = "running" /\ Handled(ledger[k].settled)
  /\ ledger' = [ledger EXCEPT ![k].status =
                  IF ledger[k].settled = "completed" THEN "completed" ELSE "failed"]
  /\ UNCHANGED <<active, caller>>

(* Those who wait for the promise are answered after its handlers ran.      *)
AnswerCaller(c) ==
  /\ caller[c].request # Unset /\ caller[c].answer = Unset
  /\ LET k == KeyOf[caller[c].request]
     IN  /\ ledger[k].status \in {"completed", "failed"}
         /\ caller' = [caller EXCEPT ![c].answer = ledger[k].settled]
  /\ UNCHANGED <<active, ledger>>

-----------------------------------------------------------------------------
Invoke(c, q) ==
  \/ RejectInvocation(c, q) \/ ConflictInvocation(c, q) \/ JoinInvocation(c, q)
  \/ RefuseBusy(c, q) \/ FailPreflight(c, q) \/ StartInvocation(c, q)

Settle(k) == FinishInvocation(k) \/ RecordOutcome(k)

Next ==
  \/ \E c \in Callers, q \in Requests : Invoke(c, q)
  \/ \E k \in Keys : Settle(k)
  \/ \E c \in Callers : AnswerCaller(c)

Spec == Init /\ [][Next]_vars

(* The Runtime is bounded by its duration and its action timeouts, and      *)
(* promise handlers always run.                                             *)
FairSpec ==
  /\ Spec
  /\ \A k \in Keys : WF_vars(Settle(k))
  /\ \A c \in Callers : WF_vars(AnswerCaller(c))

-----------------------------------------------------------------------------
TypeOK ==
  /\ active \in Keys \cup {Nobody}
  /\ ledger \in [Keys -> LedgerRecord]
  /\ caller \in [Callers -> CallerState]

(* activeInvocation is held exactly while one Runtime is running: it is     *)
(* neither left behind by an invocation that threw, nor cleared or taken    *)
(* over while the Runtime of another invocation is still at work.           *)
FlagMeansRunning ==
  \A k \in Keys : active = k <=> ledger[k].runs = 1 /\ ledger[k].settled = Unset

(* The ledger keeps its promise: one execution per key, for the first       *)
(* request, and its result for all who repeat that request, before or after *)
(* it settled, failures and refusals included.                              *)
Memo == INSTANCE MemoizedCalls WITH
  Results <- Answers,
  bound   <- [k \in Keys |-> ledger[k].request],
  outcome <- [k \in Keys |-> ledger[k].settled],
  given   <- [c \in Callers |->
                IF caller[c].answer \in Answers
                THEN <<caller[c].request, caller[c].answer>> ELSE Unset]
OneResultPerKey == Memo!MemoSpec

(* Whoever invokes a slot is answered, whatever the others do.              *)
CallersAnswered ==
  \A c \in Callers : caller[c].request # Unset ~> caller[c].answer # Unset

=============================================================================
