------------------------------- MODULE Runtime -------------------------------
(***************************************************************************)
(* The reference runtime: executeRun and resumeRun of packages/runtime     *)
(* (execute-run.ts, action-executor.ts, idempotency.ts, snapshot.ts).      *)
(*                                                                         *)
(* A run walks the states of an agent. In every state it executes the      *)
(* on_enter actions and the state's actions, resolves a transition,        *)
(* executes the on_exit actions and moves on. Actions are retried, and     *)
(* actions that write or call out are looked up in an idempotency store    *)
(* first. A run checkpoints itself into a snapshot store; any snapshot can *)
(* be resumed by a later run, which inherits its counters, its context and *)
(* its idempotency records. Several runs may be active in the process, and *)
(* the process may die between any two steps of a run.                     *)
(*                                                                         *)
(* One step of a run is the code between two awaits at which something     *)
(* durable or shared (idempotency store, snapshot store, handler) changes. *)
(* The context is abstracted to the set of actions whose patch it holds;   *)
(* guards and `when' expressions to the set of transitions they may choose.*)
(***************************************************************************)
EXTENDS PolicyEvaluator, FiniteSets

CONSTANTS
  Runs,               \* run identifiers (randomUUID)
  States, Actions,    \* names in the agent specification
  Inputs,             \* fingerprints of RuntimeInput (text, intent, context)
  ExplicitKeys,       \* idempotency keys given by policies or by handlers
  NoKey, NoRecord,    \* absent values
  NoMatch, Missing    \* no transition matched; a name with no state behind it

(* The agent specification and the options of its runs.                    *)
CONSTANTS
  InitialState,       \* spec.initial_state
  EntryStates,        \* what the intent resolver may answer
  Lists,              \* [list name -> [States -> Seq(Actions)]]
  Targets,            \* [States -> what resolving a transition may answer]
  Guarded,            \* states with a guard that may fail
  FinalStates, HandoffStates,
  SideEffect,         \* [Actions -> SideEffects]
  ExplicitKey,        \* [Actions -> ExplicitKeys or NoKey], actionPolicies
  SuppliedKey,        \* [Actions -> ExplicitKeys or NoKey], handler results
  Registered,         \* actions with a handler
  Outcomes,           \* [Actions -> what one attempt may come to]
  HandlerCodes,       \* error codes the handlers and skills may answer
  Pack, Environment,  \* policy pack and environment profile
  MaxSteps, MaxAttempts, MaxExternalCalls,
  DurationBudget,     \* TRUE: maxDurationMs is set
  CheckpointOnEnter, CheckpointOnSuccess,
  SharedStore,        \* TRUE: one idempotency store outlives the runs;
                      \* FALSE: every run has an InMemoryIdempotencyStore
  Serial              \* TRUE: a run starts only when no other is active

ListNames == {"on_enter", "actions", "on_exit"}
OutcomeKinds == {"ok", "conflict", "rejected", "thrown", "retryable", "timeout"}

(* The error codes the action loops branch on: POLICY_HANDOFF_REQUIRED and  *)
(* MAX_EXTERNAL_CALLS_EXCEEDED. Every other code is "failed".               *)
BranchedCodes == {"handoff", "budget"}

ASSUME AgentAssumption ==
  /\ InitialState \in States
  /\ EntryStates \subseteq States \cup {Missing}
  /\ Lists \in [ListNames -> [States -> Seq(Actions)]]
  /\ Targets \in [States -> SUBSET (States \cup {NoMatch, Missing})]
  /\ Guarded \subseteq States /\ FinalStates \subseteq States
  /\ HandoffStates \subseteq States
  /\ SideEffect \in [Actions -> SideEffects]
  /\ ExplicitKey \in [Actions -> ExplicitKeys \cup {NoKey}]
  /\ SuppliedKey \in [Actions -> ExplicitKeys \cup {NoKey}]
  /\ Registered \subseteq Actions
  /\ Outcomes \in [Actions -> SUBSET OutcomeKinds]
  /\ HandlerCodes \subseteq {"failed"} \cup BranchedCodes

ASSUME OptionAssumption ==
  /\ MaxSteps \in Nat /\ MaxExternalCalls \in Nat
  /\ MaxAttempts \in Nat \ {0}
  /\ DurationBudget \in BOOLEAN /\ SharedStore \in BOOLEAN
  /\ CheckpointOnEnter \in BOOLEAN /\ CheckpointOnSuccess \in BOOLEAN
  /\ Serial \in BOOLEAN

ASSUME NullAssumption ==
  /\ NoMatch \notin States /\ Missing \notin States /\ NoMatch # Missing
  /\ NoRecord \notin Actions
  /\ NoKey \notin ExplicitKeys \cup (Runs \X States \X Actions \X Inputs)

VARIABLES
  phase,        \* where each run is in executeRun
  ctx,          \* RuntimeRunContext of each run
  job,          \* the locals of the state iteration and of executeAction
  status,       \* status of the RuntimeResult, "running" before there is one
  trace,        \* what the run's trace says
  stores,       \* contents of the idempotency stores
  snapshots,    \* contents of the snapshot store
  invoked,      \* handler invocations by run and key       (observer)
  completions   \* recorded completions by key              (observer)

vars == <<phase, ctx, job, status, trace, stores, snapshots, invoked, completions>>

-----------------------------------------------------------------------------
(* Idempotency keys, records and stores.                                   *)

Keys == ExplicitKeys \cup (Runs \X States \X Actions \X Inputs)

(* buildIdempotencyKey: an explicit key is used as it is, in every run; a  *)
(* computed one is bound to the lineage, the state and the input.          *)
KeyFor(c, a) ==
  IF ExplicitKey[a] # NoKey THEN ExplicitKey[a]
                            ELSE <<c.scope, c.state, a, c.input>>

UsesIdempotency(a) == SideEffect[a] \in {"write", "external"}

EffectiveKey(c, a) ==
  IF SuppliedKey[a] # NoKey THEN SuppliedKey[a] ELSE KeyFor(c, a)

(* A store maps a key to the action that completed under it.               *)
Store    == [Keys -> Actions \cup {NoRecord}]
EmptyStore == [k \in Keys |-> NoRecord]
StoreIds == IF SharedStore THEN {"shared"} ELSE Runs
StoreOf(r) == IF SharedStore THEN "shared" ELSE r
RecordsOf(r) == stores[StoreOf(r)]

-----------------------------------------------------------------------------
(* Run contexts, snapshots, traces.                                        *)

Context == [scope : Runs, input : Inputs, resumed : BOOLEAN, state : States,
            step : Nat, calls : Nat, keys : SUBSET Keys,
            context : SUBSET Actions]

Codes == {"none", "ok", "failed", "handoff", "budget"}

Job == [list : ListNames, idx : Nat \ {0}, attempt : Nat, made : Nat,
        key : Keys \cup {NoKey}, code : Codes,
        next : States \cup {NoMatch}]

RuntimeStatus == {"completed", "handoff", "failed", "stuck"}

Snapshot == [run : Runs, scope : Runs, status : RuntimeStatus \cup {"running"},
             state : States, step : Nat, calls : Nat, keys : SUBSET Keys,
             context : SUBSET Actions, records : Store]

(* createRuntimeSnapshot with the records collectIdempotencyRecords finds. *)
SnapshotOf(r, c, st) ==
  [run |-> r, scope |-> c.scope, status |-> st, state |-> c.state,
   step |-> c.step, calls |-> c.calls, keys |-> c.keys, context |-> c.context,
   records |-> [k \in Keys |-> IF k \in c.keys THEN RecordsOf(r)[k] ELSE NoRecord]]

Checkpoint(r, c, enabled) ==
  snapshots' = IF enabled THEN snapshots \cup {SnapshotOf(r, c, "running")}
                          ELSE snapshots

EventTypes == {"none", "intent.resolved", "state.entered", "guard.evaluated",
               "action.started", "action.succeeded", "action.failed",
               "transition.resolved", "state.exited",
               "run.completed", "run.failed", "handoff.requested"}
TerminalEvents == {"run.completed", "run.failed", "handoff.requested"}

Trace == [last : EventTypes, terminals : Nat, delta : SUBSET Actions]

(* The trace after an event: its last event, how many terminal events it   *)
(* holds, and the patches its contextDelta payloads report as merged.      *)
EventAdded(t, type) ==
  [t EXCEPT !.last = type,
            !.terminals = IF type \in TerminalEvents THEN @ + 1 ELSE @]

Emit(r, type) == trace' = [trace EXCEPT ![r] = EventAdded(@, type)]

DeltaAdded(t, a) == [EventAdded(t, "action.succeeded") EXCEPT !.delta = @ \cup {a}]

EmitDelta(r, a) == trace' = [trace EXCEPT ![r] = DeltaAdded(@, a)]

Live == {"loop", "guards", "action", "attempt", "running", "account",
         "failing", "resolve", "leave", "ending"}
Phases == Live \cup {"unborn", "done", "crashed"}

MayStart == Serial => \A r \in Runs : phase[r] \notin Live

Goto(r, p) == phase' = [phase EXCEPT ![r] = p]

(* The run is over: a RuntimeResult is being built.                        *)
Conclude(r, st) == Goto(r, "ending") /\ status' = [status EXCEPT ![r] = st]

FreshJob == [list |-> "on_enter", idx |-> 1, attempt |-> 0, made |-> 0,
             key |-> NoKey, code |-> "none", next |-> NoMatch]

CurrentList(r) == Lists[job[r].list][ctx[r].state]
CurrentAction(r) == CurrentList(r)[job[r].idx]
AtAction(r) == phase[r] = "action" /\ job[r].idx <= Len(CurrentList(r))

-----------------------------------------------------------------------------
Init ==
  /\ phase  = [r \in Runs |-> "unborn"]
  /\ ctx \in { [r \in Runs |-> [scope |-> r, input |-> i, resumed |-> FALSE,
                                state |-> InitialState, step |-> 0, calls |-> 0,
                                keys |-> {}, context |-> {}]] : i \in Inputs }
  /\ job    = [r \in Runs |-> FreshJob]
  /\ status = [r \in Runs |-> "running"]
  /\ trace  = [r \in Runs |-> [last |-> "none", terminals |-> 0, delta |-> {}]]
  /\ stores = [id \in StoreIds |-> EmptyStore]
  /\ snapshots = {}
  /\ invoked = [r \in Runs |-> [k \in Keys |-> 0]]
  /\ completions = [k \in Keys |-> 0]

(* executeRun without a snapshot: a fresh scope and counters, then the     *)
(* intent resolver names an entry state.                                   *)
StartRun(r, input, entry) ==
  /\ phase[r] = "unborn" /\ MayStart
  /\ entry \in EntryStates \ {Missing}
  /\ ctx' = [ctx EXCEPT ![r] = [@ EXCEPT !.input = input, !.state = entry]]
  /\ Emit(r, "intent.resolved")
  /\ Goto(r, "loop")
  /\ UNCHANGED <<job, status, stores, snapshots, invoked, completions>>

(* INVALID_INITIAL_STATE: the result is built from the seed context.       *)
StartInvalid(r, input) ==
  /\ phase[r] = "unborn" /\ MayStart
  /\ Missing \in EntryStates
  /\ ctx' = [ctx EXCEPT ![r].input = input]
  /\ Emit(r, "run.failed")
  /\ Conclude(r, "failed")
  /\ UNCHANGED <<job, stores, snapshots, invoked, completions>>

(* The run context a snapshot gives to the run that resumes it.            *)
RestoredForgetful(s, input) ==
  [scope |-> s.scope, input |-> input, resumed |-> TRUE, state |-> s.state,
   step |-> s.step, calls |-> s.calls, keys |-> s.keys, context |-> {}]

Restored(s, input) ==
  [scope |-> s.scope, input |-> input, resumed |-> TRUE, state |-> s.state,
   step |-> s.step, calls |-> s.calls, keys |-> s.keys, context |-> s.context]

(* executeRun with resumeFromSnapshot: the snapshot's records are put into *)
(* the run's store, its counters, keys, context and scope are taken over.  *)
(* The input is whatever the caller of resumeRun passes.                   *)
ResumeRun(r, s, input) ==
  /\ phase[r] = "unborn" /\ MayStart
  /\ s \in snapshots
  /\ stores' = [stores EXCEPT ![StoreOf(r)] =
        [k \in Keys |-> IF s.records[k] # NoRecord THEN s.records[k] ELSE @[k]]]
  /\ ctx' = [ctx EXCEPT ![r] = Restored(s, input)]
  /\ Emit(r, "intent.resolved")
  /\ Goto(r, "loop")
  /\ UNCHANGED <<job, status, snapshots, invoked, completions>>

-----------------------------------------------------------------------------
(* The loop over states.                                                   *)

(* maxDurationMs is looked at here and nowhere else; how much time has     *)
(* passed is arbitrary.                                                    *)
ExceedDuration(r) ==
  /\ phase[r] = "loop" /\ ctx[r].step < MaxSteps /\ DurationBudget
  /\ Emit(r, "run.failed")
  /\ Conclude(r, "failed")
  /\ UNCHANGED <<ctx, job, stores, snapshots, invoked, completions>>

ExhaustSteps(r) ==
  /\ phase[r] = "loop" /\ ctx[r].step >= MaxSteps
  /\ Emit(r, "run.failed")
  /\ Conclude(r, "failed")
  /\ UNCHANGED <<ctx, job, stores, snapshots, invoked, completions>>

SteppedNever(c) == c

Stepped(c) == [c EXCEPT !.step = @ + 1]

EnterState(r) ==
  /\ phase[r] = "loop" /\ ctx[r].step < MaxSteps
  /\ ctx' = [ctx EXCEPT ![r] = Stepped(@)]
  /\ Checkpoint(r, Stepped(ctx[r]), CheckpointOnEnter)
  /\ job' = [job EXCEPT ![r] = FreshJob]
  /\ Emit(r, "state.entered")
  /\ Goto(r, "guards")
  /\ UNCHANGED <<status, stores, invoked, completions>>

FailGuards(r) ==
  /\ phase[r] = "guards" /\ ctx[r].state \in Guarded
  /\ Emit(r, "run.failed")
  /\ Conclude(r, "failed")
  /\ UNCHANGED <<ctx, job, stores, snapshots, invoked, completions>>

PassGuards(r) ==
  /\ phase[r] = "guards"
  /\ IF ctx[r].state \in Guarded THEN Emit(r, "guard.evaluated")
                                 ELSE UNCHANGED trace
  /\ Goto(r, "action")
  /\ UNCHANGED <<ctx, job, status, stores, snapshots, invoked, completions>>

(* The current list is through: on_enter is followed by the actions, these *)
(* by the transition, on_exit by leaving the state.                        *)
FinishList(r) ==
  /\ phase[r] = "action" /\ job[r].idx > Len(CurrentList(r))
  /\ CASE job[r].list = "on_enter" ->
            /\ job' = [job EXCEPT ![r] = [@ EXCEPT !.list = "actions", !.idx = 1]]
            /\ UNCHANGED phase
       [] job[r].list = "actions" -> Goto(r, "resolve") /\ UNCHANGED job
       [] job[r].list = "on_exit" -> Goto(r, "leave") /\ UNCHANGED job
  /\ UNCHANGED <<ctx, status, trace, stores, snapshots, invoked, completions>>

ResolvableUnchecked(s) == Targets[s]

(* What a transition may resolve to without failing the run.               *)
Resolvable(s) == Targets[s] \ {Missing}

(* The target chosen is named before the on_exit actions run, which do not *)
(* take part in the choice.                                                *)
ResolveTransition(r) ==
  /\ phase[r] = "resolve"
  /\ \E t \in Resolvable(ctx[r].state) :
       /\ job' = [job EXCEPT ![r] =
                    [@ EXCEPT !.next = t, !.list = "on_exit", !.idx = 1]]
       /\ IF t = NoMatch THEN UNCHANGED trace ELSE Emit(r, "transition.resolved")
  /\ Goto(r, "action")
  /\ UNCHANGED <<ctx, status, stores, snapshots, invoked, completions>>

FailTransition(r) ==
  /\ phase[r] = "resolve" /\ Missing \in Targets[ctx[r].state]
  /\ Emit(r, "run.failed")
  /\ Conclude(r, "failed")
  /\ UNCHANGED <<ctx, job, stores, snapshots, invoked, completions>>

MoveOn(r) ==
  /\ phase[r] = "leave" /\ job[r].next # NoMatch
  /\ ctx' = [ctx EXCEPT ![r].state = job[r].next]
  /\ Emit(r, "state.exited")
  /\ Goto(r, "loop")
  /\ UNCHANGED <<job, status, stores, snapshots, invoked, completions>>

(* No transition matched: whether the state is final is asked first.       *)
Stop(r) ==
  /\ phase[r] = "leave" /\ job[r].next = NoMatch
  /\ LET s == ctx[r].state
     IN  \/ /\ s \in FinalStates
            /\ Emit(r, "run.completed") /\ Conclude(r, "completed")
         \/ /\ s \in HandoffStates \ FinalStates
            /\ Emit(r, "handoff.requested") /\ Conclude(r, "handoff")
         \/ /\ s \notin FinalStates \cup HandoffStates
            /\ Emit(r, "run.failed") /\ Conclude(r, "stuck")
  /\ UNCHANGED <<ctx, job, stores, snapshots, invoked, completions>>

(* buildResult: the snapshot of the ended run, and the result.             *)
EndRun(r) ==
  /\ phase[r] = "ending"
  /\ snapshots' = snapshots \cup {SnapshotOf(r, ctx[r], status[r])}
  /\ Goto(r, "done")
  /\ UNCHANGED <<ctx, job, status, trace, stores, invoked, completions>>

-----------------------------------------------------------------------------
(* runAction and executeAction.                                            *)

Decision(r, a) ==
  PolicyEffect(Pack, Environment, a, SideEffect[a], ctx[r].calls)

DenyAction(r) ==
  /\ AtAction(r) /\ Decision(r, CurrentAction(r)) = "deny"
  /\ job' = [job EXCEPT ![r].code = "failed"]
  /\ Emit(r, "action.failed")
  /\ Goto(r, "failing")
  /\ UNCHANGED <<ctx, status, stores, snapshots, invoked, completions>>

HandOffAction(r) ==
  /\ AtAction(r) /\ Decision(r, CurrentAction(r)) = "handoff"
  /\ job' = [job EXCEPT ![r].code = "handoff"]
  /\ Emit(r, "handoff.requested")
  /\ Goto(r, "failing")
  /\ UNCHANGED <<ctx, status, stores, snapshots, invoked, completions>>

(* executeAction returns this result: the run still has to account for it. *)
Return(r, code, key) ==
  /\ job' = [job EXCEPT ![r] = [@ EXCEPT !.code = code, !.key = key]]
  /\ Goto(r, "account")

ExistingExternalRecord(r, a) ==
  IF SideEffect[a] = "external" THEN RecordsOf(r)[KeyFor(ctx[r], a)] ELSE NoRecord

(* The record under the computed key, looked up for side effects only.     *)
ExistingRecord(r, a) ==
  IF UsesIdempotency(a) THEN RecordsOf(r)[KeyFor(ctx[r], a)] ELSE NoRecord

(* IDEMPOTENCY_CONFLICT: the key is bound to another action. The failed    *)
(* result carries the key; no event is emitted for the action.             *)
ConflictAction(r) ==
  /\ AtAction(r)
  /\ LET a == CurrentAction(r)
     IN  /\ Decision(r, a) = "allow"
         /\ ExistingRecord(r, a) \notin {NoRecord, a}
         /\ Return(r, "failed", KeyFor(ctx[r], a))
  /\ UNCHANGED <<ctx, status, trace, stores, snapshots, invoked, completions>>

(* The action has completed under this key: its output and its patch are   *)
(* reported again, the handler is not called, the patch is not merged.     *)
ReplayAction(r) ==
  /\ AtAction(r)
  /\ LET a == CurrentAction(r)
     IN  /\ Decision(r, a) = "allow"
         /\ ExistingRecord(r, a) = a
         /\ EmitDelta(r, a)
         /\ Return(r, "ok", KeyFor(ctx[r], a))
  /\ UNCHANGED <<ctx, status, stores, snapshots, invoked, completions>>

RejectUnregistered(r) ==
  /\ AtAction(r)
  /\ LET a == CurrentAction(r)
     IN  /\ Decision(r, a) = "allow"
         /\ ExistingRecord(r, a) = NoRecord
         /\ a \notin Registered
         /\ Emit(r, "action.failed")
         /\ Return(r, "failed", KeyFor(ctx[r], a))
  /\ UNCHANGED <<ctx, status, stores, snapshots, invoked, completions>>

BeginAttempts(r) ==
  /\ AtAction(r)
  /\ LET a == CurrentAction(r)
     IN  /\ Decision(r, a) = "allow"
         /\ ExistingRecord(r, a) = NoRecord
         /\ a \in Registered
  /\ job' = [job EXCEPT ![r] = [@ EXCEPT !.attempt = 1, !.made = 0]]
  /\ Goto(r, "attempt")
  /\ UNCHANGED <<ctx, status, trace, stores, snapshots, invoked, completions>>

(* One attempt: an external action is charged before the handler answers.  *)
StartAttempt(r) ==
  /\ phase[r] = "attempt"
  /\ LET a == CurrentAction(r)
     IN  /\ job' = [job EXCEPT ![r].made =
                      IF SideEffect[a] = "external" THEN @ + 1 ELSE @]
         /\ invoked' = IF UsesIdempotency(a)
                       THEN [invoked EXCEPT ![r][KeyFor(ctx[r], a)] = @ + 1]
                       ELSE invoked
  /\ Emit(r, "action.started")
  /\ Goto(r, "running")
  /\ UNCHANGED <<ctx, status, stores, snapshots, completions>>

(* The handler answers ok and its patch is merged; in the same turn a      *)
(* record is stored under the handler's key if it names one, else under    *)
(* the key that was looked up.                                             *)
SucceedAttempt(r) ==
  /\ phase[r] = "running"
  /\ LET a == CurrentAction(r)
         k == EffectiveKey(ctx[r], a)
     IN  /\ "ok" \in Outcomes[a]
         /\ ctx' = [ctx EXCEPT ![r].context = @ \cup {a}]
         /\ IF UsesIdempotency(a)
            THEN /\ stores' = [stores EXCEPT ![StoreOf(r)][k] = a]
                 /\ completions' = [completions EXCEPT ![k] = @ + 1]
            ELSE UNCHANGED <<stores, completions>>
         /\ EmitDelta(r, a)
         /\ Return(r, "ok", k)
  /\ UNCHANGED <<status, snapshots, invoked>>

(* The handler answers ok but its patch is refused: the fields before the  *)
(* refused one stay merged, and there is no retry and no record.           *)
RefusePatch(r) ==
  /\ phase[r] = "running"
  /\ LET a == CurrentAction(r)
     IN  /\ "conflict" \in Outcomes[a]
         /\ \/ ctx' = [ctx EXCEPT ![r].context = @ \cup {a}]
            \/ UNCHANGED ctx
         /\ Emit(r, "action.failed")
         /\ Return(r, "failed", KeyFor(ctx[r], a))
  /\ UNCHANGED <<status, stores, snapshots, invoked, completions>>

(* A failed result carries the key, an exception (a timeout is one) drops  *)
(* it.                                                                     *)
FailureKey(r, outcome) ==
  IF outcome \in {"thrown", "timeout"} THEN NoKey
                                       ELSE KeyFor(ctx[r], CurrentAction(r))

AttemptsLeftInclusive(r) == job[r].attempt <= MaxAttempts

AttemptsLeft(r) == job[r].attempt < MaxAttempts

Retryable(outcome) == outcome \in {"retryable", "timeout"}

RetryAttempt(r) ==
  /\ phase[r] = "running"
  /\ \E o \in Outcomes[CurrentAction(r)] : Retryable(o)
  /\ AttemptsLeft(r)
  /\ job' = [job EXCEPT ![r].attempt = @ + 1]
  /\ Emit(r, "action.failed")
  /\ Goto(r, "attempt")
  /\ UNCHANGED <<ctx, status, stores, snapshots, invoked, completions>>

(* error.code of a failed attempt is what the handler answered or threw,   *)
(* free text; only a timeout is given its code by the executor.            *)
CodesOf(outcome) == IF outcome = "timeout" THEN {"failed"} ELSE HandlerCodes

FailAttempt(r) ==
  /\ phase[r] = "running"
  /\ \E o \in Outcomes[CurrentAction(r)] \ {"ok", "conflict"} :
       /\ Retryable(o) => ~ AttemptsLeft(r)
       /\ \E c \in CodesOf(o) : Return(r, c, FailureKey(r, o))
  /\ Emit(r, "action.failed")
  /\ UNCHANGED <<ctx, status, stores, snapshots, invoked, completions>>

AccountedKeyless(r) == [ctx[r] EXCEPT !.calls = @ + job[r].made]

(* The run context once a result is accounted for.                         *)
Accounted(r) ==
  [ctx[r] EXCEPT !.calls = @ + job[r].made,
                 !.keys = @ \cup ({job[r].key} \ {NoKey})]

(* exceedExternalCallBudget.                                               *)
ExceedsBudget(r) == Accounted(r).calls > MaxExternalCalls

PastAction(j) == [j EXCEPT !.idx = @ + 1, !.made = 0]

AccountAction(r) ==
  /\ phase[r] = "account"
  /\ ~ ExceedsBudget(r)
  /\ ctx' = [ctx EXCEPT ![r] = Accounted(r)]
  /\ Checkpoint(r, Accounted(r), CheckpointOnSuccess /\ job[r].code = "ok")
  /\ IF job[r].code = "ok"
     THEN /\ job' = [job EXCEPT ![r] = PastAction(@)]
          /\ Goto(r, "action")
     ELSE job' = [job EXCEPT ![r].made = 0] /\ Goto(r, "failing")
  /\ UNCHANGED <<status, trace, stores, invoked, completions>>

(* The budget is compared after the calls were made and after the          *)
(* checkpoint was taken.                                                   *)
ExceedExternalCalls(r) ==
  /\ phase[r] = "account"
  /\ ExceedsBudget(r)
  /\ ctx' = [ctx EXCEPT ![r] = Accounted(r)]
  /\ Checkpoint(r, Accounted(r), CheckpointOnSuccess /\ job[r].code = "ok")
  /\ job' = [job EXCEPT ![r] = [@ EXCEPT !.code = "budget", !.made = 0]]
  /\ Emit(r, "run.failed")
  /\ Goto(r, "failing")
  /\ UNCHANGED <<status, stores, invoked, completions>>

ReportedHandoff(r) == job[r].code = "handoff"

(* What the loops take as reported already: they look at error.code alone, *)
(* which runAction has set after reporting, or a handler without.          *)
Reported(r) == job[r].code \in BranchedCodes

(* What each of the action loops does with a result that is not ok. A      *)
(* handler's own POLICY_HANDOFF_REQUIRED ends the run as "handoff", its    *)
(* own MAX_EXTERNAL_CALLS_EXCEEDED as "failed", with no terminal event.    *)
FailRun(r) ==
  /\ phase[r] = "failing"
  /\ IF Reported(r) THEN UNCHANGED trace ELSE Emit(r, "run.failed")
  /\ Conclude(r, IF job[r].code = "handoff" THEN "handoff" ELSE "failed")
  /\ UNCHANGED <<ctx, job, stores, snapshots, invoked, completions>>

(* The process dies, or a store throws, and the run is never finished.     *)
Crash(r) ==
  /\ phase[r] \in Live
  /\ Goto(r, "crashed")
  /\ UNCHANGED <<ctx, job, status, trace, stores, snapshots, invoked, completions>>

-----------------------------------------------------------------------------
Begin(r) ==
  \E i \in Inputs :
    \/ \E e \in EntryStates : StartRun(r, i, e)
    \/ StartInvalid(r, i)
    \/ \E s \in snapshots : ResumeRun(r, s, i)

Step(r) ==
  \/ ExceedDuration(r) \/ ExhaustSteps(r) \/ EnterState(r)
  \/ FailGuards(r) \/ PassGuards(r) \/ FinishList(r)
  \/ ResolveTransition(r) \/ FailTransition(r) \/ MoveOn(r) \/ Stop(r)
  \/ EndRun(r)
  \/ DenyAction(r) \/ HandOffAction(r) \/ ConflictAction(r) \/ ReplayAction(r)
  \/ RejectUnregistered(r) \/ BeginAttempts(r) \/ StartAttempt(r)
  \/ SucceedAttempt(r) \/ RefusePatch(r) \/ RetryAttempt(r) \/ FailAttempt(r)
  \/ AccountAction(r) \/ ExceedExternalCalls(r) \/ FailRun(r)

Next == \E r \in Runs : Begin(r) \/ Step(r) \/ Crash(r)

Spec == Init /\ [][Next]_vars

(* The continuation of an active run is always scheduled: handlers are     *)
(* raced with a timer, retries wait on a timer. Nobody has to start a run. *)
FairSpec == Spec /\ \A r \in Runs : WF_vars(Step(r))

-----------------------------------------------------------------------------
(* Properties.                                                             *)

(* Every variable holds what the code stores in it: phases, contexts,      *)
(* results, stores and snapshots are always well formed.                   *)
TypeOK ==
  /\ phase \in [Runs -> Phases]
  /\ ctx \in [Runs -> Context]
  /\ job \in [Runs -> Job]
  /\ status \in [Runs -> RuntimeStatus \cup {"running"}]
  /\ trace \in [Runs -> Trace]
  /\ stores \in [StoreIds -> Store]
  /\ snapshots \subseteq Snapshot
  /\ invoked \in [Runs -> [Keys -> Nat]]
  /\ completions \in [Keys -> Nat]

(* Runs that follow one another and share a store implement the ledger: a  *)
(* side effect that completed is never executed again, by a loop of the    *)
(* same run or by any run resumed from any snapshot of it.                 *)
Ledger == INSTANCE EffectLedger
EffectsOnce == Ledger!LedgerSpec

(* Within one run the handler behind a key is called at most maxAttempts   *)
(* times however often the states loop, and whatever other runs do to the  *)
(* stores at the same time: a failed action ends the run, a completed one  *)
(* is never missed by the look-up again.                                   *)
AttemptsBounded == \A r \in Runs, k \in Keys : invoked[r][k] <= MaxAttempts

(* A key never changes hands: once an action has completed under a key, no *)
(* later completion and no restored snapshot binds the key to another one. *)
KeysStayBound ==
  [][\A id \in StoreIds, k \in Keys :
       stores[id][k] # NoRecord => stores'[id][k] = stores[id][k]]_vars

(* The trace does not report a patch the run's context does not hold, even *)
(* where an action is answered from a record restored with a snapshot.     *)
DeltasMerged == \A r \in Runs : trace[r].delta \subseteq ctx[r].context

(* When a run has ended, a snapshot of it holds every record of its store: *)
(* resuming it with a new store forgets no completed side effect.          *)
EndedRunLosesNothing ==
  \A r \in Runs : phase[r] = "done" =>
    \E s \in snapshots : /\ s.run = r /\ s.status = status[r]
                         /\ s.records = RecordsOf(r)
                         /\ s.context = ctx[r].context

(* A key stands for one execution of a side effect: nothing completes      *)
(* under the same key twice.                                               *)
SameKeyOnce == \A k \in Keys : completions[k] <= 1

(* An action of a state completes at most once in the runs of one lineage, *)
(* whatever input the resuming caller passes.                              *)
ResumedNotDuplicated ==
  \A q \in Runs, s \in States, a \in Actions, i, j \in Inputs :
    i # j => \/ completions[<<q, s, a, i>>] = 0
             \/ completions[<<q, s, a, j>>] = 0

(* A run has exactly one terminal event, it is the last event of its       *)
(* trace, and it agrees with the status of the result; a run that is still *)
(* going has none but the one its failing action has just reported. The    *)
(* one exception: an action that failed with one of the two codes the      *)
(* loops branch on, answered by its handler, ends the run with the status  *)
(* of that code, and the trace stops at action.failed.                     *)
TerminalFor(st) ==
  CASE st = "completed" -> "run.completed"
    [] st = "handoff" -> "handoff.requested"
    [] OTHER -> "run.failed"

StatusFor(code) == IF code = "handoff" THEN "handoff" ELSE "failed"

(* The run's last action failed with a branched code its handler answered. *)
HandlerTookCode(r) ==
  /\ job[r].code \in HandlerCodes \cap BranchedCodes
  /\ trace[r].last = "action.failed"

ResultMatchesTrace ==
  \A r \in Runs :
    /\ phase[r] \in {"ending", "done"} =>
         IF HandlerTookCode(r)
         THEN trace[r].terminals = 0 /\ status[r] = StatusFor(job[r].code)
         ELSE trace[r].terminals = 1 /\ trace[r].last = TerminalFor(status[r])
    /\ phase[r] \in Live \ {"ending", "failing"} => trace[r].terminals = 0

(* maxExternalCalls stops a run after the action that exceeds it, and a    *)
(* resumed run may execute one more: along a lineage every run adds at     *)
(* most one action's attempts to what the budget allows.                   *)
BudgetOvershoot ==
  \A r \in Runs :
    ctx[r].calls <= MaxExternalCalls
                      + MaxAttempts * Cardinality({q \in Runs : phase[q] # "unborn"})

(* Neither limit is passed by more than the code allows, whatever the runs  *)
(* that share the stores do in between: maxAttempts for the handler behind  *)
(* a key, maxExternalCalls for a lineage of resumed runs.                   *)
LimitsHold == AttemptsBounded /\ BudgetOvershoot

(* The cap the policy pack puts on external calls: that of its last rule    *)
(* for them.                                                                *)
ExternalCap ==
  LET m == Matching(Pack.sideEffectRules, "external", Environment)
  IN  IF m = {} THEN NoCap ELSE Pack.sideEffectRules[LastIndex(m)].maxCalls

(* The policy's cap on external calls: an action starts below it, so only   *)
(* its own retries carry a run over it, resumed or not.                     *)
PolicyCapHolds ==
  ExternalCap # NoCap =>
    \A r \in Runs : ctx[r].calls <= ExternalCap + MaxAttempts - 1

(* Every run that is active ends, with a result or by a crash.             *)
RunsEnd == \A r \in Runs : phase[r] \in Live ~> phase[r] \in {"done", "crashed"}

=============================================================================
