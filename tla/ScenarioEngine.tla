---------------------------- MODULE ScenarioEngine ----------------------------
(***************************************************************************)
(* The in-memory scenario engine: packages/scenario-orchestrator-engine-   *)
(* demo (runScenario and execute of in-memory-scenario-orchestrator-       *)
(* engine.ts, scenario-run-ledger.ts, route-resolver.ts,                   *)
(* execution-budget.ts, scenario-call-stack.ts, data-binding-engine.ts),   *)
(* on top of the slot adapter of scenario-orchestrator-runtime-demo.       *)
(*                                                                         *)
(* Callers run scenarios on one engine. A scenario invokes slots one after *)
(* another, routes on the outcome of each, and ends in one terminal.       *)
(* Between two awaits the engine runs to completion: the execution that    *)
(* has the turn keeps it until it waits for a slot or has ended.           *)
(*                                                                         *)
(* The conditions of routes and the decisions of overlays are injected     *)
(* evaluators: any answer is possible. Slot inputs are abstracted to the   *)
(* input of the scenario they are built from.                              *)
(***************************************************************************)
EXTENDS Naturals, Sequences, FiniteSets

CONSTANTS
  Callers,
  Keys,               \* idempotency keys of scenario requests
  Requests,           \* scenario requests; some may carry the same key
  KeyOf, RunOf,       \* [Requests -> Keys], [Requests -> orchestratorRunId]
  InputOf,            \* [Requests -> fingerprint of the scenario input]
  Slots, Primary,     \* slots of the orchestrator document
  Callable,           \* slots the primary may call (callableBySlotIds)
  Outcomes,           \* [Slots -> outcomes the projection may name]
  Unprojected,        \* whether it may find none, or more than one
  Routes, From, OnOutcome, Priority, Effect, Target,
                      \* routes, and what each of them says
  Resolvable,         \* routes with a slot input resolver
  Bindings,           \* [Slots -> number of bindings back to the caller]
  OverlayDecisions,   \* what the overlays may decide
  SlotStatuses,       \* what the runtime may answer for a slot
  MaxSlotInvocations, MaxRouteEvaluations, MaxBindingApplications,
  Nobody, Unset

EffectTypes == {"invoke_slot", "resume_caller", "terminate", "request_handoff",
                "fail_closed"}
Decisions   == {"allow", "deny", "handoff"}
SlotResults == {"completed", "handoff_required", "failed"}
Statuses    == {"completed", "handoff_required", "failed"}
RunIds      == {RunOf[q] : q \in Requests}

ASSUME ParameterAssumption ==
  /\ Primary \in Slots /\ Callable \subseteq Slots \ {Primary}
  /\ OnOutcome \in [Routes -> UNION {Outcomes[s] : s \in Slots}]
  /\ From \in [Routes -> Slots] /\ Target \in [Routes -> Slots]
  /\ Priority \in [Routes -> Nat] /\ Effect \in [Routes -> EffectTypes]
  /\ IsFiniteSet(Routes) /\ Resolvable \subseteq Routes /\ Bindings \in [Slots -> Nat]
  /\ OverlayDecisions \subseteq Decisions /\ SlotStatuses \subseteq SlotResults
  /\ MaxSlotInvocations \in Nat /\ MaxRouteEvaluations \in Nat
  /\ MaxBindingApplications \in Nat /\ Unprojected \in BOOLEAN

(* What validateOrchestratorDocument admits: the primary calls, supporting  *)
(* slots return, only the primary terminates, and no two routes for the     *)
(* same outcome of a slot have one priority. returnToSlotId is the calling  *)
(* slot, so a frame only has to remember the slot that was called.          *)
ASSUME DocumentAssumption ==
  /\ \A r \in Routes :
       CASE Effect[r] = "invoke_slot"   -> From[r] = Primary /\ Target[r] \in Callable
         [] Effect[r] = "resume_caller" -> From[r] # Primary
         [] Effect[r] = "terminate"     -> From[r] = Primary
         [] OTHER                       -> TRUE
  /\ \A r, s \in Routes :
       /\ From[r] = From[s] /\ OnOutcome[r] = OnOutcome[s]
       /\ Priority[r] = Priority[s]
       => r = s

ASSUME RequestAssumption ==
  /\ KeyOf \in [Requests -> Keys] /\ Nobody \notin Keys
  /\ Unset \notin Requests \cup Statuses \cup {"conflict"}

VARIABLES
  turn,      \* the execution that is running to completion, or Nobody
  exec,      \* [Keys -> locals of execute]
  ledger,    \* [Keys -> request the key is bound to, or Unset]
  results,   \* [Keys -> status of the ScenarioRunResult, or Unset]
  caller,    \* [Callers -> what the caller asked and what it was given]
  traces,    \* [RunIds -> events of the run]
  audits,    \* [RunIds -> status of the audit record, or Unset]
  active,    \* the execution whose slot the adapter is running, or Nobody
  invoked    \* invocations the adapter's ledger knows, with their owner

scenarioVars == <<turn, exec, ledger, results, caller, traces, audits, active, invoked>>

ScenarioPhases ==
  {"idle", "start", "before", "invoke", "slot", "project", "route", "routed", "effect",
   "terminal", "ending", "ended"}

(* visits: the slots invoked so far, one per slot invocation consumed.      *)
Unstarted == [phase |-> "idle", slot |-> Primary, stack |-> <<>>, visits |-> <<>>,
              answer |-> Unset, outcome |-> Unset, route |-> Unset, status |-> Unset,
              routes |-> 0, bindings |-> 0]

ScenarioInit ==
  /\ turn = Nobody
  /\ exec = [k \in Keys |-> Unstarted]
  /\ ledger = [k \in Keys |-> Unset]
  /\ results = [k \in Keys |-> Unset]
  /\ caller = [c \in Callers |-> [request |-> Unset, answer |-> Unset]]
  /\ traces = [r \in RunIds |-> <<>>]
  /\ audits = [r \in RunIds |-> Unset]
  /\ active = Nobody
  /\ invoked = {}

RunIdOf(k) == RunOf[ledger[k]]

EmitAll(k, events) == traces' = [traces EXCEPT ![RunIdOf(k)] = @ \o events]

(* The execution that has the turn is at phase p; it goes on to another;    *)
(* it leaves the loop with a status.                                        *)
At(k, p) == turn = k /\ exec[k].phase = p
Goto(k, p) == exec' = [exec EXCEPT ![k].phase = p]
Leave(k, status) ==
  exec' = [exec EXCEPT ![k] = [@ EXCEPT !.phase = "ending", !.status = status]]

(* What an overlay decision other than allow makes of the scenario.         *)
Overruled(decision) == IF decision = "deny" THEN "failed" ELSE "handoff_required"

-----------------------------------------------------------------------------
(* runScenario and the ledger of scenario runs.                             *)

MayRun(c) == turn = Nobody /\ caller[c].request = Unset

Asked(c, q, answer) == caller' = [caller EXCEPT ![c] = [request |-> q, answer |-> answer]]

BoundToAny(q) == ledger[KeyOf[q]] # Unset

(* existing.fingerprint === fingerprint                                     *)
BoundTo(q) == ledger[KeyOf[q]] = q

ConflictScenario(c, q) ==
  /\ MayRun(c) /\ ledger[KeyOf[q]] # Unset /\ ~ BoundTo(q)
  /\ Asked(c, q, "conflict")
  /\ UNCHANGED <<turn, exec, ledger, results, traces, audits, active, invoked>>

JoinScenario(c, q) ==
  /\ MayRun(c) /\ BoundTo(q)
  /\ Asked(c, q, Unset)
  /\ UNCHANGED <<turn, exec, ledger, results, traces, audits, active, invoked>>

StartScenario(c, q) ==
  /\ MayRun(c) /\ ledger[KeyOf[q]] = Unset
  /\ ledger' = [ledger EXCEPT ![KeyOf[q]] = q]
  /\ exec' = [exec EXCEPT ![KeyOf[q]].phase = "start"]
  /\ traces' = [traces EXCEPT ![RunOf[q]] = Append(@, "started")]
  /\ turn' = KeyOf[q]
  /\ Asked(c, q, Unset)
  /\ UNCHANGED <<results, audits, active, invoked>>

(* The promise of the run has resolved; its handlers run later.             *)
AnswerCaller(c) ==
  /\ turn = Nobody
  /\ caller[c].request # Unset /\ caller[c].answer = Unset
  /\ results[KeyOf[caller[c].request]] # Unset
  /\ caller' = [caller EXCEPT ![c].answer = results[KeyOf[caller[c].request]]]
  /\ UNCHANGED <<turn, exec, ledger, results, traces, audits, active, invoked>>

-----------------------------------------------------------------------------
(* execute: overlays, slot invocations, projection, routes.                 *)

StartOverlays(k) ==
  /\ At(k, "start")
  /\ \E d \in OverlayDecisions :
       IF d = "allow" THEN Goto(k, "before") ELSE Leave(k, Overruled(d))
  /\ UNCHANGED <<turn, ledger, results, caller, traces, audits, active, invoked>>

SlotOverlays(k) ==
  /\ At(k, "before")
  /\ \E d \in OverlayDecisions :
       IF d = "allow" THEN Goto(k, "invoke") ELSE Leave(k, Overruled(d))
  /\ UNCHANGED <<turn, ledger, results, caller, traces, audits, active, invoked>>

ExhaustSlots(k) ==
  /\ At(k, "invoke") /\ Len(exec[k].visits) >= MaxSlotInvocations
  /\ EmitAll(k, <<"budget.exhausted">>)
  /\ Leave(k, "failed")
  /\ UNCHANGED <<turn, ledger, results, caller, audits, active, invoked>>

(* The adapter's key for the next invocation of k.                          *)
InvocationKey(k) ==
  <<RunIdOf(k), Len(exec[k].visits) + 1, exec[k].slot, InputOf[ledger[k]]>>

(* Two executions never send the same request: the length of the run's      *)
(* trace is part of it, so a key the adapter knows is a conflict.           *)
Conflicts(k) == \E i \in invoked : i.key = InvocationKey(k) /\ i.owner # k

Waiting(x, answer) ==
  [x EXCEPT !.visits = Append(@, x.slot), !.phase = "slot", !.answer = answer]

Known(k) == invoked' = invoked \cup {[key |-> InvocationKey(k), owner |-> k]}

RefusalUnsettled == Unset

(* What a refused invocation comes to.                                      *)
Refusal == "failed"

(* The adapter's ledger refuses the key, or the adapter is busy with the    *)
(* slot of another scenario; a busy refusal is recorded under the key.      *)
RefuseSlot(k) ==
  /\ At(k, "invoke") /\ Len(exec[k].visits) < MaxSlotInvocations
  /\ Conflicts(k) \/ active # Nobody
  /\ exec' = [exec EXCEPT ![k] = Waiting(@, Refusal)]
  /\ IF Conflicts(k) THEN UNCHANGED invoked ELSE Known(k)
  /\ EmitAll(k, <<"slot.started">>)
  /\ turn' = Nobody
  /\ UNCHANGED <<ledger, results, caller, audits, active>>

InvokeSlot(k) ==
  /\ At(k, "invoke") /\ Len(exec[k].visits) < MaxSlotInvocations
  /\ ~ Conflicts(k) /\ active = Nobody
  /\ exec' = [exec EXCEPT ![k] = Waiting(@, Unset)]
  /\ Known(k)
  /\ EmitAll(k, <<"slot.started">>)
  /\ active' = k
  /\ turn' = Nobody
  /\ UNCHANGED <<ledger, results, caller, audits>>

(* The Runtime behind the adapter returns, and the adapter is free.         *)
FinishSlot(k) ==
  /\ turn = Nobody /\ active = k /\ k # Nobody
  /\ \E x \in SlotStatuses : exec' = [exec EXCEPT ![k].answer = x]
  /\ active' = Nobody
  /\ UNCHANGED <<turn, ledger, results, caller, traces, audits, invoked>>

FailureReportedTwice == <<"slot.failed", "failed">>

FailureEvents == <<"slot.failed">>

(* The awaited invocation failed, timed out or was refused.                 *)
FailSlot(k) ==
  /\ turn = Nobody /\ exec[k].phase = "slot" /\ exec[k].answer = "failed"
  /\ turn' = k
  /\ EmitAll(k, FailureEvents)
  /\ Leave(k, "failed")
  /\ UNCHANGED <<ledger, results, caller, audits, active, invoked>>

ResumeWithSlot(k) ==
  /\ turn = Nobody /\ exec[k].phase = "slot"
  /\ exec[k].answer \in {"completed", "handoff_required"}
  /\ turn' = k
  /\ EmitAll(k, <<"slot.completed">>)
  /\ Goto(k, "project")
  /\ UNCHANGED <<ledger, results, caller, audits, active, invoked>>

ProjectOutcome(k) ==
  /\ At(k, "project")
  /\ \/ \E o \in Outcomes[exec[k].slot] :
          exec' = [exec EXCEPT ![k] = [@ EXCEPT !.phase = "route", !.outcome = o]]
     \/ Unprojected /\ Leave(k, "failed")
  /\ UNCHANGED <<turn, ledger, results, caller, traces, audits, active, invoked>>

-----------------------------------------------------------------------------
(* Routes.                                                                  *)

Candidates(k) == {r \in Routes : From[r] = exec[k].slot /\ OnOutcome[r] = exec[k].outcome}

Highest(matched) == {r \in matched : \A s \in matched : Priority[s] <= Priority[r]}

(* Every candidate is evaluated, and charged after it was evaluated.        *)
ExhaustRoutes(k) ==
  /\ At(k, "route")
  /\ exec[k].routes + Cardinality(Candidates(k)) > MaxRouteEvaluations
  /\ EmitAll(k, <<"budget.exhausted">>)
  /\ Leave(k, "failed")
  /\ UNCHANGED <<turn, ledger, results, caller, audits, active, invoked>>

Routed(x, r, evaluated) ==
  [x EXCEPT !.phase = "routed", !.route = r, !.routes = @ + evaluated]

(* The one matching route of the highest priority; none, or several, fail.  *)
SelectRoute(k) ==
  /\ At(k, "route")
  /\ exec[k].routes + Cardinality(Candidates(k)) <= MaxRouteEvaluations
  /\ \E matched \in SUBSET Candidates(k) :
       IF Cardinality(Highest(matched)) = 1
       THEN \E r \in Highest(matched) :
              exec' = [exec EXCEPT ![k] = Routed(@, r, Cardinality(Candidates(k)))]
       ELSE Leave(k, "failed")
  /\ UNCHANGED <<turn, ledger, results, caller, traces, audits, active, invoked>>

RouteOverlays(k) ==
  /\ At(k, "routed")
  /\ \E d \in OverlayDecisions :
       IF d = "allow"
       THEN Goto(k, "effect") /\ EmitAll(k, <<"route.selected">>)
       ELSE Leave(k, Overruled(d)) /\ UNCHANGED traces
  /\ UNCHANGED <<turn, ledger, results, caller, audits, active, invoked>>

AtEffect(k, type) == At(k, "effect") /\ Effect[exec[k].route] = type

MayCall(k) ==
  /\ exec[k].slot = Primary
  /\ Target[exec[k].route] \in Callable /\ exec[k].route \in Resolvable
  /\ exec[k].stack = <<>>

Called(x, target) ==
  [x EXCEPT !.stack = <<target>>, !.slot = target, !.phase = "before"]

CallSupporting(k) ==
  /\ AtEffect(k, "invoke_slot")
  /\ IF MayCall(k)
     THEN exec' = [exec EXCEPT ![k] = Called(@, Target[exec[k].route])]
     ELSE Leave(k, "failed")
  /\ UNCHANGED <<turn, ledger, results, caller, traces, audits, active, invoked>>

MayResume(k) == exec[k].slot # Primary /\ exec[k].stack = <<exec[k].slot>>

BindingRoom(k) == MaxBindingApplications - exec[k].bindings

ResumedUnpopped(x) ==
  [x EXCEPT !.slot = Primary, !.phase = "before",
            !.bindings = @ + Bindings[x.slot]]

(* The frame is popped and the caller is next; every binding was charged.   *)
Resumed(x) ==
  [x EXCEPT !.slot = Primary, !.stack = <<>>, !.phase = "before",
            !.bindings = @ + Bindings[x.slot]]

Applied(n) == [i \in 1 .. n |-> "binding.applied"]

(* An optional binding whose source is missing is charged, not applied.     *)
ResumeCaller(k) ==
  /\ AtEffect(k, "resume_caller")
  /\ IF MayResume(k)
     THEN /\ Bindings[exec[k].slot] <= BindingRoom(k)
          /\ \E n \in 0 .. Bindings[exec[k].slot] : EmitAll(k, Applied(n))
          /\ exec' = [exec EXCEPT ![k] = Resumed(@)]
     ELSE Leave(k, "failed") /\ UNCHANGED traces
  /\ UNCHANGED <<turn, ledger, results, caller, audits, active, invoked>>

(* After n bindings were applied, a required source value is missing.       *)
MissBindingSource(k) ==
  /\ AtEffect(k, "resume_caller") /\ MayResume(k)
  /\ \E n \in 0 .. Bindings[exec[k].slot] - 1 :
       n < BindingRoom(k) /\ EmitAll(k, Applied(n) \o <<"binding.failed">>)
  /\ Leave(k, "failed")
  /\ UNCHANGED <<turn, ledger, results, caller, audits, active, invoked>>

(* The bindings there was room for may have been applied; the next one is   *)
(* refused.                                                                 *)
ExhaustBindings(k) ==
  /\ AtEffect(k, "resume_caller") /\ MayResume(k)
  /\ Bindings[exec[k].slot] > BindingRoom(k)
  /\ \E n \in 0 .. BindingRoom(k) :
       EmitAll(k, Applied(n) \o <<"budget.exhausted", "binding.failed">>)
  /\ Leave(k, "failed")
  /\ UNCHANGED <<turn, ledger, results, caller, audits, active, invoked>>

(* Only the primary slot ends the scenario, with nobody waiting for it.     *)
MayTerminate(k) == exec[k].slot = Primary /\ exec[k].stack = <<>>

Terminate(k) ==
  /\ AtEffect(k, "terminate")
  /\ IF MayTerminate(k)
     THEN \E d \in OverlayDecisions :
            Leave(k, IF d = "allow" THEN "completed" ELSE Overruled(d))
     ELSE Leave(k, "failed")
  /\ UNCHANGED <<turn, ledger, results, caller, traces, audits, active, invoked>>

RequestHandoff(k) ==
  /\ AtEffect(k, "request_handoff")
  /\ Leave(k, "handoff_required")
  /\ UNCHANGED <<turn, ledger, results, caller, traces, audits, active, invoked>>

FailClosed(k) ==
  /\ AtEffect(k, "fail_closed")
  /\ Leave(k, "failed")
  /\ UNCHANGED <<turn, ledger, results, caller, traces, audits, active, invoked>>

TerminalEvent(status) ==
  CASE status = "completed" -> "completed"
    [] status = "handoff_required" -> "handoff.requested"
    [] status = "failed" -> "failed"

(* The terminal event, the result and the audit record.                     *)
EndScenario(k) ==
  /\ At(k, "ending")
  /\ EmitAll(k, <<TerminalEvent(exec[k].status)>>)
  /\ audits' = [audits EXCEPT ![RunIdOf(k)] = exec[k].status]
  /\ results' = [results EXCEPT ![k] = exec[k].status]
  /\ Goto(k, "ended")
  /\ turn' = Nobody
  /\ UNCHANGED <<ledger, caller, active, invoked>>

-----------------------------------------------------------------------------
Ask(c) ==
  \E q \in Requests : ConflictScenario(c, q) \/ JoinScenario(c, q) \/ StartScenario(c, q)

Step(k) ==
  \/ StartOverlays(k) \/ SlotOverlays(k) \/ ExhaustSlots(k) \/ RefuseSlot(k)
  \/ InvokeSlot(k) \/ FinishSlot(k) \/ FailSlot(k) \/ ResumeWithSlot(k)
  \/ ProjectOutcome(k) \/ ExhaustRoutes(k) \/ SelectRoute(k) \/ RouteOverlays(k)
  \/ CallSupporting(k) \/ ResumeCaller(k) \/ MissBindingSource(k)
  \/ ExhaustBindings(k) \/ Terminate(k) \/ RequestHandoff(k) \/ FailClosed(k) \/ EndScenario(k)

ScenarioNext ==
  \/ \E c \in Callers : Ask(c) \/ AnswerCaller(c)
  \/ \E k \in Keys : Step(k)

ScenarioSpec == ScenarioInit /\ [][ScenarioNext]_scenarioVars

(* Code that has the turn runs on; the Runtime behind a slot is bounded by  *)
(* its timeouts; promise handlers always run, one execution as well as the  *)
(* other.                                                                   *)
FairScenarios ==
  /\ ScenarioSpec
  /\ \A k \in Keys : SF_scenarioVars(Step(k))
  /\ \A c \in Callers : SF_scenarioVars(AnswerCaller(c))

-----------------------------------------------------------------------------
(* Properties.                                                              *)

ScenarioTypeOK ==
  /\ turn \in Keys \cup {Nobody} /\ active \in Keys \cup {Nobody}
  /\ ledger \in [Keys -> Requests \cup {Unset}]
  /\ results \in [Keys -> Statuses \cup {Unset}]
  /\ audits \in [RunIds -> Statuses \cup {Unset}]
  /\ \A k \in Keys : /\ exec[k].phase \in ScenarioPhases /\ exec[k].slot \in Slots
                     /\ exec[k].stack \in Seq(Slots) /\ exec[k].visits \in Seq(Slots)
                     /\ exec[k].status \in Statuses \cup {Unset}

(* Every execution alternates between the primary slot and one supporting   *)
(* slot it called, and a completed one has ended with the primary.          *)
CallReturn ==
  \A k \in Keys :
    LET v == exec[k].visits
    IN  /\ \A i \in DOMAIN v : IF i % 2 = 1 THEN v[i] = Primary ELSE v[i] \in Callable
        /\ results[k] = "completed" => Len(v) % 2 = 1

(* Every execution of a document the validator admits finds the call stack  *)
(* as its routes expect it: the engine's own call-return checks (a caller   *)
(* frame to resume, no frame left when the primary terminates or calls)     *)
(* never fail it.                                                           *)
CallStackFits ==
  \A k \in Keys :
    /\ AtEffect(k, "resume_caller") => MayResume(k)
    /\ AtEffect(k, "terminate") => MayTerminate(k)
    /\ AtEffect(k, "invoke_slot") /\ exec[k].route \in Resolvable => MayCall(k)

(* Calls and returns nest: the visits as they were made, and the stack they *)
(* left, which a run that resumes, calls and ends in every order could undo.*)
CallsNest == CallReturn /\ CallStackFits

Terminals == {"completed", "handoff.requested", "failed"}

(* No other key was brought with the run identifier of k.                   *)
OwnRun(k) == \A j \in Keys \ {k} : ledger[j] # Unset => RunIdOf(j) # RunIdOf(k)

(* Where run identifiers are not reused, the result, the audit record and   *)
(* the one terminal event, the last of the run's trace, say the same.       *)
ReportsAgree ==
  \A k \in Keys : results[k] # Unset /\ OwnRun(k) =>
    LET t == traces[RunIdOf(k)]
    IN  /\ audits[RunIdOf(k)] = results[k]
        /\ {i \in DOMAIN t : t[i] \in Terminals} = {Len(t)}
        /\ t[Len(t)] = TerminalEvent(results[k])

(* A request repeated under another idempotency key, with the run and the   *)
(* input of the first, does not complete a second time: the adapter knows   *)
(* its slot invocations.                                                    *)
RunCompletesOnce ==
  \A j, k \in Keys :
    /\ j # k /\ results[j] = "completed" /\ results[k] = "completed"
    => \/ RunIdOf(j) # RunIdOf(k)
       \/ InputOf[ledger[j]] # InputOf[ledger[k]]

(* A run is reported once and one way, over requests with its identifier    *)
(* under the same key, another key, and identifiers of their own.           *)
RunsReportOnce == ReportsAgree /\ RunCompletesOnce

(* One execution per key, for the first request, and its result for all who *)
(* repeat that request while it runs or after it has ended.                 *)
Memo == INSTANCE MemoizedCalls WITH
  Results <- Statuses,
  bound   <- ledger,
  outcome <- results,
  given   <- [c \in Callers |->
                IF caller[c].answer \in Statuses
                THEN <<caller[c].request, caller[c].answer>> ELSE Unset]
OneScenarioPerKey == Memo!MemoSpec

(* Whoever runs a scenario is answered: no route can loop beyond the        *)
(* budgets, and no slot of one scenario keeps another waiting for ever.     *)
ScenariosEnd ==
  \A c \in Callers : caller[c].request # Unset ~> caller[c].answer # Unset

=============================================================================
