# Yutra: specification, model checking and proofs

TLA+ models of Yutra: its runtime (`packages/runtime`), the slot adapter and the
scenario engine on top of it, what they leave behind (`packages/trace`, run
evidence, snapshots), the compilers that make their documents, and the builder in
which authors write them. TLC checks the models on small instances; TLAPS proves
properties of several for every value of the constants. `PROJECT.json` lists
components, runs, mutants, hazards, theorems and the source lines every
definition stands for.

    tlc -workers 2 -config RuntimeResume.cfg MCRuntime     # a run
    tlapm SlotParts_proofs.tla                             # a proof module

## 1. The system

    builder, CLI        forms, configurations, plans, DSL texts, commands
        | compile, inspect, run preview
    compilers           pack configurations -> agents, plans -> bundles,
                        profiles -> orchestrator documents
        | agents, documents
    scenario engine     runScenario: slots, routes, overlays, budgets, terminal
        | invokeSlot(request)
    slot adapter        one Runtime at a time, one execution per idempotency key
        | executeRun(options)
    runtime             states, guards, actions, policies, retries, snapshots
        | append(event), save(snapshot), get/save(record), handler(input)
    storages            trace storage, snapshot store, idempotency store, skills

Everything runs in one JavaScript process, but for the browser that talks to the
builder's runner and for CLI commands started side by side. There are no threads:
code runs from one `await` to the next, and what happens between two awaits is
one step. Concurrency is interleaving at awaits, requests whose answers come in
any order, and processes that share files. Failure is a process that dies between
two steps, a file system or storage that refuses, or a handler that throws,
answers with an error, answers late or never.

| Component | State | Hard behaviours | What makes it correct |
|---|---|---|---|
| **Runtime: runs, snapshots, resumption** `execute-run.ts`, `snapshot*.ts`, `resume-run.ts` | run context, snapshots, trace | a crash between a record and the next checkpoint; resumption from any earlier snapshot; terminal events emitted in several places; two snapshots of one millisecond; a snapshot file two processes write | effects completed once are not repeated; every run ends; result, status and terminal event agree; the latest snapshot is a recent one; a save is lost only where it raced |
| **Runtime: actions and idempotency** `action-executor.ts`, `idempotency.ts`, `context-merge.ts`, skills | records by key, attempts | time-outs that race answers of handlers nobody stops; two runs looking a key up before either records it; patches merged field by field; skills whose class is known only when they answer | attempts bounded; one answer counts; a key belongs to one action; a field keeps its type; a refused answer leaves no trace in the next run |
| **Runtime: policies** `policy-evaluator.ts` | none | rule order, environments, cap on calls | the last matching rule decides; caps only tighten |
| **Slot adapter** `scenario-orchestrator-runtime-demo` | `activeInvocation`, ledger of promises, artifact store, counters of effects | callers that join a running or settled invocation; a busy adapter; handlers abandoned by a time-out; artifacts changed after an engine was created | the flag is never left behind; one execution and one result per key; every effect is told of |
| **Scenario engine** `scenario-orchestrator-engine-demo` | run ledger, call stack, budgets, context, trace, audit | two scenarios competing for one adapter; loops between slots; errors thrown from many places; overlays that disagree; bindings that overwrite one another | calls and returns match; result, trace and audit agree; one execution per key; everyone is answered; the strictest overlay wins |
| **Outcome projection** `outcome-projection.ts` | none | precedence of sources, ambiguity of rules | one outcome or a named failure |
| **Trace recorder, storages, reports** `packages/trace`, viewer | buffer, closed flag, storage, file | concurrent appends share one buffer; storage rejects; a file read while it grows, cut by a crash, or written by a clock set back | an event is stored once, in its run's order, or its loss is reported; reports tell the run as it was |
| **Run evidence** `scenario-run-evidence-core` | none | bundles of runs that ended in every way | a run that ended has an acceptable bundle unless a slot failed |
| **Studio, workbenches, AI drafts** `apps/builder`, `apps/builder-runner` | React state | answers that arrive after the text, the selection, the configuration or the form changed | what is shown belongs to what is selected; what runs was inspected; a draft changes what its diff says |
| **DSL** `packages/dsl` | none | names rewritten in two passes | a document means afterwards what its author wrote |
| **Pack configurations, rule compiler** | none | guards in a grammar the runtime does not read, strategies, test cases compiled along | an agent commits itself only as configured and is never stuck |
| **Composition and orchestrator compilers, contracts** | none | two validators that must agree; supplied results that are stale or edited | compiled whole or refused; a compiled document is one the engine can run |
| **CLI** | files | commands side by side, killed or refused between two files | the last file stands for all; nothing unforced is replaced |
| Standard types, patterns and archetypes, examples | registries, types | - | - |

How they interact: the engine awaits `invokeSlot` and holds no lock while it
waits; the adapter awaits `executeRun` under its flag; the runtime awaits its
stores and handlers. The state shared between concurrent callers is the engine's
run ledger, the adapter's flag and ledger, the idempotency, snapshot and trace
stores given to runs, and, between processes, the snapshot file, the trace file
and the output directory of the compile commands. The page of the builder shares
nothing with its runner but requests.

## 2. The modules

### Runtime and what it leaves behind

| Module | What it models |
|---|---|
| `PolicyEvaluator` | `evaluatePolicyForAction` as operators |
| `PolicyPacks` | every policy pack, written rule by rule, and what the evaluator decides on it |
| `Runtime` | `executeRun` and `resumeRun`, with action execution, idempotency, snapshots and crashes (extends `PolicyEvaluator`) |
| `EffectLedger` | abstract: what an idempotency store promises to runs that follow one another |
| `AttemptRace` | the attempts of an action against the handlers they start, which a time-out does not stop |
| `ContextReplay` | field-by-field merging of patches, and the context rebuilt from a trace |
| `SkillCalls` | actions answered by skills: found, read, imported once per process, run |
| `SnapshotStore` | both snapshot stores: their order within a millisecond, the file two processes write, files cut by a crash |
| `TraceRecorder` | appends, flushes and closes over recorders and storages that runs share |
| `EventLog` | abstract: what a trace is worth; implemented by `TraceRecorder` |
| `TraceReports` | summaries, frames, audit bundle, run list and viewer over a file that is still written |

### Scenarios

| Module | What it models |
|---|---|
| `SlotAdapter` | `invokeSlot` of the demo adapter: flag, ledger, callers |
| `MemoizedCalls` | abstract: what a ledger of promises promises to callers; implemented by `SlotAdapter` and by `ScenarioEngine` |
| `SlotDispatch` | one invocation inside: preflight, enforcement at dispatch, result and summary of side effects |
| `SlotArtifacts` | the artifact store, the inspection of agents, engines created of them |
| `OutcomeProjection` | validation of projection contracts and projection of an answer |
| `ScenarioEngine` | `runScenario` and `execute`, with the adapter as far as the engine sees it |
| `ScenarioOverlays` | which overlays speak at a stage, by scope, mode and order |
| `ScenarioBindings` | data bindings of a return, paths of an object written one after the other |
| `ScenarioEvidence` | the bundle of a scenario's run and the rules it is accepted by (extends `ScenarioEngine`) |
| `ClaimsDesk` | a document and requests for `ScenarioEngine`, shared by two runs |

### Authoring

| Module | What it models |
|---|---|
| `Studio` | the DSL editor: buffer, inspect and preview requests, what is applied, what a preview may run |
| `Workbench` | the scenario workbench: four panels whose answers arrive in any order |
| `PackConfigs`, `CreatorDesk` | what is asked of a pack configuration; the Creator Workbench in which it is edited and compiled |
| `CompiledAgents`, `RuleImpacts` | the agents the rule compiler makes, run by the grammar of the runtime, with the test cases compiled along; what the creator is told a rule affects |
| `CompileCommands` | the compile commands on one directory: forced or not, dry, concurrent, killed (extends `PackConfigs`) |
| `CompositionCompiler` | plans, their validation, readiness and bundle |
| `OrchestratorCompiler` | plans and profiles, the supplied composition result, the two validators, the document |
| `BuiltAgents`, `DraftDesk` | the builder's form, its agents and their DSL text; the AI draft panel with its two providers |
| `DslDocuments` | canonicalisation name by name, cross references, the preview's rewriting of conditions |

`MCRuntime`, `MCScenarioEngine`, `MCSlotParts`, `MCRunRecords` and `MCAuthoring`
give them agents, documents, requests and catalogs for TLC. The `*_proofs`
modules hold the theorems.

**Parts.** `MCSlotParts`, `MCRunRecords` and `MCAuthoring` each check several
modules in one run. Their `part` is chosen once; a behaviour moves the variables
of that part and leaves those of the others where they start. The parts share no
state, as the components behind them share none, so the states of the run are
the sum of those of its parts and not their product. Modules that do interact
are not split this way: `ScenarioEngine` carries the adapter's flag and ledger,
`ScenarioEvidence` extends `ScenarioEngine`, `CompileCommands` and `CreatorDesk`
extend `PackConfigs`, `RuleImpacts` extends `CompiledAgents`, `DraftDesk` extends
`BuiltAgents`, and `Runtime` holds actions, stores, snapshots and policies in one.
What the code leaves null, undefined or without a file is `None` of `Absence`, one
value for all modules of authoring.

### Runtime

A run is a record of `phase` (where it is in `executeRun`), `ctx` (the
`RuntimeRunContext`), `job` (the locals of the state iteration and of
`executeAction`), `status` (of the result) and `trace` (last event, number of
terminal events, patches reported). `stores` are the idempotency stores, shared
or one per run; `snapshots` is the content of the snapshot store. `invoked` and
`completions` count handler invocations and recorded completions: the code has
no such counters, they observe it.

| Action | Code |
|---|---|
| `StartRun`, `StartInvalid`, `ResumeRun` | the head of `executeRun`, with and without `resumeFromSnapshot` |
| `ExceedDuration`, `ExhaustSteps`, `EnterState` | the head of the loop over states |
| `FailGuards`, `PassGuards` | guards of the state |
| `DenyAction`, `HandOffAction`, `ConflictAction`, `ReplayAction`, `RejectUnregistered`, `BeginAttempts` | `executeAction` up to its loop of attempts |
| `StartAttempt`, `SucceedAttempt`, `RefusePatch`, `RetryAttempt`, `FailAttempt` | one attempt, its patch, its record |
| `AccountAction`, `ExceedExternalCalls`, `FailRun` | what `runAction` and the action loops do with the result |
| `FinishList`, `ResolveTransition`, `FailTransition`, `MoveOn`, `Stop` | from one list of actions to the next, the transition, the end of the state |
| `EndRun` | the final snapshot and the result |
| `Crash` | the process dies between two steps, or a store throws |

A patch is the name of its action and a context the set of patches merged into
it (`ContextReplay` opens a patch up into fields with types); a guard, a `when`
expression and an intent resolver may answer anything their agent allows
(`CompiledAgents` reads guards by the grammar); the error code of an attempt is one
of `HandlerCodes`, since `executeAction` passes on whatever a handler or skill
answers, also the two codes the loops of `executeRun` branch on
(`BranchedCodes`: the hand-over and the exceeded budget); time is a choice at
`ExceedDuration` and a "timeout" outcome of a handler (`AttemptRace` keeps the
handler at work). The key of an action is `<<scope, state, action, input>>`
because the code hashes exactly these when no key is given (`idempotency.ts`);
an explicit key is used as it is.

### Races over traces, snapshots and attempts

In `TraceRecorder` a call is `append`, `appendMany`, `flush` or `close` of a run;
`wiring` says which recorder a run has and which storage a recorder has. A flush
takes the whole buffer, whosever events it holds, and a storage that rejects loses
what it was given: the caller whose flush it was hears of it. In `AttemptRace` a
handler starts, may have its effect and may answer, each at any time or never;
only the attempt that is still awaited counts. In `SnapshotStore` a save of the
file store is a read and a write of the whole file; another process, or the death
of this one, may come between. Reads of the file that was cut while being written
fail; the store then throws and the run with it.

### Scenarios

In `SlotAdapter`, `active` is `activeInvocation` with the key that set it;
`ledger` is the invocation ledger; `caller` is what each caller asked and was
told. A request is invalid, conflicts, joins, is refused as busy, fails its
preflight or starts the Runtime: six disjoint actions, one per early return.
`FinishInvocation` is the `finally` block, `RecordOutcome` the promise handlers of
the ledger, `AnswerCaller` what the waiting callers see, after those handlers.

In `ScenarioEngine`, `turn` is the execution that is running between two awaits;
others may move only while it is `Nobody`. `exec[k]` holds the locals of `execute`
behind the key `k`: slot, call stack, slots visited, route, budgets. `traces`,
`audits`, `results` and `ledger` are the ledgers of the engine. Conditions of
routes and decisions of overlays are functions the caller injects, so any answer
is possible; which overlay's answer stands is `ScenarioOverlays`.
`DocumentAssumption` states the rules of `validate-orchestrator.ts` that the
engine relies on; `OrchestratorCompiler` checks that what compiles meets the
rules (`CompiledDocumentsRun`).

### Authoring

`Studio`, `Workbench`, `CreatorDesk` and `DraftDesk` model pages: a click is one
step that starts a request with what the render of the click knew, an answer is
one step applied to the state it finds. A preview of the Studio is such a pair in
both modules that look at it: `Studio` follows the text, `CreatorDesk` (`RunByHand`,
`RunSucceeds`, `RunFails`, `RunIsUnread`) the configuration its evidence names, which
is the one in the editor at the click. The remaining modules model pure code by
the behaviour of an author who writes the input piece by piece (a plan route by
route, a document name by name, a policy pack rule by rule): TLC then visits all
inputs within the bounds, and properties compare what comes out with a reference,
or the outcomes before and after a piece was added.

## 3. What the runs check

| Run | Properties | Bounds, and why they are enough |
|---|---|---|
| `RuntimeResume` | `EffectsOnce`: runs that follow one another implement `EffectLedger` | 3 runs, so a resumption of a resumption and two resumptions of one snapshot; 2 steps, so one loop; 2 attempts; a crash anywhere |
| `RuntimeFresh` | `DeltasMerged`, `EndedRunLosesNothing`, `KeysStayBound`: with a private store per run, resumed runs report no patch their context lacks; an ended run's snapshot restores every record; keys do not change hands | 2 runs, 3 steps, two actions that conflict on one explicit key, crashes |
| `RuntimeConcurrent` | `LimitsHold`: attempts per run and key and the overshoot of the call budget are bounded; `RunsEnd` | 2 runs at once on one store, a loop of 3 steps, retries, two external actions that may time out, budget 1 so that it is exceeded |
| `RuntimeResults` | `TypeOK`, `ResultMatchesTrace`, `PolicyCapHolds`: one terminal event, last in the trace, for every way a run ends but a handler's own hand-over or budget code; a policy's cap on external calls survives loops and resumptions | an agent that can complete, hand off, get stuck, miss a state, a handler or a guard; every outcome of a handler with every code the loops tell apart (the other runs: ordinary codes); a pack that denies, hands over and caps; cap 1, 2 attempts, 2 runs |
| `SlotParts` | the adapter: `FlagMeansRunning`, `OneResultPerKey` (implements `MemoizedCalls`), `CallersAnswered`; `DispatchIsToldOf`; contracts and overlays: `RulesDecideTheirOwn`, `OverlaysKeepTheirPlace`; bindings: `LostOnlyByOverlap`; `CreatedEnginesInvoke`; policies: `PackSpeaksClearly`; `PartsTypeOK` | 3 callers, so that one runs while two others join, conflict or are refused; 3 keys; a dispatched handler abandoned while a second works; contracts, bindings and packs of up to 3 entries, two that override one another and one that must not matter; 2 overlays; 2 returns; 3 changes by the host |
| `ScenarioRuns` | `RunsReportOnce`, `OneScenarioPerKey` (implements `MemoizedCalls`), `ScenariosEnd` | 2 callers, 4 requests: 2 scenarios that compete for the adapter, a key reused for other content, a run repeated under a second key; 3 slot invocations: out, back and the refusal of the budget |
| `RunRecords` | `EventsAreKept` (`TraceRecorder` implements `EventLog`); `ContextStands`: contexts rebuilt from a trace; `TracesTellRuns`: frames, bundles, run list and viewer; `SnapshotsAreKept`; `AnswersCountOnce`; `SkillsAreChecked`; `ScenariosAreTold`: matched calls and an accepted bundle; `EveryCallEnds`; `TypeOK` | 2 runs on up to 2 recorders and storages, 3 events in batches of up to 2; 3 patches and one resumption; traces of up to 9 events with a clock set back once and one cut; 3 snapshots of 2 processes in 3 ticks; 2 calls of 2 attempts; 3 skill directories, 2 tries, one edit; one scenario of 5 slot invocations (two round trips), two supporting slots, every overlay decision, each budget the first to run out in some behaviour |
| `Authoring` | `StudioShowsWhatRan`, `WorkbenchShowsSelection`, `CreatorShowsItsConfig`, `PlansCompileWhole` and `DocumentsAreSound` of compositions and orchestrators, `AgentsDecideAsConfigured`, `CommandsWriteWhole`, `WrittenIsMeant`; `AuthoringTypeOK` | 3 texts, of every origin and one broken; 3 compositions with 3 requests in flight; 56 configurations over the five supported archetypes, with every strategy the compilers branch on and each rule in two values with the others alike; two compile previews and a manual run in flight, over the handoff of one archetype and a rule of the other (`Switched`, `SetRule`); 2 commands over a directory, of one kind or of two; plans of up to 3 slots, profiles of 2 routes over 3 slots; documents of up to 4 names and 2 moves, over names that share a base, that are the numbered form of one, and that are words of the language |
| `RuntimeHandlerKey`, `RuntimeResumeInput`, `StudioAppliesOnce`, `AgentsLowConfidence` | findings, see below | the smallest instance in which each happens |

`Runs` are interchangeable and used as a symmetry set wherever a run of
`MCRuntime` checks safety only; runs with a liveness property use no symmetry.
Deadlock is not checked: runs, invocations, scenarios and commands end, authors
stop, and nobody has to start another one. Every bound is a constant of the code
(`MaxSteps` is `maxSteps`, `MaxAttempts` the retry policy, `MaxExternalCalls` and
the three `Max...` of the engine its budgets) or a named bound of a guard
(`MaxFlights`, `MaxEvents`, `MaxTicks`, ...); no state constraint is used.

Properties of the authoring and reporting modules have exceptions. Each is named
in the definition (`Unmet`, `Idle`, `Elsewhere`, `Besides`, `LeadsNowhere`, `HandlerTookCode`, `overtaken`, `late`, `crossed`, `strayed`, `setBack`,
`cut`, `raced`, `cleared`, `shrunk`, `relabelled`) and described under "observations": the property
says that nothing else goes wrong.

The mutants of `PROJECT.json` name, for each property of each passing run, a
change to the model of the code, like a dropped guard or a missing reset, under
which that run finds the property violated.

### Findings

* **A handler's own key is recorded and never looked up** (`RuntimeHandlerKey`).
  `executeAction` looks up the key from policy or input and stores under the key
  the handler returns, so an action in a loop is executed again, completing twice
  under one key. The test of "repeated action with same idempotency key does not
  re-execute side effect" uses a key from the policy only.
* **A resumption with other input repeats effects** (`RuntimeResumeInput`). A
  computed key contains the input of the resuming call, which `resumeRun` leaves
  optional and snapshots do not hold. The test "resumed run does not duplicate
  completed idempotent action" uses a key from the policy only.
* **A compiled text runs without being applied** (`StudioAppliesOnce`). Sending
  compiled DSL to an editor that is already the run source resets `dslApplied` and
  leaves `sourceMode`; the next preview asks only for an inspected text. The
  README says it must be manually applied.
* **A compiled knowledge agent answers below its threshold**
  (`AgentsLowConfidence`). The compiler writes `confidence_score < n`, which the
  runtime's expressions do not read; a guard that is not read counts as false.

### Observations

Met while modelling, part of the models, and neither claimed nor refuted by a
statement of the repository:

* Runs and traces: run identifiers are random and `listRuns` sorts them, so
  `compareWithLatest` (`audit-bundle.ts:232-240`) compares with the alphabetically
  last run. One cut line makes `readAllEvents` answer an empty trace, where the
  viewer says INVALID_JSONL. The status of a summary is that of the last event by
  time, so a clock set back makes it "unknown". The error code of a bundle is of
  the last failed action even when its retry succeeded. The viewer keeps an older
  load's failure beside newer events. `yutra run` exits 0 for stuck and handed-over
  runs.
* Scenarios: the engine reads neither `deny_override` nor `require_handoff`
  (`overlay-evaluator.ts:36-47`); required bindings no return applies compile and
  are never applied; accepted outcomes without a route compile and fail closed; a
  busy refusal is remembered under its key; the two slot-id patterns
  (`scenario-context-store.ts:49`, `compile-scenario-composition.ts:64-66`) differ
  in dashes.
* Terminal events: the loops of `executeRun` tell by `error.code` what `runAction`
  has reported (769/776, 806/813, 889/896, 1030/1037), and `action-executor.ts:402`
  passes on the code a handler answers. A handler that answers
  `POLICY_HANDOFF_REQUIRED` ends the run "handoff" with no `handoff.requested`, one
  that answers `MAX_EXTERNAL_CALLS_EXCEEDED` ends it "failed" with no `run.failed`.
* Rule impacts: what the Creator Workbench tells of a rule's transitions
  (`rule-impact.ts`) and what the compilers do disagree for most rules, and
  `ImpactsAreTold` says exactly where. `Idle`: no rule of a request or approval
  configuration moves a transition, though the creator is told so of thirteen and
  four of them; `highRiskStrategy` "controls" `evaluate_policy -> human_review /
  rejected` (381-389), and the graph is a literal that reads no rule
  (`approval-decision-compiler.ts:43-92`, `request-resolution-compiler.ts:61-108`).
  The rules reach the metadata, declared actions, policy and other artifacts only.
  So do required fields and signals, the bounds on rounds and attempts, and the
  confidence threshold, which is in a guard nobody reads. `Elsewhere`: rules that
  move other states than the one named (a sensitive question is decided at
  `classify_question`; there is no `evaluate_policy`). `Besides`: rules that move
  more than the one named. `LeadsNowhere`: transitions named that no configuration
  has, to states that do not exist (`ask_more_info`, `fail_closed`, `answer`,
  `safe_answer`, `retry`) or that do (`collect_evidence -> rejected`,
  `detect_missing -> complete`, `classify_request -> handoff`). Of the rest, six
  rules in all, what is told is what happens.
* Compilers: `Unmet` lists compiled test cases that do not come true. The graphs of
  requests and approvals read none of their rules, so for these two kinds "as
  configured" in `AgentsDecideAsConfigured` adds nothing to the facts: with
  `autoApproveLowRisk` off, `low_risk` still leads to `auto_approved`
  (`approval-decision-compiler.ts:69,118`). A sensitive question ends
  "completed" with no handoff, since the knowledge agent's handoff state goes on to
  done. A pre-release profile version and a plan without routes pass the first
  validator and are refused by the second. `governance.unconfirmedFieldPolicy` is
  never read.
* Commands: the bundle index is written before the slots' files and a pack's
  report last; a forced compile leaves files of older plans; after a killed
  command a retry needs `--force`; relative `--out` is resolved against the
  workspace root by `compile` and against the current directory by the others.
* Pages: a manual run's evidence is shown as "ready" for whichever configuration is
  compiled next, and names the configuration of its click when another was sent to
  the editor while it ran (sending makes stale only what was there before); edits keep the shown answer; a lost recompile leaves the old
  answer sendable beside the error; an AI draft's diff is computed against the form
  of the click and applied to the form of the moment; the HTTP draft provider
  stops its timer when headers arrive.
* DSL and drafts: `otherwise` and bare `intent` work in Run Preview only, which
  corrupts the literal "intent"; names under `inputs` and `intents` that were
  given raw do not reach their canonical ones; aliases of one section overwrite
  one another silently; the validator ignores `on_enter`, `on_exit` and
  `entry_state`; an empty list default is read back as null; number-like names are
  written without quotes and refused on reading; the refund is created before the
  risk transition of its state is evaluated; rules of the form never reach the
  agent.

## 4. Fairness

* `Runtime`: weak fairness of `Step(r)` for each run. The continuation of an
  awaited promise is always scheduled; handlers are raced with a timer and
  retries wait on one, so an attempt always comes to an outcome. Nobody has to
  start or resume a run and a crash is never owed, so `Begin` and `Crash` are not
  fair.
* `SlotAdapter`: weak fairness of `Settle(k)` and `AnswerCaller(c)`. The Runtime
  behind a slot is bounded by its budgets and timeouts, and promise handlers run.
  Nobody has to call.
* `ScenarioEngine`: strong fairness of `Step(k)` and `AnswerCaller(c)`. A step is
  disabled while another execution has the turn; the queue of the event loop is
  first-in first-out, so a continuation that is ready again and again does run.
* `TraceRecorder`: weak fairness of what settles a call, for each run: a storage
  answers or rejects. Nobody has to append, flush or close.
* `AttemptRace`: weak fairness of the executor's steps (the timer fires), none of
  the handlers: they may never answer.

## 5. What is proved

All theorems hold for any sets of runs, actions, states, callers, keys, requests,
recorders and compositions that meet the named assumptions of the modules.

* `TypeCorrect` (`Runtime_proofs`): `Spec => []TypeOK`. `TypeOK` is not
  inductive: `CurrentAction(r)` is an action only while the index lies in the
  current list. `TypeInv` adds `Positioned`: a run that is executing an action is
  at a position of the list its job names. One lemma per group of actions.
* `ResultAlwaysMatchesTrace` (`Runtime_proofs`): `Spec => []ResultMatchesTrace`,
  for any agent, any policies and budgets, and any number of runs, resumed or
  concurrent. `ResultMatchesTrace` does not say what a run on its way to failure
  has reported: the code writes `handoff.requested` and the exceeded budget before
  it comes to the common exit, and every other failure there, unless its code says
  that this has been done. `ReportInv` keeps, per run (`Agrees`), that account, and
  `TookCode` that a run excepted for its handler's code has reported nothing. Where
  handlers answer no branched code there is no exception: one terminal event.
* `DeltasAlwaysMerged`, `EndedRunAlwaysLosesNothing` (`RuntimeStores_proofs`): with
  private stores (`~ SharedStore`), for any agent and any sequence of crashes and
  resumptions. `DeltaInv` adds that whatever a run's store or a snapshot's records
  bind is in the context of that run or snapshot, so that a replay reports only what
  the context already holds. `KeptInv` adds that every record of a run is under a
  key its context names, or about to name, so that the snapshot taken at the end,
  which copies the records of the keys it names, has them all.
* `LimitsAlwaysHold`, `PolicyCapAlwaysHolds` (`RuntimeStores_proofs`): for
  concurrent runs on any stores. That attempts are bounded per run and key is not
  inductive: a state may loop back to an action. `AttemptInv` says what the code
  relies on, that a key the run has tried is on record, or is being tried now, or
  was the run's last. `ChargeInv` and `BudgetInv` count what a run carries over its
  budget and that it carries it once; `CapInv` does so for a policy's cap.
* `KeysAlwaysStayBound` (`RuntimeStores_proofs`): for stores of one run each, or for
  a shared store and runs that follow one another (`StoresAreSafe`). `BoundInv` adds
  that the key a handler is called for is not on record, that at most one run is
  live when runs follow one another, and that what a snapshot records is still what
  the shared store holds, so that a resumption writes nothing new into it.
* `EffectsHappenOnce` (`RuntimeStores_proofs`): runs that follow one another on a
  shared store implement `EffectLedger`. An attempt is mapped to an attempt, a
  record to a completion, everything else to stuttering; `EffectInv` adds that a
  key is completed exactly when it is on record in the shared store, so that an
  action whose effect happened is always found there and replayed.
* `OneScenarioAlwaysPerKey`, `RunsAlwaysReportOnce`, `CallsAlwaysNest`,
  `EngineTypeCorrect` (`ScenarioEngine_proofs`): for any document the validator
  admits, any evaluators, budgets and callers. The invariant has six parts.
  `ShapeInv` says for each phase of an execution which slot its visits, its slot
  and its stack are at; none of them can be proved without the others. `FlowInv`
  ties ledger, results and the adapter's flag to the phase, `CallerInv` who waits to
  what the key is bound to. `InvokedInv` says that an execution which has not failed
  invoked its first slot as the owner of that key in the adapter's ledger, so two
  executions of one run and input cannot both complete. `ReportInv` says that the
  trace of a run has no terminal event before its end and ends with one, and that
  nobody else writes to it. Steps are then either quiet (they emit events that end
  nothing) or the last (`StepKinds`). The refinement of `MemoizedCalls` maps
  `StartScenario` to `Bind`, `EndScenario` to `Resolve`, `AnswerCaller` to `Give`.
* `AdapterKeepsPromise`, `FlagAlwaysMeansRunning`, `AdapterTypeCorrect`
  (`SlotParts_proofs`): the adapter implements `MemoizedCalls`, and its flag is
  set exactly while one Runtime works. `AdapterInv` adds that a key nobody
  brought carries nothing, that the handlers of a promise run after it settled,
  and that a caller who waits is waiting for its own request's execution. The
  refinement maps `StartInvocation` to `Bind`, the two refusals to
  `BindResolved`, `FinishInvocation` to `Resolve`, `AnswerCaller` to `Give` and
  the other steps to stuttering.
* `DispatchIsAlwaysToldOf` (`SlotParts_proofs`): for any number of actions and limits
  of an invocation. `DispatchInv` follows it stage by stage (`StageInv`): before the
  run nothing is begun; what is begun is classified and counted at its level before
  it can have an effect (`BegunInv`); a dispatch no handler was called for had none
  (`IdleInv`); and a result was made of these very counts and says `timed_out` if it
  left a handler at work (`ResultInv`), which is what holds once the handler goes on.
* `CreatedEnginesAlwaysInvoke` (`SlotParts_proofs`): for any slots, artifacts and
  changes by the host. What an invocation answers says nothing of the next one;
  `HeldInv` keeps, per slot, that what was found when the engine was created (the
  artifact is there, of the document's agent, with all its actions) still holds,
  except for what the host is marked to have undone since.
* `PackAlwaysSpeaksClearly` (`SlotParts_proofs`): for packs of any length. A pack is a
  sequence of rules (`PackInv`) and the evaluator takes the last that matches:
  `LastIsGreatest` names it, by a least-element argument (`LeastExists`),
  `AppendIsLast` and `MatchingAppend` say what a rule written at the end changes,
  `CapsOnlyTighten` that a cap once reached stays reached.
* `RulesAlwaysDecideTheirOwn` (`SlotParts_proofs`): for contracts of any length, over
  any known rules. What an accepted contract answers is what its one decisive rule
  says (`AcceptedIsDecided`), the demo's contract marks every outcome of the demo
  (`DemoIsMarked`), and an added rule that is outranked changes no answer
  (`OutrankedIsSilent`, `AddedIsRanked`).
* `OverlaysAlwaysKeepTheirPlace` (`SlotParts_proofs`): for any sequence of overlays.
  What the first overlay that stops says stands (`FirstStops`), so how strict the
  decision is depends only on which decisions there are (`StrictnessIs`): an overlay
  more never makes it laxer (`AppendedTightens`), and the order in which the document
  lists them does not matter (`OrderIsNothing`).
* `AlwaysLostOnlyByOverlap` (`SlotParts_proofs`): for any bindings, documents and
  returns. `TargetsHold` and `OthersKept` say, for each length of the list that has been
  applied, what each path written so far holds unless a later one overlaps it, and that
  what no path overlaps is as it was; `BindingsInv` ties the two to the return.
* `PartsKeepTheirTypes`, `PartsKeepTheirPromises` (`SlotParts_proofs`): for the parts of
  `MCSlotParts` together. `PartsBehave` shows that a behaviour of the run is one of
  every part, moving or standing still where it starts; the types and the eight
  safety properties of the run then follow from the theorems of the parts.
* `AnswersAlwaysCountOnce`, `RecordAlwaysEndsAttempts` (`RunRecords_proofs`): for
  any number of calls and attempts and however late handlers answer, one patch is
  merged and it is the one on record, and after a record no handler starts.
  `RaceInv` adds that a handler started and not reported is the awaited one, that
  an attempt told "ok" is the recorded one, and that a record ends its call.
* `RecorderKeepsLog`, `EventsAlwaysKept` (`RunRecords_proofs`): however runs share
  recorders and storages, `TraceRecorder` implements `EventLog`, and `EventsAreKept`
  holds. `RecorderInv` adds what the mapping needs: the buffer, the batches in
  flight, the storage and the losses hold no event twice, and all of them were
  emitted. That a run's events are stored in order is not inductive, since the order
  is made where they wait: `OrderInv` adds that an event waits in, or was taken from,
  the recorder of its own run (`HomeInv`), that an emitted event is somewhere and once
  stored nowhere else (`OnceInv`), and that whatever its run emitted before a waiting
  event has left the queue or is ahead of it (`InOrder`).
* `SnapshotsAreAlwaysKept` (`RunRecords_proofs`): for any processes on one file and
  any number of saves and ticks. That a returned save is there or raced is not
  inductive, as a save writes back what it read earlier: `ReadInv` says the same of
  what every save in progress has read. `MemoryInv` keeps the map's order; the
  comparator is shown to put one snapshot of a run first (`LatestIsFirst`).
* `SkillsAreAlwaysChecked` (`RunRecords_proofs`): for any skills, actions, attempts and
  edits. `Stage` says what an attempt knows at each step of its way. That a hidden
  effect is found out by the first answer needs `UneditedInv`: while no file is
  edited, every attempt of an action finds the directory `Where` names and the
  manifest there, the code a process imported is of that manifest's class, and each
  attempt was counted by the class its call had been told by then (`ClassAt`); so no
  later answer of the same call can take it back (`BelievesWhatItHeard`).
* `ContextAlwaysStands` (`RunRecords_proofs`): for any patches, fields and resumptions.
  The context rebuilt from a trace is followed patch by patch over its length; that a
  patch which was refused stays refused (`RefusalStands`) needs that a field keeps the
  type it once had (`TagsKept`).
* `TracesAlwaysTellRuns` (`RunRecords_proofs`): for any length of a run, any clock and
  any files of the viewer. `WrittenInv` is the grammar of what a run has written, line
  by line, with the times in order unless the clock was set back; `ToldInv` says what a
  bundle read first and a summary read later saw of it, a prefix each; `ViewInv` what
  the viewer shows while loads overtake one another. Sorting a file whose times are in
  order changes nothing (`SortedIsItself`, by the first place where it would), and the
  replay's steps stand on the frames' (`StepsStandOn`, by the first line that would
  part them).
* `RecordsKeepTheirTypes`, `RecordsKeepTheirPromises` (`RunRecords_proofs`): the same
  for the parts of `MCRunRecords`, by `RecordsBehave`. The types of the recorder and of
  the replay are claimed while their part moves.
* `WorkbenchAlwaysShowsSelection` (`Authoring_proofs`): for any catalog and any
  number of requests in flight. What is shown came from a request; so the
  invariant adds `FlightsAreOfSelection`, that a request on its way which was not
  overtaken asks for what is selected.
* `StudioAlwaysShowsWhatRan` (`Authoring_proofs`): for any texts. What a preview ran
  and what its evidence is about were fixed at the click, so the invariant follows
  them on their way: `EditorInv` says that what was inspected, held valid and compiled
  is the text in the buffer, or which edit since has parted them; `PreviewInv` the same
  of the preview in flight, as it was when it was clicked; `EvidenceInv` of its answer.
* `CreatorAlwaysShowsItsConfig` (`Authoring_proofs`): for any configurations and any
  number of previews in flight. `FlightsInv` says that a preview begun since the last
  selection is of the archetype on the desk and, unless an older answer has crossed
  it, the only such preview and waited for; `ShownIsResponse` that what is shown and
  sent is what the compiler answers, and that the manual run in flight is of what
  the editor holds or was overtaken by a Send. That no answer is ready needs the compiler
  itself: lemmas say when each list of issues holds an error (`PackErrors`,
  `ArchetypeErrors`, `PublishErrors`, `InputErrors`), that a compilation passes exactly
  when none does (`CompilePasses`), and what the gates then say (`GateLevels`).
* `CommandsAlwaysWriteWhole` (`Authoring_proofs`): for any number of compile
  commands, given anything, running over one another and dying anywhere.
  `WritesInOrder` says which files a command has written so far and that they are
  still its own unless it is said to be disturbed, `LooksBefore` that an unforced
  command which went on saw none of its files. What the property says of the
  compiler (`ConfigsAreJudged`) is proved of every configuration: publishing refuses
  all that a preview does (`PublishStricter`), readiness follows the compilation
  (`ReadinessFollows`), and a compilation fails closed (`CompilationFailsClosed`).
* `DraftsAlwaysMakeAgents` (`Authoring_proofs`): for any form the builder opens with, any
  tags and any drafts of a real provider. `DraftInv` says that an offer passed the gate
  and that its differences are those of the form as it was asked for, and stay so until
  somebody touches the form. Every form makes a valid agent (`SpecsAreValid`), which ends
  where the form says it does whatever it is asked (`AgentsKeepTheirForm`, by following
  the states an input leads through, `WalksAs`), and whose text reads as the agent it was
  written from (`TextsSayTheSame`).
* `AuthorsKeepTheirTypes`, `AuthorsKeepTheirPromises` (`Authoring_proofs`): for the parts
  of `MCAuthoring` together, by `AuthorsBehave`. What a part promises is claimed while it
  moves, where it may stand still in a state its own specification does not start in.
* `PlansAlwaysCompileWhole` (`Compilers_proofs`): for any slots, references, patterns
  and support contexts. `CompositionInv` says that a bundle is whole for the plan it
  was made of (`IsWhole`: the primary first, one slot per archetype, each from the
  configuration its index lists); that a host which supports more refuses nothing a
  lesser one compiles is proved of any plan, written or not.
* `DocumentsAreAlwaysSound` (`Compilers_proofs`): for any plans, profiles and composition
  results. What is compiled meets what the engine relies on, is of the plan as it is
  with all of its bindings, and is refused late only for what the first validator does
  not look at (`LateRefusalsAreOfDirection`). The proof found one such case that the
  instance does not hold: a route that invokes a terminal (`compile-profile.ts:56`
  compares it with the plan's route and not with the slots).
* `AgentsAlwaysDecide` (`Compilers_proofs`): for any configurations of the five
  archetypes. `AgentInv` says for each state of each compiled graph what a run knows
  and has done when it is there, `TrialInv` the same of the test case that is followed
  along; that no run is stuck is read off the graphs state by state.
* `ScenariosAlwaysTold` (`ScenarioEngine_proofs`): for any document, budgets and
  callers, of `ScenarioEvidence`. `SummaryInv` numbers the summaries of an execution by
  its budget (`Numbered`) and says of its trace that it began, and tells a failed slot
  exactly where an invocation has no summary; what the two validators accept follows.

Assumptions the theorems name besides those of the modules, and why the code
justifies them. `HandlersEchoKeys` (limits, keys, effects): a handler that answers
with a key answers with the one it was called with. The type allows another
(`ActionResult.idempotencyKey`), and `RuntimeHandlerKey` shows what then happens;
no handler of the repository's examples or tests answers with a key at all: keys
come from the policies of the documents or are derived (`idempotency.ts:31-45`).
`~ SharedStore`, `Serial` and `StoresAreSafe` say how the host wires runs and stores
(section 6). A cap of a pack is a number or missing (`ExternalCap`). Skills, their
directories and `Absent` are apart, and an action's `place` is a directory
(`FilesAssumption`). No text is `None`, and broken texts are texts
(`TextsAssumption`); each archetype starts from a configuration of its own, the desk
opens on "request", and no configuration or answer is `None` (`CreatorAssumption`,
`creator-state.ts:45-99`). Classified levels are of the contract's closed list
(`DispatchAssumption`), a slot declares some outcome and its rules have numbers for
priorities (`ProjectionAssumption`), an overlay says one of the decisions of its
type (`OverlayAssumption`), a pack's caps are numbers (`PackAssumption`).
Bounds of authors, hosts and clocks are numbers, and the values that stand for nothing
are no values (`ReplayAssumption`, `BindingsAssumption`, `ArtifactsAssumption`,
`OrchestratorAssumption`, `ReportsAssumption`); configurations have the fields of their
kind's schema (`AgentsAssumption`). A document opens with a name (`NamesAssumption`).
The form the builder opens with is one it accepts, and a tag names a provider the panel
has; two return windows and three sets of handoff rules, which nothing tells apart but
by equality, stand for all that is drafted (`DeskAssumption`).
`IsFiniteSet(Routes)` and `Unset` being no request, status or answer are part of
`ParameterAssumption` and `RequestAssumption` of `ScenarioEngine`.

How the proofs are laid out: the parts of an invariant are named, `...Inv`; a lemma
per action, or per group of actions that touch the same state, says what it does; a
lemma per part of the invariant splits on these; theorems are short. Lemmas about
single records (an execution's shape, a run's job) come first, so that the leaves
about a step speak of one record at a time. TLC checked every invariant as an
invariant of the runs before it was proved.

Only model-checked: liveness (`RunsEnd`, `CallersAnswered`, `ScenariosEnd`,
`EveryCallEnds`; TLAPS does not reason about fairness and ENABLED here), and
`WrittenIsMeant` but for its part about drafts.

## 6. Limits of the claims

* `EffectsOnce` is for runs that follow one another (`Serial`), with the same
  input and with keys known before the call (the two findings are what happens
  without either). Two concurrent runs of one lineage may both look a key up
  before either records it: the code has no lock, and claims none.
* `DeltasMerged` and `EndedRunLosesNothing` are for private stores. With a store
  that outlives a crash between record and checkpoint, a replay reports a patch
  that the restored context does not hold.
* `RunsReportOnce` compares reports for run identifiers that are not reused: trace
  and audit are kept by run id, results by idempotency key.
* `WorkbenchShowsSelection` and `CreatorShowsItsConfig` say nothing of answers
  whose request was overtaken by a selection: the pages show those as they come.
* Properties of compiled agents are of the agents' graphs with facts a handler
  may settle as it likes; amounts are on either side of a threshold.

Left out of the modelled components: wording, layout, translation and hashes
(which are model values); the parser of YAML but for how scalars are quoted;
argument parsing of the CLI; the bodies of HTTP requests; the redaction of
payloads; a resolver that throws (`execute-run.ts:838-866`); a current state
without a body (`execute-run.ts:425-445`); the adapter's audit and trace-parent
ledgers, written once per invocation; the check for an unavailable audit in the
engine, which the adapter never triggers. `PROJECT.json` says for each component
what is left.

Not modelled: the standard's types and JSON schemas, which have no behaviour; the
registries of patterns and archetypes, which are tables the compilers read
(`CompositionCompiler` takes a pattern as a constant); examples and conformance
files, which were read as documentation.

## 7. Plan

Done: the models and runs of sections 2 and 3, the theorems of section 5. Next: of
`WrittenIsMeant`, what canonicalising does to the names of a document, for any names.
