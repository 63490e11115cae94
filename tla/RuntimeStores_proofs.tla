------------------------ MODULE RuntimeStores_proofs ------------------------
(* Proofs about what the runs leave behind in the idempotency stores and in *)
(* the snapshots: that traces report merged patches only (DeltasMerged),    *)
(* that an ended run forgets no record (EndedRunLosesNothing), that keys do *)
(* not change hands (KeysStayBound), that attempts and external calls keep  *)
(* to their limits (LimitsHold), and that side effects happen once          *)
(* (EffectsOnce).                                                           *)
EXTENDS Runtime_proofs, FiniteSetTheorems

-----------------------------------------------------------------------------
(* What most steps leave alone.                                             *)

(* A snapshot that r may have taken of itself in this step.                 *)
TakenBy(r, s) == \E st \in RuntimeStatus \cup {"running"} : s = SnapshotOf(r, ctx'[r], st)

(* Phases of a run whose last action, if any, is accounted for.             *)
Between == {"loop", "guards", "action", "resolve", "leave"}

(* A step of r that calls no handler, records nothing, merges nothing and   *)
(* charges nothing. It may take a snapshot.                                 *)
QuietPhase(r) ==
  /\ phase[r] \in Live \/ (phase[r] = "unborn" /\ MayStart)
  /\ phase[r] \in {"attempt", "running", "account"} => phase'[r] = "crashed"
  /\ phase'[r] \in Phases \ {"unborn", "attempt", "running"}
  /\ phase'[r] \in Between => phase[r] \in Between \cup {"unborn"}
  /\ phase'[r] = "account" => phase[r] = "action" /\ job'[r].code = "failed"
  /\ phase'[r] = "crashed" => job'[r] = job[r]
  /\ phase'[r] = "done" => SnapshotOf(r, ctx'[r], status'[r]) \in snapshots'
  /\ job'[r].made \in {0, job[r].made}

QuietRest(r) ==
  /\ \A q \in Runs \ {r} : /\ phase'[q] = phase[q] /\ job'[q] = job[q]
                            /\ ctx'[q] = ctx[q] /\ status'[q] = status[q]
  /\ ctx'[r].calls = ctx[r].calls /\ ctx'[r].keys = ctx[r].keys
  /\ ctx'[r].context = ctx[r].context
  /\ UNCHANGED <<stores, invoked, completions>>

QuietTold(r) ==
  /\ \A q \in Runs : trace'[q].delta = trace[q].delta
  /\ snapshots \subseteq snapshots'
  /\ \A s \in snapshots' : s \in snapshots \/ TakenBy(r, s)

Quiet(r) == QuietPhase(r) /\ QuietRest(r) /\ QuietTold(r)

(* An event that carries no contextDelta adds no patch.                     *)
LEMMA EmitDeltas ==
  ASSUME TypeOK, NEW r \in Runs, NEW e, Emit(r, e)
  PROVE  \A q \in Runs : trace'[q].delta = trace[q].delta
<1>1. trace[r] \in Trace
  BY DEF TypeOK
<1>2. EventAdded(trace[r], e).delta = trace[r].delta
  BY <1>1 DEF EventAdded, Trace
<1> QED
  BY <1>2 DEF Emit, TypeOK

(* An event with the contextDelta of an action adds that one patch.         *)
LEMMA EmitDeltaDeltas ==
  ASSUME TypeOK, NEW r \in Runs, NEW a, EmitDelta(r, a)
  PROVE  \A q \in Runs : trace'[q].delta =
           IF q = r THEN trace[q].delta \cup {a} ELSE trace[q].delta
<1>1. trace[r] \in Trace
  BY DEF TypeOK
<1>2. EventAdded(trace[r], "action.succeeded").delta = trace[r].delta
  BY <1>1 DEF EventAdded, Trace
<1>3. EventAdded(trace[r], "action.succeeded") \in Trace
  BY <1>1 DEF EventAdded, Trace, EventTypes, TerminalEvents
<1>4. DeltaAdded(trace[r], a).delta = trace[r].delta \cup {a}
  BY <1>2, <1>3 DEF DeltaAdded, Trace
<1> QED
  BY <1>4 DEF EmitDelta, TypeOK

LoudStep(r) ==
  \/ \E s \in snapshots, i \in Inputs : ResumeRun(r, s, i)
  \/ ReplayAction(r) \/ BeginAttempts(r) \/ StartAttempt(r)
  \/ SucceedAttempt(r) \/ RefusePatch(r) \/ RetryAttempt(r) \/ FailAttempt(r)
  \/ AccountAction(r) \/ ExceedExternalCalls(r)

(* Every step but the resumption of a snapshot, the attempts of an action,  *)
(* its replay and its accounting is quiet.                                  *)
LEMMA QuietSteps ==
  ASSUME TypeInv, NEW r \in Runs, Begin(r) \/ Step(r) \/ Crash(r)
  PROVE  Quiet(r) \/ LoudStep(r)
<1>0. /\ TypeOK /\ ctx[r] \in Context /\ job[r] \in Job /\ phase[r] \in Phases
      /\ job[r].list \in {"on_enter", "actions", "on_exit"}
  BY DEF TypeInv, TypeOK, Job, ListNames
<1>1. ASSUME NEW i \in Inputs, NEW e \in EntryStates, StartRun(r, i, e) PROVE Quiet(r)
  <2>1. QuietPhase(r)
    BY <1>1, <1>0 DEF StartRun, QuietPhase, Goto, Conclude, Return, AtAction,
       Phases, Live, Between, TypeOK, FreshJob, Context, Job
  <2>2. QuietRest(r)
    BY <1>1, <1>0 DEF StartRun, QuietRest, Goto, Conclude, Return, TypeOK, Context
  <2>3. QuietTold(r)
    BY <1>1, <1>0, EmitDeltas DEF StartRun, QuietTold, Conclude, TypeOK
  <2> QED
    BY <2>1, <2>2, <2>3 DEF Quiet
<1>2. ASSUME NEW i \in Inputs, StartInvalid(r, i) PROVE Quiet(r)
  <2>1. QuietPhase(r)
    BY <1>2, <1>0 DEF StartInvalid, QuietPhase, Goto, Conclude, Return, AtAction,
       Phases, Live, Between, TypeOK, FreshJob, Context, Job
  <2>2. QuietRest(r)
    BY <1>2, <1>0 DEF StartInvalid, QuietRest, Goto, Conclude, Return, TypeOK, Context
  <2>3. QuietTold(r)
    BY <1>2, <1>0, EmitDeltas DEF StartInvalid, QuietTold, Conclude, TypeOK
  <2> QED
    BY <2>1, <2>2, <2>3 DEF Quiet
<1>3. ASSUME ExceedDuration(r) PROVE Quiet(r)
  <2>1. QuietPhase(r)
    BY <1>3, <1>0 DEF ExceedDuration, QuietPhase, Goto, Conclude, Return, AtAction,
       Phases, Live, Between, TypeOK, FreshJob, Context, Job
  <2>2. QuietRest(r)
    BY <1>3, <1>0 DEF ExceedDuration, QuietRest, Goto, Conclude, Return, TypeOK, Context
  <2>3. QuietTold(r)
    BY <1>3, <1>0, EmitDeltas DEF ExceedDuration, QuietTold, Conclude, TypeOK
  <2> QED
    BY <2>1, <2>2, <2>3 DEF Quiet
<1>4. ASSUME ExhaustSteps(r) PROVE Quiet(r)
  <2>1. QuietPhase(r)
    BY <1>4, <1>0 DEF ExhaustSteps, QuietPhase, Goto, Conclude, Return, AtAction,
       Phases, Live, Between, TypeOK, FreshJob, Context, Job
  <2>2. QuietRest(r)
    BY <1>4, <1>0 DEF ExhaustSteps, QuietRest, Goto, Conclude, Return, TypeOK, Context
  <2>3. QuietTold(r)
    BY <1>4, <1>0, EmitDeltas DEF ExhaustSteps, QuietTold, Conclude, TypeOK
  <2> QED
    BY <2>1, <2>2, <2>3 DEF Quiet
<1>5. ASSUME EnterState(r) PROVE Quiet(r)
  <2>1. QuietPhase(r)
    BY <1>5, <1>0 DEF EnterState, QuietPhase, Goto, Conclude, Return, AtAction,
       Phases, Live, Between, TypeOK, FreshJob, Context, Job
  <2>2. QuietRest(r)
    BY <1>5, <1>0 DEF EnterState, QuietRest, Goto, Conclude, Return, TypeOK, Context, Stepped
  <2>3. QuietTold(r)
    BY <1>5, <1>0, EmitDeltas DEF EnterState, QuietTold, Conclude, TypeOK, Stepped, Checkpoint, TakenBy
  <2> QED
    BY <2>1, <2>2, <2>3 DEF Quiet
<1>6. ASSUME FailGuards(r) PROVE Quiet(r)
  <2>1. QuietPhase(r)
    BY <1>6, <1>0 DEF FailGuards, QuietPhase, Goto, Conclude, Return, AtAction,
       Phases, Live, Between, TypeOK, FreshJob, Context, Job
  <2>2. QuietRest(r)
    BY <1>6, <1>0 DEF FailGuards, QuietRest, Goto, Conclude, Return, TypeOK, Context
  <2>3. QuietTold(r)
    BY <1>6, <1>0, EmitDeltas DEF FailGuards, QuietTold, Conclude, TypeOK
  <2> QED
    BY <2>1, <2>2, <2>3 DEF Quiet
<1>7. ASSUME PassGuards(r) PROVE Quiet(r)
  <2>1. QuietPhase(r)
    BY <1>7, <1>0 DEF PassGuards, QuietPhase, Goto, Conclude, Return, AtAction,
       Phases, Live, Between, TypeOK, FreshJob, Context, Job
  <2>2. QuietRest(r)
    BY <1>7, <1>0 DEF PassGuards, QuietRest, Goto, Conclude, Return, TypeOK, Context
  <2>3. QuietTold(r)
    BY <1>7, <1>0, EmitDeltas DEF PassGuards, QuietTold, Conclude, TypeOK
  <2> QED
    BY <2>1, <2>2, <2>3 DEF Quiet
<1>8. ASSUME FinishList(r) PROVE Quiet(r)
  <2>1. /\ phase[r] = "action" /\ ctx' = ctx /\ status' = status /\ trace' = trace
        /\ UNCHANGED <<stores, snapshots, invoked, completions>>
        /\ \/ phase' = phase
              /\ job' = [job EXCEPT ![r] = [@ EXCEPT !.list = "actions", !.idx = 1]]
           \/ phase' = [phase EXCEPT ![r] = "resolve"] /\ job' = job
           \/ phase' = [phase EXCEPT ![r] = "leave"] /\ job' = job
    BY <1>8, <1>0 DEF FinishList, Goto
  <2>2. job'[r].made = job[r].made
    <3> DEFINE j == [job[r] EXCEPT !.list = "actions", !.idx = 1]
    <3>1. j.made = job[r].made
      BY <1>0 DEF Job
    <3>2. job'[r] \in {job[r], j}
      BY <2>1, <1>0 DEF TypeOK
    <3> HIDE DEF j
    <3> QED
      BY <3>1, <3>2
  <2>3. phase'[r] \in {"action", "resolve", "leave"}
    BY <2>1, <1>0 DEF TypeOK
  <2>4. QuietPhase(r)
    BY <2>1, <2>2, <2>3 DEF QuietPhase, Phases, Live, Between
  <2>5. QuietRest(r) /\ QuietTold(r)
    BY <2>1, <1>0 DEF QuietRest, QuietTold, TypeOK
  <2> QED
    BY <2>4, <2>5 DEF Quiet
<1>9. ASSUME ResolveTransition(r) PROVE Quiet(r)
  <2>1. QuietPhase(r)
    BY <1>9, <1>0 DEF ResolveTransition, QuietPhase, Goto, Conclude, Return, AtAction,
       Phases, Live, Between, TypeOK, FreshJob, Context, Job
  <2>2. QuietRest(r)
    BY <1>9, <1>0 DEF ResolveTransition, QuietRest, Goto, Conclude, Return, TypeOK, Context
  <2>3. QuietTold(r)
    BY <1>9, <1>0, EmitDeltas DEF ResolveTransition, QuietTold, Conclude, TypeOK
  <2> QED
    BY <2>1, <2>2, <2>3 DEF Quiet
<1>10. ASSUME FailTransition(r) PROVE Quiet(r)
  <2>1. QuietPhase(r)
    BY <1>10, <1>0 DEF FailTransition, QuietPhase, Goto, Conclude, Return, AtAction,
       Phases, Live, Between, TypeOK, FreshJob, Context, Job
  <2>2. QuietRest(r)
    BY <1>10, <1>0 DEF FailTransition, QuietRest, Goto, Conclude, Return, TypeOK, Context
  <2>3. QuietTold(r)
    BY <1>10, <1>0, EmitDeltas DEF FailTransition, QuietTold, Conclude, TypeOK
  <2> QED
    BY <2>1, <2>2, <2>3 DEF Quiet
<1>11. ASSUME MoveOn(r) PROVE Quiet(r)
  <2>1. QuietPhase(r)
    BY <1>11, <1>0 DEF MoveOn, QuietPhase, Goto, Conclude, Return, AtAction,
       Phases, Live, Between, TypeOK, FreshJob, Context, Job
  <2>2. QuietRest(r)
    BY <1>11, <1>0 DEF MoveOn, QuietRest, Goto, Conclude, Return, TypeOK, Context
  <2>3. QuietTold(r)
    BY <1>11, <1>0, EmitDeltas DEF MoveOn, QuietTold, Conclude, TypeOK
  <2> QED
    BY <2>1, <2>2, <2>3 DEF Quiet
<1>12. ASSUME Stop(r) PROVE Quiet(r)
  <2>1. QuietPhase(r)
    BY <1>12, <1>0 DEF Stop, QuietPhase, Goto, Conclude, Return, AtAction,
       Phases, Live, Between, TypeOK, FreshJob, Context, Job
  <2>2. QuietRest(r)
    BY <1>12, <1>0 DEF Stop, QuietRest, Goto, Conclude, Return, TypeOK, Context
  <2>3. QuietTold(r)
    BY <1>12, <1>0, EmitDeltas DEF Stop, QuietTold, Conclude, TypeOK
  <2> QED
    BY <2>1, <2>2, <2>3 DEF Quiet
<1>13. ASSUME EndRun(r) PROVE Quiet(r)
  <2>1. QuietPhase(r)
    BY <1>13, <1>0 DEF EndRun, QuietPhase, Goto, Conclude, Return, AtAction,
       Phases, Live, Between, TypeOK, FreshJob, Context, Job
  <2>2. QuietRest(r)
    BY <1>13, <1>0 DEF EndRun, QuietRest, Goto, Conclude, Return, TypeOK, Context
  <2>3. QuietTold(r)
    BY <1>13, <1>0, EmitDeltas DEF EndRun, QuietTold, Conclude, TypeOK, Checkpoint, TakenBy
  <2> QED
    BY <2>1, <2>2, <2>3 DEF Quiet
<1>14. ASSUME DenyAction(r) PROVE Quiet(r)
  <2>1. QuietPhase(r)
    BY <1>14, <1>0 DEF DenyAction, QuietPhase, Goto, Conclude, Return, AtAction,
       Phases, Live, Between, TypeOK, FreshJob, Context, Job
  <2>2. QuietRest(r)
    BY <1>14, <1>0 DEF DenyAction, QuietRest, Goto, Conclude, Return, TypeOK, Context
  <2>3. QuietTold(r)
    BY <1>14, <1>0, EmitDeltas DEF DenyAction, QuietTold, Conclude, TypeOK
  <2> QED
    BY <2>1, <2>2, <2>3 DEF Quiet
<1>15. ASSUME HandOffAction(r) PROVE Quiet(r)
  <2>1. QuietPhase(r)
    BY <1>15, <1>0 DEF HandOffAction, QuietPhase, Goto, Conclude, Return, AtAction,
       Phases, Live, Between, TypeOK, FreshJob, Context, Job
  <2>2. QuietRest(r)
    BY <1>15, <1>0 DEF HandOffAction, QuietRest, Goto, Conclude, Return, TypeOK, Context
  <2>3. QuietTold(r)
    BY <1>15, <1>0, EmitDeltas DEF HandOffAction, QuietTold, Conclude, TypeOK
  <2> QED
    BY <2>1, <2>2, <2>3 DEF Quiet
<1>16. ASSUME ConflictAction(r) PROVE Quiet(r)
  <2>1. QuietPhase(r)
    BY <1>16, <1>0 DEF ConflictAction, QuietPhase, Goto, Conclude, Return, AtAction,
       Phases, Live, Between, TypeOK, FreshJob, Context, Job
  <2>2. QuietRest(r)
    BY <1>16, <1>0 DEF ConflictAction, QuietRest, Goto, Conclude, Return, TypeOK, Context
  <2>3. QuietTold(r)
    BY <1>16, <1>0, EmitDeltas DEF ConflictAction, QuietTold, Conclude, TypeOK
  <2> QED
    BY <2>1, <2>2, <2>3 DEF Quiet
<1>17. ASSUME RejectUnregistered(r) PROVE Quiet(r)
  <2>1. QuietPhase(r)
    BY <1>17, <1>0 DEF RejectUnregistered, QuietPhase, Goto, Conclude, Return, AtAction,
       Phases, Live, Between, TypeOK, FreshJob, Context, Job
  <2>2. QuietRest(r)
    BY <1>17, <1>0 DEF RejectUnregistered, QuietRest, Goto, Conclude, Return, TypeOK, Context
  <2>3. QuietTold(r)
    BY <1>17, <1>0, EmitDeltas DEF RejectUnregistered, QuietTold, Conclude, TypeOK
  <2> QED
    BY <2>1, <2>2, <2>3 DEF Quiet
<1>18. ASSUME FailRun(r) PROVE Quiet(r)
  <2>1. QuietPhase(r)
    BY <1>18, <1>0 DEF FailRun, QuietPhase, Goto, Conclude, Return, AtAction,
       Phases, Live, Between, TypeOK, FreshJob, Context, Job
  <2>2. QuietRest(r)
    BY <1>18, <1>0 DEF FailRun, QuietRest, Goto, Conclude, Return, TypeOK, Context
  <2>3. QuietTold(r)
    BY <1>18, <1>0, EmitDeltas DEF FailRun, QuietTold, Conclude, TypeOK
  <2> QED
    BY <2>1, <2>2, <2>3 DEF Quiet
<1>19. ASSUME Crash(r) PROVE Quiet(r)
  <2>1. QuietPhase(r)
    BY <1>19, <1>0 DEF Crash, QuietPhase, Goto, Conclude, Return, AtAction,
       Phases, Live, Between, TypeOK, FreshJob, Context, Job
  <2>2. QuietRest(r)
    BY <1>19, <1>0 DEF Crash, QuietRest, Goto, Conclude, Return, TypeOK, Context
  <2>3. QuietTold(r)
    BY <1>19, <1>0, EmitDeltas DEF Crash, QuietTold, Conclude, TypeOK
  <2> QED
    BY <2>1, <2>2, <2>3 DEF Quiet
<1> QED
  BY <1>1, <1>2, <1>3, <1>4, <1>5, <1>6, <1>7, <1>8, <1>9, <1>10, <1>11,
     <1>12, <1>13, <1>14, <1>15, <1>16, <1>17, <1>18, <1>19
  DEF Begin, Step, LoudStep

(* A step of r moves no other run and takes snapshots of r only; a run that *)
(* moves is active, or starts when it may.                                  *)
OnlyMoves(r) ==
  /\ \A q \in Runs \ {r} : phase'[q] = phase[q] /\ job'[q] = job[q] /\ ctx'[q] = ctx[q]
  /\ phase[r] \in Live \/ (phase[r] = "unborn" /\ MayStart)
  /\ phase'[r] # "unborn"
  /\ snapshots \subseteq snapshots'
  /\ \A s \in snapshots' :
       s \in snapshots \/ (TakenBy(r, s) /\ stores' = stores
                             /\ ctx'[r].context = ctx[r].context)

LEMMA StepsAreLocal ==
  ASSUME TypeInv, NEW r \in Runs, Quiet(r) \/ LoudStep(r)
  PROVE  OnlyMoves(r)
<1>0. TypeOK /\ ctx[r] \in Context
  BY DEF TypeInv, TypeOK
<1>1. CASE Quiet(r)
  BY <1>1 DEF Quiet, QuietPhase, QuietRest, QuietTold, OnlyMoves
<1>2. ASSUME NEW s \in snapshots, NEW i \in Inputs, ResumeRun(r, s, i)
      PROVE  OnlyMoves(r)
  BY <1>0, <1>2 DEF ResumeRun, Goto, TypeOK, OnlyMoves
<1>3. CASE ReplayAction(r) \/ BeginAttempts(r)
  BY <1>0, <1>3
  DEF ReplayAction, BeginAttempts, AtAction, Return, Goto, TypeOK, OnlyMoves, Live
<1>4. CASE StartAttempt(r) \/ RetryAttempt(r) \/ FailAttempt(r)
  BY <1>0, <1>4
  DEF StartAttempt, RetryAttempt, FailAttempt, Return, Goto, TypeOK, OnlyMoves, Live
<1>5. CASE SucceedAttempt(r) \/ RefusePatch(r)
  BY <1>0, <1>5
  DEF SucceedAttempt, RefusePatch, Return, Goto, TypeOK, OnlyMoves, Live
<1>6. CASE AccountAction(r) \/ ExceedExternalCalls(r)
  <2>1. Accounted(r).context = ctx[r].context
    BY <1>0 DEF Accounted, Context
  <2> QED
    BY <1>0, <1>6, <2>1
    DEF AccountAction, ExceedExternalCalls, Checkpoint, TakenBy, Goto, TypeOK,
        OnlyMoves, Live
<1> QED
  BY <1>1, <1>2, <1>3, <1>4, <1>5, <1>6 DEF LoudStep

(* Every step is one of a run, quiet or not, or a stuttering one.           *)
LEMMA StepOfSomeRun ==
  ASSUME TypeInv, [Next]_vars
  PROVE  \/ UNCHANGED vars
         \/ \E r \in Runs : (Quiet(r) \/ LoudStep(r)) /\ OnlyMoves(r)
BY QuietSteps, StepsAreLocal DEF Next

(* What a resumption puts into the store of the run that resumes.           *)
LEMMA ResumedRecords ==
  ASSUME TypeInv, NEW r \in Runs, NEW s \in snapshots, NEW i, ResumeRun(r, s, i)
  PROVE  /\ \A k \in Keys : RecordsOf(r)'[k] =
              IF s.records[k] # NoRecord THEN s.records[k] ELSE RecordsOf(r)[k]
         /\ \A id \in StoreIds \ {StoreOf(r)} : stores'[id] = stores[id]
<1>1. StoreOf(r) \in StoreIds
  BY DEF StoreOf, StoreIds
<1>2. stores' = [stores EXCEPT ![StoreOf(r)] =
        [k \in Keys |-> IF s.records[k] # NoRecord THEN s.records[k] ELSE @[k]]]
  BY DEF ResumeRun
<1> QED
  BY <1>1, <1>2 DEF RecordsOf, StoreOf, TypeInv, TypeOK

(* What an answer puts into it.                                             *)
LEMMA AnsweredRecords ==
  ASSUME TypeInv, NEW r \in Runs, SucceedAttempt(r)
  PROVE  LET a == CurrentAction(r)
             k == EffectiveKey(ctx[r], a)
         IN  /\ a \in Actions /\ k \in Keys
             /\ UsesIdempotency(a) => \A j \in Keys :
                  RecordsOf(r)'[j] = IF j = k THEN a ELSE RecordsOf(r)[j]
             /\ ~ UsesIdempotency(a) => stores' = stores
             /\ \A id \in StoreIds \ {StoreOf(r)} : stores'[id] = stores[id]
<1> DEFINE a == CurrentAction(r)
           k == EffectiveKey(ctx[r], a)
<1>1. a \in Actions /\ k \in Keys
  BY CurrentActionType, KeyForType DEF SucceedAttempt, Positioned, TypeInv, TypeOK
<1>2. IF UsesIdempotency(a) THEN stores' = [stores EXCEPT ![StoreOf(r)][k] = a]
                             ELSE stores' = stores
  BY DEF SucceedAttempt
<1>3. StoreOf(r) \in StoreIds /\ stores[StoreOf(r)] \in Store
  BY DEF StoreOf, StoreIds, TypeInv, TypeOK
<1> HIDE DEF a, k
<1>4. UsesIdempotency(a) =>
        \A j \in Keys : stores'[StoreOf(r)][j] =
                          IF j = k THEN a ELSE stores[StoreOf(r)][j]
  BY <1>1, <1>2, <1>3 DEF Store, TypeInv, TypeOK
<1>5. \A id \in StoreIds \ {StoreOf(r)} : stores'[id] = stores[id]
  BY <1>2, <1>3 DEF TypeInv, TypeOK
<1>6. RecordsOf(r) = stores[StoreOf(r)] /\ RecordsOf(r)' = stores'[StoreOf(r)]
  BY DEF RecordsOf, StoreOf
<1> QED
  BY <1>1, <1>2, <1>4, <1>5, <1>6 DEF a, k

(* The steps that write to a store are these two.                           *)
LEMMA OthersStoreNothing ==
  ASSUME NEW r \in Runs, Quiet(r) \/ LoudStep(r)
  PROVE  \/ \E s \in snapshots, i \in Inputs : ResumeRun(r, s, i)
         \/ SucceedAttempt(r)
         \/ stores' = stores /\ completions' = completions
BY DEF Quiet, QuietRest, LoudStep, ReplayAction, BeginAttempts, StartAttempt,
   RefusePatch, RetryAttempt, FailAttempt, AccountAction, ExceedExternalCalls

(* A record is never removed from a store.                                  *)
LEMMA RecordsGrow ==
  ASSUME TypeInv, NEW r \in Runs, Quiet(r) \/ LoudStep(r)
  PROVE  \A q \in Runs, k \in Keys :
           RecordsOf(q)[k] # NoRecord => RecordsOf(q)'[k] # NoRecord
<1>1. ASSUME NEW s \in snapshots, NEW i \in Inputs, ResumeRun(r, s, i),
             NEW q \in Runs, NEW k \in Keys, RecordsOf(q)[k] # NoRecord
      PROVE  RecordsOf(q)'[k] # NoRecord
  BY <1>1, ResumedRecords DEF RecordsOf, StoreOf, StoreIds
<1>2. ASSUME SucceedAttempt(r), NEW q \in Runs, NEW k \in Keys,
             RecordsOf(q)[k] # NoRecord
      PROVE  RecordsOf(q)'[k] # NoRecord
  <2>1. CurrentAction(r) # NoRecord
    BY <1>2, AnsweredRecords, NullAssumption
  <2> QED
    BY <1>2, <2>1, AnsweredRecords DEF RecordsOf, StoreOf, StoreIds
<1>3. CASE stores' = stores
  BY <1>3 DEF RecordsOf
<1> QED
  BY <1>1, <1>2, <1>3, OthersStoreNothing

-----------------------------------------------------------------------------
(* DeltasMerged.                                                            *)

(* Where the patches an idempotency record reports come from: as long as    *)
(* every run has a store of its own, what a store or a snapshot records as  *)
(* completed is in the context next to it.                                  *)
DeltaInv ==
  /\ DeltasMerged
  /\ \A r \in Runs, k \in Keys :
       RecordsOf(r)[k] # NoRecord => RecordsOf(r)[k] \in ctx[r].context
  /\ \A s \in snapshots, k \in Keys :
       s.records[k] # NoRecord => s.records[k] \in s.context
  /\ \A r \in Runs : phase[r] = "unborn" =>
       trace[r].delta = {} /\ \A k \in Keys : RecordsOf(r)[k] = NoRecord

(* The patches and the records of one run.                                  *)
Merged(r) ==
  /\ trace[r].delta \subseteq ctx[r].context
  /\ \A k \in Keys : RecordsOf(r)[k] # NoRecord => RecordsOf(r)[k] \in ctx[r].context

(* A step of r keeps them if it does for r itself: its snapshots record     *)
(* what its context has merged.                                             *)
LEMMA MergedStep ==
  ASSUME ~ SharedStore, TypeInv, DeltaInv, NEW r \in Runs, OnlyMoves(r), Merged(r)',
         \A q \in Runs \ {r} : /\ RecordsOf(q)' = RecordsOf(q)
                               /\ trace'[q].delta = trace[q].delta
  PROVE  DeltaInv'
<1>1. \A q \in Runs : Merged(q)'
  BY DEF OnlyMoves, Merged, DeltaInv, DeltasMerged
<1>2. \A s \in snapshots', k \in Keys :
        s.records[k] # NoRecord => s.records[k] \in s.context
  BY DEF OnlyMoves, TakenBy, SnapshotOf, DeltaInv
<1>3. \A q \in Runs : phase'[q] = "unborn" =>
        trace'[q].delta = {} /\ \A k \in Keys : RecordsOf(q)'[k] = NoRecord
  BY DEF OnlyMoves, DeltaInv
<1> QED
  BY <1>1, <1>2, <1>3 DEF Merged, DeltaInv, DeltasMerged

(* Every step keeps the reported patches, the records of private stores and *)
(* of snapshots within the contexts they belong to.                         *)
LEMMA DeltaStep ==
  ASSUME ~ SharedStore, TypeInv, DeltaInv, [Next]_vars
  PROVE  DeltaInv'
<1>0. /\ TypeOK /\ \A q \in Runs : Merged(q) /\ ctx[q] \in Context
      /\ \A q \in Runs : StoreOf(q) = q /\ q \in StoreIds
  BY DEF TypeInv, TypeOK, DeltaInv, DeltasMerged, Merged, StoreOf, StoreIds
<1>1. ASSUME NEW r \in Runs, Quiet(r), OnlyMoves(r) PROVE DeltaInv'
  <2>1. /\ \A q \in Runs : /\ RecordsOf(q)' = RecordsOf(q)
                           /\ trace'[q].delta = trace[q].delta
        /\ ctx'[r].context = ctx[r].context
    BY <1>1 DEF Quiet, QuietRest, QuietTold, RecordsOf
  <2>2. Merged(r)'
    BY <1>0, <2>1 DEF Merged
  <2> QED
    BY <1>1, <2>1, <2>2, MergedStep
<1>2. ASSUME NEW r \in Runs, OnlyMoves(r), NEW s \in snapshots, NEW i \in Inputs,
             ResumeRun(r, s, i)
      PROVE  DeltaInv'
  <2>1. /\ \A k \in Keys : RecordsOf(r)[k] = NoRecord
        /\ trace[r].delta = {}
    BY <1>2 DEF ResumeRun, DeltaInv
  <2>2. /\ \A k \in Keys : RecordsOf(r)'[k] = s.records[k]
        /\ \A q \in Runs \ {r} : RecordsOf(q)' = RecordsOf(q)
    BY <1>0, <1>2, <2>1, ResumedRecords DEF RecordsOf
  <2>3. ctx'[r].context = s.context
    BY <1>0, <1>2 DEF ResumeRun, Restored, TypeOK
  <2>4. \A q \in Runs : trace'[q].delta = trace[q].delta
    BY <1>0, <1>2, EmitDeltas DEF ResumeRun
  <2>5. Merged(r)'
    BY <2>1, <2>2, <2>3, <2>4 DEF Merged, DeltaInv
  <2> QED
    BY <1>2, <2>2, <2>4, <2>5, MergedStep
<1>3. ASSUME NEW r \in Runs, OnlyMoves(r), ReplayAction(r) PROVE DeltaInv'
  <2> DEFINE a == CurrentAction(r)
  <2>1. a \in Actions /\ KeyFor(ctx[r], a) \in Keys
    BY <1>0, <1>3, CurrentActionType, KeyForType DEF ReplayAction, AtAction
  <2>2. RecordsOf(r)[KeyFor(ctx[r], a)] = a
    BY <1>3, <2>1, NullAssumption DEF ReplayAction, ExistingRecord
  <2>3. EmitDelta(r, a) /\ ctx' = ctx /\ stores' = stores
    BY <1>3 DEF ReplayAction
  <2> HIDE DEF a
  <2>4. a \in ctx[r].context
    BY <1>0, <2>1, <2>2, NullAssumption DEF Merged
  <2>5. \A q \in Runs : trace'[q].delta =
          IF q = r THEN trace[q].delta \cup {a} ELSE trace[q].delta
    BY <1>0, <2>3, EmitDeltaDeltas
  <2>6. \A q \in Runs : RecordsOf(q)' = RecordsOf(q)
    BY <2>3 DEF RecordsOf
  <2>7. Merged(r)'
    BY <1>0, <2>3, <2>4, <2>5, <2>6 DEF Merged
  <2> QED
    BY <1>3, <2>5, <2>6, <2>7, MergedStep
<1>4. ASSUME NEW r \in Runs, OnlyMoves(r), SucceedAttempt(r) PROVE DeltaInv'
  <2> DEFINE a == CurrentAction(r)
  <2>1. /\ \A j \in Keys : RecordsOf(r)'[j] \in {RecordsOf(r)[j], a}
        /\ \A q \in Runs \ {r} : RecordsOf(q)' = RecordsOf(q)
    BY <1>0, <1>4, AnsweredRecords DEF RecordsOf
  <2>2. ctx' = [ctx EXCEPT ![r].context = @ \cup {a}] /\ EmitDelta(r, a)
    BY <1>4 DEF SucceedAttempt
  <2> HIDE DEF a
  <2>3. ctx'[r].context = ctx[r].context \cup {a}
    BY <1>0, <2>2 DEF TypeOK, Context
  <2>4. \A q \in Runs : trace'[q].delta =
          IF q = r THEN trace[q].delta \cup {a} ELSE trace[q].delta
    BY <1>0, <2>2, EmitDeltaDeltas
  <2>5. Merged(r)'
    BY <1>0, <2>1, <2>3, <2>4 DEF Merged
  <2> QED
    BY <1>4, <2>1, <2>4, <2>5, MergedStep
<1>5. ASSUME NEW r \in Runs, OnlyMoves(r),
             \/ BeginAttempts(r) \/ StartAttempt(r) \/ RefusePatch(r)
             \/ RetryAttempt(r) \/ FailAttempt(r)
             \/ AccountAction(r) \/ ExceedExternalCalls(r)
      PROVE  DeltaInv'
  <2>1. \A q \in Runs : trace'[q].delta = trace[q].delta
    BY <1>0, <1>5, EmitDeltas
    DEF BeginAttempts, StartAttempt, RefusePatch, RetryAttempt, FailAttempt,
        AccountAction, ExceedExternalCalls
  <2>2. \A q \in Runs : RecordsOf(q)' = RecordsOf(q)
    BY <1>5 DEF BeginAttempts, StartAttempt, RefusePatch, RetryAttempt, FailAttempt,
        AccountAction, ExceedExternalCalls, RecordsOf
  <2>3. ctx[r].context \subseteq ctx'[r].context
    <3>1. CASE RefusePatch(r)
      BY <1>0, <3>1 DEF RefusePatch, TypeOK, Context
    <3>2. CASE AccountAction(r) \/ ExceedExternalCalls(r)
      <4>1. Accounted(r).context = ctx[r].context
        BY <1>0 DEF Accounted, Context
      <4> QED
        BY <1>0, <3>2, <4>1 DEF AccountAction, ExceedExternalCalls, TypeOK
    <3>3. CASE BeginAttempts(r) \/ StartAttempt(r) \/ RetryAttempt(r) \/ FailAttempt(r)
      BY <3>3 DEF BeginAttempts, StartAttempt, RetryAttempt, FailAttempt
    <3> QED
      BY <1>5, <3>1, <3>2, <3>3
  <2>4. Merged(r)'
    BY <1>0, <2>1, <2>2, <2>3 DEF Merged
  <2> QED
    BY <1>5, <2>1, <2>2, <2>4, MergedStep
<1>6. CASE UNCHANGED vars
  BY <1>6 DEF vars, DeltaInv, DeltasMerged, RecordsOf
<1> QED
  BY <1>1, <1>2, <1>3, <1>4, <1>5, <1>6, StepOfSomeRun DEF LoudStep

(* Where every run has an idempotency store of its own, a trace never        *)
(* reports a patch that is not in the context of the run, whatever is        *)
(* resumed from whatever snapshot.                                           *)
THEOREM DeltasAlwaysMerged ==
  ASSUME ~ SharedStore
  PROVE  Spec => []DeltasMerged
<1>1. Init => DeltaInv
  BY DEF Init, DeltaInv, DeltasMerged, RecordsOf, StoreOf, StoreIds, EmptyStore
<1>2. TypeInv /\ DeltaInv /\ [Next]_vars => DeltaInv'
  BY DeltaStep
<1>3. DeltaInv => DeltasMerged
  BY DEF DeltaInv
<1> QED
  BY <1>1, <1>2, <1>3, TypeInit, TypeStep, PTL DEF Spec

-----------------------------------------------------------------------------
(* EndedRunLosesNothing.                                                    *)

(* Every record of a private store is under a key the run context names, or *)
(* under the one that is about to be accounted for; every record of a       *)
(* snapshot is under a key the snapshot names.                              *)
Named(r) ==
  \A k \in Keys : RecordsOf(r)[k] # NoRecord =>
    \/ k \in ctx[r].keys
    \/ phase[r] \in {"account", "crashed"} /\ job[r].key = k

LosesNothing(r) ==
  phase[r] = "done" =>
    \E s \in snapshots : /\ s.run = r /\ s.status = status[r]
                         /\ s.records = RecordsOf(r)
                         /\ s.context = ctx[r].context

KeptInv ==
  /\ \A r \in Runs : /\ Named(r) /\ LosesNothing(r)
                     /\ phase[r] = "unborn" => \A k \in Keys : RecordsOf(r)[k] = NoRecord
  /\ \A s \in snapshots, k \in Keys : s.records[k] # NoRecord => k \in s.keys

LEMMA KeptStep ==
  ASSUME ~ SharedStore, TypeInv, KeptInv, [Next]_vars
  PROVE  KeptInv'
<1>0. /\ TypeOK /\ \A q \in Runs : Named(q) /\ LosesNothing(q)
      /\ \A q \in Runs : ctx[q] \in Context /\ job[q] \in Job /\ RecordsOf(q) \in Store
      /\ \A q \in Runs : StoreOf(q) = q /\ q \in StoreIds
  BY DEF TypeInv, TypeOK, KeptInv, StoreOf, StoreIds, RecordsOf
(* The other runs, and the snapshots, are as before.                        *)
<1>1. ASSUME NEW r \in Runs, OnlyMoves(r), Named(r)', LosesNothing(r)',
             \A q \in Runs \ {r} : RecordsOf(q)' = RecordsOf(q) /\ status'[q] = status[q]
      PROVE  KeptInv'
  <2>1. \A q \in Runs : Named(q)'
    BY <1>0, <1>1 DEF OnlyMoves, Named
  <2>2. \A q \in Runs : LosesNothing(q)'
    BY <1>0, <1>1 DEF OnlyMoves, LosesNothing
  <2>3. \A q \in Runs : phase'[q] = "unborn" => \A k \in Keys : RecordsOf(q)'[k] = NoRecord
    BY <1>1 DEF OnlyMoves, KeptInv
  <2>4. \A s \in snapshots', k \in Keys : s.records[k] # NoRecord => k \in s.keys
    BY <1>1 DEF OnlyMoves, TakenBy, SnapshotOf, KeptInv
  <2> QED
    BY <2>1, <2>2, <2>3, <2>4 DEF KeptInv
<1>2. ASSUME NEW r \in Runs, Quiet(r), OnlyMoves(r) PROVE KeptInv'
  <2>1. /\ \A q \in Runs : RecordsOf(q)' = RecordsOf(q)
        /\ \A q \in Runs \ {r} : status'[q] = status[q]
        /\ ctx'[r].keys = ctx[r].keys /\ ctx'[r].context = ctx[r].context
    BY <1>2 DEF Quiet, QuietRest, RecordsOf
  <2>2. \A k \in Keys : RecordsOf(r)[k] # NoRecord =>
          \/ k \in ctx[r].keys
          \/ phase'[r] = "crashed" /\ job'[r].key = k
    BY <1>0, <1>2 DEF Named, Quiet, QuietPhase, Live
  <2>3. Named(r)'
    BY <2>1, <2>2 DEF Named
  <2>4. ASSUME phase'[r] = "done" PROVE LosesNothing(r)'
    <3> DEFINE s == SnapshotOf(r, ctx'[r], status'[r])
    <3>1. s \in snapshots' /\ s.run = r /\ s.status = status'[r]
          /\ s.context = ctx'[r].context
      BY <1>2, <2>4 DEF Quiet, QuietPhase, SnapshotOf
    <3>2. \A k \in Keys : RecordsOf(r)[k] # NoRecord => k \in ctx'[r].keys
      BY <2>1, <2>2, <2>4
    <3>3. s.records = [k \in Keys |-> IF k \in ctx'[r].keys THEN RecordsOf(r)[k]
                                                           ELSE NoRecord]
      BY DEF SnapshotOf
    <3>4. s.records = RecordsOf(r)
      BY <1>0, <3>2, <3>3 DEF Store
    <3> HIDE DEF s
    <3> QED
      BY <2>1, <3>1, <3>4 DEF LosesNothing
  <2>5. LosesNothing(r)'
    BY <2>4 DEF LosesNothing
  <2> QED
    BY <1>1, <1>2, <2>1, <2>3, <2>5
<1>3. ASSUME NEW r \in Runs, OnlyMoves(r), NEW s \in snapshots, NEW i \in Inputs,
             ResumeRun(r, s, i)
      PROVE  KeptInv'
  <2>1. \A k \in Keys : RecordsOf(r)[k] = NoRecord
    BY <1>3 DEF ResumeRun, KeptInv
  <2>2. /\ \A k \in Keys : RecordsOf(r)'[k] = s.records[k]
        /\ \A q \in Runs \ {r} : RecordsOf(q)' = RecordsOf(q)
    BY <1>0, <1>3, <2>1, ResumedRecords DEF RecordsOf
  <2>3. ctx'[r].keys = s.keys /\ phase'[r] = "loop" /\ status' = status
    BY <1>0, <1>3 DEF ResumeRun, Restored, Goto, TypeOK
  <2>4. Named(r)' /\ LosesNothing(r)'
    BY <2>2, <2>3 DEF Named, LosesNothing, KeptInv
  <2> QED
    BY <1>1, <1>3, <2>2, <2>3, <2>4
<1>4. ASSUME NEW r \in Runs, OnlyMoves(r), SucceedAttempt(r) PROVE KeptInv'
  <2> DEFINE k == EffectiveKey(ctx[r], CurrentAction(r))
  <2>1. /\ \A j \in Keys : RecordsOf(r)'[j] # NoRecord => RecordsOf(r)[j] # NoRecord \/ j = k
        /\ \A q \in Runs \ {r} : RecordsOf(q)' = RecordsOf(q)
    BY <1>0, <1>4, AnsweredRecords DEF RecordsOf
  <2>2. phase[r] = "running" /\ Return(r, "ok", k) /\ status' = status
    BY <1>4 DEF SucceedAttempt
  <2>3. ctx'[r].keys = ctx[r].keys
    BY <1>0, <1>4 DEF SucceedAttempt, TypeOK, Context
  <2> HIDE DEF k
  <2>4. phase'[r] = "account" /\ job'[r].key = k
    BY <1>0, <2>2 DEF Return, Goto, TypeOK, Job
  <2>5. Named(r)' /\ LosesNothing(r)'
    BY <1>0, <2>1, <2>2, <2>3, <2>4 DEF Named, LosesNothing
  <2> QED
    BY <1>1, <1>4, <2>1, <2>2, <2>5
<1>5. ASSUME NEW r \in Runs, OnlyMoves(r),
             \/ ReplayAction(r) \/ BeginAttempts(r) \/ StartAttempt(r)
             \/ RefusePatch(r) \/ RetryAttempt(r) \/ FailAttempt(r)
      PROVE  KeptInv'
  <2>1. stores' = stores /\ status' = status /\ phase[r] \in {"action", "attempt", "running"}
    BY <1>5 DEF ReplayAction, BeginAttempts, StartAttempt, RefusePatch, RetryAttempt,
         FailAttempt, AtAction
  <2>2. ctx'[r].keys = ctx[r].keys /\ phase'[r] # "done"
    <3>1. ctx' = ctx \/ ctx' = [ctx EXCEPT ![r].context = @ \cup {CurrentAction(r)}]
      BY <1>5 DEF ReplayAction, BeginAttempts, StartAttempt, RefusePatch,
           RetryAttempt, FailAttempt
    <3>2. phase'[r] \in {"attempt", "running", "account"}
      BY <1>0, <1>5 DEF ReplayAction, BeginAttempts, StartAttempt, RefusePatch,
           RetryAttempt, FailAttempt, Return, Goto, TypeOK
    <3> QED
      BY <1>0, <3>1, <3>2 DEF TypeOK, Context
  <2>3. \A q \in Runs : RecordsOf(q)' = RecordsOf(q)
    BY <2>1 DEF RecordsOf
  <2>4. Named(r)' /\ LosesNothing(r)'
    BY <1>0, <2>1, <2>2, <2>3 DEF Named, LosesNothing
  <2> QED
    BY <1>1, <1>5, <2>1, <2>3, <2>4
<1>6. ASSUME NEW r \in Runs, OnlyMoves(r), AccountAction(r) \/ ExceedExternalCalls(r)
      PROVE  KeptInv'
  <2>1. /\ stores' = stores /\ status' = status /\ phase[r] = "account"
        /\ ctx' = [ctx EXCEPT ![r] = Accounted(r)] /\ phase'[r] # "done"
    BY <1>0, <1>6 DEF AccountAction, ExceedExternalCalls, Goto, TypeOK
  <2>2. \A k \in Keys : k \in ctx'[r].keys <=> k \in ctx[r].keys \/ k = job[r].key
    <3>1. Accounted(r).keys = ctx[r].keys \cup ({job[r].key} \ {NoKey})
      BY <1>0 DEF Accounted, Context
    <3>2. NoKey \notin Keys
      BY NullAssumption DEF Keys
    <3> QED
      BY <1>0, <2>1, <3>1, <3>2 DEF TypeOK
  <2>3. \A q \in Runs : RecordsOf(q)' = RecordsOf(q)
    BY <2>1 DEF RecordsOf
  <2>4. Named(r)' /\ LosesNothing(r)'
    BY <1>0, <2>1, <2>2, <2>3 DEF Named, LosesNothing
  <2> QED
    BY <1>1, <1>6, <2>1, <2>3, <2>4
<1>7. CASE UNCHANGED vars
  BY <1>7 DEF vars, KeptInv, Named, LosesNothing, RecordsOf
<1> QED
  BY <1>2, <1>3, <1>4, <1>5, <1>6, <1>7, StepOfSomeRun DEF LoudStep

(* Where every run has a store of its own, a snapshot of an ended run holds *)
(* every record of its store, however the run came by it: whoever resumes   *)
(* it with a new store has forgotten no completed side effect.              *)
THEOREM EndedRunAlwaysLosesNothing ==
  ASSUME ~ SharedStore
  PROVE  Spec => []EndedRunLosesNothing
<1>1. Init => KeptInv
  BY DEF Init, KeptInv, Named, LosesNothing, RecordsOf, StoreOf, StoreIds, EmptyStore
<1>2. TypeInv /\ KeptInv /\ [Next]_vars => KeptInv'
  BY KeptStep
<1>3. KeptInv => EndedRunLosesNothing
  BY DEF KeptInv, LosesNothing, EndedRunLosesNothing
<1> QED
  BY <1>1, <1>2, <1>3, TypeInit, TypeStep, PTL DEF Spec

-----------------------------------------------------------------------------
(* LimitsHold: attempts.                                                    *)

(* A handler that answers with a key answers with the one it was called     *)
(* with; with another one an action is looked up under a key it is never    *)
(* recorded under.                                                          *)
HandlersEchoKeys == \A a \in Actions : SuppliedKey[a] \in {NoKey, ExplicitKey[a]}

LEMMA EchoedKey ==
  ASSUME HandlersEchoKeys, NEW c, NEW a \in Actions
  PROVE  EffectiveKey(c, a) = KeyFor(c, a)
BY AgentAssumption DEF HandlersEchoKeys, EffectiveKey, KeyFor

(* The key whose handler r is calling, if any.                              *)
Open(r) ==
  IF phase[r] \in {"attempt", "running"} /\ UsesIdempotency(CurrentAction(r))
  THEN {KeyFor(ctx[r], CurrentAction(r))} ELSE {}

(* r may come to look for an action again.                                  *)
Moving(r) ==
  \/ phase[r] \in Between \cup {"attempt", "running"}
  \/ phase[r] = "account" /\ job[r].code = "ok"

(* While a run may come to look for an action again, every key it has       *)
(* called a handler for is on record, but the one it is calling for now;    *)
(* for that one it has called it once per attempt.                          *)
Counted(r) ==
  /\ \A k \in Keys : invoked[r][k] <= MaxAttempts
  /\ phase[r] = "unborn" => \A k \in Keys : invoked[r][k] = 0
  /\ Moving(r) => \A k \in Keys \ Open(r) :
                    invoked[r][k] > 0 => RecordsOf(r)[k] # NoRecord
  /\ phase[r] \in {"attempt", "running"} => job[r].attempt \in 1 .. MaxAttempts
  /\ \A k \in Open(r) : /\ phase[r] = "attempt" => invoked[r][k] = job[r].attempt - 1
                        /\ phase[r] = "running" => invoked[r][k] = job[r].attempt

AttemptInv == \A r \in Runs : Counted(r)

(* The action of a run that stays at its place is the same.                 *)
LEMMA SameAction ==
  ASSUME NEW r \in Runs, ctx'[r] = ctx[r], job'[r].list = job[r].list,
         job'[r].idx = job[r].idx
  PROVE  /\ CurrentAction(r)' = CurrentAction(r)
         /\ KeyFor(ctx[r], CurrentAction(r))' = KeyFor(ctx[r], CurrentAction(r))
BY DEF CurrentAction, CurrentList, KeyFor

(* What the steps between the attempts of an action do to its run.          *)
LEMMA AttemptSteps ==
  ASSUME TypeInv, NEW r \in Runs
  PROVE  LET a == CurrentAction(r)
             sameAction == /\ CurrentAction(r)' = a
                           /\ KeyFor(ctx[r], a)' = KeyFor(ctx[r], a)
                           /\ ctx' = ctx /\ stores' = stores
         IN  /\ BeginAttempts(r) =>
                  /\ sameAction /\ phase[r] = "action" /\ phase'[r] = "attempt"
                  /\ a \in Actions /\ Decision(r, a) = "allow"
                  /\ UsesIdempotency(a) => RecordsOf(r)[KeyFor(ctx[r], a)] = NoRecord
                  /\ job'[r].attempt = 1 /\ job'[r].made = 0
                  /\ invoked' = invoked /\ completions' = completions
             /\ StartAttempt(r) =>
                  /\ sameAction /\ phase[r] = "attempt" /\ phase'[r] = "running"
                  /\ a \in Actions /\ job'[r].attempt = job[r].attempt
                  /\ job'[r].made = IF SideEffect[a] = "external" THEN job[r].made + 1
                                                                  ELSE job[r].made
                  /\ invoked' = IF UsesIdempotency(a)
                                THEN [invoked EXCEPT ![r][KeyFor(ctx[r], a)] = @ + 1]
                                ELSE invoked
                  /\ completions' = completions
             /\ RetryAttempt(r) =>
                  /\ sameAction /\ phase[r] = "running" /\ phase'[r] = "attempt"
                  /\ a \in Actions /\ job[r].attempt < MaxAttempts
                  /\ job'[r].attempt = job[r].attempt + 1 /\ job'[r].made = job[r].made
                  /\ invoked' = invoked /\ completions' = completions
<1> DEFINE a == CurrentAction(r)
<1>0. TypeOK /\ job[r] \in Job
  BY DEF TypeInv, TypeOK
<1>1. ASSUME BeginAttempts(r)
      PROVE  /\ phase[r] = "action" /\ phase'[r] = "attempt" /\ Decision(r, a) = "allow"
             /\ ctx' = ctx /\ stores' = stores
             /\ UsesIdempotency(a) => RecordsOf(r)[KeyFor(ctx[r], a)] = NoRecord
             /\ invoked' = invoked /\ completions' = completions
             /\ job[r].idx <= Len(CurrentList(r))
    BY <1>0, <1>1 DEF BeginAttempts, AtAction, ExistingRecord, Goto, TypeOK
<1>2. ASSUME BeginAttempts(r)
      PROVE  /\ job'[r].attempt = 1 /\ job'[r].made = 0
             /\ job'[r].list = job[r].list /\ job'[r].idx = job[r].idx
  BY <1>0, <1>2 DEF BeginAttempts, TypeOK, Job
<1>3. ASSUME StartAttempt(r)
      PROVE  /\ phase[r] = "attempt" /\ phase'[r] = "running"
             /\ ctx' = ctx /\ stores' = stores
             /\ invoked' = IF UsesIdempotency(a)
                           THEN [invoked EXCEPT ![r][KeyFor(ctx[r], a)] = @ + 1]
                           ELSE invoked
             /\ completions' = completions /\ job[r].idx <= Len(CurrentList(r))
  BY <1>0, <1>3 DEF StartAttempt, Goto, TypeOK, TypeInv, Positioned
<1>4. ASSUME StartAttempt(r)
      PROVE  /\ job'[r].attempt = job[r].attempt
             /\ job'[r].made = IF SideEffect[a] = "external" THEN job[r].made + 1
                                                             ELSE job[r].made
             /\ job'[r].list = job[r].list /\ job'[r].idx = job[r].idx
  BY <1>0, <1>4 DEF StartAttempt, TypeOK, Job
<1>5. ASSUME RetryAttempt(r)
      PROVE  /\ phase[r] = "running" /\ phase'[r] = "attempt"
             /\ ctx' = ctx /\ stores' = stores
             /\ job[r].attempt < MaxAttempts
             /\ invoked' = invoked /\ completions' = completions
             /\ job[r].idx <= Len(CurrentList(r))
  BY <1>0, <1>5 DEF RetryAttempt, AttemptsLeft, Goto, TypeOK, TypeInv, Positioned
<1>6. ASSUME RetryAttempt(r)
      PROVE  /\ job'[r].attempt = job[r].attempt + 1 /\ job'[r].made = job[r].made
             /\ job'[r].list = job[r].list /\ job'[r].idx = job[r].idx
  BY <1>0, <1>6 DEF RetryAttempt, TypeOK, Job
<1>7. ASSUME BeginAttempts(r) \/ StartAttempt(r) \/ RetryAttempt(r)
      PROVE  a \in Actions /\ a' = a /\ KeyFor(ctx[r], a)' = KeyFor(ctx[r], a)
  BY <1>0, <1>7, <1>1, <1>2, <1>3, <1>4, <1>5, <1>6, CurrentActionType, SameAction
<1> QED
  BY <1>1, <1>2, <1>3, <1>4, <1>5, <1>6, <1>7

(* Steps that bring an action to its end.                                   *)
LEMMA ResultSteps ==
  ASSUME TypeInv, NEW r \in Runs
  PROVE  /\ ReplayAction(r) =>
              /\ phase[r] = "action" /\ phase'[r] = "account"
              /\ ctx' = ctx /\ job'[r].made = job[r].made
              /\ stores' = stores /\ invoked' = invoked /\ completions' = completions
         /\ SucceedAttempt(r) =>
              /\ phase[r] = "running" /\ phase'[r] = "account"
              /\ ctx'[r].calls = ctx[r].calls /\ job'[r].made = job[r].made
              /\ invoked' = invoked
         /\ RefusePatch(r) \/ FailAttempt(r) =>
              /\ phase[r] = "running" /\ phase'[r] = "account"
              /\ ctx'[r].calls = ctx[r].calls /\ job'[r].made = job[r].made
              /\ job'[r].code # "ok"
              /\ stores' = stores /\ invoked' = invoked /\ completions' = completions
         /\ AccountAction(r) \/ ExceedExternalCalls(r) =>
              /\ phase[r] = "account" /\ job'[r].made = 0
              /\ ctx'[r].calls = ctx[r].calls + job[r].made
              /\ phase'[r] \in {"action", "failing"}
              /\ phase'[r] = "action" => job[r].code = "ok"
              /\ AccountAction(r) \/ phase'[r] = "failing"
              /\ stores' = stores /\ invoked' = invoked /\ completions' = completions
<1>0. TypeOK /\ job[r] \in Job /\ ctx[r] \in Context
  BY DEF TypeInv, TypeOK
<1>1. ASSUME NEW code, NEW key, Return(r, code, key)
      PROVE  phase'[r] = "account" /\ job'[r].made = job[r].made /\ job'[r].code = code
  BY <1>0, <1>1 DEF Return, Goto, TypeOK, Job
<1>2. ASSUME ctx' = ctx \/ ctx' = [ctx EXCEPT ![r].context = @ \cup {CurrentAction(r)}]
      PROVE  ctx'[r].calls = ctx[r].calls
  BY <1>0, <1>2 DEF TypeOK, Context
<1>3. ASSUME ReplayAction(r)
      PROVE  /\ phase[r] = "action" /\ ctx' = ctx
             /\ \E code, key : Return(r, code, key)
             /\ stores' = stores /\ invoked' = invoked /\ completions' = completions
  BY <1>3 DEF ReplayAction, AtAction
<1>4. ASSUME SucceedAttempt(r)
      PROVE  /\ phase[r] = "running" /\ invoked' = invoked
             /\ \E code, key : Return(r, code, key)
             /\ ctx' = [ctx EXCEPT ![r].context = @ \cup {CurrentAction(r)}]
  BY <1>4 DEF SucceedAttempt
<1>5. ASSUME RefusePatch(r) \/ FailAttempt(r)
      PROVE  /\ phase[r] = "running" /\ \E code, key : code # "ok" /\ Return(r, code, key)
             /\ ctx' = ctx \/ ctx' = [ctx EXCEPT ![r].context = @ \cup {CurrentAction(r)}]
             /\ stores' = stores /\ invoked' = invoked /\ completions' = completions
  BY <1>5, AgentAssumption DEF RefusePatch, FailAttempt, CodesOf, BranchedCodes
<1>6. ASSUME AccountAction(r) \/ ExceedExternalCalls(r)
      PROVE  /\ phase[r] = "account" /\ ctx' = [ctx EXCEPT ![r] = Accounted(r)]
             /\ phase'[r] \in {"action", "failing"}
             /\ phase'[r] = "action" => job[r].code = "ok"
             /\ AccountAction(r) \/ phase'[r] = "failing"
             /\ stores' = stores /\ invoked' = invoked /\ completions' = completions
  BY <1>0, <1>6 DEF AccountAction, ExceedExternalCalls, Goto, TypeOK
<1>7. ASSUME AccountAction(r) \/ ExceedExternalCalls(r) PROVE job'[r].made = 0
  <2>1. /\ PastAction(job[r]).made = 0 /\ [job[r] EXCEPT !.made = 0].made = 0
        /\ [job[r] EXCEPT !.code = "budget", !.made = 0].made = 0
    BY <1>0 DEF PastAction, Job
  <2>2. CASE ExceedExternalCalls(r)
    BY <1>0, <2>1, <2>2 DEF ExceedExternalCalls, TypeOK
  <2>3. CASE AccountAction(r) /\ job[r].code = "ok"
    BY <1>0, <2>1, <2>3 DEF AccountAction, TypeOK
  <2>4. CASE AccountAction(r) /\ job[r].code # "ok"
    BY <1>0, <2>1, <2>4 DEF AccountAction, TypeOK
  <2> QED
    BY <1>7, <2>2, <2>3, <2>4
<1>8. Accounted(r).calls = ctx[r].calls + job[r].made
  BY <1>0 DEF Accounted, Context
<1>9. AccountAction(r) \/ ExceedExternalCalls(r) => ctx'[r].calls = ctx[r].calls + job[r].made
  BY <1>0, <1>6, <1>8 DEF TypeOK
<1> QED
  BY <1>1, <1>2, <1>3, <1>4, <1>5, <1>6, <1>7, <1>9

(* Every step keeps count.                                                  *)
LEMMA AttemptStep ==
  ASSUME HandlersEchoKeys, TypeInv, AttemptInv, [Next]_vars
  PROVE  AttemptInv'
<1>0. /\ TypeOK /\ MaxAttempts \in Nat \ {0}
      /\ \A q \in Runs : Counted(q) /\ invoked[q] \in [Keys -> Nat] /\ job[q] \in Job
  BY OptionAssumption DEF TypeInv, TypeOK, AttemptInv
(* The other runs' keys stay on record.                                     *)
<1>1. ASSUME NEW r \in Runs, OnlyMoves(r), Quiet(r) \/ LoudStep(r), Counted(r)',
             \A q \in Runs \ {r} : invoked'[q] = invoked[q]
      PROVE  AttemptInv'
  <2>1. ASSUME NEW q \in Runs \ {r} PROVE Counted(q)'
    <3>1. phase'[q] = phase[q] /\ job'[q] = job[q] /\ ctx'[q] = ctx[q]
      BY <1>1 DEF OnlyMoves
    <3>2. Open(q)' = Open(q) /\ Moving(q)' = Moving(q)
      BY <3>1, SameAction DEF Open, Moving
    <3>3. \A k \in Keys : RecordsOf(q)[k] # NoRecord => RecordsOf(q)'[k] # NoRecord
      BY <1>1, RecordsGrow
    <3> QED
      BY <1>0, <1>1, <3>1, <3>2, <3>3 DEF Counted
  <2> QED
    BY <1>1, <2>1 DEF AttemptInv
<1>2. ASSUME NEW r \in Runs, Quiet(r), OnlyMoves(r) PROVE AttemptInv'
  <2>1. invoked' = invoked /\ RecordsOf(r)' = RecordsOf(r)
    BY <1>2 DEF Quiet, QuietRest, RecordsOf
  <2>2. Moving(r)' => phase[r] = "unborn" \/ (Moving(r) /\ Open(r) = {})
    BY <1>2 DEF Quiet, QuietPhase, Moving, Open, Between
  <2>3. phase'[r] \notin {"unborn", "attempt", "running"} /\ Open(r)' = {}
    BY <1>2 DEF Quiet, QuietPhase, Open
  <2>4. Counted(r)'
    BY <1>0, <2>1, <2>2, <2>3 DEF Counted
  <2> QED
    BY <1>1, <1>2, <2>1, <2>4
<1>3. ASSUME NEW r \in Runs, OnlyMoves(r), NEW s \in snapshots, NEW i \in Inputs,
             ResumeRun(r, s, i)
      PROVE  AttemptInv'
  <2>1. phase[r] = "unborn" /\ phase'[r] = "loop" /\ invoked' = invoked
    BY <1>0, <1>3 DEF ResumeRun, Goto, TypeOK
  <2>2. Counted(r)'
    BY <1>0, <2>1 DEF Counted, Open
  <2> QED
    BY <1>1, <1>3, <2>1, <2>2 DEF LoudStep
<1>4. ASSUME NEW r \in Runs, OnlyMoves(r), BeginAttempts(r) PROVE AttemptInv'
  <2> DEFINE a == CurrentAction(r)
             k == KeyFor(ctx[r], a)
  <2>1. /\ phase[r] = "action" /\ phase'[r] = "attempt" /\ invoked' = invoked
        /\ RecordsOf(r)' = RecordsOf(r) /\ job'[r].attempt = 1
        /\ UsesIdempotency(a) => RecordsOf(r)[k] = NoRecord
        /\ a' = a /\ k' = k /\ k \in Keys
    BY <1>0, <1>4, AttemptSteps, KeyForType DEF RecordsOf, TypeOK
  <2>2. Open(r) = {} /\ Moving(r)
    BY <2>1 DEF Open, Moving, Between
  <2>3. Open(r)' = IF UsesIdempotency(a) THEN {k} ELSE {}
    BY <2>1 DEF Open
  <2> HIDE DEF a, k
  <2>4. \A j \in Keys : invoked[r][j] > 0 => RecordsOf(r)[j] # NoRecord
    BY <1>0, <2>2 DEF Counted
  <2>5. \A j \in Open(r)' : invoked'[r][j] = 0
    BY <1>0, <2>1, <2>3, <2>4
  <2>6. Counted(r)'
    BY <1>0, <2>1, <2>4, <2>5 DEF Counted
  <2> QED
    BY <1>1, <1>4, <2>1, <2>6 DEF LoudStep
<1>5. ASSUME NEW r \in Runs, OnlyMoves(r), StartAttempt(r) PROVE AttemptInv'
  <2> DEFINE a == CurrentAction(r)
             k == KeyFor(ctx[r], a)
  <2>1. /\ phase[r] = "attempt" /\ phase'[r] = "running"
        /\ RecordsOf(r)' = RecordsOf(r) /\ job'[r].attempt = job[r].attempt
        /\ invoked' = IF UsesIdempotency(a) THEN [invoked EXCEPT ![r][k] = @ + 1]
                                            ELSE invoked
        /\ a' = a /\ k' = k /\ k \in Keys
    BY <1>0, <1>5, AttemptSteps, KeyForType DEF RecordsOf, TypeOK
  <2>2. /\ Open(r) = IF UsesIdempotency(a) THEN {k} ELSE {}
        /\ Open(r)' = Open(r) /\ Moving(r)
    BY <2>1 DEF Open, Moving
  <2> HIDE DEF a, k
  <2>3. /\ \A q \in Runs \ {r} : invoked'[q] = invoked[q]
        /\ \A j \in Keys \ Open(r) : invoked'[r][j] = invoked[r][j]
        /\ \A j \in Open(r) : j \in Keys /\ invoked'[r][j] = invoked[r][j] + 1
    BY <1>0, <2>1, <2>2 DEF TypeOK
  <2>4. Counted(r)'
    BY <1>0, <2>1, <2>2, <2>3 DEF Counted
  <2> QED
    BY <1>1, <1>5, <2>3, <2>4 DEF LoudStep
<1>6. ASSUME NEW r \in Runs, OnlyMoves(r), RetryAttempt(r) PROVE AttemptInv'
  <2>1. /\ phase[r] = "running" /\ phase'[r] = "attempt" /\ invoked' = invoked
        /\ RecordsOf(r)' = RecordsOf(r)
        /\ job[r].attempt < MaxAttempts /\ job'[r].attempt = job[r].attempt + 1
        /\ CurrentAction(r)' = CurrentAction(r)
        /\ KeyFor(ctx[r], CurrentAction(r))' = KeyFor(ctx[r], CurrentAction(r))
    BY <1>0, <1>6, AttemptSteps DEF RecordsOf
  <2>2. Open(r)' = Open(r) /\ Moving(r) /\ \A k \in Open(r) : invoked[r][k] = job[r].attempt
    BY <1>0, <2>1 DEF Open, Moving, Counted
  <2>3. job[r].attempt \in 1 .. MaxAttempts
    BY <1>0, <2>1 DEF Counted
  <2>4. Counted(r)'
    BY <1>0, <2>1, <2>2, <2>3 DEF Counted
  <2> QED
    BY <1>1, <1>6, <2>1, <2>4 DEF LoudStep
<1>7. ASSUME NEW r \in Runs, OnlyMoves(r), SucceedAttempt(r) PROVE AttemptInv'
  <2> DEFINE a == CurrentAction(r)
             k == KeyFor(ctx[r], a)
  <2>1. phase[r] = "running" /\ phase'[r] = "account" /\ invoked' = invoked
    BY <1>7, ResultSteps
  <2>2. /\ a \in Actions /\ a # NoRecord
        /\ UsesIdempotency(a) => RecordsOf(r)'[k] = a
    <3>1. a \in Actions /\ EffectiveKey(ctx[r], a) \in Keys
      BY <1>7, AnsweredRecords
    <3> QED
      BY <1>7, <3>1, EchoedKey, AnsweredRecords, NullAssumption
  <2>3. Open(r) = IF UsesIdempotency(a) THEN {k} ELSE {}
    BY <2>1 DEF Open
  <2> HIDE DEF a, k
  <2>4. Moving(r) /\ Open(r)' = {}
    BY <2>1 DEF Open, Moving
  <2>5. \A j \in Keys : RecordsOf(r)[j] # NoRecord => RecordsOf(r)'[j] # NoRecord
    BY <1>7, RecordsGrow DEF LoudStep
  <2>6. \A j \in Keys : invoked[r][j] > 0 => RecordsOf(r)'[j] # NoRecord
    BY <1>0, <2>2, <2>3, <2>4, <2>5 DEF Counted
  <2>7. Counted(r)'
    BY <1>0, <2>1, <2>4, <2>6 DEF Counted
  <2> QED
    BY <1>1, <1>7, <2>1, <2>7 DEF LoudStep
<1>8. ASSUME NEW r \in Runs, OnlyMoves(r), ReplayAction(r) PROVE AttemptInv'
  <2>1. /\ phase[r] = "action" /\ phase'[r] = "account" /\ invoked' = invoked
        /\ RecordsOf(r)' = RecordsOf(r)
    BY <1>8, ResultSteps DEF RecordsOf
  <2>2. Moving(r) /\ Open(r) = {} /\ Open(r)' = {}
    BY <2>1 DEF Open, Moving, Between
  <2>3. Counted(r)'
    BY <1>0, <2>1, <2>2 DEF Counted
  <2> QED
    BY <1>1, <1>8, <2>1, <2>3 DEF LoudStep
<1>9. ASSUME NEW r \in Runs, OnlyMoves(r), RefusePatch(r) \/ FailAttempt(r)
      PROVE  AttemptInv'
  <2>1. phase'[r] = "account" /\ job'[r].code # "ok" /\ invoked' = invoked
    BY <1>9, ResultSteps
  <2>2. ~ Moving(r)' /\ Open(r)' = {}
    BY <2>1 DEF Open, Moving, Between
  <2>3. Counted(r)'
    BY <1>0, <2>1, <2>2 DEF Counted
  <2> QED
    BY <1>1, <1>9, <2>1, <2>3 DEF LoudStep
<1>10. ASSUME NEW r \in Runs, OnlyMoves(r), AccountAction(r) \/ ExceedExternalCalls(r)
       PROVE  AttemptInv'
  <2>1. /\ phase[r] = "account" /\ invoked' = invoked /\ RecordsOf(r)' = RecordsOf(r)
        /\ phase'[r] \in {"action", "failing"}
        /\ phase'[r] = "action" => job[r].code = "ok"
    BY <1>10, ResultSteps DEF RecordsOf
  <2>2. /\ Moving(r)' => Moving(r)
        /\ Open(r) = {} /\ Open(r)' = {}
    BY <2>1 DEF Open, Moving, Between
  <2>3. Counted(r)'
    BY <1>0, <2>1, <2>2 DEF Counted
  <2> QED
    BY <1>1, <1>10, <2>1, <2>3 DEF LoudStep
<1>11. CASE UNCHANGED vars
  <2>1. /\ phase' = phase /\ job' = job /\ ctx' = ctx /\ invoked' = invoked
        /\ \A q \in Runs : RecordsOf(q)' = RecordsOf(q)
    BY <1>11 DEF vars, RecordsOf
  <2>2. ASSUME NEW q \in Runs PROVE Counted(q)'
    <3>1. Open(q)' = Open(q) /\ Moving(q)' = Moving(q)
      BY <2>1, SameAction DEF Open, Moving
    <3> QED
      BY <1>0, <2>1, <3>1 DEF Counted
  <2> QED
    BY <2>2 DEF AttemptInv
<1> QED
  BY <1>2, <1>3, <1>4, <1>5, <1>6, <1>7, <1>8, <1>9, <1>10, <1>11, StepOfSomeRun
  DEF LoudStep

-----------------------------------------------------------------------------
(* LimitsHold: external calls.                                              *)

Started == {q \in Runs : phase[q] # "unborn"}

(* What n runs of a lineage may have called at most.                        *)
Allowance(n) == MaxExternalCalls + MaxAttempts * n

LEMMA AllowanceGrows ==
  ASSUME NEW n \in Nat
  PROVE  /\ Allowance(n) \in Nat /\ MaxExternalCalls <= Allowance(n)
         /\ Allowance(n + 1) = Allowance(n) + MaxAttempts
<1>1. MaxAttempts \in Nat /\ MaxExternalCalls \in Nat
  BY OptionAssumption
<1>2. MaxAttempts * n \in Nat
  BY <1>1
<1>3. MaxAttempts * (n + 1) = MaxAttempts * n + MaxAttempts
  BY <1>1
<1> QED
  BY <1>1, <1>2, <1>3 DEF Allowance

(* The calls one attempted action adds are no more than its attempts, and   *)
(* they are charged once.                                                   *)
Charged(r) ==
  /\ job[r].made <= MaxAttempts
  /\ job[r].made > 0 => phase[r] \in {"attempt", "running", "account", "crashed"}
  /\ phase[r] = "attempt" => job[r].made <= job[r].attempt - 1
  /\ phase[r] = "running" => job[r].made <= job[r].attempt
  /\ phase[r] \in {"attempt", "running"} => job[r].attempt <= MaxAttempts

(* A run that may still execute an action is within the allowance of the    *)
(* runs started before it.                                                  *)
Afforded(r, n) ==
  /\ ctx[r].calls <= Allowance(n)
  /\ phase[r] = "unborn" => ctx[r].calls = 0
  /\ phase[r] \in Live \ {"failing", "ending"} =>
       \E m \in Nat : n = m + 1 /\ ctx[r].calls <= Allowance(m)

ChargeInv == \A r \in Runs : Charged(r)

BudgetInv ==
  /\ IsFiniteSet(Started)
  /\ \A r \in Runs : Afforded(r, Cardinality(Started))
  /\ \A s \in snapshots : s.calls <= Allowance(Cardinality(Started))

LEMMA ChargeStep ==
  ASSUME TypeInv, ChargeInv, [Next]_vars
  PROVE  ChargeInv'
<1>0. /\ TypeOK /\ MaxAttempts \in Nat \ {0}
      /\ \A q \in Runs : Charged(q) /\ job[q] \in Job
      /\ \A q \in Runs : job[q].made \in Nat /\ job[q].attempt \in Nat
  BY OptionAssumption DEF TypeInv, TypeOK, ChargeInv, Job
<1>1. ASSUME NEW r \in Runs, OnlyMoves(r), Charged(r)' PROVE ChargeInv'
  BY <1>1 DEF OnlyMoves, ChargeInv, Charged
<1>2. ASSUME NEW r \in Runs, Quiet(r), OnlyMoves(r) PROVE ChargeInv'
  <2>1. Charged(r)'
    BY <1>0, <1>2 DEF Quiet, QuietPhase, Charged, Live
  <2> QED
    BY <1>1, <1>2, <2>1
<1>3. ASSUME NEW r \in Runs, OnlyMoves(r), NEW s \in snapshots, NEW i \in Inputs,
             ResumeRun(r, s, i)
      PROVE  ChargeInv'
  <2>1. Charged(r)'
    BY <1>0, <1>3 DEF ResumeRun, Goto, TypeOK, Charged
  <2> QED
    BY <1>1, <1>3, <2>1
<1>4. ASSUME NEW r \in Runs, OnlyMoves(r),
             BeginAttempts(r) \/ StartAttempt(r) \/ RetryAttempt(r)
      PROVE  ChargeInv'
  <2>1. Charged(r)'
    BY <1>0, <1>4, AttemptSteps DEF Charged
  <2> QED
    BY <1>1, <1>4, <2>1
<1>5. ASSUME NEW r \in Runs, OnlyMoves(r),
             \/ ReplayAction(r) \/ SucceedAttempt(r) \/ RefusePatch(r) \/ FailAttempt(r)
             \/ AccountAction(r) \/ ExceedExternalCalls(r)
      PROVE  ChargeInv'
  <2>1. Charged(r)'
    BY <1>0, <1>5, ResultSteps DEF Charged
  <2> QED
    BY <1>1, <1>5, <2>1
<1>6. CASE UNCHANGED vars
  BY <1>6 DEF vars, ChargeInv, Charged
<1> QED
  BY <1>2, <1>3, <1>4, <1>5, <1>6, StepOfSomeRun DEF LoudStep

(* A step starts a run or it does not.                                      *)
LEMMA StartedStep ==
  ASSUME TypeInv, NEW r \in Runs, OnlyMoves(r), IsFiniteSet(Started)
  PROVE  /\ IsFiniteSet(Started') /\ Cardinality(Started) \in Nat
         /\ phase[r] = "unborn" => Cardinality(Started') = Cardinality(Started) + 1
         /\ phase[r] # "unborn" => /\ Started' = Started
                                   /\ Cardinality(Started) \in Nat \ {0}
<1>1. Cardinality(Started) \in Nat
  BY FS_CardinalityType
<1>2. CASE phase[r] = "unborn"
  <2>1. Started' = Started \cup {r} /\ r \notin Started
    BY <1>2 DEF Started, OnlyMoves
  <2> QED
    BY <1>1, <1>2, <2>1, FS_AddElement
<1>3. CASE phase[r] # "unborn"
  <2>1. Started' = Started /\ r \in Started
    BY <1>3 DEF Started, OnlyMoves
  <2>2. Started # {}
    BY <2>1
  <2>3. Cardinality(Started) # 0
    BY <2>2, FS_EmptySet
  <2> QED
    BY <1>1, <1>3, <2>1, <2>3
<1> QED
  BY <1>2, <1>3

(* A run takes a snapshot with the calls it has been charged.               *)
LEMMA SnapshotCalls ==
  ASSUME NEW r \in Runs, OnlyMoves(r), NEW s \in snapshots', s \notin snapshots
  PROVE  s.calls = ctx'[r].calls
BY DEF OnlyMoves, TakenBy, SnapshotOf

LEMMA BudgetStep ==
  ASSUME TypeInv, TypeInv', ChargeInv, BudgetInv, [Next]_vars
  PROVE  BudgetInv'
<1> DEFINE n == Cardinality(Started)
<1>0. /\ TypeOK /\ MaxAttempts \in Nat \ {0} /\ MaxExternalCalls \in Nat /\ n \in Nat
      /\ IsFiniteSet(Started)
      /\ \A q \in Runs : ctx[q].calls \in Nat /\ ctx'[q].calls \in Nat
      /\ \A q \in Runs : job[q].made \in Nat /\ job[q].made <= MaxAttempts
      /\ \A s \in snapshots : s.calls \in Nat
  BY OptionAssumption, FS_CardinalityType
  DEF TypeInv, TypeOK, Context, Job, Snapshot, BudgetInv, ChargeInv, Charged
<1> HIDE DEF n
<1>1. ASSUME NEW r \in Runs, OnlyMoves(r), Afforded(r, n)' PROVE BudgetInv'
  <2>1. n' \in {n, n + 1} /\ IsFiniteSet(Started')
    BY <1>0, <1>1, StartedStep DEF n
  <2>2. ASSUME NEW c \in Nat, c <= Allowance(n) PROVE c <= Allowance(n')
    BY <1>0, <2>1, <2>2, AllowanceGrows
  <2>3. ASSUME NEW q \in Runs \ {r} PROVE Afforded(q, n)'
    <3>1. phase'[q] = phase[q] /\ ctx'[q] = ctx[q] /\ Afforded(q, n)
      BY <1>1 DEF OnlyMoves, BudgetInv, n
    <3>2. ctx'[q].calls <= Allowance(n')
      BY <1>0, <2>2, <3>1 DEF Afforded
    <3>3. ASSUME phase'[q] \in Live \ {"failing", "ending"}
          PROVE  \E m \in Nat : n' = m + 1 /\ ctx'[q].calls <= Allowance(m)
      <4>1. PICK m \in Nat : n = m + 1 /\ ctx[q].calls <= Allowance(m)
        BY <3>1, <3>3 DEF Afforded
      <4>2. CASE n' = n
        BY <3>1, <4>1, <4>2
      <4>3. CASE n' = n + 1
        BY <1>0, <3>1, <4>1, <4>3, AllowanceGrows
      <4> QED
        BY <2>1, <4>2, <4>3
    <3> QED
      BY <3>1, <3>2, <3>3 DEF Afforded
  <2>4. \A s \in snapshots' : s.calls <= Allowance(n')
    BY <1>0, <1>1, <2>2, SnapshotCalls DEF Afforded, BudgetInv, n
  <2> QED
    BY <1>1, <2>1, <2>3, <2>4 DEF BudgetInv, n
<1>2. ASSUME NEW r \in Runs, OnlyMoves(r), phase[r] # "unborn"
      PROVE  /\ n' = n
             /\ \E m \in Nat : n = m + 1
             /\ ctx[r].calls <= Allowance(n)
             /\ phase[r] \in Live \ {"failing", "ending"} =>
                  \E m \in Nat : n = m + 1 /\ ctx[r].calls <= Allowance(m)
  <2>1. n' = n /\ n \in Nat \ {0}
    BY <1>0, <1>2, StartedStep DEF n
  <2>2. n - 1 \in Nat /\ n = (n - 1) + 1
    BY <2>1
  <2> QED
    BY <1>2, <2>1, <2>2 DEF BudgetInv, Afforded, n
<1>3. ASSUME NEW r \in Runs, Quiet(r), OnlyMoves(r) PROVE BudgetInv'
  <2>1. ctx'[r].calls = ctx[r].calls /\ phase'[r] # "unborn"
    BY <1>3 DEF Quiet, QuietRest, OnlyMoves
  <2>2. CASE phase[r] = "unborn"
    <3>1. n' = n + 1 /\ ctx[r].calls = 0
      BY <1>0, <1>3, <2>2, StartedStep DEF n, BudgetInv, Afforded
    <3>2. 0 <= Allowance(n) /\ 0 <= Allowance(n')
      BY <1>0, <3>1, AllowanceGrows
    <3>3. Afforded(r, n)'
      BY <1>0, <2>1, <3>1, <3>2 DEF Afforded
    <3> QED
      BY <1>1, <1>3, <3>3
  <2>3. CASE phase[r] # "unborn"
    <3>1. phase'[r] \in Live \ {"failing", "ending"} =>
            phase[r] \in Live \ {"failing", "ending"}
      BY <1>3, <2>3 DEF Quiet, QuietPhase, Live, Between, Phases
    <3>2. Afforded(r, n)'
      BY <1>2, <1>3, <2>1, <2>3, <3>1 DEF Afforded
    <3> QED
      BY <1>1, <1>3, <3>2
  <2> QED
    BY <2>2, <2>3
<1>4. ASSUME NEW r \in Runs, OnlyMoves(r), NEW s \in snapshots, NEW i \in Inputs,
             ResumeRun(r, s, i)
      PROVE  BudgetInv'
  <2>1. phase[r] = "unborn" /\ ctx'[r].calls = s.calls /\ phase'[r] = "loop"
    BY <1>0, <1>4 DEF ResumeRun, Restored, Goto, TypeOK
  <2>2. n' = n + 1 /\ s.calls <= Allowance(n)
    BY <1>0, <1>4, <2>1, StartedStep DEF n, BudgetInv
  <2>3. s.calls <= Allowance(n')
    BY <1>0, <2>2, AllowanceGrows
  <2>4. Afforded(r, n)'
    BY <1>0, <2>1, <2>2, <2>3 DEF Afforded
  <2> QED
    BY <1>1, <1>4, <2>4
<1>5. ASSUME NEW r \in Runs, OnlyMoves(r),
             \/ BeginAttempts(r) \/ StartAttempt(r) \/ RetryAttempt(r)
             \/ ReplayAction(r) \/ SucceedAttempt(r) \/ RefusePatch(r) \/ FailAttempt(r)
      PROVE  BudgetInv'
  <2>1. /\ ctx'[r].calls = ctx[r].calls
        /\ phase[r] \in {"action", "attempt", "running"}
        /\ phase'[r] \in {"attempt", "running", "account"}
    BY <1>5, AttemptSteps, ResultSteps
  <2>2. /\ phase[r] \in Live \ {"failing", "ending"} /\ phase[r] # "unborn"
    BY <2>1 DEF Live
  <2>3. Afforded(r, n)'
    BY <1>2, <1>5, <2>1, <2>2 DEF Afforded
  <2> QED
    BY <1>1, <1>5, <2>3
<1>6. ASSUME NEW r \in Runs, OnlyMoves(r), AccountAction(r) PROVE BudgetInv'
  <2>1. phase[r] = "account" /\ phase'[r] \in {"action", "failing"}
    BY <1>6, ResultSteps
  <2>2. ctx'[r].calls <= MaxExternalCalls
    <3>1. ctx'[r].calls = Accounted(r).calls /\ ~ (Accounted(r).calls > MaxExternalCalls)
      BY <1>0, <1>6 DEF AccountAction, ExceedsBudget, TypeOK
    <3> QED
      BY <1>0, <3>1
  <2>3. PICK m \in Nat : n = m + 1
    BY <1>2, <1>6, <2>1
  <2>4. ctx'[r].calls <= Allowance(m) /\ ctx'[r].calls <= Allowance(n) /\ n' = n
    BY <1>0, <1>2, <1>6, <2>1, <2>2, <2>3, AllowanceGrows
  <2>5. Afforded(r, n)'
    BY <2>1, <2>3, <2>4 DEF Afforded
  <2> QED
    BY <1>1, <1>6, <2>5
<1>7. ASSUME NEW r \in Runs, OnlyMoves(r), ExceedExternalCalls(r) PROVE BudgetInv'
  <2>1. /\ phase[r] = "account" /\ phase'[r] = "failing"
        /\ ctx'[r].calls = ctx[r].calls + job[r].made
    <3>1. phase'[r] = "failing"
      BY <1>0, <1>7 DEF ExceedExternalCalls, Goto, TypeOK
    <3> QED
      BY <1>7, <3>1, ResultSteps
  <2>2. PICK m \in Nat : n = m + 1 /\ ctx[r].calls <= Allowance(m)
    BY <1>2, <1>7, <2>1 DEF Live
  <2>3. ctx'[r].calls <= Allowance(n) /\ n' = n
    BY <1>0, <1>2, <1>7, <2>1, <2>2, AllowanceGrows
  <2>4. Afforded(r, n)'
    BY <2>1, <2>3 DEF Afforded
  <2> QED
    BY <1>1, <1>7, <2>4
<1>8. CASE UNCHANGED vars
  <2>1. Started' = Started
    BY <1>8 DEF vars, Started
  <2> QED
    BY <1>8, <2>1 DEF vars, BudgetInv, Afforded
<1> QED
  BY <1>3, <1>4, <1>5, <1>6, <1>7, <1>8, StepOfSomeRun DEF LoudStep

(* Whatever runs share stores, run at once, crash and are resumed, and      *)
(* however often the states loop: no run calls the handler behind a key     *)
(* more than maxAttempts times, and a lineage is charged at most one        *)
(* action's attempts per run over maxExternalCalls, provided handlers that  *)
(* answer with a key answer with the one they were given.                   *)
THEOREM LimitsAlwaysHold ==
  ASSUME HandlersEchoKeys
  PROVE  Spec => []LimitsHold
<1>1. Init => AttemptInv /\ ChargeInv /\ BudgetInv
  <2> SUFFICES ASSUME Init PROVE AttemptInv /\ ChargeInv /\ BudgetInv
    OBVIOUS
  <2>0. MaxAttempts \in Nat \ {0} /\ MaxExternalCalls \in Nat
    BY OptionAssumption
  <2>1. Started = {}
    BY DEF Init, Started
  <2>2. IsFiniteSet(Started) /\ Cardinality(Started) = 0
    BY <2>1, FS_EmptySet
  <2>3. \A r \in Runs : /\ ctx[r].calls = 0 /\ job[r].made = 0 /\ phase[r] = "unborn"
                        /\ \A k \in Keys : invoked[r][k] = 0
    BY DEF Init, FreshJob
  <2>4. 0 <= Allowance(0)
    BY <2>0, AllowanceGrows
  <2>5. snapshots = {}
    BY DEF Init
  <2>6. AttemptInv
    BY <2>0, <2>3 DEF AttemptInv, Counted, Moving, Between, Open
  <2>7. ChargeInv
    BY <2>0, <2>3 DEF ChargeInv, Charged
  <2>8. BudgetInv
    BY <2>2, <2>3, <2>4, <2>5 DEF BudgetInv, Afforded, Live
  <2> QED
    BY <2>6, <2>7, <2>8
<1>2. TypeInv /\ AttemptInv /\ [Next]_vars => AttemptInv'
  BY AttemptStep
<1>3. TypeInv /\ ChargeInv /\ [Next]_vars => ChargeInv'
  BY ChargeStep
<1>4. TypeInv /\ TypeInv' /\ ChargeInv /\ BudgetInv /\ [Next]_vars => BudgetInv'
  BY BudgetStep
<1>5. AttemptInv /\ BudgetInv => LimitsHold
  BY DEF AttemptInv, Counted, BudgetInv, Afforded, Allowance, Started,
     LimitsHold, AttemptsBounded, BudgetOvershoot
<1> QED
  BY <1>1, <1>2, <1>3, <1>4, <1>5, TypeInit, TypeStep, PTL DEF Spec

-----------------------------------------------------------------------------
(* PolicyCapHolds.                                                          *)

(* An external action is allowed below the cap only.                        *)
LEMMA AllowedBelowCap ==
  ASSUME ExternalCap \in Nat, NEW a, NEW used \in Nat,
         PolicyEffect(Pack, Environment, a, "external", used) = "allow"
  PROVE  used < ExternalCap \/ ExternalCap = NoCap
<1>1. ~ CapReached(Pack.sideEffectRules, "external", Environment, used)
  BY DEF PolicyEffect
<1> QED
  BY <1>1 DEF CapReached, ExternalCap

(* A run attempts external calls only while it is below the cap.            *)
Capped(r) ==
  /\ ctx[r].calls <= ExternalCap + MaxAttempts - 1
  /\ /\ phase[r] \in {"attempt", "running"}
     /\ job[r].made > 0 \/ SideEffect[CurrentAction(r)] = "external"
     => ctx[r].calls < ExternalCap
  /\ phase[r] = "account" /\ job[r].made > 0 => ctx[r].calls < ExternalCap

CapInv ==
  /\ \A r \in Runs : Capped(r)
  /\ \A s \in snapshots : s.calls <= ExternalCap + MaxAttempts - 1

LEMMA CapStep ==
  ASSUME ExternalCap \in Nat, ExternalCap # NoCap,
         TypeInv, ChargeInv, CapInv, [Next]_vars
  PROVE  CapInv'
<1> DEFINE most == ExternalCap + MaxAttempts - 1
<1>0. /\ TypeOK /\ MaxAttempts \in Nat \ {0}
      /\ \A q \in Runs : Capped(q) /\ Charged(q)
      /\ \A q \in Runs : ctx[q].calls \in Nat /\ job[q].made \in Nat
  BY OptionAssumption DEF TypeInv, TypeOK, CapInv, ChargeInv, Context, Job
<1>1. ASSUME NEW r \in Runs, OnlyMoves(r), Capped(r)' PROVE CapInv'
  <2>1. ASSUME NEW q \in Runs \ {r} PROVE Capped(q)'
    <3>1. phase'[q] = phase[q] /\ job'[q] = job[q] /\ ctx'[q] = ctx[q]
      BY <1>1 DEF OnlyMoves
    <3>2. CurrentAction(q)' = CurrentAction(q)
      BY <3>1, SameAction
    <3> QED
      BY <1>0, <3>1, <3>2 DEF Capped
  <2>2. \A s \in snapshots' : s.calls <= most
    BY <1>1, SnapshotCalls DEF Capped, CapInv
  <2> QED
    BY <1>1, <2>1, <2>2 DEF CapInv
<1>2. ASSUME NEW r \in Runs, Quiet(r), OnlyMoves(r) PROVE CapInv'
  <2>1. Capped(r)'
    BY <1>0, <1>2 DEF Quiet, QuietPhase, QuietRest, Capped, Charged
  <2> QED
    BY <1>1, <1>2, <2>1
<1>3. ASSUME NEW r \in Runs, OnlyMoves(r), NEW s \in snapshots, NEW i \in Inputs,
             ResumeRun(r, s, i)
      PROVE  CapInv'
  <2>1. ctx'[r].calls = s.calls /\ phase'[r] = "loop"
    BY <1>0, <1>3 DEF ResumeRun, Restored, Goto, TypeOK
  <2>2. Capped(r)'
    BY <2>1 DEF Capped, CapInv
  <2> QED
    BY <1>1, <1>3, <2>2
<1>4. ASSUME NEW r \in Runs, OnlyMoves(r), BeginAttempts(r) PROVE CapInv'
  <2>1. /\ CurrentAction(r)' = CurrentAction(r) /\ phase'[r] = "attempt"
        /\ ctx' = ctx /\ job'[r].made = 0
        /\ Decision(r, CurrentAction(r)) = "allow"
    BY <1>4, AttemptSteps
  <2>2. SideEffect[CurrentAction(r)] = "external" => ctx[r].calls < ExternalCap
    BY <1>0, <2>1, AllowedBelowCap DEF Decision
  <2>3. Capped(r)'
    BY <1>0, <2>1, <2>2 DEF Capped
  <2> QED
    BY <1>1, <1>4, <2>3
<1>5. ASSUME NEW r \in Runs, OnlyMoves(r), StartAttempt(r) \/ RetryAttempt(r)
      PROVE  CapInv'
  <2>1. /\ CurrentAction(r)' = CurrentAction(r) /\ ctx' = ctx
        /\ phase[r] \in {"attempt", "running"} /\ phase'[r] \in {"attempt", "running"}
        /\ \/ SideEffect[CurrentAction(r)] = "external"
           \/ job'[r].made = job[r].made
    BY <1>5, AttemptSteps
  <2>2. Capped(r)'
    BY <1>0, <2>1 DEF Capped
  <2> QED
    BY <1>1, <1>5, <2>2
<1>6. ASSUME NEW r \in Runs, OnlyMoves(r),
             ReplayAction(r) \/ SucceedAttempt(r) \/ RefusePatch(r) \/ FailAttempt(r)
      PROVE  CapInv'
  <2>1. /\ ctx'[r].calls = ctx[r].calls /\ job'[r].made = job[r].made
        /\ phase[r] \in {"action", "running"} /\ phase'[r] = "account"
    BY <1>6, ResultSteps
  <2>2. Capped(r)'
    BY <1>0, <2>1 DEF Capped, Charged
  <2> QED
    BY <1>1, <1>6, <2>2
<1>7. ASSUME NEW r \in Runs, OnlyMoves(r), AccountAction(r) \/ ExceedExternalCalls(r)
      PROVE  CapInv'
  <2>1. /\ phase[r] = "account" /\ ctx'[r].calls = ctx[r].calls + job[r].made
        /\ phase'[r] \in {"action", "failing"}
    BY <1>7, ResultSteps
  <2>2. Capped(r)'
    BY <1>0, <2>1 DEF Capped, Charged
  <2> QED
    BY <1>1, <1>7, <2>2
<1>8. CASE UNCHANGED vars
  BY <1>8 DEF vars, CapInv, Capped, CurrentAction, CurrentList
<1> QED
  BY <1>2, <1>3, <1>4, <1>5, <1>6, <1>7, <1>8, StepOfSomeRun DEF LoudStep

(* A policy pack that caps external calls keeps every run below the cap but *)
(* for the retries of its last action, however runs loop and are resumed.   *)
THEOREM PolicyCapAlwaysHolds ==
  ASSUME ExternalCap \in Nat \cup {NoCap}
  PROVE  Spec => []PolicyCapHolds
<1>1. CASE ExternalCap = NoCap
  <2>1. Init => PolicyCapHolds
    BY <1>1 DEF PolicyCapHolds
  <2>2. PolicyCapHolds /\ [Next]_vars => PolicyCapHolds'
    BY <1>1 DEF PolicyCapHolds
  <2> QED
    BY <2>1, <2>2, PTL DEF Spec
<1>2. CASE ExternalCap # NoCap
  <2>1. Init => ChargeInv /\ CapInv
    <3> SUFFICES ASSUME Init PROVE ChargeInv /\ CapInv
      OBVIOUS
    <3>1. MaxAttempts \in Nat \ {0} /\ ExternalCap \in Nat
      BY <1>2, OptionAssumption
    <3>2. /\ \A r \in Runs : ctx[r].calls = 0 /\ job[r].made = 0 /\ phase[r] = "unborn"
          /\ snapshots = {}
      BY DEF Init, FreshJob
    <3> QED
      BY <3>1, <3>2 DEF ChargeInv, Charged, CapInv, Capped
  <2>2. TypeInv /\ ChargeInv /\ [Next]_vars => ChargeInv'
    BY ChargeStep
  <2>3. TypeInv /\ ChargeInv /\ CapInv /\ [Next]_vars => CapInv'
    BY <1>2, CapStep
  <2>4. CapInv => PolicyCapHolds
    BY DEF CapInv, Capped, PolicyCapHolds
  <2> QED
    BY <2>1, <2>2, <2>3, <2>4, TypeInit, TypeStep, PTL DEF Spec
<1> QED
  BY <1>1, <1>2

-----------------------------------------------------------------------------
(* KeysStayBound and EffectsOnce.                                           *)

(* Either every run has a store of its own, or runs follow one another.     *)
StoresAreSafe == ~ SharedStore \/ Serial

(* The key a handler is being called for is not on record, a run that has   *)
(* not started finds a new store or one that agrees with every snapshot.    *)
BoundInv ==
  /\ \A r \in Runs : \A k \in Open(r) : RecordsOf(r)[k] = NoRecord
  /\ Serial => \A q, r \in Runs : phase[q] \in Live /\ phase[r] \in Live => q = r
  /\ SharedStore => \A s \in snapshots, k \in Keys :
       s.records[k] # NoRecord => stores["shared"][k] = s.records[k]
  /\ ~ SharedStore => \A r \in Runs : phase[r] = "unborn" =>
       \A k \in Keys : RecordsOf(r)[k] = NoRecord

(* An answer is recorded where nothing was on record.                       *)
LEMMA AnsweredKey ==
  ASSUME HandlersEchoKeys, TypeInv, BoundInv, NEW r \in Runs, SucceedAttempt(r)
  PROVE  LET a == CurrentAction(r)
             k == KeyFor(ctx[r], a)
         IN  /\ a \in Actions /\ k \in Keys /\ phase[r] = "running"
             /\ EffectiveKey(ctx[r], a) = k
             /\ UsesIdempotency(a) => /\ RecordsOf(r)[k] = NoRecord /\ Open(r) = {k}
                                      /\ completions' = [completions EXCEPT ![k] = @ + 1]
             /\ ~ UsesIdempotency(a) => completions' = completions
             /\ invoked' = invoked
<1>1. phase[r] = "running" /\ invoked' = invoked
  BY DEF SucceedAttempt
<1>2. /\ CurrentAction(r) \in Actions
      /\ EffectiveKey(ctx[r], CurrentAction(r)) \in Keys
  BY AnsweredRecords
<1>3. EffectiveKey(ctx[r], CurrentAction(r)) = KeyFor(ctx[r], CurrentAction(r))
  BY <1>2, EchoedKey
<1>4. UsesIdempotency(CurrentAction(r)) => Open(r) = {KeyFor(ctx[r], CurrentAction(r))}
  BY <1>1 DEF Open
<1>5. /\ UsesIdempotency(CurrentAction(r)) =>
            completions' = [completions EXCEPT ![KeyFor(ctx[r], CurrentAction(r))] = @ + 1]
      /\ ~ UsesIdempotency(CurrentAction(r)) => completions' = completions
  BY <1>3 DEF SucceedAttempt
<1> QED
  BY <1>1, <1>2, <1>3, <1>4, <1>5 DEF BoundInv

(* No store that somebody reads loses or changes a record.                  *)
LEMMA BoundRecordsStay ==
  ASSUME HandlersEchoKeys, TypeInv, BoundInv,
         NEW r \in Runs, Quiet(r) \/ LoudStep(r),
         NEW id \in StoreIds, NEW k \in Keys, stores[id][k] # NoRecord
  PROVE  stores'[id][k] = stores[id][k]
<1>1. RecordsOf(r) = stores[StoreOf(r)] /\ RecordsOf(r)' = stores'[StoreOf(r)]
  BY DEF RecordsOf, StoreOf
<1>2. ASSUME NEW s \in snapshots, NEW i \in Inputs, ResumeRun(r, s, i)
      PROVE  stores'[id][k] = stores[id][k]
  <2>1. CASE id # StoreOf(r)
    BY <1>2, <2>1, ResumedRecords
  <2>2. CASE id = StoreOf(r) /\ SharedStore
    <3>1. id = "shared"
      BY <2>2 DEF StoreOf
    <3> QED
      BY <1>1, <1>2, <2>2, <3>1, ResumedRecords DEF BoundInv
  <2>3. CASE id = StoreOf(r) /\ ~ SharedStore
    <3>1. phase[r] = "unborn"
      BY <1>2 DEF ResumeRun
    <3> QED
      BY <1>1, <2>3, <3>1 DEF BoundInv
  <2> QED
    BY <2>1, <2>2, <2>3
<1>3. CASE SucceedAttempt(r)
  <2>1. CASE id # StoreOf(r) \/ ~ UsesIdempotency(CurrentAction(r))
    BY <1>3, <2>1, AnsweredRecords
  <2>2. CASE id = StoreOf(r) /\ UsesIdempotency(CurrentAction(r))
    BY <1>1, <1>3, <2>2, AnsweredRecords, AnsweredKey
  <2> QED
    BY <2>1, <2>2
<1> QED
  BY <1>2, <1>3, OthersStoreNothing

LEMMA BoundStep ==
  ASSUME HandlersEchoKeys, StoresAreSafe, TypeInv, BoundInv, [Next]_vars
  PROVE  BoundInv'
<1>0. /\ TypeOK
      /\ \A q \in Runs : \A k \in Open(q) : RecordsOf(q)[k] = NoRecord
  BY DEF TypeInv, BoundInv
(* What a step of r leaves to show: that the key it opens is not on record. *)
<1>1. ASSUME NEW r \in Runs, OnlyMoves(r), Quiet(r) \/ LoudStep(r),
             \A k \in Open(r)' : RecordsOf(r)'[k] = NoRecord
      PROVE  BoundInv'
  <2>1. phase'[r] # "unborn" /\ \A q \in Runs \ {r} : phase'[q] = phase[q]
    BY <1>1 DEF OnlyMoves
  <2>2. Serial => \A q \in Runs \ {r} : phase[q] \notin Live
    BY <1>1 DEF OnlyMoves, MayStart, BoundInv
  <2>3. ~ SharedStore => \A q \in Runs \ {r} : RecordsOf(q)' = RecordsOf(q)
    <3>1. ~ SharedStore => \A q \in Runs : StoreOf(q) = q /\ q \in StoreIds
      BY DEF StoreOf, StoreIds
    <3>2. ASSUME NEW s \in snapshots, NEW i \in Inputs, ResumeRun(r, s, i), ~ SharedStore,
                 NEW q \in Runs \ {r}
          PROVE  RecordsOf(q)' = RecordsOf(q)
      BY <3>1, <3>2, ResumedRecords DEF RecordsOf
    <3>3. ASSUME SucceedAttempt(r), ~ SharedStore, NEW q \in Runs \ {r}
          PROVE  RecordsOf(q)' = RecordsOf(q)
      BY <3>1, <3>3, AnsweredRecords DEF RecordsOf
    <3>4. CASE stores' = stores
      BY <3>4 DEF RecordsOf
    <3> QED
      BY <1>1, <3>2, <3>3, <3>4, OthersStoreNothing
  <2>4. ASSUME NEW q \in Runs, NEW k \in Open(q)' PROVE RecordsOf(q)'[k] = NoRecord
    <3>1. CASE q = r
      BY <1>1, <2>4, <3>1
    <3>2. CASE q # r
      <4>1. Open(q)' = Open(q)
        BY <1>1, <3>2, SameAction DEF OnlyMoves, Open
      <4>2. phase[q] \in Live
        BY <2>4, <4>1 DEF Open, Live
      <4>3. ~ Serial /\ ~ SharedStore
        BY <2>2, <3>2, <4>2 DEF StoresAreSafe
      <4> QED
        BY <1>0, <2>3, <2>4, <3>2, <4>1, <4>3
    <3> QED
      BY <3>1, <3>2
  <2>5. Serial => \A p, q \in Runs : phase'[p] \in Live /\ phase'[q] \in Live => p = q
    BY <2>1, <2>2
  <2>6. SharedStore => \A s \in snapshots', k \in Keys :
          s.records[k] # NoRecord => stores'["shared"][k] = s.records[k]
    <3> SUFFICES ASSUME SharedStore, NEW s \in snapshots', NEW k \in Keys,
                        s.records[k] # NoRecord
                 PROVE  stores'["shared"][k] = s.records[k]
      OBVIOUS
    <3>1. "shared" \in StoreIds /\ RecordsOf(r) = stores["shared"]
      BY DEF StoreIds, RecordsOf, StoreOf
    <3>2. CASE s \in snapshots
      BY <1>1, <3>1, <3>2, BoundRecordsStay DEF BoundInv
    <3>3. CASE s \notin snapshots
      BY <1>1, <3>1, <3>3 DEF OnlyMoves, TakenBy, SnapshotOf
    <3> QED
      BY <3>2, <3>3
  <2>7. ~ SharedStore => \A q \in Runs : phase'[q] = "unborn" =>
          \A k \in Keys : RecordsOf(q)'[k] = NoRecord
    BY <2>1, <2>3 DEF BoundInv
  <2> QED
    BY <2>4, <2>5, <2>6, <2>7 DEF BoundInv
<1>2. ASSUME NEW r \in Runs, OnlyMoves(r), Quiet(r) PROVE BoundInv'
  <2>1. Open(r)' = {}
    BY <1>2 DEF Quiet, QuietPhase, Open
  <2> QED
    BY <1>1, <1>2, <2>1
<1>3. ASSUME NEW r \in Runs, OnlyMoves(r),
             BeginAttempts(r) \/ StartAttempt(r) \/ RetryAttempt(r)
      PROVE  BoundInv'
  <2> DEFINE a == CurrentAction(r)
             k == KeyFor(ctx[r], a)
  <2>1. /\ a' = a /\ k' = k /\ stores' = stores
        /\ \/ phase[r] \in {"attempt", "running"}
           \/ UsesIdempotency(a) => RecordsOf(r)[k] = NoRecord
    BY <1>3, AttemptSteps
  <2>2. Open(r)' \subseteq IF UsesIdempotency(a) THEN {k} ELSE {}
    BY <2>1 DEF Open
  <2>3. UsesIdempotency(a) => RecordsOf(r)[k] = NoRecord
    BY <1>0, <2>1 DEF Open
  <2>4. RecordsOf(r)' = RecordsOf(r)
    BY <2>1 DEF RecordsOf
  <2>5. \A j \in Open(r)' : RecordsOf(r)'[j] = NoRecord
    BY <2>2, <2>3, <2>4
  <2> QED
    BY <1>1, <1>3, <2>5 DEF LoudStep
<1>4. ASSUME NEW r \in Runs, OnlyMoves(r), LoudStep(r),
             ~ (BeginAttempts(r) \/ StartAttempt(r) \/ RetryAttempt(r))
      PROVE  BoundInv'
  <2>1. phase'[r] \notin {"attempt", "running"}
    <3>1. ASSUME NEW s \in snapshots, NEW i \in Inputs, ResumeRun(r, s, i)
          PROVE  phase'[r] = "loop"
      BY <1>0, <3>1 DEF ResumeRun, Goto, TypeOK
    <3> QED
      BY <1>4, <3>1, ResultSteps DEF LoudStep
  <2>2. Open(r)' = {}
    BY <2>1 DEF Open
  <2> QED
    BY <1>1, <1>4, <2>2
<1>5. CASE UNCHANGED vars
  BY <1>5 DEF vars, BoundInv, Open, RecordsOf, CurrentAction, CurrentList, KeyFor
<1> QED
  BY <1>2, <1>3, <1>4, <1>5, StepOfSomeRun

LEMMA BoundInit == Init => BoundInv
<1> SUFFICES ASSUME Init PROVE BoundInv
  OBVIOUS
<1>1. /\ \A r \in Runs : phase[r] = "unborn" /\ \A k \in Keys : RecordsOf(r)[k] = NoRecord
      /\ snapshots = {}
  BY DEF Init, RecordsOf, StoreOf, StoreIds, EmptyStore
<1> QED
  BY <1>1 DEF BoundInv, Open, Live

(* Where runs have stores of their own or follow one another, and handlers  *)
(* keep to the keys they are given, a key never changes hands: neither a    *)
(* completion nor a restored snapshot binds a bound key to another action.  *)
THEOREM KeysAlwaysStayBound ==
  ASSUME HandlersEchoKeys, StoresAreSafe
  PROVE  Spec => KeysStayBound
<1>1. TypeInv /\ BoundInv /\ [Next]_vars =>
        [\A id \in StoreIds, k \in Keys :
           stores[id][k] # NoRecord => stores'[id][k] = stores[id][k]]_vars
  BY BoundRecordsStay, StepOfSomeRun
<1>2. TypeInv /\ BoundInv /\ [Next]_vars => BoundInv'
  BY BoundStep
<1> QED
  BY <1>1, <1>2, BoundInit, TypeInit, TypeStep, PTL DEF Spec, KeysStayBound

(* What is completed is what is on record.                                  *)
EffectInv ==
  \A k \in Keys : completions[k] = 0 <=> stores["shared"][k] = NoRecord

LEMMA EffectStep ==
  ASSUME HandlersEchoKeys, SharedStore, Serial,
         TypeInv, AttemptInv, BoundInv, EffectInv, [Next]_vars
  PROVE  EffectInv' /\ [Ledger!LedgerNext]_(Ledger!ledgerVars)
<1>0. /\ TypeOK /\ MaxAttempts \in Nat \ {0}
      /\ \A q \in Runs : StoreOf(q) = "shared" /\ RecordsOf(q) = stores["shared"]
      /\ \A q \in Runs : RecordsOf(q)' = stores'["shared"]
      /\ \A q \in Runs : Counted(q)
  BY OptionAssumption DEF TypeInv, StoreOf, RecordsOf, AttemptInv
<1>1. ASSUME NEW r \in Runs, NEW s \in snapshots, NEW i \in Inputs, ResumeRun(r, s, i)
      PROVE  EffectInv' /\ [Ledger!LedgerNext]_(Ledger!ledgerVars)
  <2>1. \A k \in Keys : stores'["shared"][k] = stores["shared"][k]
    BY <1>0, <1>1, ResumedRecords DEF BoundInv
  <2>2. completions' = completions /\ invoked' = invoked
    BY <1>1 DEF ResumeRun
  <2> QED
    BY <2>1, <2>2 DEF EffectInv, Ledger!ledgerVars
<1>2. ASSUME NEW r \in Runs, SucceedAttempt(r)
      PROVE  EffectInv' /\ [Ledger!LedgerNext]_(Ledger!ledgerVars)
  <2> DEFINE a == CurrentAction(r)
             k == KeyFor(ctx[r], a)
  <2>1. CASE ~ UsesIdempotency(a)
    <3>1. stores' = stores /\ completions' = completions /\ invoked' = invoked
      BY <1>2, <2>1, AnsweredRecords, AnsweredKey
    <3> QED
      BY <3>1 DEF EffectInv, Ledger!ledgerVars
  <2>2. CASE UsesIdempotency(a)
    <3>1. /\ a \in Actions /\ k \in Keys /\ phase[r] = "running" /\ Open(r) = {k}
          /\ RecordsOf(r)[k] = NoRecord /\ invoked' = invoked
          /\ completions' = [completions EXCEPT ![k] = @ + 1]
          /\ \A j \in Keys : RecordsOf(r)'[j] = IF j = k THEN a ELSE RecordsOf(r)[j]
      BY <1>2, <2>2, AnsweredRecords, AnsweredKey
    <3> HIDE DEF a, k
    <3>2. completions[k] = 0 /\ completions'[k] = 1
      BY <1>0, <3>1 DEF EffectInv, TypeOK
    <3>3. invoked[r][k] > 0
      BY <1>0, <3>1 DEF Counted
    <3>4. Ledger!Complete(k)
      BY <3>1, <3>2, <3>3 DEF Ledger!Complete
    <3>5. EffectInv'
      BY <1>0, <3>1, <3>2, NullAssumption DEF EffectInv, TypeOK
    <3> QED
      BY <3>1, <3>4, <3>5 DEF Ledger!LedgerNext
  <2> QED
    BY <2>1, <2>2
<1>3. ASSUME NEW r \in Runs, StartAttempt(r)
      PROVE  EffectInv' /\ [Ledger!LedgerNext]_(Ledger!ledgerVars)
  <2> DEFINE a == CurrentAction(r)
             k == KeyFor(ctx[r], a)
  <2>1. /\ phase[r] = "attempt" /\ a \in Actions /\ k \in Keys
        /\ invoked' = IF UsesIdempotency(a) THEN [invoked EXCEPT ![r][k] = @ + 1]
                                            ELSE invoked
        /\ stores' = stores /\ completions' = completions
    BY <1>0, <1>3, AttemptSteps, KeyForType DEF TypeOK
  <2>2. EffectInv'
    BY <2>1 DEF EffectInv
  <2>3. CASE ~ UsesIdempotency(a)
    BY <2>1, <2>2, <2>3 DEF Ledger!ledgerVars
  <2>4. CASE UsesIdempotency(a)
    <3>1. Open(r) = {k}
      BY <2>1, <2>4 DEF Open
    <3> HIDE DEF a, k
    <3>2. RecordsOf(r)[k] = NoRecord
      BY <3>1 DEF BoundInv
    <3>3. completions[k] = 0
      BY <1>0, <2>1, <3>2 DEF EffectInv
    <3>4. invoked[r][k] = job[r].attempt - 1 /\ job[r].attempt \in 1 .. MaxAttempts
      BY <1>0, <2>1, <3>1 DEF Counted
    <3>5. invoked[r][k] < MaxAttempts
      BY <1>0, <3>4
    <3>6. Ledger!Try(r, k)
      BY <2>1, <2>4, <3>3, <3>5 DEF Ledger!Try
    <3> QED
      BY <2>1, <2>2, <3>6 DEF Ledger!LedgerNext
  <2> QED
    BY <2>3, <2>4
<1>4. ASSUME NEW r \in Runs, Quiet(r) \/ LoudStep(r), ~ SucceedAttempt(r),
             ~ StartAttempt(r), ~ (\E s \in snapshots, i \in Inputs : ResumeRun(r, s, i))
      PROVE  EffectInv' /\ [Ledger!LedgerNext]_(Ledger!ledgerVars)
  <2>1. stores' = stores /\ completions' = completions /\ invoked' = invoked
    <3>1. CASE Quiet(r)
      BY <3>1 DEF Quiet, QuietRest
    <3>2. CASE LoudStep(r)
      BY <1>4, <3>2, AttemptSteps, ResultSteps DEF LoudStep
    <3> QED
      BY <1>4, <3>1, <3>2
  <2> QED
    BY <2>1 DEF EffectInv, Ledger!ledgerVars
<1>5. CASE UNCHANGED vars
  BY <1>5 DEF vars, EffectInv, Ledger!ledgerVars
<1> QED
  BY <1>1, <1>2, <1>3, <1>4, <1>5, StepOfSomeRun

(* Runs that share a store and follow one another implement the ledger:     *)
(* across loops, retries, crashes and resumptions from any snapshot, a side *)
(* effect is tried at most maxAttempts times by a run, completes once, and  *)
(* is not tried again.                                                      *)
THEOREM EffectsHappenOnce ==
  ASSUME HandlersEchoKeys, SharedStore, Serial
  PROVE  Spec => EffectsOnce
<1>1. Init => AttemptInv /\ EffectInv /\ Ledger!LedgerInit
  <2> SUFFICES ASSUME Init PROVE AttemptInv /\ EffectInv /\ Ledger!LedgerInit
    OBVIOUS
  <2>1. /\ invoked = [r \in Runs |-> [k \in Keys |-> 0]]
        /\ completions = [k \in Keys |-> 0]
        /\ \A k \in Keys : stores["shared"][k] = NoRecord
        /\ \A r \in Runs : phase[r] = "unborn"
    BY DEF Init, StoreIds, EmptyStore
  <2>2. AttemptInv
    BY <2>1, OptionAssumption DEF AttemptInv, Counted, Moving, Between, Open
  <2>3. EffectInv
    BY <2>1 DEF EffectInv
  <2>4. Ledger!LedgerInit
    BY <2>1 DEF Ledger!LedgerInit
  <2> QED
    BY <2>2, <2>3, <2>4
<1>2. TypeInv /\ AttemptInv /\ [Next]_vars => AttemptInv'
  BY AttemptStep
<1>3. TypeInv /\ BoundInv /\ [Next]_vars => BoundInv'
  BY BoundStep DEF StoresAreSafe
<1>4. TypeInv /\ AttemptInv /\ BoundInv /\ EffectInv /\ [Next]_vars =>
        EffectInv' /\ [Ledger!LedgerNext]_(Ledger!ledgerVars)
  BY EffectStep
<1> QED
  BY <1>1, <1>2, <1>3, <1>4, BoundInit, TypeInit, TypeStep, PTL
  DEF Spec, EffectsOnce, Ledger!LedgerSpec

=============================================================================
