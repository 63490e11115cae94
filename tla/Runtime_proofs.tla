--------------------------- MODULE Runtime_proofs ---------------------------
(* Proofs about Runtime, for every agent, every policy pack, every option   *)
(* and any number of runs: what it holds is well formed (TypeOK), and what  *)
(* a run reports is what it did (ResultMatchesTrace). What the runs leave   *)
(* in the stores and in the snapshots is in RuntimeStores_proofs.           *)
EXTENDS Runtime, TLAPS

(* A decision is one of the three effects, whatever the pack.               *)
LEMMA PolicyEffectType ==
  ASSUME NEW pack, NEW env, NEW a, NEW se, NEW used
  PROVE  PolicyEffect(pack, env, a, se, used) \in Effects
BY DEF PolicyEffect, Effects

(* The keys of an action of the agent are keys.                             *)
LEMMA KeyForType ==
  ASSUME NEW c \in Context, NEW a \in Actions
  PROVE  /\ KeyFor(c, a) \in Keys
         /\ EffectiveKey(c, a) \in Keys
BY AgentAssumption DEF KeyFor, EffectiveKey, Keys, Context

(* A run that is executing an action stands inside the current list.        *)
Positioned ==
  \A r \in Runs : phase[r] \in {"attempt", "running"} =>
                    job[r].idx <= Len(CurrentList(r))

TypeInv == TypeOK /\ Positioned

(* Within the current list, the current action is one of the agent.         *)
LEMMA CurrentActionType ==
  ASSUME TypeOK, NEW r \in Runs, job[r].idx <= Len(CurrentList(r))
  PROVE  CurrentAction(r) \in Actions
<1>1. CurrentList(r) \in Seq(Actions)
  BY AgentAssumption DEF TypeOK, CurrentList, Job, Context
<1>2. job[r].idx \in 1 .. Len(CurrentList(r))
  BY <1>1 DEF TypeOK, Job
<1> QED
  BY <1>1, <1>2 DEF CurrentAction

(* A snapshot taken of a well-formed context is well formed.                *)
LEMMA SnapshotType ==
  ASSUME TypeOK, NEW r \in Runs, NEW c \in Context,
         NEW st \in RuntimeStatus \cup {"running"}
  PROVE  SnapshotOf(r, c, st) \in Snapshot
<1>1. RecordsOf(r) \in Store
  BY DEF TypeOK, RecordsOf, StoreOf, StoreIds
<1> QED
  BY <1>1 DEF SnapshotOf, Snapshot, Context, Store

(* Writing an event keeps a trace a trace.                                  *)
LEMMA EmitType ==
  ASSUME TypeOK, NEW r \in Runs, NEW e \in EventTypes, Emit(r, e)
  PROVE  trace' \in [Runs -> Trace]
<1>0. trace[r] \in Trace
  BY DEF TypeOK
<1>1. (IF e \in TerminalEvents THEN trace[r].terminals + 1
                                ELSE trace[r].terminals) \in Nat
  BY <1>0 DEF Trace
<1>2. EventAdded(trace[r], e) \in Trace
  BY <1>0, <1>1 DEF EventAdded, Trace
<1> QED
  BY <1>2 DEF Emit, TypeOK

(* An event with a contextDelta keeps traces traces; the patch is an action. *)
LEMMA EmitDeltaType ==
  ASSUME TypeOK, NEW r \in Runs, NEW a \in Actions, EmitDelta(r, a)
  PROVE  trace' \in [Runs -> Trace]
<1>0. trace[r] \in Trace
  BY DEF TypeOK
<1> DEFINE t == EventAdded(trace[r], "action.succeeded")
<1>1. t \in Trace
  BY <1>0 DEF EventAdded, Trace, EventTypes, TerminalEvents
<1>2. t.delta \cup {a} \in SUBSET Actions
  BY <1>1 DEF Trace
<1>3. DeltaAdded(trace[r], a) = [t EXCEPT !.delta = t.delta \cup {a}]
  BY DEF DeltaAdded
<1> HIDE DEF t
<1>4. [t EXCEPT !.delta = t.delta \cup {a}] \in Trace
  BY <1>1, <1>2 DEF Trace
<1> QED
  BY <1>3, <1>4 DEF EmitDelta, TypeOK

(* A checkpoint adds a well-formed snapshot or nothing.                     *)
LEMMA CheckpointType ==
  ASSUME TypeOK, NEW r \in Runs, NEW c \in Context, NEW b \in BOOLEAN,
         Checkpoint(r, c, b)
  PROVE  snapshots' \subseteq Snapshot
BY SnapshotType DEF Checkpoint, TypeOK, RuntimeStatus

(* The locals of an iteration stay locals under every update of the code.   *)
LEMMA JobUpdates ==
  ASSUME NEW j \in Job
  PROVE  /\ \A c \in Codes, k \in Keys \cup {NoKey} :
              [j EXCEPT !.code = c, !.key = k] \in Job
         /\ \A c \in Codes : /\ [j EXCEPT !.code = c] \in Job
                             /\ [j EXCEPT !.code = c, !.made = 0] \in Job
         /\ \A n \in Nat : /\ [j EXCEPT !.made = n] \in Job
                           /\ [j EXCEPT !.attempt = n] \in Job
                           /\ [j EXCEPT !.attempt = n, !.made = 0] \in Job
         /\ \A i \in Nat \ {0} : [j EXCEPT !.idx = i, !.made = 0] \in Job
         /\ \A l \in ListNames, i \in Nat \ {0} :
              [j EXCEPT !.list = l, !.idx = i] \in Job
         /\ \A l \in ListNames, i \in Nat \ {0}, t \in States \cup {NoMatch} :
              [j EXCEPT !.next = t, !.list = l, !.idx = i] \in Job
<1>1. \A c \in Codes, k \in Keys \cup {NoKey} :
         [j EXCEPT !.code = c, !.key = k] \in Job
  BY DEF Job
<1>2. \A c \in Codes : /\ [j EXCEPT !.code = c] \in Job
                       /\ [j EXCEPT !.code = c, !.made = 0] \in Job
  BY DEF Job
<1>3. \A n \in Nat : /\ [j EXCEPT !.made = n] \in Job
                     /\ [j EXCEPT !.attempt = n] \in Job
                     /\ [j EXCEPT !.attempt = n, !.made = 0] \in Job
  BY DEF Job
<1>4. \A i \in Nat \ {0} : [j EXCEPT !.idx = i, !.made = 0] \in Job
  BY DEF Job
<1>5. \A l \in ListNames, i \in Nat \ {0} : [j EXCEPT !.list = l, !.idx = i] \in Job
  BY DEF Job
<1>6. \A l \in ListNames, i \in Nat \ {0}, t \in States \cup {NoMatch} :
         [j EXCEPT !.next = t, !.list = l, !.idx = i] \in Job
  BY DEF Job
<1> QED
  BY <1>1, <1>2, <1>3, <1>4, <1>5, <1>6

(* The counters of an iteration can be advanced.                           *)
LEMMA JobCounts ==
  ASSUME NEW j \in Job
  PROVE  /\ j.idx + 1 \in Nat \ {0} /\ j.attempt + 1 \in Nat
         /\ j.made \in Nat /\ j.made + 1 \in Nat
BY DEF Job

(* Contexts stay contexts under every update of the code.                   *)
LEMMA ContextUpdates ==
  ASSUME NEW c \in Context
  PROVE  /\ \A i \in Inputs : [c EXCEPT !.input = i] \in Context
         /\ \A i \in Inputs, s \in States :
              [c EXCEPT !.input = i, !.state = s] \in Context
         /\ \A s \in States : [c EXCEPT !.state = s] \in Context
         /\ \A b \in SUBSET Actions : [c EXCEPT !.context = b] \in Context
         /\ Stepped(c) \in Context
<1>1. \A i \in Inputs : [c EXCEPT !.input = i] \in Context
  BY DEF Context
<1>2. \A i \in Inputs, s \in States :
        [c EXCEPT !.input = i, !.state = s] \in Context
  BY DEF Context
<1>3. \A s \in States : [c EXCEPT !.state = s] \in Context
  BY DEF Context
<1>4. \A b \in SUBSET Actions : [c EXCEPT !.context = b] \in Context
  BY DEF Context
<1>5. c.step + 1 \in Nat
  BY DEF Context
<1>6. Stepped(c) \in Context
  BY <1>5 DEF Context, Stepped
<1> QED
  BY <1>1, <1>2, <1>3, <1>4, <1>6

(* A failure or an answer of executeAction leaves phases and locals typed.  *)
LEMMA ReturnType ==
  ASSUME TypeOK, NEW r \in Runs, NEW code \in Codes,
         NEW key \in Keys \cup {NoKey}, Return(r, code, key)
  PROVE  job' \in [Runs -> Job] /\ phase' \in [Runs -> Phases]
<1>1. job[r] \in Job
  BY DEF TypeOK
<1>2. [job[r] EXCEPT !.code = code, !.key = key] \in Job
  BY <1>1, JobUpdates
<1> QED
  BY <1>2 DEF Return, Goto, TypeOK, Phases, Live

(* Accounting for a result keeps the run context well formed.               *)
LEMMA AccountedType ==
  ASSUME TypeOK, NEW r \in Runs
  PROVE  Accounted(r) \in Context
<1>1. ctx[r] \in Context /\ job[r] \in Job
  BY DEF TypeOK
<1>2. ctx[r].calls + job[r].made \in Nat
  BY <1>1 DEF Context, Job
<1>3. ctx[r].keys \cup ({job[r].key} \ {NoKey}) \in SUBSET Keys
  BY <1>1 DEF Context, Job
<1> QED
  BY <1>1, <1>2, <1>3 DEF Accounted, Context

(* A run that is not put into an attempt disturbs nobody's position.        *)
LEMMA PositionedElsewhere ==
  ASSUME TypeInv, NEW r \in Runs, phase'[r] \notin {"attempt", "running"},
         \A q \in Runs \ {r} : /\ phase'[q] = phase[q]
                               /\ job'[q] = job[q] /\ ctx'[q] = ctx[q]
  PROVE  Positioned'
BY DEF TypeInv, Positioned, CurrentList

(* Every step of a run keeps the state well formed.                         *)
LEMMA TypeStep ==
  ASSUME TypeInv, [Next]_vars
  PROVE  TypeInv'
<1>1. ASSUME NEW r \in Runs, NEW input \in Inputs, NEW entry \in EntryStates,
             StartRun(r, input, entry)
      PROVE  TypeInv'
  <2>1. ctx[r] \in Context /\ entry \in States
    BY <1>1, AgentAssumption DEF StartRun, TypeInv, TypeOK
  <2>2. [ctx[r] EXCEPT !.input = input, !.state = entry] \in Context
    BY <2>1, ContextUpdates
  <2>3. TypeOK'
    BY <1>1, <2>2, EmitType
    DEF StartRun, EventTypes, TypeInv, TypeOK, Goto, Conclude, Phases, Live,
        RuntimeStatus
  <2>4. Positioned'
    BY <1>1, PositionedElsewhere
    DEF StartRun, Goto, Conclude, Return, TypeInv, TypeOK
  <2> QED
    BY <2>3, <2>4 DEF TypeInv
<1>2. ASSUME NEW r \in Runs, NEW input \in Inputs, StartInvalid(r, input)
      PROVE  TypeInv'
  <2>1. [ctx[r] EXCEPT !.input = input] \in Context
    BY ContextUpdates DEF TypeInv, TypeOK
  <2>2. TypeOK'
    BY <1>2, <2>1, EmitType
    DEF StartInvalid, EventTypes, TypeInv, TypeOK, Goto, Conclude, Phases,
        Live, RuntimeStatus
  <2>3. Positioned'
    BY <1>2, PositionedElsewhere
    DEF StartInvalid, Goto, Conclude, Return, TypeInv, TypeOK
  <2> QED
    BY <2>2, <2>3 DEF TypeInv
<1>3. ASSUME NEW r \in Runs, NEW s \in snapshots, NEW input \in Inputs,
             ResumeRun(r, s, input)
      PROVE  TypeInv'
  <2>1. s \in Snapshot
    BY DEF TypeInv, TypeOK
  <2>2. Restored(s, input) \in Context
    BY <2>1 DEF Restored, Snapshot, Context
  <2>3. s.records \in Store /\ RecordsOf(r) \in Store
    BY <2>1 DEF Snapshot, RecordsOf, StoreOf, StoreIds, TypeInv, TypeOK
  <2>4. [k \in Keys |-> IF s.records[k] # NoRecord THEN s.records[k]
                                               ELSE RecordsOf(r)[k]] \in Store
    BY <2>3 DEF Store
  <2>5. stores' \in [StoreIds -> Store]
    BY <1>3, <2>4 DEF ResumeRun, RecordsOf, TypeInv, TypeOK
  <2>6. TypeOK'
    BY <1>3, <2>2, <2>5, EmitType
    DEF ResumeRun, EventTypes, TypeInv, TypeOK, Goto, Conclude, Phases, Live,
        RuntimeStatus
  <2>7. Positioned'
    BY <1>3, PositionedElsewhere
    DEF ResumeRun, Goto, Conclude, Return, TypeInv, TypeOK
  <2> QED
    BY <2>6, <2>7 DEF TypeInv
<1>4. ASSUME NEW r \in Runs, ExceedDuration(r) PROVE TypeInv'
  <2>1. TypeOK'
    BY <1>4, EmitType
    DEF ExceedDuration, EventTypes, TypeInv, TypeOK, Goto, Conclude, Phases,
        Live, RuntimeStatus
  <2>2. Positioned'
    BY <1>4, PositionedElsewhere
    DEF ExceedDuration, Goto, Conclude, Return, TypeInv, TypeOK
  <2> QED
    BY <2>1, <2>2 DEF TypeInv
<1>5. ASSUME NEW r \in Runs, ExhaustSteps(r) PROVE TypeInv'
  <2>1. TypeOK'
    BY <1>5, EmitType
    DEF ExhaustSteps, EventTypes, TypeInv, TypeOK, Goto, Conclude, Phases,
        Live, RuntimeStatus
  <2>2. Positioned'
    BY <1>5, PositionedElsewhere
    DEF ExhaustSteps, Goto, Conclude, Return, TypeInv, TypeOK
  <2> QED
    BY <2>1, <2>2 DEF TypeInv
<1>6. ASSUME NEW r \in Runs, EnterState(r) PROVE TypeInv'
  <2>1. Stepped(ctx[r]) \in Context
    BY ContextUpdates DEF TypeInv, TypeOK
  <2>2. snapshots' \subseteq Snapshot
    BY <1>6, <2>1, CheckpointType, OptionAssumption DEF EnterState, TypeInv
  <2>3. FreshJob \in Job
    BY DEF FreshJob, Job, ListNames, Codes
  <2>4. TypeOK'
    BY <1>6, <2>1, <2>2, <2>3, EmitType
    DEF EnterState, EventTypes, TypeInv, TypeOK, Goto, Conclude, Phases, Live,
        RuntimeStatus
  <2>5. Positioned'
    BY <1>6, PositionedElsewhere
    DEF EnterState, Goto, Conclude, Return, TypeInv, TypeOK
  <2> QED
    BY <2>4, <2>5 DEF TypeInv
<1>7. ASSUME NEW r \in Runs, FailGuards(r) PROVE TypeInv'
  <2>1. TypeOK'
    BY <1>7, EmitType
    DEF FailGuards, EventTypes, TypeInv, TypeOK, Goto, Conclude, Phases, Live,
        RuntimeStatus
  <2>2. Positioned'
    BY <1>7, PositionedElsewhere
    DEF FailGuards, Goto, Conclude, Return, TypeInv, TypeOK
  <2> QED
    BY <2>1, <2>2 DEF TypeInv
<1>8. ASSUME NEW r \in Runs, PassGuards(r) PROVE TypeInv'
  <2>1. TypeOK'
    BY <1>8, EmitType
    DEF PassGuards, EventTypes, TypeInv, TypeOK, Goto, Conclude, Phases, Live,
        RuntimeStatus
  <2>2. Positioned'
    BY <1>8, PositionedElsewhere
    DEF PassGuards, Goto, Conclude, Return, TypeInv, TypeOK
  <2> QED
    BY <2>1, <2>2 DEF TypeInv
<1>9. ASSUME NEW r \in Runs, FinishList(r) PROVE TypeInv'
  <2>1. job[r] \in Job /\ job[r].list \in {"on_enter", "actions", "on_exit"}
    BY DEF TypeInv, TypeOK, Job, ListNames
  <2>2. 1 \in Nat \ {0} /\ "actions" \in ListNames
    BY DEF ListNames
  <2>3. [job[r] EXCEPT !.list = "actions", !.idx = 1] \in Job
    BY <2>1, <2>2, JobUpdates
  <2>4. TypeOK'
    BY <1>9, <2>1, <2>3
    DEF FinishList, TypeInv, TypeOK, Goto, Conclude, Phases, Live,
        RuntimeStatus
  <2>5. Positioned'
    BY <1>9, <2>1, PositionedElsewhere DEF FinishList, Goto, TypeInv, TypeOK
  <2> QED
    BY <2>4, <2>5 DEF TypeInv
<1>10. ASSUME NEW r \in Runs, ResolveTransition(r) PROVE TypeInv'
  <2>1. PICK t \in Resolvable(ctx[r].state) :
          /\ job' = [job EXCEPT ![r] =
                       [@ EXCEPT !.next = t, !.list = "on_exit", !.idx = 1]]
          /\ IF t = NoMatch THEN UNCHANGED trace ELSE Emit(r, "transition.resolved")
    BY <1>10 DEF ResolveTransition
  <2>2. t \in States \cup {NoMatch}
    BY AgentAssumption DEF Resolvable, TypeInv, TypeOK, Context
  <2>3. [job[r] EXCEPT !.next = t, !.list = "on_exit", !.idx = 1] \in Job
    <3>1. job[r] \in Job /\ 1 \in Nat \ {0} /\ "on_exit" \in ListNames
      BY DEF TypeInv, TypeOK, ListNames
    <3> QED
      BY <2>2, <3>1, JobUpdates
  <2>4. job' \in [Runs -> Job]
    BY <2>1, <2>3 DEF TypeInv, TypeOK
  <2>5. trace' \in [Runs -> Trace]
    BY <2>1, EmitType DEF TypeInv, TypeOK, EventTypes
  <2>6. TypeOK'
    BY <1>10, <2>4, <2>5
    DEF ResolveTransition, TypeInv, TypeOK, Goto, Conclude, Phases, Live,
        RuntimeStatus
  <2>7. Positioned'
    BY <1>10, PositionedElsewhere
    DEF ResolveTransition, Goto, Conclude, Return, TypeInv, TypeOK
  <2> QED
    BY <2>6, <2>7 DEF TypeInv
<1>11. ASSUME NEW r \in Runs, FailTransition(r) PROVE TypeInv'
  <2>1. TypeOK'
    BY <1>11, EmitType
    DEF FailTransition, EventTypes, TypeInv, TypeOK, Goto, Conclude, Phases,
        Live, RuntimeStatus
  <2>2. Positioned'
    BY <1>11, PositionedElsewhere
    DEF FailTransition, Goto, Conclude, Return, TypeInv, TypeOK
  <2> QED
    BY <2>1, <2>2 DEF TypeInv
<1>12. ASSUME NEW r \in Runs, MoveOn(r) PROVE TypeInv'
  <2>1. job[r].next \in States
    BY <1>12 DEF MoveOn, TypeInv, TypeOK, Job
  <2>2. [ctx[r] EXCEPT !.state = job[r].next] \in Context
    BY <2>1, ContextUpdates DEF TypeInv, TypeOK
  <2>3. TypeOK'
    BY <1>12, <2>2, EmitType
    DEF MoveOn, EventTypes, TypeInv, TypeOK, Goto, Conclude, Phases, Live,
        RuntimeStatus
  <2>4. Positioned'
    BY <1>12, PositionedElsewhere
    DEF MoveOn, Goto, Conclude, Return, TypeInv, TypeOK
  <2> QED
    BY <2>3, <2>4 DEF TypeInv
<1>13. ASSUME NEW r \in Runs, Stop(r) PROVE TypeInv'
  <2>1. TypeOK'
    BY <1>13, EmitType
    DEF Stop, EventTypes, TypeInv, TypeOK, Goto, Conclude, Phases, Live,
        RuntimeStatus
  <2>2. Positioned'
    BY <1>13, PositionedElsewhere
    DEF Stop, Goto, Conclude, Return, TypeInv, TypeOK
  <2> QED
    BY <2>1, <2>2 DEF TypeInv
<1>14. ASSUME NEW r \in Runs, EndRun(r) PROVE TypeInv'
  <2>1. SnapshotOf(r, ctx[r], status[r]) \in Snapshot
    BY SnapshotType DEF TypeInv, TypeOK
  <2>2. TypeOK'
    BY <1>14, <2>1
    DEF EndRun, TypeInv, TypeOK, Goto, Conclude, Phases, Live, RuntimeStatus
  <2>3. Positioned'
    BY <1>14, PositionedElsewhere
    DEF EndRun, Goto, Conclude, Return, TypeInv, TypeOK
  <2> QED
    BY <2>2, <2>3 DEF TypeInv
<1>15. ASSUME NEW r \in Runs, DenyAction(r) PROVE TypeInv'
  <2>1. [job[r] EXCEPT !.code = "failed"] \in Job
    BY JobUpdates DEF TypeInv, TypeOK, Codes, ListNames
  <2>2. TypeOK'
    BY <1>15, <2>1, EmitType
    DEF DenyAction, EventTypes, TypeInv, TypeOK, Goto, Conclude, Phases, Live,
        RuntimeStatus
  <2>3. Positioned'
    BY <1>15, PositionedElsewhere
    DEF DenyAction, Goto, Conclude, Return, TypeInv, TypeOK
  <2> QED
    BY <2>2, <2>3 DEF TypeInv
<1>16. ASSUME NEW r \in Runs, HandOffAction(r) PROVE TypeInv'
  <2>1. [job[r] EXCEPT !.code = "handoff"] \in Job
    BY JobUpdates DEF TypeInv, TypeOK, Codes, ListNames
  <2>2. TypeOK'
    BY <1>16, <2>1, EmitType
    DEF HandOffAction, EventTypes, TypeInv, TypeOK, Goto, Conclude, Phases,
        Live, RuntimeStatus
  <2>3. Positioned'
    BY <1>16, PositionedElsewhere
    DEF HandOffAction, Goto, Conclude, Return, TypeInv, TypeOK
  <2> QED
    BY <2>2, <2>3 DEF TypeInv
<1>17. ASSUME NEW r \in Runs, ConflictAction(r) PROVE TypeInv'
  <2>1. CurrentAction(r) \in Actions
    BY <1>17, CurrentActionType DEF ConflictAction, AtAction, TypeInv
  <2>2. KeyFor(ctx[r], CurrentAction(r)) \in Keys
    BY <2>1, KeyForType DEF TypeInv, TypeOK
  <2>3. job' \in [Runs -> Job] /\ phase' \in [Runs -> Phases]
    BY <1>17, <2>2, ReturnType DEF ConflictAction, Codes, TypeInv
  <2>4. TypeOK'
    BY <1>17, <2>3 DEF ConflictAction, TypeInv, TypeOK
  <2>5. Positioned'
    BY <1>17, PositionedElsewhere
    DEF ConflictAction, Goto, Conclude, Return, TypeInv, TypeOK
  <2> QED
    BY <2>4, <2>5 DEF TypeInv
<1>18. ASSUME NEW r \in Runs, ReplayAction(r) PROVE TypeInv'
  <2>1. CurrentAction(r) \in Actions
    BY <1>18, CurrentActionType DEF ReplayAction, AtAction, TypeInv
  <2>2. KeyFor(ctx[r], CurrentAction(r)) \in Keys
    BY <2>1, KeyForType DEF TypeInv, TypeOK
  <2>3. job' \in [Runs -> Job] /\ phase' \in [Runs -> Phases]
    BY <1>18, <2>2, ReturnType DEF ReplayAction, Codes, TypeInv
  <2>4. TypeOK'
    BY <1>18, <2>1, <2>3, EmitDeltaType DEF ReplayAction, TypeInv, TypeOK
  <2>5. Positioned'
    BY <1>18, PositionedElsewhere
    DEF ReplayAction, Goto, Conclude, Return, TypeInv, TypeOK
  <2> QED
    BY <2>4, <2>5 DEF TypeInv
<1>19. ASSUME NEW r \in Runs, RejectUnregistered(r) PROVE TypeInv'
  <2>1. CurrentAction(r) \in Actions
    BY <1>19, CurrentActionType DEF RejectUnregistered, AtAction, TypeInv
  <2>2. KeyFor(ctx[r], CurrentAction(r)) \in Keys
    BY <2>1, KeyForType DEF TypeInv, TypeOK
  <2>3. job' \in [Runs -> Job] /\ phase' \in [Runs -> Phases]
    BY <1>19, <2>2, ReturnType DEF RejectUnregistered, Codes, TypeInv
  <2>4. TypeOK'
    BY <1>19, <2>3, EmitType DEF RejectUnregistered, EventTypes, TypeInv, TypeOK
  <2>5. Positioned'
    BY <1>19, PositionedElsewhere
    DEF RejectUnregistered, Goto, Conclude, Return, TypeInv, TypeOK
  <2> QED
    BY <2>4, <2>5 DEF TypeInv
<1>20. ASSUME NEW r \in Runs, BeginAttempts(r) PROVE TypeInv'
  <2>1. [job[r] EXCEPT !.attempt = 1, !.made = 0] \in Job
    BY JobUpdates DEF TypeInv, TypeOK
  <2>2. TypeOK'
    BY <1>20, <2>1
    DEF BeginAttempts, TypeInv, TypeOK, Goto, Conclude, Phases, Live,
        RuntimeStatus
  <2>3. Positioned'
    BY <1>20, <2>1
    DEF BeginAttempts, AtAction, Positioned, CurrentList, Goto, TypeInv,
        TypeOK
  <2> QED
    BY <2>2, <2>3 DEF TypeInv
<1>21. ASSUME NEW r \in Runs, StartAttempt(r) PROVE TypeInv'
  <2>1. /\ CurrentAction(r) \in Actions
        /\ KeyFor(ctx[r], CurrentAction(r)) \in Keys
    BY <1>21, CurrentActionType, KeyForType
    DEF StartAttempt, Positioned, TypeInv, TypeOK
  <2>2. [job[r] EXCEPT !.made = IF SideEffect[CurrentAction(r)] = "external"
                                THEN @ + 1 ELSE @] \in Job
    <3>1. job[r] \in Job
      BY DEF TypeInv, TypeOK
    <3>2. (IF SideEffect[CurrentAction(r)] = "external"
           THEN job[r].made + 1 ELSE job[r].made) \in Nat
      BY <3>1, JobCounts
    <3> QED
      BY <3>1, <3>2, JobUpdates
  <2>3. invoked' \in [Runs -> [Keys -> Nat]]
    BY <1>21, <2>1 DEF StartAttempt, TypeInv, TypeOK
  <2>4. TypeOK'
    BY <1>21, <2>2, <2>3, EmitType
    DEF StartAttempt, EventTypes, TypeInv, TypeOK, Goto, Conclude, Phases,
        Live, RuntimeStatus
  <2>5. Positioned'
    BY <1>21, <2>2
    DEF StartAttempt, Positioned, CurrentList, Goto, TypeInv, TypeOK
  <2> QED
    BY <2>4, <2>5 DEF TypeInv
<1>22. ASSUME NEW r \in Runs, SucceedAttempt(r) PROVE TypeInv'
  <2>1. /\ CurrentAction(r) \in Actions
        /\ KeyFor(ctx[r], CurrentAction(r)) \in Keys
        /\ EffectiveKey(ctx[r], CurrentAction(r)) \in Keys
    BY <1>22, CurrentActionType, KeyForType
    DEF SucceedAttempt, Positioned, TypeInv, TypeOK
  <2>2. ctx[r].context \cup {CurrentAction(r)} \in SUBSET Actions
    BY <2>1 DEF TypeInv, TypeOK, Context
  <2>3. [ctx[r] EXCEPT !.context = @ \cup {CurrentAction(r)}] \in Context
    BY <2>2, ContextUpdates DEF TypeInv, TypeOK
  <2>4. ctx' \in [Runs -> Context]
    BY <1>22, <2>3 DEF SucceedAttempt, TypeInv, TypeOK
  <2>5. stores' \in [StoreIds -> Store] /\ completions' \in [Keys -> Nat]
    <3>1. CASE UsesIdempotency(CurrentAction(r))
      <4> DEFINE k == EffectiveKey(ctx[r], CurrentAction(r))
      <4>1. /\ stores' = [stores EXCEPT ![StoreOf(r)][k] = CurrentAction(r)]
            /\ completions' = [completions EXCEPT ![k] = @ + 1]
        BY <1>22, <3>1 DEF SucceedAttempt
      <4> HIDE DEF k
      <4> QED
        <5>1. k \in Keys /\ StoreOf(r) \in StoreIds
          BY <2>1 DEF k, StoreOf, StoreIds
        <5>2. [stores[StoreOf(r)] EXCEPT ![k] = CurrentAction(r)] \in Store
          BY <2>1, <5>1 DEF Store, TypeInv, TypeOK
        <5>3. completions' \in [Keys -> Nat]
          BY <4>1, <5>1 DEF TypeInv, TypeOK
        <5> QED
          BY <4>1, <5>1, <5>2, <5>3 DEF TypeInv, TypeOK
    <3>2. CASE ~ UsesIdempotency(CurrentAction(r))
      BY <1>22, <3>2 DEF SucceedAttempt, TypeInv, TypeOK
    <3> QED
      BY <3>1, <3>2
  <2>6. job' \in [Runs -> Job] /\ phase' \in [Runs -> Phases]
    BY <1>22, <2>1, ReturnType DEF SucceedAttempt, Codes, TypeInv
  <2>7. TypeOK'
    BY <1>22, <2>1, <2>4, <2>5, <2>6, EmitDeltaType
    DEF SucceedAttempt, TypeInv, TypeOK
  <2>8. Positioned'
    BY <1>22, PositionedElsewhere
    DEF SucceedAttempt, Goto, Conclude, Return, TypeInv, TypeOK
  <2> QED
    BY <2>7, <2>8 DEF TypeInv
<1>23. ASSUME NEW r \in Runs, RefusePatch(r) PROVE TypeInv'
  <2>1. /\ CurrentAction(r) \in Actions
        /\ KeyFor(ctx[r], CurrentAction(r)) \in Keys
        /\ EffectiveKey(ctx[r], CurrentAction(r)) \in Keys
    BY <1>23, CurrentActionType, KeyForType
    DEF RefusePatch, Positioned, TypeInv, TypeOK
  <2>2. ctx[r].context \cup {CurrentAction(r)} \in SUBSET Actions
    BY <2>1 DEF TypeInv, TypeOK, Context
  <2>3. [ctx[r] EXCEPT !.context = @ \cup {CurrentAction(r)}] \in Context
    BY <2>2, ContextUpdates DEF TypeInv, TypeOK
  <2>4. ctx' \in [Runs -> Context]
    BY <1>23, <2>3 DEF RefusePatch, TypeInv, TypeOK
  <2>5. job' \in [Runs -> Job] /\ phase' \in [Runs -> Phases]
    BY <1>23, <2>1, ReturnType DEF RefusePatch, Codes, TypeInv
  <2>6. TypeOK'
    BY <1>23, <2>4, <2>5, EmitType DEF RefusePatch, EventTypes, TypeInv, TypeOK
  <2>7. Positioned'
    BY <1>23, PositionedElsewhere
    DEF RefusePatch, Goto, Conclude, Return, TypeInv, TypeOK
  <2> QED
    BY <2>6, <2>7 DEF TypeInv
<1>24. ASSUME NEW r \in Runs, RetryAttempt(r) PROVE TypeInv'
  <2>1. [job[r] EXCEPT !.attempt = @ + 1] \in Job
    BY JobUpdates, JobCounts DEF TypeInv, TypeOK
  <2>2. TypeOK'
    BY <1>24, <2>1, EmitType
    DEF RetryAttempt, EventTypes, TypeInv, TypeOK, Goto, Conclude, Phases,
        Live, RuntimeStatus
  <2>3. Positioned'
    BY <1>24, <2>1
    DEF RetryAttempt, Positioned, CurrentList, Goto, TypeInv, TypeOK
  <2> QED
    BY <2>2, <2>3 DEF TypeInv
<1>25. ASSUME NEW r \in Runs, FailAttempt(r) PROVE TypeInv'
  <2>1. /\ CurrentAction(r) \in Actions
        /\ KeyFor(ctx[r], CurrentAction(r)) \in Keys
        /\ EffectiveKey(ctx[r], CurrentAction(r)) \in Keys
    BY <1>25, CurrentActionType, KeyForType
    DEF FailAttempt, Positioned, TypeInv, TypeOK
  <2>0. PICK o : \E c \in CodesOf(o) : Return(r, c, FailureKey(r, o))
    BY <1>25 DEF FailAttempt
  <2>2. PICK c \in CodesOf(o) : Return(r, c, FailureKey(r, o))
    BY <2>0
  <2>3. FailureKey(r, o) \in Keys \cup {NoKey} /\ c \in Codes
    BY <2>1, AgentAssumption DEF FailureKey, CodesOf, BranchedCodes, Codes
  <2>4. job' \in [Runs -> Job] /\ phase' \in [Runs -> Phases]
    BY <2>2, <2>3, ReturnType DEF TypeInv
  <2>5. TypeOK'
    BY <1>25, <2>4, EmitType DEF FailAttempt, EventTypes, TypeInv, TypeOK
  <2>6. Positioned'
    BY <1>25, PositionedElsewhere
    DEF FailAttempt, Goto, Conclude, Return, TypeInv, TypeOK
  <2> QED
    BY <2>5, <2>6 DEF TypeInv
<1>26. ASSUME NEW r \in Runs, AccountAction(r) PROVE TypeInv'
  <2>1. Accounted(r) \in Context
    BY AccountedType DEF TypeInv
  <2>2. snapshots' \subseteq Snapshot
    BY <1>26, <2>1, CheckpointType, OptionAssumption DEF AccountAction, TypeInv
  <2>3. /\ PastAction(job[r]) \in Job
        /\ [job[r] EXCEPT !.made = 0] \in Job
    BY JobUpdates, JobCounts DEF PastAction, TypeInv, TypeOK
  <2>4. job' \in [Runs -> Job]
    <3>1. CASE job[r].code = "ok"
      <4>1. job' = [job EXCEPT ![r] = PastAction(job[r])]
        BY <1>26, <3>1 DEF AccountAction
      <4> QED
        BY <2>3, <4>1 DEF TypeInv, TypeOK
    <3>2. CASE job[r].code # "ok"
      <4>1. job' = [job EXCEPT ![r] = [job[r] EXCEPT !.made = 0]]
        BY <1>26, <3>2 DEF AccountAction
      <4> QED
        BY <2>3, <4>1 DEF TypeInv, TypeOK
    <3> QED
      BY <3>1, <3>2
  <2>5. TypeOK'
    BY <1>26, <2>1, <2>2, <2>4
    DEF AccountAction, TypeInv, TypeOK, Goto, Conclude, Phases, Live,
        RuntimeStatus
  <2>6. Positioned'
    BY <1>26, PositionedElsewhere
    DEF AccountAction, Goto, Conclude, Return, TypeInv, TypeOK
  <2> QED
    BY <2>5, <2>6 DEF TypeInv
<1>27. ASSUME NEW r \in Runs, ExceedExternalCalls(r) PROVE TypeInv'
  <2>1. Accounted(r) \in Context
    BY AccountedType DEF TypeInv
  <2>2. snapshots' \subseteq Snapshot
    BY <1>27, <2>1, CheckpointType, OptionAssumption
    DEF ExceedExternalCalls, TypeInv
  <2>3. [job[r] EXCEPT !.code = "budget", !.made = 0] \in Job
    BY JobUpdates DEF Codes, TypeInv, TypeOK
  <2>4. job' \in [Runs -> Job]
    BY <1>27, <2>3 DEF ExceedExternalCalls, TypeInv, TypeOK
  <2>5. TypeOK'
    BY <1>27, <2>1, <2>2, <2>4, EmitType
    DEF ExceedExternalCalls, EventTypes, TypeInv, TypeOK, Goto, Conclude,
        Phases, Live, RuntimeStatus
  <2>6. Positioned'
    BY <1>27, PositionedElsewhere
    DEF ExceedExternalCalls, Goto, Conclude, Return, TypeInv, TypeOK
  <2> QED
    BY <2>5, <2>6 DEF TypeInv
<1>28. ASSUME NEW r \in Runs, FailRun(r) PROVE TypeInv'
  <2>1. TypeOK'
    BY <1>28, EmitType
    DEF FailRun, EventTypes, TypeInv, TypeOK, Goto, Conclude, Phases, Live,
        RuntimeStatus
  <2>2. Positioned'
    BY <1>28, PositionedElsewhere
    DEF FailRun, Goto, Conclude, Return, TypeInv, TypeOK
  <2> QED
    BY <2>1, <2>2 DEF TypeInv
<1>29. ASSUME NEW r \in Runs, Crash(r) PROVE TypeInv'
  <2>1. TypeOK'
    BY <1>29, EmitType
    DEF Crash, EventTypes, TypeInv, TypeOK, Goto, Conclude, Phases, Live,
        RuntimeStatus
  <2>2. Positioned'
    BY <1>29, PositionedElsewhere
    DEF Crash, Goto, Conclude, Return, TypeInv, TypeOK
  <2> QED
    BY <2>1, <2>2 DEF TypeInv
<1>30. CASE UNCHANGED vars
  BY <1>30 DEF vars, TypeInv, TypeOK, Positioned, CurrentList
<1> QED
  BY <1>1, <1>2, <1>3, <1>4, <1>5, <1>6, <1>7, <1>8, <1>9, <1>10, <1>11,
     <1>12, <1>13, <1>14, <1>15, <1>16, <1>17, <1>18, <1>19, <1>20, <1>21,
     <1>22, <1>23, <1>24, <1>25, <1>26, <1>27, <1>28, <1>29, <1>30
  DEF Next, Begin, Step

(* Before any executeRun call nothing is stored and no run is anywhere.     *)
LEMMA TypeInit == Init => TypeInv
<1> SUFFICES ASSUME Init PROVE TypeInv
  OBVIOUS
<1>1. phase \in [Runs -> Phases] /\ status \in [Runs -> RuntimeStatus \cup {"running"}]
  BY DEF Init, Phases
<1>2. ctx \in [Runs -> Context]
  <2>1. PICK i \in Inputs :
          ctx = [r \in Runs |-> [scope |-> r, input |-> i, resumed |-> FALSE,
                                state |-> InitialState, step |-> 0, calls |-> 0,
                                keys |-> {}, context |-> {}]]
    BY DEF Init
  <2> QED
    BY <2>1, AgentAssumption DEF Context
<1>3. FreshJob \in Job
  BY DEF FreshJob, Job, ListNames, Codes
<1>4. trace \in [Runs -> Trace]
  BY DEF Init, Trace, EventTypes
<1>5. stores \in [StoreIds -> Store]
  BY DEF Init, EmptyStore, Store
<1> QED
  BY <1>1, <1>2, <1>3, <1>4, <1>5 DEF Init, TypeInv, TypeOK, Positioned

(* Whatever the agent, the policies, the options and the number of runs,    *)
(* phases, contexts, results, stores and snapshots are always well formed.  *)
THEOREM TypeCorrect == Spec => []TypeOK
<1>1. Spec => []TypeInv
  BY TypeInit, TypeStep, PTL DEF Spec
<1> QED
  BY <1>1, PTL DEF TypeInv

-----------------------------------------------------------------------------
(* ResultMatchesTrace: the trace of a run holds exactly one terminal event,  *)
(* the last, and it agrees with the result, unless a handler answered one of *)
(* the codes the loops branch on: then it holds none and ends with the       *)
(* failure of that action.                                                   *)

(* Phases in which nothing terminal has been reported.                       *)
Silent == (Live \ {"ending", "failing"}) \cup {"unborn"}

(* A handler has answered the code c: the trace t ends with its failure.     *)
TookCode(c, t) == c \in HandlerCodes \cap BranchedCodes /\ t.last = "action.failed"

(* What the trace t of a run in phase p, with the code c of its last action  *)
(* and the status st, holds. A failing run has reported its handoff or its   *)
(* exceeded budget if runAction set the code, and nothing else.              *)
Agrees(p, c, st, t) ==
  /\ p \in Silent => t.terminals = 0
  /\ p = "account" => c \in {"ok", "failed"} \/ TookCode(c, t)
  /\ p = "failing" =>
       CASE TookCode(c, t)  -> t.terminals = 0
         [] c = "handoff" /\ ~ TookCode(c, t) ->
              t.terminals = 1 /\ t.last = "handoff.requested"
         [] c = "budget" /\ ~ TookCode(c, t)  ->
              t.terminals = 1 /\ t.last = "run.failed"
         [] OTHER           -> t.terminals = 0
  /\ p \in {"ending", "done"} =>
       IF TookCode(c, t) THEN t.terminals = 0 /\ st = StatusFor(c)
                         ELSE t.terminals = 1 /\ t.last = TerminalFor(st)

ReportInv == \A r \in Runs : Agrees(phase[r], job[r].code, status[r], trace[r])

(* A step of r moves no other run.                                           *)
OthersStay(r) ==
  \A q \in Runs \ {r} : /\ phase'[q] = phase[q] /\ job'[q] = job[q]
                         /\ status'[q] = status[q] /\ trace'[q] = trace[q]

(* A step of r preserves the invariant if r itself agrees after it.          *)
LEMMA AgreeingStep ==
  ASSUME ReportInv, NEW r \in Runs, OthersStay(r),
         Agrees(phase'[r], job'[r].code, status'[r], trace'[r])
  PROVE  ReportInv'
BY DEF ReportInv, OthersStay, Agrees, TookCode, TerminalFor

(* An event becomes the last one and is counted if it is terminal.           *)
LEMMA EmitReports ==
  ASSUME TypeOK, NEW r \in Runs, NEW e, Emit(r, e)
  PROVE  /\ \A q \in Runs \ {r} : trace'[q] = trace[q]
         /\ trace'[r].last = e
         /\ trace'[r].terminals = IF e \in TerminalEvents
                                    THEN trace[r].terminals + 1 ELSE trace[r].terminals
<1>1. trace[r] \in Trace
  BY DEF TypeOK
<1>2. trace' = [trace EXCEPT ![r] = EventAdded(trace[r], e)]
  BY DEF Emit
<1>3. /\ EventAdded(trace[r], e).last = e
      /\ EventAdded(trace[r], e).terminals =
           IF e \in TerminalEvents THEN trace[r].terminals + 1 ELSE trace[r].terminals
  BY <1>1 DEF EventAdded, Trace
<1> QED
  BY <1>2, <1>3 DEF TypeOK

(* A reported patch is no terminal event.                                    *)
LEMMA DeltaReports ==
  ASSUME TypeOK, NEW r \in Runs, NEW a, EmitDelta(r, a)
  PROVE  /\ \A q \in Runs \ {r} : trace'[q] = trace[q]
         /\ trace'[r].terminals = trace[r].terminals
<1>1. trace[r] \in Trace
  BY DEF TypeOK
<1> DEFINE t == EventAdded(trace[r], "action.succeeded")
<1>2. t \in Trace /\ t.terminals = trace[r].terminals
  BY <1>1 DEF EventAdded, Trace, EventTypes, TerminalEvents
<1> HIDE DEF t
<1>3. [t EXCEPT !.delta = t.delta \cup {a}].terminals = trace[r].terminals
  BY <1>2 DEF Trace
<1>4. trace' = [trace EXCEPT ![r] = [t EXCEPT !.delta = t.delta \cup {a}]]
  BY DEF EmitDelta, DeltaAdded, t
<1> QED
  BY <1>3, <1>4 DEF TypeOK

(* Every step of a run keeps trace and result in agreement.                  *)
LEMMA ReportStep ==
  ASSUME TypeInv, ReportInv, [Next]_vars
  PROVE  ReportInv'
<1>0. TypeOK /\ \A r \in Runs : job[r] \in Job /\ job[r].code \in Codes
                               /\ trace[r].terminals \in Nat
  BY DEF TypeInv, TypeOK, Job, Trace
<1>1. ASSUME NEW r \in Runs, NEW i \in Inputs, NEW e \in EntryStates, StartRun(r, i, e)
      PROVE  ReportInv'
  <2>1. Agrees(phase[r], job[r].code, status[r], trace[r])
    BY DEF ReportInv
  <2>2. /\ OthersStay(r)
        /\ phase[r] = "unborn" /\ phase'[r] = "loop"
        /\ trace'[r].terminals = trace[r].terminals
    BY <1>0, <1>1, EmitReports
    DEF StartRun, Goto, OthersStay, TypeOK, TerminalEvents
  <2>3. Agrees(phase'[r], job'[r].code, status'[r], trace'[r])
    BY <2>1, <2>2, <1>0 DEF Agrees, TookCode, BranchedCodes, StatusFor, Silent, Live,
        TerminalFor
  <2> QED
    BY <2>2, <2>3, AgreeingStep
<1>2. ASSUME NEW r \in Runs, NEW i \in Inputs, StartInvalid(r, i) PROVE ReportInv'
  <2>1. Agrees(phase[r], job[r].code, status[r], trace[r])
    BY DEF ReportInv
  <2>2. /\ OthersStay(r)
        /\ phase[r] = "unborn" /\ phase'[r] = "ending" /\ status'[r] = "failed"
        /\ trace'[r].last = "run.failed" /\ trace'[r].terminals = trace[r].terminals + 1
    BY <1>0, <1>2, EmitReports
    DEF StartInvalid, Conclude, Goto, OthersStay, TypeOK, TerminalEvents
  <2>3. Agrees(phase'[r], job'[r].code, status'[r], trace'[r])
    BY <2>1, <2>2, <1>0 DEF Agrees, TookCode, BranchedCodes, StatusFor, Silent, Live,
        TerminalFor
  <2> QED
    BY <2>2, <2>3, AgreeingStep
<1>3. ASSUME NEW r \in Runs, NEW s \in snapshots, NEW i \in Inputs, ResumeRun(r, s, i)
      PROVE  ReportInv'
  <2>1. Agrees(phase[r], job[r].code, status[r], trace[r])
    BY DEF ReportInv
  <2>2. /\ OthersStay(r)
        /\ phase[r] = "unborn" /\ phase'[r] = "loop"
        /\ trace'[r].terminals = trace[r].terminals
    BY <1>0, <1>3, EmitReports
    DEF ResumeRun, Goto, OthersStay, TypeOK, TerminalEvents
  <2>3. Agrees(phase'[r], job'[r].code, status'[r], trace'[r])
    BY <2>1, <2>2, <1>0 DEF Agrees, TookCode, BranchedCodes, StatusFor, Silent, Live,
        TerminalFor
  <2> QED
    BY <2>2, <2>3, AgreeingStep
<1>4. ASSUME NEW r \in Runs, ExceedDuration(r) PROVE ReportInv'
  <2>1. Agrees(phase[r], job[r].code, status[r], trace[r])
    BY DEF ReportInv
  <2>2. /\ OthersStay(r)
        /\ phase[r] = "loop" /\ phase'[r] = "ending" /\ status'[r] = "failed"
        /\ trace'[r].last = "run.failed" /\ trace'[r].terminals = trace[r].terminals + 1
    BY <1>0, <1>4, EmitReports
    DEF ExceedDuration, Conclude, Goto, OthersStay, TypeOK, TerminalEvents
  <2>3. Agrees(phase'[r], job'[r].code, status'[r], trace'[r])
    BY <2>1, <2>2, <1>0 DEF Agrees, TookCode, BranchedCodes, StatusFor, Silent, Live,
        TerminalFor
  <2> QED
    BY <2>2, <2>3, AgreeingStep
<1>5. ASSUME NEW r \in Runs, ExhaustSteps(r) PROVE ReportInv'
  <2>1. Agrees(phase[r], job[r].code, status[r], trace[r])
    BY DEF ReportInv
  <2>2. /\ OthersStay(r)
        /\ phase[r] = "loop" /\ phase'[r] = "ending" /\ status'[r] = "failed"
        /\ trace'[r].last = "run.failed" /\ trace'[r].terminals = trace[r].terminals + 1
    BY <1>0, <1>5, EmitReports
    DEF ExhaustSteps, Conclude, Goto, OthersStay, TypeOK, TerminalEvents
  <2>3. Agrees(phase'[r], job'[r].code, status'[r], trace'[r])
    BY <2>1, <2>2, <1>0 DEF Agrees, TookCode, BranchedCodes, StatusFor, Silent, Live,
        TerminalFor
  <2> QED
    BY <2>2, <2>3, AgreeingStep
<1>6. ASSUME NEW r \in Runs, EnterState(r) PROVE ReportInv'
  <2>1. Agrees(phase[r], job[r].code, status[r], trace[r])
    BY DEF ReportInv
  <2>2. /\ OthersStay(r)
        /\ phase[r] = "loop" /\ phase'[r] = "guards"
        /\ trace'[r].terminals = trace[r].terminals
    BY <1>0, <1>6, EmitReports
    DEF EnterState, Goto, OthersStay, TypeOK, TerminalEvents
  <2>3. Agrees(phase'[r], job'[r].code, status'[r], trace'[r])
    BY <2>1, <2>2, <1>0 DEF Agrees, TookCode, BranchedCodes, StatusFor, Silent, Live,
        TerminalFor
  <2> QED
    BY <2>2, <2>3, AgreeingStep
<1>7. ASSUME NEW r \in Runs, FailGuards(r) PROVE ReportInv'
  <2>1. Agrees(phase[r], job[r].code, status[r], trace[r])
    BY DEF ReportInv
  <2>2. /\ OthersStay(r)
        /\ phase[r] = "guards" /\ phase'[r] = "ending" /\ status'[r] = "failed"
        /\ trace'[r].last = "run.failed" /\ trace'[r].terminals = trace[r].terminals + 1
    BY <1>0, <1>7, EmitReports
    DEF FailGuards, Conclude, Goto, OthersStay, TypeOK, TerminalEvents
  <2>3. Agrees(phase'[r], job'[r].code, status'[r], trace'[r])
    BY <2>1, <2>2, <1>0 DEF Agrees, TookCode, BranchedCodes, StatusFor, Silent, Live,
        TerminalFor
  <2> QED
    BY <2>2, <2>3, AgreeingStep
<1>8. ASSUME NEW r \in Runs, PassGuards(r) PROVE ReportInv'
  <2>1. Agrees(phase[r], job[r].code, status[r], trace[r])
    BY DEF ReportInv
  <2>2. /\ OthersStay(r)
        /\ phase[r] = "guards" /\ phase'[r] = "action"
        /\ trace'[r].terminals = trace[r].terminals
    BY <1>0, <1>8, EmitReports
    DEF PassGuards, Goto, OthersStay, TypeOK, TerminalEvents
  <2>3. Agrees(phase'[r], job'[r].code, status'[r], trace'[r])
    BY <2>1, <2>2, <1>0 DEF Agrees, TookCode, BranchedCodes, StatusFor, Silent, Live,
        TerminalFor
  <2> QED
    BY <2>2, <2>3, AgreeingStep
<1>9. ASSUME NEW r \in Runs, FinishList(r) PROVE ReportInv'
  <2>1. Agrees(phase[r], job[r].code, status[r], trace[r])
    BY DEF ReportInv
  <2>2. /\ OthersStay(r)
        /\ phase[r] = "action" /\ phase'[r] \in {"action", "resolve", "leave"}
        /\ trace'[r].terminals = trace[r].terminals
    BY <1>0, <1>9
    DEF FinishList, Goto, Job, ListNames, OthersStay, TypeOK, TerminalEvents
  <2>3. Agrees(phase'[r], job'[r].code, status'[r], trace'[r])
    BY <2>1, <2>2, <1>0 DEF Agrees, TookCode, BranchedCodes, StatusFor, Silent, Live,
        TerminalFor
  <2> QED
    BY <2>2, <2>3, AgreeingStep
<1>10. ASSUME NEW r \in Runs, ResolveTransition(r) PROVE ReportInv'
  <2>1. Agrees(phase[r], job[r].code, status[r], trace[r])
    BY DEF ReportInv
  <2>2. /\ OthersStay(r)
        /\ phase[r] = "resolve" /\ phase'[r] = "action"
        /\ trace'[r].terminals = trace[r].terminals
    <3>1. /\ phase[r] = "resolve" /\ (trace' = trace \/ Emit(r, "transition.resolved"))
          /\ phase' = [phase EXCEPT ![r] = "action"] /\ status' = status
          /\ \A q \in Runs \ {r} : job'[q] = job[q]
      BY <1>0, <1>10 DEF ResolveTransition, Goto, TypeOK
    <3>2. /\ \A q \in Runs \ {r} : trace'[q] = trace[q]
          /\ trace'[r].terminals = trace[r].terminals
      BY <1>0, <3>1, EmitReports DEF TerminalEvents
    <3> QED
      BY <1>0, <3>1, <3>2 DEF OthersStay, TypeOK
  <2>3. Agrees(phase'[r], job'[r].code, status'[r], trace'[r])
    BY <2>1, <2>2, <1>0 DEF Agrees, TookCode, BranchedCodes, StatusFor, Silent, Live,
        TerminalFor
  <2> QED
    BY <2>2, <2>3, AgreeingStep
<1>11. ASSUME NEW r \in Runs, FailTransition(r) PROVE ReportInv'
  <2>1. Agrees(phase[r], job[r].code, status[r], trace[r])
    BY DEF ReportInv
  <2>2. /\ OthersStay(r)
        /\ phase[r] = "resolve" /\ phase'[r] = "ending" /\ status'[r] = "failed"
        /\ trace'[r].last = "run.failed" /\ trace'[r].terminals = trace[r].terminals + 1
    BY <1>0, <1>11, EmitReports
    DEF FailTransition, Conclude, Goto, OthersStay, TypeOK, TerminalEvents
  <2>3. Agrees(phase'[r], job'[r].code, status'[r], trace'[r])
    BY <2>1, <2>2, <1>0 DEF Agrees, TookCode, BranchedCodes, StatusFor, Silent, Live,
        TerminalFor
  <2> QED
    BY <2>2, <2>3, AgreeingStep
<1>12. ASSUME NEW r \in Runs, MoveOn(r) PROVE ReportInv'
  <2>1. Agrees(phase[r], job[r].code, status[r], trace[r])
    BY DEF ReportInv
  <2>2. /\ OthersStay(r)
        /\ phase[r] = "leave" /\ phase'[r] = "loop"
        /\ trace'[r].terminals = trace[r].terminals
    BY <1>0, <1>12, EmitReports
    DEF MoveOn, Goto, OthersStay, TypeOK, TerminalEvents
  <2>3. Agrees(phase'[r], job'[r].code, status'[r], trace'[r])
    BY <2>1, <2>2, <1>0 DEF Agrees, TookCode, BranchedCodes, StatusFor, Silent, Live,
        TerminalFor
  <2> QED
    BY <2>2, <2>3, AgreeingStep
<1>13. ASSUME NEW r \in Runs, Stop(r) PROVE ReportInv'
  <2>1. Agrees(phase[r], job[r].code, status[r], trace[r])
    BY DEF ReportInv
  <2>2. /\ OthersStay(r)
        /\ phase[r] = "leave" /\ phase'[r] = "ending"
        /\ trace'[r].last = TerminalFor(status'[r])
        /\ trace'[r].terminals = trace[r].terminals + 1
    BY <1>0, <1>13, EmitReports
    DEF Stop, Conclude, Goto, TerminalFor, OthersStay, TypeOK, TerminalEvents
  <2>3. Agrees(phase'[r], job'[r].code, status'[r], trace'[r])
    BY <2>1, <2>2, <1>0 DEF Agrees, TookCode, BranchedCodes, StatusFor, Silent, Live,
        TerminalFor
  <2> QED
    BY <2>2, <2>3, AgreeingStep
<1>14. ASSUME NEW r \in Runs, EndRun(r) PROVE ReportInv'
  <2>1. Agrees(phase[r], job[r].code, status[r], trace[r])
    BY DEF ReportInv
  <2>2. /\ OthersStay(r)
        /\ phase[r] = "ending" /\ phase'[r] = "done"
        /\ UNCHANGED <<job, status, trace>>
    BY <1>0, <1>14
    DEF EndRun, Goto, OthersStay, TypeOK, TerminalEvents
  <2>3. Agrees(phase'[r], job'[r].code, status'[r], trace'[r])
    BY <2>1, <2>2, <1>0 DEF Agrees, TookCode, BranchedCodes, StatusFor, Silent, Live,
        TerminalFor
  <2> QED
    BY <2>2, <2>3, AgreeingStep
<1>15. ASSUME NEW r \in Runs, DenyAction(r) PROVE ReportInv'
  <2>1. Agrees(phase[r], job[r].code, status[r], trace[r])
    BY DEF ReportInv
  <2>2. /\ phase[r] = "action" /\ Emit(r, "action.failed")
        /\ phase' = [phase EXCEPT ![r] = "failing"] /\ status' = status
        /\ job' = [job EXCEPT ![r].code = "failed"]
    BY <1>15 DEF DenyAction, AtAction, Goto
  <2>3. /\ \A q \in Runs \ {r} : trace'[q] = trace[q]
        /\ trace'[r].terminals = trace[r].terminals
    BY <1>0, <2>2, EmitReports DEF TerminalEvents
  <2>4. OthersStay(r) /\ phase'[r] = "failing" /\ job'[r].code = "failed"
    BY <1>0, <2>2, <2>3 DEF OthersStay, TypeOK, Job
  <2>5. Agrees(phase'[r], job'[r].code, status'[r], trace'[r])
    BY <1>0, <2>1, <2>2, <2>3, <2>4 DEF Agrees, TookCode, BranchedCodes, StatusFor, Silent, Live,
        TerminalFor
  <2> QED
    BY <2>4, <2>5, AgreeingStep
<1>16. ASSUME NEW r \in Runs, HandOffAction(r) PROVE ReportInv'
  <2>1. Agrees(phase[r], job[r].code, status[r], trace[r])
    BY DEF ReportInv
  <2>2. /\ OthersStay(r)
        /\ phase[r] = "action" /\ phase'[r] = "failing" /\ job'[r].code = "handoff"
        /\ trace'[r].last = "handoff.requested"
        /\ trace'[r].terminals = trace[r].terminals + 1
    BY <1>0, <1>16, EmitReports
    DEF HandOffAction, AtAction, Goto, Job, OthersStay, TypeOK, TerminalEvents
  <2>3. Agrees(phase'[r], job'[r].code, status'[r], trace'[r])
    BY <2>1, <2>2, <1>0 DEF Agrees, TookCode, BranchedCodes, StatusFor, Silent, Live,
        TerminalFor
  <2> QED
    BY <2>2, <2>3, AgreeingStep
<1>17. ASSUME NEW r \in Runs, ConflictAction(r) PROVE ReportInv'
  <2>1. Agrees(phase[r], job[r].code, status[r], trace[r])
    BY DEF ReportInv
  <2>2. /\ OthersStay(r)
        /\ phase[r] = "action" /\ phase'[r] = "account"
        /\ job'[r].code = "failed" /\ trace'[r].terminals = trace[r].terminals
    BY <1>0, <1>17
    DEF ConflictAction, AtAction, Return, Goto, Job, OthersStay, TypeOK, TerminalEvents
  <2>3. Agrees(phase'[r], job'[r].code, status'[r], trace'[r])
    BY <2>1, <2>2, <1>0 DEF Agrees, TookCode, BranchedCodes, StatusFor, Silent, Live,
        TerminalFor
  <2> QED
    BY <2>2, <2>3, AgreeingStep
<1>18. ASSUME NEW r \in Runs, ReplayAction(r) PROVE ReportInv'
  <2>1. Agrees(phase[r], job[r].code, status[r], trace[r])
    BY DEF ReportInv
  <2>2. /\ OthersStay(r)
        /\ phase[r] = "action" /\ phase'[r] = "account"
        /\ job'[r].code = "ok" /\ trace'[r].terminals = trace[r].terminals
    BY <1>0, <1>18, DeltaReports
    DEF ReplayAction, AtAction, Return, Goto, Job, OthersStay, TypeOK, TerminalEvents
  <2>3. Agrees(phase'[r], job'[r].code, status'[r], trace'[r])
    BY <2>1, <2>2, <1>0 DEF Agrees, TookCode, BranchedCodes, StatusFor, Silent, Live,
        TerminalFor
  <2> QED
    BY <2>2, <2>3, AgreeingStep
<1>19. ASSUME NEW r \in Runs, RejectUnregistered(r) PROVE ReportInv'
  <2>1. Agrees(phase[r], job[r].code, status[r], trace[r])
    BY DEF ReportInv
  <2>2. /\ phase[r] = "action" /\ Emit(r, "action.failed")
        /\ phase' = [phase EXCEPT ![r] = "account"] /\ status' = status
        /\ \E k : job' = [job EXCEPT ![r] = [@ EXCEPT !.code = "failed", !.key = k]]
    BY <1>19 DEF RejectUnregistered, AtAction, Return, Goto
  <2>3. /\ \A q \in Runs \ {r} : trace'[q] = trace[q]
        /\ trace'[r].terminals = trace[r].terminals
    BY <1>0, <2>2, EmitReports DEF TerminalEvents
  <2>4. OthersStay(r) /\ phase'[r] = "account" /\ job'[r].code = "failed"
    BY <1>0, <2>2, <2>3 DEF OthersStay, TypeOK, Job
  <2>5. Agrees(phase'[r], job'[r].code, status'[r], trace'[r])
    BY <1>0, <2>1, <2>2, <2>3, <2>4 DEF Agrees, TookCode, BranchedCodes, StatusFor, Silent, Live,
        TerminalFor
  <2> QED
    BY <2>4, <2>5, AgreeingStep
<1>20. ASSUME NEW r \in Runs, BeginAttempts(r) PROVE ReportInv'
  <2>1. Agrees(phase[r], job[r].code, status[r], trace[r])
    BY DEF ReportInv
  <2>2. /\ OthersStay(r)
        /\ phase[r] = "action" /\ phase'[r] = "attempt"
        /\ trace'[r].terminals = trace[r].terminals
    BY <1>0, <1>20
    DEF BeginAttempts, Goto, AtAction, OthersStay, TypeOK, TerminalEvents
  <2>3. Agrees(phase'[r], job'[r].code, status'[r], trace'[r])
    BY <2>1, <2>2, <1>0 DEF Agrees, TookCode, BranchedCodes, StatusFor, Silent, Live,
        TerminalFor
  <2> QED
    BY <2>2, <2>3, AgreeingStep
<1>21. ASSUME NEW r \in Runs, StartAttempt(r) PROVE ReportInv'
  <2>1. Agrees(phase[r], job[r].code, status[r], trace[r])
    BY DEF ReportInv
  <2>2. /\ OthersStay(r)
        /\ phase[r] = "attempt" /\ phase'[r] = "running"
        /\ trace'[r].terminals = trace[r].terminals
    BY <1>0, <1>21, EmitReports
    DEF StartAttempt, Goto, OthersStay, TypeOK, TerminalEvents
  <2>3. Agrees(phase'[r], job'[r].code, status'[r], trace'[r])
    BY <2>1, <2>2, <1>0 DEF Agrees, TookCode, BranchedCodes, StatusFor, Silent, Live,
        TerminalFor
  <2> QED
    BY <2>2, <2>3, AgreeingStep
<1>22. ASSUME NEW r \in Runs, SucceedAttempt(r) PROVE ReportInv'
  <2>1. Agrees(phase[r], job[r].code, status[r], trace[r])
    BY DEF ReportInv
  <2>2. /\ OthersStay(r)
        /\ phase[r] = "running" /\ phase'[r] = "account"
        /\ job'[r].code = "ok" /\ trace'[r].terminals = trace[r].terminals
    BY <1>0, <1>22, DeltaReports
    DEF SucceedAttempt, AtAction, Return, Goto, Job, OthersStay, TypeOK, TerminalEvents
  <2>3. Agrees(phase'[r], job'[r].code, status'[r], trace'[r])
    BY <2>1, <2>2, <1>0 DEF Agrees, TookCode, BranchedCodes, StatusFor, Silent, Live,
        TerminalFor
  <2> QED
    BY <2>2, <2>3, AgreeingStep
<1>23. ASSUME NEW r \in Runs, RefusePatch(r) PROVE ReportInv'
  <2>1. Agrees(phase[r], job[r].code, status[r], trace[r])
    BY DEF ReportInv
  <2>2. /\ phase[r] = "running" /\ Emit(r, "action.failed")
        /\ phase' = [phase EXCEPT ![r] = "account"] /\ status' = status
        /\ \E k : job' = [job EXCEPT ![r] = [@ EXCEPT !.code = "failed", !.key = k]]
    BY <1>23 DEF RefusePatch, Return, Goto
  <2>3. /\ \A q \in Runs \ {r} : trace'[q] = trace[q]
        /\ trace'[r].terminals = trace[r].terminals
    BY <1>0, <2>2, EmitReports DEF TerminalEvents
  <2>4. OthersStay(r) /\ phase'[r] = "account" /\ job'[r].code = "failed"
    BY <1>0, <2>2, <2>3 DEF OthersStay, TypeOK, Job
  <2>5. Agrees(phase'[r], job'[r].code, status'[r], trace'[r])
    BY <1>0, <2>1, <2>2, <2>3, <2>4 DEF Agrees, TookCode, BranchedCodes, StatusFor, Silent, Live,
        TerminalFor
  <2> QED
    BY <2>4, <2>5, AgreeingStep
<1>24. ASSUME NEW r \in Runs, RetryAttempt(r) PROVE ReportInv'
  <2>1. Agrees(phase[r], job[r].code, status[r], trace[r])
    BY DEF ReportInv
  <2>2. /\ OthersStay(r)
        /\ phase[r] = "running" /\ phase'[r] = "attempt"
        /\ trace'[r].terminals = trace[r].terminals
    BY <1>0, <1>24, EmitReports
    DEF RetryAttempt, Goto, OthersStay, TypeOK, TerminalEvents
  <2>3. Agrees(phase'[r], job'[r].code, status'[r], trace'[r])
    BY <2>1, <2>2, <1>0 DEF Agrees, TookCode, BranchedCodes, StatusFor, Silent, Live,
        TerminalFor
  <2> QED
    BY <2>2, <2>3, AgreeingStep
<1>25. ASSUME NEW r \in Runs, FailAttempt(r) PROVE ReportInv'
  <2>1. Agrees(phase[r], job[r].code, status[r], trace[r])
    BY DEF ReportInv
  <2>0. PICK o : \E c \in CodesOf(o) :
          job' = [job EXCEPT ![r] = [@ EXCEPT !.code = c, !.key = FailureKey(r, o)]]
    BY <1>25 DEF FailAttempt, Return
  <2>2. PICK c \in CodesOf(o) :
          job' = [job EXCEPT ![r] = [@ EXCEPT !.code = c, !.key = FailureKey(r, o)]]
    BY <2>0
  <2>3. /\ phase[r] = "running" /\ Emit(r, "action.failed")
        /\ phase' = [phase EXCEPT ![r] = "account"] /\ status' = status
    BY <1>25 DEF FailAttempt, Return, Goto
  <2>4. /\ \A q \in Runs \ {r} : trace'[q] = trace[q]
        /\ trace'[r].terminals = trace[r].terminals
        /\ trace'[r].last = "action.failed"
    BY <1>0, <2>3, EmitReports DEF TerminalEvents
  <2>5. OthersStay(r) /\ phase'[r] = "account" /\ job'[r].code = c
    BY <1>0, <2>2, <2>3, <2>4 DEF OthersStay, TypeOK, Job
  <2>6. c = "failed" \/ c \in HandlerCodes \cap BranchedCodes
    BY AgentAssumption DEF CodesOf
  <2>7. Agrees(phase'[r], job'[r].code, status'[r], trace'[r])
    BY <1>0, <2>1, <2>3, <2>4, <2>5, <2>6 DEF Agrees, TookCode, Silent, Live
  <2> QED
    BY <2>5, <2>7, AgreeingStep
<1>26. ASSUME NEW r \in Runs, AccountAction(r) PROVE ReportInv'
  <2>1. Agrees(phase[r], job[r].code, status[r], trace[r])
    BY DEF ReportInv
  <2>2. /\ OthersStay(r)
        /\ phase[r] = "account" /\ trace' = trace
        /\ \/ phase'[r] = "action"
           \/ phase'[r] = "failing" /\ job'[r].code # "ok" /\ job'[r].code = job[r].code
    BY <1>0, <1>26
    DEF AccountAction, Goto, Job, OthersStay, TypeOK, TerminalEvents
  <2>3. Agrees(phase'[r], job'[r].code, status'[r], trace'[r])
    BY <2>1, <2>2, <1>0 DEF Agrees, TookCode, BranchedCodes, StatusFor, Silent, Live,
        TerminalFor
  <2> QED
    BY <2>2, <2>3, AgreeingStep
<1>27. ASSUME NEW r \in Runs, ExceedExternalCalls(r) PROVE ReportInv'
  <2>1. Agrees(phase[r], job[r].code, status[r], trace[r])
    BY DEF ReportInv
  <2>2. /\ OthersStay(r)
        /\ phase[r] = "account" /\ phase'[r] = "failing" /\ job'[r].code = "budget"
        /\ trace'[r].last = "run.failed"
        /\ trace'[r].terminals = trace[r].terminals + 1
    BY <1>0, <1>27, EmitReports
    DEF ExceedExternalCalls, Goto, Job, OthersStay, TypeOK, TerminalEvents
  <2>3. Agrees(phase'[r], job'[r].code, status'[r], trace'[r])
    BY <2>1, <2>2, <1>0 DEF Agrees, TookCode, BranchedCodes, StatusFor, Silent, Live,
        TerminalFor
  <2> QED
    BY <2>2, <2>3, AgreeingStep
<1>28. ASSUME NEW r \in Runs, FailRun(r) PROVE ReportInv'
  <2>1. Agrees(phase[r], job[r].code, status[r], trace[r])
    BY DEF ReportInv
  <2>2. /\ OthersStay(r)
        /\ phase[r] = "failing" /\ phase'[r] = "ending"
        /\ status'[r] = StatusFor(job[r].code) /\ job'[r] = job[r]
        /\ IF job[r].code \in {"handoff", "budget"}
           THEN trace'[r] = trace[r]
           ELSE /\ trace'[r].last = "run.failed"
                /\ trace'[r].terminals = trace[r].terminals + 1
    BY <1>0, <1>28, EmitReports
    DEF FailRun, Reported, BranchedCodes, StatusFor, Conclude, Goto, OthersStay, TypeOK, TerminalEvents
  <2>3. Agrees(phase'[r], job'[r].code, status'[r], trace'[r])
    BY <2>1, <2>2, <1>0 DEF Agrees, TookCode, BranchedCodes, StatusFor, Silent, Live,
        TerminalFor
  <2> QED
    BY <2>2, <2>3, AgreeingStep
<1>29. ASSUME NEW r \in Runs, Crash(r) PROVE ReportInv'
  <2>1. Agrees(phase[r], job[r].code, status[r], trace[r])
    BY DEF ReportInv
  <2>2. /\ OthersStay(r)
        /\ phase'[r] = "crashed"
    BY <1>0, <1>29
    DEF Crash, Goto, OthersStay, TypeOK, TerminalEvents
  <2>3. Agrees(phase'[r], job'[r].code, status'[r], trace'[r])
    BY <2>1, <2>2, <1>0 DEF Agrees, TookCode, BranchedCodes, StatusFor, Silent, Live,
        TerminalFor
  <2> QED
    BY <2>2, <2>3, AgreeingStep
<1>30. CASE UNCHANGED vars
  BY <1>30 DEF vars, ReportInv, Agrees, TookCode, StatusFor, TerminalFor
<1> QED
  BY <1>1, <1>2, <1>3, <1>4, <1>5, <1>6, <1>7, <1>8, <1>9, <1>10, <1>11,
     <1>12, <1>13, <1>14, <1>15, <1>16, <1>17, <1>18, <1>19, <1>20, <1>21,
     <1>22, <1>23, <1>24, <1>25, <1>26, <1>27, <1>28, <1>29, <1>30
  DEF Next, Begin, Step

(* The result of a run, the only terminal event of its trace and the last    *)
(* event of its trace say the same, whatever the agent, its policies and     *)
(* budgets, however the run was resumed and whatever else is running. The    *)
(* only runs with no terminal event are those whose last action failed with  *)
(* one of the two codes the loops branch on, answered by its handler.        *)
THEOREM ResultAlwaysMatchesTrace == Spec => []ResultMatchesTrace
<1>1. Init => ReportInv
  BY DEF Init, ReportInv, Agrees
<1>2. TypeInv /\ ReportInv /\ [Next]_vars => ReportInv'
  BY ReportStep
<1>3. ReportInv => ResultMatchesTrace
  BY DEF ReportInv, Agrees, TookCode, HandlerTookCode, ResultMatchesTrace, Silent
<1> QED
  BY <1>1, <1>2, <1>3, TypeInit, TypeStep, PTL DEF Spec

=============================================================================
