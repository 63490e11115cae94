----------------------------- MODULE TraceReports -----------------------------
(***************************************************************************)
(* What a trace file tells of a run: the replay frames and steps, the      *)
(* summary, the audit bundle, the list of runs and the viewer, while the   *)
(* run still writes.  The file is JSON lines: a line that was cut when its *)
(* writer died makes all of it unreadable.  Events are sorted by the       *)
(* millisecond of the wall clock, which may be set back, then by their     *)
(* number in the run.                                                      *)
(*                                                                         *)
(* Payloads are not modelled but for the code of an error; nor are guards  *)
(* that are reported, nor the actions of on_exit.                          *)
(***************************************************************************)
EXTENDS Naturals, Sequences, FiniteSets, SequencesExt

CONSTANTS Nil,         \* no state, no error, no file
          MaxWritten,  \* events a run writes
          MaxTime,     \* milliseconds a run may last
          TraceFiles,  \* what the viewer is given, and the runs found in each
          MaxLoads

VARIABLES
  written,    \* the lines of the run
  wallClock,
  setBack,    \* the clock was
  cut,        \* the file ends in half a line
  report,     \* the audit bundle: events read first, summary read next
  view,       \* the viewer: file shown, run chosen, failure shown
  loads       \* files the viewer is reading

reportVars == <<written, wallClock, setBack, cut, report, view, loads>>

Ends == {"run.completed", "run.failed", "handoff.requested"}
StepTypes ==
  Ends \cup {"state.entered", "state.exited", "transition.resolved",
             "action.started", "action.succeeded", "action.failed"}

ASSUME ReportsAssumption ==
  /\ MaxWritten \in Nat /\ MaxTime \in Nat /\ Nil \notin DOMAIN TraceFiles
  /\ \A f \in DOMAIN TraceFiles : TraceFiles[f] \in Seq(Range(TraceFiles[f]))

ReportTypeOK ==
  /\ \A k \in DOMAIN written :
       /\ written[k].n = k /\ written[k].ts \in 0..MaxTime
       /\ written[k].type \in StepTypes \cup {"run.started", "intent.resolved"}
  /\ wallClock \in 0..MaxTime /\ setBack \in BOOLEAN /\ cut \in BOOLEAN
  /\ report.phase \in {"none", "reading", "done"}
  /\ view.file \in DOMAIN TraceFiles \cup {Nil} /\ view.failed \in BOOLEAN
  /\ loads \subseteq DOMAIN TraceFiles

-----------------------------------------------------------------------------
(* sortTraceEventsDeterministically: a line is preceded by the earlier      *)
(* ones, and by those of its millisecond with a lower number.               *)
Before(a, b) == a.ts < b.ts \/ (a.ts = b.ts /\ a.n < b.n)
Rank(events, k) == Cardinality({j \in DOMAIN events : Before(events[j], events[k])})
Sorted(events) ==
  [i \in DOMAIN events |-> events[CHOOSE k \in DOMAIN events : Rank(events, k) = i - 1]]
States(events) ==
  LET entered == SelectSeq(events, LAMBDA e : e.type = "state.entered")
  IN [k \in DOMAIN entered |-> entered[k].state]

(* getReplayFramesFromEvents: the step each event belongs to                *)
StartsStep(events, k) == k = 1 \/ events[k].type \in StepTypes
FrameSteps(events) ==
  [k \in DOMAIN events |-> Cardinality({j \in 1..k : StartsStep(events, j)})]
(* getReplayStepsFromEvents: the events of each step, event by event        *)
Stepped(steps, e) ==
  IF steps = <<>> \/ e.type \in StepTypes THEN Append(steps, <<e>>)
  ELSE [steps EXCEPT ![Len(steps)] = Append(@, e)]
StepsAfter(events) ==
  LET steps[k \in 0 .. Len(events)] ==
        IF k = 0 THEN <<>> ELSE Stepped(steps[k - 1], events[k])
  IN steps
ReplaySteps(events) == StepsAfter(events)[Len(events)]

(* summarizeTracePathFromEvents                                             *)
StatusOf(type) ==
  CASE type = "run.completed" -> "completed" [] type = "run.failed" -> "failed"
    [] type = "handoff.requested" -> "handoff" [] OTHER -> "unknown"
LastOf(events, types) ==
  LET found == {k \in DOMAIN events : events[k].type \in types}
  IN IF found = {} THEN Nil ELSE events[Max(found)]
PathSummary(events) ==
  LET sorted == Sorted(events)
      failed == LastOf(sorted, {"action.failed"})
  IN [status |-> IF sorted = <<>> THEN "unknown" ELSE StatusOf(sorted[Len(sorted)].type),
      final |-> IF sorted = <<>> THEN Nil ELSE sorted[Len(sorted)].state,
      error |-> IF failed = Nil THEN Nil ELSE failed.error,
      path |-> States(sorted), count |-> Len(sorted)]

(* buildAuditBundle, of two reads of the file                               *)
AuditBundle(events, later) ==
  LET sorted == Sorted(events)
      end == LastOf(sorted, Ends)
  IN [phase |-> "done", events |-> sorted, summary |-> PathSummary(later),
      frames |-> Len(FrameSteps(sorted)), steps |-> Len(ReplaySteps(sorted)),
      handoff |-> end # Nil /\ end.type = "handoff.requested",
      failed |-> end # Nil /\ end.type = "run.failed"]

(* The status of the run list, by the last line                             *)
Listed(events) == IF events = <<>> THEN "unknown" ELSE StatusOf(events[Len(events)].type)

(* statusFromEvents of the viewer                                           *)
ViewedStatus(events) ==
  LET types == {events[k].type : k \in DOMAIN events}
  IN CASE "handoff.requested" \in types -> "handoff" [] "run.failed" \in types -> "failed"
       [] "run.completed" \in types -> "completed" [] OTHER -> "running"

-----------------------------------------------------------------------------
(* executeRun, by the events it may write next                              *)
Line(type, state, error) ==
  [n |-> Len(written) + 1, ts |-> wallClock, type |-> type, state |-> state, error |-> error]
LastWritten == written[Len(written)]
Over == LastWritten.type \in Ends
Failure == "E_RUN"                    \* of the run itself: no next step, a budget
InState(types) == {Line(type, LastWritten.state, Nil) : type \in types}
Fails == {Line("run.failed", LastWritten.state, Failure)}
Working ==
  InState({"action.started", "handoff.requested", "transition.resolved", "state.exited"})
    \cup Fails \cup {Line("action.failed", LastWritten.state, "POLICY_DENIED")}
MovesOn == written[Len(written) - 1].type = "transition.resolved"
NextEvents ==
  CASE LastWritten.type = "run.started" -> {Line("intent.resolved", Nil, Nil)}
    [] LastWritten.type = "intent.resolved" ->
         {Line("state.entered", "first", Nil)} \cup Fails
    [] LastWritten.type \in {"state.entered", "action.succeeded"} -> Working
    [] LastWritten.type = "action.started" ->
         InState({"action.succeeded"})
           \cup {Line("action.failed", LastWritten.state, "E_ACTION")}
    [] LastWritten.type = "action.failed" ->
         {Line("run.failed", LastWritten.state, LastWritten.error)}
           \cup (IF LastWritten.error = "E_ACTION" THEN InState({"action.started"}) ELSE {})
    [] LastWritten.type = "transition.resolved" -> InState({"state.exited"})
    [] LastWritten.type = "state.exited" /\ MovesOn ->
         {Line("state.entered", "second", Nil)} \cup Fails
    [] LastWritten.type = "state.exited" ->
         InState({"run.completed", "handoff.requested"}) \cup Fails
    [] OTHER -> {}

ReportInit ==
  /\ written = <<[n |-> 1, ts |-> 0, type |-> "run.started", state |-> Nil,
                  error |-> Nil]>>
  /\ wallClock = 0 /\ setBack = FALSE /\ cut = FALSE
  /\ report = [phase |-> "none"]
  /\ view = [file |-> Nil, run |-> Nil, failed |-> FALSE] /\ loads = {}

ViewerRests == UNCHANGED <<view, loads>>
Untold == report.phase # "done"

WriteEvent ==
  /\ Untold /\ ~cut /\ Len(written) < MaxWritten
  /\ \E e \in NextEvents : written' = Append(written, e)
  /\ UNCHANGED <<wallClock, setBack, cut, report>> /\ ViewerRests
Pass ==
  /\ Untold /\ wallClock < MaxTime /\ ~Over
  /\ wallClock' = wallClock + 1
  /\ UNCHANGED <<written, setBack, cut, report>> /\ ViewerRests
ClockSetBack ==
  /\ Untold /\ wallClock > 0 /\ ~setBack /\ ~Over
  /\ wallClock' = wallClock - 1 /\ setBack' = TRUE
  /\ UNCHANGED <<written, cut, report>> /\ ViewerRests
(* The process dies while it writes a line.                                 *)
Die ==
  /\ Untold /\ ~cut /\ ~Over
  /\ cut' = TRUE
  /\ UNCHANGED <<written, wallClock, setBack, report>> /\ ViewerRests

(* readAllEvents catches what JSON.parse throws.                            *)
ReadTrace == IF cut THEN <<>> ELSE written
ReadEvents ==
  /\ report.phase = "none"
  /\ report' = [phase |-> "reading", events |-> ReadTrace]
  /\ UNCHANGED <<written, wallClock, setBack, cut>> /\ ViewerRests
ReadSummary ==
  /\ report.phase = "reading"
  /\ report' = AuditBundle(report.events, ReadTrace)
  /\ UNCHANGED <<written, wallClock, setBack, cut>> /\ ViewerRests

-----------------------------------------------------------------------------
(* The viewer: reading a file or a sample clears the failure shown, and     *)
(* what was read replaces the events and chooses the first run of them.     *)
BeginLoad(f) ==
  /\ f \notin loads /\ Cardinality(loads) < MaxLoads
  /\ loads' = loads \cup {f} /\ view' = [view EXCEPT !.failed = FALSE]
(* The chosen run kept (not what the code does).                            *)
EndLoadKeepingRun(f) ==
  /\ f \in loads /\ TraceFiles[f] # <<>>
  /\ loads' = loads \ {f}
  /\ view' = [view EXCEPT !.file = f]
EndLoad(f) ==
  /\ f \in loads
  /\ loads' = loads \ {f}
  /\ \/ /\ TraceFiles[f] # <<>>
        /\ view' = [view EXCEPT !.file = f, !.run = TraceFiles[f][1]]
     \/ view' = [view EXCEPT !.failed = TRUE]
ChooseRun ==
  /\ view.file # Nil
  /\ \E r \in Range(TraceFiles[view.file]) \ {view.run} : view' = [view EXCEPT !.run = r]
  /\ UNCHANGED loads
Viewing ==
  /\ (\E f \in DOMAIN TraceFiles : BeginLoad(f) \/ EndLoad(f)) \/ ChooseRun
  /\ UNCHANGED <<written, wallClock, setBack, cut, report>>

ReportNext == WriteEvent \/ Pass \/ ClockSetBack \/ Die \/ ReadEvents \/ ReadSummary
ReportSpec == ReportInit /\ [][ReportNext \/ Viewing]_reportVars

-----------------------------------------------------------------------------
Succeeded(later, e) ==
  \E k \in DOMAIN later : later[k].n > e.n /\ later[k].type = "action.succeeded"

(* The two reads of a bundle agree as far as they can: the summary is never *)
(* behind the events, a bundle that says failed or handoff has that status, *)
(* and when nothing was written between them they tell the run as it was    *)
(* written, unless the clock was set back meanwhile or the file was cut     *)
(* (audit-bundle.ts:87).                                                    *)
BundlesTellTheRun ==
  report.phase = "done" =>
    LET summary == report.summary
        ended == written[Len(written)].type
    IN
    /\ ~cut => summary.count >= Len(report.events)
    /\ ~setBack /\ ~cut =>
         /\ report.failed => summary.status = "failed"
         /\ report.handoff => summary.status = "handoff"
         /\ summary.status = StatusOf(ended) /\ summary.status = Listed(written)
         /\ summary.path = States(written)
         /\ summary.final = written[Len(written)].state
         /\ IsPrefix(report.events, written)
    /\ cut => summary.status = "unknown" /\ summary.count = 0

(* The code a bundle shows is of the last failed action: of a run that      *)
(* completed only when that action was tried again and succeeded, and of a  *)
(* run that failed for a reason of its own likewise (compare.ts:57).        *)
CodesAreOfFailures ==
  report.phase = "done" /\ ~cut /\ ~setBack /\ report.summary.error # Nil =>
    LET last == LastOf(written, {"action.failed"}) IN
    \/ ~Over
    \/ written[Len(written)].error = report.summary.error
    \/ Succeeded(written, last)

(* Frames and steps cut a trace at the same events: a step is the stretch   *)
(* of events whose frames have its number (replay-frames.ts:55, :79).       *)
Stretch(events, first, last) == [i \in 1 .. last - first + 1 |-> events[first + i - 1]]
StepsAreFramed(events, steps) ==
  LET frames == FrameSteps(events) IN
  /\ Len(steps) = IF events = <<>> THEN 0 ELSE frames[Len(events)]
  /\ \A s \in DOMAIN steps : \E first, last \in DOMAIN events :
       /\ {k \in DOMAIN events : frames[k] = s} = first .. last
       /\ steps[s] = Stretch(events, first, last)
FramesAreSteps ==
  report.phase = "done" =>
    LET steps == ReplaySteps(report.events)
    IN report.steps = Len(steps) /\ StepsAreFramed(report.events, steps)

(* The viewer shows the status the run ended with even where the clock was  *)
(* set back (trace-grouping.ts:3), and what it shows is one file, its run   *)
(* among them, in whatever order files were read (App.tsx:41).              *)
ViewerTellsTheRun ==
  /\ LET listed == Listed(written)
     IN ViewedStatus(written) = IF listed = "unknown" THEN "running" ELSE listed
  /\ IF view.file = Nil THEN view.run = Nil
     ELSE view.run \in Range(TraceFiles[view.file])

(* What is reported of a trace is the run as it was written, unless the     *)
(* clock was set back or a line was cut.                                    *)
TracesTellRuns ==
  BundlesTellTheRun /\ CodesAreOfFailures /\ FramesAreSteps /\ ViewerTellsTheRun

=============================================================================
