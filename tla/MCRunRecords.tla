----------------------------- MODULE MCRunRecords -----------------------------
(***************************************************************************)
(* What a run leaves behind, part by part: its events (TraceRecorder), the *)
(* context its trace tells of (ContextReplay), what is reported of a trace *)
(* file (TraceReports), its snapshots (SnapshotStore), the effects of its  *)
(* handlers (AttemptRace) and of its skills (SkillCalls); and a scenario   *)
(* with its evidence (ScenarioEvidence). The parts share no state, so a    *)
(* behaviour moves one of them and leaves the others where they start.     *)
(***************************************************************************)
EXTENDS AttemptRace, TraceRecorder, ContextReplay, TraceReports, SnapshotStore,
        SkillCalls, ScenarioEvidence, TLC

VARIABLE part

reportState == <<written, wallClock, setBack, cut, report>>
viewerState == <<view, loads>>

vars ==
  <<part, recorderVars, replayVars, reportState, viewerState, storeVars, raceVars,
    skillVars, evidenceVars>>

Put(f, v) == [field |-> f, value |-> v]
Value(tag, parts) == [tag |-> tag, content |-> parts]
Word == Value("string", {"x"})
Other == Value("string", {"y"})
Piece == Value("object", {"x"})
Rest == Value("object", {"y"})
NullValue == Value("null", {})
NoValue == Value("undefined", {})

MCFields == {"f", "g"}
MCValues == {Word, Other, Piece, Rest, NullValue, NoValue}
MCPatches ==
  {<<Put("f", Word)>>, <<Put("f", NullValue)>>, <<Put("f", Piece)>>, <<Put("f", Rest)>>,
   <<Put("f", Other), Put("g", NullValue)>>, <<Put("g", Word), Put("f", Piece)>>,
   <<Put("g", NoValue)>>}
Pair(a, b) == [f \in MCFields |-> IF f = "f" THEN a ELSE b]
MCInputs == {Pair(NoValue, NoValue), Pair(Piece, NoValue)}
MCDefaults == {Pair(NoValue, NoValue), Pair(Word, Other)}

(* Files for the viewer: two traces and one it cannot read                  *)
MCTraceFiles == ("t1" :> <<"u", "v">>) @@ ("t2" :> <<"w">>) @@ ("bad" :> <<>>)

(* Actions that find their skill by name, or say where it is; skills of     *)
(* their name or another, of which one is of the declared class.            *)
MCSkillActions ==
  {[name |-> "pay", declared |-> "none", place |-> Absent],
   [name |-> "pay", declared |-> "external", place |-> "d1"]}
Skill(name, effect, fits, entry) ==
  [name |-> name, sideEffect |-> effect, fits |-> fits, entry |-> entry]
MCSkillFiles ==
  {Skill("pay", "external", TRUE, "runs"), Skill("pay", "read", FALSE, "runs"),
   Skill("look", "read", TRUE, "missing")}
MCRegistry   == {"d1", "d2"}
MCSearchPath == SkillDirs \ MCRegistry

(* A scenario at a desk whose projection may name no outcome, or two.       *)
INSTANCE ClaimsDesk

ASSUME RecorderAssumption /\ RaceAssumption /\ NoneAssumption

-----------------------------------------------------------------------------
ParkedRecorder ==
  Wired([recorder |-> [r \in Runs |-> CHOOSE q \in Recorders : TRUE], storage |-> "memory"])

ParkedReplay ==
  ReplayStart([strategy |-> "shallow", allowNull |-> FALSE],
              [f \in Fields |-> NoField], [f \in Fields |-> NoField])

Init ==
  /\ part \in {"recorder", "replay", "reports", "viewer", "store", "race", "skills", "scenario"}
  /\ IF part = "recorder" THEN RecorderInit ELSE ParkedRecorder
  /\ IF part = "replay" THEN ReplayInit ELSE ParkedReplay
  /\ IF part = "store" THEN StoreInit ELSE Opened("memory")
  /\ ReportInit
  /\ RaceInit
  /\ SkillInit
  /\ EvidenceInit
  /\ part # "skills" => disk = [d \in SkillDirs |-> Absent]

Next ==
  /\ UNCHANGED part
  /\ \/ /\ part = "recorder" /\ RecorderNext
        /\ UNCHANGED <<replayVars, reportState, viewerState, storeVars, raceVars,
                       skillVars, evidenceVars>>
     \/ /\ part = "replay" /\ ReplayNext
        /\ UNCHANGED <<recorderVars, reportState, viewerState, storeVars, raceVars,
                       skillVars, evidenceVars>>
     \/ /\ part = "reports" /\ ReportNext
        /\ UNCHANGED <<recorderVars, replayVars, viewerState, storeVars, raceVars,
                       skillVars, evidenceVars>>
     \/ /\ part = "viewer" /\ Viewing
        /\ UNCHANGED <<recorderVars, replayVars, reportState, storeVars, raceVars,
                       skillVars, evidenceVars>>
     \/ /\ part = "store" /\ StoreNext
        /\ UNCHANGED <<recorderVars, replayVars, reportState, viewerState,
                       raceVars, skillVars, evidenceVars>>
     \/ /\ part = "race" /\ RaceNext
        /\ UNCHANGED <<recorderVars, replayVars, reportState, viewerState,
                       storeVars, skillVars, evidenceVars>>
     \/ /\ part = "skills" /\ SkillNext
        /\ UNCHANGED <<recorderVars, replayVars, reportState, viewerState,
                       storeVars, raceVars, evidenceVars>>
     \/ /\ part = "scenario" /\ EvidenceNext
        /\ UNCHANGED <<recorderVars, replayVars, reportState, viewerState,
                       storeVars, raceVars, skillVars>>

(* Fair to the part that moves: nothing is owed by the others.              *)
Spec ==
  /\ Init /\ [][Next]_vars
  /\ \A r \in Runs : WF_vars(part = "recorder" /\ Settling(r)
       /\ UNCHANGED <<part, replayVars, reportState, viewerState, storeVars, raceVars,
                      skillVars, evidenceVars>>)
  /\ WF_vars(part = "race" /\ Executor
       /\ UNCHANGED <<part, recorderVars, replayVars, reportState, viewerState, storeVars,
                      skillVars, evidenceVars>>)

-----------------------------------------------------------------------------
(* Each part keeps to its types.                                            *)
TypeOK ==
  /\ part = "recorder" => RecorderTypeOK
  /\ part = "replay" => ReplayTypeOK
  /\ ReportTypeOK /\ StoreTypeOK /\ RaceTypeOK /\ SkillTypeOK /\ ScenarioTypeOK

(* Every flush and close returns, and every action call ends, although      *)
(* handlers may never answer.                                               *)
EveryCallEnds ==
  (part = "recorder" => CallsReturn) /\ (part = "race" => CallsEnd)

=============================================================================
