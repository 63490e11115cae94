------------------------------ MODULE Workbench ------------------------------
(***************************************************************************)
(* The Studio's Scenario Workbench: a selected composition and four panels *)
(* that ask the runner about it, each enabled by the result of the one     *)
(* before: its details, the composition preview, the orchestrator preview  *)
(* and the run preview, whose evidence can be replayed.  Only the request  *)
(* for details is dropped when the selection changes; the answers of the   *)
(* others arrive in whatever the panels show by then.                      *)
(***************************************************************************)
EXTENDS Naturals, FiniteSets, Absence

CONSTANTS Compositions,   \* the catalog
          Previewable,    \* those whose details allow the previews
          DemoCases,      \* SCENARIO_RUN_CASES: the cases of a composition
          DefaultCase,    \* the case shown first for a composition
          MaxFlights      \* bound: requests in flight

CasesAssumption ==
  /\ Previewable \subseteq Compositions
  /\ \A c \in Previewable : DefaultCase[c] \in DemoCases[c]

VARIABLES
  selected,    \* selectedCompositionId
  detail,      \* the composition of the details shown, or None
  preview,     \* per panel, the result shown: of what, and whether it came late, or None
  waiting,     \* the panels showing a spinner (compileLoading, "compiling", "running")
  demoCase,    \* the case the next run takes
  replay,      \* the run whose evidence the replay shown is of, or None
  flights      \* the requests in flight; `late` once the panel was cleared since

workbenchVars == <<selected, detail, preview, waiting, demoCase, replay, flights>>

Panels == {"composition", "orchestrator", "run"}
Slots == 1 .. MaxFlights
AllCases == UNION {DemoCases[c] \cup {DefaultCase[c]} : c \in Compositions}
Answers == [of : Compositions, case : AllCases \cup {None}, late : BOOLEAN]
Requests ==
  [panel : Panels \cup {"detail"}, of : Compositions, case : AllCases \cup {None},
   late : BOOLEAN]

NoneAssumption == None \notin Answers \cup Requests

WorkbenchTypeOK ==
  /\ selected \in Compositions
  /\ detail \in Compositions \cup {None}
  /\ preview \in [Panels -> Answers \cup {None}]
  /\ waiting \subseteq Panels
  /\ demoCase \in DemoCases[selected] \cup {DefaultCase[selected]}
  /\ replay \in Answers \cup {None}
  /\ flights \in [Slots -> Requests \cup {None}]

Asking(panel, c, k) == [panel |-> panel, of |-> c, case |-> k, late |-> FALSE]

Selected(c) ==
  /\ selected = c /\ detail = None /\ waiting = {} /\ demoCase = DefaultCase[c]
  /\ preview = [p \in Panels |-> None] /\ replay = None
  /\ flights = [i \in Slots |-> IF i = 1 THEN Asking("detail", c, None) ELSE None]

WorkbenchInit == \E c \in Compositions : Selected(c)

-----------------------------------------------------------------------------
Free(i) == flights[i] = None /\ \A j \in 1 .. i - 1 : flights[j] # None

Late(panels) ==
  [i \in Slots |-> IF flights[i] # None /\ flights[i].panel \in panels
                     THEN [flights[i] EXCEPT !.late = TRUE] ELSE flights[i]]

Cleared(panels) == [p \in Panels |-> IF p \in panels THEN None ELSE preview[p]]

(* A replay goes with the run it is of.                                     *)
ReplayAfter(panels) == IF "run" \in panels THEN None ELSE replay

(* The case a newly selected composition starts with; one that keeps what   *)
(* was chosen for the composition before.                                   *)
CaseKept(c) == demoCase
CaseFor(c) == DefaultCase[c]

(* selectComposition and the effects of a new selection, which the panels   *)
(* in `panels` follow.                                                      *)
SelectAmong(c, panels) ==
  \/ /\ c = selected
     /\ preview' = Cleared({"composition"})
     /\ UNCHANGED <<selected, detail, waiting, demoCase, replay, flights>>
  \/ \E i \in Slots :
       /\ c # selected /\ Free(i)
       /\ selected' = c
       /\ detail' = None
       /\ preview' = Cleared(panels)
       /\ waiting' = waiting \ (panels \ {"composition"})
       /\ demoCase' = CaseFor(c)
       /\ replay' = ReplayAfter(panels)
       /\ flights' = [Late(Panels \cup {"detail"}) EXCEPT ![i] = Asking("detail", c, None)]

SelectBesideOrchestrator(c) == SelectAmong(c, Panels \ {"orchestrator"})
Select(c) == SelectAmong(c, Panels)

(* The buttons, and the guards of the three compilePreview and runPreview.  *)
Enabled(p) ==
  /\ detail # None
  /\ p \notin waiting
  /\ p = "composition" => detail \in Previewable
  /\ p = "orchestrator" => preview["composition"] # None /\ detail \in Previewable
  /\ p = "run" => preview["orchestrator"] # None /\ demoCase \in DemoCases[selected]

(* A new orchestrator preview takes away the one that was there, and the    *)
(* run is cleared with it; where there was none, nothing changes for it.    *)
Clears(p) ==
  IF p = "orchestrator" /\ preview[p] # None THEN {"orchestrator", "run"} ELSE {p}

Ask(p) ==
  \E i \in Slots :
    /\ Enabled(p) /\ Free(i)
    /\ preview' = Cleared(Clears(p))
    /\ waiting' = (waiting \ Clears(p)) \cup {p}
    /\ replay' = ReplayAfter(Clears(p))
    /\ flights' =
         [Late(Clears(p) \ {p}) EXCEPT
            ![i] = Asking(p, selected, IF p = "run" THEN demoCase ELSE None)]
    /\ UNCHANGED <<selected, detail, demoCase>>

(* selectDemoCase: the choice is disabled while the run panel waits.        *)
ChooseCase(k) ==
  /\ detail # None /\ "run" \notin waiting
  /\ k \in DemoCases[selected]
  /\ demoCase' = k
  /\ preview' = Cleared({"run"})
  /\ replay' = ReplayAfter({"run"})
  /\ flights' = Late({"run"})
  /\ UNCHANGED <<selected, detail, waiting>>

Replay ==
  /\ detail # None /\ preview["run"] # None
  /\ replay' = preview["run"]
  /\ UNCHANGED <<selected, detail, preview, waiting, demoCase, flights>>

-----------------------------------------------------------------------------
Done(i) == flights' = [flights EXCEPT ![i] = None]

(* Answers about details count while their effect is active.                *)
DetailAnswer(i, ok) ==
  /\ flights[i] # None /\ flights[i].panel = "detail"
  /\ detail' = IF ok /\ ~flights[i].late THEN flights[i].of ELSE detail
  /\ Done(i)
  /\ UNCHANGED <<selected, preview, waiting, demoCase, replay>>

(* A preview's answer is shown, whoever asked; an error leaves what is shown*)
(* as it is.  Either ends the panel's wait.                                 *)
PreviewAnswer(i, ok) ==
  /\ flights[i] # None /\ flights[i].panel \in Panels
  /\ LET p == flights[i].panel
     IN  /\ preview' =
              IF ok THEN [preview EXCEPT ![p] = [of |-> flights[i].of, case |-> flights[i].case,
                                                 late |-> flights[i].late]]
                    ELSE preview
         /\ waiting' = waiting \ {p}
         /\ replay' = IF ok THEN ReplayAfter({p}) ELSE replay
  /\ Done(i)
  /\ UNCHANGED <<selected, detail, demoCase>>

WorkbenchNext ==
  \/ \E c \in Compositions : Select(c)
  \/ \E p \in Panels : Ask(p)
  \/ \E k \in AllCases : ChooseCase(k)
  \/ Replay
  \/ \E i \in Slots, ok \in BOOLEAN : DetailAnswer(i, ok) \/ PreviewAnswer(i, ok)

WorkbenchSpec == WorkbenchInit /\ [][WorkbenchNext]_workbenchVars

-----------------------------------------------------------------------------
(* A result shown is of the selected composition, a run's of the chosen     *)
(* case too, unless its panel was cleared while it was in flight: the tests *)
(* switch compositions between answers only (builder-ui.test.tsx:2143).     *)
ShownIsOfSelection ==
  \A p \in Panels : preview[p] # None =>
    \/ preview[p].late
    \/ /\ preview[p].of = selected
       /\ p = "run" => preview[p].case = demoCase

(* The details are those of the selected composition, in whatever order the *)
(* answers arrive (scenario-composition-state.ts:47).                       *)
DetailIsOfSelection == detail \in {selected, None}

(* A replay shown is of the run shown (scenario-evidence-state.ts:20).      *)
ReplayIsOfShownRun == replay # None => replay = preview["run"]

(* A panel that waits has a request in flight: no answer, late or failed,   *)
(* leaves a button disabled for good.                                       *)
WaitsHaveRequests ==
  \A p \in waiting : \E i \in Slots : flights[i] # None /\ flights[i].panel = p

(* What the Workbench shows is of its selection, and what it waits for is on*)
(* its way.                                                                 *)
WorkbenchShowsSelection ==
  /\ ShownIsOfSelection /\ DetailIsOfSelection /\ ReplayIsOfShownRun /\ WaitsHaveRequests

=============================================================================
