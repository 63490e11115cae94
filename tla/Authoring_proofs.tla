-------------------------- MODULE Authoring_proofs --------------------------
(* What is proved of the pages and commands with which agents are written:   *)
(* the Scenario Workbench (Workbench), the Studio's editor (Studio), the     *)
(* Creator Workbench (CreatorDesk), the pack compiler it asks (PackConfigs)  *)
(* and the compile commands (CompileCommands), for any catalog, texts and    *)
(* configurations, answers in any order, and any number of commands. The     *)
(* parts share no state.                                                     *)
EXTENDS MCAuthoring, Compilers_proofs,
        SequenceTheorems, FiniteSetTheorems, WellFoundedInduction, TLAPS
-----------------------------------------------------------------------------
(* The Workbench: what is shown is of the selection, in whatever order        *)
(* answers come, and nobody waits for a request that is not there.           *)

(* A request on its way that was not overtaken asks for what is selected.   *)
FlightsAreOfSelection ==
  \A i \in Slots : flights[i] # None =>
    \/ flights[i].late
    \/ /\ flights[i].of = selected
       /\ flights[i].panel = "run" => flights[i].case = demoCase

(* What is shown came from a request on its way: that is what has to be     *)
(* known of the requests for the invariant to be inductive.                 *)
WorkbenchInv == WorkbenchTypeOK /\ FlightsAreOfSelection /\ WorkbenchShowsSelection

(* The cases and the default case of a composition are among all cases.     *)
LEMMA CasesAreCases ==
  ASSUME CasesAssumption, NEW c \in Compositions
  PROVE  DemoCases[c] \cup {DefaultCase[c]} \subseteq AllCases
  BY DEF AllCases

(* Marking requests late changes nothing else of them.                      *)
LEMMA LateKeepsRequests ==
  ASSUME NoneAssumption, WorkbenchTypeOK, NEW S, NEW i \in Slots
  PROVE  /\ Late(S)[i] \in Requests \cup {None}
         /\ Late(S)[i] = None <=> flights[i] = None
         /\ flights[i] # None =>
              /\ Late(S)[i].panel = flights[i].panel /\ Late(S)[i].of = flights[i].of
              /\ Late(S)[i].case = flights[i].case
              /\ flights[i].late \/ flights[i].panel \in S => Late(S)[i].late
<1>1. flights[i] \in Requests \cup {None} /\ None \notin Requests
  BY DEF WorkbenchTypeOK, NoneAssumption
<1>2. Late(S)[i] = IF flights[i] # None /\ flights[i].panel \in S
                     THEN [flights[i] EXCEPT !.late = TRUE] ELSE flights[i]
  BY DEF Late
<1>3. CASE flights[i] = None
  BY <1>1, <1>2, <1>3
<1>4. CASE flights[i] # None /\ flights[i].panel \in S
  <2>1. [flights[i] EXCEPT !.late = TRUE] \in Requests
    BY <1>1, <1>4 DEF Requests
  <2> QED
    BY <1>1, <1>2, <1>4, <2>1 DEF Requests
<1>5. CASE flights[i] # None /\ flights[i].panel \notin S
  BY <1>1, <1>2, <1>5 DEF Requests
<1> QED
  BY <1>3, <1>4, <1>5

(* A new request is one, and not None.                                      *)
LEMMA AskingIsRequest ==
  ASSUME NoneAssumption, NEW p \in Panels \cup {"detail"}, NEW c \in Compositions,
         NEW k \in AllCases \cup {None}
  PROVE  Asking(p, c, k) \in Requests /\ Asking(p, c, k) # None
<1>1. Asking(p, c, k) \in Requests
  BY DEF Asking, Requests
<1> QED
  BY <1>1 DEF NoneAssumption

(* Each composition may be the one selected first.                          *)
LEMMA WorkbenchBegins ==
  ASSUME CasesAssumption, NoneAssumption, WorkbenchInit PROVE WorkbenchInv
<1>1. PICK c \in Compositions : Selected(c)
  BY DEF WorkbenchInit
<1>2. Asking("detail", c, None) \in Requests /\ Asking("detail", c, None) # None
  BY AskingIsRequest
<1>3. flights \in [Slots -> Requests \cup {None}]
  BY <1>1, <1>2 DEF Selected
<1>4. WorkbenchTypeOK
  BY <1>1, <1>3 DEF Selected, WorkbenchTypeOK
<1>5. FlightsAreOfSelection
  BY <1>1, <1>2 DEF Selected, FlightsAreOfSelection, Asking
<1>6. WorkbenchShowsSelection
  BY <1>1 DEF Selected, WorkbenchShowsSelection, ShownIsOfSelection, DetailIsOfSelection,
     ReplayIsOfShownRun, WaitsHaveRequests
<1> QED
  BY <1>4, <1>5, <1>6 DEF WorkbenchInv

(* selectComposition: a new composition clears the panels, and every request*)
(* on its way is late.                                                      *)
LEMMA SelectStep ==
  ASSUME CasesAssumption, NoneAssumption, WorkbenchInv, NEW c \in Compositions, Select(c)
  PROVE  WorkbenchInv'
<1>1. CASE c = selected
  <2>1. /\ preview' = [p \in Panels |-> IF p = "composition" THEN None ELSE preview[p]]
        /\ UNCHANGED <<selected, detail, waiting, demoCase, replay, flights>>
    BY <1>1 DEF Select, SelectAmong, Cleared
  <2>2. preview \in [Panels -> Answers \cup {None}] /\ "run" \in Panels
    BY DEF WorkbenchInv, WorkbenchTypeOK, Panels
  <2>3. WorkbenchTypeOK'
    BY <2>1, <2>2 DEF WorkbenchInv, WorkbenchTypeOK
  <2>4. FlightsAreOfSelection'
    BY <2>1 DEF WorkbenchInv, FlightsAreOfSelection
  <2>5. WorkbenchShowsSelection'
    BY <2>1, <2>2 DEF WorkbenchInv, WorkbenchShowsSelection, ShownIsOfSelection,
       DetailIsOfSelection, ReplayIsOfShownRun, WaitsHaveRequests
  <2> QED
    BY <2>3, <2>4, <2>5 DEF WorkbenchInv
<1>2. CASE c # selected
  <2>1. PICK i \in Slots :
          /\ Free(i) /\ selected' = c /\ detail' = None
          /\ preview' = [p \in Panels |-> None]
          /\ waiting' = waiting \ (Panels \ {"composition"})
          /\ demoCase' = DefaultCase[c] /\ replay' = None
          /\ flights' = [Late(Panels \cup {"detail"}) EXCEPT ![i] = Asking("detail", c, None)]
    BY <1>2 DEF Select, SelectAmong, Cleared, CaseFor, ReplayAfter, Panels
  <2>2. Asking("detail", c, None) \in Requests /\ Asking("detail", c, None) # None
    BY AskingIsRequest
  <2>3. \A j \in Slots : flights'[j] = IF j = i THEN Asking("detail", c, None)
                                       ELSE Late(Panels \cup {"detail"})[j]
    BY <2>1 DEF Late
  <2>4. flights' \in [Slots -> Requests \cup {None}]
    BY <2>1, <2>2, <2>3, LateKeepsRequests DEF WorkbenchInv, Late
  <2>5. WorkbenchTypeOK'
    BY <2>1, <2>4 DEF WorkbenchInv, WorkbenchTypeOK
  <2>6. \A j \in Slots \ {i} : flights[j] # None => flights'[j].late
    <3>1. \A j \in Slots : flights[j] # None => flights[j].panel \in Panels \cup {"detail"}
      BY DEF WorkbenchInv, WorkbenchTypeOK, Requests
    <3> QED
      BY <2>3, <3>1, LateKeepsRequests DEF WorkbenchInv
  <2>7. \A j \in Slots : flights'[j] # None =>
          \/ flights'[j].late
          \/ flights'[j].of = selected' /\ (flights'[j].panel = "run" => flights'[j].case = demoCase')
    <3>1. TAKE j \in Slots
    <3>2. HAVE flights'[j] # None
    <3>3. CASE j = i
      BY <2>1, <2>3, <3>3 DEF Asking
    <3>4. CASE j # i
      <4>1. flights[j] # None
        BY <2>3, <3>2, <3>4, LateKeepsRequests DEF WorkbenchInv
      <4> QED
        BY <2>6, <3>4, <4>1
    <3> QED
      BY <3>3, <3>4
  <2>8. WaitsHaveRequests'
    <3>1. SUFFICES ASSUME NEW p \in waiting'
                   PROVE  \E j \in Slots : flights'[j] # None /\ flights'[j].panel = p
      BY DEF WaitsHaveRequests, Slots
    <3>2. PICK j \in Slots : flights[j] # None /\ flights[j].panel = p
      BY <2>1, <3>1 DEF WorkbenchInv, WorkbenchShowsSelection, WaitsHaveRequests
    <3>3. j # i
      BY <2>1, <3>2 DEF Free
    <3> QED
      BY <2>3, <3>2, <3>3, LateKeepsRequests DEF WorkbenchInv
  <2> QED
    BY <2>1, <2>5, <2>7, <2>8 DEF WorkbenchInv, FlightsAreOfSelection, Slots, WorkbenchShowsSelection, ShownIsOfSelection,
       DetailIsOfSelection, ReplayIsOfShownRun
<1> QED
  BY <1>1, <1>2

(* A panel asked for: it and those that follow it are cleared.              *)
LEMMA AskStep ==
  ASSUME CasesAssumption, NoneAssumption, WorkbenchInv, NEW p \in Panels, Ask(p)
  PROVE  WorkbenchInv'
<1> DEFINE k == IF p = "run" THEN demoCase ELSE None
           S == Clears(p) \ {p}
<1>1. PICK i \in Slots :
        /\ Free(i)
        /\ preview' = [q \in Panels |-> IF q \in Clears(p) THEN None ELSE preview[q]]
        /\ waiting' = (waiting \ Clears(p)) \cup {p}
        /\ replay' = IF "run" \in Clears(p) THEN None ELSE replay
        /\ flights' = [Late(S) EXCEPT ![i] = Asking(p, selected, k)]
        /\ UNCHANGED <<selected, detail, demoCase>>
  BY DEF Ask, Cleared, ReplayAfter
<1>2. Asking(p, selected, k) \in Requests /\ Asking(p, selected, k) # None
  <2>1. selected \in Compositions /\ demoCase \in AllCases
    BY CasesAreCases DEF WorkbenchInv, WorkbenchTypeOK
  <2> QED
    BY <2>1, AskingIsRequest
<1> HIDE DEF k, S
<1>3. \A j \in Slots : flights'[j] = IF j = i THEN Asking(p, selected, k) ELSE Late(S)[j]
  BY <1>1 DEF Late
<1>4. flights' \in [Slots -> Requests \cup {None}]
  BY <1>1, <1>2, <1>3, LateKeepsRequests DEF WorkbenchInv, Late
<1>5. preview \in [Panels -> Answers \cup {None}] /\ "run" \in Panels
  BY DEF WorkbenchInv, WorkbenchTypeOK, Panels
<1>6. WorkbenchTypeOK'
  BY <1>1, <1>4, <1>5 DEF WorkbenchInv, WorkbenchTypeOK
<1>7. FlightsAreOfSelection'
  <2>1. SUFFICES ASSUME NEW j \in Slots, flights'[j] # None
                 PROVE  \/ flights'[j].late
                        \/ /\ flights'[j].of = selected
                           /\ flights'[j].panel = "run" => flights'[j].case = demoCase
    BY <1>1 DEF FlightsAreOfSelection, Slots
  <2>2. CASE j = i
    BY <1>3, <2>2 DEF Asking, k
  <2>3. CASE j # i
    <3>1. flights[j] # None /\ flights'[j] = Late(S)[j]
      BY <1>3, <2>1, <2>3, LateKeepsRequests DEF WorkbenchInv
    <3>2. /\ flights'[j].panel = flights[j].panel /\ flights'[j].of = flights[j].of
          /\ flights'[j].case = flights[j].case
          /\ flights[j].late => flights'[j].late
      BY <3>1, LateKeepsRequests DEF WorkbenchInv
    <3>3. \/ flights[j].late
          \/ flights[j].of = selected /\ (flights[j].panel = "run" => flights[j].case = demoCase)
      BY <3>1 DEF WorkbenchInv, FlightsAreOfSelection
    <3> QED
      BY <3>2, <3>3
  <2> QED
    BY <2>2, <2>3
<1>8. WaitsHaveRequests'
  <2>1. SUFFICES ASSUME NEW q \in waiting'
                 PROVE  \E j \in Slots : flights'[j] # None /\ flights'[j].panel = q
    BY DEF WaitsHaveRequests, Slots
  <2>2. CASE q = p
    BY <1>2, <1>3, <2>2 DEF Asking
  <2>3. CASE q # p
    <3>1. PICK j \in Slots : flights[j] # None /\ flights[j].panel = q
      BY <1>1, <2>3 DEF WorkbenchInv, WorkbenchShowsSelection, WaitsHaveRequests
    <3>2. j # i
      BY <1>1, <3>1 DEF Free
    <3> QED
      BY <1>3, <3>1, <3>2, LateKeepsRequests DEF WorkbenchInv
  <2> QED
    BY <2>2, <2>3
<1>9. ShownIsOfSelection' /\ ReplayIsOfShownRun' /\ DetailIsOfSelection'
  BY <1>1, <1>5 DEF WorkbenchInv, WorkbenchShowsSelection, ShownIsOfSelection,
     ReplayIsOfShownRun, DetailIsOfSelection
<1> QED
  BY <1>6, <1>7, <1>8, <1>9 DEF WorkbenchInv, WorkbenchShowsSelection

(* selectDemoCase: the run and its replay are cleared.                      *)
LEMMA ChooseStep ==
  ASSUME NoneAssumption, WorkbenchInv, NEW k \in AllCases, ChooseCase(k)
  PROVE  WorkbenchInv'
<1>1. /\ k \in DemoCases[selected] /\ demoCase' = k
      /\ preview' = [q \in Panels |-> IF q = "run" THEN None ELSE preview[q]]
      /\ replay' = None /\ flights' = Late({"run"})
      /\ UNCHANGED <<selected, detail, waiting>>
  BY DEF ChooseCase, Cleared, ReplayAfter
<1>2. preview \in [Panels -> Answers \cup {None}] /\ "run" \in Panels
  BY DEF WorkbenchInv, WorkbenchTypeOK, Panels
<1>3. flights' \in [Slots -> Requests \cup {None}]
  BY <1>1, LateKeepsRequests DEF WorkbenchInv, Late
<1>4. WorkbenchTypeOK'
  BY <1>1, <1>2, <1>3 DEF WorkbenchInv, WorkbenchTypeOK
<1>5. FlightsAreOfSelection'
  <2>1. SUFFICES ASSUME NEW j \in Slots, flights'[j] # None
                 PROVE  \/ flights'[j].late
                        \/ /\ flights'[j].of = selected
                           /\ flights'[j].panel = "run" => flights'[j].case = demoCase'
    BY <1>1 DEF FlightsAreOfSelection, Slots
  <2>2. flights[j] # None /\ flights'[j] = Late({"run"})[j]
    BY <1>1, <2>1, LateKeepsRequests DEF WorkbenchInv
  <2>3. /\ flights'[j].panel = flights[j].panel /\ flights'[j].of = flights[j].of
        /\ flights[j].late \/ flights[j].panel = "run" => flights'[j].late
    BY <2>2, LateKeepsRequests DEF WorkbenchInv
  <2>4. flights[j].late \/ flights[j].of = selected
    BY <2>2 DEF WorkbenchInv, FlightsAreOfSelection
  <2> QED
    BY <2>3, <2>4
<1>6. WaitsHaveRequests'
  <2>1. SUFFICES ASSUME NEW q \in waiting
                 PROVE  \E j \in Slots : flights'[j] # None /\ flights'[j].panel = q
    BY <1>1 DEF WaitsHaveRequests, Slots
  <2>2. PICK j \in Slots : flights[j] # None /\ flights[j].panel = q
    BY DEF WorkbenchInv, WorkbenchShowsSelection, WaitsHaveRequests
  <2> QED
    BY <1>1, <2>2, LateKeepsRequests DEF WorkbenchInv
<1>7. ShownIsOfSelection' /\ ReplayIsOfShownRun' /\ DetailIsOfSelection'
  BY <1>1, <1>2 DEF WorkbenchInv, WorkbenchShowsSelection, ShownIsOfSelection,
     ReplayIsOfShownRun, DetailIsOfSelection
<1> QED
  BY <1>4, <1>5, <1>6, <1>7 DEF WorkbenchInv, WorkbenchShowsSelection

(* The answer for slot i has come: the other requests stay on their way.    *)
LEMMA DoneKeepsOthers ==
  ASSUME WorkbenchInv, NEW i \in Slots, Done(i), UNCHANGED <<selected, demoCase>>
  PROVE  /\ flights' \in [Slots -> Requests \cup {None}]
         /\ FlightsAreOfSelection'
         /\ \A j \in Slots \ {i} : flights'[j] = flights[j]
  BY DEF WorkbenchInv, WorkbenchTypeOK, Done, FlightsAreOfSelection, Slots

(* Details arrive, and count if they are not late.                          *)
LEMMA DetailStep ==
  ASSUME NoneAssumption, WorkbenchInv, NEW i \in Slots, NEW ok \in BOOLEAN, DetailAnswer(i, ok)
  PROVE  WorkbenchInv'
<1>1. /\ flights[i] # None /\ flights[i].panel = "detail" /\ Done(i)
      /\ detail' = (IF ok /\ ~flights[i].late THEN flights[i].of ELSE detail)
      /\ UNCHANGED <<selected, preview, waiting, demoCase, replay>>
  BY DEF DetailAnswer
<1>2. /\ flights' \in [Slots -> Requests \cup {None}] /\ FlightsAreOfSelection'
      /\ \A j \in Slots \ {i} : flights'[j] = flights[j]
  BY <1>1, DoneKeepsOthers
<1>3. detail' \in {selected, None} /\ selected \in Compositions
  BY <1>1 DEF WorkbenchInv, WorkbenchTypeOK, FlightsAreOfSelection, WorkbenchShowsSelection,
     DetailIsOfSelection
<1>4. WorkbenchTypeOK'
  BY <1>1, <1>2, <1>3 DEF WorkbenchInv, WorkbenchTypeOK
<1>5. WaitsHaveRequests'
  <2>1. SUFFICES ASSUME NEW q \in waiting
                 PROVE  \E j \in Slots : flights'[j] # None /\ flights'[j].panel = q
    BY <1>1 DEF WaitsHaveRequests, Slots
  <2>2. PICK j \in Slots : flights[j] # None /\ flights[j].panel = q
    BY DEF WorkbenchInv, WorkbenchShowsSelection, WaitsHaveRequests
  <2>3. j # i
    BY <1>1, <2>2 DEF WorkbenchInv, WorkbenchTypeOK, Panels
  <2> QED
    BY <1>2, <2>2, <2>3
<1> QED
  BY <1>1, <1>2, <1>3, <1>4, <1>5 DEF WorkbenchInv, WorkbenchShowsSelection, ShownIsOfSelection,
     DetailIsOfSelection, ReplayIsOfShownRun

(* A preview's answer or error arrives.                                     *)
LEMMA PreviewStep ==
  ASSUME NoneAssumption, WorkbenchInv, NEW i \in Slots, NEW ok \in BOOLEAN, PreviewAnswer(i, ok)
  PROVE  WorkbenchInv'
<1> DEFINE p == flights[i].panel
           answer == [of |-> flights[i].of, case |-> flights[i].case, late |-> flights[i].late]
<1>1. /\ flights[i] # None /\ p \in Panels /\ Done(i)
      /\ preview' = (IF ok THEN [preview EXCEPT ![p] = answer] ELSE preview)
      /\ waiting' = waiting \ {p}
      /\ replay' = (IF ok /\ p = "run" THEN None ELSE replay)
      /\ UNCHANGED <<selected, detail, demoCase>>
  BY DEF PreviewAnswer, ReplayAfter
<1>2. /\ flights' \in [Slots -> Requests \cup {None}] /\ FlightsAreOfSelection'
      /\ \A j \in Slots \ {i} : flights'[j] = flights[j]
  BY <1>1, DoneKeepsOthers
<1>3. answer \in Answers
  <2>1. flights[i] \in Requests
    BY <1>1 DEF WorkbenchInv, WorkbenchTypeOK
  <2> QED
    BY <2>1 DEF Requests, Answers
<1>4. \/ answer.late
      \/ answer.of = selected /\ (p = "run" => answer.case = demoCase)
  BY <1>1 DEF WorkbenchInv, FlightsAreOfSelection
<1>5. preview \in [Panels -> Answers \cup {None}] /\ "run" \in Panels
  BY DEF WorkbenchInv, WorkbenchTypeOK, Panels
<1> HIDE DEF answer, p
<1>6. \A q \in Panels : preview'[q] = IF ok /\ q = p THEN answer ELSE preview[q]
  BY <1>1, <1>5
<1>7. WorkbenchTypeOK'
  <2>1. preview' \in [Panels -> Answers \cup {None}]
    BY <1>1, <1>3, <1>5
  <2> QED
    BY <1>1, <1>2, <2>1 DEF WorkbenchInv, WorkbenchTypeOK
<1>8. ShownIsOfSelection'
  BY <1>1, <1>4, <1>6 DEF WorkbenchInv, WorkbenchShowsSelection, ShownIsOfSelection
<1>9. ReplayIsOfShownRun' /\ DetailIsOfSelection'
  BY <1>1, <1>5, <1>6 DEF WorkbenchInv, WorkbenchShowsSelection, ReplayIsOfShownRun, DetailIsOfSelection
<1>10. WaitsHaveRequests'
  <2>1. SUFFICES ASSUME NEW q \in waiting \ {p}
                 PROVE  \E j \in Slots : flights'[j] # None /\ flights'[j].panel = q
    BY <1>1 DEF WaitsHaveRequests, Slots
  <2>2. PICK j \in Slots : flights[j] # None /\ flights[j].panel = q
    BY DEF WorkbenchInv, WorkbenchShowsSelection, WaitsHaveRequests
  <2> QED
    BY <1>2, <2>1, <2>2 DEF p
<1> QED
  BY <1>2, <1>7, <1>8, <1>9, <1>10 DEF WorkbenchInv, WorkbenchShowsSelection

(* Each step keeps the invariant.                                           *)
LEMMA WorkbenchSteps ==
  ASSUME CasesAssumption, NoneAssumption, WorkbenchInv, [WorkbenchNext]_workbenchVars
  PROVE  WorkbenchInv'
<1>1. CASE Replay
  BY <1>1 DEF Replay, WorkbenchInv, WorkbenchTypeOK, Panels, FlightsAreOfSelection, Slots,
     WorkbenchShowsSelection, ShownIsOfSelection, DetailIsOfSelection, ReplayIsOfShownRun,
     WaitsHaveRequests
<1>2. CASE UNCHANGED workbenchVars
  BY <1>2 DEF workbenchVars, WorkbenchInv, WorkbenchTypeOK, FlightsAreOfSelection, Slots,
     WorkbenchShowsSelection, ShownIsOfSelection, DetailIsOfSelection, ReplayIsOfShownRun,
     WaitsHaveRequests
<1> QED
  BY <1>1, <1>2, SelectStep, AskStep, ChooseStep, DetailStep, PreviewStep DEF WorkbenchNext

(* Answers land whenever they land, compositions and cases change between:  *)
(* the panels, the details and the replay show the selection, and every     *)
(* spinner has its request.                                                 *)
THEOREM WorkbenchAlwaysShowsSelection ==
  ASSUME CasesAssumption, NoneAssumption
  PROVE  WorkbenchSpec => []WorkbenchShowsSelection
<1>1. WorkbenchInv => WorkbenchShowsSelection
  BY DEF WorkbenchInv
<1> QED
  BY <1>1, WorkbenchBegins, WorkbenchSteps, PTL DEF WorkbenchSpec

-----------------------------------------------------------------------------
(* The Studio.                                                               *)

(* What was inspected, what is valid and what was compiled is the text in    *)
(* the buffer, with the exceptions the properties name.                     *)
EditorInv ==
  /\ inspected # None => inspected.text = buffer \/ strayed
  /\ lastValid # None => lastValid = buffer \/ strayed
  /\ meta # None => meta.text = buffer \/ meta.displaced

(* So it was for the preview on its way, at its click; it was of the DSL if  *)
(* it is to count, and only a new text takes the studio back to the builder. *)
PreviewInv ==
  running # None /\ running.mode = "dsl" =>
    /\ running.text = running.valid \/ running.strayed
    /\ (running.text = buffer /\ mode = "dsl") \/ running.touched
    /\ running.meta # None => running.meta = running.text \/ running.displaced

EvidenceInv ==
  /\ Counts => (evidence.about.text = buffer /\ mode = "dsl") \/ evidence.about.touched
  /\ EvidenceNamesItsText

StudioInv == StudioTypeOK /\ EditorInv /\ PreviewInv /\ EvidenceInv /\ DriftIsAnnounced

(* The studio opens on a form, with nothing inspected.                      *)
LEMMA StudioOpens ==
  ASSUME TextsAssumption, StudioInit PROVE StudioInv
BY DEF TextsAssumption, StudioInit, Opened, StudioInv, StudioTypeOK, EditorInv, PreviewInv,
       EvidenceInv, Counts, EvidenceNamesItsText, DriftIsAnnounced, Texts

(* A text put in the buffer drops all that was known of the old one.         *)
LEMMA TouchedKeepsRunning ==
  ASSUME TextsAssumption, StudioInv, NEW t \in Texts, SetBuffer(t)
  PROVE  /\ buffer' = t /\ inspected' = None /\ lastValid' = None /\ strayed' = FALSE
         /\ running' \in Click \cup {None}
         /\ PreviewInv'
<1>1. /\ buffer' = t /\ inspected' = None /\ lastValid' = None /\ strayed' = FALSE
      /\ running' = IF running = None THEN None ELSE [running EXCEPT !.touched = TRUE]
  BY DEF SetBuffer, BufferIs
<1>2. CASE running = None
  BY <1>1, <1>2 DEF PreviewInv
<1>3. CASE running # None
  <2>1. running \in Click
    BY <1>3 DEF StudioInv, StudioTypeOK
  <2>2. running' \in Click /\ running'.touched
        /\ running'.mode = running.mode /\ running'.text = running.text
        /\ running'.valid = running.valid /\ running'.strayed = running.strayed
        /\ running'.meta = running.meta /\ running'.displaced = running.displaced
    BY <1>1, <1>3, <2>1 DEF Click
  <2> QED
    BY <1>1, <1>3, <2>2 DEF StudioInv, PreviewInv
<1> QED
  BY <1>1, <1>2, <1>3

(* Evidence of another text counts for nothing.                             *)
LEMMA StaledCountsNot ==
  ASSUME StudioInv, evidence' = Staled
  PROVE  /\ evidence' \in {None} \cup [status : {"failed", "stale"}, about : {None}]
         /\ ~Counts'
BY DEF Staled, Bare, Counts

(* updateDslBuffer, sendCompiledDslToEditor                                 *)
LEMMA ReplaceKeeps ==
  ASSUME TextsAssumption, StudioInv, NEW t \in Texts, NEW artifact, Replace(t, artifact, Staled),
         artifact = None \/ (t \in Compiled /\ artifact = Waiting(t))
  PROVE  StudioInv'
<1>1. /\ SetBuffer(t) /\ applied' = FALSE /\ meta' = artifact /\ evidence' = Staled
      /\ UNCHANGED <<form, mode, drifted, inspecting, source>>
  BY DEF Replace
<1>2. /\ meta' \in [text : Compiled, inspected : BOOLEAN, displaced : BOOLEAN] \cup {None}
      /\ meta' # None => meta'.text = t
  <2>1. CASE artifact = None
    BY <1>1, <2>1
  <2>2. CASE t \in Compiled /\ artifact = Waiting(t)
    BY <1>1, <2>2 DEF Waiting
  <2> QED
    BY <2>1, <2>2
<1>3. buffer' = t /\ inspected' = None /\ lastValid' = None /\ strayed' = FALSE
      /\ running' \in Click \cup {None} /\ PreviewInv'
  BY <1>1, TouchedKeepsRunning
<1>4. /\ evidence' \in {None} \cup [status : {"failed", "stale"}, about : {None}]
      /\ ~Counts'
  BY <1>1, StaledCountsNot
<1>5. StudioTypeOK'
  BY <1>1, <1>2, <1>3, <1>4 DEF StudioInv, StudioTypeOK
<1>6. EditorInv'
  BY <1>2, <1>3 DEF EditorInv
<1>7. EvidenceInv' /\ DriftIsAnnounced'
  BY <1>1, <1>4 DEF StudioInv, EvidenceInv, EvidenceNamesItsText, DriftIsAnnounced
<1> QED
  BY <1>3, <1>5, <1>6, <1>7 DEF StudioInv

(* A form that changes takes the buffer along in builder mode only.         *)
LEMMA EditFormKeeps ==
  ASSUME TextsAssumption, StudioInv, NEW f \in Forms, EditForm(f)
  PROVE  StudioInv'
<1>1. /\ form' = f /\ UNCHANGED <<mode, applied, evidence, inspecting, source>> /\ f \in Texts
      /\ UNCHANGED Counts
  BY DEF EditForm, Texts, Counts
<1>2. CASE mode = "builder"
  <2>1. /\ SetBuffer(f) /\ drifted' = FALSE
        /\ meta' = IF meta = None THEN None ELSE [meta EXCEPT !.displaced = TRUE]
    BY <1>2 DEF EditForm
  <2>2. buffer' = f /\ inspected' = None /\ lastValid' = None /\ strayed' = FALSE
        /\ running' \in Click \cup {None} /\ PreviewInv'
    BY <1>1, <2>1, TouchedKeepsRunning
  <2>3. /\ meta' \in [text : Compiled, inspected : BOOLEAN, displaced : BOOLEAN] \cup {None}
        /\ meta' # None => meta'.displaced
    <3>1. CASE meta = None
      BY <2>1, <3>1
    <3>2. CASE meta # None
      <4>1. meta \in [text : Compiled, inspected : BOOLEAN, displaced : BOOLEAN]
        BY <3>2 DEF StudioInv, StudioTypeOK
      <4> QED
        BY <2>1, <3>2, <4>1
    <3> QED
      BY <3>1, <3>2
  <2>4. StudioTypeOK'
    BY <1>1, <2>1, <2>2, <2>3 DEF StudioInv, StudioTypeOK
  <2>5. EditorInv'
    BY <2>2, <2>3 DEF EditorInv
  <2>6. EvidenceInv' /\ DriftIsAnnounced'
    BY <1>1, <1>2, <2>1 DEF StudioInv, EvidenceInv, EvidenceNamesItsText, DriftIsAnnounced
  <2> QED
    BY <2>2, <2>4, <2>5, <2>6 DEF StudioInv
<1>3. CASE mode # "builder"
  <2>1. drifted' = TRUE /\ UNCHANGED <<buffer, inspected, lastValid, strayed, running, meta>>
    BY <1>3 DEF EditForm
  <2> QED
    BY <1>1, <2>1 DEF StudioInv, StudioTypeOK, EditorInv, PreviewInv, EvidenceInv,
       EvidenceNamesItsText, DriftIsAnnounced
<1> QED
  BY <1>2, <1>3

(* Back to the builder: whatever still runs was started on another text.    *)
LEMMA ResetKeeps ==
  ASSUME TextsAssumption, StudioInv, ResetFromBuilder
  PROVE  StudioInv'
<1>1. /\ SetBuffer(form) /\ mode' = "builder" /\ applied' = FALSE /\ meta' = None
      /\ evidence' = None /\ drifted' = FALSE /\ UNCHANGED <<form, inspecting, source>>
      /\ form \in Texts
  BY DEF ResetFromBuilder, StudioInv, StudioTypeOK, Texts
<1>2. buffer' = form /\ inspected' = None /\ lastValid' = None /\ strayed' = FALSE
      /\ running' \in Click \cup {None} /\ PreviewInv'
  BY <1>1, TouchedKeepsRunning
<1> QED
  BY <1>1, <1>2 DEF StudioInv, StudioTypeOK, EditorInv, EvidenceInv, Counts,
     EvidenceNamesItsText, DriftIsAnnounced

(* The verdict is on the buffer, or an answer has strayed.                  *)
LEMMA AnswerKeeps ==
  ASSUME TextsAssumption, StudioInv, NEW reached \in BOOLEAN, InspectAnswer(reached)
  PROVE  StudioInv'
<1> DEFINE ok == reached /\ inspecting \notin Broken
<1>1. /\ inspecting # None /\ inspected' = [text |-> inspecting, ok |-> ok]
      /\ lastValid' = (IF ok THEN inspecting ELSE lastValid)
      /\ meta' = (IF ok /\ meta # None THEN [meta EXCEPT !.inspected = TRUE] ELSE meta)
      /\ strayed' = (strayed \/ inspecting # buffer) /\ inspecting' = None
      /\ UNCHANGED <<form, buffer, mode, applied, drifted, evidence, running, source>>
      /\ UNCHANGED Counts
  BY DEF InspectAnswer, Counts
<1>2. ok \in BOOLEAN /\ inspecting \in Texts
  BY <1>1 DEF StudioInv, StudioTypeOK
<1> HIDE DEF ok
<1>3. /\ meta' \in [text : Compiled, inspected : BOOLEAN, displaced : BOOLEAN] \cup {None}
      /\ meta' # None => meta # None /\ meta'.text = meta.text /\ meta'.displaced = meta.displaced
  <2>1. meta \in [text : Compiled, inspected : BOOLEAN, displaced : BOOLEAN] \cup {None}
    BY DEF StudioInv, StudioTypeOK
  <2>2. CASE ok /\ meta # None
    BY <1>1, <2>1, <2>2
  <2>3. CASE ~(ok /\ meta # None)
    BY <1>1, <2>1, <2>3
  <2> QED
    BY <2>2, <2>3
<1>4. StudioTypeOK'
  BY <1>1, <1>2, <1>3 DEF StudioInv, StudioTypeOK
<1>5. EditorInv'
  BY <1>1, <1>2, <1>3 DEF StudioInv, EditorInv
<1> QED
  BY <1>1, <1>4, <1>5 DEF StudioInv, PreviewInv, EvidenceInv, EvidenceNamesItsText,
     DriftIsAnnounced

(* applyDslAsRunSource                                                      *)
LEMMA ApplyKeeps ==
  ASSUME TextsAssumption, StudioInv, Apply
  PROVE  StudioInv'
<1>1. /\ InspectedOk(inspected) /\ lastValid' = inspected.text /\ mode' = "dsl" /\ applied' = TRUE
      /\ drifted' = FALSE /\ source' = form
      /\ UNCHANGED <<form, buffer, inspected, meta, evidence, inspecting, running, strayed>>
      /\ UNCHANGED Counts
  BY DEF Apply, Counts
<1>2. inspected \in [text : Texts, ok : BOOLEAN] /\ inspected # None
  BY <1>1 DEF InspectedOk, StudioInv, StudioTypeOK
<1>3. StudioTypeOK'
  BY <1>1, <1>2 DEF StudioInv, StudioTypeOK
<1>4. EditorInv'
  BY <1>1, <1>2 DEF StudioInv, EditorInv
<1>5. PreviewInv' /\ EvidenceInv'
  BY <1>1 DEF StudioInv, PreviewInv, EvidenceInv, EvidenceNamesItsText
<1> QED
  BY <1>1, <1>3, <1>4, <1>5 DEF StudioInv, DriftIsAnnounced

(* The click knows what the editor knew.                                    *)
LEMMA RunKeeps ==
  ASSUME TextsAssumption, StudioInv, Run
  PROVE  StudioInv'
<1> DEFINE click ==
       [mode |-> mode, text |-> IF mode = "dsl" THEN buffer ELSE form,
        ok |-> InspectedOk(inspected), applied |-> applied, valid |-> lastValid,
        meta |-> IF meta = None THEN None ELSE meta.text,
        displaced |-> meta # None /\ meta.displaced,
        strayed |-> strayed, touched |-> FALSE]
<1>1. /\ MayRun /\ running' = click
      /\ UNCHANGED <<form, buffer, inspected, lastValid, meta, mode, applied, drifted,
                     evidence, inspecting, strayed, source>>
      /\ UNCHANGED Counts
  BY DEF Run, Counts
<1>2. click \in Click
  <2>1. InspectedOk(inspected) \in BOOLEAN
    BY DEF InspectedOk, StudioInv, StudioTypeOK
  <2>2. (meta # None /\ meta.displaced) \in BOOLEAN
    BY DEF StudioInv, StudioTypeOK
  <2>3. (IF meta = None THEN None ELSE meta.text) \in Compiled \cup {None}
    BY DEF StudioInv, StudioTypeOK
  <2>4. (IF mode = "dsl" THEN buffer ELSE form) \in Texts
    BY DEF StudioInv, StudioTypeOK, Texts
  <2> QED
    BY <2>1, <2>2, <2>3, <2>4 DEF Click, StudioInv, StudioTypeOK
<1>3. mode = "dsl" => lastValid # None
  BY <1>1 DEF MayRun
<1>4. PreviewInv'
  BY <1>1, <1>3 DEF StudioInv, EditorInv, PreviewInv
<1> HIDE DEF click
<1>5. StudioTypeOK'
  BY <1>1, <1>2 DEF StudioInv, StudioTypeOK
<1> QED
  BY <1>1, <1>4, <1>5 DEF StudioInv, EditorInv, EvidenceInv, EvidenceNamesItsText,
     DriftIsAnnounced

(* Evidence counts only if the click was on the DSL.                        *)
LEMMA RunAnswerKeeps ==
  ASSUME TextsAssumption, StudioInv, NEW ok \in BOOLEAN, RunAnswer(ok)
  PROVE  StudioInv'
<1> DEFINE about == [text |-> running.text, names |-> running.meta,
                     displaced |-> running.displaced, touched |-> running.touched]
<1>1. /\ running # None /\ running' = None
      /\ UNCHANGED <<form, buffer, inspected, lastValid, meta, mode, applied, drifted,
                     inspecting, strayed, source>>
      /\ \/ running.mode = "dsl" /\ evidence' = [status |-> "ready", about |-> about]
         \/ evidence' = [status |-> "failed", about |-> None]
  BY DEF RunAnswer, Bare
<1>2. running \in Click
  BY <1>1 DEF StudioInv, StudioTypeOK
<1>3. about \in About
  BY <1>2 DEF Click, About
<1>4. StudioTypeOK'
  BY <1>1, <1>3 DEF StudioInv, StudioTypeOK
<1>5. EvidenceInv'
  <2>1. CASE running.mode = "dsl" /\ evidence' = [status |-> "ready", about |-> about]
    BY <1>1, <2>1 DEF StudioInv, PreviewInv, EvidenceInv, EvidenceNamesItsText
  <2>2. CASE evidence' = [status |-> "failed", about |-> None]
    BY <2>2 DEF EvidenceInv, EvidenceNamesItsText, Counts
  <2> QED
    BY <1>1, <2>1, <2>2
<1> QED
  BY <1>1, <1>4, <1>5 DEF StudioInv, EditorInv, PreviewInv, DriftIsAnnounced

(* An answer that could not be read ends the run and proves nothing.        *)
LEMMA RunUnreadKeeps ==
  ASSUME StudioInv, RunUnread
  PROVE  StudioInv'
<1>1. /\ running' = None
      /\ UNCHANGED <<form, buffer, inspected, lastValid, meta, mode, applied, drifted,
                     evidence, inspecting, strayed, source>>
  BY DEF RunUnread
<1> QED
  BY <1>1 DEF StudioInv, StudioTypeOK, EditorInv, PreviewInv, EvidenceInv, Counts,
     EvidenceNamesItsText, DriftIsAnnounced

(* Each step of the studio keeps its invariant.                             *)
LEMMA StudioSteps ==
  ASSUME TextsAssumption, StudioInv, [StudioNext]_studioVars
  PROVE  StudioInv'
<1>1. ASSUME NEW t \in Typed, Type(t) PROVE StudioInv'
  BY <1>1, ReplaceKeeps DEF Type, Texts
<1>2. ASSUME NEW t \in Compiled, SendCompiled(t) PROVE StudioInv'
  BY <1>2, ReplaceKeeps DEF SendCompiled, Texts
<1>3. CASE ForgetArtifact
  BY <1>3 DEF ForgetArtifact, StudioInv, StudioTypeOK, EditorInv, PreviewInv, EvidenceInv,
     Counts, EvidenceNamesItsText, DriftIsAnnounced
<1>4. CASE Inspect
  BY <1>4 DEF Inspect, StudioInv, StudioTypeOK, EditorInv, PreviewInv, EvidenceInv,
     Counts, EvidenceNamesItsText, DriftIsAnnounced
<1>5. CASE UNCHANGED studioVars
  BY <1>5 DEF studioVars, StudioInv, StudioTypeOK, EditorInv, PreviewInv, EvidenceInv,
     Counts, EvidenceNamesItsText, DriftIsAnnounced
<1> QED
  BY <1>1, <1>2, <1>3, <1>4, <1>5, EditFormKeeps, ResetKeeps, AnswerKeeps, ApplyKeeps, RunKeeps,
     RunAnswerKeeps, RunUnreadKeeps DEF StudioNext

(* However the user edits while answers are on their way: a preview of the   *)
(* DSL runs inspected text, evidence that counts fits the editor and names   *)
(* the text that ran, and drift is announced, each with the exception its    *)
(* property names.                                                          *)
THEOREM StudioAlwaysShowsWhatRan ==
  ASSUME TextsAssumption PROVE StudioSpec => []StudioShowsWhatRan
<1>1. StudioInv => StudioShowsWhatRan
  BY DEF StudioInv, PreviewInv, EvidenceInv, StudioShowsWhatRan, RunsInspectedText,
     EvidenceFitsEditor
<1> QED
  BY <1>1, StudioOpens, StudioSteps, PTL DEF StudioSpec

-----------------------------------------------------------------------------
(* Pack configurations: what their compilation and its preview judge.        *)

(* Issues one after the other hold an error where one of them does.         *)
LEMMA ConcatErrors ==
  ASSUME NEW s \in Seq(Issues), NEW t \in Seq(Issues)
  PROVE  /\ s \o t \in Seq(Issues)
         /\ HasErrors(s \o t) <=> HasErrors(s) \/ HasErrors(t)
<1>1. /\ s \o t \in Seq(Issues) /\ Len(s) \in Nat /\ Len(t) \in Nat
      /\ DOMAIN s = 1 .. Len(s) /\ DOMAIN t = 1 .. Len(t)
      /\ DOMAIN (s \o t) = 1 .. Len(s) + Len(t)
      /\ \A i \in 1 .. Len(s) : (s \o t)[i] = s[i]
      /\ \A i \in 1 .. Len(t) : (s \o t)[Len(s) + i] = t[i]
  OBVIOUS
<1>2. ASSUME HasErrors(s \o t) PROVE HasErrors(s) \/ HasErrors(t)
  <2>1. PICK i \in 1 .. Len(s) + Len(t) : (s \o t)[i].severity = "error"
    BY <1>1, <1>2 DEF HasErrors
  <2>2. CASE i \in 1 .. Len(s)
    BY <1>1, <2>1, <2>2 DEF HasErrors
  <2>3. CASE i \notin 1 .. Len(s)
    <3>1. i - Len(s) \in 1 .. Len(t) /\ (s \o t)[Len(s) + (i - Len(s))] = (s \o t)[i]
      BY <1>1, <2>1, <2>3
    <3> QED
      BY <1>1, <2>1, <3>1 DEF HasErrors
  <2> QED
    BY <2>2, <2>3
<1>3. ASSUME HasErrors(s) PROVE HasErrors(s \o t)
  BY <1>1, <1>3 DEF HasErrors
<1>4. ASSUME HasErrors(t) PROVE HasErrors(s \o t)
  <2>1. PICK i \in 1 .. Len(t) : t[i].severity = "error"
    BY <1>1, <1>4 DEF HasErrors
  <2>2. Len(s) + i \in DOMAIN (s \o t)
    BY <1>1, <2>1
  <2> QED
    BY <1>1, <2>1, <2>2 DEF HasErrors
<1> QED
  BY <1>1, <1>2, <1>3, <1>4

(* One issue is an error or a warning.                                      *)
LEMMA SingleIssues ==
  /\ <<>> \in Seq(Issues) /\ ~HasErrors(<<>>)
  /\ \A code \in Codes : /\ Error(code) \in Seq(Issues) /\ HasErrors(Error(code))
                         /\ Warning(code) \in Seq(Issues) /\ ~HasErrors(Warning(code))
<1>1. ASSUME NEW code \in Codes, NEW sev \in {"error", "warning"}
      PROVE  /\ <<Issue(code, sev)>> \in Seq(Issues)
             /\ HasErrors(<<Issue(code, sev)>>) <=> sev = "error"
  <2> DEFINE s == <<Issue(code, sev)>>
  <2>1. Issue(code, sev) \in Issues /\ Issue(code, sev).severity = sev
    BY DEF Issue, Issues
  <2>2. DOMAIN s = {1} /\ s[1] = Issue(code, sev)
    OBVIOUS
  <2>3. s \in Seq(Issues)
    BY <2>1
  <2> HIDE DEF s
  <2>4. HasErrors(s) <=> sev = "error"
    BY <2>1, <2>2 DEF HasErrors
  <2> QED
    BY <2>3, <2>4 DEF s
<1> QED
  BY <1>1 DEF Error, Warning, HasErrors

(* Without a schema that parses there is no pack; with one, only a missing   *)
(* rule is an error of its own.                                             *)
LEMMA PackErrors ==
  ASSUME NEW c
  PROVE  /\ PackIssues(c) \in Seq(Issues)
         /\ HasErrors(PackIssues(c)) <=> ~Parses(c) \/ Missing(c.rule)
<1> DEFINE a == AdapterIssues(c)
           w == When(NeedsConfirmation(c.rule), Warning("UNCONFIRMED"))
           m == When(Missing(c.rule), Error("MISSING"))
           x == When(c.auto = "write", Warning("INVALID"))
           e == Error("INVALID")
           n == When(c.archetype \notin Known, Error("INVALID"))
<1>1. {"UNCONFIRMED", "MISSING", "INVALID", "SECRET"} \subseteq Codes
  BY DEF Codes
<1>2. a \in Seq(Issues) /\ (Parses(c) => ~HasErrors(a))
  BY <1>1, SingleIssues DEF AdapterIssues, When, Parses
<1>3. w \in Seq(Issues) /\ ~HasErrors(w)
  BY <1>1, SingleIssues DEF When
<1>4. m \in Seq(Issues) /\ (HasErrors(m) <=> Missing(c.rule))
  BY <1>1, SingleIssues DEF When
<1>5. x \in Seq(Issues) /\ ~HasErrors(x)
  BY <1>1, SingleIssues DEF When
<1>6. e \in Seq(Issues) /\ HasErrors(e) /\ n \in Seq(Issues)
  BY <1>1, SingleIssues DEF When
<1>7. PackIssues(c) = IF Parses(c) THEN w \o m \o a \o x ELSE e \o n \o a
  BY DEF PackIssues
<1> HIDE DEF a, w, m, x, e, n
<1>8. w \o m \in Seq(Issues) /\ (HasErrors(w \o m) <=> Missing(c.rule))
  BY <1>3, <1>4, ConcatErrors
<1>9. w \o m \o a \in Seq(Issues) /\ (Parses(c) => (HasErrors(w \o m \o a) <=> Missing(c.rule)))
  BY <1>2, <1>8, ConcatErrors
<1>10. /\ w \o m \o a \o x \in Seq(Issues)
       /\ Parses(c) => (HasErrors(w \o m \o a \o x) <=> Missing(c.rule))
  BY <1>5, <1>9, ConcatErrors
<1>11. e \o n \in Seq(Issues) /\ HasErrors(e \o n)
  BY <1>6, ConcatErrors
<1>12. e \o n \o a \in Seq(Issues) /\ HasErrors(e \o n \o a)
  BY <1>2, <1>11, ConcatErrors
<1> QED
  BY <1>7, <1>10, <1>12

(* The archetypes' validators repeat the pack's, and ask for strategies.    *)
LEMMA ArchetypeErrors ==
  ASSUME NEW c
  PROVE  /\ ArchetypeIssues(c) \in Seq(Issues)
         /\ HasErrors(ArchetypeIssues(c)) <=>
              /\ c.archetype \in Supported
              /\ \/ ~Parses(c) \/ Missing(c.rule)
                 \/ c.archetype = "diagnostic" /\ ~c.strategies
<1> DEFINE p == PackIssues(c)
           w == When(Parses(c) /\ ~c.capability, Warning("INVALID"))
           d == When(Parses(c) /\ c.archetype = "diagnostic", DiagnosticIssues(c))
<1>1. "INVALID" \in Codes
  BY DEF Codes
<1>2. w \in Seq(Issues) /\ ~HasErrors(w)
  BY <1>1, SingleIssues DEF When
<1>3. /\ DiagnosticIssues(c) \in Seq(Issues)
      /\ HasErrors(DiagnosticIssues(c)) <=> ~c.strategies
  BY <1>1, SingleIssues DEF When, DiagnosticIssues
<1>4. /\ d \in Seq(Issues)
      /\ HasErrors(d) <=> Parses(c) /\ c.archetype = "diagnostic" /\ ~c.strategies
  BY <1>3, SingleIssues DEF When
<1>5. p \in Seq(Issues) /\ (HasErrors(p) <=> ~Parses(c) \/ Missing(c.rule))
  BY PackErrors
<1>6. ArchetypeIssues(c) = IF c.archetype \notin Supported THEN <<>> ELSE p \o w \o d
  BY DEF ArchetypeIssues
<1> HIDE DEF p, w, d
<1>7. p \o w \in Seq(Issues) /\ (HasErrors(p \o w) <=> HasErrors(p))
  BY <1>2, <1>5, ConcatErrors
<1>8. p \o w \o d \in Seq(Issues) /\ (HasErrors(p \o w \o d) <=> HasErrors(p) \/ HasErrors(d))
  BY <1>4, <1>7, ConcatErrors
<1> QED
  BY <1>4, <1>5, <1>6, <1>8, SingleIssues

(* What an unconfirmed field adds to the issues of a publish.               *)
Left(c, f) == 
  When(~Confirmed(f), When(Missing(f), Error("MISSING"))
         \o When(c.environment \in Strict /\ NeedsConfirmation(f), Error("UNCONFIRMED")))

(* It is an error to leave it missing, or open where publishing is strict.  *)
LEMMA LeftErrors ==
  ASSUME NEW c, NEW f
  PROVE  /\ Left(c, f) \in Seq(Issues)
         /\ HasErrors(Left(c, f)) <=>
              /\ ~Confirmed(f)
              /\ Missing(f) \/ (c.environment \in Strict /\ NeedsConfirmation(f))
<1> DEFINE m == When(Missing(f), Error("MISSING"))
           u == When(c.environment \in Strict /\ NeedsConfirmation(f), Error("UNCONFIRMED"))
<1>1. {"UNCONFIRMED", "MISSING"} \subseteq Codes
  BY DEF Codes
<1>2. m \in Seq(Issues) /\ (HasErrors(m) <=> Missing(f))
  BY <1>1, SingleIssues DEF When
<1>3. u \in Seq(Issues) /\ (HasErrors(u) <=> c.environment \in Strict /\ NeedsConfirmation(f))
  BY <1>1, SingleIssues DEF When
<1>4. Left(c, f) = IF ~Confirmed(f) THEN m \o u ELSE <<>>
  BY DEF Left, When
<1> HIDE DEF m, u
<1>5. m \o u \in Seq(Issues) /\ (HasErrors(m \o u) <=> HasErrors(m) \/ HasErrors(u))
  BY <1>2, <1>3, ConcatErrors
<1> QED
  BY <1>2, <1>3, <1>4, <1>5, SingleIssues

(* What a publish refuses beside what every compilation does                *)
LEMMA PublishErrors ==
  ASSUME NEW c
  PROVE  /\ PublishIssues(c) \in Seq(Issues)
         /\ HasErrors(PublishIssues(c)) <=>
              \/ ~Parses(c) \/ Missing(c.rule) \/ ~c.publishable
              \/ HasErrors(Left(c, c.rule)) \/ HasErrors(Left(c, c.template))
              \/ c.environment \in Strict /\ c.adapter = "real_placeholder"
<1> DEFINE p == PackIssues(c)
           o == When(~c.publishable, Error("INVALID"))
           r == Left(c, c.rule)
           t == Left(c, c.template)
           a == When(c.environment \in Strict /\ c.adapter = "real_placeholder",
                     Error("REAL_ADAPTER"))
           all == o \o r \o t \o a
<1>1. {"INVALID", "REAL_ADAPTER"} \subseteq Codes
  BY DEF Codes
<1>2. o \in Seq(Issues) /\ (HasErrors(o) <=> ~c.publishable)
  BY <1>1, SingleIssues DEF When
<1>3. a \in Seq(Issues)
      /\ (HasErrors(a) <=> c.environment \in Strict /\ c.adapter = "real_placeholder")
  BY <1>1, SingleIssues DEF When
<1>4. r \in Seq(Issues) /\ t \in Seq(Issues)
  BY LeftErrors
<1>5. p \in Seq(Issues) /\ (HasErrors(p) <=> ~Parses(c) \/ Missing(c.rule))
  BY PackErrors
<1>6. PublishIssues(c) = p \o (IF Parses(c) THEN all ELSE <<>>)
  BY DEF PublishIssues, When, Left
<1> HIDE DEF p, o, r, t, a
<1>7. o \o r \in Seq(Issues) /\ (HasErrors(o \o r) <=> HasErrors(o) \/ HasErrors(r))
  BY <1>2, <1>4, ConcatErrors
<1>8. o \o r \o t \in Seq(Issues)
      /\ (HasErrors(o \o r \o t) <=> HasErrors(o) \/ HasErrors(r) \/ HasErrors(t))
  BY <1>4, <1>7, ConcatErrors
<1>9. all \in Seq(Issues)
      /\ (HasErrors(all) <=> HasErrors(o) \/ HasErrors(r) \/ HasErrors(t) \/ HasErrors(a))
  BY <1>3, <1>8, ConcatErrors
<1> HIDE DEF all
<1>10. /\ PublishIssues(c) \in Seq(Issues)
       /\ HasErrors(PublishIssues(c)) <=> HasErrors(p) \/ (Parses(c) /\ HasErrors(all))
  <2>1. CASE Parses(c)
    BY <1>5, <1>6, <1>9, <2>1, ConcatErrors
  <2>2. CASE ~Parses(c)
    BY <1>5, <1>6, <2>2, ConcatErrors, SingleIssues
  <2> QED
    BY <2>1, <2>2
<1> QED
  BY <1>2, <1>3, <1>5, <1>9, <1>10 DEF r, t

(* What is wrong with a configuration whichever way it is compiled.         *)
Refusable(c) ==
  \/ ~Parses(c) \/ Missing(c.rule) \/ c.archetype \notin Supported
  \/ c.archetype = "diagnostic" /\ ~c.strategies
  \/ ~c.handoff \/ c.auto = "write"

(* A compilation refuses what may be refused, and a publish more.           *)
LEMMA InputErrors ==
  ASSUME NEW c, NEW how \in {"preview", "publish"}
  PROVE  /\ InputIssues(c, how) \in Seq(Issues)
         /\ HasErrors(InputIssues(c, how)) <=>
              Refusable(c) \/ (how = "publish" /\ HasErrors(PublishIssues(c)))
<1> DEFINE p == PackIssues(c)
           a == ArchetypeIssues(c)
           u == When(c.archetype \notin Supported, Error("UNSUPPORTED"))
           q == When(how = "publish", PublishIssues(c))
           d == AdapterIssues(c)
           h == When(~c.handoff, Error("FAIL_CLOSED"))
           w == When(c.auto = "write", Error("UNGUARDED"))
<1>1. {"UNSUPPORTED", "SECRET", "FAIL_CLOSED", "UNGUARDED"} \subseteq Codes
  BY DEF Codes
<1>2. u \in Seq(Issues) /\ (HasErrors(u) <=> c.archetype \notin Supported)
  BY <1>1, SingleIssues DEF When
<1>3. q \in Seq(Issues) /\ (HasErrors(q) <=> how = "publish" /\ HasErrors(PublishIssues(c)))
  BY PublishErrors, SingleIssues DEF When
<1>4. d \in Seq(Issues) /\ (Parses(c) => ~HasErrors(d))
  BY <1>1, SingleIssues DEF AdapterIssues, When, Parses
<1>5. h \in Seq(Issues) /\ (HasErrors(h) <=> ~c.handoff)
  BY <1>1, SingleIssues DEF When
<1>6. w \in Seq(Issues) /\ (HasErrors(w) <=> c.auto = "write")
  BY <1>1, SingleIssues DEF When
<1>7. p \in Seq(Issues) /\ (HasErrors(p) <=> ~Parses(c) \/ Missing(c.rule))
  BY PackErrors
<1>8. /\ a \in Seq(Issues)
      /\ HasErrors(a) <=> /\ c.archetype \in Supported
                          /\ \/ ~Parses(c) \/ Missing(c.rule)
                             \/ c.archetype = "diagnostic" /\ ~c.strategies
  BY ArchetypeErrors
<1>9. InputIssues(c, how) = p \o a \o u \o q \o d \o h \o w
  BY DEF InputIssues
<1> HIDE DEF p, a, u, q, d, h, w
<1>10. p \o a \in Seq(Issues) /\ (HasErrors(p \o a) <=> HasErrors(p) \/ HasErrors(a))
  BY <1>7, <1>8, ConcatErrors
<1>11. p \o a \o u \in Seq(Issues)
       /\ (HasErrors(p \o a \o u) <=> HasErrors(p \o a) \/ HasErrors(u))
  BY <1>2, <1>10, ConcatErrors
<1>12. p \o a \o u \o q \in Seq(Issues)
       /\ (HasErrors(p \o a \o u \o q) <=> HasErrors(p \o a \o u) \/ HasErrors(q))
  BY <1>3, <1>11, ConcatErrors
<1>13. p \o a \o u \o q \o d \in Seq(Issues)
       /\ (HasErrors(p \o a \o u \o q \o d) <=> HasErrors(p \o a \o u \o q) \/ HasErrors(d))
  BY <1>4, <1>12, ConcatErrors
<1>14. p \o a \o u \o q \o d \o h \in Seq(Issues)
       /\ (HasErrors(p \o a \o u \o q \o d \o h) <=> HasErrors(p \o a \o u \o q \o d) \/ HasErrors(h))
  BY <1>5, <1>13, ConcatErrors
<1>15. p \o a \o u \o q \o d \o h \o w \in Seq(Issues)
       /\ (HasErrors(p \o a \o u \o q \o d \o h \o w)
             <=> HasErrors(p \o a \o u \o q \o d \o h) \/ HasErrors(w))
  BY <1>6, <1>14, ConcatErrors
<1>16. HasErrors(InputIssues(c, how)) <=>
         \/ HasErrors(p) \/ HasErrors(a) \/ HasErrors(u) \/ HasErrors(q) \/ HasErrors(d)
         \/ HasErrors(h) \/ HasErrors(w)
  BY <1>9, <1>10, <1>11, <1>12, <1>13, <1>14, <1>15
<1> QED
  BY <1>2, <1>3, <1>4, <1>5, <1>6, <1>7, <1>8, <1>9, <1>15, <1>16 DEF Refusable

(* A compilation passes when its input has no errors and its agent is valid. *)
LEMMA CompilePasses ==
  ASSUME NEW c, NEW how \in {"preview", "publish"},
         NEW output, output = CompilePack(c, how)
  PROVE  /\ output.ok \in BOOLEAN /\ output.artifacts \in BOOLEAN
         /\ output.ok <=> ~HasErrors(InputIssues(c, how)) /\ c.dsl
         /\ output.artifacts <=> ~HasErrors(InputIssues(c, how))
         /\ output.mode = how
         /\ output.issues \in Seq(Issues)
         /\ output.ok <=> ~HasErrors(output.issues)
         /\ output.ok => output.report = PassedReport(output.issues)
<1> DEFINE input == InputIssues(c, how)
           all == input \o OutputIssues(c)
<1>1. /\ OutputIssues(c) \in Seq(Issues) /\ (HasErrors(OutputIssues(c)) <=> ~c.dsl)
  <2>1. "DSL_INVALID" \in Codes
    BY DEF Codes
  <2> QED
    BY <2>1, SingleIssues DEF OutputIssues, When
<1>2. input \in Seq(Issues)
  BY InputErrors
<1>3. CompilePack(c, how) =
        IF HasErrors(input)
        THEN [ok |-> FALSE, artifacts |-> FALSE, mode |-> how, issues |-> input,
              report |-> RefusedReport(input)]
        ELSE [ok |-> ~HasErrors(all), artifacts |-> TRUE, mode |-> how, issues |-> all,
              report |-> PassedReport(all)]
  BY DEF CompilePack
<1> HIDE DEF input
<1>4. all \in Seq(Issues) /\ (HasErrors(all) <=> HasErrors(input) \/ ~c.dsl)
  BY <1>1, <1>2, ConcatErrors
<1> HIDE DEF all
<1>5. CASE HasErrors(input)
  <2>1. output.ok = FALSE /\ output.artifacts = FALSE /\ output.mode = how /\ output.issues = input
    BY <1>3, <1>5
  <2> QED
    BY <1>2, <1>5, <2>1 DEF input
<1>6. CASE ~HasErrors(input)
  <2>1. /\ output.ok = (~HasErrors(all)) /\ output.artifacts = TRUE /\ output.mode = how
        /\ output.issues = all /\ output.report = PassedReport(all)
    BY <1>3, <1>6
  <2>2. HasErrors(all) \in BOOLEAN
    BY DEF HasErrors
  <2> QED
    BY <1>4, <1>6, <2>1, <2>2 DEF input
<1> QED
  BY <1>5, <1>6

(* The overall level is the worst of the gates'.                            *)
LEMMA OverallIs ==
  ASSUME NEW g \in [GateNames -> Levels]
  PROVE  Overall(g) = IF \E n \in GateNames : g[n] = "blocked" THEN "blocked"
                      ELSE IF \E n \in GateNames : g[n] = "warning" THEN "warning" ELSE "ready"
<1>1. DOMAIN g = GateNames
  OBVIOUS
<1> QED
  BY <1>1 DEF Overall

(* The gates of what compiled warn, and the first of what did not blocks.    *)
LEMMA GateLevels ==
  ASSUME NEW c, NEW how \in {"preview", "publish"},
         NEW output, output = CompilePack(c, how)
  PROVE  /\ Gates(c, output) \in [GateNames -> Levels]
         /\ ~output.ok => Gates(c, output)["compile"] = "blocked"
         /\ output.ok => \A n \in GateNames : Gates(c, output)[n] # "blocked"
         /\ Gates(c, output)["official_certification"] = "warning"
<1>1. /\ output.ok \in BOOLEAN /\ output.artifacts \in BOOLEAN
      /\ output.ok => output.artifacts /\ ~HasErrors(output.issues)
      /\ output.ok => /\ output.report.status = "passed" /\ output.report.handoff = "covered"
                      /\ output.report.effects = "policy_guarded"
  <2>1. output.ok => output.report = PassedReport(output.issues) /\ ~HasErrors(output.issues)
    BY CompilePasses
  <2>2. output.ok => /\ output.report.status = "passed" /\ output.report.handoff = "covered"
                     /\ output.report.effects = "policy_guarded"
    BY <2>1 DEF PassedReport
  <2> QED
    BY <2>1, <2>2, CompilePasses
<1>2. AdapterSafety(c, output) \in {"ready", "warning"}
  BY DEF AdapterSafety
<1> DEFINE G == Gates(c, output)
           compile == ReadyIf(output.ok /\ output.report.status = "passed" /\ ~HasErrors(output.issues))
           artifacts == ReadyIf(output.artifacts)
           covered == ReadyIf(output.report.handoff = "covered")
           publish == IF output.mode = "publish" /\ ~output.ok THEN "blocked" ELSE "warning"
           guarded == ReadyIf(output.report.effects = "policy_guarded")
           safety == AdapterSafety(c, output)
<1>3. /\ compile \in {"ready", "blocked"} /\ artifacts \in {"ready", "blocked"}
      /\ covered \in {"ready", "blocked"} /\ guarded \in {"ready", "blocked"}
      /\ publish \in {"warning", "blocked"} /\ safety \in {"ready", "warning"}
  BY <1>2 DEF ReadyIf
<1>4. output.ok => /\ compile = "ready" /\ artifacts = "ready" /\ covered = "ready"
                   /\ guarded = "ready" /\ publish = "warning"
  BY <1>1 DEF ReadyIf
<1>5. ~output.ok => compile = "blocked"
  BY <1>1 DEF ReadyIf
<1>6. G = [compile |-> compile, artifacts |-> artifacts, test_cases |-> artifacts,
           trace_expectation |-> artifacts, fail_closed |-> covered, publish_gate |-> publish,
           side_effect |-> guarded, adapter_safety |-> safety,
           manual_runtime_run |-> "warning", official_certification |-> "warning"]
  BY DEF Gates
<1> HIDE DEF G, compile, artifacts, covered, publish, guarded, safety
<1>7. G \in [GateNames -> Levels]
  BY <1>3, <1>6 DEF GateNames, Levels
<1>8. /\ G["compile"] = compile /\ G["artifacts"] = artifacts /\ G["test_cases"] = artifacts
      /\ G["trace_expectation"] = artifacts /\ G["fail_closed"] = covered
      /\ G["publish_gate"] = publish /\ G["side_effect"] = guarded
      /\ G["adapter_safety"] = safety /\ G["manual_runtime_run"] = "warning"
      /\ G["official_certification"] = "warning"
  BY <1>6
<1>9. output.ok => \A n \in GateNames : G[n] # "blocked"
  BY <1>3, <1>4, <1>8 DEF GateNames
<1> QED
  BY <1>5, <1>7, <1>8, <1>9 DEF G

(* The readiness preview agrees with the compiler.                          *)
LEMMA ReadinessFollows ==
  ASSUME NEW c, NEW how \in {"preview", "publish"}
  PROVE  ReadinessFollowsCompiler(c, how)
<1> DEFINE output == CompilePack(c, how)
           G == Gates(c, output)
<1>1. /\ G \in [GateNames -> Levels]
      /\ ~output.ok => G["compile"] = "blocked"
      /\ output.ok => \A n \in GateNames : G[n] # "blocked"
      /\ G["official_certification"] = "warning"
  BY GateLevels
<1>2. "compile" \in GateNames /\ "official_certification" \in GateNames
  BY DEF GateNames
<1> HIDE DEF output, G
<1>3. Overall(G) = IF output.ok THEN "warning" ELSE "blocked"
  BY <1>1, <1>2, OverallIs
<1> QED
  BY <1>3 DEF ReadinessFollowsCompiler, output, G

(* What may be published may be previewed and leaves nothing open.          *)
LEMMA PublishStricter ==
  ASSUME NEW c PROVE PublishIsStricter(c)
<1> SUFFICES ASSUME CompilePack(c, "publish").ok
             PROVE  /\ CompilePack(c, "preview").ok
                    /\ ~Missing(c.rule) /\ ~Missing(c.template)
                    /\ c.environment \in Strict =>
                         /\ c.adapter # "real_placeholder"
                         /\ \A f \in {c.rule, c.template} : NeedsConfirmation(f) => Confirmed(f)
  BY DEF PublishIsStricter
<1>1. ~HasErrors(InputIssues(c, "publish")) /\ c.dsl
  BY CompilePasses
<1>2. ~Refusable(c) /\ ~HasErrors(PublishIssues(c))
  BY <1>1, InputErrors
<1>3. CompilePack(c, "preview").ok
  BY <1>1, <1>2, InputErrors, CompilePasses
<1>4. ASSUME NEW f \in {c.rule, c.template}
      PROVE  ~Missing(f) /\ (c.environment \in Strict /\ NeedsConfirmation(f) => Confirmed(f))
  <2>1. ~HasErrors(Left(c, f))
    BY <1>2, PublishErrors
  <2>2. Missing(f) => ~Confirmed(f)
    BY DEF Missing, Confirmed
  <2> QED
    BY <2>1, <2>2, LeftErrors
<1>5. c.environment \in Strict => c.adapter # "real_placeholder"
  BY <1>2, PublishErrors
<1> QED
  BY <1>3, <1>4, <1>5

(* Unguarded, marked or without a handoff, there are no artifacts.          *)
LEMMA CompilationFailsClosed ==
  ASSUME NEW c, NEW how \in {"preview", "publish"}
  PROVE  FailsClosed(c, how)
<1>1. (~c.handoff \/ c.auto = "write" \/ c.marked \/ Missing(c.rule)) => Refusable(c)
  BY DEF Refusable, Parses
<1>2. Refusable(c) => ~CompilePack(c, how).artifacts
  BY InputErrors, CompilePasses
<1> QED
  BY <1>1, <1>2 DEF FailsClosed

(* What is handed out: typed, and compiled when it says so.                 *)
LEMMA ResponseIs ==
  ASSUME NEW c \in Configurations, NEW how \in {"preview", "publish"}
  PROVE  /\ Response(c, how) \in Responses
         /\ Response(c, how).of = c
         /\ Response(c, how).gates = Gates(c, CompilePack(c, how))
         /\ Response(c, how).ok <=> CompilePack(c, how).ok
<1> DEFINE output == CompilePack(c, how)
           error == IF output.ok THEN "" ELSE output.issues[1].code
           ok == output.ok /\ output.artifacts
<1>1. /\ output.ok \in BOOLEAN /\ output.artifacts \in BOOLEAN
      /\ output.ok => output.artifacts
      /\ output.issues \in Seq(Issues) /\ (output.ok <=> ~HasErrors(output.issues))
  BY CompilePasses
<1>2. Gates(c, output) \in [GateNames -> Levels]
  BY GateLevels
<1>3. Response(c, how) = [of |-> c, ok |-> ok, gates |-> Gates(c, output), error |-> error]
  BY DEF Response
<1> HIDE DEF output
<1>4. error \in Codes \cup {""}
  <2>1. CASE output.ok
    BY <2>1
  <2>2. CASE ~output.ok
    <3>1. \E i \in DOMAIN output.issues : output.issues[i].severity = "error"
      BY <1>1, <2>2 DEF HasErrors
    <3>2. output.issues[1] \in Issues
      BY <1>1, <3>1
    <3> QED
      BY <2>2, <3>2 DEF Issues
  <2> QED
    BY <2>1, <2>2
<1>5. ok \in BOOLEAN /\ (ok <=> output.ok)
  BY <1>1
<1> HIDE DEF error, ok
<1>6. [of |-> c, ok |-> ok, gates |-> Gates(c, output), error |-> error] \in Responses
  BY <1>2, <1>4, <1>5 DEF Responses
<1> QED
  BY <1>3, <1>5, <1>6 DEF output

-----------------------------------------------------------------------------
(* The Creator Workbench.                                                    *)

(* A preview begun since the selection is of the archetype on the desk, and  *)
(* unless an older one has crossed it, it is the only one and is waited for. *)
FlightsInv ==
  /\ \A i \in DOMAIN compiles :
       compiles[i].before \/ compiles[i].of.archetype = desk.archetype
  /\ crossed \/ \A i \in DOMAIN compiles : ~compiles[i].before =>
       /\ loading /\ failure = ""
       /\ \A j \in DOMAIN compiles : ~compiles[j].before => j = i

(* What is shown is what was answered for the configuration it names.        *)
ShownIsResponse ==
  /\ shown # None => shown = Response(shown.of, "preview")
  /\ sent # None => Response(sent, "preview").ok
  /\ trying # None /\ sent # None => trying.of = sent \/ trying.overtaken
  /\ manual.status = "ready" /\ sent # None =>
       manual.about.of = sent \/ manual.about.overtaken

CreatorInv ==
  /\ CreatorTypeOK /\ FlightsInv /\ ShownIsResponse
  /\ ShownIsOfArchetype /\ RefusalIsOfShown /\ LoadingHasFlight

Flights == [of : Configurations, before : BOOLEAN]

(* The desk opens on the default of requests, with nothing asked.           *)
LEMMA CreatorOpens ==
  ASSUME CreatorAssumption, CreatorInit
  PROVE  CreatorInv
<1>1. /\ desk = Defaults["request"] /\ shown = None /\ failure = "" /\ loading = FALSE
      /\ compiles = <<>> /\ crossed = FALSE /\ sent = None /\ trying = None
      /\ manual = NoEvidence
  BY DEF CreatorInit, Opens
<1>2. desk \in Configurations /\ desk.archetype \in Archetypes
  BY <1>1 DEF CreatorAssumption
<1>3. compiles \in Seq(Flights) /\ Len(compiles) <= MaxCompiles /\ DOMAIN compiles = {}
  <2>1. <<>> \in Seq(Flights) /\ Len(<<>>) = 0
    OBVIOUS
  <2>2. DOMAIN <<>> = {}
    OBVIOUS
  <2>3. compiles = <<>>
    BY <1>1
  <2> QED
    BY <2>1, <2>2, <2>3 DEF CreatorAssumption
<1> QED
  BY <1>1, <1>2, <1>3 DEF CreatorInv, CreatorTypeOK, Flights, NoEvidence, Unproven, FlightsInv,
     ShownIsResponse, ShownIsOfArchetype, RefusalIsOfShown, LoadingHasFlight

(* Whatever is on its way was begun before the new selection.               *)
LEMMA SelectArchetypeKeeps ==
  ASSUME CreatorAssumption, CreatorInv, NEW a \in Archetypes, SelectArchetype(a)
  PROVE  CreatorInv'
<1>1. /\ desk' = Defaults[a] /\ shown' = None /\ failure' = "" /\ loading' = FALSE
      /\ crossed' = FALSE /\ sent' = None /\ UNCHANGED <<trying, manual>>
      /\ compiles' = [i \in DOMAIN compiles |-> [compiles[i] EXCEPT !.before = TRUE]]
  BY DEF SelectArchetype, Begun
<1>2. compiles \in Seq(Flights) /\ Len(compiles) <= MaxCompiles
  BY DEF CreatorInv, CreatorTypeOK, Flights
<1>3. \A i \in DOMAIN compiles : /\ [compiles[i] EXCEPT !.before = TRUE] \in Flights
                                 /\ [compiles[i] EXCEPT !.before = TRUE].before
  <2>1. \A i \in DOMAIN compiles : compiles[i] \in Flights
    BY <1>2
  <2>2. \A f \in Flights : [f EXCEPT !.before = TRUE] \in Flights /\ [f EXCEPT !.before = TRUE].before
    BY DEF Flights
  <2> QED
    BY <2>1, <2>2
<1>4. /\ compiles' \in Seq(Flights) /\ Len(compiles') = Len(compiles)
      /\ \A i \in DOMAIN compiles' : compiles'[i].before
  <2>1. DOMAIN compiles = 1 .. Len(compiles) /\ Len(compiles) \in Nat
    BY <1>2
  <2>2. /\ DOMAIN compiles' = 1 .. Len(compiles)
        /\ \A i \in 1 .. Len(compiles) : compiles'[i] = [compiles[i] EXCEPT !.before = TRUE]
    BY <1>1, <2>1
  <2>3. compiles' \in [1 .. Len(compiles) -> Flights]
    BY <1>1, <1>3, <2>1
  <2>4. compiles' \in Seq(Flights) /\ Len(compiles') = Len(compiles)
    BY <2>1, <2>2, <2>3
  <2>5. ASSUME NEW i \in 1 .. Len(compiles) PROVE compiles'[i].before
    <3>1. [compiles[i] EXCEPT !.before = TRUE].before
      BY <1>3, <2>1
    <3>2. compiles'[i] = [compiles[i] EXCEPT !.before = TRUE]
      BY <2>2
    <3> QED
      BY <3>1, <3>2
  <2> QED
    BY <2>2, <2>4, <2>5
<1>5. CreatorTypeOK'
  BY <1>1, <1>2, <1>4 DEF CreatorInv, CreatorTypeOK, CreatorAssumption, Flights
<1> QED
  BY <1>1, <1>4, <1>5 DEF CreatorInv, FlightsInv, ShownIsResponse, ShownIsOfArchetype,
     RefusalIsOfShown, LoadingHasFlight

(* An edit keeps the archetype.                                             *)
LEMMA EditsKeep ==
  ASSUME CreatorInv, NEW c \in Configurations, c.archetype = desk.archetype, Edit(c)
  PROVE  CreatorInv'
<1>1. desk' = c /\ UNCHANGED <<shown, failure, loading, compiles, crossed, sent, trying, manual>>
  BY DEF Edit
<1> QED
  BY <1>1 DEF CreatorInv, CreatorTypeOK, FlightsInv, ShownIsResponse, ShownIsOfArchetype,
     RefusalIsOfShown, LoadingHasFlight

(* ToggleHandoff and SetRule are such edits.                                *)
LEMMA EditingKeeps ==
  ASSUME CreatorInv, ToggleHandoff \/ \E valid \in BOOLEAN : SetRule(valid)
  PROVE  CreatorInv'
<1>1. desk \in Configurations
  BY DEF CreatorInv, CreatorTypeOK
<1>2. CASE ToggleHandoff
  <2>1. /\ [desk EXCEPT !.handoff = ~@] \in Configurations
        /\ [desk EXCEPT !.handoff = ~@].archetype = desk.archetype
    BY <1>1 DEF Configurations
  <2> QED
    BY <1>2, <2>1, EditsKeep DEF ToggleHandoff
<1>3. CASE \E valid \in BOOLEAN : SetRule(valid)
  <2>1. PICK valid \in BOOLEAN :
          Edit([desk EXCEPT !.rule.source = "confirmedByUser", !.dsl = valid])
    BY <1>3 DEF SetRule
  <2> DEFINE c == [desk EXCEPT !.rule.source = "confirmedByUser", !.dsl = valid]
  <2>2. desk.rule \in Fields /\ [desk.rule EXCEPT !.source = "confirmedByUser"] \in Fields
    BY <1>1 DEF Configurations, Fields
  <2>3. c \in Configurations /\ c.archetype = desk.archetype
    BY <1>1, <2>2 DEF Configurations
  <2> HIDE DEF c
  <2>4. Edit(c)
    BY <2>1 DEF c
  <2> QED
    BY <2>3, <2>4, EditsKeep
<1> QED
  BY <1>2, <1>3

(* The button waits: a preview is the only one since the selection.         *)
LEMMA CompileKeeps ==
  ASSUME CreatorAssumption, CreatorInv, Compile PROVE CreatorInv'
<1> DEFINE f == [of |-> desk, before |-> FALSE]
<1>1. /\ ~loading /\ Len(compiles) < MaxCompiles /\ loading' = TRUE /\ failure' = ""
      /\ compiles' = Append(compiles, f) /\ UNCHANGED <<desk, shown, crossed, sent, trying, manual>>
  BY DEF Compile
<1>2. compiles \in Seq(Flights) /\ f \in Flights /\ ~f.before /\ f.of = desk
  BY DEF CreatorInv, CreatorTypeOK, Flights
<1> HIDE DEF f
<1>3. /\ compiles' \in Seq(Flights) /\ Len(compiles') = Len(compiles) + 1 /\ Len(compiles) \in Nat
      /\ DOMAIN compiles = 1 .. Len(compiles) /\ DOMAIN compiles' = 1 .. Len(compiles) + 1
      /\ \A i \in DOMAIN compiles : compiles'[i] = compiles[i]
      /\ compiles'[Len(compiles) + 1] = f
  <2>1. compiles' = Append(compiles, f) /\ compiles \in Seq(Flights) /\ f \in Flights
    BY <1>1, <1>2
  <2> QED
    BY <2>1
<1>4. CreatorTypeOK'
  <2>1. Len(compiles') <= MaxCompiles
    <3>1. Len(compiles) < MaxCompiles
      BY <1>1
    <3> QED
      BY <1>3, <3>1 DEF CreatorAssumption
  <2>2. compiles' \in Seq([of : Configurations, before : BOOLEAN])
    BY <1>3 DEF Flights
  <2> QED
    BY <1>1, <2>1, <2>2 DEF CreatorInv, CreatorTypeOK
<1>5. crossed \/ \A i \in DOMAIN compiles : compiles[i].before
  BY <1>1 DEF CreatorInv, FlightsInv
<1>6. FlightsInv'
  <2>1. \A i \in DOMAIN compiles' : compiles'[i].before \/ compiles'[i].of.archetype = desk.archetype
    <3>1. \A i \in DOMAIN compiles : compiles[i].before \/ compiles[i].of.archetype = desk.archetype
      BY DEF CreatorInv, FlightsInv
    <3>2. \A i \in DOMAIN compiles' : i \in DOMAIN compiles \/ i = Len(compiles) + 1
      BY <1>3
    <3> QED
      BY <1>2, <1>3, <3>1, <3>2
  <2>2. crossed \/ \A i \in DOMAIN compiles' : ~compiles'[i].before => i = Len(compiles) + 1
    BY <1>3, <1>5
  <2> QED
    BY <1>1, <2>1, <2>2 DEF FlightsInv
<1>7. LoadingHasFlight'
  BY <1>3 DEF LoadingHasFlight
<1> QED
  BY <1>1, <1>4, <1>6, <1>7 DEF CreatorInv, ShownIsResponse, ShownIsOfArchetype, RefusalIsOfShown

(* A sequence without its i-th element                                      *)
LEMMA RemovedIs ==
  ASSUME NEW S, NEW s \in Seq(S), NEW i \in DOMAIN s
  PROVE  /\ RemoveAt(s, i) \in Seq(S) /\ Len(RemoveAt(s, i)) = Len(s) - 1
         /\ \A k \in DOMAIN RemoveAt(s, i) : \E j \in DOMAIN s \ {i} : RemoveAt(s, i)[k] = s[j]
<1> DEFINE l == SubSeq(s, 1, i - 1)
           r == SubSeq(s, i + 1, Len(s))
<1>1. i \in 1 .. Len(s) /\ Len(s) \in Nat
  OBVIOUS
<1>2. /\ l \in Seq(S) /\ Len(l) = i - 1 /\ \A k \in 1 .. i - 1 : l[k] = s[k]
  BY <1>1
<1>3. /\ r \in Seq(S) /\ Len(r) = Len(s) - i /\ \A k \in 1 .. Len(s) - i : r[k] = s[k + i]
  BY <1>1
<1>4. RemoveAt(s, i) = l \o r
  BY DEF RemoveAt
<1> HIDE DEF l, r
<1>5. /\ l \o r \in Seq(S) /\ Len(l \o r) = Len(s) - 1
      /\ DOMAIN (l \o r) = 1 .. Len(s) - 1
      /\ \A k \in 1 .. Len(s) - 1 :
           (l \o r)[k] = IF k <= i - 1 THEN l[k] ELSE r[k - (i - 1)]
  <2>1. l \o r \in Seq(S) /\ Len(l \o r) = Len(l) + Len(r)
    BY <1>2, <1>3, ConcatProperties
  <2>2. \A k \in 1 .. Len(l) + Len(r) :
          (l \o r)[k] = IF k <= Len(l) THEN l[k] ELSE r[k - Len(l)]
    BY <1>2, <1>3, ConcatProperties
  <2>3. Len(l) + Len(r) = Len(s) - 1
    BY <1>1, <1>2, <1>3
  <2>4. DOMAIN (l \o r) = 1 .. Len(l \o r)
    BY <2>1
  <2> QED
    BY <1>2, <2>1, <2>2, <2>3, <2>4
<1>6. ASSUME NEW k \in 1 .. Len(s) - 1
      PROVE  \E j \in DOMAIN s \ {i} : (l \o r)[k] = s[j]
  <2>1. CASE k <= i - 1
    <3>1. (l \o r)[k] = s[k] /\ k \in DOMAIN s \ {i}
      BY <1>1, <1>2, <1>5, <2>1
    <3> QED
      BY <3>1
  <2>2. CASE ~(k <= i - 1)
    <3>1. (l \o r)[k] = r[k - (i - 1)] /\ k - (i - 1) \in 1 .. Len(s) - i
      BY <1>1, <1>5, <2>2
    <3>2. r[k - (i - 1)] = s[(k - (i - 1)) + i]
      BY <1>3, <3>1
    <3>3. (k - (i - 1)) + i = k + 1 /\ k + 1 \in 1 .. Len(s) /\ k + 1 # i
      BY <1>1, <2>2
    <3>4. r[k - (i - 1)] = s[k + 1] /\ k + 1 \in DOMAIN s \ {i}
      BY <3>2, <3>3
    <3> QED
      BY <3>1, <3>4
  <2> QED
    BY <1>1, <2>1, <2>2
<1> QED
  BY <1>4, <1>5, <1>6

(* An answer or its loss takes the preview from the desk.                   *)
LEMMA SettleIs ==
  ASSUME CreatorAssumption, CreatorInv, NEW i \in DOMAIN compiles, Settle(i)
  PROVE  /\ compiles[i] \in Flights
         /\ compiles' \in Seq(Flights) /\ Len(compiles') <= MaxCompiles
         /\ FlightsInv' /\ LoadingHasFlight'
         /\ UNCHANGED <<desk, sent, trying, manual>>
         /\ crossed' \in BOOLEAN /\ (crossed' <=> crossed \/ compiles[i].before)
         /\ ~crossed' => failure = "" /\ compiles[i].of.archetype = desk.archetype
         /\ loading' = FALSE
<1>1. /\ loading' = FALSE /\ compiles' = RemoveAt(compiles, i)
      /\ crossed' = (crossed \/ compiles[i].before) /\ UNCHANGED <<desk, sent, trying, manual>>
  BY DEF Settle
<1>2. /\ compiles \in Seq(Flights) /\ Len(compiles) <= MaxCompiles /\ crossed \in BOOLEAN
      /\ FlightsInv
  BY DEF CreatorInv, CreatorTypeOK, Flights
<1>3. compiles[i] \in Flights /\ compiles[i].before \in BOOLEAN
  <2>1. compiles[i] \in Flights
    BY <1>2
  <2> QED
    BY <2>1 DEF Flights
<1>4. /\ compiles' \in Seq(Flights) /\ Len(compiles') = Len(compiles) - 1
      /\ \A k \in DOMAIN compiles' : \E j \in DOMAIN compiles \ {i} : compiles'[k] = compiles[j]
  BY <1>1, <1>2, RemovedIs
<1>5. Len(compiles') <= MaxCompiles
  <2>1. Len(compiles) \in Nat /\ Len(compiles) <= MaxCompiles /\ Len(compiles') = Len(compiles) - 1
    BY <1>2, <1>4
  <2> QED
    BY <2>1 DEF CreatorAssumption
<1>6. FlightsInv'
  <2>1. \A k \in DOMAIN compiles' :
          compiles'[k].before \/ compiles'[k].of.archetype = desk.archetype
    <3>1. \A j \in DOMAIN compiles :
            compiles[j].before \/ compiles[j].of.archetype = desk.archetype
      BY <1>2 DEF FlightsInv
    <3> QED
      BY <1>4, <3>1
  <2>2. crossed' \/ \A k \in DOMAIN compiles' : compiles'[k].before
    BY <1>1, <1>2, <1>3, <1>4 DEF FlightsInv
  <2> QED
    BY <1>1, <2>1, <2>2 DEF FlightsInv
<1>7. ~crossed' => failure = "" /\ compiles[i].of.archetype = desk.archetype
  BY <1>1, <1>2 DEF FlightsInv
<1>8. crossed' \in BOOLEAN /\ (crossed' <=> crossed \/ compiles[i].before)
  BY <1>1, <1>2, <1>3
<1> QED
  BY <1>1, <1>3, <1>4, <1>5, <1>6, <1>7, <1>8 DEF LoadingHasFlight

(* An answer is shown, whatever the desk shows by then.                     *)
LEMMA AnswersKeep ==
  ASSUME CreatorAssumption, CreatorInv, NEW i \in DOMAIN compiles, Answer(i) \/ Lose(i)
  PROVE  CreatorInv'
<1>1. Settle(i)
  BY DEF Answer, Lose
<1>2. /\ compiles[i] \in Flights
      /\ compiles' \in Seq(Flights) /\ Len(compiles') <= MaxCompiles
      /\ FlightsInv' /\ LoadingHasFlight'
      /\ UNCHANGED <<desk, sent, trying, manual>>
      /\ crossed' \in BOOLEAN /\ (crossed' <=> crossed \/ compiles[i].before)
      /\ ~crossed' => failure = "" /\ compiles[i].of.archetype = desk.archetype
      /\ loading' = FALSE
  BY <1>1, SettleIs
<1>3. CASE Answer(i)
  <2> DEFINE response == Response(compiles[i].of, "preview")
  <2>1. shown' = response /\ failure' = (IF response.ok THEN failure ELSE "refused")
    BY <1>3 DEF Answer
  <2>2. response \in Responses /\ response.of = compiles[i].of /\ response # None
    BY <1>2, ResponseIs DEF Flights, CreatorAssumption
  <2>3. shown' = Response(shown'.of, "preview")
    BY <2>1, <2>2
  <2> HIDE DEF response
  <2>4. CreatorTypeOK'
    BY <1>2, <2>1, <2>2 DEF CreatorInv, CreatorTypeOK, Flights
  <2>5. ShownIsResponse'
    BY <1>2, <2>3 DEF CreatorInv, ShownIsResponse
  <2>6. ShownIsOfArchetype' /\ RefusalIsOfShown'
    BY <1>2, <2>1, <2>2 DEF ShownIsOfArchetype, RefusalIsOfShown
  <2> QED
    BY <1>2, <2>4, <2>5, <2>6 DEF CreatorInv
<1>4. CASE Lose(i)
  <2>1. failure' = "lost" /\ UNCHANGED shown
    BY <1>4 DEF Lose
  <2>2. CreatorTypeOK'
    BY <1>2, <2>1 DEF CreatorInv, CreatorTypeOK, Flights
  <2> QED
    BY <1>2, <2>1, <2>2 DEF CreatorInv, ShownIsResponse, ShownIsOfArchetype, RefusalIsOfShown
<1> QED
  BY <1>3, <1>4

(* Evidence is of a run, or it counts for nothing.                          *)
Evidence ==
  [status : {"ready"}, about : Trial] \cup [status : {"none", "failed", "stale"}, about : {None}]

(* Sent is what is shown; evidence of before is stale, a run overtaken.     *)
LEMMA SendKeeps ==
  ASSUME CreatorInv, Send PROVE CreatorInv'
<1>1. /\ shown # None /\ shown.ok /\ sent' = shown.of
      /\ manual' = IF manual = NoEvidence THEN manual ELSE Unproven("stale")
      /\ trying' = IF trying = None THEN None ELSE Overtaken
      /\ UNCHANGED <<desk, shown, failure, loading, compiles, crossed>>
  BY DEF Send
<1>2. shown \in Responses /\ shown.of \in Configurations
  BY <1>1 DEF CreatorInv, CreatorTypeOK, Responses
<1>3. manual' \in Evidence /\ manual'.status # "ready"
  BY <1>1 DEF NoEvidence, Unproven, Evidence
<1>4. trying' \in Trial \cup {None} /\ (trying' # None => trying'.overtaken)
  BY <1>1 DEF Trial, Overtaken
<1>5. CreatorTypeOK'
  BY <1>1, <1>2, <1>3, <1>4 DEF CreatorInv, CreatorTypeOK, Evidence
<1>6. ShownIsResponse'
  BY <1>1, <1>3, <1>4 DEF CreatorInv, ShownIsResponse
<1> QED
  BY <1>1, <1>5, <1>6 DEF CreatorInv, FlightsInv, ShownIsOfArchetype, RefusalIsOfShown,
     LoadingHasFlight

(* A run is of what its click found in the editor.                          *)
LEMMA RunByHandKeeps ==
  ASSUME CreatorInv, RunByHand PROVE CreatorInv'
<1>1. /\ trying' = [of |-> sent, overtaken |-> FALSE]
      /\ UNCHANGED <<desk, shown, failure, loading, compiles, crossed, sent, manual>>
  BY DEF RunByHand
<1>2. trying' \in Trial /\ trying'.of = sent
  BY <1>1 DEF CreatorInv, CreatorTypeOK, Trial
<1>3. CreatorTypeOK'
  BY <1>1, <1>2 DEF CreatorInv, CreatorTypeOK
<1>4. ShownIsResponse'
  BY <1>1, <1>2 DEF CreatorInv, ShownIsResponse
<1> QED
  BY <1>1, <1>3, <1>4 DEF CreatorInv, FlightsInv, ShownIsOfArchetype, RefusalIsOfShown,
     LoadingHasFlight

(* The answer, whatever it is, is evidence of that run or of nothing.       *)
LEMMA RunSettlesKeeps ==
  ASSUME CreatorInv, RunSucceeds \/ RunFails \/ RunIsUnread PROVE CreatorInv'
<1>1. /\ trying # None /\ trying' = None
      /\ UNCHANGED <<desk, shown, failure, loading, compiles, crossed, sent>>
      /\ \/ manual' = [status |-> "ready", about |-> trying]
         \/ manual' = Unproven("failed")
         \/ manual' = manual
  BY DEF RunSucceeds, RunFails, RunIsUnread, RunSettles
<1>2. trying \in Trial /\ manual \in Evidence
  BY <1>1 DEF CreatorInv, CreatorTypeOK, Evidence
<1>3. manual' \in Evidence
  BY <1>1, <1>2 DEF Unproven, Evidence
<1>4. CreatorTypeOK'
  BY <1>1, <1>3 DEF CreatorInv, CreatorTypeOK, Evidence
<1>5. manual'.status = "ready" /\ sent # None => manual'.about.of = sent \/ manual'.about.overtaken
  BY <1>1 DEF CreatorInv, ShownIsResponse, Unproven
<1>6. ShownIsResponse'
  BY <1>1, <1>5 DEF CreatorInv, ShownIsResponse
<1> QED
  BY <1>1, <1>4, <1>6 DEF CreatorInv, FlightsInv, ShownIsOfArchetype, RefusalIsOfShown,
     LoadingHasFlight

(* Each step of the Creator Workbench keeps its invariant.                  *)
LEMMA CreatorSteps ==
  ASSUME CreatorAssumption, CreatorInv, [CreatorNext]_creatorVars
  PROVE  CreatorInv'
<1>1. CASE UNCHANGED creatorVars
  BY <1>1 DEF creatorVars, CreatorInv, CreatorTypeOK, FlightsInv, ShownIsResponse,
     ShownIsOfArchetype, RefusalIsOfShown, LoadingHasFlight
<1> QED
  BY <1>1, SelectArchetypeKeeps, EditingKeeps, CompileKeeps, AnswersKeep, SendKeeps,
     RunByHandKeeps, RunSettlesKeeps DEF CreatorNext

(* Whatever was run by hand, the gates displayed are never all ready.        *)
LEMMA ShownIsNotReady ==
  ASSUME CreatorInv PROVE NothingIsReady
<1> SUFFICES ASSUME shown # None
             PROVE  DisplayedOverall =
                      IF shown.ok /\ manual.status # "failed" THEN "warning" ELSE "blocked"
  BY DEF NothingIsReady
<1> DEFINE c == shown.of
           output == CompilePack(c, "preview")
           G == Gates(c, output)
           x == CASE manual.status = "ready" -> "ready" [] manual.status = "failed" -> "blocked"
                  [] OTHER -> "warning"
           D == [G EXCEPT !["manual_runtime_run"] = x]
<1>1. c \in Configurations /\ shown = Response(c, "preview")
  BY DEF CreatorInv, CreatorTypeOK, ShownIsResponse, Responses
<1>2. shown.gates = G /\ (shown.ok <=> output.ok)
  BY <1>1, ResponseIs
<1>3. /\ G \in [GateNames -> Levels]
      /\ ~output.ok => G["compile"] = "blocked"
      /\ output.ok => \A n \in GateNames : G[n] # "blocked"
      /\ G["official_certification"] = "warning"
  BY GateLevels
<1>4. x \in Levels /\ (x = "blocked" <=> manual.status = "failed")
  BY DEF Levels
<1>5. DisplayedGates = D
  BY <1>2 DEF DisplayedGates
<1> HIDE DEF c, output, G, x
<1>6. /\ D \in [GateNames -> Levels]
      /\ \A n \in GateNames : D[n] = IF n = "manual_runtime_run" THEN x ELSE G[n]
  BY <1>3, <1>4
<1>7. {"compile", "official_certification", "manual_runtime_run"} \subseteq GateNames
  BY DEF GateNames
<1>8. (\E n \in GateNames : D[n] = "blocked") <=> ~output.ok \/ manual.status = "failed"
  BY <1>3, <1>4, <1>6, <1>7
<1>9. D["official_certification"] = "warning"
  BY <1>3, <1>6, <1>7
<1> HIDE DEF D
<1>10. Overall(D) = IF ~output.ok \/ manual.status = "failed" THEN "blocked" ELSE "warning"
  BY <1>6, <1>7, <1>8, <1>9, OverallIs
<1> QED
  BY <1>2, <1>5, <1>10 DEF DisplayedOverall

(* However selections and edits overtake the compile previews and what is    *)
(* sent overtakes a manual run: answer and refusal are shown with the        *)
(* archetype they are of, unless crossed, what is waited for is on its way,  *)
(* nothing is called ready, the editor is sent only what compiled, and       *)
(* evidence that counts is of what the editor holds, unless overtaken.       *)
THEOREM CreatorAlwaysShowsItsConfig ==
  ASSUME CreatorAssumption
  PROVE  CreatorSpec => []CreatorShowsItsConfig
<1>1. CreatorInv => CreatorShowsItsConfig
  BY ShownIsNotReady DEF CreatorInv, ShownIsResponse, SentWasCompiled, CreatorShowsItsConfig
<1> QED
  BY <1>1, CreatorOpens, CreatorSteps, PTL DEF CreatorSpec

-----------------------------------------------------------------------------
(* The compile commands, running over one another and dying anywhere.        *)

HasBegun == {"checked", "writing", "renaming"}

(* A command keeps to the order of its files: it has written the first      *)
(* next[c] of them, which are still its own unless it was disturbed, and    *)
(* what is on disk of it is among them.                                     *)
WritesInOrder ==
  /\ \A c \in Commands : next[c] \in 0 .. Len(Targets(c))
  /\ \A c \in Commands : phase[c] = "renaming" => next[c] < Len(Targets(c))
  /\ \A c \in Commands : \A i \in 1 .. next[c] : disk[Targets(c)[i]] = c \/ c \in disturbed
  /\ \A f \in Files : disk[f] # None => \E i \in 1 .. next[disk[f]] : Targets(disk[f])[i] = f

(* Only what compiled is written, never dry; success is the last file's.    *)
WritesWhatPassed ==
  \A c \in Commands :
    /\ phase[c] = "idle" => next[c] = 0 /\ replaced[c] = {}
    /\ next[c] > 0 \/ phase[c] \in HasBegun => Compiles(c) /\ ~flags[c].dry
    /\ phase[c] = "success" /\ flags[c].dry => next[c] = 0
    /\ phase[c] = "success" /\ ~flags[c].dry => next[c] = Len(Targets(c))

(* Nothing is on disk without its directory, and an unforced command that   *)
(* went on saw none of its own files, so that all it replaces came later.   *)
LooksBefore ==
  /\ \A c \in Commands : phase[c] \in {"writing", "renaming"} => made
  /\ \A f \in Files : disk[f] # None => made
  /\ \A c \in Commands : replaced[c] \subseteq FilesOf(c)
  /\ \A c \in Commands : ~flags[c].force /\ (replaced[c] # {} \/ phase[c] \in HasBegun)
                           => seen[c] \cap FilesOf(c) = {}

Shapes ==
  /\ disk \in [Files -> Commands \cup {None}]
  /\ phase \in [Commands -> {"idle"} \cup HasBegun \cup Exits]
  /\ next \in [Commands -> Nat]
  /\ seen \in [Commands -> SUBSET Files] /\ replaced \in [Commands -> SUBSET Files]
  /\ temps \subseteq Commands

CommandsInv ==
  Shapes /\ WritesInOrder /\ WritesWhatPassed /\ LooksBefore /\ NothingIsLeftBeside

(* The targets of a command: two files or three, none of them twice, the    *)
(* final one last.                                                          *)
LEMMA TargetsAreFiles ==
  ASSUME NEW c \in Commands
  PROVE  /\ Len(Targets(c)) \in {2, 3}
         /\ \A i \in 1 .. Len(Targets(c)) : Targets(c)[i] \in Files
         /\ \A i, j \in 1 .. Len(Targets(c)) : Targets(c)[i] = Targets(c)[j] => i = j
         /\ Final(c) = Targets(c)[Len(Targets(c))]
         /\ FilesOf(c) = {Targets(c)[i] : i \in 1 .. Len(Targets(c))}
<1> DEFINE T == Targets(c)
<1>1. \/ T = PackTargets /\ Final(c) = "compile-report"
      \/ T = CompositionTargets /\ Final(c) = "slot-agent"
      \/ T = OrchestratorTargets /\ Final(c) = "orchestrator"
  BY DEF Targets, Final
<1>2. /\ Len(PackTargets) = 3 /\ Len(CompositionTargets) = 2 /\ Len(OrchestratorTargets) = 3
      /\ DOMAIN PackTargets = 1 .. 3 /\ DOMAIN CompositionTargets = 1 .. 2
      /\ DOMAIN OrchestratorTargets = 1 .. 3
  BY DEF PackTargets, CompositionTargets, OrchestratorTargets
<1>3. FilesOf(c) = {T[i] : i \in DOMAIN T}
  BY DEF FilesOf, ToSet
<1> HIDE DEF T
<1>4. CASE T = PackTargets /\ Final(c) = "compile-report"
  <2>1. T[1] = "agent" /\ T[2] = "policy" /\ T[3] = "compile-report" /\ Len(T) = 3 /\ DOMAIN T = 1 .. 3
    BY <1>2, <1>4 DEF PackTargets
  <2> QED
    BY <1>3, <1>4, <2>1 DEF Files, T
<1>5. CASE T = CompositionTargets /\ Final(c) = "slot-agent"
  <2>1. T[1] = "composition-index" /\ T[2] = "slot-agent" /\ Len(T) = 2 /\ DOMAIN T = 1 .. 2
    BY <1>2, <1>5 DEF CompositionTargets
  <2> QED
    BY <1>3, <1>5, <2>1 DEF Files, T
<1>6. CASE T = OrchestratorTargets /\ Final(c) = "orchestrator"
  <2>1. T[1] = "composition-index" /\ T[2] = "slot-agent" /\ T[3] = "orchestrator" /\ Len(T) = 3 /\ DOMAIN T = 1 .. 3
    BY <1>2, <1>6 DEF OrchestratorTargets
  <2> QED
    BY <1>3, <1>6, <2>1 DEF Files, T
<1> QED
  BY <1>1, <1>4, <1>5, <1>6 DEF T

(* What a command was given does not change, nor what follows from it.      *)
LEMMA GivenStays ==
  ASSUME given' = given, NEW c \in Commands
  PROVE  /\ Targets(c)' = Targets(c) /\ FilesOf(c)' = FilesOf(c) /\ Compiles(c)' = Compiles(c)
         /\ Final(c)' = Final(c)
  BY DEF Targets, FilesOf, Compiles, Final

(* The invariant is what the properties need.                               *)
LEMMA InvIsEnough ==
  ASSUME CommandsAssumption, CommandsInv
  PROVE  /\ LastFileMeansWhole /\ SuccessIsWhole /\ UnforcedKeepsWhatItSaw
         /\ OnlyCompiledIsWritten /\ NothingIsLeftBeside
<1>0. \A c \in Commands : next[c] \in Nat /\ c # None
  BY DEF CommandsInv, Shapes, CommandsAssumption
<1>1. ASSUME NEW c \in Commands, disk[Final(c)] = c, c \notin disturbed
      PROVE  \A f \in FilesOf(c) : disk[f] = c
  <2>1. PICK i \in 1 .. next[c] : Targets(c)[i] = Final(c)
    BY <1>0, <1>1, TargetsAreFiles DEF CommandsInv, WritesInOrder
  <2>2. next[c] = Len(Targets(c))
    BY <1>0, <2>1, TargetsAreFiles DEF CommandsInv, WritesInOrder
  <2>3. \A j \in 1 .. next[c] : disk[Targets(c)[j]] = c
    BY <1>1 DEF CommandsInv, WritesInOrder
  <2> QED
    BY <2>2, <2>3, TargetsAreFiles
<1>2. ASSUME NEW c \in Commands, phase[c] = "success", flags[c].dry, NEW f \in Files, disk[f] = c
      PROVE  FALSE
  <2>1. next[c] = 0
    BY <1>2 DEF CommandsInv, WritesWhatPassed
  <2> QED
    BY <1>0, <1>2, <2>1 DEF CommandsInv, WritesInOrder
<1>3. ASSUME NEW c \in Commands, phase[c] = "success", ~flags[c].dry, c \notin disturbed,
             NEW f \in FilesOf(c)
      PROVE  disk[f] = c
  <2>1. next[c] = Len(Targets(c))
    BY <1>3 DEF CommandsInv, WritesWhatPassed
  <2> QED
    BY <1>3, <2>1, TargetsAreFiles DEF CommandsInv, WritesInOrder
<1>4. ASSUME NEW c \in Commands, ~flags[c].force
      PROVE  replaced[c] \cap seen[c] = {}
  BY <1>4 DEF CommandsInv, LooksBefore
<1>5. ASSUME NEW f \in Files, disk[f] # None
      PROVE  Compiles(disk[f]) /\ ~flags[disk[f]].dry
  <2>1. disk[f] \in Commands /\ next[disk[f]] > 0
    BY <1>0, <1>5 DEF CommandsInv, Shapes, WritesInOrder
  <2> QED
    BY <2>1 DEF CommandsInv, WritesWhatPassed
<1>6. LastFileMeansWhole
  BY <1>1 DEF LastFileMeansWhole
<1>7. SuccessIsWhole
  BY <1>2, <1>3 DEF SuccessIsWhole
<1>8. UnforcedKeepsWhatItSaw
  BY <1>4 DEF UnforcedKeepsWhatItSaw
<1>9. OnlyCompiledIsWritten
  BY <1>5 DEF OnlyCompiledIsWritten
<1> QED
  BY <1>6, <1>7, <1>8, <1>9 DEF CommandsInv

LEMMA CommandsStart ==
  ASSUME CommandsInit
  PROVE  CommandsInv
<1>1. /\ phase = [c \in Commands |-> "idle"] /\ next = [c \in Commands |-> 0]
      /\ disk = [f \in Files |-> None] /\ temps = {}
      /\ seen = [c \in Commands |-> {}] /\ replaced = [c \in Commands |-> {}]
  BY DEF CommandsInit, Given
<1>2. Shapes
  BY <1>1 DEF Shapes, HasBegun
<1>3. WritesInOrder
  BY <1>1, TargetsAreFiles DEF WritesInOrder
<1>4. WritesWhatPassed
  BY <1>1 DEF WritesWhatPassed, HasBegun
<1>5. LooksBefore
  BY <1>1 DEF LooksBefore, HasBegun
<1> QED
  BY <1>1, <1>2, <1>3, <1>4, <1>5 DEF CommandsInv, NothingIsLeftBeside

(* What a step leaves as it is that turns one command and writes nothing.   *)
LEMMA TurningKeepsOrder ==
  ASSUME CommandsInv, NEW c \in Commands, NEW p \in HasBegun \cup Exits, Turns(c, p),
         p = "renaming" => next[c] < Len(Targets(c)),
         UNCHANGED <<given, next, disk, disturbed>>
  PROVE  WritesInOrder' /\ phase' \in [Commands -> {"idle"} \cup HasBegun \cup Exits]
<1>1. /\ phase' \in [Commands -> {"idle"} \cup HasBegun \cup Exits]
      /\ \A d \in Commands : phase'[d] = IF d = c THEN p ELSE phase[d]
  BY DEF CommandsInv, Shapes, Turns
<1>2. \A d \in Commands : Targets(d)' = Targets(d)
  BY GivenStays
<1>3. \A f \in Files : disk[f] # None => disk[f] \in Commands
  BY DEF CommandsInv, Shapes
<1> QED
  BY <1>1, <1>2, <1>3 DEF CommandsInv, WritesInOrder

(* A step of one command that renames nothing and leaves alone what others  *)
(* wrote keeps the invariant, given what it makes of that command.          *)
LEMMA TurnKeepsInv ==
  ASSUME CommandsInv, NEW c \in Commands, NEW p \in HasBegun \cup Exits, Turns(c, p),
         p = "renaming" => next[c] < Len(Targets(c)),
         UNCHANGED <<given, flags, next, disk, replaced, disturbed>>,
         seen' \in [Commands -> SUBSET Files],
         \A d \in Commands \ {c} : seen'[d] = seen[d],
         made => made', p \in {"writing", "renaming"} => made',
         p \in HasBegun => Compiles(c) /\ ~flags[c].dry,
         p = "success" /\ flags[c].dry => next[c] = 0,
         p = "success" /\ ~flags[c].dry => next[c] = Len(Targets(c)),
         ~flags[c].force /\ (replaced[c] # {} \/ p \in HasBegun) => seen'[c] \cap FilesOf(c) = {},
         temps' \subseteq Commands, \A d \in temps' \ {c} : d \in temps,
         c \in temps' => p \in {"renaming", "stopped"}
  PROVE  CommandsInv'
<1>1. \A d \in Commands : phase'[d] = IF d = c THEN p ELSE phase[d]
  BY DEF CommandsInv, Shapes, Turns
<1>2. \A d \in Commands : Targets(d)' = Targets(d) /\ FilesOf(d)' = FilesOf(d)
                          /\ Compiles(d)' = Compiles(d)
  BY GivenStays
<1>3. WritesInOrder' /\ phase' \in [Commands -> {"idle"} \cup HasBegun \cup Exits]
  BY TurningKeepsOrder
<1>4. Shapes'
  BY <1>3 DEF CommandsInv, Shapes
<1>5. WritesWhatPassed'
  <2> SUFFICES ASSUME NEW d \in Commands
               PROVE  /\ phase'[d] = "idle" => next[d] = 0 /\ replaced[d] = {}
                      /\ next[d] > 0 \/ phase'[d] \in HasBegun => Compiles(d) /\ ~flags[d].dry
                      /\ phase'[d] = "success" /\ flags[d].dry => next[d] = 0
                      /\ phase'[d] = "success" /\ ~flags[d].dry => next[d] = Len(Targets(d))
    BY <1>2 DEF WritesWhatPassed
  <2>1. CASE d # c
    BY <1>1, <2>1 DEF CommandsInv, WritesWhatPassed
  <2>2. CASE d = c
    <3>1. next[c] > 0 => Compiles(c) /\ ~flags[c].dry
      BY DEF CommandsInv, WritesWhatPassed
    <3>2. p # "idle"
      BY DEF HasBegun, Exits
    <3> QED
      BY <1>1, <2>2, <3>1, <3>2
  <2> QED
    BY <2>1, <2>2
<1>6. LooksBefore'
  <2>1. \A d \in Commands : phase'[d] \in {"writing", "renaming"} => made'
    BY <1>1 DEF CommandsInv, LooksBefore
  <2>2. \A d \in Commands : ~flags[d].force /\ (replaced[d] # {} \/ phase'[d] \in HasBegun)
                            => seen'[d] \cap FilesOf(d) = {}
    BY <1>1 DEF CommandsInv, LooksBefore
  <2> QED
    BY <1>2, <2>1, <2>2 DEF CommandsInv, LooksBefore
<1>7. NothingIsLeftBeside'
  BY <1>1 DEF CommandsInv, NothingIsLeftBeside
<1> QED
  BY <1>3, <1>4, <1>5, <1>6, <1>7 DEF CommandsInv

(* A command that goes on after its look met no file of its own, or may.    *)
LEMMA BeginKeepsInv ==
  ASSUME CommandsInv, NEW c \in Commands, NEW inTheWay \in BOOLEAN, Begin(c, inTheWay),
         ~inTheWay => \A f \in FilesOf(c) : disk[f] = None
  PROVE  CommandsInv'
<1>1. PICK p \in {"invalid", "success", "refused", "checked"} :
        /\ Turns(c, p)
        /\ p = "success" => flags[c].dry
        /\ p = "checked" => Compiles(c) /\ ~flags[c].dry
        /\ p = "checked" /\ ~flags[c].force => ~inTheWay
  <2>1. CASE ~Compiles(c)
    BY <2>1 DEF Begin
  <2>2. CASE Compiles(c) /\ flags[c].dry
    BY <2>2 DEF Begin
  <2>3. CASE Compiles(c) /\ ~flags[c].dry /\ inTheWay /\ ~flags[c].force
    BY <2>3 DEF Begin
  <2>4. CASE Compiles(c) /\ ~flags[c].dry /\ ~(inTheWay /\ ~flags[c].force)
    BY <2>4 DEF Begin
  <2> QED
    BY <2>1, <2>2, <2>3, <2>4
<1>2. next[c] = 0 /\ replaced[c] = {} /\ c \notin temps
  BY DEF Begin, CommandsInv, WritesWhatPassed, NothingIsLeftBeside
<1>3. /\ seen' \in [Commands -> SUBSET Files]
      /\ seen'[c] = {f \in Files : disk[f] # None}
      /\ \A d \in Commands \ {c} : seen'[d] = seen[d]
  BY DEF Begin, CommandsInv, Shapes
<1>4. p = "checked" /\ ~flags[c].force => seen'[c] \cap FilesOf(c) = {}
  BY <1>1, <1>3
<1>5. UNCHANGED <<given, flags, next, disk, temps, made, replaced, disturbed>>
  BY DEF Begin
<1>6. p \in HasBegun \cup Exits /\ (p \in HasBegun => p = "checked") /\ p # "renaming" /\ p # "writing"
  BY DEF HasBegun, Exits
<1>7. \A d \in temps : d \in Commands
  BY DEF CommandsInv, Shapes
<1>8. p \in HasBegun => Compiles(c) /\ ~flags[c].dry
  BY <1>1, <1>6
<1>9. ~flags[c].force /\ (replaced[c] # {} \/ p \in HasBegun) => seen'[c] \cap FilesOf(c) = {}
  BY <1>2, <1>4, <1>6
<1>10. (p = "success" /\ flags[c].dry => next[c] = 0)
       /\ (p = "success" /\ ~flags[c].dry => next[c] = Len(Targets(c)))
  BY <1>1, <1>2
<1> HIDE DEF CommandsInv, Turns
<1> QED
  BY <1>1, <1>2, <1>3, <1>5, <1>6, <1>7, <1>8, <1>9, <1>10, TurnKeepsInv

LEMMA BeginsKeepInv ==
  ASSUME CommandsInv, NEW c \in Commands,
         BeginPack(c) \/ BeginComposition(c) \/ BeginOrchestrator(c)
  PROVE  CommandsInv'
<1>1. ~made => \A f \in FilesOf(c) : disk[f] = None
  BY TargetsAreFiles DEF CommandsInv, LooksBefore
<1>2. CASE BeginPack(c)
  <2> DEFINE inTheWay == \E f \in FilesOf(c) : disk[f] # None
  <2>1. Begin(c, inTheWay) /\ inTheWay \in BOOLEAN
    BY <1>2 DEF BeginPack
  <2> QED
    BY <2>1, BeginKeepsInv
<1>3. CASE BeginComposition(c) \/ BeginOrchestrator(c)
  <2> DEFINE inTheWay == made = TRUE
  <2>1. Begin(c, made)
    BY <1>3 DEF BeginComposition, BeginOrchestrator
  <2>2. Begin(c, inTheWay) /\ inTheWay \in BOOLEAN
    BY <2>1 DEF Begin
  <2> QED
    BY <1>1, <2>2, BeginKeepsInv
<1> QED
  BY <1>2, <1>3

LEMMA MakeDirectoryKeepsInv ==
  ASSUME CommandsInv, NEW c \in Commands, MakeDirectory(c)
  PROVE  CommandsInv'
<1>1. phase[c] = "checked" /\ made' = TRUE /\ Turns(c, "writing")
      /\ UNCHANGED <<given, flags, next, disk, temps, seen, replaced, disturbed>>
  BY DEF MakeDirectory
<1>2. /\ Compiles(c) /\ ~flags[c].dry /\ c \notin temps
      /\ ~flags[c].force => seen[c] \cap FilesOf(c) = {}
      /\ seen \in [Commands -> SUBSET Files] /\ temps \subseteq Commands
  BY <1>1 DEF CommandsInv, Shapes, WritesWhatPassed, LooksBefore, NothingIsLeftBeside, HasBegun
<1> QED
  BY <1>1, <1>2, TurnKeepsInv DEF HasBegun, Exits

LEMMA WriteBesideKeepsInv ==
  ASSUME CommandsInv, NEW c \in Commands, WriteBeside(c)
  PROVE  CommandsInv'
<1>1. phase[c] = "writing" /\ next[c] < Len(Targets(c)) /\ temps' = temps \cup {c}
      /\ Turns(c, "renaming") /\ UNCHANGED <<given, flags, next, disk, made, seen, replaced, disturbed>>
  BY DEF WriteBeside
<1>2. /\ Compiles(c) /\ ~flags[c].dry /\ made
      /\ ~flags[c].force => seen[c] \cap FilesOf(c) = {}
      /\ seen \in [Commands -> SUBSET Files] /\ temps \subseteq Commands
  BY <1>1 DEF CommandsInv, Shapes, WritesWhatPassed, LooksBefore, HasBegun
<1> QED
  BY <1>1, <1>2, TurnKeepsInv DEF HasBegun, Exits

LEMMA FinishKeepsInv ==
  ASSUME CommandsInv, NEW c \in Commands, Finish(c)
  PROVE  CommandsInv'
<1>1. phase[c] = "writing" /\ next[c] = Len(Targets(c)) /\ Turns(c, "success")
      /\ UNCHANGED <<given, flags, next, disk, temps, made, seen, replaced, disturbed>>
  BY DEF Finish
<1>2. /\ ~flags[c].dry /\ c \notin temps
      /\ ~flags[c].force => seen[c] \cap FilesOf(c) = {}
      /\ seen \in [Commands -> SUBSET Files] /\ temps \subseteq Commands
  BY <1>1 DEF CommandsInv, Shapes, WritesWhatPassed, LooksBefore, NothingIsLeftBeside, HasBegun
<1> QED
  BY <1>1, <1>2, TurnKeepsInv DEF HasBegun, Exits

LEMMA StopKeepsInv ==
  ASSUME CommandsInv, NEW c \in Commands, Stop(c)
  PROVE  CommandsInv'
<1>1. phase[c] \in HasBegun /\ Turns(c, "stopped")
      /\ UNCHANGED <<given, flags, next, disk, temps, made, seen, replaced, disturbed>>
  BY DEF Stop, HasBegun
<1>2. /\ ~flags[c].force => seen[c] \cap FilesOf(c) = {}
      /\ seen \in [Commands -> SUBSET Files] /\ temps \subseteq Commands
  BY <1>1 DEF CommandsInv, Shapes, LooksBefore
<1> QED
  BY <1>1, <1>2, TurnKeepsInv DEF HasBegun, Exits

(* Renaming: what another had there is lost to it, and said to be.          *)
LEMMA RenameKeepsInv ==
  ASSUME CommandsAssumption, CommandsInv, NEW c \in Commands, Rename(c)
  PROVE  CommandsInv'
<1> DEFINE f == Targets(c)[next[c] + 1]
<1>1. /\ phase[c] = "renaming"
      /\ replaced' = [replaced EXCEPT ![c] = IF disk[f] \in {None, c} THEN @ ELSE @ \cup {f}]
      /\ disturbed' = IF disk[f] \in {None, c} THEN disturbed ELSE disturbed \cup {disk[f]}
      /\ disk' = [disk EXCEPT ![f] = c]
      /\ temps' = temps \ {c}
      /\ next' = [next EXCEPT ![c] = @ + 1]
      /\ Turns(c, "writing")
      /\ UNCHANGED <<given, flags, made, seen>>
  BY DEF Rename
<1>2. \A d \in Commands : Targets(d)' = Targets(d) /\ FilesOf(d)' = FilesOf(d)
                          /\ Compiles(d)' = Compiles(d)
  BY <1>1, GivenStays
<1>3. next[c] \in Nat /\ next[c] < Len(Targets(c)) /\ Len(Targets(c)) \in {2, 3}
  BY <1>1, TargetsAreFiles DEF CommandsInv, Shapes, WritesInOrder
<1>4. f \in Files /\ f \in FilesOf(c) /\ next[c] + 1 \in 1 .. Len(Targets(c))
  BY <1>3, TargetsAreFiles
<1>5. \A i \in 1 .. next[c] : Targets(c)[i] # f
  BY <1>3, <1>4, TargetsAreFiles
<1>6. \A g \in Files : disk'[g] = IF g = f THEN c ELSE disk[g]
  BY <1>1 DEF CommandsInv, Shapes
<1>7. /\ \A d \in Commands : phase'[d] = IF d = c THEN "writing" ELSE phase[d]
      /\ \A d \in Commands : next'[d] = IF d = c THEN next[c] + 1 ELSE next[d]
      /\ \A d \in Commands : d # c => replaced'[d] = replaced[d]
      /\ replaced'[c] \subseteq replaced[c] \cup {f}
      /\ disturbed \subseteq disturbed'
  BY <1>1 DEF CommandsInv, Shapes, Turns
<1> HIDE DEF f
<1>8. Shapes'
  <2>1. replaced' \in [Commands -> SUBSET Files]
    BY <1>1, <1>4 DEF CommandsInv, Shapes
  <2>2. next' \in [Commands -> Nat]
    BY <1>1, <1>3 DEF CommandsInv, Shapes
  <2>3. disk' \in [Files -> Commands \cup {None}]
    BY <1>1, <1>4 DEF CommandsInv, Shapes
  <2>4. phase' \in [Commands -> {"idle"} \cup HasBegun \cup Exits]
    BY <1>1 DEF CommandsInv, Shapes, Turns, HasBegun
  <2> QED
    BY <1>1, <2>1, <2>2, <2>3, <2>4 DEF CommandsInv, Shapes
<1>9. WritesInOrder'
  <2>1. \A d \in Commands : next'[d] \in 0 .. Len(Targets(d))
    BY <1>3, <1>7 DEF CommandsInv, WritesInOrder
  <2>2. \A d \in Commands : phase'[d] = "renaming" => next'[d] < Len(Targets(d))
    BY <1>7 DEF CommandsInv, WritesInOrder
  <2>3. ASSUME NEW d \in Commands, NEW i \in 1 .. next'[d]
        PROVE  disk'[Targets(d)[i]] = d \/ d \in disturbed'
    <3>1. i \in 1 .. Len(Targets(d)) /\ Targets(d)[i] \in Files
      <4>1. next'[d] \in 0 .. Len(Targets(d)) /\ Len(Targets(d)) \in {2, 3}
        BY <2>1, TargetsAreFiles
      <4>2. i \in 1 .. Len(Targets(d))
        BY <2>3, <4>1
      <4> QED
        BY <4>2, TargetsAreFiles
    <3>2. CASE d = c
      <4>1. CASE i = next[c] + 1
        BY <1>4, <1>6, <3>2, <4>1 DEF f
      <4>2. CASE i \in 1 .. next[c]
        BY <1>5, <1>6, <1>7, <3>1, <3>2, <4>2 DEF CommandsInv, WritesInOrder
      <4> QED
        BY <1>3, <1>7, <2>3, <3>2, <4>1, <4>2
    <3>3. CASE d # c
      <4>1. disk[Targets(d)[i]] = d \/ d \in disturbed
        BY <1>7, <2>3, <3>3 DEF CommandsInv, WritesInOrder
      <4>2. CASE Targets(d)[i] = f /\ disk[f] = d
        <5>1. disk[f] \notin {None, c}
          BY <3>3, <4>2 DEF CommandsAssumption
        <5> QED
          BY <1>1, <4>2, <5>1 DEF f
      <4>3. CASE Targets(d)[i] # f
        BY <1>6, <1>7, <3>1, <4>1, <4>3
      <4> QED
        BY <1>7, <4>1, <4>2, <4>3
    <3> QED
      BY <3>2, <3>3
  <2>4. ASSUME NEW g \in Files, disk'[g] # None
        PROVE  disk'[g] \in Commands
               /\ \E i \in 1 .. next'[disk'[g]] : Targets(disk'[g])[i] = g
    <3>1. CASE g = f
      BY <1>3, <1>6, <1>7, <3>1 DEF f
    <3>2. CASE g # f
      <4>1. disk'[g] = disk[g] /\ disk[g] \in Commands
        BY <1>6, <2>4, <3>2 DEF CommandsInv, Shapes
      <4>2. PICK i \in 1 .. next[disk[g]] : Targets(disk[g])[i] = g
        BY <2>4, <4>1 DEF CommandsInv, WritesInOrder
      <4>3. next[disk[g]] \in Nat /\ next'[disk[g]] \in {next[disk[g]], next[disk[g]] + 1}
        BY <1>7, <4>1 DEF CommandsInv, Shapes
      <4>4. i \in 1 .. next'[disk[g]]
        BY <4>2, <4>3
      <4> QED
        BY <4>1, <4>2, <4>4
    <3> QED
      BY <3>1, <3>2
  <2> QED
    BY <1>2, <2>1, <2>2, <2>3, <2>4 DEF WritesInOrder
<1>10. WritesWhatPassed'
  <2>1. Compiles(c) /\ ~flags[c].dry
    BY <1>1 DEF CommandsInv, WritesWhatPassed, HasBegun
  <2> SUFFICES ASSUME NEW d \in Commands
               PROVE  /\ phase'[d] = "idle" => next'[d] = 0 /\ replaced'[d] = {}
                      /\ next'[d] > 0 \/ phase'[d] \in HasBegun => Compiles(d) /\ ~flags[d].dry
                      /\ phase'[d] = "success" /\ flags[d].dry => next'[d] = 0
                      /\ phase'[d] = "success" /\ ~flags[d].dry => next'[d] = Len(Targets(d))
    BY <1>1, <1>2 DEF WritesWhatPassed
  <2>2. CASE d = c
    BY <1>7, <2>1, <2>2
  <2>3. CASE d # c
    BY <1>7, <2>3 DEF CommandsInv, WritesWhatPassed
  <2> QED
    BY <2>2, <2>3
<1>11. LooksBefore'
  <2>1. made /\ made' = made
    BY <1>1 DEF CommandsInv, LooksBefore
  <2>2. \A d \in Commands : replaced'[d] \subseteq FilesOf(d)
    BY <1>4, <1>7 DEF CommandsInv, LooksBefore
  <2>3. \A d \in Commands : ~flags[d].force /\ (replaced'[d] # {} \/ phase'[d] \in HasBegun)
                            => seen[d] \cap FilesOf(d) = {}
    <3>1. ~flags[c].force => seen[c] \cap FilesOf(c) = {}
      BY <1>1 DEF CommandsInv, LooksBefore, HasBegun
    <3> QED
      BY <1>7, <3>1 DEF CommandsInv, LooksBefore
  <2> QED
    BY <1>1, <1>2, <2>1, <2>2, <2>3 DEF LooksBefore
<1>12. NothingIsLeftBeside'
  BY <1>1, <1>7 DEF CommandsInv, Shapes, NothingIsLeftBeside
<1> QED
  BY <1>8, <1>9, <1>10, <1>11, <1>12 DEF CommandsInv

LEMMA CommandsInvInvariant ==
  ASSUME CommandsAssumption
  PROVE  CommandsSpec => []CommandsInv
<1>1. CommandsInv /\ [CommandsNext]_commandVars => CommandsInv'
  <2> SUFFICES ASSUME CommandsInv, [CommandsNext]_commandVars
               PROVE  CommandsInv'
    OBVIOUS
  <2>1. CASE UNCHANGED commandVars
    <3>1. UNCHANGED <<given, flags, phase, next, disk, temps, made, seen, replaced, disturbed>>
      BY <2>1 DEF commandVars
    <3> QED
      BY <3>1 DEF CommandsInv, Shapes, WritesInOrder, WritesWhatPassed, LooksBefore,
                  NothingIsLeftBeside, Targets, FilesOf, Compiles
  <2>2. CASE CommandsNext
    <3>1. PICK c \in Commands :
            \/ BeginPack(c) \/ BeginComposition(c) \/ BeginOrchestrator(c)
            \/ MakeDirectory(c) \/ WriteBeside(c) \/ Rename(c) \/ Finish(c) \/ Stop(c)
      BY <2>2 DEF CommandsNext
    <3> QED
      BY <3>1, BeginsKeepInv, MakeDirectoryKeepsInv, WriteBesideKeepsInv, RenameKeepsInv,
         FinishKeepsInv, StopKeepsInv
  <2> QED
    BY <2>1, <2>2
<1> QED
  BY <1>1, CommandsStart, PTL DEF CommandsSpec

(* However many commands run over one another and die, the last file of a   *)
(* compilation stands for all of it, a success has written all, unforced    *)
(* commands replace nothing they saw, only what compiled is written, and    *)
(* only a command that stopped leaves a file beside its place               *)
(* (packages/cli/src/cli.ts, writeUtf8Atomic and its callers).              *)
THEOREM CommandsAlwaysWriteWhole ==
  ASSUME CommandsAssumption
  PROVE  CommandsSpec => []CommandsWriteWhole
<1>1. ConfigsAreJudged
  BY PublishStricter, ReadinessFollows, CompilationFailsClosed DEF ConfigsAreJudged
<1>2. CommandsInv => CommandsWriteWhole
  BY <1>1, InvIsEnough DEF CommandsWriteWhole
<1> QED
  BY <1>2, CommandsInvInvariant, PTL

-----------------------------------------------------------------------------
(* AI drafts: what the panel says of a draft, and the agents made of the     *)
(* builder's form, however it was drafted and changed.                       *)

LEMMA LeastIs ==
  ASSUME NEW S \in SUBSET Nat, S # {}
  PROVE  \E i \in S : \A j \in S : i <= j
<1> DEFINE R == OpToRel(<, Nat)
<1>1. IsWellFoundedOn(R, Nat)
  BY NatLessThanWellFounded
<1> HIDE DEF R
<1>2. PICK i \in S : \A j \in S : ~ (<<j, i>> \in R)
  BY <1>1, WFMin
<1>3. ASSUME NEW j \in S PROVE i <= j
  <2>1. ~ (j < i)
    BY <1>2 DEF R, OpToRel
  <2> QED
    BY <2>1
<1> QED
  BY <1>3

-----------------------------------------------------------------------------
(* A form names intents and skills of the template.                          *)
Drawn(filled) == filled.intents \subseteq Intents /\ filled.skills \subseteq Skills

Turn(i) == Go(Place[i], Asked(i))
Moves == {Turn(i) : i \in Intents} \cup {Go("resolved", Unasked)}

(* The transitions of triage are one for each intent that is served, and     *)
(* then the one that always passes.                                          *)
LEMMA ServedAre ==
  ASSUME NEW filled, Drawn(filled)
  PROVE  /\ Served(filled) \subseteq Intents
         /\ "handoff" \in Served(filled) <=> Tickets(filled)
         /\ \A i \in Served(filled) \ {"handoff"} : SkillFor[i] \in filled.skills
BY DEF Served, Drawn, Intents, Tickets

LEMMA TriageIs ==
  ASSUME NEW filled, Drawn(filled)
  PROVE  \E n \in Nat \ {0} :
           /\ Triage(filled) \in Seq(Moves) /\ Len(Triage(filled)) = n
           /\ Triage(filled)[n] = Go("resolved", Unasked)
           /\ \A k \in 1 .. n - 1 : \E i \in Served(filled) : Triage(filled)[k] = Turn(i)
           /\ \A i \in Served(filled) : \E k \in 1 .. n - 1 : Triage(filled)[k] = Turn(i)
<1> DEFINE Offer(i) == IF i \in Served(filled) THEN <<Turn(i)>> ELSE <<>>
           Holding(s, A) == /\ s \in Seq(Moves)
                            /\ \A k \in 1 .. Len(s) : \E i \in A : s[k] = Turn(i)
                            /\ \A i \in A : \E k \in 1 .. Len(s) : s[k] = Turn(i)
           a == Offer("shipping_query") \o Offer("return_request")
           b == a \o Offer("refund_request")
           c == b \o Offer("handoff")
           last == Go("resolved", Unasked)
<1>1. Served(filled) \subseteq Intents
  BY ServedAre
<1>2. Triage(filled) = c \o <<last>>
  BY DEF Triage, Turn
<1>3. ASSUME NEW i \in Intents PROVE Holding(Offer(i), {i} \cap Served(filled))
  <2>1. CASE i \in Served(filled)
    <3>1. Turn(i) \in Moves
      BY DEF Moves
    <3>2. Offer(i) = <<Turn(i)>> /\ {i} \cap Served(filled) = {i}
      BY <2>1
    <3> QED
      BY <3>1, <3>2
  <2>2. CASE i \notin Served(filled)
    <3>1. Offer(i) = <<>> /\ {i} \cap Served(filled) = {}
      BY <2>2
    <3> QED
      BY <3>1
  <2> QED
    BY <2>1, <2>2
<1>4. ASSUME NEW s, NEW t, NEW A, NEW B, Holding(s, A), Holding(t, B)
      PROVE  Holding(s \o t, A \cup B)
  <2>1. /\ s \o t \in Seq(Moves) /\ Len(s \o t) = Len(s) + Len(t)
        /\ Len(s) \in Nat /\ Len(t) \in Nat
        /\ \A k \in 1 .. Len(s) : (s \o t)[k] = s[k]
        /\ \A k \in 1 .. Len(t) : (s \o t)[Len(s) + k] = t[k]
    BY <1>4
  <2>2. ASSUME NEW k \in 1 .. Len(s \o t) PROVE \E i \in A \cup B : (s \o t)[k] = Turn(i)
    <3>1. CASE k \in 1 .. Len(s)
      BY <1>4, <2>1, <3>1
    <3>2. CASE k \notin 1 .. Len(s)
      <4> DEFINE j == k - Len(s)
      <4>1. j \in 1 .. Len(t) /\ k = Len(s) + j
        BY <2>1, <3>2
      <4> HIDE DEF j
      <4>2. PICK i \in B : t[j] = Turn(i)
        BY <1>4, <4>1
      <4>3. (s \o t)[k] = t[j]
        BY <2>1, <4>1
      <4> QED
        BY <4>2, <4>3
    <3> QED
      BY <3>1, <3>2
  <2>3. ASSUME NEW i \in A \cup B PROVE \E k \in 1 .. Len(s \o t) : (s \o t)[k] = Turn(i)
    <3>1. CASE i \in A
      <4>1. PICK k \in 1 .. Len(s) : s[k] = Turn(i)
        BY <1>4, <3>1
      <4> QED
        BY <2>1, <4>1
    <3>2. CASE i \in B
      <4>1. PICK k \in 1 .. Len(t) : t[k] = Turn(i)
        BY <1>4, <3>2
      <4>2. Len(s) + k \in 1 .. Len(s \o t)
        BY <2>1
      <4> QED
        BY <2>1, <4>1, <4>2
    <3> QED
      BY <3>1, <3>2
  <2> QED
    BY <2>1, <2>2, <2>3
<1> HIDE DEF Holding, Offer
<1>5. {"shipping_query", "return_request", "refund_request", "handoff"} = Intents
  BY DEF Intents
<1>6. Holding(c, ((({"shipping_query"} \cap Served(filled)) \cup ({"return_request"} \cap Served(filled)))
                   \cup ({"refund_request"} \cap Served(filled))) \cup ({"handoff"} \cap Served(filled)))
  BY <1>3, <1>4, <1>5
<1>7. Holding(c, Served(filled))
  <2>1. ((({"shipping_query"} \cap Served(filled)) \cup ({"return_request"} \cap Served(filled)))
                   \cup ({"refund_request"} \cap Served(filled))) \cup ({"handoff"} \cap Served(filled))
         = Served(filled)
    BY <1>1, <1>5
  <2> QED
    BY <1>6, <2>1
<1> HIDE DEF c
<1>8. /\ c \in Seq(Moves) /\ Len(c) \in Nat /\ last \in Moves
      /\ \A k \in 1 .. Len(c) : \E i \in Served(filled) : c[k] = Turn(i)
      /\ \A i \in Served(filled) : \E k \in 1 .. Len(c) : c[k] = Turn(i)
  BY <1>7 DEF Holding, Moves
<1> HIDE DEF last
<1>9. /\ c \o <<last>> \in Seq(Moves) /\ Len(c \o <<last>>) = Len(c) + 1
      /\ (c \o <<last>>)[Len(c) + 1] = last
      /\ \A k \in 1 .. Len(c) : (c \o <<last>>)[k] = c[k]
  BY <1>8
<1>10. Len(c) + 1 \in Nat \ {0} /\ (Len(c) + 1) - 1 = Len(c)
  BY <1>8
<1> QED
  BY <1>2, <1>8, <1>9, <1>10 DEF last

(* The first transition that passes is the one a run takes.                  *)
LEMMA FirstIs ==
  ASSUME NEW spec, NEW input, NEW s, NEW n \in Nat, NEW t,
         spec.states[s].transitions = t, DOMAIN t = 1 .. n
  PROVE  \/ /\ \A k \in 1 .. n : ~ Passes(t[k].when, input)
            /\ Onward(spec, input, s) = s
         \/ \E c \in 1 .. n :
              /\ Passes(t[c].when, input)
              /\ \A k \in 1 .. n : Passes(t[k].when, input) => c <= k
              /\ Onward(spec, input, s) = t[c].to
<1> DEFINE open == {k \in DOMAIN t : Passes(t[k].when, input)}
<1>1. Onward(spec, input, s) =
        IF open = {} THEN s ELSE t[CHOOSE k \in open : \A j \in open : k <= j].to
  BY DEF Onward
<1>2. CASE open = {}
  BY <1>1, <1>2
<1>3. CASE open # {}
  <2>1. open \in SUBSET Nat
    OBVIOUS
  <2>2. \E k \in open : \A j \in open : k <= j
    BY <1>3, <2>1, LeastIs
  <2> DEFINE c == CHOOSE k \in open : \A j \in open : k <= j
  <2>3. c \in open /\ \A j \in open : c <= j
    BY <2>2
  <2>4. Onward(spec, input, s) = t[c].to
    BY <1>1, <1>3
  <2> HIDE DEF c
  <2> QED
    BY <2>3, <2>4
<1> QED
  BY <1>2, <1>3

LEMMA WhenPasses ==
  ASSUME NEW input, NEW to, NEW i
  PROVE  /\ Passes(Go(to, Unasked).when, input) /\ Go(to, Unasked).to = to
         /\ Passes(Go(to, Asked(i)).when, input) <=> AskedIn(input) = i
         /\ Go(to, Asked(i)).to = to
         /\ Passes(Go(to, RiskIsHigh).when, input) <=> input.risk = "high"
         /\ Go(to, RiskIsHigh).to = to
         /\ ~ Passes(Go(to, Unreadable).when, input)
BY DEF Passes, Go, Unasked, Asked, RiskIsHigh, Unreadable

-----------------------------------------------------------------------------
(* The states of the agent made of a form                                    *)
LEMMA StatesAre ==
  ASSUME NEW filled, Drawn(filled)
  PROVE  LET st == States(filled) IN
         /\ DOMAIN st = StateNames(filled)
         /\ st["triage"] = State(Lookup(filled), Triage(filled), "step")
         /\ st["resolved"] = State({}, <<>>, "final")
         /\ Tickets(filled) =>
              /\ st["handoff_human"] = State({}, <<>>, "handoff")
              /\ st["create_handoff_ticket"] =
                   State({"create_support_ticket"}, <<Go("handoff_human", Unasked)>>, "step")
         /\ \A i \in Served(filled) \ {"handoff"} :
              st[Place[i]] = State(Lookup(filled) \cup {SkillFor[i]}, AfterService(filled, i), "step")
<1>1. /\ "triage" \in StateNames(filled) /\ "resolved" \in StateNames(filled)
      /\ Tickets(filled) => {"handoff_human", "create_handoff_ticket"} \subseteq StateNames(filled)
  <2>1. Tickets(filled) => "handoff" \in Served(filled)
    BY ServedAre
  <2> QED
    BY <2>1 DEF StateNames, Place
<1>2. ASSUME NEW i \in Served(filled) \ {"handoff"}
      PROVE  /\ Place[i] \in StateNames(filled) /\ ServiceOf(Place[i]) = i
             /\ Place[i] \notin {"triage", "resolved", "handoff_human", "create_handoff_ticket"}
  <2>1. i \in Intents \ {"handoff"}
    BY ServedAre
  <2>2. \A j \in Intents : Place[j] = Place[i] => j = i
    BY <2>1 DEF Intents, Place
  <2>3. ServiceOf(Place[i]) = i
    BY <2>1, <2>2 DEF ServiceOf
  <2>4. Place[i] \notin {"triage", "resolved", "handoff_human", "create_handoff_ticket"}
    BY <2>1 DEF Intents, Place
  <2> QED
    BY <2>3, <2>4 DEF StateNames
<1> QED
  BY <1>1, <1>2 DEF States

(* One move from each of them                                                *)
LEMMA FromTriage ==
  ASSUME NEW filled, Drawn(filled), NEW spec, NEW input,
         spec.states["triage"].transitions = Triage(filled)
  PROVE  Onward(spec, input, "triage") =
           IF AskedIn(input) \in Served(filled) THEN Place[AskedIn(input)] ELSE "resolved"
<1> DEFINE t == Triage(filled)
           asked == AskedIn(input)
<1>1. PICK n \in Nat \ {0} :
           /\ t \in Seq(Moves) /\ Len(t) = n
           /\ t[n] = Go("resolved", Unasked)
           /\ \A k \in 1 .. n - 1 : \E i \in Served(filled) : t[k] = Turn(i)
           /\ \A i \in Served(filled) : \E k \in 1 .. n - 1 : t[k] = Turn(i)
  BY TriageIs
<1>2. DOMAIN t = 1 .. n /\ n \in 1 .. n
  BY <1>1
<1>3. \A i : /\ Passes(Turn(i).when, input) <=> asked = i
             /\ Turn(i).to = Place[i]
  BY WhenPasses DEF Turn
<1>4. Passes(t[n].when, input) /\ t[n].to = "resolved"
  BY <1>1, WhenPasses
<1>12. spec.states["triage"].transitions = t
  OBVIOUS
<1> HIDE DEF t, asked
<1>5. PICK c \in 1 .. n :
              /\ Passes(t[c].when, input)
              /\ \A k \in 1 .. n : Passes(t[k].when, input) => c <= k
              /\ Onward(spec, input, "triage") = t[c].to
  <2> DEFINE here == "triage"
  <2>1. n \in Nat /\ spec.states[here].transitions = t
    BY <1>1, <1>12
  <2> HIDE DEF here
  <2>2. \/ /\ \A k \in 1 .. n : ~ Passes(t[k].when, input)
           /\ Onward(spec, input, here) = here
        \/ \E c \in 1 .. n :
             /\ Passes(t[c].when, input)
             /\ \A k \in 1 .. n : Passes(t[k].when, input) => c <= k
             /\ Onward(spec, input, here) = t[c].to
    BY <1>2, <2>1, FirstIs
  <2>3. \E c \in 1 .. n :
             /\ Passes(t[c].when, input)
             /\ \A k \in 1 .. n : Passes(t[k].when, input) => c <= k
             /\ Onward(spec, input, here) = t[c].to
    BY <1>2, <1>4, <2>2
  <2> QED
    BY <2>3 DEF here
<1>6. CASE asked \in Served(filled)
  <2>1. PICK k \in 1 .. n - 1 : t[k] = Turn(asked)
    BY <1>1, <1>6
  <2>2. c <= k
    BY <1>3, <1>5, <2>1
  <2>3. c \in 1 .. n - 1
    BY <2>1, <2>2
  <2>4. PICK i \in Served(filled) : t[c] = Turn(i)
    BY <1>1, <2>3
  <2>5. i = asked
    BY <1>3, <1>5, <2>4
  <2> QED
    BY <1>3, <1>5, <1>6, <2>4, <2>5 DEF asked
<1>7. CASE asked \notin Served(filled)
  <2>1. c \notin 1 .. n - 1
    BY <1>1, <1>3, <1>5, <1>7
  <2>2. c = n
    BY <2>1
  <2> QED
    BY <1>4, <1>5, <1>7, <2>2 DEF asked
<1> QED
  BY <1>6, <1>7

LEMMA OneTurn ==
  ASSUME NEW spec, NEW input, NEW s, NEW t,
         spec.states[s].transitions = <<t>>, Passes(t.when, input)
  PROVE  Onward(spec, input, s) = t.to
<1> DEFINE q == <<t>>
           n == 1
<1>1. DOMAIN q = 1 .. n /\ q[1] = t /\ n \in Nat
  OBVIOUS
<1>2. n = 1
  OBVIOUS
<1> HIDE DEF q, n
<1>3. spec.states[s].transitions = q
  BY DEF q
<1>4. \E k \in 1 .. n : Passes(q[k].when, input)
  BY <1>1, <1>2
<1>5. \E c \in 1 .. n : Onward(spec, input, s) = q[c].to
  BY <1>1, <1>3, <1>4, FirstIs
<1> QED
  BY <1>1, <1>2, <1>5

LEMMA TwoTurns ==
  ASSUME NEW spec, NEW input, NEW s, NEW t, NEW u,
         spec.states[s].transitions = <<t, u>>, Passes(u.when, input)
  PROVE  Onward(spec, input, s) = IF Passes(t.when, input) THEN t.to ELSE u.to
<1> DEFINE q == <<t, u>>
           n == 2
<1>1. DOMAIN q = 1 .. n /\ q[1] = t /\ q[2] = u /\ n \in Nat
  OBVIOUS
<1>2. n = 2
  OBVIOUS
<1> HIDE DEF q, n
<1>3. spec.states[s].transitions = q
  BY DEF q
<1>4. \E k \in 1 .. n : Passes(q[k].when, input)
  BY <1>1, <1>2
<1>5. PICK c \in 1 .. n :
              /\ Passes(q[c].when, input)
              /\ \A k \in 1 .. n : Passes(q[k].when, input) => c <= k
              /\ Onward(spec, input, s) = q[c].to
  BY <1>1, <1>3, <1>4, FirstIs
<1>6. c = 1 \/ c = 2
  BY <1>2
<1> QED
  BY <1>1, <1>2, <1>5, <1>6

LEMMA NoTurn ==
  ASSUME NEW spec, NEW input, NEW s, spec.states[s].transitions = <<>>
  PROVE  Onward(spec, input, s) = s
BY DEF Onward

LEMMA FromService ==
  ASSUME NEW filled, NEW i, NEW spec, NEW input, NEW s,
         spec.states[s].transitions = AfterService(filled, i)
  PROVE  Onward(spec, input, s) =
           IF Tickets(filled) /\ i # "return_request" /\ input.risk = "high"
           THEN "create_handoff_ticket" ELSE "resolved"
<1> DEFINE up == Go("create_handoff_ticket", Escalation(i))
           on == Go("resolved", Unasked)
<1>1. Passes(on.when, input) /\ on.to = "resolved" /\ up.to = "create_handoff_ticket"
  BY WhenPasses DEF Go
<1>2. Passes(up.when, input) <=> i # "return_request" /\ input.risk = "high"
  BY WhenPasses DEF Escalation
<1> HIDE DEF up, on
<1>3. CASE Tickets(filled)
  <2>1. spec.states[s].transitions = <<up, on>>
    BY <1>3 DEF AfterService, up, on
  <2> QED
    BY <1>1, <1>2, <1>3, <2>1, TwoTurns
<1>4. CASE ~ Tickets(filled)
  <2>1. spec.states[s].transitions = <<on>>
    BY <1>4 DEF AfterService, on
  <2> QED
    BY <1>1, <1>4, <2>1, OneTurn
<1> QED
  BY <1>3, <1>4

(* The walk of a run, move by move.                                          *)
WalksAs(spec, input, walk) ==
  walk = [n \in 1 .. Longest |->
            IF n = 1 THEN spec.initial ELSE Onward(spec, input, walk[n - 1])]

LEMMA PathIs ==
  ASSUME NEW spec, NEW input
  PROVE  LET p == Path(spec, input)
             go(s) == Onward(spec, input, s)
         IN  /\ p = [n \in 1 .. 5 |-> p[n]] /\ p[1] = spec.initial
             /\ p[2] = go(p[1]) /\ p[3] = go(p[2]) /\ p[4] = go(p[3]) /\ p[5] = go(p[4])
<1> DEFINE go(s) == Onward(spec, input, s)
           a == spec.initial
           w == [n \in 1 .. 5 |-> CASE n = 1 -> a [] n = 2 -> go(a) [] n = 3 -> go(go(a))
                                    [] n = 4 -> go(go(go(a))) [] OTHER -> go(go(go(go(a))))]
           p == CHOOSE walk : WalksAs(spec, input, walk)
<1>1. WalksAs(spec, input, w)
  <2>1. /\ w[1] = a /\ w[2] = go(a) /\ w[3] = go(go(a)) /\ w[4] = go(go(go(a)))
        /\ w[5] = go(go(go(go(a))))
    OBVIOUS
  <2>2. w = [n \in 1 .. 5 |-> w[n]]
    OBVIOUS
  <2> HIDE DEF w
  <2>3. \A n \in 1 .. 5 : n = 1 \/ n = 2 \/ n = 3 \/ n = 4 \/ n = 5
    OBVIOUS
  <2>4. \A n \in 1 .. 5 : w[n] = IF n = 1 THEN a ELSE go(w[n - 1])
    BY <2>1, <2>3
  <2> QED
    BY <2>2, <2>4 DEF WalksAs, Longest
<1>2. WalksAs(spec, input, p)
  BY <1>1
<1>3. Path(spec, input) = p
  BY DEF Path, WalksAs
<1> HIDE DEF p
<1>4. /\ p = [n \in 1 .. 5 |-> p[n]]
      /\ \A n \in 1 .. 5 : p[n] = IF n = 1 THEN a ELSE go(p[n - 1])
  BY <1>2 DEF WalksAs, Longest
<1>5. /\ 1 \in 1 .. 5 /\ 2 \in 1 .. 5 /\ 3 \in 1 .. 5 /\ 4 \in 1 .. 5 /\ 5 \in 1 .. 5
      /\ 2 - 1 = 1 /\ 3 - 1 = 2 /\ 4 - 1 = 3 /\ 5 - 1 = 4
  OBVIOUS
<1> QED
  BY <1>3, <1>4, <1>5

-----------------------------------------------------------------------------
LEMMA SpecIs ==
  ASSUME NEW filled
  PROVE  LET spec == SpecOf(filled) IN
         /\ spec.initial = "triage" /\ spec.states = States(filled)
         /\ spec.actions = filled.skills /\ spec.intents = filled.intents
         /\ spec.agent = filled.name /\ spec.version = filled.version
BY DEF SpecOf

LEMMA StateIs ==
  ASSUME NEW a, NEW t, NEW k
  PROVE  /\ State(a, t, k).actions = a /\ State(a, t, k).transitions = t
         /\ State(a, t, k).kind = k
BY DEF State

(* Where a run of the agent is after each of its moves                       *)
LEMMA RunIs ==
  ASSUME NEW filled, Drawn(filled), NEW input
  PROVE  LET p == Path(SpecOf(filled), input)
             asked == AskedIn(input)
             high == /\ Tickets(filled) /\ asked # "return_request" /\ input.risk = "high"
         IN  /\ p[1] = "triage"
             /\ asked \notin Served(filled) =>
                  p[2] = "resolved" /\ p[3] = "resolved" /\ p[4] = "resolved" /\ p[5] = "resolved"
             /\ asked \in Served(filled) /\ asked = "handoff" =>
                  /\ p[2] = "create_handoff_ticket" /\ p[3] = "handoff_human"
                  /\ p[4] = "handoff_human" /\ p[5] = "handoff_human"
             /\ asked \in Served(filled) \ {"handoff"} /\ high =>
                  /\ p[2] = Place[asked] /\ p[3] = "create_handoff_ticket"
                  /\ p[4] = "handoff_human" /\ p[5] = "handoff_human"
             /\ asked \in Served(filled) \ {"handoff"} /\ ~ high =>
                  p[2] = Place[asked] /\ p[3] = "resolved" /\ p[4] = "resolved" /\ p[5] = "resolved"
<1> DEFINE spec == SpecOf(filled)
           st == States(filled)
           go(s) == Onward(spec, input, s)
           asked == AskedIn(input)
<1>1. spec.initial = "triage" /\ spec.states = st
  BY SpecIs
<1>2. /\ st["triage"] = State(Lookup(filled), Triage(filled), "step")
      /\ st["resolved"] = State({}, <<>>, "final")
      /\ Tickets(filled) =>
           /\ st["handoff_human"] = State({}, <<>>, "handoff")
           /\ st["create_handoff_ticket"] =
                State({"create_support_ticket"}, <<Go("handoff_human", Unasked)>>, "step")
      /\ \A i \in Served(filled) \ {"handoff"} :
           st[Place[i]] = State(Lookup(filled) \cup {SkillFor[i]}, AfterService(filled, i), "step")
  BY StatesAre
<1> HIDE DEF spec, st, asked
<1>3. go("triage") = IF asked \in Served(filled) THEN Place[asked] ELSE "resolved"
  BY <1>1, <1>2, StateIs, FromTriage DEF asked
<1>4. go("resolved") = "resolved"
  BY <1>1, <1>2, StateIs, NoTurn
<1>5. Tickets(filled) => go("handoff_human") = "handoff_human"
  BY <1>1, <1>2, StateIs, NoTurn
<1>6. Tickets(filled) => go("create_handoff_ticket") = "handoff_human"
  <2>1. LET t == Go("handoff_human", Unasked) IN Passes(t.when, input) /\ t.to = "handoff_human"
    BY WhenPasses
  <2> QED
    BY <1>1, <1>2, <2>1, StateIs, OneTurn
<1>7. ASSUME NEW i \in Served(filled) \ {"handoff"}
      PROVE  go(Place[i]) = IF Tickets(filled) /\ i # "return_request" /\ input.risk = "high"
                            THEN "create_handoff_ticket" ELSE "resolved"
  <2>1. spec.states[Place[i]].transitions = AfterService(filled, i)
    <3>1. st[Place[i]] = State(Lookup(filled) \cup {SkillFor[i]}, AfterService(filled, i), "step")
      BY <1>2
    <3> QED
      BY <1>1, <3>1, StateIs
  <2> DEFINE place == Place[i]
             onto == Onward(spec, input, place)
  <2> HIDE DEF place
  <2>2. spec.states[place].transitions = AfterService(filled, i)
    BY <2>1 DEF place
  <2>3. onto = IF Tickets(filled) /\ i # "return_request" /\ input.risk = "high"
               THEN "create_handoff_ticket" ELSE "resolved"
    BY <2>2, FromService
  <2> QED
    BY <2>3 DEF place
<1>8. "handoff" \in Served(filled) => Tickets(filled)
  BY ServedAre
<1>9. Place["handoff"] = "create_handoff_ticket"
  BY DEF Place
<1> DEFINE p == Path(spec, input)
<1>10. /\ p[1] = "triage" /\ p[2] = go(p[1]) /\ p[3] = go(p[2]) /\ p[4] = go(p[3])
       /\ p[5] = go(p[4])
  BY <1>1, PathIs
<1> HIDE DEF p, go
<1> QED
  BY <1>3, <1>4, <1>5, <1>6, <1>7, <1>8, <1>9, <1>10 DEF p, spec, asked

(* Whatever a form draws on, its agent keeps to what the builder checks.     *)
LEMMA SpecsAreValid ==
  ASSUME NEW filled, Drawn(filled)
  PROVE  SpecIsValid(SpecOf(filled))
<1> DEFINE spec == SpecOf(filled)
           st == States(filled)
<1>1. spec.initial = "triage" /\ spec.states = st /\ spec.actions = filled.skills
  BY SpecIs
<1>2. /\ DOMAIN st = StateNames(filled)
      /\ st["triage"] = State(Lookup(filled), Triage(filled), "step")
      /\ st["resolved"] = State({}, <<>>, "final")
      /\ Tickets(filled) =>
           /\ st["handoff_human"] = State({}, <<>>, "handoff")
           /\ st["create_handoff_ticket"] =
                State({"create_support_ticket"}, <<Go("handoff_human", Unasked)>>, "step")
      /\ \A i \in Served(filled) \ {"handoff"} :
           st[Place[i]] = State(Lookup(filled) \cup {SkillFor[i]}, AfterService(filled, i), "step")
  BY StatesAre
<1>3. /\ Served(filled) \subseteq Intents /\ ("handoff" \in Served(filled) <=> Tickets(filled))
      /\ \A i \in Served(filled) \ {"handoff"} : SkillFor[i] \in filled.skills
  BY ServedAre
<1>4. /\ StateNames(filled) =
           {"triage", "resolved"} \cup {Place[i] : i \in Served(filled)}
             \cup (IF Tickets(filled) THEN {"handoff_human"} ELSE {})
      /\ Place["handoff"] = "create_handoff_ticket"
  BY DEF StateNames, Place
<1>5. Lookup(filled) \subseteq filled.skills
  BY DEF Lookup
<1>6. Tickets(filled) => "create_support_ticket" \in filled.skills
  BY DEF Tickets
<1> DEFINE Fits(x) == /\ x.actions \subseteq spec.actions
                      /\ \A k \in DOMAIN x.transitions : x.transitions[k].to \in DOMAIN st
<1> HIDE DEF spec, st
<1>7. Fits(st["triage"])
  <2> DEFINE t == Triage(filled)
  <2>1. PICK n \in Nat \ {0} :
           /\ t \in Seq(Moves) /\ Len(t) = n
           /\ t[n] = Go("resolved", Unasked)
           /\ \A k \in 1 .. n - 1 : \E i \in Served(filled) : t[k] = Turn(i)
           /\ \A i \in Served(filled) : \E k \in 1 .. n - 1 : t[k] = Turn(i)
    BY TriageIs
  <2>2. \A i : Turn(i).to = Place[i]
    BY DEF Turn, Go
  <2>3. Go("resolved", Unasked).to = "resolved"
    BY DEF Go
  <2> HIDE DEF t
  <2>4. ASSUME NEW k \in DOMAIN t PROVE t[k].to \in DOMAIN st
    <3>1. k = n \/ k \in 1 .. n - 1
      BY <2>1
    <3>2. CASE k = n
      BY <1>2, <1>4, <2>1, <2>3, <3>2
    <3>3. CASE k \in 1 .. n - 1
      <4>1. PICK i \in Served(filled) : t[k] = Turn(i)
        BY <2>1, <3>3
      <4> QED
        BY <1>2, <1>4, <2>2, <4>1
    <3> QED
      BY <3>1, <3>2, <3>3
  <2>5. st["triage"].actions = Lookup(filled) /\ st["triage"].transitions = t
    BY <1>2, StateIs DEF t
  <2> QED
    BY <1>1, <1>5, <2>4, <2>5
<1>8. ASSUME NEW x, NEW a, NEW k, x = State(a, <<>>, k), a \subseteq filled.skills PROVE Fits(x)
  <2>1. x.actions = a /\ x.transitions = <<>>
    BY <1>8, StateIs
  <2> QED
    BY <1>1, <1>8, <2>1
<1>9. Fits(st["resolved"])
  BY <1>2, <1>8
<1>10. Tickets(filled) => Fits(st["handoff_human"])
  BY <1>2, <1>8
<1>11. ASSUME Tickets(filled) PROVE Fits(st["create_handoff_ticket"])
  <2>1. /\ st["create_handoff_ticket"].actions = {"create_support_ticket"}
        /\ st["create_handoff_ticket"].transitions = <<Go("handoff_human", Unasked)>>
    BY <1>2, <1>11, StateIs
  <2>2. Go("handoff_human", Unasked).to = "handoff_human" /\ "handoff_human" \in DOMAIN st
    BY <1>2, <1>4, <1>11 DEF Go
  <2> QED
    BY <1>1, <1>6, <1>11, <2>1, <2>2
<1>12. ASSUME NEW i \in Served(filled) \ {"handoff"} PROVE Fits(st[Place[i]])
  <2> DEFINE x == st[Place[i]]
             up == Go("create_handoff_ticket", Escalation(i))
             on == Go("resolved", Unasked)
  <2>1. st[Place[i]] = State(Lookup(filled) \cup {SkillFor[i]}, AfterService(filled, i), "step")
    BY <1>2
  <2>2. x.actions = Lookup(filled) \cup {SkillFor[i]} /\ x.transitions = AfterService(filled, i)
    BY <2>1, StateIs
  <2> HIDE DEF x
  <2>3. up.to = "create_handoff_ticket" /\ on.to = "resolved" /\ "resolved" \in DOMAIN st
    BY <1>2, <1>4 DEF Go
  <2>4. Tickets(filled) => "create_handoff_ticket" \in DOMAIN st
    BY <1>2, <1>3, <1>4
  <2>5. AfterService(filled, i) = IF Tickets(filled) THEN <<up, on>> ELSE <<on>>
    BY DEF AfterService
  <2> HIDE DEF up, on
  <2>6. \A k \in DOMAIN AfterService(filled, i) : AfterService(filled, i)[k].to \in DOMAIN st
    BY <2>3, <2>4, <2>5
  <2>7. Lookup(filled) \cup {SkillFor[i]} \subseteq spec.actions
    BY <1>1, <1>3, <1>5
  <2>8. Fits(x)
    BY <2>2, <2>6, <2>7
  <2> QED
    BY <2>8 DEF x
<1>13. ASSUME NEW s \in DOMAIN st PROVE Fits(st[s])
  <2>1. \/ s \in {"triage", "resolved"}
        \/ Tickets(filled) /\ s = "handoff_human"
        \/ \E i \in Served(filled) : s = Place[i]
    <3>1. /\ s \in {"triage", "resolved"} \cup {Place[i] : i \in Served(filled)}
                    \cup (IF Tickets(filled) THEN {"handoff_human"} ELSE {})
      <4>1. s \in StateNames(filled)
        BY <1>2
      <4> QED
        BY <4>1 DEF StateNames
    <3> QED
      BY <3>1
  <2> QED
    BY <1>3, <1>4, <1>7, <1>9, <1>10, <1>11, <1>12, <2>1
<1>14. st["resolved"].kind = "final" /\ "resolved" \in DOMAIN st /\ "triage" \in DOMAIN st
  BY <1>2, <1>4, StateIs
<1> HIDE DEF Fits
<1>15. SpecIsValid(spec) <=>
          /\ spec.initial \in DOMAIN st
          /\ \A s \in DOMAIN st : Fits(st[s])
          /\ \E s \in DOMAIN st : st[s].kind \in {"final", "handoff"}
  BY <1>1 DEF SpecIsValid, Fits
<1> QED
  BY <1>1, <1>13, <1>14, <1>15 DEF spec

(* What a run of the agent did, by what was asked of it                      *)
LEMMA VisitsAre ==
  ASSUME NEW spec, NEW input
  PROVE  LET p == Path(spec, input) IN
         /\ Ran(spec, input) =
              ((spec.states[p[1]].actions \cup spec.states[p[2]].actions)
                 \cup (spec.states[p[3]].actions \cup spec.states[p[4]].actions))
                 \cup spec.states[p[5]].actions
         /\ Ended(spec, input) = spec.states[p[5]].kind
<1> DEFINE p == Path(spec, input)
<1>1. 1 .. Longest = {1, 2, 3, 4, 5}
  BY DEF Longest
<1>2. Visited(spec, input) = {p[1], p[2], p[3], p[4], p[5]}
  BY <1>1 DEF Visited
<1> HIDE DEF p
<1>3. Ended(spec, input) = spec.states[p[5]].kind
  BY DEF Ended, Longest, p
<1>4. Ran(spec, input) = UNION {spec.states[s].actions : s \in Visited(spec, input)}
  BY DEF Ran
<1> QED
  BY <1>2, <1>3, <1>4 DEF p

LEMMA AgentsKeepTheirForm ==
  ASSUME NEW filled, Drawn(filled) PROVE AgentKeepsForm(filled)
<1> DEFINE spec == SpecOf(filled)
           st == States(filled)
<1>1. spec.states = st
  BY SpecIs
<1>2. /\ st["triage"] = State(Lookup(filled), Triage(filled), "step")
      /\ st["resolved"] = State({}, <<>>, "final")
      /\ Tickets(filled) =>
           /\ st["handoff_human"] = State({}, <<>>, "handoff")
           /\ st["create_handoff_ticket"] =
                State({"create_support_ticket"}, <<Go("handoff_human", Unasked)>>, "step")
      /\ \A i \in Served(filled) \ {"handoff"} :
           st[Place[i]] = State(Lookup(filled) \cup {SkillFor[i]}, AfterService(filled, i), "step")
  BY StatesAre
<1>3. /\ st["triage"].actions = Lookup(filled) /\ st["resolved"].actions = {}
      /\ st["resolved"].kind = "final"
      /\ Tickets(filled) => /\ st["handoff_human"].actions = {}
                          /\ st["handoff_human"].kind = "handoff"
                          /\ st["create_handoff_ticket"].actions = {"create_support_ticket"}
  BY <1>2, StateIs
<1>4. ASSUME NEW i \in Served(filled) \ {"handoff"}
      PROVE  st[Place[i]].actions = Lookup(filled) \cup {SkillFor[i]}
  <2>1. st[Place[i]] = State(Lookup(filled) \cup {SkillFor[i]}, AfterService(filled, i), "step")
    BY <1>2
  <2> QED
    BY <2>1, StateIs
<1>5. /\ Served(filled) \subseteq Intents /\ ("handoff" \in Served(filled) <=> Tickets(filled))
      /\ Lookup(filled) \subseteq {"query_order"}
  BY ServedAre DEF Lookup
<1>6. /\ \A i \in Intents : SkillFor[i] # "query_order"
      /\ \A i, j \in Intents : SkillFor[i] = SkillFor[j] => i = j
      /\ SkillFor["handoff"] = "create_support_ticket" /\ "handoff" \in Intents
  BY DEF SkillFor, Intents
<1>7. ASSUME NEW input
      PROVE  LET asked == AskedIn(input)
                 ran == Ran(spec, input)
             IN /\ Ended(spec, input) \in {"final", "handoff"}
                /\ asked \in Served(filled) => SkillFor[asked] \in ran
                /\ \A i \in Intents \ {"handoff"} : SkillFor[i] \in ran => asked = i
                /\ "create_support_ticket" \in ran <=>
                     /\ Tickets(filled)
                     /\ \/ asked = "handoff"
                        \/ asked \in Served(filled) \ {"return_request"} /\ input.risk = "high"
  <2> DEFINE asked == AskedIn(input)
             ran == Ran(spec, input)
             p == Path(spec, input)
             high == Tickets(filled) /\ asked # "return_request" /\ input.risk = "high"
             did == IF asked \notin Served(filled) THEN {}
                    ELSE IF asked = "handoff" THEN {"create_support_ticket"}
                    ELSE IF high THEN {SkillFor[asked], "create_support_ticket"}
                    ELSE {SkillFor[asked]}
  <2>1. /\ ran = ((st[p[1]].actions \cup st[p[2]].actions)
                   \cup (st[p[3]].actions \cup st[p[4]].actions)) \cup st[p[5]].actions
        /\ Ended(spec, input) = st[p[5]].kind
    BY <1>1, VisitsAre
  <2>2. /\ p[1] = "triage"
        /\ asked \notin Served(filled) =>
             p[2] = "resolved" /\ p[3] = "resolved" /\ p[4] = "resolved" /\ p[5] = "resolved"
        /\ asked \in Served(filled) /\ asked = "handoff" =>
             /\ p[2] = "create_handoff_ticket" /\ p[3] = "handoff_human"
             /\ p[4] = "handoff_human" /\ p[5] = "handoff_human"
        /\ asked \in Served(filled) \ {"handoff"} /\ high =>
             /\ p[2] = Place[asked] /\ p[3] = "create_handoff_ticket"
             /\ p[4] = "handoff_human" /\ p[5] = "handoff_human"
        /\ asked \in Served(filled) \ {"handoff"} /\ ~ high =>
             p[2] = Place[asked] /\ p[3] = "resolved" /\ p[4] = "resolved" /\ p[5] = "resolved"
    BY RunIs
  <2> HIDE DEF p, asked, ran
  <2>3. ran = Lookup(filled) \cup did /\ Ended(spec, input) \in {"final", "handoff"}
    <3>1. CASE asked \notin Served(filled)
      BY <1>3, <2>1, <2>2, <3>1
    <3>2. CASE asked \in Served(filled) /\ asked = "handoff"
      BY <1>3, <1>5, <2>1, <2>2, <3>2
    <3>3. CASE asked \in Served(filled) \ {"handoff"} /\ high
      BY <1>3, <1>4, <2>1, <2>2, <3>3
    <3>4. CASE asked \in Served(filled) \ {"handoff"} /\ ~ high
      BY <1>3, <1>4, <2>1, <2>2, <3>4
    <3> QED
      BY <3>1, <3>2, <3>3, <3>4
  <2>4. asked \in Served(filled) => SkillFor[asked] \in ran
    BY <1>6, <2>3
  <2>5. ASSUME NEW i \in Intents \ {"handoff"}, SkillFor[i] \in ran PROVE asked = i
    <3>1. SkillFor[i] \in did /\ SkillFor[i] # "create_support_ticket"
      BY <1>5, <1>6, <2>3, <2>5
    <3>2. asked \in Served(filled) /\ SkillFor[i] = SkillFor[asked]
      BY <3>1
    <3> QED
      BY <1>5, <1>6, <3>2
  <2>6. "create_support_ticket" \in ran <=>
           /\ Tickets(filled)
           /\ \/ asked = "handoff"
              \/ asked \in Served(filled) \ {"return_request"} /\ input.risk = "high"
    <3>1. "create_support_ticket" \in ran <=> "create_support_ticket" \in did
      BY <1>5, <2>3
    <3>2. ASSUME asked \in Served(filled) \ {"handoff"}
          PROVE  SkillFor[asked] # "create_support_ticket"
      BY <1>5, <1>6, <3>2
    <3> QED
      BY <1>5, <3>1, <3>2
  <2> QED
    BY <2>3, <2>4, <2>5, <2>6 DEF asked, ran
<1>8. SpecIsValid(spec)
  BY SpecsAreValid
<1> HIDE DEF spec
<1>9. AgentKeepsForm(filled) <=>
        /\ SpecIsValid(spec)
        /\ \A input \in Inputs :
             LET asked == AskedIn(input)
                 ran == Ran(spec, input)
             IN /\ Ended(spec, input) \in {"final", "handoff"}
                /\ asked \in Served(filled) => SkillFor[asked] \in ran
                /\ \A i \in Intents \ {"handoff"} : SkillFor[i] \in ran => asked = i
                /\ "create_support_ticket" \in ran <=>
                     /\ Tickets(filled)
                     /\ \/ asked = "handoff"
                        \/ asked \in Served(filled) \ {"return_request"} /\ input.risk = "high"
  BY DEF AgentKeepsForm, spec
<1> QED
  BY <1>7, <1>8, <1>9

(* The text of an agent, read back, walks where the agent does.              *)
LEMMA TextsSayTheSame ==
  ASSUME NEW filled \in [name : Readings, version : Readings, intents : SUBSET Intents,
                       skills : SUBSET Skills]
  PROVE  TextSaysTheSame(filled)
<1> DEFINE spec == SpecOf(filled)
           read == ReadBack(spec)
<1>1. Drawn(filled) /\ filled.name \in Readings /\ filled.version \in Readings
  BY DEF Drawn
<1>2. /\ read.states = spec.states /\ read.initial = spec.initial
      /\ read.actions = spec.actions /\ read.intents = spec.intents
  BY DEF ReadBack, SpecOf
<1>3. spec.agent = filled.name /\ spec.version = filled.version
  BY SpecIs
<1>4. SpecIsValid(spec)
  BY <1>1, SpecsAreValid
<1> HIDE DEF spec, read
<1>5. SpecIsValid(read)
  BY <1>2, <1>4 DEF SpecIsValid
<1>6. ASSUME NEW input PROVE Path(read, input) = Path(spec, input)
  <2>1. \A s : Onward(read, input, s) = Onward(spec, input, s)
    BY <1>2 DEF Onward
  <2> DEFINE p == Path(read, input)
             q == Path(spec, input)
  <2>2. /\ p = [n \in 1 .. 5 |-> p[n]] /\ p[1] = read.initial
        /\ p[2] = Onward(read, input, p[1]) /\ p[3] = Onward(read, input, p[2])
        /\ p[4] = Onward(read, input, p[3]) /\ p[5] = Onward(read, input, p[4])
    BY PathIs
  <2>3. /\ q = [n \in 1 .. 5 |-> q[n]] /\ q[1] = spec.initial
        /\ q[2] = Onward(spec, input, q[1]) /\ q[3] = Onward(spec, input, q[2])
        /\ q[4] = Onward(spec, input, q[3]) /\ q[5] = Onward(spec, input, q[4])
    BY PathIs
  <2> HIDE DEF p, q
  <2>4. p[1] = q[1] /\ p[2] = q[2] /\ p[3] = q[3] /\ p[4] = q[4] /\ p[5] = q[5]
    BY <1>2, <2>1, <2>2, <2>3
  <2>5. \A n \in 1 .. 5 : n = 1 \/ n = 2 \/ n = 3 \/ n = 4 \/ n = 5
    OBVIOUS
  <2>6. \A n \in 1 .. 5 : p[n] = q[n]
    BY <2>4, <2>5
  <2> QED
    BY <2>2, <2>3, <2>6 DEF p, q
<1>7. ASSUME NEW input PROVE Matched(read, input) = Matched(spec, input)
  BY <1>2 DEF Matched
<1>8. ~ TextIsAccepted(spec) => "number" \in {filled.name, filled.version}
  BY <1>1, <1>3 DEF TextIsAccepted, Readings
<1>9. TextSaysTheSame(filled) <=>
        IF TextIsAccepted(spec)
        THEN /\ SpecIsValid(read)
             /\ \A input \in Inputs :
                  /\ Path(read, input) = Path(spec, input)
                  /\ Matched(read, input) = Matched(spec, input)
        ELSE "number" \in {filled.name, filled.version}
  BY DEF TextSaysTheSame, spec, read
<1> QED
  BY <1>5, <1>6, <1>7, <1>8, <1>9

-----------------------------------------------------------------------------
(* The panel: an offer is a form the builder takes, its differences are those *)
(* from the form as it is unless that was changed since, and the button waits *)
(* while a request is on its way.                                             *)
OfferInv ==
  offer # None =>
    /\ FormIsValid(offer.form)
    /\ ~ offer.moved => offer.diff = CompareBuilderForms(settings, offer.form)

DraftInv == DraftTypeOK /\ OfferInv /\ GeneratingHasRequest

LEMMA DraftsPass ==
  ASSUME NEW d, DraftIssues(d) = {}, d.window \in Windows \cup {None}, d.handoff \in Handoffs
  PROVE  FormOf(d) \in DraftedForms /\ FormIsValid(FormOf(d))
<1>1. /\ d.intents # {} /\ d.intents \subseteq Intents
      /\ d.skills # {} /\ d.skills \subseteq Skills
  <2>1. "intents" \notin DraftIssues(d) /\ "skills" \notin DraftIssues(d)
    OBVIOUS
  <2> QED
    BY <2>1 DEF DraftIssues
<1> QED
  BY <1>1 DEF FormOf, DraftedForms, FormIsValid

LEMMA SettlingKeeps ==
  ASSUME DeskAssumption, DraftInv, NEW d, NEW base \in Settings, SettleWith(d, base),
         d.window \in Windows \cup {None}, d.handoff \in Handoffs, settings' = settings
  PROVE  offer' \in Offers \cup {None} /\ refused' \in BOOLEAN /\ OfferInv'
<1>1. CASE DraftIssues(d) = {}
  <2> DEFINE f == FormOf(d)
             diff == CompareBuilderForms(base, f)
  <2>1. f \in DraftedForms /\ FormIsValid(f)
    BY <1>1, DraftsPass
  <2>2. diff \subseteq FormFields
    BY DEF CompareBuilderForms
  <2>3. offer' = [form |-> f, diff |-> diff, moved |-> base # settings] /\ refused' = FALSE
    BY <1>1 DEF SettleWith, Offered
  <2> HIDE DEF f
  <2>4. offer' \in Offers
    <3> HIDE DEF diff
    <3> QED
      BY <2>1, <2>2, <2>3 DEF Offers
  <2>5. OfferInv'
    <3>1. offer'.form = f /\ offer'.diff = diff /\ (offer'.moved <=> base # settings)
      BY <2>3
    <3> QED
      BY <2>1, <3>1 DEF OfferInv, CompareBuilderForms, FormIsValid
  <2> QED
    BY <2>3, <2>4, <2>5
<1>2. CASE DraftIssues(d) # {}
  BY <1>2 DEF SettleWith, DraftInv, DraftTypeOK, OfferInv, CompareBuilderForms
<1> QED
  BY <1>1, <1>2

LEMMA ChangingKeeps ==
  ASSUME DeskAssumption, DraftInv, NEW after \in Settings, ChangeForm(after)
  PROVE  /\ settings' \in Settings /\ offer' \in Offers \cup {None} /\ OfferInv'
<1>1. settings' = after /\ offer' = Moved(after)
  BY DEF ChangeForm
<1>2. CASE offer = None
  BY <1>1, <1>2 DEF Moved, OfferInv
<1>3. CASE offer # None
  <2> DEFINE moved == offer.moved \/ after # settings
  <2>1. offer \in Offers
    BY <1>3 DEF DraftInv, DraftTypeOK
  <2>2. offer' = [offer EXCEPT !.moved = moved]
    BY <1>1, <1>3 DEF Moved
  <2>3. moved \in BOOLEAN
    BY <2>1 DEF Offers
  <2>4. ~ moved => after = settings /\ ~ offer.moved
    OBVIOUS
  <2> HIDE DEF moved
  <2>5. offer' \in Offers /\ offer'.form = offer.form /\ offer'.diff = offer.diff
        /\ offer'.moved = moved
    BY <2>1, <2>2, <2>3 DEF Offers
  <2>6. OfferInv'
    BY <1>1, <1>3, <2>4, <2>5 DEF DraftInv, OfferInv, CompareBuilderForms, FormIsValid
  <2> QED
    BY <1>1, <2>5, <2>6
<1> QED
  BY <1>2, <1>3

LEMMA AppliedIsForm ==
  ASSUME NEW prev \in Settings, NEW drafted \in DraftedForms
  PROVE  LET after == Applied(prev, drafted) IN
         /\ after \in Settings
         /\ after.name = drafted.name /\ after.intents = drafted.intents
         /\ after.skills = drafted.skills /\ after.handoff = drafted.handoff
         /\ after.window = IF drafted.window \in Windows THEN drafted.window ELSE prev.window
<1>1. /\ drafted.name \in Readings /\ drafted.intents \in SUBSET Intents
      /\ drafted.skills \in SUBSET Skills /\ drafted.handoff \in Handoffs
  BY DEF DraftedForms, Readings
<1> DEFINE w == IF drafted.window \in Windows THEN drafted.window ELSE prev.window
<1>2. w \in Windows
  BY DEF Settings
<1>3. Applied(prev, drafted) =
        [prev EXCEPT !.name = drafted.name, !.intents = drafted.intents,
                     !.skills = drafted.skills, !.window = w, !.handoff = drafted.handoff]
  BY DEF Applied, Settings
<1> HIDE DEF w
<1>4. Applied(prev, drafted) =
        [name |-> drafted.name, version |-> prev.version, intents |-> drafted.intents,
         skills |-> drafted.skills, window |-> w, handoff |-> drafted.handoff]
  BY <1>3 DEF Settings
<1>5. prev.version \in Readings
  BY DEF Settings
<1> QED
  BY <1>1, <1>2, <1>4, <1>5 DEF Settings, w

-----------------------------------------------------------------------------
LEMMA DraftStarts == DraftInit => DraftInv
BY DeskAssumption
   DEF DraftInit, DraftInv, DraftTypeOK, OfferInv, GeneratingHasRequest

LEMMA GenerateKeeps ==
  ASSUME DraftInv, Generate PROVE DraftInv'
<1>1. /\ settings \in Settings /\ tags \in TagChoices /\ asking = None /\ generating = FALSE
      /\ settings' = settings /\ tags' = tags /\ told' = FALSE
  BY DEF Generate, DraftInv, DraftTypeOK, GeneratingHasRequest
<1>2. CASE ~ TagsPass
  BY <1>1, <1>2
     DEF Generate, DraftInv, DraftTypeOK, OfferInv, GeneratingHasRequest, CompareBuilderForms
<1>3. CASE TagsPass /\ tags.provider = "mock"
  <2>1. SettleWith(MockDraft(tags), settings) /\ UNCHANGED <<generating, asking>>
    BY <1>3 DEF Generate
  <2>2. MockDraft(tags).window \in Windows \cup {None} /\ MockDraft(tags).handoff \in Handoffs
    BY DEF MockDraft, Windows, Handoffs
  <2>3. offer' \in Offers \cup {None} /\ refused' \in BOOLEAN /\ OfferInv'
    BY <1>1, <2>1, <2>2, SettlingKeeps, DeskAssumption
  <2> QED
    BY <1>1, <2>1, <2>3 DEF DraftInv, DraftTypeOK, GeneratingHasRequest
<1>4. CASE TagsPass /\ tags.provider # "mock"
  <2> DEFINE question == [phase |-> "runner", base |-> settings]
  <2>1. generating' = TRUE /\ refused' = FALSE /\ asking' = question /\ offer' = offer
    BY <1>4 DEF Generate
  <2>2. question \in Questions
    BY <1>1 DEF Questions
  <2>3. question # None
    BY <2>2, DeskAssumption
  <2> HIDE DEF question
  <2> QED
    BY <1>1, <2>1, <2>2, <2>3
       DEF DraftInv, DraftTypeOK, OfferInv, GeneratingHasRequest, CompareBuilderForms
<1> QED
  BY <1>2, <1>3, <1>4

LEMMA AnsweringKeeps ==
  ASSUME DraftInv, RequestMoves PROVE DraftInv'
<1>1. settings' = settings /\ tags' = tags /\ told' = told
  BY DEF RequestMoves
<1>2. CASE RefuseDraft
  BY <1>1, <1>2
     DEF RefuseDraft, Settled, DraftInv, DraftTypeOK, OfferInv, GeneratingHasRequest,
         CompareBuilderForms
<1>3. ASSUME NEW step \in {"provider", "body"}, asking # None, Reaches(step) PROVE DraftInv'
  <2>1. asking \in Questions /\ asking' = [asking EXCEPT !.phase = step]
    BY <1>3 DEF Reaches, DraftInv, DraftTypeOK
  <2>2. asking' \in Questions
    BY <2>1 DEF Questions
  <2>3. asking' # None
    BY <2>2, DeskAssumption
  <2> QED
    BY <1>1, <1>3, <2>2, <2>3
       DEF Reaches, DraftInv, DraftTypeOK, OfferInv, GeneratingHasRequest, CompareBuilderForms
<1>4. ASSUME NEW d \in LlmDrafts, Settled, SettleWith(d, asking.base) PROVE DraftInv'
  <2>1. asking \in Questions /\ asking' = None /\ generating' = FALSE
    BY <1>4 DEF Settled, DraftInv, DraftTypeOK
  <2>2. asking.base \in Settings
    BY <2>1 DEF Questions
  <2>3. offer' \in Offers \cup {None} /\ refused' \in BOOLEAN /\ OfferInv'
    BY <1>1, <1>4, <2>2, SettlingKeeps, DeskAssumption
  <2> QED
    BY <1>1, <2>1, <2>3 DEF DraftInv, DraftTypeOK, GeneratingHasRequest
<1> QED
  BY <1>2, <1>3, <1>4
     DEF RequestMoves, RunnerTakes, HeadersArrive, TimerFires, BodyRead, Lost, RefuseDraft

LEMMA SettingsKeep ==
  ASSUME DraftInv, EditSettings \/ ApplyDraft PROVE DraftInv'
<1>1. settings \in Settings
  BY DEF DraftInv, DraftTypeOK
<1>2. \E after \in Settings : ChangeForm(after)
  <2>1. ASSUME NEW i \in Intents PROVE [settings EXCEPT !.intents = Flip(@, i)] \in Settings
    BY <1>1 DEF Settings, Flip
  <2>2. ASSUME NEW s \in Skills PROVE [settings EXCEPT !.skills = Flip(@, s)] \in Settings
    BY <1>1 DEF Settings, Flip
  <2>3. [settings EXCEPT !.window = IF @ = 7 THEN 30 ELSE 7] \in Settings
    BY <1>1 DEF Settings, Windows
  <2>4. ASSUME offer # None PROVE Applied(settings, offer.form) \in Settings
    <3>1. offer.form \in DraftedForms
      BY <2>4 DEF DraftInv, DraftTypeOK, Offers
    <3> QED
      BY <1>1, <3>1, AppliedIsForm
  <2> QED
    BY <2>1, <2>2, <2>3, <2>4 DEF EditSettings, ApplyDraft
<1>3. settings' \in Settings /\ offer' \in Offers \cup {None} /\ OfferInv'
  BY <1>2, ChangingKeeps, DeskAssumption
<1>4. /\ tags' = tags /\ generating' = generating /\ asking' = asking /\ refused' = refused
      /\ told' = told \/ told' = TRUE
  BY DEF EditSettings, ApplyDraft
<1>5. told' \in BOOLEAN
  BY <1>4 DEF DraftInv, DraftTypeOK
<1> QED
  BY <1>3, <1>4, <1>5 DEF DraftInv, DraftTypeOK, GeneratingHasRequest

LEMMA DraftsAlwaysInv == DraftSpec => []DraftInv
<1>1. DraftInv /\ [DraftNext]_draftVars => DraftInv'
  <2> SUFFICES ASSUME DraftInv, [DraftNext]_draftVars PROVE DraftInv'
    OBVIOUS
  <2>1. CASE PickTags
    BY <2>1
       DEF PickTags, DraftInv, DraftTypeOK, OfferInv, GeneratingHasRequest, CompareBuilderForms
  <2>2. CASE UNCHANGED draftVars
    BY <2>2
       DEF draftVars, DraftInv, DraftTypeOK, OfferInv, GeneratingHasRequest, CompareBuilderForms
  <2> QED
    BY <2>1, <2>2, GenerateKeeps, AnsweringKeeps, SettingsKeep DEF DraftNext
<1> QED
  BY <1>1, DraftStarts, PTL DEF DraftSpec

(* For any form the builder opens with, any tags and any drafts of a real    *)
(* provider: what is offered makes an agent, its differences are told as     *)
(* long as nobody touched the form, and every form makes an agent that keeps *)
(* to it (AiDraftPanel.tsx:107, flow-draft-to-form.ts:16).                   *)
THEOREM DraftsAlwaysMakeAgents == DraftSpec => []DraftsMakeAgents
<1>1. DraftInv => DraftsMakeAgents
  <2> SUFFICES ASSUME DraftInv PROVE DraftsMakeAgents
    OBVIOUS
  <2>1. AgentsKeepForms
    <3>1. ASSUME NEW f \in FormsThatBuild PROVE AgentKeepsForm(f) /\ TextSaysTheSame(f)
      <4>1. /\ f \in [name : Readings, version : Readings, intents : SUBSET Intents,
                       skills : SUBSET Skills]
            /\ Drawn(f)
        BY DEF FormsThatBuild, Drawn
      <4> QED
        BY <4>1, AgentsKeepTheirForm, TextsSayTheSame
    <3> QED
      BY <3>1 DEF AgentsKeepForms
  <2>2. ASSUME offer # None
        PROVE  /\ FormIsValid(Applied(settings, offer.form))
               /\ SpecIsValid(SpecOf(Applied(settings, offer.form)))
               /\ ~ offer.moved => DiffTellsWhatApplyDoes
    <3> DEFINE after == Applied(settings, offer.form)
    <3>1. offer.form \in DraftedForms /\ settings \in Settings
      BY <2>2 DEF DraftInv, DraftTypeOK, Offers
    <3>2. /\ after \in Settings
          /\ after.name = offer.form.name /\ after.intents = offer.form.intents
          /\ after.skills = offer.form.skills /\ after.handoff = offer.form.handoff
          /\ after.window = IF offer.form.window \in Windows THEN offer.form.window
                            ELSE settings.window
      BY <3>1, AppliedIsForm
    <3> HIDE DEF after
    <3>3. FormIsValid(offer.form)
      BY <2>2 DEF DraftInv, OfferInv
    <3>4. FormIsValid(after) /\ Drawn(after)
      BY <3>2, <3>3 DEF FormIsValid, Drawn
    <3>5. SpecIsValid(SpecOf(after))
      BY <3>4, SpecsAreValid
    <3>6. ASSUME ~ offer.moved PROVE DiffTellsWhatApplyDoes
      <4>1. offer.diff = {f \in FormFields : settings[f] # offer.form[f]}
        BY <2>2, <3>6 DEF DraftInv, OfferInv, CompareBuilderForms
      <4>2. \A f \in FormFields \ {"window"} : after[f] = offer.form[f]
        BY <3>2 DEF FormFields
      <4>3. after["window"] # settings["window"] => after["window"] = offer.form["window"]
        BY <3>2
      <4>4. \A f \in FormFields : after[f] # settings[f] => f \in offer.diff
        BY <4>1, <4>2, <4>3
      <4>5. \A f \in offer.diff \ {"window"} : after[f] = offer.form[f]
        BY <4>1, <4>2
      <4> QED
        BY <4>4, <4>5 DEF DiffTellsWhatApplyDoes, after
    <3> QED
      BY <3>4, <3>5, <3>6 DEF after
  <2>3. DiffTellsWhatApplyDoes
    BY <2>2 DEF DiffTellsWhatApplyDoes
  <2>4. OffersMakeAgents
    BY <2>2 DEF OffersMakeAgents
  <2> QED
    BY <2>1, <2>3, <2>4 DEF DraftsMakeAgents, DraftInv
<1> QED
  BY <1>1, DraftsAlwaysInv, PTL

-----------------------------------------------------------------------------
(* The parts together, as MCAuthoring moves them.                            *)

(* What one part starts with and does is what its own specification says.    *)
Moving(p) == part = p

LEMMA AuthorsBehave ==
  Spec => /\ CompositionSpec /\ OrchestratorSpec /\ CreatorSpec /\ DraftSpec
          /\ Doc!DocumentInit /\ [][Doc!DocumentNext]_document
          /\ Moving("studio") => StudioSpec
          /\ ~ Moving("studio") => []~ Moving("studio")
          /\ Moving("workbench") => WorkbenchSpec
          /\ ~ Moving("workbench") => []~ Moving("workbench")
          /\ Moving("agents") => AgentSpec
          /\ ~ Moving("agents") => []~ Moving("agents")
          /\ Moving("commands") => CommandsSpec
          /\ ~ Moving("commands") => []~ Moving("commands")
<1>1. Init => /\ CompositionInit /\ OrchestratorInit /\ CreatorInit /\ DraftInit
              /\ Doc!DocumentInit
              /\ Moving("studio") => StudioInit
              /\ Moving("workbench") => WorkbenchInit
              /\ Moving("agents") => AgentInit
              /\ Moving("commands") => CommandsInit
  BY DEF Init, Moving
<1>2. [Next]_vars =>
        /\ [CompositionNext]_compositionVars /\ [OrchestratorNext]_orchestratorVars
        /\ [CreatorNext]_creatorVars /\ [DraftNext]_draftVars
        /\ [Doc!DocumentNext]_document
        /\ [StudioNext]_studioVars /\ [WorkbenchNext]_workbenchVars
        /\ [AgentNext]_agentVars /\ [CommandsNext]_commandVars
  <2> SUFFICES ASSUME [Next]_vars
               PROVE  /\ CompositionNext \/ UNCHANGED compositionVars
                      /\ OrchestratorNext \/ UNCHANGED orchestratorVars
                      /\ CreatorNext \/ UNCHANGED creatorVars
                      /\ DraftNext \/ UNCHANGED draftVars
                      /\ Doc!DocumentNext \/ UNCHANGED document
                      /\ StudioNext \/ UNCHANGED studioVars
                      /\ WorkbenchNext \/ UNCHANGED workbenchVars
                      /\ AgentNext \/ UNCHANGED agentVars
                      /\ CommandsNext \/ UNCHANGED commandVars
    OBVIOUS
  <2> QED
    BY DEF Next, vars
<1>3. ASSUME NEW p PROVE ~ Moving(p) /\ [Next]_vars => ~ Moving(p)'
  BY DEF Next, vars, Moving
<1>4. /\ ~ Moving("studio") /\ [Next]_vars => ~ Moving("studio")'
      /\ ~ Moving("workbench") /\ [Next]_vars => ~ Moving("workbench")'
      /\ ~ Moving("agents") /\ [Next]_vars => ~ Moving("agents")'
      /\ ~ Moving("commands") /\ [Next]_vars => ~ Moving("commands")'
  BY <1>3
<1> QED
  BY <1>1, <1>2, <1>4, PTL
     DEF Spec, CompositionSpec, OrchestratorSpec, CreatorSpec, DraftSpec, StudioSpec,
         WorkbenchSpec, AgentSpec, CommandsSpec

(* A plan is of what its author may write and a bundle of slots.             *)
LEMMA PreviewTypes ==
  ASSUME NEW plan_, NEW host, plan_.slots \in Seq(SlotChoices)
  PROVE  /\ Preview(plan_, host).ok \in BOOLEAN
         /\ Preview(plan_, host).slots \in Seq(SlotChoices)
<1> DEFINE all == OfRole(plan_.slots, "primary") \o OfRole(plan_.slots, "supporting")
<1>1. all \in Seq(SlotChoices)
  BY SlotsOfRole
<1> HIDE DEF all
<1>2. <<>> \in Seq(SlotChoices)
  OBVIOUS
<1>3. ASSUME NEW code PROVE Refused(code).ok = FALSE /\ Refused(code).slots = <<>>
  BY DEF Refused, NoBundle
<1>4. CompiledSlots(all).ok \in BOOLEAN /\ CompiledSlots(all).slots \in {all, <<>>}
  BY <1>3 DEF CompiledSlots
<1>5. \/ \E code \in {"SLOT_NAMESPACE_COLLISION", "COMPILE_INPUT_INVALID", "OUTPUT_PATH_UNSAFE",
                      "NOT_COMPILE_READY", "COMPILER_NOT_AVAILABLE"} :
           Preview(plan_, host) = Refused(code)
      \/ Preview(plan_, host) = CompiledSlots(all)
  BY DEF Preview, all
<1> QED
  BY <1>1, <1>2, <1>3, <1>4, <1>5

LEMMA PlansKeepTheirTypes == CompositionSpec => []CompositionTypeOK
<1>1. CompositionInit => CompositionTypeOK
  <2>1. /\ <<>> \in Seq(SlotChoices) /\ <<>> \in Seq(OverlayRefs)
        /\ <<>> \in Seq(RouteChoices) /\ <<>> \in Seq(BindingRefs)
    OBVIOUS
  <2>2. CompositionInit => composition \in Plans
    BY <2>1 DEF CompositionInit, Plans
  <2> QED
    BY <2>1, <2>2 DEF CompositionInit, CompositionTypeOK, NoBundle
<1>2. CompositionTypeOK /\ [CompositionNext]_compositionVars => CompositionTypeOK'
  <2> SUFFICES ASSUME CompositionTypeOK, [CompositionNext]_compositionVars
               PROVE  CompositionTypeOK'
    OBVIOUS
  <2>1. /\ composition \in Plans /\ support \in SupportContexts
        /\ bundle.ok \in BOOLEAN /\ bundle.slots \in Seq(SlotChoices)
        /\ composition.slots \in Seq(SlotChoices) /\ composition.overlays \in Seq(OverlayRefs)
        /\ composition.routes \in Seq(RouteChoices) /\ composition.bindings \in Seq(BindingRefs)
    BY PlanParts DEF CompositionTypeOK
  <2>2. CASE CompilePlan
    BY <2>1, <2>2, PreviewTypes DEF CompilePlan, CompositionTypeOK
  <2>3. CASE UNCHANGED compositionVars
    BY <2>1, <2>3 DEF compositionVars, CompositionTypeOK
  <2>4. ASSUME composition' \in Plans, UNCHANGED <<support, bundle>> PROVE CompositionTypeOK'
    BY <2>1, <2>4 DEF CompositionTypeOK
  <2>5. ASSUME NEW s \in SlotChoices, Write("slots", s, MaxSlots) PROVE CompositionTypeOK'
    BY <2>1, <2>4, <2>5, AppendKeeps, PlanEdited DEF Write
  <2>6. ASSUME NEW o \in OverlayRefs, Write("overlays", o, MaxOverlayRefs)
        PROVE  CompositionTypeOK'
    BY <2>1, <2>4, <2>6, AppendKeeps, PlanEdited DEF Write
  <2>7. ASSUME NEW r \in RouteChoices, Write("routes", r, MaxRefs) PROVE CompositionTypeOK'
    BY <2>1, <2>4, <2>7, AppendKeeps, PlanEdited DEF Write
  <2>8. ASSUME NEW b \in BindingRefs, Write("bindings", b, MaxRefs) PROVE CompositionTypeOK'
    BY <2>1, <2>4, <2>8, AppendKeeps, PlanEdited DEF Write
  <2> QED
    BY <2>2, <2>3, <2>5, <2>6, <2>7, <2>8 DEF CompositionNext
<1> QED
  BY <1>1, <1>2, PTL DEF CompositionSpec

(* An agent runs in its states, a trial comes by them.                       *)
LEMMA AgentsKeepTheirTypes ==
  ASSUME AgentsAssumption PROVE AgentSpec => []AgentTypeOK
<1> DEFINE Kept == AgentInv /\ AgentTypeOK
<1>1. AgentInit => Kept
  <2> SUFFICES ASSUME AgentInit PROVE AgentInv /\ AgentTypeOK
    OBVIOUS
  <2>1. AgentInv
    BY AgentStarts
  <2>2. /\ trial \in Cases(config) \cup {None} /\ entry = at /\ trail \subseteq {at}
        /\ status = "running"
    BY DEF AgentInit, Started
  <2> QED
    BY <2>1, <2>2 DEF AgentInv, AgentTypeOK
<1>2. Kept /\ [AgentNext]_agentVars => Kept'
  <2> SUFFICES ASSUME AgentInv, AgentTypeOK, [AgentNext]_agentVars
               PROVE  AgentInv' /\ AgentTypeOK'
    OBVIOUS
  <2>1. AgentInv'
    BY AgentSteps
  <2>2. config' = config /\ trial' = trial /\ entry' = entry
    BY DEF AgentNext, Visit, GiveUp, agentVars
  <2>3. /\ trail' \subseteq trail \cup {at'}
        /\ status' \in {"running", "completed", "handoff", "stuck", "failed"}
    BY DEF AgentNext, Visit, Enter, GiveUp, agentVars, AgentTypeOK
  <2> QED
    BY <2>1, <2>2, <2>3 DEF AgentInv, AgentTypeOK
<1> QED
  BY <1>1, <1>2, PTL DEF AgentSpec

(* A command keeps to its input and its options.                             *)
LEMMA CommandsKeepTheirTypes ==
  ASSUME CommandsAssumption PROVE CommandsSpec => []CommandsTypeOK
<1> DEFINE Orders ==
             /\ \A c \in Commands : given[c] \in GivenTo[c]
             /\ flags \in [Commands -> [force : BOOLEAN, dry : BOOLEAN]]
             /\ disturbed \subseteq Commands /\ made \in BOOLEAN
<1>1. CommandsInit => Orders
  BY DEF CommandsInit, Given
<1>2. CommandsInv /\ Orders /\ [CommandsNext]_commandVars => Orders'
  <2> SUFFICES ASSUME CommandsInv, Orders, [CommandsNext]_commandVars
               PROVE  Orders'
    OBVIOUS
  <2>1. given' = given /\ flags' = flags
    BY DEF CommandsNext, BeginPack, BeginComposition, BeginOrchestrator, Begin, MakeDirectory,
       WriteBeside, Rename, Finish, Stop, commandVars
  <2>2. made' = made \/ made' = TRUE
    BY DEF CommandsNext, BeginPack, BeginComposition, BeginOrchestrator, Begin, MakeDirectory,
       WriteBeside, Rename, Finish, Stop, commandVars
  <2>3. \/ disturbed' = disturbed
        \/ \E c \in Commands : Rename(c)
    BY DEF CommandsNext, BeginPack, BeginComposition, BeginOrchestrator, Begin, MakeDirectory,
       WriteBeside, Finish, Stop, commandVars
  <2>4. ASSUME NEW c \in Commands, Rename(c) PROVE disturbed' \subseteq Commands
    <3> DEFINE f == Targets(c)[next[c] + 1]
    <3>1. f \in Files
      <4>1. next[c] \in Nat /\ next[c] < Len(Targets(c)) /\ Len(Targets(c)) \in {2, 3}
        BY <2>4, TargetsAreFiles DEF Rename, CommandsInv, Shapes, WritesInOrder
      <4>2. next[c] + 1 \in 1 .. Len(Targets(c))
        BY <4>1
      <4> QED
        BY <4>2, TargetsAreFiles
    <3>2. disturbed' = IF disk[f] \in {None, c} THEN disturbed ELSE disturbed \cup {disk[f]}
      BY <2>4 DEF Rename
    <3> HIDE DEF f
    <3>3. disk[f] \in Commands \cup {None}
      BY <3>1 DEF CommandsInv, Shapes
    <3> QED
      BY <3>2, <3>3
  <2> QED
    BY <2>1, <2>2, <2>3, <2>4
<1>3. CommandsInv /\ Orders => CommandsTypeOK
  <2> SUFFICES ASSUME CommandsInv, Orders PROVE CommandsTypeOK
    OBVIOUS
  <2>1. \A c \in Commands : next[c] \in 0 .. Len(Targets(c))
    BY DEF CommandsInv, WritesInOrder
  <2>2. phase \in [Commands -> {"idle", "checked", "writing", "renaming"} \cup Exits]
    <3>1. {"idle"} \cup HasBegun \cup Exits = {"idle", "checked", "writing", "renaming"} \cup Exits
      BY DEF HasBegun
    <3> QED
      BY <3>1 DEF CommandsInv, Shapes
  <2> QED
    BY <2>1, <2>2 DEF CommandsInv, Shapes, CommandsTypeOK
<1> HIDE DEF Orders
<1> QED
  BY <1>1, <1>2, <1>3, CommandsInvInvariant, PTL DEF CommandsSpec

(* A document is of names, whatever is written of it.                        *)
DocumentParts ==
  {"fields", "states", "intents", "initial", "actions", "uses", "guards", "guarded", "moves"}
WrittenMoves == [from : Names, to : Names, when : Conditions]

DocumentInv ==
  /\ DOMAIN document = DocumentParts
  /\ \A k \in Doc!Listed : document[k] \in Seq(Names)
  /\ document.initial \in Names
  /\ document.moves \in Seq(WrittenMoves)

LEMMA DocumentStarts ==
  ASSUME Doc!NamesAssumption, Doc!DocumentInit PROVE DocumentInv
<1>1. FirstName \in Names
  BY DEF Doc!NamesAssumption
<1>2. <<>> \in Seq(Names) /\ <<FirstName>> \in Seq(Names) /\ <<>> \in Seq(WrittenMoves)
  BY <1>1
<1>3. document = [fields |-> <<>>, states |-> <<FirstName>>, intents |-> <<>>,
                  initial |-> FirstName, actions |-> <<>>, uses |-> <<>>, guards |-> <<>>,
                  guarded |-> <<>>, moves |-> <<>>]
  BY DEF Doc!DocumentInit
<1> QED
  BY <1>1, <1>2, <1>3 DEF DocumentInv, DocumentParts, Doc!Listed

LEMMA DocumentSteps == DocumentInv /\ [Doc!DocumentNext]_document => DocumentInv'
<1> SUFFICES ASSUME DocumentInv, [Doc!DocumentNext]_document PROVE DocumentInv'
  OBVIOUS
<1>1. /\ DOMAIN document = DocumentParts
      /\ \A k \in Doc!Listed : document[k] \in Seq(Names)
      /\ document.initial \in Names /\ document.moves \in Seq(WrittenMoves)
  BY DEF DocumentInv
<1>2. ASSUME NEW k \in DocumentParts, NEW v,
             document' = [document EXCEPT ![k] = v],
             k \in Doc!Listed => v \in Seq(Names),
             k = "initial" => v \in Names,
             k = "moves" => v \in Seq(WrittenMoves)
      PROVE  DocumentInv'
  <2>1. DOMAIN document' = DocumentParts
    BY <1>1, <1>2
  <2>2. \A j \in DocumentParts : document'[j] = IF j = k THEN v ELSE document[j]
    BY <1>1, <1>2
  <2>3. \A j \in Doc!Listed : j \in DocumentParts
    BY DEF Doc!Listed, DocumentParts
  <2>4. document'["initial"] \in Names
    BY <1>1, <1>2, <2>2 DEF DocumentParts
  <2>5. document'["moves"] \in Seq(WrittenMoves)
    BY <1>1, <1>2, <2>2 DEF DocumentParts
  <2>6. \A j \in Doc!Listed : document'[j] \in Seq(Names)
    BY <1>1, <1>2, <2>2, <2>3
  <2> QED
    BY <2>1, <2>4, <2>5, <2>6 DEF DocumentInv, Doc!Listed
<1>3. CASE Doc!WriteName
  <2>1. PICK k \in Doc!Listed, n \in Names :
          document' = [document EXCEPT ![k] = Append(document[k], n)]
    BY <1>1, <1>3 DEF Doc!WriteName, Doc!Write
  <2>2. Append(document[k], n) \in Seq(Names)
    BY <1>1, AppendKeeps
  <2>3. k \in DocumentParts /\ k # "initial" /\ k # "moves"
    BY DEF Doc!Listed, DocumentParts
  <2> QED
    BY <1>2, <2>1, <2>2, <2>3
<1>4. CASE Doc!WriteReference
  <2>1. PICK k \in {"uses", "guarded"}, n \in Names :
          document' = [document EXCEPT ![k] = Append(document[k], n)]
    BY <1>1, <1>4 DEF Doc!WriteReference, Doc!Write
  <2>2. /\ k \in DocumentParts /\ k # "initial" /\ k # "moves" /\ k \notin Doc!Listed
    BY DEF Doc!Listed, DocumentParts
  <2> QED
    BY <1>2, <2>1, <2>2
<1>5. CASE Doc!WriteMove
  <2>1. PICK s \in Doc!Range(document.states), t \in Names, c \in Conditions :
          document' = [document EXCEPT !["moves"] =
                         Append(document["moves"], [from |-> s, to |-> t, when |-> c])]
    BY <1>1, <1>5 DEF Doc!WriteMove, Doc!Write
  <2>2. s \in Names
    <3>1. document["states"] \in Seq(Names)
      BY <1>1 DEF Doc!Listed
    <3> QED
      BY <3>1 DEF Doc!Range
  <2>3. [from |-> s, to |-> t, when |-> c] \in WrittenMoves
    BY <2>2 DEF WrittenMoves
  <2>4. Append(document["moves"], [from |-> s, to |-> t, when |-> c]) \in Seq(WrittenMoves)
    BY <1>1, <2>3, AppendKeeps
  <2>5. "moves" \in DocumentParts /\ "moves" \notin Doc!Listed
    BY DEF Doc!Listed, DocumentParts
  <2> QED
    BY <1>2, <2>1, <2>4, <2>5
<1>6. CASE Doc!SetInitial
  <2>1. PICK n \in Names : document' = [document EXCEPT !["initial"] = n]
    BY <1>6 DEF Doc!SetInitial, Doc!Write
  <2>2. "initial" \in DocumentParts /\ "initial" \notin Doc!Listed
    BY DEF Doc!Listed, DocumentParts
  <2> QED
    BY <1>2, <2>1, <2>2
<1>7. CASE UNCHANGED document
  BY <1>1, <1>7 DEF DocumentInv
<1> QED
  BY <1>3, <1>4, <1>5, <1>6, <1>7 DEF Doc!DocumentNext

LEMMA DocumentTypes == DocumentInv => Doc!DocumentTypeOK
<1> SUFFICES ASSUME DocumentInv PROVE Doc!DocumentTypeOK
  OBVIOUS
<1>1. ASSUME NEW m \in Doc!Range(document.moves) PROVE {m.from, m.to} \subseteq Names
  <2>1. document.moves \in Seq(WrittenMoves)
    BY DEF DocumentInv
  <2>2. m \in WrittenMoves
    BY <2>1 DEF Doc!Range
  <2> QED
    BY <2>2 DEF WrittenMoves
<1> QED
  BY <1>1 DEF DocumentInv, Doc!DocumentTypeOK

(* For any catalog, texts, slots, profiles, configurations, inputs of        *)
(* commands and drafts: what every part keeps stays what the code takes it   *)
(* for, whichever of them moves.                                             *)
THEOREM AuthorsKeepTheirTypes ==
  ASSUME TextsAssumption, CasesAssumption, NoneAssumption, AgentsAssumption,
         CommandsAssumption, CreatorAssumption, Doc!NamesAssumption
  PROVE  Spec => []AuthoringTypeOK
<1>1. StudioSpec => []StudioTypeOK
  <2>1. StudioInv => StudioTypeOK
    BY DEF StudioInv
  <2> QED
    BY <2>1, StudioOpens, StudioSteps, PTL DEF StudioSpec
<1>2. WorkbenchSpec => []WorkbenchTypeOK
  <2>1. WorkbenchInv => WorkbenchTypeOK
    BY DEF WorkbenchInv
  <2> QED
    BY <2>1, WorkbenchBegins, WorkbenchSteps, PTL DEF WorkbenchSpec
<1>3. OrchestratorSpec => []OrchestratorTypeOK
  <2>1. OrchestratorInv => OrchestratorTypeOK
    BY DEF OrchestratorInv
  <2> QED
    BY <2>1, OrchestratorKept, OrchestratorAssumption, PTL
<1>4. CreatorSpec => []CreatorTypeOK
  <2>1. CreatorInv => CreatorTypeOK
    BY DEF CreatorInv
  <2> QED
    BY <2>1, CreatorOpens, CreatorSteps, PTL DEF CreatorSpec
<1>5. DraftSpec => []DraftTypeOK
  <2>1. DraftInv => DraftTypeOK
    BY DEF DraftInv
  <2> QED
    BY <2>1, DraftsAlwaysInv, PTL
<1>6. Doc!DocumentInit /\ [][Doc!DocumentNext]_document => []Doc!DocumentTypeOK
  BY DocumentStarts, DocumentSteps, DocumentTypes, PTL
<1>7. /\ ~ Moving("studio") => (part = "studio" => StudioTypeOK)
      /\ ~ Moving("workbench") => (part = "workbench" => WorkbenchTypeOK)
      /\ ~ Moving("agents") => (part = "agents" => AgentTypeOK)
      /\ ~ Moving("commands") => (part = "commands" => CommandsTypeOK)
  BY DEF Moving
<1>8. Spec => [](part = "studio" => StudioTypeOK)
  BY <1>1, <1>7, AuthorsBehave, PTL
<1>9. Spec => [](part = "workbench" => WorkbenchTypeOK)
  BY <1>2, <1>7, AuthorsBehave, PTL
<1>10. Spec => [](part = "agents" => AgentTypeOK)
  BY <1>7, AgentsKeepTheirTypes, AuthorsBehave, PTL
<1>11. Spec => [](part = "commands" => CommandsTypeOK)
  BY <1>7, CommandsKeepTheirTypes, AuthorsBehave, PTL
<1> QED
  BY <1>3, <1>4, <1>5, <1>6, <1>8, <1>9, <1>10, <1>11, PlansKeepTheirTypes, AuthorsBehave, PTL
     DEF AuthoringTypeOK

(* What is proved of each part holds of the parts together.                  *)
THEOREM AuthorsKeepTheirPromises ==
  ASSUME TextsAssumption, CasesAssumption, NoneAssumption, AgentsAssumption,
         CommandsAssumption, CreatorAssumption
  PROVE  Spec =>
           /\ []PlansCompileWhole /\ []DocumentsAreSound
           /\ []CreatorShowsItsConfig /\ []DraftsMakeAgents
           /\ Moving("studio") => []StudioShowsWhatRan
           /\ Moving("workbench") => []WorkbenchShowsSelection
           /\ Moving("agents") => []AgentsDecideAsConfigured
           /\ Moving("commands") => []CommandsWriteWhole
BY AuthorsBehave, PlansAlwaysCompileWhole, DocumentsAreAlwaysSound, OrchestratorAssumption,
   CreatorAlwaysShowsItsConfig, DraftsAlwaysMakeAgents, StudioAlwaysShowsWhatRan,
   WorkbenchAlwaysShowsSelection, AgentsAlwaysDecide, CommandsAlwaysWriteWhole

=============================================================================
