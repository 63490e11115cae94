------------------------------- MODULE Studio -------------------------------
(***************************************************************************)
(* The state of the Studio's DSL editor: the text in the buffer, what the  *)
(* runner said of it, the artifact it was compiled from, the source a Run  *)
(* Preview takes and the evidence a preview left.  The two requests to the *)
(* runner are asynchronous: the user keeps editing while they are in       *)
(* flight, and an answer is applied to the state it finds.                 *)
(***************************************************************************)
EXTENDS FiniteSets, Absence

CONSTANTS Forms,      \* configurations of the builder, named by the DSL they generate
          Compiled,   \* texts the Creator or a scenario slot sends to the editor
          Typed,      \* texts the user writes
          Broken      \* the texts the runner does not accept

Texts == Forms \cup Compiled \cup Typed

TextsAssumption == Broken \subseteq Texts /\ None \notin Texts

VARIABLES
  form,        \* formState, as generatedDsl
  buffer,      \* dslBuffer
  inspected,   \* dslInspectResult: the text the answer is about and its verdict, or None
  lastValid,   \* lastValidDslSpec, as the text it is the canonical form of, or None
  meta,        \* compiledDslMeta: the artifact's text and whether it was inspected, or None
  mode,        \* sourceMode
  applied,     \* dslApplied
  drifted,     \* builderChangedWhileDslActive
  evidence,    \* runPreviewEvidence: status, the text and the artifact it is about, or None
  inspecting,  \* the text of the inspect request in flight (dslInspectLoading), or None
  running,     \* what the render of the click knew of the run in flight (runLoading), or None
  strayed,     \* since the buffer was last set, an answer about another text was applied
  source       \* the form the builder had when the run source was last applied

studioVars ==
  <<form, buffer, inspected, lastValid, meta, mode, applied, drifted, evidence,
    inspecting, running, strayed, source>>

InspectedOk(result) == result # None /\ result.ok

(* What a preview knew of the editor when the user started it; `touched`    *)
(* tells whether the buffer was set since.                                  *)
Click ==
  [mode : {"builder", "dsl"}, text : Texts, ok : BOOLEAN, applied : BOOLEAN,
   valid : Texts \cup {None}, meta : Compiled \cup {None}, displaced : BOOLEAN,
   strayed : BOOLEAN, touched : BOOLEAN]

(* What evidence that counts is about: the text that ran and the artifact   *)
(* it names; failed or stale evidence counts for nothing and is left bare.  *)
About ==
  [text : Texts, names : Compiled \cup {None}, displaced : BOOLEAN, touched : BOOLEAN]

Bare(status) == [status |-> status, about |-> None]

StudioTypeOK ==
  /\ {form, source} \subseteq Forms
  /\ buffer \in Texts
  /\ inspected \in [text : Texts, ok : BOOLEAN] \cup {None}
  /\ lastValid \in Texts \cup {None}
  /\ meta \in [text : Compiled, inspected : BOOLEAN, displaced : BOOLEAN] \cup {None}
  /\ mode \in {"builder", "dsl"}
  /\ {applied, drifted, strayed} \subseteq BOOLEAN
  /\ evidence \in {None} \cup [status : {"ready"}, about : About]
                  \cup [status : {"failed", "stale"}, about : {None}]
  /\ inspecting \in Texts \cup {None}
  /\ running \in Click \cup {None}

-----------------------------------------------------------------------------
Opened(f) ==
  /\ form = f /\ source = f /\ buffer = f
  /\ inspected = None /\ lastValid = None /\ meta = None
  /\ mode = "builder"
  /\ applied = FALSE /\ drifted = FALSE /\ strayed = FALSE
  /\ evidence = None /\ inspecting = None /\ running = None

StudioInit == \E f \in Forms : Opened(f)

(* Whatever puts a text in the buffer drops what was known of the old one;  *)
(* an editor that kept the last valid text would run the new one unseen.    *)
BufferIs(t, result, valid) ==
  /\ buffer' = t
  /\ inspected' = result
  /\ lastValid' = valid
  /\ strayed' = FALSE
  /\ running' = IF running = None THEN None ELSE [running EXCEPT !.touched = TRUE]

SetBufferOnly(t) == BufferIs(t, None, lastValid)
SetBuffer(t) == BufferIs(t, None, None)

(* Every evidence, a failed one too, is stale once the text changes.        *)
Staled == IF evidence = None THEN None ELSE Bare("stale")
Waiting(t) == [text |-> t, inspected |-> FALSE, displaced |-> FALSE]

-----------------------------------------------------------------------------
(* The user changes the form (or applies a draft to it) and the effect on   *)
(* generatedDsl runs: it follows the form in builder mode only, and forgets *)
(* neither the artifact nor the evidence of the text it replaces.           *)
EditForm(f) ==
  /\ f # form
  /\ form' = f
  /\ IF mode = "builder"
     THEN /\ SetBuffer(f)
          /\ drifted' = FALSE
          /\ meta' = IF meta = None THEN None ELSE [meta EXCEPT !.displaced = TRUE]
     ELSE /\ drifted' = TRUE
          /\ UNCHANGED <<buffer, inspected, lastValid, strayed, running, meta>>
  /\ UNCHANGED <<mode, applied, evidence, inspecting, source>>

Replace(t, artifact, proof) ==
  /\ SetBuffer(t)
  /\ applied' = FALSE
  /\ meta' = artifact
  /\ evidence' = proof
  /\ UNCHANGED <<form, mode, drifted, inspecting, source>>

(* updateDslBuffer                                                          *)
Type(t) == t # buffer /\ Replace(t, None, Staled)

(* sendCompiledDslToEditor: the source mode stays what it was               *)
SendCompiled(t) == Replace(t, Waiting(t), Staled)

(* resetCompiledDslMetadata, on a change of the Creator's archetype         *)
ForgetArtifact ==
  /\ meta' = None
  /\ UNCHANGED <<form, buffer, inspected, lastValid, mode, applied, drifted, evidence,
                 inspecting, running, strayed, source>>

ResetFromBuilder ==
  /\ SetBuffer(form)
  /\ mode' = "builder"
  /\ applied' = FALSE
  /\ meta' = None
  /\ evidence' = None
  /\ drifted' = FALSE
  /\ UNCHANGED <<form, inspecting, source>>

-----------------------------------------------------------------------------
(* Both inspect buttons are disabled while an inspect is in flight.         *)
Inspect ==
  /\ inspecting = None
  /\ inspecting' = buffer
  /\ UNCHANGED <<form, buffer, inspected, lastValid, meta, mode, applied, drifted,
                 evidence, running, strayed, source>>

(* The answer, or the error of a runner that could not be reached, becomes  *)
(* the verdict on whatever the buffer holds by now.                         *)
InspectAnswer(reached) ==
  /\ inspecting # None
  /\ LET ok == reached /\ inspecting \notin Broken
     IN  /\ inspected' = [text |-> inspecting, ok |-> ok]
         /\ lastValid' = IF ok THEN inspecting ELSE lastValid
         /\ meta' = IF ok /\ meta # None THEN [meta EXCEPT !.inspected = TRUE] ELSE meta
         /\ strayed' = (strayed \/ inspecting # buffer)
  /\ inspecting' = None
  /\ UNCHANGED <<form, buffer, mode, applied, drifted, evidence, running, source>>

(* applyDslAsRunSource: its button waits for a successful inspect.          *)
Apply ==
  /\ InspectedOk(inspected)
  /\ lastValid' = inspected.text
  /\ mode' = "dsl"
  /\ applied' = TRUE
  /\ drifted' = FALSE
  /\ source' = form
  /\ UNCHANGED <<form, buffer, inspected, meta, evidence, inspecting, running, strayed>>

-----------------------------------------------------------------------------
(* RunDebugPanel's button and the guards of runCurrentPreview.              *)
MayRun ==
  /\ running = None
  /\ mode = "dsl" => lastValid # None
  /\ meta # None => meta.inspected

Run ==
  /\ MayRun
  /\ running' =
       [mode |-> mode, text |-> IF mode = "dsl" THEN buffer ELSE form,
        ok |-> InspectedOk(inspected), applied |-> applied, valid |-> lastValid,
        meta |-> IF meta = None THEN None ELSE meta.text,
        displaced |-> meta # None /\ meta.displaced,
        strayed |-> strayed, touched |-> FALSE]
  /\ UNCHANGED <<form, buffer, inspected, lastValid, meta, mode, applied, drifted,
                 evidence, inspecting, strayed, source>>

(* recordRunPreviewEvidence and the catch of runCurrentPreview judge by     *)
(* what the render of the click knew, not by what the editor holds now.     *)
RunAnswer(ok) ==
  /\ running # None
  /\ ok => running.text \notin Broken
  /\ evidence' =
       IF /\ ok /\ running.mode = "dsl" /\ running.ok
          /\ running.meta # None \/ running.valid # None
       THEN [status |-> "ready",
             about |-> [text |-> running.text, names |-> running.meta,
                        displaced |-> running.displaced, touched |-> running.touched]]
       ELSE Bare("failed")
  /\ running' = None
  /\ UNCHANGED <<form, buffer, inspected, lastValid, meta, mode, applied, drifted,
                 inspecting, strayed, source>>

(* An answer that is no JSON is taken for a mistake in the input: the       *)
(* evidence stays as it was.                                                *)
RunUnread ==
  /\ running # None
  /\ running' = None
  /\ UNCHANGED <<form, buffer, inspected, lastValid, meta, mode, applied, drifted,
                 evidence, inspecting, strayed, source>>

StudioNext ==
  \/ \E f \in Forms : EditForm(f)
  \/ \E t \in Typed : Type(t)
  \/ \E t \in Compiled : SendCompiled(t)
  \/ ForgetArtifact
  \/ ResetFromBuilder
  \/ Inspect
  \/ \E reached \in BOOLEAN : InspectAnswer(reached)
  \/ Apply
  \/ Run
  \/ \E ok \in BOOLEAN : RunAnswer(ok)
  \/ RunUnread

StudioSpec == StudioInit /\ [][StudioNext]_studioVars

-----------------------------------------------------------------------------
(* A preview of the DSL source runs a text the runner has accepted, unless  *)
(* an inspect was in flight when that text came into the buffer: the answer *)
(* about the text before it then counts for it (studio-state.ts:186).       *)
RunsInspectedText ==
  running # None /\ running.mode = "dsl" =>
    running.text = running.valid \/ running.strayed

Counts == evidence # None /\ evidence.status = "ready"

(* Evidence that counts is about the text in the editor, unless the buffer  *)
(* was set while that preview ran (studio-state.ts:279).                    *)
EvidenceFitsEditor ==
  Counts => evidence.about.text = buffer \/ evidence.about.touched

(* The artifact the evidence names is the text that ran, unless the form    *)
(* took the buffer from the artifact, whose metadata stays                  *)
(* (studio-state.ts:151).                                                   *)
EvidenceNamesItsText ==
  Counts /\ evidence.about.names # None =>
    evidence.about.names = evidence.about.text \/ evidence.about.displaced

(* While the DSL is the run source, a builder that has moved on since that  *)
(* source was applied is announced.                                         *)
DriftIsAnnounced == mode = "dsl" /\ form # source => drifted

(* The studio previews inspected text, its evidence fits the editor and     *)
(* names the text that ran, and a builder that moved on is announced; each  *)
(* with the exception named above.                                          *)
StudioShowsWhatRan ==
  RunsInspectedText /\ EvidenceFitsEditor /\ EvidenceNamesItsText /\ DriftIsAnnounced

(* README.md:163: compiled DSL must be inspected and manually applied       *)
(* before Run Preview.                                                      *)
CompiledRunsOnceApplied ==
  running # None /\ running.mode = "dsl" /\ running.text \in Compiled => running.applied

=============================================================================
