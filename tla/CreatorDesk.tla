------------------------------ MODULE CreatorDesk ------------------------------
(***************************************************************************)
(* The Creator Workbench: the configuration being edited, the compile      *)
(* previews on their way and the answer that is shown, with what of it is  *)
(* in the DSL editor, the manual run of that on its way and what it said.  *)
(* The answers of the runner are those of PackConfigs; they are applied    *)
(* when they come, whatever the desk shows or the editor holds by then.    *)
(***************************************************************************)
EXTENDS Naturals, PackConfigs, Absence

CONSTANTS Defaults,    \* the configuration each archetype starts from
          Switched,    \* bound: the archetypes whose handoff the author switches
          MaxCompiles  \* bound on the previews in flight at once

Archetypes == DOMAIN Defaults
Fields == [source : {"defaultFromPack", "inferredByAI", "confirmedByUser", "migrated",
                     "requiredButMissing"},
           flagged : BOOLEAN]
Configurations ==
  [archetype : Archetypes \cup Known, rule : Fields, template : Fields,
   adapter : {"mock", "real_placeholder"}, marked : BOOLEAN, auto : {"read", "write"},
   publishable : BOOLEAN, environment : {"dev", "demo", "staging"} \cup Strict,
   handoff : BOOLEAN, capability : BOOLEAN, strategies : BOOLEAN, dsl : BOOLEAN]
Responses ==
  [of : Configurations, ok : BOOLEAN, gates : [GateNames -> Levels], error : Codes \cup {""}]

CreatorAssumption ==
  /\ "request" \in Archetypes
  /\ \A a \in Archetypes : Defaults[a] \in Configurations /\ Defaults[a].archetype = a
  /\ None \notin Configurations \cup Responses
  /\ MaxCompiles \in Nat

VARIABLES
  desk,       \* config
  shown,      \* response, or None
  failure,    \* error: none, refused by the compiler, or lost on the way
  loading,
  compiles,   \* the previews in flight: of which configuration, begun before a selection
  crossed,    \* an answer begun before the last selection has come after it
  sent,       \* compiledDslMeta, as the configuration it is of, or None
  trying,     \* what the click of the manual run in flight knew of the editor, or None
  manual      \* runPreviewEvidence: status and, while it counts, what it is about

creatorVars == <<desk, shown, failure, loading, compiles, crossed, sent, trying, manual>>

(* A run is of the configuration its click found in the editor, or of a     *)
(* text of no configuration. Once another configuration is sent it is       *)
(* overtaken, and what it still is of is left out.                          *)
Overtaken == [of |-> None, overtaken |-> TRUE]
Trial == [of : Configurations \cup {None}, overtaken : {FALSE}] \cup {Overtaken}

(* Evidence that counts for nothing is left bare.                           *)
Unproven(status) == [status |-> status, about |-> None]
NoEvidence == Unproven("none")

CreatorTypeOK ==
  /\ desk \in Configurations /\ desk.archetype \in Archetypes
  /\ shown \in Responses \cup {None}
  /\ failure \in {"", "refused", "lost"}
  /\ {loading, crossed} \subseteq BOOLEAN
  /\ compiles \in Seq([of : Configurations, before : BOOLEAN]) /\ Len(compiles) <= MaxCompiles
  /\ sent \in Configurations \cup {None}
  /\ trying \in Trial \cup {None}
  /\ manual \in [status : {"ready"}, about : Trial]
                 \cup [status : {"none", "failed", "stale"}, about : {None}]

Opens(c) ==
  /\ desk = c /\ shown = None /\ failure = "" /\ loading = FALSE /\ compiles = <<>>
  /\ crossed = FALSE /\ sent = None /\ trying = None /\ manual = NoEvidence

CreatorInit == Opens(Defaults["request"])

-----------------------------------------------------------------------------
Begun(flights) == [i \in DOMAIN flights |-> [flights[i] EXCEPT !.before = TRUE]]

(* setCreatorArchetype: from the defaults, with nothing shown; one that     *)
(* leaves the answer for the archetype before                               *)
SelectKeeping(a) ==
  /\ desk' = Defaults[a]
  /\ failure' = "" /\ loading' = FALSE /\ crossed' = FALSE /\ sent' = None
  /\ compiles' = Begun(compiles)
  /\ UNCHANGED <<shown, trying, manual>>
SelectArchetype(a) ==
  /\ desk' = Defaults[a]
  /\ shown' = None /\ failure' = "" /\ loading' = FALSE /\ crossed' = FALSE /\ sent' = None
  /\ compiles' = Begun(compiles)
  /\ UNCHANGED <<trying, manual>>

(* An edit confirms the field it changes and drops nothing else: not the    *)
(* flag it may carry, and not the answer that is shown.                     *)
Edit(c) ==
  /\ c # desk /\ desk' = c
  /\ UNCHANGED <<shown, failure, loading, compiles, crossed, sent, trying, manual>>

ToggleHandoff == desk.archetype \in Switched /\ Edit([desk EXCEPT !.handoff = ~@])
SetRule(valid) ==
  /\ valid \/ desk.archetype = "knowledge"    \* allowUnverifiedAnswer
  /\ Edit([desk EXCEPT !.rule.source = "confirmedByUser", !.dsl = valid])

(* onCompile, behind a button that waits for the preview it knows of        *)
Compile ==
  /\ desk.archetype \in Supported /\ ~loading /\ Len(compiles) < MaxCompiles
  /\ loading' = TRUE /\ failure' = ""
  /\ compiles' = Append(compiles, [of |-> desk, before |-> FALSE])
  /\ UNCHANGED <<desk, shown, crossed, sent, trying, manual>>

(* The answer, whose configuration nobody compares with the desk's          *)
Settle(i) ==
  /\ loading' = FALSE
  /\ compiles' = RemoveAt(compiles, i)
  /\ crossed' = (crossed \/ compiles[i].before)
  /\ UNCHANGED <<desk, sent, trying, manual>>

Answer(i) ==
  LET response == Response(compiles[i].of, "preview")
  IN  /\ shown' = response
      /\ failure' = IF response.ok THEN failure ELSE "refused"
      /\ Settle(i)

(* A runner that cannot be reached leaves the answer before standing.       *)
Lose(i) == failure' = "lost" /\ UNCHANGED shown /\ Settle(i)

(* The button of CompileArtifactsPanel: what ran before is stale, and the   *)
(* run in flight goes on.                                                   *)
Send ==
  /\ shown # None /\ shown.ok
  /\ sent' = shown.of
  /\ manual' = IF manual = NoEvidence THEN manual ELSE Unproven("stale")
  /\ trying' = IF trying = None THEN None ELSE Overtaken
  /\ UNCHANGED <<desk, shown, failure, loading, compiles, crossed>>

(* runCurrentPreview, behind a button that waits for the run before; what   *)
(* the editor asks of its text is in module Studio.                         *)
RunByHand ==
  /\ trying = None
  /\ trying' = [of |-> sent, overtaken |-> FALSE]
  /\ UNCHANGED <<desk, shown, failure, loading, compiles, crossed, sent, manual>>

(* recordRunPreviewEvidence names what the click found, whatever the editor *)
(* holds by now. An answer that is no JSON leaves the evidence as it was.   *)
RunSettles(evidence_) ==
  /\ trying # None
  /\ manual' = evidence_
  /\ trying' = None
  /\ UNCHANGED <<desk, shown, failure, loading, compiles, crossed, sent>>

RunSucceeds == RunSettles([status |-> "ready", about |-> trying])
RunFails    == RunSettles(Unproven("failed"))
RunIsUnread == RunSettles(manual)

CreatorNext ==
  \/ \E a \in Archetypes : SelectArchetype(a)
  \/ ToggleHandoff
  \/ \E valid \in BOOLEAN : SetRule(valid)
  \/ Compile
  \/ \E i \in DOMAIN compiles : Answer(i) \/ Lose(i)
  \/ Send
  \/ RunByHand \/ RunSucceeds \/ RunFails \/ RunIsUnread

CreatorSpec == CreatorInit /\ [][CreatorNext]_creatorVars

-----------------------------------------------------------------------------
(* displayedManualRuntimeGate and displayedOverall: the evidence is taken   *)
(* for the answer that is shown, whichever configuration it is of.          *)
DisplayedGates ==
  [shown.gates EXCEPT !.manual_runtime_run =
     CASE manual.status = "ready" -> "ready" [] manual.status = "failed" -> "blocked"
       [] OTHER -> "warning"]
DisplayedOverall == Overall(DisplayedGates)

(* An answer is shown with the archetype it was compiled for, and a refusal *)
(* with the answer that was refused, unless one begun before the last       *)
(* selection came after it (CreatorWorkbenchPanel.tsx:60).                  *)
ShownIsOfArchetype ==
  shown # None => shown.of.archetype = desk.archetype \/ crossed
RefusalIsOfShown ==
  failure = "refused" => (shown # None /\ ~shown.ok) \/ crossed

(* Whoever is told to wait waits for something.                             *)
LoadingHasFlight == loading => compiles # <<>>

(* Whatever was run by hand, what is shown is never called ready, and it is *)
(* blocked when the compiler refused it or the run failed.                  *)
NothingIsReady ==
  shown # None =>
    DisplayedOverall = IF shown.ok /\ manual.status # "failed" THEN "warning" ELSE "blocked"

(* What the editor holds was compiled, and evidence that counts is of what  *)
(* is in the editor, unless it was sent there while that run was in flight: *)
(* the answer names what the click found (studio-state.ts:279).             *)
SentWasCompiled ==
  /\ sent # None => Response(sent, "preview").ok
  /\ manual.status = "ready" /\ sent # None =>
       manual.about.of = sent \/ manual.about.overtaken

(* The Creator Workbench shows an answer and its refusal with the           *)
(* configuration's archetype, never calls one ready on the word of a run    *)
(* alone, sends the editor only what compiled, and takes no evidence of     *)
(* another configuration for it; each with the exception named above.       *)
CreatorShowsItsConfig ==
  /\ ShownIsOfArchetype /\ RefusalIsOfShown /\ LoadingHasFlight
  /\ NothingIsReady /\ SentWasCompiled

=============================================================================
