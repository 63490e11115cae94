--------------------------- MODULE ScenarioEvidence ---------------------------
(***************************************************************************)
(* The evidence of a scenario run: the summaries the engine keeps of its   *)
(* slot invocations, the bundle the run preview makes of summaries, trace, *)
(* result and budget (apps/builder-runner/src/scenario-run-preview.ts),    *)
(* and the validation without which there is neither bundle nor replay     *)
(* (packages/scenario-run-evidence-core). Hashes bind a bundle to its      *)
(* contents and are left out: bundles are not edited here.                 *)
(***************************************************************************)
EXTENDS ScenarioEngine

VARIABLE summaries   \* [Keys -> the slotInvocations of the result]

evidenceVars == <<scenarioVars, summaries>>

EvidenceInit == ScenarioInit /\ summaries = [k \in Keys |-> <<>>]

-----------------------------------------------------------------------------
Projecting(k) == exec[k].phase = "project" /\ exec'[k].phase # "project"

(* The summary is pushed once the projection has been evaluated, whether it *)
(* named an outcome or fails the run; one pushed only of an outcome loses   *)
(* the invocation whose projection failed.                                  *)
Summary(k) ==
  [index |-> Len(exec[k].visits), slot |-> exec[k].slot,
   outcome |-> IF exec'[k].phase = "route" THEN exec'[k].outcome ELSE Unset]

Summarized(k) == IF Projecting(k) THEN Append(summaries[k], Summary(k)) ELSE summaries[k]

EvidenceNext == ScenarioNext /\ summaries' = [k \in Keys |-> Summarized(k)]

EvidenceSpec == EvidenceInit /\ [][EvidenceNext]_evidenceVars

-----------------------------------------------------------------------------
(* What runCanonicalScenarioPreview puts together once a run has ended.     *)
Projections(k) ==
  {s \in {summaries[k][i] : i \in DOMAIN summaries[k]} : s.outcome # Unset}

(* The events of the trace, and the projections that stand in the timeline  *)
(* after the events of the invocations they were made of.                   *)
Timeline(k) ==
  LET trace == traces[RunIdOf(k)]
      completions == {i \in DOMAIN trace : trace[i] = "slot.completed"}
      nth(i) == Cardinality({j \in completions : j <= i})
  IN  [events |-> trace,
       evidence |-> {s \in Projections(k) : \E i \in completions : nth(i) = s.index}]

Bundle(k) ==
  [status |-> results[k], invocations |-> summaries[k], projections |-> Projections(k),
   timeline |-> Timeline(k), slotInvocations |-> Len(exec[k].visits)]

(* A projection refers to the invocation it was made of.                    *)
Resolves(bundle, projection) ==
  \E i \in DOMAIN bundle.invocations :
    /\ bundle.invocations[i].index = projection.index
    /\ bundle.invocations[i].slot = projection.slot
    /\ bundle.invocations[i].outcome = projection.outcome

ReferencesValid(bundle) ==
  /\ \A i \in DOMAIN bundle.invocations : bundle.invocations[i].index = i
  /\ bundle.slotInvocations = Len(bundle.invocations)
  /\ \A p \in bundle.projections \cup bundle.timeline.evidence : Resolves(bundle, p)

(* Two items or more: a projection stands after an event.                   *)
TimelineValid(bundle) ==
  LET events == bundle.timeline.events
  IN  /\ events # <<>> /\ (Len(events) >= 2 \/ bundle.timeline.evidence # {})
      /\ events[Len(events)] = TerminalEvent(bundle.status)

(* createScenarioRunEvidenceBundle throws otherwise, and the preview of the *)
(* run is answered with that error.                                         *)
EvidenceAccepted(k) == TimelineValid(Bundle(k)) /\ ReferencesValid(Bundle(k))

-----------------------------------------------------------------------------
(* A run that has ended can be shown with its evidence, failed projections, *)
(* denials and exhausted budgets included, unless a slot invocation failed: *)
(* that one is charged and has no summary, so the run that failed closed    *)
(* because of it is refused by the validation                               *)
(* (in-memory-scenario-orchestrator-engine.ts:240,                          *)
(* validate-evidence-bundle.ts:43).                                         *)
EvidenceUnlessSlotFailed ==
  \A k \in Keys : results[k] # Unset /\ OwnRun(k) =>
    (EvidenceAccepted(k) <=>
       \A i \in DOMAIN traces[RunIdOf(k)] : traces[RunIdOf(k)][i] # "slot.failed")

(* Calls and returns of a scenario stay matched, and the bundle made of a   *)
(* run that ended is accepted unless one of its slots failed.               *)
ScenariosAreTold == CallsNest /\ EvidenceUnlessSlotFailed

=============================================================================
