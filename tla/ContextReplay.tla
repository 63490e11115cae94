---------------------------- MODULE ContextReplay ----------------------------
(***************************************************************************)
(* The context of a run against its reconstruction from the trace. The     *)
(* runtime merges the patch of an action field by field                    *)
(* (packages/runtime/src/context-merge.ts) and reports it as contextDelta; *)
(* buildContextDiffFramesFromEvents (packages/trace/src/context-diff.ts)   *)
(* starts from the input of run.started and applies the deltas.            *)
(*                                                                         *)
(* A value is its type tag and its content; the content of an object is    *)
(* the set of its properties, so {...a, ...b} is the union.                *)
(***************************************************************************)
EXTENDS Naturals, Sequences, FiniteSets, SequencesExt

CONSTANTS
  Fields,
  Values,      \* what patches put into a field
  Patches,     \* sequences of [field, value], in the order of Object.entries
  Inputs,      \* contexts a caller passes
  Defaults,    \* contexts of default values in specifications
  MaxPatches,  \* actions of a run
  MaxResumptions

NoField == [tag |-> "undefined", content |-> {}]
Null == [tag |-> "null", content |-> {}]

VARIABLES
  policy,    \* ContextMergePolicy
  beginning, \* input.context in run.started
  context,   \* the context of the run
  deltas,    \* contextDelta of the action.succeeded events
  records,   \* patches in the idempotency store
  refused,   \* patches that were refused in this run or one it resumes
  blurred,   \* fields whose last change the trace does not tell
  ended, resumptions

replayVars ==
  <<policy, beginning, context, deltas, records, refused, blurred, ended, resumptions>>

(* Nothing but undefined has the type tag of undefined, and so for null.    *)
AllValues ==
  {NoField, Null} \cup [tag : {"array", "string", "object"},
                       content : SUBSET UNION {v.content : v \in Values}]

Policy == [strategy : {"shallow", "shallow_object_merge"}, allowNull : BOOLEAN]

ReplayTypeOK ==
  /\ policy \in Policy
  /\ beginning \in Inputs /\ context \in [Fields -> AllValues]
  /\ deltas \in Seq(Patches) /\ records \subseteq Patches /\ refused \subseteq Patches
  /\ blurred \subseteq Fields /\ ended \in BOOLEAN /\ resumptions \in 0 .. MaxResumptions

(* Object.entries gives each field of a patch once.                         *)
ASSUME ReplayAssumption ==
  /\ Values \subseteq AllValues
  /\ Patches \subseteq Seq([field : Fields, value : Values])
  /\ \A patch \in Patches : \A i, j \in DOMAIN patch :
       patch[i].field = patch[j].field => i = j
  /\ Inputs \cup Defaults \subseteq [Fields -> AllValues]
  /\ MaxResumptions \in Nat

-----------------------------------------------------------------------------
FieldRefused(existing, incoming) ==
  \/ incoming.tag = "undefined"
  \/ incoming = Null /\ ~ policy.allowNull
  \/ existing # NoField /\ existing.tag # incoming.tag

ObjectsMerge(existing, incoming) ==
  policy.strategy = "shallow_object_merge" /\ existing.tag = "object" /\ incoming.tag = "object"

MergedField(existing, incoming) ==
  IF ObjectsMerge(existing, incoming)
    THEN [tag |-> "object", content |-> existing.content \cup incoming.content]
    ELSE incoming

(* mergeContextPatch goes through the entries up to the first it refuses,   *)
(* and leaves the earlier ones in the context.                              *)
Refusals(patch) == {i \in DOMAIN patch : FieldRefused(context[patch[i].field], patch[i].value)}

Touches(entries, f) == \E i \in DOMAIN entries : entries[i].field = f
ValueFor(entries, f) == entries[CHOOSE i \in DOMAIN entries : entries[i].field = f].value

Merged(entries) ==
  [f \in Fields |-> IF Touches(entries, f)
                    THEN MergedField(context[f], ValueFor(entries, f)) ELSE context[f]]

(* applyDelta of the replay.                                                *)
MergeDelta(c, delta) ==
  [f \in Fields |->
     IF ~ Touches(delta, f) THEN c[f]
     ELSE IF ValueFor(delta, f) = Null THEN NoField
     ELSE [ValueFor(delta, f) EXCEPT !.content = @ \cup c[f].content]]

ApplyDelta(c, delta) ==
  [f \in Fields |->
     IF ~ Touches(delta, f) THEN c[f]
     ELSE IF ValueFor(delta, f) = Null THEN NoField ELSE ValueFor(delta, f)]

Replayed(c, frames) ==
  LET after[n \in 0 .. Len(frames)] ==
        IF n = 0 THEN c ELSE ApplyDelta(after[n - 1], frames[n])
  IN  after[Len(frames)]

(* The after of the last context diff frame.                                *)
Rebuilt == Replayed(beginning, deltas)

-----------------------------------------------------------------------------
(* A fresh run: its context is the defaults overlaid with the input.        *)
ReplayStart(p, d, in) ==
  /\ policy = p /\ beginning = in
  /\ context = [f \in Fields |-> IF in[f] # NoField THEN in[f] ELSE d[f]]
  /\ blurred = {f \in Fields : in[f] = NoField /\ d[f] # NoField}
  /\ deltas = <<>> /\ records = {} /\ refused = {}
  /\ ended = FALSE /\ resumptions = 0

ReplayInit ==
  \E p \in Policy, d \in Defaults, in \in Inputs : ReplayStart(p, d, in)

Running == ~ ended /\ Len(deltas) < MaxPatches

(* An action succeeds: merge, record, report.                               *)
SucceedAction(patch) ==
  /\ Running /\ Refusals(patch) = {}
  /\ context' = Merged(patch)
  /\ deltas' = Append(deltas, patch)
  /\ records' = records \cup {patch}
  /\ blurred' = {f \in Fields :
       IF Touches(patch, f)
       THEN ValueFor(patch, f) = Null \/ (policy.strategy # "shallow" /\ context[f] # NoField)
       ELSE f \in blurred}
  /\ UNCHANGED <<policy, beginning, refused, ended, resumptions>>

(* A refused patch fails the run; nothing is reported of the fields that    *)
(* went in before.                                                          *)
RefusePatch(patch) ==
  /\ Running /\ Refusals(patch) # {}
  /\ LET entries == SubSeq(patch, 1, Min(Refusals(patch)) - 1)
     IN  /\ context' = Merged(entries)
         /\ blurred' = blurred \cup {f \in Fields : Touches(entries, f)}
  /\ refused' = refused \cup {patch} /\ ended' = TRUE
  /\ UNCHANGED <<policy, beginning, deltas, records, resumptions>>

(* An action whose key is on record reports its patch again and merges      *)
(* nothing: later patches may have overwritten it.                          *)
ReplayAction(patch) ==
  /\ Running /\ patch \in records
  /\ deltas' = Append(deltas, patch)
  /\ blurred' = blurred \cup {f \in Fields : Touches(patch, f)}
  /\ UNCHANGED <<policy, beginning, context, records, refused, ended, resumptions>>

(* resumeRun from the final snapshot: the context goes on, the trace is new *)
(* and names the input of the resuming call.                                *)
ResumeEnded(in) ==
  /\ ended /\ resumptions < MaxResumptions
  /\ beginning' = in /\ deltas' = <<>> /\ ended' = FALSE /\ resumptions' = resumptions + 1
  /\ blurred' = {f \in Fields : in[f] # context[f]}
  /\ UNCHANGED <<policy, context, records, refused>>

ReplayNext ==
  \/ \E patch \in Patches : SucceedAction(patch) \/ RefusePatch(patch) \/ ReplayAction(patch)
  \/ \E in \in Inputs : ResumeEnded(in)

ReplaySpec == ReplayInit /\ [][ReplayNext]_replayVars

-----------------------------------------------------------------------------
(* The replayed context is the context of the run but for the fields that   *)
(* took a default, came with the snapshot, were merged property by property *)
(* or set to null, belong to a patch that was refused later on, or were     *)
(* reported again by a replayed action; a whole value mends each of them.   *)
ReplayErrsOnlyWhere == \A f \in Fields \ blurred : Rebuilt[f] = context[f]

(* Resuming a run that failed on a patch cannot help, whatever is merged in *)
(* between: the same patch is refused again, half applied as it is.         *)
RefusalStands == \A patch \in refused : Refusals(patch) # {}

(* Over a run and all that resume it, a field never changes its type: what  *)
(* the guards and templates written for it rely on.                         *)
FieldTypeIsForLife ==
  [][\A f \in Fields : context[f] # NoField => context'[f].tag = context[f].tag]_replayVars

(* All three: what the trace tells of the context, what becomes of a        *)
(* refused patch, and of the type of a field.                               *)
ContextStands == [](ReplayErrsOnlyWhere /\ RefusalStands) /\ FieldTypeIsForLife

=============================================================================
