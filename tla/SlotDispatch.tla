----------------------------- MODULE SlotDispatch -----------------------------
(***************************************************************************)
(* One slot invocation inside the adapter (packages/scenario-orchestrator- *)
(* runtime-demo): the preflight over the actions of its agent, the          *)
(* registry that counts what is dispatched, the handlers of the run, and    *)
(* the result made of the run and of the counts (invokeCanonical). The run  *)
(* dispatches one action at a time and may give up on one that is still at  *)
(* work; that handler is not cancelled.                                     *)
(***************************************************************************)
EXTENDS Naturals

CONSTANTS Handlers,       \* the action ids the host has a handler for
          Referenced,     \* sets of action ids an agent may reference
          Classified,     \* what the host may classify: functions to levels
          Maximum,        \* the maximumAllowedLevel of the request
          MaxDispatches

VARIABLES referenced, levels,
  stage,       \* preflight, running, ended
  handler,     \* [1 .. MaxDispatches -> what became of each dispatch]
  counted,     \* highestExecutedLevel, effectCount, externalEffectsOccurred
  violation,   \* dispatchViolation, or "none"
  reply        \* what invokeCanonical returned, or why it threw

dispatchVars == <<referenced, levels, stage, handler, counted, violation, reply>>

Dispatches == 1 .. MaxDispatches
Levels == 0 .. 5     \* none, read, write, external, financial, approval

(* A side-effect level is one of the closed list of the contract.           *)
ASSUME DispatchAssumption ==
  MaxDispatches \in Nat /\ \A c \in Classified : \A a \in DOMAIN c : c[a] \in Levels

Unused == [action |-> "no action", phase |-> "unused", effect |-> FALSE, late |-> FALSE]
NoReply == [kind |-> "none", status |-> "none", level |-> 0, count |-> 0, external |-> FALSE]
FinalStates == {"absent", "done", "scenario_completed"}
RuntimeStatuses == {"completed", "handoff", "failed"}

DispatchTypeOK ==
  /\ referenced \in Referenced /\ levels \in Classified
  /\ stage \in {"preflight", "running", "ended"}
  /\ \A d \in Dispatches :
       /\ handler[d].action \in referenced \cup {"no action"}
       /\ handler[d].phase \in {"unused", "running", "returned", "threw", "refused"}
       /\ handler[d].effect \in BOOLEAN /\ handler[d].late \in BOOLEAN
  /\ counted \in [highest : Levels, count : Nat, external : BOOLEAN]
  /\ violation \in {"none", "unclassified", "level exceeded"}
  /\ reply.kind \in {"none", "threw", "result"}

DispatchInit ==
  /\ referenced \in Referenced /\ levels \in Classified
  /\ stage = "preflight"
  /\ handler = [d \in Dispatches |-> Unused]
  /\ counted = [highest |-> 0, count |-> 0, external |-> FALSE]
  /\ violation = "none" /\ reply = NoReply

-----------------------------------------------------------------------------

(* The closure is complete, and every referenced action is classified.      *)
PreflightPasses == referenced \subseteq Handlers /\ referenced \subseteq DOMAIN levels

Preflight ==
  /\ stage = "preflight"
  /\ IF PreflightPasses
     THEN stage' = "running" /\ UNCHANGED reply
     ELSE stage' = "ended" /\ reply' = [NoReply EXCEPT !.kind = "threw"]
  /\ UNCHANGED <<referenced, levels, handler, counted, violation>>

Busy == \E d \in Dispatches : handler[d].phase = "running"
NextFree(d) == handler[d].phase = "unused" /\ \A e \in 1 .. d - 1 : handler[e].phase # "unused"

(* A failed action ends the run: the adapter allows one attempt.            *)
Failed == \E d \in Dispatches : handler[d].phase \in {"threw", "refused"}

CountReturned(level) == UNCHANGED counted

(* What is counted before the handler runs.                                 *)
CountBegun(level) ==
  counted' = [counted EXCEPT !.highest = IF level > @ THEN level ELSE @,
                             !.count = IF level # 0 THEN @ + 1 ELSE @]

Begin(d, a, phase) == handler' = [handler EXCEPT ![d] = [@ EXCEPT !.action = a, !.phase = phase]]

Refuse(d, a, why) ==
  violation' = why /\ Begin(d, a, "refused") /\ UNCHANGED counted

Dispatch(d, a) ==
  /\ stage = "running" /\ ~ Busy /\ ~ Failed /\ NextFree(d) /\ a \in referenced
  /\ CASE a \notin DOMAIN levels -> Refuse(d, a, "unclassified")
       [] a \in DOMAIN levels /\ levels[a] > Maximum -> Refuse(d, a, "level exceeded")
       [] OTHER -> /\ CountBegun(levels[a]) /\ Begin(d, a, "running")
                   /\ UNCHANGED violation
  /\ UNCHANGED <<referenced, levels, stage, reply>>

(* The handler acts on the world, during the run or after it was given up.  *)
TakeEffect(d) ==
  /\ handler[d].phase = "running" /\ ~ handler[d].effect /\ levels[handler[d].action] >= 1
  /\ handler' = [handler EXCEPT ![d] = [@ EXCEPT !.effect = TRUE, !.late = stage = "ended"]]
  /\ UNCHANGED <<referenced, levels, stage, counted, violation, reply>>

(* A handler that returns reports the effect it had.                        *)
Return(d) ==
  /\ handler[d].phase = "running"
  /\ handler' = [handler EXCEPT ![d].phase = "returned"]
  /\ counted' = [counted EXCEPT !.external = @ \/ handler[d].effect]
  /\ UNCHANGED <<referenced, levels, stage, violation, reply>>

Throw(d) ==
  /\ handler[d].phase = "running"
  /\ handler' = [handler EXCEPT ![d].phase = "threw"]
  /\ UNCHANGED <<referenced, levels, stage, counted, violation, reply>>

-----------------------------------------------------------------------------

(* normalizeRuntimeResult's status.                                         *)
Normalized(status, timedOut) ==
  CASE status = "completed" -> "completed"
    [] status = "handoff" -> "handoff_required"
    [] OTHER -> IF timedOut THEN "timed_out" ELSE "failed"

(* No issue of validateSlotInvocationResult with what the adapter builds.   *)
ResultAccepted(result, final) ==
  /\ result.status = "completed" => final # "scenario_completed"
  /\ result.level <= Maximum
  /\ result.external => result.level # 0 /\ result.count # 0

Delivered(status, final, timedOut) ==
  LET result == [kind |-> "result", status |-> Normalized(status, timedOut),
                 level |-> counted.highest, count |-> counted.count,
                 external |-> counted.external]
  IN  IF \/ violation # "none"
         \/ status = "completed" /\ final = "absent"
         \/ ~ ResultAccepted(result, final)
      THEN [NoReply EXCEPT !.kind = "threw"]
      ELSE result

(* The run ends: by itself once no handler is at work, or because it gave   *)
(* up on the one that is.                                                   *)
EndRun(status, final, timedOut) ==
  /\ stage = "running"
  /\ Failed => status = "failed"
  /\ timedOut => status = "failed"
  /\ Busy => timedOut
  /\ stage' = "ended" /\ reply' = Delivered(status, final, timedOut)
  /\ UNCHANGED <<referenced, levels, handler, counted, violation>>

DispatchNext ==
  \/ Preflight
  \/ \E d \in Dispatches :
       \/ \E a \in UNION Referenced : Dispatch(d, a)
       \/ TakeEffect(d) \/ Return(d) \/ Throw(d)
  \/ \E s \in RuntimeStatuses, f \in FinalStates, t \in BOOLEAN : EndRun(s, f, t)

DispatchSpec == DispatchInit /\ [][DispatchNext]_dispatchVars

-----------------------------------------------------------------------------
Began == {d \in Dispatches : handler[d].phase \in {"running", "returned", "threw"}}

(* What the preflight let through is never stopped for lack of a            *)
(* classification while it runs.                                            *)
PreflightCovers == violation # "unclassified"

(* The summary of a delivered result owns up to every effect there was,     *)
(* except that it cannot know of one whose handler had not returned: it     *)
(* threw, or was still at work. Even those are in the count and below the   *)
(* level it declares.                                                       *)
SummaryOwnsUp ==
  reply.kind = "result" =>
    \A d \in Began :
      handler[d].effect =>
        /\ reply.count >= 1 /\ levels[handler[d].action] <= reply.level
        /\ reply.external \/ handler[d].phase = "threw" \/ reply.status = "timed_out"

(* Only a result that says timed_out can be followed by an effect of its    *)
(* slot.                                                                    *)
LateEffectsAreOfTimeouts ==
  reply.kind = "result" /\ (\E d \in Dispatches : handler[d].late)
    => reply.status = "timed_out"

(* One invocation: nothing the preflight let through lacks a                *)
(* classification, the summary of a result owns up to every effect it can   *)
(* know of, and only a result that says timed_out is followed by one.       *)
DispatchIsToldOf == PreflightCovers /\ SummaryOwnsUp /\ LateEffectsAreOfTimeouts

=============================================================================
