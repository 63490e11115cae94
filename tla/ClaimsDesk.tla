------------------------------ MODULE ClaimsDesk ------------------------------
(* An orchestrator document and requests for checking ScenarioEngine: a      *)
(* primary slot that may ask two supporting slots, one of them by a route    *)
(* that outranks another, and that completes, hands off or goes round.       *)
CONSTANT Requests

DeskSlots == {"desk", "policy", "stock"}
SlotOutcomes ==
  [s \in DeskSlots |-> CASE s = "desk"   -> {"unclear", "short", "done", "stuck"}
                         [] s = "policy" -> {"answered", "refused"}
                         [] s = "stock"  -> {"answered"}]

DeskRoutes == {"ask-policy", "ask-anyone", "ask-stock", "finish", "give-up", "policy-back",
               "policy-closed", "stock-back"}
RouteFrom ==
  [r \in DeskRoutes |->
     CASE r \in {"policy-back", "policy-closed"} -> "policy"
       [] r = "stock-back" -> "stock"
       [] OTHER -> "desk"]
RouteOutcome ==
  [r \in DeskRoutes |->
     CASE r \in {"ask-policy", "ask-anyone"} -> "unclear"
       [] r = "ask-stock" -> "short"
       [] r = "finish" -> "done"
       [] r = "give-up" -> "stuck"
       [] r \in {"policy-back", "stock-back"} -> "answered"
       [] r = "policy-closed" -> "refused"]
RouteEffect ==
  [r \in DeskRoutes |->
     CASE r \in {"ask-policy", "ask-anyone", "ask-stock"} -> "invoke_slot"
       [] r = "finish" -> "terminate"
       [] r = "give-up" -> "request_handoff"
       [] r \in {"policy-back", "stock-back"} -> "resume_caller"
       [] r = "policy-closed" -> "fail_closed"]
RouteTarget == [r \in DeskRoutes |-> IF r = "ask-stock" THEN "stock" ELSE "policy"]
RoutePriority == [r \in DeskRoutes |-> IF r = "ask-policy" THEN 20 ELSE 10]
SlotBindings == [s \in DeskSlots |-> CASE s = "desk" -> 0 [] s = "stock" -> 1 [] s = "policy" -> 2]

(* "claim-other" reuses the key of "claim" for other content, "claim-again"  *)
(* is the run and the input of "claim" under another key, and "refund" has a *)
(* key and a run of its own.                                                 *)
RequestKeys ==
  [q \in Requests |-> CASE q \in {"claim", "claim-other"} -> "k1"
                       [] q = "refund" -> "k2"
                       [] q = "claim-again" -> "k3"]
RequestRuns == [q \in Requests |-> IF q = "refund" THEN "run2" ELSE "run1"]
SameInput == [q \in Requests |-> "input"]

=============================================================================
