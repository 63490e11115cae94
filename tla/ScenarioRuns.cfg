SPECIFICATION FairScenarios
CONSTANTS
  a = a  b = b
  Callers = {a, b}
  Keys = {"k1", "k2", "k3"}
  Requests = {"claim", "claim-other", "claim-again", "refund"}
  KeyOf <- RequestKeys
  RunOf <- RequestRuns
  InputOf <- SameInput
  Slots <- DeskSlots
  Primary = "desk"
  Callable = {"policy", "stock"}
  Outcomes <- SlotOutcomes
  Unprojected = FALSE
  Routes <- DeskRoutes
  From <- RouteFrom
  OnOutcome <- RouteOutcome
  Priority <- RoutePriority
  Effect <- RouteEffect
  Target <- RouteTarget
  Resolvable = {"ask-policy", "ask-stock"}
  Bindings <- SlotBindings
  OverlayDecisions = {"allow"}
  SlotStatuses = {"completed", "failed"}
  MaxSlotInvocations = 3
  MaxRouteEvaluations = 3
  MaxBindingApplications = 1
  Nobody = Nobody
  Unset = Unset
CHECK_DEADLOCK FALSE
INVARIANTS RunsReportOnce
PROPERTIES OneScenarioPerKey ScenariosEnd
