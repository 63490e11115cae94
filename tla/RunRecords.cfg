SPECIFICATION Spec
CONSTANTS
  r1 = r1  r2 = r2  q1 = q1  q2 = q2  p1 = p1  p2 = p2
  Runs = {r1, r2}
  Recorders = {q1, q2}
  MaxEvents = 3
  MaxBatch = 2
  Nothing = Nothing
  Fields <- MCFields
  Values <- MCValues
  Patches <- MCPatches
  Inputs <- MCInputs
  Defaults <- MCDefaults
  MaxPatches = 3
  MaxResumptions = 1
  MaxWritten = 9
  MaxTime = 1
  MaxLoads = 2
  Nil = Nil
  TraceFiles <- MCTraceFiles
  Owners = {p1, p2}
  MaxSnapshots = 3
  MaxTicks = 2
  Unread = Unread
  MaxCalls = 2
  MaxAttempts = 2
  None = None
  SkillDirs = {"d1", "d2", "d3"}
  MaxTries = 2
  MaxSkillCalls = 1
  MaxEdits = 1
  Absent = Absent
  SkillActions <- MCSkillActions
  SkillFiles <- MCSkillFiles
  Registry <- MCRegistry
  SearchPath <- MCSearchPath
  Callers = {p1}
  Keys = {"k1"}
  Requests = {"claim"}
  KeyOf <- RequestKeys
  RunOf <- RequestRuns
  InputOf <- SameInput
  Slots <- DeskSlots
  Primary = "desk"
  Callable = {"policy", "stock"}
  Outcomes <- SlotOutcomes
  Unprojected = TRUE
  Routes <- DeskRoutes
  From <- RouteFrom
  OnOutcome <- RouteOutcome
  Priority <- RoutePriority
  Effect <- RouteEffect
  Target <- RouteTarget
  Resolvable = {"ask-policy", "ask-stock"}
  Bindings <- SlotBindings
  OverlayDecisions = {"allow", "deny", "handoff"}
  SlotStatuses = {"completed", "handoff_required", "failed"}
  MaxSlotInvocations = 5
  MaxRouteEvaluations = 8
  MaxBindingApplications = 3
  Nobody = Nobody
  Unset = Unset
CHECK_DEADLOCK FALSE
INVARIANTS TypeOK TracesTellRuns SnapshotsAreKept SkillsAreChecked ScenariosAreTold
PROPERTIES EventsAreKept ContextStands AnswersCountOnce EveryCallEnds
