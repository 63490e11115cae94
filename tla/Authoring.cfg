SPECIFICATION Spec
CONSTANTS
  None = None
  Compositions = {"a", "b", "c"}
  Previewable = {"a", "b"}
  DemoCases <- CasesOf
  DefaultCase <- FirstCase
  MaxFlights = 3
  SlotChoices <- MCSlotChoices
  OverlayRefs <- MCOverlayRefs
  RouteChoices <- MCRouteChoices
  BindingRefs <- MCBindingRefs
  Pattern <- MCPattern
  ProductArchetypes = {"approval", "knowledge", "request", "intake"}
  CrossCuttingArchetypes = {"audit", "access"}
  SupportContexts <- MCSupportContexts
  MaxSlots = 3
  MaxOverlayRefs = 1
  MaxRefs = 1
  DeskSlots = {"desk", "policy", "stock"}
  DeskPrimary = "desk"
  RouteIds = {1, 2}
  RouteEffects <- MCRouteEffects
  PlanChoices <- MCPlanChoices
  ProfileChoices <- MCProfileChoices
  SlotProfiles <- MCSlotProfiles
  Bindings <- MCBindings
  Configs <- MCConfigs
  Outcomes = {"known", "odd"}
  Terminal <- MCTerminal
  NoResult = NoResult
  Forms = {f1, f2}
  Compiled = {c1}
  Typed = {f2}
  Broken = {f2}
  Defaults <- MCDefaults
  Switched = {"request"}
  MaxCompiles = 2
  Commands = {"one", "two"}
  GivenTo <- MCGivenTo
  Opening <- MCOpening
  Toggles = {"refund_request", "create_refund_request"}
  TagChoices <- MCTagChoices
  DefaultTags <- MCDefaultTags
  LlmDrafts <- MCLlmDrafts
  Provider = "ready"
CHECK_DEADLOCK FALSE
INVARIANTS AuthoringTypeOK StudioShowsWhatRan WorkbenchShowsSelection
  PlansCompileWhole DocumentsAreSound AgentsDecideAsConfigured
  CreatorShowsItsConfig CommandsWriteWhole WrittenIsMeant
