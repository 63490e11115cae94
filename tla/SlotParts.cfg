SPECIFICATION PartsSpec
CONSTANTS
  firstCaller = firstCaller  secondCaller = secondCaller  thirdCaller = thirdCaller
  Callers = {firstCaller, secondCaller, thirdCaller}
  Keys = {"k1", "k2", "k3"}
  Requests = {"complaint", "complaint-late", "policy", "unready", "forged"}
  KeyOf <- RequestKey
  Malformed = {"forged"}
  Unready = {"unready"}
  RuntimeOutcomes <- AnyOutcome
  Nobody = Nobody
  Unset = Unset
  Handlers = {"look", "pay", "sign"}
  Referenced <- MCReferenced
  Classified <- MCClassified
  Maximum = 3
  MaxDispatches = 3
  SlotPaths = {"p1", "p2"}
  Agents = {"g1", "g2"}
  ActionIds = {"pay", "look"}
  Hashes = {"h1", "h2"}
  ActionsOf <- MCActionsOf
  SlotRef <- MCSlotRef
  MaxChanges = 3
  Missing = Missing
  ActionNames = {"pay"}
  Classes = {"external", "write"}
  Environments = {"dev", "prod"}
  EnvironmentSets <- MCEnvironmentSets
  Caps = {1}
  NoCap = NoCap
  MaxCalls = 1
  MaxRules = 3
  RuleChoices <- MCRuleChoices
  AcceptedSets <- MCAcceptedSets
  MaxContractRules = 3
  OverlayChoices <- MCOverlayChoices
  AdapterModes = {"demo_only", "contract_only"}
  MaxOverlays = 2
  FieldNames = {"a", "b", "c", "d", "x", "y", "z", "w"}
  BindingChoices <- MCBindingChoices
  Outputs <- MCOutputs
  CallerInputs <- MCCallerInputs
  MaxBindings = 3
  MaxReturns = 2
  MaxApplications = 5
CHECK_DEADLOCK FALSE
INVARIANTS PartsTypeOK FlagMeansRunning DispatchIsToldOf
  LostOnlyByOverlap CreatedEnginesInvoke
PROPERTIES OneResultPerKey CallersAnswered RulesDecideTheirOwn OverlaysKeepTheirPlace
  PackSpeaksClearly
