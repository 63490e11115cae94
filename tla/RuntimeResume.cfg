SPECIFICATION Spec
CONSTANTS
  r1 = r1  r2 = r2  r3 = r3
  charge = charge  mail = mail  note = note  card = card  fax = fax
  Runs = {r1, r2, r3}
  States <- AgentStates
  Actions = {charge, mail, note}
  Inputs = {"in"}
  ExplicitKeys = {}
  NoKey = NoKey  NoRecord = NoRecord  NoMatch = NoMatch  Missing = Missing
  NoCap = NoCap
  InitialState = "work"
  EntryStates = {"work", "wrap"}
  Lists <- AgentLists
  Targets <- AgentTargets
  Guarded = {}
  FinalStates = {"wrap"}
  HandoffStates = {}
  SideEffect <- AgentSideEffect
  ExplicitKey <- NoKeys
  SuppliedKey <- NoKeys
  Registered = {charge, mail, note}
  Outcomes <- TimeoutOnly
  HandlerCodes <- PlainCodes
  Pack <- NoPack
  Environment = "prod"
  MaxSteps = 2
  MaxAttempts = 2
  MaxExternalCalls = 2
  DurationBudget = FALSE
  CheckpointOnEnter = TRUE
  CheckpointOnSuccess = FALSE
  SharedStore = TRUE
  Serial = TRUE
SYMMETRY RunSymmetry
CHECK_DEADLOCK FALSE
PROPERTIES EffectsOnce
