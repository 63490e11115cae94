SPECIFICATION FairSpec
CONSTANTS
  r1 = r1  r2 = r2  r3 = r3
  charge = charge  mail = mail  note = note  card = card  fax = fax
  Runs = {r1, r2}
  States <- AgentStates
  Actions = {charge, mail, note}
  Inputs = {"in"}
  ExplicitKeys = {}
  NoKey = NoKey  NoRecord = NoRecord  NoMatch = NoMatch  Missing = Missing
  NoCap = NoCap
  InitialState = "work"
  EntryStates = {"work"}
  Lists <- AgentLists
  Targets <- AgentTargets
  Guarded = {}
  FinalStates = {"wrap"}
  HandoffStates = {}
  SideEffect <- CallingOut
  ExplicitKey <- NoKeys
  SuppliedKey <- NoKeys
  Registered = {charge, mail, note}
  Outcomes <- SlowOutcomes
  HandlerCodes <- PlainCodes
  Pack <- NoPack
  Environment = "prod"
  MaxSteps = 3
  MaxAttempts = 2
  MaxExternalCalls = 1
  DurationBudget = FALSE
  CheckpointOnEnter = TRUE
  CheckpointOnSuccess = TRUE
  SharedStore = TRUE
  Serial = FALSE
CHECK_DEADLOCK FALSE
INVARIANTS LimitsHold
PROPERTIES RunsEnd
