SPECIFICATION Spec
CONSTANTS
  r1 = r1  r2 = r2  r3 = r3
  charge = charge  mail = mail  note = note  card = card  fax = fax
  Runs = {r1, r2}
  States <- FullStates
  Actions = {charge, mail, note, fax}
  Inputs = {"in"}
  ExplicitKeys = {}
  NoKey = NoKey  NoRecord = NoRecord  NoMatch = NoMatch  Missing = Missing
  NoCap = NoCap
  InitialState = "work"
  EntryStates = {"work", Missing}
  Lists <- FullLists
  Targets <- FullTargets
  Guarded = {"work"}
  FinalStates = {"wrap"}
  HandoffStates = {"desk"}
  SideEffect <- AgentSideEffect
  ExplicitKey <- NoKeys
  SuppliedKey <- NoKeys
  Registered = {charge, mail, note}
  Outcomes <- AllOutcomes
  HandlerCodes <- AnyCodes
  Pack <- StrictPack
  Environment = "prod"
  MaxSteps = 2
  MaxAttempts = 2
  MaxExternalCalls = 1
  DurationBudget = TRUE
  CheckpointOnEnter = TRUE
  CheckpointOnSuccess = TRUE
  SharedStore = TRUE
  Serial = TRUE
SYMMETRY RunSymmetry
CHECK_DEADLOCK FALSE
INVARIANTS TypeOK ResultMatchesTrace PolicyCapHolds
