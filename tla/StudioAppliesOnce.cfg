SPECIFICATION StudioSpec
CONSTANTS
  Forms = {f1, f2}
  Compiled = {c1}
  Typed = {f2}
  Broken = {f2}
  None = None
CHECK_DEADLOCK FALSE
INVARIANTS CompiledRunsOnceApplied
