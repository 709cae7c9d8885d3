SPECIFICATION Spec
CONSTANTS
  Agents = {claude, codex}
  SelfDiff = {codex}
  Modes = {default}
  DefaultMode = default
  NoAdapter = NoAdapter
  MaxModeChanges = 0
INVARIANT StopLeavesNoProcess
\* A thread that has been stopped does nothing more.
CHECK_DEADLOCK FALSE
