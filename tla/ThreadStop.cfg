SPECIFICATION FairSpec
CONSTANTS
  Agents = {claude, codex}
  SelfDiff = {codex}
  Modes = {default}
  DefaultMode = default
  NoAdapter = NoAdapter
  MaxModeChanges = 0
PROPERTY StopCompletes
\* A thread that has been stopped does nothing more.
CHECK_DEADLOCK FALSE
