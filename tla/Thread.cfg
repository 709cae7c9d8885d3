SPECIFICATION Spec
CONSTANTS
  Agents = {claude, codex}
  SelfDiff = {codex}
  Modes = {default, plan}
  DefaultMode = default
  NoAdapter = NoAdapter
  MaxModeChanges = 1
INVARIANTS
  OneTurnPerDirectory
  TurnsKeepTheirSetting
  QuietAfterStop
PROPERTIES
  NoLaneWorkLost
\* A thread that has been stopped does nothing more.
CHECK_DEADLOCK FALSE
