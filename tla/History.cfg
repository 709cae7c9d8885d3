SPECIFICATION HistorySpec
CONSTANTS
  claude = claude
  codex = codex
  first = first
  second = second
  Agents <- MCAgents
  User = User
  ParallelModes = {FALSE, TRUE}
  MayFail = TRUE
  MaxEvents = 6
  MaxRestarts = 1
  Shared = shared
  Lanes = {claude}
  Names = {"plan"}
  Contents = {"draft", "final"}
  MaxChanges = 4
  MaxFaults = 1
  MaxBoots = 1
  Threads <- MCThreads
  Places <- MCPlaces
  Reasons = {"completed", "max_turns"}
  Issue = issue
  NoItem = NoItem
  Texts = {"x"}
  MaxTurns = 2
  MaxNotes = 2
  MaxActs = 1
  MaxLosses = 1
INVARIANTS
  ReplayIsExact
  RunsAreTrue
  DecisionsStand
PROPERTIES
  LogCatchesUp
  EventsAreNews
\* The log is full, and the files change no more.
CHECK_DEADLOCK FALSE
