SPECIFICATION Spec
CONSTANTS
  Procs = {p1, p2}
  Agents = {a1}
  NoProc = NoProc
  MaxEvents = 3
  MaxBatch = 2
  MaxFaults = 1
SYMMETRY Symmetry
INVARIANTS
  WellFormed
  LockExclusive
  MemoryIsPrefix
  EvaluationsContiguous
  OnlyCrashLeavesLock
PROPERTY ImplementsAppendLog
\* A deleted thread leaves nothing to do.
CHECK_DEADLOCK FALSE
