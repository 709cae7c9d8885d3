SPECIFICATION Spec
CONSTANTS
  t1 = t1
  t2 = t2
  Transitions = {t1, t2}
  Tried = {t1}
  Agents = {claude, codex}
  Requests = {r1, r2}
  NoRun = NoRun
  UserRun = UserRun
  Guardrails <- MCGuardrails
  MaxActions = 1
  MaxFaults = 1
SYMMETRY Symmetry
INVARIANTS
  StatusIsCurrent
  CorrectionsJudgeTheirRefusal
  BudgetWithinRace
  OneWorkerPerRefusal
PROPERTIES
  ActionsAreRespected
