SPECIFICATION Spec
CONSTANTS
  Labels = {a}
  Workspace = Workspace
  r1 = r1
  r2 = r2
  s1 = s1
  Sources = {s1}
  Runs = {r1, r2}
  Listed = {r1}
  SourceOf <- OneSource
  MaxAnalyses = 2
  MaxAsks = 2
  MaxCalls = 2
  MaxTurns = 4
  MaxErrors = 1
  None = None
  Ids = {1, 2, 3, 4}
  UnitOf <- ThreeUnits
  Times = {2, 3, Untimed}
  Untimed = Untimed
  Limits = {1, 2}
  Millisecond = 2
  MaxChanges = 2
INVARIANTS KillsAreTold
CHECK_DEADLOCK FALSE
