SPECIFICATION Spec
CONSTANTS
  p1 = p1
  p2 = p2
  x = x
  Procs = {p1, p2}
  Others = {p2}
  Orphans = TRUE
  Stages <- TwoStages
  Inputs <- OneInput
  Worlds <- CoreWorlds
  NotAcquired = NotAcquired
  Missing = Missing
  Disabled = Disabled
  NoProc = NoProc
INVARIANTS SkipIsSound CompleteIsEarned OutcomeIsTrue
PROPERTIES OwnVerdictIsFinal CompleteStays
