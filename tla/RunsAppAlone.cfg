SPECIFICATION FairSpec
CONSTANTS
  p1 = p1
  p2 = p2
  x = x
  Procs = {p1, p2}
  Others = {}
  Orphans = FALSE
  Stages <- OneStage
  Inputs <- OneInput
  Worlds <- OneStageWorlds
  NotAcquired = NotAcquired
  Missing = Missing
  Disabled = Disabled
  NoProc = NoProc
PROPERTIES EveryRunCloses
