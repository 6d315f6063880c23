SPECIFICATION Spec
CONSTANTS
  t1 = t1
  t2 = t2
  logs = logs
  logs2 = logs2
  MaxVersion = 1
  Tools = {t1}
  Reports = {logs}
  MaxFaults = 1
  TornRemoval = FALSE
  NoAcquisition = NoAcquisition
  Unmatched = Unmatched
INVARIANTS FailsAtOnce
