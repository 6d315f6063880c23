SPECIFICATION FairSpec
CONSTANTS
  t1 = t1
  t2 = t2
  logs = logs
  logs2 = logs2
  MaxVersion = 2
  Tools = {t1, t2}
  Reports = {logs}
  MaxFaults = 3
  TornRemoval = TRUE
  NoAcquisition = NoAcquisition
  Unmatched = Unmatched
INVARIANTS MarkersAreTrue SuccessMeansPrepared
PROPERTIES AlwaysRecovers
