SPECIFICATION FairSpec
CONSTANTS
  p1 = p1
  p2 = p2
  r1 = r1
  r2 = r2
  None = None
  N = 4
  OneStep = {2, 3}
  Drops <- DropsOfFour
  Runners = {r1, r2}
  Procs = {p1, p2}
  Backups <- FiveBackups
  MaxRegistrations = 3
  MaxLosses = 1
INVARIANTS SchemaIsTrue RegistrationIsSound OneDevicePerPhone
PROPERTIES EveryRegistrationEnds
CHECK_DEADLOCK FALSE
