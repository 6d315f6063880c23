SPECIFICATION Spec
CONSTANTS
  g1 = g1
  g2 = g2
  m1 = m1
  m2 = m2
  None = None
  NoValue = NoValue
  Reports <- ThreeReports
  Artifacts <- FourArtifacts
  Tables <- FourTables
  Defects <- TwoVersions
  DeviceEra = 10
  Now = 25
  MaxStages = 2
  MaxReplaced = 1
  Files <- ThreeFiles
  Given <- ThreeGiven
  FieldMap <- SmallMap
  Registrars = {g1, g2}
  MaxRegistered = 2
  CrashUnit <- OneCrash
  Runs = {m1, m2}
INVARIANTS ReportIsRead RegistryIsSound ChecksAreSound
SYMMETRY Same
CHECK_DEADLOCK FALSE
