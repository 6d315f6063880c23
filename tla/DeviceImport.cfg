SPECIFICATION ImportFairSpec
CONSTANTS
  d1 = d1
  Dests = {d1}
  MaxPulls = 2
  MaxDestinations = 2
  MaxFaults = 1
  MaxClicks = 2
  Pins <- TwoVersions
INVARIANTS PanelIsTrue SetupIsSound
PROPERTIES EvidenceIsKept CancelledPullEnds InstalledIsWhole
