SPECIFICATION PrepSpec
CONSTANTS
  l1 = l1
  l2 = l2
  Labels <- TwoBackups
  Kept = 2
  MaxAttempts = 2
  MaxPreparations = 2
  MaxMounts = 2
  MaxWork = 7
  MaxUnread = 2
  MaxSent = 2
  None = None
INVARIANTS PageIsCurrent PromptIsShown ToldIsTrue
CHECK_DEADLOCK FALSE
