SPECIFICATION FairSpec
CHECK_DEADLOCK FALSE
CONSTANTS
  Backlog = 0
  MaxLives = 2
PROPERTY CommCrashHeals
