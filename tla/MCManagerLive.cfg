CONSTANTS
  Pid = {1, 2}
  HasView = FALSE
  Window = 3
  MaxRestarts = 1
  StartGap = 1
  RestartDelay = 1
  Nap = 1
  Grace = 1
  Punctual = TRUE
SPECIFICATION FairSpec
PROPERTIES ExitHonoured ZombiesReaped
CHECK_DEADLOCK FALSE
