SPECIFICATION Spec
CHECK_DEADLOCK FALSE
CONSTANTS
  Fd <- Fds
  MaxLives = 2
  MaxPending = 2
INVARIANT
  NoEcho
