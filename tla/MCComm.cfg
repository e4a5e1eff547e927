SPECIFICATION FairSpec
CHECK_DEADLOCK FALSE
CONSTANTS
  Fd <- Fds
  MaxLives = 2
  MaxPending = 2
INVARIANTS
  NoLeak
  Watched
PROPERTIES
  IpcFound
  IpcLossNoticed
  
  StepsOfSystem
