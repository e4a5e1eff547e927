CONSTANTS
  Pid = {p1, p2, p3}
  HasView = TRUE
  Window = 3
  MaxRestarts = 1
  StartGap = 1
  RestartDelay = 1
  Nap = 1
  Grace = 1
  Punctual = FALSE
SPECIFICATION Spec
INVARIANTS Tracked OneInstance RestartRate ShutdownComplete
PROPERTIES GraceHonoured ImplementsSupervisor
SYMMETRY PidSymmetry
CHECK_DEADLOCK FALSE
