CONSTANTS
  HeaderLen = 2
  Base = 4
  MaxBody = 3
  Json <- MCJson
  Bodies <- MCBodies
  Commands <- MCCommands
  MaxSent = 3
  MaxConns = 2
  MaxNoise = 6
SPECIFICATION Spec
INVARIANTS StreamIntact NoCommandInvented
PROPERTY ImplementsChannel
CHECK_DEADLOCK FALSE
