SPECIFICATION FairSpec
CHECK_DEADLOCK FALSE
CONSTANTS
  Speed <- Speeds
  Target = 3
  ClimbStep = 2
  BatteryLoop = 2
  MaxFrames = 2
  MaxRounds = 5
INVARIANTS
  DriftBounded
  NoUseAfterUnmap
  TelemetryComplete
  CruiseAltitude
PROPERTIES
  Stops
  StepsOfSystem
