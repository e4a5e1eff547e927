CONSTANTS
  HbInterval = 1
  HbTimeout = 3
  MaxBackoff = 3
  MaxWait = 2
  ConnectAtOnce = FALSE
SPECIFICATION Spec
INVARIANTS LinkObserved TimelyDetection
PROPERTIES NoPrematureTimeout AttemptsBackOff
