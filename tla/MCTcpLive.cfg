CONSTANTS
  HbInterval = 1
  HbTimeout = 2
  MaxBackoff = 3
  MaxWait = 1
  ConnectAtOnce = TRUE
SPECIFICATION FairSpec
PROPERTY Reconnects
