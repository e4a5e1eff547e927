CONSTANTS
  Precision = 5
  MaxExponent = 8
  Width = 14
  kAlpha <- Alpha
  kGamma <- Gamma
  kCachedPowersMinDecExp <- MinDecExp
  kCachedPowersDecStep = 2
  CachedPowers = 5
  kMinExp <- MinExp
  kMaxExp = 2
  UnsignedMax = 99
  IntegerMin <- MinInt
  IntegerMax = 49
  Alphabets <- MCAlphabets
  Limit = 48
  MaxPieces <- MCMaxPieces
  Climb <- MCClimb
SPECIFICATION Spec
INVARIANTS AcceptsJson RefusedForLengthOnly ForwardedUnchanged SpeedIsTheStations
CHECK_DEADLOCK FALSE
