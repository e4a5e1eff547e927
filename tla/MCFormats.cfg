CONSTANTS
  Nearest <- MCNearest
  Documents <- MCDocuments
  Alphabets <- MCAlphabets
SPECIFICATION Spec
INVARIANTS WrittenIsRead NeverLonger SizesAgree
CHECK_DEADLOCK FALSE
