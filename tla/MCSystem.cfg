SPECIFICATION FairSpec
CHECK_DEADLOCK FALSE
CONSTANTS
  Backlog = 0
  MaxLives = 3
INVARIANTS NamesLeadToControl ViewFollowsControl NoLitter
PROPERTIES LinkLastsAsLongAsBoth LinkForms
