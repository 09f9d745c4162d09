SPECIFICATION FairSpec
CONSTANTS
  Names <- MCNames
  Lines <- MCSound
  MaxLines = 2
INVARIANTS
  FollowsText
  JumpsStayInCode
  LoopFlagRight
PROPERTY
  Advances
CHECK_DEADLOCK FALSE
