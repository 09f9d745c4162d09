SPECIFICATION Spec
CONSTANTS
  Names <- MCNames
  Lines <- MCAfter
  MaxLines = 1
INVARIANT FollowsText
CHECK_DEADLOCK FALSE
