SPECIFICATION Spec
CONSTANTS
  Values <- MCValues
  MaxTokens = 5
INVARIANTS ComesBack
PROPERTIES Ends
CHECK_DEADLOCK FALSE
