\* Up to six lines in any portions.
SPECIFICATION FairSpec
CONSTANT MaxLines = 6
PROPERTIES CallsEnd
CHECK_DEADLOCK FALSE
