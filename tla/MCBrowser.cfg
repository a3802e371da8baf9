SPECIFICATION BrowserSpec
CONSTANTS
  Names = {1, 2, 3, 4, 5}
  Trees <- MCTrees
  Heights = {2, 3, 4, 5, 7}
  MaxEntries = 4
  Moves <- MCMoves
  NULL = NULL
INVARIANTS BrowserTypeOK CrashIsNotSound MarkVisible ShowsDirectory
PROPERTIES BackMarksOrigin
CHECK_DEADLOCK FALSE
