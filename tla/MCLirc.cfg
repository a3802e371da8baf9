SPECIFICATION FairSpec
CONSTANTS
  ALL = ALL
  NULL = NULL
  Unnamed = Unnamed
  Prog = Prog
  r = r
  A = A
  B = B
  m = m
  n = n
  x = x
  y = y
  Names <- MCNames
  Files <- MCFiles
  Edits <- MCEdits
  Shapes <- MCShapes
  Press <- MCPress
  MaxLines = 4
  MaxHeld = 2
  MaxReloads = 1
  PacketSize = 3
INVARIANTS LircTypeOK ParsedAsWritten LongestMatch EachEntryOnce LinesWhole LircCrashNeedsCause
PROPERTY LookupEnds
CHECK_DEADLOCK FALSE
