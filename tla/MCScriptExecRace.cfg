SPECIFICATION FairScriptSpec
CONSTANTS
  Pid = {1, 2}
  MaxRuns = 3
  MaxLines = 3
PROPERTY ScriptReturns
CHECK_DEADLOCK FALSE
