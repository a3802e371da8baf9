SPECIFICATION FairScriptSpec
CONSTANTS
  Pid = {1, 2}
  MaxRuns = 3
  MaxLines = 3
INVARIANTS ScriptTypeOK StatusOfThisChild WaitDoesNotBlock NoChildLeftBehind CommandsOfThisRun
PROPERTY SlowScriptReturns
CHECK_DEADLOCK FALSE
