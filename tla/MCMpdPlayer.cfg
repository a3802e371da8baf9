SPECIFICATION FairSpec
CONSTANTS
  Command <- PlayerCommand
  Element <- PlayerElement
  ListBegin = ListBegin
  ListEnd = ListEnd
  NoElement = NoElement
  None = None
  MaxLength = 1
  MaxEntries = 1
  MaxBacklog = 0
  MaxUnread = 1
  Shared = TRUE
  Faulty = TRUE
INVARIANTS PlayerTypeOK CrashNeedsFault BusyOnlyAfterStopOrDjump
PROPERTIES OperationsReturn ClientSpec StatusIsFresh
CHECK_DEADLOCK FALSE
