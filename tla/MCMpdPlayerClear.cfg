SPECIFICATION FairSpec
CONSTANTS
  Command <- PlayerCommand
  Element <- PlayerElement
  ListBegin = ListBegin
  ListEnd = ListEnd
  NoElement = NoElement
  None = None
  MaxLength = 1
  MaxEntries = 2
  MaxBacklog = 1
  MaxUnread = 5
  Shared = TRUE
  Faulty = FALSE
PROPERTY PlClearReachesMpd
CHECK_DEADLOCK FALSE
