SPECIFICATION FairDaemonSpec
CONSTANTS
  browser = browser
  lirc = lirc
  mpd = mpd
  lcdproc = lcdproc
  browserAll = browserAll
  lircConfig = lircConfig
  lircName = lircName
  mpdServer = mpdServer
  lcdServer = lcdServer
  lcdLayout = lcdLayout
  play = play
  ReloadInput = ReloadInput
  Module <- Modules
  InitOrder <- ModListInit
  Polled <- WithPoll
  Updated <- WithUpdate
  Listening <- WithMessage
  Setting <- Settings
  Owner <- OwnerOf
  Rereading <- ReadByReload
  Message = {play, ReloadInput}
  ReloadMsg = ReloadInput
  StartCommands <- Startup1
  HasInitCommand = FALSE
  AlwaysReadable = TRUE
  MaxBurst = 1
  MaxSent = 2
  MaxVersion = 1
PROPERTY EveryHangupHonoured
CHECK_DEADLOCK FALSE
