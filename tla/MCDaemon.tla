------------------------------ MODULE MCDaemon ------------------------------
(* Model checking of Daemon with four of the modules of modules.inc: browser *)
(* (message), lirc (poll), mpd (poll, message) and lcdproc (poll, update and *)
(* message), registered in that order.                                       *)
EXTENDS Daemon, TLC

CONSTANTS
  browser, lirc, mpd, lcdproc,
  browserAll, lircConfig, lircName, mpdServer, lcdServer, lcdLayout,
  play, ReloadInput

Modules == {browser, lirc, mpd, lcdproc}
ModListInit == <<browser, lirc, mpd, lcdproc>>
WithPoll == {lirc, mpd, lcdproc}
WithUpdate == {lcdproc}
WithMessage == {browser, mpd, lcdproc}

\* browser_*; lirc_config; lirc_prog_name; mpd_host; lcdproc_host; the lines of
\* the display, its timeouts and the clock.
Settings == {browserAll, lircConfig, lircName, mpdServer, lcdServer, lcdLayout}
OwnerOf ==
  browserAll :> browser @@ lircConfig :> lirc @@ lircName :> lirc @@
  mpdServer :> mpd @@ lcdServer :> lcdproc @@ lcdLayout :> lcdproc
ReadByReload == {browserAll, lircConfig, lcdServer}

Startup1 == <<play>>

=============================================================================
