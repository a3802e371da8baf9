------------------------------ MODULE LcdLink ------------------------------
(***************************************************************************)
(* mod_lcdproc's connection to the display server LCDd: connecting, the    *)
(* callbacks that draw, and the three places that read what LCDd sends:    *)
(* mod_lcdproc_poll, which understands it, and the loops in sendtextWait   *)
(* and mod_lcdproc_update, which skip success lines and drop the first     *)
(* other one.  The socket does not block.  Drawing is a sequence of        *)
(* commands whose text is left out, except for how its length compares     *)
(* with the display width in the places that lay it out in fixed buffers.  *)
(***************************************************************************)
EXTENDS Naturals, Sequences

CONSTANTS
  MaxAttempts,  \* connection attempts: the first one and one per reload
  MaxKeys,      \* key presses
  MaxUnread,    \* commands the socket holds until LCDd reads them
  MaxArrived,   \* lines it holds until the daemon reads them
  Displays,     \* sizes a connect line may name
  TimeTexts,    \* lengths of a song's time, centred in its line
  StatusTexts,  \* lengths of the long status before it is padded to the width
  Preserved     \* lcdproc_preserve_upper_right takes a column off the status

Display == [wid : 0..127, hgt : Nat]

ASSUME LinkAssumption ==
  /\ MaxAttempts \in Nat \ {0} /\ MaxKeys \in Nat
  /\ MaxUnread \in Nat \ {0} /\ MaxArrived \in Nat \ {0}
  /\ Displays \subseteq Display
  /\ TimeTexts \subseteq Nat /\ StatusTexts \subseteq Nat
  /\ Preserved \in BOOLEAN

VARIABLES
  phase,      \* the main loop's turn: "select", "dispatch", "update"; or "dead"
  todo,       \* what is left of the callback under way
  connected,  \* lcdproc_fd # 0
  polled,     \* mod_lcdproc.poll # NULL
  display,    \* mod_lcdproc_wid and mod_lcdproc_hgt
  attempts,
  peer,       \* the socket: "open", "closed" by LCDd, "reset" after a write
              \* to it, or "shut" down by the daemon
  session,    \* what LCDd knows of the client: "new", "greeted", "listening"
  unread,     \* commands written and not read by LCDd
  arrived,    \* lines that can be read
  cut,        \* the last line is incomplete: "whole", "waiting", "taken"
  keys,       \* history: keys pressed
  posted      \* history: the key presses that became input messages

program == <<phase, todo>>
module == <<connected, polled, display>>
counters == <<attempts, keys>>
link == <<peer, session, unread, arrived, cut>>
lvars == <<program, module, counters, link, posted>>

Step == {"hello", "cmd", "keys", "status", "time", "stale", "pad", "fill", "wait", "drain"}
Line == [kind : {"success", "connect", "key", "bye", "other"}, nr : 0..MaxKeys]

Plain(kind) == [kind |-> kind, nr |-> 0]

LinkTypeOK ==
  /\ phase \in {"select", "dispatch", "update", "dead"}
  /\ todo \in Seq(Step)
  /\ connected \in BOOLEAN /\ polled = connected
  /\ display \in Display
  /\ attempts \in 0..MaxAttempts
  /\ peer \in {"open", "closed", "reset", "shut"}
  /\ session \in {"new", "greeted", "listening"}
  /\ unread \in Seq({"hello", "cmd", "keys"}) /\ Len(unread) <= MaxUnread
  /\ arrived \in Seq(Line) /\ Len(arrived) <= MaxArrived
  /\ cut \in {"whole", "waiting", "taken"}
  /\ keys \in 0..MaxKeys
  /\ posted \in Seq(1..MaxKeys)

-----------------------------------------------------------------------------
(* The callbacks as sequences of steps.                                    *)

\* hello, the screen and its widgets, and the keys of lcdproc_keylist.
Setup == <<"hello", "cmd", "keys">>

\* The bar or text at the bottom; set it or clear it.
Settmp == <<"cmd", "cmd">>

\* "Playback stopped", the empty playlist, whose line is padded to the width,
\* the current song, its status, which is padded, and its time, or nothing
\* under the browser.
Refresh == {<<"cmd">>, <<"pad", "cmd">>, <<"cmd", "fill", "status", "time">>, <<>>}

\* An event or a player message; without a connection mod_lcdproc ignores it,
\* but mod_browser's callback may call mod_lcdproc_refresh all the same.  A
\* message that shows the time alone does so with an uninitialized text while
\* MPD has stopped.
Message ==
  {<<>>} \cup Refresh \cup
    IF connected THEN {<<"time">>, <<"stale">>, Settmp} \cup {Settmp \o r : r \in Refresh} ELSE {}

Reloading == {Setup \o r : r \in Refresh}

-----------------------------------------------------------------------------
(* The socket.                                                             *)

Link(state) ==
  /\ peer' = state /\ session' = "new"
  /\ unread' = <<>> /\ arrived' = <<>> /\ cut' = "whole"

\* Mutant: the descriptor stays in use after the shutdown.
DisconnectKeepsFd == UNCHANGED <<connected, polled>> /\ Link("shut")

Disconnect == connected' = FALSE /\ polled' = FALSE /\ Link("shut")

\* Mutant: mod_lcdproc.poll is set by the first connection only.
ConnectWithoutPoll == connected' = TRUE /\ polled' = FALSE /\ Link("open")

\* Host and port are found, the connection is accepted.
Connect == connected' = TRUE /\ polled' = TRUE /\ Link("open")

Partial == cut = "waiting" /\ Len(arrived) = 1
Whole == arrived # <<>> /\ ~Partial
Readable == arrived # <<>> \/ peer # "open"

\* readline(): a complete line; or EAGAIN or the end of the stream, perhaps
\* after the beginning of a line, which is lost.
Readline ==
  /\ arrived' = IF arrived = <<>> THEN arrived ELSE Tail(arrived)
  /\ cut' = IF Partial THEN "taken" ELSE cut

\* write() to a full socket fails and the command is lost.  The first write
\* after LCDd is gone provokes a reset, the next one raises SIGPIPE.
Write(command) ==
  IF peer = "open"
  THEN /\ unread' = IF Len(unread) < MaxUnread THEN Append(unread, command) ELSE unread
       /\ UNCHANGED <<peer, phase>>
  ELSE /\ peer' = IF peer = "closed" THEN "reset" ELSE peer
       /\ phase' = IF peer = "closed" THEN phase ELSE "dead"
       /\ UNCHANGED unread

-----------------------------------------------------------------------------
(* Laying out text.  The width is unsigned: what is less than a text makes *)
(* a huge difference.                                                      *)

NoDisplay == [wid |-> 0, hgt |-> 0]

\* ">" on both sides of "playlist empty", in a buffer of 50 characters.
PadRuns == display.wid >= 14
PadFits == display.wid \in 14..49

\* Blanks up to the width less 12, on a display of more than two lines.
FillRuns == display.hgt > 2 => display.wid >= 12

\* The right-aligned status, on a display of 20 columns and more than two
\* lines, begins before the buffer.
StatusSpills ==
  /\ display.hgt > 2 /\ display.wid >= 20
  /\ Preserved \/ \E length \in StatusTexts : length > display.wid

Centred(length) == length <= display.wid

-----------------------------------------------------------------------------
(* The daemon's steps.                                                     *)

LinkInit ==
  /\ phase = "select"
  /\ display = NoDisplay
  /\ \/ connected = TRUE /\ todo = Setup /\ peer = "open"
     \/ connected = FALSE /\ todo = <<>> /\ peer = "shut"
  /\ polled = connected
  /\ attempts = 1
  /\ session = "new"
  /\ unread = <<>> /\ arrived = <<>> /\ cut = "whole"
  /\ keys = 0 /\ posted = <<>>

Running == phase # "dead"
At(step) == Running /\ todo # <<>> /\ Head(todo) = step
Between(turn) == phase = turn /\ todo = <<>>

\* The guards of the setstring family and of mod_lcdproc_setup.
NotConnected ==
  /\ \E step \in {"hello", "cmd", "keys", "status", "time", "stale"} : At(step)
  /\ ~connected
  /\ todo' = Tail(todo)
  /\ UNCHANGED <<phase, module, counters, link, posted>>

Hello ==
  /\ At("hello") /\ connected
  /\ Write("hello")
  /\ todo' = Tail(todo)
  /\ UNCHANGED <<module, counters, session, arrived, cut, posted>>

\* sendtextWait up to its first readline.
Sendtext ==
  /\ \E step \in {"cmd", "keys", "status", "time", "stale"} :
       /\ At(step)
       /\ step = "time" => \E length \in TimeTexts : Centred(length)
       /\ Write(IF step = "keys" THEN "keys" ELSE "cmd")
  /\ connected
  /\ todo' = <<"wait">> \o Tail(todo)
  /\ UNCHANGED <<module, counters, session, arrived, cut, posted>>

\* The loops that pad a line run before any guard.
PadLine ==
  /\ (At("pad") /\ PadRuns) \/ (At("fill") /\ FillRuns)
  /\ todo' = Tail(todo)
  /\ UNCHANGED <<phase, module, counters, link, posted>>

\* Padding that finds no end, a text centred by a huge offset, and writes
\* that may or may not hit something vital: a little before the buffer or
\* behind it, or of whatever an uninitialized text holds.
WildWrite ==
  /\ \/ At("pad") /\ ~PadFits
     \/ At("fill") /\ ~FillRuns
     \/ /\ connected
        /\ \/ At("status") /\ StatusSpills
           \/ At("time") /\ \E length \in TimeTexts : ~Centred(length)
           \/ At("stale")
  /\ phase' = "dead"
  /\ UNCHANGED <<todo, module, counters, link, posted>>

\* One turn of "read while success".  What precedes the missing end of an
\* incomplete line is compared together with what the buffer held before.
ReadOn ==
  LET success == arrived # <<>> /\ Head(arrived).kind = "success"
  IN  IF success /\ Whole THEN {todo}
      ELSE IF success THEN {todo, Tail(todo)}
      ELSE {Tail(todo)}

\* Mutant: the socket blocks while nothing has arrived.
SkipBlocks ==
  /\ At("wait") \/ (At("drain") /\ connected)
  /\ Readable
  /\ Readline
  /\ todo' \in ReadOn
  /\ UNCHANGED <<phase, module, counters, peer, session, unread, posted>>

Skip ==
  /\ At("wait") \/ (At("drain") /\ connected)
  /\ Readline
  /\ todo' \in ReadOn
  /\ UNCHANGED <<phase, module, counters, peer, session, unread, posted>>

\* After a disconnect mod_lcdproc_update reads descriptor 0.  That is
\* /dev/null for a daemon, but in the foreground it waits for the keyboard,
\* so the step is possible and never due.
ReadStdin ==
  /\ At("drain") /\ ~connected
  /\ todo' = Tail(todo)
  /\ UNCHANGED <<phase, module, counters, link, posted>>

-----------------------------------------------------------------------------
(* The main loop's turns.                                                  *)

Understand(line) ==
  /\ IF line.kind = "connect" THEN display' \in Displays ELSE UNCHANGED display
  /\ posted' = IF line.kind = "key" THEN Append(posted, line.nr) ELSE posted
  /\ IF line.kind = "bye"
     THEN Disconnect
     ELSE Readline /\ UNCHANGED <<connected, polled, peer, session, unread>>

\* Mutant: a line that has not ended is taken for a whole one.
PollTakesPart ==
  /\ Between("select") /\ polled /\ Readable
  /\ phase' = "dispatch"
  /\ IF arrived # <<>>
     THEN Understand(IF Partial THEN [Head(arrived) EXCEPT !.nr = 1] ELSE Head(arrived))
     ELSE Disconnect /\ UNCHANGED <<display, posted>>
  /\ UNCHANGED <<todo, counters>>

Poll ==
  /\ Between("select") /\ polled /\ Readable
  /\ phase' = "dispatch"
  /\ IF Whole
     THEN Understand(Head(arrived))
     ELSE Disconnect /\ UNCHANGED <<display, posted>>
  /\ UNCHANGED <<todo, counters>>

NothingToPoll ==
  /\ Between("select") /\ ~(polled /\ Readable)
  /\ phase' = "dispatch"
  /\ UNCHANGED <<todo, module, counters, link, posted>>

Dispatch ==
  /\ Between("dispatch")
  /\ phase' = "update"
  /\ todo' \in Message
  /\ UNCHANGED <<module, counters, link, posted>>

Update ==
  /\ Between("update")
  /\ phase' = "select"
  /\ \E tmp \in {<<>>, Settmp}, r \in Refresh : todo' = tmp \o r \o <<"drain">>
  /\ UNCHANGED <<module, counters, link, posted>>

\* Only a reload connects again.
Reload ==
  /\ Between("select") /\ attempts < MaxAttempts
  /\ attempts' = attempts + 1
  /\ \/ Connect /\ todo' \in Reloading
     \/ Disconnect /\ UNCHANGED todo
  /\ UNCHANGED <<phase, display, keys, posted>>

-----------------------------------------------------------------------------
(* LCDd and the network.                                                   *)

\* A line arrives at once or in two parts.
Emit(line) ==
  /\ connected /\ peer = "open" /\ cut = "whole" /\ Len(arrived) < MaxArrived
  /\ arrived' = Append(arrived, line)
  /\ cut' \in {"whole", "waiting"}

Answer ==
  /\ unread # <<>>
  /\ unread' = Tail(unread)
  /\ IF Head(unread) = "hello"
     THEN Emit(Plain("connect"))
     ELSE Emit(Plain("success")) \/ Emit(Plain("other"))
  /\ session' = CASE Head(unread) = "hello" -> "greeted"
                  [] Head(unread) = "keys" -> "listening"
                  [] OTHER -> session
  /\ UNCHANGED <<program, module, counters, peer, posted>>

PressKey ==
  /\ session = "listening" /\ keys < MaxKeys
  /\ keys' = keys + 1
  /\ Emit([kind |-> "key", nr |-> keys'])
  /\ UNCHANGED <<program, module, attempts, peer, session, unread, posted>>

\* listen and ignore lines, and keys that the configuration does not bind.
Notify ==
  /\ session # "new"
  /\ Emit(Plain("other")) \/ Emit(Plain("bye"))
  /\ UNCHANGED <<program, module, counters, peer, session, unread, posted>>

\* If the first part has been read, the rest looks like an unknown line.
Complete ==
  /\ connected /\ peer = "open" /\ cut # "whole" /\ Len(arrived) < MaxArrived
  /\ cut' = "whole"
  /\ arrived' = IF cut = "taken" THEN Append(arrived, Plain("other")) ELSE arrived
  /\ UNCHANGED <<program, module, counters, peer, session, unread, posted>>

Close ==
  /\ connected /\ peer = "open"
  /\ peer' = "closed"
  /\ UNCHANGED <<program, module, counters, session, unread, arrived, cut, posted>>

-----------------------------------------------------------------------------

DaemonStep ==
  \/ NotConnected \/ Hello \/ Sendtext \/ PadLine \/ WildWrite \/ Skip
  \/ Poll \/ NothingToPoll \/ Dispatch \/ Update

Environment ==
  \/ Reload \/ ReadStdin
  \/ Answer \/ PressKey \/ Notify \/ Complete \/ Close

LinkNext == DaemonStep \/ Environment

LinkSpec == LinkInit /\ [][LinkNext]_lvars

\* The daemon runs on; nothing is asked of LCDd, the network or the user.
FairLinkSpec == LinkSpec /\ WF_lvars(DaemonStep)

-----------------------------------------------------------------------------
(* Properties.                                                             *)

\* Room for the line of an empty playlist, for the time, and for the status.
Roomy(size) ==
  /\ size.wid \in 14..49
  /\ \A length \in TimeTexts : length <= size.wid
  /\ size.hgt > 2 /\ size.wid >= 20 =>
       ~Preserved /\ \A length \in StatusTexts : length <= size.wid

\* Between its socket and the widths it lays text out for, mod_lcdproc kills
\* the process only on a display that is not roomy or not yet known, by
\* showing the time of a song while MPD has stopped, or when LCDd goes away
\* between two polls.  In particular, a connection given up for any other
\* reason never leaves a write to the old socket behind, and once a roomy
\* display is known, no disconnect or reload forgets it.
CrashNeedsCause ==
  phase = "dead" =>
    \/ ~Roomy(display)
    \/ todo # <<>> /\ Head(todo) = "stale"
    \/ peer = "reset"

\* The key presses that become input messages were made, in this order and
\* once each, although lines arrive in parts, are dropped by the loops that
\* skip answers, and are given up with the connection.
KeysNotInvented ==
  /\ \A i \in 1..Len(posted) : posted[i] <= keys
  /\ \A i, j \in 1..Len(posted) : i < j => posted[i] < posted[j]

\* Drawing never stops the daemon: every callback returns or kills the
\* process, however slow LCDd is, unless mod_lcdproc_update has no connection
\* and waits for the keyboard.
CallbacksReturn ==
  todo # <<>> ~> (todo = <<>> \/ phase = "dead" \/ (At("drain") /\ ~connected))

\* A connection that LCDd has closed is given up, unless a write kills the
\* process first.
LossNoticed == peer = "closed" ~> (peer \in {"open", "shut"} \/ phase = "dead")

\* "Read all success-messages from LCDd" (mod_lcdproc.c, ABasetools.c): the
\* loops that skip the answers leave everything else to mod_lcdproc_poll.
OnlySuccessSkipped ==
  [][At("wait") \/ At("drain") =>
       \/ arrived = <<>> \/ Head(arrived).kind = "success"
       \/ arrived' # Tail(arrived)]_lvars

=============================================================================
