# A verification project for ABase

ABase ("audiobase") is a jukebox daemon for a small Linux machine without a
keyboard: infrared key presses become messages, messages become commands to MPD
(the Music Player Daemon), and the state of MPD is shown on a display served by
LCDd.  This directory holds TLA+ models of the daemon, the TLC configurations
that check them and theorems about them that TLAPS has proved.

## 1. The system

One process, one thread, no locks.  Concurrency comes from three sides: signal
handlers that run between any two instructions, three other programs (MPD,
LCDd, lircd) behind sockets, and child processes started by the browser.

| part | source | state | operations |
|---|---|---|---|
| main loop, signals | `ABased.c` | `reload`, `terminate` | `main`, `loop`, `sighandler` |
| module bus | `ABasemod.c` | `mod_list`, `mod_msgs`, `answer_head` | register, sendmsg, init, deinit, reload, update, sigchld, query |
| configuration | `ABaseconfig.c` | `config_list`, `config_file` | getstr, getnum, read, free, reload, remove |
| line I/O | `ABasetools.c` | none | readline, sendtext, sendtextWait, trim, split |
| MPD client library | `libmpdclient.c` | one `mpd_Connection` | executeCommand, getNextReturnElement, finishCommand, command lists |
| player | `mod_mpd.c` | `conn`, `player_status`, `player_song`, `seekcounter`, `djump_status` | update, play, stop, pause, seek, jump, djump, options, clear |
| browser | `mod_browser.c` | `browser` (cursor, elements, directory), `mod_browser_chld_*` | cursor, into, back, add, script, execute, reload |
| display | `mod_lcdproc.c` | `lcdproc_fd`, current screen, timeouts | connect, setup, refresh, poll, update, message, clock |
| infrared | `mod_lirc.c`, `lirc_client.c` | configuration, current mode, repeat state, read buffer | poll, nextcode, code2char, reload |
| titles | `util.c`, `charConv.c` | none | songToFormatedString, skipFormatting, conversions |
| logging, debug input | `ABaselog.c`, `mod_debug.c` | log level, stdin | log_printf, poll |

`ABaseconf.c`, `trash.c` and the files with suffixes `_` and `_v7` are not part of
the program.

How they interact:

- `main` reads the configuration, runs the init function of every module in
  `modules.inc`, installs the signal handlers and loops.  `loop` waits in
  `select` for at most half a second, calls the poll callbacks, then
  `mod_update`, which disperses the message queue and calls the update
  callbacks.
- Modules talk to each other by messages (`mod_sendmsg`), and also by calling
  each other directly and through globals: the display and the browser use
  the player's connection `conn`.
- SIGHUP (or the input message "reload") and SIGTERM set flags that `loop` looks
  at after `select`; SIGCHLD runs `mod_sigchld` at once.

What is hard here, and what would make each part correct:

| part | what is hard | what must hold |
|---|---|---|
| MPD client library | answers carry no identifier; a rejected command is silent; timeouts, ACK inside a list | commands and answers stay in step; counts of list_OK are exact |
| player | three modules share a connection, some leave answers unread; decisions from an old status | commands reach MPD, a status is never an older question's answer, nothing blocks for good |
| bus, main loop | callbacks post while they are called; flags set by signals between any two steps | every message to every module, once, in order; ends on a signal; no reload forgotten |
| configuration | freed and read again while pointers into it are held; reload callbacks read only a part of it again | no value freed twice; what a module works from comes from two known readings at most |
| scripts | SIGCHLD races with the installation of its callback | the wait ends, with this child's status |
| display | LCDd's answers and events are read in three places; lines come late or in parts; LCDd may vanish | keys are not invented, a loss is noticed, no read blocks, nothing is drawn before the size is known |
| browser | cursor, window and directory must fit after every move | cursor inside the directory, back returns where it came from |
| infrared | packets split or joined by read; modes, repeats, sequences | each press gives the configured commands, once |

PROJECT.json lists the hazards one by one, with the properties that cover them.

## 2. The modules

| module | what it is |
|---|---|
| `MpdClient` | libmpdclient on one connection, with an arbitrary caller and the server |
| `MpdClientProofs` | type correctness, `Lockstep` and `ListOksExact`, proved |
| `MpdPlayer` | mod_mpd and everyone who uses its connection, on top of `MpdClient` |
| `MpdPlayerProofs` | `MpdPlayer` implements `MpdClient`, proved |
| `PlayerStateProofs` | its types, what operations leave due (`BusyOnlyAfterStopOrDjump`), `CrashNeedsFault` and `StatusIsFresh`, proved |
| `Daemon` | main, loop, message queue, module list, signals, reload |
| `Broadcast` | abstract: an ordered broadcast to those who have joined |
| `DaemonProofs` | type correctness, `OrderedDelivery`, `TwoReadings`, and that `Daemon` implements `Broadcast`, proved |
| `ScriptExec` | mod_browser_execute, its child process and mod_sigchld |
| `ScriptProofs` | type correctness and the four safety properties, proved |
| `LcdLink` | mod_lcdproc's connection to LCDd, and the line I/O of ABasetools |
| `LcdLinkProofs` | type correctness, `CrashNeedsCause` and `KeysNotInvented`, proved |
| `Browser` | walking through MPD's database: directory, mark, window |
| `BrowserProofs` | type correctness, `CrashIsNotSound`, `MarkVisible`, `ShowsDirectory` and `BackMarksOrigin`, proved |
| `LircConfig` | reading the configuration of the remote control, line by line, and what a file as a whole means |
| `LircClient` | one line of lircd against the configuration: modes, sequences, repeats |
| `Lirc` | mod_lirc and the buffer of lirc_nextcode, with lircd and the user |
| `LircProofs` | type correctness, `EachEntryOnce`, `LinesWhole`, `LircCrashNeedsCause`, `LongestMatch`, and `ParsedAsWritten` for every file, proved |
| `MC*` | instances for TLC |

Operators named `...Unflushed`, `...Unchecked` and the like, with the comment
"Mutant", are deliberately wrong versions of the definition that follows them;
they show that a property can fail.

### MpdClient

The variables `doneProcessing`, `commandList`, `listOks`, `doneListOk`,
`returnElement` and `error` are the fields of `mpd_Connection`; `requests` and
`answers` are the two directions of the socket, line by line.
`mpd_executeCommand` is `ExecutePlain`, `ExecuteListed` and `ExecuteRejected`,
by the guard at its start and the list flag; `mpd_getNextReturnElement` has one action
for each outcome.  A read may time out although the answer is under way: this is a
late answer, and also a signal that interrupts `select`, which the code takes for a
timeout because `ret = select(...) == 1` assigns the comparison.  MPD is external: it
handles requests in order, answers a list when it is complete, and may
close.  `desynced` records that a fault has happened that can misalign the
stream, so that properties can speak of fault-free runs.

Abstracted: a data line is an opaque element, and a line is received as a whole.
Left out: the buffer overrun and lines that cannot be parsed (MPD does not send
them), a command written only in part, and `mpd_newConnection`'s failures.

### MpdPlayer

Every operation is a straight sequence of library calls with a few branches.
`todo` holds the calls still to be made, so that each definition reads like the
function it stands for (`UpdateStatus`, `UpdateSonginfo`, `Simple(r)` for
"send, finish"), while MPD, other MPD clients and faults act between any two lines
read.  `Call...` actions are the library functions at the grain of one line.
`crashed` is set where the code can kill the process: the unchecked `status` in
`mod_mpd_update_songinfo`, the error number printed as a string in
`mod_mpd_update_status` (when debug messages are on), and SIGPIPE.  A status carries
what decisions depend on: the state and the length of the playlist.  Volume,
seek, repeat and random are one command, `set`.

A killed process has no calls left (`todo` is empty), so `OperationsReturn` names `crashed` as the
second way in which an operation may end.  After a fault only this property and the type invariant still
speak of the answers: `CrashNeedsFault`, `BusyOnlyAfterStopOrDjump` and
`StatusIsFresh` are about a connection in step.  What late lines do to the values that are read then, the
model shows and no property forbids: answers carry no identifier, so the code cannot tell them apart.

### Daemon and Broadcast

`pc` follows `main`; one step is one callback.  A callback is abstract: it may post up to
`MaxBurst` messages.  `queue` is `mod_msgs`, `turn` the position in `mod_list`.
`config` is the version of the file in `config_list` (0 when it could not be opened), `modConfig[s]` the
version that the setting s was read from, and `Owner[s]` the module that keeps it.  What a reload
callback reads again is `Rereading`.  In the code this is little: `mod_browser_reload` reads all of
its module's settings, `mod_lirc_reload` the name of its file but not `lirc_prog_name`,
`mod_lcdproc_reload` host and port, through `mod_lcdproc_connect`, but no line, alignment or timeout
(`mod_lcdproc.c:1255-1273`), and `mod_mpd_reload` nothing, its body being commented out
(`mod_mpd.c:634-645`).  The template of a module says of the reload callback "You should reinit your module or
check for changed configuration here so that changes take effect" (`mod_debug.c:132-134`); for the
settings outside `Rereading` the code does not do so.  `TwoReadings` states what holds instead, and
`ReloadHonoured` promises nothing for them. `dangling` says that the
string of `ABase_init_command` was freed by `main` while `config_list` still
points to it.  A double free is undefined; the model lets it abort or not.
`SigHup` and `SigTerm` can fall between any two steps.

`Broadcast` is what the queue promises, without a queue: a log, its members, and
`Give`, which hands the next message to a member no sooner than all have had the one
before.  `ImplementsBroadcast` is the refinement; the log is
`PlainOf(sent)`, the messages posted without those that the bus itself handles.

### ScriptExec

One step for each access to something that the signal handler also uses.
`HandleSigchld` is `mod_sigchld` with `mod_browser_sigchld` and may run between
any two steps while the signal is pending.  `signal()` at `ABased.c:307` does not set `SA_NOCLDSTOP`, so a
script that is stopped and not dead also raises SIGCHLD; that somebody stops a script is
not modelled.  The message file holds, for each line, the run
that wrote it.

### LcdLink

A callback of mod_lcdproc is the sequence `todo` of the steps it still has to make,
as in `MpdPlayer`: `cmd` is one `sendtextWait`, which becomes `wait` when the command
is written; `status`, `time` and `stale` are commands whose text is aligned by the display
width, `pad` and `fill` the loops that fill a line; `drain` is the loop at the end of
`mod_lcdproc_update`.  `phase` is the turn of the main loop: one poll, then messages, then the update.
`connected`, `polled` and `display` stand for `lcdproc_fd`, `mod_lcdproc.poll`, and
`mod_lcdproc_wid` with `mod_lcdproc_hgt`.

Of the socket the model keeps the commands LCDd has not read, the lines the daemon
has not read, and whether the last of these is complete.  `Readline` is `readline` on a
socket that does not block: it loses the beginning of an incomplete line.  What the loops
then compare is the beginning followed by what the buffer held before, so an
incomplete success line may or may not count as one (`ReadOn`).  A write to a full socket is lost; the
second write after LCDd has gone kills the process.

Drawing is abstracted to its commands: none under the browser, up to four steps for the
other screens.  Of a text only its length is kept, and only where it is laid out against the
display width in a buffer of fixed size; `TimeTexts` and `StatusTexts` are lengths, `Displays` the sizes that
a connect line may name.  The width is unsigned, so what is smaller than a text makes a huge difference:

- the line of an empty playlist needs 14 to 49 columns (`PadRuns`, `PadFits`; `mod_lcdproc.c:547-551`), and
  its loops run even without a connection;
- the loop before the long status needs 12 (`FillRuns`; 711);
- the right-aligned status is copied to before the buffer when it is longer than the
  display, also on a known one (`StatusSpills`; 272), and the first column may be kept free (`Preserved`; 262-265);
- the centred time must fit (`Centred`; 274);
- a message that shows the time alone does so with an uninitialised buffer while MPD has
  stopped (`stale`; 375-379 and 424).

`WildWrite` ends the process there.  A write a little outside a buffer may also hit nothing vital; `Sendtext`
is then the other outcome.  Left out: the text itself, and texts longer than the buffers they are put into, the
clock (only an "idle" message starts it, and nothing in the program posts one), the display timers,
which only choose between the same commands, displays of more than 127 columns, a command
written in part, and a SIGTERM during `readline`.

LCDd is external: it answers in order, answers hello with a connect line, sends keys
once it has the key list, may send other lines or bye, and may close.

### Browser

The variables are the fields of `struct browser`; `elements` are its slots, which
keep what is not overwritten, and `tree` is MPD's database.  Each action is one message of
`mod_browser_message` with everything it calls; `Remove` is also the display's timeout and
`Show` what drawing does to `status`.  `Read` is `mod_browser_get_mpddir`: an answer may be
cut short (any subset of the directory), a directory may be empty, fit exactly, or be too
long.  In the last two cases the fields behind the array are hit: on the layout of
`globalDef.h` the clearing of the element after the last one sets `DisplayPos` and
`CursorPos` to 0, and an element too many takes them as a pointer.

`sound` is a history variable: nothing of that kind has happened since the cursor was last set for
a directory.  The properties say that then, and whatever keys were pressed before, the menu is
right; `CrashIsNotSound` turned round is the list of what can kill the process: an empty first
directory, "up" in an empty one, one with too many entries, one that has shrunk
while the browser was closed, and a browser activated by "show", "setpwd" or
`browser_activate_first` before it has read anything.  One way is left that needs no such
directory: on a display of more than four lines, a directory that with its headline does not fill it
gives a window that begins before the first element (`ElementCount-display_hgt`,
`mod_browser.c:321`), and `mod_lcdproc_refresh_browser` follows the pointer there.  What lies
before the array are `status` and the end of `currentDir`, which are no pointers.

Two things the code does differ from what it seems to intend, and the properties say only what it
does.  The comment at `mod_browser.c:394` wants the cursor on the directory one has come
back from; `mod_browser_find_element` compares that directory's name with whole paths, so this
works in the root only (`BackMarksOrigin`) and below it the cursor goes to the first entry.  On
a display of two lines the mark is not shown after `back` until the next move
(`MarkVisible` asks for three).

Left out: letters of names, the conversion of character sets, `mod_browser_intodirscan` (the path
of the script directory starts with "/", which no path from MPD does), an LCDd that is not
there (nothing is drawn then), and a display whose height changes.

### LircConfig, LircClient and Lirc

`LircConfig` is the parser.  A file is a sequence of lines, a line its token and its value;
`ReadLine` is the body of the loop in `lirc_readconfig` with `lirc_mode`, and its record has the local
variables of that loop: the open entry, the mode, the remote.  Words are names; cutting a line into
words, escape sequences and the file's encoding are left out.  `Flags` keeps a peculiarity of
`lirc_flags`: only its first call of `strtok` splits at "|".  `Readconfig` returns the list of entries or
`NULL`.  `Faithful` says independently what a file means, by the places of its lines:
the entries between their brackets, the mode around each, for each button the remote named last
in the same entry.  It speaks of files in which no two flags are joined by "|" (`FlagsApart`), because
there `lirc_flags` is not what the file says; the model of `lirc_flags` covers these files, too.

`LircClient` has the list in use (`entries`) and what changes in it: `nextCode` and
`nextConfig` are the positions of `next_code` and `next_config`, 0 for `NULL`,
`entered` the entries whose `ecno` is set, `next` is `config->next`.  `Examine` is one round of the loop in
`lirc_code2char`: `lirc_iscode`, and when the entry matches, `lirc_execute`.  `mod_lirc_poll` calls
`lirc_code2char` until it returns no string; `scan` goes through the list, `GiveUp` is the
call that finds nothing more.  When a wrong press breaks a sequence, `lirc_iscode` looks for a
place where the presses seen so far still fit, by comparing the sequence with itself
(`Resumes`, `Fallback`).  A wildcard of the second argument is handed to `strcasecmp` as the
pointer it is; `Crashes` says when that happens.

`Lirc` adds the socket.  A line is two units, the second with the newline, and the buffer of
100 bytes is `PacketSize` units.  lircd may send one unit or both, a read takes what there is and what
fits, so lines arrive in parts, together, or one and a half at a time.  `Take` is
`lirc_nextcode`: it reads only when its buffer holds no whole line, returns the first line and keeps the
rest.  A line that stays in the buffer is handled when the socket is readable again, as in the
code.  A part of a line that is read alone gives `code` NULL without an error, and `mod_lirc_poll`
hands it to `sscanf` (`PollCrash`).  This includes lines longer than the buffer, so the
branch that enlarges it (`lirc_client.c:1213`) cannot be reached in this program.  `irconfig` is what
`mod_lirc_irconfig` points to: `mod_lirc_reload` frees the old configuration first, so a file that
cannot be read leaves a null or a freed pointer.  `Unnamed` stands for a configuration that does not
set `lirc_config`, perhaps because ABase's own file could not be read, in an environment without `HOME`:
`lirc_readconfig` then gives `strlen` a null pointer (`lirc_client.c:544-545`), at the start and at a reload.  What a freed one does is
undefined: it may still work, or end the process.

lircd is external.  It sends key presses, each held up to `MaxHeld` times, and other messages, and may
close.  It sends between two lookups only: `mod_lirc_poll` looks at the socket once, so
what arrives during a lookup is the same as what arrives after it.  The histories `seen`, `last`,
`executed`, `sent`, `handled` and `spoiled` serve the properties.  The version in
`lirc_client.h` leaves out `lirc_nextir` and `lirc_ir2char`.  Lack of memory is not modelled.

## 3. What the runs show

| run | instance | result |
|---|---|---|
| `client` | 2 commands, lists up to 3, 5 request and 6 answer lines | types; `Lockstep`; `ListOksExact` |
| `player` | playlist of 0..1, one entry per directory, other clients, an MPD that may stop answering, answer late or close | types; `CrashNeedsFault`; `BusyOnlyAfterStopOrDjump`; `ClientSpec` (the module meets the library's obligations); `StatusIsFresh`; `OperationsReturn` |
| `player_served` | MPD answers, no faults, two entries | `StatusConverges` |
| `player_clear` | no faults | violated: `pl_clear` after an unread answer never reaches MPD |
| `daemon` | 4 modules with 6 settings, 2 messages, bursts of 1, the start command and one message more, one edit of the file, unreadable file, init command | types; `OrderedDelivery`; `TwoReadings`; `ImplementsBroadcast`; `Terminates`; `EverythingHandled`; `ReloadHonoured` |
| `daemon_hangup` | readable file, no init command | violated: a SIGHUP during `mod_reload` is forgotten |
| `script` | 3 scripts, 2 process identifiers, 3 lines | types; `StatusOfThisChild`; `WaitDoesNotBlock`; `NoChildLeftBehind`; `CommandsOfThisRun`; `SlowScriptReturns` |
| `script_race` | the same | violated: a script that ends early leaves the daemon waiting for ever |
| `lcd` | 2 connection attempts, 2 keys, 2 unread commands, 2 unread lines, displays of 16x2, 10x4 and 20x4 | types; `CrashNeedsCause`; `KeysNotInvented`; `CallbacksReturn`; `LossNoticed` |
| `lcd_skip` | the same | violated: the loops that skip success lines also drop the line that ends them, be it a key or the connect line |
| `browser` | databases of 9, 8 and 0 entries, 4 slots, displays of 2, 3, 4, 5 and 7 lines | types; `CrashIsNotSound`; `MarkVisible`; `ShowsDirectory`; `BackMarksOrigin` |
| `lirc` | 2 buttons, 4 lines of lircd, keys held for 2 repeats, a buffer of 3 units, 4 files with sequences, modes, a wildcard and an error, 1 reload; 19 608 more files that are only read | types; `ParsedAsWritten`; `LongestMatch`; `EachEntryOnce`; `LinesWhole`; `LircCrashNeedsCause`; `LookupEnds` |

Bounds, and why they are enough:

- `MaxRequests`, `MaxAnswers`, `MaxListed` in `MCMpdClient` leave room for a
  complete list of three commands with data; `MaxAfterFault` 2 bounds the lines under way after a fault.  In step at most one command or list is
  under way, so longer streams only come from longer lists; the theorem covers them.
- `MaxUnread` 1 and `MaxBacklog` 0 in `player`: MPD sends a line when the one before has been read, as through
  a full socket, and after a fault an operation begins only when MPD has taken all commands
  written before.  The lines held back are not lost: an operation may begin while an unread line is in the socket
  and MPD still has the rest of the list to send that an update gave up, and these lines
  come during it, during later ones, or never.  Without the second bound the commands of operation after
  operation could pile up before an MPD that hangs.  After a fault no other client changes MPD
  (`OtherClient`), since no property then compares its state.  No state constraint is used, so every fair
  behaviour of the instance is one that `OperationsReturn` is checked on.
- `MaxLength` 1: decisions only ask whether the playlist is empty.
- `MaxSent` 2 counts messages over the whole run and includes the start command: one message more, or
  "reload", may be posted, before, during or after the dispersal of the first.  The theorems about
  the queue hold for any number.
- `MaxVersion` 1 allows one edit.  The file is then version 1 or 2, which tells what was read before it
  from what was read after it, wherever in a reload the edit and the hangups fall.  That any number of edits
  leaves two readings is proved (`TwoReadingsHolds`); more edits take longer than the run may.
- Process identifiers are reused with two identifiers and three scripts.
- `MaxAttempts` 2 of `LcdLink` lets a failed start or a loss be followed by a
  reload; nothing of one connection but `display` outlives it.
- `MaxUnread` and `MaxArrived` of `LcdLink` are the sizes of the socket's buffers, which a slow
  peer really fills: two of each give an answer with a line behind it, and a full socket.
- `Sizes` of `MCLcdLink`: 16x2 shows everything safely, 10x4 is too narrow for the time, the padding
  and the empty playlist, 20x4 for the right-aligned status.
- `Sequences` of `MCLirc` has a sequence that overlaps itself (A A B), one with a wildcard in
  front, and an entry with `repeat`; four lines are enough to break each of them and
  complete it.  `ModesFile` leaves the starting mode for one in which an entry with `quit` and the flag
  `mode` hides the entry after it.  A reload brings this file, a bad one, or finds none.
- The parser is checked on every file of up to five lines over seven kinds of line: an entry
  inside a mode, every bracket out of place, and a remote before, behind and between the buttons of two
  entries need no more.
- A buffer of three units holds one and a half lines: it can be empty, hold a part, a line, or a
  line and a part of the next.
- `MaxEntries` 4 with directories of 0 to 5 entries: empty, short, just fitting, too long; more entries
  than lines on every display, so that the window has a beginning, a middle and an end; five
  and seven lines are more than some and all directories fill.  Three
  levels of directories, so that `back` ends in the root and below it.

Deadlock checking is off: the daemon may stop, a script sequence ends at
`MaxRuns`, and the bounds stop the senders.

`Daemon` also has the string of `ABase_init_command`, which `main` frees although the
configuration still owns it (`ABased.c:324`): a later reload or the shutdown may abort (`pc =
"aborted"`).  No run asks for a counterexample, as the first such release shows it.

Fairness:

- `FairSpec` of `MpdPlayer` is weak fairness of the client's own steps: each
  library call returns after at most its timeout, and nothing else is promised.
- `ServedSpec` adds weak fairness of MPD (it answers) and strong fairness of
  `Update`: `loop` comes to `mod_update` at least every half second, so the
  display's update callback runs again and again.  Strong, because other
  operations come in between and disable it for a while.
- `FairDaemonSpec` is weak fairness of the daemon's own steps: callbacks return and
  `select` waits half a second at most.  `EverythingHandled` needs that
  hangups stop, which it states: each of them makes `loop` return before
  `mod_update`.
- `FairLinkSpec` is weak fairness of the daemon's own steps except reading the keyboard; LCDd
  and the network owe nothing.
- `FairSpec` of `Lirc` is weak fairness of `Code2char` and `CrashInIscode`: the program goes on with a
  lookup it has begun.  lircd and the user owe nothing.
- `FairScriptSpec`: the daemon runs, a pending signal is delivered, and the
  script itself ends.

## 4. What is proved

- `MpdClientProofs`: `TypeCorrect`, and `LockstepHolds`: as long as no fault has misaligned
  the stream, `doneProcessing` is set exactly when nothing is under way, and when
  it is clear exactly one terminated answer is due.  `Lockstep` is inductive together with
  `TypeOK`: its four cases (`ListOpen`, `RequestUnderWay`,
  `BeingAnswered`, `FullyAnswered`) are the stages of one exchange, and each action
  either stays in a stage or moves to the next.  `ListOksExactHolds` is about the counter
  `listOks` beside it: `OksInv` says at each stage how many `list_OK` lines are still to be
  sent (a command of the list each) or are under way (`Oks`, the size of the set of their places),
  and `FirstLine` that what is read next is the first line of the one answer due, so the
  counter is positive at a `list_OK` and zero at the `OK` of the list.
- `DaemonProofs`: `DaemonTypeCorrect`; `OrderedDeliveryHolds`; `TwoReadingsHolds`;
  `BroadcastImplemented`.
  `OrderedDelivery` is strengthened by `DeliveryContext`, which adds that modules
  registered in `modList` are distinct and a prefix of the order of initialisation,
  that nobody has received anything before the first dispersal, and
  where `turn` stands in each phase.  `SettingsContext` adds that settings which
  no callback reads again never change, and that during a reload those of the modules before `turn` that
  are read again already have the new version.  The refinement of
  `Broadcast` rests on `DeliveryContext`: its log is what was posted for the modules, `PlainOf(sent)`, and
  each step of the daemon is a step of the broadcast or none at all.  `PlainOf` numbers the messages by
  their rank, so that a message posted is appended to the log, and what a module has had is
  a prefix of it.
- `MpdPlayerProofs`: `ClientSpecHolds`, that `MpdPlayer` implements `MpdClient`.  Every call of a
  module is a step that `MpdClient` allows its caller; the one that needs an argument is
  `mpd_sendCommandListOkBegin`, which lets its command through without looking whether an
  answer is due.  `PlaceInv` says of the calls still to be made that a list is opened only
  behind the end of `mod_mpd_update_status`, and that this end stands behind a
  `mpd_finishCommand`; so nothing is due there.  Each operation is shown to be such a sequence
  (`StartsProgram`), each call to keep the rest of it so (`GoesOn`).  `PlayerLockstep` follows:
  what is proved about the connection holds for these three modules together, for any
  playlist, any backlog and any order of messages; `PlayerListOks` likewise.
- `PlayerStateProofs`: `PlayerTypeCorrect`, `BusyOnlyHolds`, `CrashNeedsFaultHolds` and
  `StatusIsFreshHolds`.  The first two by `OwnInv` on top of `PlaceInv`.
  Its part `BlankInv` says that the structure `mpd_getStatus` has not filled (`Blank`) exists only
  during that call, or in an operation that stores nothing: only the answer of `status` is ever
  asked for where something is stored, and for `status` an unfilled structure becomes `NULL`.
  Its part `EndInv` says what the last call of the operation under way is; each operation is shown
  to end with `mpd_finishCommand` or the end of `mod_mpd_update_status`, except for the update
  and djump (`StartsWell`), and each call to keep that end (`EndKept`).
  The other two need the content of the answers, which `StatusInv` describes for runs without a fault:
  which calls may stand behind each call of an operation (`Shaped`, `Comes`); what MPD still has to
  send of the answer under way, up to its end (`Coming`, `Ending`), when the status is the
  question (`AskedInv`); and that no line of the periodic update's list is an error (`ListedInv`).
  So an update gets a status unless the transport fails, and neither uses a null pointer nor
  stores the status of an earlier question.
- `ScriptProofs`: `ScriptTypeCorrect`, `StatusOfThisChildHolds`, `WaitDoesNotBlockHolds`,
  `NoChildLeftBehindHolds`, `CommandsOfThisRunHolds`, for any number of runs and with SIGCHLD
  between any two steps.  They are proved together as `ScriptInv`: `ChildInv` says from which line on the
  globals are about the child under way, `HookInv` when the callback is installed,
  `FileInv` whose lines the message file holds.
- `LcdLinkProofs`: `LinkTypeCorrect`, `CrashNeedsCauseHolds`, `KeysNotInventedHolds`, for any
  number of keys, lines and attempts.  `CauseInv` adds that the daemon does not believe in a connection it
  has shut down itself; `WildWriteHasCause` that each of the ways to write outside a buffer needs
  a display that is not `Roomy`, or the time shown while MPD has stopped.  `KeysInv` orders the keys that are still
  in the socket: they were pressed, in this order, and after all those already posted.
- `LircProofs`: `LircTypeCorrect`, `EachEntryOnceHolds`, `LinesWholeHolds`, `LircCrashNeedsCauseHolds`,
  `LongestMatchHolds`, `ParsedAsWrittenHolds`, for any configuration
  files, any number of lines, and any size of the buffer from two units.  `ScanInv` says where
  `config->next` and the search stand to each other.  `WireInv` says that what was handled, the buffer and
  the socket are, one behind the other, the units of the lines sent; a line is cut off behind the
  first newline, so what was handled always ends with a whole line.  `CauseInv` says which
  pointer a configuration that could not be read has left.

  `LongestInv`: `next_code` of each entry stands right behind the longest beginning of its sequence
  with which the presses seen end.  A press that fits makes this beginning longer by one
  (`HitKeepsLongest`).  After one that does not, `lirc_iscode` compares the sequence with itself;
  `AgreedMatches` and `OverlapAgrees` show that this is as good as comparing with the presses, of which
  it keeps no record, unless the comparison reads a wildcard as a pointer (`MissKeepsLongest`).

  For the parser, `ReadInv(f, m, p)` says what the variables of the loop, p, stand for when it comes to line m:
  p has failed exactly when a line before m does not fit; its mode and its remote are those the
  places of the lines before m give; its list is the meaning of the entries that are closed; and its open
  entry is what the lines so far say of the entry opened last (`EntryInv`).  Each token keeps this
  (`ReadInvStep`, with `AssignStep` for the values, `BeginStep` and `EndStep` for the brackets), and at the
  end of the file it is `Faithful` (`ReadconfigFaithful`).  `After` is a recursive function;
  `AfterEach` shows that it exists and `UpTo` is the induction over the lines, by the least
  line for which something would not hold.
- `BrowserProofs`: `BrowserTypeCorrect`, `CrashIsNotSoundHolds`, `MarkVisibleHolds`,
  `ShowsDirectoryHolds`, `BackMarksOriginHolds`, for any database, array, keys and heights of the
  display.  Two lemmas carry them: `Places`, that `Nth` numbers the entries of a directory
  without a gap, because directories and songs are in a strict order; and `WindowShows`, the arithmetic
  of `mod_browser_cursor`, by the three cases of the code.  `BrowserInv` takes the properties together
  and adds that as long as the first slot is empty nothing has been read (`Unread`).  `Back` finds the
  directory in the root because its entries' parent is listed there.
- Assumptions: the list brackets are not commands (`BracketsAssumption`), the
  init functions are distinct (`ModuleAssumption`), a buffer holds more than one unit
  (`LircAssumption`).  `MessageAssumption`, `FlagAssumption`, `PlayerAssumption`, `ScriptAssumption`,
  `LinkAssumption` and `LircNames` type the constants, `FilesAssumption` the lines of the
  configuration files; about what is read from them nothing is assumed.  Modules with a callback are modules
  (`CallbackAssumption`), and each setting belongs to one (`SettingAssumption`).
  `BrowserAssumption` types the databases, keys and displays and says that a database is finite.
  `NullAssumption` (of `Browser` and of `Lirc`), `PointerAssumption` and `NoneAssumption` say that a
  null pointer is none of the values it is compared with, `UnnamedAssumption` that a missing name is no file, `TreeAssumption` that the parent of a listed entry is
  a listed directory.

Every invariant and every refinement that a run checks is also proved.  Only model-checked is what must
eventually happen, since the prover has no liveness under fairness: `OperationsReturn` and
`StatusConverges` of the player, `Terminates`, `EverythingHandled` and `ReloadHonoured` of the daemon,
`SlowScriptReturns`, `CallbacksReturn` and `LossNoticed` of the link, and `LookupEnds`.

## 5. What is not modelled, and the plan

Not modelled: the answer queue of `mod_query` (no module that is built posts a
query), command line and daemonising, `exec_on_close`, logging, character tables, the words of a line of the remote control's file.

Planned, in this order:

1. `Config`: the list of keys with add, remove and shadowing.
2. `Djump` and `Format`: the digit register, and title formatting as functions
   against a reference definition.
3. Composition of `Daemon` and `ScriptExec`: SIGTERM while a script runs.
