------------------------------ MODULE MpdPlayer ------------------------------
(***************************************************************************)
(* mod_mpd.c on top of libmpdclient: the periodic update, the user's       *)
(* commands, and the calls that mod_browser.c and mod_lcdproc.c make on    *)
(* the same global connection.  Each operation is a straight sequence of   *)
(* library calls with a few branches; `todo' holds the calls that the      *)
(* operation in progress has still to make, so that the server, other MPD  *)
(* clients and the transport can act between any two lines read.           *)
(***************************************************************************)
EXTENDS MpdClient

CONSTANTS
  MaxLength,    \* longest playlist
  MaxEntries,   \* entries in an lsinfo answer
  MaxBacklog,   \* commands MPD may have still to take when an operation starts
                \* after a fault
  MaxUnread,    \* lines that MPD sends ahead of what is read
  Faulty,       \* whether the transport may fail
  Shared,       \* whether anyone else changes what MPD does
  None          \* a NULL mpd_Status*

State == {"stop", "play", "pause"}

\* status, currentsong, stats and lsinfo are read; the others change MPD.
\* volume, repeat, random and seek do not touch what is modelled: "set".
PlayerCommand == {"status", "currentsong", "stats", "lsinfo",
                  "play", "stop", "pause", "resume", "set", "delete", "clear", "add"}
Queries == {"status", "currentsong", "stats", "lsinfo"}

Status == [state : State, length : 0..MaxLength]
MpdStatus == {s \in Status : s.length = 0 => s.state = "stop"}
PlayerElement == [kind : {"status"}, val : Status] \cup [kind : {"stats", "file"}]

\* The connection carries these commands and answers.
ASSUME PlayerAssumption ==
  /\ Command = PlayerCommand /\ Element = PlayerElement
  /\ MaxLength \in Nat /\ MaxEntries \in Nat \ {0}
  /\ MaxBacklog \in Nat /\ MaxUnread \in Nat \ {0}

\* mpd_getStatus before it has seen the state line.
Blank == [state |-> "unknown", length |-> 0]

\* NULL is neither a structure nor an element.
ASSUME NoneAssumption == None \notin Status /\ NoElement \notin Element

VARIABLES
  todo,          \* the library calls still to be made
  status,        \* the mpd_Status* of the operation in progress
  player,        \* player_status
  seekcounter,
  crashed,       \* the process was killed: by a bad pointer or by SIGPIPE
  mpd,           \* the player state inside the server
  emitted,       \* data lines already sent for the command being answered
  op,            \* history: "update", "djump" or "other", begun last
  asked          \* history: the states MPD was in since mod_mpd_update_status
                 \* sent its command, until it stores the answer

client == <<todo, status, player, seekcounter, crashed, op, asked>>
mpdvars == <<mpd, emitted>>
allvars == <<vars, client, mpdvars>>

Do(what) == [do |-> what, cmd |-> "none"]
Send(r) == [do |-> "send", cmd |-> r]
Get(r) == [do |-> "get", cmd |-> r]

PlayerTypeOK ==
  /\ TypeOK
  /\ todo \in Seq([do : {"send", "get", "scan", "finish", "store", "choose", "begin", "end",
                         "song", "next", "entity", "head", "tail"},
                   cmd : Command \cup {"none", "one", "all"}])
  /\ status \in {None, Blank} \cup Status
  /\ player \in Status
  /\ seekcounter \in 0..1
  /\ crashed \in BOOLEAN
  /\ mpd \in MpdStatus
  /\ emitted \in 0..MaxEntries
  /\ op \in {"update", "djump", "other"}
  /\ asked \subseteq MpdStatus

-----------------------------------------------------------------------------
(* The operations.                                                         *)

\* Mutant: the rest of an earlier answer is not skipped first.
UpdateStatusUnflushed == <<Send("status"), Get("status"), Do("finish"), Do("store")>>

\* Mutant: the rest of the answer is left unread when an error ended it.
UpdateStatusUnfinished == <<Do("finish"), Send("status"), Get("status"), Do("store")>>

UpdateStatus == <<Do("finish"), Send("status"), Get("status"), Do("finish"), Do("store")>>
UpdateSonginfo == <<Do("begin"), Send("status"), Send("currentsong"), Do("end"),
                    Get("status"), Do("song")>>
\* Mutant: the answer is left unread.
SendOnly(r) == <<Send(r)>>

Simple(r) == <<Send(r), Do("finish")>>

Start(name, calls) ==
  /\ todo = <<>> /\ ~crashed
  /\ desynced => Len(requests) <= MaxBacklog
  /\ todo' = calls
  /\ status' = None
  /\ op' = name
  /\ UNCHANGED <<vars, player, crashed, asked, mpdvars>>

StartOp(name, calls) == Start(name, calls) /\ UNCHANGED seekcounter
StartOther(calls) == StartOp("other", calls)

Update == StartOp("update", UpdateStatus \o UpdateSonginfo)

Play == StartOther(UpdateStatus \o <<Do("choose"), Do("finish")>>)

Stop == StartOther(Simple("stop") \o UpdateStatus)

Pause ==
  StartOther(
    (CASE player.state = "pause" -> <<Send("resume")>>
       [] player.state = "play" -> <<Send("pause")>>
       [] OTHER -> <<>>) \o <<Do("finish")>> \o UpdateStatus)

\* Mutant: the counter is never reset.
SeekCountsOn ==
  seekcounter' = seekcounter + 1 /\ Start("other", Simple("set") \o UpdateStatus)

\* Every second seek only counts down, and one without a number only sets the
\* counter.
Seek ==
  \/ seekcounter = 0 /\ seekcounter' = 1 /\ Start("other", Simple("set") \o UpdateStatus)
  \/ /\ todo = <<>> /\ ~crashed
     /\ seekcounter' = 1 - seekcounter
     /\ UNCHANGED <<vars, todo, status, player, crashed, op, asked, mpdvars>>

Jump ==
  /\ player.state \in {"play", "pause"}
  /\ StartOther(Simple("play")
       \o (IF player.state = "pause" THEN <<Send("pause")>> ELSE <<>>)
       \o <<Do("finish")>>)

\* The last digit of a djump: mpd_sendPlayCommand without mpd_finishCommand.
Djump == StartOp("djump", <<Send("play")>>)

SetOption == StartOther(Simple("set"))
DelCurrSong == StartOther(Simple("delete"))
PlClear == StartOther(Simple("clear"))

BrowserAdd == StartOther(<<Do("finish")>> \o Simple("add"))
GetMpdDir ==
  StartOther(<<Do("finish"), Send("lsinfo"), [do |-> "entity", cmd |-> "all"], Do("finish")>>)

\* mod_lcdproc_refresh with an empty playlist.
RefreshStats ==
  /\ player.length = 0
  /\ StartOther(<<Do("finish"), Send("stats"), Get("stats"), Do("finish")>>)

StartOperation ==
  \/ Update \/ Play \/ Stop \/ Pause \/ Seek \/ Jump \/ Djump \/ SetOption
  \/ DelCurrSong \/ PlClear \/ BrowserAdd \/ GetMpdDir \/ RefreshStats

-----------------------------------------------------------------------------
(* The library calls, one step for each command written or line read.      *)

At(what) == todo # <<>> /\ Head(todo).do = what
Return == todo' = Tail(todo)
Become(what) == todo' = <<[Head(todo) EXCEPT !.do = what]>> \o Tail(todo)
Stay == UNCHANGED todo

Ordinary == UNCHANGED <<player, seekcounter, crashed, op, asked, mpdvars>>

SendCommand(r) ==
  /\ ExecuteCommand(r)
  /\ Return
  /\ asked' = IF r = "status" /\ ~commandList THEN {mpd} ELSE asked
  /\ UNCHANGED <<status, player, seekcounter, crashed, op, mpdvars>>

CallSend == At("send") /\ SendCommand(Head(todo).cmd)

\* mod_mpd_play: resume, seek to the start, or play, by the state just read.
CallChoose ==
  /\ At("choose")
  /\ SendCommand(CASE player.state = "pause" -> "resume"
                   [] player.state = "play" -> "set"
                   [] OTHER -> "play")

CallBegin ==
  At("begin") /\ SendCommandListOkBegin /\ Return /\ UNCHANGED status /\ Ordinary
CallEnd ==
  At("end") /\ SendCommandListEnd /\ Return /\ UNCHANGED status /\ Ordinary

CallFinish ==
  /\ At("finish")
  /\ \/ doneProcessing /\ Return /\ UNCHANGED vars
     \/ ~doneProcessing /\ doneListOk /\ ClearDoneListOk /\ Stay
     \/ ~doneProcessing /\ ~doneListOk /\ GetNextReturnElement /\ Stay
  /\ UNCHANGED status /\ Ordinary

\* mpd_getStatus and mpd_getStats up to the check of connection->error.
CallGet ==
  /\ At("get")
  /\ IF AlreadyDone
     THEN status' = None /\ Return /\ UNCHANGED vars
     ELSE /\ status' = Blank
          /\ Become("scan")
          /\ IF returnElement = NoElement THEN GetNextReturnElement ELSE UNCHANGED vars
  /\ Ordinary

Fill(st, e) == IF e.kind = "status" THEN e.val ELSE st

\* Their loop over the data lines, and the checks after it.
CallScan ==
  /\ At("scan")
  /\ \/ error # "none" /\ status' = None /\ Return /\ UNCHANGED vars
     \/ /\ error = "none" /\ returnElement # NoElement
        /\ status' = Fill(status, returnElement)
        /\ GetNextReturnElement /\ Stay
     \/ /\ error = "none" /\ returnElement = NoElement
        /\ Return
        /\ IF status.state = "unknown" /\ Head(todo).cmd = "status"
           THEN /\ status' = None /\ error' = "local"
                /\ UNCHANGED <<doneProcessing, commandList, listOks, doneListOk, returnElement,
                               requests, answers, server, desynced>>
           ELSE UNCHANGED <<status, vars>>
  /\ Ordinary

\* Mutant: a failure is shown as a stopped player.
CallStoreStopsOnError ==
  /\ At("store")
  /\ player' = IF error # "none" \/ status = None THEN [state |-> "stop", length |-> 0]
               ELSE status
  /\ Return
  /\ asked' = {}
  /\ UNCHANGED <<vars, status, seekcounter, crashed, op, mpdvars>>

\* The end of mod_mpd_update_status: after any error the old status stays, and
\* if debug messages are logged, the number of the error is printed as a string.
CallStore ==
  /\ At("store")
  /\ player' = IF error # "none" \/ status = None THEN player ELSE status
  /\ \/ Return /\ UNCHANGED crashed
     \/ error # "none" /\ crashed' = TRUE /\ todo' = <<>>
  /\ asked' = {}
  /\ UNCHANGED <<vars, status, seekcounter, op, mpdvars>>

\* mod_mpd_update_songinfo dereferences the status without a check, and reads
\* the rest of the answer only when a song is playing or paused.
CallSong ==
  /\ At("song")
  /\ IF status = None
     THEN crashed' = TRUE /\ todo' = <<>>
     ELSE /\ todo' = IF status.state = "stop" THEN Tail(todo)
                     ELSE <<Do("next"), [do |-> "entity", cmd |-> "one"], Do("finish")>>
          /\ UNCHANGED crashed
  /\ UNCHANGED <<vars, status, player, seekcounter, op, asked, mpdvars>>

\* mpd_nextListOkCommand.
CallNext ==
  /\ At("next")
  /\ IF ~doneProcessing /\ listOks > 0 /\ ~doneListOk
     THEN GetNextReturnElement /\ Stay
     ELSE /\ Return
          /\ IF ~doneProcessing /\ doneListOk THEN ClearDoneListOk ELSE UNCHANGED vars
  /\ UNCHANGED status /\ Ordinary

\* mpd_getNextInfoEntity: up to the first data line,
CallEntity ==
  /\ At("entity")
  /\ IF AlreadyDone
     THEN Return /\ UNCHANGED vars
     ELSE /\ Become("head")
          /\ IF returnElement = NoElement THEN GetNextReturnElement ELSE UNCHANGED vars
  /\ UNCHANGED status /\ Ordinary

IsEntity(e) == e.kind = "file"

\* which must start an entity,
CallHead ==
  /\ At("head")
  /\ IF returnElement = NoElement THEN Return /\ UNCHANGED vars
     ELSE IF IsEntity(returnElement) THEN Become("tail") /\ GetNextReturnElement
     ELSE /\ Return /\ error' = "local"
          /\ UNCHANGED <<doneProcessing, commandList, listOks, doneListOk, returnElement,
                         requests, answers, server, desynced>>
  /\ UNCHANGED status /\ Ordinary

\* mod_browser_get_mpddir goes on to the next entity.
EntityComplete ==
  /\ IF Head(todo).cmd = "all" THEN Become("entity") ELSE Return
  /\ UNCHANGED vars

\* and on to the start of the next one.
CallTail ==
  /\ At("tail")
  /\ IF returnElement = NoElement THEN EntityComplete
     ELSE IF IsEntity(returnElement) THEN EntityComplete
     ELSE GetNextReturnElement /\ Stay
  /\ UNCHANGED status /\ Ordinary

\* A write to a socket that MPD has closed may raise SIGPIPE, which nobody
\* handles.
SigPipe ==
  /\ ~serverUp
  /\ At("send") \/ At("choose") \/ At("begin") \/ At("end")
  /\ crashed' = TRUE /\ todo' = <<>>
  /\ UNCHANGED <<vars, status, player, seekcounter, op, asked, mpdvars>>

NoFault == desynced' = desynced /\ (error' # error => error' \notin {"TIMEOUT", "SENDING"})

ClientStep ==
  /\ \/ CallSend \/ CallChoose \/ CallBegin \/ CallEnd \/ CallFinish \/ CallGet \/ CallScan
     \/ CallStore \/ CallSong \/ CallNext \/ CallEntity \/ CallHead \/ CallTail \/ SigPipe
  /\ Faulty \/ NoFault

-----------------------------------------------------------------------------
(* MPD (external): what its answers say, and what its commands do.         *)

Effect(r) ==
  CASE r \in {"play", "resume"} -> IF mpd.length > 0 THEN [mpd EXCEPT !.state = "play"] ELSE mpd
    [] r = "pause" -> IF mpd.state = "stop" THEN mpd ELSE [mpd EXCEPT !.state = "pause"]
    [] r = "stop" -> [mpd EXCEPT !.state = "stop"]
    [] r = "clear" -> [state |-> "stop", length |-> 0]
    [] r = "delete" -> IF mpd.length > 1 THEN [mpd EXCEPT !.length = @ - 1]
                       ELSE [state |-> "stop", length |-> 0]
    [] r = "add" -> IF mpd.length < MaxLength THEN [mpd EXCEPT !.length = @ + 1] ELSE mpd
    [] OTHER -> mpd

SetMpd(new) ==
  /\ mpd' = new
  /\ asked' = IF asked = {} THEN {} ELSE asked \cup {new}

MpdOther == UNCHANGED <<todo, status, player, seekcounter, crashed, op>>

\* status and stats answer one element, currentsong at most one.
MpdData ==
  /\ Answering /\ list # <<>>
  /\ emitted < (IF Head(list) = "lsinfo" THEN MaxEntries ELSE 1)
  /\ Head(list) \in Queries
  /\ EmitData(CASE Head(list) = "status" -> [kind |-> "status", val |-> mpd]
                [] Head(list) = "stats" -> [kind |-> "stats"]
                [] OTHER -> [kind |-> "file"])
  /\ emitted' = emitted + 1
  /\ UNCHANGED <<mpd, asked>> /\ MpdOther

Complete(r) == r \in {"status", "stats"} => emitted = 1

MpdListOK ==
  /\ EmitListOK
  /\ Head(list) \in Command /\ Complete(Head(list))
  /\ emitted' = 0
  /\ SetMpd(Effect(Head(list)))
  /\ MpdOther

MpdOK ==
  /\ EmitOK
  /\ list # <<>> => Complete(Head(list))
  /\ emitted' = 0
  /\ SetMpd(IF list = <<>> THEN mpd ELSE Effect(Head(list)))
  /\ MpdOther

\* MPD lets the daemon read its status, but may refuse any other command.
MpdACK ==
  /\ EmitACK
  /\ Head(list) \notin {"status", "currentsong", "stats"}
  /\ emitted' = 0 /\ UNCHANGED <<mpd, asked>> /\ MpdOther

MpdAccept == Accept /\ UNCHANGED <<mpd, emitted, asked>> /\ MpdOther

\* The bound holds back lines that fill the socket, it does not lose them.
MpdStep ==
  /\ Len(answers) < MaxUnread
  /\ MpdAccept \/ MpdData \/ MpdListOK \/ MpdOK \/ MpdACK

MpdClose == Faulty /\ ServerClose /\ UNCHANGED <<mpd, emitted, asked>> /\ MpdOther

\* Another client of MPD, or the end of the playlist.  Once the connection is
\* out of step no property compares the status with MPD's, so that is left out.
OtherClient ==
  /\ Shared /\ serverUp /\ ~desynced
  /\ \E new \in MpdStatus \ {mpd} : SetMpd(new)
  /\ UNCHANGED <<vars, emitted>> /\ MpdOther

-----------------------------------------------------------------------------
\* mod_mpd_init starts with the first update.  The zeroed player_status is in
\* none of the three states; all decisions take it for stop.
PlayerInit ==
  /\ Init
  /\ todo = UpdateStatus \o UpdateSonginfo
  /\ status = None
  /\ player = [state |-> "stop", length |-> 0]
  /\ seekcounter = 0
  /\ crashed = FALSE
  /\ mpd \in MpdStatus
  /\ emitted = 0
  /\ op = "update" /\ asked = {}

PlayerNext == StartOperation \/ ClientStep \/ MpdStep \/ MpdClose \/ OtherClient

PlayerSpec == PlayerInit /\ [][PlayerNext]_allvars

\* The daemon runs on: every library call waits at most for the timeout.
FairSpec == PlayerSpec /\ WF_allvars(ClientStep)

\* Moreover MPD answers, and the main loop comes round to the update.
ServedSpec == FairSpec /\ WF_allvars(MpdStep) /\ SF_allvars(Update)

-----------------------------------------------------------------------------
(* Properties.                                                             *)

\* mod_mpd's sequences of calls meet the library's obligation: every step is
\* one of MpdClient, and a command list is opened only when nothing is due.
ClientSpec == Spec

\* Only a failure of the transport can kill the process: a refusal by MPD, or
\* an answer left unread by another operation, never makes the status that
\* mod_mpd_update_songinfo uses unchecked NULL, and never leaves an error for
\* mod_mpd_update_status to print.
CrashNeedsFault == crashed => desynced \/ error \in {"TIMEOUT", "SENDING"}

\* The connection is left in the middle of an answer only by djump and by an
\* update that found MPD stopped.
BusyOnlyAfterStopOrDjump ==
  todo = <<>> /\ ~doneProcessing /\ ~crashed /\ ~desynced =>
    \/ op = "djump"
    \/ op = "update" /\ status # None /\ status.state = "stop"

\* A status that mod_mpd_update_status stores was true of MPD at some moment
\* after it was asked for, so the decisions of play, pause and jump rest on an
\* answer to their own question and not on an older one.
StatusIsFresh ==
  [][player' # player => desynced \/ player' \in asked]_allvars

\* The single-threaded main loop is never blocked for good by the connection:
\* every operation returns unless the process is killed in the middle of it.
\* That includes operations that begin while MPD hangs in the middle of a list
\* that an earlier update gave up, so that the late lines of that answer come
\* in between, are taken for answers to other commands, or never come.
OperationsReturn == todo # <<>> ~> todo = <<>> \/ crashed

\* Once nobody changes MPD any more, the status that the display and the
\* commands use becomes and stays MPD's own.
StatusConverges == <>[][mpd' = mpd]_allvars => <>[](player = mpd)

\* MANUAL.txt: pl_clear empties the current playlist.  Unless the transport
\* fails, handling the message writes the command to MPD.
PlClearReachesMpd ==
  [][At("send") /\ Head(todo).cmd = "clear" /\ todo' # todo /\ serverUp =>
       requests' # requests \/ error' \in {"TIMEOUT", "SENDING"}]_allvars

=============================================================================
