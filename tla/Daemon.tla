------------------------------- MODULE Daemon -------------------------------
(***************************************************************************)
(* The process itself: main() and loop() of ABased.c, the message queue    *)
(* and module list of ABasemod.c, and the signals that may arrive between  *)
(* any two of its steps.  A module is a set of callbacks; what a callback  *)
(* does to the other programs is left to the modules' own specifications,  *)
(* here it may only post messages.                                         *)
(***************************************************************************)
EXTENDS Naturals, Sequences, FiniteSets

CONSTANTS
  Module,
  InitOrder,      \* mod_list_init
  Polled,         \* modules with a watched descriptor and a poll callback
  Updated,        \* modules with an update callback
  Listening,      \* modules with a message callback
  Setting,        \* what modules keep of the configuration
  Owner,          \* the module that keeps each setting
  Rereading,      \* settings that its reload callback reads again
  Message,
  ReloadMsg,      \* the input message "reload"
  StartCommands,  \* welcome message, init commands, -m messages
  HasInitCommand, \* whether the configuration has ABase_init_command
  AlwaysReadable, \* whether config_reload always finds the file again
  MaxBurst,       \* messages one callback posts
  MaxSent,        \* messages posted before the callbacks stop posting
  MaxVersion      \* times the configuration file is edited

ASSUME ModuleAssumption ==
  /\ InitOrder \in Seq(Module)
  /\ \A i, j \in 1..Len(InitOrder) : InitOrder[i] = InitOrder[j] => i = j

ASSUME CallbackAssumption == Listening \subseteq Module

ASSUME SettingAssumption == Owner \in [Setting -> Module] /\ Rereading \subseteq Setting

ASSUME MessageAssumption ==
  /\ ReloadMsg \in Message
  /\ StartCommands \in Seq(Message)
  /\ MaxBurst \in Nat /\ MaxSent \in Nat /\ MaxVersion \in Nat

ASSUME FlagAssumption == HasInitCommand \in BOOLEAN /\ AlwaysReadable \in BOOLEAN

VARIABLES
  pc,          \* where the main program is
  initialised, \* how many functions of mod_list_init have run
  modList,     \* mod_list
  turn,        \* the position in mod_list of the next callback
  ready,       \* descriptors that select() reported and that are unpolled
  queue,       \* mod_msgs
  reload,
  terminate,
  failed,      \* loop() returned -1
  file,        \* version of the configuration file on disk
  config,      \* version in config_list, 0 when the file could not be read
  modConfig,   \* the version each setting was read from
  dangling,    \* a value of config_list was freed and is still linked
  received,    \* history: what each module's message callback was given
  dispersed,   \* history: the messages every module has had
  handled,     \* history: the messages removed from the queue
  sent,        \* history: the messages ever queued
  asked,       \* history: file version at the last SIGHUP
  owed         \* history: the same, without those while modules reload

flags == <<reload, terminate, failed>>
configuration == <<file, config, modConfig, dangling>>
hangups == <<asked, owed>>
deliveries == <<received, dispersed, handled>>
dvars == <<pc, initialised, modList, turn, ready, queue, flags, configuration,
           deliveries, sent, hangups>>

Version == 0..MaxVersion + 1
Where == {"init", "startup", "select", "poll", "dispatch", "update", "returned",
          "reload", "modreload", "exit", "stopped", "aborted", "killed"}

DaemonTypeOK ==
  /\ pc \in Where
  /\ initialised \in 0..Len(InitOrder)
  /\ modList \in Seq(Module)
  /\ turn \in Nat \ {0}
  /\ ready \subseteq Module
  /\ queue \in Seq(Message)
  /\ reload \in BOOLEAN /\ terminate \in BOOLEAN /\ failed \in BOOLEAN
  /\ file \in Version /\ config \in Version
  /\ modConfig \in [Setting -> Version]
  /\ dangling \in BOOLEAN
  /\ received \in [Module -> Seq(Message)]
  /\ dispersed \in Seq(Message)
  /\ handled \in Seq(Message)
  /\ sent \in Seq(Message)
  /\ asked \in Version /\ owed \in Version

Registered == {modList[i] : i \in 1..Len(modList)}

\* What a callback can post: mod_sendmsg appends to the end of mod_msgs.
Burst == UNION {[1..n -> Message] : n \in 0..MaxBurst}

\* Mutant: new messages go to the front of the queue.
SendmsgInFront(burst) ==
  /\ burst = <<>> \/ Len(sent) + Len(burst) <= MaxSent
  /\ queue' = burst \o queue
  /\ sent' = sent \o burst

Sendmsg(burst) ==
  /\ burst = <<>> \/ Len(sent) + Len(burst) <= MaxSent
  /\ queue' = queue \o burst
  /\ sent' = sent \o burst

SendsNothing == UNCHANGED <<queue, sent>>

-----------------------------------------------------------------------------
(* Start: config_read, mod_init, the signal handlers, the first messages.  *)

DaemonInit ==
  /\ pc = "init"
  /\ initialised = 0
  /\ modList = <<>>
  /\ turn = 1
  /\ ready = {}
  /\ queue = <<>>
  /\ reload = FALSE /\ terminate = FALSE /\ failed = FALSE
  /\ file = 1 /\ config = 1
  /\ modConfig = [s \in Setting |-> 1]
  /\ dangling = FALSE
  /\ received = [m \in Module |-> <<>>]
  /\ dispersed = <<>>
  /\ handled = <<>>
  /\ sent = <<>>
  /\ asked = 0 /\ owed = 0

\* An init function reads its settings from the configuration and registers
\* its module, or reports an error instead.
ModInit ==
  /\ pc = "init" /\ initialised < Len(InitOrder)
  /\ initialised' = initialised + 1
  /\ modList' \in {modList, Append(modList, InitOrder[initialised + 1])}
  /\ \E burst \in Burst : Sendmsg(burst)
  /\ UNCHANGED <<pc, turn, ready, flags, configuration, deliveries, hangups>>

InstallHandlers ==
  /\ pc = "init" /\ initialised = Len(InitOrder)
  /\ pc' = "startup"
  /\ SendsNothing
  /\ UNCHANGED <<initialised, modList, turn, ready, flags, configuration, deliveries, hangups>>

\* The string of ABase_init_command is cut up in place and then freed,
\* although config_list still owns it.
Startup ==
  /\ pc = "startup"
  /\ queue' = queue \o StartCommands
  /\ sent' = sent \o StartCommands
  /\ dangling' = HasInitCommand
  /\ pc' = "select"
  /\ UNCHANGED <<initialised, modList, turn, ready, flags, file, config, modConfig,
                 deliveries, hangups>>

-----------------------------------------------------------------------------
(* loop().                                                                 *)

\* Mutant: mod_update is called only after input.
SelectSkipsUpdate ==
  /\ pc = "select"
  /\ IF terminate \/ reload
     THEN pc' = "returned" /\ UNCHANGED ready
     ELSE \E fds \in SUBSET (Registered \cap Polled) :
            /\ ready' = fds
            /\ pc' = IF fds = {} THEN "select" ELSE "poll"
  /\ turn' = 1
  /\ SendsNothing
  /\ UNCHANGED <<initialised, modList, flags, configuration, deliveries, hangups>>

\* select() has returned.  The flags are looked at before its result.
Select ==
  /\ pc = "select"
  /\ IF terminate \/ reload
     THEN pc' = "returned" /\ UNCHANGED <<ready, failed>>
     ELSE \/ \E fds \in SUBSET (Registered \cap Polled) :
               /\ ready' = fds
               /\ pc' = IF fds = {} THEN "dispatch" ELSE "poll"
               /\ UNCHANGED failed
          \/ /\ failed' = TRUE
             /\ pc' = "returned"
             /\ UNCHANGED ready
  /\ turn' = 1
  /\ SendsNothing
  /\ UNCHANGED <<initialised, modList, reload, terminate, configuration, deliveries, hangups>>

Poll ==
  /\ pc = "poll"
  /\ \E m \in ready :
       /\ ready' = ready \ {m}
       /\ pc' = IF ready' = {} THEN "dispatch" ELSE "poll"
  /\ \E burst \in Burst : Sendmsg(burst)
  /\ UNCHANGED <<initialised, modList, turn, flags, configuration, deliveries, hangups>>

\* mod_update, first part.  The message stays at the head of the queue until
\* every module has had it, so what the callbacks post queues up behind it.
Dispatching == pc = "dispatch" /\ queue # <<>>
AtEnd == turn > Len(modList)

\* Mutant: the next dispersal starts before the first module.
RemoveHeadOffByOne ==
  /\ queue' = Tail(queue)
  /\ handled' = Append(handled, Head(queue))
  /\ turn' = 0

RemoveHead ==
  /\ queue' = Tail(queue)
  /\ handled' = Append(handled, Head(queue))
  /\ turn' = 1

\* raise(SIGHUP) runs the handler before it returns.
HandleReload ==
  /\ Dispatching /\ Head(queue) = ReloadMsg
  /\ reload' = TRUE
  /\ asked' = file /\ owed' = file
  /\ RemoveHead
  /\ UNCHANGED <<pc, initialised, modList, ready, terminate, failed, configuration,
                 received, dispersed, sent>>

Disperse ==
  /\ Dispatching /\ Head(queue) # ReloadMsg /\ ~AtEnd
  /\ turn' = turn + 1
  /\ IF modList[turn] \in Listening
     THEN /\ received' = [received EXCEPT ![modList[turn]] = Append(@, Head(queue))]
          /\ \E burst \in Burst : Sendmsg(burst)
     ELSE UNCHANGED received /\ SendsNothing
  /\ UNCHANGED <<pc, initialised, modList, ready, flags, configuration,
                 dispersed, handled, hangups>>

\* Mutant: the last module of the list is left out.
RemoveTooEarly ==
  /\ Dispatching /\ Head(queue) # ReloadMsg /\ turn >= Len(modList)
  /\ dispersed' = Append(dispersed, Head(queue))
  /\ RemoveHead
  /\ UNCHANGED <<pc, initialised, modList, ready, flags, configuration,
                 received, sent, hangups>>

Remove ==
  /\ Dispatching /\ Head(queue) # ReloadMsg /\ AtEnd
  /\ dispersed' = Append(dispersed, Head(queue))
  /\ RemoveHead
  /\ UNCHANGED <<pc, initialised, modList, ready, flags, configuration,
                 received, sent, hangups>>

QueueEmpty ==
  /\ pc = "dispatch" /\ queue = <<>>
  /\ pc' = "update" /\ turn' = 1
  /\ SendsNothing
  /\ UNCHANGED <<initialised, modList, ready, flags, configuration, deliveries, hangups>>

\* mod_update, second part; then loop() waits again.
UpdateModule ==
  /\ pc = "update" /\ ~AtEnd
  /\ turn' = turn + 1
  /\ IF modList[turn] \in Updated THEN \E burst \in Burst : Sendmsg(burst) ELSE SendsNothing
  /\ UNCHANGED <<pc, initialised, modList, ready, flags, configuration, deliveries, hangups>>

\* Mutant: the reload flag is cleared once per round.
UpdatesDoneClearsReload ==
  /\ pc = "update" /\ AtEnd
  /\ pc' = "select" /\ turn' = 1
  /\ reload' = FALSE
  /\ SendsNothing
  /\ UNCHANGED <<initialised, modList, ready, terminate, failed, configuration,
                 deliveries, hangups>>

UpdatesDone ==
  /\ pc = "update" /\ AtEnd
  /\ pc' = "select" /\ turn' = 1
  /\ SendsNothing
  /\ UNCHANGED <<initialised, modList, ready, flags, configuration, deliveries, hangups>>

-----------------------------------------------------------------------------
(* main() after loop() has returned.                                       *)

\* Mutant: the terminate flag is forgotten outside loop().
ContinueUnlessFailed == IF failed THEN "exit" ELSE "select"

Continue == IF terminate \/ failed THEN "exit" ELSE "select"

LoopReturned ==
  /\ pc = "returned"
  /\ pc' = IF reload THEN "reload" ELSE Continue
  /\ SendsNothing
  /\ UNCHANGED <<initialised, modList, turn, ready, flags, configuration, deliveries, hangups>>

\* config_free: freeing the init command string a second time is undefined,
\* the C library either notices and aborts or does not.
ConfigFree(next) ==
  /\ pc' \in IF dangling THEN {next, "aborted"} ELSE {next}
  /\ dangling' = FALSE

\* A file that cannot be opened, because it is gone or because a relative -c
\* path means nothing after chdir("/"), leaves the configuration empty.
ConfigReload ==
  /\ pc = "reload"
  /\ ConfigFree("modreload")
  /\ config' \in IF AlwaysReadable THEN {file} ELSE {file, 0}
  /\ turn' = 1
  /\ SendsNothing
  /\ UNCHANGED <<initialised, modList, ready, flags, file, modConfig, deliveries, hangups>>

\* A reload callback reads some of its module's settings again.  mod_browser
\* reads all, mod_lirc the name of its file, mod_lcdproc its server, and
\* mod_mpd none.
Reread(m) ==
  modConfig' = [s \in Setting |->
                  IF Owner[s] = m /\ s \in Rereading THEN config ELSE modConfig[s]]

\* Mutant: the first module that cannot reload ends the round.
ModReloadStops ==
  /\ pc = "modreload" /\ ~AtEnd
  /\ turn' \in {turn + 1, Len(modList) + 1}
  /\ Reread(modList[turn])
  /\ \E burst \in Burst : Sendmsg(burst)
  /\ UNCHANGED <<pc, initialised, modList, ready, flags, file, config, dangling,
                 deliveries, hangups>>

ModReload ==
  /\ pc = "modreload" /\ ~AtEnd
  /\ turn' = turn + 1
  /\ Reread(modList[turn])
  /\ \E burst \in Burst : Sendmsg(burst)
  /\ UNCHANGED <<pc, initialised, modList, ready, flags, file, config, dangling,
                 deliveries, hangups>>

ReloadDone ==
  /\ pc = "modreload" /\ AtEnd
  /\ reload' = FALSE
  /\ pc' = Continue
  /\ SendsNothing
  /\ UNCHANGED <<initialised, modList, turn, ready, terminate, failed, configuration,
                 deliveries, hangups>>

\* mod_deinit drops the module list, config_free the configuration.
Shutdown ==
  /\ pc = "exit"
  /\ modList' = <<>>
  /\ ConfigFree("stopped")
  /\ SendsNothing
  /\ UNCHANGED <<initialised, turn, ready, flags, file, config, modConfig, deliveries, hangups>>

-----------------------------------------------------------------------------
(* Signals, and whoever edits the configuration.                           *)

Running == pc \notin {"stopped", "aborted", "killed"}

\* Before the handlers are installed both signals kill the process.
Killed ==
  /\ pc = "init"
  /\ pc' = "killed"
  /\ SendsNothing
  /\ UNCHANGED <<initialised, modList, turn, ready, flags, configuration, deliveries, hangups>>

SigHup ==
  /\ Running /\ pc # "init"
  /\ reload' = TRUE
  /\ asked' = file
  /\ owed' = IF pc = "modreload" THEN owed ELSE file
  /\ SendsNothing
  /\ UNCHANGED <<pc, initialised, modList, turn, ready, terminate, failed, configuration,
                 deliveries>>

SigTerm ==
  /\ Running /\ pc # "init"
  /\ terminate' = TRUE
  /\ SendsNothing
  /\ UNCHANGED <<pc, initialised, modList, turn, ready, reload, failed, configuration,
                 deliveries, hangups>>

EditFile ==
  /\ file <= MaxVersion
  /\ file' = file + 1
  /\ SendsNothing
  /\ UNCHANGED <<pc, initialised, modList, turn, ready, flags, config, modConfig, dangling,
                 deliveries, hangups>>

-----------------------------------------------------------------------------

DaemonStep ==
  \/ ModInit \/ InstallHandlers \/ Startup
  \/ Select \/ Poll \/ HandleReload \/ Disperse \/ Remove \/ QueueEmpty
  \/ UpdateModule \/ UpdatesDone
  \/ LoopReturned \/ ConfigReload \/ ModReload \/ ReloadDone \/ Shutdown

Environment == Killed \/ SigHup \/ SigTerm \/ EditFile

DaemonNext == DaemonStep \/ Environment

DaemonSpec == DaemonInit /\ [][DaemonNext]_dvars

\* Callbacks return and select() waits half a second at most.
FairDaemonSpec == DaemonSpec /\ WF_dvars(DaemonStep)

-----------------------------------------------------------------------------
(* Properties.                                                             *)

\* Nothing sent is lost, duplicated or reordered: the queue holds exactly what
\* mod_update has not finished with, and every listening module has had the
\* same messages in the order of sending, except that those already reached by
\* the dispersal under way have also had the message at the head of the queue.
OrderedDelivery ==
  /\ sent = handled \o queue
  /\ \A i \in 1..Len(modList) :
       modList[i] \in Listening =>
         received[modList[i]] =
           IF pc = "dispatch" /\ i < turn THEN Append(dispersed, Head(queue)) ELSE dispersed

Plain(m) == m # ReloadMsg

\* The messages of s that are for the modules, numbered in their order.
Rank(s, i) == Cardinality({j \in 1..i : Plain(s[j])})
Place(s, k) == CHOOSE i \in 1..Len(s) : Plain(s[i]) /\ Rank(s, i) = k
PlainOf(s) == [k \in 1..Rank(s, Len(s)) |-> s[Place(s, k)]]

Bus == INSTANCE Broadcast WITH
         Member <- Listening,
         members <- Registered \cap Listening,
         log <- PlainOf(sent),
         received <- [m \in Listening |-> received[m]]

\* The queue and the dispersal loop, with callbacks that post while they are
\* being called, implement an ordered broadcast to the registered modules.
ImplementsBroadcast == Bus!BroadcastSpec

\* Whenever a callback may act on a message or an event, the settings of the
\* modules come from two readings of the configuration file and no third,
\* however often signals interrupt the loop: those that reload callbacks read
\* from the one that config_list holds, all others still from the one at the
\* start, so that a module may well mix the two.
TwoReadings ==
  pc \in {"select", "poll", "dispatch", "update"} =>
    \A s \in Setting : Owner[s] \in Registered =>
      modConfig[s] = IF s \in Rereading THEN config ELSE 1

\* SIGTERM and SIGINT end the process, whatever is queued or being reloaded.
Terminates == terminate ~> ~Running

\* A posted message is dispersed unless the process ends first, provided that
\* the hangups stop: each of them makes loop() return before mod_update.
EverythingHandled ==
  <>[][~SigHup]_dvars =>
    \A n \in 1..MaxSent + Len(StartCommands) : Len(sent) >= n ~> Len(handled) >= n \/ ~Running

NoOlder(version, v) == version = 0 \/ version >= v
WorkFrom(v) ==
  /\ NoOlder(config, v)
  /\ \A s \in Rereading : Owner[s] \in Registered => NoOlder(modConfig[s], v)

\* A SIGHUP, or the message "reload", that does not fall into a reload brings
\* what the reload callbacks read up to the file as it was then, or to a later
\* version, or to nothing because the file could not be read.  Of the other
\* settings it says nothing: only a restart changes them.
ReloadHonoured == \A v \in 1..MaxVersion + 1 : owed = v ~> ~Running \/ WorkFrom(v)

\* mod_debug.c promises for every SIGHUP that changes take effect.  This fails
\* even for what the reload callbacks read.
EveryHangupHonoured == \A v \in 1..MaxVersion + 1 : asked = v ~> ~Running \/ WorkFrom(v)

=============================================================================
