----------------------------- MODULE ScriptExec -----------------------------
(***************************************************************************)
(* "browser exec": mod_browser_execute runs a shell script and waits for   *)
(* it inside the message callback.  The wait ends only through the SIGCHLD *)
(* handler of ABasemod.c, which passes the death of a child on to the      *)
(* modules that have a chld callback at that moment; mod_browser installs  *)
(* its callback after fork() has returned.  The script leaves messages for *)
(* the daemon in a file.                                                   *)
(***************************************************************************)
EXTENDS Integers, Sequences

CONSTANTS
  Pid,         \* process identifiers, 0 excluded
  MaxRuns,     \* scripts started in all
  MaxLines     \* lines a script may write

ASSUME ScriptAssumption == Pid \subseteq Nat \ {0} /\ MaxRuns \in Nat /\ MaxLines \in Nat

VARIABLES
  pc,          \* where mod_browser_execute is
  runs,        \* scripts started so far
  child,       \* the child process: its pid, state and exit status
  pending,     \* SIGCHLD is pending; signals do not queue
  chldPid,     \* mod_browser_chld_pid
  chldExited,  \* mod_browser_chld_exited
  chldStatus,  \* mod_browser_chld_status
  hooked,      \* mod_browser.chld = mod_browser_sigchld
  result,      \* what mod_browser_script returned
  cleared,     \* the message file could be truncated
  msgFile,     \* its lines, each the number of the run that wrote it
  posted       \* what the last run has posted

process == <<child, pending>>
globals == <<chldPid, chldExited, chldStatus, hooked>>
svars == <<pc, runs, process, globals, result, cleared, msgFile, posted>>

ExitStatus == {0, 1}
NoChild == [pid |-> 0, state |-> "reaped", status |-> 0]
ForkFailed == -1
Line(type, run) == [type |-> type, text |-> "line", of |-> run]
Info(text) == [type |-> "INFO", text |-> text, of |-> 0]
Posted == [type : {"INFO", "INPUT"}, text : {"Done", "Error", "line"}, of : 0..MaxRuns]

ScriptTypeOK ==
  /\ pc \in {"idle", "fork", "setpid", "clear", "hook", "wait", "unhook", "report"}
  /\ runs \in 0..MaxRuns
  /\ child \in [pid : Pid \cup {0}, state : {"running", "zombie", "reaped"}, status : ExitStatus]
  /\ pending \in BOOLEAN
  /\ chldPid \in Pid \cup {0}
  /\ chldExited \in BOOLEAN /\ hooked \in BOOLEAN /\ cleared \in BOOLEAN
  /\ chldStatus \in ExitStatus
  /\ result \in ExitStatus \cup {ForkFailed}
  /\ msgFile \in Seq(1..MaxRuns)
  /\ posted \in Seq(Posted)

ScriptInit ==
  /\ pc = "idle"
  /\ runs = 0
  /\ child = NoChild
  /\ pending = FALSE
  /\ chldPid = 0 /\ chldExited = FALSE /\ chldStatus = 0 /\ hooked = FALSE
  /\ result = 0
  /\ cleared = TRUE
  /\ msgFile = <<>>
  /\ posted = <<>>

-----------------------------------------------------------------------------
(* mod_browser_execute and mod_browser_script, one step for each access to *)
(* something that the signal handler also uses.                            *)

At(here, next) == pc = here /\ pc' = next

\* Mutant: the message file is not emptied.
TruncateNothing ==
  /\ At("idle", "fork")
  /\ runs < MaxRuns
  /\ runs' = runs + 1
  /\ cleared' \in BOOLEAN
  /\ posted' = <<>>
  /\ UNCHANGED <<process, globals, result, msgFile>>

Truncate ==
  /\ At("idle", "fork")
  /\ runs < MaxRuns
  /\ runs' = runs + 1
  /\ \/ cleared' = TRUE /\ msgFile' = <<>>
     \/ cleared' = FALSE /\ UNCHANGED msgFile
  /\ posted' = <<>>
  /\ UNCHANGED <<process, globals, result>>

Fork ==
  /\ At("fork", "setpid")
  /\ \E p \in Pid : child' = [pid |-> p, state |-> "running", status |-> 0]
  /\ UNCHANGED <<runs, pending, globals, result, cleared, msgFile, posted>>

\* Mutant: -1 is taken for the pid of a child.
ForkUnchecked ==
  /\ At("fork", "setpid")
  /\ child' = [pid |-> ForkFailed, state |-> "running", status |-> 0]
  /\ UNCHANGED <<runs, pending, globals, result, cleared, msgFile, posted>>

ForkFails ==
  /\ At("fork", "report")
  /\ result' = ForkFailed
  /\ UNCHANGED <<runs, process, globals, cleared, msgFile, posted>>

\* Mutant: the pid is not remembered.
SetPidForgotten ==
  /\ At("setpid", "clear")
  /\ UNCHANGED <<runs, process, globals, result, cleared, msgFile, posted>>

SetPid ==
  /\ At("setpid", "clear")
  /\ chldPid' = child.pid
  /\ UNCHANGED <<runs, process, chldExited, chldStatus, hooked, result, cleared, msgFile, posted>>

\* Mutant: the flag of the last script is not reset.
ClearExitedForgotten ==
  /\ At("clear", "hook")
  /\ UNCHANGED <<runs, process, globals, result, cleared, msgFile, posted>>

ClearExited ==
  /\ At("clear", "hook")
  /\ chldExited' = FALSE
  /\ UNCHANGED <<runs, process, chldPid, chldStatus, hooked, result, cleared, msgFile, posted>>

Hook ==
  /\ At("hook", "wait")
  /\ hooked' = TRUE
  /\ UNCHANGED <<runs, process, chldPid, chldExited, chldStatus, result, cleared, msgFile, posted>>

\* Mutant: the daemon does not wait at all.
WaitNever ==
  /\ At("wait", "unhook")
  /\ UNCHANGED <<runs, process, globals, result, cleared, msgFile, posted>>

\* Mutant: the loop reaps the child itself, as waitpid() with WNOHANG would.
WaitByPolling ==
  /\ At("wait", "unhook")
  /\ child.state = "zombie"
  /\ child' = [child EXCEPT !.state = "reaped"]
  /\ chldStatus' = child.status
  /\ UNCHANGED <<runs, pending, chldPid, chldExited, hooked, result, cleared, msgFile, posted>>

\* The loop around usleep() looks at nothing else.
WaitEnds ==
  /\ At("wait", "unhook")
  /\ chldExited
  /\ UNCHANGED <<runs, process, globals, result, cleared, msgFile, posted>>

Unhook ==
  /\ At("unhook", "report")
  /\ hooked' = FALSE
  /\ result' = chldStatus
  /\ UNCHANGED <<runs, process, chldPid, chldExited, chldStatus, cleared, msgFile, posted>>

\* The first line is shown, every further line is a command.
Messages ==
  IF result # 0 THEN <<Info("Error")>>
  ELSE [i \in 1..Len(msgFile) |-> Line(IF i = 1 THEN "INFO" ELSE "INPUT", msgFile[i])]

\* The file may also have gone, then the run is reported as done.
Report ==
  /\ At("report", "idle")
  /\ posted' \in {Messages} \cup
       (IF result = 0 /\ msgFile = <<>> THEN {<<Info("Done")>>} ELSE {})
  /\ UNCHANGED <<runs, process, globals, result, cleared, msgFile>>

-----------------------------------------------------------------------------
(* The child, and the signal it causes.                                    *)

Environment == UNCHANGED <<pc, runs, result, cleared, posted>>

ChildWrites ==
  /\ child.state = "running"
  /\ Len(msgFile) < MaxLines
  /\ msgFile' = Append(msgFile, runs)
  /\ Environment /\ UNCHANGED <<process, globals>>

ChildExits ==
  /\ child.state = "running"
  /\ \E s \in ExitStatus : child' = [child EXCEPT !.state = "zombie", !.status = s]
  /\ pending' = TRUE
  /\ Environment /\ UNCHANGED <<globals, msgFile>>

\* mod_sigchld with mod_browser_sigchld: wait() returns the dead child.
HandleSigchld ==
  /\ pending
  /\ pending' = FALSE
  /\ child' = [child EXCEPT !.state = "reaped"]
  /\ IF hooked /\ chldPid = child.pid
     THEN chldStatus' = child.status /\ chldExited' = TRUE
     ELSE UNCHANGED <<chldStatus, chldExited>>
  /\ Environment /\ UNCHANGED <<chldPid, hooked, msgFile>>

-----------------------------------------------------------------------------

ScriptStep ==
  \/ Truncate \/ Fork \/ ForkFails \/ SetPid \/ ClearExited \/ Hook
  \/ WaitEnds \/ Unhook \/ Report

ScriptNext == ScriptStep \/ ChildWrites \/ ChildExits \/ HandleSigchld

ScriptSpec == ScriptInit /\ [][ScriptNext]_svars

\* The daemon runs, signals are delivered, and the script itself ends.
FairScriptSpec ==
  /\ ScriptSpec
  /\ WF_svars(ScriptStep) /\ WF_svars(HandleSigchld) /\ WF_svars(ChildExits)

-----------------------------------------------------------------------------
(* Properties.                                                             *)

\* What mod_browser_script returns is the exit status of the child that it
\* started, never one that an earlier script left in the global.
StatusOfThisChild ==
  pc = "report" /\ result # ForkFailed => child.state = "reaped" /\ result = child.status

\* wait() in the signal handler never blocks, and never reaps a child that is
\* still needed: a signal is pending only while exactly one child is dead.
WaitDoesNotBlock == pending <=> child.state = "zombie"

\* The daemon never leaves the callback with a child unreaped.
NoChildLeftBehind == pc \in {"idle", "fork", "unhook", "report"} => child.state = "reaped"

\* Unless the truncation failed, the lines that a run posts as commands were
\* written by its own script.
CommandsOfThisRun ==
  pc = "idle" /\ cleared =>
    \A i \in 1..Len(posted) : posted[i].type = "INPUT" => posted[i].of = runs

\* A script that outlives the installation of the callback is waited for
\* exactly until it ends.
SlowScriptReturns == pc = "wait" /\ child.state = "running" ~> pc = "idle"

\* ABasemod.h: chld is called to handle dying children.  Every script that is
\* started and ends lets the callback of mod_browser return.
ScriptReturns == pc = "setpid" ~> pc = "idle"

=============================================================================
