---------------------------- MODULE ScriptProofs ----------------------------
(***************************************************************************)
(* Proofs about ScriptExec: whoever comes first, the signal or the main    *)
(* program, what mod_browser_execute reports is about its own child, for   *)
(* any number of scripts and any reuse of process identifiers.             *)
(***************************************************************************)
EXTENDS ScriptExec, SequenceTheorems, TLAPS

\* The callback is installed for as long as the loop may need it.
HookInv == hooked => pc \in {"wait", "unhook"}

\* From fork on, the globals are about the child under way.
ChildInv ==
  /\ pc \in {"clear", "hook", "wait", "unhook"} => chldPid = child.pid
  /\ pc = "hook" => ~chldExited
  /\ (pc = "wait" /\ chldExited) \/ pc = "unhook" =>
       child.state = "reaped" /\ chldStatus = child.status

\* A run's file holds lines of this run, unless old ones could not be removed.
FileInv == cleared => \A i \in 1..Len(msgFile) : msgFile[i] = runs

\* A script runs in a run.
RunsInv == pc # "idle" \/ child.state = "running" => runs # 0

ScriptInv ==
  /\ ScriptTypeOK /\ RunsInv /\ WaitDoesNotBlock /\ NoChildLeftBehind
  /\ HookInv /\ ChildInv /\ FileInv
  /\ StatusOfThisChild /\ CommandsOfThisRun

-----------------------------------------------------------------------------
(* Type correctness.                                                       *)

\* What a run may post is a message of the model.
LEMMA MessagesType ==
  ASSUME ScriptTypeOK
  PROVE  Messages \in Seq(Posted) /\ <<Info("Done")>> \in Seq(Posted)
<1>1. \A text \in {"Done", "Error"} : Info(text) \in Posted
  BY ScriptAssumption DEF Info, Posted
<1>2. <<Info("Error")>> \in Seq(Posted) /\ <<Info("Done")>> \in Seq(Posted)
  BY <1>1
<1>3. ASSUME NEW i \in 1..Len(msgFile)
      PROVE  Line(IF i = 1 THEN "INFO" ELSE "INPUT", msgFile[i]) \in Posted
  <2>1. msgFile[i] \in 0..MaxRuns
    BY ScriptAssumption DEF ScriptTypeOK
  <2> QED BY <2>1 DEF Line, Posted
<1>4. [i \in 1..Len(msgFile) |-> Line(IF i = 1 THEN "INFO" ELSE "INPUT", msgFile[i])] \in Seq(Posted)
  <2>1. Len(msgFile) \in Nat
    BY DEF ScriptTypeOK
  <2> QED BY <1>3, <2>1
<1> QED BY <1>2, <1>4 DEF Messages

\* The start.
LEMMA TypeInit == ScriptInit => ScriptTypeOK /\ RunsInv
<1>1. <<>> \in Seq(1..MaxRuns) /\ <<>> \in Seq(Posted)
  BY EmptySeq
<1>2. 0 \in 0..MaxRuns
  BY ScriptAssumption
<1>3. NoChild \in [pid : Pid \cup {0}, state : {"running", "zombie", "reaped"}, status : ExitStatus]
  BY DEF NoChild, ExitStatus
<1>4. NoChild.state = "reaped"
  BY DEF NoChild
<1>5. 0 \in ExitStatus
  BY DEF ExitStatus
<1> QED BY <1>1, <1>2, <1>3, <1>4, <1>5 DEF ScriptInit, ScriptTypeOK, RunsInv

\* Each step, of the daemon, its child or the signal.
LEMMA TypeNext ==
  ASSUME ScriptTypeOK, RunsInv, [ScriptNext]_svars
  PROVE  ScriptTypeOK'
<1> USE DEF ScriptTypeOK, At, process, globals
<1>1. CASE Truncate
  <2>1. <<>> \in Seq(1..MaxRuns) /\ <<>> \in Seq(Posted)
    BY EmptySeq
  <2>2. runs' \in 0..MaxRuns
    BY <1>1, ScriptAssumption DEF Truncate
  <2> QED BY <1>1, <2>1, <2>2 DEF Truncate
<1>2. CASE Fork
  BY <1>2 DEF Fork, ExitStatus
<1>3. CASE ForkFails
  BY <1>3 DEF ForkFails
<1>4. CASE SetPid \/ ClearExited \/ Hook \/ WaitEnds \/ Unhook
  BY <1>4 DEF SetPid, ClearExited, Hook, WaitEnds, Unhook
<1>5. CASE Report
  <2>1. posted' \in Seq(Posted)
    BY <1>5, MessagesType DEF Report
  <2> QED BY <1>5, <2>1 DEF Report
<1>6. CASE ChildWrites
  <2>1. runs \in 1..MaxRuns
    BY <1>6, ScriptAssumption DEF ChildWrites, RunsInv
  <2> QED BY <1>6, <2>1 DEF ChildWrites, Environment
<1>7. CASE ChildExits
  BY <1>7 DEF ChildExits, Environment
<1>8. CASE HandleSigchld
  BY <1>8 DEF HandleSigchld, Environment
<1>9. CASE UNCHANGED svars
  BY <1>9 DEF svars
<1> QED BY <1>1, <1>2, <1>3, <1>4, <1>5, <1>6, <1>7, <1>8, <1>9 DEF ScriptNext, ScriptStep

\* The number of a run is given when it begins.
LEMMA RunsNext ==
  ASSUME ScriptTypeOK, RunsInv, [ScriptNext]_svars
  PROVE  RunsInv'
<1> USE DEF RunsInv, At, process
<1>1. CASE Truncate
  BY <1>1 DEF Truncate, ScriptTypeOK
<1>2. CASE Fork \/ ForkFails \/ SetPid \/ ClearExited \/ Hook \/ WaitEnds \/ Unhook \/ Report
  BY <1>2 DEF Fork, ForkFails, SetPid, ClearExited, Hook, WaitEnds, Unhook, Report
<1>3. CASE ChildWrites
  BY <1>3 DEF ChildWrites, Environment
<1>4. CASE ChildExits
  BY <1>4 DEF ChildExits, Environment, ScriptTypeOK
<1>5. CASE HandleSigchld
  BY <1>5 DEF HandleSigchld, Environment, ScriptTypeOK
<1>6. CASE UNCHANGED svars
  BY <1>6 DEF svars
<1> QED BY <1>1, <1>2, <1>3, <1>4, <1>5, <1>6 DEF ScriptNext, ScriptStep

\* For any number of scripts, every state is well typed.
THEOREM ScriptTypeCorrect == ScriptSpec => []ScriptTypeOK
<1>1. ScriptInit => ScriptTypeOK /\ RunsInv
  BY TypeInit
<1>2. ScriptTypeOK /\ RunsInv /\ [ScriptNext]_svars => (ScriptTypeOK /\ RunsInv)'
  BY TypeNext, RunsNext
<1> QED BY <1>1, <1>2, PTL DEF ScriptSpec

-----------------------------------------------------------------------------
(* Whose child, whose status, whose lines.                                 *)

\* The lines that are posted as commands come from the file.
LEMMA MessagesOfThisRun ==
  ASSUME ScriptTypeOK, FileInv, cleared,
         NEW i \in 1..Len(Messages), Messages[i].type = "INPUT"
  PROVE  Messages[i].of = runs
<1>1. CASE result # 0
  BY <1>1 DEF Messages, Info
<1>2. CASE result = 0
  <2>1. Messages = [k \in 1..Len(msgFile) |-> Line(IF k = 1 THEN "INFO" ELSE "INPUT", msgFile[k])]
    BY <1>2 DEF Messages
  <2>2. Len(msgFile) \in Nat /\ Len(Messages) = Len(msgFile)
    BY <2>1 DEF ScriptTypeOK
  <2>3. Messages[i].of = msgFile[i]
    BY <2>1, <2>2 DEF Line
  <2> QED BY <2>2, <2>3 DEF FileInv
<1> QED BY <1>1, <1>2

\* Nothing has been started.
LEMMA SafeInit == ScriptInit => ScriptInv
<1>1. ScriptInit => WaitDoesNotBlock /\ NoChildLeftBehind /\ HookInv /\ ChildInv
  BY DEF ScriptInit, NoChild, WaitDoesNotBlock, NoChildLeftBehind, HookInv, ChildInv
<1>2. ScriptInit => FileInv /\ StatusOfThisChild /\ CommandsOfThisRun
  BY EmptySeq DEF ScriptInit, FileInv, StatusOfThisChild, CommandsOfThisRun
<1> QED BY <1>1, <1>2, TypeInit DEF ScriptInv

\* One signal is due for one dead child.
LEMMA SignalNext ==
  ASSUME ScriptInv, [ScriptNext]_svars
  PROVE  WaitDoesNotBlock'
<1>1. (pending <=> child.state = "zombie") /\ (pc = "fork" => child.state = "reaped")
  BY DEF ScriptInv, WaitDoesNotBlock, NoChildLeftBehind
<1>2. CASE Fork
  <2>1. ~pending /\ pending' = pending /\ child'.state = "running"
    BY <1>1, <1>2 DEF Fork, At
  <2> QED BY <2>1 DEF WaitDoesNotBlock
<1>3. CASE ChildExits
  <2>1. pending' /\ child'.state = "zombie"
    BY <1>3 DEF ChildExits, ScriptInv, ScriptTypeOK
  <2> QED BY <2>1 DEF WaitDoesNotBlock
<1>4. CASE HandleSigchld
  <2>1. ~pending' /\ child'.state = "reaped"
    BY <1>4 DEF HandleSigchld, ScriptInv, ScriptTypeOK
  <2> QED BY <2>1 DEF WaitDoesNotBlock
<1>5. CASE UNCHANGED process
  BY <1>1, <1>5 DEF WaitDoesNotBlock, process
<1> QED BY <1>2, <1>3, <1>4, <1>5 DEF ScriptNext, ScriptStep, Truncate, ForkFails, SetPid, ClearExited,
  Hook, WaitEnds, Unhook, Report, ChildWrites, svars

\* While its child lives or waits to be reaped, the callback does not return.
LEMMA ChildNext ==
  ASSUME ScriptInv, [ScriptNext]_svars
  PROVE  HookInv' /\ ChildInv' /\ NoChildLeftBehind' /\ StatusOfThisChild'
<1> USE DEF ScriptInv, HookInv, ChildInv, NoChildLeftBehind, StatusOfThisChild, At, process, globals
<1>1. CASE Truncate
  BY <1>1 DEF Truncate
<1>2. CASE Fork
  BY <1>2 DEF Fork
<1>3. CASE ForkFails
  BY <1>3 DEF ForkFails
<1>4. CASE SetPid
  BY <1>4 DEF SetPid
<1>5. CASE ClearExited
  BY <1>5 DEF ClearExited
<1>6. CASE Hook
  BY <1>6 DEF Hook
<1>7. CASE WaitEnds
  BY <1>7 DEF WaitEnds
<1>8. CASE Unhook
  BY <1>8 DEF Unhook
<1>9. CASE Report
  BY <1>9 DEF Report
<1>10. CASE ChildWrites
  BY <1>10 DEF ChildWrites, Environment
<1>11. CASE ChildExits
  BY <1>11 DEF ChildExits, Environment
<1>12. CASE HandleSigchld
  <2>1. child.state = "zombie" /\ child' = [child EXCEPT !.state = "reaped"]
    BY <1>12 DEF HandleSigchld, WaitDoesNotBlock
  <2>2. child'.state = "reaped" /\ child'.status = child.status /\ child'.pid = child.pid
    BY <2>1 DEF ScriptTypeOK
  <2> QED BY <1>12, <2>1, <2>2 DEF HandleSigchld, Environment
<1>13. CASE UNCHANGED svars
  BY <1>13 DEF svars
<1> QED BY <1>1, <1>2, <1>3, <1>4, <1>5, <1>6, <1>7, <1>8, <1>9, <1>10, <1>11, <1>12, <1>13
  DEF ScriptNext, ScriptStep

\* Only the child of this run writes, and only during the run.
LEMMA LinesNext ==
  ASSUME ScriptInv, [ScriptNext]_svars
  PROVE  FileInv' /\ CommandsOfThisRun'
<1>1. CASE Truncate
  <2>1. pc' = "fork" /\ (cleared' => msgFile' = <<>>)
    BY <1>1 DEF Truncate, At
  <2> QED BY <2>1, EmptySeq DEF FileInv, CommandsOfThisRun
<1>2. CASE Report
  <2>1. UNCHANGED <<runs, cleared, msgFile>> /\ FileInv
    BY <1>2 DEF Report, ScriptInv
  <2>2. posted' = Messages \/ posted' = <<Info("Done")>>
    BY <1>2 DEF Report
  <2>3. ASSUME posted' = Messages PROVE CommandsOfThisRun'
    BY <2>1, <2>3, MessagesOfThisRun DEF CommandsOfThisRun, ScriptInv
  <2>4. ASSUME posted' = <<Info("Done")>> PROVE CommandsOfThisRun'
    BY <2>4 DEF CommandsOfThisRun, Info
  <2> QED BY <2>1, <2>2, <2>3, <2>4 DEF FileInv
<1>3. CASE ChildWrites
  <2>1. pc' = pc /\ pc # "idle" /\ UNCHANGED <<runs, cleared>> /\ msgFile' = Append(msgFile, runs)
    BY <1>3 DEF ChildWrites, Environment, ScriptInv, NoChildLeftBehind
  <2>2. msgFile \in Seq(1..MaxRuns) /\ FileInv
    BY DEF ScriptInv, ScriptTypeOK
  <2> QED BY <2>1, <2>2 DEF FileInv, CommandsOfThisRun
<1>4. CASE UNCHANGED <<runs, cleared, msgFile, posted>> /\ (pc' # "idle" \/ pc' = pc)
  BY <1>4 DEF ScriptInv, FileInv, CommandsOfThisRun
<1> QED BY <1>1, <1>2, <1>3, <1>4 DEF ScriptNext, ScriptStep, Fork, ForkFails, SetPid, ClearExited,
  Hook, WaitEnds, Unhook, At, ChildExits, HandleSigchld, Environment, svars

\* The invariant behind the theorems.
LEMMA ScriptInvariant == ScriptSpec => []ScriptInv
<1>1. ScriptInv /\ [ScriptNext]_svars => ScriptInv'
  <2> SUFFICES ASSUME ScriptInv, [ScriptNext]_svars PROVE ScriptInv'
    OBVIOUS
  <2>1. ScriptTypeOK /\ RunsInv
    BY DEF ScriptInv
  <2> QED BY <2>1, TypeNext, RunsNext, SignalNext, ChildNext, LinesNext DEF ScriptInv
<1> QED BY <1>1, SafeInit, PTL DEF ScriptSpec

\* mod_browser_script returns the exit status of the child it started.
THEOREM StatusOfThisChildHolds == ScriptSpec => []StatusOfThisChild
BY ScriptInvariant, PTL DEF ScriptInv

\* wait() in the signal handler has exactly one child to reap.
THEOREM WaitDoesNotBlockHolds == ScriptSpec => []WaitDoesNotBlock
BY ScriptInvariant, PTL DEF ScriptInv

\* No callback returns before its child is reaped.
THEOREM NoChildLeftBehindHolds == ScriptSpec => []NoChildLeftBehind
BY ScriptInvariant, PTL DEF ScriptInv

\* Commands that are posted come from the script of this run.
THEOREM CommandsOfThisRunHolds == ScriptSpec => []CommandsOfThisRun
BY ScriptInvariant, PTL DEF ScriptInv
=============================================================================
