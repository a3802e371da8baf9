--------------------------- MODULE PlayerStateProofs ---------------------------
(***************************************************************************)
(* Proofs about MpdPlayer: what mod_mpd keeps of its own while it uses the *)
(* connection, how each operation leaves the connection, and that, unless  *)
(* the transport fails, the status which the update stores and uses is the *)
(* whole answer to its own question.                                       *)
(***************************************************************************)
EXTENDS MpdPlayerProofs

-----------------------------------------------------------------------------
(* What operations ask and how they end.                                   *)

\* Only the status is asked for, or the answer is not stored.
Asks(calls) == \A i \in 1..Len(calls) : calls[i].do \in {"get", "scan"} => calls[i].cmd = "status"
StoreFree(calls) == \A i \in 1..Len(calls) : calls[i].do # "store"

\* The last call reads the answer to its end, or comes after one that does.
Closes(calls) == calls # <<>> /\ calls[Len(calls)].do \in {"finish", "store"}

\* One sequence behind the other.
LEMMA ConcatAsks ==
  ASSUME NEW s \in Seq(Call), NEW t \in Seq(Call), Asks(s), Asks(t), t # <<>>
  PROVE  /\ s \o t \in Seq(Call) /\ Asks(s \o t) /\ s \o t # <<>>
         /\ (s \o t)[Len(s \o t)] = t[Len(t)]
<1> DEFINE st == s \o t
<1>1. Len(s) \in Nat /\ Len(t) \in Nat /\ Len(t) > 0
  BY EmptySeq
<1>2. st \in Seq(Call) /\ Len(st) = Len(s) + Len(t)
  BY ConcatProperties
<1>3. \A i \in 1..Len(s) : st[i] = s[i]
  BY ConcatProperties
<1>4. \A i \in 1..Len(t) : st[Len(s) + i] = t[i]
  BY ConcatProperties
<1> HIDE DEF st
<1>5. st # <<>> /\ st[Len(st)] = t[Len(t)]
  BY <1>1, <1>2, <1>4, EmptySeq
<1>6. ASSUME NEW i \in 1..Len(st), st[i].do \in {"get", "scan"} PROVE st[i].cmd = "status"
  <2>1. CASE i <= Len(s)
    <3>1. i \in 1..Len(s)
      BY <1>1, <2>1
    <3> QED BY <1>3, <1>6, <3>1 DEF Asks
  <2>2. CASE i > Len(s)
    <3>1. i - Len(s) \in 1..Len(t) /\ i = Len(s) + (i - Len(s))
      BY <1>1, <1>2, <2>2
    <3>2. st[i] = t[i - Len(s)]
      BY <1>4, <3>1
    <3> QED BY <1>6, <3>1, <3>2 DEF Asks
  <2> QED BY <1>1, <1>2, <2>1, <2>2
<1>7. Asks(st)
  BY <1>6 DEF Asks
<1> QED BY <1>2, <1>5, <1>7 DEF st

\* The sequences that operations are put together from.
LEMMA PartsAsk ==
  /\ <<>> \in Seq(Call) /\ Asks(<<>>)
  /\ \A r \in PlayerCommand : <<Send(r)>> \in Seq(Call) /\ Asks(<<Send(r)>>)
  /\ \A r \in PlayerCommand : Simple(r) \in Seq(Call) /\ Asks(Simple(r)) /\ Closes(Simple(r))
  /\ <<Do("finish")>> \in Seq(Call) /\ Asks(<<Do("finish")>>) /\ Closes(<<Do("finish")>>)
  /\ LET calls == <<Do("choose"), Do("finish")>>
     IN  calls \in Seq(Call) /\ Asks(calls) /\ Closes(calls)
  /\ UpdateStatus \in Seq(Call) /\ Asks(UpdateStatus) /\ Closes(UpdateStatus)
  /\ UpdateSonginfo \in Seq(Call) /\ Asks(UpdateSonginfo) /\ UpdateSonginfo # <<>>
     /\ UpdateSonginfo[Len(UpdateSonginfo)].do = "song"
<1> DEFINE Fine(c) == c \in Call /\ (c.do \in {"get", "scan"} => c.cmd = "status")
<1>1. \A w \in {"finish", "choose", "store", "begin", "end", "song"} : Fine(Do(w)) /\ Do(w).do = w
  <2>1. {"finish", "choose", "store", "begin", "end", "song"} \subseteq What \ {"send"}
    BY DEF What
  <2> QED BY <2>1, CallTypes
<1>2. \A r \in PlayerCommand : Fine(Send(r))
  BY CallTypes
<1>3. Fine(Get("status"))
  <2>1. "status" \in PlayerCommand /\ Get("status").cmd = "status"
    BY DEF PlayerCommand, Get
  <2> QED BY <2>1, CallTypes
<1>4. "status" \in PlayerCommand /\ "currentsong" \in PlayerCommand
  BY DEF PlayerCommand
<1>5. <<>> \in Seq(Call) /\ Asks(<<>>)
  BY DEF Asks
<1>6. \A c : Fine(c) => <<c>> \in Seq(Call) /\ Asks(<<c>>)
  BY DEF Asks
<1>7. ASSUME NEW c, NEW d, Fine(c), Fine(d), d.do = "finish"
      PROVE  <<c, d>> \in Seq(Call) /\ Asks(<<c, d>>) /\ Closes(<<c, d>>)
  <2> DEFINE calls == <<c, d>>
  <2>1. calls \in Seq(Call) /\ Len(calls) = 2 /\ calls[1] = c /\ calls[2] = d
    BY <1>7
  <2> HIDE DEF calls, Fine
  <2>2. \A i \in 1..2 : Fine(calls[i])
    BY <1>7, <2>1
  <2>3. Asks(calls)
    BY <2>1, <2>2 DEF Asks, Fine
  <2>4. Closes(calls)
    BY <1>7, <2>1, EmptySeq DEF Closes
  <2> QED BY <2>1, <2>3, <2>4 DEF calls
<1>8. \A r \in PlayerCommand : Simple(r) \in Seq(Call) /\ Asks(Simple(r)) /\ Closes(Simple(r))
  BY <1>1, <1>2, <1>7 DEF Simple
<1>9. UpdateStatus \in Seq(Call) /\ Asks(UpdateStatus) /\ Closes(UpdateStatus)
  <2>1. UpdateStatus \in Seq(Call) /\ Len(UpdateStatus) = 5
    BY <1>1, <1>2, <1>3, <1>4 DEF UpdateStatus
  <2>2. /\ UpdateStatus[1] = Do("finish") /\ UpdateStatus[2] = Send("status")
        /\ UpdateStatus[3] = Get("status") /\ UpdateStatus[4] = Do("finish")
        /\ UpdateStatus[5] = Do("store")
    BY DEF UpdateStatus
  <2> HIDE DEF Fine
  <2>3. \A i \in 1..5 : Fine(UpdateStatus[i])
    <3>1. /\ Fine(UpdateStatus[1]) /\ Fine(UpdateStatus[2]) /\ Fine(UpdateStatus[3])
          /\ Fine(UpdateStatus[4]) /\ Fine(UpdateStatus[5])
      BY <1>1, <1>2, <1>3, <1>4, <2>2
    <3> QED BY <3>1
  <2>4. Asks(UpdateStatus)
    BY <2>1, <2>3 DEF Asks, Fine
  <2>5. Closes(UpdateStatus)
    <3>1. UpdateStatus # <<>>
      BY <2>1, EmptySeq
    <3>2. UpdateStatus[Len(UpdateStatus)] = Do("store")
      BY <2>1, <2>2, Zenon
    <3>3. Do("store").do = "store"
      BY <1>1
    <3> QED BY <3>1, <3>2, <3>3 DEF Closes
  <2> QED BY <2>1, <2>4, <2>5
<1>10. UpdateSonginfo \in Seq(Call) /\ Asks(UpdateSonginfo) /\ UpdateSonginfo # <<>>
       /\ UpdateSonginfo[Len(UpdateSonginfo)].do = "song"
  <2>1. UpdateSonginfo \in Seq(Call) /\ Len(UpdateSonginfo) = 6
    BY <1>1, <1>2, <1>3, <1>4 DEF UpdateSonginfo
  <2>2. /\ UpdateSonginfo[1] = Do("begin") /\ UpdateSonginfo[2] = Send("status")
        /\ UpdateSonginfo[3] = Send("currentsong") /\ UpdateSonginfo[4] = Do("end")
        /\ UpdateSonginfo[5] = Get("status") /\ UpdateSonginfo[6] = Do("song")
    BY DEF UpdateSonginfo
  <2> HIDE DEF Fine
  <2>3. \A i \in 1..6 : Fine(UpdateSonginfo[i])
    <3>1. /\ Fine(UpdateSonginfo[1]) /\ Fine(UpdateSonginfo[2]) /\ Fine(UpdateSonginfo[3])
          /\ Fine(UpdateSonginfo[4]) /\ Fine(UpdateSonginfo[5]) /\ Fine(UpdateSonginfo[6])
      BY <1>1, <1>2, <1>3, <1>4, <2>2
    <3> QED BY <3>1
  <2>4. Asks(UpdateSonginfo)
    BY <2>1, <2>3 DEF Asks, Fine
  <2>5. UpdateSonginfo # <<>> /\ UpdateSonginfo[Len(UpdateSonginfo)].do = "song"
    <3>1. UpdateSonginfo # <<>>
      BY <2>1, EmptySeq
    <3>2. UpdateSonginfo[Len(UpdateSonginfo)] = Do("song")
      BY <2>1, <2>2, Zenon
    <3>3. Do("song").do = "song"
      BY <1>1
    <3> QED BY <3>1, <3>2, <3>3
  <2> QED BY <2>1, <2>4, <2>5
<1>11. <<Do("finish")>> \in Seq(Call) /\ Asks(<<Do("finish")>>) /\ Closes(<<Do("finish")>>)
  <2>1. Fine(Do("finish")) /\ Do("finish").do = "finish"
    BY <1>1
  <2>2. <<Do("finish")>> # <<>> /\ Len(<<Do("finish")>>) = 1 /\ <<Do("finish")>>[1] = Do("finish")
    OBVIOUS
  <2> QED BY <1>6, <2>1, <2>2 DEF Closes
<1>12. LET calls == <<Do("choose"), Do("finish")>>
       IN  calls \in Seq(Call) /\ Asks(calls) /\ Closes(calls)
  BY <1>1, <1>7
<1> QED BY <1>2, <1>5, <1>6, <1>8, <1>9, <1>10, <1>11, <1>12

\* How an operation ends: with a call that leaves nothing due, with the song of
\* the update, or as a djump.
Lasts(name, calls) ==
  /\ calls # <<>>
  /\ \/ Closes(calls)
     \/ name = "djump"
     \/ name = "update" /\ calls[Len(calls)].do = "song"

\* An operation as it is begun.
Begins(name, calls) ==
  /\ todo' = calls /\ op' = name /\ status' = None
  /\ todo = <<>> /\ ~crashed
  /\ UNCHANGED <<vars, player, crashed, asked, mpdvars>>
  /\ seekcounter' = seekcounter \/ seekcounter' = 1

\* What each operation asks, and how it ends.
LEMMA StartsWell ==
  ASSUME StartOperation
  PROVE  \/ /\ \E name \in {"update", "djump", "other"} :
                 Begins(name, todo') /\ Lasts(name, todo')
            /\ todo' \in Seq(Call) /\ (Asks(todo') \/ StoreFree(todo'))
         \/ /\ seekcounter' \in {1, 1 - seekcounter}
            /\ UNCHANGED <<vars, todo, status, player, crashed, op, asked, mpdvars>>
<1> DEFINE Good(calls) == calls \in Seq(Call) /\ (Asks(calls) \/ StoreFree(calls))
<1> DEFINE Goal == \/ /\ \E name \in {"update", "djump", "other"} :
                              Begins(name, todo') /\ Lasts(name, todo')
                         /\ Good(todo')
                      \/ /\ seekcounter' \in {1, 1 - seekcounter}
                         /\ UNCHANGED <<vars, todo, status, player, crashed, op, asked, mpdvars>>
<1>1. \A name, calls : Start(name, calls) /\ (UNCHANGED seekcounter \/ seekcounter' = 1)
                         => Begins(name, calls) /\ todo' = calls
  BY DEF Start, Begins
<1>2. /\ \A name, calls : StartOp(name, calls) => Begins(name, calls) /\ todo' = calls
      /\ \A calls : StartOther(calls) => Begins("other", calls) /\ todo' = calls
  BY <1>1 DEF StartOp, StartOther
<1>3. {"play", "stop", "pause", "resume", "set", "delete", "clear", "add", "lsinfo", "stats"}
        \subseteq PlayerCommand
  BY DEF PlayerCommand
<1> DEFINE Ends(calls) == calls \in Seq(Call) /\ Asks(calls) /\ Closes(calls)
<1>4. ASSUME NEW calls, Begins("other", calls), todo' = calls, Ends(calls)
      PROVE  Goal
  <2>1. Lasts("other", calls)
    BY <1>4 DEF Lasts, Closes
  <2> QED BY <1>4, <2>1
<1>5. ASSUME NEW s \in Seq(Call), Asks(s), NEW t, Ends(t)
      PROVE  Ends(s \o t)
  <2>1. t \in Seq(Call) /\ Asks(t) /\ t # <<>>
    BY <1>5 DEF Closes
  <2>2. /\ s \o t \in Seq(Call) /\ Asks(s \o t) /\ s \o t # <<>>
        /\ (s \o t)[Len(s \o t)] = t[Len(t)]
    BY <1>5, <2>1, ConcatAsks
  <2>3. t[Len(t)].do \in {"finish", "store"}
    BY <1>5 DEF Closes
  <2> QED BY <2>2, <2>3 DEF Closes
<1>6. /\ \A r \in PlayerCommand : Ends(Simple(r))
      /\ Ends(<<Do("finish")>>) /\ Ends(<<Do("choose"), Do("finish")>>) /\ Ends(UpdateStatus)
  BY PartsAsk
<1> HIDE DEF Ends
<1>7. \A s, t : Ends(s) /\ Ends(t) => Ends(s \o t)
  BY <1>5 DEF Ends
<1> SUFFICES Goal
  OBVIOUS
<1> HIDE DEF Goal
<1>8. CASE Update
  <2>1. Begins("update", UpdateStatus \o UpdateSonginfo)
        /\ todo' = UpdateStatus \o UpdateSonginfo
    BY <1>2, <1>8 DEF Update
  <2>2. /\ todo' \in Seq(Call) /\ Asks(todo') /\ todo' # <<>> /\ todo'[Len(todo')].do = "song"
    BY <2>1, PartsAsk, ConcatAsks
  <2>3. Lasts("update", todo')
    BY <2>2 DEF Lasts
  <2> QED BY <2>1, <2>2, <2>3 DEF Goal
<1>9. CASE Play
  <2>1. Ends(UpdateStatus \o <<Do("choose"), Do("finish")>>)
    BY <1>6, <1>7
  <2> QED BY <1>2, <1>4, <1>9, <2>1 DEF Play
<1>10. CASE Stop
  <2>1. Ends(Simple("stop") \o UpdateStatus)
    BY <1>3, <1>6, <1>7
  <2> QED BY <1>2, <1>4, <1>10, <2>1 DEF Stop
<1>11. CASE Pause
  <2> DEFINE first == CASE player.state = "pause" -> <<Send("resume")>>
                        [] player.state = "play" -> <<Send("pause")>>
                        [] OTHER -> <<>>
  <2>1. Begins("other", first \o <<Do("finish")>> \o UpdateStatus)
        /\ todo' = first \o <<Do("finish")>> \o UpdateStatus
    BY <1>2, <1>11 DEF Pause
  <2>2. first \in {<<Send("resume")>>, <<Send("pause")>>, <<>>}
    OBVIOUS
  <2>3. first \in Seq(Call) /\ Asks(first)
    BY <1>3, <2>2, PartsAsk
  <2> HIDE DEF first
  <2>4. Ends(first \o <<Do("finish")>>)
    BY <1>5, <1>6, <2>3
  <2>5. Ends(first \o <<Do("finish")>> \o UpdateStatus)
    BY <1>6, <1>7, <2>4
  <2> QED BY <1>4, <2>1, <2>5
<1>12. CASE Seek
  <2>1. Ends(Simple("set") \o UpdateStatus)
    BY <1>3, <1>6, <1>7
  <2>2. CASE seekcounter' = 1 /\ Start("other", Simple("set") \o UpdateStatus)
    BY <1>1, <1>4, <2>1, <2>2
  <2>3. CASE /\ seekcounter' = 1 - seekcounter
             /\ UNCHANGED <<vars, todo, status, player, crashed, op, asked, mpdvars>>
    BY <2>3 DEF Goal
  <2> QED BY <1>12, <2>2, <2>3 DEF Seek
<1>13. CASE Jump
  <2> DEFINE paused == IF player.state = "pause" THEN <<Send("pause")>> ELSE <<>>
  <2>1. Begins("other", Simple("play") \o paused \o <<Do("finish")>>)
        /\ todo' = Simple("play") \o paused \o <<Do("finish")>>
    BY <1>2, <1>13 DEF Jump
  <2>2. paused \in {<<Send("pause")>>, <<>>}
    OBVIOUS
  <2>3. paused \in Seq(Call) /\ Asks(paused)
    BY <1>3, <2>2, PartsAsk
  <2>4. Simple("play") \in Seq(Call) /\ Asks(Simple("play"))
    BY <1>3, PartsAsk
  <2> HIDE DEF paused
  <2>5. Simple("play") \o paused \in Seq(Call) /\ Asks(Simple("play") \o paused)
    <3>1. CASE paused = <<>>
      BY <2>4, <3>1, ConcatEmptySeq
    <3>2. CASE paused # <<>>
      BY <2>3, <2>4, <3>2, ConcatAsks
    <3> QED BY <3>1, <3>2
  <2>6. Ends(Simple("play") \o paused \o <<Do("finish")>>)
    BY <1>5, <1>6, <2>5
  <2> QED BY <1>4, <2>1, <2>6
<1>14. CASE Djump
  <2>1. Begins("djump", <<Send("play")>>) /\ todo' = <<Send("play")>>
    BY <1>2, <1>14 DEF Djump
  <2>2. todo' \in Seq(Call) /\ Asks(todo')
    BY <1>3, <2>1, PartsAsk
  <2>3. Lasts("djump", todo')
    BY <2>1 DEF Lasts
  <2> QED BY <2>1, <2>2, <2>3 DEF Goal
<1>15. CASE SetOption \/ DelCurrSong \/ PlClear
  <2>1. \E r \in PlayerCommand : StartOther(Simple(r))
    BY <1>3, <1>15 DEF SetOption, DelCurrSong, PlClear
  <2> QED BY <1>2, <1>4, <1>6, <2>1
<1>16. CASE BrowserAdd
  <2>1. Ends(<<Do("finish")>> \o Simple("add"))
    BY <1>3, <1>6, <1>7
  <2> QED BY <1>2, <1>4, <1>16, <2>1 DEF BrowserAdd
<1>17. CASE GetMpdDir \/ RefreshStats
  <2>1. PICK c \in {Get("stats"), [do |-> "entity", cmd |-> "all"]},
             r \in {"lsinfo", "stats"} : 
               StartOther(<<Do("finish"), Send(r), c, Do("finish")>>)
    BY <1>17 DEF GetMpdDir, RefreshStats
  <2> DEFINE calls == <<Do("finish"), Send(r), c, Do("finish")>>
  <2>2. Begins("other", calls) /\ todo' = calls
    BY <1>2, <2>1
  <2>3. /\ Do("finish") \in Call /\ Do("finish").do = "finish"
        /\ Send(r) \in Call /\ Send(r).do = "send"
    <3>1. "finish" \in What \ {"send"}
      BY DEF What
    <3> QED BY <1>3, <3>1, CallTypes
  <2>4. c \in Call /\ c.do # "store"
    <3>1. "all" \in Argument
      BY DEF Argument
    <3> QED BY <1>3, <3>1, CallTypes
  <2>5. calls \in Seq(Call) /\ Len(calls) = 4
    BY <2>3, <2>4
  <2>6. calls[1] = Do("finish") /\ calls[2] = Send(r) /\ calls[3] = c /\ calls[4] = Do("finish")
    OBVIOUS
  <2> HIDE DEF calls
  <2>7. StoreFree(calls)
    BY <2>3, <2>4, <2>5, <2>6 DEF StoreFree
  <2>8. calls # <<>>
    BY <2>5, EmptySeq
  <2>9. calls[Len(calls)] = Do("finish")
    BY <2>5, <2>6, Zenon
  <2>10. Lasts("other", calls)
    BY <2>3, <2>8, <2>9 DEF Lasts, Closes
  <2> QED BY <2>2, <2>5, <2>7, <2>10 DEF Goal
<1> QED BY <1>8, <1>9, <1>10, <1>11, <1>12, <1>13, <1>14, <1>15, <1>16, <1>17
        DEF StartOperation

-----------------------------------------------------------------------------
(* The types of the module's own state, and how an operation ends.         *)

OwnTypes ==
  /\ status \in {None, Blank} \cup Status
  /\ player \in Status
  /\ seekcounter \in 0..1
  /\ crashed \in BOOLEAN
  /\ emitted \in 0..MaxEntries
  /\ op \in {"update", "djump", "other"}
  /\ asked \subseteq MpdStatus

\* mpd_getStatus does not return the structure it has not filled: no Blank is
\* left when mod_mpd_update_status stores the answer.
BlankInv ==
  status = Blank /\ status # None =>
    todo = <<>> \/ todo[1].do = "scan" \/ StoreFree(todo)

RestInv == (Asks(todo) \/ StoreFree(todo)) /\ BlankInv

\* How the operation under way will end, or has ended.
EndInv ==
  \/ Lasts(op, todo)
  \/ /\ todo = <<>>
     /\ \/ crashed \/ doneProcessing \/ op = "djump"
        \/ op = "update" /\ status # None /\ status.state = "stop"

OwnInv == OwnTypes /\ RestInv /\ EndInv

\* The rest of a sequence.
LEMMA TailKeeps ==
  ASSUME NEW s \in Seq(Call), s # <<>>
  PROVE  /\ Asks(s) => Asks(Tail(s))
         /\ StoreFree(s) => StoreFree(Tail(s))
         /\ Tail(s) # <<>> => Tail(s)[Len(Tail(s))] = s[Len(s)]
         /\ Tail(s) = <<>> => s[Len(s)] = s[1]
<1>1. Len(s) \in Nat \ {0}
  BY EmptySeq
<1>2. /\ Tail(s) \in Seq(Call) /\ Len(Tail(s)) = Len(s) - 1
      /\ \A i \in 1..Len(s) - 1 : Tail(s)[i] = s[i + 1]
  OBVIOUS
<1>3. \A i \in 1..Len(Tail(s)) : i + 1 \in 1..Len(s) /\ Tail(s)[i] = s[i + 1]
  BY <1>1, <1>2
<1>4. (Asks(s) => Asks(Tail(s))) /\ (StoreFree(s) => StoreFree(Tail(s)))
  BY <1>3 DEF Asks, StoreFree
<1>5. Tail(s) # <<>> => Tail(s)[Len(Tail(s))] = s[Len(s)]
  <2>1. SUFFICES ASSUME Tail(s) # <<>> PROVE Tail(s)[Len(Tail(s))] = s[Len(s)]
    OBVIOUS
  <2>2. Len(s) - 1 \in 1..Len(s) - 1 /\ (Len(s) - 1) + 1 = Len(s)
    BY <1>1, <1>2, <2>1, EmptySeq
  <2>3. Tail(s)[Len(s) - 1] = s[(Len(s) - 1) + 1]
    BY <1>2, <2>2
  <2> QED BY <1>2, <2>2, <2>3
<1>6. Tail(s) = <<>> => Len(s) = 1
  <2>1. Tail(s) = <<>> => Len(Tail(s)) = 0
    BY EmptySeq
  <2>2. PICK n \in Nat \ {0} : n = Len(s)
    BY <1>1
  <2>3. n - 1 = 0 => n = 1
    OBVIOUS
  <2> QED BY <1>2, <2>1, <2>2, <2>3
<1> QED BY <1>4, <1>5, <1>6

\* A call that has become a later part of itself.
LEMMA BecomeKeeps ==
  ASSUME NEW s \in Seq(Call), s # <<>>, NEW w \in {"scan", "head", "tail", "entity"},
         w = "scan" => s[1].do = "get"
  PROVE  LET t == <<[Head(s) EXCEPT !.do = w]>> \o Tail(s)
         IN  /\ t # <<>> /\ t[1].do = w
             /\ Asks(s) => Asks(t)
             /\ StoreFree(s) => StoreFree(t)
             /\ t[Len(t)] = s[Len(s)] \/ s[Len(s)] = s[1]
<1> DEFINE c == [Head(s) EXCEPT !.do = w]
           t == <<c>> \o Tail(s)
<1>1. Len(s) \in Nat \ {0} /\ Head(s) = s[1] /\ s[1] \in Call
  BY EmptySeq
<1>2. /\ Tail(s) \in Seq(Call) /\ Len(Tail(s)) = Len(s) - 1
      /\ \A i \in 1..Len(s) - 1 : Tail(s)[i] = s[i + 1]
  OBVIOUS
<1>3. c.do = w /\ c.cmd = s[1].cmd /\ c \in Call
  <2>1. w \in What
    BY DEF What
  <2> QED BY <1>1, <2>1 DEF Call
<1> HIDE DEF c
<1>4. /\ Len(t) = Len(s) /\ t[1] = c
      /\ \A i \in 2..Len(s) : t[i] = s[i]
  <2>1. <<c>> \in Seq(Call) /\ Len(<<c>>) = 1 /\ <<c>>[1] = c
    BY <1>3
  <2>2. /\ Len(t) = 1 + (Len(s) - 1) /\ t[1] = c
        /\ \A i \in 1..Len(s) - 1 : t[1 + i] = Tail(s)[i]
    <3>1. /\ Len(t) = Len(<<c>>) + Len(Tail(s))
          /\ \A i \in 1..Len(<<c>>) : t[i] = <<c>>[i]
          /\ \A i \in 1..Len(Tail(s)) : t[Len(<<c>>) + i] = Tail(s)[i]
      BY <1>2, <2>1, ConcatProperties
    <3> HIDE DEF t
    <3> QED BY <1>2, <2>1, <3>1
  <2> HIDE DEF t
  <2>3. ASSUME NEW i \in 2..Len(s) PROVE t[i] = s[i]
    <3>1. i - 1 \in 1..Len(s) - 1 /\ 1 + (i - 1) = i /\ (i - 1) + 1 = i
      BY <1>1
    <3> QED BY <1>2, <2>2, <3>1
  <2> QED BY <1>1, <2>2, <2>3
<1>5. t # <<>>
  BY <1>1, <1>4, EmptySeq
<1> HIDE DEF t
<1>6. Asks(s) => Asks(t)
  <2>1. SUFFICES ASSUME Asks(s), NEW i \in 1..Len(t), t[i].do \in {"get", "scan"}
                 PROVE  t[i].cmd = "status"
    BY DEF Asks
  <2>2. CASE i = 1
    BY <1>1, <1>3, <1>4, <2>1, <2>2 DEF Asks
  <2>3. CASE i # 1
    <3>1. i \in 2..Len(s) /\ i \in 1..Len(s)
      BY <1>1, <1>4, <2>3
    <3> QED BY <1>4, <2>1, <3>1 DEF Asks
  <2> QED BY <2>2, <2>3
<1>7. StoreFree(s) => StoreFree(t)
  <2>1. SUFFICES ASSUME StoreFree(s), NEW i \in 1..Len(t)
                 PROVE  t[i].do # "store"
    BY DEF StoreFree
  <2>2. CASE i = 1
    BY <1>3, <1>4, <2>2
  <2>3. CASE i # 1
    <3>1. i \in 2..Len(s) /\ i \in 1..Len(s)
      BY <1>1, <1>4, <2>3
    <3> QED BY <1>4, <2>1, <3>1 DEF StoreFree
  <2> QED BY <2>2, <2>3
<1>8. t[Len(t)] = s[Len(s)] \/ s[Len(s)] = s[1]
  <2>1. CASE Len(s) = 1
    BY <2>1
  <2>2. CASE Len(s) # 1
    <3>1. PICK n \in Nat \ {0} : n = Len(s)
      BY <1>1
    <3>2. n \in 2..n
      BY <2>2, <3>1
    <3> QED BY <1>4, <3>1, <3>2
  <2> QED BY <2>1, <2>2
<1> QED BY <1>3, <1>4, <1>5, <1>6, <1>7, <1>8 DEF t, c

\* A library call that goes on within an operation, or comes to its end.
LEMMA RestKept ==
  ASSUME todo \in Seq(Call), todo # <<>>, RestInv,
         \/ Return \/ Stay
         \/ \E w \in {"scan", "head", "tail", "entity"} :
              Become(w) /\ (w = "scan" => todo[1].do = "get")
         \/ todo' = <<>>
  PROVE  /\ Asks(todo') \/ StoreFree(todo')
         /\ StoreFree(todo) => StoreFree(todo')
         /\ ~Asks(todo') => StoreFree(todo)
<1>1. Asks(todo) => Asks(todo')
  <2>1. CASE \E w \in {"scan", "head", "tail", "entity"} :
               Become(w) /\ (w = "scan" => todo[1].do = "get")
    <3>1. PICK w \in {"scan", "head", "tail", "entity"} :
            Become(w) /\ (w = "scan" => todo[1].do = "get")
      BY <2>1
    <3>2. todo' = <<[Head(todo) EXCEPT !.do = w]>> \o Tail(todo)
      BY <3>1 DEF Become
    <3> QED BY <3>1, <3>2, BecomeKeeps
  <2>2. CASE Return
    BY <2>2, TailKeeps DEF Return
  <2>3. CASE Stay
    BY <2>3 DEF Stay
  <2>4. CASE todo' = <<>>
    BY <2>4, PartsAsk
  <2> QED BY <2>1, <2>2, <2>3, <2>4
<1>2. StoreFree(todo) => StoreFree(todo')
  <2>1. CASE \E w \in {"scan", "head", "tail", "entity"} :
               Become(w) /\ (w = "scan" => todo[1].do = "get")
    <3>1. PICK w \in {"scan", "head", "tail", "entity"} :
            Become(w) /\ (w = "scan" => todo[1].do = "get")
      BY <2>1
    <3>2. todo' = <<[Head(todo) EXCEPT !.do = w]>> \o Tail(todo)
      BY <3>1 DEF Become
    <3> QED BY <3>1, <3>2, BecomeKeeps
  <2>2. CASE Return
    BY <2>2, TailKeeps DEF Return
  <2>3. CASE Stay
    BY <2>3 DEF Stay
  <2>4. CASE todo' = <<>>
    BY <2>4 DEF StoreFree
  <2> QED BY <2>1, <2>2, <2>3, <2>4
<1> QED BY <1>1, <1>2 DEF RestInv

\* The operation ends as it was to end.
LEMMA EndKept ==
  ASSUME todo \in Seq(Call), todo # <<>>, EndInv, UNCHANGED op,
         \/ Stay
         \/ Return /\ todo[1].do \notin {"finish", "store", "song"}
         \/ Return /\ todo[1].do # "song" /\ doneProcessing'
         \/ /\ \E w \in {"scan", "head", "tail", "entity"} :
                 Become(w) /\ (w = "scan" => todo[1].do = "get")
            /\ todo[1].do \notin {"finish", "store", "song"}
  PROVE  EndInv'
<1>1. Lasts(op, todo)
  BY DEF EndInv
<1> DEFINE last == todo[Len(todo)]
<1>2. \/ op = "djump"
      \/ last.do \in {"finish", "store"}
      \/ op = "update" /\ last.do = "song"
  BY <1>1 DEF Lasts, Closes
<1>3. ASSUME todo' # <<>>, todo'[Len(todo')] = last PROVE EndInv'
  BY <1>2, <1>3 DEF EndInv, Lasts, Closes
<1>4. ASSUME todo' # <<>>, op = "djump" PROVE EndInv'
  BY <1>4 DEF EndInv, Lasts
<1> HIDE DEF last
<1>5. CASE Stay
  BY <1>3, <1>5 DEF Stay, last
<1>6. CASE Return /\ todo[1].do # "song"
                  /\ (todo[1].do \notin {"finish", "store"} \/ doneProcessing')
  <2>1. CASE todo' # <<>>
    <3>1. todo'[Len(todo')] = last
      BY <1>6, <2>1, TailKeeps DEF Return, last
    <3> QED BY <1>3, <2>1, <3>1
  <2>2. CASE todo' = <<>>
    <3>1. last = todo[1]
      BY <1>6, <2>2, TailKeeps DEF Return, last
    <3> QED BY <1>2, <1>6, <2>2, <3>1 DEF EndInv
  <2> QED BY <2>1, <2>2
<1>7. ASSUME NEW w \in {"scan", "head", "tail", "entity"}, Become(w),
             w = "scan" => todo[1].do = "get",
             todo[1].do \notin {"finish", "store", "song"}
      PROVE  EndInv'
  <2>1. todo' # <<>> /\ (todo'[Len(todo')] = last \/ last = todo[1])
    BY <1>7, BecomeKeeps DEF Become, last
  <2> QED BY <1>2, <1>3, <1>4, <1>7, <2>1
<1> QED BY <1>5, <1>6, <1>7

\* What the elements of MPD's answers say of its status has its type.
LEMMA FillType ==
  ASSUME NEW st \in {None, Blank} \cup Status, NEW e \in Element
  PROVE  Fill(st, e) \in {None, Blank} \cup Status
BY PlayerAssumption DEF Fill, PlayerElement

\* Every step of the daemon keeps the types and the way the operation ends.
LEMMA ClientKeepsOwn ==
  ASSUME PlaceInv, TypeOK, OwnInv, ClientStep
  PROVE  OwnInv'
<1>1. todo # <<>> /\ Head(todo) = todo[1] /\ todo[1] \in Call /\ todo \in Seq(Call)
  <2>1. todo # <<>>
    BY DEF ClientStep, CallSend, CallChoose, CallBegin, CallEnd, CallFinish, CallGet,
           CallScan, CallStore, CallSong, CallNext, CallEntity, CallHead, CallTail, SigPipe, At
  <2> QED BY <2>1, RestPlaced DEF PlaceInv, Placed
<1>2. \A w : At(w) => todo[1].do = w
  BY <1>1 DEF At
<1>3. OwnTypes /\ RestInv /\ BlankInv /\ EndInv
  BY DEF OwnInv, RestInv
<1>4. ASSUME \/ Ordinary
             \/ UNCHANGED <<player, seekcounter, crashed, op, mpdvars>> /\ asked' = {mpd}
      PROVE  /\ UNCHANGED op
             /\ status' \in {None, Blank} \cup Status => OwnTypes'
  <2>1. mpd \in MpdStatus
    BY DEF PlaceInv
  <2> QED BY <1>3, <1>4, <2>1 DEF Ordinary, mpdvars, OwnTypes
<1> DEFINE Moves == \/ Return \/ Stay
                    \/ \E w \in {"scan", "head", "tail", "entity"} :
                         Become(w) /\ (w = "scan" => todo[1].do = "get")
           Passes == todo[1].do \notin {"finish", "store", "song"}
\* The calls that do not touch the status.
<1>5. ASSUME Moves, UNCHANGED status, todo[1].do # "scan" PROVE RestInv'
  <2>1. /\ Asks(todo') \/ StoreFree(todo')
        /\ StoreFree(todo) => StoreFree(todo')
    BY <1>1, <1>3, <1>5, RestKept
  <2>2. BlankInv'
    BY <1>1, <1>3, <1>5, <2>1 DEF BlankInv
  <2> QED BY <2>1, <2>2 DEF RestInv
<1>6. ASSUME Moves, UNCHANGED status, Ordinary, todo[1].do # "scan", Passes PROVE OwnInv'
  <2>1. OwnTypes'
    BY <1>3, <1>4, <1>6 DEF OwnTypes
  <2>2. UNCHANGED op
    BY <1>4, <1>6
  <2>3. EndInv'
    BY <1>1, <1>3, <1>6, <2>2, EndKept
  <2> QED BY <1>5, <1>6, <2>1, <2>3 DEF OwnInv
<1> HIDE DEF Moves, Passes
<1>7. ASSUME NEW r, SendCommand(r), todo[1].do \in {"send", "choose"} PROVE OwnInv'
  <2>1. /\ Return /\ UNCHANGED <<status, player, seekcounter, crashed, op, mpdvars>>
        /\ asked' = asked \/ asked' = {mpd}
    BY <1>7 DEF SendCommand
  <2>2. OwnTypes'
    BY <1>3, <1>4, <2>1 DEF OwnTypes, Ordinary
  <2>3. EndInv'
    BY <1>1, <1>3, <1>7, <2>1, EndKept
  <2>4. RestInv'
    BY <1>5, <1>7, <2>1 DEF Moves
  <2> QED BY <2>2, <2>3, <2>4 DEF OwnInv
<1>8. CASE CallSend \/ CallChoose
  <2>1. todo[1].do \in {"send", "choose"} /\ \E r : SendCommand(r)
    BY <1>2, <1>8 DEF CallSend, CallChoose
  <2> QED BY <1>7, <2>1
<1>9. CASE CallBegin \/ CallEnd
  BY <1>2, <1>6, <1>9 DEF CallBegin, CallEnd, Moves, Passes
<1>10. CASE CallFinish
  <2>1. /\ todo[1].do = "finish" /\ UNCHANGED status /\ Ordinary
        /\ (Return /\ doneProcessing') \/ Stay
    BY <1>2, <1>10 DEF CallFinish, vars, conn
  <2>2. OwnTypes' /\ UNCHANGED op
    BY <1>3, <1>4, <2>1 DEF OwnTypes
  <2>3. EndInv'
    BY <1>1, <1>3, <2>1, <2>2, EndKept
  <2>4. RestInv'
    BY <1>5, <2>1 DEF Moves
  <2> QED BY <2>2, <2>3, <2>4 DEF OwnInv
<1>11. CASE CallGet
  <2>1. /\ todo[1].do = "get" /\ Ordinary
        /\ \/ status' = None /\ Return
           \/ status' = Blank /\ Become("scan")
    BY <1>2, <1>11 DEF CallGet
  <2>2. OwnTypes' /\ UNCHANGED op
    BY <1>4, <2>1
  <2>3. Moves /\ Passes
    BY <2>1 DEF Moves, Passes
  <2>4. EndInv'
    BY <1>1, <1>3, <2>2, <2>3, EndKept DEF Moves, Passes
  <2>5. Asks(todo') \/ StoreFree(todo')
    BY <1>1, <1>3, <2>3, RestKept DEF Moves
  <2>6. BlankInv'
    <3>1. CASE status' = None
      BY <3>1 DEF BlankInv
    <3>2. CASE Become("scan")
      <4>1. todo'[1].do = "scan"
        BY <1>1, <2>1, <3>2, BecomeKeeps DEF Become
      <4> QED BY <4>1 DEF BlankInv
    <3> QED BY <2>1, <3>1, <3>2
  <2> QED BY <2>2, <2>4, <2>5, <2>6 DEF OwnInv, RestInv
<1>12. CASE CallScan
  <2>1. /\ todo[1].do = "scan" /\ Ordinary
        /\ \/ status' = None /\ Return
           \/ status' = Fill(status, returnElement) /\ returnElement # NoElement /\ Stay
           \/ /\ Return /\ UNCHANGED status
              /\ ~(status.state = "unknown" /\ todo[1].cmd = "status")
    BY <1>1, <1>2, <1>12 DEF CallScan
  <2>2. returnElement # NoElement => returnElement \in Element
    BY DEF TypeOK
  <2>3. status' \in {None, Blank} \cup Status
    BY <1>3, <2>1, <2>2, FillType DEF OwnTypes
  <2>4. OwnTypes' /\ UNCHANGED op
    BY <1>4, <2>1, <2>3
  <2>5. EndInv'
    BY <1>1, <1>3, <2>1, <2>4, EndKept
  <2>6. /\ Asks(todo') \/ StoreFree(todo')
        /\ StoreFree(todo) => StoreFree(todo')
    BY <1>1, <1>3, <2>1, RestKept
  <2>7. BlankInv'
    <3>1. CASE status' = None
      BY <3>1 DEF BlankInv
    <3>2. CASE Stay
      BY <2>1, <3>2 DEF BlankInv, Stay
    <3>3. CASE /\ Return /\ UNCHANGED status
               /\ ~(status.state = "unknown" /\ todo[1].cmd = "status")
      <4>1. SUFFICES ASSUME status = Blank PROVE StoreFree(todo')
        BY <3>3 DEF BlankInv
      <4>2. todo[1].cmd # "status"
        BY <3>3, <4>1 DEF Blank
      <4>3. 1 \in 1..Len(todo)
        BY <1>1, EmptySeq
      <4>4. ~Asks(todo)
        BY <2>1, <4>2, <4>3 DEF Asks
      <4> QED BY <1>3, <2>6, <4>4 DEF RestInv
    <3> QED BY <2>1, <3>1, <3>2, <3>3
  <2> QED BY <2>4, <2>5, <2>6, <2>7 DEF OwnInv, RestInv
<1>13. CASE CallStore
  <2>1. /\ todo[1].do = "store" /\ UNCHANGED <<vars, status, seekcounter, op, mpdvars>>
        /\ player' = IF error # "none" \/ status = None THEN player ELSE status
        /\ asked' = {}
        /\ \/ Return /\ UNCHANGED crashed
           \/ crashed' = TRUE /\ todo' = <<>>
    BY <1>2, <1>13 DEF CallStore
  <2>2. 1 \in 1..Len(todo)
    BY <1>1, EmptySeq
  <2>3. ~StoreFree(todo)
    BY <2>1, <2>2 DEF StoreFree
  <2>4. status # None => status \in Status
    BY <1>1, <1>3, <2>1, <2>3 DEF BlankInv, OwnTypes
  <2>5. OwnTypes'
    BY <1>3, <2>1, <2>4 DEF OwnTypes, mpdvars
  <2>6. doneProcessing'
    BY <1>1, <2>1 DEF PlaceInv, Opens, vars, conn
  <2>7. EndInv'
    <3>1. CASE Return
      BY <1>1, <1>3, <2>1, <2>6, <3>1, EndKept
    <3>2. CASE todo' = <<>>
      BY <2>6, <3>2 DEF EndInv
    <3> QED BY <2>1, <3>1, <3>2
  <2>8. Asks(todo') \/ StoreFree(todo')
    BY <1>1, <1>3, <2>1, RestKept
  <2>9. BlankInv'
    BY <1>1, <1>3, <2>1, <2>3 DEF BlankInv
  <2> QED BY <2>5, <2>7, <2>8, <2>9 DEF OwnInv, RestInv
<1>14. CASE CallSong
  <2> DEFINE song == <<Do("next"), [do |-> "entity", cmd |-> "one"], Do("finish")>>
  <2>1. /\ todo[1].do = "song"
        /\ UNCHANGED <<vars, status, player, seekcounter, op, asked, mpdvars>>
        /\ \/ crashed' = TRUE /\ todo' = <<>>
           \/ UNCHANGED crashed /\ status # None /\ status.state = "stop" /\ Return
           \/ UNCHANGED crashed /\ todo' = song
    BY <1>2, <1>14 DEF CallSong, Return
  <2>2. OwnTypes'
    BY <1>3, <2>1 DEF OwnTypes, mpdvars
  <2>3. /\ song \in Seq(Call) /\ Len(song) = 3 /\ song[3] = Do("finish")
        /\ \A i \in 1..3 : song[i].do \notin {"get", "scan", "store"}
    <3>1. /\ Do("next") \in Call /\ Do("next").do = "next"
          /\ Do("finish") \in Call /\ Do("finish").do = "finish"
      <4>1. {"next", "finish"} \subseteq What \ {"send"}
        BY DEF What
      <4> QED BY <4>1, CallTypes
    <3>2. /\ [do |-> "entity", cmd |-> "one"] \in Call
          /\ [do |-> "entity", cmd |-> "one"].do = "entity"
      <4>1. "one" \in Argument
        BY DEF Argument
      <4> QED BY <4>1, CallTypes
    <3> QED BY <3>1, <3>2
  <2>4. song # <<>> /\ song[Len(song)].do = "finish"
    <3>1. Do("finish").do = "finish"
      BY DEF Do
    <3> HIDE DEF song
    <3>2. song # <<>>
      BY <2>3, EmptySeq
    <3>3. song[Len(song)] = Do("finish")
      BY <2>3, Zenon
    <3> QED BY <3>1, <3>2, <3>3
  <2> HIDE DEF song
  <2>5. Asks(song) /\ StoreFree(song)
    BY <2>3 DEF Asks, StoreFree
  <2>6. Asks(todo') \/ StoreFree(todo')
    BY <1>1, <1>3, <2>1, <2>5, RestKept
  <2>7. BlankInv'
    <3>1. StoreFree(todo) => StoreFree(todo')
      BY <1>1, <1>3, <2>1, <2>5, RestKept
    <3> QED BY <1>1, <1>3, <2>1, <3>1 DEF BlankInv
  <2>8. EndInv'
    <3>1. CASE crashed' = TRUE /\ todo' = <<>>
      BY <3>1 DEF EndInv
    <3>2. CASE todo' = song
      BY <2>4, <3>2 DEF EndInv, Lasts, Closes
    <3>3. CASE status # None /\ status.state = "stop" /\ Return
      <4>1. \/ op = "djump" \/ todo[Len(todo)].do \in {"finish", "store"}
            \/ op = "update" /\ todo[Len(todo)].do = "song"
        BY <1>1, <1>3 DEF EndInv, Lasts, Closes
      <4>2. CASE todo' # <<>>
        <5>1. todo'[Len(todo')] = todo[Len(todo)]
          BY <1>1, <3>3, <4>2, TailKeeps DEF Return
        <5> QED BY <2>1, <4>1, <4>2, <5>1 DEF EndInv, Lasts, Closes
      <4>3. CASE todo' = <<>>
        <5>1. todo[Len(todo)] = todo[1]
          BY <1>1, <3>3, <4>3, TailKeeps DEF Return
        <5> QED BY <2>1, <3>3, <4>1, <4>3, <5>1 DEF EndInv
      <4> QED BY <4>2, <4>3
    <3> QED BY <2>1, <3>1, <3>2, <3>3
  <2> QED BY <2>2, <2>6, <2>7, <2>8 DEF OwnInv, RestInv
<1>15. CASE CallNext
  BY <1>2, <1>6, <1>15 DEF CallNext, Moves, Passes
<1>16. CASE CallEntity
  BY <1>2, <1>6, <1>16 DEF CallEntity, Moves, Passes
<1>17. CASE CallHead
  BY <1>2, <1>6, <1>17 DEF CallHead, Moves, Passes
<1>18. CASE CallTail
  BY <1>2, <1>6, <1>18 DEF CallTail, EntityComplete, Moves, Passes
<1>19. CASE SigPipe
  <2>1. /\ todo' = <<>> /\ crashed' = TRUE
        /\ UNCHANGED <<vars, status, player, seekcounter, op, asked, mpdvars>>
    BY <1>19 DEF SigPipe
  <2>2. OwnTypes'
    BY <1>3, <2>1 DEF OwnTypes, mpdvars
  <2>3. EndInv'
    BY <2>1 DEF EndInv
  <2>4. RestInv'
    BY <2>1, PartsAsk DEF RestInv, BlankInv
  <2> QED BY <2>2, <2>3, <2>4 DEF OwnInv
<1> QED BY <1>8, <1>9, <1>10, <1>11, <1>12, <1>13, <1>14, <1>15, <1>16, <1>17, <1>18, <1>19
        DEF ClientStep

\* Beginning an operation.
LEMMA StartKeepsOwn ==
  ASSUME OwnInv, StartOperation
  PROVE  OwnInv'
<1>1. CASE \E name \in {"update", "djump", "other"} :
             /\ Begins(name, todo') /\ Lasts(name, todo')
             /\ todo' \in Seq(Call) /\ (Asks(todo') \/ StoreFree(todo'))
  <2>1. PICK name \in {"update", "djump", "other"} :
          /\ Begins(name, todo') /\ Lasts(name, todo')
          /\ todo' \in Seq(Call) /\ (Asks(todo') \/ StoreFree(todo'))
    BY <1>1
  <2>2. /\ op' = name /\ status' = None
        /\ UNCHANGED <<player, crashed, asked, mpdvars>>
        /\ seekcounter' = seekcounter \/ seekcounter' = 1
    BY <2>1 DEF Begins
  <2>3. OwnTypes'
    BY <2>2 DEF OwnInv, OwnTypes, mpdvars
  <2>4. EndInv'
    BY <2>1, <2>2 DEF EndInv
  <2>5. RestInv'
    BY <2>1, <2>2 DEF RestInv, BlankInv
  <2> QED BY <2>3, <2>4, <2>5 DEF OwnInv
<1>2. CASE /\ seekcounter' \in {1, 1 - seekcounter}
           /\ UNCHANGED <<vars, todo, status, player, crashed, op, asked, mpdvars>>
  <2>1. seekcounter' \in 0..1
    BY <1>2 DEF OwnInv, OwnTypes
  <2>2. OwnTypes'
    BY <1>2, <2>1 DEF OwnInv, OwnTypes, mpdvars
  <2>3. UNCHANGED <<todo, status, crashed, op, doneProcessing>>
    BY <1>2 DEF vars, conn
  <2> QED BY <2>2, <2>3 DEF OwnInv, RestInv, BlankInv, EndInv
<1> QED BY <1>1, <1>2, StartsWell

\* MPD and its other clients touch neither the operation nor what it has read.
LEMMA MpdKeepsOwn ==
  ASSUME PlaceInv, PlaceInv', OwnInv, MpdStep \/ MpdClose \/ OtherClient
  PROVE  OwnInv'
<1>1. UNCHANGED <<todo, status, player, seekcounter, crashed, op>>
  BY DEF MpdStep, MpdAccept, MpdData, MpdListOK, MpdOK, MpdACK, MpdClose, OtherClient, MpdOther
<1>2. UNCHANGED doneProcessing
  BY DEF MpdStep, MpdAccept, MpdData, MpdListOK, MpdOK, MpdACK, MpdClose, OtherClient,
         Accept, EmitData, EmitListOK, EmitOK, EmitACK, Emit, ServerClose, conn, vars
<1>3. asked \subseteq MpdStatus /\ emitted \in 0..MaxEntries /\ mpd' \in MpdStatus
  BY DEF OwnInv, OwnTypes, PlaceInv
<1>4. asked' \subseteq MpdStatus
  <2>1. asked' = asked \/ \E new : SetMpd(new)
    BY DEF MpdStep, MpdAccept, MpdData, MpdListOK, MpdOK, MpdACK, MpdClose, OtherClient
  <2> QED BY <1>3, <2>1 DEF SetMpd
<1>5. emitted' \in 0..MaxEntries
  <2>1. MaxEntries \in Nat \ {0}
    BY PlayerAssumption
  <2>2. CASE MpdData
    <3>1. emitted' = emitted + 1 /\ (emitted < MaxEntries \/ emitted < 1)
      BY <2>2 DEF MpdData
    <3> QED BY <1>3, <2>1, <3>1
  <2>3. CASE UNCHANGED emitted \/ emitted' = 0
    BY <1>3, <2>1, <2>3
  <2> QED BY <2>2, <2>3 DEF MpdStep, MpdAccept, MpdListOK, MpdOK, MpdACK, MpdClose, OtherClient
<1>6. OwnTypes'
  BY <1>1, <1>4, <1>5 DEF OwnInv, OwnTypes
<1> QED BY <1>1, <1>2, <1>6 DEF OwnInv, RestInv, BlankInv, EndInv

\* At the start mod_mpd_init updates.
LEMMA InitOwn == PlayerInit => OwnInv
<1> SUFFICES ASSUME PlayerInit PROVE OwnInv
  OBVIOUS
<1>1. todo = UpdateStatus \o UpdateSonginfo /\ op = "update" /\ status = None
  BY DEF PlayerInit
<1>2. /\ Asks(todo) /\ todo # <<>> /\ todo[Len(todo)].do = "song"
  BY <1>1, PartsAsk, ConcatAsks
<1>3. OwnTypes
  <2>1. player \in Status
    BY PlayerAssumption DEF PlayerInit, Status, State
  <2>2. emitted \in 0..MaxEntries /\ seekcounter \in 0..1
    BY PlayerAssumption DEF PlayerInit
  <2>3. crashed \in BOOLEAN
    BY DEF PlayerInit
  <2> QED BY <2>1, <2>2, <2>3 DEF PlayerInit, OwnTypes
<1>4. EndInv
  BY <1>1, <1>2 DEF EndInv, Lasts
<1>5. RestInv
  BY <1>1, <1>2 DEF RestInv, BlankInv
<1> QED BY <1>3, <1>4, <1>5 DEF OwnInv

\* Both invariants and the types of the connection, together.
LEMMA OwnInvHolds == PlayerSpec => [](TypeOK /\ PlaceInv /\ OwnInv)
<1>1. PlayerInit => PlaceInv /\ OwnInv
  BY InitOwn, UpdatePrograms DEF PlayerInit, PlaceInv, IsProgram
<1>2. PlaceInv /\ OwnInv /\ TypeOK /\ [PlayerNext]_allvars => PlaceInv' /\ OwnInv'
  <2> SUFFICES ASSUME PlaceInv, OwnInv, TypeOK, [PlayerNext]_allvars
               PROVE  PlaceInv' /\ OwnInv'
    OBVIOUS
  <2>1. PlaceInv'
    BY PlaceStep
  <2>2. CASE StartOperation
    BY <2>1, <2>2, StartKeepsOwn
  <2>3. CASE ClientStep
    BY <2>1, <2>3, ClientKeepsOwn
  <2>4. CASE MpdStep \/ MpdClose \/ OtherClient
    BY <2>1, <2>4, MpdKeepsOwn
  <2>5. CASE UNCHANGED allvars
    <3>1. /\ UNCHANGED <<todo, status, player, seekcounter, crashed, op, asked, emitted>>
          /\ UNCHANGED vars
      BY <2>5 DEF allvars, client, mpdvars
    <3>2. UNCHANGED doneProcessing
      BY <3>1 DEF vars, conn
    <3> QED BY <2>1, <3>1, <3>2 DEF OwnInv, OwnTypes, RestInv, BlankInv, EndInv
  <2> QED BY <2>1, <2>2, <2>3, <2>4, <2>5 DEF PlayerNext
<1>3. PlayerSpec => []TypeOK
  BY ClientSpecHolds, TypeCorrect DEF ClientSpec
<1> QED BY <1>1, <1>2, <1>3, PTL DEF PlayerSpec

\* Every reachable state of the modules and of the connection they share is
\* well typed: in particular no status structure that mpd_getStatus has not
\* filled ever becomes the player's.
THEOREM PlayerTypeCorrect == PlayerSpec => []PlayerTypeOK
<1>1. TypeOK /\ PlaceInv /\ OwnInv => PlayerTypeOK
  <2> SUFFICES ASSUME TypeOK, PlaceInv, OwnInv PROVE PlayerTypeOK
    OBVIOUS
  <2>1. Call \subseteq [do : What, cmd : Command \cup {"none", "one", "all"}]
    BY PlayerAssumption DEF Call, Argument
  <2>2. todo \in Seq(Call)
    BY DEF PlaceInv, Placed
  <2>3. todo \in Seq([do : What, cmd : Command \cup {"none", "one", "all"}])
    <3> DEFINE Wide == [do : What, cmd : Command \cup {"none", "one", "all"}]
    <3>1. Call \subseteq Wide
      BY <2>1
    <3> HIDE DEF Wide
    <3>2. todo \in Seq(Wide)
      BY <2>2, <3>1
    <3> QED BY <3>2 DEF Wide
  <2>4. mpd \in MpdStatus
    BY DEF PlaceInv
  <2> QED BY <2>3, <2>4 DEF PlayerTypeOK, OwnInv, OwnTypes, What
<1> QED BY <1>1, OwnInvHolds, PTL

\* An operation of mod_mpd, mod_browser or mod_lcdproc leaves an answer unread
\* only when it is a djump or an update that found MPD stopped, whatever came
\* before it and whatever MPD and the transport do.
THEOREM BusyOnlyHolds == PlayerSpec => []BusyOnlyAfterStopOrDjump
<1>1. OwnInv => BusyOnlyAfterStopOrDjump
  BY DEF OwnInv, EndInv, Lasts, BusyOnlyAfterStopOrDjump
<1> QED BY <1>1, OwnInvHolds, PTL

-----------------------------------------------------------------------------
(* Where the status is asked for.                                          *)

\* The calls before the one that stores an answer, and before the one that looks
\* at the state of the song.
AsksStatus(c) == c.do \in {"get", "scan"} /\ c.cmd = "status"

BeforeStore(k, c) ==
  /\ k \in {1, 4} => c.do = "finish"
  /\ k = 2 => AsksStatus(c)
  /\ k = 3 => c = Send("status")

BeforeSong(k, c) ==
  /\ k = 1 => AsksStatus(c)
  /\ k = 2 => c.do = "end"
  /\ k = 3 => c = Send("currentsong")
  /\ k = 4 => c = Send("status")
  /\ k = 5 => c.do = "begin"

\* What c is, if it comes k places before d.
Leads(c, k, d) ==
  /\ d.do = "store" => BeforeStore(k, c)
  /\ d.do = "song" => BeforeSong(k, c)

Comes(calls, k, what) == k + 1 \in 1..Len(calls) /\ calls[k + 1].do = what

\* The rest of an operation: each status is asked for, read and used in this order,
\* and each list has its six calls.
Shaped(calls) ==
  \A i \in 1..Len(calls) :
    /\ \A k \in 1..5 : i + k \in 1..Len(calls) => Leads(calls[i], k, calls[i + k])
    /\ calls[i].do = "begin" => Comes(calls, i + 4, "song")
    /\ i > 1 => calls[i].do # "scan"

\* An operation of which nothing has been done.
Whole(calls) ==
  /\ calls \in Seq(Call) /\ Shaped(calls)
  /\ \A i \in 1..Len(calls) : /\ calls[i].do = "store" => i > 4
                              /\ calls[i].do = "song" => i > 5
                              /\ calls[i].do # "scan"

\* No status is under way.
Far(calls) ==
  /\ \A k \in 0..3 : ~Comes(calls, k, "store")
  /\ \A k \in 0..4 : ~Comes(calls, k, "song")

\* Two operations one behind the other.
LEMMA ConcatWhole ==
  ASSUME NEW s, NEW t, Whole(s), Whole(t)
  PROVE  Whole(s \o t)
<1> DEFINE st == s \o t
<1>1. s \in Seq(Call) /\ t \in Seq(Call) /\ Len(s) \in Nat /\ Len(t) \in Nat
  BY DEF Whole
<1>2. st \in Seq(Call) /\ Len(st) = Len(s) + Len(t)
  BY <1>1, ConcatProperties
<1>3. \A i \in 1..Len(s) : st[i] = s[i]
  BY <1>1, ConcatProperties
<1>4. \A i \in 1..Len(t) : st[Len(s) + i] = t[i]
  BY <1>1, ConcatProperties
<1> HIDE DEF st
<1>5. ASSUME NEW i \in 1..Len(st)
      PROVE  \/ i \in 1..Len(s) /\ st[i] = s[i]
             \/ \E j \in 1..Len(t) : i = Len(s) + j /\ st[i] = t[j]
  <2>1. CASE i <= Len(s)
    BY <1>1, <1>3, <2>1
  <2>2. CASE i > Len(s)
    <3>1. i - Len(s) \in 1..Len(t) /\ i = Len(s) + (i - Len(s))
      BY <1>1, <1>2, <2>2
    <3> QED BY <1>4, <3>1
  <2> QED BY <1>1, <1>2, <2>1, <2>2
<1>6. ASSUME NEW i \in 1..Len(st)
      PROVE  /\ st[i].do = "store" => i > 4
             /\ st[i].do = "song" => i > 5
             /\ st[i].do # "scan"
  <2>1. CASE i \in 1..Len(s) /\ st[i] = s[i]
    BY <2>1 DEF Whole
  <2>2. ASSUME NEW j \in 1..Len(t), i = Len(s) + j, st[i] = t[j]
        PROVE  /\ st[i].do = "store" => i > 4
               /\ st[i].do = "song" => i > 5
               /\ st[i].do # "scan"
    BY <1>1, <2>2 DEF Whole
  <2> QED BY <1>5, <2>1, <2>2
<1>7. ASSUME NEW i \in 1..Len(st), NEW k \in 1..5, i + k \in 1..Len(st)
      PROVE  Leads(st[i], k, st[i + k])
  <2>1. CASE i + k \in 1..Len(s)
    <3>1. i \in 1..Len(s)
      BY <1>1, <2>1
    <3>2. Leads(s[i], k, s[i + k])
      BY <2>1, <3>1 DEF Whole, Shaped
    <3> QED BY <1>3, <2>1, <3>1, <3>2
  <2>2. ASSUME NEW j \in 1..Len(t), i + k = Len(s) + j, st[i + k] = t[j]
        PROVE  Leads(st[i], k, st[i + k])
    <3>1. CASE j > k
      <4>1. j - k \in 1..Len(t) /\ i = Len(s) + (j - k) /\ (j - k) + k = j
        BY <1>1, <2>2, <3>1
      <4>2. st[i] = t[j - k]
        BY <1>4, <4>1
      <4>3. Leads(t[j - k], k, t[(j - k) + k])
        BY <4>1 DEF Whole, Shaped
      <4> QED BY <2>2, <4>1, <4>2, <4>3
    <3>2. CASE j <= k
      <4>1. t[j].do = "store" => k = 5
        BY <2>2, <3>2 DEF Whole
      <4>2. t[j].do # "song"
        BY <2>2, <3>2 DEF Whole
      <4> QED BY <2>2, <4>1, <4>2 DEF Leads, BeforeStore
    <3> QED BY <3>1, <3>2
  <2> QED BY <1>5, <1>7, <2>1, <2>2
<1>8. ASSUME NEW i \in 1..Len(st), st[i].do = "begin"
      PROVE  Comes(st, i + 4, "song")
  <2>1. CASE i \in 1..Len(s) /\ st[i] = s[i]
    <3>1. Comes(s, i + 4, "song")
      BY <1>8, <2>1 DEF Whole, Shaped
    <3>2. (i + 4) + 1 \in 1..Len(s) /\ (i + 4) + 1 \in 1..Len(st)
      BY <1>1, <1>2, <3>1 DEF Comes
    <3> QED BY <1>3, <3>1, <3>2 DEF Comes
  <2>2. ASSUME NEW j \in 1..Len(t), i = Len(s) + j, st[i] = t[j]
        PROVE  Comes(st, i + 4, "song")
    <3>1. Comes(t, j + 4, "song")
      BY <1>8, <2>2 DEF Whole, Shaped
    <3>2. (j + 4) + 1 \in 1..Len(t)
      BY <3>1 DEF Comes
    <3>3. (i + 4) + 1 = Len(s) + ((j + 4) + 1) /\ (i + 4) + 1 \in 1..Len(st)
      BY <1>1, <1>2, <2>2, <3>2
    <3>4. st[(i + 4) + 1] = t[(j + 4) + 1]
      BY <1>4, <3>2, <3>3
    <3> QED BY <3>1, <3>3, <3>4 DEF Comes
  <2> QED BY <1>5, <2>1, <2>2
<1>9. Shaped(st)
  BY <1>6, <1>7, <1>8 DEF Shaped
<1> QED BY <1>2, <1>6, <1>9 DEF Whole, st

\* Calls that neither store a status, nor use one, nor open a list.
LEMMA PlainWhole ==
  ASSUME NEW calls \in Seq(Call),
         \A i \in 1..Len(calls) : calls[i].do \notin {"store", "song", "begin", "scan"}
  PROVE  Whole(calls)
BY DEF Whole, Shaped, Leads

\* The parts of the update.
LEMMA UpdatesWhole == Whole(UpdateStatus) /\ Whole(UpdateSonginfo)
<1>1. /\ Do("finish") \in Call /\ Do("store") \in Call /\ Do("begin") \in Call
      /\ Do("end") \in Call /\ Do("song") \in Call
      /\ Do("finish").do = "finish" /\ Do("store").do = "store" /\ Do("begin").do = "begin"
      /\ Do("end").do = "end" /\ Do("song").do = "song"
  <2>1. {"finish", "store", "begin", "end", "song"} \subseteq What \ {"send"}
    BY DEF What
  <2> QED BY <2>1, CallTypes
<1>2. /\ Send("status") \in Call /\ Send("currentsong") \in Call /\ Get("status") \in Call
      /\ Send("status").do = "send" /\ Send("currentsong").do = "send"
      /\ Get("status").do = "get" /\ AsksStatus(Get("status"))
  <2>1. {"status", "currentsong"} \subseteq PlayerCommand
    BY DEF PlayerCommand
  <2>2. Get("status").cmd = "status"
    BY DEF Get
  <2> QED BY <2>1, <2>2, CallTypes DEF AsksStatus
<1>3. Whole(UpdateStatus)
  <2> DEFINE calls == UpdateStatus
  <2>1. calls \in Seq(Call) /\ Len(calls) = 5
    BY <1>1, <1>2 DEF UpdateStatus
  <2>2. /\ calls[1] = Do("finish") /\ calls[2] = Send("status") /\ calls[3] = Get("status")
        /\ calls[4] = Do("finish") /\ calls[5] = Do("store")
    BY DEF UpdateStatus
  <2> HIDE DEF calls
  <2>3. \A i \in 1..4 : calls[i].do \notin {"store", "song", "begin", "scan"}
    <3>1. /\ calls[1].do \notin {"store", "song", "begin", "scan"}
          /\ calls[2].do \notin {"store", "song", "begin", "scan"}
          /\ calls[3].do \notin {"store", "song", "begin", "scan"}
          /\ calls[4].do \notin {"store", "song", "begin", "scan"}
      BY <1>1, <1>2, <2>2
    <3> QED BY <3>1
  <2>4. calls[5].do = "store"
    BY <1>1, <2>2
  <2>5. \A k \in 1..4 : BeforeStore(k, calls[5 - k])
    <3>1. /\ BeforeStore(1, calls[4]) /\ BeforeStore(2, calls[3])
          /\ BeforeStore(3, calls[2]) /\ BeforeStore(4, calls[1])
      BY <1>1, <1>2, <2>2 DEF BeforeStore
    <3> QED BY <3>1
  <2>6. ASSUME NEW i \in 1..5, NEW k \in 1..5, i + k \in 1..5
        PROVE  Leads(calls[i], k, calls[i + k])
    <3>1. CASE i + k = 5
      <4>1. k \in 1..4 /\ i = 5 - k
        BY <3>1
      <4>2. BeforeStore(k, calls[i])
        BY <2>5, <4>1
      <4> QED BY <2>4, <3>1, <4>2 DEF Leads
    <3>2. CASE i + k # 5
      <4>1. i + k \in 1..4
        BY <2>6, <3>2
      <4> QED BY <2>3, <4>1 DEF Leads
    <3> QED BY <3>1, <3>2
  <2>7. ASSUME NEW i \in 1..5
        PROVE  calls[i].do \notin {"begin", "scan", "song"} /\ (calls[i].do = "store" => i > 4)
    <3>1. CASE i = 5
      BY <2>4, <3>1
    <3>2. CASE i # 5
      <4>1. i \in 1..4
        BY <3>2
      <4> QED BY <2>3, <4>1
    <3> QED BY <3>1, <3>2
  <2>8. Shaped(calls)
    BY <2>1, <2>6, <2>7 DEF Shaped
  <2> QED BY <2>1, <2>7, <2>8 DEF Whole, calls
<1>4. Whole(UpdateSonginfo)
  <2> DEFINE calls == UpdateSonginfo
  <2>1. calls \in Seq(Call) /\ Len(calls) = 6
    BY <1>1, <1>2 DEF UpdateSonginfo
  <2>2. /\ calls[1] = Do("begin") /\ calls[2] = Send("status") /\ calls[3] = Send("currentsong")
        /\ calls[4] = Do("end") /\ calls[5] = Get("status") /\ calls[6] = Do("song")
    BY DEF UpdateSonginfo
  <2> HIDE DEF calls
  <2>3. \A i \in 1..5 : calls[i].do \notin {"store", "song", "scan"}
    <3>1. /\ calls[1].do \notin {"store", "song", "scan"}
          /\ calls[2].do \notin {"store", "song", "scan"}
          /\ calls[3].do \notin {"store", "song", "scan"}
          /\ calls[4].do \notin {"store", "song", "scan"}
          /\ calls[5].do \notin {"store", "song", "scan"}
      BY <1>1, <1>2, <2>2
    <3> QED BY <3>1
  <2>4. calls[6].do = "song"
    BY <1>1, <2>2
  <2>5. \A k \in 1..5 : BeforeSong(k, calls[6 - k])
    <3>1. /\ BeforeSong(1, calls[5]) /\ BeforeSong(2, calls[4]) /\ BeforeSong(3, calls[3])
          /\ BeforeSong(4, calls[2]) /\ BeforeSong(5, calls[1])
      BY <1>1, <1>2, <2>2 DEF BeforeSong
    <3> QED BY <3>1
  <2>6. ASSUME NEW i \in 1..6, NEW k \in 1..5, i + k \in 1..6
        PROVE  Leads(calls[i], k, calls[i + k])
    <3>1. CASE i + k = 6
      <4>1. i = 6 - k
        BY <3>1
      <4>2. BeforeSong(k, calls[i])
        BY <2>5, <4>1
      <4> QED BY <2>4, <3>1, <4>2 DEF Leads
    <3>2. CASE i + k # 6
      <4>1. i + k \in 1..5
        BY <2>6, <3>2
      <4> QED BY <2>3, <4>1 DEF Leads
    <3> QED BY <3>1, <3>2
  <2>7. ASSUME NEW i \in 1..6
        PROVE  /\ calls[i].do \notin {"store", "scan"} /\ (calls[i].do = "song" => i > 5)
               /\ calls[i].do = "begin" => i = 1
    <3>1. CASE i = 6
      BY <2>4, <3>1
    <3>2. CASE i # 6
      <4>1. i \in 1..5
        BY <3>2
      <4>2. /\ calls[2].do # "begin" /\ calls[3].do # "begin"
            /\ calls[4].do # "begin" /\ calls[5].do # "begin"
        BY <1>1, <1>2, <2>2
      <4> QED BY <2>3, <4>1, <4>2
    <3> QED BY <3>1, <3>2
  <2>8. Comes(calls, 1 + 4, "song")
    BY <2>1, <2>4 DEF Comes
  <2>9. Shaped(calls)
    BY <2>1, <2>6, <2>7, <2>8 DEF Shaped
  <2> QED BY <2>1, <2>7, <2>9 DEF Whole, calls
<1> QED BY <1>3, <1>4

\* Every operation is begun as a whole.
LEMMA StartsWhole ==
  ASSUME StartOperation
  PROVE  Whole(todo') \/ UNCHANGED todo
<1>1. /\ \A name, calls : Start(name, calls) => todo' = calls
      /\ \A name, calls : StartOp(name, calls) => todo' = calls
      /\ \A calls : StartOther(calls) => todo' = calls
  BY DEF Start, StartOp, StartOther
<1>2. {"play", "stop", "pause", "resume", "set", "delete", "clear", "add", "lsinfo", "stats"}
        \subseteq PlayerCommand
  BY DEF PlayerCommand
<1> DEFINE Plain(c) == c \in Call /\ c.do \notin {"store", "song", "begin", "scan"}
<1>3. /\ Plain(Do("finish")) /\ Plain(Do("choose"))
      /\ \A r \in PlayerCommand : Plain(Send(r)) /\ Plain(Get(r))
      /\ Plain([do |-> "entity", cmd |-> "all"])
  <2>1. {"finish", "choose"} \subseteq What \ {"send"} /\ "all" \in Argument
    BY DEF What, Argument
  <2> QED BY <2>1, CallTypes
<1>4. Whole(<<>>)
  <2> DEFINE calls == <<>>
  <2>1. calls \in Seq(Call) /\ Len(calls) = 0 /\ 1..0 = {}
    OBVIOUS
  <2> HIDE DEF calls
  <2>2. Whole(calls)
    BY <2>1, PlainWhole
  <2> QED BY <2>2 DEF calls
<1>5. ASSUME NEW c, Plain(c) PROVE Whole(<<c>>)
  <2>1. <<c>> \in Seq(Call) /\ Len(<<c>>) = 1 /\ <<c>>[1] = c
    BY <1>5
  <2> QED BY <1>5, <2>1, PlainWhole
<1>6. ASSUME NEW c, NEW d, Plain(c), Plain(d) PROVE Whole(<<c, d>>)
  <2> DEFINE calls == <<c, d>>
  <2>1. calls \in Seq(Call) /\ Len(calls) = 2 /\ calls[1] = c /\ calls[2] = d
    BY <1>6
  <2> HIDE DEF calls, Plain
  <2>2. \A i \in 1..Len(calls) : Plain(calls[i])
    BY <1>6, <2>1
  <2>3. Whole(calls)
    BY <2>1, <2>2, PlainWhole DEF Plain
  <2> QED BY <2>3 DEF calls
<1> HIDE DEF Plain
<1>7. /\ \A r \in PlayerCommand : Whole(Simple(r)) /\ Whole(<<Send(r)>>)
      /\ Whole(<<Do("finish")>>) /\ Whole(<<Do("choose"), Do("finish")>>)
  BY <1>3, <1>5, <1>6 DEF Simple
<1>8. \A s, t : Whole(s) /\ Whole(t) => Whole(s \o t)
  BY ConcatWhole
<1>9. Whole(UpdateStatus) /\ Whole(UpdateSonginfo)
  BY UpdatesWhole
<1>10. CASE Update
  BY <1>1, <1>8, <1>9, <1>10 DEF Update
<1>11. CASE Play
  BY <1>1, <1>7, <1>8, <1>9, <1>11 DEF Play
<1>12. CASE Stop
  BY <1>1, <1>2, <1>7, <1>8, <1>9, <1>12 DEF Stop
<1>13. CASE Pause
  <2> DEFINE first == CASE player.state = "pause" -> <<Send("resume")>>
                        [] player.state = "play" -> <<Send("pause")>>
                        [] OTHER -> <<>>
  <2>1. todo' = first \o <<Do("finish")>> \o UpdateStatus
    BY <1>1, <1>13 DEF Pause
  <2>2. first \in {<<Send("resume")>>, <<Send("pause")>>, <<>>}
    OBVIOUS
  <2>3. Whole(first)
    BY <1>2, <1>4, <1>7, <2>2
  <2> HIDE DEF first
  <2> QED BY <1>7, <1>8, <1>9, <2>1, <2>3
<1>14. CASE Seek
  BY <1>1, <1>2, <1>7, <1>8, <1>9, <1>14 DEF Seek
<1>15. CASE Jump
  <2> DEFINE paused == IF player.state = "pause" THEN <<Send("pause")>> ELSE <<>>
  <2>1. todo' = Simple("play") \o paused \o <<Do("finish")>>
    BY <1>1, <1>15 DEF Jump
  <2>2. Whole(paused)
    BY <1>2, <1>4, <1>7
  <2> HIDE DEF paused
  <2> QED BY <1>2, <1>7, <1>8, <2>1, <2>2
<1>16. CASE Djump
  BY <1>1, <1>2, <1>7, <1>16 DEF Djump
<1>17. CASE SetOption \/ DelCurrSong \/ PlClear
  BY <1>1, <1>2, <1>7, <1>17 DEF SetOption, DelCurrSong, PlClear
<1>18. CASE BrowserAdd
  BY <1>1, <1>2, <1>7, <1>8, <1>18 DEF BrowserAdd
<1>19. CASE GetMpdDir \/ RefreshStats
  <2>1. PICK c \in {Get("stats"), [do |-> "entity", cmd |-> "all"]},
             r \in {"lsinfo", "stats"} :
               StartOther(<<Do("finish"), Send(r), c, Do("finish")>>)
    BY <1>19 DEF GetMpdDir, RefreshStats
  <2>2. Plain(c) /\ Plain(Send(r))
    BY <1>2, <1>3
  <2> DEFINE calls == <<Do("finish"), Send(r), c, Do("finish")>>
  <2>3. calls \in Seq(Call) /\ Len(calls) = 4
    BY <1>3, <2>2 DEF Plain
  <2>4. calls[1] = Do("finish") /\ calls[2] = Send(r) /\ calls[3] = c /\ calls[4] = Do("finish")
    OBVIOUS
  <2>5. todo' = calls
    BY <1>1, <2>1
  <2> HIDE DEF calls
  <2>6. \A i \in 1..4 : Plain(calls[i])
    BY <1>3, <2>2, <2>4
  <2>7. Whole(calls)
    BY <2>3, <2>6, PlainWhole DEF Plain
  <2> QED BY <2>5, <2>7
<1> QED BY <1>10, <1>11, <1>12, <1>13, <1>14, <1>15, <1>16, <1>17, <1>18, <1>19
        DEF StartOperation

\* In an operation of which nothing has been done no status is under way.
LEMMA WholeFar ==
  ASSUME NEW calls, Whole(calls)
  PROVE  Far(calls)
BY DEF Whole, Far, Comes

\* What the first call is, by what comes behind it.
LEMMA HeadPlaces ==
  ASSUME NEW s \in Seq(Call), s # <<>>, Shaped(s)
  PROVE  /\ \A what : Comes(s, 0, what) <=> s[1].do = what
         /\ \A k \in 1..4 : Comes(s, k, "store") => BeforeStore(k, s[1])
         /\ \A k \in 1..5 : Comes(s, k, "song") => BeforeSong(k, s[1])
         /\ s[1].do = "begin" => Comes(s, 5, "song")
<1>1. Len(s) \in Nat \ {0}
  BY EmptySeq
<1>2. 1 \in 1..Len(s) /\ 0 + 1 = 1 /\ 1 + 4 = 5
  BY <1>1
<1>3. \A k \in 1..5 : Comes(s, k, "store") \/ Comes(s, k, "song") =>
                        1 + k \in 1..Len(s) /\ s[1 + k] = s[k + 1]
  BY <1>1 DEF Comes
<1>4. \A k \in 1..5 : 1 + k \in 1..Len(s) => Leads(s[1], k, s[1 + k])
  BY <1>2 DEF Shaped
<1>5. s[1].do = "begin" => Comes(s, 5, "song")
  BY <1>2 DEF Shaped
<1>6. \A what : Comes(s, 0, what) <=> s[1].do = what
  BY <1>2 DEF Comes
<1>7. \A k \in 1..5 : /\ Comes(s, k, "store") => BeforeStore(k, s[1])
                      /\ Comes(s, k, "song") => BeforeSong(k, s[1])
  BY <1>3, <1>4 DEF Leads, Comes
<1> QED BY <1>5, <1>6, <1>7

\* One call less.
LEMMA TailPlaces ==
  ASSUME NEW s \in Seq(Call), s # <<>>, Shaped(s)
  PROVE  /\ Shaped(Tail(s))
         /\ \A k \in Nat : \A what : Comes(Tail(s), k, what) <=> Comes(s, k + 1, what)
         /\ Tail(s) # <<>> => Tail(s)[1].do # "scan"
<1>1. Len(s) \in Nat \ {0}
  BY EmptySeq
<1>2. /\ Tail(s) \in Seq(Call) /\ Len(Tail(s)) = Len(s) - 1
      /\ \A i \in 1..Len(s) - 1 : Tail(s)[i] = s[i + 1]
  OBVIOUS
<1>3. \A k \in Nat : \A what : Comes(Tail(s), k, what) <=> Comes(s, k + 1, what)
  <2>1. SUFFICES ASSUME NEW k \in Nat, NEW what
                 PROVE  Comes(Tail(s), k, what) <=> Comes(s, k + 1, what)
    OBVIOUS
  <2>2. k + 1 \in 1..Len(Tail(s)) <=> (k + 1) + 1 \in 1..Len(s)
    BY <1>1, <1>2
  <2>3. k + 1 \in 1..Len(Tail(s)) => Tail(s)[k + 1] = s[(k + 1) + 1]
    BY <1>1, <1>2
  <2> QED BY <2>2, <2>3 DEF Comes
<1>4. ASSUME NEW i \in 1..Len(Tail(s))
      PROVE  /\ i + 1 \in 1..Len(s) /\ Tail(s)[i] = s[i + 1]
             /\ Tail(s)[i].do # "scan"
  <2>1. i + 1 \in 1..Len(s) /\ Tail(s)[i] = s[i + 1] /\ i + 1 > 1
    BY <1>1, <1>2
  <2> QED BY <2>1 DEF Shaped
<1>5. ASSUME NEW i \in 1..Len(Tail(s)), NEW k \in 1..5, i + k \in 1..Len(Tail(s))
      PROVE  Leads(Tail(s)[i], k, Tail(s)[i + k])
  <2>1. (i + 1) + k \in 1..Len(s) /\ (i + 1) + k = (i + k) + 1
    BY <1>4, <1>5
  <2>2. Leads(s[i + 1], k, s[(i + 1) + k])
    BY <1>4, <2>1 DEF Shaped
  <2> QED BY <1>4, <1>5, <2>1, <2>2
<1>6. ASSUME NEW i \in 1..Len(Tail(s)), Tail(s)[i].do = "begin"
      PROVE  Comes(Tail(s), i + 4, "song")
  <2>1. Comes(s, (i + 1) + 4, "song")
    BY <1>4, <1>6 DEF Shaped
  <2>2. i + 4 \in Nat /\ (i + 1) + 4 = (i + 4) + 1
    OBVIOUS
  <2> QED BY <1>3, <2>1, <2>2
<1>7. Shaped(Tail(s))
  BY <1>4, <1>5, <1>6 DEF Shaped
<1>8. Tail(s) # <<>> => Tail(s)[1].do # "scan"
  <2>1. Tail(s) # <<>> => 1 \in 1..Len(Tail(s))
    BY <1>1, <1>2, EmptySeq
  <2> QED BY <1>4, <2>1
<1> QED BY <1>3, <1>7, <1>8

\* The first call turned into a later part of itself.
LEMMA BecomePlaces ==
  ASSUME NEW s \in Seq(Call), s # <<>>, Shaped(s),
         NEW w \in {"scan", "head", "tail", "entity"},
         w = "scan" => s[1].do = "get",
         w # "scan" => s[1].do \in {"entity", "head", "tail"}
  PROVE  LET t == <<[Head(s) EXCEPT !.do = w]>> \o Tail(s)
         IN  /\ Shaped(t) /\ t[1].do = w
             /\ \A k \in Nat, what \in {"store", "song"} :
                  Comes(t, k, what) <=> Comes(s, k, what)
<1> DEFINE c == [Head(s) EXCEPT !.do = w]
           t == <<c>> \o Tail(s)
<1>1. Len(s) \in Nat \ {0} /\ Head(s) = s[1] /\ s[1] \in Call
  BY EmptySeq
<1>2. /\ Tail(s) \in Seq(Call) /\ Len(Tail(s)) = Len(s) - 1
      /\ \A i \in 1..Len(s) - 1 : Tail(s)[i] = s[i + 1]
  OBVIOUS
<1>3. c.do = w /\ c.cmd = s[1].cmd /\ c \in Call
  <2>1. w \in What
    BY DEF What
  <2> QED BY <1>1, <2>1 DEF Call
<1> HIDE DEF c
<1>4. /\ Len(t) = Len(s) /\ t[1] = c
      /\ \A i \in 2..Len(s) : t[i] = s[i]
  <2>1. <<c>> \in Seq(Call) /\ Len(<<c>>) = 1 /\ <<c>>[1] = c
    BY <1>3
  <2>2. /\ Len(t) = 1 + (Len(s) - 1) /\ t[1] = c
        /\ \A i \in 1..Len(s) - 1 : t[1 + i] = Tail(s)[i]
    <3>1. /\ Len(t) = Len(<<c>>) + Len(Tail(s))
          /\ \A i \in 1..Len(<<c>>) : t[i] = <<c>>[i]
          /\ \A i \in 1..Len(Tail(s)) : t[Len(<<c>>) + i] = Tail(s)[i]
      BY <1>2, <2>1, ConcatProperties
    <3> HIDE DEF t
    <3> QED BY <1>2, <2>1, <3>1
  <2> HIDE DEF t
  <2>3. ASSUME NEW i \in 2..Len(s) PROVE t[i] = s[i]
    <3>1. i - 1 \in 1..Len(s) - 1 /\ 1 + (i - 1) = i /\ (i - 1) + 1 = i
      BY <1>1
    <3> QED BY <1>2, <2>2, <3>1
  <2> QED BY <1>1, <2>2, <2>3
<1> HIDE DEF t
<1>5. \A i \in 1..Len(s) : i = 1 \/ (i \in 2..Len(s) /\ t[i] = s[i])
  BY <1>1, <1>4
<1>6. ASSUME NEW k \in Nat, NEW what \in {"store", "song"}
      PROVE  Comes(t, k, what) <=> Comes(s, k, what)
  <2>1. CASE k = 0
    BY <1>1, <1>3, <1>4, <2>1 DEF Comes
  <2>2. CASE k # 0 /\ k + 1 \in 1..Len(s)
    <3>1. k + 1 # 1
      BY <2>2
    <3> QED BY <1>4, <1>5, <2>2, <3>1 DEF Comes
  <2>3. CASE k + 1 \notin 1..Len(s)
    BY <1>4, <2>3 DEF Comes
  <2> QED BY <2>1, <2>2, <2>3
<1>7. ASSUME NEW i \in 1..Len(s), NEW k \in 1..5, i + k \in 1..Len(s)
      PROVE  Leads(t[i], k, t[i + k])
  <2>1. Leads(s[i], k, s[i + k])
    BY <1>7 DEF Shaped
  <2>2. t[i + k] = s[i + k]
    <3>1. i + k # 1
      OBVIOUS
    <3> QED BY <1>5, <1>7, <3>1
  <2>3. CASE i = 1
    BY <1>3, <1>4, <2>1, <2>2, <2>3, CallTypes
       DEF Leads, BeforeStore, BeforeSong, AsksStatus, Send
  <2>4. CASE i # 1
    BY <1>5, <2>1, <2>2, <2>4
  <2> QED BY <2>3, <2>4
<1>8. ASSUME NEW i \in 1..Len(s)
      PROVE  /\ t[i].do = "begin" => Comes(t, i + 4, "song")
             /\ i > 1 => t[i].do # "scan"
  <2>1. CASE i = 1
    BY <1>3, <1>4, <2>1
  <2>2. CASE i # 1
    <3>1. t[i] = s[i] /\ i + 4 \in Nat
      BY <1>5, <2>2
    <3> QED BY <1>6, <3>1 DEF Shaped
  <2> QED BY <2>1, <2>2
<1>9. Shaped(t)
  BY <1>4, <1>7, <1>8 DEF Shaped
<1> QED BY <1>3, <1>4, <1>6, <1>9 DEF t, c

-----------------------------------------------------------------------------
(* The answer to a status.                                                 *)

\* Its command is on its way, or MPD has it, and nothing of the answer is sent:
\* m tells whether it is the first of a list.
Ahead(m) ==
  /\ answers = <<>> /\ emitted = 0
  /\ \/ m = "single" /\ mode = "ready" /\ requests # <<>> /\ requests[1] = "status"
     \/ /\ m = "listing" /\ mode = "ready"
        /\ Len(requests) >= 2 /\ requests[1] = ListBegin /\ requests[2] = "status"
     \/ /\ m = "listing" /\ mode = "collecting" /\ list = <<>>
        /\ requests # <<>> /\ requests[1] = "status"
     \/ m = "listing" /\ mode = "collecting" /\ list # <<>> /\ list[1] = "status"
     \/ mode = m /\ list # <<>> /\ list[1] = "status"

\* MPD has sent the data line, and not yet the line behind it.
HalfSent(m) == mode = m /\ list # <<>> /\ list[1] = "status" /\ emitted = 1

LastKind(m) == IF m = "single" THEN "OK" ELSE "list_OK"

\* What the update of the status stores must have been true since it asked.
Valid(m, st) == st \in Status /\ (m = "single" => st \in asked)
StatusElement(m, e) == e \in Element /\ e.kind = "status" /\ Valid(m, e.val)

\* The whole answer is still to be read: one data line, and OK or list_OK.
Coming(m) ==
  \/ Ahead(m)
  \/ /\ answers # <<>> /\ answers[1].kind = "data" /\ StatusElement(m, answers[1].elem)
     /\ \/ Len(answers) = 1 /\ HalfSent(m)
        \/ Len(answers) >= 2 /\ answers[2].kind = LastKind(m)

\* The data line is read.
Ending(m) ==
  \/ answers = <<>> /\ HalfSent(m)
  \/ answers # <<>> /\ answers[1].kind = LastKind(m)

\* The bracket of a list is sent and nothing else.
Opened ==
  /\ answers = <<>>
  /\ \/ mode = "ready" /\ requests = <<ListBegin>>
     \/ mode = "collecting" /\ list = <<>> /\ requests = <<>>

\* The state of MPD is one of those it was in since it was asked.
AskedInv == asked # {} => mpd \in asked

\* MPD's part in it: first the data, then the end.
LEMMA AnswersStatus ==
  ASSUME mpd \in MpdStatus, MpdStep, NEW m \in {"single", "listing"},
         mode = m, list # <<>>, list[1] = "status"
  PROVE  \/ /\ emitted < 1 /\ emitted' = emitted + 1 /\ UNCHANGED <<mode, list, mpd, asked>>
            /\ \E l : /\ answers' = Append(answers, l) /\ l.kind = "data"
                      /\ l.elem = [kind |-> "status", val |-> mpd]
         \/ /\ emitted = 1
            /\ \E l : answers' = Append(answers, l) /\ l.kind = LastKind(m)
<1>1. Head(list) = "status"
  OBVIOUS
<1>2. CASE MpdAccept
  BY <1>2 DEF MpdAccept, Accept
<1>3. CASE MpdData
  <2>1. emitted < 1 /\ emitted' = emitted + 1 /\ UNCHANGED <<mode, list, mpd, asked>>
    BY <1>1, <1>3 DEF MpdData, EmitData
  <2>2. EmitData([kind |-> "status", val |-> mpd])
    BY <1>1, <1>3 DEF MpdData
  <2>3. answers' = Append(answers, [kind |-> "data", of |-> Head(list),
                                    elem |-> [kind |-> "status", val |-> mpd]])
    BY <2>2 DEF EmitData, Emit
  <2> QED BY <2>1, <2>3
<1>4. CASE MpdListOK
  <2>1. emitted = 1 /\ mode = "listing"
    BY <1>1, <1>4 DEF MpdListOK, Complete, EmitListOK
  <2>2. answers' = Append(answers, [kind |-> "list_OK", of |-> Head(list), elem |-> NoElement])
    BY <1>4 DEF MpdListOK, EmitListOK, Emit
  <2> QED BY <2>1, <2>2 DEF LastKind
<1>5. CASE MpdOK
  <2>1. mode # "listing"
    BY <1>5 DEF MpdOK, EmitOK
  <2>2. emitted = 1
    BY <1>1, <1>5 DEF MpdOK, Complete
  <2>3. answers' = Append(answers, [kind |-> "OK", of |-> Head(list), elem |-> NoElement])
    BY <1>5, <2>1 DEF MpdOK, EmitOK, Emit
  <2> QED BY <2>1, <2>2, <2>3 DEF LastKind
<1>6. CASE MpdACK
  BY <1>1, <1>6 DEF MpdACK
<1> QED BY <1>2, <1>3, <1>4, <1>5, <1>6 DEF MpdStep

\* MPD sends its lines behind those that it has already sent.
LEMMA AnswersGrow ==
  ASSUME MpdStep, answers \in Seq(Line)
  PROVE  \/ answers' = answers
         \/ \E l : answers' = Append(answers, l)
BY DEF MpdStep, MpdAccept, MpdData, MpdListOK, MpdOK, MpdACK, Accept, EmitData, EmitListOK,
       EmitOK, EmitACK, Emit

\* The states that MPD was in since it was asked stay so.
LEMMA AskedGrows ==
  ASSUME AskedInv, MpdStep \/ MpdClose \/ OtherClient
  PROVE  /\ AskedInv' /\ (asked # {} => asked' # {})
         /\ \A m, st : Valid(m, st) => Valid(m, st)'
         /\ \A m, e : StatusElement(m, e) => StatusElement(m, e)'
<1>1. UNCHANGED <<mpd, asked>> \/ \E new : SetMpd(new)
  BY DEF MpdStep, MpdAccept, MpdData, MpdListOK, MpdOK, MpdACK, MpdClose, OtherClient
<1>2. AskedInv' /\ asked \subseteq asked' /\ (asked # {} => asked' # {})
  BY <1>1 DEF AskedInv, SetMpd
<1> QED BY <1>2 DEF Valid, StatusElement

\* Append and its two first places.
LEMMA AppendKeepsFirst ==
  ASSUME NEW S, NEW s \in Seq(S), NEW x
  PROVE  /\ s # <<>> => Append(s, x) # <<>> /\ Append(s, x)[1] = s[1]
         /\ Len(s) >= 2 => Append(s, x)[2] = s[2]
         /\ Len(Append(s, x)) = Len(s) + 1
         /\ Append(s, x)[Len(s) + 1] = x
<1>1. Len(s) \in Nat /\ (s # <<>> => Len(s) > 0)
  BY EmptySeq
<1> QED BY <1>1

\* While MPD works the whole answer stays to be read.
LEMMA ServingKeepsComing ==
  ASSUME TypeOK, mpd \in MpdStatus, AskedInv, MpdStep,
         NEW m \in {"single", "listing"}, m = "single" => asked # {}, Coming(m)
  PROVE  Coming(m)'
<1>1. /\ answers \in Seq(Line) /\ requests \in Seq(Request) /\ list \in Seq(Request)
  BY DEF TypeOK
<1>2. "status" \in Command /\ "status" # ListBegin /\ "status" # ListEnd /\ ListBegin # ListEnd
      /\ ListBegin \notin Command
  BY PlayerAssumption, BracketsAssumption DEF PlayerCommand
<1>3. \A e : StatusElement(m, e) => StatusElement(m, e)'
  BY AskedGrows
<1>4. CASE Ahead(m) /\ mode = m /\ list # <<>> /\ list[1] = "status"
  <2>1. PICK l : /\ answers' = Append(answers, l) /\ l.kind = "data"
                 /\ l.elem = [kind |-> "status", val |-> mpd]
                 /\ emitted' = emitted + 1 /\ UNCHANGED <<mode, list>>
    BY <1>4, AnswersStatus DEF Ahead
  <2>2. answers' # <<>> /\ Len(answers') = 1 /\ answers'[1] = l
    BY <1>4, <2>1 DEF Ahead
  <2>3. StatusElement(m, l.elem)
    <3>1. l.elem \in Element
      BY <2>1, PlayerAssumption DEF PlayerElement, MpdStatus
    <3>2. Valid(m, mpd)
      BY DEF Valid, AskedInv, MpdStatus
    <3> QED BY <2>1, <3>1, <3>2 DEF StatusElement
  <2>4. HalfSent(m)'
    BY <1>4, <2>1 DEF HalfSent, Ahead
  <2> QED BY <1>3, <2>1, <2>2, <2>3, <2>4 DEF Coming
<1>5. CASE Ahead(m) /\ ~(mode = m /\ list # <<>> /\ list[1] = "status")
  <2>1. mode \in {"ready", "collecting"} /\ answers = <<>>
    BY <1>5 DEF Ahead
  <2>2. MpdAccept
    BY <2>1 DEF MpdStep, MpdData, MpdListOK, MpdOK, MpdACK, EmitListOK, EmitOK, EmitACK,
                Answering
  <2>3. /\ requests # <<>> /\ requests' = Tail(requests) /\ emitted' = 0
        /\ Head(requests) = requests[1]
    BY <1>1, <1>5, <2>2 DEF MpdAccept, Accept, Ahead
  <2>4. CASE m = "single" /\ mode = "ready" /\ requests[1] = "status"
    <3>1. mode' = "single" /\ list' = <<"status">> /\ answers' = answers
      BY <1>2, <2>2, <2>3, <2>4 DEF MpdAccept, Accept
    <3> QED BY <2>1, <2>3, <2>4, <3>1 DEF Coming, Ahead
  <2>5. CASE /\ m = "listing" /\ mode = "ready"
             /\ Len(requests) >= 2 /\ requests[1] = ListBegin /\ requests[2] = "status"
    <3>1. mode' = "collecting" /\ list' = <<>> /\ answers' = answers
      BY <1>2, <2>2, <2>3, <2>5 DEF MpdAccept, Accept
    <3>2. requests' # <<>> /\ requests'[1] = "status"
      BY <1>1, <2>3, <2>5
    <3> QED BY <2>1, <2>3, <2>5, <3>1, <3>2 DEF Coming, Ahead
  <2>6. CASE /\ m = "listing" /\ mode = "collecting" /\ list = <<>>
             /\ requests # <<>> /\ requests[1] = "status"
    <3>1. mode' = mode /\ list' = Append(list, "status") /\ answers' = answers
      BY <1>2, <2>2, <2>3, <2>6 DEF MpdAccept, Accept
    <3>2. list' # <<>> /\ list'[1] = "status"
      BY <2>6, <3>1
    <3> QED BY <2>1, <2>3, <2>6, <3>1, <3>2 DEF Coming, Ahead
  <2>7. CASE m = "listing" /\ mode = "collecting" /\ list # <<>> /\ list[1] = "status"
    <3>1. /\ answers' = answers
          /\ \/ mode' = mode /\ \E r : list' = Append(list, r)
             \/ mode' = "listing" /\ list' = list
      BY <2>2, <2>7 DEF MpdAccept, Accept
    <3>2. \A r : Append(list, r) # <<>> /\ Append(list, r)[1] = list[1]
      BY <1>1, <2>7, AppendKeepsFirst
    <3>3. list' # <<>> /\ list'[1] = "status"
      BY <2>7, <3>1, <3>2
    <3> QED BY <2>1, <2>3, <2>7, <3>1, <3>3 DEF Coming, Ahead
  <2> QED BY <1>5, <2>4, <2>5, <2>6, <2>7 DEF Ahead
<1>6. CASE /\ answers # <<>> /\ answers[1].kind = "data" /\ StatusElement(m, answers[1].elem)
           /\ Len(answers) = 1 /\ HalfSent(m)
  <2>1. PICK l : answers' = Append(answers, l) /\ l.kind = LastKind(m)
    BY <1>6, AnswersStatus DEF HalfSent
  <2>2. /\ answers' # <<>> /\ answers'[1] = answers[1] /\ Len(answers') = 2
        /\ answers'[2] = l
    <3>1. /\ answers' # <<>> /\ answers'[1] = answers[1]
          /\ Len(answers') = Len(answers) + 1 /\ answers'[Len(answers) + 1] = l
      BY <1>1, <1>6, <2>1, AppendKeepsFirst
    <3> QED BY <1>6, <3>1
  <2>3. StatusElement(m, answers[1].elem)'
    BY <1>3, <1>6, <2>2
  <2> QED BY <1>6, <2>1, <2>2, <2>3 DEF Coming, LastKind
<1>7. CASE /\ answers # <<>> /\ answers[1].kind = "data" /\ StatusElement(m, answers[1].elem)
           /\ Len(answers) >= 2 /\ answers[2].kind = LastKind(m)
  <2>1. /\ answers' # <<>> /\ answers'[1] = answers[1] /\ Len(answers') >= 2
        /\ answers'[2] = answers[2]
    <3>1. CASE answers' = answers
      BY <1>7, <3>1
    <3>2. ASSUME NEW l, answers' = Append(answers, l)
          PROVE  /\ answers' # <<>> /\ answers'[1] = answers[1] /\ Len(answers') >= 2
                 /\ answers'[2] = answers[2]
      <4>1. /\ answers' # <<>> /\ answers'[1] = answers[1] /\ answers'[2] = answers[2]
            /\ Len(answers') = Len(answers) + 1
        BY <1>1, <1>7, <3>2, AppendKeepsFirst
      <4>2. Len(answers) \in Nat
        BY <1>1
      <4> QED BY <1>7, <4>1, <4>2
    <3> QED BY <1>1, <3>1, <3>2, AnswersGrow
  <2>2. StatusElement(m, answers[1].elem)'
    BY <1>3, <1>7, <2>1
  <2> QED BY <1>7, <2>1, <2>2 DEF Coming, LastKind
<1> QED BY <1>4, <1>5, <1>6, <1>7 DEF Coming

\* So does its end.
LEMMA ServingKeepsEnding ==
  ASSUME TypeOK, mpd \in MpdStatus, MpdStep, NEW m \in {"single", "listing"}, Ending(m)
  PROVE  Ending(m)'
<1>1. answers \in Seq(Line)
  BY DEF TypeOK
<1>2. CASE answers = <<>> /\ HalfSent(m)
  <2>1. PICK l : answers' = Append(answers, l) /\ l.kind = LastKind(m)
    BY <1>2, AnswersStatus DEF HalfSent
  <2>2. answers' # <<>> /\ answers'[1] = l
    BY <1>2, <2>1
  <2> QED BY <2>1, <2>2 DEF Ending, LastKind
<1>3. CASE answers # <<>> /\ answers[1].kind = LastKind(m)
  <2>1. answers' # <<>> /\ answers'[1] = answers[1]
    BY <1>1, <1>3, AnswersGrow, AppendKeepsFirst
  <2> QED BY <1>3, <2>1 DEF Ending, LastKind
<1> QED BY <1>2, <1>3 DEF Ending

\* MPD takes the bracket.
LEMMA ServingKeepsOpened ==
  ASSUME Opened, MpdStep
  PROVE  Opened'
<1>1. MpdAccept
  BY DEF Opened, MpdStep, MpdData, MpdListOK, MpdOK, MpdACK, EmitListOK, EmitOK, EmitACK,
         Answering
<1>2. requests = <<ListBegin>> /\ mode = "ready"
  BY <1>1 DEF Opened, MpdAccept, Accept
<1>3. Head(requests) = ListBegin /\ Tail(requests) = <<>>
  BY <1>2
<1> QED BY <1>1, <1>2, <1>3, BracketsAssumption DEF Opened, MpdAccept, Accept

\* Further commands of the list, or its end, are sent.
LEMMA SendingKeepsComing ==
  ASSUME TypeOK, NEW m, NEW r, requests' = Append(requests, r),
         UNCHANGED <<answers, mode, list, emitted, asked>>, Coming(m)
  PROVE  Coming(m)'
<1>1. requests \in Seq(Request)
  BY DEF TypeOK
<1>2. /\ requests # <<>> => requests' # <<>> /\ requests'[1] = requests[1]
      /\ Len(requests) >= 2 => Len(requests') >= 2 /\ requests'[2] = requests[2]
  BY <1>1, AppendKeepsFirst
<1>3. Ahead(m) => Ahead(m)'
  BY <1>2 DEF Ahead
<1> QED BY <1>3 DEF Coming, HalfSent, LastKind, StatusElement, Valid

\* The first command of a list, or a command by itself, is sent.
LEMMA SendingAsks ==
  ASSUME requests' = Append(requests, "status"), emitted = 0,
         UNCHANGED <<answers, mode, list, emitted>>
  PROVE  /\ NothingInFlight => Coming("single")'
         /\ Opened => Coming("listing")'
<1>1. ASSUME NothingInFlight PROVE Coming("single")'
  <2>1. requests' = <<"status">>
    BY <1>1 DEF NothingInFlight
  <2> QED BY <1>1, <2>1 DEF NothingInFlight, Coming, Ahead
<1>2. ASSUME Opened PROVE Coming("listing")'
  <2>1. CASE mode = "ready" /\ requests = <<ListBegin>>
    <3>1. Len(requests') = 2 /\ requests'[1] = ListBegin /\ requests'[2] = "status"
      BY <2>1
    <3> QED BY <1>2, <2>1, <3>1 DEF Opened, Coming, Ahead
  <2>2. CASE mode = "collecting" /\ list = <<>> /\ requests = <<>>
    <3>1. requests' # <<>> /\ requests'[1] = "status"
      BY <2>2
    <3> QED BY <1>2, <2>2, <3>1 DEF Opened, Coming, Ahead
  <2> QED BY <1>2, <2>1, <2>2 DEF Opened
<1> QED BY <1>1, <1>2

-----------------------------------------------------------------------------
(* What the connection is like in the fault-free case.                     *)

Fault == {"TIMEOUT", "SENDING"}

\* Nothing is left over from an answer that is read.
IdleInv ==
  doneProcessing => /\ returnElement = NoElement /\ ~doneListOk
                    /\ ~commandList => listOks = 0

\* The only list is the update's, which MPD does not refuse.
Listable == {"status", "currentsong"}

ListedInv ==
  commandList \/ listOks > 0 =>
    /\ \A i \in 1..Len(answers) : answers[i].kind # "ACK"
    /\ \A i \in 1..Len(list) : list[i] \in Listable
    /\ \A i \in 1..Len(requests) : requests[i] \in Listable \cup {ListBegin, ListEnd}

QuietInv ==
  /\ IdleInv /\ ListedInv
  /\ mode \in {"ready", "collecting"} => emitted = 0

\* The steps that mod_mpd and the others take on the connection.
Moves ==
  \/ \E r \in Command : ExecuteCommand(r) /\ (commandList => r \in Listable)
  \/ doneProcessing /\ SendCommandListOkBegin
  \/ SendCommandListEnd
  \/ BracketRefused
  \/ GetNextReturnElement
  \/ ClearDoneListOk
  \/ UNCHANGED vars

\* Elements of a sequence that is one longer.
LEMMA AppendAll ==
  ASSUME NEW S, NEW s \in Seq(S), NEW x, NEW P, \A i \in 1..Len(s) : s[i] \in P, x \in P
  PROVE  \A i \in 1..Len(Append(s, x)) : Append(s, x)[i] \in P
<1>1. Len(s) \in Nat
  OBVIOUS
<1>2. \A i \in 1..Len(s) + 1 : i \in 1..Len(s) \/ i = Len(s) + 1
  BY <1>1
<1> QED BY <1>1, <1>2

\* Elements of one that is one shorter.
LEMMA TailAll ==
  ASSUME NEW S, NEW s \in Seq(S), s # <<>>, NEW P, \A i \in 1..Len(s) : s[i] \in P
  PROVE  /\ \A i \in 1..Len(Tail(s)) : Tail(s)[i] \in P
         /\ Head(s) \in P /\ Head(s) = s[1]
<1>1. Len(s) \in Nat \ {0}
  BY EmptySeq
<1>2. \A i \in 1..Len(s) - 1 : i + 1 \in 1..Len(s) /\ Tail(s)[i] = s[i + 1]
  BY <1>1
<1> QED BY <1>1, <1>2

\* The library's steps.
LEMMA MovesKeepQuiet ==
  ASSUME TypeOK, InStep, QuietInv, Moves, UNCHANGED emitted, ~desynced'
  PROVE  QuietInv'
<1>1. /\ answers \in Seq(Line) /\ requests \in Seq(Request) /\ listOks \in Nat
      /\ commandList \in BOOLEAN /\ doneProcessing \in BOOLEAN /\ error \in Error
  BY DEF TypeOK
<1>2. IdleInv /\ ListedInv /\ (mode \in {"ready", "collecting"} => emitted = 0)
  BY DEF QuietInv
<1> DEFINE Rs == Listable \cup {ListBegin, ListEnd}
<1>3. CASE UNCHANGED vars
  BY <1>2, <1>3 DEF QuietInv, IdleInv, ListedInv, vars, conn, server
<1>4. ASSUME NEW r \in Command, ExecuteCommand(r), commandList => r \in Listable
      PROVE  QuietInv'
  <2>1. CASE ExecuteRejected
    BY <1>2, <2>1 DEF QuietInv, IdleInv, ListedInv, ExecuteRejected, server
  <2>2. CASE ExecutePlain(r)
    <3>1. /\ ~commandList /\ doneProcessing /\ listOks = 0
          /\ UNCHANGED <<commandList, listOks, doneListOk, returnElement, server>>
          /\ doneProcessing' => doneProcessing
      BY <1>2, <2>2 DEF ExecutePlain, Busy, IdleInv
    <3>2. IdleInv'
      BY <1>2, <3>1 DEF IdleInv
    <3>3. ListedInv'
      BY <3>1 DEF ListedInv
    <3> QED BY <1>2, <3>1, <3>2, <3>3 DEF QuietInv, server
  <2>3. CASE ExecuteListed(r)
    <3>1. /\ commandList /\ r \in Listable
          /\ UNCHANGED <<doneProcessing, commandList, doneListOk, returnElement, server>>
          /\ answers' = answers
          /\ requests' = Append(requests, r) \/ requests' = requests
      BY <1>4, <2>3 DEF ExecuteListed, Transmit, FailToSend
    <3>2. IdleInv'
      BY <1>2, <3>1 DEF IdleInv
    <3>3. \A i \in 1..Len(requests') : requests'[i] \in Rs
      BY <1>1, <1>2, <3>1, AppendAll DEF ListedInv
    <3>4. ListedInv'
      BY <1>2, <3>1, <3>3 DEF ListedInv, server
    <3> QED BY <1>2, <3>1, <3>2, <3>4 DEF QuietInv, server
  <2> QED BY <1>4, <2>1, <2>2, <2>3 DEF ExecuteCommand
<1>5. CASE doneProcessing /\ SendCommandListOkBegin
  <2>1. /\ ~commandList /\ commandList' /\ UNCHANGED <<doneProcessing, doneListOk, returnElement>>
        /\ UNCHANGED server /\ answers' = answers
        /\ requests' = Append(requests, ListBegin) \/ requests' = requests
    BY <1>5 DEF SendCommandListOkBegin, Transmit, FailToSend
  <2>2. NothingInFlight
    BY <1>5, <2>1 DEF InStep
  <2>3. IdleInv'
    BY <1>2, <2>1 DEF IdleInv
  <2>4. \A i \in 1..Len(requests') : requests'[i] \in Rs
    <3>1. \A i \in 1..Len(requests) : requests[i] \in Rs
      BY <2>2 DEF NothingInFlight
    <3> QED BY <1>1, <2>1, <3>1, AppendAll
  <2>5. ListedInv'
    BY <2>1, <2>2, <2>4 DEF ListedInv, NothingInFlight, server
  <2> QED BY <1>2, <2>1, <2>3, <2>5 DEF QuietInv, server
<1>6. CASE SendCommandListEnd
  <2>1. /\ commandList /\ doneProcessing /\ UNCHANGED <<listOks, doneListOk, returnElement>>
        /\ UNCHANGED server
    BY <1>6 DEF SendCommandListEnd, InStep
  <2>2. /\ ~doneProcessing' /\ answers' = answers
        /\ requests' = Append(requests, ListEnd) \/ requests' = requests
    BY <1>6, <2>1 DEF SendCommandListEnd, Transmit, FailToSend
  <2>3. \A i \in 1..Len(requests') : requests'[i] \in Rs
    BY <1>1, <1>2, <2>1, <2>2, AppendAll DEF ListedInv
  <2>4. ListedInv'
    BY <1>2, <2>1, <2>2, <2>3 DEF ListedInv, server
  <2> QED BY <1>2, <2>1, <2>2, <2>4 DEF QuietInv, IdleInv, server
<1>7. CASE BracketRefused
  BY <1>2, <1>7 DEF QuietInv, IdleInv, ListedInv, BracketRefused, server
<1>8. CASE ClearDoneListOk
  BY <1>2, <1>8 DEF QuietInv, IdleInv, ListedInv, ClearDoneListOk, server
<1>9. CASE ReadAlreadyDone
  BY <1>2, <1>9 DEF QuietInv, IdleInv, ListedInv, ReadAlreadyDone, server
<1>10. CASE ReadTimeout
  BY <1>10 DEF ReadTimeout
<1>11. CASE ReadClosed
  BY <1>11 DEF ReadClosed, InStep
<1>12. CASE ReadData \/ ReadOK \/ ReadListOK \/ ReadACK
  <2>1. /\ ~doneProcessing /\ ~commandList /\ answers # <<>> /\ answers' = Tail(answers)
        /\ UNCHANGED <<commandList, requests, server>>
    BY <1>12 DEF ReadData, ReadOK, ReadListOK, ReadACK, Receive, AlreadyDone, InStep
  <2>2. listOks' > 0 => listOks > 0
    BY <1>1, <1>12 DEF ReadData, ReadOK, ReadListOK, ReadACK
  <2>3. ASSUME listOks > 0
        PROVE  /\ Head(answers).kind # "ACK"
               /\ \A i \in 1..Len(answers') : answers'[i].kind # "ACK"
    <3> DEFINE P == {l \in Line : l.kind # "ACK"}
    <3>1. \A i \in 1..Len(answers) : answers[i] \in P
      BY <1>1, <1>2, <2>3 DEF ListedInv
    <3>2. (\A i \in 1..Len(answers') : answers'[i] \in P) /\ Head(answers) \in P
      BY <1>1, <2>1, <3>1, TailAll
    <3> QED BY <3>2
  <2>4. ListedInv'
    BY <1>2, <2>1, <2>2, <2>3 DEF ListedInv, server
  <2>5. IdleInv'
    <3>1. CASE ReadData \/ ReadListOK
      BY <2>1, <3>1 DEF ReadData, ReadListOK, IdleInv
    <3>2. CASE ReadOK
      BY <3>2 DEF ReadOK, IdleInv
    <3>3. CASE ReadACK
      <4>1. listOks = 0
        BY <1>1, <2>3, <3>3 DEF ReadACK, Receive
      <4> QED BY <3>3, <4>1 DEF ReadACK, IdleInv
    <3> QED BY <1>12, <3>1, <3>2, <3>3
  <2> QED BY <1>2, <2>1, <2>4, <2>5 DEF QuietInv, server
<1> QED BY <1>3, <1>4, <1>5, <1>6, <1>7, <1>8, <1>9, <1>10, <1>11, <1>12
        DEF Moves, GetNextReturnElement

\* What MPD takes next, when it is in step.
LEMMA FirstRequest ==
  ASSUME TypeOK, InStep, requests # <<>>
  PROVE  /\ mode = "ready" => Head(requests) # ListEnd
         /\ mode = "collecting" => Head(requests) \in Command \cup {ListEnd}
<1>1. requests \in Seq(Request) /\ Len(requests) \in Nat \ {0} /\ Head(requests) = requests[1]
  BY EmptySeq DEF TypeOK
<1>2. ListOpen \/ RequestUnderWay
  BY DEF InStep, NothingInFlight, BeingAnswered, FullyAnswered, TypeOK
<1>3. CASE ListOpen
  BY <1>1, <1>3, BracketsAssumption DEF ListOpen
<1>4. CASE RequestUnderWay
  <2>1. CASE mode = "ready"
    BY <1>1, <1>4, <2>1, BracketsAssumption DEF RequestUnderWay
  <2>2. CASE mode = "collecting"
    <3>1. /\ requests[Len(requests)] = ListEnd
          /\ \A i \in 1..Len(requests) - 1 : requests[i] \in Command
      BY <1>4, <2>2 DEF RequestUnderWay
    <3>2. Len(requests) = 1 \/ 1 \in 1..Len(requests) - 1
      <4>1. PICK n \in Nat \ {0} : n = Len(requests)
        BY <1>1
      <4>2. n = 1 \/ 1 \in 1..n - 1
        OBVIOUS
      <4> QED BY <4>1, <4>2
    <3> QED BY <1>1, <2>2, <3>1, <3>2
  <2> QED BY <2>1, <2>2
<1> QED BY <1>2, <1>3, <1>4

\* MPD's steps.
LEMMA ServingKeepsQuiet ==
  ASSUME TypeOK, InStep, QuietInv, MpdStep
  PROVE  QuietInv'
<1>1. /\ answers \in Seq(Line) /\ requests \in Seq(Request) /\ list \in Seq(Request)
      /\ listOks \in Nat
  BY DEF TypeOK
<1>2. IdleInv /\ ListedInv /\ (mode \in {"ready", "collecting"} => emitted = 0)
  BY DEF QuietInv
<1>3. UNCHANGED conn
  BY DEF MpdStep, MpdAccept, MpdData, MpdListOK, MpdOK, MpdACK, Accept, EmitData, EmitListOK,
         EmitOK, EmitACK, Emit
<1>4. IdleInv'
  BY <1>2, <1>3 DEF IdleInv, conn
<1>5. (mode \in {"ready", "collecting"} => emitted = 0)'
  <2>1. CASE MpdAccept
    BY <1>2, <2>1 DEF MpdAccept, Accept
  <2>2. CASE MpdData
    BY <2>2 DEF MpdData, EmitData, Answering
  <2>3. CASE MpdListOK \/ MpdOK \/ MpdACK
    BY <2>3 DEF MpdListOK, MpdOK, MpdACK
  <2> QED BY <2>1, <2>2, <2>3 DEF MpdStep
<1> DEFINE Rs == Listable \cup {ListBegin, ListEnd}
           As == {l \in Line : l.kind # "ACK"}
           Lines(s) == \A i \in 1..Len(s) : s[i].kind # "ACK"
           Listed(s) == \A i \in 1..Len(s) : s[i] \in Listable
           Asked(s) == \A i \in 1..Len(s) : s[i] \in Rs
<1>6. SUFFICES ASSUME commandList \/ listOks > 0
               PROVE  Lines(answers)' /\ Listed(list)' /\ Asked(requests)'
  BY <1>3, <1>4, <1>5 DEF QuietInv, ListedInv, conn
<1>7. Lines(answers) /\ Listed(list) /\ Asked(requests)
  BY <1>2, <1>6 DEF ListedInv
<1>8. ASSUME NEW l, answers' = Append(answers, l), l.kind # "ACK"
      PROVE  Lines(answers)'
  BY <1>1, <1>7, <1>8
<1>9. list # <<>> => Head(list) \in Listable /\ Listed(Tail(list))
  BY <1>1, <1>7, TailAll
<1>10. Listed(<<>>)
  OBVIOUS
<1> HIDE DEF Lines, Listed, Asked
<1>11. CASE MpdAccept
  <2>1. requests # <<>> /\ requests' = Tail(requests) /\ Accept
    BY <1>11 DEF MpdAccept, Accept
  <2>2. Asked(requests)' /\ Head(requests) \in Rs
    BY <1>1, <1>7, <2>1, TailAll DEF Asked
  <2>3. /\ mode = "ready" => Head(requests) # ListEnd
        /\ mode = "collecting" => Head(requests) \in Command \cup {ListEnd}
    BY <2>1, FirstRequest
  <2>4. answers' = answers
    BY <2>1, <2>3 DEF Accept
  <2>5. Listed(list)'
    <3>1. CASE mode = "ready" /\ Head(requests) \in Command
      <4>1. Head(requests) \in Listable /\ list' = <<Head(requests)>>
        BY <2>1, <2>2, <3>1, BracketsAssumption DEF Accept
      <4> QED BY <4>1 DEF Listed
    <3>2. CASE list' = <<>>
      BY <1>10, <3>2
    <3>3. CASE list' = list
      BY <1>7, <3>3
    <3>4. CASE mode = "collecting" /\ Head(requests) # ListEnd
      <4>1. list' = Append(list, Head(requests)) /\ Head(requests) \in Listable
        BY <2>1, <2>2, <2>3, <3>4, BracketsAssumption DEF Accept
      <4> QED BY <1>1, <1>7, <4>1, AppendAll DEF Listed
    <3> QED BY <2>1, <3>1, <3>2, <3>3, <3>4 DEF Accept
  <2> QED BY <1>7, <2>2, <2>4, <2>5
<1>12. CASE MpdData
  <2>1. \E e : EmitData(e)
    BY <1>12 DEF MpdData
  <2>2. UNCHANGED <<list, requests>> /\ \E e : answers' = Append(answers, e) /\ e.kind # "ACK"
    BY <2>1 DEF EmitData, Emit
  <2> QED BY <1>7, <1>8, <2>2
<1>13. CASE MpdListOK
  <2>1. list # <<>> /\ list' = Tail(list) /\ UNCHANGED requests
        /\ \E e : answers' = Append(answers, e) /\ e.kind # "ACK"
    BY <1>13 DEF MpdListOK, EmitListOK, Emit
  <2> QED BY <1>7, <1>8, <1>9, <2>1
<1>14. CASE MpdOK
  <2>1. list' = <<>> /\ UNCHANGED requests
        /\ \E e : answers' = Append(answers, e) /\ e.kind # "ACK"
    BY <1>14 DEF MpdOK, EmitOK, Emit
  <2> QED BY <1>7, <1>8, <1>10, <2>1
<1>15. CASE MpdACK
  <2>1. list # <<>> /\ Head(list) \notin Listable
    BY <1>15 DEF MpdACK, EmitACK, Listable
  <2> QED BY <1>9, <2>1
<1> QED BY <1>11, <1>12, <1>13, <1>14, <1>15 DEF MpdStep

-----------------------------------------------------------------------------
(* Asking for the status, call by call.                                    *)

\* The answer is due, and is the one that listOks counts on.
Due(m) ==
  /\ ~commandList /\ ~doneProcessing /\ ~doneListOk /\ error = "none"
  /\ IF m = "single" THEN listOks = 0 /\ asked # {} ELSE listOks > 0

\* Before mpd_getStatus, and in its loop.
AtGet(m) == Due(m) /\ returnElement = NoElement /\ Coming(m)
AtScan(m) ==
  \/ Due(m) /\ StatusElement(m, returnElement) /\ Ending(m)
  \/ /\ error = "none" /\ returnElement = NoElement /\ Valid(m, status)
     /\ m = "single" => doneProcessing
Asking(m) == (todo[1].do = "get" => AtGet(m)) /\ (todo[1].do = "scan" => AtScan(m))

\* mod_mpd_update_status has its answer, or could not ask.
Stored == error \in Fault \/ (error = "none" /\ Valid("single", status))

StoreInv ==
  /\ Comes(todo, 0, "store") => Stored
  /\ Comes(todo, 1, "store") => Stored /\ doneProcessing
  /\ Comes(todo, 2, "store") => (error \in Fault /\ doneProcessing) \/ Asking("single")
  /\ Comes(todo, 3, "store") => doneProcessing /\ ~commandList

\* The list of mod_mpd_update_songinfo.
Listing == commandList /\ doneProcessing /\ error = "none"

SongInv ==
  /\ Comes(todo, 0, "song") => status \in Status
  /\ Comes(todo, 1, "song") => Asking("listing")
  /\ Comes(todo, 2, "song") => Listing /\ listOks > 0 /\ Coming("listing")
  /\ Comes(todo, 3, "song") => Listing /\ listOks > 0 /\ Coming("listing")
  /\ Comes(todo, 4, "song") => Listing /\ Opened
  /\ commandList => Comes(todo, 2, "song") \/ Comes(todo, 3, "song") \/ Comes(todo, 4, "song")

PositionInv == StoreInv /\ SongInv

\* Reading the data line.
LEMMA ReadingData ==
  ASSUME TypeOK, InStep, NEW m \in {"single", "listing"}, AtGet(m), GetNextReturnElement,
         UNCHANGED <<emitted, asked>>, ~desynced'
  PROVE  AtScan(m)'
<1>1. answers \in Seq(Line) /\ listOks \in Nat
  BY DEF TypeOK
<1>2. ~AlreadyDone /\ serverUp
  BY DEF AtGet, Due, AlreadyDone, InStep
<1>3. Head(answers) = answers[1] /\ (answers # <<>> => answers[1].kind = "data")
  BY DEF AtGet, Coming, Ahead
<1>4. ReadData
  BY <1>2, <1>3 DEF GetNextReturnElement, ReadAlreadyDone, ReadOK, ReadListOK, ReadACK,
                    ReadTimeout, ReadClosed, Receive
<1>5. /\ answers # <<>> /\ answers' = Tail(answers) /\ returnElement' = answers[1].elem
      /\ UNCHANGED <<doneProcessing, commandList, listOks, doneListOk, error, server>>
  BY <1>3, <1>4 DEF ReadData, Receive
<1>6. /\ StatusElement(m, answers[1].elem)
      /\ \/ Len(answers) = 1 /\ HalfSent(m)
         \/ Len(answers) >= 2 /\ answers[2].kind = LastKind(m)
  BY <1>5 DEF AtGet, Coming, Ahead
<1>7. Ending(m)'
  <2>1. CASE Len(answers) = 1 /\ HalfSent(m)
    <3>1. answers' = <<>>
      BY <1>1, <1>5, <2>1, EmptySeq
    <3> QED BY <1>5, <2>1, <3>1 DEF Ending, HalfSent, server
  <2>2. CASE Len(answers) >= 2 /\ answers[2].kind = LastKind(m)
    <3>1. /\ answers' \in Seq(Line) /\ Len(answers') = Len(answers) - 1
          /\ \A i \in 1..Len(answers) - 1 : answers'[i] = answers[i + 1]
      BY <1>1, <1>5
    <3>2. 1 \in 1..Len(answers) - 1 /\ Len(answers) - 1 # 0
      BY <1>1, <2>2
    <3>3. answers' # <<>> /\ answers'[1] = answers[2]
      BY <3>1, <3>2, EmptySeq
    <3> QED BY <2>2, <3>3 DEF Ending, LastKind
  <2> QED BY <1>6, <2>1, <2>2
<1>8. StatusElement(m, returnElement)'
  BY <1>5, <1>6 DEF StatusElement, Valid
<1>9. Due(m)'
  BY <1>5 DEF AtGet, Due
<1> QED BY <1>7, <1>8, <1>9 DEF AtScan

\* Reading the line behind it.
LEMMA ReadingLast ==
  ASSUME TypeOK, InStep, NEW m \in {"single", "listing"}, Due(m), Ending(m),
         GetNextReturnElement, ~desynced'
  PROVE  /\ error' = "none" /\ returnElement' = NoElement
         /\ m = "single" => doneProcessing'
<1>1. answers \in Seq(Line) /\ listOks \in Nat
  BY DEF TypeOK
<1>2. ~AlreadyDone /\ serverUp /\ error = "none"
  BY DEF Due, AlreadyDone, InStep
<1>3. Head(answers) = answers[1] /\ (answers # <<>> => answers[1].kind = LastKind(m))
  BY DEF Ending
<1>4. ReadOK \/ ReadListOK
  BY <1>2, <1>3 DEF GetNextReturnElement, ReadAlreadyDone, ReadData, ReadACK,
                    ReadTimeout, ReadClosed, Receive, LastKind
<1>5. CASE ReadOK
  <2>1. m = "single"
    BY <1>3, <1>5 DEF ReadOK, Receive, LastKind
  <2>2. listOks = 0
    BY <2>1 DEF Due
  <2> QED BY <1>2, <1>5, <2>2 DEF ReadOK
<1>6. CASE ReadListOK
  <2>1. m # "single"
    BY <1>3, <1>6 DEF ReadListOK, Receive, LastKind
  <2>2. listOks # 0
    BY <1>1, <2>1 DEF Due
  <2> QED BY <1>2, <1>6, <2>1, <2>2 DEF ReadListOK
<1> QED BY <1>4, <1>5, <1>6

\* Where no status is under way there is nothing to keep.
LEMMA FarKeeps ==
  ASSUME Far(todo)', ~commandList'
  PROVE  PositionInv'
<1>1. /\ ~Comes(todo, 0, "store")' /\ ~Comes(todo, 1, "store")' /\ ~Comes(todo, 2, "store")'
      /\ ~Comes(todo, 3, "store")'
      /\ ~Comes(todo, 0, "song")' /\ ~Comes(todo, 1, "song")' /\ ~Comes(todo, 2, "song")'
      /\ ~Comes(todo, 3, "song")' /\ ~Comes(todo, 4, "song")'
  BY DEF Far
<1> QED BY <1>1 DEF PositionInv, StoreInv, SongInv

\* The first call, by what comes behind it, place by place.
LEMMA NearPlaces ==
  ASSUME NEW s \in Seq(Call), s # <<>>, Shaped(s)
  PROVE  /\ Comes(s, 1, "store") => s[1].do = "finish"
         /\ Comes(s, 2, "store") => AsksStatus(s[1])
         /\ Comes(s, 3, "store") => s[1].do = "send" /\ s[1].cmd = "status"
         /\ Comes(s, 4, "store") => s[1].do = "finish"
         /\ Comes(s, 1, "song") => AsksStatus(s[1])
         /\ Comes(s, 2, "song") => s[1].do = "end"
         /\ Comes(s, 3, "song") => s[1].do = "send" /\ s[1].cmd = "currentsong"
         /\ Comes(s, 4, "song") => s[1].do = "send" /\ s[1].cmd = "status"
         /\ Comes(s, 5, "song") => s[1].do = "begin"
<1>1. \A k \in 1..4 : Comes(s, k, "store") => BeforeStore(k, s[1])
  BY HeadPlaces
<1>2. \A k \in 1..5 : Comes(s, k, "song") => BeforeSong(k, s[1])
  BY HeadPlaces
<1>3. \A r : Send(r).do = "send" /\ Send(r).cmd = r
  BY DEF Send
<1>4. /\ BeforeStore(1, s[1]) => s[1].do = "finish"
      /\ BeforeStore(2, s[1]) => AsksStatus(s[1])
      /\ BeforeStore(3, s[1]) => s[1] = Send("status")
      /\ BeforeStore(4, s[1]) => s[1].do = "finish"
  BY DEF BeforeStore
<1>5. /\ BeforeSong(1, s[1]) => AsksStatus(s[1])
      /\ BeforeSong(2, s[1]) => s[1].do = "end"
      /\ BeforeSong(3, s[1]) => s[1] = Send("currentsong")
      /\ BeforeSong(4, s[1]) => s[1] = Send("status")
      /\ BeforeSong(5, s[1]) => s[1].do = "begin"
  BY DEF BeforeSong
<1>6. 1 \in 1..4 /\ 2 \in 1..4 /\ 3 \in 1..4 /\ 4 \in 1..4
      /\ 1 \in 1..5 /\ 2 \in 1..5 /\ 3 \in 1..5 /\ 4 \in 1..5 /\ 5 \in 1..5
  OBVIOUS
<1>7. /\ Comes(s, 1, "store") => BeforeStore(1, s[1])
      /\ Comes(s, 2, "store") => BeforeStore(2, s[1])
      /\ Comes(s, 3, "store") => BeforeStore(3, s[1])
      /\ Comes(s, 4, "store") => BeforeStore(4, s[1])
  BY <1>1, <1>6
<1>8. /\ Comes(s, 1, "song") => BeforeSong(1, s[1])
      /\ Comes(s, 2, "song") => BeforeSong(2, s[1])
      /\ Comes(s, 3, "song") => BeforeSong(3, s[1])
      /\ Comes(s, 4, "song") => BeforeSong(4, s[1])
      /\ Comes(s, 5, "song") => BeforeSong(5, s[1])
  BY <1>2, <1>6
<1> QED BY <1>3, <1>4, <1>5, <1>7, <1>8

\* When the first call returns, what came k + 1 places behind it comes k places
\* behind its successor.
LEMMA ReturnPlaces ==
  ASSUME todo \in Seq(Call), todo # <<>>, Shaped(todo), Return
  PROVE  /\ Shaped(todo)'
         /\ todo' # <<>> => todo'[1].do # "scan"
         /\ Comes(todo, 0, "store")' <=> Comes(todo, 1, "store")
         /\ Comes(todo, 1, "store")' <=> Comes(todo, 2, "store")
         /\ Comes(todo, 2, "store")' <=> Comes(todo, 3, "store")
         /\ Comes(todo, 3, "store")' <=> Comes(todo, 4, "store")
         /\ Comes(todo, 0, "song")' <=> Comes(todo, 1, "song")
         /\ Comes(todo, 1, "song")' <=> Comes(todo, 2, "song")
         /\ Comes(todo, 2, "song")' <=> Comes(todo, 3, "song")
         /\ Comes(todo, 3, "song")' <=> Comes(todo, 4, "song")
         /\ Comes(todo, 4, "song")' <=> Comes(todo, 5, "song")
<1>1. todo' = Tail(todo)
  BY DEF Return
<1>2. /\ Shaped(Tail(todo))
      /\ \A k \in Nat : \A what : Comes(Tail(todo), k, what) <=> Comes(todo, k + 1, what)
      /\ Tail(todo) # <<>> => Tail(todo)[1].do # "scan"
  BY TailPlaces
<1>3. \A what : /\ Comes(Tail(todo), 0, what) <=> Comes(todo, 1, what)
                /\ Comes(Tail(todo), 1, what) <=> Comes(todo, 2, what)
                /\ Comes(Tail(todo), 2, what) <=> Comes(todo, 3, what)
                /\ Comes(Tail(todo), 3, what) <=> Comes(todo, 4, what)
                /\ Comes(Tail(todo), 4, what) <=> Comes(todo, 5, what)
  <2>1. /\ 0 \in Nat /\ 0 + 1 = 1 /\ 1 \in Nat /\ 1 + 1 = 2 /\ 2 \in Nat /\ 2 + 1 = 3
        /\ 3 \in Nat /\ 3 + 1 = 4 /\ 4 \in Nat /\ 4 + 1 = 5
    OBVIOUS
  <2> HIDE <1>1
  <2>2. \A k \in Nat : \A n, what :
          k + 1 = n => (Comes(Tail(todo), k, what) <=> Comes(todo, n, what))
    BY <1>2
  <2> QED BY <2>1, <2>2
<1> QED BY <1>1, <1>2, <1>3

\* Nothing moves when the first call is turned into a later part of itself.
LEMMA TurnPlaces ==
  ASSUME todo \in Seq(Call), todo # <<>>, Shaped(todo),
         NEW w \in {"scan", "head", "tail", "entity"}, Become(w),
         w = "scan" => todo[1].do = "get",
         w # "scan" => todo[1].do \in {"entity", "head", "tail"}
  PROVE  /\ Shaped(todo)' /\ todo' # <<>> /\ todo'[1].do = w
         /\ \A k \in Nat, what \in {"store", "song"} :
              Comes(todo, k, what)' <=> Comes(todo, k, what)
<1> DEFINE t == <<[Head(todo) EXCEPT !.do = w]>> \o Tail(todo)
<1>1. /\ Shaped(t) /\ t[1].do = w
      /\ \A k \in Nat, what \in {"store", "song"} :
           Comes(t, k, what) <=> Comes(todo, k, what)
  BY BecomePlaces
<1>2. todo' = t
  BY DEF Become
<1>3. t # <<>>
  <2>1. <<[Head(todo) EXCEPT !.do = w]>> # <<>>
    OBVIOUS
  <2>2. Tail(todo) \in Seq(Call)
    OBVIOUS
  <2> QED BY <2>1, <2>2
<1> HIDE DEF t
<1> QED BY <1>1, <1>2, <1>3

\* A call that is no part of asking for the status.
LEMMA AsidePlaces ==
  ASSUME todo \in Seq(Call), todo # <<>>, Shaped(todo),
         todo[1].do \in {"choose", "store", "song", "next", "entity", "head", "tail"}
  PROVE  /\ Return => Far(todo)' /\ Shaped(todo)'
         /\ todo[1].do \in {"next", "entity", "head", "tail"} =>
              /\ Far(todo)
              /\ \A w \in {"head", "tail", "entity"} :
                   Become(w) /\ todo[1].do # "next" => Far(todo)' /\ Shaped(todo)'
         /\ todo[1].do \in {"choose", "store", "song"} =>
              \A k \in 1..4 : ~Comes(todo, k, "store") /\ ~Comes(todo, k, "song")
<1>1. /\ ~Comes(todo, 1, "store") /\ ~Comes(todo, 2, "store") /\ ~Comes(todo, 3, "store")
      /\ ~Comes(todo, 4, "store")
      /\ ~Comes(todo, 1, "song") /\ ~Comes(todo, 2, "song") /\ ~Comes(todo, 3, "song")
      /\ ~Comes(todo, 4, "song") /\ ~Comes(todo, 5, "song")
  BY NearPlaces DEF AsksStatus
<1>2. \A k \in 1..4 : k = 1 \/ k = 2 \/ k = 3 \/ k = 4
  OBVIOUS
<1>3. \A k \in 1..4 : ~Comes(todo, k, "store") /\ ~Comes(todo, k, "song")
  BY <1>1, <1>2
<1>4. \A k \in 0..4 : k = 0 \/ k \in 1..4
  OBVIOUS
<1>5. Return => Far(todo)' /\ Shaped(todo)'
  <2>1. SUFFICES ASSUME Return PROVE Far(todo)' /\ Shaped(todo)'
    OBVIOUS
  <2>2. /\ Shaped(todo)'
        /\ ~Comes(todo, 0, "store")' /\ ~Comes(todo, 1, "store")' /\ ~Comes(todo, 2, "store")'
        /\ ~Comes(todo, 3, "store")'
        /\ ~Comes(todo, 0, "song")' /\ ~Comes(todo, 1, "song")' /\ ~Comes(todo, 2, "song")'
        /\ ~Comes(todo, 3, "song")' /\ ~Comes(todo, 4, "song")'
    BY <1>1, <2>1, ReturnPlaces
  <2>3. /\ \A k \in 0..3 : k = 0 \/ k = 1 \/ k = 2 \/ k = 3
        /\ \A k \in 0..4 : k = 0 \/ k = 1 \/ k = 2 \/ k = 3 \/ k = 4
    OBVIOUS
  <2> QED BY <2>2, <2>3 DEF Far
<1>6. CASE todo[1].do \in {"next", "entity", "head", "tail"}
  <2>1. ~Comes(todo, 0, "store") /\ ~Comes(todo, 0, "song")
    BY <1>6, HeadPlaces
  <2>2. Far(todo)
    BY <1>3, <1>4, <2>1 DEF Far
  <2>3. ASSUME NEW w \in {"head", "tail", "entity"}, Become(w), todo[1].do # "next"
        PROVE  Far(todo)' /\ Shaped(todo)'
    <3>1. w # "scan" /\ todo[1].do \in {"entity", "head", "tail"}
      BY <1>6, <2>3
    <3>2. w \in {"scan", "head", "tail", "entity"}
      OBVIOUS
    <3>3. /\ Shaped(todo)'
          /\ \A k \in Nat, what \in {"store", "song"} :
               Comes(todo, k, what)' <=> Comes(todo, k, what)
      BY <2>3, <3>1, <3>2, TurnPlaces
    <3>4. \A k \in 0..4 : k \in Nat
      OBVIOUS
    <3>5. 0..3 \subseteq 0..4
      OBVIOUS
    <3> QED BY <2>2, <3>3, <3>4, <3>5 DEF Far
  <2> QED BY <1>3, <1>5, <2>2, <2>3
<1>7. CASE todo[1].do \in {"choose", "store", "song"}
  BY <1>3, <1>5, <1>7
<1> QED BY <1>6, <1>7

\* The calls behind which no status is under way.
LEMMA AsideKeeps ==
  ASSUME todo \in Seq(Call), todo # <<>>, Shaped(todo), PositionInv,
         \/ CallChoose \/ CallStore \/ CallSong \/ CallNext \/ CallEntity \/ CallHead
         \/ CallTail
  PROVE  Shaped(todo)' /\ PositionInv'
<1>1. Head(todo) = todo[1]
  OBVIOUS
<1>2. /\ todo[1].do \in {"choose", "store", "song", "next", "entity", "head", "tail"}
      /\ CallNext => todo[1].do = "next"
      /\ CallEntity => todo[1].do = "entity"
      /\ CallHead => todo[1].do = "head"
      /\ CallTail => todo[1].do = "tail"
  BY <1>1 DEF CallChoose, CallStore, CallSong, CallNext, CallEntity, CallHead, CallTail, At
<1>3. /\ Return => Far(todo)' /\ Shaped(todo)'
      /\ todo[1].do \in {"next", "entity", "head", "tail"} =>
           /\ Far(todo)
           /\ \A w \in {"head", "tail", "entity"} :
                Become(w) /\ todo[1].do # "next" => Far(todo)' /\ Shaped(todo)'
      /\ todo[1].do \in {"choose", "store", "song"} =>
           \A k \in 1..4 : ~Comes(todo, k, "store") /\ ~Comes(todo, k, "song")
  BY <1>2, AsidePlaces
<1>4. ~commandList
  <2>1. 2 \in 1..4 /\ 3 \in 1..4 /\ 4 \in 1..4 /\ 2 \in 0..4 /\ 3 \in 0..4 /\ 4 \in 0..4
    OBVIOUS
  <2>2. ~Comes(todo, 2, "song") /\ ~Comes(todo, 3, "song") /\ ~Comes(todo, 4, "song")
    BY <1>2, <1>3, <2>1 DEF Far
  <2> QED BY <2>2 DEF PositionInv, SongInv
<1>5. commandList' = commandList
  <2>1. UNCHANGED vars => UNCHANGED commandList
    BY DEF vars, conn
  <2>2. GetNextReturnElement \/ ClearDoneListOk => UNCHANGED commandList
    BY DEF GetNextReturnElement, ReadAlreadyDone, ReadData, ReadOK, ReadListOK, ReadACK,
           ReadTimeout, ReadClosed, ClearDoneListOk
  <2>3. \A r : ExecuteCommand(r) => UNCHANGED commandList
    BY DEF ExecuteCommand, ExecutePlain, ExecuteListed, ExecuteRejected
  <2> QED BY <2>1, <2>2, <2>3
          DEF CallChoose, SendCommand, CallStore, CallSong, CallNext, CallEntity, CallHead,
              CallTail, EntityComplete
<1>6. /\ todo' = <<>> => Far(todo)' /\ Shaped(todo)'
      /\ todo' = <<Do("next"), [do |-> "entity", cmd |-> "one"], Do("finish")>> =>
           Far(todo)' /\ Shaped(todo)'
  <2> DEFINE next == <<Do("next"), [do |-> "entity", cmd |-> "one"], Do("finish")>>
             none == <<>>
  <2>1. Whole(none)
    <3>1. none \in Seq(Call) /\ Len(none) = 0 /\ 1..0 = {}
      OBVIOUS
    <3> HIDE DEF none
    <3> QED BY <3>1, PlainWhole
  <2>2. Whole(next)
    <3>1. /\ Do("next") \in Call /\ Do("finish") \in Call
          /\ Do("next").do = "next" /\ Do("finish").do = "finish"
      <4>1. {"next", "finish"} \subseteq What \ {"send"}
        BY DEF What
      <4> QED BY <4>1, CallTypes
    <3>2. [do |-> "entity", cmd |-> "one"] \in Call
      <4>1. "one" \in Argument
        BY DEF Argument
      <4> QED BY <4>1, CallTypes
    <3>3. /\ next \in Seq(Call) /\ Len(next) = 3
          /\ next[1].do = "next" /\ next[2].do = "entity" /\ next[3].do = "finish"
      BY <3>1, <3>2
    <3> HIDE DEF next
    <3>4. \A i \in 1..3 : next[i].do \notin {"store", "song", "begin", "scan"}
      BY <3>3
    <3> QED BY <3>3, <3>4, PlainWhole
  <2>3. Far(none) /\ Shaped(none) /\ Far(next) /\ Shaped(next)
    BY <2>1, <2>2, WholeFar DEF Whole
  <2> HIDE DEF next, none
  <2>4. /\ todo' = none => Far(todo)' /\ Shaped(todo)'
        /\ todo' = next => Far(todo)' /\ Shaped(todo)'
    BY <2>3
  <2> QED BY <2>4 DEF next, none
<1>7. Far(todo)' /\ Shaped(todo)'
  <2>1. CASE CallChoose
    BY <1>3, <2>1 DEF CallChoose, SendCommand
  <2>2. CASE CallStore
    BY <1>3, <1>6, <2>2 DEF CallStore
  <2>3. CASE CallSong
    BY <1>3, <1>6, <2>3 DEF CallSong, Return
  <2>4. Stay /\ Far(todo) => Far(todo)' /\ Shaped(todo)'
    BY DEF Stay
  <2>5. CASE CallNext
    <3>1. Return \/ Stay
      BY <2>5 DEF CallNext
    <3> QED BY <1>2, <1>3, <2>4, <2>5, <3>1
  <2>6. CASE CallEntity
    <3>1. Return \/ Become("head")
      BY <2>6 DEF CallEntity
    <3> QED BY <1>2, <1>3, <2>6, <3>1
  <2>7. CASE CallHead
    <3>1. Return \/ Become("tail")
      BY <2>7 DEF CallHead
    <3> QED BY <1>2, <1>3, <2>7, <3>1
  <2>8. CASE CallTail
    <3>1. Return \/ Stay \/ Become("entity")
      BY <2>8 DEF CallTail, EntityComplete
    <3> QED BY <1>2, <1>3, <2>4, <2>8, <3>1
  <2> QED BY <2>1, <2>2, <2>3, <2>5, <2>6, <2>7, <2>8
<1> QED BY <1>4, <1>5, <1>7, FarKeeps

\* Sending the question, or a command of the list.
LEMMA SendKeeps ==
  ASSUME TypeOK, InStep, todo \in Seq(Call), todo # <<>>, Shaped(todo), QuietInv, PositionInv,
         CallSend, ~desynced'
  PROVE  Shaped(todo)' /\ PositionInv'
<1>1. /\ Head(todo) = todo[1] /\ todo[1].do = "send" /\ Return
      /\ ExecuteCommand(todo[1].cmd)
      /\ asked' = IF todo[1].cmd = "status" /\ ~commandList THEN {mpd} ELSE asked
      /\ UNCHANGED <<status, mpdvars>>
  BY DEF CallSend, SendCommand, At
<1>2. /\ ~Comes(todo, 1, "store") /\ ~Comes(todo, 2, "store") /\ ~Comes(todo, 4, "store")
      /\ ~Comes(todo, 1, "song") /\ ~Comes(todo, 2, "song") /\ ~Comes(todo, 5, "song")
      /\ Comes(todo, 3, "store") => todo[1].cmd = "status"
      /\ Comes(todo, 3, "song") => todo[1].cmd = "currentsong"
      /\ Comes(todo, 4, "song") => todo[1].cmd = "status"
  BY <1>1, NearPlaces DEF AsksStatus
<1>3. /\ Shaped(todo)' /\ (todo' # <<>> => todo'[1].do # "scan")
      /\ ~Comes(todo, 0, "store")' /\ ~Comes(todo, 1, "store")'
      /\ ~Comes(todo, 3, "store")'
      /\ ~Comes(todo, 0, "song")' /\ ~Comes(todo, 1, "song")' /\ ~Comes(todo, 4, "song")'
      /\ Comes(todo, 2, "store")' => Comes(todo, 3, "store")
      /\ Comes(todo, 2, "song")' <=> Comes(todo, 3, "song")
      /\ Comes(todo, 3, "song")' <=> Comes(todo, 4, "song")
  BY <1>1, <1>2, ReturnPlaces
<1>4. /\ Transmit(todo[1].cmd) => requests' = Append(requests, todo[1].cmd) /\ error' = "none"
      /\ UNCHANGED <<emitted, mpd>>
  BY <1>1 DEF Transmit, InStep, mpdvars
<1>5. Comes(todo, 2, "store")' => (error \in Fault /\ doneProcessing)' \/ Asking("single")'
  <2>1. SUFFICES ASSUME Comes(todo, 2, "store")'
                 PROVE  (error \in Fault /\ doneProcessing)' \/ Asking("single")'
    OBVIOUS
  <2>2. /\ Comes(todo, 3, "store") /\ todo[1].cmd = "status" /\ todo'[1].do # "scan"
        /\ doneProcessing /\ ~commandList
    <3>1. todo' # <<>>
      BY <2>1 DEF Comes
    <3> QED BY <1>2, <1>3, <2>1, <3>1 DEF PositionInv, StoreInv
  <2>3. ExecutePlain("status") /\ asked' = {mpd}
    BY <1>1, <2>2 DEF ExecuteCommand, ExecuteListed, ExecuteRejected, Busy
  <2>4. CASE Transmit("status") /\ doneProcessing' = FALSE
    <3>1. /\ NothingInFlight /\ emitted = 0 /\ listOks = 0 /\ ~doneListOk
          /\ returnElement = NoElement
      BY <2>2 DEF InStep, QuietInv, IdleInv, NothingInFlight
    <3>2. /\ UNCHANGED <<commandList, listOks, doneListOk, returnElement, mode, list, answers>>
      BY <2>3, <2>4 DEF ExecutePlain, Transmit, server
    <3>3. requests' = Append(requests, "status") /\ error' = "none"
      BY <1>4, <2>2, <2>4
    <3>4. Coming("single")'
      BY <1>4, <3>1, <3>2, <3>3, SendingAsks
    <3>5. AtGet("single")'
      BY <2>2, <2>3, <2>4, <3>1, <3>2, <3>3, <3>4 DEF AtGet, Due
    <3> QED BY <2>2, <3>5 DEF Asking
  <2>5. CASE FailToSend(FALSE) /\ UNCHANGED doneProcessing
    BY <2>2, <2>5 DEF FailToSend, Fault
  <2> QED BY <2>3, <2>4, <2>5 DEF ExecutePlain
<1>6. ASSUME Comes(todo, 3, "song") \/ Comes(todo, 4, "song")
      PROVE  Listing' /\ (listOks > 0)' /\ Coming("listing")'
  <2>1. Listing /\ (Comes(todo, 3, "song") => Coming("listing")) /\ listOks \in Nat
        /\ (Comes(todo, 4, "song") => Opened)
    BY <1>6 DEF PositionInv, SongInv, TypeOK
  <2>2. ExecuteListed(todo[1].cmd) /\ asked' = asked
    BY <1>1, <2>1 DEF Listing, ExecuteCommand, ExecutePlain, ExecuteRejected, Busy
  <2>3. Transmit(todo[1].cmd) /\ listOks' = listOks + 1
        /\ UNCHANGED <<doneProcessing, commandList, mode, list, answers>>
    BY <2>2 DEF ExecuteListed, FailToSend, Transmit, server
  <2>4. Listing' /\ (listOks > 0)'
    BY <1>4, <2>1, <2>3 DEF Listing
  <2>5. CASE Comes(todo, 3, "song")
    <3>1. Coming("listing")'
      BY <1>4, <2>1, <2>2, <2>3, <2>5, SendingKeepsComing
    <3> QED BY <2>4, <3>1
  <2>6. CASE Comes(todo, 4, "song")
    <3>1. mode \in {"ready", "collecting"} /\ requests' = Append(requests, "status") /\ Opened
      BY <1>2, <1>4, <2>1, <2>3, <2>6 DEF Opened
    <3>2. emitted = 0
      BY <3>1 DEF QuietInv
    <3>3. Coming("listing")'
      BY <1>4, <2>3, <3>1, <3>2, SendingAsks
    <3> QED BY <2>4, <3>3
  <2> QED BY <1>6, <2>5, <2>6
<1>7. (commandList => Comes(todo, 2, "song") \/ Comes(todo, 3, "song"))'
  <2>1. UNCHANGED commandList
    BY <1>1 DEF ExecuteCommand, ExecutePlain, ExecuteListed, ExecuteRejected
  <2>2. commandList => Comes(todo, 3, "song") \/ Comes(todo, 4, "song")
    BY <1>2 DEF PositionInv, SongInv
  <2> QED BY <1>3, <2>1, <2>2
<1>8. StoreInv'
  BY <1>3, <1>5 DEF StoreInv
<1>9. SongInv'
  BY <1>3, <1>6, <1>7 DEF SongInv
<1> QED BY <1>3, <1>8, <1>9 DEF PositionInv

\* Opening the list.
LEMMA BeginKeeps ==
  ASSUME TypeOK, InStep, PlaceInv, todo \in Seq(Call), todo # <<>>, Shaped(todo), PositionInv,
         CallBegin, ~desynced'
  PROVE  Shaped(todo)' /\ PositionInv'
<1>1. /\ Head(todo) = todo[1] /\ todo[1].do = "begin" /\ Return /\ SendCommandListOkBegin
  BY DEF CallBegin, At
<1>2. /\ ~Comes(todo, 1, "store") /\ ~Comes(todo, 2, "store") /\ ~Comes(todo, 3, "store")
      /\ ~Comes(todo, 4, "store")
      /\ ~Comes(todo, 1, "song") /\ ~Comes(todo, 2, "song") /\ ~Comes(todo, 3, "song")
      /\ ~Comes(todo, 4, "song")
  BY <1>1, NearPlaces DEF AsksStatus
<1>3. Comes(todo, 5, "song")
  BY <1>1, HeadPlaces
<1>4. /\ Shaped(todo)'
      /\ ~Comes(todo, 0, "store")' /\ ~Comes(todo, 1, "store")' /\ ~Comes(todo, 2, "store")'
      /\ ~Comes(todo, 3, "store")'
      /\ ~Comes(todo, 0, "song")' /\ ~Comes(todo, 1, "song")' /\ ~Comes(todo, 2, "song")'
      /\ ~Comes(todo, 3, "song")' /\ Comes(todo, 4, "song")'
  BY <1>1, <1>2, <1>3, ReturnPlaces
<1>5. doneProcessing /\ ~commandList
  BY <1>1 DEF PlaceInv, Opens, SendCommandListOkBegin
<1>6. NothingInFlight /\ serverUp
  BY <1>5 DEF InStep
<1>7. /\ Transmit(ListBegin) /\ commandList'
      /\ UNCHANGED <<doneProcessing, mode, list>>
  BY <1>1 DEF SendCommandListOkBegin, FailToSend, server
<1>8. requests' = <<ListBegin>> /\ error' = "none" /\ answers' = answers
  BY <1>6, <1>7 DEF Transmit, NothingInFlight
<1>9. Listing' /\ Opened'
  BY <1>5, <1>6, <1>7, <1>8 DEF Listing, Opened, NothingInFlight
<1> QED BY <1>4, <1>9 DEF PositionInv, StoreInv, SongInv

\* Closing it.
LEMMA EndKeeps ==
  ASSUME TypeOK, InStep, todo \in Seq(Call), todo # <<>>, Shaped(todo), QuietInv, PositionInv,
         CallEnd, ~desynced'
  PROVE  Shaped(todo)' /\ PositionInv'
<1>1. /\ Head(todo) = todo[1] /\ todo[1].do = "end" /\ Return /\ SendCommandListEnd
      /\ UNCHANGED <<asked, emitted>>
  BY DEF CallEnd, At, Ordinary, mpdvars
<1>2. /\ ~Comes(todo, 1, "store") /\ ~Comes(todo, 2, "store") /\ ~Comes(todo, 3, "store")
      /\ ~Comes(todo, 4, "store")
      /\ ~Comes(todo, 1, "song") /\ ~Comes(todo, 3, "song") /\ ~Comes(todo, 4, "song")
      /\ ~Comes(todo, 5, "song")
  BY <1>1, NearPlaces DEF AsksStatus
<1>3. /\ Shaped(todo)' /\ (todo' # <<>> => todo'[1].do # "scan")
      /\ ~Comes(todo, 0, "store")' /\ ~Comes(todo, 1, "store")' /\ ~Comes(todo, 2, "store")'
      /\ ~Comes(todo, 3, "store")'
      /\ ~Comes(todo, 0, "song")' /\ ~Comes(todo, 2, "song")'
      /\ ~Comes(todo, 3, "song")' /\ ~Comes(todo, 4, "song")'
      /\ Comes(todo, 1, "song")' => Comes(todo, 2, "song")
  BY <1>1, <1>2, ReturnPlaces
<1>4. ~commandList'
  BY <1>1 DEF SendCommandListEnd
<1>5. Comes(todo, 1, "song")' => Asking("listing")'
  <2>1. SUFFICES ASSUME Comes(todo, 1, "song")' PROVE Asking("listing")'
    OBVIOUS
  <2>2. todo'[1].do # "scan"
    <3>1. todo' # <<>>
      BY <2>1 DEF Comes
    <3> QED BY <1>3, <3>1
  <2>3. Listing /\ listOks > 0 /\ Coming("listing")
    BY <1>3, <2>1 DEF PositionInv, SongInv
  <2>4. ~doneListOk /\ returnElement = NoElement /\ serverUp
    BY <2>3 DEF Listing, QuietInv, IdleInv, InStep
  <2>5. /\ Transmit(ListEnd) /\ doneProcessing' = FALSE
        /\ UNCHANGED <<listOks, doneListOk, returnElement, mode, list>>
    BY <1>1, <2>3 DEF Listing, SendCommandListEnd, FailToSend, server
  <2>6. requests' = Append(requests, ListEnd) /\ error' = "none" /\ answers' = answers
    BY <2>4, <2>5 DEF Transmit
  <2>7. Coming("listing")'
    BY <1>1, <2>3, <2>5, <2>6, SendingKeepsComing
  <2>8. AtGet("listing")'
    BY <1>4, <2>3, <2>4, <2>5, <2>6, <2>7 DEF AtGet, Due
  <2> QED BY <2>2, <2>8 DEF Asking
<1> QED BY <1>3, <1>4, <1>5 DEF PositionInv, StoreInv, SongInv

\* Reading an answer to its end.
LEMMA FinishKeeps ==
  ASSUME todo \in Seq(Call), todo # <<>>, Shaped(todo), PositionInv, CallFinish
  PROVE  Shaped(todo)' /\ PositionInv'
<1>1. /\ Head(todo) = todo[1] /\ todo[1].do = "finish" /\ UNCHANGED <<status, asked>>
      /\ \/ doneProcessing /\ Return /\ UNCHANGED vars
         \/ ~doneProcessing /\ Stay /\ (ClearDoneListOk \/ GetNextReturnElement)
  BY DEF CallFinish, At, Ordinary
<1>2. /\ ~Comes(todo, 2, "store") /\ ~Comes(todo, 3, "store")
      /\ ~Comes(todo, 1, "song") /\ ~Comes(todo, 2, "song") /\ ~Comes(todo, 3, "song")
      /\ ~Comes(todo, 4, "song") /\ ~Comes(todo, 5, "song")
      /\ ~Comes(todo, 0, "store") /\ ~Comes(todo, 0, "song")
  BY <1>1, NearPlaces, HeadPlaces DEF AsksStatus
<1>3. ~commandList
  BY <1>2 DEF PositionInv, SongInv
<1>4. CASE doneProcessing /\ Return /\ UNCHANGED vars
  <2>1. /\ Shaped(todo)'
        /\ ~Comes(todo, 1, "store")' /\ ~Comes(todo, 2, "store")'
        /\ ~Comes(todo, 0, "song")' /\ ~Comes(todo, 1, "song")' /\ ~Comes(todo, 2, "song")'
        /\ ~Comes(todo, 3, "song")' /\ ~Comes(todo, 4, "song")'
        /\ Comes(todo, 0, "store")' => Comes(todo, 1, "store")
    BY <1>2, <1>4, ReturnPlaces
  <2>2. doneProcessing' /\ ~commandList' /\ error' = error
    BY <1>3, <1>4 DEF vars, conn
  <2>3. Stored => Stored'
    BY <1>1, <2>2 DEF Stored, Valid
  <2> QED BY <2>1, <2>2, <2>3 DEF PositionInv, StoreInv, SongInv
<1>5. CASE ~doneProcessing /\ Stay /\ (ClearDoneListOk \/ GetNextReturnElement)
  <2>1. ~Comes(todo, 1, "store")
    BY <1>5 DEF PositionInv, StoreInv
  <2>2. Far(todo)
    <3>1. /\ \A k \in 0..3 : k = 0 \/ k = 1 \/ k = 2 \/ k = 3
          /\ \A k \in 0..4 : k = 0 \/ k = 1 \/ k = 2 \/ k = 3 \/ k = 4
      OBVIOUS
    <3> QED BY <1>2, <2>1, <3>1 DEF Far
  <2>3. ~commandList'
    BY <1>3, <1>5 DEF ClearDoneListOk, GetNextReturnElement, ReadAlreadyDone, ReadData, ReadOK,
                      ReadListOK, ReadACK, ReadTimeout, ReadClosed
  <2>4. Far(todo)' /\ Shaped(todo)'
    BY <1>5, <2>2 DEF Stay
  <2> QED BY <2>3, <2>4, FarKeeps
<1> QED BY <1>1, <1>4, <1>5

\* Reading the first line of the answer.
LEMMA GetKeeps ==
  ASSUME TypeOK, InStep, todo \in Seq(Call), todo # <<>>, Shaped(todo), PositionInv,
         CallGet, ~desynced'
  PROVE  Shaped(todo)' /\ PositionInv'
<1>1. /\ Head(todo) = todo[1] /\ todo[1].do = "get" /\ UNCHANGED <<asked, emitted>>
  BY DEF CallGet, At, Ordinary, mpdvars
<1>2. /\ ~Comes(todo, 1, "store") /\ ~Comes(todo, 3, "store") /\ ~Comes(todo, 4, "store")
      /\ ~Comes(todo, 2, "song") /\ ~Comes(todo, 3, "song")
      /\ ~Comes(todo, 4, "song") /\ ~Comes(todo, 5, "song")
      /\ ~Comes(todo, 0, "store") /\ ~Comes(todo, 0, "song")
  BY <1>1, NearPlaces, HeadPlaces DEF AsksStatus
<1>3. ~commandList
  BY <1>2 DEF PositionInv, SongInv
<1>4. /\ Comes(todo, 2, "store") => (error \in Fault /\ doneProcessing) \/ AtGet("single")
      /\ Comes(todo, 1, "song") => AtGet("listing")
  BY <1>1 DEF PositionInv, StoreInv, SongInv, Asking
<1>5. \A m : AtGet(m) => ~AlreadyDone /\ returnElement = NoElement
  BY DEF AtGet, Due, AlreadyDone
<1>6. CASE AlreadyDone
  <2>1. Return /\ UNCHANGED vars
    BY <1>6 DEF CallGet
  <2>2. /\ Shaped(todo)'
        /\ ~Comes(todo, 0, "store")' /\ ~Comes(todo, 2, "store")' /\ ~Comes(todo, 3, "store")'
        /\ ~Comes(todo, 1, "song")' /\ ~Comes(todo, 2, "song")'
        /\ ~Comes(todo, 3, "song")' /\ ~Comes(todo, 4, "song")'
        /\ Comes(todo, 1, "store")' => Comes(todo, 2, "store")
        /\ Comes(todo, 0, "song")' => Comes(todo, 1, "song")
    BY <1>2, <2>1, ReturnPlaces
  <2>3. UNCHANGED <<doneProcessing, commandList, error>>
    BY <2>1 DEF vars, conn
  <2>4. Comes(todo, 1, "store")' => Stored' /\ doneProcessing'
    BY <1>4, <1>5, <1>6, <2>2, <2>3 DEF Stored
  <2>5. ~Comes(todo, 0, "song")'
    BY <1>4, <1>5, <1>6, <2>2
  <2> QED BY <1>3, <2>2, <2>3, <2>4, <2>5 DEF PositionInv, StoreInv, SongInv
<1>7. CASE ~AlreadyDone
  <2>1. /\ Become("scan")
        /\ IF returnElement = NoElement THEN GetNextReturnElement ELSE UNCHANGED vars
    BY <1>7 DEF CallGet
  <2>2. /\ Shaped(todo)' /\ todo'[1].do = "scan"
        /\ \A k \in Nat, what \in {"store", "song"} :
             Comes(todo, k, what)' <=> Comes(todo, k, what)
    BY <1>1, <2>1, TurnPlaces
  <2>3. /\ ~Comes(todo, 0, "store")' /\ ~Comes(todo, 1, "store")' /\ ~Comes(todo, 3, "store")'
        /\ ~Comes(todo, 0, "song")' /\ ~Comes(todo, 2, "song")'
        /\ ~Comes(todo, 3, "song")' /\ ~Comes(todo, 4, "song")'
        /\ Comes(todo, 2, "store")' => Comes(todo, 2, "store")
        /\ Comes(todo, 1, "song")' => Comes(todo, 1, "song")
    <3>1. 0 \in Nat /\ 1 \in Nat /\ 2 \in Nat /\ 3 \in Nat /\ 4 \in Nat
      OBVIOUS
    <3> QED BY <1>2, <2>2, <3>1
  <2>4. ~commandList'
    BY <1>3, <2>1 DEF GetNextReturnElement, ReadAlreadyDone, ReadData, ReadOK, ReadListOK,
                      ReadACK, ReadTimeout, ReadClosed, vars, conn
  <2>5. ASSUME NEW m \in {"single", "listing"}, AtGet(m) PROVE Asking(m)'
    <3>1. GetNextReturnElement
      BY <1>5, <2>1, <2>5
    <3>2. AtScan(m)'
      BY <1>1, <2>5, <3>1, ReadingData
    <3> QED BY <2>2, <3>2 DEF Asking
  <2>6. Comes(todo, 2, "store")' => Asking("single")'
    BY <1>4, <1>7, <2>3, <2>5 DEF AlreadyDone
  <2>7. Comes(todo, 1, "song")' => Asking("listing")'
    BY <1>4, <2>3, <2>5
  <2> QED BY <2>2, <2>3, <2>4, <2>6, <2>7 DEF PositionInv, StoreInv, SongInv
<1> QED BY <1>6, <1>7

\* Reading the rest of it.
LEMMA ScanKeeps ==
  ASSUME TypeOK, InStep, todo \in Seq(Call), todo # <<>>, Shaped(todo), PositionInv,
         CallScan, ~desynced'
  PROVE  Shaped(todo)' /\ PositionInv'
<1>1. /\ Head(todo) = todo[1] /\ todo[1].do = "scan" /\ UNCHANGED <<asked, emitted>>
  BY DEF CallScan, At, Ordinary, mpdvars
<1>2. /\ ~Comes(todo, 1, "store") /\ ~Comes(todo, 3, "store") /\ ~Comes(todo, 4, "store")
      /\ ~Comes(todo, 2, "song") /\ ~Comes(todo, 3, "song")
      /\ ~Comes(todo, 4, "song") /\ ~Comes(todo, 5, "song")
      /\ ~Comes(todo, 0, "store") /\ ~Comes(todo, 0, "song")
  BY <1>1, NearPlaces, HeadPlaces DEF AsksStatus
<1>3. ~commandList
  BY <1>2 DEF PositionInv, SongInv
<1>4. /\ Comes(todo, 2, "store") => (error \in Fault /\ doneProcessing) \/ AtScan("single")
      /\ Comes(todo, 1, "song") => AtScan("listing")
  BY <1>1 DEF PositionInv, StoreInv, SongInv, Asking
<1>5. \A m : AtScan(m) => error = "none"
  BY DEF AtScan, Due
<1>6. Return => /\ Shaped(todo)'
                /\ ~Comes(todo, 0, "store")' /\ ~Comes(todo, 2, "store")'
                /\ ~Comes(todo, 3, "store")'
                /\ ~Comes(todo, 1, "song")' /\ ~Comes(todo, 2, "song")'
                /\ ~Comes(todo, 3, "song")' /\ ~Comes(todo, 4, "song")'
                /\ Comes(todo, 1, "store")' => Comes(todo, 2, "store")
                /\ Comes(todo, 0, "song")' => Comes(todo, 1, "song")
  BY <1>2, ReturnPlaces
<1>7. CASE error # "none"
  <2>1. Return /\ UNCHANGED vars
    BY <1>7 DEF CallScan
  <2>2. UNCHANGED <<doneProcessing, commandList, error>>
    BY <2>1 DEF vars, conn
  <2>3. Comes(todo, 1, "store")' => Stored' /\ doneProcessing'
    BY <1>4, <1>5, <1>6, <1>7, <2>1, <2>2 DEF Stored
  <2>4. ~Comes(todo, 0, "song")'
    BY <1>4, <1>5, <1>6, <1>7, <2>1
  <2> QED BY <1>3, <1>6, <2>1, <2>2, <2>3, <2>4 DEF PositionInv, StoreInv, SongInv
<1>8. CASE error = "none" /\ returnElement # NoElement
  <2>1. /\ status' = Fill(status, returnElement) /\ GetNextReturnElement /\ Stay
    BY <1>8 DEF CallScan
  <2>2. ~commandList'
    BY <1>3, <2>1 DEF GetNextReturnElement, ReadAlreadyDone, ReadData, ReadOK, ReadListOK,
                      ReadACK, ReadTimeout, ReadClosed
  <2>3. ASSUME NEW m \in {"single", "listing"}, AtScan(m) PROVE Asking(m)'
    <3>1. Due(m) /\ StatusElement(m, returnElement) /\ Ending(m)
      BY <1>8, <2>3 DEF AtScan
    <3>2. error' = "none" /\ returnElement' = NoElement /\ (m = "single" => doneProcessing')
      BY <2>1, <3>1, ReadingLast
    <3>3. Valid(m, status)'
      BY <1>1, <2>1, <3>1 DEF StatusElement, Valid, Fill
    <3>4. AtScan(m)'
      BY <3>2, <3>3 DEF AtScan
    <3>5. todo'[1].do = "scan"
      BY <1>1, <2>1 DEF Stay
    <3> QED BY <3>4, <3>5 DEF Asking
  <2>4. /\ Shaped(todo)'
        /\ ~Comes(todo, 0, "store")' /\ ~Comes(todo, 1, "store")' /\ ~Comes(todo, 3, "store")'
        /\ ~Comes(todo, 0, "song")' /\ ~Comes(todo, 2, "song")'
        /\ ~Comes(todo, 3, "song")' /\ ~Comes(todo, 4, "song")'
        /\ Comes(todo, 2, "store")' => Comes(todo, 2, "store")
        /\ Comes(todo, 1, "song")' => Comes(todo, 1, "song")
    BY <1>2, <2>1 DEF Stay
  <2>5. Comes(todo, 2, "store")' => Asking("single")'
    BY <1>4, <1>8, <2>3, <2>4 DEF Fault
  <2>6. Comes(todo, 1, "song")' => Asking("listing")'
    BY <1>4, <2>3, <2>4
  <2> QED BY <2>2, <2>4, <2>5, <2>6 DEF PositionInv, StoreInv, SongInv
<1>9. CASE error = "none" /\ returnElement = NoElement
  <2>1. /\ Return
        /\ IF status.state = "unknown" /\ Head(todo).cmd = "status"
           THEN UNCHANGED commandList
           ELSE UNCHANGED <<status, vars>>
    BY <1>9 DEF CallScan
  <2>2. ASSUME NEW m, AtScan(m) PROVE Valid(m, status) /\ (m = "single" => doneProcessing)
    <3>1. ~StatusElement(m, returnElement)
      BY <1>9, NoneAssumption DEF StatusElement
    <3> QED BY <2>2, <3>1 DEF AtScan
  <2>3. ASSUME NEW m, AtScan(m)
        PROVE  /\ UNCHANGED <<status, error, doneProcessing>>
               /\ Valid(m, status)' /\ (m = "single" => doneProcessing')
    <3>1. status \in Status /\ "unknown" \notin State
      BY <2>2, <2>3 DEF Valid, State
    <3>2. status.state # "unknown"
      BY <3>1 DEF Status
    <3>3. UNCHANGED <<status, vars>>
      BY <2>1, <3>2
    <3>4. UNCHANGED <<error, doneProcessing>>
      BY <3>3 DEF vars, conn
    <3> QED BY <1>1, <2>2, <2>3, <3>3, <3>4 DEF Valid
  <2>4. ~commandList'
    BY <1>3, <2>1 DEF vars, conn
  <2>5. Comes(todo, 1, "store")' => Stored' /\ doneProcessing'
    <3>1. Comes(todo, 1, "store")' => AtScan("single")
      BY <1>4, <1>6, <1>9, <2>1 DEF Fault
    <3> QED BY <1>9, <2>3, <3>1 DEF Stored
  <2>6. Comes(todo, 0, "song")' => (status \in Status)'
    <3>1. Comes(todo, 0, "song")' => AtScan("listing")
      BY <1>4, <1>6, <2>1
    <3> QED BY <2>3, <3>1 DEF Valid
  <2> QED BY <1>6, <2>1, <2>4, <2>5, <2>6 DEF PositionInv, StoreInv, SongInv
<1> QED BY <1>7, <1>8, <1>9

\* All calls together.
LEMMA ClientKeepsPosition ==
  ASSUME TypeOK, InStep, PlaceInv, Shaped(todo), QuietInv, PositionInv, ClientStep, ~desynced'
  PROVE  Shaped(todo)' /\ PositionInv'
<1>1. todo \in Seq(Call)
  BY DEF PlaceInv, Placed
<1>2. todo # <<>>
  BY DEF ClientStep, CallSend, CallChoose, CallBegin, CallEnd, CallFinish, CallGet, CallScan,
         CallStore, CallSong, CallNext, CallEntity, CallHead, CallTail, SigPipe, At
<1>3. CASE CallSend
  BY <1>1, <1>2, <1>3, SendKeeps
<1>4. CASE CallBegin
  BY <1>1, <1>2, <1>4, BeginKeeps
<1>5. CASE CallEnd
  BY <1>1, <1>2, <1>5, EndKeeps
<1>6. CASE CallFinish
  BY <1>1, <1>2, <1>6, FinishKeeps
<1>7. CASE CallGet
  BY <1>1, <1>2, <1>7, GetKeeps
<1>8. CASE CallScan
  BY <1>1, <1>2, <1>8, ScanKeeps
<1>9. CASE \/ CallChoose \/ CallStore \/ CallSong \/ CallNext \/ CallEntity \/ CallHead
           \/ CallTail
  BY <1>1, <1>2, <1>9, AsideKeeps
<1>10. CASE SigPipe
  BY <1>10 DEF SigPipe, InStep
<1> QED BY <1>3, <1>4, <1>5, <1>6, <1>7, <1>8, <1>9, <1>10 DEF ClientStep

\* The calls of mod_mpd and the others, on the connection.
LEMMA ClientMoves ==
  ASSUME PlaceInv, Shaped(todo), PositionInv, ClientStep
  PROVE  Moves /\ UNCHANGED <<emitted, mpd>>
<1>1. todo \in Seq(Call)
  BY DEF PlaceInv, Placed
<1>2. /\ todo # <<>>
      /\ UNCHANGED mpdvars
  BY DEF ClientStep, CallSend, CallChoose, CallBegin, CallEnd, CallFinish, CallGet, CallScan,
         CallStore, CallSong, CallNext, CallEntity, CallHead, CallTail, SigPipe, At,
         SendCommand, Ordinary
<1>3. Head(todo) = todo[1] /\ todo[1] \in Call
  BY <1>1, <1>2
<1>4. /\ Comes(todo, 2, "song") => todo[1].do = "end"
      /\ Comes(todo, 3, "song") => todo[1].do = "send" /\ todo[1].cmd = "currentsong"
      /\ Comes(todo, 4, "song") => todo[1].do = "send" /\ todo[1].cmd = "status"
  BY <1>1, <1>2, NearPlaces
<1>5. commandList => Comes(todo, 2, "song") \/ Comes(todo, 3, "song") \/ Comes(todo, 4, "song")
  BY DEF PositionInv, SongInv
<1>6. CASE CallSend
  <2>1. todo[1].do = "send" /\ ExecuteCommand(todo[1].cmd)
    BY <1>3, <1>6 DEF CallSend, SendCommand, At
  <2>2. todo[1].cmd \in Command
    BY <1>3, <2>1, PlayerAssumption DEF Call
  <2>3. commandList => todo[1].cmd \in Listable
    BY <1>4, <1>5, <2>1 DEF Listable
  <2> QED BY <1>2, <2>1, <2>2, <2>3 DEF Moves, mpdvars
<1>7. CASE CallChoose
  <2> DEFINE r == CASE player.state = "pause" -> "resume"
                    [] player.state = "play" -> "set"
                    [] OTHER -> "play"
  <2>1. todo[1].do = "choose" /\ ExecuteCommand(r)
    BY <1>3, <1>7 DEF CallChoose, SendCommand, At
  <2>2. r \in Command
    BY PlayerAssumption DEF PlayerCommand
  <2> HIDE DEF r
  <2>3. ~commandList
    BY <1>4, <1>5, <2>1
  <2> QED BY <1>2, <2>1, <2>2, <2>3 DEF Moves, mpdvars
<1>8. CASE CallBegin
  <2>1. todo[1].do = "begin" /\ SendCommandListOkBegin
    BY <1>3, <1>8 DEF CallBegin, At
  <2>2. doneProcessing
    BY <1>2, <2>1 DEF PlaceInv, Opens
  <2> QED BY <1>2, <2>1, <2>2 DEF Moves, mpdvars
<1>9. CASE CallEnd
  BY <1>2, <1>9 DEF CallEnd, Moves, mpdvars
<1>10. CASE CallFinish \/ CallGet
  <2>1. GetNextReturnElement \/ ClearDoneListOk \/ UNCHANGED vars
    BY <1>10 DEF CallFinish, CallGet
  <2> QED BY <1>2, <2>1 DEF Moves, mpdvars
<1>11. CASE CallScan
  <2>1. GetNextReturnElement \/ BracketRefused \/ UNCHANGED vars
    BY <1>11 DEF CallScan, BracketRefused
  <2> QED BY <1>2, <2>1 DEF Moves, mpdvars
<1>12. CASE CallStore \/ CallSong \/ SigPipe
  <2>1. UNCHANGED vars
    BY <1>12 DEF CallStore, CallSong, SigPipe
  <2> QED BY <1>2, <2>1 DEF Moves, mpdvars
<1>13. CASE CallNext \/ CallEntity
  <2>1. GetNextReturnElement \/ ClearDoneListOk \/ UNCHANGED vars
    BY <1>13 DEF CallNext, CallEntity
  <2> QED BY <1>2, <2>1 DEF Moves, mpdvars
<1>14. CASE CallHead \/ CallTail
  <2>1. GetNextReturnElement \/ BracketRefused \/ UNCHANGED vars
    BY <1>14 DEF CallHead, CallTail, EntityComplete, BracketRefused
  <2> QED BY <1>2, <2>1 DEF Moves, mpdvars
<1> QED BY <1>6, <1>7, <1>8, <1>9, <1>10, <1>11, <1>12, <1>13, <1>14 DEF ClientStep

\* MPD at work, or used by someone else.
LEMMA MpdKeepsPosition ==
  ASSUME TypeOK, mpd \in MpdStatus, AskedInv, Shaped(todo), PositionInv,
         MpdStep \/ OtherClient
  PROVE  Shaped(todo)' /\ PositionInv'
<1>1. UNCHANGED <<todo, status, conn>>
  BY DEF MpdStep, MpdAccept, MpdData, MpdListOK, MpdOK, MpdACK, OtherClient, MpdOther,
         Accept, EmitData, EmitListOK, EmitOK, EmitACK, Emit, vars
<1>2. UNCHANGED <<doneProcessing, commandList, listOks, doneListOk, returnElement, error>>
  BY <1>1 DEF conn
<1>3. /\ asked # {} => asked' # {}
      /\ \A m, st : Valid(m, st) => Valid(m, st)'
      /\ \A m, e : StatusElement(m, e) => StatusElement(m, e)'
  BY AskedGrows
<1>4. OtherClient => UNCHANGED <<requests, answers, mode, list, emitted>>
  BY DEF OtherClient, vars, server
<1>5. ASSUME NEW m \in {"single", "listing"}, m = "single" => asked # {}, Coming(m)
      PROVE  Coming(m)'
  <2>1. CASE MpdStep
    BY <1>5, <2>1, ServingKeepsComing
  <2>2. CASE OtherClient
    BY <1>3, <1>4, <1>5, <2>2 DEF Coming, Ahead, HalfSent, LastKind
  <2> QED BY <2>1, <2>2
<1>6. ASSUME NEW m \in {"single", "listing"}, Ending(m) PROVE Ending(m)'
  <2>1. CASE MpdStep
    BY <1>6, <2>1, ServingKeepsEnding
  <2>2. CASE OtherClient
    BY <1>4, <1>6, <2>2 DEF Ending, HalfSent, LastKind
  <2> QED BY <2>1, <2>2
<1>7. Opened => Opened'
  <2>1. CASE MpdStep
    BY <2>1, ServingKeepsOpened
  <2>2. CASE OtherClient
    BY <1>4, <2>2 DEF Opened
  <2> QED BY <2>1, <2>2
<1>8. \A m \in {"single", "listing"} : Due(m) => Due(m)'
  BY <1>2, <1>3 DEF Due
<1>9. ASSUME NEW m \in {"single", "listing"}, Asking(m) PROVE Asking(m)'
  <2>1. AtGet(m) => AtGet(m)'
    <3>1. SUFFICES ASSUME AtGet(m) PROVE AtGet(m)'
      OBVIOUS
    <3>2. Due(m)' /\ (m = "single" => asked # {})
      BY <1>8, <3>1 DEF AtGet, Due
    <3>3. Coming(m)'
      BY <1>5, <3>1, <3>2 DEF AtGet
    <3> QED BY <1>2, <3>1, <3>2, <3>3 DEF AtGet
  <2>2. AtScan(m) => AtScan(m)'
    BY <1>1, <1>2, <1>3, <1>6, <1>8 DEF AtScan
  <2> QED BY <1>1, <1>9, <2>1, <2>2 DEF Asking
<1>10. Stored => Stored'
  BY <1>1, <1>2, <1>3 DEF Stored
<1>11. Listing => Listing'
  BY <1>2 DEF Listing
<1>12. /\ Shaped(todo)'
       /\ \A k, what : Comes(todo, k, what)' = Comes(todo, k, what)
  BY <1>1
<1>13. StoreInv'
  BY <1>2, <1>9, <1>10, <1>12 DEF PositionInv, StoreInv
<1>14. SongInv'
  <2>1. Coming("listing") => Coming("listing")'
    BY <1>5
  <2>2. Asking("listing") => Asking("listing")'
    BY <1>9
  <2> QED BY <1>1, <1>2, <1>7, <1>11, <1>12, <2>1, <2>2 DEF PositionInv, SongInv
<1> QED BY <1>12, <1>13, <1>14 DEF PositionInv

\* Beginning an operation.
LEMMA StartKeepsPosition ==
  ASSUME PlaceInv, Shaped(todo), PositionInv, StartOperation
  PROVE  Shaped(todo)' /\ PositionInv'
<1>1. UNCHANGED vars /\ todo = <<>> /\ (Whole(todo') \/ UNCHANGED todo)
  <2>1. todo = <<>>
    BY DEF StartOperation, Update, Play, Stop, Pause, Seek, Jump, Djump, SetOption, DelCurrSong,
           PlClear, BrowserAdd, GetMpdDir, RefreshStats, StartOther, StartOp, Start
  <2> QED BY <2>1, StartsProgram, StartsWhole
<1>2. ~commandList'
  <2>1. \A k : ~Comes(<<>>, k, "song")
    BY DEF Comes
  <2>2. ~commandList
    BY <1>1, <2>1 DEF PositionInv, SongInv
  <2> QED BY <1>1, <2>2 DEF vars, conn
<1>3. Far(<<>>) /\ Shaped(<<>>)
  <2>1. \A k, what : ~Comes(<<>>, k, what)
    BY DEF Comes
  <2> QED BY <1>1, <2>1 DEF Far
<1>4. Far(todo)' /\ Shaped(todo)'
  <2>1. CASE Whole(todo')
    <3>1. Far(todo')
      BY <2>1, WholeFar
    <3> QED BY <2>1, <3>1 DEF Whole
  <2>2. CASE UNCHANGED todo
    BY <1>1, <1>3, <2>2
  <2> QED BY <1>1, <2>1, <2>2
<1> QED BY <1>2, <1>4, FarKeeps

\* The process is dead only after a failure of the transport.
CrashInv == crashed => todo = <<>> /\ (desynced \/ error \in Fault)

StatusInv ==
  /\ CrashInv /\ AskedInv
  /\ ~desynced => Shaped(todo) /\ QuietInv /\ PositionInv

\* What MPD was asked, and whether the process lives, after a library call.
LEMMA ClientKeepsAlive ==
  ASSUME PlaceInv, IInv, StatusInv, ClientStep
  PROVE  CrashInv' /\ AskedInv'
<1>1. todo # <<>> /\ ~crashed
  <2>1. todo # <<>>
    BY DEF ClientStep, CallSend, CallChoose, CallBegin, CallEnd, CallFinish, CallGet, CallScan,
           CallStore, CallSong, CallNext, CallEntity, CallHead, CallTail, SigPipe, At
  <2> QED BY <2>1 DEF StatusInv, CrashInv
<1>2. todo \in Seq(Call) /\ Head(todo) = todo[1]
  BY <1>1 DEF PlaceInv, Placed
<1>3. AskedInv'
  <2>1. mpd' = mpd /\ (asked' = asked \/ asked' = {mpd} \/ asked' = {})
    BY DEF ClientStep, CallSend, CallChoose, CallBegin, CallEnd, CallFinish, CallGet, CallScan,
           CallStore, CallSong, CallNext, CallEntity, CallHead, CallTail, SigPipe,
           SendCommand, Ordinary, mpdvars
  <2> QED BY <2>1 DEF StatusInv, AskedInv
<1>4. UNCHANGED crashed => CrashInv'
  <2>1. UNCHANGED crashed => ~crashed'
    BY <1>1
  <2> QED BY <2>1 DEF CrashInv
<1>5. ASSUME ~desynced
      PROVE  /\ serverUp /\ Shaped(todo)
             /\ todo[1].do = "store" => Stored
             /\ todo[1].do = "song" => status \in Status
  <2>1. Shaped(todo) /\ PositionInv /\ serverUp
    BY <1>5 DEF StatusInv, IInv, InStep
  <2>2. \A what : todo[1].do = what => Comes(todo, 0, what)
    BY <1>1, <1>2, <2>1, HeadPlaces
  <2> QED BY <2>1, <2>2 DEF PositionInv, StoreInv, SongInv
<1>6. CASE CallStore
  <2>1. /\ todo[1].do = "store" /\ UNCHANGED vars
        /\ UNCHANGED crashed \/ (error # "none" /\ todo' = <<>>)
    BY <1>2, <1>6 DEF CallStore, At
  <2>2. UNCHANGED <<error, desynced>>
    BY <2>1 DEF vars, conn
  <2>3. error # "none" => desynced \/ error \in Fault
    BY <1>5, <2>1 DEF Stored
  <2> QED BY <1>3, <1>4, <2>1, <2>2, <2>3 DEF CrashInv
<1>7. CASE CallSong
  <2>1. /\ todo[1].do = "song" /\ UNCHANGED vars
        /\ UNCHANGED crashed \/ (status = None /\ todo' = <<>>)
    BY <1>2, <1>7 DEF CallSong, At
  <2>2. UNCHANGED desynced
    BY <2>1 DEF vars
  <2>3. status = None => desynced
    BY <1>5, <2>1, NoneAssumption
  <2> QED BY <1>3, <1>4, <2>1, <2>2, <2>3 DEF CrashInv
<1>8. CASE SigPipe
  <2>1. /\ ~serverUp /\ UNCHANGED vars /\ todo' = <<>>
    BY <1>8 DEF SigPipe
  <2>2. UNCHANGED desynced
    BY <2>1 DEF vars
  <2> QED BY <1>3, <1>5, <2>1, <2>2 DEF CrashInv
<1>9. CASE /\ ~CallStore /\ ~CallSong /\ ~SigPipe
  <2>1. UNCHANGED crashed
    BY <1>9 DEF ClientStep, CallSend, CallChoose, CallBegin, CallEnd, CallFinish, CallGet,
                CallScan, CallNext, CallEntity, CallHead, CallTail, SendCommand, Ordinary
  <2> QED BY <1>3, <1>4, <2>1
<1> QED BY <1>6, <1>7, <1>8, <1>9

\* Every step.
LEMMA StatusStep ==
  ASSUME TypeOK, PlaceInv, IInv, StatusInv, [PlayerNext]_allvars
  PROVE  StatusInv'
<1>1. [Next]_vars
  BY PlaceStep
<1>2. ~desynced' => ~desynced
  <2>1. UNCHANGED vars => UNCHANGED desynced
    BY DEF vars
  <2> QED BY <1>1, <2>1, FaultsRemembered
<1>3. ~desynced => InStep /\ Shaped(todo) /\ QuietInv /\ PositionInv
  BY DEF IInv, StatusInv
<1>4. CrashInv /\ AskedInv /\ mpd \in MpdStatus
  BY DEF StatusInv, PlaceInv
<1>5. ASSUME UNCHANGED <<vars, emitted>> PROVE QuietInv => QuietInv'
  BY <1>5 DEF QuietInv, IdleInv, ListedInv, vars, conn, server
<1>6. CASE StartOperation
  <2>1. UNCHANGED <<vars, mpdvars, asked, crashed>> /\ ~crashed
    BY <1>6 DEF StartOperation, Update, Play, Stop, Pause, Seek, Jump, Djump, SetOption,
                DelCurrSong, PlClear, BrowserAdd, GetMpdDir, RefreshStats, StartOther, StartOp,
                Start
  <2>2. CrashInv' /\ AskedInv'
    BY <1>4, <2>1 DEF CrashInv, AskedInv, mpdvars
  <2>3. QuietInv => QuietInv'
    BY <1>5, <2>1 DEF mpdvars
  <2>4. ~desynced' => Shaped(todo)' /\ PositionInv'
    BY <1>2, <1>3, <1>6, StartKeepsPosition
  <2> QED BY <1>2, <1>3, <2>2, <2>3, <2>4 DEF StatusInv
<1>7. CASE ClientStep
  <2>1. CrashInv' /\ AskedInv'
    BY <1>7, ClientKeepsAlive
  <2>2. ASSUME ~desynced' PROVE Shaped(todo)' /\ QuietInv' /\ PositionInv'
    <3>1. InStep /\ Shaped(todo) /\ QuietInv /\ PositionInv
      BY <1>2, <1>3, <2>2
    <3>2. Shaped(todo)' /\ PositionInv'
      BY <1>7, <2>2, <3>1, ClientKeepsPosition
    <3>3. Moves /\ UNCHANGED emitted
      BY <1>7, <3>1, ClientMoves
    <3>4. QuietInv'
      BY <2>2, <3>1, <3>3, MovesKeepQuiet
    <3> QED BY <3>2, <3>4
  <2> QED BY <2>1, <2>2 DEF StatusInv
<1>8. CASE MpdStep \/ MpdClose \/ OtherClient
  <2>1. AskedInv'
    BY <1>4, <1>8, AskedGrows
  <2>2. UNCHANGED <<crashed, todo, error>> /\ (desynced => desynced')
    BY <1>8 DEF MpdStep, MpdAccept, MpdData, MpdListOK, MpdOK, MpdACK, MpdClose, OtherClient,
                MpdOther, Accept, EmitData, EmitListOK, EmitOK, EmitACK, Emit, ServerClose,
                vars, conn
  <2>3. CrashInv'
    BY <1>4, <2>2 DEF CrashInv
  <2>4. ASSUME ~desynced' PROVE Shaped(todo)' /\ QuietInv' /\ PositionInv'
    <3>1. InStep /\ Shaped(todo) /\ QuietInv /\ PositionInv
      BY <1>2, <1>3, <2>4
    <3>2. MpdStep \/ OtherClient
      BY <1>8, <2>4 DEF MpdClose, ServerClose
    <3>3. Shaped(todo)' /\ PositionInv'
      BY <1>4, <3>1, <3>2, MpdKeepsPosition
    <3>4. QuietInv'
      <4>1. CASE MpdStep
        BY <3>1, <4>1, ServingKeepsQuiet
      <4>2. CASE OtherClient
        BY <1>5, <3>1, <4>2 DEF OtherClient
      <4> QED BY <3>2, <4>1, <4>2
    <3> QED BY <3>3, <3>4
  <2> QED BY <2>1, <2>3, <2>4 DEF StatusInv
<1>9. CASE UNCHANGED allvars
  <2>1. UNCHANGED <<todo, status, crashed, asked, mpd, emitted>> /\ UNCHANGED vars
    BY <1>9 DEF allvars, client, mpdvars
  <2>2. UNCHANGED <<doneProcessing, commandList, listOks, doneListOk, returnElement, error,
                    requests, answers, mode, list, desynced>>
    BY <2>1 DEF vars, conn, server
  <2>3. QuietInv => QuietInv'
    BY <1>5, <2>1
  <2>4. CrashInv' /\ AskedInv'
    BY <1>4, <2>1, <2>2 DEF CrashInv, AskedInv
  <2>5. \A m : (Asking(m) => Asking(m)') /\ (Coming(m) => Coming(m)')
    BY <2>1, <2>2 DEF Asking, AtGet, AtScan, Due, Ending, Coming, Ahead, HalfSent,
                      StatusElement, Valid, LastKind
  <2>6. (Stored => Stored') /\ (Listing => Listing') /\ (Opened => Opened')
    BY <2>1, <2>2 DEF Stored, Valid, Listing, Opened
  <2>7. PositionInv => PositionInv'
    BY <2>1, <2>2, <2>5, <2>6 DEF PositionInv, StoreInv, SongInv
  <2>8. Shaped(todo) => Shaped(todo)'
    BY <2>1
  <2> QED BY <1>2, <1>3, <2>3, <2>4, <2>7, <2>8 DEF StatusInv
<1> QED BY <1>6, <1>7, <1>8, <1>9 DEF PlayerNext

\* At the start.
LEMMA InitStatus == PlayerInit => StatusInv
<1> SUFFICES ASSUME PlayerInit PROVE StatusInv
  OBVIOUS
<1>1. Whole(todo)
  BY UpdatesWhole, ConcatWhole DEF PlayerInit
<1>2. Shaped(todo) /\ Far(todo)
  BY <1>1, WholeFar DEF Whole
<1>3. Init /\ ~crashed /\ asked = {} /\ emitted = 0
  BY DEF PlayerInit
<1>4. PositionInv
  <2>1. /\ ~Comes(todo, 0, "store") /\ ~Comes(todo, 1, "store") /\ ~Comes(todo, 2, "store")
        /\ ~Comes(todo, 3, "store")
        /\ ~Comes(todo, 0, "song") /\ ~Comes(todo, 1, "song") /\ ~Comes(todo, 2, "song")
        /\ ~Comes(todo, 3, "song") /\ ~Comes(todo, 4, "song")
    BY <1>2 DEF Far
  <2>2. ~commandList
    BY <1>3 DEF Init
  <2> QED BY <2>1, <2>2 DEF PositionInv, StoreInv, SongInv
<1>5. QuietInv
  BY <1>3 DEF Init, QuietInv, IdleInv, ListedInv
<1> QED BY <1>2, <1>3, <1>4, <1>5 DEF StatusInv, CrashInv, AskedInv

\* All the invariants together.
LEMMA StatusInvHolds == PlayerSpec => [](TypeOK /\ PlaceInv /\ IInv /\ StatusInv)
<1>1. TypeOK /\ PlaceInv /\ IInv /\ StatusInv /\ [PlayerNext]_allvars => StatusInv'
  BY StatusStep
<1>2. PlayerSpec => []IInv
  BY ClientSpecHolds, InStepAlways DEF ClientSpec
<1> QED BY <1>1, <1>2, InitStatus, OwnInvHolds, PTL DEF PlayerSpec

\* Only a failure of the transport can kill the process.  As long as none has
\* happened, the status that mod_mpd_update_songinfo uses without a look is the
\* answer to its own question, read whole, and mod_mpd_update_status finds no
\* error to print: a refusal by MPD belongs to an earlier command, and its error
\* is gone when the next command is sent.
THEOREM CrashNeedsFaultHolds == PlayerSpec => []CrashNeedsFault
<1>1. StatusInv => CrashNeedsFault
  BY DEF StatusInv, CrashInv, Fault, CrashNeedsFault
<1> QED BY <1>1, StatusInvHolds, PTL

\* A status that mod_mpd_update_status stores was true of MPD at some moment
\* after it was asked for.
THEOREM StatusIsFreshHolds == PlayerSpec => StatusIsFresh
<1> DEFINE Fresh == player' # player => desynced \/ player' \in asked
<1>1. TypeOK /\ PlaceInv /\ IInv /\ StatusInv /\ [PlayerNext]_allvars => [Fresh]_allvars
  <2> SUFFICES ASSUME PlaceInv, StatusInv, PlayerNext, player' # player, ~desynced
               PROVE  player' \in asked
    BY DEF allvars, client
  <2>1. CallStore
    BY DEF PlayerNext, StartOperation, Update, Play, Stop, Pause, Seek, Jump, Djump, SetOption,
           DelCurrSong, PlClear, BrowserAdd, GetMpdDir, RefreshStats, StartOther, StartOp,
           Start, ClientStep, CallSend, CallChoose, CallBegin, CallEnd, CallFinish, CallGet,
           CallScan, CallSong, CallNext, CallEntity, CallHead, CallTail, SigPipe, SendCommand,
           Ordinary, MpdStep, MpdAccept, MpdData, MpdListOK, MpdOK, MpdACK, MpdClose,
           OtherClient, MpdOther
  <2>2. todo \in Seq(Call) /\ todo # <<>> /\ Head(todo) = todo[1]
    BY <2>1 DEF PlaceInv, Placed, CallStore, At
  <2>3. Comes(todo, 0, "store") /\ PositionInv
    <3>1. Shaped(todo) /\ PositionInv /\ todo[1].do = "store"
      BY <2>1, <2>2 DEF StatusInv, CallStore, At
    <3> QED BY <2>2, <3>1, HeadPlaces
  <2>4. Stored
    BY <2>3 DEF PositionInv, StoreInv
  <2>5. error = "none" /\ player' = status
    BY <2>1 DEF CallStore
  <2> QED BY <2>4, <2>5 DEF Stored, Fault, Valid
<1> QED BY <1>1, StatusInvHolds, PTL DEF PlayerSpec, StatusIsFresh

==============================================================================
