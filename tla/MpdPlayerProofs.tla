--------------------------- MODULE MpdPlayerProofs ---------------------------
(***************************************************************************)
(* Proofs about MpdPlayer: everyone who uses the shared connection meets   *)
(* the obligation of libmpdclient's caller, so that MpdPlayer implements   *)
(* MpdClient and inherits what is proved about it.                         *)
(***************************************************************************)
EXTENDS MpdPlayer, MpdClientProofs, SequenceTheorems

What == {"send", "get", "scan", "finish", "store", "choose", "begin", "end",
         "song", "next", "entity", "head", "tail"}
Argument == PlayerCommand \cup {"none", "one", "all"}
Call == {c \in [do : What, cmd : Argument] : c.do = "send" => c.cmd \in PlayerCommand}

\* Which call may stand behind which: a list is opened behind the end of
\* mod_mpd_update_status, and that comes behind a call that reads the answer
\* to its end.
Follows(c, d) ==
  /\ d.do = "begin" => c.do = "store"
  /\ d.do = "store" => c.do = "finish"

Placed(calls) ==
  /\ calls \in Seq(Call)
  /\ \A i \in 1..Len(calls) : i + 1 \in 1..Len(calls) => Follows(calls[i], calls[i + 1])

Opens(c) == c.do \in {"begin", "store"}

\* The operations that the module starts.
IsProgram(calls) == Placed(calls) /\ (calls # <<>> => ~Opens(calls[1]))

\* Where a list may be opened nothing is due.
PlaceInv ==
  /\ Placed(todo)
  /\ todo # <<>> /\ Opens(todo[1]) => doneProcessing
  /\ mpd \in MpdStatus

-----------------------------------------------------------------------------
(* The operations.                                                         *)

\* Every call that an operation is made of has its type.
LEMMA CallTypes ==
  /\ \A r \in PlayerCommand : Send(r) \in Call /\ Send(r).do = "send"
  /\ \A r \in PlayerCommand : Get(r) \in Call /\ Get(r).do = "get"
  /\ \A w \in What \ {"send"} : Do(w) \in Call /\ Do(w).do = w
  /\ \A r \in Argument : /\ [do |-> "entity", cmd |-> r] \in Call
                         /\ [do |-> "entity", cmd |-> r].do = "entity"
<1>1. ASSUME NEW r \in PlayerCommand PROVE Send(r) \in Call /\ Send(r).do = "send"
  <2>1. "send" \in What /\ r \in Argument
    BY DEF What, Argument
  <2> QED BY <2>1 DEF Send, Call
<1>2. ASSUME NEW r \in PlayerCommand PROVE Get(r) \in Call /\ Get(r).do = "get"
  <2>1. "get" \in What /\ r \in Argument
    BY DEF What, Argument
  <2> QED BY <2>1 DEF Get, Call
<1>3. ASSUME NEW w \in What \ {"send"} PROVE Do(w) \in Call /\ Do(w).do = w
  <2>1. "none" \in Argument
    BY DEF Argument
  <2> QED BY <2>1 DEF Do, Call
<1>4. ASSUME NEW r \in Argument
      PROVE  /\ [do |-> "entity", cmd |-> r] \in Call
             /\ [do |-> "entity", cmd |-> r].do = "entity"
  <2>1. "entity" \in What
    BY DEF What
  <2> QED BY <2>1 DEF Call
<1> QED BY <1>1, <1>2, <1>3, <1>4

\* Two sequences of calls that fit together.
LEMMA ConcatPlaced ==
  ASSUME NEW s, NEW t, Placed(s), Placed(t),
         s # <<>> /\ t # <<>> => Follows(s[Len(s)], t[1])
  PROVE  /\ Placed(s \o t)
         /\ s # <<>> => s \o t # <<>> /\ (s \o t)[1] = s[1]
         /\ Len(s \o t) = Len(s) + Len(t)
         /\ t # <<>> => (s \o t)[Len(s \o t)] = t[Len(t)]
<1>1. s \in Seq(Call) /\ t \in Seq(Call) /\ Len(s) \in Nat /\ Len(t) \in Nat
  BY DEF Placed
<1> DEFINE st == s \o t
<1>2. st \in Seq(Call) /\ Len(st) = Len(s) + Len(t)
  BY <1>1, ConcatProperties
<1>3. \A i \in 1..Len(s) : st[i] = s[i]
  BY <1>1, ConcatProperties
<1>4. \A i \in 1..Len(t) : st[Len(s) + i] = t[i]
  BY <1>1, ConcatProperties
<1>5. (s # <<>> => Len(s) > 0) /\ (t # <<>> => Len(t) > 0)
  BY <1>1, EmptySeq
<1> HIDE DEF st
<1>6. ASSUME NEW i \in 1..Len(st), i + 1 \in 1..Len(st)
      PROVE  Follows(st[i], st[i + 1])
  <2>1. CASE i + 1 <= Len(s)
    <3>1. i \in 1..Len(s) /\ i + 1 \in 1..Len(s)
      BY <1>1, <2>1
    <3>2. Follows(s[i], s[i + 1])
      BY <3>1 DEF Placed
    <3> QED BY <1>3, <3>1, <3>2
  <2>2. CASE i = Len(s)
    <3>1. i \in 1..Len(s) /\ 1 \in 1..Len(t) /\ s # <<>> /\ t # <<>>
      BY <1>1, <1>2, <1>6, <2>2, EmptySeq
    <3>2. st[i] = s[Len(s)] /\ st[i + 1] = t[1]
      BY <1>3, <1>4, <2>2, <3>1
    <3> QED BY <3>1, <3>2
  <2>3. CASE i > Len(s)
    <3> DEFINE j == i - Len(s)
    <3>1. j \in 1..Len(t) /\ j + 1 \in 1..Len(t) /\ i = Len(s) + j /\ i + 1 = Len(s) + (j + 1)
      BY <1>1, <1>2, <1>6, <2>3
    <3>2. Follows(t[j], t[j + 1])
      BY <3>1 DEF Placed
    <3>3. st[i] = t[j] /\ st[i + 1] = t[j + 1]
      BY <1>4, <3>1
    <3> QED BY <3>2, <3>3
  <2> QED BY <1>1, <1>2, <2>1, <2>2, <2>3
<1>7. Placed(st)
  BY <1>2, <1>6 DEF Placed
<1>8. s # <<>> => st # <<>> /\ st[1] = s[1]
  BY <1>1, <1>2, <1>3, <1>5, EmptySeq
<1>9. t # <<>> => st[Len(st)] = t[Len(t)]
  BY <1>1, <1>2, <1>4, <1>5
<1> QED BY <1>2, <1>7, <1>8, <1>9 DEF st

\* Programs put one behind the other.
LEMMA ConcatPrograms ==
  ASSUME NEW s, NEW t, IsProgram(s), IsProgram(t)
  PROVE  IsProgram(s \o t)
<1>1. s # <<>> /\ t # <<>> => Follows(s[Len(s)], t[1])
  BY DEF IsProgram, Opens, Follows
<1>2. CASE s = <<>>
  <2>1. s \o t = t
    BY <1>2, ConcatEmptySeq DEF IsProgram, Placed
  <2> QED BY <2>1
<1>3. CASE s # <<>>
  BY <1>1, <1>3, ConcatPlaced DEF IsProgram
<1> QED BY <1>2, <1>3

\* The empty operation, and one of a single call.
LEMMA ShortPrograms ==
  /\ IsProgram(<<>>)
  /\ \A c \in Call : ~Opens(c) => IsProgram(<<c>>)
<1>1. IsProgram(<<>>)
  BY DEF IsProgram, Placed
<1>2. ASSUME NEW c \in Call, ~Opens(c) PROVE IsProgram(<<c>>)
  BY <1>2 DEF IsProgram, Placed
<1> QED BY <1>1, <1>2

\* The two parts of the periodic update and what they consist of.
LEMMA UpdatePrograms ==
  /\ IsProgram(UpdateStatus)
  /\ Placed(UpdateSonginfo)
  /\ IsProgram(UpdateStatus \o UpdateSonginfo)
<1>1. /\ Do("finish") \in Call /\ Do("store") \in Call /\ Do("begin") \in Call
      /\ Do("end") \in Call /\ Do("song") \in Call
      /\ Do("finish").do = "finish" /\ Do("store").do = "store" /\ Do("begin").do = "begin"
      /\ Do("end").do = "end" /\ Do("song").do = "song"
  <2>1. {"finish", "store", "begin", "end", "song"} \subseteq What \ {"send"}
    BY DEF What
  <2> QED BY <2>1, CallTypes
<1>2. /\ Send("status") \in Call /\ Send("currentsong") \in Call /\ Get("status") \in Call
      /\ Send("status").do = "send" /\ Send("currentsong").do = "send"
      /\ Get("status").do = "get"
  <2>1. {"status", "currentsong"} \subseteq PlayerCommand
    BY DEF PlayerCommand
  <2> QED BY <2>1, CallTypes
<1>3. /\ Placed(UpdateStatus) /\ UpdateStatus # <<>> /\ UpdateStatus[1] = Do("finish")
      /\ UpdateStatus[Len(UpdateStatus)] = Do("store")
  <2>1. /\ UpdateStatus \in Seq(Call) /\ Len(UpdateStatus) = 5
    BY <1>1, <1>2 DEF UpdateStatus
  <2>2. /\ UpdateStatus[1] = Do("finish") /\ UpdateStatus[2] = Send("status")
        /\ UpdateStatus[3] = Get("status") /\ UpdateStatus[4] = Do("finish")
        /\ UpdateStatus[5] = Do("store")
    BY DEF UpdateStatus
  <2>3. \A i \in 1..4 : Follows(UpdateStatus[i], UpdateStatus[i + 1])
    <3>1. /\ Follows(UpdateStatus[1], UpdateStatus[2]) /\ Follows(UpdateStatus[2], UpdateStatus[3])
          /\ Follows(UpdateStatus[3], UpdateStatus[4]) /\ Follows(UpdateStatus[4], UpdateStatus[5])
      BY <1>1, <1>2, <2>2 DEF Follows
    <3> QED BY <3>1
  <2>4. Placed(UpdateStatus)
    BY <2>1, <2>3 DEF Placed
  <2>5. UpdateStatus # <<>>
    BY <2>1, EmptySeq
  <2> QED BY <2>1, <2>2, <2>4, <2>5
<1>4. /\ Placed(UpdateSonginfo) /\ UpdateSonginfo # <<>> /\ UpdateSonginfo[1] = Do("begin")
  <2>1. /\ UpdateSonginfo \in Seq(Call) /\ Len(UpdateSonginfo) = 6
    BY <1>1, <1>2 DEF UpdateSonginfo
  <2>2. /\ UpdateSonginfo[1] = Do("begin") /\ UpdateSonginfo[2] = Send("status")
        /\ UpdateSonginfo[3] = Send("currentsong") /\ UpdateSonginfo[4] = Do("end")
        /\ UpdateSonginfo[5] = Get("status") /\ UpdateSonginfo[6] = Do("song")
    BY DEF UpdateSonginfo
  <2>3. \A i \in 1..5 : Follows(UpdateSonginfo[i], UpdateSonginfo[i + 1])
    <3>1. /\ Follows(UpdateSonginfo[1], UpdateSonginfo[2])
          /\ Follows(UpdateSonginfo[2], UpdateSonginfo[3])
          /\ Follows(UpdateSonginfo[3], UpdateSonginfo[4])
          /\ Follows(UpdateSonginfo[4], UpdateSonginfo[5])
          /\ Follows(UpdateSonginfo[5], UpdateSonginfo[6])
      BY <1>1, <1>2, <2>2 DEF Follows
    <3> QED BY <3>1
  <2>4. Placed(UpdateSonginfo)
    BY <2>1, <2>3 DEF Placed
  <2>5. UpdateSonginfo # <<>>
    BY <2>1, EmptySeq
  <2> QED BY <2>1, <2>2, <2>4, <2>5
<1>5. Follows(Do("store"), Do("begin"))
  BY <1>1 DEF Follows
<1>6. IsProgram(UpdateStatus)
  BY <1>1, <1>3 DEF IsProgram, Opens
<1>7. IsProgram(UpdateStatus \o UpdateSonginfo)
  <2>1. /\ Placed(UpdateStatus \o UpdateSonginfo)
        /\ (UpdateStatus \o UpdateSonginfo)[1] = UpdateStatus[1]
    BY <1>3, <1>4, <1>5, ConcatPlaced
  <2> QED BY <1>1, <1>3, <2>1 DEF IsProgram, Opens
<1> QED BY <1>4, <1>6, <1>7
\* The calls that open nothing, one by one and in the short sequences in which
\* the operations use them.
LEMMA PlainPrograms ==
  /\ \A r \in PlayerCommand : IsProgram(<<Send(r)>>) /\ IsProgram(Simple(r))
  /\ IsProgram(<<Do("finish")>>) /\ IsProgram(<<Do("choose")>>)
  /\ IsProgram(<<Do("choose"), Do("finish")>>)
  /\ IsProgram(<<Do("finish"), Send("lsinfo"), [do |-> "entity", cmd |-> "all"], Do("finish")>>)
  /\ IsProgram(<<Do("finish"), Send("stats"), Get("stats"), Do("finish")>>)
  /\ IsProgram(<<Do("next"), [do |-> "entity", cmd |-> "one"], Do("finish")>>)
<1>1. /\ Do("finish") \in Call /\ ~Opens(Do("finish"))
      /\ Do("choose") \in Call /\ ~Opens(Do("choose"))
  <2>1. {"finish", "choose"} \subseteq What \ {"send"}
    BY DEF What
  <2> QED BY <2>1, CallTypes DEF Opens
<1>2. \A r \in PlayerCommand : /\ Send(r) \in Call /\ ~Opens(Send(r))
                               /\ Get(r) \in Call /\ ~Opens(Get(r))
  BY CallTypes DEF Opens
<1>3. /\ [do |-> "entity", cmd |-> "all"] \in Call
      /\ ~Opens([do |-> "entity", cmd |-> "all"])
  <2>1. "all" \in Argument
    BY DEF Argument
  <2> QED BY <2>1, CallTypes DEF Opens
<1>4. \A c, d \in Call : ~Opens(c) /\ ~Opens(d) => IsProgram(<<c, d>>)
  BY DEF IsProgram, Placed, Follows, Opens
<1>6. ASSUME NEW c \in Call, NEW d \in Call, NEW e \in Call,
             ~Opens(c), ~Opens(d), ~Opens(e)
      PROVE  IsProgram(<<c, d, e, c>>)
  <2> DEFINE calls == <<c, d, e, c>>
  <2>1. calls \in Seq(Call) /\ Len(calls) = 4
    OBVIOUS
  <2>2. calls[1] = c /\ calls[2] = d /\ calls[3] = e /\ calls[4] = c
    OBVIOUS
  <2> HIDE DEF calls
  <2>3. \A i \in 1..4 : ~Opens(calls[i])
    BY <1>6, <2>2
  <2>4. Placed(calls)
    BY <2>1, <2>3 DEF Placed, Follows, Opens
  <2>5. IsProgram(calls)
    BY <2>1, <2>3, <2>4 DEF IsProgram
  <2> QED BY <2>5 DEF calls
<1>7. {"lsinfo", "stats"} \subseteq PlayerCommand
  BY DEF PlayerCommand
<1>8. \A r \in PlayerCommand : IsProgram(<<Send(r)>>)
  BY <1>2, ShortPrograms
<1>9. \A r \in PlayerCommand : IsProgram(Simple(r))
  BY <1>1, <1>2, <1>4 DEF Simple
<1>10. IsProgram(<<Do("finish")>>) /\ IsProgram(<<Do("choose")>>)
  BY <1>1, ShortPrograms
<1>11. IsProgram(<<Do("choose"), Do("finish")>>)
  BY <1>1, <1>4
<1>12. IsProgram(<<Do("finish"), Send("lsinfo"), [do |-> "entity", cmd |-> "all"], Do("finish")>>)
  BY <1>1, <1>2, <1>3, <1>6, <1>7
<1>13. IsProgram(<<Do("finish"), Send("stats"), Get("stats"), Do("finish")>>)
  BY <1>1, <1>2, <1>6, <1>7
<1>14. IsProgram(<<Do("next"), [do |-> "entity", cmd |-> "one"], Do("finish")>>)
  <2> DEFINE calls == <<Do("next"), [do |-> "entity", cmd |-> "one"], Do("finish")>>
  <2>1. Do("next") \in Call /\ ~Opens(Do("next"))
    <3>1. "next" \in What \ {"send"}
      BY DEF What
    <3> QED BY <3>1, CallTypes DEF Opens
  <2>2. /\ [do |-> "entity", cmd |-> "one"] \in Call
        /\ ~Opens([do |-> "entity", cmd |-> "one"])
    <3>1. "one" \in Argument
      BY DEF Argument
    <3> QED BY <3>1, CallTypes DEF Opens
  <2>3. calls \in Seq(Call) /\ Len(calls) = 3
    BY <1>1, <2>1, <2>2
  <2>4. \A i \in 1..3 : ~Opens(calls[i])
    BY <1>1, <2>1, <2>2
  <2> HIDE DEF calls
  <2>5. Placed(calls)
    BY <2>3, <2>4 DEF Placed, Follows, Opens
  <2>6. IsProgram(calls)
    BY <2>3, <2>4, <2>5 DEF IsProgram
  <2> QED BY <2>6 DEF calls
<1> QED BY <1>8, <1>9, <1>10, <1>11, <1>12, <1>13, <1>14

\* Every operation that the module starts is a program.
LEMMA StartsProgram ==
  ASSUME StartOperation
  PROVE  UNCHANGED <<vars, mpd>> /\ (IsProgram(todo') \/ UNCHANGED todo)
<1> DEFINE Begun(calls) == todo' = calls /\ UNCHANGED <<vars, mpd>>
<1>1. \A name, calls : Start(name, calls) => Begun(calls)
  BY DEF Start, mpdvars
<1>2. /\ \A name, calls : StartOp(name, calls) => Begun(calls)
      /\ \A calls : StartOther(calls) => Begun(calls)
  BY <1>1 DEF StartOp, StartOther
<1> HIDE DEF Begun
<1>3. {"play", "stop", "pause", "resume", "set", "delete", "clear", "add"} \subseteq PlayerCommand
  BY DEF PlayerCommand
<1>4. ASSUME NEW calls, Begun(calls), IsProgram(calls)
      PROVE  UNCHANGED <<vars, mpd>> /\ IsProgram(todo')
  BY <1>4 DEF Begun
<1>5. CASE Update
  BY <1>2, <1>4, <1>5, UpdatePrograms DEF Update
<1>6. CASE Play
  <2>1. IsProgram(UpdateStatus \o <<Do("choose"), Do("finish")>>)
    BY UpdatePrograms, PlainPrograms, ConcatPrograms
  <2> QED BY <1>2, <1>4, <1>6, <2>1 DEF Play
<1>7. CASE Stop
  <2>1. IsProgram(Simple("stop") \o UpdateStatus)
    BY <1>3, UpdatePrograms, PlainPrograms, ConcatPrograms
  <2> QED BY <1>2, <1>4, <1>7, <2>1 DEF Stop
<1>8. CASE Pause
  <2> DEFINE first == CASE player.state = "pause" -> <<Send("resume")>>
                        [] player.state = "play" -> <<Send("pause")>>
                        [] OTHER -> <<>>
  <2>1. Begun(first \o <<Do("finish")>> \o UpdateStatus)
    BY <1>2, <1>8 DEF Pause
  <2>2. first \in {<<Send("resume")>>, <<Send("pause")>>, <<>>}
    OBVIOUS
  <2>3. IsProgram(first)
    BY <1>3, <2>2, PlainPrograms, ShortPrograms
  <2> HIDE DEF first
  <2>4. IsProgram(first \o <<Do("finish")>>)
    BY <2>3, PlainPrograms, ConcatPrograms
  <2>5. IsProgram(first \o <<Do("finish")>> \o UpdateStatus)
    BY <2>4, UpdatePrograms, ConcatPrograms
  <2> QED BY <1>4, <2>1, <2>5
<1>9. CASE Seek
  <2>1. IsProgram(Simple("set") \o UpdateStatus)
    BY <1>3, UpdatePrograms, PlainPrograms, ConcatPrograms
  <2>2. CASE Start("other", Simple("set") \o UpdateStatus)
    BY <1>1, <1>4, <2>1, <2>2
  <2>3. CASE UNCHANGED <<vars, todo, status, player, crashed, op, asked, mpdvars>>
    BY <2>3 DEF mpdvars
  <2> QED BY <1>9, <2>2, <2>3 DEF Seek
<1>10. CASE Jump
  <2> DEFINE paused == IF player.state = "pause" THEN <<Send("pause")>> ELSE <<>>
  <2>1. Begun(Simple("play") \o paused \o <<Do("finish")>>)
    BY <1>2, <1>10 DEF Jump
  <2>2. paused \in {<<Send("pause")>>, <<>>}
    OBVIOUS
  <2>3. IsProgram(paused)
    BY <1>3, <2>2, PlainPrograms, ShortPrograms
  <2> HIDE DEF paused
  <2>4. IsProgram(Simple("play") \o paused)
    BY <1>3, <2>3, PlainPrograms, ConcatPrograms
  <2>5. IsProgram(Simple("play") \o paused \o <<Do("finish")>>)
    BY <2>4, PlainPrograms, ConcatPrograms
  <2> QED BY <1>4, <2>1, <2>5
<1>11. CASE Djump
  BY <1>2, <1>3, <1>4, <1>11, PlainPrograms DEF Djump
<1>12. CASE SetOption \/ DelCurrSong \/ PlClear
  BY <1>2, <1>3, <1>4, <1>12, PlainPrograms DEF SetOption, DelCurrSong, PlClear
<1>13. CASE BrowserAdd
  <2>1. IsProgram(<<Do("finish")>> \o Simple("add"))
    BY <1>3, PlainPrograms, ConcatPrograms
  <2> QED BY <1>2, <1>4, <1>13, <2>1 DEF BrowserAdd
<1>14. CASE GetMpdDir
  BY <1>2, <1>4, <1>14, PlainPrograms DEF GetMpdDir
<1>15. CASE RefreshStats
  BY <1>2, <1>4, <1>15, PlainPrograms DEF RefreshStats
<1> QED BY <1>5, <1>6, <1>7, <1>8, <1>9, <1>10, <1>11, <1>12, <1>13, <1>14, <1>15
        DEF StartOperation
-----------------------------------------------------------------------------
(* The steps.                                                              *)

\* What is left of an operation after its first call, or with the first call
\* turned into a later part of itself.
LEMMA RestPlaced ==
  ASSUME Placed(todo), todo # <<>>
  PROVE  /\ Placed(Tail(todo))
         /\ Tail(todo) # <<>> => Follows(todo[1], Tail(todo)[1])
         /\ Head(todo) = todo[1] /\ todo[1] \in Call
         /\ ~Opens(todo[1]) /\ todo[1].do # "finish" =>
              \A w \in What \ {"begin", "store", "send"} :
                LET new == <<[Head(todo) EXCEPT !.do = w]>> \o Tail(todo) IN
                  Placed(new) /\ ~Opens(new[1])
<1>1. todo \in Seq(Call) /\ Len(todo) \in Nat \ {0}
  BY EmptySeq DEF Placed
<1>2. /\ Tail(todo) \in Seq(Call) /\ Len(Tail(todo)) = Len(todo) - 1
      /\ \A i \in 1..Len(todo) - 1 : Tail(todo)[i] = todo[i + 1]
  BY <1>1
<1>3. Head(todo) = todo[1] /\ todo[1] \in Call
  BY <1>1
<1>4. Placed(Tail(todo))
  <2>1. ASSUME NEW i \in 1..Len(todo) - 1, i + 1 \in 1..Len(todo) - 1
        PROVE  Follows(Tail(todo)[i], Tail(todo)[i + 1])
    <3>1. i + 1 \in 1..Len(todo) /\ (i + 1) + 1 \in 1..Len(todo)
      BY <1>1, <2>1
    <3>2. Follows(todo[i + 1], todo[(i + 1) + 1])
      BY <3>1 DEF Placed
    <3> QED BY <1>2, <2>1, <3>2
  <2> QED BY <1>2, <2>1 DEF Placed
<1>5. Tail(todo) # <<>> => Follows(todo[1], Tail(todo)[1])
  <2>1. SUFFICES ASSUME Tail(todo) # <<>> PROVE Follows(todo[1], Tail(todo)[1])
    OBVIOUS
  <2>2. 1 \in 1..Len(todo) - 1
    BY <1>1, <1>2, <2>1, EmptySeq
  <2>3. 1 \in 1..Len(todo) /\ 1 + 1 \in 1..Len(todo)
    BY <1>1, <2>2
  <2>4. Follows(todo[1], todo[1 + 1])
    BY <2>3 DEF Placed
  <2> QED BY <1>2, <2>2, <2>4
<1>6. ASSUME ~Opens(todo[1]), todo[1].do # "finish",
             NEW w \in What \ {"begin", "store", "send"}
      PROVE  LET new == <<[Head(todo) EXCEPT !.do = w]>> \o Tail(todo) IN
               Placed(new) /\ ~Opens(new[1])
  <2> DEFINE c == [Head(todo) EXCEPT !.do = w]
  <2>1. c \in Call /\ c.do = w
    BY <1>3 DEF Call
  <2> HIDE DEF c
  <2>2. ~Opens(c)
    BY <2>1 DEF Opens
  <2>3. Placed(<<c>>) /\ <<c>> # <<>> /\ <<c>>[Len(<<c>>)] = c /\ <<c>>[1] = c
    BY <2>1 DEF Placed
  <2>4. Tail(todo) # <<>> => Follows(c, Tail(todo)[1])
    BY <1>5, <1>6 DEF Follows, Opens
  <2>5. Placed(<<c>> \o Tail(todo)) /\ (<<c>> \o Tail(todo))[1] = c
    BY <1>4, <2>3, <2>4, ConcatPlaced
  <2> QED BY <2>2, <2>5 DEF c
<1> QED BY <1>3, <1>4, <1>5, <1>6

\* The commands that MPD carries out leave it in one of its states.
LEMMA EffectType ==
  ASSUME mpd \in MpdStatus, NEW r
  PROVE  Effect(r) \in MpdStatus
<1>1. /\ mpd.state \in State /\ mpd.length \in 0..MaxLength
      /\ mpd = [state |-> mpd.state, length |-> mpd.length]
      /\ mpd.length = 0 => mpd.state = "stop"
  BY DEF MpdStatus, Status
<1>2. MaxLength \in Nat /\ State = {"stop", "play", "pause"}
  BY PlayerAssumption DEF State
<1>3. \A s \in State, n \in 0..MaxLength :
        (n = 0 => s = "stop") => [state |-> s, length |-> n] \in MpdStatus
  BY DEF MpdStatus, Status
<1>4. mpd.length > 0 => [mpd EXCEPT !.state = "play"] \in MpdStatus
  BY <1>1, <1>2, <1>3
<1>5. mpd.state # "stop" => [mpd EXCEPT !.state = "pause"] \in MpdStatus
  BY <1>1, <1>2, <1>3
<1>6. [mpd EXCEPT !.state = "stop"] \in MpdStatus
  BY <1>1, <1>2, <1>3
<1>7. [state |-> "stop", length |-> 0] \in MpdStatus
  BY <1>2, <1>3
<1>8. mpd.length > 1 => [mpd EXCEPT !.length = @ - 1] \in MpdStatus
  BY <1>1, <1>2, <1>3
<1>9. mpd.length < MaxLength /\ mpd.length > 0 => [mpd EXCEPT !.length = @ + 1] \in MpdStatus
  BY <1>1, <1>2, <1>3
<1>10. mpd.length < MaxLength /\ mpd.length = 0 => [mpd EXCEPT !.length = @ + 1] \in MpdStatus
  BY <1>1, <1>2, <1>3
<1> QED
  BY <1>1, <1>2, <1>4, <1>5, <1>6, <1>7, <1>8, <1>9, <1>10 DEF Effect

\* The ways in which a library call goes on with the operation.
LEMMA GoesOn ==
  ASSUME PlaceInv, todo # <<>>, mpd' = mpd,
         \/ Return /\ todo[1].do \notin {"finish", "store"}
         \/ Return /\ doneProcessing'
         \/ Stay /\ ~Opens(todo[1])
         \/ /\ \E w \in {"scan", "head", "tail", "entity"} : Become(w)
            /\ ~Opens(todo[1]) /\ todo[1].do # "finish"
         \/ todo' = <<>>
         \/ IsProgram(todo')
  PROVE  PlaceInv'
<1>1. Placed(todo) /\ mpd' \in MpdStatus
  BY DEF PlaceInv
<1>2. CASE Return /\ todo[1].do \notin {"finish", "store"}
  BY <1>1, <1>2, RestPlaced DEF PlaceInv, Return, Follows, Opens
<1>3. CASE Return /\ doneProcessing'
  BY <1>1, <1>3, RestPlaced DEF PlaceInv, Return
<1>4. CASE Stay /\ ~Opens(todo[1])
  BY <1>1, <1>4 DEF PlaceInv, Stay
<1>5. ASSUME NEW w \in {"scan", "head", "tail", "entity"}, Become(w),
             ~Opens(todo[1]), todo[1].do # "finish"
      PROVE  PlaceInv'
  <2>1. w \in What \ {"begin", "store", "send"}
    BY DEF What
  <2>2. Placed(todo') /\ ~Opens(todo'[1])
    BY <1>1, <1>5, <2>1, RestPlaced DEF Become
  <2> QED BY <1>1, <2>2 DEF PlaceInv
<1>6. CASE todo' = <<>>
  BY <1>1, <1>6, ShortPrograms DEF PlaceInv, IsProgram
<1>7. CASE IsProgram(todo')
  BY <1>1, <1>7 DEF PlaceInv, IsProgram
<1> QED BY <1>2, <1>3, <1>4, <1>5, <1>6, <1>7

\* Every step of the daemon is one that libmpdclient allows its caller, and it
\* leaves the rest of the operation in its order.
LEMMA ClientStepRefines ==
  ASSUME PlaceInv, ClientStep
  PROVE  PlaceInv' /\ (Next \/ UNCHANGED vars)
<1>1. todo # <<>> /\ Head(todo) = todo[1] /\ todo[1] \in Call /\ Placed(todo)
  <2>1. todo # <<>>
    BY DEF ClientStep, CallSend, CallChoose, CallBegin, CallEnd, CallFinish, CallGet,
           CallScan, CallStore, CallSong, CallNext, CallEntity, CallHead, CallTail, SigPipe, At
  <2> QED BY <2>1, RestPlaced DEF PlaceInv
<1>2. \A w : At(w) => todo[1].do = w
  BY <1>1 DEF At
<1>3. Ordinary => mpd' = mpd
  BY DEF Ordinary, mpdvars
<1>4. ASSUME NEW r \in Command, SendCommand(r), ~Opens(todo[1]), todo[1].do # "finish"
      PROVE  PlaceInv' /\ Next
  <2>1. Return /\ mpd' = mpd /\ ExecuteCommand(r)
    BY <1>4 DEF SendCommand, mpdvars
  <2>2. PlaceInv'
    BY <1>1, <1>4, <2>1, GoesOn DEF Opens
  <2> QED BY <2>1, <2>2 DEF Next, Caller
<1>5. CASE CallSend
  <2>1. todo[1].do = "send" /\ SendCommand(todo[1].cmd)
    BY <1>1, <1>2, <1>5 DEF CallSend
  <2>2. todo[1].cmd \in Command
    BY <1>1, <2>1, PlayerAssumption DEF Call
  <2> QED BY <1>4, <2>1, <2>2 DEF Opens
<1>6. CASE CallChoose
  <2> DEFINE r == CASE player.state = "pause" -> "resume"
                    [] player.state = "play" -> "set"
                    [] OTHER -> "play"
  <2>1. todo[1].do = "choose" /\ SendCommand(r)
    BY <1>2, <1>6 DEF CallChoose
  <2>2. r \in Command
    BY PlayerAssumption DEF PlayerCommand
  <2> HIDE DEF r
  <2> QED BY <1>4, <2>1, <2>2 DEF Opens
<1>7. CASE CallBegin
  <2>1. todo[1].do = "begin" /\ SendCommandListOkBegin /\ Return /\ mpd' = mpd
    BY <1>2, <1>3, <1>7 DEF CallBegin
  <2>2. doneProcessing
    BY <1>1, <2>1 DEF PlaceInv, Opens
  <2>3. PlaceInv'
    BY <1>1, <2>1, GoesOn
  <2> QED BY <2>1, <2>2, <2>3 DEF Next, Caller
<1>8. CASE CallEnd
  <2>1. todo[1].do = "end" /\ SendCommandListEnd /\ Return /\ mpd' = mpd
    BY <1>2, <1>3, <1>8 DEF CallEnd
  <2>2. PlaceInv'
    BY <1>1, <2>1, GoesOn
  <2> QED BY <2>1, <2>2 DEF Next, Caller
<1>9. CASE CallFinish
  <2>1. todo[1].do = "finish" /\ mpd' = mpd
    BY <1>2, <1>3, <1>9 DEF CallFinish
  <2>2. \/ doneProcessing' /\ Return /\ UNCHANGED vars
        \/ ClearDoneListOk /\ Stay
        \/ GetNextReturnElement /\ Stay
    BY <1>9 DEF CallFinish, vars, conn
  <2>3. PlaceInv'
    BY <1>1, <2>1, <2>2, GoesOn DEF Opens
  <2> QED BY <2>2, <2>3 DEF Next, Caller
<1>10. CASE CallGet
  <2>1. todo[1].do = "get" /\ mpd' = mpd
    BY <1>2, <1>3, <1>10 DEF CallGet
  <2>2. \/ Return /\ UNCHANGED vars
        \/ Become("scan") /\ (GetNextReturnElement \/ UNCHANGED vars)
    BY <1>10 DEF CallGet
  <2>3. PlaceInv'
    BY <1>1, <2>1, <2>2, GoesOn DEF Opens
  <2> QED BY <2>2, <2>3 DEF Next, Caller
<1>11. CASE CallScan
  <2>1. todo[1].do = "scan" /\ mpd' = mpd
    BY <1>2, <1>3, <1>11 DEF CallScan
  <2>2. \/ Return /\ (UNCHANGED vars \/ BracketRefused)
        \/ Stay /\ GetNextReturnElement
    BY <1>11 DEF CallScan, BracketRefused
  <2>3. PlaceInv'
    BY <1>1, <2>1, <2>2, GoesOn DEF Opens
  <2> QED BY <2>2, <2>3 DEF Next, Caller
<1>12. CASE CallStore
  <2>1. todo[1].do = "store" /\ mpd' = mpd /\ UNCHANGED vars /\ (Return \/ todo' = <<>>)
    BY <1>2, <1>12 DEF CallStore, mpdvars
  <2>2. doneProcessing'
    BY <1>1, <2>1 DEF PlaceInv, Opens, vars, conn
  <2>3. PlaceInv'
    BY <1>1, <2>1, <2>2, GoesOn
  <2> QED BY <2>1, <2>3
<1>13. CASE CallSong
  <2>1. todo[1].do = "song" /\ mpd' = mpd /\ UNCHANGED vars
    BY <1>2, <1>13 DEF CallSong, mpdvars
  <2>2. Return \/ todo' = <<>> \/ IsProgram(todo')
    BY <1>13, PlainPrograms DEF CallSong, Return
  <2>3. PlaceInv'
    BY <1>1, <2>1, <2>2, GoesOn
  <2> QED BY <2>1, <2>3
<1>14. CASE CallNext
  <2>1. todo[1].do = "next" /\ mpd' = mpd
    BY <1>2, <1>3, <1>14 DEF CallNext
  <2>2. (Return \/ Stay) /\ (GetNextReturnElement \/ ClearDoneListOk \/ UNCHANGED vars)
    BY <1>14 DEF CallNext
  <2>3. PlaceInv'
    BY <1>1, <2>1, <2>2, GoesOn DEF Opens
  <2> QED BY <2>2, <2>3 DEF Next, Caller
<1>15. CASE CallEntity
  <2>1. todo[1].do = "entity" /\ mpd' = mpd
    BY <1>2, <1>3, <1>15 DEF CallEntity
  <2>2. (Return \/ Become("head")) /\ (GetNextReturnElement \/ UNCHANGED vars)
    BY <1>15 DEF CallEntity
  <2>3. PlaceInv'
    BY <1>1, <2>1, <2>2, GoesOn DEF Opens
  <2> QED BY <2>2, <2>3 DEF Next, Caller
<1>16. CASE CallHead
  <2>1. todo[1].do = "head" /\ mpd' = mpd
    BY <1>2, <1>3, <1>16 DEF CallHead
  <2>2. /\ Return \/ Become("tail")
        /\ GetNextReturnElement \/ BracketRefused \/ UNCHANGED vars
    BY <1>16 DEF CallHead, BracketRefused
  <2>3. PlaceInv'
    BY <1>1, <2>1, <2>2, GoesOn DEF Opens
  <2> QED BY <2>2, <2>3 DEF Next, Caller
<1>17. CASE CallTail
  <2>1. todo[1].do = "tail" /\ mpd' = mpd
    BY <1>2, <1>3, <1>17 DEF CallTail
  <2>2. (Return \/ Stay \/ Become("entity")) /\ (GetNextReturnElement \/ UNCHANGED vars)
    BY <1>17 DEF CallTail, EntityComplete
  <2>3. PlaceInv'
    BY <1>1, <2>1, <2>2, GoesOn DEF Opens
  <2> QED BY <2>2, <2>3 DEF Next, Caller
<1>18. CASE SigPipe
  <2>1. todo' = <<>> /\ mpd' = mpd /\ UNCHANGED vars
    BY <1>18 DEF SigPipe, mpdvars
  <2>2. PlaceInv'
    BY <1>1, <2>1, GoesOn
  <2> QED BY <2>1, <2>2
<1> QED BY <1>5, <1>6, <1>7, <1>8, <1>9, <1>10, <1>11, <1>12, <1>13, <1>14, <1>15, <1>16,
           <1>17, <1>18 DEF ClientStep

\* So is every step of MPD and of its other clients.
LEMMA MpdStepRefines ==
  ASSUME PlaceInv, MpdStep \/ MpdClose \/ OtherClient
  PROVE  PlaceInv' /\ (Next \/ UNCHANGED vars)
<1>1. mpd \in MpdStatus
  BY DEF PlaceInv
<1>2. MpdOther => todo' = todo
  BY DEF MpdOther
<1>3. ASSUME UNCHANGED todo, UNCHANGED doneProcessing, mpd' \in MpdStatus
      PROVE  PlaceInv'
  BY <1>3 DEF PlaceInv
<1>4. CASE MpdAccept
  <2>1. Accept /\ UNCHANGED <<todo, doneProcessing, mpd>>
    BY <1>2, <1>4 DEF MpdAccept, Accept, conn
  <2> QED BY <1>1, <1>3, <2>1 DEF Next, Server
<1>5. CASE MpdData
  <2> DEFINE e == CASE Head(list) = "status" -> [kind |-> "status", val |-> mpd]
                    [] Head(list) = "stats" -> [kind |-> "stats"]
                    [] OTHER -> [kind |-> "file"]
  <2>1. EmitData(e) /\ UNCHANGED <<todo, mpd>>
    BY <1>2, <1>5 DEF MpdData
  <2>2. e \in Element
    <3>1. [kind |-> "status", val |-> mpd] \in PlayerElement
      BY <1>1 DEF PlayerElement, MpdStatus
    <3>2. [kind |-> "stats"] \in PlayerElement /\ [kind |-> "file"] \in PlayerElement
      BY DEF PlayerElement
    <3> QED BY <3>1, <3>2, PlayerAssumption
  <2> HIDE DEF e
  <2>3. UNCHANGED doneProcessing
    BY <2>1 DEF EmitData, Emit, conn
  <2> QED BY <1>1, <1>3, <2>1, <2>2, <2>3 DEF Next, Server
<1>6. CASE MpdListOK
  <2>1. EmitListOK /\ UNCHANGED <<todo, doneProcessing>> /\ mpd' = Effect(Head(list))
    BY <1>2, <1>6 DEF MpdListOK, EmitListOK, Emit, SetMpd, conn
  <2> QED BY <1>1, <1>3, <2>1, EffectType DEF Next, Server
<1>7. CASE MpdOK
  <2>1. /\ EmitOK /\ UNCHANGED <<todo, doneProcessing>>
        /\ mpd' = mpd \/ mpd' = Effect(Head(list))
    BY <1>2, <1>7 DEF MpdOK, EmitOK, Emit, SetMpd, conn
  <2> QED BY <1>1, <1>3, <2>1, EffectType DEF Next, Server
<1>8. CASE MpdACK
  <2>1. EmitACK /\ UNCHANGED <<todo, doneProcessing, mpd>>
    BY <1>2, <1>8 DEF MpdACK, EmitACK, Emit, conn
  <2> QED BY <1>1, <1>3, <2>1 DEF Next, Server
<1>9. CASE MpdClose
  <2>1. ServerClose /\ UNCHANGED <<todo, doneProcessing, mpd>>
    BY <1>2, <1>9 DEF MpdClose, ServerClose, conn
  <2> QED BY <1>1, <1>3, <2>1 DEF Next, Server
<1>10. CASE OtherClient
  <2>1. UNCHANGED vars /\ UNCHANGED todo /\ mpd' \in MpdStatus
    BY <1>2, <1>10 DEF OtherClient, SetMpd
  <2> QED BY <1>3, <2>1 DEF vars, conn
<1> QED BY <1>4, <1>5, <1>6, <1>7, <1>8, <1>9, <1>10 DEF MpdStep

\* Every step at all is one of the connection, or leaves it alone.
LEMMA PlaceStep ==
  ASSUME PlaceInv, [PlayerNext]_allvars
  PROVE  PlaceInv' /\ [Next]_vars
<1>1. CASE StartOperation
  <2>1. UNCHANGED <<vars, mpd>> /\ (IsProgram(todo') \/ UNCHANGED todo)
    BY <1>1, StartsProgram
  <2>2. UNCHANGED doneProcessing
    BY <2>1 DEF vars, conn
  <2> QED BY <2>1, <2>2 DEF PlaceInv, IsProgram
<1>2. CASE ClientStep
  BY <1>2, ClientStepRefines
<1>3. CASE MpdStep \/ MpdClose \/ OtherClient
  BY <1>3, MpdStepRefines
<1>4. CASE UNCHANGED allvars
  <2>1. UNCHANGED <<vars, todo, mpd>>
    BY <1>4 DEF allvars, client, mpdvars
  <2>2. UNCHANGED doneProcessing
    BY <2>1 DEF vars, conn
  <2> QED BY <2>1, <2>2 DEF PlaceInv
<1> QED BY <1>1, <1>2, <1>3, <1>4 DEF PlayerNext

-----------------------------------------------------------------------------
(* The theorems.                                                           *)

\* mod_mpd, mod_browser and mod_lcdproc together meet the obligation of
\* libmpdclient's caller, whatever the messages are, in whatever order they
\* come, and whatever MPD and the transport do: mpd_sendCommandListOkBegin,
\* which lets a command through without looking, is called only when nothing
\* is due, and everything on the connection is a step of MpdClient.
THEOREM ClientSpecHolds == PlayerSpec => ClientSpec
<1>1. PlayerInit => PlaceInv /\ Init
  BY UpdatePrograms DEF PlayerInit, PlaceInv, IsProgram
<1>2. PlaceInv /\ [PlayerNext]_allvars => PlaceInv' /\ [Next]_vars
  BY PlaceStep
<1> QED BY <1>1, <1>2, PTL DEF PlayerSpec, ClientSpec, Spec

\* What is proved about the connection holds when these modules use it.
COROLLARY PlayerLockstep == PlayerSpec => []Lockstep
BY ClientSpecHolds, LockstepHolds DEF ClientSpec

\* So is what is proved about its command lists: the update reads exactly the
\* list_OK lines that its list brings.
COROLLARY PlayerListOks == PlayerSpec => ListOksExact
BY ClientSpecHolds, ListOksExactHolds DEF ClientSpec
=============================================================================
