---------------------------- MODULE LcdLinkProofs ----------------------------
(***************************************************************************)
(* Proofs about LcdLink: however LCDd answers and the socket cuts, for any *)
(* number of keys, connections and buffered lines, and for displays of any *)
(* size, no key is made up, and the causes of a crash are the known ones.  *)
(***************************************************************************)
EXTENDS LcdLink, SequenceTheorems, TLAPS

\* A key line has the number of its press.
KeysNumbered == \A i \in 1..Len(arrived) : arrived[i].kind = "key" => arrived[i].nr # 0

TypeInv == LinkTypeOK /\ KeysNumbered

-----------------------------------------------------------------------------
(* Type correctness.                                                       *)

\* The callbacks are sequences of steps.
LEMMA CallbackTypes ==
  /\ Setup \in Seq(Step) /\ Settmp \in Seq(Step) /\ <<"drain">> \in Seq(Step)
  /\ Refresh \subseteq Seq(Step) /\ Message \subseteq Seq(Step) /\ Reloading \subseteq Seq(Step)
<1>1. Setup \in Seq(Step) /\ Settmp \in Seq(Step) /\ <<"drain">> \in Seq(Step)
  BY DEF Setup, Settmp, Step
<1>2. Refresh \subseteq Seq(Step)
  BY DEF Refresh, Step
<1>3. <<"time">> \in Seq(Step) /\ <<"stale">> \in Seq(Step) /\ <<>> \in Seq(Step)
  BY DEF Step
<1>4. \A r \in Refresh : Settmp \o r \in Seq(Step) /\ Setup \o r \in Seq(Step)
  <2> SUFFICES ASSUME NEW r \in Refresh PROVE Settmp \o r \in Seq(Step) /\ Setup \o r \in Seq(Step)
    OBVIOUS
  <2>1. r \in Seq(Step)
    BY <1>2
  <2> QED BY <1>1, <2>1, ConcatProperties
<1>5. Message \subseteq Seq(Step)
  BY <1>1, <1>2, <1>3, <1>4 DEF Message
<1>6. Reloading \subseteq Seq(Step)
  BY <1>4 DEF Reloading
<1> QED BY <1>1, <1>2, <1>5, <1>6

\* What readline leaves is what was behind the line.
LEMMA ReadlineKeeps ==
  ASSUME TypeInv, Readline
  PROVE  /\ arrived' \in Seq(Line) /\ Len(arrived') <= MaxArrived
         /\ KeysNumbered' /\ cut' \in {"whole", "waiting", "taken"}
<1>1. arrived \in Seq(Line) /\ Len(arrived) \in Nat /\ Len(arrived) <= MaxArrived
  BY DEF TypeInv, LinkTypeOK
<1>2. cut' \in {"whole", "waiting", "taken"}
  BY DEF Readline, TypeInv, LinkTypeOK
<1>3. CASE arrived = <<>>
  BY <1>1, <1>2, <1>3 DEF Readline, TypeInv, KeysNumbered
<1>4. CASE arrived # <<>>
  <2>1. arrived' = Tail(arrived)
    BY <1>4 DEF Readline
  <2>2. /\ Tail(arrived) \in Seq(Line) /\ Len(Tail(arrived)) = Len(arrived) - 1
        /\ \A i \in 1..Len(Tail(arrived)) : Tail(arrived)[i] = arrived[i + 1]
    BY <1>1, <1>4
  <2>3. \A i \in 1..Len(Tail(arrived)) : i + 1 \in 1..Len(arrived)
    BY <1>1, <2>2
  <2> QED BY <1>1, <1>2, <2>1, <2>2, <2>3, LinkAssumption DEF TypeInv, KeysNumbered
<1> QED BY <1>3, <1>4

\* A new or a given-up connection holds nothing.
LEMMA LinkKeeps ==
  ASSUME NEW state \in {"open", "shut"}, Link(state)
  PROVE  /\ peer' \in {"open", "closed", "reset", "shut"} /\ session' = "new"
         /\ unread' \in Seq({"hello", "cmd", "keys"}) /\ Len(unread') <= MaxUnread
         /\ arrived' \in Seq(Line) /\ Len(arrived') <= MaxArrived
         /\ cut' \in {"whole", "waiting", "taken"} /\ KeysNumbered'
<1>1. <<>> \in Seq({"hello", "cmd", "keys"}) /\ <<>> \in Seq(Line) /\ Len(<<>>) = 0
  BY EmptySeq
<1> QED BY <1>1, LinkAssumption DEF Link, KeysNumbered

\* A line that LCDd sends, the number of a key being a press.
LEMMA EmitKeeps ==
  ASSUME TypeInv, NEW line \in Line, Emit(line), line.kind = "key" => line.nr # 0
  PROVE  /\ arrived' \in Seq(Line) /\ Len(arrived') <= MaxArrived
         /\ cut' \in {"whole", "waiting", "taken"} /\ KeysNumbered'
<1>1. arrived \in Seq(Line) /\ Len(arrived) \in Nat /\ Len(arrived) < MaxArrived
      /\ arrived' = Append(arrived, line) /\ KeysNumbered
  BY DEF Emit, TypeInv, LinkTypeOK
<1>2. /\ arrived' \in Seq(Line) /\ Len(arrived') = Len(arrived) + 1
      /\ \A i \in 1..Len(arrived') : arrived'[i] = IF i <= Len(arrived) THEN arrived[i] ELSE line
  BY <1>1
<1>3. Len(arrived') <= MaxArrived
  BY <1>1, <1>2, LinkAssumption
<1>4. KeysNumbered'
  BY <1>1, <1>2 DEF KeysNumbered
<1> QED BY <1>2, <1>3, <1>4 DEF Emit

\* A command that is written.
LEMMA WriteKeeps ==
  ASSUME TypeInv, NEW command \in {"hello", "cmd", "keys"}, Write(command)
  PROVE  /\ unread' \in Seq({"hello", "cmd", "keys"}) /\ Len(unread') <= MaxUnread
         /\ peer' \in {"open", "closed", "reset", "shut"}
         /\ phase' \in {"select", "dispatch", "update", "dead"}
<1>1. /\ unread \in Seq({"hello", "cmd", "keys"}) /\ Len(unread) \in Nat /\ Len(unread) <= MaxUnread
      /\ peer \in {"open", "closed", "reset", "shut"}
      /\ phase \in {"select", "dispatch", "update", "dead"}
  BY DEF TypeInv, LinkTypeOK
<1>2. unread' = unread \/ (unread' = Append(unread, command) /\ Len(unread) < MaxUnread)
  BY DEF Write
<1>3. unread' \in Seq({"hello", "cmd", "keys"}) /\ Len(unread') <= MaxUnread
  <2>1. /\ Append(unread, command) \in Seq({"hello", "cmd", "keys"})
        /\ Len(Append(unread, command)) = Len(unread) + 1
    BY <1>1
  <2> QED BY <1>1, <1>2, <2>1, LinkAssumption
<1>4. peer' \in {"open", "closed", "reset", "shut"} /\ phase' \in {"select", "dispatch", "update", "dead"}
  BY <1>1 DEF Write
<1> QED BY <1>3, <1>4

\* No connection, or a new one with the setup before it.
LEMMA LinkTypeInit == LinkInit => TypeInv
<1> SUFFICES ASSUME LinkInit PROVE TypeInv
  OBVIOUS
<1>1. /\ <<>> \in Seq(Step) /\ <<>> \in Seq({"hello", "cmd", "keys"}) /\ <<>> \in Seq(Line)
      /\ <<>> \in Seq(1..MaxKeys) /\ Len(<<>>) = 0
  BY EmptySeq
<1>2. todo \in Seq(Step)
  BY <1>1, CallbackTypes DEF LinkInit
<1>3. attempts \in 0..MaxAttempts /\ keys \in 0..MaxKeys
  BY LinkAssumption DEF LinkInit
<1>4. connected \in BOOLEAN /\ polled = connected /\ display \in Display
  <2>1. connected \in BOOLEAN /\ polled = connected
    BY Zenon DEF LinkInit
  <2> QED BY <2>1 DEF LinkInit, NoDisplay, Display
<1>5. unread = <<>> /\ arrived = <<>> /\ posted = <<>>
  BY DEF LinkInit
<1>6. KeysNumbered
  BY <1>1, <1>5 DEF KeysNumbered
<1>7. /\ phase \in {"select", "dispatch", "update", "dead"}
      /\ peer \in {"open", "closed", "reset", "shut"}
      /\ session \in {"new", "greeted", "listening"} /\ cut \in {"whole", "waiting", "taken"}
  BY DEF LinkInit
<1>8. Len(unread) <= MaxUnread /\ Len(arrived) <= MaxArrived
  BY <1>1, <1>5, LinkAssumption
<1> QED BY <1>1, <1>2, <1>3, <1>4, <1>5, <1>6, <1>7, <1>8 DEF TypeInv, LinkTypeOK

\* A step of a callback leaves fewer to make, or a wait in the place of one.
LEMMA TodoKeeps ==
  ASSUME TypeInv, todo # <<>>
  PROVE  /\ Tail(todo) \in Seq(Step) /\ <<"wait">> \o Tail(todo) \in Seq(Step)
         /\ ReadOn \subseteq Seq(Step)
<1>1. todo \in Seq(Step) /\ Tail(todo) \in Seq(Step) /\ <<"wait">> \in Seq(Step)
  BY DEF TypeInv, LinkTypeOK, Step
<1>2. <<"wait">> \o Tail(todo) \in Seq(Step)
  BY <1>1, ConcatProperties
<1>3. ReadOn \subseteq Seq(Step)
  BY <1>1 DEF ReadOn
<1> QED BY <1>1, <1>2, <1>3

\* What a step that writes a command changes.
LEMMA WritingKeeps ==
  ASSUME TypeInv, NEW command \in {"hello", "cmd", "keys"}, Write(command), todo' \in Seq(Step),
         UNCHANGED <<module, counters, session, arrived, cut, posted>>
  PROVE  TypeInv'
<1>1. /\ unread' \in Seq({"hello", "cmd", "keys"}) /\ Len(unread') <= MaxUnread
      /\ peer' \in {"open", "closed", "reset", "shut"}
      /\ phase' \in {"select", "dispatch", "update", "dead"}
  BY WriteKeeps
<1> QED BY <1>1 DEF TypeInv, LinkTypeOK, KeysNumbered, module, counters

\* What a step that only goes on in its callback changes.
LEMMA GoingOnKeeps ==
  ASSUME TypeInv, todo' \in Seq(Step), phase' \in {"select", "dispatch", "update", "dead"},
         UNCHANGED <<module, counters, link, posted>>
  PROVE  TypeInv'
BY DEF TypeInv, LinkTypeOK, KeysNumbered, module, counters, link

\* The main program's steps but reading.
LEMMA DrawingTypes ==
  ASSUME TypeInv, NotConnected \/ Hello \/ Sendtext \/ PadLine \/ WildWrite
  PROVE  TypeInv'
<1>1. todo \in Seq(Step) /\ phase \in {"select", "dispatch", "update", "dead"}
  BY DEF TypeInv, LinkTypeOK
<1>2. CASE NotConnected \/ PadLine
  <2>1. todo # <<>> /\ todo' = Tail(todo) /\ phase' = phase
    BY <1>2 DEF NotConnected, PadLine, At
  <2> QED BY <1>1, <1>2, <2>1, TodoKeeps, GoingOnKeeps DEF NotConnected, PadLine
<1>3. CASE WildWrite
  BY <1>1, <1>3, GoingOnKeeps DEF WildWrite
<1>4. CASE Hello
  <2>1. todo # <<>> /\ todo' = Tail(todo)
    BY <1>4 DEF Hello, At
  <2> QED BY <1>4, <2>1, TodoKeeps, WritingKeeps DEF Hello
<1>5. CASE Sendtext
  <2>1. PICK step \in {"cmd", "keys", "status", "time", "stale"} :
          At(step) /\ Write(IF step = "keys" THEN "keys" ELSE "cmd")
    BY <1>5 DEF Sendtext
  <2>2. todo # <<>> /\ todo' = <<"wait">> \o Tail(todo)
    BY <1>5, <2>1 DEF Sendtext, At
  <2> QED BY <1>5, <2>1, <2>2, TodoKeeps, WritingKeeps DEF Sendtext
<1> QED BY <1>2, <1>3, <1>4, <1>5

\* A skipped line.
LEMMA SkipTypes ==
  ASSUME TypeInv, Skip
  PROVE  TypeInv'
<1>1. /\ arrived' \in Seq(Line) /\ Len(arrived') <= MaxArrived
      /\ KeysNumbered' /\ cut' \in {"whole", "waiting", "taken"}
  BY ReadlineKeeps DEF Skip
<1>2. todo' \in Seq(Step)
  BY TodoKeeps DEF Skip, At
<1> QED BY <1>1, <1>2 DEF Skip, TypeInv, LinkTypeOK, module, counters

\* A connection that is given up, by the daemon or in a reload.
LEMMA ConnectingTypes ==
  ASSUME TypeInv, NEW up \in BOOLEAN, connected' = up, polled' = up,
         NEW state \in {"open", "shut"}, Link(state),
         phase' \in {"select", "dispatch", "update", "dead"}, todo' \in Seq(Step),
         display' \in Display, attempts' \in 0..MaxAttempts, keys' = keys, posted' \in Seq(1..MaxKeys)
  PROVE  TypeInv'
<1>1. /\ peer' \in {"open", "closed", "reset", "shut"} /\ session' = "new"
      /\ unread' \in Seq({"hello", "cmd", "keys"}) /\ Len(unread') <= MaxUnread
      /\ arrived' \in Seq(Line) /\ Len(arrived') <= MaxArrived
      /\ cut' \in {"whole", "waiting", "taken"} /\ KeysNumbered'
  BY LinkKeeps
<1>2. connected' \in BOOLEAN /\ polled' = connected'
  BY Zenon
<1>3. keys' \in 0..MaxKeys
  BY DEF TypeInv, LinkTypeOK
<1> QED BY <1>1, <1>2, <1>3 DEF TypeInv, LinkTypeOK

\* A line understood, or the end of the connection noticed.
LEMMA PollTypes ==
  ASSUME TypeInv, Poll
  PROVE  TypeInv'
<1>1. /\ todo' = todo /\ todo \in Seq(Step) /\ phase' = "dispatch" /\ UNCHANGED <<attempts, keys>>
      /\ attempts \in 0..MaxAttempts /\ display \in Display /\ posted \in Seq(1..MaxKeys)
  BY DEF Poll, TypeInv, LinkTypeOK, counters
<1>2. ASSUME Disconnect, display' \in Display, posted' \in Seq(1..MaxKeys) PROVE TypeInv'
  BY <1>1, <1>2, ConnectingTypes DEF Disconnect
<1>3. CASE ~Whole
  <2>1. Disconnect /\ display' = display /\ posted' = posted
    BY <1>3 DEF Poll
  <2>2. display' \in Display
    BY <1>1, <2>1, Zenon
  <2> QED BY <1>1, <1>2, <2>1, <2>2
<1>4. CASE Whole
  <2> DEFINE line == Head(arrived)
  <2>1. arrived # <<>> /\ Understand(line)
    BY <1>4 DEF Poll, Whole
  <2>2. line \in Line /\ line = arrived[1] /\ 1 \in 1..Len(arrived)
    BY <2>1 DEF TypeInv, LinkTypeOK
  <2>3. line.kind = "key" => line.nr \in 1..MaxKeys
    BY <2>2, LinkAssumption DEF TypeInv, KeysNumbered, Line
  <2>4. posted' \in Seq(1..MaxKeys)
    <3>1. posted' = posted \/ (line.kind = "key" /\ posted' = Append(posted, line.nr))
      BY <2>1 DEF Understand
    <3>2. \A n \in 1..MaxKeys : Append(posted, n) \in Seq(1..MaxKeys)
      BY <1>1
    <3> QED BY <1>1, <2>3, <3>1, <3>2, Zenon
  <2>5. display' \in Display
    BY <1>1, <2>1, LinkAssumption DEF Understand
  <2>6. CASE line.kind = "bye"
    BY <1>2, <2>1, <2>4, <2>5, <2>6 DEF Understand
  <2>7. CASE line.kind # "bye"
    <3>1. Readline /\ UNCHANGED <<connected, polled, peer, session, unread>>
      BY <2>1, <2>7 DEF Understand
    <3>2. /\ arrived' \in Seq(Line) /\ Len(arrived') <= MaxArrived
          /\ KeysNumbered' /\ cut' \in {"whole", "waiting", "taken"}
      BY <3>1, ReadlineKeeps
    <3> QED BY <1>1, <2>4, <2>5, <3>1, <3>2 DEF TypeInv, LinkTypeOK
  <2> QED BY <2>6, <2>7
<1> QED BY <1>3, <1>4

\* The turns of the main loop.
LEMMA TurnTypes ==
  ASSUME TypeInv, NothingToPoll \/ Dispatch \/ Update
  PROVE  TypeInv'
<1>1. todo \in Seq(Step)
  BY DEF TypeInv, LinkTypeOK
<1>2. CASE NothingToPoll
  BY <1>1, <1>2, GoingOnKeeps DEF NothingToPoll
<1>3. CASE Dispatch
  BY <1>3, CallbackTypes, GoingOnKeeps DEF Dispatch
<1>4. CASE Update
  <2>1. PICK tmp \in {<<>>, Settmp}, r \in Refresh : todo' = tmp \o r \o <<"drain">>
    BY <1>4 DEF Update
  <2>2. tmp \in Seq(Step) /\ r \in Seq(Step)
    BY CallbackTypes, EmptySeq
  <2>3. tmp \o r \in Seq(Step)
    BY <2>2, ConcatProperties
  <2>4. todo' \in Seq(Step)
    BY <2>1, <2>3, CallbackTypes, ConcatProperties
  <2> QED BY <1>4, <2>4, GoingOnKeeps DEF Update
<1> QED BY <1>2, <1>3, <1>4

\* Another connection, or none.
LEMMA ReloadTypes ==
  ASSUME TypeInv, Reload
  PROVE  TypeInv'
<1>1. /\ UNCHANGED <<phase, display, keys, posted>> /\ attempts' \in 0..MaxAttempts
      /\ phase \in {"select", "dispatch", "update", "dead"} /\ posted \in Seq(1..MaxKeys)
      /\ todo \in Seq(Step)
  BY LinkAssumption DEF Reload, TypeInv, LinkTypeOK
<1>2. display' \in Display
  BY <1>1, Zenon DEF TypeInv, LinkTypeOK
<1>3. CASE Connect /\ todo' \in Reloading
  <2>1. todo' \in Seq(Step)
    BY <1>3, CallbackTypes
  <2> QED BY <1>1, <1>2, <1>3, <2>1, ConnectingTypes DEF Connect
<1>4. CASE Disconnect /\ UNCHANGED todo
  BY <1>1, <1>2, <1>4, ConnectingTypes DEF Disconnect
<1> QED BY <1>3, <1>4 DEF Reload

\* A line that LCDd sends, whatever happens to the commands it has not read.
LEMMA EmittingKeeps ==
  ASSUME TypeInv, NEW line \in Line, Emit(line), line.kind = "key" => line.nr # 0,
         UNCHANGED <<program, module, attempts, peer, posted>>,
         keys' \in 0..MaxKeys, session' \in {"new", "greeted", "listening"},
         unread' \in Seq({"hello", "cmd", "keys"}), Len(unread') <= MaxUnread
  PROVE  TypeInv'
<1>1. /\ arrived' \in Seq(Line) /\ Len(arrived') <= MaxArrived
      /\ cut' \in {"whole", "waiting", "taken"} /\ KeysNumbered'
  BY EmitKeeps
<1> QED BY <1>1 DEF TypeInv, LinkTypeOK, program, module

\* The lines that carry nothing.
LEMMA PlainType == \A kind \in {"success", "connect", "bye", "other"} :
  Plain(kind) \in Line /\ Plain(kind).kind = kind
BY LinkAssumption DEF Plain, Line

\* LCDd and the network.
LEMMA ServerTypes ==
  ASSUME TypeInv, Answer \/ PressKey \/ Notify \/ Complete \/ Close
  PROVE  TypeInv'
<1>1. /\ unread \in Seq({"hello", "cmd", "keys"}) /\ Len(unread) \in Nat /\ Len(unread) <= MaxUnread
      /\ session \in {"new", "greeted", "listening"} /\ keys \in 0..MaxKeys
      /\ arrived \in Seq(Line) /\ Len(arrived) \in Nat
  BY DEF TypeInv, LinkTypeOK
<1>2. CASE Answer
  <2>1. /\ unread' \in Seq({"hello", "cmd", "keys"}) /\ Len(unread') <= MaxUnread
        /\ session' \in {"new", "greeted", "listening"} /\ keys' \in 0..MaxKeys
        /\ UNCHANGED <<program, module, attempts, peer, posted>>
    BY <1>1, <1>2, LinkAssumption DEF Answer, counters
  <2>2. \E kind \in {"success", "connect", "other"} : Emit(Plain(kind))
    BY <1>2 DEF Answer
  <2> QED BY <2>1, <2>2, PlainType, EmittingKeeps
<1>3. CASE PressKey
  <2> DEFINE line == [kind |-> "key", nr |-> keys + 1]
  <2>1. keys' = keys + 1 /\ keys' \in 0..MaxKeys /\ keys < MaxKeys /\ Emit(line)
    BY <1>1, <1>3, LinkAssumption DEF PressKey
  <2>2. line \in Line /\ line.nr # 0
    BY <1>1, <2>1, LinkAssumption DEF Line
  <2> QED BY <1>1, <1>3, <2>1, <2>2, EmittingKeeps DEF PressKey
<1>4. CASE Notify
  <2>1. \E kind \in {"other", "bye"} : Emit(Plain(kind))
    BY <1>4 DEF Notify
  <2>2. keys' = keys /\ UNCHANGED <<program, module, attempts, peer, posted, session, unread>>
    BY <1>4 DEF Notify, counters
  <2> QED BY <1>1, <2>1, <2>2, PlainType, EmittingKeeps
<1>5. CASE Complete
  <2>1. arrived' = arrived \/ (arrived' = Append(arrived, Plain("other")) /\ Len(arrived) < MaxArrived)
    BY <1>5 DEF Complete
  <2>2. arrived' \in Seq(Line) /\ Len(arrived') <= MaxArrived /\ KeysNumbered'
    <3>1. CASE arrived' = arrived
      BY <1>1, <3>1 DEF TypeInv, LinkTypeOK, KeysNumbered
    <3>2. CASE arrived' = Append(arrived, Plain("other")) /\ Len(arrived) < MaxArrived
      <4>1. Plain("other") \in Line /\ Plain("other").kind = "other"
        BY PlainType
      <4>2. /\ arrived' \in Seq(Line) /\ Len(arrived') = Len(arrived) + 1
            /\ \A i \in 1..Len(arrived') :
                 arrived'[i] = IF i <= Len(arrived) THEN arrived[i] ELSE Plain("other")
        BY <1>1, <3>2, <4>1
      <4> QED BY <1>1, <3>2, <4>1, <4>2, LinkAssumption DEF TypeInv, KeysNumbered
    <3> QED BY <2>1, <3>1, <3>2
  <2> QED BY <1>5, <2>2 DEF Complete, TypeInv, LinkTypeOK, program, module, counters
<1>6. CASE Close
  BY <1>6 DEF Close, TypeInv, LinkTypeOK, KeysNumbered, program, module, counters
<1> QED BY <1>2, <1>3, <1>4, <1>5, <1>6

\* Each step of the daemon, LCDd or the network.
LEMMA LinkTypeNext == TypeInv /\ [LinkNext]_lvars => TypeInv'
<1> SUFFICES ASSUME TypeInv, [LinkNext]_lvars PROVE TypeInv'
  OBVIOUS
<1>1. CASE DaemonStep
  BY <1>1, DrawingTypes, SkipTypes, PollTypes, TurnTypes DEF DaemonStep
<1>2. CASE Reload
  BY <1>2, ReloadTypes
<1>3. CASE ReadStdin
  BY <1>3, TodoKeeps, GoingOnKeeps DEF ReadStdin, At, TypeInv, LinkTypeOK
<1>4. CASE Answer \/ PressKey \/ Notify \/ Complete \/ Close
  BY <1>4, ServerTypes
<1>5. CASE UNCHANGED lvars
  BY <1>5, GoingOnKeeps DEF lvars, program, TypeInv, LinkTypeOK
<1> QED BY <1>1, <1>2, <1>3, <1>4, <1>5 DEF LinkNext, Environment

\* Every reachable state of the link is well typed.
THEOREM LinkTypeCorrect == LinkSpec => []LinkTypeOK
<1>1. TypeInv => LinkTypeOK
  BY DEF TypeInv
<1> QED BY <1>1, LinkTypeInit, LinkTypeNext, PTL DEF LinkSpec

-----------------------------------------------------------------------------
(* The cause of a crash.                                                   *)

\* The descriptor in use is that of a connection.
CauseInv == (connected => peer # "shut") /\ CrashNeedsCause

\* No connection is known to be lost at the start.
LEMMA CauseInit == LinkInit => CauseInv
BY DEF LinkInit, CauseInv, CrashNeedsCause

\* A write kills the process only behind a reset.
LEMMA WriteKeepsCause ==
  ASSUME TypeInv, CauseInv, Running, connected, NEW command, Write(command), UNCHANGED module
  PROVE  CauseInv'
<1>1. connected' = connected /\ display' = display
  BY DEF module
<1>2. \/ peer' = peer /\ phase' = phase
      \/ peer' = "reset"
      \/ peer' = peer /\ peer # "open" /\ peer # "closed"
  BY DEF Write
<1>3. peer' # "shut"
  BY <1>2 DEF CauseInv
<1>4. CASE peer' = peer /\ phase' = phase
  BY <1>1, <1>3, <1>4 DEF CauseInv, CrashNeedsCause, Running
<1>5. CASE peer' = "reset"
  BY <1>3, <1>5 DEF CauseInv, CrashNeedsCause
<1>6. CASE peer' = peer /\ peer # "open" /\ peer # "closed"
  <2>1. peer = "reset"
    BY <1>6 DEF CauseInv, TypeInv, LinkTypeOK
  <2> QED BY <1>5, <1>6, <2>1
<1> QED BY <1>2, <1>4, <1>5, <1>6

\* Where text does not fit its buffer the display is not roomy.
LEMMA WildWriteHasCause ==
  ASSUME TypeInv, CauseInv, WildWrite
  PROVE  CauseInv'
<1>1. UNCHANGED <<todo, display, connected, peer>>
  BY DEF WildWrite, module, link
<1>2. display.wid \in 0..127 /\ display.hgt \in Nat
  BY DEF TypeInv, LinkTypeOK, Display
<1>3. todo # <<>>
  BY DEF WildWrite, At
<1>4. CASE Head(todo) = "stale"
  BY <1>1, <1>3, <1>4 DEF CauseInv, CrashNeedsCause
<1>5. CASE Head(todo) # "stale"
  <2>1. \/ ~PadFits \/ ~FillRuns \/ StatusSpills
        \/ \E length \in TimeTexts : ~Centred(length)
    BY <1>5 DEF WildWrite, At
  <2>2. ~Roomy(display)
    <3>1. CASE ~PadFits
      BY <1>2, <3>1 DEF PadFits, Roomy
    <3>2. CASE ~FillRuns
      BY <1>2, <3>2 DEF FillRuns, Roomy
    <3>3. CASE StatusSpills
      <4>1. CASE Preserved
        BY <3>3, <4>1 DEF StatusSpills, Roomy
      <4>2. CASE \E length \in StatusTexts : length > display.wid
        <5>1. PICK length \in StatusTexts : length > display.wid
          BY <4>2
        <5>2. length \in Nat /\ ~(length <= display.wid)
          BY <1>2, <5>1, LinkAssumption
        <5> QED BY <3>3, <5>2 DEF StatusSpills, Roomy
      <4> QED BY <3>3, <4>1, <4>2 DEF StatusSpills
    <3>4. CASE \E length \in TimeTexts : ~Centred(length)
      BY <3>4 DEF Centred, Roomy
    <3> QED BY <2>1, <3>1, <3>2, <3>3, <3>4
  <2> QED BY <1>1, <2>2 DEF CauseInv, CrashNeedsCause
<1> QED BY <1>4, <1>5

\* Each step keeps the cause.
LEMMA CauseNext == TypeInv /\ CauseInv /\ [LinkNext]_lvars => CauseInv'
<1> SUFFICES ASSUME TypeInv, CauseInv, [LinkNext]_lvars PROVE CauseInv'
  OBVIOUS
<1>1. ASSUME UNCHANGED <<program, module, peer>> PROVE CauseInv'
  BY <1>1 DEF CauseInv, CrashNeedsCause, program, module
<1>2. CASE NotConnected \/ PadLine \/ Skip \/ ReadStdin
  <2>1. Running /\ UNCHANGED <<phase, module, peer>>
    BY <1>2 DEF NotConnected, PadLine, Skip, ReadStdin, At, link
  <2> QED BY <2>1 DEF Running, CauseInv, CrashNeedsCause, module
<1>3. CASE WildWrite
  BY <1>3, WildWriteHasCause DEF CauseInv
<1>4. CASE Hello
  BY <1>4, WriteKeepsCause DEF Hello, At
<1>5. CASE Sendtext
  BY <1>5, WriteKeepsCause DEF Sendtext, At
<1>6. CASE Poll
  <2>1. phase' = "dispatch"
    BY <1>6 DEF Poll
  <2>2. Disconnect \/ UNCHANGED <<connected, peer>>
    BY <1>6 DEF Poll, Understand
  <2> QED BY <2>1, <2>2 DEF CauseInv, CrashNeedsCause, Disconnect
<1>7. CASE NothingToPoll \/ Dispatch \/ Update
  BY <1>7 DEF NothingToPoll, Dispatch, Update, CauseInv, CrashNeedsCause, module, link
<1>8. CASE Reload
  BY <1>8 DEF Reload, Between, Connect, Disconnect, Link, CauseInv, CrashNeedsCause
<1>9. CASE Answer \/ PressKey \/ Notify \/ Complete
  BY <1>1, <1>9 DEF Answer, PressKey, Notify, Complete, program
<1>10. CASE Close
  BY <1>10 DEF Close, CauseInv, CrashNeedsCause, program, module
<1>11. CASE UNCHANGED lvars
  BY <1>1, <1>11 DEF lvars, program, link
<1> QED BY <1>2, <1>3, <1>4, <1>5, <1>6, <1>7, <1>8, <1>9, <1>10, <1>11
  DEF LinkNext, DaemonStep, Environment

\* The daemon dies only of a text that does not fit the display it knows, of
\* the time of a stopped song, or of LCDd going away.
THEOREM CrashNeedsCauseHolds == LinkSpec => []CrashNeedsCause
<1>1. CauseInv => CrashNeedsCause
  BY DEF CauseInv
<1> QED BY <1>1, LinkTypeInit, LinkTypeNext, CauseInit, CauseNext, PTL DEF LinkSpec

-----------------------------------------------------------------------------
(* The keys.                                                               *)

IsKey(i) == arrived[i].kind = "key"

\* The keys on their way were pressed after those that were posted, in order.
KeysInv ==
  /\ \A i \in 1..Len(arrived) : IsKey(i) =>
       /\ arrived[i].nr <= keys
       /\ \A p \in 1..Len(posted) : posted[p] < arrived[i].nr
       /\ \A j \in 1..Len(arrived) : IsKey(j) /\ i < j => arrived[i].nr < arrived[j].nr
  /\ KeysNotInvented

\* The numbers of keys.
LEMMA KeyNumbers ==
  ASSUME TypeInv
  PROVE  /\ arrived \in Seq(Line) /\ Len(arrived) \in Nat /\ keys \in Nat
         /\ posted \in Seq(1..MaxKeys) /\ Len(posted) \in Nat
         /\ \A i \in 1..Len(arrived) : arrived[i].nr \in Nat
         /\ \A p \in 1..Len(posted) : posted[p] \in Nat
<1>1. /\ arrived \in Seq(Line) /\ Len(arrived) \in Nat /\ keys \in Nat
      /\ posted \in Seq(1..MaxKeys) /\ Len(posted) \in Nat
  BY LinkAssumption DEF TypeInv, LinkTypeOK
<1>2. ASSUME NEW i \in 1..Len(arrived) PROVE arrived[i].nr \in Nat
  <2>1. arrived[i] \in Line
    BY <1>1
  <2>2. arrived[i].nr \in 0..MaxKeys
    BY <2>1 DEF Line
  <2> QED BY <2>2, LinkAssumption
<1>3. \A p \in 1..Len(posted) : posted[p] \in Nat
  BY <1>1, LinkAssumption
<1> QED BY <1>1, <1>2, <1>3

\* No key has been pressed.
LEMMA KeysInit == LinkInit => KeysInv
BY EmptySeq DEF LinkInit, KeysInv, KeysNotInvented

\* A line less, wherever it went to.
LEMMA TailKeepsKeys ==
  ASSUME TypeInv, KeysInv, UNCHANGED <<keys, posted>>,
         arrived' = arrived \/ arrived' = <<>> \/ (arrived # <<>> /\ arrived' = Tail(arrived))
  PROVE  KeysInv'
<1>1. arrived \in Seq(Line) /\ Len(arrived) \in Nat
  BY KeyNumbers
<1>2. CASE arrived' = arrived
  BY <1>2 DEF KeysInv, KeysNotInvented, IsKey
<1>3. CASE arrived' = <<>>
  BY <1>3 DEF KeysInv, KeysNotInvented
<1>4. CASE arrived # <<>> /\ arrived' = Tail(arrived)
  <2>1. /\ Len(arrived') = Len(arrived) - 1
        /\ \A i \in 1..Len(arrived') : arrived'[i] = arrived[i + 1] /\ i + 1 \in 1..Len(arrived)
    BY <1>1, <1>4
  <2>2. ASSUME NEW i \in 1..Len(arrived'), IsKey(i)'
        PROVE  /\ arrived'[i].nr <= keys'
               /\ \A p \in 1..Len(posted') : posted'[p] < arrived'[i].nr
               /\ \A j \in 1..Len(arrived') : IsKey(j)' /\ i < j => arrived'[i].nr < arrived'[j].nr
    <3>1. arrived'[i] = arrived[i + 1] /\ i + 1 \in 1..Len(arrived) /\ IsKey(i + 1)
      BY <2>1, <2>2 DEF IsKey
    <3>2. \A j \in 1..Len(arrived') : IsKey(j)' /\ i < j =>
            /\ j + 1 \in 1..Len(arrived) /\ IsKey(j + 1) /\ i + 1 < j + 1
            /\ arrived'[j] = arrived[j + 1]
      BY <1>1, <2>1 DEF IsKey
    <3> QED BY <3>1, <3>2 DEF KeysInv
  <2> QED BY <2>2 DEF KeysInv, KeysNotInvented
<1> QED BY <1>2, <1>3, <1>4

\* A line more, which is no key.
LEMMA OtherKeepsKeys ==
  ASSUME TypeInv, KeysInv, UNCHANGED <<keys, posted>>,
         NEW line \in Line, line.kind # "key", arrived' = Append(arrived, line)
  PROVE  KeysInv'
<1>1. arrived \in Seq(Line) /\ Len(arrived) \in Nat
  BY KeyNumbers
<1>2. /\ Len(arrived') = Len(arrived) + 1
      /\ \A i \in 1..Len(arrived') : arrived'[i] = IF i <= Len(arrived) THEN arrived[i] ELSE line
  BY <1>1
<1> QED BY <1>1, <1>2 DEF KeysInv, KeysNotInvented, IsKey

\* A key more: it has the highest number.
LEMMA PressKeepsKeys ==
  ASSUME TypeInv, KeysInv, PressKey
  PROVE  KeysInv'
<1> DEFINE line == [kind |-> "key", nr |-> keys + 1]
<1>1. /\ arrived \in Seq(Line) /\ Len(arrived) \in Nat /\ keys \in Nat
      /\ posted \in Seq(1..MaxKeys) /\ Len(posted) \in Nat
      /\ \A i \in 1..Len(arrived) : arrived[i].nr \in Nat
  BY KeyNumbers
<1>2. keys' = keys + 1 /\ posted' = posted /\ arrived' = Append(arrived, line)
  BY DEF PressKey, Emit
<1>3. line \in Line /\ line.nr = keys + 1
  BY LinkAssumption DEF PressKey, Line, TypeInv, LinkTypeOK
<1> HIDE DEF line
<1>4. /\ Len(arrived') = Len(arrived) + 1
      /\ \A i \in 1..Len(arrived') : arrived'[i] = IF i <= Len(arrived) THEN arrived[i] ELSE line
  BY <1>1, <1>2, <1>3
<1>5. \A p \in 1..Len(posted) : posted[p] \in Nat /\ posted[p] <= keys
  BY KeyNumbers DEF KeysInv, KeysNotInvented
<1>6. KeysNotInvented'
  BY <1>1, <1>2, <1>5 DEF KeysInv, KeysNotInvented
<1>7. ASSUME NEW i \in 1..Len(arrived'), IsKey(i)'
      PROVE  /\ arrived'[i].nr <= keys'
             /\ \A p \in 1..Len(posted') : posted'[p] < arrived'[i].nr
             /\ \A j \in 1..Len(arrived') : IsKey(j)' /\ i < j => arrived'[i].nr < arrived'[j].nr
  <2>1. CASE i <= Len(arrived)
    <3>1. arrived'[i] = arrived[i] /\ IsKey(i) /\ i \in 1..Len(arrived)
      BY <1>1, <1>4, <1>7, <2>1 DEF IsKey
    <3>2. /\ arrived[i].nr <= keys /\ arrived[i].nr \in Nat
          /\ \A p \in 1..Len(posted) : posted[p] < arrived[i].nr
          /\ \A j \in 1..Len(arrived) : IsKey(j) /\ i < j => arrived[i].nr < arrived[j].nr
      BY <1>1, <3>1 DEF KeysInv
    <3>3. ASSUME NEW j \in 1..Len(arrived'), IsKey(j)', i < j PROVE arrived'[i].nr < arrived'[j].nr
      <4>1. CASE j <= Len(arrived)
        BY <1>1, <1>4, <3>1, <3>2, <3>3, <4>1 DEF IsKey
      <4>2. CASE j = Len(arrived) + 1
        BY <1>1, <1>3, <1>4, <3>1, <3>2, <4>2
      <4> QED BY <1>1, <1>4, <4>1, <4>2
    <3> QED BY <1>1, <1>2, <3>1, <3>2, <3>3
  <2>2. CASE i = Len(arrived) + 1
    BY <1>1, <1>2, <1>3, <1>4, <1>5, <2>2
  <2> QED BY <1>1, <1>4, <2>1, <2>2
<1> QED BY <1>6, <1>7 DEF KeysInv

\* A key that mod_lcdproc_poll understands becomes a message.
LEMMA UnderstandKeepsKeys ==
  ASSUME TypeInv, KeysInv, arrived # <<>>, Understand(Head(arrived)), UNCHANGED keys
  PROVE  KeysInv'
<1> DEFINE line == Head(arrived)
<1>1. /\ arrived \in Seq(Line) /\ Len(arrived) \in Nat /\ 1 \in 1..Len(arrived)
      /\ posted \in Seq(1..MaxKeys) /\ Len(posted) \in Nat /\ line = arrived[1]
  BY DEF TypeInv, LinkTypeOK
<1>2. arrived' = <<>> \/ arrived' = Tail(arrived)
  BY DEF Understand, Disconnect, Link, Readline
<1>3. CASE line.kind # "key"
  <2>1. posted' = posted
    BY <1>3 DEF Understand
  <2> QED BY <1>2, <2>1, TailKeepsKeys
<1>4. CASE line.kind = "key"
  <2>1. posted' = Append(posted, line.nr) /\ arrived' = Tail(arrived)
    BY <1>4 DEF Understand, Readline
  <2>2. line.nr \in Nat /\ line.nr <= keys /\ \A p \in 1..Len(posted) : posted[p] < line.nr
    BY <1>1, <1>4, KeyNumbers DEF KeysInv, IsKey
  <2>3. /\ Len(arrived') = Len(arrived) - 1
        /\ \A i \in 1..Len(arrived') : arrived'[i] = arrived[i + 1] /\ i + 1 \in 1..Len(arrived)
    BY <1>1, <2>1
  <2>4. \A i \in 1..Len(arrived') : IsKey(i)' => line.nr < arrived'[i].nr
    <3> SUFFICES ASSUME NEW i \in 1..Len(arrived'), IsKey(i)'
                 PROVE  line.nr < arrived'[i].nr
      OBVIOUS
    <3>1. arrived'[i] = arrived[i + 1] /\ i + 1 \in 1..Len(arrived) /\ 1 < i + 1
      BY <1>1, <2>3
    <3>2. IsKey(i + 1) /\ IsKey(1)
      BY <1>1, <1>4, <3>1 DEF IsKey
    <3> QED BY <1>1, <3>1, <3>2 DEF KeysInv
  <2> HIDE DEF line
  <2>5. /\ Len(posted') = Len(posted) + 1
        /\ \A p \in 1..Len(posted') : posted'[p] = IF p <= Len(posted) THEN posted[p] ELSE line.nr
    BY <1>1, <2>1
  <2>6. KeysNotInvented'
    <3>1. ASSUME NEW p \in 1..Len(posted') PROVE posted'[p] <= keys'
      BY <1>1, <2>2, <2>5, <3>1 DEF KeysInv, KeysNotInvented
    <3>2. ASSUME NEW p \in 1..Len(posted'), NEW q \in 1..Len(posted'), p < q
          PROVE  posted'[p] < posted'[q]
      <4>1. CASE q <= Len(posted)
        BY <1>1, <2>5, <3>2, <4>1 DEF KeysInv, KeysNotInvented
      <4>2. CASE q > Len(posted)
        <5>1. p \in 1..Len(posted) /\ posted'[p] = posted[p] /\ posted'[q] = line.nr
          BY <1>1, <2>5, <3>2, <4>2
        <5> QED BY <2>2, <5>1
      <4> QED BY <1>1, <2>5, <4>1, <4>2
    <3> QED BY <3>1, <3>2 DEF KeysNotInvented
  <2>7. ASSUME NEW i \in 1..Len(arrived'), IsKey(i)'
        PROVE  /\ arrived'[i].nr <= keys'
               /\ \A p \in 1..Len(posted') : posted'[p] < arrived'[i].nr
               /\ \A j \in 1..Len(arrived') : IsKey(j)' /\ i < j => arrived'[i].nr < arrived'[j].nr
    <3>1. arrived'[i] = arrived[i + 1] /\ i + 1 \in 1..Len(arrived) /\ IsKey(i + 1)
      BY <2>3, <2>7 DEF IsKey
    <3>2. arrived'[i].nr <= keys'
      BY <3>1 DEF KeysInv
    <3>3. \A p \in 1..Len(posted') : posted'[p] < arrived'[i].nr
      <4> SUFFICES ASSUME NEW p \in 1..Len(posted') PROVE posted'[p] < arrived'[i].nr
        OBVIOUS
      <4>1. CASE p <= Len(posted)
        <5>1. p \in 1..Len(posted) /\ posted'[p] = posted[p]
          BY <1>1, <2>5, <4>1
        <5> QED BY <3>1, <5>1 DEF KeysInv
      <4>2. CASE p = Len(posted) + 1
        BY <1>1, <2>4, <2>5, <2>7, <4>2
      <4> QED BY <1>1, <2>5, <4>1, <4>2
    <3>4. \A j \in 1..Len(arrived') : IsKey(j)' /\ i < j => arrived'[i].nr < arrived'[j].nr
      <4> SUFFICES ASSUME NEW j \in 1..Len(arrived'), IsKey(j)', i < j
                   PROVE  arrived'[i].nr < arrived'[j].nr
        OBVIOUS
      <4>1. arrived'[j] = arrived[j + 1] /\ j + 1 \in 1..Len(arrived) /\ IsKey(j + 1)
        BY <2>3 DEF IsKey
      <4>2. i + 1 < j + 1
        BY <1>1, <2>3
      <4> QED BY <3>1, <4>1, <4>2 DEF KeysInv
    <3> QED BY <3>2, <3>3, <3>4
  <2> QED BY <2>6, <2>7 DEF KeysInv
<1> QED BY <1>3, <1>4

\* Each step keeps the order of the keys.
LEMMA KeysNext == TypeInv /\ KeysInv /\ [LinkNext]_lvars => KeysInv'
<1> SUFFICES ASSUME TypeInv, KeysInv, [LinkNext]_lvars PROVE KeysInv'
  OBVIOUS
<1>1. CASE UNCHANGED <<keys, posted, arrived>>
  BY <1>1, TailKeepsKeys
<1>2. CASE Skip
  <2>1. arrived' = arrived \/ (arrived # <<>> /\ arrived' = Tail(arrived))
    BY <1>2 DEF Skip, Readline
  <2> QED BY <1>2, <2>1, TailKeepsKeys DEF Skip, counters
<1>3. CASE Poll
  <2>1. CASE Whole
    BY <1>3, <2>1, UnderstandKeepsKeys DEF Poll, Whole, counters
  <2>2. CASE ~Whole
    BY <1>3, <2>2, TailKeepsKeys DEF Poll, Disconnect, Link, counters
  <2> QED BY <2>1, <2>2
<1>4. CASE Reload
  BY <1>4, TailKeepsKeys DEF Reload, Connect, Disconnect, Link
<1>5. CASE Answer
  <2>1. \E kind \in {"success", "connect", "bye", "other"} : arrived' = Append(arrived, Plain(kind))
    BY <1>5 DEF Answer, Emit
  <2> QED BY <1>5, <2>1, PlainType, OtherKeepsKeys DEF Answer, counters
<1>6. CASE Notify
  <2>1. \E kind \in {"success", "connect", "bye", "other"} : arrived' = Append(arrived, Plain(kind))
    BY <1>6 DEF Notify, Emit
  <2> QED BY <1>6, <2>1, PlainType, OtherKeepsKeys DEF Notify, counters
<1>7. CASE Complete
  <2>1. arrived' = arrived \/ arrived' = Append(arrived, Plain("other"))
    BY <1>7 DEF Complete
  <2> QED BY <1>1, <1>7, <2>1, PlainType, OtherKeepsKeys DEF Complete, counters
<1>8. CASE PressKey
  BY <1>8, PressKeepsKeys
<1> QED BY <1>1, <1>2, <1>3, <1>4, <1>5, <1>6, <1>7, <1>8
  DEF LinkNext, DaemonStep, Environment, NotConnected, Hello, Sendtext, PadLine, WildWrite,
    NothingToPoll, Dispatch, Update, ReadStdin, Close, counters, link, lvars

\* Key presses that become messages were made, in this order, once each.
THEOREM KeysNotInventedHolds == LinkSpec => []KeysNotInvented
<1>1. KeysInv => KeysNotInvented
  BY DEF KeysInv
<1> QED BY <1>1, LinkTypeInit, LinkTypeNext, KeysInit, KeysNext, PTL DEF LinkSpec
=============================================================================
