---------------------------- MODULE DaemonProofs ----------------------------
(***************************************************************************)
(* Proofs about Daemon: its type invariant, the ordered delivery of the    *)
(* messages, the two readings the modules' settings come from, and that Daemon       *)
(* implements Broadcast, for every set of modules, every order of          *)
(* initialisation and every bound.                                         *)
(***************************************************************************)
EXTENDS Daemon, SequenceTheorems, FiniteSetTheorems, WellFoundedInduction, TLAPS

-----------------------------------------------------------------------------
(* Queue operations.                                                       *)

\* Posting a burst keeps the sequences typed, the head of the queue in place
\* and the history equal to what is handled followed by what is queued.
LEMMA SendmsgKeeps ==
  ASSUME NEW h \in Seq(Message), queue \in Seq(Message), sent \in Seq(Message),
         NEW burst \in Seq(Message),
         queue' = queue \o burst, sent' = sent \o burst, sent = h \o queue
  PROVE  /\ queue' \in Seq(Message) /\ sent' \in Seq(Message)
         /\ sent' = h \o queue'
         /\ queue # <<>> => queue' # <<>> /\ Head(queue') = Head(queue)
<1>1. queue' \in Seq(Message) /\ sent' \in Seq(Message)
  BY ConcatProperties
<1>2. (h \o queue) \o burst = h \o (queue \o burst)
  BY ConcatAssociative
<1>3. ASSUME queue # <<>> PROVE queue' # <<>> /\ Head(queue') = Head(queue)
  <2>1. Len(queue) \in Nat \ {0} /\ Len(burst) \in Nat
    BY <1>3, EmptySeq, LenProperties
  <2>2. Len(queue') = Len(queue) + Len(burst) /\ queue'[1] = queue[1]
    BY <2>1, ConcatProperties
  <2>3. Len(queue') # 0
    BY <2>1, <2>2
  <2> QED BY <1>1, <1>3, <2>2, <2>3, EmptySeq
<1> QED BY <1>1, <1>2, <1>3

\* Moving the head of the queue to the end of the history changes neither.
LEMMA HeadMoves ==
  ASSUME NEW h \in Seq(Message), NEW q \in Seq(Message), q # <<>>
  PROVE  /\ Append(h, Head(q)) \in Seq(Message) /\ Tail(q) \in Seq(Message)
         /\ Append(h, Head(q)) \o Tail(q) = h \o q
<1>1. /\ Head(q) \in Message /\ Tail(q) \in Seq(Message) /\ Len(Tail(q)) = Len(q) - 1
      /\ \A i \in 1..Len(Tail(q)) : Tail(q)[i] = q[i + 1]
  BY HeadTailProperties
<1> DEFINE a == Append(h, Head(q))
<1>2. /\ a \in Seq(Message) /\ Len(a) = Len(h) + 1
      /\ \A i \in 1..Len(h) : a[i] = h[i]
      /\ a[Len(h) + 1] = q[1]
  BY <1>1
<1>3. Len(h) \in Nat /\ Len(q) \in Nat \ {0}
  BY EmptySeq, LenProperties
<1> HIDE DEF a
<1>4. /\ a \o Tail(q) \in Seq(Message) /\ Len(a \o Tail(q)) = Len(a) + Len(Tail(q))
      /\ \A i \in 1..Len(a) + Len(Tail(q)) :
           (a \o Tail(q))[i] = IF i <= Len(a) THEN a[i] ELSE Tail(q)[i - Len(a)]
  BY <1>1, <1>2, ConcatProperties
<1>5. /\ h \o q \in Seq(Message) /\ Len(h \o q) = Len(h) + Len(q)
      /\ \A i \in 1..Len(h) + Len(q) :
           (h \o q)[i] = IF i <= Len(h) THEN h[i] ELSE q[i - Len(h)]
  BY ConcatProperties
<1>6. Len(a \o Tail(q)) = Len(h \o q)
  BY <1>1, <1>2, <1>3, <1>4, <1>5
<1>7. ASSUME NEW i \in 1..Len(a \o Tail(q)) PROVE (a \o Tail(q))[i] = (h \o q)[i]
  <2>1. i \in 1..Len(h) + Len(q) /\ i \in 1..Len(a) + Len(Tail(q))
    BY <1>4, <1>5, <1>6
  <2>2. CASE i <= Len(h)
    BY <1>2, <1>3, <1>4, <1>5, <2>1, <2>2
  <2>3. CASE i = Len(h) + 1
    BY <1>2, <1>3, <1>4, <1>5, <2>1, <2>3
  <2>4. CASE i > Len(h) + 1
    <3>1. i - Len(a) \in 1..Len(Tail(q)) /\ (i - Len(a)) + 1 = i - Len(h)
      BY <1>1, <1>2, <1>3, <2>1, <2>4
    <3>2. Tail(q)[i - Len(a)] = q[i - Len(h)]
      BY <1>1, <3>1
    <3>3. ~(i <= Len(a)) /\ ~(i <= Len(h))
      BY <1>2, <1>3, <2>4
    <3> QED BY <1>4, <1>5, <2>1, <3>2, <3>3
  <2>5. i <= Len(h) \/ i = Len(h) + 1 \/ i > Len(h) + 1
    BY <1>3, <2>1
  <2> QED BY <2>2, <2>3, <2>4, <2>5
<1>8. a \o Tail(q) = h \o q
  BY <1>4, <1>5, <1>6, <1>7, SeqEqual
<1> QED BY <1>1, <1>2, <1>8 DEF a

\* What a callback posts is a sequence of messages.
LEMMA BurstIsSeq == Burst \subseteq Seq(Message)
<1> SUFFICES ASSUME NEW n \in 0..MaxBurst, NEW b \in [1..n -> Message]
             PROVE  b \in Seq(Message)
  BY DEF Burst
<1>1. n \in Nat
  BY MessageAssumption
<1> QED BY <1>1, SeqDef

-----------------------------------------------------------------------------
(* The type invariant.                                                     *)

\* Every variable of the daemon keeps its type whatever the modules post and
\* whenever the signals arrive.
THEOREM DaemonTypeCorrect == DaemonSpec => []DaemonTypeOK
<1>1. DaemonInit => DaemonTypeOK
  <2> SUFFICES ASSUME DaemonInit PROVE DaemonTypeOK
    OBVIOUS
  <2>1. <<>> \in Seq(Module) /\ <<>> \in Seq(Message)
    BY EmptySeq
  <2>2. 0 \in Version /\ 1 \in Version
    BY MessageAssumption DEF Version
  <2>3. initialised \in 0..Len(InitOrder)
    BY ModuleAssumption, LenProperties DEF DaemonInit
  <2>4. modConfig \in [Setting -> Version] /\ received \in [Module -> Seq(Message)]
    BY <2>1, <2>2 DEF DaemonInit
  <2>5. reload \in BOOLEAN /\ terminate \in BOOLEAN /\ failed \in BOOLEAN /\ dangling \in BOOLEAN
    BY DEF DaemonInit
  <2>6. pc \in Where /\ turn \in Nat \ {0} /\ ready \subseteq Module
    BY DEF DaemonInit, Where
  <2> QED BY <2>1, <2>2, <2>3, <2>4, <2>5, <2>6 DEF DaemonInit, DaemonTypeOK
<1>2. DaemonTypeOK /\ [DaemonNext]_dvars => DaemonTypeOK'
  <2> SUFFICES ASSUME DaemonTypeOK, [DaemonNext]_dvars PROVE DaemonTypeOK'
    OBVIOUS
  <2> USE DEF DaemonTypeOK, flags, configuration, deliveries, hangups, SendsNothing
  <2>a. ASSUME NEW burst \in Seq(Message), Sendmsg(burst)
        PROVE  queue' \in Seq(Message) /\ sent' \in Seq(Message)
    BY <2>a, ConcatProperties DEF Sendmsg
  <2>b. ASSUME NEW burst \in Burst, Sendmsg(burst)
        PROVE  queue' \in Seq(Message) /\ sent' \in Seq(Message)
    BY <2>a, <2>b, BurstIsSeq
  <2>c. \A x : ConfigFree(x) => pc' \in {x, "aborted"} /\ dangling' \in BOOLEAN
    BY DEF ConfigFree
  <2>d. 0 \in Version
    BY MessageAssumption DEF Version
  <2>e. ASSUME Dispatching, RemoveHead
        PROVE  /\ queue' \in Seq(Message) /\ handled' \in Seq(Message)
               /\ Append(dispersed, Head(queue)) \in Seq(Message)
               /\ turn' \in Nat \ {0}
    BY <2>e, HeadMoves DEF Dispatching, RemoveHead
  <2>1. CASE ModInit
    <3>1. initialised + 1 \in 0..Len(InitOrder) /\ InitOrder[initialised + 1] \in Module
      BY <2>1, ModuleAssumption, LenProperties, ElementOfSeq DEF ModInit
    <3>2. modList' \in Seq(Module)
      <4>1. Append(modList, InitOrder[initialised + 1]) \in Seq(Module)
        BY <3>1
      <4>2. modList' = modList \/ modList' = Append(modList, InitOrder[initialised + 1])
        BY <2>1 DEF ModInit
      <4> QED BY <4>1, <4>2
    <3>3. queue' \in Seq(Message) /\ sent' \in Seq(Message)
      BY <2>1, <2>b DEF ModInit
    <3>4. initialised' \in 0..Len(InitOrder)
      BY <2>1, <3>1 DEF ModInit
    <3> QED BY <2>1, <3>2, <3>3, <3>4 DEF ModInit
  <2>2. CASE InstallHandlers
    BY <2>2 DEF InstallHandlers, Where
  <2>3. CASE Startup
    <3>1. queue \o StartCommands \in Seq(Message) /\ sent \o StartCommands \in Seq(Message)
      BY MessageAssumption, ConcatProperties
    <3> QED BY <2>3, <3>1, FlagAssumption DEF Startup, Where
  <2>4. CASE Select
    <3>1. Registered \subseteq Module
      BY LenProperties, ElementOfSeq DEF Registered
    <3>2. ready' \subseteq Module
      BY <2>4, <3>1 DEF Select
    <3>3. failed' \in BOOLEAN
      BY <2>4 DEF Select
    <3>4. pc' \in Where /\ turn' \in Nat \ {0}
      BY <2>4 DEF Select, Where
    <3> QED BY <2>4, <3>2, <3>3, <3>4 DEF Select
  <2>5. CASE Poll
    BY <2>5, <2>b DEF Poll, Where
  <2>6. CASE HandleReload
    BY <2>6, <2>e DEF HandleReload
  <2>7. CASE Disperse
    <3>1. turn' \in Nat \ {0}
      BY <2>7 DEF Disperse
    <3>2. received' \in [Module -> Seq(Message)]
      <4>1. \A m \in Module : Append(received[m], Head(queue)) \in Seq(Message)
        BY <2>7, HeadTailProperties DEF Disperse, Dispatching
      <4>2. received' = received \/ \E m \in Module :
              received' = [received EXCEPT ![m] = Append(received[m], Head(queue))]
        <5>1. turn \in 1..Len(modList)
          BY <2>7, LenProperties DEF Disperse, AtEnd
        <5>2. modList[turn] \in Module
          BY <5>1, ElementOfSeq
        <5> QED BY <2>7, <5>2 DEF Disperse
      <4> QED BY <4>1, <4>2
    <3>3. queue' \in Seq(Message) /\ sent' \in Seq(Message)
      BY <2>7, <2>b DEF Disperse
    <3> QED BY <2>7, <3>1, <3>2, <3>3 DEF Disperse
  <2>8. CASE Remove
    BY <2>8, <2>e DEF Remove
  <2>9. CASE QueueEmpty
    BY <2>9 DEF QueueEmpty, Where
  <2>10. CASE UpdateModule
    <3>1. queue' \in Seq(Message) /\ sent' \in Seq(Message)
      BY <2>10, <2>b DEF UpdateModule
    <3> QED BY <2>10, <3>1 DEF UpdateModule
  <2>11. CASE UpdatesDone
    BY <2>11 DEF UpdatesDone, Where
  <2>12. CASE LoopReturned
    BY <2>12 DEF LoopReturned, Continue, Where
  <2>13. CASE ConfigReload
    BY <2>13, <2>c, <2>d DEF ConfigReload, Where
  <2>14. CASE ModReload
    <3>1. modConfig' \in [Setting -> Version]
      BY <2>14 DEF ModReload, Reread
    <3>2. queue' \in Seq(Message) /\ sent' \in Seq(Message)
      BY <2>14, <2>b DEF ModReload
    <3> QED BY <2>14, <3>1, <3>2 DEF ModReload
  <2>15. CASE ReloadDone
    BY <2>15 DEF ReloadDone, Continue, Where
  <2>16. CASE Shutdown
    BY <2>16, <2>c, EmptySeq DEF Shutdown, Where
  <2>17. CASE Killed
    BY <2>17 DEF Killed, Where
  <2>18. CASE SigHup
    BY <2>18 DEF SigHup
  <2>19. CASE SigTerm
    BY <2>19 DEF SigTerm
  <2>20. CASE EditFile
    <3>1. file + 1 \in Version
      BY <2>20, MessageAssumption DEF EditFile, Version
    <3> QED BY <2>20, <3>1 DEF EditFile
  <2>21. CASE UNCHANGED dvars
    BY <2>21 DEF dvars
  <2> QED BY <2>1, <2>2, <2>3, <2>4, <2>5, <2>6, <2>7, <2>8, <2>9, <2>10, <2>11, <2>12,
             <2>13, <2>14, <2>15, <2>16, <2>17, <2>18, <2>19, <2>20, <2>21
          DEF DaemonNext, DaemonStep, Environment
<1> QED BY <1>1, <1>2, PTL DEF DaemonSpec

-----------------------------------------------------------------------------
(* Ordered delivery.                                                       *)

\* What OrderedDelivery needs to be inductive: nothing is dispersed before the
\* module list is complete, no module is in it twice, and a dispersal starts
\* with the first module.
DeliveryContext ==
  /\ pc = "init" => dispersed = <<>> /\ \A m \in Module : received[m] = <<>>
  /\ pc = "init" =>
       \A i \in 1..Len(modList) : \E k \in 1..initialised : modList[i] = InitOrder[k]
  /\ \A i, j \in 1..Len(modList) : modList[i] = modList[j] => i = j
  /\ pc = "poll" => turn = 1
  /\ pc = "dispatch" /\ (queue = <<>> \/ Head(queue) = ReloadMsg) => turn = 1

\* The steps that only post, or do nothing at all to the queue.
Posting ==
  /\ UNCHANGED handled
  /\ \/ \E burst \in Burst : Sendmsg(burst)
     \/ queue' = queue \o StartCommands /\ sent' = sent \o StartCommands
     \/ SendsNothing

\* Such a step keeps the history split and the head of the queue in place.
LEMMA PostingKeeps ==
  ASSUME DaemonTypeOK, sent = handled \o queue, Posting
  PROVE  /\ sent' = handled' \o queue'
         /\ queue # <<>> => queue' # <<>> /\ Head(queue') = Head(queue)
<1> USE DEF DaemonTypeOK, Posting
<1>1. ASSUME NEW burst \in Burst, Sendmsg(burst)
      PROVE  /\ sent' = handled' \o queue'
             /\ queue # <<>> => queue' # <<>> /\ Head(queue') = Head(queue)
  <2>1. burst \in Seq(Message)
    BY BurstIsSeq
  <2> QED BY <1>1, <2>1, SendmsgKeeps DEF Sendmsg
<1>2. ASSUME queue' = queue \o StartCommands, sent' = sent \o StartCommands
      PROVE  /\ sent' = handled' \o queue'
             /\ queue # <<>> => queue' # <<>> /\ Head(queue') = Head(queue)
  BY <1>2, SendmsgKeeps, MessageAssumption
<1> QED BY <1>1, <1>2 DEF SendsNothing

\* Every step posts, or removes the head of the queue.
LEMMA StepsPost ==
  ASSUME [DaemonNext]_dvars, ~HandleReload, ~Remove
  PROVE  Posting
<1> USE DEF Posting, SendsNothing, deliveries, flags, configuration, hangups
<1>1. CASE ModInit \/ Poll \/ ModReload
  BY <1>1 DEF ModInit, Poll, ModReload
<1>2. CASE Disperse \/ UpdateModule
  BY <1>2 DEF Disperse, UpdateModule
<1>3. CASE Startup
  BY <1>3 DEF Startup
<1>4. CASE \/ InstallHandlers \/ Select \/ QueueEmpty \/ UpdatesDone \/ LoopReturned
           \/ ConfigReload \/ ReloadDone \/ Shutdown
  BY <1>4 DEF InstallHandlers, Select, QueueEmpty, UpdatesDone, LoopReturned,
              ConfigReload, ReloadDone, Shutdown
<1>5. CASE Environment
  BY <1>5 DEF Environment, Killed, SigHup, SigTerm, EditFile
<1>6. CASE UNCHANGED dvars
  BY <1>6 DEF dvars
<1> QED BY <1>1, <1>2, <1>3, <1>4, <1>5, <1>6 DEF DaemonNext, DaemonStep

\* A step that leaves the deliveries and the module list alone and neither
\* begins nor continues a dispersal.
LEMMA ElsewhereKeeps ==
  ASSUME OrderedDelivery, DeliveryContext, pc # "dispatch" \/ turn = 1,
         UNCHANGED <<modList, received, dispersed>>,
         pc' = "dispatch" => turn' = 1, sent' = handled' \o queue'
  PROVE  OrderedDelivery'
<1>1. ASSUME NEW i \in 1..Len(modList), modList[i] \in Listening
      PROVE  received[modList[i]] = dispersed
  BY <1>1 DEF OrderedDelivery
<1>2. ASSUME NEW i \in 1..Len(modList')
      PROVE  ~(pc' = "dispatch" /\ i < turn')
  BY <1>2
<1> QED BY <1>1, <1>2 DEF OrderedDelivery

\* OrderedDelivery with its context is inductive.
LEMMA DeliveryStep ==
  ASSUME DaemonTypeOK, OrderedDelivery, DeliveryContext, [DaemonNext]_dvars
  PROVE  OrderedDelivery' /\ DeliveryContext'
<1> USE DEF deliveries, flags, configuration, hangups, SendsNothing
<1>a. sent = handled \o queue
  BY DEF OrderedDelivery
<1>b. ~HandleReload /\ ~Remove =>
        /\ sent' = handled' \o queue'
        /\ queue # <<>> => queue' # <<>> /\ Head(queue') = Head(queue)
  BY <1>a, StepsPost, PostingKeeps
<1>c. Len(modList) \in Nat /\ turn \in Nat \ {0}
  BY LenProperties DEF DaemonTypeOK
<1>1. CASE ModInit
  <2> USE <1>1 DEF ModInit
  <2>1. sent' = handled' \o queue'
    BY <1>b DEF HandleReload, Remove, Dispatching
  <2>2. /\ modList' \in Seq(Module)
        /\ \A i \in 1..Len(modList') :
             \/ i \in 1..Len(modList) /\ modList'[i] = modList[i]
             \/ /\ i = Len(modList) + 1 /\ Len(modList') = Len(modList) + 1
                /\ modList'[i] = InitOrder[initialised + 1]
    <3>1. InitOrder[initialised + 1] \in Module
      BY ModuleAssumption, ElementOfSeq, LenProperties DEF DaemonTypeOK
    <3>2. CASE modList' = modList
      BY <3>2 DEF DaemonTypeOK
    <3>3. CASE modList' = Append(modList, InitOrder[initialised + 1])
      <4>1. /\ modList' \in Seq(Module) /\ Len(modList') = Len(modList) + 1
            /\ \A i \in 1..Len(modList) : modList'[i] = modList[i]
            /\ modList'[Len(modList) + 1] = InitOrder[initialised + 1]
        BY <3>1, <3>3 DEF DaemonTypeOK
      <4> QED BY <1>c, <4>1
    <3> QED BY <3>2, <3>3
  <2>3. OrderedDelivery'
    <3>1. \A i \in 1..Len(modList') : modList'[i] \in Module
      BY <2>2, ElementOfSeq
    <3>2. dispersed' = <<>> /\ \A m \in Module : received'[m] = <<>>
      BY DEF DeliveryContext
    <3> QED BY <2>1, <3>1, <3>2 DEF OrderedDelivery
  <2>4. initialised \in Nat /\ initialised' = initialised + 1 /\ initialised' <= Len(InitOrder)
    BY ModuleAssumption, LenProperties DEF DaemonTypeOK
  <2>5. \A i \in 1..Len(modList') : \E k \in 1..initialised' : modList'[i] = InitOrder[k]
    <3> SUFFICES ASSUME NEW i \in 1..Len(modList')
                 PROVE  \E k \in 1..initialised' : modList'[i] = InitOrder[k]
      OBVIOUS
    <3>1. CASE i \in 1..Len(modList) /\ modList'[i] = modList[i]
      <4>1. PICK k \in 1..initialised : modList[i] = InitOrder[k]
        BY <3>1 DEF DeliveryContext
      <4>2. k \in 1..initialised'
        BY <2>4
      <4> QED BY <3>1, <4>1, <4>2
    <3>2. CASE modList'[i] = InitOrder[initialised + 1]
      BY <2>4, <3>2
    <3> QED BY <2>2, <3>1, <3>2
  <2>6. \A i, j \in 1..Len(modList') : modList'[i] = modList'[j] => i = j
    <3>1. ASSUME NEW i \in 1..Len(modList), modList[i] = InitOrder[initialised + 1]
          PROVE  FALSE
      <4>1. PICK k \in 1..initialised : modList[i] = InitOrder[k]
        BY DEF DeliveryContext
      <4>2. k \in 1..Len(InitOrder) /\ initialised + 1 \in 1..Len(InitOrder) /\ k # initialised + 1
        BY <2>4
      <4> QED BY <3>1, <4>1, <4>2, ModuleAssumption
    <3>2. \A i, j \in 1..Len(modList) : modList[i] = modList[j] => i = j
      BY DEF DeliveryContext
    <3> QED BY <2>2, <3>1, <3>2
  <2> QED BY <2>3, <2>5, <2>6 DEF DeliveryContext
<1>2. CASE Disperse
  <2> USE <1>2 DEF Disperse, Dispatching, AtEnd
  <2>1. /\ sent' = handled' \o queue'
        /\ queue # <<>> /\ queue' # <<>> /\ Head(queue') = Head(queue)
    BY <1>b DEF HandleReload, Remove
  <2>2. turn \in 1..Len(modList)
    BY <1>c
  <2>3. ASSUME NEW i \in 1..Len(modList), modList[i] \in Listening
        PROVE  received'[modList[i]] =
                 IF i < turn' THEN Append(dispersed, Head(queue)) ELSE dispersed
    <3>1. received[modList[i]] = IF i < turn THEN Append(dispersed, Head(queue)) ELSE dispersed
      BY <2>3 DEF OrderedDelivery
    <3>2. modList[i] \in Module
      BY ElementOfSeq DEF DaemonTypeOK
    <3>3. CASE i = turn
      <4>1. received' = [received EXCEPT ![modList[i]] = Append(received[modList[i]], Head(queue))]
        BY <2>3, <3>3
      <4>2. received[modList[i]] = dispersed /\ i < turn'
        BY <1>c, <3>1, <3>3
      <4> QED BY <3>2, <4>1, <4>2 DEF DaemonTypeOK
    <3>4. CASE i # turn
      <4>1. modList[i] # modList[turn]
        BY <2>2, <3>4 DEF DeliveryContext
      <4>2. received'[modList[i]] = received[modList[i]]
        BY <3>2, <4>1 DEF DaemonTypeOK
      <4>3. i < turn' <=> i < turn
        BY <1>c, <3>4
      <4> QED BY <3>1, <4>2, <4>3
    <3> QED BY <3>3, <3>4
  <2>4. OrderedDelivery'
    BY <2>1, <2>3 DEF OrderedDelivery
  <2>5. DeliveryContext'
    BY <2>1 DEF DeliveryContext
  <2> QED BY <2>4, <2>5
<1>3. CASE Remove
  <2> USE <1>3 DEF Remove, RemoveHead, Dispatching, AtEnd
  <2>1. sent' = handled' \o queue'
    BY <1>a, HeadMoves DEF DaemonTypeOK
  <2>2. ASSUME NEW i \in 1..Len(modList), modList[i] \in Listening
        PROVE  received[modList[i]] = dispersed'
    <3>1. i < turn
      BY <1>c
    <3> QED BY <2>2, <3>1 DEF OrderedDelivery
  <2>3. OrderedDelivery'
    BY <2>1, <2>2 DEF OrderedDelivery
  <2> QED BY <2>3 DEF DeliveryContext
<1>4. CASE HandleReload
  <2> USE <1>4 DEF HandleReload, RemoveHead, Dispatching
  <2>1. sent' = handled' \o queue'
    BY <1>a, HeadMoves DEF DaemonTypeOK
  <2>2. turn = 1 /\ turn' = 1
    BY DEF DeliveryContext
  <2>3. OrderedDelivery'
    BY <2>1, <2>2, ElsewhereKeeps
  <2> QED BY <2>3 DEF DeliveryContext
<1>5. CASE InstallHandlers \/ Startup \/ Select \/ LoopReturned \/ ConfigReload
           \/ ModReload \/ ReloadDone \/ UpdateModule \/ UpdatesDone \/ Killed
  <2> USE <1>5 DEF InstallHandlers, Startup, Select, LoopReturned, ConfigReload, ModReload,
                   ReloadDone, UpdateModule, UpdatesDone, Killed, Continue, ConfigFree
  <2>1. pc # "dispatch" /\ pc # "poll"
    OBVIOUS
  <2>2. sent' = handled' \o queue'
    BY <1>b, <2>1 DEF HandleReload, Remove, Dispatching
  <2>3. /\ UNCHANGED <<modList, received, dispersed>>
        /\ pc' # "init"
        /\ pc' \in {"dispatch", "poll"} => turn' = 1
    OBVIOUS
  <2>4. OrderedDelivery'
    BY <2>1, <2>2, <2>3, ElsewhereKeeps
  <2> QED BY <2>3, <2>4 DEF DeliveryContext
<1>6. CASE Poll
  <2> USE <1>6 DEF Poll
  <2>1. sent' = handled' \o queue'
    BY <1>b DEF HandleReload, Remove, Dispatching
  <2>2. turn' = 1 /\ pc' \in {"poll", "dispatch"}
    BY DEF DeliveryContext
  <2>3. OrderedDelivery'
    BY <2>1, <2>2, ElsewhereKeeps
  <2> QED BY <2>2, <2>3 DEF DeliveryContext
<1>7. CASE QueueEmpty
  <2> USE <1>7 DEF QueueEmpty
  <2>1. sent' = handled' \o queue' /\ turn = 1
    BY <1>a DEF DeliveryContext
  <2>2. OrderedDelivery'
    BY <2>1, ElsewhereKeeps
  <2> QED BY <2>2 DEF DeliveryContext
<1>8. CASE Shutdown
  <2> USE <1>8 DEF Shutdown, ConfigFree
  <2>1. modList' = <<>> /\ Len(modList') = 0 /\ pc' \in {"stopped", "aborted"}
    OBVIOUS
  <2>2. 1..Len(modList') = {}
    BY <2>1
  <2>3. OrderedDelivery'
    BY <1>a, <2>2 DEF OrderedDelivery
  <2> QED BY <2>1, <2>2, <2>3 DEF DeliveryContext
<1>9. CASE SigHup \/ SigTerm \/ EditFile \/ UNCHANGED dvars
  <2>1. UNCHANGED <<pc, initialised, modList, turn, queue, received, dispersed, handled, sent>>
    BY <1>9 DEF SigHup, SigTerm, EditFile, dvars
  <2> QED BY <2>1 DEF OrderedDelivery, DeliveryContext
<1> QED BY <1>1, <1>2, <1>3, <1>4, <1>5, <1>6, <1>7, <1>8, <1>9
        DEF DaemonNext, DaemonStep, Environment

\* Whatever the callbacks post, every listening module is given every message
\* in the order of sending, exactly once, and the queue loses none.
THEOREM OrderedDeliveryHolds == DaemonSpec => []OrderedDelivery
<1>1. DaemonInit => OrderedDelivery /\ DeliveryContext
  <2> SUFFICES ASSUME DaemonInit PROVE OrderedDelivery /\ DeliveryContext
    OBVIOUS
  <2>1. sent = handled \o queue
    BY EmptySeq, ConcatEmptySeq DEF DaemonInit
  <2>2. Len(modList) = 0 /\ 1..Len(modList) = {}
    BY DEF DaemonInit
  <2> QED BY <2>1, <2>2 DEF DaemonInit, OrderedDelivery, DeliveryContext
<1>2. /\ DaemonTypeOK /\ OrderedDelivery /\ DeliveryContext /\ [DaemonNext]_dvars
      => OrderedDelivery' /\ DeliveryContext'
  BY DeliveryStep
<1> QED BY <1>1, <1>2, DaemonTypeCorrect, PTL DEF DaemonSpec

-----------------------------------------------------------------------------
(* The settings of the modules.                                            *)

\* Settings that no reload callback reads are those of the start for ever.
\* The others are those of config_list in every place but a reload, and within
\* one those of the modules already reloaded are.
SettingsContext ==
  /\ pc = "init" => config = 1 /\ \A s \in Setting : modConfig[s] = 1
  /\ \A s \in Setting \ Rereading : modConfig[s] = 1
  /\ pc \in {"startup", "select", "poll", "dispatch", "update", "returned", "reload"} =>
       \A i \in 1..Len(modList), s \in Rereading :
         Owner[s] = modList[i] => modConfig[s] = config
  /\ pc = "modreload" =>
       \A i \in 1..Len(modList), s \in Rereading :
         i < turn /\ Owner[s] = modList[i] => modConfig[s] = config

\* SettingsContext is inductive.
LEMMA SettingsStep ==
  ASSUME DaemonTypeOK, SettingsContext, [DaemonNext]_dvars
  PROVE  SettingsContext'
<1> USE SettingAssumption DEF deliveries, flags, configuration, hangups, SendsNothing
<1>c. Len(modList) \in Nat /\ turn \in Nat \ {0}
  BY LenProperties DEF DaemonTypeOK
<1>1. CASE ModInit
  BY <1>1 DEF ModInit, SettingsContext
<1>2. CASE InstallHandlers
  BY <1>2 DEF InstallHandlers, SettingsContext
<1>3. CASE \/ Startup \/ Select \/ Poll \/ HandleReload \/ Disperse \/ Remove \/ QueueEmpty
           \/ UpdateModule \/ UpdatesDone \/ LoopReturned
  <2>1. /\ pc \in {"startup", "select", "poll", "dispatch", "update", "returned"}
        /\ pc' \notin {"init", "modreload"}
        /\ UNCHANGED <<modList, config, modConfig>>
    BY <1>3 DEF Startup, Select, Poll, HandleReload, Disperse, Remove, QueueEmpty, RemoveHead,
                UpdateModule, UpdatesDone, LoopReturned, Continue, Dispatching
  <2> QED BY <2>1 DEF SettingsContext
<1>4. CASE ConfigReload
  <2>1. turn' = 1 /\ pc' \in {"modreload", "aborted"} /\ modConfig' = modConfig
    BY <1>4 DEF ConfigReload, ConfigFree
  <2> QED BY <2>1 DEF SettingsContext
<1>5. CASE ModReload
  <2> USE <1>5 DEF ModReload, AtEnd
  <2>1. turn \in 1..Len(modList) /\ turn' = turn + 1 /\ pc = "modreload" /\ pc' = pc
    BY <1>c
  <2>2. UNCHANGED <<modList, config>>
    OBVIOUS
  <2>3. \A s \in Setting :
          modConfig'[s] = IF Owner[s] = modList[turn] /\ s \in Rereading
                          THEN config ELSE modConfig[s]
    BY DEF Reread
  <2>4. ASSUME NEW i \in 1..Len(modList), NEW s \in Rereading,
               i < turn + 1, Owner[s] = modList[i]
        PROVE  modConfig'[s] = config
    <3>1. CASE Owner[s] = modList[turn]
      BY <2>3, <3>1
    <3>2. CASE Owner[s] # modList[turn]
      <4>1. i < turn
        BY <1>c, <2>4, <3>2
      <4>2. modConfig[s] = config
        BY <2>1, <2>4, <4>1 DEF SettingsContext
      <4> QED BY <2>3, <3>2, <4>2
    <3> QED BY <3>1, <3>2
  <2>5. \A s \in Setting \ Rereading : modConfig'[s] = 1
    BY <2>3 DEF SettingsContext
  <2> QED BY <2>1, <2>2, <2>4, <2>5 DEF SettingsContext
<1>6. CASE ReloadDone
  <2>1. \A i \in 1..Len(modList) : i < turn
    BY <1>6, <1>c DEF ReloadDone, AtEnd
  <2> QED BY <1>6, <2>1 DEF ReloadDone, Continue, SettingsContext
<1>7. CASE Shutdown \/ Killed
  BY <1>7 DEF Shutdown, Killed, ConfigFree, SettingsContext
<1>8. CASE SigHup \/ SigTerm \/ EditFile \/ UNCHANGED dvars
  <2>1. UNCHANGED <<pc, modList, turn, config, modConfig>>
    BY <1>8 DEF SigHup, SigTerm, EditFile, dvars
  <2> QED BY <2>1 DEF SettingsContext
<1> QED BY <1>1, <1>2, <1>3, <1>4, <1>5, <1>6, <1>7, <1>8
        DEF DaemonNext, DaemonStep, Environment

\* While the loop works, what the reload callbacks read is that of config_list,
\* and every other setting of a module is the one it had at the start, however
\* often the file was edited and read again in the meantime.
THEOREM TwoReadingsHolds == DaemonSpec => []TwoReadings
<1> USE SettingAssumption
<1>1. DaemonInit => SettingsContext
  <2> SUFFICES ASSUME DaemonInit PROVE SettingsContext
    OBVIOUS
  <2>1. config = 1 /\ \A s \in Setting : modConfig[s] = 1
    BY DEF DaemonInit
  <2> QED BY <2>1 DEF DaemonInit, SettingsContext
<1>2. DaemonTypeOK /\ SettingsContext /\ [DaemonNext]_dvars => SettingsContext'
  BY SettingsStep
<1>3. SettingsContext => TwoReadings
  BY DEF SettingsContext, TwoReadings, Registered
<1> QED BY <1>1, <1>2, <1>3, DaemonTypeCorrect, PTL DEF DaemonSpec

-----------------------------------------------------------------------------
(* The log of the broadcast: the sent messages without the reload requests.  *)

\* How the number of plain messages grows with the place in the sequence.
LEMMA RankStep ==
  ASSUME NEW s, NEW n \in Nat
  PROVE  /\ Rank(s, n) \in Nat
         /\ Rank(s, 0) = 0
         /\ Plain(s[n + 1]) => Rank(s, n + 1) = Rank(s, n) + 1
         /\ ~Plain(s[n + 1]) => Rank(s, n + 1) = Rank(s, n)
<1> DEFINE P(i) == {j \in 1..i : Plain(s[j])}
<1>1. \A i \in Nat : IsFiniteSet(P(i))
  <2>1. \A i \in Nat : IsFiniteSet(1..i) /\ P(i) \subseteq 1..i
    BY FS_Interval
  <2> QED BY <2>1, FS_Subset
<1>2. Rank(s, n) = Cardinality(P(n)) /\ Rank(s, n + 1) = Cardinality(P(n + 1))
  BY DEF Rank
<1>3. Rank(s, n) \in Nat
  BY <1>1, <1>2, FS_CardinalityType
<1>4. Rank(s, 0) = 0
  <2>1. {j \in 1..0 : Plain(s[j])} = {}
    OBVIOUS
  <2> QED BY <2>1, FS_EmptySet DEF Rank
<1>5. CASE Plain(s[n + 1])
  <2>1. P(n + 1) = P(n) \cup {n + 1} /\ n + 1 \notin P(n)
    BY <1>5
  <2> QED BY <1>1, <1>2, <1>3, <1>4, <1>5, <2>1, FS_AddElement
<1>6. CASE ~Plain(s[n + 1])
  <2>1. P(n + 1) = P(n)
    BY <1>6
  <2> QED BY <1>2, <1>3, <1>4, <1>6, <2>1
<1> QED BY <1>5, <1>6

\* A place with a plain message has a rank that no earlier place has.
LEMMA RankGrows ==
  ASSUME NEW s, NEW n \in Nat, NEW i \in 0..n
  PROVE  /\ Rank(s, i) <= Rank(s, n)
         /\ i < n /\ Plain(s[n]) => Rank(s, i) < Rank(s, n)
<1> DEFINE P(k) == {j \in 1..k : Plain(s[j])}
<1>1. \A k \in Nat : IsFiniteSet(P(k)) /\ Rank(s, k) = Cardinality(P(k)) /\ Rank(s, k) \in Nat
  <2>1. \A k \in Nat : IsFiniteSet(1..k) /\ P(k) \subseteq 1..k
    BY FS_Interval
  <2>2. \A k \in Nat : Rank(s, k) = Cardinality(P(k))
    BY DEF Rank
  <2> QED BY <2>1, <2>2, FS_Subset, RankStep
<1>2. \A a, b \in Nat : a <= b => Rank(s, a) <= Rank(s, b)
  <2> SUFFICES ASSUME NEW a \in Nat, NEW b \in Nat, a <= b
               PROVE  Rank(s, a) <= Rank(s, b)
    OBVIOUS
  <2>1. P(a) \subseteq P(b)
    OBVIOUS
  <2> QED BY <1>1, <2>1, FS_Subset
<1>3. Rank(s, i) <= Rank(s, n)
  BY <1>2
<1>4. ASSUME i < n, Plain(s[n]) PROVE Rank(s, i) < Rank(s, n)
  <2>1. PICK m \in Nat : n = m + 1
    <3>1. n - 1 \in Nat /\ n = (n - 1) + 1
      BY <1>4
    <3> QED BY <3>1
  <2>2. Rank(s, n) = Rank(s, m) + 1 /\ Rank(s, m) \in Nat
    BY <1>4, <2>1, RankStep
  <2>3. Rank(s, i) <= Rank(s, m)
    BY <1>2, <1>4, <2>1
  <2>4. Rank(s, i) \in Nat
    BY RankStep
  <2> QED BY <2>2, <2>3, <2>4
<1> QED BY <1>3, <1>4

\* Every rank up to the last belongs to exactly one place with a plain message.
LEMMA PlaceFound ==
  ASSUME NEW s, NEW n \in Nat, NEW k \in 1..Rank(s, n)
  PROVE  \E i \in 1..n : /\ Plain(s[i]) /\ Rank(s, i) = k
                         /\ \A j \in 1..n : Plain(s[j]) /\ Rank(s, j) = k => j = i
<1> DEFINE S == {i \in 0..n : k <= Rank(s, i)}
<1>0. \A i \in Nat : Rank(s, i) \in Nat
  BY RankStep
<1>1. n \in S /\ S \subseteq Nat
  BY <1>0
<1>2. PICK i \in S : \A j \in S : i <= j
  <2>1. PICK x \in S : \A y \in S : ~(<<y, x>> \in OpToRel(<, Nat))
    BY <1>1, WFMin, NatLessThanWellFounded, Zenon
  <2>2. \A y \in S : ~(y < x)
    BY <1>1, <2>1, Zenon DEF OpToRel
  <2> QED BY <1>1, <2>2
<1>3. i # 0
  BY <1>0, RankStep
<1>4. PICK m \in Nat : i = m + 1
  <2>1. i - 1 \in Nat /\ i = (i - 1) + 1
    BY <1>3
  <2> QED BY <2>1
<1>5. m \in 0..n /\ m \notin S
  BY <1>2, <1>4
<1>6. Rank(s, m) < k
  BY <1>0, <1>5
<1>7. Plain(s[i]) /\ Rank(s, i) = k
  <2>1. Plain(s[m + 1]) => Rank(s, m + 1) = Rank(s, m) + 1
    BY RankStep
  <2>2. ~Plain(s[m + 1]) => Rank(s, m + 1) = Rank(s, m)
    BY RankStep
  <2>3. k <= Rank(s, m + 1)
    BY <1>4
  <2>4. Rank(s, m) \in Nat /\ k \in Nat
    BY <1>0
  <2>5. Plain(s[m + 1])
    BY <1>6, <2>2, <2>3, <2>4
  <2>6. Rank(s, m + 1) = Rank(s, m) + 1
    BY <2>1, <2>5
  <2>7. Rank(s, m + 1) = k
    BY <1>6, <2>3, <2>4, <2>6
  <2> QED BY <1>4, <2>5, <2>7
<1>8. ASSUME NEW j \in 1..n, Plain(s[j]), Rank(s, j) = k
      PROVE  j = i
  <2>1. j < i => Rank(s, j) < Rank(s, i)
    BY <1>7, RankGrows
  <2>2. i < j => Rank(s, i) < Rank(s, j)
    BY <1>8, RankGrows
  <2>3. k \in Nat
    BY <1>0
  <2> QED BY <1>7, <1>8, <2>1, <2>2, <2>3
<1>9. i \in 1..n
  BY <1>3
<1> QED BY <1>7, <1>8, <1>9

\* The plain messages are a sequence of messages, as long as the last rank.
LEMMA PlainOfType ==
  ASSUME NEW s \in Seq(Message)
  PROVE  /\ PlainOf(s) \in Seq(Message)
         /\ Len(PlainOf(s)) = Rank(s, Len(s)) /\ Rank(s, Len(s)) \in Nat
         /\ \A k \in 1..Rank(s, Len(s)) :
              /\ Place(s, k) \in 1..Len(s) /\ Plain(s[Place(s, k)])
              /\ Rank(s, Place(s, k)) = k
              /\ PlainOf(s)[k] = s[Place(s, k)]
<1>1. PICK n \in Nat : n = Len(s)
  BY LenProperties
<1>2. Rank(s, n) \in Nat
  BY RankStep
<1>3. ASSUME NEW k \in 1..Rank(s, n)
      PROVE  Place(s, k) \in 1..n /\ Plain(s[Place(s, k)]) /\ Rank(s, Place(s, k)) = k
  <2>1. \E i \in 1..n : Plain(s[i]) /\ Rank(s, i) = k
    BY PlaceFound
  <2> QED BY <1>1, <2>1 DEF Place
<1>4. \A k \in 1..Rank(s, n) : s[Place(s, k)] \in Message
  BY <1>1, <1>3, ElementOfSeq
<1>5. PlainOf(s) = [k \in 1..Rank(s, n) |-> s[Place(s, k)]]
  BY <1>1 DEF PlainOf
<1>6. PlainOf(s) \in [1..Rank(s, n) -> Message]
  BY <1>4, <1>5
<1>7. PlainOf(s) \in Seq(Message) /\ Len(PlainOf(s)) = Rank(s, n)
  <2>1. PlainOf(s) \in Seq(Message)
    BY <1>2, <1>6, SeqDef
  <2>2. DOMAIN PlainOf(s) = 1..Rank(s, n)
    BY <1>6
  <2> QED BY <1>2, <2>1, <2>2, LenProperties
<1> QED BY <1>1, <1>2, <1>3, <1>5, <1>7

\* What is sent later does not change what was plain before.
LEMMA PlainOfPrefix ==
  ASSUME NEW s \in Seq(Message), NEW t \in Seq(Message), Len(s) <= Len(t),
         \A i \in 1..Len(s) : t[i] = s[i]
  PROVE  /\ Len(PlainOf(s)) <= Len(PlainOf(t))
         /\ \A k \in 1..Len(PlainOf(s)) : PlainOf(t)[k] = PlainOf(s)[k]
         /\ \A n \in 0..Len(s) : Rank(t, n) = Rank(s, n)
<1>1. PICK n \in Nat : n = Len(s)
  BY LenProperties
<1>2. PICK m \in Nat : m = Len(t)
  BY LenProperties
<1>3. n <= m /\ n \in 0..m
  BY <1>1, <1>2
<1>4. \A i \in 0..n : Rank(t, i) = Rank(s, i)
  <2> SUFFICES ASSUME NEW i \in 0..n PROVE Rank(t, i) = Rank(s, i)
    OBVIOUS
  <2>1. \A j \in 1..i : t[j] = s[j]
    BY <1>1
  <2>2. {j \in 1..i : Plain(t[j])} = {j \in 1..i : Plain(s[j])}
    BY <2>1
  <2> QED BY <2>2 DEF Rank
<1>5. Rank(t, n) <= Rank(t, m)
  BY <1>3, RankGrows
<1>6. Rank(s, n) = Rank(t, n) /\ Rank(s, n) \in Nat /\ Rank(t, m) \in Nat
  BY <1>4, RankStep
<1>7. ASSUME NEW k \in 1..Rank(s, n)
      PROVE  PlainOf(t)[k] = PlainOf(s)[k]
  <2>1. k \in 1..Rank(t, m)
    BY <1>5, <1>6
  <2>2. /\ Place(s, k) \in 1..n /\ Plain(s[Place(s, k)]) /\ Rank(s, Place(s, k)) = k
        /\ PlainOf(s)[k] = s[Place(s, k)]
    BY <1>1, PlainOfType
  <2>3. /\ Place(t, k) \in 1..m /\ Plain(t[Place(t, k)]) /\ Rank(t, Place(t, k)) = k
        /\ PlainOf(t)[k] = t[Place(t, k)]
    BY <1>2, <2>1, PlainOfType
  <2>4. PICK i \in 1..m : /\ Plain(t[i]) /\ Rank(t, i) = k
                         /\ \A j \in 1..m : Plain(t[j]) /\ Rank(t, j) = k => j = i
    BY <2>1, PlaceFound
  <2>5. Place(s, k) \in 1..m /\ t[Place(s, k)] = s[Place(s, k)] /\ Rank(t, Place(s, k)) = k
    BY <1>1, <1>3, <1>4, <2>2
  <2>6. Place(s, k) = Place(t, k)
    BY <2>2, <2>3, <2>4, <2>5
  <2> QED BY <2>2, <2>3, <2>5, <2>6
<1> QED BY <1>1, <1>2, <1>4, <1>5, <1>6, <1>7, PlainOfType

\* A plain message is appended to the plain messages, any other is not there.
LEMMA PlainOfAppend ==
  ASSUME NEW s \in Seq(Message), NEW m \in Message
  PROVE  PlainOf(Append(s, m)) = IF Plain(m) THEN Append(PlainOf(s), m) ELSE PlainOf(s)
<1> DEFINE t == Append(s, m)
<1>1. PICK n \in Nat : n = Len(s)
  BY LenProperties
<1>2. t \in Seq(Message) /\ Len(t) = n + 1 /\ (\A i \in 1..n : t[i] = s[i]) /\ t[n + 1] = m
  BY <1>1
<1> HIDE DEF t
<1>3. /\ Len(PlainOf(s)) <= Len(PlainOf(t))
      /\ \A k \in 1..Len(PlainOf(s)) : PlainOf(t)[k] = PlainOf(s)[k]
      /\ \A i \in 0..n : Rank(t, i) = Rank(s, i)
  <2>1. Len(s) <= Len(t)
    BY <1>1, <1>2
  <2> QED BY <1>1, <1>2, <2>1, PlainOfPrefix
<1>4. /\ PlainOf(s) \in Seq(Message) /\ Len(PlainOf(s)) = Rank(s, n) /\ Rank(s, n) \in Nat
      /\ PlainOf(t) \in Seq(Message) /\ Len(PlainOf(t)) = Rank(t, n + 1)
  BY <1>1, <1>2, PlainOfType
<1>5. Rank(t, n) = Rank(s, n)
  BY <1>3
<1>6. CASE Plain(m)
  <2>1. Rank(t, n + 1) = Rank(s, n) + 1
    BY <1>2, <1>5, <1>6, RankStep
  <2>2. PICK r \in Nat : r = Rank(s, n)
    BY <1>4
  <2>3. r + 1 \in 1..Rank(t, n + 1)
    BY <2>1, <2>2
  <2>4. PICK i \in 1..n + 1 : /\ Plain(t[i]) /\ Rank(t, i) = r + 1
                             /\ \A j \in 1..n + 1 : Plain(t[j]) /\ Rank(t, j) = r + 1 => j = i
    BY <2>3, PlaceFound
  <2>5. /\ Place(t, r + 1) \in 1..n + 1 /\ Plain(t[Place(t, r + 1)])
        /\ Rank(t, Place(t, r + 1)) = r + 1 /\ PlainOf(t)[r + 1] = t[Place(t, r + 1)]
    BY <1>2, <2>3, PlainOfType
  <2>6. Place(t, r + 1) = n + 1
    BY <1>2, <1>6, <2>1, <2>2, <2>4, <2>5
  <2>7. PlainOf(t)[r + 1] = m
    BY <1>2, <2>5, <2>6
  <2> DEFINE a == Append(PlainOf(s), m)
  <2>8. a \in Seq(Message) /\ Len(a) = r + 1 /\ (\A k \in 1..r : a[k] = PlainOf(s)[k]) /\ a[r + 1] = m
    BY <1>4, <2>2
  <2> HIDE DEF a
  <2>9. Len(PlainOf(t)) = r + 1 /\ \A k \in 1..r : PlainOf(t)[k] = PlainOf(s)[k]
    BY <1>3, <1>4, <2>1, <2>2
  <2>10. \A k \in 1..r + 1 : PlainOf(t)[k] = a[k]
    BY <2>7, <2>8, <2>9
  <2>11. PlainOf(t) = a
    BY <1>4, <2>8, <2>9, <2>10, SeqEqual
  <2> QED BY <1>6, <2>11 DEF a, t
<1>7. CASE ~Plain(m)
  <2>1. Rank(t, n + 1) = Rank(s, n)
    BY <1>2, <1>5, <1>7, RankStep
  <2>2. PlainOf(t) = PlainOf(s)
    BY <1>3, <1>4, <2>1, SeqEqual
  <2> QED BY <1>7, <2>2 DEF t
<1> QED BY <1>6, <1>7

-----------------------------------------------------------------------------
(* The implementation of the broadcast.                                    *)

\* What every module has had is what was handled, less the reload requests.
DispersedIsPlain == dispersed = PlainOf(handled)

\* Only Remove adds to what is dispersed, and only a plain message.
LEMMA DispersedStep ==
  ASSUME DaemonTypeOK, DispersedIsPlain, [DaemonNext]_dvars
  PROVE  DispersedIsPlain'
<1> USE DEF deliveries, flags, configuration, hangups
<1>1. CASE Remove
  <2>1. /\ handled' = Append(handled, Head(queue)) /\ dispersed' = Append(dispersed, Head(queue))
        /\ Plain(Head(queue)) /\ Head(queue) \in Message
    BY <1>1, HeadTailProperties DEF Remove, RemoveHead, Dispatching, Plain, DaemonTypeOK
  <2> QED BY <2>1, PlainOfAppend DEF DispersedIsPlain, DaemonTypeOK
<1>2. CASE HandleReload
  <2>1. /\ handled' = Append(handled, Head(queue)) /\ dispersed' = dispersed
        /\ ~Plain(Head(queue)) /\ Head(queue) \in Message
    BY <1>2, HeadTailProperties DEF HandleReload, RemoveHead, Dispatching, Plain, DaemonTypeOK
  <2> QED BY <2>1, PlainOfAppend DEF DispersedIsPlain, DaemonTypeOK
<1>3. CASE ~Remove /\ ~HandleReload
  <2>1. UNCHANGED <<dispersed, handled>>
    <3>1. CASE ModInit \/ Poll \/ ModReload \/ Disperse \/ UpdateModule \/ Startup
      BY <3>1 DEF ModInit, Poll, ModReload, Disperse, UpdateModule, Startup
    <3>2. CASE \/ InstallHandlers \/ Select \/ QueueEmpty \/ UpdatesDone \/ LoopReturned
               \/ ConfigReload \/ ReloadDone \/ Shutdown
      BY <3>2 DEF InstallHandlers, Select, QueueEmpty, UpdatesDone, LoopReturned,
                  ConfigReload, ReloadDone, Shutdown
    <3>3. CASE Environment
      BY <3>3 DEF Environment, Killed, SigHup, SigTerm, EditFile
    <3>4. CASE UNCHANGED dvars
      BY <3>4 DEF dvars
    <3> QED BY <1>3, <3>1, <3>2, <3>3, <3>4 DEF DaemonNext, DaemonStep
  <2> QED BY <2>1 DEF DispersedIsPlain
<1> QED BY <1>1, <1>2, <1>3

\* Whatever a step does, the log of the broadcast only grows at its end.
LEMMA LogExtended ==
  ASSUME DaemonTypeOK, OrderedDelivery, [DaemonNext]_dvars
  PROVE  Bus!Extended
<1>1. \E b \in Seq(Message) : sent' = sent \o b
  <2>1. sent \o <<>> = sent /\ <<>> \in Seq(Message)
    BY ConcatEmptySeq, EmptySeq DEF DaemonTypeOK
  <2>2. CASE Remove \/ HandleReload
    BY <2>1, <2>2 DEF Remove, HandleReload
  <2>3. CASE ~Remove /\ ~HandleReload
    <3>1. Posting
      BY <2>3, StepsPost
    <3>2. CASE \E burst \in Burst : Sendmsg(burst)
      BY <3>2, BurstIsSeq DEF Sendmsg
    <3>3. CASE sent' = sent \o StartCommands
      BY <3>3, MessageAssumption
    <3>4. CASE SendsNothing
      BY <2>1, <3>4 DEF SendsNothing
    <3> QED BY <3>1, <3>2, <3>3, <3>4 DEF Posting
  <2> QED BY <2>2, <2>3
<1>2. PICK b \in Seq(Message) : sent' = sent \o b
  BY <1>1
<1>3. /\ sent \in Seq(Message) /\ sent' \in Seq(Message) /\ Len(sent) <= Len(sent')
      /\ \A i \in 1..Len(sent) : sent'[i] = sent[i]
  <2>1. sent \in Seq(Message) /\ Len(sent) \in Nat /\ Len(b) \in Nat
    BY LenProperties DEF DaemonTypeOK
  <2> QED BY <1>2, <2>1, ConcatProperties
<1> DEFINE p == PlainOf(sent)
           q == PlainOf(sent')
<1>4. /\ p \in Seq(Message) /\ q \in Seq(Message) /\ Len(p) <= Len(q)
      /\ \A k \in 1..Len(p) : q[k] = p[k]
  BY <1>3, PlainOfPrefix, PlainOfType
<1> HIDE DEF p, q
<1>5. SubSeq(q, 1, Len(p)) = p
  <2>1. /\ SubSeq(q, 1, Len(p)) \in Seq(Message) /\ Len(SubSeq(q, 1, Len(p))) = Len(p)
        /\ \A k \in 1..Len(p) : SubSeq(q, 1, Len(p))[k] = q[k]
    BY <1>4, LenProperties, ElementOfSeq, SubSeqProperties
  <2> QED BY <1>4, <2>1, SeqEqual
<1> QED BY <1>4, <1>5 DEF Bus!Extended, p, q

\* The module that is given the head of the queue is given the message of the
\* log that it has not had, when no other member is behind it.
LEMMA DisperseGives ==
  ASSUME DaemonTypeOK, OrderedDelivery, DispersedIsPlain, Bus!Extended,
         Disperse, NEW m \in Listening, m = modList[turn]
  PROVE  Bus!Give(m)
<1> USE DEF Disperse, Dispatching, AtEnd
<1> DEFINE h == Head(queue)
           log == PlainOf(sent)
<1>1. turn \in 1..Len(modList) /\ m \in Module /\ m \in Registered
  BY LenProperties, ElementOfSeq DEF DaemonTypeOK, Registered
<1>2. /\ dispersed \in Seq(Message) /\ Len(dispersed) \in Nat
      /\ h \in Message /\ Plain(h) /\ handled \in Seq(Message) /\ sent \in Seq(Message)
  BY HeadTailProperties, LenProperties DEF DaemonTypeOK, Plain
<1>3. received[m] = dispersed
  BY <1>1 DEF OrderedDelivery
<1>4. \A n \in Registered \cap Listening :
        received[n] = dispersed \/ received[n] = Append(dispersed, h)
  BY DEF OrderedDelivery, Registered
<1>5. Len(dispersed) < Len(log) /\ log[Len(dispersed) + 1] = h
  <2> DEFINE t == Append(handled, h)
  <2>1. PlainOf(t) = Append(dispersed, h)
    BY <1>2, PlainOfAppend DEF DispersedIsPlain
  <2>2. t \in Seq(Message) /\ Len(t) <= Len(sent) /\ \A i \in 1..Len(t) : sent[i] = t[i]
    <3>1. /\ t \in Seq(Message) /\ Tail(queue) \in Seq(Message) /\ sent = t \o Tail(queue)
      BY HeadMoves DEF DaemonTypeOK, OrderedDelivery
    <3>2. Len(t) \in Nat /\ Len(Tail(queue)) \in Nat
      BY <3>1, LenProperties
    <3> HIDE DEF t
    <3> QED BY <3>1, <3>2, ConcatProperties
  <2> HIDE DEF t
  <2>3. /\ Len(PlainOf(t)) <= Len(log)
        /\ \A k \in 1..Len(PlainOf(t)) : log[k] = PlainOf(t)[k]
    BY <1>2, <2>2, PlainOfPrefix
  <2> DEFINE a == Append(dispersed, h)
  <2>4. Len(a) = Len(dispersed) + 1 /\ a[Len(dispersed) + 1] = h
    BY <1>2
  <2> HIDE DEF a
  <2>5. PlainOf(t) = a
    BY <2>1 DEF a
  <2>6. Len(log) \in Nat
    BY <1>2, PlainOfType, LenProperties
  <2> QED BY <1>2, <2>3, <2>4, <2>5, <2>6
<1> HIDE DEF log
<1>6. \A n \in Registered \cap Listening : Len(dispersed) <= Len(received[n])
  <2>1. Len(Append(dispersed, h)) = Len(dispersed) + 1
    BY <1>2
  <2> QED BY <1>2, <1>4, <2>1
<1>7. received' = [received EXCEPT ![m] = Append(dispersed, h)]
  BY <1>3
<1> DEFINE r == [n \in Listening |-> received[n]]
<1>8. [n \in Listening |-> received'[n]] = [r EXCEPT ![m] = Append(@, log[Len(@) + 1])]
  <2>1. \A n \in Listening : received'[n] = IF n = m THEN Append(dispersed, h) ELSE received[n]
    BY <1>7, CallbackAssumption DEF DaemonTypeOK
  <2>2. r[m] = dispersed /\ log[Len(r[m]) + 1] = h
    BY <1>3, <1>5
  <2>3. [r EXCEPT ![m] = Append(@, log[Len(@) + 1])] =
          [n \in Listening |-> IF n = m THEN Append(r[m], log[Len(r[m]) + 1]) ELSE r[n]]
    OBVIOUS
  <2>4. [n \in Listening |-> received'[n]] =
          [n \in Listening |-> IF n = m THEN Append(dispersed, h) ELSE r[n]]
    BY <2>1
  <2> HIDE DEF r
  <2> QED BY <2>2, <2>3, <2>4
<1>9. m \in Registered \cap Listening /\ r[m] = dispersed
      /\ \A n \in Registered \cap Listening : r[n] = received[n]
  BY <1>1, <1>3
<1>10. UNCHANGED (Registered \cap Listening)
  BY DEF Registered
<1> QED BY <1>5, <1>6, <1>8, <1>9, <1>10 DEF Bus!Give, log

\* Every step of the daemon is a step of the broadcast, or none.
LEMMA BroadcastStep ==
  ASSUME DaemonTypeOK, OrderedDelivery, DeliveryContext, DispersedIsPlain, [DaemonNext]_dvars
  PROVE  [Bus!BNext]_(Bus!bvars)
<1> USE DEF deliveries, flags, configuration, hangups
<1>0. Bus!Extended
  BY LogExtended
<1>a. ASSUME UNCHANGED <<modList, received>> PROVE Bus!BNext
  <2>1. UNCHANGED (Registered \cap Listening)
    BY <1>a DEF Registered
  <2>2. Bus!Post
    BY <1>0, <1>a, <2>1 DEF Bus!Post
  <2> QED BY <2>2 DEF Bus!BNext
<1>1. CASE ModInit
  <2> USE <1>1 DEF ModInit
  <2> DEFINE m == InitOrder[initialised + 1]
  <2>1. CASE modList' = modList
    BY <1>a, <2>1
  <2>2. CASE modList' = Append(modList, m)
    <3>1. /\ initialised + 1 \in 1..Len(InitOrder) /\ m \in Module
      BY ModuleAssumption, LenProperties, ElementOfSeq DEF DaemonTypeOK
    <3>2. Registered' = Registered \cup {m}
      <4>1. PICK n \in Nat : n = Len(modList)
        BY LenProperties DEF DaemonTypeOK
      <4>2. Len(modList') = n + 1 /\ (\A i \in 1..n : modList'[i] = modList[i]) /\ modList'[n + 1] = m
        BY <2>2, <3>1, <4>1 DEF DaemonTypeOK
      <4> QED BY <4>1, <4>2 DEF Registered
    <3>3. m \notin Registered
      <4> SUFFICES ASSUME NEW i \in 1..Len(modList), modList[i] = m PROVE FALSE
        BY DEF Registered
      <4>1. PICK k \in 1..initialised : modList[i] = InitOrder[k]
        BY DEF DeliveryContext
      <4>2. k \in 1..Len(InitOrder) /\ initialised + 1 \in 1..Len(InitOrder) /\ k # initialised + 1
        BY <3>1, ModuleAssumption, LenProperties DEF DaemonTypeOK
      <4> QED BY <4>1, <4>2, ModuleAssumption
    <3>4. CASE m \in Listening
      <4>1. \A n \in Listening : received[n] = <<>>
        BY CallbackAssumption DEF DeliveryContext
      <4>2. (Registered \cap Listening)' = (Registered \cap Listening) \cup {m}
        BY <3>2, <3>4
      <4>3. Bus!Join(m)
        BY <1>0, <3>3, <4>1, <4>2 DEF Bus!Join
      <4> QED BY <3>4, <4>3 DEF Bus!BNext
    <3>5. CASE m \notin Listening
      <4>1. UNCHANGED (Registered \cap Listening)
        BY <3>2, <3>5
      <4>2. Bus!Post
        BY <1>0, <4>1 DEF Bus!Post
      <4> QED BY <4>2 DEF Bus!BNext
    <3> QED BY <3>4, <3>5
  <2> QED BY <2>1, <2>2
<1>2. CASE Disperse
  <2>1. CASE modList[turn] \in Listening
    <3>1. PICK m \in Listening : m = modList[turn]
      BY <2>1
    <3>2. Bus!Give(m)
      BY <1>0, <1>2, <3>1, DisperseGives
    <3> QED BY <3>2 DEF Bus!BNext
  <2>2. CASE modList[turn] \notin Listening
    BY <1>2, <1>a, <2>2 DEF Disperse
  <2> QED BY <2>1, <2>2
<1>3. CASE Shutdown
  <2>1. Len(modList') = 0 /\ UNCHANGED <<sent, received>>
    BY <1>3 DEF Shutdown, SendsNothing
  <2>2. (Registered \cap Listening)' = {}
    BY <2>1 DEF Registered
  <2>3. Bus!Disband
    BY <2>1, <2>2 DEF Bus!Disband
  <2> QED BY <2>3 DEF Bus!BNext
<1>4. CASE Startup \/ Poll \/ HandleReload \/ Remove \/ UpdateModule \/ ModReload
  BY <1>4, <1>a DEF Startup, Poll, HandleReload, Remove, UpdateModule, ModReload
<1>5. CASE \/ InstallHandlers \/ Select \/ QueueEmpty \/ UpdatesDone \/ LoopReturned
           \/ ConfigReload \/ ReloadDone
  BY <1>5, <1>a DEF InstallHandlers, Select, QueueEmpty, UpdatesDone, LoopReturned,
                    ConfigReload, ReloadDone
<1>6. CASE Environment
  BY <1>6, <1>a DEF Environment, Killed, SigHup, SigTerm, EditFile
<1>7. CASE UNCHANGED dvars
  BY <1>7, <1>a DEF dvars
<1> QED BY <1>1, <1>2, <1>3, <1>4, <1>5, <1>6, <1>7 DEF DaemonNext, DaemonStep

\* The queue, the module list and the dispersal loop, with callbacks that post
\* while they are being called, implement an ordered broadcast to the modules.
THEOREM BroadcastImplemented == DaemonSpec => ImplementsBroadcast
<1>1. DaemonInit => /\ Bus!BInit /\ DispersedIsPlain
                    /\ OrderedDelivery /\ DeliveryContext
  <2> SUFFICES ASSUME DaemonInit
               PROVE  /\ Bus!BInit /\ DispersedIsPlain
                      /\ OrderedDelivery /\ DeliveryContext
    OBVIOUS
  <2>1. PlainOf(<<>>) = <<>>
    <3>1. <<>> \in Seq(Message) /\ Len(<<>>) = 0
      BY EmptySeq
    <3>2. PlainOf(<<>>) \in Seq(Message) /\ Len(PlainOf(<<>>)) = 0
      BY <3>1, PlainOfType, RankStep
    <3> QED BY <3>2, EmptySeq
  <2>2. Len(modList) = 0 /\ 1..Len(modList) = {}
    BY DEF DaemonInit
  <2>3. Registered \cap Listening = {}
    BY <2>2 DEF Registered
  <2>4. [m \in Listening |-> received[m]] = [m \in Listening |-> <<>>]
    BY CallbackAssumption DEF DaemonInit
  <2>5. Bus!BInit
    BY <2>1, <2>3, <2>4 DEF DaemonInit, Bus!BInit
  <2>6. sent = handled \o queue
    BY EmptySeq, ConcatEmptySeq DEF DaemonInit
  <2>7. OrderedDelivery /\ DeliveryContext
    BY <2>2, <2>6 DEF DaemonInit, OrderedDelivery, DeliveryContext
  <2> QED BY <2>1, <2>5, <2>7 DEF DaemonInit, DispersedIsPlain
<1>2. /\ DaemonTypeOK /\ OrderedDelivery /\ DeliveryContext /\ DispersedIsPlain
      /\ [DaemonNext]_dvars
      => (OrderedDelivery /\ DeliveryContext /\ DispersedIsPlain)'
  BY DeliveryStep, DispersedStep
<1>3. /\ DaemonTypeOK /\ OrderedDelivery /\ DeliveryContext /\ DispersedIsPlain
      /\ [DaemonNext]_dvars
      => [Bus!BNext]_(Bus!bvars)
  BY BroadcastStep
<1> QED BY <1>1, <1>2, <1>3, DaemonTypeCorrect, PTL
        DEF DaemonSpec, ImplementsBroadcast, Bus!BroadcastSpec

=============================================================================
