-------------------------- MODULE MpdClientProofs --------------------------
(***************************************************************************)
(* Proofs about MpdClient: its type invariant, and that the library and    *)
(* the server stay in step until a fault misaligns the stream, with an     *)
(* exact count of list_OK lines.                                           *)
(***************************************************************************)
EXTENDS MpdClient, FiniteSetTheorems, TLAPS

\* Every variable of the connection keeps its type, whatever the caller calls
\* and however the transport behaves.
THEOREM TypeCorrect == Spec => []TypeOK
<1>1. Init => TypeOK
  <2>1. <<>> \in Seq(Request) /\ <<>> \in Seq(Line)
    OBVIOUS
  <2>2. Init => listOks \in Nat /\ error \in Error
    BY DEF Init, Error
  <2> QED BY <2>1, <2>2 DEF Init, TypeOK
<1>2. TypeOK /\ [Next]_vars => TypeOK'
  <2> SUFFICES ASSUME TypeOK, [Next]_vars PROVE TypeOK'
    OBVIOUS
  <2> USE DEF TypeOK, Error
  <2>a. \A r \in Command \cup {ListBegin, ListEnd} : Append(requests, r) \in Seq(Request)
    BY DEF Request
  <2>b. \A k \in {"OK", "ACK", "list_OK", "data"}, r \in Request,
          e \in Element \cup {NoElement} :
            Append(answers, [kind |-> k, of |-> r, elem |-> e]) \in Seq(Line)
    <3>1. \A k \in {"OK", "ACK", "list_OK", "data"}, r \in Request,
            e \in Element \cup {NoElement} : [kind |-> k, of |-> r, elem |-> e] \in Line
      BY DEF Line, Terminator
    <3> QED BY <3>1
  <2>c. list # <<>> => Head(list) \in Request /\ Tail(list) \in Seq(Request)
    OBVIOUS
  <2>d. answers # <<>> => Tail(answers) \in Seq(Line)
    OBVIOUS
  <2>1. ASSUME NEW r \in Command, ExecuteCommand(r) PROVE TypeOK'
    <3>1. CASE ExecutePlain(r)
      BY <2>a, <3>1 DEF ExecutePlain, Transmit, FailToSend, server
    <3>2. CASE ExecuteListed(r)
      <4>1. CASE Transmit(r) /\ listOks' = listOks + 1
        BY <2>a, <3>2, <4>1 DEF ExecuteListed, Transmit, server
      <4>2. CASE FailToSend(TRUE) /\ UNCHANGED listOks
        BY <3>2, <4>2 DEF ExecuteListed, FailToSend, server
      <4> QED BY <3>2, <4>1, <4>2 DEF ExecuteListed
    <3>3. CASE ExecuteRejected
      BY <3>3 DEF ExecuteRejected, server
    <3> QED BY <2>1, <3>1, <3>2, <3>3 DEF ExecuteCommand
  <2>2. CASE SendCommandListOkBegin
    BY <2>a, <2>2 DEF SendCommandListOkBegin, Transmit, FailToSend, server
  <2>3. CASE SendCommandListEnd
    BY <2>a, <2>3 DEF SendCommandListEnd, Transmit, FailToSend, server
  <2>4. CASE BracketRefused
    BY <2>4 DEF BracketRefused, server
  <2>5. CASE ReadAlreadyDone
    BY <2>5 DEF ReadAlreadyDone, server
  <2>6. CASE ReadData
    <3>1. Head(answers) \in Line /\ Tail(answers) \in Seq(Line)
      BY <2>6 DEF ReadData, Receive
    <3>2. Head(answers).elem \in Element \cup {NoElement}
      BY <3>1 DEF Line
    <3> QED BY <2>6, <3>1, <3>2 DEF ReadData, Receive, server
  <2>7. CASE ReadOK
    BY <2>7, <2>d DEF ReadOK, Receive, server
  <2>8. CASE ReadListOK
    <3>1. listOks' \in Nat /\ doneListOk' \in BOOLEAN /\ error' \in Error
      <4>1. CASE listOks = 0
        BY <2>8, <4>1 DEF ReadListOK
      <4>2. CASE listOks # 0
        BY <2>8, <4>2 DEF ReadListOK
      <4> QED BY <4>1, <4>2
    <3> QED BY <2>8, <2>d, <3>1 DEF ReadListOK, Receive, server
  <2>9. CASE ReadACK
    BY <2>9, <2>d DEF ReadACK, Receive, server
  <2>10. CASE ReadTimeout
    BY <2>10 DEF ReadTimeout, server
  <2>11. CASE ReadClosed
    BY <2>11 DEF ReadClosed, server
  <2>12. CASE ClearDoneListOk
    BY <2>12 DEF ClearDoneListOk, server
  <2>13. CASE Accept
    <3>1. Head(requests) \in Request /\ Tail(requests) \in Seq(Request)
      BY <2>13 DEF Accept
    <3>2. /\ <<>> \in Seq(Request) /\ <<Head(requests)>> \in Seq(Request)
          /\ list \in Seq(Request) /\ Append(list, Head(requests)) \in Seq(Request)
      BY <3>1
    <3>3. list' \in {<<>>, <<Head(requests)>>, list, Append(list, Head(requests))}
          /\ mode' \in {"ready", "collecting", "single", "listing"}
      BY <2>13 DEF Accept
    <3>4. answers' \in Seq(Line)
      BY <2>13, <2>b, <3>1 DEF Accept
    <3>5. list' \in Seq(Request)
      BY <3>2, <3>3
    <3> QED BY <2>13, <3>1, <3>3, <3>4, <3>5 DEF Accept, conn
  <2>14. ASSUME NEW e \in Element, EmitData(e) PROVE TypeOK'
    BY <2>14, <2>b, <2>c DEF EmitData, Emit, conn
  <2>15. CASE EmitListOK
    BY <2>15, <2>b, <2>c DEF EmitListOK, Emit, conn
  <2>16. CASE EmitOK
    <3>1. (IF mode = "single" THEN Head(list) ELSE ListEnd) \in Request
      BY <2>16, <2>c DEF EmitOK, Answering, Request
    <3> QED BY <2>16, <2>b, <3>1 DEF EmitOK, Emit, conn
  <2>17. CASE EmitACK
    BY <2>17, <2>b, <2>c DEF EmitACK, Emit, conn
  <2>18. CASE ServerClose
    BY <2>18 DEF ServerClose, conn
  <2>19. CASE UNCHANGED vars
    BY <2>19 DEF vars, conn, server
  <2> QED
    BY <2>1, <2>2, <2>3, <2>4, <2>5, <2>6, <2>7, <2>8, <2>9, <2>10, <2>11,
       <2>12, <2>13, <2>14, <2>15, <2>16, <2>17, <2>18, <2>19
       DEF Next, Caller, Server, GetNextReturnElement
<1> QED BY <1>1, <1>2, PTL DEF Spec

-----------------------------------------------------------------------------
(* The inductive invariant.  A closed connection counts as a fault, so that  *)
(* as long as the stream is in step every request is answered.               *)

InStep ==
  /\ serverUp
  /\ commandList => doneProcessing /\ ListOpen
  /\ ~commandList /\ doneProcessing => NothingInFlight
  /\ ~commandList /\ ~doneProcessing =>
       RequestUnderWay \/ BeingAnswered \/ FullyAnswered

IInv == ~desynced => InStep

\* Sending: a plain command is written only when nothing is in flight, and a
\* listed one only while the list is open.
LEMMA SendingKeepsStep ==
  ASSUME TypeOK, InStep, ~desynced, ~desynced',
         \/ \E r \in Command : ExecuteCommand(r)
         \/ doneProcessing /\ SendCommandListOkBegin
         \/ SendCommandListEnd
  PROVE  InStep'
<1> USE BracketsAssumption DEF TypeOK, Request
<1>1. ASSUME NEW r \in Command, ExecutePlain(r) PROVE InStep'
  <2>1. CASE Transmit(r) /\ doneProcessing' = FALSE
    <3>0. NothingInFlight /\ serverUp
      BY <1>1 DEF ExecutePlain, Busy, InStep
    <3>1. requests' = <<r>> /\ answers' = <<>> /\ mode' = "ready" /\ list' = <<>>
      BY <1>1, <2>1, <3>0 DEF ExecutePlain, NothingInFlight, Transmit, server
    <3>2. ~commandList' /\ ~doneProcessing' /\ serverUp'
      BY <1>1, <2>1 DEF ExecutePlain, InStep, server
    <3>3. RequestUnderWay'
      BY <3>1 DEF RequestUnderWay
    <3> QED BY <3>2, <3>3 DEF InStep
  <2>2. CASE FailToSend(FALSE) /\ UNCHANGED doneProcessing
    BY <1>1, <2>2 DEF ExecutePlain, FailToSend, Busy, InStep, NothingInFlight, server
  <2> QED BY <1>1, <2>1, <2>2 DEF ExecutePlain
<1>2. ASSUME NEW r \in Command, ExecuteListed(r) PROVE InStep'
  <2>1. CASE Transmit(r)
    <3>1. requests' = Append(requests, r) /\ UNCHANGED <<answers, mode, list>>
      BY <1>2, <2>1 DEF ExecuteListed, Transmit, InStep, server
    <3>2. ListOpen'
      BY <1>2, <3>1 DEF ExecuteListed, InStep, ListOpen
    <3> QED BY <1>2, <3>2 DEF ExecuteListed, InStep, server
  <2>2. CASE FailToSend(TRUE)
    BY <2>2 DEF FailToSend
  <2> QED BY <1>2, <2>1, <2>2 DEF ExecuteListed
<1>3. CASE ExecuteRejected
  BY <1>3 DEF ExecuteRejected, InStep, RequestUnderWay, BeingAnswered,
              FullyAnswered, Busy, server
<1>4. CASE doneProcessing /\ SendCommandListOkBegin
  <2>1. CASE Transmit(ListBegin)
    <3>1. requests' = <<ListBegin>> /\ answers' = <<>> /\ mode' = "ready" /\ list' = <<>>
      BY <1>4, <2>1 DEF SendCommandListOkBegin, Transmit, InStep, NothingInFlight, server
    <3>2. ListOpen'
      BY <3>1 DEF ListOpen
    <3> QED BY <1>4, <3>2 DEF SendCommandListOkBegin, InStep, server
  <2>2. CASE FailToSend(TRUE)
    BY <2>2 DEF FailToSend
  <2> QED BY <1>4, <2>1, <2>2 DEF SendCommandListOkBegin
<1>5. CASE SendCommandListEnd
  <2>1. doneProcessing /\ ListOpen
    BY <1>5 DEF SendCommandListEnd, InStep
  <2>2. CASE Transmit(ListEnd) /\ doneProcessing' = FALSE
    <3>1. requests' = Append(requests, ListEnd) /\ UNCHANGED <<answers, mode, list>>
      BY <1>5, <2>2 DEF SendCommandListEnd, Transmit, InStep, server
    <3>2. RequestUnderWay'
      BY <2>1, <3>1 DEF ListOpen, RequestUnderWay
    <3> QED BY <1>5, <2>2, <3>2 DEF SendCommandListEnd, InStep, server
  <2>3. CASE FailToSend(TRUE)
    BY <2>3 DEF FailToSend
  <2> QED BY <1>5, <2>1, <2>2, <2>3 DEF SendCommandListEnd
<1> QED BY <1>1, <1>2, <1>3, <1>4, <1>5 DEF ExecuteCommand

\* Reading: the terminator is read last, and with it doneProcessing is set.
LEMMA ReadingKeepsStep ==
  ASSUME TypeOK, InStep, ~desynced, ~desynced',
         GetNextReturnElement \/ ClearDoneListOk
  PROVE  InStep'
<1> USE DEF TypeOK
<1>1. CASE ReadAlreadyDone
  BY <1>1 DEF ReadAlreadyDone, InStep, ListOpen, NothingInFlight, RequestUnderWay,
              BeingAnswered, FullyAnswered, server
<1>2. CASE ClearDoneListOk
  BY <1>2 DEF ClearDoneListOk, InStep, RequestUnderWay, BeingAnswered,
              FullyAnswered, server
<1>3. ASSUME NEW k, k \in {"data", "list_OK"}, Receive(k),
             UNCHANGED <<doneProcessing, commandList, requests, server>>
      PROVE  InStep'
  <2>1. ~doneProcessing /\ ~commandList /\ answers # <<>>
        /\ Head(answers) = answers[1] /\ answers[1].kind \notin Terminator
    BY <1>3 DEF Receive, AlreadyDone, InStep, Terminator
  <2>2. /\ Tail(answers) \in Seq(Line)
        /\ Len(Tail(answers)) = Len(answers) - 1
        /\ \A i \in 1..Len(answers)-1 : Tail(answers)[i] = answers[i+1]
    BY <2>1
  <2>3. answers' = Tail(answers)
    BY <1>3 DEF Receive
  <2>4. CASE BeingAnswered
    <3>1. BeingAnswered'
      BY <1>3, <2>2, <2>3, <2>4 DEF BeingAnswered, server
    <3> QED BY <1>3, <2>1, <3>1 DEF InStep, server
  <2>5. CASE FullyAnswered
    <3>1. Len(answers) > 1
      BY <2>1, <2>5 DEF FullyAnswered
    <3>2. answers' # <<>> /\ Len(answers') = Len(answers) - 1
      <4>1. answers' \in Seq(Line) /\ Len(answers') > 0
        BY <2>2, <2>3, <3>1
      <4>2. answers' # <<>>
        BY <4>1
      <4> QED BY <2>2, <2>3, <4>2
    <3>3. ASSUME NEW i \in 1..Len(answers')
          PROVE  answers'[i].kind \in Terminator <=> i = Len(answers')
      <4>1. i+1 \in 1..Len(answers) /\ answers'[i] = answers[i+1]
        BY <2>2, <2>3, <3>2
      <4> QED BY <2>5, <3>2, <4>1 DEF FullyAnswered
    <3>4. FullyAnswered'
      BY <1>3, <2>5, <3>2, <3>3 DEF FullyAnswered, server
    <3> QED BY <1>3, <2>1, <3>4 DEF InStep, server
  <2> QED BY <2>1, <2>4, <2>5 DEF InStep, RequestUnderWay
<1>4. ASSUME NEW k \in Terminator, Receive(k), doneProcessing' = TRUE,
             UNCHANGED <<commandList, requests, server>>
      PROVE  InStep'
  <2>1. ~doneProcessing /\ ~commandList /\ answers # <<>>
        /\ Head(answers) = answers[1] /\ answers[1].kind \in Terminator
    BY <1>4 DEF Receive, AlreadyDone, InStep
  <2>2. FullyAnswered
    BY <2>1 DEF InStep, RequestUnderWay, BeingAnswered
  <2>3. Len(answers) = 1
    <3>1. 1 \in 1..Len(answers)
      BY <2>1
    <3> QED BY <2>1, <2>2, <3>1 DEF FullyAnswered
  <2>4. answers' = <<>>
    BY <1>4, <2>3 DEF Receive
  <2> QED BY <1>4, <2>1, <2>2, <2>4 DEF InStep, FullyAnswered, NothingInFlight, server
<1>5. CASE ReadData
  BY <1>3, <1>5 DEF ReadData
<1>6. CASE ReadListOK
  BY <1>3, <1>6 DEF ReadListOK
<1>7. CASE ReadOK
  BY <1>4, <1>7 DEF ReadOK, Terminator
<1>8. CASE ReadACK
  BY <1>4, <1>8 DEF ReadACK, Terminator
<1>9. CASE ReadTimeout
  BY <1>9 DEF ReadTimeout
<1>10. CASE ReadClosed
  BY <1>10 DEF ReadClosed, InStep
<1> QED
  BY <1>1, <1>2, <1>5, <1>6, <1>7, <1>8, <1>9, <1>10 DEF GetNextReturnElement

\* The server: it takes over the one request under way and terminates its answer.
LEMMA ServingKeepsStep ==
  ASSUME TypeOK, InStep, ~desynced, ~desynced', Server
  PROVE  InStep'
<1> USE BracketsAssumption DEF TypeOK, Request
<1>1. CASE Accept
  <2>1. requests # <<>> /\ requests' = Tail(requests) /\ Head(requests) = requests[1]
        /\ UNCHANGED <<conn, serverUp>>
    BY <1>1 DEF Accept
  <2>2. /\ requests' \in Seq(Request)
        /\ Len(requests') = Len(requests) - 1
        /\ \A i \in 1..Len(requests)-1 : requests'[i] = requests[i+1]
    BY <2>1
  <2>3. CASE commandList
    <3>1. doneProcessing /\ ListOpen
      BY <2>3 DEF InStep
    <3>2. /\ requests[1] # ListEnd
          /\ mode = "ready" => requests[1] = ListBegin
      BY <2>1, <3>1 DEF ListOpen
    <3>3. mode' = "collecting" /\ answers' = answers
      BY <1>1, <2>1, <3>1, <3>2 DEF Accept, ListOpen
    <3>4. ListOpen'
      BY <2>2, <3>1, <3>3 DEF ListOpen
    <3> QED BY <2>1, <2>3, <3>1, <3>4 DEF InStep, conn
  <2>4. CASE ~commandList
    <3>1. ~doneProcessing /\ RequestUnderWay
      BY <2>1, <2>4 DEF InStep, NothingInFlight, BeingAnswered, FullyAnswered
    <3>2. CASE mode = "ready" /\ Len(requests) = 1 /\ requests[1] \in Command
      <4>1. mode' = "single" /\ list' # <<>> /\ answers' = <<>> /\ requests' = <<>>
        BY <1>1, <2>1, <2>2, <3>1, <3>2 DEF Accept, RequestUnderWay
      <4>2. BeingAnswered'
        BY <4>1 DEF BeingAnswered
      <4> QED BY <2>1, <2>4, <3>1, <4>2 DEF InStep, conn
    <3>3. CASE mode = "ready" /\ Len(requests) >= 2 /\ requests[1] = ListBegin
               /\ requests[Len(requests)] = ListEnd
               /\ \A i \in 2..Len(requests)-1 : requests[i] \in Command
      <4>1. mode' = "collecting" /\ answers' = <<>>
        BY <1>1, <2>1, <3>1, <3>3 DEF Accept, RequestUnderWay
      <4>2. requests' # <<>> /\ requests'[Len(requests')] = ListEnd
        BY <2>2, <3>3
      <4>3. ASSUME NEW i \in 1..Len(requests')-1 PROVE requests'[i] \in Command
        <5>1. i+1 \in 2..Len(requests)-1 /\ requests'[i] = requests[i+1]
          BY <2>2, <4>2
        <5> QED BY <3>3, <5>1
      <4>4. RequestUnderWay'
        BY <4>1, <4>2, <4>3 DEF RequestUnderWay
      <4> QED BY <2>1, <2>4, <3>1, <4>4 DEF InStep, conn
    <3>4. CASE mode = "collecting" /\ requests[Len(requests)] = ListEnd
               /\ \A i \in 1..Len(requests)-1 : requests[i] \in Command
      <4>1. CASE Len(requests) = 1
        <5>1. mode' = "listing" /\ answers' = <<>> /\ requests' = <<>>
          BY <1>1, <2>1, <2>2, <3>1, <3>4, <4>1 DEF Accept, RequestUnderWay
        <5>2. BeingAnswered'
          BY <5>1 DEF BeingAnswered
        <5> QED BY <2>1, <2>4, <3>1, <5>2 DEF InStep, conn
      <4>2. CASE Len(requests) > 1
        <5>1. mode' = "collecting" /\ answers' = <<>>
          BY <1>1, <2>1, <3>1, <3>4, <4>2 DEF Accept, RequestUnderWay
        <5>2. requests' # <<>> /\ requests'[Len(requests')] = ListEnd
          BY <2>2, <3>4, <4>2
        <5>3. \A i \in 1..Len(requests')-1 : requests'[i] \in Command
          BY <2>2, <3>4
        <5>4. RequestUnderWay'
          BY <5>1, <5>2, <5>3 DEF RequestUnderWay
        <5> QED BY <2>1, <2>4, <3>1, <5>4 DEF InStep, conn
      <4> QED
        <5>1. Len(requests) \in Nat /\ Len(requests) # 0
          BY <2>1
        <5> QED BY <4>1, <4>2, <5>1
    <3> QED BY <3>1, <3>2, <3>3, <3>4 DEF RequestUnderWay
  <2> QED BY <2>3, <2>4
<1>2. ASSUME Answering PROVE ~commandList /\ ~doneProcessing /\ BeingAnswered
  <2>1. mode \in {"single", "listing"}
    BY <1>2 DEF Answering
  <2> QED BY <2>1 DEF InStep, ListOpen, NothingInFlight, RequestUnderWay, FullyAnswered
<1>3. ASSUME NEW k \in {"data", "list_OK"}, NEW r, NEW e, Emit(k, r, e), Answering,
             mode' = mode, mode = "single" => list' # <<>>
      PROVE  InStep'
  <2>1. BeingAnswered'
    BY <1>2, <1>3 DEF BeingAnswered, Emit, Terminator
  <2> QED BY <1>2, <1>3, <2>1 DEF InStep, Emit, conn
<1>4. ASSUME NEW k \in Terminator, NEW r, NEW e, Emit(k, r, e), Answering,
             mode' = "ready", list' = <<>>
      PROVE  InStep'
  <2>1. FullyAnswered'
    BY <1>2, <1>4 DEF BeingAnswered, FullyAnswered, Emit
  <2> QED BY <1>2, <1>4, <2>1 DEF InStep, Emit, conn
<1>5. ASSUME NEW e \in Element, EmitData(e) PROVE InStep'
  BY <1>3, <1>5 DEF EmitData
<1>6. CASE EmitListOK
  BY <1>3, <1>6 DEF EmitListOK
<1>7. CASE EmitOK
  BY <1>4, <1>7 DEF EmitOK, Terminator
<1>8. CASE EmitACK
  BY <1>4, <1>8 DEF EmitACK, Terminator
<1>9. CASE ServerClose
  BY <1>9 DEF ServerClose
<1> QED BY <1>1, <1>5, <1>6, <1>7, <1>8, <1>9 DEF Server

\* IInv is inductive: each action stays in a stage of one exchange or goes to the
\* next.
LEMMA InStepAlways == Spec => []IInv
<1>1. Init => IInv
  BY DEF Init, IInv, InStep, NothingInFlight
<1>2. TypeOK /\ IInv /\ [Next]_vars => IInv'
  <2> SUFFICES ASSUME TypeOK, IInv, [Next]_vars, ~desynced' PROVE InStep'
    BY DEF IInv
  <2>1. CASE UNCHANGED vars
    BY <2>1 DEF vars, conn, server, IInv, InStep, ListOpen, NothingInFlight,
                RequestUnderWay, BeingAnswered, FullyAnswered
  <2>2. ASSUME Next PROVE ~desynced
    BY <2>2 DEF Next, Caller, Server, ExecuteCommand, ExecutePlain, ExecuteListed,
       ExecuteRejected, SendCommandListOkBegin, SendCommandListEnd, BracketRefused,
       GetNextReturnElement, ReadAlreadyDone, ReadData, ReadOK, ReadListOK, ReadACK,
       ReadTimeout, ReadClosed, ClearDoneListOk, Accept, EmitData, EmitListOK,
       EmitOK, EmitACK, Emit, ServerClose, Transmit, FailToSend, TypeOK
  <2>3. CASE BracketRefused
    <3>1. InStep
      BY <2>2, <2>3 DEF IInv, Next, Caller
    <3> QED BY <2>3, <3>1 DEF BracketRefused, InStep, ListOpen, NothingInFlight,
                RequestUnderWay, BeingAnswered, FullyAnswered, server
  <2>4. CASE Caller /\ ~BracketRefused
    <3>1. ~desynced /\ InStep
      BY <2>2, <2>4 DEF IInv, Next
    <3>2. CASE GetNextReturnElement \/ ClearDoneListOk
      BY <3>1, <3>2, ReadingKeepsStep
    <3>3. CASE ~(GetNextReturnElement \/ ClearDoneListOk)
      BY <2>4, <3>1, <3>3, SendingKeepsStep DEF Caller
    <3> QED BY <3>2, <3>3
  <2>5. CASE Server
    BY <2>2, <2>5, ServingKeepsStep DEF IInv, Next
  <2> QED BY <2>1, <2>3, <2>4, <2>5 DEF Next
<1> QED BY <1>1, <1>2, TypeCorrect, PTL DEF Spec

\* Library and server keep step until a fault misaligns the stream: whatever the
\* caller sends and reads, doneProcessing is set exactly when nothing is in
\* flight, so that no command is ever answered by the lines of an earlier one.
THEOREM LockstepHolds == Spec => []Lockstep
<1>1. IInv => Lockstep
  BY DEF IInv, InStep, Lockstep
<1> QED BY <1>1, InStepAlways, PTL

-----------------------------------------------------------------------------
(* The count of list_OK lines.                                             *)

\* The places of the list_OK lines of an answer, and their number.
OkPlaces(lines) == {i \in 1..Len(lines) : lines[i].kind = "list_OK"}
Oks(lines) == Cardinality(OkPlaces(lines))

\* Finitely many.
LEMMA OksType ==
  ASSUME NEW lines \in Seq(Line)
  PROVE  IsFiniteSet(OkPlaces(lines)) /\ Oks(lines) \in Nat
<1>1. Len(lines) \in Int
  OBVIOUS
<1>2. IsFiniteSet(1..Len(lines))
  BY <1>1, FS_Interval
<1>3. OkPlaces(lines) \in SUBSET (1..Len(lines))
  BY DEF OkPlaces
<1> QED BY <1>2, <1>3, FS_Subset, FS_CardinalityType DEF Oks

\* No line.
LEMMA OksEmpty == Oks(<<>>) = 0
<1>1. OkPlaces(<<>>) = {}
  BY DEF OkPlaces
<1> QED BY <1>1, FS_EmptySet DEF Oks

\* One more line at the end.
LEMMA OksAppend ==
  ASSUME NEW lines \in Seq(Line), NEW l \in Line
  PROVE  Oks(Append(lines, l)) = IF l.kind = "list_OK" THEN Oks(lines) + 1 ELSE Oks(lines)
<1> DEFINE n == Len(lines) + 1
           longer == Append(lines, l)
<1>1. Len(lines) \in Nat /\ n \in Nat /\ n \notin 1..Len(lines) /\ 1..n = (1..Len(lines)) \cup {n}
  OBVIOUS
<1>2. Len(longer) = n /\ longer[n] = l /\ \A i \in 1..Len(lines) : longer[i] = lines[i]
  OBVIOUS
<1> HIDE DEF n, longer
<1>3. n \notin OkPlaces(lines)
  BY <1>1 DEF OkPlaces
<1>4. CASE l.kind = "list_OK"
  <2>1. OkPlaces(longer) = OkPlaces(lines) \cup {n}
    BY <1>1, <1>2, <1>4 DEF OkPlaces
  <2>2. Cardinality(OkPlaces(longer)) = Cardinality(OkPlaces(lines)) + 1
    BY <1>3, <2>1, OksType, FS_AddElement
  <2> QED BY <1>4, <2>2 DEF Oks, longer
<1>5. CASE l.kind # "list_OK"
  <2>1. OkPlaces(longer) = OkPlaces(lines)
    BY <1>1, <1>2, <1>5 DEF OkPlaces
  <2> QED BY <1>5, <2>1 DEF Oks, longer
<1> QED BY <1>4, <1>5

\* One line less at the front.
LEMMA OksTail ==
  ASSUME NEW lines \in Seq(Line), lines # <<>>
  PROVE  Oks(Tail(lines)) = IF lines[1].kind = "list_OK" THEN Oks(lines) - 1 ELSE Oks(lines)
<1> DEFINE rest == Tail(lines)
           next == [i \in OkPlaces(rest) |-> i + 1]
<1>1. Len(lines) \in Nat /\ Len(lines) > 0 /\ rest \in Seq(Line) /\ Len(rest) = Len(lines) - 1
      /\ \A i \in 1..Len(rest) : rest[i] = lines[i + 1]
  OBVIOUS
<1> HIDE DEF rest
<1>2. \A i \in OkPlaces(rest) : i \in Nat /\ i + 1 \in OkPlaces(lines) \ {1}
  BY <1>1 DEF OkPlaces
<1>3. \A j \in OkPlaces(lines) \ {1} : j - 1 \in OkPlaces(rest) /\ j = (j - 1) + 1
  <2>1. SUFFICES ASSUME NEW j \in OkPlaces(lines), j # 1
                 PROVE  j - 1 \in OkPlaces(rest) /\ j = (j - 1) + 1
    OBVIOUS
  <2>2. j \in 1..Len(lines) /\ lines[j].kind = "list_OK"
    BY DEF OkPlaces
  <2>3. j - 1 \in 1..Len(rest) /\ j = (j - 1) + 1
    BY <1>1, <2>1, <2>2
  <2>4. rest[j - 1] = lines[j]
    BY <1>1, <2>3
  <2> QED BY <2>2, <2>3, <2>4 DEF OkPlaces
<1>4. next \in Bijection(OkPlaces(rest), OkPlaces(lines) \ {1})
  <2>1. next \in [OkPlaces(rest) -> OkPlaces(lines) \ {1}]
    BY <1>2
  <2>2. \A i, j \in OkPlaces(rest) : next[i] = next[j] => i = j
    BY <1>2
  <2>3. \A j \in OkPlaces(lines) \ {1} : \E i \in OkPlaces(rest) : next[i] = j
    BY <1>3
  <2> QED BY <2>1, <2>2, <2>3 DEF Bijection, Injection, IsInjective, Surjection
<1>5. Cardinality(OkPlaces(rest)) = Cardinality(OkPlaces(lines) \ {1})
  <2>1. IsFiniteSet(OkPlaces(rest)) /\ IsFiniteSet(OkPlaces(lines) \ {1})
    BY <1>1, OksType, FS_RemoveElement
  <2>2. ExistsBijection(OkPlaces(rest), OkPlaces(lines) \ {1})
    BY <1>4, Zenon DEF ExistsBijection
  <2> QED BY <2>1, <2>2, FS_Bijection
<1>6. 1 \in OkPlaces(lines) <=> lines[1].kind = "list_OK"
  BY <1>1 DEF OkPlaces
<1>7. Cardinality(OkPlaces(lines) \ {1}) =
        IF 1 \in OkPlaces(lines) THEN Cardinality(OkPlaces(lines)) - 1
        ELSE Cardinality(OkPlaces(lines))
  BY OksType, FS_RemoveElement
<1> QED BY <1>5, <1>6, <1>7 DEF Oks, rest

\* While the end of a list has not been sent, its bracket is missing.
Closed == IF commandList THEN 0 ELSE 1

\* What listOks counts, at each stage of an exchange.
OksInv ==
  /\ requests # <<>> /\ requests[1] = ListBegin => listOks = Len(requests) - 1 - Closed
  /\ mode = "collecting" => listOks = Len(list) + Len(requests) - Closed
  /\ mode = "listing" => listOks = Len(list) + Oks(answers)
  /\ mode = "single" => Oks(answers) = 0 /\ list[1] \in Command
  /\ FullyAnswered =>
       /\ Oks(answers) <= listOks
       /\ LET last == answers[Len(answers)]
          IN  last.kind = "OK" /\ last.of = ListEnd => listOks = Oks(answers)

\* Commands and brackets.
LEMMA SendingKeepsOks ==
  ASSUME TypeOK, InStep, OksInv, ~desynced, ~desynced',
         \/ \E r \in Command : ExecuteCommand(r)
         \/ doneProcessing /\ SendCommandListOkBegin
         \/ SendCommandListEnd
         \/ BracketRefused
  PROVE  OksInv'
<1> USE BracketsAssumption
<1>1. requests \in Seq(Request) /\ listOks \in Nat /\ doneProcessing \in BOOLEAN
  BY DEF TypeOK
<1>2. ASSUME NEW r \in Command, ExecutePlain(r) PROVE OksInv'
  <2>1. NothingInFlight /\ serverUp /\ ~commandList
    BY <1>2 DEF ExecutePlain, Busy, InStep
  <2>2. /\ requests' \in {<<>>, <<r>>} /\ answers' = <<>> /\ mode' = "ready"
    BY <1>2, <2>1 DEF ExecutePlain, NothingInFlight, Transmit, FailToSend, server
  <2> QED BY <2>2 DEF OksInv, FullyAnswered
<1>3. ASSUME NEW r \in Command, ExecuteListed(r) PROVE OksInv'
  <2>1. ListOpen /\ serverUp /\ commandList /\ commandList'
    BY <1>3 DEF ExecuteListed, InStep
  <2>2. /\ requests' = Append(requests, r) /\ listOks' = listOks + 1
        /\ UNCHANGED <<answers, mode, list>>
    BY <1>3, <2>1 DEF ExecuteListed, Transmit, FailToSend, server
  <2>3. /\ Len(requests') = Len(requests) + 1
        /\ requests # <<>> => requests'[1] = requests[1]
        /\ requests = <<>> => requests'[1] = r
    BY <1>1, <2>2 DEF Request
  <2> QED BY <1>1, <2>1, <2>2, <2>3 DEF OksInv, ListOpen, Closed, FullyAnswered
<1>4. CASE ExecuteRejected \/ BracketRefused
  BY <1>4 DEF ExecuteRejected, BracketRefused, OksInv, FullyAnswered, Closed, server
<1>5. CASE doneProcessing /\ SendCommandListOkBegin
  <2>1. NothingInFlight /\ serverUp
    BY <1>5 DEF SendCommandListOkBegin, InStep
  <2>2. /\ requests' = <<ListBegin>> /\ answers' = <<>> /\ mode' = "ready"
        /\ listOks' = 0 /\ commandList'
    <3>1. ~FailToSend(TRUE)
      BY DEF FailToSend
    <3>2. Transmit(ListBegin)
      BY <1>5, <3>1 DEF SendCommandListOkBegin
    <3> QED BY <1>5, <2>1, <3>2 DEF SendCommandListOkBegin, Transmit, NothingInFlight, server
  <2> QED BY <2>2 DEF OksInv, FullyAnswered, Closed
<1>6. CASE SendCommandListEnd
  <2>1. doneProcessing /\ ListOpen /\ serverUp /\ commandList /\ ~commandList'
    BY <1>6 DEF SendCommandListEnd, InStep
  <2>2. requests' = Append(requests, ListEnd) /\ UNCHANGED <<listOks, answers, mode, list>>
    BY <1>6, <2>1 DEF SendCommandListEnd, Transmit, FailToSend, server
  <2>3. /\ Len(requests') = Len(requests) + 1
        /\ requests # <<>> => requests'[1] = requests[1]
        /\ requests = <<>> => requests'[1] = ListEnd
    BY <1>1, <2>2 DEF Request
  <2> QED BY <1>1, <2>1, <2>2, <2>3 DEF OksInv, ListOpen, Closed, FullyAnswered
<1> QED BY <1>2, <1>3, <1>4, <1>5, <1>6 DEF ExecuteCommand

\* What is read next, if anything is, is the first line of the one answer due.
LEMMA FirstLine ==
  ASSUME TypeOK, InStep, OksInv, NEW kind, Receive(kind)
  PROVE  /\ ~doneProcessing /\ ~commandList /\ requests = <<>>
         /\ answers # <<>> /\ answers' = Tail(answers) /\ Head(answers) = answers[1]
         /\ answers[1].kind = kind
         /\ kind = "list_OK" => listOks > 0
         /\ kind \in Terminator => mode = "ready" /\ answers' = <<>>
         /\ kind = "OK" /\ Head(answers).of = ListEnd => listOks = 0
<1>1. answers \in Seq(Line) /\ listOks \in Nat /\ list \in Seq(Request)
  BY DEF TypeOK
<1>2. /\ ~doneProcessing /\ ~commandList
      /\ answers # <<>> /\ answers' = Tail(answers) /\ Head(answers) = answers[1]
      /\ answers[1].kind = kind
  BY <1>1 DEF Receive, AlreadyDone, InStep
<1>3. Len(answers) \in Nat /\ Len(answers) > 0 /\ Len(list) \in Nat
  BY <1>1, <1>2
<1>4. requests = <<>> /\ (BeingAnswered \/ FullyAnswered)
  BY <1>2 DEF InStep, RequestUnderWay, BeingAnswered, FullyAnswered
<1>5. ASSUME kind = "list_OK" PROVE listOks > 0
  <2>1. 1 \in OkPlaces(answers)
    BY <1>2, <1>3, <1>5 DEF OkPlaces
  <2>2. Oks(answers) \in Nat /\ Oks(answers) # 0
    BY <1>1, <2>1, OksType, FS_EmptySet DEF Oks
  <2>3. CASE BeingAnswered
    BY <1>1, <1>3, <2>2, <2>3 DEF BeingAnswered, OksInv
  <2>4. CASE FullyAnswered
    BY <1>1, <2>2, <2>4 DEF OksInv
  <2> QED BY <1>4, <2>3, <2>4
<1>6. ASSUME kind \in Terminator
      PROVE  /\ mode = "ready" /\ answers' = <<>>
             /\ kind = "OK" /\ Head(answers).of = ListEnd => listOks = 0
  <2>1. FullyAnswered
    BY <1>2, <1>3, <1>4, <1>6 DEF BeingAnswered
  <2>2. Len(answers) = 1
    <3>1. 1 \in 1..Len(answers)
      BY <1>3
    <3> QED BY <1>2, <1>6, <2>1, <3>1 DEF FullyAnswered
  <2>3. answers' = <<>> /\ mode = "ready"
    BY <1>1, <1>2, <2>1, <2>2 DEF FullyAnswered
  <2>4. ASSUME kind = "OK", Head(answers).of = ListEnd PROVE listOks = 0
    <3>1. answers[Len(answers)].kind = "OK" /\ answers[Len(answers)].of = ListEnd
      BY <1>2, <2>2, <2>4
    <3>2. listOks = Oks(answers)
      BY <2>1, <3>1 DEF OksInv
    <3>3. OkPlaces(answers) = {}
      BY <1>2, <2>2, <2>4 DEF OkPlaces
    <3> QED BY <3>2, <3>3, FS_EmptySet DEF Oks
  <2> QED BY <2>3, <2>4
<1>7. kind = "OK" => kind \in Terminator
  BY DEF Terminator
<1> QED BY <1>2, <1>4, <1>5, <1>6, <1>7

\* Reading.
LEMMA ReadingKeepsOks ==
  ASSUME TypeOK, InStep, OksInv, ~desynced, ~desynced',
         GetNextReturnElement \/ ClearDoneListOk
  PROVE  OksInv'
<1>1. answers \in Seq(Line) /\ listOks \in Nat /\ list \in Seq(Request)
  BY DEF TypeOK
<1>2. CASE ReadAlreadyDone \/ ClearDoneListOk \/ ReadClosed
  <2>1. UNCHANGED <<requests, answers, mode, list, listOks, commandList>>
    BY <1>2 DEF ReadAlreadyDone, ClearDoneListOk, ReadClosed, server
  <2> QED BY <2>1 DEF OksInv, FullyAnswered, Closed
<1>3. ASSUME NEW kind \in {"data", "list_OK"}, Receive(kind),
             UNCHANGED <<requests, mode, list, commandList>>,
             listOks' = IF kind = "list_OK" THEN listOks - 1 ELSE listOks
      PROVE  OksInv'
  <2>1. /\ requests = <<>> /\ answers # <<>> /\ answers' = Tail(answers)
        /\ answers[1].kind = kind
        /\ kind = "list_OK" => listOks > 0
    BY <1>3, FirstLine
  <2>2. Oks(answers') = IF kind = "list_OK" THEN Oks(answers) - 1 ELSE Oks(answers)
    BY <1>1, <2>1, OksTail
  <2>3. Oks(answers) \in Nat /\ Len(list) \in Nat
    BY <1>1, OksType
  <2>4. requests' = <<>> /\ (mode' = "collecting" => FALSE)
    BY <1>3, <2>1 DEF InStep, NothingInFlight, RequestUnderWay, BeingAnswered, FullyAnswered, ListOpen
  <2>5. ASSUME mode' = "listing" PROVE listOks' = Len(list') + Oks(answers')
    BY <1>1, <1>3, <2>2, <2>3, <2>5 DEF OksInv
  <2>6. ASSUME mode' = "single" PROVE Oks(answers') = 0 /\ list'[1] \in Command
    <3>1. Oks(answers) = 0 /\ list[1] \in Command
      BY <1>3, <2>6 DEF OksInv
    <3>2. kind # "list_OK"
      <4>1. SUFFICES ASSUME kind = "list_OK" PROVE FALSE
        OBVIOUS
      <4>2. 1 \in OkPlaces(answers)
        BY <1>1, <2>1, <4>1 DEF OkPlaces
      <4> QED BY <1>1, <3>1, <4>2, OksType, FS_EmptySet DEF Oks
    <3> QED BY <1>3, <2>2, <3>1, <3>2
  <2>7. ASSUME FullyAnswered'
        PROVE  /\ Oks(answers') <= listOks'
               /\ answers'[Len(answers')].kind = "OK" /\ answers'[Len(answers')].of = ListEnd
                    => listOks' = Oks(answers')
    <3>1. /\ Len(answers') = Len(answers) - 1 /\ Len(answers) \in Nat
          /\ \A i \in 1..Len(answers) - 1 : answers'[i] = answers[i + 1]
          /\ answers' \in Seq(Line) /\ answers' # <<>>
      BY <1>1, <2>1, <2>7 DEF FullyAnswered
    <3>2. Len(answers') > 0
      BY <3>1
    <3>3. answers'[Len(answers')] = answers[Len(answers)]
      BY <3>1, <3>2
    <3>4. FullyAnswered
      <4>1. mode = "ready" /\ ~BeingAnswered
        BY <1>3, <2>7 DEF FullyAnswered, BeingAnswered
      <4>2. ~doneProcessing /\ ~commandList /\ ~RequestUnderWay
        BY <1>3, <2>1, FirstLine DEF RequestUnderWay
      <4> QED BY <4>1, <4>2 DEF InStep
    <3>5. /\ Oks(answers) <= listOks
          /\ answers[Len(answers)].kind = "OK" /\ answers[Len(answers)].of = ListEnd
                => listOks = Oks(answers)
      BY <3>4 DEF OksInv
    <3> QED BY <1>1, <1>3, <2>2, <2>3, <3>3, <3>5
  <2> QED BY <2>4, <2>5, <2>6, <2>7 DEF OksInv
<1>4. CASE ReadData
  <2>1. Receive("data") /\ UNCHANGED <<requests, mode, list, commandList, listOks>>
    BY <1>4 DEF ReadData, server
  <2> QED BY <1>3, <2>1
<1>5. CASE ReadListOK
  <2>1. Receive("list_OK") /\ UNCHANGED <<requests, mode, list, commandList>>
    BY <1>5 DEF ReadListOK, server
  <2>2. listOks > 0
    BY <2>1, FirstLine
  <2>3. listOks' = listOks - 1
    BY <1>1, <1>5, <2>2 DEF ReadListOK
  <2> QED BY <1>3, <2>1, <2>3
<1>6. CASE ReadOK \/ ReadACK
  <2>1. \E kind \in Terminator : Receive(kind)
    BY <1>6 DEF ReadOK, ReadACK, Terminator
  <2>2. mode = "ready" /\ answers' = <<>> /\ requests = <<>>
    BY <2>1, FirstLine
  <2>3. mode' = "ready" /\ answers' = <<>> /\ requests' = <<>>
    BY <1>6, <2>2 DEF ReadOK, ReadACK, server
  <2> QED BY <2>3 DEF OksInv, FullyAnswered
<1>7. CASE ReadTimeout
  BY <1>7 DEF ReadTimeout
<1> QED BY <1>2, <1>4, <1>5, <1>6, <1>7 DEF GetNextReturnElement

\* The server.
LEMMA ServingKeepsOks ==
  ASSUME TypeOK, InStep, OksInv, ~desynced, ~desynced', Server
  PROVE  OksInv'
<1> USE BracketsAssumption
<1>1. answers \in Seq(Line) /\ listOks \in Nat /\ list \in Seq(Request) /\ requests \in Seq(Request)
  BY DEF TypeOK
<1>2. CASE Accept
  <2>1. /\ requests # <<>> /\ requests' = Tail(requests) /\ Head(requests) = requests[1]
        /\ UNCHANGED <<listOks, commandList>>
    BY <1>1, <1>2 DEF Accept, conn
  <2>2. Len(requests') = Len(requests) - 1 /\ Len(requests) \in Nat /\ Len(requests) > 0
        /\ \A i \in 1..Len(requests) - 1 : requests'[i] = requests[i + 1]
    BY <1>1, <2>1
  <2>3. /\ ListOpen \/ (RequestUnderWay /\ ~commandList)
        /\ answers = <<>>
    <3>1. ~NothingInFlight /\ ~BeingAnswered /\ ~FullyAnswered
      BY <2>1 DEF NothingInFlight, BeingAnswered, FullyAnswered
    <3>2. ListOpen \/ (RequestUnderWay /\ ~commandList)
      BY <3>1, Zenon DEF InStep
    <3> QED BY <3>2 DEF ListOpen, RequestUnderWay
  <2>4. /\ mode = "ready" => requests[1] # ListEnd
        /\ requests' # <<>> => requests'[1] # ListBegin
        /\ mode = "collecting" /\ requests[1] = ListEnd => requests' = <<>> /\ ~commandList
        /\ mode \in {"ready", "collecting"}
    <3>1. requests' # <<>> => 1 \in 1..Len(requests) - 1 /\ requests'[1] = requests[2]
      BY <1>1, <2>1, <2>2
    <3>2. CASE ListOpen
      <4>1. mode = "ready" => requests[1] = ListBegin /\ (requests' # <<>> => requests[2] \in Command)
        BY <2>2, <3>1, <3>2 DEF ListOpen
      <4>2. mode # "ready" => mode = "collecting" /\ requests[1] \in Command
                              /\ (requests' # <<>> => requests[2] \in Command)
        BY <2>2, <3>1, <3>2 DEF ListOpen
      <4>3. CASE mode = "ready"
        BY <3>1, <4>1, <4>3
      <4>4. CASE mode # "ready"
        BY <3>1, <4>2, <4>4
      <4> QED BY <4>3, <4>4
    <3>3. CASE RequestUnderWay /\ ~commandList
      <4>1. CASE mode = "ready" /\ Len(requests) = 1 /\ requests[1] \in Command
        BY <2>1, <2>2, <3>1, <4>1
      <4>2. CASE mode = "ready" /\ Len(requests) >= 2 /\ requests[1] = ListBegin
                 /\ requests[Len(requests)] = ListEnd
                 /\ \A i \in 2..Len(requests)-1 : requests[i] \in Command
        <5>1. requests[2] # ListBegin
          BY <2>2, <4>2
        <5> QED BY <3>1, <4>2, <5>1
      <4>3. CASE mode = "collecting" /\ requests[Len(requests)] = ListEnd
                 /\ \A i \in 1..Len(requests)-1 : requests[i] \in Command
        <5>1. requests' # <<>> => requests[1] \in Command /\ requests[2] # ListBegin
          BY <2>2, <3>1, <4>3
        <5> QED BY <3>1, <3>3, <4>3, <5>1
      <4> QED BY <3>3, <4>1, <4>2, <4>3 DEF RequestUnderWay
    <3> QED BY <2>3, <3>2, <3>3
  <2>5. CASE mode = "ready" /\ requests[1] \in Command
    <3>1. mode' = "single" /\ list' = <<requests[1]>> /\ answers' = <<>>
      BY <1>2, <2>1, <2>3, <2>5 DEF Accept
    <3> QED BY <2>4, <2>5, <3>1, OksEmpty DEF OksInv, FullyAnswered
  <2>6. CASE mode = "ready" /\ requests[1] = ListBegin
    <3>1. mode' = "collecting" /\ list' = <<>> /\ answers' = <<>>
      BY <1>2, <2>1, <2>3, <2>6 DEF Accept
    <3>2. listOks' = Len(list') + Len(requests') - Closed'
      <4>1. listOks = Len(requests) - 1 - Closed
        BY <2>1, <2>6 DEF OksInv
      <4>2. Closed' = Closed /\ Closed \in {0, 1} /\ Len(list') = 0
        BY <2>1, <3>1 DEF Closed
      <4> QED BY <1>1, <2>1, <2>2, <4>1, <4>2
    <3> QED BY <2>4, <3>1, <3>2 DEF OksInv, FullyAnswered
  <2>7. CASE mode = "collecting" /\ requests[1] # ListEnd
    <3>1. mode' = "collecting" /\ list' = Append(list, requests[1]) /\ answers' = <<>>
      BY <1>2, <2>1, <2>3, <2>7 DEF Accept
    <3>2. listOks' = Len(list') + Len(requests') - Closed'
      <4>1. listOks = Len(list) + Len(requests) - Closed /\ Len(list) \in Nat
        BY <1>1, <2>7 DEF OksInv
      <4>2. Closed' = Closed /\ Closed \in {0, 1} /\ Len(list') = Len(list) + 1
        BY <1>1, <2>1, <3>1 DEF Closed
      <4> QED BY <1>1, <2>1, <2>2, <4>1, <4>2
    <3> QED BY <2>4, <3>1, <3>2 DEF OksInv, FullyAnswered
  <2>8. CASE mode = "collecting" /\ requests[1] = ListEnd
    <3>1. mode' = "listing" /\ list' = list /\ answers' = <<>>
      BY <1>2, <2>1, <2>3, <2>8 DEF Accept
    <3>2. Len(requests) = 1 /\ ~commandList
      BY <2>2, <2>4, <2>8
    <3>3. listOks' = Len(list') + Oks(answers')
      BY <1>1, <2>1, <2>8, <3>1, <3>2, OksEmpty DEF OksInv, Closed
    <3> QED BY <2>4, <3>1, <3>3 DEF OksInv, FullyAnswered
  <2>9. requests[1] \in Command \cup {ListBegin, ListEnd}
    BY <1>1, <2>2 DEF Request
  <2> QED BY <2>4, <2>5, <2>6, <2>7, <2>8, <2>9
<1>3. ASSUME Answering
      PROVE  /\ requests = <<>> /\ ~commandList /\ ~doneProcessing
             /\ mode \in {"single", "listing"} /\ Oks(answers) \in Nat
             /\ mode = "single" => list # <<>>
  <2>1. mode \in {"single", "listing"}
    BY <1>3 DEF Answering
  <2>2. ~commandList /\ ~doneProcessing /\ BeingAnswered
    BY <2>1 DEF InStep, ListOpen, NothingInFlight, RequestUnderWay, FullyAnswered
  <2> QED BY <1>1, <2>1, <2>2, OksType DEF BeingAnswered
<1>4. ASSUME NEW r \in Request, NEW e \in Element \cup {NoElement},
             NEW kind \in {"OK", "ACK", "list_OK", "data"}, Emit(kind, r, e)
      PROVE  /\ Oks(answers') = IF kind = "list_OK" THEN Oks(answers) + 1 ELSE Oks(answers)
             /\ answers' # <<>> /\ answers'[Len(answers')].kind = kind
             /\ answers'[Len(answers')].of = r
             /\ UNCHANGED <<requests, listOks, commandList>>
  <2> DEFINE l == [kind |-> kind, of |-> r, elem |-> e]
  <2>1. l \in Line /\ l.kind = kind /\ l.of = r
    BY DEF Line, Terminator
  <2>2. answers' = Append(answers, l) /\ UNCHANGED <<requests, listOks, commandList>>
    BY <1>4 DEF Emit, conn
  <2> HIDE DEF l
  <2>3. Oks(answers') = IF kind = "list_OK" THEN Oks(answers) + 1 ELSE Oks(answers)
    BY <1>1, <2>1, <2>2, OksAppend
  <2>4. answers' # <<>> /\ answers'[Len(answers')] = l
    BY <1>1, <2>1, <2>2
  <2> QED BY <2>1, <2>2, <2>3, <2>4
<1>5. /\ list # <<>> => Head(list) \in Request /\ Head(list) = list[1] /\ Len(Tail(list)) = Len(list) - 1
      /\ Len(list) \in Nat /\ (list = <<>> => Len(list) = 0)
      /\ ListEnd \in Request
  BY <1>1 DEF Request
<1>6. ASSUME NEW e \in Element, EmitData(e) PROVE OksInv'
  <2>1. /\ Answering /\ list # <<>> /\ Emit("data", Head(list), e) /\ UNCHANGED <<mode, list>>
    BY <1>6 DEF EmitData
  <2>2. Oks(answers') = Oks(answers) /\ UNCHANGED <<requests, listOks, commandList>>
    BY <1>4, <1>5, <2>1
  <2>3. requests' = <<>> /\ mode' \in {"single", "listing"}
    BY <1>3, <2>1, <2>2
  <2> QED BY <2>1, <2>2, <2>3 DEF OksInv, FullyAnswered
<1>7. CASE EmitListOK
  <2>1. /\ Answering /\ mode = "listing" /\ mode' = "listing" /\ list # <<>>
        /\ Emit("list_OK", Head(list), NoElement) /\ list' = Tail(list)
    BY <1>7 DEF EmitListOK
  <2>2. Oks(answers') = Oks(answers) + 1 /\ UNCHANGED <<requests, listOks, commandList>>
    BY <1>4, <1>5, <2>1
  <2>3. requests' = <<>> /\ Oks(answers) \in Nat
    BY <1>3, <2>1, <2>2
  <2>4. listOks' = Len(list') + Oks(answers')
    BY <1>1, <1>5, <2>1, <2>2, <2>3 DEF OksInv
  <2> QED BY <2>1, <2>3, <2>4 DEF OksInv, FullyAnswered
<1>8. CASE EmitOK
  <2> DEFINE r == IF mode = "single" THEN Head(list) ELSE ListEnd
  <2>1. /\ Answering /\ (mode = "listing" <=> list = <<>>) /\ Emit("OK", r, NoElement)
        /\ mode' = "ready" /\ list' = <<>>
    BY <1>8 DEF EmitOK
  <2>2. r \in Request
    BY <1>3, <1>5, <2>1
  <2>3. /\ mode = "single" => r \in Command
        /\ mode # "single" => mode = "listing" /\ list = <<>> /\ r = ListEnd
    BY <1>3, <1>5, <2>1 DEF OksInv
  <2> HIDE DEF r
  <2>4. /\ Oks(answers') = Oks(answers) /\ answers'[Len(answers')].of = r
        /\ UNCHANGED <<requests, listOks, commandList>>
    BY <1>4, <2>1, <2>2
  <2>5. requests' = <<>> /\ Oks(answers) \in Nat
    BY <1>3, <2>1, <2>4
  <2>6. /\ Oks(answers') <= listOks'
        /\ r = ListEnd => listOks' = Oks(answers')
    <3>1. CASE mode = "single"
      <4>1. Oks(answers) = 0 /\ r # ListEnd
        BY <2>3, <3>1 DEF OksInv
      <4> QED BY <1>1, <2>4, <4>1
    <3>2. CASE mode # "single"
      <4>1. listOks = Len(list) + Oks(answers) /\ Len(list) = 0
        BY <1>5, <2>3, <3>2 DEF OksInv
      <4> QED BY <1>1, <2>4, <2>5, <4>1
    <3> QED BY <3>1, <3>2
  <2> QED BY <2>1, <2>4, <2>5, <2>6 DEF OksInv
<1>9. CASE EmitACK
  <2>1. /\ Answering /\ list # <<>> /\ Emit("ACK", Head(list), NoElement)
        /\ mode' = "ready" /\ list' = <<>>
    BY <1>9 DEF EmitACK
  <2>2. /\ Oks(answers') = Oks(answers) /\ answers'[Len(answers')].kind = "ACK"
        /\ UNCHANGED <<requests, listOks, commandList>>
    BY <1>4, <1>5, <2>1
  <2>3. requests' = <<>> /\ Oks(answers) \in Nat
    BY <1>3, <2>1, <2>2
  <2>4. Oks(answers) <= listOks
    BY <1>1, <1>3, <1>5, <2>1, <2>3 DEF OksInv
  <2> QED BY <2>1, <2>2, <2>3, <2>4 DEF OksInv
<1>10. CASE ServerClose
  BY <1>10 DEF ServerClose
<1> QED BY <1>2, <1>6, <1>7, <1>8, <1>9, <1>10 DEF Server

\* Neither the library nor the server forgets a fault.
LEMMA FaultsRemembered == TypeOK /\ Next /\ ~desynced' => ~desynced
BY DEF Next, Caller, Server, ExecuteCommand, ExecutePlain, ExecuteListed,
       ExecuteRejected, SendCommandListOkBegin, SendCommandListEnd, BracketRefused,
       GetNextReturnElement, ReadAlreadyDone, ReadData, ReadOK, ReadListOK, ReadACK,
       ReadTimeout, ReadClosed, ClearDoneListOk, Accept, EmitData, EmitListOK,
       EmitOK, EmitACK, Emit, ServerClose, Transmit, FailToSend, TypeOK

\* listOks counts the list_OK lines that are still to come, so in step with the
\* server none is unexpected and none is missing at the end of a list.
THEOREM ListOksExactHolds == Spec => ListOksExact
<1> DEFINE Counted == ~desynced => OksInv
           Exact == /\ ReadListOK /\ ~desynced => UNCHANGED error
                    /\ ReadOK /\ ~desynced /\ Head(answers).of = ListEnd => UNCHANGED error
<1>1. Init => Counted
  BY DEF Init, OksInv, FullyAnswered
<1>2. TypeOK /\ IInv /\ Counted /\ [Next]_vars => Counted'
  <2> SUFFICES ASSUME TypeOK, IInv, Counted, [Next]_vars, ~desynced' PROVE OksInv'
    OBVIOUS
  <2>1. CASE UNCHANGED vars
    BY <2>1 DEF vars, conn, server, OksInv, FullyAnswered, Closed
  <2>2. CASE Next
    <3>1. ~desynced /\ InStep /\ OksInv
      BY <2>2, FaultsRemembered DEF IInv
    <3>2. CASE Server
      BY <3>1, <3>2, ServingKeepsOks
    <3>3. CASE GetNextReturnElement \/ ClearDoneListOk
      BY <3>1, <3>3, ReadingKeepsOks
    <3>4. CASE ~Server /\ ~(GetNextReturnElement \/ ClearDoneListOk)
      BY <2>2, <3>1, <3>4, SendingKeepsOks DEF Next, Caller
    <3> QED BY <3>2, <3>3, <3>4
  <2> QED BY <2>1, <2>2
<1>3. TypeOK /\ IInv /\ Counted /\ [Next]_vars => [Exact]_vars
  <2> SUFFICES ASSUME TypeOK, IInv, Counted PROVE Exact
    OBVIOUS
  <2>1. ASSUME ReadListOK, ~desynced PROVE UNCHANGED error
    <3>1. Receive("list_OK") /\ InStep /\ OksInv
      BY <2>1 DEF ReadListOK, IInv
    <3>2. listOks > 0
      BY <3>1, FirstLine
    <3> QED BY <2>1, <3>2 DEF ReadListOK, TypeOK
  <2>2. ASSUME ReadOK, ~desynced, Head(answers).of = ListEnd PROVE UNCHANGED error
    <3>1. Receive("OK") /\ InStep /\ OksInv
      BY <2>2 DEF ReadOK, IInv
    <3>2. listOks = 0
      BY <2>2, <3>1, FirstLine
    <3> QED BY <2>2, <3>2 DEF ReadOK
  <2> QED BY <2>1, <2>2
<1> QED BY <1>1, <1>2, <1>3, TypeCorrect, InStepAlways, PTL DEF Spec, ListOksExact
=============================================================================
