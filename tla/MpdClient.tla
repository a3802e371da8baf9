------------------------------ MODULE MpdClient ------------------------------
(***************************************************************************)
(* One connection of libmpdclient.c to the MPD server, driven by an        *)
(* arbitrary caller.  The library keeps no request identifiers: a caller   *)
(* matches an answer to its command only because the answers come back in  *)
(* the order of the commands and because doneProcessing says whether one   *)
(* is still due.  The module models the four counters and flags that carry *)
(* this protocol, both directions of the socket line by line, and the      *)
(* three ways in which the transport can fail.                             *)
(*                                                                         *)
(* A data line of an answer is an opaque Element.  A line that was sent    *)
(* by the server but not yet received is still in `answers', so a read may *)
(* time out although `answers' is not empty.                               *)
(***************************************************************************)
EXTENDS Naturals, Sequences

CONSTANTS
  Command,      \* the commands a caller sends, apart from the list brackets
  Element,      \* what a data line of an answer can carry
  ListBegin,    \* "command_list_ok_begin"
  ListEnd,      \* "command_list_end"
  NoElement     \* returnElement = NULL

ASSUME BracketsAssumption == ListBegin \notin Command /\ ListEnd \notin Command
                             /\ ListBegin # ListEnd

VARIABLES
  doneProcessing,  \* no answer is due
  commandList,     \* between the list brackets (COMMAND_LIST_OK)
  listOks,         \* list_OK lines still due
  doneListOk,      \* the last line read was a list_OK
  returnElement,   \* the data line read last, or NoElement
  error,           \* connection->error
  requests,        \* lines on their way to the server
  answers,         \* lines on their way to the library
  mode,            \* what the server is doing
  list,            \* the commands the server has collected or is answering
  serverUp,        \* the server has not closed the connection
  desynced         \* history: a fault that can misalign answers has happened

conn == <<doneProcessing, commandList, listOks, doneListOk, returnElement, error>>
server == <<mode, list, serverUp>>
vars == <<conn, requests, answers, server, desynced>>

Request == Command \cup {ListBegin, ListEnd}
Terminator == {"OK", "ACK"}
Line == [kind : Terminator \cup {"list_OK", "data"},
         of : Request, elem : Element \cup {NoElement}]
Error == {"none", "local", "ACK", "TIMEOUT", "SENDING", "CONNCLOSED"}

TypeOK ==
  /\ doneProcessing \in BOOLEAN
  /\ commandList \in BOOLEAN
  /\ listOks \in Nat
  /\ doneListOk \in BOOLEAN
  /\ returnElement \in Element \cup {NoElement}
  /\ error \in Error
  /\ requests \in Seq(Request)
  /\ answers \in Seq(Line)
  /\ mode \in {"ready", "collecting", "single", "listing"}
  /\ list \in Seq(Request)
  /\ serverUp \in BOOLEAN
  /\ desynced \in BOOLEAN

-----------------------------------------------------------------------------
(* The connection that mpd_newConnection returns after the greeting.       *)

Init ==
  /\ doneProcessing = TRUE
  /\ commandList = FALSE
  /\ listOks = 0
  /\ doneListOk = FALSE
  /\ returnElement = NoElement
  /\ error = "none"
  /\ requests = <<>>
  /\ answers = <<>>
  /\ mode = "ready"
  /\ list = <<>>
  /\ serverUp = TRUE
  /\ desynced = FALSE

-----------------------------------------------------------------------------
(* Sending.  The guard of mpd_executeCommand rejects a command while an    *)
(* answer is due, unless a command list is open.                           *)

Busy == ~doneProcessing /\ ~commandList

\* The command line reaches the socket; a closed socket swallows it.
Transmit(r) ==
  /\ requests' = IF serverUp THEN Append(requests, r) ELSE requests
  /\ error' = "none"
  /\ UNCHANGED <<answers, desynced>>

\* select() on the socket returns 0, or is interrupted by a signal, or send()
\* fails: nothing is written.  Losing part of a list leaves the server in
\* another mode than the library.
FailToSend(inList) ==
  /\ error' \in {"TIMEOUT", "SENDING"}
  /\ desynced' = (desynced \/ inList)
  /\ UNCHANGED <<requests, answers>>

\* Mutant: the guard against a command that is still unanswered is missing.
ExecutePlainUnguarded(r) ==
  /\ ~commandList
  /\ \/ Transmit(r) /\ doneProcessing' = FALSE
     \/ FailToSend(FALSE) /\ UNCHANGED doneProcessing
  /\ UNCHANGED <<commandList, listOks, doneListOk, returnElement, server>>

ExecutePlain(r) ==
  /\ ~Busy /\ ~commandList
  /\ \/ Transmit(r) /\ doneProcessing' = FALSE
     \/ FailToSend(FALSE) /\ UNCHANGED doneProcessing
  /\ UNCHANGED <<commandList, listOks, doneListOk, returnElement, server>>

ExecuteListed(r) ==
  /\ commandList
  /\ \/ Transmit(r) /\ listOks' = listOks + 1
     \/ FailToSend(TRUE) /\ UNCHANGED listOks
  /\ UNCHANGED <<doneProcessing, commandList, doneListOk, returnElement, server>>

ExecuteRejected ==
  /\ Busy
  /\ error' = "local"
  /\ UNCHANGED <<doneProcessing, commandList, listOks, doneListOk, returnElement,
                 requests, answers, server, desynced>>

ExecuteCommand(r) == ExecutePlain(r) \/ ExecuteListed(r) \/ ExecuteRejected

\* Mutant: listOks is not reset when a list is opened.
ListOkBeginKeepsCount ==
  /\ ~commandList
  /\ commandList' = TRUE
  /\ Transmit(ListBegin) \/ FailToSend(TRUE)
  /\ UNCHANGED <<doneProcessing, listOks, doneListOk, returnElement, server>>

\* commandList is set first, so the guard of mpd_executeCommand lets the
\* bracket through whatever is due.
SendCommandListOkBegin ==
  /\ ~commandList
  /\ commandList' = TRUE
  /\ listOks' = 0
  /\ Transmit(ListBegin) \/ FailToSend(TRUE)
  /\ UNCHANGED <<doneProcessing, doneListOk, returnElement, server>>

\* Already in a list, or not in one.
BracketRefused ==
  /\ error' = "local"
  /\ UNCHANGED <<doneProcessing, commandList, listOks, doneListOk, returnElement,
                 requests, answers, server, desynced>>

SendCommandListEnd ==
  /\ commandList
  /\ commandList' = FALSE
  /\ \/ doneProcessing /\ Transmit(ListEnd) /\ doneProcessing' = FALSE
     \/ doneProcessing /\ FailToSend(TRUE) /\ UNCHANGED doneProcessing
     \/ /\ ~doneProcessing
        /\ error' = "local"
        /\ UNCHANGED <<doneProcessing, requests, answers, desynced>>
  /\ UNCHANGED <<listOks, doneListOk, returnElement, server>>

-----------------------------------------------------------------------------
(* Reading: mpd_getNextReturnElement, one action for each kind of outcome. *)

AlreadyDone == doneProcessing \/ (listOks > 0 /\ doneListOk)

ReadAlreadyDone ==
  /\ AlreadyDone
  /\ returnElement' = NoElement
  /\ error' = "local"
  /\ UNCHANGED <<doneProcessing, commandList, listOks, doneListOk,
                 requests, answers, server, desynced>>

\* The next line has arrived.
Receive(kind) ==
  /\ ~AlreadyDone
  /\ answers # <<>> /\ Head(answers).kind = kind
  /\ answers' = Tail(answers)

ReadData ==
  /\ Receive("data")
  /\ returnElement' = Head(answers).elem
  /\ UNCHANGED <<doneProcessing, commandList, listOks, doneListOk, error,
                 requests, server, desynced>>

ReadOK ==
  /\ Receive("OK")
  /\ error' = IF listOks > 0 THEN "local" ELSE error
  /\ listOks' = 0
  /\ doneProcessing' = TRUE
  /\ doneListOk' = FALSE
  /\ returnElement' = NoElement
  /\ UNCHANGED <<commandList, requests, server, desynced>>

\* Mutant: an unexpected list_OK is counted like any other.
ReadListOKUnchecked ==
  /\ Receive("list_OK")
  /\ listOks' = listOks - 1
  /\ doneListOk' = TRUE
  /\ returnElement' = NoElement
  /\ UNCHANGED <<doneProcessing, commandList, error, requests, server, desynced>>

ReadListOK ==
  /\ Receive("list_OK")
  /\ IF listOks = 0
     THEN error' = "local" /\ UNCHANGED <<listOks, doneListOk>>
     ELSE listOks' = listOks - 1 /\ doneListOk' = TRUE /\ UNCHANGED error
  /\ returnElement' = NoElement
  /\ UNCHANGED <<doneProcessing, commandList, requests, server, desynced>>

\* listOks keeps the list_OK lines that will never come.
ReadACK ==
  /\ Receive("ACK")
  /\ error' = "ACK"
  /\ doneProcessing' = TRUE
  /\ doneListOk' = FALSE
  /\ returnElement' = NoElement
  /\ UNCHANGED <<commandList, listOks, requests, server, desynced>>

\* Mutant: a timeout leaves the command unfinished.
ReadTimeoutStaysBusy ==
  /\ ~AlreadyDone
  /\ error' = "TIMEOUT"
  /\ desynced' = TRUE
  /\ UNCHANGED <<doneProcessing, doneListOk, returnElement, commandList, listOks,
                 requests, answers, server>>

\* No complete line within the timeout, or a signal interrupted select().
ReadTimeout ==
  /\ ~AlreadyDone
  /\ error' = "TIMEOUT"
  /\ doneProcessing' = TRUE
  /\ doneListOk' = FALSE
  /\ returnElement' = NoElement
  /\ desynced' = TRUE
  /\ UNCHANGED <<commandList, listOks, requests, answers, server>>

ReadClosed ==
  /\ ~AlreadyDone
  /\ ~serverUp /\ answers = <<>>
  /\ error' = "CONNCLOSED"
  /\ doneProcessing' = TRUE
  /\ doneListOk' = FALSE
  /\ returnElement' = NoElement
  /\ UNCHANGED <<commandList, listOks, requests, answers, server, desynced>>

GetNextReturnElement ==
  \/ ReadAlreadyDone
  \/ ReadData
  \/ ReadOK
  \/ ReadListOK
  \/ ReadACK
  \/ ReadTimeout
  \/ ReadClosed

\* mpd_finishCommand and mpd_nextListOkCommand step over a list_OK.
ClearDoneListOk ==
  /\ ~doneProcessing /\ doneListOk
  /\ doneListOk' = FALSE
  /\ UNCHANGED <<doneProcessing, commandList, listOks, returnElement, error,
                 requests, answers, server, desynced>>

-----------------------------------------------------------------------------
(* The server (external): it handles the requests in order and answers a   *)
(* list only once it is complete.                                          *)

Accept ==
  /\ serverUp /\ requests # <<>>
  /\ requests' = Tail(requests)
  /\ LET r == Head(requests) IN
       \/ /\ mode = "ready" /\ r \in Command
          /\ mode' = "single" /\ list' = <<r>>
          /\ UNCHANGED answers
       \/ /\ mode = "ready" /\ r = ListBegin
          /\ mode' = "collecting" /\ list' = <<>>
          /\ UNCHANGED answers
       \/ /\ mode = "ready" /\ r = ListEnd
          /\ answers' = Append(answers, [kind |-> "ACK", of |-> r, elem |-> NoElement])
          /\ UNCHANGED <<mode, list>>
       \/ /\ mode = "collecting" /\ r # ListEnd
          /\ list' = Append(list, r)
          /\ UNCHANGED <<mode, answers>>
       \/ /\ mode = "collecting" /\ r = ListEnd
          /\ mode' = "listing"
          /\ UNCHANGED <<list, answers>>
  /\ UNCHANGED <<conn, serverUp, desynced>>

Answering == serverUp /\ mode \in {"single", "listing"}

Emit(kind, r, e) ==
  /\ answers' = Append(answers, [kind |-> kind, of |-> r, elem |-> e])
  /\ UNCHANGED <<conn, requests, serverUp, desynced>>

EmitData(e) ==
  /\ Answering /\ list # <<>>
  /\ Emit("data", Head(list), e)
  /\ UNCHANGED <<mode, list>>

EmitListOK ==
  /\ Answering /\ mode = "listing" /\ list # <<>>
  /\ Emit("list_OK", Head(list), NoElement)
  /\ list' = Tail(list)
  /\ UNCHANGED mode

EmitOK ==
  /\ Answering /\ (mode = "listing" <=> list = <<>>)
  /\ Emit("OK", IF mode = "single" THEN Head(list) ELSE ListEnd, NoElement)
  /\ mode' = "ready" /\ list' = <<>>

EmitACK ==
  /\ Answering /\ list # <<>>
  /\ Emit("ACK", Head(list), NoElement)
  /\ mode' = "ready" /\ list' = <<>>

\* The server exits; the lines it has sent are still delivered.
ServerClose ==
  /\ serverUp
  /\ serverUp' = FALSE
  /\ desynced' = TRUE
  /\ UNCHANGED <<conn, requests, answers, mode, list>>

-----------------------------------------------------------------------------

\* That nothing is due when a list is opened is the caller's obligation.
Caller ==
  \/ \E r \in Command : ExecuteCommand(r)
  \/ doneProcessing /\ SendCommandListOkBegin
  \/ SendCommandListEnd
  \/ BracketRefused
  \/ GetNextReturnElement
  \/ ClearDoneListOk

Server ==
  \/ Accept
  \/ \E e \in Element : EmitData(e)
  \/ EmitListOK
  \/ EmitOK
  \/ EmitACK
  \/ ServerClose

Next == Caller \/ Server

Spec == Init /\ [][Next]_vars

-----------------------------------------------------------------------------
(* Properties.                                                             *)

NothingInFlight ==
  requests = <<>> /\ answers = <<>> /\ mode = "ready" /\ list = <<>>

\* The server has not yet seen the end of the open list, and sent nothing.
ListOpen ==
  /\ answers = <<>>
  /\ \/ /\ mode = "ready" /\ list = <<>>
        /\ requests # <<>> /\ requests[1] = ListBegin
        /\ \A i \in 2..Len(requests) : requests[i] \in Command
     \/ /\ mode = "collecting"
        /\ \A i \in 1..Len(requests) : requests[i] \in Command

\* One command, or one complete list, is unanswered, and nothing else.
RequestUnderWay ==
  /\ answers = <<>>
  /\ \/ /\ mode = "ready" /\ list = <<>>
        /\ Len(requests) = 1 /\ requests[1] \in Command
     \/ /\ mode = "ready" /\ list = <<>>
        /\ Len(requests) >= 2 /\ requests[1] = ListBegin
        /\ requests[Len(requests)] = ListEnd
        /\ \A i \in 2..Len(requests)-1 : requests[i] \in Command
     \/ /\ mode = "collecting"
        /\ requests # <<>> /\ requests[Len(requests)] = ListEnd
        /\ \A i \in 1..Len(requests)-1 : requests[i] \in Command

BeingAnswered ==
  /\ requests = <<>>
  /\ mode \in {"single", "listing"}
  /\ mode = "single" => list # <<>>
  /\ \A i \in 1..Len(answers) : answers[i].kind \notin Terminator

FullyAnswered ==
  /\ requests = <<>> /\ mode = "ready" /\ list = <<>>
  /\ answers # <<>>
  /\ \A i \in 1..Len(answers) :
       answers[i].kind \in Terminator <=> i = Len(answers)

\* The protocol keeps step: as long as no fault could misalign the stream,
\* doneProcessing is set exactly when no byte of any command or answer is
\* under way, and when it is clear exactly one terminated answer is due
\* (mpd_executeCommand's guard and mpd_getNextReturnElement's updates).
Lockstep ==
  ~desynced =>
    /\ commandList => doneProcessing /\ ListOpen
    /\ ~commandList /\ doneProcessing => NothingInFlight
    /\ ~commandList /\ ~doneProcessing =>
         RequestUnderWay \/ BeingAnswered \/ FullyAnswered

\* The count of list_OK lines is exact: in step with the server, a list_OK is
\* never unexpected and the OK that closes a list never leaves one missing.
ListOksExact ==
  [][/\ ReadListOK /\ ~desynced => UNCHANGED error
     /\ ReadOK /\ ~desynced /\ Head(answers).of = ListEnd => UNCHANGED error]_vars

=============================================================================
