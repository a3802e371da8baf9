------------------------------ MODULE Broadcast ------------------------------
(***************************************************************************)
(* What the message queue of ABasemod.c promises the modules: one log of   *)
(* messages in the order in which they were sent, and every member given   *)
(* every message of the log, in that order, once, and no message before    *)
(* all members have had the one before it.  A member may send more         *)
(* messages while it is being given one.                                   *)
(***************************************************************************)
EXTENDS Naturals, Sequences

CONSTANTS Member, Message

VARIABLES
  members,   \* those who have joined
  log,       \* every message sent so far
  received   \* received[m]: what m has been given

bvars == <<members, log, received>>

BInit ==
  /\ members = {}
  /\ log = <<>>
  /\ received = [m \in Member |-> <<>>]

Extended == Len(log') >= Len(log) /\ SubSeq(log', 1, Len(log)) = log

\* Whoever joins later would have missed something.
Join(m) ==
  /\ m \notin members
  /\ \A n \in Member : received[n] = <<>>
  /\ members' = members \cup {m}
  /\ Extended
  /\ UNCHANGED received

Post == Extended /\ UNCHANGED <<members, received>>

Give(m) ==
  /\ m \in members
  /\ Len(received[m]) < Len(log)
  /\ \A n \in members : Len(received[m]) <= Len(received[n])
  /\ received' = [received EXCEPT ![m] = Append(@, log[Len(@) + 1])]
  /\ Extended
  /\ UNCHANGED members

\* The daemon shuts down; what is left in the log is dropped.
Disband ==
  /\ members' = {}
  /\ UNCHANGED <<log, received>>

BNext ==
  \/ \E m \in Member : Join(m) \/ Give(m)
  \/ Post
  \/ Disband

BroadcastSpec == BInit /\ [][BNext]_bvars

=============================================================================
