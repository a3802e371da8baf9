---------------------------- MODULE MCMpdClient ----------------------------
(* Model checking of MpdClient: the lengths of the two directions and of a   *)
(* command list are bounded.  After a fault that misaligns the stream only   *)
(* MaxAfterFault lines may be under way.                                     *)
EXTENDS MpdClient, TLC

CONSTANTS MaxRequests, MaxAnswers, MaxListed, MaxAfterFault

Bounded ==
  /\ Len(requests) <= MaxRequests
  /\ Len(answers) <= MaxAnswers
  /\ Len(list) <= MaxListed
  /\ listOks <= MaxListed
  /\ desynced => Len(requests) + Len(answers) <= MaxAfterFault

=============================================================================
