----------------------------- MODULE MCLcdLink -----------------------------
(* Model checking of LcdLink: two attempts to connect let a loss or a failed *)
(* start be followed by a new connection.                                    *)
EXTENDS LcdLink

\* One display with room for everything, one too narrow for the padding of
\* the status and for the time, one that its status runs out of.
Sizes == {[wid |-> 16, hgt |-> 2], [wid |-> 10, hgt |-> 4], [wid |-> 20, hgt |-> 4]}
=============================================================================
