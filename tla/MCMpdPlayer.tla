---------------------------- MODULE MCMpdPlayer ----------------------------
(* Model checking of MpdPlayer: MpdClient's constants become the commands    *)
(* and answers of the real program.                                          *)
EXTENDS MpdPlayer

=============================================================================
