--------------------------- MODULE MCActivityPool ---------------------------
(* ActivityPool for TLC.                                                   *)
EXTENDS ActivityPool, TLC

=============================================================================
