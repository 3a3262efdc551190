---- MODULE MCUninits ----
(* Instances of Uninits for TLC. *)
EXTENDS Uninits, TLC

CONSTANTS o1, o2, o3

\* All places hash to one slot.
MCHash == o1 :> 0 @@ o2 :> 0 @@ o3 :> 0

=============================================================================
