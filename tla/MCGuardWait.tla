---- MODULE MCGuardWait ----
(* Instances of GuardWait for TLC. *)
EXTENDS GuardWait, TLC

=============================================================================
