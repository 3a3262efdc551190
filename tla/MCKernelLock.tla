---------------------------- MODULE MCKernelLock ----------------------------
(***************************************************************************)
(* KernelLock for TLC.  The run for invariants alone takes the threads up  *)
(* to renaming: no definition tells one thread from another.  The run with *)
(* temporal properties does not.                                           *)
(***************************************************************************)
EXTENDS KernelLock, TLC

Renamings == Permutations(Activities)

=============================================================================
