---------------------------- MODULE MCScopeLocks ----------------------------
(***************************************************************************)
(* ScopeLocks for TLC.  The activities, the scopes and the messages are    *)
(* each taken up to renaming: no definition tells one from another.        *)
(***************************************************************************)
EXTENDS ScopeLocks, TLC

Renamings == Permutations(Activities) \cup Permutations(Scopes) \cup Permutations(Messages)

=============================================================================
