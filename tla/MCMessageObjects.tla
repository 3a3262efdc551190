-------------------------- MODULE MCMessageObjects --------------------------
(***************************************************************************)
(* MessageObjects for TLC.  Activities and messages are taken up to        *)
(* renaming: nothing tells two of them apart initially.                    *)
(***************************************************************************)
EXTENDS MessageObjects, TLC

Renamings == Permutations(Activities) \cup Permutations(Messages)

=============================================================================
