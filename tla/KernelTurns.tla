---------------------------- MODULE KernelTurns ----------------------------
(***************************************************************************)
(* What the kernel lock promises to the threads that use it: the kernel    *)
(* has at most one holder, and those who stand in line are admitted in the *)
(* order in which they joined.  A thread that is not in line may still     *)
(* slip in when the kernel is free (the trylock of requestKernel, the bare *)
(* lock of getActivity); nobody in line ever passes another in line.       *)
(***************************************************************************)
EXTENDS Naturals, Sequences

CONSTANTS Activities, None

VARIABLES
    holder,   \* the thread that owns the kernel, or None
    turns     \* the activities in line, the next one first

turnVars == <<holder, turns>>

InLine == {turns[i] : i \in DOMAIN turns}

Init == holder = None /\ turns = <<>>

\* Stand in line; the holder does so before it gives the kernel up.
Join(a) ==
    /\ a \notin InLine
    /\ turns' = Append(turns, a)
    /\ UNCHANGED holder

\* Take a free kernel without standing in line.
Slip(a) ==
    /\ holder = None
    /\ a \notin InLine
    /\ holder' = a
    /\ UNCHANGED turns

\* The first in line, and no other, is admitted.
Admit ==
    /\ holder = None
    /\ turns # <<>>
    /\ holder' = Head(turns)
    /\ turns' = Tail(turns)

Leave ==
    /\ holder # None
    /\ holder' = None
    /\ UNCHANGED turns

Next == Admit \/ Leave \/ \E a \in Activities : Join(a) \/ Slip(a)

Spec == Init /\ [][Next]_turnVars

=============================================================================
