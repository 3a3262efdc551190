----------------------------- MODULE GuardWait ------------------------------
(***************************************************************************)
(* GUARD ON|OFF WHEN and the variables it waits for.                       *)
(*                                                                         *)
(* The exposed variables that the expression of a GUARD WHEN names get the *)
(* activity as a dependent.  While the expression is false the activity    *)
(* gives up its scope and waits on its one guard semaphore, which every    *)
(* assignment to such a variable posts.  The expression may call methods   *)
(* of the object, which may run a GUARD WHEN of their own.                 *)
(*                                                                         *)
(* One object with one scope.  CurrentActivity has the kernel; a clause    *)
(* keeps it until it calls a method, waits or notifies.  The value of a    *)
(* variable is whether it makes the expression true.  A compound variable  *)
(* in an expression guards its stem, never the element.  A stem can do all *)
(* that a simple variable does, and more.                                  *)
(***************************************************************************)
EXTENDS Naturals, Sequences, SequencesExt, FiniteSetsExt

CONSTANTS
    Activities,  \* the activities that send messages to the object
    Simple,      \* its exposed simple variables
    Stems,       \* its exposed stems
    None,        \* OREF_NULL
    MaxFrames    \* bound: method calls of all activities together

ASSUME GuardDistinct ==
    /\ None \notin Activities \cup Simple \cup Stems
    /\ Simple \cap Stems = {}
ASSUME GuardFrames == MaxFrames \in Nat \ {0}

Variables == Simple \cup Stems

VARIABLES
    CurrentActivity,    \* who has the kernel in the middle of a clause
    state,              \* where each activity is
    frames,             \* its activations, the running one last
    guardsem,           \* its guard semaphore is posted
    value,              \* the value of each variable
    told,               \*   it was there when the dependents were last posted
    dependents,         \* the activities to inform of a change
    newStem,            \* whose setValue a new stem object waits for, and the value
    reservingActivity,  \* the holder of the scope
    reserveCount,       \*   how often it reserved it
    waitingActivities   \* the line at the scope

scopeVars    == <<reservingActivity, reserveCount, waitingActivities>>
variableVars == <<value, told, dependents>>
vars == <<CurrentActivity, state, frames, guardsem, variableVars, newStem, scopeVars>>

(* A method call; guard is the variable its GUARD WHEN waits for, if it is *)
(* in one, and result what the expression came to.                         *)
Frame == [reserved: BOOLEAN,      \* object_scope is SCOPE_RESERVED
          initial: BOOLEAN,       \* initial_state of guardWait
          guard: Variables \cup {None},
          result: BOOLEAN,
          asked: BOOLEAN,         \* the expression called a method, ...
          disturbed: BOOLEAN]     \* ... which ran a GUARD WHEN itself

States == {
    "idle",       \* runs nothing
    "running",    \* at a clause boundary of its last activation
    "evaluate",   \* is to evaluate the expression of its GUARD
    "decide",     \* has the result of the expression
    "parked",     \* in guardWait on guardsem
    "reserving",  \* in line for the scope
    "assigning",  \* in the notify of a stem assignment
    "crashed"}    \* used the dependents of a variable that had none

TypeOK ==
    /\ CurrentActivity \in Activities \cup {None}
    /\ state \in [Activities -> States]
    /\ frames \in [Activities -> Seq(Frame)]
    /\ guardsem \in [Activities -> BOOLEAN]
    /\ value \in [Variables -> BOOLEAN]
    /\ told \in [Variables -> BOOLEAN]
    /\ dependents \in [Variables -> SUBSET Activities]
    /\ newStem \in [Stems -> (Activities \X BOOLEAN) \cup {None}]
    /\ reservingActivity \in Activities \cup {None}
    /\ reserveCount \in Nat
    /\ waitingActivities \in Seq(Activities)

Init ==
    /\ CurrentActivity = None
    /\ state = [a \in Activities |-> "idle"]
    /\ frames = [a \in Activities |-> <<>>]
    /\ guardsem = [a \in Activities |-> FALSE]
    /\ value = [v \in Variables |-> FALSE]
    /\ told = [v \in Variables |-> TRUE]
    /\ dependents = [v \in Variables |-> {}]
    /\ newStem = [v \in Stems |-> None]
    /\ reservingActivity = None
    /\ reserveCount = 0
    /\ waitingActivities = <<>>

NewFrame == [reserved |-> FALSE, initial |-> FALSE, guard |-> None, result |-> FALSE,
             asked |-> FALSE, disturbed |-> FALSE]

Top(a) == Last(frames[a])
WithTop(stack, frame) == Append(Front(stack), frame)
Reserved(stack) == WithTop(stack, [Last(stack) EXCEPT !.reserved = TRUE, !.initial = FALSE])
Released(stack) == WithTop(stack, [Last(stack) EXCEPT !.reserved = FALSE])

\* a may run: the kernel is free, or a has it already.
HasKernel(a) == CurrentActivity \in {None, a}

\* a goes on in state st; in the middle of a GUARD it keeps the kernel.
Become(a, st, stack) ==
    /\ state' = [state EXCEPT ![a] = st]
    /\ frames' = [frames EXCEPT ![a] = stack]
    /\ CurrentActivity' = IF st \in {"evaluate", "decide"} THEN a ELSE None

-----------------------------------------------------------------------------
(* The scope.                                                              *)

\* reserve for the last activation of stack, which then goes on in st.
Reserve(a, stack, st) ==
    \/ /\ reservingActivity \in {None, a}
       /\ reservingActivity' = a
       /\ reserveCount' = reserveCount + 1
       /\ UNCHANGED waitingActivities
       /\ Become(a, st, Reserved(stack))
    \/ /\ reservingActivity \notin {None, a}
       /\ waitingActivities' = Append(waitingActivities, a)
       /\ UNCHANGED <<reservingActivity, reserveCount>>
       /\ Become(a, "reserving", stack)

\* release, n times: the first in line gets a scope that is given up.
Release(n) ==
    IF n = 0 \/ n # reserveCount
    THEN reserveCount' = reserveCount - n /\ UNCHANGED <<reservingActivity, waitingActivities>>
    ELSE IF waitingActivities = <<>>
    THEN reservingActivity' = None /\ reserveCount' = 0 /\ UNCHANGED waitingActivities
    ELSE /\ reservingActivity' = Head(waitingActivities)
         /\ reserveCount' = 1
         /\ waitingActivities' = Tail(waitingActivities)

ReservationsMutantAll(stack) == Len(stack)

\* How many of the activations have object_scope SCOPE_RESERVED.
Reservations(stack) == Quantify(DOMAIN stack, LAMBDA i : stack[i].reserved)

\* waitReserve returns: to the method that begins, or to the GUARD.
ReserveReturns(a) ==
    /\ state[a] = "reserving"
    /\ HasKernel(a)
    /\ reservingActivity = a
    /\ Become(a, IF Top(a).guard = None THEN "running" ELSE "evaluate", Reserved(frames[a]))
    /\ UNCHANGED <<guardsem, variableVars, newStem, scopeVars>>

-----------------------------------------------------------------------------
(* Methods of the object.                                                  *)

SumFrames == MapThenSumSet(LAMBDA a : Len(frames[a]), Activities)

\* A method begins on top of stack; a guarded one reserves the scope.
Begin(a, stack, guarded) ==
    /\ SumFrames < MaxFrames
    /\ \/ guarded /\ Reserve(a, Append(stack, NewFrame), "running")
       \/ ~guarded /\ Become(a, "running", Append(stack, NewFrame)) /\ UNCHANGED scopeVars

Call(a, guarded) ==
    /\ state[a] \in {"idle", "running"}
    /\ HasKernel(a)
    /\ Begin(a, frames[a], guarded)
    /\ UNCHANGED <<guardsem, variableVars, newStem>>

\* The method returns to its caller, perhaps into the expression of a GUARD.
Return(a) ==
    LET stack == Front(frames[a])
    IN  /\ state[a] = "running"
        /\ HasKernel(a)
        /\ Release(IF Top(a).reserved THEN 1 ELSE 0)
        /\ Become(a, IF stack = <<>> THEN "idle"
                     ELSE IF Last(stack).guard = None THEN "running" ELSE "decide", stack)
        /\ UNCHANGED <<guardsem, variableVars, newStem>>

\* An error is trapped below, or not at all.  A GUARD whose expression it
\* leaves is over, but its dependents stay.
RaiseError(a) ==
    \E keep \in 0..Len(frames[a]) - 1 :
        LET stack == SubSeq(frames[a], 1, keep)
        IN  /\ state[a] = "running"
            /\ HasKernel(a)
            /\ Release(Reservations(frames[a]) - Reservations(stack))
            /\ IF keep = 0 THEN Become(a, "idle", <<>>)
               ELSE Become(a, "running", WithTop(stack, [NewFrame EXCEPT !.reserved = Last(stack).reserved]))
            /\ UNCHANGED <<guardsem, variableVars, newStem>>

-----------------------------------------------------------------------------
(* Assignments: RexxVariable::set, drop and notify.                        *)

PostedMutantFirst(v) == IF dependents[v] = {} THEN {} ELSE {CHOOSE a \in dependents[v] : TRUE}

\* The activities that notify posts.
Posted(v) == dependents[v]

\* set: every dependent is posted, after which the kernel is given up once.
SetVariable(v, new) ==
    /\ value' = [value EXCEPT ![v] = new]
    /\ told' = [told EXCEPT ![v] = TRUE]
    /\ guardsem' = [b \in Activities |-> guardsem[b] \/ b \in Posted(v)]
    /\ UNCHANGED dependents

\* An assignment to a simple variable, DROP, or a stem assigned to a stem.
Assign(a, v, new) ==
    /\ state[a] = "running"
    /\ HasKernel(a)
    /\ SetVariable(v, new)
    /\ newStem' = [w \in Stems |-> IF w = v THEN None ELSE newStem[w]]
    /\ UNCHANGED <<CurrentActivity, state, frames, scopeVars>>

\* An assignment to a stem sets a new stem object, which notifies, and only
\* then the default value of that object.
AssignStem(a, v, new) ==
    /\ state[a] = "running"
    /\ HasKernel(a)
    /\ \/ /\ dependents[v] # {}
          /\ SetVariable(v, FALSE)
          /\ newStem' = [newStem EXCEPT ![v] = <<a, new>>]
          /\ Become(a, "assigning", frames[a])
       \/ /\ dependents[v] = {}
          /\ SetVariable(v, new)
          /\ newStem' = [newStem EXCEPT ![v] = None]
          /\ UNCHANGED <<CurrentActivity, state, frames>>
    /\ UNCHANGED scopeVars

\* RexxStem::setValue, once notify has the kernel back; the stem object may
\* not be the value of the variable any more.
SetDefault(a) ==
    LET set == {v \in Stems : newStem[v] \in {a} \X BOOLEAN}
    IN  /\ state[a] = "assigning"
        /\ HasKernel(a)
        /\ value' = [v \in Variables |-> IF v \in set THEN newStem[v][2] ELSE value[v]]
        /\ told' = [v \in Variables |-> told[v] /\ value'[v] = value[v]]
        /\ newStem' = [v \in Stems |-> IF v \in set THEN None ELSE newStem[v]]
        /\ Become(a, "running", frames[a])
        /\ UNCHANGED <<guardsem, dependents, scopeVars>>

\* An assignment to an element, which has no dependents to notify and hides
\* the default value.
AssignElement(a, v, new) ==
    /\ state[a] = "running"
    /\ HasKernel(a)
    /\ value[v] # new
    /\ value' = [value EXCEPT ![v] = new]
    /\ told' = [told EXCEPT ![v] = FALSE]
    /\ newStem' = [newStem EXCEPT ![v] = None]
    /\ UNCHANGED <<CurrentActivity, state, frames, guardsem, dependents, scopeVars>>

-----------------------------------------------------------------------------
(* RexxInstructionGuard::execute.                                          *)

\* setGuard, then guardOn or guardOff.
GuardWhen(a, on, v) ==
    LET stack == WithTop(frames[a], [Top(a) EXCEPT !.guard = v])
    IN  /\ state[a] = "running"
        /\ HasKernel(a)
        /\ dependents' = [dependents EXCEPT ![v] = @ \cup {a}]
        /\ \/ /\ on = Top(a).reserved
              /\ Become(a, "evaluate", stack)
              /\ UNCHANGED scopeVars
           \/ /\ on /\ ~Top(a).reserved
              /\ Reserve(a, stack, "evaluate")
           \/ /\ ~on /\ Top(a).reserved
              /\ Release(1)
              /\ Become(a, "evaluate", Released(stack))
        /\ UNCHANGED <<guardsem, value, told, newStem>>

\* The guards below the top of stack are disturbed by the one at the top.
Disturbed(stack) ==
    [i \in DOMAIN stack |->
        IF i < Len(stack) /\ stack[i].guard # None THEN [stack[i] EXCEPT !.disturbed = TRUE] ELSE stack[i]]

\* guardSet, then the expression: it reads the variable and may go on to
\* call a method of the object, which returns true.
Evaluate(a, guarded) ==
    LET stack == WithTop(Disturbed(frames[a]), [Top(a) EXCEPT !.result = value[Top(a).guard]])
        asking == WithTop(stack, [Last(stack) EXCEPT !.asked = TRUE])
    IN  /\ state[a] = "evaluate"
        /\ HasKernel(a)
        /\ guardsem' = [guardsem EXCEPT ![a] = FALSE]
        /\ \/ Become(a, "decide", stack) /\ UNCHANGED scopeVars
           \/ Begin(a, asking, guarded)
        /\ UNCHANGED <<variableVars, newStem>>

RemainingMutantNone(a, v) == {}

\* The dependents that uninform leaves: the list goes with the last one.
Remaining(a, v) == dependents[v] \ {a}

\* True: clearGuard, and on.  uninform uses the dependents without a test
\* that there are any.
Pass(a) ==
    LET v == Top(a).guard
    IN  /\ state[a] = "decide"
        /\ Top(a).result
        /\ \/ /\ dependents[v] = {}
              /\ Become(a, "crashed", frames[a])
              /\ UNCHANGED dependents
           \/ /\ dependents[v] # {}
              /\ dependents' = [dependents EXCEPT ![v] = Remaining(a, v)]
              /\ Become(a, "running", WithTop(frames[a], [NewFrame EXCEPT !.reserved = Top(a).reserved]))
        /\ UNCHANGED <<guardsem, value, told, newStem, scopeVars>>

WaitMutantKeepsScope(a) ==
    /\ state[a] = "decide"
    /\ ~Top(a).result
    /\ Become(a, "parked", WithTop(frames[a], [Top(a) EXCEPT !.initial = FALSE]))
    /\ UNCHANGED <<guardsem, variableVars, newStem, scopeVars>>

WaitMutantLateSet(a) ==
    /\ state[a] = "decide"
    /\ ~Top(a).result
    /\ guardsem' = [guardsem EXCEPT ![a] = FALSE]
    /\ Release(IF Top(a).reserved THEN 1 ELSE 0)
    /\ Become(a, "parked", WithTop(frames[a], [Top(a) EXCEPT !.initial = Top(a).reserved, !.reserved = FALSE]))
    /\ UNCHANGED <<variableVars, newStem>>

\* False: guardWait gives up one reservation and the kernel.
Wait(a) ==
    /\ state[a] = "decide"
    /\ ~Top(a).result
    /\ Release(IF Top(a).reserved THEN 1 ELSE 0)
    /\ Become(a, "parked", WithTop(frames[a], [Top(a) EXCEPT !.initial = Top(a).reserved, !.reserved = FALSE]))
    /\ UNCHANGED <<guardsem, variableVars, newStem>>

WaitReturnsMutantNoLoop(a) ==
    /\ state[a] = "parked"
    /\ HasKernel(a)
    /\ guardsem[a]
    /\ \/ Top(a).initial /\ Reserve(a, frames[a], "evaluate")
       \/ /\ ~Top(a).initial
          /\ Become(a, "decide", WithTop(frames[a], [Top(a) EXCEPT !.result = TRUE]))
          /\ UNCHANGED scopeVars
    /\ UNCHANGED <<guardsem, variableVars, newStem>>

\* guardWait returns: the scope is reserved again before the expression is
\* looked at again.
WaitReturns(a) ==
    /\ state[a] = "parked"
    /\ HasKernel(a)
    /\ guardsem[a]
    /\ \/ Top(a).initial /\ Reserve(a, frames[a], "evaluate")
       \/ ~Top(a).initial /\ Become(a, "evaluate", frames[a]) /\ UNCHANGED scopeVars
    /\ UNCHANGED <<guardsem, variableVars, newStem>>

-----------------------------------------------------------------------------
\* The steps of an activity that is somewhere in the middle of a clause.
GoOn(a) ==
    \/ ReserveReturns(a)
    \/ SetDefault(a)
    \/ \E guarded \in BOOLEAN : Evaluate(a, guarded)
    \/ Pass(a)
    \/ Wait(a)
    \/ WaitReturns(a)

\* What a method may do next, if anything: another clause, or its end.
Clause(a) ==
    \/ Return(a)
    \/ \E guarded \in BOOLEAN : Call(a, guarded)
    \/ RaiseError(a)
    \/ \E v \in Variables, new \in BOOLEAN : Assign(a, v, new)
    \/ \E v \in Stems, new \in BOOLEAN : AssignStem(a, v, new) \/ AssignElement(a, v, new)
    \/ \E on \in BOOLEAN, v \in Variables : GuardWhen(a, on, v)

Running == \A a \in Activities : state[a] # "crashed"

Next == Running /\ \E a \in Activities : GoOn(a) \/ Clause(a)

Spec == Init /\ [][Next]_vars

(* The kernel lock lets every activity that asks have its turn (KernelLock). *)
(* Nothing obliges a method to go on, or to end.                           *)
Fairness == \A a \in Activities : SF_vars(Running /\ GoOn(a))

FairSpec == Spec /\ Fairness

-----------------------------------------------------------------------------
(* What makes GUARD WHEN correct.                                          *)

\* No change is missed: an activity that waits unposted waits for a variable
\* that is still false, whatever happened between its guardSet, the end of
\* its expression and the wait.  Two exceptions the code has: a value that no
\* notify announced, and a GUARD WHEN in a method that the expression called,
\* which resets the same semaphore.
NoChangeMissed ==
    \A a \in Activities :
        state[a] = "parked" /\ ~guardsem[a] /\ ~Top(a).disturbed
            => LET v == Top(a).guard IN value[v] => ~told[v]

\* clearGuard finds the dependents that setGuard made, in spite of the other
\* activities that set and clear guards, fail and leave entries behind.  Only
\* a GUARD WHEN in its own expression can take its entry away, and then the
\* program uses a null reference.
ClearFindsDependents ==
    \A a \in Activities : state[a] = "crashed" => Top(a).disturbed

\* While it waits an activity keeps others out of the scope only if a method
\* further down reserved it: guardWait gives up one reservation.
OthersGetIn ==
    \A a \in Activities :
        state[a] = "parked" /\ reservingActivity = a => Reservations(Front(frames[a])) > 0

\* A GUARD lets its method go on only while its variable is true, and with
\* the scope if it is an ON; posts that come late or for other reasons do not
\* let it through.  (An expression that calls a method may be out of date.)
ProceedsOnTruth ==
    [][\A a \in Activities :
          state[a] = "decide" /\ state'[a] = "running" /\ ~Top(a).asked
              => /\ value[Top(a).guard]
                 /\ Top(a).reserved => reservingActivity = a]_vars

InGuard(a) == \E i \in DOMAIN frames[a] : frames[a][i].guard # None

\* Once everything that is waited for stays true no GUARD waits for ever: a
\* post reaches it, it gets the kernel, and goes on unless it is in line for
\* a scope that another method keeps, or runs a method of its expression.
GuardsProceed ==
    \A a \in Activities :
        <>[](Running /\ \A v \in Variables : value[v] /\ told[v])
            => []<>(\/ ~InGuard(a)
                    \/ state[a] = "running"
                    \/ state[a] = "reserving" /\ reservingActivity # a
                    \/ \E i \in DOMAIN frames[a] : frames[a][i].disturbed)

=============================================================================
