------------------------- MODULE ActivityPool_proofs -------------------------
(***************************************************************************)
(* For any set of activities, finite or not: the free list holds idle      *)
(* activities, the posts and resets of the run semaphores never cross, and *)
(* ProcessNumActs counts exactly the threads inside the interpreter.       *)
(***************************************************************************)
EXTENDS ActivityPool, FiniteSetTheorems, TLAPS

\* A listed activity sleeps on nothing: it has no activation, no post and was
\* not told to exit, and it is not on its way to the kernel with work.
ListedAreIdle ==
    \A a \in classFreeActivities :
        /\ thread[a] \notin {"none", "woken", "working"}
        /\ ~dispatched[a] /\ ~runsem[a] /\ ~exit[a]

\* At the bottom of its loop a thread is posted if and only if there is a
\* reason: an activation, or the order to exit.
PostedForAReason ==
    \A a \in Activities :
        /\ thread[a] \in {"waiting", "released"} =>
              /\ runsem[a] => dispatched[a] \/ exit[a]
              /\ dispatched[a] => runsem[a]
        /\ thread[a] = "woken" => dispatched[a]
        /\ thread[a] = "working" => ~dispatched[a]
        /\ exit[a] => thread[a] \notin {"none", "woken", "working"}

\* Until the interpreter is shut down, nobody leaves or is told to exit
\* before kernelTerminate has set ProcessTerminating.
LeaversTerminate ==
    ~ProcessDoneTerm /\ ~ProcessTerminating =>
        /\ main \in {"working", "returned"}
        /\ \A a \in Activities :
              ~exit[a] /\ thread[a] \notin {"leaving", "counted", "shutdown"}

\* The threads that have not counted themselves out.
Inside == {a \in Activities : thread[a] \notin {"none", "counted", "last", "shutdown", "gone"}}

CountInside ==
    /\ IsFiniteSet(Inside)
    /\ ProcessNumActs = Cardinality(Inside) + IF main = "working" THEN 1 ELSE 0

\* The inductive invariant.
IInv ==
    /\ TypeOK
    /\ ListedAreIdle
    /\ PostedForAReason
    /\ LeaversTerminate
    /\ FreeAreIdle
    /\ CountInside

\* The process begins with its main program and no other activity.
LEMMA InitIInv == Init => IInv
<1>1. Init => Inside = {}
      BY DEF Init, Inside
<1>2. Init => CountInside
      BY <1>1, FS_EmptySet DEF Init, CountInside
<1>3. ASSUME Init PROVE TypeOK
  <2>1. thread \in [Activities -> ThreadStates] /\ main \in MainStates
        BY <1>3 DEF Init, ThreadStates, MainStates
  <2>2. /\ runsem \in [Activities -> BOOLEAN]
        /\ exit \in [Activities -> BOOLEAN]
        /\ dispatched \in [Activities -> BOOLEAN]
        BY <1>3 DEF Init
  <2>. QED  BY <1>3, <2>1, <2>2 DEF Init, TypeOK
<1>4. Init => ListedAreIdle /\ PostedForAReason /\ LeaversTerminate /\ FreeAreIdle
      BY DEF Init, ListedAreIdle, PostedForAReason, LeaversTerminate, FreeAreIdle
<1>. QED  BY <1>2, <1>3, <1>4 DEF IInv

-----------------------------------------------------------------------------
(* The count.  A step moves one thread at most, so that the set of those   *)
(* inside gains one, loses one or stays.                                   *)

\* A thread that is created is counted once.
LEMMA CountDispatch ==
    ASSUME IInv, StartAnother
    PROVE  CountInside'
<1>. USE DEF IInv, TypeOK, CountInside
<1>1. PICK a \in Activities : Dispatch(a)
      BY DEF StartAnother
<1>2. CASE a \in classFreeActivities
  <2>1. Inside' = Inside /\ UNCHANGED <<main, ProcessNumActs>>
        BY <1>1, <1>2 DEF StartAnother, Dispatch, Inside
  <2>. QED  BY <2>1
<1>3. CASE a \notin classFreeActivities
  <2>1. Inside' = Inside \cup {a} /\ a \notin Inside
        BY <1>1, <1>3 DEF Dispatch, Inside, Goto, ThreadStates
  <2>2. ProcessNumActs' = ProcessNumActs + 1 /\ UNCHANGED main
        BY <1>1, <1>3 DEF StartAnother, Dispatch
  <2>3. IsFiniteSet(Inside') /\ Cardinality(Inside') = Cardinality(Inside) + 1
        BY <2>1, FS_AddElement
  <2>. QED  BY <2>2, <2>3, FS_CardinalityType
<1>. QED  BY <1>2, <1>3

\* A thread leaves the count when it leaves the set, and only then.
LEMMA CountThread ==
    ASSUME NEW a \in Activities, IInv, ThreadStep(a)
    PROVE  CountInside'
<1>. USE DEF IInv, TypeOK, CountInside
<1>1. CASE CountOut(a)
  <2>1. Inside' = Inside \ {a} /\ a \in Inside
        BY <1>1 DEF CountOut, Inside, Goto, ThreadStates
  <2>2. ProcessNumActs' = ProcessNumActs - 1 /\ UNCHANGED main
        BY <1>1 DEF CountOut
  <2>3. IsFiniteSet(Inside') /\ Cardinality(Inside') = Cardinality(Inside) - 1
        BY <2>1, FS_RemoveElement
  <2>. QED  BY <2>2, <2>3, FS_CardinalityType
<1>2. CASE ~CountOut(a)
  <2>1. Inside' = Inside
    <3>1. CASE Wake(a)
          BY <3>1 DEF Wake, Inside, Goto
    <3>2. CASE Begin(a)
          BY <3>2 DEF Begin, Inside, Goto
    <3>3. CASE Finish(a)
          BY <3>3 DEF Finish, Inside, Goto
    <3>4. CASE LoopOrLeave(a)
          BY <3>4 DEF LoopOrLeave, Inside, Goto
    <3>5. CASE Leave(a)
          BY <3>5 DEF Leave, Inside, Goto
    <3>6. CASE LastLooks(a)
          BY <3>6 DEF LastLooks, Inside, Goto
    <3>7. CASE LastShutsDown(a)
          BY <3>7 DEF LastShutsDown, Inside, Goto
    <3>. QED  BY <1>2, <3>1, <3>2, <3>3, <3>4, <3>5, <3>6, <3>7 DEF ThreadStep
  <2>2. UNCHANGED <<main, ProcessNumActs>>
        BY <1>2 DEF ThreadStep, Wake, Begin, Finish, LoopOrLeave, Leave, LastLooks,
                    LastShutsDown, kernelShutdown, processVars
  <2>. QED  BY <2>1, <2>2
<1>. QED  BY <1>1, <1>2

\* The main thread leaves the count in returnActivity.
LEMMA CountMain ==
    ASSUME IInv, MainReturns \/ Terminates
    PROVE  CountInside'
<1>1. Inside' = Inside
      BY DEF MainReturns, Terminates, MainTerminates, AnyActive, MainShutsDown, TerminateFreeActs,
             poolVars, Inside
<1>2. Cardinality(Inside) \in Nat
      BY FS_CardinalityType DEF IInv, CountInside
<1>. QED
     BY <1>1, <1>2 DEF IInv, CountInside, MainReturns, Terminates, MainTerminates, AnyActive,
                       MainShutsDown, TerminateFreeActs, kernelShutdown, processVars

\* Every change of ProcessNumActs goes with a thread that enters or leaves.
LEMMA CountStep == IInv /\ [Next]_vars => CountInside'
<1>1. IInv /\ UNCHANGED vars => CountInside'
      BY DEF IInv, CountInside, Inside, vars, poolVars, processVars
<1>. QED  BY <1>1, CountDispatch, CountThread, CountMain DEF Next

-----------------------------------------------------------------------------
(* The free list, the posts and the order to exit.                         *)

\* START and REPLY take an activity from the free list or make a new one.
LEMMA StepStartAnother ==
    ASSUME IInv, StartAnother, CountInside'
    PROVE  IInv'
<1>. USE DEF IInv, TypeOK, StartAnother, Dispatch, Goto
<1>1. PICK a \in Activities : Dispatch(a)
      OBVIOUS
<1>2. TypeOK'
      BY <1>1 DEF ThreadStates
<1>3. ListedAreIdle'
      BY <1>1 DEF ListedAreIdle
<1>4. PostedForAReason'
      BY <1>1 DEF PostedForAReason, ListedAreIdle
<1>5. LeaversTerminate'
      BY <1>1 DEF LeaversTerminate
<1>6. FreeAreIdle'
      BY <1>1 DEF FreeAreIdle
<1>. QED  BY <1>2, <1>3, <1>4, <1>5, <1>6

\* A thread that lists itself has begun its activation, and one that leaves
\* the loop is listed no more when it is done, until the pools are freed.
LEMMA StepThread ==
    ASSUME NEW a \in Activities, IInv, ThreadStep(a), CountInside'
    PROVE  IInv'
<1>. USE DEF IInv, TypeOK, Goto, processVars, ListedAreIdle, PostedForAReason, LeaversTerminate,
             FreeAreIdle
<1>1. CASE Wake(a)
      BY <1>1 DEF Wake, ThreadStates
<1>2. CASE Begin(a)
      BY <1>2 DEF Begin, ThreadStates
<1>3. CASE Finish(a)
      BY <1>3 DEF Finish, ThreadStates
<1>4. CASE LoopOrLeave(a)
      BY <1>4 DEF LoopOrLeave, ThreadStates
<1>5. CASE CountOut(a)
  <2>1. ProcessNumActs' \in Nat
        BY FS_CardinalityType DEF CountInside
  <2>. QED  BY <1>5, <2>1 DEF CountOut, ThreadStates
<1>6. CASE Leave(a)
      BY <1>6 DEF Leave, ThreadStates
<1>7. CASE LastLooks(a)
      BY <1>7 DEF LastLooks, ThreadStates
<1>8. CASE LastShutsDown(a)
      BY <1>8 DEF LastShutsDown, kernelShutdown, ThreadStates
<1>. QED  BY <1>1, <1>2, <1>3, <1>4, <1>5, <1>6, <1>7, <1>8 DEF ThreadStep

\* The main program returns, or terminates the process.
LEMMA StepMain ==
    ASSUME IInv, MainReturns \/ Terminates, CountInside'
    PROVE  IInv'
<1>. USE DEF IInv, TypeOK, MainStates, poolVars, processVars, ListedAreIdle, PostedForAReason,
             LeaversTerminate, FreeAreIdle
<1>1. CASE MainReturns
  <2>1. ProcessNumActs' \in Nat
        BY FS_CardinalityType DEF CountInside
  <2>. QED  BY <1>1, <2>1 DEF MainReturns
<1>2. CASE MainTerminates
      BY <1>2 DEF MainTerminates
<1>3. CASE AnyActive
      BY <1>3 DEF AnyActive
<1>4. CASE MainShutsDown
      BY <1>4 DEF MainShutsDown, kernelShutdown
<1>5. CASE TerminateFreeActs
      BY <1>5 DEF TerminateFreeActs
<1>. QED  BY <1>1, <1>2, <1>3, <1>4, <1>5 DEF Terminates

\* Listing, posting and counting agree in every reachable state.
THEOREM Invariance == Spec => []IInv
<1>1. IInv /\ [Next]_vars => IInv'
  <2>. SUFFICES ASSUME IInv, [Next]_vars PROVE IInv'
       OBVIOUS
  <2>1. CountInside'
        BY CountStep
  <2>2. CASE UNCHANGED vars
        BY <2>1, <2>2 DEF IInv, TypeOK, ListedAreIdle, PostedForAReason, LeaversTerminate,
                          FreeAreIdle, vars, poolVars, processVars
  <2>3. CASE Next
        BY <2>1, <2>3, StepStartAnother, StepThread, StepMain DEF Next
  <2>. QED  BY <2>2, <2>3
<1>. QED  BY InitIInv, <1>1, PTL DEF Spec

\* Every reachable state is of the declared types: in particular the count
\* of active activities, which is kept in several places, stays at or above 0.
THEOREM TypeCorrect == Spec => []TypeOK
BY Invariance, PTL DEF IInv

\* newActivity never reuses an activity that has work, a post or the order
\* to exit, although a thread lists itself before it sleeps again.
THEOREM FreeIdle == Spec => []FreeAreIdle
BY Invariance, PTL DEF IInv

\* The reset of a run semaphore at the end of one activation and the post
\* for the next one never cross.
THEOREM Woken == Spec => []WokenForWork
<1>1. IInv => WokenForWork
      BY DEF IInv, PostedForAReason, WokenForWork
<1>. QED  BY Invariance, <1>1, PTL

\* ProcessNumActs counts the threads that are still in the interpreter, so
\* that it is zero only when there is none.
THEOREM ExactCount == Spec => []CountIsExact
<1>1. IInv => CountIsExact
      BY DEF IInv, CountInside, Inside, CountIsExact
<1>. QED  BY Invariance, <1>1, PTL

-----------------------------------------------------------------------------
(* The end of the process.                                                 *)

\* A thread that sleeps without a post is on the free list, where
\* terminateFreeActs finds it, or has found it.
SleepersAreListed ==
    ~ProcessDoneTerm =>
        /\ \A a \in Activities \ classFreeActivities :
              /\ thread[a] = "waiting" => runsem[a]
              /\ thread[a] = "released" => runsem[a] \/ ProcessTerminating
        /\ main = "done" => classFreeActivities = {}

\* When kernelTerminate has left the shut-down to others there are others.
SomebodyIsLeft ==
    /\ RexxTerminated = ProcessDoneTerm
    /\ main \in {"request", "done"} /\ ~ProcessDoneTerm
          => \E a \in Activities : thread[a] \notin {"none", "gone"}

\* What RexxWaitForTermination waits for is not forgotten: until the
\* interpreter is shut down there is a thread on its way to do so, that does
\* not sleep, or sleeps with a post.
ShutDownIsOwed ==
    main = "done" /\ ~RexxTerminated =>
        \E a \in Activities :
            /\ thread[a] \notin {"none", "gone"}
            /\ thread[a] = "waiting" => runsem[a]

\* A count other than zero has somebody behind it.
LEMMA CountedIsInside ==
    ASSUME IInv, main # "working", ProcessNumActs # 0
    PROVE  \E a \in Inside : TRUE
<1>1. Cardinality(Inside) # 0
      BY FS_CardinalityType DEF IInv, CountInside
<1>. QED  BY <1>1, FS_EmptySet

\* A thread that sleeps and has no post is on the free list, where
\* terminateFreeActs finds it.
LEMMA StepSleepers ==
    ASSUME IInv, SleepersAreListed, [Next]_vars
    PROVE  SleepersAreListed'
<1>. USE DEF IInv, TypeOK, SleepersAreListed, LeaversTerminate, poolVars, processVars, Goto
<1>1. CASE UNCHANGED vars
      BY <1>1 DEF vars
<1>2. CASE StartAnother
      BY <1>2 DEF StartAnother, Dispatch
<1>3. CASE MainReturns \/ Terminates
      BY <1>3 DEF MainReturns, Terminates, MainTerminates, AnyActive, MainShutsDown,
                  TerminateFreeActs, kernelShutdown
<1>4. ASSUME NEW a \in Activities, ThreadStep(a) PROVE SleepersAreListed'
  <2>1. CASE Finish(a)
        BY <2>1 DEF Finish
  <2>2. CASE LoopOrLeave(a)
        BY <2>2 DEF LoopOrLeave
  <2>3. CASE Leave(a)
        BY <2>3 DEF Leave
  <2>4. CASE Wake(a) \/ Begin(a) \/ CountOut(a) \/ LastLooks(a) \/ LastShutsDown(a)
        BY <2>4 DEF Wake, Begin, CountOut, LastLooks, LastShutsDown, kernelShutdown
  <2>. QED  BY <1>4, <2>1, <2>2, <2>3, <2>4 DEF ThreadStep
<1>. QED  BY <1>1, <1>2, <1>3, <1>4 DEF Next

\* The thread that leaves is not the last, or shuts down: the count it has
\* left is that of the others.
LEMMA StepSomebody ==
    ASSUME IInv, SomebodyIsLeft, [Next]_vars
    PROVE  SomebodyIsLeft'
<1>. USE DEF IInv, TypeOK, SomebodyIsLeft, LeaversTerminate, poolVars, processVars, Goto
<1>1. CASE UNCHANGED vars
      BY <1>1 DEF vars
<1>2. CASE StartAnother
      BY <1>2 DEF StartAnother, Dispatch
<1>3. CASE AnyActive
  <2>1. ProcessNumActs # 0 => \E a \in Inside : TRUE
        BY <1>3, CountedIsInside DEF AnyActive
  <2>. QED  BY <1>3, <2>1 DEF AnyActive, Inside
<1>4. CASE MainReturns \/ MainTerminates \/ MainShutsDown \/ TerminateFreeActs
      BY <1>4 DEF MainReturns, MainTerminates, MainShutsDown, TerminateFreeActs, kernelShutdown
<1>5. ASSUME NEW a \in Activities, ThreadStep(a) PROVE SomebodyIsLeft'
  <2>1. CASE Leave(a)
    <3>1. CASE main \in {"request", "done"} /\ ProcessNumActs # 0
      <4>1. PICK b \in Inside : TRUE
            BY <3>1, CountedIsInside
      <4>. QED  BY <2>1, <4>1 DEF Leave, Inside
    <3>. QED  BY <2>1, <3>1 DEF Leave
  <2>2. CASE LastLooks(a)
        BY <2>2 DEF LastLooks
  <2>3. CASE LastShutsDown(a)
        BY <2>3 DEF LastShutsDown, kernelShutdown
  <2>4. CASE Wake(a) \/ Begin(a) \/ Finish(a) \/ LoopOrLeave(a) \/ CountOut(a)
        BY <2>4 DEF Wake, Begin, Finish, LoopOrLeave, CountOut
  <2>. QED  BY <1>5, <2>1, <2>2, <2>3, <2>4 DEF ThreadStep
<1>. QED  BY <1>1, <1>2, <1>3, <1>4, <1>5 DEF Next, Terminates

\* The safety half of TerminationCompletes: no state in which everybody
\* believes that somebody else shuts the interpreter down.
THEOREM ShutDownOwed == Spec => []ShutDownIsOwed
<1>1. Init => SleepersAreListed /\ SomebodyIsLeft
      BY DEF Init, SleepersAreListed, SomebodyIsLeft
<1>2. IInv /\ SleepersAreListed /\ SomebodyIsLeft /\ [Next]_vars
          => (SleepersAreListed /\ SomebodyIsLeft)'
      BY StepSleepers, StepSomebody
<1>3. IInv /\ SleepersAreListed /\ SomebodyIsLeft => ShutDownIsOwed
      BY DEF SleepersAreListed, SomebodyIsLeft, ShutDownIsOwed
<1>. QED  BY Invariance, <1>1, <1>2, <1>3, PTL DEF Spec

=============================================================================
