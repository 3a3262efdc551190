----------------------------- MODULE KernelLock -----------------------------
(***************************************************************************)
(* The interpreter kernel lock of kernel/runtime/RexxActivity.cpp.         *)
(*                                                                         *)
(* All Rexx code runs under one recursive pthread mutex, kernel_semaphore. *)
(* In front of it stands a round robin line: a chain of activities through *)
(* nextWaitingActivity, with firstWaitingActivity and lastWaitingActivity. *)
(* An activity that finds the line empty becomes its head and goes         *)
(* straight to the mutex; one that joins behind sleeps on its own run      *)
(* semaphore until the activity before it leaves the line.  The same run   *)
(* semaphore is used by waitReserve to wait for an object scope or a       *)
(* message result, so the line and the resource waits share their wakeups. *)
(*                                                                         *)
(* Grain of atomicity: one step per mutex, semaphore or unlocked shared    *)
(* access.  A resource section (resource_semaphore held) is one step: the  *)
(* chain is written nowhere else.  EVWAIT is one step, since only the      *)
(* owner of a run semaphore ever resets it, so a broadcast is never undone *)
(* before the sleeper has seen it.                                         *)
(***************************************************************************)
EXTENDS Naturals, FiniteSets, Sequences

CONSTANTS
    Activities,       \* the threads that run Rexx code, each with its activity
    None,             \* OREF_NULL
    SpuriousWakeups   \* may pthread_cond_wait return without a broadcast?

ASSUME NoneAssumption == None \notin Activities
ASSUME SpuriousAssumption == SpuriousWakeups \in BOOLEAN

VARIABLES
    pc,                     \* where each thread is
    mutexOwner,             \* kernel_semaphore: the owning thread
    mutexCount,             \*   and its recursion count
    CurrentActivity,        \* the global of that name
    firstWaitingActivity,   \* head of the line
    lastWaitingActivity,    \* tail of the line
    nextWaitingActivity,    \* the chain through the activities
    runsem,                 \* TRUE: the activity's run semaphore is posted
    waitingObject,          \* TRUE: the activity's waitingObject is set
    resourceWaiters         \* activities on the wait list of some resource

mutex  == <<mutexOwner, mutexCount>>
line   == <<firstWaitingActivity, lastWaitingActivity, nextWaitingActivity>>
waits  == <<waitingObject, resourceWaiters>>
vars   == <<pc, mutex, CurrentActivity, line, runsem, waits>>

Locations == {
    "new",        \* a thread without an activity object
    "create",     \* in getActivity, holding the bare kernel mutex
    "outside",    \* has an activity, runs no kernel code
    "request",    \* in requestKernel, about to look at the line
    "try",        \* saw an empty line, about to MTXRI
    "join",       \* in addWaitingActivity(this, FALSE)
    "inside",     \* runs kernel code
    "rejoin",     \* in addWaitingActivity(this, TRUE), from relinquish
    "handover",   \* chained by relinquish, the mutex not yet released
    "queued",     \* in waitKernel, on its run semaphore
    "lock",       \* in MTXRQ(kernel_semaphore)
    "dequeue",    \* owns the mutex, about to leave the line
    "parked"}     \* in waitReserve, on its run semaphore

\* The locations from which a thread owns the kernel mutex.
Holding == {"create", "inside", "rejoin", "handover", "dequeue"}

\* The locations of a thread that is chained in the line.
Lined == {"handover", "queued", "lock", "dequeue"}

TypeOK ==
    /\ pc \in [Activities -> Locations]
    /\ mutexOwner \in Activities \cup {None}
    /\ mutexCount \in Nat
    /\ CurrentActivity \in Activities \cup {None}
    /\ firstWaitingActivity \in Activities \cup {None}
    /\ lastWaitingActivity \in Activities \cup {None}
    /\ nextWaitingActivity \in [Activities -> Activities \cup {None}]
    /\ runsem \in [Activities -> BOOLEAN]
    /\ waitingObject \in [Activities -> BOOLEAN]
    /\ resourceWaiters \in SUBSET Activities

Init ==
    /\ pc = [a \in Activities |-> "new"]
    /\ mutexOwner = None
    /\ mutexCount = 0
    /\ CurrentActivity = None
    /\ firstWaitingActivity = None
    /\ lastWaitingActivity = None
    /\ nextWaitingActivity = [a \in Activities |-> None]
    /\ runsem = [a \in Activities |-> FALSE]
    /\ waitingObject = [a \in Activities |-> FALSE]
    /\ resourceWaiters = {}

Goto(a, location) == pc' = [pc EXCEPT ![a] = location]

-----------------------------------------------------------------------------
(* The recursive pthread mutex and the run semaphores.                     *)

\* MTXRQ: a recursive mutex is granted when it is free or already owned.
RequestMutex(a) ==
    /\ mutexOwner \in {None, a}
    /\ mutexOwner' = a
    /\ mutexCount' = mutexCount + 1

\* MTXRL by the owner.
ReleaseMutex(a) ==
    /\ mutexCount' = mutexCount - 1
    /\ mutexOwner' = IF mutexCount = 1 THEN None ELSE mutexOwner

\* RexxSemaphore::wait tests the value once and calls pthread_cond_wait in
\* an if, not in a loop: any return of the call ends the wait.
WaitReturns(a) == runsem[a] \/ SpuriousWakeups

-----------------------------------------------------------------------------
(* Entering: getActivity and requestKernel.                                *)

\* getActivity on a thread with no activity: the bare kernel mutex is taken
\* around newActivity, ...
LockForNewActivity(a) ==
    /\ pc[a] = "new"
    /\ mutexOwner = None
    /\ RequestMutex(a)
    /\ Goto(a, "create")
    /\ UNCHANGED <<CurrentActivity, line, runsem, waits>>

\* ... released, and the kernel is requested again for the new activity.
UnlockNewActivity(a) ==
    /\ pc[a] = "create"
    /\ ReleaseMutex(a)
    /\ Goto(a, "request")
    /\ UNCHANGED <<CurrentActivity, line, runsem, waits>>

\* A thread that already has an activity comes back into the kernel.
EnterKernel(a) ==
    /\ pc[a] = "outside"
    /\ Goto(a, "request")
    /\ UNCHANGED <<mutex, CurrentActivity, line, runsem, waits>>

\* requestKernel: the look at waitingActivity() is not under any lock.
RequestKernel(a) ==
    /\ pc[a] = "request"
    /\ Goto(a, IF firstWaitingActivity = None THEN "try" ELSE "join")
    /\ UNCHANGED <<mutex, CurrentActivity, line, runsem, waits>>

\* MTXRI, pthread_mutex_trylock: in at once, or off to stand in line.
TryKernel(a) ==
    /\ pc[a] = "try"
    /\ \/ /\ mutexOwner \in {None, a}
          /\ RequestMutex(a)
          /\ CurrentActivity' = a
          /\ Goto(a, "inside")
       \/ /\ mutexOwner \notin {None, a}
          /\ Goto(a, "join")
          /\ UNCHANGED <<mutex, CurrentActivity>>
    /\ UNCHANGED <<line, runsem, waits>>

-----------------------------------------------------------------------------
(* addWaitingActivity(newActivity, release).                               *)

\* Nobody in line: become its head and go for the mutex without a wait.
BecomeHead(a) ==
    /\ firstWaitingActivity = None
    /\ firstWaitingActivity' = a
    /\ lastWaitingActivity' = a
    /\ Goto(a, "lock")
    /\ UNCHANGED <<nextWaitingActivity, runsem>>

ChainBehindMutantNoClear(a, then) ==
    /\ firstWaitingActivity # None
    /\ nextWaitingActivity' = [nextWaitingActivity EXCEPT ![lastWaitingActivity] = a]
    /\ lastWaitingActivity' = a
    /\ Goto(a, then)
    /\ UNCHANGED <<firstWaitingActivity, runsem>>

\* Somebody in line: chain behind the last one and clear the run semaphore
\* in the same resource section, so that no post can fall in between.
ChainBehind(a, then) ==
    /\ firstWaitingActivity # None
    /\ nextWaitingActivity' = [nextWaitingActivity EXCEPT ![lastWaitingActivity] = a]
    /\ lastWaitingActivity' = a
    /\ runsem' = [runsem EXCEPT ![a] = FALSE]
    /\ Goto(a, then)
    /\ UNCHANGED firstWaitingActivity

\* release = FALSE, from requestKernel.
JoinLine(a) ==
    /\ pc[a] = "join"
    /\ BecomeHead(a) \/ ChainBehind(a, "queued")
    /\ UNCHANGED <<mutex, CurrentActivity, waits>>

\* release = TRUE, from relinquish and yield: the caller owns the mutex.
RejoinLine(a) ==
    /\ pc[a] = "rejoin"
    /\ BecomeHead(a) \/ ChainBehind(a, "handover")
    /\ UNCHANGED <<mutex, CurrentActivity, waits>>

\* The release and the thread yield.  CurrentActivity is left as it was.
HandOver(a) ==
    /\ pc[a] = "handover"
    /\ ReleaseMutex(a)
    /\ Goto(a, "queued")
    /\ UNCHANGED <<CurrentActivity, line, runsem, waits>>

WaitKernelReturnsMutantNoLock(a) ==
    /\ pc[a] = "queued"
    /\ WaitReturns(a)
    /\ Goto(a, "dequeue")
    /\ UNCHANGED <<mutex, CurrentActivity, line, runsem, waits>>

\* waitKernel returns.
WaitKernelReturns(a) ==
    /\ pc[a] = "queued"
    /\ WaitReturns(a)
    /\ Goto(a, "lock")
    /\ UNCHANGED <<mutex, CurrentActivity, line, runsem, waits>>

LockKernel(a) ==
    /\ pc[a] = "lock"
    /\ RequestMutex(a)
    /\ Goto(a, "dequeue")
    /\ UNCHANGED <<CurrentActivity, line, runsem, waits>>

\* The line after its head was taken off.  nextWaitingActivity of the
\* running activity is cleared after the head has been read.
NextHead == nextWaitingActivity[firstWaitingActivity]

DequeueMutantNoPost(a) ==
    /\ pc[a] = "dequeue"
    /\ LET head == IF firstWaitingActivity = None THEN None ELSE NextHead
       IN  /\ firstWaitingActivity' = head
           /\ lastWaitingActivity' = IF head = None THEN None ELSE lastWaitingActivity
           /\ UNCHANGED <<runsem, waitingObject>>
    /\ nextWaitingActivity' = [nextWaitingActivity EXCEPT ![a] = None]
    /\ CurrentActivity' = a
    /\ Goto(a, "inside")
    /\ UNCHANGED <<mutex, resourceWaiters>>

\* The second resource section: the head leaves the line, the next one is
\* released to run and the caller becomes the current activity.  The head
\* that leaves is meant to be the caller itself.
Dequeue(a) ==
    /\ pc[a] = "dequeue"
    /\ LET head == IF firstWaitingActivity = None THEN None ELSE NextHead
       IN  /\ firstWaitingActivity' = head
           /\ lastWaitingActivity' = IF head = None THEN None ELSE lastWaitingActivity
           /\ runsem' = [b \in Activities |-> b = head \/ runsem[b]]
           /\ waitingObject' = [b \in Activities |-> b # head /\ waitingObject[b]]
    /\ nextWaitingActivity' = [nextWaitingActivity EXCEPT ![a] = None]
    /\ CurrentActivity' = a
    /\ Goto(a, "inside")
    /\ UNCHANGED <<mutex, resourceWaiters>>

-----------------------------------------------------------------------------
(* Leaving, and waiting for a resource.                                    *)

\* releaseKernel, as exitKernel and returnActivity call it.
ReleaseKernel(a) ==
    /\ pc[a] = "inside"
    /\ CurrentActivity' = None
    /\ ReleaseMutex(a)
    /\ Goto(a, "outside")
    /\ UNCHANGED <<line, runsem, waits>>

RelinquishMutantUnchecked(a) ==
    /\ pc[a] = "inside"
    /\ Goto(a, "rejoin")
    /\ UNCHANGED <<mutex, CurrentActivity, line, runsem, waits>>

\* relinquish and yield: join the line only when somebody stands in it.  The
\* interpreter loop calls it after every MAX_INSTRUCTIONS clauses.
Relinquish(a) ==
    /\ pc[a] = "inside"
    /\ firstWaitingActivity # None
    /\ Goto(a, "rejoin")
    /\ UNCHANGED <<mutex, CurrentActivity, line, runsem, waits>>

WaitReserveMutantNoClear(a) ==
    /\ pc[a] = "inside"
    /\ resourceWaiters' = resourceWaiters \cup {a}
    /\ waitingObject' = [waitingObject EXCEPT ![a] = TRUE]
    /\ CurrentActivity' = None
    /\ ReleaseMutex(a)
    /\ Goto(a, "parked")
    /\ UNCHANGED <<line, runsem>>

\* RexxVariableDictionary::reserve or RexxMessage::result have put the
\* activity on a wait list; waitReserve clears the run semaphore, notes the
\* resource and releases the kernel.
WaitReserve(a) ==
    /\ pc[a] = "inside"
    /\ resourceWaiters' = resourceWaiters \cup {a}
    /\ runsem' = [runsem EXCEPT ![a] = FALSE]
    /\ waitingObject' = [waitingObject EXCEPT ![a] = TRUE]
    /\ CurrentActivity' = None
    /\ ReleaseMutex(a)
    /\ Goto(a, "parked")
    /\ UNCHANGED line

\* The run semaphore wait of waitReserve returns: request the kernel again.
WaitReserveReturns(a) ==
    /\ pc[a] = "parked"
    /\ WaitReturns(a)
    /\ Goto(a, "request")
    /\ UNCHANGED <<mutex, CurrentActivity, line, runsem, waits>>

\* The running activity takes b off a wait list and calls b->postRelease().
PostResourceWaiter(a, b) ==
    /\ pc[a] = "inside"
    /\ b \in resourceWaiters
    /\ resourceWaiters' = resourceWaiters \ {b}
    /\ waitingObject' = [waitingObject EXCEPT ![b] = FALSE]
    /\ runsem' = [runsem EXCEPT ![b] = TRUE]
    /\ UNCHANGED <<pc, mutex, CurrentActivity, line>>

-----------------------------------------------------------------------------
Step(a) ==
    \/ LockForNewActivity(a)
    \/ UnlockNewActivity(a)
    \/ EnterKernel(a)
    \/ RequestKernel(a)
    \/ TryKernel(a)
    \/ JoinLine(a)
    \/ RejoinLine(a)
    \/ HandOver(a)
    \/ WaitKernelReturns(a)
    \/ LockKernel(a)
    \/ Dequeue(a)
    \/ ReleaseKernel(a)
    \/ Relinquish(a)
    \/ WaitReserve(a)
    \/ WaitReserveReturns(a)
    \/ \E b \in Activities : PostResourceWaiter(a, b)

Next == \E a \in Activities : Step(a)

Spec == Init /\ [][Next]_vars

\* A thread keeps moving through the lock, and one that runs Rexx code comes
\* to a relinquish point.  Nothing obliges a thread to enter, to leave for
\* good, to wait for a resource or to release one; and no fairness of the
\* mutex itself is assumed: a request that is enabled only now and then may
\* fail for ever.
Advance(a) ==
    \/ UnlockNewActivity(a)
    \/ RequestKernel(a)
    \/ TryKernel(a)
    \/ JoinLine(a)
    \/ RejoinLine(a)
    \/ HandOver(a)
    \/ WaitKernelReturns(a)
    \/ LockKernel(a)
    \/ Dequeue(a)
    \/ Relinquish(a)
    \/ WaitReserveReturns(a)

FairSpec == Spec /\ \A a \in Activities : WF_vars(Advance(a))

-----------------------------------------------------------------------------
(* What makes the lock correct.                                            *)

\* Only the owner of kernel_semaphore is in kernel code, and the global
\* CurrentActivity, through which that code finds its activity, is its own.
MutualExclusion ==
    \A a \in Activities :
        /\ pc[a] \in Holding => mutexOwner = a
        /\ pc[a] = "inside" => CurrentActivity = a

\* The recursive mutex is never requested by its owner: relinquish looks at
\* the line outside the resource section and then joins it as one who stands
\* behind somebody.  Were the line empty by then, it would lock twice, and
\* the one MTXRL of releaseKernel would leave the kernel locked for ever.
NeverLockedTwice == mutexCount = Cardinality({a \in Activities : pc[a] \in Holding})

\* The activities met by following nextWaitingActivity from the first.
Place[n \in 1..Cardinality(Activities)] ==
    IF n = 1 THEN firstWaitingActivity
    ELSE IF Place[n - 1] = None THEN None
    ELSE nextWaitingActivity[Place[n - 1]]

Chain == [n \in 1..Cardinality({m \in DOMAIN Place : Place[m] # None}) |-> Place[n]]

\* The chain that addWaitingActivity builds is a line: it holds exactly the
\* activities that wait in it, each of them once, it ends at
\* lastWaitingActivity, and an activity out of line points nowhere.
LineWellFormed ==
    /\ Len(Chain) = Cardinality({a \in Activities : pc[a] \in Lined})
    /\ {Chain[i] : i \in DOMAIN Chain} = {a \in Activities : pc[a] \in Lined}
    /\ lastWaitingActivity = IF Chain = <<>> THEN None ELSE Chain[Len(Chain)]
    /\ \A a \in Activities :
          pc[a] \notin Lined \/ a = lastWaitingActivity => nextWaitingActivity[a] = None

\* Exactly the head of the line is awake: its run semaphore was posted or it
\* never slept, so no wakeup is lost between the chaining, the clearing of
\* the semaphore and the wait, and nobody behind it goes for the mutex.
OnlyHeadAwake ==
    \A a \in Activities : pc[a] \in Lined =>
        (a = firstWaitingActivity <=> (runsem[a] \/ pc[a] \in {"lock", "dequeue"}))

\* The run semaphore that the line and the resource waits share never mixes
\* them up: an activity is on the wait list of a resource exactly while it
\* sleeps in waitReserve, and its waitingObject, which checkDeadLock follows,
\* is set exactly then.
ListedWhileAsleep ==
    \A a \in Activities :
        /\ a \in resourceWaiters <=> (pc[a] = "parked" /\ ~runsem[a])
        /\ a \in resourceWaiters <=> waitingObject[a]

\* The lock implements its abstract specification: one holder at a time,
\* admission in the order of joining.  The head is admitted when it gets the
\* mutex, a moment before it dechains itself.
NotAdmitted ==
    IF Chain # <<>> /\ pc[Head(Chain)] = "dequeue" THEN Tail(Chain) ELSE Chain

Turns == INSTANCE KernelTurns WITH
    holder <- mutexOwner,
    turns  <- NotAdmitted

ImplementsTurns == Turns!Spec

\* A thread that requests the kernel, or gives it up to let others run, gets
\* in (again), however often others come back: they find somebody in line and
\* have to stand behind.
EveryRequestIsGranted ==
    \A a \in Activities : pc[a] \in {"request", "rejoin"} ~> pc[a] = "inside"

\* What the comment in addWaitingActivity says of the second resource
\* section: "if we are here, newActivity must have been
\* this->firstWaitingActivity sometime before and therefore we can set next
\* pointer to NULL without disturbing the linked list".  An activity that
\* still stands behind the first one has not been first since it joined.
DechainsOnceFirst ==
    \A a \in Activities :
        pc[a] = "dequeue" => \A i \in 2..Cardinality(Activities) : Place[i] # a

=============================================================================
