---------------------------- MODULE ActivityPool ----------------------------
(***************************************************************************)
(* The pool of activities and the end of the process.                      *)
(*                                                                         *)
(* REPLY and RexxMessage::start run on activities of a pool: newActivity   *)
(* takes a free one or creates one with a thread, run() posts its run      *)
(* semaphore, and the thread (activity_thread) puts itself back on the     *)
(* free list when it has finished.  When the last RexxTerminate sets       *)
(* ProcessTerminating, the threads leave; ProcessNumActs counts those that *)
(* have not, and whoever finds none shuts the interpreter down.            *)
(*                                                                         *)
(* Grain of atomicity: one step per section under kernel_semaphore, except *)
(* where ProcessNumActs or ProcessTerminating are read outside of it.      *)
(* The main thread is the one whose RexxTerminate is the last.             *)
(***************************************************************************)
EXTENDS Integers, FiniteSets

CONSTANT Activities    \* the activities the pool may come to hold

VARIABLES
    thread,               \* where the thread of each activity is
    runsem,               \* its run semaphore is posted
    exit,                 \* it was told to exit
    dispatched,           \* it was given an activation that has not begun
    classFreeActivities,  \* the free list
    main,                 \* where the main thread is
    ProcessNumActs,       \* the count of active activities
    ProcessTerminating,   \* the last RexxTerminate has begun
    ProcessDoneTerm,      \* kernelShutdown has run
    RexxTerminated        \* its semaphore is posted

poolVars == <<thread, runsem, exit, dispatched, classFreeActivities>>
processVars == <<ProcessNumActs, ProcessTerminating, ProcessDoneTerm, RexxTerminated>>
vars == <<poolVars, main, processVars>>

ThreadStates == {
    "none",       \* not created
    "waiting",    \* in EVWAIT(runsem)
    "woken",      \* past it, not told to exit
    "working",    \* runs its activation, or may when it gets the kernel
    "released",   \* has finished and released the kernel
    "leaving",    \* out of the loop, about to request the kernel
    "counted",    \* no longer in ProcessNumActs, owns the kernel
    "last",       \* counted zero, has released the kernel
    "shutdown",   \* and found ProcessTerminating, about to shut down
    "gone"}

MainStates == {
    "working",    \* runs Rexx code
    "returned",   \* after returnActivity
    "terminate",  \* in kernelTerminate, ProcessTerminating is set
    "shutdown",   \* found no active activity
    "request",    \* found some, in MTXRQ(kernel_semaphore)
    "done"}       \* waits for RexxTerminated

TypeOK ==
    /\ thread \in [Activities -> ThreadStates]
    /\ runsem \in [Activities -> BOOLEAN]
    /\ exit \in [Activities -> BOOLEAN]
    /\ dispatched \in [Activities -> BOOLEAN]
    /\ classFreeActivities \in SUBSET Activities
    /\ main \in MainStates
    /\ ProcessNumActs \in Nat
    /\ ProcessTerminating \in BOOLEAN
    /\ ProcessDoneTerm \in BOOLEAN
    /\ RexxTerminated \in BOOLEAN

\* RexxStart has got its activity and runs the program.
Init ==
    /\ thread = [a \in Activities |-> "none"]
    /\ runsem = [a \in Activities |-> FALSE]
    /\ exit = [a \in Activities |-> FALSE]
    /\ dispatched = [a \in Activities |-> FALSE]
    /\ classFreeActivities = {}
    /\ main = "working"
    /\ ProcessNumActs = 1
    /\ ProcessTerminating = FALSE
    /\ ProcessDoneTerm = FALSE
    /\ RexxTerminated = FALSE

\* The kernel is owned across steps only by a thread that has counted itself
\* out and not yet released it.
KernelFree == \A a \in Activities : thread[a] # "counted"

Goto(a, location) == thread' = [thread EXCEPT ![a] = location]

-----------------------------------------------------------------------------
(* newActivity and run, as REPLY and RexxMessage::start call them.         *)

DispatchMutantCountsReuse(a) ==
    /\ \/ /\ a \in classFreeActivities
          /\ classFreeActivities' = classFreeActivities \ {a}
          /\ UNCHANGED thread
       \/ /\ classFreeActivities = {}
          /\ thread[a] = "none"
          /\ Goto(a, "waiting")
          /\ UNCHANGED classFreeActivities
    /\ ProcessNumActs' = ProcessNumActs + 1
    /\ dispatched' = [dispatched EXCEPT ![a] = TRUE]
    /\ runsem' = [runsem EXCEPT ![a] = TRUE]

DispatchMutantNotCounted(a) ==
    /\ \/ /\ a \in classFreeActivities
          /\ classFreeActivities' = classFreeActivities \ {a}
          /\ UNCHANGED thread
       \/ /\ classFreeActivities = {}
          /\ thread[a] = "none"
          /\ Goto(a, "waiting")
          /\ UNCHANGED classFreeActivities
    /\ UNCHANGED ProcessNumActs
    /\ dispatched' = [dispatched EXCEPT ![a] = TRUE]
    /\ runsem' = [runsem EXCEPT ![a] = TRUE]

DispatchMutantStaysFree(a) ==
    /\ \/ /\ a \in classFreeActivities
          /\ UNCHANGED <<thread, ProcessNumActs>>
       \/ /\ classFreeActivities = {}
          /\ thread[a] = "none"
          /\ Goto(a, "waiting")
          /\ ProcessNumActs' = ProcessNumActs + 1
    /\ UNCHANGED classFreeActivities
    /\ dispatched' = [dispatched EXCEPT ![a] = TRUE]
    /\ runsem' = [runsem EXCEPT ![a] = TRUE]

\* newActivity returns a, from the free list or newly made with its thread;
\* the activation is pushed on it and its run semaphore posted.
Dispatch(a) ==
    /\ \/ /\ a \in classFreeActivities
          /\ classFreeActivities' = classFreeActivities \ {a}
          /\ UNCHANGED <<thread, ProcessNumActs>>
       \/ /\ classFreeActivities = {}
          /\ thread[a] = "none"
          /\ Goto(a, "waiting")
          /\ ProcessNumActs' = ProcessNumActs + 1
          /\ UNCHANGED classFreeActivities
    /\ dispatched' = [dispatched EXCEPT ![a] = TRUE]
    /\ runsem' = [runsem EXCEPT ![a] = TRUE]

\* The main program or an activation of the pool starts another one.
StartAnother ==
    /\ KernelFree
    /\ main = "working" \/ \E a \in Activities : thread[a] = "working"
    /\ \E a \in Activities : Dispatch(a)
    /\ UNCHANGED <<exit, main, ProcessTerminating, ProcessDoneTerm, RexxTerminated>>

-----------------------------------------------------------------------------
(* activity_thread.                                                        *)

\* EVWAIT(runsem), and "told to exit?".
Wake(a) ==
    /\ thread[a] = "waiting"
    /\ runsem[a]
    /\ Goto(a, IF exit[a] THEN "leaving" ELSE "woken")
    /\ UNCHANGED <<runsem, exit, dispatched, classFreeActivities, main, processVars>>

\* Get the kernel and dispatch the top activation.
Begin(a) ==
    /\ thread[a] = "woken"
    /\ KernelFree
    /\ Goto(a, "working")
    /\ dispatched' = [dispatched EXCEPT ![a] = FALSE]
    /\ UNCHANGED <<runsem, exit, classFreeActivities, main, processVars>>

FinishMutantLateReset(a) ==
    /\ thread[a] = "working"
    /\ KernelFree
    /\ classFreeActivities' = IF ProcessTerminating THEN classFreeActivities ELSE classFreeActivities \cup {a}
    /\ Goto(a, "released")
    /\ UNCHANGED <<runsem, exit, dispatched, main, processVars>>

\* The activation has ended: reset the run semaphore, join the free list and
\* release the kernel.
Finish(a) ==
    /\ thread[a] = "working"
    /\ KernelFree
    /\ runsem' = [runsem EXCEPT ![a] = FALSE]
    /\ classFreeActivities' = IF ProcessTerminating THEN classFreeActivities ELSE classFreeActivities \cup {a}
    /\ Goto(a, "released")
    /\ UNCHANGED <<exit, dispatched, main, processVars>>

\* The second look at ProcessTerminating, after the release.
LoopOrLeave(a) ==
    /\ thread[a] = "released"
    /\ Goto(a, IF ProcessTerminating THEN "leaving" ELSE "waiting")
    /\ UNCHANGED <<runsem, exit, dispatched, classFreeActivities, main, processVars>>

\* Get the kernel again and leave the count.
CountOut(a) ==
    /\ thread[a] = "leaving"
    /\ KernelFree
    /\ ProcessNumActs' = ProcessNumActs - 1
    /\ Goto(a, "counted")
    /\ UNCHANGED <<runsem, exit, dispatched, classFreeActivities, main,
                   ProcessTerminating, ProcessDoneTerm, RexxTerminated>>

\* UNINIT methods, the clean up of the tables and the release of the kernel.
\* number_activities was read when a counted itself out; the kernel was not
\* released since, so ProcessNumActs still has that value.
Leave(a) ==
    /\ thread[a] = "counted"
    /\ classFreeActivities' = IF ProcessTerminating THEN classFreeActivities \ {a} ELSE classFreeActivities
    /\ Goto(a, IF ProcessNumActs = 0 THEN "last" ELSE "gone")
    /\ UNCHANGED <<runsem, exit, dispatched, main, processVars>>

\* The last look at ProcessTerminating.
LastLooks(a) ==
    /\ thread[a] = "last"
    /\ Goto(a, IF ProcessTerminating THEN "shutdown" ELSE "gone")
    /\ UNCHANGED <<runsem, exit, dispatched, classFreeActivities, main, processVars>>

-----------------------------------------------------------------------------
(* kernelShutdown and kernelTerminate.                                     *)

\* freePools and the closing of the semaphores happen the first time only.
kernelShutdown ==
    /\ RexxTerminated' = TRUE
    /\ ProcessDoneTerm' = TRUE
    /\ ProcessTerminating' = (ProcessTerminating /\ ProcessDoneTerm)
    /\ UNCHANGED ProcessNumActs

\* RexxTerminate holds initialize_sem, which kernelShutdown requests.
InRexxTerminate == main \in {"terminate", "shutdown", "request"}

LastShutsDown(a) ==
    /\ thread[a] = "shutdown"
    /\ ~InRexxTerminate
    /\ kernelShutdown
    /\ Goto(a, "gone")
    /\ UNCHANGED <<runsem, exit, dispatched, classFreeActivities, main>>

\* The program ends: returnActivity.
MainReturns ==
    /\ main = "working"
    /\ KernelFree
    /\ main' = "returned"
    /\ ProcessNumActs' = ProcessNumActs - 1
    /\ UNCHANGED <<poolVars, ProcessTerminating, ProcessDoneTerm, RexxTerminated>>

\* RexxTerminate down to nothing: kernelTerminate, its first assignment.
MainTerminates ==
    /\ main = "returned"
    /\ main' = "terminate"
    /\ ProcessTerminating' = TRUE
    /\ UNCHANGED <<poolVars, ProcessNumActs, ProcessDoneTerm, RexxTerminated>>

\* "any active activities?", asked without the kernel.
AnyActive ==
    /\ main = "terminate"
    /\ main' = IF ProcessNumActs = 0 THEN "shutdown" ELSE "request"
    /\ UNCHANGED <<poolVars, processVars>>

MainShutsDown ==
    /\ main = "shutdown"
    /\ kernelShutdown
    /\ main' = "done"
    /\ UNCHANGED poolVars

TerminateFreeActsMutantNoPost ==
    /\ main = "request"
    /\ KernelFree
    /\ exit' = [a \in Activities |-> exit[a] \/ a \in classFreeActivities]
    /\ classFreeActivities' = {}
    /\ main' = "done"
    /\ UNCHANGED <<thread, runsem, dispatched, processVars>>

\* Every free activity is told to exit and posted.
TerminateFreeActs ==
    /\ main = "request"
    /\ KernelFree
    /\ exit' = [a \in Activities |-> exit[a] \/ a \in classFreeActivities]
    /\ runsem' = [a \in Activities |-> runsem[a] \/ a \in classFreeActivities]
    /\ classFreeActivities' = {}
    /\ main' = "done"
    /\ UNCHANGED <<thread, dispatched, processVars>>

-----------------------------------------------------------------------------
ThreadStep(a) ==
    \/ Wake(a)
    \/ Begin(a)
    \/ Finish(a)
    \/ LoopOrLeave(a)
    \/ CountOut(a)
    \/ Leave(a)
    \/ LastLooks(a)
    \/ LastShutsDown(a)

Terminates ==
    \/ MainTerminates
    \/ AnyActive
    \/ MainShutsDown
    \/ TerminateFreeActs

Next == StartAnother \/ MainReturns \/ Terminates \/ \E a \in Activities : ThreadStep(a)

Spec == Init /\ [][Next]_vars

\* Threads go on when they can, activations come to an end and the kernel is
\* granted to those who request it (KernelLock).  Nothing obliges the main
\* program to end or anybody to start another activation.
FairSpec == Spec /\ WF_vars(Terminates) /\ \A a \in Activities : WF_vars(ThreadStep(a))

-----------------------------------------------------------------------------
(* What makes the pool correct.                                            *)

\* The free list holds idle activities only, so that newActivity never hands
\* out one that has an activation: a thread lists itself before it releases
\* the kernel, but long before it waits for its run semaphore again.
FreeAreIdle ==
    \A a \in classFreeActivities : ~ProcessDoneTerm =>
        /\ thread[a] \in {"released", "waiting", "leaving", "counted"}
        /\ ~dispatched[a] /\ ~runsem[a] /\ ~exit[a]

\* A thread that goes for the kernel has an activation to dispatch, and one
\* that sleeps on an activation has been posted: the reset of the run
\* semaphore at the end of one and the post for the next never cross.
WokenForWork ==
    \A a \in Activities :
        /\ thread[a] = "woken" => dispatched[a]
        /\ thread[a] = "waiting" /\ dispatched[a] => runsem[a]

\* ProcessNumActs, on which both ways into kernelShutdown depend, counts the
\* threads that are still in the interpreter, through reuse and termination.
CountIsExact ==
    ProcessNumActs = Cardinality({a \in Activities :
                         thread[a] \notin {"none", "counted", "last", "shutdown", "gone"}})
                     + IF main = "working" THEN 1 ELSE 0

\* Somebody shuts the interpreter down: between kernelTerminate, which sets
\* ProcessTerminating and then looks at the count, and the last thread, which
\* leaves the count and then looks at ProcessTerminating, one sees the other,
\* and RexxWaitForTermination returns.
TerminationCompletes == main = "returned" ~> RexxTerminated

\* What kernelTerminate relies on where it asks "any active activities?" and
\* shuts "everything down": nobody is inside the kernel when the memory pools
\* are freed.
ShutDownAlone == ProcessDoneTerm => KernelFree

\* What the comments of the termination code say: "Let any pending threads
\* from a start or reply, know to Terminate when finished", not before.  An
\* activity leaves only when it has begun what it was given.
PendingAreFinished ==
    \A a \in Activities : thread[a] \in {"leaving", "counted", "gone"} => ~dispatched[a]

=============================================================================
