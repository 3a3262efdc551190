# A formal model of LeooRexx

LeooRexx is Open Object Rexx 3.2.0 adapted to Mac OS X Leopard. This directory
holds TLA+ models of its concurrent core, the TLC configurations that check
them, and proofs for TLAPS. Source paths below are relative to
`src/src/oorexx-3.2.0-leopard/`.

Object Rexx is a concurrent language (REPLY, START, guarded methods, GUARD WHEN)
whose interpreter runs one thread at a time under a kernel lock. What is
hard to get right, and nearly impossible to test, is the order in which its
threads ("activities") hand on that lock, the scopes of objects and the errors
of messages, what they are told of each other's assignments, what happens to
dead objects on the way, and what several processes do to the queues they
share. The models concentrate on that.

## Inventory

| Part | State | Operations | Interacts with | Hard behaviour | Correct when |
|---|---|---|---|---|---|
| Kernel lock (`kernel/runtime/RexxActivity.cpp`, `kernel/platform/unix/ThreadSupport.*`) | `kernel_semaphore`, the resource section, `firstWaitingActivity` and the chain behind it, one `runsem` per activity | request, release, relinquish/yield, waitReserve, postRelease, getActivity | everything: whoever runs Rexx code owns it | lost wakeups, several uses of one semaphore, a recursive mutex, unprotected reads of the line | one owner; first come, first served; every request granted |
| Scopes (`kernel/runtime/RexxVariableDictionary.cpp`, `RexxActivation.cpp`) | reserving activity, count and wait queue per scope; guard state per activation | reserve, release, transfer, guarded methods, GUARD, REPLY, unwinding | waits through waitReserve, is woken by postRelease; checkDeadLock walks scopes and messages | nested reservations, hand-over on release, circles of waiters, errors that unwind holders | counts match activations; no waiter forgotten; no circle |
| Activity pool, termination (`RexxActivity.cpp`, `RexxStartup.cpp`, `kernel/platform/unix/RexxMain.cpp`) | free list, `runsem` and `exit` of each activity, `ProcessNumActs`, `ProcessTerminating`, `RexxTerminated` | newActivity, run, activity_thread, returnActivity, kernelTerminate, kernelShutdown | serves REPLY and START | flags and counts read outside of the lock, reuse before the thread sleeps again | count exact; work begins; the interpreter shuts down once and alone |
| Message objects (`kernel/classes/MessageClass.cpp`, `kernel/runtime/NativeRoot.cpp`) | flags, startActivity, interested parties; `objnotify` of activations | SEND, START, NOTIFY, RESULT, error | START uses the pool, RESULT waits like a scope, errors come through activations | SEND against START, NOTIFY during notification, errors at any moment | sent once, completes in one way, all parties sent, failures heard of |
| Activations, error propagation (`RexxActivation.cpp`, `RexxNativeActivation.cpp`) | stack, traps, condition queues | raiseCondition, raisePropagate, trap, termination | releases scopes, tells messages | an error abandons C++ code in between | each activation cleaned once |
| GUARD WHEN (`kernel/instructions/GuardInstruction.cpp`, `RexxVariable.cpp`) | `guardsem`, inform lists of variables | inform, uninform, guardSet, guardPost, guardWait | scopes, kernel lock | a post between evaluation and wait; nested use of one `guardsem` | no change is missed |
| UNINIT (`RexxActivity.cpp`, `RexxMemory.cpp`) | uninit tables, `processingUninits`, `pendingUninits` | addUninitObject, checkUninit, runUninits, checkUninits | collector, hash table, pool | table changed while iterated; failing methods | every dead object's UNINIT runs once |
| Hash table (`kernel/runtime/RexxHashTable.cpp`) | slots, overflow slots, `free` | put, get, remove, next, merge | all collections, the uninit table | chains that move, growth, removal during iteration | entries are found, and once |
| Activity table (`kernel/platform/common/ActivityTable.cpp`) | thread id to activity | put, find, remove | getActivity | reuse of ids | finds what was put |
| Session queues (`rexxapi/unix/QueuesAPI.cpp`) | headers in shared memory, System V semaphores, the session queue of a process group | create, delete, add, pull, detach | other processes | waiting outside of the lock; processes that end, are interrupted or killed | whoever waits keeps its queue and gets a line |
| Macro space, subcommands (`rexxapi/unix`) | tables in shared memory | register, query, drop | other processes | none waits in them | entries found |
| Memory manager (`RexxMemory.cpp`, `MemorySegment.cpp`) | segment sets, mark word, old-to-new table, save stack | allocate, collect, setObjectRef | every object | objects reachable only from C++ locals | nothing live is swept |
| Other collections, strings, numbers, parser, instructions, streams, platform layer | object data | sequential | run under the kernel lock | numeric limits, text | unit-testable |

Not built on the target: `kernel/SOM`, the windows directories. Outside of the
interpreter: `rexutils`, `rxregexp`, samples, the UTF-8 probe, tools and docs.
`PROJECT.json` lists every component with its status, and every hazard at its line.

## What is modelled

### KernelLock and KernelTurns

`KernelLock.tla` has a program counter per thread and one action per
stretch of code between two operations on a mutex or semaphore.
`kernel_semaphore` is an owner and a count, because it is recursive; a resource
section is one step, because the chain is written nowhere else.
`firstWaitingActivity`, `lastWaitingActivity` and `nextWaitingActivity` are the
chain; `runsem` the run semaphores; `resourceWaiters` stands for the wait lists of
all scopes and messages.

- `EnterKernel`, `RequestKernel`, `TryKernel`: enterKernel and requestKernel with
  its first, unqueued attempt.
- `JoinLine` (`BecomeHead` or `ChainBehind`), `HandOver`, `WaitKernelReturns`,
  `LockKernel`, `Dequeue`: addWaitingActivity. `RejoinLine` is the same code called
  by an owner that gives way, and `HandOver` its release between the two
  resource sections.
- `ReleaseKernel`, `Relinquish`, `WaitReserve`, `WaitReserveReturns`,
  `PostResourceWaiter`: the functions of those names (PostResourceWaiter is postRelease).
- `LockForNewActivity`, `UnlockNewActivity`: getActivity for a thread that has no
  activity yet.

`KernelTurns.tla` is the promise: one holder, and a line whose first is the next
to be admitted; the code may also let somebody slip in who found the line empty. The
line of the detailed model (`Chain`) is read off the links from the head,
without an activity that has the mutex but has not dechained yet.

### ScopeLocks

Activities with stacks of activations, scopes with owner, count and wait
queue, message objects with result. A step is everything an activity does
between two points at which it may lose the kernel, because nothing interleaves
in between (that is what KernelLock shows). `Reserve`, `Discharge` and
`Transfer` are the three methods of the variable dictionary; `Arrives`,
`ReportsDeadlock` and `NeverReturns` are checkDeadLock, a walk along the waiting
activities which may find the asker, end, or go round for ever. `Call`, `Return`,
`GuardOn`, `GuardOff`, `GuardWait`, `Reply`, `ReplyReturns`, `Resume`, `Start`,
`Send`, `Result`, `RaiseError` and `RaiseCondition` are the operations.

Which messages an unwinding completes matters to the locks, because an uncompleted
message keeps its `startActivity`, which checkDeadLock follows. An activation records the
`messages` whose SEND returns when it returns (several, where the receiver of one is
the SEND of the next), what its caller's `objnotify` held when it was called
(`notify`), and what its own holds of a send that is over (`stale`).

- `Throw`: a SYNTAX error completes the messages in the objnotify of the activations
  it is offered to (`Told`), one for each, as trap and raisePropagate do. A message
  whose receiver was the SEND of another is passed by (counterexample 5).
- `RaiseCondition`: a condition other than SYNTAX, trapped by the caller with SIGNAL ON.
  `RexxActivation::trap` tells no message of it; what was sent is lost, unless a SYNTAX error
  later finds it in the same objnotify.
- `Send` with `forward`: FORWARD makes its activation a phantom which returns with the
  method it called (`Caller`), traps nothing and tells its objnotify of nothing. FORWARD
  without a message object is a call followed by a return. A send that fails before it has
  set `startActivity` is like one that was not tried.

A reply is refused its scope where checkDeadLock comes by a lost message that names the
activity it resumes on. It is unwound with `object_scope` SCOPE_RESERVED and a failed
transfer, and so releases one of its former activity's reservations
(`RexxActivation.cpp:287-292`, `RexxActivation.hpp:190-198`). `spoilt` notes that scope, and the
model ends there, as nothing in the code repairs the count. It also ends when checkDeadLock
overflows the stack.

### ActivityPool

One thread state per place in activity_thread, one for the main thread, and
the counters as the code keeps them. A section under the kernel lock is one step,
except where `ProcessNumActs` or `ProcessTerminating` are read outside of it.
The main thread is the one whose RexxTerminate is the last; other hosts that enter
and leave the interpreter are not modelled. The checkUninits of the last thread
(`Leave`) is one step: what its UNINIT methods might START or REPLY is left out.

### MessageObjects

Each activity has a stack of activations (Rexx or native, with their
`objnotify`), sends in progress, notification loops and errors under way. `Send`,
`Start` and `Notify` are the methods; `Receive` is what the receiver does, which
may have an activation, be primitive, or be another message object's SEND;
`NotifyNext` is one round of the loop of sendNotification. `Fail`, `TellMessage`,
`Trap` and `PassOn` take an error through raiseCondition, trap and
raisePropagate. Native activations have no syntax handler. This module has SYNTAX
conditions only and no FORWARD: other conditions, which tell no message, and phantom
activations abandon a message just as counterexample 5 does. ScopeLocks has them, since there
the consequences are.

### GuardWait

One object whose scope the activities share, with exposed simple variables and
stems. `CurrentActivity` has the kernel in the middle of a GUARD; elsewhere a step
is a clause. A variable's value is whether it makes the expression true; `told`
records whether it was there when `notify` last posted the dependents.

- `Assign`, `AssignStem`, `AssignElement`, `SetDefault`: RexxVariable::set and drop
  with notify, and what stems do differently: a new stem notifies, and may lose the
  kernel, before it has its default value, and an element notifies nobody. Until then the stem
  has its own name as its value, and an expression that reads it is taken to be false;
  that it may raise an error instead is left out.
- `GuardWhen` (setGuard, guardOn, guardOff), `Evaluate` (guardSet and the
  expression, which may call a method), `Pass` (clearGuard), `Wait`, `WaitReturns`,
  `ReserveReturns`: RexxInstructionGuard::execute and guardWait.
- `Call`, `Return`, `RaiseError`: methods of the object, from a program or from
  an expression, and errors that leave a GUARD with its dependents behind.

### HashTable and Uninits

`HashTable.tla` is the chained table as data: `Put`, `Get`, `PrimitiveRemove`,
`Expanded`, `MergeInto` and iteration by position (`From`), on records of the slots and the
`free` index. It has no variables; `Uninits` extends it, with
objects as indexes and .nil, .true and .false as values.

`Uninits.tla` has objects that refer to one another and that variables hold.
`Create` registers (addUninitObject); `Collect` is the order of marking in
markObjects with checkUninit in between; `RunUninits`, `UninitReturns` and
`UninitFails` are one pass, interrupted only where an UNINIT method runs, during
which the program, other collections and the last pass go on; `CheckUninits`
and `LastReturns` are checkUninits. `owed` and `finished` record what was
registered, sent and completed; `revived` the objects an UNINIT has stored.

### SessionQueues

Threads of several processes of one process group. A function of the API is
one step, since it runs under the API semaphore; RexxPullQueue is three, because
it gives that semaphore up and waits for a mutex (`RequestMutexSem`) and an event
(`WaitEventSem`), two System V semaphores of the queue which the thread has
copied (`Registers`), before it looks for the queue again (`PullReturns`). Every step
looks for the session queue first (`SessionFound`), which may replace it. `Exit`,
`Interrupt` and `Kill` end or disturb a process, with Queue_Detach or without.
A queue is a number of lines. The polling of locksem once a second is abstracted
to a step that is possible when the semaphore is free; the API semaphore is
assumed to be obtained, and locksem not to fail (RexxPullQueue returns `RXQUEUE_MEMFAIL` then). The
number of semaphores in use (`qsemcount`) is not kept: Queue_Detach deletes those of a
queue twice (`QueuesAPI.cpp:452` and 459) and lets it drift.

Queue_Detach may count wrongly (below). The model notes that in `spoilt` and
stops there: nothing in the code repairs a wrong count, and the properties say
what holds up to that point.

## Runs

| Run | Instance | Shows |
|---|---|---|
| `kernel_lock` | 4 activities, FairSpec | exclusion, no double lock, a well-formed line, no lost wakeup, the refinement to KernelTurns, every request granted |
| `kernel_lock_spurious` | 3 activities, spurious wakeups | counterexample to `DechainsOnceFirst` |
| `scope_locks` | 3 activities, 2 scopes, 1 message | reservations counted, waiters listed, no circle of two or more, a reply refused for a lost message only |
| `scope_locks_circle` | 2 activities, 1 scope, 1 message | counterexample to `NoCircularWait` |
| `activity_pool` | 3 pool activities and the main thread, FairSpec | the free list holds idle activities only, posts and resets never cross, exact count, shut-down happens |
| `activity_pool_shutdown` | 2 pool activities and the main thread | counterexample to `ShutDownAlone` |
| `activity_pool_pending` | 2 pool activities and the main thread | counterexample to `PendingAreFinished` |
| `message_objects` | 2 activities, 2 messages, 6 frames, 2 parties | one completion, all parties sent, failures reach the message, START honoured |
| `message_objects_lost` | the same | counterexample to `SentIsAnswered` |
| `guard_wait` | 2 activities, 1 stem, 3 frames, FairSpec | no announced change is missed, dependents are found again, the scope is given up, GUARD proceeds on truth and in the end |
| `uninits` | 3 objects in one hash slot, FairSpec | sent once, when dead, with all it refers to; none forgotten; the table sound; the dead are sent in the end |
| `session_queues` | 3 threads of 2 processes, 1 named queue, FairSpec | a waiter keeps its queue; lines have posts; lines reach waiters |

Bounds. Four activities make a line with a head, a middle, a tail and a
newcomer, each of which the code treats differently. Two scopes and three activities
make circles of two and three links, nested reservations and a queue of two. Three
pool activities allow reuse, creation and termination at one time. Six frames in all
(`MaxFrames`) are enough for a send within a notification within a send and an
error through them; two listed parties (`MaxParties`) for a party that comes during
the loop. `MaxActivations` bounds the calls of ScopeLocks in the same way; with four of them
one activity can lose a message, be given a reply of another, and be waited for while
that other one still has the scope, which is the way to a refused reply. A message whose
receiver is the SEND of a second one needs two messages. The run has one (1.3 million states,
about two minutes), which FORWARD and RAISE lose in the same way, and the theorems cover any number.
One stem can do all that a simple variable does; two activities wait for each other's
assignments, and three frames (`MaxFrames`) put a GUARD into the expression of a
GUARD, or beside an assignment of the other activity. Three objects that
collide in a table for two (`Capacity`, `MaxCreated`) make it grow, make removals
move entries past the iteration, and make chains of references. One waiting
thread in the leader's process and two in another make waiters of one and of two
processes, in one queue and in two; `MaxSem` is the four semaphores that two
queues need, `MaxItems` and `MaxPosts` two, so that lines and left-over posts differ.
CHECK_DEADLOCK is off only where the system may stop: a program that has ended,
waiters in a circle, or a model at its bound.

Operators with `Mutant` in their name are faulty variants of the operator that
follows; no specification uses them. They show that each property fails when
the code has the fault: `PROJECT.json` pairs them.

The counterexamples are disagreements of code and comments:

1. A condition wait that returns spuriously lets an activity dechain that was not
   first (`RexxSemaphore::wait` tests with `if`).
2. A method that asks for the result of the very message it is running for
   waits for ever: checkDeadLock on the asker itself finds that it is not waiting yet.
3. kernelTerminate reads the count without the lock and frees the pools while
   the last thread is still inside the kernel.
4. A reused activity that sees ProcessTerminating on its way back to sleep
   leaves without beginning the activation it was just given.
5. When a message object's receiver is another message object, one `objnotify`
   serves both, and the outer message never learns of an error.

More surprises are in the models without a property of their own, since nothing
in the repository promises otherwise, or are the exceptions that a property names:

- Messages: a failing interested party ends the notification of the others; an
  error offered to several activations before any is removed may tell a message twice.
- Scopes: a lost message outlives the work of its activity. When that activity is
  reused for a REPLY that has to wait for its scope, and whoever holds the scope waits for the
  message, the reply is refused with a deadlock error although there is no deadlock, and
  releases a reservation it does not have. `ReplyRefusedForLostMessage` says that this is
  the only way, and `ReservationsCounted` excepts that scope. If the replied activation has a trap for the
  error, trap does a longjmp to the `conditionjump` of the run that it left on the other thread.
- GUARD WHEN: a compound variable in the expression guards its stem only, so an
  assignment to the element wakes nobody. `a. = x` notifies before the stem has
  its value. A variable has one entry per dependent activity and no count: a GUARD
  nested in the expression of another on the same variable takes the outer one's
  entry away, which then misses changes, and at its end dereferences a list
  that is gone (`RexxVariable.cpp:103`). A GUARD in the expression resets the
  `guardsem` of the outer one. `NoChangeMissed` and `ClearFindsDependents` name these.
- UNINIT: one that fails leaves `processingUninits` on, and no pass of the process
  does anything afterwards; the last pass sends the failed one again. What the
  last pass makes is never sent UNINIT. A dead object that the UNINIT of
  another stores is sent UNINIT while in use. The comment at `RexxActivity.cpp:2723`
  trusts that a skipped object is caught "next time through"; with new
  objects that keep hashing into its chain it may be skipped every time, which
  `MaxCreated` excludes.
- Session queues: `waitprocess` names only the last process that began to wait, so
  that the end of a process takes off the waiter of another, or leaves its own
  (`QueuesAPI.cpp:1373`). The interrupt handler does the clean-up of an exit, and
  the program goes on. Any member of a process group that ends deletes the
  session queue the others use, and once the leader is gone each call of
  a member replaces it by an empty one (`QueuesAPI.cpp:535`), as in a
  pipeline. A killed process leaves its count behind.

## Fairness

KernelLock: weak fairness of `Advance`, the steps that take a thread through
the lock's code, and of relinquish, which the interpreter loop calls after every
MAX_INSTRUCTIONS clauses. No fairness of the mutex is assumed: a request that
is enabled only now and then may fail for ever, and EveryRequestIsGranted holds
because the line keeps newcomers away from it. Nothing obliges a thread to
enter, to leave for good, to wait for a resource or to release one. ActivityPool: weak
fairness per thread and of the terminating main thread; it takes from
KernelLock that the kernel is granted to those who request it. Nothing obliges a
program to end or to start anything.

GuardWait: strong fairness of `GoOn`, the steps in the middle of a GUARD or of a
stem assignment. What such a step needs is the kernel, which is free
again and again and, by EveryRequestIsGranted, granted to whoever asks. Nothing
obliges a method to run another clause or to return. Uninits: weak fairness of
`Collect` and of a pending `RunUninits`: a program that goes on allocates until
there is a collection, and ends methods, where the interpreter looks at
`pendingUninits`. Nothing obliges an UNINIT method to return. SessionQueues: weak
fairness of a thread inside RexxPullQueue, which tries again every second.
Nothing obliges a program to add or pull lines, or to end. ScopeLocks and
MessageObjects have no liveness property.

## Proofs

TLC checks the instances of the table above; the theorems hold for every value of
the constants: any activities, scopes, messages, variables, and any bounds. Each
invariant needs a stronger one that every step keeps. Those were found by
model-checking them first, as invariants of the same runs, and proved after. A
proofs module has one lemma or step per action, the temporal step
`Invariance`, and the theorems that follow from it.

| Module | Assumes | Theorems |
|---|---|---|
| `KernelLock_proofs` | - | `TypeCorrect`, `Exclusion`, `LockedOnce` |
| the same, its line | no spurious wakeups; for the last two, finitely many activities | `HeadAwake`, `AsleepIffListed`, `LineSound`, `ImplementsTurnsAlways` |
| `ActivityPool_proofs` | - | `TypeCorrect`, `FreeIdle`, `Woken`, `ExactCount`, `ShutDownOwed` |
| `ScopeLocks_proofs` | finitely many activities | `TypeCorrect`, `Counted`, `Listing`, `RefusedForLost`, `SelfCirclesOnly` |
| `GuardWait_proofs` | - | `TypeCorrect`, `NoneMissed`, `DependentsFound`, `ScopeGivenUp`, `GuardHolds` |
| `MessageObjects_proofs` | - | `TypeCorrect`, `OneCompletion`, `EverybodyNotified`, `FailureTold`, `StartHonoured` |
| `Uninits_proofs` | - | `TypeCorrect`, `SentOnce`, `NothingForgotten`, `OnlyTheDead`, `KeptInMemory`, `TableIsSound`, and of HashTable `Dictionary`, `NewIsEmpty` |
| `SessionQueues_proofs` | finitely many threads and named queues, two semaphores for each queue | `TypeCorrect`, `QueueKept`, `Posted` |

Beside these, the proofs use only the `ASSUME`s of the models, which say that
`None` is not an activity and the like, and no fairness. That a process has finitely
many threads is not a restriction; it is stated where the model counts them. That
there are two semaphores for each queue is one: the code has `MAXSEM` of them, and
what it does when they run out is not modelled.

**The kernel lock** (`KernelLock_proofs`). MutualExclusion is not inductive: it
says who is inside, not why nobody else can get there. `IInv` adds three facts.
`OwnerHolds`: the mutex is owned by exactly the thread that is at a place of the
code where one holds it, and is counted once, so that a second thread is refused.
`CurrentIsInside`: CurrentActivity is not changed by anybody else meanwhile.
`SomebodyAhead`: what relinquish saw of the line outside of the resource section
is still true when it joins, because only the owner of the mutex takes anybody
off the line; without it the owner could become the head and lock a second time.
LockedOnce follows by the cardinality of the set of holders, empty or a
singleton. This covers spurious wakeups, which break the order of the line
and not the exclusion.

**Its line** (the same module). `Links(c)` says that the nextWaitingActivity
links, the head and the tail are those of the sequence `c`, and `LineInv` that
there is such a sequence without repeats, of exactly the activities that have
joined and not left, of which only the first may be awake. `JoinKeepsLinks` and
`DequeueKeepsLinks` say what the code does to `c`: append, and drop the first.
The proof that the links are a list at all is then that of a queue. `Chain`, which
reads the sequence back off the links, is a recursive function over the line;
`ChainIsLinks` shows by least counterexample that it gives `c`. With it each
step of KernelLock is shown to be a step of `KernelTurns` or to change
neither the line nor the owner, which is the safety part of the refinement.
The assumption `SpuriousWakeups = FALSE` is needed: with them the head need not
be the one that dechains (counterexample 1).

**The pool** (`ActivityPool_proofs`). The free list holds idle activities because
whoever takes one off it gives it an activation and a post in the same section
(`ListedAreIdle`), and a post has exactly one reason, an activation or the order to
exit (`PostedForAReason`), so that the reset at the bottom of the loop never
loses one. `CountInside` says that ProcessNumActs is the cardinality of the set of
threads inside the interpreter, which the counter's steps change by one member.
`ShutDownOwed` is the safety half of termination: while the last one is owed,
somebody who will do it is left, either a thread still to count itself out or the
main thread.

**Scopes** (`ScopeLocks_proofs`). `Sound`, what holds until a reply is refused, has three
parts. `StackInv`: what the activations of one activity may look like, below one that
replied or waits. `LockInv`: `reserveCount` of a scope is the number of activations of its
owner that rely on it, one more between the moment it is given to the first waiter
and the waiter's turn (`Relied`, `Given`); everybody who waits stands in one line, that of
the object it waits for, once. `MessageInv`: the messages that methods of an activity run for
were sent on it, and only an activity about to send one has a started message that was
not sent. It says nothing of when a message completes, since an error may pass it by.
`IInv` is the same with the counts of the spoilt scopes left out (`LockBut`): a refused
reply is the only step after which one scope's count is wrong (`RefusedStep`), and it
disturbs neither the lines nor any other scope. All other actions treat the locks in one of five ways,
each with a lemma (`LockStill`, `LockTaken`, `LockJoined`, `LockDischarged`,
`LockMoved`), so that the proof of an action is the choice of the lemma and the
arithmetic of its counts. `RefusedForLost` is an action property over this invariant: the
walk of checkDeadLock that ends at a resuming activity must have come to it by a message,
because it holds no scope, and by one that has neither completed nor a method that runs for
it (`DeadlockForLost`).

That no circle of two or more activities ever waits (`SelfCirclesOnly`) is proved by
ranks: `CircleInv` says that the activities can be numbered so that whoever
waits has a higher number than the one it waits for, if that is another one. A step
either leads new edges only to activities that do not wait (`Frees`; the
numbering is lifted, `RanksLifted`), or adds a waiter after the walk of
checkDeadLock has ended without meeting that waiter (`Joins`; what the walk met
is numbered below everything else, `RanksSplit`). The walk of the code is bounded by the number
of activities in the model, hence the assumption that it is finite; `WalkReturns`
shows that a walk that has not ended by then would have come round.

**Guards** (`GuardWait_proofs`) has two invariants. `GuardInv` says what a frame
whose expression was evaluated relies on: the kernel was kept since (`KernelKept`),
or its activity is on the inform list of the guard's variable (`Informed`), and
whoever changes that variable posts it (`Disturbs`). NoChangeMissed follows although
the lists keep one entry per activity, for the activities to which the
exceptions it names did not happen. `ScopeInv` counts the reservations as in
ScopeLocks and shows that the line of the scope is never skipped while a GUARD gives it up.
`GuardHolds` is the action property that a method goes on after a GUARD only while
its variable is true (unless the expression called a method), and with the scope if it is
GUARD ON.

**Messages** (`MessageObjects_proofs`). The invariant describes the stacks frame by frame
(`FrameSound`): the parties that a loop of sendNotification is past were sent, an
error on offer has passed native activations only, and whoever executes below the method of
a message that is not completed holds the message in its objnotify. The last two do
not hold of a frame that is about to be abandoned, which `Doomed` describes: an error is above it
with no activation in between that could trap it. A notification loop whose next
message is refused is such a frame, and so is the SEND of a message which has been told of an
error already. `Holders` says that only START's activation or the sender can hold a message,
and only until there is a result; ResultOrError follows, since
an error is told to what is held. `Starting` is what StartIsHonoured rests on: a started message
that was not sent is the first thing its activity will do. Every action keeps
the frames up to some position and puts at most two others there (`Carries`,
`RestFits`, `TopFits`, `Replace`), so that the proof of an action is to name the position
and to look at what is on top.

**The hash table** (first half of `Uninits_proofs`). `Chained(t)` says what a table is: each
entry is in the chain of its own slot, no two entries have the same successor and every
overflow entry in use has a predecessor (`Linked`); a rank falls along the chains, so that none
is a circle (`Acyclic`); no empty overflow slot is above `free` (`FreeBound`). On such a table the
walk along a chain, a recursive function of the model, ends within the table
(`ChainFacts`, by pigeonhole: a longer walk would pass a slot twice), meets exactly the
entries of that slot (`OnChain`, by least rank) and finds an index if it is there and
only once (`PlaceFacts`). The code changes the links in four ways: it fills an empty hash slot
(`Fills`), moves the old head to an overflow slot (`Pushes`), and removes by pulling
the next entry over the removed one (`Pulls`) or by cutting the last (`Cuts`). Each keeps
`Linked` and `Acyclic` with a rank of its own. A table that grows is filled entry by entry; the
new one has an empty slot above `free` whenever one is needed because its entries are at most those of
the old one and the one to be added (`RoomFacts`, `MergeStepFacts`). `Dictionary` is the result: put, remove and get behave
as those of a function from indexes to values, whatever the collisions, also when put has
to grow the table.

**UNINIT** (second half). The invariant has nine parts. The table is whole and is dropped when
empty (`TableInv`); the object that the pass is at is still in it (`PassInv`), and the copy that the
last pass works through has each object once (`LastInv`); memory is closed under
references (`MemoryInv`), which is what KeptForUninit comes down to. `SeparateInv`,
`FinishedInv` and `OwedInv` say who is where: nobody is in both tables, whoever may still be sent
UNINIT has not finished it, and whoever is owed it is in the table, or in the copy ahead of
the last pass.
RunsOnce and NoneForgotten follow. That the iteration may skip entries which removals
move does no harm to them: what is skipped is still in the table. `DeadInv` says that the objects
found dead stay out of reach of what the program holds, unless another UNINIT stored them:
neither a reference of the program nor a new object can lead to them. The lemmas on `Reached` (the smallest set closed under
references) serve that part.

**Queues** (`SessionQueues_proofs`). `Sound` describes the shared memory: the
semaphores in use are those of the headers, each of one header, and any other has its first
value. Allocating, freeing, detaching and the search for the session queue keep it
so (`AllocatedSound`, `FreedSound`, `WithoutWaiterSound`, `SessionFoundSound`), also
when they spoil a count. `Serves` is what a waiter relies on: its queue exists,
has the semaphores that the waiter copied, and no more lines than posts and woken waiters. The
difficulty is that most functions begin by removing and creating queues, those of
waiters included. `Tidied` says what such a step does to any one queue: it is gone, or
is new and empty without waiters, or has its semaphores, lines and posts, and no more
waiters counted than before. If the counts are right after it (`Counted`), a queue that is
waited for is of the last kind, and `StillServed` follows for all those steps at once. What
remains is that each function keeps the sum of posts and woken waiters in step with the
lines: one line and one post more, a post spent and a waiter woken, or a line
and a woken waiter less. When processes end, the counts being right means that none
of their threads was waiting, or that only waiters without a post were taken off; the model's
`TookPost` excludes the case that a woken thread dies with the post it used.

`StackLemmas` has what these need of sequences: stacks, unwinding them, counting
positions, waiting lines and their first and last members, the least number of a
set for induction, and walks along a function.

Only model-checked is liveness (`EveryRequestIsGranted`, `TerminationCompletes`,
`GuardsProceed`, `DeadAreUninited`, `LinesReachWaiters` and the fairness of KernelTurns):
the prover does not reason about fairness and `ENABLED`. All other properties of
the passing runs are theorems, all invariants among them.

## Not modelled

- The parser, instructions and expressions, strings, numbers, dates, streams and
  the other collections: sequential code, which runs in one activity under the kernel
  lock, and whose difficulty lies in text and arithmetic. Unit tests reach it.
- The memory manager but for UNINIT: segments, the save stack, old-to-new
  references. What could go wrong there is an object that only C++ locals refer
  to, which is a question about each of thousands of call sites.
- CALL ON conditions, INTERPRET, exits and debugging: more ways through activations.
  A CALL ON trap defers its routine to the next clause; an INTERPRET is an activation
  without a scope of its own.
- `RexxActivity::uninitObject` (`RexxActivity.cpp:2528`), for a DROP of an object: nothing calls it.
- Macro space, subcommands: tables under the API semaphore in which nobody waits.
- The activity table, used under the kernel lock only; the layout of shared
  memory; the contents and order of lines; a process that dies with the API
  semaphore.
- Platform code, SOM, Windows, `rexutils`, `rxregexp` and samples: input and output,
  or not built on the target.

The modelled files are a small part of the source by lines, since the
concurrent core is: most of the remainder is of the first and the last kind.

## Plan

1. `KernelLock`, `KernelTurns`, `KernelLock_proofs` - done.
2. `ScopeLocks` - done. `ActivityPool` - done. `MessageObjects` - done.
3. `GuardWait` - done. `HashTable` and `Uninits` - done. `SessionQueues` - done.
4. Proofs of KernelLock with its line and the refinement, ActivityPool,
   ScopeLocks, GuardWait, MessageObjects and SessionQueues - done.
5. Proofs of the hash table as a dictionary, and of Uninits over it - done.
6. An abstract specification of scopes (a reentrant monitor with a queue) which
   ScopeLocks implements.
