---------------------------- MODULE SessionQueues ----------------------------
(***************************************************************************)
(* The queues of PUSH, QUEUE, PULL and LINEIN: headers in memory that is   *)
(* shared by processes, with System V semaphores for those who wait for a  *)
(* line.  Named queues are created and deleted; the session queue belongs  *)
(* to a process group, comes into being when it is looked for, and goes    *)
(* when a process of the group ends.                                       *)
(*                                                                         *)
(* One process group.  An API function is one step, up to where it gives   *)
(* up the API semaphore.  A queue is a number of lines.  A process ends at *)
(* any moment outside of that section, in order or killed, or is           *)
(* interrupted, with threads of it waiting or not.                         *)
(***************************************************************************)
EXTENDS Naturals, FiniteSets, FiniteSetsExt

CONSTANTS
    Processes,   \* the process group
    Leader,      \* the process after which it is named
    Threads,
    ProcessOf,   \* the process of each thread
    Named,       \* names of named queues
    None,        \* no queue, no process
    MaxSem,      \* MAXSEM: semaphores for queues
    MaxItems,    \* bound: lines in a queue
    MaxPosts     \* bound: posts that nobody has waited for

Queues == Named \cup {"SESSION"}

Semaphores == 1..MaxSem
Headers == [waiting : 0..Cardinality(Threads), items : 0..MaxItems,
            waitprocess : Processes \cup {None}, enqsem : Semaphores, waitsem : Semaphores]

ASSUME SessionProcesses ==
    /\ Leader \in Processes /\ ProcessOf \in [Threads -> Processes]
    /\ IsFiniteSet(Threads)
\* With less than this create_queue_sem may fail, and the session queue with it.
ASSUME SessionSemaphores ==
    MaxSem \in Nat /\ IsFiniteSet(Named) /\ MaxSem >= 2 * Cardinality(Queues)
ASSUME SessionBounds == MaxItems \in Nat /\ MaxPosts \in Nat
ASSUME SessionNone == None \notin Queues \cup Processes \cup Headers

VARIABLES
    apidata,   \* the headers, the values of the semaphores, those in use (qsemfree)
    thread,    \* where each thread is in RexxPullQueue, and its copies of the semaphores
    running,   \* processes that have not ended
    spoilt     \* the end of a process has left a queue with a wrong count of waiters

vars == <<apidata, thread, running, spoilt>>

Idle == [at |-> "idle", queue |-> None, enqsem |-> 0, waitsem |-> 0]

\* The threads between waiting++ and waiting-- of a queue.
Waiters(q) == {t \in Threads : thread[t].queue = q}

\* Those whose wait is over, on their way back to the queue.
Woken(q) == {t \in Waiters(q) : thread[t].at = "woken"}

Handles(d, q) == IF d.queue[q] = None THEN {} ELSE {d.queue[q].enqsem, d.queue[q].waitsem}

\* The semaphores in use are those of the queues, two each, and any other
\* has the value 1 it was created with, which the next queue relies on.
TypeOK ==
    /\ apidata \in [queue : [Queues -> Headers \cup {None}],
                    semaphore : [Semaphores -> Nat], used : SUBSET Semaphores]
    /\ \A q \in Queues : apidata.queue[q] # None => Cardinality(Handles(apidata, q)) = 2
    /\ apidata.used = UNION {Handles(apidata, q) : q \in Queues}
    /\ \A p, q \in Queues : p # q => Handles(apidata, p) \cap Handles(apidata, q) = {}
    /\ \A s \in Semaphores \ apidata.used : apidata.semaphore[s] = 1
    /\ \A t \in Threads : \/ thread[t] = Idle
                         \/ thread[t] \in [at : {"request", "wait", "woken"}, queue : Queues,
                                           enqsem : Semaphores, waitsem : Semaphores]
    /\ running \subseteq Processes
    /\ spoilt \in BOOLEAN

Init ==
    /\ apidata = [queue |-> [q \in Queues |-> None],
                  semaphore |-> [s \in Semaphores |-> 1],
                  used |-> {}]
    /\ thread = [t \in Threads |-> Idle]
    /\ running = Processes
    /\ spoilt = FALSE

-----------------------------------------------------------------------------
(* The headers and their semaphores.                                       *)

CloseMutant(d, s) == [d EXCEPT !.used = @ \ {s}]

\* CloseMutexSem and CloseEventSem.
Close(d, s) ==
    [d EXCEPT !.semaphore[s] = 1, !.used = @ \ {s}]

\* A header with two new semaphores, the event reset.
Allocated(d, q) ==
    LET enqsem  == Min(Semaphores \ d.used)
        waitsem == Min(Semaphores \ (d.used \cup {enqsem}))
    IN  [queue |-> [r \in Queues |->
                       IF r = q THEN [waiting |-> 0, items |-> 0, waitprocess |-> None,
                                      enqsem |-> enqsem, waitsem |-> waitsem]
                       ELSE d.queue[r]],
         semaphore |-> [s \in Semaphores |-> IF s = waitsem THEN 0 ELSE d.semaphore[s]],
         used |-> d.used \cup {enqsem, waitsem}]

\* All lines, the semaphores and the header of a queue are given back.
Freed(d, q) ==
    [Close(Close(d, d.queue[q].enqsem), d.queue[q].waitsem) EXCEPT !.queue[q] = None]

WaitedFor(d, p) ==
    {q \in Queues : d.queue[q] # None /\ d.queue[q].waiting > 0 /\ d.queue[q].waitprocess = p}

OneLess(d, queues) ==
    [q \in Queues |-> IF q \in queues THEN [d.queue[q] EXCEPT !.waiting = @ - 1] ELSE d.queue[q]]

WithoutWaiterMutantKeepsMutex(d, p) ==
    [queue |-> OneLess(d, WaitedFor(d, p)), semaphore |-> d.semaphore, used |-> d.used]

\* A process has ended: for a queue where it was the last that began to wait
\* a waiter is taken off and the mutex set free.
WithoutWaiter(d, p) ==
    LET queues == WaitedFor(d, p)
        free   == {d.queue[q].enqsem : q \in queues}
    IN  [queue |-> OneLess(d, queues),
         semaphore |-> [s \in Semaphores |-> IF s \in free THEN 1 ELSE d.semaphore[s]],
         used |-> d.used]

\* search_session: the queue of a session whose leader has gone is garbage,
\* even if it is the session of the caller, who gets a new one.
SessionFound ==
    LET header  == apidata.queue["SESSION"]
        garbage == header # None /\ Leader \notin running
        kept    == IF garbage THEN WithoutWaiter(Freed(apidata, "SESSION"), header.waitprocess)
                   ELSE apidata
    IN  IF header = None \/ garbage THEN Allocated(kept, "SESSION") ELSE apidata

\* Every queue counts the threads that wait for it.
Counted(d, th) ==
    \A q \in Queues : Cardinality({t \in Threads : th[t].queue = q}) =
                         IF d.queue[q] = None THEN 0 ELSE d.queue[q].waiting

-----------------------------------------------------------------------------
(* The functions.  Each begins with RxAPIStartUp, which looks for the      *)
(* session queue.                                                          *)

\* A running thread calls a function, and d is what it finds.
Call(t, d) ==
    /\ thread[t].at = "idle" /\ ProcessOf[t] \in running
    /\ Counted(d, thread)
    /\ UNCHANGED <<running, spoilt>>

\* RexxCreateQueue.  (A name that is in use is replaced by a new one, and
\* nothing happens to the queue of that name.)
CreateQueue(t, q) ==
    \E d \in {SessionFound} :
       /\ Call(t, d)
       /\ apidata' = IF d.queue[q] = None THEN Allocated(d, q) ELSE d
       /\ UNCHANGED thread

DeleteQueueMutantUnchecked(t, q) ==
    \E d \in {SessionFound} :
       /\ Call(t, d)
       /\ d.queue[q] # None
       /\ apidata' = Freed(d, q)
       /\ UNCHANGED thread

\* RexxDeleteQueue; RXQUEUE_ACCESS if somebody waits.
DeleteQueue(t, q) ==
    \E d \in {SessionFound} :
       /\ Call(t, d)
       /\ d.queue[q] # None
       /\ apidata' = IF d.queue[q].waiting > 0 THEN d ELSE Freed(d, q)
       /\ UNCHANGED thread

AddQueueMutantFirstOnly(t, q) ==
    \E d \in {SessionFound} :
       /\ Call(t, d)
       /\ d.queue[q] # None
       /\ d.queue[q].items < MaxItems
       /\ d.semaphore[d.queue[q].waitsem] < MaxPosts
       /\ apidata' = [d EXCEPT !.queue[q].items = @ + 1,
                               !.semaphore[d.queue[q].waitsem] =
                                  IF d.queue[q].waiting > 0 /\ d.queue[q].items = 0 THEN @ + 1 ELSE @]
       /\ UNCHANGED thread

\* RexxAddQueue: the event is posted once for each line, if somebody waits.
AddQueue(t, q) ==
    \E d \in {SessionFound} :
       /\ Call(t, d)
       /\ d.queue[q] # None
       /\ d.queue[q].items < MaxItems
       /\ d.semaphore[d.queue[q].waitsem] < MaxPosts
       /\ apidata' = [d EXCEPT !.queue[q].items = @ + 1,
                               !.semaphore[d.queue[q].waitsem] = IF d.queue[q].waiting > 0 THEN @ + 1 ELSE @]
       /\ UNCHANGED thread

\* RexxPullQueue where there is a line.
PullQueue(t, q) ==
    \E d \in {SessionFound} :
       /\ Call(t, d)
       /\ d.queue[q] # None /\ d.queue[q].items > 0
       /\ apidata' = [d EXCEPT !.queue[q].items = @ - 1]
       /\ UNCHANGED thread

\* t notes the semaphores and gives up the API semaphore.
Registers(t, q, header) ==
    thread' = [thread EXCEPT ![t] = [at |-> "request", queue |-> q,
                                     enqsem |-> header.enqsem, waitsem |-> header.waitsem]]

\* RexxPullQueue with RXQUEUE_WAIT where there is none.
PullWaits(t, q) ==
    \E d \in {SessionFound} :
       /\ Call(t, d)
       /\ d.queue[q] # None /\ d.queue[q].items = 0
       /\ apidata' = [d EXCEPT !.queue[q].waiting = @ + 1, !.queue[q].waitprocess = ProcessOf[t]]
       /\ Registers(t, q, d.queue[q])

\* locksem.
Lock(t, semaphore, from, to) ==
    /\ thread[t].at = from /\ ProcessOf[t] \in running
    /\ apidata.semaphore[semaphore] > 0
    /\ apidata' = [apidata EXCEPT !.semaphore[semaphore] = @ - 1]
    /\ thread' = [thread EXCEPT ![t].at = to]
    /\ UNCHANGED <<running, spoilt>>

RequestMutexSem(t) == Lock(t, thread[t].enqsem, "request", "wait")
WaitEventSem(t)    == Lock(t, thread[t].waitsem, "wait", "woken")

\* The queue is looked for again, since the memory may have been rearranged.
\* Somebody else may have taken the line; then t waits again.
PullReturns(t) ==
    /\ thread[t].at = "woken" /\ ProcessOf[t] \in running
    /\ \E d \in {SessionFound} :
          LET q == thread[t].queue
              released == [d EXCEPT !.semaphore[d.queue[q].enqsem] = @ + 1]
          IN  /\ Counted(d, thread)
              /\ d.queue[q] # None
              /\ \/ /\ d.queue[q].items > 0
                    /\ apidata' = [released EXCEPT !.queue[q].items = @ - 1, !.queue[q].waiting = @ - 1]
                    /\ thread' = [thread EXCEPT ![t] = Idle]
                 \/ /\ d.queue[q].items = 0
                    /\ apidata' = [released EXCEPT !.queue[q].waitprocess = ProcessOf[t]]
                    /\ Registers(t, q, d.queue[q])
    /\ UNCHANGED <<running, spoilt>>

-----------------------------------------------------------------------------
(* Processes that end.                                                     *)

WithoutThreads(p) == [t \in Threads |-> IF ProcessOf[t] = p THEN Idle ELSE thread[t]]

\* A thread of p has waited for a post and not taken a line for it.
TookPost(p) == \E t \in Threads : ProcessOf[t] = p /\ thread[t].at = "woken"

\* Queue_Detach.
Detached(d, p) == WithoutWaiter(Freed(d, "SESSION"), p)

\* p ends in order: RxExitClearNormal.
Exit(p) ==
    /\ p \in running
    /\ running' = running \ {p}
    /\ \E d \in {SessionFound} : apidata' = Detached(d, p)
    /\ thread' = WithoutThreads(p)
    /\ spoilt' = (~Counted(apidata', thread') \/ TookPost(p))

\* p is interrupted: RxExitClear does the same, and p goes on.
Interrupt(p) ==
    /\ p \in running
    /\ \E d \in {SessionFound} : apidata' = Detached(d, p)
    /\ spoilt' = ~Counted(apidata', thread)
    /\ UNCHANGED <<thread, running>>

\* p is killed, and nothing is cleaned.
Kill(p) ==
    /\ p \in running
    /\ running' = running \ {p}
    /\ thread' = WithoutThreads(p)
    /\ spoilt' = ~Counted(apidata, thread')
    /\ UNCHANGED apidata

\* The garbage that a function of t finds is a queue somebody waits for.
SessionTaken(t) ==
    /\ ProcessOf[t] \in running /\ thread[t].at \in {"idle", "woken"}
    /\ \E d \in {SessionFound} : ~Counted(d, thread) /\ apidata' = d
    /\ spoilt' = TRUE
    /\ UNCHANGED <<thread, running>>

-----------------------------------------------------------------------------
Pulling(t) == RequestMutexSem(t) \/ WaitEventSem(t) \/ PullReturns(t)

(* Nothing corrects a count that is wrong: it wraps around, posts go to    *)
(* nobody, a queue is deleted while somebody waits.  The model ends there. *)
Next ==
    /\ ~spoilt
    /\ \/ \E t \in Threads, q \in Named : CreateQueue(t, q) \/ DeleteQueue(t, q)
       \/ \E t \in Threads, q \in Queues : AddQueue(t, q) \/ PullQueue(t, q) \/ PullWaits(t, q)
       \/ \E t \in Threads : Pulling(t) \/ SessionTaken(t)
       \/ \E p \in Processes : Exit(p) \/ Interrupt(p) \/ Kill(p)

Spec == Init /\ [][Next]_vars

\* A thread in RexxPullQueue tries again every second, and comes to an end.
FairSpec ==
    /\ Spec
    /\ \A t \in Threads :
          WF_vars(~spoilt /\ thread[t].at # "idle" /\ (Pulling(t) \/ SessionTaken(t)))

-----------------------------------------------------------------------------
(* What the queues promise.                                                *)

\* Whoever waits for a queue finds it again under its name, with the
\* semaphores it has copied, although RexxDeleteQueue, RexxCreateQueue and
\* the ends of processes may come in between.
WaitersKeepTheirQueue ==
    ~spoilt => \A t \in Threads : thread[t].at # "idle" =>
        /\ apidata.queue[thread[t].queue] # None
        /\ apidata.queue[thread[t].queue].enqsem = thread[t].enqsem
        /\ apidata.queue[thread[t].queue].waitsem = thread[t].waitsem

\* Nobody sleeps beside lines: while somebody waits, each line of the queue
\* has a post that will wake somebody or has woken somebody already.
LinesArePosted ==
    ~spoilt => \A q \in Queues : Waiters(q) # {} =>
        apidata.queue[q].items <= apidata.semaphore[apidata.queue[q].waitsem] + Cardinality(Woken(q))

\* A queue with lines and waiters is emptied, or all are served, whoever
\* pulls first, and although waiters stand in line for one mutex which a
\* process may own when it ends.
LinesReachWaiters ==
    \A q \in Queues :
        (Waiters(q) # {} /\ apidata.queue[q] # None /\ apidata.queue[q].items > 0)
            ~> (Waiters(q) = {} \/ apidata.queue[q] = None \/ apidata.queue[q].items = 0 \/ spoilt)

=============================================================================
