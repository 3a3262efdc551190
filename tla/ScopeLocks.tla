----------------------------- MODULE ScopeLocks -----------------------------
(***************************************************************************)
(* Guarded methods, message results and the deadlock check.                *)
(*                                                                         *)
(* The variables that a class scope gives an object live in one            *)
(* RexxVariableDictionary, which is also a lock: a guarded method reserves *)
(* it for its activity, which may do so again in nested calls, and others  *)
(* wait in line.  An activity may also wait for the result of a message    *)
(* object that runs on another activity.  Before either wait it follows    *)
(* the waitingObject of the activities ahead of it (checkDeadLock) and     *)
(* raises an error where the wait would close a circle.                    *)
(*                                                                         *)
(* Grain of atomicity: what runs from one clause boundary, call or wait to *)
(* the next happens under the kernel lock (KernelLock) and is one step; an *)
(* activity whose run semaphore was posted goes on when it next gets the   *)
(* kernel.  An error unwinds its activations in one step.                  *)
(*                                                                         *)
(* A send that is unwound does not always end its message: an activation   *)
(* tells only the message in its objnotify, only of SYNTAX errors, and not *)
(* while it forwards.  Such a message is never completed and keeps its     *)
(* startActivity.                                                          *)
(***************************************************************************)
EXTENDS Naturals, Sequences, SequencesExt, FiniteSetsExt

CONSTANTS
    Activities,    \* the activities of the pool
    Scopes,        \* the variable dictionaries
    Messages,      \* the message objects
    None,          \* OREF_NULL
    MaxActivations \* bound: no method begins on top of so many activations

ASSUME DistinctAssumption ==
    /\ None \notin Activities \cup Scopes \cup Messages
    /\ Scopes \cap Messages = {}
ASSUME ActivationsAssumption == MaxActivations \in Nat \ {0}

VARIABLES
    state,              \* what each activity is doing
    activations,        \* its activations, the running one last
    waitingObject,      \* the resource it waits for
    reservingActivity,  \* the holder of each scope
    reserveCount,       \*   how often it reserved the scope
    waitingActivities,  \* the line at each scope and message
    startActivity,      \* the activity each message was sent or started on
    msgSent,            \* the messages that were sent
    completed,          \* the messages with a result or an error
    spoilt              \* history: the scopes that were released by an
                        \*   activation which did not have them

activityVars == <<state, activations, waitingObject>>
scopeVars    == <<reservingActivity, reserveCount, waitingActivities>>
messageVars  == <<startActivity, msgSent, completed>>
vars         == <<activityVars, scopeVars, messageVars, spoilt>>

(* An activation of a method: the scope of its variables, whether its      *)
(* object_scope is SCOPE_RESERVED, the flags reply_issued, transfer_failed *)
(* and forwarded, the messages whose SEND returns when it returns, the one *)
(* in the objnotify of its caller while it runs, and what its own          *)
(* objnotify still holds of a send that a condition ended.                 *)
Activation == [scope: Scopes, reserved: BOOLEAN, replied: BOOLEAN,
               transferFailed: BOOLEAN, forwarded: BOOLEAN,
               messages: SUBSET Messages, notify: Messages \cup {None},
               stale: Messages \cup {None}]

States == {
    "idle",        \* runs nothing
    "running",     \* runs its last activation, or may as soon as it is current
    "reserving",   \* waits in reserve
    "result",      \* waits in RexxMessage::result
    "guardOn",     \* in guardWait, having given up its scope
    "guardOff",    \* in guardWait, with no scope to take back
    "replied",     \* its last activation moved away, in yield
    "resuming",    \* was given a replied activation
    "starting",    \* was given a message to send
    "overflow"}    \* ran out of stack in checkDeadLock

TypeOK ==
    /\ state \in [Activities -> States]
    /\ activations \in [Activities -> Seq(Activation)]
    /\ waitingObject \in [Activities -> Scopes \cup Messages \cup {None}]
    /\ reservingActivity \in [Scopes -> Activities \cup {None}]
    /\ reserveCount \in [Scopes -> Nat]
    /\ waitingActivities \in [Scopes \cup Messages -> Seq(Activities)]
    /\ startActivity \in [Messages -> Activities \cup {None}]
    /\ msgSent \subseteq Messages
    /\ completed \subseteq Messages
    /\ spoilt \subseteq Scopes

Init ==
    /\ state = [a \in Activities |-> "idle"]
    /\ activations = [a \in Activities |-> <<>>]
    /\ waitingObject = [a \in Activities |-> None]
    /\ reservingActivity = [s \in Scopes |-> None]
    /\ reserveCount = [s \in Scopes |-> 0]
    /\ waitingActivities = [o \in Scopes \cup Messages |-> <<>>]
    /\ startActivity = [m \in Messages |-> None]
    /\ msgSent = {}
    /\ completed = {}
    /\ spoilt = {}

NewActivation(s, ms, m) ==
    [scope |-> s, reserved |-> FALSE, replied |-> FALSE, transferFailed |-> FALSE,
     forwarded |-> FALSE, messages |-> ms, notify |-> m, stale |-> None]

Top(a) == Last(activations[a])
Below(a) == Front(activations[a])

\* The top activation once its scope is reserved for it.
WithScope(stack) == Append(Front(stack), [Last(stack) EXCEPT !.reserved = TRUE, !.transferFailed = FALSE])
WithoutScope(stack) == Append(Front(stack), [Last(stack) EXCEPT !.reserved = FALSE])

Become(a, st, stack) ==
    /\ state' = [state EXCEPT ![a] = st]
    /\ activations' = [activations EXCEPT ![a] = stack]

-----------------------------------------------------------------------------
(* checkDeadLock.                                                          *)

OwningActivity(resource, startedOn) ==
    IF resource \in Messages THEN startedOn[resource] ELSE reservingActivity[resource]

\* The activity checkDeadLock arrives at from a in n recursive calls, None
\* when it has returned before.
Arrives(a, startedOn) ==
    LET hop[n \in 0..Cardinality(Activities)] ==
            IF n = 0 THEN a
            ELSE IF hop[n - 1] = None THEN None
            ELSE IF waitingObject[hop[n - 1]] = None THEN None
            ELSE OwningActivity(waitingObject[hop[n - 1]], startedOn)
    IN  hop

\* A check that looks no further than the holder itself.
ReportsDeadlockMutantOneHop(owner, target) == Arrives(owner, startActivity')[1] = target

\* A check that takes any wait of the holder for a deadlock.
ReportsDeadlockMutantAnyWait(owner, target) == owner # None /\ waitingObject[owner] # None

\* owner->checkDeadLock(target) reports the error, ...  (send has set its
\* startActivity before the method it calls reserves a scope)
ReportsDeadlock(owner, target) ==
    \E n \in 1..Cardinality(Activities) : Arrives(owner, startActivity')[n] = target

\* ... or never returns: it follows a circle that the target is not on.
NeverReturns(owner, target) ==
    ~ReportsDeadlock(owner, target) /\ Arrives(owner, startActivity')[Cardinality(Activities)] # None

-----------------------------------------------------------------------------
(* release, sendNotification and their wakeups.                            *)

CountHandedOnMutantZero(s) == 0

\* The count of a scope that its last holder has left: "back to one lock
\* again" when it goes to the first in line.
CountHandedOn(s) == IF waitingActivities[s] = <<>> THEN 0 ELSE 1

HolderHandedOnMutantNobody(s) == None

\* Who holds it then.
HolderHandedOn(s) == IF waitingActivities[s] = <<>> THEN None ELSE Head(waitingActivities[s])

\* RexxVariableDictionary::release called times[s] times for each scope s,
\* and the completion of a set of messages.  A scope whose count drops to
\* zero goes to the first activity in line, which becomes its holder before
\* it runs again; those who wait for a completed message are all woken.
Discharge(times, ended) ==
    LET left   == {s \in Scopes : times[s] > 0 /\ reserveCount[s] = times[s]}
        passed == {s \in left : waitingActivities[s] # <<>>}
        woken  == {Head(waitingActivities[s]) : s \in passed}
                    \cup UNION {ToSet(waitingActivities[m]) : m \in ended}
    IN  /\ reservingActivity' = [s \in Scopes |-> IF s \in left THEN HolderHandedOn(s) ELSE reservingActivity[s]]
        /\ reserveCount' = [s \in Scopes |-> IF s \in left THEN CountHandedOn(s) ELSE reserveCount[s] - times[s]]
        /\ waitingActivities' = [o \in Scopes \cup Messages |->
              IF o \in passed THEN Tail(waitingActivities[o])
              ELSE IF o \in ended THEN <<>> ELSE waitingActivities[o]]
        /\ waitingObject' = [a \in Activities |-> IF a \in woken THEN None ELSE waitingObject[a]]
        /\ completed' = completed \cup ended

Once(scope) == [s \in Scopes |-> IF s = scope THEN 1 ELSE 0]

\* How often the activations in a sequence have each scope reserved.
Reservations(stack) ==
    [s \in Scopes |-> Quantify(DOMAIN stack, LAMBDA i : stack[i].scope = s /\ stack[i].reserved)]

\* The activations that stack has above the first keep.
Above(stack, keep) == SubSeq(stack, keep + 1, Len(stack))

MessagesOf(stack) == UNION {stack[i].messages : i \in DOMAIN stack}

\* The messages that a SYNTAX error tells on its way to the activation at
\* keep, which traps it, or off the stack.
Told(stack, keep) ==
    ({stack[i].notify : i \in keep + 1..Len(stack)}
        \cup {stack[i].stale : i \in {j \in 1..Len(stack) : j >= keep}}) \ {None}

\* The activations above the first keep are terminated (termination calls
\* guardOff), and the messages in ended complete, with a result or an error.
Terminate(a, stack, keep, ended) ==
    /\ Discharge(Reservations(Above(stack, keep)), ended)
    /\ Become(a, IF keep = 0 THEN "idle" ELSE "running", SubSeq(stack, 1, keep))

WithStale(stack, i, m) == [stack EXCEPT ![i].stale = m]

\* The activation that goes on when the last one of stack returns, 0 when
\* there is none: a forwarding one ends with the method it called.
Caller(stack) == Max({0} \cup {i \in 1..Len(stack) - 1 : ~stack[i].forwarded})

\* A SYNTAX error raised on a: any of the first most activations may trap it,
\* or none of them does.
Throw(a, stack, most) ==
    \E keep \in {0} \cup {i \in 1..most : ~stack[i].forwarded} :
        Terminate(a, IF keep = 0 THEN stack ELSE WithStale(stack, keep, None), keep, Told(stack, keep))

-----------------------------------------------------------------------------
(* The waits.                                                              *)

\* Wait for a resource in the hands of owner: refused where checkDeadLock
\* finds a circle, else in line at the resource and off to waitReserve.
WaitFor(a, resource, owner, st, stack, most) ==
    \/ /\ ReportsDeadlock(owner, a)
       /\ Throw(a, stack, most)
    \/ /\ NeverReturns(owner, a)
       /\ Become(a, "overflow", stack)
       /\ UNCHANGED <<waitingObject, scopeVars, completed>>
    \/ /\ ~ReportsDeadlock(owner, a)
       /\ ~NeverReturns(owner, a)
       /\ waitingActivities' = [waitingActivities EXCEPT ![resource] = Append(@, a)]
       /\ waitingObject' = [waitingObject EXCEPT ![a] = resource]
       /\ Become(a, st, stack)
       /\ UNCHANGED <<reservingActivity, reserveCount, completed>>

CountNestedMutantSet(s) == 1

\* The count after another reservation by the same activity.
CountNested(s) == reserveCount[s] + 1

\* RexxVariableDictionary::reserve by a for the last activation of stack.
Reserve(a, stack, most) ==
    LET s == Last(stack).scope
        holder == reservingActivity[s]
    IN  \/ /\ holder \in {None, a}
           /\ reservingActivity' = [reservingActivity EXCEPT ![s] = a]
           /\ reserveCount' = [reserveCount EXCEPT ![s] = IF holder = a THEN CountNested(s) ELSE 1]
           /\ Become(a, "running", WithScope(stack))
           /\ UNCHANGED <<waitingObject, waitingActivities, completed>>
        \/ /\ holder \notin {None, a}
           /\ WaitFor(a, s, holder, "reserving", stack, most)

\* waitReserve returns: the scope is the activation's by now.
ReserveReturns(a) ==
    /\ state[a] = "reserving"
    /\ waitingObject[a] = None
    /\ Become(a, "running", WithScope(activations[a]))
    /\ UNCHANGED <<waitingObject, scopeVars, messageVars>>

\* RexxMessage::result of a message that has no result yet.
Result(a, m) ==
    /\ state[a] = "running"
    /\ m \notin completed
    /\ UNCHANGED <<startActivity, msgSent>>
    /\ WaitFor(a, m, startActivity[m], "result", activations[a], Len(activations[a]))

ResultReturns(a) ==
    /\ state[a] = "result"
    /\ waitingObject[a] = None
    /\ Become(a, "running", activations[a])
    /\ UNCHANGED <<waitingObject, scopeVars, messageVars>>

-----------------------------------------------------------------------------
(* RexxActivation::run: methods begin, end, fail, forward and reply.       *)

\* The activations of all activities together.
SumActivations == MapThenSumSet(LAMBDA a : Len(activations[a]), Activities)

\* Begin a method of a scope on top of stack.  A guarded one reserves the
\* scope first.
Begin(a, below, s, guarded, ms, m) ==
    LET stack == Append(below, NewActivation(s, ms, m))
    IN  /\ SumActivations < MaxActivations
        /\ \/ guarded /\ Reserve(a, stack, Len(stack) - 1)
           \/ ~guarded /\ Become(a, "running", stack) /\ UNCHANGED <<waitingObject, scopeVars, completed>>

\* (FORWARD without a message object is a call, then a return.)
Call(a, s, guarded) ==
    /\ state[a] \in {"idle", "running"}
    /\ UNCHANGED <<startActivity, msgSent>>
    /\ Begin(a, activations[a], s, guarded, {}, None)

\* The last activation of a returns, and so do the sends it was called by.
Finish(a) ==
    LET keep == Caller(activations[a])
    IN  Terminate(a, activations[a], keep, MessagesOf(Above(activations[a], keep)))

Return(a) ==
    /\ state[a] = "running"
    /\ UNCHANGED <<startActivity, msgSent>>
    /\ Finish(a)

\* Any other SYNTAX error than a deadlock.
RaiseError(a) ==
    /\ state[a] = "running"
    /\ UNCHANGED <<startActivity, msgSent>>
    /\ Throw(a, activations[a], Len(activations[a]))

\* RAISE of another condition, which the caller traps with SIGNAL ON: what it
\* called is unwound, and no message hears of it.
RaiseCondition(a) ==
    LET stack == activations[a]
        keep == Caller(stack)
        held == stack[keep + 1].notify
    IN  /\ state[a] = "running"
        /\ keep # 0
        /\ UNCHANGED <<startActivity, msgSent>>
        /\ Terminate(a, IF held = None THEN stack ELSE WithStale(stack, keep, held), keep, {})

\* RexxVariableDictionary::transfer from a to b: a scope that a reserved only
\* once changes hands; otherwise a gives up one of its reservations.
Transfer(s, a, b) ==
    \/ /\ reserveCount[s] = 1
       /\ reservingActivity' = [reservingActivity EXCEPT ![s] = b]
       /\ UNCHANGED <<reserveCount, waitingActivities, waitingObject, completed>>
    \/ /\ reserveCount[s] # 1
       /\ Discharge(Once(s), {})

\* REPLY: the activation goes on under another activity, which inherits the
\* scope or has to reserve it anew.  What is left on the old activity only
\* hands the result to its caller, after a yield.
Reply(a, b) ==
    LET top == Top(a)
        moved == [top EXCEPT !.messages = {}, !.notify = None, !.replied = TRUE,
                             !.transferFailed = top.reserved /\ reserveCount[top.scope] # 1]
    IN  /\ state[a] = "running"
        /\ state[b] = "idle"
        /\ ~top.replied
        /\ state' = [state EXCEPT ![a] = "replied", ![b] = "resuming"]
        /\ activations' = [activations EXCEPT ![a] = WithoutScope(@), ![b] = <<moved>>]
        /\ \/ top.reserved /\ Transfer(top.scope, a, b)
           \/ ~top.reserved /\ UNCHANGED <<scopeVars, waitingObject, completed>>
        /\ UNCHANGED <<startActivity, msgSent>>

ReplyReturns(a) ==
    /\ state[a] = "replied"
    /\ UNCHANGED <<startActivity, msgSent>>
    /\ Finish(a)

\* The new activity is dispatched: transfer_failed makes it reserve again.
Resume(b) ==
    /\ state[b] = "resuming"
    /\ UNCHANGED <<startActivity, msgSent>>
    /\ \/ Top(b).transferFailed /\ Reserve(b, activations[b], 0)
       \/ /\ ~Top(b).transferFailed
          /\ Become(b, "running", activations[b])
          /\ UNCHANGED <<waitingObject, scopeVars, completed>>

-----------------------------------------------------------------------------
(* GUARD.                                                                  *)

GuardOn(a) ==
    /\ state[a] = "running"
    /\ ~Top(a).reserved
    /\ UNCHANGED <<startActivity, msgSent>>
    /\ Reserve(a, activations[a], Len(activations[a]))

GuardOff(a) ==
    /\ state[a] = "running"
    /\ Top(a).reserved
    /\ Discharge(Once(Top(a).scope), {})
    /\ Become(a, "running", WithoutScope(activations[a]))
    /\ UNCHANGED <<startActivity, msgSent>>

\* RexxActivation::guardWait of a GUARD ... WHEN that is false: one
\* reservation of the scope is given up for the wait.
GuardWait(a) ==
    /\ state[a] = "running"
    /\ UNCHANGED <<startActivity, msgSent>>
    /\ \/ /\ Top(a).reserved
          /\ Discharge(Once(Top(a).scope), {})
          /\ Become(a, "guardOn", WithoutScope(activations[a]))
       \/ /\ ~Top(a).reserved
          /\ Become(a, "guardOff", activations[a])
          /\ UNCHANGED <<waitingObject, scopeVars, completed>>

\* The guard semaphore was posted, by an assignment or at an earlier time.
GuardWaitReturns(a) ==
    /\ UNCHANGED <<startActivity, msgSent>>
    /\ \/ /\ state[a] = "guardOn"
          /\ Reserve(a, activations[a], Len(activations[a]))
       \/ /\ state[a] = "guardOff"
          /\ Become(a, "running", activations[a])
          /\ UNCHANGED <<waitingObject, scopeVars, completed>>

-----------------------------------------------------------------------------
(* RexxMessage::start and send.                                            *)

\* start: an activity of the pool is to send the message.
Start(a, m, b) ==
    /\ state[a] = "running"
    /\ state[b] = "idle"
    /\ startActivity[m] = None
    /\ startActivity' = [startActivity EXCEPT ![m] = b]
    /\ state' = [state EXCEPT ![b] = "starting"]
    /\ UNCHANGED <<activations, waitingObject, scopeVars, msgSent, completed>>

\* FORWARD makes the activation a phantom: it does not trap an error, nor tell
\* its objnotify of it, but leaves that to its caller.
Forwarding(a) == Append(Below(a), [Top(a) EXCEPT !.forwarded = TRUE, !.stale = None])

\* send: the method runs on the activity that sends the message, which has to
\* be the one that start chose for it.  The receiver of a message may be the
\* SEND of another: ms are the messages sent this way, and m is the innermost
\* of them, which is left in the objnotify.
Send(a, ms, m, s, guarded, forward) ==
    LET started == {n \in ms : startActivity[n] = a}
        sender == IF forward THEN Forwarding(a) ELSE activations[a]
    IN  /\ m \in ms
        /\ ms \cap msgSent = {}
        /\ \A n \in ms \ started : startActivity[n] = None
        /\ \/ state[a] = "running" /\ started = {}
           \/ state[a] = "starting" /\ started # {} /\ ~forward /\ (ms # started => m \notin started)
        /\ startActivity' = [n \in Messages |-> IF n \in ms THEN a ELSE startActivity[n]]
        /\ msgSent' = msgSent \cup ms
        /\ Begin(a, IF sender = <<>> THEN sender ELSE WithStale(sender, Len(sender), None),
                 s, guarded, ms, IF forward THEN None ELSE m)

-----------------------------------------------------------------------------
Step(a) ==
    \/ \E s \in Scopes, guarded \in BOOLEAN : Call(a, s, guarded)
    \/ Return(a)
    \/ RaiseError(a)
    \/ RaiseCondition(a)
    \/ \E b \in Activities : Reply(a, b)
    \/ ReplyReturns(a)
    \/ Resume(a)
    \/ ReserveReturns(a)
    \/ GuardOn(a)
    \/ GuardOff(a)
    \/ GuardWait(a)
    \/ GuardWaitReturns(a)
    \/ \E m \in Messages, b \in Activities : Start(a, m, b)
    \/ \E ms \in SUBSET Messages, m \in Messages, s \in Scopes, guarded, forward \in BOOLEAN :
          Send(a, ms, m, s, guarded, forward)
    \/ \E m \in Messages : Result(a, m)
    \/ ResultReturns(a)

\* An activation that replied and is refused its scope is unwound as if it had
\* it: it releases what its former activity holds.  Nothing in the code puts
\* the count right again, and the model ends there.  It also ends with a
\* checkDeadLock that overflows the stack, which ends the process.
Next ==
    /\ spoilt = {}
    /\ \A a \in Activities : state[a] # "overflow"
    /\ \E a \in Activities : Step(a)
    /\ spoilt' = {Top(b).scope : b \in {c \in Activities : state[c] = "resuming" /\ state'[c] = "idle"}}

Spec == Init /\ [][Next]_vars

-----------------------------------------------------------------------------
(* What makes the locks correct.                                           *)

\* The reservations of scope s that a relies on: those of its activations,
\* and the one it was given while it waited.  An activation whose transfer
\* failed says SCOPE_RESERVED, but does not have the scope.
ReliesOn(a, s) ==
    Quantify(DOMAIN activations[a], LAMBDA i :
        LET it == activations[a][i]
        IN  it.scope = s /\ it.reserved /\ ~it.transferFailed)
    + IF state[a] = "reserving" /\ waitingObject[a] = None /\ Top(a).scope = s THEN 1 ELSE 0

\* Guarded methods exclude each other: only the reserving activity of a scope
\* has activations that rely on it, and reserveCount counts exactly those,
\* through nesting, GUARD, REPLY, errors and the handing on by release.  The
\* one exception is a scope that a refused reply has released.
ReservationsCounted ==
    \A s \in Scopes \ spoilt, a \in Activities :
        ReliesOn(a, s) = IF reservingActivity[s] = a THEN reserveCount[s] ELSE 0

\* No wakeup is lost: an activity stands, once, in the line of the one
\* resource it waits for, a scope with a line has a holder who will hand it
\* on, and a completed message has no line.
WaitersAreListed ==
    /\ \A a \in Activities, o \in Scopes \cup Messages :
          Quantify(DOMAIN waitingActivities[o], LAMBDA i : waitingActivities[o][i] = a)
              = IF waitingObject[a] = o THEN 1 ELSE 0
    /\ \A s \in Scopes : waitingActivities[s] # <<>> => reservingActivity[s] # None
    /\ \A m \in completed : waitingActivities[m] = <<>>

InCircle(a) == \E n \in 1..Cardinality(Activities) : Arrives(a, startActivity)[n] = a

\* checkDeadLock keeps the activities from waiting in a circle for each
\* other, however the scopes change hands and the messages are sent after
\* the wait began: the only circle is that of an activity which waits for a
\* message of its own.
OnlySelfCircles ==
    \A a \in Activities : InCircle(a) => Arrives(a, startActivity)[1] = a

\* A message that was sent and has neither ended nor a method that runs for it.
Lost(m) ==
    /\ m \in msgSent \ completed
    /\ \A a \in Activities : m \notin MessagesOf(activations[a])

\* An activation that replied and could not take its scope along reserves it
\* anew on an activity with nothing to wait for, so that it is refused the
\* scope only where somebody waits for a lost message that its activity sent
\* in an earlier life: without the errors that pass a message by, never.
ReplyRefusedForLostMessage ==
    [][\A b \in Activities : state[b] = "resuming" /\ state'[b] = "idle" =>
          \E m \in Messages : Lost(m) /\ startActivity[m] = b /\ waitingActivities[m] # <<>>]_vars

\* What checkDeadLock says it does: "Check for a circular wait dead lock
\* error"; RexxMessage::send sets startActivity "for resource deadlock
\* checking purposes".
NoCircularWait == \A a \in Activities : ~InCircle(a)

=============================================================================
