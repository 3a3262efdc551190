--------------------------- MODULE MessageObjects ---------------------------
(***************************************************************************)
(* Message objects: SEND, START, NOTIFY, and the way of an error through   *)
(* them.                                                                   *)
(*                                                                         *)
(* A message object is sent once, by SEND or, after START, by an activity  *)
(* of the pool.  When its method ends it has a result and sends the        *)
(* messages that NOTIFY listed.  An error that unwinds the method has to   *)
(* reach the message too: while it is being sent, the activation that      *)
(* sends it holds it in its one objnotify, and trap calls its error method *)
(* when the error comes by.  Waiting for the result is in ScopeLocks.      *)
(*                                                                         *)
(* Grain of atomicity: the C++ code between two clauses or native calls    *)
(* keeps the kernel lock, so an activity takes a step only while all the   *)
(* others are at such a boundary (Runs).                                   *)
(***************************************************************************)
EXTENDS Naturals, Sequences, SequencesExt, FiniteSetsExt

CONSTANTS
    Activities,     \* the activities of the pool
    Messages,       \* the message objects
    None,           \* OREF_NULL
    MaxFrames,      \* bound: nothing is pushed on so many frames
    MaxParties      \* bound: nobody is listed beside so many parties

ASSUME NoneAssumption == None \notin Activities \cup Messages

VARIABLES
    stack,              \* what each activity is executing, outermost first
    msgSent,            \* the flags of the messages of that name, as sets
    startPending,
    resultReturned,
    raiseError,
    allNotified,
    startActivity,      \* the activity each was sent or is to be sent on
    interestedParties   \* the messages to send when it completes

flags == <<msgSent, startPending, resultReturned, raiseError, allNotified>>
vars  == <<stack, flags, startActivity, interestedParties>>

(* What stands on a stack: activations, Rexx or native, and in between the *)
(* C++ calls that an error can abandon.                                    *)
Activation(native, m) == [kind |-> "act", native |-> native, objnotify |-> m]
Sending(m)            == [kind |-> "send", message |-> m]
Notifying(m, i)       == [kind |-> "notify", message |-> m, next |-> i]

\* An error on offer to the trap of the activation at a position; told: its
\* message has heard of it; propagated: raisePropagate has taken over.
Raising(position, told, propagated) ==
    [kind |-> "raise", offered |-> position, told |-> told, propagated |-> propagated]

Frames ==
    [kind : {"act"}, native : BOOLEAN, objnotify : Messages \cup {None}]
    \cup [kind : {"send"}, message : Messages]
    \cup [kind : {"notify"}, message : Messages, next : Nat \ {0}]
    \cup [kind : {"raise"}, offered : Nat \ {0}, told : BOOLEAN, propagated : BOOLEAN]

\* The loop stays inside its list or just after it; what an error is on offer
\* to is an activation below.
InPlace(frames, i) ==
    /\ frames[i].kind = "notify" =>
          frames[i].next <= Len(interestedParties[frames[i].message]) + 1
    /\ frames[i].kind = "raise" =>
          frames[i].offered < i /\ frames[frames[i].offered].kind = "act"

TypeOK ==
    /\ stack \in [Activities -> Seq(Frames)]
    /\ \A a \in Activities : \A i \in 1..Len(stack[a]) : InPlace(stack[a], i)
    /\ msgSent \subseteq Messages
    /\ startPending \subseteq Messages
    /\ resultReturned \subseteq Messages
    /\ raiseError \subseteq Messages
    /\ allNotified \subseteq Messages
    /\ startActivity \in [Messages -> Activities \cup {None}]
    /\ interestedParties \in [Messages -> Seq(Messages)]

Init ==
    /\ stack = [a \in Activities |-> <<>>]
    /\ msgSent = {}
    /\ startPending = {}
    /\ resultReturned = {}
    /\ raiseError = {}
    /\ allNotified = {}
    /\ startActivity = [m \in Messages |-> None]
    /\ interestedParties = [m \in Messages |-> <<>>]

Top(a) == Last(stack[a])
TopIs(a, kind) == stack[a] # <<>> /\ Top(a).kind = kind
AtBoundary(a) == stack[a] = <<>> \/ TopIs(a, "act")
Runs(a) == \A b \in Activities \ {a} : AtBoundary(b)

\* The thread that START created or reused runs message_nstart, which sends
\* the message and does nothing else.
Starter(a) == Len(stack[a]) = 1 /\ TopIs(a, "act") /\ Top(a).native

\* An activation that may execute its next clause.
Executes(a) == Runs(a) /\ TopIs(a, "act") /\ ~Starter(a)

RoomForFrame == MapThenSumSet(LAMBDA a : Len(stack[a]), Activities) < MaxFrames
RoomForParty == MapThenSumSet(LAMBDA m : Len(interestedParties[m]), Messages) < MaxParties

Become(a, frames) == stack' = [stack EXCEPT ![a] = frames]

\* The positions of the activations in a stack up to n.
Acts(frames, n) == {i \in 1..n : frames[i].kind = "act"}
Current(frames) == Max(Acts(frames, Len(frames)))

SetObjNotifyMutantOutermost(frames, m) ==
    [frames EXCEPT ![Min(Acts(frames, Len(frames)))].objnotify = m]

\* current()->setObjNotify(m).
SetObjNotify(frames, m) == [frames EXCEPT ![Current(frames)].objnotify = m]

\* report_exception in the code that frames are executing.
Raise(frames) == Append(frames, Raising(Current(frames), FALSE, FALSE))

-----------------------------------------------------------------------------
(* RexxMessage.                                                            *)

RefusedMutantStartedByAll(a, m) == m \in msgSent

\* message_reuse.
Refused(a, m) == m \in msgSent \/ (m \in startPending /\ startActivity[m] # a)

\* send, up to the call of the receiver.  The receiver may be one that the
\* startscope of the message is no class of.
CallSend(a, m, frames) ==
    /\ RoomForFrame
    /\ \/ /\ Refused(a, m)
          /\ Become(a, Raise(frames))
          /\ UNCHANGED <<msgSent, startActivity>>
       \/ /\ ~Refused(a, m)
          /\ msgSent' = msgSent \cup {m}
          /\ \/ Become(a, Raise(frames)) /\ UNCHANGED startActivity
             \/ /\ Become(a, Append(SetObjNotify(frames, m), Sending(m)))
                /\ startActivity' = [startActivity EXCEPT ![m] = a]
    /\ UNCHANGED <<startPending, resultReturned, raiseError>>

SendNotificationMutantKeepsNotify(frames, m) == Append(frames, Notifying(m, 1))
SendNotificationMutantFromZero(frames, m) == Append(SetObjNotify(frames, None), Notifying(m, 0))

\* sendNotification, up to its loop.
SendNotification(frames, m) == Append(SetObjNotify(frames, None), Notifying(m, 1))

\* The innermost call has returned to frames: a message whose method it was
\* has its result now.
ReturnTo(a, frames) ==
    IF frames # <<>> /\ Last(frames).kind = "send"
    THEN /\ resultReturned' = resultReturned \cup {Last(frames).message}
         /\ Become(a, SendNotification(frames, Last(frames).message))
    ELSE /\ UNCHANGED resultReturned
         /\ Become(a, frames)

Send(a, m) ==
    /\ Executes(a) \/ (Runs(a) /\ Starter(a) /\ startActivity[m] = a /\ m \notin msgSent)
    /\ CallSend(a, m, stack[a])
    /\ UNCHANGED <<allNotified, interestedParties>>

Start(a, m, b) ==
    /\ Executes(a)
    /\ stack[b] = <<>>
    /\ RoomForFrame
    /\ \/ /\ m \in msgSent \cup startPending
          /\ Become(a, Raise(stack[a]))
          /\ UNCHANGED <<startPending, startActivity>>
       \/ /\ m \notin msgSent \cup startPending
          /\ startPending' = startPending \cup {m}
          /\ startActivity' = [startActivity EXCEPT ![m] = b]
          /\ Become(b, <<Activation(TRUE, m)>>)
    /\ UNCHANGED <<msgSent, resultReturned, raiseError, allNotified, interestedParties>>

\* notify: once all parties were notified, p is sent at once.
Notify(a, m, p) ==
    /\ Executes(a)
    /\ \/ /\ m \in allNotified
          /\ CallSend(a, p, stack[a])
          /\ UNCHANGED <<allNotified, interestedParties>>
       \/ /\ m \notin allNotified
          /\ RoomForParty
          /\ interestedParties' = [interestedParties EXCEPT ![m] = Append(@, p)]
          /\ UNCHANGED <<stack, flags, startActivity>>

\* The receiver's method: one with an activation, a primitive one that
\* returns or fails at once, or the SEND method of a message object.
Receive(a) ==
    /\ Runs(a)
    /\ TopIs(a, "send")
    /\ RoomForFrame
    /\ \/ /\ \E native \in BOOLEAN : Become(a, Append(stack[a], Activation(native, None)))
          /\ UNCHANGED <<flags, startActivity>>
       \/ /\ ReturnTo(a, stack[a])
          /\ UNCHANGED <<msgSent, startPending, raiseError, allNotified, startActivity>>
       \/ /\ Become(a, Raise(stack[a]))
          /\ UNCHANGED <<flags, startActivity>>
       \/ \E p \in Messages : CallSend(a, p, stack[a]) /\ UNCHANGED allNotified
    /\ UNCHANGED interestedParties

NoMoreMutantSkipsLast(m, i) == i >= Len(interestedParties[m])

\* The parties to go through: all that are listed by the time the loop gets
\* there.
NoMore(m, i) == i > Len(interestedParties[m])

\* One round of the loop of sendNotification, or its end.
NotifyNext(a) ==
    /\ Runs(a)
    /\ TopIs(a, "notify")
    /\ LET m == Top(a).message
           i == Top(a).next
           below == Front(stack[a])
       IN  \/ /\ ~NoMore(m, i)
              /\ CallSend(a, interestedParties[m][i], Append(below, Notifying(m, i + 1)))
              /\ UNCHANGED allNotified
           \/ /\ NoMore(m, i)
              /\ allNotified' = allNotified \cup {m}
              /\ IF Last(below).kind = "send" THEN ReturnTo(a, Front(below))
                 ELSE Become(a, below) /\ UNCHANGED resultReturned
              /\ UNCHANGED <<msgSent, startPending, raiseError, startActivity>>
    /\ UNCHANGED interestedParties

-----------------------------------------------------------------------------
(* Activations and errors.                                                 *)

\* A program begins on an idle activity, or a clause calls a method.
Call(a) ==
    /\ Executes(a) \/ (stack[a] = <<>> /\ Runs(a))
    /\ RoomForFrame
    /\ \E native \in BOOLEAN :
          /\ stack[a] = <<>> => ~native
          /\ Become(a, Append(stack[a], Activation(native, None)))
    /\ UNCHANGED <<flags, startActivity, interestedParties>>

Return(a) ==
    /\ Runs(a)
    /\ Executes(a) \/ (Starter(a) /\ \A m \in Messages : startActivity[m] = a => m \in msgSent)
    /\ ReturnTo(a, Front(stack[a]))
    /\ UNCHANGED <<msgSent, startPending, raiseError, allNotified, startActivity, interestedParties>>

\* A clause or a native method fails.
Fail(a) ==
    /\ Executes(a)
    /\ RoomForFrame
    /\ Become(a, Raise(stack[a]))
    /\ UNCHANGED <<flags, startActivity, interestedParties>>

Raised(a) == Runs(a) /\ TopIs(a, "raise")
Offered(a) == stack[a][Top(a).offered]
Told(a) == Top(a).told \/ Offered(a).objnotify = None

\* trap of the activation on offer: its message is told first.
TellMessage(a) ==
    /\ Raised(a)
    /\ ~Told(a)
    /\ RoomForFrame
    /\ LET m == Offered(a).objnotify
           raising == [Top(a) EXCEPT !.told = TRUE]
       IN  /\ raiseError' = raiseError \cup {m}
           /\ Become(a, SendNotification(Append(Front(stack[a]), raising), m))
    /\ UNCHANGED <<msgSent, startPending, resultReturned, allNotified, startActivity, interestedParties>>

\* SIGNAL ON SYNTAX is set: everything above goes.
Trap(a) ==
    /\ Raised(a)
    /\ Told(a)
    /\ ~Offered(a).native
    /\ Become(a, SubSeq(stack[a], 1, Top(a).offered))
    /\ UNCHANGED <<flags, startActivity, interestedParties>>

\* Not trapped.  raiseCondition offers the error to the native activations on
\* top and the first Rexx activation before any of them goes; raisePropagate
\* takes them off one by one.  An activity without activations is killed.
PassOn(a) ==
    /\ Raised(a)
    /\ Told(a)
    /\ LET raising == Top(a)
           lower == Acts(stack[a], raising.offered - 1)
       IN  Become(a,
             IF lower = {} THEN <<>>
             ELSE IF Offered(a).native /\ ~raising.propagated
             THEN Append(Front(stack[a]), Raising(Max(lower), FALSE, FALSE))
             ELSE Append(SubSeq(stack[a], 1, Max(lower)), Raising(Max(lower), FALSE, TRUE)))
    /\ UNCHANGED <<flags, startActivity, interestedParties>>

-----------------------------------------------------------------------------
Step(a) ==
    \/ \E m \in Messages : Send(a, m)
    \/ \E m \in Messages, b \in Activities : Start(a, m, b)
    \/ \E m \in Messages, p \in Messages : Notify(a, m, p)
    \/ Receive(a)
    \/ NotifyNext(a)
    \/ Call(a)
    \/ Return(a)
    \/ Fail(a)
    \/ TellMessage(a)
    \/ Trap(a)
    \/ PassOn(a)

Next == \E a \in Activities : Step(a)

Spec == Init /\ [][Next]_vars

-----------------------------------------------------------------------------
(* What makes message objects correct.                                     *)

Completed == resultReturned \cup raiseError

\* A message completes in one way: an error that comes later, out of the
\* activation that sent it or out of a party that it notifies, does not turn
\* its result into a failure.
ResultOrError == resultReturned \cap raiseError = {}

\* A message that counts all its parties as notified has sent every one of
\* them, those included that NOTIFY listed, from whatever activity, while the
\* notifications were under way: NOTIFY sends the next one at once.
AllNotifiedAreSent ==
    \A m \in allNotified : ToSet(interestedParties[m]) \subseteq msgSent

\* While the method of a message has an activation, an error that unwinds it
\* comes by an activation which tells the message, whatever other messages
\* that activation sends in the meantime.
FailureReachesMessage ==
    \A a \in Activities : \A i \in 1..(Len(stack[a]) - 1) :
        /\ stack[a][i].kind = "send"
        /\ stack[a][i + 1].kind = "act"
        /\ stack[a][i].message \notin Completed
        => stack[a][Max(Acts(stack[a], i))].objnotify = stack[a][i].message

\* A started message is sent by the activity that START chose for it and by
\* no other, however SEND, START and the thread's first turn interleave.
StartIsHonoured ==
    [][\A m \in startPending : startActivity'[m] = startActivity[m]]_vars

\* What RexxNativeActivation::trap says: "Message objects, they need to know
\* about conditions so cleanups can be done".  A message that SEND got as
\* far as a receiver and that is no longer being sent has completed.
SentIsAnswered ==
    (\A a \in Activities : AtBoundary(a)) =>
        \A m \in Messages \ (startPending \cup Completed) :
            startActivity[m] # None => \E a \in Activities : Sending(m) \in ToSet(stack[a])

=============================================================================
