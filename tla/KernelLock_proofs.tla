-------------------------- MODULE KernelLock_proofs --------------------------
(***************************************************************************)
(* For any set of activities, and whether or not a condition wait may      *)
(* return by itself, the kernel lock excludes and is never taken twice.    *)
(* What spurious wakeups break is the order of the line (KernelLock),      *)
(* not the exclusion.                                                      *)
(***************************************************************************)
EXTENDS KernelLock, FiniteSetTheorems, SequenceTheorems, WellFoundedInduction, TLAPS

\* The mutex is owned by the one thread that is at a holding location, once.
OwnerHolds ==
    /\ \A a \in Activities : pc[a] \in Holding <=> mutexOwner = a
    /\ mutexCount = IF mutexOwner = None THEN 0 ELSE 1

\* The look of relinquish at the line is still true when it joins: only the
\* owner of the mutex takes anybody off the line.
SomebodyAhead == \A a \in Activities : pc[a] = "rejoin" => firstWaitingActivity # None

CurrentIsInside == \A a \in Activities : pc[a] = "inside" => CurrentActivity = a

\* The inductive invariant.
IInv == TypeOK /\ OwnerHolds /\ SomebodyAhead /\ CurrentIsInside

\* No mutex is locked initially.
LEMMA InitIInv == Init => IInv
BY NoneAssumption DEF Init, IInv, TypeOK, OwnerHolds, SomebodyAhead, CurrentIsInside, Locations, Holding

\* One step of one thread.
LEMMA StepIInv ==
    ASSUME NEW a \in Activities, IInv, Step(a)
    PROVE  IInv'
<1> USE NoneAssumption DEF IInv, OwnerHolds, SomebodyAhead, CurrentIsInside, Holding
<1> USE DEF TypeOK, Locations, Goto, RequestMutex, ReleaseMutex, mutex, line, waits
<1>1. CASE LockForNewActivity(a)
      BY <1>1 DEF LockForNewActivity
<1>2. CASE UnlockNewActivity(a)
      BY <1>2 DEF UnlockNewActivity
<1>3. CASE EnterKernel(a)
      BY <1>3 DEF EnterKernel
<1>4. CASE RequestKernel(a)
      BY <1>4 DEF RequestKernel
<1>5. CASE TryKernel(a)
      BY <1>5 DEF TryKernel
<1>6. CASE JoinLine(a)
  <2>1. CASE BecomeHead(a)
        BY <1>6, <2>1 DEF JoinLine, BecomeHead
  <2>2. CASE ChainBehind(a, "queued")
    <3>1. TypeOK'
          BY <1>6, <2>2 DEF JoinLine, ChainBehind
    <3>2. (OwnerHolds /\ SomebodyAhead /\ CurrentIsInside)'
          BY <1>6, <2>2 DEF JoinLine, ChainBehind
    <3>. QED  BY <3>1, <3>2
  <2>. QED  BY <1>6, <2>1, <2>2 DEF JoinLine
<1>7. CASE RejoinLine(a)
  <2>1. ~BecomeHead(a)
        BY <1>7 DEF RejoinLine, BecomeHead
  <2>2. ChainBehind(a, "handover")
        BY <1>7, <2>1 DEF RejoinLine
  <2>3. TypeOK'
        BY <1>7, <2>2 DEF RejoinLine, ChainBehind
  <2>4. (OwnerHolds /\ SomebodyAhead /\ CurrentIsInside)'
        BY <1>7, <2>2 DEF RejoinLine, ChainBehind
  <2>. QED  BY <2>3, <2>4
<1>8. CASE HandOver(a)
      BY <1>8 DEF HandOver
<1>9. CASE WaitKernelReturns(a)
      BY <1>9 DEF WaitKernelReturns
<1>10. CASE LockKernel(a)
      BY <1>10 DEF LockKernel
<1>11. CASE Dequeue(a)
      BY <1>11 DEF Dequeue, NextHead
<1>12. CASE ReleaseKernel(a)
      BY <1>12 DEF ReleaseKernel
<1>13. CASE Relinquish(a)
      BY <1>13 DEF Relinquish
<1>14. CASE WaitReserve(a)
      BY <1>14 DEF WaitReserve
<1>15. CASE WaitReserveReturns(a)
      BY <1>15 DEF WaitReserveReturns
<1>16. CASE \E b \in Activities : PostResourceWaiter(a, b)
      BY <1>16 DEF PostResourceWaiter
<1>. QED
     BY <1>1, <1>2, <1>3, <1>4, <1>5, <1>6, <1>7, <1>8, <1>9, <1>10, <1>11,
        <1>12, <1>13, <1>14, <1>15, <1>16 DEF Step

\* Type correctness and the ownership of the mutex, from every step.
THEOREM Invariance == Spec => []IInv
<1>1. IInv /\ [Next]_vars => IInv'
  <2>1. CASE UNCHANGED vars
        BY <2>1 DEF IInv, TypeOK, OwnerHolds, SomebodyAhead, CurrentIsInside, vars, mutex, line, waits
  <2>2. CASE Next
        BY <2>2, StepIInv DEF Next
  <2>. QED  BY <2>1, <2>2
<1>. QED  BY InitIInv, <1>1, PTL DEF Spec

\* Every reachable state is of the declared types: in particular the
\* recursion count of the mutex never drops below zero.
THEOREM TypeCorrect == Spec => []TypeOK
BY Invariance, PTL DEF IInv

\* Only the owner of kernel_semaphore runs kernel code, and CurrentActivity
\* is its activity.
THEOREM Exclusion == Spec => []MutualExclusion
<1>1. IInv => MutualExclusion
      BY DEF IInv, OwnerHolds, CurrentIsInside, MutualExclusion
<1>. QED  BY Invariance, <1>1, PTL

\* relinquish, yield and requestKernel never lock the recursive mutex twice:
\* the one MTXRL of releaseKernel or of the hand over always frees it.
THEOREM LockedOnce == Spec => []NeverLockedTwice
<1>1. ASSUME IInv PROVE NeverLockedTwice
  <2>. DEFINE H == {a \in Activities : pc[a] \in Holding}
  <2>1. CASE mutexOwner = None
    <3>1. H = {}
          BY <1>1, <2>1, NoneAssumption DEF IInv, OwnerHolds
    <3>. QED  BY <1>1, <2>1, <3>1, FS_EmptySet DEF IInv, OwnerHolds, NeverLockedTwice
  <2>2. CASE mutexOwner # None
    <3>1. H = {mutexOwner}
          BY <1>1, <2>2 DEF IInv, OwnerHolds, TypeOK
    <3>. QED  BY <1>1, <2>2, <3>1, FS_Singleton DEF IInv, OwnerHolds, NeverLockedTwice
  <2>. QED  BY <2>1, <2>2
<1>. QED  BY Invariance, <1>1, PTL

-----------------------------------------------------------------------------
(* The order of the line, as long as no condition wait returns by itself:  *)
(* the chain holds those who wait, in the order they came, and nobody but  *)
(* its head is awake.                                                      *)

\* The links of the chain follow the sequence c, which holds each activity in
\* line once and ends where lastWaitingActivity points.
Links(c) ==
    /\ \A i, j \in 1..Len(c) : c[i] = c[j] => i = j
    /\ \A a \in Activities : pc[a] \in Lined <=> \E i \in 1..Len(c) : c[i] = a
    /\ firstWaitingActivity = IF c = <<>> THEN None ELSE c[1]
    /\ lastWaitingActivity = IF c = <<>> THEN None ELSE c[Len(c)]
    /\ \A i \in 1..Len(c) - 1 : nextWaitingActivity[c[i]] = c[i + 1]
    /\ \A a \in Activities :
          pc[a] \notin Lined \/ a = lastWaitingActivity => nextWaitingActivity[a] = None

LineInv ==
    /\ \E c \in Seq(Activities) : Links(c)
    /\ OnlyHeadAwake
    /\ ListedWhileAsleep

\* Nobody waits initially.
LEMMA InitLine == Init => LineInv
<1>. SUFFICES ASSUME Init PROVE LineInv
     OBVIOUS
<1>1. Links(<<>>)
      BY DEF Init, Links, Lined
<1>2. <<>> \in Seq(Activities)
      OBVIOUS
<1>. QED  BY <1>1, <1>2 DEF Init, LineInv, OnlyHeadAwake, ListedWhileAsleep, Lined

\* Who joins behind others becomes the last of them.
LEMMA JoinKeepsLinks ==
    ASSUME NEW a \in Activities, NEW then \in Lined, pc[a] \notin Lined,
           IInv, ChainBehind(a, then),
           NEW c \in Seq(Activities), Links(c)
    PROVE  /\ c # <<>>
           /\ Append(c, a) \in Seq(Activities)
           /\ Links(Append(c, a))'
<1>. DEFINE d == Append(c, a)
<1>1. Links(c)
      OBVIOUS
<1>2. c # <<>> /\ Len(c) \in Nat \ {0} /\ lastWaitingActivity = c[Len(c)]
      BY <1>1, NoneAssumption, EmptySeq DEF ChainBehind, Links
<1>3. /\ d \in Seq(Activities) /\ d # <<>> /\ Len(d) = Len(c) + 1
      /\ \A i \in 1..Len(c) : d[i] = c[i]
      /\ d[Len(c) + 1] = a
      BY AppendProperties
<1>4. \A i \in 1..Len(c) : c[i] \in Activities /\ c[i] # a /\ pc[c[i]] \in Lined
      BY <1>1, ElementOfSeq DEF Links
<1>. HIDE DEF d
<1>5. /\ 1..Len(d) = 1..Len(c) \cup {Len(c) + 1}
      /\ \A i \in 1..Len(d) : d[i] = a <=> i = Len(c) + 1
  <2>1. 1..Len(d) = 1..Len(c) \cup {Len(c) + 1}
        BY <1>2, <1>3
  <2>. QED  BY <1>3, <1>4, <2>1
<1>6. Links(d)'
  <2>. USE DEF Links, IInv, TypeOK, ChainBehind, Goto
  <2>1. ASSUME NEW i \in 1..Len(d), NEW j \in 1..Len(d), d[i] = d[j] PROVE i = j
    <3>1. CASE i = Len(c) + 1 \/ j = Len(c) + 1
          BY <1>5, <2>1, <3>1
    <3>2. CASE i # Len(c) + 1 /\ j # Len(c) + 1
      <4>1. i \in 1..Len(c) /\ j \in 1..Len(c)
            BY <1>5, <3>2
      <4>2. c[i] = c[j]
            BY <1>3, <2>1, <4>1
      <4>. QED  BY <1>1, <4>1, <4>2
    <3>. QED  BY <3>1, <3>2
  <2>2. \A b \in Activities : pc'[b] \in Lined <=> \E i \in 1..Len(d) : d[i] = b
    <3>1. pc'[a] \in Lined /\ \E i \in 1..Len(d) : d[i] = a
          BY <1>2, <1>3, <1>5
    <3>2. ASSUME NEW b \in Activities \ {a}
          PROVE  /\ pc'[b] = pc[b]
                 /\ (\E i \in 1..Len(d) : d[i] = b) <=> \E i \in 1..Len(c) : c[i] = b
          BY <1>3, <1>5
    <3>3. ASSUME NEW b \in Activities
          PROVE  pc'[b] \in Lined <=> \E i \in 1..Len(d) : d[i] = b
      <4>1. CASE b = a
            BY <3>1, <4>1
      <4>2. CASE b # a
        <5>1. pc[b] \in Lined <=> \E i \in 1..Len(c) : c[i] = b
              BY <1>1
        <5>2. pc'[b] = pc[b]
              BY <3>2, <4>2
        <5>3. (\E i \in 1..Len(d) : d[i] = b) <=> \E i \in 1..Len(c) : c[i] = b
              BY <3>2, <4>2
        <5>. QED  BY <5>1, <5>2, <5>3
      <4>. QED  BY <4>1, <4>2
    <3>. QED  BY <3>3
  <2>3. firstWaitingActivity' = d[1] /\ lastWaitingActivity' = d[Len(d)]
        BY <1>1, <1>2, <1>3
  <2>4. ASSUME NEW i \in 1..Len(d) - 1 PROVE nextWaitingActivity'[d[i]] = d[i + 1]
    <3>1. CASE i = Len(c)
          BY <1>1, <1>2, <1>3, <1>4, <3>1
    <3>2. CASE i # Len(c)
      <4>1. i \in 1..Len(c) - 1 /\ i \in 1..Len(c) /\ i + 1 \in 1..Len(c)
            BY <1>2, <1>3, <3>2
      <4>2. nextWaitingActivity[c[i]] = c[i + 1] /\ d[i] = c[i] /\ d[i + 1] = c[i + 1]
            BY <1>1, <1>3, <4>1
      <4>3. c[i] # c[Len(c)] /\ c[i] # a
            BY <1>1, <1>2, <1>4, <3>2, <4>1
      <4>. QED  BY <1>2, <4>2, <4>3
    <3>. QED  BY <3>1, <3>2
  <2>5. \A b \in Activities :
           pc'[b] \notin Lined \/ b = lastWaitingActivity' => nextWaitingActivity'[b] = None
        BY <1>1, <1>2, <1>3, <1>4
  <2>. QED  BY <1>3, <2>1, <2>2, <2>3, <2>4, <2>5
<1>. QED  BY <1>2, <1>3, <1>6 DEF d

\* The head that has dechained leaves the others as they stood.
LEMMA DequeueKeepsLinks ==
    ASSUME NEW a \in Activities, IInv, LineInv, Dequeue(a),
           NEW c \in Seq(Activities), Links(c)
    PROVE  /\ c # <<>> /\ a = c[1]
           /\ Tail(c) \in Seq(Activities)
           /\ Links(Tail(c))'
<1>1. Links(c)
      OBVIOUS
<1>2. c # <<>> /\ Len(c) \in Nat \ {0} /\ a = c[1] /\ firstWaitingActivity = a
      BY <1>1, NoneAssumption, EmptySeq DEF LineInv, OnlyHeadAwake, Links, Dequeue, Lined
<1>. DEFINE d == Tail(c)
<1>3. /\ d \in Seq(Activities) /\ Len(d) = Len(c) - 1
      /\ \A i \in 1..Len(d) : d[i] = c[i + 1]
      BY <1>2, HeadTailProperties
<1>. HIDE DEF d
<1>4. d = <<>> <=> Len(c) = 1
  <2>1. d = <<>> <=> Len(d) = 0
        BY <1>3, EmptySeq
  <2>. QED  BY <1>2, <1>3, <2>1
<1>5. \A i \in 1..Len(c) : c[i] \in Activities /\ pc[c[i]] \in Lined
      BY <1>1, ElementOfSeq DEF Links
<1>6. NextHead = IF d = <<>> THEN None ELSE d[1]
      BY <1>1, <1>2, <1>3, <1>4 DEF Links, NextHead
<1>7. Links(d)'
  <2>. USE DEF Links, IInv, TypeOK, Goto, Dequeue
  <2>1. \A i, j \in 1..Len(d) : d[i] = d[j] => i = j
        BY <1>1, <1>2, <1>3
  <2>2. \A b \in Activities : pc'[b] \in Lined <=> \E i \in 1..Len(d) : d[i] = b
    <3>1. ASSUME NEW b \in Activities, NEW i \in 1..Len(d), d[i] = b PROVE pc'[b] \in Lined
          BY <1>1, <1>2, <1>3, <1>5, <3>1
    <3>2. ASSUME NEW b \in Activities, pc'[b] \in Lined PROVE \E i \in 1..Len(d) : d[i] = b
      <4>1. b # a /\ pc[b] \in Lined
            BY <3>2 DEF Lined
      <4>2. PICK j \in 1..Len(c) : c[j] = b
            BY <1>1, <4>1
      <4>3. j # 1
            BY <1>2, <4>1, <4>2
      <4>4. j - 1 \in 1..Len(d) /\ d[j - 1] = b
            BY <1>2, <1>3, <4>2, <4>3
      <4>. QED  BY <4>4
    <3>. QED  BY <3>1, <3>2
  <2>3. firstWaitingActivity' = IF d = <<>> THEN None ELSE d[1]
        BY <1>2, <1>6, NoneAssumption
  <2>4. lastWaitingActivity' = IF d = <<>> THEN None ELSE d[Len(d)]
    <3>1. d # <<>> => NextHead # None
          BY <1>2, <1>3, <1>4, <1>5, <1>6, NoneAssumption
    <3>2. d # <<>> => d[Len(d)] = c[Len(c)]
          BY <1>2, <1>3, <1>4
    <3>. QED  BY <1>1, <1>2, <1>6, <3>1, <3>2, NoneAssumption
  <2>5. \A i \in 1..Len(d) - 1 : nextWaitingActivity'[d[i]] = d[i + 1]
        BY <1>1, <1>2, <1>3
  <2>6. \A b \in Activities :
           pc'[b] \notin Lined \/ b = lastWaitingActivity' => nextWaitingActivity'[b] = None
        BY <1>1, <1>2, <1>3, <1>4, <1>5, <2>4 DEF Lined
  <2>. QED  BY <2>1, <2>2, <2>3, <2>4, <2>5, <2>6
<1>. QED  BY <1>2, <1>3, <1>7 DEF d

\* firstWaitingActivity stands for whether anybody is in line, and the head
\* and the one behind it are in line.
LEMMA LineFacts ==
    ASSUME IInv, LineInv
    PROVE  /\ firstWaitingActivity = None => \A a \in Activities : pc[a] \notin Lined
           /\ firstWaitingActivity # None =>
                 /\ firstWaitingActivity \in Activities
                 /\ pc[firstWaitingActivity] \in Lined
                 /\ NextHead # None => NextHead \in Activities /\ pc[NextHead] \in Lined
<1>1. PICK c \in Seq(Activities) : Links(c)
      BY DEF LineInv
<1>2. \A i \in 1..Len(c) : c[i] \in Activities /\ pc[c[i]] \in Lined
      BY <1>1, ElementOfSeq DEF Links
<1>3. CASE c = <<>>
      BY <1>1, <1>3 DEF Links
<1>4. CASE c # <<>>
  <2>1. Len(c) \in Nat \ {0} /\ 1 \in 1..Len(c) /\ firstWaitingActivity = c[1]
        BY <1>1, <1>4, EmptySeq DEF Links
  <2>2. firstWaitingActivity # None
        BY <1>2, <2>1, NoneAssumption
  <2>3. NextHead # None => NextHead \in Activities /\ pc[NextHead] \in Lined
    <3>1. CASE Len(c) = 1
      <4>1. firstWaitingActivity = lastWaitingActivity /\ firstWaitingActivity \in Activities
            BY <1>1, <1>2, <1>4, <2>1, <3>1 DEF Links
      <4>. QED  BY <1>1, <4>1 DEF Links, NextHead
    <3>2. CASE Len(c) # 1
      <4>1. 1 \in 1..Len(c) - 1 /\ 2 \in 1..Len(c)
        <5>1. Len(c) \in Nat
              OBVIOUS
        <5>2. Len(c) # 0
              BY <2>1
        <5>3. Len(c) >= 2
              BY <3>2, <5>1, <5>2
        <5>. QED  BY <5>1, <5>3
      <4>2. NextHead = c[1 + 1]
            BY <1>1, <2>1, <4>1 DEF Links, NextHead
      <4>. QED  BY <1>2, <4>1, <4>2
    <3>. QED  BY <3>1, <3>2
  <2>. QED  BY <1>2, <2>1, <2>2, <2>3
<1>. QED  BY <1>3, <1>4

\* The other steps leave the chain and those in line as they are.
LEMMA SameLinks ==
    ASSUME UNCHANGED line, \A a \in Activities : pc'[a] \in Lined <=> pc[a] \in Lined,
           NEW c \in Seq(Activities), Links(c)
    PROVE  Links(c)'
BY DEF Links, line

\* Who finds nobody in line is the whole line.
LEMMA HeadLinks ==
    ASSUME NEW a \in Activities, BecomeHead(a), IInv,
           NEW c \in Seq(Activities), Links(c)
    PROVE  c = <<>> /\ Links(<<a>>)'
<1>1. c = <<>>
      BY NoneAssumption, EmptySeq, ElementOfSeq DEF BecomeHead, Links
<1>2. Links(<<a>>)'
      BY <1>1 DEF BecomeHead, Links, IInv, TypeOK, Lined, Goto
<1>. QED  BY <1>1, <1>2

\* Both kinds of waiting share one run semaphore, and each activity waits in
\* one of them at most.
LEMMA StepLine ==
    ASSUME SpuriousWakeups = FALSE, NEW a \in Activities, IInv, LineInv, Step(a)
    PROVE  LineInv'
<1>. USE NoneAssumption DEF IInv, TypeOK, OnlyHeadAwake, ListedWhileAsleep, Lined, Goto, line, waits
<1>0. firstWaitingActivity = None => \A b \in Activities : pc[b] \notin Lined
      BY LineFacts
<1>1. CASE JoinLine(a)
  <2>1. CASE BecomeHead(a)
    <3>1. \E d \in Seq(Activities) : Links(d)'
      <4>1. Links(<<a>>)'
            BY <2>1, HeadLinks DEF LineInv
      <4>2. <<a>> \in Seq(Activities)
            OBVIOUS
      <4>. QED  BY <4>1, <4>2
    <3>2. OnlyHeadAwake'
          BY <1>0, <1>1, <2>1 DEF JoinLine, BecomeHead, LineInv
    <3>3. ListedWhileAsleep'
          BY <1>1, <2>1 DEF JoinLine, BecomeHead, LineInv
    <3>. QED  BY <3>1, <3>2, <3>3 DEF LineInv
  <2>2. CASE ChainBehind(a, "queued")
    <3>1. \E c \in Seq(Activities) : Links(c)'
          BY <1>1, <2>2, JoinKeepsLinks DEF JoinLine, LineInv
    <3>2. a # firstWaitingActivity
          BY <1>1, <2>2, LineFacts DEF JoinLine, ChainBehind
    <3>3. OnlyHeadAwake'
          BY <1>1, <2>2, <3>2 DEF JoinLine, ChainBehind, LineInv
    <3>4. ListedWhileAsleep'
          BY <1>1, <2>2 DEF JoinLine, ChainBehind, LineInv
    <3>. QED  BY <3>1, <3>3, <3>4 DEF LineInv
  <2>. QED  BY <1>1, <2>1, <2>2 DEF JoinLine
<1>2. CASE RejoinLine(a)
  <2>1. ChainBehind(a, "handover")
        BY <1>2 DEF RejoinLine, BecomeHead, SomebodyAhead
  <2>2. \E c \in Seq(Activities) : Links(c)'
        BY <1>2, <2>1, JoinKeepsLinks DEF RejoinLine, LineInv
  <2>3. a # firstWaitingActivity
        BY <1>2, <2>1, LineFacts DEF RejoinLine, ChainBehind
  <2>4. OnlyHeadAwake'
        BY <1>2, <2>1, <2>3 DEF RejoinLine, ChainBehind, LineInv
  <2>5. ListedWhileAsleep'
        BY <1>2, <2>1 DEF RejoinLine, ChainBehind, LineInv
  <2>. QED  BY <2>2, <2>4, <2>5 DEF LineInv
<1>3. CASE Dequeue(a)
  <2>1. \E c \in Seq(Activities) : Links(c)'
        BY <1>3, DequeueKeepsLinks DEF LineInv
  <2>2. pc[a] = "dequeue" /\ firstWaitingActivity = a /\ firstWaitingActivity' = NextHead
    <3>1. firstWaitingActivity = a
          BY <1>3 DEF Dequeue, LineInv
    <3>. QED  BY <1>3, <3>1 DEF Dequeue
  <2>3. \A b \in Activities :
           /\ runsem'[b] <=> (b = NextHead \/ runsem[b])
           /\ waitingObject'[b] <=> (b # NextHead /\ waitingObject[b])
    <3>1. /\ runsem' = [b \in Activities |-> b = NextHead \/ runsem[b]]
          /\ waitingObject' = [b \in Activities |-> b # NextHead /\ waitingObject[b]]
          BY <1>3, <2>2 DEF Dequeue
    <3>. QED  BY <3>1, Zenon
  <2>4. pc' = [pc EXCEPT ![a] = "inside"] /\ UNCHANGED resourceWaiters
        BY <1>3 DEF Dequeue
  <2>5. OnlyHeadAwake'
    <3>1. ASSUME NEW b \in Activities, pc'[b] \in Lined
          PROVE  b # a /\ pc'[b] = pc[b] /\ ~runsem[b] /\ pc[b] \notin {"lock", "dequeue"}
      <4>1. b # a /\ pc'[b] = pc[b]
            BY <2>4, <3>1
      <4>. QED  BY <2>2, <3>1, <4>1 DEF LineInv
    <3>. QED  BY <2>2, <2>3, <3>1
  <2>6. ListedWhileAsleep'
    <3>1. NextHead \in Activities => pc[NextHead] \in Lined
          BY <2>2, LineFacts
    <3>2. ASSUME NEW b \in Activities
          PROVE  /\ b \in resourceWaiters' <=> (pc'[b] = "parked" /\ ~runsem'[b])
                 /\ b \in resourceWaiters' <=> waitingObject'[b]
      <4>1. CASE b = NextHead
        <5>1. pc[b] # "parked" /\ pc'[b] # "parked"
              BY <2>2, <2>4, <3>1, <4>1
        <5>. QED  BY <2>3, <2>4, <4>1, <5>1 DEF LineInv
      <4>2. CASE b # NextHead
        <5>1. pc'[b] = "parked" <=> pc[b] = "parked"
              BY <2>2, <2>4
        <5>. QED  BY <2>3, <2>4, <4>2, <5>1 DEF LineInv
      <4>. QED  BY <4>1, <4>2
    <3>. QED  BY <3>2
  <2>. QED  BY <2>1, <2>5, <2>6 DEF LineInv
<1>4. CASE ~(JoinLine(a) \/ RejoinLine(a) \/ Dequeue(a))
  <2>1. UNCHANGED line /\ \A b \in Activities : pc'[b] \in Lined <=> pc[b] \in Lined
        BY <1>4 DEF Step, LockForNewActivity, UnlockNewActivity, EnterKernel, RequestKernel, TryKernel,
                    HandOver, WaitKernelReturns, LockKernel, ReleaseKernel, Relinquish, WaitReserve,
                    WaitReserveReturns, PostResourceWaiter
  <2>2. \E c \in Seq(Activities) : Links(c)'
        BY <2>1, SameLinks DEF LineInv
  <2>3. OnlyHeadAwake' /\ ListedWhileAsleep'
    <3>1. CASE LockForNewActivity(a) \/ UnlockNewActivity(a) \/ EnterKernel(a) \/ RequestKernel(a) \/ TryKernel(a)
          BY <3>1 DEF LockForNewActivity, UnlockNewActivity, EnterKernel, RequestKernel, TryKernel, LineInv
    <3>2. CASE HandOver(a) \/ WaitKernelReturns(a) \/ LockKernel(a)
          BY <3>2 DEF HandOver, WaitKernelReturns, WaitReturns, LockKernel, LineInv
    <3>3. CASE ReleaseKernel(a) \/ Relinquish(a) \/ WaitReserveReturns(a)
          BY <3>3 DEF ReleaseKernel, Relinquish, WaitReserveReturns, WaitReturns, LineInv
    <3>4. CASE WaitReserve(a)
          BY <3>4 DEF WaitReserve, LineInv
    <3>5. CASE \E b \in Activities : PostResourceWaiter(a, b)
          BY <3>5 DEF PostResourceWaiter, LineInv
    <3>. QED  BY <1>4, <3>1, <3>2, <3>3, <3>4, <3>5 DEF Step
  <2>. QED  BY <2>2, <2>3 DEF LineInv
<1>. QED  BY <1>1, <1>2, <1>3, <1>4

\* The order of the line, from every step.
THEOREM LineInvariance ==
    ASSUME SpuriousWakeups = FALSE
    PROVE  Spec => []LineInv
<1>1. IInv /\ LineInv /\ [Next]_vars => LineInv'
  <2>. SUFFICES ASSUME IInv, LineInv, [Next]_vars PROVE LineInv'
       OBVIOUS
  <2>1. CASE UNCHANGED vars
    <3>1. \E c \in Seq(Activities) : Links(c)'
          BY <2>1, SameLinks DEF LineInv, vars
    <3>2. OnlyHeadAwake' /\ ListedWhileAsleep'
          BY <2>1 DEF LineInv, OnlyHeadAwake, ListedWhileAsleep, vars, line, waits
    <3>. QED  BY <3>1, <3>2 DEF LineInv
  <2>2. CASE Next
        BY <2>2, StepLine DEF Next
  <2>. QED  BY <2>1, <2>2
<1>. QED  BY InitLine, Invariance, <1>1, PTL DEF Spec

\* No wakeup of the line is lost and none comes early, for any number of
\* threads: exactly the head of the line is awake.
THEOREM HeadAwake ==
    ASSUME SpuriousWakeups = FALSE
    PROVE  Spec => []OnlyHeadAwake
<1>1. LineInv => OnlyHeadAwake
      BY DEF LineInv
<1>. QED  BY LineInvariance, <1>1, PTL

\* The run semaphore shared by the line and the resource waits never mixes
\* them up: exactly the sleepers of waitReserve are on a wait list.
THEOREM AsleepIffListed ==
    ASSUME SpuriousWakeups = FALSE
    PROVE  Spec => []ListedWhileAsleep
<1>1. LineInv => ListedWhileAsleep
      BY DEF LineInv
<1>. QED  BY LineInvariance, <1>1, PTL

-----------------------------------------------------------------------------
(* Chain, which follows the pointers, yields the sequence the links are    *)
(* about.  It counts activities, so they have to be finitely many.         *)

\* Every set of numbers has a least element.
LEMMA Least ==
    ASSUME NEW T \in SUBSET Nat, T # {}
    PROVE  \E x \in T : \A y \in T : x <= y
<1>. DEFINE R == {p \in Nat \X Nat : p[1] < p[2]}
<1>1. IsWellFoundedOn(R, Nat)
      BY NatLessThanWellFounded DEF OpToRel
<1>2. PICK x \in T : \A y \in T : <<y, x>> \notin R
  <2>. HIDE DEF R
  <2>. QED  BY <1>1, WFMin
<1>3. ASSUME NEW y \in T PROVE x <= y
  <2>1. <<y, x>> \notin R
        BY <1>2
  <2>2. y \in Nat /\ x \in Nat
        OBVIOUS
  <2>3. ~(y < x)
        BY <2>1, <2>2
  <2>. QED  BY <2>2, <2>3
<1>. QED  BY <1>3

\* 1..n has n elements.
LEMMA UpTo ==
    ASSUME NEW n \in Nat
    PROVE  IsFiniteSet(1..n) /\ Cardinality(1..n) = n
<1>1. IsFiniteSet(1..n) /\ Cardinality(1..n) = IF 1 > n THEN 0 ELSE n - 1 + 1
      BY FS_Interval
<1>. QED  BY <1>1

\* A chain of distinct activities is not longer than there are activities.
LEMMA LinksBounded ==
    ASSUME IsFiniteSet(Activities), NEW c \in Seq(Activities), Links(c)
    PROVE  /\ Cardinality(Activities) \in Nat /\ Len(c) \in Nat
           /\ Len(c) <= Cardinality(Activities)
           /\ Cardinality({a \in Activities : pc[a] \in Lined}) = Len(c)
           /\ {c[i] : i \in DOMAIN c} = {a \in Activities : pc[a] \in Lined}
<1>. DEFINE Q == {a \in Activities : pc[a] \in Lined}
<1>1. /\ Len(c) \in Nat /\ DOMAIN c = 1..Len(c) /\ c \in [1..Len(c) -> Activities]
      /\ \A i \in 1..Len(c) : c[i] \in Activities
      BY LenProperties
<1>2. {c[i] : i \in 1..Len(c)} = Q
      BY <1>1 DEF Links
<1>3. c \in Bijection(1..Len(c), Q)
      BY <1>1, <1>2 DEF Links, Bijection, Injection, Surjection, IsInjective
<1>4. Cardinality(Q) = Len(c)
  <2>1. ExistsBijection(1..Len(c), Q)
        BY <1>3 DEF ExistsBijection
  <2>2. IsFiniteSet(1..Len(c)) /\ Cardinality(1..Len(c)) = Len(c)
        BY <1>1, UpTo
  <2>. QED  BY <2>1, <2>2, FS_Bijection
<1>5. Cardinality(Q) <= Cardinality(Activities)
      BY FS_Subset
<1>6. Cardinality(Activities) \in Nat
      BY FS_CardinalityType
<1>. QED  BY <1>1, <1>2, <1>4, <1>5, <1>6

\* Following the pointers meets the activities of the chain and then nobody.
LEMMA PlaceFollows ==
    ASSUME IsFiniteSet(Activities), IInv, NEW c \in Seq(Activities), Links(c)
    PROVE  Place = [n \in 1..Cardinality(Activities) |-> IF n <= Len(c) THEN c[n] ELSE None]
<1>. DEFINE K == Cardinality(Activities)
            Follow(f) == [n \in 1..K |-> IF n = 1 THEN firstWaitingActivity
                                         ELSE IF f[n - 1] = None THEN None
                                         ELSE nextWaitingActivity[f[n - 1]]]
            G == [n \in 1..K |-> IF n <= Len(c) THEN c[n] ELSE None]
<1>1. K \in Nat /\ Len(c) \in Nat /\ Len(c) <= K
      BY LinksBounded, Zenon
<1>2. \A i \in 1..Len(c) : c[i] \in Activities /\ c[i] # None
      BY ElementOfSeq, NoneAssumption
<1>. HIDE DEF K
<1>3. G = Follow(G)
  <2>1. ASSUME NEW n \in 1..K PROVE G[n] = Follow(G)[n]
    <3>1. CASE n = 1
      <4>1. c = <<>> <=> Len(c) = 0
            BY EmptySeq
      <4>. QED  BY <1>1, <3>1, <4>1 DEF Links
    <3>2. CASE n # 1 /\ n - 1 > Len(c)
          BY <1>1, <3>2
    <3>3. CASE n # 1 /\ n - 1 = Len(c)
      <4>1. /\ n - 1 \in 1..K /\ G[n - 1] = c[Len(c)] /\ G[n] = None
            /\ c[Len(c)] \in Activities /\ c[Len(c)] # None /\ c # <<>>
            BY <1>1, <1>2, <3>3, EmptySeq
      <4>2. nextWaitingActivity[c[Len(c)]] = None
            BY <4>1 DEF Links
      <4>. QED  BY <3>3, <4>1, <4>2
    <3>4. CASE n # 1 /\ n <= Len(c)
      <4>1. /\ n - 1 \in 1..Len(c) - 1 /\ n - 1 \in 1..K /\ (n - 1) + 1 = n
            /\ G[n - 1] = c[n - 1] /\ G[n] = c[n] /\ c[n - 1] # None
            BY <1>1, <1>2, <3>4
      <4>2. nextWaitingActivity[c[n - 1]] = c[n]
            BY <4>1 DEF Links
      <4>. QED  BY <3>4, <4>1, <4>2
    <3>. QED  BY <1>1, <3>1, <3>2, <3>3, <3>4
  <2>. QED  BY <2>1
<1>4. ASSUME NEW f, f = Follow(f) PROVE f = G
  <2>1. ASSUME NEW m \in 1..K, f[m] # G[m] PROVE FALSE
    <3>. DEFINE T == {n \in 1..K : f[n] # G[n]}
    <3>1. PICK x \in T : \A y \in T : x <= y
      <4>1. T \in SUBSET Nat
            BY <1>1
      <4>2. m \in T
            BY <2>1, Zenon
      <4>. HIDE DEF T
      <4>. QED  BY <4>1, <4>2, Least
    <3>2. x # 1
      <4>1. x \in 1..K /\ f[x] # G[x]
            BY <3>1
      <4>2. Follow(f)[x] # Follow(G)[x]
            BY <1>3, <1>4, <4>1
      <4>3. x = 1 => Follow(f)[x] = Follow(G)[x]
            BY <4>1
      <4>. QED  BY <4>2, <4>3
    <3>3. x - 1 \in 1..K /\ x - 1 \notin T
          BY <1>1, <3>1, <3>2
    <3>4. f[x - 1] = G[x - 1]
          BY <3>3
    <3>5. Follow(f)[x] = Follow(G)[x]
          BY <3>1, <3>4
    <3>. QED  BY <1>3, <1>4, <3>1, <3>5
  <2>. QED  BY <1>4, <2>1
<1>5. Place = CHOOSE f : f = Follow(f)
      BY DEF Place, K
<1>. HIDE DEF G, Follow
<1>6. Place = G
      BY <1>3, <1>4, <1>5
<1>. QED  BY <1>6 DEF G, K

\* Chain is the sequence that the links form.
LEMMA ChainIsLinks ==
    ASSUME IsFiniteSet(Activities), IInv, NEW c \in Seq(Activities), Links(c)
    PROVE  Chain = c
<1>. DEFINE K == Cardinality(Activities)
<1>1. K \in Nat /\ Len(c) \in Nat /\ Len(c) <= K
      BY LinksBounded, Zenon
<1>2. \A i \in 1..Len(c) : c[i] \in Activities /\ c[i] # None
      BY ElementOfSeq, NoneAssumption
<1>3. Place = [n \in 1..K |-> IF n <= Len(c) THEN c[n] ELSE None]
      BY PlaceFollows
<1>. HIDE DEF K
<1>4. {m \in DOMAIN Place : Place[m] # None} = 1..Len(c)
      BY <1>1, <1>2, <1>3
<1>5. Cardinality(1..Len(c)) = Len(c)
      BY <1>1, UpTo
<1>6. Chain = [n \in 1..Len(c) |-> Place[n]]
      BY <1>4, <1>5 DEF Chain
<1>7. \A n \in 1..Len(c) : Place[n] = c[n]
      BY <1>1, <1>3
<1>8. c = [n \in 1..Len(c) |-> c[n]]
      BY LenProperties
<1>. QED  BY <1>6, <1>7, <1>8

\* The chain that addWaitingActivity builds and dequeues is a line: it holds
\* those who wait in it, each once, and ends at lastWaitingActivity.
THEOREM LineSound ==
    ASSUME SpuriousWakeups = FALSE, IsFiniteSet(Activities)
    PROVE  Spec => []LineWellFormed
<1>1. IInv /\ LineInv => LineWellFormed
  <2>. SUFFICES ASSUME IInv, LineInv PROVE LineWellFormed
       OBVIOUS
  <2>1. PICK c \in Seq(Activities) : Links(c)
        BY DEF LineInv
  <2>2. Chain = c
        BY <2>1, ChainIsLinks
  <2>3. /\ Cardinality({a \in Activities : pc[a] \in Lined}) = Len(c)
        /\ {c[i] : i \in DOMAIN c} = {a \in Activities : pc[a] \in Lined}
        BY <2>1, LinksBounded
  <2>4. /\ lastWaitingActivity = IF c = <<>> THEN None ELSE c[Len(c)]
        /\ \A a \in Activities :
              pc[a] \notin Lined \/ a = lastWaitingActivity => nextWaitingActivity[a] = None
        BY <2>1 DEF Links
  <2>. QED  BY <2>2, <2>3, <2>4, Zenon DEF LineWellFormed
<1>. QED  BY Invariance, LineInvariance, <1>1, PTL

-----------------------------------------------------------------------------
(* The lock implements KernelTurns: one holder at a time, and admission in *)
(* the order of joining.                                                   *)

\* Chain, which the model finds by following the links from the first, is the
\* sequence that Links describes.
ChainFollows == \A c \in Seq(Activities) : Links(c) => Chain = c

\* It is so in every reachable state.
LEMMA ChainAlwaysFollows ==
    ASSUME IsFiniteSet(Activities)
    PROVE  Spec => []ChainFollows
<1>1. IInv => ChainFollows
      BY ChainIsLinks DEF ChainFollows
<1>. QED  BY Invariance, <1>1, PTL

\* Joining a line and taking its head off commute when there is a head.
LEMMA TailOfAppend ==
    ASSUME NEW c \in Seq(Activities), c # <<>>, NEW a \in Activities
    PROVE  Append(c, a) # <<>> /\ Head(Append(c, a)) = Head(c) /\ Tail(Append(c, a)) = Append(Tail(c), a)
<1>. DEFINE d == Append(c, a)
<1>1. /\ Len(c) \in Nat \ {0} /\ d \in Seq(Activities) /\ d # <<>> /\ Len(d) = Len(c) + 1
      /\ \A i \in 1..Len(c) : d[i] = c[i]
      /\ d[Len(c) + 1] = a
      BY EmptySeq, AppendProperties
<1>2. /\ Tail(c) \in Seq(Activities) /\ Len(Tail(c)) = Len(c) - 1
      /\ \A i \in 1..Len(Tail(c)) : Tail(c)[i] = c[i + 1]
      BY HeadTailProperties
<1>. HIDE DEF d
<1>3. /\ Tail(d) \in Seq(Activities) /\ Len(Tail(d)) = Len(d) - 1
      /\ \A i \in 1..Len(Tail(d)) : Tail(d)[i] = d[i + 1]
      BY <1>1, HeadTailProperties
<1>. DEFINE t == Tail(c)
            e == Append(t, a)
<1>4. /\ e \in Seq(Activities) /\ Len(e) = Len(t) + 1
      /\ \A i \in 1..Len(t) : e[i] = t[i]
      /\ e[Len(t) + 1] = a
      BY <1>2, AppendProperties
<1>. HIDE DEF e, t
<1>5. Tail(d) = e
  <2>1. Len(Tail(d)) = Len(e)
        BY <1>1, <1>2, <1>3, <1>4 DEF t
  <2>2. ASSUME NEW i \in 1..Len(Tail(d)) PROVE Tail(d)[i] = e[i]
    <3>1. CASE i = Len(c)
          BY <1>1, <1>2, <1>3, <1>4, <3>1 DEF t
    <3>2. CASE i # Len(c)
      <4>1. i \in 1..Len(t) /\ i + 1 \in 1..Len(c)
        <5>1. Len(c) \in Nat /\ Len(Tail(d)) = Len(c) /\ Len(t) = Len(c) - 1
              BY <1>1, <1>2, <1>3 DEF t
        <5>. QED  BY <3>2, <5>1
      <4>2. e[i] = c[i + 1]
            BY <1>2, <1>4, <4>1 DEF t
      <4>. QED  BY <1>1, <1>3, <4>1, <4>2
    <3>. QED  BY <3>1, <3>2
  <2>. QED  BY <1>3, <1>4, <2>1, <2>2, SeqEqual
<1>6. Head(d) = Head(c)
      BY <1>1
<1>. QED  BY <1>1, <1>5, <1>6 DEF d, e, t

\* The activities not yet admitted are in line.
LEMMA NotAdmittedInLine ==
    ASSUME NEW a \in Activities, pc[a] \notin Lined, NEW c \in Seq(Activities), Links(c), Chain = c
    PROVE  a \notin Turns!InLine
<1>1. \A i \in 1..Len(c) : c[i] # a
      BY DEF Links
<1>2. DOMAIN c = 1..Len(c)
      BY LenProperties
<1>3. CASE NotAdmitted = c
      BY <1>1, <1>2, <1>3 DEF Turns!InLine
<1>4. CASE c # <<>> /\ NotAdmitted = Tail(c)
  <2>1. /\ Tail(c) \in Seq(Activities) /\ Len(Tail(c)) = Len(c) - 1 /\ Len(c) \in Nat
        /\ \A i \in 1..Len(Tail(c)) : Tail(c)[i] = c[i + 1]
        BY <1>4, HeadTailProperties
  <2>2. DOMAIN Tail(c) = 1..Len(Tail(c))
        BY <2>1, LenProperties
  <2>3. \A i \in DOMAIN Tail(c) : Tail(c)[i] # a
        BY <1>1, <2>1, <2>2
  <2>. QED  BY <1>4, <2>3, Zenon DEF Turns!InLine
<1>. QED  BY <1>3, <1>4 DEF NotAdmitted

\* Whoever joins stands behind all that are not yet admitted.
LEMMA JoinIsJoin ==
    ASSUME NEW a \in Activities, NEW c \in Seq(Activities), Chain = c, Chain' = Append(c, a),
           pc'[a] # "dequeue", \A b \in Activities : pc'[b] = "dequeue" <=> pc[b] = "dequeue"
    PROVE  NotAdmitted' = Append(NotAdmitted, a)
<1>1. CASE c = <<>>
  <2>1. Append(c, a) = <<a>> /\ Head(<<a>>) = a
        BY <1>1
  <2>. QED  BY <1>1, <2>1 DEF NotAdmitted
<1>2. CASE c # <<>>
  <2>1. Head(c) \in Activities
        BY <1>2, HeadTailProperties
  <2>2. Append(c, a) # <<>> /\ Head(Append(c, a)) = Head(c) /\ Tail(Append(c, a)) = Append(Tail(c), a)
        BY <1>2, TailOfAppend
  <2>. QED  BY <1>2, <2>1, <2>2, Zenon DEF NotAdmitted
<1>. QED  BY <1>1, <1>2

\* A step that touches neither the chain nor who is about to dechain is no
\* step of the turns.
LEMMA SameTurns ==
    ASSUME NEW c \in Seq(Activities), Chain = c, Chain' = c,
           \A b \in Activities : pc'[b] = "dequeue" <=> pc[b] = "dequeue"
    PROVE  UNCHANGED NotAdmitted
<1>1. CASE c = <<>>
      BY <1>1 DEF NotAdmitted
<1>2. CASE c # <<>>
  <2>1. Head(c) \in Activities
        BY <1>2, HeadTailProperties
  <2>. QED  BY <1>2, <2>1, Zenon DEF NotAdmitted
<1>. QED  BY <1>1, <1>2

\* Every step is one of KernelTurns, or leaves holder and turns alone.
LEMMA StepTurns ==
    ASSUME SpuriousWakeups = FALSE, NEW a \in Activities, Step(a),
           IInv, IInv', LineInv, ChainFollows, ChainFollows'
    PROVE  Turns!Next \/ UNCHANGED Turns!turnVars
<1>1. PICK c \in Seq(Activities) : Links(c)
      BY DEF LineInv
<1>2. Chain = c
      BY <1>1 DEF ChainFollows
<1>3. CASE JoinLine(a) \/ RejoinLine(a)
  <2>1. pc[a] \notin Lined
        BY <1>3 DEF JoinLine, RejoinLine, Lined
  <2>2. Chain' = Append(c, a)
    <3>1. CASE BecomeHead(a)
      <4>1. c = <<>> /\ Links(<<a>>)' /\ <<a>> \in Seq(Activities)
            BY <1>1, <3>1, HeadLinks
      <4>2. Chain' = <<a>>
            BY <4>1 DEF ChainFollows
      <4>3. Append(<<>>, a) = <<a>>
            OBVIOUS
      <4>. QED  BY <4>1, <4>2, <4>3
    <3>2. CASE \E then \in Lined : ChainBehind(a, then)
          BY <1>1, <2>1, <3>2, JoinKeepsLinks DEF ChainFollows
    <3>. QED  BY <1>3, <3>1, <3>2 DEF JoinLine, RejoinLine, Lined
  <2>3. pc'[a] # "dequeue" /\ \A b \in Activities : pc'[b] = "dequeue" <=> pc[b] = "dequeue"
        BY <1>3 DEF JoinLine, RejoinLine, BecomeHead, ChainBehind, Goto, IInv, TypeOK
  <2>4. NotAdmitted' = Append(NotAdmitted, a)
        BY <1>2, <2>2, <2>3, JoinIsJoin
  <2>5. UNCHANGED mutexOwner
        BY <1>3 DEF JoinLine, RejoinLine, mutex
  <2>6. a \notin Turns!InLine
        BY <1>1, <1>2, <2>1, NotAdmittedInLine
  <2>. QED  BY <2>4, <2>5, <2>6 DEF Turns!Next, Turns!Join
<1>4. CASE Dequeue(a)
  <2>1. /\ c # <<>> /\ a = c[1] /\ Tail(c) \in Seq(Activities)
        /\ Links(Tail(c))'
        BY <1>1, <1>4, DequeueKeepsLinks
  <2>2. Chain' = Tail(c)
        BY <2>1 DEF ChainFollows
  <2>3. pc[a] = "dequeue" /\ UNCHANGED mutexOwner
        BY <1>4 DEF Dequeue, mutex
  <2>4. NotAdmitted = Tail(c)
        BY <1>2, <2>1, <2>3 DEF NotAdmitted
  <2>5. \A b \in Activities : pc'[b] # "dequeue"
        BY <1>4 DEF Dequeue, Goto, IInv, TypeOK, OwnerHolds, Holding
  <2>6. NotAdmitted' = Tail(c)
    <3>1. Tail(c) # <<>> => Head(Tail(c)) \in Activities
          BY <2>1, HeadTailProperties
    <3>. QED  BY <2>2, <2>5, <3>1, Zenon DEF NotAdmitted
  <2>. QED  BY <2>3, <2>4, <2>6 DEF Turns!turnVars
<1>5. CASE ~(JoinLine(a) \/ RejoinLine(a) \/ Dequeue(a))
  <2>1. UNCHANGED line /\ \A b \in Activities : pc'[b] \in Lined <=> pc[b] \in Lined
        BY <1>5 DEF Step, LockForNewActivity, UnlockNewActivity, EnterKernel, RequestKernel, TryKernel,
                    HandOver, WaitKernelReturns, LockKernel, ReleaseKernel, Relinquish, WaitReserve,
                    WaitReserveReturns, PostResourceWaiter, IInv, TypeOK, Goto, Lined
  <2>2. Chain' = c
    <3>1. Links(c)'
          BY <1>1, <2>1, SameLinks
    <3>. QED  BY <3>1 DEF ChainFollows
  <2>3. CASE LockKernel(a)
    <3>1. a = firstWaitingActivity
          BY <2>3 DEF LockKernel, LineInv, OnlyHeadAwake, Lined
    <3>2. c # <<>> /\ a = Head(c)
          BY <1>1, <3>1, NoneAssumption DEF Links
    <3>3. mutexOwner = None /\ mutexOwner' = a /\ pc[a] # "dequeue" /\ pc'[a] = "dequeue"
          BY <2>3 DEF LockKernel, RequestMutex, Goto, IInv, TypeOK, OwnerHolds, Holding
    <3>4. NotAdmitted = c /\ NotAdmitted' = Tail(c)
          BY <1>2, <2>2, <3>2, <3>3 DEF NotAdmitted
    <3>. QED  BY <3>2, <3>3, <3>4 DEF Turns!Next, Turns!Admit
  <2>4. CASE ~LockKernel(a)
    <3>1. \A b \in Activities : pc'[b] = "dequeue" <=> pc[b] = "dequeue"
          BY <1>5, <2>4 DEF Step, LockForNewActivity, UnlockNewActivity, EnterKernel, RequestKernel,
                    TryKernel, HandOver, WaitKernelReturns, ReleaseKernel, Relinquish, WaitReserve,
                    WaitReserveReturns, PostResourceWaiter, IInv, TypeOK, Goto
    <3>2. UNCHANGED NotAdmitted
          BY <1>2, <2>2, <3>1, SameTurns
    <3>3. CASE UNCHANGED mutexOwner
          BY <3>2, <3>3 DEF Turns!turnVars
    <3>4. CASE mutexOwner = None /\ mutexOwner' # None
      <4>1. LockForNewActivity(a) \/ TryKernel(a)
            BY <1>5, <2>4, <3>4 DEF Step, UnlockNewActivity, EnterKernel, RequestKernel, HandOver,
                    WaitKernelReturns, ReleaseKernel, Relinquish, WaitReserve, WaitReserveReturns,
                    PostResourceWaiter, ReleaseMutex, mutex
      <4>2. mutexOwner' = a /\ pc[a] \notin Lined
            BY <3>4, <4>1 DEF LockForNewActivity, TryKernel, RequestMutex, mutex, Lined
      <4>3. a \notin Turns!InLine
            BY <1>1, <1>2, <4>2, NotAdmittedInLine
      <4>. QED  BY <3>2, <3>4, <4>2, <4>3 DEF Turns!Next, Turns!Slip
    <3>5. CASE mutexOwner # None /\ mutexOwner' = None
          BY <3>2, <3>5 DEF Turns!Next, Turns!Leave
    <3>6. mutexOwner # None => mutexOwner' \in {mutexOwner, None}
          BY <1>5, <2>4 DEF Step, LockForNewActivity, UnlockNewActivity, EnterKernel, RequestKernel,
                    TryKernel, HandOver, WaitKernelReturns, ReleaseKernel, Relinquish, WaitReserve,
                    WaitReserveReturns, PostResourceWaiter, RequestMutex, ReleaseMutex, mutex
    <3>. QED  BY <3>3, <3>4, <3>5, <3>6
  <2>. QED  BY <2>3, <2>4
<1>. QED  BY <1>3, <1>4, <1>5

\* The kernel lock implements KernelTurns, for any finite number of threads:
\* nobody who stands in line is ever passed by another who stands in line.
THEOREM ImplementsTurnsAlways ==
    ASSUME SpuriousWakeups = FALSE, IsFiniteSet(Activities)
    PROVE  Spec => ImplementsTurns
<1>1. Init => Turns!Init
  <2>. SUFFICES ASSUME Init PROVE Turns!Init
       OBVIOUS
  <2>1. Links(<<>>) /\ <<>> \in Seq(Activities)
        BY DEF Init, Links, Lined
  <2>2. Chain = <<>>
        BY <2>1, InitIInv, ChainIsLinks
  <2>. QED  BY <2>2 DEF Init, Turns!Init, NotAdmitted
<1>2. IInv /\ IInv' /\ LineInv /\ ChainFollows /\ ChainFollows' /\ [Next]_vars
      => [Turns!Next]_(Turns!turnVars)
  <2>. SUFFICES ASSUME IInv, IInv', LineInv, ChainFollows, ChainFollows', [Next]_vars
                PROVE  Turns!Next \/ UNCHANGED Turns!turnVars
       OBVIOUS
  <2>1. CASE Next
        BY <2>1, StepTurns DEF Next
  <2>2. CASE UNCHANGED vars
    <3>1. UNCHANGED NotAdmitted
      <4>1. PICK c \in Seq(Activities) : Links(c)
            BY DEF LineInv
      <4>2. Links(c)'
            BY <2>2, <4>1, SameLinks DEF vars
      <4>. QED  BY <2>2, <4>1, <4>2, SameTurns DEF ChainFollows, vars
    <3>. QED  BY <2>2, <3>1 DEF vars, mutex, Turns!turnVars
  <2>. QED  BY <2>1, <2>2
<1>. QED  BY <1>1, <1>2, Invariance, LineInvariance, ChainAlwaysFollows, PTL
          DEF Spec, ImplementsTurns, Turns!Spec

=============================================================================
