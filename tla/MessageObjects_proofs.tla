----------------------- MODULE MessageObjects_proofs -----------------------
(***************************************************************************)
(* Message objects complete once, notify everybody and hear of failures,   *)
(* for any activities and messages, and any depth of calls.  The stacks    *)
(* are described frame by frame; a step keeps the frames up to some        *)
(* position and puts at most two others there.                             *)
(***************************************************************************)
EXTENDS MessageObjects, StackLemmas

-----------------------------------------------------------------------------
(* The invariant.                                                          *)

\* A frame that an error abandons: no activation between them can trap it.
Doomed(s, p) ==
    \E q \in p + 1..Len(s) :
        /\ s[q].kind = "raise"
        /\ \A i \in p + 1..q - 1 : s[i].kind = "act" => s[i].native

\* i is the activation that executes what stands at j.
Executing(s, i, j) ==
    /\ i \in 1..j
    /\ s[i].kind = "act"
    /\ \A l \in i + 1..j : s[l].kind # "act"

\* An error went by native activations only.
RaiseSound(s, p) ==
    /\ s[p].offered < p
    /\ s[s[p].offered].kind = "act"
    /\ \A i \in s[p].offered + 1..p - 1 : s[i].kind = "act" => s[i].native

\* The loop has sent the parties that it is past, or is abandoned.
NotifySound(s, p, parties, sent) ==
    /\ s[p].next <= Len(parties[s[p].message]) + 1
    /\ Doomed(s, p) \/ \A j \in 1..s[p].next - 1 : parties[s[p].message][j] \in sent

\* While its method is about to get an activation or has one, a message that
\* is not completed is held by the activation that sends it; once it has heard
\* of an error it does not return.
SendSound(s, p, sent, returned, raised) ==
    /\ s[p].message \in sent
    /\ s[p].message \in raised => Doomed(s, p)
    /\ /\ p < Len(s) => s[p + 1].kind = "act"
       /\ s[p].message \notin returned \cup raised
       => \A i \in 1..p : Executing(s, i, p) => s[i].objnotify = s[p].message

FrameSound(s, p, parties, sent, returned, raised) ==
    /\ p = 1 => s[p].kind = "act"
    /\ s[p].kind = "raise" => RaiseSound(s, p)
    /\ s[p].kind = "notify" => NotifySound(s, p, parties, sent)
    /\ s[p].kind = "send" => SendSound(s, p, sent, returned, raised)

StackSound(s, parties, sent, returned, raised) ==
    \A p \in 1..Len(s) : FrameSound(s, p, parties, sent, returned, raised)

Sends(s, p, m) == s[p].kind = "send" /\ s[p].message = m
Holds(s, p, m) == s[p].kind = "act" /\ s[p].objnotify = m

\* An activation that holds a message is that of START, or the one that
\* sends it; and the message has no result.
Holders(st, sent, returned, startedOn) ==
    \A m \in Messages, a \in Activities : \A i \in 1..Len(st[a]) :
        Holds(st[a], i, m) =>
            /\ m \notin returned
            /\ m \in sent \/ startedOn[m] = a
            /\ \A b \in Activities : \A j \in 1..Len(st[b]) :
                  Sends(st[b], j, m) => b = a /\ Executing(st[a], i, j)

\* A started message that was not sent is the first thing its activity sends.
Awaits(s, m) == Len(s) = 1 /\ Holds(s, 1, m) /\ s[1].native

Starting(st, sent, pending, startedOn) ==
    \A m \in Messages \ sent : startedOn[m] # None =>
        m \in pending /\ Awaits(st[startedOn[m]], m)

Types ==
    /\ stack \in [Activities -> Seq(Frames)]
    /\ msgSent \subseteq Messages
    /\ startPending \subseteq Messages
    /\ resultReturned \subseteq Messages
    /\ raiseError \subseteq Messages
    /\ allNotified \subseteq Messages
    /\ startActivity \in [Messages -> Activities \cup {None}]
    /\ interestedParties \in [Messages -> Seq(Messages)]

IInv ==
    /\ Types
    /\ \A a \in Activities :
          StackSound(stack[a], interestedParties, msgSent, resultReturned, raiseError)
    /\ Holders(stack, msgSent, resultReturned, startActivity)
    /\ Starting(stack, msgSent, startPending, startActivity)
    /\ resultReturned \cup raiseError \subseteq msgSent
    /\ resultReturned \cap raiseError = {}
    /\ AllNotifiedAreSent

-----------------------------------------------------------------------------
(* Frames and stacks of frames.                                            *)

\* What frames are made of.
LEMMA FrameFacts ==
    ASSUME NEW f \in Frames
    PROVE  /\ f.kind \in {"act", "send", "notify", "raise"}
           /\ f.kind = "act" => f.native \in BOOLEAN /\ f.objnotify \in Messages \cup {None}
           /\ f.kind = "send" => f.message \in Messages
           /\ f.kind = "notify" => f.message \in Messages /\ f.next \in Nat /\ f.next >= 1
           /\ f.kind = "raise" => /\ f.offered \in Nat /\ f.offered >= 1
                                  /\ f.told \in BOOLEAN /\ f.propagated \in BOOLEAN
BY DEF Frames

\* The frames that the actions push.
LEMMA NewFrames ==
    ASSUME NEW m \in Messages, NEW i \in Nat \ {0}, NEW told \in BOOLEAN, NEW prop \in BOOLEAN,
           NEW native \in BOOLEAN, NEW x \in Messages \cup {None}
    PROVE  /\ Activation(native, x) \in Frames
           /\ Sending(m) \in Frames
           /\ Notifying(m, i) \in Frames
           /\ Raising(i, told, prop) \in Frames
BY DEF Frames, Activation, Sending, Notifying, Raising

\* The last activation up to a position: Max(Acts(...)) finds it.
LEMMA CurrentExecutes ==
    ASSUME NEW s \in Seq(Frames), NEW n \in 1..Len(s), \E i \in 1..n : s[i].kind = "act"
    PROVE  Executing(s, Max(Acts(s, n)), n)
<1>. DEFINE A == Acts(s, n)
            T == {n - i : i \in A}
<1>1. n \in Nat /\ A \in SUBSET (1..n) /\ A # {}
      BY DEF Acts
<1>2. T \in SUBSET Nat /\ T # {}
      BY <1>1
<1>3. PICK d \in T : \A e \in T : d <= e
      BY <1>2, Least
<1>4. PICK x \in A : d = n - x
      BY <1>3
<1>5. ASSUME NEW y \in A PROVE x >= y
  <2>1. n - y \in T
        OBVIOUS
  <2>2. n - x <= n - y
        BY <1>3, <1>4, <2>1
  <2>. QED  BY <1>1, <2>2
<1>. HIDE DEF A
<1>6. Max(A) \in A /\ \A y \in A : Max(A) >= y
      BY <1>5 DEF Max
<1>. DEFINE c == Max(A)
<1>7. c \in 1..n /\ s[c].kind = "act"
      BY <1>6 DEF A, Acts
<1>8. ASSUME NEW l \in c + 1..n, s[l].kind = "act" PROVE FALSE
  <2>1. l \in A
        BY <1>1, <1>7, <1>8 DEF A, Acts
  <2>. QED  BY <1>1, <1>6, <1>7, <1>8, <2>1
<1>. QED  BY <1>7, <1>8 DEF Executing, A

\* There is one.
LEMMA ExecutingOne ==
    ASSUME NEW s, NEW j \in Nat, NEW i, NEW l, Executing(s, i, j), Executing(s, l, j)
    PROVE  i = l
BY DEF Executing

\* setObjNotify.
LEMMA SetObjNotifyFacts ==
    ASSUME NEW s \in Seq(Frames), s # <<>>, s[1].kind = "act", NEW x \in Messages \cup {None}
    PROVE  LET t == SetObjNotify(s, x)
               c == Current(s)
           IN  /\ t \in Seq(Frames) /\ Len(t) = Len(s) /\ t # <<>>
               /\ Executing(s, c, Len(s))
               /\ \A i \in 1..Len(s) : i # c => t[i] = s[i]
               /\ t[c] = [s[c] EXCEPT !.objnotify = x]
               /\ t[c].kind = "act" /\ t[c].native = s[c].native /\ t[c].objnotify = x
<1>. DEFINE c == Current(s)
            t == SetObjNotify(s, x)
            n == Len(s)
<1>1. n \in Nat \ {0}
      BY EmptySeq
<1>2. Executing(s, c, n)
  <2>1. 1 \in 1..n /\ n \in 1..Len(s)
        BY <1>1
  <2>. QED  BY <2>1, CurrentExecutes DEF Current
<1>3. c \in 1..n /\ s[c].kind = "act" /\ s[c] \in Frames
      BY <1>2, ElementOfSeq DEF Executing
<1>. HIDE DEF c
<1>4. t = [i \in 1..n |-> IF i = c THEN [s[c] EXCEPT !.objnotify = x] ELSE s[i]]
      BY <1>1, <1>3, LenProperties DEF t, SetObjNotify, c
<1>5. /\ [s[c] EXCEPT !.objnotify = x] \in Frames
      /\ [s[c] EXCEPT !.objnotify = x].kind = "act"
      /\ [s[c] EXCEPT !.objnotify = x].native = s[c].native
      /\ [s[c] EXCEPT !.objnotify = x].objnotify = x
      BY <1>3 DEF Frames
<1>6. \A i \in 1..n : s[i] \in Frames
      BY ElementOfSeq
<1>. HIDE DEF t
<1>7. t \in [1..n -> Frames]
      BY <1>4, <1>5, <1>6
<1>8. t \in Seq(Frames) /\ Len(t) = n
      BY <1>1, <1>7, SeqDef, LenProperties
<1>. QED  BY <1>1, <1>2, <1>3, <1>4, <1>5, <1>8, EmptySeq DEF t, c

-----------------------------------------------------------------------------
(* What is kept of a stack.                                                *)

\* Up to k the frames are the same, but for what an activation holds.
Carries(s, t, k) ==
    /\ k \in 0..Len(s) /\ k <= Len(t)
    /\ \A i \in 1..k :
          /\ t[i].kind = s[i].kind
          /\ s[i].kind = "act" => t[i].native = s[i].native
          /\ s[i].kind # "act" => t[i] = s[i]

\* The ways in which the rest leaves nobody out who is to be abandoned.
RestFits(s, t, k) ==
    \/ k = 0
    \/ \A q \in k + 1..Len(s) : s[q].kind # "raise"
    \/ k < Len(t) /\ t[k + 1].kind = "raise"
    \/ k # 0 /\ s[k].kind = "act" /\ ~s[k].native

\* Only the activation that executes at k may have another message, and a
\* message on top of what is kept has a new frame on it, unless all is kept.
TopFits(s, t, k) ==
    /\ \A i \in 1..k : t[i] = s[i] \/ Executing(s, i, k)
    /\ k # 0 /\ s[k].kind = "send" =>
          \/ k < Len(t) /\ t[k + 1].kind # "act"
          \/ k = Len(s) /\ \A i \in 1..k : t[i] = s[i]

\* Frames that an error abandons remain so.
LEMMA DoomKept ==
    ASSUME NEW s \in Seq(Frames), NEW t \in Seq(Frames), NEW k,
           Carries(s, t, k), RestFits(s, t, k),
           NEW p \in 1..k, s[p].kind # "act", Doomed(s, p)
    PROVE  Doomed(t, p)
<1>1. k \in Nat /\ Len(s) \in Nat /\ Len(t) \in Nat /\ k <= Len(s) /\ k <= Len(t)
      BY DEF Carries
<1>2. PICK q \in p + 1..Len(s) :
           s[q].kind = "raise" /\ \A i \in p + 1..q - 1 : s[i].kind = "act" => s[i].native
      BY DEF Doomed
<1>3. \A i \in 1..k : t[i].kind = s[i].kind /\ (s[i].kind = "act" => t[i].native = s[i].native)
      BY DEF Carries
<1>4. CASE q <= k
  <2>1. t[q].kind = "raise" /\ q \in p + 1..Len(t)
        BY <1>1, <1>2, <1>3, <1>4
  <2>2. \A i \in p + 1..q - 1 : t[i].kind = "act" => t[i].native
        BY <1>1, <1>2, <1>3, <1>4
  <2>. QED  BY <2>1, <2>2 DEF Doomed
<1>5. CASE q > k
  <2>1. \A i \in p + 1..k : s[i].kind = "act" => s[i].native
        BY <1>1, <1>2, <1>5
  <2>2. k < Len(t) /\ t[k + 1].kind = "raise"
    <3>1. q \in k + 1..Len(s)
          BY <1>1, <1>2, <1>5
    <3>2. ~(s[k].kind = "act" /\ ~s[k].native)
          BY <1>1, <2>1
    <3>. QED  BY <1>2, <3>1, <3>2 DEF RestFits
  <2>3. PICK d \in Nat : d = k + 1
        BY <1>1
  <2>4. d \in p + 1..Len(t) /\ t[d].kind = "raise"
        BY <1>1, <2>2, <2>3
  <2>5. \A i \in p + 1..d - 1 : t[i].kind = "act" => t[i].native
        BY <1>1, <1>3, <2>1, <2>3
  <2>. QED  BY <2>4, <2>5 DEF Doomed
<1>. QED  BY <1>1, <1>2, <1>4, <1>5

\* What executes remains so.
LEMMA ExecutingKept ==
    ASSUME NEW s, NEW t, NEW k \in Nat, Len(s) \in Nat, Carries(s, t, k), NEW j \in 1..k, NEW i
    PROVE  Executing(t, i, j) <=> Executing(s, i, j)
<1>1. \A l \in 1..k : t[l].kind = s[l].kind
      BY DEF Carries
<1>2. i \in 1..j => \A l \in i..j : l \in 1..k
      OBVIOUS
<1>. QED  BY <1>1, <1>2 DEF Executing

\* The frames that are kept remain sound, when messages are sent, completed
\* and told of errors.
LEMMA FramesKept ==
    ASSUME NEW s \in Seq(Frames), NEW t \in Seq(Frames), NEW k,
           Carries(s, t, k), RestFits(s, t, k), TopFits(s, t, k),
           NEW parties, NEW sent, NEW sent2, NEW returned, NEW returned2, NEW raised, NEW raised2,
           sent \subseteq sent2, returned \subseteq returned2, raised \subseteq raised2,
           \A p \in 1..k : s[p].kind = "send" /\ s[p].message \in raised2 \ raised => Doomed(t, p),
           NEW p \in 1..k, FrameSound(s, p, parties, sent, returned, raised)
    PROVE  FrameSound(t, p, parties, sent2, returned2, raised2)
<1>1. k \in Nat /\ Len(s) \in Nat /\ Len(t) \in Nat /\ k <= Len(s) /\ k <= Len(t) /\ p \in Nat
      BY DEF Carries
<1>2. /\ t[p].kind = s[p].kind /\ (s[p].kind # "act" => t[p] = s[p])
      /\ \A i \in 1..k : t[i].kind = s[i].kind /\ (s[i].kind = "act" => t[i].native = s[i].native)
      BY DEF Carries
<1>3. s[p].kind # "act" /\ Doomed(s, p) => Doomed(t, p)
      BY DoomKept
<1>4. p = 1 => t[p].kind = "act"
      BY <1>2 DEF FrameSound
<1>5. ASSUME t[p].kind = "raise" PROVE RaiseSound(t, p)
  <2>1. t[p] = s[p] /\ RaiseSound(s, p) /\ s[p] \in Frames
        BY <1>1, <1>2, <1>5, ElementOfSeq DEF FrameSound
  <2>2. s[p].offered \in Nat /\ s[p].offered >= 1
        BY <1>2, <1>5, <2>1, FrameFacts
  <2>3. s[p].offered \in 1..k /\ \A i \in s[p].offered + 1..p - 1 : i \in 1..k
        BY <1>1, <2>1, <2>2 DEF RaiseSound
  <2>. QED  BY <1>2, <2>1, <2>3 DEF RaiseSound
<1>6. ASSUME t[p].kind = "notify" PROVE NotifySound(t, p, parties, sent2)
      BY <1>2, <1>3, <1>6 DEF FrameSound, NotifySound
<1>7. ASSUME t[p].kind = "send" PROVE SendSound(t, p, sent2, returned2, raised2)
  <2>1. t[p] = s[p] /\ s[p].kind = "send" /\ SendSound(s, p, sent, returned, raised)
        BY <1>2, <1>7 DEF FrameSound
  <2>2. t[p].message \in sent2
        BY <2>1 DEF SendSound
  <2>3. t[p].message \in raised2 => Doomed(t, p)
        BY <1>3, <2>1 DEF SendSound
  <2>4. ASSUME p < Len(t) => t[p + 1].kind = "act", t[p].message \notin returned2 \cup raised2,
               NEW i \in 1..p, Executing(t, i, p)
        PROVE  t[i].objnotify = t[p].message
    <3>1. Executing(s, i, p)
          BY <1>1, <2>4, ExecutingKept
    <3>2. p < Len(s) => s[p + 1].kind = "act"
      <4>1. CASE p < k
        <5>1. p + 1 \in 1..k /\ p < Len(t)
              BY <1>1, <4>1
        <5>. QED  BY <1>2, <2>4, <5>1
      <4>2. CASE p = k
            BY <1>1, <2>1, <2>4, <4>2 DEF TopFits
      <4>. QED  BY <1>1, <4>1, <4>2
    <3>3. s[i].objnotify = s[p].message
          BY <2>1, <2>4, <3>1, <3>2 DEF SendSound
    <3>4. t[i] = s[i]
      <4>1. i \in 1..k
            BY <1>1
      <4>2. ASSUME Executing(s, i, k), p < k PROVE FALSE
        <5>1. p + 1 \in 1..k /\ p < Len(t) /\ p + 1 \in i + 1..k
              BY <1>1, <4>2
        <5>2. s[p + 1].kind = "act"
              BY <1>2, <2>4, <5>1
        <5>. QED  BY <4>2, <5>1, <5>2 DEF Executing
      <4>3. CASE p = k
            BY <1>1, <2>1, <2>4, <4>1, <4>3 DEF TopFits
      <4>. QED  BY <1>1, <4>1, <4>2, <4>3 DEF TopFits
    <3>. QED  BY <2>1, <3>3, <3>4
  <2>. QED  BY <2>2, <2>3, <2>4 DEF SendSound
<1>. QED  BY <1>4, <1>5, <1>6, <1>7 DEF FrameSound

-----------------------------------------------------------------------------
(* Holders and starts, when one stack becomes another.                     *)

\* Nobody new holds or sends a message, and who held one that now has its
\* result has let go of it.
LEMMA HoldersKept ==
    ASSUME NEW st \in [Activities -> Seq(Frames)], NEW a \in Activities, NEW t \in Seq(Frames),
           NEW k, Carries(st[a], t, k),
           NEW sent, NEW sent2, NEW returned, NEW returned2, NEW startedOn, NEW startedOn2,
           Holders(st, sent, returned, startedOn),
           sent \subseteq sent2,
           \A m \in Messages \ sent2 : startedOn2[m] = startedOn[m],
           \A m \in Messages : \A i \in 1..Len(t) :
              /\ Holds(t, i, m) => i \in 1..k /\ Holds(st[a], i, m)
              /\ Sends(t, i, m) => i \in 1..k /\ Sends(st[a], i, m),
           \A m \in Messages : m \in returned2 \ returned =>
              /\ \A b \in Activities \ {a} : \A i \in 1..Len(st[b]) : ~Holds(st[b], i, m)
              /\ \A i \in 1..Len(t) : ~Holds(t, i, m)
    PROVE  Holders([st EXCEPT ![a] = t], sent2, returned2, startedOn2)
<1>. DEFINE st2 == [st EXCEPT ![a] = t]
<1>1. st2[a] = t /\ \A b \in Activities \ {a} : st2[b] = st[b]
      OBVIOUS
<1>2. k \in Nat /\ Len(st[a]) \in Nat /\ 1..k \subseteq 1..Len(st[a])
      BY DEF Carries
<1>. HIDE DEF st2
<1>3. SUFFICES ASSUME NEW m \in Messages, NEW b \in Activities, NEW i \in 1..Len(st2[b]),
                      Holds(st2[b], i, m)
               PROVE  /\ m \notin returned2
                      /\ m \in sent2 \/ startedOn2[m] = b
                      /\ \A c \in Activities : \A j \in 1..Len(st2[c]) :
                            Sends(st2[c], j, m) => c = b /\ Executing(st2[b], i, j)
      BY DEF Holders, st2
<1>4. i \in 1..Len(st[b]) /\ Holds(st[b], i, m)
      BY <1>1, <1>2, <1>3
<1>5. /\ m \notin returned
      /\ m \in sent \/ startedOn[m] = b
      /\ \A c \in Activities : \A j \in 1..Len(st[c]) :
            Sends(st[c], j, m) => c = b /\ Executing(st[b], i, j)
      BY <1>4 DEF Holders
<1>6. m \notin returned2
      BY <1>1, <1>3, <1>5
<1>7. ASSUME NEW c \in Activities, NEW j \in 1..Len(st2[c]), Sends(st2[c], j, m)
      PROVE  c = b /\ Executing(st2[b], i, j)
  <2>1. /\ j \in 1..Len(st[c]) /\ Sends(st[c], j, m)
        /\ c = a => j \in 1..k
        BY <1>1, <1>2, <1>7
  <2>2. c = b /\ Executing(st[b], i, j)
        BY <1>5, <2>1
  <2>. QED  BY <1>1, <1>2, <2>1, <2>2, ExecutingKept
<1>. QED  BY <1>5, <1>6, <1>7

\* A step of an activity that has nothing to send keeps what was started.
LEMMA StartingKept ==
    ASSUME NEW st \in [Activities -> Seq(Frames)], NEW a \in Activities, NEW t,
           NEW sent, NEW sent2, NEW pending, NEW startedOn, NEW startedOn2,
           startedOn \in [Messages -> Activities \cup {None}],
           Starting(st, sent, pending, startedOn),
           sent \subseteq sent2,
           \A m \in Messages \ sent2 : startedOn2[m] = startedOn[m] /\ startedOn[m] # a
    PROVE  Starting([st EXCEPT ![a] = t], sent2, pending, startedOn2)
BY DEF Starting

\* A message that nobody sent yet is sent on top of a stack.
LEMMA HoldersSent ==
    ASSUME NEW st \in [Activities -> Seq(Frames)], NEW a \in Activities, NEW t \in Seq(Frames),
           NEW k, Carries(st[a], t, k), k = Len(st[a]), Len(t) = k + 1,
           NEW c, Executing(st[a], c, k),
           \A i \in 1..k : i # c => t[i] = st[a][i],
           NEW x \in Messages, Holds(t, c, x), Sends(t, k + 1, x),
           NEW sent, NEW returned, NEW pending,
           NEW startedOn \in [Messages -> Activities \cup {None}],
           Holders(st, sent, returned, startedOn),
           Starting(st, sent, pending, startedOn),
           \A b \in Activities : \A j \in 1..Len(st[b]) : ~Sends(st[b], j, x),
           returned \subseteq sent, x \notin sent, x \in pending => startedOn[x] = a
    PROVE  Holders([st EXCEPT ![a] = t], sent \cup {x}, returned, [startedOn EXCEPT ![x] = a])
<1>. DEFINE st2 == [st EXCEPT ![a] = t]
            sent2 == sent \cup {x}
            startedOn2 == [startedOn EXCEPT ![x] = a]
<1>1. st2[a] = t /\ \A b \in Activities \ {a} : st2[b] = st[b]
      OBVIOUS
<1>2. /\ k \in Nat /\ c \in 1..k
      /\ 1..Len(t) = 1..k \cup {k + 1}
  <2>1. k \in Nat /\ c \in 1..k
        BY DEF Executing
  <2>2. 1..(k + 1) = 1..k \cup {k + 1}
        BY <2>1
  <2>. QED  BY <2>1, <2>2, Zenon
<1>3. startedOn2[x] = a /\ \A m \in Messages : m # x => startedOn2[m] = startedOn[m]
      OBVIOUS
<1>. HIDE DEF st2, sent2, startedOn2
<1>4. SUFFICES ASSUME NEW m \in Messages, NEW b \in Activities, NEW i \in 1..Len(st2[b]),
                      Holds(st2[b], i, m)
               PROVE  /\ m \notin returned
                      /\ m \in sent2 \/ startedOn2[m] = b
                      /\ \A d \in Activities : \A j \in 1..Len(st2[d]) :
                            Sends(st2[d], j, m) => d = b /\ Executing(st2[b], i, j)
      BY DEF Holders, st2, sent2, startedOn2
<1>5. CASE m = x
  <2>1. m \notin returned /\ m \in sent2
        BY <1>5 DEF sent2
  <2>2. b = a /\ i = c
    <3>1. CASE b = a /\ i \notin 1..k
          BY <1>1, <1>2, <1>4, <3>1 DEF Holds, Sends
    <3>2. CASE (b # a \/ i \in 1..k) /\ ~(b = a /\ i = c)
      <4>1. i \in 1..Len(st[b]) /\ Holds(st[b], i, x)
            BY <1>1, <1>4, <1>5, <3>2 DEF Holds
      <4>2. startedOn[x] = b
            BY <4>1 DEF Holders
      <4>3. x \in pending /\ Awaits(st[b], x)
            BY <4>2, NoneAssumption DEF Starting
      <4>4. b = a /\ k = 1
            BY <4>2, <4>3 DEF Awaits
      <4>. QED  BY <1>2, <3>2, <4>1, <4>4
    <3>. QED  BY <3>1, <3>2
  <2>3. ASSUME NEW d \in Activities, NEW j \in 1..Len(st2[d]), Sends(st2[d], j, m)
        PROVE  d = b /\ Executing(st2[b], i, j)
    <3>1. d = a /\ j = k + 1
      <4>1. CASE d # a
            BY <1>1, <1>5, <2>3, <4>1
      <4>2. CASE d = a /\ j \in 1..k
        <5>1. j # c
              BY <1>1, <1>5, <2>3, <4>2 DEF Holds, Sends
        <5>. QED  BY <1>1, <1>5, <2>3, <4>2, <5>1 DEF Sends
      <4>. QED  BY <1>1, <1>2, <4>1, <4>2
    <3>2. Executing(t, c, k)
      <4>1. k \in 1..k
            BY <1>2
      <4>. QED  BY <1>2, <4>1, ExecutingKept
    <3>3. t[k + 1].kind # "act"
          BY DEF Sends
    <3>4. Executing(t, c, k + 1)
          BY <1>2, <3>2, <3>3 DEF Executing
    <3>. QED  BY <1>1, <2>2, <3>1, <3>4
  <2>. QED  BY <2>1, <2>3
<1>6. CASE m # x
  <2>1. i \in 1..Len(st[b]) /\ Holds(st[b], i, m)
    <3>1. CASE b = a /\ i = c
          BY <1>1, <1>4, <1>6, <3>1 DEF Holds
    <3>2. CASE b = a /\ i = k + 1
          BY <1>1, <1>4, <3>2 DEF Holds, Sends
    <3>3. CASE b = a /\ i \in 1..k /\ i # c
          BY <1>1, <1>4, <3>3 DEF Holds
    <3>4. CASE b # a
          BY <1>1, <1>4, <3>4
    <3>. QED  BY <1>1, <1>2, <3>1, <3>2, <3>3, <3>4
  <2>2. /\ m \notin returned
        /\ m \in sent \/ startedOn[m] = b
        /\ \A d \in Activities : \A j \in 1..Len(st[d]) :
              Sends(st[d], j, m) => d = b /\ Executing(st[b], i, j)
        BY <2>1 DEF Holders
  <2>3. ASSUME NEW d \in Activities, NEW j \in 1..Len(st2[d]), Sends(st2[d], j, m)
        PROVE  d = b /\ Executing(st2[b], i, j)
    <3>1. j \in 1..Len(st[d]) /\ Sends(st[d], j, m)
      <4>1. CASE d = a /\ j = c
            BY <1>1, <2>3, <4>1 DEF Holds, Sends
      <4>2. CASE d = a /\ j = k + 1
            BY <1>1, <1>6, <2>3, <4>2 DEF Sends
      <4>3. CASE d = a /\ j \in 1..k /\ j # c
            BY <1>1, <2>3, <4>3 DEF Sends
      <4>4. CASE d # a
            BY <1>1, <2>3, <4>4
      <4>. QED  BY <1>1, <1>2, <4>1, <4>2, <4>3, <4>4
    <3>2. d = b /\ Executing(st[b], i, j)
          BY <2>2, <3>1
    <3>. QED  BY <1>1, <1>2, <3>1, <3>2, ExecutingKept
  <2>. QED  BY <1>3, <2>2, <2>3 DEF sent2
<1>. QED  BY <1>5, <1>6

-----------------------------------------------------------------------------
(* Steps that change one stack.                                            *)

\* The types follow from the invariant.
LEMMA SoundTypes == IInv => TypeOK
<1>. SUFFICES ASSUME IInv PROVE TypeOK
     OBVIOUS
<1>1. ASSUME NEW a \in Activities, NEW i \in 1..Len(stack[a]) PROVE InPlace(stack[a], i)
  <2>1. FrameSound(stack[a], i, interestedParties, msgSent, resultReturned, raiseError)
        BY DEF IInv, StackSound
  <2>. QED  BY <2>1 DEF FrameSound, NotifySound, RaiseSound, InPlace
<1>. QED  BY <1>1 DEF IInv, Types, TypeOK

\* The frames that a step keeps remain sound; what is new has to be shown.
LEMMA Assemble ==
    ASSUME IInv, NEW a \in Activities, NEW t \in Seq(Frames), NEW k,
           Become(a, t), Carries(stack[a], t, k), RestFits(stack[a], t, k), TopFits(stack[a], t, k),
           msgSent \subseteq msgSent', msgSent' \subseteq Messages,
           startPending' \subseteq Messages, allNotified' \subseteq Messages,
           resultReturned \subseteq resultReturned', raiseError \subseteq raiseError',
           resultReturned' \cup raiseError' \subseteq msgSent',
           resultReturned' \cap raiseError' = {},
           startActivity' \in [Messages -> Activities \cup {None}],
           UNCHANGED interestedParties,
           \A p \in 1..k : stack[a][p].kind = "send" /\ stack[a][p].message \in raiseError' \ raiseError
               => Doomed(t, p),
           \A b \in Activities \ {a} : \A p \in 1..Len(stack[b]) :
               stack[b][p].kind = "send" => stack[b][p].message \notin raiseError' \ raiseError,
           \A p \in k + 1..Len(t) :
               FrameSound(t, p, interestedParties, msgSent', resultReturned', raiseError'),
           Holders([stack EXCEPT ![a] = t], msgSent', resultReturned', startActivity'),
           Starting([stack EXCEPT ![a] = t], msgSent', startPending', startActivity'),
           AllNotifiedAreSent'
    PROVE  IInv'
<1>1. stack \in [Activities -> Seq(Frames)]
      BY DEF IInv, Types
<1>2. stack' = [stack EXCEPT ![a] = t]
      BY DEF Become
<1>3. Types'
      BY <1>1, <1>2 DEF IInv, Types
<1>4. StackSound(t, interestedParties, msgSent', resultReturned', raiseError')
  <2>. SUFFICES ASSUME NEW p \in 1..Len(t)
                PROVE  FrameSound(t, p, interestedParties, msgSent', resultReturned', raiseError')
       BY DEF StackSound
  <2>1. CASE p \in 1..k
    <3>1. FrameSound(stack[a], p, interestedParties, msgSent, resultReturned, raiseError)
      <4>1. p \in 1..Len(stack[a])
            BY <2>1 DEF Carries
      <4>. QED  BY <4>1 DEF IInv, StackSound
    <3>2. stack[a] \in Seq(Frames)
          BY <1>1
    <3>. QED  BY <2>1, <3>1, <3>2, FramesKept
  <2>2. CASE p \notin 1..k
    <3>1. p \in k + 1..Len(t)
          BY <2>2 DEF Carries
    <3>. QED  BY <3>1
  <2>. QED  BY <2>1, <2>2
<1>5. ASSUME NEW b \in Activities \ {a}
      PROVE  StackSound(stack[b], interestedParties, msgSent', resultReturned', raiseError')
  <2>1. stack[b] \in Seq(Frames) /\ Len(stack[b]) \in Nat
        BY <1>1
  <2>. DEFINE s == stack[b]
              n == Len(s)
  <2>2. Carries(s, s, n) /\ RestFits(s, s, n) /\ TopFits(s, s, n)
    <3>1. n \in 0..n /\ n <= n /\ n + 1..n = {}
          BY <2>1
    <3>. QED  BY <3>1 DEF Carries, RestFits, TopFits
  <2>3. SUFFICES ASSUME NEW p \in 1..n
                 PROVE  FrameSound(s, p, interestedParties, msgSent', resultReturned', raiseError')
        BY DEF StackSound
  <2>4. FrameSound(s, p, interestedParties, msgSent, resultReturned, raiseError)
        BY DEF IInv, StackSound
  <2>5. \A q \in 1..n : s[q].kind = "send" /\ s[q].message \in raiseError' \ raiseError => Doomed(s, q)
        OBVIOUS
  <2>. HIDE DEF s, n
  <2>6. s \in Seq(Frames)
        BY <2>1 DEF s
  <2>. QED  BY <2>2, <2>3, <2>4, <2>5, <2>6, FramesKept
<1>6. \A b \in Activities : StackSound(stack'[b], interestedParties', msgSent', resultReturned', raiseError')
      BY <1>1, <1>2, <1>4, <1>5
<1>. QED  BY <1>2, <1>3, <1>6 DEF IInv

\* The first k frames are the same.
Agrees(s, t, k) ==
    /\ k \in 0..Len(s) /\ k <= Len(t)
    /\ \A i \in 1..k : t[i] = s[i]

\* A step that sends nothing and completes nothing.
LEMMA Replace ==
    ASSUME IInv, NEW a \in Activities, NEW t \in Seq(Frames), NEW k,
           Become(a, t), Agrees(stack[a], t, k), RestFits(stack[a], t, k),
           k # 0 /\ stack[a][k].kind = "send" =>
               k = Len(stack[a]) \/ (k < Len(t) /\ t[k + 1].kind # "act"),
           \A p \in k + 1..Len(t) :
               /\ FrameSound(t, p, interestedParties, msgSent', resultReturned, raiseError)
               /\ t[p].kind # "send"
               /\ t[p].kind = "act" => t[p].objnotify = None,
           msgSent \subseteq msgSent', msgSent' \subseteq Messages, allNotified' \subseteq Messages,
           \A m \in Messages \ msgSent' : startActivity[m] # a,
           UNCHANGED <<startPending, resultReturned, raiseError, startActivity, interestedParties>>,
           AllNotifiedAreSent'
    PROVE  IInv'
<1>1. /\ stack \in [Activities -> Seq(Frames)]
      /\ startActivity \in [Messages -> Activities \cup {None}]
      /\ Holders(stack, msgSent, resultReturned, startActivity)
      /\ Starting(stack, msgSent, startPending, startActivity)
      BY DEF IInv, Types
<1>2. Carries(stack[a], t, k)
      BY DEF Agrees, Carries
<1>3. TopFits(stack[a], t, k)
      BY DEF Agrees, TopFits
<1>4. \A m \in Messages : \A i \in 1..Len(t) :
         /\ Holds(t, i, m) => i \in 1..k /\ Holds(stack[a], i, m)
         /\ Sends(t, i, m) => i \in 1..k /\ Sends(stack[a], i, m)
  <2>. SUFFICES ASSUME NEW m \in Messages, NEW i \in 1..Len(t)
                PROVE  /\ Holds(t, i, m) => i \in 1..k /\ Holds(stack[a], i, m)
                       /\ Sends(t, i, m) => i \in 1..k /\ Sends(stack[a], i, m)
       OBVIOUS
  <2>1. i \in 1..k \/ i \in k + 1..Len(t)
        BY DEF Agrees
  <2>. QED  BY <2>1, NoneAssumption DEF Agrees, Holds, Sends
<1>5. Holders([stack EXCEPT ![a] = t], msgSent', resultReturned', startActivity')
      BY <1>1, <1>2, <1>4, HoldersKept
<1>6. Starting([stack EXCEPT ![a] = t], msgSent', startPending', startActivity')
      BY <1>1, StartingKept
<1>7. \A p \in k + 1..Len(t) :
         FrameSound(t, p, interestedParties, msgSent', resultReturned', raiseError')
      OBVIOUS
<1>8. /\ resultReturned' \cup raiseError' \subseteq msgSent'
      /\ resultReturned' \cap raiseError' = {}
      /\ startPending' \subseteq Messages
      /\ startActivity' \in [Messages -> Activities \cup {None}]
      /\ UNCHANGED <<resultReturned, raiseError, interestedParties>>
      BY DEF IInv, Types
<1>. QED  BY <1>2, <1>3, <1>5, <1>6, <1>7, <1>8, Assemble

-----------------------------------------------------------------------------
(* Errors and sends.                                                       *)

\* Only a thread that START made has something left that it must send.
LEMMA NothingToStart ==
    ASSUME IInv, NEW a \in Activities, ~Starter(a), NEW m \in Messages \ msgSent
    PROVE  startActivity[m] # a
<1>. SUFFICES ASSUME startActivity[m] = a PROVE FALSE
     OBVIOUS
<1>1. a # None
      BY NoneAssumption
<1>2. Awaits(stack[a], m)
      BY <1>1 DEF IInv, Starting
<1>3. stack[a] # <<>> /\ Last(stack[a]) = stack[a][1]
      BY <1>2 DEF Awaits, Last
<1>. QED  BY <1>2, <1>3 DEF Awaits, Holds, Starter, TopIs, Top

\* The frames of the stack of an activity.
LEMMA StackFacts ==
    ASSUME IInv, NEW a \in Activities
    PROVE  LET s == stack[a]
           IN  /\ s \in Seq(Frames) /\ Len(s) \in Nat
               /\ \A p \in 1..Len(s) :
                     /\ s[p] \in Frames
                     /\ FrameSound(s, p, interestedParties, msgSent, resultReturned, raiseError)
               /\ s # <<>> => Len(s) >= 1 /\ s[1].kind = "act" /\ Last(s) = s[Len(s)]
<1>1. stack[a] \in Seq(Frames)
      BY DEF IInv, Types
<1>2. Len(stack[a]) \in Nat
      BY <1>1
<1>3. \A p \in 1..Len(stack[a]) :
         FrameSound(stack[a], p, interestedParties, msgSent, resultReturned, raiseError)
      BY DEF IInv, StackSound
<1>4. stack[a] # <<>> => Len(stack[a]) >= 1
      BY <1>1, EmptySeq
<1>5. \A p \in 1..Len(stack[a]) : stack[a][p] \in Frames
      BY <1>1, ElementOfSeq
<1>6. Len(stack[a]) >= 1 => stack[a][1].kind = "act"
      BY <1>2, <1>3 DEF FrameSound
<1>. QED  BY <1>1, <1>2, <1>3, <1>4, <1>5, <1>6 DEF Last

\* report_exception: the error is offered to what executes.
LEMMA RaiseFacts ==
    ASSUME NEW u \in Seq(Frames), u # <<>>, u[1].kind = "act"
    PROVE  LET t == Raise(u)
           IN  /\ t \in Seq(Frames) /\ Len(t) = Len(u) + 1
               /\ \A i \in 1..Len(u) : t[i] = u[i]
               /\ t[Len(u) + 1].kind = "raise"
               /\ RaiseSound(t, Len(u) + 1)
<1>. DEFINE c == Current(u)
            e == Raising(c, FALSE, FALSE)
            t == Append(u, e)
            n == Len(u)
<1>1. n \in Nat \ {0}
      BY EmptySeq
<1>2. Executing(u, c, n)
  <2>1. 1 \in 1..n /\ n \in 1..Len(u)
        BY <1>1
  <2>. QED  BY <2>1, CurrentExecutes DEF Current
<1>. HIDE DEF c
<1>3. c \in 1..n /\ c \in Nat \ {0} /\ u[c].kind = "act" /\ \A l \in c + 1..n : u[l].kind # "act"
      BY <1>1, <1>2 DEF Executing
<1>4. e \in Frames /\ e.kind = "raise" /\ e.offered = c
      BY <1>3 DEF Frames, Raising
<1>. HIDE DEF e
<1>5. t \in Seq(Frames) /\ Len(t) = n + 1 /\ (\A i \in 1..n : t[i] = u[i]) /\ t[n + 1] = e
      BY <1>4, PushProperties
<1>. HIDE DEF t
<1>6. \A i \in c + 1..n : i \in 1..n
      BY <1>3
<1>7. RaiseSound(t, n + 1)
  <2>1. n + 1 - 1 = n
        BY <1>1
  <2>. QED  BY <1>1, <1>3, <1>4, <1>5, <1>6, <2>1 DEF RaiseSound
<1>. QED  BY <1>4, <1>5, <1>7 DEF Raise, t, e, c

\* u is the stack s about to send x: s itself, or s with the loop on top
\* moved past x.
Turned(s, u, x, parties) ==
    /\ s # <<>> /\ u # <<>> /\ Len(u) = Len(s)
    /\ \A i \in 1..Len(s) - 1 : u[i] = s[i]
    /\ LET e == s[Len(s)]
           f == u[Len(s)]
       IN  \/ u = s
           \/ /\ e.kind = "notify" /\ f.kind = "notify" /\ f.message = e.message
              /\ f.next = e.next + 1
              /\ e.next \in 1..Len(parties[e.message])
              /\ parties[e.message][e.next] = x

\* The part of s that stays as it is.
Kept(s, u) == IF u = s THEN Len(s) ELSE Len(s) - 1

\* u keeps the first k frames of s: all, or all but that of a loop on top.
Keeps(s, u, k) ==
    LET n == Len(s)
    IN  /\ n \in Nat /\ n >= 1 /\ k \in 0..n /\ k >= n - 1 /\ k # 0
        /\ s[1].kind = "act" /\ u[1].kind = "act" /\ u # <<>> /\ Len(u) = n
        /\ \A i \in 1..k : u[i] = s[i]
        /\ \A i \in 1..n : u[i].kind = s[i].kind
        /\ \A i \in k + 1..n : i = n /\ s[i].kind = "notify" /\ u # s
        /\ \A t \in Seq(Frames) : Len(t) >= n => RestFits(s, t, k)

\* What remains to show of a stack on which something was put after a turn.
LEMMA TurnedKept ==
    ASSUME IInv, NEW a \in Activities, NEW u \in Seq(Frames), NEW x \in Messages,
           Turned(stack[a], u, x, interestedParties)
    PROVE  Keeps(stack[a], u, Kept(stack[a], u))
<1>. DEFINE s == stack[a]
            n == Len(s)
            k == Kept(s, u)
<1>1. n \in Nat /\ n >= 1 /\ s[1].kind = "act"
      BY StackFacts DEF Turned
<1>2. u # s => s[n].kind = "notify" /\ u[n].kind = "notify"
      BY DEF Turned
<1>3. u # s => n >= 2
      BY <1>1, <1>2
<1>4. k = IF u = s THEN n ELSE n - 1
      BY DEF Kept
<1>5. \A i \in 1..n - 1 : u[i] = s[i]
      BY DEF Turned
<1>. HIDE DEF s, n, k
<1>6. k \in 0..n /\ k >= n - 1 /\ k # 0
      BY <1>1, <1>3, <1>4
<1>7. \A i \in 1..k : u[i] = s[i]
      BY <1>1, <1>4, <1>5
<1>8. \A i \in k + 1..n : i = n /\ s[i].kind = "notify" /\ u # s
      BY <1>1, <1>2, <1>4
<1>9. \A i \in 1..n : u[i].kind = s[i].kind
  <2>. SUFFICES ASSUME NEW i \in 1..n PROVE u[i].kind = s[i].kind
       OBVIOUS
  <2>1. i \in 1..k \/ (i = n /\ u # s)
        BY <1>1, <1>4
  <2>. QED  BY <1>2, <1>7, <2>1
<1>10. u[1].kind = "act"
  <2>1. 1 \in 1..n
        BY <1>1
  <2>. QED  BY <1>1, <1>9, <2>1
<1>11. \A t \in Seq(Frames) : RestFits(s, t, k)
      BY <1>8 DEF RestFits, n
<1>12. u # <<>> /\ Len(u) = n
      BY DEF Turned, n, s
<1>. QED  BY <1>1, <1>6, <1>7, <1>8, <1>9, <1>10, <1>11, <1>12 DEF Keeps, s, n, k

\* The loop that was moved past x is sound once x is sent, or given up.
LEMMA TurnedSound ==
    ASSUME IInv, NEW a \in Activities, NEW u \in Seq(Frames), NEW x \in Messages,
           Turned(stack[a], u, x, interestedParties), u # stack[a],
           NEW t, Len(t) >= Len(u), t[Len(u)] = u[Len(u)],
           NEW sent, msgSent \subseteq sent, NEW returned, NEW raised,
           x \in sent \/ Doomed(t, Len(u))
    PROVE  FrameSound(t, Len(u), interestedParties, sent, returned, raised)
<1>. DEFINE s == stack[a]
            n == Len(s)
<1>1. n \in Nat /\ n >= 1 /\ s[1].kind = "act" /\ n = Len(u) /\ s[n] \in Frames
      BY StackFacts DEF Turned
<1>2. PICK e : e = s[n]
      OBVIOUS
<1>3. PICK f : f = u[n]
      OBVIOUS
<1>4. /\ e.kind = "notify" /\ f.kind = "notify" /\ f.message = e.message
      /\ f.next = e.next + 1 /\ e.next \in 1..Len(interestedParties[e.message])
      /\ interestedParties[e.message][e.next] = x
      BY <1>2, <1>3 DEF Turned
<1>5. FrameSound(s, n, interestedParties, msgSent, resultReturned, raiseError)
  <2>1. n \in 1..Len(stack[a])
        BY <1>1
  <2>. QED  BY <2>1, StackFacts
<1>6. n # 1
      BY <1>1, <1>2, <1>4
<1>7. e.next \in Nat /\ e.next >= 1 /\ e.message \in Messages
      BY <1>1, <1>2, <1>4, FrameFacts
<1>8. Len(interestedParties[e.message]) \in Nat
      BY <1>7 DEF IInv, Types
<1>9. \A j \in 1..e.next - 1 : interestedParties[e.message][j] \in msgSent
  <2>1. ~Doomed(s, n)
        BY <1>1 DEF Doomed
  <2>. QED  BY <1>2, <1>4, <1>5, <2>1 DEF FrameSound, NotifySound
<1>10. f.next <= Len(interestedParties[f.message]) + 1
      BY <1>4, <1>7, <1>8
<1>11. ASSUME x \in sent, NEW j \in 1..f.next - 1 PROVE interestedParties[f.message][j] \in sent
  <2>1. j \in 1..e.next - 1 \/ j = e.next
        BY <1>4, <1>7
  <2>. QED  BY <1>4, <1>9, <1>11, <2>1
<1>12. t[n] = f
      BY <1>1, <1>3
<1>13. NotifySound(t, n, interestedParties, sent)
      BY <1>10, <1>11, <1>12, <1>1 DEF NotifySound
<1>. QED  BY <1>1, <1>4, <1>6, <1>12, <1>13 DEF FrameSound

\* An error out of send: of a message that is refused, or whose receiver has
\* no such scope.
LEMMA RefusalKeeps ==
    ASSUME IInv, NEW a \in Activities, NEW u \in Seq(Frames), NEW x \in Messages,
           Turned(stack[a], u, x, interestedParties),
           Become(a, Raise(u)),
           msgSent \subseteq msgSent', msgSent' \subseteq Messages,
           UNCHANGED <<startPending, resultReturned, raiseError, allNotified, startActivity,
                       interestedParties>>,
           \A m \in Messages \ msgSent' : startActivity[m] # a
    PROVE  IInv'
<1>. DEFINE s == stack[a]
            n == Len(s)
            k == Kept(s, u)
            t == Raise(u)
<1>1. /\ n \in Nat /\ n >= 1 /\ k \in 0..n /\ k >= n - 1 /\ k # 0
      /\ u[1].kind = "act" /\ u # <<>> /\ Len(u) = n
      /\ \A i \in 1..k : u[i] = s[i]
      /\ \A i \in k + 1..n : i = n /\ s[i].kind = "notify" /\ u # s
  <2>1. Keeps(s, u, k)
        BY TurnedKept
  <2>. HIDE DEF k, t
  <2>. QED  BY <2>1 DEF Keeps
<1>2. /\ t \in Seq(Frames) /\ Len(t) = n + 1
      /\ \A i \in 1..n : t[i] = u[i]
      /\ t[n + 1].kind = "raise" /\ RaiseSound(t, n + 1)
      BY <1>1, RaiseFacts
<1>3. RestFits(s, t, k)
      BY <1>1, <1>2, TurnedKept DEF Keeps
<1>4. k = IF u = s THEN n ELSE n - 1
      BY DEF Kept
<1>5. ASSUME NEW p \in k + 1..Len(t)
      PROVE  /\ FrameSound(t, p, interestedParties, msgSent', resultReturned, raiseError)
             /\ t[p].kind # "send"
             /\ t[p].kind = "act" => t[p].objnotify = None
  <2>. HIDE DEF t, s, n, k
  <2>1. CASE p = n + 1
        BY <1>1, <1>2, <2>1 DEF FrameSound
  <2>2. CASE p # n + 1
    <3>1. p = n /\ u # s
          BY <1>1, <1>2, <2>2
    <3>2. Doomed(t, n)
      <4>1. PICK q \in Nat : q = n + 1
            BY <1>1
      <4>2. q \in n + 1..Len(t) /\ t[q].kind = "raise"
            BY <1>1, <1>2, <4>1
      <4>3. \A i \in n + 1..q - 1 : FALSE
            BY <1>1, <4>1
      <4>. QED  BY <4>2, <4>3 DEF Doomed
    <3>3. t[n] = u[n] /\ Len(t) >= Len(u)
          BY <1>1, <1>2
    <3>4. FrameSound(t, n, interestedParties, msgSent', resultReturned, raiseError)
          BY <1>1, <3>1, <3>2, <3>3, TurnedSound DEF s
    <3>5. u[n].kind = "notify"
          BY <3>1 DEF Turned, s, n
    <3>. QED  BY <3>1, <3>3, <3>4, <3>5
  <2>. QED  BY <2>1, <2>2
<1>6. Agrees(s, t, k)
      BY <1>1, <1>2 DEF Agrees
<1>7. k # 0 /\ s[k].kind = "send" => k = n \/ (k < Len(t) /\ t[k + 1].kind # "act")
  <2>1. ASSUME k # n PROVE k < Len(t) /\ t[k + 1].kind # "act"
    <3>1. k + 1 = n /\ u # s
          BY <1>1, <1>4, <2>1
    <3>2. u[n].kind = "notify"
          BY <3>1 DEF Turned
    <3>3. t[n] = u[n]
          BY <1>1, <1>2
    <3>. QED  BY <1>1, <1>2, <3>1, <3>2, <3>3
  <2>. QED  BY <2>1
<1>8. allNotified' \subseteq Messages /\ AllNotifiedAreSent'
      BY DEF IInv, Types, AllNotifiedAreSent
<1>. HIDE DEF t, k, n
<1>9. UNCHANGED <<startPending, resultReturned, raiseError, startActivity, interestedParties>>
      OBVIOUS
<1>10. Become(a, t)
      BY DEF t
<1>. HIDE DEF s
<1>. QED  BY <1>2, <1>3, <1>5, <1>6, <1>7, <1>8, <1>9, <1>10, Replace DEF s, n

\* What send puts on a stack: the message on top, held by what executes.
LEMMA SentStack ==
    ASSUME NEW u \in Seq(Frames), u # <<>>, u[1].kind = "act", NEW x \in Messages
    PROVE  LET t == Append(SetObjNotify(u, x), Sending(x))
               c == Current(u)
               n == Len(u)
           IN  /\ n \in Nat /\ n >= 1
               /\ t \in Seq(Frames) /\ Len(t) = n + 1
               /\ Executing(u, c, n)
               /\ \A i \in 1..n : i # c => t[i] = u[i]
               /\ Holds(t, c, x) /\ t[c].native = u[c].native
               /\ Sends(t, n + 1, x)
<1>. DEFINE c == Current(u)
            v == SetObjNotify(u, x)
            n == Len(u)
<1>1. n \in Nat /\ n >= 1
      BY EmptySeq
<1>2. /\ v \in Seq(Frames) /\ Len(v) = n
      /\ Executing(u, c, n)
      /\ \A i \in 1..n : i # c => v[i] = u[i]
      /\ v[c].kind = "act" /\ v[c].native = u[c].native /\ v[c].objnotify = x
  <2>1. x \in Messages \cup {None}
        OBVIOUS
  <2>. QED  BY <2>1, SetObjNotifyFacts
<1>3. c \in 1..n
      BY <1>2 DEF Executing
<1>4. Sending(x) \in Frames /\ Sending(x).kind = "send" /\ Sending(x).message = x
      BY DEF Frames, Sending
<1>. HIDE DEF v, c
<1>5. /\ Append(v, Sending(x)) \in Seq(Frames) /\ Len(Append(v, Sending(x))) = n + 1
      /\ \A i \in 1..n : Append(v, Sending(x))[i] = v[i]
      /\ Append(v, Sending(x))[n + 1] = Sending(x)
      BY <1>2, <1>4, PushProperties
<1>. QED  BY <1>1, <1>2, <1>3, <1>4, <1>5 DEF Holds, Sends, v, c

\* A message that gets as far as its receiver.
LEMMA SendKeeps ==
    ASSUME IInv, NEW a \in Activities, NEW u \in Seq(Frames), NEW x \in Messages,
           Turned(stack[a], u, x, interestedParties),
           ~Refused(a, x),
           Become(a, Append(SetObjNotify(u, x), Sending(x))),
           msgSent' = msgSent \cup {x},
           startActivity' = [startActivity EXCEPT ![x] = a],
           UNCHANGED <<startPending, resultReturned, raiseError, allNotified, interestedParties>>,
           \A m \in Messages \ msgSent : startActivity[m] = a => m = x
    PROVE  IInv'
<1>. DEFINE s == stack[a]
            n == Len(s)
            k == Kept(s, u)
            c == Current(u)
            t == Append(SetObjNotify(u, x), Sending(x))
            st == [stack EXCEPT ![a] = u]
<1>1. /\ n \in Nat /\ n >= 1 /\ k \in 0..n /\ k >= n - 1 /\ k # 0
      /\ u[1].kind = "act" /\ u # <<>> /\ Len(u) = n
      /\ \A i \in 1..k : u[i] = s[i]
      /\ \A i \in 1..n : u[i].kind = s[i].kind
      /\ \A i \in k + 1..n : i = n /\ s[i].kind = "notify" /\ u # s
  <2>1. Keeps(s, u, k)
        BY TurnedKept
  <2>. HIDE DEF k, t, st, c
  <2>. QED  BY <2>1 DEF Keeps
<1>2. /\ t \in Seq(Frames) /\ Len(t) = n + 1
      /\ Executing(u, c, n)
      /\ \A i \in 1..n : i # c => t[i] = u[i]
      /\ Holds(t, c, x) /\ t[c].native = u[c].native
      /\ Sends(t, n + 1, x)
  <2>1. /\ t \in Seq(Frames) /\ Len(t) = Len(u) + 1
        /\ Executing(u, c, Len(u))
        /\ \A i \in 1..Len(u) : i # c => t[i] = u[i]
        /\ Holds(t, c, x) /\ t[c].native = u[c].native
        /\ Sends(t, Len(u) + 1, x)
        BY <1>1, SentStack
  <2>2. Len(u) = n
        BY <1>1
  <2>. HIDE DEF n, t, c
  <2>. QED  BY <2>1, <2>2
<1>3. RestFits(s, t, k)
  <2>1. \A v \in Seq(Frames) : Len(v) >= n => RestFits(s, v, k)
        BY TurnedKept DEF Keeps
  <2>2. t \in Seq(Frames) /\ Len(t) >= n
        BY <1>1, <1>2
  <2>. HIDE DEF n, t, k
  <2>. QED  BY <2>1, <2>2
<1>4. k = IF u = s THEN n ELSE n - 1
      BY DEF Kept
<1>5. Become(a, t) /\ s = stack[a] /\ s \in Seq(Frames)
      BY DEF IInv, Types
<1>6. st \in [Activities -> Seq(Frames)] /\ st[a] = u /\ \A b \in Activities \ {a} : st[b] = stack[b]
      BY DEF IInv, Types
<1>7. [st EXCEPT ![a] = t] = [stack EXCEPT ![a] = t]
      OBVIOUS
<1>8. x \notin msgSent /\ (x \in startPending => startActivity[x] = a)
      BY DEF Refused
<1>9. Turned(s, u, x, interestedParties)
      OBVIOUS
<1>. HIDE DEF c, t, k, s, st
<1>10. c \in 1..k /\ Executing(s, c, k)
  <2>1. c \in 1..n /\ u[c].kind = "act" /\ \A l \in c + 1..n : u[l].kind # "act"
        BY <1>2 DEF Executing
  <2>2. c \in 1..k
        BY <1>1, <2>1, <1>5, <1>4
  <2>3. s[c].kind = "act" /\ \A l \in c + 1..k : s[l].kind # "act"
        BY <1>1, <2>1, <2>2
  <2>. QED  BY <2>2, <2>3 DEF Executing
<1>11. Carries(s, t, k)
  <2>1. \A i \in 1..k : i \in 1..n
        BY <1>1
  <2>2. t[c].kind = "act" /\ s[c].kind = "act" /\ t[c].native = s[c].native
        BY <1>1, <1>2, <1>10 DEF Holds, Executing
  <2>3. \A i \in 1..k : i # c => t[i] = s[i]
        BY <1>1, <1>2, <2>1
  <2>4. k \in 0..n /\ k <= Len(t)
        BY <1>1, <1>2
  <2>. QED  BY <2>2, <2>3, <2>4 DEF Carries
<1>12. TopFits(s, t, k)
  <2>1. \A i \in 1..k : t[i] = s[i] \/ Executing(s, i, k)
        BY <1>1, <1>2, <1>10
  <2>2. k < Len(t) /\ t[k + 1].kind # "act"
    <3>1. CASE k = n
          BY <1>1, <1>2, <3>1 DEF Sends
    <3>2. CASE k # n
      <4>1. k + 1 = n /\ n \in k + 1..n /\ n \in 1..n
            BY <1>1, <3>2
      <4>2. n # c
            BY <1>1, <1>10, <4>1
      <4>3. s[n].kind = "notify"
            BY <1>1, <4>1
      <4>4. u[n].kind = "notify"
            BY <1>1, <4>1, <4>3
      <4>5. t[n] = u[n]
            BY <1>2, <4>1, <4>2
      <4>6. k < Len(t)
            BY <1>1, <1>2
      <4>. QED  BY <4>1, <4>4, <4>5, <4>6
    <3>. QED  BY <3>1, <3>2
  <2>. QED  BY <2>1, <2>2 DEF TopFits
<1>13. ASSUME NEW p \in k + 1..Len(t)
       PROVE  FrameSound(t, p, interestedParties, msgSent', resultReturned', raiseError')
  <2>1. CASE p = n + 1
    <3>1. ~(x \in raiseError')
          BY <1>8 DEF IInv
    <3>2. ASSUME NEW i \in 1..p, Executing(t, i, p) PROVE t[i].objnotify = x
      <4>1. t[p].kind # "act"
            BY <1>2, <2>1 DEF Sends
      <4>2. i \in 1..n /\ \A l \in i + 1..n : t[l].kind # "act"
            BY <1>1, <2>1, <3>2, <4>1 DEF Executing
      <4>3. \A l \in c + 1..n : t[l].kind # "act"
        <5>1. \A l \in c + 1..n : l \in 1..n /\ l # c /\ u[l].kind # "act"
              BY <1>1, <1>2, <1>10 DEF Executing
        <5>. QED  BY <1>2, <5>1
      <4>4. i = c
        <5>1. t[i].kind = "act" /\ t[c].kind = "act" /\ c \in 1..n
              BY <1>1, <1>2, <1>10, <3>2 DEF Executing, Holds
        <5>. QED  BY <1>1, <4>2, <4>3, <5>1
      <4>. QED  BY <1>2, <4>4 DEF Holds
    <3>3. SendSound(t, p, msgSent', resultReturned', raiseError')
          BY <1>2, <2>1, <3>1, <3>2 DEF SendSound, Sends
    <3>. QED  BY <1>1, <1>2, <2>1, <3>3 DEF FrameSound, Sends
  <2>2. CASE p # n + 1
    <3>1. p = n /\ u # s /\ p \in k + 1..n
          BY <1>1, <1>2, <2>2
    <3>2. n # c
          BY <1>1, <1>10, <3>1
    <3>3. t[n] = u[n] /\ Len(t) >= Len(u)
          BY <1>1, <1>2, <3>2
    <3>4. FrameSound(t, n, interestedParties, msgSent', resultReturned', raiseError')
          BY <1>1, <3>1, <3>3, TurnedSound DEF s
    <3>. QED  BY <3>1, <3>4
  <2>. QED  BY <2>1, <2>2
<1>14. Holders(st, msgSent, resultReturned, startActivity)
  <2>1. /\ stack \in [Activities -> Seq(Frames)]
        /\ Holders(stack, msgSent, resultReturned, startActivity)
        BY DEF IInv, Types
  <2>2. Carries(stack[a], u, k)
        BY <1>1, <1>5 DEF Carries, n
  <2>3. \A m \in Messages : \A i \in 1..Len(u) :
           /\ Holds(u, i, m) => i \in 1..k /\ Holds(stack[a], i, m)
           /\ Sends(u, i, m) => i \in 1..k /\ Sends(stack[a], i, m)
    <3>. SUFFICES ASSUME NEW m \in Messages, NEW i \in 1..Len(u)
                  PROVE  /\ Holds(u, i, m) => i \in 1..k /\ Holds(stack[a], i, m)
                         /\ Sends(u, i, m) => i \in 1..k /\ Sends(stack[a], i, m)
         OBVIOUS
    <3>1. i \in 1..k \/ (i \in k + 1..n /\ i = n /\ u[i].kind = "notify")
          BY <1>1
    <3>. QED  BY <1>1, <1>5, <3>1 DEF Holds, Sends
  <2>. QED  BY <2>1, <2>2, <2>3, HoldersKept DEF st
<1>15. Starting(st, msgSent, startPending, startActivity)
  <2>1. CASE u = s
    <3>1. st = stack
          BY <1>5, <2>1 DEF st, IInv, Types
    <3>. QED  BY <3>1 DEF IInv
  <2>2. CASE u # s
    <3>1. s # <<>> /\ Last(s) = s[n] /\ s[n].kind = "notify"
          BY <1>1, <1>4, <1>5, <2>2, StackFacts DEF Last, Turned, n
    <3>2. ~Starter(a)
          BY <1>5, <3>1 DEF Starter, TopIs, Top
    <3>3. \A m \in Messages \ msgSent : startActivity[m] # a
          BY <3>2, NothingToStart
    <3>4. /\ stack \in [Activities -> Seq(Frames)]
          /\ startActivity \in [Messages -> Activities \cup {None}]
          /\ Starting(stack, msgSent, startPending, startActivity)
          BY DEF IInv, Types
    <3>. QED  BY <3>3, <3>4, StartingKept DEF st
  <2>. QED  BY <2>1, <2>2
<1>16. \A b \in Activities : \A j \in 1..Len(st[b]) : ~Sends(st[b], j, x)
  <2>. SUFFICES ASSUME NEW b \in Activities, NEW j \in 1..Len(st[b]), Sends(st[b], j, x)
                PROVE  FALSE
       OBVIOUS
  <2>1. j \in 1..Len(stack[b]) /\ Sends(stack[b], j, x)
    <3>1. CASE b # a
          BY <1>6, <3>1
    <3>2. CASE b = a /\ j \in 1..k
          BY <1>1, <1>5, <1>6, <3>2 DEF Sends, n
    <3>3. CASE b = a /\ j \notin 1..k
      <4>1. j \in k + 1..n /\ j \in 1..n
            BY <1>1, <1>6, <3>3
      <4>2. u[j].kind = "notify"
            BY <1>1, <4>1
      <4>. QED  BY <1>6, <3>3, <4>2 DEF Sends
    <3>. QED  BY <3>1, <3>2, <3>3
  <2>2. FrameSound(stack[b], j, interestedParties, msgSent, resultReturned, raiseError)
        BY <2>1, StackFacts
  <2>. QED  BY <1>8, <2>1, <2>2 DEF FrameSound, SendSound, Sends
<1>17. Holders([stack EXCEPT ![a] = t], msgSent', resultReturned', startActivity')
  <2>1. Carries(st[a], t, n)
    <3>1. c \in 1..n /\ u[c].kind = "act"
          BY <1>1, <1>2 DEF Executing
    <3>2. \A i \in 1..n : /\ t[i].kind = u[i].kind
                          /\ u[i].kind = "act" => t[i].native = u[i].native
                          /\ u[i].kind # "act" => t[i] = u[i]
          BY <1>2, <3>1 DEF Holds
    <3>3. n \in 0..n /\ n <= Len(t)
          BY <1>1, <1>2
    <3>. QED  BY <1>1, <1>6, <3>2, <3>3 DEF Carries
  <2>2. n = Len(st[a]) /\ Executing(st[a], c, n) /\ \A i \in 1..n : i # c => t[i] = st[a][i]
        BY <1>1, <1>2, <1>6
  <2>3. /\ startActivity \in [Messages -> Activities \cup {None}]
        /\ resultReturned \subseteq msgSent
        BY DEF IInv, Types
  <2>. HIDE DEF n
  <2>4. Holders([st EXCEPT ![a] = t], msgSent \cup {x}, resultReturned, [startActivity EXCEPT ![x] = a])
        BY <1>2, <1>6, <1>8, <1>14, <1>15, <1>16, <2>1, <2>2, <2>3, HoldersSent
  <2>. QED  BY <1>7, <2>4
<1>18. Starting([stack EXCEPT ![a] = t], msgSent', startPending', startActivity')
  <2>1. /\ stack \in [Activities -> Seq(Frames)]
        /\ startActivity \in [Messages -> Activities \cup {None}]
        /\ Starting(stack, msgSent, startPending, startActivity)
        BY DEF IInv, Types
  <2>2. \A m \in Messages \ msgSent' : startActivity'[m] = startActivity[m] /\ startActivity[m] # a
        BY <2>1
  <2>. QED  BY <2>1, <2>2, StartingKept
<1>19. /\ msgSent \subseteq msgSent' /\ msgSent' \subseteq Messages
       /\ startPending' \subseteq Messages /\ allNotified' \subseteq Messages
       /\ resultReturned' \cup raiseError' \subseteq msgSent'
       /\ resultReturned' \cap raiseError' = {}
       /\ startActivity' \in [Messages -> Activities \cup {None}]
       /\ UNCHANGED interestedParties
       /\ resultReturned' = resultReturned /\ raiseError' = raiseError
       /\ AllNotifiedAreSent'
       BY DEF IInv, Types, AllNotifiedAreSent
<1>. QED  BY <1>2, <1>3, <1>5, <1>11, <1>12, <1>13, <1>17, <1>18, <1>19, Assemble

\* send up to the call of the receiver, from wherever it is called.
LEMMA CallSendKeeps ==
    ASSUME IInv, NEW a \in Activities, NEW u \in Seq(Frames), NEW x \in Messages,
           Turned(stack[a], u, x, interestedParties),
           CallSend(a, x, u), UNCHANGED <<allNotified, interestedParties>>,
           \A m \in Messages \ msgSent : startActivity[m] = a => m = x
    PROVE  IInv'
<1>1. UNCHANGED <<startPending, resultReturned, raiseError, allNotified, interestedParties>>
      BY DEF CallSend
<1>2. msgSent \subseteq Messages
      BY DEF IInv, Types
<1>3. CASE Refused(a, x) /\ Become(a, Raise(u)) /\ UNCHANGED <<msgSent, startActivity>>
  <2>1. \A m \in Messages \ msgSent' : startActivity[m] # a
        BY <1>3 DEF Refused
  <2>2. UNCHANGED <<startPending, resultReturned, raiseError, allNotified, startActivity,
                    interestedParties>>
        BY <1>1, <1>3
  <2>. QED  BY <1>2, <1>3, <2>1, <2>2, RefusalKeeps
<1>4. CASE msgSent' = msgSent \cup {x} /\ Become(a, Raise(u)) /\ UNCHANGED startActivity
  <2>1. \A m \in Messages \ msgSent' : startActivity[m] # a
        BY <1>4
  <2>2. UNCHANGED <<startPending, resultReturned, raiseError, allNotified, startActivity,
                    interestedParties>>
        BY <1>1, <1>4
  <2>3. msgSent \subseteq msgSent' /\ msgSent' \subseteq Messages
        BY <1>2, <1>4
  <2>. QED  BY <1>4, <2>1, <2>2, <2>3, RefusalKeeps
<1>5. CASE /\ ~Refused(a, x)
           /\ msgSent' = msgSent \cup {x}
           /\ Become(a, Append(SetObjNotify(u, x), Sending(x)))
           /\ startActivity' = [startActivity EXCEPT ![x] = a]
      BY <1>1, <1>5, SendKeeps
<1>. QED  BY <1>3, <1>4, <1>5 DEF CallSend

-----------------------------------------------------------------------------
(* Results and failures.                                                   *)

\* What sendNotification puts on a stack: the loop on top, and what executes
\* lets go of its message.
LEMMA NotificationStack ==
    ASSUME NEW u \in Seq(Frames), u # <<>>, u[1].kind = "act", NEW x \in Messages
    PROVE  LET t == SendNotification(u, x)
               c == Current(u)
               n == Len(u)
           IN  /\ t \in Seq(Frames) /\ Len(t) = n + 1
               /\ Executing(u, c, n)
               /\ \A i \in 1..n : i # c => t[i] = u[i]
               /\ Holds(t, c, None) /\ t[c].native = u[c].native
               /\ t[n + 1].kind = "notify" /\ t[n + 1].message = x /\ t[n + 1].next = 1
<1>. DEFINE c == Current(u)
            v == SetObjNotify(u, None)
            n == Len(u)
            e == Notifying(x, 1)
<1>1. n \in Nat /\ n >= 1
      BY EmptySeq
<1>2. /\ v \in Seq(Frames) /\ Len(v) = n
      /\ Executing(u, c, n)
      /\ \A i \in 1..n : i # c => v[i] = u[i]
      /\ v[c].kind = "act" /\ v[c].native = u[c].native /\ v[c].objnotify = None
  <2>1. None \in Messages \cup {None}
        OBVIOUS
  <2>. QED  BY <2>1, SetObjNotifyFacts
<1>3. c \in 1..n
      BY <1>2 DEF Executing
<1>4. e \in Frames /\ e.kind = "notify" /\ e.message = x /\ e.next = 1
      BY DEF Frames, Notifying
<1>. HIDE DEF v, c, e
<1>5. /\ Append(v, e) \in Seq(Frames) /\ Len(Append(v, e)) = n + 1
      /\ \A i \in 1..n : Append(v, e)[i] = v[i]
      /\ Append(v, e)[n + 1] = e
      BY <1>2, <1>4, PushProperties
<1>. QED  BY <1>1, <1>2, <1>3, <1>4, <1>5 DEF Holds, SendNotification, v, c, e

\* A call that returns: a message whose method it was has its result.
LEMMA ReturnToKeeps ==
    ASSUME IInv, NEW a \in Activities, NEW f \in Seq(Frames), NEW k \in 0..Len(stack[a]),
           Len(f) = k, \A i \in 1..k : f[i] = stack[a][i],
           \A q \in k + 1..Len(stack[a]) : stack[a][q].kind # "raise",
           ReturnTo(a, f),
           UNCHANGED <<msgSent, startPending, raiseError, startActivity, interestedParties>>,
           allNotified' \subseteq Messages, AllNotifiedAreSent',
           \A m \in Messages \ msgSent : startActivity[m] # a
    PROVE  IInv'
<1>. DEFINE s == stack[a]
            n == Len(s)
<1>1. /\ s \in Seq(Frames) /\ n \in Nat /\ k \in Nat /\ k <= n
      /\ msgSent \subseteq Messages
      /\ \A p \in 1..n : s[p] \in Frames
                         /\ FrameSound(s, p, interestedParties, msgSent, resultReturned, raiseError)
      BY StackFacts DEF IInv, Types
<1>2. f # <<>> <=> k # 0
      BY EmptySeq
<1>3. Last(f) = f[k]
      BY DEF Last
<1>4. CASE ~(f # <<>> /\ Last(f).kind = "send")
  <2>1. Become(a, f) /\ UNCHANGED resultReturned
        BY <1>4 DEF ReturnTo
  <2>2. k # 0 => s[k].kind # "send"
    <3>1. k # 0 => k \in 1..k
          BY <1>1
    <3>. QED  BY <1>2, <1>3, <1>4, <3>1
  <2>3. Agrees(s, f, k)
        BY <1>1 DEF Agrees
  <2>4. RestFits(s, f, k)
        BY DEF RestFits
  <2>5. k + 1..Len(f) = {}
        BY <1>1
  <2>. HIDE DEF s, n
  <2>6. \A p \in k + 1..Len(f) :
           /\ FrameSound(f, p, interestedParties, msgSent', resultReturned, raiseError)
           /\ f[p].kind # "send"
           /\ f[p].kind = "act" => f[p].objnotify = None
        BY <2>5
  <2>. QED  BY <1>1, <2>1, <2>2, <2>3, <2>4, <2>6, Replace DEF s
<1>5. CASE f # <<>> /\ Last(f).kind = "send"
  <2>. DEFINE x == f[k].message
              c == Current(f)
              t == SendNotification(f, x)
  <2>1. k >= 1 /\ k \in 1..k /\ k \in 1..n /\ f[k] = s[k] /\ s[k].kind = "send"
        BY <1>1, <1>2, <1>3, <1>5
  <2>2. x \in Messages /\ Sends(s, k, x) /\ Sends(f, k, x)
    <3>1. s[k] \in Frames
          BY <1>1, <2>1
    <3>. QED  BY <2>1, <3>1, FrameFacts DEF Sends
  <2>3. f[1].kind = "act"
    <3>1. 1 \in 1..k /\ 1 \in 1..n
          BY <1>1, <2>1
    <3>. QED  BY <1>1, <3>1 DEF FrameSound
  <2>4. resultReturned' = resultReturned \cup {x} /\ Become(a, t)
        BY <1>3, <1>5 DEF ReturnTo
  <2>. HIDE DEF x, s, n
  <2>5. /\ t \in Seq(Frames) /\ Len(t) = k + 1
        /\ Executing(f, c, k)
        /\ \A i \in 1..k : i # c => t[i] = f[i]
        /\ Holds(t, c, None) /\ t[c].native = f[c].native
        /\ t[k + 1].kind = "notify" /\ t[k + 1].message = x /\ t[k + 1].next = 1
        BY <1>5, <2>2, <2>3, NotificationStack
  <2>. HIDE DEF t, c
  <2>6. c \in 1..k /\ f[c].kind = "act" /\ f[c] = s[c] /\ Executing(s, c, k)
    <3>1. c \in 1..k /\ f[c].kind = "act" /\ \A l \in c + 1..k : f[l].kind # "act"
          BY <2>5 DEF Executing
    <3>2. \A l \in c + 1..k : l \in 1..k
          BY <1>1, <3>1
    <3>. QED  BY <3>1, <3>2 DEF Executing, s
  <2>7. \A i \in 1..k : i # c => t[i] = s[i]
        BY <2>5 DEF s
  <2>8. Carries(s, t, k)
    <3>1. k \in 0..n /\ k <= Len(t)
          BY <1>1, <2>5
    <3>. QED  BY <2>5, <2>6, <2>7, <3>1 DEF Carries, Holds, n
  <2>9. RestFits(s, t, k)
        BY DEF RestFits, s
  <2>10. TopFits(s, t, k)
    <3>1. k < Len(t) /\ t[k + 1].kind # "act"
          BY <1>1, <2>5
    <3>. QED  BY <2>6, <2>7, <3>1 DEF TopFits
  <2>11. x \notin raiseError /\ x \in msgSent
    <3>1. SendSound(s, k, msgSent, resultReturned, raiseError)
          BY <1>1, <2>1 DEF FrameSound
    <3>2. ~Doomed(s, k)
          BY DEF Doomed, s
    <3>. QED  BY <2>2, <3>1, <3>2 DEF SendSound, Sends
  <2>12. ASSUME NEW p \in k + 1..Len(t)
         PROVE  FrameSound(t, p, interestedParties, msgSent', resultReturned', raiseError')
    <3>1. p = k + 1 /\ p # 1
          BY <1>1, <2>1, <2>5
    <3>2. Len(interestedParties[x]) \in Nat
          BY <2>2 DEF IInv, Types
    <3>3. 1..t[p].next - 1 = {} /\ t[p].next <= Len(interestedParties[t[p].message]) + 1
          BY <2>5, <3>1, <3>2
    <3>4. NotifySound(t, p, interestedParties, msgSent')
          BY <3>3 DEF NotifySound
    <3>. QED  BY <2>5, <3>1, <3>4 DEF FrameSound
  <2>13. Holders([stack EXCEPT ![a] = t], msgSent', resultReturned', startActivity')
    <3>1. /\ stack \in [Activities -> Seq(Frames)]
          /\ Holders(stack, msgSent, resultReturned, startActivity)
          BY DEF IInv, Types
    <3>2. \A m \in Messages : \A i \in 1..Len(t) :
             /\ Holds(t, i, m) => i \in 1..k /\ Holds(stack[a], i, m)
             /\ Sends(t, i, m) => i \in 1..k /\ Sends(stack[a], i, m)
      <4>. SUFFICES ASSUME NEW m \in Messages, NEW i \in 1..Len(t)
                    PROVE  /\ Holds(t, i, m) => i \in 1..k /\ Holds(s, i, m)
                           /\ Sends(t, i, m) => i \in 1..k /\ Sends(s, i, m)
           BY DEF s
      <4>1. i \in 1..k \/ i = k + 1
            BY <1>1, <2>5
      <4>. QED  BY <2>5, <2>7, <4>1, NoneAssumption DEF Holds, Sends
    <3>3. \A m \in Messages : m \in resultReturned' \ resultReturned => m = x
          BY <2>4
    <3>4. ASSUME NEW b \in Activities, NEW i \in 1..Len(stack[b]), Holds(stack[b], i, x)
          PROVE  b = a /\ i = c
      <4>1. b = a /\ Executing(s, i, k)
            BY <1>1, <2>1, <2>2, <3>1, <3>4 DEF Holders, s, n
      <4>. QED  BY <1>1, <2>6, <4>1, ExecutingOne
    <3>5. \A b \in Activities \ {a} : \A i \in 1..Len(stack[b]) : ~Holds(stack[b], i, x)
          BY <3>4
    <3>6. ASSUME NEW i \in 1..Len(t), Holds(t, i, x) PROVE FALSE
      <4>1. i \in 1..k /\ Holds(stack[a], i, x)
            BY <2>2, <3>2, <3>6
      <4>2. i \in 1..Len(stack[a])
            BY <1>1, <4>1 DEF s, n
      <4>3. i = c
            BY <3>4, <4>1, <4>2
      <4>. QED  BY <2>2, <2>5, <3>6, <4>3, NoneAssumption DEF Holds
    <3>7. Carries(stack[a], t, k)
          BY <2>8 DEF s
    <3>8. \A m \in Messages : m \in resultReturned' \ resultReturned =>
             /\ \A b \in Activities \ {a} : \A i \in 1..Len(stack[b]) : ~Holds(stack[b], i, m)
             /\ \A i \in 1..Len(t) : ~Holds(t, i, m)
          BY <3>3, <3>5, <3>6
    <3>. QED  BY <2>5, <3>1, <3>2, <3>7, <3>8, HoldersKept
  <2>14. Starting([stack EXCEPT ![a] = t], msgSent', startPending', startActivity')
    <3>1. /\ stack \in [Activities -> Seq(Frames)]
          /\ startActivity \in [Messages -> Activities \cup {None}]
          /\ Starting(stack, msgSent, startPending, startActivity)
          BY DEF IInv, Types
    <3>. QED  BY <3>1, StartingKept
  <2>15. /\ msgSent \subseteq msgSent' /\ msgSent' \subseteq Messages
         /\ startPending' \subseteq Messages
         /\ resultReturned \subseteq resultReturned'
         /\ resultReturned' \cup raiseError' \subseteq msgSent'
         /\ resultReturned' \cap raiseError' = {}
         /\ startActivity' \in [Messages -> Activities \cup {None}]
         /\ UNCHANGED interestedParties
         /\ raiseError' = raiseError
         BY <2>4, <2>11 DEF IInv, Types
  <2>. QED  BY <2>4, <2>5, <2>8, <2>9, <2>10, <2>12, <2>13, <2>14, <2>15, Assemble DEF s
<1>. QED  BY <1>4, <1>5

\* trap tells the message of the activation on offer.
LEMMA TellKeeps ==
    ASSUME IInv, NEW a \in Activities, TellMessage(a)
    PROVE  IInv'
<1>. DEFINE s == stack[a]
            n == Len(s)
            k == n - 1
            o == s[n].offered
            x == s[o].objnotify
            e == [s[n] EXCEPT !.told = TRUE]
            u == Append(Front(s), e)
            c == Current(u)
            t == SendNotification(u, x)
<1>1. s # <<>> /\ Last(s).kind = "raise" /\ Last(s) = s[n]
      BY DEF TellMessage, Raised, TopIs, Top, Last
<1>2. /\ s \in Seq(Frames) /\ n \in Nat /\ n >= 1 /\ s[1].kind = "act"
      /\ \A p \in 1..n : s[p] \in Frames
                         /\ FrameSound(s, p, interestedParties, msgSent, resultReturned, raiseError)
      BY <1>1, StackFacts
<1>3. /\ raiseError' = raiseError \cup {x} /\ Become(a, t) /\ x # None
      /\ UNCHANGED <<msgSent, startPending, resultReturned, allNotified, startActivity,
                     interestedParties>>
      BY <1>1 DEF TellMessage, Told, Offered, Top
<1>. HIDE DEF s, n, x
<1>4. n \in 1..n /\ s[n].kind = "raise" /\ s[n] \in Frames /\ n >= 2 /\ k \in Nat /\ k >= 1
  <2>1. n \in 1..n /\ s[n].kind = "raise" /\ s[n] \in Frames
        BY <1>1, <1>2
  <2>2. n # 1
        BY <1>2, <2>1
  <2>. QED  BY <1>2, <2>1, <2>2
<1>5. RaiseSound(s, n) /\ o \in 1..k /\ o \in Nat /\ s[o].kind = "act"
  <2>1. RaiseSound(s, n)
        BY <1>2, <1>4 DEF FrameSound
  <2>2. o \in Nat /\ o >= 1
        BY <1>4, FrameFacts
  <2>. QED  BY <1>2, <2>1, <2>2 DEF RaiseSound
<1>. HIDE DEF o
<1>6. o \in 1..n /\ x \in Messages /\ Holds(s, o, x)
  <2>1. o \in 1..n
        BY <1>2, <1>5
  <2>2. s[o] \in Frames
        BY <1>2, <2>1
  <2>3. s[o].objnotify \in Messages \cup {None}
        BY <1>5, <2>2, FrameFacts
  <2>. QED  BY <1>3, <1>5, <2>1, <2>3 DEF Holds, x
<1>7. e \in Frames /\ e.kind = "raise" /\ e.offered = o
  <2>1. s[n] \in [kind : {"raise"}, offered : Nat \ {0}, told : BOOLEAN, propagated : BOOLEAN]
        BY <1>4 DEF Frames
  <2>. QED  BY <2>1 DEF Frames, o
<1>. HIDE DEF e
<1>8. /\ u \in Seq(Frames) /\ u # <<>> /\ Len(u) = n
      /\ \A i \in 1..k : u[i] = s[i]
      /\ u[n] = e
      BY <1>1, <1>2, <1>7, RetopProperties DEF n
<1>. HIDE DEF u
<1>9. u[1].kind = "act"
  <2>1. 1 \in 1..k
        BY <1>4
  <2>. QED  BY <1>2, <1>8, <2>1
<1>10. /\ t \in Seq(Frames) /\ Len(t) = n + 1
       /\ Executing(u, c, n)
       /\ \A i \in 1..n : i # c => t[i] = u[i]
       /\ Holds(t, c, None) /\ t[c].native = u[c].native
       /\ t[n + 1].kind = "notify" /\ t[n + 1].message = x /\ t[n + 1].next = 1
  <2>1. /\ t \in Seq(Frames) /\ Len(t) = Len(u) + 1
        /\ Executing(u, c, Len(u))
        /\ \A i \in 1..Len(u) : i # c => t[i] = u[i]
        /\ Holds(t, c, None) /\ t[c].native = u[c].native
        /\ t[Len(u) + 1].kind = "notify" /\ t[Len(u) + 1].message = x /\ t[Len(u) + 1].next = 1
        BY <1>6, <1>8, <1>9, NotificationStack
  <2>. HIDE DEF t, c
  <2>. QED  BY <1>8, <2>1
<1>. HIDE DEF t, c
<1>11. c \in 1..k /\ s[c].kind = "act" /\ Executing(s, c, k)
  <2>1. c \in 1..n /\ u[c].kind = "act" /\ \A l \in c + 1..n : u[l].kind # "act"
        BY <1>10 DEF Executing
  <2>2. c # n
        BY <1>7, <1>8, <2>1
  <2>3. c \in 1..k
        BY <1>2, <2>1, <2>2
  <2>4. \A l \in c + 1..k : l \in 1..k /\ l \in c + 1..n
        BY <1>2, <2>3
  <2>5. \A l \in c + 1..k : s[l].kind # "act"
        BY <1>8, <2>1, <2>4
  <2>6. s[c].kind = "act"
        BY <1>8, <2>1, <2>3
  <2>. QED  BY <2>3, <2>5, <2>6 DEF Executing
<1>12. \A i \in 1..k : i \in 1..n /\ (i # c => t[i] = s[i])
  <2>1. \A i \in 1..k : i \in 1..n
        BY <1>2
  <2>. QED  BY <1>8, <1>10, <2>1
<1>13. t[c].kind = "act" /\ t[c].native = s[c].native /\ t[c].objnotify = None
       BY <1>8, <1>10, <1>11 DEF Holds
<1>14. t[n] = e
  <2>1. n # c
        BY <1>2, <1>11
  <2>. QED  BY <1>4, <1>8, <1>10, <2>1
<1>15. Carries(s, t, k)
  <2>1. k \in 0..n /\ k <= Len(t)
        BY <1>2, <1>4, <1>10
  <2>. QED  BY <1>11, <1>12, <1>13, <2>1 DEF Carries, n
<1>16. k + 1 = n /\ k < Len(t)
       BY <1>2, <1>10
<1>17. RestFits(s, t, k) /\ TopFits(s, t, k)
  <2>1. t[k + 1].kind = "raise"
        BY <1>7, <1>14, <1>16
  <2>2. \A i \in 1..k : t[i] = s[i] \/ Executing(s, i, k)
        BY <1>11, <1>12
  <2>. QED  BY <1>16, <2>1, <2>2 DEF RestFits, TopFits
<1>18. \A i \in o + 1..n - 1 : i \in 1..k /\ (t[i].kind = "act" => t[i].native)
  <2>1. \A i \in o + 1..n - 1 : i \in 1..k
        BY <1>2, <1>5
  <2>2. \A i \in o + 1..n - 1 : s[i].kind = "act" => s[i].native
        BY <1>5 DEF RaiseSound, o
  <2>. QED  BY <2>1, <2>2, <1>12, <1>11, <1>13
<1>19. RaiseSound(t, n)
  <2>1. t[o].kind = "act"
        BY <1>5, <1>12, <1>13
  <2>2. o < n
        BY <1>2, <1>5
  <2>. QED  BY <1>7, <1>14, <1>18, <2>1, <2>2 DEF RaiseSound
<1>20. /\ x \notin resultReturned
       /\ x \in msgSent \/ startActivity[x] = a
       /\ \A b \in Activities : \A j \in 1..Len(stack[b]) :
             Sends(stack[b], j, x) => b = a /\ Executing(stack[a], o, j)
       BY <1>6 DEF IInv, Holders, s, n
<1>21. ~Starter(a)
       BY <1>1 DEF Starter, TopIs, Top, s
<1>22. x \in msgSent
       BY <1>6, <1>20, <1>21, NothingToStart
<1>23. ASSUME NEW p \in 1..k, s[p].kind = "send", s[p].message \in raiseError' \ raiseError
       PROVE  Doomed(t, p)
  <2>1. p \in 1..n /\ Sends(s, p, x)
        BY <1>3, <1>12, <1>23 DEF Sends
  <2>2. o \in 1..p
        BY <1>20, <2>1 DEF Executing, s, n
  <2>3. \A i \in p + 1..n - 1 : i \in o + 1..n - 1
        BY <1>2, <2>2
  <2>4. n \in p + 1..Len(t) /\ t[n].kind = "raise"
        BY <1>2, <1>7, <1>10, <1>14, <1>16
  <2>. QED  BY <1>18, <2>3, <2>4 DEF Doomed
<1>24. ASSUME NEW b \in Activities \ {a}, NEW p \in 1..Len(stack[b]), stack[b][p].kind = "send"
       PROVE  stack[b][p].message \notin raiseError' \ raiseError
  <2>1. ASSUME stack[b][p].message = x PROVE FALSE
        BY <1>20, <1>24, <2>1 DEF Sends
  <2>. QED  BY <1>3, <2>1
<1>25. ASSUME NEW p \in k + 1..Len(t)
       PROVE  FrameSound(t, p, interestedParties, msgSent', resultReturned', raiseError')
  <2>1. CASE p = n
        BY <1>4, <1>7, <1>14, <1>19, <2>1 DEF FrameSound
  <2>2. CASE p # n
    <3>1. p = n + 1 /\ p # 1
          BY <1>2, <1>10, <1>16, <1>4, <2>2
    <3>2. Len(interestedParties[x]) \in Nat
          BY <1>6 DEF IInv, Types
    <3>3. 1..t[p].next - 1 = {} /\ t[p].next <= Len(interestedParties[t[p].message]) + 1
          BY <1>10, <3>1, <3>2
    <3>4. NotifySound(t, p, interestedParties, msgSent')
          BY <3>3 DEF NotifySound
    <3>. QED  BY <1>10, <3>1, <3>4 DEF FrameSound
  <2>. QED  BY <2>1, <2>2
<1>26. Holders([stack EXCEPT ![a] = t], msgSent', resultReturned', startActivity')
  <2>1. /\ stack \in [Activities -> Seq(Frames)]
        /\ Holders(stack, msgSent, resultReturned, startActivity)
        BY DEF IInv, Types
  <2>2. \A m \in Messages : \A i \in 1..Len(t) :
           /\ Holds(t, i, m) => i \in 1..k /\ Holds(stack[a], i, m)
           /\ Sends(t, i, m) => i \in 1..k /\ Sends(stack[a], i, m)
    <3>. SUFFICES ASSUME NEW m \in Messages, NEW i \in 1..Len(t)
                  PROVE  /\ Holds(t, i, m) => i \in 1..k /\ Holds(s, i, m)
                         /\ Sends(t, i, m) => i \in 1..k /\ Sends(s, i, m)
         BY DEF s
    <3>1. i \in 1..k \/ i = n \/ i = n + 1
          BY <1>2, <1>10
    <3>. QED  BY <1>7, <1>10, <1>12, <1>13, <1>14, <3>1, NoneAssumption DEF Holds, Sends
  <2>3. Carries(stack[a], t, k)
        BY <1>15 DEF s
  <2>4. \A m \in Messages : m \in resultReturned' \ resultReturned =>
           /\ \A b \in Activities \ {a} : \A i \in 1..Len(stack[b]) : ~Holds(stack[b], i, m)
           /\ \A i \in 1..Len(t) : ~Holds(t, i, m)
        BY <1>3
  <2>. QED  BY <1>3, <1>10, <2>1, <2>2, <2>3, <2>4, HoldersKept
<1>27. Starting([stack EXCEPT ![a] = t], msgSent', startPending', startActivity')
  <2>1. /\ stack \in [Activities -> Seq(Frames)]
        /\ startActivity \in [Messages -> Activities \cup {None}]
        /\ Starting(stack, msgSent, startPending, startActivity)
        BY DEF IInv, Types
  <2>. QED  BY <1>3, <1>21, <2>1, NothingToStart, StartingKept
<1>28. /\ msgSent \subseteq msgSent' /\ msgSent' \subseteq Messages
       /\ startPending' \subseteq Messages /\ allNotified' \subseteq Messages
       /\ resultReturned \subseteq resultReturned' /\ raiseError \subseteq raiseError'
       /\ resultReturned' \cup raiseError' \subseteq msgSent'
       /\ resultReturned' \cap raiseError' = {}
       /\ startActivity' \in [Messages -> Activities \cup {None}]
       /\ UNCHANGED interestedParties
       BY <1>3, <1>20, <1>22 DEF IInv, Types
<1>29. AllNotifiedAreSent'
       BY <1>3 DEF IInv, AllNotifiedAreSent
<1>. QED  BY <1>3, <1>10, <1>15, <1>17, <1>23, <1>24, <1>25, <1>26, <1>27, <1>28, <1>29, Assemble DEF s

-----------------------------------------------------------------------------
(* The actions.                                                            *)

\* Nothing but a call of send needs the loop to move.
LEMMA TurnedSelf ==
    ASSUME NEW s, s # <<>>, NEW x, NEW parties
    PROVE  Turned(s, s, x, parties)
BY DEF Turned

\* SEND.
LEMMA StepSend ==
    ASSUME IInv, NEW a \in Activities, NEW m \in Messages, Send(a, m)
    PROVE  IInv'
<1>1. stack[a] # <<>> /\ stack[a] \in Seq(Frames)
      BY StackFacts DEF Send, Executes, Starter, TopIs
<1>2. ASSUME NEW y \in Messages \ msgSent, startActivity[y] = a PROVE y = m
  <2>1. CASE ~Starter(a)
        BY <1>2, <2>1, NothingToStart
  <2>2. CASE Starter(a)
    <3>1. startActivity[m] = a /\ m \notin msgSent
          BY <2>2 DEF Send, Executes
    <3>2. a # None
          BY NoneAssumption
    <3>3. Awaits(stack[a], y) /\ Awaits(stack[a], m)
          BY <1>2, <3>1, <3>2 DEF IInv, Starting
    <3>. QED  BY <3>3 DEF Awaits, Holds
  <2>. QED  BY <2>1, <2>2
<1>3. Turned(stack[a], stack[a], m, interestedParties)
      BY <1>1, TurnedSelf
<1>4. CallSend(a, m, stack[a]) /\ UNCHANGED <<allNotified, interestedParties>>
      BY DEF Send
<1>. QED  BY <1>1, <1>2, <1>3, <1>4, CallSendKeeps

\* An error in a clause or in a primitive method.
LEMMA RaiseKeeps ==
    ASSUME IInv, NEW a \in Activities, stack[a] # <<>>, ~Starter(a),
           Become(a, Raise(stack[a])), UNCHANGED <<flags, startActivity, interestedParties>>
    PROVE  IInv'
<1>. DEFINE s == stack[a]
            t == Raise(s)
            k == Len(s)
<1>1. s \in Seq(Frames) /\ k \in Nat /\ k >= 1 /\ s[1].kind = "act"
      BY StackFacts
<1>2. /\ t \in Seq(Frames) /\ Len(t) = k + 1
      /\ \A i \in 1..k : t[i] = s[i]
      /\ t[k + 1].kind = "raise" /\ RaiseSound(t, k + 1)
      BY <1>1, RaiseFacts
<1>3. Become(a, t)
      OBVIOUS
<1>. HIDE DEF t
<1>4. Agrees(s, t, k) /\ RestFits(s, t, k)
      BY <1>1, <1>2 DEF Agrees, RestFits
<1>5. \A p \in k + 1..Len(t) :
         /\ FrameSound(t, p, interestedParties, msgSent', resultReturned, raiseError)
         /\ t[p].kind # "send"
         /\ t[p].kind = "act" => t[p].objnotify = None
  <2>1. \A p \in k + 1..Len(t) : p = k + 1 /\ p # 1
        BY <1>1, <1>2
  <2>. QED  BY <1>2, <2>1 DEF FrameSound
<1>6. \A m \in Messages \ msgSent' : startActivity[m] # a
      BY NothingToStart DEF flags
<1>7. /\ msgSent \subseteq msgSent' /\ msgSent' \subseteq Messages
      /\ UNCHANGED <<startPending, resultReturned, raiseError, startActivity, interestedParties>>
      /\ allNotified' \subseteq Messages /\ AllNotifiedAreSent'
      BY DEF flags, IInv, Types, AllNotifiedAreSent
<1>. QED  BY <1>2, <1>3, <1>4, <1>5, <1>6, <1>7, Replace

\* A call: an activation that holds nothing.
LEMMA CallKeeps ==
    ASSUME IInv, NEW a \in Activities, ~Starter(a), NEW native \in BOOLEAN,
           Become(a, Append(stack[a], Activation(native, None))),
           UNCHANGED <<flags, startActivity, interestedParties>>
    PROVE  IInv'
<1>. DEFINE s == stack[a]
            e == Activation(native, None)
            t == Append(s, e)
            k == Len(s)
<1>1. s \in Seq(Frames) /\ k \in Nat
      BY StackFacts
<1>2. e \in Frames /\ e.kind = "act" /\ e.objnotify = None
      BY DEF Frames, Activation
<1>3. Become(a, t)
      OBVIOUS
<1>. HIDE DEF e
<1>4. /\ t \in Seq(Frames) /\ Len(t) = k + 1
      /\ \A i \in 1..k : t[i] = s[i]
      /\ t[k + 1] = e
      BY <1>1, <1>2, PushProperties
<1>. HIDE DEF t
<1>5. Agrees(s, t, k) /\ RestFits(s, t, k)
      BY <1>1, <1>4 DEF Agrees, RestFits
<1>6. \A p \in k + 1..Len(t) :
         /\ FrameSound(t, p, interestedParties, msgSent', resultReturned, raiseError)
         /\ t[p].kind # "send"
         /\ t[p].kind = "act" => t[p].objnotify = None
  <2>1. \A p \in k + 1..Len(t) : p = k + 1
        BY <1>1, <1>4
  <2>. QED  BY <1>2, <1>4, <2>1 DEF FrameSound
<1>7. \A m \in Messages \ msgSent' : startActivity[m] # a
      BY NothingToStart DEF flags
<1>8. /\ msgSent \subseteq msgSent' /\ msgSent' \subseteq Messages
      /\ UNCHANGED <<startPending, resultReturned, raiseError, startActivity, interestedParties>>
      /\ allNotified' \subseteq Messages /\ AllNotifiedAreSent'
      BY DEF flags, IInv, Types, AllNotifiedAreSent
<1>. QED  BY <1>3, <1>4, <1>5, <1>6, <1>7, <1>8, Replace

\* Call.
LEMMA StepCall ==
    ASSUME IInv, NEW a \in Activities, Call(a)
    PROVE  IInv'
<1>1. PICK native \in BOOLEAN : Become(a, Append(stack[a], Activation(native, None)))
      BY DEF Call
<1>2. ~Starter(a)
      BY DEF Call, Executes, Starter, TopIs
<1>. QED  BY <1>1, <1>2, CallKeeps DEF Call

\* Fail.
LEMMA StepFail ==
    ASSUME IInv, NEW a \in Activities, Fail(a)
    PROVE  IInv'
<1>1. stack[a] # <<>> /\ ~Starter(a)
      BY DEF Fail, Executes, TopIs
<1>. QED  BY <1>1, RaiseKeeps DEF Fail

\* What the top of a stack says of who may take a step.
LEMMA TopFacts ==
    ASSUME IInv, NEW a \in Activities, NEW kind, TopIs(a, kind)
    PROVE  LET s == stack[a]
               n == Len(s)
           IN  /\ n \in Nat /\ n >= 1 /\ n \in 1..n /\ s # <<>> /\ s \in Seq(Frames)
               /\ Top(a) = s[n] /\ s[n].kind = kind /\ s[n] \in Frames
               /\ s[1].kind = "act"
               /\ kind # "act" => n >= 2 /\ ~Starter(a)
<1>1. /\ stack[a] # <<>> /\ stack[a] \in Seq(Frames)
      /\ Len(stack[a]) \in Nat /\ Len(stack[a]) >= 1 /\ stack[a][1].kind = "act"
      /\ Top(a) = stack[a][Len(stack[a])] /\ Top(a).kind = kind
      BY StackFacts DEF TopIs, Top
<1>2. Len(stack[a]) \in 1..Len(stack[a])
      BY <1>1
<1>3. stack[a][Len(stack[a])] \in Frames
      BY <1>2, StackFacts
<1>4. kind # "act" => Len(stack[a]) >= 2 /\ ~Starter(a)
      BY <1>1 DEF Starter, TopIs
<1>. QED  BY <1>1, <1>2, <1>3, <1>4

\* What a stack is below its top.
LEMMA BelowTop ==
    ASSUME NEW s \in Seq(Frames), s # <<>>
    PROVE  LET k == Len(s) - 1
           IN  /\ Front(s) \in Seq(Frames) /\ k \in 0..Len(s) /\ Len(Front(s)) = k
               /\ \A i \in 1..k : Front(s)[i] = s[i]
               /\ \A q \in k + 1..Len(s) : q = Len(s)
BY FrontProperties

\* Return.
LEMMA StepReturn ==
    ASSUME IInv, NEW a \in Activities, Return(a)
    PROVE  IInv'
<1>. DEFINE s == stack[a]
            k == Len(s) - 1
<1>1. TopIs(a, "act")
      BY DEF Return, Executes, Starter
<1>2. s \in Seq(Frames) /\ s # <<>> /\ s[Len(s)].kind = "act"
      BY <1>1, TopFacts
<1>3. \A m \in Messages \ msgSent : startActivity[m] # a
  <2>1. CASE ~Starter(a)
        BY <2>1, NothingToStart
  <2>2. CASE Starter(a)
        BY <2>2 DEF Return, Executes
  <2>. QED  BY <2>1, <2>2
<1>4. /\ Front(s) \in Seq(Frames) /\ k \in 0..Len(s) /\ Len(Front(s)) = k
      /\ \A i \in 1..k : Front(s)[i] = s[i]
      /\ \A q \in k + 1..Len(s) : q = Len(s)
      BY <1>2, BelowTop
<1>5. ReturnTo(a, Front(s))
      BY DEF Return
<1>6. \A q \in k + 1..Len(s) : s[q].kind # "raise"
      BY <1>2, <1>4
<1>7. /\ UNCHANGED <<msgSent, startPending, raiseError, startActivity, interestedParties>>
      /\ allNotified' \subseteq Messages /\ AllNotifiedAreSent'
      BY DEF Return, IInv, Types, AllNotifiedAreSent
<1>. HIDE DEF k
<1>. QED  BY <1>3, <1>4, <1>5, <1>6, <1>7, ReturnToKeeps

\* Receive.
LEMMA StepReceive ==
    ASSUME IInv, NEW a \in Activities, Receive(a)
    PROVE  IInv'
<1>1. TopIs(a, "send")
      BY DEF Receive
<1>2. /\ stack[a] # <<>> /\ stack[a] \in Seq(Frames) /\ ~Starter(a)
      /\ Len(stack[a]) \in Nat
      BY <1>1, TopFacts
<1>3. CASE /\ \E native \in BOOLEAN : Become(a, Append(stack[a], Activation(native, None)))
           /\ UNCHANGED <<flags, startActivity>>
  <2>1. PICK native \in BOOLEAN : Become(a, Append(stack[a], Activation(native, None)))
        BY <1>3
  <2>. QED  BY <1>2, <1>3, <2>1, CallKeeps DEF Receive
<1>4. CASE /\ ReturnTo(a, stack[a])
           /\ UNCHANGED <<msgSent, startPending, raiseError, allNotified, startActivity>>
  <2>1. \A m \in Messages \ msgSent : startActivity[m] # a
        BY <1>2, NothingToStart
  <2>2. Len(stack[a]) \in 0..Len(stack[a]) /\ Len(stack[a]) + 1..Len(stack[a]) = {}
        BY <1>2
  <2>3. /\ UNCHANGED <<msgSent, startPending, raiseError, startActivity, interestedParties>>
        /\ allNotified' \subseteq Messages /\ AllNotifiedAreSent'
        BY <1>4 DEF Receive, IInv, Types, AllNotifiedAreSent
  <2>. QED  BY <1>2, <1>4, <2>1, <2>2, <2>3, ReturnToKeeps
<1>5. CASE Become(a, Raise(stack[a])) /\ UNCHANGED <<flags, startActivity>>
      BY <1>2, <1>5, RaiseKeeps DEF Receive
<1>6. CASE \E p \in Messages : CallSend(a, p, stack[a]) /\ UNCHANGED allNotified
  <2>1. PICK p \in Messages : CallSend(a, p, stack[a]) /\ UNCHANGED allNotified
        BY <1>6
  <2>2. Turned(stack[a], stack[a], p, interestedParties)
        BY <1>2, TurnedSelf
  <2>3. \A m \in Messages \ msgSent : startActivity[m] # a
        BY <1>2, NothingToStart
  <2>. QED  BY <1>2, <2>1, <2>2, <2>3, CallSendKeeps DEF Receive
<1>. QED  BY <1>3, <1>4, <1>5, <1>6 DEF Receive

\* One round of the loop of sendNotification: the next party is sent.
LEMMA NextPartyKeeps ==
    ASSUME IInv, NEW a \in Activities, TopIs(a, "notify"),
           ~NoMore(Top(a).message, Top(a).next),
           CallSend(a, interestedParties[Top(a).message][Top(a).next],
                    Append(Front(stack[a]), Notifying(Top(a).message, Top(a).next + 1))),
           UNCHANGED <<allNotified, interestedParties>>
    PROVE  IInv'
<1>. DEFINE s == stack[a]
            n == Len(s)
            m == Top(a).message
            i == Top(a).next
            x == interestedParties[m][i]
            e == Notifying(m, i + 1)
            u == Append(Front(s), e)
<1>1. /\ n \in Nat /\ n >= 1 /\ n \in 1..n /\ s # <<>> /\ s \in Seq(Frames)
      /\ Top(a) = s[n] /\ s[n].kind = "notify" /\ s[n] \in Frames /\ ~Starter(a)
      BY TopFacts
<1>2. m \in Messages /\ i \in Nat /\ i >= 1 /\ m = s[n].message /\ i = s[n].next
      BY <1>1, FrameFacts
<1>3. interestedParties[m] \in Seq(Messages)
      BY <1>2 DEF IInv, Types
<1>4. i \in 1..Len(interestedParties[m]) /\ x \in Messages
  <2>1. ~(i > Len(interestedParties[m])) /\ Len(interestedParties[m]) \in Nat
        BY <1>3 DEF NoMore
  <2>2. i \in 1..Len(interestedParties[m])
        BY <1>2, <2>1
  <2>. QED  BY <1>3, <2>2, ElementOfSeq
<1>5. e \in Frames /\ e.kind = "notify" /\ e.message = m /\ e.next = i + 1
      BY <1>2 DEF Frames, Notifying
<1>6. CallSend(a, x, u)
      OBVIOUS
<1>. HIDE DEF e, x, m, i, s
<1>7. /\ u \in Seq(Frames) /\ u # <<>> /\ Len(u) = n
      /\ \A j \in 1..n - 1 : u[j] = s[j]
      /\ u[n] = e
      BY <1>1, <1>5, RetopProperties
<1>. HIDE DEF u
<1>8. Turned(s, u, x, interestedParties)
      BY <1>1, <1>2, <1>4, <1>5, <1>7 DEF Turned, x
<1>9. \A y \in Messages \ msgSent : startActivity[y] # a
      BY <1>1, NothingToStart
<1>. QED  BY <1>4, <1>6, <1>7, <1>8, <1>9, CallSendKeeps DEF s

\* The end of the loop: all parties were sent.
LEMMA LoopEnds ==
    ASSUME IInv, NEW a \in Activities, TopIs(a, "notify"),
           NoMore(Top(a).message, Top(a).next),
           allNotified' = allNotified \cup {Top(a).message},
           UNCHANGED <<msgSent, interestedParties>>
    PROVE  allNotified' \subseteq Messages /\ AllNotifiedAreSent'
<1>. DEFINE s == stack[a]
            n == Len(s)
<1>1. /\ n \in Nat /\ n >= 1 /\ n \in 1..n /\ s \in Seq(Frames)
      /\ Top(a) = s[n] /\ s[n].kind = "notify" /\ s[n] \in Frames
      BY TopFacts
<1>2. PICK m : m = s[n].message
      OBVIOUS
<1>3. PICK i : i = s[n].next
      OBVIOUS
<1>4. m \in Messages /\ i \in Nat /\ i >= 1
      BY <1>1, <1>2, <1>3, FrameFacts
<1>5. interestedParties[m] \in Seq(Messages) /\ Len(interestedParties[m]) \in Nat
      BY <1>4 DEF IInv, Types
<1>6. i > Len(interestedParties[m])
      BY <1>1, <1>2, <1>3 DEF NoMore
<1>7. \A j \in 1..i - 1 : interestedParties[m][j] \in msgSent
  <2>1. FrameSound(s, n, interestedParties, msgSent, resultReturned, raiseError)
        BY <1>1, StackFacts
  <2>2. ~Doomed(s, n)
        BY <1>1 DEF Doomed
  <2>. QED  BY <1>1, <1>2, <1>3, <2>1, <2>2 DEF FrameSound, NotifySound
<1>8. \A j \in 1..Len(interestedParties[m]) : interestedParties[m][j] \in msgSent
      BY <1>4, <1>5, <1>6, <1>7
<1>9. ToSet(interestedParties[m]) \subseteq msgSent
      BY <1>5, <1>8 DEF ToSet
<1>10. allNotified' = allNotified \cup {m}
       BY <1>1, <1>2
<1>. QED  BY <1>4, <1>9, <1>10 DEF IInv, Types, AllNotifiedAreSent

\* NotifyNext.
LEMMA StepNotifyNext ==
    ASSUME IInv, NEW a \in Activities, NotifyNext(a)
    PROVE  IInv'
<1>. DEFINE s == stack[a]
            n == Len(s)
            f == Front(s)
<1>1. TopIs(a, "notify") /\ UNCHANGED interestedParties
      BY DEF NotifyNext
<1>2. /\ n \in Nat /\ n >= 2 /\ s # <<>> /\ s \in Seq(Frames)
      /\ s[n].kind = "notify" /\ ~Starter(a)
      BY <1>1, TopFacts
<1>3. CASE ~NoMore(Top(a).message, Top(a).next)
      BY <1>1, <1>3, NextPartyKeeps DEF NotifyNext
<1>4. CASE NoMore(Top(a).message, Top(a).next)
  <2>1. /\ allNotified' = allNotified \cup {Top(a).message}
        /\ IF Last(f).kind = "send" THEN ReturnTo(a, Front(f))
           ELSE Become(a, f) /\ UNCHANGED resultReturned
        /\ UNCHANGED <<msgSent, startPending, raiseError, startActivity>>
        BY <1>4 DEF NotifyNext
  <2>2. allNotified' \subseteq Messages /\ AllNotifiedAreSent'
        BY <1>1, <1>4, <2>1, LoopEnds
  <2>3. \A m \in Messages \ msgSent : startActivity[m] # a
        BY <1>2, NothingToStart
  <2>4. /\ f \in Seq(Frames) /\ n - 1 \in 0..n /\ Len(f) = n - 1
        /\ \A i \in 1..n - 1 : f[i] = s[i]
        /\ \A q \in n - 1 + 1..n : q = n
        BY <1>2, BelowTop
  <2>. HIDE DEF f
  <2>5. f # <<>> /\ Last(f) = f[n - 1]
        BY <1>2, <2>4, EmptySeq DEF Last
  <2>6. n - 1 \in 1..n - 1
        BY <1>2
  <2>7. Last(f) = s[n - 1]
        BY <2>4, <2>5, <2>6
  <2>8. CASE Last(f).kind = "send"
    <3>. DEFINE g == Front(f)
                k == Len(f) - 1
    <3>1. /\ g \in Seq(Frames) /\ k \in 0..Len(f) /\ Len(g) = k
          /\ \A i \in 1..k : g[i] = f[i]
          BY <2>4, <2>5, BelowTop
    <3>2. ReturnTo(a, g)
          BY <2>1, <2>8
    <3>. HIDE DEF g
    <3>3. k \in 0..n /\ \A i \in 1..k : g[i] = s[i]
      <4>1. k \in 0..n /\ \A i \in 1..k : i \in 1..n - 1
            BY <1>2, <2>4, <3>1
      <4>. QED  BY <2>4, <3>1, <4>1
    <3>4. \A q \in k + 1..n : s[q].kind # "raise"
      <4>1. \A q \in k + 1..n : q = n - 1 \/ q = n
            BY <1>2, <2>4
      <4>. QED  BY <1>2, <2>7, <2>8, <4>1
    <3>. HIDE DEF k
    <3>. QED  BY <1>1, <2>1, <2>2, <2>3, <3>1, <3>2, <3>3, <3>4, ReturnToKeeps
  <2>9. CASE Last(f).kind # "send"
    <3>. DEFINE k == n - 1
    <3>1. Become(a, f) /\ UNCHANGED resultReturned
          BY <2>1, <2>9
    <3>2. Agrees(s, f, k)
          BY <1>2, <2>4 DEF Agrees
    <3>3. RestFits(s, f, k)
          BY <1>2, <2>4 DEF RestFits
    <3>4. s[k].kind # "send"
          BY <2>7, <2>9
    <3>5. \A p \in k + 1..Len(f) : FALSE
          BY <1>2, <2>4
    <3>. HIDE DEF k
    <3>. QED  BY <1>1, <2>1, <2>2, <2>3, <2>4, <3>1, <3>2, <3>3, <3>4, <3>5, Replace DEF IInv, Types
  <2>. QED  BY <2>8, <2>9
<1>. QED  BY <1>3, <1>4

\* Trap.
LEMMA StepTrap ==
    ASSUME IInv, NEW a \in Activities, Trap(a)
    PROVE  IInv'
<1>. DEFINE s == stack[a]
            n == Len(s)
            o == s[n].offered
            t == SubSeq(s, 1, o)
<1>1. TopIs(a, "raise")
      BY DEF Trap, Raised
<1>2. /\ n \in Nat /\ n \in 1..n /\ s \in Seq(Frames) /\ ~Starter(a)
      /\ Top(a) = s[n] /\ s[n].kind = "raise" /\ s[n] \in Frames
      BY <1>1, TopFacts
<1>3. Become(a, t) /\ ~s[o].native
      BY <1>2 DEF Trap, Offered
<1>4. RaiseSound(s, n)
      BY <1>2, StackFacts DEF FrameSound
<1>5. o \in Nat /\ o >= 1
      BY <1>2, FrameFacts
<1>6. o \in 0..n /\ o # 0 /\ s[o].kind = "act"
      BY <1>2, <1>4, <1>5 DEF RaiseSound
<1>. HIDE DEF o
<1>7. t \in Seq(Frames) /\ Len(t) = o /\ \A i \in 1..o : t[i] = s[i]
      BY <1>2, <1>6, PrefixProperties
<1>. HIDE DEF t
<1>8. Agrees(s, t, o) /\ RestFits(s, t, o)
      BY <1>3, <1>5, <1>6, <1>7 DEF Agrees, RestFits
<1>9. \A p \in o + 1..Len(t) : FALSE
      BY <1>5, <1>7
<1>10. \A m \in Messages \ msgSent' : startActivity[m] # a
       BY <1>2, NothingToStart DEF Trap, flags
<1>11. /\ msgSent \subseteq msgSent' /\ msgSent' \subseteq Messages
       /\ UNCHANGED <<startPending, resultReturned, raiseError, startActivity, interestedParties>>
       /\ allNotified' \subseteq Messages /\ AllNotifiedAreSent'
       BY DEF Trap, flags, IInv, Types, AllNotifiedAreSent
<1>. QED  BY <1>3, <1>6, <1>7, <1>8, <1>9, <1>10, <1>11, Replace

\* An error that goes on to an activation further down: what was kept, and
\* the error on it.
LEMMA OfferKeeps ==
    ASSUME IInv, NEW a \in Activities, ~Starter(a), NEW f \in Seq(Frames),
           NEW k \in 0..Len(stack[a]), Len(f) = k, \A i \in 1..k : f[i] = stack[a][i],
           NEW l \in 1..k, stack[a][l].kind = "act",
           \A i \in l + 1..k : stack[a][i].kind = "act" => stack[a][i].native,
           NEW propagated \in BOOLEAN,
           Become(a, Append(f, Raising(l, FALSE, propagated))),
           UNCHANGED <<flags, startActivity, interestedParties>>
    PROVE  IInv'
<1>. DEFINE s == stack[a]
            e == Raising(l, FALSE, propagated)
            t == Append(f, e)
<1>1. k \in Nat /\ Len(s) \in Nat /\ l \in Nat \ {0}
      BY StackFacts
<1>2. e \in Frames /\ e.kind = "raise" /\ e.offered = l
      BY <1>1 DEF Frames, Raising
<1>3. Become(a, t)
      OBVIOUS
<1>. HIDE DEF e
<1>4. t \in Seq(Frames) /\ Len(t) = k + 1 /\ (\A i \in 1..k : t[i] = f[i]) /\ t[k + 1] = e
  <2>1. f \in Seq(Frames) /\ e \in Frames /\ Len(f) = k
        BY <1>2
  <2>2. /\ t \in Seq(Frames)
        /\ Len(t) = Len(f) + 1
        /\ \A i \in 1..Len(f) : t[i] = f[i]
        /\ t[Len(f) + 1] = e
        BY <2>1, PushProperties
  <2>. QED  BY <2>1, <2>2
<1>. HIDE DEF t
<1>5. \A i \in 1..k : t[i] = s[i]
      BY <1>4
<1>6. Agrees(s, t, k) /\ RestFits(s, t, k)
      BY <1>1, <1>2, <1>4, <1>5 DEF Agrees, RestFits
<1>7. RaiseSound(t, k + 1)
  <2>1. \A i \in l + 1..k + 1 - 1 : i \in 1..k /\ i \in l + 1..k
        BY <1>1
  <2>2. l < k + 1 /\ t[l].kind = "act"
        BY <1>1, <1>5
  <2>. QED  BY <1>2, <1>4, <1>5, <2>1, <2>2 DEF RaiseSound
<1>8. \A p \in k + 1..Len(t) :
         /\ FrameSound(t, p, interestedParties, msgSent', resultReturned, raiseError)
         /\ t[p].kind # "send"
         /\ t[p].kind = "act" => t[p].objnotify = None
  <2>1. \A p \in k + 1..Len(t) : p = k + 1 /\ p # 1
        BY <1>1, <1>4
  <2>. QED  BY <1>2, <1>4, <1>7, <2>1 DEF FrameSound
<1>9. k < Len(t) /\ t[k + 1].kind # "act"
      BY <1>1, <1>2, <1>4
<1>10. \A m \in Messages \ msgSent' : startActivity[m] # a
       BY NothingToStart DEF flags
<1>11. /\ msgSent \subseteq msgSent' /\ msgSent' \subseteq Messages
       /\ UNCHANGED <<startPending, resultReturned, raiseError, startActivity, interestedParties>>
       /\ allNotified' \subseteq Messages /\ AllNotifiedAreSent'
       BY DEF flags, IInv, Types, AllNotifiedAreSent
<1>. QED  BY <1>3, <1>4, <1>6, <1>8, <1>9, <1>10, <1>11, Replace

\* PassOn.
LEMMA StepPassOn ==
    ASSUME IInv, NEW a \in Activities, PassOn(a)
    PROVE  IInv'
<1>. DEFINE s == stack[a]
            n == Len(s)
            o == s[n].offered
            lower == Acts(s, o - 1)
            l == Max(lower)
<1>1. TopIs(a, "raise")
      BY DEF PassOn, Raised
<1>2. /\ n \in Nat /\ n >= 1 /\ n \in 1..n /\ s \in Seq(Frames) /\ s # <<>> /\ ~Starter(a)
      /\ Top(a) = s[n] /\ s[n].kind = "raise" /\ s[n] \in Frames
      BY <1>1, TopFacts
<1>3. UNCHANGED <<flags, startActivity, interestedParties>>
      BY DEF PassOn
<1>4. RaiseSound(s, n)
      BY <1>2, StackFacts DEF FrameSound
<1>5. o \in Nat /\ o >= 1 /\ o < n
      BY <1>2, <1>4, FrameFacts DEF RaiseSound
<1>6. CASE lower = {}
  <2>1. Become(a, <<>>)
        BY <1>2, <1>6 DEF PassOn, Offered
  <2>2. Agrees(s, <<>>, 0) /\ RestFits(s, <<>>, 0) /\ <<>> \in Seq(Frames)
        BY <1>2 DEF Agrees, RestFits
  <2>3. \A p \in 0 + 1..Len(<<>>) : FALSE
        OBVIOUS
  <2>4. \A m \in Messages \ msgSent' : startActivity[m] # a
        BY <1>2, <1>3, NothingToStart DEF flags
  <2>5. /\ msgSent \subseteq msgSent' /\ msgSent' \subseteq Messages
        /\ UNCHANGED <<startPending, resultReturned, raiseError, startActivity, interestedParties>>
        /\ allNotified' \subseteq Messages /\ AllNotifiedAreSent'
        BY <1>3 DEF flags, IInv, Types, AllNotifiedAreSent
  <2>. QED  BY <2>1, <2>2, <2>3, <2>4, <2>5, Replace
<1>7. ASSUME lower # {}
      PROVE  /\ l \in 1..o - 1 /\ l \in Nat /\ s[l].kind = "act"
             /\ \A i \in l + 1..o - 1 : s[i].kind # "act"
  <2>1. PICK i \in 1..o - 1 : s[i].kind = "act"
        BY <1>7 DEF Acts
  <2>2. o - 1 \in 1..n
        BY <1>2, <1>5, <2>1
  <2>3. Executing(s, Max(Acts(s, o - 1)), o - 1)
        BY <1>2, <2>1, <2>2, CurrentExecutes
  <2>. QED  BY <2>3 DEF Executing
<1>8. CASE lower # {} /\ Offered(a).native /\ ~Top(a).propagated
  <2>1. Become(a, Append(Front(s), Raising(l, FALSE, FALSE))) /\ s[o].native
        BY <1>2, <1>8 DEF PassOn, Offered
  <2>2. /\ Front(s) \in Seq(Frames) /\ n - 1 \in 0..n /\ Len(Front(s)) = n - 1
        /\ \A i \in 1..n - 1 : Front(s)[i] = s[i]
        BY <1>2, BelowTop
  <2>3. \A i \in o + 1..n - 1 : s[i].kind = "act" => s[i].native
        BY <1>4 DEF RaiseSound
  <2>. HIDE DEF lower, l, o
  <2>4. \A i \in l + 1..n - 1 : i \in l + 1..o - 1 \/ i = o \/ i \in o + 1..n - 1
        BY <1>2, <1>5, <1>7, <1>8
  <2>5. \A i \in l + 1..n - 1 : s[i].kind = "act" => s[i].native
        BY <1>7, <1>8, <2>1, <2>3, <2>4
  <2>6. l \in 1..n - 1 /\ s[l].kind = "act"
        BY <1>2, <1>5, <1>7, <1>8
  <2>. HIDE DEF s, n
  <2>7. FALSE \in BOOLEAN
        OBVIOUS
  <2>. QED  BY <1>2, <1>3, <2>1, <2>2, <2>5, <2>6, <2>7, OfferKeeps DEF s, n
<1>9. CASE lower # {} /\ ~(Offered(a).native /\ ~Top(a).propagated)
  <2>1. Become(a, Append(SubSeq(s, 1, l), Raising(l, FALSE, TRUE)))
        BY <1>2, <1>9 DEF PassOn, Offered
  <2>. HIDE DEF lower, l, o
  <2>2. l \in 0..n /\ l \in 1..l /\ s[l].kind = "act"
        BY <1>2, <1>5, <1>7, <1>9
  <2>3. /\ SubSeq(s, 1, l) \in Seq(Frames) /\ Len(SubSeq(s, 1, l)) = l
        /\ \A i \in 1..l : SubSeq(s, 1, l)[i] = s[i]
        BY <1>2, <2>2, PrefixProperties
  <2>4. \A i \in l + 1..l : s[i].kind = "act" => s[i].native
        BY <2>2
  <2>5. TRUE \in BOOLEAN
        OBVIOUS
  <2>. QED  BY <1>2, <1>3, <2>1, <2>2, <2>3, <2>4, <2>5, OfferKeeps
<1>. QED  BY <1>6, <1>8, <1>9

\* START: an error, or a thread whose only activation holds the message.
LEMMA StepStart ==
    ASSUME IInv, NEW a \in Activities, NEW m \in Messages, NEW b \in Activities, Start(a, m, b)
    PROVE  IInv'
<1>1. /\ stack[b] = <<>> /\ stack[a] # <<>> /\ ~Starter(a)
      /\ UNCHANGED <<msgSent, resultReturned, raiseError, allNotified, interestedParties>>
      BY DEF Start, Executes, TopIs
<1>2. CASE Become(a, Raise(stack[a])) /\ UNCHANGED <<startPending, startActivity>>
  <2>1. UNCHANGED <<flags, startActivity, interestedParties>>
        BY <1>1, <1>2 DEF flags
  <2>. QED  BY <1>1, <1>2, <2>1, RaiseKeeps
<1>3. CASE /\ m \notin msgSent \cup startPending
           /\ startPending' = startPending \cup {m}
           /\ startActivity' = [startActivity EXCEPT ![m] = b]
           /\ Become(b, <<Activation(TRUE, m)>>)
  <2>. DEFINE e == Activation(TRUE, m)
              t == <<e>>
              st == [stack EXCEPT ![b] = t]
  <2>1. e \in Frames /\ e.kind = "act" /\ e.native /\ e.objnotify = m
        BY DEF Frames, Activation
  <2>2. Become(b, t)
        BY <1>3
  <2>. HIDE DEF e
  <2>3. t \in Seq(Frames) /\ Len(t) = 1 /\ t[1] = e
        BY <2>1
  <2>4. /\ stack \in [Activities -> Seq(Frames)]
        /\ startActivity \in [Messages -> Activities \cup {None}]
        /\ Holders(stack, msgSent, resultReturned, startActivity)
        /\ Starting(stack, msgSent, startPending, startActivity)
        /\ resultReturned \subseteq msgSent
        BY DEF IInv, Types
  <2>. HIDE DEF t
  <2>5. st[b] = t /\ \A c \in Activities \ {b} : st[c] = stack[c]
        BY <2>4
  <2>6. /\ startActivity'[m] = b
        /\ \A y \in Messages : y # m => startActivity'[y] = startActivity[y]
        BY <1>3, <2>4
  <2>7. startActivity[m] = None
    <3>1. startActivity[m] # None => m \in startPending
          BY <1>3, <2>4 DEF Starting
    <3>. QED  BY <1>3, <3>1
  <2>. HIDE DEF st
  <2>8. ASSUME NEW y \in Messages, NEW c \in Activities, NEW j \in 1..Len(st[c]), Sends(st[c], j, y)
        PROVE  c # b /\ j \in 1..Len(stack[c]) /\ Sends(stack[c], j, y) /\ y # m
    <3>1. ASSUME c = b PROVE FALSE
      <4>1. st[c] = t
            BY <2>5, <3>1
      <4>2. j \in 1..1
            BY <2>3, <4>1
      <4>3. t[1].kind = "send"
            BY <2>8, <4>1, <4>2 DEF Sends
      <4>. QED  BY <2>1, <2>3, <4>3
    <3>2. j \in 1..Len(stack[c]) /\ Sends(stack[c], j, y)
          BY <2>5, <2>8, <3>1
    <3>3. y \in msgSent
          BY <3>2, StackFacts DEF FrameSound, SendSound, Sends
    <3>. QED  BY <1>3, <3>1, <3>2, <3>3
  <2>9. Holders(st, msgSent', resultReturned', startActivity')
    <3>. SUFFICES ASSUME NEW y \in Messages, NEW c \in Activities, NEW i \in 1..Len(st[c]),
                         Holds(st[c], i, y)
                  PROVE  /\ y \notin resultReturned
                         /\ y \in msgSent \/ startActivity'[y] = c
                         /\ \A d \in Activities : \A j \in 1..Len(st[d]) :
                               Sends(st[d], j, y) => d = c /\ Executing(st[c], i, j)
         BY <1>1 DEF Holders
    <3>1. CASE c = b
      <4>1. y = m
            BY <2>1, <2>3, <2>5, <3>1 DEF Holds
      <4>2. y \notin resultReturned
            BY <1>3, <2>4, <4>1
      <4>3. \A d \in Activities : \A j \in 1..Len(st[d]) : ~Sends(st[d], j, y)
            BY <2>8, <4>1
      <4>. QED  BY <2>6, <3>1, <4>1, <4>2, <4>3
    <3>2. CASE c # b
      <4>1. i \in 1..Len(stack[c]) /\ Holds(stack[c], i, y)
            BY <2>5, <3>2
      <4>2. /\ y \notin resultReturned
            /\ y \in msgSent \/ startActivity[y] = c
            /\ \A d \in Activities : \A j \in 1..Len(stack[d]) :
                  Sends(stack[d], j, y) => d = c /\ Executing(stack[c], i, j)
            BY <2>4, <4>1 DEF Holders
      <4>3. y # m
            BY <1>3, <2>7, <4>2, NoneAssumption
      <4>4. \A d \in Activities : \A j \in 1..Len(st[d]) :
               Sends(st[d], j, y) => d = c /\ Executing(st[c], i, j)
            BY <2>5, <2>8, <3>2, <4>2
      <4>. QED  BY <2>6, <4>2, <4>3, <4>4
    <3>. QED  BY <3>1, <3>2
  <2>10. Starting(st, msgSent', startPending', startActivity')
    <3>. SUFFICES ASSUME NEW y \in Messages \ msgSent, startActivity'[y] # None
                  PROVE  y \in startPending' /\ Awaits(st[startActivity'[y]], y)
         BY <1>1 DEF Starting
    <3>1. CASE y = m
          BY <1>3, <2>1, <2>3, <2>5, <2>6, <3>1 DEF Awaits, Holds
    <3>2. CASE y # m
      <4>1. startActivity'[y] = startActivity[y] /\ startActivity[y] \in Activities
            BY <2>4, <2>6, <3>2
      <4>2. y \in startPending /\ Awaits(stack[startActivity[y]], y)
            BY <2>4, <4>1 DEF Starting
      <4>3. startActivity[y] # b
            BY <1>1, <4>2 DEF Awaits
      <4>. QED  BY <1>3, <2>5, <4>1, <4>2, <4>3
    <3>. QED  BY <3>1, <3>2
  <2>11. Carries(stack[b], t, 0) /\ RestFits(stack[b], t, 0) /\ TopFits(stack[b], t, 0)
         BY <1>1, <2>3 DEF Carries, RestFits, TopFits
  <2>12. \A p \in 0 + 1..Len(t) :
            FrameSound(t, p, interestedParties, msgSent', resultReturned', raiseError')
    <3>1. \A p \in 0 + 1..Len(t) : p = 1
          BY <2>3
    <3>. QED  BY <2>1, <2>3, <3>1 DEF FrameSound
  <2>13. \A p \in 1..0 : FALSE
         OBVIOUS
  <2>14. /\ msgSent \subseteq msgSent' /\ msgSent' \subseteq Messages
         /\ startPending' \subseteq Messages /\ allNotified' \subseteq Messages
         /\ UNCHANGED <<resultReturned, raiseError, interestedParties>>
         /\ resultReturned' \cup raiseError' \subseteq msgSent'
         /\ resultReturned' \cap raiseError' = {}
         /\ startActivity' \in [Messages -> Activities \cup {None}]
         /\ AllNotifiedAreSent'
         BY <1>1, <1>3 DEF IInv, Types, AllNotifiedAreSent
  <2>. QED  BY <2>2, <2>3, <2>9, <2>10, <2>11, <2>12, <2>13, <2>14, Assemble DEF st
<1>. QED  BY <1>2, <1>3 DEF Start

\* NOTIFY: another party for the list, or a message that is sent at once.
LEMMA StepNotify ==
    ASSUME IInv, NEW a \in Activities, NEW m \in Messages, NEW p \in Messages, Notify(a, m, p)
    PROVE  IInv'
<1>1. stack[a] # <<>> /\ ~Starter(a) /\ stack[a] \in Seq(Frames)
      BY StackFacts DEF Notify, Executes, TopIs
<1>2. CASE CallSend(a, p, stack[a]) /\ UNCHANGED <<allNotified, interestedParties>>
  <2>1. Turned(stack[a], stack[a], p, interestedParties)
        BY <1>1, TurnedSelf
  <2>2. \A y \in Messages \ msgSent : startActivity[y] # a
        BY <1>1, NothingToStart
  <2>. QED  BY <1>1, <1>2, <2>1, <2>2, CallSendKeeps
<1>3. CASE /\ m \notin allNotified
           /\ interestedParties' = [interestedParties EXCEPT ![m] = Append(@, p)]
           /\ UNCHANGED <<stack, flags, startActivity>>
  <2>1. interestedParties \in [Messages -> Seq(Messages)]
        BY DEF IInv, Types
  <2>2. UNCHANGED <<stack, msgSent, startPending, resultReturned, raiseError, allNotified, startActivity>>
        BY <1>3 DEF flags
  <2>3. Types'
    <3>1. Append(interestedParties[m], p) \in Seq(Messages)
          BY <2>1
    <3>2. interestedParties' \in [Messages -> Seq(Messages)]
          BY <1>3, <2>1, <3>1
    <3>. QED  BY <2>2, <3>2 DEF IInv, Types
  <2>4. AllNotifiedAreSent'
        BY <1>3, <2>1, <2>2 DEF IInv, Types, AllNotifiedAreSent
  <2>5. ASSUME NEW y \in Messages
        PROVE  /\ Len(interestedParties[y]) \in Nat /\ Len(interestedParties'[y]) \in Nat
               /\ Len(interestedParties[y]) <= Len(interestedParties'[y])
               /\ \A j \in 1..Len(interestedParties[y]) :
                     interestedParties'[y][j] = interestedParties[y][j]
    <3>1. CASE y # m
          BY <1>3, <2>1, <3>1
    <3>2. CASE y = m
      <4>1. interestedParties'[m] = Append(interestedParties[m], p) /\ interestedParties[m] \in Seq(Messages)
            BY <1>3, <2>1
      <4>. QED  BY <3>2, <4>1, PushProperties
    <3>. QED  BY <3>1, <3>2
  <2>6. ASSUME NEW b \in Activities, NEW q \in 1..Len(stack[b])
        PROVE  FrameSound(stack[b], q, interestedParties', msgSent, resultReturned, raiseError)
    <3>. DEFINE f == stack[b][q]
                y == f.message
    <3>1. f \in Frames /\ FrameSound(stack[b], q, interestedParties, msgSent, resultReturned, raiseError)
          BY StackFacts
    <3>2. ASSUME f.kind = "notify" PROVE NotifySound(stack[b], q, interestedParties', msgSent)
      <4>1. y \in Messages /\ f.next \in Nat /\ f.next >= 1
            BY <3>1, <3>2, FrameFacts
      <4>2. NotifySound(stack[b], q, interestedParties, msgSent)
            BY <3>1, <3>2 DEF FrameSound
      <4>3. \A j \in 1..f.next - 1 : j \in 1..Len(interestedParties[y])
            BY <2>5, <4>1, <4>2 DEF NotifySound
      <4>4. f.next <= Len(interestedParties'[y]) + 1
        <5>1. f.next <= Len(interestedParties[y]) + 1
              BY <4>2 DEF NotifySound
        <5>. QED  BY <2>5, <4>1, <5>1
      <4>. QED  BY <2>5, <4>1, <4>2, <4>3, <4>4 DEF NotifySound
    <3>. QED  BY <3>1, <3>2 DEF FrameSound
  <2>7. \A b \in Activities : StackSound(stack'[b], interestedParties', msgSent', resultReturned', raiseError')
        BY <2>2, <2>6 DEF StackSound
  <2>. QED  BY <2>2, <2>3, <2>4, <2>7 DEF IInv
<1>. QED  BY <1>2, <1>3 DEF Notify

-----------------------------------------------------------------------------
(* The theorems.                                                           *)

\* Nothing stands on any stack.
LEMMA InitIInv == Init => IInv
<1>. SUFFICES ASSUME Init PROVE IInv
     OBVIOUS
<1>1. \A a \in Activities : stack[a] = <<>> /\ 1..Len(stack[a]) = {}
      BY DEF Init
<1>2. Types
  <2>1. <<>> \in Seq(Frames) /\ <<>> \in Seq(Messages)
        OBVIOUS
  <2>. QED  BY <2>1 DEF Init, Types
<1>3. \A a \in Activities :
         StackSound(stack[a], interestedParties, msgSent, resultReturned, raiseError)
      BY <1>1 DEF StackSound
<1>4. Holders(stack, msgSent, resultReturned, startActivity)
      BY <1>1 DEF Holders
<1>5. Starting(stack, msgSent, startPending, startActivity)
      BY DEF Init, Starting
<1>. QED  BY <1>2, <1>3, <1>4, <1>5 DEF Init, IInv, AllNotifiedAreSent

\* What the stacks and the flags say of each other, in every reachable state.
THEOREM Invariance == Spec => []IInv
<1>1. IInv /\ [Next]_vars => IInv'
  <2>. SUFFICES ASSUME IInv, [Next]_vars PROVE IInv'
       OBVIOUS
  <2>1. CASE UNCHANGED vars
        BY <2>1 DEF vars, flags, IInv, Types, AllNotifiedAreSent
  <2>2. ASSUME NEW a \in Activities, Step(a) PROVE IInv'
    <3>1. CASE \E m \in Messages : Send(a, m)
          BY <3>1, StepSend
    <3>2. CASE \E m \in Messages, b \in Activities : Start(a, m, b)
          BY <3>2, StepStart
    <3>3. CASE \E m \in Messages, p \in Messages : Notify(a, m, p)
          BY <3>3, StepNotify
    <3>4. CASE Receive(a)
          BY <3>4, StepReceive
    <3>5. CASE NotifyNext(a)
          BY <3>5, StepNotifyNext
    <3>6. CASE Call(a)
          BY <3>6, StepCall
    <3>7. CASE Return(a)
          BY <3>7, StepReturn
    <3>8. CASE Fail(a)
          BY <3>8, StepFail
    <3>9. CASE TellMessage(a)
          BY <3>9, TellKeeps
    <3>10. CASE Trap(a)
           BY <3>10, StepTrap
    <3>11. CASE PassOn(a)
           BY <3>11, StepPassOn
    <3>. QED  BY <2>2, <3>1, <3>2, <3>3, <3>4, <3>5, <3>6, <3>7, <3>8, <3>9, <3>10, <3>11 DEF Step
  <2>. QED  BY <2>1, <2>2 DEF Next
<1>. QED  BY InitIInv, <1>1, PTL DEF Spec

\* The state is of its type: a notification loop is inside its list or just
\* behind it, and an error is on offer to an activation below it.
THEOREM TypeCorrect == Spec => []TypeOK
BY Invariance, SoundTypes, PTL

\* A message has a result or an error, never both, however errors travel
\* through the activations that hold it.
THEOREM OneCompletion == Spec => []ResultOrError
<1>1. IInv => ResultOrError
      BY DEF IInv, ResultOrError
<1>. QED  BY Invariance, <1>1, PTL

\* A message that says it has notified everybody has, whoever was listed
\* while its loop was on its way.
THEOREM EverybodyNotified == Spec => []AllNotifiedAreSent
<1>1. IInv => AllNotifiedAreSent
      BY DEF IInv
<1>. QED  BY Invariance, <1>1, PTL

\* The activation below the method of a message holds that message, so that
\* an error which unwinds the method tells it.
THEOREM FailureTold == Spec => []FailureReachesMessage
<1>1. IInv => FailureReachesMessage
  <2>. SUFFICES ASSUME IInv, NEW a \in Activities, NEW i \in 1..(Len(stack[a]) - 1),
                       stack[a][i].kind = "send", stack[a][i + 1].kind = "act",
                       stack[a][i].message \notin Completed
                PROVE  stack[a][Max(Acts(stack[a], i))].objnotify = stack[a][i].message
       BY DEF FailureReachesMessage
  <2>. DEFINE s == stack[a]
  <2>1. s \in Seq(Frames) /\ Len(s) \in Nat
        BY StackFacts
  <2>2. i \in 1..Len(s) /\ 1 \in 1..i
        BY <2>1
  <2>3. FrameSound(s, i, interestedParties, msgSent, resultReturned, raiseError)
        BY <2>2, StackFacts
  <2>4. s[1].kind = "act"
        BY <2>1, <2>2, StackFacts
  <2>5. Executing(s, Max(Acts(s, i)), i)
        BY <2>1, <2>2, <2>4, CurrentExecutes
  <2>6. Max(Acts(s, i)) \in 1..i
        BY <2>5 DEF Executing
  <2>. QED  BY <2>3, <2>5, <2>6 DEF FrameSound, SendSound, Completed
<1>. QED  BY Invariance, <1>1, PTL

\* The activity that START chose for a message is the one that sends it:
\* whoever else tries is refused, and a second START is an error.
THEOREM StartHonoured == Spec => StartIsHonoured
<1>1. IInv /\ [Next]_vars => [\A m \in startPending : startActivity'[m] = startActivity[m]]_vars
  <2>. SUFFICES ASSUME IInv, Next, NEW m \in startPending PROVE startActivity'[m] = startActivity[m]
       OBVIOUS
  <2>1. m \in Messages /\ startActivity \in [Messages -> Activities \cup {None}]
        BY DEF IInv, Types
  <2>2. ASSUME NEW a, NEW x \in Messages, NEW f, CallSend(a, x, f)
        PROVE  startActivity'[m] = startActivity[m]
    <3>1. CASE UNCHANGED startActivity
          BY <3>1
    <3>2. CASE ~Refused(a, x) /\ startActivity' = [startActivity EXCEPT ![x] = a]
          BY <2>1, <3>2 DEF Refused
    <3>. QED  BY <2>2, <3>1, <3>2 DEF CallSend
  <2>3. PICK a \in Activities : Step(a)
        BY DEF Next
  <2>4. CASE \E x \in Messages : Send(a, x)
        BY <2>2, <2>4 DEF Send
  <2>5. CASE \E x \in Messages, b \in Activities : Start(a, x, b)
        BY <2>1, <2>5 DEF Start
  <2>6. CASE \E x \in Messages, p \in Messages : Notify(a, x, p)
        BY <2>2, <2>6 DEF Notify
  <2>7. CASE Receive(a)
        BY <2>2, <2>7 DEF Receive
  <2>8. CASE NotifyNext(a)
    <3>1. CASE UNCHANGED startActivity
          BY <3>1
    <3>2. CASE /\ ~NoMore(Top(a).message, Top(a).next)
               /\ CallSend(a, interestedParties[Top(a).message][Top(a).next],
                           Append(Front(stack[a]), Notifying(Top(a).message, Top(a).next + 1)))
      <4>1. TopIs(a, "notify")
            BY <2>8 DEF NotifyNext
      <4>2. Top(a) \in Frames /\ Top(a).kind = "notify"
            BY <4>1, TopFacts
      <4>3. Top(a).message \in Messages /\ Top(a).next \in Nat /\ Top(a).next >= 1
            BY <4>2, FrameFacts
      <4>4. interestedParties[Top(a).message] \in Seq(Messages)
            BY <4>3 DEF IInv, Types
      <4>5. Top(a).next \in 1..Len(interestedParties[Top(a).message])
        <5>1. ~(Top(a).next > Len(interestedParties[Top(a).message]))
              BY <3>2 DEF NoMore
        <5>2. Len(interestedParties[Top(a).message]) \in Nat
              BY <4>4
        <5>. QED  BY <4>3, <5>1, <5>2
      <4>6. interestedParties[Top(a).message][Top(a).next] \in Messages
            BY <4>4, <4>5, ElementOfSeq
      <4>. QED  BY <2>2, <3>2, <4>6
    <3>. QED  BY <2>8, <3>1, <3>2 DEF NotifyNext
  <2>9. CASE Call(a) \/ Return(a) \/ Fail(a) \/ TellMessage(a) \/ Trap(a) \/ PassOn(a)
        BY <2>9 DEF Call, Return, Fail, TellMessage, Trap, PassOn
  <2>. QED  BY <2>3, <2>4, <2>5, <2>6, <2>7, <2>8, <2>9 DEF Step
<1>. QED  BY Invariance, <1>1, PTL DEF Spec, StartIsHonoured

=============================================================================
