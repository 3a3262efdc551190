-------------------------- MODULE GuardWait_proofs --------------------------
(***************************************************************************)
(* GUARD WHEN misses no change, for any activities, variables and depth of *)
(* calls.  Two inductive invariants: one of the guards, which says what a  *)
(* frame whose expression was evaluated relies on, and one of the scope,   *)
(* which says whose reservations reserveCount counts.                      *)
(***************************************************************************)
EXTENDS GuardWait, StackLemmas

-----------------------------------------------------------------------------
(* The inductive invariants.                                               *)

\* In the middle of a GUARD an activity keeps the kernel.
KernelKept ==
    \A a \in Activities : state[a] \in {"evaluate", "decide"} => CurrentActivity = a

FrameTypes ==
    /\ CurrentActivity \in Activities \cup {None}
    /\ state \in [Activities -> States]
    /\ frames \in [Activities -> Seq(Frame)]
    /\ guardsem \in [Activities -> BOOLEAN]
    /\ value \in [Variables -> BOOLEAN]
    /\ told \in [Variables -> BOOLEAN]
    /\ dependents \in [Variables -> SUBSET Activities]
    /\ newStem \in [Stems -> (Activities \X BOOLEAN) \cup {None}]

\* The last activation is in a GUARD exactly where the state says so, and
\* what it has found out is up to date as long as the kernel was kept.
AtGuard(a) ==
    /\ state[a] = "idle" <=> frames[a] = <<>>
    /\ state[a] \in {"running", "assigning"} => Top(a).guard = None
    /\ state[a] \in {"evaluate", "decide", "parked", "crashed"} => Top(a).guard # None
    /\ state[a] = "parked" => ~Top(a).result
    /\ state[a] = "crashed" => Top(a).disturbed
    /\ state[a] = "decide" /\ ~Top(a).asked => Top(a).result = value[Top(a).guard]
    /\ \A i \in 1..Len(frames[a]) - 1 : frames[a][i].guard # None => frames[a][i].asked

\* The expression of activation i has been evaluated, or is in the middle of
\* a method call.
Evaluated(a, i) == i < Len(frames[a]) \/ state[a] \in {"decide", "parked", "crashed"}

\* v is true, a notify has said so, and a would not know.
Missed(a, v) == ~guardsem[a] /\ value[v] /\ told[v]

\* Each activation in a GUARD that no other has disturbed is informed of its
\* variable, and has not missed that it became true.
Informed(a) ==
    \A i \in DOMAIN frames[a] :
        LET f == frames[a][i]
        IN  f.guard # None /\ ~f.disturbed =>
               /\ a \in dependents[f.guard]
               /\ Evaluated(a, i) /\ ~f.result => ~Missed(a, f.guard)

\* A GUARD that evaluates its expression disturbs all below it.
Disturbs(a) ==
    \A i, j \in DOMAIN frames[a] :
        /\ i < j
        /\ frames[a][i].guard # None /\ frames[a][j].guard # None
        /\ Evaluated(a, j)
        => frames[a][i].disturbed

GuardInv ==
    /\ FrameTypes
    /\ KernelKept
    /\ \A a \in Activities : AtGuard(a) /\ Informed(a) /\ Disturbs(a)

\* The line at the scope holds those who are to be given it, each once.
InLine(a) == \E i \in DOMAIN waitingActivities : waitingActivities[i] = a

ScopeTypes ==
    /\ reservingActivity \in Activities \cup {None}
    /\ reserveCount \in Nat
    /\ waitingActivities \in Seq(Activities)

LineSound ==
    /\ \A i, j \in DOMAIN waitingActivities : waitingActivities[i] = waitingActivities[j] => i = j
    /\ \A a \in Activities : InLine(a) <=> state[a] = "reserving" /\ reservingActivity # a
    /\ reservingActivity = None => reserveCount = 0 /\ waitingActivities = <<>>

\* Only the holder has reservations, and reserveCount counts them and the one
\* that its wait is for.
CountSound(a) ==
    /\ reservingActivity # a \/ state[a] = "reserving" => Reservations(frames[a]) = 0
    /\ reservingActivity = a =>
          reserveCount = Reservations(frames[a]) + IF state[a] = "reserving" THEN 1 ELSE 0
    /\ reservingActivity = a => reserveCount > 0
    /\ state[a] = "parked" => ~Top(a).reserved

ScopeInv == ScopeTypes /\ LineSound /\ \A a \in Activities : CountSound(a)

-----------------------------------------------------------------------------
(* What the helpers do to a stack of frames.                               *)

\* The position under the top is one of those below it.
LEMMA BelowTop ==
    ASSUME NEW n \in Nat \ {0}, NEW m \in Nat \ {0}, m = n - 1
    PROVE  m \in 1..n - 1 /\ m < n
OBVIOUS

\* A new activation is a frame.
LEMMA NewFrameType == NewFrame \in Frame
BY DEF NewFrame, Frame

\* Replacing the top frame.
LEMMA WithTopProperties ==
    ASSUME NEW s \in Seq(Frame), s # <<>>, NEW f \in Frame
    PROVE  /\ Len(s) \in Nat \ {0}
           /\ Last(s) \in Frame /\ Last(s) = s[Len(s)]
           /\ WithTop(s, f) \in Seq(Frame) /\ WithTop(s, f) # <<>>
           /\ Len(WithTop(s, f)) = Len(s)
           /\ \A i \in 1..Len(s) - 1 : WithTop(s, f)[i] = s[i]
           /\ WithTop(s, f)[Len(s)] = f
           /\ Last(WithTop(s, f)) = f
           /\ Front(WithTop(s, f)) = Front(s)
BY FrontProperties, RetopProperties DEF WithTop

\* A stack that differs from another in its top frame only, and there neither
\* in the guard nor in the result.
SameBelow(s, t) ==
    /\ t \in Seq(Frame) /\ t # <<>> /\ Len(t) = Len(s)
    /\ \A i \in 1..Len(s) - 1 : t[i] = s[i]

SameGuard(f, g) ==
    /\ g.guard = f.guard /\ g.result = f.result
    /\ g.asked = f.asked /\ g.disturbed = f.disturbed

\* Reserving changes the top frame, but not its guard.
LEMMA ReservedProperties ==
    ASSUME NEW s \in Seq(Frame), s # <<>>
    PROVE  /\ SameBelow(s, Reserved(s))
           /\ SameGuard(Last(s), Last(Reserved(s)))
           /\ Last(Reserved(s)).reserved
           /\ Front(Reserved(s)) = Front(s)
<1>. DEFINE f == [Last(s) EXCEPT !.reserved = TRUE, !.initial = FALSE]
<1>1. Last(s) \in Frame
      BY FrontProperties
<1>2. f \in Frame /\ SameGuard(Last(s), f) /\ f.reserved
      BY <1>1 DEF Frame, SameGuard
<1>. HIDE DEF f
<1>3. /\ SameBelow(s, WithTop(s, f)) /\ Last(WithTop(s, f)) = f
      /\ Front(WithTop(s, f)) = Front(s)
      BY <1>2, WithTopProperties DEF SameBelow
<1>4. Reserved(s) = WithTop(s, f)
      BY DEF Reserved, f
<1>. QED  BY <1>2, <1>3, <1>4

\* So does giving a reservation up.
LEMMA ReleasedProperties ==
    ASSUME NEW s \in Seq(Frame), s # <<>>
    PROVE  /\ SameBelow(s, Released(s))
           /\ SameGuard(Last(s), Last(Released(s)))
           /\ ~Last(Released(s)).reserved
           /\ Front(Released(s)) = Front(s)
<1>. DEFINE f == [Last(s) EXCEPT !.reserved = FALSE]
<1>1. Last(s) \in Frame
      BY FrontProperties
<1>2. f \in Frame /\ SameGuard(Last(s), f) /\ ~f.reserved
      BY <1>1 DEF Frame, SameGuard
<1>. HIDE DEF f
<1>3. /\ SameBelow(s, WithTop(s, f)) /\ Last(WithTop(s, f)) = f
      /\ Front(WithTop(s, f)) = Front(s)
      BY <1>2, WithTopProperties DEF SameBelow
<1>4. Released(s) = WithTop(s, f)
      BY DEF Released, f
<1>. QED  BY <1>2, <1>3, <1>4

\* Disturbed marks the guards below the top and changes nothing else.
LEMMA DisturbedProperties ==
    ASSUME NEW s \in Seq(Frame)
    PROVE  /\ Disturbed(s) \in Seq(Frame) /\ Len(Disturbed(s)) = Len(s)
           /\ s # <<>> => Disturbed(s) # <<>>
           /\ \A i \in 1..Len(s) :
                 /\ Disturbed(s)[i].reserved = s[i].reserved
                 /\ Disturbed(s)[i].guard = s[i].guard
                 /\ Disturbed(s)[i].result = s[i].result
                 /\ Disturbed(s)[i].asked = s[i].asked
                 /\ i < Len(s) /\ s[i].guard # None => Disturbed(s)[i].disturbed
                 /\ i = Len(s) => Disturbed(s)[i] = s[i]
<1>. DEFINE e(i) == IF i < Len(s) /\ s[i].guard # None THEN [s[i] EXCEPT !.disturbed = TRUE] ELSE s[i]
            n == Len(s)
            d == [i \in 1..n |-> e(i)]
<1>1. n \in Nat /\ DOMAIN s = 1..n /\ \A i \in 1..n : s[i] \in Frame
      BY ElementOfSeq, LenProperties
<1>2. \A i \in 1..n : e(i) \in Frame
      BY <1>1 DEF Frame
<1>3. d \in Seq(Frame)
  <2>. HIDE DEF e
  <2>. QED  BY <1>1, <1>2, IsASeq
<1>4. Disturbed(s) = d
      BY <1>1 DEF Disturbed
<1>5. Len(d) = n
  <2>. HIDE DEF e
  <2>1. DOMAIN d = 1..Len(d) /\ Len(d) \in Nat
        BY <1>3, LenProperties
  <2>2. DOMAIN d = 1..n
        OBVIOUS
  <2>. QED  BY <1>1, <2>1, <2>2
<1>6. ASSUME NEW i \in 1..n
      PROVE  /\ d[i].reserved = s[i].reserved /\ d[i].guard = s[i].guard
             /\ d[i].result = s[i].result /\ d[i].asked = s[i].asked
             /\ i < Len(s) /\ s[i].guard # None => d[i].disturbed
             /\ i = Len(s) => d[i] = s[i]
  <2>1. d[i] = e(i) /\ s[i] \in Frame
        BY <1>1
  <2>. QED  BY <1>1, <2>1 DEF Frame
<1>7. s # <<>> => d # <<>>
  <2>1. s # <<>> => n # 0
        BY EmptySeq
  <2>2. n # 0 => d # <<>>
        BY <1>1, <1>3, <1>5, EmptySeq
  <2>. QED  BY <2>1, <2>2
<1>. HIDE DEF d, e
<1>. QED  BY <1>3, <1>4, <1>5, <1>6, <1>7 DEF n

-----------------------------------------------------------------------------
(* The guards.                                                             *)

Sound(a) == AtGuard(a) /\ Informed(a) /\ Disturbs(a)

\* Become moves one activity, which has the kernel, and keeps the types.
LEMMA BecomeProperties ==
    ASSUME NEW a \in Activities, NEW st \in States, NEW stack \in Seq(Frame),
           FrameTypes, KernelKept, HasKernel(a), Become(a, st, stack)
    PROVE  /\ state' \in [Activities -> States]
           /\ frames' \in [Activities -> Seq(Frame)]
           /\ CurrentActivity' \in Activities \cup {None}
           /\ KernelKept'
           /\ state'[a] = st /\ frames'[a] = stack
           /\ \A b \in Activities \ {a} :
                 /\ state'[b] = state[b] /\ frames'[b] = frames[b]
                 /\ state[b] \notin {"evaluate", "decide"}
<1>. USE DEF FrameTypes
<1>1. /\ state' = [state EXCEPT ![a] = st]
      /\ frames' = [frames EXCEPT ![a] = stack]
      /\ CurrentActivity' = IF st \in {"evaluate", "decide"} THEN a ELSE None
      BY DEF Become
<1>2. \A b \in Activities \ {a} : state[b] \notin {"evaluate", "decide"}
      BY GuardDistinct DEF KernelKept, HasKernel
<1>3. KernelKept'
      BY <1>1, <1>2 DEF KernelKept
<1>. QED  BY <1>1, <1>2, <1>3

\* What an activity knows survives the steps of the others, who never take
\* its entries off and post it whenever they tell the truth.
LEMMA StaysSound ==
    ASSUME NEW b \in Activities, FrameTypes, Sound(b),
           state'[b] = state[b], frames'[b] = frames[b],
           \A v \in Variables :
              /\ b \in dependents[v] => b \in dependents'[v]
              /\ b \in dependents[v] /\ Missed(b, v)' => Missed(b, v),
           state[b] = "decide" => UNCHANGED value
    PROVE  Sound(b)'
<1>1. AtGuard(b)'
      BY DEF Sound, AtGuard, Top
<1>2. ASSUME NEW i \in DOMAIN frames[b], frames[b][i].guard # None
      PROVE  frames[b][i].guard \in Variables
  <2>1. frames[b] \in Seq(Frame) /\ DOMAIN frames[b] = 1..Len(frames[b])
        BY LenProperties DEF FrameTypes
  <2>2. frames[b][i] \in Frame
        BY <2>1, ElementOfSeq
  <2>. QED  BY <1>2, <2>2 DEF Frame
<1>3. Informed(b)'
      BY <1>2 DEF Sound, Informed, Evaluated
<1>4. Disturbs(b)'
      BY DEF Sound, Disturbs, Evaluated
<1>. QED  BY <1>1, <1>3, <1>4 DEF Sound

\* The top frame changes neither its guard nor its result, and its expression
\* is not evaluated yet.
LEMMA BackToEvaluate ==
    ASSUME NEW a \in Activities, FrameTypes, Sound(a), frames[a] # <<>>,
           SameBelow(frames[a], frames'[a]),
           SameGuard(Last(frames[a]), Last(frames'[a])),
           state'[a] \in {"running", "evaluate", "reserving"},
           state'[a] = "running" => Top(a).guard = None,
           state'[a] = "evaluate" => Top(a).guard # None,
           UNCHANGED <<guardsem, value, told, dependents>>
    PROVE  Sound(a)'
<1>. DEFINE s == frames[a]
            t == frames'[a]
            n == Len(s)
<1>1. s \in Seq(Frame) /\ t \in Seq(Frame) /\ t # <<>>
      BY DEF FrameTypes, SameBelow
<1>2. /\ n \in Nat \ {0} /\ Len(t) = n /\ DOMAIN s = 1..n /\ DOMAIN t = 1..n
      /\ Last(s) = s[n] /\ Last(t) = t[n]
      BY <1>1, FrontProperties, LenProperties DEF SameBelow
<1>3. /\ \A i \in 1..n - 1 : t[i] = s[i]
      /\ SameGuard(s[n], t[n])
      BY <1>2 DEF SameBelow
<1>. HIDE DEF n, s, t
<1>4. AtGuard(a)'
  <2>1. Top(a)' = t[n] /\ Top(a) = s[n]
        BY <1>2 DEF Top, s, t
  <2>2. \A i \in 1..n - 1 : t[i].guard # None => t[i].asked
        BY <1>3 DEF Sound, AtGuard, s, n
  <2>. QED  BY <1>1, <1>2, <1>3, <2>1, <2>2 DEF AtGuard, SameGuard, t
<1>5. \A i \in 1..n : (Evaluated(a, i)' <=> i < n) /\ (i < n => Evaluated(a, i))
      BY <1>2 DEF Evaluated, s, t, n
<1>6. Informed(a)'
  <2>1. ASSUME NEW i \in 1..n, t[i].guard # None, ~t[i].disturbed
        PROVE  /\ a \in dependents[t[i].guard]
               /\ i < n /\ ~t[i].result => ~Missed(a, t[i].guard)
    <3>1. /\ s[i].guard # None /\ ~s[i].disturbed
          /\ s[i].guard = t[i].guard /\ s[i].result = t[i].result
          BY <1>2, <1>3, <2>1 DEF SameGuard
    <3>2. /\ a \in dependents[s[i].guard]
          /\ Evaluated(a, i) /\ ~s[i].result => ~Missed(a, s[i].guard)
          BY <1>2, <3>1 DEF Sound, Informed, s
    <3>. QED  BY <1>5, <3>1, <3>2
  <2>. QED  BY <1>2, <1>5, <2>1 DEF Informed, Missed, t
<1>7. Disturbs(a)'
  <2>1. ASSUME NEW i \in 1..n, NEW j \in 1..n, i < j, j < n, t[i].guard # None, t[j].guard # None
        PROVE  t[i].disturbed
    <3>1. t[i] = s[i] /\ t[j] = s[j] /\ Evaluated(a, j)
          BY <1>2, <1>3, <1>5, <2>1
    <3>. QED  BY <1>2, <2>1, <3>1 DEF Sound, Disturbs, s
  <2>. QED  BY <1>2, <1>5, <2>1 DEF Disturbs, t
<1>. QED  BY <1>4, <1>6, <1>7 DEF Sound

\* Where the top frame has been evaluated, or is in no GUARD, all have.
AllEvaluated(a) ==
    /\ \A i \in 1..Len(frames[a]) :
          LET f == frames[a][i]
          IN  f.guard # None /\ ~f.disturbed =>
                 a \in dependents[f.guard] /\ (~f.result => ~Missed(a, f.guard))
    /\ \A i, j \in 1..Len(frames[a]) :
          i < j /\ frames[a][i].guard # None /\ frames[a][j].guard # None => frames[a][i].disturbed

\* Where no evaluation is due, every GUARD on the stack has been evaluated.
LEMMA SoundEvaluated ==
    ASSUME NEW a \in Activities, FrameTypes, Sound(a), state[a] \in {"idle", "running", "decide", "parked"}
    PROVE  AllEvaluated(a)
<1>. DEFINE s == frames[a]
            n == Len(s)
<1>1. s \in Seq(Frame) /\ n \in Nat /\ DOMAIN s = 1..n
      BY LenProperties DEF FrameTypes
<1>2. \A i \in 1..n : s[i].guard # None => Evaluated(a, i)
  <2>1. CASE state[a] \in {"decide", "parked"}
        BY <2>1 DEF Evaluated
  <2>2. CASE state[a] = "idle"
        BY <2>2 DEF Sound, AtGuard
  <2>3. CASE state[a] = "running"
    <3>1. s[n].guard = None
          BY <2>3 DEF Sound, AtGuard, Top, Last
    <3>. QED  BY <1>1, <3>1 DEF Evaluated
  <2>. QED  BY <2>1, <2>2, <2>3
<1>. HIDE DEF n
<1>. QED  BY <1>1, <1>2 DEF AllEvaluated, Sound, Informed, Disturbs, n

\* The converse, for the state a step leads to.
LEMMA EvaluatedSound ==
    ASSUME NEW a \in Activities, FrameTypes', AtGuard(a)', AllEvaluated(a)'
    PROVE  Sound(a)'
<1>1. DOMAIN frames'[a] = 1..Len(frames'[a])
      BY LenProperties DEF FrameTypes
<1>2. Informed(a)'
      BY <1>1 DEF Informed, AllEvaluated
<1>3. Disturbs(a)'
      BY <1>1 DEF Disturbs, AllEvaluated
<1>. QED  BY <1>2, <1>3 DEF Sound

\* Some frames stay, those above them are in no GUARD.
LEMMA StaysEvaluated ==
    ASSUME NEW a \in Activities, AllEvaluated(a), NEW m \in Nat, m <= Len(frames[a]), m <= Len(frames'[a]),
           Len(frames'[a]) \in Nat,
           \A i \in 1..m : SameGuard(frames[a][i], frames'[a][i]),
           \A i \in m + 1..Len(frames'[a]) : frames'[a][i].guard = None,
           Len(frames[a]) \in Nat,
           UNCHANGED <<guardsem, value, told, dependents>>
    PROVE  AllEvaluated(a)'
<1>. DEFINE s == frames[a]
            t == frames'[a]
<1>1. \A i \in 1..Len(t) : t[i].guard # None => i \in 1..m /\ i \in 1..Len(s) /\ SameGuard(s[i], t[i])
      OBVIOUS
<1>2. ASSUME NEW i \in 1..Len(t), t[i].guard # None, ~t[i].disturbed
      PROVE  a \in dependents[t[i].guard] /\ (~t[i].result => ~Missed(a, t[i].guard))
  <2>1. i \in 1..Len(s) /\ SameGuard(s[i], t[i])
        BY <1>1, <1>2
  <2>. QED  BY <1>2, <2>1 DEF AllEvaluated, SameGuard
<1>3. ASSUME NEW i \in 1..Len(t), NEW j \in 1..Len(t), i < j, t[i].guard # None, t[j].guard # None
      PROVE  t[i].disturbed
  <2>1. /\ i \in 1..Len(s) /\ SameGuard(s[i], t[i])
        /\ j \in 1..Len(s) /\ SameGuard(s[j], t[j])
        BY <1>1, <1>3
  <2>. QED  BY <1>3, <2>1 DEF AllEvaluated, SameGuard
<1>. QED  BY <1>2, <1>3 DEF AllEvaluated, Missed

\* b is left its entries, and is posted when a variable becomes true.
KeepsWord(b) ==
    \A v \in Variables :
        /\ b \in dependents[v] => b \in dependents'[v]
        /\ b \in dependents[v] /\ Missed(b, v)' => Missed(b, v)

\* A step of a is sound if it leaves a sound and the others their entries.
LEMMA BecomeSound ==
    ASSUME NEW a \in Activities, NEW st \in States, NEW stack \in Seq(Frame),
           GuardInv, HasKernel(a), Become(a, st, stack),
           FrameTypes' => Sound(a)',
           guardsem' \in [Activities -> BOOLEAN],
           value' \in [Variables -> BOOLEAN], told' \in [Variables -> BOOLEAN],
           dependents' \in [Variables -> SUBSET Activities],
           newStem' \in [Stems -> (Activities \X BOOLEAN) \cup {None}],
           \A b \in Activities \ {a} : KeepsWord(b)
    PROVE  GuardInv'
<1>1. /\ state' \in [Activities -> States]
      /\ frames' \in [Activities -> Seq(Frame)]
      /\ CurrentActivity' \in Activities \cup {None}
      /\ KernelKept'
      /\ \A b \in Activities \ {a} :
            state'[b] = state[b] /\ frames'[b] = frames[b] /\ state[b] \notin {"evaluate", "decide"}
      BY BecomeProperties DEF GuardInv
<1>2. FrameTypes'
      BY <1>1 DEF FrameTypes
<1>3. ASSUME NEW b \in Activities \ {a} PROVE Sound(b)'
      BY <1>1, StaysSound DEF GuardInv, Sound, KeepsWord
<1>. QED  BY <1>1, <1>2, <1>3 DEF GuardInv, Sound

\* Nothing happens but to the frames of a.
LEMMA FramesSound ==
    ASSUME NEW a \in Activities, NEW st \in States, NEW stack \in Seq(Frame),
           GuardInv, HasKernel(a), Become(a, st, stack),
           FrameTypes' => Sound(a)',
           UNCHANGED <<guardsem, variableVars, newStem>>
    PROVE  GuardInv'
<1>1. \A b \in Activities : KeepsWord(b)
      BY DEF KeepsWord, Missed, variableVars
<1>2. /\ guardsem' \in [Activities -> BOOLEAN]
      /\ value' \in [Variables -> BOOLEAN] /\ told' \in [Variables -> BOOLEAN]
      /\ dependents' \in [Variables -> SUBSET Activities]
      /\ newStem' \in [Stems -> (Activities \X BOOLEAN) \cup {None}]
      BY DEF GuardInv, FrameTypes, variableVars
<1>. QED  BY <1>1, <1>2, BecomeSound

\* Where the state and frames of an activity go.
LEMMA BecomeTo ==
    ASSUME NEW a \in Activities, NEW st, NEW stack, FrameTypes, Become(a, st, stack)
    PROVE  state'[a] = st /\ frames'[a] = stack
BY DEF Become, FrameTypes

\* reserve, for a top frame that is not to evaluate anything yet.
LEMMA ReserveSound ==
    ASSUME NEW a \in Activities, GuardInv, HasKernel(a), frames[a] # <<>>,
           NEW st \in {"running", "evaluate"},
           st = "running" => Top(a).guard = None,
           st = "evaluate" => Top(a).guard # None,
           \/ Become(a, st, Reserved(frames[a]))
           \/ Become(a, "reserving", frames[a])
           \/ Become(a, st, frames[a]),
           UNCHANGED <<guardsem, variableVars, newStem>>
    PROVE  GuardInv'
<1>. DEFINE s == frames[a]
<1>1. FrameTypes /\ Sound(a) /\ s \in Seq(Frame)
      BY DEF GuardInv, Sound, FrameTypes
<1>2. SameBelow(s, s) /\ SameGuard(Last(s), Last(s))
      BY <1>1 DEF SameBelow, SameGuard
<1>3. SameBelow(s, Reserved(s)) /\ SameGuard(Last(s), Last(Reserved(s)))
      BY <1>1, ReservedProperties
<1>4. UNCHANGED <<guardsem, value, told, dependents>>
      BY DEF variableVars
<1>5. {"running", "evaluate", "reserving"} \subseteq States
      BY DEF States
<1>6. CASE Become(a, st, Reserved(s))
  <2>1. Sound(a)'
        BY <1>1, <1>3, <1>4, <1>6, BecomeTo, BackToEvaluate
  <2>2. Reserved(s) \in Seq(Frame)
        BY <1>3 DEF SameBelow
  <2>. QED  BY <1>5, <1>6, <2>1, <2>2, FramesSound
<1>7. CASE Become(a, "reserving", s) \/ Become(a, st, s)
  <2>1. Sound(a)'
        BY <1>1, <1>2, <1>4, <1>7, BecomeTo, BackToEvaluate
  <2>. QED  BY <1>1, <1>5, <1>7, <2>1, FramesSound
<1>. QED  BY <1>6, <1>7

\* waitReserve returns, to a method or to the GUARD that evaluates next.
LEMMA ReserveReturnsKeeps ==
    ASSUME NEW a \in Activities, GuardInv, ReserveReturns(a)
    PROVE  GuardInv'
<1>1. frames[a] # <<>>
      BY DEF ReserveReturns, GuardInv, AtGuard
<1>. QED  BY <1>1, ReserveSound DEF ReserveReturns

\* guardWait returns, to the evaluation or into the line at the scope.
LEMMA WaitReturnsKeeps ==
    ASSUME NEW a \in Activities, GuardInv, WaitReturns(a)
    PROVE  GuardInv'
<1>1. frames[a] # <<>> /\ Top(a).guard # None
      BY DEF WaitReturns, GuardInv, AtGuard
<1>. QED  BY <1>1, ReserveSound DEF WaitReturns, Reserve

\* A method has begun on top of s.
Begun(s, t) ==
    /\ t \in Seq(Frame) /\ t # <<>> /\ Len(t) = Len(s) + 1
    /\ \A i \in 1..Len(s) : t[i] = s[i]
    /\ t[Len(s) + 1].guard = None

\* What Begin puts on a stack, with its scope or without.
LEMMA BegunProperties ==
    ASSUME NEW s \in Seq(Frame)
    PROVE  Begun(s, Append(s, NewFrame)) /\ Begun(s, Reserved(Append(s, NewFrame)))
<1>. DEFINE t == Append(s, NewFrame)
<1>1. /\ t \in Seq(Frame) /\ t # <<>> /\ Len(t) = Len(s) + 1 /\ Len(s) \in Nat
      /\ \A i \in 1..Len(s) : t[i] = s[i]
      /\ t[Len(s) + 1] = NewFrame /\ Last(t) = NewFrame
      BY NewFrameType, PushProperties
<1>2. NewFrame.guard = None
      BY DEF NewFrame
<1>. HIDE DEF t
<1>3. SameBelow(t, Reserved(t)) /\ SameGuard(Last(t), Last(Reserved(t)))
      BY <1>1, ReservedProperties
<1>4. Last(Reserved(t)) = Reserved(t)[Len(s) + 1]
      BY <1>1, <1>3 DEF SameBelow, Last
<1>5. Begun(s, Reserved(t))
      BY <1>1, <1>2, <1>3, <1>4 DEF Begun, SameBelow, SameGuard
<1>6. Begun(s, t)
      BY <1>1, <1>2 DEF Begun
<1>. QED  BY <1>5, <1>6 DEF t

\* The steps of Begin, seen from the stack of the activity.
LEMMA BeginBecomes ==
    ASSUME NEW a \in Activities, NEW s \in Seq(Frame), NEW guarded, Begin(a, s, guarded)
    PROVE  \E st \in {"running", "reserving"}, t \in Seq(Frame) : Begun(s, t) /\ Become(a, st, t)
<1>1. /\ Begun(s, Append(s, NewFrame)) /\ Append(s, NewFrame) \in Seq(Frame)
      /\ Begun(s, Reserved(Append(s, NewFrame))) /\ Reserved(Append(s, NewFrame)) \in Seq(Frame)
      BY BegunProperties DEF Begun
<1>2. \/ Become(a, "running", Append(s, NewFrame))
      \/ Become(a, "running", Reserved(Append(s, NewFrame)))
      \/ Become(a, "reserving", Append(s, NewFrame))
      BY DEF Begin, Reserve
<1>. QED  BY <1>1, <1>2

\* A method called from a clause.
LEMMA CallKeeps ==
    ASSUME NEW a \in Activities, NEW guarded \in BOOLEAN, GuardInv, Call(a, guarded)
    PROVE  GuardInv'
<1>. DEFINE s == frames[a]
            n == Len(s)
<1>1. s \in Seq(Frame) /\ n \in Nat /\ FrameTypes /\ Sound(a) /\ HasKernel(a)
      /\ state[a] \in {"idle", "running"} /\ UNCHANGED <<guardsem, variableVars, newStem>>
      BY DEF GuardInv, Sound, FrameTypes, Call
<1>2. PICK st \in {"running", "reserving"}, t \in Seq(Frame) : Begun(s, t) /\ Become(a, st, t)
      BY <1>1, BeginBecomes DEF Call
<1>3. state'[a] = st /\ frames'[a] = t
      BY <1>1, <1>2, BecomeTo
<1>4. Len(t) = n + 1 /\ t # <<>> /\ t[n + 1].guard = None /\ \A i \in 1..n : t[i] = s[i]
      BY <1>2 DEF Begun
<1>5. ASSUME FrameTypes' PROVE Sound(a)'
  <2>1. AtGuard(a)'
    <3>1. \A i \in 1..n : s[i].guard # None => s[i].asked
      <4>1. CASE state[a] = "idle"
            BY <1>1, <4>1 DEF Sound, AtGuard
      <4>2. CASE state[a] = "running"
        <5>1. s[n].guard = None
              BY <1>1, <4>2 DEF Sound, AtGuard, Top, Last
        <5>2. \A i \in 1..n - 1 : s[i].guard # None => s[i].asked
              BY <1>1 DEF Sound, AtGuard
        <5>. HIDE DEF n
        <5>. QED  BY <1>1, <5>1, <5>2
      <4>. QED  BY <1>1, <4>1, <4>2
    <3>2. Top(a)' = t[n + 1]
          BY <1>3, <1>4 DEF Top, Last
    <3>3. \A i \in 1..Len(t) - 1 : t[i].guard # None => t[i].asked
      <4>1. \A i \in 1..n : t[i].guard # None => t[i].asked
            BY <1>4, <3>1
      <4>2. Len(t) - 1 = n
            BY <1>1, <1>4
      <4>. QED  BY <4>1, <4>2
    <3>4. Top(a)'.guard = None /\ frames'[a] # <<>> /\ state'[a] \in {"running", "reserving"}
          BY <1>3, <1>4, <3>2
    <3>. HIDE DEF n
    <3>. QED  BY <1>3, <3>3, <3>4 DEF AtGuard
  <2>2. AllEvaluated(a)
        BY <1>1, SoundEvaluated
  <2>3. AllEvaluated(a)'
    <3>1. /\ n <= Len(frames[a]) /\ n <= Len(frames'[a]) /\ Len(frames'[a]) \in Nat
          /\ \A i \in 1..n : SameGuard(frames[a][i], frames'[a][i])
          /\ \A i \in n + 1..Len(frames'[a]) : frames'[a][i].guard = None
          BY <1>1, <1>3, <1>4 DEF SameGuard
    <3>. QED  BY <1>1, <2>2, <3>1, StaysEvaluated DEF variableVars
  <2>. QED  BY <1>5, <2>1, <2>3, EvaluatedSound
<1>. QED  BY <1>1, <1>2, <1>5, FramesSound DEF States

\* What is left of a stack that is unwound to its first m, one at least, the
\* last of them perhaps in no GUARD any more.
LEMMA UnwoundSound ==
    ASSUME NEW a \in Activities, FrameTypes, FrameTypes', Sound(a), state[a] = "running",
           NEW m \in Nat \ {0}, m < Len(frames[a]), Len(frames'[a]) = m, frames'[a] # <<>>,
           \A i \in 1..m - 1 : frames'[a][i] = frames[a][i],
           \/ SameGuard(frames[a][m], frames'[a][m])
           \/ frames'[a][m].guard = None,
           state'[a] = IF frames'[a][m].guard = None THEN "running" ELSE "decide",
           UNCHANGED <<guardsem, variableVars>>
    PROVE  Sound(a)'
<1>. DEFINE s == frames[a]
            t == frames'[a]
<1>1. Len(s) \in Nat
      BY DEF FrameTypes
<1>2. AllEvaluated(a)
      BY SoundEvaluated
<1>3. AllEvaluated(a)'
  <2>1. CASE SameGuard(s[m], t[m])
    <3>1. \A i \in 1..m : SameGuard(s[i], t[i])
          BY <2>1 DEF SameGuard
    <3>2. UNCHANGED <<guardsem, value, told, dependents>>
          BY DEF variableVars
    <3>. QED  BY <1>1, <1>2, <3>1, <3>2, StaysEvaluated
  <2>2. CASE t[m].guard = None
    <3>1. /\ m - 1 \in Nat /\ m - 1 <= Len(s) /\ m - 1 <= Len(t)
          /\ \A i \in 1..m - 1 : SameGuard(s[i], t[i])
          /\ \A i \in m - 1 + 1..Len(t) : t[i].guard = None
      <4>1. \A i \in m - 1 + 1..Len(t) : i = m
            OBVIOUS
      <4>2. \A i \in 1..m - 1 : SameGuard(s[i], t[i])
            BY DEF SameGuard
      <4>3. m - 1 \in Nat /\ m - 1 <= Len(s) /\ m - 1 <= Len(t)
            BY <1>1
      <4>. QED  BY <2>2, <4>1, <4>2, <4>3
    <3>2. UNCHANGED <<guardsem, value, told, dependents>>
          BY DEF variableVars
    <3>. QED  BY <1>1, <1>2, <3>1, <3>2, StaysEvaluated
  <2>. QED  BY <2>1, <2>2
<1>4. AtGuard(a)'
  <2>1. \A i \in 1..m : s[i].guard # None => s[i].asked
        BY <1>1 DEF Sound, AtGuard
  <2>2. Top(a)' = t[m]
        BY DEF Top, Last
  <2>3. t[m].guard # None => t[m].asked
    <3>1. m \in 1..m
          OBVIOUS
    <3>. QED  BY <2>1, <3>1 DEF SameGuard
  <2>4. \A i \in 1..Len(t) - 1 : t[i].guard # None => t[i].asked
        BY <1>1, <2>1
  <2>5. state'[a] = IF t[m].guard = None THEN "running" ELSE "decide"
        OBVIOUS
  <2>6. t # <<>>
        OBVIOUS
  <2>. HIDE DEF t
  <2>7. CASE t[m].guard = None
        BY <2>2, <2>4, <2>5, <2>6, <2>7 DEF AtGuard, t
  <2>8. CASE t[m].guard # None
        BY <2>2, <2>3, <2>4, <2>5, <2>6, <2>8 DEF AtGuard, t
  <2>. QED  BY <2>7, <2>8
<1>. QED  BY <1>3, <1>4, EvaluatedSound

\* A method returns, perhaps to the GUARD whose expression it is.
LEMMA ReturnKeeps ==
    ASSUME NEW a \in Activities, GuardInv, Return(a)
    PROVE  GuardInv'
<1>. DEFINE s == frames[a]
            t == Front(s)
            st == IF t = <<>> THEN "idle" ELSE IF Last(t).guard = None THEN "running" ELSE "decide"
<1>1. s \in Seq(Frame) /\ s # <<>> /\ FrameTypes /\ Sound(a) /\ HasKernel(a)
      /\ state[a] = "running" /\ UNCHANGED <<guardsem, variableVars, newStem>>
      /\ Become(a, st, t)
      BY DEF GuardInv, Sound, FrameTypes, Return, AtGuard
<1>2. /\ Len(s) \in Nat \ {0} /\ t \in Seq(Frame) /\ Len(t) = Len(s) - 1
      /\ \A i \in 1..Len(s) - 1 : t[i] = s[i]
      BY <1>1, FrontProperties
<1>3. state'[a] = st /\ frames'[a] = t
      BY <1>1, BecomeTo
<1>. HIDE DEF t
<1>4. ASSUME FrameTypes' PROVE Sound(a)'
  <2>1. CASE t = <<>>
    <3>1. Len(t) = 0
          BY <2>1
    <3>. QED  BY <1>3, <2>1, <3>1 DEF Sound, AtGuard, Informed, Disturbs
  <2>2. CASE t # <<>>
    <3>1. Len(t) \in Nat \ {0} /\ Last(t) = t[Len(t)]
          BY <1>2, <2>2, FrontProperties
    <3>2. /\ \A i \in 1..Len(t) - 1 : t[i] = s[i]
          /\ SameGuard(s[Len(t)], t[Len(t)]) /\ Len(t) < Len(s)
      <4>1. \A i \in 1..Len(t) - 1 : t[i] = s[i]
            BY <1>2, <3>1
      <4>2. Len(t) \in 1..Len(s) - 1 /\ Len(t) < Len(s)
        <5>1. Len(s) \in Nat \ {0} /\ Len(t) = Len(s) - 1 /\ Len(t) \in Nat \ {0}
              BY <1>2, <3>1
        <5>. QED  BY <5>1, BelowTop
      <4>3. s[Len(t)] = t[Len(t)]
            BY <1>2, <4>2
      <4>. QED  BY <4>1, <4>2, <4>3 DEF SameGuard
    <3>. QED  BY <1>1, <1>3, <1>4, <2>2, <3>1, <3>2, UnwoundSound
  <2>. QED  BY <2>1, <2>2
<1>5. st \in States
      BY DEF States
<1>. HIDE DEF st
<1>. QED  BY <1>1, <1>2, <1>4, <1>5, FramesSound

\* An error unwinds the stack; a GUARD that it leaves is over.
LEMMA RaiseErrorKeeps ==
    ASSUME NEW a \in Activities, GuardInv, RaiseError(a)
    PROVE  GuardInv'
<1>. DEFINE s == frames[a]
<1>1. s \in Seq(Frame) /\ s # <<>> /\ FrameTypes /\ Sound(a) /\ HasKernel(a)
      /\ state[a] = "running" /\ UNCHANGED <<guardsem, variableVars, newStem>>
      BY DEF GuardInv, Sound, FrameTypes, RaiseError, AtGuard
<1>2. Len(s) \in Nat \ {0}
      BY <1>1, EmptySeq
<1>3. PICK keep \in 0..Len(s) - 1 :
         IF keep = 0 THEN Become(a, "idle", <<>>)
         ELSE Become(a, "running",
                WithTop(SubSeq(s, 1, keep), [NewFrame EXCEPT !.reserved = Last(SubSeq(s, 1, keep)).reserved]))
      BY DEF RaiseError
<1>4. CASE keep = 0
  <2>1. state'[a] = "idle" /\ frames'[a] = <<>> /\ Become(a, "idle", <<>>)
        BY <1>1, <1>3, <1>4, BecomeTo
  <2>2. Sound(a)'
    <3>1. Len(<<>>) = 0
          OBVIOUS
    <3>. QED  BY <2>1, <3>1 DEF Sound, AtGuard, Informed, Disturbs
  <2>3. <<>> \in Seq(Frame)
        OBVIOUS
  <2>. QED  BY <1>1, <2>1, <2>2, <2>3, FramesSound DEF States
<1>5. CASE keep # 0
  <2>. DEFINE u == SubSeq(s, 1, keep)
              f == [NewFrame EXCEPT !.reserved = Last(u).reserved]
              t == WithTop(u, f)
  <2>1. /\ keep \in 0..Len(s) /\ keep \in Nat \ {0} /\ keep < Len(s)
        BY <1>2, <1>5
  <2>2. /\ u \in Seq(Frame) /\ Len(u) = keep /\ \A i \in 1..keep : u[i] = s[i]
        BY <1>1, <2>1, PrefixProperties
  <2>3. u # <<>>
        BY <2>1, <2>2
  <2>. HIDE DEF u
  <2>4. f \in Frame /\ f.guard = None
    <3>1. Last(u) \in Frame
          BY <2>2, <2>3, FrontProperties
    <3>. QED  BY <3>1 DEF Frame, NewFrame
  <2>. HIDE DEF f
  <2>5. /\ t \in Seq(Frame) /\ t # <<>> /\ Len(t) = keep /\ t[keep] = f
        /\ \A i \in 1..keep - 1 : t[i] = u[i]
        BY <2>2, <2>3, <2>4, WithTopProperties
  <2>6. Become(a, "running", t)
        BY <1>3, <1>5 DEF t, f, u
  <2>7. state'[a] = "running" /\ frames'[a] = t
        BY <1>1, <2>6, BecomeTo
  <2>. HIDE DEF t
  <2>8. ASSUME FrameTypes' PROVE Sound(a)'
    <3>1. \A i \in 1..keep - 1 : t[i] = s[i]
          BY <2>1, <2>2, <2>5
    <3>. QED  BY <1>1, <2>1, <2>4, <2>5, <2>7, <2>8, <3>1, UnwoundSound
  <2>. QED  BY <1>1, <2>5, <2>6, <2>8, FramesSound DEF States
<1>. QED  BY <1>4, <1>5

\* The wait: the false result is still what the variable says.
LEMMA WaitKeeps ==
    ASSUME NEW a \in Activities, GuardInv, Wait(a)
    PROVE  GuardInv'
<1>. DEFINE s == frames[a]
            n == Len(s)
            f == [Top(a) EXCEPT !.initial = Top(a).reserved, !.reserved = FALSE]
            t == WithTop(s, f)
<1>1. s \in Seq(Frame) /\ s # <<>> /\ FrameTypes /\ Sound(a) /\ HasKernel(a)
      /\ state[a] = "decide" /\ ~Top(a).result /\ UNCHANGED <<guardsem, variableVars, newStem>>
      /\ Become(a, "parked", t)
      BY DEF GuardInv, Sound, FrameTypes, Wait, AtGuard, KernelKept, HasKernel
<1>2. n \in Nat \ {0} /\ Top(a) = s[n] /\ s[n] \in Frame
      BY <1>1, WithTopProperties, NewFrameType DEF Top
<1>3. f \in Frame /\ SameGuard(s[n], f)
      BY <1>2 DEF Frame, SameGuard
<1>. HIDE DEF f
<1>4. /\ t \in Seq(Frame) /\ t # <<>> /\ Len(t) = n /\ t[n] = f /\ Last(t) = f
      /\ \A i \in 1..n - 1 : t[i] = s[i]
      BY <1>1, <1>3, WithTopProperties
<1>5. state'[a] = "parked" /\ frames'[a] = t
      BY <1>1, BecomeTo
<1>. HIDE DEF t, n
<1>6. ASSUME FrameTypes' PROVE Sound(a)'
  <2>1. AllEvaluated(a)
        BY <1>1, SoundEvaluated
  <2>2. AllEvaluated(a)'
    <3>1. \A i \in 1..n : SameGuard(s[i], t[i])
          BY <1>2, <1>3, <1>4 DEF SameGuard
    <3>2. UNCHANGED <<guardsem, value, told, dependents>>
          BY <1>1 DEF variableVars
    <3>3. n = Len(s)
          BY DEF n
    <3>. QED  BY <1>2, <1>4, <1>5, <2>1, <3>1, <3>2, <3>3, StaysEvaluated
  <2>3. AtGuard(a)'
    <3>1. Top(a)' = f
          BY <1>4, <1>5 DEF Top
    <3>2. f.guard # None /\ ~f.result
          BY <1>1, <1>2, <1>3 DEF SameGuard, Sound, AtGuard
    <3>3. \A i \in 1..n - 1 : t[i].guard # None => t[i].asked
          BY <1>1, <1>4 DEF Sound, AtGuard, n
    <3>. QED  BY <1>4, <1>5, <3>1, <3>2, <3>3 DEF AtGuard
  <2>. QED  BY <1>6, <2>2, <2>3, EvaluatedSound
<1>. QED  BY <1>1, <1>4, <1>6, FramesSound DEF States

-----------------------------------------------------------------------------
(* The assignments.                                                        *)

\* Variables change while no activity is between expression and wait.
LEMMA VariablesKeep ==
    ASSUME NEW a \in Activities, GuardInv, state[a] = "running", HasKernel(a),
           FrameTypes', \A b \in Activities : KeepsWord(b),
           UNCHANGED <<CurrentActivity, state, frames>>
    PROVE  GuardInv'
<1>1. KernelKept'
      BY DEF GuardInv, KernelKept
<1>2. ASSUME NEW b \in Activities PROVE Sound(b)'
  <2>1. state[b] # "decide"
        BY GuardDistinct DEF GuardInv, KernelKept, HasKernel
  <2>. QED  BY <2>1, StaysSound DEF GuardInv, Sound, KeepsWord
<1>. QED  BY <1>1, <1>2 DEF GuardInv, Sound

\* From one clause to the notify of a stem assignment, or back.
LEMMA AssigningSound ==
    ASSUME NEW a \in Activities, FrameTypes, Sound(a), KeepsWord(a),
           {state[a], state'[a]} \subseteq {"running", "assigning"},
           frames'[a] = frames[a]
    PROVE  Sound(a)'
<1>1. AtGuard(a)'
      BY DEF Sound, AtGuard, Top
<1>2. ASSUME NEW i \in DOMAIN frames[a], frames[a][i].guard # None
      PROVE  frames[a][i].guard \in Variables
  <2>1. frames[a] \in Seq(Frame) /\ DOMAIN frames[a] = 1..Len(frames[a])
        BY LenProperties DEF FrameTypes
  <2>2. frames[a][i] \in Frame
        BY <2>1, ElementOfSeq
  <2>. QED  BY <1>2, <2>2 DEF Frame
<1>3. Informed(a)'
      BY <1>2 DEF Sound, Informed, Evaluated, KeepsWord
<1>4. Disturbs(a)'
      BY DEF Sound, Disturbs, Evaluated
<1>. QED  BY <1>1, <1>3, <1>4 DEF Sound

\* Every dependent is posted.
LEMMA SetVariableTells ==
    ASSUME FrameTypes, NEW v \in Variables, NEW new \in BOOLEAN, SetVariable(v, new)
    PROVE  /\ guardsem' \in [Activities -> BOOLEAN]
           /\ value' \in [Variables -> BOOLEAN] /\ told' \in [Variables -> BOOLEAN]
           /\ dependents' \in [Variables -> SUBSET Activities]
           /\ \A b \in Activities : KeepsWord(b)
<1>1. /\ value' = [value EXCEPT ![v] = new] /\ told' = [told EXCEPT ![v] = TRUE]
      /\ guardsem' = [b \in Activities |-> guardsem[b] \/ b \in Posted(v)]
      /\ dependents' = dependents /\ Posted(v) = dependents[v]
      BY DEF SetVariable, Posted
<1>2. \A b \in Activities : guardsem[b] \/ b \in Posted(v) => guardsem'[b]
      BY <1>1
<1>3. ASSUME NEW b \in Activities, NEW w \in Variables, b \in dependents[w], Missed(b, w)'
      PROVE  Missed(b, w)
  <2>1. ~guardsem'[b] /\ value'[w] /\ told'[w]
        BY <1>3 DEF Missed
  <2>2. ~guardsem[b] /\ w # v
        BY <1>1, <1>2, <1>3, <2>1
  <2>3. value[w] /\ told[w]
        BY <1>1, <2>1, <2>2 DEF FrameTypes
  <2>. QED  BY <2>2, <2>3 DEF Missed
<1>4. guardsem' \in [Activities -> BOOLEAN]
      BY <1>1
<1>. QED  BY <1>1, <1>3, <1>4 DEF FrameTypes, KeepsWord

\* An assignment to a simple variable, or DROP.
LEMMA AssignKeeps ==
    ASSUME NEW a \in Activities, NEW v \in Variables, NEW new \in BOOLEAN, GuardInv, Assign(a, v, new)
    PROVE  GuardInv'
<1>1. FrameTypes /\ state[a] = "running" /\ HasKernel(a) /\ UNCHANGED <<CurrentActivity, state, frames>>
      BY DEF GuardInv, Assign
<1>2. /\ guardsem' \in [Activities -> BOOLEAN]
      /\ value' \in [Variables -> BOOLEAN] /\ told' \in [Variables -> BOOLEAN]
      /\ dependents' \in [Variables -> SUBSET Activities]
      /\ \A b \in Activities : KeepsWord(b)
      BY <1>1, SetVariableTells DEF Assign
<1>3. newStem' \in [Stems -> (Activities \X BOOLEAN) \cup {None}]
      BY <1>1 DEF Assign, FrameTypes
<1>4. FrameTypes'
      BY <1>1, <1>2, <1>3 DEF FrameTypes
<1>. QED  BY <1>1, <1>2, <1>4, VariablesKeep

\* The first half of a stem assignment, or all of it if nobody depends.
LEMMA AssignStemKeeps ==
    ASSUME NEW a \in Activities, NEW v \in Stems, NEW new \in BOOLEAN, GuardInv, AssignStem(a, v, new)
    PROVE  GuardInv'
<1>1. FrameTypes /\ state[a] = "running" /\ HasKernel(a) /\ v \in Variables
      BY DEF GuardInv, AssignStem, Variables
<1>2. CASE /\ SetVariable(v, FALSE)
           /\ newStem' = [newStem EXCEPT ![v] = <<a, new>>]
           /\ Become(a, "assigning", frames[a])
  <2>1. /\ guardsem' \in [Activities -> BOOLEAN]
        /\ value' \in [Variables -> BOOLEAN] /\ told' \in [Variables -> BOOLEAN]
        /\ dependents' \in [Variables -> SUBSET Activities]
        /\ \A b \in Activities : KeepsWord(b)
        BY <1>1, <1>2, SetVariableTells
  <2>2. newStem' \in [Stems -> (Activities \X BOOLEAN) \cup {None}]
        BY <1>1, <1>2 DEF FrameTypes
  <2>3. state'[a] = "assigning" /\ frames'[a] = frames[a]
        BY <1>1, <1>2, BecomeTo
  <2>4. Sound(a)'
        BY <1>1, <2>1, <2>3, AssigningSound DEF GuardInv, Sound
  <2>. QED  BY <1>1, <1>2, <2>1, <2>2, <2>4, BecomeSound DEF FrameTypes, States
<1>3. CASE /\ SetVariable(v, new)
           /\ newStem' = [newStem EXCEPT ![v] = None]
           /\ UNCHANGED <<CurrentActivity, state, frames>>
  <2>1. /\ guardsem' \in [Activities -> BOOLEAN]
        /\ value' \in [Variables -> BOOLEAN] /\ told' \in [Variables -> BOOLEAN]
        /\ dependents' \in [Variables -> SUBSET Activities]
        /\ \A b \in Activities : KeepsWord(b)
        BY <1>1, <1>3, SetVariableTells
  <2>2. FrameTypes'
        BY <1>1, <1>3, <2>1 DEF FrameTypes
  <2>. QED  BY <1>1, <1>3, <2>1, <2>2, VariablesKeep
<1>. QED  BY <1>2, <1>3 DEF AssignStem

\* Its second half, of which nobody is told.
LEMMA SetDefaultKeeps ==
    ASSUME NEW a \in Activities, GuardInv, SetDefault(a)
    PROVE  GuardInv'
<1>. DEFINE set == {v \in Stems : newStem[v] \in {a} \X BOOLEAN}
<1>1. /\ FrameTypes /\ state[a] = "assigning" /\ HasKernel(a) /\ Become(a, "running", frames[a])
      /\ value' = [v \in Variables |-> IF v \in set THEN newStem[v][2] ELSE value[v]]
      /\ told' = [v \in Variables |-> told[v] /\ value'[v] = value[v]]
      /\ newStem' = [v \in Stems |-> IF v \in set THEN None ELSE newStem[v]]
      /\ UNCHANGED <<guardsem, dependents>>
      BY DEF GuardInv, SetDefault
<1>2. \A v \in set : newStem[v][2] \in BOOLEAN
      OBVIOUS
<1>. HIDE DEF set
<1>3. value' \in [Variables -> BOOLEAN] /\ told' \in [Variables -> BOOLEAN]
      BY <1>1, <1>2 DEF FrameTypes
<1>4. newStem' \in [Stems -> (Activities \X BOOLEAN) \cup {None}]
      BY <1>1 DEF FrameTypes
<1>5. \A b \in Activities : KeepsWord(b)
  <2>1. \A v \in Variables : told'[v] => told[v] /\ value'[v] = value[v]
        BY <1>1
  <2>. QED  BY <1>1, <2>1 DEF KeepsWord, Missed
<1>6. Sound(a)'
  <2>1. state'[a] = "running" /\ frames'[a] = frames[a]
        BY <1>1, BecomeTo
  <2>. QED  BY <1>1, <1>5, <2>1, AssigningSound DEF GuardInv, Sound
<1>. QED  BY <1>1, <1>3, <1>4, <1>5, <1>6, BecomeSound DEF FrameTypes, States

\* An element is set without a word, and the variable is not told of.
LEMMA AssignElementKeeps ==
    ASSUME NEW a \in Activities, NEW v \in Stems, NEW new \in BOOLEAN, GuardInv, AssignElement(a, v, new)
    PROVE  GuardInv'
<1>1. /\ FrameTypes /\ state[a] = "running" /\ HasKernel(a) /\ v \in Variables
      /\ value' = [value EXCEPT ![v] = new] /\ told' = [told EXCEPT ![v] = FALSE]
      /\ newStem' = [newStem EXCEPT ![v] = None]
      /\ UNCHANGED <<CurrentActivity, state, frames, guardsem, dependents>>
      BY DEF GuardInv, AssignElement, Variables
<1>2. FrameTypes'
      BY <1>1 DEF FrameTypes
<1>3. ASSUME NEW b \in Activities, NEW w \in Variables, Missed(b, w)'
      PROVE  Missed(b, w)
  <2>1. ~guardsem[b] /\ value'[w] /\ told'[w]
        BY <1>1, <1>3 DEF Missed
  <2>2. w # v
        BY <1>1, <2>1 DEF FrameTypes
  <2>. QED  BY <1>1, <2>1, <2>2 DEF FrameTypes, Missed
<1>4. \A b \in Activities : KeepsWord(b)
      BY <1>1, <1>3 DEF KeepsWord
<1>. QED  BY <1>1, <1>2, <1>4, VariablesKeep

-----------------------------------------------------------------------------
(* The steps of GUARD WHEN.                                                *)

\* setGuard: the variable is in the top frame, the activity in its dependents.
LEMMA GuardedSound ==
    ASSUME NEW a \in Activities, NEW v \in Variables, FrameTypes, Sound(a),
           state[a] = "running", frames[a] # <<>>,
           SameBelow(frames[a], frames'[a]), Last(frames'[a]).guard = v,
           state'[a] \in {"evaluate", "reserving"},
           a \in dependents'[v],
           \A w \in Variables : dependents[w] \subseteq dependents'[w],
           UNCHANGED <<guardsem, value, told>>
    PROVE  Sound(a)'
<1>. DEFINE s == frames[a]
            t == frames'[a]
            n == Len(s)
<1>1. s \in Seq(Frame) /\ t \in Seq(Frame) /\ t # <<>> /\ v # None
      BY GuardDistinct DEF FrameTypes, SameBelow, Variables
<1>2. /\ n \in Nat \ {0} /\ Len(t) = n /\ DOMAIN s = 1..n /\ DOMAIN t = 1..n
      /\ Last(t) = t[n] /\ \A i \in 1..n : s[i] \in Frame
  <2>1. n \in Nat \ {0} /\ Len(t) = n
        BY <1>1, EmptySeq DEF SameBelow
  <2>2. DOMAIN s = 1..n /\ DOMAIN t = 1..Len(t)
        BY <1>1, LenProperties
  <2>3. \A i \in 1..n : s[i] \in Frame
        BY <1>1, ElementOfSeq
  <2>4. Last(t) = t[Len(t)]
        BY DEF Last
  <2>. HIDE DEF n, t
  <2>. QED  BY <2>1, <2>2, <2>3, <2>4
<1>3. /\ \A i \in 1..n - 1 : t[i] = s[i]
      /\ t[n].guard = v
      BY <1>2 DEF SameBelow
<1>4. AllEvaluated(a)
      BY SoundEvaluated
<1>. HIDE DEF n, t
<1>5. AtGuard(a)'
  <2>1. Top(a)' = t[n]
        BY <1>2 DEF Top, t
  <2>2. \A i \in 1..n - 1 : t[i].guard # None => t[i].asked
        BY <1>3 DEF Sound, AtGuard, n
  <2>. QED  BY <1>1, <1>2, <1>3, <2>1, <2>2 DEF AtGuard, t
<1>6. \A i \in 1..n : Evaluated(a, i)' <=> i < n
      BY <1>2 DEF Evaluated, t
<1>7. Informed(a)'
  <2>1. ASSUME NEW i \in 1..n, t[i].guard # None, ~t[i].disturbed
        PROVE  /\ a \in dependents'[t[i].guard]
               /\ i < n /\ ~t[i].result => ~Missed(a, t[i].guard)
    <3>1. CASE i = n
          BY <1>2, <1>3, <3>1
    <3>2. CASE i # n
      <4>1. i \in 1..n - 1 /\ t[i] = s[i] /\ s[i] \in Frame /\ i \in 1..Len(s)
            BY <1>2, <1>3, <3>2 DEF n
      <4>2. a \in dependents[s[i].guard] /\ (~s[i].result => ~Missed(a, s[i].guard))
            BY <1>4, <2>1, <4>1 DEF AllEvaluated
      <4>3. s[i].guard \in Variables
            BY <2>1, <4>1 DEF Frame
      <4>. QED  BY <4>1, <4>2, <4>3
    <3>. QED  BY <3>1, <3>2
  <2>. QED  BY <1>2, <1>6, <2>1 DEF Informed, Missed, t
<1>8. Disturbs(a)'
  <2>1. ASSUME NEW i \in 1..n, NEW j \in 1..n, i < j, j < n, t[i].guard # None, t[j].guard # None
        PROVE  t[i].disturbed
    <3>1. t[i] = s[i] /\ t[j] = s[j]
          BY <1>2, <1>3, <2>1
    <3>. QED  BY <1>4, <2>1, <3>1 DEF AllEvaluated, n
  <2>. QED  BY <1>2, <1>6, <2>1 DEF Disturbs, t
<1>. QED  BY <1>5, <1>7, <1>8 DEF Sound

\* setGuard and the change of the scope.
LEMMA GuardWhenKeeps ==
    ASSUME NEW a \in Activities, NEW on \in BOOLEAN, NEW v \in Variables, GuardInv, GuardWhen(a, on, v)
    PROVE  GuardInv'
<1>. DEFINE s == frames[a]
            f == [Top(a) EXCEPT !.guard = v]
            u == WithTop(s, f)
<1>1. /\ FrameTypes /\ Sound(a) /\ s \in Seq(Frame) /\ s # <<>>
      /\ state[a] = "running" /\ HasKernel(a)
      /\ dependents' = [dependents EXCEPT ![v] = @ \cup {a}]
      /\ UNCHANGED <<guardsem, value, told, newStem>>
      BY DEF GuardInv, Sound, FrameTypes, GuardWhen, AtGuard
<1>2. Top(a) \in Frame
      BY <1>1, FrontProperties DEF Top
<1>3. f \in Frame /\ f.guard = v
      BY <1>2 DEF Frame
<1>. HIDE DEF f
<1>4. SameBelow(s, u) /\ Last(u).guard = v /\ u \in Seq(Frame) /\ u # <<>>
      BY <1>1, <1>3, WithTopProperties DEF SameBelow
<1>5. PICK st \in {"evaluate", "reserving"}, t \in {u, Reserved(u), Released(u)} : Become(a, st, t)
      BY DEF GuardWhen, Reserve, f
<1>. HIDE DEF u
<1>6. SameBelow(s, t) /\ Last(t).guard = v /\ t \in Seq(Frame)
  <2>1. CASE t = u
        BY <1>4, <2>1
  <2>2. CASE t \in {Reserved(u), Released(u)}
    <3>1. SameBelow(u, t) /\ SameGuard(Last(u), Last(t))
          BY <1>4, <2>2, ReservedProperties, ReleasedProperties
    <3>. QED  BY <1>4, <3>1 DEF SameBelow, SameGuard
  <2>. QED  BY <2>1, <2>2
<1>7. state'[a] = st /\ frames'[a] = t
      BY <1>1, <1>5, BecomeTo
<1>8. /\ dependents' \in [Variables -> SUBSET Activities]
      /\ a \in dependents'[v]
      /\ \A w \in Variables : dependents[w] \subseteq dependents'[w]
      /\ \A w \in Variables, b \in Activities \ {a} : b \in dependents[w] => b \in dependents'[w]
      BY <1>1 DEF FrameTypes
<1>9. \A b \in Activities \ {a} : KeepsWord(b)
      BY <1>1, <1>8 DEF KeepsWord, Missed
<1>10. Sound(a)'
      BY <1>1, <1>6, <1>7, <1>8, GuardedSound
<1>11. /\ guardsem' \in [Activities -> BOOLEAN]
       /\ value' \in [Variables -> BOOLEAN] /\ told' \in [Variables -> BOOLEAN]
       /\ newStem' \in [Stems -> (Activities \X BOOLEAN) \cup {None}]
       BY <1>1 DEF FrameTypes
<1>12. st \in States
       BY DEF States
<1>. QED  BY <1>1, <1>5, <1>6, <1>8, <1>9, <1>10, <1>11, <1>12, BecomeSound

\* The stack after the expression was looked at, with the result b; ask when
\* it calls a method.
Looked(s, b, u) ==
    /\ u \in Seq(Frame) /\ u # <<>> /\ Len(u) = Len(s)
    /\ \A i \in 1..Len(s) :
          /\ u[i].guard = s[i].guard
          /\ i < Len(s) /\ s[i].guard # None => u[i].disturbed
          /\ i < Len(s) => u[i].asked = s[i].asked
    /\ u[Len(s)].result = b
    /\ u[Len(s)].disturbed = s[Len(s)].disturbed

\* Evaluate leaves such a stack.
LEMMA LookedProperties ==
    ASSUME NEW s \in Seq(Frame), s # <<>>, NEW b \in BOOLEAN, NEW f \in Frame,
           f.guard = Last(s).guard, f.disturbed = Last(s).disturbed, f.result = b
    PROVE  /\ Looked(s, b, WithTop(Disturbed(s), f))
           /\ Last(WithTop(Disturbed(s), f)) = f
<1>. DEFINE d == Disturbed(s)
            u == WithTop(d, f)
            n == Len(s)
<1>1. n \in Nat \ {0} /\ Last(s) = s[n]
      BY FrontProperties
<1>2. /\ d \in Seq(Frame) /\ Len(d) = n /\ d # <<>>
      /\ \A i \in 1..n : /\ d[i].guard = s[i].guard /\ d[i].asked = s[i].asked
                         /\ i < n /\ s[i].guard # None => d[i].disturbed
      BY DisturbedProperties
<1>. HIDE DEF d, n
<1>3. /\ u \in Seq(Frame) /\ u # <<>> /\ Len(u) = n /\ u[n] = f /\ Last(u) = f
      /\ \A i \in 1..n - 1 : u[i] = d[i]
  <2>1. d \in Seq(Frame) /\ d # <<>> /\ Len(d) = n
        BY <1>2
  <2>2. u \in Seq(Frame) /\ u # <<>> /\ Len(u) = Len(d)
        BY <2>1, WithTopProperties
  <2>3. u[Len(d)] = f /\ Last(u) = f
        BY <2>1, WithTopProperties
  <2>4. \A i \in 1..Len(d) - 1 : u[i] = d[i]
        BY <2>1, WithTopProperties
  <2>. HIDE DEF u
  <2>. QED  BY <2>1, <2>2, <2>3, <2>4
<1>. HIDE DEF u
<1>4. ASSUME NEW i \in 1..n
      PROVE  /\ u[i].guard = s[i].guard
             /\ i < n /\ s[i].guard # None => u[i].disturbed
             /\ i < n => u[i].asked = s[i].asked
  <2>1. CASE i = n
        BY <1>1, <1>3, <2>1
  <2>2. CASE i # n
    <3>1. i \in 1..n - 1
          BY <1>1, <2>2
    <3>. QED  BY <1>2, <1>3, <3>1
  <2>. QED  BY <2>1, <2>2
<1>5. u[n].result = b /\ u[n].disturbed = s[n].disturbed
      BY <1>1, <1>3
<1>. QED  BY <1>3, <1>4, <1>5 DEF Looked, u, n, d

\* Once it was looked at, nothing was missed.
LEMMA LookedEvaluated ==
    ASSUME NEW a \in Activities, FrameTypes, Sound(a), frames[a] # <<>>, Top(a).guard \in Variables,
           NEW u, Looked(frames[a], value[Top(a).guard], u),
           NEW m \in {Len(u), Len(u) + 1}, Len(frames'[a]) = m,
           \A i \in 1..Len(u) : frames'[a][i] = u[i],
           m = Len(u) + 1 => frames'[a][m].guard = None,
           UNCHANGED <<value, told, dependents>>
    PROVE  AllEvaluated(a)'
<1>. DEFINE s == frames[a]
            t == frames'[a]
            n == Len(s)
<1>1. s \in Seq(Frame) /\ n \in Nat \ {0} /\ Top(a) = s[n] /\ Len(u) = n /\ DOMAIN s = 1..n
  <2>1. s \in Seq(Frame)
        BY DEF FrameTypes
  <2>2. n \in Nat \ {0} /\ DOMAIN s = 1..n
        BY <2>1, EmptySeq, LenProperties
  <2>3. Top(a) = s[n] /\ Len(u) = n
        BY DEF Top, Last, Looked
  <2>. QED  BY <2>1, <2>2, <2>3
<1>2. /\ \A i \in 1..n : u[i].guard = s[i].guard /\ (i < n /\ s[i].guard # None => u[i].disturbed)
      /\ u[n].result = value[s[n].guard] /\ u[n].disturbed = s[n].disturbed
      BY <1>1 DEF Looked
<1>. HIDE DEF n
<1>3. ASSUME NEW i \in 1..m, t[i].guard # None
      PROVE  i \in 1..n /\ t[i] = u[i] /\ t[i].guard = s[i].guard /\ (i < n => t[i].disturbed)
  <2>1. i \in 1..n
        BY <1>1, <1>3
  <2>2. t[i] = u[i]
        BY <1>1, <2>1
  <2>3. u[i].guard = s[i].guard /\ (i < n /\ s[i].guard # None => u[i].disturbed)
        BY <1>2, <2>1
  <2>. QED  BY <1>3, <2>1, <2>2, <2>3
<1>4. ASSUME NEW i \in 1..m, t[i].guard # None, ~t[i].disturbed
      PROVE  a \in dependents[t[i].guard] /\ (~t[i].result => ~value[t[i].guard])
  <2>1. i = n /\ t[i] = u[n] /\ t[i].guard = s[n].guard
        BY <1>1, <1>3, <1>4
  <2>2. t[i].result = value[s[n].guard] /\ ~s[n].disturbed
        BY <1>2, <1>4, <2>1
  <2>3. a \in dependents[s[n].guard]
        BY <1>1, <1>4, <2>1, <2>2 DEF Sound, Informed
  <2>. QED  BY <2>1, <2>2, <2>3
<1>5. ASSUME NEW i \in 1..m, NEW j \in 1..m, i < j, t[i].guard # None, t[j].guard # None
      PROVE  t[i].disturbed
  <2>1. i \in 1..n /\ j \in 1..n /\ (i < n => t[i].disturbed)
        BY <1>3, <1>5
  <2>. QED  BY <1>1, <1>5, <2>1
<1>. QED  BY <1>4, <1>5 DEF AllEvaluated, Missed

\* guardSet and the expression, to its end or to a method call.
LEMMA EvaluateKeeps ==
    ASSUME NEW a \in Activities, NEW guarded \in BOOLEAN, GuardInv, Evaluate(a, guarded)
    PROVE  GuardInv'
<1>. DEFINE s == frames[a]
            n == Len(s)
            b == value[Top(a).guard]
            f == [Top(a) EXCEPT !.result = b]
            u == WithTop(Disturbed(s), f)
            g == [Last(u) EXCEPT !.asked = TRUE]
            w == WithTop(u, g)
<1>1. /\ FrameTypes /\ Sound(a) /\ s \in Seq(Frame) /\ s # <<>> /\ Top(a).guard # None
      /\ state[a] = "evaluate" /\ HasKernel(a)
      /\ guardsem' = [guardsem EXCEPT ![a] = FALSE]
      /\ UNCHANGED <<value, told, dependents, newStem>>
      /\ Become(a, "decide", u) \/ Begin(a, w, guarded)
      BY DEF GuardInv, Sound, FrameTypes, Evaluate, AtGuard, variableVars
<1>2. n \in Nat \ {0} /\ Top(a) = s[n] /\ Top(a) = Last(s) /\ Top(a) \in Frame
      BY <1>1, FrontProperties DEF Top
<1>3. Top(a).guard \in Variables /\ b \in BOOLEAN
      BY <1>1, <1>2 DEF Frame, FrameTypes
<1>. HIDE DEF b
<1>4. f \in Frame /\ f.guard = Last(s).guard /\ f.disturbed = Last(s).disturbed /\ f.result = b
      BY <1>2, <1>3 DEF Frame
<1>. HIDE DEF f
<1>5. Looked(s, b, u) /\ Last(u) = f /\ u \in Seq(Frame) /\ u # <<>> /\ Len(u) = n
      BY <1>1, <1>3, <1>4, LookedProperties DEF Looked
<1>6. \A i \in 1..n - 1 : s[i].guard # None => s[i].asked
      BY <1>1 DEF Sound, AtGuard
<1>7. \A i \in 1..n - 1 : u[i].guard # None => u[i].asked
      BY <1>2, <1>5, <1>6 DEF Looked
<1>. HIDE DEF u, n
<1>8. /\ guardsem' \in [Activities -> BOOLEAN]
      /\ value' \in [Variables -> BOOLEAN] /\ told' \in [Variables -> BOOLEAN]
      /\ dependents' \in [Variables -> SUBSET Activities]
      /\ newStem' \in [Stems -> (Activities \X BOOLEAN) \cup {None}]
      BY <1>1 DEF FrameTypes
<1>9. \A c \in Activities \ {a} : KeepsWord(c)
      BY <1>1 DEF KeepsWord, Missed, FrameTypes
<1>10. CASE Become(a, "decide", u)
  <2>1. state'[a] = "decide" /\ frames'[a] = u
        BY <1>1, <1>10, BecomeTo
  <2>2. ASSUME FrameTypes' PROVE Sound(a)'
    <3>1. AllEvaluated(a)'
          BY <1>1, <1>3, <1>5, <2>1, LookedEvaluated DEF b
    <3>2. AtGuard(a)'
      <4>1. Top(a)' = f
            BY <1>5, <2>1 DEF Top
      <4>2. f.guard # None /\ f.result = value'[f.guard]
            BY <1>1, <1>2, <1>4 DEF b
      <4>. QED  BY <1>5, <1>7, <2>1, <4>1, <4>2 DEF AtGuard
    <3>. QED  BY <2>2, <3>1, <3>2, EvaluatedSound
  <2>. QED  BY <1>1, <1>5, <1>8, <1>9, <1>10, <2>2, BecomeSound DEF States
<1>11. CASE Begin(a, w, guarded)
  <2>1. g \in Frame /\ g.asked /\ g.guard = f.guard /\ g.disturbed = f.disturbed /\ g.result = f.result
        BY <1>4, <1>5 DEF Frame
  <2>. HIDE DEF g
  <2>2. /\ w \in Seq(Frame) /\ Len(w) = n /\ w[n] = g /\ w # <<>>
        /\ \A i \in 1..n - 1 : w[i] = u[i]
        BY <1>5, <2>1, WithTopProperties
  <2>. HIDE DEF w
  <2>3. \A i \in 1..n : w[i].guard # None => w[i].asked
    <3>1. w[n].asked
          BY <2>1, <2>2
    <3>2. \A i \in 1..n - 1 : w[i].guard # None => w[i].asked
          BY <1>7, <2>2
    <3>. QED  BY <1>2, <3>1, <3>2
  <2>4. Looked(s, b, w)
    <3>1. u[n] = f
          BY <1>5 DEF Last
    <3>2. \A i \in 1..n : /\ w[i].guard = u[i].guard /\ w[i].disturbed = u[i].disturbed
                          /\ i < n => w[i].asked = u[i].asked
      <4>1. \A i \in 1..n - 1 : w[i] = u[i]
            BY <2>2
      <4>2. w[n].guard = u[n].guard /\ w[n].disturbed = u[n].disturbed
            BY <2>1, <2>2, <3>1
      <4>. QED  BY <1>2, <4>1, <4>2
    <3>3. w[n].result = u[n].result
          BY <2>1, <2>2, <3>1
    <3>4. n \in 1..n
          BY <1>2
    <3>. QED  BY <1>5, <2>2, <3>2, <3>3, <3>4 DEF Looked, n
  <2>5. PICK st \in {"running", "reserving"}, t \in Seq(Frame) : Begun(w, t) /\ Become(a, st, t)
        BY <1>11, <2>2, BeginBecomes
  <2>6. state'[a] = st /\ frames'[a] = t
        BY <1>1, <2>5, BecomeTo
  <2>7. Len(t) = n + 1 /\ t # <<>> /\ t[n + 1].guard = None /\ \A i \in 1..n : t[i] = w[i]
        BY <2>2, <2>5 DEF Begun
  <2>8. ASSUME FrameTypes' PROVE Sound(a)'
    <3>1. AllEvaluated(a)'
          BY <1>1, <1>3, <2>2, <2>4, <2>6, <2>7, LookedEvaluated DEF b
    <3>2. AtGuard(a)'
      <4>1. Top(a)' = t[n + 1]
            BY <2>6, <2>7 DEF Top, Last
      <4>2. \A i \in 1..Len(t) - 1 : t[i].guard # None => t[i].asked
            BY <1>2, <2>3, <2>7
      <4>. QED  BY <2>6, <2>7, <4>1, <4>2 DEF AtGuard
    <3>. QED  BY <2>8, <3>1, <3>2, EvaluatedSound
  <2>. QED  BY <1>1, <1>8, <1>9, <2>5, <2>8, BecomeSound DEF States
<1>. QED  BY <1>1, <1>10, <1>11

\* clearGuard: the guards below that lose the entry have been disturbed.
LEMMA PassKeeps ==
    ASSUME NEW a \in Activities, GuardInv, Pass(a)
    PROVE  GuardInv'
<1>. DEFINE s == frames[a]
            n == Len(s)
            v == Top(a).guard
            f == [NewFrame EXCEPT !.reserved = Top(a).reserved]
            t == WithTop(s, f)
<1>1. /\ FrameTypes /\ Sound(a) /\ s \in Seq(Frame) /\ s # <<>> /\ v # None
      /\ state[a] = "decide" /\ HasKernel(a)
      /\ UNCHANGED <<guardsem, value, told, newStem>>
      BY DEF GuardInv, Sound, FrameTypes, Pass, AtGuard, KernelKept, HasKernel
<1>2. n \in Nat \ {0} /\ Top(a) = s[n] /\ Top(a) \in Frame /\ DOMAIN s = 1..n
      BY <1>1, FrontProperties, LenProperties DEF Top
<1>3. v \in Variables /\ f \in Frame /\ f.guard = None
      BY <1>1, <1>2 DEF Frame, NewFrame
<1>4. AllEvaluated(a)
      BY <1>1, SoundEvaluated
<1>. HIDE DEF f
<1>5. CASE dependents[v] = {} /\ Become(a, "crashed", s) /\ UNCHANGED dependents
  <2>1. state'[a] = "crashed" /\ frames'[a] = s
        BY <1>1, <1>5, BecomeTo
  <2>2. Top(a).disturbed
    <3>1. n \in 1..Len(s)
          BY <1>2
    <3>. QED  BY <1>1, <1>2, <1>4, <1>5, <3>1 DEF AllEvaluated
  <2>3. AtGuard(a)'
        BY <1>1, <2>1, <2>2 DEF Sound, AtGuard, Top
  <2>4. AllEvaluated(a)'
        BY <1>1, <1>4, <1>5, <2>1 DEF AllEvaluated, Missed
  <2>5. ASSUME FrameTypes' PROVE Sound(a)'
        BY <2>3, <2>4, <2>5, EvaluatedSound
  <2>. QED  BY <1>1, <1>5, <2>5, FramesSound DEF States, variableVars
<1>6. CASE /\ dependents' = [dependents EXCEPT ![v] = @ \ {a}]
           /\ Become(a, "running", t)
  <2>1. /\ t \in Seq(Frame) /\ t # <<>> /\ Len(t) = n /\ t[n] = f /\ Last(t) = f
        /\ \A i \in 1..n - 1 : t[i] = s[i]
        BY <1>1, <1>3, WithTopProperties
  <2>2. state'[a] = "running" /\ frames'[a] = t
        BY <1>1, <1>6, BecomeTo
  <2>. HIDE DEF t
  <2>3. AtGuard(a)'
    <3>1. Top(a)' = f
          BY <2>1, <2>2 DEF Top
    <3>2. \A i \in 1..n - 1 : t[i].guard # None => t[i].asked
          BY <1>1, <2>1 DEF Sound, AtGuard
    <3>. QED  BY <1>3, <2>1, <2>2, <3>1, <3>2 DEF AtGuard
  <2>4. ASSUME NEW i \in 1..n, t[i].guard # None PROVE t[i].disturbed
    <3>1. i \in 1..n - 1
          BY <1>2, <1>3, <2>1, <2>4
    <3>2. s[i].guard # None /\ i < n /\ t[i] = s[i] /\ i \in 1..Len(s) /\ n \in 1..Len(s)
          BY <1>2, <2>1, <2>4, <3>1
    <3>. QED  BY <1>1, <1>2, <1>4, <3>2 DEF AllEvaluated
  <2>5. AllEvaluated(a)'
        BY <2>1, <2>2, <2>4 DEF AllEvaluated
  <2>6. ASSUME FrameTypes' PROVE Sound(a)'
        BY <2>3, <2>5, <2>6, EvaluatedSound
  <2>7. /\ dependents' \in [Variables -> SUBSET Activities]
        /\ \A w \in Variables, b \in Activities \ {a} : b \in dependents[w] => b \in dependents'[w]
        BY <1>1, <1>6 DEF FrameTypes
  <2>8. \A b \in Activities \ {a} : KeepsWord(b)
        BY <1>1, <2>7 DEF KeepsWord, Missed
  <2>. QED  BY <1>1, <1>6, <2>1, <2>6, <2>7, <2>8, BecomeSound DEF FrameTypes, States
<1>. QED  BY <1>5, <1>6 DEF Pass, Remaining, f

-----------------------------------------------------------------------------
(* GUARD WHEN misses nothing.                                              *)

\* Nothing runs initially.
LEMMA GuardInit == Init => GuardInv
<1>. SUFFICES ASSUME Init PROVE GuardInv
     OBVIOUS
<1>1. FrameTypes
      BY DEF Init, FrameTypes, States
<1>2. KernelKept
      BY DEF Init, KernelKept
<1>3. ASSUME NEW a \in Activities PROVE AtGuard(a) /\ Informed(a) /\ Disturbs(a)
  <2>1. state[a] = "idle" /\ frames[a] = <<>> /\ Len(<<>>) = 0 /\ DOMAIN <<>> = {}
        BY DEF Init
  <2>. QED  BY <2>1 DEF AtGuard, Informed, Disturbs
<1>. QED  BY <1>1, <1>2, <1>3 DEF GuardInv

\* Every step keeps the invariant of the guards, action by action.
LEMMA GuardStep == GuardInv /\ [Next]_vars => GuardInv'
<1>. SUFFICES ASSUME GuardInv, [Next]_vars PROVE GuardInv'
     OBVIOUS
<1>1. CASE UNCHANGED vars
      BY <1>1 DEF vars, variableVars, GuardInv, FrameTypes, KernelKept, AtGuard, Informed, Disturbs,
                  Evaluated, Missed, Top
<1>2. ASSUME NEW a \in Activities, GoOn(a) PROVE GuardInv'
  <2>1. CASE ReserveReturns(a)
        BY <2>1, ReserveReturnsKeeps
  <2>2. CASE SetDefault(a)
        BY <2>2, SetDefaultKeeps
  <2>3. CASE \E guarded \in BOOLEAN : Evaluate(a, guarded)
        BY <2>3, EvaluateKeeps
  <2>4. CASE Pass(a)
        BY <2>4, PassKeeps
  <2>5. CASE Wait(a)
        BY <2>5, WaitKeeps
  <2>6. CASE WaitReturns(a)
        BY <2>6, WaitReturnsKeeps
  <2>. QED  BY <1>2, <2>1, <2>2, <2>3, <2>4, <2>5, <2>6 DEF GoOn
<1>3. ASSUME NEW a \in Activities, Clause(a) PROVE GuardInv'
  <2>1. CASE Return(a)
        BY <2>1, ReturnKeeps
  <2>2. CASE \E guarded \in BOOLEAN : Call(a, guarded)
        BY <2>2, CallKeeps
  <2>3. CASE RaiseError(a)
        BY <2>3, RaiseErrorKeeps
  <2>4. CASE \E v \in Variables, new \in BOOLEAN : Assign(a, v, new)
        BY <2>4, AssignKeeps
  <2>5. CASE \E v \in Stems, new \in BOOLEAN : AssignStem(a, v, new)
        BY <2>5, AssignStemKeeps
  <2>6. CASE \E v \in Stems, new \in BOOLEAN : AssignElement(a, v, new)
        BY <2>6, AssignElementKeeps
  <2>7. CASE \E on \in BOOLEAN, v \in Variables : GuardWhen(a, on, v)
        BY <2>7, GuardWhenKeeps
  <2>. QED  BY <1>3, <2>1, <2>2, <2>3, <2>4, <2>5, <2>6, <2>7 DEF Clause
<1>. QED  BY <1>1, <1>2, <1>3 DEF Next

\* The invariant of the guards holds in every reachable state.
THEOREM GuardInvariance == Spec => []GuardInv
BY GuardInit, GuardStep, PTL DEF Spec

\* NoChangeMissed: an activity that waits unposted, undisturbed by a GUARD in
\* its own expression, waits for a variable that is still false, or became
\* true without a notify; for any activities, variables and depth of calls.
THEOREM NoneMissed == Spec => []NoChangeMissed
<1>1. GuardInv => NoChangeMissed
  <2>. SUFFICES ASSUME GuardInv, NEW a \in Activities,
                       state[a] = "parked", ~guardsem[a], ~Top(a).disturbed, value[Top(a).guard]
                PROVE  ~told[Top(a).guard]
       BY DEF NoChangeMissed
  <2>1. /\ Top(a).guard # None /\ ~Top(a).result
        /\ frames[a] # <<>> /\ frames[a] \in Seq(Frame)
        BY DEF GuardInv, FrameTypes, AtGuard
  <2>2. /\ Top(a) = frames[a][Len(frames[a])]
        /\ Len(frames[a]) \in Nat \ {0} /\ DOMAIN frames[a] = 1..Len(frames[a])
        BY <2>1, FrontProperties, LenProperties DEF Top
  <2>3. ~Missed(a, Top(a).guard)
    <3>1. Len(frames[a]) \in DOMAIN frames[a] /\ Evaluated(a, Len(frames[a]))
          BY <2>2 DEF Evaluated
    <3>. QED  BY <2>1, <2>2, <3>1 DEF GuardInv, Informed
  <2>. QED  BY <2>3 DEF Missed
<1>. QED  BY <1>1, GuardInvariance, PTL

\* ClearFindsDependents: clearGuard finds the dependents that setGuard made,
\* whatever the other activities did to them; only a GUARD in the expression
\* itself can have taken the entry away.
THEOREM DependentsFound == Spec => []ClearFindsDependents
<1>1. GuardInv => ClearFindsDependents
      BY DEF GuardInv, AtGuard, ClearFindsDependents
<1>. QED  BY <1>1, GuardInvariance, PTL

-----------------------------------------------------------------------------
(* Counting reservations.                                                  *)

\* Reservations counts a finite set of positions.
LEMMA ReservationsCount ==
    ASSUME NEW s \in Seq(Frame)
    PROVE  /\ Reservations(s) = Cardinality({i \in 1..Len(s) : s[i].reserved})
           /\ IsFiniteSet({i \in 1..Len(s) : s[i].reserved})
           /\ Reservations(s) \in Nat
<1>1. Len(s) \in Nat /\ DOMAIN s = 1..Len(s)
      BY LenProperties
<1>2. Reservations(s) = Cardinality({i \in 1..Len(s) : s[i].reserved})
      BY <1>1 DEF Reservations, Quantify
<1>3. IsFiniteSet({i \in 1..Len(s) : s[i].reserved})
  <2>1. IsFiniteSet(1..Len(s))
        BY <1>1, FS_Interval
  <2>2. {i \in 1..Len(s) : s[i].reserved} \in SUBSET (1..Len(s))
        OBVIOUS
  <2>. QED  BY <2>1, <2>2, FS_Subset
<1>. QED  BY <1>2, <1>3, FS_CardinalityType

\* The reservation of the top frame and those below.
LEMMA ReservationsTop ==
    ASSUME NEW s \in Seq(Frame), s # <<>>
    PROVE  /\ Reservations(Front(s)) \in Nat
           /\ Reservations(s) = Reservations(Front(s)) + IF Last(s).reserved THEN 1 ELSE 0
<1>. DEFINE f == Front(s)
            n == Len(f)
            B == {i \in 1..Len(s) : s[i].reserved}
            C == {i \in 1..n : f[i].reserved}
<1>1. /\ Len(s) \in Nat \ {0} /\ f \in Seq(Frame) /\ n = Len(s) - 1
      /\ \A i \in 1..Len(s) - 1 : f[i] = s[i]
      /\ Last(s) = s[Len(s)]
      BY FrontProperties
<1>2. n \in Nat /\ Len(s) = n + 1
      BY <1>1
<1>3. \A i \in 1..n : f[i] = s[i]
      BY <1>1, <1>2
<1>4. Reservations(s) = Cardinality(B) /\ Reservations(f) = Cardinality(C) /\ Reservations(f) \in Nat
      BY <1>1, ReservationsCount
<1>. HIDE DEF f, n
<1>5. B \in SUBSET (1..n + 1) /\ (n + 1 \in B <=> Last(s).reserved)
      BY <1>1, <1>2
<1>6. C = B \ {n + 1}
  <2>1. \A i \in 1..n + 1 : i \in 1..n <=> i # n + 1
        BY <1>2
  <2>. QED  BY <1>2, <1>3, <2>1
<1>. HIDE DEF B, C
<1>7. Cardinality(B) = Cardinality(B \ {n + 1}) + IF n + 1 \in B THEN 1 ELSE 0
      BY <1>2, <1>5, CountBelow
<1>. QED  BY <1>4, <1>5, <1>6, <1>7 DEF f

\* No frames, no reservations.
LEMMA ReservationsEmpty == Reservations(<<>>) = 0
<1>1. DOMAIN <<>> = {}
      OBVIOUS
<1>2. Reservations(<<>>) = Cardinality({})
      BY <1>1 DEF Reservations, Quantify
<1>. QED  BY <1>2, FS_EmptySet

\* Only the flags of the frames matter.
LEMMA ReservationsSame ==
    ASSUME NEW s \in Seq(Frame), NEW t \in Seq(Frame), Len(s) = Len(t),
           \A i \in 1..Len(s) : s[i].reserved = t[i].reserved
    PROVE  Reservations(s) = Reservations(t)
<1>1. {i \in 1..Len(s) : s[i].reserved} = {i \in 1..Len(t) : t[i].reserved}
      OBVIOUS
<1>. QED  BY <1>1, ReservationsCount

\* Replacing the top frame.
LEMMA ReservationsRetop ==
    ASSUME NEW s \in Seq(Frame), s # <<>>, NEW f \in Frame
    PROVE  /\ Reservations(WithTop(s, f)) = Reservations(Front(s)) + IF f.reserved THEN 1 ELSE 0
           /\ Reservations(Front(s)) \in Nat
           /\ Last(s).reserved = f.reserved => Reservations(WithTop(s, f)) = Reservations(s)
<1>1. /\ WithTop(s, f) \in Seq(Frame) /\ WithTop(s, f) # <<>>
      /\ Last(WithTop(s, f)) = f /\ Front(WithTop(s, f)) = Front(s)
      BY WithTopProperties
<1>2. Reservations(WithTop(s, f)) = Reservations(Front(s)) + IF f.reserved THEN 1 ELSE 0
      BY <1>1, ReservationsTop
<1>3. /\ Reservations(Front(s)) \in Nat
      /\ Reservations(s) = Reservations(Front(s)) + IF Last(s).reserved THEN 1 ELSE 0
      BY ReservationsTop
<1>. QED  BY <1>2, <1>3

\* Reserving adds one, ...
LEMMA ReservationsReserved ==
    ASSUME NEW s \in Seq(Frame), s # <<>>, ~Last(s).reserved
    PROVE  /\ Reserved(s) \in Seq(Frame)
           /\ Reservations(Reserved(s)) = Reservations(s) + 1
<1>1. /\ Reserved(s) \in Seq(Frame) /\ Reserved(s) # <<>>
      /\ Last(Reserved(s)).reserved /\ Front(Reserved(s)) = Front(s)
      BY ReservedProperties DEF SameBelow
<1>2. /\ Reservations(Reserved(s)) = Reservations(Front(s)) + 1
      /\ Reservations(s) = Reservations(Front(s)) + 0
      BY <1>1, ReservationsTop
<1>3. Reservations(Front(s)) \in Nat
      BY ReservationsTop
<1>. QED  BY <1>1, <1>2, <1>3

\* ... and giving up takes one off.
LEMMA ReservationsReleased ==
    ASSUME NEW s \in Seq(Frame), s # <<>>, Last(s).reserved
    PROVE  /\ Released(s) \in Seq(Frame)
           /\ Reservations(Released(s)) = Reservations(s) - 1
<1>1. /\ Released(s) \in Seq(Frame) /\ Released(s) # <<>>
      /\ ~Last(Released(s)).reserved /\ Front(Released(s)) = Front(s)
      BY ReleasedProperties DEF SameBelow
<1>2. /\ Reservations(Released(s)) = Reservations(Front(s)) + 0
      /\ Reservations(s) = Reservations(Front(s)) + 1
      BY <1>1, ReservationsTop
<1>3. Reservations(Front(s)) \in Nat
      BY ReservationsTop
<1>. QED  BY <1>1, <1>2, <1>3

\* A method that begins has no reservation yet.
LEMMA ReservationsNew ==
    ASSUME NEW s \in Seq(Frame)
    PROVE  LET t == Append(s, NewFrame)
           IN  /\ t \in Seq(Frame) /\ t # <<>> /\ ~Last(t).reserved
               /\ Reservations(t) = Reservations(s)
<1>. DEFINE t == Append(s, NewFrame)
<1>1. /\ t \in Seq(Frame) /\ t # <<>> /\ Last(t) = NewFrame /\ Front(t) = s
      BY NewFrameType, PushProperties
<1>2. ~NewFrame.reserved
      BY DEF NewFrame
<1>. HIDE DEF t
<1>3. Reservations(t) = Reservations(s) + 0 /\ Reservations(s) \in Nat
      BY <1>1, <1>2, ReservationsTop
<1>4. Reservations(t) = Reservations(s)
      BY <1>3
<1>. QED  BY <1>1, <1>2, <1>4 DEF t

\* What is left of a stack has no more reservations than the stack.
LEMMA ReservationsPrefix ==
    ASSUME NEW s \in Seq(Frame), NEW k \in 0..Len(s)
    PROVE  /\ SubSeq(s, 1, k) \in Seq(Frame)
           /\ Reservations(SubSeq(s, 1, k)) <= Reservations(s)
<1>. DEFINE t == SubSeq(s, 1, k)
<1>1. t \in Seq(Frame) /\ Len(t) = k /\ \A i \in 1..k : t[i] = s[i]
      BY PrefixProperties
<1>2. {i \in 1..Len(t) : t[i].reserved} \subseteq {i \in 1..Len(s) : s[i].reserved}
  <2>1. \A i \in 1..Len(t) : i \in 1..Len(s) /\ t[i] = s[i]
        BY <1>1
  <2>. QED  BY <2>1
<1>. HIDE DEF t
<1>3. Cardinality({i \in 1..Len(t) : t[i].reserved}) <= Cardinality({i \in 1..Len(s) : s[i].reserved})
      BY <1>2, ReservationsCount, FS_Subset
<1>4. Reservations(t) <= Reservations(s)
      BY <1>1, <1>3, ReservationsCount
<1>. QED  BY <1>1, <1>4 DEF t

-----------------------------------------------------------------------------
(* The scope.  Four ways a step may treat it.                              *)

OthersStay(a) ==
    \A b \in Activities \ {a} : state'[b] = state[b] /\ frames'[b] = frames[b]

\* Become moves no other activity.
LEMMA BecomeStays ==
    ASSUME NEW a \in Activities, NEW st, NEW stack, FrameTypes, Become(a, st, stack)
    PROVE  state'[a] = st /\ frames'[a] = stack /\ OthersStay(a)
BY DEF Become, FrameTypes, OthersStay

\* The scope is left alone.
LEMMA ScopeStill ==
    ASSUME NEW a \in Activities, ScopeInv, OthersStay(a), UNCHANGED scopeVars,
           state[a] # "reserving", state'[a] # "reserving",
           Reservations(frames'[a]) = Reservations(frames[a]),
           state'[a] = "parked" => ~Last(frames'[a]).reserved
    PROVE  ScopeInv'
<1>. USE DEF ScopeInv, scopeVars
<1>1. ScopeTypes'
      BY DEF ScopeTypes
<1>2. LineSound'
      BY DEF LineSound, InLine, OthersStay
<1>3. ASSUME NEW b \in Activities PROVE CountSound(b)'
      BY DEF CountSound, OthersStay, Top
<1>. QED  BY <1>1, <1>2, <1>3

\* The scope is free or a has it, and reserves it once more.
LEMMA ScopeTaken ==
    ASSUME NEW a \in Activities, ScopeInv, OthersStay(a),
           reservingActivity \in {None, a}, reservingActivity' = a,
           reserveCount' = reserveCount + 1, UNCHANGED waitingActivities,
           state[a] # "reserving", state'[a] \notin {"reserving", "parked"},
           Reservations(frames[a]) \in Nat,
           Reservations(frames'[a]) = Reservations(frames[a]) + 1
    PROVE  ScopeInv'
<1>. USE DEF ScopeInv
<1>1. None \notin Activities
      BY GuardDistinct
<1>2. ScopeTypes'
      BY DEF ScopeTypes
<1>3. reserveCount = Reservations(frames[a])
      BY <1>1 DEF LineSound, CountSound
<1>4. ASSUME NEW b \in Activities \ {a}
      PROVE  reservingActivity # b /\ (InLine(b) <=> state[b] = "reserving")
      BY <1>1 DEF LineSound
<1>5. LineSound'
  <2>1. ASSUME NEW b \in Activities PROVE InLine(b)' <=> state'[b] = "reserving" /\ a # b
    <3>1. InLine(b)' <=> InLine(b)
          BY DEF InLine
    <3>. QED  BY <1>4, <3>1 DEF LineSound, OthersStay
  <2>. QED  BY <1>1, <2>1 DEF LineSound
<1>6. ASSUME NEW b \in Activities PROVE CountSound(b)'
  <2>1. CASE b = a
        BY <1>3, <2>1 DEF CountSound, ScopeTypes
  <2>2. CASE b # a
        BY <1>4, <2>2 DEF CountSound, OthersStay, Top
  <2>. QED  BY <2>1, <2>2
<1>. QED  BY <1>2, <1>5, <1>6

\* Another has the scope, and a gets in line.
LEMMA ScopeJoined ==
    ASSUME NEW a \in Activities, ScopeInv, OthersStay(a),
           reservingActivity \notin {None, a},
           waitingActivities' = Append(waitingActivities, a),
           UNCHANGED <<reservingActivity, reserveCount>>,
           state[a] # "reserving", state'[a] = "reserving",
           Reservations(frames'[a]) = Reservations(frames[a])
    PROVE  ScopeInv'
<1>. USE DEF ScopeInv
<1>1. ~InLine(a)
      BY DEF LineSound
<1>2. /\ waitingActivities' \in Seq(Activities)
      /\ \A i, j \in DOMAIN waitingActivities' : waitingActivities'[i] = waitingActivities'[j] => i = j
      /\ \A b \in Activities : InLine(b)' <=> b = a \/ InLine(b)
  <2>1. /\ waitingActivities \in Seq(Activities)
        /\ NoRepeats(waitingActivities) /\ ~Listed(a, waitingActivities)
        BY <1>1 DEF InLine, LineSound, ScopeTypes, NoRepeats, Listed
  <2>2. /\ waitingActivities' \in Seq(Activities) /\ NoRepeats(waitingActivities')
        /\ \A b \in Activities : Listed(b, waitingActivities') <=> b = a \/ Listed(b, waitingActivities)
        BY <2>1, LineJoined
  <2>. QED  BY <2>2 DEF InLine, NoRepeats, Listed
<1>3. ScopeTypes'
      BY <1>2 DEF ScopeTypes
<1>4. LineSound'
      BY <1>2 DEF LineSound, OthersStay
<1>5. ASSUME NEW b \in Activities PROVE CountSound(b)'
      BY DEF CountSound, OthersStay, Top
<1>. QED  BY <1>3, <1>4, <1>5

\* a gives up k of its reservations; the first in line may get the scope.
LEMMA ScopeReleased ==
    ASSUME NEW a \in Activities, ScopeInv, OthersStay(a), NEW k \in Nat, Release(k),
           state[a] # "reserving", state'[a] # "reserving",
           Reservations(frames[a]) \in Nat, Reservations(frames'[a]) \in Nat,
           Reservations(frames'[a]) = Reservations(frames[a]) - k,
           state'[a] = "parked" => ~Last(frames'[a]).reserved
    PROVE  ScopeInv'
<1>. USE DEF ScopeInv
<1>1. None \notin Activities
      BY GuardDistinct
<1>2. CASE k = 0
  <2>1. UNCHANGED scopeVars
        BY <1>2 DEF Release, scopeVars, ScopeTypes
  <2>. QED  BY <1>2, <2>1, ScopeStill
<1>3. CASE k # 0
  <2>1. Reservations(frames[a]) > 0
        BY <1>3
  <2>2. reservingActivity = a
        BY <2>1 DEF CountSound
  <2>3. reserveCount = Reservations(frames[a])
        BY <2>2 DEF CountSound
  <2>4. ASSUME NEW b \in Activities \ {a}
        PROVE  /\ Reservations(frames'[b]) = 0
               /\ (InLine(b) <=> state'[b] = "reserving")
               /\ (state'[b] = "parked" => ~Top(b)'.reserved)
        BY <2>2 DEF LineSound, CountSound, OthersStay, Top
  <2>5. ~InLine(a)
        BY DEF LineSound
  <2>6. CASE k # reserveCount
    <3>1. reserveCount' = reserveCount - k /\ UNCHANGED <<reservingActivity, waitingActivities>>
          BY <1>3, <2>6 DEF Release
    <3>2. reserveCount' \in Nat /\ reserveCount' > 0 /\ reserveCount' = Reservations(frames'[a])
          BY <2>3, <2>6, <3>1
    <3>3. ScopeTypes'
          BY <3>1, <3>2 DEF ScopeTypes
    <3>4. LineSound'
      <4>1. \A b \in Activities : InLine(b)' <=> InLine(b)
            BY <3>1 DEF InLine
      <4>. QED  BY <1>1, <2>2, <2>4, <2>5, <3>1, <4>1 DEF LineSound
    <3>5. ASSUME NEW b \in Activities PROVE CountSound(b)'
      <4>1. CASE b = a
            BY <2>2, <3>1, <3>2, <4>1 DEF CountSound, Top
      <4>2. CASE b # a
            BY <2>2, <2>4, <3>1, <4>2 DEF CountSound
      <4>. QED  BY <4>1, <4>2
    <3>. QED  BY <3>3, <3>4, <3>5
  <2>7. CASE k = reserveCount
    <3>1. Reservations(frames'[a]) = 0
          BY <2>3, <2>7
    <3>2. CASE waitingActivities = <<>>
      <4>1. reservingActivity' = None /\ reserveCount' = 0 /\ UNCHANGED waitingActivities
            BY <1>3, <2>7, <3>2 DEF Release
      <4>2. ScopeTypes'
            BY <4>1 DEF ScopeTypes
      <4>3. \A b \in Activities : ~InLine(b) /\ ~InLine(b)'
            BY <3>2, <4>1 DEF InLine
      <4>4. LineSound'
        <5>1. \A b \in Activities : state'[b] # "reserving"
              BY <2>4, <4>3
        <5>. QED  BY <3>2, <4>1, <4>3, <5>1 DEF LineSound
      <4>5. ASSUME NEW b \in Activities PROVE CountSound(b)'
        <5>1. CASE b = a
              BY <1>1, <3>1, <4>1, <5>1 DEF CountSound, Top
        <5>2. CASE b # a
              BY <1>1, <2>4, <4>1, <5>2 DEF CountSound
        <5>. QED  BY <5>1, <5>2
      <4>. QED  BY <4>2, <4>4, <4>5
    <3>3. CASE waitingActivities # <<>>
      <4>. DEFINE h == Head(waitingActivities)
      <4>1. reservingActivity' = h /\ reserveCount' = 1 /\ waitingActivities' = Tail(waitingActivities)
            BY <1>3, <2>7, <3>3 DEF Release
      <4>2. /\ waitingActivities' \in Seq(Activities) /\ h \in Activities /\ InLine(h)
            /\ \A i, j \in DOMAIN waitingActivities' : waitingActivities'[i] = waitingActivities'[j] => i = j
            /\ \A b \in Activities : InLine(b)' <=> b # h /\ InLine(b)
        <5>1. waitingActivities \in Seq(Activities) /\ NoRepeats(waitingActivities)
              BY DEF LineSound, ScopeTypes, NoRepeats
        <5>2. /\ waitingActivities' \in Seq(Activities) /\ h \in Activities
              /\ Listed(h, waitingActivities) /\ NoRepeats(waitingActivities')
              /\ \A b \in Activities : Listed(b, waitingActivities') <=> b # h /\ Listed(b, waitingActivities)
              BY <3>3, <4>1, <5>1, LineServed
        <5>. QED  BY <5>2 DEF InLine, NoRepeats, Listed
      <4>3. h # a /\ state'[h] = "reserving" /\ Reservations(frames'[h]) = 0
            BY <2>4, <2>5, <4>2
      <4>. HIDE DEF h
      <4>4. ScopeTypes'
            BY <4>1, <4>2 DEF ScopeTypes
      <4>5. LineSound'
        <5>1. \A b \in Activities : InLine(b)' <=> state'[b] = "reserving" /\ h # b
              BY <2>4, <2>5, <4>2
        <5>. QED  BY <1>1, <4>1, <4>2, <5>1 DEF LineSound
      <4>6. ASSUME NEW b \in Activities PROVE CountSound(b)'
        <5>1. CASE b = a
              BY <3>1, <4>1, <4>3, <5>1 DEF CountSound, Top
        <5>2. CASE b = h
              BY <4>1, <4>3, <5>2 DEF CountSound
        <5>3. CASE b \notin {a, h}
              BY <2>4, <4>1, <5>3 DEF CountSound
        <5>. QED  BY <5>1, <5>2, <5>3
      <4>. QED  BY <4>4, <4>5, <4>6
    <3>. QED  BY <3>2, <3>3
  <2>. QED  BY <2>6, <2>7
<1>. QED  BY <1>2, <1>3


-----------------------------------------------------------------------------
(* The steps, seen from the scope.                                         *)

\* The reservations of an activity are a number.
LEMMA FramesCount ==
    ASSUME NEW a \in Activities, FrameTypes
    PROVE  frames[a] \in Seq(Frame) /\ Reservations(frames[a]) \in Nat
BY ReservationsCount DEF FrameTypes

\* Become, with the scope left alone and as many reservations as before.
LEMMA BecomeStill ==
    ASSUME NEW a \in Activities, NEW st, NEW stack, FrameTypes, ScopeInv,
           Become(a, st, stack), UNCHANGED scopeVars,
           state[a] # "reserving", st # "reserving",
           Reservations(stack) = Reservations(frames[a]),
           st = "parked" => ~Last(stack).reserved
    PROVE  ScopeInv'
BY BecomeStays, ScopeStill

\* reserve, with the scope at once or in line for it.
LEMMA ReserveScope ==
    ASSUME NEW a \in Activities, NEW st, NEW stack \in Seq(Frame), FrameTypes, ScopeInv,
           Reserve(a, stack, st), state[a] # "reserving", st \notin {"reserving", "parked"},
           stack # <<>>, ~Last(stack).reserved, Reservations(stack) = Reservations(frames[a])
    PROVE  ScopeInv'
<1>1. CASE /\ reservingActivity \in {None, a}
           /\ reservingActivity' = a
           /\ reserveCount' = reserveCount + 1
           /\ UNCHANGED waitingActivities
           /\ Become(a, st, Reserved(stack))
  <2>1. Reservations(Reserved(stack)) = Reservations(frames[a]) + 1
        BY ReservationsReserved
  <2>2. state'[a] = st /\ frames'[a] = Reserved(stack) /\ OthersStay(a)
        BY <1>1, BecomeStays
  <2>. QED  BY <1>1, <2>1, <2>2, FramesCount, ScopeTaken
<1>2. CASE /\ reservingActivity \notin {None, a}
           /\ waitingActivities' = Append(waitingActivities, a)
           /\ UNCHANGED <<reservingActivity, reserveCount>>
           /\ Become(a, "reserving", stack)
  <2>1. state'[a] = "reserving" /\ frames'[a] = stack /\ OthersStay(a)
        BY <1>2, BecomeStays
  <2>. QED  BY <1>2, <2>1, ScopeJoined
<1>. QED  BY <1>1, <1>2 DEF Reserve

\* A method that begins, guarded or not.
LEMMA BeginScope ==
    ASSUME NEW a \in Activities, NEW stack \in Seq(Frame), NEW guarded, FrameTypes, ScopeInv,
           Begin(a, stack, guarded), state[a] # "reserving", Reservations(stack) = Reservations(frames[a])
    PROVE  ScopeInv'
<1>. DEFINE t == Append(stack, NewFrame)
<1>1. /\ t \in Seq(Frame) /\ t # <<>> /\ ~Last(t).reserved
      /\ Reservations(t) = Reservations(frames[a])
      BY ReservationsNew
<1>2. Reserve(a, t, "running") \/ (Become(a, "running", t) /\ UNCHANGED scopeVars)
      BY DEF Begin
<1>. HIDE DEF t
<1>3. CASE Reserve(a, t, "running")
      BY <1>1, <1>3, ReserveScope
<1>4. CASE Become(a, "running", t) /\ UNCHANGED scopeVars
      BY <1>1, <1>4, BecomeStill
<1>. QED  BY <1>2, <1>3, <1>4

\* Giving up k reservations together with the frames that had them.
LEMMA ReleaseScope ==
    ASSUME NEW a \in Activities, NEW st, NEW stack \in Seq(Frame), NEW k \in Nat, FrameTypes, ScopeInv,
           Release(k), Become(a, st, stack), state[a] # "reserving", st # "reserving",
           Reservations(stack) = Reservations(frames[a]) - k,
           st = "parked" => ~Last(stack).reserved
    PROVE  ScopeInv'
<1>1. Reservations(stack) \in Nat /\ Reservations(frames[a]) \in Nat
      BY FramesCount, ReservationsCount
<1>2. state'[a] = st /\ frames'[a] = stack /\ OthersStay(a)
      BY BecomeStays
<1>. QED  BY <1>1, <1>2, ScopeReleased

\* The reservation that release made for a waiter becomes one of its frames.
LEMMA ReserveReturnsScope ==
    ASSUME NEW a \in Activities, GuardInv, ScopeInv, ReserveReturns(a)
    PROVE  ScopeInv'
<1>. DEFINE s == frames[a]
<1>1. /\ FrameTypes /\ s \in Seq(Frame) /\ s # <<>>
      /\ state[a] = "reserving" /\ reservingActivity = a /\ UNCHANGED scopeVars
      BY DEF GuardInv, FrameTypes, AtGuard, ReserveReturns
<1>2. /\ frames'[a] = Reserved(s) /\ OthersStay(a)
      /\ state'[a] \in {"running", "evaluate"}
      BY <1>1, BecomeStays DEF ReserveReturns
<1>3. Reservations(s) = 0 /\ reserveCount = 1
      BY <1>1 DEF ScopeInv, CountSound
<1>4. ~Last(s).reserved
      BY <1>1, <1>3, ReservationsTop
<1>5. Reservations(Reserved(s)) = 1
      BY <1>1, <1>3, <1>4, ReservationsReserved
<1>6. ScopeTypes'
      BY <1>1 DEF ScopeInv, ScopeTypes, scopeVars
<1>7. LineSound'
  <2>1. ASSUME NEW b \in Activities PROVE InLine(b)' <=> state'[b] = "reserving" /\ reservingActivity # b
    <3>1. InLine(b)' <=> InLine(b)
          BY <1>1 DEF InLine, scopeVars
    <3>2. InLine(b) <=> state[b] = "reserving" /\ reservingActivity # b
          BY DEF ScopeInv, LineSound
    <3>3. CASE b = a
          BY <1>1, <3>1, <3>2, <3>3
    <3>4. CASE b # a
          BY <1>2, <3>1, <3>2, <3>4 DEF OthersStay
    <3>. QED  BY <3>3, <3>4
  <2>. QED  BY <1>1, <2>1 DEF ScopeInv, LineSound, scopeVars
<1>8. ASSUME NEW b \in Activities PROVE CountSound(b)'
  <2>1. CASE b = a
        BY <1>1, <1>2, <1>3, <1>5, <2>1 DEF CountSound, scopeVars
  <2>2. CASE b # a
        BY <1>1, <1>2, <2>2 DEF ScopeInv, CountSound, OthersStay, scopeVars, Top
  <2>. QED  BY <2>1, <2>2
<1>. QED  BY <1>6, <1>7, <1>8 DEF ScopeInv

\* A method gives up its own reservation.
LEMMA ReturnScope ==
    ASSUME NEW a \in Activities, GuardInv, ScopeInv, Return(a)
    PROVE  ScopeInv'
<1>. DEFINE s == frames[a]
            t == Front(s)
            st == IF t = <<>> THEN "idle" ELSE IF Last(t).guard = None THEN "running" ELSE "decide"
            k == IF Top(a).reserved THEN 1 ELSE 0
<1>1. /\ FrameTypes /\ s \in Seq(Frame) /\ s # <<>> /\ state[a] = "running"
      /\ Release(k) /\ Become(a, st, t)
      BY DEF GuardInv, FrameTypes, AtGuard, Return
<1>2. t \in Seq(Frame)
      BY <1>1, FrontProperties
<1>3. /\ Reservations(s) = Reservations(t) + k
      /\ Reservations(t) \in Nat
      BY <1>1, ReservationsTop DEF Top
<1>4. st \notin {"reserving", "parked"} /\ k \in Nat
      OBVIOUS
<1>. HIDE DEF st, k, t
<1>5. Reservations(t) = Reservations(s) - k
      BY <1>3, <1>4
<1>. QED  BY <1>1, <1>2, <1>4, <1>5, ReleaseScope

\* An error gives up those of the frames it takes off.
LEMMA RaiseErrorScope ==
    ASSUME NEW a \in Activities, GuardInv, ScopeInv, RaiseError(a)
    PROVE  ScopeInv'
<1>. DEFINE s == frames[a]
<1>1. /\ FrameTypes /\ s \in Seq(Frame) /\ s # <<>> /\ state[a] = "running"
      BY DEF GuardInv, FrameTypes, AtGuard, RaiseError
<1>2. PICK keep \in 0..Len(s) - 1 :
         /\ Release(Reservations(s) - Reservations(SubSeq(s, 1, keep)))
         /\ IF keep = 0 THEN Become(a, "idle", <<>>)
            ELSE Become(a, "running",
                   WithTop(SubSeq(s, 1, keep), [NewFrame EXCEPT !.reserved = Last(SubSeq(s, 1, keep)).reserved]))
      BY DEF RaiseError
<1>. DEFINE u == SubSeq(s, 1, keep)
            k == Reservations(s) - Reservations(u)
            f == [NewFrame EXCEPT !.reserved = Last(u).reserved]
<1>3. Len(s) \in Nat \ {0} /\ keep \in 0..Len(s) /\ keep \in Nat
      BY <1>1, EmptySeq
<1>4. u \in Seq(Frame) /\ Len(u) = keep /\ Reservations(u) <= Reservations(s)
      BY <1>1, <1>3, PrefixProperties, ReservationsPrefix
<1>. HIDE DEF u
<1>5. Reservations(s) \in Nat /\ Reservations(u) \in Nat
      BY <1>1, <1>4, ReservationsCount
<1>6. k \in Nat /\ Reservations(u) = Reservations(s) - k
      BY <1>4, <1>5
<1>7. Release(k)
      BY <1>2 DEF u
<1>. HIDE DEF k
<1>8. CASE keep = 0
  <2>1. u = <<>> /\ Become(a, "idle", u)
        BY <1>2, <1>4, <1>8, EmptySeq
  <2>. QED  BY <1>1, <1>4, <1>6, <1>7, <2>1, ReleaseScope
<1>9. CASE keep # 0
  <2>1. u # <<>>
        BY <1>4, <1>9, EmptySeq
  <2>2. f \in Frame /\ f.reserved = Last(u).reserved
    <3>1. Last(u) \in Frame
          BY <1>4, <2>1, FrontProperties
    <3>. QED  BY <3>1 DEF Frame, NewFrame
  <2>3. Become(a, "running", WithTop(u, f))
        BY <1>2, <1>9 DEF u
  <2>. HIDE DEF f
  <2>4. WithTop(u, f) \in Seq(Frame) /\ Reservations(WithTop(u, f)) = Reservations(u)
        BY <1>4, <2>1, <2>2, WithTopProperties, ReservationsRetop
  <2>. QED  BY <1>1, <1>6, <1>7, <2>3, <2>4, ReleaseScope
<1>. QED  BY <1>8, <1>9

\* guardOn and guardOff.
LEMMA GuardWhenScope ==
    ASSUME NEW a \in Activities, NEW on \in BOOLEAN, NEW v \in Variables,
           GuardInv, ScopeInv, GuardWhen(a, on, v)
    PROVE  ScopeInv'
<1>. DEFINE s == frames[a]
            f == [Top(a) EXCEPT !.guard = v]
            u == WithTop(s, f)
<1>1. /\ FrameTypes /\ s \in Seq(Frame) /\ s # <<>> /\ state[a] = "running"
      BY DEF GuardInv, FrameTypes, AtGuard, GuardWhen
<1>2. Top(a) \in Frame /\ Top(a) = Last(s)
      BY <1>1, FrontProperties DEF Top
<1>3. f \in Frame /\ f.reserved = Last(s).reserved
      BY <1>2 DEF Frame
<1>4. \/ Become(a, "evaluate", u) /\ UNCHANGED scopeVars
      \/ ~f.reserved /\ Reserve(a, u, "evaluate")
      \/ f.reserved /\ Release(1) /\ Become(a, "evaluate", Released(u))
      BY <1>2, <1>3 DEF GuardWhen
<1>. HIDE DEF f
<1>5. /\ u \in Seq(Frame) /\ u # <<>> /\ Last(u) = f /\ Reservations(u) = Reservations(s)
      BY <1>1, <1>3, WithTopProperties, ReservationsRetop
<1>. HIDE DEF u
<1>6. CASE Become(a, "evaluate", u) /\ UNCHANGED scopeVars
      BY <1>1, <1>5, <1>6, BecomeStill
<1>7. CASE ~f.reserved /\ Reserve(a, u, "evaluate")
      BY <1>1, <1>5, <1>7, ReserveScope
<1>8. CASE f.reserved /\ Release(1) /\ Become(a, "evaluate", Released(u))
  <2>1. Released(u) \in Seq(Frame) /\ Reservations(Released(u)) = Reservations(s) - 1
        BY <1>5, <1>8, ReservationsReleased
  <2>. QED  BY <1>1, <1>8, <2>1, ReleaseScope
<1>. QED  BY <1>4, <1>6, <1>7, <1>8

\* An evaluation changes no reservation, a method it calls may add one.
LEMMA EvaluateScope ==
    ASSUME NEW a \in Activities, NEW guarded \in BOOLEAN, GuardInv, ScopeInv, Evaluate(a, guarded)
    PROVE  ScopeInv'
<1>. DEFINE s == frames[a]
            d == Disturbed(s)
            f == [Top(a) EXCEPT !.result = value[Top(a).guard]]
            u == WithTop(d, f)
            g == [Last(u) EXCEPT !.asked = TRUE]
            w == WithTop(u, g)
<1>1. /\ FrameTypes /\ s \in Seq(Frame) /\ s # <<>> /\ state[a] = "evaluate" /\ Top(a).guard # None
      /\ \/ Become(a, "decide", u) /\ UNCHANGED scopeVars
         \/ Begin(a, w, guarded)
      BY DEF GuardInv, FrameTypes, AtGuard, Evaluate
<1>2. Len(s) \in Nat \ {0} /\ Top(a) \in Frame /\ Top(a) = s[Len(s)]
      BY <1>1, FrontProperties DEF Top
<1>3. f \in Frame /\ f.reserved = s[Len(s)].reserved
  <2>1. value[Top(a).guard] \in BOOLEAN
        BY <1>1, <1>2 DEF Frame, FrameTypes
  <2>. QED  BY <1>2, <2>1 DEF Frame
<1>. HIDE DEF f
<1>4. /\ d \in Seq(Frame) /\ Len(d) = Len(s) /\ d # <<>>
      /\ \A i \in 1..Len(s) : d[i].reserved = s[i].reserved
      BY <1>1, DisturbedProperties
<1>. HIDE DEF d
<1>5. Reservations(d) = Reservations(s)
      BY <1>1, <1>4, ReservationsSame
<1>6. Last(d).reserved = f.reserved
  <2>1. Last(d) = d[Len(s)] /\ Len(s) \in 1..Len(s)
        BY <1>2, <1>4 DEF Last
  <2>. QED  BY <1>3, <1>4, <2>1
<1>7. /\ u \in Seq(Frame) /\ u # <<>> /\ Last(u) = f /\ Reservations(u) = Reservations(s)
      BY <1>3, <1>4, <1>5, <1>6, WithTopProperties, ReservationsRetop
<1>. HIDE DEF u
<1>8. g \in Frame /\ g.reserved = Last(u).reserved
      BY <1>3, <1>7 DEF Frame
<1>. HIDE DEF g
<1>9. w \in Seq(Frame) /\ Reservations(w) = Reservations(s)
      BY <1>7, <1>8, WithTopProperties, ReservationsRetop
<1>. HIDE DEF w
<1>10. CASE Become(a, "decide", u) /\ UNCHANGED scopeVars
       BY <1>1, <1>7, <1>10, BecomeStill
<1>11. CASE Begin(a, w, guarded)
       BY <1>1, <1>9, <1>11, BeginScope
<1>. QED  BY <1>1, <1>10, <1>11

\* clearGuard leaves the scope alone.
LEMMA PassScope ==
    ASSUME NEW a \in Activities, GuardInv, ScopeInv, Pass(a)
    PROVE  ScopeInv'
<1>. DEFINE s == frames[a]
            f == [NewFrame EXCEPT !.reserved = Top(a).reserved]
<1>1. /\ FrameTypes /\ s \in Seq(Frame) /\ s # <<>> /\ state[a] = "decide"
      /\ UNCHANGED scopeVars
      /\ Become(a, "crashed", s) \/ Become(a, "running", WithTop(s, f))
      BY DEF GuardInv, FrameTypes, AtGuard, Pass
<1>2. f \in Frame /\ f.reserved = Last(s).reserved
  <2>1. Top(a) \in Frame /\ Top(a) = Last(s)
        BY <1>1, FrontProperties DEF Top
  <2>. QED  BY <2>1 DEF Frame, NewFrame
<1>. HIDE DEF f
<1>3. Reservations(WithTop(s, f)) = Reservations(s)
      BY <1>1, <1>2, ReservationsRetop
<1>. QED  BY <1>1, <1>3, BecomeStill

\* guardWait gives up the one reservation of its frame.
LEMMA WaitScope ==
    ASSUME NEW a \in Activities, GuardInv, ScopeInv, Wait(a)
    PROVE  ScopeInv'
<1>. DEFINE s == frames[a]
            f == [Top(a) EXCEPT !.initial = Top(a).reserved, !.reserved = FALSE]
            k == IF Top(a).reserved THEN 1 ELSE 0
            t == WithTop(s, f)
<1>1. /\ FrameTypes /\ s \in Seq(Frame) /\ s # <<>> /\ state[a] = "decide"
      /\ Release(k) /\ Become(a, "parked", t)
      BY DEF GuardInv, FrameTypes, AtGuard, Wait
<1>2. f \in Frame /\ ~f.reserved /\ Top(a) = Last(s)
  <2>1. Top(a) \in Frame /\ Top(a) = Last(s)
        BY <1>1, FrontProperties DEF Top
  <2>. QED  BY <2>1 DEF Frame
<1>. HIDE DEF f
<1>3. t \in Seq(Frame) /\ Last(t) = f
      BY <1>1, <1>2, WithTopProperties
<1>4. /\ Reservations(t) = Reservations(Front(s)) + 0
      /\ Reservations(s) = Reservations(Front(s)) + k
      /\ Reservations(Front(s)) \in Nat
      BY <1>1, <1>2, ReservationsRetop, ReservationsTop
<1>5. k \in Nat
      OBVIOUS
<1>. HIDE DEF k, t
<1>6. Reservations(t) = Reservations(s) - k
      BY <1>4, <1>5
<1>. QED  BY <1>1, <1>2, <1>3, <1>5, <1>6, ReleaseScope

\* It is taken again before the next evaluation.
LEMMA WaitReturnsScope ==
    ASSUME NEW a \in Activities, GuardInv, ScopeInv, WaitReturns(a)
    PROVE  ScopeInv'
<1>. DEFINE s == frames[a]
<1>1. /\ FrameTypes /\ s \in Seq(Frame) /\ s # <<>> /\ state[a] = "parked"
      /\ \/ Reserve(a, s, "evaluate")
         \/ Become(a, "evaluate", s) /\ UNCHANGED scopeVars
      BY DEF GuardInv, FrameTypes, AtGuard, WaitReturns
<1>2. ~Last(s).reserved
      BY <1>1 DEF ScopeInv, CountSound, Top
<1>3. CASE Reserve(a, s, "evaluate")
      BY <1>1, <1>2, <1>3, ReserveScope
<1>4. CASE Become(a, "evaluate", s) /\ UNCHANGED scopeVars
      BY <1>1, <1>4, BecomeStill
<1>. QED  BY <1>1, <1>3, <1>4

\* Assignments do not touch the scope.
LEMMA AssignScope ==
    ASSUME NEW a \in Activities, GuardInv, ScopeInv, UNCHANGED scopeVars,
           state[a] \in {"running", "assigning"},
           \/ UNCHANGED <<state, frames>>
           \/ \E st \in {"running", "assigning"} : Become(a, st, frames[a])
    PROVE  ScopeInv'
<1>1. CASE UNCHANGED <<state, frames>>
      BY <1>1, ScopeStill DEF OthersStay
<1>2. CASE \E st \in {"running", "assigning"} : Become(a, st, frames[a])
      BY <1>2, BecomeStill DEF GuardInv
<1>. QED  BY <1>1, <1>2

-----------------------------------------------------------------------------
(* What follows for the scope, and both together.                          *)

\* The scope is free initially.
LEMMA ScopeInit == Init => ScopeInv
<1>. SUFFICES ASSUME Init PROVE ScopeInv
     OBVIOUS
<1>1. ScopeTypes
      BY DEF Init, ScopeTypes
<1>2. LineSound
  <2>1. DOMAIN <<>> = {}
        OBVIOUS
  <2>. QED  BY <2>1 DEF Init, LineSound, InLine
<1>3. ASSUME NEW a \in Activities PROVE CountSound(a)
      BY ReservationsEmpty, GuardDistinct DEF Init, CountSound
<1>. QED  BY <1>1, <1>2, <1>3 DEF ScopeInv

\* Every step keeps the invariant of the scope, action by action.
LEMMA ScopeStep == GuardInv /\ ScopeInv /\ [Next]_vars => ScopeInv'
<1>. SUFFICES ASSUME GuardInv, ScopeInv, [Next]_vars PROVE ScopeInv'
     OBVIOUS
<1>1. CASE UNCHANGED vars
      BY <1>1 DEF vars, scopeVars, ScopeInv, ScopeTypes, LineSound, CountSound, InLine, Top
<1>2. ASSUME NEW a \in Activities, GoOn(a) PROVE ScopeInv'
  <2>1. CASE ReserveReturns(a)
        BY <2>1, ReserveReturnsScope
  <2>2. CASE SetDefault(a)
        BY <2>2, AssignScope DEF SetDefault
  <2>3. CASE \E guarded \in BOOLEAN : Evaluate(a, guarded)
        BY <2>3, EvaluateScope
  <2>4. CASE Pass(a)
        BY <2>4, PassScope
  <2>5. CASE Wait(a)
        BY <2>5, WaitScope
  <2>6. CASE WaitReturns(a)
        BY <2>6, WaitReturnsScope
  <2>. QED  BY <1>2, <2>1, <2>2, <2>3, <2>4, <2>5, <2>6 DEF GoOn
<1>3. ASSUME NEW a \in Activities, Clause(a) PROVE ScopeInv'
  <2>1. CASE Return(a)
        BY <2>1, ReturnScope
  <2>2. CASE \E guarded \in BOOLEAN : Call(a, guarded)
    <3>1. PICK guarded \in BOOLEAN : Begin(a, frames[a], guarded)
          BY <2>2 DEF Call
    <3>. QED  BY <2>2, <3>1, FramesCount, BeginScope DEF Call, GuardInv
  <2>3. CASE RaiseError(a)
        BY <2>3, RaiseErrorScope
  <2>4. CASE \E v \in Variables, new \in BOOLEAN : Assign(a, v, new)
        BY <2>4, AssignScope DEF Assign
  <2>5. CASE \E v \in Stems, new \in BOOLEAN : AssignStem(a, v, new)
        BY <2>5, AssignScope DEF AssignStem
  <2>6. CASE \E v \in Stems, new \in BOOLEAN : AssignElement(a, v, new)
        BY <2>6, AssignScope DEF AssignElement
  <2>7. CASE \E on \in BOOLEAN, v \in Variables : GuardWhen(a, on, v)
        BY <2>7, GuardWhenScope
  <2>. QED  BY <1>3, <2>1, <2>2, <2>3, <2>4, <2>5, <2>6, <2>7 DEF Clause
<1>. QED  BY <1>1, <1>2, <1>3 DEF Next

\* The invariant of the scope: reserveCount is what the frames of the holder
\* say, and the line holds the others who wait for it, each once.
THEOREM ScopeInvariance == Spec => []ScopeInv
BY ScopeInit, ScopeStep, GuardInvariance, PTL DEF Spec

\* TypeOK: every variable has its type; a release never takes reserveCount
\* below zero.
THEOREM TypeCorrect == Spec => []TypeOK
<1>1. GuardInv /\ ScopeInv => TypeOK
      BY DEF GuardInv, ScopeInv, FrameTypes, ScopeTypes, TypeOK
<1>. QED  BY <1>1, GuardInvariance, ScopeInvariance, PTL

\* OthersGetIn: an activity in guardWait that still has the scope has it for
\* a method further down, never for the one that waits.
THEOREM ScopeGivenUp == Spec => []OthersGetIn
<1>1. GuardInv /\ ScopeInv => OthersGetIn
  <2>. SUFFICES ASSUME GuardInv, ScopeInv, NEW a \in Activities, state[a] = "parked", reservingActivity = a
                PROVE  Reservations(Front(frames[a])) > 0
       BY DEF OthersGetIn
  <2>1. frames[a] \in Seq(Frame) /\ frames[a] # <<>>
        BY DEF GuardInv, FrameTypes, AtGuard
  <2>2. CountSound(a)
        BY DEF ScopeInv
  <2>3. ~Last(frames[a]).reserved
        BY <2>2 DEF CountSound, Top
  <2>4. reserveCount = Reservations(frames[a]) + 0 /\ reserveCount > 0
        BY <2>2 DEF CountSound
  <2>5. /\ Reservations(frames[a]) = Reservations(Front(frames[a])) + 0
        /\ Reservations(Front(frames[a])) \in Nat
        BY <2>1, <2>3, ReservationsTop
  <2>. QED  BY <2>4, <2>5
<1>. QED  BY <1>1, GuardInvariance, ScopeInvariance, PTL

\* A step of one activity leaves the others where they are.
LEMMA OthersWait ==
    ASSUME NEW a \in Activities, NEW b \in Activities \ {a}, FrameTypes, GoOn(b) \/ Clause(b)
    PROVE  state'[a] = state[a]
<1>1. ASSUME NEW st, NEW stack, Become(b, st, stack) PROVE state'[a] = state[a]
      BY <1>1 DEF Become, FrameTypes
<1>2. ASSUME NEW stack, NEW st, Reserve(b, stack, st) PROVE state'[a] = state[a]
      BY <1>1, <1>2 DEF Reserve
<1>3. ASSUME NEW stack, NEW guarded, Begin(b, stack, guarded) PROVE state'[a] = state[a]
      BY <1>1, <1>2, <1>3 DEF Begin
<1>4. ASSUME GoOn(b) PROVE state'[a] = state[a]
      BY <1>1, <1>2, <1>3, <1>4 DEF GoOn, ReserveReturns, SetDefault, Evaluate, Pass, Wait, WaitReturns
<1>5. ASSUME Clause(b) PROVE state'[a] = state[a]
  <2>1. CASE Return(b) \/ RaiseError(b)
        BY <1>1, <2>1 DEF Return, RaiseError
  <2>2. CASE \E guarded \in BOOLEAN : Call(b, guarded)
        BY <1>3, <2>2 DEF Call
  <2>3. CASE \E v \in Variables, new \in BOOLEAN : Assign(b, v, new)
        BY <2>3 DEF Assign
  <2>4. CASE \E v \in Stems, new \in BOOLEAN : AssignStem(b, v, new) \/ AssignElement(b, v, new)
        BY <1>1, <2>4 DEF AssignStem, AssignElement
  <2>5. CASE \E on \in BOOLEAN, v \in Variables : GuardWhen(b, on, v)
        BY <1>1, <1>2, <2>5 DEF GuardWhen
  <2>. QED  BY <1>5, <2>1, <2>2, <2>3, <2>4, <2>5 DEF Clause
<1>. QED  BY <1>4, <1>5

\* ProceedsOnTruth: a GUARD whose expression called no method lets its method
\* go on only while its variable is true, and with the scope if it is an ON.
THEOREM GuardHolds == Spec => ProceedsOnTruth
<1>. DEFINE P(a) == state[a] = "decide" /\ state'[a] = "running" /\ ~Top(a).asked
                       => /\ value[Top(a).guard]
                          /\ Top(a).reserved => reservingActivity = a
<1>1. GuardInv /\ ScopeInv /\ [Next]_vars => \A a \in Activities : P(a)
  <2>. SUFFICES ASSUME GuardInv, ScopeInv, [Next]_vars, NEW a \in Activities,
                       state[a] = "decide", state'[a] = "running", ~Top(a).asked
                PROVE  value[Top(a).guard] /\ (Top(a).reserved => reservingActivity = a)
       OBVIOUS
  <2>1. FrameTypes /\ AtGuard(a) /\ CountSound(a)
        BY DEF GuardInv, ScopeInv
  <2>2. PICK b \in Activities : GoOn(b) \/ Clause(b)
        BY DEF Next, vars
  <2>3. GoOn(a) \/ Clause(a)
        BY <2>1, <2>2, OthersWait
  <2>4. ~Clause(a)
        BY DEF Clause, Return, Call, RaiseError, Assign, AssignStem, AssignElement, GuardWhen
  <2>5. Pass(a) \/ Wait(a)
        BY <2>3, <2>4 DEF GoOn, ReserveReturns, SetDefault, Evaluate, WaitReturns
  <2>6. ~Wait(a)
        BY <2>1, BecomeTo DEF Wait
  <2>7. Top(a).result
        BY <2>5, <2>6 DEF Pass
  <2>8. value[Top(a).guard]
        BY <2>1, <2>7 DEF AtGuard
  <2>9. Top(a).reserved => reservingActivity = a
    <3>1. frames[a] \in Seq(Frame) /\ frames[a] # <<>>
          BY <2>1 DEF FrameTypes, AtGuard
    <3>2. Top(a).reserved => Reservations(frames[a]) # 0
          BY <3>1, ReservationsTop DEF Top
    <3>. QED  BY <2>1, <3>2 DEF CountSound
  <2>. QED  BY <2>8, <2>9
<1>. QED  BY <1>1, GuardInvariance, ScopeInvariance, PTL DEF Spec, ProceedsOnTruth

=============================================================================
