-------------------------- MODULE ScopeLocks_proofs --------------------------
(***************************************************************************)
(* For any finite set of activities and any scopes and messages: the       *)
(* reservations are counted, the waiters are listed, an activity that has  *)
(* replied is refused its scope on account of a lost message only, and no  *)
(* two activities wait for each other in a circle.                         *)
(***************************************************************************)
EXTENDS ScopeLocks, StackLemmas

-----------------------------------------------------------------------------
(* The invariant.                                                          *)

\* An activation that has the scope, and how often a stack has it.
Has(it, s) == it.scope = s /\ it.reserved /\ ~it.transferFailed
Count(stack, s) == Cardinality({i \in 1..Len(stack) : Has(stack[i], s)})

\* A failed transfer is found at the bottom of the stack of an activity that
\* has not resumed yet; who waits for a scope does not have it already.
StackSound(st, stack) ==
    /\ stack = <<>> <=> st \in {"idle", "starting"}
    /\ \A i \in 1..Len(stack) : stack[i].transferFailed =>
          Len(stack) = 1 /\ st \in {"resuming", "reserving", "overflow"}
    /\ st = "guardOn" => ~Last(stack).reserved
    /\ st = "reserving" => ~Has(Last(stack), Last(stack).scope)
    /\ st = "resuming" => Len(stack) = 1 /\ Last(stack).messages = {}

StackInv ==
    /\ state \in [Activities -> States]
    /\ activations \in [Activities -> Seq(Activation)]
    /\ \A a \in Activities : StackSound(state[a], activations[a])

LockTypes ==
    /\ waitingObject \in [Activities -> Scopes \cup Messages \cup {None}]
    /\ reservingActivity \in [Scopes -> Activities \cup {None}]
    /\ reserveCount \in [Scopes -> Nat]
    /\ waitingActivities \in [Scopes \cup Messages -> Seq(Activities)]
    /\ completed \subseteq Messages

InLine(a, o) == Listed(a, waitingActivities[o])

LinesSound ==
    /\ \A o \in Scopes \cup Messages : NoRepeats(waitingActivities[o])
    /\ \A a \in Activities, o \in Scopes \cup Messages : InLine(a, o) <=> waitingObject[a] = o
    /\ \A m \in completed : waitingActivities[m] = <<>>

\* What an activity waits for.
WaitSound(a) ==
    CASE state[a] = "reserving" -> waitingObject[a] \in {Top(a).scope, None}
      [] state[a] = "result"    -> waitingObject[a] \in Messages \cup {None}
      [] OTHER                  -> waitingObject[a] = None

ScopeSound(s) ==
    /\ reservingActivity[s] = None <=> reserveCount[s] = 0
    /\ reservingActivity[s] = None => waitingActivities[s] = <<>>

\* The scope was handed to a while it waited.
Given(a, s) == state[a] = "reserving" /\ waitingObject[a] = None /\ Top(a).scope = s

Relied(a, s) == Count(activations[a], s) + IF Given(a, s) THEN 1 ELSE 0

CountSound(a, s) == Relied(a, s) = IF reservingActivity[s] = a THEN reserveCount[s] ELSE 0

LockInv ==
    /\ LockTypes
    /\ LinesSound
    /\ \A a \in Activities : WaitSound(a)
    /\ \A s \in Scopes : ScopeSound(s)
    /\ \A a \in Activities, s \in Scopes : CountSound(a, s)

\* The messages that a is to send: one at most, and those that its methods
\* run for are its own.
PendingOn(a) == {m \in Messages \ msgSent : startActivity[m] = a}

MessageSound(a) ==
    /\ IF state[a] = "starting" THEN \A m, n \in PendingOn(a) : m = n ELSE PendingOn(a) = {}
    /\ \A m \in MessagesOf(activations[a]) : m \in msgSent /\ startActivity[m] = a

MessageInv ==
    /\ startActivity \in [Messages -> Activities \cup {None}]
    /\ msgSent \subseteq Messages
    /\ \A a \in Activities : MessageSound(a)

\* What holds until a reply is refused, ...
Sound == StackInv /\ LockInv /\ MessageInv

\* ... which releases one scope too often.
LockBut(S) ==
    /\ LockTypes
    /\ LinesSound
    /\ \A a \in Activities : WaitSound(a)
    /\ \A s \in Scopes : ScopeSound(s)
    /\ \A a \in Activities, s \in Scopes \ S : CountSound(a, s)

IInv == spoilt \subseteq Scopes /\ StackInv /\ LockBut(spoilt) /\ MessageInv

\* The activity for which a waits, and after it the one for which that waits.
Ahead(startedOn) == [a \in Activities \cup {None} |->
    IF a = None THEN None
    ELSE IF waitingObject[a] = None THEN None
    ELSE OwningActivity(waitingObject[a], startedOn)]

\* The waits lead down: who waits for another is above it.
Ranked(g) == \E rank \in [Activities -> Nat] :
    \A a \in Activities : g[a] \in Activities \ {a} => rank[g[a]] < rank[a]

CircleInv == Ranked(Ahead(startActivity))

-----------------------------------------------------------------------------
(* What the helpers do to a stack, and to how often it has each scope.     *)

\* The positions that have the scope are finitely many.
LEMMA CountType ==
    ASSUME NEW stack \in Seq(Activation), NEW s
    PROVE  /\ IsFiniteSet({i \in 1..Len(stack) : Has(stack[i], s)})
           /\ Count(stack, s) \in Nat
<1>1. IsFiniteSet(1..Len(stack))
      BY FS_Interval
<1>2. {i \in 1..Len(stack) : Has(stack[i], s)} \in SUBSET (1..Len(stack))
      OBVIOUS
<1>3. IsFiniteSet({i \in 1..Len(stack) : Has(stack[i], s)})
      BY <1>1, <1>2, FS_Subset
<1>. QED  BY <1>3, FS_CardinalityType DEF Count

\* Stacks of one length that have the scope at the same positions.
LEMMA CountSame ==
    ASSUME NEW stack \in Seq(Activation), NEW other \in Seq(Activation), NEW s, Len(stack) = Len(other),
           \A i \in 1..Len(stack) : Has(stack[i], s) <=> Has(other[i], s)
    PROVE  Count(stack, s) = Count(other, s)
<1>1. {i \in 1..Len(stack) : Has(stack[i], s)} = {i \in 1..Len(other) : Has(other[i], s)}
      OBVIOUS
<1>. QED  BY <1>1 DEF Count

\* The top and what is below it.
LEMMA CountTop ==
    ASSUME NEW stack \in Seq(Activation), stack # <<>>, NEW s
    PROVE  /\ Count(Front(stack), s) \in Nat
           /\ Count(stack, s) = Count(Front(stack), s) + IF Has(Last(stack), s) THEN 1 ELSE 0
<1>. DEFINE f == Front(stack)
            n == Len(f)
            B == {i \in 1..Len(stack) : Has(stack[i], s)}
            C == {i \in 1..n : Has(f[i], s)}
<1>1. /\ Len(stack) \in Nat \ {0} /\ f \in Seq(Activation) /\ n = Len(stack) - 1
      /\ \A i \in 1..Len(stack) - 1 : f[i] = stack[i]
      /\ Last(stack) = stack[Len(stack)]
      BY FrontProperties
<1>2. n \in Nat /\ Len(stack) = n + 1
      BY <1>1
<1>3. \A i \in 1..n : f[i] = stack[i]
      BY <1>1, <1>2
<1>4. Count(f, s) \in Nat
      BY <1>1, CountType
<1>. HIDE DEF f, n
<1>5. B \in SUBSET (1..n + 1) /\ (n + 1 \in B <=> Has(Last(stack), s))
      BY <1>1, <1>2
<1>6. C = B \ {n + 1}
  <2>1. \A i \in 1..n + 1 : i \in 1..n <=> i # n + 1
        BY <1>2
  <2>. QED  BY <1>2, <1>3, <2>1
<1>7. Count(stack, s) = Cardinality(B) /\ Count(f, s) = Cardinality(C)
      BY DEF Count, n
<1>. HIDE DEF B, C
<1>8. Cardinality(B) = Cardinality(B \ {n + 1}) + IF n + 1 \in B THEN 1 ELSE 0
      BY <1>2, <1>5, CountBelow
<1>. QED  BY <1>4, <1>5, <1>6, <1>7, <1>8 DEF f

\* No activations, no scopes.
LEMMA CountEmpty ==
    ASSUME NEW s
    PROVE  Count(<<>>, s) = 0
<1>1. {i \in 1..Len(<<>>) : Has(<<>>[i], s)} = {}
      OBVIOUS
<1>. QED  BY <1>1, FS_EmptySet DEF Count

\* Replacing the top.
LEMMA CountRetop ==
    ASSUME NEW stack \in Seq(Activation), stack # <<>>, NEW it \in Activation
    PROVE  LET new == Append(Front(stack), it)
           IN  /\ new \in Seq(Activation) /\ new # <<>> /\ Len(new) = Len(stack)
               /\ Last(new) = it /\ new[Len(stack)] = it
               /\ \A i \in 1..Len(stack) - 1 : new[i] = stack[i]
               /\ \A s : Count(new, s) = Count(Front(stack), s) + IF Has(it, s) THEN 1 ELSE 0
<1>. DEFINE new == Append(Front(stack), it)
<1>1. /\ new \in Seq(Activation) /\ new # <<>> /\ Len(new) = Len(stack) /\ Front(new) = Front(stack)
      /\ Last(new) = it /\ new[Len(stack)] = it
      /\ \A i \in 1..Len(stack) - 1 : new[i] = stack[i]
      BY RetopProperties
<1>. HIDE DEF new
<1>2. ASSUME NEW s PROVE Count(new, s) = Count(Front(stack), s) + IF Has(it, s) THEN 1 ELSE 0
      BY <1>1, CountTop
<1>. QED  BY <1>1, <1>2 DEF new

\* A method that begins has no scope yet.
LEMMA CountPush ==
    ASSUME NEW stack \in Seq(Activation), NEW s \in Scopes,
           NEW ms \in SUBSET Messages, NEW m \in Messages \cup {None}
    PROVE  LET new == Append(stack, NewActivation(s, ms, m))
           IN  /\ new \in Seq(Activation) /\ new # <<>> /\ Len(new) = Len(stack) + 1
               /\ Last(new) = NewActivation(s, ms, m) /\ Front(new) = stack
               /\ \A i \in 1..Len(stack) : new[i] = stack[i]
               /\ \A r : Count(new, r) = Count(stack, r)
<1>. DEFINE it == NewActivation(s, ms, m)
            new == Append(stack, it)
<1>1. it \in Activation /\ \A r : ~Has(it, r)
      BY DEF NewActivation, Activation, Has
<1>. HIDE DEF it
<1>2. /\ new \in Seq(Activation) /\ new # <<>> /\ Len(new) = Len(stack) + 1
      /\ Last(new) = it /\ Front(new) = stack
      /\ \A i \in 1..Len(stack) : new[i] = stack[i]
      BY <1>1, PushProperties
<1>. HIDE DEF new
<1>3. ASSUME NEW r PROVE Count(new, r) = Count(stack, r)
  <2>1. Count(new, r) = Count(stack, r) + 0 /\ Count(stack, r) \in Nat
        BY <1>1, <1>2, CountTop
  <2>. QED  BY <2>1
<1>. QED  BY <1>2, <1>3 DEF new, it

\* The messages of stacks of one length with the same messages.
LEMMA MessagesSame ==
    ASSUME NEW stack \in Seq(Activation), NEW other \in Seq(Activation), Len(stack) = Len(other),
           \A i \in 1..Len(stack) : stack[i].messages = other[i].messages
    PROVE  MessagesOf(stack) = MessagesOf(other)
<1>1. DOMAIN stack = 1..Len(stack) /\ DOMAIN other = 1..Len(stack)
      BY LenProperties
<1>. QED  BY <1>1 DEF MessagesOf

\* A stack that differs from another in the flags of its top only.
SameButFlags(stack, new) ==
    /\ new \in Seq(Activation) /\ new # <<>> /\ Len(new) = Len(stack)
    /\ \A i \in 1..Len(stack) - 1 : new[i] = stack[i]
    /\ Last(new).scope = Last(stack).scope
    /\ Last(new).messages = Last(stack).messages
    /\ new[Len(stack)] = Last(new)
    /\ MessagesOf(new) = MessagesOf(stack)

\* The top changes some of its flags.
LEMMA FlagsChange ==
    ASSUME NEW stack \in Seq(Activation), stack # <<>>, NEW it \in Activation,
           it.scope = Last(stack).scope, it.messages = Last(stack).messages
    PROVE  SameButFlags(stack, Append(Front(stack), it))
<1>. DEFINE new == Append(Front(stack), it)
            n == Len(stack)
<1>1. n \in Nat \ {0} /\ Last(stack) = stack[n]
      BY FrontProperties
<1>2. /\ new \in Seq(Activation) /\ new # <<>> /\ Len(new) = n /\ Last(new) = it /\ new[n] = it
      /\ \A i \in 1..n - 1 : new[i] = stack[i]
      BY CountRetop
<1>. HIDE DEF new, n
<1>3. ASSUME NEW i \in 1..n PROVE new[i].messages = stack[i].messages
  <2>1. i \in 1..n - 1 \/ i = n
        BY <1>1
  <2>. QED  BY <1>1, <1>2, <2>1
<1>4. MessagesOf(new) = MessagesOf(stack)
      BY <1>2, <1>3, MessagesSame DEF n
<1>. QED  BY <1>2, <1>4 DEF SameButFlags, new, n

\* A scope that is reserved for the top counts once more.
LEMMA Scoped ==
    ASSUME NEW stack \in Seq(Activation), stack # <<>>, ~Has(Last(stack), Last(stack).scope)
    PROVE  /\ SameButFlags(stack, WithScope(stack))
           /\ Last(WithScope(stack)).reserved /\ ~Last(WithScope(stack)).transferFailed
           /\ \A s : Count(WithScope(stack), s) = Count(stack, s) + IF s = Last(stack).scope THEN 1 ELSE 0
<1>. DEFINE top == Last(stack)
            it == [top EXCEPT !.reserved = TRUE, !.transferFailed = FALSE]
            new == Append(Front(stack), it)
<1>1. top \in Activation
      BY FrontProperties
<1>2. /\ it \in Activation /\ it.scope = top.scope /\ it.messages = top.messages
      /\ it.reserved /\ ~it.transferFailed
      BY <1>1 DEF Activation
<1>3. \A s : Has(it, s) <=> s = top.scope
      BY <1>2 DEF Has
<1>4. \A s : ~Has(top, s)
      BY DEF Has
<1>. HIDE DEF it
<1>5. SameButFlags(stack, new) /\ Last(new) = it
      BY <1>2, FlagsChange, CountRetop
<1>6. ASSUME NEW s PROVE Count(new, s) = Count(stack, s) + IF s = top.scope THEN 1 ELSE 0
  <2>1. Count(new, s) = Count(Front(stack), s) + IF Has(it, s) THEN 1 ELSE 0
        BY <1>2, CountRetop
  <2>2. Count(stack, s) = Count(Front(stack), s) + 0 /\ Count(Front(stack), s) \in Nat
        BY <1>4, CountTop
  <2>. QED  BY <1>3, <2>1, <2>2
<1>7. WithScope(stack) = new
      BY DEF WithScope, it
<1>. QED  BY <1>2, <1>5, <1>6, <1>7

\* A scope that the top gives up counts once less.
LEMMA Unscoped ==
    ASSUME NEW stack \in Seq(Activation), stack # <<>>, ~Last(stack).transferFailed
    PROVE  /\ SameButFlags(stack, WithoutScope(stack))
           /\ ~Last(WithoutScope(stack)).reserved /\ ~Last(WithoutScope(stack)).transferFailed
           /\ \A s : /\ Count(stack, s) \in Nat /\ Count(WithoutScope(stack), s) \in Nat
                     /\ Count(stack, s) = Count(WithoutScope(stack), s)
                                            + IF Last(stack).reserved /\ s = Last(stack).scope THEN 1 ELSE 0
<1>. DEFINE top == Last(stack)
            it == [top EXCEPT !.reserved = FALSE]
            new == Append(Front(stack), it)
<1>1. top \in Activation
      BY FrontProperties
<1>2. /\ it \in Activation /\ it.scope = top.scope /\ it.messages = top.messages
      /\ ~it.reserved /\ ~it.transferFailed
      BY <1>1 DEF Activation
<1>3. \A s : ~Has(it, s)
      BY <1>2 DEF Has
<1>4. \A s : Has(top, s) <=> top.reserved /\ s = top.scope
      BY DEF Has
<1>. HIDE DEF it
<1>5. SameButFlags(stack, new) /\ Last(new) = it
      BY <1>2, FlagsChange, CountRetop
<1>6. ASSUME NEW s
      PROVE  /\ Count(stack, s) \in Nat /\ Count(new, s) \in Nat
             /\ Count(stack, s) = Count(new, s) + IF top.reserved /\ s = top.scope THEN 1 ELSE 0
  <2>1. Count(new, s) = Count(Front(stack), s) + 0
        BY <1>2, <1>3, CountRetop
  <2>2. /\ Count(stack, s) = Count(Front(stack), s) + IF Has(top, s) THEN 1 ELSE 0
        /\ Count(Front(stack), s) \in Nat
        BY CountTop
  <2>. QED  BY <1>4, <2>1, <2>2
<1>7. WithoutScope(stack) = new
      BY DEF WithoutScope, it
<1>. QED  BY <1>2, <1>5, <1>6, <1>7

\* What is unwound gives up what it has.
LEMMA Unwound ==
    ASSUME NEW stack \in Seq(Activation), NEW keep \in 0..Len(stack),
           \A i \in 1..Len(stack) : ~stack[i].transferFailed
    PROVE  LET kept == SubSeq(stack, 1, keep)
               gone == SubSeq(stack, keep + 1, Len(stack))
           IN  /\ kept \in Seq(Activation) /\ Len(kept) = keep
               /\ \A i \in 1..keep : kept[i] = stack[i]
               /\ Reservations(gone) \in [Scopes -> Nat]
               /\ \A s \in Scopes : /\ Count(kept, s) \in Nat
                                    /\ Count(stack, s) = Count(kept, s) + Reservations(gone)[s]
               /\ MessagesOf(kept) \subseteq MessagesOf(stack)
<1>. DEFINE n == Len(stack)
            kept == SubSeq(stack, 1, keep)
            gone == SubSeq(stack, keep + 1, n)
<1>1. n \in Nat /\ keep \in 0..n
      OBVIOUS
<1>2. kept \in Seq(Activation) /\ Len(kept) = keep /\ \A i \in 1..keep : kept[i] = stack[i]
      BY PrefixProperties
<1>3. gone \in Seq(Activation) /\ Len(gone) = n - keep /\ \A i \in 1..n - keep : gone[i] = stack[keep + i]
      BY SuffixProperties
<1>4. DOMAIN stack = 1..n /\ DOMAIN kept = 1..keep /\ DOMAIN gone = 1..n - keep
      BY <1>2, <1>3, LenProperties
<1>5. \A i \in 1..n : i \in 1..keep \/ (i - keep \in 1..n - keep /\ keep + (i - keep) = i)
      BY <1>1
<1>6. \A i \in 1..keep : i \in 1..n
      BY <1>1
<1>7. \A i \in 1..n - keep : keep + i \in 1..n
      BY <1>1
<1>. HIDE DEF kept, gone, n
<1>8. ASSUME NEW s \in Scopes
      PROVE  /\ Count(kept, s) \in Nat /\ Reservations(gone)[s] \in Nat
             /\ Count(stack, s) = Count(kept, s) + Reservations(gone)[s]
  <2>. DEFINE B == {i \in 1..n : Has(stack[i], s)}
              C == {i \in 1..keep : i \in B}
              D == {i \in 1..n - keep : keep + i \in B}
  <2>1. Count(stack, s) = Cardinality(B)
        BY DEF Count, n
  <2>2. Count(kept, s) = Cardinality(C)
    <3>1. {i \in 1..keep : Has(kept[i], s)} = C
          BY <1>2, <1>6
    <3>. HIDE DEF C
    <3>. QED  BY <1>2, <3>1 DEF Count
  <2>3. Reservations(gone)[s] = Cardinality(D)
    <3>1. {i \in 1..n - keep : gone[i].scope = s /\ gone[i].reserved} = D
      <4>1. ASSUME NEW i \in 1..n - keep
            PROVE  gone[i].scope = s /\ gone[i].reserved <=> keep + i \in B
            BY <1>3, <1>7 DEF Has, n
      <4>. QED  BY <4>1
    <3>. HIDE DEF D
    <3>. QED  BY <1>4, <3>1 DEF Reservations, Quantify
  <2>4. B \in SUBSET (1..n)
        OBVIOUS
  <2>. HIDE DEF B
  <2>5. /\ Cardinality(C) \in Nat /\ Cardinality(D) \in Nat
        /\ Cardinality(B) = Cardinality(C) + Cardinality(D)
        BY <1>1, <2>4, CountSplit
  <2>. HIDE DEF C, D
  <2>. QED  BY <2>1, <2>2, <2>3, <2>5
<1>9. Reservations(gone) \in [Scopes -> Nat]
  <2>1. Reservations(gone) = [s \in Scopes |-> Reservations(gone)[s]]
        BY DEF Reservations
  <2>. QED  BY <1>8, <2>1
<1>10. MessagesOf(kept) \subseteq MessagesOf(stack)
      BY <1>2, <1>4, <1>6 DEF MessagesOf
<1>. QED  BY <1>2, <1>8, <1>9, <1>10 DEF kept, gone, n

\* Stacks that differ in what they forward and what they would tell.
Alike(stack, other) ==
    /\ other \in Seq(Activation) /\ Len(other) = Len(stack)
    /\ \A i \in 1..Len(stack) : /\ other[i].scope = stack[i].scope
                                 /\ other[i].reserved = stack[i].reserved
                                 /\ other[i].transferFailed = stack[i].transferFailed
                                 /\ other[i].messages = stack[i].messages

Unfailed(stack) == \A i \in 1..Len(stack) : ~stack[i].transferFailed

\* They have the same scopes, and run for the same messages.
LEMMA AlikeSame ==
    ASSUME NEW stack \in Seq(Activation), NEW other, Alike(stack, other)
    PROVE  /\ \A s : Count(other, s) = Count(stack, s)
           /\ MessagesOf(other) = MessagesOf(stack)
           /\ Unfailed(stack) => Unfailed(other)
<1>1. other \in Seq(Activation) /\ Len(other) = Len(stack)
      BY DEF Alike
<1>2. ASSUME NEW s PROVE Count(other, s) = Count(stack, s)
  <2>1. \A i \in 1..Len(stack) : Has(stack[i], s) <=> Has(other[i], s)
        BY DEF Alike, Has
  <2>. QED  BY <1>1, <2>1, CountSame
<1>3. MessagesOf(other) = MessagesOf(stack)
      BY <1>1, MessagesSame DEF Alike
<1>. QED  BY <1>1, <1>2, <1>3 DEF Alike, Unfailed

\* What an activation would tell later is set.
LEMMA StaleAlike ==
    ASSUME NEW stack \in Seq(Activation), NEW i \in 1..Len(stack), NEW m \in Messages \cup {None}
    PROVE  Alike(stack, WithStale(stack, i, m))
<1>. DEFINE it == [stack[i] EXCEPT !.stale = m]
<1>1. stack[i] \in Activation
      BY ElementOfSeq
<1>2. /\ it \in Activation /\ it.scope = stack[i].scope /\ it.reserved = stack[i].reserved
      /\ it.transferFailed = stack[i].transferFailed /\ it.messages = stack[i].messages
      BY <1>1 DEF Activation
<1>3. WithStale(stack, i, m) = [stack EXCEPT ![i] = it]
      BY DEF WithStale
<1>. HIDE DEF it
<1>4. /\ [stack EXCEPT ![i] = it] \in Seq(Activation) /\ Len([stack EXCEPT ![i] = it]) = Len(stack)
      /\ \A j \in 1..Len(stack) : [stack EXCEPT ![i] = it][j] = IF j = i THEN it ELSE stack[j]
      BY <1>2, ExceptSeq
<1>. QED  BY <1>2, <1>3, <1>4 DEF Alike

\* The top forwards.
LEMMA ForwardAlike ==
    ASSUME NEW stack \in Seq(Activation), stack # <<>>
    PROVE  Alike(stack, Append(Front(stack), [Last(stack) EXCEPT !.forwarded = TRUE, !.stale = None]))
<1>. DEFINE top == Last(stack)
            it == [top EXCEPT !.forwarded = TRUE, !.stale = None]
            new == Append(Front(stack), it)
<1>1. Len(stack) \in Nat \ {0} /\ top = stack[Len(stack)] /\ top \in Activation
      BY FrontProperties
<1>2. /\ it \in Activation /\ it.scope = top.scope /\ it.reserved = top.reserved
      /\ it.transferFailed = top.transferFailed /\ it.messages = top.messages
      BY <1>1 DEF Activation
<1>. HIDE DEF it
<1>3. /\ new \in Seq(Activation) /\ Len(new) = Len(stack) /\ new[Len(stack)] = it
      /\ \A i \in 1..Len(stack) - 1 : new[i] = stack[i]
      BY <1>2, RetopProperties
<1>. HIDE DEF new
<1>4. \A i \in 1..Len(stack) : i \in 1..Len(stack) - 1 \/ i = Len(stack)
      BY <1>1
<1>. QED  BY <1>1, <1>2, <1>3, <1>4 DEF Alike, new, it

\* Who goes on when the top returns is below it.
LEMMA CallerType ==
    ASSUME NEW stack \in Seq(Activation), stack # <<>>
    PROVE  Caller(stack) \in 0..Len(stack) - 1
<1>. DEFINE n == Len(stack) - 1
            T == {0} \cup {i \in 1..n : ~stack[i].forwarded}
            R == {n - x : x \in T}
<1>1. n \in Nat
      BY FrontProperties
<1>2. T \in SUBSET (0..n) /\ 0 \in T
      BY <1>1
<1>. HIDE DEF n, T
<1>3. PICK y \in R : \A z \in R : y <= z
  <2>1. R \in SUBSET Nat /\ R # {}
        BY <1>1, <1>2
  <2>. HIDE DEF R
  <2>. QED  BY <2>1, Least
<1>4. PICK x \in T : y = n - x
      BY <1>3
<1>5. ASSUME NEW z \in T PROVE x >= z
  <2>1. n - x <= n - z /\ x \in 0..n /\ z \in 0..n
        BY <1>2, <1>3, <1>4, <1>5
  <2>. QED  BY <1>1, <2>1
<1>6. Max(T) \in T
      BY <1>5 DEF Max
<1>. QED  BY <1>2, <1>6 DEF Caller, n, T

\* The messages that are told are messages.
LEMMA ToldType ==
    ASSUME NEW stack \in Seq(Activation), NEW keep \in 0..Len(stack)
    PROVE  Told(stack, keep) \subseteq Messages
<1>1. \A i \in 1..Len(stack) : stack[i].notify \in Messages \cup {None} /\ stack[i].stale \in Messages \cup {None}
  <2>1. \A i \in 1..Len(stack) : stack[i] \in Activation
        BY ElementOfSeq
  <2>. QED  BY <2>1 DEF Activation
<1>2. \A i \in keep + 1..Len(stack) : i \in 1..Len(stack)
      OBVIOUS
<1>. QED  BY <1>1, <1>2 DEF Told

-----------------------------------------------------------------------------
(* The locks.  Five ways a step may treat them.                            *)

\* A step of another leaves c alone, or gives it something to do: a message
\* to start, or an activation that could not take its scope along.
Bystander(c) ==
    \/ state'[c] = state[c] /\ activations'[c] = activations[c]
    \/ /\ state[c] = "idle" /\ state'[c] \in {"starting", "resuming"}
       /\ activations'[c] \in Seq(Activation)
       /\ \A s \in Scopes : Count(activations'[c], s) = 0

OthersStay(a) == \A c \in Activities \ {a} : Bystander(c)

\* What an activity relies on is a number.
LEMMA ReliedType ==
    ASSUME StackInv, NEW a \in Activities, NEW s
    PROVE  /\ Count(activations[a], s) \in Nat
           /\ Relied(a, s) \in Nat
<1>1. Count(activations[a], s) \in Nat
      BY CountType DEF StackInv
<1>. HIDE DEF Count
<1>. QED  BY <1>1 DEF Relied

\* A bystander waits for the same and relies on the same.
LEMMA BystanderRelies ==
    ASSUME StackInv, LockInv, NEW c \in Activities, Bystander(c), waitingObject'[c] = waitingObject[c]
    PROVE  WaitSound(c)' /\ \A s \in Scopes : Relied(c, s)' = Relied(c, s)
<1>1. CASE state'[c] = state[c] /\ activations'[c] = activations[c]
      BY <1>1 DEF LockInv, WaitSound, Relied, Given, Top
<1>2. CASE ~(state'[c] = state[c] /\ activations'[c] = activations[c])
  <2>1. /\ state[c] = "idle" /\ state'[c] \in {"starting", "resuming"} /\ activations[c] = <<>>
        /\ \A s \in Scopes : Count(activations'[c], s) = 0
        BY <1>2 DEF Bystander, StackInv, StackSound
  <2>2. waitingObject'[c] = None
        BY <2>1 DEF LockInv, WaitSound
  <2>3. WaitSound(c)'
        BY <2>1, <2>2 DEF WaitSound
  <2>4. ASSUME NEW s \in Scopes PROVE Relied(c, s)' = 0 + 0 /\ Relied(c, s) = 0 + 0
        BY <2>1, CountEmpty DEF Relied, Given
  <2>. QED  BY <2>3, <2>4
<1>. QED  BY <1>1, <1>2

\* The locks are left alone.
LEMMA LockStill ==
    ASSUME NEW a \in Activities, StackInv, LockInv, OthersStay(a),
           UNCHANGED <<waitingObject, scopeVars, completed>>,
           WaitSound(a)', \A s \in Scopes : Relied(a, s)' = Relied(a, s)
    PROVE  LockInv'
<1>. USE DEF LockInv, scopeVars
<1>1. LockTypes'
      BY DEF LockTypes
<1>2. LinesSound'
      BY DEF LinesSound, InLine
<1>3. ASSUME NEW c \in Activities
      PROVE  WaitSound(c)' /\ \A s \in Scopes : Relied(c, s)' = Relied(c, s)
      BY BystanderRelies DEF OthersStay
<1>4. ASSUME NEW s \in Scopes PROVE ScopeSound(s)'
      BY DEF ScopeSound
<1>5. ASSUME NEW c \in Activities, NEW s \in Scopes PROVE CountSound(c, s)'
      BY <1>3 DEF CountSound
<1>. QED  BY <1>1, <1>2, <1>3, <1>4, <1>5

\* A scope that is free, or that a has, is reserved by a once more.
LEMMA LockTaken ==
    ASSUME NEW a \in Activities, NEW s \in Scopes, StackInv, LockInv, OthersStay(a),
           reservingActivity[s] \in {None, a},
           reservingActivity' = [reservingActivity EXCEPT ![s] = a],
           reserveCount' = [reserveCount EXCEPT ![s] = IF reservingActivity[s] = a THEN @ + 1 ELSE 1],
           UNCHANGED <<waitingObject, waitingActivities, completed>>,
           WaitSound(a)',
           \A r \in Scopes : Relied(a, r)' = Relied(a, r) + IF r = s THEN 1 ELSE 0
    PROVE  LockInv'
<1>. USE DEF LockInv
<1>1. None \notin Activities
      BY DistinctAssumption
<1>2. LockTypes'
      BY DEF LockTypes
<1>3. LinesSound'
      BY DEF LinesSound, InLine
<1>4. ASSUME NEW c \in Activities \ {a}
      PROVE  WaitSound(c)' /\ \A r \in Scopes : Relied(c, r)' = Relied(c, r)
      BY BystanderRelies DEF OthersStay
<1>5. reservingActivity[s] = None => reserveCount[s] = 0
      BY DEF ScopeSound
<1>6. reservingActivity'[s] = a /\ reserveCount'[s] = reserveCount[s] + 1 /\ reserveCount[s] \in Nat
      BY <1>1, <1>5 DEF LockTypes
<1>7. \A r \in Scopes \ {s} : reservingActivity'[r] = reservingActivity[r] /\ reserveCount'[r] = reserveCount[r]
      BY DEF LockTypes
<1>8. ASSUME NEW r \in Scopes PROVE ScopeSound(r)'
  <2>1. CASE r = s
        BY <1>1, <1>6, <2>1 DEF ScopeSound
  <2>2. CASE r # s
        BY <1>7, <2>2 DEF ScopeSound
  <2>. QED  BY <2>1, <2>2
<1>9. ASSUME NEW c \in Activities, NEW r \in Scopes PROVE CountSound(c, r)'
  <2>1. CASE r # s
    <3>1. Relied(c, r)' = Relied(c, r)
      <4>1. CASE c = a
            BY <2>1, <4>1, ReliedType
      <4>2. CASE c # a
            BY <1>4, <4>2
      <4>. QED  BY <4>1, <4>2
    <3>. QED  BY <1>7, <2>1, <3>1 DEF CountSound
  <2>2. CASE r = s /\ c = a
    <3>1. Relied(a, s) = reserveCount[s]
          BY <1>1, <1>5 DEF CountSound
    <3>. QED  BY <1>6, <2>2, <3>1 DEF CountSound
  <2>3. CASE r = s /\ c # a
    <3>1. Relied(c, s) = 0
          BY <1>1, <2>3 DEF CountSound
    <3>. QED  BY <1>4, <1>6, <2>3, <3>1 DEF CountSound
  <2>. QED  BY <2>1, <2>2, <2>3
<1>. QED  BY <1>2, <1>3, <1>4, <1>8, <1>9

\* A resource is in the hands of another, and a gets in line.
LEMMA LockJoined ==
    ASSUME NEW a \in Activities, NEW o \in Scopes \cup Messages, StackInv, LockInv, OthersStay(a),
           waitingObject[a] = None,
           o \in Scopes => reservingActivity[o] \notin {None, a},
           o \notin completed,
           waitingActivities' = [waitingActivities EXCEPT ![o] = Append(@, a)],
           waitingObject' = [waitingObject EXCEPT ![a] = o],
           UNCHANGED <<reservingActivity, reserveCount, completed>>,
           WaitSound(a)', \A s \in Scopes : Relied(a, s)' = Relied(a, s)
    PROVE  LockInv'
<1>. USE DEF LockInv
<1>1. None \notin Scopes \cup Messages
      BY DistinctAssumption
<1>2. waitingObject'[a] = o /\ \A c \in Activities \ {a} : waitingObject'[c] = waitingObject[c]
      BY DEF LockTypes
<1>3. /\ waitingActivities'[o] = Append(waitingActivities[o], a)
      /\ \A p \in Scopes \cup Messages : p # o => waitingActivities'[p] = waitingActivities[p]
      BY DEF LockTypes
<1>4. /\ waitingActivities'[o] \in Seq(Activities) /\ NoRepeats(waitingActivities'[o])
      /\ \A c \in Activities : InLine(c, o)' <=> c = a \/ InLine(c, o)
  <2>1. /\ waitingActivities[o] \in Seq(Activities) /\ NoRepeats(waitingActivities[o])
        /\ ~Listed(a, waitingActivities[o])
        BY <1>1 DEF LockTypes, LinesSound, InLine
  <2>2. /\ waitingActivities'[o] \in Seq(Activities) /\ NoRepeats(waitingActivities'[o])
        /\ \A b \in Activities : Listed(b, waitingActivities'[o]) <=> b = a \/ Listed(b, waitingActivities[o])
        BY <1>3, <2>1, LineJoined
  <2>. QED  BY <2>2 DEF InLine
<1>5. LockTypes'
  <2>1. waitingObject' \in [Activities -> Scopes \cup Messages \cup {None}]
        BY DEF LockTypes
  <2>2. waitingActivities' \in [Scopes \cup Messages -> Seq(Activities)]
        BY <1>4, <1>3 DEF LockTypes
  <2>. QED  BY <2>1, <2>2 DEF LockTypes
<1>6. LinesSound'
  <2>1. ASSUME NEW p \in Scopes \cup Messages
        PROVE  NoRepeats(waitingActivities'[p])
        BY <1>3, <1>4 DEF LinesSound
  <2>2. ASSUME NEW c \in Activities, NEW p \in Scopes \cup Messages
        PROVE  InLine(c, p)' <=> waitingObject'[c] = p
    <3>1. CASE p = o
          BY <1>2, <1>4, <3>1 DEF LinesSound
    <3>2. CASE p # o
      <4>1. InLine(c, p)' <=> InLine(c, p)
            BY <1>3, <3>2 DEF InLine
      <4>2. InLine(c, p) <=> waitingObject[c] = p
            BY DEF LinesSound
      <4>3. waitingObject'[c] = p <=> waitingObject[c] = p
            BY <1>1, <1>2, <3>2
      <4>. QED  BY <4>1, <4>2, <4>3
    <3>. QED  BY <3>1, <3>2
  <2>3. \A m \in completed' : waitingActivities'[m] = <<>>
        BY <1>3 DEF LinesSound, LockTypes
  <2>. QED  BY <2>1, <2>2, <2>3 DEF LinesSound
<1>7. ASSUME NEW c \in Activities
      PROVE  WaitSound(c)' /\ \A s \in Scopes : Relied(c, s)' = Relied(c, s)
      BY <1>2, BystanderRelies DEF OthersStay
<1>8. ASSUME NEW s \in Scopes PROVE ScopeSound(s)'
      BY <1>3 DEF ScopeSound
<1>9. ASSUME NEW c \in Activities, NEW s \in Scopes PROVE CountSound(c, s)'
      BY <1>7 DEF CountSound
<1>. QED  BY <1>5, <1>6, <1>7, <1>8, <1>9

\* The scopes that release leaves without a count, those of them that have a
\* line, and who is the first in it.
LeftBy(times)   == {s \in Scopes : times[s] > 0 /\ reserveCount[s] = times[s]}
PassedBy(times) == {s \in LeftBy(times) : waitingActivities[s] # <<>>}
FirstOf(times, c, o) == o \in PassedBy(times) /\ c = Head(waitingActivities[o])

\* What release and sendNotification do, as long as no scope is released more
\* often than it is reserved.
LEMMA Discharged ==
    ASSUME NEW a \in Activities, NEW times \in [Scopes -> Nat], NEW ended \in SUBSET Messages,
           StackInv, LockInv, OthersStay(a), Discharge(times, ended),
           state[a] \notin {"reserving", "result"}, state'[a] \notin {"reserving", "result"},
           \A s \in Scopes : times[s] <= reserveCount[s]
    PROVE  /\ LockTypes' /\ LinesSound'
           /\ \A c \in Activities : WaitSound(c)'
           /\ \A s \in Scopes : ScopeSound(s)'
           /\ \A c \in Activities \ {a}, s \in Scopes :
                 Relied(c, s)' = Relied(c, s) + IF FirstOf(times, c, s) THEN 1 ELSE 0
           /\ \A s \in Scopes :
                 \/ /\ s \notin LeftBy(times)
                    /\ reservingActivity'[s] = reservingActivity[s]
                    /\ reserveCount'[s] = reserveCount[s] - times[s]
                 \/ /\ s \in LeftBy(times) /\ s \notin PassedBy(times)
                    /\ reservingActivity'[s] = None /\ reserveCount'[s] = 0
                 \/ /\ s \in LeftBy(times) /\ s \in PassedBy(times)
                    /\ reservingActivity'[s] = Head(waitingActivities[s]) /\ reserveCount'[s] = 1
                    /\ Head(waitingActivities[s]) \in Activities \ {a}
<1>. USE DEF LockInv
<1>. DEFINE left   == LeftBy(times)
            passed == PassedBy(times)
            woken  == {Head(waitingActivities[s]) : s \in passed}
                        \cup UNION {ToSet(waitingActivities[m]) : m \in ended}
            First(c, o) == o \in passed /\ c = Head(waitingActivities[o])
<1>1. /\ None \notin Activities \cup Scopes \cup Messages
      /\ \A s \in Scopes : s \notin Messages
      BY DistinctAssumption
<1>2. /\ \A s \in Scopes : /\ reservingActivity'[s] = (IF s \in left THEN HolderHandedOn(s) ELSE reservingActivity[s])
                           /\ reserveCount'[s] = (IF s \in left THEN CountHandedOn(s) ELSE reserveCount[s] - times[s])
      /\ \A o \in Scopes \cup Messages :
            waitingActivities'[o] = (IF o \in passed THEN Tail(waitingActivities[o])
                                     ELSE IF o \in ended THEN <<>> ELSE waitingActivities[o])
      /\ \A c \in Activities : waitingObject'[c] = (IF c \in woken THEN None ELSE waitingObject[c])
      /\ completed' = completed \cup ended
      BY DEF Discharge, LeftBy, PassedBy
<1>3. waitingObject[a] = None
      BY DEF WaitSound
<1>6. ASSUME NEW s \in passed
      PROVE  LET h == Head(waitingActivities[s])
             IN  /\ s \in Scopes /\ h \in Activities /\ waitingObject[h] = s /\ h # a
                 /\ state[h] = "reserving" /\ Top(h).scope = s
                 /\ Tail(waitingActivities[s]) \in Seq(Activities) /\ NoRepeats(Tail(waitingActivities[s]))
                 /\ \A c \in Activities : Listed(c, Tail(waitingActivities[s])) <=> c # h /\ InLine(c, s)
  <2>. DEFINE h == Head(waitingActivities[s])
              t == Tail(waitingActivities[s])
  <2>1. /\ s \in Scopes /\ waitingActivities[s] # <<>> /\ waitingActivities[s] \in Seq(Activities)
        /\ NoRepeats(waitingActivities[s])
        BY DEF LockTypes, LinesSound, PassedBy, LeftBy
  <2>2. /\ t \in Seq(Activities) /\ h \in Activities /\ Listed(h, waitingActivities[s]) /\ NoRepeats(t)
        /\ \A c \in Activities : Listed(c, t) <=> c # h /\ Listed(c, waitingActivities[s])
        BY <2>1, LineServed
  <2>. HIDE DEF h, t
  <2>3. waitingObject[h] = s
        BY <2>1, <2>2 DEF LinesSound, InLine
  <2>4. state[h] = "reserving" /\ Top(h).scope = s
        BY <1>1, <2>1, <2>2, <2>3 DEF WaitSound
  <2>5. h # a
        BY <2>4
  <2>. QED  BY <2>1, <2>2, <2>3, <2>4, <2>5 DEF h, t, InLine
<1>7. ASSUME NEW c \in Activities, NEW m \in ended PROVE c \in ToSet(waitingActivities[m]) <=> waitingObject[c] = m
  <2>1. c \in ToSet(waitingActivities[m]) <=> InLine(c, m)
        BY DEF ToSet, InLine, Listed
  <2>. QED  BY <2>1 DEF LinesSound
<1>8. ASSUME NEW c \in Activities, NEW o \in Scopes \cup Messages, waitingObject[c] = o
      PROVE  c \in woken <=> First(c, o) \/ o \in ended
  <2>. HIDE DEF passed
  <2>1. ASSUME NEW s \in passed, c = Head(waitingActivities[s]) PROVE s = o
        BY <1>6, <1>8, <2>1
  <2>. QED  BY <1>7, <1>8, <2>1
<1>9. ASSUME NEW c \in Activities, waitingObject[c] = None PROVE c \notin woken
  <2>. HIDE DEF passed
  <2>1. ASSUME NEW s \in passed PROVE c # Head(waitingActivities[s])
        BY <1>1, <1>6, <1>9
  <2>. QED  BY <1>1, <1>7, <1>9, <2>1
<1>10. ASSUME NEW c \in Activities, NEW o \in Scopes \cup Messages
       PROVE  waitingObject'[c] = o <=> waitingObject[c] = o /\ ~First(c, o) /\ o \notin ended
  <2>. HIDE DEF woken, First
  <2>. QED  BY <1>1, <1>2, <1>8
<1>11. ASSUME NEW c \in Activities PROVE waitingObject'[c] \in {waitingObject[c], None}
       BY <1>2
<1>. HIDE DEF left, woken, HolderHandedOn, CountHandedOn
<1>12. ASSUME NEW o \in Scopes \cup Messages
       PROVE  /\ waitingActivities'[o] \in Seq(Activities) /\ NoRepeats(waitingActivities'[o])
              /\ \A c \in Activities : InLine(c, o)' <=> waitingObject'[c] = o
  <2>1. CASE o \in passed
    <3>1. waitingActivities'[o] = Tail(waitingActivities[o])
          BY <1>2, <2>1
    <3>2. o \notin ended
          BY <1>1, <1>6, <2>1
    <3>. HIDE DEF passed
    <3>3. \A c \in Activities : InLine(c, o)' <=> c # Head(waitingActivities[o]) /\ InLine(c, o)
          BY <1>6, <2>1, <3>1 DEF InLine
    <3>. QED  BY <1>6, <1>10, <2>1, <3>1, <3>2, <3>3 DEF LinesSound
  <2>2. CASE o \notin passed /\ o \in ended
    <3>1. waitingActivities'[o] = <<>>
          BY <1>2, <2>2
    <3>2. \A c \in Activities : ~InLine(c, o)'
      <4>1. DOMAIN <<>> = {}
            OBVIOUS
      <4>. QED  BY <3>1, <4>1 DEF InLine, Listed
    <3>3. waitingActivities'[o] \in Seq(Activities) /\ NoRepeats(waitingActivities'[o])
          BY <3>1 DEF NoRepeats
    <3>. QED  BY <1>10, <2>2, <3>2, <3>3
  <2>3. CASE o \notin passed /\ o \notin ended
    <3>1. waitingActivities'[o] = waitingActivities[o]
          BY <1>2, <2>3
    <3>2. \A c \in Activities : InLine(c, o)' <=> InLine(c, o)
          BY <3>1 DEF InLine
    <3>. HIDE DEF passed
    <3>. QED  BY <1>10, <2>3, <3>1, <3>2 DEF LinesSound, LockTypes
  <2>. QED  BY <2>1, <2>2, <2>3
<1>13. LinesSound'
  <2>1. ASSUME NEW m \in completed' PROVE m \in Messages /\ waitingActivities'[m] = <<>>
    <3>1. m \in Messages /\ m \notin passed
          BY <1>1, <1>2, <1>6 DEF LockTypes
    <3>. HIDE DEF passed
    <3>. QED  BY <1>2, <3>1 DEF LinesSound
  <2>. QED  BY <1>12, <2>1 DEF LinesSound
<1>14. \A s \in Scopes : /\ CountHandedOn(s) = IF waitingActivities[s] = <<>> THEN 0 ELSE 1
                         /\ HolderHandedOn(s) = IF waitingActivities[s] = <<>> THEN None ELSE Head(waitingActivities[s])
       BY DEF CountHandedOn, HolderHandedOn
<1>15. ASSUME NEW s \in Scopes
       PROVE  \/ /\ s \notin left /\ s \notin passed
                 /\ reservingActivity'[s] = reservingActivity[s]
                 /\ reserveCount'[s] = reserveCount[s] - times[s] /\ reserveCount'[s] \in Nat
                 /\ reserveCount'[s] = 0 <=> reserveCount[s] = 0
                 /\ waitingActivities'[s] = waitingActivities[s]
              \/ /\ s \in left /\ s \notin passed
                 /\ reservingActivity'[s] = None /\ reserveCount'[s] = 0
                 /\ waitingActivities'[s] = <<>>
              \/ /\ s \in left /\ s \in passed
                 /\ reservingActivity'[s] = Head(waitingActivities[s]) /\ reserveCount'[s] = 1
  <2>1. CASE s \notin left
    <3>1. reservingActivity'[s] = reservingActivity[s] /\ reserveCount'[s] = reserveCount[s] - times[s]
          BY <1>2, <2>1
    <3>2. s \notin passed /\ waitingActivities'[s] = waitingActivities[s]
          BY <1>1, <1>2, <2>1 DEF left, PassedBy
    <3>3. times[s] \in Nat /\ reserveCount[s] \in Nat
          BY DEF LockTypes
    <3>4. times[s] = 0 \/ reserveCount[s] # times[s]
          BY <2>1, <3>3 DEF left, LeftBy
    <3>5. times[s] > 0 => reserveCount[s] > times[s]
          BY <3>3, <3>4
    <3>. HIDE DEF passed
    <3>. QED  BY <2>1, <3>1, <3>2, <3>3, <3>5
  <2>2. CASE s \in left /\ s \notin passed
    <3>1. waitingActivities[s] = <<>>
          BY <2>2 DEF left, PassedBy
    <3>. QED  BY <1>1, <1>2, <1>14, <2>2, <3>1
  <2>3. CASE s \in passed
    <3>1. s \in left /\ waitingActivities[s] # <<>>
          BY <2>3 DEF left, PassedBy
    <3>. HIDE DEF passed
    <3>. QED  BY <1>2, <1>14, <2>3, <3>1
  <2>. QED  BY <2>1, <2>2, <2>3
<1>. HIDE DEF passed, First
<1>16. LockTypes'
  <2>1. waitingObject' \in [Activities -> Scopes \cup Messages \cup {None}]
    <3>1. DOMAIN waitingObject' = Activities /\ waitingObject' = [c \in Activities |-> waitingObject'[c]]
          BY DEF Discharge
    <3>. QED  BY <1>11, <3>1 DEF LockTypes
  <2>2. reservingActivity' \in [Scopes -> Activities \cup {None}]
    <3>1. reservingActivity' = [s \in Scopes |-> reservingActivity'[s]]
          BY DEF Discharge
    <3>2. \A s \in Scopes : reservingActivity'[s] \in Activities \cup {None}
          BY <1>6, <1>15 DEF LockTypes
    <3>. QED  BY <3>1, <3>2
  <2>3. reserveCount' \in [Scopes -> Nat]
    <3>1. reserveCount' = [s \in Scopes |-> reserveCount'[s]]
          BY DEF Discharge
    <3>2. \A s \in Scopes : reserveCount'[s] \in Nat
          BY <1>15
    <3>. QED  BY <3>1, <3>2
  <2>4. waitingActivities' \in [Scopes \cup Messages -> Seq(Activities)]
    <3>1. waitingActivities' = [o \in Scopes \cup Messages |-> waitingActivities'[o]]
          BY DEF Discharge
    <3>. QED  BY <1>12, <3>1
  <2>5. completed' \subseteq Messages
        BY <1>2 DEF LockTypes
  <2>. QED  BY <2>1, <2>2, <2>3, <2>4, <2>5 DEF LockTypes
<1>17. ASSUME NEW c \in Activities \ {a}
       PROVE  /\ WaitSound(c)'
              /\ \A s \in Scopes : Relied(c, s)' = Relied(c, s) + IF First(c, s) THEN 1 ELSE 0
  <2>1. CASE waitingObject'[c] = waitingObject[c]
    <3>1. ASSUME NEW s \in Scopes PROVE ~First(c, s)
          BY <1>1, <1>6, <1>10, <2>1 DEF First
    <3>. QED  BY <2>1, <3>1, BystanderRelies, ReliedType DEF OthersStay
  <2>2. CASE waitingObject'[c] # waitingObject[c]
    <3>1. waitingObject'[c] = None /\ waitingObject[c] # None
          BY <1>11, <2>2
    <3>2. PICK o \in Scopes \cup Messages : waitingObject[c] = o
          BY <3>1 DEF LockTypes
    <3>3. First(c, o) \/ o \in ended
          BY <1>1, <1>10, <3>1, <3>2
    <3>4. state[c] \in {"reserving", "result"}
          BY <3>1 DEF WaitSound
    <3>5. state'[c] = state[c] /\ activations'[c] = activations[c]
          BY <3>4 DEF OthersStay, Bystander
    <3>6. WaitSound(c)'
          BY <3>1, <3>4, <3>5 DEF WaitSound
    <3>7. ASSUME NEW s \in Scopes PROVE ~Given(c, s) /\ (Given(c, s)' <=> First(c, s))
      <4>1. ~Given(c, s)
            BY <3>1 DEF Given
      <4>2. Given(c, s)' <=> state[c] = "reserving" /\ Top(c).scope = s
            BY <3>1, <3>5 DEF Given, Top
      <4>3. CASE First(c, s)
            BY <1>6, <4>1, <4>2, <4>3 DEF First
      <4>4. CASE state[c] = "reserving" /\ Top(c).scope = s
        <5>1. o = s
              BY <3>1, <3>2, <4>4 DEF WaitSound
        <5>2. o \notin ended
              BY <1>1, <5>1
        <5>. QED  BY <3>3, <4>1, <4>2, <4>4, <5>1, <5>2
      <4>. QED  BY <4>1, <4>2, <4>3, <4>4
    <3>8. ASSUME NEW s \in Scopes PROVE Relied(c, s)' = Relied(c, s) + IF First(c, s) THEN 1 ELSE 0
      <4>1. Count(activations[c], s) \in Nat
            BY ReliedType
      <4>2. /\ Relied(c, s) = Count(activations[c], s) + 0
            /\ Relied(c, s)' = Count(activations[c], s) + IF First(c, s) THEN 1 ELSE 0
            BY <3>5, <3>7 DEF Relied
      <4>. QED  BY <4>1, <4>2
    <3>. QED  BY <3>6, <3>8
  <2>. QED  BY <2>1, <2>2
<1>18. WaitSound(a)'
  <2>1. waitingObject'[a] = None
        BY <1>3, <1>11
  <2>. QED  BY <2>1 DEF WaitSound
<1>19. ASSUME NEW s \in Scopes PROVE ScopeSound(s)'
  <2>1. CASE s \notin left /\ s \notin passed
        BY <1>15, <2>1 DEF ScopeSound
  <2>2. CASE s \in left /\ s \notin passed
        BY <1>15, <2>2 DEF ScopeSound
  <2>3. CASE s \in passed
    <3>1. Head(waitingActivities[s]) # None
          BY <1>1, <1>6, <2>3
    <3>. QED  BY <1>15, <2>3, <3>1 DEF ScopeSound
  <2>. QED  BY <1>15, <2>1, <2>2, <2>3
<1>20. ASSUME NEW s \in Scopes, s \in passed PROVE Head(waitingActivities[s]) \in Activities \ {a}
       BY <1>6, <1>20
<1>. QED  BY <1>13, <1>15, <1>16, <1>17, <1>18, <1>19, <1>20 DEF left, passed, First, FirstOf

\* a gives up reservations that it has and completes messages; the first in
\* line gets a scope that is free then.
LEMMA LockDischarged ==
    ASSUME NEW a \in Activities, NEW times \in [Scopes -> Nat], NEW ended \in SUBSET Messages,
           StackInv, LockInv, OthersStay(a), Discharge(times, ended),
           state[a] \notin {"reserving", "result"}, state'[a] \notin {"reserving", "result"},
           \A s \in Scopes : /\ Count(activations'[a], s) \in Nat
                             /\ Count(activations[a], s) = Count(activations'[a], s) + times[s]
    PROVE  LockInv'
<1>1. None \notin Activities
      BY DistinctAssumption
<1>2. ASSUME NEW s \in Scopes
      PROVE  /\ Relied(a, s) = Relied(a, s)' + times[s]
             /\ Relied(a, s)' \in Nat /\ times[s] \in Nat /\ reserveCount[s] \in Nat
  <2>1. Relied(a, s) = Count(activations[a], s) + 0 /\ Relied(a, s)' = Count(activations'[a], s) + 0
        BY DEF Relied, Given
  <2>. QED  BY <2>1 DEF LockInv, LockTypes
<1>3. ASSUME NEW s \in Scopes PROVE times[s] <= reserveCount[s]
  <2>1. Relied(a, s) \in {0, reserveCount[s]}
        BY DEF LockInv, CountSound
  <2>. QED  BY <1>2, <2>1
<1>4. /\ LockTypes' /\ LinesSound'
      /\ \A c \in Activities : WaitSound(c)'
      /\ \A s \in Scopes : ScopeSound(s)'
      /\ \A c \in Activities \ {a}, s \in Scopes :
            Relied(c, s)' = Relied(c, s) + IF FirstOf(times, c, s) THEN 1 ELSE 0
      /\ \A s \in Scopes :
            \/ /\ s \notin LeftBy(times)
               /\ reservingActivity'[s] = reservingActivity[s]
               /\ reserveCount'[s] = reserveCount[s] - times[s]
            \/ /\ s \in LeftBy(times) /\ s \notin PassedBy(times)
               /\ reservingActivity'[s] = None /\ reserveCount'[s] = 0
            \/ /\ s \in LeftBy(times) /\ s \in PassedBy(times)
               /\ reservingActivity'[s] = Head(waitingActivities[s]) /\ reserveCount'[s] = 1
               /\ Head(waitingActivities[s]) \in Activities \ {a}
      BY <1>3, Discharged
<1>5. ASSUME NEW s \in Scopes, NEW c \in Activities
      PROVE  Relied(c, s) \in Nat /\ Relied(c, s) = IF reservingActivity[s] = c THEN reserveCount[s] ELSE 0
      BY ReliedType DEF LockInv, CountSound
<1>6. ASSUME NEW s \in Scopes, times[s] > 0 PROVE reservingActivity[s] = a
  <2>1. Relied(a, s) # 0
        BY <1>2, <1>6
  <2>. QED  BY <1>5, <2>1
<1>7. ASSUME NEW s \in LeftBy(times)
      PROVE  reservingActivity[s] = a /\ Relied(a, s)' = 0
  <2>1. s \in Scopes /\ times[s] > 0 /\ reserveCount[s] = times[s]
        BY <1>7 DEF LeftBy
  <2>2. Relied(a, s) = reserveCount[s]
        BY <1>5, <1>6, <2>1
  <2>. QED  BY <1>2, <1>6, <2>1, <2>2
<1>8. ASSUME NEW c \in Activities, NEW s \in Scopes PROVE CountSound(c, s)'
  <2>1. CASE s \notin LeftBy(times)
    <3>1. /\ reservingActivity'[s] = reservingActivity[s]
          /\ reserveCount'[s] = reserveCount[s] - times[s]
          BY <1>4, <2>1
    <3>2. CASE c = a
      <4>1. reservingActivity[s] # a => times[s] = 0
            BY <1>2, <1>6
      <4>. QED  BY <1>2, <1>5, <3>1, <3>2, <4>1 DEF CountSound
    <3>3. CASE c # a
      <4>1. Relied(c, s)' = Relied(c, s)
        <5>1. ~FirstOf(times, c, s)
              BY <2>1 DEF FirstOf, PassedBy
        <5>2. Relied(c, s)' = Relied(c, s) + 0 /\ Relied(c, s) \in Nat
              BY <1>4, <1>5, <3>3, <5>1
        <5>. QED  BY <5>2
      <4>2. reservingActivity[s] = c => times[s] = 0
            BY <1>2, <1>6, <3>3
      <4>. QED  BY <1>2, <1>5, <3>1, <4>1, <4>2 DEF CountSound
    <3>. QED  BY <3>2, <3>3
  <2>2. CASE s \in LeftBy(times) /\ c = a
    <3>1. reservingActivity'[s] # a
          BY <1>1, <1>4, <2>2
    <3>. QED  BY <1>7, <2>2, <3>1 DEF CountSound
  <2>3. CASE s \in LeftBy(times) /\ c # a
    <3>1. Relied(c, s) = 0
          BY <1>5, <1>7, <2>3
    <3>2. Relied(c, s)' = IF FirstOf(times, c, s) THEN 1 ELSE 0
          BY <1>4, <2>3, <3>1
    <3>3. CASE s \notin PassedBy(times)
          BY <1>1, <1>4, <2>3, <3>2, <3>3 DEF CountSound, FirstOf
    <3>4. CASE s \in PassedBy(times)
          BY <1>4, <2>3, <3>2, <3>4 DEF CountSound, FirstOf
    <3>. QED  BY <3>3, <3>4
  <2>. QED  BY <2>1, <2>2, <2>3
<1>. QED  BY <1>4, <1>8 DEF LockInv

-----------------------------------------------------------------------------
(* The stacks and the messages.                                            *)

\* One activity changes what it does.
LEMMA Became ==
    ASSUME StackInv, NEW a \in Activities, NEW st \in States, NEW stack \in Seq(Activation),
           Become(a, st, stack), StackSound(st, stack)
    PROVE  /\ StackInv'
           /\ state'[a] = st /\ activations'[a] = stack
           /\ \A c \in Activities \ {a} : state'[c] = state[c] /\ activations'[c] = activations[c]
           /\ OthersStay(a)
<1>1. /\ state' \in [Activities -> States] /\ activations' \in [Activities -> Seq(Activation)]
      /\ state'[a] = st /\ activations'[a] = stack
      /\ \A c \in Activities \ {a} : state'[c] = state[c] /\ activations'[c] = activations[c]
      BY DEF StackInv, Become
<1>2. ASSUME NEW c \in Activities PROVE StackSound(state'[c], activations'[c])
  <2>1. CASE c = a
        BY <1>1, <2>1
  <2>2. CASE c # a
        BY <1>1, <2>2 DEF StackInv
  <2>. QED  BY <2>1, <2>2
<1>. QED  BY <1>1, <1>2 DEF StackInv, OthersStay, Bystander

\* a has nothing left to send, and what its methods run for on the stack it
\* goes on with is its own; no other activity is given a message.
Sends(a, stack) ==
    /\ startActivity' \in [Messages -> Activities \cup {None}]
    /\ msgSent \subseteq msgSent' /\ msgSent' \subseteq Messages
    /\ \A m \in Messages : startActivity'[m] \in {startActivity[m], a}
    /\ \A m \in msgSent : startActivity'[m] = startActivity[m]
    /\ \A m \in Messages \ msgSent' : startActivity'[m] # a
    /\ \A m \in MessagesOf(stack) : m \in msgSent' /\ startActivity'[m] = a

\* The messages after a step of a that goes on with this stack or a part of it.
LEMMA MessagesKept ==
    ASSUME MessageInv, NEW a \in Activities, NEW stack, Sends(a, stack),
           state'[a] # "starting",
           MessagesOf(activations'[a]) \subseteq MessagesOf(stack),
           \A c \in Activities \ {a} : state'[c] = state[c] /\ activations'[c] = activations[c]
    PROVE  MessageInv'
<1>1. PendingOn(a)' = {} /\ \A m \in MessagesOf(activations'[a]) : m \in msgSent' /\ startActivity'[m] = a
      BY DEF PendingOn, Sends
<1>2. ASSUME NEW c \in Activities \ {a} PROVE PendingOn(c)' \subseteq PendingOn(c)
      BY DEF PendingOn, Sends
<1>3. ASSUME NEW c \in Activities PROVE MessageSound(c)'
  <2>1. CASE c = a
        BY <1>1, <2>1 DEF MessageSound
  <2>2. CASE c # a
    <3>1. state'[c] = state[c] /\ activations'[c] = activations[c] /\ MessageSound(c)
          BY <2>2 DEF MessageInv
    <3>2. \A m \in msgSent : m \in msgSent' /\ startActivity'[m] = startActivity[m]
          BY DEF Sends
    <3>. QED  BY <1>2, <2>2, <3>1, <3>2 DEF MessageSound
  <2>. QED  BY <2>1, <2>2
<1>. QED  BY <1>3 DEF MessageInv, Sends

-----------------------------------------------------------------------------
(* The parts of the actions.                                               *)

\* a goes on with this stack: what it had, possibly with a new activation
\* that has no scope yet.
Acts(a, stack) ==
    /\ stack \in Seq(Activation)
    /\ \A s \in Scopes : Count(stack, s) = Count(activations[a], s)
    /\ state[a] \notin {"reserving", "result"}
    /\ Sends(a, stack)

\* Activations are terminated.
LEMMA Terminated ==
    ASSUME Sound, NEW a \in Activities, NEW stack, Acts(a, stack), Unfailed(stack),
           NEW keep \in 0..Len(stack), NEW ended \in SUBSET Messages, Terminate(a, stack, keep, ended)
    PROVE  Sound'
<1>. DEFINE kept == SubSeq(stack, 1, keep)
            gone == SubSeq(stack, keep + 1, Len(stack))
            st == IF keep = 0 THEN "idle" ELSE "running"
<1>1. stack \in Seq(Activation) /\ keep \in Nat
      BY DEF Acts
<1>2. /\ kept \in Seq(Activation) /\ Len(kept) = keep
      /\ \A i \in 1..keep : kept[i] = stack[i]
      /\ Reservations(gone) \in [Scopes -> Nat]
      /\ \A s \in Scopes : /\ Count(kept, s) \in Nat
                           /\ Count(stack, s) = Count(kept, s) + Reservations(gone)[s]
      /\ MessagesOf(kept) \subseteq MessagesOf(stack)
      BY <1>1, Unwound DEF Unfailed
<1>3. Become(a, st, kept) /\ Discharge(Reservations(gone), ended)
      BY DEF Terminate, Above
<1>4. st \in States /\ st \in {"idle", "running"} /\ (st = "idle" <=> keep = 0)
      BY DEF States
<1>. HIDE DEF kept, gone, st
<1>5. StackSound(st, kept)
  <2>1. kept = <<>> <=> keep = 0
        BY <1>2
  <2>2. \A i \in 1..Len(kept) : ~kept[i].transferFailed
    <3>1. \A i \in 1..keep : i \in 1..Len(stack)
          BY <1>1
    <3>. QED  BY <1>2, <3>1 DEF Unfailed
  <2>. QED  BY <1>4, <2>1, <2>2 DEF StackSound
<1>6. /\ StackInv' /\ OthersStay(a) /\ state'[a] = st /\ activations'[a] = kept
      /\ \A c \in Activities \ {a} : state'[c] = state[c] /\ activations'[c] = activations[c]
      BY <1>2, <1>3, <1>4, <1>5, Became DEF Sound
<1>7. LockInv'
      BY <1>2, <1>3, <1>4, <1>6, LockDischarged DEF Sound, Acts
<1>8. MessageInv'
      BY <1>2, <1>4, <1>6, MessagesKept DEF Sound, Acts
<1>. QED  BY <1>6, <1>7, <1>8 DEF Sound

\* a may as well go on with a stack that forwards or tells something else.
LEMMA AlikeActs ==
    ASSUME NEW a \in Activities, NEW stack, Acts(a, stack), NEW other, Alike(stack, other)
    PROVE  Acts(a, other)
<1>1. stack \in Seq(Activation)
      BY DEF Acts
<1>2. /\ other \in Seq(Activation) /\ MessagesOf(other) = MessagesOf(stack)
      /\ \A s : Count(other, s) = Count(stack, s)
      BY <1>1, AlikeSame DEF Alike
<1>. QED  BY <1>2 DEF Acts, Sends

\* Where a condition ends a send, what it told may be left in an objnotify.
LEMMA TerminatedStale ==
    ASSUME Sound, NEW a \in Activities, NEW stack, Acts(a, stack), Unfailed(stack),
           NEW keep \in 1..Len(stack), NEW m \in Messages \cup {None}, NEW ended \in SUBSET Messages,
           Terminate(a, WithStale(stack, keep, m), keep, ended)
    PROVE  Sound'
<1>. DEFINE other == WithStale(stack, keep, m)
<1>1. stack \in Seq(Activation)
      BY DEF Acts
<1>2. Alike(stack, other)
      BY <1>1, StaleAlike
<1>. HIDE DEF other
<1>3. Acts(a, other) /\ Unfailed(other) /\ Len(other) = Len(stack)
      BY <1>1, <1>2, AlikeActs, AlikeSame DEF Alike
<1>4. keep \in 0..Len(other)
      BY <1>1, <1>3
<1>. QED  BY <1>3, <1>4, Terminated DEF other

\* An error is raised.
LEMMA Thrown ==
    ASSUME Sound, NEW a \in Activities, NEW stack, Acts(a, stack), Unfailed(stack),
           NEW most \in 0..Len(stack), Throw(a, stack, most)
    PROVE  Sound'
<1>1. stack \in Seq(Activation) /\ Len(stack) \in Nat
      BY LenProperties DEF Acts
<1>2. PICK keep \in {0} \cup {i \in 1..most : ~stack[i].forwarded} :
          Terminate(a, IF keep = 0 THEN stack ELSE WithStale(stack, keep, None), keep, Told(stack, keep))
      BY DEF Throw
<1>3. keep \in 0..Len(stack) /\ Told(stack, keep) \subseteq Messages
      BY <1>1, <1>2, ToldType
<1>4. CASE keep = 0
      BY <1>2, <1>3, <1>4, Terminated
<1>5. CASE keep # 0
  <2>1. keep \in 1..Len(stack)
        BY <1>1, <1>3, <1>5
  <2>. QED  BY <1>2, <1>3, <1>5, <2>1, TerminatedStale
<1>. QED  BY <1>4, <1>5

\* An activity goes on and the locks are left alone.
LEMMA WentOn ==
    ASSUME Sound, NEW a \in Activities, NEW stack, Acts(a, stack),
           NEW st \in States \ {"reserving", "result", "starting"}, Become(a, st, stack),
           StackSound(st, stack), UNCHANGED <<waitingObject, scopeVars, completed>>
    PROVE  Sound'
<1>1. /\ StackInv' /\ OthersStay(a) /\ state'[a] = st /\ activations'[a] = stack
      /\ \A c \in Activities \ {a} : state'[c] = state[c] /\ activations'[c] = activations[c]
      BY Became DEF Sound, Acts
<1>2. WaitSound(a)'
      BY <1>1 DEF Sound, LockInv, Acts, WaitSound
<1>3. ASSUME NEW s \in Scopes PROVE Relied(a, s)' = Relied(a, s)
      BY <1>1 DEF Relied, Given, Acts
<1>4. LockInv'
      BY <1>1, <1>2, <1>3, LockStill DEF Sound
<1>5. MessageInv'
      BY <1>1, MessagesKept DEF Sound, Acts
<1>. QED  BY <1>1, <1>4, <1>5 DEF Sound

\* A stack that a scope can be reserved for.
Ready(stack) ==
    /\ stack # <<>>
    /\ ~Has(Last(stack), Last(stack).scope)
    /\ Unfailed(stack) \/ Len(stack) = 1

\* a waits, or is refused the wait.
LEMMA WaitedFor ==
    ASSUME Sound, NEW a \in Activities, NEW stack, Acts(a, stack), stack # <<>>,
           NEW o \in Scopes \cup Messages, NEW owner, NEW st, NEW most \in 0..Len(stack),
           \/ /\ st = "reserving" /\ Ready(stack)
              /\ o \in Scopes /\ o = Last(stack).scope /\ reservingActivity[o] \notin {None, a}
           \/ st = "result" /\ Unfailed(stack) /\ o \in Messages \ completed,
           Unfailed(stack) \/ ~ReportsDeadlock(owner, a),
           WaitFor(a, o, owner, st, stack, most)
    PROVE  Sound'
<1>1. /\ stack \in Seq(Activation) /\ Len(stack) \in Nat
      /\ \A s \in Scopes : s \notin Messages
      BY DistinctAssumption DEF Acts
<1>2. CASE ReportsDeadlock(owner, a) /\ Throw(a, stack, most)
      BY <1>2, Thrown
<1>3. CASE /\ NeverReturns(owner, a)
           /\ Become(a, "overflow", stack)
           /\ UNCHANGED <<waitingObject, scopeVars, completed>>
  <2>1. StackSound("overflow", stack) /\ "overflow" \in States \ {"reserving", "result", "starting"}
        BY DEF StackSound, States, Unfailed, Ready
  <2>. QED  BY <1>3, <2>1, WentOn
<1>4. CASE /\ waitingActivities' = [waitingActivities EXCEPT ![o] = Append(@, a)]
           /\ waitingObject' = [waitingObject EXCEPT ![a] = o]
           /\ Become(a, st, stack)
           /\ UNCHANGED <<reservingActivity, reserveCount, completed>>
  <2>1. StackSound(st, stack) /\ st \in States
        BY DEF StackSound, States, Unfailed, Ready
  <2>2. /\ StackInv' /\ OthersStay(a) /\ state'[a] = st /\ activations'[a] = stack
        /\ \A c \in Activities \ {a} : state'[c] = state[c] /\ activations'[c] = activations[c]
        BY <1>1, <1>4, <2>1, Became DEF Sound
  <2>3. waitingObject[a] = None /\ waitingObject'[a] = o
        BY <1>4 DEF Sound, LockInv, LockTypes, Acts, WaitSound
  <2>4. o # None
        BY DistinctAssumption
  <2>5. WaitSound(a)'
        BY <2>2, <2>3 DEF WaitSound, Top
  <2>6. ASSUME NEW s \in Scopes PROVE Relied(a, s)' = Relied(a, s)
        BY <2>2, <2>3, <2>4 DEF Relied, Given, Acts
  <2>7. (o \in Scopes => reservingActivity[o] \notin {None, a}) /\ o \notin completed
        BY <1>1 DEF Sound, LockInv, LockTypes
  <2>8. LockInv'
        BY <1>4, <2>2, <2>3, <2>5, <2>6, <2>7, LockJoined DEF Sound
  <2>9. MessageInv'
    <3>1. state'[a] # "starting"
          BY <2>2
    <3>. QED  BY <2>2, <3>1, MessagesKept DEF Sound, Acts
  <2>. QED  BY <2>2, <2>8, <2>9 DEF Sound
<1>. QED  BY <1>2, <1>3, <1>4 DEF WaitFor

\* A stack whose scope is reserved now is that of a running activity.
LEMMA ScopedSound ==
    ASSUME NEW stack \in Seq(Activation), Ready(stack)
    PROVE  StackSound("running", WithScope(stack))
<1>. DEFINE new == WithScope(stack)
<1>1. SameButFlags(stack, new) /\ ~Last(new).transferFailed
      BY Scoped DEF Ready
<1>. HIDE DEF new
<1>2. new # <<>> /\ Len(stack) \in Nat \ {0} /\ Len(new) = Len(stack)
      BY <1>1, FrontProperties DEF SameButFlags, Ready
<1>3. ASSUME NEW i \in 1..Len(new) PROVE ~new[i].transferFailed
  <2>1. CASE i = Len(stack)
        BY <1>1, <2>1 DEF SameButFlags
  <2>2. CASE i # Len(stack)
    <3>1. i \in 1..Len(stack) - 1 /\ Len(stack) # 1 /\ i \in 1..Len(stack)
          BY <1>2, <2>2
    <3>. QED  BY <1>1, <3>1 DEF SameButFlags, Ready, Unfailed
  <2>. QED  BY <2>1, <2>2
<1>. QED  BY <1>2, <1>3 DEF StackSound, new

\* a reserves the scope of its top activation.
LEMMA Reserved ==
    ASSUME Sound, NEW a \in Activities, NEW stack, Acts(a, stack), Ready(stack), NEW most \in 0..Len(stack),
           reservingActivity[Last(stack).scope] \notin {None, a} =>
               Unfailed(stack) \/ ~ReportsDeadlock(reservingActivity[Last(stack).scope], a),
           Reserve(a, stack, most)
    PROVE  Sound'
<1>. DEFINE s == Last(stack).scope
            new == WithScope(stack)
<1>1. stack \in Seq(Activation) /\ stack # <<>> /\ ~Has(Last(stack), s)
      BY DEF Acts, Ready
<1>2. s \in Scopes
  <2>1. Last(stack) \in Activation
        BY <1>1, FrontProperties
  <2>. QED  BY <2>1 DEF Activation
<1>3. CASE /\ reservingActivity[s] \in {None, a}
           /\ reservingActivity' = [reservingActivity EXCEPT ![s] = a]
           /\ reserveCount' = [reserveCount EXCEPT ![s] = IF reservingActivity[s] = a THEN CountNested(s) ELSE 1]
           /\ Become(a, "running", new)
           /\ UNCHANGED <<waitingObject, waitingActivities, completed>>
  <2>1. /\ SameButFlags(stack, new)
        /\ ~Last(new).transferFailed
        /\ \A r : Count(new, r) = Count(stack, r) + IF r = s THEN 1 ELSE 0
        BY <1>1, Scoped
  <2>. HIDE DEF new
  <2>2. new \in Seq(Activation) /\ new # <<>> /\ MessagesOf(new) = MessagesOf(stack)
        BY <2>1 DEF SameButFlags
  <2>4. StackSound("running", new) /\ "running" \in States
        BY <1>1, ScopedSound DEF States, new
  <2>5. /\ StackInv' /\ OthersStay(a) /\ state'[a] = "running" /\ activations'[a] = new
        /\ \A c \in Activities \ {a} : state'[c] = state[c] /\ activations'[c] = activations[c]
        BY <1>3, <2>2, <2>4, Became DEF Sound
  <2>6. WaitSound(a)'
        BY <1>3, <2>5 DEF Sound, LockInv, Acts, WaitSound
  <2>7. ASSUME NEW r \in Scopes PROVE Relied(a, r)' = Relied(a, r) + IF r = s THEN 1 ELSE 0
    <3>1. /\ Count(activations[a], r) \in Nat
          /\ Count(activations'[a], r) = Count(activations[a], r) + IF r = s THEN 1 ELSE 0
          BY <2>1, <2>5, ReliedType DEF Acts, Sound
    <3>2. Relied(a, r) = Count(activations[a], r) + 0 /\ Relied(a, r)' = Count(activations'[a], r) + 0
          BY <2>5 DEF Relied, Given, Acts
    <3>. QED  BY <3>1, <3>2
  <2>8. reserveCount' = [reserveCount EXCEPT ![s] = IF reservingActivity[s] = a THEN @ + 1 ELSE 1]
        BY <1>3 DEF CountNested
  <2>9. LockInv'
        BY <1>2, <1>3, <2>5, <2>6, <2>7, <2>8, LockTaken DEF Sound
  <2>10. MessageInv'
    <3>1. state'[a] # "starting"
          BY <2>5
    <3>. QED  BY <2>2, <2>5, <3>1, MessagesKept DEF Sound, Acts
  <2>. QED  BY <2>5, <2>9, <2>10 DEF Sound
<1>4. CASE reservingActivity[s] \notin {None, a} /\ WaitFor(a, s, reservingActivity[s], "reserving", stack, most)
      BY <1>1, <1>2, <1>4, WaitedFor
<1>. QED  BY <1>3, <1>4 DEF Reserve

\* a gives up the scope of its top activation.
LEMMA GaveUp ==
    ASSUME Sound, NEW a \in Activities, Acts(a, activations[a]), activations[a] # <<>>, Unfailed(activations[a]),
           Top(a).reserved, NEW st \in {"running", "guardOn"},
           Discharge(Once(Top(a).scope), {}), Become(a, st, WithoutScope(activations[a]))
    PROVE  Sound'
<1>. DEFINE stack == activations[a]
            new == WithoutScope(stack)
            top == Last(stack)
            times == Once(top.scope)
<1>1. stack \in Seq(Activation) /\ stack # <<>> /\ Len(stack) \in Nat \ {0} /\ top = stack[Len(stack)]
      BY FrontProperties DEF Acts
<1>2. ~top.transferFailed
      BY <1>1 DEF Unfailed
<1>3. /\ SameButFlags(stack, new)
      /\ ~Last(new).reserved /\ ~Last(new).transferFailed
      /\ \A s : /\ Count(stack, s) \in Nat /\ Count(new, s) \in Nat
                /\ Count(stack, s) = Count(new, s) + IF top.reserved /\ s = top.scope THEN 1 ELSE 0
      BY <1>1, <1>2, Unscoped
<1>4. top.reserved /\ Become(a, st, new) /\ Discharge(times, {})
      BY DEF Top
<1>5. times \in [Scopes -> Nat] /\ \A s \in Scopes : times[s] = IF s = top.scope THEN 1 ELSE 0
      BY DEF Once
<1>. HIDE DEF new, times
<1>6. new \in Seq(Activation) /\ new # <<>> /\ MessagesOf(new) = MessagesOf(stack) /\ Len(new) = Len(stack)
      BY <1>3 DEF SameButFlags
<1>7. ASSUME NEW i \in 1..Len(new) PROVE ~new[i].transferFailed
  <2>1. CASE i = Len(stack)
        BY <1>3, <2>1 DEF SameButFlags
  <2>2. CASE i # Len(stack)
    <3>1. i \in 1..Len(stack) - 1 /\ i \in 1..Len(stack)
          BY <1>1, <1>6, <2>2
    <3>. QED  BY <1>3, <3>1 DEF SameButFlags, Unfailed
  <2>. QED  BY <2>1, <2>2
<1>8. StackSound(st, new) /\ st \in States
      BY <1>3, <1>6, <1>7 DEF StackSound, States
<1>9. /\ StackInv' /\ OthersStay(a) /\ state'[a] = st /\ activations'[a] = new
      /\ \A c \in Activities \ {a} : state'[c] = state[c] /\ activations'[c] = activations[c]
      BY <1>4, <1>6, <1>8, Became DEF Sound
<1>10. LockInv'
  <2>1. \A s \in Scopes : /\ Count(activations'[a], s) \in Nat
                          /\ Count(activations[a], s) = Count(activations'[a], s) + times[s]
        BY <1>3, <1>4, <1>5, <1>9
  <2>2. {} \in SUBSET Messages
        OBVIOUS
  <2>3. state[a] \notin {"reserving", "result"} /\ state'[a] \notin {"reserving", "result"}
        BY <1>9 DEF Acts
  <2>. QED  BY <1>4, <1>5, <1>9, <2>1, <2>2, <2>3, LockDischarged DEF Sound
<1>11. MessageInv'
  <2>1. state'[a] # "starting"
        BY <1>9
  <2>. QED  BY <1>6, <1>9, <2>1, MessagesKept DEF Sound, Acts
<1>. QED  BY <1>9, <1>10, <1>11 DEF Sound

-----------------------------------------------------------------------------
(* REPLY.                                                                  *)

\* A scope that a has once changes hands with the activation that replied.
LEMMA LockMoved ==
    ASSUME StackInv, LockInv, NEW a \in Activities, NEW b \in Activities, a # b, NEW s \in Scopes,
           reserveCount[s] = 1,
           state[a] \notin {"reserving", "result"}, state'[a] \notin {"reserving", "result"},
           state[b] = "idle", state'[b] = "resuming",
           \A c \in Activities \ {a, b} : state'[c] = state[c] /\ activations'[c] = activations[c],
           \A r \in Scopes : /\ Count(activations'[a], r) \in Nat
                             /\ Count(activations[a], r) = Count(activations'[a], r) + IF r = s THEN 1 ELSE 0
                             /\ Count(activations'[b], r) = IF r = s THEN 1 ELSE 0,
           reservingActivity' = [reservingActivity EXCEPT ![s] = b],
           UNCHANGED <<reserveCount, waitingActivities, waitingObject, completed>>
    PROVE  LockInv'
<1>. USE DEF LockInv
<1>1. None \notin Activities
      BY DistinctAssumption
<1>2. LockTypes'
      BY DEF LockTypes
<1>3. LinesSound'
      BY DEF LinesSound, InLine
<1>4. ASSUME NEW c \in Activities \ {a, b}
      PROVE  WaitSound(c)' /\ \A r \in Scopes : Relied(c, r)' = Relied(c, r)
  <2>1. Bystander(c)
        BY DEF Bystander
  <2>. QED  BY <2>1, BystanderRelies
<1>5. activations[b] = <<>>
      BY DEF StackInv, StackSound
<1>6. /\ waitingObject[a] = None /\ waitingObject[b] = None
      /\ WaitSound(a)' /\ WaitSound(b)'
      BY DEF WaitSound
<1>7. ASSUME NEW r \in Scopes
      PROVE  /\ Relied(a, r) = Relied(a, r)' + IF r = s THEN 1 ELSE 0
             /\ Relied(a, r)' \in Nat
             /\ Relied(b, r) = 0 /\ Relied(b, r)' = IF r = s THEN 1 ELSE 0
  <2>1. /\ Relied(a, r) = Count(activations[a], r) + 0 /\ Relied(a, r)' = Count(activations'[a], r) + 0
        /\ Relied(b, r) = Count(activations[b], r) + 0 /\ Relied(b, r)' = Count(activations'[b], r) + 0
        BY DEF Relied, Given
  <2>2. Count(activations[b], r) = 0
        BY <1>5, CountEmpty
  <2>3. Count(activations[a], r) \in Nat
        BY ReliedType
  <2>. QED  BY <2>1, <2>2, <2>3
<1>8. reservingActivity[s] = a /\ Relied(a, s)' = 0
  <2>1. Relied(a, s) # 0
        BY <1>7
  <2>2. reservingActivity[s] = a /\ Relied(a, s) = 1
        BY <2>1 DEF CountSound
  <2>. QED  BY <1>7, <2>2
<1>9. reservingActivity'[s] = b /\ \A r \in Scopes \ {s} : reservingActivity'[r] = reservingActivity[r]
      BY DEF LockTypes
<1>10. ASSUME NEW r \in Scopes PROVE ScopeSound(r)'
  <2>1. CASE r = s
        BY <1>1, <1>9, <2>1 DEF ScopeSound
  <2>2. CASE r # s
        BY <1>9, <2>2 DEF ScopeSound
  <2>. QED  BY <2>1, <2>2
<1>11. ASSUME NEW c \in Activities, NEW r \in Scopes PROVE CountSound(c, r)'
  <2>1. CASE r # s
    <3>1. Relied(c, r)' = Relied(c, r)
          BY <1>4, <1>7, <2>1
    <3>. QED  BY <1>9, <2>1, <3>1 DEF CountSound
  <2>2. CASE r = s /\ c \in {a, b}
        BY <1>7, <1>8, <1>9, <2>2 DEF CountSound
  <2>3. CASE r = s /\ c \notin {a, b}
    <3>1. Relied(c, s)' = Relied(c, s) /\ Relied(c, s) = 0
          BY <1>4, <1>8, <2>3 DEF CountSound
    <3>. QED  BY <1>9, <2>3, <3>1 DEF CountSound
  <2>. QED  BY <2>1, <2>2, <2>3
<1>12. \A c \in Activities : WaitSound(c)'
      BY <1>4, <1>6
<1>. QED  BY <1>2, <1>3, <1>10, <1>11, <1>12

\* An activity that sends no message now keeps those that it sends.
LEMMA StaySends ==
    ASSUME Sound, NEW a \in Activities, state[a] # "starting", UNCHANGED <<startActivity, msgSent>>
    PROVE  Sends(a, activations[a])
<1>1. /\ startActivity' \in [Messages -> Activities \cup {None}] /\ msgSent' \subseteq Messages
      /\ PendingOn(a) = {} /\ \A m \in MessagesOf(activations[a]) : m \in msgSent /\ startActivity[m] = a
      BY DEF Sound, MessageInv, MessageSound
<1>. QED  BY <1>1 DEF Sends, PendingOn

\* It acts with its stack.
LEMMA RunningActs ==
    ASSUME Sound, NEW a \in Activities, state[a] \notin {"starting", "reserving", "result"},
           UNCHANGED <<startActivity, msgSent>>
    PROVE  Acts(a, activations[a])
<1>1. activations[a] \in Seq(Activation)
      BY DEF Sound, StackInv
<1>. QED  BY <1>1, StaySends DEF Acts

\* A running activity has activations, none of which lost its scope.
LEMMA RunningStack ==
    ASSUME Sound, NEW a \in Activities, state[a] \in {"running", "replied", "guardOn", "guardOff", "result"}
    PROVE  /\ activations[a] \in Seq(Activation) /\ activations[a] # <<>> /\ Len(activations[a]) \in Nat \ {0}
           /\ Unfailed(activations[a]) /\ Top(a) \in Activation /\ ~Top(a).transferFailed
<1>1. activations[a] \in Seq(Activation) /\ activations[a] # <<>>
      BY DEF Sound, StackInv, StackSound
<1>2. /\ Len(activations[a]) \in Nat \ {0}
      /\ Top(a) \in Activation /\ Top(a) = activations[a][Len(activations[a])]
      BY <1>1, FrontProperties DEF Top
<1>3. Unfailed(activations[a])
      BY DEF Sound, StackInv, StackSound, Unfailed
<1>. QED  BY <1>1, <1>2, <1>3 DEF Unfailed

\* REPLY.
LEMMA ReplyStep ==
    ASSUME Sound, NEW a \in Activities, NEW b \in Activities, Reply(a, b)
    PROVE  Sound'
<1>. DEFINE stack == activations[a]
            new == WithoutScope(stack)
            top == Top(a)
            s == top.scope
            moved == [top EXCEPT !.messages = {}, !.notify = None, !.replied = TRUE,
                                 !.transferFailed = top.reserved /\ reserveCount[s] # 1]
            other == <<moved>>
<1>1. /\ state[a] = "running" /\ state[b] = "idle" /\ a # b
      /\ state' = [state EXCEPT ![a] = "replied", ![b] = "resuming"]
      /\ activations' = [activations EXCEPT ![a] = new, ![b] = other]
      /\ \/ top.reserved /\ Transfer(s, a, b)
         \/ ~top.reserved /\ UNCHANGED <<scopeVars, waitingObject, completed>>
      /\ UNCHANGED <<startActivity, msgSent>>
      BY DEF Reply
<1>2. /\ stack \in Seq(Activation) /\ stack # <<>> /\ Len(stack) \in Nat \ {0}
      /\ Unfailed(stack) /\ top \in Activation /\ ~top.transferFailed
      BY <1>1, RunningStack
<1>3. top = Last(stack) /\ s \in Scopes
      BY <1>2 DEF Top, Activation
<1>4. /\ SameButFlags(stack, new)
      /\ ~Last(new).reserved /\ ~Last(new).transferFailed
      /\ \A r : /\ Count(stack, r) \in Nat /\ Count(new, r) \in Nat
                /\ Count(stack, r) = Count(new, r) + IF top.reserved /\ r = s THEN 1 ELSE 0
      BY <1>2, <1>3, Unscoped
<1>5. /\ moved \in Activation /\ moved.messages = {} /\ moved.scope = s /\ moved.reserved = top.reserved
      /\ moved.transferFailed = (top.reserved /\ reserveCount[s] # 1)
      BY <1>2 DEF Activation
<1>. HIDE DEF new, moved
<1>6. /\ other \in Seq(Activation) /\ other # <<>> /\ Len(other) = 1 /\ other[1] = moved /\ Last(other) = moved
      /\ DOMAIN other = {1}
      BY <1>5 DEF Last
<1>7. ASSUME NEW r PROVE Count(other, r) = IF Has(moved, r) THEN 1 ELSE 0
  <2>1. {i \in 1..1 : Has(other[i], r)} = IF Has(moved, r) THEN {1} ELSE {}
    <3>1. \A i : i \in 1..1 <=> i = 1
          OBVIOUS
    <3>. QED  BY <1>6, <3>1
  <2>2. Cardinality({}) = 0 /\ Cardinality({1}) = 1
        BY FS_EmptySet, FS_Singleton
  <2>. QED  BY <1>6, <2>1, <2>2 DEF Count
<1>. HIDE DEF other
<1>8. /\ new \in Seq(Activation) /\ new # <<>> /\ Len(new) = Len(stack) /\ MessagesOf(new) = MessagesOf(stack)
      BY <1>4 DEF SameButFlags
<1>9. ASSUME NEW i \in 1..Len(new) PROVE ~new[i].transferFailed
  <2>1. CASE i = Len(stack)
        BY <1>4, <2>1 DEF SameButFlags
  <2>2. CASE i # Len(stack)
    <3>1. i \in 1..Len(stack) - 1 /\ i \in 1..Len(stack)
          BY <1>2, <1>8, <2>2
    <3>. QED  BY <1>2, <1>4, <3>1 DEF SameButFlags, Unfailed
  <2>. QED  BY <2>1, <2>2
<1>10. /\ state' \in [Activities -> States] /\ activations' \in [Activities -> Seq(Activation)]
       /\ state'[a] = "replied" /\ activations'[a] = new
       /\ state'[b] = "resuming" /\ activations'[b] = other
       /\ \A c \in Activities \ {a, b} : state'[c] = state[c] /\ activations'[c] = activations[c]
  <2>1. state' \in [Activities -> States] /\ activations' \in [Activities -> Seq(Activation)]
        BY <1>1, <1>6, <1>8 DEF Sound, StackInv, States
  <2>2. DOMAIN state = Activities /\ DOMAIN activations = Activities
        BY DEF Sound, StackInv
  <2>. QED  BY <1>1, <2>1, <2>2
<1>11. StackInv'
  <2>1. StackSound("replied", new)
        BY <1>8, <1>9 DEF StackSound
  <2>2. StackSound("resuming", other)
        BY <1>5, <1>6 DEF StackSound
  <2>3. ASSUME NEW c \in Activities PROVE StackSound(state'[c], activations'[c])
    <3>1. CASE c \in {a, b}
          BY <1>10, <2>1, <2>2, <3>1
    <3>2. CASE c \notin {a, b}
          BY <1>10, <3>2 DEF Sound, StackInv
    <3>. QED  BY <3>1, <3>2
  <2>. QED  BY <1>10, <2>3 DEF StackInv
<1>12. MessageInv'
  <2>1. \A c \in Activities : PendingOn(c)' = PendingOn(c)
        BY <1>1 DEF PendingOn
  <2>2. PendingOn(a) = {} /\ PendingOn(b) = {}
        BY <1>1 DEF Sound, MessageInv, MessageSound
  <2>3. MessagesOf(other) = {}
        BY <1>5, <1>6 DEF MessagesOf
  <2>4. ASSUME NEW c \in Activities PROVE MessageSound(c)'
    <3>1. CASE c = a
      <4>1. \A m \in MessagesOf(stack) : m \in msgSent /\ startActivity[m] = a
            BY DEF Sound, MessageInv, MessageSound
      <4>. QED  BY <1>1, <1>8, <1>10, <2>1, <2>2, <3>1, <4>1 DEF MessageSound
    <3>2. CASE c = b
          BY <1>10, <2>1, <2>2, <2>3, <3>2 DEF MessageSound
    <3>3. CASE c \notin {a, b}
      <4>1. state'[c] = state[c] /\ activations'[c] = activations[c] /\ MessageSound(c)
            BY <1>10, <3>3 DEF Sound, MessageInv
      <4>. QED  BY <1>1, <2>1, <4>1 DEF MessageSound
    <3>. QED  BY <3>1, <3>2, <3>3
  <2>. QED  BY <1>1, <2>4 DEF Sound, MessageInv
<1>13. (~top.reserved \/ reserveCount[s] # 1) => OthersStay(a)
  <2>1. ASSUME ~top.reserved \/ reserveCount[s] # 1 PROVE \A r : ~Has(moved, r)
        BY <1>5, <2>1 DEF Has
  <2>2. ASSUME ~top.reserved \/ reserveCount[s] # 1 PROVE Bystander(b)
        BY <1>1, <1>6, <1>7, <1>10, <2>1, <2>2 DEF Bystander
  <2>. QED  BY <1>10, <2>2 DEF OthersStay, Bystander
<1>14. LockInv'
  <2>1. CASE top.reserved /\ reserveCount[s] = 1
    <3>1. /\ reservingActivity' = [reservingActivity EXCEPT ![s] = b]
          /\ UNCHANGED <<reserveCount, waitingActivities, waitingObject, completed>>
          BY <1>1, <2>1 DEF Transfer
    <3>2. \A r : Has(moved, r) <=> r = s
          BY <1>5, <2>1 DEF Has
    <3>3. ASSUME NEW r \in Scopes
          PROVE  /\ Count(activations'[a], r) \in Nat
                 /\ Count(activations[a], r) = Count(activations'[a], r) + IF r = s THEN 1 ELSE 0
                 /\ Count(activations'[b], r) = IF r = s THEN 1 ELSE 0
      <4>1. /\ Count(activations'[a], r) \in Nat
            /\ Count(activations[a], r) = Count(activations'[a], r) + IF r = s THEN 1 ELSE 0
            BY <1>4, <1>10, <2>1
      <4>2. Count(activations'[b], r) = IF r = s THEN 1 ELSE 0
            BY <1>7, <1>10, <3>2
      <4>. QED  BY <4>1, <4>2
    <3>. HIDE DEF s
    <3>. QED  BY <1>1, <1>3, <1>10, <2>1, <3>1, <3>3, LockMoved DEF Sound
  <2>2. CASE top.reserved /\ reserveCount[s] # 1
    <3>. DEFINE times == Once(s)
    <3>1. Discharge(times, {})
          BY <1>1, <2>2 DEF Transfer
    <3>2. times \in [Scopes -> Nat] /\ \A r \in Scopes : times[r] = IF r = s THEN 1 ELSE 0
          BY DEF Once
    <3>. HIDE DEF times
    <3>3. \A r \in Scopes : /\ Count(activations'[a], r) \in Nat
                            /\ Count(activations[a], r) = Count(activations'[a], r) + times[r]
          BY <1>4, <1>10, <2>2, <3>2
    <3>4. {} \in SUBSET Messages
          OBVIOUS
    <3>5. state[a] \notin {"reserving", "result"} /\ state'[a] \notin {"reserving", "result"}
          BY <1>1, <1>10
    <3>. QED  BY <1>13, <2>2, <3>1, <3>2, <3>3, <3>4, <3>5, LockDischarged DEF Sound
  <2>3. CASE ~top.reserved
    <3>1. UNCHANGED <<waitingObject, scopeVars, completed>>
          BY <1>1, <2>3
    <3>2. WaitSound(a)'
          BY <1>1, <1>10, <3>1 DEF Sound, LockInv, WaitSound
    <3>3. ASSUME NEW r \in Scopes PROVE Relied(a, r)' = Relied(a, r)
      <4>1. Count(activations'[a], r) = Count(activations[a], r)
            BY <1>4, <1>10, <2>3
      <4>. QED  BY <1>1, <1>10, <4>1 DEF Relied, Given
    <3>. QED  BY <1>13, <2>3, <3>1, <3>2, <3>3, LockStill DEF Sound
  <2>. QED  BY <2>1, <2>2, <2>3
<1>. QED  BY <1>11, <1>12, <1>14 DEF Sound

-----------------------------------------------------------------------------
(* checkDeadLock.                                                          *)

\* What checkDeadLock arrives at: one hop after another.
LEMMA ArrivesStep ==
    ASSUME IsFiniteSet(Activities), NEW a \in Activities \cup {None},
           NEW startedOn \in [Messages -> Activities \cup {None}],
           waitingObject \in [Activities -> Scopes \cup Messages \cup {None}],
           reservingActivity \in [Scopes -> Activities \cup {None}]
    PROVE  LET h == Arrives(a, startedOn)
               K == Cardinality(Activities)
           IN  /\ h \in [0..K -> Activities \cup {None}]
               /\ h[0] = a
               /\ \A n \in 1..K : h[n] = Ahead(startedOn)[h[n - 1]]
<1>. DEFINE K == Cardinality(Activities)
            S == Activities \cup {None}
            g == Ahead(startedOn)
            Is(f) == f = [n \in 0..K |->
                IF n = 0 THEN a
            ELSE IF f[n - 1] = None THEN None
            ELSE IF waitingObject[f[n - 1]] = None THEN None
            ELSE OwningActivity(waitingObject[f[n - 1]], startedOn)]
<1>1. g \in [S -> S]
      BY DistinctAssumption DEF Ahead, OwningActivity
<1>2. K \in Nat
      BY FS_CardinalityType
<1>3. Arrives(a, startedOn) = CHOOSE f : Is(f)
      BY DEF Arrives
<1>4. PICK e \in [0..K -> S] : Walks(e, K, a, g)
  <2>1. a \in S
        OBVIOUS
  <2>. HIDE DEF g, S
  <2>. QED  BY <1>1, <1>2, <2>1, Iterates
<1>6. Is(e)
  <2>1. ASSUME NEW n \in 0..K
        PROVE  e[n] = (IF n = 0 THEN a
            ELSE IF e[n - 1] = None THEN None
            ELSE IF waitingObject[e[n - 1]] = None THEN None
            ELSE OwningActivity(waitingObject[e[n - 1]], startedOn))
    <3>1. CASE n = 0
          BY <1>4, <3>1 DEF Walks
    <3>2. CASE n # 0
      <4>1. n \in 1..K /\ n - 1 \in 0..K
            BY <1>2, <3>2
      <4>. QED  BY <1>4, <3>2, <4>1 DEF Ahead, Walks
    <3>. QED  BY <3>1, <3>2
  <2>. QED  BY <2>1
<1>. DEFINE h == CHOOSE f : Is(f)
<1>7. Is(h)
  <2>. HIDE DEF Is
  <2>. QED  BY <1>6
<1>. HIDE DEF h
<1>8. /\ DOMAIN h = 0..K /\ h[0] = a
      /\ h = [n \in 0..K |-> h[n]]
      /\ \A n \in 0..K : n # 0 /\ h[n - 1] \in S => h[n] = g[h[n - 1]]
  <2>1. DOMAIN h = 0..K /\ h = [n \in 0..K |-> h[n]]
        BY <1>7
  <2>2. 0 \in 0..K
        BY <1>2
  <2>3. h[0] = a
        BY <1>7, <2>2
  <2>4. ASSUME NEW n \in 0..K, n # 0, h[n - 1] \in S PROVE h[n] = g[h[n - 1]]
    <3>1. h[n] = (IF h[n - 1] = None THEN None
            ELSE IF waitingObject[h[n - 1]] = None THEN None
            ELSE OwningActivity(waitingObject[h[n - 1]], startedOn))
          BY <1>7, <2>4
    <3>. QED  BY <2>4, <3>1 DEF Ahead
  <2>. QED  BY <2>1, <2>3, <2>4
<1>9. \A n \in 0..K : h[n] \in S
  <2>. DEFINE T == {n \in 0..K : h[n] \notin S}
  <2>. SUFFICES ASSUME T # {} PROVE FALSE
       OBVIOUS
  <2>1. PICK k \in T : \A j \in T : k <= j
    <3>1. T \in SUBSET Nat
          BY <1>2
    <3>. HIDE DEF T
    <3>. QED  BY <3>1, Least
  <2>2. k \in 0..K /\ k # 0
        BY <1>8, <2>1
  <2>3. k - 1 \in 0..K /\ ~(k <= k - 1)
        BY <1>2, <2>2
  <2>4. h[k - 1] \in S
        BY <2>1, <2>3
  <2>5. h[k] \in S
        BY <1>1, <1>8, <2>2, <2>4
  <2>. QED  BY <2>1, <2>5
<1>10. h \in [0..K -> S]
      BY <1>8, <1>9
<1>11. ASSUME NEW n \in 1..K PROVE h[n] = g[h[n - 1]]
  <2>1. n \in 0..K /\ n # 0 /\ n - 1 \in 0..K
        BY <1>2
  <2>. QED  BY <1>8, <1>9, <2>1
<1>. QED  BY <1>3, <1>8, <1>10, <1>11 DEF h

\* An activity that was given a replied activation has no scope, and sends no
\* message: who waits for it waits for one that was lost.
LEMMA DeadlockForLost ==
    ASSUME IsFiniteSet(Activities), Sound, NEW b \in Activities, state[b] = "resuming",
           \A s \in Scopes : Count(activations[b], s) = 0,
           NEW owner \in Activities, UNCHANGED startActivity, ReportsDeadlock(owner, b)
    PROVE  \E m \in Messages : Lost(m) /\ startActivity[m] = b /\ waitingActivities[m] # <<>>
<1>. DEFINE h == Arrives(owner, startActivity')
            K == Cardinality(Activities)
            g == Ahead(startActivity')
<1>1. /\ None \notin Activities \cup Scopes \cup Messages
      /\ \A s \in Scopes : s \notin Messages
      BY DistinctAssumption
<1>2. /\ waitingObject \in [Activities -> Scopes \cup Messages \cup {None}]
      /\ reservingActivity \in [Scopes -> Activities \cup {None}]
      /\ startActivity' \in [Messages -> Activities \cup {None}]
      /\ startActivity' = startActivity
      BY DEF Sound, LockInv, LockTypes, MessageInv
<1>3. h \in [0..K -> Activities \cup {None}] /\ \A n \in 1..K : h[n] = g[h[n - 1]]
      BY <1>2, ArrivesStep
<1>4. PICK n \in 1..K : h[n] = b
      BY DEF ReportsDeadlock
<1>5. n - 1 \in 0..K
      BY FS_CardinalityType
<1>. DEFINE x == h[n - 1]
<1>6. x \in Activities \cup {None} /\ g[x] = b
      BY <1>3, <1>4, <1>5
<1>. HIDE DEF x
<1>7. /\ x \in Activities /\ waitingObject[x] \in Scopes \cup Messages
      /\ OwningActivity(waitingObject[x], startActivity) = b
      BY <1>1, <1>2, <1>6 DEF Ahead
<1>8. CASE waitingObject[x] \in Scopes
  <2>. DEFINE s == waitingObject[x]
  <2>1. reservingActivity[s] = b /\ s \in Scopes
        BY <1>1, <1>7, <1>8 DEF OwningActivity
  <2>2. reserveCount[s] # 0
        BY <1>1, <2>1 DEF Sound, LockInv, ScopeSound
  <2>3. Relied(b, s) = 0 + 0
        BY <2>1 DEF Relied, Given
  <2>. QED  BY <2>1, <2>2, <2>3 DEF Sound, LockInv, CountSound
<1>9. CASE waitingObject[x] \in Messages
  <2>. DEFINE m == waitingObject[x]
  <2>1. startActivity[m] = b /\ m \in Messages
        BY <1>7, <1>9 DEF OwningActivity
  <2>2. waitingActivities[m] # <<>> /\ m \notin completed
    <3>1. InLine(x, m)
          BY <1>7, <1>9 DEF Sound, LockInv, LinesSound
    <3>2. DOMAIN <<>> = {}
          OBVIOUS
    <3>3. waitingActivities[m] # <<>>
          BY <3>1, <3>2 DEF InLine, Listed
    <3>. QED  BY <3>3 DEF Sound, LockInv, LinesSound
  <2>3. m \in msgSent
        BY <2>1 DEF Sound, MessageInv, MessageSound, PendingOn
  <2>4. MessagesOf(activations[b]) = {}
    <3>1. activations[b] \in Seq(Activation) /\ Len(activations[b]) = 1 /\ Last(activations[b]).messages = {}
          BY DEF Sound, StackInv, StackSound
    <3>2. DOMAIN activations[b] = 1..1 /\ Last(activations[b]) = activations[b][1]
          BY <3>1, LenProperties DEF Last
    <3>. QED  BY <3>1, <3>2 DEF MessagesOf
  <2>5. ASSUME NEW c \in Activities PROVE m \notin MessagesOf(activations[c])
    <3>1. m \in MessagesOf(activations[c]) => startActivity[m] = c
          BY DEF Sound, MessageInv, MessageSound
    <3>. QED  BY <2>1, <2>4, <3>1
  <2>6. Lost(m)
        BY <2>2, <2>3, <2>5 DEF Lost
  <2>. QED  BY <2>1, <2>2, <2>6
<1>. QED  BY <1>7, <1>8, <1>9

-----------------------------------------------------------------------------
(* The actions.                                                            *)

\* A method begins, guarded or not.
LEMMA BeginStep ==
    ASSUME Sound, NEW a \in Activities, state[a] \in {"idle", "running", "starting"},
           NEW below, Alike(activations[a], below),
           NEW s \in Scopes, NEW guarded \in BOOLEAN, NEW ms \in SUBSET Messages, NEW m \in Messages \cup {None},
           Sends(a, Append(below, NewActivation(s, ms, m))), Begin(a, below, s, guarded, ms, m)
    PROVE  Sound'
<1>. DEFINE it == NewActivation(s, ms, m)
            stack == Append(below, it)
<1>1. /\ below \in Seq(Activation) /\ Len(below) \in Nat /\ Unfailed(below)
      /\ \A r : Count(below, r) = Count(activations[a], r)
  <2>1. activations[a] \in Seq(Activation) /\ Unfailed(activations[a])
        BY DEF Sound, StackInv, StackSound, Unfailed
  <2>. QED  BY <2>1, AlikeSame, LenProperties DEF Alike
<1>2. /\ it \in Activation /\ ~it.transferFailed /\ ~Has(it, it.scope)
      BY DEF NewActivation, Activation, Has
<1>3. /\ stack \in Seq(Activation) /\ stack # <<>> /\ Len(stack) = Len(below) + 1
      /\ Last(stack) = it
      /\ \A i \in 1..Len(below) : stack[i] = below[i]
      /\ \A r : Count(stack, r) = Count(below, r)
      /\ stack[Len(below) + 1] = it
      BY <1>1, <1>2, CountPush, PushProperties
<1>4. Acts(a, stack)
      BY <1>1, <1>3 DEF Acts
<1>5. CASE guarded /\ Reserve(a, stack, Len(stack) - 1)
  <2>. HIDE DEF it, stack
  <2>1. Unfailed(stack)
    <3>1. ASSUME NEW i \in 1..Len(stack) PROVE ~stack[i].transferFailed
      <4>1. i \in 1..Len(below) \/ i = Len(below) + 1
            BY <1>1, <1>3
      <4>. QED  BY <1>1, <1>2, <1>3, <4>1 DEF Unfailed
    <3>. QED  BY <3>1 DEF Unfailed
  <2>2. Ready(stack)
        BY <1>2, <1>3, <2>1 DEF Ready
  <2>3. Len(stack) - 1 \in 0..Len(stack)
        BY <1>1, <1>3
  <2>. QED  BY <1>4, <1>5, <2>1, <2>2, <2>3, Reserved
<1>6. CASE Become(a, "running", stack) /\ UNCHANGED <<waitingObject, scopeVars, completed>>
  <2>. HIDE DEF it, stack
  <2>1. ASSUME NEW i \in 1..Len(stack) PROVE ~stack[i].transferFailed
    <3>1. i \in 1..Len(below) \/ i = Len(below) + 1
          BY <1>1, <1>3
    <3>. QED  BY <1>1, <1>2, <1>3, <3>1 DEF Unfailed
  <2>2. StackSound("running", stack) /\ "running" \in States \ {"reserving", "result", "starting"}
        BY <1>3, <2>1 DEF StackSound, States
  <2>. QED  BY <1>4, <1>6, <2>2, WentOn
<1>. QED  BY <1>5, <1>6 DEF Begin

\* What is sent when a method is pushed.
LEMMA PushMessages ==
    ASSUME NEW below \in Seq(Activation), NEW s \in Scopes,
           NEW ms \in SUBSET Messages, NEW m \in Messages \cup {None}
    PROVE  MessagesOf(Append(below, NewActivation(s, ms, m))) \subseteq MessagesOf(below) \cup ms
<1>. DEFINE it == NewActivation(s, ms, m)
            stack == Append(below, it)
            n == Len(below)
<1>1. it \in Activation /\ it.messages = ms
      BY DEF NewActivation, Activation
<1>. HIDE DEF it
<1>2. /\ stack \in Seq(Activation) /\ Len(stack) = n + 1 /\ n \in Nat
      /\ \A i \in 1..n : stack[i] = below[i]
      /\ stack[n + 1] = it
      BY <1>1, PushProperties
<1>. HIDE DEF stack
<1>3. DOMAIN below = 1..n /\ DOMAIN stack = 1..n + 1
      BY <1>2, LenProperties
<1>. HIDE DEF n
<1>4. \A i \in 1..n + 1 : i \in 1..n \/ i = n + 1
      BY <1>2
<1>5. ASSUME NEW i \in 1..n + 1 PROVE stack[i].messages \subseteq MessagesOf(below) \cup ms
  <2>1. CASE i \in 1..n
    <3>1. below[i].messages \subseteq MessagesOf(below)
          BY <1>3, <2>1 DEF MessagesOf
    <3>. QED  BY <1>2, <2>1, <3>1
  <2>2. CASE i = n + 1
        BY <1>1, <1>2, <2>2
  <2>. QED  BY <1>4, <2>1, <2>2
<1>. QED  BY <1>3, <1>5 DEF MessagesOf, stack, it

\* A call.
LEMMA CallStep ==
    ASSUME Sound, NEW a \in Activities, NEW s \in Scopes, NEW guarded \in BOOLEAN, Call(a, s, guarded)
    PROVE  Sound'
<1>. DEFINE below == activations[a]
            stack == Append(below, NewActivation(s, {}, None))
<1>1. below \in Seq(Activation)
      BY DEF Sound, StackInv
<1>2. Sends(a, below)
      BY StaySends DEF Call
<1>3. MessagesOf(stack) \subseteq MessagesOf(below) \cup {}
      BY <1>1, PushMessages
<1>4. Sends(a, stack)
  <2>. HIDE DEF stack
  <2>. QED  BY <1>2, <1>3 DEF Sends
<1>5. Alike(below, below)
      BY <1>1 DEF Alike
<1>. QED  BY <1>4, <1>5, BeginStep DEF Call

\* A send begins a method on top of the activations, of which the last one may
\* have been changed.
LEMMA SendBegins ==
    ASSUME Sound, NEW a \in Activities, NEW ms \in SUBSET Messages, NEW m \in Messages, NEW s \in Scopes,
           NEW guarded \in BOOLEAN, NEW forward \in BOOLEAN, Send(a, ms, m, s, guarded, forward)
    PROVE  \E below \in Seq(Activation), held \in Messages \cup {None} :
              Alike(activations[a], below) /\ Begin(a, below, s, guarded, ms, held)
<1>. DEFINE old == activations[a]
            sender == IF forward THEN Forwarding(a) ELSE old
            below == IF sender = <<>> THEN sender ELSE WithStale(sender, Len(sender), None)
            held == IF forward THEN None ELSE m
<1>1. Begin(a, below, s, guarded, ms, held) /\ (state[a] = "running" \/ ~forward)
      BY DEF Send
<1>2. old \in Seq(Activation) /\ held \in Messages \cup {None}
      BY DEF Sound, StackInv
<1>3. forward => old # <<>>
      BY <1>1 DEF Sound, StackInv, StackSound
<1>4. Alike(old, sender)
  <2>1. CASE forward
    <3>1. Alike(old, Append(Front(old), [Last(old) EXCEPT !.forwarded = TRUE, !.stale = None]))
          BY <1>2, <1>3, <2>1, ForwardAlike
    <3>. QED  BY <2>1, <3>1 DEF Forwarding, Below, Top
  <2>2. CASE ~forward
        BY <1>2, <2>2 DEF Alike
  <2>. QED  BY <2>1, <2>2
<1>. HIDE DEF sender, held
<1>5. Alike(sender, below)
  <2>1. sender \in Seq(Activation)
        BY <1>4 DEF Alike
  <2>2. CASE sender = <<>>
        BY <2>1, <2>2 DEF Alike
  <2>3. CASE sender # <<>>
    <3>1. Len(sender) \in 1..Len(sender)
          BY <2>1, <2>3, FrontProperties
    <3>2. Alike(sender, WithStale(sender, Len(sender), None))
          BY <2>1, <3>1, StaleAlike
    <3>. QED  BY <2>3, <3>2
  <2>. QED  BY <2>2, <2>3
<1>. HIDE DEF below
<1>6. Alike(old, below)
      BY <1>4, <1>5 DEF Alike
<1>7. below \in Seq(Activation)
      BY <1>6 DEF Alike
<1>. QED  BY <1>1, <1>2, <1>6, <1>7

\* A message is sent, and another with it whose receiver is its SEND.
LEMMA SendStep ==
    ASSUME Sound, NEW a \in Activities, NEW ms \in SUBSET Messages, NEW m \in Messages, NEW s \in Scopes,
           NEW guarded \in BOOLEAN, NEW forward \in BOOLEAN, Send(a, ms, m, s, guarded, forward)
    PROVE  Sound'
<1>. DEFINE old == activations[a]
            started == {n \in ms : startActivity[n] = a}
<1>1. /\ m \in ms /\ ms \cap msgSent = {}
      /\ \A n \in ms \ started : startActivity[n] = None
      /\ \/ state[a] = "running"
         \/ state[a] = "starting" /\ started # {}
      /\ startActivity' = [n \in Messages |-> IF n \in ms THEN a ELSE startActivity[n]]
      /\ msgSent' = msgSent \cup ms
      BY DEF Send
<1>2. PICK below \in Seq(Activation), held \in Messages \cup {None} :
          Alike(old, below) /\ Begin(a, below, s, guarded, ms, held)
      BY SendBegins
<1>. DEFINE stack == Append(below, NewActivation(s, ms, held))
<1>3. old \in Seq(Activation)
      BY DEF Sound, StackInv
<1>4. MessagesOf(below) = MessagesOf(old) /\ below \in Seq(Activation)
      BY <1>2, <1>3, AlikeSame DEF Alike
<1>5. MessagesOf(stack) \subseteq MessagesOf(old) \cup ms
      BY <1>2, <1>4, PushMessages
<1>6. /\ startActivity \in [Messages -> Activities \cup {None}] /\ msgSent \subseteq Messages
      /\ \A n \in MessagesOf(old) : n \in msgSent /\ startActivity[n] = a
      /\ IF state[a] = "starting" THEN \A k, n \in PendingOn(a) : k = n ELSE PendingOn(a) = {}
      BY DEF Sound, MessageInv, MessageSound
<1>7. ASSUME NEW n \in Messages \ msgSent' PROVE startActivity'[n] # a
  <2>. SUFFICES ASSUME startActivity'[n] = a PROVE FALSE
       OBVIOUS
  <2>1. n \notin ms /\ n \in PendingOn(a)
        BY <1>1 DEF PendingOn
  <2>2. PICK k \in started : TRUE
        BY <1>1, <1>6, <2>1
  <2>3. k \in PendingOn(a) /\ k \in ms
        BY <1>1, <2>2 DEF PendingOn
  <2>. QED  BY <1>1, <1>6, <2>1, <2>3
<1>8. Sends(a, stack)
  <2>. HIDE DEF stack, started
  <2>1. startActivity' \in [Messages -> Activities \cup {None}]
        BY <1>1, <1>6
  <2>2. \A n \in Messages : startActivity'[n] = IF n \in ms THEN a ELSE startActivity[n]
        BY <1>1
  <2>3. \A n \in msgSent : n \in Messages /\ n \notin ms
        BY <1>1, <1>6
  <2>. QED  BY <1>1, <1>5, <1>6, <1>7, <2>1, <2>2, <2>3 DEF Sends
<1>9. state[a] \in {"idle", "running", "starting"}
       BY <1>1
<1>. QED  BY <1>2, <1>8, <1>9, BeginStep DEF stack

\* A method returns, after REPLY or without it, or fails, or raises another
\* condition.
LEMMA TerminateStep ==
    ASSUME Sound, NEW a \in Activities, Return(a) \/ RaiseError(a) \/ RaiseCondition(a) \/ ReplyReturns(a)
    PROVE  Sound'
<1>. DEFINE stack == activations[a]
            keep == Caller(stack)
            ended == MessagesOf(Above(stack, keep))
            held == stack[keep + 1].notify
<1>1. state[a] \in {"running", "replied"} /\ UNCHANGED <<startActivity, msgSent>>
      BY DEF Return, RaiseError, RaiseCondition, ReplyReturns
<1>2. /\ stack \in Seq(Activation) /\ stack # <<>> /\ Len(stack) \in Nat \ {0}
      /\ Unfailed(stack) /\ Acts(a, stack)
      BY <1>1, RunningStack, RunningActs
<1>3. keep \in 0..Len(stack) - 1
      BY <1>2, CallerType
<1>4. keep \in 0..Len(stack)
      BY <1>2, <1>3
<1>5. CASE Return(a) \/ ReplyReturns(a)
  <2>1. Terminate(a, stack, keep, ended)
        BY <1>5 DEF Return, ReplyReturns, Finish
  <2>2. ended \in SUBSET Messages
    <3>1. Above(stack, keep) \in Seq(Activation)
          BY <1>2, <1>4, SuffixProperties DEF Above
    <3>. DEFINE gone == Above(stack, keep)
    <3>. HIDE DEF gone
    <3>2. \A i \in DOMAIN gone : gone[i] \in Activation
          BY <3>1, ElementOfSeq, LenProperties DEF gone
    <3>3. MessagesOf(gone) \subseteq Messages
          BY <3>2 DEF MessagesOf, Activation
    <3>. QED  BY <3>3 DEF gone
  <2>. HIDE DEF keep, ended
  <2>. QED  BY <1>2, <1>4, <2>1, <2>2, Terminated
<1>6. CASE RaiseError(a)
  <2>1. Throw(a, stack, Len(stack)) /\ Len(stack) \in 0..Len(stack)
        BY <1>2, <1>6 DEF RaiseError
  <2>. QED  BY <1>2, <2>1, Thrown
<1>7. CASE RaiseCondition(a)
  <2>1. /\ keep # 0
        /\ Terminate(a, IF held = None THEN stack ELSE WithStale(stack, keep, held), keep, {})
        BY <1>7 DEF RaiseCondition
  <2>. HIDE DEF keep
  <2>2. keep \in 1..Len(stack) /\ keep + 1 \in 1..Len(stack)
        BY <1>2, <1>3, <2>1
  <2>3. held \in Messages \cup {None}
    <3>1. stack[keep + 1] \in Activation
          BY <1>2, <2>2, ElementOfSeq
    <3>. QED  BY <3>1 DEF Activation
  <2>4. {} \in SUBSET Messages
        OBVIOUS
  <2>. HIDE DEF held
  <2>5. CASE held = None
        BY <1>2, <1>4, <2>1, <2>4, <2>5, Terminated
  <2>6. CASE held # None
        BY <1>2, <2>1, <2>2, <2>3, <2>4, <2>6, TerminatedStale
  <2>. QED  BY <2>5, <2>6
<1>. QED  BY <1>5, <1>6, <1>7

\* The stack of an activity that was given a replied activation.
LEMMA ResumingStack ==
    ASSUME Sound, NEW b \in Activities, state[b] = "resuming"
    PROVE  /\ activations[b] \in Seq(Activation) /\ activations[b] # <<>> /\ Len(activations[b]) = 1
           /\ Top(b) = Last(activations[b]) /\ Top(b).scope \in Scopes
           /\ \A i \in 1..Len(activations[b]) : activations[b][i] = Top(b)
           /\ Top(b).transferFailed => \A r \in Scopes : Count(activations[b], r) = 0
<1>. DEFINE stack == activations[b]
<1>1. stack \in Seq(Activation) /\ stack # <<>> /\ Len(stack) = 1
      BY DEF Sound, StackInv, StackSound
<1>2. Top(b) = stack[1] /\ Top(b) = Last(stack) /\ Top(b) \in Activation
      BY <1>1, FrontProperties DEF Top
<1>3. ASSUME NEW i \in 1..Len(stack) PROVE stack[i] = Top(b)
  <2>1. i = 1
        BY <1>1
  <2>. QED  BY <1>2, <2>1
<1>4. ASSUME Top(b).transferFailed, NEW r \in Scopes PROVE Count(stack, r) = 0
  <2>1. {i \in 1..Len(stack) : Has(stack[i], r)} = {}
        BY <1>3, <1>4 DEF Has
  <2>. QED  BY <2>1, FS_EmptySet DEF Count
<1>5. Top(b).scope \in Scopes
      BY <1>2 DEF Activation
<1>. QED  BY <1>1, <1>2, <1>3, <1>4, <1>5

\* A replied activation is refused the scope that it has to reserve anew.
Refused(b) ==
    LET owner == reservingActivity[Top(b).scope]
    IN  Top(b).transferFailed /\ owner \notin {None, b} /\ ReportsDeadlock(owner, b)

\* It goes on, or waits.
LEMMA ResumeStep ==
    ASSUME Sound, NEW b \in Activities, Resume(b), ~Refused(b)
    PROVE  Sound'
<1>. DEFINE stack == activations[b]
            s == Top(b).scope
<1>1. state[b] = "resuming" /\ UNCHANGED startActivity /\ Acts(b, stack)
      BY RunningActs DEF Resume
<1>2. /\ stack \in Seq(Activation) /\ stack # <<>> /\ Len(stack) = 1
      /\ Top(b) = Last(stack) /\ s \in Scopes
      BY <1>1, ResumingStack
<1>3. \A i \in 1..Len(stack) : stack[i] = Top(b)
      BY <1>1, ResumingStack
<1>4. CASE Top(b).transferFailed /\ Reserve(b, stack, 0)
  <2>1. Ready(stack)
        BY <1>2, <1>4 DEF Ready, Has
  <2>2. reservingActivity[s] \notin {None, b} => ~ReportsDeadlock(reservingActivity[s], b)
        BY <1>4 DEF Refused
  <2>. QED  BY <1>1, <1>2, <1>4, <2>1, <2>2, Reserved
<1>5. CASE ~Top(b).transferFailed /\ Become(b, "running", stack) /\ UNCHANGED <<waitingObject, scopeVars, completed>>
  <2>1. StackSound("running", stack) /\ "running" \in States \ {"reserving", "result", "starting"}
        BY <1>2, <1>3, <1>5 DEF StackSound, States
  <2>. QED  BY <1>1, <1>5, <2>1, WentOn
<1>. QED  BY <1>4, <1>5 DEF Resume

\* The unwinding releases a scope that another activity holds, and leaves all
\* others as they are.
LEMMA RefusedStep ==
    ASSUME Sound, NEW b \in Activities, NEW s \in Scopes, s = Top(b).scope, Resume(b), Refused(b)
    PROVE  /\ StackInv' /\ MessageInv' /\ LockBut({s})'
           /\ state'[b] = "idle"
<1>. DEFINE stack == activations[b]
            top == Top(b)
            times == Reservations(Above(stack, 0))
            ended == Told(stack, 0)
<1>1. state[b] = "resuming" /\ Acts(b, stack)
      BY RunningActs DEF Resume
<1>2. /\ stack \in Seq(Activation) /\ stack # <<>> /\ Len(stack) = 1
      /\ top = Last(stack) /\ top.scope = s /\ top.transferFailed
      BY <1>1, ResumingStack DEF Refused
<1>3. \A r \in Scopes : Count(stack, r) = 0
      BY <1>1, <1>2, ResumingStack
<1>4. Terminate(b, stack, 0, ended)
  <2>1. Throw(b, stack, 0)
    <3>. DEFINE owner == reservingActivity[s]
    <3>1. top.transferFailed /\ Last(stack).scope = s /\ owner \notin {None, b} /\ ReportsDeadlock(owner, b)
          BY <1>2 DEF Refused
    <3>2. Reserve(b, stack, 0)
          BY <3>1 DEF Resume
    <3>3. WaitFor(b, s, owner, "reserving", stack, 0)
          BY <3>1, <3>2 DEF Reserve
    <3>. HIDE DEF owner
    <3>. QED  BY <3>1, <3>3 DEF WaitFor, NeverReturns
  <2>2. PICK keep \in {0} \cup {i \in 1..0 : ~stack[i].forwarded} :
            Terminate(b, IF keep = 0 THEN stack ELSE WithStale(stack, keep, None), keep, Told(stack, keep))
        BY <2>1 DEF Throw
  <2>3. keep = 0
        OBVIOUS
  <2>. QED  BY <2>2, <2>3
<1>5. ended \in SUBSET Messages
  <2>1. 0 \in 0..Len(stack)
        BY <1>2
  <2>. QED  BY <1>2, <2>1, ToldType
<1>6. times \in [Scopes -> Nat] /\ \A r \in Scopes : times[r] <= IF r = s THEN 1 ELSE 0
  <2>. DEFINE gone == Above(stack, 0)
  <2>1. gone \in Seq(Activation) /\ Len(gone) = 1 /\ gone[1] = top
    <3>1. 0 \in 0..Len(stack) /\ Len(stack) - 0 = 1 /\ 1 \in 1..1 /\ 0 + 1 = 1
          BY <1>2
    <3>2. top = stack[1]
          BY <1>2 DEF Last
    <3>. QED  BY <1>2, <3>1, <3>2, SuffixProperties DEF Above
  <2>. HIDE DEF gone
  <2>2. DOMAIN gone = {1}
    <3>1. DOMAIN gone = 1..1
          BY <2>1, LenProperties
    <3>. QED  BY <3>1
  <2>3. ASSUME NEW r \in Scopes
        PROVE  Reservations(gone)[r] \in Nat /\ Reservations(gone)[r] <= IF r = s THEN 1 ELSE 0
    <3>. DEFINE P == {i \in DOMAIN gone : gone[i].scope = r /\ gone[i].reserved}
    <3>1. Reservations(gone)[r] = Cardinality(P)
          BY DEF Reservations, Quantify
    <3>2. P = {} \/ (P = {1} /\ r = s)
          BY <2>1, <2>2
    <3>. HIDE DEF P
    <3>3. Cardinality({}) = 0 /\ Cardinality({1}) = 1
          BY FS_EmptySet, FS_Singleton
    <3>. QED  BY <3>1, <3>2, <3>3
  <2>4. Reservations(gone) = [r \in Scopes |-> Reservations(gone)[r]]
        BY DEF Reservations
  <2>5. Reservations(gone) \in [Scopes -> Nat]
        BY <2>3, <2>4
  <2>. QED  BY <2>3, <2>5 DEF gone
<1>7. Become(b, "idle", <<>>) /\ Discharge(times, ended)
  <2>1. SubSeq(stack, 1, 0) = <<>>
        BY <1>2, EmptySeq, PrefixProperties
  <2>. QED  BY <1>4, <2>1 DEF Terminate
<1>. HIDE DEF times, ended
<1>8. /\ StackInv' /\ OthersStay(b) /\ state'[b] = "idle" /\ activations'[b] = <<>>
      /\ \A c \in Activities \ {b} : state'[c] = state[c] /\ activations'[c] = activations[c]
  <2>1. StackSound("idle", <<>>) /\ "idle" \in States /\ <<>> \in Seq(Activation)
        BY DEF StackSound, States
  <2>. QED  BY <1>7, <2>1, Became DEF Sound
<1>9. MessageInv'
  <2>1. MessagesOf(<<>>) = {}
        BY DEF MessagesOf
  <2>. QED  BY <1>1, <1>8, <2>1, MessagesKept DEF Sound, Acts
<1>10. \A r \in Scopes : times[r] \in Nat /\ reserveCount[r] \in Nat /\ times[r] <= reserveCount[r]
  <2>1. ASSUME NEW r \in Scopes PROVE times[r] \in Nat /\ reserveCount[r] \in Nat
        BY <1>6 DEF Sound, LockInv, LockTypes
  <2>2. reserveCount[s] # 0
        BY <1>2 DEF Refused, Sound, LockInv, ScopeSound
  <2>. QED  BY <1>2, <1>6, <2>1, <2>2
<1>11. state[b] \notin {"reserving", "result"} /\ state'[b] \notin {"reserving", "result"}
       BY <1>1, <1>8
<1>12. /\ LockTypes' /\ LinesSound'
       /\ \A c \in Activities : WaitSound(c)'
       /\ \A r \in Scopes : ScopeSound(r)'
       /\ \A c \in Activities \ {b}, r \in Scopes :
             Relied(c, r)' = Relied(c, r) + IF FirstOf(times, c, r) THEN 1 ELSE 0
       /\ \A r \in Scopes : r \notin LeftBy(times) =>
             /\ reservingActivity'[r] = reservingActivity[r]
             /\ reserveCount'[r] = reserveCount[r] - times[r]
       BY <1>5, <1>6, <1>7, <1>8, <1>10, <1>11, Discharged DEF Sound
<1>13. ASSUME NEW c \in Activities, NEW r \in Scopes \ {s} PROVE CountSound(c, r)'
  <2>1. times[r] = 0
        BY <1>6, <1>10
  <2>2. r \notin LeftBy(times) /\ ~FirstOf(times, c, r)
        BY <2>1 DEF LeftBy, PassedBy, FirstOf
  <2>3. reservingActivity'[r] = reservingActivity[r] /\ reserveCount'[r] = reserveCount[r]
        BY <1>10, <1>12, <2>1, <2>2
  <2>4. Relied(c, r)' = Relied(c, r)
    <3>1. CASE c = b
      <4>1. Relied(b, r) = Count(stack, r) + 0 /\ Relied(b, r)' = Count(<<>>, r) + 0
            BY <1>1, <1>8 DEF Relied, Given
      <4>. QED  BY <1>3, <3>1, <4>1, CountEmpty
    <3>2. CASE c # b
      <4>1. Relied(c, r)' = Relied(c, r) + 0 /\ Relied(c, r) \in Nat
            BY <1>12, <2>2, <3>2, ReliedType DEF Sound
      <4>. QED  BY <4>1
    <3>. QED  BY <3>1, <3>2
  <2>. QED  BY <2>3, <2>4 DEF Sound, LockInv, CountSound
<1>. QED  BY <1>8, <1>9, <1>12, <1>13 DEF LockBut

\* The scope was handed to the activity that waited for it.
LEMMA ReserveReturnsStep ==
    ASSUME Sound, NEW a \in Activities, ReserveReturns(a)
    PROVE  Sound'
<1>. DEFINE stack == activations[a]
            new == WithScope(stack)
            s == Last(stack).scope
<1>1. /\ state[a] = "reserving" /\ waitingObject[a] = None /\ Become(a, "running", new)
      /\ UNCHANGED <<waitingObject, scopeVars, messageVars>>
      BY DEF ReserveReturns
<1>2. stack \in Seq(Activation) /\ Ready(stack) /\ stack # <<>> /\ ~Has(Last(stack), s)
      BY <1>1 DEF Sound, StackInv, StackSound, Ready, Unfailed
<1>3. /\ SameButFlags(stack, new) /\ StackSound("running", new)
      /\ \A r : Count(new, r) = Count(stack, r) + IF r = s THEN 1 ELSE 0
      BY <1>2, Scoped, ScopedSound
<1>4. Sends(a, stack) /\ completed' = completed
      BY <1>1, StaySends DEF messageVars
<1>. HIDE DEF new
<1>5. new \in Seq(Activation) /\ MessagesOf(new) = MessagesOf(stack) /\ "running" \in States
      BY <1>3 DEF SameButFlags, States
<1>6. /\ StackInv' /\ OthersStay(a) /\ state'[a] = "running" /\ activations'[a] = new
      /\ \A c \in Activities \ {a} : state'[c] = state[c] /\ activations'[c] = activations[c]
      BY <1>1, <1>3, <1>5, Became DEF Sound
<1>7. WaitSound(a)'
      BY <1>1, <1>6 DEF WaitSound
<1>8. ASSUME NEW r \in Scopes PROVE Relied(a, r)' = Relied(a, r)
  <2>1. Count(stack, r) \in Nat
        BY <1>2, CountType
  <2>2. Relied(a, r) = Count(stack, r) + IF r = s THEN 1 ELSE 0
        BY <1>1 DEF Relied, Given, Top
  <2>3. Relied(a, r)' = Count(new, r) + 0
        BY <1>6 DEF Relied, Given
  <2>. QED  BY <1>3, <2>1, <2>2, <2>3
<1>9. LockInv'
      BY <1>1, <1>4, <1>6, <1>7, <1>8, LockStill DEF Sound
<1>10. MessageInv'
  <2>1. state'[a] # "starting" /\ MessagesOf(activations'[a]) \subseteq MessagesOf(stack)
        BY <1>5, <1>6
  <2>. QED  BY <1>4, <1>6, <2>1, MessagesKept DEF Sound
<1>. QED  BY <1>6, <1>9, <1>10 DEF Sound

\* The message completed for which the activity waited.
LEMMA ResultReturnsStep ==
    ASSUME Sound, NEW a \in Activities, ResultReturns(a)
    PROVE  Sound'
<1>. DEFINE stack == activations[a]
<1>1. /\ state[a] = "result" /\ waitingObject[a] = None /\ Become(a, "running", stack)
      /\ UNCHANGED <<waitingObject, scopeVars, messageVars>>
      BY DEF ResultReturns
<1>2. stack \in Seq(Activation) /\ StackSound("running", stack) /\ "running" \in States
      BY <1>1 DEF Sound, StackInv, StackSound, States
<1>3. Sends(a, stack) /\ completed' = completed
      BY <1>1, StaySends DEF messageVars
<1>4. /\ StackInv' /\ OthersStay(a) /\ state'[a] = "running" /\ activations'[a] = stack
      /\ \A c \in Activities \ {a} : state'[c] = state[c] /\ activations'[c] = activations[c]
      BY <1>1, <1>2, Became DEF Sound
<1>5. WaitSound(a)'
      BY <1>1, <1>4 DEF WaitSound
<1>6. ASSUME NEW r \in Scopes PROVE Relied(a, r)' = Relied(a, r)
      BY <1>1, <1>4 DEF Relied, Given
<1>7. LockInv'
      BY <1>1, <1>3, <1>4, <1>5, <1>6, LockStill DEF Sound
<1>8. MessageInv'
  <2>1. state'[a] # "starting" /\ MessagesOf(activations'[a]) \subseteq MessagesOf(stack)
        BY <1>4
  <2>. QED  BY <1>3, <1>4, <2>1, MessagesKept DEF Sound
<1>. QED  BY <1>4, <1>7, <1>8 DEF Sound

\* GUARD ON, and the end of a wait in GUARD ... WHEN.
LEMMA GuardOnStep ==
    ASSUME Sound, NEW a \in Activities, GuardOn(a) \/ GuardWaitReturns(a)
    PROVE  Sound'
<1>. DEFINE stack == activations[a]
<1>1. state[a] \in {"running", "guardOn", "guardOff"} /\ UNCHANGED <<startActivity, msgSent>>
      BY DEF GuardOn, GuardWaitReturns
<1>2. /\ stack \in Seq(Activation) /\ stack # <<>> /\ Len(stack) \in Nat \ {0} /\ Unfailed(stack)
      /\ Acts(a, stack)
      BY <1>1, RunningStack, RunningActs
<1>3. CASE ~Top(a).reserved /\ Reserve(a, stack, Len(stack))
  <2>1. Ready(stack)
        BY <1>2, <1>3 DEF Ready, Has, Top
  <2>2. Len(stack) \in 0..Len(stack)
        BY <1>2
  <2>. QED  BY <1>2, <1>3, <2>1, <2>2, Reserved
<1>4. CASE Become(a, "running", stack) /\ UNCHANGED <<waitingObject, scopeVars, completed>>
  <2>1. StackSound("running", stack) /\ "running" \in States \ {"reserving", "result", "starting"}
        BY <1>2 DEF StackSound, Unfailed, States
  <2>. QED  BY <1>2, <1>4, <2>1, WentOn
<1>5. state[a] = "guardOn" => ~Top(a).reserved
      BY DEF Sound, StackInv, StackSound, Top
<1>. QED  BY <1>3, <1>4, <1>5 DEF GuardOn, GuardWaitReturns

\* GUARD OFF, and a wait in GUARD ... WHEN.
LEMMA GuardOffStep ==
    ASSUME Sound, NEW a \in Activities, GuardOff(a) \/ GuardWait(a)
    PROVE  Sound'
<1>. DEFINE stack == activations[a]
<1>1. state[a] = "running" /\ UNCHANGED <<startActivity, msgSent>>
      BY DEF GuardOff, GuardWait
<1>2. /\ stack \in Seq(Activation) /\ stack # <<>> /\ Unfailed(stack) /\ Acts(a, stack)
      BY <1>1, RunningStack, RunningActs
<1>3. ASSUME NEW st \in {"running", "guardOn"}, Top(a).reserved, Discharge(Once(Top(a).scope), {}),
             Become(a, st, WithoutScope(stack))
      PROVE  Sound'
      BY <1>2, <1>3, GaveUp
<1>4. CASE ~Top(a).reserved /\ Become(a, "guardOff", stack) /\ UNCHANGED <<waitingObject, scopeVars, completed>>
  <2>1. StackSound("guardOff", stack) /\ "guardOff" \in States \ {"reserving", "result", "starting"}
        BY <1>2 DEF StackSound, Unfailed, States
  <2>. QED  BY <1>2, <1>4, <2>1, WentOn
<1>. QED  BY <1>3, <1>4 DEF GuardOff, GuardWait

\* A message is started: another activity is to send it.
LEMMA StartStep ==
    ASSUME Sound, NEW a \in Activities, NEW m \in Messages, NEW b \in Activities, Start(a, m, b)
    PROVE  Sound'
<1>1. None \notin Activities
      BY DistinctAssumption
<1>2. /\ state[a] = "running" /\ state[b] = "idle" /\ a # b /\ startActivity[m] = None
      /\ startActivity' = [startActivity EXCEPT ![m] = b]
      /\ state' = [state EXCEPT ![b] = "starting"]
      /\ UNCHANGED <<activations, waitingObject, scopeVars, msgSent, completed>>
      BY DEF Start
<1>3. /\ state' \in [Activities -> States] /\ state'[b] = "starting"
      /\ \A c \in Activities \ {b} : state'[c] = state[c]
      /\ activations' = activations /\ activations[b] = <<>>
      BY <1>2 DEF Sound, StackInv, StackSound, States
<1>4. StackInv'
  <2>1. ASSUME NEW c \in Activities PROVE StackSound(state'[c], activations'[c])
    <3>1. CASE c = b
          BY <1>2, <1>3, <3>1 DEF Sound, StackInv, StackSound
    <3>2. CASE c # b
          BY <1>3, <3>2 DEF Sound, StackInv
    <3>. QED  BY <3>1, <3>2
  <2>. QED  BY <1>3, <2>1 DEF Sound, StackInv
<1>5. LockInv'
  <2>1. Bystander(b)
    <3>1. activations'[b] \in Seq(Activation) /\ \A s \in Scopes : Count(activations'[b], s) = 0
          BY <1>3, CountEmpty
    <3>. QED  BY <1>2, <1>3, <3>1 DEF Bystander
  <2>2. OthersStay(a)
        BY <1>3, <2>1 DEF OthersStay, Bystander
  <2>3. WaitSound(a)' /\ \A s \in Scopes : Relied(a, s)' = Relied(a, s)
    <3>1. state'[a] = state[a] /\ activations'[a] = activations[a] /\ waitingObject'[a] = waitingObject[a]
          BY <1>2, <1>3
    <3>. QED  BY <3>1 DEF Sound, LockInv, WaitSound, Relied, Given, Top
  <2>. QED  BY <1>2, <2>2, <2>3, LockStill DEF Sound
<1>6. MessageInv'
  <2>1. /\ startActivity' \in [Messages -> Activities \cup {None}]
        /\ \A n \in Messages : startActivity'[n] = IF n = m THEN b ELSE startActivity[n]
        BY <1>2 DEF Sound, MessageInv
  <2>2. PendingOn(b)' \subseteq {m} /\ MessagesOf(activations'[b]) = {}
    <3>1. MessagesOf(<<>>) = {}
          BY DEF MessagesOf
    <3>2. PendingOn(b) = {}
          BY <1>2 DEF Sound, MessageInv, MessageSound
    <3>. QED  BY <1>2, <1>3, <2>1, <3>1, <3>2 DEF PendingOn
  <2>3. ASSUME NEW c \in Activities \ {b} PROVE PendingOn(c)' \subseteq PendingOn(c)
        BY <1>2, <2>1 DEF PendingOn
  <2>4. ASSUME NEW c \in Activities PROVE MessageSound(c)'
    <3>1. CASE c = b
          BY <1>3, <2>2, <3>1 DEF MessageSound
    <3>2. CASE c # b
      <4>1. state'[c] = state[c] /\ activations'[c] = activations[c] /\ MessageSound(c)
            BY <1>3, <3>2 DEF Sound, MessageInv
      <4>2. \A n \in MessagesOf(activations[c]) : n \in msgSent' /\ startActivity'[n] = c
        <5>1. \A n \in MessagesOf(activations[c]) : n \in msgSent /\ n \in Messages /\ startActivity[n] = c
              BY <4>1 DEF MessageSound, Sound, MessageInv
        <5>. QED  BY <1>1, <1>2, <2>1, <5>1
      <4>. QED  BY <2>3, <3>2, <4>1, <4>2 DEF MessageSound
    <3>. QED  BY <3>1, <3>2
  <2>. QED  BY <1>2, <2>1, <2>4 DEF MessageInv, Sound
<1>. QED  BY <1>4, <1>5, <1>6 DEF Sound

\* RexxMessage::result.
LEMMA ResultStep ==
    ASSUME Sound, NEW a \in Activities, NEW m \in Messages, Result(a, m)
    PROVE  Sound'
<1>. DEFINE stack == activations[a]
<1>1. /\ state[a] = "running" /\ m \notin completed /\ UNCHANGED <<startActivity, msgSent>>
      /\ WaitFor(a, m, startActivity[m], "result", stack, Len(stack))
      BY DEF Result
<1>2. stack # <<>> /\ Len(stack) \in Nat /\ Unfailed(stack) /\ Acts(a, stack)
      BY <1>1, RunningStack, RunningActs
<1>3. Len(stack) \in 0..Len(stack)
      BY <1>2
<1>. QED  BY <1>1, <1>2, <1>3, WaitedFor

\* Every other step than a refused reply keeps everything.
LEMMA StepSound ==
    ASSUME IsFiniteSet(Activities), Sound, NEW a \in Activities, Step(a), Resume(a) => ~Refused(a)
    PROVE  Sound'
<1>1. ASSUME NEW s \in Scopes, NEW guarded \in BOOLEAN, Call(a, s, guarded) PROVE Sound'
      BY <1>1, CallStep
<1>2. CASE Return(a) \/ RaiseError(a) \/ RaiseCondition(a) \/ ReplyReturns(a)
      BY <1>2, TerminateStep
<1>3. ASSUME NEW b \in Activities, Reply(a, b) PROVE Sound'
      BY <1>3, ReplyStep
<1>4. CASE Resume(a)
      BY <1>4, ResumeStep
<1>5. CASE ReserveReturns(a)
      BY <1>5, ReserveReturnsStep
<1>6. CASE GuardOn(a) \/ GuardWaitReturns(a)
      BY <1>6, GuardOnStep
<1>7. CASE GuardOff(a) \/ GuardWait(a)
      BY <1>7, GuardOffStep
<1>8. ASSUME NEW m \in Messages, NEW b \in Activities, Start(a, m, b) PROVE Sound'
      BY <1>8, StartStep
<1>9. ASSUME NEW ms \in SUBSET Messages, NEW m \in Messages, NEW s \in Scopes,
             NEW guarded \in BOOLEAN, NEW forward \in BOOLEAN, Send(a, ms, m, s, guarded, forward)
      PROVE  Sound'
      BY <1>9, SendStep
<1>10. ASSUME NEW m \in Messages, Result(a, m) PROVE Sound'
      BY <1>10, ResultStep
<1>11. CASE ResultReturns(a)
      BY <1>11, ResultReturnsStep
<1>. QED  BY <1>1, <1>2, <1>3, <1>4, <1>5, <1>6, <1>7, <1>8, <1>9, <1>10, <1>11 DEF Step

\* As long as no scope is spoilt, the invariant is everything.
LEMMA SoundBefore ==
    ASSUME IInv, spoilt = {}
    PROVE  Sound
BY DEF IInv, LockBut, Sound, LockInv

\* Every step keeps the invariant.
LEMMA IInvStep ==
    ASSUME IsFiniteSet(Activities), IInv, [Next]_vars
    PROVE  IInv'
<1>1. CASE UNCHANGED vars
  <2>1. /\ state' = state /\ activations' = activations /\ waitingObject' = waitingObject
        /\ reservingActivity' = reservingActivity /\ reserveCount' = reserveCount
        /\ waitingActivities' = waitingActivities /\ startActivity' = startActivity /\ msgSent' = msgSent
        /\ completed' = completed /\ spoilt' = spoilt
        BY <1>1 DEF vars, activityVars, scopeVars, messageVars
  <2>2. StackInv'
        BY <2>1 DEF IInv, StackInv
  <2>3. LockBut(spoilt)'
        BY <2>1 DEF IInv, LockBut, LockTypes, LinesSound, InLine, WaitSound, Top, ScopeSound, CountSound, Relied, Given
  <2>4. MessageInv'
        BY <2>1 DEF IInv, MessageInv, MessageSound, PendingOn
  <2>. QED  BY <2>1, <2>2, <2>3, <2>4 DEF IInv
<1>2. CASE Next
  <2>1. /\ spoilt = {}
        /\ spoilt' = {Top(b).scope : b \in {c \in Activities : state[c] = "resuming" /\ state'[c] = "idle"}}
        BY <1>2 DEF Next
  <2>2. PICK a \in Activities : Step(a)
        BY <1>2 DEF Next
  <2>3. Sound
        BY <2>1, SoundBefore
  <2>4. spoilt' \subseteq Scopes
        BY <2>1, <2>3, ResumingStack
  <2>5. CASE Resume(a) /\ Refused(a)
    <3>1. PICK s \in Scopes : s = Top(a).scope
          BY <2>3, <2>5, ResumingStack DEF Resume
    <3>2. StackInv' /\ MessageInv' /\ LockBut({s})' /\ state'[a] = "idle"
          BY <2>3, <2>5, <3>1, RefusedStep
    <3>3. s \in spoilt'
          BY <2>1, <2>5, <3>1, <3>2 DEF Resume
    <3>4. LockBut(spoilt)'
          BY <3>2, <3>3 DEF LockBut
    <3>. QED  BY <2>4, <3>2, <3>4 DEF IInv
  <2>6. CASE ~(Resume(a) /\ Refused(a))
    <3>1. Sound'
          BY <2>2, <2>3, <2>6, StepSound
    <3>. QED  BY <2>4, <3>1 DEF IInv, LockBut, Sound, LockInv
  <2>. QED  BY <2>5, <2>6
<1>. QED  BY <1>1, <1>2

\* Nothing runs at first.
LEMMA InitIInv == Init => IInv
<1>. SUFFICES ASSUME Init PROVE IInv
     OBVIOUS
<1>1. /\ \A a \in Activities : state[a] = "idle" /\ activations[a] = <<>> /\ waitingObject[a] = None
      /\ \A s \in Scopes : reservingActivity[s] = None /\ reserveCount[s] = 0 /\ waitingActivities[s] = <<>>
      /\ \A o \in Scopes \cup Messages : waitingActivities[o] = <<>>
      /\ \A m \in Messages : startActivity[m] = None
      /\ msgSent = {} /\ completed = {} /\ spoilt = {}
      BY DEF Init
<1>2. None \notin Activities \cup Scopes \cup Messages
      BY DistinctAssumption
<1>3. StackInv
  <2>1. state \in [Activities -> States] /\ activations \in [Activities -> Seq(Activation)]
        BY DEF Init, States
  <2>2. StackSound("idle", <<>>)
        BY DEF StackSound
  <2>. QED  BY <1>1, <2>1, <2>2 DEF StackInv
<1>4. LockInv
  <2>1. LockTypes
        BY DEF Init, LockTypes
  <2>2. LinesSound
    <3>1. DOMAIN <<>> = {}
          OBVIOUS
    <3>. QED  BY <1>1, <1>2, <3>1 DEF LinesSound, InLine, Listed, NoRepeats
  <2>3. \A a \in Activities : WaitSound(a)
        BY <1>1 DEF WaitSound
  <2>4. \A s \in Scopes : ScopeSound(s)
        BY <1>1 DEF ScopeSound
  <2>5. ASSUME NEW a \in Activities, NEW s \in Scopes PROVE CountSound(a, s)
    <3>1. Relied(a, s) = 0 + 0
          BY <1>1, CountEmpty DEF Relied, Given
    <3>. QED  BY <1>1, <1>2, <3>1 DEF CountSound
  <2>. QED  BY <2>1, <2>2, <2>3, <2>4, <2>5 DEF LockInv
<1>5. MessageInv
  <2>1. startActivity \in [Messages -> Activities \cup {None}]
        BY DEF Init
  <2>2. ASSUME NEW a \in Activities PROVE MessageSound(a)
    <3>1. PendingOn(a) = {} /\ MessagesOf(<<>>) = {}
          BY <1>1, <1>2 DEF PendingOn, MessagesOf
    <3>. QED  BY <1>1, <3>1 DEF MessageSound
  <2>. QED  BY <1>1, <2>1, <2>2 DEF MessageInv
<1>. QED  BY <1>1, <1>3, <1>4, <1>5 DEF IInv, LockBut, LockInv

-----------------------------------------------------------------------------
(* The theorems.                                                           *)

\* The invariant is one, for finitely many activities.
THEOREM Invariance == IsFiniteSet(Activities) /\ Spec => []IInv
<1>. SUFFICES ASSUME IsFiniteSet(Activities) PROVE Spec => []IInv
     OBVIOUS
<1>1. Init => IInv
      BY InitIInv
<1>2. IInv /\ [Next]_vars => IInv'
      BY IInvStep
<1>. QED  BY <1>1, <1>2, PTL DEF Spec

\* Every variable keeps its type.
THEOREM TypeCorrect == IsFiniteSet(Activities) /\ Spec => []TypeOK
<1>. SUFFICES ASSUME IsFiniteSet(Activities) PROVE Spec => []TypeOK
     OBVIOUS
<1>1. IInv => TypeOK
      BY DEF IInv, StackInv, LockBut, LockTypes, MessageInv, TypeOK
<1>. QED  BY <1>1, Invariance, PTL

\* Guarded methods exclude each other and reserveCount counts the reservations
\* of the holder (reserve, release, transfer), but for the scope of a reply
\* that was refused.
THEOREM Counted == IsFiniteSet(Activities) /\ Spec => []ReservationsCounted
<1>. SUFFICES ASSUME IsFiniteSet(Activities) PROVE Spec => []ReservationsCounted
     OBVIOUS
<1>1. ASSUME IInv PROVE ReservationsCounted
  <2>1. ASSUME NEW s \in Scopes \ spoilt, NEW a \in Activities
        PROVE  ReliesOn(a, s) = IF reservingActivity[s] = a THEN reserveCount[s] ELSE 0
    <3>. DEFINE B == {i \in DOMAIN activations[a] : Has(activations[a][i], s)}
    <3>1. DOMAIN activations[a] = 1..Len(activations[a])
          BY <1>1, LenProperties DEF IInv, StackInv
    <3>2. ReliesOn(a, s) = Cardinality(B) + IF Given(a, s) THEN 1 ELSE 0
          BY DEF ReliesOn, Quantify, Has, Given
    <3>3. Count(activations[a], s) = Cardinality(B)
          BY <3>1 DEF Count
    <3>. HIDE DEF B
    <3>4. ReliesOn(a, s) = Relied(a, s)
          BY <3>2, <3>3 DEF Relied
    <3>. QED  BY <1>1, <3>4 DEF IInv, LockBut, CountSound
  <2>. QED  BY <2>1 DEF ReservationsCounted
<1>. QED  BY <1>1, Invariance, PTL

\* No wakeup is lost: who waits is in one line, once, and the line has someone
\* who will wake it (release, sendNotification).
THEOREM Listing == IsFiniteSet(Activities) /\ Spec => []WaitersAreListed
<1>. SUFFICES ASSUME IsFiniteSet(Activities) PROVE Spec => []WaitersAreListed
     OBVIOUS
<1>1. ASSUME IInv PROVE WaitersAreListed
  <2>1. ASSUME NEW a \in Activities, NEW o \in Scopes \cup Messages
        PROVE  Quantify(DOMAIN waitingActivities[o], LAMBDA i : waitingActivities[o][i] = a)
                   = IF waitingObject[a] = o THEN 1 ELSE 0
    <3>. DEFINE c == waitingActivities[o]
                P == {i \in DOMAIN c : c[i] = a}
    <3>1. NoRepeats(c) /\ (Listed(a, c) <=> waitingObject[a] = o)
          BY <1>1 DEF IInv, LockBut, LinesSound, InLine
    <3>2. CASE waitingObject[a] = o
      <4>1. PICK i \in DOMAIN c : c[i] = a
            BY <3>1, <3>2 DEF Listed
      <4>2. P = {i}
            BY <3>1, <4>1 DEF NoRepeats
      <4>3. Cardinality(P) = 1
            BY <4>2, FS_Singleton
      <4>. QED  BY <3>2, <4>3 DEF Quantify
    <3>3. CASE waitingObject[a] # o
      <4>1. P = {}
            BY <3>1, <3>3 DEF Listed
      <4>2. Cardinality(P) = 0
            BY <4>1, FS_EmptySet
      <4>. QED  BY <3>3, <4>2 DEF Quantify
    <3>. QED  BY <3>2, <3>3
  <2>2. \A s \in Scopes : waitingActivities[s] # <<>> => reservingActivity[s] # None
        BY <1>1 DEF IInv, LockBut, ScopeSound
  <2>3. \A m \in completed : waitingActivities[m] = <<>>
        BY <1>1 DEF IInv, LockBut, LinesSound
  <2>. QED  BY <2>1, <2>2, <2>3 DEF WaitersAreListed
<1>. QED  BY <1>1, Invariance, PTL

\* A step of one activity leaves what the others do, unless they are idle.
LEMMA OthersKeep ==
    ASSUME StackInv, NEW a \in Activities, NEW c \in Activities \ {a}, Step(a), state[c] # "idle"
    PROVE  state'[c] = state[c]
<1>1. ASSUME NEW st, NEW stack, Become(a, st, stack) PROVE state'[c] = state[c]
      BY <1>1 DEF Become, StackInv
<1>2. ASSUME NEW stack, NEW keep, NEW ended, Terminate(a, stack, keep, ended) PROVE state'[c] = state[c]
      BY <1>1, <1>2 DEF Terminate
<1>3. ASSUME NEW stack, NEW most, Throw(a, stack, most) PROVE state'[c] = state[c]
      BY <1>2, <1>3 DEF Throw
<1>4. ASSUME NEW o, NEW owner, NEW st, NEW stack, NEW most, WaitFor(a, o, owner, st, stack, most)
      PROVE  state'[c] = state[c]
      BY <1>1, <1>3, <1>4 DEF WaitFor
<1>5. ASSUME NEW stack, NEW most, Reserve(a, stack, most) PROVE state'[c] = state[c]
      BY <1>1, <1>4, <1>5 DEF Reserve
<1>6. ASSUME NEW below, NEW s, NEW guarded, NEW ms, NEW m, Begin(a, below, s, guarded, ms, m)
      PROVE  state'[c] = state[c]
      BY <1>1, <1>5, <1>6 DEF Begin
<1>7. CASE Return(a) \/ RaiseError(a) \/ RaiseCondition(a) \/ ReplyReturns(a)
      BY <1>2, <1>3, <1>7 DEF Return, RaiseError, RaiseCondition, ReplyReturns, Finish
<1>8. ASSUME NEW b \in Activities, Reply(a, b) PROVE state'[c] = state[c]
      BY <1>8 DEF Reply, StackInv
<1>9. CASE Resume(a) \/ ReserveReturns(a) \/ ResultReturns(a)
      BY <1>1, <1>5, <1>9 DEF Resume, ReserveReturns, ResultReturns
<1>10. CASE GuardOn(a) \/ GuardOff(a) \/ GuardWait(a) \/ GuardWaitReturns(a)
      BY <1>1, <1>5, <1>10 DEF GuardOn, GuardOff, GuardWait, GuardWaitReturns
<1>11. ASSUME NEW m \in Messages, NEW b \in Activities, Start(a, m, b) PROVE state'[c] = state[c]
      BY <1>11 DEF Start, StackInv
<1>12. ASSUME NEW ms \in SUBSET Messages, NEW m \in Messages, NEW s \in Scopes,
              NEW guarded \in BOOLEAN, NEW forward \in BOOLEAN, Send(a, ms, m, s, guarded, forward)
       PROVE  state'[c] = state[c]
      BY <1>6, <1>12 DEF Send
<1>13. ASSUME NEW s \in Scopes, NEW guarded \in BOOLEAN, Call(a, s, guarded) PROVE state'[c] = state[c]
      BY <1>6, <1>13 DEF Call
<1>14. ASSUME NEW m \in Messages, Result(a, m) PROVE state'[c] = state[c]
      BY <1>4, <1>14 DEF Result
<1>. QED  BY <1>7, <1>8, <1>9, <1>10, <1>11, <1>12, <1>13, <1>14 DEF Step

\* What an activity does that was given a replied activation.
LEMMA ResumingResumes ==
    ASSUME NEW b \in Activities, state[b] = "resuming", Step(b)
    PROVE  Resume(b)
BY DEF Step, Call, Return, RaiseError, RaiseCondition, Reply, ReplyReturns, ReserveReturns, GuardOn, GuardOff,
       GuardWait, GuardWaitReturns, Start, Send, Result, ResultReturns

\* It ends at once only where it is refused the scope.
LEMMA ResumingEnds ==
    ASSUME Sound, NEW b \in Activities, Resume(b), state'[b] = "idle"
    PROVE  Refused(b)
<1>. DEFINE s == Top(b).scope
            owner == reservingActivity[s]
<1>1. s = Last(activations[b]).scope
      BY ResumingStack DEF Resume
<1>2. ASSUME NEW st, NEW stack, Become(b, st, stack) PROVE state'[b] = st
      BY <1>2 DEF Become, Sound, StackInv
<1>3. Top(b).transferFailed /\ Reserve(b, activations[b], 0)
      BY <1>2 DEF Resume
<1>4. owner \notin {None, b} /\ WaitFor(b, s, owner, "reserving", activations[b], 0)
      BY <1>1, <1>2, <1>3 DEF Reserve
<1>5. ReportsDeadlock(owner, b)
      BY <1>2, <1>4 DEF WaitFor
<1>. QED  BY <1>3, <1>4, <1>5 DEF Refused

\* It is refused the scope on account of a lost message.
LEMMA RefusalLost ==
    ASSUME IsFiniteSet(Activities), IInv, [Next]_vars,
           NEW b \in Activities, state[b] = "resuming", state'[b] = "idle"
    PROVE  \E m \in Messages : Lost(m) /\ startActivity[m] = b /\ waitingActivities[m] # <<>>
<1>1. ~UNCHANGED vars
      BY DEF vars, activityVars
<1>2. Sound
      BY <1>1, SoundBefore DEF Next
<1>3. PICK a \in Activities : Step(a)
      BY <1>1 DEF Next
<1>4. a = b
  <2>1. a # b => state'[b] = state[b]
        BY <1>2, <1>3, OthersKeep DEF Sound
  <2>. QED  BY <2>1
<1>5. Resume(b)
      BY <1>3, <1>4, ResumingResumes
<1>6. Refused(b)
      BY <1>2, <1>5, ResumingEnds
<1>7. Top(b).scope \in Scopes /\ \A r \in Scopes : Count(activations[b], r) = 0
      BY <1>2, <1>6, ResumingStack DEF Refused
<1>. DEFINE owner == reservingActivity[Top(b).scope]
<1>8. owner \in Activities /\ ReportsDeadlock(owner, b) /\ UNCHANGED startActivity
      BY <1>2, <1>5, <1>6, <1>7 DEF Refused, Sound, LockInv, LockTypes, Resume
<1>. HIDE DEF owner
<1>. QED  BY <1>2, <1>7, <1>8, DeadlockForLost

\* An activation that replied and could not take its scope along is refused it
\* only where somebody waits for a lost message that its activity sent (REPLY,
\* transfer, checkDeadLock).
THEOREM RefusedForLost == IsFiniteSet(Activities) /\ Spec => ReplyRefusedForLostMessage
<1>. SUFFICES ASSUME IsFiniteSet(Activities) PROVE Spec => ReplyRefusedForLostMessage
     OBVIOUS
<1>. DEFINE A == \A b \in Activities : state[b] = "resuming" /\ state'[b] = "idle" =>
                    \E m \in Messages : Lost(m) /\ startActivity[m] = b /\ waitingActivities[m] # <<>>
<1>1. IInv /\ [Next]_vars => [A]_vars
      BY RefusalLost
<1>2. Spec => [][A]_vars
  <2>. HIDE DEF A
  <2>. QED  BY <1>1, Invariance, PTL DEF Spec
<1>. QED  BY <1>2 DEF ReplyRefusedForLostMessage

-----------------------------------------------------------------------------
(* Circles.                                                                *)

Nobody == Activities \cup {None}

\* What Ahead gives.
LEMMA AheadType ==
    ASSUME LockTypes, NEW startedOn \in [Messages -> Nobody]
    PROVE  LET g == Ahead(startedOn)
           IN  /\ g \in [Nobody -> Nobody] /\ g[None] = None
               /\ \A c \in Activities : g[c] = IF waitingObject[c] = None THEN None
                                               ELSE OwningActivity(waitingObject[c], startedOn)
BY DistinctAssumption DEF LockTypes, Ahead, OwningActivity, Nobody

\* Where each new edge leads to an activity that does not wait, or leads
\* nowhere else, the ranks can be chosen anew.
LEMMA RanksLifted ==
    ASSUME NEW g, NEW d, Ranked(g),
           \A c \in Activities : \/ d[c] = g[c]
                                 \/ d[c] \notin Activities
                                 \/ d[d[c]] = None
    PROVE  Ranked(d)
<1>1. None \notin Activities
      BY DistinctAssumption
<1>2. PICK rank \in [Activities -> Nat] :
           \A c \in Activities : g[c] \in Activities \ {c} => rank[g[c]] < rank[c]
      BY DEF Ranked
<1>. DEFINE new == [c \in Activities |-> IF d[c] = None THEN 0 ELSE rank[c] + 1]
<1>3. new \in [Activities -> Nat]
      BY <1>2
<1>4. ASSUME NEW c \in Activities, d[c] \in Activities \ {c} PROVE new[d[c]] < new[c]
  <2>1. new[c] = rank[c] + 1 /\ rank[c] \in Nat
        BY <1>1, <1>2, <1>4
  <2>2. CASE d[d[c]] = None
        BY <1>4, <2>1, <2>2
  <2>3. CASE d[d[c]] # None
    <3>1. d[c] = g[c]
          BY <1>4, <2>3
    <3>2. rank[d[c]] < rank[c] /\ rank[d[c]] \in Nat
          BY <1>2, <1>4, <3>1
    <3>3. new[d[c]] = rank[d[c]] + 1
          BY <1>4, <2>3
    <3>. QED  BY <2>1, <3>2, <3>3
  <2>. QED  BY <2>2, <2>3
<1>. QED  BY <1>3, <1>4 DEF Ranked

\* A wait that closes no circle: the walk from the owner ends and does not
\* come by the new waiter.
LEMMA RanksSplit ==
    ASSUME NEW g \in [Nobody -> Nobody], g[None] = None, Ranked(g),
           NEW a \in Activities, NEW owner \in Nobody,
           NEW K \in Nat, NEW h \in [0..K -> Nobody], Walks(h, K, owner, g), h[K] = None,
           \A n \in 1..K : h[n] # a,
           NEW d, d[a] = owner, \A c \in Activities \ {a} : d[c] = g[c]
    PROVE  Ranked(d)
<1>1. None \notin Activities
      BY DistinctAssumption
<1>2. PICK rank \in [Activities -> Nat] :
           \A c \in Activities : g[c] \in Activities \ {c} => rank[g[c]] < rank[c]
      BY DEF Ranked
<1>3. CASE owner \in {a, None}
      BY <1>1, <1>2, <1>3 DEF Ranked
<1>4. CASE owner \notin {a, None}
  <2>. DEFINE P == {h[n] : n \in 0..K}
              new == [c \in Activities |-> IF c \in P THEN rank[c] ELSE rank[c] + rank[owner] + 1]
  <2>1. owner \in P /\ owner \in Activities
        BY <1>4 DEF Walks, Nobody
  <2>2. a \notin P
    <3>1. ASSUME NEW n \in 0..K PROVE h[n] # a
      <4>1. n = 0 \/ n \in 1..K
            OBVIOUS
      <4>. QED  BY <1>4, <4>1 DEF Walks
    <3>. QED  BY <3>1
  <2>3. ASSUME NEW x \in P PROVE g[x] \in P
    <3>1. PICK n \in 0..K : x = h[n]
          OBVIOUS
    <3>2. CASE n = K
      <4>1. K \in 0..K
            OBVIOUS
      <4>. QED  BY <3>1, <3>2, <4>1
    <3>3. CASE n # K
      <4>1. n + 1 \in 1..K /\ n + 1 \in 0..K /\ (n + 1) - 1 = n
            BY <3>3
      <4>2. h[n + 1] = g[x]
            BY <3>1, <4>1 DEF Walks
      <4>. QED  BY <4>1, <4>2
    <3>. QED  BY <3>2, <3>3
  <2>. HIDE DEF P
  <2>4. new \in [Activities -> Nat]
        BY <1>2, <2>1
  <2>5. ASSUME NEW c \in Activities, d[c] \in Activities \ {c} PROVE new[d[c]] < new[c]
    <3>1. rank[owner] \in Nat /\ rank[c] \in Nat /\ rank[d[c]] \in Nat
          BY <1>2, <2>1, <2>5
    <3>2. CASE c = a
      <4>1. d[c] = owner /\ new[owner] = rank[owner] /\ new[c] = rank[c] + rank[owner] + 1
            BY <2>1, <2>2, <3>2
      <4>. QED  BY <3>1, <4>1
    <3>3. CASE c # a
      <4>1. d[c] = g[c] /\ rank[d[c]] < rank[c]
            BY <1>2, <2>5, <3>3
      <4>2. CASE c \in P
        <5>1. d[c] \in P
              BY <2>3, <4>1, <4>2
        <5>. QED  BY <2>5, <4>1, <4>2, <5>1
      <4>3. CASE c \notin P
        <5>1. new[c] = rank[c] + rank[owner] + 1
              BY <4>3
        <5>2. new[d[c]] \in {rank[d[c]], rank[d[c]] + rank[owner] + 1}
              BY <2>5
        <5>. QED  BY <3>1, <4>1, <5>1, <5>2
      <4>. QED  BY <4>2, <4>3
    <3>. QED  BY <3>2, <3>3
  <2>. QED  BY <2>4, <2>5 DEF Ranked
<1>. QED  BY <1>3, <1>4

\* In a step the waits end or go on, and whoever is given a scope does not
\* wait ...
Frees ==
    /\ \A c \in Activities : waitingObject'[c] \in {waitingObject[c], None}
    /\ \A s \in Scopes : \/ reservingActivity'[s] \in {reservingActivity[s], None}
                         \/ waitingObject'[reservingActivity'[s]] = None

\* ... or one activity begins to wait, and checkDeadLock has let it.
Joins(a) == \E o \in Scopes \cup Messages :
    LET owner == OwningActivity(o, startActivity')
    IN  /\ waitingObject[a] = None
        /\ ~ReportsDeadlock(owner, a) /\ ~NeverReturns(owner, a)
        /\ waitingObject' = [waitingObject EXCEPT ![a] = o]
        /\ reservingActivity' = reservingActivity

\* The ranks after a step that frees.
LEMMA FreesRanked ==
    ASSUME LockTypes, LockTypes', startActivity' \in [Messages -> Nobody],
           Frees, Ranked(Ahead(startActivity'))
    PROVE  CircleInv'
<1>. DEFINE g == Ahead(startActivity')
            d == Ahead(startActivity)'
<1>1. None \notin Activities /\ \A s \in Scopes : s \notin Messages
      BY DistinctAssumption
<1>2. /\ g \in [Nobody -> Nobody]
      /\ \A c \in Activities : g[c] = IF waitingObject[c] = None THEN None
                                      ELSE OwningActivity(waitingObject[c], startActivity')
      BY AheadType
<1>3. /\ \A c \in Activities : d[c] = IF waitingObject'[c] = None THEN None
                                      ELSE IF waitingObject'[c] \in Messages THEN startActivity'[waitingObject'[c]]
                                      ELSE reservingActivity'[waitingObject'[c]]
      BY <1>1 DEF Ahead, OwningActivity
<1>. HIDE DEF g, d
<1>4. ASSUME NEW c \in Activities, d[c] # g[c], d[c] \in Activities PROVE d[d[c]] = None
  <2>1. waitingObject'[c] # None /\ waitingObject'[c] = waitingObject[c]
        BY <1>1, <1>3, <1>4 DEF Frees
  <2>2. waitingObject'[c] \notin Messages
        BY <1>2, <1>3, <1>4, <2>1 DEF OwningActivity
  <2>3. waitingObject'[c] \in Scopes
        BY <2>1, <2>2 DEF LockTypes
  <2>4. d[c] = reservingActivity'[waitingObject'[c]] /\ g[c] = reservingActivity[waitingObject'[c]]
        BY <1>2, <1>3, <2>1, <2>2 DEF OwningActivity
  <2>5. waitingObject'[d[c]] = None
        BY <1>1, <1>4, <2>3, <2>4 DEF Frees
  <2>. QED  BY <1>3, <1>4, <2>5
<1>5. Ranked(d)
      BY <1>4, RanksLifted DEF g
<1>. QED  BY <1>5 DEF CircleInv, Ranked, d

\* The ranks after a step in which a joins a line.
LEMMA JoinsRanked ==
    ASSUME IsFiniteSet(Activities), LockTypes, startActivity' \in [Messages -> Nobody],
           NEW a \in Activities, Joins(a), Ranked(Ahead(startActivity'))
    PROVE  CircleInv'
<1>. DEFINE g == Ahead(startActivity')
            d == Ahead(startActivity)'
            K == Cardinality(Activities)
<1>1. /\ None \notin Activities \cup Scopes \cup Messages
      /\ \A s \in Scopes : s \notin Messages
      BY DistinctAssumption
<1>2. PICK o \in Scopes \cup Messages :
         LET owner == OwningActivity(o, startActivity')
         IN  /\ waitingObject[a] = None
             /\ ~ReportsDeadlock(owner, a) /\ ~NeverReturns(owner, a)
             /\ waitingObject' = [waitingObject EXCEPT ![a] = o]
             /\ reservingActivity' = reservingActivity
      BY DEF Joins
<1>. DEFINE owner == OwningActivity(o, startActivity')
            h == Arrives(owner, startActivity')
<1>3. /\ g \in [Nobody -> Nobody] /\ g[None] = None
      /\ \A c \in Activities : g[c] = IF waitingObject[c] = None THEN None
                                      ELSE OwningActivity(waitingObject[c], startActivity')
      BY AheadType
<1>4. owner \in Nobody
      BY <1>1 DEF LockTypes, OwningActivity, Nobody
<1>5. K \in Nat
      BY FS_CardinalityType
<1>6. h \in [0..K -> Nobody] /\ Walks(h, K, owner, g)
  <2>1. /\ waitingObject \in [Activities -> Scopes \cup Messages \cup {None}]
        /\ reservingActivity \in [Scopes -> Activities \cup {None}]
        /\ owner \in Activities \cup {None}
        /\ startActivity' \in [Messages -> Activities \cup {None}]
        BY <1>4 DEF LockTypes, Nobody
  <2>. HIDE DEF owner, g
  <2>. QED  BY <2>1, ArrivesStep DEF Walks, Nobody, g
<1>7. h[K] = None /\ \A n \in 1..K : h[n] # a
      BY <1>2 DEF NeverReturns, ReportsDeadlock
<1>8. /\ waitingObject'[a] = o /\ \A c \in Activities \ {a} : waitingObject'[c] = waitingObject[c]
      /\ reservingActivity' = reservingActivity
      BY <1>2 DEF LockTypes
<1>9. d[a] = owner
      BY <1>1, <1>8 DEF Ahead, OwningActivity
<1>10. ASSUME NEW c \in Activities \ {a} PROVE d[c] = g[c]
      BY <1>1, <1>8 DEF Ahead, OwningActivity
<1>. HIDE DEF g, d, K, h, owner
<1>11. Ranked(d)
       BY <1>3, <1>4, <1>5, <1>6, <1>7, <1>9, <1>10, RanksSplit DEF g
<1>. QED  BY <1>11 DEF CircleInv, Ranked, d

\* The ranks once a message is started or sent, by an activity that does not
\* wait.
LEMMA SentRanked ==
    ASSUME LockTypes, CircleInv, startActivity \in [Messages -> Nobody], startActivity' \in [Messages -> Nobody],
           \A m \in Messages : \/ startActivity'[m] = startActivity[m]
                               \/ startActivity'[m] \in Activities /\ waitingObject[startActivity'[m]] = None
    PROVE  Ranked(Ahead(startActivity'))
<1>. DEFINE g == Ahead(startActivity)
            d == Ahead(startActivity')
<1>1. None \notin Activities
      BY DistinctAssumption
<1>2. \A c \in Activities : g[c] = IF waitingObject[c] = None THEN None
                                   ELSE OwningActivity(waitingObject[c], startActivity)
      BY AheadType
<1>3. \A c \in Activities : d[c] = IF waitingObject[c] = None THEN None
                                   ELSE OwningActivity(waitingObject[c], startActivity')
      BY AheadType
<1>4. Ranked(g)
      BY DEF CircleInv
<1>. HIDE DEF g, d
<1>5. ASSUME NEW c \in Activities, d[c] # g[c], d[c] \in Activities PROVE d[d[c]] = None
  <2>1. waitingObject[c] \in Messages /\ d[c] = startActivity'[waitingObject[c]]
        BY <1>1, <1>2, <1>3, <1>5 DEF OwningActivity
  <2>2. g[c] = startActivity[waitingObject[c]]
        BY <1>1, <1>2, <1>3, <1>5, <2>1 DEF OwningActivity
  <2>3. waitingObject[d[c]] = None
        BY <1>5, <2>1, <2>2
  <2>. QED  BY <1>3, <1>5, <2>3
<1>. QED  BY <1>4, <1>5, RanksLifted DEF d

\* release and sendNotification free.
LEMMA DischargeFrees ==
    ASSUME LockInv, NEW times, NEW ended, Discharge(times, ended)
    PROVE  Frees
<1>. DEFINE left   == {s \in Scopes : times[s] > 0 /\ reserveCount[s] = times[s]}
            passed == {s \in left : waitingActivities[s] # <<>>}
            woken  == {Head(waitingActivities[s]) : s \in passed}
                        \cup UNION {ToSet(waitingActivities[m]) : m \in ended}
<1>1. /\ \A s \in Scopes : reservingActivity'[s] = IF s \in left THEN HolderHandedOn(s) ELSE reservingActivity[s]
      /\ \A c \in Activities : waitingObject'[c] = IF c \in woken THEN None ELSE waitingObject[c]
      BY DEF Discharge
<1>2. ASSUME NEW s \in Scopes
      PROVE  \/ reservingActivity'[s] \in {reservingActivity[s], None}
             \/ waitingObject'[reservingActivity'[s]] = None
  <2>1. CASE s \in passed
    <3>1. reservingActivity'[s] = Head(waitingActivities[s])
          BY <1>1, <2>1 DEF HolderHandedOn
    <3>2. Head(waitingActivities[s]) \in Activities
      <4>1. waitingActivities[s] \in Seq(Activities) /\ waitingActivities[s] # <<>>
            BY <2>1 DEF LockInv, LockTypes
      <4>. QED  BY <4>1, LineServed DEF LockInv, LinesSound
    <3>3. Head(waitingActivities[s]) \in woken
          BY <2>1
    <3>. HIDE DEF woken, passed
    <3>. QED  BY <1>1, <3>1, <3>2, <3>3
  <2>2. CASE s \notin passed
        BY <1>1, <2>2 DEF HolderHandedOn
  <2>. QED  BY <2>1, <2>2
<1>. HIDE DEF woken
<1>. QED  BY <1>1, <1>2 DEF Frees

\* The locks left alone.
LEMMA StillFrees ==
    ASSUME UNCHANGED <<waitingObject, scopeVars>>
    PROVE  Frees
BY DEF Frees, scopeVars

\* A step either frees or joins.
Moves(a) == Frees \/ Joins(a)

\* Terminating frees.
LEMMA TerminateMoves ==
    ASSUME LockInv, NEW a, NEW stack, NEW keep, NEW ended, Terminate(a, stack, keep, ended)
    PROVE  Frees
BY DischargeFrees DEF Terminate

\* A wait.
LEMMA WaitMoves ==
    ASSUME LockInv, NEW a \in Activities, waitingObject[a] = None, NEW o \in Scopes \cup Messages,
           NEW st, NEW stack, NEW most, WaitFor(a, o, OwningActivity(o, startActivity'), st, stack, most)
    PROVE  Moves(a)
<1>. DEFINE owner == OwningActivity(o, startActivity')
<1>1. CASE Throw(a, stack, most)
      BY <1>1, TerminateMoves DEF Throw, Moves
<1>2. CASE UNCHANGED <<waitingObject, scopeVars, completed>>
      BY <1>2, StillFrees DEF Moves
<1>3. CASE /\ ~ReportsDeadlock(owner, a) /\ ~NeverReturns(owner, a)
           /\ waitingObject' = [waitingObject EXCEPT ![a] = o]
           /\ reservingActivity' = reservingActivity
      BY <1>3 DEF Joins, Moves
<1>. QED  BY <1>1, <1>2, <1>3 DEF WaitFor

\* A reservation.
LEMMA ReserveMoves ==
    ASSUME LockInv, NEW a \in Activities, waitingObject[a] = None, NEW stack, Last(stack).scope \in Scopes,
           NEW most, Reserve(a, stack, most)
    PROVE  Moves(a)
<1>. DEFINE s == Last(stack).scope
<1>1. CASE reservingActivity' = [reservingActivity EXCEPT ![s] = a] /\ UNCHANGED waitingObject
      BY <1>1 DEF LockInv, LockTypes, Frees, Moves
<1>2. CASE WaitFor(a, s, reservingActivity[s], "reserving", stack, most)
  <2>1. reservingActivity[s] = OwningActivity(s, startActivity')
        BY DistinctAssumption DEF OwningActivity
  <2>. HIDE DEF s
  <2>. QED  BY <1>2, <2>1, WaitMoves DEF s
<1>. QED  BY <1>1, <1>2 DEF Reserve

\* Every step does.
LEMMA StepMoves ==
    ASSUME Sound, NEW a \in Activities, Step(a)
    PROVE  Moves(a)
<1>. LockInv
     BY DEF Sound
<1>1. ASSUME state[a] \notin {"reserving", "result"} PROVE waitingObject[a] = None
      BY <1>1 DEF LockInv, WaitSound
<1>2. CASE UNCHANGED <<waitingObject, scopeVars>>
      BY <1>2, StillFrees DEF Moves
<1>3. ASSUME NEW below \in Seq(Activation), NEW s \in Scopes, NEW guarded \in BOOLEAN,
             NEW ms \in SUBSET Messages, NEW m \in Messages \cup {None},
             state[a] \in {"idle", "running", "starting"}, Begin(a, below, s, guarded, ms, m)
      PROVE  Moves(a)
  <2>. DEFINE it == NewActivation(s, ms, m)
              stack == Append(below, it)
  <2>1. Last(stack) = it
    <3>1. it \in Activation
          BY DEF NewActivation, Activation
    <3>. HIDE DEF it
    <3>. QED  BY <3>1, PushProperties
  <2>2. Last(stack).scope \in Scopes
        BY <2>1 DEF NewActivation
  <2>3. (guarded /\ Reserve(a, stack, Len(stack) - 1)) \/ UNCHANGED <<waitingObject, scopeVars>>
        BY <1>3 DEF Begin
  <2>. HIDE DEF stack
  <2>. QED  BY <1>1, <1>2, <1>3, <2>2, <2>3, ReserveMoves
<1>4. ASSUME NEW s \in Scopes, NEW guarded \in BOOLEAN, Call(a, s, guarded) PROVE Moves(a)
      BY <1>3, <1>4 DEF Call, Sound, StackInv
<1>5. CASE Return(a) \/ RaiseError(a) \/ RaiseCondition(a) \/ ReplyReturns(a)
      BY <1>5, TerminateMoves DEF Return, RaiseError, RaiseCondition, ReplyReturns, Finish, Throw, Moves
<1>6. ASSUME NEW b \in Activities, Reply(a, b) PROVE Moves(a)
  <2>1. state[b] = "idle" /\ waitingObject[b] = None
        BY <1>6 DEF Reply, LockInv, WaitSound
  <2>2. ASSUME Transfer(Top(a).scope, a, b) PROVE Frees
    <3>1. CASE /\ reservingActivity' = [reservingActivity EXCEPT ![Top(a).scope] = b]
               /\ UNCHANGED waitingObject
          BY <2>1, <3>1 DEF LockInv, LockTypes, Frees
    <3>2. CASE Discharge(Once(Top(a).scope), {})
          BY <3>2, DischargeFrees
    <3>. QED  BY <2>2, <3>1, <3>2 DEF Transfer
  <2>. QED  BY <1>2, <1>6, <2>2 DEF Reply, Moves
<1>7. CASE Resume(a)
  <2>1. Last(activations[a]).scope \in Scopes
        BY <1>7, ResumingStack DEF Resume
  <2>. QED  BY <1>1, <1>2, <1>7, <2>1, ReserveMoves DEF Resume
<1>8. CASE ReserveReturns(a) \/ ResultReturns(a)
      BY <1>2, <1>8 DEF ReserveReturns, ResultReturns
<1>9. CASE GuardOn(a) \/ GuardWaitReturns(a)
  <2>1. Top(a) \in Activation
        BY <1>9, RunningStack DEF GuardOn, GuardWaitReturns
  <2>2. Last(activations[a]).scope \in Scopes
        BY <2>1 DEF Activation, Top
  <2>. QED  BY <1>1, <1>2, <1>9, <2>2, ReserveMoves DEF GuardOn, GuardWaitReturns
<1>10. CASE GuardOff(a) \/ GuardWait(a)
      BY <1>2, <1>10, DischargeFrees DEF GuardOff, GuardWait, Moves
<1>11. ASSUME NEW m \in Messages, NEW b \in Activities, Start(a, m, b) PROVE Moves(a)
      BY <1>2, <1>11 DEF Start
<1>12. ASSUME NEW ms \in SUBSET Messages, NEW m \in Messages, NEW s \in Scopes,
              NEW guarded \in BOOLEAN, NEW forward \in BOOLEAN, Send(a, ms, m, s, guarded, forward)
       PROVE  Moves(a)
  <2>1. PICK below \in Seq(Activation), held \in Messages \cup {None} :
            Alike(activations[a], below) /\ Begin(a, below, s, guarded, ms, held)
        BY <1>12, SendBegins
  <2>. QED  BY <1>3, <1>12, <2>1 DEF Send, Alike
<1>13. ASSUME NEW m \in Messages, Result(a, m) PROVE Moves(a)
  <2>1. startActivity[m] = OwningActivity(m, startActivity')
        BY <1>13 DEF Result, OwningActivity
  <2>. QED  BY <1>1, <1>13, <2>1, WaitMoves DEF Result
<1>. QED  BY <1>4, <1>5, <1>6, <1>7, <1>8, <1>9, <1>10, <1>11, <1>12, <1>13 DEF Step

\* Messages go to activities that do not wait.
LEMMA StepSends ==
    ASSUME Sound, NEW a \in Activities, Step(a), NEW m \in Messages
    PROVE  \/ startActivity'[m] = startActivity[m]
           \/ startActivity'[m] \in Activities /\ waitingObject[startActivity'[m]] = None
<1>1. CASE UNCHANGED startActivity
      BY <1>1
<1>2. ASSUME NEW n \in Messages, NEW b \in Activities, state[b] \notin {"reserving", "result"},
             startActivity' = [startActivity EXCEPT ![n] = b]
      PROVE  \/ startActivity'[m] = startActivity[m]
             \/ startActivity'[m] \in Activities /\ waitingObject[startActivity'[m]] = None
  <2>1. waitingObject[b] = None
        BY <1>2 DEF Sound, LockInv, WaitSound
  <2>. QED  BY <1>2, <2>1 DEF Sound, MessageInv
<1>3. ASSUME NEW n \in Messages, NEW b \in Activities, Start(a, n, b)
      PROVE  \/ startActivity'[m] = startActivity[m]
             \/ startActivity'[m] \in Activities /\ waitingObject[startActivity'[m]] = None
      BY <1>2, <1>3 DEF Start
<1>4. ASSUME NEW ms \in SUBSET Messages, NEW n \in Messages, NEW s \in Scopes,
             NEW guarded \in BOOLEAN, NEW forward \in BOOLEAN, Send(a, ms, n, s, guarded, forward)
      PROVE  \/ startActivity'[m] = startActivity[m]
             \/ startActivity'[m] \in Activities /\ waitingObject[startActivity'[m]] = None
  <2>1. /\ state[a] \in {"running", "starting"}
        /\ startActivity' = [k \in Messages |-> IF k \in ms THEN a ELSE startActivity[k]]
        BY <1>4 DEF Send
  <2>2. waitingObject[a] = None
        BY <2>1 DEF Sound, LockInv, WaitSound
  <2>. QED  BY <2>1, <2>2
<1>5. \/ UNCHANGED startActivity
      \/ \E n \in Messages, b \in Activities : Start(a, n, b)
      \/ \E ms \in SUBSET Messages, n \in Messages, s \in Scopes, guarded, forward \in BOOLEAN :
            Send(a, ms, n, s, guarded, forward)
      BY DEF Step, Call, Return, RaiseError, RaiseCondition, Reply, ReplyReturns, Resume, ReserveReturns, GuardOn, GuardOff,
             GuardWait, GuardWaitReturns, Result, ResultReturns, messageVars
<1>. QED  BY <1>1, <1>3, <1>4, <1>5

\* Every step keeps the waits leading down.
LEMMA CircleStep ==
    ASSUME IsFiniteSet(Activities), IInv, CircleInv, [Next]_vars
    PROVE  CircleInv'
<1>1. CASE UNCHANGED vars
      BY <1>1 DEF vars, activityVars, scopeVars, messageVars, CircleInv, Ranked, Ahead, OwningActivity
<1>2. CASE Next
  <2>1. PICK a \in Activities : Step(a)
        BY <1>2 DEF Next
  <2>2. Sound
        BY <1>2, SoundBefore DEF Next
  <2>3. IInv'
        BY IInvStep
  <2>4. /\ LockTypes /\ LockTypes'
        /\ startActivity \in [Messages -> Nobody] /\ startActivity' \in [Messages -> Nobody]
        BY <2>3 DEF IInv, LockBut, MessageInv, Nobody
  <2>5. Ranked(Ahead(startActivity'))
        BY <2>1, <2>2, <2>4, StepSends, SentRanked
  <2>. QED  BY <2>1, <2>2, <2>4, <2>5, StepMoves, FreesRanked, JoinsRanked DEF Moves
<1>. QED  BY <1>1, <1>2

\* Where the waits lead down, a walk comes back to where it began only at
\* once.
LEMMA WalkReturns ==
    ASSUME NEW g \in [Nobody -> Nobody], g[None] = None, Ranked(g),
           NEW a \in Activities, NEW K \in Nat, NEW h \in [0..K -> Nobody], Walks(h, K, a, g),
           NEW n \in 1..K, h[n] = a
    PROVE  h[1] = a
<1>1. None \notin Activities
      BY DistinctAssumption
<1>2. PICK rank \in [Activities -> Nat] :
           \A c \in Activities : g[c] \in Activities \ {c} => rank[g[c]] < rank[c]
      BY DEF Ranked
<1>. SUFFICES ASSUME h[1] # a PROVE FALSE
     OBVIOUS
<1>. DEFINE Lower(x) == x = None \/ rank[x] < rank[a]
            T == {i \in 1..K : ~Lower(h[i])}
<1>3. n \in T
      BY <1>1, <1>2
<1>4. PICK k \in T : \A j \in T : k <= j
  <2>1. T \in SUBSET Nat /\ T # {}
        BY <1>3
  <2>. HIDE DEF T
  <2>. QED  BY <2>1, Least
<1>5. k \in 1..K /\ k - 1 \in 0..K /\ h[k] = g[h[k - 1]] /\ h[k] \in Nobody /\ ~Lower(h[k])
      BY <1>4 DEF Walks
<1>6. CASE k = 1
  <2>1. h[k] = g[a] /\ h[k] # a
        BY <1>5, <1>6 DEF Walks
  <2>. QED  BY <1>1, <1>2, <1>5, <2>1 DEF Nobody
<1>7. CASE k # 1
  <2>1. k - 1 \in 1..K /\ ~(k <= k - 1)
        BY <1>5, <1>7
  <2>2. Lower(h[k - 1])
        BY <1>4, <2>1
  <2>. DEFINE x == h[k - 1]
  <2>3. x \in Nobody /\ h[k] = g[x]
        BY <1>5
  <2>. HIDE DEF x
  <2>4. CASE x = None
        BY <1>5, <2>3, <2>4
  <2>5. CASE x \in Activities /\ rank[x] < rank[a]
    <3>1. rank[x] \in Nat /\ rank[a] \in Nat
          BY <1>2, <2>5
    <3>2. h[k] \in Activities /\ rank[h[k]] \in Nat
          BY <1>2, <1>5 DEF Nobody
    <3>3. h[k] = x \/ rank[h[k]] < rank[x]
          BY <1>2, <2>3, <2>5, <3>2
    <3>. QED  BY <1>5, <2>5, <3>1, <3>2, <3>3
  <2>. QED  BY <2>2, <2>3, <2>4, <2>5 DEF Nobody, x
<1>. QED  BY <1>6, <1>7

\* The activities never wait in a circle for each other: checkDeadLock sees
\* the circle, however the scopes changed hands and the messages were sent.
THEOREM SelfCirclesOnly == IsFiniteSet(Activities) /\ Spec => []OnlySelfCircles
<1>. SUFFICES ASSUME IsFiniteSet(Activities) PROVE Spec => []OnlySelfCircles
     OBVIOUS
<1>1. Init => CircleInv
  <2>. SUFFICES ASSUME Init PROVE CircleInv
       OBVIOUS
  <2>. DEFINE g == Ahead(startActivity)
              rank == [c \in Activities |-> 0]
  <2>1. \A c \in Activities : g[c] = None
        BY DEF Init, Ahead
  <2>2. rank \in [Activities -> Nat] /\ None \notin Activities
        BY DistinctAssumption
  <2>. HIDE DEF g, rank
  <2>3. Ranked(g)
        BY <2>1, <2>2 DEF Ranked
  <2>. QED  BY <2>3 DEF CircleInv, g
<1>2. IInv /\ CircleInv /\ [Next]_vars => CircleInv'
      BY CircleStep
<1>3. ASSUME IInv, CircleInv PROVE OnlySelfCircles
  <2>. DEFINE g == Ahead(startActivity)
              K == Cardinality(Activities)
  <2>1. /\ LockTypes /\ startActivity \in [Messages -> Nobody]
        BY <1>3 DEF IInv, LockBut, MessageInv, Nobody
  <2>2. g \in [Nobody -> Nobody] /\ g[None] = None /\ Ranked(g) /\ K \in Nat
        BY <1>3, <2>1, AheadType, FS_CardinalityType DEF CircleInv
  <2>. HIDE DEF g
  <2>3. ASSUME NEW a \in Activities, InCircle(a) PROVE Arrives(a, startActivity)[1] = a
    <3>. DEFINE h == Arrives(a, startActivity)
    <3>1. h \in [0..K -> Nobody] /\ Walks(h, K, a, g)
      <4>1. /\ waitingObject \in [Activities -> Scopes \cup Messages \cup {None}]
            /\ reservingActivity \in [Scopes -> Activities \cup {None}]
            /\ a \in Activities \cup {None}
            /\ startActivity \in [Messages -> Activities \cup {None}]
            BY <2>1 DEF LockTypes, Nobody
      <4>. QED  BY <4>1, ArrivesStep DEF Walks, Nobody, g
    <3>2. PICK n \in 1..K : h[n] = a
          BY <2>3 DEF InCircle
    <3>. HIDE DEF h, K
    <3>. QED  BY <2>2, <3>1, <3>2, WalkReturns DEF h
  <2>. QED  BY <2>3 DEF OnlySelfCircles
<1>4. Spec => []CircleInv
      BY <1>1, <1>2, Invariance, PTL DEF Spec
<1>. QED  BY <1>3, <1>4, Invariance, PTL

=============================================================================
