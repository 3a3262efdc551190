----------------------------- MODULE StackLemmas -----------------------------
(***************************************************************************)
(* Facts about sequences used as stacks, the last element being the top:   *)
(* what pushing, popping, replacing the top and unwinding do to a stack;   *)
(* and as waiting lines.  The activations of an activity are such stacks,  *)
(* the waiters at a scope such lines, in several modules.  And that a walk *)
(* from activity to activity, which a recursive function describes, is     *)
(* what its equation says.                                                 *)
(***************************************************************************)
EXTENDS Integers, Sequences, SequencesExt, SequenceTheorems, FiniteSetTheorems, TLAPS

\* Popping.
LEMMA FrontProperties ==
    ASSUME NEW S, NEW s \in Seq(S), s # <<>>
    PROVE  /\ Len(s) \in Nat \ {0}
           /\ Front(s) \in Seq(S)
           /\ Len(Front(s)) = Len(s) - 1
           /\ \A i \in 1..Len(s) - 1 : Front(s)[i] = s[i]
           /\ Last(s) = s[Len(s)]
           /\ Last(s) \in S
<1>1. Len(s) \in Nat \ {0}
      BY EmptySeq
<1>2. \A i \in 1..Len(s) : s[i] \in S
      BY ElementOfSeq
<1>3. /\ Front(s) \in Seq(S)
      /\ Len(Front(s)) = IF 1 <= Len(s) - 1 THEN Len(s) - 1 - 1 + 1 ELSE 0
      /\ \A i \in 1..Len(s) - 1 - 1 + 1 : Front(s)[i] = s[1 + i - 1]
      BY <1>1, <1>2, SubSeqProperties DEF Front
<1>4. Len(Front(s)) = Len(s) - 1
  <2>1. ASSUME NEW n \in Nat \ {0}
        PROVE  (IF 1 <= n - 1 THEN n - 1 - 1 + 1 ELSE 0) = n - 1
        OBVIOUS
  <2>2. (IF 1 <= Len(s) - 1 THEN Len(s) - 1 - 1 + 1 ELSE 0) = Len(s) - 1
        BY <1>1, <2>1
  <2>. QED  BY <1>3, <2>2
<1>5. ASSUME NEW i \in 1..Len(s) - 1 PROVE Front(s)[i] = s[i]
  <2>1. i \in 1..Len(s) - 1 - 1 + 1 /\ 1 + i - 1 = i
        BY <1>1
  <2>2. Front(s)[i] = s[1 + i - 1]
        BY <1>3, <2>1
  <2>. QED  BY <2>1, <2>2
<1>6. Last(s) = s[Len(s)]
      BY DEF Last
<1>7. s[Len(s)] \in S
  <2>1. Len(s) \in 1..Len(s)
        BY <1>1
  <2>. QED  BY <1>2, <2>1
<1>. QED  BY <1>1, <1>3, <1>4, <1>5, <1>6, <1>7

\* A stack is determined by what is below its top and its top.
LEMMA SameStack ==
    ASSUME NEW S, NEW s \in Seq(S), NEW t \in Seq(S), Len(s) = Len(t),
           \A i \in 1..Len(s) : s[i] = t[i]
    PROVE  s = t
BY SeqEqual

\* Pushing.
LEMMA PushProperties ==
    ASSUME NEW S, NEW s \in Seq(S), NEW e \in S
    PROVE  /\ Len(s) \in Nat
           /\ Append(s, e) \in Seq(S)
           /\ Append(s, e) # <<>>
           /\ Len(Append(s, e)) = Len(s) + 1
           /\ \A i \in 1..Len(s) : Append(s, e)[i] = s[i]
           /\ Append(s, e)[Len(s) + 1] = e
           /\ Last(Append(s, e)) = e
           /\ Front(Append(s, e)) = s
<1>. DEFINE t == Append(s, e)
<1>1. /\ Len(s) \in Nat /\ t \in Seq(S) /\ t # <<>> /\ Len(t) = Len(s) + 1
      /\ \A i \in 1..Len(s) : t[i] = s[i]
      /\ t[Len(s) + 1] = e
      BY AppendProperties
<1>. HIDE DEF t
<1>2. /\ Front(t) \in Seq(S) /\ Len(Front(t)) = Len(t) - 1
      /\ \A i \in 1..Len(t) - 1 : Front(t)[i] = t[i]
      /\ Last(t) = t[Len(t)]
      BY <1>1, FrontProperties
<1>3. Len(Front(t)) = Len(s)
      BY <1>1, <1>2
<1>4. \A i \in 1..Len(s) : Front(t)[i] = s[i]
      BY <1>1, <1>2
<1>5. Front(t) = s
      BY <1>2, <1>3, <1>4, SameStack
<1>6. Last(t) = e
      BY <1>1, <1>2
<1>. QED  BY <1>1, <1>5, <1>6 DEF t

\* Replacing the top.
LEMMA RetopProperties ==
    ASSUME NEW S, NEW s \in Seq(S), s # <<>>, NEW e \in S
    PROVE  /\ Append(Front(s), e) \in Seq(S)
           /\ Append(Front(s), e) # <<>>
           /\ Len(Append(Front(s), e)) = Len(s)
           /\ \A i \in 1..Len(s) - 1 : Append(Front(s), e)[i] = s[i]
           /\ Append(Front(s), e)[Len(s)] = e
           /\ Last(Append(Front(s), e)) = e
           /\ Front(Append(Front(s), e)) = Front(s)
<1>1. /\ Len(s) \in Nat \ {0} /\ Front(s) \in Seq(S) /\ Len(Front(s)) = Len(s) - 1
      /\ \A i \in 1..Len(s) - 1 : Front(s)[i] = s[i]
      BY FrontProperties
<1>. DEFINE f == Front(s)
            t == Append(f, e)
<1>2. /\ t \in Seq(S) /\ t # <<>> /\ Len(t) = Len(f) + 1
      /\ \A i \in 1..Len(f) : t[i] = f[i]
      /\ t[Len(f) + 1] = e /\ Last(t) = e /\ Front(t) = f
      BY <1>1, PushProperties
<1>. HIDE DEF t
<1>3. Len(t) = Len(s)
      BY <1>1, <1>2
<1>4. t[Len(s)] = e
      BY <1>1, <1>2
<1>5. \A i \in 1..Len(s) - 1 : t[i] = s[i]
      BY <1>1, <1>2
<1>. QED  BY <1>2, <1>3, <1>4, <1>5 DEF t

\* Unwinding to the first k.
LEMMA PrefixProperties ==
    ASSUME NEW S, NEW s \in Seq(S), NEW k \in 0..Len(s)
    PROVE  /\ SubSeq(s, 1, k) \in Seq(S)
           /\ Len(SubSeq(s, 1, k)) = k
           /\ \A i \in 1..k : SubSeq(s, 1, k)[i] = s[i]
<1>1. Len(s) \in Nat
      OBVIOUS
<1>2. \A i \in 1..k : s[i] \in S
      BY <1>1, ElementOfSeq
<1>3. /\ SubSeq(s, 1, k) \in Seq(S)
      /\ Len(SubSeq(s, 1, k)) = IF 1 <= k THEN k - 1 + 1 ELSE 0
      /\ \A i \in 1..k - 1 + 1 : SubSeq(s, 1, k)[i] = s[1 + i - 1]
      BY <1>1, <1>2, SubSeqProperties
<1>. QED  BY <1>1, <1>3

\* What is unwound: the part above the first k.
LEMMA SuffixProperties ==
    ASSUME NEW S, NEW s \in Seq(S), NEW k \in 0..Len(s)
    PROVE  /\ SubSeq(s, k + 1, Len(s)) \in Seq(S)
           /\ Len(SubSeq(s, k + 1, Len(s))) = Len(s) - k
           /\ \A i \in 1..Len(s) - k : SubSeq(s, k + 1, Len(s))[i] = s[k + i]
<1>. DEFINE n == Len(s)
            t == SubSeq(s, k + 1, n)
<1>1. n \in Nat /\ k \in Nat /\ k <= n
      OBVIOUS
<1>2. \A i \in k + 1..n : s[i] \in S
  <2>1. \A i \in k + 1..n : i \in 1..n
        BY <1>1
  <2>. QED  BY <2>1, ElementOfSeq
<1>3. /\ t \in Seq(S)
      /\ Len(t) = IF k + 1 <= n THEN n - (k + 1) + 1 ELSE 0
      /\ \A i \in 1..n - (k + 1) + 1 : t[i] = s[k + 1 + i - 1]
      BY <1>1, <1>2, SubSeqProperties
<1>. HIDE DEF n, t
<1>4. Len(t) = n - k
      BY <1>1, <1>3
<1>5. ASSUME NEW i \in 1..n - k PROVE t[i] = s[k + i]
  <2>1. i \in 1..n - (k + 1) + 1 /\ k + 1 + i - 1 = k + i
        BY <1>1
  <2>2. t[i] = s[k + 1 + i - 1]
        BY <1>3, <2>1
  <2>. QED  BY <2>1, <2>2
<1>. QED  BY <1>3, <1>4, <1>5 DEF n, t

\* Counting positions: those below the last and the last.
LEMMA CountBelow ==
    ASSUME NEW n \in Nat, NEW B \in SUBSET (1..n + 1)
    PROVE  /\ Cardinality(B) \in Nat
           /\ Cardinality(B \ {n + 1}) \in Nat
           /\ Cardinality(B) = Cardinality(B \ {n + 1}) + IF n + 1 \in B THEN 1 ELSE 0
<1>1. IsFiniteSet(1..n + 1)
      BY FS_Interval
<1>2. IsFiniteSet(B)
      BY <1>1, FS_Subset
<1>3. /\ IsFiniteSet(B \ {n + 1})
      /\ Cardinality(B \ {n + 1}) = IF n + 1 \in B THEN Cardinality(B) - 1 ELSE Cardinality(B)
      BY <1>2, FS_RemoveElement
<1>4. Cardinality(B) \in Nat /\ Cardinality(B \ {n + 1}) \in Nat
      BY <1>2, <1>3, FS_CardinalityType
<1>. QED  BY <1>3, <1>4

\* Counting positions: those up to k and those above.
LEMMA CountSplit ==
    ASSUME NEW n \in Nat, NEW k \in 0..n, NEW B \in SUBSET (1..n)
    PROVE  LET C == {i \in 1..k : i \in B}
               D == {i \in 1..n - k : k + i \in B}
           IN  /\ Cardinality(C) \in Nat /\ Cardinality(D) \in Nat
               /\ Cardinality(B) = Cardinality(C) + Cardinality(D)
<1>. DEFINE C == {i \in 1..k : i \in B}
            D == {i \in 1..n - k : k + i \in B}
            E == B \ C
            f == [i \in D |-> k + i]
<1>1. IsFiniteSet(1..n)
      BY FS_Interval
<1>2. IsFiniteSet(B)
      BY <1>1, FS_Subset
<1>3. C \subseteq B /\ IsFiniteSet(C) /\ IsFiniteSet(E)
  <2>1. C \subseteq B /\ E \subseteq B
        OBVIOUS
  <2>. HIDE DEF C, E
  <2>. QED  BY <1>2, <2>1, FS_Subset
<1>4. f \in Bijection(D, E)
  <2>1. ASSUME NEW i \in D PROVE f[i] \in E
    <3>1. k + i \in B /\ k + i \notin 1..k
          OBVIOUS
    <3>. QED  BY <3>1
  <2>2. ASSUME NEW i \in D, NEW j \in D, f[i] = f[j] PROVE i = j
    <3>1. k + i = k + j
          BY <2>2
    <3>. QED  BY <3>1
  <2>3. ASSUME NEW e \in E PROVE \E i \in D : f[i] = e
    <3>1. e \in B /\ e \in 1..n /\ e \notin 1..k
          OBVIOUS
    <3>2. e - k \in 1..n - k /\ k + (e - k) = e
          BY <3>1
    <3>3. e - k \in D
          BY <3>1, <3>2
    <3>4. f[e - k] = k + (e - k)
          BY <3>3
    <3>. QED  BY <3>2, <3>3, <3>4
  <2>. HIDE DEF C, D, E
  <2>4. f \in [D -> E]
        BY <2>1
  <2>. HIDE DEF f
  <2>. QED  BY <2>2, <2>3, <2>4 DEF Bijection, Injection, Surjection, IsInjective
<1>5. Cardinality(D) = Cardinality(E) /\ IsFiniteSet(D)
  <2>1. Bijection(D, E) # {}
    <3>. HIDE DEF f, D, E
    <3>. QED  BY <1>4
  <2>2. ExistsBijection(D, E)
        BY <2>1 DEF ExistsBijection
  <2>3. IsFiniteSet(D)
    <3>1. IsFiniteSet(1..n - k) /\ D \subseteq 1..n - k
          BY FS_Interval
    <3>. HIDE DEF D
    <3>. QED  BY <3>1, FS_Subset
  <2>. HIDE DEF D, E
  <2>. QED  BY <2>2, <2>3, FS_Bijection
<1>6. Cardinality(E) = Cardinality(B) - Cardinality(C)
  <2>. HIDE DEF C
  <2>1. B \cap C = C
        BY <1>3
  <2>2. Cardinality(B \ C) = Cardinality(B) - Cardinality(B \cap C)
        BY <1>2, FS_Difference
  <2>. QED  BY <2>1, <2>2
<1>7. Cardinality(B) \in Nat /\ Cardinality(C) \in Nat /\ Cardinality(D) \in Nat
  <2>. HIDE DEF C, D
  <2>. QED  BY <1>2, <1>3, <1>5, FS_CardinalityType
<1>. HIDE DEF C, D, E
<1>8. Cardinality(B) = Cardinality(C) + Cardinality(D)
      BY <1>5, <1>6, <1>7
<1>. QED  BY <1>7, <1>8 DEF C, D

-----------------------------------------------------------------------------
(* Lines, which activities join at the end and leave at the head.          *)

\* a stands in the line; nobody stands in it twice.
Listed(a, c) == \E i \in DOMAIN c : c[i] = a
NoRepeats(c) == \A i, j \in DOMAIN c : c[i] = c[j] => i = j

\* A line that a joins behind the others.
LEMMA LineJoined ==
    ASSUME NEW S, NEW a \in S, NEW c \in Seq(S),
           NoRepeats(c), ~Listed(a, c)
    PROVE  LET d == Append(c, a)
           IN  /\ d \in Seq(S)
               /\ NoRepeats(d)
               /\ \A b \in S : Listed(b, d) <=> b = a \/ Listed(b, c)
<1>. USE DEF Listed, NoRepeats
<1>. DEFINE d == Append(c, a)
            n == Len(c)
<1>1. /\ n \in Nat /\ d \in Seq(S) /\ DOMAIN c = 1..n /\ DOMAIN d = 1..n + 1
      /\ \A i \in 1..n : d[i] = c[i]
      /\ d[n + 1] = a
      BY AppendProperties, LenProperties
<1>. HIDE DEF d, n
<1>2. \A i \in 1..n + 1 : i \in 1..n \/ i = n + 1
      BY <1>1
<1>3. \A i \in 1..n : i \in 1..n + 1
      BY <1>1
<1>4. n + 1 \in 1..n + 1
      BY <1>1
<1>5. \A i, j \in DOMAIN d : d[i] = d[j] => i = j
      BY <1>1, <1>2
<1>6. ASSUME NEW b \in S
      PROVE  (\E i \in DOMAIN d : d[i] = b) <=> b = a \/ \E i \in DOMAIN c : c[i] = b
      BY <1>1, <1>2, <1>3, <1>4
<1>. QED  BY <1>1, <1>5, <1>6 DEF d

\* The line without its first.
LEMMA LineServed ==
    ASSUME NEW S, NEW c \in Seq(S), c # <<>>, NoRepeats(c)
    PROVE  LET d == Tail(c)
           IN  /\ d \in Seq(S) /\ Head(c) \in S
               /\ Listed(Head(c), c)
               /\ NoRepeats(d)
               /\ \A b \in S : Listed(b, d) <=> b # Head(c) /\ Listed(b, c)
<1>. USE DEF Listed, NoRepeats
<1>. DEFINE d == Tail(c)
            n == Len(c)
<1>1. /\ n \in Nat \ {0} /\ d \in Seq(S) /\ DOMAIN c = 1..n /\ DOMAIN d = 1..n - 1
      /\ \A i \in 1..n - 1 : d[i] = c[i + 1]
      /\ Head(c) = c[1] /\ Head(c) \in S
  <2>1. n \in Nat \ {0} /\ DOMAIN c = 1..n /\ Head(c) = c[1]
        BY EmptySeq, LenProperties
  <2>2. d \in Seq(S) /\ Len(d) = n - 1 /\ \A i \in 1..Len(d) : d[i] = c[i + 1]
        BY HeadTailProperties
  <2>3. DOMAIN d = 1..Len(d)
        BY <2>2, LenProperties
  <2>4. Head(c) \in S
        BY HeadTailProperties
  <2>. HIDE DEF d, n
  <2>. QED  BY <2>1, <2>2, <2>3, <2>4
<1>. HIDE DEF d, n
<1>2. \A i \in 1..n - 1 : i + 1 \in 1..n /\ i + 1 # 1
      BY <1>1
<1>3. \A i \in 1..n : i # 1 => i - 1 \in 1..n - 1 /\ (i - 1) + 1 = i
      BY <1>1
<1>4. ASSUME NEW i \in DOMAIN d, NEW j \in DOMAIN d, d[i] = d[j] PROVE i = j
  <2>1. i + 1 = j + 1
        BY <1>1, <1>2, <1>4
  <2>. QED  BY <1>1, <2>1
<1>5. 1 \in DOMAIN c
      BY <1>1
<1>6. ASSUME NEW b \in S
      PROVE  (\E i \in DOMAIN d : d[i] = b) <=> b # Head(c) /\ \E i \in DOMAIN c : c[i] = b
  <2>1. ASSUME NEW i \in DOMAIN d, d[i] = b PROVE b # Head(c) /\ \E j \in DOMAIN c : c[j] = b
    <3>1. c[i + 1] = b /\ i + 1 \in DOMAIN c /\ i + 1 # 1
          BY <1>1, <1>2, <2>1
    <3>. QED  BY <1>1, <1>5, <3>1
  <2>2. ASSUME NEW i \in DOMAIN c, c[i] = b, b # Head(c) PROVE \E j \in DOMAIN d : d[j] = b
    <3>1. i # 1
          BY <1>1, <2>2
    <3>2. i - 1 \in DOMAIN d /\ d[i - 1] = c[i]
          BY <1>1, <1>3, <3>1
    <3>. QED  BY <2>2, <3>2
  <2>. QED  BY <2>1, <2>2
<1>. QED  BY <1>1, <1>4, <1>5, <1>6 DEF d

-----------------------------------------------------------------------------
(* Walks along a function.                                                 *)

\* A set of numbers has a least one.  Taken to the set of the counterexamples,
\* this is induction.
LEMMA Least ==
    ASSUME NEW T \in SUBSET Nat, T # {}
    PROVE  \E x \in T : \A y \in T : x <= y
<1>. DEFINE R == OpToRel(<, Nat)
<1>1. IsWellFoundedOn(R, Nat)
      BY NatLessThanWellFounded
<1>2. \A y, x \in Nat : y < x => <<y, x>> \in R
      BY DEF OpToRel
<1>. HIDE DEF R
<1>3. PICK x \in T : \A y \in T : <<y, x>> \notin R
      BY <1>1, WFMin
<1>4. ASSUME NEW y \in T PROVE x <= y
  <2>1. x \in Nat /\ y \in Nat /\ ~(y < x)
        BY <1>2, <1>3
  <2>. QED  BY <2>1
<1>. QED  BY <1>4

\* f goes from a along g.
Walks(f, k, a, g) == f[0] = a /\ \A n \in 1..k : f[n] = g[f[n - 1]]

\* There is such a walk of any length.
LEMMA Iterates ==
    ASSUME NEW K \in Nat, NEW S, NEW a \in S, NEW g \in [S -> S]
    PROVE  \E f \in [0..K -> S] : Walks(f, K, a, g)
<1>. DEFINE Good(k, f) == f[0] = a /\ \A n \in 1..k : f[n] = g[f[n - 1]]
            T == {k \in Nat : ~\E f \in [0..k -> S] : Good(k, f)}
<1>1. T = {}
  <2>. SUFFICES ASSUME T # {} PROVE FALSE
       OBVIOUS
  <2>1. PICK k \in T : \A j \in T : k <= j
        BY Least
  <2>2. CASE k = 0
    <3>. DEFINE f == [n \in 0..0 |-> a]
    <3>1. f \in [0..0 -> S] /\ Good(0, f)
          OBVIOUS
    <3>. QED  BY <2>1, <2>2, <3>1
  <2>3. CASE k # 0
    <3>1. k \in Nat \ {0} /\ k - 1 \in Nat /\ ~(k <= k - 1)
          BY <2>3
    <3>2. k - 1 \notin T
          BY <2>1, <3>1
    <3>3. PICK f \in [0..k - 1 -> S] : Good(k - 1, f)
          BY <3>1, <3>2
    <3>. DEFINE h == [n \in 0..k |-> IF n = k THEN g[f[k - 1]] ELSE f[n]]
    <3>4. \A n \in 0..k : n # k => n \in 0..k - 1
          BY <3>1
    <3>5. h \in [0..k -> S]
          BY <3>1, <3>3, <3>4
    <3>6. h[0] = a
          BY <3>1, <3>3
    <3>7. ASSUME NEW n \in 1..k PROVE h[n] = g[h[n - 1]]
      <4>1. n \in 0..k /\ n - 1 \in 0..k /\ n - 1 # k /\ n - 1 \in 0..k - 1
            BY <3>1
      <4>2. CASE n = k
            BY <4>1, <4>2
      <4>3. CASE n # k
        <5>1. n \in 1..k - 1
              BY <3>1, <4>3
        <5>2. h[n] = f[n] /\ h[n - 1] = f[n - 1]
              BY <4>1, <4>3
        <5>. QED  BY <3>3, <5>1, <5>2
      <4>. QED  BY <4>2, <4>3
    <3>. HIDE DEF h
    <3>8. \E e \in [0..k -> S] : Good(k, e)
          BY <3>5, <3>6, <3>7
    <3>. QED  BY <2>1, <3>8
  <2>. QED  BY <2>2, <2>3
<1>. QED  BY <1>1 DEF Walks

=============================================================================
