--------------------------- MODULE Uninits_proofs ---------------------------
(***************************************************************************)
(* UNINIT for any set of objects, any hash values, any capacity and any    *)
(* number of objects made: the hash table keeps its chains whole and is a  *)
(* dictionary, and with it no UNINIT is forgotten, sent twice, sent to a   *)
(* live object or to one that is no longer in memory.                      *)
(***************************************************************************)
EXTENDS Uninits, StackLemmas

-----------------------------------------------------------------------------
(* What a hash table is.                                                   *)

Values == {".nil", ".true", ".false", None}

EntrySet(u) == [index : Objects \cup {None}, value : Values, next : 0..2 * u - 1]

TableSet(u) == [u_size : {u}, free : u - 1..2 * u - 1, entries : [0..2 * u - 1 -> EntrySet(u)]]

\* The chains of a table with u hash slots and entries e: every entry is in
\* the chain of its own slot, which begins there and goes on in overflow slots.
Linked(u, e) ==
    /\ \A p \in 0..2 * u - 1 : e[p].index = None => e[p].value = None /\ e[p].next = NoMore
    /\ \A p \in 0..2 * u - 1 : p < u /\ e[p].index # None => Hash[e[p].index] % u = p
    /\ \A p \in 0..2 * u - 1 : e[p].next # NoMore =>
          /\ e[p].next >= u
          /\ e[e[p].next].index # None
          /\ Hash[e[e[p].next].index] % u = Hash[e[p].index] % u
    /\ \A p, q \in 0..2 * u - 1 : e[p].next # NoMore /\ e[p].next = e[q].next => p = q
    /\ \A q \in 0..2 * u - 1 : q >= u /\ e[q].index # None => \E p \in 0..2 * u - 1 : e[p].next = q
    /\ \A p, q \in 0..2 * u - 1 : e[p].index # None /\ e[p].index = e[q].index => p = q

\* They have no circle: the rank falls along a chain.
Ranked(u, e, K, rank) ==
    /\ K \in Nat
    /\ rank \in [0..2 * u - 1 -> 0..K]
    /\ \A p \in 0..2 * u - 1 : e[p].next # NoMore => rank[e[p].next] < rank[p]

Acyclic(u, e) == \E K \in Nat : \E rank \in [0..2 * u - 1 -> 0..K] : Ranked(u, e, K, rank)

\* No empty overflow slot is above where the search for one begins.
FreeBound(t) == \A p \in 0..2 * t.u_size - 1 : p >= t.u_size /\ t.entries[p].index = None => p <= t.free

Typed(t) == t.u_size \in Nat \ {0} /\ t \in TableSet(t.u_size)

Chained(t) ==
    /\ Typed(t)
    /\ Linked(t.u_size, t.entries)
    /\ Acyclic(t.u_size, t.entries)
    /\ FreeBound(t)

\* The table has object o with value v.
Has(t, o, v) == \E p \in Positions(t) : t.entries[p].index = o /\ t.entries[p].value = v

-----------------------------------------------------------------------------
(* Chains.                                                                 *)

\* What the fields of a table are.
LEMMA EntryTypes ==
    ASSUME NEW t, Typed(t)
    PROVE  /\ t.u_size \in Nat \ {0}
           /\ Positions(t) = 0..2 * t.u_size - 1
           /\ t.free \in t.u_size - 1..2 * t.u_size - 1
           /\ t.entries \in [0..2 * t.u_size - 1 -> EntrySet(t.u_size)]
           /\ \A p \in 0..2 * t.u_size - 1 :
                 /\ t.entries[p].index \in Objects \cup {None}
                 /\ t.entries[p].value \in Values
                 /\ t.entries[p].next \in 0..2 * t.u_size - 1
<1>1. t.u_size \in Nat \ {0} /\ t \in TableSet(t.u_size)
      BY DEF Typed
<1>2. t.free \in t.u_size - 1..2 * t.u_size - 1 /\ t.entries \in [0..2 * t.u_size - 1 -> EntrySet(t.u_size)]
      BY <1>1 DEF TableSet
<1>3. Positions(t) = 0..2 * t.u_size - 1
      BY <1>2 DEF Positions
<1>4. \A p \in 0..2 * t.u_size - 1 : t.entries[p] \in EntrySet(t.u_size)
      BY <1>2
<1>5. ASSUME NEW p \in 0..2 * t.u_size - 1
      PROVE  /\ t.entries[p].index \in Objects \cup {None}
             /\ t.entries[p].value \in Values
             /\ t.entries[p].next \in 0..2 * t.u_size - 1
      BY <1>4 DEF EntrySet
<1>. QED  BY <1>1, <1>2, <1>3, <1>5

\* The hash slot of an object is a hash slot.
LEMMA SlotType ==
    ASSUME NEW o \in Objects, NEW u \in Nat \ {0}
    PROVE  Hash[o] % u \in 0..u - 1
<1>1. Hash[o] \in Nat
      BY HashTyped
<1>. QED  BY <1>1

\* The numbers of a row.
LEMMA RowSize ==
    ASSUME NEW a \in Int, NEW c \in Int, a <= c + 1
    PROVE  IsFiniteSet(a..c) /\ Cardinality(a..c) = c - a + 1
<1>1. IsFiniteSet(a..c) /\ Cardinality(a..c) = IF a > c THEN 0 ELSE c - a + 1
      BY FS_Interval
<1>. QED  BY <1>1

\* Numbers from a row do not all fit, without repetition, in a shorter row.
LEMMA TooMany ==
    ASSUME NEW a \in Int, NEW c \in Int, a <= c + 1, NEW b \in Int, NEW d \in Int, b <= d + 1,
           NEW h \in [a..c -> b..d],
           \A i, j \in a..c : h[i] = h[j] => i = j
    PROVE  c - a <= d - b
<1>1. IsFiniteSet(a..c) /\ Cardinality(a..c) = c - a + 1
      BY RowSize
<1>2. IsFiniteSet(b..d) /\ Cardinality(b..d) = d - b + 1
      BY RowSize
<1>3. h \in Injection(a..c, b..d)
      BY DEF Injection, IsInjective
<1>4. Cardinality(a..c) <= Cardinality(b..d)
      BY <1>2, <1>3, FS_Injection
<1>. QED  BY <1>1, <1>2, <1>4

\* f goes along the chain of a hash slot and does not come to its end.
Follows(u, e, k, f) == f[0] < u /\ \A n \in 1..k : f[n] = e[f[n - 1]].next /\ f[n] # NoMore

\* Such a walk comes nowhere twice.
LEMMA ChainWalk ==
    ASSUME NEW u \in Nat \ {0}, NEW e \in [0..2 * u - 1 -> EntrySet(u)], Linked(u, e),
           NEW k \in Nat, NEW f \in [0..k -> 0..2 * u - 1],
           Follows(u, e, k, f)
    PROVE  \A i, j \in 0..k : f[i] = f[j] => i = j
<1>. DEFINE T == {i \in 0..k : \E j \in 0..k : i < j /\ f[i] = f[j]}
<1>. USE DEF Follows
<1>1. \A n \in 1..k : f[n] >= u
  <2>. SUFFICES ASSUME NEW n \in 1..k PROVE f[n] >= u
       OBVIOUS
  <2>1. n - 1 \in 0..k /\ f[n - 1] \in 0..2 * u - 1
        OBVIOUS
  <2>2. e[f[n - 1]].next # NoMore => e[f[n - 1]].next >= u
        BY <2>1 DEF Linked
  <2>. QED  BY <2>2
<1>2. T = {}
  <2>. SUFFICES ASSUME T # {} PROVE FALSE
       OBVIOUS
  <2>1. PICK i \in T : \A y \in T : i <= y
    <3>1. T \in SUBSET Nat
          OBVIOUS
    <3>. HIDE DEF T
    <3>. QED  BY <3>1, Least
  <2>2. PICK j \in 0..k : i < j /\ f[i] = f[j]
        OBVIOUS
  <2>3. i \in 0..k /\ j \in 1..k /\ f[j] >= u
        BY <1>1, <2>2
  <2>4. i # 0
    <3>1. f[i] >= u
          BY <2>2, <2>3
    <3>2. f[0] \in 0..2 * u - 1
          OBVIOUS
    <3>. QED  BY <3>1, <3>2
  <2>5. i \in 1..k /\ i - 1 \in 0..k /\ j - 1 \in 0..k /\ i - 1 < j - 1 /\ ~(i <= i - 1)
        BY <2>2, <2>3, <2>4
  <2>6. /\ f[i - 1] \in 0..2 * u - 1 /\ f[j - 1] \in 0..2 * u - 1
        /\ e[f[i - 1]].next # NoMore /\ e[f[i - 1]].next = e[f[j - 1]].next
        BY <2>2, <2>3, <2>5
  <2>7. f[i - 1] = f[j - 1]
        BY <2>6 DEF Linked
  <2>8. i - 1 \in T
        BY <2>5, <2>7
  <2>. QED  BY <2>1, <2>5, <2>8
<1>3. ASSUME NEW i \in 0..k, NEW j \in 0..k, f[i] = f[j] PROVE i = j
  <2>1. ~(i < j) /\ ~(j < i)
        BY <1>2, <1>3
  <2>. QED  BY <2>1
<1>. QED  BY <1>3

\* c is a chain of the table: it goes from entry to entry to one that has no next.
IsChain(u, e, s, c) ==
    /\ c \in Seq(0..2 * u - 1)
    /\ Len(c) \in Nat \ {0}
    /\ \A i \in 1..Len(c) : c[i] \in 0..2 * u - 1
    /\ c[1] = s
    /\ \A i \in 1..Len(c) - 1 : e[c[i]].next = c[i + 1] /\ c[i + 1] # NoMore
    /\ e[c[Len(c)]].next = NoMore
    /\ \A i, j \in 1..Len(c) : c[i] = c[j] => i = j

\* What the recursion of Chain computes is such a chain.
LEMMA ChainFacts ==
    ASSUME NEW t, Chained(t), NEW o \in Objects
    PROVE  /\ IsChain(t.u_size, t.entries, Slot(t, o), Chain(t, o))
           /\ Slot(t, o) \in 0..t.u_size - 1
<1>. DEFINE u == t.u_size
            e == t.entries
            P == 0..2 * u - 1
            s == Slot(t, o)
            g == [p \in P |-> e[p].next]
<1>1. /\ u \in Nat \ {0} /\ e \in [P -> EntrySet(u)] /\ Linked(u, e)
      /\ \A p \in P : e[p].next \in P
      BY EntryTypes DEF Chained
<1>2. s \in 0..u - 1
      BY <1>1, SlotType DEF Slot
<1>3. s \in P /\ g \in [P -> P]
      BY <1>1, <1>2
<1>. HIDE DEF u, e, s, g
<1>4. PICK f \in [0..u -> P] : Walks(f, u, s, g)
  <2>. HIDE DEF P
  <2>. QED  BY <1>1, <1>3, Iterates
<1>5. f[0] = s /\ \A n \in 1..u : f[n] = e[f[n - 1]].next
  <2>1. ASSUME NEW n \in 1..u PROVE f[n - 1] \in P /\ g[f[n - 1]] = e[f[n - 1]].next
    <3>1. n - 1 \in 0..u
          BY <1>1
    <3>2. f[n - 1] \in P
          BY <1>4, <3>1
    <3>. QED  BY <3>2 DEF g
  <2>. QED  BY <1>4, <2>1 DEF Walks
<1>. DEFINE nth == CHOOSE nth : nth = [n \in 0..u |-> IF n = 0 THEN s ELSE e[nth[n - 1]].next]
<1>6. nth = [n \in 0..u |-> IF n = 0 THEN s ELSE e[nth[n - 1]].next]
  <2>1. f = [n \in 0..u |-> IF n = 0 THEN s ELSE e[f[n - 1]].next]
    <3>1. ASSUME NEW n \in 0..u PROVE f[n] = IF n = 0 THEN s ELSE e[f[n - 1]].next
      <4>1. n # 0 => n \in 1..u
            BY <1>1
      <4>. QED  BY <1>5, <4>1
    <3>. QED  BY <1>4, <3>1
  <2>. QED  BY <2>1
<1>. HIDE DEF nth
<1>7. \A n \in 0..u : nth[n] = IF n = 0 THEN s ELSE e[nth[n - 1]].next
      BY <1>6
<1>8. \A n \in 0..u : nth[n] \in P
  <2>. DEFINE T == {n \in 0..u : nth[n] \notin P}
  <2>. SUFFICES ASSUME T # {} PROVE FALSE
       OBVIOUS
  <2>1. PICK n \in T : \A y \in T : n <= y
    <3>1. T \in SUBSET Nat
          BY <1>1
    <3>. HIDE DEF T
    <3>. QED  BY <3>1, Least
  <2>2. n # 0
        BY <1>1, <1>3, <1>7
  <2>3. n - 1 \in 0..u /\ ~(n <= n - 1)
        BY <1>1, <2>2
  <2>4. nth[n - 1] \in P
        BY <2>1, <2>3
  <2>. QED  BY <1>1, <1>7, <2>2, <2>4
<1>. DEFINE ends == {n \in 0..u : e[nth[n]].next = NoMore}
            k == Min(ends)
            c == [i \in 1..k + 1 |-> nth[i - 1]]
<1>9. Chain(t, o) = c
      BY DEF Chain, c, k, ends, nth, u, e, s
<1>10. ASSUME NEW n \in 1..u PROVE n \in 0..u /\ n - 1 \in 0..u /\ nth[n] = e[nth[n - 1]].next /\ nth[n - 1] \in P
  <2>1. n \in 0..u /\ n - 1 \in 0..u /\ n # 0
        BY <1>1
  <2>. QED  BY <1>7, <1>8, <2>1
<1>11. nth[0] = s
      BY <1>1, <1>7
\* As long as no entry is the last, it comes nowhere twice.
<1>12. ASSUME NEW m \in 0..u, \A n \in 0..u : n < m => n \notin ends
       PROVE  \A i, j \in 0..m : nth[i] = nth[j] => i = j
  <2>. DEFINE w == [n \in 0..m |-> nth[n]]
  <2>1. m \in Nat /\ \A n \in 0..m : n \in 0..u /\ w[n] = nth[n] /\ w[n] \in P
        BY <1>1, <1>8
  <2>2. ASSUME NEW n \in 1..m PROVE w[n] = e[w[n - 1]].next /\ w[n] # NoMore
    <3>1. n \in 1..u /\ n \in 0..m /\ n - 1 \in 0..m /\ n - 1 < m
          BY <1>1
    <3>2. n - 1 \notin ends /\ n - 1 \in 0..u
          BY <1>10, <1>12, <3>1
    <3>3. w[n] = nth[n] /\ w[n - 1] = nth[n - 1]
          BY <3>1
    <3>. QED  BY <1>10, <3>1, <3>2, <3>3
  <2>3. w[0] < u
    <3>1. w[0] = s
          BY <1>11, <2>1
    <3>. QED  BY <1>1, <1>2, <3>1
  <2>4. w \in [0..m -> P]
        BY <2>1
  <2>. HIDE DEF w, ends
  <2>5. Follows(u, e, m, w)
        BY <2>2, <2>3 DEF Follows
  <2>6. \A i, j \in 0..m : w[i] = w[j] => i = j
    <3>1. /\ u \in Nat \ {0} /\ e \in [0..2 * u - 1 -> EntrySet(u)] /\ Linked(u, e)
          /\ m \in Nat /\ w \in [0..m -> 0..2 * u - 1]
          BY <1>1, <2>1, <2>4
    <3>. QED  BY <2>5, <3>1, ChainWalk
  <2>. QED  BY <2>1, <2>6
\* An entry is: there are not enough overflow slots.
<1>13. ends # {}
  <2>. SUFFICES ASSUME ends = {} PROVE FALSE
       OBVIOUS
  <2>. DEFINE h == [n \in 0..u |-> e[nth[n]].next]
  <2>1. \A i, j \in 0..u : nth[i] = nth[j] => i = j
    <3>1. u \in 0..u
          BY <1>1
    <3>. HIDE DEF ends
    <3>. QED  BY <1>12, <3>1
  <2>2. ASSUME NEW n \in 0..u PROVE h[n] \in u..2 * u - 1 /\ h[n] = e[nth[n]].next /\ h[n] # NoMore
    <3>1. nth[n] \in P /\ h[n] = e[nth[n]].next /\ h[n] # NoMore
          BY <1>8
    <3>2. h[n] >= u /\ h[n] \in P
          BY <1>1, <3>1 DEF Linked
    <3>. QED  BY <1>1, <3>1, <3>2
  <2>3. h \in [0..u -> u..2 * u - 1]
        BY <2>2
  <2>4. ASSUME NEW i \in 0..u, NEW j \in 0..u, h[i] = h[j] PROVE i = j
    <3>1. nth[i] = nth[j]
          BY <1>1, <1>8, <2>2, <2>4 DEF Linked
    <3>. QED  BY <2>1, <3>1
  <2>. HIDE DEF h, ends
  <2>5. 0 \in Int /\ u \in Int /\ 0 <= u + 1 /\ 2 * u - 1 \in Int /\ u <= (2 * u - 1) + 1
        BY <1>1
  <2>6. u - 0 <= (2 * u - 1) - u
        BY <2>3, <2>4, <2>5, TooMany
  <2>. QED  BY <1>1, <2>6
<1>14. k \in 0..u /\ k \in ends /\ \A n \in ends : k <= n
  <2>1. ends \subseteq 0..u /\ ends \in SUBSET Nat
        BY <1>1
  <2>. HIDE DEF ends
  <2>2. \E x \in ends : \A y \in ends : x <= y
        BY <1>13, <2>1, Least
  <2>3. k \in ends /\ \A n \in ends : k <= n
        BY <2>2 DEF k, Min
  <2>. QED  BY <2>1, <2>3
<1>15. \A n \in 0..u : n < k => n \notin ends
  <2>. HIDE DEF k, ends
  <2>. QED  BY <1>1, <1>14
<1>16. e[nth[k]].next = NoMore /\ \A n \in 0..k : n < k => e[nth[n]].next # NoMore
  <2>. HIDE DEF k
  <2>1. \A n \in 0..k : n \in 0..u
        BY <1>1, <1>14
  <2>. QED  BY <1>14, <1>15, <2>1
<1>17. \A i, j \in 0..k : nth[i] = nth[j] => i = j
  <2>. HIDE DEF k, ends
  <2>. QED  BY <1>12, <1>14, <1>15
<1>. HIDE DEF k, ends, P
<1>18. c \in Seq(P) /\ Len(c) = k + 1 /\ \A i \in 1..k + 1 : c[i] = nth[i - 1] /\ i - 1 \in 0..k /\ i - 1 \in 0..u
  <2>1. \A i \in 1..k + 1 : i - 1 \in 0..k /\ i - 1 \in 0..u
        BY <1>1, <1>14
  <2>2. c \in [1..k + 1 -> P] /\ k + 1 \in Nat
        BY <1>8, <1>14, <2>1
  <2>. QED  BY <2>1, <2>2
<1>. HIDE DEF c
<1>19. c[1] = s /\ e[c[k + 1]].next = NoMore
  <2>1. 1 \in 1..k + 1 /\ k + 1 \in 1..k + 1 /\ k + 1 - 1 = k
        BY <1>1, <1>14
  <2>2. c[1] = nth[1 - 1]
        BY <1>18, <2>1
  <2>3. ASSUME NEW i \in 1..k + 1, i = k + 1 PROVE c[i] = nth[k]
    <3>1. c[i] = nth[i - 1]
          BY <1>18
    <3>2. i - 1 = k
          BY <1>1, <1>14, <2>3
    <3>. QED  BY <3>1, <3>2
  <2>. QED  BY <1>11, <1>16, <2>1, <2>2, <2>3
<1>20. ASSUME NEW i \in 1..k PROVE e[c[i]].next = c[i + 1] /\ c[i + 1] # NoMore
  <2>1. i \in 1..k + 1 /\ i + 1 \in 1..k + 1 /\ i + 1 - 1 = i /\ i \in 1..u /\ i - 1 < k /\ i - 1 \in 0..k
        BY <1>1, <1>14
  <2>2. c[i] = nth[i - 1] /\ c[i + 1] = nth[i]
        BY <1>18, <2>1
  <2>. QED  BY <1>10, <1>16, <2>1, <2>2
<1>21. ASSUME NEW i \in 1..k + 1, NEW j \in 1..k + 1, c[i] = c[j] PROVE i = j
  <2>1. i - 1 = j - 1
        BY <1>17, <1>18, <1>21
  <2>. QED  BY <1>14, <2>1
<1>22. \A i \in 1..k + 1 : c[i] \in P
      BY <1>8, <1>18
<1>23. Len(c) \in Nat \ {0} /\ Len(c) - 1 = k
      BY <1>14, <1>18
<1>24. IsChain(u, e, s, c)
      BY <1>14, <1>18, <1>19, <1>20, <1>21, <1>22, <1>23 DEF IsChain, P
<1>. QED  BY <1>2, <1>9, <1>24 DEF u, e, s

\* Every entry is on the chain of its slot: another one that is first missing
\* would be the next of one that is not.
LEMMA OnChain ==
    ASSUME NEW u \in Nat \ {0}, NEW e \in [0..2 * u - 1 -> EntrySet(u)], Linked(u, e), Acyclic(u, e),
           NEW s \in 0..u - 1, NEW c, IsChain(u, e, s, c),
           NEW p \in 0..2 * u - 1, e[p].index # None, Hash[e[p].index] % u = s
    PROVE  \E i \in 1..Len(c) : c[i] = p
<1>. DEFINE P == 0..2 * u - 1
            Missing(q) == q \in P /\ e[q].index # None /\ Hash[e[q].index] % u = s
                          /\ ~\E i \in 1..Len(c) : c[i] = q
<1>1. PICK K \in Nat : \E rank \in [P -> 0..K] : Ranked(u, e, K, rank)
      BY DEF Acyclic
<1>2. PICK rank \in [P -> 0..K] : Ranked(u, e, K, rank)
      BY <1>1
<1>. DEFINE T == {k \in Nat : \E q \in P : Missing(q) /\ k = K - rank[q]}
<1>. SUFFICES ASSUME Missing(p) PROVE FALSE
     OBVIOUS
<1>3. \A q \in P : rank[q] \in 0..K /\ K - rank[q] \in Nat
  <2>1. K \in Nat /\ rank \in [P -> 0..K]
        BY <1>1, <1>2 DEF Ranked
  <2>2. \A q \in P : rank[q] \in 0..K
        BY <2>1
  <2>. QED  BY <2>1, <2>2
<1>4. T # {} /\ T \in SUBSET Nat
      BY <1>3
<1>5. PICK k \in T : \A y \in T : k <= y
  <2>. HIDE DEF T
  <2>. QED  BY <1>4, Least
<1>6. PICK q \in P : Missing(q) /\ k = K - rank[q]
      BY <1>5
<1>7. Len(c) \in Nat \ {0} /\ c[1] = s /\ \A i \in 1..Len(c) : c[i] \in P
      BY DEF IsChain
<1>8. q >= u
  <2>. SUFFICES ASSUME ~(q >= u) PROVE FALSE
       OBVIOUS
  <2>1. \A x \in 0..2 * u - 1 : x < u /\ e[x].index # None => Hash[e[x].index] % u = x
        BY DEF Linked
  <2>2. q < u /\ e[q].index # None /\ Hash[e[q].index] % u = s
        BY <1>6
  <2>3. q = s
        BY <2>1, <2>2
  <2>4. 1 \in 1..Len(c) /\ c[1] = q
        BY <1>7, <2>3
  <2>. QED  BY <1>6, <2>4
<1>9. PICK r \in P : e[r].next = q
      BY <1>6, <1>8 DEF Linked
<1>10. q # NoMore
      BY <1>8 DEF NoMore
<1>11. e[r].index # None /\ Hash[e[r].index] % u = s
      BY <1>6, <1>9, <1>10 DEF Linked
<1>12. rank[q] < rank[r]
      BY <1>2, <1>9, <1>10 DEF Ranked
<1>13. K - rank[r] \in Nat /\ ~(k <= K - rank[r])
  <2>1. K \in Nat /\ rank[q] \in 0..K /\ rank[r] \in 0..K /\ k = K - rank[q]
        BY <1>3, <1>6
  <2>. HIDE DEF Missing, T
  <2>. QED  BY <1>12, <2>1
<1>14. ~Missing(r)
  <2>. HIDE DEF Missing
  <2>. QED  BY <1>5, <1>13
<1>15. PICK i \in 1..Len(c) : c[i] = r
      BY <1>11, <1>14
<1>16. i # Len(c)
      BY <1>9, <1>10, <1>15 DEF IsChain
<1>17. i \in 1..Len(c) - 1 /\ i + 1 \in 1..Len(c)
      BY <1>7, <1>16
<1>18. c[i + 1] = q
      BY <1>9, <1>15, <1>17 DEF IsChain
<1>. QED  BY <1>6, <1>17, <1>18

\* Where position p of object o is found: in the hash slot, or behind another one.
Found(u, e, s, c, place, p) ==
    /\ place \in 1..Len(c) /\ c[place] = p
    /\ place = 1 => p = s
    /\ place # 1 => c[place - 1] \in 0..2 * u - 1 /\ e[c[place - 1]].next = p /\ p # NoMore

\* An object of the table is found on its chain, another one is not.
LEMMA PlaceFacts ==
    ASSUME NEW t, Chained(t), NEW o \in Objects
    PROVE  /\ \A p \in 0..2 * t.u_size - 1 : t.entries[p].index = o =>
                 Found(t.u_size, t.entries, Slot(t, o), Chain(t, o), Place(t, o), p)
           /\ Place(t, o) # 0 => o \in Indexes(t)
<1>. DEFINE u == t.u_size
            e == t.entries
            P == 0..2 * u - 1
            s == Slot(t, o)
            c == Chain(t, o)
            I == {i \in 1..Len(c) : e[c[i]].index = o}
<1>1. /\ u \in Nat \ {0} /\ e \in [P -> EntrySet(u)] /\ Linked(u, e) /\ Acyclic(u, e)
      /\ \A p \in P : e[p].next \in P
      /\ Positions(t) = P
      BY EntryTypes DEF Chained
<1>2. IsChain(u, e, s, c) /\ s \in 0..u - 1
      BY ChainFacts
<1>3. Place(t, o) = IF I # {} THEN Min(I) ELSE 0
      BY DEF Place, SelectInSeq
<1>4. o # None
      BY HashTyped
<1>5. Len(c) \in Nat \ {0} /\ \A i \in 1..Len(c) : c[i] \in P
      BY <1>2 DEF IsChain
<1>6. I \in SUBSET Nat
      OBVIOUS
<1>7. ASSUME I # {} PROVE Min(I) \in I
  <2>. HIDE DEF I
  <2>1. \E x \in I : \A y \in I : x <= y
        BY <1>6, <1>7, Least
  <2>. QED  BY <2>1 DEF Min
<1>8. ASSUME NEW p \in P, e[p].index = o PROVE Found(u, e, s, c, Place(t, o), p)
  <2>1. e[p].index # None /\ Hash[e[p].index] % u = s
        BY <1>4, <1>8 DEF Slot
  <2>2. \E i \in 1..Len(c) : c[i] = p
    <3>1. p \in 0..2 * u - 1 /\ e \in [0..2 * u - 1 -> EntrySet(u)]
          BY <1>1
    <3>2. u \in Nat \ {0} /\ Linked(u, e) /\ Acyclic(u, e)
          BY <1>1
    <3>. HIDE DEF P, I, u, e, s, c
    <3>. QED  BY <1>2, <2>1, <3>1, <3>2, OnChain
  <2>3. I # {}
        BY <1>8, <2>2
  <2>4. Place(t, o) \in I
        BY <1>3, <1>7, <2>3
  <2>. DEFINE k == Place(t, o)
  <2>. HIDE DEF u, e, s, c, k
  <2>5. k \in 1..Len(c) /\ e[c[k]].index = o /\ c[k] \in P
        BY <1>5, <2>4 DEF k
  <2>6. c[k] = p
        BY <1>1, <1>4, <1>8, <2>5 DEF Linked
  <2>7. k = 1 => p = s
        BY <1>2, <2>6 DEF IsChain
  <2>8. ASSUME k # 1 PROVE c[k - 1] \in P /\ e[c[k - 1]].next = p /\ p # NoMore
    <3>1. k - 1 \in 1..Len(c) - 1 /\ k - 1 \in 1..Len(c) /\ k - 1 + 1 = k
          BY <1>5, <2>5, <2>8
    <3>2. e[c[k - 1]].next = c[k - 1 + 1] /\ c[k - 1 + 1] # NoMore
          BY <1>2, <3>1 DEF IsChain
    <3>. QED  BY <1>5, <2>6, <3>1, <3>2
  <2>9. Found(u, e, s, c, k, p)
        BY <2>5, <2>6, <2>7, <2>8 DEF Found
  <2>. QED  BY <2>9 DEF k
<1>9. ASSUME Place(t, o) # 0 PROVE o \in Indexes(t)
  <2>1. Place(t, o) \in I
        BY <1>3, <1>7, <1>9
  <2>. DEFINE p == c[Place(t, o)]
  <2>2. p \in P /\ e[p].index = o
        BY <1>5, <2>1
  <2>. HIDE DEF c, p
  <2>. QED  BY <1>1, <1>4, <2>2 DEF Indexes, Occupied
<1>. QED  BY <1>8, <1>9

-----------------------------------------------------------------------------
(* What keeps the chains whole.                                            *)

NextsIn(u, e) == \A p \in 0..2 * u - 1 : e[p].next \in 0..2 * u - 1

\* Entries p of e and q of e2 are of the same object and have the same next.
SameLink(e, p, e2, q) == e2[q].index = e[p].index /\ e2[q].value = e[p].value /\ e2[q].next = e[p].next

Whole(u, e) == NextsIn(u, e) /\ Linked(u, e) /\ Acyclic(u, e)

\* e2 is e with other values.
Revalues(u, e, e2) ==
    \A p \in 0..2 * u - 1 :
       /\ e2[p].index = e[p].index /\ e2[p].next = e[p].next
       /\ e[p].index = None => e2[p].value = None

\* e2 is e with a new entry of o in the empty hash slot s.
Fills(u, e, e2, o, s) ==
    /\ s = Hash[o] % u /\ e[s].index = None
    /\ \A p \in 0..2 * u - 1 : e[p].index # o
    /\ e2[s].index = o /\ e2[s].next = e[s].next
    /\ \A p \in 0..2 * u - 1 : p # s => SameLink(e, p, e2, p)

\* e2 is e with a new entry of o in the hash slot s, and what was there in over.
Pushes(u, e, e2, o, s, over) ==
    /\ s = Hash[o] % u /\ e[s].index # None /\ e[over].index = None
    /\ \A p \in 0..2 * u - 1 : e[p].index # o
    /\ e2[s].index = o /\ e2[s].next = over /\ SameLink(e, s, e2, over)
    /\ \A p \in 0..2 * u - 1 : p # s /\ p # over => SameLink(e, p, e2, p)

\* e2 is e without the entry at r, whose position the one that follows, at n, took.
Pulls(u, e, e2, r, n) ==
    /\ e[r].next = n /\ n # NoMore
    /\ SameLink(e, n, e2, r) /\ e2[n] = Unused
    /\ \A p \in 0..2 * u - 1 : p # r /\ p # n => SameLink(e, p, e2, p)

\* e2 is e without the entry at r, the last of its chain.
Cuts(u, e, e2, r) ==
    /\ e[r].index # None /\ e[r].next = NoMore /\ e2[r] = Unused
    /\ \A p \in 0..2 * u - 1 : p # r =>
          /\ e2[p].index = e[p].index /\ e2[p].value = e[p].value
          /\ e2[p].next = IF e[p].next = r THEN NoMore ELSE e[p].next

\* Changing values.
LEMMA ValuesKeepLinks ==
    ASSUME NEW u \in Nat \ {0}, NEW e, Whole(u, e),
           NEW e2, Revalues(u, e, e2)
    PROVE  Linked(u, e2) /\ Acyclic(u, e2)
<1>. USE DEF Whole, Revalues
<1>. DEFINE P == 0..2 * u - 1
<1>1. \A p \in P : e[p].next \in P
      BY DEF NextsIn
<1>2. Linked(u, e2)
  <2>1. \A p \in P : e2[p].index = None => e2[p].value = None /\ e2[p].next = NoMore
        BY DEF Linked
  <2>2. \A p \in P : p < u /\ e2[p].index # None => Hash[e2[p].index] % u = p
        BY DEF Linked
  <2>3. ASSUME NEW p \in P, e2[p].next # NoMore
        PROVE  /\ e2[p].next >= u
               /\ e2[e2[p].next].index # None
               /\ Hash[e2[e2[p].next].index] % u = Hash[e2[p].index] % u
        BY <1>1, <2>3 DEF Linked
  <2>4. \A p, q \in P : e2[p].next # NoMore /\ e2[p].next = e2[q].next => p = q
        BY DEF Linked
  <2>5. \A q \in P : q >= u /\ e2[q].index # None => \E p \in P : e2[p].next = q
        BY DEF Linked
  <2>6. \A p, q \in P : e2[p].index # None /\ e2[p].index = e2[q].index => p = q
        BY DEF Linked
  <2>. QED  BY <2>1, <2>2, <2>3, <2>4, <2>5, <2>6 DEF Linked
<1>3. ASSUME NEW K \in Nat, NEW rank \in [P -> 0..K], Ranked(u, e, K, rank)
      PROVE  Ranked(u, e2, K, rank)
      BY <1>3 DEF Ranked
<1>4. Acyclic(u, e2)
      BY <1>3 DEF Acyclic
<1>. QED  BY <1>2, <1>4

\* A new entry in an empty hash slot.
LEMMA FillKeepsLinks ==
    ASSUME NEW u \in Nat \ {0}, NEW e, Whole(u, e),
           NEW e2, NEW o \in Objects, NEW s \in 0..u - 1, Fills(u, e, e2, o, s)
    PROVE  Linked(u, e2) /\ Acyclic(u, e2)
<1>. USE DEF Whole, Fills
<1>. DEFINE P == 0..2 * u - 1
<1>1. s \in P
      OBVIOUS
<1>2. o # None
      BY HashTyped
<1>3. e[s].next = NoMore
      BY <1>1 DEF Linked
<1>4. \A p \in P : e2[p].next = e[p].next /\ e[p].next \in P
      BY DEF SameLink, NextsIn
<1>5. \A p \in P : p # s => e2[p].index = e[p].index /\ e2[p].value = e[p].value
      BY DEF SameLink
<1>6. Linked(u, e2)
  <2>1. \A p \in P : e2[p].index = None => e2[p].value = None /\ e2[p].next = NoMore
        BY <1>2, <1>4, <1>5 DEF Linked
  <2>2. \A p \in P : p < u /\ e2[p].index # None => Hash[e2[p].index] % u = p
        BY <1>5 DEF Linked
  <2>3. ASSUME NEW p \in P, e2[p].next # NoMore
        PROVE  /\ e2[p].next >= u
               /\ e2[e2[p].next].index # None
               /\ Hash[e2[e2[p].next].index] % u = Hash[e2[p].index] % u
    <3>1. p # s /\ e2[p].next = e[p].next /\ e[p].next \in P
          BY <1>3, <1>4, <2>3
    <3>2. /\ e[p].next >= u /\ e[e[p].next].index # None
          /\ Hash[e[e[p].next].index] % u = Hash[e[p].index] % u
          BY <2>3, <3>1 DEF Linked
    <3>3. e[p].next # s
          BY <3>1, <3>2
    <3>. QED  BY <1>5, <3>1, <3>2, <3>3
  <2>4. \A p, q \in P : e2[p].next # NoMore /\ e2[p].next = e2[q].next => p = q
        BY <1>4 DEF Linked
  <2>5. ASSUME NEW q \in P, q >= u, e2[q].index # None PROVE \E p \in P : e2[p].next = q
    <3>1. q # s
          BY <2>5
    <3>2. \E p \in P : e[p].next = q
          BY <1>5, <2>5, <3>1 DEF Linked
    <3>. QED  BY <1>4, <3>2
  <2>6. ASSUME NEW p \in P, NEW q \in P, e2[p].index # None, e2[p].index = e2[q].index PROVE p = q
        BY <1>5, <2>6 DEF Linked
  <2>. QED  BY <2>1, <2>2, <2>3, <2>4, <2>5, <2>6 DEF Linked
<1>7. ASSUME NEW K \in Nat, NEW rank \in [P -> 0..K], Ranked(u, e, K, rank)
      PROVE  Ranked(u, e2, K, rank)
      BY <1>4, <1>7 DEF Ranked
<1>8. Acyclic(u, e2)
      BY <1>7 DEF Acyclic
<1>. QED  BY <1>6, <1>8

\* A new entry in a hash slot, whose entry moves to an empty overflow slot.
LEMMA PushKeepsLinks ==
    ASSUME NEW u \in Nat \ {0}, NEW e, Whole(u, e),
           NEW e2, NEW o \in Objects, NEW s \in 0..u - 1, NEW over \in u..2 * u - 1,
           Pushes(u, e, e2, o, s, over)
    PROVE  Linked(u, e2) /\ Acyclic(u, e2)
<1>. USE DEF Whole, Pushes
<1>. DEFINE P == 0..2 * u - 1
<1>1. s \in P /\ over \in P /\ s # over /\ over # NoMore /\ over >= u /\ s < u
      BY DEF NoMore
<1>2. o # None
      BY HashTyped
<1>3. \A p \in P : e[p].next \in P
      BY DEF NextsIn
<1>4. \A p \in P : e[p].next # over
      BY <1>1 DEF Linked
<1>5. \A p \in P : e[p].next # NoMore => e[p].next # s
      BY <1>1, <1>3 DEF Linked
<1>6. /\ e2[over].index = e[s].index /\ e2[over].next = e[s].next /\ e2[over].value = e[s].value
      /\ \A p \in P : p # s /\ p # over =>
            e2[p].index = e[p].index /\ e2[p].value = e[p].value /\ e2[p].next = e[p].next
      BY DEF SameLink
<1>7. Linked(u, e2)
  <2>1. \A p \in P : e2[p].index = None => e2[p].value = None /\ e2[p].next = NoMore
        BY <1>2, <1>6 DEF Linked
  <2>2. \A p \in P : p < u /\ e2[p].index # None => Hash[e2[p].index] % u = p
        BY <1>1, <1>6 DEF Linked
  <2>3. ASSUME NEW p \in P, e2[p].next # NoMore
        PROVE  /\ e2[p].next >= u
               /\ e2[e2[p].next].index # None
               /\ Hash[e2[e2[p].next].index] % u = Hash[e2[p].index] % u
    <3>1. CASE p = s
      <4>1. Hash[e[s].index] % u = s
            BY <1>1 DEF Linked
      <4>. QED  BY <1>1, <1>6, <3>1, <4>1
    <3>2. ASSUME NEW r \in P, e[r].next # NoMore, e2[p].next = e[r].next, e2[p].index = e[r].index
          PROVE  /\ e2[p].next >= u
                 /\ e2[e2[p].next].index # None
                 /\ Hash[e2[e2[p].next].index] % u = Hash[e2[p].index] % u
      <4>1. /\ e[r].next >= u /\ e[e[r].next].index # None
            /\ Hash[e[e[r].next].index] % u = Hash[e[r].index] % u
            BY <3>2 DEF Linked
      <4>2. e2[e[r].next].index = e[e[r].next].index
            BY <1>3, <1>4, <1>5, <1>6, <3>2
      <4>. QED  BY <3>2, <4>1, <4>2
    <3>3. CASE p = over
          BY <1>1, <1>6, <2>3, <3>2, <3>3
    <3>4. CASE p # s /\ p # over
          BY <1>6, <2>3, <3>2, <3>4
    <3>. QED  BY <3>1, <3>3, <3>4
  <2>4. ASSUME NEW p \in P, NEW q \in P, e2[p].next # NoMore, e2[p].next = e2[q].next PROVE p = q
    <3>. DEFINE r(x) == IF x = over THEN s ELSE x
    <3>1. \A x \in P : x # s => e2[x].next = e[r(x)].next /\ r(x) \in P
          BY <1>1, <1>6
    <3>2. \A x \in P : x # s => e2[x].next # over
          BY <1>4, <3>1
    <3>3. CASE p = s
          BY <1>6, <2>4, <3>2, <3>3
    <3>4. CASE q = s
          BY <1>6, <2>4, <3>2, <3>4
    <3>5. CASE p # s /\ q # s
      <4>1. r(p) = r(q)
        <5>1. /\ e[r(p)].next # NoMore /\ e[r(p)].next = e[r(q)].next
              /\ r(p) \in P /\ r(q) \in P
              BY <2>4, <3>1, <3>5
        <5>. HIDE DEF r
        <5>. QED  BY <5>1 DEF Linked
      <4>. QED  BY <3>5, <4>1
    <3>. QED  BY <3>3, <3>4, <3>5
  <2>5. ASSUME NEW q \in P, q >= u, e2[q].index # None PROVE \E p \in P : e2[p].next = q
    <3>1. CASE q = over
          BY <1>1, <3>1
    <3>2. CASE q # over
      <4>1. q # s /\ e[q].index # None
            BY <1>1, <1>6, <2>5, <3>2
      <4>2. PICK p \in P : e[p].next = q
            BY <2>5, <4>1 DEF Linked
      <4>3. p # over
        <5>1. e[over].next = NoMore /\ q # NoMore
              BY <1>1, <2>5 DEF Linked, NoMore
        <5>. QED  BY <4>2, <5>1
      <4>4. CASE p = s
            BY <1>1, <1>6, <4>2, <4>4
      <4>5. CASE p # s
            BY <1>6, <4>2, <4>3, <4>5
      <4>. QED  BY <4>4, <4>5
    <3>. QED  BY <3>1, <3>2
  <2>6. ASSUME NEW p \in P, NEW q \in P, e2[p].index # None, e2[p].index = e2[q].index PROVE p = q
    <3>. DEFINE r(x) == IF x = over THEN s ELSE x
    <3>1. \A x \in P : x # s => e2[x].index = e[r(x)].index /\ r(x) \in P
          BY <1>1, <1>6
    <3>2. \A x \in P : x # s => e2[x].index # o
          BY <3>1
    <3>3. CASE p = s
          BY <2>6, <3>2, <3>3
    <3>4. CASE q = s
          BY <2>6, <3>2, <3>4
    <3>5. CASE p # s /\ q # s
      <4>1. r(p) = r(q)
        <5>1. /\ e[r(p)].index # None /\ e[r(p)].index = e[r(q)].index
              /\ r(p) \in P /\ r(q) \in P
              BY <2>6, <3>1, <3>5
        <5>. HIDE DEF r
        <5>. QED  BY <5>1 DEF Linked
      <4>. QED  BY <3>5, <4>1
    <3>. QED  BY <3>3, <3>4, <3>5
  <2>. QED  BY <2>1, <2>2, <2>3, <2>4, <2>5, <2>6 DEF Linked
<1>8. ASSUME NEW K \in Nat, NEW rank \in [P -> 0..K], Ranked(u, e, K, rank)
      PROVE  Acyclic(u, e2)
  <2>. DEFINE rank2 == [p \in P |-> IF p = s THEN K + 1 ELSE IF p = over THEN rank[s] ELSE rank[p]]
  <2>1. \A p \in P : rank[p] \in 0..K
        OBVIOUS
  <2>2. rank2 \in [P -> 0..K + 1]
        BY <1>1, <2>1
  <2>3. /\ \A p \in P : p # s /\ p # over => rank2[p] = rank[p]
        /\ rank2[s] = K + 1 /\ rank2[over] = rank[s]
        BY <1>1
  <2>. HIDE DEF rank2
  <2>4. ASSUME NEW p \in P, e2[p].next # NoMore PROVE rank2[e2[p].next] < rank2[p]
    <3>1. CASE p = s
          BY <1>1, <2>1, <2>3, <3>1
    <3>2. CASE p = over
      <4>1. e[s].next # NoMore /\ e2[p].next = e[s].next
            BY <1>6, <2>4, <3>2
      <4>2. rank[e[s].next] < rank[s]
            BY <1>1, <1>8, <4>1 DEF Ranked
      <4>3. rank2[e[s].next] = rank[e[s].next]
            BY <1>1, <1>3, <1>4, <1>5, <2>3, <4>1
      <4>. QED  BY <2>3, <3>2, <4>1, <4>2, <4>3
    <3>3. CASE p # s /\ p # over
      <4>1. e[p].next # NoMore /\ e2[p].next = e[p].next
            BY <1>6, <2>4, <3>3
      <4>2. rank[e[p].next] < rank[p]
            BY <1>8, <4>1 DEF Ranked
      <4>3. rank2[e[p].next] = rank[e[p].next]
            BY <1>1, <1>3, <1>4, <1>5, <2>3, <4>1
      <4>. QED  BY <2>3, <3>3, <4>1, <4>2, <4>3
    <3>. QED  BY <3>1, <3>2, <3>3
  <2>5. Ranked(u, e2, K + 1, rank2)
        BY <2>2, <2>4 DEF Ranked
  <2>6. K + 1 \in Nat
        OBVIOUS
  <2>. QED  BY <2>2, <2>5, <2>6 DEF Acyclic
<1>9. Acyclic(u, e2)
      BY <1>8 DEF Acyclic
<1>. QED  BY <1>7, <1>9

\* Removing an entry with a next: the entry that follows takes its position.
LEMMA PullKeepsLinks ==
    ASSUME NEW u \in Nat \ {0}, NEW e, Whole(u, e),
           NEW e2, NEW r \in 0..2 * u - 1, NEW n \in 0..2 * u - 1, Pulls(u, e, e2, r, n)
    PROVE  Linked(u, e2) /\ Acyclic(u, e2) /\ n >= u
<1>. USE DEF Whole, Pulls
<1>. DEFINE P == 0..2 * u - 1
<1>1. /\ n >= u /\ e[n].index # None /\ Hash[e[n].index] % u = Hash[e[r].index] % u
      BY DEF Linked
<1>2. \A p \in P : e[p].next \in P
      BY DEF NextsIn
<1>3. \A p \in P : e[p].next = n => p = r
      BY DEF Linked
<1>4. n # r
  <2>1. PICK K \in Nat : \E rank \in [P -> 0..K] : Ranked(u, e, K, rank)
        BY DEF Acyclic
  <2>2. PICK rank \in [P -> 0..K] : Ranked(u, e, K, rank)
        BY <2>1
  <2>3. rank[n] < rank[r] /\ rank[r] \in 0..K /\ K \in Nat
        BY <2>1, <2>2 DEF Ranked
  <2>. QED  BY <2>3
<1>5. e2[n].index = None /\ e2[n].value = None /\ e2[n].next = NoMore
      BY DEF Unused
<1>6. /\ e2[r].index = e[n].index /\ e2[r].value = e[n].value /\ e2[r].next = e[n].next
      /\ \A p \in P : p # r /\ p # n =>
            e2[p].index = e[p].index /\ e2[p].value = e[p].value /\ e2[p].next = e[p].next
      BY DEF SameLink
<1>7. e[r].index # None
      BY DEF Linked
<1>8. \A p \in P : p # n => Hash[e2[p].index] % u = Hash[e[p].index] % u
      BY <1>1, <1>6
<1>9. \A p \in P : p # n => (e2[p].index # None <=> e[p].index # None)
      BY <1>1, <1>6, <1>7
<1>. DEFINE w(x) == IF x = r THEN n ELSE x
<1>10. \A x \in P : x # n => /\ e2[x].index = e[w(x)].index /\ e2[x].next = e[w(x)].next
                             /\ w(x) \in P
       BY <1>6
<1>11. \A x, y \in P : x # n /\ y # n /\ w(x) = w(y) => x = y
       OBVIOUS
<1>12. Linked(u, e2)
  <2>1. ASSUME NEW p \in P, e2[p].index = None PROVE e2[p].value = None /\ e2[p].next = NoMore
    <3>1. CASE p = n
          BY <1>5, <3>1
    <3>2. CASE p = r
          BY <1>1, <1>6, <2>1, <3>2
    <3>3. CASE p # n /\ p # r
          BY <1>6, <2>1, <3>3 DEF Linked
    <3>. QED  BY <3>1, <3>2, <3>3
  <2>2. ASSUME NEW p \in P, p < u, e2[p].index # None PROVE Hash[e2[p].index] % u = p
    <3>1. p # n /\ e[p].index # None
          BY <1>5, <1>9, <2>2
    <3>2. Hash[e[p].index] % u = p
          BY <2>2, <3>1 DEF Linked
    <3>. QED  BY <1>8, <3>1, <3>2
  <2>3. ASSUME NEW p \in P, e2[p].next # NoMore
        PROVE  /\ e2[p].next >= u
               /\ e2[e2[p].next].index # None
               /\ Hash[e2[e2[p].next].index] % u = Hash[e2[p].index] % u
    <3>1. p # n
          BY <1>5, <2>3
    <3>2. e2[p].next = e[w(p)].next /\ w(p) \in P /\ e2[p].index = e[w(p)].index
          BY <1>10, <3>1
    <3>. DEFINE q == e[w(p)].next
    <3>3. q # NoMore /\ q \in P
          BY <1>2, <2>3, <3>2
    <3>4. q >= u /\ e[q].index # None /\ Hash[e[q].index] % u = Hash[e[w(p)].index] % u
      <4>. HIDE DEF w
      <4>. QED  BY <3>2, <3>3 DEF Linked
    <3>5. q # n
      <4>1. w(p) # r
            BY <1>4
      <4>. QED  BY <1>3, <3>2, <4>1
    <3>. HIDE DEF q
    <3>6. e2[p].next = q
          BY <3>2 DEF q
    <3>. HIDE DEF w
    <3>. QED  BY <1>8, <1>9, <3>2, <3>3, <3>4, <3>5, <3>6
  <2>4. ASSUME NEW p \in P, NEW q \in P, e2[p].next # NoMore, e2[p].next = e2[q].next PROVE p = q
    <3>1. p # n /\ q # n
          BY <1>5, <2>4
    <3>2. w(p) \in P /\ w(q) \in P /\ e[w(p)].next # NoMore /\ e[w(p)].next = e[w(q)].next
          BY <1>10, <2>4, <3>1
    <3>. HIDE DEF w
    <3>3. w(p) = w(q)
          BY <3>2 DEF Linked
    <3>. QED  BY <1>11, <3>1, <3>3
  <2>5. ASSUME NEW q \in P, q >= u, e2[q].index # None PROVE \E p \in P : e2[p].next = q
    <3>1. q # n /\ e[q].index # None
          BY <1>5, <1>9, <2>5
    <3>2. PICK p \in P : e[p].next = q
          BY <2>5, <3>1 DEF Linked
    <3>3. p # r
          BY <3>1, <3>2
    <3>4. CASE p = n
          BY <1>6, <3>2, <3>4
    <3>5. CASE p # n
          BY <1>6, <3>2, <3>3, <3>5
    <3>. QED  BY <3>4, <3>5
  <2>6. ASSUME NEW p \in P, NEW q \in P, e2[p].index # None, e2[p].index = e2[q].index PROVE p = q
    <3>1. p # n /\ q # n
          BY <1>5, <2>6
    <3>2. w(p) \in P /\ w(q) \in P /\ e[w(p)].index # None /\ e[w(p)].index = e[w(q)].index
          BY <1>10, <2>6, <3>1
    <3>. HIDE DEF w
    <3>3. w(p) = w(q)
          BY <3>2 DEF Linked
    <3>. QED  BY <1>11, <3>1, <3>3
  <2>. QED  BY <2>1, <2>2, <2>3, <2>4, <2>5, <2>6 DEF Linked
<1>13. ASSUME NEW K \in Nat, NEW rank \in [P -> 0..K], Ranked(u, e, K, rank)
       PROVE  Ranked(u, e2, K, rank)
  <2>1. \A p \in P : rank[p] \in 0..K
        OBVIOUS
  <2>2. ASSUME NEW p \in P, e2[p].next # NoMore PROVE rank[e2[p].next] < rank[p]
    <3>1. p # n
          BY <1>5, <2>2
    <3>2. CASE p = r
      <4>1. e[n].next # NoMore /\ e2[p].next = e[n].next /\ e[n].next \in P
            BY <1>2, <1>6, <2>2, <3>2
      <4>2. rank[e[n].next] < rank[n] /\ rank[n] < rank[r]
            BY <1>13, <4>1 DEF Ranked
      <4>. QED  BY <2>1, <3>2, <4>1, <4>2
    <3>3. CASE p # r
          BY <1>6, <1>13, <2>2, <3>1, <3>3 DEF Ranked
    <3>. QED  BY <3>2, <3>3
  <2>. QED  BY <2>2 DEF Ranked
<1>14. Acyclic(u, e2)
       BY <1>13 DEF Acyclic
<1>. QED  BY <1>1, <1>12, <1>14

\* Removing the last entry of a chain; if it is not the only one, the one
\* before it becomes the last.
LEMMA CutKeepsLinks ==
    ASSUME NEW u \in Nat \ {0}, NEW e, Whole(u, e),
           NEW e2, NEW r \in 0..2 * u - 1, Cuts(u, e, e2, r)
    PROVE  Linked(u, e2) /\ Acyclic(u, e2)
<1>. USE DEF Whole, Cuts
<1>. DEFINE P == 0..2 * u - 1
<1>1. e2[r].index = None /\ e2[r].value = None /\ e2[r].next = NoMore
      BY DEF Unused
<1>2. \A p \in P : e[p].next \in P
      BY DEF NextsIn
<1>3. ASSUME NEW p \in P, e2[p].next # NoMore
      PROVE  p # r /\ e2[p].next = e[p].next /\ e[p].next # r
  <2>1. p # r
        BY <1>1, <1>3
  <2>. QED  BY <1>3, <2>1
<1>4. Linked(u, e2)
  <2>1. ASSUME NEW p \in P, e2[p].index = None PROVE e2[p].value = None /\ e2[p].next = NoMore
    <3>1. CASE p = r
          BY <1>1, <3>1
    <3>2. CASE p # r
      <4>1. e[p].index = None
            BY <2>1, <3>2
      <4>2. e[p].value = None /\ e[p].next = NoMore
            BY <4>1 DEF Linked
      <4>. QED  BY <3>2, <4>2
    <3>. QED  BY <3>1, <3>2
  <2>2. \A p \in P : p < u /\ e2[p].index # None => Hash[e2[p].index] % u = p
        BY <1>1 DEF Linked
  <2>3. ASSUME NEW p \in P, e2[p].next # NoMore
        PROVE  /\ e2[p].next >= u
               /\ e2[e2[p].next].index # None
               /\ Hash[e2[e2[p].next].index] % u = Hash[e2[p].index] % u
    <3>1. p # r /\ e2[p].next = e[p].next /\ e[p].next # r /\ e[p].next \in P /\ e[p].next # NoMore
          BY <1>2, <1>3, <2>3
    <3>2. /\ e[p].next >= u /\ e[e[p].next].index # None
          /\ Hash[e[e[p].next].index] % u = Hash[e[p].index] % u
          BY <3>1 DEF Linked
    <3>3. e2[e[p].next].index = e[e[p].next].index /\ e2[p].index = e[p].index
          BY <3>1
    <3>. QED  BY <3>1, <3>2, <3>3
  <2>4. ASSUME NEW p \in P, NEW q \in P, e2[p].next # NoMore, e2[p].next = e2[q].next PROVE p = q
    <3>1. e[p].next = e[q].next /\ e[p].next # NoMore
          BY <1>3, <2>4
    <3>. QED  BY <3>1 DEF Linked
  <2>5. ASSUME NEW q \in P, q >= u, e2[q].index # None PROVE \E p \in P : e2[p].next = q
    <3>1. q # r /\ e[q].index # None /\ q # NoMore
          BY <1>1, <2>5 DEF NoMore
    <3>2. PICK p \in P : e[p].next = q
          BY <2>5, <3>1 DEF Linked
    <3>3. p # r
          BY <3>1, <3>2
    <3>. QED  BY <3>1, <3>2, <3>3
  <2>6. ASSUME NEW p \in P, NEW q \in P, e2[p].index # None, e2[p].index = e2[q].index PROVE p = q
    <3>1. p # r /\ q # r
          BY <1>1, <2>6
    <3>2. e[p].index # None /\ e[p].index = e[q].index
          BY <2>6, <3>1
    <3>. QED  BY <3>2 DEF Linked
  <2>. QED  BY <2>1, <2>2, <2>3, <2>4, <2>5, <2>6 DEF Linked
<1>5. ASSUME NEW K \in Nat, NEW rank \in [P -> 0..K], Ranked(u, e, K, rank)
      PROVE  Ranked(u, e2, K, rank)
      BY <1>3, <1>5 DEF Ranked
<1>6. Acyclic(u, e2)
      BY <1>5 DEF Acyclic
<1>. QED  BY <1>4, <1>6

-----------------------------------------------------------------------------
(* Assignments to the fields of a table.                                   *)

EntryWith(O, V, N) == [index : O, value : V, next : N]
TableWith(U, F, P, E) == [u_size : U, free : F, entries : [P -> E]]

SetEntry(t, s, y) == [t EXCEPT !.entries[s] = y]
SetObject(t, s, o, v) == [t EXCEPT !.entries[s].index = o, !.entries[s].value = v]
SetValue(t, s, v) == [t EXCEPT !.entries[s].value = v]
SetEntriesFree(t, n, x, s, y, f) == [t EXCEPT !.entries[n] = x, !.entries[s] = y, !.free = f]
SetNextFree(t, n, x, s, y, f) == [t EXCEPT !.entries[n] = x, !.entries[s].next = y, !.free = f]

\* To a whole entry.
LEMMA AssignEntry ==
    ASSUME NEW U, NEW F, NEW P, NEW E, NEW t \in TableWith(U, F, P, E), NEW s \in P, NEW y \in E
    PROVE  LET t2 == SetEntry(t, s, y)
           IN  /\ t2 \in TableWith(U, F, P, E)
               /\ t2.u_size = t.u_size /\ t2.free = t.free
               /\ t2.entries[s] = y
               /\ \A p \in P : p # s => t2.entries[p] = t.entries[p]
BY DEF TableWith, SetEntry

\* To an entry, to another one or the same, and to free.
LEMMA AssignEntriesFree ==
    ASSUME NEW U, NEW F, NEW P, NEW E, NEW t \in TableWith(U, F, P, E),
           NEW n \in P, NEW x \in E, NEW s \in P, NEW y \in E, NEW f \in F, n # s
    PROVE  LET t2 == SetEntriesFree(t, n, x, s, y, f)
           IN  /\ t2 \in TableWith(U, F, P, E)
               /\ t2.u_size = t.u_size /\ t2.free = f
               /\ t2.entries[n] = x /\ t2.entries[s] = y
               /\ \A p \in P : p # s /\ p # n => t2.entries[p] = t.entries[p]
BY DEF TableWith, SetEntriesFree

\* To the object and the value of an entry.
LEMMA AssignObject ==
    ASSUME NEW U, NEW F, NEW P, NEW O, NEW V, NEW N,
           NEW t \in TableWith(U, F, P, EntryWith(O, V, N)),
           NEW s \in P, NEW o \in O, NEW v \in V
    PROVE  LET t2 == SetObject(t, s, o, v)
           IN  /\ t2 \in TableWith(U, F, P, EntryWith(O, V, N))
               /\ t2.u_size = t.u_size /\ t2.free = t.free
               /\ t2.entries[s].index = o /\ t2.entries[s].value = v /\ t2.entries[s].next = t.entries[s].next
               /\ \A p \in P : p # s => t2.entries[p] = t.entries[p]
BY DEF TableWith, EntryWith, SetObject

\* To the value of an entry.
LEMMA AssignValue ==
    ASSUME NEW U, NEW F, NEW P, NEW O, NEW V, NEW N,
           NEW t \in TableWith(U, F, P, EntryWith(O, V, N)),
           NEW s \in P, NEW v \in V
    PROVE  LET t2 == SetValue(t, s, v)
           IN  /\ t2 \in TableWith(U, F, P, EntryWith(O, V, N))
               /\ t2.u_size = t.u_size /\ t2.free = t.free
               /\ t2.entries[s].index = t.entries[s].index /\ t2.entries[s].value = v
               /\ t2.entries[s].next = t.entries[s].next
               /\ \A p \in P : p # s => t2.entries[p] = t.entries[p]
BY DEF TableWith, EntryWith, SetValue

\* To an entry, to the next of another one, and to free.
LEMMA AssignNextFree ==
    ASSUME NEW U, NEW F, NEW P, NEW O, NEW V, NEW N,
           NEW t \in TableWith(U, F, P, EntryWith(O, V, N)),
           NEW n \in P, NEW x \in EntryWith(O, V, N), NEW s \in P, NEW y \in N, NEW f \in F,
           n # s
    PROVE  LET t2 == SetNextFree(t, n, x, s, y, f)
           IN  /\ t2 \in TableWith(U, F, P, EntryWith(O, V, N))
               /\ t2.u_size = t.u_size /\ t2.free = f
               /\ t2.entries[n] = x
               /\ t2.entries[s].index = t.entries[s].index /\ t2.entries[s].value = t.entries[s].value
               /\ t2.entries[s].next = y
               /\ \A p \in P : p # s /\ p # n => t2.entries[p] = t.entries[p]
BY DEF TableWith, EntryWith, SetNextFree

\* A table after its object and value at s were set.
ObjectSet(u, t, t2, s, o, v) ==
    /\ t2 \in TableSet(u) /\ t2.u_size = u /\ t2.free = t.free
    /\ t2.entries[s].index = o /\ t2.entries[s].value = v /\ t2.entries[s].next = t.entries[s].next
    /\ \A p \in 0..2 * u - 1 : p # s => SameLink(t.entries, p, t2.entries, p)

\* The assignment to an object and a value of a table sets them.
LEMMA ObjectSetFacts ==
    ASSUME NEW u \in Nat \ {0}, NEW t \in TableSet(u), NEW s \in 0..2 * u - 1,
           NEW o \in Objects, NEW v \in Values
    PROVE  ObjectSet(u, t, SetObject(t, s, o, v), s, o, v)
<1>. DEFINE U == {u}
            F == u - 1..2 * u - 1
            P == 0..2 * u - 1
            O == Objects \cup {None}
            V == Values
            E == EntryWith(O, V, P)
            t2 == SetObject(t, s, o, v)
<1>1. t \in TableWith(U, F, P, E) /\ s \in P /\ o \in O /\ v \in V
      BY DEF TableSet, EntrySet, TableWith, EntryWith
<1>2. TableWith(U, F, P, E) = TableSet(u) /\ \A x \in TableWith(U, F, P, E) : x.u_size = u
      BY DEF TableSet, EntrySet, TableWith, EntryWith
<1>. HIDE DEF U, F, P, O, V
<1>3. /\ t2 \in TableWith(U, F, P, E) /\ t2.free = t.free
      /\ t2.entries[s].index = o /\ t2.entries[s].value = v /\ t2.entries[s].next = t.entries[s].next
      /\ \A p \in P : p # s => t2.entries[p] = t.entries[p]
      BY <1>1, AssignObject
<1>. QED  BY <1>2, <1>3 DEF ObjectSet, SameLink, P

\* A table after its value at s was set.
LEMMA ValueSetFacts ==
    ASSUME NEW u \in Nat \ {0}, NEW t \in TableSet(u), NEW s \in 0..2 * u - 1, NEW v \in Values
    PROVE  ObjectSet(u, t, SetValue(t, s, v), s, t.entries[s].index, v)
<1>. DEFINE U == {u}
            F == u - 1..2 * u - 1
            P == 0..2 * u - 1
            O == Objects \cup {None}
            V == Values
            E == EntryWith(O, V, P)
            t2 == SetValue(t, s, v)
<1>1. t \in TableWith(U, F, P, E) /\ s \in P /\ v \in V
      BY DEF TableSet, EntrySet, TableWith, EntryWith
<1>2. TableWith(U, F, P, E) = TableSet(u) /\ \A x \in TableWith(U, F, P, E) : x.u_size = u
      BY DEF TableSet, EntrySet, TableWith, EntryWith
<1>. HIDE DEF U, F, P, O, V
<1>3. /\ t2 \in TableWith(U, F, P, E) /\ t2.free = t.free
      /\ t2.entries[s].index = t.entries[s].index /\ t2.entries[s].value = v
      /\ t2.entries[s].next = t.entries[s].next
      /\ \A p \in P : p # s => t2.entries[p] = t.entries[p]
      BY <1>1, AssignValue
<1>. QED  BY <1>2, <1>3 DEF ObjectSet, SameLink, P

\* A table after entries n and s and free were set.
EntriesSet(u, t, t2, n, x, s, y, f) ==
    /\ t2 \in TableSet(u) /\ t2.u_size = u /\ t2.free = f
    /\ t2.entries[n] = x /\ t2.entries[s] = y
    /\ \A p \in 0..2 * u - 1 : p # s /\ p # n => SameLink(t.entries, p, t2.entries, p)

\* The assignment to two entries and free sets them.
LEMMA EntriesSetFacts ==
    ASSUME NEW u \in Nat \ {0}, NEW t \in TableSet(u), NEW n \in 0..2 * u - 1, NEW x \in EntrySet(u),
           NEW s \in 0..2 * u - 1, NEW y \in EntrySet(u), NEW f \in u - 1..2 * u - 1, n # s
    PROVE  EntriesSet(u, t, SetEntriesFree(t, n, x, s, y, f), n, x, s, y, f)
<1>. DEFINE U == {u}
            F == u - 1..2 * u - 1
            P == 0..2 * u - 1
            E == EntrySet(u)
            t2 == SetEntriesFree(t, n, x, s, y, f)
<1>1. t \in TableWith(U, F, P, E) /\ s \in P /\ n \in P /\ x \in E /\ y \in E /\ f \in F
      BY DEF TableSet, TableWith
<1>2. TableWith(U, F, P, E) = TableSet(u) /\ \A z \in TableWith(U, F, P, E) : z.u_size = u
      BY DEF TableSet, TableWith
<1>. HIDE DEF U, F, P, E
<1>3. /\ t2 \in TableWith(U, F, P, E) /\ t2.free = f
      /\ t2.entries[n] = x /\ t2.entries[s] = y
      /\ \A p \in P : p # s /\ p # n => t2.entries[p] = t.entries[p]
      BY <1>1, AssignEntriesFree
<1>. QED  BY <1>2, <1>3 DEF EntriesSet, SameLink, P

\* A table after entry n, the next at s and free were set.
NextSet(u, t, t2, n, x, s, y, f) ==
    /\ t2 \in TableSet(u) /\ t2.u_size = u /\ t2.free = f
    /\ t2.entries[n] = x
    /\ t2.entries[s].index = t.entries[s].index /\ t2.entries[s].value = t.entries[s].value
    /\ t2.entries[s].next = y
    /\ \A p \in 0..2 * u - 1 : p # s /\ p # n => SameLink(t.entries, p, t2.entries, p)

\* The assignment to an entry, a next and free sets them.
LEMMA NextSetFacts ==
    ASSUME NEW u \in Nat \ {0}, NEW t \in TableSet(u), NEW n \in 0..2 * u - 1, NEW x \in EntrySet(u),
           NEW s \in 0..2 * u - 1, NEW y \in 0..2 * u - 1, NEW f \in u - 1..2 * u - 1, n # s
    PROVE  NextSet(u, t, SetNextFree(t, n, x, s, y, f), n, x, s, y, f)
<1>. DEFINE U == {u}
            F == u - 1..2 * u - 1
            P == 0..2 * u - 1
            O == Objects \cup {None}
            V == Values
            E == EntryWith(O, V, P)
            t2 == SetNextFree(t, n, x, s, y, f)
<1>1. t \in TableWith(U, F, P, E) /\ s \in P /\ n \in P /\ x \in E /\ y \in P /\ f \in F
      BY DEF TableSet, EntrySet, TableWith, EntryWith
<1>2. TableWith(U, F, P, E) = TableSet(u) /\ \A z \in TableWith(U, F, P, E) : z.u_size = u
      BY DEF TableSet, EntrySet, TableWith, EntryWith
<1>. HIDE DEF U, F, P, O, V
<1>3. /\ t2 \in TableWith(U, F, P, E) /\ t2.free = f
      /\ t2.entries[n] = x
      /\ t2.entries[s].index = t.entries[s].index /\ t2.entries[s].value = t.entries[s].value
      /\ t2.entries[s].next = y
      /\ \A p \in P : p # s /\ p # n => t2.entries[p] = t.entries[p]
      BY <1>1, AssignNextFree
<1>. QED  BY <1>2, <1>3 DEF NextSet, SameLink, P

\* A table after an entry was set.
LEMMA EntrySetFacts ==
    ASSUME NEW u \in Nat \ {0}, NEW t \in TableSet(u), NEW s \in 0..2 * u - 1, NEW y \in EntrySet(u)
    PROVE  EntriesSet(u, t, SetEntry(t, s, y), s, y, s, y, t.free)
<1>. DEFINE U == {u}
            F == u - 1..2 * u - 1
            P == 0..2 * u - 1
            E == EntrySet(u)
            t2 == SetEntry(t, s, y)
<1>1. t \in TableWith(U, F, P, E) /\ s \in P /\ y \in E
      BY DEF TableSet, TableWith
<1>2. TableWith(U, F, P, E) = TableSet(u) /\ \A z \in TableWith(U, F, P, E) : z.u_size = u
      BY DEF TableSet, TableWith
<1>. HIDE DEF U, F, P, E
<1>3. /\ t2 \in TableWith(U, F, P, E) /\ t2.free = t.free
      /\ t2.entries[s] = y
      /\ \A p \in P : p # s => t2.entries[p] = t.entries[p]
      BY <1>1, AssignEntry
<1>. QED  BY <1>2, <1>3 DEF EntriesSet, SameLink, P

-----------------------------------------------------------------------------
(* The table as a dictionary.                                              *)

SameContents(t, t2) == \A x \in Objects, w \in Values : Has(t2, x, w) <=> Has(t, x, w)

Adds(t, t2, o, v) == \A x \in Objects, w \in Values : Has(t2, x, w) <=> (x = o /\ w = v) \/ Has(t, x, w)

Puts(t, t2, o, v) == \A x \in Objects, w \in Values : Has(t2, x, w) <=> IF x = o THEN w = v ELSE Has(t, x, w)

Removes(t, t2, o) == \A x \in Objects, w \in Values : Has(t2, x, w) <=> x # o /\ Has(t, x, w)

\* The greatest of a bounded set.
LEMMA Greatest ==
    ASSUME NEW K \in Nat, NEW T \in SUBSET (0..K), T # {}
    PROVE  Max(T) \in T /\ \A y \in T : y <= Max(T)
<1>. DEFINE D == {d \in Nat : \E y \in T : d = K - y}
<1>1. \A y \in T : K - y \in Nat
      OBVIOUS
<1>2. D \in SUBSET Nat /\ D # {}
      BY <1>1
<1>3. PICK d \in D : \A y \in D : d <= y
  <2>. HIDE DEF D
  <2>. QED  BY <1>2, Least
<1>4. PICK x \in T : d = K - x
      BY <1>3
<1>5. \A y \in T : x >= y
      BY <1>1, <1>3, <1>4
<1>6. \E z \in T : \A y \in T : z >= y
      BY <1>5
<1>7. Max(T) \in T /\ \A y \in T : Max(T) >= y
      BY <1>6 DEF Max
<1>8. ASSUME NEW y \in T PROVE y <= Max(T)
  <2>1. Max(T) \in 0..K /\ y \in 0..K /\ Max(T) >= y
        BY <1>7
  <2>. QED  BY <2>1
<1>. QED  BY <1>7, <1>8

\* The objects of a table are what it has with a value.
LEMMA IndexFacts ==
    ASSUME NEW t, Typed(t)
    PROVE  /\ \A o \in Objects : o \in Indexes(t) <=> \E p \in 0..2 * t.u_size - 1 : t.entries[p].index = o
           /\ \A o \in Objects : o \in Indexes(t) <=> \E w \in Values : Has(t, o, w)
           /\ Indexes(t) \subseteq Objects
           /\ \A p \in 0..2 * t.u_size - 1 : t.entries[p].index # None =>
                 t.entries[p].index \in Indexes(t) /\ p \in Occupied(t)
<1>. DEFINE P == 0..2 * t.u_size - 1
<1>1. /\ Positions(t) = P
      /\ \A p \in P : t.entries[p].index \in Objects \cup {None} /\ t.entries[p].value \in Values
      BY EntryTypes
<1>2. Indexes(t) = {t.entries[p].index : p \in {q \in P : t.entries[q].index # None}}
      BY <1>1 DEF Indexes, Occupied
<1>3. None \notin Objects
      BY HashTyped
<1>4. \A o \in Objects : o \in Indexes(t) <=> \E p \in P : t.entries[p].index = o
      BY <1>2, <1>3
<1>5. \A o \in Objects : (\E p \in P : t.entries[p].index = o) <=> \E w \in Values : Has(t, o, w)
      BY <1>1 DEF Has
<1>6. Indexes(t) \subseteq Objects
      BY <1>1, <1>2
<1>7. \A p \in P : t.entries[p].index # None => t.entries[p].index \in Indexes(t) /\ p \in Occupied(t)
      BY <1>1, <1>2 DEF Occupied
<1>. QED  BY <1>4, <1>5, <1>6, <1>7

\* A table is put together from its parts.
LEMMA MakeChained ==
    ASSUME NEW u \in Nat \ {0}, NEW t2 \in TableSet(u), t2.u_size = u,
           Linked(u, t2.entries), Acyclic(u, t2.entries),
           \A p \in 0..2 * u - 1 : p >= u /\ t2.entries[p].index = None => p <= t2.free
    PROVE  Chained(t2)
BY DEF Chained, Typed, FreeBound

\* And taken apart.
LEMMA WholeTable ==
    ASSUME NEW t, Chained(t)
    PROVE  /\ t.u_size \in Nat \ {0} /\ t \in TableSet(t.u_size) /\ Typed(t)
           /\ Whole(t.u_size, t.entries)
           /\ \A p \in 0..2 * t.u_size - 1 : p >= t.u_size /\ t.entries[p].index = None => p <= t.free
BY EntryTypes DEF Chained, Typed, Whole, NextsIn, FreeBound

\* Some entry is of object x with value w.
At(u, e, x, w) == \E p \in 0..2 * u - 1 : e[p].index = x /\ e[p].value = w

\* What a table has is what its entries are of.
LEMMA HasAt ==
    ASSUME NEW t, Typed(t)
    PROVE  \A x, w : Has(t, x, w) <=> At(t.u_size, t.entries, x, w)
BY EntryTypes DEF Has, At

\* A filled hash slot adds its object.
LEMMA FillContents ==
    ASSUME NEW u \in Nat \ {0}, NEW e, NEW e2, NEW o \in Objects, NEW s \in 0..u - 1, Fills(u, e, e2, o, s),
           NEW x \in Objects, NEW w
    PROVE  At(u, e2, x, w) <=> (x = o /\ w = e2[s].value) \/ At(u, e, x, w)
<1>. DEFINE P == 0..2 * u - 1
<1>1. s \in P /\ x # None
      BY HashTyped
<1>2. \A p \in P : p # s => e2[p].index = e[p].index /\ e2[p].value = e[p].value
      BY DEF Fills, SameLink
<1>3. e2[s].index = o /\ e[s].index = None
      BY DEF Fills
<1>. HIDE DEF P
<1>4. (\E p \in P : e2[p].index = x /\ e2[p].value = w)
         <=> (x = o /\ w = e2[s].value) \/ \E p \in P : e[p].index = x /\ e[p].value = w
      BY <1>1, <1>2, <1>3
<1>. QED  BY <1>4 DEF At, P

\* So does one whose entry was pushed on.
LEMMA PushContents ==
    ASSUME NEW u \in Nat \ {0}, NEW e, NEW e2, NEW o \in Objects, NEW s \in 0..u - 1,
           NEW over \in u..2 * u - 1, Pushes(u, e, e2, o, s, over),
           NEW x \in Objects, NEW w
    PROVE  At(u, e2, x, w) <=> (x = o /\ w = e2[s].value) \/ At(u, e, x, w)
<1>. DEFINE P == 0..2 * u - 1
<1>1. s \in P /\ over \in P /\ x # None
      BY HashTyped
<1>2. \A p \in P : p # s /\ p # over => e2[p].index = e[p].index /\ e2[p].value = e[p].value
      BY DEF Pushes, SameLink
<1>3. e2[s].index = o /\ e[over].index = None /\ e2[over].index = e[s].index /\ e2[over].value = e[s].value
      BY DEF Pushes, SameLink
<1>. HIDE DEF P
<1>4. (\E p \in P : e2[p].index = x /\ e2[p].value = w)
         <=> (x = o /\ w = e2[s].value) \/ \E p \in P : e[p].index = x /\ e[p].value = w
  <2>1. ASSUME NEW p \in P, e2[p].index = x, e2[p].value = w
        PROVE  (x = o /\ w = e2[s].value) \/ \E q \in P : e[q].index = x /\ e[q].value = w
        BY <1>1, <1>2, <1>3, <2>1
  <2>2. ASSUME NEW p \in P, e[p].index = x, e[p].value = w
        PROVE  \E q \in P : e2[q].index = x /\ e2[q].value = w
        BY <1>1, <1>2, <1>3, <2>2
  <2>. QED  BY <1>1, <1>3, <2>1, <2>2
<1>. QED  BY <1>4 DEF At, P

\* AddInPlace finds room.
Room(t, o) == t.entries[Slot(t, o)].index = None \/ Spare(t) # {}

\* A new object in the table, if there is room.
LEMMA AddInPlaceFacts ==
    ASSUME NEW t, Chained(t), NEW o \in Objects, NEW v \in Values, o \notin Indexes(t), Room(t, o)
    PROVE  /\ Chained(AddInPlace(t, v, o)) /\ AddInPlace(t, v, o).u_size = t.u_size
           /\ Adds(t, AddInPlace(t, v, o), o, v)
<1>. DEFINE u == t.u_size
            e == t.entries
            P == 0..2 * u - 1
            s == Slot(t, o)
<1>1. /\ u \in Nat \ {0} /\ t \in TableSet(u) /\ Whole(u, e) /\ Typed(t)
      /\ \A p \in P : p >= u /\ e[p].index = None => p <= t.free
      BY WholeTable
<1>2. /\ t.free \in u - 1..2 * u - 1 /\ e \in [P -> EntrySet(u)]
      BY <1>1, EntryTypes
<1>3. s \in 0..u - 1 /\ s = Hash[o] % u /\ s \in P
      BY <1>1, SlotType DEF Slot
<1>4. \A p \in P : e[p].index # o
      BY <1>1, IndexFacts
<1>5. o # None
      BY HashTyped
<1>6. CASE e[s].index = None
  <2>. DEFINE t3 == SetObject(t, s, o, v)
              e3 == t3.entries
  <2>1. AddInPlace(t, v, o) = t3
        BY <1>6 DEF AddInPlace, SetObject
  <2>. HIDE DEF u, s, t3
  <2>2. ObjectSet(u, t, t3, s, o, v)
        BY <1>1, <1>3, ObjectSetFacts DEF t3
  <2>3. t3 \in TableSet(u) /\ t3.u_size = u /\ t3.free = t.free /\ e3[s].index = o /\ e3[s].value = v
        BY <2>2 DEF ObjectSet
  <2>4. Fills(u, e, e3, o, s)
        BY <1>3, <1>4, <1>6, <2>2 DEF ObjectSet, Fills
  <2>. HIDE DEF e, e3
  <2>5. Linked(u, e3) /\ Acyclic(u, e3)
        BY <1>1, <1>3, <2>4, FillKeepsLinks
  <2>6. ASSUME NEW p \in P, p >= u, e3[p].index = None PROVE p <= t3.free
    <3>1. p # s
          BY <1>5, <2>3, <2>6
    <3>2. e[p].index = None
          BY <2>4, <2>6, <3>1 DEF Fills, SameLink
    <3>. QED  BY <1>1, <2>3, <2>6, <3>2
  <2>7. Chained(t3)
        BY <1>1, <2>3, <2>5, <2>6, MakeChained DEF e3
  <2>8. Typed(t3)
        BY <2>7 DEF Chained
  <2>9. ASSUME NEW x \in Objects, NEW w \in Values
        PROVE  Has(t3, x, w) <=> (x = o /\ w = v) \/ Has(t, x, w)
    <3>1. At(u, e3, x, w) <=> (x = o /\ w = v) \/ At(u, e, x, w)
          BY <1>1, <1>3, <2>3, <2>4, FillContents
    <3>2. (Has(t3, x, w) <=> At(u, e3, x, w)) /\ (Has(t, x, w) <=> At(u, e, x, w))
          BY <1>1, <2>3, <2>8, HasAt DEF e3, e, u
    <3>. QED  BY <3>1, <3>2
  <2>10. Adds(t, t3, o, v)
        BY <2>9 DEF Adds
  <2>. QED  BY <2>1, <2>3, <2>7, <2>10 DEF u
<1>7. CASE e[s].index # None
  <2>. DEFINE S == Spare(t)
              over == Max(S)
              y == [index |-> o, value |-> v, next |-> over]
              t3 == SetEntriesFree(t, over, e[s], s, y, over - 1)
              e3 == t3.entries
  <2>1. S # {}
        BY <1>7 DEF Room
  <2>2. AddInPlace(t, v, o) = t3
        BY <1>7, <2>1 DEF AddInPlace, SetEntriesFree
  <2>3. S = {p \in u..t.free : e[p].index = None}
        BY DEF Spare
  <2>4. over \in S /\ \A p \in S : p <= over
    <3>1. S \in SUBSET (0..2 * u - 1) /\ 2 * u - 1 \in Nat
          BY <1>1, <1>2, <2>3
    <3>. HIDE DEF S
    <3>. QED  BY <2>1, <3>1, Greatest
  <2>5. over \in u..2 * u - 1 /\ over \in P /\ e[over].index = None /\ over # s /\ over <= t.free
        BY <1>1, <1>2, <1>3, <2>3, <2>4
  <2>6. over - 1 \in u - 1..2 * u - 1
        BY <1>1, <2>5
  <2>. HIDE DEF over, u, s, S
  <2>7. e[s] \in EntrySet(u) /\ y \in EntrySet(u)
    <3>1. e[s] \in EntrySet(u)
          BY <1>2, <1>3
    <3>. QED  BY <2>5, <3>1 DEF EntrySet
  <2>8. y.index = o /\ y.value = v /\ y.next = over
        OBVIOUS
  <2>. HIDE DEF y, t3
  <2>9. EntriesSet(u, t, t3, over, e[s], s, y, over - 1)
        BY <1>1, <1>3, <2>5, <2>6, <2>7, EntriesSetFacts DEF t3
  <2>10. /\ t3 \in TableSet(u) /\ t3.u_size = u /\ t3.free = over - 1
         /\ e3[s].index = o /\ e3[s].value = v /\ e3[s].next = over /\ e3[over] = e[s]
        BY <2>8, <2>9 DEF EntriesSet
  <2>11. Pushes(u, e, e3, o, s, over)
        BY <1>3, <1>4, <1>7, <2>5, <2>9, <2>10 DEF EntriesSet, Pushes, SameLink
  <2>. HIDE DEF e, e3
  <2>12. Linked(u, e3) /\ Acyclic(u, e3)
        BY <1>1, <1>3, <2>5, <2>11, PushKeepsLinks
  <2>13. ASSUME NEW p \in P, p >= u, e3[p].index = None PROVE p <= t3.free
    <3>1. p # s /\ p # over
          BY <1>5, <1>7, <2>10, <2>13
    <3>2. e[p].index = None
          BY <2>11, <2>13, <3>1 DEF Pushes, SameLink
    <3>3. p <= t.free
          BY <1>1, <2>13, <3>2
    <3>4. p \in S
          BY <1>1, <1>2, <2>3, <2>13, <3>2, <3>3
    <3>5. p <= over
          BY <2>4, <3>4
    <3>. QED  BY <1>1, <2>5, <2>10, <3>1, <3>5
  <2>14. Chained(t3)
        BY <1>1, <2>10, <2>12, <2>13, MakeChained DEF e3
  <2>15. Typed(t3)
        BY <2>14 DEF Chained
  <2>16. ASSUME NEW x \in Objects, NEW w \in Values
        PROVE  Has(t3, x, w) <=> (x = o /\ w = v) \/ Has(t, x, w)
    <3>1. At(u, e3, x, w) <=> (x = o /\ w = v) \/ At(u, e, x, w)
          BY <1>1, <1>3, <2>5, <2>10, <2>11, PushContents
    <3>2. (Has(t3, x, w) <=> At(u, e3, x, w)) /\ (Has(t, x, w) <=> At(u, e, x, w))
          BY <1>1, <2>10, <2>15, HasAt DEF e3, e, u
    <3>. QED  BY <3>1, <3>2
  <2>17. Adds(t, t3, o, v)
        BY <2>16 DEF Adds
  <2>. QED  BY <2>2, <2>10, <2>14, <2>17 DEF u
<1>. QED  BY <1>6, <1>7

-----------------------------------------------------------------------------
(* Growing.                                                                *)

\* A new table is empty.
LEMMA NewTableFacts ==
    ASSUME NEW capacity \in Nat
    PROVE  /\ Chained(NewTable(capacity))
           /\ \A x \in Objects : \A w : ~Has(NewTable(capacity), x, w)
           /\ \A u \in Nat : capacity = 4 * u => NewTable(capacity).u_size = 2 * u + 1
<1>. DEFINE half == capacity \div 2
            u == half + ((half + 1) % 2)
            e == [p \in 0..2 * u - 1 |-> Unused]
            t == [u_size |-> u, free |-> 2 * u - 1, entries |-> e]
            P == 0..2 * u - 1
<1>1. NewTable(capacity) = t
      BY DEF NewTable
<1>2. half \in Nat
      OBVIOUS
<1>3. u \in Nat \ {0}
  <2>. HIDE DEF half
  <2>. QED  BY <1>2
<1>4. ASSUME NEW k \in Nat, capacity = 4 * k PROVE u = 2 * k + 1
  <2>1. half = 2 * k
        BY <1>4
  <2>. HIDE DEF half
  <2>. QED  BY <2>1
<1>. HIDE DEF u
<1>5. Unused \in EntrySet(u) /\ Unused.index = None /\ Unused.value = None /\ Unused.next = NoMore
  <2>1. NoMore \in 0..2 * u - 1
        BY <1>3 DEF NoMore
  <2>. QED  BY <2>1 DEF Unused, EntrySet, Values
<1>6. \A p \in P : e[p] = Unused
      OBVIOUS
<1>7. t \in TableSet(u) /\ t.u_size = u /\ t.free = 2 * u - 1 /\ t.entries = e
  <2>1. e \in [P -> EntrySet(u)]
        BY <1>5
  <2>2. 2 * u - 1 \in u - 1..2 * u - 1
        BY <1>3
  <2>. HIDE DEF e
  <2>. QED  BY <2>1, <2>2 DEF TableSet
<1>. HIDE DEF e, t
<1>8. Linked(u, e)
  <2>. HIDE DEF P
  <2>1. \A p \in P : e[p].index = None /\ e[p].value = None /\ e[p].next = NoMore
        BY <1>5, <1>6
  <2>. QED  BY <2>1 DEF Linked, P
<1>9. Acyclic(u, e)
  <2>. DEFINE rank == [p \in P |-> 0]
  <2>1. rank \in [P -> 0..0]
        OBVIOUS
  <2>2. \A p \in P : e[p].next = NoMore
        BY <1>5, <1>6
  <2>. HIDE DEF rank
  <2>3. Ranked(u, e, 0, rank)
        BY <2>1, <2>2 DEF Ranked
  <2>. QED  BY <2>1, <2>3 DEF Acyclic
<1>10. Chained(t)
  <2>1. \A p \in 0..2 * u - 1 : p >= u /\ t.entries[p].index = None => p <= t.free
        BY <1>3, <1>7
  <2>. QED  BY <1>3, <1>7, <1>8, <1>9, <2>1, MakeChained
<1>11. \A x \in Objects : \A w : ~Has(t, x, w)
  <2>1. None \notin Objects
        BY HashTyped
  <2>2. \A x, w : Has(t, x, w) <=> At(u, e, x, w)
        BY <1>7, <1>10, HasAt DEF Chained
  <2>3. \A p \in 0..2 * u - 1 : e[p].index = None
        BY <1>5, <1>6
  <2>. QED  BY <2>1, <2>2, <2>3 DEF At
<1>12. t.u_size = u
      BY <1>7
<1>. QED  BY <1>1, <1>4, <1>10, <1>11, <1>12

\* A table with twice the room has room for all objects of the smaller one.
LEMMA RoomFacts ==
    ASSUME NEW t, Chained(t), NEW m, Chained(m), m.u_size = 2 * t.u_size + 1,
           \A x \in Objects : x \in Indexes(m) => x \in Indexes(t),
           NEW o \in Objects
    PROVE  Room(m, o)
<1>. SUFFICES ASSUME Spare(m) = {} PROVE FALSE
     BY DEF Room
<1>. DEFINE u == t.u_size
            v == m.u_size
            P == 0..2 * u - 1
            O == v..2 * v - 1
            h == [p \in O |-> CHOOSE q \in P : t.entries[q].index = m.entries[p].index]
<1>1. u \in Nat \ {0} /\ v \in Nat \ {0} /\ v = 2 * u + 1 /\ Typed(t) /\ Typed(m) /\ Linked(v, m.entries)
      BY WholeTable DEF Whole
<1>2. ASSUME NEW p \in O PROVE m.entries[p].index # None /\ p \in 0..2 * v - 1
  <2>1. p \in 0..2 * v - 1 /\ p >= v
        BY <1>1
  <2>. SUFFICES ASSUME m.entries[p].index = None PROVE FALSE
       BY <2>1
  <2>2. p <= m.free
        BY <2>1, WholeTable
  <2>3. m.free \in v - 1..2 * v - 1
        BY <1>1, EntryTypes
  <2>4. p \in Spare(m)
        BY <2>1, <2>2, <2>3, <1>1 DEF Spare
  <2>. QED  BY <2>4
<1>3. ASSUME NEW p \in O PROVE \E q \in P : t.entries[q].index = m.entries[p].index
  <2>1. m.entries[p].index \in Objects
        BY <1>1, <1>2, EntryTypes
  <2>2. m.entries[p].index \in Indexes(m)
        BY <1>1, <1>2, IndexFacts
  <2>3. m.entries[p].index \in Indexes(t)
        BY <2>1, <2>2
  <2>. QED  BY <1>1, <2>1, <2>3, IndexFacts
<1>4. \A p \in O : h[p] \in P /\ t.entries[h[p]].index = m.entries[p].index
  <2>. SUFFICES ASSUME NEW p \in O PROVE h[p] \in P /\ t.entries[h[p]].index = m.entries[p].index
       OBVIOUS
  <2>1. h[p] = CHOOSE q \in P : t.entries[q].index = m.entries[p].index
        OBVIOUS
  <2>. HIDE DEF h
  <2>. QED  BY <1>3, <2>1
<1>5. h \in [O -> P]
      BY <1>4
<1>. HIDE DEF h
<1>6. ASSUME NEW p \in O, NEW q \in O, h[p] = h[q] PROVE p = q
  <2>1. m.entries[p].index = m.entries[q].index /\ m.entries[p].index # None
        BY <1>2, <1>4, <1>6
  <2>. QED  BY <1>1, <1>2, <2>1 DEF Linked
<1>7. v \in Int /\ 2 * v - 1 \in Int /\ v <= (2 * v - 1) + 1 /\ 0 \in Int /\ 2 * u - 1 \in Int /\ 0 <= (2 * u - 1) + 1
      BY <1>1
<1>. HIDE DEF u, v
<1>8. (2 * v - 1) - v <= (2 * u - 1) - 0
      BY <1>5, <1>6, <1>7, TooMany
<1>. QED  BY <1>1, <1>8

\* One step of primitiveMerge: the entry that is the n-th from the end.
MergeStep(t, n, m) ==
    IF t.entries[2 * t.u_size - n].index = None THEN m
    ELSE AddInPlace(m, t.entries[2 * t.u_size - n].value, t.entries[2 * t.u_size - n].index)

\* f solves the recursion of MergeInto.
Merges(new, t, N, f) == f = [n \in 0..N |-> IF n = 0 THEN new ELSE MergeStep(t, n, f[n - 1])]

\* There is a solution.
LEMMA MergeExists ==
    ASSUME NEW new, NEW t, NEW N \in Nat
    PROVE  \E f : Merges(new, t, N, f)
<1>. DEFINE Good(k, f) == f = [n \in 0..k |-> IF n = 0 THEN new ELSE MergeStep(t, n, f[n - 1])]
            T == {k \in Nat : ~\E f : Good(k, f)}
<1>1. T = {}
  <2>. SUFFICES ASSUME T # {} PROVE FALSE
       OBVIOUS
  <2>1. PICK k \in T : \A j \in T : k <= j
        BY Least
  <2>2. CASE k = 0
    <3>. DEFINE f == [n \in 0..0 |-> new]
    <3>1. f = [n \in 0..0 |-> IF n = 0 THEN new ELSE MergeStep(t, n, f[n - 1])]
          OBVIOUS
    <3>. HIDE DEF f
    <3>2. \E g : Good(0, g)
          BY <3>1
    <3>. QED  BY <2>1, <2>2, <3>2
  <2>3. CASE k # 0
    <3>1. k \in Nat \ {0} /\ k - 1 \in Nat /\ ~(k <= k - 1)
          BY <2>3
    <3>2. k - 1 \notin T
          BY <2>1, <3>1
    <3>3. PICK f : Good(k - 1, f)
          BY <3>1, <3>2
    <3>4. \A n \in 0..k - 1 : f[n] = IF n = 0 THEN new ELSE MergeStep(t, n, f[n - 1])
          BY <3>3
    <3>. DEFINE h == [n \in 0..k |-> IF n = k THEN MergeStep(t, k, f[k - 1]) ELSE f[n]]
    <3>5. ASSUME NEW n \in 0..k PROVE h[n] = IF n = 0 THEN new ELSE MergeStep(t, n, h[n - 1])
      <4>1. n # 0 => n - 1 \in 0..k /\ n - 1 # k
            BY <3>1
      <4>2. CASE n = k
            BY <3>1, <4>1, <4>2
      <4>3. CASE n # k
        <5>1. n \in 0..k - 1
              BY <3>1, <4>3
        <5>. QED  BY <3>4, <4>1, <4>3, <5>1
      <4>. QED  BY <4>2, <4>3
    <3>6. h = [n \in 0..k |-> IF n = 0 THEN new ELSE MergeStep(t, n, h[n - 1])]
          BY <3>5
    <3>. HIDE DEF h
    <3>7. \E g : Good(k, g)
          BY <3>6
    <3>. QED  BY <2>1, <3>7
  <2>. QED  BY <2>2, <2>3
<1>. QED  BY <1>1 DEF Merges

\* The last n entries of t have object x with value w.
AtEnd(t, n, x, w) ==
    \E p \in 0..2 * t.u_size - 1 :
        p >= 2 * t.u_size - n /\ t.entries[p].index = x /\ t.entries[p].value = w

\* The table that the last n entries of t have been merged into.
Merged(t, n, m) ==
    /\ Chained(m) /\ m.u_size = 2 * t.u_size + 1
    /\ \A x \in Objects, w \in Values : Has(m, x, w) <=> AtEnd(t, n, x, w)

\* One more entry.
LEMMA MergeStepFacts ==
    ASSUME NEW t, Chained(t), NEW n \in 1..2 * t.u_size, NEW m, Merged(t, n - 1, m)
    PROVE  Merged(t, n, MergeStep(t, n, m))
<1>. DEFINE u == t.u_size
            e == t.entries
            P == 0..2 * u - 1
            p == 2 * u - n
            o == e[p].index
            v == e[p].value
<1>1. u \in Nat \ {0} /\ Typed(t) /\ Linked(u, e)
      BY WholeTable DEF Whole
<1>2. p \in P /\ 2 * u - (n - 1) = p + 1
      BY <1>1
<1>3. o \in Objects \cup {None} /\ v \in Values
      BY <1>1, <1>2, EntryTypes
<1>4. \A q \in P : q >= p <=> q >= p + 1 \/ q = p
      BY <1>1, <1>2
<1>5. \A x \in Objects, w \in Values :
         AtEnd(t, n, x, w) <=> AtEnd(t, n - 1, x, w) \/ (e[p].index = x /\ e[p].value = w)
      BY <1>2, <1>4 DEF AtEnd
<1>6. CASE o = None
  <2>1. MergeStep(t, n, m) = m
        BY <1>6 DEF MergeStep
  <2>2. None \notin Objects
        BY HashTyped
  <2>3. \A x \in Objects, w \in Values : AtEnd(t, n, x, w) <=> AtEnd(t, n - 1, x, w)
    <3>. HIDE DEF e, p
    <3>. QED  BY <1>5, <1>6, <2>2
  <2>. QED  BY <2>1, <2>3 DEF Merged
<1>7. CASE o # None
  <2>. DEFINE m2 == AddInPlace(m, v, o)
  <2>1. MergeStep(t, n, m) = m2 /\ o \in Objects
        BY <1>3, <1>7 DEF MergeStep
  <2>2. Chained(m) /\ m.u_size = 2 * u + 1 /\ Typed(m)
        BY DEF Merged, Chained
  <2>3. \A x \in Objects : x \in Indexes(m) <=> \E w \in Values : AtEnd(t, n - 1, x, w)
        BY <2>2, IndexFacts DEF Merged
  <2>4. o \notin Indexes(m)
    <3>. SUFFICES ASSUME o \in Indexes(m) PROVE FALSE
         OBVIOUS
    <3>1. PICK w \in Values : AtEnd(t, n - 1, o, w)
          BY <2>1, <2>3
    <3>2. PICK q \in P : q >= p + 1 /\ e[q].index = o
          BY <1>2, <3>1 DEF AtEnd
    <3>3. q = p
          BY <1>1, <1>2, <1>7, <3>2 DEF Linked
    <3>. QED  BY <1>2, <3>2, <3>3
  <2>5. ASSUME NEW x \in Objects, x \in Indexes(m) PROVE x \in Indexes(t)
    <3>1. PICK w \in Values : AtEnd(t, n - 1, x, w)
          BY <2>3, <2>5
    <3>2. \E q \in P : e[q].index = x
          BY <3>1 DEF AtEnd
    <3>. QED  BY <1>1, <3>2, IndexFacts
  <2>6. Room(m, o)
        BY <2>1, <2>2, <2>5, RoomFacts
  <2>. HIDE DEF e, p, o, v
  <2>7. Chained(m2) /\ m2.u_size = m.u_size /\ Adds(m, m2, o, v)
        BY <1>3, <2>1, <2>2, <2>4, <2>6, AddInPlaceFacts
  <2>. HIDE DEF m2
  <2>8. ASSUME NEW x \in Objects, NEW w \in Values PROVE Has(m2, x, w) <=> AtEnd(t, n, x, w)
    <3>1. Has(m2, x, w) <=> (x = o /\ w = v) \/ Has(m, x, w)
          BY <2>7 DEF Adds
    <3>2. Has(m, x, w) <=> AtEnd(t, n - 1, x, w)
          BY DEF Merged
    <3>. QED  BY <1>5, <3>1, <3>2 DEF o, v
  <2>9. Merged(t, n, m2)
        BY <2>2, <2>7, <2>8 DEF Merged
  <2>. QED  BY <2>1, <2>9
<1>. QED  BY <1>6, <1>7

\* The enlarged table has the same objects with the same values: the
\* insertions of primitiveMerge always find room.
LEMMA ExpandedFacts ==
    ASSUME NEW t, Chained(t)
    PROVE  Chained(Expanded(t)) /\ Expanded(t).u_size = 2 * t.u_size + 1 /\ SameContents(t, Expanded(t))
<1>. DEFINE u == t.u_size
            N == 2 * u
            new == NewTable(2 * (2 * u))
            merged == CHOOSE merged : merged =
               [n \in 0..N |-> IF n = 0 THEN new
                               ELSE LET entry == t.entries[N - n]
                                    IN  IF entry.index = None THEN merged[n - 1]
                                        ELSE AddInPlace(merged[n - 1], entry.value, entry.index)]
<1>1. u \in Nat \ {0} /\ N \in Nat /\ Typed(t)
      BY WholeTable
<1>2. Expanded(t) = merged[N]
      BY DEF Expanded, MergeInto
<1>3. \A n \in 0..N : merged[n] = IF n = 0 THEN new ELSE MergeStep(t, n, merged[n - 1])
  <2>1. \E f : f = [n \in 0..N |-> IF n = 0 THEN new ELSE MergeStep(t, n, f[n - 1])]
    <3>1. \E f : Merges(new, t, N, f)
      <4>. HIDE DEF new, N
      <4>. QED  BY <1>1, MergeExists
    <3>. QED  BY <3>1 DEF Merges
  <2>2. merged = [n \in 0..N |-> IF n = 0 THEN new ELSE MergeStep(t, n, merged[n - 1])]
        BY <2>1 DEF MergeStep
  <2>. HIDE DEF merged
  <2>. QED  BY <2>2
<1>. HIDE DEF merged
<1>4. Merged(t, 0, new)
  <2>1. 2 * (2 * u) \in Nat /\ 2 * (2 * u) = 4 * u
        BY <1>1
  <2>2. Chained(new) /\ (\A x \in Objects : \A w : ~Has(new, x, w)) /\ new.u_size = 2 * u + 1
        BY <1>1, <2>1, NewTableFacts
  <2>3. \A x \in Objects, w \in Values : ~AtEnd(t, 0, x, w)
        BY <1>1 DEF AtEnd
  <2>. HIDE DEF new
  <2>. QED  BY <2>2, <2>3 DEF Merged
<1>. HIDE DEF new
<1>5. \A n \in 0..N : Merged(t, n, merged[n])
  <2>. DEFINE T == {n \in 0..N : ~Merged(t, n, merged[n])}
  <2>. SUFFICES ASSUME T # {} PROVE FALSE
       OBVIOUS
  <2>1. PICK n \in T : \A y \in T : n <= y
    <3>1. T \in SUBSET Nat
          BY <1>1
    <3>. HIDE DEF T
    <3>. QED  BY <3>1, Least
  <2>2. n # 0
        BY <1>1, <1>3, <1>4
  <2>3. n \in 1..N /\ n - 1 \in 0..N /\ ~(n <= n - 1)
        BY <1>1, <2>2
  <2>4. Merged(t, n - 1, merged[n - 1])
        BY <2>1, <2>3
  <2>5. Merged(t, n, MergeStep(t, n, merged[n - 1]))
        BY <2>3, <2>4, MergeStepFacts
  <2>6. merged[n] = MergeStep(t, n, merged[n - 1])
        BY <1>3, <2>2
  <2>. QED  BY <2>1, <2>5, <2>6
<1>6. Merged(t, N, Expanded(t))
      BY <1>1, <1>2, <1>5
<1>7. ASSUME NEW x \in Objects, NEW w \in Values PROVE Has(Expanded(t), x, w) <=> Has(t, x, w)
  <2>1. Has(Expanded(t), x, w) <=> AtEnd(t, N, x, w)
        BY <1>6 DEF Merged
  <2>2. AtEnd(t, N, x, w) <=> At(u, t.entries, x, w)
        BY <1>1 DEF AtEnd, At
  <2>3. Has(t, x, w) <=> At(u, t.entries, x, w)
        BY <1>1, HasAt
  <2>. QED  BY <2>1, <2>2, <2>3
<1>. QED  BY <1>6, <1>7 DEF Merged, SameContents

-----------------------------------------------------------------------------
(* Adding, replacing and removing.                                         *)

\* An object that is not in the table is added, in this or in the enlarged one.
LEMMA AddFacts ==
    ASSUME NEW t, Chained(t), NEW o \in Objects, NEW v \in Values, o \notin Indexes(t)
    PROVE  Chained(Add(t, v, o)) /\ Adds(t, Add(t, v, o), o, v)
<1>1. CASE Room(t, o)
  <2>1. Add(t, v, o) = AddInPlace(t, v, o)
        BY <1>1 DEF Add, Room
  <2>. QED  BY <1>1, <2>1, AddInPlaceFacts
<1>2. CASE ~Room(t, o)
  <2>. DEFINE m == Expanded(t)
  <2>1. Add(t, v, o) = AddInPlace(m, v, o)
        BY <1>2 DEF Add, Room
  <2>2. Chained(m) /\ m.u_size = 2 * t.u_size + 1 /\ SameContents(t, m)
        BY ExpandedFacts
  <2>. HIDE DEF m
  <2>3. Typed(t) /\ Typed(m)
        BY <2>2 DEF Chained
  <2>4. \A x \in Objects : x \in Indexes(m) <=> x \in Indexes(t)
        BY <2>2, <2>3, IndexFacts DEF SameContents
  <2>5. Room(m, o)
        BY <2>2, <2>4, RoomFacts
  <2>6. Chained(AddInPlace(m, v, o)) /\ Adds(m, AddInPlace(m, v, o), o, v)
        BY <2>2, <2>4, <2>5, AddInPlaceFacts
  <2>7. Adds(t, AddInPlace(m, v, o), o, v)
        BY <2>2, <2>6 DEF Adds, SameContents
  <2>. QED  BY <2>1, <2>6, <2>7
<1>. QED  BY <1>1, <1>2

\* An object of the table is at one position, where Chain and Place find it.
LEMMA PositionFacts ==
    ASSUME NEW t, Chained(t), NEW o \in Objects
    PROVE  /\ Place(t, o) = 0 <=> o \notin Indexes(t)
           /\ o \in Indexes(t) =>
                 \E p \in 0..2 * t.u_size - 1 :
                    /\ t.entries[p].index = o
                    /\ Found(t.u_size, t.entries, Slot(t, o), Chain(t, o), Place(t, o), p)
<1>1. Typed(t)
      BY DEF Chained
<1>2. ASSUME o \in Indexes(t)
      PROVE  \E p \in 0..2 * t.u_size - 1 :
                /\ t.entries[p].index = o
                /\ Found(t.u_size, t.entries, Slot(t, o), Chain(t, o), Place(t, o), p)
  <2>1. PICK p \in 0..2 * t.u_size - 1 : t.entries[p].index = o
        BY <1>1, <1>2, IndexFacts
  <2>. QED  BY <2>1, PlaceFacts
<1>3. ASSUME o \in Indexes(t) PROVE Place(t, o) # 0
  <2>1. PICK p \in 0..2 * t.u_size - 1 : Found(t.u_size, t.entries, Slot(t, o), Chain(t, o), Place(t, o), p)
        BY <1>2, <1>3
  <2>. QED  BY <2>1 DEF Found
<1>4. Place(t, o) # 0 => o \in Indexes(t)
      BY PlaceFacts
<1>. QED  BY <1>2, <1>3, <1>4

\* put adds an object, or replaces its value.
LEMMA PutFacts ==
    ASSUME NEW t, Chained(t), NEW o \in Objects, NEW v \in Values
    PROVE  Chained(Put(t, v, o)) /\ Puts(t, Put(t, v, o), o, v)
<1>. DEFINE u == t.u_size
            e == t.entries
            P == 0..2 * u - 1
<1>1. /\ u \in Nat \ {0} /\ t \in TableSet(u) /\ Whole(u, e) /\ Typed(t)
      /\ \A p \in P : p >= u /\ e[p].index = None => p <= t.free
      BY WholeTable
<1>2. CASE o \notin Indexes(t)
  <2>1. Put(t, v, o) = Add(t, v, o)
        BY <1>2, PositionFacts DEF Put
  <2>2. Chained(Add(t, v, o)) /\ Adds(t, Add(t, v, o), o, v)
        BY <1>2, AddFacts
  <2>3. \A w \in Values : ~Has(t, o, w)
        BY <1>1, <1>2, IndexFacts
  <2>4. Puts(t, Add(t, v, o), o, v)
        BY <2>2, <2>3 DEF Adds, Puts
  <2>. QED  BY <2>1, <2>2, <2>4
<1>3. CASE o \in Indexes(t)
  <2>1. PICK p \in P : e[p].index = o /\ Found(u, e, Slot(t, o), Chain(t, o), Place(t, o), p)
        BY <1>3, PositionFacts
  <2>2. Chain(t, o)[Place(t, o)] = p /\ Place(t, o) # 0
        BY <1>3, <2>1, PositionFacts DEF Found
  <2>. DEFINE t3 == SetValue(t, p, v)
              e3 == t3.entries
  <2>3. Put(t, v, o) = t3
        BY <2>2 DEF Put, SetValue
  <2>. HIDE DEF u, t3
  <2>4. ObjectSet(u, t, t3, p, o, v)
        BY <1>1, <2>1, ValueSetFacts DEF t3
  <2>5. /\ t3 \in TableSet(u) /\ t3.u_size = u /\ t3.free = t.free
        /\ e3[p].index = o /\ e3[p].value = v /\ e3[p].next = e[p].next
        /\ \A q \in P : q # p => e3[q].index = e[q].index /\ e3[q].value = e[q].value /\ e3[q].next = e[q].next
        BY <2>4 DEF ObjectSet, SameLink
  <2>. HIDE DEF e, e3
  <2>6. o # None
        BY HashTyped
  <2>7. Revalues(u, e, e3)
    <3>1. \A q \in P : e[q].index = None => e[q].value = None
          BY <1>1 DEF Whole, Linked
    <3>. QED  BY <2>1, <2>5, <2>6, <3>1 DEF Revalues
  <2>8. Linked(u, e3) /\ Acyclic(u, e3)
        BY <1>1, <2>7, ValuesKeepLinks
  <2>9. ASSUME NEW q \in P, q >= u, e3[q].index = None PROVE q <= t3.free
    <3>1. e[q].index = None
          BY <2>7, <2>9 DEF Revalues
    <3>. QED  BY <1>1, <2>5, <2>9, <3>1
  <2>10. Chained(t3)
        BY <1>1, <2>5, <2>8, <2>9, MakeChained DEF e3
  <2>11. ASSUME NEW x \in Objects, NEW w \in Values
        PROVE  Has(t3, x, w) <=> IF x = o THEN w = v ELSE Has(t, x, w)
    <3>1. (Has(t3, x, w) <=> At(u, e3, x, w)) /\ (Has(t, x, w) <=> At(u, e, x, w))
          BY <1>1, <2>5, <2>10, HasAt DEF e3, e, u, Chained
    <3>2. \A q \in P : e[q].index = o => q = p
          BY <1>1, <2>1, <2>6 DEF Whole, Linked
    <3>3. CASE x = o
      <4>1. At(u, e3, o, w) <=> w = v
        <5>. HIDE DEF P
        <5>1. \A q \in P : e3[q].index = o => q = p
              BY <2>5, <3>2
        <5>2. (\E q \in P : e3[q].index = o /\ e3[q].value = w) <=> w = v
              BY <2>5, <5>1
        <5>. QED  BY <5>2 DEF At, P
      <4>. QED  BY <3>1, <3>3, <4>1
    <3>4. CASE x # o
      <4>1. At(u, e3, x, w) <=> At(u, e, x, w)
        <5>. HIDE DEF P
        <5>1. (\E q \in P : e3[q].index = x /\ e3[q].value = w) <=> (\E q \in P : e[q].index = x /\ e[q].value = w)
              BY <2>1, <2>5, <3>4
        <5>. QED  BY <5>1 DEF At, P
      <4>. QED  BY <3>1, <3>4, <4>1
    <3>. QED  BY <3>3, <3>4
  <2>12. Puts(t, t3, o, v)
        BY <2>11 DEF Puts
  <2>. QED  BY <2>3, <2>10, <2>12
<1>. QED  BY <1>2, <1>3

\* No entry is its own next.
LEMMA NextDiffers ==
    ASSUME NEW u \in Nat \ {0}, NEW e, Whole(u, e),
           NEW r \in 0..2 * u - 1, e[r].next # NoMore
    PROVE  e[r].next # r /\ e[r].next \in u..2 * u - 1 /\ e[e[r].next].index # None
<1>1. PICK K \in Nat : \E rank \in [0..2 * u - 1 -> 0..K] : Ranked(u, e, K, rank)
      BY DEF Whole, Acyclic
<1>2. PICK rank \in [0..2 * u - 1 -> 0..K] : Ranked(u, e, K, rank)
      BY <1>1
<1>3. rank[e[r].next] < rank[r] /\ rank[r] \in 0..K /\ K \in Nat
      BY <1>1, <1>2 DEF Ranked
<1>4. e[r].next \in 0..2 * u - 1 /\ e[r].next >= u /\ e[e[r].next].index # None
      BY DEF Whole, NextsIn, Linked
<1>. QED  BY <1>3, <1>4

\* An entry that was pulled over is no longer in the table.
LEMMA PullContents ==
    ASSUME NEW u \in Nat \ {0}, NEW e, Whole(u, e), NEW e2, NEW r \in 0..2 * u - 1, NEW n \in 0..2 * u - 1,
           Pulls(u, e, e2, r, n), NEW x \in Objects, NEW w
    PROVE  At(u, e2, x, w) <=> x # e[r].index /\ At(u, e, x, w)
<1>. DEFINE P == 0..2 * u - 1
<1>1. x # None /\ n # r
      BY HashTyped, NextDiffers DEF Pulls
<1>2. \A p \in P : p # r /\ p # n => e2[p].index = e[p].index /\ e2[p].value = e[p].value
      BY DEF Pulls, SameLink
<1>3. e2[n].index = None /\ e2[r].index = e[n].index /\ e2[r].value = e[n].value
      BY DEF Pulls, SameLink, Unused
<1>4. \A p, q \in P : e[p].index = x /\ e[q].index = x => p = q
      BY <1>1 DEF Whole, Linked
<1>. HIDE DEF P
<1>5. ASSUME NEW p \in P, e2[p].index = x, e2[p].value = w
      PROVE  x # e[r].index /\ \E q \in P : e[q].index = x /\ e[q].value = w
  <2>1. r \in P /\ n \in P /\ p # n
        BY <1>1, <1>3, <1>5 DEF P
  <2>2. CASE p = r
        BY <1>1, <1>3, <1>4, <1>5, <2>1, <2>2
  <2>3. CASE p # r
        BY <1>2, <1>4, <1>5, <2>1, <2>3
  <2>. QED  BY <2>2, <2>3
<1>6. ASSUME NEW p \in P, e[p].index = x, e[p].value = w, x # e[r].index
      PROVE  \E q \in P : e2[q].index = x /\ e2[q].value = w
  <2>1. r \in P /\ n \in P /\ p # r
        BY <1>6 DEF P
  <2>2. CASE p = n
        BY <1>3, <1>6, <2>1, <2>2
  <2>3. CASE p # n
        BY <1>2, <1>6, <2>1, <2>3
  <2>. QED  BY <2>2, <2>3
<1>. QED  BY <1>5, <1>6 DEF At, P

\* Nor one that was cut off.
LEMMA CutContents ==
    ASSUME NEW u \in Nat \ {0}, NEW e, Whole(u, e), NEW e2, NEW r \in 0..2 * u - 1,
           Cuts(u, e, e2, r), NEW x \in Objects, NEW w
    PROVE  At(u, e2, x, w) <=> x # e[r].index /\ At(u, e, x, w)
<1>. DEFINE P == 0..2 * u - 1
<1>1. x # None
      BY HashTyped
<1>2. \A p \in P : p # r => e2[p].index = e[p].index /\ e2[p].value = e[p].value
      BY DEF Cuts
<1>3. e2[r].index = None
      BY DEF Cuts, Unused
<1>4. \A p, q \in P : e[p].index = x /\ e[q].index = x => p = q
      BY <1>1 DEF Whole, Linked
<1>. HIDE DEF P
<1>5. ASSUME NEW p \in P, e2[p].index = x, e2[p].value = w
      PROVE  x # e[r].index /\ \E q \in P : e[q].index = x /\ e[q].value = w
  <2>1. r \in P /\ p # r
        BY <1>1, <1>3, <1>5 DEF P
  <2>. QED  BY <1>2, <1>4, <1>5, <2>1
<1>6. ASSUME NEW p \in P, e[p].index = x, e[p].value = w, x # e[r].index
      PROVE  \E q \in P : e2[q].index = x /\ e2[q].value = w
      BY <1>2, <1>6
<1>. QED  BY <1>5, <1>6 DEF At, P

\* Removing an object leaves the chains whole, and the other entries.
LEMMA RemoveFacts ==
    ASSUME NEW t, Chained(t), NEW o \in Objects
    PROVE  Chained(PrimitiveRemove(t, o)) /\ Removes(t, PrimitiveRemove(t, o), o)
<1>. DEFINE u == t.u_size
            e == t.entries
            P == 0..2 * u - 1
<1>1. /\ u \in Nat \ {0} /\ t \in TableSet(u) /\ Whole(u, e) /\ Typed(t)
      /\ \A p \in P : p >= u /\ e[p].index = None => p <= t.free
      /\ t.free \in u - 1..2 * u - 1
      BY WholeTable, EntryTypes
<1>2. CASE o \notin Indexes(t)
  <2>1. PrimitiveRemove(t, o) = t
        BY <1>2, PositionFacts DEF PrimitiveRemove
  <2>2. \A w \in Values : ~Has(t, o, w)
        BY <1>1, <1>2, IndexFacts
  <2>. QED  BY <2>1, <2>2 DEF Removes
<1>3. CASE o \in Indexes(t)
  <2>. DEFINE c == Chain(t, o)
              k == Place(t, o)
  <2>1. PICK p \in P : e[p].index = o /\ Found(u, e, Slot(t, o), c, k, p)
        BY <1>3, PositionFacts
  <2>2. /\ k # 0 /\ c[k] = p
        /\ k = 1 => p = Slot(t, o)
        /\ k # 1 => c[k - 1] \in P /\ e[c[k - 1]].next = p /\ p # NoMore
        BY <1>3, <2>1, PositionFacts DEF Found
  <2>3. Slot(t, o) \in 0..u - 1
        BY <1>1, SlotType DEF Slot
  <2>4. Unused \in EntrySet(u) /\ Unused.index = None /\ NoMore \in P
    <3>1. NoMore \in P
          BY <1>1 DEF NoMore
    <3>. QED  BY <3>1 DEF Unused, EntrySet, Values
  <2>5. e \in [P -> EntrySet(u)]
        BY <1>1, EntryTypes
  <2>6. \A a, b \in u - 1..2 * u - 1 : MaxOf(a, b) \in u - 1..2 * u - 1 /\ a <= MaxOf(a, b) /\ b <= MaxOf(a, b)
        BY <1>1 DEF MaxOf
  <2>. DEFINE t3 == PrimitiveRemove(t, o)
              e3 == t3.entries
              n == e[p].next
  <2>7. ASSUME t3 \in TableSet(u), t3.u_size = u, Linked(u, e3), Acyclic(u, e3),
               \A q \in P : q >= u /\ e3[q].index = None => q <= t3.free,
               \A x \in Objects, w \in Values : At(u, e3, x, w) <=> x # o /\ At(u, e, x, w)
        PROVE  Chained(t3) /\ Removes(t, t3, o)
    <3>. HIDE DEF t3
    <3>1. Chained(t3) /\ Typed(t3)
          BY <1>1, <2>7, MakeChained DEF Chained
    <3>2. \A x \in Objects, w \in Values : (Has(t3, x, w) <=> At(u, e3, x, w)) /\ (Has(t, x, w) <=> At(u, e, x, w))
          BY <1>1, <2>7, <3>1, HasAt
    <3>3. Removes(t, t3, o)
          BY <2>7, <3>2 DEF Removes
    <3>. QED  BY <3>1, <3>3
  <2>8. CASE n # NoMore
    <3>1. n \in P /\ n # p /\ n >= u /\ n \in u - 1..2 * u - 1 /\ e[n] \in EntrySet(u)
          BY <1>1, <2>5, <2>8, NextDiffers
    <3>. DEFINE f == MaxOf(t.free, n)
    <3>2. t3 = SetEntriesFree(t, p, e[n], n, Unused, f)
          BY <2>2, <2>8 DEF PrimitiveRemove, SetEntriesFree
    <3>3. f \in u - 1..2 * u - 1 /\ t.free <= f /\ n <= f
          BY <1>1, <2>6, <3>1
    <3>. HIDE DEF t3, u, n, f
    <3>4. EntriesSet(u, t, t3, p, e[n], n, Unused, f)
          BY <1>1, <2>4, <3>1, <3>2, <3>3, EntriesSetFacts
    <3>5. /\ t3 \in TableSet(u) /\ t3.u_size = u /\ t3.free = f
          /\ e3[p] = e[n] /\ e3[n] = Unused
          /\ \A q \in P : q # p /\ q # n => SameLink(e, q, e3, q)
          BY <3>4 DEF EntriesSet
    <3>6. Pulls(u, e, e3, p, n)
          BY <2>8, <3>5 DEF Pulls, SameLink, n
    <3>. HIDE DEF e, e3
    <3>7. Linked(u, e3) /\ Acyclic(u, e3)
          BY <1>1, <3>1, <3>6, PullKeepsLinks
    <3>8. \A x \in Objects, w \in Values : At(u, e3, x, w) <=> x # o /\ At(u, e, x, w)
          BY <1>1, <2>1, <3>1, <3>6, PullContents
    <3>9. ASSUME NEW q \in P, q >= u, e3[q].index = None PROVE q <= t3.free
      <4>1. CASE q = n
            BY <3>3, <3>5, <4>1
      <4>2. CASE q # n
        <5>1. q # p
          <6>1. e[n].index # None
                BY <1>1, <2>8, NextDiffers DEF n
          <6>. QED  BY <3>5, <3>9, <6>1
        <5>2. e[q].index = None
              BY <3>5, <3>9, <4>2, <5>1 DEF SameLink
        <5>3. q <= t.free
              BY <1>1, <3>9, <5>2
        <5>. QED  BY <1>1, <3>3, <3>5, <5>3
      <4>. QED  BY <4>1, <4>2
    <3>10. Chained(t3) /\ Removes(t, t3, o)
          BY <2>7, <3>5, <3>7, <3>8, <3>9 DEF e3
    <3>. QED  BY <3>10 DEF t3
  <2>9. CASE n = NoMore /\ k = 1
    <3>1. t3 = SetEntry(t, p, Unused) /\ p \in 0..u - 1
          BY <2>2, <2>3, <2>9 DEF PrimitiveRemove, SetEntry
    <3>. HIDE DEF t3, u, n
    <3>2. EntriesSet(u, t, t3, p, Unused, p, Unused, t.free)
          BY <1>1, <2>4, <3>1, EntrySetFacts
    <3>3. /\ t3 \in TableSet(u) /\ t3.u_size = u /\ t3.free = t.free /\ e3[p] = Unused
          /\ \A q \in P : q # p => SameLink(e, q, e3, q)
          BY <3>2 DEF EntriesSet
    <3>4. \A q \in P : e[q].next # NoMore => e[q].next # p
      <4>1. \A q \in P : e[q].next # NoMore => e[q].next >= u
            BY <1>1 DEF Whole, Linked
      <4>. QED  BY <1>1, <3>1, <4>1
    <3>5. Cuts(u, e, e3, p)
      <4>1. o # None
            BY HashTyped
      <4>. QED  BY <2>1, <2>9, <3>3, <3>4, <4>1 DEF Cuts, SameLink, n
    <3>. HIDE DEF e, e3
    <3>6. Linked(u, e3) /\ Acyclic(u, e3)
          BY <1>1, <3>5, CutKeepsLinks
    <3>7. \A x \in Objects, w \in Values : At(u, e3, x, w) <=> x # o /\ At(u, e, x, w)
          BY <1>1, <2>1, <3>5, CutContents
    <3>8. ASSUME NEW q \in P, q >= u, e3[q].index = None PROVE q <= t3.free
      <4>1. q # p
            BY <1>1, <3>1, <3>8
      <4>2. e[q].index = None
            BY <3>3, <3>8, <4>1 DEF SameLink
      <4>. QED  BY <1>1, <3>3, <3>8, <4>2
    <3>9. Chained(t3) /\ Removes(t, t3, o)
          BY <2>7, <3>3, <3>6, <3>7, <3>8 DEF e3
    <3>. QED  BY <3>9 DEF t3
  <2>10. CASE n = NoMore /\ k # 1
    <3>. DEFINE r == c[k - 1]
                f == MaxOf(t.free, p)
    <3>1. t3 = SetNextFree(t, p, Unused, r, NoMore, f) /\ r \in P /\ e[r].next = p /\ p # NoMore
          BY <2>2, <2>10 DEF PrimitiveRemove, SetNextFree
    <3>2. p # r /\ p >= u /\ p \in u - 1..2 * u - 1
          BY <1>1, <3>1, NextDiffers
    <3>3. f \in u - 1..2 * u - 1 /\ t.free <= f /\ p <= f
          BY <1>1, <2>6, <3>2
    <3>. HIDE DEF t3, u, n, f, r
    <3>4. NextSet(u, t, t3, p, Unused, r, NoMore, f)
          BY <1>1, <2>4, <3>1, <3>2, <3>3, NextSetFacts
    <3>5. /\ t3 \in TableSet(u) /\ t3.u_size = u /\ t3.free = f /\ e3[p] = Unused
          /\ e3[r].index = e[r].index /\ e3[r].value = e[r].value /\ e3[r].next = NoMore
          /\ \A q \in P : q # p /\ q # r => SameLink(e, q, e3, q)
          BY <3>4 DEF NextSet
    <3>6. \A q \in P : e[q].next = p => q = r
          BY <1>1, <3>1 DEF Whole, Linked
    <3>7. Cuts(u, e, e3, p)
      <4>1. o # None
            BY HashTyped
      <4>. QED  BY <2>1, <2>10, <3>1, <3>5, <3>6, <4>1 DEF Cuts, SameLink, n
    <3>. HIDE DEF e, e3
    <3>8. Linked(u, e3) /\ Acyclic(u, e3)
          BY <1>1, <3>7, CutKeepsLinks
    <3>9. \A x \in Objects, w \in Values : At(u, e3, x, w) <=> x # o /\ At(u, e, x, w)
          BY <1>1, <2>1, <3>7, CutContents
    <3>10. ASSUME NEW q \in P, q >= u, e3[q].index = None PROVE q <= t3.free
      <4>1. CASE q = p
            BY <3>3, <3>5, <4>1
      <4>2. CASE q # p
        <5>1. e[q].index = None
              BY <3>7, <3>10, <4>2 DEF Cuts
        <5>2. q <= t.free
              BY <1>1, <3>10, <5>1
        <5>. QED  BY <1>1, <3>3, <3>5, <5>2
      <4>. QED  BY <4>1, <4>2
    <3>11. Chained(t3) /\ Removes(t, t3, o)
          BY <2>7, <3>5, <3>8, <3>9, <3>10 DEF e3
    <3>. QED  BY <3>11 DEF t3
  <2>. QED  BY <2>8, <2>9, <2>10
<1>. QED  BY <1>2, <1>3

-----------------------------------------------------------------------------
(* The other operations.                                                   *)

\* An entry of a table that was marked.
MarkedEntry(y, dying) == IF y.index \in dying THEN [y EXCEPT !.value = ".true"] ELSE y

\* What it is.
LEMMA MarkedEntryFacts ==
    ASSUME NEW u \in Nat, NEW y \in EntrySet(u), NEW dying
    PROVE  /\ MarkedEntry(y, dying) \in EntrySet(u)
           /\ MarkedEntry(y, dying).index = y.index /\ MarkedEntry(y, dying).next = y.next
           /\ MarkedEntry(y, dying).value = IF y.index \in dying THEN ".true" ELSE y.value
BY DEF MarkedEntry, EntrySet, Values

\* A collection sets the values of the dying.
Marks(t, t2, dying) ==
    \A x \in Objects, w \in Values :
        Has(t2, x, w) <=> IF x \in dying THEN w = ".true" /\ x \in Indexes(t) ELSE Has(t, x, w)

\* The dying have the value .true then, the others their own.
LEMMA MarkedFacts ==
    ASSUME NEW t, Chained(t), NEW dying \in SUBSET Objects
    PROVE  Chained(Marked(t, dying)) /\ Marks(t, Marked(t, dying), dying)
<1>. DEFINE u == t.u_size
            e == t.entries
            P == 0..2 * u - 1
            t3 == Marked(t, dying)
            e3 == t3.entries
            g == [p \in P |-> MarkedEntry(e[p], dying)]
<1>1. /\ u \in Nat \ {0} /\ t \in TableSet(u) /\ Whole(u, e) /\ Typed(t)
      /\ \A p \in P : p >= u /\ e[p].index = None => p <= t.free
      BY WholeTable
<1>2. Positions(t) = P /\ e \in [P -> EntrySet(u)] /\ \A p \in P : e[p] \in EntrySet(u)
      BY <1>1, EntryTypes
<1>3. t3 = [t EXCEPT !.entries = g]
      BY <1>2 DEF Marked, MarkedEntry
<1>4. \A p \in P : /\ g[p] \in EntrySet(u)
                   /\ g[p].index = e[p].index /\ g[p].next = e[p].next
                   /\ g[p].value = IF e[p].index \in dying THEN ".true" ELSE e[p].value
  <2>. HIDE DEF u, e
  <2>. QED  BY <1>1, <1>2, MarkedEntryFacts
<1>5. g \in [P -> EntrySet(u)]
      BY <1>4
<1>. HIDE DEF t3, g
<1>6. t3 \in TableSet(u) /\ t3.u_size = u /\ t3.free = t.free /\ e3 = g
      BY <1>1, <1>3, <1>5 DEF TableSet
<1>. HIDE DEF u, e
<1>7. None \notin dying
      BY HashTyped
<1>8. Revalues(u, e, g)
  <2>1. \A p \in P : e[p].index = None => e[p].value = None
        BY <1>1 DEF Whole, Linked
  <2>. QED  BY <1>4, <1>7, <2>1 DEF Revalues
<1>9. Linked(u, g) /\ Acyclic(u, g)
      BY <1>1, <1>8, ValuesKeepLinks
<1>10. ASSUME NEW p \in P, p >= u, g[p].index = None PROVE p <= t3.free
       BY <1>1, <1>4, <1>6, <1>10
<1>. HIDE DEF e3
<1>11. Chained(t3)
       BY <1>1, <1>6, <1>9, <1>10, MakeChained DEF e3
<1>12. ASSUME NEW x \in Objects, NEW w \in Values
       PROVE  Has(t3, x, w) <=> IF x \in dying THEN w = ".true" /\ x \in Indexes(t) ELSE Has(t, x, w)
  <2>1. (Has(t3, x, w) <=> At(u, g, x, w)) /\ (Has(t, x, w) <=> At(u, e, x, w))
        BY <1>1, <1>6, <1>11, HasAt DEF e3, e, u, Chained
  <2>2. x \in Indexes(t) <=> \E p \in P : e[p].index = x
        BY <1>1, IndexFacts DEF e, u
  <2>. HIDE DEF P
  <2>3. (\E p \in P : g[p].index = x /\ g[p].value = w)
           <=> IF x \in dying THEN w = ".true" /\ \E p \in P : e[p].index = x
               ELSE \E p \in P : e[p].index = x /\ e[p].value = w
    <3>1. CASE x \in dying
          BY <1>4, <3>1
    <3>2. CASE x \notin dying
          BY <1>4, <3>2
    <3>. QED  BY <3>1, <3>2
  <2>. QED  BY <2>1, <2>2, <2>3 DEF At, P
<1>. QED  BY <1>11, <1>12 DEF Marks, t3

\* Whole chains are sound.
LEMMA SoundFacts ==
    ASSUME NEW t, Chained(t)
    PROVE  Sound(t)
<1>. DEFINE P == 0..2 * t.u_size - 1
<1>1. /\ Typed(t) /\ Positions(t) = P /\ Whole(t.u_size, t.entries)
      /\ t.entries \in [P -> EntrySet(t.u_size)]
      /\ \A p \in P : t.entries[p].index \in Objects \cup {None}
      BY WholeTable, EntryTypes
<1>2. ASSUME NEW p \in Occupied(t)
      PROVE  LET chain == Chain(t, t.entries[p].index)
             IN  /\ Contains(chain, p)
                 /\ IsInjective(chain)
                 /\ chain[Place(t, t.entries[p].index)] = p
  <2>. DEFINE o == t.entries[p].index
              c == Chain(t, o)
  <2>1. p \in P /\ o \in Objects
        BY <1>1 DEF Occupied
  <2>2. Found(t.u_size, t.entries, Slot(t, o), c, Place(t, o), p)
        BY <2>1, PlaceFacts
  <2>3. IsChain(t.u_size, t.entries, Slot(t, o), c)
        BY <2>1, ChainFacts
  <2>4. c \in Seq(P) /\ DOMAIN c = 1..Len(c) /\ \A i, j \in 1..Len(c) : c[i] = c[j] => i = j
        BY <2>3 DEF IsChain
  <2>5. Contains(c, p) /\ c[Place(t, o)] = p
        BY <2>2, <2>4 DEF Found, Contains
  <2>6. IsInjective(c)
        BY <2>4 DEF IsInjective
  <2>. QED  BY <2>5, <2>6
<1>3. ASSUME NEW p \in Positions(t) \ Occupied(t) PROVE t.entries[p] = Unused
  <2>1. p \in P /\ t.entries[p].index = None /\ t.entries[p] \in EntrySet(t.u_size)
        BY <1>1 DEF Occupied
  <2>2. t.entries[p].value = None /\ t.entries[p].next = NoMore
        BY <1>1, <2>1 DEF Whole, Linked
  <2>. QED  BY <2>1, <2>2 DEF EntrySet, Unused
<1>4. ASSUME NEW p \in Positions(t) \ Occupied(t) PROVE p < t.u_size \/ p <= t.free
  <2>1. p \in P /\ t.entries[p].index = None /\ t.u_size \in Nat
        BY <1>1, EntryTypes DEF Occupied
  <2>2. p >= t.u_size => p <= t.free
        BY <2>1, WholeTable
  <2>. QED  BY <2>1, <2>2
<1>. QED  BY <1>2, <1>3, <1>4 DEF Sound

-----------------------------------------------------------------------------
(* The inductive invariant.                                                *)

TypeInv ==
    /\ allocated \subseteq Objects
    /\ refers \in [Objects -> Objects \cup {None}]
    /\ processingUninits \in BOOLEAN
    /\ pendingUninits \in BOOLEAN
    /\ created \in 0..MaxCreated
    /\ owed \subseteq Objects /\ finished \subseteq Objects /\ revived \subseteq Objects

\* The table is whole, and not kept when it is empty.
Proper(t) == t # NoTable => Chained(t) /\ Indexes(t) # {}

TableInv == Proper(uninitTable)

\* The object that runUninits is at is still in the table.
PassInv == pass # NoPass => pass.position \in Nat /\ pass.zombie \in Indexes(uninitTable)

\* The saved table has an object only once, and checkUninits is at one of it.
LastInv ==
    /\ DOMAIN last.index \subseteq Nat
    /\ \A p \in DOMAIN last.index : last.index[p] \in Objects
    /\ \A p, q \in DOMAIN last.index : last.index[p] = last.index[q] => p = q
    /\ last.position \in Nat
    /\ last.zombie # None => last.position \in DOMAIN last.index /\ last.zombie = last.index[last.position]

\* What the program, the passes and the tables refer to is in memory.
MemoryInv ==
    /\ held \cup Receivers \cup Indexes(uninitTable) \cup LastObjects \subseteq allocated
    /\ \A o \in allocated : refers[o] \in allocated \cup {None}

\* What is in the saved table is not registered any more.
SeparateInv == Indexes(uninitTable) \cap LastObjects = {}

\* What may be sent UNINIT, or is in it, has not finished it.
FinishedInv == (Indexes(uninitTable) \cup Ahead \cup Receivers) \cap finished = {}

OwedInv == owed \subseteq Indexes(uninitTable) \cup Ahead /\ pass.zombie \notin owed

\* The objects found dead, and the one that is sent UNINIT for that.
Zombies == {o \in Objects : Has(uninitTable, o, ".true")} \cup ({pass.zombie} \ {None})

\* They are still out of reach, unless another UNINIT stored them.
DeadInv == Zombies \cap Reach(held \cup LastObjects) \subseteq revived

IInv ==
    /\ TypeInv /\ TableInv /\ PassInv /\ LastInv /\ MemoryInv
    /\ SeparateInv /\ FinishedInv /\ OwedInv /\ DeadInv

-----------------------------------------------------------------------------
(* What is reached.                                                        *)

\* S has, with an object, the one it refers to.
Closed(r, S) == \A x \in S : r[x] \in S \cup {None}

\* The reached objects are the smallest such set with the roots.
LEMMA ReachedFacts ==
    ASSUME NEW r \in [Objects -> Objects \cup {None}], NEW roots \in SUBSET Objects
    PROVE  /\ Reached(r, roots) \subseteq Objects
           /\ roots \subseteq Reached(r, roots)
           /\ Closed(r, Reached(r, roots))
           /\ \A S \in SUBSET Objects : roots \subseteq S /\ Closed(r, S) => Reached(r, roots) \subseteq S
<1>. DEFINE closed == {S \in SUBSET Objects : roots \subseteq S /\ Closed(r, S)}
            R == Reached(r, roots)
<1>1. R = {o \in Objects : \A S \in closed : o \in S}
      BY DEF Reached, Closed
<1>2. R \subseteq Objects /\ roots \subseteq R
      BY <1>1
<1>3. ASSUME NEW S \in SUBSET Objects, roots \subseteq S, Closed(r, S) PROVE R \subseteq S
      BY <1>1, <1>3
<1>4. ASSUME NEW x \in R PROVE r[x] \in R \cup {None}
  <2>. SUFFICES ASSUME r[x] # None PROVE r[x] \in R
       OBVIOUS
  <2>1. x \in Objects /\ r[x] \in Objects
        BY <1>2
  <2>2. ASSUME NEW S \in closed PROVE r[x] \in S
        BY <1>1, <2>2 DEF Closed
  <2>. QED  BY <1>1, <2>1, <2>2
<1>. HIDE DEF R
<1>. QED  BY <1>2, <1>3, <1>4 DEF Closed, R

\* What is reached from fewer roots is in every closed set with the roots.
LEMMA ReachedLess ==
    ASSUME NEW r \in [Objects -> Objects \cup {None}], NEW roots \in SUBSET Objects,
           NEW more \in SUBSET Objects, roots \subseteq more
    PROVE  Reached(r, roots) \subseteq Reached(r, more)
BY ReachedFacts

-----------------------------------------------------------------------------
(* What the actions do to the tables, whatever their chains are.           *)

\* No table is an empty one.
LEMMA NoTableFacts ==
    /\ Positions(NoTable) = {} /\ Occupied(NoTable) = {} /\ Indexes(NoTable) = {}
    /\ \A x, w : ~Has(NoTable, x, w)
<1>1. NoTable.entries = [p \in {} |-> Unused]
      BY DEF NoTable
<1>2. Positions(NoTable) = {}
      BY <1>1 DEF Positions
<1>. QED  BY <1>2 DEF Occupied, Indexes, Has

\* The objects of a table, each at one position.
LEMMA TableFacts ==
    ASSUME NEW t, t = NoTable \/ Chained(t)
    PROVE  /\ Indexes(t) \subseteq Objects
           /\ \A o \in Objects : o \in Indexes(t) <=> \E w \in Values : Has(t, o, w)
           /\ Occupied(t) \subseteq Nat
           /\ \A p \in Occupied(t) : t.entries[p].index \in Indexes(t)
           /\ \A o \in Indexes(t) : \E p \in Occupied(t) : t.entries[p].index = o
           /\ \A p, q \in Occupied(t) : t.entries[p].index = t.entries[q].index => p = q
           /\ \A p \in Occupied(t) : Has(t, t.entries[p].index, t.entries[p].value)
<1>1. CASE t = NoTable
      BY <1>1, NoTableFacts
<1>2. CASE Chained(t)
  <2>1. /\ Typed(t) /\ Positions(t) = 0..2 * t.u_size - 1 /\ t.u_size \in Nat \ {0}
        /\ Linked(t.u_size, t.entries)
        BY <1>2, EntryTypes, WholeTable DEF Chained
  <2>2. /\ Indexes(t) \subseteq Objects
        /\ \A o \in Objects : o \in Indexes(t) <=> \E w \in Values : Has(t, o, w)
        BY <2>1, IndexFacts
  <2>3. Occupied(t) = {p \in 0..2 * t.u_size - 1 : t.entries[p].index # None}
        BY <2>1 DEF Occupied
  <2>4. Occupied(t) \subseteq Nat
        BY <2>1, <2>3
  <2>5. /\ \A p \in Occupied(t) : t.entries[p].index \in Indexes(t)
        /\ \A o \in Indexes(t) : \E p \in Occupied(t) : t.entries[p].index = o
        BY DEF Indexes
  <2>6. \A p, q \in Occupied(t) : t.entries[p].index = t.entries[q].index => p = q
        BY <2>1, <2>3 DEF Linked
  <2>7. \A p \in Occupied(t) : Has(t, t.entries[p].index, t.entries[p].value)
        BY DEF Has, Occupied
  <2>. QED  BY <2>2, <2>4, <2>5, <2>6, <2>7
<1>. QED  BY <1>1, <1>2

\* The dead of t2 are those of t.
SameDead(t, t2) == \A x \in Objects : Has(t2, x, ".true") => Has(t, x, ".true")

\* Put, as far as it matters which objects there are and which are dead.
LEMMA PutTable ==
    ASSUME NEW t, Chained(t), NEW o \in Objects, NEW v \in {".nil", ".false"}
    PROVE  Chained(Put(t, v, o)) /\ Indexes(Put(t, v, o)) = Indexes(t) \cup {o} /\ SameDead(t, Put(t, v, o))
<1>. DEFINE t2 == Put(t, v, o)
<1>1. v \in Values /\ ".true" \in Values /\ v # ".true"
      BY DEF Values
<1>2. Chained(t2) /\ Puts(t, t2, o, v)
      BY <1>1, PutFacts
<1>. HIDE DEF t2
<1>3. /\ Indexes(t) \subseteq Objects /\ Indexes(t2) \subseteq Objects
      /\ \A x \in Objects : x \in Indexes(t) <=> \E w \in Values : Has(t, x, w)
      /\ \A x \in Objects : x \in Indexes(t2) <=> \E w \in Values : Has(t2, x, w)
      BY <1>2, TableFacts
<1>4. \A x \in Objects : x \in Indexes(t2) <=> x \in Indexes(t) \cup {o}
      BY <1>1, <1>2, <1>3 DEF Puts
<1>5. SameDead(t, t2)
      BY <1>1, <1>2 DEF Puts, SameDead
<1>6. Indexes(t2) = Indexes(t) \cup {o}
      BY <1>3, <1>4
<1>. QED  BY <1>2, <1>5, <1>6 DEF t2

\* PrimitiveRemove likewise.
LEMMA RemoveTable ==
    ASSUME NEW t, Chained(t), NEW o \in Objects
    PROVE  /\ Chained(PrimitiveRemove(t, o)) /\ Indexes(PrimitiveRemove(t, o)) = Indexes(t) \ {o}
           /\ SameDead(t, PrimitiveRemove(t, o))
<1>. DEFINE t2 == PrimitiveRemove(t, o)
<1>1. ".true" \in Values
      BY DEF Values
<1>2. Chained(t2) /\ Removes(t, t2, o)
      BY RemoveFacts
<1>. HIDE DEF t2
<1>3. /\ Indexes(t) \subseteq Objects /\ Indexes(t2) \subseteq Objects
      /\ \A x \in Objects : x \in Indexes(t) <=> \E w \in Values : Has(t, x, w)
      /\ \A x \in Objects : x \in Indexes(t2) <=> \E w \in Values : Has(t2, x, w)
      BY <1>2, TableFacts
<1>4. \A x \in Objects : x \in Indexes(t2) <=> x \in Indexes(t) \ {o}
      BY <1>2, <1>3 DEF Removes
<1>5. SameDead(t, t2)
      BY <1>1, <1>2 DEF Removes, SameDead
<1>6. Indexes(t2) = Indexes(t) \ {o}
      BY <1>3, <1>4
<1>. QED  BY <1>2, <1>5, <1>6 DEF t2

\* And marking.
LEMMA MarkedTable ==
    ASSUME NEW t, Chained(t), NEW dying \in SUBSET Objects
    PROVE  /\ Chained(Marked(t, dying)) /\ Indexes(Marked(t, dying)) = Indexes(t)
           /\ \A x \in Objects : Has(Marked(t, dying), x, ".true") => x \in dying \/ Has(t, x, ".true")
<1>. DEFINE t2 == Marked(t, dying)
<1>1. ".true" \in Values
      BY DEF Values
<1>2. Chained(t2) /\ Marks(t, t2, dying)
      BY MarkedFacts
<1>. HIDE DEF t2
<1>3. /\ Indexes(t) \subseteq Objects /\ Indexes(t2) \subseteq Objects
      /\ \A x \in Objects : x \in Indexes(t) <=> \E w \in Values : Has(t, x, w)
      /\ \A x \in Objects : x \in Indexes(t2) <=> \E w \in Values : Has(t2, x, w)
      BY <1>2, TableFacts
<1>4. \A x \in Objects : x \in Indexes(t2) <=> x \in Indexes(t)
      BY <1>1, <1>2, <1>3 DEF Marks
<1>5. \A x \in Objects : Has(t2, x, ".true") => x \in dying \/ Has(t, x, ".true")
      BY <1>1, <1>2 DEF Marks
<1>6. Indexes(t2) = Indexes(t)
      BY <1>3, <1>4
<1>. QED  BY <1>2, <1>5, <1>6 DEF t2

\* What the loop of runUninits does next with table.
Iterated(table) ==
    /\ Proper(uninitTable') /\ Indexes(uninitTable') = Indexes(table) /\ SameDead(table, uninitTable')
    /\ processingUninits' \in BOOLEAN
    /\ \/ pass' = NoPass /\ owed' = owed
       \/ /\ pass'.position \in Nat /\ pass'.zombie \in Indexes(table) /\ Has(table, pass'.zombie, ".true")
          /\ owed' = owed \ {pass'.zombie}

\* It comes to a dead object and sets its value to .false, or to the end.
LEMMA IterateFacts ==
    ASSUME NEW table, Chained(table), NEW from, Iterate(table, from)
    PROVE  Iterated(table)
<1>. DEFINE zombies == {p \in From(table, from) : table.entries[p].value = ".true"}
<1>1. /\ Indexes(table) \subseteq Objects /\ Occupied(table) \subseteq Nat
      /\ \A p \in Occupied(table) : table.entries[p].index \in Indexes(table)
      /\ \A p \in Occupied(table) : Has(table, table.entries[p].index, table.entries[p].value)
      BY TableFacts
<1>2. CASE uninitTable' = ProcessTable(table) /\ pass' = NoPass /\ processingUninits' = FALSE /\ UNCHANGED owed
  <2>1. CASE Indexes(table) = {}
    <3>1. uninitTable' = NoTable
          BY <1>2, <2>1 DEF ProcessTable
    <3>. QED  BY <1>2, <2>1, <3>1, NoTableFacts DEF Iterated, Proper, SameDead
  <2>2. CASE Indexes(table) # {}
    <3>1. uninitTable' = table
          BY <1>2, <2>2 DEF ProcessTable
    <3>. QED  BY <1>2, <2>2, <3>1 DEF Iterated, Proper, SameDead
  <2>. QED  BY <2>1, <2>2
<1>3. ASSUME NEW p \in zombies,
             uninitTable' = Put(table, ".false", table.entries[p].index),
             pass' = [position |-> p, zombie |-> table.entries[p].index],
             processingUninits' = TRUE,
             owed' = owed \ {table.entries[p].index}
      PROVE  Iterated(table)
  <2>. DEFINE o == table.entries[p].index
  <2>1. p \in Nat /\ o \in Indexes(table) /\ o \in Objects /\ Has(table, o, ".true")
        BY <1>1 DEF From
  <2>. HIDE DEF o
  <2>2. Chained(Put(table, ".false", o)) /\ Indexes(Put(table, ".false", o)) = Indexes(table) \cup {o}
        /\ SameDead(table, Put(table, ".false", o))
        BY <2>1, PutTable
  <2>3. uninitTable' = Put(table, ".false", o) /\ pass'.position = p /\ pass'.zombie = o /\ owed' = owed \ {o}
        BY <1>3 DEF o
  <2>4. Indexes(uninitTable') = Indexes(table) /\ Indexes(uninitTable') # {}
        BY <2>1, <2>2, <2>3
  <2>. QED  BY <1>3, <2>1, <2>2, <2>3, <2>4 DEF Iterated, Proper
<1>. QED  BY <1>2, <1>3 DEF Iterate

\* index has objects by position, each only once.
Saved(index) ==
    /\ DOMAIN index \subseteq Nat
    /\ \A p \in DOMAIN index : index[p] \in Objects
    /\ \A p, q \in DOMAIN index : index[p] = index[q] => p = q

\* What is ahead of position from.
AheadOf(index, from) == {index[p] : p \in Rest(index, from)}

\* What the loop of checkUninits does next.
LastPassed(index, from) ==
    /\ LastInv'
    /\ \/ /\ AheadOf(index, from) = {} /\ owed' = owed
          /\ LastObjects' = {} /\ Ahead' = {} /\ last'.zombie = None
       \/ /\ LastObjects' = Range(index)
          /\ last'.zombie \in AheadOf(index, from)
          /\ Ahead' = AheadOf(index, from) \ {last'.zombie}
          /\ owed' = owed \ {last'.zombie}

\* It comes to the next object, or to the end.
LEMMA LastPassFacts ==
    ASSUME NEW index, Saved(index), NEW from \in Nat, LastPass(index, from)
    PROVE  LastPassed(index, from)
<1>1. CASE Rest(index, from) = {} /\ last' = Over /\ UNCHANGED owed
  <2>1. /\ Over.index = <<>> /\ Over.zombie = None /\ Over.position = 0
        /\ DOMAIN <<>> = {}
        BY DEF Over, NotYet
  <2>2. LastInv'
        BY <1>1, <2>1 DEF LastInv
  <2>3. LastObjects' = {} /\ Ahead' = {} /\ last'.zombie = None
        BY <1>1, <2>1 DEF LastObjects, Range, Ahead, Rest
  <2>. QED  BY <1>1, <2>2, <2>3 DEF LastPassed, AheadOf
<1>2. ASSUME NEW p \in Rest(index, from), \A q \in Rest(index, from) : p <= q,
             last' = [stage |-> "on", index |-> index, position |-> p, zombie |-> index[p]],
             owed' = owed \ {index[p]}
      PROVE  LastPassed(index, from)
  <2>1. p \in DOMAIN index /\ p \in Nat /\ last'.index = index /\ last'.position = p /\ last'.zombie = index[p]
        BY <1>2 DEF Rest, Saved
  <2>2. LastInv'
        BY <2>1 DEF LastInv, Saved
  <2>3. last'.zombie \in AheadOf(index, from)
        BY <2>1 DEF AheadOf
  <2>4. \A q \in Nat : q \in Rest(index, p + 1) <=> q \in Rest(index, from) /\ q # p
    <3>1. ASSUME NEW q \in Nat, q \in Rest(index, p + 1) PROVE q \in Rest(index, from) /\ q # p
          BY <1>2, <2>1, <3>1 DEF Rest
    <3>2. ASSUME NEW q \in Nat, q \in Rest(index, from), q # p PROVE q \in Rest(index, p + 1)
      <4>1. q \in DOMAIN index /\ p <= q
            BY <1>2, <3>2 DEF Rest
      <4>. QED  BY <2>1, <3>2, <4>1 DEF Rest
    <3>. QED  BY <3>1, <3>2
  <2>5. Rest(index, from) \subseteq Nat /\ Rest(index, p + 1) \subseteq Nat
        /\ \A q, r \in Rest(index, from) : index[q] = index[r] => q = r
        BY DEF Rest, Saved
  <2>6. Ahead' = AheadOf(index, p + 1)
        BY <2>1 DEF Ahead, AheadOf
  <2>7. AheadOf(index, p + 1) = AheadOf(index, from) \ {index[p]}
        BY <2>4, <2>5 DEF AheadOf
  <2>8. LastObjects' = Range(index)
        BY <2>1 DEF LastObjects
  <2>. QED  BY <1>2, <2>1, <2>2, <2>3, <2>6, <2>7, <2>8 DEF LastPassed
<1>. QED  BY <1>1, <1>2 DEF LastPass

-----------------------------------------------------------------------------
(* The invariant, action by action.                                        *)

\* What the other lemmas take from it.
LEMMA InvFacts ==
    ASSUME IInv
    PROVE  /\ None \notin Objects
           /\ uninitTable = NoTable \/ Chained(uninitTable)
           /\ held \subseteq Objects /\ LastObjects \subseteq Objects
           /\ Indexes(uninitTable) \subseteq Objects /\ Receivers \subseteq Objects
           /\ pass.zombie \in Indexes(uninitTable) \cup {None}
           /\ last.zombie \in LastObjects \cup {None}
           /\ Ahead \subseteq LastObjects /\ last.zombie \notin Ahead
           /\ Saved(last.index)
<1>. USE DEF IInv
<1>1. None \notin Objects
      BY HashTyped
<1>2. uninitTable = NoTable \/ Chained(uninitTable)
      BY DEF TableInv, Proper
<1>3. /\ held \subseteq Objects /\ LastObjects \subseteq Objects
      /\ Indexes(uninitTable) \subseteq Objects /\ Receivers \subseteq Objects
      BY DEF TypeInv, MemoryInv
<1>4. pass.zombie \in Indexes(uninitTable) \cup {None}
      BY DEF PassInv, NoPass
<1>5. last.zombie \in LastObjects \cup {None}
      BY DEF LastInv, LastObjects, Range
<1>6. Ahead \subseteq LastObjects
      BY DEF Ahead, Rest, LastObjects, Range
<1>7. last.zombie \notin Ahead
  <2>. SUFFICES ASSUME last.zombie \in Ahead PROVE FALSE
       OBVIOUS
  <2>1. PICK p \in DOMAIN last.index : p >= last.position + 1 /\ last.zombie = last.index[p]
        BY DEF Ahead, Rest
  <2>2. last.zombie # None
        BY <1>1, <1>3, <1>6
  <2>3. last.position \in DOMAIN last.index /\ last.zombie = last.index[last.position]
        BY <2>2 DEF LastInv
  <2>4. p = last.position /\ p \in Nat
        BY <2>1, <2>3 DEF LastInv
  <2>. QED  BY <2>1, <2>4
<1>8. Saved(last.index)
      BY DEF LastInv, Saved
<1>. QED  BY <1>1, <1>2, <1>3, <1>4, <1>5, <1>6, <1>7, <1>8

\* What the program and the UNINIT methods can get at is in memory.
LEMMA AccessibleFacts ==
    ASSUME IInv, NEW roots \in SUBSET allocated
    PROVE  Reach(roots) \subseteq allocated
<1>1. refers \in [Objects -> Objects \cup {None}] /\ allocated \in SUBSET Objects
      BY DEF IInv, TypeInv
<1>2. Closed(refers, allocated)
      BY DEF IInv, MemoryInv, Closed
<1>. QED  BY <1>1, <1>2, ReachedFacts DEF Reach

\* What is reached from two sets of roots is reached from one of them.
LEMMA ReachedUnion ==
    ASSUME NEW r \in [Objects -> Objects \cup {None}], NEW A \in SUBSET Objects, NEW B \in SUBSET Objects
    PROVE  Reached(r, A \cup B) \subseteq Reached(r, A) \cup Reached(r, B)
<1>. DEFINE S == Reached(r, A) \cup Reached(r, B)
<1>1. /\ Reached(r, A) \subseteq Objects /\ A \subseteq Reached(r, A) /\ Closed(r, Reached(r, A))
      /\ Reached(r, B) \subseteq Objects /\ B \subseteq Reached(r, B) /\ Closed(r, Reached(r, B))
      BY ReachedFacts
<1>2. S \in SUBSET Objects /\ A \cup B \subseteq S /\ Closed(r, S)
      BY <1>1 DEF Closed
<1>3. A \cup B \in SUBSET Objects
      OBVIOUS
<1>. HIDE DEF S
<1>4. Reached(r, A \cup B) \subseteq S
      BY <1>2, <1>3, ReachedFacts
<1>. QED  BY <1>4 DEF S

\* Fewer references reach less.
LEMMA ReachedFewer ==
    ASSUME NEW r \in [Objects -> Objects \cup {None}], NEW r2 \in [Objects -> Objects \cup {None}],
           \A x \in Objects : r2[x] \in {r[x], None}, NEW A \in SUBSET Objects
    PROVE  Reached(r2, A) \subseteq Reached(r, A)
<1>1. Reached(r, A) \in SUBSET Objects /\ A \subseteq Reached(r, A) /\ Closed(r, Reached(r, A))
      BY ReachedFacts
<1>2. Closed(r2, Reached(r, A))
      BY <1>1 DEF Closed
<1>. QED  BY <1>1, <1>2, ReachedFacts

\* A new object reaches what it refers to.
LEMMA ReachedNew ==
    ASSUME NEW r \in [Objects -> Objects \cup {None}], NEW o \in Objects, NEW ref \in Objects \cup {None},
           NEW r2, r2 = [r EXCEPT ![o] = ref], NEW A \in SUBSET Objects,
           NEW B, B = {ref} \ {None}, None \notin Objects
    PROVE  Reached(r2, A \cup {o}) \subseteq Reached(r, A) \cup {o} \cup Reached(r, B)
<1>. DEFINE S == Reached(r, A) \cup {o} \cup Reached(r, B)
<1>1. B \in SUBSET Objects
      OBVIOUS
<1>2. r2 \in [Objects -> Objects \cup {None}] /\ r2[o] = ref /\ \A x \in Objects : x # o => r2[x] = r[x]
      OBVIOUS
<1>3. /\ Reached(r, A) \subseteq Objects /\ A \subseteq Reached(r, A) /\ Closed(r, Reached(r, A))
      /\ Reached(r, B) \subseteq Objects /\ B \subseteq Reached(r, B) /\ Closed(r, Reached(r, B))
      BY <1>1, ReachedFacts
<1>4. S \in SUBSET Objects /\ A \cup {o} \subseteq S
      BY <1>3
<1>5. Closed(r2, S)
  <2>1. ASSUME NEW x \in S PROVE r2[x] \in S \cup {None}
    <3>1. CASE x = o
          BY <1>2, <1>3, <3>1
    <3>2. CASE x # o
          BY <1>2, <1>3, <3>2 DEF Closed
    <3>. QED  BY <3>1, <3>2
  <2>. QED  BY <2>1 DEF Closed
<1>. DEFINE more == A \cup {o}
<1>6. more \in SUBSET Objects /\ more \subseteq S
      BY <1>4
<1>. HIDE DEF S, more
<1>7. Reached(r2, more) \subseteq S
      BY <1>2, <1>4, <1>5, <1>6, ReachedFacts
<1>. QED  BY <1>7 DEF S, more

\* At the start there is nothing.
LEMMA InitInv ==
    ASSUME Init PROVE IInv
<1>1. NoPass.zombie = None /\ NotYet.zombie = None /\ NotYet.index = <<>> /\ NotYet.position = 0 /\ DOMAIN <<>> = {}
      BY DEF NoPass, NotYet
<1>2. Receivers = {} /\ LastObjects = {} /\ Ahead = {} /\ Indexes(uninitTable) = {}
      BY <1>1, NoTableFacts DEF Init, Receivers, LastObjects, Range, Ahead, Rest
<1>3. TypeInv
  <2>1. created \in 0..MaxCreated
        BY UninitBounds DEF Init
  <2>. QED  BY <2>1 DEF Init, TypeInv
<1>4. TableInv /\ PassInv
      BY DEF Init, TableInv, Proper, PassInv
<1>5. LastInv
      BY <1>1 DEF Init, LastInv
<1>6. MemoryInv /\ SeparateInv /\ FinishedInv /\ OwedInv
      BY <1>2 DEF Init, MemoryInv, SeparateInv, FinishedInv, OwedInv
<1>7. Zombies = {}
      BY <1>1, NoTableFacts DEF Init, Zombies
<1>. QED  BY <1>3, <1>4, <1>5, <1>6, <1>7 DEF IInv, DeadInv

\* Dropping an object brings nothing back into reach.
LEMMA DropInv ==
    ASSUME IInv, NEW o \in Objects, Drop(o) PROVE IInv'
<1>. USE DEF IInv, Drop
<1>1. Receivers' = Receivers /\ LastObjects' = LastObjects /\ Ahead' = Ahead /\ Zombies' = Zombies
      BY DEF Receivers, LastObjects, Ahead, Rest, Zombies
<1>2. TypeInv' /\ TableInv' /\ PassInv' /\ LastInv'
      BY DEF TypeInv, TableInv, PassInv, LastInv
<1>3. MemoryInv' /\ SeparateInv' /\ FinishedInv' /\ OwedInv'
      BY <1>1 DEF MemoryInv, SeparateInv, FinishedInv, OwedInv
<1>4. DeadInv'
  <2>1. held' \cup LastObjects \in SUBSET Objects /\ held \cup LastObjects \in SUBSET Objects
        /\ held' \cup LastObjects \subseteq held \cup LastObjects
        BY InvFacts
  <2>2. refers \in [Objects -> Objects \cup {None}]
        BY DEF TypeInv
  <2>3. Reached(refers, held' \cup LastObjects) \subseteq Reached(refers, held \cup LastObjects)
        BY <2>1, <2>2, ReachedLess
  <2>. QED  BY <1>1, <2>3 DEF DeadInv, Reach
<1>. QED  BY <1>2, <1>3, <1>4

\* What an UNINIT method stores counts as revived.
LEMMA StoreInv ==
    ASSUME IInv, NEW o \in Objects, Store(o) PROVE IInv'
<1>. USE DEF IInv, Store
<1>1. Receivers' = Receivers /\ LastObjects' = LastObjects /\ Ahead' = Ahead /\ Zombies' = Zombies
      BY DEF Receivers, LastObjects, Ahead, Rest, Zombies
<1>2. refers \in [Objects -> Objects \cup {None}] /\ held \subseteq Objects /\ LastObjects \subseteq Objects
      BY InvFacts DEF TypeInv
<1>3. {o} \in SUBSET Objects /\ held \cup LastObjects \in SUBSET Objects /\ held \in SUBSET Objects
      BY <1>2
<1>4. Reach({o}) \subseteq Objects
      BY <1>2, <1>3, ReachedFacts DEF Reach
<1>5. TypeInv' /\ TableInv' /\ PassInv' /\ LastInv'
      BY <1>4 DEF TypeInv, TableInv, PassInv, LastInv
<1>6. o \in allocated
      BY AccessibleFacts DEF Accessible, MemoryInv
<1>7. MemoryInv' /\ SeparateInv' /\ FinishedInv' /\ OwedInv'
      BY <1>1, <1>6 DEF MemoryInv, SeparateInv, FinishedInv, OwedInv
<1>8. DeadInv'
  <2>1. Reached(refers, (held \cup LastObjects) \cup {o})
           \subseteq Reached(refers, held \cup LastObjects) \cup Reached(refers, {o})
        BY <1>2, <1>3, ReachedUnion
  <2>2. Reached(refers, held) \subseteq Reached(refers, held \cup LastObjects)
        BY <1>2, <1>3, ReachedLess
  <2>3. held' \cup LastObjects = (held \cup LastObjects) \cup {o}
        OBVIOUS
  <2>4. Reach(held \cup LastObjects)' = Reached(refers, (held \cup LastObjects) \cup {o})
        BY <1>1, <2>3 DEF Reach
  <2>5. Zombies \cap Reached(refers, held \cup LastObjects) \subseteq revived
        BY DEF DeadInv, Reach
  <2>. QED  BY <1>1, <2>1, <2>2, <2>4, <2>5 DEF DeadInv, Reach
<1>. QED  BY <1>5, <1>7, <1>8

\* A dead object is registered, or is the one that runUninits is at.
LEMMA ZombieFacts ==
    ASSUME IInv
    PROVE  Zombies \subseteq Indexes(uninitTable)
<1>1. uninitTable = NoTable \/ Chained(uninitTable)
      BY InvFacts
<1>2. \A x \in Objects : Has(uninitTable, x, ".true") => x \in Indexes(uninitTable)
  <2>1. ".true" \in Values
        BY DEF Values
  <2>. QED  BY <1>1, <2>1, TableFacts
<1>3. {pass.zombie} \ {None} \subseteq Indexes(uninitTable)
      BY InvFacts
<1>. QED  BY <1>2, <1>3 DEF Zombies

\* hasUninit puts a new object into the table.
LEMMA RegisterFacts ==
    ASSUME IInv, NEW o \in Objects, o \notin allocated, Register(o)
    PROVE  /\ Chained(uninitTable') /\ Indexes(uninitTable') = Indexes(uninitTable) \cup {o}
           /\ SameDead(uninitTable, uninitTable')
           /\ owed' = owed \cup {o} /\ finished' = finished \ {o}
<1>. DEFINE table == IF uninitTable = NoTable THEN NewTable(Capacity) ELSE uninitTable
<1>1. Chained(table) /\ Indexes(table) = Indexes(uninitTable) /\ SameDead(uninitTable, table)
  <2>1. CASE uninitTable = NoTable
    <3>1. Chained(NewTable(Capacity)) /\ \A x \in Objects : \A w : ~Has(NewTable(Capacity), x, w)
          BY UninitBounds, NewTableFacts
    <3>2. Indexes(NewTable(Capacity)) = {}
          BY <3>1, TableFacts
    <3>3. table = NewTable(Capacity)
          BY <2>1
    <3>. QED  BY <2>1, <3>1, <3>2, <3>3, NoTableFacts DEF SameDead
  <2>2. CASE uninitTable # NoTable
    <3>1. table = uninitTable /\ Chained(uninitTable)
          BY <2>2, InvFacts
    <3>. QED  BY <3>1 DEF SameDead
  <2>. QED  BY <2>1, <2>2
<1>2. IF Get(table, o) # None
      THEN UNCHANGED <<uninitTable, owed, finished>>
      ELSE /\ uninitTable' = Put(table, ".nil", o)
           /\ owed' = owed \cup {o}
           /\ finished' = finished \ {o}
      BY DEF Register
<1>. HIDE DEF table
<1>3. Get(table, o) = None
  <2>1. o \notin Indexes(table)
        BY <1>1 DEF IInv, MemoryInv
  <2>2. Place(table, o) = 0
        BY <1>1, <2>1, PositionFacts
  <2>. QED  BY <2>2 DEF Get
<1>4. /\ Chained(Put(table, ".nil", o)) /\ Indexes(Put(table, ".nil", o)) = Indexes(table) \cup {o}
      /\ SameDead(table, Put(table, ".nil", o))
      BY <1>1, PutTable
<1>. QED  BY <1>1, <1>2, <1>3, <1>4 DEF SameDead

\* A new object is registered, and what it refers to is no longer dead.
LEMMA CreateInv ==
    ASSUME IInv, NEW o \in Objects, NEW ref \in Objects \cup {None}, Create(o, ref) PROVE IInv'
<1>. DEFINE B == {ref} \ {None}
<1>1. /\ o \notin allocated /\ ref \in Accessible \cup {None}
      /\ allocated' = allocated \cup {o} /\ held' = held \cup {o}
      /\ refers' = [refers EXCEPT ![o] = ref] /\ created < MaxCreated /\ created' = created + 1
      /\ revived' = (revived \cup (Reach(B) \ Reach(held))) \ {o}
      /\ Register(o)
      /\ processingUninits' = processingUninits /\ pendingUninits' = pendingUninits
      /\ pass' = pass /\ last' = last
      BY DEF Create
<1>2. /\ Chained(uninitTable') /\ Indexes(uninitTable') = Indexes(uninitTable) \cup {o}
      /\ SameDead(uninitTable, uninitTable')
      /\ owed' = owed \cup {o} /\ finished' = finished \ {o}
      BY <1>1, RegisterFacts
<1>3. Receivers' = Receivers /\ LastObjects' = LastObjects /\ Ahead' = Ahead
      BY <1>1 DEF Receivers, LastObjects, Ahead, Rest
<1>4. /\ None \notin Objects /\ held \in SUBSET Objects /\ LastObjects \subseteq Objects
      /\ held \cup LastObjects \in SUBSET Objects /\ B \in SUBSET Objects
      /\ pass.zombie \in Indexes(uninitTable) \cup {None}
      BY InvFacts
<1>5. TypeInv /\ refers \in [Objects -> Objects \cup {None}]
      BY DEF IInv, TypeInv
<1>. HIDE DEF B
<1>6. Reach(B) \subseteq Objects
      BY <1>4, <1>5, ReachedFacts DEF Reach
<1>7. TypeInv'
  <2>1. created' \in 0..MaxCreated
        BY <1>1, <1>5, UninitBounds DEF TypeInv
  <2>2. refers' \in [Objects -> Objects \cup {None}]
        BY <1>1, <1>5
  <2>. QED  BY <1>1, <1>2, <1>5, <1>6, <2>1, <2>2 DEF TypeInv
<1>8. TableInv'
      BY <1>2 DEF TableInv, Proper
<1>9. PassInv'
      BY <1>1, <1>2 DEF IInv, PassInv
<1>10. LastInv'
      BY <1>1 DEF IInv, LastInv
<1>11. MemoryInv'
  <2>1. ref \in allocated \cup {None}
    <3>1. Accessible \subseteq allocated
          BY AccessibleFacts DEF Accessible, IInv, MemoryInv
    <3>. QED  BY <1>1, <3>1
  <2>2. held' \cup Receivers' \cup Indexes(uninitTable') \cup LastObjects' \subseteq allocated'
        BY <1>1, <1>2, <1>3 DEF IInv, MemoryInv
  <2>3. ASSUME NEW x \in allocated' PROVE refers'[x] \in allocated' \cup {None}
    <3>1. CASE x = o
          BY <1>1, <1>5, <2>1, <3>1
    <3>2. CASE x # o
      <4>1. x \in allocated /\ x \in Objects /\ refers'[x] = refers[x]
            BY <1>1, <1>5, <3>2 DEF TypeInv
      <4>. QED  BY <1>1, <4>1 DEF IInv, MemoryInv
    <3>. QED  BY <3>1, <3>2
  <2>. QED  BY <2>2, <2>3 DEF MemoryInv
<1>12. SeparateInv'
      BY <1>1, <1>2, <1>3 DEF IInv, SeparateInv, MemoryInv
<1>13. FinishedInv'
      BY <1>2, <1>3 DEF IInv, FinishedInv
<1>14. OwedInv'
  <2>1. pass.zombie # o
        BY <1>1, <1>4 DEF IInv, MemoryInv
  <2>. QED  BY <1>1, <1>2, <1>3, <2>1 DEF IInv, OwedInv
<1>15. DeadInv'
  <2>1. Reached(refers', (held \cup LastObjects) \cup {o})
           \subseteq Reached(refers, held \cup LastObjects) \cup {o} \cup Reached(refers, B)
        BY <1>1, <1>4, <1>5, ReachedNew DEF B
  <2>2. Reached(refers, held) \subseteq Reached(refers, held \cup LastObjects)
        BY <1>4, <1>5, ReachedLess
  <2>3. held' \cup LastObjects' = (held \cup LastObjects) \cup {o}
        BY <1>1, <1>3
  <2>4. Reach(held \cup LastObjects)' = Reached(refers', (held \cup LastObjects) \cup {o})
        BY <2>3 DEF Reach
  <2>5. Zombies \cap Reached(refers, held \cup LastObjects) \subseteq revived
        BY DEF IInv, DeadInv, Reach
  <2>6. Zombies' \subseteq Zombies /\ o \notin Zombies
    <3>1. o \notin Zombies
          BY <1>1, ZombieFacts DEF IInv, MemoryInv
    <3>2. Zombies' \subseteq Zombies
          BY <1>1, <1>2 DEF Zombies, SameDead
    <3>. QED  BY <3>1, <3>2
  <2>. QED  BY <1>1, <2>1, <2>2, <2>4, <2>5, <2>6 DEF DeadInv, Reach
<1>. QED  BY <1>7, <1>8, <1>9, <1>10, <1>11, <1>12, <1>13, <1>14, <1>15 DEF IInv

\* An UNINIT that fails is over.
LEMMA UninitFailsInv ==
    ASSUME IInv, UninitFails PROVE IInv'
<1>. USE DEF IInv, UninitFails, memory
<1>1. NoPass.zombie = None
      BY DEF NoPass
<1>2. Receivers' \subseteq Receivers /\ LastObjects' = LastObjects /\ Ahead' = Ahead /\ Zombies' \subseteq Zombies
      BY <1>1 DEF Receivers, LastObjects, Ahead, Rest, Zombies
<1>3. TypeInv' /\ TableInv' /\ PassInv' /\ LastInv'
      BY DEF TypeInv, TableInv, PassInv, LastInv
<1>4. None \notin owed
      BY InvFacts DEF TypeInv
<1>5. MemoryInv' /\ SeparateInv' /\ FinishedInv' /\ OwedInv'
      BY <1>1, <1>2, <1>4 DEF MemoryInv, SeparateInv, FinishedInv, OwedInv
<1>6. DeadInv'
      BY <1>2 DEF DeadInv, Reach
<1>. QED  BY <1>3, <1>5, <1>6

\* A collection marks only what cannot be reached, and keeps what the table has.
LEMMA CollectInv ==
    ASSUME IInv, Collect PROVE IInv'
<1>. DEFINE A == held \cup LastObjects
            R == held \cup Receivers \cup LastObjects
            I == Indexes(uninitTable)
<1>1. /\ uninitTable' = (IF uninitTable = NoTable THEN NoTable ELSE Marked(uninitTable, Dying))
      /\ pendingUninits' = (pendingUninits \/ (uninitTable # NoTable /\ IsPending))
      /\ allocated' = allocated \cap Kept
      /\ refers' = [o \in Objects |-> IF o \in Kept THEN refers[o] ELSE None]
      /\ held' = held /\ created' = created /\ revived' = revived /\ processingUninits' = processingUninits
      /\ pass' = pass /\ last' = last /\ owed' = owed /\ finished' = finished
      BY DEF Collect
<1>2. /\ None \notin Objects /\ (uninitTable = NoTable \/ Chained(uninitTable))
      /\ A \in SUBSET Objects /\ R \in SUBSET Objects /\ I \in SUBSET Objects
      BY InvFacts
<1>3. TypeInv /\ refers \in [Objects -> Objects \cup {None}]
      BY DEF IInv, TypeInv
<1>4. Receivers' = Receivers /\ LastObjects' = LastObjects /\ Ahead' = Ahead
      BY <1>1 DEF Receivers, LastObjects, Ahead, Rest
<1>5. Live = Reached(refers, R) /\ Kept = Live \cup Reached(refers, I) /\ Dying = I \ Live
      BY DEF Live, Kept, Dying, Reach
<1>. HIDE DEF A, R, I
<1>6. /\ R \subseteq Live /\ Closed(refers, Live) /\ I \subseteq Reached(refers, I)
      /\ Closed(refers, Reached(refers, I)) /\ Live \subseteq Objects
      BY <1>2, <1>3, <1>5, ReachedFacts
<1>7. /\ uninitTable' = NoTable \/ Chained(uninitTable')
      /\ Indexes(uninitTable') = I
      /\ \A x \in Objects : Has(uninitTable', x, ".true") => x \in Dying \/ Has(uninitTable, x, ".true")
  <2>1. CASE uninitTable = NoTable
    <3>1. uninitTable' = NoTable
          BY <1>1, <2>1
    <3>. QED  BY <2>1, <3>1, NoTableFacts DEF I
  <2>2. CASE uninitTable # NoTable
    <3>1. uninitTable' = Marked(uninitTable, Dying) /\ Chained(uninitTable) /\ Dying \in SUBSET Objects
          BY <1>1, <1>2, <1>5, <2>2
    <3>2. /\ Chained(Marked(uninitTable, Dying)) /\ Indexes(Marked(uninitTable, Dying)) = Indexes(uninitTable)
          /\ \A x \in Objects :
                Has(Marked(uninitTable, Dying), x, ".true") => x \in Dying \/ Has(uninitTable, x, ".true")
          BY <3>1, MarkedTable
    <3>. QED  BY <3>1, <3>2 DEF I
  <2>. QED  BY <2>1, <2>2
<1>8. /\ refers' \in [Objects -> Objects \cup {None}] /\ \A x \in Objects : refers'[x] \in {refers[x], None}
      /\ \A x \in Objects : x \in Kept => refers'[x] = refers[x]
      BY <1>1, <1>3
<1>9. TypeInv'
  <2>1. pendingUninits' \in BOOLEAN
        BY <1>1
  <2>2. allocated' \subseteq Objects
        BY <1>1, <1>3 DEF TypeInv
  <2>3. /\ processingUninits' \in BOOLEAN /\ created' \in 0..MaxCreated
        /\ owed' \subseteq Objects /\ finished' \subseteq Objects /\ revived' \subseteq Objects
        BY <1>1, <1>3 DEF TypeInv
  <2>. QED  BY <1>8, <2>1, <2>2, <2>3 DEF TypeInv
<1>10. TableInv'
  <2>1. uninitTable' # NoTable => I # {}
    <3>1. uninitTable' # NoTable => uninitTable # NoTable
          BY <1>1
    <3>. QED  BY <3>1 DEF IInv, TableInv, Proper, I
  <2>. QED  BY <1>7, <2>1 DEF TableInv, Proper
<1>11. PassInv'
       BY <1>1, <1>7 DEF IInv, PassInv, I
<1>12. LastInv'
       BY <1>1 DEF IInv, LastInv
<1>13. MemoryInv'
  <2>1. held \cup Receivers \cup I \cup LastObjects \subseteq Kept
        BY <1>5, <1>6 DEF R
  <2>2. held' \cup Receivers' \cup Indexes(uninitTable') \cup LastObjects' \subseteq allocated'
        BY <1>1, <1>4, <1>7, <2>1 DEF IInv, MemoryInv, I
  <2>3. ASSUME NEW x \in allocated' PROVE refers'[x] \in allocated' \cup {None}
    <3>1. x \in allocated /\ x \in Kept /\ x \in Objects
          BY <1>1, <1>3 DEF TypeInv
    <3>2. refers'[x] = refers[x] /\ refers[x] \in allocated \cup {None}
          BY <1>8, <3>1 DEF IInv, MemoryInv
    <3>3. refers[x] \in Kept \cup {None}
          BY <1>5, <1>6, <3>1 DEF Closed
    <3>. QED  BY <1>1, <3>2, <3>3
  <2>. QED  BY <2>2, <2>3 DEF MemoryInv
<1>14. SeparateInv' /\ FinishedInv' /\ OwedInv'
       BY <1>1, <1>4, <1>7 DEF IInv, SeparateInv, FinishedInv, OwedInv, I
<1>15. DeadInv'
  <2>1. Reached(refers', A) \subseteq Reached(refers, A)
        BY <1>2, <1>3, <1>8, ReachedFewer
  <2>2. Reached(refers, A) \subseteq Live
    <3>1. A \subseteq R
          BY DEF A, R
    <3>. QED  BY <1>2, <1>3, <1>5, <3>1, ReachedLess
  <2>3. Zombies' \subseteq Zombies \cup Dying
        BY <1>1, <1>7 DEF Zombies
  <2>4. Zombies \cap Reached(refers, A) \subseteq revived
        BY DEF IInv, DeadInv, Reach, A
  <2>5. Reach(held \cup LastObjects)' = Reached(refers', A)
        BY <1>1, <1>4 DEF Reach, A
  <2>6. Zombies' \cap Reached(refers', A) \subseteq revived
        BY <1>5, <2>1, <2>2, <2>3, <2>4
  <2>. QED  BY <1>1, <2>5, <2>6 DEF DeadInv
<1>. QED  BY <1>9, <1>10, <1>11, <1>12, <1>13, <1>14, <1>15 DEF IInv

\* The loop of runUninits goes on in table, from which the last receiver may be missing.
GoesOn(table) ==
    /\ Chained(table) /\ Indexes(table) \subseteq Indexes(uninitTable) /\ SameDead(uninitTable, table)
    /\ owed \subseteq Indexes(table) \cup Ahead
    /\ (Indexes(table) \cup Ahead \cup ({last.zombie} \ {None})) \cap finished' = {}
    /\ finished' \subseteq Objects
    /\ pendingUninits' \in BOOLEAN
    /\ UNCHANGED <<memory, last>>
    /\ Iterated(table)

\* A zombie that is sent UNINIT was dead in the table.
LEMMA IteratedInv ==
    ASSUME IInv, NEW table, GoesOn(table) PROVE IInv'
<1>1. /\ Indexes(table) \subseteq Indexes(uninitTable) /\ SameDead(uninitTable, table)
      /\ owed \subseteq Indexes(table) \cup Ahead
      /\ (Indexes(table) \cup Ahead \cup ({last.zombie} \ {None})) \cap finished' = {}
      /\ finished' \subseteq Objects /\ pendingUninits' \in BOOLEAN
      /\ allocated' = allocated /\ held' = held /\ refers' = refers /\ created' = created
      /\ revived' = revived /\ last' = last
      BY DEF GoesOn, memory
<1>2. /\ Proper(uninitTable') /\ Indexes(uninitTable') = Indexes(table) /\ SameDead(table, uninitTable')
      /\ processingUninits' \in BOOLEAN
      /\ \/ pass' = NoPass /\ owed' = owed
         \/ /\ pass'.position \in Nat /\ pass'.zombie \in Indexes(table) /\ Has(table, pass'.zombie, ".true")
            /\ owed' = owed \ {pass'.zombie}
      BY DEF GoesOn, Iterated
<1>3. /\ NoPass.zombie = None /\ None \notin Objects
      /\ Indexes(uninitTable) \subseteq Objects /\ Ahead \subseteq LastObjects
      BY InvFacts DEF NoPass
<1>4. owed' \subseteq owed /\ pass'.zombie \notin owed' /\ pass'.zombie \in Indexes(table) \cup {None}
      BY <1>2, <1>3 DEF IInv, TypeInv
<1>5. LastObjects' = LastObjects /\ Ahead' = Ahead
      BY <1>1 DEF LastObjects, Ahead, Rest
<1>6. Receivers' \subseteq Indexes(table) \cup ({last.zombie} \ {None}) /\ {last.zombie} \ {None} \subseteq Receivers
      BY <1>1, <1>4 DEF Receivers
<1>7. TypeInv'
      BY <1>1, <1>2, <1>4 DEF IInv, TypeInv
<1>8. TableInv' /\ PassInv'
      BY <1>2 DEF TableInv, PassInv
<1>9. LastInv'
      BY <1>1 DEF IInv, LastInv
<1>10. MemoryInv'
       BY <1>1, <1>2, <1>5, <1>6 DEF IInv, MemoryInv
<1>11. SeparateInv'
       BY <1>1, <1>2, <1>5 DEF IInv, SeparateInv
<1>12. FinishedInv'
       BY <1>1, <1>2, <1>5, <1>6 DEF FinishedInv
<1>13. OwedInv'
       BY <1>1, <1>2, <1>4, <1>5 DEF OwedInv
<1>14. DeadInv'
  <2>1. Zombies' \subseteq Zombies
    <3>1. ASSUME NEW x \in Objects, Has(uninitTable', x, ".true") PROVE x \in Zombies
          BY <1>1, <1>2, <3>1 DEF SameDead, Zombies
    <3>2. ASSUME pass'.zombie # None PROVE pass'.zombie \in Zombies
      <4>1. Has(table, pass'.zombie, ".true") /\ pass'.zombie \in Objects
            BY <1>1, <1>2, <1>3, <3>2
      <4>. QED  BY <1>1, <4>1 DEF SameDead, Zombies
    <3>. QED  BY <3>1, <3>2 DEF Zombies
  <2>. QED  BY <1>1, <1>5, <2>1 DEF IInv, DeadInv, Reach
<1>. QED  BY <1>7, <1>8, <1>9, <1>10, <1>11, <1>12, <1>13, <1>14 DEF IInv

\* runUninits begins with the whole table.
LEMMA RunUninitsInv ==
    ASSUME IInv, RunUninits PROVE IInv'
<1>1. /\ pendingUninits' = FALSE /\ finished' = finished
      /\ UNCHANGED <<memory, last>>
      /\ IF uninitTable = NoTable THEN UNCHANGED <<uninitTable, pass, processingUninits, owed>>
         ELSE Iterate(uninitTable, 0)
      BY DEF RunUninits
<1>2. CASE uninitTable = NoTable
  <2>1. UNCHANGED <<uninitTable, pass, processingUninits, owed, memory, last, finished>>
        BY <1>1, <1>2
  <2>2. Receivers' = Receivers /\ LastObjects' = LastObjects /\ Ahead' = Ahead /\ Zombies' = Zombies
        BY <2>1 DEF Receivers, LastObjects, Ahead, Rest, Zombies
  <2>3. TypeInv'
        BY <1>1, <2>1 DEF IInv, TypeInv, memory
  <2>4. TableInv' /\ PassInv' /\ LastInv'
        BY <2>1 DEF IInv, TableInv, PassInv, LastInv
  <2>5. MemoryInv' /\ SeparateInv' /\ FinishedInv' /\ OwedInv'
        BY <2>1, <2>2 DEF IInv, memory, MemoryInv, SeparateInv, FinishedInv, OwedInv
  <2>6. DeadInv'
        BY <2>1, <2>2 DEF IInv, memory, DeadInv, Reach
  <2>. QED  BY <2>3, <2>4, <2>5, <2>6 DEF IInv
<1>3. CASE uninitTable # NoTable
  <2>1. Chained(uninitTable) /\ Iterate(uninitTable, 0)
        BY <1>1, <1>3, InvFacts
  <2>2. Iterated(uninitTable)
        BY <2>1, IterateFacts
  <2>3. /\ owed \subseteq Indexes(uninitTable) \cup Ahead
        /\ (Indexes(uninitTable) \cup Ahead \cup ({last.zombie} \ {None})) \cap finished = {}
        /\ finished \subseteq Objects
        BY DEF IInv, OwedInv, FinishedInv, TypeInv, Receivers
  <2>4. GoesOn(uninitTable)
        BY <1>1, <2>1, <2>2, <2>3 DEF GoesOn, SameDead
  <2>. QED  BY <2>4, IteratedInv
<1>. QED  BY <1>2, <1>3

\* The receiver is taken off the table before the loop goes on.
LEMMA UninitReturnsInv ==
    ASSUME IInv, UninitReturns PROVE IInv'
<1>. DEFINE z == pass.zombie
            table == PrimitiveRemove(uninitTable, z)
<1>1. /\ z # None /\ finished' = finished \cup {z} /\ pendingUninits' = pendingUninits
      /\ UNCHANGED <<memory, last>>
      /\ Iterate(table, pass.position + 1)
      BY DEF UninitReturns, Without
<1>2. z \in Indexes(uninitTable) /\ z \in Objects /\ Chained(uninitTable)
  <2>1. z \in Indexes(uninitTable) /\ z \in Objects
        BY <1>1, InvFacts
  <2>2. uninitTable # NoTable
        BY <2>1, NoTableFacts
  <2>. QED  BY <2>1, <2>2, InvFacts
<1>. HIDE DEF z
<1>3. Chained(table) /\ Indexes(table) = Indexes(uninitTable) \ {z} /\ SameDead(uninitTable, table)
      BY <1>2, RemoveTable
<1>. HIDE DEF table
<1>4. Iterated(table)
      BY <1>1, <1>3, IterateFacts
<1>5. z \notin LastObjects /\ z \notin Ahead /\ z # last.zombie
      BY <1>1, <1>2, InvFacts DEF IInv, SeparateInv
<1>6. owed \subseteq Indexes(table) \cup Ahead
      BY <1>3 DEF IInv, OwedInv, z
<1>7. (Indexes(table) \cup Ahead \cup ({last.zombie} \ {None})) \cap finished' = {}
      BY <1>1, <1>3, <1>5 DEF IInv, FinishedInv, Receivers
<1>8. finished' \subseteq Objects /\ pendingUninits' \in BOOLEAN
      BY <1>1, <1>2 DEF IInv, TypeInv
<1>9. GoesOn(table)
      BY <1>1, <1>3, <1>4, <1>6, <1>7, <1>8 DEF GoesOn
<1>. QED  BY <1>9, IteratedInv

\* The table becomes the saved one.
LEMMA CheckUninitsInv ==
    ASSUME IInv, CheckUninits PROVE IInv'
<1>. DEFINE index == [p \in Occupied(uninitTable) |-> uninitTable.entries[p].index]
            I == Indexes(uninitTable)
<1>1. /\ last = NotYet /\ pass = NoPass /\ uninitTable' = NoTable
      /\ LastPass(index, 0)
      /\ allocated' = allocated /\ held' = held /\ refers' = refers /\ created' = created
      /\ revived' = revived /\ processingUninits' = processingUninits
      /\ pendingUninits' = pendingUninits /\ pass' = pass /\ finished' = finished
      BY DEF CheckUninits, InLastPass, memory
<1>2. /\ NoPass.zombie = None /\ NotYet.zombie = None /\ NotYet.index = <<>> /\ DOMAIN <<>> = {}
      BY DEF NoPass, NotYet
<1>3. None \notin Objects /\ (uninitTable = NoTable \/ Chained(uninitTable))
      BY InvFacts
<1>4. /\ I \subseteq Objects /\ Occupied(uninitTable) \subseteq Nat
      /\ \A p \in Occupied(uninitTable) : uninitTable.entries[p].index \in I
      /\ \A o \in I : \E p \in Occupied(uninitTable) : uninitTable.entries[p].index = o
      /\ \A p, q \in Occupied(uninitTable) : uninitTable.entries[p].index = uninitTable.entries[q].index => p = q
      BY <1>3, TableFacts
<1>5. Saved(index) /\ Range(index) = I
  <2>1. DOMAIN index = Occupied(uninitTable)
        /\ \A p \in Occupied(uninitTable) : index[p] = uninitTable.entries[p].index
        BY <1>4
  <2>. HIDE DEF index
  <2>. QED  BY <1>4, <2>1 DEF Saved, Range
<1>6. AheadOf(index, 0) = I
  <2>1. Rest(index, 0) = DOMAIN index
        BY <1>4 DEF Rest
  <2>. QED  BY <1>5, <2>1 DEF AheadOf, Range
<1>. HIDE DEF index, I
<1>7. LastPassed(index, 0)
      BY <1>1, <1>5, LastPassFacts
<1>8. /\ LastInv'
      /\ \/ /\ I = {} /\ owed' = owed /\ LastObjects' = {} /\ Ahead' = {} /\ last'.zombie = None
         \/ /\ LastObjects' = I /\ last'.zombie \in I
            /\ Ahead' = I \ {last'.zombie} /\ owed' = owed \ {last'.zombie}
      BY <1>5, <1>6, <1>7 DEF LastPassed
<1>9. Ahead = {}
      BY <1>1, <1>2 DEF Ahead, Rest
<1>10. /\ Indexes(uninitTable') = {} /\ Zombies' = {}
       /\ Receivers' \subseteq I /\ LastObjects' \subseteq I /\ Ahead' \subseteq I
  <2>1. Indexes(uninitTable') = {} /\ Zombies' = {}
        BY <1>1, <1>2, NoTableFacts DEF Zombies
  <2>2. Receivers' \subseteq I
        BY <1>1, <1>2, <1>8 DEF Receivers
  <2>. QED  BY <1>8, <2>1, <2>2
<1>11. TypeInv'
       BY <1>1, <1>8 DEF IInv, TypeInv
<1>12. TableInv' /\ PassInv'
       BY <1>1 DEF TableInv, Proper, PassInv
<1>13. MemoryInv'
       BY <1>1, <1>10 DEF IInv, MemoryInv, I
<1>14. SeparateInv' /\ FinishedInv'
       BY <1>1, <1>10 DEF IInv, SeparateInv, FinishedInv, I
<1>15. OwedInv'
  <2>1. owed \subseteq I /\ owed \subseteq Objects
        BY <1>9 DEF IInv, OwedInv, TypeInv, I
  <2>. QED  BY <1>1, <1>2, <1>3, <1>8, <2>1 DEF OwedInv
<1>16. DeadInv'
       BY <1>10 DEF DeadInv
<1>. QED  BY <1>8, <1>11, <1>12, <1>13, <1>14, <1>15, <1>16 DEF IInv

\* The next object ahead is not the one whose UNINIT is over.
LEMMA LastReturnsInv ==
    ASSUME IInv, NEW failed \in BOOLEAN, LastReturns(failed) PROVE IInv'
<1>1. /\ last.zombie # None /\ pass = NoPass
      /\ LastPass(last.index, last.position + 1)
      /\ allocated' = allocated /\ held' = held /\ refers' = refers /\ created' = created
      /\ revived' = revived /\ uninitTable' = uninitTable /\ processingUninits' = processingUninits
      /\ pendingUninits' = pendingUninits /\ pass' = pass
      /\ finished \subseteq finished' /\ finished' \subseteq finished \cup {last.zombie}
      BY DEF LastReturns, memory
<1>2. /\ NoPass.zombie = None /\ None \notin Objects
      /\ last.zombie \in LastObjects \cup {None} /\ last.zombie \notin Ahead /\ Ahead \subseteq LastObjects
      /\ Saved(last.index) /\ LastObjects \subseteq Objects /\ held \subseteq Objects
      BY InvFacts DEF NoPass
<1>3. last.position \in Nat
      BY DEF IInv, LastInv
<1>4. LastPassed(last.index, last.position + 1)
      BY <1>1, <1>2, <1>3, LastPassFacts
<1>5. /\ LastInv'
      /\ \/ /\ Ahead = {} /\ owed' = owed /\ LastObjects' = {} /\ Ahead' = {} /\ last'.zombie = None
         \/ /\ LastObjects' = LastObjects /\ last'.zombie \in Ahead
            /\ Ahead' = Ahead \ {last'.zombie} /\ owed' = owed \ {last'.zombie}
      BY <1>4 DEF LastPassed, LastObjects, Ahead, AheadOf
<1>6. /\ LastObjects' \subseteq LastObjects /\ Ahead' \subseteq Ahead /\ Receivers' \subseteq Ahead
      /\ Zombies' = Zombies
      BY <1>1, <1>2, <1>5 DEF Receivers, Zombies
<1>7. TypeInv'
      BY <1>1, <1>2, <1>5 DEF IInv, TypeInv
<1>8. TableInv' /\ PassInv'
      BY <1>1 DEF IInv, TableInv, PassInv
<1>9. MemoryInv'
      BY <1>1, <1>2, <1>6 DEF IInv, MemoryInv
<1>10. SeparateInv'
       BY <1>1, <1>6 DEF IInv, SeparateInv
<1>11. FinishedInv'
  <2>1. last.zombie \in LastObjects /\ last.zombie \notin Indexes(uninitTable)
        BY <1>1, <1>2 DEF IInv, SeparateInv
  <2>. QED  BY <1>1, <1>2, <1>6, <2>1 DEF IInv, FinishedInv
<1>12. OwedInv'
       BY <1>1, <1>5 DEF IInv, OwedInv
<1>13. DeadInv'
  <2>1. /\ held \cup LastObjects \in SUBSET Objects /\ held \cup LastObjects' \in SUBSET Objects
        /\ held \cup LastObjects' \subseteq held \cup LastObjects
        BY <1>2, <1>6
  <2>2. refers \in [Objects -> Objects \cup {None}]
        BY DEF IInv, TypeInv
  <2>3. Reached(refers, held \cup LastObjects') \subseteq Reached(refers, held \cup LastObjects)
        BY <2>1, <2>2, ReachedLess
  <2>. QED  BY <1>1, <1>6, <2>3 DEF IInv, DeadInv, Reach
<1>. QED  BY <1>5, <1>7, <1>8, <1>9, <1>10, <1>11, <1>12, <1>13 DEF IInv

\* Every step preserves the invariant.
LEMMA NextInv ==
    ASSUME IInv, [Next]_vars PROVE IInv'
<1>1. CASE UNCHANGED vars
  <2>1. /\ UNCHANGED <<allocated, held, refers, created, revived, uninitTable, processingUninits>>
        /\ UNCHANGED <<pendingUninits, pass, last, owed, finished>>
        BY <1>1 DEF vars, memory
  <2>2. Receivers' = Receivers /\ LastObjects' = LastObjects /\ Ahead' = Ahead /\ Zombies' = Zombies
        BY <2>1 DEF Receivers, LastObjects, Ahead, Rest, Zombies
  <2>3. TypeInv' /\ TableInv' /\ PassInv' /\ LastInv'
        BY <2>1 DEF IInv, TypeInv, TableInv, PassInv, LastInv
  <2>4. MemoryInv' /\ SeparateInv' /\ FinishedInv' /\ OwedInv' /\ DeadInv'
        BY <2>1, <2>2 DEF IInv, MemoryInv, SeparateInv, FinishedInv, OwedInv, DeadInv, Reach
  <2>. QED  BY <2>3, <2>4 DEF IInv
<1>2. CASE Program
      BY <1>2, CreateInv, StoreInv, DropInv, UninitFailsInv, CheckUninitsInv, LastReturnsInv DEF Program
<1>. QED  BY <1>1, <1>2, CollectInv, RunUninitsInv, UninitReturnsInv DEF Next

\* The invariant of the specification.
LEMMA Invariance == Spec => []IInv
<1>. QED  BY InitInv, NextInv, PTL DEF Spec

-----------------------------------------------------------------------------
(* The theorems.                                                           *)

\* The variables have their types: what the program, the table and the passes
\* refer to are objects in memory, and an empty table is not kept.
THEOREM TypeCorrect == Spec => []TypeOK
<1>1. ASSUME IInv PROVE TypeOK
  <2>1. /\ Indexes(uninitTable) \subseteq Objects /\ None \notin Objects
        /\ pass.zombie \in Indexes(uninitTable) \cup {None} /\ last.zombie \in LastObjects \cup {None}
        /\ LastObjects \subseteq Objects
        BY <1>1, InvFacts
  <2>2. held \subseteq allocated
        BY <1>1 DEF IInv, MemoryInv
  <2>3. uninitTable # NoTable => Indexes(uninitTable) # {}
        BY <1>1 DEF IInv, TableInv, Proper
  <2>. QED  BY <1>1, <2>1, <2>2, <2>3 DEF IInv, TypeInv, TypeOK
<1>. QED  BY <1>1, Invariance, PTL

\* An UNINIT that returned is not sent again, by runUninits or checkUninits.
THEOREM SentOnce == Spec => []RunsOnce
<1>1. ASSUME IInv PROVE RunsOnce
      BY <1>1 DEF IInv, FinishedInv, RunsOnce
<1>. QED  BY <1>1, Invariance, PTL

\* An object that hasUninit registered stays in the table of the process or in
\* the saved one until its UNINIT is sent.
THEOREM NothingForgotten == Spec => []NoneForgotten
<1>1. ASSUME IInv PROVE NoneForgotten
      BY <1>1 DEF IInv, OwedInv, NoneForgotten
<1>. QED  BY <1>1, Invariance, PTL

\* runUninits sends UNINIT to objects out of the reach of the program only.
THEOREM OnlyTheDead == Spec => []DeadWhenSent
<1>1. ASSUME IInv PROVE DeadWhenSent
  <2>1. /\ held \subseteq Objects /\ LastObjects \subseteq Objects /\ None \notin Objects
        /\ last.zombie \in LastObjects \cup {None} /\ pass.zombie \in Indexes(uninitTable) \cup {None}
        BY <1>1, InvFacts
  <2>. DEFINE A == held \cup LastObjects
              B == held \cup ({last.zombie} \ {None})
  <2>2. A \in SUBSET Objects /\ B \in SUBSET Objects /\ B \subseteq A
        BY <2>1
  <2>3. refers \in [Objects -> Objects \cup {None}]
        BY <1>1 DEF IInv, TypeInv
  <2>4. Zombies \cap Reached(refers, A) \subseteq revived
        BY <1>1 DEF IInv, DeadInv, Reach
  <2>5. pass.zombie # None => pass.zombie \in Zombies
        BY DEF Zombies
  <2>. HIDE DEF A, B
  <2>6. Reached(refers, B) \subseteq Reached(refers, A)
        BY <2>2, <2>3, ReachedLess
  <2>7. pass.zombie # None /\ pass.zombie \notin revived => pass.zombie \notin Reached(refers, B)
        BY <2>4, <2>5, <2>6
  <2>. QED  BY <2>7 DEF DeadWhenSent, Reach, B
<1>. QED  BY <1>1, Invariance, PTL

\* What an UNINIT method can get at was not swept away by a collection.
THEOREM KeptInMemory == Spec => []KeptForUninit
<1>1. ASSUME IInv PROVE KeptForUninit
  <2>. DEFINE A == held \cup Receivers \cup owed
  <2>1. A \in SUBSET allocated
        BY <1>1, InvFacts DEF IInv, MemoryInv, OwedInv
  <2>. HIDE DEF A
  <2>2. Reach(A) \subseteq allocated
        BY <1>1, <2>1, AccessibleFacts
  <2>. QED  BY <2>2 DEF KeptForUninit, A
<1>. QED  BY <1>1, Invariance, PTL

\* The chains of the table stay whole, whatever is added, marked and removed.
THEOREM TableIsSound == Spec => []TableSound
<1>1. ASSUME IInv PROVE TableSound
      BY <1>1, InvFacts, SoundFacts DEF TableSound
<1>. QED  BY <1>1, Invariance, PTL

\* Get finds the value of an object of the table, and nothing for another one.
LEMMA GetFacts ==
    ASSUME NEW t, Chained(t), NEW o \in Objects
    PROVE  /\ o \notin Indexes(t) => Get(t, o) = None
           /\ o \in Indexes(t) => Get(t, o) \in Values /\ Has(t, o, Get(t, o))
           /\ \A w \in Values : Has(t, o, w) => w = Get(t, o)
<1>. DEFINE P == 0..2 * t.u_size - 1
<1>1. /\ Typed(t) /\ Positions(t) = P /\ \A p \in P : t.entries[p].value \in Values
      /\ \A p, q \in P : t.entries[p].index # None /\ t.entries[p].index = t.entries[q].index => p = q
      BY WholeTable, EntryTypes DEF Whole, Linked
<1>2. o # None
      BY HashTyped
<1>3. CASE o \notin Indexes(t)
  <2>1. Get(t, o) = None
        BY <1>3, PositionFacts DEF Get
  <2>2. \A w \in Values : ~Has(t, o, w)
        BY <1>1, <1>3, IndexFacts
  <2>. QED  BY <1>3, <2>1, <2>2
<1>4. CASE o \in Indexes(t)
  <2>1. Place(t, o) # 0
        BY <1>4, PositionFacts
  <2>2. PICK p \in P : t.entries[p].index = o
                       /\ Found(t.u_size, t.entries, Slot(t, o), Chain(t, o), Place(t, o), p)
        BY <1>4, PositionFacts
  <2>3. Get(t, o) = t.entries[p].value
        BY <2>1, <2>2 DEF Get, Found
  <2>4. \A q \in P : t.entries[q].index = o => q = p
        BY <1>1, <1>2, <2>2
  <2>. QED  BY <1>1, <1>4, <2>2, <2>3, <2>4 DEF Has
<1>. QED  BY <1>3, <1>4

\* The hash table is a dictionary: put and remove change what get finds for
\* their object and for no other one, although put may make the table grow
\* and both move the entries of others.
THEOREM Dictionary ==
    ASSUME NEW t, Chained(t), NEW o \in Objects, NEW v \in {".nil", ".true", ".false"}
    PROVE  /\ Chained(Put(t, v, o)) /\ Get(Put(t, v, o), o) = v
           /\ Chained(PrimitiveRemove(t, o)) /\ Get(PrimitiveRemove(t, o), o) = None
           /\ \A x \in Objects \ {o} : Get(Put(t, v, o), x) = Get(t, x)
           /\ \A x \in Objects \ {o} : Get(PrimitiveRemove(t, o), x) = Get(t, x)
<1>. DEFINE t2 == Put(t, v, o)
            t3 == PrimitiveRemove(t, o)
<1>1. v \in Values
      BY DEF Values
<1>2. Chained(t2) /\ Puts(t, t2, o, v) /\ Chained(t3) /\ Removes(t, t3, o)
      BY <1>1, PutFacts, RemoveFacts
<1>. HIDE DEF t2, t3
<1>3. Get(t2, o) = v
      BY <1>1, <1>2, GetFacts DEF Puts
<1>4. Typed(t) /\ Typed(t2) /\ Typed(t3)
      BY <1>2 DEF Chained
<1>5. \A x \in Objects : /\ x \in Indexes(t) <=> \E w \in Values : Has(t, x, w)
                         /\ x \in Indexes(t2) <=> \E w \in Values : Has(t2, x, w)
                         /\ x \in Indexes(t3) <=> \E w \in Values : Has(t3, x, w)
      BY <1>4, IndexFacts
<1>6. Get(t3, o) = None
  <2>1. o \notin Indexes(t3)
        BY <1>2, <1>5 DEF Removes
  <2>. QED  BY <1>2, <2>1, GetFacts
<1>7. ASSUME NEW x \in Objects \ {o} PROVE Get(t2, x) = Get(t, x) /\ Get(t3, x) = Get(t, x)
  <2>1. /\ \A w \in Values : Has(t2, x, w) <=> Has(t, x, w)
        /\ \A w \in Values : Has(t3, x, w) <=> Has(t, x, w)
        BY <1>2 DEF Puts, Removes
  <2>2. CASE x \in Indexes(t)
    <3>1. Get(t, x) \in Values /\ Has(t, x, Get(t, x))
          BY <2>2, GetFacts
    <3>2. Has(t2, x, Get(t, x)) /\ Has(t3, x, Get(t, x))
          BY <2>1, <3>1
    <3>. QED  BY <1>2, <3>1, <3>2, GetFacts
  <2>3. CASE x \notin Indexes(t)
    <3>1. x \notin Indexes(t2) /\ x \notin Indexes(t3)
          BY <1>5, <2>1, <2>3
    <3>. QED  BY <1>2, <2>3, <3>1, GetFacts
  <2>. QED  BY <2>2, <2>3
<1>. QED  BY <1>2, <1>3, <1>6, <1>7 DEF t2, t3

\* A new table has nothing.
THEOREM NewIsEmpty ==
    ASSUME NEW capacity \in Nat
    PROVE  Chained(NewTable(capacity)) /\ \A x \in Objects : Get(NewTable(capacity), x) = None
<1>1. Chained(NewTable(capacity)) /\ \A x \in Objects : \A w : ~Has(NewTable(capacity), x, w)
      BY NewTableFacts
<1>2. Indexes(NewTable(capacity)) = {}
      BY <1>1, TableFacts
<1>. QED  BY <1>1, <1>2, GetFacts

=============================================================================
