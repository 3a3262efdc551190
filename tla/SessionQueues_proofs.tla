------------------------ MODULE SessionQueues_proofs ------------------------
(***************************************************************************)
(* Whoever waits for a queue keeps it, and nobody sleeps beside lines, for *)
(* any threads, processes and named queues.  The API functions treat the   *)
(* shared memory in few ways; each is shown to keep it sound, and to leave *)
(* alone the queues that somebody waits for.                               *)
(***************************************************************************)
EXTENDS SessionQueues, StackLemmas

-----------------------------------------------------------------------------
(* The invariant.                                                          *)

Data == [queue : [Queues -> Headers \cup {None}],
         semaphore : [Semaphores -> Nat], used : SUBSET Semaphores]

Places == {Idle} \cup [at : {"request", "wait", "woken"}, queue : Queues,
                       enqsem : Semaphores, waitsem : Semaphores]

\* Every header has two semaphores of its own, those in use are the ones of
\* the headers, and the others are as new.
Sound(d) ==
    /\ d \in Data
    /\ \A q \in Queues : d.queue[q] # None => d.queue[q].enqsem # d.queue[q].waitsem
    /\ d.used = UNION {Handles(d, q) : q \in Queues}
    /\ \A p, q \in Queues : p # q => Handles(d, p) \cap Handles(d, q) = {}
    /\ \A s \in Semaphores \ d.used : d.semaphore[s] = 1

WaitersOf(th, q) == {t \in Threads : th[t].queue = q}
WokenOf(th, q) == {t \in WaitersOf(th, q) : th[t].at = "woken"}

\* What a thread that waits relies on.
ServesOne(d, th, q) ==
    \A t \in WaitersOf(th, q) :
        /\ d.queue[q] # None
        /\ d.queue[q].enqsem = th[t].enqsem
        /\ d.queue[q].waitsem = th[t].waitsem
        /\ d.queue[q].items <= d.semaphore[d.queue[q].waitsem] + Cardinality(WokenOf(th, q))

Serves(d, th) == \A q \in Queues : ServesOne(d, th, q)

IInv ==
    /\ Sound(apidata)
    /\ thread \in [Threads -> Places]
    /\ running \subseteq Processes
    /\ spoilt \in BOOLEAN
    /\ ~spoilt => Counted(apidata, thread) /\ Serves(apidata, thread)

\* e is d with queues removed, made anew, or fewer waiters counted.
SameQueue(d, e, q) ==
    /\ d.queue[q] # None
    /\ e.queue[q].enqsem = d.queue[q].enqsem
    /\ e.queue[q].waitsem = d.queue[q].waitsem
    /\ e.queue[q].items = d.queue[q].items
    /\ e.queue[q].waiting <= d.queue[q].waiting
    /\ e.semaphore[e.queue[q].waitsem] = d.semaphore[e.queue[q].waitsem]

Tidied(d, e) ==
    \A q \in Queues : e.queue[q] # None =>
        \/ e.queue[q].items = 0 /\ e.queue[q].waiting = 0
        \/ SameQueue(d, e, q)

-----------------------------------------------------------------------------
(* Headers and semaphores.                                                 *)

\* What the fields of a header are.
LEMMA HeaderFacts ==
    ASSUME NEW h \in Headers
    PROVE  /\ h # None
           /\ h.waiting \in Nat /\ h.waiting <= Cardinality(Threads)
           /\ h.items \in Nat /\ h.items <= MaxItems
           /\ h.enqsem \in Semaphores /\ h.waitsem \in Semaphores
<1>1. Cardinality(Threads) \in Nat
      BY SessionProcesses, FS_CardinalityType
<1>. QED  BY <1>1, SessionNone, SessionBounds DEF Headers

\* What a sound memory holds under the name of a queue.
LEMMA SoundFacts ==
    ASSUME NEW d, Sound(d)
    PROVE  /\ d \in Data
           /\ d.queue \in [Queues -> Headers \cup {None}]
           /\ d.semaphore \in [Semaphores -> Nat]
           /\ d.used \subseteq Semaphores
           /\ \A q \in Queues : d.queue[q] # None =>
                 /\ d.queue[q] \in Headers
                 /\ d.queue[q].waiting \in Nat /\ d.queue[q].items \in Nat
                 /\ d.queue[q].enqsem \in d.used /\ d.queue[q].waitsem \in d.used
                 /\ d.queue[q].enqsem # d.queue[q].waitsem
<1>1. d \in Data
      BY DEF Sound
<1>2. /\ d.queue \in [Queues -> Headers \cup {None}]
      /\ d.semaphore \in [Semaphores -> Nat]
      /\ d.used \subseteq Semaphores
      BY <1>1 DEF Data
<1>3. ASSUME NEW q \in Queues, d.queue[q] # None
      PROVE  /\ d.queue[q] \in Headers
             /\ d.queue[q].waiting \in Nat /\ d.queue[q].items \in Nat
             /\ d.queue[q].enqsem \in d.used /\ d.queue[q].waitsem \in d.used
             /\ d.queue[q].enqsem # d.queue[q].waitsem
  <2>1. d.queue[q] \in Headers
        BY <1>2, <1>3
  <2>2. Handles(d, q) \subseteq d.used
        BY DEF Sound
  <2>3. d.queue[q].enqsem \in d.used /\ d.queue[q].waitsem \in d.used
        BY <1>3, <2>2 DEF Handles
  <2>4. d.queue[q].enqsem # d.queue[q].waitsem
        BY <1>3 DEF Sound
  <2>. QED  BY <2>1, <2>3, <2>4, HeaderFacts
<1>. QED  BY <1>1, <1>2, <1>3

\* There are two free semaphores for a name that has no queue.
LEMMA SemaphoresLeft ==
    ASSUME NEW d, Sound(d), NEW q \in Queues, d.queue[q] = None
    PROVE  \E x, y \in Semaphores \ d.used : x # y
<1>. DEFINE R == Queues \ {q}
            H == {r \in R : d.queue[r] # None}
            D == H \X (1..2)
            f == [z \in D |-> IF z[2] = 1 THEN d.queue[z[1]].enqsem ELSE d.queue[z[1]].waitsem]
            n == Cardinality(Queues)
<1>1. IsFiniteSet(Queues)
  <2>1. IsFiniteSet(Named \cup {"SESSION"})
        BY SessionSemaphores, FS_AddElement
  <2>. QED  BY <2>1 DEF Queues
<1>2. n \in Nat /\ IsFiniteSet(R) /\ Cardinality(R) = n - 1
      BY <1>1, FS_CardinalityType, FS_RemoveElement
<1>3. IsFiniteSet(H) /\ Cardinality(H) \in Nat /\ Cardinality(H) <= n - 1
  <2>1. H \in SUBSET R
        OBVIOUS
  <2>2. IsFiniteSet(H) /\ Cardinality(H) <= Cardinality(R)
        BY <1>2, <2>1, FS_Subset
  <2>. QED  BY <1>2, <2>2, FS_CardinalityType
<1>4. IsFiniteSet(1..2) /\ Cardinality(1..2) = 2
  <2>1. 1 \in Int /\ 2 \in Int
        OBVIOUS
  <2>2. IsFiniteSet(1..2) /\ Cardinality(1..2) = IF 1 > 2 THEN 0 ELSE 2 - 1 + 1
        BY <2>1, FS_Interval, Zenon
  <2>. QED  BY <2>2
<1>5. IsFiniteSet(D) /\ Cardinality(D) = Cardinality(H) * 2
      BY <1>3, <1>4, FS_Product
<1>6. f \in Surjection(D, d.used)
  <2>1. \A r \in Queues : d.queue[r] # None <=> r \in H
        OBVIOUS
  <2>2. ASSUME NEW z \in D PROVE f[z] \in d.used
    <3>1. z[1] \in Queues /\ d.queue[z[1]] # None
          BY <2>2
    <3>2. d.queue[z[1]].enqsem \in d.used /\ d.queue[z[1]].waitsem \in d.used
          BY <3>1, SoundFacts
    <3>. QED  BY <2>2, <3>2
  <2>3. ASSUME NEW s \in d.used PROVE \E z \in D : f[z] = s
    <3>1. PICK r \in Queues : s \in Handles(d, r)
          BY <2>3 DEF Sound
    <3>2. r \in H /\ (s = d.queue[r].enqsem \/ s = d.queue[r].waitsem)
          BY <2>1, <3>1 DEF Handles
    <3>3. <<r, 1>> \in D /\ <<r, 2>> \in D
          BY <3>2
    <3>4. f[<<r, 1>>] = d.queue[r].enqsem /\ f[<<r, 2>>] = d.queue[r].waitsem
          BY <3>3
    <3>. QED  BY <3>2, <3>3, <3>4
  <2>4. f \in [D -> d.used]
        BY <2>2
  <2>. HIDE DEF f, D
  <2>. QED  BY <2>3, <2>4 DEF Surjection
<1>. HIDE DEF f, D, H, R, n
<1>7. IsFiniteSet(d.used) /\ Cardinality(d.used) <= 2 * (n - 1)
  <2>1. IsFiniteSet(d.used) /\ Cardinality(d.used) <= Cardinality(D)
        BY <1>5, <1>6, FS_Surjection
  <2>2. Cardinality(d.used) \in Nat
        BY <2>1, FS_CardinalityType
  <2>. QED  BY <1>2, <1>3, <1>5, <2>1, <2>2
<1>8. IsFiniteSet(Semaphores) /\ Cardinality(Semaphores) = MaxSem /\ MaxSem \in Nat /\ MaxSem >= 2 * n
  <2>1. MaxSem \in Nat /\ MaxSem >= 2 * n
        BY SessionSemaphores DEF n
  <2>2. IsFiniteSet(1..MaxSem) /\ Cardinality(1..MaxSem) = IF 1 > MaxSem THEN 0 ELSE MaxSem - 1 + 1
        BY <2>1, FS_Interval
  <2>3. Cardinality(1..MaxSem) = MaxSem
        BY <2>1, <2>2
  <2>. QED  BY <2>1, <2>2, <2>3 DEF Semaphores
<1>9. SUFFICES ASSUME \A x, y \in Semaphores \ d.used : x = y
               PROVE  FALSE
      OBVIOUS
<1>10. PICK x : Semaphores \ d.used \subseteq {x}
  <2>1. CASE Semaphores \ d.used = {}
        BY <2>1
  <2>2. CASE Semaphores \ d.used # {}
        BY <1>9, <2>2
  <2>. QED  BY <2>1, <2>2
<1>11. IsFiniteSet(d.used \cup {x}) /\ Cardinality(d.used \cup {x}) <= Cardinality(d.used) + 1
       /\ Cardinality(d.used) \in Nat /\ Cardinality(d.used \cup {x}) \in Nat
  <2>1. Cardinality(d.used) \in Nat
        BY <1>7, FS_CardinalityType
  <2>2. IsFiniteSet(d.used \cup {x})
        /\ Cardinality(d.used \cup {x}) = IF x \in d.used THEN Cardinality(d.used) ELSE Cardinality(d.used) + 1
        BY <1>7, FS_AddElement
  <2>. QED  BY <2>1, <2>2, FS_CardinalityType
<1>12. Semaphores \in SUBSET (d.used \cup {x})
       BY <1>10
<1>13. Cardinality(Semaphores) <= Cardinality(d.used \cup {x})
       BY <1>11, <1>12, FS_Subset
<1>. QED  BY <1>2, <1>7, <1>8, <1>11, <1>13

\* The memory stays sound as long as the headers keep their semaphores.
LEMMA Reheaded ==
    ASSUME NEW d, Sound(d), NEW e \in Data, e.used = d.used,
           \A q \in Queues : Handles(e, q) = Handles(d, q),
           \A q \in Queues : e.queue[q] # None => e.queue[q].enqsem # e.queue[q].waitsem,
           \A s \in Semaphores \ d.used : e.semaphore[s] = d.semaphore[s]
    PROVE  Sound(e)
<1>1. e.used = UNION {Handles(e, q) : q \in Queues}
      BY DEF Sound
<1>2. \A p, q \in Queues : p # q => Handles(e, p) \cap Handles(e, q) = {}
      BY DEF Sound
<1>3. \A s \in Semaphores \ e.used : e.semaphore[s] = 1
      BY DEF Sound
<1>. QED  BY <1>1, <1>2, <1>3 DEF Sound

\* The search for a free semaphore finds one of those there are.
LEMMA MinFacts ==
    ASSUME NEW S \in SUBSET Nat, S # {}
    PROVE  Min(S) \in S
<1>1. PICK x \in S : \A y \in S : x <= y
      BY Least
<1>. QED  BY <1>1 DEF Min

\* Tidying up goes on step by step.
LEMMA TidiedTwice ==
    ASSUME NEW d, Sound(d), NEW e, Sound(e), NEW f, Sound(f), Tidied(d, e), Tidied(e, f)
    PROVE  Tidied(d, f)
<1>. SUFFICES ASSUME NEW q \in Queues, f.queue[q] # None,
                     ~(f.queue[q].items = 0 /\ f.queue[q].waiting = 0)
              PROVE  SameQueue(d, f, q)
     BY DEF Tidied
<1>1. SameQueue(e, f, q) /\ e.queue[q] # None
      BY DEF Tidied, SameQueue
<1>2. f.queue[q].waiting \in Nat /\ e.queue[q].waiting \in Nat
      BY <1>1, SoundFacts
<1>3. ~(e.queue[q].items = 0 /\ e.queue[q].waiting = 0)
      BY <1>1, <1>2 DEF SameQueue
<1>4. SameQueue(d, e, q)
      BY <1>1, <1>3 DEF Tidied
<1>5. d.queue[q].waiting \in Nat
      BY <1>4, SoundFacts DEF SameQueue
<1>. QED  BY <1>1, <1>2, <1>4, <1>5 DEF SameQueue

\* create_queue_sem and a new header.
LEMMA AllocatedSound ==
    ASSUME NEW d, Sound(d), NEW q \in Queues, d.queue[q] = None
    PROVE  LET e == Allocated(d, q)
           IN  /\ Sound(e) /\ Tidied(d, e)
               /\ e.queue[q] # None /\ e.queue[q].waiting = 0
               /\ \A r \in Queues \ {q} : e.queue[r] = d.queue[r]
<1>. DEFINE F == Semaphores \ d.used
            x == Min(F)
            G == Semaphores \ (d.used \cup {x})
            y == Min(G)
            h == [waiting |-> 0, items |-> 0, waitprocess |-> None, enqsem |-> x, waitsem |-> y]
            e == Allocated(d, q)
<1>1. x \in F /\ y \in F /\ x # y
  <2>1. F \in SUBSET Nat /\ G \in SUBSET Nat
        BY DEF Semaphores
  <2>2. PICK u, v \in F : u # v
        BY SemaphoresLeft
  <2>3. x \in F
        BY <2>1, <2>2, MinFacts
  <2>4. G # {}
        BY <2>2
  <2>5. y \in G
        BY <2>1, <2>4, MinFacts
  <2>. QED  BY <2>3, <2>5
<1>2. /\ e.queue = [r \in Queues |-> IF r = q THEN h ELSE d.queue[r]]
      /\ e.semaphore = [s \in Semaphores |-> IF s = y THEN 0 ELSE d.semaphore[s]]
      /\ e.used = d.used \cup {x, y}
      /\ e = [queue |-> e.queue, semaphore |-> e.semaphore, used |-> e.used]
      BY DEF Allocated
<1>. HIDE DEF x, y, e
<1>3. h \in Headers /\ h # None
  <2>1. 0 \in 0..Cardinality(Threads) /\ 0 \in 0..MaxItems
        BY SessionProcesses, SessionBounds, FS_CardinalityType
  <2>2. h \in Headers
        BY <1>1, <2>1 DEF Headers
  <2>. QED  BY <2>2, HeaderFacts
<1>. HIDE DEF h
<1>4. /\ d.queue \in [Queues -> Headers \cup {None}]
      /\ d.semaphore \in [Semaphores -> Nat]
      /\ d.used \subseteq Semaphores
      BY SoundFacts
<1>5. e \in Data
  <2>1. e.queue \in [Queues -> Headers \cup {None}]
        BY <1>2, <1>3, <1>4
  <2>2. e.semaphore \in [Semaphores -> Nat]
        BY <1>2, <1>4
  <2>3. e.used \subseteq Semaphores
        BY <1>1, <1>2, <1>4
  <2>. QED  BY <1>2, <2>1, <2>2, <2>3 DEF Data
<1>6. Handles(e, q) = {x, y} /\ e.queue[q] = h /\ h.enqsem = x /\ h.waitsem = y /\ h.items = 0 /\ h.waiting = 0
      BY <1>2, <1>3 DEF Handles, h
<1>7. \A r \in Queues \ {q} : e.queue[r] = d.queue[r] /\ Handles(e, r) = Handles(d, r)
      BY <1>2 DEF Handles
<1>8. \A r \in Queues : Handles(d, r) \subseteq d.used
      BY DEF Sound
<1>9. Handles(d, q) = {}
      BY DEF Handles
<1>10. Sound(e)
  <2>1. \A r \in Queues : e.queue[r] # None => e.queue[r].enqsem # e.queue[r].waitsem
        BY <1>1, <1>6, <1>7 DEF Sound
  <2>2. e.used = UNION {Handles(e, r) : r \in Queues}
    <3>1. d.used = UNION {Handles(d, r) : r \in Queues}
          BY DEF Sound
    <3>2. ASSUME NEW s \in e.used PROVE \E r \in Queues : s \in Handles(e, r)
      <4>1. CASE s \in {x, y}
            BY <1>6, <4>1
      <4>2. CASE s \in d.used
        <5>1. PICK r \in Queues : s \in Handles(d, r)
              BY <3>1, <4>2
        <5>. QED  BY <1>7, <1>9, <5>1
      <4>. QED  BY <1>2, <3>2, <4>1, <4>2
    <3>3. ASSUME NEW r \in Queues PROVE Handles(e, r) \subseteq e.used
          BY <1>2, <1>6, <1>7, <1>8
    <3>. QED  BY <3>2, <3>3
  <2>3. \A p, r \in Queues : p # r => Handles(e, p) \cap Handles(e, r) = {}
    <3>1. \A r \in Queues \ {q} : {x, y} \cap Handles(e, r) = {}
          BY <1>1, <1>7, <1>8
    <3>2. \A p, r \in Queues \ {q} : p # r => Handles(e, p) \cap Handles(e, r) = {}
          BY <1>7 DEF Sound
    <3>. QED  BY <1>6, <3>1, <3>2
  <2>4. \A s \in Semaphores \ e.used : e.semaphore[s] = 1
        BY <1>2 DEF Sound
  <2>. QED  BY <1>5, <2>1, <2>2, <2>3, <2>4 DEF Sound
<1>11. Tidied(d, e)
  <2>. SUFFICES ASSUME NEW r \in Queues \ {q}, e.queue[r] # None
                PROVE  SameQueue(d, e, r)
       BY <1>6 DEF Tidied
  <2>1. e.queue[r] = d.queue[r]
        BY <1>7
  <2>2. d.queue[r].waitsem \in d.used /\ d.queue[r].waiting \in Nat
        BY <2>1, SoundFacts
  <2>3. d.queue[r].waitsem # y /\ d.queue[r].waitsem \in Semaphores
        BY <1>1, <1>4, <2>2
  <2>4. e.semaphore[d.queue[r].waitsem] = d.semaphore[d.queue[r].waitsem]
        BY <1>2, <2>3
  <2>. QED  BY <2>1, <2>2, <2>4 DEF SameQueue
<1>. QED  BY <1>3, <1>6, <1>7, <1>10, <1>11 DEF e

\* CloseMutexSem and CloseEventSem.
LEMMA CloseFacts ==
    ASSUME NEW d \in Data, NEW s \in Semaphores
    PROVE  LET c == Close(d, s)
           IN  /\ c \in Data
               /\ c.queue = d.queue
               /\ c.semaphore = [d.semaphore EXCEPT ![s] = 1]
               /\ c.used = d.used \ {s}
<1>1. [d.semaphore EXCEPT ![s] = 1] \in [Semaphores -> Nat]
      BY DEF Data
<1>. QED  BY <1>1 DEF Close, Data

\* RexxDeleteQueue, and what Queue_Detach and search_session do with the
\* session queue.
LEMMA FreedSound ==
    ASSUME NEW d, Sound(d), NEW q \in Queues, d.queue[q] # None
    PROVE  LET e == Freed(d, q)
           IN  /\ Sound(e) /\ Tidied(d, e)
               /\ e.queue[q] = None
               /\ \A r \in Queues \ {q} : e.queue[r] = d.queue[r]
<1>. DEFINE x == d.queue[q].enqsem
            y == d.queue[q].waitsem
            e == Freed(d, q)
<1>1. /\ d \in Data
      /\ d.queue \in [Queues -> Headers \cup {None}]
      /\ d.semaphore \in [Semaphores -> Nat]
      /\ d.used \subseteq Semaphores
      /\ x \in d.used /\ y \in d.used /\ x # y
      BY SoundFacts
<1>2. x \in Semaphores /\ y \in Semaphores
      BY <1>1
<1>3. /\ e.queue = [d.queue EXCEPT ![q] = None]
      /\ e.semaphore = [[d.semaphore EXCEPT ![x] = 1] EXCEPT ![y] = 1]
      /\ e.used = (d.used \ {x}) \ {y}
      /\ e \in Data
  <2>. DEFINE c == Close(d, x)
              b == Close(c, y)
  <2>1. /\ c \in Data /\ c.queue = d.queue
        /\ c.semaphore = [d.semaphore EXCEPT ![x] = 1] /\ c.used = d.used \ {x}
        BY <1>1, <1>2, CloseFacts
  <2>2. e = [b EXCEPT !.queue[q] = None]
        BY DEF Freed
  <2>. HIDE DEF c, e, x, y
  <2>3. /\ b \in Data /\ b.queue = c.queue
        /\ b.semaphore = [c.semaphore EXCEPT ![y] = 1] /\ b.used = c.used \ {y}
        BY <1>2, <2>1, CloseFacts
  <2>. HIDE DEF b
  <2>4. e.queue = [b.queue EXCEPT ![q] = None] /\ e.semaphore = b.semaphore /\ e.used = b.used
        BY <2>2, <2>3 DEF Data
  <2>5. [b.queue EXCEPT ![q] = None] \in [Queues -> Headers \cup {None}]
        BY <2>3 DEF Data
  <2>6. e \in Data
        BY <2>2, <2>3, <2>5 DEF Data
  <2>. QED  BY <2>1, <2>3, <2>4, <2>6
<1>. HIDE DEF x, y, e
<1>4. /\ e.queue[q] = None
      /\ \A r \in Queues \ {q} : e.queue[r] = d.queue[r]
      /\ e.queue \in [Queues -> Headers \cup {None}]
      BY <1>1, <1>3
<1>5. /\ e.semaphore \in [Semaphores -> Nat]
      /\ \A s \in Semaphores : e.semaphore[s] = IF s \in {x, y} THEN 1 ELSE d.semaphore[s]
      BY <1>1, <1>3
<1>6. /\ Handles(e, q) = {}
      /\ \A r \in Queues \ {q} : Handles(e, r) = Handles(d, r)
      BY <1>4 DEF Handles
<1>7. Handles(d, q) = {x, y}
      BY DEF Handles, x, y
<1>8. \A p, r \in Queues : p # r => Handles(d, p) \cap Handles(d, r) = {}
      BY DEF Sound
<1>9. Sound(e)
  <2>1. e \in Data
        BY <1>3
  <2>2. \A r \in Queues : e.queue[r] # None => e.queue[r].enqsem # e.queue[r].waitsem
        BY <1>4 DEF Sound
  <2>3. e.used = UNION {Handles(e, r) : r \in Queues}
    <3>1. d.used = UNION {Handles(d, r) : r \in Queues}
          BY DEF Sound
    <3>2. ASSUME NEW s \in e.used PROVE \E r \in Queues : s \in Handles(e, r)
      <4>1. PICK r \in Queues : s \in Handles(d, r)
            BY <1>3, <3>1, <3>2
      <4>. QED  BY <1>3, <1>6, <1>7, <3>2, <4>1
    <3>3. ASSUME NEW r \in Queues, NEW s \in Handles(e, r) PROVE s \in e.used
      <4>1. r # q /\ s \in Handles(d, r)
            BY <1>6, <3>3
      <4>2. s \in d.used /\ s \notin {x, y}
            BY <1>7, <1>8, <3>1, <4>1
      <4>. QED  BY <1>3, <4>2
    <3>. QED  BY <3>2, <3>3
  <2>4. \A p, r \in Queues : p # r => Handles(e, p) \cap Handles(e, r) = {}
        BY <1>6, <1>8
  <2>5. \A s \in Semaphores \ e.used : e.semaphore[s] = 1
        BY <1>3, <1>5 DEF Sound
  <2>. QED  BY <2>1, <2>2, <2>3, <2>4, <2>5 DEF Sound
<1>10. Tidied(d, e)
  <2>. SUFFICES ASSUME NEW r \in Queues \ {q}, e.queue[r] # None
                PROVE  SameQueue(d, e, r)
       BY <1>4 DEF Tidied
  <2>1. e.queue[r] = d.queue[r]
        BY <1>4
  <2>2. d.queue[r].waitsem \in Handles(d, r) /\ d.queue[r].waiting \in Nat
        /\ d.queue[r].waitsem \in d.used
        BY <2>1, SoundFacts DEF Handles
  <2>3. d.queue[r].waitsem \notin {x, y} /\ d.queue[r].waitsem \in Semaphores
        BY <1>1, <1>7, <1>8, <2>2
  <2>4. e.semaphore[d.queue[r].waitsem] = d.semaphore[d.queue[r].waitsem]
        BY <1>5, <2>3
  <2>. QED  BY <2>1, <2>2, <2>4 DEF SameQueue
<1>. QED  BY <1>4, <1>9, <1>10 DEF e

\* queue_detach.
LEMMA WithoutWaiterSound ==
    ASSUME NEW d, Sound(d), NEW p
    PROVE  LET e == WithoutWaiter(d, p)
           IN  /\ Sound(e) /\ Tidied(d, e)
               /\ \A q \in Queues : (e.queue[q] = None) <=> (d.queue[q] = None)
<1>. DEFINE W == WaitedFor(d, p)
            F == {d.queue[q].enqsem : q \in W}
            e == WithoutWaiter(d, p)
<1>1. /\ e.queue = OneLess(d, W)
      /\ e.semaphore = [s \in Semaphores |-> IF s \in F THEN 1 ELSE d.semaphore[s]]
      /\ e.used = d.used
      /\ e = [queue |-> e.queue, semaphore |-> e.semaphore, used |-> e.used]
      BY DEF WithoutWaiter
<1>2. /\ d.queue \in [Queues -> Headers \cup {None}]
      /\ d.semaphore \in [Semaphores -> Nat]
      /\ d.used \subseteq Semaphores
      BY SoundFacts
<1>3. W \subseteq Queues /\ \A q \in W : d.queue[q] # None /\ d.queue[q].waiting > 0
      BY DEF WaitedFor
<1>. HIDE DEF W, e
<1>4. ASSUME NEW q \in Queues, d.queue[q] # None
      PROVE  /\ e.queue[q] \in Headers /\ e.queue[q] # None
             /\ e.queue[q].enqsem = d.queue[q].enqsem
             /\ e.queue[q].waitsem = d.queue[q].waitsem
             /\ e.queue[q].items = d.queue[q].items
             /\ e.queue[q].waiting <= d.queue[q].waiting
  <2>1. d.queue[q] \in Headers
        BY <1>4, SoundFacts
  <2>2. CASE q \in W
    <3>1. e.queue[q] = [d.queue[q] EXCEPT !.waiting = @ - 1]
          BY <1>1, <2>2 DEF OneLess
    <3>2. /\ d.queue[q].waiting \in 0..Cardinality(Threads) /\ d.queue[q].waiting > 0
          /\ Cardinality(Threads) \in Nat
          BY <1>3, <2>1, <2>2, SessionProcesses, FS_CardinalityType DEF Headers
    <3>3. d.queue[q].waiting - 1 \in 0..Cardinality(Threads) /\ d.queue[q].waiting - 1 <= d.queue[q].waiting
          BY <3>2
    <3>4. e.queue[q] \in Headers
          BY <2>1, <3>1, <3>3 DEF Headers
    <3>5. /\ e.queue[q].enqsem = d.queue[q].enqsem
          /\ e.queue[q].waitsem = d.queue[q].waitsem
          /\ e.queue[q].items = d.queue[q].items
          /\ e.queue[q].waiting = d.queue[q].waiting - 1
          BY <2>1, <3>1 DEF Headers
    <3>. QED  BY <3>3, <3>4, <3>5, HeaderFacts
  <2>3. CASE q \notin W
    <3>1. e.queue[q] = d.queue[q]
          BY <1>1, <2>3 DEF OneLess
    <3>. QED  BY <2>1, <3>1, HeaderFacts
  <2>. QED  BY <2>2, <2>3
<1>5. ASSUME NEW q \in Queues, d.queue[q] = None
      PROVE  e.queue[q] = None
      BY <1>1, <1>3, <1>5 DEF OneLess
<1>6. \A q \in Queues : Handles(e, q) = Handles(d, q)
      BY <1>4, <1>5 DEF Handles
<1>7. \A q \in Queues : \A r \in W : d.queue[q] # None => d.queue[q].waitsem # d.queue[r].enqsem
  <2>. SUFFICES ASSUME NEW q \in Queues, NEW r \in W, d.queue[q] # None
                PROVE  d.queue[q].waitsem # d.queue[r].enqsem
       OBVIOUS
  <2>1. r \in Queues /\ d.queue[r] # None
        BY <1>3
  <2>2. d.queue[q].waitsem \in Handles(d, q) /\ d.queue[r].enqsem \in Handles(d, r)
        BY <2>1 DEF Handles
  <2>. QED  BY <2>1, <2>2 DEF Sound
<1>8. \A s \in F : s \in d.used
      BY <1>3, SoundFacts
<1>9. Sound(e)
  <2>1. e.queue \in [Queues -> Headers \cup {None}]
    <3>1. \A q \in Queues : e.queue[q] \in Headers \cup {None}
          BY <1>4, <1>5
    <3>2. e.queue = [q \in Queues |-> e.queue[q]]
          BY <1>1 DEF OneLess
    <3>. QED  BY <3>1, <3>2
  <2>2. e.semaphore \in [Semaphores -> Nat]
        BY <1>1, <1>2
  <2>3. e \in Data
        BY <1>1, <1>2, <2>1, <2>2 DEF Data
  <2>4. \A q \in Queues : e.queue[q] # None => e.queue[q].enqsem # e.queue[q].waitsem
        BY <1>4, <1>5, SoundFacts
  <2>5. \A s \in Semaphores \ d.used : e.semaphore[s] = d.semaphore[s]
        BY <1>1, <1>8
  <2>. HIDE DEF F
  <2>. QED  BY <1>1, <1>6, <2>3, <2>4, <2>5, Reheaded
<1>10. Tidied(d, e)
  <2>. SUFFICES ASSUME NEW q \in Queues, e.queue[q] # None
                PROVE  SameQueue(d, e, q)
       BY DEF Tidied
  <2>1. d.queue[q] # None
        BY <1>5
  <2>2. d.queue[q].waitsem \in Semaphores
        BY <1>2, <2>1, SoundFacts
  <2>3. e.semaphore[d.queue[q].waitsem] = d.semaphore[d.queue[q].waitsem]
        BY <1>1, <1>7, <2>1, <2>2
  <2>. QED  BY <1>4, <2>1, <2>3 DEF SameQueue
<1>. QED  BY <1>4, <1>5, <1>9, <1>10 DEF e

\* search_session leaves a session queue, and everything else as it was or
\* without waiters.
LEMMA SessionFoundSound ==
    ASSUME Sound(apidata)
    PROVE  /\ Sound(SessionFound) /\ Tidied(apidata, SessionFound)
           /\ SessionFound.queue["SESSION"] # None
<1>. DEFINE q == "SESSION"
            h == apidata.queue[q]
<1>1. q \in Queues
      BY DEF Queues
<1>. HIDE DEF q
<1>2. CASE h = None
  <2>1. SessionFound = Allocated(apidata, q)
        BY <1>2 DEF SessionFound, q
  <2>. QED  BY <1>1, <1>2, <2>1, AllocatedSound DEF q
<1>3. CASE h # None /\ Leader \in running
  <2>1. SessionFound = apidata
        BY <1>3 DEF SessionFound, q
  <2>2. Tidied(apidata, apidata)
        BY SoundFacts DEF Tidied, SameQueue
  <2>. QED  BY <1>3, <2>1, <2>2 DEF q
<1>4. CASE h # None /\ Leader \notin running
  <2>. DEFINE f == Freed(apidata, q)
              w == WithoutWaiter(f, h.waitprocess)
  <2>1. SessionFound = Allocated(w, q)
        BY <1>4 DEF SessionFound, q
  <2>2. Sound(f) /\ Tidied(apidata, f) /\ f.queue[q] = None
        BY <1>1, <1>4, FreedSound
  <2>. HIDE DEF f
  <2>3. Sound(w) /\ Tidied(f, w) /\ w.queue[q] = None
        BY <1>1, <2>2, WithoutWaiterSound
  <2>. HIDE DEF w
  <2>4. LET e == Allocated(w, q) IN Sound(e) /\ Tidied(w, e) /\ e.queue[q] # None
        BY <1>1, <2>3, AllocatedSound
  <2>5. Sound(SessionFound) /\ Tidied(w, SessionFound) /\ SessionFound.queue[q] # None
        BY <2>1, <2>4
  <2>6. Tidied(f, SessionFound)
        BY <2>2, <2>3, <2>5, TidiedTwice
  <2>7. Tidied(apidata, SessionFound)
        BY <2>2, <2>5, <2>6, TidiedTwice
  <2>. QED  BY <2>5, <2>7 DEF q
<1>. QED  BY <1>2, <1>3, <1>4

-----------------------------------------------------------------------------
(* Counting.                                                               *)

\* A thread is outside of RexxPullQueue, or stands at a queue.
LEMMA PlaceFacts ==
    ASSUME NEW th \in [Threads -> Places], NEW t \in Threads
    PROVE  /\ \/ th[t] = Idle /\ th[t].at = "idle" /\ th[t].queue = None
              \/ /\ th[t].at \in {"request", "wait", "woken"} /\ th[t].queue \in Queues
                 /\ th[t].enqsem \in Semaphores /\ th[t].waitsem \in Semaphores
           /\ None \notin Queues
<1>1. th[t] \in Places
      OBVIOUS
<1>2. CASE th[t] = Idle
      BY <1>2, SessionNone DEF Idle
<1>3. CASE th[t] # Idle
      BY <1>1, <1>3, SessionNone DEF Places
<1>. QED  BY <1>2, <1>3

\* Waiters can be counted.
LEMMA FiniteWaiters ==
    ASSUME NEW th, NEW q
    PROVE  /\ IsFiniteSet(WaitersOf(th, q)) /\ Cardinality(WaitersOf(th, q)) \in Nat
           /\ Cardinality(WaitersOf(th, q)) <= Cardinality(Threads)
           /\ IsFiniteSet(WokenOf(th, q)) /\ Cardinality(WokenOf(th, q)) \in Nat
           /\ Cardinality(Threads) \in Nat
<1>1. WaitersOf(th, q) \in SUBSET Threads /\ WokenOf(th, q) \in SUBSET Threads
      BY DEF WaitersOf, WokenOf
<1>. QED  BY <1>1, SessionProcesses, FS_Subset, FS_CardinalityType

\* The number of waiters that a queue counts.
Count(d, q) == IF d.queue[q] = None THEN 0 ELSE d.queue[q].waiting

\* Counting right means that nobody waits for a queue whose count is 0.
LEMMA CountedFacts ==
    ASSUME NEW d, NEW th
    PROVE  /\ Counted(d, th) <=> \A q \in Queues : Cardinality(WaitersOf(th, q)) = Count(d, q)
           /\ Counted(d, th) => \A q \in Queues : Count(d, q) = 0 <=> WaitersOf(th, q) = {}
<1>1. Counted(d, th) <=> \A q \in Queues : Cardinality(WaitersOf(th, q)) = Count(d, q)
      BY DEF Counted, WaitersOf, Count
<1>2. \A q \in Queues : Cardinality(WaitersOf(th, q)) = 0 <=> WaitersOf(th, q) = {}
      BY FiniteWaiters, FS_EmptySet
<1>. QED  BY <1>1, <1>2

\* A memory that was tidied, and counts right, serves those who still wait.
LEMMA StillServed ==
    ASSUME NEW d, NEW e, Sound(e), Tidied(d, e),
           NEW th \in [Threads -> Places], NEW th2 \in [Threads -> Places],
           Serves(d, th), Counted(e, th2),
           \A t \in Threads : th2[t] = th[t] \/ (th2[t] = Idle /\ th[t].at # "woken")
    PROVE  Serves(e, th2)
<1>. SUFFICES ASSUME NEW q \in Queues, NEW t \in WaitersOf(th2, q)
              PROVE  /\ e.queue[q] # None
                     /\ e.queue[q].enqsem = th2[t].enqsem
                     /\ e.queue[q].waitsem = th2[t].waitsem
                     /\ e.queue[q].items <= e.semaphore[e.queue[q].waitsem] + Cardinality(WokenOf(th2, q))
     BY DEF Serves, ServesOne
<1>1. None \notin Queues /\ Idle.queue = None /\ Idle.at # "woken"
      BY SessionNone DEF Idle
<1>2. \A u \in WaitersOf(th2, q) : th2[u] = th[u] /\ u \in WaitersOf(th, q)
      BY <1>1 DEF WaitersOf
<1>3. WokenOf(th2, q) = WokenOf(th, q)
  <2>1. \A u \in WokenOf(th2, q) : u \in WokenOf(th, q)
        BY <1>2 DEF WokenOf
  <2>2. \A u \in WokenOf(th, q) : u \in WokenOf(th2, q)
    <3>. SUFFICES ASSUME NEW u \in WokenOf(th, q) PROVE u \in WokenOf(th2, q)
         OBVIOUS
    <3>1. u \in Threads /\ th[u].queue = q /\ th[u].at = "woken"
          BY DEF WokenOf, WaitersOf
    <3>2. th2[u] = th[u]
          BY <3>1
    <3>. QED  BY <3>1, <3>2 DEF WokenOf, WaitersOf
  <2>. QED  BY <2>1, <2>2
<1>4. Count(e, q) # 0
      BY CountedFacts
<1>5. SameQueue(d, e, q) /\ e.queue[q] # None
      BY <1>4 DEF Count, Tidied
<1>6. /\ d.queue[q].enqsem = th[t].enqsem
      /\ d.queue[q].waitsem = th[t].waitsem
      /\ d.queue[q].items <= d.semaphore[d.queue[q].waitsem] + Cardinality(WokenOf(th, q))
      BY <1>2 DEF Serves, ServesOne
<1>. QED  BY <1>2, <1>3, <1>5, <1>6 DEF SameQueue

\* A step that does not touch a queue serves it as before.
Untouched(d, e, q) ==
    /\ e.queue[q] = d.queue[q]
    /\ e.queue[q] # None => e.semaphore[e.queue[q].waitsem] = d.semaphore[e.queue[q].waitsem]

Elsewhere(th, th2, q) ==
    \A t \in Threads : th2[t] = th[t] \/ (th[t].queue # q /\ th2[t].queue # q)

\* If q and those who wait for it are left alone, q serves them as before.
LEMMA OneServed ==
    ASSUME NEW d, NEW e, NEW th, NEW th2, NEW q,
           ServesOne(d, th, q), Untouched(d, e, q), Elsewhere(th, th2, q)
    PROVE  ServesOne(e, th2, q) /\ WaitersOf(th2, q) = WaitersOf(th, q)
<1>. USE DEF Untouched, Elsewhere
<1>1. \A t \in Threads : t \in WaitersOf(th2, q) <=> t \in WaitersOf(th, q)
      BY DEF WaitersOf
<1>2. WaitersOf(th2, q) = WaitersOf(th, q)
      BY <1>1 DEF WaitersOf
<1>3. \A t \in WaitersOf(th, q) : th2[t] = th[t]
      BY DEF WaitersOf
<1>4. WokenOf(th2, q) = WokenOf(th, q)
      BY <1>2, <1>3 DEF WokenOf
<1>. QED  BY <1>2, <1>3, <1>4 DEF ServesOne

\* A function begins with a memory that serves everybody.
LEMMA Found ==
    ASSUME IInv, ~spoilt, Counted(SessionFound, thread)
    PROVE  Sound(SessionFound) /\ Serves(SessionFound, thread)
<1>1. Sound(SessionFound) /\ Tidied(apidata, SessionFound)
      BY SessionFoundSound DEF IInv
<1>. QED  BY <1>1, StillServed DEF IInv

\* A function that only rewrites the header of q, and its semaphores.
Rewrites(d, e, q, h) ==
    /\ d.queue[q] # None /\ h \in Headers /\ e \in Data
    /\ e.queue = [d.queue EXCEPT ![q] = h] /\ e.used = d.used
    /\ h.enqsem = d.queue[q].enqsem /\ h.waitsem = d.queue[q].waitsem
    /\ \A s \in Semaphores \ Handles(d, q) : e.semaphore[s] = d.semaphore[s]

\* Rewriting one header leaves the memory sound and the other queues alone.
LEMMA Rewritten ==
    ASSUME NEW d, Sound(d), NEW e, NEW q \in Queues, NEW h, Rewrites(d, e, q, h)
    PROVE  /\ Sound(e)
           /\ e.queue[q] = h
           /\ \A r \in Queues \ {q} : e.queue[r] = d.queue[r] /\ Untouched(d, e, r)
<1>. USE DEF Rewrites
<1>1. d.queue \in [Queues -> Headers \cup {None}] /\ d.used \subseteq Semaphores
      BY SoundFacts
<1>2. /\ e.queue[q] = h
      /\ \A r \in Queues \ {q} : e.queue[r] = d.queue[r]
      /\ h # None
      BY <1>1, HeaderFacts
<1>3. Handles(e, q) = Handles(d, q)
      BY <1>2 DEF Handles
<1>4. \A r \in Queues : Handles(e, r) = Handles(d, r)
      BY <1>2, <1>3 DEF Handles
<1>5. \A r \in Queues : e.queue[r] # None => e.queue[r].enqsem # e.queue[r].waitsem
      BY <1>2 DEF Sound
<1>6. Handles(d, q) \subseteq d.used
      BY DEF Sound
<1>7. Sound(e)
  <2>1. \A s \in Semaphores \ d.used : e.semaphore[s] = d.semaphore[s]
        BY <1>6
  <2>2. e \in Data /\ e.used = d.used
        OBVIOUS
  <2>. HIDE DEF Rewrites
  <2>. QED  BY <1>4, <1>5, <2>1, <2>2, Reheaded
<1>8. ASSUME NEW r \in Queues \ {q}, e.queue[r] # None
      PROVE  e.semaphore[e.queue[r].waitsem] = d.semaphore[e.queue[r].waitsem]
  <2>1. d.queue[r].waitsem \in Handles(d, r) /\ d.queue[r].waitsem \in Semaphores
        BY <1>1, <1>2, <1>8, SoundFacts DEF Handles
  <2>2. d.queue[r].waitsem \notin Handles(d, q)
        BY <2>1 DEF Sound
  <2>. QED  BY <1>2, <2>1, <2>2
<1>. QED  BY <1>2, <1>7, <1>8 DEF Untouched

-----------------------------------------------------------------------------
(* The functions.                                                          *)

\* The memory after a function that moves no thread.
LEMMA Unmoved ==
    ASSUME IInv, ~spoilt, Sound(apidata'), Counted(apidata', thread), Serves(apidata', thread),
           UNCHANGED <<thread, running, spoilt>>
    PROVE  IInv'
BY DEF IInv

\* A queue that nobody waits for comes or goes.
LEMMA Replaced ==
    ASSUME IInv, ~spoilt, NEW d, Sound(d), Serves(d, thread), Counted(d, thread), NEW q \in Queues,
           Sound(apidata'), Tidied(d, apidata'), Count(d, q) = 0, Count(apidata', q) = 0,
           \A r \in Queues \ {q} : apidata'.queue[r] = d.queue[r],
           UNCHANGED <<thread, running, spoilt>>
    PROVE  IInv'
<1>1. \A r \in Queues : Count(apidata', r) = Count(d, r)
      BY DEF Count
<1>2. Counted(apidata', thread)
      BY <1>1, CountedFacts
<1>3. Serves(apidata', thread)
      BY <1>2, StillServed DEF IInv
<1>. QED  BY <1>2, <1>3, Unmoved

\* The new queue has no waiters, and nobody waits under its name.
LEMMA StepCreateQueue ==
    ASSUME IInv, ~spoilt, NEW t \in Threads, NEW q \in Named, CreateQueue(t, q)
    PROVE  IInv'
<1>. DEFINE d == SessionFound
<1>1. /\ Call(t, d) /\ UNCHANGED thread
      /\ apidata' = IF d.queue[q] = None THEN Allocated(d, q) ELSE d
      BY DEF CreateQueue
<1>2. q \in Queues
      BY DEF Queues
<1>3. Counted(d, thread) /\ UNCHANGED <<thread, running, spoilt>>
      BY <1>1 DEF Call
<1>4. Sound(d) /\ Serves(d, thread)
      BY <1>3, Found
<1>. HIDE DEF d
<1>5. CASE d.queue[q] # None
      BY <1>1, <1>3, <1>4, <1>5, Unmoved
<1>6. CASE d.queue[q] = None
  <2>1. /\ Sound(apidata') /\ Tidied(d, apidata')
        /\ apidata'.queue[q] # None /\ apidata'.queue[q].waiting = 0
        /\ \A r \in Queues \ {q} : apidata'.queue[r] = d.queue[r]
        BY <1>1, <1>2, <1>4, <1>6, AllocatedSound
  <2>2. Count(d, q) = 0 /\ Count(apidata', q) = 0
        BY <1>6, <2>1 DEF Count
  <2>. QED  BY <1>2, <1>3, <1>4, <2>1, <2>2, Replaced
<1>. QED  BY <1>5, <1>6

\* A queue is deleted only if it counts no waiter.
LEMMA StepDeleteQueue ==
    ASSUME IInv, ~spoilt, NEW t \in Threads, NEW q \in Named, DeleteQueue(t, q)
    PROVE  IInv'
<1>. DEFINE d == SessionFound
<1>1. /\ Call(t, d) /\ UNCHANGED thread /\ d.queue[q] # None
      /\ apidata' = IF d.queue[q].waiting > 0 THEN d ELSE Freed(d, q)
      BY DEF DeleteQueue
<1>2. q \in Queues
      BY DEF Queues
<1>3. Counted(d, thread) /\ UNCHANGED <<thread, running, spoilt>>
      BY <1>1 DEF Call
<1>4. Sound(d) /\ Serves(d, thread)
      BY <1>3, Found
<1>. HIDE DEF d
<1>5. d.queue[q].waiting \in Nat
      BY <1>1, <1>2, <1>4, SoundFacts
<1>6. CASE d.queue[q].waiting > 0
      BY <1>1, <1>3, <1>4, <1>6, Unmoved
<1>7. CASE d.queue[q].waiting = 0
  <2>1. /\ Sound(apidata') /\ Tidied(d, apidata') /\ apidata'.queue[q] = None
        /\ \A r \in Queues \ {q} : apidata'.queue[r] = d.queue[r]
        BY <1>1, <1>2, <1>4, <1>7, FreedSound
  <2>2. Count(d, q) = 0 /\ Count(apidata', q) = 0
        BY <1>7, <2>1 DEF Count
  <2>. QED  BY <1>2, <1>3, <1>4, <2>1, <2>2, Replaced
<1>. QED  BY <1>5, <1>6, <1>7

\* One more line, and one more post if anybody waits.
LEMMA StepAddQueue ==
    ASSUME IInv, ~spoilt, NEW t \in Threads, NEW q \in Queues, AddQueue(t, q)
    PROVE  IInv'
<1>. DEFINE d == SessionFound
            g == d.queue[q]
            w == g.waitsem
            h == [g EXCEPT !.items = @ + 1]
            v == IF g.waiting > 0 THEN d.semaphore[w] + 1 ELSE d.semaphore[w]
            sems == [d.semaphore EXCEPT ![w] = v]
<1>1. /\ Call(t, d) /\ UNCHANGED thread /\ g # None /\ g.items < MaxItems
      /\ apidata' = [d EXCEPT !.queue[q].items = @ + 1,
                              !.semaphore[w] = IF g.waiting > 0 THEN @ + 1 ELSE @]
      BY DEF AddQueue
<1>2. Counted(d, thread) /\ UNCHANGED <<thread, running, spoilt>>
      BY <1>1 DEF Call
<1>3. Sound(d) /\ Serves(d, thread)
      BY <1>2, Found
<1>. HIDE DEF d
<1>4. /\ d \in Data /\ d.semaphore \in [Semaphores -> Nat]
      /\ g \in Headers /\ w \in Semaphores /\ g.waiting \in Nat /\ g.items \in Nat
      BY <1>1, <1>3, SoundFacts, HeaderFacts
<1>5. /\ apidata'.queue = [d.queue EXCEPT ![q] = h]
      /\ apidata'.semaphore = sems /\ apidata'.used = d.used
      BY <1>1, <1>4 DEF Data
<1>6. /\ h \in Headers /\ h.enqsem = g.enqsem /\ h.waitsem = w
      /\ h.items = g.items + 1 /\ h.waiting = g.waiting
  <2>1. g.items + 1 \in 0..MaxItems
        BY <1>1, <1>4, SessionBounds
  <2>. QED  BY <1>4, <2>1 DEF Headers
<1>7. /\ sems \in [Semaphores -> Nat] /\ sems[w] = v
      /\ \A s \in Semaphores \ {w} : sems[s] = d.semaphore[s]
      BY <1>4
<1>8. w \in Handles(d, q) /\ apidata' \in Data
  <2>1. [d.queue EXCEPT ![q] = h] \in [Queues -> Headers \cup {None}]
        BY <1>4, <1>6 DEF Data
  <2>. QED  BY <1>1, <1>4, <1>5, <1>7, <2>1 DEF Data, Handles
<1>. HIDE DEF h, sems
<1>9. /\ Sound(apidata')
      /\ apidata'.queue[q] = h
      /\ \A r \in Queues \ {q} : apidata'.queue[r] = d.queue[r] /\ Untouched(d, apidata', r)
  <2>1. \A s \in Semaphores \ Handles(d, q) : apidata'.semaphore[s] = d.semaphore[s]
        BY <1>5, <1>7, <1>8
  <2>2. d.queue[q] # None /\ h.enqsem = d.queue[q].enqsem /\ h.waitsem = d.queue[q].waitsem
        BY <1>1, <1>6
  <2>3. Rewrites(d, apidata', q, h)
        BY <1>5, <1>6, <1>8, <2>1, <2>2 DEF Rewrites
  <2>. HIDE DEF g
  <2>. QED  BY <1>3, <2>3, Rewritten
<1>10. h # None
       BY <1>6, HeaderFacts
<1>11. \A r \in Queues : Count(apidata', r) = Count(d, r)
  <2>1. \A r \in Queues \ {q} : apidata'.queue[r] = d.queue[r]
        BY <1>9
  <2>2. apidata'.queue[q] = h /\ h # None /\ g # None /\ h.waiting = g.waiting
        BY <1>1, <1>6, <1>9, <1>10
  <2>. QED  BY <2>1, <2>2 DEF Count
<1>12. Counted(apidata', thread)
       BY <1>2, <1>11, CountedFacts
<1>13. \A r \in Queues \ {q} : ServesOne(apidata', thread, r)
       BY <1>3, <1>9, OneServed DEF Serves, Elsewhere
<1>14. ServesOne(apidata', thread, q)
  <2>. SUFFICES ASSUME NEW u \in WaitersOf(thread, q)
                PROVE  /\ h.enqsem = thread[u].enqsem /\ h.waitsem = thread[u].waitsem
                       /\ h.items <= sems[w] + Cardinality(WokenOf(thread, q))
       BY <1>5, <1>6, <1>9, <1>10 DEF ServesOne
  <2>1. /\ g.enqsem = thread[u].enqsem /\ g.waitsem = thread[u].waitsem
        /\ g.items <= d.semaphore[w] + Cardinality(WokenOf(thread, q))
        BY <1>3 DEF Serves, ServesOne
  <2>2. g.waiting # 0
        BY <1>1, <1>2, CountedFacts DEF Count
  <2>3. v = d.semaphore[w] + 1 /\ d.semaphore[w] \in Nat
        BY <1>4, <2>2
  <2>4. Cardinality(WokenOf(thread, q)) \in Nat
        BY FiniteWaiters
  <2>. QED  BY <1>4, <1>6, <1>7, <2>1, <2>3, <2>4
<1>15. Serves(apidata', thread)
       BY <1>13, <1>14 DEF Serves
<1>. QED  BY <1>2, <1>9, <1>12, <1>15, Unmoved

\* One line less; a post may be left over.
LEMMA StepPullQueue ==
    ASSUME IInv, ~spoilt, NEW t \in Threads, NEW q \in Queues, PullQueue(t, q)
    PROVE  IInv'
<1>. DEFINE d == SessionFound
            g == d.queue[q]
            h == [g EXCEPT !.items = @ - 1]
<1>1. /\ Call(t, d) /\ UNCHANGED thread /\ g # None /\ g.items > 0
      /\ apidata' = [d EXCEPT !.queue[q].items = @ - 1]
      BY DEF PullQueue
<1>2. Counted(d, thread) /\ UNCHANGED <<thread, running, spoilt>>
      BY <1>1 DEF Call
<1>3. Sound(d) /\ Serves(d, thread)
      BY <1>2, Found
<1>. HIDE DEF d
<1>4. /\ d \in Data /\ d.semaphore \in [Semaphores -> Nat]
      /\ g \in Headers /\ g.waitsem \in Semaphores /\ g.waiting \in Nat /\ g.items \in Nat
      /\ g.items <= MaxItems
      BY <1>1, <1>3, SoundFacts, HeaderFacts
<1>5. /\ apidata'.queue = [d.queue EXCEPT ![q] = h]
      /\ apidata'.semaphore = d.semaphore /\ apidata'.used = d.used
      BY <1>1, <1>4 DEF Data
<1>6. /\ h \in Headers /\ h.enqsem = g.enqsem /\ h.waitsem = g.waitsem
      /\ h.items = g.items - 1 /\ h.waiting = g.waiting
  <2>1. g.items - 1 \in 0..MaxItems
        BY <1>1, <1>4, SessionBounds
  <2>. QED  BY <1>4, <2>1 DEF Headers
<1>13. apidata' \in Data
  <2>1. [d.queue EXCEPT ![q] = h] \in [Queues -> Headers \cup {None}]
        BY <1>4, <1>6 DEF Data
  <2>. QED  BY <1>1, <1>4, <2>1 DEF Data
<1>. HIDE DEF h
<1>7. /\ Sound(apidata')
      /\ apidata'.queue[q] = h
      /\ \A r \in Queues \ {q} : apidata'.queue[r] = d.queue[r] /\ Untouched(d, apidata', r)
  <2>1. \A s \in Semaphores \ Handles(d, q) : apidata'.semaphore[s] = d.semaphore[s]
        BY <1>5
  <2>2. d.queue[q] # None /\ h.enqsem = d.queue[q].enqsem /\ h.waitsem = d.queue[q].waitsem
        BY <1>1, <1>6
  <2>3. Rewrites(d, apidata', q, h)
        BY <1>5, <1>6, <1>13, <2>1, <2>2 DEF Rewrites
  <2>. HIDE DEF g
  <2>. QED  BY <1>3, <2>3, Rewritten
<1>8. h # None
      BY <1>6, HeaderFacts
<1>9. \A r \in Queues : Count(apidata', r) = Count(d, r)
      BY <1>1, <1>6, <1>7, <1>8 DEF Count
<1>10. Counted(apidata', thread)
       BY <1>2, <1>9, CountedFacts
<1>11. \A r \in Queues \ {q} : ServesOne(apidata', thread, r)
       BY <1>3, <1>7, OneServed DEF Serves, Elsewhere
<1>12. ServesOne(apidata', thread, q)
  <2>. SUFFICES ASSUME NEW u \in WaitersOf(thread, q)
                PROVE  /\ h.enqsem = thread[u].enqsem /\ h.waitsem = thread[u].waitsem
                       /\ h.items <= d.semaphore[g.waitsem] + Cardinality(WokenOf(thread, q))
       BY <1>5, <1>6, <1>7, <1>8 DEF ServesOne
  <2>1. /\ g.enqsem = thread[u].enqsem /\ g.waitsem = thread[u].waitsem
        /\ g.items <= d.semaphore[g.waitsem] + Cardinality(WokenOf(thread, q))
        BY <1>3 DEF Serves, ServesOne
  <2>2. Cardinality(WokenOf(thread, q)) \in Nat /\ d.semaphore[g.waitsem] \in Nat
        BY <1>4, FiniteWaiters
  <2>. QED  BY <1>4, <1>6, <2>1, <2>2
<1>14. Serves(apidata', thread)
       BY <1>11, <1>12 DEF Serves
<1>. QED  BY <1>2, <1>7, <1>10, <1>14, Unmoved

-----------------------------------------------------------------------------
(* Threads that wait.                                                      *)

\* A function of t at queue q: the header is rewritten, t comes or goes, and
\* the others are where they were.
LEMMA Moved ==
    ASSUME IInv, ~spoilt, NEW d, Sound(d), Serves(d, thread), NEW q \in Queues, NEW t \in Threads,
           NEW h, Rewrites(d, apidata', q, h),
           NEW place \in Places, thread' = [thread EXCEPT ![t] = place],
           thread[t].queue \in {q, None}, place.queue \in {q, None},
           \A r \in Queues \ {q} : Cardinality(WaitersOf(thread, r)) = Count(d, r),
           Cardinality(WaitersOf(thread', q)) = h.waiting,
           ServesOne(apidata', thread', q),
           UNCHANGED <<running, spoilt>>
    PROVE  IInv'
<1>1. /\ Sound(apidata') /\ apidata'.queue[q] = h
      /\ \A r \in Queues \ {q} : apidata'.queue[r] = d.queue[r] /\ Untouched(d, apidata', r)
      BY Rewritten
<1>2. thread \in [Threads -> Places] /\ thread' \in [Threads -> Places]
      BY DEF IInv
<1>3. \A r \in Queues \ {q} : Elsewhere(thread, thread', r)
  <2>1. None \notin Queues
        BY SessionNone
  <2>2. \A u \in Threads : thread'[u] = IF u = t THEN place ELSE thread[u]
        BY <1>2
  <2>. QED  BY <2>1, <2>2 DEF Elsewhere
<1>4. ASSUME NEW r \in Queues \ {q}
      PROVE  ServesOne(apidata', thread', r) /\ WaitersOf(thread', r) = WaitersOf(thread, r)
  <2>1. ServesOne(d, thread, r)
        BY DEF Serves
  <2>2. Untouched(d, apidata', r)
        BY <1>1
  <2>3. Elsewhere(thread, thread', r)
        BY <1>3
  <2>. QED  BY <2>1, <2>2, <2>3, OneServed
<1>5. Serves(apidata', thread')
      BY <1>4 DEF Serves
<1>6. Counted(apidata', thread')
  <2>1. \A r \in Queues \ {q} : Cardinality(WaitersOf(thread', r)) = Count(apidata', r)
        BY <1>1, <1>4 DEF Count
  <2>2. h # None
        BY HeaderFacts DEF Rewrites
  <2>3. Cardinality(WaitersOf(thread', q)) = Count(apidata', q)
        BY <1>1, <2>2 DEF Count
  <2>. QED  BY <2>1, <2>3, CountedFacts
<1>. QED  BY <1>1, <1>2, <1>5, <1>6 DEF IInv

\* Only t moves, to place.
MovesTo(th, th2, t, place) == \A u \in Threads : th2[u] = IF u = t THEN place ELSE th[u]

\* Who waits for q after t has moved there, or away.
LEMMA MovedWaiters ==
    ASSUME NEW th, NEW th2, NEW t \in Threads, NEW place, NEW q, MovesTo(th, th2, t, place)
    PROVE  /\ WaitersOf(th2, q) = IF place.queue = q THEN WaitersOf(th, q) \cup {t}
                                  ELSE WaitersOf(th, q) \ {t}
           /\ WokenOf(th2, q) = IF place.queue = q /\ place.at = "woken"
                                THEN WokenOf(th, q) \cup {t} ELSE WokenOf(th, q) \ {t}
<1>. USE DEF MovesTo
<1>1. WaitersOf(th2, q) = IF place.queue = q THEN WaitersOf(th, q) \cup {t} ELSE WaitersOf(th, q) \ {t}
      BY DEF WaitersOf
<1>2. WokenOf(th2, q) = IF place.queue = q /\ place.at = "woken"
                        THEN WokenOf(th, q) \cup {t} ELSE WokenOf(th, q) \ {t}
      BY DEF WokenOf, WaitersOf
<1>. QED  BY <1>1, <1>2

\* t begins to wait; there is no line.
LEMMA StepPullWaits ==
    ASSUME IInv, ~spoilt, NEW t \in Threads, NEW q \in Queues, PullWaits(t, q)
    PROVE  IInv'
<1>. DEFINE d == SessionFound
            g == d.queue[q]
            h == [g EXCEPT !.waiting = @ + 1, !.waitprocess = ProcessOf[t]]
            place == [at |-> "request", queue |-> q, enqsem |-> g.enqsem, waitsem |-> g.waitsem]
<1>1. /\ Call(t, d) /\ g # None /\ g.items = 0
      /\ apidata' = [d EXCEPT !.queue[q].waiting = @ + 1, !.queue[q].waitprocess = ProcessOf[t]]
      /\ thread' = [thread EXCEPT ![t] = place]
      BY DEF PullWaits, Registers
<1>2. thread[t].at = "idle" /\ Counted(d, thread) /\ UNCHANGED <<running, spoilt>>
      BY <1>1 DEF Call
<1>3. Sound(d) /\ Serves(d, thread)
      BY <1>2, Found
<1>. HIDE DEF d
<1>4. /\ d \in Data /\ d.semaphore \in [Semaphores -> Nat]
      /\ g \in Headers /\ g.waitsem \in Semaphores /\ g.enqsem \in Semaphores /\ g.waiting \in Nat
      /\ g.waitsem # g.enqsem
      BY <1>1, <1>3, SoundFacts, HeaderFacts
<1>5. /\ apidata'.queue = [d.queue EXCEPT ![q] = h]
      /\ apidata'.semaphore = d.semaphore /\ apidata'.used = d.used
      BY <1>1, <1>4 DEF Data
<1>6. thread \in [Threads -> Places] /\ place \in Places /\ place.queue = q /\ place.at = "request"
      BY <1>4 DEF IInv, Places
<1>7. thread[t].queue = None /\ None \notin Queues
      BY <1>2, <1>6, PlaceFacts
<1>8. t \notin WaitersOf(thread, q)
      BY <1>7 DEF WaitersOf
<1>9. /\ WaitersOf(thread', q) = WaitersOf(thread, q) \cup {t}
      /\ \A u \in WaitersOf(thread', q) : thread'[u] = IF u = t THEN place ELSE thread[u]
  <2>. HIDE DEF place
  <2>1. MovesTo(thread, thread', t, place)
        BY <1>1, <1>6 DEF MovesTo
  <2>2. WaitersOf(thread', q) = IF place.queue = q THEN WaitersOf(thread, q) \cup {t}
                                ELSE WaitersOf(thread, q) \ {t}
        BY <2>1, MovedWaiters
  <2>3. WaitersOf(thread', q) \subseteq Threads
        BY DEF WaitersOf
  <2>. QED  BY <1>6, <2>1, <2>2, <2>3 DEF MovesTo
<1>10. /\ Cardinality(WaitersOf(thread, q)) = g.waiting
       /\ Cardinality(WaitersOf(thread', q)) = g.waiting + 1
       /\ g.waiting + 1 <= Cardinality(Threads) /\ Cardinality(Threads) \in Nat
  <2>1. Cardinality(WaitersOf(thread, q)) = g.waiting
        BY <1>1, <1>2, CountedFacts DEF Count
  <2>2. Cardinality(WaitersOf(thread, q) \cup {t}) = Cardinality(WaitersOf(thread, q)) + 1
        BY <1>8, FiniteWaiters, FS_AddElement
  <2>3. Cardinality(WaitersOf(thread', q)) <= Cardinality(Threads) /\ Cardinality(Threads) \in Nat
        BY FiniteWaiters
  <2>. QED  BY <1>9, <2>1, <2>2, <2>3
<1>11. /\ h \in Headers /\ h.enqsem = g.enqsem /\ h.waitsem = g.waitsem
       /\ h.items = g.items /\ h.waiting = g.waiting + 1
  <2>1. g.waiting + 1 \in 0..Cardinality(Threads) /\ ProcessOf[t] \in Processes
        BY <1>4, <1>10, SessionProcesses
  <2>. QED  BY <1>4, <2>1 DEF Headers
<1>12. Rewrites(d, apidata', q, h)
  <2>1. [d.queue EXCEPT ![q] = h] \in [Queues -> Headers \cup {None}]
        BY <1>4, <1>11 DEF Data
  <2>2. apidata' \in Data
        BY <1>1, <1>4, <2>1 DEF Data
  <2>. QED  BY <1>1, <1>5, <1>11, <2>2 DEF Rewrites
<1>. HIDE DEF h
<1>13. apidata'.queue[q] = h /\ h # None
       BY <1>3, <1>11, <1>12, Rewritten, HeaderFacts
<1>14. ServesOne(apidata', thread', q)
  <2>. SUFFICES ASSUME NEW u \in WaitersOf(thread', q)
                PROVE  /\ h.enqsem = thread'[u].enqsem /\ h.waitsem = thread'[u].waitsem
                       /\ h.items <= d.semaphore[h.waitsem] + Cardinality(WokenOf(thread', q))
       BY <1>5, <1>13 DEF ServesOne
  <2>1. h.items = 0 /\ d.semaphore[h.waitsem] \in Nat /\ Cardinality(WokenOf(thread', q)) \in Nat
        BY <1>1, <1>4, <1>11, FiniteWaiters
  <2>2. CASE u = t
        BY <1>9, <1>11, <2>1, <2>2
  <2>3. CASE u # t
    <3>1. u \in WaitersOf(thread, q) /\ thread'[u] = thread[u]
          BY <1>9, <2>3
    <3>2. g.enqsem = thread[u].enqsem /\ g.waitsem = thread[u].waitsem
          BY <1>3, <3>1 DEF Serves, ServesOne
    <3>. QED  BY <1>11, <2>1, <3>1, <3>2
  <2>. QED  BY <2>2, <2>3
<1>15. \A r \in Queues \ {q} : Cardinality(WaitersOf(thread, r)) = Count(d, r)
       BY <1>2, CountedFacts
<1>16. Cardinality(WaitersOf(thread', q)) = h.waiting
       BY <1>10, <1>11
<1>. HIDE DEF place, g
<1>. QED  BY <1>1, <1>2, <1>3, <1>6, <1>7, <1>12, <1>14, <1>15, <1>16, Moved

\* A thread that waits stands at a queue that serves it.
LEMMA WaiterFacts ==
    ASSUME IInv, ~spoilt, NEW t \in Threads, thread[t].at # "idle"
    PROVE  LET q == thread[t].queue
           IN  /\ q \in Queues /\ t \in WaitersOf(thread, q)
               /\ thread[t] \in Places /\ thread[t] # Idle
               /\ thread[t].at \in {"request", "wait", "woken"}
               /\ apidata.queue[q] # None
               /\ apidata.queue[q].enqsem = thread[t].enqsem
               /\ apidata.queue[q].waitsem = thread[t].waitsem
<1>1. thread \in [Threads -> Places]
      BY DEF IInv
<1>2. /\ thread[t].queue \in Queues /\ thread[t] \in Places /\ thread[t] # Idle
      /\ thread[t].at \in {"request", "wait", "woken"}
      BY <1>1, PlaceFacts DEF Idle
<1>3. t \in WaitersOf(thread, thread[t].queue)
      BY DEF WaitersOf
<1>. QED  BY <1>2, <1>3 DEF IInv, Serves, ServesOne

\* A thread that gets a semaphore of its queue; the posts of the queue are
\* not less than they were, with those that have woken somebody.
LEMMA Locked ==
    ASSUME IInv, ~spoilt, NEW t \in Threads, NEW s, NEW from, NEW to, Lock(t, s, from, to),
           from \in {"request", "wait"}, to \in {"wait", "woken"},
           s \in Handles(apidata, thread[t].queue),
           LET q == thread[t].queue
               w == apidata.queue[q].waitsem
           IN  apidata.semaphore[w] + Cardinality(WokenOf(thread, q))
                  <= apidata'.semaphore[w] + Cardinality(WokenOf(thread', q))
    PROVE  IInv'
<1>. DEFINE q == thread[t].queue
            h == apidata.queue[q]
            w == h.waitsem
            place == [thread[t] EXCEPT !.at = to]
<1>1. /\ thread[t].at = from /\ apidata.semaphore[s] > 0
      /\ apidata' = [apidata EXCEPT !.semaphore[s] = @ - 1]
      /\ thread' = [thread EXCEPT ![t].at = to]
      /\ UNCHANGED <<running, spoilt>>
      BY DEF Lock
<1>2. thread[t].at # "idle"
      BY <1>1
<1>3. /\ Sound(apidata) /\ Serves(apidata, thread) /\ Counted(apidata, thread)
      /\ thread \in [Threads -> Places]
      BY DEF IInv
<1>4. /\ q \in Queues /\ thread[t] \in Places /\ thread[t] # Idle /\ h # None
      /\ h.enqsem = thread[t].enqsem /\ w = thread[t].waitsem
      BY <1>2, WaiterFacts
<1>5. /\ apidata \in Data /\ apidata.semaphore \in [Semaphores -> Nat]
      /\ apidata.queue \in [Queues -> Headers \cup {None}]
      /\ h \in Headers /\ w \in Semaphores /\ s \in Semaphores
  <2>1. Handles(apidata, q) \subseteq apidata.used
        BY <1>3, <1>4 DEF Sound
  <2>. QED  BY <1>3, <1>4, <2>1, SoundFacts, HeaderFacts
<1>6. /\ apidata'.queue = apidata.queue /\ apidata'.used = apidata.used
      /\ apidata'.semaphore = [apidata.semaphore EXCEPT ![s] = @ - 1]
      /\ apidata' \in Data
  <2>1. apidata.semaphore[s] - 1 \in Nat
        BY <1>1, <1>5
  <2>2. [apidata.semaphore EXCEPT ![s] = @ - 1] \in [Semaphores -> Nat]
        BY <1>5, <2>1
  <2>. QED  BY <1>1, <1>5, <2>2 DEF Data
<1>7. Rewrites(apidata, apidata', q, h)
  <2>1. apidata'.queue = [apidata.queue EXCEPT ![q] = h]
        BY <1>5, <1>6
  <2>2. \A x \in Semaphores \ Handles(apidata, q) : apidata'.semaphore[x] = apidata.semaphore[x]
        BY <1>5, <1>6
  <2>. QED  BY <1>4, <1>5, <1>6, <2>1, <2>2 DEF Rewrites
<1>8. /\ place \in Places /\ place.queue = q /\ place.at = to
      /\ place.enqsem = thread[t].enqsem /\ place.waitsem = thread[t].waitsem
      /\ thread' = [thread EXCEPT ![t] = place]
      BY <1>1, <1>3, <1>4 DEF Places
<1>. HIDE DEF place
<1>9. MovesTo(thread, thread', t, place)
      BY <1>3, <1>8 DEF MovesTo
<1>10. WaitersOf(thread', q) = WaitersOf(thread, q)
  <2>1. \A u \in Threads : thread'[u].queue = thread[u].queue
        BY <1>8, <1>9 DEF MovesTo
  <2>. QED  BY <2>1 DEF WaitersOf
<1>11. ServesOne(apidata', thread', q)
  <2>. SUFFICES ASSUME NEW u \in WaitersOf(thread', q)
                PROVE  /\ h.enqsem = thread'[u].enqsem /\ w = thread'[u].waitsem
                       /\ h.items <= apidata'.semaphore[w] + Cardinality(WokenOf(thread', q))
       BY <1>4, <1>6 DEF ServesOne
  <2>1. u \in WaitersOf(thread, q) /\ u \in Threads
        BY <1>10 DEF WaitersOf
  <2>2. /\ h.enqsem = thread[u].enqsem /\ w = thread[u].waitsem
        /\ h.items <= apidata.semaphore[w] + Cardinality(WokenOf(thread, q))
        BY <1>3, <1>4, <2>1 DEF Serves, ServesOne
  <2>3. h.enqsem = thread'[u].enqsem /\ w = thread'[u].waitsem
        BY <1>8, <1>9, <2>1, <2>2 DEF MovesTo
  <2>4. h.items <= apidata'.semaphore[w] + Cardinality(WokenOf(thread', q))
    <3>1. h.items \in Nat /\ apidata.semaphore[w] \in Nat /\ apidata'.semaphore[w] \in Nat
          BY <1>5, <1>6, HeaderFacts DEF Data
    <3>2. Cardinality(WokenOf(thread, q)) \in Nat /\ Cardinality(WokenOf(thread', q)) \in Nat
          BY FiniteWaiters
    <3>3. apidata.semaphore[w] + Cardinality(WokenOf(thread, q))
             <= apidata'.semaphore[w] + Cardinality(WokenOf(thread', q))
          OBVIOUS
    <3>. QED  BY <2>2, <3>1, <3>2, <3>3
  <2>. QED  BY <2>3, <2>4
<1>12. \A r \in Queues : Cardinality(WaitersOf(thread, r)) = Count(apidata, r)
       BY <1>3, CountedFacts
<1>13. \A r \in Queues \ {q} : Cardinality(WaitersOf(thread, r)) = Count(apidata, r)
       BY <1>12
<1>14. Cardinality(WaitersOf(thread', q)) = h.waiting
       BY <1>4, <1>10, <1>12 DEF Count
<1>15. thread[t].queue \in {q, None} /\ place.queue \in {q, None}
       BY <1>8
<1>16. thread' = [thread EXCEPT ![t] = place] /\ place \in Places
       BY <1>8
<1>17. q \in Queues /\ Sound(apidata) /\ Serves(apidata, thread) /\ UNCHANGED <<running, spoilt>>
       BY <1>1, <1>3, <1>4
<1>. HIDE DEF h, q
<1>. QED  BY <1>7, <1>11, <1>13, <1>14, <1>15, <1>16, <1>17, Moved

\* t owns the mutex; the event, and those it has woken, are as before.
LEMMA StepRequestMutexSem ==
    ASSUME IInv, ~spoilt, NEW t \in Threads, RequestMutexSem(t)
    PROVE  IInv'
<1>. DEFINE q == thread[t].queue
            s == thread[t].enqsem
            w == apidata.queue[q].waitsem
<1>1. Lock(t, s, "request", "wait")
      BY DEF RequestMutexSem
<1>2. /\ thread[t].at = "request"
      /\ apidata' = [apidata EXCEPT !.semaphore[s] = @ - 1]
      /\ thread' = [thread EXCEPT ![t].at = "wait"]
      BY <1>1 DEF Lock
<1>3. Sound(apidata) /\ thread \in [Threads -> Places]
      BY DEF IInv
<1>4. q \in Queues /\ apidata.queue[q] # None /\ apidata.queue[q].enqsem = s
      BY <1>2, WaiterFacts
<1>5. s \in Handles(apidata, q) /\ w # s /\ w \in Semaphores
      BY <1>3, <1>4, SoundFacts DEF Handles
<1>6. apidata'.semaphore[w] = apidata.semaphore[w] /\ apidata.semaphore[w] \in Nat
      BY <1>2, <1>3, <1>5, SoundFacts DEF Data
<1>7. WokenOf(thread', q) = WokenOf(thread, q)
  <2>1. \A u \in Threads : /\ thread'[u].queue = thread[u].queue
                           /\ thread'[u].at = "woken" <=> thread[u].at = "woken"
    <3>1. thread[t] \in Places /\ thread[t] # Idle
          BY <1>2, WaiterFacts
    <3>2. [thread[t] EXCEPT !.at = "wait"].queue = q /\ [thread[t] EXCEPT !.at = "wait"].at = "wait"
          BY <3>1 DEF Places
    <3>. QED  BY <1>2, <1>3, <3>2
  <2>. QED  BY <2>1 DEF WokenOf, WaitersOf
<1>8. apidata.semaphore[w] + Cardinality(WokenOf(thread, q))
         <= apidata'.semaphore[w] + Cardinality(WokenOf(thread', q))
      BY <1>6, <1>7, FiniteWaiters
<1>. QED  BY <1>1, <1>5, <1>8, Locked

\* t has used a post, and is one more that was woken.
LEMMA StepWaitEventSem ==
    ASSUME IInv, ~spoilt, NEW t \in Threads, WaitEventSem(t)
    PROVE  IInv'
<1>. DEFINE q == thread[t].queue
            w == thread[t].waitsem
<1>1. Lock(t, w, "wait", "woken")
      BY DEF WaitEventSem
<1>2. /\ thread[t].at = "wait" /\ apidata.semaphore[w] > 0
      /\ apidata' = [apidata EXCEPT !.semaphore[w] = @ - 1]
      /\ thread' = [thread EXCEPT ![t].at = "woken"]
      BY <1>1 DEF Lock
<1>3. Sound(apidata) /\ thread \in [Threads -> Places]
      BY DEF IInv
<1>4. q \in Queues /\ apidata.queue[q] # None /\ apidata.queue[q].waitsem = w
      BY <1>2, WaiterFacts
<1>5. w \in Handles(apidata, q) /\ w \in Semaphores
      BY <1>3, <1>4, SoundFacts DEF Handles
<1>6. apidata'.semaphore[w] = apidata.semaphore[w] - 1 /\ apidata.semaphore[w] \in Nat
      BY <1>2, <1>3, <1>5, SoundFacts DEF Data
<1>7. WokenOf(thread', q) = WokenOf(thread, q) \cup {t} /\ t \notin WokenOf(thread, q)
  <2>1. \A u \in Threads : /\ thread'[u].queue = thread[u].queue
                           /\ thread'[u].at = "woken" <=> thread[u].at = "woken" \/ u = t
    <3>1. thread[t] \in Places /\ thread[t] # Idle
          BY <1>2, WaiterFacts
    <3>2. [thread[t] EXCEPT !.at = "woken"].queue = q /\ [thread[t] EXCEPT !.at = "woken"].at = "woken"
          BY <3>1 DEF Places
    <3>. QED  BY <1>2, <1>3, <3>2
  <2>. QED  BY <1>2, <2>1 DEF WokenOf, WaitersOf
<1>8. Cardinality(WokenOf(thread', q)) = Cardinality(WokenOf(thread, q)) + 1
      BY <1>7, FiniteWaiters, FS_AddElement
<1>9. apidata.semaphore[w] + Cardinality(WokenOf(thread, q))
         <= apidata'.semaphore[w] + Cardinality(WokenOf(thread', q))
      BY <1>6, <1>8, FiniteWaiters
<1>. QED  BY <1>1, <1>4, <1>5, <1>9, Locked

\* t has taken a line for its post, or finds that somebody else has, and it
\* waits again; in both cases it gives back the mutex.
LEMMA StepPullReturns ==
    ASSUME IInv, ~spoilt, NEW t \in Threads, PullReturns(t)
    PROVE  IInv'
<1>. DEFINE d == SessionFound
            q == thread[t].queue
            g == d.queue[q]
            m == g.enqsem
            sems == [d.semaphore EXCEPT ![m] = @ + 1]
            released == [d EXCEPT !.semaphore[m] = @ + 1]
            done == [g EXCEPT !.items = @ - 1, !.waiting = @ - 1]
            again == [g EXCEPT !.waitprocess = ProcessOf[t]]
            place == [at |-> "request", queue |-> q, enqsem |-> m, waitsem |-> g.waitsem]
<1>1. /\ thread[t].at = "woken" /\ Counted(d, thread) /\ g # None
      /\ UNCHANGED <<running, spoilt>>
      BY DEF PullReturns
<1>2. \/ /\ g.items > 0
         /\ apidata' = [released EXCEPT !.queue[q].items = @ - 1, !.queue[q].waiting = @ - 1]
         /\ thread' = [thread EXCEPT ![t] = Idle]
      \/ /\ g.items = 0
         /\ apidata' = [released EXCEPT !.queue[q].waitprocess = ProcessOf[t]]
         /\ thread' = [thread EXCEPT ![t] = place]
      BY DEF PullReturns, Registers
<1>3. Sound(d) /\ Serves(d, thread) /\ thread \in [Threads -> Places]
      BY <1>1, Found DEF IInv
<1>4. q \in Queues /\ t \in WaitersOf(thread, q) /\ t \in WokenOf(thread, q)
      BY <1>1, WaiterFacts DEF WokenOf
<1>. HIDE DEF d
<1>5. /\ d \in Data /\ d.semaphore \in [Semaphores -> Nat] /\ d.queue \in [Queues -> Headers \cup {None}]
      /\ g \in Headers /\ g.waitsem \in Semaphores /\ m \in Semaphores /\ m # g.waitsem
      /\ g.waiting \in Nat /\ g.items \in Nat /\ g.items <= MaxItems
      /\ g.waiting <= Cardinality(Threads)
      BY <1>1, <1>3, <1>4, SoundFacts, HeaderFacts
<1>6. released \in Data /\ released.queue = d.queue /\ released.used = d.used
      /\ released.semaphore = sems /\ sems \in [Semaphores -> Nat]
      /\ sems[g.waitsem] = d.semaphore[g.waitsem]
      /\ \A s \in Semaphores \ {m} : sems[s] = d.semaphore[s]
  <2>1. sems \in [Semaphores -> Nat]
        BY <1>5
  <2>. QED  BY <1>5, <2>1 DEF Data
<1>. HIDE DEF released, sems
<1>7. \A s \in Semaphores \ Handles(d, q) : sems[s] = d.semaphore[s]
      BY <1>1, <1>6 DEF Handles
<1>8. /\ \A r \in Queues : Cardinality(WaitersOf(thread, r)) = Count(d, r)
      /\ \A r \in Queues \ {q} : Cardinality(WaitersOf(thread, r)) = Count(d, r)
      /\ Cardinality(WaitersOf(thread, q)) = g.waiting
  <2>1. \A r \in Queues : Cardinality(WaitersOf(thread, r)) = Count(d, r)
        BY <1>1, CountedFacts
  <2>. QED  BY <1>1, <1>4, <2>1 DEF Count
<1>9. \A u \in WaitersOf(thread, q) : g.enqsem = thread[u].enqsem /\ g.waitsem = thread[u].waitsem
      BY <1>3, <1>4 DEF Serves, ServesOne
<1>10. g.items <= d.semaphore[g.waitsem] + Cardinality(WokenOf(thread, q))
       BY <1>3, <1>4 DEF Serves, ServesOne
<1>11. Idle \in Places /\ Idle.queue = None /\ None \notin Queues
       BY SessionNone DEF Places, Idle
<1>12. CASE /\ g.items > 0
            /\ apidata' = [released EXCEPT !.queue[q].items = @ - 1, !.queue[q].waiting = @ - 1]
            /\ thread' = [thread EXCEPT ![t] = Idle]
  <2>1. MovesTo(thread, thread', t, Idle)
        BY <1>3, <1>12 DEF MovesTo
  <2>2. WaitersOf(thread', q) = WaitersOf(thread, q) \ {t}
        BY <1>4, <1>11, <2>1, MovedWaiters
  <2>3. WokenOf(thread', q) = WokenOf(thread, q) \ {t}
        BY <1>4, <1>11, <2>1, MovedWaiters
  <2>4. /\ Cardinality(WaitersOf(thread', q)) = g.waiting - 1 /\ g.waiting - 1 \in Nat
        /\ Cardinality(WokenOf(thread', q)) = Cardinality(WokenOf(thread, q)) - 1
    <3>1. Cardinality(WaitersOf(thread, q) \ {t}) = Cardinality(WaitersOf(thread, q)) - 1
          BY <1>4, FiniteWaiters, FS_RemoveElement
    <3>2. Cardinality(WokenOf(thread, q) \ {t}) = Cardinality(WokenOf(thread, q)) - 1
          BY <1>4, FiniteWaiters, FS_RemoveElement
    <3>3. Cardinality(WaitersOf(thread', q)) \in Nat
          BY FiniteWaiters
    <3>. QED  BY <1>8, <2>2, <2>3, <3>1, <3>2, <3>3
  <2>5. /\ done \in Headers /\ done.enqsem = m /\ done.waitsem = g.waitsem
        /\ done.items = g.items - 1 /\ done.waiting = g.waiting - 1
    <3>1. Cardinality(Threads) \in Nat /\ MaxItems \in Nat
          BY FiniteWaiters, SessionBounds
    <3>2. /\ g.items \in Nat /\ g.items <= MaxItems /\ g.items > 0
          /\ g.waiting - 1 \in Nat /\ g.waiting \in Nat /\ g.waiting <= Cardinality(Threads)
          BY <1>5, <1>12, <2>4
    <3>. HIDE DEF g
    <3>3. g.items - 1 \in 0..MaxItems /\ g.waiting - 1 \in 0..Cardinality(Threads)
          BY <3>1, <3>2
    <3>. USE DEF g
    <3>. QED  BY <1>5, <3>3 DEF Headers
  <2>6. apidata'.queue = [d.queue EXCEPT ![q] = done]
        BY <1>5, <1>6, <1>12 DEF Data
  <2>7. apidata'.semaphore = sems /\ apidata'.used = d.used
        BY <1>6, <1>12 DEF Data
  <2>8. apidata' \in Data
    <3>1. [d.queue EXCEPT ![q] = done] \in [Queues -> Headers \cup {None}]
          BY <1>5, <2>5
    <3>. QED  BY <1>6, <1>12, <2>6, <3>1 DEF Data
  <2>. HIDE DEF done
  <2>9. Rewrites(d, apidata', q, done)
        BY <1>1, <1>7, <2>5, <2>6, <2>7, <2>8 DEF Rewrites
  <2>10. apidata'.queue[q] = done /\ done # None
         BY <1>4, <1>5, <2>5, <2>6, HeaderFacts
  <2>11. ServesOne(apidata', thread', q)
    <3>. SUFFICES ASSUME NEW u \in WaitersOf(thread', q)
                  PROVE  /\ done.enqsem = thread'[u].enqsem /\ done.waitsem = thread'[u].waitsem
                         /\ done.items <= sems[done.waitsem] + Cardinality(WokenOf(thread', q))
         BY <2>7, <2>10 DEF ServesOne
    <3>1. u \in WaitersOf(thread, q) /\ u # t /\ u \in Threads
          BY <2>2 DEF WaitersOf
    <3>2. thread'[u] = thread[u]
          BY <2>1, <3>1 DEF MovesTo
    <3>3. g.items - 1 <= d.semaphore[g.waitsem] + (Cardinality(WokenOf(thread, q)) - 1)
          BY <1>5, <1>10, FiniteWaiters
    <3>. QED  BY <1>6, <1>9, <2>4, <2>5, <3>1, <3>2, <3>3
  <2>12. /\ Cardinality(WaitersOf(thread', q)) = done.waiting
         /\ thread[t].queue \in {q, None} /\ Idle.queue \in {q, None}
         BY <1>11, <2>4, <2>5
  <2>13. thread' = [thread EXCEPT ![t] = Idle] /\ \A r \in Queues \ {q} : Cardinality(WaitersOf(thread, r)) = Count(d, r)
         BY <1>8, <1>12
  <2>. HIDE DEF q
  <2>. QED  BY <1>1, <1>3, <1>4, <1>11, <2>9, <2>11, <2>12, <2>13, Moved
<1>13. CASE /\ g.items = 0
            /\ apidata' = [released EXCEPT !.queue[q].waitprocess = ProcessOf[t]]
            /\ thread' = [thread EXCEPT ![t] = place]
  <2>1. /\ place \in Places /\ place.queue = q
        /\ place.enqsem = m /\ place.waitsem = g.waitsem
        BY <1>4, <1>5 DEF Places
  <2>. HIDE DEF place
  <2>2. MovesTo(thread, thread', t, place)
        BY <1>3, <1>13 DEF MovesTo
  <2>3. WaitersOf(thread', q) = WaitersOf(thread, q)
    <3>1. WaitersOf(thread', q) = WaitersOf(thread, q) \cup {t}
          BY <2>1, <2>2, MovedWaiters
    <3>. QED  BY <1>4, <3>1
  <2>5. /\ again \in Headers /\ again.enqsem = m /\ again.waitsem = g.waitsem
        /\ again.items = 0 /\ again.waiting = g.waiting
    <3>1. ProcessOf[t] \in Processes
          BY SessionProcesses
    <3>. QED  BY <1>5, <1>13, <3>1 DEF Headers
  <2>6. apidata'.queue = [d.queue EXCEPT ![q] = again]
        BY <1>5, <1>6, <1>13 DEF Data
  <2>7. apidata'.semaphore = sems /\ apidata'.used = d.used
        BY <1>6, <1>13 DEF Data
  <2>8. apidata' \in Data
    <3>1. [d.queue EXCEPT ![q] = again] \in [Queues -> Headers \cup {None}]
          BY <1>5, <2>5
    <3>. QED  BY <1>6, <1>13, <2>6, <3>1 DEF Data
  <2>. HIDE DEF again
  <2>9. Rewrites(d, apidata', q, again)
        BY <1>1, <1>7, <2>5, <2>6, <2>7, <2>8 DEF Rewrites
  <2>10. apidata'.queue[q] = again /\ again # None
         BY <1>4, <1>5, <2>5, <2>6, HeaderFacts
  <2>11. ServesOne(apidata', thread', q)
    <3>. SUFFICES ASSUME NEW u \in WaitersOf(thread', q)
                  PROVE  /\ again.enqsem = thread'[u].enqsem /\ again.waitsem = thread'[u].waitsem
                         /\ again.items <= sems[again.waitsem] + Cardinality(WokenOf(thread', q))
         BY <2>7, <2>10 DEF ServesOne
    <3>1. u \in WaitersOf(thread, q) /\ u \in Threads
          BY <2>3 DEF WaitersOf
    <3>2. thread'[u] = IF u = t THEN place ELSE thread[u]
          BY <2>2, <3>1 DEF MovesTo
    <3>3. sems[g.waitsem] \in Nat /\ Cardinality(WokenOf(thread', q)) \in Nat
          BY <1>5, <1>6, FiniteWaiters
    <3>. QED  BY <1>9, <2>1, <2>5, <3>1, <3>2, <3>3
  <2>12. /\ Cardinality(WaitersOf(thread', q)) = again.waiting
         /\ thread[t].queue \in {q, None} /\ place.queue \in {q, None}
         BY <1>8, <2>1, <2>3, <2>5
  <2>13. thread' = [thread EXCEPT ![t] = place] /\ \A r \in Queues \ {q} : Cardinality(WaitersOf(thread, r)) = Count(d, r)
         BY <1>8, <1>13
  <2>. HIDE DEF q
  <2>. QED  BY <1>1, <1>3, <1>4, <2>1, <2>9, <2>11, <2>12, <2>13, Moved
<1>. QED  BY <1>2, <1>12, <1>13

-----------------------------------------------------------------------------
(* Processes that end.                                                     *)

\* A function that takes away a queue somebody waits for ends the promise,
\* and the memory is sound.
LEMMA StepSessionTaken ==
    ASSUME IInv, NEW t \in Threads, SessionTaken(t)
    PROVE  IInv'
<1>1. apidata' = SessionFound /\ spoilt' = TRUE /\ UNCHANGED <<thread, running>>
      BY DEF SessionTaken
<1>2. Sound(SessionFound)
      BY SessionFoundSound DEF IInv
<1>3. Sound(apidata')
      BY <1>1, <1>2
<1>. QED  BY <1>1, <1>3 DEF IInv

\* Queue_Detach, after the session queue was looked for.
LEMMA DetachedSound ==
    ASSUME Sound(apidata), NEW p
    PROVE  LET e == Detached(SessionFound, p)
           IN  Sound(e) /\ Tidied(apidata, e)
<1>. DEFINE q == "SESSION"
            d == SessionFound
            f == Freed(d, q)
            e == WithoutWaiter(f, p)
<1>1. q \in Queues /\ Sound(d) /\ Tidied(apidata, d) /\ d.queue[q] # None
      BY SessionFoundSound DEF Queues
<1>. HIDE DEF d
<1>2. Sound(f) /\ Tidied(d, f)
      BY <1>1, FreedSound
<1>. HIDE DEF f
<1>3. Sound(e) /\ Tidied(f, e)
      BY <1>2, WithoutWaiterSound
<1>. HIDE DEF e
<1>4. Tidied(d, e)
      BY <1>1, <1>2, <1>3, TidiedTwice
<1>5. Tidied(apidata, e)
      BY <1>1, <1>3, <1>4, TidiedTwice
<1>. QED  BY <1>3, <1>5 DEF Detached, d, f, e

\* Where the threads of a process are after it has ended.
LEMMA WithoutThreadsFacts ==
    ASSUME NEW p, thread \in [Threads -> Places]
    PROVE  /\ WithoutThreads(p) \in [Threads -> Places]
           /\ \A t \in Threads : WithoutThreads(p)[t] = IF ProcessOf[t] = p THEN Idle ELSE thread[t]
BY DEF WithoutThreads, Places

\* If nothing is spoilt, those who still wait are counted and no thread of p
\* had taken a post.
LEMMA StepExit ==
    ASSUME IInv, ~spoilt, NEW p \in Processes, Exit(p)
    PROVE  IInv'
<1>1. /\ running' = running \ {p} /\ apidata' = Detached(SessionFound, p)
      /\ thread' = WithoutThreads(p)
      /\ spoilt' = (~Counted(apidata', thread') \/ TookPost(p))
      BY DEF Exit
<1>2. /\ Sound(apidata) /\ Serves(apidata, thread) /\ thread \in [Threads -> Places]
      /\ running \subseteq Processes
      BY DEF IInv
<1>3. Sound(apidata') /\ Tidied(apidata, apidata')
      BY <1>1, <1>2, DetachedSound
<1>4. /\ thread' \in [Threads -> Places]
      /\ \A t \in Threads : thread'[t] = IF ProcessOf[t] = p THEN Idle ELSE thread[t]
      BY <1>1, <1>2, WithoutThreadsFacts
<1>5. ASSUME ~spoilt'
      PROVE  Counted(apidata', thread') /\ Serves(apidata', thread')
  <2>1. Counted(apidata', thread') /\ ~TookPost(p)
        BY <1>1, <1>5
  <2>2. \A t \in Threads : thread'[t] = thread[t] \/ (thread'[t] = Idle /\ thread[t].at # "woken")
        BY <1>4, <2>1 DEF TookPost
  <2>. QED  BY <1>2, <1>3, <1>4, <2>1, <2>2, StillServed
<1>6. spoilt' \in BOOLEAN /\ running' \subseteq Processes
      BY <1>1, <1>2
<1>. QED  BY <1>3, <1>4, <1>5, <1>6 DEF IInv

\* The same, and every thread is where it was.
LEMMA StepInterrupt ==
    ASSUME IInv, ~spoilt, NEW p \in Processes, Interrupt(p)
    PROVE  IInv'
<1>1. /\ apidata' = Detached(SessionFound, p) /\ UNCHANGED <<thread, running>>
      /\ spoilt' = ~Counted(apidata', thread)
      BY DEF Interrupt
<1>2. /\ Sound(apidata) /\ Serves(apidata, thread) /\ thread \in [Threads -> Places]
      /\ running \subseteq Processes
      BY DEF IInv
<1>3. Sound(apidata') /\ Tidied(apidata, apidata')
      BY <1>1, <1>2, DetachedSound
<1>4. ASSUME ~spoilt'
      PROVE  Counted(apidata', thread) /\ Serves(apidata', thread)
  <2>1. Counted(apidata', thread)
        BY <1>1, <1>4
  <2>. QED  BY <1>2, <1>3, <2>1, StillServed
<1>. QED  BY <1>1, <1>2, <1>3, <1>4 DEF IInv

\* The memory is as it was, and if it still counts right then no thread of p
\* was waiting.
LEMMA StepKill ==
    ASSUME IInv, ~spoilt, NEW p \in Processes, Kill(p)
    PROVE  IInv'
<1>1. /\ running' = running \ {p} /\ thread' = WithoutThreads(p) /\ apidata' = apidata
      /\ spoilt' = ~Counted(apidata, thread')
      BY DEF Kill
<1>2. /\ Sound(apidata) /\ Serves(apidata, thread) /\ Counted(apidata, thread)
      /\ thread \in [Threads -> Places] /\ running \subseteq Processes
      BY DEF IInv
<1>3. /\ thread' \in [Threads -> Places]
      /\ \A t \in Threads : thread'[t] = IF ProcessOf[t] = p THEN Idle ELSE thread[t]
      BY <1>1, <1>2, WithoutThreadsFacts
<1>4. ASSUME ~spoilt'
      PROVE  Counted(apidata, thread') /\ Serves(apidata, thread')
  <2>1. Counted(apidata, thread')
        BY <1>1, <1>4
  <2>2. \A q \in Queues : Cardinality(WaitersOf(thread', q)) = Cardinality(WaitersOf(thread, q))
        BY <1>2, <2>1, CountedFacts
  <2>3. \A q \in Queues : WaitersOf(thread', q) \in SUBSET WaitersOf(thread, q)
        BY <1>3, SessionNone DEF WaitersOf, Idle
  <2>4. \A q \in Queues : WaitersOf(thread', q) = WaitersOf(thread, q)
    <3>. SUFFICES ASSUME NEW q \in Queues PROVE WaitersOf(thread', q) = WaitersOf(thread, q)
         OBVIOUS
    <3>1. IsFiniteSet(WaitersOf(thread, q)) /\ WaitersOf(thread', q) \in SUBSET WaitersOf(thread, q)
          BY <2>3, FiniteWaiters
    <3>. QED  BY <2>2, <3>1, FS_Subset
  <2>5. \A t \in Threads : thread'[t] = thread[t] \/ (thread'[t] = Idle /\ thread[t].at # "woken")
    <3>. SUFFICES ASSUME NEW t \in Threads, ProcessOf[t] = p, thread[t].at = "woken" PROVE FALSE
         BY <1>3
    <3>1. thread[t].queue \in Queues /\ None \notin Queues /\ thread'[t] = Idle
          BY <1>2, <1>3, PlaceFacts DEF Idle
    <3>2. t \in WaitersOf(thread, thread[t].queue) /\ t \notin WaitersOf(thread', thread[t].queue)
          BY <3>1 DEF WaitersOf, Idle
    <3>. QED  BY <2>4, <3>1, <3>2
  <2>6. Tidied(apidata, apidata)
        BY <1>2, SoundFacts DEF Tidied, SameQueue
  <2>. QED  BY <1>2, <1>3, <2>1, <2>5, <2>6, StillServed
<1>5. spoilt' \in BOOLEAN /\ running' \subseteq Processes
      BY <1>1, <1>2
<1>. QED  BY <1>1, <1>2, <1>3, <1>4, <1>5 DEF IInv

-----------------------------------------------------------------------------
(* The theorems.                                                           *)

\* No queue, every semaphore as new, nobody waits.
LEMMA InitIInv == Init => IInv
<1>. SUFFICES ASSUME Init PROVE IInv
     OBVIOUS
<1>1. /\ apidata = [queue |-> [q \in Queues |-> None],
                    semaphore |-> [s \in Semaphores |-> 1], used |-> {}]
      /\ thread = [t \in Threads |-> Idle] /\ running = Processes /\ spoilt = FALSE
      BY DEF Init
<1>2. apidata \in Data
      BY <1>1 DEF Data
<1>3. Sound(apidata)
      BY <1>1, <1>2 DEF Sound, Handles
<1>4. thread \in [Threads -> Places]
      BY <1>1 DEF Places
<1>5. \A q \in Queues : WaitersOf(thread, q) = {}
      BY <1>1, SessionNone DEF WaitersOf, Idle
<1>6. Serves(apidata, thread)
      BY <1>5 DEF Serves, ServesOne
<1>7. \A q \in Queues : Count(apidata, q) = 0
      BY <1>1 DEF Count
<1>8. Counted(apidata, thread)
      BY <1>5, <1>7, CountedFacts, FS_EmptySet
<1>. QED  BY <1>1, <1>3, <1>4, <1>6, <1>8 DEF IInv

\* Every function, and every end of a process, keeps the invariant.
LEMMA NextIInv == IInv /\ [Next]_vars => IInv'
<1>. SUFFICES ASSUME IInv, [Next]_vars PROVE IInv'
     OBVIOUS
<1>1. CASE UNCHANGED vars
      BY <1>1 DEF vars, IInv
<1>2. CASE Next
  <2>1. ~spoilt
        BY <1>2 DEF Next
  <2>2. ASSUME NEW t \in Threads, NEW q \in Named, CreateQueue(t, q) \/ DeleteQueue(t, q)
        PROVE  IInv'
        BY <2>1, <2>2, StepCreateQueue, StepDeleteQueue
  <2>3. ASSUME NEW t \in Threads, NEW q \in Queues,
               AddQueue(t, q) \/ PullQueue(t, q) \/ PullWaits(t, q)
        PROVE  IInv'
        BY <2>1, <2>3, StepAddQueue, StepPullQueue, StepPullWaits
  <2>4. ASSUME NEW t \in Threads, Pulling(t) \/ SessionTaken(t)
        PROVE  IInv'
        BY <2>1, <2>4, StepRequestMutexSem, StepWaitEventSem, StepPullReturns, StepSessionTaken
           DEF Pulling
  <2>5. ASSUME NEW p \in Processes, Exit(p) \/ Interrupt(p) \/ Kill(p)
        PROVE  IInv'
        BY <2>1, <2>5, StepExit, StepInterrupt, StepKill
  <2>. QED  BY <1>2, <2>2, <2>3, <2>4, <2>5 DEF Next
<1>. QED  BY <1>1, <1>2

\* In every behaviour the shared memory is sound, and until the end of a
\* process spoils a count every waiter is counted and served.
THEOREM Invariance == Spec => []IInv
BY InitIInv, NextIInv, PTL DEF Spec

\* The two semaphores of a header.
LEMMA PairFacts ==
    ASSUME NEW x, NEW y, x # y
    PROVE  Cardinality({x, y}) = 2
<1>1. IsFiniteSet({x}) /\ Cardinality({x}) = 1
      BY FS_Singleton
<1>2. Cardinality({x} \cup {y}) = Cardinality({x}) + 1
      BY <1>1, FS_AddElement
<1>3. {x} \cup {y} = {x, y}
      OBVIOUS
<1>. QED  BY <1>1, <1>2, <1>3

\* Whatever is created, deleted, detached or found as garbage, no semaphore
\* is given to two queues or lost, and a free one is as it was created.
THEOREM TypeCorrect == Spec => []TypeOK
<1>1. IInv => TypeOK
  <2>. SUFFICES ASSUME IInv PROVE TypeOK
       OBVIOUS
  <2>1. /\ Sound(apidata) /\ thread \in [Threads -> Places]
        /\ running \subseteq Processes /\ spoilt \in BOOLEAN
        BY DEF IInv
  <2>2. apidata \in [queue : [Queues -> Headers \cup {None}],
                     semaphore : [Semaphores -> Nat], used : SUBSET Semaphores]
        BY <2>1 DEF Sound, Data
  <2>3. ASSUME NEW q \in Queues, apidata.queue[q] # None
        PROVE  Cardinality(Handles(apidata, q)) = 2
    <3>1. apidata.queue[q].enqsem # apidata.queue[q].waitsem
          BY <2>1, <2>3 DEF Sound
    <3>2. Cardinality({apidata.queue[q].enqsem, apidata.queue[q].waitsem}) = 2
          BY <3>1, PairFacts, Zenon
    <3>. QED  BY <2>3, <3>2 DEF Handles
  <2>4. /\ apidata.used = UNION {Handles(apidata, q) : q \in Queues}
        /\ \A p, q \in Queues : p # q => Handles(apidata, p) \cap Handles(apidata, q) = {}
        /\ \A s \in Semaphores \ apidata.used : apidata.semaphore[s] = 1
        BY <2>1 DEF Sound
  <2>5. \A t \in Threads : \/ thread[t] = Idle
                           \/ thread[t] \in [at : {"request", "wait", "woken"}, queue : Queues,
                                             enqsem : Semaphores, waitsem : Semaphores]
        BY <2>1 DEF Places
  <2>. QED  BY <2>1, <2>2, <2>3, <2>4, <2>5 DEF TypeOK
<1>. QED  BY <1>1, Invariance, PTL

\* A thread in RexxPullQueue never comes back to a queue that is gone or has
\* other semaphores than it noted, unless a process spoilt a count.
THEOREM QueueKept == Spec => []WaitersKeepTheirQueue
<1>1. IInv => WaitersKeepTheirQueue
  <2>. SUFFICES ASSUME IInv, ~spoilt, NEW t \in Threads, thread[t].at # "idle"
                PROVE  /\ apidata.queue[thread[t].queue] # None
                       /\ apidata.queue[thread[t].queue].enqsem = thread[t].enqsem
                       /\ apidata.queue[thread[t].queue].waitsem = thread[t].waitsem
       BY DEF WaitersKeepTheirQueue
  <2>. QED  BY WaiterFacts
<1>. QED  BY <1>1, Invariance, PTL

\* While somebody waits, every line was announced by a post that is still
\* there or has woken somebody, for queues and waiters of any number.
THEOREM Posted == Spec => []LinesArePosted
<1>1. IInv => LinesArePosted
  <2>. SUFFICES ASSUME IInv, ~spoilt, NEW q \in Queues, NEW t \in Waiters(q)
                PROVE  apidata.queue[q].items
                          <= apidata.semaphore[apidata.queue[q].waitsem] + Cardinality(Woken(q))
       BY DEF LinesArePosted
  <2>1. t \in WaitersOf(thread, q) /\ Woken(q) = WokenOf(thread, q)
        BY DEF Waiters, Woken, WaitersOf, WokenOf
  <2>. QED  BY <2>1 DEF IInv, Serves, ServesOne
<1>. QED  BY <1>1, Invariance, PTL

=============================================================================
