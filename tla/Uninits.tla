------------------------------- MODULE Uninits -------------------------------
(***************************************************************************)
(* UNINIT: objects with an UNINIT method are registered in a table when    *)
(* they are made.  A garbage collection marks those that have died, and    *)
(* keeps them.  A pass over the table sends each of them UNINIT and takes  *)
(* it off the table.  When the last activity ends every object that is     *)
(* still registered is sent UNINIT.                                        *)
(*                                                                         *)
(* One process.  The kernel may be given up only in an UNINIT method; then *)
(* the rest of the program, and the method itself, may make objects, store *)
(* and drop them, and collections may happen.  A pass may also begin in an *)
(* UNINIT of the last one, since that comes from another function.         *)
(***************************************************************************)
EXTENDS HashTable

CONSTANTS
    Capacity,    \* entries a new table is made for
    MaxCreated   \* bound: objects made

ASSUME UninitDistinct == None \notin {".nil", ".true", ".false"}
ASSUME UninitBounds == Capacity \in Nat /\ MaxCreated \in Nat

VARIABLES
    allocated,          \* the objects in memory
    held,               \* those that variables of the program refer to
    refers,             \* the object that the variables of an object refer to
    uninitTable,        \* the table of the process, NoTable if there is none
    processingUninits,  \* the recursion flag
    pendingUninits,     \* whether there are any
    pass,               \* runUninits in progress: its position and its zombie
    last,               \* checkUninits: the objects of its table by position, where it is, its zombie
    created,            \* how many objects were made
    owed,               \* registered, and UNINIT not sent since
    finished,           \* UNINIT returned, and not registered since
    revived             \* dead before, but stored by an UNINIT method since

memory  == <<allocated, held, refers, created, revived>>
vars == <<memory, uninitTable, processingUninits, pendingUninits, pass, last, owed, finished>>

NoPass == [position |-> 0, zombie |-> None]
NoTable == [u_size |-> 0, free |-> 0, entries |-> [p \in {} |-> Unused]]

NotYet == [stage |-> "not yet", index |-> <<>>, position |-> 0, zombie |-> None]
Over   == [NotYet EXCEPT !.stage = "over"]

TypeOK ==
    /\ held \subseteq allocated /\ allocated \subseteq Objects
    /\ refers \in [Objects -> Objects \cup {None}]
    /\ Indexes(uninitTable) \subseteq Objects
    /\ uninitTable # NoTable => Indexes(uninitTable) # {}
    /\ processingUninits \in BOOLEAN
    /\ pendingUninits \in BOOLEAN
    /\ pass.zombie \in Objects \cup {None}
    /\ last.zombie \in Objects \cup {None}
    /\ created \in 0..MaxCreated
    /\ owed \subseteq Objects /\ finished \subseteq Objects /\ revived \subseteq Objects

Init ==
    /\ allocated = {} /\ held = {} /\ created = 0 /\ revived = {}
    /\ refers = [o \in Objects |-> None]
    /\ uninitTable = NoTable
    /\ processingUninits = FALSE
    /\ pendingUninits = FALSE
    /\ pass = NoPass
    /\ last = NotYet
    /\ owed = {} /\ finished = {}

-----------------------------------------------------------------------------
(* The objects.                                                            *)

\* What can be reached from a set of objects, by following references: what
\* is in every set that has them and, with an object, the one it refers to.
Reached(r, roots) ==
    LET closed == {S \in SUBSET Objects : roots \subseteq S /\ \A x \in S : r[x] \in S \cup {None}}
    IN  {o \in Objects : \A S \in closed : o \in S}

Reach(roots) == Reached(refers, roots)

\* The objects of the table that checkUninits has saved.
LastObjects == Range(last.index)

\* The receivers of the UNINIT methods in progress.
Receivers == {pass.zombie, last.zombie} \ {None}

Accessible == Reach(held \cup Receivers)

\* Whether there is an activity to run the program: in the last pass only
\* from within an UNINIT.
Running == last = NotYet \/ last.zombie # None

\* hasUninit of a new object: an entry with .nil, unless there is one.
Register(o) ==
    LET table == IF uninitTable = NoTable THEN NewTable(Capacity) ELSE uninitTable
    IN  IF Get(table, o) # None
        THEN UNCHANGED <<uninitTable, owed, finished>>
        ELSE /\ uninitTable' = Put(table, ".nil", o)
             /\ owed' = owed \cup {o}
             /\ finished' = finished \ {o}

\* An object is made, with a reference in its variables.
Create(o, ref) ==
    /\ Running
    /\ created < MaxCreated
    /\ o \notin allocated
    /\ ref \in Accessible \cup {None}
    /\ allocated' = allocated \cup {o}
    /\ held' = held \cup {o}
    /\ refers' = [refers EXCEPT ![o] = ref]
    /\ created' = created + 1
    /\ revived' = (revived \cup (Reach({ref} \ {None}) \ Reach(held))) \ {o}
    /\ Register(o)
    /\ UNCHANGED <<processingUninits, pendingUninits, pass, last>>

\* An UNINIT method stores its object, or what its object refers to, in a
\* variable of the program.  (What is accessible without the method might as
\* well not have been dropped.)
Store(o) ==
    /\ Running
    /\ o \in Accessible \ Reach(held)
    /\ held' = held \cup {o}
    /\ revived' = revived \cup (Reach({o}) \ Reach(held))
    /\ UNCHANGED <<allocated, refers, created, uninitTable, processingUninits, pendingUninits,
                   pass, last, owed, finished>>

Drop(o) ==
    /\ Running
    /\ held' = held \ {o}
    /\ o \in held
    /\ UNCHANGED <<allocated, refers, created, revived, uninitTable, processingUninits,
                   pendingUninits, pass, last, owed, finished>>

-----------------------------------------------------------------------------
(* RexxMemory::markObjects and checkUninit.                                *)

\* What the first marking reaches; the table of the last pass is saved.
Live == Reach(held \cup Receivers \cup LastObjects)

DyingMutantAll == Indexes(uninitTable)

\* The registered objects that were not reached.
Dying == Indexes(uninitTable) \ Live

KeptMutantEntriesOnly == Live \cup Indexes(uninitTable)

\* The table is marked afterwards, with everything its objects refer to.
Kept == Live \cup Reach(Indexes(uninitTable))

IsPendingMutantNewlyDead ==
    \E p \in DOMAIN uninitTable.entries :
        uninitTable.entries[p].index \in Dying /\ uninitTable.entries[p].value # ".true"

\* addPendingUninit is called: for what was found dead before, too.
IsPending ==
    Dying # {}

\* The dying are marked in the table by the value .true.
Marked(table, dying) ==
    [table EXCEPT !.entries =
        [p \in Positions(table) |->
            IF table.entries[p].index \in dying THEN [table.entries[p] EXCEPT !.value = ".true"]
            ELSE table.entries[p]]]

Collect ==
    /\ Running
    /\ uninitTable' = IF uninitTable = NoTable THEN NoTable ELSE Marked(uninitTable, Dying)
    /\ pendingUninits' = (pendingUninits \/ (uninitTable # NoTable /\ IsPending))
    /\ allocated' = allocated \cap Kept
    /\ refers' = [o \in Objects |-> IF o \in Kept THEN refers[o] ELSE None]
    /\ UNCHANGED <<held, created, revived, processingUninits, pass, last, owed, finished>>

-----------------------------------------------------------------------------
(* RexxActivityClass::runUninits.                                          *)

ProcessTableMutantKeepsEmpty(table) == table

\* An empty table is not kept for the process.
ProcessTable(table) ==
    IF Indexes(table) = {} THEN NoTable ELSE table

\* The loop goes on in table from a position: to the next zombie, whose
\* entry becomes .false, or to its end.
Iterate(table, from) ==
    LET zombies == {p \in From(table, from) : table.entries[p].value = ".true"}
    IN  \/ /\ zombies = {}
           /\ uninitTable' = ProcessTable(table)
           /\ pass' = NoPass
           /\ processingUninits' = FALSE
           /\ UNCHANGED owed
        \/ \E p \in zombies :
              /\ \A q \in zombies : p <= q
              /\ uninitTable' = Put(table, ".false", table.entries[p].index)
              /\ pass' = [position |-> p, zombie |-> table.entries[p].index]
              /\ processingUninits' = TRUE
              /\ owed' = owed \ {table.entries[p].index}

\* At the end of a method if any are pending, and of an activity anyway.
RunUninits ==
    /\ Running
    /\ ~processingUninits
    /\ pendingUninits' = FALSE
    /\ IF uninitTable = NoTable THEN UNCHANGED <<uninitTable, pass, processingUninits, owed>>
       ELSE Iterate(uninitTable, 0)
    /\ UNCHANGED <<memory, last, finished>>

WithoutMutantKept(table, o) == table

\* removeUninitObject.
Without(table, o) == PrimitiveRemove(table, o)

\* The UNINIT method returns, and the loop goes on behind its position.
UninitReturns ==
    /\ pass.zombie # None
    /\ \E table \in {Without(uninitTable, pass.zombie)} : Iterate(table, pass.position + 1)
    /\ finished' = finished \cup {pass.zombie}
    /\ UNCHANGED <<memory, pendingUninits, last>>

\* An error leaves runUninits, wherever it is trapped; the flag stays.
UninitFails ==
    /\ pass.zombie # None
    /\ pass' = NoPass
    /\ UNCHANGED <<memory, uninitTable, processingUninits, pendingUninits, last, owed, finished>>

-----------------------------------------------------------------------------
(* RexxActivity::checkUninits.                                             *)

InLastPassMutantDeadOnly(table) ==
    {p \in Occupied(table) : table.entries[p].value = ".true"}

\* The entries the loop comes to, whatever their value.
InLastPass(table) == Occupied(table)

\* The positions that are still to come, from one on.
Rest(index, from) == {p \in DOMAIN index : p >= from}

\* The loop goes on from a position: to the next object or its end.
LastPass(index, from) ==
    \/ Rest(index, from) = {} /\ last' = Over /\ UNCHANGED owed
    \/ \E p \in Rest(index, from) :
          /\ \A q \in Rest(index, from) : p <= q
          /\ last' = [stage |-> "on", index |-> index, position |-> p, zombie |-> index[p]]
          /\ owed' = owed \ {index[p]}

\* The last activity ends: the table of the process is removed.
CheckUninits ==
    /\ last = NotYet
    /\ pass = NoPass
    /\ uninitTable' = NoTable
    /\ LastPass([p \in InLastPass(uninitTable) |-> uninitTable.entries[p].index], 0)
    /\ UNCHANGED <<memory, processingUninits, pendingUninits, pass, finished>>

\* The UNINIT returns or fails; either way the next is sent its own.
LastReturns(failed) ==
    /\ last.zombie # None
    /\ pass = NoPass
    /\ LastPass(last.index, last.position + 1)
    /\ finished' = IF failed \/ last.zombie \in Indexes(uninitTable) THEN finished
                   ELSE finished \cup {last.zombie}
    /\ UNCHANGED <<memory, uninitTable, processingUninits, pendingUninits, pass>>

-----------------------------------------------------------------------------
Program ==
    \/ \E o \in Objects, ref \in Objects \cup {None} : Create(o, ref)
    \/ \E o \in Objects : Store(o) \/ Drop(o)
    \/ UninitFails
    \/ CheckUninits
    \/ \E failed \in BOOLEAN : LastReturns(failed)

Next == Program \/ Collect \/ RunUninits \/ UninitReturns

Spec == Init /\ [][Next]_vars

(* A program that goes on ends methods, and from time to time allocates    *)
(* memory that is not there.                                               *)
Fairness ==
    /\ WF_vars(Collect)
    /\ WF_vars(pendingUninits /\ RunUninits)

FairSpec == Spec /\ Fairness

-----------------------------------------------------------------------------
(* What makes UNINIT correct.                                              *)

\* An UNINIT that has returned is not sent again, although runUninits
\* removes entries from the table it iterates, collections set their values
\* and objects are added meanwhile.
RunsOnce == Receivers \cap finished = {}

\* No registered object is forgotten: as long as it was not sent UNINIT it is
\* in the table or still ahead of the last pass.  When that is over only the
\* objects made since it began have not been sent UNINIT.
Ahead == {last.index[p] : p \in Rest(last.index, last.position + 1)}

NoneForgotten == owed \subseteq Indexes(uninitTable) \cup Ahead

\* Before the end UNINIT is sent to dead objects only, unless the UNINIT of
\* another one stored it in a variable after it was marked.
DeadWhenSent ==
    pass.zombie # None /\ pass.zombie \notin revived
        => pass.zombie \notin Reach(held \cup ({last.zombie} \ {None}))

\* What an UNINIT method may use is in memory: its object and all that can be
\* reached from it, which was dead like itself.
KeptForUninit == Reach(held \cup Receivers \cup owed) \subseteq allocated

\* The chains of the table are whole, through insertion, growth and removal.
TableSound == uninitTable # NoTable => Sound(uninitTable)

\* Dead objects are sent UNINIT in the end, although removals make the loop
\* skip entries, and a skipped entry is no longer pending: again and again
\* none is waiting.  Not if an UNINIT does not return, or failed, which leaves
\* the flag on, and not in the last pass.  (With new objects in the same chain
\* for ever one could be skipped for ever; MaxCreated excludes it.)
DeadAreUninited ==
    []<>(owed \subseteq Accessible \/ processingUninits \/ last # NotYet)

=============================================================================
