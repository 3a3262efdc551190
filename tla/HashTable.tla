------------------------------ MODULE HashTable ------------------------------
(***************************************************************************)
(* RexxHashTable, the table under the collections of Object Rexx, as an    *)
(* object table uses it: keyed by the identity of objects.                 *)
(*                                                                         *)
(* A table has u_size hash slots and as many overflow slots above them.    *)
(* The entries of one hash slot form a chain that begins in the slot and   *)
(* goes on in overflow slots; free is where the search for an empty        *)
(* overflow slot begins, downwards.                                        *)
(***************************************************************************)
EXTENDS Naturals, Sequences, SequencesExt, FiniteSetsExt

CONSTANTS
    Objects,  \* the objects that can be an index
    Hash,     \* the hash value of each, derived from its place in memory
    None      \* OREF_NULL

ASSUME HashTyped == Hash \in [Objects -> Nat] /\ None \notin Objects

\* Position 0 is a hash slot, so that no entry is chained to it.
NoMore == 0

Unused == [index |-> None, value |-> None, next |-> NoMore]

\* A table for a number of entries; the number of hash slots is made odd.
NewTable(capacity) ==
    LET half == capacity \div 2
        size == half + ((half + 1) % 2)
    IN  [u_size |-> size, free |-> 2 * size - 1, entries |-> [p \in 0..2 * size - 1 |-> Unused]]

Positions(t) == DOMAIN t.entries
Slot(t, index) == Hash[index] % t.u_size
Occupied(t) == {p \in Positions(t) : t.entries[p].index # None}

\* The objects in the table.
Indexes(t) == {t.entries[p].index : p \in Occupied(t)}

\* The positions of the chain that begins at the hash slot of index.
Chain(t, index) ==
    LET nth[n \in 0..t.u_size] == IF n = 0 THEN Slot(t, index) ELSE t.entries[nth[n - 1]].next
        ends == {n \in 0..t.u_size : t.entries[nth[n]].next = NoMore}
    IN  [i \in 1..Min(ends) + 1 |-> nth[i - 1]]

\* Where the chain has index: 0 if it is not there.
Place(t, index) == SelectInSeq(Chain(t, index), LAMBDA p : t.entries[p].index = index)

Get(t, index) ==
    IF Place(t, index) = 0 THEN None ELSE t.entries[Chain(t, index)[Place(t, index)]].value

-----------------------------------------------------------------------------
(* Adding.                                                                 *)

Spare(t) == {p \in t.u_size..t.free : t.entries[p].index = None}

\* add and insert, as long as nothing has to grow.  The new entry goes into
\* the hash slot and what was there moves to the overflow area.  If there is
\* no room the enlarged table is not used, and the entry is lost.
AddInPlace(t, value, index) ==
    LET slot == Slot(t, index)
        over == Max(Spare(t))
    IN  IF t.entries[slot].index = None
        THEN [t EXCEPT !.entries[slot].index = index, !.entries[slot].value = value]
        ELSE IF Spare(t) = {} THEN t
        ELSE [t EXCEPT !.entries[over] = t.entries[slot],
                       !.entries[slot] = [index |-> index, value |-> value, next |-> over],
                       !.free = over - 1]

\* primitiveMerge: the entries of t are added to table new, the last first.
MergeInto(new, t) ==
    LET merged[n \in 0..2 * t.u_size] ==
            IF n = 0 THEN new
            ELSE LET entry == t.entries[2 * t.u_size - n]
                 IN  IF entry.index = None THEN merged[n - 1]
                     ELSE AddInPlace(merged[n - 1], entry.value, entry.index)
    IN  merged[2 * t.u_size]

\* A table with twice the room.
Expanded(t) == MergeInto(NewTable(2 * (2 * t.u_size)), t)

Add(t, value, index) ==
    IF t.entries[Slot(t, index)].index = None \/ Spare(t) # {}
    THEN AddInPlace(t, value, index)
    ELSE AddInPlace(Expanded(t), value, index)

\* put: the value of an index that is there is replaced.
Put(t, value, index) ==
    IF Place(t, index) = 0 THEN Add(t, value, index)
    ELSE [t EXCEPT !.entries[Chain(t, index)[Place(t, index)]].value = value]

-----------------------------------------------------------------------------
(* Removing.                                                               *)

MaxOf(a, b) == IF a < b THEN b ELSE a

PrimitiveRemoveMutantKeepsFree(t, index) ==
    LET chain    == Chain(t, index)
        place    == Place(t, index)
        position == chain[place]
        next     == t.entries[position].next
    IN  IF place = 0 THEN t
        ELSE IF next # NoMore
        THEN [t EXCEPT !.entries[position] = t.entries[next], !.entries[next] = Unused,
                       !.free = MaxOf(@, next)]
        ELSE IF place = 1
        THEN [t EXCEPT !.entries[position] = Unused]
        ELSE [t EXCEPT !.entries[position] = Unused, !.entries[chain[place - 1]].next = NoMore]

\* The last of a chain is unlinked; any other position takes over the entry
\* that follows it, whose overflow slot becomes empty.
PrimitiveRemove(t, index) ==
    LET chain    == Chain(t, index)
        place    == Place(t, index)
        position == chain[place]
        next     == t.entries[position].next
    IN  IF place = 0 THEN t
        ELSE IF next # NoMore
        THEN [t EXCEPT !.entries[position] = t.entries[next], !.entries[next] = Unused,
                       !.free = MaxOf(@, next)]
        ELSE IF place = 1
        THEN [t EXCEPT !.entries[position] = Unused]
        ELSE [t EXCEPT !.entries[position] = Unused, !.entries[chain[place - 1]].next = NoMore,
                       !.free = MaxOf(@, position)]

-----------------------------------------------------------------------------
(* Iterating by position.                                                  *)

\* The entries that first and next come to from position from on, in order.
From(t, from) == {p \in Occupied(t) : p >= from}

-----------------------------------------------------------------------------
\* Every entry is found by its chain and only once, nothing is chained that
\* is not used, and no empty overflow slot is above free, where no insertion
\* would find it.
Sound(t) ==
    /\ \A p \in Occupied(t) :
          LET chain == Chain(t, t.entries[p].index)
          IN  /\ Contains(chain, p)
              /\ IsInjective(chain)
              /\ chain[Place(t, t.entries[p].index)] = p
    /\ \A p \in Positions(t) \ Occupied(t) : t.entries[p] = Unused
    /\ \A p \in Positions(t) \ Occupied(t) : p < t.u_size \/ p <= t.free

=============================================================================
