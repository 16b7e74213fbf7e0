-------------------------------- MODULE HashMap --------------------------------
(***************************************************************************)
(* The hash map of lib/Map.bux (StringMap there, and Set in lib/Set.bux,    *)
(* are the same code with another comparison): one array of slots, a key    *)
(* goes to the first free slot from its hash on, a map at least half full   *)
(* is copied to a bigger one before a key is set, and to remove a key the   *)
(* map is rebuilt without it.                                              *)
(*                                                                         *)
(* An operator marked (slip) is an action with a plausible programming      *)
(* mistake in it, used by nothing here.                                    *)
(***************************************************************************)
EXTENDS Naturals, FiniteSets

CONSTANTS
    MapKeys, MapValues,
    Absent,    \* what a lookup finds when there is no value
    Endless,   \* ... when it does not end
    MapCaps,   \* capacities a caller asks for
    Hashes     \* what bux_hash_bytes may be for the keys

\* A map of one slot has no free slot when it has a key, and a lookup of another
\* key never ends: callers must not ask for it.
ASSUME MapAssumption ==
    /\ MapCaps \subseteq Nat \ {1}
    /\ Hashes \subseteq [MapKeys -> Nat]
    /\ Absent \notin MapValues /\ Endless \notin MapValues /\ Absent # Endless

VARIABLES
    hash,    \* the hash function
    table    \* the slots, and how many of them are occupied (m.len)

map_vars == <<hash, table>>

Free == <<>>
Fresh(cap) == [slots |-> [i \in 0..(cap - 1) |-> Free], len |-> 0]
NoTable == Fresh(0)

Cap(t) == Cardinality(DOMAIN t.slots)

\* A search for key k goes from slot to slot and can end at the key or at a free slot.
EndsAt(t, k, n) ==
    LET slot == t.slots[(hash[k] + n) % Cap(t)] IN slot = Free \/ slot[1] = k

SlotOf(t, k) ==
    LET steps == CHOOSE n \in 0..(Cap(t) - 1) :
                     EndsAt(t, k, n) /\ \A i \in 0..(n - 1) : ~EndsAt(t, k, i)
    IN  (hash[k] + steps) % Cap(t)

\* Map_Get and Map_Has
Lookup(t, k) ==
    IF Cap(t) = 0 THEN Absent
    ELSE IF \A n \in 0..(Cap(t) - 1) : ~EndsAt(t, k, n) THEN Endless
    ELSE LET slot == t.slots[SlotOf(t, k)] IN IF slot = Free THEN Absent ELSE slot[2]

\* Map_SetInsertOnly
SetInsertOnly(t, k, v) ==
    LET at == SlotOf(t, k)
    IN  [slots |-> [t.slots EXCEPT ![at] = <<k, v>>],
         len |-> IF t.slots[at] = Free THEN t.len + 1 ELSE t.len]

\* The entries of t but those of the keys in Without, set in an empty map in the
\* order of their slots.
Copied(t, cap, Without) ==
    LET copy[n \in 0..Cap(t)] ==
            IF n = 0 THEN Fresh(cap)
            ELSE LET e == t.slots[n - 1]
                 IN  IF e = Free \/ e[1] \in Without THEN copy[n - 1]
                     ELSE SetInsertOnly(copy[n - 1], e[1], e[2])
    IN  copy[Cap(t)]

------------------------------------------------------------------------------
MapInit ==
    /\ hash \in Hashes
    /\ table = NoTable

\* Map_New, when there is no map or Map_Free has taken it.
MapNew(cap) ==
    /\ Cap(table) = 0
    /\ table' = Fresh(IF cap = 0 THEN 8 ELSE cap)
    /\ UNCHANGED hash

MapSet(k, v) ==
    /\ LET bigger == IF 2 * Cap(table) < 8 THEN 8 ELSE 2 * Cap(table)
           room == IF 2 * table.len >= Cap(table) THEN Copied(table, bigger, {}) ELSE table
       IN  table' = SetInsertOnly(room, k, v)
    /\ UNCHANGED hash

\* (slip) The slot is made free, and the other keys stay where they are.
MapRemoveInPlace(k) ==
    /\ Lookup(table, k) # Absent
    /\ table' = [slots |-> [table.slots EXCEPT ![SlotOf(table, k)] = Free], len |-> table.len - 1]
    /\ UNCHANGED hash

MapRemove(k) ==
    /\ Lookup(table, k) # Absent
    /\ table' = Copied(table, Cap(table), {k})
    /\ UNCHANGED hash

MapClear ==
    /\ table' = Fresh(Cap(table))
    /\ UNCHANGED hash

MapFree ==
    /\ table' = NoTable
    /\ UNCHANGED hash

MapNext ==
    \/ \E cap \in MapCaps : MapNew(cap)
    \/ \E k \in MapKeys : MapRemove(k) \/ \E v \in MapValues : MapSet(k, v)
    \/ MapClear
    \/ MapFree

------------------------------------------------------------------------------
Abstract == INSTANCE MapSpec WITH
    content <- [k \in MapKeys |-> Lookup(table, k)], size <- table.len

\* What lookups return is what a map promises, through collisions, growth and
\* removals in any order: setting or removing a key changes no other key's answer,
\* a search ends, and the length is the number of keys found.
ImplementsMap == Abstract!Spec
==============================================================================
