------------------------------ MODULE SortedMap ------------------------------
(***************************************************************************)
(* The map of dynamics.c: an array of entries that is sorted when it is    *)
(* searched, and one cursor, which the functions that read or write a      *)
(* value go by.  Its operators map the state of a map to the next; 0 is    *)
(* the cursor that is NULL.  Keys are numbers.                             *)
(***************************************************************************)
EXTENDS Integers, Sequences, SequencesExt, FiniteSets

map_new == [entries |-> <<>>, cursor |-> 0]

map_size(m) == Len(m.entries)

(* bsearch of the C library: halves the range that is left, and does not  *)
(* look whether the entries are in order.                                  *)
bsearch(entries, length, key) ==
    LET find[range \in Nat \X Nat] ==
            LET low    == range[1]
                high   == range[2]
                middle == (low + high) \div 2
                there  == entries[middle + 1].key
            IN  IF low >= high THEN 0
                ELSE IF there = key THEN middle + 1
                ELSE find[IF key < there THEN <<low, middle>> ELSE <<middle + 1, high>>]
    IN  find[<<0, length>>]

(* qsort of the C library: where an entry goes there are as many before it *)
(* as are less, or were before it and are equal.                           *)
Before(entries, i) == {j \in DOMAIN entries : \/ entries[j].key < entries[i].key
                                              \/ entries[j].key = entries[i].key /\ j < i}

qsort(entries) ==
    [p \in DOMAIN entries |->
        entries[CHOOSE i \in DOMAIN entries : Cardinality(Before(entries, i)) = p - 1]]

map_find(m, key) == [m EXCEPT !.cursor = bsearch(m.entries, map_size(m), key)]

Has(m, key) == map_find(m, key).cursor # 0

map_add(m, key, nothing) ==
    [entries |-> Append(m.entries, [key |-> key, value |-> nothing]), cursor |-> map_size(m) + 1]

(* Variant: the cursor stays where the entry was added. *)
map_commit_cursor(m) ==
    LET key == Last(m.entries).key
        old == bsearch(m.entries, map_size(m) - 1, key)
    IN  IF old # 0 THEN [m EXCEPT !.entries = Front(@)]
        ELSE [m EXCEPT !.entries = qsort(@)]

(* The entry added last is sorted in; if its key is there already it goes, *)
(* and the cursor is on the one that was there.                            *)
map_commit(m) ==
    LET key    == Last(m.entries).key
        old    == bsearch(m.entries, map_size(m) - 1, key)
        sorted == qsort(m.entries)
    IN  IF old # 0 THEN [entries |-> Front(m.entries), cursor |-> old]
        ELSE [entries |-> sorted, cursor |-> bsearch(sorted, Len(sorted), key)]

map_get_value(m) == m.entries[m.cursor].value

(* An assignment to map_get_value. *)
SetValue(m, value) == [m EXCEPT !.entries[m.cursor].value = value]

(* map_add, map_commit and the assignment, as they follow each other       *)
(* everywhere.                                                             *)
Put(m, key, value) == SetValue(map_commit(map_add(m, key, value)), value)

(* What every search and every access to a value relies on. *)
WellFormed(m) ==
    /\ m.cursor \in 0 .. map_size(m)
    /\ \A i, j \in 1 .. map_size(m) : i < j => m.entries[i].key < m.entries[j].key
================================================================================
