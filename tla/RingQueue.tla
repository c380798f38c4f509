------------------------------ MODULE RingQueue ------------------------------
(***************************************************************************)
(* The queue of dynamics.c: a ring of slots that is moved to a ring of     *)
(* twice the size when it is full.  Its operators map the state of a queue *)
(* to the next.  An item that has been popped stays in its slot, where the *)
(* caller still reads it, until the slot is used again.                    *)
(***************************************************************************)
EXTENDS Integers, Sequences

CONSTANTS
  Capacity, \* slots of a new queue
  NoItem    \* what memory holds that nothing has been written to

ASSUME CapacityAssumption == Capacity \in Nat \ {0}

queue_new == [list |-> [i \in 0..(Capacity - 1) |-> NoItem],
              capacity |-> Capacity, length |-> 0, head |-> 0, tail |-> 0]

\* Variant: the slots are copied as they lie.
GrownAsIs(q) ==
  [list |-> [i \in 0..(2 * q.capacity - 1) |-> IF i < q.length THEN q.list[i] ELSE NoItem],
   capacity |-> 2 * q.capacity, length |-> q.length, head |-> q.length, tail |-> 0]

\* The two parts of the ring are copied in their order.
Grown(q) ==
  LET upper == q.length - q.tail
  IN [list |-> [i \in 0..(2 * q.capacity - 1) |->
                  IF i < upper THEN q.list[q.tail + i]
                  ELSE IF i < q.length THEN q.list[i - upper] ELSE NoItem],
      capacity |-> 2 * q.capacity, length |-> q.length, head |-> q.length, tail |-> 0]

Full(q) == q.length = q.capacity

queue_push(q, item) ==
  LET room == IF Full(q) THEN Grown(q) ELSE q
  IN [list |-> [room.list EXCEPT ![room.head] = item],
      capacity |-> room.capacity, length |-> room.length + 1,
      head |-> (room.head + 1) % room.capacity, tail |-> room.tail]

queue_peek(q) == q.list[q.tail]

\* Variant: the tail does not wrap.
queue_pop_straight(q) ==
  [list |-> q.list, capacity |-> q.capacity, length |-> q.length - 1, head |-> q.head, tail |-> q.tail + 1]

queue_pop(q) ==
  [list |-> q.list, capacity |-> q.capacity, length |-> q.length - 1, head |-> q.head,
   tail |-> (q.tail + 1) % q.capacity]

\* Popped until it is empty: the slots are not reset.
queue_drained(q) ==
  [list |-> q.list, capacity |-> q.capacity, length |-> 0, head |-> q.head, tail |-> q.head]

-----------------------------------------------------------------------------
(* What a queue is to its users.                                           *)

\* The slot of the item that n others are before.
Slot(q, n) == IF q.tail + n < q.capacity THEN q.tail + n ELSE (q.tail + n) - q.capacity

Contents(q) == [i \in 1..q.length |-> q.list[Slot(q, i - 1)]]

WellFormed(q, Items) ==
  /\ q.capacity \in Nat \ {0}
  /\ q.length \in 0..q.capacity
  /\ q.tail \in 0..(q.capacity - 1)
  /\ q.head = Slot(q, q.length)
  /\ q.list \in [0..(q.capacity - 1) -> Items \cup {NoItem}]
  /\ \A i \in 1..q.length : q.list[Slot(q, i - 1)] \in Items
=============================================================================
