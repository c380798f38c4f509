------------------------- MODULE InstantiationProofs -------------------------
(***************************************************************************)
(* Proofs about RingQueue and Instantiation.  The first part shows that    *)
(* the ring is a queue: what its operators do to Contents.                 *)
(***************************************************************************)
EXTENDS Instantiation, SequenceTheorems, TLAPS

\* An index that is less than twice the capacity wraps around once: the modulo of
\* __queue_push and __queue_pop.
LEMMA Wrapped ==
  ASSUME NEW c \in Nat \ {0}, NEW a \in 0..(2 * c - 1)
  PROVE  a % c = IF a < c THEN a ELSE a - c
<1>1. CASE a < c
  BY <1>1, SMT
<1>2. CASE a >= c
  <2>1. a = c * 1 + (a - c) /\ a - c \in 0..(c - 1)
    BY <1>2
  <2>2. QED
    BY <1>2, <2>1, SMT
<1>3. QED
  BY <1>1, <1>2

\* queue_pop takes the first item off.
LEMMA PopIsTail ==
  ASSUME NEW Items, NEW q, WellFormed(q, Items), q.length > 0
  PROVE  /\ WellFormed(queue_pop(q), Items)
         /\ queue_peek(q) \in Items
         /\ Contents(q) \in Seq(Items)
         /\ Len(Contents(q)) = q.length
         /\ Contents(q)[1] = queue_peek(q)
         /\ Contents(queue_pop(q)) = Tail(Contents(q))
<1> DEFINE p == queue_pop(q)
<1>1. /\ q.capacity \in Nat \ {0} /\ q.length \in 1..q.capacity /\ q.tail \in 0..(q.capacity - 1)
      /\ q.list \in [0..(q.capacity - 1) -> Items \cup {NoItem}]
  BY DEF WellFormed
<1>2. (q.tail + 1) % q.capacity = IF q.tail + 1 < q.capacity THEN q.tail + 1 ELSE 0
  <2>1. \A a \in 0..(2 * q.capacity - 1) : a % q.capacity = IF a < q.capacity THEN a ELSE a - q.capacity
    BY <1>1, Wrapped
  <2>2. q.tail + 1 \in 0..(2 * q.capacity - 1) /\ (q.tail + 1 = q.capacity \/ q.tail + 1 < q.capacity)
    BY <1>1
  <2>3. QED
    BY <1>1, <2>1, <2>2
<1>3. /\ p.list = q.list /\ p.capacity = q.capacity /\ p.length = q.length - 1 /\ p.head = q.head
      /\ p.tail = IF q.tail + 1 < q.capacity THEN q.tail + 1 ELSE 0
  BY <1>2 DEF queue_pop
<1> HIDE DEF p
<1>4. ASSUME NEW i \in 0..(q.length - 1)
      PROVE  Slot(p, i) = Slot(q, i + 1) /\ Slot(q, i) \in 0..(q.capacity - 1)
  <2>1. q.tail + 1 < q.capacity \/ q.tail + 1 = q.capacity
    BY <1>1
  <2>2. CASE q.tail + 1 < q.capacity
    <3>1. p.tail \in Nat /\ p.tail = q.tail + 1 /\ p.capacity = q.capacity
      BY <1>1, <1>3, <2>2
    <3>2. Slot(p, i) = Slot(q, i + 1)
      BY <1>1, <3>1 DEF Slot
    <3>3. Slot(q, i) \in 0..(q.capacity - 1)
      BY <1>1 DEF Slot
    <3>4. QED
      BY <3>2, <3>3
  <2>3. CASE q.tail + 1 = q.capacity
    <3>1. p.tail + i = i /\ q.tail + (i + 1) = q.capacity + i /\ i < q.capacity
      BY <1>1, <1>3, <2>3
    <3>2. Slot(p, i) = i /\ Slot(q, i + 1) = i
      BY <1>1, <1>3, <3>1 DEF Slot
    <3>3. Slot(q, i) \in 0..(q.capacity - 1)
      BY <1>1 DEF Slot
    <3>4. QED
      BY <3>2, <3>3
  <2>4. QED
    BY <2>1, <2>2, <2>3
<1>5. WellFormed(p, Items)
  <2>1. p.head = Slot(p, p.length)
    <3>1. q.length - 1 \in 0..(q.length - 1) /\ q.length - 1 + 1 = q.length
      BY <1>1
    <3>2. QED
      BY <1>3, <1>4, <3>1 DEF WellFormed
  <2>2. ASSUME NEW i \in 1..p.length PROVE p.list[Slot(p, i - 1)] \in Items
    <3>1. i - 1 \in 0..(q.length - 1) /\ i - 1 + 1 = i /\ i + 1 \in 1..q.length /\ i + 1 - 1 = i
      BY <1>1, <1>3
    <3>2. Slot(p, i - 1) = Slot(q, i)
      BY <1>4, <3>1
    <3>3. q.list[Slot(q, i + 1 - 1)] \in Items
      BY <3>1 DEF WellFormed
    <3>4. QED
      BY <1>3, <3>1, <3>2, <3>3
  <2>3. QED
    BY <1>1, <1>3, <2>1, <2>2 DEF WellFormed
<1>6. Slot(q, 0) = q.tail /\ queue_peek(q) = q.list[Slot(q, 1 - 1)] /\ queue_peek(q) \in Items
  BY <1>1 DEF queue_peek, Slot, WellFormed
<1>7. Contents(q) \in Seq(Items) /\ Len(Contents(q)) = q.length /\ Contents(q)[1] = queue_peek(q)
  BY <1>1, <1>6 DEF Contents, WellFormed
<1>8. Contents(p) = Tail(Contents(q))
  <2>1. Contents(p) \in Seq(Items) /\ Len(Contents(p)) = q.length - 1
    <3>1. p.length = q.length - 1 /\ p.length \in Nat
      BY <1>1, <1>3
    <3>2. \A i \in 1..p.length : p.list[Slot(p, i - 1)] \in Items
      BY <1>5 DEF WellFormed
    <3>3. QED
      BY <3>1, <3>2 DEF Contents
  <2>2. Tail(Contents(q)) \in Seq(Items) /\ Len(Tail(Contents(q))) = q.length - 1
    BY <1>1, <1>7
  <2>3. ASSUME NEW i \in 1..(q.length - 1) PROVE Contents(p)[i] = Tail(Contents(q))[i]
    <3>1. Contents(p)[i] = q.list[Slot(p, i - 1)] /\ Contents(q)[i + 1] = q.list[Slot(q, i)]
      BY <1>1, <1>3 DEF Contents
    <3>2. Slot(p, i - 1) = Slot(q, i)
      BY <1>1, <1>4
    <3>3. QED
      BY <1>1, <1>7, <3>1, <3>2
  <2>4. QED
    BY <2>1, <2>2, <2>3
<1>9. QED
  BY <1>5, <1>6, <1>7, <1>8 DEF p

\* A ring that has grown holds the same items and has room.
LEMMA GrownIsSame ==
  ASSUME NEW Items, NEW q, WellFormed(q, Items), Full(q)
  PROVE  /\ WellFormed(Grown(q), Items)
         /\ ~Full(Grown(q))
         /\ Contents(Grown(q)) = Contents(q)
<1> DEFINE g == Grown(q)
<1>1. /\ q.capacity \in Nat \ {0} /\ q.length = q.capacity /\ q.tail \in 0..(q.capacity - 1)
      /\ q.list \in [0..(q.capacity - 1) -> Items \cup {NoItem}]
  BY DEF WellFormed, Full
<1>2. /\ g.capacity = 2 * q.capacity /\ g.length = q.length /\ g.head = q.length /\ g.tail = 0
      /\ g.list = [i \in 0..(2 * q.capacity - 1) |->
                     IF i < q.length - q.tail THEN q.list[q.tail + i]
                     ELSE IF i < q.length THEN q.list[i - (q.length - q.tail)] ELSE NoItem]
  BY DEF Grown
<1> HIDE DEF g
<1>3. ASSUME NEW n \in 0..(q.length - 1)
      PROVE  Slot(g, n) = n /\ g.list[n] = q.list[Slot(q, n)]
  <2>1. Slot(g, n) = n
    BY <1>1, <1>2 DEF Slot
  <2>2. n \in 0..(2 * q.capacity - 1) /\ n < q.length
    BY <1>1
  <2>3. g.list[n] = IF n < q.length - q.tail THEN q.list[q.tail + n] ELSE q.list[n - (q.length - q.tail)]
    BY <1>2, <2>2
  <2>4. (n < q.length - q.tail) = (q.tail + n < q.capacity) /\ n - (q.length - q.tail) = (q.tail + n) - q.capacity
    BY <1>1
  <2>5. QED
    BY <2>1, <2>3, <2>4 DEF Slot
<1>4. \A i \in 1..q.length : i - 1 \in 0..(q.length - 1)
  BY <1>1
<1>5. \A i \in 1..q.length : g.list[Slot(g, i - 1)] = q.list[Slot(q, i - 1)]
  BY <1>3, <1>4
<1>6. \A i \in 1..g.length : g.list[Slot(g, i - 1)] \in Items
  BY <1>2, <1>5 DEF WellFormed
<1>7. g.list \in [0..(g.capacity - 1) -> Items \cup {NoItem}]
  <2>1. ASSUME NEW i \in 0..(2 * q.capacity - 1) PROVE g.list[i] \in Items \cup {NoItem}
    <3>1. CASE i < q.length - q.tail
      <4>1. q.tail + i \in 0..(q.capacity - 1)
        BY <1>1, <3>1
      <4>2. g.list[i] = q.list[q.tail + i]
        BY <1>2, <3>1
      <4>3. QED
        BY <1>1, <4>1, <4>2
    <3>2. CASE ~(i < q.length - q.tail) /\ i < q.length
      <4>1. i - (q.length - q.tail) \in 0..(q.capacity - 1)
        BY <1>1, <3>2
      <4>2. g.list[i] = q.list[i - (q.length - q.tail)]
        BY <1>2, <3>2
      <4>3. QED
        BY <1>1, <4>1, <4>2
    <3>3. CASE ~(i < q.length - q.tail) /\ ~(i < q.length)
      BY <1>2, <3>3
    <3>4. QED
      BY <3>1, <3>2, <3>3
  <2>2. QED
    BY <1>2, <2>1
<1>8. WellFormed(g, Items)
  <2>1. g.capacity \in Nat \ {0} /\ g.length \in 0..g.capacity /\ g.tail \in 0..(g.capacity - 1)
    BY <1>1, <1>2
  <2>2. g.head = Slot(g, g.length)
    BY <1>1, <1>2 DEF Slot
  <2>3. QED
    BY <1>6, <1>7, <2>1, <2>2 DEF WellFormed
<1>9. ~Full(g)
  BY <1>1, <1>2 DEF Full
<1>10. Contents(g) = Contents(q)
  BY <1>2, <1>5 DEF Contents
<1>11. QED
  BY <1>8, <1>9, <1>10 DEF g

\* A push into a ring that has room.
LEMMA PushWithRoom ==
  ASSUME NEW Items, NEW q, WellFormed(q, Items), ~Full(q), NEW item \in Items
  PROVE  /\ WellFormed(queue_push(q, item), Items)
         /\ Contents(queue_push(q, item)) = Append(Contents(q), item)
<1> DEFINE p == queue_push(q, item)
<1>1. /\ q.capacity \in Nat \ {0} /\ q.length \in 0..(q.capacity - 1) /\ q.tail \in 0..(q.capacity - 1)
      /\ q.list \in [0..(q.capacity - 1) -> Items \cup {NoItem}]
      /\ q.head = Slot(q, q.length)
  BY DEF WellFormed, Full
<1>2. q.head \in 0..(q.capacity - 1)
  BY <1>1 DEF Slot
<1>3. (q.head + 1) % q.capacity = IF q.head + 1 < q.capacity THEN q.head + 1 ELSE 0
  <2>1. \A a \in 0..(2 * q.capacity - 1) : a % q.capacity = IF a < q.capacity THEN a ELSE a - q.capacity
    BY <1>1, Wrapped
  <2>2. q.head + 1 \in 0..(2 * q.capacity - 1) /\ (q.head + 1 = q.capacity \/ q.head + 1 < q.capacity)
    BY <1>1, <1>2
  <2>3. QED
    BY <1>1, <1>2, <2>1, <2>2
<1>4. /\ p.list = [q.list EXCEPT ![q.head] = item] /\ p.capacity = q.capacity /\ p.length = q.length + 1
      /\ p.tail = q.tail
      /\ p.head = IF q.head + 1 < q.capacity THEN q.head + 1 ELSE 0
  BY <1>3 DEF queue_push
<1> HIDE DEF p
<1>5. ASSUME NEW n \in 0..(q.capacity - 1)
      PROVE  Slot(p, n) = Slot(q, n) /\ Slot(q, n) \in 0..(q.capacity - 1)
  BY <1>1, <1>4 DEF Slot
<1>6. ASSUME NEW n \in 0..(q.length - 1) PROVE Slot(q, n) # q.head
  BY <1>1 DEF Slot
<1>7. ASSUME NEW i \in 1..q.length PROVE p.list[Slot(p, i - 1)] = q.list[Slot(q, i - 1)]
  <2>1. i - 1 \in 0..(q.length - 1) /\ i - 1 \in 0..(q.capacity - 1)
    BY <1>1
  <2>2. QED
    BY <1>1, <1>4, <1>5, <1>6, <2>1
<1>8. p.list[Slot(p, q.length)] = item
  BY <1>1, <1>2, <1>4, <1>5
<1>9. p.length = q.length + 1 /\ p.length - 1 = q.length /\ p.length \in Nat
  BY <1>1, <1>4
<1>10. ASSUME NEW i \in 1..p.length
       PROVE  p.list[Slot(p, i - 1)] = (IF i = p.length THEN item ELSE q.list[Slot(q, i - 1)])
              /\ p.list[Slot(p, i - 1)] \in Items
  <2>1. CASE i = p.length
    BY <1>8, <1>9, <2>1
  <2>2. CASE i # p.length
    <3>1. i \in 1..q.length
      BY <1>1, <1>9, <2>2
    <3>2. QED
      BY <1>7, <2>2, <3>1 DEF WellFormed
  <2>3. QED
    BY <2>1, <2>2
<1>11. p.head = Slot(p, p.length)
  <2>1. CASE q.tail + q.length < q.capacity
    BY <1>1, <1>4, <1>9, <2>1 DEF Slot
  <2>2. CASE ~(q.tail + q.length < q.capacity)
    <3>1. q.head = (q.tail + q.length) - q.capacity /\ q.head + 1 < q.capacity
      BY <1>1, <2>2 DEF Slot
    <3>2. p.head = q.head + 1
      BY <1>4, <3>1
    <3>3. Slot(p, p.length) = (q.tail + (q.length + 1)) - q.capacity
      BY <1>1, <1>4, <1>9, <2>2 DEF Slot
    <3>4. QED
      BY <1>1, <3>1, <3>2, <3>3
  <2>3. QED
    BY <2>1, <2>2
<1>12. WellFormed(p, Items)
  <2>1. p.list \in [0..(p.capacity - 1) -> Items \cup {NoItem}]
    BY <1>1, <1>4
  <2>2. p.length \in 0..p.capacity
    BY <1>1, <1>4
  <2>3. QED
    BY <1>1, <1>4, <1>10, <1>11, <2>1, <2>2 DEF WellFormed
<1>13. Contents(p) = Append(Contents(q), item)
  <2>1. Contents(p) \in Seq(Items) /\ Len(Contents(p)) = q.length + 1
    BY <1>9, <1>10 DEF Contents
  <2>2. Contents(q) \in Seq(Items) /\ Len(Contents(q)) = q.length
    BY <1>1 DEF Contents, WellFormed
  <2>3. ASSUME NEW i \in 1..(q.length + 1) PROVE Contents(p)[i] = Append(Contents(q), item)[i]
    <3>1. Contents(p)[i] = IF i = q.length + 1 THEN item ELSE q.list[Slot(q, i - 1)]
      BY <1>9, <1>10 DEF Contents
    <3>2. CASE i = q.length + 1
      BY <1>1, <2>2, <3>1, <3>2
    <3>3. CASE i # q.length + 1
      <4>1. i \in 1..q.length
        BY <1>1, <3>3
      <4>2. Contents(q)[i] = q.list[Slot(q, i - 1)]
        BY <4>1 DEF Contents
      <4>3. Append(Contents(q), item)[i] = Contents(q)[i]
        BY <2>2, <4>1
      <4>4. QED
        BY <3>1, <3>3, <4>2, <4>3
    <3>4. QED
      BY <3>2, <3>3
  <2>4. Append(Contents(q), item) \in Seq(Items) /\ Len(Append(Contents(q), item)) = q.length + 1
    BY <2>2
  <2>5. QED
    BY <2>1, <2>3, <2>4, SeqEqual
<1>14. QED
  BY <1>12, <1>13 DEF p

\* __queue_push: an item is added at the end, whether the ring grows or not.
LEMMA PushIsAppend ==
  ASSUME NEW Items, NEW q, WellFormed(q, Items), NEW item \in Items
  PROVE  /\ WellFormed(queue_push(q, item), Items)
         /\ Contents(queue_push(q, item)) = Append(Contents(q), item)
<1>1. CASE ~Full(q)
  BY <1>1, PushWithRoom
<1>2. CASE Full(q)
  <2>1. queue_push(q, item) = queue_push(Grown(q), item)
    BY <1>2, GrownIsSame DEF queue_push
  <2>2. QED
    BY <1>2, <2>1, GrownIsSame, PushWithRoom
<1>3. QED
  BY <1>1, <1>2

\* Emptying the queue leaves a queue that is empty.
LEMMA DrainedIsEmpty ==
  ASSUME NEW Items, NEW q, WellFormed(q, Items)
  PROVE  WellFormed(queue_drained(q), Items) /\ queue_drained(q).length = 0
<1>1. q.capacity \in Nat \ {0} /\ q.length \in 0..q.capacity /\ q.tail \in 0..(q.capacity - 1)
  BY DEF WellFormed
<1>2. q.head = Slot(q, q.length) /\ Slot(q, q.length) \in 0..(q.capacity - 1)
  BY <1>1 DEF WellFormed, Slot
<1>3. QED
  BY <1>1, <1>2 DEF WellFormed, queue_drained, Slot

\* queue_new.
LEMMA NewIsEmpty ==
  ASSUME NEW Items
  PROVE  WellFormed(queue_new, Items) /\ queue_new.length = 0
BY CapacityAssumption DEF WellFormed, queue_new, Slot

-----------------------------------------------------------------------------
(***************************************************************************)
(* The second part shows that units serve their requests in order and      *)
(* compile an instance once.  Beside TypeOK the invariant says that what   *)
(* has been compiled or parsed has been declared, that the instance whose  *)
(* body is parsed has not, and that the slot of its request, unless the    *)
(* ring has moved, holds some request.                                     *)
(***************************************************************************)
TemplatesType == [Templates -> [linkage : Linkages \cup {"absent"}, tokens : Bodies \cup {NoTokens}]]

Queued ==
  /\ WellFormed(requests, RequestType)
  /\ waiting \in Seq(Instance)
  /\ ServedInOrder

SlotKept ==
  InBody => \/ current.slot = Freed
            \/ current.slot \in 0..(requests.capacity - 1) /\ requests.list[current.slot] \in RequestType

ParsedAreDeclared ==
  /\ \A n \in DOMAIN ast : declared[ast[n].instance] # "absent"
  /\ \A i \in Instance : code[i] # NoTokens => declared[i] # "absent"

BodyIsParsed ==
  /\ phase \in {"idle", "source"} => ast = <<>>
  /\ InBody => current \in CurrentType /\ declared[current.instance] = "absent"
  /\ ~InBody => current = NoItem

IInv ==
  /\ TypeOK
  /\ Queued
  /\ SlotKept
  /\ InstantiatedOnce
  /\ ParsedAreDeclared
  /\ BodyIsParsed

\* A request that is pushed waits behind the others.
LEMMA RequestQueues ==
  ASSUME Queued, templates \in TemplatesType, NEW i \in Instance, NEW serving, Request(i, serving)
  PROVE  /\ Queued'
         /\ [instance |-> i, linkage |-> templates[i.template].linkage, tokens |-> templates[i.template].tokens]
              \in RequestType
<1> DEFINE item == [instance |-> i, linkage |-> templates[i.template].linkage, tokens |-> templates[i.template].tokens]
<1>1. item \in RequestType
  <2>1. i.template \in Templates /\ templates[i.template].linkage # "absent"
    BY DEF Instance, Request
  <2>2. templates[i.template] \in [linkage : Linkages \cup {"absent"}, tokens : Bodies \cup {NoTokens}]
    BY <2>1 DEF TemplatesType
  <2>3. QED
    BY <2>1, <2>2 DEF RequestType
<1>2. requests' = queue_push(requests, item) /\ waiting' = Append(waiting, i)
  BY DEF Request
<1>3. item.instance = i
  OBVIOUS
<1> HIDE DEF item
<1>4. WellFormed(requests, RequestType) /\ waiting \in Seq(Instance) /\ ServedInOrder
  BY DEF Queued
<1>5. /\ WellFormed(requests', RequestType)
      /\ Contents(requests') = Append(Contents(requests), item)
  BY <1>1, <1>2, <1>4, PushIsAppend
<1>6. waiting' \in Seq(Instance) /\ Len(waiting') = Len(waiting) + 1
  BY <1>2, <1>4
<1>7. /\ requests.length \in Nat /\ Len(waiting) = requests.length
      /\ \A n \in 1..Len(waiting) : Contents(requests)[n].instance = waiting[n]
  BY <1>4 DEF WellFormed, ServedInOrder
<1>8. Contents(requests) \in Seq(RequestType) /\ Len(Contents(requests)) = requests.length
  BY <1>4, <1>7 DEF WellFormed, Contents
<1>9. requests'.length = requests.length + 1
  <2>1. Len(Append(Contents(requests), item)) = requests.length + 1
    BY <1>1, <1>8
  <2>2. Len(Contents(requests')) = requests'.length
    BY <1>5 DEF WellFormed, Contents
  <2>3. QED
    BY <1>5, <2>1, <2>2
<1>10. ASSUME NEW n \in 1..(Len(waiting) + 1)
       PROVE  Append(Contents(requests), item)[n].instance = Append(waiting, i)[n]
  <2>1. CASE n = Len(waiting) + 1
    BY <1>1, <1>3, <1>4, <1>7, <1>8, <2>1
  <2>2. CASE n # Len(waiting) + 1
    <3>1. n \in 1..Len(waiting)
      BY <1>4, <2>2
    <3>2. Append(waiting, i)[n] = waiting[n]
      BY <1>4, <3>1
    <3>3. Append(Contents(requests), item)[n] = Contents(requests)[n]
      BY <1>1, <1>7, <1>8, <3>1
    <3>4. QED
      BY <1>7, <3>1, <3>2, <3>3
  <2>3. QED
    BY <2>1, <2>2
<1>11. ServedInOrder'
  <2>1. DOMAIN waiting' = 1..(Len(waiting) + 1)
    BY <1>4, <1>6
  <2>2. \A n \in DOMAIN waiting' : Contents(requests')[n].instance = waiting'[n]
    BY <1>2, <1>5, <1>10, <2>1
  <2>3. [n \in DOMAIN waiting' |-> Contents(requests')[n].instance] = waiting'
    BY <1>6, <2>2
  <2>4. QED
    BY <1>6, <1>7, <1>9, <2>3 DEF ServedInOrder
<1>12. QED
  BY <1>1, <1>5, <1>6, <1>11 DEF Queued, item

\* The request that is taken up is the one that has waited longest.
LEMMA TakeQueues ==
  ASSUME Queued, Take, requests.length > 0
  PROVE  /\ Queued'
         /\ NextRequest \in RequestType
<1>1. WellFormed(requests, RequestType) /\ waiting \in Seq(Instance) /\ ServedInOrder
  BY DEF Queued
<1>2. requests' = queue_pop(requests) /\ waiting' = Tail(waiting)
  BY DEF Take
<1>3. /\ WellFormed(requests', RequestType)
      /\ NextRequest \in RequestType
      /\ Contents(requests) \in Seq(RequestType)
      /\ Len(Contents(requests)) = requests.length
      /\ Contents(requests') = Tail(Contents(requests))
  BY <1>1, <1>2, PopIsTail DEF NextRequest
<1>4. /\ requests.length \in Nat /\ Len(waiting) = requests.length
      /\ \A n \in 1..Len(waiting) : Contents(requests)[n].instance = waiting[n]
  BY <1>1 DEF WellFormed, ServedInOrder
<1>5. waiting # <<>> /\ waiting' \in Seq(Instance) /\ Len(waiting') = Len(waiting) - 1
  BY <1>1, <1>2, <1>4
<1>6. requests'.length = requests.length - 1
  BY <1>2 DEF queue_pop
<1>7. ASSUME NEW n \in 1..(Len(waiting) - 1)
      PROVE  Tail(Contents(requests))[n].instance = Tail(waiting)[n]
  <2>1. n + 1 \in 1..Len(waiting)
    BY <1>1
  <2>2. Tail(waiting)[n] = waiting[n + 1]
    BY <1>1, <1>5
  <2>3. Tail(Contents(requests))[n] = Contents(requests)[n + 1]
    BY <1>3, <1>4, <2>1
  <2>4. QED
    BY <1>4, <2>1, <2>2, <2>3
<1>8. DOMAIN waiting' = 1..(Len(waiting) - 1)
  BY <1>1, <1>5
<1>9. \A n \in DOMAIN waiting' : Contents(requests')[n].instance = waiting'[n]
  BY <1>2, <1>3, <1>7, <1>8
<1>10. [n \in DOMAIN waiting' |-> Contents(requests')[n].instance] = waiting'
  BY <1>5, <1>9
<1>11. ServedInOrder'
  BY <1>4, <1>5, <1>6, <1>10 DEF ServedInOrder
<1>12. QED
  BY <1>3, <1>5, <1>11 DEF Queued

\* A queue that is emptied has no one waiting.
LEMMA FailedQueues ==
  ASSUME Queued, Failed
  PROVE  Queued'
<1>1. WellFormed(requests', RequestType) /\ requests'.length = 0 /\ waiting' = <<>>
  BY DrainedIsEmpty DEF Queued, Failed
<1>2. QED
  BY <1>1 DEF Queued, ServedInOrder

\* The queue before the first unit.
LEMMA InitQueues == Init => Queued
<1> SUFFICES ASSUME Init PROVE Queued
  OBVIOUS
<1>1. WellFormed(requests, RequestType) /\ requests.length = 0 /\ waiting = <<>>
  BY NewIsEmpty DEF Init
<1>2. QED
  BY <1>1 DEF Queued, ServedInOrder

\* An instance whose body has been parsed, and the body.
LEMMA NodeOfUnit ==
  ASSUME ast \in Seq([instance : Instance, tokens : Bodies]), NEW n \in DOMAIN ast
  PROVE  ast[n] \in [instance : Instance, tokens : Bodies] /\ ast[n].instance \in Instance
<1> DEFINE Node == [instance : Instance, tokens : Bodies]
<1>1. ast \in Seq(Node)
  OBVIOUS
<1> HIDE DEF Node
<1>2. ast[n] \in Node
  BY <1>1
<1>3. QED
  BY <1>2 DEF Node

\* What holds before the first unit.
LEMMA InitInvariant == Init => IInv
<1> SUFFICES ASSUME Init PROVE IInv
  OBVIOUS
<1>1. Queued
  BY InitQueues
<1>2. /\ forms \in Forms /\ source \in 0..MaxSource /\ phase = "idle" /\ current = NoItem /\ ast = <<>>
      /\ waiting = <<>> /\ asked = {} /\ needed = {}
  BY BoundAssumption DEF Init
<1>3. /\ templates \in TemplatesType
      /\ declared \in [Instance -> Linkages \cup {"absent", "wild"}]
      /\ code \in [Instance -> Bodies \cup {NoTokens}]
      /\ \A i \in Instance : code[i] = NoTokens
  BY DEF Init, TemplatesType
<1>4. TypeOK
  BY <1>1, <1>2, <1>3 DEF TypeOK, Queued, TemplatesType
<1>5. QED
  BY <1>1, <1>2, <1>3, <1>4 DEF IInv, SlotKept, InBody, InstantiatedOnce, ParsedAreDeclared, BodyIsParsed

\* The steps of the source of a unit that leave the requests alone.
LEMMA SourceSteps ==
  ASSUME IInv,
         \/ Begin
         \/ \E t \in Templates, linkage \in {"none", "static"}, body \in Bodies : Define(t, linkage, body)
         \/ \E t \in Templates : Prototype(t)
         \/ EndOfSource
  PROVE  IInv'
<1>1. TypeOK /\ Queued /\ BodyIsParsed
  BY DEF IInv
<1>2. /\ phase \in {"idle", "source"} /\ phase' \in {"source", "instances"}
      /\ UNCHANGED <<forms, declared, code, requests, current, ast, waiting, needed>>
      /\ asked' \in {asked, {}}
  BY DEF Begin, Define, Prototype, EndOfSource, InSource
<1>3. source' \in 0..MaxSource
  BY <1>1, BoundAssumption DEF TypeOK, Begin, Define, Prototype, EndOfSource, InSource
<1>4. templates' \in TemplatesType
  <2>1. templates \in TemplatesType
    BY <1>1 DEF TypeOK, TemplatesType
  <2>2. CASE Begin \/ EndOfSource
    BY <2>1, <2>2 DEF Begin, EndOfSource
  <2>3. CASE \E t \in Templates, linkage \in {"none", "static"}, body \in Bodies : Define(t, linkage, body)
    BY <2>1, <2>3 DEF Define, TemplatesType, Linkages
  <2>4. CASE \E t \in Templates : Prototype(t)
    <3>1. PICK t \in Templates : templates' = [templates EXCEPT ![t].linkage = "extern"]
      BY <2>4 DEF Prototype
    <3>2. [templates[t] EXCEPT !.linkage = "extern"]
            \in [linkage : Linkages \cup {"absent"}, tokens : Bodies \cup {NoTokens}]
      BY <2>1 DEF TemplatesType, Linkages
    <3>3. QED
      BY <2>1, <3>1, <3>2 DEF TemplatesType
  <2>5. QED
    BY <2>2, <2>3, <2>4
<1>5. Queued'
  BY <1>1, <1>2 DEF Queued, ServedInOrder
<1>6. TypeOK'
  BY <1>1, <1>2, <1>3, <1>4, <1>5 DEF TypeOK, Queued, TemplatesType
<1>7. ~InBody /\ ~InBody' /\ current = NoItem /\ ast = <<>>
  BY <1>1, <1>2 DEF BodyIsParsed, InBody
<1>8. QED
  BY <1>2, <1>5, <1>6, <1>7 DEF IInv, SlotKept, InstantiatedOnce, ParsedAreDeclared, BodyIsParsed

\* Units that fail.
LEMMA FailureSteps ==
  ASSUME IInv,
         \/ SourceFails
         \/ \E t \in Templates, linkage \in {"none", "static"} : UnfinishedFails(t, linkage)
         \/ BodyFails
  PROVE  IInv'
<1>1. TypeOK /\ Queued /\ ParsedAreDeclared
  BY DEF IInv
<1>2. Failed /\ declared' = declared
  BY DEF SourceFails, UnfinishedFails, BodyFails
<1>3. templates' \in TemplatesType
  <2>1. templates \in TemplatesType
    BY <1>1 DEF TypeOK, TemplatesType
  <2>2. CASE templates' = templates
    BY <2>1, <2>2
  <2>3. CASE \E t \in Templates, linkage \in {"none", "static"} : UnfinishedFails(t, linkage)
    <3>1. PICK t \in Templates, linkage \in {"none", "static"} : templates' = [templates EXCEPT ![t].linkage = linkage]
      BY <2>3 DEF UnfinishedFails
    <3>2. [templates[t] EXCEPT !.linkage = linkage]
            \in [linkage : Linkages \cup {"absent"}, tokens : Bodies \cup {NoTokens}]
      BY <2>1 DEF TemplatesType, Linkages
    <3>3. QED
      BY <2>1, <3>1, <3>2 DEF TemplatesType
  <2>4. QED
    BY <2>2, <2>3 DEF SourceFails, BodyFails
<1>4. Queued'
  BY <1>1, <1>2, FailedQueues
<1>5. phase' = "idle" /\ current' = NoItem /\ ast' = <<>>
      /\ UNCHANGED <<forms, code, source, asked, needed>>
  BY <1>2 DEF Failed
<1>6. TypeOK'
  BY <1>1, <1>2, <1>3, <1>4, <1>5 DEF TypeOK, Queued, TemplatesType
<1>7. QED
  BY <1>1, <1>2, <1>4, <1>5, <1>6
     DEF IInv, SlotKept, InBody, InstantiatedOnce, ParsedAreDeclared, BodyIsParsed

\* A use in ordinary code.
LEMMA UseTemplateStep ==
  ASSUME IInv, NEW i \in Instance, UseTemplate(i)
  PROVE  IInv'
<1>1. TypeOK /\ Queued /\ templates \in TemplatesType
  BY DEF IInv, TypeOK, TemplatesType
<1>2. phase = "source" /\ Request(i, current)
      /\ UNCHANGED <<forms, templates, declared, code, ast, phase, needed>>
  BY DEF UseTemplate, InSource
<1>3. ~InBody /\ ~InBody' /\ current = NoItem /\ ast = <<>>
  BY <1>2 DEF IInv, BodyIsParsed, InBody
<1>4. Queued'
  BY <1>1, <1>2, RequestQueues
<1>5. current' = NoItem /\ asked' \subseteq Instance
  BY <1>1, <1>2, <1>3 DEF Request, TypeOK
<1>6. source' \in 0..MaxSource
  BY <1>1, BoundAssumption DEF TypeOK, UseTemplate, InSource
<1>7. TypeOK'
  BY <1>1, <1>2, <1>4, <1>5, <1>6 DEF TypeOK, Queued
<1>8. QED
  BY <1>2, <1>3, <1>4, <1>5, <1>7
     DEF IInv, SlotKept, InstantiatedOnce, ParsedAreDeclared, BodyIsParsed

\* A use in the body of an instance: the slot of the request that is served keeps
\* a request, or is freed with the ring it was in.
LEMMA BodyUseStep ==
  ASSUME IInv, BodyUse
  PROVE  IInv'
<1> DEFINE serving == [current EXCEPT !.left = Tail(@)]
           use == Head(current.left)
<1>1. TypeOK /\ Queued /\ templates \in TemplatesType /\ BodyIsParsed /\ SlotKept
  BY DEF IInv, TypeOK, TemplatesType
<1>2. InBody /\ current.left # <<>> /\ Request(Used(use), serving)
      /\ UNCHANGED <<forms, templates, declared, code, ast, phase, source, needed>>
  BY DEF BodyUse
<1>3. current \in CurrentType
  BY <1>1, <1>2 DEF BodyIsParsed
<1>4. Used(use) \in Instance
  <2>1. use \in Use
    BY <1>2, <1>3 DEF CurrentType
  <2>2. current.instance \in Instance
    BY <1>3 DEF CurrentType
  <2>3. QED
    BY <2>1, <2>2 DEF Used, Use, Instance
<1>5. Queued'
  BY <1>1, <1>2, <1>4, RequestQueues
<1>6. /\ serving \in CurrentType
      /\ serving.instance = current.instance /\ serving.tokens = current.tokens
      /\ serving.slot = current.slot /\ serving.linkage = current.linkage
  <2>1. Tail(current.left) \in Seq(Use)
    BY <1>2, <1>3 DEF CurrentType
  <2>2. QED
    BY <1>3, <2>1 DEF CurrentType
<1> HIDE DEF serving
<1>7. PICK item \in RequestType :
        /\ requests' = queue_push(requests, item)
        /\ requests.list \in [0..(requests.capacity - 1) -> RequestType \cup {NoItem}]
  BY <1>1, <1>2, <1>4, RequestQueues DEF Queued, WellFormed, Request
<1>8. serving # NoItem
  BY <1>6, NoItemAssumption
<1>9. \/ current' = serving /\ (~Full(requests) \/ serving.slot = Freed)
      \/ /\ Full(requests) /\ serving.slot # Freed
         /\ current' = [serving EXCEPT !.slot = Freed, !.linkage = requests.list[serving.slot].linkage]
  BY <1>2, <1>8 DEF Request
<1>10. SlotKept' /\ current' \in CurrentType /\ current'.instance = current.instance
  <2>1. CASE serving.slot = Freed
    BY <1>6, <1>9, <2>1 DEF SlotKept
  <2>2. CASE ~Full(requests) /\ serving.slot # Freed
    <3>1. current.slot \in 0..(requests.capacity - 1) /\ requests.list[current.slot] \in RequestType
      BY <1>1, <1>2, <1>6, <2>2 DEF SlotKept
    <3>2. requests'.capacity = requests.capacity /\ requests'.list = [requests.list EXCEPT ![requests.head] = item]
      BY <1>7, <2>2 DEF queue_push
    <3>3. requests'.list[current.slot] \in RequestType
      BY <1>7, <3>1, <3>2
    <3>4. QED
      BY <1>6, <1>9, <2>2, <3>1, <3>2, <3>3 DEF SlotKept
  <2>3. CASE Full(requests) /\ serving.slot # Freed
    <3>1. requests.list[serving.slot].linkage \in Linkages
      BY <1>1, <1>2, <1>6, <2>3 DEF SlotKept, RequestType
    <3>2. current' = [serving EXCEPT !.slot = Freed, !.linkage = requests.list[serving.slot].linkage]
      BY <1>9, <2>3
    <3>3. current' \in CurrentType /\ current'.instance = serving.instance /\ current'.slot = Freed
      BY <1>6, <3>1, <3>2 DEF CurrentType
    <3>4. QED
      BY <1>6, <3>3 DEF SlotKept
  <2>4. QED
    BY <2>1, <2>2, <2>3
<1>11. asked' \subseteq Instance
  BY <1>1, <1>2, <1>4 DEF TypeOK, Request
<1>12. TypeOK'
  BY <1>1, <1>2, <1>5, <1>10, <1>11 DEF TypeOK, Queued
<1>13. InBody' /\ InstantiatedOnce /\ ParsedAreDeclared
  BY <1>2 DEF InBody, IInv
<1>14. QED
  BY <1>1, <1>2, <1>5, <1>10, <1>12, <1>13
     DEF IInv, InBody, InstantiatedOnce, ParsedAreDeclared, BodyIsParsed

\* A request for an instance that is there, or of a template that has no body.
LEMMA ServedSteps ==
  ASSUME IInv, Skip \/ DeclareExtern
  PROVE  IInv'
<1>1. TypeOK /\ Queued /\ ParsedAreDeclared /\ BodyIsParsed /\ InstantiatedOnce
  BY DEF IInv
<1>2. /\ phase = "instances" /\ requests.length > 0 /\ Take
      /\ UNCHANGED <<forms, templates, code, current, ast, phase, source, asked, needed>>
      /\ declared' = declared \/ declared' = [declared EXCEPT ![NextRequest.instance] = "extern"]
  BY DEF Skip, DeclareExtern, Serving
<1>3. Queued' /\ NextRequest \in RequestType
  BY <1>1, <1>2, TakeQueues
<1>4. /\ declared' \in [Instance -> Linkages \cup {"absent", "wild"}]
      /\ \A i \in Instance : declared[i] # "absent" => declared'[i] # "absent"
  <2>1. declared \in [Instance -> Linkages \cup {"absent", "wild"}]
    BY <1>1 DEF TypeOK
  <2>2. QED
    BY <1>2, <2>1 DEF Linkages
<1>5. TypeOK'
  BY <1>1, <1>2, <1>3, <1>4 DEF TypeOK, Queued
<1>6. ~InBody /\ ~InBody'
  BY <1>2 DEF InBody
<1>7. \A n \in DOMAIN ast : ast[n].instance \in Instance
  BY <1>1, NodeOfUnit DEF TypeOK
<1>8. ParsedAreDeclared'
  BY <1>1, <1>2, <1>4, <1>7 DEF ParsedAreDeclared
<1>9. QED
  BY <1>1, <1>2, <1>3, <1>5, <1>6, <1>8 DEF IInv, SlotKept, InstantiatedOnce, BodyIsParsed

\* A body is parsed for an instance that is not there yet.
LEMMA InstantiateStep ==
  ASSUME IInv, Instantiate
  PROVE  IInv'
<1>1. TypeOK /\ Queued /\ ParsedAreDeclared /\ BodyIsParsed /\ InstantiatedOnce
  BY DEF IInv
<1>2. /\ phase = "instances" /\ requests.length > 0 /\ Take /\ phase' = "body"
      /\ UNCHANGED <<forms, templates, declared, code, ast, source, asked, needed>>
      /\ ~Known(NextRequest.instance) /\ NextRequest.tokens # NoTokens
      /\ current' = [instance |-> NextRequest.instance, tokens |-> NextRequest.tokens,
                     left |-> NextRequest.tokens, slot |-> requests.tail, linkage |-> NextRequest.linkage]
  BY DEF Instantiate, Serving
<1>3. Queued' /\ NextRequest \in RequestType
  BY <1>1, <1>2, TakeQueues
<1>4. /\ requests.tail \in Nat /\ requests.tail \in 0..(requests.capacity - 1)
      /\ requests'.capacity = requests.capacity /\ requests'.list = requests.list
      /\ requests.list[requests.tail] = NextRequest
  BY <1>1, <1>2 DEF Queued, WellFormed, Take, queue_pop, NextRequest, queue_peek
<1>5. current' \in CurrentType
  <2>1. NextRequest.tokens \in Bodies /\ NextRequest.tokens \in Seq(Use)
    BY <1>2, <1>3, BodiesAssumption DEF RequestType
  <2>2. NextRequest.instance \in Instance /\ NextRequest.linkage \in Linkages
    BY <1>3 DEF RequestType
  <2>3. QED
    BY <1>2, <1>4, <2>1, <2>2 DEF CurrentType
<1>6. TypeOK'
  BY <1>1, <1>2, <1>3, <1>5 DEF TypeOK, Queued, CurrentType
<1>7. SlotKept'
  BY <1>2, <1>3, <1>4 DEF SlotKept
<1>8. /\ InBody' /\ current'.instance = NextRequest.instance /\ NextRequest.instance \in Instance
      /\ declared[NextRequest.instance] = "absent"
  BY <1>2, <1>3 DEF InBody, Known, RequestType
<1>9. /\ code[NextRequest.instance] = NoTokens
      /\ \A n \in DOMAIN ast : ast[n].instance # NextRequest.instance
  BY <1>1, <1>8 DEF ParsedAreDeclared
<1>10. QED
  BY <1>1, <1>2, <1>3, <1>5, <1>6, <1>7, <1>8, <1>9
     DEF IInv, InstantiatedOnce, ParsedAreDeclared, BodyIsParsed

\* The instance whose body has been parsed is declared and joins the unit.
LEMMA EndOfBodyStep ==
  ASSUME IInv, EndOfBody
  PROVE  IInv'
<1> DEFINE node == [instance |-> current.instance, tokens |-> current.tokens]
<1>1. TypeOK /\ Queued /\ ParsedAreDeclared /\ BodyIsParsed /\ InstantiatedOnce /\ SlotKept
  BY DEF IInv
<1>2. /\ InBody /\ phase' = "instances" /\ current' = NoItem /\ ast' = Append(ast, node)
      /\ UNCHANGED <<forms, templates, code, requests, source, waiting, asked, needed>>
  BY DEF EndOfBody
<1>3. current \in CurrentType /\ declared[current.instance] = "absent"
  BY <1>1, <1>2 DEF BodyIsParsed
<1>4. PICK linkage \in Found : declared' = [declared EXCEPT ![current.instance] = linkage]
  BY DEF EndOfBody
<1>5. linkage \in Linkages \cup {"wild"}
  <2>1. CASE current.slot = Freed
    BY <1>3, <1>4, <2>1 DEF Found, CurrentType
  <2>2. CASE current.slot # Freed
    BY <1>1, <1>2, <1>4, <2>2 DEF Found, SlotKept, RequestType
  <2>3. QED
    BY <2>1, <2>2
<1>6. current.instance \in Instance /\ node \in [instance : Instance, tokens : Bodies]
      /\ node.instance = current.instance
  BY <1>3 DEF CurrentType
<1> HIDE DEF node
<1>7. /\ declared' \in [Instance -> Linkages \cup {"absent", "wild"}]
      /\ declared'[current.instance] # "absent"
      /\ \A i \in Instance : declared[i] # "absent" => declared'[i] # "absent"
  <2>1. declared \in [Instance -> Linkages \cup {"absent", "wild"}]
    BY <1>1 DEF TypeOK
  <2>2. QED
    BY <1>4, <1>5, <1>6, <2>1 DEF Linkages
<1>8. ast \in Seq([instance : Instance, tokens : Bodies])
  BY <1>1 DEF TypeOK
<1>9. /\ ast' \in Seq([instance : Instance, tokens : Bodies])
      /\ DOMAIN ast = 1..Len(ast) /\ DOMAIN ast' = 1..(Len(ast) + 1) /\ Len(ast) \in Nat
      /\ ast'[Len(ast) + 1].instance = current.instance
      /\ \A n \in 1..Len(ast) : ast'[n] = ast[n]
  BY <1>2, <1>6, <1>8
<1>10. TypeOK'
  BY <1>1, <1>2, <1>7, <1>9 DEF TypeOK
<1>11. /\ code[current.instance] = NoTokens
       /\ \A n \in 1..Len(ast) : ast[n].instance # current.instance
  BY <1>1, <1>2, <1>9 DEF InstantiatedOnce
<1>12. ASSUME NEW m \in DOMAIN ast', NEW n \in DOMAIN ast', ast'[m].instance = ast'[n].instance
       PROVE  m = n
  BY <1>1, <1>9, <1>11, <1>12 DEF InstantiatedOnce
<1>13. ASSUME NEW n \in DOMAIN ast'
       PROVE  code[ast'[n].instance] = NoTokens /\ declared'[ast'[n].instance] # "absent"
  <2>1. CASE n \in 1..Len(ast)
    <3>1. ast'[n] = ast[n] /\ ast[n].instance \in Instance
      BY <1>8, <1>9, <2>1, NodeOfUnit
    <3>2. QED
      BY <1>1, <1>7, <1>9, <2>1, <3>1 DEF InstantiatedOnce, ParsedAreDeclared
  <2>2. CASE n = Len(ast) + 1
    BY <1>7, <1>9, <1>11, <2>2
  <2>3. QED
    BY <1>9, <2>1, <2>2
<1>14. ~InBody' /\ phase' = "instances"
  BY <1>2 DEF InBody
<1>15. InstantiatedOnce'
  BY <1>2, <1>12, <1>13, <1>14 DEF InstantiatedOnce
<1>16. ParsedAreDeclared'
  BY <1>1, <1>2, <1>7, <1>13 DEF ParsedAreDeclared
<1>17. Queued'
  BY <1>1, <1>2 DEF Queued, ServedInOrder
<1>18. QED
  BY <1>2, <1>10, <1>14, <1>15, <1>16, <1>17 DEF IInv, SlotKept, BodyIsParsed

\* A program that goes astray.
LEMMA ReadsFreedStep ==
  ASSUME IInv, ReadsFreed
  PROVE  IInv'
<1>1. TypeOK /\ Queued /\ InstantiatedOnce /\ ParsedAreDeclared
  BY DEF IInv
<1>2. /\ phase' = "astray" /\ current' = NoItem
      /\ UNCHANGED <<forms, templates, declared, code, requests, ast, source, waiting, asked, needed>>
  BY DEF ReadsFreed
<1>3. TypeOK'
  BY <1>1, <1>2 DEF TypeOK
<1>4. Queued'
  BY <1>1, <1>2 DEF Queued, ServedInOrder
<1>5. ~InBody'
  BY <1>2 DEF InBody
<1>6. QED
  BY <1>1, <1>2, <1>3, <1>4, <1>5 DEF IInv, SlotKept, InstantiatedOnce, ParsedAreDeclared, BodyIsParsed

\* The unit is compiled.
LEMMA EndOfUnitStep ==
  ASSUME IInv, EndOfUnit
  PROVE  IInv'
<1>1. TypeOK /\ Queued /\ ParsedAreDeclared /\ BodyIsParsed
  BY DEF IInv
<1>2. /\ phase = "instances" /\ phase' = "idle" /\ ast' = <<>> /\ needed' = needed \cup asked
      /\ UNCHANGED <<forms, templates, declared, requests, current, source, waiting, asked>>
  BY DEF EndOfUnit
<1>3. ast \in Seq([instance : Instance, tokens : Bodies]) /\ code \in [Instance -> Bodies \cup {NoTokens}]
  BY <1>1 DEF TypeOK
<1>4. ASSUME NEW i \in Instance
      PROVE  /\ code'[i] \in Bodies \cup {NoTokens}
             /\ code'[i] # NoTokens => declared[i] # "absent"
  <2> DEFINE node == CHOOSE node \in ToSet(ast) : node.instance = i
  <2>1. CASE \E n \in DOMAIN ast : ast[n].instance = i /\ declared[i] # "extern"
    <3>1. PICK n \in DOMAIN ast : ast[n].instance = i
      BY <2>1
    <3>2. ast[n] \in ToSet(ast)
      BY DEF ToSet
    <3>3. node \in ToSet(ast)
      BY <3>1, <3>2
    <3>4. node \in [instance : Instance, tokens : Bodies]
      BY <1>3, <3>3, NodeOfUnit DEF ToSet
    <3>5. code'[i] = node.tokens
      BY <2>1 DEF EndOfUnit, Compiled
    <3>6. declared[i] # "absent"
      BY <1>1, <3>1 DEF ParsedAreDeclared
    <3>7. QED
      BY <3>4, <3>5, <3>6
  <2>2. CASE ~\E n \in DOMAIN ast : ast[n].instance = i /\ declared[i] # "extern"
    <3>1. code'[i] = code[i]
      BY <2>2 DEF EndOfUnit, Compiled
    <3>2. QED
      BY <1>1, <1>3, <3>1 DEF ParsedAreDeclared
  <2>3. QED
    BY <2>1, <2>2
<1>5. code' \in [Instance -> Bodies \cup {NoTokens}]
  <2>1. code' = [i \in Instance |-> code'[i]]
    BY DEF EndOfUnit
  <2>2. QED
    BY <1>4, <2>1
<1>6. TypeOK'
  BY <1>1, <1>2, <1>5 DEF TypeOK
<1>7. ~InBody /\ ~InBody' /\ current = NoItem
  BY <1>1, <1>2 DEF InBody, BodyIsParsed
<1>8. Queued'
  BY <1>1, <1>2 DEF Queued, ServedInOrder
<1>9. QED
  BY <1>2, <1>4, <1>6, <1>7, <1>8
     DEF IInv, SlotKept, InstantiatedOnce, ParsedAreDeclared, BodyIsParsed

\* The invariant holds whatever the source, the templates and the failures are.
THEOREM UnitInvariance == Spec => []IInv
<1>1. Init => IInv
  BY InitInvariant
<1>2. IInv /\ [Next]_vars => IInv'
  <2> SUFFICES ASSUME IInv, [Next]_vars PROVE IInv'
    OBVIOUS
  <2>1. CASE Begin \/ EndOfSource \/ \E t \in Templates : Prototype(t)
    BY <2>1, SourceSteps
  <2>2. ASSUME NEW t \in Templates, NEW linkage \in {"none", "static"}, NEW body \in Bodies,
               Define(t, linkage, body)
        PROVE  IInv'
    BY <2>2, SourceSteps
  <2>3. CASE \/ SourceFails \/ BodyFails
             \/ \E t \in Templates, linkage \in {"none", "static"} : UnfinishedFails(t, linkage)
    BY <2>3, FailureSteps
  <2>4. ASSUME NEW i \in Instance, UseTemplate(i) PROVE IInv'
    BY <2>4, UseTemplateStep
  <2>5. CASE BodyUse
    BY <2>5, BodyUseStep
  <2>6. CASE Skip \/ DeclareExtern
    BY <2>6, ServedSteps
  <2>7. CASE Instantiate
    BY <2>7, InstantiateStep
  <2>8. CASE EndOfBody
    BY <2>8, EndOfBodyStep
  <2>9. CASE EndOfUnit
    BY <2>9, EndOfUnitStep
  <2>10. CASE ReadsFreed
    BY <2>10, ReadsFreedStep
  <2>11. CASE UNCHANGED vars
    BY <2>11 DEF vars, IInv, TypeOK, Queued, ServedInOrder, SlotKept, InBody, InstantiatedOnce,
                 ParsedAreDeclared, BodyIsParsed
  <2>12. QED
    BY <2>1, <2>2, <2>3, <2>4, <2>5, <2>6, <2>7, <2>8, <2>9, <2>10, <2>11 DEF Next, Parse
<1>3. QED
  BY <1>1, <1>2, PTL DEF Spec

\* Requests are served in the order in which they were made, for rings of every
\* initial size.
THEOREM RequestsInOrder == Spec => []ServedInOrder
<1>1. IInv => ServedInOrder
  BY DEF IInv, Queued
<1>2. QED
  BY <1>1, UnitInvariance, PTL

\* No instance is compiled twice, for every number of templates and types and all
\* bodies.
THEOREM CompiledOnce == Spec => []InstantiatedOnce
<1>1. IInv => InstantiatedOnce
  BY DEF IInv
<1>2. QED
  BY <1>1, UnitInvariance, PTL

\* The types of the variables of Instantiation, with a ring that is well formed.
THEOREM UnitTypeCorrect == Spec => []TypeOK
<1>1. IInv => TypeOK
  BY DEF IInv
<1>2. QED
  BY <1>1, UnitInvariance, PTL

-----------------------------------------------------------------------------
(***************************************************************************)
(* The third part shows that programs without the other forms of source    *)
(* are complete.  Nothing in them is extern, so that what is declared is   *)
(* compiled, with the unit or before; and what a unit has asked for is     *)
(* declared, waits, or is the instance whose body is parsed.               *)
(***************************************************************************)
PlainRequest == {r \in RequestType : r.linkage # "extern" /\ r.tokens # NoTokens}

PlainTemplates ==
  \A t \in Templates :
    /\ templates[t].linkage # "extern"
    /\ templates[t].linkage # "absent" => templates[t].tokens # NoTokens

PlainQueue ==
  /\ WellFormed(requests, PlainRequest)
  /\ InBody => /\ current.linkage # "extern"
               /\ current.slot # Freed => requests.list[current.slot] \in PlainRequest

DeclaredIsCompiled ==
  \A i \in Instance :
    /\ declared[i] # "extern"
    /\ declared[i] # "absent" => code[i] # NoTokens \/ \E n \in DOMAIN ast : ast[n].instance = i

AskedIsKept ==
  phase \notin {"idle", "astray"} =>
    \A i \in asked : \/ declared[i] # "absent"
                     \/ \E n \in DOMAIN waiting : waiting[n] = i
                     \/ InBody /\ current.instance = i

NeededIsCompiled == \A i \in needed : code[i] # NoTokens

Plain ==
  forms = {} => PlainTemplates /\ PlainQueue /\ DeclaredIsCompiled /\ AskedIsKept /\ NeededIsCompiled

\* What holds before the first unit.
LEMMA PlainInit == Init => Plain
<1> SUFFICES ASSUME Init PROVE Plain
  OBVIOUS
<1>1. WellFormed(requests, PlainRequest)
  BY NewIsEmpty DEF Init
<1>2. PlainTemplates
  BY DEF Init, PlainTemplates
<1>3. phase = "idle" /\ needed = {} /\ \A i \in Instance : declared[i] = "absent"
  BY DEF Init
<1>4. QED
  BY <1>1, <1>2, <1>3 DEF Plain, PlainQueue, InBody, DeclaredIsCompiled, AskedIsKept, NeededIsCompiled

\* The steps of the source of a unit that leave the requests alone, and its failure.
LEMMA PlainSourceSteps ==
  ASSUME IInv, Plain, forms = {},
         \/ Begin
         \/ \E t \in Templates, linkage \in {"none", "static"}, body \in Bodies : Define(t, linkage, body)
         \/ EndOfSource
         \/ SourceFails
  PROVE  Plain'
<1>1. TypeOK /\ BodyIsParsed /\ PlainTemplates /\ PlainQueue /\ DeclaredIsCompiled /\ AskedIsKept
      /\ NeededIsCompiled
  BY DEF IInv, Plain
<1>2. /\ phase \in {"idle", "source"} /\ phase' \in {"source", "instances", "idle"} /\ ast = <<>> /\ ast' = <<>>
      /\ UNCHANGED <<forms, declared, code, needed>>
  BY <1>1 DEF Begin, Define, EndOfSource, SourceFails, Failed, InSource, BodyIsParsed
<1>3. PlainTemplates'
  <2>1. CASE \E t \in Templates, linkage \in {"none", "static"}, body \in Bodies : Define(t, linkage, body)
    <3>1. PICK t \in Templates, linkage \in {"none", "static"}, body \in Bodies :
                 templates' = [templates EXCEPT ![t] = [linkage |-> linkage, tokens |-> body]]
      BY <2>1 DEF Define
    <3>2. body # NoTokens
      BY BodiesAssumption
    <3>3. templates \in TemplatesType
      BY <1>1 DEF TypeOK, TemplatesType
    <3>4. ASSUME NEW u \in Templates
          PROVE  /\ templates'[u].linkage # "extern"
                 /\ templates'[u].linkage # "absent" => templates'[u].tokens # NoTokens
      <4>1. CASE u = t
        <5>1. templates'[u] = [linkage |-> linkage, tokens |-> body]
          BY <3>1, <3>3, <4>1 DEF TemplatesType
        <5>2. QED
          BY <3>2, <5>1
      <4>2. CASE u # t
        <5>1. templates'[u] = templates[u]
          BY <3>1, <3>3, <4>2 DEF TemplatesType
        <5>2. /\ templates[u].linkage # "extern"
              /\ templates[u].linkage # "absent" => templates[u].tokens # NoTokens
          BY <1>1 DEF PlainTemplates
        <5>3. QED
          BY ONLY <5>1, <5>2
      <4>3. QED
        BY <4>1, <4>2
    <3>5. QED
      BY <3>4 DEF PlainTemplates
  <2>2. CASE UNCHANGED templates
    BY <1>1, <2>2 DEF PlainTemplates
  <2>3. QED
    BY <2>1, <2>2 DEF Begin, EndOfSource, SourceFails
<1>4. PlainQueue'
  <2>1. CASE SourceFails
    <3>1. WellFormed(requests', PlainRequest)
      BY <1>1, <2>1, DrainedIsEmpty DEF SourceFails, Failed, PlainQueue
    <3>2. QED
      BY <2>1, <3>1 DEF SourceFails, Failed, PlainQueue, InBody
  <2>2. CASE UNCHANGED requests
    BY <1>1, <1>2, <2>2 DEF PlainQueue, InBody
  <2>3. QED
    BY <2>1, <2>2 DEF Begin, Define, EndOfSource
<1>5. DeclaredIsCompiled' /\ NeededIsCompiled'
  BY <1>1, <1>2 DEF DeclaredIsCompiled, NeededIsCompiled
<1>6. AskedIsKept'
  <2>1. CASE Begin
    BY <2>1 DEF Begin, AskedIsKept
  <2>2. CASE SourceFails
    BY <2>2 DEF SourceFails, Failed, AskedIsKept
  <2>3. CASE phase = "source" /\ UNCHANGED <<declared, waiting, asked>>
    BY <1>1, <2>3 DEF AskedIsKept, InBody
  <2>4. QED
    BY <2>1, <2>2, <2>3 DEF Define, EndOfSource, InSource
<1>7. QED
  BY <1>3, <1>4, <1>5, <1>6 DEF Plain

\* The request of a template that has a body.
LEMMA PlainRequested ==
  ASSUME IInv, PlainTemplates, PlainQueue, NEW i \in Instance, NEW serving, Request(i, serving)
  PROVE  /\ WellFormed(requests', PlainRequest)
         /\ \E item \in PlainRequest : requests' = queue_push(requests, item)
<1> DEFINE item == [instance |-> i, linkage |-> templates[i.template].linkage, tokens |-> templates[i.template].tokens]
<1>1. item \in RequestType
  BY RequestQueues DEF IInv, TypeOK, TemplatesType
<1>2. i.template \in Templates /\ templates[i.template].linkage # "absent"
  BY DEF Instance, Request
<1>3. item.linkage # "extern" /\ item.tokens # NoTokens
  <2>1. /\ templates[i.template].linkage # "extern"
        /\ templates[i.template].tokens # NoTokens
    BY <1>2 DEF PlainTemplates
  <2>2. item.linkage = templates[i.template].linkage /\ item.tokens = templates[i.template].tokens
    OBVIOUS
  <2>3. QED
    BY ONLY <2>1, <2>2
<1>4. requests' = queue_push(requests, item)
  BY DEF Request
<1> HIDE DEF item
<1>5. item \in PlainRequest
  BY <1>1, <1>3 DEF PlainRequest
<1>6. QED
  BY <1>4, <1>5, PushIsAppend DEF PlainQueue

\* Uses of templates, in ordinary code and in bodies.
LEMMA PlainUses ==
  ASSUME IInv, Plain, forms = {}, BodyUse \/ \E i \in Instance : UseTemplate(i)
  PROVE  Plain'
<1>1. TypeOK /\ Queued /\ BodyIsParsed /\ PlainTemplates /\ PlainQueue /\ DeclaredIsCompiled /\ AskedIsKept
      /\ NeededIsCompiled
  BY DEF IInv, Plain
<1>2. PICK i \in Instance, serving \in CurrentType \cup {NoItem} :
        /\ Request(i, serving)
        /\ UNCHANGED <<forms, templates, declared, code, ast, phase, needed>>
        /\ phase \notin {"idle", "astray"}
        /\ InBody => /\ serving.instance = current.instance /\ serving.slot = current.slot
                     /\ serving.linkage = current.linkage /\ serving \in CurrentType
        /\ ~InBody => serving = NoItem
  <2>1. ASSUME NEW i \in Instance, UseTemplate(i)
        PROVE  /\ Request(i, current) /\ ~InBody /\ phase \notin {"idle", "astray"} /\ current = NoItem
               /\ UNCHANGED <<forms, templates, declared, code, ast, phase, needed>>
    BY <1>1, <2>1 DEF UseTemplate, InSource, InBody, BodyIsParsed
  <2>2. CASE BodyUse
    <3> DEFINE serving == [current EXCEPT !.left = Tail(@)]
               use == Head(current.left)
    <3>1. InBody /\ current.left # <<>> /\ Request(Used(use), serving)
          /\ UNCHANGED <<forms, templates, declared, code, ast, phase, needed>>
      BY <2>2 DEF BodyUse
    <3>2. current \in CurrentType
      BY <1>1, <3>1 DEF BodyIsParsed
    <3>3. use \in Use /\ Tail(current.left) \in Seq(Use) /\ current.instance \in Instance
      BY <3>1, <3>2 DEF CurrentType
    <3>4. Used(use) \in Instance
      BY <3>3 DEF Used, Use, Instance
    <3>5. /\ serving.instance = current.instance /\ serving.slot = current.slot
          /\ serving.linkage = current.linkage /\ serving \in CurrentType
      BY <3>2, <3>3 DEF CurrentType
    <3> HIDE DEF serving
    <3>6. QED
      BY <3>1, <3>4, <3>5 DEF InBody
  <2>3. QED
    BY <2>1, <2>2
<1>3. WellFormed(requests', PlainRequest) /\ \E item \in PlainRequest : requests' = queue_push(requests, item)
  BY <1>1, <1>2, PlainRequested
<1>4. PlainQueue'
  <2>1. CASE ~InBody
    BY <1>2, <1>3, <2>1 DEF PlainQueue, InBody
  <2>2. CASE InBody
    <3>1. serving \in CurrentType /\ serving.slot = current.slot /\ serving.linkage = current.linkage
          /\ serving # NoItem /\ current.linkage # "extern"
      BY <1>1, <1>2, <2>2, NoItemAssumption DEF PlainQueue
    <3>2. CASE serving.slot = Freed
      <4>1. current' = serving
        BY <1>2, <3>2 DEF Request
      <4>2. QED
        BY <1>3, <3>1, <3>2, <4>1 DEF PlainQueue
    <3>3. CASE ~Full(requests) /\ serving.slot # Freed
      <4>1. current' = serving
        BY <1>2, <3>3 DEF Request
      <4>2. PICK item \in PlainRequest : requests' = queue_push(requests, item)
        BY <1>3
      <4>3. requests'.list = [requests.list EXCEPT ![requests.head] = item]
        BY <3>3, <4>2 DEF queue_push
      <4>4. current.slot \in 0..(requests.capacity - 1) /\ requests.list[current.slot] \in PlainRequest
        BY <1>1, <2>2, <3>1, <3>3 DEF PlainQueue, IInv, SlotKept
      <4>5. requests.list \in [0..(requests.capacity - 1) -> PlainRequest \cup {NoItem}]
        BY <1>1 DEF PlainQueue, WellFormed
      <4>6. requests'.list[current.slot] \in PlainRequest
        BY <4>2, <4>3, <4>4, <4>5
      <4>7. QED
        BY <1>3, <3>1, <4>1, <4>6 DEF PlainQueue
    <3>4. CASE Full(requests) /\ serving.slot # Freed
      <4>1. requests.list[serving.slot] \in PlainRequest
        BY <1>1, <2>2, <3>1, <3>4 DEF PlainQueue
      <4>2. requests.list[serving.slot].linkage # "extern"
        BY <4>1 DEF PlainRequest
      <4>3. current' = [serving EXCEPT !.slot = Freed, !.linkage = requests.list[serving.slot].linkage]
        BY <1>2, <3>1, <3>4 DEF Request
      <4>4. current'.slot = Freed /\ current'.linkage = requests.list[serving.slot].linkage
        BY <3>1, <4>3 DEF CurrentType
      <4>5. QED
        BY <1>3, <4>2, <4>4 DEF PlainQueue
    <3>5. QED
      BY <3>2, <3>3, <3>4
  <2>3. QED
    BY <2>1, <2>2
<1>5. PlainTemplates' /\ DeclaredIsCompiled' /\ NeededIsCompiled'
  BY <1>1, <1>2 DEF PlainTemplates, DeclaredIsCompiled, NeededIsCompiled
<1>6. AskedIsKept'
  <2>1. asked' = asked \cup {i} /\ waiting' = Append(waiting, i) /\ waiting \in Seq(Instance)
    BY <1>1, <1>2 DEF Request, Queued
  <2>2. /\ DOMAIN waiting' = 1..(Len(waiting) + 1) /\ Len(waiting) + 1 \in DOMAIN waiting'
        /\ waiting'[Len(waiting) + 1] = i
        /\ \A n \in DOMAIN waiting : n \in DOMAIN waiting' /\ waiting'[n] = waiting[n]
    BY <2>1
  <2>3. InBody => InBody' /\ current'.instance = current.instance
    <3>1. CASE InBody
      <4>1. serving \in CurrentType /\ serving.instance = current.instance
        BY <1>2, <3>1
      <4>2. current'.instance = serving.instance
        BY <1>2, <4>1 DEF Request, CurrentType
      <4>3. QED
        BY <1>2, <3>1, <4>1, <4>2 DEF InBody
    <3>2. QED
      BY <3>1
  <2>4. ASSUME NEW j \in asked'
        PROVE  \/ declared'[j] # "absent"
               \/ \E n \in DOMAIN waiting' : waiting'[n] = j
               \/ InBody' /\ current'.instance = j
    <3>1. CASE j = i
      BY <2>2, <3>1
    <3>2. CASE j \in asked
      <4>1. \/ declared[j] # "absent"
            \/ \E n \in DOMAIN waiting : waiting[n] = j
            \/ InBody /\ current.instance = j
        BY <1>1, <1>2, <3>2 DEF AskedIsKept
      <4>2. QED
        BY <1>2, <2>2, <2>3, <4>1
    <3>3. QED
      BY <2>1, <3>1, <3>2
  <2>5. QED
    BY <2>4 DEF AskedIsKept
<1>7. QED
  BY <1>3, <1>4, <1>5, <1>6 DEF Plain

\* The request that is taken up has waited first.
LEMMA TakenIsFirst ==
  ASSUME Queued, Take, requests.length > 0
  PROVE  \A n \in DOMAIN waiting : \/ waiting[n] = NextRequest.instance
                                   \/ \E m \in DOMAIN waiting' : waiting'[m] = waiting[n]
<1>1. /\ waiting \in Seq(Instance) /\ waiting' = Tail(waiting) /\ Len(waiting) = requests.length
      /\ \A n \in 1..Len(waiting) : Contents(requests)[n].instance = waiting[n]
      /\ requests.length \in Nat
  BY DEF Queued, ServedInOrder, Take, WellFormed
<1>2. Contents(requests)[1] = NextRequest
  BY PopIsTail DEF Queued, NextRequest
<1>3. waiting # <<>> /\ waiting[1] = NextRequest.instance
  BY <1>1, <1>2
<1>4. ASSUME NEW n \in DOMAIN waiting, n # 1
      PROVE  n - 1 \in DOMAIN waiting' /\ waiting'[n - 1] = waiting[n]
  BY <1>1, <1>3, <1>4
<1>5. QED
  BY <1>3, <1>4

\* Requests that are taken up: every one has a body.
LEMMA PlainTaken ==
  ASSUME IInv, Plain, forms = {}, Skip \/ DeclareExtern \/ Instantiate
  PROVE  Plain'
<1>1. TypeOK /\ Queued /\ BodyIsParsed /\ PlainTemplates /\ PlainQueue /\ DeclaredIsCompiled /\ AskedIsKept
      /\ NeededIsCompiled
  BY DEF IInv, Plain
<1>2. /\ phase = "instances" /\ requests.length > 0 /\ Take
      /\ UNCHANGED <<forms, templates, code, ast, asked, needed>>
  BY DEF Skip, DeclareExtern, Instantiate, Serving
<1>3. NextRequest \in PlainRequest /\ WellFormed(requests', PlainRequest)
  BY <1>1, <1>2, PopIsTail DEF PlainQueue, Take, NextRequest
<1>4. NextRequest.linkage # "extern" /\ NextRequest.tokens # NoTokens
  BY <1>3 DEF PlainRequest
<1>5. /\ Skip \/ Instantiate
      /\ declared' = declared
  BY <1>4 DEF Skip, DeclareExtern, Instantiate
<1>6. PlainTemplates' /\ DeclaredIsCompiled' /\ NeededIsCompiled'
  BY <1>1, <1>2, <1>5 DEF PlainTemplates, DeclaredIsCompiled, NeededIsCompiled
<1>7. CASE Skip
  <2>1. Known(NextRequest.instance) /\ UNCHANGED <<current, phase>>
    BY <1>7 DEF Skip
  <2>2. PlainQueue'
    BY <1>2, <1>3, <2>1 DEF PlainQueue, InBody
  <2>3. AskedIsKept'
    BY <1>1, <1>2, <1>5, <2>1, TakenIsFirst DEF AskedIsKept, InBody, Known
  <2>4. QED
    BY <1>6, <2>2, <2>3 DEF Plain
<1>8. CASE Instantiate
  <2>1. /\ phase' = "body"
        /\ current' = [instance |-> NextRequest.instance, tokens |-> NextRequest.tokens,
                       left |-> NextRequest.tokens, slot |-> requests.tail, linkage |-> NextRequest.linkage]
    BY <1>8 DEF Instantiate
  <2>2. /\ current'.instance = NextRequest.instance /\ current'.linkage = NextRequest.linkage
        /\ current'.slot = requests.tail
    BY <2>1
  <2>3. requests'.list[requests.tail] = NextRequest
    BY <1>2 DEF Take, queue_pop, NextRequest, queue_peek
  <2>4. PlainQueue'
    BY <1>3, <1>4, <2>2, <2>3 DEF PlainQueue
  <2>5. AskedIsKept'
    BY <1>1, <1>2, <1>5, <2>1, <2>2, TakenIsFirst DEF AskedIsKept, InBody
  <2>6. QED
    BY <1>6, <2>4, <2>5 DEF Plain
<1>9. QED
  BY <1>5, <1>7, <1>8

\* The instance whose body has been parsed is not extern.
LEMMA PlainEndOfBody ==
  ASSUME IInv, Plain, forms = {}, EndOfBody
  PROVE  Plain'
<1> DEFINE node == [instance |-> current.instance, tokens |-> current.tokens]
<1>1. TypeOK /\ SlotKept /\ BodyIsParsed /\ PlainTemplates /\ PlainQueue /\ DeclaredIsCompiled /\ AskedIsKept
      /\ NeededIsCompiled
  BY DEF IInv, Plain
<1>2. /\ InBody /\ phase' = "instances" /\ ast' = Append(ast, node)
      /\ UNCHANGED <<forms, templates, code, requests, waiting, asked, needed>>
  BY DEF EndOfBody
<1>3. current \in CurrentType
  BY <1>1, <1>2 DEF BodyIsParsed
<1>4. PICK linkage \in Found : declared' = [declared EXCEPT ![current.instance] = linkage]
  BY DEF EndOfBody
<1>5. linkage \notin {"extern", "absent"}
  <2>1. CASE current.slot = Freed
    BY <1>1, <1>2, <1>3, <1>4, <2>1 DEF Found, PlainQueue, CurrentType, Linkages
  <2>2. CASE current.slot # Freed
    <3>1. requests.list[current.slot] \in PlainRequest
      BY <1>1, <1>2, <2>2 DEF PlainQueue
    <3>2. linkage = requests.list[current.slot].linkage
      BY <1>4, <2>2 DEF Found
    <3>3. QED
      BY <3>1, <3>2 DEF PlainRequest, RequestType, Linkages
  <2>3. QED
    BY <2>1, <2>2
<1>6. /\ node \in [instance : Instance, tokens : Bodies] /\ current.instance \in Instance
      /\ node.instance = current.instance
  BY <1>3 DEF CurrentType
<1> HIDE DEF node
<1>7. /\ DOMAIN ast' = 1..(Len(ast) + 1) /\ Len(ast) + 1 \in DOMAIN ast'
      /\ ast'[Len(ast) + 1].instance = current.instance
      /\ \A n \in DOMAIN ast : n \in DOMAIN ast' /\ ast'[n] = ast[n]
  BY <1>1, <1>2, <1>6 DEF TypeOK
<1>8. /\ declared'[current.instance] = linkage
      /\ \A i \in Instance : i # current.instance => declared'[i] = declared[i]
  BY <1>1, <1>4, <1>6 DEF TypeOK
<1>9. DeclaredIsCompiled'
  <2>1. ASSUME NEW i \in Instance
        PROVE  /\ declared'[i] # "extern"
               /\ declared'[i] # "absent" => code[i] # NoTokens \/ \E n \in DOMAIN ast' : ast'[n].instance = i
    <3>1. CASE i = current.instance
      BY <1>5, <1>7, <1>8, <3>1
    <3>2. CASE i # current.instance
      <4>1. /\ declared[i] # "extern"
            /\ declared[i] # "absent" => code[i] # NoTokens \/ \E n \in DOMAIN ast : ast[n].instance = i
        BY <1>1 DEF DeclaredIsCompiled
      <4>2. QED
        BY <1>7, <1>8, <3>2, <4>1
    <3>3. QED
      BY <3>1, <3>2
  <2>2. QED
    BY <1>2, <2>1 DEF DeclaredIsCompiled
<1>10. AskedIsKept'
  <2>1. ASSUME NEW i \in asked
        PROVE  declared'[i] # "absent" \/ \E n \in DOMAIN waiting : waiting[n] = i
    <3>1. CASE i = current.instance
      BY <1>5, <1>8, <3>1
    <3>2. CASE i # current.instance
      <4>1. declared[i] # "absent" \/ \E n \in DOMAIN waiting : waiting[n] = i
        BY <1>1, <1>2, <3>2 DEF AskedIsKept, InBody
      <4>2. i \in Instance
        BY <1>1 DEF TypeOK
      <4>3. QED
        BY <1>8, <3>2, <4>1, <4>2
    <3>3. QED
      BY <3>1, <3>2
  <2>2. QED
    BY <1>2, <2>1 DEF AskedIsKept
<1>11. PlainQueue'
  BY <1>1, <1>2 DEF PlainQueue, InBody
<1>12. PlainTemplates' /\ NeededIsCompiled'
  BY <1>1, <1>2 DEF PlainTemplates, NeededIsCompiled
<1>13. QED
  BY <1>9, <1>10, <1>11, <1>12 DEF Plain

\* Everything that has been declared is compiled.
LEMMA PlainEndOfUnit ==
  ASSUME IInv, Plain, forms = {}, EndOfUnit
  PROVE  Plain'
<1>1. TypeOK /\ Queued /\ PlainTemplates /\ PlainQueue /\ DeclaredIsCompiled /\ AskedIsKept /\ NeededIsCompiled
  BY DEF IInv, Plain
<1>2. /\ phase = "instances" /\ requests.length = 0 /\ phase' = "idle" /\ needed' = needed \cup asked
      /\ UNCHANGED <<forms, templates, declared, requests, current, waiting>>
  BY DEF EndOfUnit
<1>3. ASSUME NEW i \in Instance
      PROVE  declared[i] # "absent" \/ code[i] # NoTokens => code'[i] # NoTokens
  <2> DEFINE node == CHOOSE node \in ToSet(ast) : node.instance = i
  <2>1. declared[i] # "extern"
    BY <1>1 DEF DeclaredIsCompiled
  <2>2. CASE \E n \in DOMAIN ast : ast[n].instance = i
    <3>1. PICK n \in DOMAIN ast : ast[n].instance = i
      BY <2>2
    <3>2. ast[n] \in ToSet(ast)
      BY DEF ToSet
    <3>3. node \in ToSet(ast)
      BY <3>1, <3>2
    <3>4. node \in [instance : Instance, tokens : Bodies]
      BY <1>1, <3>3, NodeOfUnit DEF ToSet, TypeOK
    <3>5. code'[i] = node.tokens
      BY <2>1, <2>2 DEF EndOfUnit, Compiled
    <3>6. node.tokens # NoTokens
      BY <3>4, BodiesAssumption
    <3>7. QED
      BY <3>5, <3>6
  <2>3. CASE ~\E n \in DOMAIN ast : ast[n].instance = i
    <3>1. code'[i] = code[i]
      BY <2>3 DEF EndOfUnit, Compiled
    <3>2. declared[i] # "absent" => code[i] # NoTokens
      BY <1>1, <2>3 DEF DeclaredIsCompiled
    <3>3. QED
      BY <3>1, <3>2
  <2>4. QED
    BY <2>2, <2>3
<1>4. \A i \in asked : declared[i] # "absent"
  <2>1. waiting \in Seq(Instance) /\ Len(waiting) = 0
    BY <1>1, <1>2 DEF Queued, ServedInOrder
  <2>2. DOMAIN waiting = {}
    BY <2>1
  <2>3. QED
    BY <1>1, <1>2, <2>2 DEF AskedIsKept, InBody
<1>5. asked \subseteq Instance /\ needed \subseteq Instance
  BY <1>1 DEF TypeOK
<1>6. NeededIsCompiled'
  <2>1. ASSUME NEW i \in needed \cup asked PROVE code'[i] # NoTokens
    BY <1>1, <1>3, <1>4, <1>5 DEF NeededIsCompiled
  <2>2. QED
    BY <1>2, <2>1 DEF NeededIsCompiled
<1>7. DeclaredIsCompiled'
  BY <1>1, <1>2, <1>3 DEF DeclaredIsCompiled
<1>8. PlainTemplates' /\ PlainQueue' /\ AskedIsKept'
  BY <1>1, <1>2 DEF PlainTemplates, PlainQueue, InBody, AskedIsKept
<1>9. QED
  BY <1>6, <1>7, <1>8 DEF Plain

\* In programs without the other forms of source, code that has been compiled calls
\* only instances that have been compiled.
THEOREM InstancesComplete == Spec => []Complete
<1>1. Init => Plain
  BY PlainInit
<1>2. IInv /\ Plain /\ [Next]_vars => Plain'
  <2> SUFFICES ASSUME IInv, Plain, [Next]_vars PROVE Plain'
    OBVIOUS
  <2>1. forms' = forms
    BY DEF Next, Parse, Begin, Define, UnfinishedFails, Prototype, UseTemplate, EndOfSource, SourceFails,
           Skip, DeclareExtern, Instantiate, BodyUse, EndOfBody, ReadsFreed, BodyFails, EndOfUnit,
           Failed, vars
  <2>2. CASE forms # {}
    BY <2>1, <2>2 DEF Plain
  <2>3. CASE forms = {}
    <3>1. ~BodyFails /\ \A t \in Templates : ~Prototype(t) /\ \A linkage \in {"none", "static"} :
             ~UnfinishedFails(t, linkage)
      BY <2>3 DEF BodyFails, Prototype, UnfinishedFails
    <3>2. CASE Begin \/ EndOfSource \/ SourceFails
      BY <2>3, <3>2, PlainSourceSteps
    <3>3. ASSUME NEW t \in Templates, NEW linkage \in {"none", "static"}, NEW body \in Bodies,
                 Define(t, linkage, body)
          PROVE  Plain'
      BY <2>3, <3>3, PlainSourceSteps
    <3>4. CASE BodyUse \/ \E i \in Instance : UseTemplate(i)
      BY <2>3, <3>4, PlainUses
    <3>5. CASE Skip \/ DeclareExtern \/ Instantiate
      BY <2>3, <3>5, PlainTaken
    <3>6. CASE EndOfBody
      BY <2>3, <3>6, PlainEndOfBody
    <3>7. CASE EndOfUnit
      BY <2>3, <3>7, PlainEndOfUnit
    <3>8. CASE ReadsFreed
      <4>1. /\ phase' = "astray" /\ UNCHANGED <<templates, declared, code, requests, ast, needed>>
        BY <3>8 DEF ReadsFreed
      <4>2. QED
        BY <2>3, <4>1 DEF Plain, PlainTemplates, PlainQueue, InBody, DeclaredIsCompiled, AskedIsKept,
                          NeededIsCompiled
    <3>9. CASE UNCHANGED vars
      BY <3>9 DEF vars, Plain, PlainTemplates, PlainQueue, InBody, DeclaredIsCompiled, AskedIsKept,
                  NeededIsCompiled
    <3>10. QED
      BY <3>1, <3>2, <3>3, <3>4, <3>5, <3>6, <3>7, <3>8, <3>9 DEF Next, Parse
  <2>4. QED
    BY <2>2, <2>3
<1>3. Plain => Complete
  BY DEF Plain, Complete, NeededIsCompiled
<1>4. QED
  BY <1>1, <1>2, <1>3, UnitInvariance, PTL DEF Spec
=============================================================================
