--------------------------- MODULE OperandStackProofs ---------------------------
(***************************************************************************)
(* Proofs about OperandStack.  What the counters stand for is said of      *)
(* every height of the operand stack: how many operands up to there go by  *)
(* each of them, and that each operand has the place that push finds with  *)
(* the counts below it.  From this the counters come back when operands    *)
(* are popped, and no two operands share a place, so that what is written  *)
(* to the place of the one on top is lost to no other.                     *)
(*                                                                         *)
(* The second half is about frames and arguments, which are added up with  *)
(* FoldLeft, a recursive function: FoldExists and FoldOfIs say that there  *)
(* is a function as its definition wants it, and that this is all it can   *)
(* be; a lemma for each operator that is folded takes it from there.       *)
(***************************************************************************)
EXTENDS OperandStack, FiniteSetTheorems, SequenceTheorems, WellFoundedInduction, TLAPS

Types == {"literal", "lvalue", "rvalue", "lvalue_abs"}
Place == {"none", "int", "xmm", "slot"} \X Nat
Item == [type : Types, float : BOOLEAN, place : Place, ok : BOOLEAN, su : Nat]
Machine == [items : Seq(Item), ints : Nat, floats : Nat, slots : Nat, memory : BOOLEAN]

InSlot(item) == item.place[1] = "slot"

(* How many of the first k operands go by each counter. *)
OfInts(s, k) == {i \in 1..k : ByInts(s[i])}
OfFloats(s, k) == {i \in 1..k : ByFloats(s[i])}
OfSlots(s, k) == {i \in 1..k : InSlot(s[i])}
Ints(s, k) == Cardinality(OfInts(s, k))
Floats(s, k) == Cardinality(OfFloats(s, k))
Slots(s, k) == Cardinality(OfSlots(s, k))

Excess(n) == IF n > NumRegs THEN n - NumRegs ELSE 0

(* The place that push gives to an operand, with these counters. *)
PlaceFor(type, float, i, f, l) ==
  IF type \notin {"rvalue", "lvalue_abs"} THEN Nowhere
  ELSE IF type = "rvalue" /\ float
       THEN IF f < NumRegs THEN <<"xmm", f>> ELSE <<"slot", l + 1>>
       ELSE IF i < NumRegs THEN <<"int", i>> ELSE <<"slot", l + 1>>

Ordered(s) ==
  \A k \in 1..Len(s) :
    s[k].place = PlaceFor(s[k].type, s[k].float, Ints(s, k - 1), Floats(s, k - 1), Slots(s, k - 1))

Counted(s) ==
  \A k \in 0..Len(s) : Slots(s, k) = Excess(Ints(s, k)) + Excess(Floats(s, k))

(* The inductive invariant. *)
Placed(a) ==
  /\ a \in Machine
  /\ a.ints = Ints(a.items, Len(a.items))
  /\ a.floats = Floats(a.items, Len(a.items))
  /\ a.slots = Slots(a.items, Len(a.items))
  /\ Counted(a.items)
  /\ Ordered(a.items)
--------------------------------------------------------------------------------
LEMMA CountTypes ==
  ASSUME NEW s, NEW k \in Nat
  PROVE  /\ IsFiniteSet(OfInts(s, k)) /\ IsFiniteSet(OfFloats(s, k)) /\ IsFiniteSet(OfSlots(s, k))
         /\ Ints(s, k) \in Nat /\ Floats(s, k) \in Nat /\ Slots(s, k) \in Nat
<1>1. IsFiniteSet(1..k)
  BY FS_Interval
<1>2. OfInts(s, k) \subseteq 1..k /\ OfFloats(s, k) \subseteq 1..k /\ OfSlots(s, k) \subseteq 1..k
  BY DEF OfInts, OfFloats, OfSlots
<1> QED
  BY <1>1, <1>2, FS_Subset, FS_CardinalityType DEF Ints, Floats, Slots

LEMMA CountNone ==
  ASSUME NEW s
  PROVE  Ints(s, 0) = 0 /\ Floats(s, 0) = 0 /\ Slots(s, 0) = 0
<1>1. OfInts(s, 0) = {} /\ OfFloats(s, 0) = {} /\ OfSlots(s, 0) = {}
  BY DEF OfInts, OfFloats, OfSlots
<1> QED
  BY <1>1, FS_EmptySet DEF Ints, Floats, Slots

LEMMA AddOne ==
  ASSUME NEW S, NEW T, NEW x, IsFiniteSet(S), x \notin S, T = S \/ T = S \cup {x}
  PROVE  Cardinality(T) = Cardinality(S) + (IF x \in T THEN 1 ELSE 0)
<1>1. Cardinality(S) \in Nat
  BY FS_CardinalityType
<1>2. CASE T = S
  BY <1>1, <1>2
<1>3. CASE T = S \cup {x}
  BY <1>1, <1>3, FS_AddElement
<1> QED
  BY <1>2, <1>3

LEMMA CountStep ==
  ASSUME NEW s, NEW k \in Nat \ {0}
  PROVE  /\ Ints(s, k) = Ints(s, k - 1) + (IF ByInts(s[k]) THEN 1 ELSE 0)
         /\ Floats(s, k) = Floats(s, k - 1) + (IF ByFloats(s[k]) THEN 1 ELSE 0)
         /\ Slots(s, k) = Slots(s, k - 1) + (IF InSlot(s[k]) THEN 1 ELSE 0)
<1>1. /\ k - 1 \in Nat /\ k \in 1..k /\ k \notin 1..(k - 1)
      /\ \A i \in 1..k : i \in 1..(k - 1) \/ i = k
      /\ \A i \in 1..(k - 1) : i \in 1..k
  OBVIOUS
<1>2. Ints(s, k) = Ints(s, k - 1) + (IF ByInts(s[k]) THEN 1 ELSE 0)
  <2>1. /\ IsFiniteSet(OfInts(s, k - 1)) /\ k \notin OfInts(s, k - 1)
        /\ OfInts(s, k) = OfInts(s, k - 1) \/ OfInts(s, k) = OfInts(s, k - 1) \cup {k}
        /\ k \in OfInts(s, k) <=> ByInts(s[k])
    BY <1>1, CountTypes DEF OfInts
  <2> QED
    BY <2>1, AddOne DEF Ints
<1>3. Floats(s, k) = Floats(s, k - 1) + (IF ByFloats(s[k]) THEN 1 ELSE 0)
  <2>1. /\ IsFiniteSet(OfFloats(s, k - 1)) /\ k \notin OfFloats(s, k - 1)
        /\ OfFloats(s, k) = OfFloats(s, k - 1) \/ OfFloats(s, k) = OfFloats(s, k - 1) \cup {k}
        /\ k \in OfFloats(s, k) <=> ByFloats(s[k])
    BY <1>1, CountTypes DEF OfFloats
  <2> QED
    BY <2>1, AddOne DEF Floats
<1>4. Slots(s, k) = Slots(s, k - 1) + (IF InSlot(s[k]) THEN 1 ELSE 0)
  <2>1. /\ IsFiniteSet(OfSlots(s, k - 1)) /\ k \notin OfSlots(s, k - 1)
        /\ OfSlots(s, k) = OfSlots(s, k - 1) \/ OfSlots(s, k) = OfSlots(s, k - 1) \cup {k}
        /\ k \in OfSlots(s, k) <=> InSlot(s[k])
    BY <1>1, CountTypes DEF OfSlots
  <2> QED
    BY <2>1, AddOne DEF Slots
<1> QED
  BY <1>2, <1>3, <1>4

LEMMA CountGrows ==
  ASSUME NEW s, NEW j \in Nat, NEW k \in Nat, j <= k
  PROVE  Ints(s, j) <= Ints(s, k) /\ Floats(s, j) <= Floats(s, k) /\ Slots(s, j) <= Slots(s, k)
<1>1. 1..j \subseteq 1..k
  OBVIOUS
<1>2. OfInts(s, j) \subseteq OfInts(s, k) /\ OfFloats(s, j) \subseteq OfFloats(s, k) /\ OfSlots(s, j) \subseteq OfSlots(s, k)
  BY <1>1 DEF OfInts, OfFloats, OfSlots
<1> QED
  BY <1>2, CountTypes, FS_Subset DEF Ints, Floats, Slots

(* Two stacks whose first k operands have the same kinds and places. *)
Alike(s, t, k) ==
  \A i \in 1..k : s[i].type = t[i].type /\ s[i].float = t[i].float /\ s[i].place = t[i].place

LEMMA CountAlike ==
  ASSUME NEW s, NEW t, NEW k, Alike(s, t, k)
  PROVE  Ints(s, k) = Ints(t, k) /\ Floats(s, k) = Floats(t, k) /\ Slots(s, k) = Slots(t, k)
<1>1. \A i \in 1..k : /\ ByInts(s[i]) <=> ByInts(t[i])
                      /\ ByFloats(s[i]) <=> ByFloats(t[i])
                      /\ InSlot(s[i]) <=> InSlot(t[i])
  BY DEF Alike, ByInts, ByFloats, InSlot, Held
<1>2. OfInts(s, k) = OfInts(t, k) /\ OfFloats(s, k) = OfFloats(t, k) /\ OfSlots(s, k) = OfSlots(t, k)
  BY <1>1 DEF OfInts, OfFloats, OfSlots
<1> QED
  BY <1>2 DEF Ints, Floats, Slots
--------------------------------------------------------------------------------
(* The operand that push gives c, as later steps may have changed it, and  *)
(* c with this operand on top.                                             *)
NewItem(c, type, float, ok, su) ==
  [type |-> type, float |-> float, place |-> PlaceFor(type, float, c.ints, c.floats, c.slots),
   ok |-> ok, su |-> su]

Grow(c, x) ==
  [items  |-> Append(c.items, x),
   ints   |-> c.ints + (IF ByInts(x) THEN 1 ELSE 0),
   floats |-> c.floats + (IF ByFloats(x) THEN 1 ELSE 0),
   slots  |-> c.slots + (IF InSlot(x) THEN 1 ELSE 0),
   memory |-> c.memory]

Fits(c, x) ==
  x \in Item /\ x.place = PlaceFor(x.type, x.float, c.ints, c.floats, c.slots)

LEMMA PlaceForTypes ==
  ASSUME NEW type, NEW float, NEW i \in Nat, NEW f \in Nat, NEW l \in Nat
  PROVE  PlaceFor(type, float, i, f, l) \in Place
BY DEF PlaceFor, Place, Nowhere

LEMMA NewFits ==
  ASSUME NEW c \in Machine, NEW type \in Types, NEW float \in BOOLEAN, NEW ok \in BOOLEAN, NEW su \in Nat
  PROVE  Fits(c, NewItem(c, type, float, ok, su))
<1>1. c.ints \in Nat /\ c.floats \in Nat /\ c.slots \in Nat
  BY DEF Machine
<1>2. PlaceFor(type, float, c.ints, c.floats, c.slots) \in Place
  BY <1>1, PlaceForTypes
<1> QED
  BY <1>2 DEF Fits, NewItem, Item

LEMMA MachineFields ==
  ASSUME NEW a \in Machine
  PROVE  /\ a.items \in Seq(Item) /\ a.ints \in Nat /\ a.floats \in Nat /\ a.slots \in Nat
         /\ a.memory \in BOOLEAN /\ Len(a.items) \in Nat /\ DOMAIN a.items = 1..Len(a.items)
         /\ \A i \in 1..Len(a.items) : a.items[i] \in Item
         /\ a = [items |-> a.items, ints |-> a.ints, floats |-> a.floats, slots |-> a.slots,
                 memory |-> a.memory]
<1>1. a.items \in Seq(Item)
  BY DEF Machine
<1>2. Len(a.items) \in Nat /\ DOMAIN a.items = 1..Len(a.items) /\ \A i \in 1..Len(a.items) : a.items[i] \in Item
  BY <1>1, LenProperties
<1> QED
  BY <1>1, <1>2 DEF Machine

LEMMA Grown ==
  ASSUME NEW c \in Machine, NEW x \in Item
  PROVE  LET b == Grow(c, x)
             n == Len(c.items)
         IN /\ b \in Machine /\ n \in Nat /\ Len(b.items) = n + 1
            /\ \A i \in 1..n : b.items[i] = c.items[i]
            /\ b.items[n + 1] = x /\ Last(b.items) = x /\ Front(b.items) = c.items
            /\ b.memory = c.memory
<1> DEFINE b == Grow(c, x)
           n == Len(c.items)
<1>1. c.items \in Seq(Item) /\ n \in Nat /\ b.items = Append(c.items, x)
      /\ c.ints \in Nat /\ c.floats \in Nat /\ c.slots \in Nat /\ c.memory \in BOOLEAN
  BY MachineFields DEF Grow
<1>2. b.items \in Seq(Item) /\ Len(b.items) = n + 1 /\ (\A i \in 1..n : b.items[i] = c.items[i])
      /\ b.items[n + 1] = x
  BY <1>1, AppendProperties
<1>3. b \in Machine
  BY <1>1, <1>2 DEF Grow, Machine
<1>4. Front(b.items) = c.items
  <2>1. SubSeq(b.items, 1, n) \in Seq(Item) /\ Len(SubSeq(b.items, 1, n)) = n
        /\ \A i \in 1..n : SubSeq(b.items, 1, n)[i] = b.items[i]
    <3>1. 1 \in 1..(Len(b.items) + 1) /\ n \in 0..Len(b.items) /\ \A i \in 1..n : 1 + i - 1 = i
      BY <1>1, <1>2
    <3>2. b.items \in Seq(Item)
      BY <1>2
    <3> HIDE DEF b
    <3> QED
      BY <1>1, <1>2
  <2>2. Front(b.items) = SubSeq(b.items, 1, n)
    BY <1>1, <1>2 DEF Front
  <2> QED
    BY <1>1, <1>2, <2>1, <2>2, SeqEqual
<1> QED
  BY <1>1, <1>2, <1>3, <1>4 DEF Last, Grow

LEMMA HeldInPlace ==
  ASSUME NEW c \in Machine, NEW x, Fits(c, x)
  PROVE  /\ InSlot(x) <=> (ByInts(x) /\ c.ints >= NumRegs) \/ (ByFloats(x) /\ c.floats >= NumRegs)
         /\ ~(ByInts(x) /\ ByFloats(x))
         /\ Held(x) <=> ByInts(x) \/ ByFloats(x)
         /\ ~Held(x) <=> x.place = Nowhere
<1>1. c.ints \in Nat /\ c.floats \in Nat /\ c.slots \in Nat /\ NumRegs \in Nat
  BY RegsAssumption DEF Machine
<1> QED
  BY <1>1 DEF Fits, PlaceFor, InSlot, ByInts, ByFloats, Held, Nowhere, Item

LEMMA GrownIsPlaced ==
  ASSUME NEW c, Placed(c), NEW x, Fits(c, x)
  PROVE  Placed(Grow(c, x))
<1> DEFINE b == Grow(c, x)
           n == Len(c.items)
           s == c.items
           t == b.items
<1>1. c \in Machine /\ x \in Item /\ n \in Nat /\ NumRegs \in Nat
  BY MachineFields, RegsAssumption DEF Placed, Fits
<1>2. /\ b \in Machine /\ Len(t) = n + 1 /\ (\A i \in 1..n : t[i] = s[i]) /\ t[n + 1] = x
  BY <1>1, Grown
<1>3. /\ b.ints = c.ints + (IF ByInts(x) THEN 1 ELSE 0)
      /\ b.floats = c.floats + (IF ByFloats(x) THEN 1 ELSE 0)
      /\ b.slots = c.slots + (IF InSlot(x) THEN 1 ELSE 0)
  BY DEF Grow
<1> HIDE DEF b, n, s
<1>4. ASSUME NEW k \in 0..n
      PROVE  Ints(t, k) = Ints(s, k) /\ Floats(t, k) = Floats(s, k) /\ Slots(t, k) = Slots(s, k)
  <2>1. \A i \in 1..k : i \in 1..n
    BY <1>1
  <2>2. Alike(t, s, k)
    BY <1>2, <2>1 DEF Alike
  <2> QED
    BY <2>2, CountAlike
<1>5. c.ints = Ints(s, n) /\ c.floats = Floats(s, n) /\ c.slots = Slots(s, n)
      /\ c.ints \in Nat /\ c.floats \in Nat /\ c.slots \in Nat
  BY MachineFields DEF Placed, n, s
<1>6. n \in 0..n /\ n + 1 \in Nat \ {0} /\ (n + 1) - 1 = n
  BY <1>1
<1>7. b.ints = Ints(t, n + 1) /\ b.floats = Floats(t, n + 1) /\ b.slots = Slots(t, n + 1)
  <2>1. /\ Ints(t, n + 1) = Ints(t, n) + (IF ByInts(x) THEN 1 ELSE 0)
        /\ Floats(t, n + 1) = Floats(t, n) + (IF ByFloats(x) THEN 1 ELSE 0)
        /\ Slots(t, n + 1) = Slots(t, n) + (IF InSlot(x) THEN 1 ELSE 0)
    BY <1>2, <1>6, CountStep
  <2> QED
    BY <1>3, <1>4, <1>5, <1>6, <2>1
<1>8. Counted(t)
  <2> SUFFICES ASSUME NEW k \in 0..(n + 1)
               PROVE  Slots(t, k) = Excess(Ints(t, k)) + Excess(Floats(t, k))
    BY <1>2 DEF Counted
  <2>1. CASE k \in 0..n
    BY <1>4, <2>1 DEF Placed, Counted, n, s
  <2>2. CASE k = n + 1
    <3>1. c.slots = Excess(c.ints) + Excess(c.floats)
      BY <1>5, <1>6 DEF Placed, Counted, n, s
    <3>2. b.slots = Excess(b.ints) + Excess(b.floats)
      BY <1>1, <1>3, <1>5, <3>1, HeldInPlace DEF Excess
    <3> QED
      BY <1>7, <2>2, <3>2
  <2> QED
    BY <1>1, <2>1, <2>2
<1>9. Ordered(t)
  <2> SUFFICES ASSUME NEW k \in 1..(n + 1)
               PROVE  t[k].place = PlaceFor(t[k].type, t[k].float, Ints(t, k - 1), Floats(t, k - 1), Slots(t, k - 1))
    BY <1>2 DEF Ordered
  <2>1. CASE k \in 1..n
    <3>1. k - 1 \in 0..n
      BY <1>1, <2>1
    <3>2. s[k].place = PlaceFor(s[k].type, s[k].float, Ints(s, k - 1), Floats(s, k - 1), Slots(s, k - 1))
      BY <2>1 DEF Placed, Ordered, n, s
    <3> QED
      BY <1>2, <1>4, <2>1, <3>1, <3>2
  <2>2. CASE k = n + 1
    <3>1. Ints(t, n) = c.ints /\ Floats(t, n) = c.floats /\ Slots(t, n) = c.slots
      BY <1>4, <1>5, <1>6
    <3>2. x.place = PlaceFor(x.type, x.float, c.ints, c.floats, c.slots)
      BY DEF Fits
    <3> QED
      BY <1>2, <1>6, <2>2, <3>1, <3>2
  <2> QED
    BY <1>1, <2>1, <2>2
<1> QED
  BY <1>2, <1>7, <1>8, <1>9 DEF Placed, b
--------------------------------------------------------------------------------
(* What was there when k operands were. *)
Cut(a, k) ==
  [items |-> SubSeq(a.items, 1, k), ints |-> Ints(a.items, k), floats |-> Floats(a.items, k),
   slots |-> Slots(a.items, k), memory |-> a.memory]

LEMMA Prefix ==
  ASSUME NEW S, NEW s \in Seq(S), NEW k \in 0..Len(s)
  PROVE  /\ SubSeq(s, 1, k) \in Seq(S) /\ Len(SubSeq(s, 1, k)) = k
         /\ \A i \in 1..k : SubSeq(s, 1, k)[i] = s[i]
<1>1. Len(s) \in Nat /\ k \in Nat /\ 1 \in 1..(Len(s) + 1) /\ \A i \in 1..k : 1 + i - 1 = i
  BY LenProperties
<1>2. \A i \in 1..Len(s) : s[i] \in S
  BY ElementOfSeq
<1> QED
  BY <1>1, <1>2

LEMMA CutIsPlaced ==
  ASSUME NEW a, Placed(a), NEW k \in 0..Len(a.items)
  PROVE  /\ Placed(Cut(a, k)) /\ Len(Cut(a, k).items) = k
         /\ \A i \in 1..k : Cut(a, k).items[i] = a.items[i]
<1> DEFINE c == Cut(a, k)
           s == a.items
           t == c.items
<1>1. a \in Machine /\ s \in Seq(Item) /\ Len(s) \in Nat /\ k \in Nat /\ a.memory \in BOOLEAN
  BY MachineFields DEF Placed
<1>2. t \in Seq(Item) /\ Len(t) = k /\ \A i \in 1..k : t[i] = s[i]
  <2>1. t = SubSeq(s, 1, k)
    BY DEF Cut
  <2> HIDE DEF t
  <2> QED
    BY <1>1, <2>1, Prefix
<1>3. c.ints = Ints(s, k) /\ c.floats = Floats(s, k) /\ c.slots = Slots(s, k)
      /\ Ints(s, k) \in Nat /\ Floats(s, k) \in Nat /\ Slots(s, k) \in Nat
  BY <1>1, CountTypes DEF Cut
<1>4. c \in Machine
  BY <1>1, <1>2, <1>3 DEF Cut, Machine
<1> HIDE DEF c, s
<1>5. ASSUME NEW j \in 0..k
      PROVE  Ints(t, j) = Ints(s, j) /\ Floats(t, j) = Floats(s, j) /\ Slots(t, j) = Slots(s, j)
  <2>1. \A i \in 1..j : i \in 1..k
    BY <1>1
  <2>2. Alike(t, s, j)
    BY <1>2, <2>1 DEF Alike
  <2> QED
    BY <2>2, CountAlike
<1>6. k \in 0..k /\ (\A j \in 0..k : j \in 0..Len(s)) /\ (\A i \in 1..k : i \in 1..Len(s) /\ i - 1 \in 0..k)
  BY <1>1 DEF s
<1>7. Counted(t)
  BY <1>2, <1>5, <1>6 DEF Placed, Counted, s
<1>8. Ordered(t)
  <2> SUFFICES ASSUME NEW i \in 1..k
               PROVE  t[i].place = PlaceFor(t[i].type, t[i].float, Ints(t, i - 1), Floats(t, i - 1), Slots(t, i - 1))
    BY <1>2 DEF Ordered
  <2>1. s[i].place = PlaceFor(s[i].type, s[i].float, Ints(s, i - 1), Floats(s, i - 1), Slots(s, i - 1))
    BY <1>6 DEF Placed, Ordered, s
  <2> QED
    BY <1>2, <1>5, <1>6, <2>1
<1>9. c.ints = Ints(t, k) /\ c.floats = Floats(t, k) /\ c.slots = Slots(t, k)
  BY <1>3, <1>5, <1>6
<1> QED
  BY <1>2, <1>4, <1>7, <1>8, <1>9 DEF Placed, c, s

\* An operand stack is what push makes of the one below its top.
LEMMA OfTop ==
  ASSUME NEW a, Placed(a), Len(a.items) > 0
  PROVE  LET c == Cut(a, Len(a.items) - 1)
             x == a.items[Len(a.items)]
         IN Placed(c) /\ Len(c.items) = Len(a.items) - 1 /\ Fits(c, x) /\ a = Grow(c, x)
<1> DEFINE n == Len(a.items)
           c == Cut(a, n - 1)
           x == a.items[n]
           s == a.items
<1>1. /\ a \in Machine /\ s \in Seq(Item) /\ n \in Nat /\ x \in Item /\ a.memory \in BOOLEAN
      /\ n - 1 \in 0..n /\ n - 1 \in Nat /\ n \in 1..n /\ n \in Nat \ {0} /\ (n - 1) + 1 = n
      /\ a = [items |-> s, ints |-> a.ints, floats |-> a.floats, slots |-> a.slots, memory |-> a.memory]
  BY MachineFields DEF Placed
<1>2. Placed(c) /\ Len(c.items) = n - 1 /\ \A i \in 1..(n - 1) : c.items[i] = s[i]
  BY <1>1, CutIsPlaced
<1>3. c \in Machine /\ c.items \in Seq(Item)
  BY <1>2, MachineFields DEF Placed
<1>4. c.ints = Ints(s, n - 1) /\ c.floats = Floats(s, n - 1) /\ c.slots = Slots(s, n - 1) /\ c.memory = a.memory
  BY DEF Cut
<1>5. Fits(c, x)
  BY <1>1, <1>4 DEF Placed, Ordered, Fits
<1> HIDE DEF c, x
<1>6. Append(c.items, x) = s
  <2>1. /\ Append(c.items, x) \in Seq(Item) /\ Len(Append(c.items, x)) = n
        /\ \A i \in 1..(n - 1) : Append(c.items, x)[i] = c.items[i]
        /\ Append(c.items, x)[n] = x
    BY <1>1, <1>2, <1>3, AppendProperties
  <2>2. \A i \in 1..n : i \in 1..(n - 1) \/ i = n
    BY <1>1
  <2>3. \A i \in 1..n : Append(c.items, x)[i] = s[i]
    BY <1>2, <2>1, <2>2 DEF x
  <2> QED
    BY <1>1, <2>1, <2>3, SeqEqual
<1>7. /\ a.ints = c.ints + (IF ByInts(x) THEN 1 ELSE 0)
      /\ a.floats = c.floats + (IF ByFloats(x) THEN 1 ELSE 0)
      /\ a.slots = c.slots + (IF InSlot(x) THEN 1 ELSE 0)
  BY <1>1, <1>4, CountStep DEF Placed, x
<1> QED
  BY <1>1, <1>2, <1>4, <1>5, <1>6, <1>7 DEF Grow, c, x

\* No operand below has the place of the one on top.
LEMMA OthersElsewhere ==
  ASSUME NEW c, Placed(c), NEW x, Fits(c, x), NEW i \in 1..Len(c.items)
  PROVE  ~In(c.items[i], x.place)
<1> DEFINE n == Len(c.items)
           s == c.items
           y == s[i]
<1>1. /\ c \in Machine /\ n \in Nat /\ i \in Nat \ {0} /\ i - 1 \in Nat /\ n \in Nat /\ i <= n
      /\ c.ints = Ints(s, n) /\ c.floats = Floats(s, n) /\ c.slots = Slots(s, n)
      /\ i \in Nat /\ y \in Item /\ NumRegs \in Nat
  BY MachineFields, RegsAssumption DEF Placed
<1>2. /\ Ints(s, i) <= c.ints /\ Floats(s, i) <= c.floats /\ Slots(s, i) <= c.slots
      /\ c.ints \in Nat /\ c.floats \in Nat /\ c.slots \in Nat
  BY <1>1, CountGrows, CountTypes
<1>3. Ints(s, i - 1) \in Nat /\ Floats(s, i - 1) \in Nat /\ Slots(s, i - 1) \in Nat
  BY <1>1, CountTypes
<1>4. /\ Ints(s, i) = Ints(s, i - 1) + (IF ByInts(y) THEN 1 ELSE 0)
      /\ Floats(s, i) = Floats(s, i - 1) + (IF ByFloats(y) THEN 1 ELSE 0)
      /\ Slots(s, i) = Slots(s, i - 1) + (IF InSlot(y) THEN 1 ELSE 0)
  BY <1>1, CountStep
<1>5. y.place = PlaceFor(y.type, y.float, Ints(s, i - 1), Floats(s, i - 1), Slots(s, i - 1))
  BY DEF Placed, Ordered
<1>6. x.place = PlaceFor(x.type, x.float, c.ints, c.floats, c.slots)
  BY DEF Fits
<1> HIDE DEF n, s, y
<1>7. SUFFICES ASSUME Held(y), y.place = x.place
               PROVE  FALSE
  BY DEF In, y, s
<1>8. CASE ByInts(y) /\ ~InSlot(y)
  BY <1>1, <1>2, <1>3, <1>4, <1>5, <1>6, <1>7, <1>8 DEF PlaceFor, InSlot, ByInts, ByFloats, Held, Nowhere
<1>9. CASE ByFloats(y) /\ ~InSlot(y)
  BY <1>1, <1>2, <1>3, <1>4, <1>5, <1>6, <1>7, <1>9 DEF PlaceFor, InSlot, ByInts, ByFloats, Held, Nowhere
<1>10. CASE InSlot(y)
  BY <1>1, <1>2, <1>3, <1>4, <1>5, <1>6, <1>7, <1>10 DEF PlaceFor, InSlot, ByInts, ByFloats, Held, Nowhere
<1> QED
  BY <1>7, <1>8, <1>9, <1>10 DEF ByInts, ByFloats, Held
--------------------------------------------------------------------------------
LEMMA ExceptFields ==
  ASSUME NEW a \in Machine, NEW p, NEW q, NEW r, NEW t
  PROVE  [a EXCEPT !.items = p, !.ints = q, !.floats = r, !.slots = t]
           = [items |-> p, ints |-> q, floats |-> r, slots |-> t, memory |-> a.memory]
<1> DEFINE m == a.memory
           a0 == [items |-> a.items, ints |-> a.ints, floats |-> a.floats, slots |-> a.slots, memory |-> m]
           a1 == [items |-> p, ints |-> a.ints, floats |-> a.floats, slots |-> a.slots, memory |-> m]
           a2 == [items |-> p, ints |-> q, floats |-> a.floats, slots |-> a.slots, memory |-> m]
           a3 == [items |-> p, ints |-> q, floats |-> r, slots |-> a.slots, memory |-> m]
           a4 == [items |-> p, ints |-> q, floats |-> r, slots |-> t, memory |-> m]
<1>1. a = a0
  BY MachineFields
<1>2. [a0 EXCEPT !.items = p] = a1
  OBVIOUS
<1>3. [a1 EXCEPT !.ints = q] = a2
  OBVIOUS
<1>4. [a2 EXCEPT !.floats = r] = a3
  OBVIOUS
<1>5. [a3 EXCEPT !.slots = t] = a4
  OBVIOUS
<1> HIDE DEF a0, a1, a2, a3
<1>6. [[[[a EXCEPT !.items = p] EXCEPT !.ints = q] EXCEPT !.floats = r] EXCEPT !.slots = t] = a4
  BY <1>1, <1>2, <1>3, <1>4, <1>5
<1> QED
  BY <1>6

LEMMA PopIs ==
  ASSUME NEW c \in Machine, NEW x \in Item
  PROVE  pop(Grow(c, x)) = c
<1> DEFINE b == Grow(c, x)
<1>1. Last(b.items) = x /\ Front(b.items) = c.items
  BY Grown
<1>2. /\ c = [items |-> c.items, ints |-> c.ints, floats |-> c.floats, slots |-> c.slots, memory |-> c.memory]
      /\ c.ints \in Nat /\ c.floats \in Nat /\ c.slots \in Nat
  BY MachineFields
<1>3. /\ (IF ByInts(x) THEN b.ints - 1 ELSE b.ints) = c.ints
      /\ (IF ByFloats(x) THEN b.floats - 1 ELSE b.floats) = c.floats
      /\ (IF x.place[1] = "slot" THEN b.slots - 1 ELSE b.slots) = c.slots
  BY <1>2 DEF Grow, InSlot
<1>4. pop(b) = [items |-> Front(b.items), ints |-> IF ByInts(x) THEN b.ints - 1 ELSE b.ints,
                floats |-> IF ByFloats(x) THEN b.floats - 1 ELSE b.floats,
                slots |-> IF x.place[1] = "slot" THEN b.slots - 1 ELSE b.slots, memory |-> b.memory]
  <2>1. b \in Machine
    BY Grown
  <2> HIDE DEF b
  <2>2. pop(b) = [b EXCEPT !.items = Front(b.items), !.ints = IF ByInts(x) THEN b.ints - 1 ELSE b.ints,
                           !.floats = IF ByFloats(x) THEN b.floats - 1 ELSE b.floats,
                           !.slots = IF x.place[1] = "slot" THEN b.slots - 1 ELSE b.slots]
    BY <1>1 DEF pop
  <2> QED
    BY <2>1, <2>2, ExceptFields
<1> QED
  BY <1>1, <1>2, <1>3, <1>4 DEF Grow

LEMMA PopAny ==
  ASSUME NEW a, Placed(a), Len(a.items) > 0
  PROVE  pop(a) = Cut(a, Len(a.items) - 1) /\ Placed(pop(a))
<1>1. Cut(a, Len(a.items) - 1) \in Machine /\ a.items[Len(a.items)] \in Item
  BY OfTop DEF Placed, Fits
<1> QED
  BY <1>1, OfTop, PopIs

LEMMA TailCount ==
  ASSUME NEW n \in Nat, NEW k \in 0..n, NEW A, A \subseteq 1..n
  PROVE  Cardinality(A) - Cardinality({i \in (k + 1)..n : i \in A}) = Cardinality({i \in 1..k : i \in A})
<1> DEFINE B == {i \in 1..k : i \in A}
           C == {i \in (k + 1)..n : i \in A}
<1>0. IsFiniteSet(1..n)
  BY FS_Interval
<1>1. IsFiniteSet(1..n) /\ B \subseteq 1..n /\ C \subseteq 1..n /\ A = B \cup C /\ B \cap C = {}
  <2>1. /\ \A i \in 1..n : i \in 1..k \/ i \in (k + 1)..n
        /\ \A i \in 1..k : i \in 1..n /\ i \notin (k + 1)..n
        /\ \A i \in (k + 1)..n : i \in 1..n
    OBVIOUS
  <2> QED
    BY <1>0, <2>1
<1>2. IsFiniteSet(B) /\ IsFiniteSet(C)
  BY <1>1, FS_Subset
<1>3. Cardinality(B \cap C) = 0
  BY <1>1, FS_EmptySet
<1>4. Cardinality(A) = Cardinality(B) + Cardinality(C) - Cardinality(B \cap C)
  BY <1>1, <1>2, FS_Union
<1>5. Cardinality(B) \in Nat /\ Cardinality(C) \in Nat
  BY <1>2, FS_CardinalityType
<1> QED
  BY <1>3, <1>4, <1>5

\* What the operands above the k-th have taken from the counters is all that
\* pop gives back.
LEMMA PoppedTo ==
  ASSUME NEW a, Placed(a), NEW k \in 0..Len(a.items)
  PROVE  popto(a, k) = Cut(a, k)
<1> DEFINE n == Len(a.items)
           s == a.items
           gone == (k + 1)..n
<1>1. /\ n \in Nat /\ a.ints = Ints(s, n) /\ a.floats = Floats(s, n) /\ a.slots = Slots(s, n)
      /\ \A i \in 1..k : i \in 1..n
      /\ \A i \in gone : i \in 1..n
  BY MachineFields DEF Placed
<1>2. a.ints - Cardinality({i \in gone : ByInts(s[i])}) = Ints(s, k)
  <2>1. OfInts(s, n) \subseteq 1..n
    BY DEF OfInts
  <2>2. {i \in gone : i \in OfInts(s, n)} = {i \in gone : ByInts(s[i])}
        /\ {i \in 1..k : i \in OfInts(s, n)} = OfInts(s, k)
    BY <1>1 DEF OfInts
  <2>3. Cardinality(OfInts(s, n)) - Cardinality({i \in gone : i \in OfInts(s, n)})
          = Cardinality({i \in 1..k : i \in OfInts(s, n)})
    BY <1>1, <2>1, TailCount
  <2> QED
    BY <1>1, <2>2, <2>3 DEF Ints
<1>3. a.floats - Cardinality({i \in gone : ByFloats(s[i])}) = Floats(s, k)
  <2>1. OfFloats(s, n) \subseteq 1..n
    BY DEF OfFloats
  <2>2. {i \in gone : i \in OfFloats(s, n)} = {i \in gone : ByFloats(s[i])}
        /\ {i \in 1..k : i \in OfFloats(s, n)} = OfFloats(s, k)
    BY <1>1 DEF OfFloats
  <2>3. Cardinality(OfFloats(s, n)) - Cardinality({i \in gone : i \in OfFloats(s, n)})
          = Cardinality({i \in 1..k : i \in OfFloats(s, n)})
    BY <1>1, <2>1, TailCount
  <2> QED
    BY <1>1, <2>2, <2>3 DEF Floats
<1>4. a.slots - Cardinality({i \in gone : s[i].place[1] = "slot"}) = Slots(s, k)
  <2>1. OfSlots(s, n) \subseteq 1..n
    BY DEF OfSlots
  <2>2. {i \in gone : i \in OfSlots(s, n)} = {i \in gone : s[i].place[1] = "slot"}
        /\ {i \in 1..k : i \in OfSlots(s, n)} = OfSlots(s, k)
    BY <1>1 DEF OfSlots, InSlot
  <2>3. Cardinality(OfSlots(s, n)) - Cardinality({i \in gone : i \in OfSlots(s, n)})
          = Cardinality({i \in 1..k : i \in OfSlots(s, n)})
    BY <1>1, <2>1, TailCount
  <2> QED
    BY <1>1, <2>2, <2>3 DEF Slots
<1>5. a \in Machine
  BY DEF Placed
<1>6. popto(a, k) =
        [items |-> SubSeq(s, 1, k),
         ints |-> a.ints - Cardinality({i \in gone : ByInts(s[i])}),
         floats |-> a.floats - Cardinality({i \in gone : ByFloats(s[i])}),
         slots |-> a.slots - Cardinality({i \in gone : s[i].place[1] = "slot"}),
         memory |-> a.memory]
  <2>1. popto(a, k) =
          [a EXCEPT !.items = SubSeq(s, 1, k),
                    !.ints = a.ints - Cardinality({i \in gone : ByInts(s[i])}),
                    !.floats = a.floats - Cardinality({i \in gone : ByFloats(s[i])}),
                    !.slots = a.slots - Cardinality({i \in gone : s[i].place[1] = "slot"})]
    BY DEF popto, Quantify
  <2> QED
    BY <1>5, <2>1, ExceptFields
<1> QED
  BY <1>2, <1>3, <1>4, <1>6 DEF Cut

\* popto is what its comment says: pop, until there are k operands.
LEMMA PoptoIsPop ==
  ASSUME NEW a, Placed(a), NEW k \in 0..Len(a.items)
  PROVE  popto(a, k) = IF k = Len(a.items) THEN a ELSE pop(popto(a, k + 1))
<1>1. /\ a \in Machine /\ Len(a.items) \in Nat /\ a.items \in Seq(Item)
      /\ a = [items |-> a.items, ints |-> a.ints, floats |-> a.floats, slots |-> a.slots, memory |-> a.memory]
  BY MachineFields DEF Placed
<1>2. CASE k = Len(a.items)
  <2>1. SubSeq(a.items, 1, k) = a.items
    BY <1>1, <1>2, Prefix, SeqEqual
  <2> QED
    BY <1>1, <1>2, <2>1, PoppedTo DEF Cut, Placed
<1>3. CASE k # Len(a.items)
  <2> DEFINE b == Cut(a, k + 1)
  <2>1. k + 1 \in 0..Len(a.items) /\ (k + 1) - 1 = k /\ k \in 0..(k + 1) /\ k + 1 > 0
    BY <1>1, <1>3
  <2>2. Placed(b) /\ Len(b.items) = k + 1 /\ \A i \in 1..(k + 1) : b.items[i] = a.items[i]
    BY <2>1, CutIsPlaced
  <2>3. pop(b) = Cut(b, k) /\ popto(a, k + 1) = b /\ popto(a, k) = Cut(a, k)
    BY <2>1, <2>2, PopAny, PoppedTo
  <2>4. /\ Placed(Cut(b, k)) /\ Placed(Cut(a, k)) /\ Len(Cut(b, k).items) = k /\ Len(Cut(a, k).items) = k
        /\ \A i \in 1..k : Cut(b, k).items[i] = b.items[i] /\ Cut(a, k).items[i] = a.items[i]
    BY <2>1, <2>2, CutIsPlaced
  <2>5. Cut(b, k).items = Cut(a, k).items
    <3>1. Cut(b, k).items \in Seq(Item) /\ Cut(a, k).items \in Seq(Item)
      BY <2>4, MachineFields DEF Placed
    <3>2. \A i \in 1..k : i \in 1..(k + 1)
      BY <2>1
    <3>3. \A i \in 1..k : Cut(b, k).items[i] = Cut(a, k).items[i]
      BY <2>2, <2>4, <3>2
    <3> QED
      BY <2>4, <3>1, <3>3, SeqEqual
  <2>6. Alike(b.items, a.items, k)
    <3>1. \A i \in 1..k : b.items[i] = a.items[i]
      BY <2>1, <2>2
    <3> HIDE DEF b
    <3> QED
      BY <3>1 DEF Alike
  <2>7. Cut(b, k) = Cut(a, k)
    <3>1. Ints(b.items, k) = Ints(a.items, k) /\ Floats(b.items, k) = Floats(a.items, k)
          /\ Slots(b.items, k) = Slots(a.items, k)
      BY <2>6, CountAlike
    <3>2. b.memory = a.memory
      BY DEF Cut
    <3> HIDE DEF b
    <3> QED
      BY <2>5, <3>1, <3>2 DEF Cut
  <2> QED
    BY <1>3, <2>3, <2>7
<1> QED
  BY <1>2, <1>3

LEMMA PushIs ==
  ASSUME NEW c \in Machine, NEW type \in Types, NEW float \in BOOLEAN
  PROVE  push(c, type, float) = Grow(c, NewItem(c, type, float, TRUE, 1))
<1> DEFINE x == NewItem(c, type, float, TRUE, 1)
           xmm == type = "rvalue" /\ float
           held == type \in {"rvalue", "lvalue_abs"}
           index == IF xmm THEN c.floats ELSE c.ints
<1>1. c.ints \in Nat /\ c.floats \in Nat /\ c.slots \in Nat /\ NumRegs \in Nat
  BY RegsAssumption DEF Machine
<1>2. (ByInts(x) <=> held /\ ~xmm) /\ (ByFloats(x) <=> xmm)
      /\ (InSlot(x) <=> held /\ ~(index < NumRegs))
  BY <1>1 DEF NewItem, ByInts, ByFloats, Held, InSlot, PlaceFor, Nowhere
<1>3. x = [type |-> type, float |-> float,
           place |-> IF ~held THEN Nowhere
                     ELSE IF index < NumRegs THEN <<IF xmm THEN "xmm" ELSE "int", index>>
                     ELSE <<"slot", c.slots + 1>>,
           ok |-> TRUE, su |-> 1]
  BY DEF NewItem, PlaceFor
<1> HIDE DEF x
<1>4. push(c, type, float) =
        [c EXCEPT !.items = Append(c.items, x),
                  !.ints = IF held /\ ~xmm THEN c.ints + 1 ELSE c.ints,
                  !.floats = IF xmm THEN c.floats + 1 ELSE c.floats,
                  !.slots = IF held /\ ~(index < NumRegs) THEN c.slots + 1 ELSE c.slots]
  BY <1>3 DEF push
<1>5. push(c, type, float) =
        [items |-> Append(c.items, x),
         ints |-> IF held /\ ~xmm THEN c.ints + 1 ELSE c.ints,
         floats |-> IF xmm THEN c.floats + 1 ELSE c.floats,
         slots |-> IF held /\ ~(index < NumRegs) THEN c.slots + 1 ELSE c.slots,
         memory |-> c.memory]
  <2> DEFINE p == Append(c.items, x)
             q == IF held /\ ~xmm THEN c.ints + 1 ELSE c.ints
             r == IF xmm THEN c.floats + 1 ELSE c.floats
             t == IF held /\ ~(index < NumRegs) THEN c.slots + 1 ELSE c.slots
  <2>1. push(c, type, float) = [c EXCEPT !.items = p, !.ints = q, !.floats = r, !.slots = t]
    BY <1>4
  <2> HIDE DEF p, q, r, t
  <2>2. push(c, type, float) = [items |-> p, ints |-> q, floats |-> r, slots |-> t, memory |-> c.memory]
    BY <2>1, ExceptFields
  <2> QED
    BY <2>2 DEF p, q, r, t
<1>6. /\ (IF held /\ ~xmm THEN c.ints + 1 ELSE c.ints) = c.ints + (IF ByInts(x) THEN 1 ELSE 0)
      /\ (IF xmm THEN c.floats + 1 ELSE c.floats) = c.floats + (IF ByFloats(x) THEN 1 ELSE 0)
      /\ (IF held /\ ~(index < NumRegs) THEN c.slots + 1 ELSE c.slots) = c.slots + (IF InSlot(x) THEN 1 ELSE 0)
  BY <1>1, <1>2
<1> QED
  BY <1>5, <1>6 DEF Grow, x
--------------------------------------------------------------------------------
With(c, type, float, ok, su) == Grow(c, NewItem(c, type, float, ok, su))

LEMMA Retouched ==
  ASSUME NEW c \in Machine, NEW x \in Item, NEW y \in Item,
         ByInts(y) = ByInts(x), ByFloats(y) = ByFloats(x), y.place = x.place
  PROVE  LET b == Grow(c, x)
         IN [b EXCEPT !.items = [b.items EXCEPT ![Len(b.items)] = y]] = Grow(c, y)
<1> DEFINE b == Grow(c, x)
           n == Len(c.items)
           t == [b.items EXCEPT ![Len(b.items)] = y]
<1>1. /\ b \in Machine /\ n \in Nat /\ Len(b.items) = n + 1 /\ b.items \in Seq(Item)
      /\ \A i \in 1..n : b.items[i] = c.items[i]
  BY Grown, MachineFields
<1>2. n + 1 \in 1..(n + 1) /\ \A i \in 1..(n + 1) : i \in 1..n \/ i = n + 1
  BY <1>1
<1>3. /\ t \in Seq(Item) /\ Len(t) = n + 1
      /\ \A i \in 1..(n + 1) : t[i] = IF i = n + 1 THEN y ELSE b.items[i]
  <2>1. Len(b.items) \in 1..Len(b.items)
    BY <1>1, <1>2
  <2> HIDE DEF b
  <2> QED
    BY <1>1, <2>1, ExceptSeq
<1>4. /\ Append(c.items, y) \in Seq(Item) /\ Len(Append(c.items, y)) = n + 1
      /\ \A i \in 1..n : Append(c.items, y)[i] = c.items[i]
      /\ Append(c.items, y)[n + 1] = y
  BY MachineFields, AppendProperties
<1>5. t = Append(c.items, y)
  <2>1. \A i \in 1..(n + 1) : t[i] = Append(c.items, y)[i]
    <3> SUFFICES ASSUME NEW i \in 1..(n + 1)
                 PROVE  t[i] = Append(c.items, y)[i]
      OBVIOUS
    <3>1. CASE i \in 1..n
      <4>1. i # n + 1
        BY <1>1, <3>1
      <4> QED
        BY <1>1, <1>3, <1>4, <3>1, <4>1
    <3>2. CASE i = n + 1
      BY <1>3, <1>4, <3>2
    <3> QED
      BY <1>2, <3>1, <3>2
  <2> HIDE DEF t
  <2> QED
    BY <1>3, <1>4, <2>1, SeqEqual
<1>6. ByInts(y) = ByInts(x) /\ ByFloats(y) = ByFloats(x) /\ InSlot(y) = InSlot(x)
  BY DEF InSlot
<1>7. b = [items |-> b.items, ints |-> b.ints, floats |-> b.floats, slots |-> b.slots, memory |-> b.memory]
  BY <1>1, MachineFields
<1>8. /\ b.ints = c.ints + (IF ByInts(x) THEN 1 ELSE 0)
      /\ b.floats = c.floats + (IF ByFloats(x) THEN 1 ELSE 0)
      /\ b.slots = c.slots + (IF InSlot(x) THEN 1 ELSE 0)
      /\ b.memory = c.memory
  BY DEF Grow
<1> HIDE DEF b, t
<1>9. [b EXCEPT !.items = t] =
        [items |-> t, ints |-> b.ints, floats |-> b.floats, slots |-> b.slots, memory |-> b.memory]
  BY <1>1 DEF Machine
<1>10. [b EXCEPT !.items = t] = Grow(c, y)
  BY <1>5, <1>6, <1>8, <1>9 DEF Grow
<1> QED
  BY <1>10 DEF t, b

LEMMA NewIs ==
  ASSUME NEW c \in Machine, NEW type \in Types, NEW float \in BOOLEAN, NEW ok \in BOOLEAN, NEW su \in Nat
  PROVE  LET x == NewItem(c, type, float, ok, su)
         IN /\ x \in Item /\ Fits(c, x)
            /\ x.type = type /\ x.float = float /\ x.ok = ok /\ x.su = su
            /\ x.place = PlaceFor(type, float, c.ints, c.floats, c.slots)
            /\ With(c, type, float, ok, su) = Grow(c, x)
            /\ With(c, type, float, ok, su) \in Machine
            /\ Len(With(c, type, float, ok, su).items) = Len(c.items) + 1
            /\ Last(With(c, type, float, ok, su).items) = x
            /\ With(c, type, float, ok, su).items[Len(c.items) + 1] = x
            /\ \A i \in 1..Len(c.items) : With(c, type, float, ok, su).items[i] = c.items[i]
            /\ With(c, type, float, ok, su).memory = c.memory
<1> DEFINE x == NewItem(c, type, float, ok, su)
<1>1. Fits(c, x)
  BY NewFits
<1>2. x \in Item
  BY <1>1 DEF Fits
<1>3. /\ x.type = type /\ x.float = float /\ x.ok = ok /\ x.su = su
      /\ x.place = PlaceFor(type, float, c.ints, c.floats, c.slots)
  BY DEF NewItem
<1> HIDE DEF x
<1>4. With(c, type, float, ok, su) = Grow(c, x)
  BY DEF With, x
<1> QED
  BY <1>1, <1>2, <1>3, <1>4, Grown DEF x

LEMMA SuIs ==
  ASSUME NEW c \in Machine, NEW type \in Types, NEW float \in BOOLEAN, NEW ok \in BOOLEAN, NEW su \in Nat,
         NEW u \in Nat
  PROVE  Su(With(c, type, float, ok, su), u) = With(c, type, float, ok, u)
<1> DEFINE x == NewItem(c, type, float, ok, su)
           y == NewItem(c, type, float, ok, u)
           b == Grow(c, x)
<1>1. x \in Item /\ y \in Item /\ y.type = x.type /\ y.float = x.float /\ y.place = x.place
  BY NewIs
<1>2. y = [x EXCEPT !.su = u] /\ ByInts(y) = ByInts(x) /\ ByFloats(y) = ByFloats(x)
  BY DEF NewItem, ByInts, ByFloats, Held
<1> HIDE DEF x, y
<1>3. b.items[Len(b.items)] = x
  <2>1. b.items[Len(c.items) + 1] = x /\ Len(b.items) = Len(c.items) + 1
    BY <1>1, Grown
  <2> QED
    BY <2>1
<1>4. [b EXCEPT !.items = [b.items EXCEPT ![Len(b.items)] = y]] = Grow(c, y)
  BY <1>1, <1>2, Retouched
<1> HIDE DEF b
<1>5. Su(b, u) = [b EXCEPT !.items = [b.items EXCEPT ![Len(b.items)] = y]]
  BY <1>2, <1>3 DEF Su
<1> QED
  BY <1>4, <1>5 DEF With, b, x, y

LEMMA PushWith ==
  ASSUME NEW c \in Machine, NEW type \in Types, NEW float \in BOOLEAN
  PROVE  push(c, type, float) = With(c, type, float, TRUE, 1)
BY PushIs DEF With

LEMMA NewTop ==
  ASSUME NEW c \in Machine, NEW type \in Types, NEW float \in BOOLEAN, NEW ok \in BOOLEAN, NEW su \in Nat
  PROVE  /\ Last(With(c, type, float, ok, su).items) = NewItem(c, type, float, ok, su)
         /\ NewItem(c, type, float, ok, su).type = type /\ NewItem(c, type, float, ok, su).float = float
         /\ NewItem(c, type, float, ok, su).ok = ok /\ NewItem(c, type, float, ok, su).su = su
         /\ NewItem(c, type, float, ok, su).place = PlaceFor(type, float, c.ints, c.floats, c.slots)
BY NewIs

LEMMA PopWith ==
  ASSUME NEW c \in Machine, NEW type \in Types, NEW float \in BOOLEAN, NEW ok \in BOOLEAN, NEW su \in Nat
  PROVE  pop(With(c, type, float, ok, su)) = c
BY NewIs, PopIs

LEMMA WithIsPlaced ==
  ASSUME NEW c, Placed(c), NEW type \in Types, NEW float \in BOOLEAN, NEW ok \in BOOLEAN, NEW su \in Nat
  PROVE  Placed(With(c, type, float, ok, su))
<1>1. c \in Machine
  BY DEF Placed
<1> QED
  BY <1>1, NewFits, GrownIsPlaced DEF With

LEMMA Unspoiled ==
  ASSUME NEW y \in Item, NEW lost, ~lost
  PROVE  [y EXCEPT !.ok = y.ok /\ ~lost] = y
<1>1. y.ok \in BOOLEAN
  BY DEF Item
<1>2. (y.ok /\ ~lost) = y.ok
  BY <1>1
<1>3. y = [type |-> y.type, float |-> y.float, place |-> y.place, ok |-> y.ok, su |-> y.su]
  BY DEF Item
<1> DEFINE v == y.ok /\ ~lost
<1> HIDE DEF v
<1>4. [y EXCEPT !.ok = v] = [type |-> y.type, float |-> y.float, place |-> y.place, ok |-> v, su |-> y.su]
  BY DEF Item
<1>5. [y EXCEPT !.ok = v] = y
  <2>1. v = y.ok
    BY <1>2 DEF v
  <2> QED
    BY <1>3, <1>4, <2>1
<1> QED
  BY <1>5 DEF v

\* What is written to the place of the operand on top is lost to no other.
LEMMA WriteIs ==
  ASSUME NEW c, Placed(c), NEW x, Fits(c, x)
  PROVE  /\ [x EXCEPT !.ok = x.ok /\ ~In(x, x.place)] \in Item
         /\ Write(Grow(c, x), x.place) = Grow(c, [x EXCEPT !.ok = x.ok /\ ~In(x, x.place)])
<1> DEFINE b == Grow(c, x)
           n == Len(c.items)
           y == [x EXCEPT !.ok = x.ok /\ ~In(x, x.place)]
           t == [i \in 1..(n + 1) |-> [b.items[i] EXCEPT !.ok = b.items[i].ok /\ ~In(b.items[i], x.place)]]
<1>1. /\ c \in Machine /\ x \in Item /\ n \in Nat /\ b \in Machine /\ Len(b.items) = n + 1
      /\ b.items \in Seq(Item) /\ b.items[n + 1] = x /\ DOMAIN b.items = 1..(n + 1)
      /\ \A i \in 1..n : b.items[i] = c.items[i] /\ c.items[i] \in Item
  BY Grown, MachineFields DEF Placed, Fits
<1>2. y \in Item /\ ByInts(y) = ByInts(x) /\ ByFloats(y) = ByFloats(x) /\ y.place = x.place
  BY <1>1 DEF Item, ByInts, ByFloats, Held
<1>3. Write(b, x.place) = [b EXCEPT !.items = t]
  <2> HIDE DEF b
  <2> QED
    BY <1>1 DEF Write
<1>4. [b EXCEPT !.items = [b.items EXCEPT ![Len(b.items)] = y]] = Grow(c, y)
  BY <1>1, <1>2, Retouched
<1>5. t = [b.items EXCEPT ![Len(b.items)] = y]
  <2>1. n + 1 \in 1..(n + 1) /\ \A i \in 1..(n + 1) : i \in 1..n \/ i = n + 1
    BY <1>1
  <2>2. ASSUME NEW i \in 1..n
        PROVE  [b.items[i] EXCEPT !.ok = b.items[i].ok /\ ~In(b.items[i], x.place)] = b.items[i]
    <3>1. b.items[i] = c.items[i] /\ c.items[i] \in Item
      BY <1>1
    <3>2. ~In(c.items[i], x.place)
      BY OthersElsewhere
    <3> HIDE DEF b
    <3> QED
      BY <3>1, <3>2, Unspoiled
  <2>3. [b.items[n + 1] EXCEPT !.ok = b.items[n + 1].ok /\ ~In(b.items[n + 1], x.place)] = y
    BY <1>1
  <2> DEFINE u == [b.items EXCEPT ![n + 1] = y]
             s == b.items
  <2>4. u = [i \in 1..(n + 1) |-> IF i = n + 1 THEN y ELSE s[i]]
    <3>1. s = [i \in 1..(n + 1) |-> s[i]]
      BY <1>1, LenProperties
    <3>2. u = [s EXCEPT ![n + 1] = y]
      OBVIOUS
    <3> HIDE DEF s, y, u
    <3> QED
      BY <2>1, <3>1, <3>2
  <2>5. \A i \in 1..(n + 1) : t[i] = IF i = n + 1 THEN y ELSE s[i]
    <3> SUFFICES ASSUME NEW i \in 1..(n + 1)
                 PROVE  t[i] = IF i = n + 1 THEN y ELSE s[i]
      OBVIOUS
    <3>1. CASE i \in 1..n
      <4>1. i # n + 1
        BY <1>1, <3>1
      <4> QED
        BY <2>2, <3>1, <4>1
    <3>2. CASE i = n + 1
      BY <2>3, <3>2
    <3> QED
      BY <2>1, <3>1, <3>2
  <2>6. t = [i \in 1..(n + 1) |-> t[i]]
    OBVIOUS
  <2>7. t = u
    <3> HIDE DEF t, u, s, y
    <3> QED
      BY <2>4, <2>5, <2>6
  <2> QED
    BY <1>1, <2>7
<1> QED
  BY <1>2, <1>3, <1>4, <1>5

LEMMA ResultIs ==
  ASSUME NEW c, Placed(c), NEW type \in Types, NEW float \in BOOLEAN, NEW ok \in BOOLEAN, NEW su \in Nat,
         NEW v \in BOOLEAN
  PROVE  Result(With(c, type, float, ok, su), v) = With(c, type, float, v, su)
<1> DEFINE x == NewItem(c, type, float, ok, su)
           z == NewItem(c, type, float, v, su)
           y == [x EXCEPT !.ok = x.ok /\ ~In(x, x.place)]
           b == Grow(c, x)
           w == Grow(c, y)
<1>1. c \in Machine
  BY DEF Placed
<1>2. x \in Item /\ z \in Item /\ z.type = x.type /\ z.float = x.float /\ z.place = x.place /\ Fits(c, x)
  BY <1>1, NewIs
<1>3. y \in Item /\ Write(b, x.place) = w
  BY <1>2, WriteIs
<1>4. z = [y EXCEPT !.ok = v] /\ y.type = x.type /\ y.float = x.float /\ y.place = x.place
  <2> DEFINE o == x.ok /\ ~In(x, x.place)
             p == x.place
  <2>1. x = [type |-> type, float |-> float, place |-> p, ok |-> ok, su |-> su]
        /\ z = [type |-> type, float |-> float, place |-> p, ok |-> v, su |-> su]
        /\ y = [x EXCEPT !.ok = o]
    BY DEF NewItem
  <2> HIDE DEF x, z, y, o, p
  <2>2. y = [type |-> type, float |-> float, place |-> p, ok |-> o, su |-> su]
    BY <2>1
  <2>3. [y EXCEPT !.ok = v] = [type |-> type, float |-> float, place |-> p, ok |-> v, su |-> su]
    BY <2>2
  <2> QED
    BY <2>1, <2>2, <2>3
<1> HIDE DEF x, y, z
<1>5. Last(b.items) = x /\ Len(b.items) = Len(c.items) + 1
  BY <1>1, <1>2, Grown
<1>6. w.items[Len(c.items) + 1] = y /\ Len(w.items) = Len(c.items) + 1
  BY <1>1, <1>3, Grown
<1>7. [w EXCEPT !.items = [w.items EXCEPT ![Len(w.items)] = z]] = Grow(c, z)
  <2>1. ByInts(z) = ByInts(y) /\ ByFloats(z) = ByFloats(y) /\ z.place = y.place
    BY <1>2, <1>4 DEF ByInts, ByFloats, Held
  <2> QED
    BY <1>1, <1>2, <1>3, <2>1, Retouched
<1> HIDE DEF b, w
<1>8. Result(b, v) = [w EXCEPT !.items = [w.items EXCEPT ![Len(w.items)] = z]]
  BY <1>3, <1>4, <1>5, <1>6 DEF Result
<1> QED
  BY <1>7, <1>8 DEF With, b, x, z
--------------------------------------------------------------------------------
(* What each step of jitc_asm_emit makes of an operand.                    *)
LEMMA PushedResult ==
  ASSUME NEW c, Placed(c), NEW t \in Types, NEW f \in BOOLEAN, NEW ok \in BOOLEAN
  PROVE  Result(push(c, t, f), ok) = With(c, t, f, ok, 1)
<1> DEFINE yes == TRUE
           one == 1
<1>1. c \in Machine /\ yes \in BOOLEAN /\ one \in Nat
  BY DEF Placed
<1>2. push(c, t, f) = With(c, t, f, yes, one)
  BY <1>1, PushWith
<1> HIDE DEF yes, one
<1>3. Result(With(c, t, f, yes, one), ok) = With(c, t, f, ok, one)
  BY <1>1, ResultIs
<1> QED
  BY <1>2, <1>3 DEF one

LEMMA FromoneIs ==
  ASSUME NEW c, Placed(c), NEW type \in Types, NEW float \in BOOLEAN, NEW ok \in BOOLEAN, NEW su \in Nat,
         NEW t \in Types, NEW f \in BOOLEAN
  PROVE  fromone(With(c, type, float, ok, su), t, f) = With(c, t, f, ok, su)
<1> DEFINE a == With(c, type, float, ok, su)
<1>1. c \in Machine
  BY DEF Placed
<1>2. pop(a) = c /\ Last(a.items).ok = ok /\ Last(a.items).su = su
  <2>1. pop(a) = c
    BY <1>1, PopWith
  <2>2. Last(a.items).ok = ok /\ Last(a.items).su = su
    BY <1>1, NewTop
  <2> QED
    BY <2>1, <2>2
<1> HIDE DEF a
<1>3. fromone(a, t, f) = Su(Result(push(c, t, f), ok), su)
  BY <1>2 DEF fromone
<1>4. Result(push(c, t, f), ok) = With(c, t, f, ok, 1)
  BY <1>1, PushedResult
<1> QED
  BY <1>1, <1>3, <1>4, SuIs DEF a

LEMMA RvalIs ==
  ASSUME NEW c, Placed(c), NEW type \in Types, NEW float \in BOOLEAN, NEW ok \in BOOLEAN, NEW su \in Nat
  PROVE  jitc_asm_rval(With(c, type, float, ok, su)) = With(c, "rvalue", float, ok, su)
<1> DEFINE a == With(c, type, float, ok, su)
<1>1. c \in Machine /\ "rvalue" \in Types
  BY DEF Placed, Types
<1>2. Last(a.items).type = type /\ Last(a.items).float = float
  BY <1>1, NewIs
<1>3. fromone(a, "rvalue", float) = With(c, "rvalue", float, ok, su)
  BY <1>1, FromoneIs
<1> HIDE DEF a
<1>4. jitc_asm_rval(a) = IF type = "rvalue" THEN a ELSE fromone(a, "rvalue", float)
  BY <1>2 DEF jitc_asm_rval, fromone
<1> QED
  BY <1>3, <1>4 DEF a

Noted(b, m) == [b EXCEPT !.memory = m]

LEMMA NotedIs ==
  ASSUME NEW b \in Machine, NEW m \in BOOLEAN
  PROVE  /\ Noted(b, m) \in Machine /\ Noted(b, m).items = b.items /\ Noted(b, m).memory = m
         /\ Placed(b) => Placed(Noted(b, m))
         /\ m = b.memory => Noted(b, m) = b
<1>1. Noted(b, m) = [items |-> b.items, ints |-> b.ints, floats |-> b.floats, slots |-> b.slots, memory |-> m]
  BY DEF Noted, Machine
<1>2. Noted(b, m) \in Machine
  BY <1>1 DEF Machine
<1>3. m = b.memory => Noted(b, m) = b
  BY <1>1, MachineFields
<1> QED
  BY <1>1, <1>2, <1>3 DEF Placed

LEMMA UnaryopIs ==
  ASSUME NEW c, Placed(c), NEW type \in Types, NEW float \in BOOLEAN, NEW ok \in BOOLEAN, NEW su \in Nat
  PROVE  LET a == With(c, type, float, ok, su)
             m == c.memory /\ type \notin {"lvalue", "lvalue_abs"}
         IN unaryop(a) = Noted(With(c, "rvalue", float, ok, su), m)
<1> DEFINE a == With(c, type, float, ok, su)
           b == With(c, "rvalue", float, ok, su)
<1>1. c \in Machine /\ "rvalue" \in Types
  BY DEF Placed, Types
<1>2. Last(a.items).type = type /\ Last(a.items).float = float
  BY <1>1, NewIs
<1>3. fromone(a, "rvalue", float) = b /\ b.memory = c.memory
  BY <1>1, FromoneIs, NewIs
<1> HIDE DEF a, b
<1>4. Writable(Last(a.items)) <=> type \in {"lvalue", "lvalue_abs"}
  BY <1>2 DEF Writable
<1>5. unaryop(a) = [b EXCEPT !.memory = b.memory /\ ~Writable(Last(a.items))]
  BY <1>2, <1>3 DEF unaryop
<1> QED
  BY <1>3, <1>4, <1>5 DEF Noted, a, b

LEMMA NegIs ==
  ASSUME NEW c, Placed(c), NEW type \in Types, NEW float \in BOOLEAN, NEW ok \in BOOLEAN, NEW su \in Nat
  PROVE  jitc_asm_neg(With(c, type, float, ok, su)) = With(c, "rvalue", float, ok, su)
<1> DEFINE b == With(c, "rvalue", float, ok, su)
           m == c.memory /\ "rvalue" \notin {"lvalue", "lvalue_abs"}
<1>1. c \in Machine /\ "rvalue" \in Types /\ c.memory \in BOOLEAN
  BY MachineFields DEF Placed, Types
<1>2. unaryop(b) = Noted(b, m)
  BY <1>1, UnaryopIs
<1>3. m \in BOOLEAN /\ m = c.memory
  BY <1>1
<1>4. b \in Machine /\ b.memory = c.memory
  BY <1>1, NewIs
<1> HIDE DEF b, m
<1>5. Noted(b, m) = b
  BY <1>3, <1>4, NotedIs
<1>6. jitc_asm_rval(With(c, type, float, ok, su)) = b
  BY RvalIs DEF b
<1> QED
  BY <1>2, <1>5, <1>6 DEF jitc_asm_neg, b

\* An integer in a place becomes what is read through it.
Pointing(c, ok, su, no, float, b, x, z) ==
  /\ c \in Machine /\ ok \in BOOLEAN /\ su \in Nat /\ no \in BOOLEAN /\ ~no /\ float \in BOOLEAN
  /\ b = With(c, "rvalue", no, ok, su) /\ x = NewItem(c, "rvalue", no, ok, su)
  /\ z = [x EXCEPT !.type = "lvalue_abs", !.float = float]

LEMMA Pointed ==
  ASSUME NEW c, NEW ok, NEW su, NEW no, NEW float, NEW b, NEW x, NEW z,
         Pointing(c, ok, su, no, float, b, x, z)
  PROVE  [b EXCEPT !.items = [b.items EXCEPT ![Len(b.items)] = z]] = With(c, "lvalue_abs", float, ok, su)
<1> DEFINE y == NewItem(c, "lvalue_abs", float, ok, su)
<1>0. /\ c \in Machine /\ ok \in BOOLEAN /\ su \in Nat /\ no \in BOOLEAN /\ ~no /\ float \in BOOLEAN
      /\ b = With(c, "rvalue", no, ok, su) /\ x = NewItem(c, "rvalue", no, ok, su)
      /\ z = [x EXCEPT !.type = "lvalue_abs", !.float = float]
  BY DEF Pointing
<1>1. "rvalue" \in Types /\ "lvalue_abs" \in Types
  BY DEF Types
<1>2. x \in Item /\ y \in Item /\ b = Grow(c, x) /\ With(c, "lvalue_abs", float, ok, su) = Grow(c, y)
  BY <1>0, <1>1, NewIs
<1>3. PlaceFor("lvalue_abs", float, c.ints, c.floats, c.slots) = PlaceFor("rvalue", no, c.ints, c.floats, c.slots)
  BY <1>0 DEF PlaceFor
<1>4. ByInts(y) = ByInts(x) /\ ByFloats(y) = ByFloats(x) /\ y.place = x.place
  BY <1>0, <1>3 DEF NewItem, ByInts, ByFloats, Held
<1>5. z = y
  <2> DEFINE p == PlaceFor("rvalue", no, c.ints, c.floats, c.slots)
             q == [type |-> "rvalue", float |-> no, place |-> p, ok |-> ok, su |-> su]
  <2>1. x = q /\ y = [type |-> "lvalue_abs", float |-> float, place |-> p, ok |-> ok, su |-> su]
    BY <1>0, <1>3 DEF NewItem
  <2>2. [q EXCEPT !.type = "lvalue_abs", !.float = float]
          = [type |-> "lvalue_abs", float |-> float, place |-> p, ok |-> ok, su |-> su]
    <3> DEFINE w == [type |-> "lvalue_abs", float |-> no, place |-> p, ok |-> ok, su |-> su]
    <3>1. [q EXCEPT !.type = "lvalue_abs"] = w
      OBVIOUS
    <3>2. [w EXCEPT !.float = float] = [type |-> "lvalue_abs", float |-> float, place |-> p, ok |-> ok, su |-> su]
      OBVIOUS
    <3> HIDE DEF q, w
    <3> QED
      BY <3>1, <3>2
  <2> HIDE DEF y, q, p
  <2> QED
    BY <1>0, <2>1, <2>2
<1> HIDE DEF y
<1>6. [Grow(c, x) EXCEPT !.items = [Grow(c, x).items EXCEPT ![Len(Grow(c, x).items)] = y]] = Grow(c, y)
  BY <1>0, <1>2, <1>4, Retouched
<1>7. [b EXCEPT !.items = [b.items EXCEPT ![Len(b.items)] = z]] = With(c, "lvalue_abs", float, ok, su)
  BY <1>2, <1>5, <1>6
<1> QED
  BY <1>7

LEMMA LoadIs ==
  ASSUME NEW c, Placed(c), NEW type \in Types, NEW float \in BOOLEAN, NEW ok \in BOOLEAN, NEW su \in Nat,
         NEW f \in BOOLEAN
  PROVE  jitc_asm_load(With(c, type, float, ok, su), f) = With(c, "lvalue_abs", f, ok, su)
<1> DEFINE no == FALSE
           b == With(c, "rvalue", no, ok, su)
           x == NewItem(c, "rvalue", no, ok, su)
           a == With(c, type, float, ok, su)
<1>1. c \in Machine /\ "rvalue" \in Types /\ no \in BOOLEAN /\ ~no
  BY DEF Placed, Types
<1>2. jitc_asm_load(a, f) =
        LET q == fromone(a, "rvalue", no)
        IN [q EXCEPT !.items = [q.items EXCEPT ![Len(q.items)] =
              [q.items[Len(q.items)] EXCEPT !.type = "lvalue_abs", !.float = f]]]
  BY DEF jitc_asm_load
<1> HIDE DEF no
<1>3. fromone(a, "rvalue", no) = b
  BY <1>1, FromoneIs
<1>4. b.items[Len(b.items)] = x /\ b \in Machine /\ x \in Item
  BY <1>1, NewIs
<1>5. b = With(c, "rvalue", no, ok, su) /\ x = NewItem(c, "rvalue", no, ok, su)
  OBVIOUS
<1> HIDE DEF a, b, x
<1> DEFINE z == [x EXCEPT !.type = "lvalue_abs", !.float = f]
<1>6. z = [x EXCEPT !.type = "lvalue_abs", !.float = f]
  OBVIOUS
<1>7. jitc_asm_load(a, f) = [b EXCEPT !.items = [b.items EXCEPT ![Len(b.items)] = z]]
  BY <1>2, <1>3, <1>4
<1> HIDE DEF z
<1>8. [b EXCEPT !.items = [b.items EXCEPT ![Len(b.items)] = z]] = With(c, "lvalue_abs", f, ok, su)
  <2>1. Pointing(c, ok, su, no, f, b, x, z)
    BY <1>1, <1>5, <1>6 DEF Pointing
  <2> QED
    BY <2>1, Pointed
<1> QED
  BY <1>7, <1>8 DEF a

LEMMA WithCounters ==
  ASSUME NEW c \in Machine, NEW type \in Types, NEW float \in BOOLEAN, NEW ok \in BOOLEAN, NEW su \in Nat
  PROVE  LET b == With(c, type, float, ok, su)
             xmm == type = "rvalue" /\ float
             held == type \in {"rvalue", "lvalue_abs"}
         IN /\ b.ints = c.ints + (IF held /\ ~xmm THEN 1 ELSE 0)
            /\ b.floats = c.floats + (IF xmm THEN 1 ELSE 0)
            /\ b.slots = c.slots + (IF held /\ (IF xmm THEN c.floats ELSE c.ints) >= NumRegs THEN 1 ELSE 0)
<1>1. c.ints \in Nat /\ c.floats \in Nat /\ c.slots \in Nat /\ NumRegs \in Nat
  BY MachineFields, RegsAssumption
<1> QED
  BY <1>1 DEF With, Grow, NewItem, ByInts, ByFloats, InSlot, Held, PlaceFor, Nowhere

LEMMA WriteWith ==
  ASSUME NEW c, Placed(c), NEW type \in Types, NEW float \in BOOLEAN, NEW ok \in BOOLEAN, NEW su \in Nat
  PROVE  LET b == With(c, type, float, ok, su)
         IN \E v \in BOOLEAN : Write(b, Last(b.items).place) = With(c, type, float, v, su)
<1> DEFINE b == With(c, type, float, ok, su)
           x == NewItem(c, type, float, ok, su)
           w == x.ok /\ ~In(x, x.place)
           y == [x EXCEPT !.ok = w]
<1>1. c \in Machine
  BY DEF Placed
<1>2. x \in Item /\ Fits(c, x) /\ x.ok = ok /\ b = Grow(c, x) /\ Last(b.items) = x
  BY <1>1, NewIs
<1>3. Write(Grow(c, x), x.place) = Grow(c, y)
  BY <1>2, WriteIs
<1>4. w \in BOOLEAN
  BY <1>2
<1>5. y = NewItem(c, type, float, w, su)
  <2> DEFINE p == PlaceFor(type, float, c.ints, c.floats, c.slots)
  <2>1. x = [type |-> type, float |-> float, place |-> p, ok |-> ok, su |-> su]
        /\ NewItem(c, type, float, w, su) = [type |-> type, float |-> float, place |-> p, ok |-> w, su |-> su]
    BY DEF NewItem
  <2> HIDE DEF x, w, p
  <2> QED
    BY <2>1
<1> HIDE DEF x, y, b, w
<1>6. Write(b, Last(b.items).place) = With(c, type, float, w, su)
  BY <1>2, <1>3, <1>5 DEF With
<1> QED
  BY <1>4, <1>6 DEF b

LEMMA TempWritten ==
  ASSUME NEW c, Placed(c), NEW float \in BOOLEAN
  PROVE  LET b == push(c, "rvalue", float)
         IN \E v \in BOOLEAN : Write(b, Last(b.items).place) = With(c, "rvalue", float, v, 1)
<1> DEFINE b == push(c, "rvalue", float)
           yes == TRUE
           one == 1
<1>1. c \in Machine /\ "rvalue" \in Types /\ yes \in BOOLEAN /\ one \in Nat
  BY DEF Placed, Types
<1>2. b = With(c, "rvalue", float, yes, one)
  BY <1>1, PushWith
<1> HIDE DEF b, yes, one
<1>3. \E v \in BOOLEAN :
        Write(With(c, "rvalue", float, yes, one), Last(With(c, "rvalue", float, yes, one).items).place)
          = With(c, "rvalue", float, v, one)
  BY <1>1, WriteWith, Zenon
<1>4. \E v \in BOOLEAN : Write(b, Last(b.items).place) = With(c, "rvalue", float, v, one)
  BY <1>2, <1>3
<1> QED
  BY <1>4 DEF b, one

\* A temporary leaves nothing behind.
LEMMA TempGone ==
  ASSUME NEW c, Placed(c), NEW float \in BOOLEAN
  PROVE  LET b == push(c, "rvalue", float)
         IN pop(Write(b, Last(b.items).place)) = c
<1> DEFINE b == push(c, "rvalue", float)
           one == 1
<1>1. c \in Machine /\ "rvalue" \in Types /\ one \in Nat
  BY DEF Placed, Types
<1>2. PICK v \in BOOLEAN : Write(b, Last(b.items).place) = With(c, "rvalue", float, v, one)
  BY TempWritten
<1> HIDE DEF b, one
<1>3. pop(With(c, "rvalue", float, v, one)) = c
  BY <1>1, PopWith
<1> QED
  BY <1>2, <1>3 DEF b

LEMMA WrittenResult ==
  ASSUME NEW c, Placed(c), NEW float \in BOOLEAN, NEW v \in BOOLEAN
  PROVE  LET b == push(c, "rvalue", float)
         IN Result(Write(b, Last(b.items).place), v) = With(c, "rvalue", float, v, 1)
<1> DEFINE b == push(c, "rvalue", float)
           one == 1
<1>1. c \in Machine /\ "rvalue" \in Types /\ one \in Nat
  BY DEF Placed, Types
<1>2. PICK o \in BOOLEAN : Write(b, Last(b.items).place) = With(c, "rvalue", float, o, one)
  BY TempWritten
<1> HIDE DEF b, one
<1>3. Result(With(c, "rvalue", float, o, one), v) = With(c, "rvalue", float, v, one)
  BY <1>1, ResultIs
<1> QED
  BY <1>2, <1>3 DEF b, one

LEMMA PushedIs ==
  ASSUME NEW c, Placed(c), NEW float \in BOOLEAN
  PROVE  LET b == push(c, "rvalue", float)
         IN /\ Placed(b) /\ b \in Machine
            /\ b.ints = c.ints + (IF float THEN 0 ELSE 1)
            /\ b.floats = c.floats + (IF float THEN 1 ELSE 0)
            /\ b.slots = c.slots + (IF (IF float THEN c.floats ELSE c.ints) >= NumRegs THEN 1 ELSE 0)
            /\ Last(b.items).place = PlaceFor("rvalue", float, c.ints, c.floats, c.slots)
<1> DEFINE b == push(c, "rvalue", float)
           yes == TRUE
           one == 1
<1>1. c \in Machine /\ "rvalue" \in Types /\ yes \in BOOLEAN /\ one \in Nat
  BY DEF Placed, Types
<1>2. b = With(c, "rvalue", float, yes, one)
  BY <1>1, PushWith
<1> HIDE DEF b, yes, one
<1>3. Placed(b) /\ b \in Machine
  BY <1>1, <1>2, WithIsPlaced DEF Placed
<1>4. Last(b.items).place = PlaceFor("rvalue", float, c.ints, c.floats, c.slots)
  BY <1>1, <1>2, NewIs
<1>5. /\ b.ints = c.ints + (IF "rvalue" \in {"rvalue", "lvalue_abs"} /\ ~("rvalue" = "rvalue" /\ float) THEN 1 ELSE 0)
      /\ b.floats = c.floats + (IF "rvalue" = "rvalue" /\ float THEN 1 ELSE 0)
      /\ b.slots = c.slots + (IF "rvalue" \in {"rvalue", "lvalue_abs"}
                                  /\ (IF "rvalue" = "rvalue" /\ float THEN c.floats ELSE c.ints) >= NumRegs
                              THEN 1 ELSE 0)
  BY <1>1, <1>2, WithCounters
<1> QED
  BY <1>3, <1>4, <1>5 DEF b

LEMMA CvtIs ==
  ASSUME NEW c, Placed(c), NEW type \in Types, NEW float \in BOOLEAN, NEW ok \in BOOLEAN, NEW su \in Nat,
         NEW f \in BOOLEAN
  PROVE  jitc_asm_cvt(With(c, type, float, ok, su), f) = With(c, "rvalue", f, ok, IF su = 1 THEN 2 ELSE su)
<1> DEFINE a == With(c, type, float, ok, su)
           res == push(c, "rvalue", f)
           no == FALSE
           via == push(res, "rvalue", no)
           u == IF su = 1 THEN 2 ELSE su
<1>1. c \in Machine /\ "rvalue" \in Types /\ u \in Nat
  BY DEF Placed, Types
<1>2. pop(a) = c /\ Last(a.items).ok = ok /\ Last(a.items).su = su /\ Last(a.items).float = float
  BY <1>1, PopWith, NewIs
<1>3. Placed(res)
  BY PushedIs
<1>4. pop(Write(via, Last(via.items).place)) = res
  BY <1>3, TempGone
<1>5. Result(res, ok) = With(c, "rvalue", f, ok, 1)
  BY <1>1, PushedResult
<1> HIDE DEF a, res, via
<1>6. jitc_asm_cvt(a, f) = Su(Result(IF f /\ ~float THEN pop(Write(via, Last(via.items).place)) ELSE res, ok), u)
  BY <1>2 DEF jitc_asm_cvt, res, via
<1>7. jitc_asm_cvt(a, f) = Su(With(c, "rvalue", f, ok, 1), u)
  BY <1>4, <1>5, <1>6
<1> HIDE DEF u
<1>8. Su(With(c, "rvalue", f, ok, 1), u) = With(c, "rvalue", f, ok, u)
  BY <1>1, SuIs
<1> QED
  BY <1>7, <1>8 DEF a, u

(* Whether increment has the value of an operand on c to work with.        *)
IncrementRight(c, type, float, ok, su, suffix) ==
  LET x     == NewItem(c, type, float, ok, su)
      res   == push(c, "rvalue", float)
      temps == suffix /\ type = "lvalue_abs"
      work  == IF temps THEN Last(push(res, "rvalue", float).items).place ELSE Last(res.items).place
  IN  ok /\ (suffix => ~In(x, work))

LEMMA IncrementIs ==
  ASSUME NEW c, Placed(c), NEW type \in Types, NEW float \in BOOLEAN, NEW ok \in BOOLEAN, NEW su \in Nat,
         NEW suffix \in BOOLEAN, type # "rvalue"
  PROVE  LET v == IncrementRight(c, type, float, ok, su, suffix)
         IN /\ v \in BOOLEAN
            /\ increment(With(c, type, float, ok, su), suffix) = With(c, "rvalue", float, v, su)
            /\ ok /\ ~(suffix /\ float /\ InSlot(NewItem(c, type, float, ok, su))) => v
<1> DEFINE a == With(c, type, float, ok, su)
           x == NewItem(c, type, float, ok, su)
           res == push(c, "rvalue", float)
           more == push(res, "rvalue", float)
           temps == suffix /\ type = "lvalue_abs"
           work == IF temps THEN Last(more.items).place ELSE Last(res.items).place
           v == ok /\ (suffix => ~In(x, work))
<1>1. /\ c \in Machine /\ "rvalue" \in Types /\ NumRegs \in Nat
      /\ c.ints \in Nat /\ c.floats \in Nat /\ c.slots \in Nat
  BY RegsAssumption, MachineFields DEF Placed, Types
<1>2. pop(a) = c /\ Last(a.items) = x /\ x.ok = ok /\ x.su = su /\ x.float = float /\ x.type = type
      /\ x.place = PlaceFor(type, float, c.ints, c.floats, c.slots)
  <2>1. pop(a) = c
    BY <1>1, PopWith
  <2>2. /\ Last(a.items) = x /\ x.ok = ok /\ x.su = su /\ x.float = float /\ x.type = type
        /\ x.place = PlaceFor(type, float, c.ints, c.floats, c.slots)
    BY <1>1, NewTop
  <2> QED
    BY <2>1, <2>2
<1>3. /\ Placed(res) /\ res \in Machine
      /\ res.ints = c.ints + (IF float THEN 0 ELSE 1)
      /\ res.floats = c.floats + (IF float THEN 1 ELSE 0)
      /\ res.slots = c.slots + (IF (IF float THEN c.floats ELSE c.ints) >= NumRegs THEN 1 ELSE 0)
      /\ Last(res.items).place = PlaceFor("rvalue", float, c.ints, c.floats, c.slots)
  BY PushedIs
<1>4. Last(more.items).place = PlaceFor("rvalue", float, res.ints, res.floats, res.slots)
  BY <1>3, PushedIs
<1>5. pop(Write(more, Last(more.items).place)) = res
  BY <1>3, TempGone
<1>6. Result(res, v) = With(c, "rvalue", float, v, 1)
  BY <1>1, PushedResult
<1>7. Result(Write(res, Last(res.items).place), v) = With(c, "rvalue", float, v, 1)
  <2>1. v \in BOOLEAN
    OBVIOUS
  <2> HIDE DEF v
  <2> QED
    BY <2>1, WrittenResult
<1>8. Su(With(c, "rvalue", float, v, 1), su) = With(c, "rvalue", float, v, su)
  <2>1. v \in BOOLEAN
    OBVIOUS
  <2> HIDE DEF v
  <2> QED
    BY <1>1, <2>1, SuIs
<1>9. increment(a, suffix) = With(c, "rvalue", float, v, su)
  <2> HIDE DEF a, res, more, x
  <2>1. CASE temps
    <3>1. increment(a, suffix) = Su(Result(pop(Write(more, Last(more.items).place)), v), su)
      BY <1>2, <2>1 DEF increment, res, more
    <3> QED
      BY <1>5, <1>6, <1>8, <3>1
  <2>2. CASE ~temps
    <3>1. increment(a, suffix) = Su(Result(Write(res, Last(res.items).place), v), su)
      BY <1>2, <2>2 DEF increment, res
    <3> QED
      BY <1>7, <1>8, <3>1
  <2> QED
    BY <2>1, <2>2
<1>10. ok /\ ~(suffix /\ float /\ InSlot(x)) => v
  <2> HIDE DEF a, res, more, x
  <2> SUFFICES ASSUME ok, suffix, ~(float /\ InSlot(x)), In(x, work)
               PROVE  FALSE
    OBVIOUS
  <2>1. temps /\ x.place = Last(more.items).place
    BY <1>2 DEF In, Held, Types
  <2>2. PlaceFor("lvalue_abs", float, c.ints, c.floats, c.slots)
          = PlaceFor("rvalue", float, res.ints, res.floats, res.slots)
    BY <1>2, <1>4, <2>1
  <2>3. ~(float /\ c.ints >= NumRegs)
    BY <1>1, <1>2, <2>1 DEF InSlot, PlaceFor
  <2>4. CASE float
    BY <1>1, <1>3, <2>2, <2>3, <2>4 DEF PlaceFor
  <2>5. CASE ~float
    BY <1>1, <1>3, <2>2, <2>5 DEF PlaceFor
  <2> QED
    BY <2>4, <2>5
<1>11. v \in BOOLEAN
  OBVIOUS
<1>12. v = IncrementRight(c, type, float, ok, su, suffix)
  BY DEF IncrementRight
<1> HIDE DEF a, x, v
<1> QED
  BY <1>9, <1>10, <1>11, <1>12 DEF a, x
--------------------------------------------------------------------------------
(* Two operands on top, whether or not the places they have are those that *)
(* push would give them in this order.                                     *)
LEMMA TopTwo ==
  ASSUME NEW c \in Machine, NEW y \in Item, NEW x \in Item
  PROVE  LET b == Grow(Grow(c, y), x)
             n == Len(c.items)
         IN /\ b \in Machine /\ n \in Nat /\ Len(b.items) = n + 2
            /\ Under(b.items) = y /\ Last(b.items) = x /\ pop(b) = Grow(c, y) /\ pop(pop(b)) = c
            /\ b.items[n + 1] = y /\ b.items[n + 2] = x /\ \A i \in 1..n : b.items[i] = c.items[i]
            /\ b.memory = c.memory
<1> DEFINE g == Grow(c, y)
           b == Grow(g, x)
           n == Len(c.items)
<1>1. /\ g \in Machine /\ n \in Nat /\ Len(g.items) = n + 1 /\ g.items[n + 1] = y
      /\ \A i \in 1..n : g.items[i] = c.items[i]
      /\ g.memory = c.memory
  BY Grown
<1>2. pop(g) = c
  BY PopIs
<1> HIDE DEF g
<1>3. /\ b \in Machine /\ Len(b.items) = n + 2 /\ b.items[n + 2] = x /\ Last(b.items) = x
      /\ \A i \in 1..(n + 1) : b.items[i] = g.items[i]
      /\ b.memory = g.memory
  BY <1>1, Grown
<1>4. pop(b) = g
  BY <1>1, PopIs
<1> HIDE DEF b, n
<1>5. Under(b.items) = b.items[n + 1]
  BY <1>1, <1>3 DEF Under
<1>6. b.items[n + 1] = y /\ \A i \in 1..n : b.items[i] = c.items[i]
  BY <1>1, <1>3
<1> QED
  BY <1>1, <1>2, <1>3, <1>4, <1>5, <1>6 DEF b, g, n

LEMMA SwpIs ==
  ASSUME NEW c \in Machine, NEW y \in Item, NEW x \in Item
  PROVE  jitc_asm_swp(Grow(Grow(c, y), x)) = Grow(Grow(c, x), y)
<1> DEFINE b == Grow(Grow(c, y), x)
           s == c.items
           n == Len(s)
           t == SubSeq(b.items, 1, Len(b.items) - 2) \o <<x, y>>
<1>1. /\ s \in Seq(Item) /\ n \in Nat /\ c.ints \in Nat /\ c.floats \in Nat /\ c.slots \in Nat
  BY MachineFields
<1>2. b \in Machine /\ Len(b.items) = n + 2 /\ Under(b.items) = y /\ Last(b.items) = x
      /\ \A i \in 1..n : b.items[i] = s[i]
  BY TopTwo
<1>3. b.items \in Seq(Item) /\ b.ints \in Nat /\ b.floats \in Nat /\ b.slots \in Nat
  BY <1>2, MachineFields
<1>4. /\ b.ints = c.ints + (IF ByInts(y) THEN 1 ELSE 0) + (IF ByInts(x) THEN 1 ELSE 0)
      /\ b.floats = c.floats + (IF ByFloats(y) THEN 1 ELSE 0) + (IF ByFloats(x) THEN 1 ELSE 0)
      /\ b.slots = c.slots + (IF InSlot(y) THEN 1 ELSE 0) + (IF InSlot(x) THEN 1 ELSE 0)
      /\ b.memory = c.memory
  BY DEF Grow
<1>5. Grow(Grow(c, x), y) =
        [items  |-> Append(Append(s, x), y),
         ints   |-> c.ints + (IF ByInts(x) THEN 1 ELSE 0) + (IF ByInts(y) THEN 1 ELSE 0),
         floats |-> c.floats + (IF ByFloats(x) THEN 1 ELSE 0) + (IF ByFloats(y) THEN 1 ELSE 0),
         slots  |-> c.slots + (IF InSlot(x) THEN 1 ELSE 0) + (IF InSlot(y) THEN 1 ELSE 0),
         memory |-> c.memory]
  BY DEF Grow
<1>6. jitc_asm_swp(b) = [b EXCEPT !.items = SubSeq(b.items, 1, Len(b.items) - 2) \o <<Last(b.items), Under(b.items)>>]
  BY DEF jitc_asm_swp
<1> HIDE DEF b, s, n
<1>7. t = Append(Append(s, x), y)
  <2> DEFINE p == SubSeq(b.items, 1, n)
             q == Append(Append(s, x), y)
  <2>1. p \in Seq(Item) /\ Len(p) = n /\ \A i \in 1..n : p[i] = b.items[i]
    BY <1>1, <1>2, <1>3, Prefix
  <2>2. Len(b.items) - 2 = n
    BY <1>1, <1>2
  <2>3. t = p \o <<x, y>>
    BY <2>2
  <2> HIDE DEF p, t
  <2>4. t \in Seq(Item) /\ Len(t) = n + 2 /\ \A i \in 1..(n + 2) : t[i] = IF i <= n THEN p[i] ELSE IF i = n + 1 THEN x ELSE y
    <3>1. <<x, y>> \in Seq(Item) /\ Len(<<x, y>>) = 2 /\ <<x, y>>[1] = x /\ <<x, y>>[2] = y
      OBVIOUS
    <3> DEFINE z == <<x, y>>
    <3> HIDE DEF z
    <3>2. z \in Seq(Item) /\ Len(z) = 2 /\ z[1] = x /\ z[2] = y
      BY <3>1 DEF z
    <3>3. t = p \o z
      BY <2>3 DEF z
    <3>4. /\ p \o z \in Seq(Item) /\ Len(p \o z) = Len(p) + Len(z)
          /\ \A i \in 1..(Len(p) + Len(z)) : (p \o z)[i] = IF i <= Len(p) THEN p[i] ELSE z[i - Len(p)]
      BY <2>1, <3>2, ConcatProperties
    <3>5. /\ t \in Seq(Item) /\ Len(t) = n + 2
          /\ \A i \in 1..(n + 2) : t[i] = IF i <= n THEN p[i] ELSE z[i - n]
      BY <2>1, <3>2, <3>3, <3>4
    <3> QED
      BY <1>1, <3>2, <3>5
  <2>5. q \in Seq(Item) /\ Len(q) = n + 2 /\ \A i \in 1..(n + 2) : q[i] = IF i <= n THEN s[i] ELSE IF i = n + 1 THEN x ELSE y
    <3> DEFINE r == Append(s, x)
    <3>1. r \in Seq(Item) /\ Len(r) = n + 1 /\ \A i \in 1..(n + 1) : r[i] = IF i <= n THEN s[i] ELSE x
      BY <1>1 DEF n
    <3> HIDE DEF r
    <3>2. Append(r, y) \in Seq(Item) /\ Len(Append(r, y)) = n + 2
          /\ \A i \in 1..(n + 2) : Append(r, y)[i] = IF i <= n + 1 THEN r[i] ELSE y
      BY <1>1, <3>1
    <3> QED
      BY <1>1, <3>1, <3>2 DEF r
  <2> HIDE DEF q
  <2>6. ASSUME NEW i \in 1..(n + 2)
        PROVE  t[i] = q[i]
    <3>1. CASE i <= n
      <4>1. i \in 1..n
        BY <1>1, <3>1
      <4>2. p[i] = s[i]
        BY <1>2, <2>1, <4>1
      <4> QED
        BY <2>4, <2>5, <3>1, <4>2
    <3>2. CASE ~(i <= n)
      BY <2>4, <2>5, <3>2
    <3> QED
      BY <3>1, <3>2
  <2>7. t = q
    BY <1>1, <2>4, <2>5, <2>6, SeqEqual
  <2> QED
    BY <2>7 DEF q
<1>8. jitc_asm_swp(b) = [b EXCEPT !.items = t]
  BY <1>2, <1>6
<1> HIDE DEF t
<1>9. [b EXCEPT !.items = t] =
        [items |-> t, ints |-> b.ints, floats |-> b.floats, slots |-> b.slots, memory |-> b.memory]
  BY <1>2 DEF Machine
<1>10. /\ b.ints = c.ints + (IF ByInts(x) THEN 1 ELSE 0) + (IF ByInts(y) THEN 1 ELSE 0)
       /\ b.floats = c.floats + (IF ByFloats(x) THEN 1 ELSE 0) + (IF ByFloats(y) THEN 1 ELSE 0)
       /\ b.slots = c.slots + (IF InSlot(x) THEN 1 ELSE 0) + (IF InSlot(y) THEN 1 ELSE 0)
  BY <1>1, <1>4
<1> QED
  BY <1>4, <1>5, <1>7, <1>8, <1>9, <1>10 DEF b

LEMMA FrombothIs ==
  ASSUME NEW c, Placed(c), NEW y \in Item, NEW x \in Item, NEW f \in BOOLEAN
  PROVE  fromboth(Grow(Grow(c, y), x), f) = With(c, "rvalue", f, y.ok /\ x.ok, 1)
<1> DEFINE b == Grow(Grow(c, y), x)
           v == y.ok /\ x.ok
<1>1. c \in Machine /\ "rvalue" \in Types /\ v \in BOOLEAN
  BY DEF Placed, Types, Item
<1>2. Under(b.items) = y /\ Last(b.items) = x /\ pop(pop(b)) = c
  BY <1>1, TopTwo
<1> HIDE DEF b
<1>3. fromboth(b, f) = Result(push(c, "rvalue", f), v)
  BY <1>2 DEF fromboth
<1> HIDE DEF v
<1>4. Result(push(c, "rvalue", f), v) = With(c, "rvalue", f, v, 1)
  BY <1>1, PushedResult
<1> QED
  BY <1>3, <1>4 DEF b, v

(* Whether bitshift and binaryop have the values of y and x to work with,  *)
(* when the result has its place above c.                                  *)
ShiftRight(c, y, x) ==
  LET place == PlaceFor("rvalue", FALSE, c.ints, c.floats, c.slots)
      move  == y.type # "rvalue"
  IN  /\ y.ok /\ (move \/ y.place = place)
      /\ x.ok /\ (move => ~In(x, place))

LEMMA BitshiftIs ==
  ASSUME NEW c, Placed(c), NEW y \in Item, NEW x \in Item
  PROVE  bitshift(Grow(Grow(c, y), x)) = With(c, "rvalue", FALSE, ShiftRight(c, y, x), 1)
<1> DEFINE b == Grow(Grow(c, y), x)
           no == FALSE
           res == push(c, "rvalue", no)
           v == ShiftRight(c, y, x)
<1>1. c \in Machine /\ "rvalue" \in Types /\ no \in BOOLEAN /\ y.ok \in BOOLEAN /\ x.ok \in BOOLEAN
  BY DEF Placed, Types, Item
<1>2. Under(b.items) = y /\ Last(b.items) = x /\ pop(pop(b)) = c
  BY <1>1, TopTwo
<1>3. v \in BOOLEAN
  BY <1>1 DEF ShiftRight
<1> HIDE DEF no
<1>4. Last(res.items).place = PlaceFor("rvalue", no, c.ints, c.floats, c.slots)
  BY <1>1, PushedIs
<1> HIDE DEF b, v
<1>5. bitshift(b) = Result(res, v)
  <2> HIDE DEF res
  <2> QED
    BY <1>2, <1>4 DEF bitshift, ShiftRight, v, res, no
<1>6. Result(push(c, "rvalue", no), v) = With(c, "rvalue", no, v, 1)
  BY <1>1, <1>3, PushedResult
<1> QED
  BY <1>5, <1>6 DEF b, v, no

(* The machine in which binaryop takes the third place. *)
Third(c, f) == push(push(c, "rvalue", f), "rvalue", f)

LEMMA ThirdIs ==
  ASSUME NEW c, Placed(c), NEW f \in BOOLEAN
  PROVE  LET d == Third(c, f)
         IN /\ Placed(d) /\ pop(d) = push(c, "rvalue", f)
            /\ d.ints = c.ints + (IF f THEN 0 ELSE 2)
            /\ d.floats = c.floats + (IF f THEN 2 ELSE 0)
            /\ d.slots \in Nat
            /\ d.slots >= c.slots
            /\ c.ints + 1 >= NumRegs /\ ~f => d.slots >= c.slots + 1
            /\ c.ints >= NumRegs /\ ~f => d.slots = c.slots + 2
<1> DEFINE b == push(c, "rvalue", f)
           d == push(b, "rvalue", f)
           yes == TRUE
           one == 1
<1>1. /\ c.ints \in Nat /\ c.floats \in Nat /\ c.slots \in Nat /\ NumRegs \in Nat /\ "rvalue" \in Types
      /\ yes \in BOOLEAN /\ one \in Nat
  BY RegsAssumption, MachineFields DEF Placed, Types
<1>2. /\ Placed(b) /\ b \in Machine
      /\ b.ints = c.ints + (IF f THEN 0 ELSE 1)
      /\ b.floats = c.floats + (IF f THEN 1 ELSE 0)
      /\ b.slots = c.slots + (IF (IF f THEN c.floats ELSE c.ints) >= NumRegs THEN 1 ELSE 0)
  BY PushedIs
<1> HIDE DEF b
<1>3. /\ Placed(d)
      /\ d.ints = b.ints + (IF f THEN 0 ELSE 1)
      /\ d.floats = b.floats + (IF f THEN 1 ELSE 0)
      /\ d.slots = b.slots + (IF (IF f THEN b.floats ELSE b.ints) >= NumRegs THEN 1 ELSE 0)
  BY <1>2, PushedIs
<1>4. d = With(b, "rvalue", f, yes, one)
  BY <1>1, <1>2, PushWith
<1> HIDE DEF d, yes, one
<1>5. pop(d) = b
  BY <1>1, <1>2, <1>4, PopWith
<1>6. d.slots \in Nat
  BY <1>3, MachineFields DEF Placed
<1> QED
  BY <1>1, <1>2, <1>3, <1>5, <1>6 DEF b, d, Third

WorkPlace(c, y, x) ==
  IF (y.type # "rvalue" \/ isswp(y, x)) /\ Held(x)
  THEN PlaceFor("rvalue", y.float, Third(c, y.float).ints, Third(c, y.float).floats, Third(c, y.float).slots)
  ELSE PlaceFor("rvalue", y.float, c.ints, c.floats, c.slots)

BinaryRight(c, y, x) ==
  LET move == y.type # "rvalue" \/ isswp(y, x)
      work == WorkPlace(c, y, x)
  IN  /\ y.ok /\ (move \/ y.place = work)
      /\ x.ok /\ (move => ~In(x, work))

LEMMA BinaryopIs ==
  ASSUME NEW c, Placed(c), NEW y \in Item, NEW x \in Item
  PROVE  binaryop(Grow(Grow(c, y), x)) = With(c, "rvalue", y.float, BinaryRight(c, y, x), 1)
<1> DEFINE b == Grow(Grow(c, y), x)
           f == y.float
           res == push(c, "rvalue", f)
           two == push(Third(c, f), "rvalue", f)
           v == BinaryRight(c, y, x)
<1>1. c \in Machine /\ "rvalue" \in Types /\ f \in BOOLEAN /\ y.ok \in BOOLEAN /\ x.ok \in BOOLEAN
  BY DEF Placed, Types, Item
<1>2. Under(b.items) = y /\ Last(b.items) = x /\ pop(pop(b)) = c
  BY <1>1, TopTwo
<1>3. v \in BOOLEAN
  BY <1>1 DEF BinaryRight
<1>4. Last(res.items).place = PlaceFor("rvalue", f, c.ints, c.floats, c.slots)
  BY <1>1, PushedIs
<1>5. Placed(Third(c, f)) /\ pop(Third(c, f)) = res
  BY <1>1, ThirdIs
<1>6. /\ Last(two.items).place = PlaceFor("rvalue", f, Third(c, f).ints, Third(c, f).floats, Third(c, f).slots)
      /\ pop(Write(two, Last(two.items).place)) = Third(c, f)
  BY <1>1, <1>5, PushedIs, TempGone
<1> HIDE DEF v
<1>7. Result(res, v) = With(c, "rvalue", f, v, 1) /\ Result(Write(res, Last(res.items).place), v) = With(c, "rvalue", f, v, 1)
  BY <1>1, <1>3, PushedResult, WrittenResult
<1> DEFINE move == y.type # "rvalue" \/ isswp(y, x)
           temps == move /\ Held(x)
           third == IF temps THEN two ELSE res
           work == Last(third.items).place
           done == Write(third, work)
           ok == /\ y.ok /\ (move \/ y.place = work)
                 /\ x.ok /\ (move => ~In(x, work))
<1>8. binaryop(b) = Result(IF temps THEN pop(pop(done)) ELSE done, ok)
  <2> HIDE DEF b
  <2> QED
    BY <1>2 DEF binaryop, Third
<1> HIDE DEF b, two, res, f
<1>9. CASE temps
  <2>1. work = WorkPlace(c, y, x) /\ third = two
    BY <1>6, <1>9 DEF WorkPlace, f
  <2>2. ok = v
    <3> HIDE DEF third, temps, work
    <3> QED
      BY <2>1 DEF BinaryRight, v
  <2>3. pop(pop(done)) = res
    BY <1>5, <1>6, <2>1
  <2> HIDE DEF ok, done
  <2>4. binaryop(b) = Result(res, v)
    BY <1>8, <1>9, <2>2, <2>3
  <2> QED
    BY <1>7, <2>4 DEF b, v, f
<1>10. CASE ~temps
  <2>1. work = WorkPlace(c, y, x) /\ third = res
    BY <1>4, <1>10 DEF WorkPlace, f
  <2>2. ok = v
    <3> HIDE DEF third, temps, work
    <3> QED
      BY <2>1 DEF BinaryRight, v
  <2>3. done = Write(res, Last(res.items).place)
    BY <2>1
  <2> HIDE DEF ok, done
  <2>4. binaryop(b) = Result(Write(res, Last(res.items).place), v)
    BY <1>8, <1>10, <2>2, <2>3
  <2> QED
    BY <1>7, <2>4 DEF b, v, f
<1> QED
  BY <1>9, <1>10

(* Operands in the order they were pushed in, as the left operand first.   *)
LEMMA InOrder ==
  ASSUME NEW c \in Machine, NEW y, NEW x, Fits(c, y), Fits(Grow(c, y), x)
  PROVE  /\ y.type \in Types /\ y.float \in BOOLEAN /\ x.type \in Types /\ x.float \in BOOLEAN
         /\ y.place = PlaceFor(y.type, y.float, c.ints, c.floats, c.slots)
         /\ x.place = PlaceFor(x.type, x.float, c.ints + (IF ByInts(y) THEN 1 ELSE 0),
                               c.floats + (IF ByFloats(y) THEN 1 ELSE 0), c.slots + (IF InSlot(y) THEN 1 ELSE 0))
BY DEF Fits, Grow, Item

LEMMA BinaryInOrder ==
  ASSUME NEW c, Placed(c), NEW y, NEW x, Fits(c, y), Fits(Grow(c, y), x), x.float = y.float,
         y.ok, x.ok, y.float => ~InSlot(y) /\ ~InSlot(x)
  PROVE  BinaryRight(c, y, x)
<1> DEFINE i == c.ints
           f == c.floats
           l == c.slots
           d == Third(c, y.float)
<1>1. c \in Machine
  BY DEF Placed
<1>2. /\ y.type \in Types /\ y.float \in BOOLEAN /\ x.type \in Types
      /\ y.place = PlaceFor(y.type, y.float, i, f, l)
      /\ x.place = PlaceFor(x.type, y.float, i + (IF ByInts(y) THEN 1 ELSE 0),
                            f + (IF ByFloats(y) THEN 1 ELSE 0), l + (IF InSlot(y) THEN 1 ELSE 0))
  BY <1>1, InOrder
<1>3. i \in Nat /\ f \in Nat /\ l \in Nat /\ NumRegs \in Nat
  BY <1>1, MachineFields, RegsAssumption
<1>4. /\ d.ints = i + (IF y.float THEN 0 ELSE 2)
      /\ d.floats = f + (IF y.float THEN 2 ELSE 0)
      /\ d.slots \in Nat
      /\ d.slots >= l
      /\ i + 1 >= NumRegs /\ ~y.float => d.slots >= l + 1
      /\ i >= NumRegs /\ ~y.float => d.slots = l + 2
  BY <1>2, ThirdIs
<1> HIDE DEF i, f, l, d
<1>5. /\ ByInts(y) <=> y.type = "lvalue_abs" \/ (y.type = "rvalue" /\ ~y.float)
      /\ ByFloats(y) <=> y.type = "rvalue" /\ y.float
      /\ Held(x) <=> x.type \in {"rvalue", "lvalue_abs"}
  BY DEF ByInts, ByFloats, Held
<1>6. ASSUME y.type = "rvalue", ~isswp(y, x)
      PROVE  y.place = WorkPlace(c, y, x)
  BY <1>2, <1>6 DEF WorkPlace, i, f, l
<1>7. ASSUME y.type # "rvalue" \/ isswp(y, x), Held(x)
      PROVE  x.place # WorkPlace(c, y, x)
  <2>1. WorkPlace(c, y, x) = PlaceFor("rvalue", y.float, d.ints, d.floats, d.slots)
    BY <1>7 DEF WorkPlace, d
  <2>2. CASE y.float
    <3>1. x.place[1] # "slot" /\ y.place[1] # "slot"
      BY <2>2 DEF InSlot
    <3>2. CASE x.type = "rvalue"
      BY <1>2, <1>3, <1>4, <1>5, <2>1, <2>2, <3>1, <3>2 DEF PlaceFor
    <3>3. CASE x.type = "lvalue_abs"
      BY <1>2, <1>3, <1>4, <1>5, <2>1, <2>2, <3>1, <3>3 DEF PlaceFor
    <3> QED
      BY <1>5, <1>7, <3>2, <3>3
  <2>3. CASE ~y.float
    <3>1. InSlot(y) <=> ByInts(y) /\ i >= NumRegs
      BY <1>2, <1>3, <1>5, <2>3 DEF InSlot, PlaceFor, Nowhere
    <3>2. x.place = IF i + (IF ByInts(y) THEN 1 ELSE 0) < NumRegs
                    THEN <<"int", i + (IF ByInts(y) THEN 1 ELSE 0)>>
                    ELSE <<"slot", l + (IF InSlot(y) THEN 1 ELSE 0) + 1>>
      BY <1>2, <1>5, <1>7, <2>3 DEF PlaceFor
    <3>3. WorkPlace(c, y, x) = IF i + 2 < NumRegs THEN <<"int", i + 2>> ELSE <<"slot", d.slots + 1>>
      BY <1>4, <2>1, <2>3 DEF PlaceFor
    <3> QED
      BY <1>3, <1>4, <2>3, <3>1, <3>2, <3>3
  <2> QED
    BY <1>2, <2>2, <2>3
<1> QED
  BY <1>6, <1>7 DEF BinaryRight, In

LEMMA BinarySwapped ==
  ASSUME NEW c, Placed(c), NEW y, NEW x, Fits(c, x), Fits(Grow(c, x), y), x.float = y.float,
         y.ok, x.ok, ~InSlot(y), ~InSlot(x)
  PROVE  BinaryRight(c, y, x)
<1> DEFINE i == c.ints
           f == c.floats
           l == c.slots
           d == Third(c, y.float)
<1>1. c \in Machine
  BY DEF Placed
<1>2. /\ y.type \in Types /\ y.float \in BOOLEAN /\ x.type \in Types
      /\ x.place = PlaceFor(x.type, y.float, i, f, l)
      /\ y.place = PlaceFor(y.type, y.float, i + (IF ByInts(x) THEN 1 ELSE 0),
                            f + (IF ByFloats(x) THEN 1 ELSE 0), l + (IF InSlot(x) THEN 1 ELSE 0))
  BY <1>1, InOrder
<1>3. i \in Nat /\ f \in Nat /\ l \in Nat /\ NumRegs \in Nat
  BY <1>1, MachineFields, RegsAssumption
<1>4. /\ d.ints = i + (IF y.float THEN 0 ELSE 2)
      /\ d.floats = f + (IF y.float THEN 2 ELSE 0)
      /\ d.slots \in Nat
  BY <1>2, ThirdIs
<1> HIDE DEF i, f, l, d
<1>5. /\ ByInts(x) <=> x.type = "lvalue_abs" \/ (x.type = "rvalue" /\ ~y.float)
      /\ ByFloats(x) <=> x.type = "rvalue" /\ y.float
      /\ Held(x) <=> x.type \in {"rvalue", "lvalue_abs"}
      /\ Held(y) <=> y.type \in {"rvalue", "lvalue_abs"}
  BY DEF ByInts, ByFloats, Held
<1>6. /\ Held(x) => x.place = IF x.type = "rvalue" /\ y.float THEN <<"xmm", f>> ELSE <<"int", i>>
      /\ Held(y) => y.place = IF y.type = "rvalue" /\ y.float
                              THEN <<"xmm", f + (IF ByFloats(x) THEN 1 ELSE 0)>>
                              ELSE <<"int", i + (IF ByInts(x) THEN 1 ELSE 0)>>
  BY <1>2, <1>5 DEF PlaceFor, InSlot
<1>7. ASSUME y.type = "rvalue", ~isswp(y, x)
      PROVE  y.place = WorkPlace(c, y, x)
  <2>1. WorkPlace(c, y, x) = PlaceFor("rvalue", y.float, i, f, l)
    BY <1>7 DEF WorkPlace, i, f, l
  <2>2. Held(x) => ~(x.place[2] < y.place[2])
    BY <1>5, <1>7 DEF isswp
  <2>3. ByFloats(x) \/ ByInts(x) => Held(x)
    BY <1>5
  <2>4. CASE y.float
    BY <1>2, <1>3, <1>5, <1>6, <1>7, <2>1, <2>2, <2>4 DEF PlaceFor, InSlot
  <2>5. CASE ~y.float
    BY <1>2, <1>3, <1>5, <1>6, <1>7, <2>1, <2>2, <2>5 DEF PlaceFor, InSlot
  <2> QED
    BY <2>4, <2>5
<1>8. ASSUME y.type # "rvalue" \/ isswp(y, x), Held(x)
      PROVE  x.place # WorkPlace(c, y, x)
  <2>1. WorkPlace(c, y, x) = PlaceFor("rvalue", y.float, d.ints, d.floats, d.slots)
    BY <1>8 DEF WorkPlace, d
  <2>2. CASE y.float
    BY <1>2, <1>3, <1>4, <1>6, <1>8, <2>1, <2>2 DEF PlaceFor
  <2>3. CASE ~y.float
    BY <1>2, <1>3, <1>4, <1>6, <1>8, <2>1, <2>3 DEF PlaceFor
  <2> QED
    BY <1>2, <2>2, <2>3
<1> QED
  BY <1>7, <1>8 DEF BinaryRight, In

LEMMA ShiftInOrder ==
  ASSUME NEW c, Placed(c), NEW y, NEW x, Fits(c, y), Fits(Grow(c, y), x), ~x.float, ~y.float,
         y.ok, x.ok, Held(x) => Held(y)
  PROVE  ShiftRight(c, y, x)
<1> DEFINE i == c.ints
           f == c.floats
           l == c.slots
<1>1. c \in Machine
  BY DEF Placed
<1>2. /\ y.type \in Types /\ y.float \in BOOLEAN /\ x.type \in Types /\ x.float \in BOOLEAN
      /\ y.place = PlaceFor(y.type, y.float, i, f, l)
      /\ x.place = PlaceFor(x.type, x.float, i + (IF ByInts(y) THEN 1 ELSE 0),
                            f + (IF ByFloats(y) THEN 1 ELSE 0), l + (IF InSlot(y) THEN 1 ELSE 0))
  BY <1>1, InOrder
<1>3. i \in Nat /\ f \in Nat /\ l \in Nat /\ NumRegs \in Nat
  BY <1>1, MachineFields, RegsAssumption
<1> HIDE DEF i, f, l
<1> DEFINE place == PlaceFor("rvalue", FALSE, i, f, l)
<1>4. y.type = "rvalue" => y.place = place
  BY <1>2 DEF PlaceFor
<1>5. y.type # "rvalue" => ~In(x, place)
  BY <1>2, <1>3 DEF In, PlaceFor, Held, ByInts, ByFloats, InSlot
<1> HIDE DEF place
<1> QED
  BY <1>4, <1>5 DEF ShiftRight, place, i, f, l

LEMMA ShiftSwapped ==
  ASSUME NEW c, Placed(c), NEW y, NEW x, Fits(c, x), Fits(Grow(c, x), y), ~x.float, ~y.float,
         y.ok, x.ok, ~Held(x)
  PROVE  ShiftRight(c, y, x)
<1> DEFINE i == c.ints
           f == c.floats
           l == c.slots
<1>1. c \in Machine
  BY DEF Placed
<1>2. /\ y.type \in Types /\ y.float \in BOOLEAN /\ x.type \in Types /\ x.float \in BOOLEAN
      /\ x.place = PlaceFor(x.type, x.float, i, f, l)
      /\ y.place = PlaceFor(y.type, y.float, i + (IF ByInts(x) THEN 1 ELSE 0),
                            f + (IF ByFloats(x) THEN 1 ELSE 0), l + (IF InSlot(x) THEN 1 ELSE 0))
  BY <1>1, InOrder
<1>3. i \in Nat /\ f \in Nat /\ l \in Nat
  BY <1>1, MachineFields
<1> HIDE DEF i, f, l
<1> DEFINE place == PlaceFor("rvalue", FALSE, i, f, l)
<1>4. ~ByInts(x) /\ ~ByFloats(x) /\ ~InSlot(x)
  BY <1>2 DEF ByInts, ByFloats, InSlot, Held, PlaceFor, Nowhere
<1>5. y.type = "rvalue" => y.place = place
  BY <1>2, <1>3, <1>4 DEF PlaceFor
<1>6. ~In(x, place)
  BY DEF In
<1> HIDE DEF place
<1> QED
  BY <1>5, <1>6 DEF ShiftRight, place, i, f, l
--------------------------------------------------------------------------------
(* b is a, but for which operands have their values, and their numbers.    *)
Touched(b, a) ==
  /\ b \in Machine /\ Len(b.items) = Len(a.items)
  /\ Alike(b.items, a.items, Len(a.items))
  /\ b.ints = a.ints /\ b.floats = a.floats /\ b.slots = a.slots /\ b.memory = a.memory

LEMMA TouchedTwice ==
  ASSUME NEW a, NEW b, NEW d, Touched(b, a), Touched(d, b)
  PROVE  Touched(d, a)
BY DEF Touched, Alike

LEMMA TouchedIsPlaced ==
  ASSUME NEW a, Placed(a), NEW b, Touched(b, a)
  PROVE  Placed(b)
<1> DEFINE s == a.items
           t == b.items
           n == Len(s)
<1>1. a \in Machine /\ n \in Nat
  BY MachineFields DEF Placed
<1>2. /\ b \in Machine /\ Len(t) = n /\ Alike(t, s, n)
      /\ b.ints = a.ints /\ b.floats = a.floats /\ b.slots = a.slots
  BY DEF Touched
<1>3. /\ a.ints = Ints(s, n) /\ a.floats = Floats(s, n) /\ a.slots = Slots(s, n)
      /\ Counted(s) /\ Ordered(s)
  BY DEF Placed
<1> HIDE DEF s, t, n
<1>4. ASSUME NEW k \in 0..n
      PROVE  Ints(t, k) = Ints(s, k) /\ Floats(t, k) = Floats(s, k) /\ Slots(t, k) = Slots(s, k)
  <2>1. Alike(t, s, k)
    BY <1>1, <1>2 DEF Alike
  <2> QED
    BY <2>1, CountAlike
<1>5. n \in 0..n
  BY <1>1
<1>6. Counted(t)
  <2>1. \A k \in 0..n : Slots(s, k) = Excess(Ints(s, k)) + Excess(Floats(s, k))
    BY <1>3 DEF Counted, n
  <2>2. \A k \in 0..n : Slots(t, k) = Excess(Ints(t, k)) + Excess(Floats(t, k))
    BY <1>4, <2>1
  <2> QED
    BY <1>2, <2>2 DEF Counted
<1>7. Ordered(t)
  <2>1. \A k \in 1..n :
          s[k].place = PlaceFor(s[k].type, s[k].float, Ints(s, k - 1), Floats(s, k - 1), Slots(s, k - 1))
    BY <1>3 DEF Ordered, n
  <2>2. ASSUME NEW k \in 1..n
        PROVE  t[k].place = PlaceFor(t[k].type, t[k].float, Ints(t, k - 1), Floats(t, k - 1), Slots(t, k - 1))
    <3>1. k - 1 \in 0..n
      BY <1>1
    <3>2. t[k].type = s[k].type /\ t[k].float = s[k].float /\ t[k].place = s[k].place
      BY <1>2 DEF Alike
    <3>3. Ints(t, k - 1) = Ints(s, k - 1) /\ Floats(t, k - 1) = Floats(s, k - 1) /\ Slots(t, k - 1) = Slots(s, k - 1)
      BY <1>4, <3>1
    <3> QED
      BY <2>1, <3>2, <3>3
  <2> QED
    BY <1>2, <2>2 DEF Ordered
<1>8. /\ b.ints = Ints(t, n) /\ b.floats = Floats(t, n) /\ b.slots = Slots(t, n)
  BY <1>2, <1>3, <1>4, <1>5
<1> QED
  BY <1>2, <1>6, <1>7, <1>8 DEF Placed, t

LEMMA ItemsTouched ==
  ASSUME NEW a \in Machine, NEW t \in Seq(Item), Len(t) = Len(a.items), Alike(t, a.items, Len(a.items))
  PROVE  Touched([a EXCEPT !.items = t], a)
<1> DEFINE b == [a EXCEPT !.items = t]
<1>1. b = [items |-> t, ints |-> a.ints, floats |-> a.floats, slots |-> a.slots, memory |-> a.memory]
  BY DEF Machine
<1>2. b \in Machine
  BY <1>1, MachineFields DEF Machine
<1> HIDE DEF b
<1>3. b.items = t /\ b.ints = a.ints /\ b.floats = a.floats /\ b.slots = a.slots /\ b.memory = a.memory
  BY <1>1
<1> QED
  BY <1>2, <1>3 DEF Touched, b

LEMMA WriteTouches ==
  ASSUME NEW a \in Machine, NEW p
  PROVE  Touched(Write(a, p), a)
<1> DEFINE s == a.items
           n == Len(s)
           t == [i \in 1..n |-> [s[i] EXCEPT !.ok = s[i].ok /\ ~In(s[i], p)]]
<1>1. s \in Seq(Item) /\ n \in Nat /\ DOMAIN s = 1..n /\ \A i \in 1..n : s[i] \in Item
  BY MachineFields
<1>2. Write(a, p) = [a EXCEPT !.items = t]
  BY <1>1 DEF Write
<1> HIDE DEF s, n
<1>3. ASSUME NEW i \in 1..n
      PROVE  /\ t[i] \in Item /\ t[i].type = s[i].type /\ t[i].float = s[i].float /\ t[i].place = s[i].place
  <2> DEFINE v == s[i].ok /\ ~In(s[i], p)
  <2>1. v \in BOOLEAN /\ s[i] \in Item
    BY <1>1 DEF Item
  <2>2. t[i] = [s[i] EXCEPT !.ok = v]
    OBVIOUS
  <2> HIDE DEF v, t
  <2> QED
    BY <2>1, <2>2 DEF Item
<1>4. t \in Seq(Item) /\ Len(t) = n
  <2>1. \A i \in 1..n : t[i] \in Item
    BY <1>3
  <2>2. t = [i \in 1..n |-> t[i]]
    OBVIOUS
  <2> HIDE DEF t
  <2> QED
    BY <1>1, <2>1, <2>2, LenProperties
<1>5. Alike(t, s, n)
  <2> HIDE DEF t
  <2> QED
    BY <1>3 DEF Alike
<1> HIDE DEF t
<1>6. Touched([a EXCEPT !.items = t], a)
  BY <1>4, <1>5, ItemsTouched DEF s, n
<1> QED
  BY <1>2, <1>6

LEMMA TopTouched ==
  ASSUME NEW a \in Machine, Len(a.items) > 0, NEW z \in Item,
         z.type = a.items[Len(a.items)].type, z.float = a.items[Len(a.items)].float,
         z.place = a.items[Len(a.items)].place
  PROVE  Touched([a EXCEPT !.items = [a.items EXCEPT ![Len(a.items)] = z]], a)
<1> DEFINE s == a.items
           n == Len(s)
           t == [s EXCEPT ![n] = z]
<1>1. s \in Seq(Item) /\ n \in Nat /\ n \in 1..n
  BY MachineFields
<1> HIDE DEF s
<1>2. t \in Seq(Item) /\ Len(t) = n /\ \A i \in 1..n : t[i] = IF i = n THEN z ELSE s[i]
  BY <1>1, ExceptSeq
<1> HIDE DEF t, n
<1>3. Alike(t, s, n)
  BY <1>2 DEF Alike, s, n
<1>4. Touched([a EXCEPT !.items = t], a)
  BY <1>2, <1>3, ItemsTouched DEF s, n
<1> QED
  BY <1>4 DEF t, s, n

LEMMA SuTouches ==
  ASSUME NEW a \in Machine, Len(a.items) > 0, NEW u \in Nat
  PROVE  Touched(Su(a, u), a)
<1> DEFINE x == a.items[Len(a.items)]
           z == [x EXCEPT !.su = u]
<1>1. x \in Item
  BY MachineFields
<1> HIDE DEF x
<1>2. z \in Item /\ z.type = x.type /\ z.float = x.float /\ z.place = x.place
  BY <1>1 DEF Item
<1> HIDE DEF z
<1>3. Touched([a EXCEPT !.items = [a.items EXCEPT ![Len(a.items)] = z]], a)
  BY <1>2, TopTouched DEF x
<1> QED
  BY <1>3 DEF Su, z, x

LEMMA ResultTouches ==
  ASSUME NEW a \in Machine, Len(a.items) > 0, NEW v \in BOOLEAN
  PROVE  Touched(Result(a, v), a)
<1> DEFINE w == Write(a, Last(a.items).place)
           x == w.items[Len(w.items)]
           z == [x EXCEPT !.ok = v]
<1>1. Touched(w, a)
  BY WriteTouches
<1>2. w \in Machine /\ Len(w.items) = Len(a.items)
  BY <1>1 DEF Touched
<1>3. Result(a, v) = [w EXCEPT !.items = [w.items EXCEPT ![Len(w.items)] = z]]
  BY <1>2 DEF Result
<1> HIDE DEF w
<1>4. x \in Item
  BY <1>2, MachineFields
<1> HIDE DEF x
<1>5. z \in Item /\ z.type = x.type /\ z.float = x.float /\ z.place = x.place
  BY <1>4 DEF Item
<1> HIDE DEF z
<1>6. Touched([w EXCEPT !.items = [w.items EXCEPT ![Len(w.items)] = z]], w)
  BY <1>2, <1>5, TopTouched DEF x
<1> QED
  BY <1>1, <1>3, <1>6, TouchedTwice

LEMMA TouchedGrow ==
  ASSUME NEW c \in Machine, NEW x \in Item, NEW b, Touched(b, Grow(c, x))
  PROVE  \E d, z : Touched(d, c) /\ z \in Item /\ z.float = x.float /\ b = Grow(d, z)
<1> DEFINE s == c.items
           n == Len(s)
           g == Grow(c, x)
           t == SubSeq(b.items, 1, n)
           d == [c EXCEPT !.items = t]
           z == b.items[n + 1]
<1>1. s \in Seq(Item) /\ n \in Nat
  BY MachineFields
<1>2. /\ g \in Machine /\ Len(g.items) = n + 1 /\ g.items[n + 1] = x /\ \A i \in 1..n : g.items[i] = s[i]
  BY Grown
<1>3. /\ g.ints = c.ints + (IF ByInts(x) THEN 1 ELSE 0)
      /\ g.floats = c.floats + (IF ByFloats(x) THEN 1 ELSE 0)
      /\ g.slots = c.slots + (IF InSlot(x) THEN 1 ELSE 0)
      /\ g.memory = c.memory
  BY DEF Grow
<1> HIDE DEF g, s, n
<1>4. /\ b \in Machine /\ Len(b.items) = n + 1 /\ Alike(b.items, g.items, n + 1)
      /\ b.ints = g.ints /\ b.floats = g.floats /\ b.slots = g.slots /\ b.memory = g.memory
  BY <1>2 DEF Touched, g
<1>5. /\ b.items \in Seq(Item) /\ \A i \in 1..(n + 1) : b.items[i] \in Item
  BY <1>4, MachineFields
<1>6. t \in Seq(Item) /\ Len(t) = n /\ \A i \in 1..n : t[i] = b.items[i]
  BY <1>1, <1>4, <1>5, Prefix
<1>7. z \in Item /\ z.type = x.type /\ z.float = x.float /\ z.place = x.place
  BY <1>1, <1>2, <1>4, <1>5 DEF Alike
<1>8. ByInts(z) = ByInts(x) /\ ByFloats(z) = ByFloats(x) /\ InSlot(z) = InSlot(x)
  BY <1>7 DEF ByInts, ByFloats, InSlot, Held
<1>9. b.items = Append(t, z)
  <2>1. b.items = Append(SubSeq(b.items, 1, n), b.items[n + 1])
    <3> DEFINE u == b.items
    <3> HIDE DEF u
    <3>1. u \in Seq(Item) /\ Len(u) = n + 1
      BY <1>4, <1>5 DEF u
    <3> DEFINE p == SubSeq(u, 1, n)
               q == Append(p, u[n + 1])
    <3>2. p \in Seq(Item) /\ Len(p) = n /\ \A i \in 1..n : p[i] = u[i]
      BY <1>1, <3>1, Prefix
    <3>3. u[n + 1] \in Item
      BY <1>1, <3>1
    <3> HIDE DEF p
    <3>4. q \in Seq(Item) /\ Len(q) = n + 1 /\ q[n + 1] = u[n + 1] /\ \A i \in 1..n : q[i] = p[i]
      BY <1>1, <3>2, <3>3, AppendProperties
    <3>5. \A i \in 1..(n + 1) : i \in 1..n \/ i = n + 1
      BY <1>1
    <3> HIDE DEF q
    <3>6. ASSUME NEW i \in 1..(n + 1)
          PROVE  u[i] = q[i]
      <4>1. CASE i \in 1..n
        BY <3>2, <3>4, <4>1
      <4>2. CASE i = n + 1
        BY <3>4, <4>2
      <4> QED
        BY <3>5, <4>1, <4>2
    <3>7. u = q
      BY <3>1, <3>4, <3>6, SeqEqual
    <3> QED
      BY <3>7 DEF q, p, u
  <2> QED
    BY <2>1
<1> HIDE DEF t, z
<1>10. Touched(d, c)
  <2>1. Alike(t, s, n)
    <3> SUFFICES ASSUME NEW i \in 1..n
                 PROVE  t[i].type = s[i].type /\ t[i].float = s[i].float /\ t[i].place = s[i].place
      BY DEF Alike
    <3>1. i \in 1..(n + 1)
      BY <1>1
    <3> QED
      BY <1>2, <1>4, <1>6, <3>1 DEF Alike
  <2> QED
    BY <1>6, <2>1, ItemsTouched DEF s, n
<1>11. b = Grow(d, z)
  <2>1. d = [items |-> t, ints |-> c.ints, floats |-> c.floats, slots |-> c.slots, memory |-> c.memory]
    BY DEF Machine
  <2>2. b = [items |-> b.items, ints |-> b.ints, floats |-> b.floats, slots |-> b.slots, memory |-> b.memory]
    BY <1>4, MachineFields
  <2>3. d.items = t /\ d.ints = c.ints /\ d.floats = c.floats /\ d.slots = c.slots /\ d.memory = c.memory
    BY <2>1
  <2> HIDE DEF d
  <2> QED
    BY <1>3, <1>4, <1>8, <1>9, <2>2, <2>3 DEF Grow
<1> HIDE DEF d
<1> QED
  BY <1>7, <1>10, <1>11
--------------------------------------------------------------------------------
(* None of the forms that take the place of an operand that is still read. *)
Careful == {"shift", "index", "slot", "call"} \cap Forms = {}

AllOk(a) == \A i \in DOMAIN a.items : a.items[i].ok

OperandInv ==
  /\ Placed(asm)
  /\ Careful => ValuesKept
  /\ Careful /\ "not" \notin Forms => MemoryKept

(* What an instruction has to make of a machine a.                         *)
Good(a, b) ==
  /\ Placed(b)
  /\ Careful /\ AllOk(a) => AllOk(b)
  /\ Careful /\ "not" \notin Forms /\ AllOk(a) /\ a.memory => b.memory

(* a has x on top of c.                                                    *)
OnTop(a, c, x) ==
  /\ Placed(c) /\ x \in Item /\ Fits(c, x)
  /\ a = Grow(c, x) /\ a = With(c, x.type, x.float, x.ok, x.su) /\ x = NewItem(c, x.type, x.float, x.ok, x.su)
  /\ x.type \in Types /\ x.float \in BOOLEAN /\ x.ok \in BOOLEAN /\ x.su \in Nat
  /\ Len(a.items) = Len(c.items) + 1 /\ Last(a.items) = x
  /\ \A i \in 1..Len(c.items) : a.items[i] = c.items[i]
  /\ a.memory = c.memory
  /\ AllOk(a) <=> AllOk(c) /\ x.ok

LEMMA AllOkGrown ==
  ASSUME NEW c \in Machine, NEW x \in Item
  PROVE  AllOk(Grow(c, x)) <=> AllOk(c) /\ x.ok
<1> DEFINE b == Grow(c, x)
           n == Len(c.items)
<1>1. /\ b \in Machine /\ n \in Nat /\ Len(b.items) = n + 1 /\ b.items[n + 1] = x
      /\ \A i \in 1..n : b.items[i] = c.items[i]
  BY Grown
<1>2. DOMAIN b.items = 1..(n + 1) /\ DOMAIN c.items = 1..n
  BY <1>1, MachineFields
<1> HIDE DEF b, n
<1>3. n + 1 \in 1..(n + 1) /\ (\A i \in 1..n : i \in 1..(n + 1)) /\ (\A i \in 1..(n + 1) : i \in 1..n \/ i = n + 1)
  BY <1>1
<1>4. ASSUME AllOk(b)
      PROVE  AllOk(c) /\ x.ok
  BY <1>1, <1>2, <1>3, <1>4 DEF AllOk
<1>5. ASSUME AllOk(c), x.ok
      PROVE  AllOk(b)
  BY <1>1, <1>2, <1>3, <1>5 DEF AllOk
<1> QED
  BY <1>4, <1>5 DEF b

LEMMA AsNew ==
  ASSUME NEW c, NEW x, Fits(c, x)
  PROVE  x = NewItem(c, x.type, x.float, x.ok, x.su)
<1>1. x = [type |-> x.type, float |-> x.float, place |-> x.place, ok |-> x.ok, su |-> x.su]
  BY DEF Fits, Item
<1> QED
  BY <1>1 DEF Fits, NewItem

LEMMA GrownOnTop ==
  ASSUME NEW c, Placed(c), NEW x, Fits(c, x)
  PROVE  OnTop(Grow(c, x), c, x)
<1> DEFINE a == Grow(c, x)
<1>1. c \in Machine /\ x \in Item
  BY DEF Placed, Fits
<1>2. x.type \in Types /\ x.float \in BOOLEAN /\ x.ok \in BOOLEAN /\ x.su \in Nat
  BY <1>1 DEF Item
<1>3. x = NewItem(c, x.type, x.float, x.ok, x.su)
  BY AsNew
<1>4. a = With(c, x.type, x.float, x.ok, x.su)
  BY <1>3 DEF With
<1>5. /\ Len(a.items) = Len(c.items) + 1 /\ Last(a.items) = x
      /\ \A i \in 1..Len(c.items) : a.items[i] = c.items[i]
  BY <1>1, Grown
<1>6. a.memory = c.memory
  BY <1>1, Grown
<1>7. AllOk(a) <=> AllOk(c) /\ x.ok
  BY <1>1, AllOkGrown
<1>8. a = Grow(c, x)
  OBVIOUS
<1> HIDE DEF a
<1> QED
  BY <1>1, <1>2, <1>3, <1>4, <1>5, <1>6, <1>7, <1>8 DEF OnTop, a

LEMMA TopOf ==
  ASSUME NEW a, Placed(a), Len(a.items) > 0
  PROVE  \E c, x : OnTop(a, c, x) /\ c = Cut(a, Len(a.items) - 1)
<1> DEFINE c == Cut(a, Len(a.items) - 1)
           x == a.items[Len(a.items)]
<1>1. Placed(c) /\ Fits(c, x) /\ a = Grow(c, x)
  BY OfTop
<1> HIDE DEF c, x
<1>2. OnTop(Grow(c, x), c, x)
  BY <1>1, GrownOnTop
<1> QED
  BY <1>1, <1>2 DEF c

LEMMA WithGood ==
  ASSUME NEW a, NEW c, Placed(c), NEW t \in Types, NEW f \in BOOLEAN, NEW v \in BOOLEAN, NEW u \in Nat,
         Careful /\ AllOk(a) => AllOk(c) /\ v, Careful /\ AllOk(a) /\ a.memory => c.memory
  PROVE  Good(a, With(c, t, f, v, u))
<1> DEFINE x == NewItem(c, t, f, v, u)
           b == With(c, t, f, v, u)
<1>1. c \in Machine
  BY DEF Placed
<1>2. x \in Item /\ x.ok = v /\ b = Grow(c, x) /\ b.memory = c.memory
  BY <1>1, NewIs
<1>3. Placed(b)
  BY WithIsPlaced
<1> HIDE DEF x, b
<1>4. AllOk(b) <=> AllOk(c) /\ v
  BY <1>1, <1>2, AllOkGrown
<1> QED
  BY <1>2, <1>3, <1>4 DEF Good, b

(* One operand gives a new one.                                            *)
LEMMA Renewed ==
  ASSUME NEW a, NEW c, NEW x, OnTop(a, c, x), NEW t \in Types, NEW f \in BOOLEAN, NEW v \in BOOLEAN, NEW u \in Nat,
         Careful /\ AllOk(a) => v
  PROVE  Good(a, With(c, t, f, v, u))
BY WithGood DEF OnTop

LEMMA OneOperand ==
  ASSUME NEW a, Placed(a), Len(a.items) > 0
  PROVE  /\ \A f \in BOOLEAN : Good(a, jitc_asm_load(a, f)) /\ Good(a, jitc_asm_cvt(a, f))
         /\ Good(a, fromone(a, "rvalue", FALSE))
         /\ Good(a, jitc_asm_neg(a))
         /\ Good(a, jitc_asm_rval(a)) /\ Len(jitc_asm_rval(a).items) = Len(a.items)
<1>1. PICK c, x : OnTop(a, c, x)
  BY TopOf
<1> DEFINE no == FALSE
           u == IF x.su = 1 THEN 2 ELSE x.su
<1>2. /\ Placed(c) /\ a = With(c, x.type, x.float, x.ok, x.su) /\ c \in Machine
      /\ x.type \in Types /\ x.float \in BOOLEAN /\ x.ok \in BOOLEAN /\ x.su \in Nat
      /\ Len(a.items) = Len(c.items) + 1
      /\ AllOk(a) => x.ok
  BY <1>1 DEF OnTop, Placed
<1>3. "rvalue" \in Types /\ "lvalue_abs" \in Types /\ no \in BOOLEAN
  BY DEF Types
<1>4. u \in Nat
  BY <1>2
<1>5. ASSUME NEW f \in BOOLEAN
      PROVE  Good(a, jitc_asm_load(a, f)) /\ Good(a, jitc_asm_cvt(a, f))
  <2>1. jitc_asm_load(a, f) = With(c, "lvalue_abs", f, x.ok, x.su)
    BY <1>2, LoadIs
  <2>2. jitc_asm_cvt(a, f) = With(c, "rvalue", f, x.ok, u)
    BY <1>2, CvtIs
  <2> HIDE DEF u
  <2>3. Good(a, With(c, "lvalue_abs", f, x.ok, x.su)) /\ Good(a, With(c, "rvalue", f, x.ok, u))
    BY <1>1, <1>2, <1>3, <1>4, Renewed
  <2> QED
    BY <2>1, <2>2, <2>3
<1> HIDE DEF no, u
<1>6. fromone(a, "rvalue", no) = With(c, "rvalue", no, x.ok, x.su)
  BY <1>2, <1>3, FromoneIs
<1>7. jitc_asm_neg(a) = With(c, "rvalue", x.float, x.ok, x.su)
  BY <1>2, NegIs
<1>8. jitc_asm_rval(a) = With(c, "rvalue", x.float, x.ok, x.su)
  BY <1>2, RvalIs
<1>9. Good(a, With(c, "rvalue", no, x.ok, x.su)) /\ Good(a, With(c, "rvalue", x.float, x.ok, x.su))
  BY <1>1, <1>2, <1>3, Renewed
<1>10. Len(With(c, "rvalue", x.float, x.ok, x.su).items) = Len(c.items) + 1
  BY <1>2, <1>3, NewIs
<1> QED
  BY <1>2, <1>5, <1>6, <1>7, <1>8, <1>9, <1>10 DEF no

LEMMA PopGood ==
  ASSUME NEW a, Placed(a), Len(a.items) > 0
  PROVE  Good(a, pop(a))
<1>1. PICK c, x : OnTop(a, c, x)
  BY TopOf
<1>2. pop(a) = c /\ c \in Machine
  BY <1>1, PopIs DEF OnTop, Placed
<1> QED
  BY <1>1, <1>2 DEF OnTop, Good

LEMMA GoodTwice ==
  ASSUME NEW a, NEW b, NEW d, Good(a, b), Good(b, d)
  PROVE  Good(a, d)
BY DEF Good

LEMMA LeafGood ==
  ASSUME NEW a, Placed(a), NEW t \in Types, NEW f \in BOOLEAN
  PROVE  Good(a, Result(push(a, t, f), TRUE)) /\ Good(a, push(a, t, f))
<1> DEFINE yes == TRUE
           one == 1
<1>1. yes \in BOOLEAN /\ yes /\ one \in Nat /\ a \in Machine
  BY DEF Placed
<1>2. push(a, t, f) = With(a, t, f, yes, one)
  BY <1>1, PushWith
<1> HIDE DEF yes
<1>3. Result(push(a, t, f), yes) = With(a, t, f, yes, one)
  BY <1>1, PushedResult
<1> HIDE DEF one
<1>4. Good(a, With(a, t, f, yes, one))
  BY <1>1, WithGood
<1> QED
  BY <1>2, <1>3, <1>4 DEF yes

LEMMA ComplementGood ==
  ASSUME NEW a, Placed(a), Len(a.items) > 0, Writable(Last(a.items)) => "not" \in Forms
  PROVE  Good(a, unaryop(a))
<1>1. PICK c, x : OnTop(a, c, x)
  BY TopOf
<1>2. /\ Placed(c) /\ a = With(c, x.type, x.float, x.ok, x.su) /\ c \in Machine
      /\ x.type \in Types /\ x.float \in BOOLEAN /\ x.ok \in BOOLEAN /\ x.su \in Nat
      /\ Last(a.items) = x /\ a.memory = c.memory
      /\ AllOk(a) => x.ok
  BY <1>1 DEF OnTop, Placed
<1>3. "rvalue" \in Types /\ c.memory \in BOOLEAN
  BY <1>2, MachineFields DEF Types
<1> DEFINE b == With(c, "rvalue", x.float, x.ok, x.su)
           m == c.memory /\ x.type \notin {"lvalue", "lvalue_abs"}
<1>4. unaryop(a) = Noted(b, m)
  BY <1>2, UnaryopIs
<1>5. Good(a, b)
  BY <1>1, <1>2, <1>3, Renewed
<1>6. m \in BOOLEAN /\ ("not" \notin Forms => m = c.memory)
  BY <1>2, <1>3 DEF Writable
<1> HIDE DEF b, m
<1>7. Placed(b) /\ b \in Machine
  BY <1>5 DEF Good, Placed
<1>8. Placed(Noted(b, m)) /\ Noted(b, m).items = b.items /\ Noted(b, m).memory = m
  BY <1>6, <1>7, NotedIs
<1> QED
  BY <1>2, <1>4, <1>5, <1>6, <1>8 DEF Good, AllOk

LEMMA IncrementGood ==
  ASSUME NEW a, Placed(a), Len(a.items) > 0, Writable(Last(a.items)), NEW suffix \in BOOLEAN,
         suffix /\ Last(a.items).float /\ Last(a.items).place[1] = "slot" => "slot" \in Forms
  PROVE  Good(a, increment(a, suffix))
<1>1. PICK c, x : OnTop(a, c, x)
  BY TopOf
<1>2. /\ Placed(c) /\ a = With(c, x.type, x.float, x.ok, x.su) /\ c \in Machine
      /\ x = NewItem(c, x.type, x.float, x.ok, x.su)
      /\ x.type \in Types /\ x.float \in BOOLEAN /\ x.ok \in BOOLEAN /\ x.su \in Nat
      /\ Last(a.items) = x
      /\ AllOk(a) => x.ok
  BY <1>1 DEF OnTop, Placed
<1>3. x.type # "rvalue" /\ "rvalue" \in Types
  BY <1>2 DEF Writable, Types
<1> DEFINE v == IncrementRight(c, x.type, x.float, x.ok, x.su, suffix)
<1>4. /\ v \in BOOLEAN
      /\ increment(With(c, x.type, x.float, x.ok, x.su), suffix) = With(c, "rvalue", x.float, v, x.su)
      /\ x.ok /\ ~(suffix /\ x.float /\ InSlot(NewItem(c, x.type, x.float, x.ok, x.su))) => v
  BY <1>2, <1>3, IncrementIs
<1> HIDE DEF v
<1>5. Careful /\ AllOk(a) => v
  BY <1>2, <1>4 DEF Careful, InSlot
<1>6. Good(a, With(c, "rvalue", x.float, v, x.su))
  BY <1>1, <1>2, <1>3, <1>4, <1>5, Renewed
<1> QED
  BY <1>2, <1>4, <1>6
--------------------------------------------------------------------------------
(* The operators on two operands, y the left one and x the right one, from *)
(* a machine a with their values.                                          *)
Pair(a, c, y, x) ==
  /\ Placed(c) /\ y \in Item /\ x \in Item /\ y.float = x.float
  /\ AllOk(a) => AllOk(c) /\ y.ok /\ x.ok
  /\ a.memory = c.memory

Kept(c, y, x) == Fits(c, y) /\ Fits(Grow(c, y), x)
Reversed(c, y, x) == Kept(c, x, y)

Outcome(a, b) ==
  \E d, f, v : /\ Placed(d) /\ f \in BOOLEAN /\ v \in BOOLEAN /\ b = With(d, "rvalue", f, v, 1)
               /\ Careful /\ AllOk(a) => AllOk(d) /\ v
               /\ a.memory => d.memory

LEMMA OutcomeIs ==
  ASSUME NEW a, NEW d, Placed(d), NEW f \in BOOLEAN, NEW v \in BOOLEAN,
         Careful /\ AllOk(a) => AllOk(d) /\ v, a.memory => d.memory
  PROVE  Outcome(a, With(d, "rvalue", f, v, 1))
BY Zenon DEF Outcome

LEMMA OutcomeGood ==
  ASSUME NEW a, NEW b, Outcome(a, b), NEW u \in Nat
  PROVE  Good(a, Su(b, u))
<1> DEFINE one == 1
<1>1. PICK d, f, v : /\ Placed(d) /\ f \in BOOLEAN /\ v \in BOOLEAN /\ b = With(d, "rvalue", f, v, one)
                     /\ Careful /\ AllOk(a) => AllOk(d) /\ v
                     /\ a.memory => d.memory
  BY Zenon DEF Outcome
<1>2. d \in Machine /\ "rvalue" \in Types /\ one \in Nat
  BY <1>1 DEF Placed, Types
<1> HIDE DEF one
<1>3. Su(b, u) = With(d, "rvalue", f, v, u)
  BY <1>1, <1>2, SuIs
<1>4. Good(a, With(d, "rvalue", f, v, u))
  BY <1>1, <1>2, WithGood
<1> QED
  BY <1>3, <1>4

LEMMA BinaryopOutcome ==
  ASSUME NEW a, NEW c, NEW y, NEW x, Pair(a, c, y, x), Careful /\ AllOk(a) => BinaryRight(c, y, x)
  PROVE  Outcome(a, binaryop(Grow(Grow(c, y), x)))
<1> DEFINE v == BinaryRight(c, y, x)
<1>1. Placed(c) /\ y \in Item /\ x \in Item /\ y.float \in BOOLEAN /\ y.ok \in BOOLEAN /\ x.ok \in BOOLEAN
      /\ (AllOk(a) => AllOk(c)) /\ a.memory = c.memory
  BY DEF Pair, Item
<1>2. v \in BOOLEAN
  BY <1>1 DEF BinaryRight
<1>3. binaryop(Grow(Grow(c, y), x)) = With(c, "rvalue", y.float, v, 1)
  BY <1>1, BinaryopIs
<1> HIDE DEF v
<1>4. Outcome(a, With(c, "rvalue", y.float, v, 1))
  BY <1>1, <1>2, OutcomeIs DEF v
<1> QED
  BY <1>3, <1>4

LEMMA FrombothOutcome ==
  ASSUME NEW a, NEW c, NEW y, NEW x, Pair(a, c, y, x), NEW f \in BOOLEAN
  PROVE  Outcome(a, fromboth(Grow(Grow(c, y), x), f))
<1> DEFINE v == y.ok /\ x.ok
<1>1. Placed(c) /\ y \in Item /\ x \in Item /\ v \in BOOLEAN
      /\ (AllOk(a) => AllOk(c) /\ v) /\ a.memory = c.memory
  BY DEF Pair, Item
<1>2. fromboth(Grow(Grow(c, y), x), f) = With(c, "rvalue", f, v, 1)
  BY <1>1, FrombothIs
<1> HIDE DEF v
<1>3. Outcome(a, With(c, "rvalue", f, v, 1))
  BY <1>1, OutcomeIs
<1> QED
  BY <1>2, <1>3

LEMMA BitshiftOutcome ==
  ASSUME NEW a, NEW c, NEW y, NEW x, Pair(a, c, y, x), Careful /\ AllOk(a) => ShiftRight(c, y, x)
  PROVE  Outcome(a, bitshift(Grow(Grow(c, y), x)))
<1> DEFINE v == ShiftRight(c, y, x)
           no == FALSE
<1>1. Placed(c) /\ y \in Item /\ x \in Item /\ y.ok \in BOOLEAN /\ x.ok \in BOOLEAN
      /\ (AllOk(a) => AllOk(c)) /\ a.memory = c.memory
  BY DEF Pair, Item
<1>2. v \in BOOLEAN /\ no \in BOOLEAN
  BY <1>1 DEF ShiftRight
<1>3. bitshift(Grow(Grow(c, y), x)) = With(c, "rvalue", no, v, 1)
  BY <1>1, BitshiftIs
<1> HIDE DEF v, no
<1>4. Outcome(a, With(c, "rvalue", no, v, 1))
  BY <1>1, <1>2, OutcomeIs DEF v
<1> QED
  BY <1>3, <1>4

LEMMA RvalTouches ==
  ASSUME NEW c, Placed(c), NEW y \in Item, NEW x \in Item, x.type # "rvalue"
  PROVE  \E d, z, w : /\ Placed(d) /\ z \in Item /\ w \in Item /\ d.memory = c.memory
                      /\ jitc_asm_rval(Grow(Grow(c, y), x)) = Grow(Grow(d, z), w)
<1> DEFINE g == Grow(c, y)
           b == Grow(g, x)
           f == x.float
           yes == TRUE
           one == 1
           n == NewItem(g, "rvalue", f, yes, one)
           r == Result(Grow(g, n), x.ok)
           e == Su(r, x.su)
<1>1. /\ c \in Machine /\ "rvalue" \in Types /\ f \in BOOLEAN /\ x.ok \in BOOLEAN /\ x.su \in Nat
      /\ yes \in BOOLEAN /\ one \in Nat
  BY DEF Placed, Types, Item
<1>2. g \in Machine /\ Len(g.items) \in Nat
  BY <1>1, Grown
<1> HIDE DEF g
<1>3. pop(b) = g /\ Last(b.items) = x
  BY <1>2, PopIs, Grown
<1>4. n \in Item /\ push(g, "rvalue", f) = Grow(g, n)
  <2>1. push(g, "rvalue", f) = Grow(g, n)
    BY <1>1, <1>2, PushIs
  <2> HIDE DEF yes, one
  <2>2. n \in Item
    BY <1>1, <1>2, NewIs
  <2> QED
    BY <2>1, <2>2
<1> HIDE DEF b
<1>5. jitc_asm_rval(b) = e
  BY <1>3, <1>4 DEF jitc_asm_rval
<1> HIDE DEF n, f, yes, one
<1>6. Grow(g, n) \in Machine /\ Len(Grow(g, n).items) > 0
  BY <1>2, <1>4, Grown
<1>7. Touched(r, Grow(g, n))
  BY <1>1, <1>6, ResultTouches
<1> HIDE DEF r
<1>8. r \in Machine /\ Len(r.items) > 0
  BY <1>6, <1>7 DEF Touched
<1>9. Touched(e, r)
  BY <1>1, <1>8, SuTouches
<1> HIDE DEF e
<1>10. Touched(e, Grow(g, n))
  BY <1>7, <1>9, TouchedTwice
<1>11. PICK h, w : Touched(h, g) /\ w \in Item /\ e = Grow(h, w)
  BY <1>2, <1>4, <1>10, TouchedGrow
<1>12. PICK d, z : Touched(d, c) /\ z \in Item /\ h = Grow(d, z)
  BY <1>1, <1>11, TouchedGrow DEF g
<1>13. Placed(d)
  BY <1>12, TouchedIsPlaced
<1>14. d.memory = c.memory
  BY <1>12 DEF Touched
<1>15. jitc_asm_rval(Grow(Grow(c, y), x)) = Grow(Grow(d, z), w)
  BY <1>5, <1>11, <1>12 DEF b, g
<1> QED
  BY <1>11, <1>12, <1>13, <1>14, <1>15

LEMMA NoOverwrites ==
  ASSUME NEW kind, NEW y, NEW x, NEW swapped \in BOOLEAN, Careful, Overwrites(kind, y, x, swapped) \subseteq Forms
  PROVE  /\ ~(kind = "shift" /\ Held(x) /\ (swapped \/ ~Held(y)))
         /\ ~(kind = "index" /\ swapped /\ x.type = "lvalue_abs")
         /\ InSlot(y) \/ InSlot(x) => ~swapped /\ ~y.float
<1>1. "shift" \notin Forms /\ "index" \notin Forms /\ "slot" \notin Forms
  BY DEF Careful
<1>2. "shift" \notin Overwrites(kind, y, x, swapped) /\ "index" \notin Overwrites(kind, y, x, swapped)
      /\ "slot" \notin Overwrites(kind, y, x, swapped)
  BY <1>1
<1> QED
  BY <1>2 DEF Overwrites, InSlot

(* What Binary says of the operands, for these not to be overwritten.      *)
Free(kind, y, x, swapped) ==
  /\ ~(kind = "shift" /\ Held(x) /\ (swapped \/ ~Held(y)))
  /\ ~(kind = "index" /\ swapped /\ x.type = "lvalue_abs")
  /\ InSlot(y) \/ InSlot(x) => ~swapped /\ ~y.float

BothWays(c, y, x, swapped) ==
  IF swapped THEN Reversed(c, y, x) ELSE Kept(c, y, x)

LEMMA BinaryIsRight ==
  ASSUME NEW a, NEW c, NEW y, NEW x, Pair(a, c, y, x), NEW kind, NEW swapped \in BOOLEAN,
         BothWays(c, y, x, swapped), Free(kind, y, x, swapped), AllOk(a)
  PROVE  BinaryRight(c, y, x)
<1>1. Placed(c) /\ y.ok /\ x.ok /\ x.float = y.float
  BY DEF Pair
<1>2. CASE swapped
  BY <1>1, <1>2, BinarySwapped DEF BothWays, Reversed, Kept, Free
<1>3. CASE ~swapped
  BY <1>1, <1>3, BinaryInOrder DEF BothWays, Kept, Free
<1> QED
  BY <1>2, <1>3

LEMMA ShiftIsRight ==
  ASSUME NEW a, NEW c, NEW y, NEW x, Pair(a, c, y, x), NEW kind, kind = "shift", NEW swapped \in BOOLEAN,
         BothWays(c, y, x, swapped), Free(kind, y, x, swapped), ~y.float, AllOk(a)
  PROVE  ShiftRight(c, y, x)
<1>1. Placed(c) /\ y.ok /\ x.ok /\ ~x.float
  BY DEF Pair
<1>2. CASE swapped
  BY <1>1, <1>2, ShiftSwapped DEF BothWays, Reversed, Kept, Free
<1>3. CASE ~swapped
  BY <1>1, <1>3, ShiftInOrder DEF BothWays, Kept, Free
<1> QED
  BY <1>2, <1>3

LEMMA UnheldFits ==
  ASSUME NEW c \in Machine, NEW y, NEW x, Fits(c, x), Fits(Grow(c, x), y), ~Held(x)
  PROVE  Kept(c, y, x)
<1>1. /\ x \in Item /\ y \in Item
      /\ x.place = PlaceFor(x.type, x.float, c.ints, c.floats, c.slots)
      /\ c.ints \in Nat /\ c.floats \in Nat /\ c.slots \in Nat
  BY MachineFields DEF Fits
<1>2. ~ByInts(x) /\ ~ByFloats(x) /\ x.place = Nowhere /\ ~InSlot(x)
  BY <1>1 DEF ByInts, ByFloats, Held, PlaceFor, InSlot, Nowhere
<1>3. Grow(c, x).ints = c.ints /\ Grow(c, x).floats = c.floats /\ Grow(c, x).slots = c.slots
  BY <1>1, <1>2 DEF Grow
<1>4. Fits(c, y)
  BY <1>3 DEF Fits
<1>5. x.type \notin {"rvalue", "lvalue_abs"}
  BY DEF Held
<1>6. Fits(Grow(c, y), x)
  BY <1>1, <1>2, <1>5 DEF Fits, PlaceFor
<1> QED
  BY <1>4, <1>6 DEF Kept

\* The index is the right operand, which becomes an rvalue first.
LEMMA IndexOutcome ==
  ASSUME NEW a, NEW c, NEW y, NEW x, Pair(a, c, y, x), NEW kind, kind = "index", NEW swapped \in BOOLEAN,
         BothWays(c, y, x, swapped), Careful => Free(kind, y, x, swapped), ~y.float
  PROVE  Outcome(a, binaryop(jitc_asm_normalize(Grow(Grow(c, y), x))))
<1> DEFINE b == Grow(Grow(c, y), x)
<1>1. /\ Placed(c) /\ c \in Machine /\ y \in Item /\ x \in Item /\ y.ok \in BOOLEAN /\ x.ok \in BOOLEAN /\ ~x.float
      /\ x.float \in BOOLEAN /\ x.su \in Nat /\ x.type \in Types
      /\ (AllOk(a) => AllOk(c) /\ y.ok /\ x.ok) /\ a.memory = c.memory
  BY DEF Pair, Item, Placed
<1>2. Grow(c, y) \in Machine /\ Last(b.items) = x
  BY <1>1, Grown
<1>3. CASE x.type = "rvalue"
  <2>1. jitc_asm_normalize(b) = b
    <3> HIDE DEF b
    <3> QED
      BY <1>2, <1>3 DEF jitc_asm_normalize, jitc_asm_rval
  <2>2. Careful /\ AllOk(a) => BinaryRight(c, y, x)
    BY BinaryIsRight
  <2>3. Outcome(a, binaryop(Grow(Grow(c, y), x)))
    BY <2>2, BinaryopOutcome
  <2> QED
    BY <2>1, <2>3
<1>4. ASSUME Kept(c, y, x)
      PROVE  Outcome(a, binaryop(jitc_asm_normalize(Grow(Grow(c, y), x))))
  <2> DEFINE g == Grow(c, y)
             z == NewItem(g, "rvalue", x.float, x.ok, x.su)
  <2>1. Fits(c, y) /\ Fits(g, x)
    BY <1>4 DEF Kept
  <2>2. Placed(g)
    BY <1>1, <2>1, GrownIsPlaced
  <2>3. "rvalue" \in Types
    BY DEF Types
  <2> HIDE DEF g
  <2>4. Grow(g, x) = With(g, x.type, x.float, x.ok, x.su)
    BY <2>1, AsNew DEF With
  <2>5. jitc_asm_rval(With(g, x.type, x.float, x.ok, x.su)) = With(g, "rvalue", x.float, x.ok, x.su)
    BY <1>1, <2>2, RvalIs
  <2>6. g \in Machine
    BY <2>2 DEF Placed
  <2>7. z \in Item /\ Fits(g, z) /\ z.float = x.float /\ z.ok = x.ok
        /\ With(g, "rvalue", x.float, x.ok, x.su) = Grow(g, z)
    BY <1>1, <2>3, <2>6, NewIs
  <2> HIDE DEF z
  <2>8. jitc_asm_normalize(Grow(g, x)) = Grow(g, z)
    BY <2>4, <2>5, <2>7 DEF jitc_asm_normalize
  <2>9. Pair(a, c, y, z)
    BY <1>1, <2>7 DEF Pair
  <2>10. AllOk(a) => BinaryRight(c, y, z)
    <3> HAVE AllOk(a)
    <3>1. /\ z.float = y.float /\ z.ok /\ y.ok /\ Fits(c, y) /\ Fits(Grow(c, y), z)
          /\ y.float => ~InSlot(y) /\ ~InSlot(z)
      BY <1>1, <2>1, <2>7 DEF g, Pair
    <3> QED
      BY <1>1, <3>1, BinaryInOrder
  <2>11. Outcome(a, binaryop(Grow(Grow(c, y), z)))
    BY <2>9, <2>10, BinaryopOutcome
  <2> QED
    BY <2>8, <2>11 DEF g
<1>5. ASSUME swapped, ~Held(x)
      PROVE  Kept(c, y, x)
  BY <1>1, <1>5, UnheldFits DEF BothWays, Reversed, Kept
<1>6. CASE x.type # "rvalue" /\ swapped /\ Held(x)
  <2>1. ~Careful
    BY <1>6 DEF Free, Held
  <2>2. PICK d, z, w : /\ Placed(d) /\ z \in Item /\ w \in Item /\ d.memory = c.memory
                       /\ jitc_asm_rval(Grow(Grow(c, y), x)) = Grow(Grow(d, z), w)
    BY <1>1, <1>6, RvalTouches, Zenon
  <2> DEFINE v == BinaryRight(d, z, w)
  <2>3. z.float \in BOOLEAN /\ z.ok \in BOOLEAN /\ w.ok \in BOOLEAN
    BY <2>2 DEF Item
  <2>4. v \in BOOLEAN
    BY <2>3 DEF BinaryRight
  <2>5. binaryop(Grow(Grow(d, z), w)) = With(d, "rvalue", z.float, v, 1)
    BY <2>2, BinaryopIs
  <2> HIDE DEF v
  <2>6. Outcome(a, With(d, "rvalue", z.float, v, 1))
    BY <1>1, <2>1, <2>2, <2>3, <2>4, OutcomeIs
  <2> QED
    BY <2>2, <2>5, <2>6 DEF jitc_asm_normalize
<1>7. ~swapped => Kept(c, y, x)
  BY DEF BothWays
<1> QED
  BY <1>3, <1>4, <1>5, <1>6, <1>7

LEMMA OperationOutcome ==
  ASSUME NEW a, NEW c, NEW y, NEW x, Pair(a, c, y, x),
         NEW kind \in {"add", "mul", "compare", "shift", "index"}, NEW swapped \in BOOLEAN,
         BothWays(c, y, x, swapped), Careful => Free(kind, y, x, swapped),
         kind \in {"shift", "index"} => ~y.float
  PROVE  Outcome(a, Operation(kind, Grow(Grow(c, y), x)))
<1> DEFINE b == Grow(Grow(c, y), x)
           no == FALSE
<1>1. c \in Machine /\ y \in Item /\ x \in Item /\ no \in BOOLEAN
  BY DEF Pair, Placed
<1>2. Last(b.items) = x
  BY <1>1, TopTwo
<1>3. Outcome(a, binaryop(Grow(Grow(c, y), x)))
  <2>1. Careful /\ AllOk(a) => BinaryRight(c, y, x)
    BY BinaryIsRight
  <2> QED
    BY <2>1, BinaryopOutcome
<1> HIDE DEF no
<1>4. Outcome(a, fromboth(Grow(Grow(c, y), x), no))
  BY <1>1, FrombothOutcome
<1>5. CASE kind = "add"
  BY <1>3, <1>5 DEF Operation
<1>6. CASE kind = "mul"
  <2>1. Operation(kind, b) = IF x.float THEN binaryop(b) ELSE fromboth(b, no)
    <3> HIDE DEF b
    <3> QED
      BY <1>2, <1>6 DEF Operation, no
  <2> QED
    BY <1>3, <1>4, <2>1
<1>7. CASE kind = "compare"
  <2>1. Operation(kind, b) = fromboth(b, no)
    BY <1>7 DEF Operation, no
  <2> QED
    BY <1>4, <2>1
<1>8. CASE kind = "shift"
  <2>1. Careful /\ AllOk(a) => ShiftRight(c, y, x)
    BY <1>8, ShiftIsRight
  <2>2. Outcome(a, bitshift(Grow(Grow(c, y), x)))
    BY <2>1, BitshiftOutcome
  <2>3. Operation(kind, b) = bitshift(b)
    <3> HIDE DEF b
    <3> QED
      BY <1>8 DEF Operation
  <2> QED
    BY <2>2, <2>3
<1>9. CASE kind = "index"
  <2>1. Outcome(a, binaryop(jitc_asm_normalize(Grow(Grow(c, y), x))))
    BY <1>9, IndexOutcome
  <2>2. Operation(kind, b) = binaryop(jitc_asm_normalize(b))
    <3> HIDE DEF b
    <3> QED
      BY <1>9 DEF Operation
  <2> QED
    BY <2>1, <2>2
<1> QED
  BY <1>5, <1>6, <1>7, <1>8, <1>9

LEMMA SuBinaryTypes ==
  ASSUME NEW l \in Nat, NEW r \in Nat
  PROVE  SuBinary(l, r) \in Nat
<1>1. CASE l = r
  BY <1>1 DEF SuBinary
<1>2. CASE l # r
  <2>1. \E m \in {l, r} : \A z \in {l, r} : m >= z
    OBVIOUS
  <2>2. Max({l, r}) \in {l, r}
    BY <2>1 DEF Max
  <2> QED
    BY <1>2, <2>2 DEF SuBinary
<1> QED
  BY <1>1, <1>2

(* a has y and x on top of c.                                              *)
TwoOnTop(a, c, y, x) ==
  /\ Placed(c) /\ y \in Item /\ x \in Item /\ Kept(c, y, x) /\ a = Grow(Grow(c, y), x)
  /\ AllOk(a) => AllOk(c) /\ y.ok /\ x.ok
  /\ a.memory = c.memory /\ Under(a.items) = y /\ Last(a.items) = x

LEMMA TopTwoOf ==
  ASSUME NEW a, Placed(a), Len(a.items) >= 2
  PROVE  \E c, y, x : TwoOnTop(a, c, y, x)
<1>1. Len(a.items) \in Nat
  BY MachineFields DEF Placed
<1>2. PICK g, x : OnTop(a, g, x)
  BY <1>1, TopOf
<1>3. Placed(g) /\ Len(g.items) > 0
  <2>1. Placed(g) /\ Len(a.items) = Len(g.items) + 1
    BY <1>2 DEF OnTop
  <2>2. Len(g.items) \in Nat
    BY <2>1, MachineFields DEF Placed
  <2> QED
    BY <1>1, <2>1, <2>2
<1>4. PICK c, y : OnTop(g, c, y)
  BY <1>3, TopOf
<1>5. /\ Placed(c) /\ c \in Machine /\ y \in Item /\ x \in Item /\ Kept(c, y, x) /\ a = Grow(Grow(c, y), x)
      /\ AllOk(a) => AllOk(c) /\ y.ok /\ x.ok
      /\ a.memory = c.memory
  BY <1>2, <1>4 DEF OnTop, Kept, Placed
<1>6. Under(Grow(Grow(c, y), x).items) = y /\ Last(Grow(Grow(c, y), x).items) = x
  BY <1>5, TopTwo
<1>7. TwoOnTop(a, c, y, x)
  BY <1>5, <1>6 DEF TwoOnTop
<1> QED
  BY <1>7

LEMMA BinaryGood ==
  ASSUME NEW a, Placed(a), Len(a.items) >= 2,
         NEW kind \in {"add", "mul", "compare", "shift", "index"}, NEW swapped \in BOOLEAN,
         NEW b, b = IF swapped THEN jitc_asm_swp(a) ELSE a,
         Under(b.items).float = Last(b.items).float,
         kind \in {"shift", "index"} => ~Under(b.items).float,
         Overwrites(kind, Under(b.items), Last(b.items), swapped) \subseteq Forms
  PROVE  Good(a, Su(Operation(kind, b), SuBinary(Under(b.items).su, Last(b.items).su)))
<1>0. PICK c, y, x : TwoOnTop(a, c, y, x)
  BY TopTwoOf
<1>1. /\ Placed(c) /\ y \in Item /\ x \in Item /\ Kept(c, y, x) /\ a = Grow(Grow(c, y), x)
      /\ AllOk(a) => AllOk(c) /\ y.ok /\ x.ok
      /\ a.memory = c.memory
  BY <1>0 DEF TwoOnTop
<1> DEFINE l == IF swapped THEN x ELSE y
           r == IF swapped THEN y ELSE x
<1>2. l \in Item /\ r \in Item /\ l.su \in Nat /\ r.su \in Nat /\ c \in Machine
  BY <1>1 DEF Item, Placed
<1>3. b = Grow(Grow(c, l), r)
  <2>1. jitc_asm_swp(Grow(Grow(c, y), x)) = Grow(Grow(c, x), y)
    BY <1>1, <1>2, SwpIs
  <2> QED
    BY <1>1, <2>1
<1>4. BothWays(c, l, r, swapped)
  BY <1>1 DEF BothWays, Reversed
<1>5. AllOk(a) => AllOk(c) /\ l.ok /\ r.ok
  BY <1>1
<1> HIDE DEF l, r
<1>6. Under(b.items) = l /\ Last(b.items) = r
  BY <1>2, <1>3, TopTwo
<1>7. Pair(a, c, l, r)
  BY <1>1, <1>2, <1>5, <1>6 DEF Pair
<1>8. Careful => Free(kind, l, r, swapped)
  BY <1>6, NoOverwrites DEF Free
<1>9. kind \in {"shift", "index"} => ~l.float
  BY <1>6
<1>10. Outcome(a, Operation(kind, Grow(Grow(c, l), r)))
  BY <1>4, <1>7, <1>8, <1>9, OperationOutcome
<1>11. SuBinary(l.su, r.su) \in Nat
  BY <1>2, SuBinaryTypes
<1>12. Good(a, Su(Operation(kind, Grow(Grow(c, l), r)), SuBinary(l.su, r.su)))
  BY <1>10, <1>11, OutcomeGood
<1> QED
  BY <1>3, <1>6, <1>12

LEMMA NotedWith ==
  ASSUME NEW c \in Machine, NEW type \in Types, NEW float \in BOOLEAN, NEW ok \in BOOLEAN, NEW su \in Nat,
         NEW m \in BOOLEAN
  PROVE  Noted(With(c, type, float, ok, su), m) = With(Noted(c, m), type, float, ok, su)
<1> DEFINE x == NewItem(c, type, float, ok, su)
           b == Grow(c, x)
           d == Noted(c, m)
<1>1. d = [items |-> c.items, ints |-> c.ints, floats |-> c.floats, slots |-> c.slots, memory |-> m]
  BY DEF Noted, Machine
<1>2. b = [items  |-> Append(c.items, x),
           ints   |-> c.ints + (IF ByInts(x) THEN 1 ELSE 0),
           floats |-> c.floats + (IF ByFloats(x) THEN 1 ELSE 0),
           slots  |-> c.slots + (IF InSlot(x) THEN 1 ELSE 0),
           memory |-> c.memory]
  BY DEF Grow
<1>3. d.items = c.items /\ d.ints = c.ints /\ d.floats = c.floats /\ d.slots = c.slots /\ d.memory = m
  BY <1>1
<1> HIDE DEF d
<1>4. NewItem(d, type, float, ok, su) = x
  BY <1>3 DEF NewItem
<1> HIDE DEF x
<1>5. Grow(d, x) = [items  |-> Append(c.items, x),
           ints   |-> c.ints + (IF ByInts(x) THEN 1 ELSE 0),
           floats |-> c.floats + (IF ByFloats(x) THEN 1 ELSE 0),
           slots  |-> c.slots + (IF InSlot(x) THEN 1 ELSE 0),
           memory |-> m]
  BY <1>3 DEF Grow
<1> DEFINE s == Append(c.items, x)
           i == c.ints + (IF ByInts(x) THEN 1 ELSE 0)
           f == c.floats + (IF ByFloats(x) THEN 1 ELSE 0)
           l == c.slots + (IF InSlot(x) THEN 1 ELSE 0)
           r == c.memory
<1>6. b = [items |-> s, ints |-> i, floats |-> f, slots |-> l, memory |-> r]
      /\ Grow(d, x) = [items |-> s, ints |-> i, floats |-> f, slots |-> l, memory |-> m]
  BY <1>2, <1>5
<1> HIDE DEF b, s, i, f, l, r
<1>7. [b EXCEPT !.memory = m] = Grow(d, x)
  BY <1>6
<1> QED
  BY <1>4, <1>7 DEF Noted, With, b, x, d

LEMMA AssignGood ==
  ASSUME NEW a, Placed(a), Len(a.items) >= 2, NEW ready, ready = a \/ ready = jitc_asm_rval(a)
  PROVE  LET ok == Under(a.items).ok /\ Last(ready.items).ok
         IN Good(a, Su([pop(ready) EXCEPT !.memory = pop(ready).memory /\ ok],
                       SuBinary(Under(a.items).su, Last(a.items).su)))
<1>0. PICK c, y, x : TwoOnTop(a, c, y, x)
  BY TopTwoOf
<1>1. /\ Placed(c) /\ y \in Item /\ x \in Item /\ Kept(c, y, x) /\ a = Grow(Grow(c, y), x)
      /\ AllOk(a) => AllOk(c) /\ y.ok /\ x.ok
      /\ a.memory = c.memory /\ Under(a.items) = y /\ Last(a.items) = x
  BY <1>0 DEF TwoOnTop
<1> DEFINE g == Grow(c, y)
           u == SuBinary(y.su, x.su)
           m == c.memory /\ y.ok /\ x.ok
<1>2. /\ y.type \in Types /\ y.float \in BOOLEAN /\ y.ok \in BOOLEAN /\ y.su \in Nat
      /\ x.type \in Types /\ x.float \in BOOLEAN /\ x.ok \in BOOLEAN /\ x.su \in Nat
      /\ "rvalue" \in Types /\ c \in Machine /\ c.memory \in BOOLEAN
  BY <1>1, MachineFields DEF Placed, Item, Types
<1>3. Placed(g) /\ g \in Machine /\ g.memory = c.memory
  BY <1>1, <1>2, GrownIsPlaced, Grown DEF Kept
<1>4. g = With(c, y.type, y.float, y.ok, y.su)
  BY <1>1, AsNew DEF Kept, With
<1> HIDE DEF g
<1>5. a = With(g, x.type, x.float, x.ok, x.su)
  BY <1>1, AsNew DEF Kept, With, g
<1>6. pop(ready) = g /\ Last(ready.items).ok = x.ok
  <2>1. pop(With(g, x.type, x.float, x.ok, x.su)) = g /\ pop(With(g, "rvalue", x.float, x.ok, x.su)) = g
    BY <1>2, <1>3, PopWith
  <2>2. jitc_asm_rval(With(g, x.type, x.float, x.ok, x.su)) = With(g, "rvalue", x.float, x.ok, x.su)
    BY <1>2, <1>3, RvalIs
  <2>3. Last(With(g, "rvalue", x.float, x.ok, x.su).items).ok = x.ok
    <3> DEFINE float == x.float
               ok == x.ok
               su == x.su
               z == NewItem(g, "rvalue", float, ok, su)
    <3>1. float \in BOOLEAN /\ ok \in BOOLEAN /\ su \in Nat
      BY <1>2
    <3> HIDE DEF float, ok, su
    <3>2. Last(With(g, "rvalue", float, ok, su).items) = z /\ z.ok = ok
      BY <1>2, <1>3, <3>1, NewIs
    <3> HIDE DEF z
    <3> QED
      BY <3>2 DEF float, ok, su
  <2> QED
    BY <1>1, <1>5, <2>1, <2>2, <2>3
<1>7. u \in Nat /\ m \in BOOLEAN
  BY <1>2, SuBinaryTypes
<1>8. [pop(ready) EXCEPT !.memory = pop(ready).memory /\ (Under(a.items).ok /\ Last(ready.items).ok)] = Noted(g, m)
  <2>1. (g.memory /\ (y.ok /\ x.ok)) = m
    BY <1>3
  <2>2. [pop(ready) EXCEPT !.memory = pop(ready).memory /\ (Under(a.items).ok /\ Last(ready.items).ok)]
          = [g EXCEPT !.memory = g.memory /\ (y.ok /\ x.ok)]
    BY <1>1, <1>6
  <2> HIDE DEF m
  <2> QED
    BY <2>1, <2>2 DEF Noted
<1> HIDE DEF m, u
<1>9. Noted(g, m) = With(Noted(c, m), y.type, y.float, y.ok, y.su)
  BY <1>2, <1>4, <1>7, NotedWith
<1>10. /\ Placed(Noted(c, m)) /\ Noted(c, m) \in Machine /\ Noted(c, m).items = c.items
       /\ Noted(c, m).memory = m
  BY <1>1, <1>2, <1>7, NotedIs
<1>11. Su(With(Noted(c, m), y.type, y.float, y.ok, y.su), u) = With(Noted(c, m), y.type, y.float, y.ok, u)
  BY <1>2, <1>7, <1>10, SuIs
<1>12. /\ AllOk(a) => AllOk(Noted(c, m)) /\ y.ok
       /\ AllOk(a) /\ a.memory => Noted(c, m).memory
  BY <1>1, <1>10 DEF AllOk, m
<1>13. Good(a, With(Noted(c, m), y.type, y.float, y.ok, u))
  BY <1>2, <1>7, <1>10, <1>12, WithGood
<1> QED
  BY <1>1, <1>8, <1>9, <1>11, <1>13 DEF u
--------------------------------------------------------------------------------
(* No operand of p has the address of a float.                             *)
Plain(p) == \A i \in 1..Len(p.items) : ~(p.items[i].type = "lvalue_abs" /\ p.items[i].float)

LEMMA PreservedIs ==
  ASSUME NEW p, Placed(p), Plain(p), NEW i \in 1..Len(p.items), Held(p.items[i]), p.items[i].place[1] # "slot"
  PROVE  Preserved(p.items[i]) = p.items[i].place
<1> DEFINE k == Ints(p.items, i - 1)
           f == Floats(p.items, i - 1)
           l == Slots(p.items, i - 1)
           x == p.items[i]
<1>1. x.place = PlaceFor(x.type, x.float, k, f, l)
  BY DEF Placed, Ordered
<1>2. x.float \in BOOLEAN /\ ~(x.type = "lvalue_abs" /\ x.float) /\ x.type \in {"rvalue", "lvalue_abs"}
  <2>1. x \in Item
    BY MachineFields DEF Placed
  <2> QED
    BY <2>1 DEF Plain, Item, Held
<1> HIDE DEF k, f, l, x
<1>3. x.place[1] # "slot"
  BY DEF x
<1>4. CASE x.float
  <2>1. x.type = "rvalue"
    BY <1>2, <1>4
  <2>2. x.place = IF f < NumRegs THEN <<"xmm", f>> ELSE <<"slot", l + 1>>
    BY <1>1, <1>4, <2>1 DEF PlaceFor
  <2>3. x.place = <<"xmm", f>>
    BY <1>3, <2>2
  <2> QED
    BY <1>4, <2>3 DEF Preserved, x
<1>5. CASE ~x.float
  <2>2. x.place = IF k < NumRegs THEN <<"int", k>> ELSE <<"slot", l + 1>>
    BY <1>1, <1>2, <1>5 DEF PlaceFor
  <2>3. x.place = <<"int", k>>
    BY <1>3, <2>2
  <2> QED
    BY <1>5, <2>3 DEF Preserved, x
<1> QED
  BY <1>4, <1>5

LEMMA RestoredIs ==
  ASSUME NEW p, Placed(p)
  PROVE  /\ Touched(Restored(p), p)
         /\ Plain(p) /\ AllOk(p) => AllOk(Restored(p))
<1> DEFINE s == p.items
           n == Len(s)
           v(i) == s[i].ok /\ (Fragile(s[i].place) => s[i].place \in Saved(p))
           t == [i \in 1..n |-> [s[i] EXCEPT !.ok = v(i)]]
<1>1. p \in Machine /\ s \in Seq(Item) /\ n \in Nat /\ DOMAIN s = 1..n /\ \A i \in 1..n : s[i] \in Item
  BY MachineFields DEF Placed
<1>2. Restored(p) = [p EXCEPT !.items = t]
  BY <1>1 DEF Restored
<1> HIDE DEF s, n
<1>3. ASSUME NEW i \in 1..n
      PROVE  /\ t[i] \in Item /\ t[i].type = s[i].type /\ t[i].float = s[i].float /\ t[i].place = s[i].place
             /\ t[i].ok = v(i)
  <2> DEFINE w == v(i)
  <2>1. w \in BOOLEAN /\ s[i] \in Item
    BY <1>1 DEF Item
  <2>2. t[i] = [s[i] EXCEPT !.ok = w]
    OBVIOUS
  <2> HIDE DEF w, t, v
  <2>3. t[i].ok = w
    BY <2>1, <2>2 DEF Item
  <2>4. t[i] \in Item /\ t[i].type = s[i].type /\ t[i].float = s[i].float /\ t[i].place = s[i].place
    BY <2>1, <2>2 DEF Item
  <2> QED
    BY <2>3, <2>4 DEF w
<1>4. t \in Seq(Item) /\ Len(t) = n /\ DOMAIN t = 1..n
  <2>1. \A i \in 1..n : t[i] \in Item
    BY <1>3
  <2>2. t = [i \in 1..n |-> t[i]]
    OBVIOUS
  <2> HIDE DEF t
  <2> QED
    BY <1>1, <2>1, <2>2, LenProperties
<1>5. Alike(t, s, n)
  <2> HIDE DEF t
  <2> QED
    BY <1>3 DEF Alike
<1> HIDE DEF t
<1>6. Touched(Restored(p), p)
  BY <1>1, <1>2, <1>4, <1>5, ItemsTouched DEF s, n
<1>7. Restored(p).items = t
  BY <1>1, <1>2 DEF Machine
<1>8. ASSUME Plain(p), AllOk(p), NEW i \in 1..n
      PROVE  v(i)
  <2>1. s[i].ok
    BY <1>1, <1>8 DEF AllOk, s
  <2>2. ASSUME Fragile(s[i].place)
        PROVE  s[i].place \in Saved(p)
    <3>1. s[i].place[1] = "xmm" \/ s[i].place[1] = "int"
      BY <2>2 DEF Fragile
    <3>2. Held(s[i])
      <4>1. s[i].place = PlaceFor(s[i].type, s[i].float, Ints(s, i - 1), Floats(s, i - 1), Slots(s, i - 1))
        BY DEF Placed, Ordered, s, n
      <4> QED
        BY <3>1, <4>1 DEF PlaceFor, Held, Nowhere
    <3>3. s[i].place[1] # "slot"
      BY <3>1
    <3>4. Preserved(s[i]) = s[i].place
      BY <1>8, <3>2, <3>3, PreservedIs DEF s, n
    <3>5. s[i] \in {j \in Range(p.items) : Held(j) /\ j.place[1] # "slot"}
      BY <1>1, <3>2, <3>3 DEF Range, s
    <3> QED
      BY <3>4, <3>5 DEF Saved
  <2> QED
    BY <2>1, <2>2
<1>9. Plain(p) /\ AllOk(p) => AllOk(Restored(p))
  <2> HIDE DEF v
  <2> QED
    BY <1>3, <1>4, <1>7, <1>8 DEF AllOk
<1> QED
  BY <1>6, <1>9

\* A register that is restored is not that of the result.
LEMMA ResultNotSaved ==
  ASSUME NEW p, Placed(p), Plain(p), NEW c, Placed(c), Touched(c, p), NEW x, Fits(c, x)
  PROVE  x.place \notin Saved(p)
<1> SUFFICES ASSUME x.place \in Saved(p)
             PROVE  FALSE
  OBVIOUS
<1>1. PICK item \in Range(p.items) : Held(item) /\ item.place[1] # "slot" /\ x.place = Preserved(item)
  BY DEF Saved
<1>2. PICK i \in 1..Len(p.items) : item = p.items[i]
  BY <1>1, MachineFields DEF Range, Placed
<1>3. x.place = p.items[i].place
  BY <1>1, <1>2, PreservedIs
<1>4. /\ Len(c.items) = Len(p.items) /\ c.items[i].type = p.items[i].type /\ c.items[i].place = p.items[i].place
  BY DEF Touched, Alike
<1>5. In(c.items[i], x.place)
  BY <1>1, <1>2, <1>3, <1>4 DEF In, Held
<1> QED
  BY <1>4, <1>5, OthersElsewhere

LEMMA StructResult ==
  ASSUME NEW c, Placed(c), NEW no \in BOOLEAN, ~no, NEW v \in BOOLEAN, NEW one \in Nat
  PROVE  LET b == With(c, "rvalue", no, v, one)
         IN [b EXCEPT !.items = [b.items EXCEPT ![Len(b.items)] =
               [b.items[Len(b.items)] EXCEPT !.type = "lvalue_abs"]]] = With(c, "lvalue_abs", no, v, one)
<1> DEFINE b == With(c, "rvalue", no, v, one)
           x == NewItem(c, "rvalue", no, v, one)
           z == [x EXCEPT !.type = "lvalue_abs", !.float = no]
<1>1. c \in Machine /\ "rvalue" \in Types
  BY DEF Placed, Types
<1>2. b.items[Len(b.items)] = x /\ x \in Item /\ x.float = no
  BY <1>1, NewIs
<1>3. Pointing(c, v, one, no, no, b, x, z)
  BY <1>1 DEF Pointing
<1> HIDE DEF b, x
<1>4. z = [x EXCEPT !.type = "lvalue_abs"]
  <2> DEFINE y == [x EXCEPT !.type = "lvalue_abs"]
             pl == x.place
             ok == x.ok
             su == x.su
  <2>1. y = [type |-> "lvalue_abs", float |-> no, place |-> pl, ok |-> ok, su |-> su]
    BY <1>2 DEF Item
  <2>2. z = [y EXCEPT !.float = no]
    OBVIOUS
  <2> HIDE DEF y, z, pl, ok, su
  <2>3. [y EXCEPT !.float = no] = y
    BY <2>1
  <2>4. z = y
    BY <2>2, <2>3
  <2> QED
    BY <2>4 DEF y
<1> HIDE DEF z
<1>5. [b EXCEPT !.items = [b.items EXCEPT ![Len(b.items)] = z]] = With(c, "lvalue_abs", no, v, one)
  BY <1>3, Pointed
<1> QED
  BY <1>2, <1>4, <1>5 DEF b

LEMMA CallGood ==
  ASSUME NEW a, Placed(a), NEW n \in Nat, Len(a.items) > n, NEW ret \in {"int", "float", "struct", "void"},
         (\E i \in 1..(Len(a.items) - n - 1) : a.items[i].type = "lvalue_abs" /\ a.items[i].float)
            => "call" \in Forms
  PROVE  Good(a, jitc_asm_call(a, n, ret))
<1> DEFINE below == Len(a.items) - n - 1
           args == SubSeq(a.items, below + 1, Len(a.items))
           p == Cut(a, below)
           c == Restored(p)
           f == ret = "float"
           t == IF ret = "void" THEN "literal" ELSE "rvalue"
           res == push(c, t, f)
           right == /\ \A i \in DOMAIN args : args[i].ok
                    /\ Last(res.items).place \notin {q \in Saved(p) : Fragile(q)}
           yes == TRUE
           one == 1
           two == 2
<1>1. /\ a \in Machine /\ Len(a.items) \in Nat /\ below \in 0..Len(a.items)
      /\ a.items \in Seq(Item) /\ DOMAIN a.items = 1..Len(a.items)
  BY MachineFields DEF Placed
<1>2. popto(a, below) = p
  BY <1>1, PoppedTo
<1>3. jitc_asm_call(a, n, ret) =
        CASE ret = "void"   -> Su(res, two)
          [] ret = "struct" -> Su([Result(res, right) EXCEPT
                                    !.items[Len(res.items)].type = "lvalue_abs"], two)
          [] OTHER          -> Su(Result(res, right), two)
  <2> HIDE DEF p
  <2> QED
    BY <1>2 DEF jitc_asm_call
<1> HIDE DEF below
<1>4. Placed(p) /\ Len(p.items) = below /\ (\A i \in 1..below : p.items[i] = a.items[i]) /\ p.memory = a.memory
  <2>1. p.memory = a.memory
    BY DEF Cut
  <2> QED
    BY <1>1, <2>1, CutIsPlaced
<1> HIDE DEF p
<1>5. Careful => Plain(p)
  BY <1>4 DEF Careful, Plain, below
<1>6. AllOk(a) => AllOk(p)
  <2>1. DOMAIN p.items = 1..below
    BY <1>4, MachineFields DEF Placed
  <2>2. \A i \in 1..below : i \in 1..Len(a.items)
    BY <1>1
  <2> QED
    BY <1>1, <1>4, <2>1, <2>2 DEF AllOk
<1>7. /\ Touched(c, p) /\ Placed(c) /\ c \in Machine /\ c.memory = a.memory
      /\ Plain(p) /\ AllOk(p) => AllOk(c)
  BY <1>4, RestoredIs, TouchedIsPlaced DEF Touched
<1> HIDE DEF c
<1>8. yes \in BOOLEAN /\ one \in Nat /\ two \in Nat /\ f \in BOOLEAN /\ t \in Types /\ right \in BOOLEAN
      /\ "rvalue" \in Types /\ "lvalue_abs" \in Types
  BY DEF Types
<1>9. res = With(c, t, f, yes, one) /\ yes
  BY <1>7, <1>8, PushWith
<1> HIDE DEF t, f, yes, one, two, right, res
<1>10. Su(res, two) = With(c, t, f, yes, two) /\ Result(res, right) = With(c, t, f, right, one)
       /\ Len(res.items) = Len(With(c, t, f, right, one).items)
       /\ Last(res.items) = NewItem(c, t, f, yes, one) /\ Fits(c, NewItem(c, t, f, yes, one))
  <2>1. Su(With(c, t, f, yes, one), two) = With(c, t, f, yes, two)
    BY <1>7, <1>8, SuIs
  <2>2. Result(With(c, t, f, yes, one), right) = With(c, t, f, right, one)
    BY <1>7, <1>8, ResultIs
  <2>3. /\ Len(With(c, t, f, yes, one).items) = Len(c.items) + 1
        /\ Len(With(c, t, f, right, one).items) = Len(c.items) + 1
        /\ Last(With(c, t, f, yes, one).items) = NewItem(c, t, f, yes, one)
        /\ Fits(c, NewItem(c, t, f, yes, one))
    BY <1>7, <1>8, NewIs
  <2> QED
    BY <1>9, <2>1, <2>2, <2>3
<1>11. Su(With(c, t, f, right, one), two) = With(c, t, f, right, two)
  BY <1>7, <1>8, SuIs
<1>12. Careful /\ AllOk(a) => right
  <2> SUFFICES ASSUME Careful, AllOk(a)
               PROVE  right
    OBVIOUS
  <2>1. Last(res.items).place \notin Saved(p)
    BY <1>4, <1>5, <1>7, <1>10, ResultNotSaved
  <2>2. ASSUME NEW i \in DOMAIN args
        PROVE  args[i].ok
    <3> DEFINE m == Len(a.items)
    <3>1. below + 1 \in 1..(m + 1) /\ m \in 0..m /\ below \in Nat
      BY <1>1
    <3>2. DOMAIN args = 1..(m - below) /\ \A j \in 1..(m - below) : args[j] = a.items[below + j]
      <4> DEFINE s == a.items
      <4>1. s \in Seq(Item) /\ Len(s) = m
        BY <1>1
      <4> HIDE DEF s, m
      <4>2. args = SubSeq(s, below + 1, m)
        BY DEF s, m
      <4> HIDE DEF args
      <4> QED
        BY <1>1, <3>1, <4>1, <4>2 DEF s
    <3> HIDE DEF args
    <3>3. below + i \in 1..m
      BY <1>1, <3>1, <3>2
    <3> QED
      BY <1>1, <3>2, <3>3 DEF AllOk
  <2> QED
    BY <2>1, <2>2 DEF right
<1>13. /\ Good(a, With(c, t, f, yes, two)) /\ Good(a, With(c, t, f, right, two))
       /\ Good(a, With(c, "lvalue_abs", f, right, two))
  BY <1>5, <1>6, <1>7, <1>8, <1>9, <1>12, WithGood
<1>14. ASSUME ret = "struct"
       PROVE  Su([Result(res, right) EXCEPT !.items[Len(res.items)].type = "lvalue_abs"], two)
                = With(c, "lvalue_abs", f, right, two)
  <2> DEFINE b == With(c, "rvalue", f, right, one)
  <2>1. t = "rvalue" /\ ~f
    BY <1>14 DEF t, f
  <2>2. [b EXCEPT !.items = [b.items EXCEPT ![Len(b.items)] =
           [b.items[Len(b.items)] EXCEPT !.type = "lvalue_abs"]]] = With(c, "lvalue_abs", f, right, one)
    BY <1>7, <1>8, <2>1, StructResult
  <2>3. Result(res, right) = b /\ Len(res.items) = Len(b.items)
    BY <1>10, <2>1
  <2> HIDE DEF b
  <2>4. [Result(res, right) EXCEPT !.items[Len(res.items)].type = "lvalue_abs"] = With(c, "lvalue_abs", f, right, one)
    BY <2>2, <2>3
  <2>5. Su(With(c, "lvalue_abs", f, right, one), two) = With(c, "lvalue_abs", f, right, two)
    BY <1>7, <1>8, SuIs
  <2> QED
    BY <2>4, <2>5
<1>15. CASE ret = "void"
  BY <1>3, <1>10, <1>13, <1>15
<1>16. CASE ret = "struct"
  BY <1>3, <1>13, <1>14, <1>16
<1>17. CASE ret \in {"int", "float"}
  BY <1>3, <1>10, <1>11, <1>13, <1>17
<1> QED
  BY <1>15, <1>16, <1>17
--------------------------------------------------------------------------------
LEMMA SplitCount ==
  ASSUME NEW A, NEW B, IsFiniteSet(A), IsFiniteSet(B), A \cap B = {}
  PROVE  IsFiniteSet(A \cup B) /\ Cardinality(A \cup B) = Cardinality(A) + Cardinality(B)
<1>1. IsFiniteSet(A \cup B) /\ Cardinality(A \cup B) = Cardinality(A) + Cardinality(B) - Cardinality(A \cap B)
  BY FS_Union
<1>2. Cardinality(A \cap B) = 0
  BY FS_EmptySet
<1>3. Cardinality(A) \in Nat /\ Cardinality(B) \in Nat
  BY FS_CardinalityType
<1> QED
  BY <1>1, <1>2, <1>3

\* What the counters count is what RegistersFreed says.
LEMMA PlacedFreed ==
  Placed(asm) => RegistersFreed
<1> SUFFICES ASSUME Placed(asm)
             PROVE  RegistersFreed
  OBVIOUS
<1> DEFINE s == asm.items
           n == Len(s)
           W(kind) == {i \in 1..n : s[i].place[1] = kind}
<1>1. /\ asm \in Machine /\ n \in Nat /\ DOMAIN s = 1..n
      /\ asm.ints = Ints(s, n) /\ asm.floats = Floats(s, n) /\ asm.slots = Slots(s, n)
      /\ asm.ints \in Nat /\ asm.floats \in Nat /\ asm.slots \in Nat
      /\ Counted(s) /\ Ordered(s)
  BY MachineFields DEF Placed
<1> HIDE DEF s, n
<1>2. IsFiniteSet(1..n)
  BY <1>1, FS_Interval
<1>3. IsFiniteSet(W("int")) /\ IsFiniteSet(W("xmm")) /\ IsFiniteSet(W("slot"))
  <2>1. W("int") \subseteq 1..n /\ W("xmm") \subseteq 1..n /\ W("slot") \subseteq 1..n
    OBVIOUS
  <2> QED
    BY <1>2, <2>1, FS_Subset
<1>4. OfInts(s, n) \cup OfFloats(s, n) = (W("int") \cup W("xmm")) \cup W("slot")
  <2>1. ASSUME NEW i \in 1..n
        PROVE  ByInts(s[i]) \/ ByFloats(s[i]) <=> s[i].place[1] \in {"int", "xmm", "slot"}
    <3>1. s[i].place = PlaceFor(s[i].type, s[i].float, Ints(s, i - 1), Floats(s, i - 1), Slots(s, i - 1))
      BY <1>1 DEF Ordered, n
    <3> QED
      BY <3>1 DEF PlaceFor, Nowhere, ByInts, ByFloats, Held
  <2> QED
    BY <2>1 DEF OfInts, OfFloats
<1>5. /\ OfInts(s, n) \cap OfFloats(s, n) = {}
      /\ W("int") \cap W("xmm") = {} /\ (W("int") \cup W("xmm")) \cap W("slot") = {}
  BY DEF OfInts, OfFloats, ByInts
<1>6. IsFiniteSet(OfInts(s, n)) /\ IsFiniteSet(OfFloats(s, n))
  BY <1>1, CountTypes
<1>7. Ints(s, n) + Floats(s, n) = Cardinality(W("int")) + Cardinality(W("xmm")) + Cardinality(W("slot"))
  <2> HIDE DEF W
  <2>1. Cardinality(OfInts(s, n) \cup OfFloats(s, n)) = Ints(s, n) + Floats(s, n)
    BY <1>5, <1>6, SplitCount DEF Ints, Floats
  <2>2. IsFiniteSet(W("int") \cup W("xmm"))
        /\ Cardinality(W("int") \cup W("xmm")) = Cardinality(W("int")) + Cardinality(W("xmm"))
    BY <1>3, <1>5, SplitCount
  <2>3. Cardinality((W("int") \cup W("xmm")) \cup W("slot"))
          = Cardinality(W("int") \cup W("xmm")) + Cardinality(W("slot"))
    BY <1>3, <1>5, <2>2, SplitCount
  <2> QED
    BY <1>4, <2>1, <2>2, <2>3
<1>8. OfSlots(s, n) = W("slot")
  BY DEF OfSlots, InSlot
<1>9. asm.slots = Excess(asm.ints) + Excess(asm.floats)
  <2>1. n \in 0..Len(s)
    BY <1>1 DEF n
  <2> QED
    BY <1>1, <2>1 DEF Counted
<1>10. ASSUME NEW m \in Nat
       PROVE  Max({m - NumRegs, 0}) = Excess(m)
  <2>1. NumRegs \in Nat
    BY RegsAssumption
  <2>2. Excess(m) \in {m - NumRegs, 0} /\ \A z \in {m - NumRegs, 0} : Excess(m) >= z
    BY <2>1 DEF Excess
  <2>3. \A z \in {m - NumRegs, 0} : (\A w \in {m - NumRegs, 0} : z >= w) => z = Excess(m)
    BY <2>1 DEF Excess
  <2> QED
    BY <2>2, <2>3 DEF Max
<1>11. \A kind \in {"int", "xmm", "slot"} :
         Quantify(DOMAIN asm.items, LAMBDA i : asm.items[i].place[1] = kind) = Cardinality(W(kind))
  BY <1>1 DEF Quantify, s
<1>12. /\ asm.ints + asm.floats
             = Quantify(DOMAIN asm.items, LAMBDA i : asm.items[i].place[1] = "int")
               + Quantify(DOMAIN asm.items, LAMBDA i : asm.items[i].place[1] = "xmm")
               + Quantify(DOMAIN asm.items, LAMBDA i : asm.items[i].place[1] = "slot")
       /\ asm.slots = Quantify(DOMAIN asm.items, LAMBDA i : asm.items[i].place[1] = "slot")
       /\ asm.slots = Max({asm.ints - NumRegs, 0}) + Max({asm.floats - NumRegs, 0})
  <2> HIDE DEF W
  <2> QED
    BY <1>1, <1>7, <1>8, <1>9, <1>10, <1>11 DEF Slots
<1> QED
  BY <1>12 DEF RegistersFreed
--------------------------------------------------------------------------------
LEMMA StepGood ==
  ASSUME Placed(asm), [Next]_vars
  PROVE  Good(asm, asm')
<1> USE DEF Ready, Operand
<1>1. asm \in Machine /\ Len(asm.items) \in Nat
  BY MachineFields DEF Placed
<1>2. ASSUME UNCHANGED asm
      PROVE  Good(asm, asm')
  BY <1>2 DEF Good
<1>3. CASE Begin
  BY <1>2, <1>3 DEF Begin, Layout
<1>4. CASE Func
  BY <1>2, <1>4 DEF Func
<1>5. CASE FuncEnd
  BY <1>2, <1>5 DEF FuncEnd
<1>6. ASSUME NEW type \in {"literal", "lvalue", "lvalue_abs"}, NEW float \in BOOLEAN, Leaf(type, float)
      PROVE  Good(asm, asm')
  <2>1. type \in Types
    BY DEF Types
  <2> QED
    BY <1>6, <2>1, LeafGood DEF Leaf, Emit
<1>7. ASSUME NEW float \in BOOLEAN, Dereference(float) \/ Cast(float)
      PROVE  Good(asm, asm')
  BY <1>7, OneOperand DEF Dereference, Cast, Emit
<1>8. CASE AddressOf
  BY <1>8, OneOperand DEF AddressOf, Emit
<1>9. CASE Negate
  BY <1>9, OneOperand DEF Negate, Emit
<1>10. CASE Complement
  BY <1>10, ComplementGood DEF Complement, Emit
<1>11. CASE LogicNegate
  BY <1>11, OneOperand DEF LogicNegate, Emit
<1>12. ASSUME NEW suffix \in BOOLEAN, Increment(suffix)
       PROVE  Good(asm, asm')
  BY <1>12, IncrementGood DEF Increment, Emit
<1>13. ASSUME NEW kind \in {"add", "mul", "compare", "shift", "index"}, NEW swapped \in BOOLEAN,
              Binary(kind, swapped)
       PROVE  Good(asm, asm')
  <2> DEFINE b == IF swapped THEN jitc_asm_swp(asm) ELSE asm
  <2>1. /\ Len(asm.items) >= 2
        /\ Under(b.items).float = Last(b.items).float
        /\ kind \in {"shift", "index"} => ~Under(b.items).float
        /\ Overwrites(kind, Under(b.items), Last(b.items), swapped) \subseteq Forms
        /\ asm' = Su(Operation(kind, b), SuBinary(Under(b.items).su, Last(b.items).su))
    BY <1>13 DEF Binary, Emit
  <2>2. b = IF swapped THEN jitc_asm_swp(asm) ELSE asm
    OBVIOUS
  <2> HIDE DEF b
  <2>3. Good(asm, Su(Operation(kind, b), SuBinary(Under(b.items).su, Last(b.items).su)))
    BY <2>1, <2>2, BinaryGood
  <2> QED
    BY <2>1, <2>3
<1>14. ASSUME NEW kind \in {"store", "add", "shift"}, Assign(kind)
       PROVE  Good(asm, asm')
  <2> DEFINE x == Last(asm.items)
             ready == IF x.float /\ x.type = "literal" /\ kind = "add" THEN jitc_asm_rval(asm) ELSE asm
             ok == Under(asm.items).ok /\ Last(ready.items).ok
  <2>1. /\ Len(asm.items) >= 2
        /\ asm' = Su([pop(ready) EXCEPT !.memory = pop(ready).memory /\ ok], SuBinary(Under(asm.items).su, x.su))
    BY <1>14 DEF Assign, Emit
  <2>2. ready = asm \/ ready = jitc_asm_rval(asm)
    OBVIOUS
  <2> HIDE DEF ready
  <2>3. Good(asm, Su([pop(ready) EXCEPT !.memory = pop(ready).memory /\ (Under(asm.items).ok /\ Last(ready.items).ok)],
                     SuBinary(Under(asm.items).su, Last(asm.items).su)))
    BY <2>1, <2>2, AssignGood
  <2> QED
    BY <2>1, <2>3
<1>15. ASSUME NEW n \in 0..MaxArgs, NEW ret \in {"int", "float", "struct", "void"}, Call(n, ret)
       PROVE  Good(asm, asm')
  <2>1. n \in Nat
    OBVIOUS
  <2>2. /\ Len(asm.items) > n
        /\ (\E i \in 1..(Len(asm.items) - n - 1) : asm.items[i].type = "lvalue_abs" /\ asm.items[i].float)
             => "call" \in Forms
        /\ asm' = jitc_asm_call(asm, n, ret)
    BY <1>15 DEF Call, Emit
  <2>3. Good(asm, jitc_asm_call(asm, n, ret))
    BY <2>1, <2>2, CallGood
  <2> QED
    BY <2>2, <2>3
<1>16. CASE Pop
  BY <1>16, PopGood DEF Pop, Emit
<1>17. ASSUME Len(asm.items) > 0
       PROVE  /\ Good(asm, pop(jitc_asm_rval(asm)))
              /\ Good(asm, fromone(jitc_asm_rval(asm), "rvalue", FALSE))
  <2> DEFINE b == jitc_asm_rval(asm)
  <2>1. Good(asm, b) /\ Len(b.items) > 0
    BY <1>17, OneOperand
  <2> HIDE DEF b
  <2>2. Placed(b)
    BY <2>1 DEF Good
  <2>3. Good(b, pop(b)) /\ Good(b, fromone(b, "rvalue", FALSE))
    BY <2>1, <2>2, PopGood, OneOperand
  <2>4. Good(asm, pop(b)) /\ Good(asm, fromone(b, "rvalue", FALSE))
    BY <2>1, <2>3, GoodTwice
  <2> QED
    BY <2>4 DEF b
<1>18. CASE Test
  BY <1>17, <1>18 DEF Test, Emit
<1>19. CASE Truth
  BY <1>17, <1>19 DEF Truth, Emit
<1>20. CASE UNCHANGED vars
  BY <1>2, <1>20 DEF vars
<1> QED
  BY <1>3, <1>4, <1>5, <1>6, <1>7, <1>8, <1>9, <1>10, <1>11, <1>12, <1>13, <1>14, <1>15, <1>16, <1>18, <1>19, <1>20
     DEF Next

(* However many operands there are, and whichever forms are used: the      *)
(* counters are those of the operands on the stack, every operand has the  *)
(* place that push finds with the counts below it, and without the forms   *)
(* that overwrite operands, each of them has its value in it (push, pop    *)
(* and what uses them, x86_64.c 290-757).                                  *)
THEOREM OperandInvariance ==
  Spec => []OperandInv
<1>1. Init => OperandInv
  <2> SUFFICES ASSUME Init
               PROVE  OperandInv
    OBVIOUS
  <2> DEFINE s == asm.items
  <2>1. /\ asm = [items |-> <<>>, ints |-> 0, floats |-> 0, slots |-> 0, memory |-> TRUE]
        /\ s = <<>> /\ Len(s) = 0 /\ s \in Seq(Item) /\ DOMAIN s = {}
    BY DEF Init
  <2>2. asm \in Machine
    BY <2>1 DEF Machine
  <2>3. Ints(s, 0) = 0 /\ Floats(s, 0) = 0 /\ Slots(s, 0) = 0
    BY CountNone
  <2>4. asm.ints = 0 /\ asm.floats = 0 /\ asm.slots = 0 /\ asm.memory
    BY <2>1
  <2> HIDE DEF s
  <2>5. Counted(s)
    <3>1. Excess(0) = 0
      BY RegsAssumption DEF Excess
    <3>2. \A k \in 0..Len(s) : k = 0
      BY <2>1
    <3> QED
      BY <2>3, <3>1, <3>2 DEF Counted
  <2>6. Ordered(s)
    BY <2>1 DEF Ordered
  <2>7. Placed(asm)
    BY <2>1, <2>2, <2>3, <2>4, <2>5, <2>6 DEF Placed, s
  <2>8. ValuesKept /\ MemoryKept
    BY <2>1, <2>4 DEF ValuesKept, MemoryKept, s
  <2> QED
    BY <2>7, <2>8 DEF OperandInv
<1>2. OperandInv /\ [Next]_vars => OperandInv'
  <2> SUFFICES ASSUME OperandInv, [Next]_vars
               PROVE  OperandInv'
    OBVIOUS
  <2>1. Good(asm, asm')
    BY StepGood DEF OperandInv
  <2> QED
    BY <2>1 DEF OperandInv, Good, AllOk, ValuesKept, MemoryKept
<1> QED
  BY <1>1, <1>2, PTL DEF Spec

(* The counters that choose registers and slots count the operands that    *)
(* have one, however long an expression is and whichever forms are used    *)
(* (pop, x86_64.c 329).                                                    *)
THEOREM RegistersComeBack ==
  Spec => []RegistersFreed
<1>1. OperandInv => RegistersFreed
  BY PlacedFreed DEF OperandInv
<1> QED
  BY <1>1, OperandInvariance, PTL

(* No two operands that have a place have the same one.                    *)
PlacesDistinct ==
  \A i, j \in DOMAIN asm.items :
    Held(asm.items[i]) /\ asm.items[i].place = asm.items[j].place => i = j

LEMMA PlacedApart ==
  ASSUME NEW a, Placed(a), NEW i \in 1..Len(a.items), NEW j \in 1..Len(a.items), j < i
  PROVE  ~In(a.items[j], a.items[i].place)
<1> DEFINE c == Cut(a, i - 1)
           x == a.items[i]
<1>1. /\ a \in Machine /\ a.items \in Seq(Item) /\ Len(a.items) \in Nat /\ x \in Item
      /\ i - 1 \in 0..Len(a.items) /\ i - 1 \in Nat /\ j \in 1..(i - 1)
  BY MachineFields DEF Placed
<1>2. Placed(c) /\ Len(c.items) = i - 1 /\ c.items[j] = a.items[j]
  BY <1>1, CutIsPlaced
<1>3. Fits(c, x)
  <2>1. /\ c.ints = Ints(a.items, i - 1) /\ c.floats = Floats(a.items, i - 1)
        /\ c.slots = Slots(a.items, i - 1)
    BY DEF Cut
  <2> QED
    BY <1>1, <2>1 DEF Placed, Ordered, Fits
<1> HIDE DEF c, x
<1>4. ~In(c.items[j], x.place)
  BY <1>1, <1>2, <1>3, OthersElsewhere
<1> QED
  BY <1>2, <1>4 DEF x

(* Whatever the code does wrong, it never gives two operands one place: a  *)
(* value is lost only to an instruction that is still at work (push,       *)
(* x86_64.c 290).                                                          *)
THEOREM NoPlaceIsShared ==
  Spec => []PlacesDistinct
<1>1. OperandInv => PlacesDistinct
  <2> SUFFICES ASSUME OperandInv, NEW i \in DOMAIN asm.items, NEW j \in DOMAIN asm.items,
                      Held(asm.items[i]), asm.items[i].place = asm.items[j].place
               PROVE  i = j
    BY DEF PlacesDistinct
  <2> DEFINE s == asm.items
  <2>1. Placed(asm) /\ s \in Seq(Item) /\ Len(s) \in Nat /\ i \in 1..Len(s) /\ j \in 1..Len(s)
    BY MachineFields DEF OperandInv, Placed
  <2>2. /\ j < i => ~In(s[j], s[i].place)
        /\ i < j => ~In(s[i], s[j].place)
    BY <2>1, PlacedApart
  <2>3. s[i] \in Item /\ s[j] \in Item
    BY <2>1, ElementOfSeq
  <2>4. Held(s[j])
    <3>1. /\ s[j].place = PlaceFor(s[j].type, s[j].float, Ints(s, j - 1), Floats(s, j - 1), Slots(s, j - 1))
          /\ s[i].place = PlaceFor(s[i].type, s[i].float, Ints(s, i - 1), Floats(s, i - 1), Slots(s, i - 1))
      BY <2>1 DEF OperandInv, Placed, Ordered
    <3> HIDE DEF s
    <3>2. Held(s[i]) /\ s[i].place = s[j].place
      BY DEF s
    <3> QED
      BY <3>1, <3>2 DEF PlaceFor, Held, Nowhere
  <2> HIDE DEF s
  <2>5. Held(s[i]) /\ s[i].place = s[j].place
    BY DEF s
  <2> QED
    BY <2>1, <2>2, <2>4, <2>5 DEF In
<1> QED
  BY <1>1, OperandInvariance, PTL

(* Without the forms "shift", "index", "slot" and "call", no instruction,  *)
(* temporary or call takes the place of an operand that is still on the    *)
(* stack, for any number of registers and operands (x86_64.c 290-757).     *)
THEOREM ValuesStay ==
  ASSUME {"shift", "index", "slot", "call"} \cap Forms = {}
  PROVE  Spec => []ValuesKept
<1>1. OperandInv => ValuesKept
  BY DEF OperandInv, Careful
<1> QED
  BY <1>1, OperandInvariance, PTL

(* Without these and without "not", only ++, -- and assignments change     *)
(* variables, and with the right values (unaryop, x86_64.c 666).           *)
THEOREM MemoryStays ==
  ASSUME {"shift", "index", "slot", "call", "not"} \cap Forms = {}
  PROVE  Spec => []MemoryKept
<1>1. OperandInv => MemoryKept
  BY DEF OperandInv, Careful
<1> QED
  BY <1>1, OperandInvariance, PTL
--------------------------------------------------------------------------------
(* Every set of natural numbers that is not empty has a least element. *)
LEMMA LeastNatural ==
  ASSUME NEW S \in SUBSET Nat, S # {}
  PROVE  \E m \in S : \A k \in S : m <= k
<1>1. IsWellFoundedOn(OpToRel(<, Nat), Nat)
  BY NatLessThanWellFounded
<1>2. PICK m \in S : \A k \in S : ~(<<k, m>> \in OpToRel(<, Nat))
  BY <1>1, WFMin, Zenon
<1>3. \A k \in S : ~(k < m)
  BY <1>2 DEF OpToRel
<1>4. m \in Nat /\ \A k \in S : k \in Nat
  OBVIOUS
<1> HIDE <1>2
<1> QED
  BY <1>3, <1>4

LEMMA UpToAny ==
  ASSUME NEW n \in Nat, NEW S, 0 \in S, \A k \in 0..(n - 1) : k \in S => k + 1 \in S
  PROVE  \A k \in 0..n : k \in S
<1> DEFINE Rest == (0..n) \ S
<1> SUFFICES ASSUME Rest # {} PROVE FALSE
  OBVIOUS
<1>1. Rest \in SUBSET Nat
  OBVIOUS
<1>2. PICK m \in Rest : \A k \in Rest : m <= k
  BY <1>1, LeastNatural
<1>3. m # 0 /\ m \in 0..n
  OBVIOUS
<1>4. m - 1 \in 0..(n - 1) /\ m - 1 \in 0..n /\ (m - 1) + 1 = m /\ ~(m <= m - 1)
  BY <1>3
<1>5. m - 1 \in S
  BY <1>2, <1>4
<1> QED
  BY <1>2, <1>4, <1>5

LEMMA HighestOf ==
  ASSUME NEW s \in SUBSET Nat, NEW k \in s, \A i \in s : i <= k
  PROVE  Max(s) = k
<1>1. \A x \in s : (\A y \in s : x >= y) => x = k
  OBVIOUS
<1>2. \A y \in s : k >= y
  OBVIOUS
<1> QED
  BY <1>1, <1>2 DEF Max

LEMMA HighestOfRange ==
  ASSUME NEW k \in Nat \ {0}
  PROVE  1..k # {} /\ Max(1..k) = k /\ (1..k) \ {Max(1..k)} = 1..(k - 1)
<1>1. 1..k \in SUBSET Nat /\ k \in 1..k /\ \A i \in 1..k : i <= k
  OBVIOUS
<1>2. Max(1..k) = k
  BY <1>1, HighestOf
<1>3. (1..k) \ {k} = 1..(k - 1)
  OBVIOUS
<1> QED
  BY <1>1, <1>2, <1>3

(* FoldLeft is a recursive function on sets of positions, each of which    *)
(* the element at its highest position is taken from: that f is what       *)
(* `step` and `base` make of seq in this way.                              *)
Folds(f, n, A, E, step, base, seq) ==
  /\ f \in [SUBSET (1..n) -> A]
  /\ f[{}] = base
  /\ \A s \in SUBSET (1..n) :
        s # {} => seq[Max(s)] \in E /\ f[s] = step[<<f[s \ {Max(s)}], seq[Max(s)]>>]

LEMMA FoldExists ==
  ASSUME NEW A, NEW E, NEW step \in [A \X E -> A], NEW base \in A,
         NEW n \in Nat, NEW seq, \A i \in 1..n : seq[i] \in E
  PROVE  \E f : Folds(f, n, A, E, step, base, seq)
<1> DEFINE Reach == {k \in 0..n : \E f : Folds(f, k, A, E, step, base, seq)}
<1>1. 0 \in Reach
  <2> DEFINE f == [s \in SUBSET (1..0) |-> base]
  <2>1. \A s \in SUBSET (1..0) : s = {}
    OBVIOUS
  <2>2. {} \in SUBSET (1..0)
    OBVIOUS
  <2>3. Folds(f, 0, A, E, step, base, seq)
    BY <2>1, <2>2 DEF Folds
  <2>4. 0 \in 0..n
    OBVIOUS
  <2> HIDE DEF f
  <2> QED
    BY <2>3, <2>4, Zenon
<1>2. ASSUME NEW k \in 0..(n - 1), k \in Reach
      PROVE  k + 1 \in Reach
  <2>1. PICK f : Folds(f, k, A, E, step, base, seq)
    BY <1>2
  <2> DEFINE D == SUBSET (1..(k + 1))
             g == [s \in D |-> IF k + 1 \in s THEN step[<<f[s \ {k + 1}], seq[k + 1]>>] ELSE f[s]]
  <2>2. seq[k + 1] \in E /\ k \in Nat /\ k + 1 \in 0..n
    OBVIOUS
  <2>3. \A s \in D : s \ {k + 1} \in SUBSET (1..k) /\ (k + 1 \notin s => s \in SUBSET (1..k))
    BY <2>2
  <2>4. f \in [SUBSET (1..k) -> A] /\ f[{}] = base
    BY <2>1, Zenon DEF Folds
  <2>5. \A s \in D : (IF k + 1 \in s THEN step[<<f[s \ {k + 1}], seq[k + 1]>>] ELSE f[s]) \in A
    <3> SUFFICES ASSUME NEW s \in D
                 PROVE  /\ k + 1 \in s => step[<<f[s \ {k + 1}], seq[k + 1]>>] \in A
                        /\ k + 1 \notin s => f[s] \in A
      OBVIOUS
    <3> HIDE DEF D
    <3>1. f[s \ {k + 1}] \in A
      BY <2>3, <2>4
    <3> QED
      BY <2>2, <2>3, <2>4, <3>1
  <2>6. g \in [D -> A]
    BY <2>5
  <2>7. g[{}] = base
    BY <2>4
  <2>8. ASSUME NEW s \in D, s # {}
        PROVE  seq[Max(s)] \in E /\ g[s] = step[<<g[s \ {Max(s)}], seq[Max(s)]>>]
    <3>1. CASE k + 1 \in s
      <4>1. s \in SUBSET Nat /\ \A i \in s : i <= k + 1
        BY <2>2
      <4>2. Max(s) = k + 1
        BY <3>1, <4>1, HighestOf
      <4>3. s \ {k + 1} \in D /\ k + 1 \notin s \ {k + 1}
        OBVIOUS
      <4>4. g[s \ {k + 1}] = f[s \ {k + 1}]
        BY <4>3
      <4>5. g[s] = step[<<f[s \ {k + 1}], seq[k + 1]>>]
        BY <3>1
      <4> QED
        BY <2>2, <4>2, <4>4, <4>5, Zenon
    <3>2. CASE k + 1 \notin s
      <4>1. s \in SUBSET (1..k)
        BY <2>3, <3>2, Zenon
      <4>2. s \ {Max(s)} \in D /\ k + 1 \notin s \ {Max(s)}
        BY <3>2
      <4>3. seq[Max(s)] \in E /\ f[s] = step[<<f[s \ {Max(s)}], seq[Max(s)]>>]
        BY <2>1, <2>8, <4>1, Zenon DEF Folds
      <4>4. g[s] = f[s] /\ g[s \ {Max(s)}] = f[s \ {Max(s)}]
        BY <3>2, <4>2
      <4> QED
        BY <4>3, <4>4, Zenon
    <3> QED
      BY <3>1, <3>2
  <2> HIDE DEF g
  <2>9. Folds(g, k + 1, A, E, step, base, seq)
    BY <2>6, <2>7, <2>8, Zenon DEF Folds
  <2> QED
    BY <2>2, <2>9, Zenon
<1> HIDE DEF Reach
<1>3. \A k \in 0..n : k \in Reach
  BY <1>1, <1>2, UpToAny
<1>4. n \in Reach
  BY <1>3
<1> QED
  BY <1>4, Zenon DEF Reach

(* What of this is needed about the positions up to n. *)
Steps(f, n, A, step, base, seq) ==
  /\ f[{}] = base
  /\ \A k \in 1..n : f[1..(k - 1)] \in A => f[1..k] = step[<<f[1..(k - 1)], seq[k]>>]

LEMMA FoldsSteps ==
  ASSUME NEW A, NEW E, NEW step, NEW base, NEW n \in Nat, NEW seq, NEW f,
         Folds(f, n, A, E, step, base, seq), NEW m \in 0..n
  PROVE  Steps(f, m, A, step, base, seq)
<1>1. ASSUME NEW k \in 1..m
      PROVE  f[1..k] = step[<<f[1..(k - 1)], seq[k]>>]
  <2>1. k \in Nat \ {0} /\ 1..k \in SUBSET (1..n)
    OBVIOUS
  <2>2. 1..k # {} /\ Max(1..k) = k /\ (1..k) \ {Max(1..k)} = 1..(k - 1)
    BY <2>1, HighestOfRange
  <2>3. f[1..k] = step[<<f[(1..k) \ {Max(1..k)}], seq[Max(1..k)]>>]
    BY <2>1, <2>2, Zenon DEF Folds
  <2> QED
    BY <2>2, <2>3, Zenon
<1> QED
  BY <1>1, Zenon DEF Steps, Folds

Typed(A, E, step, base) == step \in [A \X E -> A] /\ base \in A
Agree(seq, other, n, E) == \A i \in 1..n : seq[i] \in E /\ seq[i] = other[i]

LEMMA StepsOnce ==
  ASSUME NEW A, NEW E, NEW step, NEW base, Typed(A, E, step, base), NEW n \in Nat,
         NEW seq, NEW other, Agree(seq, other, n, E),
         NEW f, Steps(f, n, A, step, base, seq), NEW g, Steps(g, n, A, step, base, other)
  PROVE  f[1..n] \in A /\ f[1..n] = g[1..n]
<1> DEFINE Reach == {k \in 0..n : f[1..k] \in A /\ f[1..k] = g[1..k]}
<1>1. 0 \in Reach
  <2>1. 1..0 = {} /\ 0 \in 0..n
    OBVIOUS
  <2> QED
    BY <2>1, Zenon DEF Steps, Typed
<1>2. ASSUME NEW k \in 0..(n - 1), k \in Reach
      PROVE  k + 1 \in Reach
  <2>1. k + 1 \in 1..n /\ k + 1 \in 0..n /\ (k + 1) - 1 = k
    OBVIOUS
  <2>2. f[1..k] \in A /\ f[1..k] = g[1..k]
    BY <1>2
  <2>3. f[1..(k + 1)] = step[<<f[1..k], seq[k + 1]>>]
    BY <2>1, <2>2 DEF Steps
  <2>4. g[1..(k + 1)] = step[<<g[1..k], other[k + 1]>>]
    BY <2>1, <2>2 DEF Steps
  <2>5. seq[k + 1] \in E /\ seq[k + 1] = other[k + 1]
    BY <2>1 DEF Agree
  <2>6. f[1..(k + 1)] \in A /\ f[1..(k + 1)] = g[1..(k + 1)]
    BY <2>2, <2>3, <2>4, <2>5 DEF Typed
  <2> QED
    BY <2>1, <2>6
<1> HIDE DEF Reach
<1>3. \A k \in 0..n : k \in Reach
  BY <1>1, <1>2, UpToAny
<1>4. n \in Reach
  BY <1>3
<1> QED
  BY <1>4 DEF Reach

(* What a fold gives, with its operator as a function. *)
FoldOf(A, E, step, base, seq) ==
  (CHOOSE f : Folds(f, Len(seq), A, E, step, base, seq))[1..Len(seq)]

Foldable(A, E, step, base, seq) == Typed(A, E, step, base) /\ seq \in Seq(E)

LEMMA FoldOfExists ==
  ASSUME NEW A, NEW E, NEW step, NEW base, NEW seq, Foldable(A, E, step, base, seq)
  PROVE  \E f : Folds(f, Len(seq), A, E, step, base, seq) /\ FoldOf(A, E, step, base, seq) = f[1..Len(seq)]
<1>1. Len(seq) \in Nat /\ \A i \in 1..Len(seq) : seq[i] \in E
  BY DEF Foldable
<1>2. \E f : Folds(f, Len(seq), A, E, step, base, seq)
  BY <1>1, FoldExists DEF Foldable, Typed
<1> QED
  BY <1>2, Zenon DEF FoldOf

LEMMA FoldOfSteps ==
  ASSUME NEW A, NEW E, NEW step, NEW base, NEW seq, Foldable(A, E, step, base, seq),
         NEW f, Steps(f, Len(seq), A, step, base, seq)
  PROVE  f[1..Len(seq)] = FoldOf(A, E, step, base, seq)
<1>1. PICK g : Folds(g, Len(seq), A, E, step, base, seq) /\ FoldOf(A, E, step, base, seq) = g[1..Len(seq)]
  BY FoldOfExists
<1>2. Len(seq) \in Nat /\ Len(seq) \in 0..Len(seq) /\ Agree(seq, seq, Len(seq), E) /\ Typed(A, E, step, base)
  BY DEF Foldable, Agree
<1>3. Steps(g, Len(seq), A, step, base, seq)
  BY <1>1, <1>2, FoldsSteps
<1>4. f[1..Len(seq)] = g[1..Len(seq)]
  BY <1>1, <1>2, <1>3, StepsOnce
<1> QED
  BY <1>1, <1>4, Zenon

(* Each element of the sequence takes what the ones before it give.        *)
Unrolls(A, E, step, base, seq) ==
  /\ FoldOf(A, E, step, base, <<>>) = base
  /\ \A k \in 0..Len(seq) : FoldOf(A, E, step, base, SubSeq(seq, 1, k)) \in A
  /\ \A k \in 1..Len(seq) : FoldOf(A, E, step, base, SubSeq(seq, 1, k))
        = step[<<FoldOf(A, E, step, base, SubSeq(seq, 1, k - 1)), seq[k]>>]

LEMMA FoldOfNext ==
  ASSUME NEW A, NEW E, NEW step, NEW base, NEW seq, Foldable(A, E, step, base, seq)
  PROVE  Unrolls(A, E, step, base, seq)
<1> DEFINE F(s) == FoldOf(A, E, step, base, s)
<1>1. \A k \in 0..Len(seq) : /\ Foldable(A, E, step, base, SubSeq(seq, 1, k)) /\ Len(SubSeq(seq, 1, k)) = k
                             /\ \A i \in 1..k : SubSeq(seq, 1, k)[i] = seq[i] /\ seq[i] \in E
  BY DEF Foldable
<1>2. F(<<>>) = base
  <2>1. Foldable(A, E, step, base, <<>>) /\ Len(<<>>) = 0 /\ 1..0 = {}
    BY DEF Foldable
  <2>2. PICK f : Folds(f, Len(<<>>), A, E, step, base, <<>>) /\ F(<<>>) = f[1..Len(<<>>)]
    BY <2>1, FoldOfExists
  <2> QED
    BY <2>1, <2>2 DEF Folds
<1>3. ASSUME NEW k \in 0..Len(seq)
      PROVE  F(SubSeq(seq, 1, k)) \in A
  <2> DEFINE t == SubSeq(seq, 1, k)
  <2>1. Foldable(A, E, step, base, t) /\ Len(t) = k
    BY <1>1
  <2> HIDE DEF t
  <2>2. PICK f : Folds(f, Len(t), A, E, step, base, t) /\ F(t) = f[1..Len(t)]
    BY <2>1, FoldOfExists
  <2>3. 1..Len(t) \in SUBSET (1..Len(t))
    OBVIOUS
  <2> QED
    BY <2>2, <2>3 DEF Folds, t
<1>4. ASSUME NEW k \in 1..Len(seq)
      PROVE  F(SubSeq(seq, 1, k)) = step[<<F(SubSeq(seq, 1, k - 1)), seq[k]>>]
  <2> DEFINE t == SubSeq(seq, 1, k)
             u == SubSeq(seq, 1, k - 1)
  <2>1. k \in 0..Len(seq) /\ k - 1 \in 0..Len(seq) /\ k - 1 \in Nat /\ k - 1 \in 0..k /\ k \in 0..k /\ k \in Nat
    OBVIOUS
  <2>2. /\ Foldable(A, E, step, base, t) /\ Len(t) = k /\ Foldable(A, E, step, base, u) /\ Len(u) = k - 1 /\ t[k] = seq[k]
        /\ Agree(t, u, k - 1, E) /\ Typed(A, E, step, base)
    BY <2>1, <1>1 DEF Agree, Foldable
  <2> HIDE DEF t, u, F
  <2>3. PICK f : Folds(f, Len(t), A, E, step, base, t) /\ F(t) = f[1..Len(t)]
    BY <2>2, FoldOfExists DEF F
  <2>4. Steps(f, k, A, step, base, t) /\ Steps(f, k - 1, A, step, base, t)
    BY <2>1, <2>2, <2>3, FoldsSteps
  <2>5. PICK g : Folds(g, Len(u), A, E, step, base, u) /\ F(u) = g[1..Len(u)]
    BY <2>2, FoldOfExists DEF F
  <2>6. k - 1 \in 0..(k - 1)
    BY <2>1
  <2>7. Steps(g, k - 1, A, step, base, u)
    BY <2>1, <2>2, <2>5, <2>6, FoldsSteps
  <2>8. f[1..(k - 1)] \in A /\ f[1..(k - 1)] = g[1..(k - 1)]
    BY <2>1, <2>2, <2>4, <2>7, StepsOnce
  <2>9. f[1..k] = step[<<f[1..(k - 1)], t[k]>>]
    BY <2>1, <2>4, <2>8 DEF Steps
  <2> QED
    BY <2>2, <2>3, <2>5, <2>8, <2>9, Zenon DEF t, u
<1> QED
  BY <1>2, <1>3, <1>4 DEF Unrolls

(* The same, for the equation of the recursive function. *)
Unfolds(f, n, A, E, step, base, seq) ==
  /\ f = [s \in SUBSET (1..n) |-> f[s]] /\ f[{}] = base
  /\ \A s \in SUBSET (1..n) : s # {} =>
        /\ <<f[s \ {Max(s)}], seq[Max(s)]>> \in A \X E
        /\ f[s] = step[<<f[s \ {Max(s)}], seq[Max(s)]>>]

LEMMA FoldsTyped ==
  ASSUME NEW A, NEW E, NEW step, NEW base, NEW n \in Nat, NEW seq, NEW f,
         Folds(f, n, A, E, step, base, seq)
  PROVE  Unfolds(f, n, A, E, step, base, seq)
<1>1. f \in [SUBSET (1..n) -> A]
  BY DEF Folds
<1>2. ASSUME NEW s \in SUBSET (1..n)
      PROVE  f[s \ {Max(s)}] \in A
  BY <1>1
<1> QED
  BY <1>1, <1>2 DEF Folds, Unfolds

LEMMA RangeWithin ==
  ASSUME NEW n \in Nat, NEW k \in 1..n
  PROVE  1..k \in SUBSET (1..n) /\ 1..k # {} /\ Max(1..k) = k /\ (1..k) \ {Max(1..k)} = 1..(k - 1)
BY HighestOfRange

(* What the equation gives of any f that it holds of, typed or not. *)
Conditional(f, n, A, E, step, base, seq) ==
  /\ f[{}] = base
  /\ \A s \in SUBSET (1..n) : s # {} =>
        (<<f[s \ {Max(s)}], seq[Max(s)]>> \in A \X E =>
            f[s] = step[<<f[s \ {Max(s)}], seq[Max(s)]>>])

LEMMA FoldOfIs ==
  ASSUME NEW A, NEW E, NEW step, NEW base, NEW seq, Foldable(A, E, step, base, seq),
         NEW f, Conditional(f, Len(seq), A, E, step, base, seq)
  PROVE  f[1..Len(seq)] = FoldOf(A, E, step, base, seq)
<1>1. Len(seq) \in Nat /\ \A i \in 1..Len(seq) : seq[i] \in E
  BY DEF Foldable
<1>2. ASSUME NEW k \in 1..Len(seq), f[1..(k - 1)] \in A
      PROVE  f[1..k] = step[<<f[1..(k - 1)], seq[k]>>]
  <2>1. 1..k \in SUBSET (1..Len(seq)) /\ 1..k # {} /\ Max(1..k) = k /\ (1..k) \ {Max(1..k)} = 1..(k - 1)
    BY <1>1, RangeWithin
  <2>2. <<f[1..(k - 1)], seq[k]>> \in A \X E
    BY <1>1, <1>2
  <2> QED
    BY <2>1, <2>2, Zenon DEF Conditional
<1>3. Steps(f, Len(seq), A, step, base, seq)
  BY <1>2, Zenon DEF Steps, Conditional
<1> QED
  BY <1>3, FoldOfSteps
--------------------------------------------------------------------------------
Leaves == Params \union Variables

LEMMA AlignUpIs ==
  ASSUME NEW size \in Nat, NEW align \in Nat \ {0}
  PROVE  /\ AlignUp(size, align) \in Nat /\ AlignUp(size, align) >= size
         /\ AlignUp(size, align) % align = 0
BY DEF AlignUp

LEMMA AddLeafType ==
  ASSUME NEW size \in Nat, NEW v \in Leaves
  PROVE  AddLeaf(size, v) \in Nat /\ AddLeaf(size, v) >= size
<1>1. v.size \in Nat /\ v.align \in Nat \ {0}
  BY VariablesAssumption DEF Leaves
<1>2. AlignUp(size, v.align) \in Nat /\ AlignUp(size, v.align) >= size
  BY <1>1, AlignUpIs
<1> QED
  BY <1>1, <1>2 DEF AddLeaf

LeafStep == [p \in Nat \X Leaves |-> AddLeaf(p[1], p[2])]

LEMMA LeavesFolded ==
  ASSUME NEW base \in Nat, NEW seq \in Seq(Leaves)
  PROVE  /\ Foldable(Nat, Leaves, LeafStep, base, seq)
         /\ FoldLeft(AddLeaf, base, seq) = FoldOf(Nat, Leaves, LeafStep, base, seq)
<1>1. Foldable(Nat, Leaves, LeafStep, base, seq)
  BY AddLeafType DEF Foldable, Typed, LeafStep
<1>2. \A p \in Nat \X Leaves : LeafStep[<<p[1], p[2]>>] = AddLeaf(p[1], p[2])
  BY DEF LeafStep
<1>3. DOMAIN seq = 1..Len(seq) /\ Len(seq) \in Nat
  OBVIOUS
<1>4. PICK g : Folds(g, Len(seq), Nat, Leaves, LeafStep, base, seq)
  BY <1>1, FoldOfExists
<1>5. /\ g = [s \in SUBSET (1..Len(seq)) |-> g[s]] /\ g[{}] = base
      /\ \A s \in SUBSET (1..Len(seq)) : s # {} =>
            /\ <<g[s \ {Max(s)}], seq[Max(s)]>> \in Nat \X Leaves
            /\ g[s] = LeafStep[<<g[s \ {Max(s)}], seq[Max(s)]>>]
  <2>1. Unfolds(g, Len(seq), Nat, Leaves, LeafStep, base, seq)
    BY <1>3, <1>4, FoldsTyped
  <2> QED
    BY <2>1, Zenon DEF Unfolds
<1> DEFINE Def(f) == f = [s \in SUBSET (DOMAIN seq) |->
                            IF s = {} THEN base ELSE AddLeaf(f[s \ {Max(s)}], seq[Max(s)])]
<1>6. Def(g)
  <2>1. ASSUME NEW s \in SUBSET (1..Len(seq))
        PROVE  g[s] = IF s = {} THEN base ELSE AddLeaf(g[s \ {Max(s)}], seq[Max(s)])
    <3>1. CASE s = {}
      BY <1>5, <3>1
    <3>2. CASE s # {}
      BY <1>2, <1>5, <3>2
    <3> QED
      BY <3>1, <3>2
  <2> QED
    BY <2>1, <1>3, <1>5, Zenon
<1>7. PICK f : Def(f) /\ FoldLeft(AddLeaf, base, seq) = f[DOMAIN seq]
  <2>1. Def(CHOOSE f : Def(f))
    BY <1>6, Zenon
  <2> QED
    BY <2>1, Zenon DEF FoldLeft, MapThenFoldSet
<1>8. Conditional(f, Len(seq), Nat, Leaves, LeafStep, base, seq)
  BY <1>2, <1>3, <1>7 DEF Conditional
<1> HIDE DEF Def
<1>9. f[1..Len(seq)] = FoldOf(Nat, Leaves, LeafStep, base, seq)
  BY <1>1, <1>8, FoldOfIs
<1> QED
  BY <1>1, <1>3, <1>7, <1>9, Zenon

LEMMA AddParamType ==
  ASSUME NEW size \in Nat, NEW p \in Params
  PROVE  /\ AddParam(size, p) \in Nat
         /\ p.named => AddParam(size, p) = AddLeaf(size, p)
<1>1. p.size \in Nat /\ p.align \in Nat \ {0} /\ p.named \in BOOLEAN /\ ~p.global
  BY VariablesAssumption
<1>2. AlignUp(size, p.align) \in Nat
  BY <1>1, AlignUpIs
<1> QED
  BY <1>1, <1>2 DEF AddParam, AddLeaf

ParamStep == [p \in Nat \X Params |-> AddParam(p[1], p[2])]

LEMMA ParamsFolded ==
  ASSUME NEW seq \in Seq(Params)
  PROVE  /\ Foldable(Nat, Params, ParamStep, 0, seq)
         /\ FoldLeft(AddParam, 0, seq) = FoldOf(Nat, Params, ParamStep, 0, seq)
<1>1. Foldable(Nat, Params, ParamStep, 0, seq)
  BY AddParamType DEF Foldable, Typed, ParamStep
<1>2. \A p \in Nat \X Params : ParamStep[<<p[1], p[2]>>] = AddParam(p[1], p[2])
  BY DEF ParamStep
<1>3. DOMAIN seq = 1..Len(seq) /\ Len(seq) \in Nat
  OBVIOUS
<1>4. PICK g : Folds(g, Len(seq), Nat, Params, ParamStep, 0, seq)
  BY <1>1, FoldOfExists
<1>5. /\ g = [s \in SUBSET (1..Len(seq)) |-> g[s]] /\ g[{}] = 0
      /\ \A s \in SUBSET (1..Len(seq)) : s # {} =>
            /\ <<g[s \ {Max(s)}], seq[Max(s)]>> \in Nat \X Params
            /\ g[s] = ParamStep[<<g[s \ {Max(s)}], seq[Max(s)]>>]
  <2>1. Unfolds(g, Len(seq), Nat, Params, ParamStep, 0, seq)
    BY <1>3, <1>4, FoldsTyped
  <2> QED
    BY <2>1, Zenon DEF Unfolds
<1> DEFINE Def(f) == f = [s \in SUBSET (DOMAIN seq) |->
                            IF s = {} THEN 0 ELSE AddParam(f[s \ {Max(s)}], seq[Max(s)])]
<1>6. Def(g)
  <2>1. ASSUME NEW s \in SUBSET (1..Len(seq))
        PROVE  g[s] = IF s = {} THEN 0 ELSE AddParam(g[s \ {Max(s)}], seq[Max(s)])
    <3>1. CASE s = {}
      BY <1>5, <3>1
    <3>2. CASE s # {}
      BY <1>2, <1>5, <3>2
    <3> QED
      BY <3>1, <3>2
  <2> QED
    BY <2>1, <1>3, <1>5, Zenon
<1>7. PICK f : Def(f) /\ FoldLeft(AddParam, 0, seq) = f[DOMAIN seq]
  <2>1. Def(CHOOSE f : Def(f))
    BY <1>6, Zenon
  <2> QED
    BY <2>1, Zenon DEF FoldLeft, MapThenFoldSet
<1>8. Conditional(f, Len(seq), Nat, Params, ParamStep, 0, seq)
  BY <1>2, <1>3, <1>7 DEF Conditional
<1> HIDE DEF Def
<1>9. f[1..Len(seq)] = FoldOf(Nat, Params, ParamStep, 0, seq)
  BY <1>1, <1>8, FoldOfIs
<1> QED
  BY <1>1, <1>3, <1>7, <1>9, Zenon

LEMMA AddNamedType ==
  ASSUME NEW leaves \in Seq(Params), NEW p \in Params
  PROVE  AddNamed(leaves, p) \in Seq(Params)
BY DEF AddNamed

NamedStep == [p \in Seq(Params) \X Params |-> AddNamed(p[1], p[2])]

LEMMA NamedFolded ==
  ASSUME NEW seq \in Seq(Params)
  PROVE  /\ Foldable(Seq(Params), Params, NamedStep, <<>>, seq)
         /\ FoldLeft(AddNamed, <<>>, seq) = FoldOf(Seq(Params), Params, NamedStep, <<>>, seq)
<1>1. Foldable(Seq(Params), Params, NamedStep, <<>>, seq)
  BY AddNamedType DEF Foldable, Typed, NamedStep
<1>2. \A p \in Seq(Params) \X Params : NamedStep[<<p[1], p[2]>>] = AddNamed(p[1], p[2])
  BY DEF NamedStep
<1>3. DOMAIN seq = 1..Len(seq) /\ Len(seq) \in Nat
  OBVIOUS
<1>4. PICK g : Folds(g, Len(seq), Seq(Params), Params, NamedStep, <<>>, seq)
  BY <1>1, FoldOfExists
<1>5. /\ g = [s \in SUBSET (1..Len(seq)) |-> g[s]] /\ g[{}] = <<>>
      /\ \A s \in SUBSET (1..Len(seq)) : s # {} =>
            /\ <<g[s \ {Max(s)}], seq[Max(s)]>> \in Seq(Params) \X Params
            /\ g[s] = NamedStep[<<g[s \ {Max(s)}], seq[Max(s)]>>]
  <2>1. Unfolds(g, Len(seq), Seq(Params), Params, NamedStep, <<>>, seq)
    BY <1>3, <1>4, FoldsTyped
  <2> QED
    BY <2>1, Zenon DEF Unfolds
<1> DEFINE Def(f) == f = [s \in SUBSET (DOMAIN seq) |->
                            IF s = {} THEN <<>> ELSE AddNamed(f[s \ {Max(s)}], seq[Max(s)])]
<1>6. Def(g)
  <2>1. ASSUME NEW s \in SUBSET (1..Len(seq))
        PROVE  g[s] = IF s = {} THEN <<>> ELSE AddNamed(g[s \ {Max(s)}], seq[Max(s)])
    <3>1. CASE s = {}
      BY <1>5, <3>1
    <3>2. CASE s # {}
      BY <1>2, <1>5, <3>2
    <3> QED
      BY <3>1, <3>2
  <2> QED
    BY <2>1, <1>3, <1>5, Zenon
<1>7. PICK f : Def(f) /\ FoldLeft(AddNamed, <<>>, seq) = f[DOMAIN seq]
  <2>1. Def(CHOOSE f : Def(f))
    BY <1>6, Zenon
  <2> QED
    BY <2>1, Zenon DEF FoldLeft, MapThenFoldSet
<1>8. Conditional(f, Len(seq), Seq(Params), Params, NamedStep, <<>>, seq)
  BY <1>2, <1>3, <1>7 DEF Conditional
<1> HIDE DEF Def
<1>9. f[1..Len(seq)] = FoldOf(Seq(Params), Params, NamedStep, <<>>, seq)
  BY <1>1, <1>8, FoldOfIs
<1> QED
  BY <1>1, <1>3, <1>7, <1>9, Zenon
--------------------------------------------------------------------------------
Kinds == {"int", "float", "stack"}
Class == {"FLOATING", "INTEGER", "MEMORY"}
Register == {"xmm", "int", "stack"} \X Nat
Used(Out) == [params : [Kinds -> Nat], out : Seq(Out)]

LEMMA NoneUsedType ==
  ASSUME NEW Out
  PROVE  NoneUsed \in Used(Out) /\ NoneUsed.out = <<>> /\ \A kind \in Kinds : NoneUsed.params[kind] = 0
BY DEF NoneUsed, Used, Kinds

LEMMA UseIs ==
  ASSUME NEW Out, NEW used \in Used(Out), NEW kind \in Kinds, NEW what \in Out
  PROVE  /\ Use(used, kind, what) \in Used(Out)
         /\ Use(used, kind, what).out = Append(used.out, what)
         /\ Use(used, kind, what).params = [used.params EXCEPT ![kind] = @ + 1]
BY DEF Use, Used

LEMMA ClassifyType ==
  ASSUME NEW used \in Used(Class), NEW float \in BOOLEAN
  PROVE  Classify(used, float) \in Used(Class)
<1>1. \A kind \in Kinds, what \in Class : Use(used, kind, what) \in Used(Class)
  BY UseIs
<1>2. /\ "int" \in Kinds /\ "float" \in Kinds /\ "stack" \in Kinds
      /\ "FLOATING" \in Class /\ "INTEGER" \in Class /\ "MEMORY" \in Class
  BY DEF Kinds, Class
<1> QED
  BY <1>1, <1>2 DEF Classify

ClassStep == [p \in Used(Class) \X BOOLEAN |-> Classify(p[1], p[2])]

LEMMA ClassesFolded ==
  ASSUME NEW seq \in Seq(BOOLEAN)
  PROVE  /\ Foldable(Used(Class), BOOLEAN, ClassStep, NoneUsed, seq)
         /\ FoldLeft(Classify, NoneUsed, seq) = FoldOf(Used(Class), BOOLEAN, ClassStep, NoneUsed, seq)
<1>1. Foldable(Used(Class), BOOLEAN, ClassStep, NoneUsed, seq)
  BY ClassifyType, NoneUsedType DEF Foldable, Typed, ClassStep
<1>2. \A p \in Used(Class) \X BOOLEAN : ClassStep[<<p[1], p[2]>>] = Classify(p[1], p[2])
  BY DEF ClassStep
<1>3. DOMAIN seq = 1..Len(seq) /\ Len(seq) \in Nat
  OBVIOUS
<1>4. PICK g : Folds(g, Len(seq), Used(Class), BOOLEAN, ClassStep, NoneUsed, seq)
  BY <1>1, FoldOfExists
<1>5. /\ g = [s \in SUBSET (1..Len(seq)) |-> g[s]] /\ g[{}] = NoneUsed
      /\ \A s \in SUBSET (1..Len(seq)) : s # {} =>
            /\ <<g[s \ {Max(s)}], seq[Max(s)]>> \in Used(Class) \X BOOLEAN
            /\ g[s] = ClassStep[<<g[s \ {Max(s)}], seq[Max(s)]>>]
  <2>1. Unfolds(g, Len(seq), Used(Class), BOOLEAN, ClassStep, NoneUsed, seq)
    BY <1>3, <1>4, FoldsTyped
  <2> QED
    BY <2>1, Zenon DEF Unfolds
<1> DEFINE Def(f) == f = [s \in SUBSET (DOMAIN seq) |->
                            IF s = {} THEN NoneUsed ELSE Classify(f[s \ {Max(s)}], seq[Max(s)])]
<1>6. Def(g)
  <2>1. ASSUME NEW s \in SUBSET (1..Len(seq))
        PROVE  g[s] = IF s = {} THEN NoneUsed ELSE Classify(g[s \ {Max(s)}], seq[Max(s)])
    <3>1. CASE s = {}
      BY <1>5, <3>1
    <3>2. CASE s # {}
      BY <1>2, <1>5, <3>2
    <3> QED
      BY <3>1, <3>2
  <2> QED
    BY <2>1, <1>3, <1>5, Zenon
<1>7. PICK f : Def(f) /\ FoldLeft(Classify, NoneUsed, seq) = f[DOMAIN seq]
  <2>1. Def(CHOOSE f : Def(f))
    BY <1>6, Zenon
  <2> QED
    BY <2>1, Zenon DEF FoldLeft, MapThenFoldSet
<1>8. Conditional(f, Len(seq), Used(Class), BOOLEAN, ClassStep, NoneUsed, seq)
  BY <1>2, <1>3, <1>7 DEF Conditional
<1> HIDE DEF Def
<1>9. f[1..Len(seq)] = FoldOf(Used(Class), BOOLEAN, ClassStep, NoneUsed, seq)
  BY <1>1, <1>8, FoldOfIs
<1> QED
  BY <1>1, <1>3, <1>7, <1>9, Zenon

LEMMA RegisterIs ==
  ASSUME NEW used \in Used(Register)
  PROVE  /\ Use(used, "float", <<"xmm", used.params["float"]>>) \in Used(Register)
         /\ Use(used, "int", <<"int", used.params["int"]>>) \in Used(Register)
         /\ Use(used, "stack", <<"stack", used.params["stack"]>>) \in Used(Register)
<1>1. "int" \in Kinds /\ "float" \in Kinds /\ "stack" \in Kinds
  BY DEF Kinds
<1>2. used.params["float"] \in Nat /\ used.params["int"] \in Nat /\ used.params["stack"] \in Nat
  BY <1>1 DEF Used
<1>3. /\ <<"xmm", used.params["float"]>> \in Register
      /\ <<"int", used.params["int"]>> \in Register
      /\ <<"stack", used.params["stack"]>> \in Register
  BY <1>2 DEF Register
<1> QED
  BY <1>1, <1>3, UseIs

LEMMA CopyArgType ==
  ASSUME NEW used \in Used(Register), NEW class \in Class
  PROVE  CopyArg(used, class) \in Used(Register)
BY RegisterIs DEF CopyArg

CopyStep == [p \in Used(Register) \X Class |-> CopyArg(p[1], p[2])]

LEMMA CopiesFolded ==
  ASSUME NEW seq \in Seq(Class)
  PROVE  /\ Foldable(Used(Register), Class, CopyStep, NoneUsed, seq)
         /\ FoldLeft(CopyArg, NoneUsed, seq) = FoldOf(Used(Register), Class, CopyStep, NoneUsed, seq)
<1>1. Foldable(Used(Register), Class, CopyStep, NoneUsed, seq)
  BY CopyArgType, NoneUsedType DEF Foldable, Typed, CopyStep
<1>2. \A p \in Used(Register) \X Class : CopyStep[<<p[1], p[2]>>] = CopyArg(p[1], p[2])
  BY DEF CopyStep
<1>3. DOMAIN seq = 1..Len(seq) /\ Len(seq) \in Nat
  OBVIOUS
<1>4. PICK g : Folds(g, Len(seq), Used(Register), Class, CopyStep, NoneUsed, seq)
  BY <1>1, FoldOfExists
<1>5. /\ g = [s \in SUBSET (1..Len(seq)) |-> g[s]] /\ g[{}] = NoneUsed
      /\ \A s \in SUBSET (1..Len(seq)) : s # {} =>
            /\ <<g[s \ {Max(s)}], seq[Max(s)]>> \in Used(Register) \X Class
            /\ g[s] = CopyStep[<<g[s \ {Max(s)}], seq[Max(s)]>>]
  <2>1. Unfolds(g, Len(seq), Used(Register), Class, CopyStep, NoneUsed, seq)
    BY <1>3, <1>4, FoldsTyped
  <2> QED
    BY <2>1, Zenon DEF Unfolds
<1> DEFINE Def(f) == f = [s \in SUBSET (DOMAIN seq) |->
                            IF s = {} THEN NoneUsed ELSE CopyArg(f[s \ {Max(s)}], seq[Max(s)])]
<1>6. Def(g)
  <2>1. ASSUME NEW s \in SUBSET (1..Len(seq))
        PROVE  g[s] = IF s = {} THEN NoneUsed ELSE CopyArg(g[s \ {Max(s)}], seq[Max(s)])
    <3>1. CASE s = {}
      BY <1>5, <3>1
    <3>2. CASE s # {}
      BY <1>2, <1>5, <3>2
    <3> QED
      BY <3>1, <3>2
  <2> QED
    BY <2>1, <1>3, <1>5, Zenon
<1>7. PICK f : Def(f) /\ FoldLeft(CopyArg, NoneUsed, seq) = f[DOMAIN seq]
  <2>1. Def(CHOOSE f : Def(f))
    BY <1>6, Zenon
  <2> QED
    BY <2>1, Zenon DEF FoldLeft, MapThenFoldSet
<1>8. Conditional(f, Len(seq), Used(Register), Class, CopyStep, NoneUsed, seq)
  BY <1>2, <1>3, <1>7 DEF Conditional
<1> HIDE DEF Def
<1>9. f[1..Len(seq)] = FoldOf(Used(Register), Class, CopyStep, NoneUsed, seq)
  BY <1>1, <1>8, FoldOfIs
<1> QED
  BY <1>1, <1>3, <1>7, <1>9, Zenon

LEMMA TakeParamType ==
  ASSUME NEW used \in Used(Register), NEW float \in BOOLEAN
  PROVE  TakeParam(used, float) \in Used(Register)
BY RegisterIs DEF TakeParam

TakeStep == [p \in Used(Register) \X BOOLEAN |-> TakeParam(p[1], p[2])]

LEMMA TakenFolded ==
  ASSUME NEW seq \in Seq(BOOLEAN)
  PROVE  /\ Foldable(Used(Register), BOOLEAN, TakeStep, NoneUsed, seq)
         /\ FoldLeft(TakeParam, NoneUsed, seq) = FoldOf(Used(Register), BOOLEAN, TakeStep, NoneUsed, seq)
<1>1. Foldable(Used(Register), BOOLEAN, TakeStep, NoneUsed, seq)
  BY TakeParamType, NoneUsedType DEF Foldable, Typed, TakeStep
<1>2. \A p \in Used(Register) \X BOOLEAN : TakeStep[<<p[1], p[2]>>] = TakeParam(p[1], p[2])
  BY DEF TakeStep
<1>3. DOMAIN seq = 1..Len(seq) /\ Len(seq) \in Nat
  OBVIOUS
<1>4. PICK g : Folds(g, Len(seq), Used(Register), BOOLEAN, TakeStep, NoneUsed, seq)
  BY <1>1, FoldOfExists
<1>5. /\ g = [s \in SUBSET (1..Len(seq)) |-> g[s]] /\ g[{}] = NoneUsed
      /\ \A s \in SUBSET (1..Len(seq)) : s # {} =>
            /\ <<g[s \ {Max(s)}], seq[Max(s)]>> \in Used(Register) \X BOOLEAN
            /\ g[s] = TakeStep[<<g[s \ {Max(s)}], seq[Max(s)]>>]
  <2>1. Unfolds(g, Len(seq), Used(Register), BOOLEAN, TakeStep, NoneUsed, seq)
    BY <1>3, <1>4, FoldsTyped
  <2> QED
    BY <2>1, Zenon DEF Unfolds
<1> DEFINE Def(f) == f = [s \in SUBSET (DOMAIN seq) |->
                            IF s = {} THEN NoneUsed ELSE TakeParam(f[s \ {Max(s)}], seq[Max(s)])]
<1>6. Def(g)
  <2>1. ASSUME NEW s \in SUBSET (1..Len(seq))
        PROVE  g[s] = IF s = {} THEN NoneUsed ELSE TakeParam(g[s \ {Max(s)}], seq[Max(s)])
    <3>1. CASE s = {}
      BY <1>5, <3>1
    <3>2. CASE s # {}
      BY <1>2, <1>5, <3>2
    <3> QED
      BY <3>1, <3>2
  <2> QED
    BY <2>1, <1>3, <1>5, Zenon
<1>7. PICK f : Def(f) /\ FoldLeft(TakeParam, NoneUsed, seq) = f[DOMAIN seq]
  <2>1. Def(CHOOSE f : Def(f))
    BY <1>6, Zenon
  <2> QED
    BY <2>1, Zenon DEF FoldLeft, MapThenFoldSet
<1>8. Conditional(f, Len(seq), Used(Register), BOOLEAN, TakeStep, NoneUsed, seq)
  BY <1>2, <1>3, <1>7 DEF Conditional
<1> HIDE DEF Def
<1>9. f[1..Len(seq)] = FoldOf(Used(Register), BOOLEAN, TakeStep, NoneUsed, seq)
  BY <1>1, <1>8, FoldOfIs
<1> QED
  BY <1>1, <1>3, <1>7, <1>9, Zenon
--------------------------------------------------------------------------------
(* The end of the k-th leaf of a block that begins at base. *)
LeafEnd(base, seq, k) == FoldLeft(AddLeaf, base, SubSeq(seq, 1, k))

LEMMA LeafEnds ==
  ASSUME NEW base \in Nat, NEW seq \in Seq(Leaves)
  PROVE  /\ LeafEnd(base, seq, 0) = base
         /\ LeafEnd(base, seq, Len(seq)) = FoldLeft(AddLeaf, base, seq)
         /\ \A k \in 0..Len(seq) : LeafEnd(base, seq, k) \in Nat
         /\ \A k \in 1..Len(seq) : LeafEnd(base, seq, k) = AddLeaf(LeafEnd(base, seq, k - 1), seq[k])
<1> DEFINE F(s) == FoldOf(Nat, Leaves, LeafStep, base, s)
<1>1. Foldable(Nat, Leaves, LeafStep, base, seq)
  BY LeavesFolded
<1>2. \A k \in 0..Len(seq) : SubSeq(seq, 1, k) \in Seq(Leaves)
  OBVIOUS
<1>3. \A k \in 0..Len(seq) : LeafEnd(base, seq, k) = F(SubSeq(seq, 1, k))
  BY <1>2, LeavesFolded DEF LeafEnd
<1>4. /\ F(<<>>) = base
      /\ \A k \in 0..Len(seq) : F(SubSeq(seq, 1, k)) \in Nat
      /\ \A k \in 1..Len(seq) : F(SubSeq(seq, 1, k)) = LeafStep[<<F(SubSeq(seq, 1, k - 1)), seq[k]>>]
  <2>1. Unrolls(Nat, Leaves, LeafStep, base, seq)
    BY <1>1, FoldOfNext
  <2> QED
    BY <2>1, Zenon DEF Unrolls
<1> HIDE DEF F
<1>5. 0 \in 0..Len(seq) /\ SubSeq(seq, 1, 0) = <<>> /\ SubSeq(seq, 1, Len(seq)) = seq
  OBVIOUS
<1>6. ASSUME NEW k \in 1..Len(seq)
      PROVE  LeafEnd(base, seq, k) = AddLeaf(LeafEnd(base, seq, k - 1), seq[k])
  <2>1. k \in 0..Len(seq) /\ k - 1 \in 0..Len(seq) /\ seq[k] \in Leaves
    OBVIOUS
  <2>2. LeafEnd(base, seq, k) = LeafStep[<<LeafEnd(base, seq, k - 1), seq[k]>>]
    BY <1>3, <1>4, <2>1
  <2>3. LeafEnd(base, seq, k - 1) \in Nat
    BY <1>3, <1>4, <2>1
  <2> QED
    BY <2>1, <2>2, <2>3 DEF LeafStep
<1>7. LeafEnd(base, seq, 0) = base
  BY <1>3, <1>4, <1>5
<1>8. LeafEnd(base, seq, Len(seq)) = FoldLeft(AddLeaf, base, seq)
  BY <1>5 DEF LeafEnd
<1> QED
  BY <1>3, <1>4, <1>6, <1>7, <1>8

LEMMA LeavesFollow ==
  ASSUME NEW base \in Nat, NEW seq \in Seq(Leaves), NEW j \in 0..Len(seq), NEW k \in 0..Len(seq), j <= k
  PROVE  LeafEnd(base, seq, j) <= LeafEnd(base, seq, k)
<1> DEFINE L(i) == LeafEnd(base, seq, i)
           Reach == {d \in 0..(k - j) : L(j) <= L(j + d)}
<1>1. \A i \in 0..Len(seq) : L(i) \in Nat
  BY LeafEnds
<1>2. \A i \in 1..Len(seq) : L(i) >= L(i - 1)
  <2>1. ASSUME NEW i \in 1..Len(seq)
        PROVE  L(i) >= L(i - 1)
    <3>1. i - 1 \in 0..Len(seq) /\ seq[i] \in Leaves
      OBVIOUS
    <3>2. L(i - 1) \in Nat /\ L(i) = AddLeaf(L(i - 1), seq[i])
      BY <3>1, <1>1, LeafEnds
    <3> HIDE DEF L
    <3> QED
      BY <3>1, <3>2, AddLeafType
  <2> QED
    BY <2>1
<1> HIDE DEF L
<1>3. 0 \in Reach
  <2>1. j + 0 = j /\ 0 \in 0..(k - j) /\ L(j) \in Nat
    BY <1>1
  <2> QED
    BY <2>1
<1>4. ASSUME NEW d \in 0..((k - j) - 1), d \in Reach
      PROVE  d + 1 \in Reach
  <2>1. /\ j + (d + 1) \in 1..Len(seq) /\ (j + (d + 1)) - 1 = j + d /\ d + 1 \in 0..(k - j)
        /\ j + d \in 0..Len(seq) /\ j + (d + 1) \in 0..Len(seq)
    OBVIOUS
  <2>2. L(j + (d + 1)) >= L(j + d)
    BY <2>1, <1>2
  <2>3. L(j) \in Nat /\ L(j + d) \in Nat /\ L(j + (d + 1)) \in Nat /\ L(j) <= L(j + d)
    BY <2>1, <1>1, <1>4
  <2> QED
    BY <2>1, <2>2, <2>3
<1> HIDE DEF Reach
<1>5. k - j \in Nat /\ k - j \in 0..(k - j) /\ j + (k - j) = k
  OBVIOUS
<1>6. \A d \in 0..(k - j) : d \in Reach
  BY <1>3, <1>4, <1>5, UpToAny
<1> QED
  BY <1>5, <1>6 DEF Reach, L

LEMMA Multiples ==
  ASSUME NEW s \in Nat, NEW t \in Nat, NEW a \in Nat \ {0}, s % a = 0, t % a = 0
  PROVE  (s + t) % a = 0
<1>1. s = a * (s \div a) /\ s \div a \in Nat
  OBVIOUS
<1>2. t = a * (t \div a) /\ t \div a \in Nat
  OBVIOUS
<1> DEFINE q == s \div a
           p == t \div a
<1>3. s + t = a * (q + p) /\ q + p \in Nat
  BY <1>1, <1>2
<1> HIDE DEF q, p
<1>4. (a * (q + p)) % a = 0
  BY <1>3
<1> QED
  BY <1>3, <1>4

(* A variable that takes room lies behind the leaves before it. *)
LEMMA LeafPlaced ==
  ASSUME NEW base \in Nat, NEW seq \in Seq(Leaves), NEW k \in 1..Len(seq), seq[k].named, ~seq[k].global
  PROVE  /\ LeafEnd(base, seq, k) % seq[k].align = 0
         /\ LeafEnd(base, seq, k) - seq[k].size >= LeafEnd(base, seq, k - 1)
         /\ seq[k].size \in Nat
<1> DEFINE v == seq[k]
           e == LeafEnd(base, seq, k - 1)
           up == AlignUp(e, v.align)
<1>1. v \in Leaves /\ k - 1 \in 0..Len(seq)
  OBVIOUS
<1>2. v.size \in Nat /\ v.align \in Nat \ {0} /\ v.size % v.align = 0
  BY <1>1, VariablesAssumption DEF Leaves
<1>3. e \in Nat /\ LeafEnd(base, seq, k) = AddLeaf(e, v)
  BY <1>1, LeafEnds
<1> HIDE DEF e
<1>4. AddLeaf(e, v) = up + v.size
  BY DEF AddLeaf
<1> HIDE DEF v
<1>5. up \in Nat /\ up >= e /\ up % v.align = 0
  BY <1>2, <1>3, AlignUpIs
<1> HIDE DEF up
<1>6. (up + v.size) % v.align = 0
  BY <1>2, <1>5, Multiples
<1> QED
  BY <1>2, <1>3, <1>4, <1>5, <1>6 DEF v, e
--------------------------------------------------------------------------------
(* Every block but the first is inside one before it. *)
Block == [up : Nat, vars : Seq(Leaves)]
Nested(blocks) ==
  /\ blocks \in Seq(Block) /\ Len(blocks) >= 1
  /\ \A b \in 2..Len(blocks) : blocks[b].up \in 1..(b - 1)

LEMMA NestedType ==
  ASSUME NEW blocks, Nested(blocks)
  PROVE  /\ Len(blocks) \in Nat /\ DOMAIN blocks = 1..Len(blocks) /\ 1 \in DOMAIN blocks
         /\ \A b \in DOMAIN blocks : blocks[b].vars \in Seq(Leaves)
         /\ \A b \in DOMAIN blocks : b # 1 => b - 1 \in Nat /\ blocks[b].up \in 1..(b - 1)
<1>1. \A b \in DOMAIN blocks : blocks[b] \in Block
  BY DEF Nested
<1> QED
  BY <1>1 DEF Nested, Block

(* What FoldLeft makes of the leaves of a block is a number. *)
LEMMA BlockAdded ==
  ASSUME NEW blocks, Nested(blocks), NEW b \in DOMAIN blocks, NEW base \in Nat
  PROVE  FoldLeft(AddLeaf, base, blocks[b].vars) \in Nat
<1> DEFINE seq == blocks[b].vars
<1>1. seq \in Seq(Leaves)
  BY NestedType
<1> HIDE DEF seq
<1>2. Len(seq) \in 0..Len(seq)
  BY <1>1
<1>3. LeafEnd(base, seq, Len(seq)) \in Nat /\ LeafEnd(base, seq, Len(seq)) = FoldLeft(AddLeaf, base, seq)
  BY <1>1, <1>2, LeafEnds
<1> QED
  BY <1>3 DEF seq

(* Where a block begins. *)
BlockBase(blocks, b) == IF b = 1 THEN 0 ELSE BlockEnds(blocks)[blocks[b].up]

Ending(e, blocks, n) ==
  \A b \in 1..n : e[b] = FoldLeft(AddLeaf, IF b = 1 THEN 0 ELSE e[blocks[b].up], blocks[b].vars)

LEMMA EndingExists ==
  ASSUME NEW blocks, Nested(blocks)
  PROVE  \E e : e = [b \in DOMAIN blocks |-> e[b]] /\ Ending(e, blocks, Len(blocks))
<1> DEFINE n == Len(blocks)
           Reach == {k \in 0..n : \E e : e = [b \in 1..k |-> e[b]] /\ Ending(e, blocks, k)}
<1>1. n \in Nat /\ DOMAIN blocks = 1..n
  BY NestedType
<1>2. 0 \in Reach
  <2> DEFINE e == [b \in 1..0 |-> 0]
  <2>1. e = [b \in 1..0 |-> e[b]]
    OBVIOUS
  <2>2. Ending(e, blocks, 0)
    BY DEF Ending
  <2>3. 0 \in 0..n
    BY <1>1
  <2> HIDE DEF e
  <2> QED
    BY <2>1, <2>2, <2>3
<1> HIDE DEF n
<1>3. ASSUME NEW k \in 0..(n - 1), k \in Reach
      PROVE  k + 1 \in Reach
  <2>1. PICK e : e = [b \in 1..k |-> e[b]] /\ Ending(e, blocks, k)
    BY <1>3
  <2>2. k + 1 \in 1..n /\ k + 1 \in 0..n /\ k \in Nat
    BY <1>1
  <2> DEFINE base == IF k + 1 = 1 THEN 0 ELSE e[blocks[k + 1].up]
             h == [b \in 1..(k + 1) |-> IF b \in 1..k THEN e[b]
                                        ELSE FoldLeft(AddLeaf, base, blocks[k + 1].vars)]
  <2>3. \A b \in 2..(k + 1) : blocks[b].up \in 1..(b - 1) /\ blocks[b].up \in 1..k /\ blocks[b].up \in 1..(k + 1)
    <3>1. \A b \in 2..(k + 1) : b \in 2..n
      BY <1>1, <2>2
    <3>2. \A b \in 2..(k + 1) : blocks[b].up \in 1..(b - 1)
      BY <3>1 DEF Nested, n
    <3> QED
      BY <3>2, <2>2
  <2>4. \A b \in 1..k : b \in 1..(k + 1) /\ h[b] = e[b]
    BY <2>2
  <2>5. k + 1 \in 1..(k + 1) /\ k + 1 \notin 1..k
    BY <2>2
  <2>6. h[k + 1] = FoldLeft(AddLeaf, base, blocks[k + 1].vars)
    BY <2>5, Zenon
  <2>7. h = [b \in 1..(k + 1) |-> h[b]]
    OBVIOUS
  <2> HIDE DEF h
  <2>8. ASSUME NEW b \in 1..(k + 1)
        PROVE  h[b] = FoldLeft(AddLeaf, IF b = 1 THEN 0 ELSE h[blocks[b].up], blocks[b].vars)
    <3>1. b # 1 => h[blocks[b].up] = e[blocks[b].up]
      BY <2>2, <2>3, <2>4
    <3>2. (IF b = 1 THEN 0 ELSE h[blocks[b].up]) = (IF b = 1 THEN 0 ELSE e[blocks[b].up])
      BY <3>1
    <3>3. CASE b \in 1..k
      <4>1. e[b] = FoldLeft(AddLeaf, IF b = 1 THEN 0 ELSE e[blocks[b].up], blocks[b].vars)
        BY <2>1, <3>3, Zenon DEF Ending
      <4> QED
        BY <2>4, <3>2, <3>3, <4>1, Zenon
    <3>4. CASE b = k + 1
      BY <2>6, <3>2, <3>4, Zenon
    <3> QED
      BY <3>3, <3>4, <2>2
  <2>9. Ending(h, blocks, k + 1)
    BY <2>8, Zenon DEF Ending
  <2> QED
    BY <2>2, <2>7, <2>9, Zenon
<1> HIDE DEF Reach
<1>4. \A k \in 0..n : k \in Reach
  BY <1>1, <1>2, <1>3, UpToAny
<1>5. n \in Reach
  BY <1>1, <1>4
<1>6. \E e : e = [b \in 1..n |-> e[b]] /\ Ending(e, blocks, n)
  BY <1>5, Zenon DEF Reach
<1> QED
  BY <1>1, <1>6, Zenon DEF n

(* BlockEnds is as its definition says. *)
LEMMA BlockEndsAre ==
  ASSUME NEW blocks, Nested(blocks), NEW b \in DOMAIN blocks
  PROVE  BlockEnds(blocks)[b] = FoldLeft(AddLeaf, BlockBase(blocks, b), blocks[b].vars)
<1> DEFINE Def(e) == e = [c \in DOMAIN blocks |->
                            FoldLeft(AddLeaf, IF c = 1 THEN 0 ELSE e[blocks[c].up], blocks[c].vars)]
<1>1. DOMAIN blocks = 1..Len(blocks)
  BY NestedType
<1>2. \E e : Def(e)
  <2>1. PICK e : e = [c \in DOMAIN blocks |-> e[c]] /\ Ending(e, blocks, Len(blocks))
    BY EndingExists
  <2>2. Def(e)
    BY <1>1, <2>1, Zenon DEF Ending
  <2> QED
    BY <2>2, Zenon
<1>3. Def(CHOOSE e : Def(e))
  BY <1>2, Zenon
<1>4. Def(BlockEnds(blocks))
  BY <1>3, Zenon DEF BlockEnds
<1>5. \A e : Def(e) =>
        e[b] = FoldLeft(AddLeaf, IF b = 1 THEN 0 ELSE e[blocks[b].up], blocks[b].vars)
  BY Zenon
<1> HIDE DEF Def
<1> QED
  BY <1>4, <1>5, Zenon DEF BlockBase

(* Induction over blocks: each one follows from those before it. *)
LEMMA BlocksBefore ==
  ASSUME NEW n \in Nat, NEW S, \A b \in 1..n : (\A c \in 1..(b - 1) : c \in S) => b \in S
  PROVE  \A b \in 1..n : b \in S
<1> DEFINE Reach == {k \in 0..n : \A b \in 1..k : b \in S}
<1>1. 0 \in Reach
  OBVIOUS
<1>2. ASSUME NEW k \in 0..(n - 1), k \in Reach
      PROVE  k + 1 \in Reach
  <2>1. k + 1 \in 1..n /\ (k + 1) - 1 = k /\ k + 1 \in 0..n
    OBVIOUS
  <2>2. k + 1 \in S
    BY <1>2, <2>1
  <2>3. \A b \in 1..(k + 1) : b \in 1..k \/ b = k + 1
    OBVIOUS
  <2> QED
    BY <1>2, <2>1, <2>2, <2>3
<1> HIDE DEF Reach
<1>3. \A k \in 0..n : k \in Reach
  BY <1>1, <1>2, UpToAny
<1>4. n \in Reach
  BY <1>3
<1> QED
  BY <1>4 DEF Reach

LEMMA BlockEndsType ==
  ASSUME NEW blocks, Nested(blocks)
  PROVE  \A b \in DOMAIN blocks : BlockEnds(blocks)[b] \in Nat /\ BlockBase(blocks, b) \in Nat
<1> DEFINE S == {b \in DOMAIN blocks : BlockEnds(blocks)[b] \in Nat}
<1>1. Len(blocks) \in Nat /\ DOMAIN blocks = 1..Len(blocks)
  BY NestedType
<1>2. ASSUME NEW b \in 1..Len(blocks), \A c \in 1..(b - 1) : c \in S
      PROVE  BlockBase(blocks, b) \in Nat /\ b \in S
  <2>1. BlockBase(blocks, b) \in Nat
    <3>1. CASE b = 1
      BY <3>1 DEF BlockBase
    <3>2. CASE b # 1
      <4>1. blocks[b].up \in S
        BY <1>1, <1>2, <3>2, NestedType
      <4> QED
        BY <3>2, <4>1 DEF BlockBase
    <3> QED
      BY <3>1, <3>2
  <2>2. BlockEnds(blocks)[b] \in Nat
    <3>1. b \in DOMAIN blocks
      BY <1>1
    <3> QED
      BY <2>1, <3>1, BlockAdded, BlockEndsAre
  <2> QED
    BY <1>1, <2>1, <2>2
<1> HIDE DEF S
<1>3. \A b \in 1..Len(blocks) : b \in S
  BY <1>1, <1>2, BlocksBefore
<1>4. ASSUME NEW b \in 1..Len(blocks)
      PROVE  BlockBase(blocks, b) \in Nat
  <2>1. \A c \in 1..(b - 1) : c \in 1..Len(blocks)
    BY <1>1
  <2> QED
    BY <1>2, <1>3, <2>1
<1> QED
  BY <1>1, <1>3, <1>4 DEF S

Surrounding(e, blocks, n) ==
  \A b \in 1..n : e[b] = {b} \union (IF b = 1 THEN {} ELSE e[blocks[b].up])

LEMMA SurroundingExists ==
  ASSUME NEW blocks, Nested(blocks)
  PROVE  \E e : e = [b \in DOMAIN blocks |-> e[b]] /\ Surrounding(e, blocks, Len(blocks))
<1> DEFINE n == Len(blocks)
           Reach == {k \in 0..n : \E e : e = [b \in 1..k |-> e[b]] /\ Surrounding(e, blocks, k)}
<1>1. n \in Nat /\ DOMAIN blocks = 1..n
  BY NestedType
<1>2. 0 \in Reach
  <2> DEFINE e == [b \in 1..0 |-> {}]
  <2>1. e = [b \in 1..0 |-> e[b]]
    OBVIOUS
  <2>2. Surrounding(e, blocks, 0)
    BY DEF Surrounding
  <2>3. 0 \in 0..n
    BY <1>1
  <2> HIDE DEF e
  <2> QED
    BY <2>1, <2>2, <2>3
<1> HIDE DEF n
<1>3. ASSUME NEW k \in 0..(n - 1), k \in Reach
      PROVE  k + 1 \in Reach
  <2>1. PICK e : e = [b \in 1..k |-> e[b]] /\ Surrounding(e, blocks, k)
    BY <1>3
  <2>2. k + 1 \in 1..n /\ k + 1 \in 0..n /\ k \in Nat
    BY <1>1
  <2> DEFINE out == IF k + 1 = 1 THEN {} ELSE e[blocks[k + 1].up]
             h == [b \in 1..(k + 1) |-> IF b \in 1..k THEN e[b] ELSE {k + 1} \union out]
  <2>3. \A b \in 2..(k + 1) : blocks[b].up \in 1..k
    <3>1. \A b \in 2..(k + 1) : b \in 2..n
      BY <1>1, <2>2
    <3>2. \A b \in 2..(k + 1) : blocks[b].up \in 1..(b - 1)
      BY <3>1 DEF Nested, n
    <3> QED
      BY <3>2, <2>2
  <2>4. \A b \in 1..k : h[b] = e[b]
    BY <2>2
  <2>5. k + 1 \in 1..(k + 1) /\ k + 1 \notin 1..k
    BY <2>2
  <2>6. h[k + 1] = {k + 1} \union out
    BY <2>5, Zenon
  <2>7. h = [b \in 1..(k + 1) |-> h[b]]
    OBVIOUS
  <2> HIDE DEF h
  <2>8. ASSUME NEW b \in 1..(k + 1)
        PROVE  h[b] = {b} \union (IF b = 1 THEN {} ELSE h[blocks[b].up])
    <3>1. b # 1 => h[blocks[b].up] = e[blocks[b].up]
      BY <2>2, <2>3, <2>4
    <3>2. (IF b = 1 THEN {} ELSE h[blocks[b].up]) = (IF b = 1 THEN {} ELSE e[blocks[b].up])
      BY <3>1
    <3>3. CASE b \in 1..k
      <4>1. e[b] = {b} \union (IF b = 1 THEN {} ELSE e[blocks[b].up])
        BY <2>1, <3>3, Zenon DEF Surrounding
      <4> QED
        BY <2>4, <3>2, <3>3, <4>1, Zenon
    <3>4. CASE b = k + 1
      BY <2>6, <3>2, <3>4, Zenon
    <3> QED
      BY <3>3, <3>4, <2>2
  <2>9. Surrounding(h, blocks, k + 1)
    BY <2>8, Zenon DEF Surrounding
  <2> QED
    BY <2>2, <2>7, <2>9, Zenon
<1> HIDE DEF Reach
<1>4. \A k \in 0..n : k \in Reach
  BY <1>1, <1>2, <1>3, UpToAny
<1>5. n \in Reach
  BY <1>1, <1>4
<1>6. \E e : e = [b \in 1..n |-> e[b]] /\ Surrounding(e, blocks, n)
  BY <1>5, Zenon DEF Reach
<1> QED
  BY <1>1, <1>6, Zenon DEF n

(* So is Around. *)
LEMMA AroundIs ==
  ASSUME NEW blocks, Nested(blocks), NEW b \in DOMAIN blocks
  PROVE  Around(blocks, b) = {b} \union (IF b = 1 THEN {} ELSE Around(blocks, blocks[b].up))
<1> DEFINE Def(e) == e = [c \in DOMAIN blocks |->
                            {c} \union (IF c = 1 THEN {} ELSE e[blocks[c].up])]
<1>1. DOMAIN blocks = 1..Len(blocks)
  BY NestedType
<1>2. \E e : Def(e)
  <2>1. PICK e : e = [c \in DOMAIN blocks |-> e[c]] /\ Surrounding(e, blocks, Len(blocks))
    BY SurroundingExists
  <2>2. Def(e)
    BY <1>1, <2>1, Zenon DEF Surrounding
  <2> QED
    BY <2>2, Zenon
<1> DEFINE around == CHOOSE e : Def(e)
<1>3. Def(around)
  BY <1>2, Zenon
<1>4. \A c : Around(blocks, c) = around[c]
  BY Zenon DEF Around
<1>5. \A e : Def(e) => e[b] = {b} \union (IF b = 1 THEN {} ELSE e[blocks[b].up])
  BY Zenon
<1> HIDE DEF Def, around
<1> QED
  BY <1>3, <1>4, <1>5, Zenon

(* A block begins where those around it end, or above. *)
LEMMA AroundEnds ==
  ASSUME NEW blocks, Nested(blocks)
  PROVE  \A b \in DOMAIN blocks : \A a \in Around(blocks, b) :
            a \in DOMAIN blocks /\ (a # b => BlockEnds(blocks)[a] <= BlockBase(blocks, b))
<1> DEFINE EndsBelow(a, b) == a \in DOMAIN blocks /\ (a # b => BlockEnds(blocks)[a] <= BlockBase(blocks, b))
           S == {b \in DOMAIN blocks : \A a \in Around(blocks, b) : EndsBelow(a, b)}
<1>1. Len(blocks) \in Nat /\ DOMAIN blocks = 1..Len(blocks)
  BY NestedType
<1>2. ASSUME NEW b \in 1..Len(blocks), \A c \in 1..(b - 1) : c \in S
      PROVE  b \in S
  <2>1. b \in DOMAIN blocks
    BY <1>1
  <2>2. CASE b = 1
    <3>1. Around(blocks, b) = {b}
      BY <2>1, <2>2, AroundIs
    <3> QED
      BY <2>1, <3>1
  <2>3. CASE b # 1
    <3> DEFINE u == blocks[b].up
    <3>1. u \in 1..(b - 1) /\ u \in DOMAIN blocks
      BY <1>1, <2>1, <2>3, NestedType
    <3>2. Around(blocks, b) = {b} \union Around(blocks, u)
      BY <2>1, <2>3, AroundIs
    <3>3. \A a \in Around(blocks, u) : EndsBelow(a, u)
      BY <1>2, <3>1
    <3>4. BlockBase(blocks, b) = BlockEnds(blocks)[u]
      BY <2>3 DEF BlockBase
    <3> HIDE DEF u
    <3>5. BlockBase(blocks, u) \in Nat /\ BlockEnds(blocks)[u] \in Nat
      BY <3>1, BlockEndsType
    <3>6. BlockBase(blocks, u) <= BlockEnds(blocks)[u]
      <4> DEFINE seq == blocks[u].vars
                 base == BlockBase(blocks, u)
      <4>1. seq \in Seq(Leaves)
        BY <3>1, NestedType
      <4>2. BlockEnds(blocks)[u] = FoldLeft(AddLeaf, base, seq)
        BY <3>1, BlockEndsAre
      <4> HIDE DEF seq, base
      <4>3. base \in Nat
        BY <3>5 DEF base
      <4>4. 0 \in 0..Len(seq) /\ Len(seq) \in 0..Len(seq) /\ 0 <= Len(seq)
        BY <4>1
      <4>5. LeafEnd(base, seq, 0) <= LeafEnd(base, seq, Len(seq))
        BY <4>1, <4>3, <4>4, LeavesFollow
      <4>6. LeafEnd(base, seq, 0) = base /\ LeafEnd(base, seq, Len(seq)) = FoldLeft(AddLeaf, base, seq)
        BY <4>1, <4>3, LeafEnds
      <4> QED
        BY <4>2, <4>5, <4>6 DEF base
    <3>7. ASSUME NEW a \in Around(blocks, b)
          PROVE  EndsBelow(a, b)
      <4>1. CASE a = b
        BY <2>1, <4>1
      <4>2. CASE a # b
        <5>1. EndsBelow(a, u)
          BY <3>2, <3>3, <4>2
        <5>2. BlockEnds(blocks)[a] \in Nat
          BY <5>1, BlockEndsType
        <5>3. CASE a = u
          BY <3>4, <3>5, <5>1, <5>3
        <5>4. CASE a # u
          BY <3>4, <3>5, <3>6, <5>1, <5>2, <5>4
        <5> QED
          BY <5>3, <5>4
      <4> QED
        BY <4>1, <4>2
    <3> QED
      BY <2>1, <3>7
  <2> QED
    BY <2>2, <2>3
<1> HIDE DEF S
<1>3. \A b \in 1..Len(blocks) : b \in S
  BY <1>1, <1>2, BlocksBefore
<1> QED
  BY <1>1, <1>3 DEF S

LEMMA FrameHoldsBlocks ==
  ASSUME NEW blocks, Nested(blocks)
  PROVE  /\ FrameSize(blocks) \in Nat
         /\ \A b \in DOMAIN blocks : BlockEnds(blocks)[b] <= FrameSize(blocks)
<1> DEFINE n == Len(blocks)
           E(b) == BlockEnds(blocks)[b]
           Reach == {k \in 0..(n - 1) : \E m \in 1..(k + 1) : \A b \in 1..(k + 1) : E(b) <= E(m)}
<1>1. n \in Nat \ {0} /\ n - 1 \in Nat /\ DOMAIN blocks = 1..n
  BY NestedType
<1>2. \A b \in 1..n : E(b) \in Nat
  BY <1>1, BlockEndsType
<1> HIDE DEF n, E
<1>3. 0 \in Reach
  <2>1. 1 \in 1..(0 + 1) /\ \A b \in 1..(0 + 1) : b = 1
    OBVIOUS
  <2>2. E(1) <= E(1)
    BY <1>1, <1>2
  <2>3. 0 \in 0..(n - 1)
    BY <1>1
  <2> QED
    BY <2>1, <2>2, <2>3
<1>4. ASSUME NEW k \in 0..((n - 1) - 1), k \in Reach
      PROVE  k + 1 \in Reach
  <2>1. PICK m \in 1..(k + 1) : \A b \in 1..(k + 1) : E(b) <= E(m)
    BY <1>4
  <2> DEFINE l == (k + 1) + 1
  <2>2. l \in 1..n /\ l \in 1..l /\ m \in 1..l /\ m \in 1..n /\ \A b \in 1..l : b \in 1..n /\ (b \in 1..(k + 1) \/ b = l)
    BY <1>1
  <2>3. k + 1 \in 0..(n - 1)
    BY <1>1
  <2> HIDE DEF l
  <2>4. CASE E(l) <= E(m)
    <3>1. \A b \in 1..l : E(b) <= E(m)
      BY <2>1, <2>2, <2>4
    <3> QED
      BY <2>2, <2>3, <3>1 DEF l
  <2>5. CASE ~(E(l) <= E(m))
    <3>1. ASSUME NEW b \in 1..l
          PROVE  E(b) <= E(l)
      <4>1. E(b) \in Nat /\ E(l) \in Nat /\ E(m) \in Nat
        BY <1>2, <2>2
      <4>2. b = l \/ E(b) <= E(m)
        BY <2>1, <2>2
      <4> QED
        BY <2>5, <4>1, <4>2
    <3> QED
      BY <2>2, <2>3, <3>1 DEF l
  <2> QED
    BY <2>4, <2>5
<1> HIDE DEF Reach
<1>5. \A k \in 0..(n - 1) : k \in Reach
  BY <1>1, <1>3, <1>4, UpToAny
<1>6. n - 1 \in 0..(n - 1) /\ (n - 1) + 1 = n
  BY <1>1
<1>7. PICK m \in 1..n : \A b \in 1..n : E(b) <= E(m)
  BY <1>5, <1>6 DEF Reach
<1> DEFINE S == {BlockEnds(blocks)[b] : b \in DOMAIN blocks}
<1>8. S = {E(b) : b \in 1..n}
  BY <1>1 DEF E
<1>9. S \in SUBSET Nat /\ E(m) \in S /\ \A i \in S : i <= E(m)
  BY <1>2, <1>7, <1>8
<1> HIDE DEF S
<1>10. Max(S) = E(m)
  BY <1>9, HighestOf
<1> QED
  BY <1>1, <1>2, <1>7, <1>10 DEF S, E, FrameSize

LEMMA OffsetIs ==
  ASSUME NEW blocks, NEW b, NEW i
  PROVE  Offset(blocks, b, i) = LeafEnd(BlockBase(blocks, b), blocks[b].vars, i)
BY DEF Offset, LeafEnd, BlockBase

(* What FrameSound says of the blocks of a function. *)
Apart(blocks, v, w) ==
  Bytes(blocks, v[1], v[2]) \intersect Bytes(blocks, w[1], w[2]) = {}

LEMMA LocalIs ==
  ASSUME NEW blocks, Nested(blocks), NEW v \in Locals(blocks)
  PROVE  LET b    == v[1]
             seq  == blocks[b].vars
             base == BlockBase(blocks, b)
         IN  /\ b \in DOMAIN blocks /\ v[2] \in 1..Len(seq) /\ seq \in Seq(Leaves) /\ base \in Nat
             /\ v = <<b, v[2]>>
             /\ Offset(blocks, b, v[2]) \in Nat /\ seq[v[2]].size \in Nat
             /\ Offset(blocks, b, v[2]) % seq[v[2]].align = 0
             /\ Offset(blocks, b, v[2]) - seq[v[2]].size >= LeafEnd(base, seq, v[2] - 1)
             /\ Offset(blocks, b, v[2]) - seq[v[2]].size >= base
             /\ Offset(blocks, b, v[2]) <= BlockEnds(blocks)[b]
<1> DEFINE b == v[1]
           i == v[2]
           seq == blocks[b].vars
           base == BlockBase(blocks, b)
<1>1. b \in DOMAIN blocks /\ i \in DOMAIN seq /\ seq[i].named /\ ~seq[i].global /\ v = <<b, i>>
  <2> DEFINE all == 1..Max({Len(blocks[c].vars) : c \in DOMAIN blocks})
  <2>1. v \in (DOMAIN blocks) \X all
    BY DEF Locals
  <2>2. i \in DOMAIN seq /\ seq[i].named /\ ~seq[i].global
    BY Zenon DEF Locals
  <2> HIDE DEF all
  <2> QED
    BY <2>1, <2>2
<1>2. seq \in Seq(Leaves) /\ base \in Nat
  BY <1>1, NestedType, BlockEndsType
<1>3. Offset(blocks, b, i) = LeafEnd(base, seq, i) /\ BlockEnds(blocks)[b] = FoldLeft(AddLeaf, base, seq)
  BY <1>1, OffsetIs, BlockEndsAre
<1> HIDE DEF b, i, seq, base
<1>4. i \in 1..Len(seq) /\ i \in 0..Len(seq) /\ i - 1 \in 0..Len(seq) /\ 0 \in 0..Len(seq) /\ Len(seq) \in 0..Len(seq)
      /\ 0 <= i - 1 /\ i <= Len(seq)
  BY <1>1, <1>2
<1>5. /\ LeafEnd(base, seq, i) % seq[i].align = 0
      /\ LeafEnd(base, seq, i) - seq[i].size >= LeafEnd(base, seq, i - 1)
      /\ seq[i].size \in Nat
  BY <1>1, <1>2, <1>4, LeafPlaced
<1>6. /\ LeafEnd(base, seq, i) \in Nat /\ LeafEnd(base, seq, i - 1) \in Nat
      /\ LeafEnd(base, seq, 0) = base
      /\ LeafEnd(base, seq, Len(seq)) = FoldLeft(AddLeaf, base, seq)
  BY <1>2, <1>4, LeafEnds
<1>7. LeafEnd(base, seq, 0) <= LeafEnd(base, seq, i - 1)
  BY <1>2, <1>4, LeavesFollow
<1>8. LeafEnd(base, seq, i) <= LeafEnd(base, seq, Len(seq))
  BY <1>2, <1>4, LeavesFollow
<1>9. LeafEnd(base, seq, i) - seq[i].size >= base
  BY <1>2, <1>5, <1>6, <1>7
<1> QED
  BY <1>1, <1>2, <1>3, <1>4, <1>5, <1>6, <1>8, <1>9 DEF b, i, seq, base

LEMMA LocalsApart ==
  ASSUME NEW blocks, Nested(blocks), NEW v \in Locals(blocks), NEW w \in Locals(blocks) \ {v},
         w[1] \in Around(blocks, v[1])
  PROVE  Apart(blocks, v, w)
<1> DEFINE b == v[1]
           c == w[1]
           i == v[2]
           k == w[2]
           p == Offset(blocks, b, i)
           q == Offset(blocks, c, k)
           m == blocks[b].vars[i].size
           n == blocks[c].vars[k].size
           base == BlockBase(blocks, b)
           seq == blocks[b].vars
<1>1. /\ b \in DOMAIN blocks /\ i \in 1..Len(seq) /\ seq \in Seq(Leaves) /\ base \in Nat /\ v = <<b, i>>
      /\ p \in Nat /\ m \in Nat /\ p - m >= LeafEnd(base, seq, i - 1) /\ p - m >= base
  BY LocalIs
<1>2. /\ c \in DOMAIN blocks /\ k \in 1..Len(blocks[c].vars) /\ w = <<c, k>>
      /\ q \in Nat /\ n \in Nat /\ q - n >= LeafEnd(BlockBase(blocks, c), blocks[c].vars, k - 1)
      /\ q <= BlockEnds(blocks)[c]
  BY LocalIs
<1>3. Bytes(blocks, b, i) = (p - m)..(p - 1) /\ Bytes(blocks, c, k) = (q - n)..(q - 1)
  BY Zenon DEF Bytes
<1>4. ASSUME q <= p - m \/ p <= q - n
      PROVE  Apart(blocks, v, w)
  <2> HIDE DEF p, q, m, n
  <2>1. ((p - m)..(p - 1)) \intersect ((q - n)..(q - 1)) = {}
    BY <1>1, <1>2, <1>4
  <2> HIDE DEF b, c, i, k
  <2> QED
    BY <1>3, <2>1, Zenon DEF Apart, b, c, i, k
<1>5. CASE c # b
  <2>1. BlockEnds(blocks)[c] <= base
    BY <1>1, <1>5, AroundEnds
  <2>2. BlockEnds(blocks)[c] \in Nat
    BY <1>2, BlockEndsType
  <2> HIDE DEF base, p, q, m, n, c, b
  <2>3. q <= p - m
    BY <1>1, <1>2, <2>1, <2>2
  <2> QED
    BY <1>4, <2>3
<1>6. CASE c = b
  <2>1. i # k
    <3>1. w # v
      OBVIOUS
    <3> HIDE DEF b, c, i, k
    <3> QED
      BY <1>1, <1>2, <1>6, <3>1, Zenon
  <2>2. i \in Nat /\ k \in Nat /\ k \in 1..Len(seq) /\ i \in 0..Len(seq) /\ k \in 0..Len(seq)
        /\ i - 1 \in 0..Len(seq) /\ k - 1 \in 0..Len(seq)
    <3>1. k \in 1..Len(seq)
      BY <1>2, <1>6
    <3> HIDE DEF seq, i, k
    <3> QED
      BY <1>1, <3>1
  <2>3. p = LeafEnd(base, seq, i)
    BY OffsetIs
  <2>4. q = LeafEnd(base, seq, k)
    BY <1>6, OffsetIs
  <2>5. q - n >= LeafEnd(base, seq, k - 1)
    BY <1>2, <1>6
  <2>6. LeafEnd(base, seq, i - 1) \in Nat /\ LeafEnd(base, seq, k - 1) \in Nat
    <3> HIDE DEF base, seq, i, k
    <3> QED
      BY <1>1, <2>2, LeafEnds
  <2> HIDE DEF base, seq, p, q, m, n, i, k
  <2>7. CASE i < k
    <3>1. LeafEnd(base, seq, i) <= LeafEnd(base, seq, k - 1)
      BY <1>1, <2>2, <2>7, LeavesFollow
    <3>2. p <= q - n
      BY <1>1, <1>2, <2>3, <2>5, <2>6, <3>1
    <3> QED
      BY <1>4, <3>2
  <2>8. CASE k < i
    <3>1. LeafEnd(base, seq, k) <= LeafEnd(base, seq, i - 1)
      BY <1>1, <2>2, <2>8, LeavesFollow
    <3>2. q <= p - m
      BY <1>1, <1>2, <2>4, <2>6, <3>1
    <3> QED
      BY <1>4, <3>2
  <2> QED
    BY <2>1, <2>2, <2>7, <2>8
<1> QED
  BY <1>5, <1>6

(* Laid out blocks are as FrameSound says. *)
LEMMA NestedIsSound ==
  ASSUME phase = "laid" => Nested(frame.blocks)
  PROVE  FrameSound
<1> SUFFICES ASSUME phase = "laid",
                    NEW v \in Locals(frame.blocks)
             PROVE  /\ Offset(frame.blocks, v[1], v[2]) <= FrameSize(frame.blocks)
                    /\ Offset(frame.blocks, v[1], v[2]) % frame.blocks[v[1]].vars[v[2]].align = 0
                    /\ \A w \in Locals(frame.blocks) \ {v} :
                          w[1] \in Around(frame.blocks, v[1]) =>
                            Bytes(frame.blocks, v[1], v[2]) \intersect Bytes(frame.blocks, w[1], w[2]) = {}
  BY Zenon DEF FrameSound
<1> DEFINE blocks == frame.blocks
<1>1. Nested(blocks)
  OBVIOUS
<1> HIDE DEF blocks
<1>2. /\ v[1] \in DOMAIN blocks /\ Offset(blocks, v[1], v[2]) \in Nat
      /\ Offset(blocks, v[1], v[2]) % blocks[v[1]].vars[v[2]].align = 0
      /\ Offset(blocks, v[1], v[2]) <= BlockEnds(blocks)[v[1]]
  BY <1>1, LocalIs DEF blocks
<1>3. /\ BlockEnds(blocks)[v[1]] <= FrameSize(blocks) /\ BlockEnds(blocks)[v[1]] \in Nat
  BY <1>1, <1>2, FrameHoldsBlocks, BlockEndsType
<1>4. FrameSize(blocks) \in Nat
  BY <1>1, FrameHoldsBlocks
<1>5. Offset(blocks, v[1], v[2]) <= FrameSize(blocks)
  BY <1>2, <1>3, <1>4
<1>6. \A w \in Locals(blocks) \ {v} : w[1] \in Around(blocks, v[1]) => Apart(blocks, v, w)
  BY <1>1, LocalsApart DEF blocks
<1> QED
  BY <1>2, <1>5, <1>6, Zenon DEF Apart, blocks
--------------------------------------------------------------------------------
(* What classify has made of the first k arguments.                         *)
Classified(seq, k) == FoldLeft(Classify, NoneUsed, SubSeq(seq, 1, k))

LEMMA ClassesFollow ==
  ASSUME NEW seq \in Seq(BOOLEAN)
  PROVE  /\ Classified(seq, 0) = NoneUsed
         /\ Classified(seq, Len(seq)) = FoldLeft(Classify, NoneUsed, seq)
         /\ \A k \in 0..Len(seq) : Classified(seq, k) \in Used(Class)
         /\ \A k \in 1..Len(seq) : Classified(seq, k) = Classify(Classified(seq, k - 1), seq[k])
<1> DEFINE F(s) == FoldOf(Used(Class), BOOLEAN, ClassStep, NoneUsed, s)
<1>1. \A k \in 0..Len(seq) : SubSeq(seq, 1, k) \in Seq(BOOLEAN)
  OBVIOUS
<1>2. \A k \in 0..Len(seq) : Classified(seq, k) = F(SubSeq(seq, 1, k))
  BY <1>1, ClassesFolded DEF Classified
<1>3. Unrolls(Used(Class), BOOLEAN, ClassStep, NoneUsed, seq)
  BY ClassesFolded, FoldOfNext
<1>4. /\ F(<<>>) = NoneUsed
      /\ \A k \in 0..Len(seq) : F(SubSeq(seq, 1, k)) \in Used(Class)
      /\ \A k \in 1..Len(seq) : F(SubSeq(seq, 1, k)) = ClassStep[<<F(SubSeq(seq, 1, k - 1)), seq[k]>>]
  BY <1>3, Zenon DEF Unrolls
<1> HIDE DEF F
<1>5. 0 \in 0..Len(seq) /\ SubSeq(seq, 1, 0) = <<>> /\ SubSeq(seq, 1, Len(seq)) = seq
  OBVIOUS
<1>6. ASSUME NEW k \in 1..Len(seq)
      PROVE  Classified(seq, k) = Classify(Classified(seq, k - 1), seq[k])
  <2>1. k \in 0..Len(seq) /\ k - 1 \in 0..Len(seq) /\ seq[k] \in BOOLEAN
    OBVIOUS
  <2>2. Classified(seq, k) = ClassStep[<<Classified(seq, k - 1), seq[k]>>]
    BY <1>2, <1>4, <2>1
  <2>3. Classified(seq, k - 1) \in Used(Class)
    BY <1>2, <1>4, <2>1
  <2> QED
    BY <2>1, <2>2, <2>3 DEF ClassStep
<1>7. Classified(seq, Len(seq)) = FoldLeft(Classify, NoneUsed, seq)
  BY <1>5 DEF Classified
<1> QED
  BY <1>2, <1>4, <1>5, <1>6, <1>7

(* Where jitc_asm_call has put the first k of them.                         *)
Copied(seq, k) == FoldLeft(CopyArg, NoneUsed, SubSeq(seq, 1, k))

LEMMA CopiesFollow ==
  ASSUME NEW seq \in Seq(Class)
  PROVE  /\ Copied(seq, 0) = NoneUsed
         /\ Copied(seq, Len(seq)) = FoldLeft(CopyArg, NoneUsed, seq)
         /\ \A k \in 0..Len(seq) : Copied(seq, k) \in Used(Register)
         /\ \A k \in 1..Len(seq) : Copied(seq, k) = CopyArg(Copied(seq, k - 1), seq[k])
<1> DEFINE F(s) == FoldOf(Used(Register), Class, CopyStep, NoneUsed, s)
<1>1. \A k \in 0..Len(seq) : SubSeq(seq, 1, k) \in Seq(Class)
  OBVIOUS
<1>2. \A k \in 0..Len(seq) : Copied(seq, k) = F(SubSeq(seq, 1, k))
  BY <1>1, CopiesFolded DEF Copied
<1>3. Unrolls(Used(Register), Class, CopyStep, NoneUsed, seq)
  BY CopiesFolded, FoldOfNext
<1>4. /\ F(<<>>) = NoneUsed
      /\ \A k \in 0..Len(seq) : F(SubSeq(seq, 1, k)) \in Used(Register)
      /\ \A k \in 1..Len(seq) : F(SubSeq(seq, 1, k)) = CopyStep[<<F(SubSeq(seq, 1, k - 1)), seq[k]>>]
  BY <1>3, Zenon DEF Unrolls
<1> HIDE DEF F
<1>5. 0 \in 0..Len(seq) /\ SubSeq(seq, 1, 0) = <<>> /\ SubSeq(seq, 1, Len(seq)) = seq
  OBVIOUS
<1>6. ASSUME NEW k \in 1..Len(seq)
      PROVE  Copied(seq, k) = CopyArg(Copied(seq, k - 1), seq[k])
  <2>1. k \in 0..Len(seq) /\ k - 1 \in 0..Len(seq) /\ seq[k] \in Class
    OBVIOUS
  <2>2. Copied(seq, k) = CopyStep[<<Copied(seq, k - 1), seq[k]>>]
    BY <1>2, <1>4, <2>1
  <2>3. Copied(seq, k - 1) \in Used(Register)
    BY <1>2, <1>4, <2>1
  <2> QED
    BY <2>1, <2>2, <2>3 DEF CopyStep
<1>7. Copied(seq, Len(seq)) = FoldLeft(CopyArg, NoneUsed, seq)
  BY <1>5 DEF Copied
<1> QED
  BY <1>2, <1>4, <1>5, <1>6, <1>7

(* Where jitc_asm_func has found the first k parameters.                    *)
Taken(seq, k) == FoldLeft(TakeParam, NoneUsed, SubSeq(seq, 1, k))

LEMMA TakenFollow ==
  ASSUME NEW seq \in Seq(BOOLEAN)
  PROVE  /\ Taken(seq, 0) = NoneUsed
         /\ Taken(seq, Len(seq)) = FoldLeft(TakeParam, NoneUsed, seq)
         /\ \A k \in 0..Len(seq) : Taken(seq, k) \in Used(Register)
         /\ \A k \in 1..Len(seq) : Taken(seq, k) = TakeParam(Taken(seq, k - 1), seq[k])
<1> DEFINE F(s) == FoldOf(Used(Register), BOOLEAN, TakeStep, NoneUsed, s)
<1>1. \A k \in 0..Len(seq) : SubSeq(seq, 1, k) \in Seq(BOOLEAN)
  OBVIOUS
<1>2. \A k \in 0..Len(seq) : Taken(seq, k) = F(SubSeq(seq, 1, k))
  BY <1>1, TakenFolded DEF Taken
<1>3. Unrolls(Used(Register), BOOLEAN, TakeStep, NoneUsed, seq)
  BY TakenFolded, FoldOfNext
<1>4. /\ F(<<>>) = NoneUsed
      /\ \A k \in 0..Len(seq) : F(SubSeq(seq, 1, k)) \in Used(Register)
      /\ \A k \in 1..Len(seq) : F(SubSeq(seq, 1, k)) = TakeStep[<<F(SubSeq(seq, 1, k - 1)), seq[k]>>]
  BY <1>3, Zenon DEF Unrolls
<1> HIDE DEF F
<1>5. 0 \in 0..Len(seq) /\ SubSeq(seq, 1, 0) = <<>> /\ SubSeq(seq, 1, Len(seq)) = seq
  OBVIOUS
<1>6. ASSUME NEW k \in 1..Len(seq)
      PROVE  Taken(seq, k) = TakeParam(Taken(seq, k - 1), seq[k])
  <2>1. k \in 0..Len(seq) /\ k - 1 \in 0..Len(seq) /\ seq[k] \in BOOLEAN
    OBVIOUS
  <2>2. Taken(seq, k) = TakeStep[<<Taken(seq, k - 1), seq[k]>>]
    BY <1>2, <1>4, <2>1
  <2>3. Taken(seq, k - 1) \in Used(Register)
    BY <1>2, <1>4, <2>1
  <2> QED
    BY <2>1, <2>2, <2>3 DEF TakeStep
<1>7. Taken(seq, Len(seq)) = FoldLeft(TakeParam, NoneUsed, seq)
  BY <1>5 DEF Taken
<1> QED
  BY <1>2, <1>4, <1>5, <1>6, <1>7

(* How many of the first k are floats. *)
AreFloats(args, k) == {i \in 1..k : args[i]}
NumFloats(args, k) == Cardinality(AreFloats(args, k))

LEMMA FloatsCounted ==
  ASSUME NEW args \in Seq(BOOLEAN)
  PROVE  /\ NumFloats(args, 0) = 0
         /\ \A k \in 0..Len(args) : NumFloats(args, k) \in Nat /\ NumFloats(args, k) <= NumFloats(args, Len(args))
         /\ \A k \in 1..Len(args) :
              NumFloats(args, k) = NumFloats(args, k - 1) + (IF args[k] THEN 1 ELSE 0)
<1>1. \A k \in 0..Len(args) : IsFiniteSet(AreFloats(args, k))
  <2>1. \A k \in 0..Len(args) : IsFiniteSet(1..k) /\ AreFloats(args, k) \subseteq 1..k
    BY FS_Interval DEF AreFloats
  <2> QED
    BY <2>1, FS_Subset
<1>2. NumFloats(args, 0) = 0
  <2>1. AreFloats(args, 0) = {}
    BY DEF AreFloats
  <2> QED
    BY <2>1, FS_EmptySet DEF NumFloats
<1>3. ASSUME NEW k \in 0..Len(args)
      PROVE  NumFloats(args, k) \in Nat /\ NumFloats(args, k) <= NumFloats(args, Len(args))
  <2>1. AreFloats(args, k) \subseteq AreFloats(args, Len(args))
    BY DEF AreFloats
  <2>2. IsFiniteSet(AreFloats(args, Len(args))) /\ IsFiniteSet(AreFloats(args, k))
    BY <1>1
  <2> QED
    BY <2>1, <2>2, FS_Subset, FS_CardinalityType DEF NumFloats
<1>4. ASSUME NEW k \in 1..Len(args)
      PROVE  NumFloats(args, k) = NumFloats(args, k - 1) + (IF args[k] THEN 1 ELSE 0)
  <2>1. k - 1 \in 0..Len(args) /\ IsFiniteSet(AreFloats(args, k - 1))
    BY <1>1
  <2>2. \A i \in 1..k : i \in 1..(k - 1) \/ i = k
    OBVIOUS
  <2>3. /\ \A i \in 1..(k - 1) : i \in 1..k
        /\ k \in 1..k /\ k \notin 1..(k - 1)
    OBVIOUS
  <2>4. /\ k \notin AreFloats(args, k - 1)
        /\ AreFloats(args, k) = AreFloats(args, k - 1) \/ AreFloats(args, k) = AreFloats(args, k - 1) \union {k}
        /\ k \in AreFloats(args, k) <=> args[k]
    BY <2>2, <2>3 DEF AreFloats
  <2> QED
    BY <2>1, <2>4, AddOne DEF NumFloats
<1> QED
  BY <1>2, <1>3, <1>4

(* Without more floats than registers, the classes tell floats.            *)
LEMMA ClassesTell ==
  ASSUME NEW args \in Seq(BOOLEAN), NumFloats(args, Len(args)) <= FloatArgs
  PROVE  /\ Classes(args) \in Seq(Class) /\ Len(Classes(args)) = Len(args)
         /\ \A i \in 1..Len(args) : Classes(args)[i] = "FLOATING" <=> args[i]
<1> DEFINE n == Len(args)
           C(k) == Classified(args, k)
           N(k) == NumFloats(args, k)
           Right(k) == /\ C(k).params["float"] = N(k) /\ Len(C(k).out) = k
                       /\ \A i \in 1..k : C(k).out[i] = "FLOATING" <=> args[i]
           Reach == {k \in 0..n : Right(k)}
<1>1. n \in Nat /\ \A k \in 1..n : args[k] \in BOOLEAN
  OBVIOUS
<1>2. /\ C(0) = NoneUsed /\ C(n) = FoldLeft(Classify, NoneUsed, args)
      /\ \A k \in 0..n : C(k) \in Used(Class)
      /\ \A k \in 1..n : C(k) = Classify(C(k - 1), args[k])
  BY ClassesFollow
<1>3. /\ N(0) = 0 /\ \A k \in 0..n : N(k) \in Nat /\ N(k) <= FloatArgs
      /\ \A k \in 1..n : N(k) = N(k - 1) + (IF args[k] THEN 1 ELSE 0)
  <2>1. n \in 0..n /\ FloatArgs \in Nat
    BY <1>1, ArgsAssumption
  <2> QED
    BY <2>1, FloatsCounted
<1> HIDE DEF n, C, N
<1>4. 0 \in Reach
  <2>1. "float" \in Kinds
    BY DEF Kinds
  <2>2. C(0).params["float"] = 0 /\ C(0).out = <<>> /\ 0 \in 0..n
    BY <1>1, <1>2, <2>1, NoneUsedType
  <2> QED
    BY <1>3, <2>2
<1>5. ASSUME NEW k \in 0..(n - 1), k \in Reach
      PROVE  k + 1 \in Reach
  <2> DEFINE c == C(k)
  <2>1. /\ k + 1 \in 1..n /\ (k + 1) - 1 = k /\ k \in 0..n /\ k + 1 \in 0..n /\ k \in Nat
    BY <1>1
  <2>2. C(k + 1) = Classify(c, args[k + 1]) /\ c \in Used(Class) /\ args[k + 1] \in BOOLEAN
    BY <1>1, <1>2, <2>1
  <2>3. N(k + 1) = N(k) + (IF args[k + 1] THEN 1 ELSE 0) /\ N(k + 1) <= FloatArgs /\ N(k) \in Nat /\ N(k + 1) \in Nat
    BY <1>3, <2>1
  <2>4. Right(k)
    BY <1>5
  <2> HIDE DEF c
  <2>5. c.params \in [Kinds -> Nat] /\ c.out \in Seq(Class)
    BY <2>2 DEF Used
  <2>6. /\ "int" \in Kinds /\ "float" \in Kinds /\ "stack" \in Kinds
        /\ "FLOATING" \in Class /\ "INTEGER" \in Class /\ "MEMORY" \in Class
    BY DEF Kinds, Class
  <2>7. ASSUME NEW kind \in Kinds, NEW what \in Class, C(k + 1) = Use(c, kind, what),
               what = "FLOATING" <=> args[k + 1], kind = "float" <=> args[k + 1]
        PROVE  Right(k + 1)
    <3>1. C(k + 1).out = Append(c.out, what) /\ C(k + 1).params = [c.params EXCEPT ![kind] = @ + 1]
      <4>1. /\ Use(c, kind, what).out = Append(c.out, what)
            /\ Use(c, kind, what).params = [c.params EXCEPT ![kind] = @ + 1]
        BY DEF Use
      <4> QED
        BY <2>7, <4>1, Zenon
    <3>2. c.params["float"] = N(k) /\ Len(c.out) = k /\ \A i \in 1..k : c.out[i] = "FLOATING" <=> args[i]
      BY <2>4 DEF c
    <3>3. Len(C(k + 1).out) = k + 1 /\ C(k + 1).out[k + 1] = what /\ \A i \in 1..k : C(k + 1).out[i] = c.out[i]
      <4>1. C(k + 1).out = Append(c.out, what)
        BY <3>1
      <4>2. c.out \in Seq(Class) /\ Len(c.out) = k
        BY <2>5, <3>2
      <4> QED
        BY <2>1, <2>7, <4>1, <4>2
    <3>4. C(k + 1).params["float"] = N(k + 1)
      <4>1. CASE kind = "float"
        BY <2>3, <2>5, <2>6, <2>7, <3>1, <3>2, <4>1
      <4>2. CASE kind # "float"
        BY <2>2, <2>3, <2>5, <2>6, <2>7, <3>1, <3>2, <4>2
      <4> QED
        BY <4>1, <4>2
    <3>5. \A i \in 1..(k + 1) : i \in 1..k \/ i = k + 1
      BY <2>1
    <3> QED
      BY <2>7, <3>2, <3>3, <3>4, <3>5
  <2>8. CASE args[k + 1]
    <3>1. c.params["float"] < FloatArgs
      BY <2>3, <2>4, <2>8, ArgsAssumption DEF c
    <3>2. C(k + 1) = Use(c, "float", "FLOATING")
      BY <2>2, <2>8, <3>1 DEF Classify
    <3> QED
      BY <2>1, <2>6, <2>7, <2>8, <3>2
  <2>9. CASE ~args[k + 1]
    <3>1. C(k + 1) = Use(c, "int", "INTEGER") \/ C(k + 1) = Use(c, "stack", "MEMORY")
      BY <2>2, <2>9 DEF Classify
    <3> QED
      BY <2>1, <2>6, <2>7, <2>9, <3>1
  <2> QED
    BY <2>8, <2>9
<1> HIDE DEF Reach
<1>6. \A k \in 0..n : k \in Reach
  BY <1>1, <1>4, <1>5, UpToAny
<1>7. n \in 0..n
  BY <1>1
<1>8. Right(n)
  BY <1>6, <1>7 DEF Reach
<1>9. Classes(args) = C(n).out /\ C(n).out \in Seq(Class)
  BY <1>2, <1>7 DEF Classes, Used
<1> QED
  BY <1>8, <1>9 DEF n

LEMMA ArgumentsMatch ==
  ASSUME NEW args \in Seq(BOOLEAN), NumFloats(args, Len(args)) <= FloatArgs
  PROVE  ArgPlaces(args) = ParamPlaces(args)
<1> DEFINE n == Len(args)
           cl == Classes(args)
           C(k) == Copied(cl, k)
           T(k) == Taken(args, k)
           N(k) == NumFloats(args, k)
           Same(k) == C(k) = T(k) /\ T(k).params["float"] = N(k)
           Reach == {k \in 0..n : Same(k)}
<1>1. n \in Nat /\ \A k \in 1..n : args[k] \in BOOLEAN
  OBVIOUS
<1>2. cl \in Seq(Class) /\ Len(cl) = n /\ \A i \in 1..n : cl[i] = "FLOATING" <=> args[i]
  BY ClassesTell
<1>3. /\ T(0) = NoneUsed /\ T(n) = FoldLeft(TakeParam, NoneUsed, args)
      /\ \A k \in 0..n : T(k) \in Used(Register)
      /\ \A k \in 1..n : T(k) = TakeParam(T(k - 1), args[k])
  BY TakenFollow
<1>4. /\ C(0) = NoneUsed /\ C(n) = FoldLeft(CopyArg, NoneUsed, cl)
      /\ \A k \in 1..n : C(k) = CopyArg(C(k - 1), cl[k])
  <2> HIDE DEF cl
  <2> QED
    BY <1>2, CopiesFollow
<1>5. /\ N(0) = 0 /\ \A k \in 0..n : N(k) \in Nat /\ N(k) <= FloatArgs
      /\ \A k \in 1..n : N(k) = N(k - 1) + (IF args[k] THEN 1 ELSE 0)
  <2>1. n \in 0..n /\ FloatArgs \in Nat
    BY <1>1, ArgsAssumption
  <2> QED
    BY <2>1, FloatsCounted
<1> HIDE DEF n, cl, C, T, N
<1>6. 0 \in Reach
  <2>1. "float" \in Kinds
    BY DEF Kinds
  <2>2. T(0).params["float"] = 0 /\ 0 \in 0..n
    BY <1>1, <1>3, <2>1, NoneUsedType
  <2> QED
    BY <1>3, <1>4, <1>5, <2>2
<1>7. ASSUME NEW k \in 0..(n - 1), k \in Reach
      PROVE  k + 1 \in Reach
  <2> DEFINE t == T(k)
  <2>1. /\ k + 1 \in 1..n /\ (k + 1) - 1 = k /\ k \in 0..n /\ k + 1 \in 0..n /\ k \in Nat
    BY <1>1
  <2>2. T(k + 1) = TakeParam(t, args[k + 1]) /\ t \in Used(Register) /\ args[k + 1] \in BOOLEAN
    BY <1>1, <1>3, <2>1
  <2>3. C(k + 1) = CopyArg(t, cl[k + 1]) /\ (cl[k + 1] = "FLOATING" <=> args[k + 1])
    BY <1>2, <1>4, <1>7, <2>1
  <2>4. N(k + 1) = N(k) + (IF args[k + 1] THEN 1 ELSE 0) /\ N(k + 1) <= FloatArgs /\ N(k) \in Nat /\ N(k + 1) \in Nat
    BY <1>5, <2>1
  <2>5. t.params["float"] = N(k)
    BY <1>7
  <2> HIDE DEF t
  <2>6. t.params \in [Kinds -> Nat] /\ "int" \in Kinds /\ "float" \in Kinds /\ "stack" \in Kinds
    BY <2>2 DEF Used, Kinds
  <2>7. CASE args[k + 1]
    <3>1. t.params["float"] < FloatArgs
      BY <2>4, <2>5, <2>7, ArgsAssumption
    <3>2. TakeParam(t, args[k + 1]) = Use(t, "float", <<"xmm", t.params["float"]>>)
      BY <2>7, <3>1 DEF TakeParam
    <3>3. CopyArg(t, cl[k + 1]) = Use(t, "float", <<"xmm", t.params["float"]>>)
      BY <2>3, <2>7, <3>1 DEF CopyArg
    <3>4. Use(t, "float", <<"xmm", t.params["float"]>>).params = [t.params EXCEPT !["float"] = @ + 1]
      BY DEF Use
    <3>5. T(k + 1).params["float"] = N(k + 1)
      BY <2>2, <2>4, <2>5, <2>6, <2>7, <3>2, <3>4
    <3> QED
      BY <2>1, <2>2, <2>3, <3>2, <3>3, <3>5
  <2>8. CASE ~args[k + 1]
    <3>1. TakeParam(t, args[k + 1]) = IF t.params["int"] < IntArgs
                                      THEN Use(t, "int", <<"int", t.params["int"]>>)
                                      ELSE Use(t, "stack", <<"stack", t.params["stack"]>>)
      BY <2>8, Zenon DEF TakeParam
    <3>2. CopyArg(t, cl[k + 1]) = IF t.params["int"] < IntArgs
                                  THEN Use(t, "int", <<"int", t.params["int"]>>)
                                  ELSE Use(t, "stack", <<"stack", t.params["stack"]>>)
      BY <2>3, <2>8, Zenon DEF CopyArg
    <3>3. /\ Use(t, "int", <<"int", t.params["int"]>>).params = [t.params EXCEPT !["int"] = @ + 1]
          /\ Use(t, "stack", <<"stack", t.params["stack"]>>).params = [t.params EXCEPT !["stack"] = @ + 1]
      BY DEF Use
    <3>4. /\ [t.params EXCEPT !["int"] = @ + 1]["float"] = t.params["float"]
          /\ [t.params EXCEPT !["stack"] = @ + 1]["float"] = t.params["float"]
      BY <2>6
    <3>5. T(k + 1).params["float"] = N(k + 1)
      <4>1. N(k + 1) = N(k)
        BY <2>4, <2>8
      <4>2. CASE t.params["int"] < IntArgs
        BY <2>2, <2>5, <3>1, <3>3, <3>4, <4>1, <4>2
      <4>3. CASE ~(t.params["int"] < IntArgs)
        BY <2>2, <2>5, <3>1, <3>3, <3>4, <4>1, <4>3
      <4> QED
        BY <4>2, <4>3
    <3>6. C(k + 1) = T(k + 1)
      BY <2>2, <2>3, <3>1, <3>2, Zenon
    <3> QED
      BY <2>1, <3>5, <3>6
  <2> QED
    BY <2>7, <2>8
<1> HIDE DEF Reach
<1>8. \A k \in 0..n : k \in Reach
  BY <1>1, <1>6, <1>7, UpToAny
<1>9. n \in 0..n
  BY <1>1
<1>10. C(n) = T(n)
  BY <1>8, <1>9 DEF Reach
<1> QED
  BY <1>3, <1>4, <1>10, Zenon DEF ArgPlaces, ParamPlaces, cl
--------------------------------------------------------------------------------
(* With a name for each, all parameters get a leaf, and the prologue adds  *)
(* them up as the body does.                                               *)
AllNamed(params) == \A i \in 1..Len(params) : params[i].named

LEMMA NamedParamsType ==
  ASSUME NEW params \in Seq(Params)
  PROVE  NamedParams(params) \in Seq(Params)
<1>1. Unrolls(Seq(Params), Params, NamedStep, <<>>, params)
  BY NamedFolded, FoldOfNext
<1>2. Len(params) \in 0..Len(params) /\ SubSeq(params, 1, Len(params)) = params
  OBVIOUS
<1>3. FoldOf(Seq(Params), Params, NamedStep, <<>>, params) \in Seq(Params)
  BY <1>1, <1>2 DEF Unrolls
<1>4. FoldLeft(AddNamed, <<>>, params) = FoldOf(Seq(Params), Params, NamedStep, <<>>, params)
  BY NamedFolded
<1> QED
  BY <1>3, <1>4 DEF NamedParams

LEMMA AllGetLeaves ==
  ASSUME NEW params \in Seq(Params), AllNamed(params)
  PROVE  NamedParams(params) = params
<1> DEFINE n == Len(params)
           F(s) == FoldOf(Seq(Params), Params, NamedStep, <<>>, s)
           Reach == {k \in 0..n : F(SubSeq(params, 1, k)) = SubSeq(params, 1, k)}
<1>1. Unrolls(Seq(Params), Params, NamedStep, <<>>, params)
  BY NamedFolded, FoldOfNext
<1>2. /\ F(<<>>) = <<>>
      /\ \A k \in 1..n : F(SubSeq(params, 1, k)) = NamedStep[<<F(SubSeq(params, 1, k - 1)), params[k]>>]
  BY <1>1, Zenon DEF Unrolls
<1> HIDE DEF F
<1>3. n \in Nat /\ n \in 0..n /\ 0 \in 0..n /\ SubSeq(params, 1, 0) = <<>> /\ SubSeq(params, 1, n) = params
  OBVIOUS
<1>4. 0 \in Reach
  BY <1>2, <1>3
<1>5. ASSUME NEW k \in 0..(n - 1), k \in Reach
      PROVE  k + 1 \in Reach
  <2>1. k + 1 \in 1..n /\ (k + 1) - 1 = k /\ k + 1 \in 0..n /\ k \in Nat
    BY <1>3
  <2>2. params[k + 1] \in Params /\ params[k + 1].named
    BY <2>1 DEF AllNamed
  <2>3. SubSeq(params, 1, k) \in Seq(Params)
    BY <2>1
  <2>4. F(SubSeq(params, 1, k + 1)) = NamedStep[<<SubSeq(params, 1, k), params[k + 1]>>]
    BY <1>2, <1>5, <2>1
  <2>5. NamedStep[<<SubSeq(params, 1, k), params[k + 1]>>] = Append(SubSeq(params, 1, k), params[k + 1])
    BY <2>2, <2>3 DEF NamedStep, AddNamed
  <2>6. Append(SubSeq(params, 1, k), params[k + 1]) = SubSeq(params, 1, k + 1)
    BY <2>1
  <2> QED
    BY <2>1, <2>4, <2>5, <2>6
<1> HIDE DEF Reach
<1>6. \A k \in 0..n : k \in Reach
  BY <1>3, <1>4, <1>5, UpToAny
<1>7. F(params) = params
  BY <1>3, <1>6 DEF Reach
<1>8. FoldLeft(AddNamed, <<>>, params) = F(params)
  BY NamedFolded DEF F
<1> QED
  BY <1>7, <1>8 DEF NamedParams

LEMMA ParamsAsLeaves ==
  ASSUME NEW params \in Seq(Params), AllNamed(params)
  PROVE  \A i \in 0..Len(params) : ParamOffset(params, i) = LeafEnd(0, params, i)
<1> DEFINE n == Len(params)
           P(i) == ParamOffset(params, i)
           L(i) == LeafEnd(0, params, i)
           Reach == {k \in 0..n : P(k) = L(k)}
<1>1. params \in Seq(Leaves) /\ n \in Nat /\ 0 \in Nat
  BY DEF Leaves
<1>2. /\ L(0) = 0 /\ \A k \in 0..n : L(k) \in Nat
      /\ \A k \in 1..n : L(k) = AddLeaf(L(k - 1), params[k])
  BY <1>1, LeafEnds
<1>3. /\ P(0) = 0
      /\ \A k \in 1..n : P(k - 1) \in Nat => P(k) = AddParam(P(k - 1), params[k])
  <2> DEFINE F(s) == FoldOf(Nat, Params, ParamStep, 0, s)
  <2>1. Unrolls(Nat, Params, ParamStep, 0, params)
    BY ParamsFolded, FoldOfNext
  <2>2. /\ F(<<>>) = 0
        /\ \A k \in 1..n : F(SubSeq(params, 1, k)) = ParamStep[<<F(SubSeq(params, 1, k - 1)), params[k]>>]
    BY <2>1, Zenon DEF Unrolls
  <2>3. \A k \in 0..n : SubSeq(params, 1, k) \in Seq(Params)
    OBVIOUS
  <2>4. \A k \in 0..n : P(k) = F(SubSeq(params, 1, k))
    BY <2>3, ParamsFolded DEF ParamOffset
  <2> HIDE DEF F, P
  <2>5. 0 \in 0..n /\ SubSeq(params, 1, 0) = <<>>
    BY <1>1
  <2>6. ASSUME NEW k \in 1..n, P(k - 1) \in Nat
        PROVE  P(k) = AddParam(P(k - 1), params[k])
    <3>1. k \in 0..n /\ k - 1 \in 0..n /\ params[k] \in Params
      BY <1>1
    <3>2. P(k) = ParamStep[<<P(k - 1), params[k]>>]
      BY <2>2, <2>4, <3>1
    <3> QED
      BY <2>6, <3>1, <3>2 DEF ParamStep
  <2> QED
    BY <2>2, <2>4, <2>5, <2>6
<1> HIDE DEF n, P, L
<1>4. 0 \in Reach
  BY <1>1, <1>2, <1>3
<1>5. ASSUME NEW k \in 0..(n - 1), k \in Reach
      PROVE  k + 1 \in Reach
  <2>1. k + 1 \in 1..n /\ (k + 1) - 1 = k /\ k + 1 \in 0..n /\ k \in 0..n
    BY <1>1
  <2>2. params[k + 1] \in Params /\ params[k + 1].named
    BY <2>1 DEF AllNamed, n
  <2>3. P(k) = L(k) /\ L(k) \in Nat
    BY <1>2, <1>5, <2>1
  <2>4. L(k + 1) = AddLeaf(L(k), params[k + 1]) /\ P(k + 1) = AddParam(L(k), params[k + 1])
    BY <1>2, <1>3, <2>1, <2>3
  <2>5. AddParam(L(k), params[k + 1]) = AddLeaf(L(k), params[k + 1])
    BY <2>2, <2>3, AddParamType
  <2> QED
    BY <2>1, <2>4, <2>5
<1> HIDE DEF Reach
<1>6. \A k \in 0..n : k \in Reach
  BY <1>1, <1>4, <1>5, UpToAny
<1> QED
  BY <1>6 DEF Reach, n, P, L
--------------------------------------------------------------------------------
Shapes == {<<>>, <<1>>, <<1, 1>>, <<1, 2>>}

(* The tree that Layout makes. *)
Tree(params, own, ups, inner) ==
  <<[up |-> 1, vars |-> NamedParams(params) \o own]>>
    \o [i \in DOMAIN ups |-> [up |-> ups[i], vars |-> inner[i]]]

Taking(params) ==
  /\ \A i \in DOMAIN params : params[i].named \/ "unnamed" \in Forms
  /\ Quantify(DOMAIN params, LAMBDA i : params[i].float) <= FloatArgs \/ "floats" \in Forms

(* The inductive invariant: a frame is one that Begin lays out. *)
LaidOut ==
  phase = "laid" =>
    \E params \in Functions, own \in Declarations(0), ups \in Shapes :
      /\ Taking(params)
      /\ \E inner \in [DOMAIN ups -> Declarations(1)] :
            frame = [params |-> params, blocks |-> Tree(params, own, ups, inner)]

LEMMA InitLaidOut == Init => LaidOut
BY DEF Init, LaidOut

LEMMA BeginLaidOut ==
  ASSUME Begin
  PROVE  LaidOut'
<1>1. PICK params \in Functions, own \in Declarations(0), ups \in {<<>>, <<1>>, <<1, 1>>, <<1, 2>>} :
        /\ Taking(params)
        /\ \E inner \in [DOMAIN ups -> Declarations(1)] : Layout(params, own, ups, inner)
  BY Zenon DEF Begin, Taking
<1>2. PICK inner \in [DOMAIN ups -> Declarations(1)] : Layout(params, own, ups, inner)
  BY <1>1
<1>3. frame' = [params |-> params, blocks |-> Tree(params, own, ups, inner)]
  BY <1>2, Zenon DEF Layout, Tree
<1>4. ups \in Shapes
  BY DEF Shapes
<1> QED
  BY <1>1, <1>3, <1>4 DEF LaidOut

LEMMA NextLaidOut == LaidOut /\ [Next]_vars => LaidOut'
<1> SUFFICES ASSUME LaidOut, [Next]_vars PROVE LaidOut'
  OBVIOUS
<1>1. CASE Begin
  BY <1>1, BeginLaidOut
<1>2. CASE Func
  <2>1. phase' = "code"
    BY <1>2 DEF Func
  <2> QED
    BY <2>1 DEF LaidOut
<1>3. CASE FuncEnd
  <2>1. phase' = "between"
    BY <1>3 DEF FuncEnd
  <2> QED
    BY <2>1 DEF LaidOut
<1>4. CASE UNCHANGED <<phase, frame>>
  BY <1>4 DEF LaidOut
<1>5. ASSUME NEW a, Emit(a)
      PROVE  UNCHANGED <<phase, frame>>
  BY <1>5 DEF Emit
<1>6. CASE UNCHANGED vars
  BY <1>4, <1>6 DEF vars
<1>7. CASE Next
  BY <1>1, <1>2, <1>3, <1>4, <1>5, <1>7
     DEF Next, Leaf, Dereference, Cast, AddressOf, Negate, Complement, LogicNegate, Increment,
         Binary, Assign, Call, Pop, Test, Truth
<1> QED
  BY <1>6, <1>7

LEMMA FunctionsType ==
  ASSUME NEW params \in Functions
  PROVE  params \in Seq(Params)
<1>1. PICK n \in 0..MaxParams : params \in [1..n -> Params]
  BY DEF Functions
<1>2. n \in Nat
  BY BoundsAssumption
<1> QED
  BY <1>1, <1>2

LEMMA DeclarationsType ==
  ASSUME NEW least \in {0, 1}, NEW own \in Declarations(least)
  PROVE  own \in Seq(Leaves)
<1>1. PICK n \in least..MaxLocals : own \in [1..n -> Variables]
  BY DEF Declarations
<1>2. n \in Nat
  BY BoundsAssumption
<1>3. own \in [1..n -> Leaves]
  BY <1>1 DEF Leaves
<1> QED
  BY <1>2, <1>3

LEMMA TreeIsNested ==
  ASSUME NEW params \in Functions, NEW own \in Declarations(0), NEW ups \in Shapes,
         NEW inner \in [DOMAIN ups -> Declarations(1)]
  PROVE  /\ Nested(Tree(params, own, ups, inner))
         /\ Tree(params, own, ups, inner)[1].vars = NamedParams(params) \o own
<1> DEFINE first == [up |-> 1, vars |-> NamedParams(params) \o own]
           rest == [i \in DOMAIN ups |-> [up |-> ups[i], vars |-> inner[i]]]
           blocks == Tree(params, own, ups, inner)
<1>1. first \in Block
  <2>1. NamedParams(params) \in Seq(Params)
    BY FunctionsType, NamedParamsType
  <2>2. NamedParams(params) \in Seq(Leaves)
    BY <2>1 DEF Leaves
  <2>3. own \in Seq(Leaves)
    BY DeclarationsType
  <2>4. NamedParams(params) \o own \in Seq(Leaves)
    BY <2>2, <2>3
  <2> QED
    BY <2>4 DEF Block
<1>2. /\ ups \in Seq(Nat) /\ DOMAIN ups = 1..Len(ups) /\ Len(ups) \in Nat
      /\ \A i \in 1..Len(ups) : ups[i] \in 1..i
  <2>1. CASE ups = <<>>
    BY <2>1
  <2>2. CASE ups = <<1>>
    BY <2>2
  <2>3. CASE ups = <<1, 1>>
    BY <2>3
  <2>4. CASE ups = <<1, 2>>
    BY <2>4
  <2> QED
    BY <2>1, <2>2, <2>3, <2>4 DEF Shapes
<1>3. rest \in Seq(Block) /\ Len(rest) = Len(ups)
  <2>1. \A i \in 1..Len(ups) : inner[i] \in Seq(Leaves)
    BY <1>2, DeclarationsType
  <2>2. \A i \in 1..Len(ups) : [up |-> ups[i], vars |-> inner[i]] \in Block
    BY <1>2, <2>1 DEF Block
  <2>3. rest \in [1..Len(ups) -> Block]
    BY <1>2, <2>2
  <2> HIDE DEF rest
  <2>4. ASSUME NEW m \in Nat, NEW f \in [1..m -> Block]
        PROVE  f \in Seq(Block) /\ Len(f) = m
    OBVIOUS
  <2> QED
    BY <1>2, <2>3, <2>4
<1>4. blocks = <<first>> \o rest
  BY Zenon DEF Tree
<1>5. \A i \in 1..Len(ups) : rest[i].up = ups[i]
  BY <1>2
<1>6. first.vars = NamedParams(params) \o own
  OBVIOUS
<1> HIDE DEF first, rest, blocks
<1>7. /\ blocks \in Seq(Block) /\ Len(blocks) = 1 + Len(ups) /\ blocks[1] = first
      /\ \A b \in 2..Len(blocks) : blocks[b] = rest[b - 1]
  BY <1>1, <1>2, <1>3, <1>4
<1>8. ASSUME NEW b \in 2..Len(blocks)
      PROVE  blocks[b].up \in 1..(b - 1)
  <2>1. b - 1 \in 1..Len(ups)
    BY <1>2, <1>7
  <2> QED
    BY <1>2, <1>5, <1>7, <2>1
<1>9. Nested(blocks)
  BY <1>2, <1>7, <1>8 DEF Nested
<1> QED
  BY <1>6, <1>7, <1>9, Zenon DEF blocks

LEMMA LaidOutIsSound == LaidOut => FrameSound
<1> SUFFICES ASSUME LaidOut PROVE FrameSound
  OBVIOUS
<1>1. ASSUME phase = "laid"
      PROVE  Nested(frame.blocks)
  <2>1. PICK params \in Functions, own \in Declarations(0), ups \in Shapes :
          \E inner \in [DOMAIN ups -> Declarations(1)] :
             frame = [params |-> params, blocks |-> Tree(params, own, ups, inner)]
    BY <1>1, Zenon DEF LaidOut
  <2>2. PICK inner \in [DOMAIN ups -> Declarations(1)] :
          frame = [params |-> params, blocks |-> Tree(params, own, ups, inner)]
    BY <2>1
  <2>3. frame.blocks = Tree(params, own, ups, inner)
    BY <2>2
  <2> QED
    BY <2>3, TreeIsNested
<1> QED
  BY <1>1, NestedIsSound

(* Theorem: for any number of parameters and variables of any size and     *)
(* alignment, all variables lie within the frame, at multiples of their    *)
(* alignment, and apart from those of their own block and the blocks       *)
(* around it (process_size_tree, compiler.c 156).                          *)
THEOREM FramesAreSound == Spec => []FrameSound
<1>1. Spec => []LaidOut
  BY InitLaidOut, NextLaidOut, PTL DEF Spec
<1> QED
  BY <1>1, LaidOutIsSound, PTL

(* What ArgumentsArrive says of the parameters and blocks of a function.   *)
Arrive(params, blocks) ==
  /\ LET args == [i \in DOMAIN params |-> params[i].float]
     IN  ArgPlaces(args) = ParamPlaces(args)
  /\ \A i \in DOMAIN params : params[i].named =>
        ParamOffset(params, i) = Offset(blocks, 1, Quantify(1..i, LAMBDA j : params[j].named))

LEMMA LaidOutArrives ==
  ASSUME "unnamed" \notin Forms, "floats" \notin Forms
  PROVE  LaidOut => ArgumentsArrive
<1> SUFFICES ASSUME LaidOut, phase = "laid" PROVE ArgumentsArrive
  BY DEF ArgumentsArrive
<1>1. PICK params \in Functions, own \in Declarations(0), ups \in Shapes :
        /\ Taking(params)
        /\ \E inner \in [DOMAIN ups -> Declarations(1)] :
              frame = [params |-> params, blocks |-> Tree(params, own, ups, inner)]
  BY Zenon DEF LaidOut
<1>2. PICK inner \in [DOMAIN ups -> Declarations(1)] :
        frame = [params |-> params, blocks |-> Tree(params, own, ups, inner)]
  BY <1>1
<1> DEFINE blocks == Tree(params, own, ups, inner)
           n == Len(params)
           args == [i \in DOMAIN params |-> params[i].float]
           leaf(i) == Quantify(1..i, LAMBDA j : params[j].named)
<1>3. frame.params = params /\ frame.blocks = blocks
  BY <1>2
<1>4. params \in Seq(Params) /\ n \in Nat /\ DOMAIN params = 1..n
  BY FunctionsType
<1>5. AllNamed(params)
  BY <1>1, <1>4 DEF AllNamed, Taking
<1>6. ArgPlaces(args) = ParamPlaces(args)
  <2>1. \A i \in 1..n : params[i].float \in BOOLEAN
    BY <1>4, VariablesAssumption
  <2>2. args \in Seq(BOOLEAN) /\ Len(args) = n /\ \A i \in 1..n : args[i] = params[i].float
    BY <1>4, <2>1
  <2> HIDE DEF args
  <2>3. AreFloats(args, Len(args)) = {i \in DOMAIN params : params[i].float}
    BY <1>4, <2>2 DEF AreFloats
  <2>4. Cardinality({i \in DOMAIN params : params[i].float}) <= FloatArgs
    BY <1>1, Zenon DEF Quantify, Taking
  <2>5. NumFloats(args, Len(args)) <= FloatArgs
    BY <2>3, <2>4, Zenon DEF NumFloats
  <2> QED
    BY <2>2, <2>5, ArgumentsMatch
<1>7. ASSUME NEW i \in DOMAIN params
      PROVE  ParamOffset(params, i) = Offset(blocks, 1, leaf(i))
  <2>1. i \in 0..n /\ i \in Nat /\ i \in 1..n
    BY <1>4
  <2>2. leaf(i) = i
    <3>1. {j \in 1..i : params[j].named} = 1..i
      BY <1>4, <1>5, <2>1 DEF AllNamed
    <3>2. Cardinality(1..i) = i
      BY <2>1, FS_Interval
    <3> QED
      BY <3>1, <3>2, Zenon DEF Quantify
  <2>3. blocks[1].vars = params \o own /\ own \in Seq(Leaves)
    BY <1>4, <1>5, TreeIsNested, AllGetLeaves, DeclarationsType
  <2>4. SubSeq(params \o own, 1, i) = SubSeq(params, 1, i)
    BY <1>4, <2>1, <2>3
  <2>5. BlockBase(blocks, 1) = 0
    BY DEF BlockBase
  <2>6. Offset(blocks, 1, i) = LeafEnd(0, params, i)
    <3>1. Offset(blocks, 1, i) = LeafEnd(0, blocks[1].vars, i)
      BY <2>5, OffsetIs
    <3> QED
      BY <2>3, <2>4, <3>1, Zenon DEF LeafEnd
  <2>7. ParamOffset(params, i) = LeafEnd(0, params, i)
    BY <1>4, <1>5, <2>1, ParamsAsLeaves
  <2> QED
    BY <2>2, <2>6, <2>7, Zenon
<1>8. Arrive(params, blocks)
  BY <1>6, <1>7, Zenon DEF Arrive
<1> HIDE DEF blocks
<1>9. Arrive(frame.params, frame.blocks)
  BY <1>3, <1>8, Zenon
<1> QED
  BY <1>9, Zenon DEF ArgumentsArrive, Arrive

(* Theorem: where every parameter has a name and there are no more floats  *)
(* than registers for them, each argument is where the function called     *)
(* looks for it, and the prologue stores it where the body looks for it    *)
(* (sysv-x86_64.c 138-167 and 249-273, compiler.c 183).                    *)
THEOREM EveryArgumentArrives ==
  ASSUME "unnamed" \notin Forms, "floats" \notin Forms
  PROVE  Spec => []ArgumentsArrive
<1>1. Spec => []LaidOut
  BY InitLaidOut, NextLaidOut, PTL DEF Spec
<1> QED
  BY <1>1, LaidOutArrives, PTL
================================================================================
