------------------------- MODULE Group16TableProofs -------------------------
(***************************************************************************)
(* Theorems about one group16_flat_table, for every set of keys, every     *)
(* hash, every group width that is a power of two and every size.  The     *)
(* layout comes first: types, the bytes as a mirror of the slots, and the  *)
(* static groups of a table without memory.  On it rest reachability, the  *)
(* unique keys, the size, and with them the iteration, the drift of the    *)
(* threshold, and the table as a map.                                      *)
(***************************************************************************)
EXTENDS Group16Table, GroupQuadraticProberProofs

-----------------------------------------------------------------------------
(* Capacities *)

(* The rounding that the choice in RoundUpPow2 stands for. *)
LEMMA RoundUp ==
  ASSUME NEW n \in Nat, n >= 1
  PROVE  RoundUpPow2(n) \in Nat /\ RoundUpPow2(n) >= n /\ IsPow2(RoundUpPow2(n))
<1>1. \E p \in n..(2 * n) : IsPow2(p) /\ p < 2 * n
  BY Pow2Between
<1>2. RoundUpPow2(n) \in n..(2 * n) /\ IsPow2(RoundUpPow2(n))
  BY <1>1 DEF RoundUpPow2
<1> QED
  BY <1>2

(* The threshold of a load factor and the capacity for one are numbers. *)
LEMMA LoadFactorRange ==
  ASSUME NEW m \in LoadFactors
  PROVE  m \in Nat /\ m > 0
BY LoadFactorAssumption DEF LoadFactorAmplify

(* The capacity for so many elements is a number. *)
LEMMA FitRange ==
  ASSUME NEW n \in Nat, NEW m \in LoadFactors
  PROVE  ShrinkToFitCapacity(n, m) \in Nat
<1>1. n * 256 \in Nat /\ m \in Nat \ {0}
  BY LoadFactorRange
<1> DEFINE a == n * 256
<1>2. a \div m \in Nat
  <2> HIDE DEF a
  <2> QED
    BY <1>1, DivMod DEF a
<1> QED
  BY <1>2 DEF ShrinkToFitCapacity, LoadFactorAmplify

(* So is the threshold of so many slots. *)
LEMMA ThresholdRange ==
  ASSUME NEW n \in Nat, NEW m \in LoadFactors
  PROVE  CalcSlotThreshold(m, n) \in Nat
<1>1. n * m \in Nat
  BY LoadFactorRange
<1>2. (n * m) \div 256 \in Nat
  <2> DEFINE a == n * m
  <2> HIDE DEF a
  <2> QED
    BY <1>1 DEF a
<1> QED
  BY <1>2 DEF CalcSlotThreshold, LoadFactorAmplify

(***************************************************************************)
(* calc_capacity() gives a power of two of at least two groups, enough for *)
(* what was asked for and for the elements there are.                      *)
(***************************************************************************)
MaskOf(capacity) == capacity \div GroupWidth - 1

(* The mask of a new table. *)
LEMMA CapacityRange ==
  ASSUME NEW n \in Nat, NEW size \in Nat, NEW c, c = CalcCapacity(n, size)
  PROVE  /\ c \in Nat /\ c >= n /\ c >= size /\ c > 0
         /\ MaskOf(c) \in Nat /\ MaskOf(c) # 0 /\ IsPow2(MaskOf(c) + 1)
         /\ c = (MaskOf(c) + 1) * GroupWidth
<1> DEFINE w == AtLeast(AtLeast(n, MinCapacity), size)
<1>1. MinCapacity \in Nat /\ GroupWidth \in Nat \ {0} /\ GroupWidth >= 1
      /\ IsPow2(GroupWidth) /\ MinCapacity = 2 * GroupWidth
  BY GroupAssumption DEF MinCapacity, IsPow2
<1>2. w \in Nat /\ w >= 1 /\ w >= MinCapacity /\ w >= n /\ w >= size
  BY <1>1 DEF AtLeast
<1>3. c \in Nat /\ c >= w /\ IsPow2(c)
  <2> HIDE DEF w
  <2>1. c = RoundUpPow2(w)
    BY DEF CalcCapacity, w
  <2> QED
    BY <2>1, <1>2, RoundUp
<1> HIDE DEF w
<1>4. c >= 2 * GroupWidth /\ GroupWidth <= c
  BY <1>1, <1>2, <1>3
<1>5. PICK q \in Nat : c = GroupWidth * q /\ IsPow2(q)
  BY <1>1, <1>3, <1>4, Pow2Divides
<1>6. q >= 2
  <2> SUFFICES ASSUME q <= 1 PROVE FALSE
    OBVIOUS
  <2>1. q = 0 \/ q = 1
    OBVIOUS
  <2> QED
    BY <2>1, <1>1, <1>4, <1>5
<1>7. c \div GroupWidth = q
  BY <1>1, <1>5, Quotient
<1>8. MaskOf(c) + 1 = q /\ MaskOf(c) \in Nat /\ MaskOf(c) # 0
  BY <1>6, <1>7 DEF MaskOf
<1>9. c = q * GroupWidth
  BY <1>1, <1>5
<1> QED
  BY <1>1, <1>2, <1>3, <1>4, <1>5, <1>8, <1>9

-----------------------------------------------------------------------------
(* Hashes *)

(* The home group of a key is a group of the table. *)
LEMMA IndexRange ==
  ASSUME NEW k \in Key, NEW mask \in Nat
  PROVE  /\ IndexForHash(Hash[k], mask) \in Groups(mask)
         /\ IndexForHash(Hash[k], mask) \in Nat
         /\ mask # 0 => IndexForHash(Hash[k], mask) \in 0..mask
<1> DEFINE n == IF mask = 0 THEN 2 ELSE mask + 1
           h == Hash[k]
           a == h * n
           q == a \div HashRange
<1>1. h \in Nat /\ h < HashRange /\ HashRange \in Nat \ {0} /\ n \in Nat /\ n >= 1
  BY HashAssumption
<1>2. a \in Nat
  <2> HIDE DEF h, n
  <2> QED
    BY <1>1
<1>3. q \in Nat /\ a = (HashRange * q) + (a % HashRange) /\ a % HashRange \in Nat
  <2> HIDE DEF a
  <2>1. HashRange \in Nat \ {0}
    BY <1>1
  <2>2. /\ a % HashRange \in 0..(HashRange - 1)
        /\ a \div HashRange \in Nat
        /\ a = (HashRange * (a \div HashRange)) + (a % HashRange)
    BY <2>1, <1>2, DivMod
  <2> QED
    BY <2>1, <2>2
<1>4. q < n
  <2> SUFFICES ASSUME q >= n PROVE FALSE
    BY <1>1, <1>3
  <2> HIDE DEF h, n, q
  <2>1. HashRange * q >= HashRange * n
    BY <1>1, <1>3
  <2>2. HashRange * n > h * n
    BY <1>1
  <2> QED
    BY <2>1, <2>2, <1>1, <1>3
<1>5. q = IndexForHash(Hash[k], mask)
  BY DEF IndexForHash
<1>6. q \in Groups(mask) /\ (mask # 0 => q \in 0..mask)
  <2> HIDE DEF q
  <2> QED
    BY <1>3, <1>4 DEF Groups
<1> QED
  BY <1>3, <1>5, <1>6

(* The byte of a key is not that of an empty slot. *)
LEMMA CtrlOfRange ==
  ASSUME NEW k \in Key
  PROVE  CtrlOf(k) \in 0..(HashMask - 1) /\ CtrlOf(k) # EmptySlot
<1> DEFINE low == Hash[k] % HashMask
<1>1. Hash[k] \in Nat
  BY HashAssumption
<1>2. low \in 0..127
  BY <1>1 DEF HashMask
<1>3. CtrlOf(k) = IF low = EmptySlot THEN EmptyHash ELSE low
  BY DEF CtrlOf, CtrlForHash
<1> HIDE DEF low
<1> QED
  BY <1>2, <1>3 DEF HashMask, EmptySlot, EmptyHash

(* A byte selects one of the positions in a group. *)
LEMMA BitRange ==
  ASSUME NEW b \in Nat
  PROVE  OverflowBit(b) \in 0..(GroupWidth - 1)
<1>1. GroupWidth \in Nat \ {0}
  BY GroupAssumption DEF IsPow2
<1> QED
  BY <1>1, DivMod DEF OverflowBit

-----------------------------------------------------------------------------
(* The cells a step chooses *)

(* The first cell in the order of the loop over the old groups exists. *)
LEMMA NextPendingExists ==
  ASSUME pending \subseteq Nat \X Nat, pending # {}
  PROVE  NextPending \in pending
<1> DEFINE Rows == {c[1] : c \in pending}
<1>1. Rows \subseteq Nat /\ Rows # {}
  OBVIOUS
<1>2. PICK r \in Rows : \A s \in Rows : r <= s
  <2> HIDE DEF Rows
  <2> QED
    BY <1>1, LeastElement
<1> DEFINE InRow == {c \in pending : c[1] = r}
           Columns == {c[2] : c \in InRow}
<1>3. Columns \subseteq Nat /\ Columns # {}
  BY <1>2
<1>4. PICK p \in Columns : \A s \in Columns : p <= s
  <2> HIDE DEF Columns
  <2> QED
    BY <1>3, LeastElement
<1>5. PICK c \in pending : c[1] = r /\ c[2] = p
  BY <1>4
<1>6. \A d \in pending : Before(c, d)
  <2> SUFFICES ASSUME NEW d \in pending PROVE Before(c, d)
    OBVIOUS
  <2>1. d[1] \in Rows /\ d[1] \in Nat /\ d[2] \in Nat /\ c[1] \in Nat /\ c[2] \in Nat
    OBVIOUS
  <2>2. c[1] <= d[1]
    BY <2>1, <1>2, <1>5
  <2>3. c[1] = d[1] => c[2] <= d[2]
    BY <1>4, <1>5
  <2> QED
    BY <2>1, <2>2, <2>3 DEF Before
<1> QED
  BY <1>5, <1>6 DEF NextPending

(* A group with an empty slot has a first one. *)
LEMMA FirstEmptyExists ==
  ASSUME DOMAIN ctrl \subseteq Nat \X Nat, EmptyCells # {}
  PROVE  FirstEmpty \in EmptyCells
<1> DEFINE Columns == {c[2] : c \in EmptyCells}
<1>1. EmptyCells \subseteq Nat \X Nat
  BY DEF EmptyCells
<1>2. Columns \subseteq Nat /\ Columns # {}
  BY <1>1
<1>3. PICK p \in Columns : \A s \in Columns : p <= s
  <2> HIDE DEF Columns
  <2> QED
    BY <1>2, LeastElement
<1>4. \E c \in EmptyCells : \A d \in EmptyCells : c[2] <= d[2]
  BY <1>3
<1> QED
  BY <1>4 DEF FirstEmpty

-----------------------------------------------------------------------------
(* The layout: types, the mirror, and a table without memory *)

Managements == {"reserve", "rehash", "shrink_to_fit", "max_load_factor"}

TableOK ==
    /\ groupMask \in Nat /\ IsPow2(groupMask + 1)
    /\ ctrl \in [Cells(groupMask) -> 0..(HashMask - 1)]
    /\ overflow \in [Groups(groupMask) -> SUBSET (0..(GroupWidth - 1))]
    /\ slot \in [Cells(groupMask) -> Element \cup {Raw}]
    /\ slotSize \in Nat /\ slotThreshold \in Nat

ControlOK ==
    /\ pc \in {"idle", "manage", "find", "grow", "rehash", "transfer", "place", "done"}
    /\ call \in [op : KeyOps \cup {"none", "clear"} \cup Managements,
                 key : Key \cup {Absent}, val : Value \cup {Absent}, arg : Nat]
    /\ probe \in [key : Key \cup {Absent}, index : Nat, step : Nat]

(***************************************************************************)
(* A prober keeps its group after its call has changed the number of       *)
(* groups, which a search that ends in growth only makes larger; the calls *)
(* that make the table smaller have none.                                  *)
(***************************************************************************)
ProbeOK ==
    /\ probe.index \in Groups(groupMask)
    /\ pc \in {"idle", "manage"} => probe = NoProbe

(* What is still to move are elements. *)
RehashOK ==
    /\ DOMAIN oldSlot \subseteq Nat \X Nat
    /\ oldSlot \in [DOMAIN oldSlot -> Element \cup {Raw}]
    /\ oldSize \in Nat /\ pending \subseteq DOMAIN oldSlot
    /\ \A c \in pending : oldSlot[c] # Raw

(* What the place a call has reached says of its arguments. *)
CallOK ==
    /\ call.op \in KeyOps => call.key \in Key
    /\ call.op \in Insertions => call.val \in Value
    /\ call.op = "max_load_factor" => call.arg \in LoadFactors
    /\ pc = "find" => call.op \in KeyOps /\ probe.key = call.key
    /\ pc = "grow" => call.op \in Insertions
    /\ pc = "place" => call.op \in Insertions /\ probe.key = call.key
    /\ pc = "transfer" => pending # {} /\ probe.key = oldSlot[NextPending].key

TypeInv == TableOK /\ mlf \in LoadFactors /\ ControlOK /\ ProbeOK /\ RehashOK /\ CallOK

(* No call gets from the static groups to the search for an empty slot. *)
MemoryInv == ~ Allocated => slotThreshold = 0 /\ pc \notin {"rehash", "transfer", "place"}

Layout == TypeInv /\ MemoryInv /\ CtrlMirrorsSlots

(* The parts are the type invariant. *)
LEMMA TypeParts == TypeInv => TypeOK
<1> SUFFICES ASSUME TypeInv PROVE TypeOK
  OBVIOUS
<1>1. probe \in [key : Key \cup {Absent}, index : Groups(groupMask), step : Nat]
  BY DEF TypeInv, ControlOK, ProbeOK
<1>2. call.op \in KeyOps \cup {"none", "clear"} \cup Managements
  BY DEF TypeInv, ControlOK
<1> QED
  BY <1>1, <1>2 DEF TypeInv, TableOK, ControlOK, RehashOK, TypeOK, Managements

(* A cell is a pair of numbers. *)
LEMMA CellsRange ==
  ASSUME NEW mask \in Nat
  PROVE  Cells(mask) \subseteq Nat \X Nat
BY GroupAssumption DEF Cells, Groups

-----------------------------------------------------------------------------
(* What the steps do *)

(* The table of so many groups that has no element. *)
NewTable(mask) ==
    /\ groupMask' = mask /\ ctrl' = NoCtrl(mask) /\ overflow' = NoOverflow(mask)
    /\ slot' = AllRaw(mask) /\ slotSize' = 0

(* It has the types and mirrors no element. *)
LEMMA FreshTable ==
  ASSUME NEW mask \in Nat, IsPow2(mask + 1), NewTable(mask), slotThreshold' \in Nat
  PROVE  TableOK' /\ CtrlMirrorsSlots' /\ Live(slot') = {}
<1>1. Live(slot') = {}
  BY DEF NewTable, AllRaw, Live
<1>2. TableOK'
  BY DEF NewTable, TableOK, NoCtrl, NoOverflow, AllRaw, EmptySlot, HashMask
<1>3. CtrlMirrorsSlots'
  <2>1. \A c \in DOMAIN ctrl' : ctrl'[c] = EmptySlot /\ slot'[c] = Raw
    BY DEF NewTable, NoCtrl, AllRaw
  <2>2. ~ Allocated' => overflow' = NoOverflow(0)
    BY DEF NewTable, Allocated
  <2> QED
    BY <1>1, <2>1, <2>2 DEF CtrlMirrorsSlots
<1> QED
  BY <1>1, <1>2, <1>3

(* The capacities tables have. *)
ValidCapacity(c) ==
    /\ c \in Nat /\ MaskOf(c) \in Nat /\ MaskOf(c) # 0
    /\ IsPow2(MaskOf(c) + 1) /\ c = (MaskOf(c) + 1) * GroupWidth

(* A call that allocates nothing, or cannot. *)
Untouched == UNCHANGED <<table, rehash>> /\ (Done("ok") \/ Done("throws"))

(* rehash_impl() up to its loop. *)
LEMMA RehashImplIs ==
  ASSUME slotSize \in Nat, NEW allowShrink, NEW n \in Nat, NEW m, RehashImpl(allowShrink, n, m)
  PROVE  /\ UNCHANGED <<call, probe>>
         /\ \/ Untouched
            \/ \E c : CreateSlots(c, m) /\ ValidCapacity(c) /\ c # SlotCapacity /\ c >= slotSize
<1> DEFINE c == CalcCapacity(n, slotSize)
<1>1. c \in Nat /\ ValidCapacity(c) /\ c >= slotSize
  <2>1. c = CalcCapacity(n, slotSize)
    OBVIOUS
  <2> HIDE DEF c
  <2> QED
    BY <2>1, CapacityRange DEF ValidCapacity
<1>2. UNCHANGED <<call, probe>>
  BY DEF RehashImpl
<1>3. \/ CreateSlots(c, m) /\ (c # SlotCapacity \/ c > SlotCapacity)
      \/ Untouched
  BY DEF RehashImpl, Untouched
<1>4. c # SlotCapacity \/ c > SlotCapacity => c # SlotCapacity
  <2> HIDE DEF c
  <2> QED
    BY <1>1
<1> HIDE DEF c
<1> QED
  BY <1>1, <1>2, <1>3, <1>4

(* The number of slots of a table. *)
LEMMA SlotCapacityRange ==
  ASSUME groupMask \in Nat
  PROVE  SlotCapacity \in Nat /\ (Allocated => SlotCapacity = (groupMask + 1) * GroupWidth)
<1>1. GroupWidth \in Nat
  BY GroupAssumption
<1> QED
  BY <1>1 DEF SlotCapacity

(***************************************************************************)
(* The growth of an insertion asks for twice the slots there are: it makes *)
(* a larger table or throws, and never ends the call with nothing done.    *)
(***************************************************************************)
LEMMA GrowIs ==
  ASSUME slotSize \in Nat, groupMask \in Nat, Grow
  PROVE  /\ UNCHANGED <<call, probe, mlf>> /\ pc = "grow"
         /\ \/ UNCHANGED <<table, rehash>> /\ Done("throws")
            \/ \E c : /\ CreateSlots(c, mlf) /\ ValidCapacity(c) /\ c # SlotCapacity /\ c > SlotCapacity
                      /\ Groups(groupMask) \subseteq Groups(MaskOf(c))
<1> DEFINE n == SlotCapacity * 2
           c == CalcCapacity(n, slotSize)
<1>1. SlotCapacity \in Nat /\ n \in Nat
  BY SlotCapacityRange
<1>2. c \in Nat /\ c >= n /\ c > 0 /\ ValidCapacity(c)
  <2>1. c = CalcCapacity(n, slotSize)
    OBVIOUS
  <2> HIDE DEF c, n
  <2> QED
    BY <1>1, <2>1, CapacityRange DEF ValidCapacity
<1>3. c > SlotCapacity
  <2> HIDE DEF c
  <2> QED
    BY <1>1, <1>2
<1>4. UNCHANGED <<call, probe, mlf>> /\ pc = "grow"
      /\ \/ CreateSlots(c, mlf)
         \/ UNCHANGED <<table, rehash>> /\ Done("throws")
  BY <1>3 DEF Grow, RehashImpl
<1>5. Groups(groupMask) \subseteq Groups(MaskOf(c))
  <2> HIDE DEF c
  <2>1. CASE groupMask = 0
    BY <1>2, <2>1 DEF Groups, ValidCapacity
  <2>2. CASE groupMask # 0
    <3>1. (groupMask + 1) * GroupWidth < (MaskOf(c) + 1) * GroupWidth
      BY <1>1, <1>2, <1>3, <2>2, SlotCapacityRange DEF ValidCapacity, Allocated
    <3>2. MaskOf(c) > groupMask
      <4> DEFINE x == groupMask + 1
                 y == MaskOf(c) + 1
      <4>1. x \in Nat /\ y \in Nat /\ x * GroupWidth < y * GroupWidth /\ GroupWidth \in Nat
        BY <1>2, <3>1, GroupAssumption DEF ValidCapacity
      <4>2. x < y
        <5> HIDE DEF x, y
        <5> SUFFICES ASSUME y <= x PROVE FALSE
          BY <4>1
        <5>1. y * GroupWidth <= x * GroupWidth
          BY <4>1
        <5> QED
          BY <4>1, <5>1
      <4> QED
        BY <4>2, <1>2 DEF ValidCapacity
    <3> QED
      BY <1>2, <2>2, <3>2 DEF Groups, ValidCapacity
  <2> QED
    BY <2>1, <2>2
<1>6. c # SlotCapacity
  <2> HIDE DEF c
  <2> QED
    BY <1>1, <1>2, <1>3
<1> HIDE DEF c
<1> QED
  BY <1>2, <1>3, <1>4, <1>5, <1>6

(* A load factor and a size give the capacity zero only to no element. *)
LEMMA FitZero ==
  ASSUME NEW n \in Nat, NEW m \in LoadFactors, ShrinkToFitCapacity(n, m) = 0
  PROVE  n = 0
<1>1. m \in Nat \ {0} /\ m <= 224
  BY LoadFactorAssumption DEF LoadFactorAmplify
<1> DEFINE a == n * 256
<1>2. a \in Nat /\ a \div m = 0
  BY DEF ShrinkToFitCapacity, LoadFactorAmplify
<1>3. a < m
  <2> HIDE DEF a
  <2>1. a = (m * (a \div m)) + (a % m) /\ a % m \in 0..(m - 1)
    BY <1>1, <1>2, DivMod
  <2> QED
    BY <1>1, <1>2, <2>1
<1> QED
  BY <1>1, <1>3

-----------------------------------------------------------------------------
(* The calls that manage the memory, in what they do to the table *)

(***************************************************************************)
(* An empty table is left: clear() and reserve(0) mean it, the others find *)
(* no element there was.                                                   *)
(***************************************************************************)
Emptied ==
    /\ \E mask \in {0, groupMask} : NewTable(mask) /\ slotThreshold' = IF mask = 0 THEN 0 ELSE slotThreshold
    /\ UNCHANGED rehash /\ Done("ok")
    /\ call.op \in Managements \cup {"clear"}
    /\ call.op \notin {"clear", "reserve"} => slotSize = 0
    /\ call.op # "clear" => groupMask' = 0

(* A new table is made, into which the elements are to move. *)
Resized == /\ call.op \in Managements
           /\ \E c, m : /\ m \in LoadFactors /\ CreateSlots(c, m)
                        /\ ValidCapacity(c) /\ c # SlotCapacity /\ c >= slotSize

(* A call that manages the memory empties, resizes or leaves the table. *)
LEMMA ManageIs ==
  ASSUME Layout, Manage
  PROVE  /\ pc = "manage" /\ UNCHANGED <<call, probe>> /\ mlf' \in LoadFactors
         /\ Emptied \/ Resized \/ (Untouched /\ call.op \in Managements)
<1> USE DEF Layout, TypeInv
<1>1. slotSize \in Nat /\ groupMask \in Nat /\ mlf \in LoadFactors /\ call.arg \in Nat
  BY DEF TableOK, ControlOK
<1>2. ASSUME Destroy, call.op \in Managements \cup {"clear"},
             call.op \notin {"clear", "reserve"} => slotSize = 0
      PROVE  Emptied /\ UNCHANGED <<call, probe>>
  BY <1>2 DEF Destroy, Emptied, NewTable
<1>3. ASSUME NEW allowShrink, NEW n \in Nat, NEW m \in LoadFactors, RehashImpl(allowShrink, n, m),
             call.op \in Managements
      PROVE  UNCHANGED <<call, probe>> /\ (Resized \/ Untouched)
  BY <1>1, <1>3, RehashImplIs DEF Resized
<1>4. ASSUME NEW n \in Nat, NEW m \in LoadFactors, RehashTo(n, m), call.op \in Managements
      PROVE  UNCHANGED <<call, probe>> /\ (Emptied \/ Resized \/ Untouched)
  <2> DEFINE f == ShrinkToFitCapacity(slotSize, m)
             a == AtLeast(f, n)
  <2>1. f \in Nat /\ (f = 0 => slotSize = 0)
    BY <1>1, FitRange, FitZero
  <2>2. (a # 0 /\ RehashImpl(TRUE, a, m)) \/ (a = 0 /\ Destroy)
    BY <1>4 DEF RehashTo
  <2>3. a \in Nat /\ (a = 0 => slotSize = 0)
    <3> HIDE DEF f
    <3> QED
      BY <2>1 DEF AtLeast
  <2> HIDE DEF a
  <2> QED
    BY <1>2, <1>3, <1>4, <2>2, <2>3
<1>5. CASE Clear
  <2>1. pc = "manage" /\ call.op = "clear" /\ mlf' = mlf /\ (Destroy \/ ClearData)
    BY <1>5 DEF Clear, Managing
  <2>2. CASE ClearData
    <3>1. NewTable(groupMask) /\ slotThreshold' = slotThreshold /\ UNCHANGED <<call, probe, rehash>> /\ Done("ok")
      BY <2>2 DEF ClearData, NewTable
    <3>2. slotThreshold = IF groupMask = 0 THEN 0 ELSE slotThreshold
      BY DEF MemoryInv, Allocated
    <3> QED
      BY <1>1, <2>1, <3>1, <3>2 DEF Emptied
  <2> QED
    BY <1>1, <1>2, <2>1, <2>2
<1>6. CASE Reserve
  <2>1. pc = "manage" /\ call.op = "reserve" /\ mlf' = mlf
        /\ (Destroy \/ RehashImpl(FALSE, ShrinkToFitCapacity(call.arg, mlf), mlf))
    BY <1>6 DEF Reserve, Managing
  <2> QED
    BY <1>1, <1>2, <1>3, <2>1, FitRange DEF Managements
<1>7. CASE Rehash
  <2>1. pc = "manage" /\ call.op = "rehash" /\ mlf' = mlf /\ RehashTo(call.arg, mlf)
    BY <1>7 DEF Rehash, Managing
  <2> QED
    BY <1>1, <1>4, <2>1 DEF Managements
<1>8. CASE ShrinkToFit
  <2> DEFINE n == IF call.arg = 1 THEN slotSize ELSE ShrinkToFitCapacity(slotSize, mlf)
  <2>1. pc = "manage" /\ call.op = "shrink_to_fit" /\ mlf' = mlf
        /\ ((n = 0 /\ Destroy) \/ RehashImpl(TRUE, n, mlf))
    BY <1>8 DEF ShrinkToFit, Managing
  <2>2. n \in Nat /\ (n = 0 => slotSize = 0)
    BY <1>1, FitRange, FitZero
  <2> HIDE DEF n
  <2> QED
    BY <1>1, <1>2, <1>3, <2>1, <2>2 DEF Managements
<1>9. CASE MaxLoadFactor
  <2> DEFINE n == CalcCapacity(ShrinkToFitCapacity(SlotCapacity, call.arg), slotSize)
  <2>1. /\ pc = "manage" /\ call.op = "max_load_factor" /\ mlf' = call.arg
        /\ \/ RehashTo(n, call.arg)
           \/ Done("ok") /\ UNCHANGED <<table, call, probe, rehash>>
    BY <1>9 DEF MaxLoadFactor, Managing
  <2>2. call.arg \in LoadFactors
    BY <2>1 DEF CallOK
  <2>3. n \in Nat
    BY <1>1, <2>2, SlotCapacityRange, FitRange, CapacityRange
  <2> HIDE DEF n
  <2> QED
    BY <1>4, <2>1, <2>2, <2>3 DEF Managements, Untouched
<1> QED
  BY <1>5, <1>6, <1>7, <1>8, <1>9 DEF Manage

-----------------------------------------------------------------------------
(* Every step preserves the layout *)

(* A step that lets the table and the rehash be only has control to keep. *)
LEMMA LayoutKept ==
  ASSUME Layout, UNCHANGED <<table, rehash>>, mlf' \in LoadFactors, ControlOK', ProbeOK', CallOK',
         pc' \in {"rehash", "transfer", "place"} => Allocated
  PROVE  Layout'
<1>1. TableOK' /\ RehashOK'
  BY DEF Layout, TypeInv, TableOK, RehashOK, table, rehash
<1>2. MemoryInv' /\ CtrlMirrorsSlots'
  BY DEF Layout, MemoryInv, CtrlMirrorsSlots, Allocated, Live, table
<1> QED
  BY <1>1, <1>2 DEF Layout, TypeInv

(* The prober of a key starts at a group. *)
LEMMA StartProbeType ==
  ASSUME NEW k \in Key, NEW mask \in Nat
  PROVE  /\ StartProbe(k, mask) \in [key : Key \cup {Absent}, index : Nat, step : Nat]
         /\ StartProbe(k, mask).key = k /\ StartProbe(k, mask).step = 0
         /\ StartProbe(k, mask).index = IndexForHash(Hash[k], mask)
         /\ StartProbe(k, mask).index \in Groups(mask)
BY IndexRange DEF StartProbe

(* next_bucket() leads to a group. *)
LEMMA NextBucketType ==
  ASSUME Layout
  PROVE  /\ NextBucket \in [key : Key \cup {Absent}, index : Nat, step : Nat]
         /\ NextBucket.key = probe.key /\ NextBucket.step = probe.step + 1
         /\ NextBucket.index = NextIndex(probe.index, probe.step, groupMask)
         /\ NextBucket.index \in Groups(groupMask)
<1>1. probe.index \in Nat /\ probe.step \in Nat /\ groupMask \in Nat
      /\ probe.key \in Key \cup {Absent}
  BY DEF Layout, TypeInv, ControlOK, TableOK
<1>2. NextIndex(probe.index, probe.step, groupMask) \in 0..groupMask
  <2> DEFINE a == probe.index + probe.step + 1
             d == groupMask + 1
  <2>1. a \in Nat /\ d \in Nat \ {0}
    BY <1>1
  <2>2. a % d \in 0..(d - 1)
    <3> HIDE DEF a, d
    <3> QED
      BY <2>1, DivMod
  <2> QED
    BY <1>1, <2>2 DEF NextIndex
<1>3. NextIndex(probe.index, probe.step, groupMask) \in Groups(groupMask)
      /\ NextIndex(probe.index, probe.step, groupMask) \in Nat
  BY <1>1, <1>2 DEF Groups
<1> QED
  BY <1>1, <1>3 DEF NextBucket

(* A call begins. *)
LEMMA BeginLayout ==
  ASSUME Layout, NEW op \in KeyOps \cup {"clear"} \cup Managements,
         NEW k \in Key \cup {Absent}, NEW v \in Value \cup {Absent}, NEW n \in Nat,
         Begin(op, k, v, n),
         op \in KeyOps => k \in Key, op \in Insertions => v \in Value,
         op = "max_load_factor" => n \in LoadFactors
  PROVE  Layout'
<1>1. UNCHANGED <<table, rehash, mlf>> /\ pc = "idle"
      /\ call' = [op |-> op, key |-> k, val |-> v, arg |-> n]
  BY DEF Begin, table, rehash
<1>2. call' \in [op : KeyOps \cup {"none", "clear"} \cup Managements,
                 key : Key \cup {Absent}, val : Value \cup {Absent}, arg : Nat]
  BY <1>1
<1>3. CASE op \in KeyOps
  <2>1. pc' = "find" /\ probe' = StartProbe(k, groupMask)
    BY <1>3 DEF Begin
  <2>2. groupMask' = groupMask /\ groupMask \in Nat
    BY <1>1 DEF Layout, TypeInv, TableOK, table
  <2>3. ControlOK' /\ ProbeOK'
    BY <1>2, <1>3, <2>1, <2>2, StartProbeType DEF ControlOK, ProbeOK
  <2>4. CallOK'
    BY <1>1, <1>3, <2>1, <2>2, StartProbeType DEF CallOK, KeyOps
  <2> QED
    BY <1>1, <2>1, <2>3, <2>4, LayoutKept DEF Layout, TypeInv
<1>4. CASE op \notin KeyOps
  <2>1. pc' = "manage" /\ probe' = probe
    BY <1>4 DEF Begin
  <2>2. ControlOK' /\ ProbeOK'
    BY <1>1, <1>2, <2>1 DEF Layout, TypeInv, ControlOK, ProbeOK, table
  <2>3. CallOK'
    BY <1>1, <1>4, <2>1 DEF CallOK, KeyOps
  <2> QED
    BY <1>1, <2>1, <2>2, <2>3, LayoutKept DEF Layout, TypeInv
<1> QED
  BY <1>3, <1>4

(* So it does for every call the callers make. *)
LEMMA BeginningLayout == Layout /\ (BeginKeyOp \/ BeginManagement) => Layout'
<1> SUFFICES ASSUME Layout, BeginKeyOp \/ BeginManagement PROVE Layout'
  OBVIOUS
<1>1. CASE BeginKeyOp
  BY <1>1, BeginLayout DEF BeginKeyOp, KeyOps, Insertions
<1>2. CASE BeginManagement
  <2>1. ASSUME NEW op \in {"clear"} \cup Managements, NEW n \in Nat,
               Begin(op, Absent, Absent, n), op = "max_load_factor" => n \in LoadFactors
        PROVE  Layout'
    <3>1. op \notin KeyOps /\ op \notin Insertions
      BY DEF KeyOps, Insertions, Managements
    <3> QED
      BY <2>1, <3>1, BeginLayout
  <2>2. ReserveArgs \subseteq Nat /\ RehashArgs \subseteq Nat /\ LoadFactors \subseteq Nat
    BY ArgsAssumption, LoadFactorRange
  <2> QED
    BY <1>2, <2>1, <2>2 DEF BeginManagement, Managements
<1> QED
  BY <1>1, <1>2

(* The new table that create_slots() makes, and the old one beside it. *)
LEMMA CreateSlotsIs ==
  ASSUME Layout, NEW c, NEW m \in LoadFactors, CreateSlots(c, m), ValidCapacity(c)
  PROVE  /\ NewTable(MaskOf(c)) /\ Allocated' /\ pc' = "rehash" /\ ret' = ret
         /\ slotThreshold' = CalcSlotThreshold(m, c)
         /\ TableOK' /\ RehashOK' /\ MemoryInv' /\ CtrlMirrorsSlots'
         /\ Live(slot') = {} /\ oldSlot' = slot /\ oldSize' = slotSize
         /\ pending' = Live(slot)
<1>1. MaskOf(c) \in Nat /\ MaskOf(c) # 0 /\ IsPow2(MaskOf(c) + 1) /\ c \in Nat
  BY DEF ValidCapacity
<1>2. NewTable(MaskOf(c)) /\ pc' = "rehash" /\ ret' = ret
      /\ slotThreshold' = CalcSlotThreshold(m, c)
      /\ oldSlot' = slot /\ oldSize' = slotSize /\ pending' = UsedCells
  BY DEF CreateSlots, NewTable, MaskOf
<1>3. slotThreshold' \in Nat
  BY <1>1, <1>2, ThresholdRange
<1>4. TableOK' /\ CtrlMirrorsSlots' /\ Live(slot') = {}
  BY <1>1, <1>2, <1>3, FreshTable
<1>5. Allocated' /\ MemoryInv'
  BY <1>1, <1>2 DEF NewTable, Allocated, MemoryInv
<1>6. UsedCells = Live(slot)
  BY DEF Layout, TypeInv, TableOK, CtrlMirrorsSlots, UsedCells, Live
<1>7. RehashOK'
  <2>1. DOMAIN slot \subseteq Nat \X Nat
    BY CellsRange DEF Layout, TypeInv, TableOK
  <2> QED
    BY <1>2, <1>6, <2>1 DEF RehashOK, Live, Layout, TypeInv, TableOK
<1> QED
  BY <1>2, <1>4, <1>5, <1>6, <1>7

(* The calls that manage the memory preserve the layout. *)
LEMMA ManageLayout == Layout /\ Manage => Layout'
<1> SUFFICES ASSUME Layout, Manage PROVE Layout'
  OBVIOUS
<1>1. /\ pc = "manage" /\ UNCHANGED <<call, probe>> /\ mlf' \in LoadFactors
      /\ Emptied \/ Resized \/ (Untouched /\ call.op \in Managements)
  BY ManageIs
<1>2. probe = NoProbe /\ probe.index = 0
  BY <1>1 DEF Layout, TypeInv, ProbeOK, NoProbe
<1>3. ASSUME pc' \in {"done", "rehash"} PROVE ControlOK' /\ CallOK'
  BY <1>1, <1>3 DEF Layout, TypeInv, ControlOK, CallOK
<1>4. ASSUME groupMask' \in Nat, pc' \in {"done", "rehash"} PROVE ProbeOK'
  BY <1>1, <1>2, <1>4 DEF ProbeOK, Groups
<1>5. CASE Emptied
  <2>1. PICK mask \in {0, groupMask} : NewTable(mask) /\ slotThreshold' = IF mask = 0 THEN 0 ELSE slotThreshold
    BY <1>5 DEF Emptied
  <2>2. mask \in Nat /\ IsPow2(mask + 1) /\ slotThreshold' \in Nat
    <3>1. IsPow2(0 + 1)
      BY DEF IsPow2
    <3> QED
      BY <2>1, <3>1 DEF Layout, TypeInv, TableOK
  <2>3. TableOK' /\ CtrlMirrorsSlots'
    BY <2>1, <2>2, FreshTable
  <2>4. pc' = "done" /\ UNCHANGED rehash /\ groupMask' = mask
    BY <1>5, <2>1 DEF Emptied, Done, NewTable
  <2>5. RehashOK' /\ MemoryInv'
    BY <2>1, <2>4 DEF Layout, TypeInv, RehashOK, rehash, MemoryInv, Allocated
  <2> QED
    BY <1>1, <1>3, <1>4, <2>2, <2>3, <2>4, <2>5 DEF Layout, TypeInv
<1>6. CASE Resized
  <2>1. PICK c, m : m \in LoadFactors /\ CreateSlots(c, m) /\ ValidCapacity(c)
    BY <1>6 DEF Resized
  <2>2. TableOK' /\ RehashOK' /\ MemoryInv' /\ CtrlMirrorsSlots' /\ pc' = "rehash"
    BY <2>1, CreateSlotsIs
  <2>3. groupMask' \in Nat
    BY <2>2 DEF TableOK
  <2> QED
    BY <1>1, <1>3, <1>4, <2>2, <2>3 DEF Layout, TypeInv
<1>7. CASE Untouched
  <2>1. pc' = "done" /\ UNCHANGED <<table, rehash>>
    BY <1>7 DEF Untouched, Done
  <2>2. groupMask' \in Nat
    BY <2>1 DEF Layout, TypeInv, TableOK, table
  <2> QED
    BY <1>1, <1>3, <1>4, <2>1, <2>2, LayoutKept
<1> QED
  BY <1>1, <1>5, <1>6, <1>7

(***************************************************************************)
(* The slot a search stops at holds the element it looked for: a used byte *)
(* has an element in its slot, so nothing is read where none was built.    *)
(***************************************************************************)
LEMMA HitIs ==
  ASSUME Layout, pc = "find", NEW c \in Matches, NEW e \in Hits(c)
  PROVE  /\ c \in DOMAIN slot /\ c \in DOMAIN ctrl /\ c \in Live(slot) /\ Allocated
         /\ e = slot[c] /\ e \in Element /\ e.key = call.key /\ probe.key = call.key /\ call.key \in Key
         /\ ctrl[c] = CtrlOf(call.key) /\ c[1] = probe.index /\ c[1] \in Groups(groupMask)
<1>1. probe.key = call.key /\ call.key \in Key
  BY DEF Layout, TypeInv, CallOK
<1>2. c \in DOMAIN ctrl /\ c[1] = probe.index /\ ctrl[c] = CtrlOf(call.key) /\ ctrl[c] # EmptySlot
  BY <1>1, CtrlOfRange DEF Matches
<1>3. c \in DOMAIN slot /\ slot[c] # Raw /\ slot[c] \in Element
  BY <1>2 DEF Layout, TypeInv, TableOK, CtrlMirrorsSlots
<1>4. e = slot[c] /\ e.key = call.key
  BY <1>1, <1>3 DEF Hits, Read
<1>5. c \in Live(slot) /\ Allocated
  BY <1>3 DEF Live, Layout, CtrlMirrorsSlots
<1>6. c[1] \in Groups(groupMask)
  BY <1>2 DEF Layout, TypeInv, TableOK, Cells
<1> QED
  BY <1>1, <1>2, <1>3, <1>4, <1>5, <1>6

(* A group that a search has missed holds no element with its key. *)
LEMMA MissedIsAbsent ==
  ASSUME Layout, MissedGroup, NEW c \in Live(slot), c[1] = probe.index
  PROVE  slot[c].key # call.key
<1>1. probe.key = call.key
  BY DEF Layout, TypeInv, CallOK, MissedGroup
<1>2. c \in DOMAIN ctrl /\ slot[c] # Raw /\ ctrl[c] = CtrlOf(slot[c].key)
  BY DEF Live, Layout, TypeInv, TableOK, CtrlMirrorsSlots
<1> SUFFICES ASSUME slot[c].key = call.key PROVE FALSE
  OBVIOUS
<1>3. c \in Matches
  BY <1>1, <1>2 DEF Matches
<1> QED
  BY <1>1, <1>2, <1>3 DEF MissedGroup, Read

(* What the end of a search on a found element leaves for the layout. *)
LEMMA DoneKeeps ==
  ASSUME Layout, pc = "find", pc' = "done", UNCHANGED <<call, probe, groupMask>>
  PROVE  ControlOK' /\ ProbeOK' /\ CallOK'
BY DEF Layout, TypeInv, ControlOK, ProbeOK, CallOK

(* An element is taken out, with its byte. *)
Removed(c) ==
    /\ slot' = [slot EXCEPT ![c] = Raw] /\ ctrl' = [ctrl EXCEPT ![c] = EmptySlot]
    /\ UNCHANGED <<groupMask, overflow>>

(* An element takes a place, with the byte of its key. *)
Placed(c, e) ==
    /\ slot' = [slot EXCEPT ![c] = e] /\ ctrl' = [ctrl EXCEPT ![c] = CtrlOf(e.key)]
    /\ UNCHANGED <<groupMask, overflow>>

(* The value of an element is replaced. *)
Reassigned(c, e) ==
    /\ slot' = [slot EXCEPT ![c] = e]
    /\ UNCHANGED <<groupMask, ctrl, overflow>>

(* An assignment to, and an erasure of, the element of a slot. *)
Assigned(c) ==
    /\ pc = "find" /\ Allocated /\ call.op = "insert_or_assign"
    /\ call.key \in Key /\ call.val \in Value /\ slot[c] \in Element /\ slot[c].key = call.key
    /\ Reassigned(c, [key |-> call.key, val |-> call.val])
    /\ Done("exists") /\ UNCHANGED <<slotSize, slotThreshold, mlf, call, probe, rehash>>

(* Where the element stood below the overflow bit of its hash, one is      *)
(* taken off the threshold.                                                *)
Erased(c) ==
    /\ pc = "find" /\ Allocated /\ call.op = "erase"
    /\ call.key \in Key /\ slot[c] \in Element /\ slot[c].key = call.key
    /\ Removed(c) /\ Done("erased") /\ slotSize' = Decrement(slotSize)
    /\ slotThreshold' = IF CausedOverflow(c) THEN Decrement(slotThreshold) ELSE slotThreshold
    /\ UNCHANGED <<mlf, call, probe, rehash>>

(* The assignment finds its element. *)
LEMMA AssignIs ==
  ASSUME Layout, AssignExisting
  PROVE  \E c \in Live(slot) : Assigned(c)
<1>1. pc = "find" /\ call.op = "insert_or_assign" /\ call.val \in Value
  BY DEF AssignExisting, Finding, Layout, TypeInv, CallOK, Insertions
<1>2. PICK c \in Matches : \E e \in Hits(c) :
          /\ slot' = [slot EXCEPT ![c] = [key |-> e.key, val |-> call.val]]
          /\ Done("exists")
          /\ UNCHANGED <<groupMask, ctrl, overflow, slotSize, slotThreshold, mlf, call, probe, rehash>>
  BY DEF AssignExisting
<1>3. PICK e \in Hits(c) :
          /\ slot' = [slot EXCEPT ![c] = [key |-> e.key, val |-> call.val]]
          /\ Done("exists")
          /\ UNCHANGED <<groupMask, ctrl, overflow, slotSize, slotThreshold, mlf, call, probe, rehash>>
  BY <1>2
<1>4. c \in Live(slot) /\ e = slot[c] /\ e \in Element /\ e.key = call.key /\ call.key \in Key /\ Allocated
  BY <1>1, HitIs
<1> QED
  BY <1>1, <1>3, <1>4 DEF Assigned, Reassigned

(* The erasure does. *)
LEMMA EraseIs ==
  ASSUME Layout, EraseFound
  PROVE  \E c \in Live(slot) : Erased(c)
<1>1. pc = "find" /\ call.op = "erase"
  BY DEF EraseFound, Finding
<1> DEFINE Effect(c) ==
             /\ slot' = [slot EXCEPT ![c] = Raw]
             /\ ctrl' = [ctrl EXCEPT ![c] = EmptySlot]
             /\ overflow' = overflow
             /\ slotThreshold' = IF CausedOverflow(c) THEN Decrement(slotThreshold) ELSE slotThreshold
             /\ slotSize' = Decrement(slotSize)
             /\ Done("erased")
             /\ UNCHANGED <<groupMask, mlf, call, probe, rehash>>
<1>2. PICK c \in Matches : \E e \in Hits(c) : Effect(c)
  BY DEF EraseFound, OverflowAfterErase
<1>3. PICK e \in Hits(c) : Effect(c)
  BY <1>2
<1>4. c \in Live(slot) /\ slot[c] \in Element /\ slot[c].key = call.key /\ call.key \in Key /\ Allocated
  BY <1>1, HitIs
<1> QED
  BY <1>1, <1>3, <1>4 DEF Erased, Removed

(* Changes of one cell keep the tables' types, and the mirror. *)
LEMMA OneCell ==
  ASSUME Layout, Allocated, NEW c \in DOMAIN slot, slotSize' \in Nat, slotThreshold' \in Nat,
         \/ Removed(c)
         \/ \E e \in Element : Placed(c, e)
         \/ \E e \in Element : Reassigned(c, e) /\ slot[c] # Raw /\ e.key = slot[c].key
  PROVE  TableOK' /\ CtrlMirrorsSlots'
<1>1. /\ groupMask \in Nat /\ IsPow2(groupMask + 1)
      /\ ctrl \in [Cells(groupMask) -> 0..(HashMask - 1)]
      /\ overflow \in [Groups(groupMask) -> SUBSET (0..(GroupWidth - 1))]
      /\ slot \in [Cells(groupMask) -> Element \cup {Raw}]
      /\ c \in Cells(groupMask)
  BY DEF Layout, TypeInv, TableOK
<1>2. \A e \in Element : e.key \in Key /\ CtrlOf(e.key) \in 0..(HashMask - 1) /\ CtrlOf(e.key) # EmptySlot
                         /\ e # Raw
  BY CtrlOfRange, KeyAssumption DEF Element
<1>3. EmptySlot \in 0..(HashMask - 1)
  BY DEF EmptySlot, HashMask
<1>4. groupMask' = groupMask /\ overflow' = overflow /\ Allocated'
  BY DEF Removed, Placed, Reassigned, Allocated
<1> DEFINE OnlyAtC ==
             /\ ctrl' \in [Cells(groupMask) -> 0..(HashMask - 1)]
             /\ slot' \in [Cells(groupMask) -> Element \cup {Raw}]
             /\ \A d \in Cells(groupMask) : d # c => ctrl'[d] = ctrl[d] /\ slot'[d] = slot[d]
             /\ \/ ctrl'[c] = EmptySlot /\ slot'[c] = Raw
                \/ slot'[c] \in Element /\ ctrl'[c] = CtrlOf(slot'[c].key)
<1>5. OnlyAtC
  <2>1. CASE Removed(c)
    BY <1>1, <1>3, <2>1 DEF Removed
  <2>2. ASSUME NEW e \in Element, Placed(c, e) PROVE OnlyAtC
    BY <1>1, <1>2, <2>2 DEF Placed
  <2>3. ASSUME NEW e \in Element, Reassigned(c, e), slot[c] # Raw, e.key = slot[c].key PROVE OnlyAtC
    <3>1. ctrl[c] = CtrlOf(slot[c].key)
      BY <1>1, <2>3 DEF Layout, CtrlMirrorsSlots, Live
    <3> QED
      BY <1>1, <1>2, <2>3, <3>1 DEF Reassigned
  <2> QED
    BY <2>1, <2>2, <2>3
<1>6. TableOK'
  BY <1>1, <1>4, <1>5 DEF TableOK
<1>7. CtrlMirrorsSlots'
  <2>1. \A d \in Cells(groupMask) : ctrl[d] = EmptySlot <=> slot[d] = Raw
    BY <1>1 DEF Layout, CtrlMirrorsSlots
  <2>2. \A d \in Cells(groupMask) : slot[d] # Raw => ctrl[d] = CtrlOf(slot[d].key)
    BY <1>1 DEF Layout, CtrlMirrorsSlots, Live
  <2>3. \A d \in Cells(groupMask) : ctrl'[d] = EmptySlot <=> slot'[d] = Raw
    BY <1>2, <1>5, <2>1
  <2>4. \A d \in Cells(groupMask) : slot'[d] # Raw => ctrl'[d] = CtrlOf(slot'[d].key)
    BY <1>5, <2>2
  <2>5. DOMAIN ctrl' = Cells(groupMask) /\ DOMAIN slot' = Cells(groupMask)
    BY <1>5
  <2> QED
    BY <1>4, <2>3, <2>4, <2>5 DEF CtrlMirrorsSlots, Live
<1> QED
  BY <1>6, <1>7

(* A count of the elements or of the threshold stays a number. *)
LEMMA DecrementRange ==
  ASSUME NEW n \in Nat
  PROVE  Decrement(n) \in Nat /\ (n > 0 => Decrement(n) = n - 1)
<1>1. HashRange \in Nat \ {0}
  BY HashAssumption
<1> QED
  BY <1>1 DEF Decrement, WordMax

(* A word that is added to is the sum, or less when the sum has wrapped. *)
LEMMA WrapRange ==
  ASSUME NEW n \in Nat
  PROVE  n % HashRange \in Nat /\ n % HashRange <= n
<1>1. HashRange \in Nat \ {0}
  BY HashAssumption
<1>2. CASE n < HashRange
  BY <1>1, <1>2, DivMod
<1>3. CASE n >= HashRange
  BY <1>1, <1>3, DivMod
<1> QED
  BY <1>1, <1>2, <1>3

(* A search and what follows it preserve the layout. *)
LEMMA FindLayout == Layout /\ FindStep => Layout'
<1> SUFFICES ASSUME Layout, FindStep PROVE Layout'
  OBVIOUS
<1> USE DEF Layout, TypeInv
<1>1. pc = "find" /\ mlf' = mlf /\ UNCHANGED <<groupMask, call, rehash>>
  BY DEF FindStep, FindNext, NotFound, ReturnFound, KeepExisting, AssignExisting, EraseFound,
         MissedGroup, Finding, table
<1>2. RehashOK'
  BY <1>1 DEF RehashOK, rehash
<1>3. CASE FindNext
  <2>1. UNCHANGED <<table, rehash>> /\ probe' = NextBucket /\ pc' = pc
    BY <1>3 DEF FindNext
  <2>2. ControlOK' /\ ProbeOK' /\ CallOK'
    BY <1>1, <2>1, NextBucketType DEF ControlOK, ProbeOK, CallOK
  <2> QED
    BY <1>1, <2>1, <2>2, LayoutKept
<1>4. CASE NotFound
  <2>1. UNCHANGED <<table, rehash, probe>> /\ pc' \in {"grow", "done"} /\ (pc' = "grow" => call.op \in Insertions)
    <3>1. call.op \in Insertions \/ call.op = "find" \/ call.op = "erase"
      BY <1>1 DEF CallOK, KeyOps
    <3> QED
      BY <1>4, <3>1 DEF NotFound, Done, Insertions
  <2>2. ControlOK' /\ ProbeOK' /\ CallOK'
    BY <1>1, <2>1 DEF ControlOK, ProbeOK, CallOK
  <2> QED
    BY <1>1, <2>1, <2>2, LayoutKept
<1>5. CASE ReturnFound \/ KeepExisting
  <2>1. UNCHANGED <<table, rehash, probe>> /\ pc' = "done"
    BY <1>5 DEF ReturnFound, KeepExisting, Done
  <2> QED
    BY <1>1, <2>1, DoneKeeps, LayoutKept
<1>6. CASE AssignExisting
  <2>1. PICK c \in Live(slot) : Assigned(c)
    BY <1>6, AssignIs
  <2> DEFINE f == [key |-> call.key, val |-> call.val]
  <2>2. /\ c \in DOMAIN slot /\ slot[c] # Raw /\ Allocated /\ f \in Element /\ f.key = slot[c].key
        /\ Reassigned(c, f) /\ pc' = "done" /\ probe' = probe
        /\ slotSize' \in Nat /\ slotThreshold' \in Nat
    BY <2>1 DEF Assigned, Live, TableOK, Element, Done
  <2> HIDE DEF f
  <2>3. TableOK' /\ CtrlMirrorsSlots'
    BY <2>2, OneCell
  <2> QED
    BY <1>1, <1>2, <2>2, <2>3, DoneKeeps DEF MemoryInv, Allocated
<1>7. CASE EraseFound
  <2>1. PICK c \in Live(slot) : Erased(c)
    BY <1>7, EraseIs
  <2>2. /\ c \in DOMAIN slot /\ Allocated /\ Removed(c) /\ pc' = "done" /\ probe' = probe
        /\ slotSize' \in Nat /\ slotThreshold' \in Nat
    BY <2>1, DecrementRange DEF Erased, Live, TableOK, Done
  <2>3. TableOK' /\ CtrlMirrorsSlots'
    BY <2>2, OneCell
  <2> QED
    BY <1>1, <1>2, <2>2, <2>3, DoneKeeps DEF MemoryInv, Allocated
<1> QED
  BY <1>3, <1>4, <1>5, <1>6, <1>7 DEF FindStep

(* The place of a new element, or of an old one: an empty slot of the      *)
(* group under the prober.                                                 *)
Free(c) == c \in DOMAIN slot /\ slot[c] = Raw /\ c[1] = probe.index /\ c[1] \in Groups(groupMask)

Inserted(c) ==
    /\ pc = "place" /\ Allocated /\ call.op \in Insertions /\ Free(c)
    /\ call.key \in Key /\ call.val \in Value /\ probe.key = call.key
    /\ Placed(c, [key |-> call.key, val |-> call.val])
    /\ slotThreshold' = (slotThreshold + GivenBack) % HashRange /\ slotSize' = slotSize + 1
    /\ Done("inserted") /\ UNCHANGED <<mlf, call, probe, rehash>>

Moved(c, d) ==
    /\ pc = "transfer" /\ pc' = "rehash" /\ Allocated /\ Free(c)
    /\ d \in pending /\ oldSlot[d] \in Element /\ probe.key = oldSlot[d].key
    /\ Placed(c, oldSlot[d])
    /\ oldSlot' = [oldSlot EXCEPT ![d] = Raw] /\ pending' = pending \ {d}
    /\ slotSize' = slotSize + 1
    /\ UNCHANGED <<slotThreshold, mlf, call, probe, oldSize, ret>>

(* An empty byte of the group is that of a free slot. *)
LEMMA FirstEmptyFree ==
  ASSUME Layout, EmptyCells # {}
  PROVE  Free(FirstEmpty)
<1>1. DOMAIN ctrl \subseteq Nat \X Nat /\ DOMAIN ctrl = DOMAIN slot
  BY CellsRange DEF Layout, TypeInv, TableOK
<1>2. FirstEmpty \in EmptyCells
  BY <1>1, FirstEmptyExists
<1>3. FirstEmpty \in DOMAIN ctrl /\ FirstEmpty[1] = probe.index /\ ctrl[FirstEmpty] = EmptySlot
  BY <1>2 DEF EmptyCells
<1> QED
  BY <1>1, <1>3 DEF Free, Layout, CtrlMirrorsSlots, TypeInv, ProbeOK

(* The end of an insertion. *)
LEMMA PlaceNewIs ==
  ASSUME Layout, PlaceNew
  PROVE  \E c \in DOMAIN slot : Inserted(c)
<1>1. pc = "place" /\ EmptyCells # {}
  BY DEF PlaceNew
<1>2. Free(FirstEmpty)
  BY <1>1, FirstEmptyFree
<1>3. call.op \in Insertions /\ call.key \in Key /\ call.val \in Value /\ probe.key = call.key /\ Allocated
  BY <1>1 DEF Layout, MemoryInv, TypeInv, CallOK, KeyOps
<1>4. Inserted(FirstEmpty)
  BY <1>1, <1>2, <1>3 DEF PlaceNew, Inserted, Placed
<1> QED
  BY <1>2, <1>4 DEF Free

(* The next element to move. *)
LEMMA NextToMove ==
  ASSUME Layout, pending # {}
  PROVE  NextPending \in pending /\ oldSlot[NextPending] \in Element /\ NextPending \in DOMAIN oldSlot
<1>1. pending \subseteq Nat \X Nat
  BY DEF Layout, TypeInv, RehashOK
<1>2. NextPending \in pending
  BY <1>1, NextPendingExists
<1> QED
  BY <1>2 DEF Layout, TypeInv, RehashOK

(* An element of the old table takes its place in the new one. *)
LEMMA PlaceMovedIs ==
  ASSUME Layout, PlaceMoved
  PROVE  \E c \in DOMAIN slot, d \in pending : Moved(c, d)
<1>1. pc = "transfer" /\ EmptyCells # {}
  BY DEF PlaceMoved
<1>2. Free(FirstEmpty)
  BY <1>1, FirstEmptyFree
<1>3. pending # {} /\ probe.key = oldSlot[NextPending].key /\ Allocated
  BY <1>1 DEF Layout, MemoryInv, TypeInv, CallOK
<1>4. Moved(FirstEmpty, NextPending)
  BY <1>1, <1>2, <1>3, NextToMove DEF PlaceMoved, Moved, Placed
<1> QED
  BY <1>2, <1>3, <1>4, NextToMove DEF Free

(* What a prober at work for a key has. *)
LEMMA ProbeKey ==
  ASSUME Layout, pc \in {"find", "place", "transfer"}
  PROVE  probe.key \in Key /\ probe.index \in Groups(groupMask) /\ probe.index \in Nat
         /\ probe.step \in Nat /\ OverflowBit(CtrlOf(probe.key)) \in 0..(GroupWidth - 1)
<1>1. probe.key \in Key
  <2>1. CASE pc = "transfer"
    <3>1. oldSlot[NextPending] \in Element /\ probe.key = oldSlot[NextPending].key
      BY <2>1, NextToMove DEF Layout, TypeInv, CallOK
    <3> QED
      BY <3>1 DEF Element
  <2>2. CASE pc \in {"find", "place"}
    BY <2>2 DEF Layout, TypeInv, CallOK, KeyOps
  <2> QED
    BY <2>1, <2>2
<1>2. CtrlOf(probe.key) \in Nat
  BY <1>1, CtrlOfRange DEF HashMask
<1> QED
  BY <1>1, <1>2, BitRange DEF Layout, TypeInv, ControlOK, ProbeOK

(* The steps of an insertion and of a rehash preserve the layout. *)
LEMMA InsertLayout == Layout /\ InsertStep => Layout'
<1> SUFFICES ASSUME Layout, InsertStep PROVE Layout'
  OBVIOUS
<1> USE DEF Layout, TypeInv
<1>1. mlf' = mlf /\ call' = call
  BY DEF InsertStep, Grow, NoGrow, TransferNext, RehashDone, PlaceNext, PlaceNew, PlaceMoved, RehashImpl
<1>2. CASE Grow
  <2>1. /\ UNCHANGED <<call, probe, mlf>> /\ pc = "grow"
        /\ \/ UNCHANGED <<table, rehash>> /\ Done("throws")
           \/ \E c : /\ CreateSlots(c, mlf) /\ ValidCapacity(c)
                     /\ Groups(groupMask) \subseteq Groups(MaskOf(c))
    BY <1>2, GrowIs DEF TableOK
  <2>2. CASE UNCHANGED <<table, rehash>> /\ Done("throws")
    <3>1. ControlOK' /\ ProbeOK' /\ CallOK' /\ pc' = "done"
      BY <2>1, <2>2 DEF ControlOK, ProbeOK, CallOK, Done, table
    <3> QED
      BY <2>1, <2>2, <3>1, LayoutKept
  <2>3. ASSUME NEW c, CreateSlots(c, mlf), ValidCapacity(c), Groups(groupMask) \subseteq Groups(MaskOf(c))
        PROVE  Layout'
    <3>1. TableOK' /\ RehashOK' /\ MemoryInv' /\ CtrlMirrorsSlots' /\ pc' = "rehash" /\ groupMask' = MaskOf(c)
      BY <2>3, CreateSlotsIs DEF NewTable
    <3>2. ControlOK' /\ ProbeOK' /\ CallOK'
      BY <2>1, <2>3, <3>1 DEF ControlOK, ProbeOK, CallOK
    <3> QED
      BY <1>1, <3>1, <3>2
  <2> QED
    BY <2>1, <2>2, <2>3
<1>3. CASE NoGrow
  <2>1. /\ pc = "grow" /\ pc' = "place" /\ probe' = StartProbe(call.key, groupMask)
        /\ UNCHANGED <<table, mlf, call, rehash>> /\ ~ NeedGrow
    BY <1>3 DEF NoGrow
  <2>2. call.op \in Insertions /\ call.key \in Key /\ groupMask \in Nat /\ groupMask' = groupMask
    BY <2>1 DEF CallOK, KeyOps, TableOK, table
  <2>3. Allocated
    BY <2>1 DEF MemoryInv, NeedGrow, TableOK
  <2>4. ControlOK' /\ ProbeOK' /\ CallOK'
    BY <2>1, <2>2, StartProbeType DEF ControlOK, ProbeOK, CallOK
  <2> QED
    BY <2>1, <2>3, <2>4, LayoutKept
<1>4. CASE TransferNext
  <2>1. /\ pc = "rehash" /\ pc' = "transfer" /\ pending # {}
        /\ probe' = StartProbe(oldSlot[NextPending].key, groupMask)
        /\ UNCHANGED <<table, mlf, call, rehash>>
    BY <1>4 DEF TransferNext
  <2>2. oldSlot[NextPending].key \in Key /\ groupMask \in Nat /\ groupMask' = groupMask
    BY <2>1, NextToMove DEF Element, TableOK, table
  <2>3. Allocated /\ NextPending' = NextPending /\ oldSlot' = oldSlot /\ pending' = pending
    BY <2>1 DEF MemoryInv, rehash, NextPending
  <2> DEFINE k == oldSlot[NextPending].key
  <2>4. probe' = StartProbe(k, groupMask) /\ k \in Key /\ k = (oldSlot[NextPending].key)'
    BY <2>1, <2>2, <2>3
  <2> HIDE DEF k
  <2>5. ControlOK' /\ ProbeOK' /\ CallOK'
    BY <2>1, <2>2, <2>3, <2>4, StartProbeType DEF ControlOK, ProbeOK, CallOK
  <2> QED
    BY <2>1, <2>3, <2>5, LayoutKept
<1>5. CASE RehashDone
  <2>1. /\ pc = "rehash" /\ pending = {} /\ oldSlot' = NoSlots /\ oldSize' = 0
        /\ UNCHANGED <<table, mlf, call, pending>>
        /\ \/ call.op \in Insertions /\ pc' = "place" /\ probe' = StartProbe(call.key, groupMask)
           \/ pc' = "done" /\ probe' = probe
    BY <1>5 DEF RehashDone, Done
  <2>2. Allocated /\ groupMask \in Nat /\ groupMask' = groupMask
    BY <2>1 DEF MemoryInv, TableOK, table
  <2>3. TableOK' /\ MemoryInv' /\ CtrlMirrorsSlots'
    BY <2>1, <2>2 DEF table, TableOK, MemoryInv, Allocated, CtrlMirrorsSlots, Live
  <2>4. RehashOK'
    BY <2>1 DEF RehashOK, NoSlots
  <2>5. call.op \in Insertions => call.key \in Key
    BY DEF CallOK, KeyOps
  <2>6. ControlOK' /\ ProbeOK' /\ CallOK'
    BY <2>1, <2>2, <2>5, StartProbeType DEF ControlOK, ProbeOK, CallOK
  <2> QED
    BY <1>1, <2>3, <2>4, <2>6
<1>6. CASE PlaceNext
  <2>1. /\ pc \in {"place", "transfer"} /\ probe' = NextBucket
        /\ overflow' = [overflow EXCEPT ![probe.index] = @ \cup {OverflowBit(CtrlOf(probe.key))}]
        /\ UNCHANGED <<groupMask, ctrl, slot, slotSize, slotThreshold, mlf, pc, call, rehash, ret>>
    BY <1>6 DEF PlaceNext
  <2>2. Allocated
    BY <2>1 DEF MemoryInv
  <2>3. overflow' \in [Groups(groupMask) -> SUBSET (0..(GroupWidth - 1))]
    BY <2>1, ProbeKey DEF TableOK
  <2>4. TableOK' /\ RehashOK' /\ MemoryInv'
    BY <2>1, <2>2, <2>3 DEF TableOK, RehashOK, rehash, MemoryInv, Allocated
  <2>5. CtrlMirrorsSlots'
    BY <2>1, <2>2 DEF CtrlMirrorsSlots, Allocated, Live
  <2>6. ControlOK' /\ ProbeOK' /\ CallOK'
    <3>1. NextPending' = NextPending /\ oldSlot' = oldSlot /\ pending' = pending
      BY <2>1 DEF rehash, NextPending
    <3> QED
      BY <2>1, <3>1, NextBucketType DEF ControlOK, ProbeOK, CallOK
  <2> QED
    BY <1>1, <2>4, <2>5, <2>6
<1>7. CASE PlaceNew
  <2>1. PICK c \in DOMAIN slot : Inserted(c)
    BY <1>7, PlaceNewIs
  <2> DEFINE e == [key |-> call.key, val |-> call.val]
  <2>2. e \in Element /\ Placed(c, e) /\ Allocated
        /\ UNCHANGED <<mlf, call, probe, rehash>> /\ pc' = "done" /\ groupMask' = groupMask
    BY <2>1 DEF Inserted, Element, Done, Placed
  <2>3. slotSize' \in Nat /\ slotThreshold' \in Nat
    <3>1. slotThreshold + GivenBack \in Nat /\ slotSize + 1 \in Nat
      BY DEF TableOK, GivenBack
    <3> QED
      BY <2>1, <3>1, WrapRange DEF Inserted
  <2> HIDE DEF e
  <2>4. TableOK' /\ CtrlMirrorsSlots'
    BY <2>2, <2>3, OneCell
  <2>5. RehashOK' /\ MemoryInv'
    BY <2>2 DEF RehashOK, rehash, MemoryInv, Allocated
  <2>6. ControlOK' /\ ProbeOK' /\ CallOK'
    BY <2>1, <2>2 DEF ControlOK, ProbeOK, CallOK
  <2> QED
    BY <1>1, <2>4, <2>5, <2>6
<1>8. CASE PlaceMoved
  <2>1. PICK c \in DOMAIN slot, d \in pending : Moved(c, d)
    BY <1>8, PlaceMovedIs
  <2>2. /\ oldSlot[d] \in Element /\ Placed(c, oldSlot[d]) /\ Allocated
        /\ UNCHANGED <<mlf, call, probe, oldSize>> /\ pc' = "rehash" /\ groupMask' = groupMask
        /\ oldSlot' = [oldSlot EXCEPT ![d] = Raw] /\ pending' = pending \ {d}
    BY <2>1 DEF Moved, Placed
  <2>3. slotSize' \in Nat /\ slotThreshold' \in Nat
    BY <2>1 DEF Moved, TableOK
  <2>4. TableOK' /\ CtrlMirrorsSlots'
    BY <2>2, <2>3, OneCell
  <2>5. RehashOK' /\ MemoryInv'
    BY <2>2 DEF RehashOK, MemoryInv, Allocated
  <2>6. ControlOK' /\ ProbeOK' /\ CallOK'
    BY <2>1, <2>2 DEF ControlOK, ProbeOK, CallOK
  <2> QED
    BY <1>1, <2>4, <2>5, <2>6
<1> QED
  BY <1>2, <1>3, <1>4, <1>5, <1>6, <1>7, <1>8 DEF InsertStep

(* Every step preserves the layout. *)
LEMMA NextLayout == Layout /\ [Next]_vars => Layout'
<1> SUFFICES ASSUME Layout, [Next]_vars PROVE Layout'
  OBVIOUS
<1>1. CASE Return
  <2>1. UNCHANGED <<table, mlf, rehash>> /\ pc' = "idle" /\ call' = NoCall /\ probe' = NoProbe
    BY <1>1 DEF Return
  <2>2. ControlOK' /\ ProbeOK' /\ CallOK'
    <3>1. 0 \in Groups(groupMask')
      BY <2>1 DEF Groups, Layout, TypeInv, TableOK, table
    <3> QED
      BY <2>1, <3>1 DEF ControlOK, ProbeOK, CallOK, NoCall, NoProbe, KeyOps, Insertions
  <2> QED
    BY <2>1, <2>2, LayoutKept DEF Layout, TypeInv
<1>2. CASE UNCHANGED vars
  <2>1. UNCHANGED <<table, rehash, mlf, pc, call, probe>>
    BY <1>2 DEF vars
  <2>2. ControlOK' /\ ProbeOK' /\ CallOK'
    BY <2>1 DEF Layout, TypeInv, ControlOK, ProbeOK, CallOK, table, rehash, NextPending
  <2> QED
    BY <2>1, <2>2, LayoutKept DEF Layout, TypeInv, MemoryInv
<1> QED
  BY <1>1, <1>2, BeginningLayout, ManageLayout, FindLayout, InsertLayout DEF Next

(* A table is constructed with no memory or with empty groups. *)
LEMMA InitLayout == Init => Layout
<1> SUFFICES ASSUME Init PROVE Layout
  OBVIOUS
<1>1. PICK n \in InitCapacities :
        LET capacity == CalcCapacity(ShrinkToFitCapacity(n, DefaultLoadFactor), 0)
            mask == IF n = 0 THEN 0 ELSE capacity \div GroupWidth - 1
        IN /\ groupMask = mask /\ ctrl = NoCtrl(mask) /\ overflow = NoOverflow(mask)
           /\ slot = AllRaw(mask)
           /\ slotThreshold = IF n = 0 THEN 0 ELSE CalcSlotThreshold(DefaultLoadFactor, capacity)
  BY DEF Init
<1> DEFINE capacity == CalcCapacity(ShrinkToFitCapacity(n, DefaultLoadFactor), 0)
<1>2. n \in Nat /\ DefaultLoadFactor \in LoadFactors
  BY ArgsAssumption, LoadFactorAssumption
<1>3. capacity \in Nat /\ MaskOf(capacity) \in Nat /\ MaskOf(capacity) # 0 /\ IsPow2(MaskOf(capacity) + 1)
  BY <1>2, FitRange, CapacityRange
<1>4. /\ groupMask = IF n = 0 THEN 0 ELSE MaskOf(capacity)
      /\ slotThreshold = IF n = 0 THEN 0 ELSE CalcSlotThreshold(DefaultLoadFactor, capacity)
  BY <1>1 DEF MaskOf
<1>5. ctrl = NoCtrl(groupMask) /\ overflow = NoOverflow(groupMask) /\ slot = AllRaw(groupMask)
  BY <1>1
<1> HIDE DEF capacity
<1>6. groupMask \in Nat /\ IsPow2(groupMask + 1) /\ slotThreshold \in Nat
  <2>1. IsPow2(0 + 1)
    BY DEF IsPow2
  <2> QED
    BY <1>2, <1>3, <1>4, <2>1, ThresholdRange
<1>7. slotSize = 0 /\ mlf = DefaultLoadFactor /\ pc = "idle" /\ call = NoCall /\ probe = NoProbe
      /\ oldSlot = NoSlots /\ oldSize = 0 /\ pending = {}
  BY DEF Init
<1>8. TableOK
  BY <1>5, <1>6, <1>7 DEF TableOK, NoCtrl, NoOverflow, AllRaw, EmptySlot, HashMask
<1>9. CtrlMirrorsSlots /\ MemoryInv
  <2>1. Live(slot) = {}
    BY <1>5 DEF AllRaw, Live
  <2>2. \A c \in DOMAIN ctrl : ctrl[c] = EmptySlot /\ slot[c] = Raw
    BY <1>5 DEF NoCtrl, AllRaw
  <2>3. ~ Allocated => overflow = NoOverflow(0) /\ slotThreshold = 0
    BY <1>3, <1>4, <1>5 DEF Allocated
  <2> QED
    BY <1>7, <2>1, <2>2, <2>3 DEF CtrlMirrorsSlots, MemoryInv
<1>10. ControlOK /\ ProbeOK /\ CallOK /\ RehashOK
  BY <1>6, <1>7 DEF ControlOK, ProbeOK, CallOK, RehashOK, NoCall, NoProbe, NoSlots, KeyOps, Insertions, Groups
<1> QED
  BY <1>2, <1>7, <1>8, <1>9, <1>10 DEF Layout, TypeInv

(* The layout holds of every state. *)
LEMMA LayoutAlways == Spec => []Layout
<1> QED
  BY InitLayout, NextLayout, PTL DEF Spec

(***************************************************************************)
(* The variables keep their types: the number of groups stays a power of   *)
(* two, the prober stays in the table, and what a rehash has still to move *)
(* are slots of the old one.                                               *)
(***************************************************************************)
THEOREM TypeCorrect == Spec => []TypeOK
<1>1. Layout => TypeOK
  BY TypeParts DEF Layout
<1> QED
  BY <1>1, LayoutAlways, PTL

(***************************************************************************)
(* A byte marks a slot as used exactly when an element lives in it, with   *)
(* the reduced hash of its key, in every state of every call; the static   *)
(* groups of a table without memory are never written to.                  *)
(***************************************************************************)
THEOREM Mirror == Spec => []CtrlMirrorsSlots
<1>1. Layout => CtrlMirrorsSlots
  BY DEF Layout
<1> QED
  BY <1>1, LayoutAlways, PTL

-----------------------------------------------------------------------------
(* A step, in what it does to the table *)

Emptying == Emptied /\ pc = "manage" /\ UNCHANGED <<call, probe>>

Resizing ==
    /\ \E c, m : /\ m \in LoadFactors /\ CreateSlots(c, m) /\ ValidCapacity(c)
                 /\ c # SlotCapacity
    /\ call.op \in Managements \cup Insertions /\ UNCHANGED <<call, probe>>
    /\ pc = IF call.op \in Managements THEN "manage" ELSE "grow"

(* A group without an empty slot is marked and left. *)
Marking ==
    /\ pc \in {"place", "transfer"} /\ Allocated /\ probe' = NextBucket
    /\ overflow' = [overflow EXCEPT ![probe.index] = @ \cup {OverflowBit(CtrlOf(probe.key))}]
    /\ UNCHANGED <<groupMask, ctrl, slot, slotSize, slotThreshold, mlf, pc, call, rehash, ret>>

(* The old slots are given back. *)
Finishing ==
    /\ pc = "rehash" /\ pending = {} /\ oldSlot' = NoSlots /\ pending' = {} /\ oldSize' = 0
    /\ Allocated /\ UNCHANGED <<table, mlf, call>>
    /\ \/ call.op \in Insertions /\ pc' = "place" /\ probe' = StartProbe(call.key, groupMask) /\ ret' = ret
       \/ call.op \notin Insertions /\ Done("ok")

(* Between the allocation and the end of a rehash there are two arrays. *)
InRehash == pc \in {"rehash", "transfer"}
Quiet == UNCHANGED <<table, rehash>> /\ (InRehash' <=> InRehash)

(* Nothing else touches the elements. *)
LEMMA StepIs ==
  ASSUME Layout, [Next]_vars
  PROVE  \/ Quiet \/ Emptying \/ Resizing \/ Marking \/ Finishing
         \/ \E c \in Live(slot) : Assigned(c) \/ Erased(c)
         \/ \E c \in DOMAIN slot : Inserted(c)
         \/ \E c \in DOMAIN slot, d \in pending : Moved(c, d)
<1>1. ASSUME BeginKeyOp \/ BeginManagement \/ Return \/ UNCHANGED vars
      PROVE  Quiet
  BY <1>1 DEF BeginKeyOp, BeginManagement, Begin, Return, vars, Quiet, InRehash
<1>2. CASE Manage
  BY <1>2, ManageIs DEF Emptying, Resized, Resizing, Untouched, Quiet, InRehash, Done
<1>3. CASE FindStep
  <2>1. FindNext \/ ReturnFound \/ KeepExisting => Quiet
    BY DEF FindNext, ReturnFound, KeepExisting, Quiet, MissedGroup, Finding, InRehash, Done
  <2>2. ASSUME NotFound PROVE Quiet
    <3>1. call.op \in Insertions \/ call.op = "find" \/ call.op = "erase"
      BY <2>2 DEF NotFound, MissedGroup, Layout, TypeInv, CallOK, KeyOps
    <3> QED
      BY <2>2, <3>1 DEF NotFound, Quiet, MissedGroup, InRehash, Done, Insertions
  <2> QED
    BY <1>3, <2>1, <2>2, AssignIs, EraseIs DEF FindStep
<1>4. CASE InsertStep
  <2>1. Grow => Quiet \/ Resizing
    <3> SUFFICES ASSUME Grow PROVE Quiet \/ Resizing
      OBVIOUS
    <3>1. call.op \in Insertions /\ call.op \notin Managements /\ mlf \in LoadFactors
      BY DEF Layout, TypeInv, CallOK, Grow, Insertions, Managements
    <3> QED
      BY <3>1, GrowIs DEF Resizing, Quiet, InRehash, Done, Layout, TypeInv, TableOK
  <2>2. NoGrow \/ TransferNext => Quiet
    BY DEF NoGrow, TransferNext, Quiet, InRehash
  <2>3. PlaceNext => Marking
    BY DEF PlaceNext, Marking, Layout, MemoryInv
  <2>4. RehashDone => Finishing
    BY DEF RehashDone, Finishing, Layout, MemoryInv
  <2> QED
    BY <1>4, <2>1, <2>2, <2>3, <2>4, PlaceNewIs, PlaceMovedIs DEF InsertStep
<1> QED
  BY <1>1, <1>2, <1>3, <1>4 DEF Next

-----------------------------------------------------------------------------
(* Reachability *)

Home(k) == IndexForHash(Hash[k], groupMask)

(* The n groups before the n-th on the probe sequence of a key carry the   *)
(* overflow bit of its hash.                                               *)
Marked(k, n) == \A m \in 0..(n - 1) :
    OverflowBit(CtrlOf(k)) \in overflow[Probe(Home(k), m, groupMask)]

(***************************************************************************)
(* A prober at work has followed the probe sequence of its key through     *)
(* groups that all carry its overflow bit.                                 *)
(***************************************************************************)
OnSequence(k, i, n) == i = Probe(Home(k), n, groupMask) /\ Marked(k, n)
Probing == Allocated /\ pc \in {"find", "place", "transfer"}
ProbeInv == Probing => OnSequence(probe.key, probe.index, probe.step)

(* The probe sequence of a key stays in the table. *)
LEMMA ProbeGroups ==
  ASSUME TableOK, Allocated, NEW k \in Key, NEW n \in Nat
  PROVE  /\ Home(k) \in 0..groupMask
         /\ Probe(Home(k), n, groupMask) \in 0..groupMask
         /\ Probe(Home(k), n, groupMask) \in Groups(groupMask)
<1>1. Home(k) \in 0..groupMask
  BY IndexRange DEF TableOK, Allocated, Home
<1>2. Probe(Home(k), n, groupMask) \in 0..groupMask
  BY <1>1, ProbeRange DEF TableOK
<1> QED
  BY <1>1, <1>2 DEF Groups, Allocated

(***************************************************************************)
(* A loop that asks nobody where it ends may go through the table more     *)
(* than once, but the group it is in then is one it has been in before:    *)
(* the sequence covers the table, so its first visit came within the       *)
(* search's limit.                                                         *)
(***************************************************************************)
LEMMA ReachWithin ==
  ASSUME TableOK, Allocated, NEW k \in Key, NEW n \in Nat, NEW g,
         OnSequence(k, g, n)
  PROVE  Reachable(k, g)
<1>1. g = Probe(Home(k), n, groupMask) /\ Marked(k, n) /\ groupMask \in Nat
  BY DEF OnSequence, TableOK
<1>2. Home(k) \in 0..groupMask /\ g \in 0..groupMask
  BY <1>1, ProbeGroups
<1>3. PICK i \in 0..groupMask : Probe(Home(k), i, groupMask) = g /\ i <= n
  <2>1. CASE n <= groupMask
    BY <1>1, <2>1
  <2>2. CASE n > groupMask
    <3>1. PICK i \in 0..groupMask : Probe(Home(k), i, groupMask) = g
      BY <1>2, ProbeCovers DEF TableOK
    <3> QED
      BY <1>1, <2>2, <3>1
  <2> QED
    BY <1>1, <2>1, <2>2
<1>4. Marked(k, i)
  <2>1. 0..(i - 1) \subseteq 0..(n - 1)
    BY <1>1, <1>3
  <2> QED
    BY <1>1, <2>1 DEF Marked
<1> QED
  BY <1>3, <1>4 DEF Reachable, Marked, Home

(* While a table keeps its size, marks are only added. *)
MarksKept == /\ groupMask' = groupMask
             /\ \A g \in Groups(groupMask) : overflow[g] \subseteq overflow'[g]

(* A path that is marked stays so. *)
LEMMA MarkedKept ==
  ASSUME TableOK, Allocated, MarksKept, NEW k \in Key, NEW n \in Nat, Marked(k, n)
  PROVE  Marked(k, n)'
<1>1. Home(k)' = Home(k) /\ groupMask' = groupMask
  BY DEF MarksKept, Home
<1>2. ASSUME NEW m \in 0..(n - 1)
      PROVE  OverflowBit(CtrlOf(k)) \in overflow'[Probe(Home(k), m, groupMask)]
  <2>1. m \in Nat
    OBVIOUS
  <2>2. Probe(Home(k), m, groupMask) \in Groups(groupMask)
    BY <2>1, ProbeGroups
  <2> QED
    BY <2>2 DEF Marked, MarksKept
<1> QED
  BY <1>1, <1>2 DEF Marked

(* So does a group that a search can reach. *)
LEMMA ReachableKept ==
  ASSUME TableOK, Allocated, MarksKept, NEW k \in Key, NEW g, Reachable(k, g)
  PROVE  Reachable(k, g)'
<1>1. Home(k)' = Home(k) /\ groupMask' = groupMask /\ groupMask \in Nat
  BY DEF MarksKept, Home, TableOK
<1>2. PICK n \in 0..groupMask : Probe(Home(k), n, groupMask) = g /\ Marked(k, n)
  BY DEF Reachable, Marked, Home
<1>3. Marked(k, n)'
  BY <1>1, <1>2, MarkedKept
<1> QED
  BY <1>1, <1>2, <1>3 DEF Reachable, Marked, Home

(* A step that adds marks and lets the elements be, or adds one that can be *)
(* reached, keeps the property.                                             *)
LEMMA ElementsKept ==
  ASSUME TableOK, Allocated, MarksKept, EveryElementReachable,
         DOMAIN slot' = DOMAIN slot,
         \A c \in DOMAIN slot : slot'[c] # Raw =>
             \/ slot[c] # Raw /\ slot'[c].key = slot[c].key
             \/ slot'[c].key \in Key /\ Reachable(slot'[c].key, c[1])
  PROVE  EveryElementReachable'
<1> SUFFICES ASSUME NEW c \in DOMAIN slot, slot'[c] # Raw, NEW k, k = slot'[c].key
             PROVE  Reachable(k, c[1])'
  BY DEF EveryElementReachable, Live
<1>1. k \in Key /\ Reachable(k, c[1])
  <2>1. CASE slot[c] # Raw /\ slot'[c].key = slot[c].key
    <3>1. slot[c] \in Element
      BY <2>1 DEF TableOK
    <3> QED
      BY <2>1, <3>1 DEF Element, EveryElementReachable, Live
  <2>2. CASE slot'[c].key \in Key /\ Reachable(slot'[c].key, c[1])
    BY <2>2
  <2> QED
    BY <2>1, <2>2
<1> QED
  BY <1>1, ReachableKept

(* A group that carries the bit of a prober's key lets it pass. *)
LEMMA NextOnSequence ==
  ASSUME Layout, Probing, OnSequence(probe.key, probe.index, probe.step),
         OverflowBit(CtrlOf(probe.key)) \in overflow[probe.index]
  PROVE  OnSequence(NextBucket.key, NextBucket.index, NextBucket.step)
<1> DEFINE k == probe.key
           n == probe.step
<1>1. groupMask \in Nat /\ n \in Nat /\ Home(k) \in 0..groupMask
  BY ProbeKey, ProbeGroups DEF Layout, TypeInv, TableOK, Probing
<1>2. NextBucket.key = k /\ NextBucket.step = n + 1
      /\ NextBucket.index = NextIndex(probe.index, n, groupMask)
  BY DEF NextBucket
<1>3. NextBucket.index = Probe(Home(k), n + 1, groupMask)
  BY <1>1, <1>2, ProbeStep DEF OnSequence
<1>4. Marked(k, n + 1)
  <2>1. ASSUME NEW m \in 0..n
        PROVE  OverflowBit(CtrlOf(k)) \in overflow[Probe(Home(k), m, groupMask)]
    <3>1. m \in 0..(n - 1) \/ m = n
      BY <1>1
    <3> QED
      BY <3>1 DEF OnSequence, Marked
  <2>2. (n + 1) - 1 = n
    BY <1>1
  <2> HIDE DEF k, n
  <2> QED
    BY <2>1, <2>2 DEF Marked
<1> QED
  BY <1>2, <1>3, <1>4 DEF OnSequence

(* The home group of a key starts its sequence. *)
LEMMA StartOnSequence ==
  ASSUME NEW k, StartProbe(k, groupMask) = probe'
  PROVE  OnSequence(probe'.key, probe'.index, probe'.step)
<1>1. probe'.key = k /\ probe'.step = 0 /\ probe'.index = Home(k)
  BY DEF StartProbe, Home
<1>2. Marked(k, 0)
  BY DEF Marked
<1> QED
  BY <1>1, <1>2 DEF OnSequence, Probe

(* The group under a prober at work is within the reach of its key. *)
LEMMA ProbeReaches ==
  ASSUME Layout, ProbeInv, Probing
  PROVE  Reachable(probe.key, probe.index)
BY ProbeKey, ReachWithin DEF ProbeInv, Layout, TypeInv, Probing

(* One more mark keeps the old ones, and lets the prober pass. *)
LEMMA MarkingKeeps ==
  ASSUME Layout, Marking
  PROVE  /\ MarksKept /\ overflow' \in [Groups(groupMask) -> SUBSET (0..(GroupWidth - 1))]
         /\ OverflowBit(CtrlOf(probe.key)) \in overflow'[probe.index]
BY ProbeKey DEF MarksKept, Marking, Layout, TypeInv, TableOK

(* A prober that leaves a marked group stays on its sequence. *)
LEMMA MarkingProbes ==
  ASSUME Layout, ProbeInv, Marking
  PROVE  ProbeInv'
<1>0. PICK k, n : k = probe.key /\ n = probe.step
  OBVIOUS
<1>1. /\ Allocated /\ k \in Key /\ n \in Nat /\ groupMask \in Nat
      /\ OnSequence(k, probe.index, n)
  BY <1>0, ProbeKey DEF Marking, ProbeInv, Probing, Layout, TypeInv, TableOK
<1>2. /\ probe'.key = k /\ probe'.step = n + 1 /\ groupMask' = groupMask
      /\ probe'.index = NextIndex(probe.index, n, groupMask)
  BY <1>0 DEF Marking, NextBucket
<1>3. Home(k) \in 0..groupMask
  BY <1>1, ProbeGroups DEF Layout, TypeInv
<1>4. probe'.index = Probe(Home(k), n + 1, groupMask)
  BY <1>1, <1>2, <1>3, ProbeStep DEF OnSequence
<1>5. ASSUME NEW m \in 0..n
      PROVE  OverflowBit(CtrlOf(k)) \in overflow'[Probe(Home(k), m, groupMask)]
  <2>1. CASE m = n
    BY <1>0, <1>1, <2>1, MarkingKeeps DEF OnSequence
  <2>2. CASE m # n
    <3>1. m \in 0..(n - 1) /\ m \in Nat
      BY <1>1, <2>2
    <3>2. Probe(Home(k), m, groupMask) \in Groups(groupMask)
      BY <1>1, <3>1, ProbeGroups DEF Layout, TypeInv
    <3> QED
      BY <1>0, <1>1, <3>1, <3>2, MarkingKeeps DEF OnSequence, Marked, MarksKept
  <2> QED
    BY <2>1, <2>2
<1>6. (n + 1) - 1 = n
  BY <1>1
<1>7. Marked(k, n + 1)'
  BY <1>2, <1>5, <1>6 DEF Marked, Home
<1> QED
  BY <1>2, <1>4, <1>7 DEF ProbeInv, OnSequence, Home

(* A prober at work is on its sequence after every step. *)
LEMMA NextProbe == Layout /\ ProbeInv /\ [Next]_vars => ProbeInv'
<1> SUFFICES ASSUME Layout, ProbeInv, [Next]_vars PROVE ProbeInv'
  OBVIOUS
<1>1. ASSUME UNCHANGED <<groupMask, overflow>>, NEW k, probe' = StartProbe(k, groupMask)
      PROVE  ProbeInv'
  BY <1>1, StartOnSequence DEF ProbeInv, OnSequence, Marked, Home
<1>2. ASSUME pc' \notin {"find", "place", "transfer"} PROVE ProbeInv'
  BY <1>2 DEF ProbeInv, Probing
<1>3. CASE BeginKeyOp
  BY <1>1, <1>3 DEF BeginKeyOp, Begin, KeyOps, Insertions, table
<1>4. CASE BeginManagement
  BY <1>2, <1>4 DEF BeginManagement, Begin, KeyOps, Insertions
<1>5. CASE Manage
  BY <1>2, <1>5, ManageIs DEF Emptied, Resized, CreateSlots, Untouched, Done
<1>6. CASE FindNext
  <2>1. /\ UNCHANGED <<groupMask, overflow, pc>> /\ probe' = NextBucket /\ pc = "find"
        /\ OverflowBit(CtrlOf(probe.key)) \in overflow[probe.index]
    BY <1>6 DEF FindNext, MissedGroup, EndsSearch, table
  <2>2. ASSUME Probing'
        PROVE  OnSequence(NextBucket.key, NextBucket.index, NextBucket.step)
    BY <2>1, <2>2, NextOnSequence DEF ProbeInv, Probing, Allocated
  <2> QED
    BY <2>1, <2>2 DEF ProbeInv, OnSequence, Marked, Home
<1>7. CASE NotFound \/ ReturnFound \/ KeepExisting \/ AssignExisting \/ EraseFound
  <2>1. call.op \in KeyOps
    BY <1>7 DEF NotFound, MissedGroup, ReturnFound, KeepExisting, AssignExisting, EraseFound,
                Finding, Layout, TypeInv, CallOK
  <2> QED
    BY <1>2, <1>7, <2>1 DEF NotFound, ReturnFound, KeepExisting, AssignExisting, EraseFound, Done,
                            KeyOps, Insertions
<1>8. CASE Grow
  BY <1>2, <1>8, GrowIs DEF CreateSlots, Done, Layout, TypeInv, TableOK
<1>9. CASE NoGrow \/ TransferNext
  BY <1>1, <1>9 DEF NoGrow, TransferNext, table
<1>10. CASE RehashDone
  BY <1>1, <1>2, <1>10 DEF RehashDone, Done, table
<1>11. CASE PlaceNext
  BY <1>11, MarkingProbes DEF PlaceNext, Marking, Layout, MemoryInv
<1>12. CASE PlaceNew \/ PlaceMoved \/ Return
  BY <1>2, <1>12 DEF PlaceNew, PlaceMoved, Return, Done
<1>13. CASE UNCHANGED vars
  BY <1>13 DEF vars, table, ProbeInv, Probing, Allocated, OnSequence, Marked, Home
<1> QED
  BY <1>3, <1>4, <1>5, <1>6, <1>7, <1>8, <1>9, <1>10, <1>11, <1>12, <1>13
  DEF Next, FindStep, InsertStep

(* A place taken in a group within reach is within reach. *)
LEMMA PlacedReachable ==
  ASSUME Layout, ProbeInv, EveryElementReachable, Probing,
         NEW c, Free(c), NEW e \in Element, Placed(c, e), e.key = probe.key
  PROVE  EveryElementReachable'
<1>1. Reachable(probe.key, probe.index) /\ probe.key \in Key
  BY ProbeReaches, ProbeKey DEF Probing
<1>2. MarksKept /\ DOMAIN slot' = DOMAIN slot
  BY DEF MarksKept, Placed
<1>3. ASSUME NEW d \in DOMAIN slot, slot'[d] # Raw
      PROVE  \/ slot[d] # Raw /\ slot'[d].key = slot[d].key
             \/ slot'[d].key \in Key /\ Reachable(slot'[d].key, d[1])
  <2>1. CASE d = c
    BY <1>1, <2>1 DEF Placed, Free
  <2>2. CASE d # c
    <3>1. slot'[d] = slot[d]
      BY <2>2 DEF Placed
    <3> QED
      BY <1>3, <3>1
  <2> QED
    BY <2>1, <2>2
<1> QED
  BY <1>2, <1>3, ElementsKept DEF Layout, TypeInv, Probing

(* Every step keeps every element within reach. *)
LEMMA NextReach == Layout /\ ProbeInv /\ EveryElementReachable /\ [Next]_vars => EveryElementReachable'
<1> SUFFICES ASSUME Layout, ProbeInv, EveryElementReachable, [Next]_vars PROVE EveryElementReachable'
  OBVIOUS
<1>1. TableOK
  BY DEF Layout, TypeInv
<1>2. ASSUME UNCHANGED table PROVE EveryElementReachable'
  BY <1>2 DEF EveryElementReachable, Live, Reachable, table
<1>3. ASSUME NEW mask, NewTable(mask) PROVE EveryElementReachable'
  BY <1>3 DEF NewTable, AllRaw, EveryElementReachable, Live
<1>4. CASE Emptying
  BY <1>3, <1>4 DEF Emptying, Emptied
<1>5. CASE Resizing
  BY <1>3, <1>5, CreateSlotsIs DEF Resizing
<1>6. CASE Marking
  <2>1. MarksKept /\ slot' = slot /\ Allocated
    BY <1>6, MarkingKeeps DEF Marking
  <2> QED
    BY <1>1, <2>1, ElementsKept
<1>7. CASE Finishing
  BY <1>2, <1>7 DEF Finishing
<1>8. ASSUME NEW c \in Live(slot), Assigned(c) \/ Erased(c)
      PROVE  EveryElementReachable'
  <2>1. Allocated /\ UNCHANGED <<groupMask, overflow>>
    BY <1>8 DEF Assigned, Erased, Reassigned, Removed
  <2>2. DOMAIN slot' = DOMAIN slot
        /\ \A d \in DOMAIN slot : slot'[d] # Raw => slot[d] # Raw /\ slot'[d].key = slot[d].key
    <3>1. CASE Assigned(c)
      <4>1. slot' = [slot EXCEPT ![c] = [key |-> call.key, val |-> call.val]] /\ slot[c].key = call.key
            /\ slot[c] # Raw
        BY <3>1 DEF Assigned, Reassigned, Live
      <4> QED
        BY <4>1
    <3>2. CASE Erased(c)
      BY <3>2 DEF Erased, Removed
    <3> QED
      BY <1>8, <3>1, <3>2
  <2>3. MarksKept
    BY <2>1 DEF MarksKept
  <2> QED
    BY <1>1, <2>1, <2>2, <2>3, ElementsKept
<1>9. ASSUME NEW c \in DOMAIN slot, Inserted(c)
      PROVE  EveryElementReachable'
  <2> DEFINE e == [key |-> call.key, val |-> call.val]
  <2>1. Free(c) /\ Placed(c, e) /\ e \in Element /\ e.key = probe.key /\ Probing
    BY <1>9 DEF Inserted, Element, Probing
  <2> HIDE DEF e
  <2> QED
    BY <2>1, PlacedReachable
<1>10. ASSUME NEW c \in DOMAIN slot, NEW d \in pending, Moved(c, d)
       PROVE  EveryElementReachable'
  BY <1>10, PlacedReachable DEF Moved, Probing
<1> QED
  BY <1>2, <1>4, <1>5, <1>6, <1>7, <1>8, <1>9, <1>10, StepIs DEF Quiet

(* A constructed table has no elements. *)
LEMMA InitReach == Init => ProbeInv /\ EveryElementReachable
BY DEF Init, ProbeInv, Probing, EveryElementReachable, Live, AllRaw

(***************************************************************************)
(* Whatever calls are made and whatever the hash, a search for the key of  *)
(* an element gets to the group the element is in: no group before it ends *)
(* the search, though the bits that say so live in the bytes of elements   *)
(* that come and go.                                                       *)
(***************************************************************************)
THEOREM Reachability == Spec => []EveryElementReachable
<1>1. Init => ProbeInv /\ EveryElementReachable
  BY InitReach
<1>2. Layout /\ ProbeInv /\ EveryElementReachable /\ [Next]_vars
      => (ProbeInv /\ EveryElementReachable)'
  BY NextProbe, NextReach
<1> QED
  BY <1>1, <1>2, LayoutAlways, PTL DEF Spec

-----------------------------------------------------------------------------
(* Unique keys *)

UniqueKeys ==
    /\ \A c, d \in Live(slot) : slot[c].key = slot[d].key => c = d
    /\ \A c, d \in Live(oldSlot) : oldSlot[c].key = oldSlot[d].key => c = d
    /\ \A c \in Live(slot), d \in Live(oldSlot) : slot[c].key # oldSlot[d].key

(* The groups a search has left hold no element of its key. *)
SearchInv == pc = "find" /\ Allocated =>
    \A m \in 0..(probe.step - 1) : \A c \in Live(slot) :
        c[1] = Probe(Home(probe.key), m, groupMask) => slot[c].key # probe.key

(* From the end of its search to its construction, the key of an insertion *)
(* is in neither array, a rehash between the two included.                 *)
Inserting == \/ pc \in {"grow", "place"}
             \/ InRehash /\ call.op \in Insertions
NewKeyInv == Inserting =>
    /\ \A c \in Live(slot) : slot[c].key # call.key
    /\ \A c \in Live(oldSlot) : oldSlot[c].key # call.key

(* Old slots exist during a rehash only, and live in those still to move. *)
OldInv == /\ ~ InRehash => oldSlot = NoSlots
          /\ Live(oldSlot) = pending

KeysInv == UniqueKeys /\ SearchInv /\ NewKeyInv /\ OldInv

(***************************************************************************)
(* A search that ends without a hit has been wherever its key could be:    *)
(* an element of that key is reachable, so the group it is in comes at or  *)
(* before the one at which the search ends.                                *)
(***************************************************************************)
LEMMA NotFoundIsAbsent ==
  ASSUME Layout, ProbeInv, EveryElementReachable, SearchInv, MissedGroup, EndsSearch,
         NEW c \in Live(slot)
  PROVE  slot[c].key # call.key
<1> SUFFICES ASSUME slot[c].key = call.key PROVE FALSE
  OBVIOUS
<1>1. pc = "find" /\ Allocated /\ probe.key = call.key
  BY DEF MissedGroup, Layout, CtrlMirrorsSlots, TypeInv, CallOK
<1> DEFINE k == probe.key
           n == probe.step
<1>2. n \in Nat /\ groupMask \in Nat /\ probe.index = Probe(Home(k), n, groupMask)
  BY <1>1 DEF ProbeInv, Probing, OnSequence, Layout, TypeInv, TableOK, ControlOK
<1>3. PICK i \in 0..groupMask :
        /\ Probe(Home(k), i, groupMask) = c[1]
        /\ \A m \in 0..(i - 1) : OverflowBit(CtrlOf(k)) \in overflow[Probe(Home(k), m, groupMask)]
  BY <1>1 DEF EveryElementReachable, Reachable, Home
<1>4. CASE i < n
  <2>1. i \in 0..(n - 1)
    BY <1>2, <1>4
  <2> QED
    BY <1>1, <1>3, <2>1 DEF SearchInv
<1>5. CASE i = n
  BY <1>2, <1>3, <1>5, MissedIsAbsent
<1>6. CASE i > n
  <2>1. n \in 0..(i - 1)
    BY <1>2, <1>6
  <2>2. OverflowBit(CtrlOf(k)) \in overflow[probe.index]
    BY <1>2, <1>3, <2>1
  <2>3. ~ HasNextBucket(n, groupMask)
    BY <2>2 DEF EndsSearch
  <2> QED
    BY <1>2, <1>3, <1>6, <2>3 DEF HasNextBucket
<1> QED
  BY <1>2, <1>3, <1>4, <1>5, <1>6

(* A cell that gets an element is one more. *)
LEMMA LiveInsert ==
  ASSUME NEW slots, NEW c \in DOMAIN slots, NEW e, e # Raw, slots[c] = Raw
  PROVE  /\ Live([slots EXCEPT ![c] = e]) = Live(slots) \cup {c}
         /\ c \notin Live(slots)
         /\ \A d \in Live(slots) : [slots EXCEPT ![c] = e][d] = slots[d]
         /\ [slots EXCEPT ![c] = e][c] = e
BY DEF Live

(* A cell that loses its element is one less. *)
LEMMA LiveRemove ==
  ASSUME NEW slots, NEW c \in DOMAIN slots
  PROVE  /\ Live([slots EXCEPT ![c] = Raw]) = Live(slots) \ {c}
         /\ \A d \in Live(slots) \ {c} : [slots EXCEPT ![c] = Raw][d] = slots[d]
BY DEF Live

(* An element is not the content of an empty slot. *)
LEMMA ElementIsLive ==
  ASSUME NEW e \in Element
  PROVE  e # Raw /\ e.key \in Key /\ e.val \in Value /\ e.val # Absent
BY KeyAssumption DEF Element

(* What the table steps do to the elements. *)
LEMMA StepElements ==
  ASSUME Layout
  PROVE  /\ \A c \in Live(slot) : Assigned(c) =>
               /\ Live(slot') = Live(slot) /\ UNCHANGED rehash
               /\ \A d \in Live(slot) \ {c} : slot'[d] = slot[d]
               /\ slot'[c] = [key |-> call.key, val |-> call.val] /\ slot[c].key = call.key
         /\ \A c \in Live(slot) : Erased(c) =>
               /\ Live(slot') = Live(slot) \ {c} /\ UNCHANGED rehash
               /\ \A d \in Live(slot) \ {c} : slot'[d] = slot[d]
         /\ \A c \in DOMAIN slot : Inserted(c) =>
               /\ Live(slot') = Live(slot) \cup {c} /\ c \notin Live(slot) /\ UNCHANGED rehash
               /\ \A d \in Live(slot) : slot'[d] = slot[d]
               /\ slot'[c] = [key |-> call.key, val |-> call.val] /\ slot'[c] \in Element
         /\ \A c \in DOMAIN slot, d \in pending : Moved(c, d) =>
               /\ Live(slot') = Live(slot) \cup {c} /\ c \notin Live(slot)
               /\ \A b \in Live(slot) : slot'[b] = slot[b]
               /\ slot'[c] = oldSlot[d] /\ slot'[c] \in Element
               /\ d \in Live(oldSlot) /\ Live(oldSlot') = Live(oldSlot) \ {d}
               /\ \A b \in Live(oldSlot) \ {d} : oldSlot'[b] = oldSlot[b]
<1>1. ASSUME NEW c \in Live(slot), Assigned(c)
      PROVE  /\ Live(slot') = Live(slot) /\ UNCHANGED rehash
             /\ \A d \in Live(slot) \ {c} : slot'[d] = slot[d]
             /\ slot'[c] = [key |-> call.key, val |-> call.val] /\ slot[c].key = call.key
  <2> DEFINE e == [key |-> call.key, val |-> call.val]
  <2>1. e \in Element /\ slot' = [slot EXCEPT ![c] = e] /\ UNCHANGED rehash /\ slot[c].key = call.key
    BY <1>1 DEF Assigned, Reassigned, Element
  <2>2. e # Raw /\ c \in DOMAIN slot /\ slot[c] # Raw
    BY <2>1, ElementIsLive DEF Live
  <2> HIDE DEF e
  <2>3. Live(slot') = Live(slot) /\ (\A d \in Live(slot) \ {c} : slot'[d] = slot[d]) /\ slot'[c] = e
    BY <2>1, <2>2 DEF Live
  <2> QED
    BY <2>1, <2>3 DEF e
<1>2. ASSUME NEW c \in Live(slot), Erased(c)
      PROVE  /\ Live(slot') = Live(slot) \ {c} /\ UNCHANGED rehash
             /\ \A d \in Live(slot) \ {c} : slot'[d] = slot[d]
  <2>1. c \in DOMAIN slot /\ slot' = [slot EXCEPT ![c] = Raw] /\ UNCHANGED rehash
    BY <1>2 DEF Erased, Removed, Live
  <2> QED
    BY <2>1, LiveRemove
<1>3. ASSUME NEW c \in DOMAIN slot, Inserted(c)
      PROVE  /\ Live(slot') = Live(slot) \cup {c} /\ c \notin Live(slot) /\ UNCHANGED rehash
             /\ \A d \in Live(slot) : slot'[d] = slot[d]
             /\ slot'[c] = [key |-> call.key, val |-> call.val] /\ slot'[c] \in Element
  <2> DEFINE e == [key |-> call.key, val |-> call.val]
  <2>1. e \in Element /\ slot' = [slot EXCEPT ![c] = e] /\ UNCHANGED rehash /\ slot[c] = Raw
    BY <1>3 DEF Inserted, Placed, Free, Element
  <2>2. e # Raw
    BY <2>1, ElementIsLive
  <2> HIDE DEF e
  <2>3. Live(slot') = Live(slot) \cup {c} /\ c \notin Live(slot)
        /\ (\A d \in Live(slot) : slot'[d] = slot[d]) /\ slot'[c] = e
    BY <2>1, <2>2, LiveInsert
  <2> QED
    BY <2>1, <2>3 DEF e
<1>4. ASSUME NEW c \in DOMAIN slot, NEW d \in pending, Moved(c, d)
      PROVE  /\ Live(slot') = Live(slot) \cup {c} /\ c \notin Live(slot)
             /\ \A b \in Live(slot) : slot'[b] = slot[b]
             /\ slot'[c] = oldSlot[d] /\ slot'[c] \in Element
             /\ d \in Live(oldSlot) /\ Live(oldSlot') = Live(oldSlot) \ {d}
             /\ \A b \in Live(oldSlot) \ {d} : oldSlot'[b] = oldSlot[b]
  <2> DEFINE e == oldSlot[d]
  <2>1. /\ e \in Element /\ slot' = [slot EXCEPT ![c] = e] /\ slot[c] = Raw
        /\ oldSlot' = [oldSlot EXCEPT ![d] = Raw]
    BY <1>4 DEF Moved, Placed, Free
  <2>2. e # Raw /\ d \in DOMAIN oldSlot /\ d \in Live(oldSlot)
    BY <2>1, ElementIsLive DEF Live, Layout, TypeInv, RehashOK
  <2>3. Live(oldSlot') = Live(oldSlot) \ {d} /\ \A b \in Live(oldSlot) \ {d} : oldSlot'[b] = oldSlot[b]
    BY <2>1, <2>2, LiveRemove
  <2> HIDE DEF e
  <2>4. Live(slot') = Live(slot) \cup {c} /\ c \notin Live(slot)
        /\ (\A b \in Live(slot) : slot'[b] = slot[b]) /\ slot'[c] = e
    BY <2>1, <2>2, LiveInsert
  <2> QED
    BY <2>1, <2>2, <2>3, <2>4 DEF e
<1> QED
  BY <1>1, <1>2, <1>3, <1>4

(* What the other steps do. *)
LEMMA StepArrays ==
  ASSUME Layout, OldInv
  PROVE  /\ Emptying => Live(slot') = {} /\ UNCHANGED rehash /\ oldSlot = NoSlots /\ ~ InRehash' /\ ~ InRehash
         /\ Resizing => /\ Live(slot') = {} /\ oldSlot' = slot /\ pending' = Live(slot)
                        /\ oldSize' = slotSize /\ slotSize' = 0 /\ InRehash' /\ ~ InRehash
                        /\ ret' = ret /\ oldSlot = NoSlots
         /\ Finishing => /\ Live(oldSlot) = {} /\ oldSlot' = NoSlots /\ pending' = {}
                         /\ slot' = slot /\ slotSize' = slotSize /\ ~ InRehash' /\ InRehash
         /\ Live(NoSlots) = {}
<1>1. Live(NoSlots) = {}
  BY DEF Live, NoSlots
<1>2. ASSUME Emptying
      PROVE  Live(slot') = {} /\ UNCHANGED rehash /\ oldSlot = NoSlots /\ ~ InRehash' /\ ~ InRehash
  BY <1>2 DEF Emptying, Emptied, NewTable, AllRaw, Live, Done, InRehash, OldInv
<1>3. ASSUME Resizing
      PROVE  /\ Live(slot') = {} /\ oldSlot' = slot /\ pending' = Live(slot)
             /\ oldSize' = slotSize /\ slotSize' = 0 /\ InRehash' /\ ~ InRehash /\ ret' = ret
             /\ oldSlot = NoSlots
  <2>1. PICK c, m : m \in LoadFactors /\ CreateSlots(c, m) /\ ValidCapacity(c)
    BY <1>3 DEF Resizing
  <2>2. ~ InRehash
    BY <1>3 DEF Resizing, InRehash
  <2> QED
    BY <2>1, <2>2, CreateSlotsIs DEF InRehash, NewTable, OldInv
<1>4. ASSUME Finishing
      PROVE  /\ Live(oldSlot) = {} /\ oldSlot' = NoSlots /\ pending' = {}
             /\ slot' = slot /\ slotSize' = slotSize /\ ~ InRehash' /\ InRehash
  BY <1>4 DEF Finishing, OldInv, table, InRehash, Done
<1> QED
  BY <1>1, <1>2, <1>3, <1>4

(* Old slots exist during a rehash only. *)
LEMMA NextOld == Layout /\ OldInv /\ [Next]_vars => OldInv'
<1> SUFFICES ASSUME Layout, OldInv, [Next]_vars PROVE OldInv'
  OBVIOUS
<1>1. ASSUME UNCHANGED rehash, InRehash' <=> InRehash PROVE OldInv'
  BY <1>1 DEF OldInv, rehash, Live
<1>2. CASE Quiet
  BY <1>1, <1>2 DEF Quiet
<1>3. CASE Emptying
  BY <1>1, <1>3, StepArrays
<1>4. CASE Resizing
  BY <1>4, StepArrays DEF OldInv
<1>5. CASE Finishing
  BY <1>5, StepArrays DEF OldInv
<1>6. CASE Marking
  BY <1>1, <1>6 DEF Marking, InRehash
<1>7. ASSUME NEW c \in Live(slot), Assigned(c) \/ Erased(c) PROVE OldInv'
  <2>1. UNCHANGED rehash
    BY <1>7, StepElements
  <2> QED
    BY <1>1, <1>7, <2>1 DEF Assigned, Erased, InRehash, Done
<1>8. ASSUME NEW c \in DOMAIN slot, Inserted(c) PROVE OldInv'
  BY <1>1, <1>8, StepElements DEF Inserted, InRehash, Done
<1>9. ASSUME NEW c \in DOMAIN slot, NEW d \in pending, Moved(c, d) PROVE OldInv'
  <2>1. Live(oldSlot') = Live(oldSlot) \ {d}
    BY <1>9, StepElements
  <2> QED
    BY <1>9, <2>1 DEF OldInv, Moved, InRehash
<1> QED
  BY <1>2, <1>3, <1>4, <1>5, <1>6, <1>7, <1>8, <1>9, StepIs

(* No step makes a second element of a key. *)
LEMMA NextUnique == Layout /\ KeysInv /\ [Next]_vars => UniqueKeys'
<1> SUFFICES ASSUME Layout, KeysInv, [Next]_vars PROVE UniqueKeys'
  OBVIOUS
<1> USE DEF KeysInv
<1>1. ASSUME UNCHANGED <<slot, rehash>> PROVE UniqueKeys'
  BY <1>1 DEF UniqueKeys, Live, rehash
<1>2. CASE Quiet \/ Marking
  BY <1>1, <1>2 DEF Quiet, Marking, table
<1>3. CASE Emptying
  BY <1>3, StepArrays DEF UniqueKeys, rehash
<1>4. CASE Resizing
  BY <1>4, StepArrays DEF UniqueKeys
<1>5. CASE Finishing
  BY <1>5, StepArrays DEF UniqueKeys
<1>6. ASSUME NEW c \in Live(slot), Assigned(c) PROVE UniqueKeys'
  <2>1. /\ Live(slot') = Live(slot) /\ oldSlot' = oldSlot
        /\ \A d \in Live(slot) : slot'[d].key = slot[d].key
    BY <1>6, StepElements DEF rehash
  <2> QED
    BY <2>1 DEF UniqueKeys
<1>7. ASSUME NEW c \in Live(slot), Erased(c) PROVE UniqueKeys'
  BY <1>7, StepElements DEF UniqueKeys, rehash
<1>8. ASSUME NEW c \in DOMAIN slot, Inserted(c) PROVE UniqueKeys'
  <2>1. /\ Live(slot') = Live(slot) \cup {c} /\ oldSlot' = oldSlot
        /\ \A d \in Live(slot) : slot'[d] = slot[d]
        /\ slot'[c].key = call.key
    BY <1>8, StepElements DEF rehash
  <2>2. /\ \A d \in Live(slot) : slot[d].key # call.key
        /\ \A d \in Live(oldSlot) : oldSlot[d].key # call.key
    BY <1>8 DEF Inserted, NewKeyInv, Inserting
  <2>3. \A b, d \in Live(slot') : slot'[b].key = slot'[d].key => b = d
    BY <2>1, <2>2 DEF UniqueKeys
  <2>4. \A b \in Live(slot'), d \in Live(oldSlot) : slot'[b].key # oldSlot[d].key
    BY <2>1, <2>2 DEF UniqueKeys
  <2> QED
    BY <2>1, <2>3, <2>4 DEF UniqueKeys
<1>9. ASSUME NEW c \in DOMAIN slot, NEW p \in pending, Moved(c, p) PROVE UniqueKeys'
  <2>1. /\ Live(slot') = Live(slot) \cup {c}
        /\ \A d \in Live(slot) : slot'[d] = slot[d]
        /\ slot'[c] = oldSlot[p] /\ p \in Live(oldSlot)
        /\ Live(oldSlot') = Live(oldSlot) \ {p}
        /\ \A d \in Live(oldSlot) \ {p} : oldSlot'[d] = oldSlot[d]
    BY <1>9, StepElements
  <2>2. \A b, d \in Live(slot') : slot'[b].key = slot'[d].key => b = d
    BY <2>1 DEF UniqueKeys
  <2>3. \A b, d \in Live(oldSlot') : oldSlot'[b].key = oldSlot'[d].key => b = d
    BY <2>1 DEF UniqueKeys
  <2>4. \A b \in Live(slot'), d \in Live(oldSlot') : slot'[b].key # oldSlot'[d].key
    BY <2>1 DEF UniqueKeys
  <2> QED
    BY <2>2, <2>3, <2>4 DEF UniqueKeys
<1> QED
  BY <1>2, <1>3, <1>4, <1>5, <1>6, <1>7, <1>8, <1>9, StepIs

(* What an insertion has not found is in neither array until it is put in. *)
LEMMA NextNewKey ==
  ASSUME Layout, ProbeInv, EveryElementReachable, KeysInv, [Next]_vars
  PROVE  NewKeyInv'
<1> USE DEF KeysInv
<1>1. ASSUME UNCHANGED <<slot, rehash>>, Inserting' => Inserting /\ call'.key = call.key PROVE NewKeyInv'
  BY <1>1 DEF NewKeyInv, Live, rehash
<1>2. ASSUME ~ Inserting' PROVE NewKeyInv'
  BY <1>2 DEF NewKeyInv
<1>3. CASE BeginKeyOp \/ BeginManagement \/ Return
  BY <1>2, <1>3 DEF BeginKeyOp, BeginManagement, Begin, Return, Inserting, InRehash
<1>4. CASE Manage
  BY <1>2, <1>4, ManageIs DEF Emptied, Resized, CreateSlots, Untouched, Done, Inserting, InRehash,
                              Managements, Insertions
<1>5. CASE FindNext
  BY <1>2, <1>5 DEF FindNext, MissedGroup, Inserting, InRehash
<1>6. CASE NotFound
  <2>1. MissedGroup /\ EndsSearch /\ UNCHANGED <<table, rehash, call>> /\ ~ InRehash
    BY <1>6 DEF NotFound, MissedGroup, InRehash
  <2>2. \A c \in Live(slot) : slot[c].key # call.key
    BY <2>1, NotFoundIsAbsent
  <2>3. Live(oldSlot) = {}
    BY <2>1 DEF OldInv, NoSlots, Live
  <2> QED
    BY <2>1, <2>2, <2>3 DEF NewKeyInv, table, rehash, Live
<1>7. CASE ReturnFound \/ KeepExisting \/ AssignExisting \/ EraseFound
  BY <1>2, <1>7 DEF ReturnFound, KeepExisting, AssignExisting, EraseFound, Done, Inserting, InRehash
<1>8. CASE Grow
  <2>1. CASE Quiet
    BY <1>1, <1>8, <2>1, GrowIs DEF Quiet, table, Inserting, InRehash, Layout, TypeInv, TableOK
  <2>2. CASE ~ Quiet
    <3>1. PICK c : CreateSlots(c, mlf) /\ ValidCapacity(c) /\ pc = "grow" /\ call' = call /\ mlf \in LoadFactors
      BY <1>8, <2>2, GrowIs DEF Quiet, InRehash, Done, Layout, TypeInv, TableOK
    <3>2. Live(slot') = {} /\ oldSlot' = slot
      BY <3>1, CreateSlotsIs
    <3> QED
      BY <3>1, <3>2 DEF NewKeyInv, Inserting
  <2> QED
    BY <2>1, <2>2
<1>9. CASE NoGrow \/ TransferNext
  BY <1>1, <1>9 DEF NoGrow, TransferNext, Inserting, InRehash, table
<1>10. CASE RehashDone
  <2>1. Finishing
    BY <1>10 DEF RehashDone, Finishing, Layout, MemoryInv
  <2>2. Live(oldSlot') = {} /\ slot' = slot /\ InRehash /\ (Inserting' => Inserting) /\ call' = call
    BY <2>1, StepArrays DEF Finishing, Inserting, Done
  <2> QED
    BY <2>2 DEF NewKeyInv
<1>11. CASE PlaceNext
  BY <1>1, <1>11 DEF PlaceNext, Inserting, InRehash
<1>12. CASE PlaceNew
  BY <1>2, <1>12 DEF PlaceNew, Done, Inserting, InRehash
<1>13. CASE PlaceMoved
  <2>1. PICK c \in DOMAIN slot, p \in pending : Moved(c, p)
    BY <1>13, PlaceMovedIs
  <2>2. /\ Live(slot') = Live(slot) \cup {c}
        /\ \A d \in Live(slot) : slot'[d] = slot[d]
        /\ slot'[c] = oldSlot[p] /\ p \in Live(oldSlot)
        /\ Live(oldSlot') = Live(oldSlot) \ {p}
        /\ \A d \in Live(oldSlot) \ {p} : oldSlot'[d] = oldSlot[d]
    BY <2>1, StepElements
  <2>3. call' = call /\ (Inserting' => Inserting)
    BY <2>1 DEF Moved, Inserting, InRehash
  <2> QED
    BY <2>2, <2>3 DEF NewKeyInv
<1>14. CASE UNCHANGED vars
  BY <1>1, <1>14 DEF vars, table, Inserting, InRehash
<1> QED
  BY <1>3, <1>4, <1>5, <1>6, <1>7, <1>8, <1>9, <1>10, <1>11, <1>12, <1>13, <1>14
  DEF Next, FindStep, InsertStep

(* A search leaves only groups without its key behind. *)
LEMMA NextSearch ==
  ASSUME Layout, ProbeInv, SearchInv, [Next]_vars
  PROVE  SearchInv'
<1>1. ASSUME pc' # "find" PROVE SearchInv'
  BY <1>1 DEF SearchInv
<1>2. ASSUME probe'.step = 0 PROVE SearchInv'
  BY <1>2 DEF SearchInv
<1>3. CASE BeginKeyOp
  BY <1>2, <1>3 DEF BeginKeyOp, Begin, StartProbe, KeyOps, Insertions
<1>4. CASE BeginManagement \/ Return
  BY <1>1, <1>4 DEF BeginManagement, Begin, Return, KeyOps, Insertions
<1>5. CASE Manage
  BY <1>1, <1>5, ManageIs DEF Emptied, Resized, CreateSlots, Untouched, Done
<1>6. CASE FindNext
  <2>1. /\ MissedGroup /\ UNCHANGED <<slot, groupMask, pc, call>> /\ pc = "find"
        /\ probe'.key = probe.key /\ probe'.step = probe.step + 1 /\ probe.key = call.key
    BY <1>6 DEF FindNext, MissedGroup, NextBucket, table, Layout, TypeInv, CallOK
  <2>2. ASSUME Allocated, NEW m \in 0..probe.step, NEW c \in Live(slot),
               c[1] = Probe(Home(probe.key), m, groupMask)
        PROVE  slot[c].key # probe.key
    <3>1. probe.step \in Nat
      BY DEF Layout, TypeInv, ControlOK
    <3>2. CASE m = probe.step
      BY <2>1, <2>2, <3>2, MissedIsAbsent DEF ProbeInv, Probing, OnSequence
    <3>3. CASE m # probe.step
      <4>1. m \in 0..(probe.step - 1)
        BY <3>1, <3>3
      <4> QED
        BY <2>1, <2>2, <4>1 DEF SearchInv
    <3> QED
      BY <3>2, <3>3
  <2>3. probe'.step - 1 = probe.step
    BY <2>1 DEF Layout, TypeInv, ControlOK
  <2> QED
    BY <2>1, <2>2, <2>3 DEF SearchInv, Home, Live, Allocated
<1>7. CASE NotFound
  <2>1. call.op \in KeyOps
    BY <1>7 DEF NotFound, MissedGroup, Layout, TypeInv, CallOK
  <2> QED
    BY <1>1, <1>7, <2>1 DEF NotFound, Done, KeyOps, Insertions
<1>8. CASE ReturnFound \/ KeepExisting \/ AssignExisting \/ EraseFound \/ PlaceNew \/ PlaceMoved
  BY <1>1, <1>8 DEF ReturnFound, KeepExisting, AssignExisting, EraseFound, PlaceNew, PlaceMoved, Done
<1>9. CASE Grow
  BY <1>1, <1>9, GrowIs DEF CreateSlots, Done, Layout, TypeInv, TableOK
<1>10. CASE NoGrow \/ TransferNext \/ RehashDone \/ PlaceNext
  BY <1>1, <1>10 DEF NoGrow, TransferNext, RehashDone, PlaceNext, Done
<1>11. CASE UNCHANGED vars
  BY <1>11 DEF vars, table, SearchInv, Home, Live, Allocated
<1> QED
  BY <1>3, <1>4, <1>5, <1>6, <1>7, <1>8, <1>9, <1>10, <1>11 DEF Next, FindStep, InsertStep

(* Every step keeps the keys unique. *)
LEMMA NextKeys ==
  ASSUME Layout, ProbeInv, EveryElementReachable, KeysInv, [Next]_vars
  PROVE  KeysInv'
BY NextOld, NextUnique, NextNewKey, NextSearch DEF KeysInv

(* A constructed table has no keys. *)
LEMMA InitKeys == Init => KeysInv
BY DEF Init, KeysInv, UniqueKeys, SearchInv, NewKeyInv, Inserting, InRehash, OldInv, Live, AllRaw, NoSlots

(***************************************************************************)
(* No two elements of a table, those still to be moved by a rehash         *)
(* included, have one key: what an insertion did not find is not there.    *)
(***************************************************************************)
THEOREM NoDuplicates == Spec => []UniqueKeys
<1> DEFINE Inv == ProbeInv /\ EveryElementReachable /\ KeysInv
<1>1. Init => Inv
  BY InitReach, InitKeys
<1>2. Layout /\ Inv /\ [Next]_vars => Inv'
  BY NextProbe, NextReach, NextKeys
<1>3. Inv => UniqueKeys
  BY DEF KeysInv
<1> QED
  BY <1>1, <1>2, <1>3, LayoutAlways, PTL DEF Spec

-----------------------------------------------------------------------------
(* The size *)

(***************************************************************************)
(* slot_size_ is the number of elements, and a rehash neither loses nor    *)
(* invents one (the assertion slot_size() == old_slot_size).               *)
(***************************************************************************)
SizeCountsElements ==
    /\ slotSize = Cardinality(Live(slot))
    /\ InRehash => oldSize = slotSize + Cardinality(pending)

SizeInv == SizeCountsElements /\ IsFiniteSet(pending)

(* A table has finitely many cells. *)
LEMMA LiveFinite ==
  ASSUME Layout
  PROVE  IsFiniteSet(Live(slot)) /\ Cardinality(Live(slot)) \in Nat
<1>1. IsFiniteSet(Cells(groupMask))
  <2>1. groupMask \in Nat /\ GroupWidth - 1 \in Int
    BY GroupAssumption DEF Layout, TypeInv, TableOK
  <2>2. IsFiniteSet(Groups(groupMask)) /\ IsFiniteSet(0..(GroupWidth - 1))
    BY <2>1, FS_Interval DEF Groups
  <2> QED
    BY <2>2, FS_Product DEF Cells
<1>2. Live(slot) \subseteq Cells(groupMask)
  BY DEF Live, Layout, TypeInv, TableOK
<1> QED
  BY <1>1, <1>2, FS_Subset, FS_CardinalityType

(* Steps that leave the elements and the counters alone. *)
LEMMA SizeKept ==
  ASSUME SizeInv, UNCHANGED <<slot, slotSize, rehash>>, InRehash' => InRehash
  PROVE  SizeInv'
BY DEF SizeInv, SizeCountsElements, Live, rehash

(* Every step keeps the count. *)
LEMMA NextSize == Layout /\ OldInv /\ SizeInv /\ [Next]_vars => SizeInv'
<1> SUFFICES ASSUME Layout, OldInv, SizeInv, [Next]_vars PROVE SizeInv'
  OBVIOUS
<1> USE DEF SizeInv
<1>0. /\ slotSize = Cardinality(Live(slot)) /\ slotSize \in Nat /\ IsFiniteSet(Live(slot))
      /\ IsFiniteSet(pending) /\ Cardinality(pending) \in Nat
  BY LiveFinite, FS_CardinalityType DEF SizeCountsElements
<1>1. CASE Quiet \/ Marking
  BY <1>1, SizeKept DEF Quiet, Marking, InRehash, table
<1>2. CASE Emptying
  <2>1. Live(slot') = {} /\ slotSize' = 0 /\ ~ InRehash' /\ pending' = pending
    BY <1>2, StepArrays DEF Emptying, Emptied, NewTable, rehash
  <2> QED
    BY <1>0, <2>1, FS_EmptySet DEF SizeCountsElements
<1>3. CASE Resizing
  <2>1. Live(slot') = {} /\ slotSize' = 0 /\ pending' = Live(slot) /\ oldSize' = slotSize
    BY <1>3, StepArrays
  <2> QED
    BY <1>0, <2>1, FS_EmptySet DEF SizeCountsElements
<1>4. CASE Finishing
  <2>1. slot' = slot /\ slotSize' = slotSize /\ pending' = {} /\ ~ InRehash'
    BY <1>4, StepArrays
  <2> QED
    BY <1>0, <2>1, FS_EmptySet DEF SizeCountsElements, Live
<1>5. ASSUME NEW c \in Live(slot), Assigned(c) PROVE SizeInv'
  <2>1. Live(slot') = Live(slot) /\ UNCHANGED <<slotSize, rehash>> /\ (InRehash' => InRehash)
    BY <1>5, StepElements DEF Assigned, InRehash, Done
  <2> QED
    BY <1>0, <2>1 DEF SizeCountsElements, rehash
<1>6. ASSUME NEW c \in Live(slot), Erased(c) PROVE SizeInv'
  <2>1. /\ Live(slot') = Live(slot) \ {c} /\ UNCHANGED rehash /\ ~ InRehash'
        /\ slotSize' = Decrement(slotSize)
    BY <1>6, StepElements DEF Erased, InRehash, Done
  <2> DEFINE S == Live(slot)
  <2>2. c \in S /\ IsFiniteSet(S) /\ Cardinality(S) = slotSize
    BY <1>0
  <2>3. Cardinality(S \ {c}) = slotSize - 1 /\ Cardinality(S \ {c}) \in Nat
    <3> HIDE DEF S
    <3>1. IsFiniteSet(S \ {c}) /\ Cardinality(S \ {c}) = Cardinality(S) - 1
      BY <2>2, FS_RemoveElement
    <3> QED
      BY <2>2, <3>1, FS_CardinalityType
  <2>4. slotSize' = slotSize - 1
    BY <1>0, <2>1, <2>3, DecrementRange
  <2> QED
    BY <1>0, <2>1, <2>3, <2>4 DEF SizeCountsElements, rehash
<1>7. ASSUME NEW c, c \notin Live(slot) PROVE Cardinality(Live(slot) \cup {c}) = slotSize + 1
  <2> DEFINE S == Live(slot)
  <2> HIDE DEF S
  <2>1. Cardinality(S \cup {c}) = Cardinality(S) + 1
    BY <1>0, <1>7, FS_AddElement DEF S
  <2> QED
    BY <1>0, <2>1 DEF S
<1>8. ASSUME NEW c \in DOMAIN slot, Inserted(c) PROVE SizeInv'
  <2>1. /\ Live(slot') = Live(slot) \cup {c} /\ c \notin Live(slot) /\ UNCHANGED rehash
        /\ slotSize' = slotSize + 1 /\ ~ InRehash'
    BY <1>8, StepElements DEF Inserted, InRehash, Done
  <2> QED
    BY <1>0, <1>7, <2>1 DEF SizeCountsElements, rehash
<1>9. ASSUME NEW c \in DOMAIN slot, NEW p \in pending, Moved(c, p) PROVE SizeInv'
  <2>1. /\ Live(slot') = Live(slot) \cup {c} /\ c \notin Live(slot) /\ InRehash
        /\ slotSize' = slotSize + 1 /\ pending' = pending \ {p} /\ oldSize' = oldSize
    BY <1>9, StepElements DEF Moved, InRehash
  <2>2. IsFiniteSet(pending') /\ Cardinality(pending') = Cardinality(pending) - 1
    BY <1>0, <2>1, FS_RemoveElement
  <2>3. oldSize = slotSize + Cardinality(pending)
    BY <2>1 DEF SizeCountsElements
  <2>4. oldSize' = slotSize' + Cardinality(pending')
    BY <1>0, <2>1, <2>2, <2>3
  <2> QED
    BY <1>7, <2>1, <2>2, <2>4 DEF SizeCountsElements
<1> QED
  BY <1>1, <1>2, <1>3, <1>4, <1>5, <1>6, <1>8, <1>9, StepIs

(* A constructed table has size 0. *)
LEMMA InitSize == Init => SizeInv
<1> SUFFICES ASSUME Init PROVE SizeInv
  OBVIOUS
<1>1. Live(slot) = {} /\ slotSize = 0 /\ pending = {} /\ pc = "idle"
  BY DEF Init, Live, AllRaw
<1> QED
  BY <1>1, FS_EmptySet DEF SizeInv, SizeCountsElements, InRehash

(* What is invariant of the table and its keys. *)
MapInv == Layout /\ ProbeInv /\ EveryElementReachable /\ KeysInv /\ SizeInv

(* It is inductive. *)
LEMMA MapInvAlways == Spec => []MapInv
<1>1. Init => MapInv
  BY InitLayout, InitReach, InitKeys, InitSize DEF MapInv
<1>2. MapInv /\ [Next]_vars => MapInv'
  BY NextLayout, NextProbe, NextReach, NextKeys, NextSize DEF MapInv, KeysInv
<1> QED
  BY <1>1, <1>2, PTL DEF Spec

(***************************************************************************)
(* slot_size_ counts the elements, so erasing never takes it below zero,   *)
(* and a rehash moves exactly as many elements as there were.              *)
(***************************************************************************)
THEOREM SizeIsRight == Spec => []SizeCountsElements
<1>1. MapInv => SizeCountsElements
  BY DEF MapInv, SizeInv
<1> QED
  BY <1>1, MapInvAlways, PTL

-----------------------------------------------------------------------------
(* The mapping of a set of elements *)

ContentsOf(E) == [k \in Key |-> IF \E e \in E : e.key = k
                                THEN (CHOOSE e \in E : e.key = k).val
                                ELSE Absent]

KeyedOnce(E) == E \subseteq Element /\ \A e, f \in E : e.key = f.key => e = f

(* An element gives its key its value. *)
LEMMA Lookup ==
  ASSUME NEW E, KeyedOnce(E), NEW e \in E
  PROVE  /\ e.key \in Key /\ e.val \in Value /\ e.val # Absent
         /\ ContentsOf(E)[e.key] = e.val
<1>1. e.key \in Key /\ e.val \in Value
  BY DEF KeyedOnce, Element
<1>2. (CHOOSE f \in E : f.key = e.key) = e
  BY DEF KeyedOnce
<1> QED
  BY <1>1, <1>2, KeyAssumption DEF ContentsOf

(* A key without an element is absent. *)
LEMMA LookupAbsent ==
  ASSUME NEW E, NEW k \in Key, \A e \in E : e.key # k
  PROVE  ContentsOf(E)[k] = Absent
BY DEF ContentsOf

(* Adding the element of a new key. *)
LEMMA LookupAdd ==
  ASSUME NEW E, KeyedOnce(E), NEW e \in Element, \A f \in E : f.key # e.key
  PROVE  /\ KeyedOnce(E \cup {e})
         /\ ContentsOf(E \cup {e}) = [ContentsOf(E) EXCEPT ![e.key] = e.val]
<1> DEFINE F == E \cup {e}
<1>1. KeyedOnce(F)
  BY DEF KeyedOnce
<1>2. e.key \in Key /\ e \in F
  BY DEF Element
<1> HIDE DEF F
<1>3. ASSUME NEW k \in Key
      PROVE  ContentsOf(F)[k] = IF k = e.key THEN e.val ELSE ContentsOf(E)[k]
  <2>1. CASE k = e.key
    BY <1>1, <1>2, <2>1, Lookup
  <2>2. CASE k # e.key /\ \E f \in E : f.key = k
    <3>1. PICK f \in E : f.key = k
      BY <2>2
    <3>2. f \in F
      BY DEF F
    <3>3. ContentsOf(F)[k] = f.val /\ ContentsOf(E)[k] = f.val
      BY <1>1, <3>1, <3>2, Lookup
    <3> QED
      BY <2>2, <3>3
  <2>3. CASE k # e.key /\ \A f \in E : f.key # k
    <3>1. \A f \in F : f.key # k
      BY <2>3 DEF F
    <3> QED
      BY <2>3, <3>1, LookupAbsent
  <2> QED
    BY <2>1, <2>2, <2>3
<1>4. ContentsOf(F) = [k \in Key |-> ContentsOf(F)[k]]
  BY DEF ContentsOf
<1>5. ContentsOf(E) = [k \in Key |-> ContentsOf(E)[k]]
  BY DEF ContentsOf
<1>6. ContentsOf(F) = [ContentsOf(E) EXCEPT ![e.key] = e.val]
  BY <1>2, <1>3, <1>4, <1>5
<1> QED
  BY <1>1, <1>6 DEF F

(* Removing an element. *)
LEMMA LookupRemove ==
  ASSUME NEW E, KeyedOnce(E), NEW e \in E
  PROVE  /\ KeyedOnce(E \ {e})
         /\ \A f \in E \ {e} : f.key # e.key
         /\ ContentsOf(E \ {e}) = [ContentsOf(E) EXCEPT ![e.key] = Absent]
<1> DEFINE F == E \ {e}
<1>1. KeyedOnce(F) /\ e.key \in Key /\ \A f \in F : f.key # e.key
  BY DEF KeyedOnce, Element
<1> HIDE DEF F
<1>2. ASSUME NEW k \in Key
      PROVE  ContentsOf(F)[k] = IF k = e.key THEN Absent ELSE ContentsOf(E)[k]
  <2>1. CASE k = e.key
    BY <1>1, <2>1, LookupAbsent
  <2>2. CASE k # e.key /\ \E f \in E : f.key = k
    <3>1. PICK f \in E : f.key = k
      BY <2>2
    <3>2. f \in F
      BY <2>2, <3>1 DEF F
    <3>3. ContentsOf(F)[k] = f.val /\ ContentsOf(E)[k] = f.val
      BY <1>1, <3>1, <3>2, Lookup
    <3> QED
      BY <2>2, <3>3
  <2>3. CASE k # e.key /\ \A f \in E : f.key # k
    <3>1. \A f \in F : f.key # k
      BY <2>3 DEF F
    <3> QED
      BY <2>3, <3>1, LookupAbsent
  <2> QED
    BY <2>1, <2>2, <2>3
<1>3. ContentsOf(F) = [k \in Key |-> ContentsOf(F)[k]]
  BY DEF ContentsOf
<1>4. ContentsOf(E) = [k \in Key |-> ContentsOf(E)[k]]
  BY DEF ContentsOf
<1>5. ContentsOf(F) = [ContentsOf(E) EXCEPT ![e.key] = Absent]
  BY <1>1, <1>2, <1>3, <1>4
<1> QED
  BY <1>1, <1>5 DEF F

(* Replacing an element by one of its key. *)
LEMMA LookupReplace ==
  ASSUME NEW E, KeyedOnce(E), NEW e \in E, NEW f \in Element, f.key = e.key
  PROVE  ContentsOf((E \ {e}) \cup {f}) = [ContentsOf(E) EXCEPT ![e.key] = f.val]
<1> DEFINE F == E \ {e}
<1>1. KeyedOnce(F) /\ (\A g \in F : g.key # f.key)
      /\ ContentsOf(F) = [ContentsOf(E) EXCEPT ![e.key] = Absent]
  BY LookupRemove
<1> HIDE DEF F
<1>2. ContentsOf(F \cup {f}) = [ContentsOf(F) EXCEPT ![f.key] = f.val]
  BY <1>1, LookupAdd
<1>3. ContentsOf(F \cup {f}) = [ContentsOf(E) EXCEPT ![e.key] = f.val]
  BY <1>1, <1>2
<1> QED
  BY <1>3 DEF F

-----------------------------------------------------------------------------
(* The elements of the table *)

(* Each key has one element, so choosing one is no choice. *)
LEMMA ElementsKeyed ==
  ASSUME Layout, KeysInv
  PROVE  /\ KeyedOnce(Elements) /\ Contents = ContentsOf(Elements)
<1>1. Elements \subseteq Element
  BY DEF Elements, Live, Layout, TypeInv, TableOK, RehashOK
<1>2. ASSUME NEW e \in Elements, NEW f \in Elements, e.key = f.key PROVE e = f
  BY <1>2 DEF Elements, KeysInv, UniqueKeys
<1> QED
  BY <1>1, <1>2 DEF KeyedOnce, Contents, ContentsOf

(* The mapping after a step is that of the elements after it. *)
LEMMA ContentsPrime == Contents' = ContentsOf(Elements')
BY DEF Contents, ContentsOf

(* The elements of the table where there is one array. *)
LEMMA OneArray ==
  ASSUME OldInv, ~ InRehash
  PROVE  Elements = {slot[c] : c \in Live(slot)} /\ Live(oldSlot) = {}
BY DEF OldInv, Elements, Live, NoSlots

(* A step that moves elements, or none, keeps the mapping. *)
LEMMA ContentsKept ==
  ASSUME Elements' = Elements
  PROVE  Contents' = Contents
BY ContentsPrime DEF Contents, ContentsOf

(* The elements after a step. *)
LEMMA StepContents ==
  ASSUME Layout, KeysInv
  PROVE  /\ Quiet \/ Marking \/ Resizing \/ Finishing => Elements' = Elements
         /\ Emptying => Elements' = {}
         /\ \A c \in Live(slot) : Assigned(c) =>
               /\ Contents[call.key] # Absent
               /\ Contents' = [Contents EXCEPT ![call.key] = call.val]
         /\ \A c \in Live(slot) : Erased(c) =>
               /\ Contents[call.key] # Absent
               /\ Contents' = [Contents EXCEPT ![call.key] = Absent]
         /\ \A c \in DOMAIN slot : Inserted(c) =>
               /\ Contents[call.key] = Absent
               /\ Contents' = [Contents EXCEPT ![call.key] = call.val]
         /\ \A c \in DOMAIN slot, d \in pending : Moved(c, d) => Elements' = Elements
<1>0. OldInv /\ UniqueKeys /\ KeyedOnce(Elements) /\ Contents = ContentsOf(Elements)
  BY ElementsKeyed DEF KeysInv
<1>1. ASSUME Quiet \/ Marking \/ Resizing \/ Finishing PROVE Elements' = Elements
  <2>1. CASE Quiet \/ Marking
    BY <2>1 DEF Quiet, Marking, Elements, Live, table, rehash
  <2>2. CASE Resizing
    <3>1. Live(slot') = {} /\ oldSlot' = slot /\ Live(oldSlot) = {}
      BY <1>0, <2>2, StepArrays
    <3> QED
      BY <3>1 DEF Elements
  <2>3. CASE Finishing
    <3>1. slot' = slot /\ Live(oldSlot') = {} /\ Live(oldSlot) = {}
      BY <1>0, <2>3, StepArrays
    <3> QED
      BY <3>1 DEF Elements
  <2> QED
    BY <1>1, <2>1, <2>2, <2>3
<1>2. ASSUME Emptying PROVE Elements' = {}
  <2>1. Live(slot') = {} /\ oldSlot' = NoSlots /\ Live(NoSlots) = {}
    BY <1>0, <1>2, StepArrays DEF rehash
  <2> QED
    BY <2>1 DEF Elements
<1>3. ASSUME NEW c \in Live(slot), Assigned(c)
      PROVE  Contents[call.key] # Absent /\ Contents' = [Contents EXCEPT ![call.key] = call.val]
  <2> DEFINE e == slot[c]
             f == [key |-> call.key, val |-> call.val]
  <2>1. /\ ~ InRehash /\ ~ InRehash' /\ UNCHANGED rehash /\ Live(slot') = Live(slot) /\ slot'[c] = f
        /\ \A d \in Live(slot) \ {c} : slot'[d] = slot[d]
        /\ e.key = call.key /\ f \in Element /\ f.key = call.key /\ f.val = call.val
    BY <1>3, StepElements DEF Assigned, InRehash, Done, Element
  <2>2. Elements = {slot[d] : d \in Live(slot)} /\ Live(oldSlot') = {}
    BY <1>0, <2>1, OneArray DEF rehash
  <2>3. e \in Elements /\ \A d \in Live(slot) \ {c} : slot[d] # e
    <3>1. \A d \in Live(slot) : slot[d].key = slot[c].key => d = c
      BY <1>0 DEF UniqueKeys
    <3> QED
      BY <2>2, <3>1
  <2> HIDE DEF e, f
  <2>4. Elements' = (Elements \ {e}) \cup {f}
    <3>1. Elements' = {slot'[d] : d \in Live(slot)}
      BY <2>1, <2>2 DEF Elements
    <3>2. Elements \ {e} = {slot[d] : d \in Live(slot) \ {c}}
      BY <2>2, <2>3 DEF e
    <3> QED
      BY <2>1, <3>1, <3>2
  <2>5. ContentsOf(Elements') = [ContentsOf(Elements) EXCEPT ![e.key] = f.val]
    BY <1>0, <2>1, <2>3, <2>4, LookupReplace
  <2>6. ContentsOf(Elements)[e.key] # Absent
    BY <1>0, <2>3, Lookup
  <2> QED
    BY <1>0, <2>1, <2>5, <2>6, ContentsPrime
<1>4. ASSUME NEW c \in Live(slot), Erased(c)
      PROVE  Contents[call.key] # Absent /\ Contents' = [Contents EXCEPT ![call.key] = Absent]
  <2> DEFINE e == slot[c]
  <2>1. /\ ~ InRehash /\ ~ InRehash' /\ UNCHANGED rehash /\ Live(slot') = Live(slot) \ {c}
        /\ \A d \in Live(slot) \ {c} : slot'[d] = slot[d]
        /\ e.key = call.key
    BY <1>4, StepElements DEF Erased, InRehash, Done
  <2>2. Elements = {slot[d] : d \in Live(slot)} /\ Live(oldSlot') = {}
    BY <1>0, <2>1, OneArray DEF rehash
  <2>3. e \in Elements /\ \A d \in Live(slot) \ {c} : slot[d] # e
    <3>1. \A d \in Live(slot) : slot[d].key = slot[c].key => d = c
      BY <1>0 DEF UniqueKeys
    <3> QED
      BY <2>2, <3>1
  <2> HIDE DEF e
  <2>4. Elements' = Elements \ {e}
    <3>1. Elements' = {slot[d] : d \in Live(slot) \ {c}}
      BY <2>1, <2>2 DEF Elements
    <3> QED
      BY <2>2, <2>3, <3>1 DEF e
  <2>5. ContentsOf(Elements') = [ContentsOf(Elements) EXCEPT ![e.key] = Absent]
    BY <1>0, <2>3, <2>4, LookupRemove
  <2>6. ContentsOf(Elements)[e.key] # Absent
    BY <1>0, <2>3, Lookup
  <2> QED
    BY <1>0, <2>1, <2>5, <2>6, ContentsPrime
<1>5. ASSUME NEW c \in DOMAIN slot, Inserted(c)
      PROVE  Contents[call.key] = Absent /\ Contents' = [Contents EXCEPT ![call.key] = call.val]
  <2> DEFINE f == [key |-> call.key, val |-> call.val]
  <2>1. /\ ~ InRehash /\ ~ InRehash' /\ UNCHANGED rehash /\ Live(slot') = Live(slot) \cup {c}
        /\ c \notin Live(slot) /\ \A d \in Live(slot) : slot'[d] = slot[d]
        /\ slot'[c] = f /\ f \in Element /\ f.key = call.key /\ f.val = call.val /\ Inserting
        /\ call.key \in Key
    BY <1>5, StepElements DEF Inserted, InRehash, Done, Element, Inserting
  <2>2. Elements = {slot[d] : d \in Live(slot)} /\ Live(oldSlot') = {}
    BY <1>0, <2>1, OneArray DEF rehash
  <2> HIDE DEF f
  <2>3. \A g \in Elements : g.key # f.key
    BY <2>1, <2>2 DEF KeysInv, NewKeyInv
  <2>4. Elements' = Elements \cup {f}
    <3>1. Elements' = {slot'[d] : d \in Live(slot) \cup {c}}
      BY <2>1, <2>2 DEF Elements
    <3> QED
      BY <2>1, <2>2, <3>1
  <2>5. ContentsOf(Elements') = [ContentsOf(Elements) EXCEPT ![f.key] = f.val]
    BY <1>0, <2>1, <2>3, <2>4, LookupAdd
  <2>6. ContentsOf(Elements)[f.key] = Absent
    BY <2>1, <2>3, LookupAbsent
  <2> QED
    BY <1>0, <2>1, <2>5, <2>6, ContentsPrime
<1>6. ASSUME NEW c \in DOMAIN slot, NEW d \in pending, Moved(c, d) PROVE Elements' = Elements
  <2>1. /\ Live(slot') = Live(slot) \cup {c}
        /\ \A b \in Live(slot) : slot'[b] = slot[b]
        /\ slot'[c] = oldSlot[d] /\ d \in Live(oldSlot)
        /\ Live(oldSlot') = Live(oldSlot) \ {d}
        /\ \A b \in Live(oldSlot) \ {d} : oldSlot'[b] = oldSlot[b]
    BY <1>6, StepElements
  <2>2. {slot'[b] : b \in Live(slot')} = {slot[b] : b \in Live(slot)} \cup {oldSlot[d]}
    BY <2>1
  <2>3. {oldSlot'[b] : b \in Live(oldSlot')} = {oldSlot[b] : b \in Live(oldSlot) \ {d}}
    BY <2>1
  <2>4. {oldSlot[b] : b \in Live(oldSlot)} = {oldSlot[b] : b \in Live(oldSlot) \ {d}} \cup {oldSlot[d]}
    BY <2>1
  <2> QED
    BY <2>2, <2>3, <2>4 DEF Elements
<1> QED
  BY <1>1, <1>2, <1>3, <1>4, <1>5, <1>6

-----------------------------------------------------------------------------
(* Calls and results *)

(* There is a result when a call has returned, and a call that manages the *)
(* memory has no key.                                                      *)
ResultInv ==
    /\ pc # "done" => ret = NoResult
    /\ call.op \notin KeyOps => call.key = Absent
    /\ InRehash => call.op \in Insertions \cup Managements

(* A constructed table is in no call. *)
LEMMA InitResult == Init => ResultInv
BY DEF Init, ResultInv, NoCall, InRehash

(* A step of a call gives a result only by ending it. *)
LEMMA NextResult == Layout /\ OldInv /\ ResultInv /\ [Next]_vars => ResultInv'
<1> SUFFICES ASSUME Layout, OldInv, ResultInv, [Next]_vars PROVE ResultInv'
  OBVIOUS
<1> USE DEF ResultInv, InRehash
<1>1. ASSUME UNCHANGED call, InRehash' => InRehash, pc' = "done" \/ UNCHANGED ret, pc # "done"
      PROVE  ResultInv'
  BY <1>1
<1>2. CASE BeginKeyOp
  <2>1. \E op \in KeyOps : \E k, v, n : Begin(op, k, v, n)
    BY <1>2 DEF BeginKeyOp, KeyOps
  <2> QED
    BY <2>1 DEF Begin
<1>3. CASE BeginManagement
  <2>1. \E op, v, n : Begin(op, Absent, v, n)
    BY <1>3 DEF BeginManagement
  <2> QED
    BY <2>1 DEF Begin
<1>4. CASE Manage
  <2>1. /\ pc = "manage" /\ UNCHANGED <<call, probe>>
        /\ Emptied \/ Resized \/ (Untouched /\ call.op \in Managements)
    BY <1>4, ManageIs
  <2>2. CASE Emptied \/ Untouched
    BY <1>1, <2>1, <2>2 DEF Emptied, Untouched, Done
  <2>3. CASE Resized
    BY <2>1, <2>3 DEF Resized, CreateSlots
  <2> QED
    BY <2>1, <2>2, <2>3
<1>5. CASE FindStep
  <2>1. FindNext => UNCHANGED <<call, ret>> /\ pc = "find" /\ pc' = "find"
    BY DEF FindNext, MissedGroup
  <2>2. NotFound => UNCHANGED call /\ pc = "find" /\ ~ InRehash' /\ (pc' = "done" \/ UNCHANGED ret)
    <3>1. pc = "find" => call.op \in Insertions \/ call.op = "find" \/ call.op = "erase"
      BY DEF Layout, TypeInv, CallOK, KeyOps
    <3> QED
      BY <3>1 DEF NotFound, MissedGroup, Done, Insertions
  <2>3. ReturnFound \/ KeepExisting \/ AssignExisting \/ EraseFound
        => UNCHANGED call /\ pc = "find" /\ pc' = "done"
    BY DEF ReturnFound, KeepExisting, AssignExisting, EraseFound, Finding, Done
  <2> QED
    BY <1>1, <1>5, <2>1, <2>2, <2>3 DEF FindStep
<1>6. CASE Grow
  <2>1. call.op \in Insertions /\ pc = "grow" /\ UNCHANGED call /\ (UNCHANGED ret \/ pc' = "done")
    BY <1>6, GrowIs DEF Layout, TypeInv, CallOK, TableOK, Done, CreateSlots
  <2> QED
    BY <2>1
<1>7. CASE NoGrow \/ TransferNext \/ PlaceNext \/ PlaceMoved
  BY <1>1, <1>7 DEF NoGrow, TransferNext, PlaceNext, PlaceMoved
<1>8. CASE RehashDone \/ PlaceNew
  BY <1>1, <1>8 DEF RehashDone, PlaceNew, Done
<1>9. CASE Return \/ UNCHANGED vars
  BY <1>9 DEF Return, NoCall, vars
<1> QED
  BY <1>2, <1>3, <1>4, <1>5, <1>6, <1>7, <1>8, <1>9 DEF Next, InsertStep

-----------------------------------------------------------------------------
(* The table as a map *)

AbstractStep == [Map!Next]_Map!mapVars

(* A step that touches neither the mapping nor the result. *)
LEMMA Silent ==
  ASSUME Contents' = Contents, ret' = ret
  PROVE  AbstractStep
BY DEF AbstractStep, Map!mapVars

(* A step that takes the effect of an operation. *)
LEMMA Effective ==
  ASSUME ret = NoResult, Map!Operation
  PROVE  AbstractStep
BY DEF AbstractStep, Map!Next, Map!NoResult, NoResult

(* A call that manages the memory empties the map, or leaves it. *)
LEMMA ManageMaps == MapInv /\ ResultInv /\ Manage => AbstractStep
<1> SUFFICES ASSUME MapInv, ResultInv, Manage PROVE AbstractStep
  OBVIOUS
<1>1. Layout /\ KeysInv /\ OldInv /\ SizeInv
  BY DEF MapInv, KeysInv
<1>2. /\ pc = "manage" /\ UNCHANGED <<call, probe>>
      /\ Emptied \/ Resized \/ (Untouched /\ call.op \in Managements)
  BY <1>1, ManageIs
<1>3. ret = NoResult /\ (call.op \in Managements \cup {"clear"} => call.key = Absent)
  BY <1>2 DEF ResultInv, Managements, KeyOps, Insertions
<1>4. Managements = Map!Managements
  BY DEF Managements, Map!Managements
<1>5. CASE Emptied
  <2>1. Contents' = [k \in Key |-> Absent]
    <3>1. Elements' = {}
      BY <1>1, <1>2, <1>5, StepContents DEF Emptying
    <3> QED
      BY <3>1, ContentsPrime DEF ContentsOf
  <2>2. Done("ok") /\ call.op \in Managements \cup {"clear"}
        /\ (call.op \notin {"clear", "reserve"} => slotSize = 0)
    BY <1>5 DEF Emptied
  <2>3. ret' = Map!Result(call.op, Absent, "ok")
    BY <1>3, <2>2 DEF Done, Map!Result
  <2>4. CASE call.op \in {"clear", "reserve"}
    <3>1. Map!Clear(call.op)
      BY <2>1, <2>3 DEF Map!Clear
    <3> QED
      BY <1>3, <2>4, <3>1, Effective DEF Map!Operation
  <2>5. CASE call.op \notin {"clear", "reserve"}
    <3>1. Live(slot) = {}
      BY <1>1, <2>2, <2>5, LiveFinite, FS_EmptySet DEF SizeInv, SizeCountsElements
    <3>2. Elements = {}
      BY <1>1, <1>2, <3>1, OneArray DEF InRehash
    <3>3. Contents' = Contents
      BY <2>1, <3>2 DEF Contents
    <3>4. Map!Resize(call.op) /\ call.op \in Map!Managements
      BY <1>4, <2>2, <2>3, <2>5, <3>3 DEF Map!Resize
    <3> QED
      BY <1>3, <3>4, Effective DEF Map!Operation
  <2> QED
    BY <2>4, <2>5
<1>6. CASE Resized
  <2>1. Resizing /\ ret' = ret
    BY <1>2, <1>6 DEF Resized, Resizing, CreateSlots
  <2> QED
    BY <1>1, <2>1, StepContents, ContentsKept, Silent
<1>7. CASE Untouched /\ call.op \in Managements
  <2>1. Contents' = Contents
    BY <1>7, ContentsKept DEF Untouched, Elements, Live, table, rehash
  <2>2. \/ ret' = Map!Result(call.op, Absent, "ok")
        \/ ret' = Map!Result(call.op, Absent, "throws")
    BY <1>3, <1>7 DEF Untouched, Done, Map!Result
  <2>3. (Map!Resize(call.op) \/ Map!Throw(call.op, Absent)) /\ call.op \in Map!Managements
    BY <1>4, <1>7, <2>1, <2>2 DEF Map!Resize, Map!Throw
  <2> QED
    BY <1>3, <2>3, Effective DEF Map!Operation
<1> QED
  BY <1>2, <1>5, <1>6, <1>7

(* A search does not show, and its end has the result of a dictionary. *)
LEMMA FindMaps == MapInv /\ ResultInv /\ FindStep => AbstractStep
<1> SUFFICES ASSUME MapInv, ResultInv, FindStep PROVE AbstractStep
  OBVIOUS
<1>1. Layout /\ KeysInv /\ OldInv /\ ProbeInv /\ EveryElementReachable /\ SearchInv
  BY DEF MapInv, KeysInv
<1>2. pc = "find"
  BY DEF FindStep, FindNext, NotFound, ReturnFound, KeepExisting, AssignExisting, EraseFound,
         MissedGroup, Finding
<1>3. /\ ret = NoResult /\ call.key \in Key /\ call.op \in KeyOps
      /\ KeyedOnce(Elements) /\ Contents = ContentsOf(Elements)
      /\ Elements = {slot[c] : c \in Live(slot)}
  BY <1>1, <1>2, ElementsKeyed, OneArray DEF ResultInv, Layout, TypeInv, CallOK, InRehash
<1>4. ASSUME UNCHANGED <<table, rehash>> PROVE Contents' = Contents
  BY <1>4, ContentsKept DEF Elements, Live, table, rehash
<1>5. ASSUME NEW c \in Matches, NEW e \in Hits(c)
      PROVE  Contents[call.key] = e.val /\ e.val # Absent
  <2>1. c \in Live(slot) /\ e = slot[c] /\ e.key = call.key
    BY <1>1, <1>2, HitIs
  <2>2. e \in Elements
    BY <1>3, <2>1
  <2> QED
    BY <1>3, <2>1, <2>2, Lookup
<1>6. CASE FindNext
  BY <1>4, <1>6, Silent DEF FindNext
<1>7. CASE NotFound
  <2>1. MissedGroup /\ EndsSearch /\ UNCHANGED <<table, rehash>>
    BY <1>7 DEF NotFound
  <2>2. \A e \in Elements : e.key # call.key
    BY <1>1, <1>3, <2>1, NotFoundIsAbsent
  <2>3. Contents[call.key] = Absent /\ Contents' = Contents
    BY <1>3, <1>4, <2>1, <2>2, LookupAbsent
  <2>4. CASE call.op \in Insertions
    <3>1. ret' = ret
      BY <1>7, <2>4 DEF NotFound, Insertions
    <3> QED
      BY <2>3, <3>1, Silent
  <2>5. CASE call.op = "find"
    <3>1. Done(Absent)
      BY <1>7, <2>5 DEF NotFound, Insertions
    <3>2. Map!Find(call.key)
      BY <2>3, <2>5, <3>1 DEF Done, Map!Find, Map!Result
    <3> QED
      BY <1>3, <3>2, Effective DEF Map!Operation
  <2>6. CASE call.op = "erase"
    <3>1. Done("none")
      BY <1>7, <2>6 DEF NotFound, Insertions
    <3>2. Contents' = [Contents EXCEPT ![call.key] = Absent]
      BY <1>3, <2>3 DEF Contents
    <3>3. Map!Erase(call.key)
      BY <2>3, <2>6, <3>1, <3>2 DEF Done, Map!Erase, Map!Result, Map!Has
    <3> QED
      BY <1>3, <3>3, Effective DEF Map!Operation
  <2> QED
    BY <1>3, <2>4, <2>5, <2>6 DEF KeyOps
<1>8. CASE ReturnFound
  <2>1. PICK c \in Matches : \E e \in Hits(c) : Done(e.val) /\ UNCHANGED <<table, rehash>>
    BY <1>8 DEF ReturnFound
  <2>2. PICK e \in Hits(c) : Done(e.val) /\ UNCHANGED <<table, rehash>>
    BY <2>1
  <2>3. call.op = "find"
    BY <1>8 DEF ReturnFound, Finding
  <2>4. Map!Find(call.key)
    BY <1>4, <1>5, <2>2, <2>3 DEF Done, Map!Find, Map!Result
  <2> QED
    BY <1>3, <2>4, Effective DEF Map!Operation
<1>9. CASE KeepExisting
  <2>1. PICK c \in Matches : \E e \in Hits(c) : Done("exists") /\ UNCHANGED <<table, rehash>>
    BY <1>9 DEF KeepExisting
  <2>2. PICK e \in Hits(c) : Done("exists") /\ UNCHANGED <<table, rehash>>
    BY <2>1
  <2>3. call.op = "insert"
    BY <1>9 DEF KeepExisting, Finding
  <2>4. Map!Keep(call.key)
    BY <1>4, <1>5, <2>2, <2>3 DEF Done, Map!Keep, Map!Result, Map!Has
  <2> QED
    BY <1>3, <2>4, Effective DEF Map!Operation
<1>10. CASE AssignExisting
  <2>1. PICK c \in Live(slot) : Assigned(c)
    BY <1>1, <1>10, AssignIs
  <2>2. Contents[call.key] # Absent /\ Contents' = [Contents EXCEPT ![call.key] = call.val]
    BY <1>1, <2>1, StepContents
  <2>3. Done("exists") /\ call.op = "insert_or_assign" /\ call.val \in Value
    BY <2>1 DEF Assigned
  <2>4. Map!Assign(call.key, call.val)
    BY <2>2, <2>3 DEF Done, Map!Assign, Map!Result, Map!Has
  <2> QED
    BY <1>3, <2>3, <2>4, Effective DEF Map!Operation
<1>11. CASE EraseFound
  <2>1. PICK c \in Live(slot) : Erased(c)
    BY <1>1, <1>11, EraseIs
  <2>2. Contents[call.key] # Absent /\ Contents' = [Contents EXCEPT ![call.key] = Absent]
    BY <1>1, <2>1, StepContents
  <2>3. Done("erased") /\ call.op = "erase"
    BY <2>1 DEF Erased
  <2>4. Map!Erase(call.key)
    BY <2>2, <2>3 DEF Done, Map!Erase, Map!Result, Map!Has
  <2> QED
    BY <1>3, <2>4, Effective DEF Map!Operation
<1> QED
  BY <1>6, <1>7, <1>8, <1>9, <1>10, <1>11 DEF FindStep

(* Growth and moves do not show; the insertion takes effect in its place. *)
LEMMA InsertMaps == MapInv /\ ResultInv /\ InsertStep => AbstractStep
<1> SUFFICES ASSUME MapInv, ResultInv, InsertStep PROVE AbstractStep
  OBVIOUS
<1>1. Layout /\ KeysInv /\ OldInv
  BY DEF MapInv, KeysInv
<1>2. pc # "done" /\ ret = NoResult
  BY DEF InsertStep, Grow, NoGrow, TransferNext, RehashDone, PlaceNext, PlaceNew, PlaceMoved, ResultInv
<1>3. ASSUME UNCHANGED <<table, rehash>> PROVE Contents' = Contents
  BY <1>3, ContentsKept DEF Elements, Live, table, rehash
<1>4. Managements = Map!Managements /\ Insertions = Map!Insertions
  BY DEF Managements, Map!Managements, Insertions, Map!Insertions
<1>5. CASE Grow
  <2>1. call.op \in Insertions /\ call.op \notin Managements /\ call.key \in Key /\ mlf \in LoadFactors
    BY <1>1, <1>5 DEF Grow, Layout, TypeInv, CallOK, KeyOps, Insertions, Managements
  <2>2. \/ UNCHANGED <<table, rehash>> /\ Done("throws")
        \/ Resizing /\ ret' = ret
    BY <1>1, <1>5, <2>1, GrowIs DEF Resizing, CreateSlots, Layout, TypeInv, TableOK
  <2>3. CASE UNCHANGED <<table, rehash>> /\ Done("throws")
    <3>1. Map!Throw(call.op, call.key)
      BY <1>3, <2>3 DEF Done, Map!Throw, Map!Result
    <3> QED
      BY <1>2, <1>4, <2>1, <3>1, Effective DEF Map!Operation
  <2> QED
    BY <1>1, <2>2, <2>3, StepContents, ContentsKept, Silent
<1>6. CASE NoGrow \/ TransferNext
  BY <1>3, <1>6, Silent DEF NoGrow, TransferNext
<1>7. CASE RehashDone
  <2>1. Finishing
    BY <1>1, <1>7 DEF RehashDone, Finishing, Layout, MemoryInv
  <2>2. Contents' = Contents
    BY <1>1, <2>1, StepContents, ContentsKept
  <2>3. CASE ret' = ret
    BY <2>2, <2>3, Silent
  <2>4. CASE call.op \notin Insertions /\ Done("ok")
    <3>1. call.op \in Managements /\ call.key = Absent
      BY <2>1, <2>4 DEF Finishing, ResultInv, InRehash, Managements, KeyOps, Insertions
    <3>2. Map!Resize(call.op)
      BY <2>2, <2>4, <3>1 DEF Done, Map!Resize, Map!Result
    <3> QED
      BY <1>2, <1>4, <3>1, <3>2, Effective DEF Map!Operation
  <2> QED
    BY <2>1, <2>3, <2>4 DEF Finishing
<1>8. CASE PlaceNext
  <2>1. Marking /\ ret' = ret
    BY <1>1, <1>8 DEF PlaceNext, Marking, Layout, MemoryInv
  <2> QED
    BY <1>1, <2>1, StepContents, ContentsKept, Silent
<1>9. CASE PlaceNew
  <2>1. PICK c \in DOMAIN slot : Inserted(c)
    BY <1>1, <1>9, PlaceNewIs
  <2>2. Contents[call.key] = Absent /\ Contents' = [Contents EXCEPT ![call.key] = call.val]
    BY <1>1, <2>1, StepContents
  <2>3. Done("inserted") /\ call.op \in Insertions /\ call.key \in Key /\ call.val \in Value
    BY <2>1 DEF Inserted
  <2>4. Map!Insert(call.op, call.key, call.val)
    BY <2>2, <2>3 DEF Done, Map!Insert, Map!Result, Map!Has
  <2> QED
    BY <1>2, <1>4, <2>3, <2>4, Effective DEF Map!Operation
<1>10. CASE PlaceMoved
  <2>1. PICK c \in DOMAIN slot, d \in pending : Moved(c, d)
    BY <1>1, <1>10, PlaceMovedIs
  <2>2. ret' = ret
    BY <2>1 DEF Moved
  <2> QED
    BY <1>1, <2>1, <2>2, StepContents, ContentsKept, Silent
<1> QED
  BY <1>5, <1>6, <1>7, <1>8, <1>9, <1>10 DEF InsertStep

(* Every step is a step of the map, or does not show. *)
LEMMA StepMaps == MapInv /\ ResultInv /\ [Next]_vars => AbstractStep
<1> SUFFICES ASSUME MapInv, ResultInv, [Next]_vars PROVE AbstractStep
  OBVIOUS
<1>1. ASSUME UNCHANGED <<table, rehash>> PROVE Contents' = Contents
  BY <1>1, ContentsKept DEF Elements, Live, table, rehash
<1>2. CASE BeginKeyOp \/ BeginManagement
  <2>1. \E op, k, v, n : Begin(op, k, v, n)
    BY <1>2 DEF BeginKeyOp, BeginManagement
  <2> QED
    BY <1>1, <2>1, Silent DEF Begin
<1>3. CASE Return
  <2>1. Map!Return
    BY <1>1, <1>3 DEF Return, Map!Return, Map!NoResult, NoResult
  <2> QED
    BY <2>1 DEF AbstractStep, Map!Next
<1>4. CASE UNCHANGED vars
  BY <1>1, <1>4, Silent DEF vars
<1> QED
  BY <1>2, <1>3, <1>4, ManageMaps, FindMaps, InsertMaps DEF Next

(* A table without elements is the empty map. *)
LEMMA InitMaps == Init => Map!Init
<1> SUFFICES ASSUME Init PROVE Map!Init
  OBVIOUS
<1>1. Live(slot) = {} /\ Live(oldSlot) = {} /\ ret = NoResult
  BY DEF Init, Live, AllRaw, NoSlots
<1>2. Elements = {}
  BY <1>1 DEF Elements
<1>3. Contents = [k \in Key |-> Absent]
  BY <1>2 DEF Contents
<1> QED
  BY <1>1, <1>3 DEF Map!Init, Map!NoResult, NoResult

(***************************************************************************)
(* The table implements the map: whatever the hash, the sizes and the      *)
(* sequence of calls, each call returns what a map returns, and searches,  *)
(* growth and moves in the middle of calls do not show.                    *)
(***************************************************************************)
THEOREM Refinement == Spec => ImplementsMap
<1>1. Init => ResultInv
  BY InitResult
<1>2. MapInv /\ ResultInv /\ [Next]_vars => ResultInv'
  BY NextResult DEF MapInv, KeysInv
<1>3. MapInv /\ ResultInv /\ [Next]_vars => [Map!Next]_Map!mapVars
  BY StepMaps DEF AbstractStep
<1>4. Init => Map!Init
  BY InitMaps
<1> QED
  BY <1>1, <1>2, <1>3, <1>4, MapInvAlways, PTL DEF Spec, ImplementsMap, Map!Spec

-----------------------------------------------------------------------------
(* The threshold *)

DriftStep ==
    groupMask' = groupMask /\ call.op # "clear" /\ slotThreshold > 0 =>
        slotThreshold' - Cardinality(BelowTheirBit)' <= slotThreshold - Cardinality(BelowTheirBit)

(* A finite number of elements stand below their bit. *)
LEMMA BelowFinite == Layout => IsFiniteSet(BelowTheirBit) /\ Cardinality(BelowTheirBit) \in Nat
<1> SUFFICES ASSUME Layout PROVE IsFiniteSet(BelowTheirBit) /\ Cardinality(BelowTheirBit) \in Nat
  OBVIOUS
<1>1. BelowTheirBit \subseteq Live(slot)
  BY DEF BelowTheirBit
<1> QED
  BY <1>1, LiveFinite, FS_Subset, FS_CardinalityType

(* And so they do after a step. *)
LEMMA BelowFiniteNext == Layout' => IsFiniteSet(BelowTheirBit') /\ Cardinality(BelowTheirBit') \in Nat
<1>1. (Layout => IsFiniteSet(BelowTheirBit) /\ Cardinality(BelowTheirBit) \in Nat)'
  BY BelowFinite, PTL
<1> QED
  BY <1>1

(* More elements below their bit leave room for a threshold as high. *)
LEMMA MoreBelow ==
  ASSUME Layout, Layout', BelowTheirBit \subseteq BelowTheirBit', slotThreshold' <= slotThreshold
  PROVE  DriftStep
<1>1. /\ IsFiniteSet(BelowTheirBit') /\ Cardinality(BelowTheirBit') \in Nat
      /\ Cardinality(BelowTheirBit) \in Nat
  BY BelowFinite, BelowFiniteNext
<1>2. Cardinality(BelowTheirBit) <= Cardinality(BelowTheirBit')
  BY <1>1, FS_Subset
<1>3. slotThreshold \in Nat /\ slotThreshold' \in Nat
  BY DEF Layout, TypeInv, TableOK
<1> QED
  BY <1>1, <1>2, <1>3 DEF DriftStep

(* Each step keeps the two in step. *)
LEMMA NextDrift == Layout /\ [Next]_vars => DriftStep
<1> SUFFICES ASSUME Layout, [Next]_vars PROVE DriftStep
  OBVIOUS
<1>1. /\ Layout' /\ slotThreshold \in Nat /\ groupMask \in Nat /\ (~ Allocated => slotThreshold = 0)
      /\ DOMAIN ctrl = DOMAIN slot /\ overflow \in [Groups(groupMask) -> SUBSET (0..(GroupWidth - 1))]
  BY NextLayout DEF Layout, TypeInv, TableOK, MemoryInv
<1> USE DEF BelowTheirBit, CausedOverflow
<1>2. ASSUME UNCHANGED <<ctrl, slot, overflow, slotThreshold>> PROVE DriftStep
  BY <1>1, <1>2, MoreBelow DEF Live
<1>3. CASE Quiet \/ Finishing
  BY <1>2, <1>3 DEF Quiet, Finishing, table
<1>4. CASE Emptying
  BY <1>1, <1>4 DEF Emptying, Emptied, Allocated, DriftStep
<1>5. CASE Resizing
  <2>1. PICK c, m : m \in LoadFactors /\ CreateSlots(c, m) /\ ValidCapacity(c) /\ c # SlotCapacity
    BY <1>5 DEF Resizing
  <2>2. groupMask' = MaskOf(c) /\ MaskOf(c) # 0 /\ c = (MaskOf(c) + 1) * GroupWidth
    BY <2>1 DEF CreateSlots, MaskOf, ValidCapacity
  <2>3. groupMask' # groupMask
    BY <2>1, <2>2 DEF SlotCapacity, Allocated
  <2> QED
    BY <2>3 DEF DriftStep
<1>6. CASE Marking
  <2>1. UNCHANGED <<ctrl, slot, slotThreshold>> /\ \A g \in DOMAIN overflow : overflow[g] \subseteq overflow'[g]
    BY <1>1, <1>6 DEF Marking
  <2>2. \A c \in Live(slot) : c[1] \in DOMAIN overflow
    <3>1. DOMAIN slot = Groups(groupMask) \X (0..(GroupWidth - 1)) /\ DOMAIN overflow = Groups(groupMask)
      BY <1>1 DEF Layout, TypeInv, TableOK, Cells
    <3> QED
      BY <3>1 DEF Live
  <2> QED
    BY <1>1, <2>1, <2>2, MoreBelow DEF Live
<1>7. ASSUME NEW c \in Live(slot), Assigned(c) PROVE DriftStep
  <2>1. Live(slot') = Live(slot) /\ UNCHANGED <<ctrl, overflow, slotThreshold>>
    BY <1>7, StepElements DEF Assigned, Reassigned
  <2> QED
    BY <1>1, <2>1, MoreBelow
<1>8. ASSUME NEW c \in Live(slot), Erased(c), slotThreshold > 0 PROVE DriftStep
  <2>1. Live(slot') = Live(slot) \ {c} /\ overflow' = overflow /\ ctrl' = [ctrl EXCEPT ![c] = EmptySlot]
    BY <1>8, StepElements DEF Erased, Removed
  <2>2. BelowTheirBit' = BelowTheirBit \ {c}
    BY <2>1
  <2>3. CASE CausedOverflow(c)
    <3>1. slotThreshold' = slotThreshold - 1 /\ c \in BelowTheirBit
      BY <1>1, <1>8, <2>3, DecrementRange DEF Erased
    <3> HIDE DEF BelowTheirBit, CausedOverflow
    <3>2. /\ IsFiniteSet(BelowTheirBit) /\ Cardinality(BelowTheirBit) \in Nat
          /\ Cardinality(BelowTheirBit \ {c}) = Cardinality(BelowTheirBit) - 1
      BY <3>1, BelowFinite, FS_RemoveElement
    <3> QED
      BY <1>1, <2>2, <3>1, <3>2 DEF DriftStep
  <2>4. CASE ~ CausedOverflow(c)
    <3>1. slotThreshold' = slotThreshold /\ c \notin BelowTheirBit
      BY <1>8, <2>4 DEF Erased
    <3> QED
      BY <1>1, <2>2, <3>1, MoreBelow
  <2> QED
    BY <2>3, <2>4
<1>9. ASSUME NEW c \in DOMAIN slot, Inserted(c) PROVE DriftStep
  <2>1. /\ Live(slot') = Live(slot) \cup {c} /\ c \notin Live(slot) /\ overflow' = overflow
        /\ ctrl' = [ctrl EXCEPT ![c] = CtrlOf(probe.key)] /\ c[1] = probe.index
        /\ slotThreshold' = (slotThreshold + GivenBack) % HashRange
    BY <1>9, StepElements DEF Inserted, Placed, Free
  <2>2. BelowTheirBit' = IF BelowOverflow THEN BelowTheirBit \cup {c} ELSE BelowTheirBit
    BY <1>1, <2>1 DEF BelowOverflow
  <2>3. slotThreshold' \in Nat /\ slotThreshold' <= slotThreshold + GivenBack
    BY <1>1, <2>1, WrapRange DEF GivenBack
  <2>4. CASE BelowOverflow
    <3>1. c \notin BelowTheirBit /\ BelowTheirBit' = BelowTheirBit \cup {c} /\ GivenBack = 1
      BY <2>1, <2>2, <2>4 DEF GivenBack
    <3> HIDE DEF BelowTheirBit, CausedOverflow
    <3>2. /\ IsFiniteSet(BelowTheirBit) /\ Cardinality(BelowTheirBit) \in Nat
          /\ Cardinality(BelowTheirBit \cup {c}) = Cardinality(BelowTheirBit) + 1
      BY <3>1, BelowFinite, FS_AddElement
    <3> QED
      BY <1>1, <2>3, <3>1, <3>2 DEF DriftStep
  <2>5. CASE ~ BelowOverflow
    BY <1>1, <2>2, <2>3, <2>5, MoreBelow DEF GivenBack
  <2> QED
    BY <2>4, <2>5
<1>10. ASSUME NEW c \in DOMAIN slot, NEW p \in pending, Moved(c, p) PROVE DriftStep
  <2>1. /\ Live(slot') = Live(slot) \cup {c} /\ c \notin Live(slot) /\ UNCHANGED <<overflow, slotThreshold>>
        /\ \A d \in Live(slot) : ctrl'[d] = ctrl[d]
    BY <1>1, <1>10, StepElements DEF Moved, Placed, Live
  <2> QED
    BY <1>1, <2>1, MoreBelow
<1>11. slotThreshold > 0 \/ DriftStep
  BY DEF DriftStep
<1> QED
  BY <1>3, <1>4, <1>5, <1>6, <1>7, <1>8, <1>9, <1>10, <1>11, StepIs

(***************************************************************************)
(* The threshold never drifts up: whatever insertions below an overflow    *)
(* bit give back to it, the erasures of those elements take again.         *)
(***************************************************************************)
THEOREM NoDrift == Spec => ThresholdDrift
<1>1. Layout /\ [Next]_vars => [DriftStep]_vars
  BY NextDrift
<1> QED
  BY <1>1, LayoutAlways, PTL DEF Spec, ThresholdDrift, DriftStep

-----------------------------------------------------------------------------
(* Iteration *)

(* The least element of a set, told by being one. *)
LEMMA LeastIs ==
  ASSUME NEW S, S \subseteq Nat, NEW x \in S, \A y \in S : x <= y
  PROVE  Sets!Min(S) = x
<1> DEFINE m == Sets!Min(S)
<1>1. m \in S /\ \A y \in S : m <= y
  BY DEF Sets!Min
<1> HIDE DEF m
<1>2. m <= x /\ x <= m /\ m \in Nat /\ x \in Nat
  BY <1>1
<1>3. m = x
  BY <1>2
<1> QED
  BY <1>3 DEF m

(* The least element of a set that has some. *)
LEMMA LeastOf ==
  ASSUME NEW S, S \subseteq Nat, S # {}
  PROVE  Sets!Min(S) \in S /\ \A y \in S : Sets!Min(S) <= y
<1>1. \E x \in S : \A y \in S : x <= y
  BY LeastElement
<1> QED
  BY <1>1 DEF Sets!Min

(* The index of a byte in a group is in the order of groups. *)
LEMMA RowOrder ==
  ASSUME NEW g \in Nat, NEW h \in Nat, NEW p \in 0..(GroupWidth - 1), NEW q \in Nat
  PROVE  /\ g * GroupWidth + p \in Nat
         /\ g < h => g * GroupWidth + p < h * GroupWidth + q
         /\ g <= h => g * GroupWidth <= h * GroupWidth
         /\ g * GroupWidth + p >= h * GroupWidth + q => g >= h
<1>1. GroupWidth \in Nat /\ p \in Nat /\ p < GroupWidth
  BY GroupAssumption
<1> DEFINE a == g * GroupWidth
           b == h * GroupWidth
<1>2. a \in Nat /\ b \in Nat
  BY <1>1
<1>3. ASSUME g < h PROVE b >= a + GroupWidth
  <2>1. PICK d \in Nat : h = g + 1 + d
    BY <1>3, h - g - 1 \in Nat, h = g + 1 + (h - g - 1)
  <2>2. b = a + GroupWidth + d * GroupWidth /\ d * GroupWidth \in Nat
    BY <1>1, <2>1
  <2> HIDE DEF a, b
  <2> QED
    BY <1>1, <1>2, <2>2
<1>4. g = h => a = b
  OBVIOUS
<1>5. /\ a + p \in Nat
      /\ g < h => a + p < b + q
      /\ g <= h => a <= b
      /\ a + p >= b + q => g >= h
  <2> HIDE DEF a, b
  <2> QED
    BY <1>1, <1>2, <1>3, <1>4
<1> QED
  BY <1>5

IndexesOf == {Index(c) : c \in Live(slot)} \cup {SlotCapacity}
Following(n) == {j \in IndexesOf : j >= n}

(* The bytes in use are those of the elements. *)
LEMMA UsedIsLive ==
  ASSUME Layout, Allocated
  PROVE  /\ \A g, p : <<g, p>> \in Live(slot) <=> g \in 0..groupMask /\ p \in UsedIn(g)
         /\ \A c \in Live(slot) : c = <<c[1], c[2]>>
         /\ \A g : UsedIn(g) \subseteq 0..(GroupWidth - 1)
         /\ \A c \in Live(slot) : Index(c) < SlotCapacity
         /\ IndexesOf \subseteq Nat /\ SlotCapacity = (groupMask + 1) * GroupWidth /\ groupMask \in Nat
<1>1. /\ groupMask \in Nat /\ groupMask # 0
      /\ DOMAIN slot = (0..groupMask) \X (0..(GroupWidth - 1)) /\ DOMAIN ctrl = DOMAIN slot
  BY DEF Layout, TypeInv, TableOK, Cells, Groups, Allocated
<1>2. \A g, p : <<g, p>> \in Live(slot) <=> g \in 0..groupMask /\ p \in UsedIn(g)
  BY <1>1 DEF Live, UsedIn, Layout, CtrlMirrorsSlots
<1>3. \A c \in Live(slot) : c = <<c[1], c[2]>> /\ c[1] \in 0..groupMask /\ c[2] \in 0..(GroupWidth - 1)
  BY <1>1 DEF Live
<1>4. SlotCapacity = (groupMask + 1) * GroupWidth /\ SlotCapacity \in Nat
  BY <1>1, GroupAssumption DEF SlotCapacity, Allocated
<1>5. \A c \in Live(slot) : Index(c) \in Nat /\ Index(c) < SlotCapacity
  <2> SUFFICES ASSUME NEW c \in Live(slot) PROVE Index(c) \in Nat /\ Index(c) < SlotCapacity
    OBVIOUS
  <2>1. c[1] \in Nat /\ c[1] < groupMask + 1 /\ c[2] \in 0..(GroupWidth - 1) /\ groupMask + 1 \in Nat
    BY <1>1, <1>3
  <2>2. c[1] * GroupWidth + c[2] \in Nat /\ c[1] * GroupWidth + c[2] < (groupMask + 1) * GroupWidth + 0
    BY <2>1, RowOrder
  <2>3. (groupMask + 1) * GroupWidth + 0 = SlotCapacity
    BY <1>4
  <2> QED
    BY <2>2, <2>3 DEF Index
<1>6. \A g : UsedIn(g) \subseteq 0..(GroupWidth - 1)
  BY DEF UsedIn
<1>7. IndexesOf \subseteq Nat
  BY <1>4, <1>5 DEF IndexesOf
<1> QED
  BY <1>1, <1>2, <1>3, <1>4, <1>5, <1>6, <1>7

(* The loop over the groups finds the first element at or behind one. *)
LEMMA FirstUsedFromIs ==
  ASSUME Layout, Allocated, NEW g \in 0..(groupMask + 1)
  PROVE  FirstUsedFrom(g) = Sets!Min(Following(g * GroupWidth))
<1> DEFINE used == {h \in g..groupMask : UsedIn(h) # {}}
           S == Following(g * GroupWidth)
<1>1. /\ groupMask \in Nat /\ g \in Nat /\ IndexesOf \subseteq Nat /\ GroupWidth \in Nat
      /\ SlotCapacity = (groupMask + 1) * GroupWidth /\ SlotCapacity \in IndexesOf
      /\ g * GroupWidth \in Nat
  BY UsedIsLive, GroupAssumption DEF IndexesOf
<1>2. S \subseteq Nat /\ SlotCapacity \in S
  <2>1. 0 \in 0..(GroupWidth - 1)
    BY GroupAssumption DEF IsPow2
  <2>2. g <= groupMask + 1 /\ groupMask + 1 \in Nat
    BY <1>1
  <2>3. g * GroupWidth <= (groupMask + 1) * GroupWidth
    BY <1>1, <2>1, <2>2, RowOrder
  <2> QED
    BY <1>1, <2>3 DEF Following
<1>3. ASSUME NEW c \in Live(slot), Index(c) \in S PROVE c[1] \in used /\ c[2] \in UsedIn(c[1])
  <2>1. c[1] \in 0..groupMask /\ c[2] \in UsedIn(c[1]) /\ c[2] \in 0..(GroupWidth - 1)
    BY UsedIsLive
  <2>2. c[1] * GroupWidth + c[2] >= g * GroupWidth + 0
    BY <1>1, <1>3 DEF Following, Index
  <2>3. c[1] \in Nat /\ 0 \in Nat
    BY <1>1, <2>1
  <2>4. c[1] >= g
    BY <1>1, <2>1, <2>2, <2>3, RowOrder
  <2> QED
    BY <1>1, <2>1, <2>4
<1>4. \A j \in S : j = SlotCapacity \/ \E c \in Live(slot) : j = Index(c)
  BY DEF Following, IndexesOf
<1>5. CASE used = {}
  <2>1. S = {SlotCapacity}
    BY <1>2, <1>3, <1>4, <1>5
  <2>2. FirstUsedFrom(g) = SlotCapacity
    BY <1>5 DEF FirstUsedFrom
  <2> HIDE DEF S
  <2>3. SlotCapacity \in Nat
    BY <1>2
  <2> QED
    BY <2>1, <2>2, <2>3, LeastIs DEF S
<1>6. CASE used # {}
  <2> DEFINE h == Sets!Min(used)
             p == Sets!Min(UsedIn(h))
             j0 == h * GroupWidth + p
  <2>1. h \in used /\ (\A y \in used : h <= y)
    <3>1. used \subseteq Nat
      BY <1>1
    <3> HIDE DEF used
    <3> QED
      BY <1>6, <3>1, LeastOf
  <2>2. h \in g..groupMask /\ UsedIn(h) # {} /\ h \in Nat /\ h >= g /\ h \in 0..groupMask
    <3>1. h \in g..groupMask /\ UsedIn(h) # {}
      BY <2>1
    <3> HIDE DEF h
    <3> QED
      BY <1>1, <3>1
  <2>3. p \in UsedIn(h) /\ (\A y \in UsedIn(h) : p <= y) /\ p \in 0..(GroupWidth - 1)
    <3>1. UsedIn(h) \subseteq 0..(GroupWidth - 1) /\ UsedIn(h) \subseteq Nat
      BY UsedIsLive
    <3> HIDE DEF h
    <3> QED
      BY <2>2, <3>1, LeastOf
  <2>4. <<h, p>> \in Live(slot) /\ Index(<<h, p>>) = j0 /\ j0 \in IndexesOf /\ j0 < SlotCapacity
    <3>1. <<h, p>> \in Live(slot)
      BY <2>2, <2>3, UsedIsLive
    <3> QED
      BY <3>1, UsedIsLive DEF Index, IndexesOf
  <2>5. FirstUsedFrom(g) = j0
    BY <1>6 DEF FirstUsedFrom
  <2> HIDE DEF h, p, used
  <2>6. j0 >= g * GroupWidth /\ j0 \in Nat
    <3>1. g * GroupWidth <= h * GroupWidth /\ h * GroupWidth + p \in Nat /\ h * GroupWidth \in Nat /\ p \in Nat
      BY <1>1, <2>2, <2>3, RowOrder
    <3> QED
      BY <1>1, <3>1
  <2>7. j0 \in S
    BY <2>4, <2>6 DEF Following
  <2>8. ASSUME NEW c \in Live(slot), Index(c) \in S PROVE j0 <= Index(c)
    <3>1. c[1] \in used /\ c[2] \in UsedIn(c[1])
      BY <1>3, <2>8
    <3>2. c[1] \in 0..groupMask /\ c[2] \in 0..(GroupWidth - 1) /\ h <= c[1] /\ c[1] \in Nat
      BY <2>1, <3>1, UsedIsLive
    <3>3. CASE h = c[1]
      <4>1. p <= c[2] /\ p \in Int /\ c[2] \in Int /\ h * GroupWidth \in Int
        BY <1>1, <2>2, <2>3, <3>1, <3>2, <3>3
      <4> QED
        BY <3>3, <4>1 DEF Index
    <3>4. CASE h < c[1]
      <4>1. j0 < c[1] * GroupWidth + c[2]
        BY <2>2, <2>3, <3>2, <3>4, RowOrder
      <4>2. Index(c) \in Nat
        BY <1>2, <2>8
      <4> HIDE DEF j0
      <4> QED
        BY <2>6, <4>1, <4>2 DEF Index
    <3> QED
      BY <2>2, <3>2, <3>3, <3>4
  <2>9. \A j \in S : j0 <= j
    <3>1. j0 <= SlotCapacity
      <4> HIDE DEF j0
      <4> QED
        BY <1>2, <2>4, <2>6
    <3> HIDE DEF j0, S
    <3> QED
      BY <1>4, <2>8, <3>1
  <2> HIDE DEF j0, S
  <2>10. Sets!Min(S) = j0
    BY <1>2, <2>7, <2>9, LeastIs
  <2> QED
    BY <2>5, <2>10 DEF S
<1> QED
  BY <1>5, <1>6

(* The rest of a group and then the groups behind it: the next element.    *)
LEMMA SkipIs ==
  ASSUME Layout, Allocated, slotSize # 0, NEW c \in Live(slot)
  PROVE  SkipEmptySlots(Index(c)) = Sets!Min({j \in IndexesOf : j > Index(c)})
<1> DEFINE n == Index(c) + 1
           g == n \div GroupWidth
           r == n % GroupWidth
           rest == UsedIn(g) \cap RestOf(n)
           S == Following(n)
<1>1. /\ n \in Nat /\ g \in Nat /\ r \in 0..(GroupWidth - 1) /\ n = g * GroupWidth + r
      /\ n - 1 = Index(c) /\ GroupWidth \in Nat \ {0}
  <2>1. Index(c) \in Nat /\ GroupWidth \in Nat \ {0}
    BY UsedIsLive, GroupAssumption DEF IndexesOf, IsPow2
  <2>2. n \in Nat /\ n - 1 = Index(c)
    BY <2>1
  <2> HIDE DEF n
  <2>3. g \in Nat /\ r \in 0..(GroupWidth - 1) /\ n = GroupWidth * g + r
    BY <2>1, <2>2, DivMod
  <2> HIDE DEF g, r
  <2>4. n = g * GroupWidth + r
    BY <2>1, <2>3
  <2> QED
    BY <2>1, <2>2, <2>3, <2>4
<1>2. S = {j \in IndexesOf : j > Index(c)} /\ S \subseteq Nat
  <2>1. IndexesOf \subseteq Nat
    BY UsedIsLive
  <2>2. \A j \in Nat : j >= n <=> j > n - 1
    <3> HIDE DEF n
    <3> QED
      BY <1>1
  <2> QED
    BY <1>1, <2>1, <2>2 DEF Following
<1>3. /\ SlotCapacity \in Nat /\ SlotCapacity = (groupMask + 1) * GroupWidth /\ groupMask \in Nat
      /\ SlotCapacity \in IndexesOf /\ IndexesOf \subseteq Nat
  BY UsedIsLive DEF IndexesOf
<1>4. \A j \in S : j >= n /\ (j = SlotCapacity \/ \E d \in Live(slot) : j = Index(d))
  BY DEF Following, IndexesOf
<1>5. /\ RestOf(n) = r..(GroupWidth - 1)
      /\ SkipEmptySlots(Index(c)) =
            IF n >= SlotCapacity THEN SlotCapacity
            ELSE IF rest # {} THEN g * GroupWidth + Sets!Min(rest) ELSE FirstUsedFrom(g + 1)
  BY DEF SkipEmptySlots, RestOf
<1> HIDE DEF n, g, r, S
(* an element at or behind n is in a later group, or in the rest of this one *)
<1>6. ASSUME NEW d \in Live(slot), Index(d) >= n
      PROVE  d[1] > g \/ (d[1] = g /\ d[2] \in rest)
  <2>1. d[1] \in Nat /\ d[1] \in 0..groupMask /\ d[2] \in UsedIn(d[1]) /\ d[2] \in 0..(GroupWidth - 1)
    BY <1>3, UsedIsLive
  <2>2. d[1] * GroupWidth + d[2] >= g * GroupWidth + r /\ r \in Nat
    BY <1>1, <1>6 DEF Index
  <2>3. d[1] >= g
    BY <1>1, <2>1, <2>2, RowOrder
  <2>4. ASSUME d[1] = g PROVE d[2] >= r
    <3>1. g * GroupWidth \in Nat /\ g * GroupWidth + d[2] >= g * GroupWidth + r
      BY <1>1, <2>2, <2>4
    <3> QED
      BY <1>1, <2>1, <3>1
  <2> QED
    BY <1>1, <1>5, <2>1, <2>3, <2>4
<1>7. CASE n >= SlotCapacity
  <2>1. \A d \in Live(slot) : Index(d) \in Nat /\ Index(d) < SlotCapacity
    BY UsedIsLive DEF IndexesOf
  <2>2. SlotCapacity \in S
    <3>1. Index(c) < SlotCapacity
      BY UsedIsLive
    <3>2. SlotCapacity >= n
      BY <1>1, <1>3, <3>1
    <3> QED
      BY <1>3, <3>2 DEF S, Following
  <2>3. \A j \in S : SlotCapacity <= j
    BY <1>1, <1>2, <1>3, <1>4, <1>7
  <2> QED
    BY <1>2, <1>5, <1>7, <2>2, <2>3, LeastIs
<1>8. CASE n < SlotCapacity /\ rest # {}
  <2> DEFINE p == Sets!Min(rest)
             j0 == g * GroupWidth + p
  <2>1. p \in rest /\ \A y \in rest : p <= y
    <3>1. rest \subseteq Nat
      BY UsedIsLive
    <3> HIDE DEF rest
    <3> QED
      BY <1>8, <3>1, LeastOf
  <2>2. SkipEmptySlots(Index(c)) = j0
    <3>1. ~ (n >= SlotCapacity) /\ rest # {}
      BY <1>1, <1>3, <1>8
    <3> HIDE DEF rest
    <3> QED
      BY <1>5, <3>1
  <2> HIDE DEF p
  <2>3. p \in UsedIn(g) /\ p \in 0..(GroupWidth - 1) /\ p >= r /\ p \in Nat
    BY <1>1, <1>5, <2>1, UsedIsLive
  <2>4. g \in 0..groupMask
    <3>1. g * GroupWidth + r < (groupMask + 1) * GroupWidth + 0 /\ groupMask + 1 \in Nat
      BY <1>1, <1>3, <1>8
    <3>2. ASSUME g >= groupMask + 1 PROVE FALSE
      <4>1. (groupMask + 1) * GroupWidth <= g * GroupWidth
        BY <1>1, <3>1, <3>2, RowOrder
      <4>2. g * GroupWidth \in Nat /\ (groupMask + 1) * GroupWidth \in Nat /\ r \in Nat
        BY <1>1, <3>1
      <4> QED
        BY <3>1, <4>1, <4>2
    <3> QED
      BY <1>1, <1>3, <3>2
  <2>5. <<g, p>> \in Live(slot) /\ Index(<<g, p>>) = j0 /\ j0 \in IndexesOf /\ j0 < SlotCapacity /\ j0 \in Nat
    <3>1. <<g, p>> \in Live(slot)
      BY <2>3, <2>4, UsedIsLive
    <3>2. Index(<<g, p>>) = j0
      BY DEF Index
    <3> HIDE DEF j0
    <3> QED
      BY <3>1, <3>2, UsedIsLive DEF IndexesOf
  <2>6. j0 \in S
    <3>1. g * GroupWidth \in Nat
      BY <1>1
    <3>2. j0 >= n
      BY <1>1, <2>3, <3>1
    <3> QED
      BY <2>5, <3>2 DEF S, Following
  <2>7. ASSUME NEW d \in Live(slot), Index(d) >= n PROVE j0 <= Index(d)
    <3>1. d[1] \in 0..groupMask /\ d[2] \in 0..(GroupWidth - 1) /\ d[1] \in Nat /\ Index(d) \in Nat
      BY <1>3, UsedIsLive DEF IndexesOf
    <3>2. CASE d[1] > g
      <4>1. j0 < d[1] * GroupWidth + d[2]
        BY <1>1, <2>3, <3>1, <3>2, RowOrder
      <4> HIDE DEF j0
      <4> QED
        BY <2>5, <3>1, <4>1 DEF Index
    <3>3. CASE d[1] = g /\ d[2] \in rest
      <4>1. p <= d[2] /\ p \in Int /\ d[2] \in Int /\ g * GroupWidth \in Int
        BY <1>1, <2>1, <2>3, <3>1, <3>3
      <4> QED
        BY <3>3, <4>1 DEF Index
    <3> QED
      BY <1>6, <2>7, <3>2, <3>3
  <2>8. \A j \in S : j0 <= j
    <3> HIDE DEF j0
    <3>1. j0 <= SlotCapacity
      BY <1>3, <2>5
    <3> QED
      BY <1>4, <2>7, <3>1
  <2> HIDE DEF j0
  <2> QED
    BY <1>2, <2>2, <2>6, <2>8, LeastIs
<1>9. CASE n < SlotCapacity /\ rest = {}
  <2>1. g \in 0..groupMask /\ g + 1 \in 0..(groupMask + 1)
    <3>1. g * GroupWidth + r < (groupMask + 1) * GroupWidth + 0 /\ groupMask + 1 \in Nat
      BY <1>1, <1>3, <1>9
    <3>2. ASSUME g >= groupMask + 1 PROVE FALSE
      <4>1. (groupMask + 1) * GroupWidth <= g * GroupWidth
        BY <1>1, <3>1, <3>2, RowOrder
      <4>2. g * GroupWidth \in Nat /\ (groupMask + 1) * GroupWidth \in Nat /\ r \in Nat
        BY <1>1, <3>1
      <4> QED
        BY <3>1, <4>1, <4>2
    <3>3. g < groupMask + 1
      BY <1>1, <1>3, <3>2
    <3> QED
      BY <1>1, <1>3, <3>3
  <2>2. SkipEmptySlots(Index(c)) = Sets!Min(Following((g + 1) * GroupWidth))
    BY <1>1, <1>3, <1>5, <1>9, <2>1, FirstUsedFromIs
  <2>3. (g + 1) * GroupWidth \in Nat /\ n < (g + 1) * GroupWidth
    <3>1. (g + 1) * GroupWidth = g * GroupWidth + GroupWidth /\ g * GroupWidth \in Nat
      BY <1>1
    <3> QED
      BY <1>1, <3>1
  <2>4. ASSUME NEW j \in S PROVE j >= (g + 1) * GroupWidth
    <3>1. CASE j = SlotCapacity
      BY <1>1, <1>3, <2>1, <3>1, RowOrder, 0 \in 0..(GroupWidth - 1), g + 1 <= groupMask + 1
    <3>2. ASSUME NEW d \in Live(slot), j = Index(d) PROVE j >= (g + 1) * GroupWidth
      <4>1. d[1] > g
        BY <1>4, <1>6, <1>9, <2>4, <3>2
      <4>2. d[1] \in Nat /\ d[2] \in 0..(GroupWidth - 1) /\ g + 1 <= d[1] /\ g + 1 \in Nat
        BY <1>1, <1>3, <4>1, UsedIsLive
      <4>3. (g + 1) * GroupWidth <= d[1] * GroupWidth /\ d[1] * GroupWidth \in Nat /\ 0 \in 0..(GroupWidth - 1)
        BY <1>1, <4>2, RowOrder
      <4> QED
        BY <2>3, <3>2, <4>2, <4>3 DEF Index
    <3> QED
      BY <1>4, <2>4, <3>1, <3>2
  <2>5. S = Following((g + 1) * GroupWidth)
    <3>1. \A j \in IndexesOf : j >= (g + 1) * GroupWidth => j >= n
      BY <1>1, <1>3, <2>3
    <3> QED
      BY <2>4, <3>1 DEF S, Following
  <2> QED
    BY <1>2, <2>2, <2>5
<1> QED
  BY <1>1, <1>3, <1>7, <1>8, <1>9

(* A table without elements has nothing to iterate over. *)
LEMMA NoneToVisit ==
  ASSUME Layout, SizeInv, OldInv, pc = "idle"
  PROVE  /\ slotSize = Cardinality(Live(slot))
         /\ slotSize = 0 <=> Live(slot) = {}
         /\ ~ Allocated => slotSize = 0
<1>1. slotSize = Cardinality(Live(slot)) /\ IsFiniteSet(Live(slot))
  BY LiveFinite DEF SizeInv, SizeCountsElements
<1>2. slotSize = 0 <=> Live(slot) = {}
  BY <1>1, FS_EmptySet
<1> QED
  BY <1>1, <1>2 DEF Layout, CtrlMirrorsSlots

(* What the layout and the size make of an iteration. *)
LEMMA IterationFollows == MapInv => IterationIsComplete
<1> SUFFICES ASSUME MapInv, pc = "idle"
             PROVE  /\ FirstUsedIndex = Sets!Min(IndexesOf)
                    /\ \A i \in IndexesOf \ {SlotCapacity} :
                          SkipEmptySlots(i) = Sets!Min({j \in IndexesOf : j > i})
  BY DEF IterationIsComplete, IndexesOf
<1>1. Layout /\ SizeInv /\ OldInv
  BY DEF MapInv, KeysInv
<1>2. CASE slotSize = 0
  <2>1. IndexesOf = {SlotCapacity} /\ SlotCapacity \in Nat
    <3>1. Live(slot) = {}
      BY <1>1, <1>2, NoneToVisit
    <3> QED
      BY <1>1, <3>1, GroupAssumption DEF IndexesOf, SlotCapacity, Layout, TypeInv, TableOK
  <2>2. Sets!Min(IndexesOf) = SlotCapacity
    BY <2>1, LeastIs
  <2> QED
    BY <1>2, <2>1, <2>2 DEF FirstUsedIndex
<1>3. CASE slotSize # 0
  <2>1. Allocated
    BY <1>1, <1>3, NoneToVisit
  <2>2. IndexesOf \subseteq Nat /\ groupMask \in Nat /\ 0 * GroupWidth = 0
    BY <1>1, <2>1, UsedIsLive, GroupAssumption
  <2>3. Following(0) = IndexesOf
    <3>1. \A j \in IndexesOf : j >= 0
      BY <2>2
    <3> QED
      BY <3>1 DEF Following
  <2>4. FirstUsedIndex = Sets!Min(IndexesOf)
    <3>1. 0 \in 0..(groupMask + 1)
      BY <2>2
    <3>2. FirstUsedFrom(0) = Sets!Min(Following(0 * GroupWidth))
      BY <1>1, <2>1, <3>1, FirstUsedFromIs
    <3> QED
      BY <1>3, <2>2, <2>3, <3>2 DEF FirstUsedIndex
  <2>5. ASSUME NEW i \in IndexesOf \ {SlotCapacity}
        PROVE  SkipEmptySlots(i) = Sets!Min({j \in IndexesOf : j > i})
    <3>1. PICK c \in Live(slot) : i = Index(c)
      BY <2>5 DEF IndexesOf
    <3> QED
      BY <1>1, <1>3, <2>1, <3>1, SkipIs
  <2> QED
    BY <2>4, <2>5
<1> QED
  BY <1>2, <1>3

(***************************************************************************)
(* begin() and ++ visit every element once, in the order of the slots, in  *)
(* whatever groups the elements are, and end() comes after the last.       *)
(***************************************************************************)
THEOREM Iteration == Spec => []IterationIsComplete
<1>1. MapInv => IterationIsComplete
  BY IterationFollows
<1> QED
  BY <1>1, MapInvAlways, PTL


-----------------------------------------------------------------------------
(* Calls end *)

(***************************************************************************)
(* The assertion of an insertion that gives one back to the threshold. It  *)
(* does not always hold: what insertions give back may be more than what   *)
(* erasures took, and clear() gives nothing.                               *)
(***************************************************************************)
ThresholdFits == slotThreshold <= SlotCapacity

(* The n groups before the n-th on the probe sequence of a key are full. *)
FullBehind(k, n) ==
    \A i \in 0..(n - 1) : \A c \in DOMAIN ctrl :
        c[1] = Probe(Home(k), i, groupMask) => ctrl[c] # EmptySlot

(***************************************************************************)
(* A new array holds what was in the old one, and more if it was made for  *)
(* an insertion; the groups that the prober of an element to be placed has *)
(* passed are full, because no slot is freed between two of its moves.     *)
(***************************************************************************)
RoomInv ==
    /\ InRehash => oldSize <= SlotCapacity /\ (call.op \in Insertions => oldSize < SlotCapacity)
    /\ pc \in {"place", "transfer"} => FullBehind(probe.key, probe.step)
    /\ pc = "find" => probe.step <= groupMask

(* An insertion goes on where a slot is left. *)
PlaceFits == pc = "place" => slotSize < SlotCapacity

(* Every cell of a table that owns memory is a slot. *)
LEMMA SlotsCounted ==
  ASSUME Layout, Allocated
  PROVE  IsFiniteSet(Cells(groupMask)) /\ Cardinality(Cells(groupMask)) = SlotCapacity
<1> DEFINE G == 0..groupMask
           P == 0..(GroupWidth - 1)
<1>1. groupMask \in Nat /\ groupMask # 0 /\ GroupWidth \in Nat /\ GroupWidth >= 1
  BY GroupAssumption DEF Layout, TypeInv, TableOK, Allocated, IsPow2
<1>2. IsFiniteSet(G) /\ Cardinality(G) = groupMask + 1
  BY <1>1, FS_Interval
<1>3. IsFiniteSet(P) /\ Cardinality(P) = GroupWidth
  BY <1>1, FS_Interval
<1>4. Cells(groupMask) = G \X P
  BY <1>1 DEF Cells, Groups
<1> HIDE DEF G, P
<1> QED
  BY <1>2, <1>3, <1>4, FS_Product DEF SlotCapacity

(* The elements of a table have slots. *)
LEMMA SizeFits ==
  ASSUME Layout, SizeInv
  PROVE  slotSize <= SlotCapacity /\ SlotCapacity \in Nat /\ slotSize \in Nat
<1>1. groupMask \in Nat /\ slotSize \in Nat /\ DOMAIN slot = Cells(groupMask)
  BY DEF Layout, TypeInv, TableOK
<1>2. slotSize = Cardinality(Live(slot)) /\ SlotCapacity \in Nat
  BY <1>1, SlotCapacityRange DEF SizeInv, SizeCountsElements
<1>3. CASE ~ Allocated
  <2>1. Live(slot) = {}
    BY <1>3 DEF Layout, CtrlMirrorsSlots
  <2> QED
    BY <1>1, <1>2, <2>1, FS_EmptySet
<1>4. CASE Allocated
  <2>1. Live(slot) \subseteq Cells(groupMask)
    BY <1>1 DEF Live
  <2> QED
    BY <1>1, <1>2, <1>4, <2>1, SlotsCounted, FS_Subset
<1> QED
  BY <1>1, <1>2, <1>3, <1>4

(* What is moved has a slot left in the new array. *)
LEMMA MovesFit ==
  ASSUME Layout, SizeInv, RoomInv, pc = "transfer"
  PROVE  slotSize < SlotCapacity /\ Cardinality(pending) \in Nat \ {0}
<1>1. pending # {} /\ IsFiniteSet(pending) /\ oldSize = slotSize + Cardinality(pending)
      /\ oldSize <= SlotCapacity
  BY DEF Layout, TypeInv, CallOK, SizeInv, SizeCountsElements, RoomInv, InRehash
<1>2. Cardinality(pending) \in Nat /\ Cardinality(pending) # 0
  BY <1>1, FS_EmptySet, FS_CardinalityType
<1> QED
  BY <1>1, <1>2, SizeFits

(***************************************************************************)
(* A prober that looks for an empty slot in a table that has one is in its *)
(* first traversal: the slot is in a group of the sequence, and the groups *)
(* the prober has passed are full.                                         *)
(***************************************************************************)
LEMMA PlacesLeft ==
  ASSUME Layout, SizeInv, RoomInv, pc \in {"place", "transfer"}, slotSize < SlotCapacity
  PROVE  probe.step <= groupMask
<1>1. /\ Allocated /\ groupMask \in Nat /\ probe.step \in Nat
      /\ DOMAIN slot = Cells(groupMask) /\ DOMAIN ctrl = Cells(groupMask)
  BY DEF Layout, MemoryInv, TypeInv, TableOK, ControlOK
<1>2. probe.key \in Key
  BY <1>1, ProbeKey DEF Probing
<1>3. Live(slot) # Cells(groupMask)
  BY <1>1, SlotsCounted, SizeFits DEF SizeInv, SizeCountsElements
<1>4. PICK c \in Cells(groupMask) : slot[c] = Raw
  BY <1>1, <1>3 DEF Live
<1>5. ctrl[c] = EmptySlot /\ c[1] \in 0..groupMask
  BY <1>1, <1>4 DEF Layout, CtrlMirrorsSlots, Cells, Groups, Allocated
<1>6. PICK n \in 0..groupMask : Probe(Home(probe.key), n, groupMask) = c[1]
  BY <1>1, <1>2, <1>5, ProbeGroups, ProbeCovers DEF Layout, TypeInv, TableOK
<1>7. SUFFICES ASSUME probe.step > groupMask PROVE FALSE
  BY <1>1
<1>8. n \in 0..(probe.step - 1)
  BY <1>1, <1>7
<1> QED
  BY <1>1, <1>4, <1>5, <1>6, <1>8 DEF RoomInv, FullBehind

(* The new array of a rehash has room. *)
LEMMA ResizeRoom ==
  ASSUME Layout, SizeInv, NEW c, NEW m, CreateSlots(c, m), ValidCapacity(c), c >= slotSize,
         UNCHANGED call, call.op \in Insertions => c > SlotCapacity
  PROVE  RoomInv' /\ pc' = "rehash"
<1>1. pc' = "rehash" /\ oldSize' = slotSize /\ groupMask' = MaskOf(c)
  BY DEF CreateSlots, MaskOf
<1>2. SlotCapacity' = c
  BY <1>1 DEF SlotCapacity, Allocated, ValidCapacity
<1>3. slotSize \in Nat /\ slotSize <= SlotCapacity /\ SlotCapacity \in Nat /\ c \in Nat
  BY SizeFits DEF ValidCapacity
<1> QED
  BY <1>1, <1>2, <1>3 DEF RoomInv, InRehash

(* A call that begins or ends has made no move. *)
LEMMA RestRoom ==
  ASSUME pc' \in {"idle", "manage", "grow", "done"}
  PROVE  RoomInv' /\ PlaceFits'
BY DEF RoomInv, PlaceFits, InRehash

(* A search moves on only if it has not been through the table. *)
LEMMA FindRoom ==
  ASSUME Layout, RoomInv, FindStep
  PROVE  RoomInv' /\ PlaceFits'
<1>1. CASE FindNext
  <2>1. /\ pc' = "find" /\ groupMask' = groupMask
        /\ probe'.step = probe.step + 1 /\ probe.step + 1 <= groupMask
    BY <1>1 DEF FindNext, MissedGroup, EndsSearch, HasNextBucket, NextBucket, table,
                Layout, TypeInv, TableOK, ControlOK
  <2> QED
    BY <2>1 DEF RoomInv, PlaceFits, InRehash
<1>2. CASE NotFound \/ ReturnFound \/ KeepExisting \/ AssignExisting \/ EraseFound
  <2>1. pc' \in {"grow", "done"}
    BY <1>2 DEF NotFound, ReturnFound, KeepExisting, AssignExisting, EraseFound, Done, MissedGroup,
                Layout, TypeInv, CallOK, KeyOps
  <2> QED
    BY <2>1, RestRoom
<1> QED
  BY <1>1, <1>2 DEF FindStep

(* A move of the prober leaves a full group behind. *)
LEMMA MoveRoom ==
  ASSUME Layout, ProbeInv, RoomInv, PlaceNext
  PROVE  RoomInv'
<1>1. /\ pc \in {"place", "transfer"} /\ pc' = pc /\ EmptyCells = {} /\ probe' = NextBucket
      /\ UNCHANGED <<groupMask, ctrl, slotSize, oldSize, call>>
  BY DEF PlaceNext, rehash
<1>2. probe.step \in Nat /\ NextBucket.key = probe.key /\ NextBucket.step = probe.step + 1
  BY DEF Layout, TypeInv, ControlOK, NextBucket
<1>3. probe.index = Probe(Home(probe.key), probe.step, groupMask)
  BY <1>1 DEF Layout, MemoryInv, ProbeInv, Probing, OnSequence
<1>4. FullBehind(probe.key, probe.step + 1)
  <2> SUFFICES ASSUME NEW i \in 0..probe.step, NEW c \in DOMAIN ctrl,
                      c[1] = Probe(Home(probe.key), i, groupMask)
               PROVE  ctrl[c] # EmptySlot
    BY <1>2 DEF FullBehind
  <2>1. CASE i = probe.step
    BY <1>1, <1>3, <2>1 DEF EmptyCells
  <2>2. CASE i \in 0..(probe.step - 1)
    BY <1>1, <2>2 DEF RoomInv, FullBehind
  <2> QED
    BY <1>2, <2>1, <2>2
<1>5. FullBehind(probe.key, probe.step)'
  BY <1>1, <1>2, <1>4 DEF FullBehind, Home
<1>6. SlotCapacity' = SlotCapacity
  BY <1>1 DEF SlotCapacity, Allocated
<1> QED
  BY <1>1, <1>5, <1>6 DEF RoomInv, InRehash

(* The steps of an insertion and of a rehash leave a place for what moves. *)
LEMMA InsertRoom ==
  ASSUME Layout, ProbeInv, SizeInv, RoomInv, InsertStep
  PROVE  /\ RoomInv'
         /\ (ThresholdFits /\ PlaceFits => PlaceFits')
<1>0. /\ slotSize \in Nat /\ slotThreshold \in Nat /\ groupMask \in Nat
      /\ SlotCapacity \in Nat /\ slotSize <= SlotCapacity
  BY SizeFits DEF Layout, TypeInv, TableOK
<1>1. CASE Grow
  <2>1. UNCHANGED call
    BY <1>0, <1>1, GrowIs
  <2>2. CASE UNCHANGED <<table, rehash>> /\ Done("throws")
    BY <2>2, RestRoom DEF Done
  <2>3. CASE \E c : CreateSlots(c, mlf) /\ ValidCapacity(c) /\ c > SlotCapacity
    <3>1. PICK c : CreateSlots(c, mlf) /\ ValidCapacity(c) /\ c > SlotCapacity
      BY <2>3
    <3>2. c >= slotSize
      BY <1>0, <3>1 DEF ValidCapacity
    <3> QED
      BY <2>1, <3>1, <3>2, ResizeRoom DEF PlaceFits
  <2> QED
    BY <1>0, <1>1, <2>2, <2>3, GrowIs
<1>2. CASE NoGrow
  <2>1. /\ pc' = "place" /\ slotSize' = slotSize /\ SlotCapacity' = SlotCapacity /\ probe'.step = 0
    BY <1>2 DEF NoGrow, StartProbe, table, SlotCapacity, Allocated
  <2>2. ThresholdFits => slotSize < SlotCapacity
    BY <1>0, <1>2 DEF NoGrow, NeedGrow, ThresholdFits
  <2> QED
    BY <2>1, <2>2 DEF RoomInv, FullBehind, PlaceFits, InRehash
<1>3. CASE TransferNext
  <2>1. /\ pc = "rehash" /\ pc' = "transfer" /\ call' = call /\ SlotCapacity' = SlotCapacity
        /\ oldSize' = oldSize /\ probe'.step = 0
    BY <1>3 DEF TransferNext, StartProbe, table, rehash, SlotCapacity, Allocated
  <2> QED
    BY <2>1 DEF RoomInv, FullBehind, PlaceFits, InRehash
<1>4. CASE RehashDone
  <2>1. /\ pc = "rehash" /\ slotSize' = slotSize /\ SlotCapacity' = SlotCapacity
        /\ \/ pc' = "place" /\ call.op \in Insertions /\ probe'.step = 0
           \/ pc' = "done"
    BY <1>4 DEF RehashDone, StartProbe, table, SlotCapacity, Allocated, Done
  <2>2. slotSize = oldSize
    <3>1. Cardinality(pending) = 0
      BY <1>4, FS_EmptySet DEF RehashDone
    <3> QED
      BY <1>0, <2>1, <3>1 DEF SizeInv, SizeCountsElements, InRehash
  <2>3. CASE pc' = "place" /\ call.op \in Insertions /\ probe'.step = 0
    BY <2>1, <2>2, <2>3 DEF RoomInv, FullBehind, PlaceFits, InRehash
  <2> QED
    BY <2>1, <2>3, RestRoom
<1>5. CASE PlaceNext
  <2>1. pc' = pc /\ slotSize' = slotSize /\ SlotCapacity' = SlotCapacity
    BY <1>5 DEF PlaceNext, SlotCapacity, Allocated
  <2> QED
    BY <1>5, <2>1, MoveRoom DEF PlaceFits
<1>6. CASE PlaceNew
  <2>1. pc' = "done"
    BY <1>6 DEF PlaceNew, Done
  <2> QED
    BY <2>1, RestRoom
<1>7. CASE PlaceMoved
  <2>1. /\ pc = "transfer" /\ pc' = "rehash" /\ call' = call /\ oldSize' = oldSize
        /\ SlotCapacity' = SlotCapacity
    BY <1>7 DEF PlaceMoved, SlotCapacity, Allocated
  <2> QED
    BY <2>1 DEF RoomInv, PlaceFits, InRehash
<1> QED
  BY <1>1, <1>2, <1>3, <1>4, <1>5, <1>6, <1>7 DEF InsertStep

(* A call of another kind finds room for the elements there are. *)
LEMMA ManageRoom ==
  ASSUME Layout, SizeInv, Manage
  PROVE  RoomInv' /\ PlaceFits'
<1>1. UNCHANGED call /\ (Emptied \/ Resized \/ Untouched)
  BY ManageIs
<1>2. CASE Emptied \/ Untouched
  <2>1. pc' = "done"
    BY <1>2 DEF Emptied, Untouched, Done
  <2> QED
    BY <2>1, RestRoom
<1>3. CASE Resized
  <2>1. call.op \notin Insertions
    BY <1>3 DEF Resized, Managements, Insertions
  <2> QED
    BY <1>1, <1>3, <2>1, ResizeRoom DEF Resized, PlaceFits
<1> QED
  BY <1>1, <1>2, <1>3

(* No step leaves a full group for one that is not, or an element moving   *)
(* without a place.                                                        *)
LEMMA NextRoom ==
  Layout /\ ProbeInv /\ SizeInv /\ RoomInv /\ [Next]_vars
    => RoomInv' /\ (ThresholdFits /\ PlaceFits => PlaceFits')
<1> SUFFICES ASSUME Layout, ProbeInv, SizeInv, RoomInv, [Next]_vars
             PROVE  RoomInv' /\ (ThresholdFits /\ PlaceFits => PlaceFits')
  OBVIOUS
<1>1. CASE BeginKeyOp \/ BeginManagement
  <2>1. pc' = "manage" \/ (pc' = "find" /\ probe'.step = 0 /\ groupMask' = groupMask)
    BY <1>1 DEF BeginKeyOp, BeginManagement, Begin, StartProbe, table
  <2>2. groupMask \in Nat
    BY DEF Layout, TypeInv, TableOK
  <2> QED
    BY <2>1, <2>2, RestRoom DEF RoomInv, PlaceFits, InRehash
<1>2. CASE Return
  BY <1>2, RestRoom DEF Return
<1>3. CASE UNCHANGED vars
  BY <1>3 DEF vars, table, rehash, RoomInv, PlaceFits, InRehash, SlotCapacity, Allocated, FullBehind, Home
<1> QED
  BY <1>1, <1>2, <1>3, ManageRoom, FindRoom, InsertRoom DEF Next

(* The inductive invariant of the loops. *)
LEMMA RoomAlways == Spec => [](MapInv /\ RoomInv)
<1>1. Init => RoomInv /\ PlaceFits
  BY DEF Init, RoomInv, PlaceFits, InRehash
<1>2. MapInv /\ RoomInv /\ [Next]_vars => RoomInv'
  BY NextRoom DEF MapInv
<1> QED
  BY <1>1, <1>2, MapInvAlways, PTL DEF Spec

(* An insertion finds a slot as long as the threshold is within the table. *)
LEMMA FitsAlways == Spec /\ []ThresholdFits => []PlaceFits
<1>1. Init => PlaceFits
  BY DEF Init, PlaceFits
<1>2. MapInv /\ RoomInv /\ ThresholdFits /\ PlaceFits /\ [Next]_vars => PlaceFits'
  BY NextRoom DEF MapInv
<1> QED
  BY <1>1, <1>2, RoomAlways, PTL DEF Spec

(***************************************************************************)
(* find_empty_to_insert() and the insertion of a rehash never ask whether  *)
(* their prober has been through the table, and need not: moving always    *)
(* finds a slot, and so does inserting, both within one traversal, if the  *)
(* table is not full.                                                      *)
(***************************************************************************)
THEOREM InsertionsEnd ==
  Spec => /\ [](pc = "transfer" => slotSize < SlotCapacity)
          /\ [](pc \in {"place", "transfer"} /\ slotSize < SlotCapacity => probe.step <= groupMask)
<1>1. MapInv /\ RoomInv =>
        /\ pc = "transfer" => slotSize < SlotCapacity
        /\ pc \in {"place", "transfer"} /\ slotSize < SlotCapacity => probe.step <= groupMask
  BY MovesFit, PlacesLeft DEF MapInv
<1> QED
  BY <1>1, RoomAlways, PTL

(***************************************************************************)
(* How far a call still has to go: where it is between its beginning and   *)
(* its end, and how many groups or elements its loop has left there.       *)
(***************************************************************************)
Stage == CASE pc \in {"manage", "find"}     -> 5
           [] pc = "grow"                   -> 4
           [] pc \in {"rehash", "transfer"} -> 3
           [] pc = "place"                  -> 2
           [] pc = "done"                   -> 1
           [] pc = "idle"                   -> 0
LoopLeft == CASE pc \in {"find", "place"} -> groupMask - probe.step
              [] pc = "rehash"            -> Cardinality(pending) * (groupMask + 2)
              [] pc = "transfer"          -> Cardinality(pending) * (groupMask + 2) - 1 - probe.step
              [] OTHER                    -> 0

Shorter == Stage' < Stage \/ (Stage' = Stage /\ LoopLeft' < LoopLeft)

(* They are numbers. *)
LEMMA LeftRange ==
  ASSUME Layout, SizeInv, RoomInv, PlaceFits
  PROVE  /\ Stage \in 0..5 /\ LoopLeft \in Nat
         /\ Cardinality(pending) \in Nat /\ Cardinality(pending) * (groupMask + 2) \in Nat
<1>1. groupMask \in Nat /\ probe.step \in Nat
      /\ pc \in {"idle", "manage", "find", "grow", "rehash", "transfer", "place", "done"}
  BY TypeParts DEF TypeOK, Layout, TypeInv, ControlOK
<1>2. Cardinality(pending) \in Nat
  BY FS_CardinalityType DEF SizeInv
<1> DEFINE p == Cardinality(pending)
           x == p * (groupMask + 2)
<1>3. x \in Nat
  BY <1>1, <1>2
<1>4. Stage \in 0..5
  BY <1>1 DEF Stage
<1>5. pc \in {"find", "place"} => groupMask - probe.step \in Nat
  BY <1>1, PlacesLeft DEF RoomInv, PlaceFits
<1>6. ASSUME pc = "transfer" PROVE x - 1 - probe.step \in Nat
  <2>1. p # 0 /\ probe.step <= groupMask
    BY <1>6, MovesFit, PlacesLeft
  <2>2. x >= groupMask + 2
    <3> DEFINE w == groupMask + 2
    <3>1. 1 <= p /\ w \in Nat /\ p \in Nat
      BY <1>1, <1>2, <2>1
    <3> HIDE DEF p, w
    <3>2. w * 1 <= w * p /\ w * p = p * w /\ w * 1 = w
      BY <3>1
    <3>3. w <= p * w
      BY <3>1, <3>2
    <3> QED
      BY <3>3 DEF p, w
  <2> HIDE DEF x
  <2> QED
    BY <1>1, <1>3, <2>1, <2>2
<1>7. LoopLeft \in Nat
  <2> HIDE DEF x
  <2>1. LoopLeft = CASE pc \in {"find", "place"} -> groupMask - probe.step
                     [] pc = "rehash"            -> x
                     [] pc = "transfer"          -> x - 1 - probe.step
                     [] OTHER                    -> 0
    BY DEF LoopLeft, x
  <2> QED
    BY <1>3, <1>5, <1>6, <2>1
<1> QED
  BY <1>2, <1>3, <1>4, <1>7

(* A step on to a later stage. *)
LEMMA LaterStage ==
  ASSUME \/ pc \in {"manage", "find"} /\ pc' \in {"grow", "rehash", "done"}
         \/ pc = "grow" /\ pc' \in {"rehash", "place", "done"}
         \/ pc = "rehash" /\ pc' \in {"place", "done"}
         \/ pc = "place" /\ pc' = "done"
         \/ pc = "done" /\ pc' = "idle"
  PROVE  Shorter
BY DEF Shorter, Stage

(* A step within a loop. *)
LEMMA LoopShorter ==
  ASSUME Layout, SizeInv, RoomInv, PlaceFits,
         FindNext \/ PlaceNext \/ TransferNext \/ PlaceMoved
  PROVE  Shorter
<1> DEFINE x == Cardinality(pending) * (groupMask + 2)
<1>1. groupMask \in Nat /\ probe.step \in Nat /\ x \in Nat /\ Cardinality(pending) \in Nat
  BY LeftRange DEF Layout, TypeInv, TableOK, ControlOK
<1>2. CASE FindNext
  <2>1. /\ pc = "find" /\ pc' = "find" /\ groupMask' = groupMask /\ probe'.step = probe.step + 1
    BY <1>2 DEF FindNext, MissedGroup, NextBucket, table
  <2> QED
    BY <1>1, <2>1 DEF Shorter, Stage, LoopLeft
<1>3. CASE PlaceNext
  <2>1. /\ pc \in {"place", "transfer"} /\ pc' = pc /\ groupMask' = groupMask
        /\ probe'.step = probe.step + 1 /\ pending' = pending
    BY <1>3 DEF PlaceNext, NextBucket, rehash
  <2>2. Stage' = Stage
    BY <2>1 DEF Stage
  <2>3. CASE pc = "place"
    BY <1>1, <2>1, <2>2, <2>3 DEF Shorter, LoopLeft
  <2>4. CASE pc = "transfer"
    <3>1. LoopLeft = x - 1 - probe.step /\ LoopLeft' = x - 1 - (probe.step + 1)
      BY <2>1, <2>4 DEF LoopLeft
    <3> HIDE DEF x
    <3> QED
      BY <1>1, <2>2, <3>1 DEF Shorter
  <2> QED
    BY <2>1, <2>3, <2>4
<1>4. CASE TransferNext
  <2>1. /\ pc = "rehash" /\ pc' = "transfer" /\ groupMask' = groupMask
        /\ probe'.step = 0 /\ pending' = pending
    BY <1>4 DEF TransferNext, StartProbe, table, rehash
  <2>2. Stage' = Stage
    BY <2>1 DEF Stage
  <2>3. LoopLeft = x /\ LoopLeft' = x - 1 - 0
    BY <2>1 DEF LoopLeft
  <2> HIDE DEF x
  <2> QED
    BY <1>1, <2>2, <2>3 DEF Shorter
<1>5. CASE PlaceMoved
  <2>1. /\ pc = "transfer" /\ pc' = "rehash" /\ groupMask' = groupMask
        /\ pending' = pending \ {NextPending}
    BY <1>5 DEF PlaceMoved
  <2>2. Stage' = Stage
    BY <2>1 DEF Stage
  <2>3. probe.step <= groupMask
    BY <2>1, MovesFit, PlacesLeft
  <2>4. Cardinality(pending') = Cardinality(pending) - 1
    <3>1. NextPending \in pending /\ IsFiniteSet(pending)
      BY <2>1, NextToMove DEF SizeInv, Layout, TypeInv, CallOK
    <3> QED
      BY <2>1, <3>1, FS_RemoveElement
  <2> DEFINE p == Cardinality(pending)
  <2>5. LoopLeft' = (p - 1) * (groupMask + 2) /\ LoopLeft = x - 1 - probe.step
    BY <2>1, <2>4 DEF LoopLeft
  <2>6. (p - 1) * (groupMask + 2) = x - (groupMask + 2)
    BY <1>1
  <2> HIDE DEF x, p
  <2> QED
    BY <1>1, <2>2, <2>3, <2>5, <2>6 DEF Shorter
<1> QED
  BY <1>2, <1>3, <1>4, <1>5

(***************************************************************************)
(* Every step of a call brings it nearer to its return: no loop of a call  *)
(* goes on for ever as long as insertions respect the threshold's bound,   *)
(* which they assert.                                                      *)
(***************************************************************************)
THEOREM CallsGetShorter ==
  Spec /\ []ThresholdFits =>
    /\ [](Stage \in 0..5 /\ LoopLeft \in Nat)
    /\ [][pc # "idle" => Shorter]_vars
<1> DEFINE Inv == MapInv /\ RoomInv /\ PlaceFits
<1>1. Inv => Stage \in 0..5 /\ LoopLeft \in Nat
  BY LeftRange DEF MapInv
<1>2. Inv /\ [Next]_vars => [pc # "idle" => Shorter]_vars
  <2> SUFFICES ASSUME Inv, Next, pc # "idle" PROVE Shorter
    BY DEF vars
  <2>1. Layout /\ SizeInv /\ RoomInv /\ PlaceFits
    BY DEF MapInv
  <2>2. Manage \/ FindStep \/ InsertStep \/ Return
    BY DEF Next, BeginKeyOp, BeginManagement, Begin
  <2>3. CASE Manage
    <3>1. pc = "manage" /\ pc' \in {"rehash", "done"}
      BY <2>1, <2>3, ManageIs DEF Emptied, Resized, Untouched, CreateSlots, Done
    <3> QED
      BY <3>1, LaterStage
  <2>4. CASE FindStep
    <3>1. FindNext \/ (pc = "find" /\ pc' \in {"grow", "done"})
      <4>1. CASE NotFound
        <5>1. pc = "find" /\ call.op \in Insertions \cup {"find", "erase"}
          BY <2>1, <4>1 DEF NotFound, MissedGroup, Layout, TypeInv, CallOK, KeyOps
        <5> QED
          BY <4>1, <5>1 DEF NotFound, Done
      <4>2. CASE ReturnFound \/ KeepExisting \/ AssignExisting \/ EraseFound
        BY <4>2 DEF ReturnFound, KeepExisting, AssignExisting, EraseFound, Done, Finding
      <4> QED
        BY <2>4, <4>1, <4>2 DEF FindStep
    <3> QED
      BY <2>1, <3>1, LaterStage, LoopShorter
  <2>5. CASE InsertStep
    <3>1. \/ TransferNext \/ PlaceNext \/ PlaceMoved
          \/ pc = "grow" /\ pc' \in {"rehash", "place", "done"}
          \/ pc = "rehash" /\ pc' \in {"place", "done"}
          \/ pc = "place" /\ pc' = "done"
      BY <2>5 DEF InsertStep, Grow, NoGrow, RehashDone, RehashImpl, CreateSlots, PlaceNew, Done
    <3> QED
      BY <2>1, <3>1, LaterStage, LoopShorter
  <2>6. CASE Return
    BY <2>6, LaterStage DEF Return
  <2> QED
    BY <2>2, <2>3, <2>4, <2>5, <2>6
<1> QED
  BY <1>1, <1>2, RoomAlways, FitsAlways, PTL DEF Spec

=============================================================================
