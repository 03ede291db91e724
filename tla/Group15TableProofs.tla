------------------------- MODULE Group15TableProofs -------------------------
(***************************************************************************)
(* Theorems about one group15_flat_table, for every set of keys, every     *)
(* hash, every group width that is a power of two and every size.  Types   *)
(* and reachability hold whichever constructors throw.  If none does, the  *)
(* control bytes mirror the slots, no key is stored twice, the size is     *)
(* right, and together these make the table a map: each of its steps is a  *)
(* step of HashMapSpec, or leaves the mapping and the result as they are.  *)
(***************************************************************************)
EXTENDS Group15Table, GroupQuadraticProberProofs

-----------------------------------------------------------------------------
(* Capacities *)

(* The rounding that the choice in RoundUpPow2 stands for. *)
LEMMA RoundUp ==
  ASSUME NEW n \in Nat, n >= 1
  PROVE  RoundUpPow2(n) \in Nat /\ RoundUpPow2(n) >= n /\ IsPow2(RoundUpPow2(n))
<1>1. \E p \in n..(2 * n) : IsPow2(p) /\ p < 2 * n
  BY Pow2Between
<1>2. RoundUpPow2(n) \in n..(2 * n) /\ IsPow2(RoundUpPow2(n))
  BY <1>1 DEF RoundUpPow2
<1> QED
  BY <1>2

(* The threshold of a load factor and the capacity for one are numbers. *)
LEMMA LoadFactorRange ==
  ASSUME NEW m \in LoadFactors
  PROVE  m \in Nat /\ m > 0
BY LoadFactorAssumption DEF LoadFactorAmplify

(* The capacity for so many elements is a number. *)
LEMMA FitRange ==
  ASSUME NEW n \in Nat, NEW m \in LoadFactors
  PROVE  ShrinkToFitCapacity(n, m) \in Nat
<1>1. n * 256 \in Nat /\ m \in Nat \ {0}
  BY LoadFactorRange
<1> DEFINE a == n * 256
<1>2. a \div m \in Nat
  <2> HIDE DEF a
  <2> QED
    BY <1>1, DivMod DEF a
<1> QED
  BY <1>2 DEF ShrinkToFitCapacity, LoadFactorAmplify

(* So is the threshold of so many slots. *)
LEMMA ThresholdRange ==
  ASSUME NEW n \in Nat, NEW m \in LoadFactors
  PROVE  CalcSlotThreshold(m, n) \in Nat
<1>1. n * m \in Nat
  BY LoadFactorRange
<1>2. (n * m) \div 256 \in Nat
  <2> DEFINE a == n * m
  <2> HIDE DEF a
  <2> QED
    BY <1>1 DEF a
<1> QED
  BY <1>2 DEF CalcSlotThreshold, LoadFactorAmplify

(***************************************************************************)
(* calc_capacity() gives a power of two of at least two groups.            *)
(***************************************************************************)
NewMask(n) == CalcCapacity(n) \div GroupWidth - 1

(* A new table has a power of two of groups, and more than one. *)
LEMMA NewMaskRange ==
  ASSUME NEW n \in Nat, slotSize \in Nat
  PROVE  /\ CalcCapacity(n) \in Nat
         /\ NewMask(n) \in Nat /\ NewMask(n) # 0
         /\ IsPow2(NewMask(n) + 1)
<1> DEFINE w == AtLeast(AtLeast(n, MinCapacity), slotSize)
           c == CalcCapacity(n)
<1>1. MinCapacity \in Nat /\ GroupWidth \in Nat \ {0} /\ GroupWidth >= 2
      /\ IsPow2(GroupWidth) /\ MinCapacity = 2 * GroupWidth
  BY GroupAssumption
<1>2. w \in Nat /\ w >= 1 /\ w >= MinCapacity
  BY <1>1 DEF AtLeast
<1>3. c \in Nat /\ c >= w /\ IsPow2(c)
  <2> HIDE DEF w
  <2>1. c = RoundUpPow2(w)
    BY DEF CalcCapacity, w
  <2> HIDE DEF c
  <2> QED
    BY <2>1, <1>2, RoundUp
<1> HIDE DEF w, c
<1>4. c >= 2 * GroupWidth /\ GroupWidth <= c
  BY <1>1, <1>2, <1>3
<1>5. PICK q \in Nat : c = GroupWidth * q /\ IsPow2(q)
  BY <1>1, <1>3, <1>4, Pow2Divides
<1>6. q >= 2
  <2> SUFFICES ASSUME q <= 1 PROVE FALSE
    OBVIOUS
  <2>1. q = 0 \/ q = 1
    OBVIOUS
  <2> QED
    BY <2>1, <1>1, <1>4, <1>5
<1>7. c \div GroupWidth = q
  BY <1>1, <1>5, Quotient
<1> QED
  BY <1>3, <1>5, <1>6, <1>7 DEF NewMask, c

-----------------------------------------------------------------------------
(* Hashes *)

(* The home group of a key is a group of the table. *)
LEMMA IndexRange ==
  ASSUME NEW k \in Key, NEW mask \in Nat
  PROVE  /\ IndexForHash(Hash[k], mask) \in Groups(mask)
         /\ IndexForHash(Hash[k], mask) \in Nat
         /\ mask # 0 => IndexForHash(Hash[k], mask) \in 0..mask
<1> DEFINE n == IF mask = 0 THEN 2 ELSE mask + 1
           h == Hash[k]
           a == h * n
           q == a \div HashRange
<1>1. h \in Nat /\ h < HashRange /\ HashRange \in Nat \ {0} /\ n \in Nat /\ n >= 1
  BY HashAssumption
<1>2. a \in Nat
  <2> HIDE DEF h, n
  <2> QED
    BY <1>1
<1>3. q \in Nat /\ a = (HashRange * q) + (a % HashRange) /\ a % HashRange \in Nat
  <2> HIDE DEF a
  <2>1. HashRange \in Nat \ {0}
    BY <1>1
  <2>2. /\ a % HashRange \in 0..(HashRange - 1)
        /\ a \div HashRange \in Nat
        /\ a = (HashRange * (a \div HashRange)) + (a % HashRange)
    BY <2>1, <1>2, DivMod
  <2> QED
    BY <2>1, <2>2
<1>4. q < n
  <2> SUFFICES ASSUME q >= n PROVE FALSE
    BY <1>1, <1>3
  <2> HIDE DEF h, n, q
  <2>1. HashRange * q >= HashRange * n
    BY <1>1, <1>3
  <2>2. HashRange * n > h * n
    BY <1>1
  <2> QED
    BY <2>1, <2>2, <1>1, <1>3
<1>5. q = IndexForHash(Hash[k], mask)
  BY DEF IndexForHash
<1>6. q \in Groups(mask) /\ (mask # 0 => q \in 0..mask)
  <2> HIDE DEF q
  <2> QED
    BY <1>3, <1>4 DEF Groups
<1> QED
  BY <1>3, <1>5, <1>6

(* The control byte of a key is neither of the two marks. *)
LEMMA CtrlOfRange ==
  ASSUME NEW k \in Key
  PROVE  CtrlOf(k) \in 0..(CtrlRange - 1) /\ CtrlOf(k) \notin {EmptySlot, SentinelSlot}
<1> DEFINE low == Hash[k] % CtrlRange
<1>1. Hash[k] \in Nat
  BY HashAssumption
<1>2. low \in 0..255
  BY <1>1 DEF CtrlRange
<1>3. CtrlOf(k) = IF low <= SentinelSlot THEN low + OverflowBits ELSE low
  BY DEF CtrlOf, CtrlForHash
<1> HIDE DEF low
<1> QED
  BY <1>2, <1>3 DEF CtrlRange, SentinelSlot, EmptySlot, OverflowBits

(* A control byte selects one of the overflow bits. *)
LEMMA BitRange ==
  ASSUME NEW b \in 0..(CtrlRange - 1)
  PROVE  OverflowBit(b) \in 0..(OverflowBits - 1)
BY DEF OverflowBit, OverflowBits, CtrlRange

-----------------------------------------------------------------------------
(* The cells a step chooses *)

(* Some cells have a first one, in the order of a loop over the groups. *)
LEMMA FirstCellExists ==
  ASSUME NEW S, S \subseteq Nat \X Nat, S # {}
  PROVE  \E c \in S : \A d \in S : Before(c, d)
<1> DEFINE Rows == {c[1] : c \in S}
<1>1. Rows \subseteq Nat /\ Rows # {}
  OBVIOUS
<1>2. PICK r \in Rows : \A s \in Rows : r <= s
  <2> HIDE DEF Rows
  <2> QED
    BY <1>1, LeastElement
<1> DEFINE InRow == {c \in S : c[1] = r}
           Columns == {c[2] : c \in InRow}
<1>3. Columns \subseteq Nat /\ Columns # {}
  BY <1>2
<1>4. PICK p \in Columns : \A s \in Columns : p <= s
  <2> HIDE DEF Columns
  <2> QED
    BY <1>3, LeastElement
<1>5. PICK c \in S : c[1] = r /\ c[2] = p
  BY <1>4
<1>6. \A d \in S : Before(c, d)
  <2> SUFFICES ASSUME NEW d \in S PROVE Before(c, d)
    OBVIOUS
  <2>1. d[1] \in Rows /\ d[1] \in Nat /\ d[2] \in Nat /\ c[1] \in Nat /\ c[2] \in Nat
    OBVIOUS
  <2>2. c[1] <= d[1]
    BY <2>1, <1>2, <1>5
  <2>3. c[1] = d[1] => c[2] <= d[2]
    BY <1>4, <1>5
  <2> QED
    BY <2>1, <2>2, <2>3 DEF Before
<1> QED
  BY <1>6

(* A rehash that is not at its end has a next cell to move. *)
LEMMA NextPendingExists ==
  ASSUME pending \subseteq Nat \X Nat, pending # {}
  PROVE  NextPending \in pending
BY FirstCellExists DEF NextPending

(* A group with an empty slot has a first one. *)
LEMMA FirstEmptyExists ==
  ASSUME DOMAIN ctrl \subseteq Nat \X Nat, EmptyCells # {}
  PROVE  FirstEmpty \in EmptyCells
<1> DEFINE Columns == {c[2] : c \in EmptyCells}
<1>1. EmptyCells \subseteq Nat \X Nat
  BY DEF EmptyCells
<1>2. Columns \subseteq Nat /\ Columns # {}
  BY <1>1
<1>3. PICK p \in Columns : \A s \in Columns : p <= s
  <2> HIDE DEF Columns
  <2> QED
    BY <1>2, LeastElement
<1>4. \E c \in EmptyCells : \A d \in EmptyCells : c[2] <= d[2]
  BY <1>3
<1> QED
  BY <1>4 DEF FirstEmpty

-----------------------------------------------------------------------------
(* Types *)

TableOK ==
    /\ groupMask \in Nat /\ IsPow2(groupMask + 1)
    /\ ctrl \in [Cells(groupMask) -> 0..(CtrlRange - 1)]
    /\ overflow \in [Groups(groupMask) -> SUBSET (0..(OverflowBits - 1))]
    /\ slot \in [Cells(groupMask) -> Element \cup {Raw}]
    /\ slotSize \in Nat /\ slotThreshold \in Nat

ControlOK ==
    /\ pc \in Phases
    /\ call \in [op : KeyOps \cup {"none", "clear", "reserve", "rehash", "max_load_factor", "shrink_to_fit"},
                 key : Key \cup {Absent}, val : Value \cup {Absent}, arg : Nat]
    /\ probe \in [key : Key \cup {Absent}, index : Nat, step : Nat]
    /\ at \in Nat \X Nat

RehashOK ==
    /\ DOMAIN oldSlot \subseteq Nat \X Nat
    /\ oldSlot \in [DOMAIN oldSlot -> Element \cup {Raw}]
    /\ oldSize \in Nat /\ pending \subseteq DOMAIN oldSlot

(***************************************************************************)
(* What the place a call has reached says of its arguments: without it the *)
(* key a step probes for, or the element it constructs, could be any.      *)
(***************************************************************************)
CallOK ==
    /\ call.op \in KeyOps => call.key \in Key
    /\ call.op \in Insertions => call.val \in Value
    /\ call.op = "max_load_factor" => call.arg \in LoadFactors
    /\ pc = "find" => call.op \in KeyOps /\ probe.key = call.key
    /\ pc = "grow" => call.op \in Insertions
    /\ pc \in {"place", "construct"} => call.op \in Insertions /\ probe.key = call.key
    /\ pc = "transfer" =>
         /\ pending # {} /\ probe.key \in Key
         /\ oldSlot[NextPending] # Raw => probe.key = oldSlot[NextPending].key

TypeInv == TableOK /\ mlf \in LoadFactors /\ ControlOK /\ RehashOK /\ CallOK

(* The parts are the type invariant. *)
LEMMA TypeParts == TypeInv => TypeOK
BY DEF TypeInv, TableOK, ControlOK, RehashOK, TypeOK

(* A table without memory and a new table have the types of one. *)
LEMMA FreshTable ==
  ASSUME NEW mask \in Nat
  PROVE  /\ FreshCtrl(mask) \in [Cells(mask) -> 0..(CtrlRange - 1)]
         /\ NoOverflow(mask) \in [Groups(mask) -> SUBSET (0..(OverflowBits - 1))]
         /\ AllRaw(mask) \in [Cells(mask) -> Element \cup {Raw}]
         /\ DefaultCtrl \in [Cells(0) -> 0..(CtrlRange - 1)]
BY DEF FreshCtrl, NoOverflow, AllRaw, DefaultCtrl, CtrlRange, EmptySlot, SentinelSlot

(* A cell is a pair of numbers. *)
LEMMA CellsRange ==
  ASSUME NEW mask \in Nat
  PROVE  Cells(mask) \subseteq Nat \X Nat
BY GroupAssumption DEF Cells, Groups, GroupSize

(* The first state has the types. *)
LEMMA InitType == Init => TypeInv
<1> SUFFICES ASSUME Init PROVE TypeInv
  OBVIOUS
<1>1. TableOK
  <2>1. IsPow2(0 + 1)
    BY DEF IsPow2
  <2> QED
    BY <2>1, FreshTable DEF Init, TableOK
<1>2. mlf \in LoadFactors
  BY LoadFactorAssumption DEF Init
<1>3. ControlOK
  BY DEF Init, ControlOK, Phases, NoCall, NoProbe, NoCell
<1>4. RehashOK
  BY DEF Init, RehashOK, NoSlots
<1>5. CallOK
  BY DEF Init, CallOK, NoCall, KeyOps, Insertions
<1> QED
  BY <1>1, <1>2, <1>3, <1>4, <1>5 DEF TypeInv

(***************************************************************************)
(* rehash_impl() up to its loop: create_slots() makes a table of the new   *)
(* size, or nothing changes.                                               *)
(***************************************************************************)
LEMMA RehashImplType ==
  ASSUME TypeInv, NEW allowShrink, NEW n \in Nat, NEW m \in LoadFactors,
         RehashImpl(allowShrink, n, m), mlf' \in LoadFactors
  PROVE  TypeInv'
<1> USE DEF TypeInv
<1> DEFINE mask == NewMask(n)
<1>1. mask \in Nat /\ IsPow2(mask + 1)
  BY NewMaskRange DEF TableOK
<1>2. call' = call /\ probe' = probe /\ at' = at
  BY DEF RehashImpl
<1>3. ControlOK' /\ CallOK' /\ (CreateSlots(mask, m) \/ (UNCHANGED <<table, rehash>> /\ pc' = "done"))
  <2>1. \/ CreateSlots(mask, m) /\ pc' = "rehash"
        \/ UNCHANGED <<table, rehash>> /\ pc' = "done"
    BY DEF RehashImpl, CreateSlots, Done, NewMask
  <2> QED
    BY <1>2, <2>1 DEF ControlOK, CallOK, Phases, KeyOps, Insertions
<1>4. CASE CreateSlots(mask, m)
  <2>1. TableOK'
    <3>1. CalcSlotCapacity(mask + 1) \in Nat
      BY <1>1, GroupAssumption DEF CalcSlotCapacity, GroupSize
    <3>2. CalcSlotThreshold(m, CalcSlotCapacity(mask + 1)) \in Nat
      BY <3>1, ThresholdRange
    <3> HIDE DEF mask
    <3> QED
      BY <1>1, <1>4, <3>2, FreshTable DEF TableOK, CreateSlots
  <2>2. RehashOK'
    <3>1. UsedCells \subseteq Cells(groupMask) /\ DOMAIN slot = Cells(groupMask)
      BY DEF UsedCells, TableOK
    <3>2. Cells(groupMask) \subseteq Nat \X Nat
      BY CellsRange DEF TableOK
    <3> QED
      BY <1>4, <3>1, <3>2 DEF RehashOK, CreateSlots, TableOK
  <2> QED
    BY <1>3, <2>1, <2>2
<1>5. CASE UNCHANGED <<table, rehash>>
  BY <1>3, <1>5 DEF table, rehash, TableOK, RehashOK
<1> QED
  BY <1>3, <1>4, <1>5

(* The prober of a key starts at a group. *)
LEMMA StartProbeType ==
  ASSUME NEW k \in Key, NEW mask \in Nat
  PROVE  /\ StartProbe(k, mask) \in [key : Key \cup {Absent}, index : Nat, step : Nat]
         /\ StartProbe(k, mask).key = k
BY IndexRange DEF StartProbe

(* next_bucket() leaves the prober one. *)
LEMMA NextBucketType ==
  ASSUME probe \in [key : Key \cup {Absent}, index : Nat, step : Nat], groupMask \in Nat
  PROVE  /\ NextBucket \in [key : Key \cup {Absent}, index : Nat, step : Nat]
         /\ NextBucket.key = probe.key /\ NextBucket.step = probe.step + 1
         /\ NextBucket.index = NextIndex(probe.index, probe.step, groupMask)
<1>1. NextIndex(probe.index, probe.step, groupMask) \in Nat
  <2>1. probe.index + probe.step + 1 \in Nat /\ groupMask + 1 \in Nat \ {0}
    OBVIOUS
  <2> DEFINE a == probe.index + probe.step + 1
             d == groupMask + 1
  <2>2. a % d \in Nat
    <3> HIDE DEF a, d
    <3> QED
      BY <2>1, DivMod DEF a, d
  <2> QED
    BY <2>2 DEF NextIndex
<1> QED
  BY <1>1 DEF NextBucket

(* What a step may read in a slot is an element. *)
LEMMA ReadType ==
  ASSUME NEW slots, NEW c \in DOMAIN slots, slots \in [DOMAIN slots -> Element \cup {Raw}]
  PROVE  Read(slots, c) \subseteq Element
BY DEF Read

(* A call begins. *)
LEMMA BeginType ==
  ASSUME TypeInv, NEW op \in KeyOps \cup {"clear", "reserve", "rehash", "max_load_factor", "shrink_to_fit"},
         NEW k \in Key \cup {Absent}, NEW v \in Value \cup {Absent}, NEW n \in Nat,
         Begin(op, k, v, n),
         op \in KeyOps => k \in Key, op \in Insertions => v \in Value,
         op = "max_load_factor" => n \in LoadFactors
  PROVE  TypeInv'
<1> USE DEF TypeInv
<1>1. TableOK' /\ (mlf \in LoadFactors)' /\ RehashOK'
  BY DEF Begin, table, rehash, TableOK, RehashOK
<1>2. call' = [op |-> op, key |-> k, val |-> v, arg |-> n] /\ at' = at
  BY DEF Begin
<1>3. CASE op \in KeyOps
  <2>1. pc' = "find" /\ probe' = StartProbe(k, groupMask)
    BY <1>3 DEF Begin
  <2>2. /\ StartProbe(k, groupMask) \in [key : Key \cup {Absent}, index : Nat, step : Nat]
        /\ StartProbe(k, groupMask).key = k
    BY <1>3, StartProbeType DEF TableOK
  <2>3. ControlOK'
    BY <1>2, <2>1, <2>2 DEF ControlOK, Phases
  <2>4. CallOK'
    BY <1>2, <1>3, <2>1, <2>2 DEF CallOK, KeyOps
  <2> QED
    BY <1>1, <2>3, <2>4
<1>4. CASE op \notin KeyOps
  <2>1. pc' = "manage" /\ probe' = probe
    BY <1>4 DEF Begin
  <2>2. ControlOK'
    BY <1>2, <2>1 DEF ControlOK, Phases
  <2>3. CallOK'
    BY <1>2, <1>4, <2>1 DEF CallOK, KeyOps
  <2> QED
    BY <1>1, <2>2, <2>3
<1> QED
  BY <1>3, <1>4

(* destroy() leaves the types of a table without memory. *)
LEMMA DestroyType == TypeInv /\ Destroy /\ mlf' = mlf => TypeInv'
<1> SUFFICES ASSUME TypeInv, Destroy, mlf' = mlf PROVE TypeInv'
  OBVIOUS
<1> USE DEF TypeInv
<1>1. TableOK'
  <2>1. IsPow2(0 + 1)
    BY DEF IsPow2
  <2> QED
    BY <2>1, FreshTable DEF Destroy, TableOK
<1>2. RehashOK'
  BY DEF Destroy, RehashOK, rehash
<1>3. ControlOK' /\ CallOK'
  BY DEF Destroy, Done, ControlOK, CallOK, Phases, KeyOps, Insertions
<1> QED
  BY <1>1, <1>2, <1>3

(* The calls that manage the memory preserve the types. *)
LEMMA ManageType == TypeInv /\ Manage => TypeInv'
<1> SUFFICES ASSUME TypeInv, Manage PROVE TypeInv'
  OBVIOUS
<1> USE DEF TypeInv
<1>1. ASSUME Done("ok"), UNCHANGED <<call, probe, at>>, TableOK', RehashOK', mlf' \in LoadFactors
      PROVE  TypeInv'
  BY <1>1 DEF Done, ControlOK, CallOK, Phases, KeyOps, Insertions
<1>2. ASSUME Destroy, mlf' = mlf PROVE TypeInv'
  BY <1>2, DestroyType
<1>3. CASE Clear
  <2>1. TableOK'
    <3>1. ClearedCtrl \in [Cells(groupMask) -> 0..(CtrlRange - 1)]
      BY DEF ClearedCtrl, TableOK, CtrlRange, EmptySlot
    <3>2. ctrl' \in [Cells(groupMask) -> 0..(CtrlRange - 1)]
      <4>1. ctrl' = [ClearedCtrl EXCEPT ![SentinelCell(groupMask)] = SentinelSlot]
        BY <1>3 DEF Clear, ClearData
      <4>2. SentinelSlot \in 0..(CtrlRange - 1)
        BY DEF CtrlRange, SentinelSlot
      <4> QED
        BY <3>1, <4>1, <4>2
    <3> QED
      BY <1>3, <3>2, FreshTable DEF Clear, ClearData, TableOK
  <2>2. RehashOK'
    BY <1>3 DEF Clear, ClearData, RehashOK, rehash
  <2> QED
    BY <1>1, <1>3, <2>1, <2>2 DEF Clear, ClearData
<1>4. CASE Reserve
  <2>1. ShrinkToFitCapacity(call.arg, mlf) \in Nat
    BY FitRange DEF ControlOK
  <2>2. \/ RehashImpl(FALSE, ShrinkToFitCapacity(call.arg, mlf), mlf)
        \/ Destroy
    BY <1>4 DEF Reserve
  <2>3. mlf' = mlf
    BY <1>4 DEF Reserve
  <2> QED
    BY <1>2, <2>1, <2>2, <2>3, RehashImplType
<1>5. CASE Rehash
  <2> DEFINE n == AtLeast(ShrinkToFitCapacity(slotSize, mlf), call.arg)
  <2>1. n \in Nat
    BY FitRange DEF ControlOK, TableOK, AtLeast
  <2>2. RehashImpl(FALSE, n, mlf) \/ Destroy
    BY <1>5 DEF Rehash
  <2>3. mlf' = mlf
    BY <1>5 DEF Rehash
  <2> QED
    BY <1>2, <2>1, <2>2, <2>3, RehashImplType
<1>6. CASE ShrinkToFit
  <2> DEFINE n == IF call.arg = 1 THEN slotSize ELSE ShrinkToFitCapacity(slotSize, mlf)
  <2>1. n \in Nat
    BY FitRange DEF TableOK
  <2>2. RehashImpl(TRUE, n, mlf) \/ Destroy
    BY <1>6 DEF ShrinkToFit
  <2>3. mlf' = mlf
    BY <1>6 DEF ShrinkToFit
  <2> QED
    BY <1>2, <2>1, <2>2, <2>3, RehashImplType
<1>7. CASE MaxLoadFactor
  <2> DEFINE c == CalcCapacity(ShrinkToFitCapacity(CtrlCapacity, call.arg))
             n == AtLeast(ShrinkToFitCapacity(slotSize, call.arg), c)
  <2>1. call.arg \in LoadFactors /\ mlf' = call.arg
    BY <1>7 DEF MaxLoadFactor, CallOK
  <2>2. CtrlCapacity \in Nat
    BY GroupAssumption DEF CtrlCapacity, TableOK
  <2>3. c \in Nat
    BY <2>1, <2>2, FitRange, NewMaskRange DEF TableOK
  <2>4. n \in Nat
    <3> HIDE DEF c
    <3> QED
      BY <2>1, <2>3, FitRange DEF TableOK, AtLeast
  <2>5. CASE RehashImpl(FALSE, n, call.arg)
    BY <2>1, <2>4, <2>5, RehashImplType
  <2>6. CASE Done("ok") /\ UNCHANGED <<table, call, probe, at, rehash>>
    <3>1. TableOK' /\ RehashOK'
      BY <2>6 DEF table, rehash, TableOK, RehashOK
    <3> QED
      BY <1>1, <2>1, <2>6, <3>1
  <2> QED
    BY <1>7, <2>5, <2>6 DEF MaxLoadFactor
<1> QED
  BY <1>3, <1>4, <1>5, <1>6, <1>7 DEF Manage

(* A key operation that probes has a key, and the cells are pairs. *)
LEMMA ProbeKey ==
  ASSUME TypeInv, pc \in {"find", "place", "transfer", "construct"}
  PROVE  /\ probe.key \in Key
         /\ CtrlOf(probe.key) \in 0..(CtrlRange - 1)
         /\ CtrlOf(probe.key) \notin {EmptySlot, SentinelSlot}
<1>1. probe.key \in Key
  BY DEF TypeInv, CallOK, KeyOps
<1> QED
  BY <1>1, CtrlOfRange

(* An iteration of find_impl(), and what follows it, preserves the types. *)
LEMMA FindType == TypeInv /\ FindStep => TypeInv'
<1> SUFFICES ASSUME TypeInv, FindStep PROVE TypeInv'
  OBVIOUS
<1> USE DEF TypeInv
<1>1. ASSUME Done("exists") \/ Done("erased") \/ Done("none") \/ (\E r : Done(r)),
             UNCHANGED <<mlf, call, probe, at, rehash>>, TableOK'
      PROVE  TypeInv'
  <2>1. pc' = "done"
    BY <1>1 DEF Done
  <2>2. ControlOK' /\ CallOK'
    BY <1>1, <2>1 DEF ControlOK, CallOK, Phases, KeyOps, Insertions
  <2>3. RehashOK'
    BY <1>1 DEF RehashOK, rehash
  <2> QED
    BY <1>1, <2>2, <2>3
<1>2. CASE FindNext
  <2>1. UNCHANGED <<table, mlf, pc, call, at, rehash>> /\ pc = "find"
    BY <1>2 DEF FindNext, MissedGroup
  <2>2. /\ probe' \in [key : Key \cup {Absent}, index : Nat, step : Nat]
        /\ probe'.key = probe.key
    BY <1>2, NextBucketType DEF FindNext, ControlOK, TableOK
  <2>3. TableOK' /\ RehashOK' /\ (mlf \in LoadFactors)'
    BY <2>1 DEF table, rehash, TableOK, RehashOK
  <2>4. ControlOK'
    BY <2>1, <2>2 DEF ControlOK
  <2>5. CallOK'
    BY <2>1, <2>2 DEF CallOK
  <2> QED
    BY <2>3, <2>4, <2>5
<1>3. CASE NotFound
  <2>1. UNCHANGED <<table, mlf, call, probe, at, rehash>>
    BY <1>3 DEF NotFound
  <2>2. TableOK' /\ RehashOK' /\ (mlf \in LoadFactors)'
    BY <2>1 DEF table, rehash, TableOK, RehashOK
  <2>3. pc = "find" /\ call.op \in KeyOps
    BY <1>3 DEF NotFound, MissedGroup, CallOK
  <2>4. (call.op \in Insertions /\ pc' = "grow") \/ pc' = "done"
    BY <1>3, <2>3 DEF NotFound, Done, KeyOps
  <2>5. ControlOK'
    BY <2>1, <2>4 DEF ControlOK, Phases
  <2>6. CallOK'
    BY <2>1, <2>4 DEF CallOK
  <2> QED
    BY <2>2, <2>5, <2>6
<1>4. CASE ReturnFound
  <2>1. (\E r : Done(r)) /\ UNCHANGED <<table, mlf, call, probe, at, rehash>>
    BY <1>4 DEF ReturnFound
  <2>2. TableOK'
    BY <2>1 DEF table, TableOK
  <2> QED
    BY <1>1, <2>1, <2>2
<1>5. CASE KeepExisting
  <2>1. Done("exists") /\ UNCHANGED <<table, mlf, call, probe, at, rehash>>
    BY <1>5 DEF KeepExisting
  <2>2. TableOK'
    BY <2>1 DEF table, TableOK
  <2> QED
    BY <1>1, <2>1, <2>2
<1>6. CASE AssignExisting
  <2>0. PICK c \in DOMAIN slot : \E e \in Read(slot, c) :
          /\ Hit(c, e) /\ call.op = "insert_or_assign" /\ Done("exists")
          /\ slot' = [slot EXCEPT ![c] = [key |-> e.key, val |-> call.val]]
          /\ UNCHANGED <<groupMask, ctrl, overflow, slotSize, slotThreshold, mlf, call, probe, at, rehash>>
    BY <1>6 DEF AssignExisting
  <2>1. PICK e \in Read(slot, c) :
          /\ Hit(c, e) /\ call.op = "insert_or_assign" /\ Done("exists")
          /\ slot' = [slot EXCEPT ![c] = [key |-> e.key, val |-> call.val]]
          /\ UNCHANGED <<groupMask, ctrl, overflow, slotSize, slotThreshold, mlf, call, probe, at, rehash>>
    BY <2>0
  <2>2. [key |-> e.key, val |-> call.val] \in Element
    <3>1. e \in Element
      BY ReadType DEF TableOK
    <3>2. e.key \in Key
      BY <3>1 DEF Element
    <3>3. call.val \in Value
      BY <2>1 DEF CallOK, Insertions
    <3> QED
      BY <3>2, <3>3 DEF Element
  <2>3. TableOK'
    <3>1. slot' \in [Cells(groupMask) -> Element \cup {Raw}]
      BY <2>1, <2>2 DEF TableOK
    <3> QED
      BY <2>1, <3>1 DEF TableOK
  <2> QED
    BY <1>1, <2>1, <2>3
<1>7. CASE EraseFound
  <2>1. PICK c \in DOMAIN slot :
          /\ Done("erased")
          /\ slot' = [slot EXCEPT ![c] = Raw] /\ ctrl' = [ctrl EXCEPT ![c] = EmptySlot]
          /\ slotThreshold' = IF CausedOverflow(c) THEN Decrement(slotThreshold) ELSE slotThreshold
          /\ slotSize' = Decrement(slotSize)
          /\ UNCHANGED <<groupMask, overflow, mlf, call, probe, at, rehash>>
    BY <1>7 DEF EraseFound
  <2>2. TableOK'
    <3>1. EmptySlot \in 0..(CtrlRange - 1)
      BY DEF EmptySlot, CtrlRange
    <3>2. ctrl' \in [Cells(groupMask) -> 0..(CtrlRange - 1)]
      BY <2>1, <3>1 DEF TableOK
    <3>3. slot' \in [Cells(groupMask) -> Element \cup {Raw}]
      BY <2>1 DEF TableOK
    <3>4. Decrement(slotThreshold) \in Nat /\ Decrement(slotSize) \in Nat
      BY DEF TableOK, Decrement, WordMax
    <3> QED
      BY <2>1, <3>2, <3>3, <3>4 DEF TableOK
  <2> QED
    BY <1>1, <2>1, <2>2
<1> QED
  BY <1>2, <1>3, <1>4, <1>5, <1>6, <1>7 DEF FindStep

(* Growing and moving the elements preserve the types. *)
LEMMA RehashType == TypeInv /\ RehashStep => TypeInv'
<1> SUFFICES ASSUME TypeInv, RehashStep PROVE TypeInv'
  OBVIOUS
<1> USE DEF TypeInv
<1>1. CASE Grow
  <2>1. CtrlCapacity * 2 \in Nat
    BY GroupAssumption DEF CtrlCapacity, TableOK
  <2>2. RehashImpl(FALSE, CtrlCapacity * 2, mlf) /\ mlf' = mlf
    BY <1>1 DEF Grow
  <2> DEFINE n == CtrlCapacity * 2
  <2> HIDE DEF n
  <2> QED
    BY <2>1, <2>2, RehashImplType DEF n
<1>2. CASE NoGrow
  <2>1. /\ pc = "grow" /\ pc' = "place" /\ probe' = StartProbe(call.key, groupMask)
        /\ UNCHANGED <<table, mlf, call, at, rehash>>
    BY <1>2 DEF NoGrow
  <2>2. call.op \in Insertions /\ call.key \in Key
    BY <2>1 DEF CallOK, KeyOps
  <2>3. /\ probe' \in [key : Key \cup {Absent}, index : Nat, step : Nat]
        /\ probe'.key = call.key
    BY <2>1, <2>2, StartProbeType DEF TableOK
  <2>4. TableOK' /\ RehashOK' /\ (mlf \in LoadFactors)'
    BY <2>1 DEF table, rehash, TableOK, RehashOK
  <2>5. ControlOK'
    BY <2>1, <2>3 DEF ControlOK, Phases
  <2>6. CallOK'
    BY <2>1, <2>2, <2>3 DEF CallOK
  <2> QED
    BY <2>4, <2>5, <2>6
<1>3. CASE TransferNext
  <2>1. PICK e \in Read(oldSlot, NextPending) :
          /\ pc = "rehash" /\ pending # {} /\ pc' = "transfer"
          /\ probe' = StartProbe(e.key, groupMask)
          /\ UNCHANGED <<table, mlf, call, at, rehash>>
    BY <1>3 DEF TransferNext
  <2>2. NextPending \in pending
    BY <2>1, NextPendingExists DEF RehashOK
  <2>3. e \in Element /\ e.key \in Key /\ (oldSlot[NextPending] # Raw => e = oldSlot[NextPending])
    <3>1. e \in Element
      BY <2>2, ReadType DEF RehashOK
    <3> QED
      BY <3>1 DEF Element, Read
  <2>4. /\ probe' \in [key : Key \cup {Absent}, index : Nat, step : Nat]
        /\ probe'.key = e.key
    BY <2>1, <2>3, StartProbeType DEF TableOK
  <2>5. TableOK' /\ RehashOK' /\ (mlf \in LoadFactors)'
    BY <2>1 DEF table, rehash, TableOK, RehashOK
  <2>6. ControlOK'
    BY <2>1, <2>4 DEF ControlOK, Phases
  <2>7. NextPending' = NextPending /\ oldSlot' = oldSlot /\ pending' = pending
    BY <2>1 DEF rehash, NextPending
  <2>8. CallOK'
    BY <2>1, <2>3, <2>4, <2>7 DEF CallOK
  <2> QED
    BY <2>5, <2>6, <2>8
<1>4. CASE RehashDone
  <2>1. /\ oldSlot' = NoSlots /\ oldSize' = 0 /\ pending = {} /\ pending' = {}
        /\ UNCHANGED <<table, mlf, call, at>>
    BY <1>4 DEF RehashDone
  <2>2. TableOK' /\ (mlf \in LoadFactors)'
    BY <2>1 DEF table, TableOK
  <2>3. RehashOK'
    BY <2>1 DEF RehashOK, NoSlots
  <2>4. CASE call.op \in Insertions
    <3>1. pc' = "place" /\ probe' = StartProbe(call.key, groupMask) /\ call.key \in Key
      BY <1>4, <2>4 DEF RehashDone, CallOK, KeyOps
    <3>2. /\ probe' \in [key : Key \cup {Absent}, index : Nat, step : Nat]
          /\ probe'.key = call.key
      BY <3>1, StartProbeType DEF TableOK
    <3>3. ControlOK'
      BY <2>1, <3>1, <3>2 DEF ControlOK, Phases
    <3>4. CallOK'
      BY <2>1, <2>4, <3>1, <3>2 DEF CallOK
    <3> QED
      BY <2>2, <2>3, <3>3, <3>4
  <2>5. CASE call.op \notin Insertions
    <3>1. pc' = "done" /\ probe' = probe
      BY <1>4, <2>5 DEF RehashDone, Done
    <3>2. ControlOK' /\ CallOK'
      BY <2>1, <3>1 DEF ControlOK, CallOK, Phases
    <3> QED
      BY <2>2, <2>3, <3>2
  <2> QED
    BY <2>4, <2>5
<1> QED
  BY <1>1, <1>2, <1>3, <1>4 DEF RehashStep

(***************************************************************************)
(* find_empty_to_insert(): the overflow bit is one of the eight, the       *)
(* control byte one of a key, and the slot a slot of the table.            *)
(***************************************************************************)
LEMMA PlaceType == TypeInv /\ PlaceStep => TypeInv'
<1> SUFFICES ASSUME TypeInv, PlaceStep PROVE TypeInv'
  OBVIOUS
<1> USE DEF TypeInv
<1>0. DOMAIN ctrl = Cells(groupMask) /\ DOMAIN ctrl \subseteq Nat \X Nat
  BY CellsRange DEF TableOK
<1>1. CASE PlaceNext
  <2>1. /\ pc \in {"place", "transfer"} /\ pc' = pc /\ probe' = NextBucket
        /\ overflow' = [overflow EXCEPT ![probe.index] = @ \cup {OverflowBit(CtrlOf(probe.key))}]
        /\ UNCHANGED <<groupMask, ctrl, slot, slotSize, slotThreshold, mlf, call, at, rehash>>
    BY <1>1 DEF PlaceNext
  <2>2. OverflowBit(CtrlOf(probe.key)) \in 0..(OverflowBits - 1)
    BY <2>1, ProbeKey, BitRange
  <2>3. TableOK'
    <3>1. overflow' \in [Groups(groupMask) -> SUBSET (0..(OverflowBits - 1))]
      BY <2>1, <2>2 DEF TableOK
    <3> QED
      BY <2>1, <3>1 DEF TableOK
  <2>4. /\ probe' \in [key : Key \cup {Absent}, index : Nat, step : Nat]
        /\ probe'.key = probe.key
    BY <2>1, NextBucketType DEF ControlOK, TableOK
  <2>5. RehashOK'
    BY <2>1 DEF rehash, RehashOK
  <2>6. ControlOK'
    BY <2>1, <2>4 DEF ControlOK
  <2>7. NextPending' = NextPending /\ oldSlot' = oldSlot /\ pending' = pending
    BY <2>1 DEF rehash, NextPending
  <2>8. CallOK'
    BY <2>1, <2>4, <2>7 DEF CallOK
  <2> QED
    BY <2>1, <2>3, <2>5, <2>6, <2>8
<1>2. CASE PlaceNew
  <2>1. /\ pc = "place" /\ pc' = "construct" /\ at' = FirstEmpty
        /\ ctrl' = [ctrl EXCEPT ![FirstEmpty] = CtrlOf(probe.key)]
        /\ UNCHANGED <<groupMask, overflow, slot, slotSize, slotThreshold, mlf, call, probe, rehash>>
    BY <1>2 DEF PlaceNew
  <2>2. FirstEmpty \in DOMAIN ctrl
    BY <1>0, <1>2, FirstEmptyExists DEF PlaceNew, EmptyCells
  <2>3. TableOK'
    <3>1. CtrlOf(probe.key) \in 0..(CtrlRange - 1)
      BY <2>1, ProbeKey
    <3>2. ctrl' \in [Cells(groupMask) -> 0..(CtrlRange - 1)]
      BY <2>1, <3>1 DEF TableOK
    <3> QED
      BY <2>1, <3>2 DEF TableOK
  <2>4. RehashOK'
    BY <2>1 DEF rehash, RehashOK
  <2>5. ControlOK'
    BY <2>1, <2>2, <1>0 DEF ControlOK, Phases
  <2>6. CallOK'
    BY <2>1 DEF CallOK
  <2> QED
    BY <2>1, <2>3, <2>4, <2>5, <2>6
<1>3. CASE PlaceMoved
  <2>1. /\ pc = "transfer" /\ pc' = "rehash"
        /\ ctrl' = [ctrl EXCEPT ![FirstEmpty] = CtrlOf(probe.key)]
        /\ slot' = [slot EXCEPT ![FirstEmpty] = oldSlot[NextPending]]
        /\ slotSize' = slotSize + 1
        /\ oldSlot' = [oldSlot EXCEPT ![NextPending] = Raw]
        /\ pending' = pending \ {NextPending}
        /\ UNCHANGED <<groupMask, overflow, slotThreshold, mlf, call, probe, at, oldSize>>
    BY <1>3 DEF PlaceMoved
  <2>2. NextPending \in pending
    BY <2>1, NextPendingExists DEF RehashOK, CallOK
  <2>3. oldSlot[NextPending] \in Element \cup {Raw}
    BY <2>2 DEF RehashOK
  <2>4. TableOK'
    <3>1. CtrlOf(probe.key) \in 0..(CtrlRange - 1)
      BY <2>1, ProbeKey
    <3>2. ctrl' \in [Cells(groupMask) -> 0..(CtrlRange - 1)]
      BY <2>1, <3>1 DEF TableOK
    <3>3. slot' \in [Cells(groupMask) -> Element \cup {Raw}]
      BY <2>1, <2>3 DEF TableOK
    <3>4. slotSize' \in Nat
      BY <2>1 DEF TableOK
    <3> QED
      BY <2>1, <3>2, <3>3, <3>4 DEF TableOK
  <2>5. RehashOK'
    <3>1. DOMAIN oldSlot' = DOMAIN oldSlot
      BY <2>1
    <3>2. oldSlot' \in [DOMAIN oldSlot -> Element \cup {Raw}]
      BY <2>1 DEF RehashOK
    <3> QED
      BY <2>1, <3>1, <3>2 DEF RehashOK
  <2>6. ControlOK'
    BY <2>1 DEF ControlOK, Phases
  <2>7. CallOK'
    BY <2>1 DEF CallOK
  <2> QED
    BY <2>1, <2>4, <2>5, <2>6, <2>7
<1>4. ASSUME pc' = "done", at' = NoCell, TableOK', UNCHANGED <<mlf, call, probe, rehash>>
      PROVE  TypeInv'
  BY <1>4 DEF ControlOK, CallOK, RehashOK, Phases, KeyOps, Insertions, rehash, NoCell
<1>5. CASE Construct
  <2>1. /\ pc = "construct" /\ pc' = "done" /\ at' = NoCell
        /\ slot' = [slot EXCEPT ![at] = [key |-> call.key, val |-> call.val]]
        /\ slotSize' = slotSize + 1
        /\ UNCHANGED <<groupMask, ctrl, overflow, slotThreshold, mlf, call, probe, rehash>>
    BY <1>5 DEF Construct, Done
  <2>2. [key |-> call.key, val |-> call.val] \in Element
    BY <2>1 DEF CallOK, Element, KeyOps
  <2>3. slot' \in [Cells(groupMask) -> Element \cup {Raw}]
    BY <2>1, <2>2 DEF TableOK
  <2>4. slotSize' \in Nat
    BY <2>1 DEF TableOK
  <2>5. TableOK'
    BY <2>1, <2>3, <2>4 DEF TableOK
  <2> QED
    BY <1>4, <2>1, <2>5
<1>6. CASE ConstructThrows
  <2>1. pc' = "done" /\ at' = NoCell /\ UNCHANGED <<table, mlf, call, probe, rehash>>
    BY <1>6 DEF ConstructThrows, Done
  <2>2. TableOK'
    BY <2>1 DEF table, TableOK
  <2> QED
    BY <1>4, <2>1, <2>2
<1> QED
  BY <1>1, <1>2, <1>3, <1>5, <1>6 DEF PlaceStep

(* Every step preserves the types. *)
LEMMA NextType == TypeInv /\ [Next]_vars => TypeInv'
<1> SUFFICES ASSUME TypeInv, [Next]_vars PROVE TypeInv'
  OBVIOUS
<1> DEFINE Ops == KeyOps \cup {"clear", "reserve", "rehash", "max_load_factor", "shrink_to_fit"}
<1>1. CASE BeginKeyOp
  <2>1. PICK k \in Key : \/ \E op \in {"find", "erase"} : Begin(op, k, Absent, 0)
                         \/ \E op \in Insertions, v \in Value : Begin(op, k, v, 0)
    BY <1>1 DEF BeginKeyOp
  <2>2. ASSUME NEW op \in {"find", "erase"}, Begin(op, k, Absent, 0) PROVE TypeInv'
    <3>1. op \in KeyOps /\ op \notin Insertions /\ op # "max_load_factor"
      BY DEF KeyOps, Insertions
    <3> QED
      BY <2>2, <3>1, BeginType
  <2>3. ASSUME NEW op \in Insertions, NEW v \in Value, Begin(op, k, v, 0) PROVE TypeInv'
    <3>1. op \in KeyOps /\ op # "max_load_factor"
      BY DEF KeyOps, Insertions
    <3> QED
      BY <2>3, <3>1, BeginType
  <2> QED
    BY <2>1, <2>2, <2>3
<1>2. CASE BeginManagement
  <2>1. ASSUME NEW op \in {"clear", "reserve", "rehash", "max_load_factor", "shrink_to_fit"},
               NEW n \in Nat, Begin(op, Absent, Absent, n),
               op = "max_load_factor" => n \in LoadFactors
        PROVE  TypeInv'
    <3>1. op \notin KeyOps /\ op \notin Insertions
      BY DEF KeyOps, Insertions
    <3> QED
      BY <2>1, <3>1, BeginType
  <2>2. LoadFactors \subseteq Nat /\ ReserveArgs \subseteq Nat /\ RehashArgs \subseteq Nat
    BY LoadFactorRange, ArgsAssumption
  <2>3. CASE Begin("clear", Absent, Absent, 0)
    BY <2>1, <2>3
  <2>4. CASE \E n \in ReserveArgs : Begin("reserve", Absent, Absent, n)
    BY <2>1, <2>2, <2>4
  <2>5. CASE \E n \in RehashArgs : Begin("rehash", Absent, Absent, n)
    BY <2>1, <2>2, <2>5
  <2>6. CASE \E m \in LoadFactors : Begin("max_load_factor", Absent, Absent, m)
    BY <2>1, <2>2, <2>6
  <2>7. CASE \E readOnly \in ShrinkArgs :
               Begin("shrink_to_fit", Absent, Absent, IF readOnly THEN 1 ELSE 0)
    BY <2>1, <2>7
  <2> QED
    BY <1>2, <2>3, <2>4, <2>5, <2>6, <2>7 DEF BeginManagement
<1>3. CASE Return
  <2>1. /\ pc' = "idle" /\ call' = NoCall /\ probe' = NoProbe
        /\ UNCHANGED <<table, mlf, at, rehash>>
    BY <1>3 DEF Return
  <2>2. TableOK' /\ RehashOK' /\ (mlf \in LoadFactors)'
    BY <2>1 DEF TypeInv, table, rehash, TableOK, RehashOK
  <2>3. ControlOK'
    BY <2>1 DEF TypeInv, ControlOK, Phases, NoCall, NoProbe
  <2>4. CallOK'
    BY <2>1 DEF CallOK, NoCall, KeyOps, Insertions
  <2> QED
    BY <2>2, <2>3, <2>4 DEF TypeInv
<1>4. CASE UNCHANGED vars
  <2>1. UNCHANGED <<table, mlf, pc, call, probe, at, rehash>>
    BY <1>4 DEF vars
  <2>2. TableOK' /\ RehashOK' /\ (mlf \in LoadFactors)'
    BY <2>1 DEF TypeInv, table, rehash, TableOK, RehashOK
  <2>3. ControlOK'
    BY <2>1 DEF TypeInv, ControlOK
  <2>4. NextPending' = NextPending /\ oldSlot' = oldSlot /\ pending' = pending
    BY <2>1 DEF rehash, NextPending
  <2>5. CallOK'
    BY <2>1, <2>4 DEF TypeInv, CallOK
  <2> QED
    BY <2>2, <2>3, <2>5 DEF TypeInv
<1> QED
  BY <1>1, <1>2, <1>3, <1>4, ManageType, FindType, RehashType, PlaceType DEF Next, Step

(***************************************************************************)
(* No call of the table leaves it or its own state with a value that is    *)
(* not of their type: every index of a prober, every overflow bit, every   *)
(* control byte and every slot an insertion or a rehash chooses exists.    *)
(***************************************************************************)
THEOREM TypeCorrect == Spec => []TypeOK
<1>1. Init => TypeInv
  BY InitType
<1>2. TypeInv /\ [Next]_vars => TypeInv'
  BY NextType
<1>3. TypeInv => TypeOK
  BY TypeParts
<1> QED
  BY <1>1, <1>2, <1>3, PTL DEF Spec

-----------------------------------------------------------------------------
(* Reachability *)

(* The n groups before the n-th on the probe sequence of a key carry the   *)
(* overflow bit of its hash.                                               *)
Marked(k, n) == \A m \in 0..(n - 1) :
    OverflowBit(CtrlOf(k)) \in overflow[Probe(Home(k), m, groupMask)]

(***************************************************************************)
(* The static groups of a table without memory are never written to, and   *)
(* no call gets from them to the search for an empty slot.                 *)
(***************************************************************************)
MemoryInv == ~ Allocated =>
    /\ ctrl = DefaultCtrl /\ slot = AllRaw(0) /\ slotThreshold = 0
    /\ pc \notin {"rehash", "transfer", "place", "construct"}

(***************************************************************************)
(* A prober at work has followed the probe sequence of its key through     *)
(* groups that all carry its overflow bit; the cell of a new element is in *)
(* the group it has reached.                                               *)
(***************************************************************************)
OnSequence(k, i, n) == i = Probe(Home(k), n, groupMask) /\ Marked(k, n)
ProbeInv == Allocated =>
    /\ pc \in {"find", "place", "transfer", "construct"} =>
           OnSequence(probe.key, probe.index, probe.step)
    /\ pc = "construct" => at[1] = probe.index

ReachInv == MemoryInv /\ ProbeInv /\ EveryElementReachable

(* The probe sequence of a key stays in the table. *)
LEMMA ProbeGroups ==
  ASSUME TableOK, Allocated, NEW k \in Key, NEW n \in Nat
  PROVE  /\ Home(k) \in 0..groupMask
         /\ Probe(Home(k), n, groupMask) \in 0..groupMask
         /\ Probe(Home(k), n, groupMask) \in Groups(groupMask)
<1>1. Home(k) \in 0..groupMask
  BY IndexRange DEF TableOK, Allocated, Home
<1>2. Probe(Home(k), n, groupMask) \in 0..groupMask
  BY <1>1, ProbeRange DEF TableOK
<1> QED
  BY <1>1, <1>2 DEF Groups, Allocated

(***************************************************************************)
(* A loop that asks nobody where it ends may go through the table more     *)
(* than once, but the group it is in then is one it has been in before:    *)
(* the sequence covers the table, so its first visit came within the       *)
(* search's limit.                                                         *)
(***************************************************************************)
LEMMA ReachWithin ==
  ASSUME TableOK, Allocated, NEW k \in Key, NEW n \in Nat, NEW g,
         OnSequence(k, g, n)
  PROVE  Reachable(k, g)
<1>1. g = Probe(Home(k), n, groupMask) /\ Marked(k, n) /\ groupMask \in Nat
  BY DEF OnSequence, TableOK
<1>2. Home(k) \in 0..groupMask /\ g \in 0..groupMask
  BY <1>1, ProbeGroups
<1>3. PICK i \in 0..groupMask : Probe(Home(k), i, groupMask) = g /\ i <= n
  <2>1. CASE n <= groupMask
    BY <1>1, <2>1
  <2>2. CASE n > groupMask
    <3>1. PICK i \in 0..groupMask : Probe(Home(k), i, groupMask) = g
      BY <1>2, ProbeCovers DEF TableOK
    <3> QED
      BY <1>1, <2>2, <3>1
  <2> QED
    BY <1>1, <2>1, <2>2
<1>4. Marked(k, i)
  <2>1. 0..(i - 1) \subseteq 0..(n - 1)
    BY <1>1, <1>3
  <2> QED
    BY <1>1, <2>1 DEF Marked
<1> QED
  BY <1>3, <1>4 DEF Reachable, Marked

(* Marks are only added while a table keeps its size: what was reachable   *)
(* stays so.                                                               *)
MarksKept == /\ groupMask' = groupMask
             /\ \A g \in Groups(groupMask) : overflow[g] \subseteq overflow'[g]

(* Where overflow bits are only set, a path that is marked stays so. *)
LEMMA MarkedKept ==
  ASSUME TableOK, Allocated, MarksKept, NEW k \in Key, NEW n \in Nat, Marked(k, n)
  PROVE  Marked(k, n)'
<1>1. Home(k)' = Home(k) /\ groupMask' = groupMask
  BY DEF MarksKept, Home
<1>2. ASSUME NEW m \in 0..(n - 1)
      PROVE  OverflowBit(CtrlOf(k)) \in overflow'[Probe(Home(k), m, groupMask)]
  <2>1. m \in Nat
    OBVIOUS
  <2>2. Probe(Home(k), m, groupMask) \in Groups(groupMask)
    BY <2>1, ProbeGroups
  <2> QED
    BY <2>2 DEF Marked, MarksKept
<1> QED
  BY <1>1, <1>2 DEF Marked

(* So does a group that a search can reach. *)
LEMMA ReachableKept ==
  ASSUME TableOK, Allocated, MarksKept, NEW k \in Key, NEW g, Reachable(k, g)
  PROVE  Reachable(k, g)'
<1>1. Home(k)' = Home(k) /\ groupMask' = groupMask /\ groupMask \in Nat
  BY DEF MarksKept, Home, TableOK
<1>2. PICK n \in 0..groupMask : Probe(Home(k), n, groupMask) = g /\ Marked(k, n)
  BY DEF Reachable, Marked
<1>3. Marked(k, n)'
  BY <1>1, <1>2, MarkedKept
<1> QED
  BY <1>1, <1>2, <1>3 DEF Reachable, Marked

(* A step that adds marks and lets the elements be, or adds one that can be *)
(* reached, keeps the property.                                             *)
LEMMA ElementsKept ==
  ASSUME TableOK, Allocated, MarksKept, EveryElementReachable,
         DOMAIN slot' = DOMAIN slot,
         \A c \in DOMAIN slot : slot'[c] # Raw =>
             \/ slot[c] # Raw /\ slot'[c].key = slot[c].key
             \/ slot'[c].key \in Key /\ Reachable(slot'[c].key, c[1])
  PROVE  EveryElementReachable'
<1> SUFFICES ASSUME NEW c \in DOMAIN slot, slot'[c] # Raw, NEW k, k = slot'[c].key
             PROVE  Reachable(k, c[1])'
  BY DEF EveryElementReachable, Live
<1>1. k \in Key /\ Reachable(k, c[1])
  <2>1. CASE slot[c] # Raw /\ slot'[c].key = slot[c].key
    <3>1. slot[c] \in Element
      BY <2>1 DEF TableOK
    <3> QED
      BY <2>1, <3>1 DEF Element, EveryElementReachable, Live
  <2>2. CASE slot'[c].key \in Key /\ Reachable(slot'[c].key, c[1])
    BY <2>2
  <2> QED
    BY <2>1, <2>2
<1> QED
  BY <1>1, ReachableKept

(* An array of raw slots has no elements to reach. *)
LEMMA RawReachable ==
  ASSUME slot' = AllRaw(groupMask')
  PROVE  EveryElementReachable'
BY DEF AllRaw, EveryElementReachable, Live

(* Most steps leave the table alone and the prober where it is, or start it *)
(* at the home group of a key.                                              *)
LEMMA TableKept ==
  ASSUME ReachInv, UNCHANGED table,
         pc' \in {"rehash", "transfer", "place", "construct"} => Allocated,
         pc' \in {"find", "place", "transfer"} => \E k \in Key : probe' = StartProbe(k, groupMask),
         pc' # "construct"
  PROVE  ReachInv'
<1>1. MemoryInv'
  BY DEF ReachInv, MemoryInv, table, Allocated
<1>2. EveryElementReachable'
  BY DEF ReachInv, EveryElementReachable, Live, Reachable, Home, table
<1>3. ProbeInv'
  <2> SUFFICES ASSUME pc' \in {"find", "place", "transfer"}
               PROVE  OnSequence(probe.key, probe.index, probe.step)'
    BY DEF ProbeInv
  <2>1. PICK k \in Key : probe' = StartProbe(k, groupMask)
    OBVIOUS
  <2>2. groupMask' = groupMask
    BY DEF table
  <2>3. probe'.key = k /\ probe'.step = 0 /\ probe'.index = Home(k)' /\ Home(k)' = Home(k)
    BY <2>1, <2>2 DEF StartProbe, Home
  <2>4. Marked(k, 0)'
    BY DEF Marked
  <2>5. OnSequence(k, Home(k), 0)'
    BY <2>4 DEF OnSequence, Probe
  <2> QED
    BY <2>3, <2>5
<1> QED
  BY <1>1, <1>2, <1>3 DEF ReachInv

(* A new table, of a size that is never that of the static groups. *)
LEMMA RehashImplReach ==
  ASSUME TypeInv, ReachInv, NEW allowShrink, NEW n \in Nat, NEW m \in LoadFactors,
         RehashImpl(allowShrink, n, m)
  PROVE  ReachInv'
<1>1. \/ CreateSlots(NewMask(n), m) /\ pc' = "rehash"
      \/ UNCHANGED table /\ pc' = "done"
  BY DEF RehashImpl, CreateSlots, Done, NewMask
<1>2. CASE CreateSlots(NewMask(n), m) /\ pc' = "rehash"
  <2>1. groupMask' = NewMask(n) /\ groupMask' # 0 /\ slot' = AllRaw(groupMask')
    BY <1>2, NewMaskRange DEF CreateSlots, TypeInv, TableOK
  <2>2. MemoryInv' /\ ProbeInv'
    BY <1>2, <2>1 DEF MemoryInv, ProbeInv, Allocated
  <2> QED
    BY <2>1, <2>2, RawReachable DEF ReachInv
<1>3. CASE UNCHANGED table /\ pc' = "done"
  BY <1>3, TableKept
<1> QED
  BY <1>1, <1>2, <1>3

(* destroy() leaves nothing to reach. *)
LEMMA DestroyReach == ReachInv /\ Destroy => ReachInv'
<1> SUFFICES ASSUME ReachInv, Destroy PROVE ReachInv'
  OBVIOUS
<1>1. CASE Allocated
  <2>1. /\ groupMask' = 0 /\ ctrl' = DefaultCtrl /\ slot' = AllRaw(0) /\ slotThreshold' = 0
        /\ pc' = "done"
    BY <1>1 DEF Destroy, Done
  <2>2. MemoryInv' /\ ProbeInv'
    BY <2>1 DEF MemoryInv, ProbeInv, Allocated
  <2> QED
    BY <2>1, <2>2, RawReachable DEF ReachInv
<1>2. CASE ~ Allocated
  <2>1. pc' = "done" /\ UNCHANGED <<groupMask, ctrl, overflow, slot, slotThreshold>>
    BY <1>2 DEF Destroy, Done
  <2>2. MemoryInv' /\ ProbeInv'
    BY <1>2, <2>1 DEF ReachInv, MemoryInv, ProbeInv, Allocated
  <2>3. EveryElementReachable'
    BY <2>1 DEF ReachInv, EveryElementReachable, Live, Reachable, Home
  <2> QED
    BY <2>2, <2>3 DEF ReachInv
<1> QED
  BY <1>1, <1>2

(* Emptying the table leaves nothing to reach. *)
LEMMA ManageReach == TypeInv /\ ReachInv /\ Manage => ReachInv'
<1> SUFFICES ASSUME TypeInv, ReachInv, Manage PROVE ReachInv'
  OBVIOUS
<1>0. /\ slotSize \in Nat /\ mlf \in LoadFactors /\ call.arg \in Nat
      /\ call.op = "max_load_factor" => call.arg \in LoadFactors
  BY DEF TypeInv, TableOK, ControlOK, CallOK
<1>1. ASSUME Destroy PROVE ReachInv'
  BY <1>1, DestroyReach
<1>2. CASE Clear
  <2>1. /\ ctrl' = [ClearedCtrl EXCEPT ![SentinelCell(groupMask)] = SentinelSlot]
        /\ slot' = AllRaw(groupMask) /\ groupMask' = groupMask /\ slotThreshold' = slotThreshold
        /\ pc' = "done"
    BY <1>2 DEF Clear, ClearData, Done
  <2>2. ~ Allocated => ctrl' = DefaultCtrl
    <3> SUFFICES ASSUME ~ Allocated PROVE ctrl' = DefaultCtrl
      OBVIOUS
    <3>1. ctrl' = [DefaultCtrl EXCEPT ![<<0, GroupSize - 1>>] = SentinelSlot]
      BY <2>1 DEF ClearedCtrl, SentinelCell, Allocated, ReachInv, MemoryInv
    <3>2. <<0, GroupSize - 1>> \in Cells(0) => DefaultCtrl[<<0, GroupSize - 1>>] = SentinelSlot
      BY DEF DefaultCtrl
    <3> QED
      BY <3>1, <3>2 DEF DefaultCtrl
  <2>3. MemoryInv' /\ ProbeInv'
    BY <2>1, <2>2 DEF ReachInv, MemoryInv, ProbeInv, Allocated
  <2> QED
    BY <2>1, <2>3, RawReachable DEF ReachInv
<1>3. CASE Reserve
  <2>1. ShrinkToFitCapacity(call.arg, mlf) \in Nat
    BY <1>0, FitRange
  <2> QED
    BY <1>0, <1>1, <1>3, <2>1, RehashImplReach DEF Reserve
<1>4. CASE Rehash
  <2> DEFINE n == AtLeast(ShrinkToFitCapacity(slotSize, mlf), call.arg)
  <2>1. n \in Nat
    BY <1>0, FitRange DEF AtLeast
  <2> QED
    BY <1>0, <1>1, <1>4, <2>1, RehashImplReach DEF Rehash
<1>5. CASE ShrinkToFit
  <2> DEFINE n == IF call.arg = 1 THEN slotSize ELSE ShrinkToFitCapacity(slotSize, mlf)
  <2>1. n \in Nat
    BY <1>0, FitRange
  <2> QED
    BY <1>0, <1>1, <1>5, <2>1, RehashImplReach DEF ShrinkToFit
<1>6. CASE MaxLoadFactor
  <2> DEFINE c == CalcCapacity(ShrinkToFitCapacity(CtrlCapacity, call.arg))
             n == AtLeast(ShrinkToFitCapacity(slotSize, call.arg), c)
  <2>1. call.arg \in LoadFactors
    BY <1>0, <1>6 DEF MaxLoadFactor
  <2>2. CtrlCapacity \in Nat
    BY GroupAssumption DEF CtrlCapacity, TypeInv, TableOK
  <2>3. c \in Nat
    BY <1>0, <2>1, <2>2, FitRange, NewMaskRange
  <2>4. n \in Nat
    <3> HIDE DEF c
    <3> QED
      BY <1>0, <2>1, <2>3, FitRange DEF AtLeast
  <2>5. CASE RehashImpl(FALSE, n, call.arg)
    BY <2>1, <2>4, <2>5, RehashImplReach
  <2>6. CASE Done("ok") /\ UNCHANGED table
    <3>1. pc' = "done"
      BY <2>6 DEF Done
    <3> QED
      BY <2>6, <3>1, TableKept
  <2> QED
    BY <1>6, <2>5, <2>6 DEF MaxLoadFactor
<1> QED
  BY <1>2, <1>3, <1>4, <1>5, <1>6 DEF Manage

(* A table without memory has no slot a search could hit. *)
LEMMA HitAllocated ==
  ASSUME TypeInv, ReachInv, NEW c, NEW e, Hit(c, e)
  PROVE  /\ Allocated /\ c \in DOMAIN slot /\ e.key \in Key /\ e.key = probe.key
         /\ Reachable(e.key, c[1])
<1>1. pc = "find" /\ c \in Matches /\ e.key = probe.key
  BY DEF Hit
<1>2. probe.key \in Key /\ CtrlOf(probe.key) \notin {EmptySlot, SentinelSlot}
  BY <1>1, ProbeKey
<1>3. c \in DOMAIN ctrl /\ c[1] = probe.index /\ ctrl[c] = CtrlOf(probe.key)
  BY <1>1 DEF Matches
<1>4. Allocated
  <2> SUFFICES ASSUME ~ Allocated PROVE FALSE
    OBVIOUS
  <2>1. ctrl = DefaultCtrl
    BY DEF ReachInv, MemoryInv
  <2> QED
    BY <1>2, <1>3, <2>1 DEF DefaultCtrl
<1>5. c \in DOMAIN slot
  BY <1>3 DEF TypeInv, TableOK
<1>6. Reachable(probe.key, c[1])
  <2>1. OnSequence(probe.key, c[1], probe.step)
    BY <1>1, <1>3, <1>4 DEF ReachInv, ProbeInv
  <2>2. probe.step \in Nat
    BY DEF TypeInv, ControlOK
  <2> QED
    BY <1>2, <1>4, <2>1, <2>2, ReachWithin DEF TypeInv
<1> QED
  BY <1>1, <1>2, <1>4, <1>5, <1>6

(* One more move of the prober, out of a group that carries the mark. *)
LEMMA NextOnSequence ==
  ASSUME TypeInv, Allocated, probe.key \in Key,
         OnSequence(probe.key, probe.index, probe.step),
         OverflowBit(CtrlOf(probe.key)) \in overflow[probe.index]
  PROVE  OnSequence(NextBucket.key, NextBucket.index, NextBucket.step)
<1> DEFINE k == probe.key
           n == probe.step
<1>1. groupMask \in Nat /\ n \in Nat /\ Home(k) \in 0..groupMask
  BY ProbeGroups DEF TypeInv, TableOK, ControlOK
<1>2. NextBucket.key = k /\ NextBucket.step = n + 1
      /\ NextBucket.index = NextIndex(probe.index, n, groupMask)
  BY DEF NextBucket
<1>3. NextBucket.index = Probe(Home(k), n + 1, groupMask)
  BY <1>1, <1>2, ProbeStep DEF OnSequence
<1>4. Marked(k, n + 1)
  <2>1. ASSUME NEW m \in 0..n
        PROVE  OverflowBit(CtrlOf(k)) \in overflow[Probe(Home(k), m, groupMask)]
    <3>1. m \in 0..(n - 1) \/ m = n
      BY <1>1
    <3> QED
      BY <3>1 DEF OnSequence, Marked
  <2>2. (n + 1) - 1 = n
    BY <1>1
  <2> HIDE DEF k, n
  <2> QED
    BY <2>1, <2>2 DEF Marked
<1> QED
  BY <1>2, <1>3, <1>4 DEF OnSequence

(* A search, and the assignment or the erasure at its end. *)
LEMMA FindReach == TypeInv /\ ReachInv /\ FindStep => ReachInv'
<1> SUFFICES ASSUME TypeInv, ReachInv, FindStep PROVE ReachInv'
  OBVIOUS
<1>1. CASE FindNext
  <2>1. /\ pc = "find" /\ pc' = "find" /\ probe' = NextBucket /\ UNCHANGED table
        /\ OverflowBit(CtrlOf(probe.key)) \in overflow[probe.index]
    BY <1>1 DEF FindNext, MissedGroup, EndsSearch
  <2>2. MemoryInv'
    BY <2>1 DEF ReachInv, MemoryInv, table, Allocated
  <2>3. EveryElementReachable'
    BY <2>1 DEF ReachInv, EveryElementReachable, Live, Reachable, Home, table
  <2>4. ProbeInv'
    <3> SUFFICES ASSUME Allocated PROVE OnSequence(probe.key, probe.index, probe.step)'
      BY <2>1 DEF ProbeInv, Allocated, table
    <3>1. OnSequence(NextBucket.key, NextBucket.index, NextBucket.step)
      BY <2>1, ProbeKey, NextOnSequence DEF ReachInv, ProbeInv
    <3>2. groupMask' = groupMask /\ overflow' = overflow /\ probe' = NextBucket
      BY <2>1 DEF table
    <3> HIDE DEF NextBucket
    <3> QED
      BY <3>1, <3>2 DEF OnSequence, Marked, Home
  <2> QED
    BY <2>2, <2>3, <2>4 DEF ReachInv
<1>2. CASE NotFound
  <2>1. UNCHANGED table /\ pc' \in {"grow", "done"}
    BY <1>2 DEF NotFound, MissedGroup, Done, TypeInv, CallOK, KeyOps
  <2> QED
    BY <2>1, TableKept
<1>3. CASE ReturnFound \/ KeepExisting
  <2>1. UNCHANGED table /\ pc' = "done"
    BY <1>3 DEF ReturnFound, KeepExisting, Done
  <2> QED
    BY <2>1, TableKept
<1>4. CASE AssignExisting
  <2>1. PICK c \in DOMAIN slot : \E e \in Read(slot, c) :
          /\ Hit(c, e) /\ Done("exists")
          /\ slot' = [slot EXCEPT ![c] = [key |-> e.key, val |-> call.val]]
          /\ UNCHANGED <<groupMask, ctrl, overflow, slotThreshold>>
    BY <1>4 DEF AssignExisting
  <2>2. PICK e \in Read(slot, c) :
          /\ Hit(c, e) /\ Done("exists")
          /\ slot' = [slot EXCEPT ![c] = [key |-> e.key, val |-> call.val]]
          /\ UNCHANGED <<groupMask, ctrl, overflow, slotThreshold>>
    BY <2>1
  <2>3. Allocated /\ e.key \in Key /\ Reachable(e.key, c[1])
    BY <2>2, HitAllocated
  <2>4. pc' = "done"
    BY <2>2 DEF Done
  <2>5. MemoryInv' /\ ProbeInv'
    BY <2>2, <2>3, <2>4 DEF MemoryInv, ProbeInv, Allocated
  <2>6. EveryElementReachable'
    <3>1. MarksKept /\ DOMAIN slot' = DOMAIN slot
      BY <2>2 DEF MarksKept
    <3>2. ASSUME NEW d \in DOMAIN slot, slot'[d] # Raw
          PROVE  \/ slot[d] # Raw /\ slot'[d].key = slot[d].key
                 \/ slot'[d].key \in Key /\ Reachable(slot'[d].key, d[1])
      <4>1. CASE d = c
        <5>1. slot'[d].key = e.key
          BY <2>2, <4>1
        <5> QED
          BY <2>3, <4>1, <5>1
      <4>2. CASE d # c
        <5>1. slot'[d] = slot[d]
          BY <2>2, <4>2
        <5> QED
          BY <3>2, <5>1
      <4> QED
        BY <4>1, <4>2
    <3> QED
      BY <2>3, <3>1, <3>2, ElementsKept DEF TypeInv, ReachInv
  <2> QED
    BY <2>5, <2>6 DEF ReachInv
<1>5. CASE EraseFound
  <2>1. PICK c \in DOMAIN slot : \E e \in Read(slot, c) :
          /\ Hit(c, e) /\ Done("erased") /\ slot' = [slot EXCEPT ![c] = Raw]
          /\ UNCHANGED <<groupMask, overflow>>
    BY <1>5 DEF EraseFound
  <2>2. Allocated
    BY <2>1, HitAllocated
  <2>3. pc' = "done"
    BY <2>1 DEF Done
  <2>4. MemoryInv' /\ ProbeInv'
    BY <2>1, <2>2, <2>3 DEF MemoryInv, ProbeInv, Allocated
  <2>5. EveryElementReachable'
    <3>1. MarksKept /\ DOMAIN slot' = DOMAIN slot
      BY <2>1 DEF MarksKept
    <3>2. \A d \in DOMAIN slot : slot'[d] # Raw => slot'[d] = slot[d]
      BY <2>1
    <3> QED
      BY <2>2, <3>1, <3>2, ElementsKept DEF TypeInv, ReachInv
  <2> QED
    BY <2>4, <2>5 DEF ReachInv
<1> QED
  BY <1>1, <1>2, <1>3, <1>4, <1>5 DEF FindStep

(* Growing and moving on to the next element. *)
LEMMA RehashReach == TypeInv /\ ReachInv /\ RehashStep => ReachInv'
<1> SUFFICES ASSUME TypeInv, ReachInv, RehashStep PROVE ReachInv'
  OBVIOUS
<1>1. CASE Grow
  <2> DEFINE n == CtrlCapacity * 2
  <2>1. n \in Nat /\ mlf \in LoadFactors
    BY GroupAssumption DEF CtrlCapacity, TypeInv, TableOK
  <2>2. RehashImpl(FALSE, n, mlf)
    BY <1>1 DEF Grow
  <2> HIDE DEF n
  <2> QED
    BY <2>1, <2>2, RehashImplReach
<1>2. CASE NoGrow
  <2>1. /\ pc' = "place" /\ probe' = StartProbe(call.key, groupMask) /\ UNCHANGED table
        /\ slotSize < slotThreshold /\ call.key \in Key
    BY <1>2 DEF NoGrow, NeedGrow, TypeInv, TableOK, CallOK, KeyOps
  <2>2. Allocated
    BY <2>1 DEF ReachInv, MemoryInv, TypeInv, TableOK
  <2> QED
    BY <2>1, <2>2, TableKept
<1>3. CASE TransferNext
  <2>1. PICK e \in Read(oldSlot, NextPending) :
          /\ pc = "rehash" /\ pending # {} /\ pc' = "transfer"
          /\ probe' = StartProbe(e.key, groupMask) /\ UNCHANGED table
    BY <1>3 DEF TransferNext
  <2>2. e.key \in Key
    <3>1. NextPending \in DOMAIN oldSlot
      BY <2>1, NextPendingExists DEF TypeInv, RehashOK
    <3>2. e \in Element
      BY <3>1, ReadType DEF TypeInv, RehashOK
    <3> QED
      BY <3>2 DEF Element
  <2>3. Allocated
    BY <2>1 DEF ReachInv, MemoryInv
  <2> QED
    BY <2>1, <2>2, <2>3, TableKept
<1>4. CASE RehashDone
  <2>1. pc = "rehash" /\ UNCHANGED table
    BY <1>4 DEF RehashDone
  <2>2. Allocated
    BY <2>1 DEF ReachInv, MemoryInv
  <2>3. CASE call.op \in Insertions
    <3>1. pc' = "place" /\ probe' = StartProbe(call.key, groupMask) /\ call.key \in Key
      BY <1>4, <2>3 DEF RehashDone, TypeInv, CallOK, KeyOps
    <3> QED
      BY <2>1, <2>2, <3>1, TableKept
  <2>4. CASE call.op \notin Insertions
    <3>1. pc' = "done"
      BY <1>4, <2>4 DEF RehashDone, Done
    <3> QED
      BY <2>1, <3>1, TableKept
  <2> QED
    BY <2>3, <2>4
<1> QED
  BY <1>1, <1>2, <1>3, <1>4 DEF RehashStep

(* Placing an element: the marks it leaves on its way, and the cell it ends in. *)
LEMMA PlaceReach == TypeInv /\ ReachInv /\ PlaceStep => ReachInv'
<1> SUFFICES ASSUME TypeInv, ReachInv, PlaceStep PROVE ReachInv'
  OBVIOUS
<1>1. pc \in {"place", "transfer", "construct"}
  BY DEF PlaceStep, PlaceNext, PlaceNew, PlaceMoved, Construct, ConstructThrows
<1>2. /\ Allocated /\ probe.key \in Key /\ probe.step \in Nat
      /\ OnSequence(probe.key, probe.index, probe.step)
      /\ Reachable(probe.key, probe.index)
  <2>1. Allocated /\ OnSequence(probe.key, probe.index, probe.step)
    BY <1>1 DEF ReachInv, MemoryInv, ProbeInv
  <2>2. probe.key \in Key /\ probe.step \in Nat
    BY <1>1, ProbeKey DEF TypeInv, ControlOK
  <2> QED
    BY <2>1, <2>2, ReachWithin DEF TypeInv
<1>3. DOMAIN ctrl = Cells(groupMask) /\ DOMAIN ctrl \subseteq Nat \X Nat
  BY CellsRange DEF TypeInv, TableOK
<1>4. EmptyCells # {} => FirstEmpty \in Cells(groupMask) /\ FirstEmpty[1] = probe.index
  <2> SUFFICES ASSUME EmptyCells # {} 
               PROVE  FirstEmpty \in Cells(groupMask) /\ FirstEmpty[1] = probe.index
    OBVIOUS
  <2>1. FirstEmpty \in EmptyCells
    BY <1>3, FirstEmptyExists
  <2> QED
    BY <1>3, <2>1 DEF EmptyCells
<1>5. CASE PlaceNext
  <2>1. /\ pc' = pc /\ probe' = NextBucket /\ pc # "construct"
        /\ overflow' = [overflow EXCEPT ![probe.index] = @ \cup {OverflowBit(CtrlOf(probe.key))}]
        /\ UNCHANGED <<groupMask, ctrl, slot, slotThreshold>>
    BY <1>5 DEF PlaceNext
  <2>2. MarksKept
    <3>1. DOMAIN overflow = Groups(groupMask)
      BY DEF TypeInv, TableOK
    <3> QED
      BY <2>1, <3>1 DEF MarksKept
  <2>3. OverflowBit(CtrlOf(probe.key)) \in overflow'[probe.index]
    <3>1. probe.index \in Groups(groupMask)
      BY <1>2, ProbeGroups DEF OnSequence, TypeInv
    <3> QED
      BY <2>1, <3>1 DEF TypeInv, TableOK
  <2>4. ProbeInv'
    <3> DEFINE k == probe.key
               n == probe.step
    <3>1. /\ probe'.key = k /\ probe'.step = n + 1
          /\ probe'.index = NextIndex(probe.index, n, groupMask)
      BY <2>1 DEF NextBucket
    <3>2. Home(k) \in 0..groupMask /\ groupMask \in Nat
      BY <1>2, ProbeGroups DEF TypeInv, TableOK
    <3>3. probe'.index = Probe(Home(k), n + 1, groupMask)
      BY <1>2, <3>1, <3>2, ProbeStep DEF OnSequence
    <3>4. ASSUME NEW m \in 0..n
          PROVE  OverflowBit(CtrlOf(k)) \in overflow'[Probe(Home(k), m, groupMask)]
      <4>1. CASE m = n
        BY <1>2, <2>3, <4>1 DEF OnSequence
      <4>2. CASE m # n
        <5>1. m \in 0..(n - 1) /\ m \in Nat
          BY <1>2, <4>2
        <5>2. Probe(Home(k), m, groupMask) \in Groups(groupMask)
          BY <1>2, <5>1, ProbeGroups DEF TypeInv
        <5> QED
          BY <1>2, <2>2, <5>1, <5>2 DEF OnSequence, Marked, MarksKept
      <4> QED
        BY <4>1, <4>2
    <3>5. (n + 1) - 1 = n /\ groupMask' = groupMask
      BY <1>2, <2>1
    <3> HIDE DEF n
    <3> QED
      BY <2>1, <3>1, <3>3, <3>4, <3>5 DEF ProbeInv, OnSequence, Marked, Home, Allocated
  <2>5. EveryElementReachable'
    BY <1>2, <2>1, <2>2, ElementsKept DEF TypeInv, ReachInv
  <2>6. MemoryInv'
    BY <1>2, <2>1 DEF MemoryInv, Allocated
  <2> QED
    BY <2>4, <2>5, <2>6 DEF ReachInv
<1>6. CASE PlaceNew
  <2>1. /\ pc' = "construct" /\ at' = FirstEmpty /\ EmptyCells # {}
        /\ UNCHANGED <<groupMask, overflow, slot, slotThreshold, probe>>
    BY <1>6 DEF PlaceNew
  <2>2. MemoryInv'
    BY <1>2, <2>1 DEF MemoryInv, Allocated
  <2>3. ProbeInv'
    BY <1>2, <1>4, <2>1 DEF ProbeInv, OnSequence, Marked, Home
  <2>4. EveryElementReachable'
    BY <2>1 DEF ReachInv, EveryElementReachable, Live, Reachable, Home
  <2> QED
    BY <2>2, <2>3, <2>4 DEF ReachInv
<1>7. CASE PlaceMoved
  <2>1. /\ pc = "transfer" /\ pc' = "rehash" /\ EmptyCells # {}
        /\ slot' = [slot EXCEPT ![FirstEmpty] = oldSlot[NextPending]]
        /\ UNCHANGED <<groupMask, overflow, slotThreshold>>
    BY <1>7 DEF PlaceMoved
  <2>2. MemoryInv' /\ ProbeInv'
    BY <1>2, <2>1 DEF MemoryInv, ProbeInv, Allocated
  <2>3. EveryElementReachable'
    <3>1. MarksKept /\ DOMAIN slot' = DOMAIN slot /\ FirstEmpty \in DOMAIN slot
      BY <1>4, <2>1 DEF MarksKept, TypeInv, TableOK
    <3>2. oldSlot[NextPending] # Raw => oldSlot[NextPending].key = probe.key
      BY <2>1 DEF TypeInv, CallOK
    <3>3. ASSUME NEW d \in DOMAIN slot, slot'[d] # Raw
          PROVE  \/ slot[d] # Raw /\ slot'[d].key = slot[d].key
                 \/ slot'[d].key \in Key /\ Reachable(slot'[d].key, d[1])
      <4>1. CASE d = FirstEmpty
        <5>1. slot'[d].key = probe.key
          BY <2>1, <3>1, <3>2, <3>3, <4>1
        <5> QED
          BY <1>2, <1>4, <2>1, <4>1, <5>1
      <4>2. CASE d # FirstEmpty
        <5>1. slot'[d] = slot[d]
          BY <2>1, <4>2
        <5> QED
          BY <3>3, <5>1
      <4> QED
        BY <4>1, <4>2
    <3> QED
      BY <1>2, <3>1, <3>3, ElementsKept DEF TypeInv, ReachInv
  <2> QED
    BY <2>2, <2>3 DEF ReachInv
<1>8. CASE Construct
  <2>1. /\ pc = "construct" /\ pc' = "done"
        /\ slot' = [slot EXCEPT ![at] = [key |-> call.key, val |-> call.val]]
        /\ UNCHANGED <<groupMask, ctrl, overflow, slotThreshold>>
    BY <1>8 DEF Construct, Done
  <2>2. MemoryInv' /\ ProbeInv'
    BY <1>2, <2>1 DEF MemoryInv, ProbeInv, Allocated
  <2>3. call.key = probe.key /\ at[1] = probe.index
    BY <1>2, <2>1 DEF TypeInv, CallOK, ReachInv, ProbeInv
  <2>4. EveryElementReachable'
    <3>1. MarksKept /\ DOMAIN slot' = DOMAIN slot
      BY <2>1 DEF MarksKept
    <3>2. ASSUME NEW d \in DOMAIN slot, slot'[d] # Raw
          PROVE  \/ slot[d] # Raw /\ slot'[d].key = slot[d].key
                 \/ slot'[d].key \in Key /\ Reachable(slot'[d].key, d[1])
      <4>1. CASE d = at
        <5>1. slot'[d].key = probe.key
          BY <2>1, <2>3, <4>1
        <5> QED
          BY <1>2, <2>3, <4>1, <5>1
      <4>2. CASE d # at
        <5>1. slot'[d] = slot[d]
          BY <2>1, <4>2
        <5> QED
          BY <3>2, <5>1
      <4> QED
        BY <4>1, <4>2
    <3> QED
      BY <1>2, <3>1, <3>2, ElementsKept DEF TypeInv, ReachInv
  <2> QED
    BY <2>2, <2>4 DEF ReachInv
<1>9. CASE ConstructThrows
  <2>1. UNCHANGED table /\ pc' = "done"
    BY <1>9 DEF ConstructThrows, Done
  <2> QED
    BY <2>1, TableKept
<1> QED
  BY <1>5, <1>6, <1>7, <1>8, <1>9 DEF PlaceStep

(* Every step keeps every element within reach. *)
LEMMA NextReach == TypeInv /\ ReachInv /\ [Next]_vars => ReachInv'
<1> SUFFICES ASSUME TypeInv, ReachInv, [Next]_vars PROVE ReachInv'
  OBVIOUS
<1>1. ASSUME NEW op, NEW k, NEW v, NEW n, Begin(op, k, v, n), op \in KeyOps => k \in Key
      PROVE  ReachInv'
  <2>1. /\ UNCHANGED table
        /\ \/ op \in KeyOps /\ pc' = "find" /\ probe' = StartProbe(k, groupMask)
           \/ pc' = "manage"
    BY <1>1 DEF Begin
  <2> QED
    BY <1>1, <2>1, TableKept
<1>2. CASE BeginKeyOp
  BY <1>1, <1>2 DEF BeginKeyOp
<1>3. CASE BeginManagement
  <2>1. \E op, k, v, n : Begin(op, k, v, n) /\ op \notin KeyOps
    BY <1>3 DEF BeginManagement, KeyOps, Insertions
  <2> QED
    BY <1>1, <2>1
<1>4. CASE Return
  <2>1. UNCHANGED table /\ pc' = "idle"
    BY <1>4 DEF Return
  <2> QED
    BY <2>1, TableKept
<1>5. CASE UNCHANGED vars
  BY <1>5 DEF vars, table, ReachInv, MemoryInv, ProbeInv, Allocated, OnSequence, Marked, Home,
              EveryElementReachable, Live, Reachable
<1> QED
  BY <1>2, <1>3, <1>4, <1>5, ManageReach, FindReach, RehashReach, PlaceReach DEF Next, Step

(* The static groups hold no element. *)
LEMMA InitReach == Init => ReachInv
BY DEF Init, ReachInv, MemoryInv, ProbeInv, Allocated, EveryElementReachable, Live, AllRaw

(***************************************************************************)
(* Whatever calls are made, whatever the hash and whichever constructors   *)
(* throw, a search for the key of an element gets to the group the element *)
(* is in: no group before it ends the search.                              *)
(***************************************************************************)
THEOREM Reachability == Spec => []EveryElementReachable
<1>1. Init => TypeInv /\ ReachInv
  BY InitType, InitReach
<1>2. TypeInv /\ ReachInv /\ [Next]_vars => (TypeInv /\ ReachInv)'
  BY NextType, NextReach
<1>3. TypeInv /\ ReachInv => EveryElementReachable
  BY DEF ReachInv
<1> QED
  BY <1>1, <1>2, <1>3, PTL DEF Spec

-----------------------------------------------------------------------------
(* Control bytes and slots *)

(* The cells a rehash has still to move hold elements. *)
PendingLive == \A c \in pending : oldSlot[c] # Raw

(* The cell find_empty_to_insert() has marked is a slot without an element. *)
AtFree == pc = "construct" => at \in Cells(groupMask) /\ ~ IsSentinel(at) /\ slot[at] = Raw

MirrorInv == CtrlMirrorsSlots /\ PendingLive /\ AtFree

(* A table without memory, or with memory no element was put in. *)
LEMMA FreshMirrors ==
  ASSUME NEW mask \in Nat
  PROVE  \A c \in Cells(mask) :
           /\ c = SentinelCell(mask) <=> c[2] = GroupSize - 1 /\ c[1] = mask
           /\ AllRaw(mask)[c] = Raw
           /\ FreshCtrl(mask)[c] = IF c = SentinelCell(mask) THEN SentinelSlot ELSE EmptySlot
<1> SUFFICES ASSUME NEW c \in Cells(mask)
             PROVE  /\ c = SentinelCell(mask) <=> c[2] = GroupSize - 1 /\ c[1] = mask
                    /\ AllRaw(mask)[c] = Raw
                    /\ FreshCtrl(mask)[c] = IF c = SentinelCell(mask) THEN SentinelSlot ELSE EmptySlot
  OBVIOUS
<1>1. c = <<c[1], c[2]>>
  BY DEF Cells
<1> QED
  BY <1>1 DEF SentinelCell, AllRaw, FreshCtrl

(* A byte that is no mark stands for an element, ... *)
LEMMA UsedIsLive ==
  ASSUME TypeInv, CtrlMirrorsSlots, pc # "construct",
         NEW c \in DOMAIN ctrl, ctrl[c] \notin {EmptySlot, SentinelSlot}
  PROVE  /\ c \in DOMAIN slot /\ slot[c] # Raw /\ ~ IsSentinel(c)
         /\ slot[c].key \in Key /\ ctrl[c] = CtrlOf(slot[c].key)
<1>1. c \in DOMAIN slot /\ slot[c] \in Element \cup {Raw}
  BY DEF TypeInv, TableOK
<1>2. ~ IsSentinel(c) /\ slot[c] # Raw
  BY DEF CtrlMirrorsSlots, Constructing
<1> QED
  BY <1>1, <1>2 DEF CtrlMirrorsSlots, Element

(* ... and an empty byte for none. *)
LEMMA EmptyIsRaw ==
  ASSUME TypeInv, CtrlMirrorsSlots, NEW c \in DOMAIN ctrl, ctrl[c] = EmptySlot
  PROVE  c \in DOMAIN slot /\ slot[c] = Raw /\ ~ IsSentinel(c)
<1>1. c \in DOMAIN slot /\ slot[c] \in Element \cup {Raw}
  BY DEF TypeInv, TableOK
<1>2. ~ IsSentinel(c)
  BY DEF CtrlMirrorsSlots, EmptySlot, SentinelSlot
<1>3. slot[c] = Raw
  <2> SUFFICES ASSUME slot[c] # Raw PROVE FALSE
    OBVIOUS
  <2>1. slot[c].key \in Key /\ ctrl[c] = CtrlOf(slot[c].key)
    BY <1>1, <1>2 DEF CtrlMirrorsSlots, Element
  <2> QED
    BY <2>1, CtrlOfRange
<1> QED
  BY <1>1, <1>2, <1>3

(* The bytes the loop over the old groups looks for stand for all elements. *)
LEMMA LiveIsUsed ==
  ASSUME TypeInv, CtrlMirrorsSlots, pc # "construct"
  PROVE  Live(slot) = UsedCells
<1>1. DOMAIN ctrl = DOMAIN slot
  BY DEF TypeInv, TableOK
<1>2. ASSUME NEW c \in Live(slot) PROVE c \in UsedCells
  <2>1. c \in DOMAIN ctrl /\ slot[c] # Raw /\ slot[c].key \in Key
    BY <1>1 DEF Live, TypeInv, TableOK, Element
  <2>2. ctrl[c] = CtrlOf(slot[c].key)
    BY <2>1 DEF CtrlMirrorsSlots
  <2> QED
    BY <2>1, <2>2, CtrlOfRange DEF UsedCells
<1>3. ASSUME NEW c \in UsedCells PROVE c \in Live(slot)
  BY UsedIsLive DEF UsedCells, Live
<1> QED
  BY <1>2, <1>3

(* Steps that leave the table alone. *)
LEMMA MirrorKept ==
  ASSUME MirrorInv, UNCHANGED table, pc # "construct", pc' # "construct", PendingLive'
  PROVE  MirrorInv'
BY DEF MirrorInv, AtFree, CtrlMirrorsSlots, IsSentinel, Constructing, Allocated, table

(* Steps that leave a table with no element. *)
LEMMA MirrorFresh ==
  ASSUME NEW mask \in Nat, groupMask' = mask, slot' = AllRaw(mask), pc' # "construct", PendingLive',
         ctrl' = IF mask = 0 THEN DefaultCtrl ELSE FreshCtrl(mask)
  PROVE  MirrorInv'
<1>1. DOMAIN ctrl' = Cells(mask)
  BY DEF DefaultCtrl, FreshCtrl
<1>2. ASSUME NEW c \in Cells(mask)
      PROVE  /\ IsSentinel(c)' => ctrl'[c] = SentinelSlot /\ slot'[c] = Raw
             /\ ~ IsSentinel(c)' => ctrl'[c] = EmptySlot /\ slot'[c] = Raw
  BY FreshMirrors DEF IsSentinel, Allocated, DefaultCtrl
<1> QED
  BY <1>1, <1>2 DEF MirrorInv, CtrlMirrorsSlots, AtFree, Constructing

(* The start of a rehash. *)
LEMMA RehashImplMirror ==
  ASSUME TypeInv, MirrorInv, NEW allowShrink, NEW n \in Nat, NEW m \in LoadFactors,
         RehashImpl(allowShrink, n, m), pc # "construct"
  PROVE  MirrorInv'
<1>1. \/ CreateSlots(NewMask(n), m) /\ pc' = "rehash"
      \/ UNCHANGED <<table, rehash>> /\ pc' = "done"
  BY DEF RehashImpl, CreateSlots, Done, NewMask
<1>2. CASE CreateSlots(NewMask(n), m) /\ pc' = "rehash"
  <2>1. /\ NewMask(n) \in Nat /\ NewMask(n) # 0
        /\ groupMask' = NewMask(n) /\ slot' = AllRaw(NewMask(n)) /\ ctrl' = FreshCtrl(NewMask(n))
        /\ oldSlot' = slot /\ pending' = UsedCells
    BY <1>2, NewMaskRange DEF CreateSlots, TypeInv, TableOK
  <2>2. PendingLive'
    BY <2>1, UsedIsLive DEF PendingLive, UsedCells, MirrorInv
  <2> QED
    BY <1>2, <2>1, <2>2, MirrorFresh
<1>3. CASE UNCHANGED <<table, rehash>> /\ pc' = "done"
  BY <1>3, MirrorKept DEF MirrorInv, PendingLive, rehash
<1> QED
  BY <1>1, <1>2, <1>3

(* destroy() goes back to the static groups. *)
LEMMA DestroyMirror == ReachInv /\ MirrorInv /\ Destroy => MirrorInv'
<1> SUFFICES ASSUME ReachInv, MirrorInv, Destroy PROVE MirrorInv'
  OBVIOUS
<1>1. pc' = "done" /\ UNCHANGED rehash
  BY DEF Destroy, Done
<1>2. PendingLive'
  BY <1>1 DEF MirrorInv, PendingLive, rehash
<1>3. groupMask' = 0 /\ slot' = AllRaw(0) /\ ctrl' = DefaultCtrl
  BY DEF Destroy, Allocated, ReachInv, MemoryInv
<1> QED
  BY <1>1, <1>2, <1>3, MirrorFresh

(* The calls that manage the memory. *)
LEMMA ManageMirror == TypeInv /\ ReachInv /\ MirrorInv /\ Manage => MirrorInv'
<1> SUFFICES ASSUME TypeInv, ReachInv, MirrorInv, Manage PROVE MirrorInv'
  OBVIOUS
<1>0. /\ slotSize \in Nat /\ mlf \in LoadFactors /\ call.arg \in Nat /\ groupMask \in Nat
      /\ call.op = "max_load_factor" => call.arg \in LoadFactors
      /\ pc = "manage"
  BY DEF TypeInv, TableOK, ControlOK, CallOK, Manage, Clear, Reserve, Rehash, ShrinkToFit, MaxLoadFactor
<1>1. ASSUME Destroy PROVE MirrorInv'
  BY <1>1, DestroyMirror
<1>2. CASE Clear
  <2>1. /\ ctrl' = [ClearedCtrl EXCEPT ![SentinelCell(groupMask)] = SentinelSlot]
        /\ slot' = AllRaw(groupMask) /\ groupMask' = groupMask
        /\ pc' = "done" /\ UNCHANGED rehash
    BY <1>2 DEF Clear, ClearData, Done
  <2>2. PendingLive'
    BY <2>1 DEF MirrorInv, PendingLive, rehash
  <2>3. CASE Allocated
    <3>1. ctrl' = FreshCtrl(groupMask)
      BY <2>1, <2>3 DEF ClearedCtrl, FreshCtrl
    <3> QED
      BY <1>0, <2>1, <2>2, <2>3, <3>1, MirrorFresh DEF Allocated
  <2>4. CASE ~ Allocated
    <3>1. ctrl' = [DefaultCtrl EXCEPT ![<<0, GroupSize - 1>>] = SentinelSlot]
      BY <2>1, <2>4 DEF ClearedCtrl, SentinelCell, Allocated, ReachInv, MemoryInv
    <3>2. <<0, GroupSize - 1>> \in Cells(0) => DefaultCtrl[<<0, GroupSize - 1>>] = SentinelSlot
      BY DEF DefaultCtrl
    <3>3. ctrl' = DefaultCtrl
      BY <3>1, <3>2 DEF DefaultCtrl
    <3> QED
      BY <1>0, <2>1, <2>2, <2>4, <3>3, MirrorFresh DEF Allocated
  <2> QED
    BY <2>3, <2>4
<1>3. CASE Reserve
  <2>1. ShrinkToFitCapacity(call.arg, mlf) \in Nat
    BY <1>0, FitRange
  <2> QED
    BY <1>0, <1>1, <1>3, <2>1, RehashImplMirror DEF Reserve
<1>4. CASE Rehash
  <2> DEFINE n == AtLeast(ShrinkToFitCapacity(slotSize, mlf), call.arg)
  <2>1. n \in Nat
    BY <1>0, FitRange DEF AtLeast
  <2> QED
    BY <1>0, <1>1, <1>4, <2>1, RehashImplMirror DEF Rehash
<1>5. CASE ShrinkToFit
  <2> DEFINE n == IF call.arg = 1 THEN slotSize ELSE ShrinkToFitCapacity(slotSize, mlf)
  <2>1. n \in Nat
    BY <1>0, FitRange
  <2> QED
    BY <1>0, <1>1, <1>5, <2>1, RehashImplMirror DEF ShrinkToFit
<1>6. CASE MaxLoadFactor
  <2> DEFINE c == CalcCapacity(ShrinkToFitCapacity(CtrlCapacity, call.arg))
             n == AtLeast(ShrinkToFitCapacity(slotSize, call.arg), c)
  <2>1. call.arg \in LoadFactors
    BY <1>0, <1>6 DEF MaxLoadFactor
  <2>2. CtrlCapacity \in Nat
    BY <1>0, GroupAssumption DEF CtrlCapacity
  <2>3. c \in Nat
    BY <1>0, <2>1, <2>2, FitRange, NewMaskRange
  <2>4. n \in Nat
    <3> HIDE DEF c
    <3> QED
      BY <1>0, <2>1, <2>3, FitRange DEF AtLeast
  <2>5. CASE RehashImpl(FALSE, n, call.arg)
    BY <1>0, <2>1, <2>4, <2>5, RehashImplMirror
  <2>6. CASE Done("ok") /\ UNCHANGED <<table, rehash>>
    <3>1. pc' = "done"
      BY <2>6 DEF Done
    <3>2. PendingLive'
      BY <2>6 DEF MirrorInv, PendingLive, rehash
    <3> QED
      BY <1>0, <2>6, <3>1, <3>2, MirrorKept
  <2> QED
    BY <1>6, <2>5, <2>6 DEF MaxLoadFactor
<1> QED
  BY <1>2, <1>3, <1>4, <1>5, <1>6 DEF Manage

(* Assigning to and erasing an element. *)
LEMMA FindMirror == TypeInv /\ ReachInv /\ MirrorInv /\ FindStep => MirrorInv'
<1> SUFFICES ASSUME TypeInv, ReachInv, MirrorInv, FindStep PROVE MirrorInv'
  OBVIOUS
<1>1. pc = "find" /\ UNCHANGED rehash
  BY DEF FindStep, FindNext, NotFound, ReturnFound, KeepExisting, AssignExisting, EraseFound,
         MissedGroup, Hit
<1>2. PendingLive'
  BY <1>1 DEF MirrorInv, PendingLive, rehash
<1>3. CASE FindNext \/ NotFound \/ ReturnFound \/ KeepExisting
  <2>1. UNCHANGED table
    BY <1>3 DEF FindNext, NotFound, ReturnFound, KeepExisting
  <2>2. pc' # "construct"
    BY <1>1, <1>3 DEF FindNext, NotFound, ReturnFound, KeepExisting, Done, TypeInv, CallOK, KeyOps
  <2> QED
    BY <1>1, <1>2, <2>1, <2>2, MirrorKept
<1>4. ASSUME NEW c, NEW e, Hit(c, e)
      PROVE  /\ Allocated /\ c \in DOMAIN ctrl /\ c \in DOMAIN slot /\ ~ IsSentinel(c)
             /\ e = slot[c] /\ e # Raw /\ ctrl[c] = CtrlOf(e.key) /\ e.key \in Key
  <2>1. c \in DOMAIN ctrl /\ ctrl[c] = CtrlOf(probe.key) /\ e \in Read(slot, c)
    BY <1>4 DEF Hit, Matches
  <2>2. ctrl[c] \notin {EmptySlot, SentinelSlot}
    BY <1>1, <2>1, ProbeKey
  <2>3. c \in DOMAIN slot /\ slot[c] # Raw /\ ~ IsSentinel(c) /\ ctrl[c] = CtrlOf(slot[c].key) /\ slot[c].key \in Key
    BY <1>1, <2>1, <2>2, UsedIsLive DEF MirrorInv
  <2> QED
    BY <1>4, <2>1, <2>3, HitAllocated DEF Read
<1>5. CASE AssignExisting
  <2>1. PICK c \in DOMAIN slot : \E e \in Read(slot, c) :
          /\ Hit(c, e) /\ Done("exists")
          /\ slot' = [slot EXCEPT ![c] = [key |-> e.key, val |-> call.val]]
          /\ UNCHANGED <<groupMask, ctrl>> /\ call.op = "insert_or_assign"
    BY <1>5 DEF AssignExisting
  <2>2. PICK e \in Read(slot, c) :
          /\ Hit(c, e) /\ Done("exists")
          /\ slot' = [slot EXCEPT ![c] = [key |-> e.key, val |-> call.val]]
          /\ UNCHANGED <<groupMask, ctrl>> /\ call.op = "insert_or_assign"
    BY <2>1
  <2>3. [key |-> e.key, val |-> call.val] # Raw
    BY <1>4, <2>2, KeyAssumption DEF TypeInv, CallOK, Insertions
  <2>4. pc' = "done"
    BY <2>2 DEF Done
  <2>5. ASSUME NEW d \in DOMAIN ctrl
        PROVE  /\ IsSentinel(d) => ctrl[d] = SentinelSlot /\ slot'[d] = Raw
               /\ ~ IsSentinel(d) /\ slot'[d] # Raw => ctrl[d] = CtrlOf(slot'[d].key)
               /\ ~ IsSentinel(d) /\ slot'[d] = Raw => ctrl[d] = EmptySlot
    <3>1. CASE d = c
      <4>1. slot'[d] = [key |-> e.key, val |-> call.val]
        BY <2>2, <3>1
      <4>2. slot'[d].key = e.key
        BY <4>1
      <4> QED
        BY <1>4, <2>2, <2>3, <3>1, <4>1, <4>2
    <3>2. CASE d # c
      <4>1. slot'[d] = slot[d]
        BY <2>2, <3>2
      <4> QED
        BY <1>1, <4>1 DEF MirrorInv, CtrlMirrorsSlots, Constructing
    <3> QED
      BY <3>1, <3>2
  <2>6. CtrlMirrorsSlots'
    BY <2>2, <2>4, <2>5 DEF CtrlMirrorsSlots, IsSentinel, Constructing, Allocated
  <2> QED
    BY <1>2, <2>4, <2>6 DEF MirrorInv, AtFree
<1>6. CASE EraseFound
  <2>1. PICK c \in DOMAIN slot : \E e \in Read(slot, c) :
          /\ Hit(c, e) /\ Done("erased") /\ slot' = [slot EXCEPT ![c] = Raw]
          /\ ctrl' = [ctrl EXCEPT ![c] = EmptySlot] /\ groupMask' = groupMask
    BY <1>6 DEF EraseFound
  <2>2. c \in DOMAIN ctrl /\ ~ IsSentinel(c)
    BY <1>4, <2>1
  <2>3. pc' = "done"
    BY <2>1 DEF Done
  <2>4. ASSUME NEW d \in DOMAIN ctrl
        PROVE  /\ IsSentinel(d) => ctrl'[d] = SentinelSlot /\ slot'[d] = Raw
               /\ ~ IsSentinel(d) /\ slot'[d] # Raw => ctrl'[d] = CtrlOf(slot'[d].key)
               /\ ~ IsSentinel(d) /\ slot'[d] = Raw => ctrl'[d] = EmptySlot
    <3>1. CASE d = c
      BY <2>1, <2>2, <3>1
    <3>2. CASE d # c
      <4>1. slot'[d] = slot[d] /\ ctrl'[d] = ctrl[d]
        BY <2>1, <3>2
      <4> QED
        BY <1>1, <4>1 DEF MirrorInv, CtrlMirrorsSlots, Constructing
    <3> QED
      BY <3>1, <3>2
  <2>5. CtrlMirrorsSlots'
    BY <2>1, <2>3, <2>4 DEF CtrlMirrorsSlots, IsSentinel, Constructing, Allocated
  <2> QED
    BY <1>2, <2>3, <2>5 DEF MirrorInv, AtFree
<1> QED
  BY <1>3, <1>5, <1>6 DEF FindStep

(* Growing, and choosing the next element to move. *)
LEMMA RehashMirror == TypeInv /\ MirrorInv /\ RehashStep => MirrorInv'
<1> SUFFICES ASSUME TypeInv, MirrorInv, RehashStep PROVE MirrorInv'
  OBVIOUS
<1>1. CASE Grow
  <2> DEFINE n == CtrlCapacity * 2
  <2>1. n \in Nat /\ mlf \in LoadFactors
    BY GroupAssumption DEF CtrlCapacity, TypeInv, TableOK
  <2>2. RehashImpl(FALSE, n, mlf) /\ pc # "construct"
    BY <1>1 DEF Grow
  <2> HIDE DEF n
  <2> QED
    BY <2>1, <2>2, RehashImplMirror
<1>2. CASE NoGrow \/ TransferNext
  <2>1. UNCHANGED <<table, rehash>> /\ pc # "construct" /\ pc' # "construct"
    BY <1>2 DEF NoGrow, TransferNext
  <2>2. PendingLive'
    BY <2>1 DEF MirrorInv, PendingLive, rehash
  <2> QED
    BY <2>1, <2>2, MirrorKept
<1>3. CASE RehashDone
  <2>1. UNCHANGED table /\ pc # "construct" /\ pc' # "construct" /\ pending' = {}
    BY <1>3 DEF RehashDone, Done
  <2>2. PendingLive'
    BY <2>1 DEF PendingLive
  <2> QED
    BY <2>1, <2>2, MirrorKept
<1> QED
  BY <1>1, <1>2, <1>3 DEF RehashStep

(* The slot find_empty_to_insert() takes is empty and not the sentinel. *)
LEMMA FirstEmptyFree ==
  ASSUME TypeInv, CtrlMirrorsSlots, EmptyCells # {}
  PROVE  /\ FirstEmpty \in DOMAIN ctrl /\ FirstEmpty \in Cells(groupMask)
         /\ FirstEmpty \in DOMAIN slot
         /\ slot[FirstEmpty] = Raw /\ ~ IsSentinel(FirstEmpty)
<1>1. DOMAIN ctrl = Cells(groupMask) /\ DOMAIN ctrl \subseteq Nat \X Nat
  BY CellsRange DEF TypeInv, TableOK
<1>2. FirstEmpty \in DOMAIN ctrl /\ ctrl[FirstEmpty] = EmptySlot
  BY <1>1, FirstEmptyExists DEF EmptyCells
<1> QED
  BY <1>1, <1>2, EmptyIsRaw

(* Placing an element: the byte first, the element after it. *)
LEMMA PlaceMirror ==
  ASSUME MayThrow = FALSE, TypeInv, MirrorInv, PlaceStep
  PROVE  MirrorInv'
<1>1. CASE PlaceNext
  <2>1. /\ UNCHANGED <<groupMask, ctrl, slot, rehash>> /\ pc' = pc /\ pc # "construct"
    BY <1>1 DEF PlaceNext
  <2> QED
    BY <2>1 DEF MirrorInv, PendingLive, AtFree, CtrlMirrorsSlots, IsSentinel, Constructing, Allocated, rehash
<1>2. CASE PlaceNew
  <2>1. /\ pc = "place" /\ pc' = "construct" /\ at' = FirstEmpty /\ EmptyCells # {}
        /\ ctrl' = [ctrl EXCEPT ![FirstEmpty] = CtrlOf(probe.key)]
        /\ UNCHANGED <<groupMask, slot, call, rehash>>
    BY <1>2 DEF PlaceNew
  <2>2. probe.key = call.key
    BY <2>1 DEF TypeInv, CallOK
  <2>3. FirstEmpty \in DOMAIN ctrl /\ slot[FirstEmpty] = Raw /\ ~ IsSentinel(FirstEmpty)
        /\ FirstEmpty \in Cells(groupMask)
    BY <2>1, FirstEmptyFree DEF MirrorInv
  <2>4. ASSUME NEW d \in DOMAIN ctrl
        PROVE  /\ IsSentinel(d) => ctrl'[d] = SentinelSlot /\ slot[d] = Raw
               /\ ~ IsSentinel(d) /\ slot[d] # Raw => ctrl'[d] = CtrlOf(slot[d].key)
               /\ ~ IsSentinel(d) /\ slot[d] = Raw =>
                    ctrl'[d] = IF d = FirstEmpty THEN CtrlOf(call.key) ELSE EmptySlot
    <3>1. CASE d = FirstEmpty
      BY <2>1, <2>2, <2>3, <3>1
    <3>2. CASE d # FirstEmpty
      <4>1. ctrl'[d] = ctrl[d]
        BY <2>1, <3>2
      <4> QED
        BY <2>1, <3>2, <4>1 DEF MirrorInv, CtrlMirrorsSlots, Constructing
    <3> QED
      BY <3>1, <3>2
  <2>5. CtrlMirrorsSlots'
    BY <2>1, <2>4 DEF CtrlMirrorsSlots, IsSentinel, Constructing, Allocated
  <2>6. AtFree' /\ PendingLive'
    BY <2>1, <2>3 DEF MirrorInv, AtFree, PendingLive, IsSentinel, Allocated, rehash
  <2> QED
    BY <2>5, <2>6 DEF MirrorInv
<1>3. CASE PlaceMoved
  <2>1. /\ pc = "transfer" /\ pc' = "rehash" /\ EmptyCells # {}
        /\ ctrl' = [ctrl EXCEPT ![FirstEmpty] = CtrlOf(probe.key)]
        /\ slot' = [slot EXCEPT ![FirstEmpty] = oldSlot[NextPending]]
        /\ oldSlot' = [oldSlot EXCEPT ![NextPending] = Raw]
        /\ pending' = pending \ {NextPending}
        /\ groupMask' = groupMask
    BY <1>3 DEF PlaceMoved
  <2>2. FirstEmpty \in DOMAIN ctrl /\ FirstEmpty \in DOMAIN slot /\ ~ IsSentinel(FirstEmpty)
    BY <2>1, FirstEmptyFree DEF MirrorInv
  <2>3. /\ NextPending \in pending /\ pending \subseteq DOMAIN oldSlot
        /\ oldSlot[NextPending] # Raw /\ oldSlot[NextPending].key = probe.key
    BY <2>1, NextPendingExists DEF TypeInv, RehashOK, CallOK, MirrorInv, PendingLive
  <2>4. ASSUME NEW d \in DOMAIN ctrl
        PROVE  /\ IsSentinel(d) => ctrl'[d] = SentinelSlot /\ slot'[d] = Raw
               /\ ~ IsSentinel(d) /\ slot'[d] # Raw => ctrl'[d] = CtrlOf(slot'[d].key)
               /\ ~ IsSentinel(d) /\ slot'[d] = Raw => ctrl'[d] = EmptySlot
    <3>1. CASE d = FirstEmpty
      BY <2>1, <2>2, <2>3, <3>1
    <3>2. CASE d # FirstEmpty
      <4>1. ctrl'[d] = ctrl[d] /\ slot'[d] = slot[d]
        BY <2>1, <3>2
      <4> QED
        BY <2>1, <4>1 DEF MirrorInv, CtrlMirrorsSlots, Constructing
    <3> QED
      BY <3>1, <3>2
  <2>5. CtrlMirrorsSlots'
    BY <2>1, <2>4 DEF CtrlMirrorsSlots, IsSentinel, Constructing, Allocated
  <2>6. PendingLive'
    <3> SUFFICES ASSUME NEW c \in pending, c # NextPending PROVE oldSlot'[c] # Raw
      BY <2>1 DEF PendingLive
    <3>1. oldSlot'[c] = oldSlot[c]
      BY <2>1, <2>3
    <3> QED
      BY <3>1 DEF MirrorInv, PendingLive
  <2> QED
    BY <2>1, <2>5, <2>6 DEF MirrorInv, AtFree
<1>4. CASE Construct
  <2>1. /\ pc = "construct" /\ pc' = "done"
        /\ slot' = [slot EXCEPT ![at] = [key |-> call.key, val |-> call.val]]
        /\ UNCHANGED <<groupMask, ctrl, rehash>>
    BY <1>4 DEF Construct, Done
  <2> DEFINE e == [key |-> call.key, val |-> call.val]
  <2>2. e # Raw
    BY <2>1, KeyAssumption DEF TypeInv, CallOK, KeyOps
  <2>3. at \in DOMAIN slot /\ ~ IsSentinel(at) /\ slot[at] = Raw /\ at \in DOMAIN ctrl
    BY <2>1 DEF MirrorInv, AtFree, TypeInv, TableOK
  <2>4. ctrl[at] = CtrlOf(call.key)
    BY <2>1, <2>3 DEF MirrorInv, CtrlMirrorsSlots, Constructing
  <2>5. ASSUME NEW d \in DOMAIN ctrl
        PROVE  /\ IsSentinel(d) => ctrl[d] = SentinelSlot /\ slot'[d] = Raw
               /\ ~ IsSentinel(d) /\ slot'[d] # Raw => ctrl[d] = CtrlOf(slot'[d].key)
               /\ ~ IsSentinel(d) /\ slot'[d] = Raw => ctrl[d] = EmptySlot
    <3>1. CASE d = at
      <4>1. slot'[d] = e /\ slot'[d].key = call.key
        BY <2>1, <2>3, <3>1
      <4> QED
        BY <2>2, <2>3, <2>4, <3>1, <4>1
    <3>2. CASE d # at
      <4>1. slot'[d] = slot[d]
        BY <2>1, <3>2
      <4> QED
        BY <3>2, <4>1 DEF MirrorInv, CtrlMirrorsSlots, Constructing
    <3> QED
      BY <3>1, <3>2
  <2>6. CtrlMirrorsSlots'
    BY <2>1, <2>5 DEF CtrlMirrorsSlots, IsSentinel, Constructing, Allocated
  <2> QED
    BY <2>1, <2>6 DEF MirrorInv, AtFree, PendingLive, rehash
<1>5. CASE ConstructThrows
  BY <1>5 DEF ConstructThrows
<1> QED
  BY <1>1, <1>2, <1>3, <1>4, <1>5 DEF PlaceStep

(* Every step of a table of elements that do not throw. *)
LEMMA NextMirror ==
  ASSUME MayThrow = FALSE, TypeInv, ReachInv, MirrorInv, [Next]_vars
  PROVE  MirrorInv'
<1>1. CASE BeginKeyOp \/ BeginManagement
  <2>1. \E op, k, v, n : Begin(op, k, v, n)
    BY <1>1 DEF BeginKeyOp, BeginManagement
  <2>2. UNCHANGED <<table, rehash>> /\ pc = "idle" /\ pc' \in {"find", "manage"}
    BY <2>1 DEF Begin
  <2>3. PendingLive'
    BY <2>2 DEF MirrorInv, PendingLive, rehash
  <2> QED
    BY <2>2, <2>3, MirrorKept
<1>2. CASE Return
  <2>1. UNCHANGED <<table, rehash>> /\ pc = "done" /\ pc' = "idle"
    BY <1>2 DEF Return
  <2>2. PendingLive'
    BY <2>1 DEF MirrorInv, PendingLive, rehash
  <2> QED
    BY <2>1, <2>2, MirrorKept
<1>3. CASE UNCHANGED vars
  BY <1>3 DEF vars, table, rehash, MirrorInv, PendingLive, AtFree, CtrlMirrorsSlots, IsSentinel,
              Constructing, Allocated
<1> QED
  BY <1>1, <1>2, <1>3, ManageMirror, FindMirror, RehashMirror, PlaceMirror DEF Next, Step

(* The static groups mirror a table of no slots. *)
LEMMA InitMirror == Init => MirrorInv
<1> SUFFICES ASSUME Init PROVE MirrorInv
  OBVIOUS
<1>1. groupMask = 0 /\ slot = AllRaw(0) /\ ctrl = DefaultCtrl /\ pc = "idle" /\ pending = {}
  BY DEF Init
<1> QED
  BY <1>1 DEF MirrorInv, PendingLive, AtFree, CtrlMirrorsSlots, IsSentinel, Constructing,
              Allocated, DefaultCtrl, AllRaw

(***************************************************************************)
(* In a table whose elements are constructed without throwing, the control *)
(* bytes mirror the slots at every step, in the middle of a call too.      *)
(***************************************************************************)
THEOREM Mirror ==
  ASSUME MayThrow = FALSE
  PROVE  Spec => []CtrlMirrorsSlots
<1> DEFINE Inv == TypeInv /\ ReachInv /\ MirrorInv
<1>1. Init => Inv
  BY InitType, InitReach, InitMirror
<1>2. Inv /\ [Next]_vars => Inv'
  BY NextType, NextReach, NextMirror
<1>3. Inv => CtrlMirrorsSlots
  BY DEF MirrorInv
<1> QED
  BY <1>1, <1>2, <1>3, PTL DEF Spec

-----------------------------------------------------------------------------
(* Unique keys *)

(* The groups a search has left hold no element of its key. *)
SearchInv == pc = "find" /\ Allocated =>
    \A m \in 0..(probe.step - 1) : \A c \in Live(slot) :
        c[1] = Probe(Home(probe.key), m, groupMask) => slot[c].key # probe.key

(* From the end of its search to the construction, the key of an insertion *)
(* is in neither array, a rehash between the two included.                 *)
Inserting == \/ pc \in {"grow", "place", "construct"}
             \/ pc \in {"rehash", "transfer"} /\ call.op \in Insertions
NewKeyInv == Inserting =>
    /\ \A c \in Live(slot) : slot[c].key # call.key
    /\ \A c \in Live(oldSlot) : oldSlot[c].key # call.key

(* Old slots exist during a rehash only, and live in those still to move. *)
OldInv == /\ pc \notin {"rehash", "transfer"} => oldSlot = NoSlots
          /\ Live(oldSlot) = pending

KeysInv == UniqueKeys /\ SearchInv /\ NewKeyInv /\ OldInv

(* A group that a search has missed does not hold its key. *)
LEMMA MissedIsAbsent ==
  ASSUME TypeInv, MirrorInv, MissedGroup, NEW c \in Live(slot), c[1] = probe.index
  PROVE  slot[c].key # probe.key
<1> SUFFICES ASSUME slot[c].key = probe.key PROVE FALSE
  OBVIOUS
<1>1. c \in DOMAIN ctrl /\ slot[c] # Raw /\ pc = "find"
  BY DEF Live, TypeInv, TableOK, MissedGroup
<1>2. ctrl[c] = CtrlOf(probe.key)
  BY <1>1 DEF MirrorInv, CtrlMirrorsSlots
<1>3. c \in Matches
  BY <1>1, <1>2 DEF Matches
<1>4. \E e \in Read(slot, c) : e.key # probe.key
  BY <1>3 DEF MissedGroup
<1> QED
  BY <1>1, <1>4 DEF Read

(***************************************************************************)
(* A search that ends without a hit has been wherever its key could be:    *)
(* an element of that key is reachable, so the group it is in comes at or  *)
(* before the one at which the search ends.                                *)
(***************************************************************************)
LEMMA NotFoundIsAbsent ==
  ASSUME TypeInv, ReachInv, MirrorInv, SearchInv, MissedGroup, EndsSearch, NEW c \in Live(slot)
  PROVE  slot[c].key # probe.key
<1> SUFFICES ASSUME slot[c].key = probe.key PROVE FALSE
  OBVIOUS
<1>1. pc = "find" /\ c \in DOMAIN slot /\ slot[c] # Raw
  BY DEF MissedGroup, Live
<1>2. Allocated
  BY <1>1 DEF ReachInv, MemoryInv, AllRaw
<1> DEFINE k == probe.key
           n == probe.step
<1>3. n \in Nat /\ groupMask \in Nat /\ probe.index = Probe(Home(k), n, groupMask)
  BY <1>1, <1>2 DEF ReachInv, ProbeInv, OnSequence, TypeInv, TableOK, ControlOK
<1>4. PICK i \in 0..groupMask :
        /\ Probe(Home(k), i, groupMask) = c[1]
        /\ \A m \in 0..(i - 1) : OverflowBit(CtrlOf(k)) \in overflow[Probe(Home(k), m, groupMask)]
  BY DEF ReachInv, EveryElementReachable, Reachable
<1>5. CASE i < n
  <2>1. i \in 0..(n - 1)
    BY <1>3, <1>5
  <2> QED
    BY <1>1, <1>2, <1>4, <2>1 DEF SearchInv
<1>6. CASE i = n
  BY <1>3, <1>4, <1>6, MissedIsAbsent
<1>7. CASE i > n
  <2>1. n \in 0..(i - 1)
    BY <1>3, <1>7
  <2>2. OverflowBit(CtrlOf(k)) \in overflow[probe.index]
    BY <1>3, <1>4, <2>1
  <2>3. ~ HasNextBucket(n, groupMask)
    BY <2>2 DEF EndsSearch
  <2> QED
    BY <1>3, <1>4, <1>7, <2>3 DEF HasNextBucket
<1> QED
  BY <1>3, <1>4, <1>5, <1>6, <1>7

(* Steps that leave both arrays alone and neither search nor insert. *)
LEMMA KeysKept ==
  ASSUME KeysInv, UNCHANGED <<slot, oldSlot, pending, groupMask>>,
         pc \notin {"rehash", "transfer"}, pc' \notin {"rehash", "transfer"},
         pc' = "find" => probe'.step = 0,
         Inserting' => Inserting /\ call' = call
  PROVE  KeysInv'
<1>1. UniqueKeys' /\ OldInv' /\ NewKeyInv'
  BY DEF KeysInv, UniqueKeys, OldInv, NewKeyInv, Live
<1>2. SearchInv'
  BY DEF SearchInv
<1> QED
  BY <1>1, <1>2 DEF KeysInv

(* The start of a rehash: all elements are in the old array. *)
LEMMA RehashImplKeys ==
  ASSUME TypeInv, MirrorInv, KeysInv, NEW allowShrink, NEW n, NEW m,
         RehashImpl(allowShrink, n, m),
         (pc = "manage" /\ call.op \notin Insertions) \/ pc = "grow"
  PROVE  KeysInv'
<1>1. /\ call' = call
      /\ \/ CreateSlots(NewMask(n), m) /\ pc' = "rehash"
         \/ UNCHANGED <<table, rehash>> /\ pc' = "done"
  BY DEF RehashImpl, CreateSlots, Done, NewMask
<1>2. CASE CreateSlots(NewMask(n), m) /\ pc' = "rehash"
  <2>1. slot' = AllRaw(NewMask(n)) /\ oldSlot' = slot /\ pending' = UsedCells
    BY <1>2 DEF CreateSlots
  <2>2. Live(slot') = {} /\ Live(oldSlot') = Live(slot)
    BY <2>1 DEF Live, AllRaw
  <2>3. Live(slot) = UsedCells
    BY LiveIsUsed DEF MirrorInv
  <2>4. UniqueKeys'
    BY <2>1, <2>2 DEF KeysInv, UniqueKeys
  <2>5. NewKeyInv'
    BY <1>1, <1>2, <2>1, <2>2 DEF KeysInv, NewKeyInv, Inserting
  <2>6. SearchInv' /\ OldInv'
    BY <1>2, <2>1, <2>2, <2>3 DEF SearchInv, OldInv
  <2> QED
    BY <2>4, <2>5, <2>6 DEF KeysInv
<1>3. CASE UNCHANGED <<table, rehash>> /\ pc' = "done"
  BY <1>3, KeysKept DEF table, rehash, Inserting
<1> QED
  BY <1>1, <1>2, <1>3

(* A table that is emptied, no rehash being under way. *)
LEMMA EmptiedKeys ==
  ASSUME KeysInv, pc = "manage", slot' = AllRaw(groupMask'), pc' = "done", UNCHANGED rehash
  PROVE  KeysInv'
<1>1. oldSlot = NoSlots /\ oldSlot' = NoSlots /\ Live(slot') = {} /\ Live(oldSlot') = {} /\ pending' = pending
  BY DEF KeysInv, OldInv, rehash, Live, NoSlots, AllRaw
<1>2. UniqueKeys' /\ NewKeyInv' /\ SearchInv'
  BY <1>1 DEF UniqueKeys, NewKeyInv, Inserting, SearchInv
<1>3. OldInv'
  BY <1>1 DEF KeysInv, OldInv
<1> QED
  BY <1>2, <1>3 DEF KeysInv

(* destroy() is one way to empty it. *)
LEMMA DestroyKeys == ReachInv /\ KeysInv /\ pc = "manage" /\ Destroy => KeysInv'
<1> SUFFICES ASSUME ReachInv, KeysInv, pc = "manage", Destroy PROVE KeysInv'
  OBVIOUS
<1>1. slot' = AllRaw(groupMask') /\ pc' = "done" /\ UNCHANGED rehash
  BY DEF Destroy, Done, ReachInv, MemoryInv, Allocated
<1> QED
  BY <1>1, EmptiedKeys

(* Emptying the table. *)
LEMMA ManageKeys == TypeInv /\ ReachInv /\ MirrorInv /\ KeysInv /\ Manage => KeysInv'
<1> SUFFICES ASSUME TypeInv, ReachInv, MirrorInv, KeysInv, Manage PROVE KeysInv'
  OBVIOUS
<1>0. pc = "manage" /\ call.op \notin Insertions
  BY DEF Manage, Clear, Reserve, Rehash, ShrinkToFit, MaxLoadFactor, Insertions
<1>1. ASSUME slot' = AllRaw(groupMask'), pc' = "done", UNCHANGED rehash PROVE KeysInv'
  BY <1>0, <1>1, EmptiedKeys
<1>2. ASSUME Destroy PROVE KeysInv'
  BY <1>0, <1>2, DestroyKeys
<1>3. CASE Clear
  <2>1. slot' = AllRaw(groupMask') /\ pc' = "done" /\ UNCHANGED rehash
    BY <1>3 DEF Clear, ClearData, Done
  <2> QED
    BY <1>1, <2>1
<1>4. CASE Reserve \/ Rehash \/ ShrinkToFit
  <2>1. Destroy \/ \E allowShrink, n, m : RehashImpl(allowShrink, n, m)
    BY <1>4 DEF Reserve, Rehash, ShrinkToFit
  <2> QED
    BY <1>0, <1>2, <2>1, RehashImplKeys
<1>5. CASE MaxLoadFactor
  <2>1. \/ \E n, m : RehashImpl(FALSE, n, m)
        \/ Done("ok") /\ UNCHANGED <<table, rehash>>
    BY <1>5 DEF MaxLoadFactor
  <2>2. CASE Done("ok") /\ UNCHANGED <<table, rehash>>
    BY <1>0, <2>2, KeysKept DEF Done, table, rehash, Inserting
  <2> QED
    BY <1>0, <2>1, <2>2, RehashImplKeys
<1> QED
  BY <1>3, <1>4, <1>5 DEF Manage

(* A search, its end, and the assignment or the erasure that follows it. *)
LEMMA FindKeys == TypeInv /\ ReachInv /\ MirrorInv /\ KeysInv /\ FindStep => KeysInv'
<1> SUFFICES ASSUME TypeInv, ReachInv, MirrorInv, KeysInv, FindStep PROVE KeysInv'
  OBVIOUS
<1>1. pc = "find" /\ UNCHANGED <<oldSlot, pending>> /\ oldSlot = NoSlots /\ Live(oldSlot) = {}
  BY DEF FindStep, FindNext, NotFound, ReturnFound, KeepExisting, AssignExisting, EraseFound,
         MissedGroup, Hit, rehash, KeysInv, OldInv, Live, NoSlots
<1>2. CASE FindNext
  <2>1. /\ MissedGroup /\ probe' = NextBucket /\ pc' = pc /\ UNCHANGED <<slot, groupMask, call>>
    BY <1>2 DEF FindNext, table
  <2>2. probe'.key = probe.key /\ probe'.step = probe.step + 1 /\ probe.step \in Nat
    BY <2>1 DEF NextBucket, TypeInv, ControlOK
  <2>3. SearchInv'
    <3> SUFFICES ASSUME Allocated, NEW m \in 0..(probe.step + 1 - 1), NEW c \in Live(slot),
                        c[1] = Probe(Home(probe.key), m, groupMask)
                 PROVE  slot[c].key # probe.key
      BY <2>1, <2>2 DEF SearchInv, Home, Allocated, Live
    <3>1. CASE m = probe.step
      <4>1. c[1] = probe.index
        BY <1>1, <3>1 DEF ReachInv, ProbeInv, OnSequence
      <4> QED
        BY <2>1, <4>1, MissedIsAbsent
    <3>2. CASE m # probe.step
      <4>1. m \in 0..(probe.step - 1)
        BY <2>2, <3>2
      <4> QED
        BY <1>1, <4>1 DEF KeysInv, SearchInv
    <3> QED
      BY <3>1, <3>2
  <2>4. UniqueKeys' /\ OldInv' /\ NewKeyInv'
    BY <1>1, <2>1 DEF KeysInv, UniqueKeys, OldInv, NewKeyInv, Inserting, Live
  <2> QED
    BY <2>3, <2>4 DEF KeysInv
<1>3. CASE NotFound
  <2>1. /\ MissedGroup /\ EndsSearch /\ pc' \in {"grow", "done"} /\ UNCHANGED <<slot, call>>
        /\ probe.key = call.key
    BY <1>3 DEF NotFound, MissedGroup, Done, TypeInv, CallOK, KeyOps, table
  <2>2. \A c \in Live(slot) : slot[c].key # call.key
    BY <2>1, NotFoundIsAbsent DEF KeysInv
  <2>3. NewKeyInv'
    BY <1>1, <2>1, <2>2 DEF NewKeyInv, Live
  <2>4. UniqueKeys' /\ OldInv' /\ SearchInv'
    BY <1>1, <2>1 DEF KeysInv, UniqueKeys, OldInv, SearchInv, Live
  <2> QED
    BY <2>3, <2>4 DEF KeysInv
<1>4. CASE ReturnFound \/ KeepExisting
  <2>1. pc' = "done" /\ UNCHANGED slot
    BY <1>4 DEF ReturnFound, KeepExisting, Done, table
  <2> QED
    BY <1>1, <2>1 DEF KeysInv, UniqueKeys, OldInv, SearchInv, NewKeyInv, Inserting, Live
<1>5. ASSUME pc' = "done",
             \A c \in Live(slot') : c \in Live(slot) /\ slot'[c].key = slot[c].key
      PROVE  KeysInv'
  <2>1. UniqueKeys'
    BY <1>1, <1>5 DEF KeysInv, UniqueKeys, Live
  <2>2. OldInv' /\ SearchInv' /\ NewKeyInv'
    BY <1>1, <1>5 DEF KeysInv, OldInv, SearchInv, NewKeyInv, Inserting
  <2> QED
    BY <2>1, <2>2 DEF KeysInv
<1>6. CASE AssignExisting
  <2>1. PICK c \in DOMAIN slot : \E e \in Read(slot, c) :
          /\ Hit(c, e) /\ Done("exists")
          /\ slot' = [slot EXCEPT ![c] = [key |-> e.key, val |-> call.val]]
    BY <1>6 DEF AssignExisting
  <2>2. PICK e \in Read(slot, c) :
          /\ Hit(c, e) /\ Done("exists")
          /\ slot' = [slot EXCEPT ![c] = [key |-> e.key, val |-> call.val]]
    BY <2>1
  <2>3. slot[c] # Raw /\ e = slot[c]
    <3>1. c \in DOMAIN ctrl /\ ctrl[c] = CtrlOf(probe.key)
      BY <2>2 DEF Hit, Matches
    <3>2. ctrl[c] \notin {EmptySlot, SentinelSlot}
      BY <1>1, <3>1, ProbeKey
    <3>3. slot[c] # Raw
      BY <1>1, <3>1, <3>2, UsedIsLive DEF MirrorInv
    <3> QED
      BY <3>3 DEF Read
  <2>4. ASSUME NEW d \in Live(slot') PROVE d \in Live(slot) /\ slot'[d].key = slot[d].key
    <3>1. CASE d = c
      BY <2>2, <2>3, <3>1 DEF Live
    <3>2. CASE d # c
      BY <2>2, <3>2 DEF Live
    <3> QED
      BY <3>1, <3>2
  <2>5. pc' = "done"
    BY <2>2 DEF Done
  <2> QED
    BY <1>5, <2>4, <2>5
<1>7. CASE EraseFound
  <2>1. PICK c \in DOMAIN slot : Done("erased") /\ slot' = [slot EXCEPT ![c] = Raw]
    BY <1>7 DEF EraseFound
  <2>2. ASSUME NEW d \in Live(slot') PROVE d \in Live(slot) /\ slot'[d].key = slot[d].key
    BY <2>1 DEF Live
  <2>3. pc' = "done"
    BY <2>1 DEF Done
  <2> QED
    BY <1>5, <2>2, <2>3
<1> QED
  BY <1>2, <1>3, <1>4, <1>6, <1>7 DEF FindStep

(* Growing, and choosing the next element to move. *)
LEMMA RehashKeys == TypeInv /\ MirrorInv /\ KeysInv /\ RehashStep => KeysInv'
<1> SUFFICES ASSUME TypeInv, MirrorInv, KeysInv, RehashStep PROVE KeysInv'
  OBVIOUS
<1>1. CASE Grow
  <2>1. pc = "grow" /\ \E allowShrink, n, m : RehashImpl(allowShrink, n, m)
    BY <1>1 DEF Grow
  <2> QED
    BY <2>1, RehashImplKeys
<1>2. CASE NoGrow
  <2>1. pc = "grow" /\ pc' = "place" /\ UNCHANGED <<slot, oldSlot, pending, groupMask, call>>
    BY <1>2 DEF NoGrow, table, rehash
  <2> QED
    BY <2>1, KeysKept DEF Inserting
<1>3. CASE TransferNext
  <2>1. pc = "rehash" /\ pc' = "transfer" /\ UNCHANGED <<slot, oldSlot, pending, call>>
    BY <1>3 DEF TransferNext, table, rehash
  <2> QED
    BY <2>1 DEF KeysInv, UniqueKeys, OldInv, SearchInv, NewKeyInv, Inserting, Live
<1>4. CASE RehashDone
  <2>1. /\ pc = "rehash" /\ oldSlot' = NoSlots /\ pending = {} /\ pending' = {}
        /\ UNCHANGED <<slot, call>>
        /\ pc' = "done" \/ (pc' = "place" /\ call.op \in Insertions)
    BY <1>4 DEF RehashDone, Done, table
  <2>2. Live(oldSlot') = {}
    BY <2>1 DEF Live, NoSlots
  <2>3. UniqueKeys' /\ NewKeyInv'
    BY <2>1, <2>2 DEF KeysInv, UniqueKeys, NewKeyInv, Inserting, Live
  <2>4. SearchInv' /\ OldInv'
    BY <2>1, <2>2 DEF SearchInv, OldInv
  <2> QED
    BY <2>3, <2>4 DEF KeysInv
<1> QED
  BY <1>1, <1>2, <1>3, <1>4 DEF RehashStep

(* A cell that gets an element is one more cell with an element. *)
LEMMA LiveInsert ==
  ASSUME NEW slots, NEW c \in DOMAIN slots, NEW e, e # Raw, slots[c] = Raw
  PROVE  /\ Live([slots EXCEPT ![c] = e]) = Live(slots) \cup {c}
         /\ c \notin Live(slots)
         /\ \A d \in Live(slots) : [slots EXCEPT ![c] = e][d] = slots[d]
         /\ [slots EXCEPT ![c] = e][c] = e
BY DEF Live

(* A cell that loses its element is one less. *)
LEMMA LiveRemove ==
  ASSUME NEW slots, NEW c \in DOMAIN slots
  PROVE  /\ Live([slots EXCEPT ![c] = Raw]) = Live(slots) \ {c}
         /\ \A d \in Live(slots) \ {c} : [slots EXCEPT ![c] = Raw][d] = slots[d]
BY DEF Live

(* Placing an element. *)
LEMMA PlaceKeys ==
  ASSUME MayThrow = FALSE, TypeInv, MirrorInv, KeysInv, PlaceStep
  PROVE  KeysInv'
<1>1. CASE PlaceNext \/ PlaceNew
  <2>1. /\ pc \in {"place", "transfer"} /\ UNCHANGED <<slot, oldSlot, pending, call>>
        /\ pc' = pc \/ (pc = "place" /\ pc' = "construct")
    BY <1>1 DEF PlaceNext, PlaceNew, rehash
  <2> QED
    BY <2>1 DEF KeysInv, UniqueKeys, OldInv, SearchInv, NewKeyInv, Inserting, Live
<1>2. CASE PlaceMoved
  <2> DEFINE f == FirstEmpty
             p == NextPending
             e == oldSlot[p]
  <2>1. /\ pc = "transfer" /\ pc' = "rehash" /\ EmptyCells # {}
        /\ slot' = [slot EXCEPT ![f] = e]
        /\ oldSlot' = [oldSlot EXCEPT ![p] = Raw]
        /\ pending' = pending \ {p}
        /\ call' = call
    BY <1>2 DEF PlaceMoved
  <2>2. p \in pending /\ p \in DOMAIN oldSlot /\ e # Raw /\ p \in Live(oldSlot)
    BY <2>1, NextPendingExists DEF TypeInv, RehashOK, CallOK, MirrorInv, PendingLive, Live
  <2>3. f \in DOMAIN slot /\ slot[f] = Raw
    BY <2>1, FirstEmptyFree DEF MirrorInv
  <2> HIDE DEF f, p, e
  <2>4. /\ Live(slot') = Live(slot) \cup {f} /\ f \notin Live(slot)
        /\ \A d \in Live(slot) : slot'[d] = slot[d]
        /\ slot'[f] = e
    BY <2>1, <2>2, <2>3, LiveInsert
  <2>5. /\ Live(oldSlot') = Live(oldSlot) \ {p}
        /\ \A d \in Live(oldSlot') : oldSlot'[d] = oldSlot[d]
    BY <2>1, <2>2, LiveRemove
  <2>6. UniqueKeys'
    <3>1. ASSUME NEW c \in Live(slot'), NEW d \in Live(slot'), slot'[c].key = slot'[d].key
          PROVE  c = d
      BY <2>2, <2>4, <3>1 DEF KeysInv, UniqueKeys, e
    <3>2. ASSUME NEW c \in Live(oldSlot'), NEW d \in Live(oldSlot'), oldSlot'[c].key = oldSlot'[d].key
          PROVE  c = d
      BY <2>5, <3>2 DEF KeysInv, UniqueKeys
    <3>3. ASSUME NEW c \in Live(slot'), NEW d \in Live(oldSlot') PROVE slot'[c].key # oldSlot'[d].key
      BY <2>2, <2>4, <2>5 DEF KeysInv, UniqueKeys, e
    <3> QED
      BY <3>1, <3>2, <3>3 DEF UniqueKeys
  <2>7. NewKeyInv'
    BY <2>1, <2>2, <2>4, <2>5 DEF KeysInv, NewKeyInv, Inserting, e
  <2>8. SearchInv' /\ OldInv'
    BY <2>1, <2>5 DEF KeysInv, SearchInv, OldInv
  <2> QED
    BY <2>6, <2>7, <2>8 DEF KeysInv
<1>3. CASE Construct
  <2> DEFINE e == [key |-> call.key, val |-> call.val]
  <2>1. /\ pc = "construct" /\ pc' = "done" /\ slot' = [slot EXCEPT ![at] = e]
        /\ UNCHANGED <<oldSlot, pending, call>>
    BY <1>3 DEF Construct, Done, rehash
  <2>2. e # Raw /\ e.key = call.key
    BY <2>1, KeyAssumption DEF TypeInv, CallOK, KeyOps
  <2>3. at \in DOMAIN slot /\ slot[at] = Raw
    BY <2>1 DEF MirrorInv, AtFree, TypeInv, TableOK
  <2> HIDE DEF e
  <2>4. /\ Live(slot') = Live(slot) \cup {at}
        /\ \A d \in Live(slot) : slot'[d] = slot[d]
        /\ slot'[at] = e
    BY <2>1, <2>2, <2>3, LiveInsert
  <2>5. /\ \A c \in Live(slot) : slot[c].key # call.key
        /\ \A c \in Live(oldSlot) : oldSlot[c].key # call.key
    BY <2>1 DEF KeysInv, NewKeyInv, Inserting
  <2>6. UniqueKeys'
    <3>1. ASSUME NEW c \in Live(slot'), NEW d \in Live(slot'), slot'[c].key = slot'[d].key
          PROVE  c = d
      BY <2>2, <2>4, <2>5, <3>1 DEF KeysInv, UniqueKeys
    <3>2. ASSUME NEW c \in Live(slot'), NEW d \in Live(oldSlot) PROVE slot'[c].key # oldSlot[d].key
      BY <2>2, <2>4, <2>5 DEF KeysInv, UniqueKeys
    <3>3. oldSlot' = oldSlot /\ \A c, d \in Live(oldSlot) : oldSlot[c].key = oldSlot[d].key => c = d
      BY <2>1 DEF KeysInv, UniqueKeys
    <3>4. \A c, d \in Live(slot') : slot'[c].key = slot'[d].key => c = d
      BY <3>1
    <3>5. \A c \in Live(slot'), d \in Live(oldSlot) : slot'[c].key # oldSlot[d].key
      BY <3>2
    <3> QED
      BY <3>3, <3>4, <3>5 DEF UniqueKeys
  <2>7. NewKeyInv' /\ SearchInv' /\ OldInv'
    BY <2>1 DEF KeysInv, NewKeyInv, Inserting, SearchInv, OldInv
  <2> QED
    BY <2>6, <2>7 DEF KeysInv
<1>4. CASE ConstructThrows
  BY <1>4 DEF ConstructThrows
<1> QED
  BY <1>1, <1>2, <1>3, <1>4 DEF PlaceStep

(* Every step of a table of elements that do not throw. *)
LEMMA NextKeys ==
  ASSUME MayThrow = FALSE, TypeInv, ReachInv, MirrorInv, KeysInv, [Next]_vars
  PROVE  KeysInv'
<1>1. CASE BeginKeyOp \/ BeginManagement
  <2>1. \E op, k, v, n : Begin(op, k, v, n)
    BY <1>1 DEF BeginKeyOp, BeginManagement
  <2>2. /\ UNCHANGED <<table, rehash>> /\ pc = "idle" /\ pc' \in {"find", "manage"}
        /\ pc' = "find" => probe'.step = 0
    BY <2>1 DEF Begin, StartProbe
  <2> QED
    BY <2>2, KeysKept DEF table, rehash, Inserting
<1>2. CASE Return
  <2>1. UNCHANGED <<table, rehash>> /\ pc = "done" /\ pc' = "idle"
    BY <1>2 DEF Return
  <2> QED
    BY <2>1, KeysKept DEF table, rehash, Inserting
<1>3. CASE UNCHANGED vars
  BY <1>3 DEF vars, table, rehash, KeysInv, UniqueKeys, SearchInv, NewKeyInv, OldInv, Inserting,
              Live, Home, Allocated
<1> QED
  BY <1>1, <1>2, <1>3, ManageKeys, FindKeys, RehashKeys, PlaceKeys DEF Next, Step

(* A table without elements stores no key twice. *)
LEMMA InitKeys == Init => KeysInv
BY DEF Init, KeysInv, UniqueKeys, SearchInv, NewKeyInv, OldInv, Inserting, Live, NoSlots, AllRaw

(***************************************************************************)
(* No key is ever stored twice: an insertion only constructs an element    *)
(* after a search that has seen every group its key could be in, and no    *)
(* rehash in between copies or invents an element.                         *)
(***************************************************************************)
THEOREM NoDuplicates ==
  ASSUME MayThrow = FALSE
  PROVE  Spec => []UniqueKeys
<1> DEFINE Inv == TypeInv /\ ReachInv /\ MirrorInv /\ KeysInv
<1>1. Init => Inv
  BY InitType, InitReach, InitMirror, InitKeys
<1>2. Inv /\ [Next]_vars => Inv'
  BY NextType, NextReach, NextMirror, NextKeys
<1>3. Inv => UniqueKeys
  BY DEF KeysInv
<1> QED
  BY <1>1, <1>2, <1>3, PTL DEF Spec

-----------------------------------------------------------------------------
(* The size *)

SizeInv == SizeCountsElements /\ IsFiniteSet(pending)

(* A table has finitely many cells. *)
LEMMA LiveFinite ==
  ASSUME TypeInv
  PROVE  /\ IsFiniteSet(Live(slot)) /\ IsFiniteSet(UsedCells)
         /\ Cardinality(Live(slot)) \in Nat
<1>1. IsFiniteSet(Cells(groupMask))
  <2>1. groupMask \in Nat /\ GroupSize - 1 \in Int
    BY GroupAssumption DEF TypeInv, TableOK, GroupSize
  <2>2. IsFiniteSet(Groups(groupMask)) /\ IsFiniteSet(0..(GroupSize - 1))
    BY <2>1, FS_Interval DEF Groups
  <2> QED
    BY <2>2, FS_Product DEF Cells
<1>2. Live(slot) \subseteq Cells(groupMask) /\ UsedCells \subseteq Cells(groupMask)
  BY DEF Live, UsedCells, TypeInv, TableOK
<1> QED
  BY <1>1, <1>2, FS_Subset, FS_CardinalityType

(* Steps that leave the elements and the counters alone. *)
LEMMA SizeKept ==
  ASSUME SizeInv, UNCHANGED <<slot, slotSize, oldSize, pending>>,
         pc' \in {"rehash", "transfer"} => pc \in {"rehash", "transfer"}
  PROVE  SizeInv'
BY DEF SizeInv, SizeCountsElements, Live

(* A table with no element has size 0. *)
LEMMA SizeFresh ==
  ASSUME NEW mask, slot' = AllRaw(mask), slotSize' = 0, IsFiniteSet(pending)',
         pc' \in {"rehash", "transfer"} => oldSize' = Cardinality(pending')
                                           /\ Cardinality(pending') \in Nat
  PROVE  SizeInv'
<1>1. Live(slot') = {}
  BY DEF Live, AllRaw
<1>2. Cardinality({}) = 0
  BY FS_EmptySet
<1> QED
  BY <1>1, <1>2 DEF SizeInv, SizeCountsElements

(* The start of a rehash. *)
LEMMA RehashImplSize ==
  ASSUME TypeInv, MirrorInv, SizeInv, NEW allowShrink, NEW n, NEW m,
         RehashImpl(allowShrink, n, m), pc \in {"manage", "grow"}
  PROVE  SizeInv'
<1>1. \/ CreateSlots(NewMask(n), m) /\ pc' = "rehash"
      \/ UNCHANGED <<table, rehash>> /\ pc' = "done"
  BY DEF RehashImpl, CreateSlots, Done, NewMask
<1>2. CASE CreateSlots(NewMask(n), m) /\ pc' = "rehash"
  <2>1. slot' = AllRaw(NewMask(n)) /\ slotSize' = 0 /\ pending' = UsedCells /\ oldSize' = slotSize
    BY <1>2 DEF CreateSlots
  <2>2. UsedCells = Live(slot)
    BY LiveIsUsed DEF MirrorInv
  <2>3. slotSize = Cardinality(Live(slot))
    BY DEF SizeInv, SizeCountsElements
  <2> QED
    BY <2>1, <2>2, <2>3, LiveFinite, SizeFresh
<1>3. CASE UNCHANGED <<table, rehash>> /\ pc' = "done"
  BY <1>3, SizeKept DEF table, rehash
<1> QED
  BY <1>1, <1>2, <1>3

(* Emptying the table. *)
LEMMA ManageSize == TypeInv /\ ReachInv /\ MirrorInv /\ SizeInv /\ Manage => SizeInv'
<1> SUFFICES ASSUME TypeInv, ReachInv, MirrorInv, SizeInv, Manage PROVE SizeInv'
  OBVIOUS
<1>0. pc = "manage"
  BY DEF Manage, Clear, Reserve, Rehash, ShrinkToFit, MaxLoadFactor
<1>1. ASSUME Destroy \/ ClearData PROVE SizeInv'
  <2>1. slot' = AllRaw(groupMask') /\ slotSize' = 0 /\ pc' = "done" /\ UNCHANGED rehash
    BY <1>1 DEF Destroy, ClearData, Done, ReachInv, MemoryInv, Allocated
  <2>2. IsFiniteSet(pending)'
    BY <2>1 DEF SizeInv, rehash
  <2> QED
    BY <2>1, <2>2, SizeFresh
<1>2. CASE Clear
  BY <1>1, <1>2 DEF Clear
<1>3. CASE Reserve \/ Rehash \/ ShrinkToFit
  <2>1. Destroy \/ \E allowShrink, n, m : RehashImpl(allowShrink, n, m)
    BY <1>3 DEF Reserve, Rehash, ShrinkToFit
  <2> QED
    BY <1>0, <1>1, <2>1, RehashImplSize
<1>4. CASE MaxLoadFactor
  <2>1. \/ \E n, m : RehashImpl(FALSE, n, m)
        \/ Done("ok") /\ UNCHANGED <<table, rehash>>
    BY <1>4 DEF MaxLoadFactor
  <2>2. CASE Done("ok") /\ UNCHANGED <<table, rehash>>
    BY <2>2, SizeKept DEF Done, table, rehash
  <2> QED
    BY <1>0, <2>1, <2>2, RehashImplSize
<1> QED
  BY <1>2, <1>3, <1>4 DEF Manage

(* One element less, and never less than none. *)
LEMMA FindSize == TypeInv /\ ReachInv /\ MirrorInv /\ SizeInv /\ FindStep => SizeInv'
<1> SUFFICES ASSUME TypeInv, ReachInv, MirrorInv, SizeInv, FindStep PROVE SizeInv'
  OBVIOUS
<1>1. pc = "find" /\ UNCHANGED <<oldSize, pending>>
  BY DEF FindStep, FindNext, NotFound, ReturnFound, KeepExisting, AssignExisting, EraseFound,
         MissedGroup, Hit, rehash
<1>2. ASSUME NEW c, NEW e, Hit(c, e) PROVE c \in Live(slot)
  <2>1. c \in DOMAIN ctrl /\ ctrl[c] = CtrlOf(probe.key)
    BY <1>2 DEF Hit, Matches
  <2>2. ctrl[c] \notin {EmptySlot, SentinelSlot}
    BY <1>1, <2>1, ProbeKey
  <2> QED
    BY <1>1, <2>1, <2>2, UsedIsLive DEF MirrorInv, Live
<1>3. CASE FindNext \/ NotFound \/ ReturnFound \/ KeepExisting
  <2>1. UNCHANGED <<slot, slotSize>> /\ pc' \notin {"rehash", "transfer"}
    BY <1>1, <1>3 DEF FindNext, NotFound, ReturnFound, KeepExisting, Done, table,
                      TypeInv, CallOK, KeyOps
  <2> QED
    BY <1>1, <2>1, SizeKept
<1>4. CASE AssignExisting
  <2>1. PICK c \in DOMAIN slot : \E e \in Read(slot, c) :
          /\ Hit(c, e) /\ Done("exists") /\ slotSize' = slotSize
          /\ slot' = [slot EXCEPT ![c] = [key |-> e.key, val |-> call.val]]
          /\ call.op \in Insertions
    BY <1>4 DEF AssignExisting, Insertions
  <2>2. PICK e \in Read(slot, c) :
          /\ Hit(c, e) /\ Done("exists") /\ slotSize' = slotSize
          /\ slot' = [slot EXCEPT ![c] = [key |-> e.key, val |-> call.val]]
          /\ call.op \in Insertions
    BY <2>1
  <2>3. c \in Live(slot) /\ [key |-> e.key, val |-> call.val] # Raw
    BY <1>2, <2>2, HitAllocated, KeyAssumption DEF TypeInv, CallOK
  <2>4. Live(slot') = Live(slot)
    BY <2>2, <2>3 DEF Live
  <2>5. pc' = "done"
    BY <2>2 DEF Done
  <2> QED
    BY <1>1, <2>2, <2>4, <2>5 DEF SizeInv, SizeCountsElements
<1>5. CASE EraseFound
  <2>1. PICK c \in DOMAIN slot : \E e \in Read(slot, c) :
          /\ Hit(c, e) /\ Done("erased") /\ slot' = [slot EXCEPT ![c] = Raw]
          /\ slotSize' = Decrement(slotSize)
    BY <1>5 DEF EraseFound
  <2>2. c \in Live(slot) /\ Live(slot') = Live(slot) \ {c}
    BY <1>2, <2>1, LiveRemove
  <2>3. Cardinality(Live(slot')) = slotSize - 1 /\ Cardinality(Live(slot')) \in Nat /\ slotSize \in Nat
    <3>1. IsFiniteSet(Live(slot)) /\ slotSize = Cardinality(Live(slot)) /\ slotSize \in Nat
      BY LiveFinite DEF SizeInv, SizeCountsElements
    <3> DEFINE S == Live(slot)
    <3> HIDE DEF S
    <3>2. IsFiniteSet(S \ {c}) /\ Cardinality(S \ {c}) = Cardinality(S) - 1
      BY <2>2, <3>1, FS_RemoveElement DEF S
    <3>3. Cardinality(S \ {c}) \in Nat
      BY <3>2, FS_CardinalityType
    <3> QED
      BY <2>2, <3>1, <3>2, <3>3 DEF S
  <2>4. slotSize' = slotSize - 1
    BY <2>1, <2>3 DEF Decrement
  <2>5. pc' = "done"
    BY <2>1 DEF Done
  <2> QED
    BY <1>1, <2>3, <2>4, <2>5 DEF SizeInv, SizeCountsElements
<1> QED
  BY <1>3, <1>4, <1>5 DEF FindStep

(* Growing, and choosing the next element to move. *)
LEMMA RehashSize == TypeInv /\ MirrorInv /\ SizeInv /\ RehashStep => SizeInv'
<1> SUFFICES ASSUME TypeInv, MirrorInv, SizeInv, RehashStep PROVE SizeInv'
  OBVIOUS
<1>1. CASE Grow
  <2>1. pc = "grow" /\ \E allowShrink, n, m : RehashImpl(allowShrink, n, m)
    BY <1>1 DEF Grow
  <2> QED
    BY <2>1, RehashImplSize
<1>2. CASE NoGrow \/ TransferNext
  <2>1. /\ UNCHANGED <<slot, slotSize, oldSize, pending>>
        /\ pc' = "place" \/ (pc = "rehash" /\ pc' = "transfer")
    BY <1>2 DEF NoGrow, TransferNext, table, rehash
  <2> QED
    BY <2>1, SizeKept
<1>3. CASE RehashDone
  <2>1. UNCHANGED <<slot, slotSize, pending>> /\ pc' \in {"place", "done"}
    BY <1>3 DEF RehashDone, Done, table
  <2> QED
    BY <2>1 DEF SizeInv, SizeCountsElements, Live
<1> QED
  BY <1>1, <1>2, <1>3 DEF RehashStep

(* One element more, and during a rehash one less to move. *)
LEMMA PlaceSize ==
  ASSUME MayThrow = FALSE, TypeInv, MirrorInv, SizeInv, PlaceStep
  PROVE  SizeInv'
<1>0. /\ slotSize = Cardinality(Live(slot)) /\ slotSize \in Nat /\ IsFiniteSet(Live(slot))
      /\ IsFiniteSet(pending)
  BY LiveFinite DEF SizeInv, SizeCountsElements, TypeInv, TableOK
<1>1. ASSUME NEW c \in DOMAIN slot, NEW e, e # Raw, slot[c] = Raw, slot' = [slot EXCEPT ![c] = e]
      PROVE  Cardinality(Live(slot')) = slotSize + 1
  <2>1. Live(slot') = Live(slot) \cup {c} /\ c \notin Live(slot)
    BY <1>1, LiveInsert
  <2> DEFINE S == Live(slot)
  <2> HIDE DEF S
  <2>2. Cardinality(S \cup {c}) = Cardinality(S) + 1
    BY <1>0, <2>1, FS_AddElement DEF S
  <2> QED
    BY <1>0, <2>1, <2>2 DEF S
<1>2. CASE PlaceNext \/ PlaceNew
  <2>1. /\ UNCHANGED <<slot, slotSize, oldSize, pending>> /\ (pc' = pc \/ pc' = "construct")
    BY <1>2 DEF PlaceNext, PlaceNew, rehash
  <2> QED
    BY <2>1, SizeKept
<1>3. CASE PlaceMoved
  <2>1. /\ pc = "transfer" /\ EmptyCells # {} /\ slotSize' = slotSize + 1
        /\ slot' = [slot EXCEPT ![FirstEmpty] = oldSlot[NextPending]]
        /\ pending' = pending \ {NextPending} /\ oldSize' = oldSize
    BY <1>3 DEF PlaceMoved
  <2>2. NextPending \in pending /\ oldSlot[NextPending] # Raw
    BY <2>1, NextPendingExists DEF TypeInv, RehashOK, CallOK, MirrorInv, PendingLive
  <2>3. FirstEmpty \in DOMAIN slot /\ slot[FirstEmpty] = Raw
    BY <2>1, FirstEmptyFree DEF MirrorInv
  <2>4. Cardinality(Live(slot')) = slotSize'
    BY <1>1, <2>1, <2>2, <2>3
  <2>5. oldSize = slotSize + Cardinality(pending)
    BY <2>1 DEF SizeInv, SizeCountsElements
  <2>6. /\ IsFiniteSet(pending') /\ Cardinality(pending') = Cardinality(pending) - 1
        /\ Cardinality(pending') \in Nat /\ Cardinality(pending) \in Nat
    <3> DEFINE p == NextPending
    <3> HIDE DEF p
    <3>1. IsFiniteSet(pending \ {p}) /\ Cardinality(pending \ {p}) = Cardinality(pending) - 1
      BY <1>0, <2>2, FS_RemoveElement DEF p
    <3> QED
      BY <1>0, <2>1, <3>1, FS_CardinalityType DEF p
  <2>7. oldSize' = slotSize' + Cardinality(pending')
    BY <1>0, <2>1, <2>5, <2>6
  <2> QED
    BY <2>4, <2>6, <2>7 DEF SizeInv, SizeCountsElements
<1>4. CASE Construct
  <2>1. /\ pc = "construct" /\ pc' = "done" /\ slotSize' = slotSize + 1
        /\ slot' = [slot EXCEPT ![at] = [key |-> call.key, val |-> call.val]]
        /\ UNCHANGED <<oldSize, pending>>
    BY <1>4 DEF Construct, Done, rehash
  <2>2. [key |-> call.key, val |-> call.val] # Raw
    BY <2>1, KeyAssumption DEF TypeInv, CallOK, KeyOps
  <2>3. at \in DOMAIN slot /\ slot[at] = Raw
    BY <2>1 DEF MirrorInv, AtFree, TypeInv, TableOK
  <2>4. Cardinality(Live(slot')) = slotSize'
    BY <1>1, <2>1, <2>2, <2>3
  <2> QED
    BY <1>0, <2>1, <2>4 DEF SizeInv, SizeCountsElements
<1>5. CASE ConstructThrows
  BY <1>5 DEF ConstructThrows
<1> QED
  BY <1>2, <1>3, <1>4, <1>5 DEF PlaceStep

(* Every step of a table of elements that do not throw. *)
LEMMA NextSize ==
  ASSUME MayThrow = FALSE, TypeInv, ReachInv, MirrorInv, SizeInv, [Next]_vars
  PROVE  SizeInv'
<1>1. CASE BeginKeyOp \/ BeginManagement \/ Return
  <2>1. Return \/ \E op, k, v, n : Begin(op, k, v, n)
    BY <1>1 DEF BeginKeyOp, BeginManagement
  <2>2. UNCHANGED <<table, rehash>> /\ pc' \in {"find", "manage", "idle"}
    BY <2>1 DEF Begin, Return
  <2> QED
    BY <2>2, SizeKept DEF table, rehash
<1>2. CASE UNCHANGED vars
  BY <1>2, SizeKept DEF vars, table, rehash
<1> QED
  BY <1>1, <1>2, ManageSize, FindSize, RehashSize, PlaceSize DEF Next, Step

(* An empty table has size 0. *)
LEMMA InitSize == Init => SizeInv
<1> SUFFICES ASSUME Init PROVE SizeInv
  OBVIOUS
<1>1. Live(slot) = {} /\ slotSize = 0 /\ pending = {} /\ pc = "idle"
  BY DEF Init, Live, AllRaw
<1> QED
  BY <1>1, FS_EmptySet DEF SizeInv, SizeCountsElements

(***************************************************************************)
(* slot_size_ counts the elements, so erasing never takes it below zero,   *)
(* and a rehash moves exactly as many elements as there were.              *)
(***************************************************************************)
THEOREM SizeIsRight ==
  ASSUME MayThrow = FALSE
  PROVE  Spec => []SizeCountsElements
<1> DEFINE Inv == TypeInv /\ ReachInv /\ MirrorInv /\ SizeInv
<1>1. Init => Inv
  BY InitType, InitReach, InitMirror, InitSize
<1>2. Inv /\ [Next]_vars => Inv'
  BY NextType, NextReach, NextMirror, NextSize
<1>3. Inv => SizeCountsElements
  BY DEF SizeInv
<1> QED
  BY <1>1, <1>2, <1>3, PTL DEF Spec


-----------------------------------------------------------------------------
(* The mapping of a set of elements *)

ContentsOf(E) == [k \in Key |-> IF \E e \in E : e.key = k
                                THEN (CHOOSE e \in E : e.key = k).val
                                ELSE Absent]

KeyedOnce(E) == E \subseteq Element /\ \A e, f \in E : e.key = f.key => e = f

(* An element gives its key its value. *)
LEMMA Lookup ==
  ASSUME NEW E, KeyedOnce(E), NEW e \in E
  PROVE  /\ e.key \in Key /\ e.val \in Value /\ e.val # Absent
         /\ ContentsOf(E)[e.key] = e.val
<1>1. e.key \in Key /\ e.val \in Value
  BY DEF KeyedOnce, Element
<1>2. (CHOOSE f \in E : f.key = e.key) = e
  BY DEF KeyedOnce
<1> QED
  BY <1>1, <1>2, KeyAssumption DEF ContentsOf

(* A key without an element is absent. *)
LEMMA LookupAbsent ==
  ASSUME NEW E, NEW k \in Key, \A e \in E : e.key # k
  PROVE  ContentsOf(E)[k] = Absent
BY DEF ContentsOf

(* Adding the element of a new key. *)
LEMMA LookupAdd ==
  ASSUME NEW E, KeyedOnce(E), NEW e \in Element, \A f \in E : f.key # e.key
  PROVE  /\ KeyedOnce(E \cup {e})
         /\ ContentsOf(E \cup {e}) = [ContentsOf(E) EXCEPT ![e.key] = e.val]
<1> DEFINE F == E \cup {e}
<1>1. KeyedOnce(F)
  BY DEF KeyedOnce
<1>2. e.key \in Key /\ e \in F
  BY DEF Element
<1> HIDE DEF F
<1>3. ASSUME NEW k \in Key
      PROVE  ContentsOf(F)[k] = IF k = e.key THEN e.val ELSE ContentsOf(E)[k]
  <2>1. CASE k = e.key
    BY <1>1, <1>2, <2>1, Lookup
  <2>2. CASE k # e.key /\ \E f \in E : f.key = k
    <3>1. PICK f \in E : f.key = k
      BY <2>2
    <3>2. f \in F
      BY DEF F
    <3>3. ContentsOf(F)[k] = f.val /\ ContentsOf(E)[k] = f.val
      BY <1>1, <3>1, <3>2, Lookup
    <3> QED
      BY <2>2, <3>3
  <2>3. CASE k # e.key /\ \A f \in E : f.key # k
    <3>1. \A f \in F : f.key # k
      BY <2>3 DEF F
    <3> QED
      BY <2>3, <3>1, LookupAbsent
  <2> QED
    BY <2>1, <2>2, <2>3
<1>4. ContentsOf(F) = [k \in Key |-> ContentsOf(F)[k]]
  BY DEF ContentsOf
<1>5. ContentsOf(E) = [k \in Key |-> ContentsOf(E)[k]]
  BY DEF ContentsOf
<1>6. ContentsOf(F) = [ContentsOf(E) EXCEPT ![e.key] = e.val]
  BY <1>2, <1>3, <1>4, <1>5
<1> QED
  BY <1>1, <1>6 DEF F

(* Removing an element. *)
LEMMA LookupRemove ==
  ASSUME NEW E, KeyedOnce(E), NEW e \in E
  PROVE  /\ KeyedOnce(E \ {e})
         /\ \A f \in E \ {e} : f.key # e.key
         /\ ContentsOf(E \ {e}) = [ContentsOf(E) EXCEPT ![e.key] = Absent]
<1> DEFINE F == E \ {e}
<1>1. KeyedOnce(F) /\ e.key \in Key /\ \A f \in F : f.key # e.key
  BY DEF KeyedOnce, Element
<1> HIDE DEF F
<1>2. ASSUME NEW k \in Key
      PROVE  ContentsOf(F)[k] = IF k = e.key THEN Absent ELSE ContentsOf(E)[k]
  <2>1. CASE k = e.key
    BY <1>1, <2>1, LookupAbsent
  <2>2. CASE k # e.key /\ \E f \in E : f.key = k
    <3>1. PICK f \in E : f.key = k
      BY <2>2
    <3>2. f \in F
      BY <2>2, <3>1 DEF F
    <3>3. ContentsOf(F)[k] = f.val /\ ContentsOf(E)[k] = f.val
      BY <1>1, <3>1, <3>2, Lookup
    <3> QED
      BY <2>2, <3>3
  <2>3. CASE k # e.key /\ \A f \in E : f.key # k
    <3>1. \A f \in F : f.key # k
      BY <2>3 DEF F
    <3> QED
      BY <2>3, <3>1, LookupAbsent
  <2> QED
    BY <2>1, <2>2, <2>3
<1>3. ContentsOf(F) = [k \in Key |-> ContentsOf(F)[k]]
  BY DEF ContentsOf
<1>4. ContentsOf(E) = [k \in Key |-> ContentsOf(E)[k]]
  BY DEF ContentsOf
<1>5. ContentsOf(F) = [ContentsOf(E) EXCEPT ![e.key] = Absent]
  BY <1>1, <1>2, <1>3, <1>4
<1> QED
  BY <1>1, <1>5 DEF F

(* Replacing an element by one of its key. *)
LEMMA LookupReplace ==
  ASSUME NEW E, KeyedOnce(E), NEW e \in E, NEW f \in Element, f.key = e.key
  PROVE  ContentsOf((E \ {e}) \cup {f}) = [ContentsOf(E) EXCEPT ![e.key] = f.val]
<1> DEFINE F == E \ {e}
<1>1. KeyedOnce(F) /\ (\A g \in F : g.key # f.key)
      /\ ContentsOf(F) = [ContentsOf(E) EXCEPT ![e.key] = Absent]
  BY LookupRemove
<1> HIDE DEF F
<1>2. ContentsOf(F \cup {f}) = [ContentsOf(F) EXCEPT ![f.key] = f.val]
  BY <1>1, LookupAdd
<1>3. ContentsOf(F \cup {f}) = [ContentsOf(E) EXCEPT ![e.key] = f.val]
  BY <1>1, <1>2
<1> QED
  BY <1>3 DEF F

-----------------------------------------------------------------------------
(* The elements of the table *)

(* Each key has one element, so choosing one is no choice. *)
LEMMA ElementsKeyed ==
  ASSUME TypeInv, KeysInv
  PROVE  /\ KeyedOnce(Elements) /\ Contents = ContentsOf(Elements)
<1>1. Elements \subseteq Element
  BY DEF Elements, Live, TypeInv, TableOK, RehashOK
<1>2. ASSUME NEW e \in Elements, NEW f \in Elements, e.key = f.key PROVE e = f
  BY <1>2 DEF Elements, KeysInv, UniqueKeys
<1> QED
  BY <1>1, <1>2 DEF KeyedOnce, Contents, ContentsOf

(* The mapping after a step is that of the elements after it. *)
LEMMA ContentsPrime == Contents' = ContentsOf(Elements')
BY DEF Contents, ContentsOf

(* Without a rehash the elements are those of the table. *)
LEMMA ElementsOfSlots ==
  ASSUME KeysInv, pc \notin {"rehash", "transfer"}
  PROVE  Elements = {slot[c] : c \in Live(slot)} /\ Live(oldSlot) = {}
BY DEF KeysInv, OldInv, Elements, Live, NoSlots

-----------------------------------------------------------------------------
(* Calls and results *)

MovingOps == Insertions \cup {"reserve", "rehash", "shrink_to_fit", "max_load_factor"}

(* There is a result when a call has returned, and a call that manages the *)
(* memory has no key.                                                      *)
ResultInv ==
    /\ pc # "done" => ret = NoResult
    /\ call.op \notin KeyOps => call.key = Absent
    /\ pc \in {"rehash", "transfer"} => call.op \in MovingOps

(* A new table is in no call. *)
LEMMA InitResult == Init => ResultInv
BY DEF Init, ResultInv, NoCall

(* A step of a call gives a result only by ending it. *)
LEMMA NextResult == TypeInv /\ ResultInv /\ [Next]_vars => ResultInv'
<1> SUFFICES ASSUME TypeInv, ResultInv, [Next]_vars PROVE ResultInv'
  OBVIOUS
<1> USE DEF ResultInv
<1>1. ASSUME NEW op, NEW k, NEW v, NEW n, Begin(op, k, v, n), op \notin KeyOps => k = Absent
      PROVE  ResultInv'
  BY <1>1 DEF Begin
<1>2. CASE BeginKeyOp
  <2>1. \E op \in KeyOps : \E k, v, n : Begin(op, k, v, n)
    BY <1>2 DEF BeginKeyOp, KeyOps
  <2> QED
    BY <1>1, <2>1
<1>3. CASE BeginManagement
  BY <1>1, <1>3 DEF BeginManagement
<1>4. ASSUME UNCHANGED call, pc' \notin {"rehash", "transfer"}, pc' = "done" \/ UNCHANGED ret,
             pc # "done"
      PROVE  ResultInv'
  BY <1>4
<1>5. ASSUME NEW allowShrink, NEW n, NEW m, RehashImpl(allowShrink, n, m),
             call.op \in MovingOps, pc # "done"
      PROVE  ResultInv'
  BY <1>5 DEF RehashImpl, CreateSlots, Done
<1>6. CASE Manage
  <2>1. pc = "manage" /\ call' = call
    BY <1>6 DEF Manage, Clear, ClearData, Reserve, Rehash, ShrinkToFit, MaxLoadFactor, Destroy, RehashImpl
  <2>2. ASSUME pc' = "done" PROVE ResultInv'
    BY <2>1, <2>2, <1>4
  <2>3. CASE Clear
    BY <2>2, <2>3 DEF Clear, ClearData, Done
  <2>4. CASE Reserve \/ Rehash \/ ShrinkToFit \/ MaxLoadFactor
    <3>1. /\ call.op \in MovingOps
          /\ \/ \E allowShrink, n, m : RehashImpl(allowShrink, n, m)
             \/ Destroy \/ Done("ok")
      BY <2>4 DEF Reserve, Rehash, ShrinkToFit, MaxLoadFactor, MovingOps
    <3> QED
      BY <1>5, <2>1, <2>2, <3>1 DEF Destroy, Done
  <2> QED
    BY <1>6, <2>3, <2>4 DEF Manage
<1>7. CASE FindStep
  <2>1. pc = "find" /\ call' = call
    BY <1>7 DEF FindStep, FindNext, NotFound, ReturnFound, KeepExisting, AssignExisting, EraseFound,
                MissedGroup, Hit
  <2>2. (pc' \in {"find", "grow"} /\ UNCHANGED ret) \/ pc' = "done"
    BY <1>7, <2>1 DEF FindStep, FindNext, NotFound, ReturnFound, KeepExisting, AssignExisting, EraseFound,
                Done, TypeInv, CallOK, KeyOps
  <2> QED
    BY <1>4, <2>1, <2>2
<1>8. CASE Grow
  <2>1. pc = "grow" /\ call.op \in MovingOps
    BY <1>8 DEF Grow, TypeInv, CallOK, MovingOps
  <2> QED
    BY <1>5, <1>8, <2>1 DEF Grow
<1>9. CASE NoGrow \/ RehashDone
  BY <1>4, <1>9 DEF NoGrow, RehashDone, Done
<1>10. CASE TransferNext \/ PlaceNext \/ PlaceMoved
  BY <1>10 DEF TransferNext, PlaceNext, PlaceMoved
<1>11. CASE PlaceNew \/ Construct \/ ConstructThrows
  BY <1>4, <1>11 DEF PlaceNew, Construct, ConstructThrows, Done
<1>12. CASE Return
  BY <1>12 DEF Return, NoCall
<1>13. CASE UNCHANGED vars
  BY <1>13 DEF vars
<1> QED
  BY <1>2, <1>3, <1>6, <1>7, <1>8, <1>9, <1>10, <1>11, <1>12, <1>13
     DEF Next, Step, RehashStep, PlaceStep

-----------------------------------------------------------------------------
(* The refinement *)

MapInv == TypeInv /\ ReachInv /\ MirrorInv /\ KeysInv /\ SizeInv /\ ResultInv

AbstractStep == [Map!Next]_Map!mapVars

(* A step that touches neither the elements nor the result. *)
LEMMA Silent ==
  ASSUME Elements' = Elements, ret' = ret
  PROVE  AbstractStep
<1>1. Contents' = Contents
  BY ContentsPrime DEF Contents, ContentsOf
<1> QED
  BY <1>1 DEF AbstractStep, Map!mapVars

(* A step that takes the effect of an operation. *)
LEMMA Effective ==
  ASSUME ret = NoResult, Map!Operation
  PROVE  AbstractStep
BY DEF AbstractStep, Map!Next, Map!NoResult, NoResult

(* A capacity is at least what was asked for, so growing always makes a new *)
(* table.                                                                   *)
LEMMA CapacityAtLeast ==
  ASSUME NEW n \in Nat, slotSize \in Nat
  PROVE  CalcCapacity(n) >= n /\ CalcCapacity(n) \in Nat
<1> DEFINE w == AtLeast(AtLeast(n, MinCapacity), slotSize)
<1>1. MinCapacity \in Nat /\ MinCapacity >= 1
  BY GroupAssumption
<1>2. w \in Nat /\ w >= 1 /\ w >= n
  BY <1>1 DEF AtLeast
<1>3. RoundUpPow2(w) >= w /\ RoundUpPow2(w) \in Nat
  <2> HIDE DEF w
  <2> QED
    BY <1>2, RoundUp
<1>4. CalcCapacity(n) = RoundUpPow2(w)
  BY DEF CalcCapacity
<1> HIDE DEF w
<1> QED
  BY <1>2, <1>3, <1>4

(***************************************************************************)
(* rehash_impl(): the elements change arrays and nothing else, or the call *)
(* returns or throws.                                                      *)
(***************************************************************************)
LEMMA RehashImplMaps ==
  ASSUME MapInv, NEW allowShrink, NEW n, NEW m, RehashImpl(allowShrink, n, m),
         \/ pc = "manage" /\ call.op \in Map!Managements
         \/ /\ pc = "grow" /\ call.op \in Insertions /\ call.key \in Key
            /\ ret' # [op |-> call.op, key |-> call.key, res |-> "ok"]
  PROVE  AbstractStep
<1>1. \/ CreateSlots(NewMask(n), m)
      \/ (Done("throws") \/ Done("ok")) /\ UNCHANGED <<table, rehash>>
  BY DEF RehashImpl, NewMask
<1>2. CASE CreateSlots(NewMask(n), m)
  <2>1. slot' = AllRaw(NewMask(n)) /\ oldSlot' = slot /\ ret' = ret
    BY <1>2 DEF CreateSlots
  <2>2. Live(slot') = {} /\ Live(oldSlot) = {}
    BY <2>1, ElementsOfSlots DEF Live, AllRaw, MapInv
  <2>3. Elements' = Elements
    BY <2>1, <2>2 DEF Elements
  <2> QED
    BY <2>1, <2>3, Silent
<1>3. CASE (Done("throws") \/ Done("ok")) /\ UNCHANGED <<table, rehash>>
  <2>1. Elements' = Elements
    BY <1>3 DEF Elements, table, rehash, Live
  <2>2. Contents' = Contents
    BY <2>1, ContentsPrime DEF Contents, ContentsOf
  <2>3. ret = NoResult
    BY DEF MapInv, ResultInv
  <2>4. CASE pc = "manage" /\ call.op \in Map!Managements
    <3>1. call.key = Absent
      BY <2>4 DEF MapInv, ResultInv, Map!Managements, KeyOps, Insertions
    <3>2. CASE Done("throws")
      BY <2>2, <2>3, <2>4, <3>1, <3>2, Effective DEF Done, Map!Operation, Map!Throw, Map!Result
    <3>3. CASE Done("ok")
      BY <2>2, <2>3, <2>4, <3>1, <3>3, Effective DEF Done, Map!Operation, Map!Resize, Map!Result
    <3> QED
      BY <1>3, <3>2, <3>3
  <2>5. CASE pc = "grow" /\ call.op \in Insertions /\ call.key \in Key /\ Done("throws")
    <3>1. Map!Throw(call.op, call.key)
      BY <2>2, <2>5 DEF Done, Map!Throw, Map!Result
    <3>2. Map!Operation
      BY <2>5, <3>1 DEF Map!Operation, Map!Insertions, Insertions
    <3> QED
      BY <2>3, <3>2, Effective
  <2> QED
    BY <1>3, <2>4, <2>5 DEF Done
<1> QED
  BY <1>1, <1>2, <1>3

(* Emptying a table empties the mapping. *)
LEMMA EmptyMaps ==
  ASSUME MapInv, pc = "manage", slot' = AllRaw(groupMask'), UNCHANGED rehash
  PROVE  Contents' = [k \in Key |-> Absent]
<1>1. Live(slot') = {} /\ Live(oldSlot') = {}
  BY ElementsOfSlots DEF Live, AllRaw, MapInv, rehash
<1>2. Elements' = {}
  BY <1>1 DEF Elements
<1> QED
  BY <1>2, ContentsPrime DEF ContentsOf

(* A table of size 0 has the empty mapping. *)
LEMMA NoneMaps ==
  ASSUME MapInv, pc = "manage", slotSize = 0
  PROVE  Contents = [k \in Key |-> Absent]
<1>1. Live(slot) = {}
  BY LiveFinite, FS_EmptySet DEF MapInv, SizeInv, SizeCountsElements
<1>2. Elements = {}
  BY <1>1, ElementsOfSlots DEF MapInv
<1> QED
  BY <1>2 DEF Contents

(* Room for no elements is what a table of no elements asks for. *)
LEMMA FitZero ==
  ASSUME NEW n \in Nat, NEW m \in LoadFactors, ShrinkToFitCapacity(n, m) = 0
  PROVE  n = 0
<1>1. m \in Nat \ {0} /\ m <= 256
  BY LoadFactorRange, LoadFactorAssumption DEF LoadFactorAmplify
<1> DEFINE a == n * 256
<1>2. a \in Nat /\ a \div m = 0
  BY DEF ShrinkToFitCapacity, LoadFactorAmplify
<1>3. a % m \in 0..(m - 1) /\ a = (m * (a \div m)) + (a % m)
  <2> HIDE DEF a
  <2> QED
    BY <1>1, <1>2, DivMod
<1>4. a < m
  <2> HIDE DEF a
  <2> QED
    BY <1>1, <1>2, <1>3
<1> QED
  BY <1>1, <1>4

(* The calls that manage the memory. *)
LEMMA ManageMaps == MapInv /\ Manage => AbstractStep
<1> SUFFICES ASSUME MapInv, Manage PROVE AbstractStep
  OBVIOUS
<1>0. /\ pc = "manage" /\ ret = NoResult /\ slotSize \in Nat /\ mlf \in LoadFactors /\ call.arg \in Nat
      /\ call.op \in {"clear"} \cup Map!Managements /\ call.key = Absent
  BY DEF Manage, Clear, Reserve, Rehash, ShrinkToFit, MaxLoadFactor, MapInv, ResultInv,
         TypeInv, TableOK, ControlOK, Map!Managements, KeyOps, Insertions
<1>1. ASSUME Destroy PROVE Contents' = [k \in Key |-> Absent]
  <2>1. slot' = AllRaw(groupMask') /\ UNCHANGED rehash
    BY <1>1 DEF Destroy, MapInv, ReachInv, MemoryInv, Allocated
  <2> QED
    BY <1>0, <2>1, EmptyMaps
<1>2. ASSUME NEW op \in {"clear", "reserve"}, call.op = op, Done("ok"), Contents' = [k \in Key |-> Absent]
      PROVE  AbstractStep
  <2>1. Map!Clear(op)
    BY <1>0, <1>2 DEF Done, Map!Clear, Map!Result
  <2>2. Map!Operation
    BY <2>1 DEF Map!Operation
  <2> QED
    BY <1>0, <2>2, Effective
<1>3. ASSUME call.op \in Map!Managements, Done("ok"), Contents' = Contents
      PROVE  AbstractStep
  <2>1. Map!Resize(call.op)
    BY <1>0, <1>3 DEF Done, Map!Resize, Map!Result
  <2>2. Map!Operation
    BY <1>3, <2>1 DEF Map!Operation
  <2> QED
    BY <1>0, <2>2, Effective
<1>4. CASE Clear
  <2>1. /\ call.op = "clear" /\ Done("ok")
        /\ slot' = AllRaw(groupMask') /\ UNCHANGED rehash
    BY <1>4 DEF Clear, ClearData
  <2>2. Contents' = [k \in Key |-> Absent]
    BY <1>0, <2>1, EmptyMaps
  <2> QED
    BY <1>2, <2>1, <2>2
<1>5. CASE Reserve
  <2>1. call.op = "reserve" /\ call.op \in Map!Managements
    BY <1>5 DEF Reserve, Map!Managements
  <2>2. Destroy \/ \E n, m : RehashImpl(FALSE, n, m)
    BY <1>5 DEF Reserve
  <2>3. CASE Destroy
    BY <1>1, <1>2, <2>1, <2>3 DEF Destroy
  <2> QED
    BY <1>0, <2>1, <2>2, <2>3, RehashImplMaps
<1>6. ASSUME Destroy, slotSize = 0, call.op \in Map!Managements PROVE AbstractStep
  BY <1>0, <1>1, <1>3, <1>6, NoneMaps DEF Destroy
<1>7. CASE Rehash
  <2>1. call.op = "rehash" /\ call.op \in Map!Managements
    BY <1>7 DEF Rehash, Map!Managements
  <2> DEFINE f == ShrinkToFitCapacity(slotSize, mlf)
  <2>2. f \in Nat
    BY <1>0, FitRange
  <2>3. \/ \E n, m : RehashImpl(FALSE, n, m)
        \/ Destroy /\ AtLeast(f, call.arg) = 0
    BY <1>7 DEF Rehash
  <2>4. AtLeast(f, call.arg) = 0 => f = 0
    <3> HIDE DEF f
    <3> QED
      BY <1>0, <2>2 DEF AtLeast
  <2>5. CASE Destroy /\ f = 0
    BY <1>0, <1>6, <2>1, <2>5, FitZero
  <2> QED
    BY <1>0, <2>1, <2>3, <2>4, <2>5, RehashImplMaps
<1>8. CASE ShrinkToFit
  <2>1. call.op = "shrink_to_fit" /\ call.op \in Map!Managements
    BY <1>8 DEF ShrinkToFit, Map!Managements
  <2>2. \/ \E n, m : RehashImpl(TRUE, n, m)
        \/ Destroy /\ (slotSize = 0 \/ ShrinkToFitCapacity(slotSize, mlf) = 0)
    BY <1>8 DEF ShrinkToFit
  <2>3. CASE Destroy /\ (slotSize = 0 \/ ShrinkToFitCapacity(slotSize, mlf) = 0)
    BY <1>0, <1>6, <2>1, <2>3, FitZero
  <2> QED
    BY <1>0, <2>1, <2>2, <2>3, RehashImplMaps
<1>9. CASE MaxLoadFactor
  <2>1. call.op \in Map!Managements
    BY <1>9 DEF MaxLoadFactor, Map!Managements
  <2>2. \/ \E n, m : RehashImpl(FALSE, n, m)
        \/ Done("ok") /\ UNCHANGED <<table, rehash>>
    BY <1>9 DEF MaxLoadFactor
  <2>3. CASE Done("ok") /\ UNCHANGED <<table, rehash>>
    <3>1. Elements' = Elements
      BY <2>3 DEF Elements, table, rehash, Live
    <3>2. Contents' = Contents
      BY <3>1, ContentsPrime DEF Contents, ContentsOf
    <3> QED
      BY <1>3, <2>1, <2>3, <3>2
  <2> QED
    BY <1>0, <2>1, <2>2, <2>3, RehashImplMaps
<1> QED
  BY <1>4, <1>5, <1>7, <1>8, <1>9 DEF Manage

(* A search and the call's effect at its end. *)
LEMMA FindMaps == MapInv /\ FindStep => AbstractStep
<1> SUFFICES ASSUME MapInv, FindStep PROVE AbstractStep
  OBVIOUS
<1>1. pc = "find" /\ UNCHANGED <<oldSlot, pending>>
  BY DEF FindStep, FindNext, NotFound, ReturnFound, KeepExisting, AssignExisting, EraseFound,
         MissedGroup, Hit, rehash
<1>2. /\ ret = NoResult /\ probe.key = call.key /\ call.key \in Key
      /\ call.op \in KeyOps
      /\ KeyedOnce(Elements) /\ Contents = ContentsOf(Elements)
      /\ Elements = {slot[c] : c \in Live(slot)} /\ Live(oldSlot) = {}
  BY <1>1, ElementsKeyed, ElementsOfSlots DEF MapInv, ResultInv, TypeInv, CallOK
<1>3. Elements' = {slot'[c] : c \in Live(slot')}
  BY <1>1, <1>2 DEF Elements, Live
<1>4. ASSUME UNCHANGED slot PROVE Elements' = Elements /\ Contents' = Contents
  <2>1. Elements' = Elements
    BY <1>2, <1>3, <1>4 DEF Live
  <2> QED
    BY <2>1, ContentsPrime DEF Contents, ContentsOf
<1>5. ASSUME NEW c, NEW e, Hit(c, e)
      PROVE  /\ c \in Live(slot) /\ e = slot[c] /\ e \in Elements
             /\ e.key = call.key /\ Contents[call.key] = e.val /\ e.val # Absent
  <2>1. c \in DOMAIN ctrl /\ ctrl[c] = CtrlOf(probe.key) /\ e \in Read(slot, c) /\ e.key = probe.key
    BY <1>5 DEF Hit, Matches
  <2>2. ctrl[c] \notin {EmptySlot, SentinelSlot}
    BY <1>1, <2>1, ProbeKey DEF MapInv
  <2>3. c \in Live(slot) /\ e = slot[c]
    BY <1>1, <2>1, <2>2, UsedIsLive DEF MapInv, MirrorInv, Live, Read
  <2> QED
    BY <1>2, <2>1, <2>3, Lookup
<1>6. CASE FindNext
  <2>1. UNCHANGED <<slot, ret>>
    BY <1>6 DEF FindNext, table
  <2> QED
    BY <1>4, <2>1, Silent
<1>7. CASE NotFound
  <2>1. MissedGroup /\ EndsSearch /\ UNCHANGED slot
    BY <1>7 DEF NotFound, table
  <2>2. \A c \in Live(slot) : slot[c].key # call.key
    BY <1>2, <2>1, NotFoundIsAbsent DEF MapInv, KeysInv
  <2>3. \A e \in Elements : e.key # call.key
    BY <1>2, <2>2
  <2>4. Contents[call.key] = Absent /\ Contents' = Contents
    BY <1>2, <1>4, <2>1, <2>3, LookupAbsent
  <2>5. CASE call.op \in Insertions
    <3>1. ret' = ret
      BY <1>7, <2>5 DEF NotFound, Insertions
    <3> QED
      BY <1>4, <2>1, <3>1, Silent
  <2>6. CASE call.op = "find"
    <3>1. Done(Absent)
      BY <1>7, <2>6 DEF NotFound, Insertions
    <3>2. Map!Find(call.key)
      BY <2>4, <2>6, <3>1 DEF Done, Map!Find, Map!Result
    <3>3. Map!Operation
      BY <1>2, <3>2 DEF Map!Operation
    <3> QED
      BY <1>2, <3>3, Effective
  <2>7. CASE call.op = "erase"
    <3>1. Done("none")
      BY <1>7, <2>7 DEF NotFound, Insertions
    <3>2. Contents' = [Contents EXCEPT ![call.key] = Absent]
      BY <1>2, <2>4 DEF Contents
    <3>3. Map!Erase(call.key)
      BY <2>4, <2>7, <3>1, <3>2 DEF Done, Map!Erase, Map!Result, Map!Has
    <3>4. Map!Operation
      BY <1>2, <3>3 DEF Map!Operation
    <3> QED
      BY <1>2, <3>4, Effective
  <2> QED
    BY <1>2, <2>5, <2>6, <2>7 DEF KeyOps
<1>8. CASE ReturnFound
  <2>1. PICK c \in DOMAIN slot : \E e \in Read(slot, c) :
          Hit(c, e) /\ call.op = "find" /\ Done(e.val) /\ UNCHANGED slot
    BY <1>8 DEF ReturnFound, table
  <2>2. PICK e \in Read(slot, c) : Hit(c, e) /\ call.op = "find" /\ Done(e.val) /\ UNCHANGED slot
    BY <2>1
  <2>3. Map!Find(call.key)
    BY <1>4, <1>5, <2>2 DEF Done, Map!Find, Map!Result
  <2>4. Map!Operation
    BY <1>2, <2>3 DEF Map!Operation
  <2> QED
    BY <1>2, <2>4, Effective
<1>9. CASE KeepExisting
  <2>1. PICK c \in DOMAIN slot : \E e \in Read(slot, c) :
          Hit(c, e) /\ call.op = "insert" /\ Done("exists") /\ UNCHANGED slot
    BY <1>9 DEF KeepExisting, table
  <2>2. PICK e \in Read(slot, c) : Hit(c, e) /\ call.op = "insert" /\ Done("exists") /\ UNCHANGED slot
    BY <2>1
  <2>3. Map!Keep(call.key)
    BY <1>4, <1>5, <2>2 DEF Done, Map!Keep, Map!Result, Map!Has
  <2>4. Map!Operation
    BY <1>2, <2>3 DEF Map!Operation
  <2> QED
    BY <1>2, <2>4, Effective
<1>10. CASE AssignExisting
  <2>1. PICK c \in DOMAIN slot : \E e \in Read(slot, c) :
          /\ Hit(c, e) /\ call.op = "insert_or_assign" /\ Done("exists")
          /\ slot' = [slot EXCEPT ![c] = [key |-> e.key, val |-> call.val]]
    BY <1>10 DEF AssignExisting
  <2>2. PICK e \in Read(slot, c) :
          /\ Hit(c, e) /\ call.op = "insert_or_assign" /\ Done("exists")
          /\ slot' = [slot EXCEPT ![c] = [key |-> e.key, val |-> call.val]]
    BY <2>1
  <2> DEFINE f == [key |-> e.key, val |-> call.val]
  <2>3. c \in Live(slot) /\ e = slot[c] /\ e \in Elements /\ e.key = call.key
        /\ Contents[call.key] # Absent
    BY <1>5, <2>2
  <2>4. f \in Element /\ f # Raw /\ f.key = e.key /\ f.val = call.val /\ call.val \in Value
    BY <1>2, <2>2, <2>3, KeyAssumption DEF Element, MapInv, TypeInv, CallOK, Insertions
  <2> HIDE DEF f
  <2>5. slot' = [slot EXCEPT ![c] = f]
    BY <2>2 DEF f
  <2>6. Live(slot') = Live(slot) /\ slot'[c] = f /\ \A d \in Live(slot) \ {c} : slot'[d] = slot[d]
    BY <2>3, <2>4, <2>5 DEF Live
  <2>7. \A d \in Live(slot) \ {c} : slot[d] # slot[c]
    BY <2>3 DEF MapInv, KeysInv, UniqueKeys
  <2>8. Elements' = (Elements \ {e}) \cup {f}
    BY <1>2, <1>3, <2>3, <2>6, <2>7
  <2>9. Contents' = [Contents EXCEPT ![call.key] = call.val]
    BY <1>2, <2>3, <2>4, <2>8, LookupReplace, ContentsPrime
  <2>10. Map!Assign(call.key, call.val)
    BY <2>2, <2>3, <2>9 DEF Done, Map!Assign, Map!Result, Map!Has
  <2>11. Map!Operation
    BY <1>2, <2>4, <2>10 DEF Map!Operation
  <2> QED
    BY <1>2, <2>11, Effective
<1>11. CASE EraseFound
  <2>1. PICK c \in DOMAIN slot : \E e \in Read(slot, c) :
          /\ Hit(c, e) /\ call.op = "erase" /\ Done("erased") /\ slot' = [slot EXCEPT ![c] = Raw]
    BY <1>11 DEF EraseFound
  <2>2. PICK e \in Read(slot, c) :
          /\ Hit(c, e) /\ call.op = "erase" /\ Done("erased") /\ slot' = [slot EXCEPT ![c] = Raw]
    BY <2>1
  <2>3. c \in Live(slot) /\ e = slot[c] /\ e \in Elements /\ e.key = call.key
        /\ Contents[call.key] # Absent
    BY <1>5, <2>2
  <2>4. Live(slot') = Live(slot) \ {c} /\ \A d \in Live(slot) \ {c} : slot'[d] = slot[d]
    BY <2>2, LiveRemove
  <2>5. \A d \in Live(slot) \ {c} : slot[d] # slot[c]
    BY <2>3 DEF MapInv, KeysInv, UniqueKeys
  <2>6. Elements' = Elements \ {e}
    BY <1>2, <1>3, <2>3, <2>4, <2>5
  <2>7. Contents' = [Contents EXCEPT ![call.key] = Absent]
    BY <1>2, <2>3, <2>6, LookupRemove, ContentsPrime
  <2>8. Map!Erase(call.key)
    BY <2>2, <2>3, <2>7 DEF Done, Map!Erase, Map!Result, Map!Has
  <2>9. Map!Operation
    BY <1>2, <2>8 DEF Map!Operation
  <2> QED
    BY <1>2, <2>9, Effective
<1> QED
  BY <1>6, <1>7, <1>8, <1>9, <1>10, <1>11 DEF FindStep

(* A rehash moves elements: the mapping does not notice. *)
LEMMA RehashMaps == MapInv /\ RehashStep => AbstractStep
<1> SUFFICES ASSUME MapInv, RehashStep PROVE AbstractStep
  OBVIOUS
<1>1. CASE Grow
  <2> DEFINE n == CtrlCapacity * 2
  <2>1. pc = "grow" /\ RehashImpl(FALSE, n, mlf) /\ call.op \in Insertions /\ call.key \in Key
    BY <1>1 DEF Grow, MapInv, TypeInv, CallOK, KeyOps
  <2>2. CtrlCapacity \in Nat /\ CtrlCapacity > 0 /\ slotSize \in Nat
    <3>1. groupMask + 1 \in Nat /\ groupMask + 1 > 0 /\ GroupWidth \in Nat /\ GroupWidth > 0
      BY GroupAssumption DEF MapInv, TypeInv, TableOK
    <3> QED
      BY <3>1 DEF CtrlCapacity, MapInv, TypeInv, TableOK
  <2>3. CalcCapacity(n) > CtrlCapacity
    <3>1. n \in Nat /\ n > CtrlCapacity
      BY <2>2
    <3>2. CalcCapacity(n) >= n /\ CalcCapacity(n) \in Nat
      <4> HIDE DEF n
      <4> QED
        BY <2>2, <3>1, CapacityAtLeast
    <3> QED
      BY <2>2, <3>1, <3>2
  <2>4. Done("throws") \/ ret' = ret
    BY <2>1, <2>3 DEF RehashImpl, CreateSlots
  <2>5. ret' # [op |-> call.op, key |-> call.key, res |-> "ok"]
    <3>1. CASE Done("throws")
      BY <3>1 DEF Done
    <3>2. CASE ret' = ret
      <4>1. ret' = [op |-> "none", key |-> Absent, res |-> Absent]
        BY <2>1, <3>2 DEF MapInv, ResultInv, NoResult
      <4>2. call.op # "none"
        BY <2>1 DEF Insertions
      <4> QED
        BY <4>1, <4>2
    <3> QED
      BY <2>4, <3>1, <3>2
  <2> QED
    BY <2>1, <2>5, RehashImplMaps
<1>2. CASE NoGrow \/ TransferNext
  <2>1. UNCHANGED <<slot, oldSlot, ret>>
    BY <1>2 DEF NoGrow, TransferNext, table, rehash
  <2>2. Elements' = Elements
    BY <2>1 DEF Elements, Live
  <2> QED
    BY <2>1, <2>2, Silent
<1>3. CASE RehashDone
  <2>1. pc = "rehash" /\ pending = {} /\ oldSlot' = NoSlots /\ slot' = slot
    BY <1>3 DEF RehashDone, table
  <2>2. Live(oldSlot) = {} /\ Live(oldSlot') = {} /\ Live(slot') = Live(slot)
    BY <2>1 DEF MapInv, KeysInv, OldInv, Live, NoSlots
  <2>3. Elements' = Elements
    BY <2>1, <2>2 DEF Elements
  <2>4. CASE call.op \in Insertions
    <3>1. ret' = ret
      BY <1>3, <2>4 DEF RehashDone
    <3> QED
      BY <2>3, <3>1, Silent
  <2>5. CASE call.op \notin Insertions
    <3>1. Done("ok") /\ ret = NoResult /\ call.op \in Map!Managements /\ call.key = Absent
      BY <1>3, <2>1, <2>5 DEF RehashDone, MapInv, ResultInv, MovingOps, Map!Managements, KeyOps, Insertions
    <3>2. Contents' = Contents
      BY <2>3, ContentsPrime DEF Contents, ContentsOf
    <3>3. Map!Resize(call.op)
      BY <3>1, <3>2 DEF Done, Map!Resize, Map!Result
    <3>4. Map!Operation
      BY <3>1, <3>3 DEF Map!Operation
    <3> QED
      BY <3>1, <3>4, Effective
  <2> QED
    BY <2>4, <2>5
<1> QED
  BY <1>1, <1>2, <1>3 DEF RehashStep

(* The construction of the new element is where an insertion takes effect. *)
LEMMA PlaceMaps ==
  ASSUME MayThrow = FALSE, MapInv, PlaceStep
  PROVE  AbstractStep
<1>1. CASE PlaceNext \/ PlaceNew
  <2>1. UNCHANGED <<slot, oldSlot, ret>>
    BY <1>1 DEF PlaceNext, PlaceNew, rehash
  <2>2. Elements' = Elements
    BY <2>1 DEF Elements, Live
  <2> QED
    BY <2>1, <2>2, Silent
<1>2. CASE PlaceMoved
  <2> DEFINE f == FirstEmpty
             p == NextPending
             e == oldSlot[p]
  <2>1. /\ pc = "transfer" /\ EmptyCells # {} /\ ret' = ret
        /\ slot' = [slot EXCEPT ![f] = e]
        /\ oldSlot' = [oldSlot EXCEPT ![p] = Raw]
    BY <1>2 DEF PlaceMoved
  <2>2. p \in DOMAIN oldSlot /\ e # Raw /\ p \in Live(oldSlot)
    BY <2>1, NextPendingExists DEF MapInv, TypeInv, RehashOK, CallOK, MirrorInv, PendingLive, Live
  <2>3. f \in DOMAIN slot /\ slot[f] = Raw
    BY <2>1, FirstEmptyFree DEF MapInv, MirrorInv
  <2> HIDE DEF f, p
  <2>4. /\ Live(slot') = Live(slot) \cup {f}
        /\ \A d \in Live(slot) : slot'[d] = slot[d]
        /\ slot'[f] = e
    BY <2>1, <2>2, <2>3, LiveInsert
  <2>5. /\ Live(oldSlot') = Live(oldSlot) \ {p}
        /\ \A d \in Live(oldSlot) \ {p} : oldSlot'[d] = oldSlot[d]
    BY <2>1, <2>2, LiveRemove
  <2>6. Elements' = Elements
    <3>1. {slot'[c] : c \in Live(slot')} = {slot[c] : c \in Live(slot)} \cup {e}
      BY <2>4
    <3>2. {oldSlot[c] : c \in Live(oldSlot)} = {oldSlot'[c] : c \in Live(oldSlot')} \cup {e}
      BY <2>2, <2>5
    <3> HIDE DEF e
    <3> QED
      BY <3>1, <3>2 DEF Elements
  <2> QED
    BY <2>1, <2>6, Silent
<1>3. CASE Construct
  <2> DEFINE e == [key |-> call.key, val |-> call.val]
  <2>1. /\ pc = "construct" /\ slot' = [slot EXCEPT ![at] = e] /\ Done("inserted")
        /\ oldSlot' = oldSlot /\ ret = NoResult
    BY <1>3 DEF Construct, rehash, MapInv, ResultInv
  <2>2. /\ e \in Element /\ e # Raw /\ e.key = call.key /\ e.val = call.val
        /\ call.op \in Insertions /\ call.key \in Key /\ call.val \in Value
    BY <2>1, KeyAssumption DEF Element, MapInv, TypeInv, CallOK, KeyOps
  <2>3. at \in DOMAIN slot /\ slot[at] = Raw
    BY <2>1 DEF MapInv, MirrorInv, AtFree, TypeInv, TableOK
  <2> HIDE DEF e
  <2>4. /\ Live(slot') = Live(slot) \cup {at}
        /\ \A d \in Live(slot) : slot'[d] = slot[d]
        /\ slot'[at] = e
    BY <2>1, <2>2, <2>3, LiveInsert
  <2>5. /\ Elements = {slot[c] : c \in Live(slot)} /\ Live(oldSlot) = {}
        /\ KeyedOnce(Elements) /\ Contents = ContentsOf(Elements)
    BY <2>1, ElementsKeyed, ElementsOfSlots DEF MapInv
  <2>6. Elements' = Elements \cup {e}
    <3>1. Elements' = {slot'[c] : c \in Live(slot')}
      BY <2>1, <2>5 DEF Elements
    <3> QED
      BY <2>4, <2>5, <3>1
  <2>7. \A f \in Elements : f.key # e.key
    BY <2>1, <2>2, <2>5 DEF MapInv, KeysInv, NewKeyInv, Inserting
  <2>8. Contents' = [Contents EXCEPT ![call.key] = call.val] /\ Contents[call.key] = Absent
    BY <2>2, <2>5, <2>6, <2>7, LookupAdd, LookupAbsent, ContentsPrime
  <2>9. Map!Insert(call.op, call.key, call.val)
    BY <2>1, <2>8 DEF Done, Map!Insert, Map!Result, Map!Has
  <2>10. Map!Operation
    BY <2>2, <2>9 DEF Map!Operation, Map!Insertions, Insertions
  <2> QED
    BY <2>1, <2>10, Effective
<1>4. CASE ConstructThrows
  BY <1>4 DEF ConstructThrows
<1> QED
  BY <1>1, <1>2, <1>3, <1>4 DEF PlaceStep

(* Every step of the table is one of the map, or none. *)
LEMMA StepMaps ==
  ASSUME MayThrow = FALSE, MapInv, [Next]_vars
  PROVE  AbstractStep
<1>1. ASSUME UNCHANGED <<table, rehash>> PROVE Elements' = Elements /\ Contents' = Contents
  <2>1. Elements' = Elements
    BY <1>1 DEF Elements, Live, table, rehash
  <2> QED
    BY <2>1, ContentsPrime DEF Contents, ContentsOf
<1>2. CASE BeginKeyOp \/ BeginManagement
  <2>1. \E op, k, v, n : Begin(op, k, v, n)
    BY <1>2 DEF BeginKeyOp, BeginManagement
  <2>2. UNCHANGED <<table, rehash>> /\ ret' = ret
    BY <2>1 DEF Begin
  <2> QED
    BY <1>1, <2>2, Silent
<1>3. CASE Return
  <2>1. UNCHANGED <<table, rehash>> /\ ret' = NoResult
    BY <1>3 DEF Return
  <2>2. Map!Return
    BY <1>1, <2>1 DEF Map!Return, Map!NoResult, NoResult
  <2> QED
    BY <2>2 DEF AbstractStep, Map!Next
<1>4. CASE UNCHANGED vars
  BY <1>1, <1>4, Silent DEF vars
<1> QED
  BY <1>2, <1>3, <1>4, ManageMaps, FindMaps, RehashMaps, PlaceMaps DEF Next, Step

(* A table without elements is the empty map. *)
LEMMA InitMaps == Init => Map!Init
<1> SUFFICES ASSUME Init PROVE Map!Init
  OBVIOUS
<1>1. Live(slot) = {} /\ Live(oldSlot) = {} /\ ret = NoResult
  BY DEF Init, Live, AllRaw, NoSlots
<1>2. Elements = {}
  BY <1>1 DEF Elements
<1>3. Contents = [k \in Key |-> Absent]
  BY <1>2 DEF Contents
<1> QED
  BY <1>1, <1>3 DEF Map!Init, Map!NoResult, NoResult

(***************************************************************************)
(* The table implements the map: whatever the hash, the sizes and the      *)
(* sequence of calls, each call returns what a map returns, and searches,  *)
(* growth and moves in the middle of calls do not show.                    *)
(***************************************************************************)
THEOREM Refinement ==
  ASSUME MayThrow = FALSE
  PROVE  Spec => ImplementsMap
<1>1. Init => MapInv
  BY InitType, InitReach, InitMirror, InitKeys, InitSize, InitResult DEF MapInv
<1>2. MapInv /\ [Next]_vars => MapInv'
  BY NextType, NextReach, NextMirror, NextKeys, NextSize, NextResult DEF MapInv
<1>3. MapInv /\ [Next]_vars => [Map!Next]_Map!mapVars
  BY StepMaps DEF AbstractStep
<1>4. Init => Map!Init
  BY InitMaps
<1> QED
  BY <1>1, <1>2, <1>3, <1>4, PTL DEF Spec, ImplementsMap, Map!Spec

-----------------------------------------------------------------------------
(* Calls end *)

(***************************************************************************)
(* slot_threshold_ has not wrapped below zero: it is set to at most the    *)
(* number of slots, and only an erasure that finds it 0 takes it beyond.   *)
(***************************************************************************)
ThresholdFits == slotThreshold <= SlotCapacity

(* The n groups before the n-th on the probe sequence of a key are full. *)
FullBehind(k, n) ==
    \A i \in 0..(n - 1) : \A c \in DOMAIN ctrl :
        c[1] = Probe(Home(k), i, groupMask) => ctrl[c] # EmptySlot

(***************************************************************************)
(* An element about to be placed has a slot left, because the table was    *)
(* below its threshold or the new array of a rehash holds what was in the  *)
(* old one; and the groups the prober has passed have none, because no     *)
(* slot is freed between two of its moves.                                 *)
(***************************************************************************)
RoomInv ==
    /\ pc \in {"rehash", "transfer"} =>
         oldSize <= SlotCapacity /\ (call.op \in Insertions => oldSize < SlotCapacity)
    /\ pc = "place" => slotSize < SlotCapacity
    /\ pc \in {"place", "transfer"} => FullBehind(probe.key, probe.step)
    /\ pc = "find" => probe.step <= groupMask
    /\ call.op = "shrink_to_fit" => call.arg = 0

(* Monotonicity of a product *)
LEMMA TimesAtLeast ==
  ASSUME NEW a \in Nat, NEW b \in Nat, NEW c \in Nat, a <= b
  PROVE  c * a <= c * b
OBVIOUS

(***************************************************************************)
(* The arithmetic: c bytes in q groups of w, of which at least n * 256 / m *)
(* are asked for, have more than n slots, one of each group taken off.     *)
(***************************************************************************)
LEMMA SlotsSuffice ==
  ASSUME NEW n \in Nat, NEW m \in Nat, NEW w \in Nat, NEW q \in Nat,
         q >= 2, w >= 2,
         n * 256 < m * (w * q + 1),
         m * (2 * w + 1) <= 256 * 2 * (w - 1)
  PROVE  n < q * (w - 1)
<1> DEFINE s == w - 1
<1>1. s \in Nat
  OBVIOUS
<1>2. m * (2 * (w * q + 1)) <= m * (q * (2 * w + 1))
  <2>1. 2 * (w * q + 1) \in Nat /\ q * (2 * w + 1) \in Nat
    OBVIOUS
  <2>2. 2 * (w * q + 1) <= q * (2 * w + 1)
    OBVIOUS
  <2> QED
    BY <2>1, <2>2, TimesAtLeast
<1>3. q * (m * (2 * w + 1)) <= q * (512 * s)
  <2>1. m * (2 * w + 1) \in Nat /\ 512 * s \in Nat
    BY <1>1
  <2>2. m * (2 * w + 1) <= 512 * s
    OBVIOUS
  <2> HIDE DEF s
  <2> QED
    BY <2>1, <2>2, TimesAtLeast
<1>4. 512 * n < m * (2 * (w * q + 1))
  OBVIOUS
<1>5. m * (q * (2 * w + 1)) = q * (m * (2 * w + 1)) /\ q * (512 * s) = 512 * (q * s)
  OBVIOUS
<1>6. 512 * n < 512 * (q * s)
  <2> DEFINE x1 == m * (2 * (w * q + 1))
             x2 == m * (q * (2 * w + 1))
             x3 == q * (m * (2 * w + 1))
             x4 == q * (512 * s)
             x5 == q * s
  <2>1. x1 \in Nat /\ x2 \in Nat /\ x3 \in Nat /\ x4 \in Nat /\ x5 \in Nat
    BY <1>1
  <2>2. x1 <= x2 /\ x3 <= x4 /\ 512 * n < x1 /\ x2 = x3 /\ x4 = 512 * x5
    BY <1>2, <1>3, <1>4, <1>5
  <2> HIDE DEF x1, x2, x3, x4, x5
  <2>3. 512 * n < 512 * x5
    BY <2>1, <2>2
  <2> QED
    BY <2>3 DEF x5
<1>7. q * s \in Nat
  BY <1>1
<1> QED
  BY <1>6, <1>7

(***************************************************************************)
(* A capacity is a number of control bytes, of which each group spends one *)
(* on its overflow bits and the last one more on the sentinel: a power of  *)
(* two of bytes that load factor m asks for has slots for n elements all   *)
(* the same.                                                               *)
(***************************************************************************)
LEMMA RoomFor ==
  ASSUME NEW n \in Nat, NEW m \in LoadFactors, NEW c \in Nat,
         IsPow2(c), c >= MinCapacity, c >= ShrinkToFitCapacity(n, m)
  PROVE  n <= CalcSlotCapacity(c \div GroupWidth)
<1> DEFINE f == ShrinkToFitCapacity(n, m)
<1>1. MinCapacity \in Nat /\ GroupWidth \in Nat \ {0} /\ GroupWidth >= 2
      /\ IsPow2(GroupWidth) /\ MinCapacity = 2 * GroupWidth
  BY GroupAssumption
<1>2. f \in Nat /\ m \in Nat \ {0} /\ n * 256 \in Nat
  BY FitRange, LoadFactorRange
<1>3. n * 256 < m * (f + 1)
  <2> DEFINE a == n * 256
  <2>1. f = a \div m
    BY DEF ShrinkToFitCapacity, LoadFactorAmplify
  <2>2. a \in Nat /\ m \in Nat \ {0}
    BY <1>2
  <2> HIDE DEF a, f
  <2>3. a < m * (a \div m + 1)
    BY <2>2, DivMod
  <2>4. a < m * (f + 1)
    BY <2>1, <2>3
  <2> QED
    BY <2>4 DEF a
<1> HIDE DEF f
<1>4. c >= 2 * GroupWidth /\ c >= GroupWidth /\ c >= f /\ c \in Nat
  BY <1>1 DEF f
<1>5. PICK q \in Nat : c = GroupWidth * q /\ IsPow2(q)
  BY <1>1, <1>4, Pow2Divides
<1>6. q >= 2
  <2> SUFFICES ASSUME q <= 1 PROVE FALSE
    OBVIOUS
  <2>1. q = 0 \/ q = 1
    OBVIOUS
  <2> QED
    BY <2>1, <1>1, <1>4, <1>5
<1>7. c \div GroupWidth = q
  BY <1>1, <1>5, Quotient
<1>8. n * 256 < m * (GroupWidth * q + 1)
  <2>1. f + 1 \in Nat /\ c + 1 \in Nat /\ f + 1 <= c + 1 /\ m \in Nat
    BY <1>2, <1>4
  <2>2. m * (f + 1) <= m * (c + 1)
    BY <2>1, TimesAtLeast
  <2> DEFINE x == m * (f + 1)
             y == m * (c + 1)
             z == n * 256
  <2>3. x \in Nat /\ y \in Nat /\ z \in Nat /\ z < x /\ x <= y
    BY <1>2, <1>3, <2>1, <2>2
  <2> HIDE DEF x, y, z
  <2>4. z < y
    BY <2>3
  <2> QED
    BY <2>4, <1>5 DEF y, z
<1>9. m * (2 * GroupWidth + 1) <= 256 * 2 * (GroupWidth - 1)
  BY <1>1, LoadFactorAssumption DEF LoadFactorAmplify
<1>10. n < q * (GroupWidth - 1)
  BY <1>1, <1>2, <1>6, <1>8, <1>9, SlotsSuffice
<1>11. n <= q * (GroupWidth - 1) - 1
  <2> DEFINE x == q * (GroupWidth - 1)
  <2>1. x \in Int /\ n < x
    BY <1>1, <1>10
  <2> HIDE DEF x
  <2>2. n <= x - 1
    BY <2>1
  <2> QED
    BY <2>2 DEF x
<1> QED
  BY <1>7, <1>11 DEF CalcSlotCapacity, GroupSize

(* The cells of a table but the sentinel's are its slots. *)
LEMMA SlotsCounted ==
  ASSUME NEW mask \in Nat, mask # 0
  PROVE  /\ Cardinality(Cells(mask) \ {SentinelCell(mask)}) = CalcSlotCapacity(mask + 1)
         /\ IsFiniteSet(Cells(mask) \ {SentinelCell(mask)})
<1>1. GroupSize \in Nat /\ GroupSize >= 1 /\ GroupSize - 1 \in Nat
  BY GroupAssumption DEF GroupSize
<1> DEFINE G == 0..mask
           P == 0..(GroupSize - 1)
<1>2. IsFiniteSet(G) /\ Cardinality(G) = mask + 1
  BY FS_Interval
<1>3. IsFiniteSet(P) /\ Cardinality(P) = GroupSize
  BY <1>1, FS_Interval
<1>4. Cells(mask) = G \X P
  BY DEF Cells, Groups
<1> HIDE DEF G, P
<1>5. IsFiniteSet(Cells(mask)) /\ Cardinality(Cells(mask)) = (mask + 1) * GroupSize
  BY <1>2, <1>3, <1>4, FS_Product
<1>6. SentinelCell(mask) \in Cells(mask)
  BY <1>1, <1>4 DEF SentinelCell, G, P
<1> QED
  BY <1>5, <1>6, FS_RemoveElement DEF CalcSlotCapacity

(* The sentinel's cell is none of them. *)
LEMMA LiveNoSentinel ==
  ASSUME TypeInv, MirrorInv, Allocated
  PROVE  Live(slot) \subseteq Cells(groupMask) \ {SentinelCell(groupMask)}
<1> SUFFICES ASSUME NEW c \in Live(slot)
             PROVE  c \in Cells(groupMask) /\ c # SentinelCell(groupMask)
  OBVIOUS
<1>1. c \in DOMAIN slot /\ slot[c] # Raw /\ DOMAIN slot = Cells(groupMask) /\ DOMAIN ctrl = Cells(groupMask)
  BY DEF Live, TypeInv, TableOK
<1>2. ~ IsSentinel(c)
  BY <1>1 DEF MirrorInv, CtrlMirrorsSlots
<1> QED
  BY <1>1, <1>2 DEF IsSentinel, SentinelCell

(* The elements of a table have slots. *)
LEMMA SizeFits ==
  ASSUME TypeInv, ReachInv, MirrorInv, SizeInv
  PROVE  slotSize <= SlotCapacity /\ SlotCapacity \in Nat /\ slotSize \in Nat
<1>1. groupMask \in Nat /\ slotSize \in Nat /\ DOMAIN slot = Cells(groupMask)
  BY DEF TypeInv, TableOK
<1>2. GroupSize \in Nat /\ GroupSize >= 1
  BY GroupAssumption DEF GroupSize
<1>3. SlotCapacity \in Nat
  BY <1>1, <1>2 DEF SlotCapacity, CalcSlotCapacity
<1>4. slotSize = Cardinality(Live(slot))
  BY DEF SizeInv, SizeCountsElements
<1>5. CASE ~ Allocated
  <2>1. Live(slot) = {}
    BY <1>5 DEF ReachInv, MemoryInv, Live, AllRaw
  <2> QED
    BY <1>1, <1>3, <1>4, <2>1, FS_EmptySet
<1>6. CASE Allocated
  <2>1. groupMask # 0
    BY <1>6 DEF Allocated
  <2> DEFINE S == Cells(groupMask) \ {SentinelCell(groupMask)}
  <2>2. Live(slot) \subseteq S
    BY <1>1, <1>6, LiveNoSentinel
  <2>3. Cardinality(S) = SlotCapacity /\ IsFiniteSet(S)
    BY <1>1, <2>1, SlotsCounted DEF SlotCapacity
  <2> HIDE DEF S
  <2> QED
    BY <1>1, <1>3, <1>4, <2>2, <2>3, FS_Subset
<1> QED
  BY <1>1, <1>3, <1>5, <1>6

(* calc_capacity() gives a power of two, no less than what is asked for. *)
LEMMA CalcCapacityRange ==
  ASSUME NEW n \in Nat, slotSize \in Nat
  PROVE  /\ CalcCapacity(n) \in Nat /\ IsPow2(CalcCapacity(n))
         /\ CalcCapacity(n) >= n /\ CalcCapacity(n) >= MinCapacity
<1> DEFINE w == AtLeast(AtLeast(n, MinCapacity), slotSize)
<1>1. MinCapacity \in Nat /\ MinCapacity >= 1
  BY GroupAssumption
<1>2. w \in Nat /\ w >= 1 /\ w >= n /\ w >= MinCapacity
  BY <1>1 DEF AtLeast
<1>3. CalcCapacity(n) = RoundUpPow2(w)
  BY DEF CalcCapacity
<1> HIDE DEF w
<1>4. RoundUpPow2(w) \in Nat /\ RoundUpPow2(w) >= w /\ IsPow2(RoundUpPow2(w))
  BY <1>2, RoundUp
<1> QED
  BY <1>1, <1>2, <1>3, <1>4

(***************************************************************************)
(* An element that is to be placed finds an empty slot in one of the       *)
(* groups of its first traversal: not all of them are full, and those the  *)
(* prober has passed are.                                                  *)
(***************************************************************************)
LEMMA PlacesLeft ==
  ASSUME TypeInv, ReachInv, MirrorInv, SizeInv, RoomInv, pc \in {"place", "transfer"}
  PROVE  probe.step <= groupMask /\ slotSize < SlotCapacity
<1>1. /\ groupMask \in Nat /\ IsPow2(groupMask + 1) /\ probe.step \in Nat /\ probe.key \in Key
      /\ DOMAIN slot = Cells(groupMask) /\ DOMAIN ctrl = Cells(groupMask)
  BY ProbeKey DEF TypeInv, TableOK, ControlOK
<1>2. Allocated /\ groupMask # 0
  BY DEF ReachInv, MemoryInv, Allocated
<1>3. slotSize < SlotCapacity
  <2>1. CASE pc = "place"
    BY <2>1 DEF RoomInv
  <2>2. CASE pc = "transfer"
    <3>1. pending # {} /\ IsFiniteSet(pending) /\ oldSize = slotSize + Cardinality(pending)
          /\ oldSize <= SlotCapacity
      BY <2>2 DEF TypeInv, CallOK, SizeInv, SizeCountsElements, RoomInv
    <3>2. Cardinality(pending) \in Nat /\ Cardinality(pending) # 0
      BY <3>1, FS_EmptySet, FS_CardinalityType
    <3> QED
      BY <3>1, <3>2, SizeFits
  <2> QED
    BY <2>1, <2>2
<1> DEFINE S == Cells(groupMask) \ {SentinelCell(groupMask)}
<1>4. S # Live(slot)
  <2>1. Cardinality(S) = SlotCapacity
    BY <1>1, <1>2, SlotsCounted DEF SlotCapacity
  <2>2. Cardinality(Live(slot)) = slotSize
    BY DEF SizeInv, SizeCountsElements
  <2> HIDE DEF S
  <2> QED
    BY <1>3, <2>1, <2>2, SizeFits
<1>5. PICK c \in S : slot[c] = Raw
  BY <1>1, <1>2, <1>4, LiveNoSentinel DEF Live
<1>6. ~ IsSentinel(c) /\ c[1] \in 0..groupMask
  <2>1. c = <<c[1], c[2]>> /\ c \in Cells(groupMask)
    BY DEF Cells
  <2> QED
    BY <1>2, <2>1 DEF IsSentinel, SentinelCell, Cells, Groups
<1>7. ctrl[c] = EmptySlot
  BY <1>1, <1>5, <1>6 DEF MirrorInv, CtrlMirrorsSlots, Constructing
<1>8. PICK n \in 0..groupMask : Probe(Home(probe.key), n, groupMask) = c[1]
  BY <1>1, <1>2, <1>6, ProbeGroups, ProbeCovers DEF TypeInv
<1>9. SUFFICES ASSUME probe.step > groupMask PROVE FALSE
  BY <1>1, <1>3
<1>10. n \in 0..(probe.step - 1)
  BY <1>1, <1>9
<1>11. FullBehind(probe.key, probe.step)
  BY DEF RoomInv
<1> QED
  BY <1>1, <1>5, <1>7, <1>8, <1>10, <1>11 DEF FullBehind

(***************************************************************************)
(* A new array has room for the elements of the old one, and when the      *)
(* table grows for an insertion, for one more.                             *)
(***************************************************************************)
LEMMA RehashImplRoom ==
  ASSUME TypeInv, ReachInv, MirrorInv, SizeInv, RoomInv,
         NEW allowShrink \in BOOLEAN, NEW n \in Nat, NEW m \in LoadFactors,
         RehashImpl(allowShrink, n, m),
         allowShrink => n = ShrinkToFitCapacity(slotSize, m) /\ call.op \notin Insertions
  PROVE  RoomInv'
<1> DEFINE c == CalcCapacity(n)
           mask == NewMask(n)
<1>1. /\ call' = call
      /\ \/ CreateSlots(mask, m) /\ (~ allowShrink => c > CtrlCapacity)
         \/ pc' = "done"
  BY DEF RehashImpl, Done, NewMask
<1>2. CASE pc' = "done"
  BY <1>1, <1>2 DEF RoomInv
<1>3. CASE CreateSlots(mask, m) /\ (~ allowShrink => c > CtrlCapacity)
  <2>1. /\ pc' = "rehash" /\ oldSize' = slotSize /\ groupMask' = mask
        /\ SlotCapacity' = CalcSlotCapacity(mask + 1)
    BY <1>3 DEF CreateSlots, SlotCapacity
  <2>2. slotSize <= SlotCapacity /\ SlotCapacity \in Nat /\ slotSize \in Nat /\ groupMask \in Nat
    BY SizeFits DEF TypeInv, TableOK
  <2>3. c \in Nat /\ IsPow2(c) /\ c >= n /\ c >= MinCapacity
    BY <2>2, CalcCapacityRange
  <2>4. GroupWidth \in Nat /\ GroupWidth >= 2 /\ MinCapacity = 2 * GroupWidth /\ IsPow2(GroupWidth)
    BY GroupAssumption
  <2>5. c \div GroupWidth = mask + 1 /\ c = GroupWidth * (mask + 1) /\ mask \in Nat
    <3> HIDE DEF c
    <3>1. GroupWidth <= c
      BY <2>3, <2>4
    <3>2. PICK q \in Nat : c = GroupWidth * q /\ IsPow2(q)
      BY <2>3, <2>4, <3>1, Pow2Divides
    <3>3. c \div GroupWidth = q
      BY <2>4, <3>2, Quotient
    <3>4. mask = q - 1 /\ mask \in Nat
      BY <2>2, <3>3, NewMaskRange DEF NewMask, c
    <3> HIDE DEF mask
    <3> QED
      BY <3>2, <3>3, <3>4
  <2> HIDE DEF c, mask
  <2>6. CASE allowShrink
    <3>1. slotSize <= CalcSlotCapacity(c \div GroupWidth)
      BY <2>2, <2>3, <2>6, RoomFor
    <3> QED
      BY <1>1, <2>1, <2>5, <2>6, <3>1 DEF RoomInv
  <2>7. CASE ~ allowShrink
    <3>1. GroupWidth * (mask + 1) > (groupMask + 1) * GroupWidth
      BY <1>3, <2>5, <2>7 DEF CtrlCapacity
    <3>2. mask > groupMask
      <4> SUFFICES ASSUME mask + 1 <= groupMask + 1 PROVE FALSE
        BY <2>2, <2>5
      <4>1. GroupWidth * (mask + 1) <= GroupWidth * (groupMask + 1)
        BY <2>2, <2>4, <2>5, TimesAtLeast
      <4>2. GroupWidth * (groupMask + 1) = (groupMask + 1) * GroupWidth
        BY <2>2, <2>4
      <4> DEFINE x == GroupWidth * (mask + 1)
                 y == (groupMask + 1) * GroupWidth
      <4>3. x \in Nat /\ y \in Nat /\ x > y /\ x <= y
        BY <2>2, <2>4, <2>5, <3>1, <4>1, <4>2
      <4> HIDE DEF x, y
      <4> QED
        BY <4>3
    <3>3. SlotCapacity < SlotCapacity' /\ SlotCapacity' \in Int
      <4> DEFINE s == GroupSize
                 x == s * (groupMask + 2)
                 y == s * (mask + 1)
      <4>1. s \in Nat /\ s >= 1
        BY <2>4 DEF GroupSize
      <4>2. x <= y /\ x \in Nat /\ y \in Nat
        <5> HIDE DEF s
        <5>1. groupMask + 2 <= mask + 1 /\ groupMask + 2 \in Nat /\ mask + 1 \in Nat
          BY <2>2, <2>5, <3>2
        <5> QED
          BY <4>1, <5>1, TimesAtLeast
      <4>3. SlotCapacity' = y - 1
        BY <2>1, <2>5, <4>1 DEF CalcSlotCapacity
      <4>4. SlotCapacity = x - s - 1
        BY <2>2, <4>1 DEF SlotCapacity, CalcSlotCapacity
      <4> HIDE DEF s, x, y
      <4> QED
        BY <4>1, <4>2, <4>3, <4>4
    <3>4. slotSize < SlotCapacity'
      BY <2>2, <3>3
    <3>5. slotSize <= SlotCapacity'
      BY <2>2, <3>3, <3>4
    <3> QED
      BY <1>1, <2>1, <3>4, <3>5 DEF RoomInv
  <2> QED
    BY <2>6, <2>7
<1> QED
  BY <1>1, <1>2, <1>3

(* The steps after which nothing is to be placed, and no call has begun. *)
LEMMA RoomIdle ==
  ASSUME RoomInv, call' = call, pc' \in {"idle", "manage", "grow", "construct", "done"}
  PROVE  RoomInv'
BY DEF RoomInv

(* A call begins: nothing is to be placed yet. *)
LEMMA BeginRoom ==
  ASSUME TRUE \notin ShrinkArgs, TypeInv, RoomInv, BeginKeyOp \/ BeginManagement
  PROVE  RoomInv'
<1>1. groupMask \in Nat /\ groupMask' = groupMask
  BY DEF TypeInv, TableOK, BeginKeyOp, BeginManagement, Begin, table
<1>2. CASE BeginKeyOp
  <2>1. /\ pc' = "find" /\ probe'.step = 0 /\ call'.op # "shrink_to_fit"
    BY <1>2 DEF BeginKeyOp, Begin, KeyOps, Insertions, StartProbe
  <2> QED
    BY <1>1, <2>1 DEF RoomInv
<1>3. CASE BeginManagement
  <2>1. pc' = "manage"
    BY <1>3 DEF BeginManagement, Begin, KeyOps, Insertions
  <2>2. call'.op = "shrink_to_fit" => call'.arg = 0
    <3>1. ASSUME NEW readOnly \in ShrinkArgs PROVE ~ readOnly
      BY <3>1, ArgsAssumption, Zenon
    <3>2. CASE \E readOnly \in ShrinkArgs : call' = [op |-> "shrink_to_fit", key |-> Absent, val |-> Absent,
                                                    arg |-> IF readOnly THEN 1 ELSE 0]
      BY <3>1, <3>2
    <3>3. CASE \E n : \E op \in {"clear", "reserve", "rehash", "max_load_factor"} :
                 call' = [op |-> op, key |-> Absent, val |-> Absent, arg |-> n]
      BY <3>3
    <3> QED
      BY <1>3, <3>2, <3>3 DEF BeginManagement, Begin
  <2> QED
    BY <2>1, <2>2 DEF RoomInv
<1> QED
  BY <1>2, <1>3

(* Every call but shrink_to_fit() makes a table larger or leaves it. *)
LEMMA ManageRoom ==
  ASSUME TypeInv, ReachInv, MirrorInv, SizeInv, RoomInv, Manage
  PROVE  RoomInv'
<1>0. slotSize \in Nat /\ mlf \in LoadFactors /\ call.arg \in Nat /\ CtrlCapacity \in Nat
  BY GroupAssumption DEF TypeInv, TableOK, ControlOK, CtrlCapacity
<1>1. ASSUME Destroy \/ ClearData \/ (Done("ok") /\ UNCHANGED <<table, call, probe, at, rehash>>)
      PROVE  RoomInv'
  <2>1. call' = call /\ pc' = "done"
    BY <1>1 DEF Destroy, ClearData, Done
  <2> QED
    BY <2>1, RoomIdle
<1>2. CASE Clear
  BY <1>1, <1>2 DEF Clear
<1>3. CASE Reserve
  <2>1. ShrinkToFitCapacity(call.arg, mlf) \in Nat
    BY <1>0, FitRange
  <2>2. Destroy \/ RehashImpl(FALSE, ShrinkToFitCapacity(call.arg, mlf), mlf)
    BY <1>3 DEF Reserve
  <2> QED
    BY <1>0, <1>1, <2>1, <2>2, RehashImplRoom
<1>4. CASE Rehash
  <2> DEFINE n == AtLeast(ShrinkToFitCapacity(slotSize, mlf), call.arg)
  <2>1. n \in Nat
    BY <1>0, FitRange DEF AtLeast
  <2>2. Destroy \/ RehashImpl(FALSE, n, mlf)
    BY <1>4 DEF Rehash
  <2> HIDE DEF n
  <2> QED
    BY <1>0, <1>1, <2>1, <2>2, RehashImplRoom
<1>5. CASE ShrinkToFit
  <2> DEFINE n == ShrinkToFitCapacity(slotSize, mlf)
  <2>1. n \in Nat
    BY <1>0, FitRange
  <2>2. call.op = "shrink_to_fit" /\ call.arg = 0
    BY <1>5 DEF ShrinkToFit, RoomInv
  <2>3. Destroy \/ RehashImpl(TRUE, n, mlf)
    <3>1. PICK x : /\ x = IF call.arg = 1 THEN slotSize ELSE n
                   /\ Destroy \/ RehashImpl(TRUE, x, mlf)
      BY <1>5 DEF ShrinkToFit
    <3>2. x = n
      BY <2>2, <3>1
    <3> QED
      BY <3>1, <3>2
  <2>4. call.op \notin Insertions
    BY <2>2 DEF Insertions
  <2> HIDE DEF n
  <2>5. CASE RehashImpl(TRUE, n, mlf)
    BY <1>0, <2>1, <2>4, <2>5, RehashImplRoom DEF n
  <2> QED
    BY <1>1, <2>3, <2>5
<1>6. CASE MaxLoadFactor
  <2> DEFINE c == CalcCapacity(ShrinkToFitCapacity(CtrlCapacity, call.arg))
             n == AtLeast(ShrinkToFitCapacity(slotSize, call.arg), c)
  <2>1. call.arg \in LoadFactors
    BY <1>6 DEF MaxLoadFactor, TypeInv, CallOK
  <2>2. n \in Nat
    <3>1. c \in Nat
      BY <1>0, <2>1, FitRange, CalcCapacityRange
    <3> HIDE DEF c
    <3> QED
      BY <1>0, <2>1, <3>1, FitRange DEF AtLeast
  <2>3. \/ RehashImpl(FALSE, n, call.arg)
        \/ Done("ok") /\ UNCHANGED <<table, call, probe, at, rehash>>
    BY <1>6 DEF MaxLoadFactor
  <2> HIDE DEF n
  <2> QED
    BY <1>1, <2>1, <2>2, <2>3, RehashImplRoom
<1> QED
  BY <1>2, <1>3, <1>4, <1>5, <1>6 DEF Manage

(* A search moves on only if it has not been through the table. *)
LEMMA FindRoom ==
  ASSUME TypeInv, RoomInv, FindStep
  PROVE  RoomInv'
<1>1. call' = call /\ groupMask' = groupMask /\ groupMask \in Nat /\ probe.step \in Nat
  BY DEF FindStep, FindNext, NotFound, ReturnFound, KeepExisting, AssignExisting, EraseFound, table,
         TypeInv, TableOK, ControlOK
<1>2. CASE FindNext
  <2>1. pc' = "find" /\ probe'.step = probe.step + 1 /\ probe.step + 1 <= groupMask
    BY <1>2 DEF FindNext, MissedGroup, EndsSearch, HasNextBucket, NextBucket
  <2> QED
    BY <1>1, <2>1 DEF RoomInv
<1>3. CASE NotFound \/ ReturnFound \/ KeepExisting \/ AssignExisting \/ EraseFound
  <2>1. pc' \in {"grow", "done"}
    BY <1>3 DEF NotFound, ReturnFound, KeepExisting, AssignExisting, EraseFound, Done, MissedGroup,
                TypeInv, CallOK, KeyOps
  <2> QED
    BY <1>1, <2>1, RoomIdle
<1> QED
  BY <1>2, <1>3 DEF FindStep

(***************************************************************************)
(* An insertion goes on in a table below its threshold, or in one that has *)
(* grown for it.                                                           *)
(***************************************************************************)
LEMMA RehashRoom ==
  ASSUME TypeInv, ReachInv, MirrorInv, SizeInv, RoomInv, ThresholdFits, RehashStep
  PROVE  RoomInv'
<1>0. /\ slotSize \in Nat /\ slotThreshold \in Nat /\ mlf \in LoadFactors /\ groupMask \in Nat
      /\ CtrlCapacity * 2 \in Nat /\ SlotCapacity \in Nat
  BY GroupAssumption, SizeFits DEF TypeInv, TableOK, CtrlCapacity
<1>1. CASE Grow
  BY <1>0, <1>1, RehashImplRoom DEF Grow
<1>2. CASE NoGrow
  <2>1. /\ pc' = "place" /\ call' = call /\ slotSize' = slotSize /\ SlotCapacity' = SlotCapacity
        /\ probe'.step = 0
    BY <1>2 DEF NoGrow, StartProbe, table, SlotCapacity
  <2>2. slotSize < SlotCapacity
    BY <1>0, <1>2 DEF NoGrow, NeedGrow, ThresholdFits
  <2> QED
    BY <2>1, <2>2 DEF RoomInv, FullBehind
<1>3. CASE TransferNext
  <2>1. /\ pc = "rehash" /\ pc' = "transfer" /\ call' = call /\ SlotCapacity' = SlotCapacity
        /\ oldSize' = oldSize /\ probe'.step = 0
    BY <1>3 DEF TransferNext, StartProbe, table, rehash, SlotCapacity
  <2> QED
    BY <2>1 DEF RoomInv, FullBehind
<1>4. CASE RehashDone
  <2>1. /\ pc = "rehash" /\ call' = call /\ slotSize' = slotSize /\ SlotCapacity' = SlotCapacity
        /\ \/ pc' = "place" /\ call.op \in Insertions /\ probe'.step = 0
           \/ pc' = "done"
    BY <1>4 DEF RehashDone, StartProbe, table, SlotCapacity, Done
  <2>2. slotSize = oldSize
    <3>1. Cardinality(pending) = 0
      BY <1>4, FS_EmptySet DEF RehashDone
    <3> QED
      BY <1>0, <2>1, <3>1 DEF SizeInv, SizeCountsElements
  <2>3. CASE pc' = "place" /\ call.op \in Insertions /\ probe'.step = 0
    BY <2>1, <2>2, <2>3 DEF RoomInv, FullBehind
  <2> QED
    BY <2>1, <2>3, RoomIdle
<1> QED
  BY <1>1, <1>2, <1>3, <1>4 DEF RehashStep

(* A move of the prober leaves a full group behind. *)
LEMMA PlaceRoom ==
  ASSUME TypeInv, ReachInv, RoomInv, PlaceStep
  PROVE  RoomInv'
<1>1. call' = call
  BY DEF PlaceStep, PlaceNext, PlaceNew, PlaceMoved, Construct, ConstructThrows
<1>2. CASE PlaceNext
  <2>1. /\ pc \in {"place", "transfer"} /\ pc' = pc /\ EmptyCells = {} /\ probe' = NextBucket
        /\ UNCHANGED <<groupMask, ctrl, slotSize, oldSize>>
    BY <1>2 DEF PlaceNext, rehash
  <2>2. probe.step \in Nat /\ NextBucket.key = probe.key /\ NextBucket.step = probe.step + 1
    BY DEF TypeInv, ControlOK, NextBucket
  <2>3. probe.index = Probe(Home(probe.key), probe.step, groupMask)
    BY <2>1 DEF ReachInv, MemoryInv, ProbeInv, OnSequence
  <2>4. FullBehind(probe.key, probe.step + 1)
    <3> SUFFICES ASSUME NEW i \in 0..probe.step, NEW c \in DOMAIN ctrl,
                        c[1] = Probe(Home(probe.key), i, groupMask)
                 PROVE  ctrl[c] # EmptySlot
      BY <2>2 DEF FullBehind
    <3>1. CASE i = probe.step
      BY <2>1, <2>3, <3>1 DEF EmptyCells
    <3>2. CASE i \in 0..(probe.step - 1)
      BY <2>1, <3>2 DEF RoomInv, FullBehind
    <3> QED
      BY <2>2, <3>1, <3>2
  <2>5. FullBehind(probe.key, probe.step)'
    BY <2>1, <2>2, <2>4 DEF FullBehind, Home
  <2>6. SlotCapacity' = SlotCapacity
    BY <2>1 DEF SlotCapacity
  <2> QED
    BY <1>1, <2>1, <2>5, <2>6 DEF RoomInv
<1>3. CASE PlaceMoved
  <2>1. /\ pc = "transfer" /\ pc' = "rehash" /\ oldSize' = oldSize /\ SlotCapacity' = SlotCapacity
    BY <1>3 DEF PlaceMoved, SlotCapacity
  <2> QED
    BY <1>1, <2>1 DEF RoomInv
<1>4. CASE PlaceNew \/ Construct \/ ConstructThrows
  <2>1. pc' \in {"construct", "done"}
    BY <1>4 DEF PlaceNew, Construct, ConstructThrows, Done
  <2> QED
    BY <1>1, <2>1, RoomIdle
<1> QED
  BY <1>2, <1>3, <1>4 DEF PlaceStep

(* No step leaves an element without a place. *)
LEMMA NextRoom ==
  ASSUME TRUE \notin ShrinkArgs
  PROVE  TypeInv /\ ReachInv /\ MirrorInv /\ SizeInv /\ RoomInv /\ ThresholdFits /\ [Next]_vars
           => RoomInv'
<1> SUFFICES ASSUME TypeInv, ReachInv, MirrorInv, SizeInv, RoomInv, ThresholdFits, [Next]_vars
             PROVE  RoomInv'
  OBVIOUS
<1>1. CASE BeginKeyOp \/ BeginManagement
  BY <1>1, BeginRoom
<1>2. CASE Return
  BY <1>2 DEF Return, RoomInv, NoCall
<1>3. CASE UNCHANGED vars
  BY <1>3 DEF vars, table, rehash, RoomInv, SlotCapacity, FullBehind, Home
<1> QED
  BY <1>1, <1>2, <1>3, ManageRoom, FindRoom, RehashRoom, PlaceRoom DEF Next, Step

(* At first there is no call. *)
LEMMA InitRoom == Init => RoomInv
BY DEF Init, RoomInv, NoCall

(* The inductive invariant holds as long as the threshold has not wrapped. *)
LEMMA AlwaysRoom ==
  ASSUME MayThrow = FALSE, TRUE \notin ShrinkArgs
  PROVE  Spec /\ []ThresholdFits => [](TypeInv /\ ReachInv /\ MirrorInv /\ SizeInv /\ RoomInv)
<1> DEFINE Inv == TypeInv /\ ReachInv /\ MirrorInv /\ SizeInv /\ RoomInv
<1>1. Init => Inv
  BY InitType, InitReach, InitMirror, InitSize, InitRoom
<1>2. Inv /\ ThresholdFits /\ [Next]_vars => Inv'
  BY NextType, NextReach, NextMirror, NextSize, NextRoom
<1> QED
  BY <1>1, <1>2, PTL DEF Spec

(***************************************************************************)
(* The loop of find_empty_to_insert() has no bound, but it is never in     *)
(* more groups than the table has: there is a slot for every element that  *)
(* is inserted or moved, whatever was inserted and erased before, in a     *)
(* small table that is filled to its last slot and in one that has shrunk. *)
(***************************************************************************)
THEOREM InsertionsEnd ==
  ASSUME MayThrow = FALSE, TRUE \notin ShrinkArgs
  PROVE  Spec /\ []ThresholdFits =>
           [](pc \in {"place", "transfer"} => probe.step <= groupMask /\ slotSize < SlotCapacity)
<1>1. TypeInv /\ ReachInv /\ MirrorInv /\ SizeInv /\ RoomInv =>
        (pc \in {"place", "transfer"} => probe.step <= groupMask /\ slotSize < SlotCapacity)
  BY PlacesLeft
<1> QED
  BY <1>1, AlwaysRoom, PTL

(***************************************************************************)
(* How far a call still has to go: where it is between its beginning and   *)
(* its end, and how many groups or elements its loop has left there.       *)
(***************************************************************************)
Stage == CASE pc \in {"manage", "find"}     -> 6
           [] pc = "grow"                   -> 5
           [] pc \in {"rehash", "transfer"} -> 4
           [] pc = "place"                  -> 3
           [] pc = "construct"              -> 2
           [] pc = "done"                   -> 1
           [] pc = "idle"                   -> 0
LoopLeft == CASE pc \in {"find", "place"} -> groupMask - probe.step
              [] pc = "rehash"            -> Cardinality(pending) * (groupMask + 2)
              [] pc = "transfer"          -> Cardinality(pending) * (groupMask + 2) - 1 - probe.step
              [] OTHER                    -> 0

Shorter == Stage' < Stage \/ (Stage' = Stage /\ LoopLeft' < LoopLeft)

(* They are numbers. *)
LEMMA LeftRange ==
  ASSUME TypeInv, ReachInv, MirrorInv, SizeInv, RoomInv
  PROVE  /\ Stage \in 0..6 /\ LoopLeft \in Nat
         /\ Cardinality(pending) \in Nat /\ Cardinality(pending) * (groupMask + 2) \in Nat
<1>1. groupMask \in Nat /\ probe.step \in Nat /\ pc \in Phases
  BY DEF TypeInv, TableOK, ControlOK
<1>2. Cardinality(pending) \in Nat
  BY FS_CardinalityType DEF SizeInv
<1> DEFINE p == Cardinality(pending)
           x == p * (groupMask + 2)
<1>3. x \in Nat
  BY <1>1, <1>2
<1>4. Stage \in 0..6
  BY <1>1 DEF Stage, Phases
<1>5. pc \in {"find", "place"} => groupMask - probe.step \in Nat
  BY <1>1, PlacesLeft DEF RoomInv
<1>6. ASSUME pc = "transfer" PROVE x - 1 - probe.step \in Nat
  <2>1. p # 0
    BY <1>6, FS_EmptySet DEF SizeInv, TypeInv, CallOK
  <2>2. probe.step <= groupMask
    BY <1>6, PlacesLeft
  <2>3. x >= groupMask + 2
    <3> HIDE DEF p
    <3>1. 1 <= p /\ groupMask + 2 \in Nat /\ p \in Nat
      BY <1>1, <1>2, <2>1 DEF p
    <3>2. (groupMask + 2) * 1 <= (groupMask + 2) * p
      BY <3>1, TimesAtLeast
    <3> QED
      BY <3>1, <3>2
  <2> HIDE DEF x
  <2> QED
    BY <1>1, <1>3, <2>2, <2>3
<1>7. LoopLeft \in Nat
  <2> HIDE DEF x
  <2>1. LoopLeft = CASE pc \in {"find", "place"} -> groupMask - probe.step
                     [] pc = "rehash"            -> x
                     [] pc = "transfer"          -> x - 1 - probe.step
                     [] OTHER                    -> 0
    BY DEF LoopLeft, x
  <2> QED
    BY <1>3, <1>5, <1>6, <2>1
<1> QED
  BY <1>2, <1>3, <1>4, <1>7

(* A step on to a later stage. *)
LEMMA LaterStage ==
  ASSUME \/ pc \in {"manage", "find"} /\ pc' \in {"grow", "rehash", "done"}
         \/ pc = "grow" /\ pc' \in {"rehash", "place", "done"}
         \/ pc = "rehash" /\ pc' \in {"place", "done"}
         \/ pc = "place" /\ pc' = "construct"
         \/ pc = "construct" /\ pc' = "done"
         \/ pc = "done" /\ pc' = "idle"
  PROVE  Shorter
BY DEF Shorter, Stage

(* A step within a loop. *)
LEMMA LoopShorter ==
  ASSUME TypeInv, ReachInv, MirrorInv, SizeInv, RoomInv,
         FindNext \/ PlaceNext \/ TransferNext \/ PlaceMoved
  PROVE  Shorter
<1> DEFINE x == Cardinality(pending) * (groupMask + 2)
<1>1. groupMask \in Nat /\ probe.step \in Nat /\ x \in Nat /\ Cardinality(pending) \in Nat
  BY LeftRange DEF TypeInv, TableOK, ControlOK
<1>2. CASE FindNext
  <2>1. /\ pc = "find" /\ pc' = "find" /\ groupMask' = groupMask /\ probe'.step = probe.step + 1
    BY <1>2 DEF FindNext, MissedGroup, NextBucket, table
  <2> QED
    BY <1>1, <2>1 DEF Shorter, Stage, LoopLeft
<1>3. CASE PlaceNext
  <2>1. /\ pc \in {"place", "transfer"} /\ pc' = pc /\ groupMask' = groupMask
        /\ probe'.step = probe.step + 1 /\ pending' = pending
    BY <1>3 DEF PlaceNext, NextBucket, rehash
  <2>2. Stage' = Stage
    BY <2>1 DEF Stage
  <2>3. CASE pc = "place"
    BY <1>1, <2>1, <2>2, <2>3 DEF Shorter, LoopLeft
  <2>4. CASE pc = "transfer"
    <3>1. LoopLeft = x - 1 - probe.step /\ LoopLeft' = x - 1 - (probe.step + 1)
      BY <2>1, <2>4 DEF LoopLeft
    <3> HIDE DEF x
    <3> QED
      BY <1>1, <2>2, <3>1 DEF Shorter
  <2> QED
    BY <2>1, <2>3, <2>4
<1>4. CASE TransferNext
  <2>1. /\ pc = "rehash" /\ pc' = "transfer" /\ groupMask' = groupMask
        /\ probe'.step = 0 /\ pending' = pending
    BY <1>4 DEF TransferNext, StartProbe, table, rehash
  <2>2. Stage' = Stage
    BY <2>1 DEF Stage
  <2>3. LoopLeft = x /\ LoopLeft' = x - 1 - 0
    BY <2>1 DEF LoopLeft
  <2> HIDE DEF x
  <2> QED
    BY <1>1, <2>2, <2>3 DEF Shorter
<1>5. CASE PlaceMoved
  <2>1. /\ pc = "transfer" /\ pc' = "rehash" /\ groupMask' = groupMask
        /\ pending' = pending \ {NextPending}
    BY <1>5 DEF PlaceMoved
  <2>2. Stage' = Stage
    BY <2>1 DEF Stage
  <2>3. probe.step <= groupMask
    BY <2>1, PlacesLeft
  <2>4. Cardinality(pending') = Cardinality(pending) - 1
    <3>1. NextPending \in pending /\ IsFiniteSet(pending)
      BY <2>1, NextPendingExists DEF TypeInv, CallOK, RehashOK, SizeInv
    <3> QED
      BY <2>1, <3>1, FS_RemoveElement
  <2> DEFINE p == Cardinality(pending)
  <2>5. LoopLeft' = (p - 1) * (groupMask + 2) /\ LoopLeft = x - 1 - probe.step
    BY <2>1, <2>4 DEF LoopLeft
  <2>6. (p - 1) * (groupMask + 2) = x - (groupMask + 2)
    BY <1>1
  <2> HIDE DEF x, p
  <2> QED
    BY <1>1, <2>2, <2>3, <2>5, <2>6 DEF Shorter
<1> QED
  BY <1>2, <1>3, <1>4, <1>5

(***************************************************************************)
(* Every step of a call brings it nearer to its return: no loop of a call  *)
(* goes on for ever, whatever the hashes and however full the table.       *)
(***************************************************************************)
THEOREM CallsGetShorter ==
  ASSUME MayThrow = FALSE, TRUE \notin ShrinkArgs
  PROVE  Spec /\ []ThresholdFits =>
           /\ [](Stage \in 0..6 /\ LoopLeft \in Nat)
           /\ [][pc # "idle" => Shorter]_vars
<1> DEFINE Inv == TypeInv /\ ReachInv /\ MirrorInv /\ SizeInv /\ RoomInv
<1>1. Inv => Stage \in 0..6 /\ LoopLeft \in Nat
  BY LeftRange
<1>2. Inv /\ [Next]_vars => [pc # "idle" => Shorter]_vars
  <2> SUFFICES ASSUME Inv, Next, pc # "idle" PROVE Shorter
    BY DEF vars
  <2>1. Step
    BY DEF Next, BeginKeyOp, BeginManagement, Begin
  <2>2. CASE Manage
    <3>1. pc = "manage" /\ pc' \in {"rehash", "done"}
      BY <2>2 DEF Manage, Clear, Reserve, Rehash, ShrinkToFit, MaxLoadFactor, RehashImpl, CreateSlots,
                  Destroy, ClearData, Done
    <3> QED
      BY <3>1, LaterStage
  <2>3. CASE FindStep
    <3>1. FindNext \/ (pc = "find" /\ pc' \in {"grow", "done"})
      <4>1. CASE NotFound
        <5>1. pc = "find" /\ call.op \in Insertions \cup {"find", "erase"}
          BY <4>1 DEF NotFound, MissedGroup, TypeInv, CallOK, KeyOps
        <5> QED
          BY <4>1, <5>1 DEF NotFound, Done
      <4>2. CASE ReturnFound \/ KeepExisting \/ AssignExisting \/ EraseFound
        BY <4>2 DEF ReturnFound, KeepExisting, AssignExisting, EraseFound, Done, Hit
      <4> QED
        BY <2>3, <4>1, <4>2 DEF FindStep
    <3> QED
      BY <3>1, LaterStage, LoopShorter
  <2>4. CASE RehashStep
    <3>1. \/ TransferNext
          \/ pc = "grow" /\ pc' \in {"rehash", "place", "done"}
          \/ pc = "rehash" /\ pc' \in {"place", "done"}
      BY <2>4 DEF RehashStep, Grow, NoGrow, RehashDone, RehashImpl, CreateSlots, Done
    <3> QED
      BY <3>1, LaterStage, LoopShorter
  <2>5. CASE PlaceStep
    <3>1. \/ PlaceNext \/ PlaceMoved
          \/ pc = "place" /\ pc' = "construct"
          \/ pc = "construct" /\ pc' = "done"
      BY <2>5 DEF PlaceStep, PlaceNew, Construct, ConstructThrows, Done
    <3> QED
      BY <3>1, LaterStage, LoopShorter
  <2>6. CASE Return
    BY <2>6, LaterStage DEF Return
  <2> QED
    BY <2>1, <2>2, <2>3, <2>4, <2>5, <2>6 DEF Step
<1> QED
  BY <1>1, <1>2, AlwaysRoom, PTL DEF Spec
=============================================================================
