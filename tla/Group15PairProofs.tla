-------------------------- MODULE Group15PairProofs --------------------------
(***************************************************************************)
(* Two tables, for every hash, capacity, load factor and group width:      *)
(* swaps and copies keep both searchable, a copy has the elements of the   *)
(* original, and the table made for it has room for them.                  *)
(*                                                                         *)
(* The inductive invariant is that of Group15TableProofs for the table     *)
(* that is called, with none of what it says of the size: an array copy    *)
(* has a size of 0 beside its elements.  The other table and the copy      *)
(* being made are records; Fit says of a record what the invariant says of *)
(* a table between two calls, so that one can take the place of the other. *)
(***************************************************************************)
EXTENDS Group15Pair, Group15TableProofs

(***************************************************************************)
(* The capacity that reserve_for_insert(n) chooses is a number of control  *)
(* bytes; n slots are left all the same.                                   *)
(***************************************************************************)
LEMMA RoomForCopy ==
  ASSUME NEW n \in Nat, NEW m \in LoadFactors
  PROVE  n <= CalcSlotCapacity(CapacityFor(n, m) \div GroupWidth)
<1> DEFINE f == ShrinkToFitCapacity(n, m)
           r == AtLeast(f, MinCapacity)
<1>1. MinCapacity \in Nat /\ MinCapacity >= 1 /\ f \in Nat
  BY GroupAssumption, FitRange
<1>2. r \in Nat /\ r >= f /\ r >= MinCapacity /\ r >= 1
  <2> HIDE DEF f
  <2> QED
    BY <1>1 DEF AtLeast
<1>3. CapacityFor(n, m) = RoundUpPow2(r)
  BY DEF CapacityFor
<1> HIDE DEF r
<1>4. RoundUpPow2(r) \in Nat /\ RoundUpPow2(r) >= r /\ IsPow2(RoundUpPow2(r))
  BY <1>2, RoundUp
<1> QED
  BY <1>1, <1>2, <1>3, <1>4, RoomFor

-----------------------------------------------------------------------------
(* Tables as records *)

HomeIn(t, k) == IndexForHash(Hash[k], t.groupMask)
MarkedIn(t, k, n) == \A m \in 0..(n - 1) :
    OverflowBit(CtrlOf(k)) \in t.overflow[Probe(HomeIn(t, k), m, t.groupMask)]
ReachableIn(t, k, g) ==
    \E n \in 0..t.groupMask : Probe(HomeIn(t, k), n, t.groupMask) = g /\ MarkedIn(t, k, n)
SentinelIn(t, c) == c[2] = GroupSize - 1 /\ (c[1] = t.groupMask \/ t.groupMask = 0)
ElementsIn(t) == {t.slot[c] : c \in Live(t.slot)}

(***************************************************************************)
(* What a table that is not in the middle of a call has to be for another  *)
(* to take its fields over: the conjuncts of TypeInv, ReachInv, MirrorInv  *)
(* and KeysInv that speak of the table alone.                              *)
(***************************************************************************)
TypesFit(t) ==
    /\ t = [groupMask |-> t.groupMask, ctrl |-> t.ctrl, overflow |-> t.overflow, slot |-> t.slot,
            slotSize |-> t.slotSize, slotThreshold |-> t.slotThreshold, mlf |-> t.mlf]
    /\ t.groupMask \in Nat /\ IsPow2(t.groupMask + 1)
    /\ t.ctrl \in [Cells(t.groupMask) -> 0..(CtrlRange - 1)]
    /\ t.overflow \in [Groups(t.groupMask) -> SUBSET (0..(OverflowBits - 1))]
    /\ t.slot \in [Cells(t.groupMask) -> Element \cup {Raw}]
    /\ t.slotSize \in Nat /\ t.slotThreshold \in Nat /\ t.mlf \in LoadFactors
MemoryFits(t) == t.groupMask = 0 =>
    t.ctrl = DefaultCtrl /\ t.slot = AllRaw(0) /\ t.slotThreshold = 0
MirrorFits(t) == \A c \in Cells(t.groupMask) :
    /\ SentinelIn(t, c) => t.ctrl[c] = SentinelSlot /\ t.slot[c] = Raw
    /\ ~ SentinelIn(t, c) /\ t.slot[c] # Raw => t.ctrl[c] = CtrlOf(t.slot[c].key)
    /\ ~ SentinelIn(t, c) /\ t.slot[c] = Raw => t.ctrl[c] = EmptySlot
ReachFits(t) == \A c \in Live(t.slot) : ReachableIn(t, t.slot[c].key, c[1])
KeysFit(t) == \A c, d \in Live(t.slot) : t.slot[c].key = t.slot[d].key => c = d

Fit(t) == TypesFit(t) /\ MemoryFits(t) /\ MirrorFits(t) /\ ReachFits(t) /\ KeysFit(t)

(* The table that is not called is searchable if its fields fit. *)
LEMMA OtherFits ==
  ASSUME Fit(other)
  PROVE  Other!CtrlMirrorsSlots /\ Other!EveryElementReachable /\ Other!UniqueKeys
<1>1. DOMAIN other.ctrl = Cells(other.groupMask)
  BY DEF Fit, TypesFit
<1>2. Other!CtrlMirrorsSlots
  BY <1>1 DEF Fit, MirrorFits, SentinelIn, Other!CtrlMirrorsSlots, Other!IsSentinel, Other!Constructing,
              Other!Allocated, Other!EmptySlot, Other!SentinelSlot, EmptySlot, SentinelSlot,
              Other!GroupSize, GroupSize, Other!CtrlOf, CtrlOf, Other!CtrlForHash, CtrlForHash,
              Other!CtrlRange, CtrlRange, Other!OverflowBits, OverflowBits
<1>3. Other!EveryElementReachable
  <2>1. ASSUME NEW i, NEW n, NEW mask PROVE Other!Probe(i, n, mask) = Probe(i, n, mask)
    BY DEF Other!Probe, Probe, Other!Triangle, Triangle
  <2>2. ASSUME NEW k
        PROVE  Other!OverflowBit(Other!CtrlOf(k)) = OverflowBit(CtrlOf(k)) /\ Other!Home(k) = HomeIn(other, k)
    BY DEF Other!OverflowBit, OverflowBit, Other!CtrlOf, CtrlOf, Other!CtrlForHash, CtrlForHash,
           Other!CtrlRange, CtrlRange, Other!OverflowBits, OverflowBits, Other!SentinelSlot, SentinelSlot,
           Other!Home, HomeIn, Other!IndexForHash, IndexForHash
  <2>3. ASSUME NEW k, NEW g PROVE Other!Reachable(k, g) = ReachableIn(other, k, g)
    BY <2>1, <2>2 DEF Other!Reachable, ReachableIn, MarkedIn
  <2> QED
    BY <2>3 DEF Fit, ReachFits, Other!EveryElementReachable, Other!Live, Live
<1>4. Other!UniqueKeys
  BY DEF Fit, KeysFit, Other!UniqueKeys, Other!Live, Live, NoSlots, Other!NoSlots
<1> QED
  BY <1>2, <1>3, <1>4


(* The copy being made is searchable if its fields fit. *)
LEMMA CopyFits ==
  ASSUME Fit(copy)
  PROVE  Copy!CtrlMirrorsSlots /\ Copy!EveryElementReachable /\ Copy!UniqueKeys
<1>1. DOMAIN copy.ctrl = Cells(copy.groupMask)
  BY DEF Fit, TypesFit
<1>2. Copy!CtrlMirrorsSlots
  BY <1>1 DEF Fit, MirrorFits, SentinelIn, Copy!CtrlMirrorsSlots, Copy!IsSentinel, Copy!Constructing,
              Copy!Allocated, Copy!EmptySlot, Copy!SentinelSlot, EmptySlot, SentinelSlot,
              Copy!GroupSize, GroupSize, Copy!CtrlOf, CtrlOf, Copy!CtrlForHash, CtrlForHash,
              Copy!CtrlRange, CtrlRange, Copy!OverflowBits, OverflowBits
<1>3. Copy!EveryElementReachable
  <2>1. ASSUME NEW i, NEW n, NEW mask PROVE Copy!Probe(i, n, mask) = Probe(i, n, mask)
    BY DEF Copy!Probe, Probe, Copy!Triangle, Triangle
  <2>2. ASSUME NEW k
        PROVE  Copy!OverflowBit(Copy!CtrlOf(k)) = OverflowBit(CtrlOf(k)) /\ Copy!Home(k) = HomeIn(copy, k)
    BY DEF Copy!OverflowBit, OverflowBit, Copy!CtrlOf, CtrlOf, Copy!CtrlForHash, CtrlForHash,
           Copy!CtrlRange, CtrlRange, Copy!OverflowBits, OverflowBits, Copy!SentinelSlot, SentinelSlot,
           Copy!Home, HomeIn, Copy!IndexForHash, IndexForHash
  <2>3. ASSUME NEW k, NEW g PROVE Copy!Reachable(k, g) = ReachableIn(copy, k, g)
    BY <2>1, <2>2 DEF Copy!Reachable, ReachableIn, MarkedIn
  <2> QED
    BY <2>3 DEF Fit, ReachFits, Copy!EveryElementReachable, Copy!Live, Live
<1>4. Copy!UniqueKeys
  BY DEF Fit, KeysFit, Copy!UniqueKeys, Copy!Live, Live, NoSlots, Copy!NoSlots
<1> QED
  BY <1>2, <1>3, <1>4

(* The mapping of the table that is not called. *)
LEMMA OtherContents == Other!Contents = ContentsOf(ElementsIn(other))
<1>1. Other!Elements = ElementsIn(other)
  BY DEF Other!Elements, Other!Live, Live, NoSlots, Other!NoSlots, ElementsIn
<1> QED
  BY <1>1 DEF Other!Contents, ContentsOf

(* The inductive invariant of the table that is called *)
TableInv == TypeInv /\ ReachInv /\ MirrorInv /\ KeysInv

(* Between two calls the fields of the table that is called fit, ... *)
LEMMA ThisFits ==
  ASSUME TableInv, pc = "idle"
  PROVE  Fit(This) /\ ElementsIn(This) = {slot[c] : c \in Live(slot)}
<1>1. /\ This.groupMask = groupMask /\ This.ctrl = ctrl /\ This.overflow = overflow /\ This.slot = slot
      /\ This.slotSize = slotSize /\ This.slotThreshold = slotThreshold /\ This.mlf = mlf
  BY DEF This
<1>2. TypesFit(This)
  BY <1>1 DEF TypesFit, This, TableInv, TypeInv, TableOK
<1>3. MemoryFits(This)
  BY <1>1 DEF MemoryFits, TableInv, ReachInv, MemoryInv, Allocated
<1>4. MirrorFits(This)
  <2>1. DOMAIN ctrl = Cells(groupMask)
    BY DEF TableInv, TypeInv, TableOK
  <2> QED
    BY <1>1, <2>1 DEF MirrorFits, SentinelIn, TableInv, MirrorInv, CtrlMirrorsSlots, IsSentinel, Constructing, Allocated
<1>5. ReachFits(This)
  BY <1>1 DEF ReachFits, ReachableIn, MarkedIn, HomeIn, TableInv, ReachInv, EveryElementReachable, Reachable, Home
<1>6. KeysFit(This)
  BY <1>1 DEF KeysFit, TableInv, KeysInv, UniqueKeys
<1> QED
  BY <1>1, <1>2, <1>3, <1>4, <1>5, <1>6 DEF Fit, ElementsIn

(* swap_content(), seen from one side *)
Taken(t) ==
    /\ groupMask' = t.groupMask /\ ctrl' = t.ctrl /\ overflow' = t.overflow
    /\ slot' = t.slot /\ slotSize' = t.slotSize
    /\ slotThreshold' = t.slotThreshold /\ mlf' = t.mlf

(* ... and fields that fit can be taken over. *)
LEMMA TakenFits ==
  ASSUME TableInv, pc = "idle", NEW t, Fit(t), Taken(t),
         UNCHANGED <<pc, call, probe, at, rehash, ret>>
  PROVE  TableInv'
<1>1. TypeInv'
  <2>1. TableOK' /\ mlf' \in LoadFactors
    BY DEF Taken, Fit, TypesFit, TableOK
  <2>2. ControlOK' /\ RehashOK' /\ CallOK'
    BY DEF TableInv, TypeInv, ControlOK, RehashOK, CallOK, rehash
  <2> QED
    BY <2>1, <2>2 DEF TypeInv
<1>2. ReachInv'
  <2>1. MemoryInv' /\ ProbeInv'
    BY DEF Taken, Fit, MemoryFits, MemoryInv, ProbeInv, Allocated
  <2>2. EveryElementReachable'
    BY DEF Taken, Fit, ReachFits, ReachableIn, MarkedIn, HomeIn, EveryElementReachable, Reachable, Home
  <2> QED
    BY <2>1, <2>2 DEF ReachInv
<1>3. MirrorInv'
  <2>1. DOMAIN ctrl' = Cells(groupMask')
    BY DEF Taken, Fit, TypesFit
  <2>2. CtrlMirrorsSlots'
    BY <2>1 DEF Taken, Fit, MirrorFits, SentinelIn, CtrlMirrorsSlots, IsSentinel, Constructing, Allocated
  <2> QED
    BY <2>2 DEF MirrorInv, AtFree, PendingLive, TableInv, rehash
<1>4. KeysInv'
  <2>1. oldSlot' = oldSlot /\ oldSlot = NoSlots /\ pending' = pending /\ Live(oldSlot) = {}
    BY DEF TableInv, KeysInv, OldInv, NoSlots, Live, rehash
  <2>2. UniqueKeys'
    BY <2>1 DEF Taken, Fit, KeysFit, UniqueKeys
  <2>3. OldInv' /\ SearchInv' /\ NewKeyInv'
    BY <2>1 DEF TableInv, KeysInv, OldInv, SearchInv, NewKeyInv, Inserting
  <2> QED
    BY <2>2, <2>3 DEF KeysInv
<1> QED
  BY <1>1, <1>2, <1>3, <1>4 DEF TableInv


-----------------------------------------------------------------------------
(* New tables *)

(* A table without memory fits. *)
LEMMA EmptyFits ==
  ASSUME NEW m \in LoadFactors
  PROVE  /\ Fit(EmptyTable(m)) /\ EmptyTable(m).mlf = m
         /\ Live(EmptyTable(m).slot) = {} /\ ElementsIn(EmptyTable(m)) = {}
<1> DEFINE t == EmptyTable(m)
<1>1. /\ t.groupMask = 0 /\ t.ctrl = DefaultCtrl /\ t.overflow = NoOverflow(0) /\ t.slot = AllRaw(0)
      /\ t.slotSize = 0 /\ t.slotThreshold = 0 /\ t.mlf = m
  BY DEF EmptyTable
<1>2. TypesFit(t)
  <2>1. IsPow2(0 + 1)
    BY DEF IsPow2
  <2> QED
    BY <1>1, <2>1, FreshTable DEF TypesFit, EmptyTable
<1>3. Live(t.slot) = {} /\ ElementsIn(t) = {}
  BY <1>1 DEF Live, AllRaw, ElementsIn
<1>4. MemoryFits(t) /\ ReachFits(t) /\ KeysFit(t)
  BY <1>1, <1>3 DEF MemoryFits, ReachFits, KeysFit
<1>5. MirrorFits(t)
  BY <1>1 DEF MirrorFits, SentinelIn, DefaultCtrl, AllRaw
<1> QED
  BY <1>1, <1>2, <1>3, <1>4, <1>5 DEF Fit

(* reserve_for_insert() makes a power of two of groups, more than one. *)
LEMMA CapacityRange ==
  ASSUME NEW n \in Nat, NEW m \in LoadFactors
  PROVE  /\ CapacityFor(n, m) \in Nat
         /\ CapacityFor(n, m) \div GroupWidth - 1 \in Nat
         /\ CapacityFor(n, m) \div GroupWidth - 1 # 0
         /\ IsPow2(CapacityFor(n, m) \div GroupWidth)
         /\ CapacityFor(n, m) >= 2 * GroupWidth
<1> DEFINE r == AtLeast(ShrinkToFitCapacity(n, m), MinCapacity)
           c == CapacityFor(n, m)
<1>1. MinCapacity \in Nat /\ GroupWidth \in Nat \ {0} /\ GroupWidth >= 2
      /\ IsPow2(GroupWidth) /\ MinCapacity = 2 * GroupWidth
  BY GroupAssumption
<1>2. r \in Nat /\ r >= 1 /\ r >= MinCapacity
  BY <1>1, FitRange DEF AtLeast
<1>3. c \in Nat /\ c >= r /\ IsPow2(c)
  <2>1. c = RoundUpPow2(r)
    BY DEF CapacityFor
  <2> HIDE DEF r, c
  <2> QED
    BY <2>1, <1>2, RoundUp
<1> HIDE DEF r, c
<1>4. c >= 2 * GroupWidth /\ GroupWidth <= c
  BY <1>1, <1>2, <1>3
<1>5. PICK q \in Nat : c = GroupWidth * q /\ IsPow2(q)
  BY <1>1, <1>3, <1>4, Pow2Divides
<1>6. q >= 2
  <2> SUFFICES ASSUME q <= 1 PROVE FALSE
    OBVIOUS
  <2>1. q = 0 \/ q = 1
    OBVIOUS
  <2> QED
    BY <2>1, <1>1, <1>4, <1>5
<1>7. c \div GroupWidth = q
  BY <1>1, <1>5, Quotient
<1> QED
  BY <1>3, <1>4, <1>5, <1>6, <1>7 DEF c

(* A table made by create_slots() fits. *)
LEMMA NewFits ==
  ASSUME NEW n \in Nat, NEW m \in LoadFactors
  PROVE  /\ Fit(NewTable(n, m)) /\ NewTable(n, m).mlf = m
         /\ NewTable(n, m).groupMask = CapacityFor(n, m) \div GroupWidth - 1
         /\ NewTable(n, m).groupMask # 0
         /\ Live(NewTable(n, m).slot) = {} /\ ElementsIn(NewTable(n, m)) = {}
<1> DEFINE t == NewTable(n, m)
           mask == CapacityFor(n, m) \div GroupWidth - 1
<1>1. /\ t.groupMask = mask /\ t.ctrl = FreshCtrl(mask) /\ t.overflow = NoOverflow(mask)
      /\ t.slot = AllRaw(mask) /\ t.slotSize = 0 /\ t.mlf = m
      /\ t.slotThreshold = CalcSlotThreshold(m, CalcSlotCapacity(mask + 1))
      /\ t = [groupMask |-> t.groupMask, ctrl |-> t.ctrl, overflow |-> t.overflow, slot |-> t.slot,
              slotSize |-> t.slotSize, slotThreshold |-> t.slotThreshold, mlf |-> t.mlf]
  BY DEF NewTable
<1>2. mask \in Nat /\ mask # 0 /\ IsPow2(mask + 1)
  <2> DEFINE q == CapacityFor(n, m) \div GroupWidth
  <2>1. q - 1 \in Nat /\ q - 1 # 0 /\ IsPow2(q) /\ q \in Int
    <3>1. q - 1 \in Nat /\ q - 1 # 0 /\ IsPow2(q) /\ CapacityFor(n, m) \in Nat /\ GroupWidth \in Nat \ {0}
      BY CapacityRange, GroupAssumption
    <3> DEFINE c == CapacityFor(n, m)
    <3>2. c \div GroupWidth \in Int
      <4> HIDE DEF c
      <4> QED
        BY <3>1 DEF c
    <3> QED
      BY <3>1, <3>2
  <2> HIDE DEF q
  <2>2. (q - 1) + 1 = q
    BY <2>1
  <2>3. IsPow2((q - 1) + 1)
    BY <2>1, <2>2
  <2> QED
    BY <2>1, <2>3 DEF q
<1> HIDE DEF t, mask
<1>3. TypesFit(t)
  <2>1. CalcSlotCapacity(mask + 1) \in Nat
    BY <1>2, GroupAssumption DEF CalcSlotCapacity, GroupSize
  <2>2. CalcSlotThreshold(m, CalcSlotCapacity(mask + 1)) \in Nat
    BY <2>1, ThresholdRange
  <2> QED
    BY <1>1, <1>2, <2>2, FreshTable DEF TypesFit
<1>4. Live(t.slot) = {} /\ ElementsIn(t) = {}
  BY <1>1 DEF Live, AllRaw, ElementsIn
<1>5. MemoryFits(t) /\ ReachFits(t) /\ KeysFit(t)
  BY <1>1, <1>2, <1>4 DEF MemoryFits, ReachFits, KeysFit
<1>6. MirrorFits(t)
  BY <1>1, <1>2, FreshMirrors DEF MirrorFits, SentinelIn
<1>7. t = NewTable(n, m) /\ mask = CapacityFor(n, m) \div GroupWidth - 1
  BY DEF t, mask
<1> QED
  BY <1>1, <1>2, <1>3, <1>4, <1>5, <1>6, <1>7 DEF Fit

(* The constructor with a capacity makes one of the two. *)
LEMMA WithCapacityFits ==
  ASSUME NEW n \in Nat
  PROVE  Fit(WithCapacity(n))
BY EmptyFits, NewFits, LoadFactorAssumption DEF WithCapacity

(***************************************************************************)
(* An array copy has the bytes, overflow bits and slots of the original,   *)
(* which has memory: its capacity is one that reserve_for_insert() made.   *)
(***************************************************************************)
LEMMA FastFits ==
  ASSUME TableInv, pc = "idle", IsFast
  PROVE  Fit(FastCopy) /\ FastCopy.mlf = mlf /\ ElementsIn(FastCopy) = {slot[c] : c \in Live(slot)}
<1> DEFINE t == FastCopy
           x == CalcSlotThreshold(mlf, SlotCapacity)
<1>1. /\ t.groupMask = groupMask /\ t.ctrl = ctrl /\ t.overflow = overflow /\ t.slot = slot
      /\ t.slotSize = 0 /\ t.mlf = mlf
      /\ t.slotThreshold = x
      /\ t = [groupMask |-> t.groupMask, ctrl |-> t.ctrl, overflow |-> t.overflow, slot |-> t.slot,
              slotSize |-> t.slotSize, slotThreshold |-> t.slotThreshold, mlf |-> t.mlf]
  <2>1. t = [This EXCEPT !.slotSize = 0, !.slotThreshold = x]
    BY DEF FastCopy
  <2> HIDE DEF t, x
  <2>2. t = [groupMask |-> groupMask, ctrl |-> ctrl, overflow |-> overflow, slot |-> slot,
             slotSize |-> 0, slotThreshold |-> x, mlf |-> mlf]
    BY <2>1 DEF This
  <2> QED
    BY <2>2
<1>2. groupMask \in Nat /\ slotSize \in Nat /\ mlf \in LoadFactors
  BY DEF TableInv, TypeInv, TableOK
<1>3. groupMask # 0
  <2>1. GroupWidth \in Nat /\ GroupWidth > 0
    BY GroupAssumption
  <2>2. (groupMask + 1) * GroupWidth >= 2 * GroupWidth
    BY <1>2, CapacityRange DEF IsFast, CtrlCapacity
  <2> QED
    BY <1>2, <2>1, <2>2
<1>4. x \in Nat
  <2>1. SlotCapacity \in Nat
    BY <1>2, GroupAssumption DEF SlotCapacity, CalcSlotCapacity, GroupSize
  <2> QED
    BY <1>2, <2>1, ThresholdRange
<1>5. Fit(This) /\ This.groupMask = groupMask /\ This.ctrl = ctrl /\ This.overflow = overflow /\ This.slot = slot
      /\ ElementsIn(This) = {slot[c] : c \in Live(slot)}
  BY ThisFits DEF This
<1> HIDE DEF t, x
<1>6. TypesFit(t)
  BY <1>1, <1>2, <1>4, <1>5 DEF Fit, TypesFit
<1>7. MemoryFits(t) /\ KeysFit(t) /\ MirrorFits(t)
  BY <1>1, <1>3, <1>5 DEF Fit, MemoryFits, KeysFit, MirrorFits, SentinelIn
<1>8. ReachFits(t)
  BY <1>1, <1>5 DEF Fit, ReachFits, ReachableIn, MarkedIn, HomeIn
<1>9. ElementsIn(t) = {slot[c] : c \in Live(slot)}
  BY <1>1 DEF ElementsIn
<1> QED
  BY <1>1, <1>6, <1>7, <1>8, <1>9 DEF Fit, t


-----------------------------------------------------------------------------
(* An insertion of a copy *)

(* The least of some numbers is one of them. *)
LEMMA MinIn ==
  ASSUME NEW S, S \subseteq Nat, S # {}
  PROVE  Sets!Min(S) \in S
<1>1. PICK x \in S : \A y \in S : x <= y
  BY LeastElement
<1> QED
  BY <1>1 DEF Sets!Min

(* The place of an element of a new key: its group, the position in it,    *)
(* and how far on the probe sequence of the key the group is.              *)
ProbeLength(t, k) == Sets!Min(Roomy(t, k))
PlaceOf(t, k) == <<ProbesOf(t, k)[ProbeLength(t, k)],
                   Sets!Min(EmptyIn(t, ProbesOf(t, k)[ProbeLength(t, k)]))>>
Passed(t, k) == {ProbesOf(t, k)[m] : m \in 0..(ProbeLength(t, k) - 1)}
MarkedUpTo(t, k) ==
    [g \in DOMAIN t.overflow |->
        t.overflow[g] \cup (IF g \in Passed(t, k) THEN {OverflowBit(CtrlOf(k))} ELSE {})]

(* The fields of the table after the insertion. *)
LEMMA InsertFields ==
  ASSUME NEW t, TypesFit(t), NEW e
  PROVE  UniqueInsert(t, e) =
           [groupMask |-> t.groupMask,
            ctrl |-> [t.ctrl EXCEPT ![PlaceOf(t, e.key)] = CtrlOf(e.key)],
            overflow |-> MarkedUpTo(t, e.key),
            slot |-> [t.slot EXCEPT ![PlaceOf(t, e.key)] = e],
            slotSize |-> t.slotSize + 1, slotThreshold |-> t.slotThreshold, mlf |-> t.mlf]
<1> DEFINE c == PlaceOf(t, e.key)
           o == MarkedUpTo(t, e.key)
           b == CtrlOf(e.key)
<1>1. UniqueInsert(t, e) = [t EXCEPT !.ctrl[c] = b, !.slot[c] = e, !.overflow = o, !.slotSize = @ + 1]
  BY DEF UniqueInsert, PlaceOf, MarkedUpTo, Passed, ProbeLength
<1> HIDE DEF c, o, b
<1> DEFINE u == UniqueInsert(t, e)
<1> HIDE DEF u
<1>2. u = [t EXCEPT !.ctrl[c] = b, !.slot[c] = e, !.overflow = o, !.slotSize = @ + 1]
  BY <1>1 DEF u
<1>3. u = [groupMask |-> t.groupMask, ctrl |-> [t.ctrl EXCEPT ![c] = b], overflow |-> o,
           slot |-> [t.slot EXCEPT ![c] = e],
           slotSize |-> t.slotSize + 1, slotThreshold |-> t.slotThreshold, mlf |-> t.mlf]
  BY <1>2 DEF TypesFit
<1> QED
  BY <1>3 DEF u, c, o, b

(***************************************************************************)
(* The place is an empty slot that is not the sentinel's, in a group of    *)
(* the probe sequence.                                                     *)
(***************************************************************************)
LEMMA PlaceIsFree ==
  ASSUME NEW t, TypesFit(t), MirrorFits(t), t.groupMask # 0, NEW k \in Key, Roomy(t, k) # {}
  PROVE  /\ PlaceOf(t, k) \in Cells(t.groupMask) /\ ~ SentinelIn(t, PlaceOf(t, k))
         /\ t.slot[PlaceOf(t, k)] = Raw
         /\ ProbeLength(t, k) \in 0..t.groupMask
         /\ PlaceOf(t, k)[1] = Probe(HomeIn(t, k), ProbeLength(t, k), t.groupMask)
<1> DEFINE n == ProbeLength(t, k)
           g == ProbesOf(t, k)[n]
           p == Sets!Min(EmptyIn(t, g))
<1>1. n \in Roomy(t, k) /\ n \in 0..t.groupMask /\ EmptyIn(t, g) # {}
  <2>1. Roomy(t, k) \subseteq Nat
    BY DEF Roomy, TypesFit
  <2>2. n \in Roomy(t, k)
    BY <2>1, MinIn DEF ProbeLength
  <2> HIDE DEF n
  <2> QED
    BY <2>2 DEF Roomy
<1>2. p \in 0..(GroupSize - 1) /\ t.ctrl[<<g, p>>] = EmptySlot
  <2>1. EmptyIn(t, g) \subseteq Nat
    BY DEF EmptyIn
  <2>2. p \in EmptyIn(t, g)
    BY <1>1, <2>1, MinIn
  <2> HIDE DEF p, g
  <2> QED
    BY <2>2 DEF EmptyIn
<1>3. g = Probe(HomeIn(t, k), n, t.groupMask)
  BY <1>1 DEF ProbesOf, HomeIn
<1>4. g \in 0..t.groupMask
  <2>1. HomeIn(t, k) \in 0..t.groupMask
    BY IndexRange DEF HomeIn, TypesFit
  <2> QED
    BY <1>1, <1>3, <2>1, ProbeRange DEF TypesFit
<1>5. PlaceOf(t, k) = <<g, p>>
  BY DEF PlaceOf
<1> HIDE DEF n, g, p
<1>6. <<g, p>> \in Cells(t.groupMask)
  BY <1>2, <1>4 DEF Cells, Groups
<1>7. ~ SentinelIn(t, <<g, p>>) /\ t.slot[<<g, p>>] = Raw
  <2>1. ~ SentinelIn(t, <<g, p>>)
    BY <1>2, <1>6 DEF MirrorFits, EmptySlot, SentinelSlot
  <2>2. ASSUME t.slot[<<g, p>>] # Raw PROVE FALSE
    <3>1. t.slot[<<g, p>>].key \in Key
      BY <1>6, <2>2 DEF TypesFit, Element
    <3>2. t.ctrl[<<g, p>>] = CtrlOf(t.slot[<<g, p>>].key)
      BY <1>6, <2>1, <2>2 DEF MirrorFits
    <3> QED
      BY <1>2, <3>1, <3>2, CtrlOfRange
  <2> QED
    BY <2>1, <2>2
<1> QED
  BY <1>1, <1>3, <1>5, <1>6, <1>7 DEF n, g, p

(***************************************************************************)
(* The insertion of an element of a new key keeps the table one that fits, *)
(* and adds the element: whatever was reachable stays so, because overflow *)
(* bits are only set, and the new element is, because all groups before    *)
(* its own get its bit.                                                    *)
(***************************************************************************)
LEMMA InsertFits ==
  ASSUME NEW t, Fit(t), t.groupMask # 0, NEW e \in Element, Roomy(t, e.key) # {},
         \A f \in ElementsIn(t) : f.key # e.key
  PROVE  /\ Fit(UniqueInsert(t, e))
         /\ UniqueInsert(t, e).groupMask = t.groupMask /\ UniqueInsert(t, e).mlf = t.mlf
         /\ ElementsIn(UniqueInsert(t, e)) = ElementsIn(t) \cup {e}
         /\ PlaceOf(t, e.key) \notin Live(t.slot)
         /\ Live(UniqueInsert(t, e).slot) = Live(t.slot) \cup {PlaceOf(t, e.key)}
<1> DEFINE u == UniqueInsert(t, e)
           k == e.key
           c == PlaceOf(t, k)
           n == ProbeLength(t, k)
<1>1. k \in Key /\ e # Raw /\ TypesFit(t) /\ t.groupMask \in Nat
  BY KeyAssumption DEF Element, Fit, TypesFit
<1>2. /\ u.groupMask = t.groupMask /\ u.ctrl = [t.ctrl EXCEPT ![c] = CtrlOf(k)]
      /\ u.overflow = MarkedUpTo(t, k)
      /\ u.slot = [t.slot EXCEPT ![c] = e] /\ u.slotSize = t.slotSize + 1
      /\ u.slotThreshold = t.slotThreshold /\ u.mlf = t.mlf
      /\ u = [groupMask |-> u.groupMask, ctrl |-> u.ctrl, overflow |-> u.overflow, slot |-> u.slot,
              slotSize |-> u.slotSize, slotThreshold |-> u.slotThreshold, mlf |-> u.mlf]
  <2>1. u = [groupMask |-> t.groupMask, ctrl |-> [t.ctrl EXCEPT ![c] = CtrlOf(k)],
             overflow |-> MarkedUpTo(t, k), slot |-> [t.slot EXCEPT ![c] = e],
             slotSize |-> t.slotSize + 1, slotThreshold |-> t.slotThreshold, mlf |-> t.mlf]
    BY <1>1, InsertFields
  <2> HIDE DEF u, c, k
  <2> QED
    BY <2>1
<1>3. /\ c \in Cells(t.groupMask) /\ ~ SentinelIn(t, c) /\ t.slot[c] = Raw
      /\ n \in 0..t.groupMask /\ c[1] = Probe(HomeIn(t, k), n, t.groupMask)
  BY <1>1, PlaceIsFree DEF Fit
<1>4. CtrlOf(k) \in 0..(CtrlRange - 1) /\ OverflowBit(CtrlOf(k)) \in 0..(OverflowBits - 1)
  BY <1>1, CtrlOfRange, BitRange
<1>5. DOMAIN t.slot = Cells(t.groupMask) /\ DOMAIN t.ctrl = Cells(t.groupMask)
      /\ DOMAIN t.overflow = Groups(t.groupMask)
  BY <1>1 DEF TypesFit
<1> HIDE DEF u, k, c, n
<1>6. /\ Live(u.slot) = Live(t.slot) \cup {c} /\ c \notin Live(t.slot)
      /\ \A d \in Live(t.slot) : u.slot[d] = t.slot[d]
      /\ u.slot[c] = e
  BY <1>1, <1>2, <1>3, <1>5, LiveInsert
<1>7. ElementsIn(u) = ElementsIn(t) \cup {e}
  BY <1>6 DEF ElementsIn
<1>8. TypesFit(u)
  <2>1. u.overflow \in [Groups(t.groupMask) -> SUBSET (0..(OverflowBits - 1))]
    BY <1>1, <1>2, <1>4, <1>5 DEF MarkedUpTo, TypesFit
  <2>2. u.ctrl \in [Cells(t.groupMask) -> 0..(CtrlRange - 1)]
    BY <1>1, <1>2, <1>4 DEF TypesFit
  <2>3. u.slot \in [Cells(t.groupMask) -> Element \cup {Raw}]
    BY <1>1, <1>2 DEF TypesFit
  <2> QED
    BY <1>1, <1>2, <2>1, <2>2, <2>3 DEF TypesFit
<1>9. MemoryFits(u)
  BY <1>2 DEF MemoryFits
<1>10. MirrorFits(u)
  <2> SUFFICES ASSUME NEW d \in Cells(t.groupMask)
               PROVE  /\ SentinelIn(t, d) => u.ctrl[d] = SentinelSlot /\ u.slot[d] = Raw
                      /\ ~ SentinelIn(t, d) /\ u.slot[d] # Raw => u.ctrl[d] = CtrlOf(u.slot[d].key)
                      /\ ~ SentinelIn(t, d) /\ u.slot[d] = Raw => u.ctrl[d] = EmptySlot
    BY <1>2 DEF MirrorFits, SentinelIn
  <2>1. CASE d = c
    BY <1>1, <1>2, <1>3, <1>5, <2>1 DEF k
  <2>2. CASE d # c
    <3>1. u.ctrl[d] = t.ctrl[d] /\ u.slot[d] = t.slot[d]
      BY <1>2, <1>5, <2>2
    <3> QED
      BY <3>1 DEF Fit, MirrorFits
  <2> QED
    BY <2>1, <2>2
<1>11. ASSUME NEW l \in Key, NEW m \in 0..t.groupMask
       PROVE  Probe(HomeIn(t, l), m, t.groupMask) \in Groups(t.groupMask)
  <2>1. HomeIn(t, l) \in 0..t.groupMask
    BY <1>1, IndexRange DEF HomeIn
  <2>2. Probe(HomeIn(t, l), m, t.groupMask) \in 0..t.groupMask
    BY <1>1, <2>1, ProbeRange DEF TypesFit
  <2> QED
    BY <1>1, <2>2 DEF Groups
<1>12. ReachFits(u)
  <2>1. \A l : HomeIn(u, l) = HomeIn(t, l)
    BY <1>2 DEF HomeIn
  <2>2. ASSUME NEW l \in Key, NEW g, ReachableIn(t, l, g) PROVE ReachableIn(u, l, g)
    <3>1. PICK i \in 0..t.groupMask : Probe(HomeIn(t, l), i, t.groupMask) = g /\ MarkedIn(t, l, i)
      BY <2>2 DEF ReachableIn
    <3>2. ASSUME NEW m \in 0..(i - 1)
          PROVE  OverflowBit(CtrlOf(l)) \in u.overflow[Probe(HomeIn(t, l), m, t.groupMask)]
      <4>1. m \in 0..t.groupMask
        BY <1>1
      <4>2. Probe(HomeIn(t, l), m, t.groupMask) \in Groups(t.groupMask)
        BY <1>11, <4>1
      <4> QED
        BY <1>2, <1>5, <3>1, <4>2 DEF MarkedIn, MarkedUpTo
    <3> QED
      BY <1>2, <2>1, <3>1, <3>2 DEF ReachableIn, MarkedIn
  <2>3. ReachableIn(u, k, c[1])
    <3>1. ASSUME NEW m \in 0..(n - 1)
          PROVE  OverflowBit(CtrlOf(k)) \in u.overflow[Probe(HomeIn(t, k), m, t.groupMask)]
      <4>1. m \in 0..t.groupMask
        BY <1>1, <1>3
      <4>2. Probe(HomeIn(t, k), m, t.groupMask) \in Groups(t.groupMask)
        BY <1>1, <1>11, <4>1
      <4>3. Probe(HomeIn(t, k), m, t.groupMask) \in Passed(t, k)
        BY <4>1 DEF Passed, ProbesOf, HomeIn, n
      <4> QED
        BY <1>2, <1>5, <4>2, <4>3 DEF MarkedUpTo
    <3> QED
      BY <1>2, <1>3, <2>1, <3>1 DEF ReachableIn, MarkedIn
  <2>4. ASSUME NEW d \in Live(t.slot) PROVE u.slot[d].key \in Key /\ ReachableIn(u, u.slot[d].key, d[1])
    <3>1. t.slot[d].key \in Key
      BY <1>1, <1>5 DEF Live, TypesFit, Element
    <3>2. ReachableIn(t, t.slot[d].key, d[1])
      BY DEF Fit, ReachFits
    <3> QED
      BY <1>6, <2>2, <3>1, <3>2
  <2> QED
    BY <1>6, <2>3, <2>4 DEF ReachFits, k
<1>13. KeysFit(u)
  <2>1. \A d \in Live(t.slot) : t.slot[d].key # e.key
    BY DEF ElementsIn
  <2> QED
    BY <1>6, <2>1 DEF Fit, KeysFit
<1> QED
  BY <1>2, <1>6, <1>7, <1>8, <1>9, <1>10, <1>12, <1>13 DEF Fit, u, c, k


-----------------------------------------------------------------------------
(* Copies *)

(* A table that fits has finitely many elements. *)
LEMMA FitFinite ==
  ASSUME NEW t, TypesFit(t)
  PROVE  /\ IsFiniteSet(Cells(t.groupMask)) /\ IsFiniteSet(Live(t.slot))
         /\ Cardinality(Live(t.slot)) \in Nat
<1>1. IsFiniteSet(Cells(t.groupMask))
  <2>1. t.groupMask \in Nat /\ GroupSize - 1 \in Int
    BY GroupAssumption DEF TypesFit, GroupSize
  <2>2. IsFiniteSet(Groups(t.groupMask)) /\ IsFiniteSet(0..(GroupSize - 1))
    BY <2>1, FS_Interval DEF Groups
  <2> QED
    BY <2>2, FS_Product DEF Cells
<1>2. Live(t.slot) \subseteq Cells(t.groupMask)
  BY DEF Live, TypesFit
<1> QED
  BY <1>1, <1>2, FS_Subset, FS_CardinalityType

(***************************************************************************)
(* The search for an empty slot finds one if there is one: the probe       *)
(* sequence comes to its group.                                            *)
(***************************************************************************)
LEMMA FreeIsFound ==
  ASSUME NEW t, Fit(t), t.groupMask # 0, NEW k \in Key,
         Cardinality(Live(t.slot)) < CalcSlotCapacity(t.groupMask + 1)
  PROVE  Roomy(t, k) # {}
<1> DEFINE mask == t.groupMask
           S == Cells(mask) \ {SentinelCell(mask)}
<1>1. TypesFit(t) /\ mask \in Nat /\ mask # 0 /\ IsPow2(mask + 1)
      /\ DOMAIN t.slot = Cells(mask)
  BY DEF Fit, TypesFit
<1>2. S # Live(t.slot)
  <2>1. Cardinality(S) = CalcSlotCapacity(mask + 1)
    BY <1>1, SlotsCounted
  <2>2. CalcSlotCapacity(mask + 1) \in Int /\ Cardinality(Live(t.slot)) \in Nat
    BY <1>1, FitFinite, GroupAssumption DEF CalcSlotCapacity, GroupSize
  <2> QED
    BY <2>1, <2>2
<1>3. ASSUME NEW c \in Cells(mask)
      PROVE  /\ c = <<c[1], c[2]>> /\ c[1] \in 0..mask /\ c[2] \in 0..(GroupSize - 1)
             /\ SentinelIn(t, c) <=> c = SentinelCell(mask)
  BY <1>1 DEF Cells, Groups, SentinelIn, SentinelCell
<1>4. Live(t.slot) \subseteq S
  BY <1>1, <1>3 DEF Fit, MirrorFits, Live
<1>5. PICK c \in S : t.slot[c] = Raw
  BY <1>1, <1>2, <1>4 DEF Live
<1>6. t.ctrl[c] = EmptySlot
  BY <1>3, <1>5 DEF Fit, MirrorFits
<1>7. HomeIn(t, k) \in 0..mask
  BY <1>1, IndexRange DEF HomeIn
<1>8. PICK n \in 0..mask : Probe(HomeIn(t, k), n, mask) = c[1]
  BY <1>1, <1>3, <1>5, <1>7, ProbeCovers
<1>9. ProbesOf(t, k)[n] = c[1]
  BY <1>8 DEF ProbesOf, HomeIn
<1>10. c[2] \in EmptyIn(t, c[1])
  BY <1>3, <1>5, <1>6 DEF EmptyIn
<1>11. n \in Roomy(t, k)
  BY <1>8, <1>9, <1>10 DEF Roomy
<1> QED
  BY <1>11

(* A copy that is not at its end has a next cell. *)
LEMMA NextLeftExists ==
  ASSUME left \subseteq Nat \X Nat, left # {}
  PROVE  NextLeft \in left
BY FirstCellExists DEF NextLeft

(***************************************************************************)
(* While a copy is being made no call runs; the copy has the elements the  *)
(* loop has passed, and so many fewer than the original as are left.       *)
(***************************************************************************)
CopyInv == copying =>
    /\ pc = "idle" /\ left \subseteq UsedCells
    /\ copy.mlf = mlf /\ copy.groupMask = CopyMask /\ copy.groupMask # 0
    /\ ElementsIn(copy) = {slot[c] : c \in UsedCells \ left}
    /\ Cardinality(Live(copy.slot)) + Cardinality(left) = Cardinality(UsedCells)

PairInv == TableInv /\ Fit(other) /\ Fit(copy) /\ copying \in BOOLEAN /\ CopyInv

(* Between two calls the cells marked used are those with elements. *)
LEMMA UsedBetweenCalls ==
  ASSUME TableInv, pc = "idle"
  PROVE  /\ UsedCells = Live(slot) /\ IsFiniteSet(UsedCells) /\ Cardinality(UsedCells) \in Nat
         /\ UsedCells \subseteq Nat \X Nat
         /\ \A c \in UsedCells : slot[c] \in Element
         /\ \A c, d \in UsedCells : slot[c].key = slot[d].key => c = d
<1>1. UsedCells = Live(slot) /\ IsFiniteSet(UsedCells) /\ Cardinality(Live(slot)) \in Nat
  BY LiveIsUsed, LiveFinite DEF TableInv, MirrorInv
<1>2. Live(slot) \subseteq Cells(groupMask) /\ groupMask \in Nat /\ \A c \in Live(slot) : slot[c] \in Element
  BY DEF Live, TableInv, TypeInv, TableOK
<1>3. Live(slot) \subseteq Nat \X Nat
  BY <1>2, CellsRange
<1> QED
  BY <1>1, <1>2, <1>3 DEF TableInv, KeysInv, UniqueKeys

(* Whatever does not call the table leaves it what it is; calls keep it so. *)
LEMMA TableSteps == TableInv /\ [Next]_vars => TableInv'
BY NextType, NextReach, NextMirror, NextKeys, PairAssumption DEF TableInv

(* The steps that copy in one go. *)
LEMMA CopiesAtOnce == PairInv /\ CopyAtOnce => PairInv'
<1> SUFFICES ASSUME PairInv, CopyAtOnce PROVE PairInv'
  OBVIOUS
<1>1. /\ pc = "idle" /\ copying = FALSE /\ UNCHANGED <<vars, copying, copy, left>>
      /\ other' = EmptyTable(mlf) \/ (IsFast /\ other' = FastCopy)
  BY DEF CopyAtOnce, PairInv
<1>2. TableInv /\ TableInv' /\ mlf \in LoadFactors
  BY <1>1, TableSteps DEF PairInv, TableInv, TypeInv
<1>3. Fit(other')
  BY <1>1, <1>2, EmptyFits, FastFits
<1>4. Fit(copy') /\ copying' \in BOOLEAN /\ CopyInv'
  BY <1>1 DEF PairInv, CopyInv
<1> QED
  BY <1>2, <1>3, <1>4 DEF PairInv

(* The first step of a copy, element by element. *)
LEMMA CopyBegins == PairInv /\ CopyBegin => PairInv'
<1> SUFFICES ASSUME PairInv, CopyBegin PROVE PairInv'
  OBVIOUS
<1>1. /\ pc = "idle" /\ copying' = TRUE /\ copy' = NewTable(slotSize, mlf)
      /\ left' = UsedCells /\ UNCHANGED vars /\ UNCHANGED other
  BY DEF CopyBegin, ToCopy
<1>2. TableInv /\ TableInv'
  BY <1>1, TableSteps DEF PairInv
<1>3. slotSize \in Nat /\ mlf \in LoadFactors
  BY <1>2 DEF TableInv, TypeInv, TableOK
<1>4. /\ Fit(copy') /\ copy'.mlf = mlf /\ copy'.groupMask = CopyMask /\ copy'.groupMask # 0
      /\ Live(copy'.slot) = {} /\ ElementsIn(copy') = {}
  BY <1>1, <1>3, NewFits DEF CopyMask
<1>5. /\ pc' = pc /\ mlf' = mlf /\ slot' = slot /\ UsedCells' = UsedCells /\ CopyMask' = CopyMask
  BY <1>1 DEF vars, table, UsedCells, CopyMask
<1>6. Cardinality(Live(copy'.slot)) + Cardinality(left') = Cardinality(UsedCells')
  BY <1>1, <1>2, <1>4, <1>5, UsedBetweenCalls, FS_EmptySet
<1>7. CopyInv'
  BY <1>1, <1>4, <1>5, <1>6 DEF CopyInv
<1> QED
  BY <1>1, <1>2, <1>4, <1>7 DEF PairInv

(***************************************************************************)
(* An iteration: the element of the next cell has a key no element before  *)
(* it had.                                                                 *)
(***************************************************************************)
LEMMA CopyGoesOn == PairInv /\ CopyNext => PairInv'
<1> SUFFICES ASSUME PairInv, CopyNext PROVE PairInv'
  OBVIOUS
<1> DEFINE c == NextLeft
           e == slot[c]
           p == PlaceOf(copy, e.key)
<1>1. /\ copying = TRUE /\ copying' = TRUE /\ left # {} /\ Roomy(copy, e.key) # {}
      /\ copy' = UniqueInsert(copy, e) /\ left' = left \ {c}
      /\ UNCHANGED vars /\ UNCHANGED other
  BY DEF CopyNext, PairInv
<1>2. /\ pc = "idle" /\ left \subseteq UsedCells
      /\ copy.mlf = mlf /\ copy.groupMask = CopyMask /\ copy.groupMask # 0
      /\ ElementsIn(copy) = {slot[d] : d \in UsedCells \ left}
      /\ Cardinality(Live(copy.slot)) + Cardinality(left) = Cardinality(UsedCells)
      /\ Fit(copy)
  BY <1>1 DEF PairInv, CopyInv
<1>3. TableInv /\ TableInv'
  BY <1>1, TableSteps DEF PairInv
<1>4. /\ IsFiniteSet(UsedCells) /\ UsedCells \subseteq Nat \X Nat
      /\ \A d \in UsedCells : slot[d] \in Element
      /\ \A d1, d2 \in UsedCells : slot[d1].key = slot[d2].key => d1 = d2
  BY <1>2, <1>3, UsedBetweenCalls
<1>5. c \in left /\ c \in UsedCells /\ e \in Element
  BY <1>1, <1>2, <1>4, NextLeftExists
<1> HIDE DEF c
<1>6. \A f \in ElementsIn(copy) : f.key # e.key
  BY <1>2, <1>4, <1>5
<1> HIDE DEF e, p
<1>7. /\ Fit(copy') /\ copy'.groupMask = copy.groupMask /\ copy'.mlf = copy.mlf
      /\ ElementsIn(copy') = ElementsIn(copy) \cup {e}
      /\ p \notin Live(copy.slot) /\ Live(copy'.slot) = Live(copy.slot) \cup {p}
  BY <1>1, <1>2, <1>5, <1>6, InsertFits DEF p
<1>8. /\ pc' = pc /\ mlf' = mlf /\ slot' = slot /\ UsedCells' = UsedCells /\ CopyMask' = CopyMask
  BY <1>1 DEF vars, table, UsedCells, CopyMask
<1>9. ElementsIn(copy') = {slot[d] : d \in UsedCells \ left'}
  BY <1>1, <1>2, <1>5, <1>7 DEF e
<1>10. Cardinality(Live(copy'.slot)) + Cardinality(left') = Cardinality(UsedCells)
  <2>1. IsFiniteSet(Live(copy.slot)) /\ IsFiniteSet(left)
        /\ Cardinality(Live(copy.slot)) \in Nat /\ Cardinality(left) \in Nat
    BY <1>2, <1>4, FitFinite, FS_Subset, FS_CardinalityType DEF Fit
  <2>2. Cardinality(Live(copy'.slot)) = Cardinality(Live(copy.slot)) + 1
    BY <1>7, <2>1, FS_AddElement
  <2>3. Cardinality(left') = Cardinality(left) - 1
    BY <1>1, <1>5, <2>1, FS_RemoveElement
  <2> QED
    BY <1>2, <2>1, <2>2, <2>3
<1>11. CopyInv'
  BY <1>1, <1>2, <1>7, <1>8, <1>9, <1>10 DEF CopyInv
<1> QED
  BY <1>1, <1>3, <1>7, <1>11 DEF PairInv

(* The copy takes the place of the table that is assigned to. *)
LEMMA CopyEnds == PairInv /\ CopyDone => PairInv'
<1> SUFFICES ASSUME PairInv, CopyDone PROVE PairInv'
  OBVIOUS
<1>1. other' = copy /\ copying' = FALSE /\ copy' = EmptyTable(DefaultLoadFactor) /\ UNCHANGED vars
  BY DEF CopyDone, NoCopy
<1>2. TableInv'
  BY <1>1, TableSteps DEF PairInv
<1>3. Fit(other') /\ Fit(copy')
  BY <1>1, EmptyFits, LoadFactorAssumption DEF PairInv
<1>4. CopyInv'
  BY <1>1 DEF CopyInv
<1> QED
  BY <1>1, <1>2, <1>3, <1>4 DEF PairInv

(* A swap. *)
LEMMA Swaps == PairInv /\ Swap => PairInv'
<1> SUFFICES ASSUME PairInv, Swap PROVE PairInv'
  OBVIOUS
<1>1. /\ pc = "idle" /\ copying = FALSE /\ other' = This /\ Taken(other)
      /\ UNCHANGED <<pc, call, probe, at, rehash, ret>> /\ copying' = copying /\ copy' = copy
  BY DEF Swap, Taken, PairInv
<1>2. TableInv /\ Fit(other) /\ Fit(copy)
  BY DEF PairInv
<1>3. TableInv'
  BY <1>1, <1>2, TakenFits
<1>4. Fit(other') /\ Fit(copy')
  BY <1>1, <1>2, ThisFits
<1>5. CopyInv'
  BY <1>1 DEF CopyInv
<1> QED
  BY <1>1, <1>3, <1>4, <1>5 DEF PairInv

(* clear(true) *)
LEMMA ClearAndDestroys == PairInv /\ ClearAndDestroy => PairInv'
<1> SUFFICES ASSUME PairInv, ClearAndDestroy PROVE PairInv'
  OBVIOUS
<1>1. /\ pc = "manage" /\ Destroy /\ mlf' = mlf
      /\ other' = other /\ copying' = copying /\ copy' = copy
  BY DEF ClearAndDestroy
<1>2. TableInv'
  BY <1>1, DestroyType, DestroyReach, DestroyMirror, DestroyKeys DEF PairInv, TableInv
<1>3. copying = FALSE
  BY <1>1 DEF PairInv, CopyInv
<1>4. CopyInv'
  BY <1>1, <1>3 DEF CopyInv
<1> QED
  BY <1>1, <1>2, <1>4 DEF PairInv

(* A step of a call. *)
LEMMA Calls == PairInv /\ Call => PairInv'
<1> SUFFICES ASSUME PairInv, Call PROVE PairInv'
  OBVIOUS
<1>1. copying = FALSE /\ Next /\ other' = other /\ copying' = copying /\ copy' = copy
  BY DEF Call, PairInv
<1>2. TableInv'
  BY <1>1, TableSteps DEF PairInv
<1>3. CopyInv'
  BY <1>1 DEF CopyInv
<1> QED
  BY <1>1, <1>2, <1>3 DEF PairInv

(* Every step of the two tables. *)
LEMMA PairSteps == PairInv /\ [PairNext]_pairVars => PairInv'
<1> SUFFICES ASSUME PairInv, [PairNext]_pairVars PROVE PairInv'
  OBVIOUS
<1>1. CASE UNCHANGED pairVars
  <2>1. UNCHANGED vars /\ other' = other /\ copying' = copying /\ copy' = copy /\ left' = left
    BY <1>1 DEF pairVars
  <2>2. TableInv'
    BY <2>1, TableSteps DEF PairInv
  <2>3. pc' = pc /\ mlf' = mlf /\ slot' = slot /\ UsedCells' = UsedCells /\ CopyMask' = CopyMask
    BY <2>1 DEF vars, table, UsedCells, CopyMask
  <2>4. CopyInv'
    BY <2>1, <2>3 DEF PairInv, CopyInv
  <2> QED
    BY <2>1, <2>2, <2>4 DEF PairInv
<1> QED
  BY <1>1, Calls, Swaps, CopiesAtOnce, CopyBegins, CopyGoesOn, CopyEnds, ClearAndDestroys DEF PairNext

(* Two tables that have just been made. *)
LEMMA PairStarts == PairInit => PairInv
<1> SUFFICES ASSUME PairInit PROVE PairInv
  OBVIOUS
<1>1. /\ Init /\ copying = FALSE /\ copy = EmptyTable(DefaultLoadFactor)
      /\ \E n \in Nat : other = WithCapacity(n)
  BY PairAssumption DEF PairInit, NoCopy
<1>2. TableInv
  BY <1>1, InitType, InitReach, InitMirror, InitKeys DEF TableInv
<1> QED
  BY <1>1, <1>2, WithCapacityFits, EmptyFits, LoadFactorAssumption DEF PairInv, CopyInv

(***************************************************************************)
(* Whatever two tables do, called, swapped and copied in any order, both   *)
(* stay searchable, and so is a copy that is being made.                   *)
(***************************************************************************)
THEOREM Searchable == PairSpec => []BothSearchable
<1>1. PairInv => BothSearchable
  BY OtherFits, CopyFits
  DEF PairInv, TableInv, MirrorInv, ReachInv, KeysInv, BothSearchable
<1> QED
  BY <1>1, PairStarts, PairSteps, PTL DEF PairSpec

(***************************************************************************)
(* A copy, made one way or the other, has the elements of the table whose  *)
(* size is right, and its load factor.                                     *)
(***************************************************************************)
THEOREM CopiesAreEqual == PairSpec => CopyHasTheElements
<1> DEFINE Equal == (CopyAtOnce \/ CopyDone) /\ slotSize = Cardinality(Live(slot)) =>
                        Other!Contents' = Contents /\ other'.mlf = mlf
<1>1. PairInv /\ [PairNext]_pairVars => [Equal]_pairVars
  <2> SUFFICES ASSUME PairInv, CopyAtOnce \/ CopyDone, slotSize = Cardinality(Live(slot))
               PROVE  Other!Contents' = Contents /\ other'.mlf = mlf
    OBVIOUS
  <2>1. TableInv /\ mlf \in LoadFactors
    BY DEF PairInv, TableInv, TypeInv
  <2>2. pc = "idle"
    BY DEF CopyAtOnce, CopyDone, PairInv, CopyInv
  <2>3. Contents = ContentsOf({slot[c] : c \in Live(slot)})
    BY <2>1, <2>2, ElementsKeyed, ElementsOfSlots DEF TableInv
  <2>4. (Other!Contents = ContentsOf(ElementsIn(other)))'
    BY OtherContents, PTL
  <2>5. ElementsIn(other') = {slot[c] : c \in Live(slot)} /\ other'.mlf = mlf
    <3>1. CASE slotSize = 0 /\ other' = EmptyTable(mlf)
      <4>1. Live(slot) = {}
        BY <2>1, <3>1, LiveFinite, FS_EmptySet DEF TableInv
      <4> QED
        BY <2>1, <3>1, <4>1, EmptyFits
    <3>2. CASE IsFast /\ other' = FastCopy
      BY <2>1, <2>2, <3>2, FastFits
    <3>3. CASE CopyDone
      <4>1. other' = copy /\ copying /\ left = {}
        BY <3>3 DEF CopyDone
      <4>2. ElementsIn(copy) = {slot[c] : c \in UsedCells} /\ copy.mlf = mlf
        BY <4>1 DEF PairInv, CopyInv
      <4> QED
        BY <2>1, <2>2, <4>1, <4>2, UsedBetweenCalls
    <3> QED
      BY <3>1, <3>2, <3>3 DEF CopyAtOnce
  <2> QED
    BY <2>3, <2>4, <2>5
<1> QED
  BY <1>1, PairStarts, PairSteps, PTL DEF PairSpec, CopyHasTheElements

(* There is a place for the next element of a copy. *)
CopyHasRoom == copying /\ left # {} /\ slotSize = Cardinality(Live(slot)) =>
    Roomy(copy, slot[NextLeft].key) # {}

(***************************************************************************)
(* The insertion loop of a copy, which has no bound, ends: when size() of  *)
(* the copied table counts its elements, each of them finds a slot.        *)
(***************************************************************************)
THEOREM CopyRoom == PairSpec => []CopyHasRoom
<1>1. PairInv => CopyHasRoom
  <2> SUFFICES ASSUME PairInv, copying, left # {}, slotSize = Cardinality(Live(slot))
               PROVE  Roomy(copy, slot[NextLeft].key) # {}
    BY DEF CopyHasRoom
  <2>1. /\ TableInv /\ pc = "idle" /\ left \subseteq UsedCells
        /\ Fit(copy) /\ copy.groupMask = CopyMask /\ copy.groupMask # 0
        /\ Cardinality(Live(copy.slot)) + Cardinality(left) = Cardinality(UsedCells)
    BY DEF PairInv, CopyInv
  <2>2. slotSize \in Nat /\ mlf \in LoadFactors
    BY <2>1 DEF TableInv, TypeInv, TableOK
  <2>3. /\ UsedCells = Live(slot) /\ IsFiniteSet(UsedCells) /\ UsedCells \subseteq Nat \X Nat
        /\ \A c \in UsedCells : slot[c] \in Element
    BY <2>1, UsedBetweenCalls
  <2>4. slot[NextLeft].key \in Key
    BY <2>1, <2>3, NextLeftExists DEF Element
  <2>5. Cardinality(Live(copy.slot)) < slotSize
    <3>1. IsFiniteSet(left) /\ Cardinality(left) \in Nat /\ Cardinality(left) # 0
      BY <2>1, <2>3, FS_Subset, FS_CardinalityType, FS_EmptySet
    <3>2. Cardinality(Live(copy.slot)) \in Nat
      BY <2>1, FitFinite DEF Fit
    <3> QED
      BY <2>1, <2>2, <2>3, <3>1, <3>2
  <2>6. slotSize <= CalcSlotCapacity(copy.groupMask + 1)
    <3> DEFINE q == CapacityFor(slotSize, mlf) \div GroupWidth
    <3>1. slotSize <= CalcSlotCapacity(q)
      BY <2>2, RoomForCopy
    <3>2. copy.groupMask = q - 1
      BY <2>1 DEF CopyMask
    <3>3. q \in Int
      <4> DEFINE r == CapacityFor(slotSize, mlf)
      <4>1. r \in Nat /\ GroupWidth \in Nat \ {0}
        BY <2>2, CapacityRange, GroupAssumption
      <4> HIDE DEF r
      <4>2. r \div GroupWidth \in Int
        BY <4>1
      <4> QED
        BY <4>2 DEF r
    <3> HIDE DEF q
    <3>4. copy.groupMask + 1 = q
      BY <3>2, <3>3
    <3> QED
      BY <3>1, <3>4
  <2>7. Cardinality(Live(copy.slot)) < CalcSlotCapacity(copy.groupMask + 1)
    <3> DEFINE x == CalcSlotCapacity(copy.groupMask + 1)
               y == Cardinality(Live(copy.slot))
    <3>1. x \in Int /\ y \in Nat
      BY <2>1, FitFinite, GroupAssumption DEF Fit, TypesFit, CalcSlotCapacity, GroupSize
    <3>2. y < slotSize /\ slotSize <= x
      BY <2>5, <2>6
    <3> HIDE DEF x, y
    <3>3. y < x
      BY <2>2, <3>1, <3>2
    <3> QED
      BY <3>3 DEF x, y
  <2> QED
    BY <2>1, <2>4, <2>7, FreeIsFound
<1> QED
  BY <1>1, PairStarts, PairSteps, PTL DEF PairSpec
=============================================================================
