---------------------------- MODULE Group16Table ----------------------------
(***************************************************************************)
(* group16_flat_table: every byte of a group describes a slot.  Its low    *)
(* seven bits are 0 or the reduced hash of the slot's element; its top bit *)
(* belongs to the group, as the overflow bit of the hashes that leave the  *)
(* byte's position as remainder.  An erasure that leaves an overflow bit   *)
(* behind takes one off the threshold, and an insertion below an overflow  *)
(* bit gives one back.  Elements are constructed without throwing.         *)
(***************************************************************************)
EXTENDS GroupQuadraticProber, FiniteSets

Sets == INSTANCE FiniteSetsExt

CONSTANTS
    Key, Value, Absent,
    Raw,               \* the content of a slot that holds no element
    Hash, HashRange,   \* Hash[k] is what hash_for(k) returns, HashRange 2^64 in the code
    GroupWidth,        \* kGroupWidth: 16
    LoadFactors, DefaultLoadFactor,
    MaxGroups,         \* an allocation of more groups than this throws
    InitCapacities, ReserveArgs, RehashArgs, ShrinkArgs  \* the arguments callers use

LoadFactorAmplify == 256
HashMask == 128
EmptySlot == 0
EmptyHash == 8
MinCapacity == 2 * GroupWidth      \* kMinCapacity and kSmallCapacity

ASSUME KeyAssumption ==
    /\ Absent \notin Key /\ Absent \notin Value
    /\ Raw \notin [key : Key, val : Value]
ASSUME HashAssumption ==
    HashRange \in Nat \ {0} /\ Hash \in [Key -> 0..(HashRange - 1)]
ASSUME GroupAssumption == GroupWidth \in Nat /\ IsPow2(GroupWidth) /\ MaxGroups \in Nat
ASSUME LoadFactorAssumption ==
    /\ LoadFactors \subseteq (LoadFactorAmplify \div 2)..((LoadFactorAmplify * 7) \div 8)
    /\ DefaultLoadFactor \in LoadFactors
ASSUME ArgsAssumption ==
    InitCapacities \cup ReserveArgs \cup RehashArgs \subseteq Nat /\ ShrinkArgs \subseteq BOOLEAN

VARIABLES
    groupMask,      \* group_mask_, 0 while the table owns no memory
    ctrl,           \* ctrl[<<g, p>>]: the low seven bits of byte p of group g
    overflow,       \* overflow[g]: the bytes of group g whose top bit is set
    slot, slotSize, slotThreshold, mlf,
    pc, call, probe,            \* what the current call does next, for whom, where
    oldSlot, oldSize, pending,  \* a rehash: old slots and size, cells to move
    ret

table == <<groupMask, ctrl, overflow, slot, slotSize, slotThreshold>>
rehash == <<oldSlot, oldSize, pending>>
vars == <<table, mlf, pc, call, probe, rehash, ret>>

Element == [key : Key, val : Value]
Groups(mask) == 0..(IF mask = 0 THEN 1 ELSE mask)
Cells(mask) == Groups(mask) \X (0..(GroupWidth - 1))
Allocated == groupMask # 0
SlotCapacity == IF Allocated THEN (groupMask + 1) * GroupWidth ELSE 0

-----------------------------------------------------------------------------
(* Hashes and capacities *)

IndexForHash(h, mask) == (h * (IF mask = 0 THEN 2 ELSE mask + 1)) \div HashRange

(* Mutant: the mark of an empty slot is not reduced *)
UnreducedHash(h) == h % HashMask

(* reduced_hash(): the lookup table *)
CtrlForHash(h) == LET low == h % HashMask IN IF low = EmptySlot THEN EmptyHash ELSE low
CtrlOf(k) == CtrlForHash(Hash[k])

(* Mutant: the byte is not reduced to a position in the group *)
WholeByte(byte) == byte
OverflowBit(byte) == byte % GroupWidth

AtLeast(m, n) == IF m >= n THEN m ELSE n
ShrinkToFitCapacity(n, m) == (n * LoadFactorAmplify) \div m
RoundUpPow2(n) == CHOOSE p \in n..(2 * n) : IsPow2(p) /\ p < 2 * n
CalcCapacity(n, size) == RoundUpPow2(AtLeast(AtLeast(n, MinCapacity), size))
CalcSlotThreshold(m, capacity) ==
    IF capacity > MinCapacity THEN (capacity * m) \div LoadFactorAmplify ELSE capacity

NeedGrow == slotSize >= slotThreshold

-----------------------------------------------------------------------------
(* The frame of a call *)

NoCall == [op |-> "none", key |-> Absent, val |-> Absent, arg |-> 0]
NoProbe == [key |-> Absent, index |-> 0, step |-> 0]
NoResult == [op |-> "none", key |-> Absent, res |-> Absent]
NoSlots == [c \in {} |-> Raw]
Insertions == {"insert", "insert_or_assign"}
KeyOps == Insertions \cup {"find", "erase"}

StartProbe(k, mask) == [key |-> k, index |-> IndexForHash(Hash[k], mask), step |-> 0]
NextBucket == [key |-> probe.key, step |-> probe.step + 1,
               index |-> NextIndex(probe.index, probe.step, groupMask)]
Done(r) == pc' = "done" /\ ret' = [op |-> call.op, key |-> call.key, res |-> r]

NoCtrl(mask) == [c \in Cells(mask) |-> EmptySlot]
NoOverflow(mask) == [g \in Groups(mask) |-> {}]
AllRaw(mask) == [c \in Cells(mask) |-> Raw]
UsedCells == {c \in DOMAIN ctrl : ctrl[c] # EmptySlot}

(* the constructor with a capacity, 0 by default *)
Init == \E n \in InitCapacities :
    LET capacity == CalcCapacity(ShrinkToFitCapacity(n, DefaultLoadFactor), 0)
        mask == IF n = 0 THEN 0 ELSE capacity \div GroupWidth - 1
    IN /\ groupMask = mask /\ ctrl = NoCtrl(mask) /\ overflow = NoOverflow(mask)
       /\ slot = AllRaw(mask) /\ slotSize = 0 /\ mlf = DefaultLoadFactor
       /\ slotThreshold = IF n = 0 THEN 0 ELSE CalcSlotThreshold(DefaultLoadFactor, capacity)
       /\ pc = "idle" /\ call = NoCall /\ probe = NoProbe
       /\ oldSlot = NoSlots /\ oldSize = 0 /\ pending = {} /\ ret = NoResult

(* create_slots() and the start of the loop over the old groups *)
CreateSlots(capacity, m) ==
    LET mask == capacity \div GroupWidth - 1
    IN /\ groupMask' = mask
       /\ ctrl' = NoCtrl(mask) /\ overflow' = NoOverflow(mask) /\ slot' = AllRaw(mask)
       /\ slotSize' = 0 /\ slotThreshold' = CalcSlotThreshold(m, capacity)
       /\ oldSlot' = slot /\ oldSize' = slotSize /\ pending' = UsedCells
       /\ pc' = "rehash" /\ UNCHANGED ret

RehashImpl(allowShrink, n, m) ==
    LET capacity == CalcCapacity(n, slotSize)
        resize == IF allowShrink THEN capacity # SlotCapacity ELSE capacity > SlotCapacity
        fits == capacity <= MaxGroups * GroupWidth
    IN /\ \/ resize /\ fits /\ CreateSlots(capacity, m)
          \/ resize /\ ~ fits /\ Done("throws") /\ UNCHANGED <<table, rehash>>
          \/ ~ resize /\ Done("ok") /\ UNCHANGED <<table, rehash>>
       /\ UNCHANGED <<call, probe>>

(* destroy<true>(): back to the static groups of a table without memory *)
Destroy == /\ groupMask' = 0 /\ ctrl' = NoCtrl(0) /\ overflow' = NoOverflow(0)
           /\ slot' = AllRaw(0) /\ slotSize' = 0 /\ slotThreshold' = 0
           /\ Done("ok")
           /\ UNCHANGED <<call, probe, rehash>>

(* clear_data(): the threshold stays *)
ClearData == /\ ctrl' = NoCtrl(groupMask) /\ overflow' = NoOverflow(groupMask)
             /\ slot' = AllRaw(groupMask) /\ slotSize' = 0
             /\ Done("ok")
             /\ UNCHANGED <<groupMask, slotThreshold, call, probe, rehash>>

-----------------------------------------------------------------------------
(* Calls *)

Begin(op, k, v, n) ==
    /\ pc = "idle"
    /\ call' = [op |-> op, key |-> k, val |-> v, arg |-> n]
    /\ IF op \in KeyOps THEN pc' = "find" /\ probe' = StartProbe(k, groupMask)
                        ELSE pc' = "manage" /\ UNCHANGED probe
    /\ UNCHANGED <<table, mlf, rehash, ret>>

BeginKeyOp == \E k \in Key :
    \/ \E op \in {"find", "erase"} : Begin(op, k, Absent, 0)
    \/ \E op \in Insertions, v \in Value : Begin(op, k, v, 0)
BeginManagement ==
    \/ \E destroy \in {0, 1} : Begin("clear", Absent, Absent, destroy)
    \/ \E n \in ReserveArgs : Begin("reserve", Absent, Absent, n)
    \/ \E n \in RehashArgs : Begin("rehash", Absent, Absent, n)
    \/ \E m \in LoadFactors : Begin("max_load_factor", Absent, Absent, m)
    \/ \E readOnly \in ShrinkArgs : Begin("shrink_to_fit", Absent, Absent, IF readOnly THEN 1 ELSE 0)

Managing(op) == pc = "manage" /\ call.op = op

Clear == Managing("clear") /\ (IF call.arg = 1 THEN Destroy ELSE ClearData) /\ UNCHANGED mlf

Reserve == /\ Managing("reserve")
           /\ IF call.arg # 0 THEN RehashImpl(FALSE, ShrinkToFitCapacity(call.arg, mlf), mlf) ELSE Destroy
           /\ UNCHANGED mlf

(* rehash() may shrink the table, unlike that of group15_flat_table *)
RehashTo(n, m) == LET atLeast == AtLeast(ShrinkToFitCapacity(slotSize, m), n)
                  IN IF atLeast # 0 THEN RehashImpl(TRUE, atLeast, m) ELSE Destroy

Rehash == Managing("rehash") /\ RehashTo(call.arg, mlf) /\ UNCHANGED mlf

ShrinkToFit == LET n == IF call.arg = 1 THEN slotSize ELSE ShrinkToFitCapacity(slotSize, mlf)
               IN /\ Managing("shrink_to_fit")
                  /\ IF n # 0 THEN RehashImpl(TRUE, n, mlf) ELSE Destroy
                  /\ UNCHANGED mlf

MaxLoadFactor ==
    LET capacity == CalcCapacity(ShrinkToFitCapacity(SlotCapacity, call.arg), slotSize)
    IN /\ Managing("max_load_factor")
       /\ mlf' = call.arg
       /\ IF capacity > SlotCapacity
          THEN RehashTo(capacity, call.arg)
          ELSE Done("ok") /\ UNCHANGED <<table, call, probe, rehash>>

-----------------------------------------------------------------------------
(* find_index(): one step per group *)

(* Reading a slot no element was constructed in may yield any element. *)
Read(c) == IF slot[c] = Raw THEN Element ELSE {slot[c]}
Matches == {c \in DOMAIN ctrl : c[1] = probe.index /\ ctrl[c] = CtrlOf(probe.key)}
Hits(c) == {e \in Read(c) : e.key = probe.key}
Finding(op) == pc = "find" /\ call.op = op
MissedGroup == pc = "find" /\ \A c \in Matches : \E e \in Read(c) : e.key # probe.key

(* Mutant: only the home group is searched *)
OnlyHomeGroup == TRUE
EndsSearch == \/ OverflowBit(CtrlOf(probe.key)) \notin overflow[probe.index]
              \/ ~ HasNextBucket(probe.step, groupMask)

FindNext == /\ MissedGroup /\ ~ EndsSearch
            /\ probe' = NextBucket
            /\ UNCHANGED <<table, mlf, pc, call, rehash, ret>>

NotFound == /\ MissedGroup /\ EndsSearch
            /\ CASE call.op \in Insertions -> pc' = "grow" /\ UNCHANGED ret
                 [] call.op = "find"       -> Done(Absent)
                 [] call.op = "erase"      -> Done("none")
            /\ UNCHANGED <<table, mlf, call, probe, rehash>>

ReturnFound == Finding("find") /\ \E c \in Matches : \E e \in Hits(c) :
    /\ Done(e.val)
    /\ UNCHANGED <<table, mlf, call, probe, rehash>>

KeepExisting == Finding("insert") /\ \E c \in Matches : \E e \in Hits(c) :
    /\ Done("exists")
    /\ UNCHANGED <<table, mlf, call, probe, rehash>>

AssignExisting == Finding("insert_or_assign") /\ \E c \in Matches : \E e \in Hits(c) :
    /\ slot' = [slot EXCEPT ![c] = [key |-> e.key, val |-> call.val]]
    /\ Done("exists")
    /\ UNCHANGED <<groupMask, ctrl, overflow, slotSize, slotThreshold, mlf, call, probe, rehash>>

(* maybe_caused_overflow() *)
CausedOverflow(c) == OverflowBit(ctrl[c]) \in overflow[c[1]]

(* Mutant: the byte is cleared with its top bit, which is the group's *)
WithoutTopBit(c) == [overflow EXCEPT ![c[1]] = @ \ {c[2]}]
(* set_empty() keeps the top bit of the byte *)
OverflowAfterErase(c) == overflow

(* Mutant: an erasure does not decrement *)
NotDecremented(n) == n
(* the counters are words *)
WordMax == HashRange - 1
Decrement(n) == IF n = 0 THEN WordMax ELSE n - 1

(* reset_ctrl() *)
EraseFound == Finding("erase") /\ \E c \in Matches : \E e \in Hits(c) :
    /\ slot' = [slot EXCEPT ![c] = Raw]
    /\ ctrl' = [ctrl EXCEPT ![c] = EmptySlot]
    /\ overflow' = OverflowAfterErase(c)
    /\ slotThreshold' = IF CausedOverflow(c) THEN Decrement(slotThreshold) ELSE slotThreshold
    /\ slotSize' = Decrement(slotSize)
    /\ Done("erased")
    /\ UNCHANGED <<groupMask, mlf, call, probe, rehash>>

-----------------------------------------------------------------------------
(* find_or_insert() after the search, rehash_impl() and find_empty_to_insert() *)

Grow == /\ pc = "grow" /\ NeedGrow
        /\ RehashImpl(FALSE, SlotCapacity * 2, mlf)
        /\ UNCHANGED mlf

NoGrow == /\ pc = "grow" /\ ~ NeedGrow
          /\ pc' = "place" /\ probe' = StartProbe(call.key, groupMask)
          /\ UNCHANGED <<table, mlf, call, rehash, ret>>

Before(c, d) == c[1] < d[1] \/ (c[1] = d[1] /\ c[2] <= d[2])
NextPending == CHOOSE c \in pending : \A d \in pending : Before(c, d)

TransferNext == /\ pc = "rehash" /\ pending # {}
                /\ probe' = StartProbe(oldSlot[NextPending].key, groupMask)
                /\ pc' = "transfer"
                /\ UNCHANGED <<table, mlf, call, rehash, ret>>

RehashDone == /\ pc = "rehash" /\ pending = {}
              /\ oldSlot' = NoSlots /\ oldSize' = 0
              /\ IF call.op \in Insertions
                 THEN pc' = "place" /\ probe' = StartProbe(call.key, groupMask) /\ UNCHANGED ret
                 ELSE Done("ok") /\ UNCHANGED probe
              /\ UNCHANGED <<table, mlf, call, pending>>

EmptyCells == {c \in DOMAIN ctrl : c[1] = probe.index /\ ctrl[c] = EmptySlot}
FirstEmpty == CHOOSE c \in EmptyCells : \A d \in EmptyCells : c[2] <= d[2]

(* the loop never asks whether the prober has been through the table *)
PlaceNext == /\ pc \in {"place", "transfer"} /\ EmptyCells = {}
             /\ overflow' = [overflow EXCEPT ![probe.index] = @ \cup {OverflowBit(CtrlOf(probe.key))}]
             /\ probe' = NextBucket
             /\ UNCHANGED <<groupMask, ctrl, slot, slotSize, slotThreshold, mlf, pc, call, rehash, ret>>

(* is_deleted_slot: below an overflow bit an empty slot is one that was erased *)
BelowOverflow == OverflowBit(CtrlOf(probe.key)) \in overflow[probe.index]

(* Mutant: every insertion into the group gives one back *)
EveryTime == 1
GivenBack == IF BelowOverflow THEN 1 ELSE 0

PlaceNew == /\ pc = "place" /\ EmptyCells # {}
            /\ ctrl' = [ctrl EXCEPT ![FirstEmpty] = CtrlOf(probe.key)]
            /\ slot' = [slot EXCEPT ![FirstEmpty] = [key |-> call.key, val |-> call.val]]
            /\ slotThreshold' = (slotThreshold + GivenBack) % HashRange
            /\ slotSize' = slotSize + 1
            /\ Done("inserted")
            /\ UNCHANGED <<groupMask, overflow, mlf, call, probe, rehash>>

(* no_grow_unique_transfer_insert() leaves the threshold alone *)
PlaceMoved == /\ pc = "transfer" /\ EmptyCells # {}
              /\ ctrl' = [ctrl EXCEPT ![FirstEmpty] = CtrlOf(probe.key)]
              /\ slot' = [slot EXCEPT ![FirstEmpty] = oldSlot[NextPending]]
              /\ slotSize' = slotSize + 1
              /\ oldSlot' = [oldSlot EXCEPT ![NextPending] = Raw]
              /\ pending' = pending \ {NextPending}
              /\ pc' = "rehash"
              /\ UNCHANGED <<groupMask, overflow, slotThreshold, mlf, call, probe, oldSize, ret>>

Return == /\ pc = "done"
          /\ pc' = "idle" /\ call' = NoCall /\ probe' = NoProbe /\ ret' = NoResult
          /\ UNCHANGED <<table, mlf, rehash>>

Manage == Clear \/ Reserve \/ Rehash \/ ShrinkToFit \/ MaxLoadFactor
FindStep == FindNext \/ NotFound \/ ReturnFound \/ KeepExisting \/ AssignExisting \/ EraseFound
InsertStep == Grow \/ NoGrow \/ TransferNext \/ RehashDone \/ PlaceNext \/ PlaceNew \/ PlaceMoved

Next == BeginKeyOp \/ BeginManagement \/ Manage \/ FindStep \/ InsertStep \/ Return

Spec == Init /\ [][Next]_vars

-----------------------------------------------------------------------------
(* Iteration: an iterator is the index of a slot *)

UsedIn(g) == {p \in 0..(GroupWidth - 1) : ctrl[<<g, p>>] # EmptySlot}

(* Mutant: the slots before the iterator's are not filtered out *)
AllOf(n) == 0..(GroupWidth - 1)
(* the rest of the group that begins at slot n *)
RestOf(n) == (n % GroupWidth)..(GroupWidth - 1)

(* the loop over the groups from g on *)
FirstUsedFrom(g) ==
    LET used == {h \in g..groupMask : UsedIn(h) # {}}
    IN IF used = {} THEN SlotCapacity
       ELSE Sets!Min(used) * GroupWidth + Sets!Min(UsedIn(Sets!Min(used)))

FirstUsedIndex == IF slotSize = 0 THEN SlotCapacity ELSE FirstUsedFrom(0)

SkipEmptySlots(i) ==
    LET n == i + 1
        g == n \div GroupWidth
        rest == UsedIn(g) \cap RestOf(n)
    IN IF slotSize = 0 \/ n >= SlotCapacity THEN SlotCapacity
       ELSE IF rest # {} THEN g * GroupWidth + Sets!Min(rest)
       ELSE FirstUsedFrom(g + 1)

-----------------------------------------------------------------------------
(* Properties *)

Live(slots) == {c \in DOMAIN slots : slots[c] # Raw}

TypeOK ==
    /\ groupMask \in Nat /\ IsPow2(groupMask + 1)
    /\ ctrl \in [Cells(groupMask) -> 0..(HashMask - 1)]
    /\ overflow \in [Groups(groupMask) -> SUBSET (0..(GroupWidth - 1))]
    /\ slot \in [Cells(groupMask) -> Element \cup {Raw}]
    /\ slotSize \in Nat /\ slotThreshold \in Nat /\ mlf \in LoadFactors
    /\ pc \in {"idle", "manage", "find", "grow", "rehash", "transfer", "place", "done"}
    /\ call.op \in KeyOps \cup {"none", "clear", "reserve", "rehash", "max_load_factor", "shrink_to_fit"}
    /\ probe \in [key : Key \cup {Absent}, index : Groups(groupMask), step : Nat]
    /\ oldSlot \in [DOMAIN oldSlot -> Element \cup {Raw}]
    /\ oldSize \in Nat /\ pending \subseteq DOMAIN oldSlot

(***************************************************************************)
(* A byte marks its slot used exactly when an element lives in it, with    *)
(* the reduced hash of that element's key; the static groups stay empty.   *)
(***************************************************************************)
CtrlMirrorsSlots ==
    /\ \A c \in DOMAIN ctrl : ctrl[c] = EmptySlot <=> slot[c] = Raw
    /\ \A c \in Live(slot) : ctrl[c] = CtrlOf(slot[c].key)
    /\ ~ Allocated => Live(slot) = {} /\ overflow = NoOverflow(0)

(***************************************************************************)
(* Every element can be reached by a search for its key: all groups before *)
(* its own on the probe sequence carry the overflow bit of its hash, a bit *)
(* that lives in a byte which other elements use and give up.              *)
(***************************************************************************)
Reachable(k, g) ==
    LET home == IndexForHash(Hash[k], groupMask)
    IN \E n \in 0..groupMask :
          /\ Probe(home, n, groupMask) = g
          /\ \A m \in 0..(n - 1) : OverflowBit(CtrlOf(k)) \in overflow[Probe(home, m, groupMask)]
EveryElementReachable == \A c \in Live(slot) : Reachable(slot[c].key, c[1])

(***************************************************************************)
(* What insertions give back to the threshold, erasures take again: no     *)
(* call but clear(), which forgets the elements and keeps the threshold,   *)
(* lets it rise by more than the number of elements that stand below the   *)
(* overflow bit of their own hash.  A threshold of zero is the exception:  *)
(* the erasure that would take one off it asserts that there is one.       *)
(***************************************************************************)
BelowTheirBit == {c \in Live(slot) : CausedOverflow(c)}
ThresholdDrift ==
    [][groupMask' = groupMask /\ call.op # "clear" /\ slotThreshold > 0 =>
          slotThreshold' - Cardinality(BelowTheirBit)' <= slotThreshold - Cardinality(BelowTheirBit)]_vars

(***************************************************************************)
(* begin() and ++ lead from one element to the next in the order of the    *)
(* slots, and past the last one to end(), across groups without elements.  *)
(***************************************************************************)
Index(c) == c[1] * GroupWidth + c[2]
IterationIsComplete ==
    pc = "idle" =>
        LET indexes == {Index(c) : c \in Live(slot)} \cup {SlotCapacity}
        IN /\ FirstUsedIndex = Sets!Min(indexes)
           /\ \A i \in indexes \ {SlotCapacity} :
                 SkipEmptySlots(i) = Sets!Min({j \in indexes : j > i})

(***************************************************************************)
(* The table is a map: the elements in the new and, during a rehash, the   *)
(* old array are its mapping, and each call returns what a map returns.    *)
(***************************************************************************)
Elements == {slot[c] : c \in Live(slot)} \cup {oldSlot[c] : c \in Live(oldSlot)}
Contents == [k \in Key |-> IF \E e \in Elements : e.key = k
                           THEN (CHOOSE e \in Elements : e.key = k).val
                           ELSE Absent]

Map == INSTANCE HashMapSpec WITH map <- Contents
ImplementsMap == Map!Spec

=============================================================================
