---------------------------- MODULE Group15Table ----------------------------
(***************************************************************************)
(* group15_flat_table: an open-addressing hash table whose slots come in   *)
(* groups.  A group of GroupWidth control bytes describes GroupWidth - 1   *)
(* slots; its last byte holds eight overflow bits.  A key is looked for    *)
(* from its home group along the probe sequence, and a group whose         *)
(* overflow bit for the key's hash is clear ends the search.               *)
(*                                                                         *)
(* A call of the table is a thread of steps: one per iteration of a probe  *)
(* loop and one per element a rehash moves, so that what a step relies on  *)
(* is visible between two iterations.                                      *)
(***************************************************************************)
EXTENDS GroupQuadraticProber, FiniteSets

CONSTANTS
    Key, Value, Absent,
    Raw,               \* the content of a slot that holds no element
    Hash,              \* Hash[k]: what hash_for(k) returns
    HashRange,         \* 2^64 in the code
    GroupWidth,        \* kGroupWidth: 16
    MinCapacity,       \* kMinCapacity: 32
    SmallCapacity,     \* kSmallCapacity: 32
    LoadFactors,       \* mlf_ lies in [0.5, 0.875] of kLoadFactorAmplify
    DefaultLoadFactor,
    MaxGroups,         \* an allocation of more groups than this throws
    ReserveArgs, RehashArgs, ShrinkArgs,  \* the arguments callers use
    MayThrow           \* whether constructing an element may throw

LoadFactorAmplify == 256
CtrlRange == 256
OverflowBits == 8
EmptySlot == 0
SentinelSlot == 1

ASSUME KeyAssumption ==
    /\ Absent \notin Key /\ Absent \notin Value
    /\ Raw \notin [key : Key, val : Value]
ASSUME HashAssumption ==
    HashRange \in Nat \ {0} /\ Hash \in [Key -> 0..(HashRange - 1)]
ASSUME GroupAssumption ==
    /\ GroupWidth \in Nat /\ GroupWidth >= 2 /\ IsPow2(GroupWidth)
    /\ MinCapacity = 2 * GroupWidth /\ SmallCapacity = MinCapacity
    /\ MaxGroups \in Nat /\ MayThrow \in BOOLEAN
(* a table that shrinks to fit keeps the load factor below 15/16 *)
ASSUME LoadFactorAssumption ==
    /\ LoadFactors \subseteq (LoadFactorAmplify \div 2)..LoadFactorAmplify
    /\ DefaultLoadFactor \in LoadFactors
    /\ \A m \in LoadFactors :
         m * (MinCapacity + 1) <= LoadFactorAmplify * 2 * (GroupWidth - 1)
ASSUME ArgsAssumption ==
    ReserveArgs \subseteq Nat /\ RehashArgs \subseteq Nat /\ ShrinkArgs \subseteq BOOLEAN

VARIABLES
    groupMask,      \* group_mask_, 0 while the table owns no memory
    ctrl,           \* ctrl[<<g, p>>]: control byte p of group g
    overflow,       \* overflow[g]: the overflow bits set in group g
    slot,           \* slot[<<g, p>>]: the element constructed there, or Raw
    slotSize, slotThreshold, mlf,
    pc,             \* what the current call does next
    call,           \* the current call: its operation, key, value, argument
    probe,          \* the prober and the key it probes for
    at,             \* the cell find_empty_to_insert() gave the new element
    oldSlot, oldSize, pending,  \* a rehash: old slots and size, cells to move
    ret             \* the result of the call that has just returned

table == <<groupMask, ctrl, overflow, slot, slotSize, slotThreshold>>
rehash == <<oldSlot, oldSize, pending>>
vars == <<table, mlf, pc, call, probe, at, rehash, ret>>

GroupSize == GroupWidth - 1
Element == [key : Key, val : Value]
Groups(mask) == 0..(IF mask = 0 THEN 1 ELSE mask)
Cells(mask) == Groups(mask) \X (0..(GroupSize - 1))
SentinelCell(mask) == <<mask, GroupSize - 1>>
Allocated == groupMask # 0

-----------------------------------------------------------------------------
(* Hashes and capacities *)

(* The top bits of the hash: hash >> (64 - log2 of the number of groups).  *)
(* A table without memory has index_shift_ 63 and two static groups.       *)
IndexForHash(h, mask) == (h * (IF mask = 0 THEN 2 ELSE mask + 1)) \div HashRange

(* Mutant: the low byte itself, marks and all *)
UnreducedHash(h) == h % CtrlRange

(* reduced_hash(): the low byte, with the two marks mapped to 8 and 9 *)
CtrlForHash(h) == LET low == h % CtrlRange
                  IN IF low <= SentinelSlot THEN low + OverflowBits ELSE low

CtrlOf(k) == CtrlForHash(Hash[k])
(* Mutant: no remainder by the number of overflow bits *)
WholeByte(byte) == byte

OverflowBit(byte) == byte % OverflowBits

CtrlCapacity == (groupMask + 1) * GroupWidth
CalcSlotCapacity(groupCapacity) == groupCapacity * GroupSize - 1
SlotCapacity == CalcSlotCapacity(groupMask + 1)

CalcSlotThreshold(m, slotCapacity) ==
    IF slotCapacity > SmallCapacity THEN (slotCapacity * m) \div LoadFactorAmplify
                                    ELSE slotCapacity

ShrinkToFitCapacity(n, m) == (n * LoadFactorAmplify) \div m

RoundUpPow2(n) == CHOOSE p \in n..(2 * n) : IsPow2(p) /\ p < 2 * n

AtLeast(m, n) == IF m >= n THEN m ELSE n
CalcCapacity(n) == RoundUpPow2(AtLeast(AtLeast(n, MinCapacity), slotSize))

NeedGrow == slotSize >= slotThreshold

-----------------------------------------------------------------------------
(* The frame of a call *)

NoCall == [op |-> "none", key |-> Absent, val |-> Absent, arg |-> 0]
NoProbe == [key |-> Absent, index |-> 0, step |-> 0]
NoCell == <<0, 0>>
NoResult == [op |-> "none", key |-> Absent, res |-> Absent]
NoSlots == [c \in {} |-> Raw]

Insertions == {"insert", "insert_or_assign"}
KeyOps == Insertions \cup {"find", "erase"}

StartProbe(k, mask) == [key |-> k, index |-> IndexForHash(Hash[k], mask), step |-> 0]
(* Mutant: the prober stays where it is *)
StayInBucket == probe
NextBucket == [key |-> probe.key, step |-> probe.step + 1,
               index |-> NextIndex(probe.index, probe.step, groupMask)]

Done(r) == /\ pc' = "done"
           /\ ret' = [op |-> call.op, key |-> call.key, res |-> r]

(* Reading a slot no element was constructed in may yield any element.     *)
Read(slots, c) == IF slots[c] = Raw THEN Element ELSE {slots[c]}

-----------------------------------------------------------------------------
(* Memory *)

DefaultCtrl == [c \in Cells(0) |-> IF c[2] = GroupSize - 1 THEN SentinelSlot ELSE EmptySlot]
FreshCtrl(mask) == [c \in Cells(mask) |-> IF c = SentinelCell(mask) THEN SentinelSlot ELSE EmptySlot]
NoOverflow(mask) == [g \in Groups(mask) |-> {}]
AllRaw(mask) == [c \in Cells(mask) |-> Raw]
(* Mutant: the loop over the old groups stops before the last one *)
AllButLastGroup == {c \in DOMAIN ctrl : c[1] < groupMask /\ ctrl[c] \notin {EmptySlot, SentinelSlot}}
UsedCells == {c \in DOMAIN ctrl : ctrl[c] \notin {EmptySlot, SentinelSlot}}

Init == /\ groupMask = 0 /\ ctrl = DefaultCtrl /\ overflow = NoOverflow(0) /\ slot = AllRaw(0)
        /\ slotSize = 0 /\ slotThreshold = 0 /\ mlf = DefaultLoadFactor
        /\ pc = "idle" /\ call = NoCall /\ probe = NoProbe /\ at = NoCell
        /\ oldSlot = NoSlots /\ oldSize = 0 /\ pending = {}
        /\ ret = NoResult

(* create_slots() and the start of the loop over the old groups *)
CreateSlots(mask, m) ==
    /\ groupMask' = mask
    /\ ctrl' = FreshCtrl(mask) /\ overflow' = NoOverflow(mask) /\ slot' = AllRaw(mask)
    /\ slotSize' = 0
    /\ slotThreshold' = CalcSlotThreshold(m, CalcSlotCapacity(mask + 1))
    /\ oldSlot' = slot /\ oldSize' = slotSize /\ pending' = UsedCells
    /\ pc' = "rehash"
    /\ UNCHANGED ret

(* rehash_impl<allowShrink>(n) up to its loop; m is the maximum load factor *)
RehashImpl(allowShrink, n, m) ==
    LET capacity == CalcCapacity(n)
        resize == IF allowShrink THEN capacity # CtrlCapacity ELSE capacity > CtrlCapacity
        mask == capacity \div GroupWidth - 1
    IN /\ \/ resize /\ mask < MaxGroups /\ CreateSlots(mask, m)
          \/ resize /\ (mask >= MaxGroups \/ MayThrow) /\ Done("throws") /\ UNCHANGED <<table, rehash>>
          \/ ~ resize /\ Done("ok") /\ UNCHANGED <<table, rehash>>
       /\ UNCHANGED <<call, probe, at>>

(* destroy<true>(): back to the static groups of a table without memory *)
Destroy == /\ IF Allocated
              THEN /\ groupMask' = 0 /\ ctrl' = DefaultCtrl /\ overflow' = NoOverflow(0)
                   /\ slot' = AllRaw(0) /\ slotSize' = 0 /\ slotThreshold' = 0
              ELSE slotSize' = 0 /\ UNCHANGED <<groupMask, ctrl, overflow, slot, slotThreshold>>
           /\ Done("ok")
           /\ UNCHANGED <<call, probe, at, rehash>>

(* clear_data(): init_groups() leaves the static groups alone *)
ClearedCtrl == IF Allocated THEN [c \in Cells(groupMask) |-> EmptySlot] ELSE ctrl
ClearData == /\ ctrl' = [ClearedCtrl EXCEPT ![SentinelCell(groupMask)] = SentinelSlot]
             /\ overflow' = NoOverflow(groupMask)
             /\ slot' = AllRaw(groupMask)
             /\ slotSize' = 0
             /\ Done("ok")
             /\ UNCHANGED <<groupMask, slotThreshold, call, probe, at, rehash>>

-----------------------------------------------------------------------------
(* Calls *)

Begin(op, k, v, n) ==
    /\ pc = "idle"
    /\ call' = [op |-> op, key |-> k, val |-> v, arg |-> n]
    /\ IF op \in KeyOps THEN pc' = "find" /\ probe' = StartProbe(k, groupMask)
                        ELSE pc' = "manage" /\ UNCHANGED probe
    /\ UNCHANGED <<table, mlf, at, rehash, ret>>

BeginKeyOp == \E k \in Key : 
    \/ \E op \in {"find", "erase"} : Begin(op, k, Absent, 0)
    \/ \E op \in Insertions, v \in Value : Begin(op, k, v, 0)
BeginManagement == 
    \/ Begin("clear", Absent, Absent, 0)
    \/ \E n \in ReserveArgs : Begin("reserve", Absent, Absent, n)
    \/ \E n \in RehashArgs : Begin("rehash", Absent, Absent, n)
    \/ \E m \in LoadFactors : Begin("max_load_factor", Absent, Absent, m)
    \/ \E readOnly \in ShrinkArgs : Begin("shrink_to_fit", Absent, Absent, IF readOnly THEN 1 ELSE 0)

Clear == /\ pc = "manage" /\ call.op = "clear"
         /\ ClearData
         /\ UNCHANGED mlf

Reserve == /\ pc = "manage" /\ call.op = "reserve"
           /\ IF call.arg # 0 THEN RehashImpl(FALSE, ShrinkToFitCapacity(call.arg, mlf), mlf)
                              ELSE Destroy
           /\ UNCHANGED mlf

Rehash == LET n == AtLeast(ShrinkToFitCapacity(slotSize, mlf), call.arg)
          IN /\ pc = "manage" /\ call.op = "rehash"
             /\ IF n # 0 THEN RehashImpl(FALSE, n, mlf) ELSE Destroy
             /\ UNCHANGED mlf

ShrinkToFit == LET n == IF call.arg = 1 THEN slotSize ELSE ShrinkToFitCapacity(slotSize, mlf)
               IN /\ pc = "manage" /\ call.op = "shrink_to_fit"
                  /\ IF n # 0 THEN RehashImpl(TRUE, n, mlf) ELSE Destroy
                  /\ UNCHANGED mlf

MaxLoadFactor ==
    LET capacity == CalcCapacity(ShrinkToFitCapacity(CtrlCapacity, call.arg))
    IN /\ pc = "manage" /\ call.op = "max_load_factor"
       /\ mlf' = call.arg
       /\ IF capacity > CtrlCapacity
          THEN RehashImpl(FALSE, AtLeast(ShrinkToFitCapacity(slotSize, call.arg), capacity), call.arg)
          ELSE Done("ok") /\ UNCHANGED <<table, call, probe, at, rehash>>

-----------------------------------------------------------------------------
(* find_impl(): one step per group *)

Matches == {c \in DOMAIN ctrl : c[1] = probe.index /\ ctrl[c] = CtrlOf(probe.key)}
Hit(c, e) == /\ pc = "find" /\ c \in Matches /\ e \in Read(slot, c)
             /\ e.key = probe.key
MissedGroup == pc = "find" /\ \A c \in Matches : \E e \in Read(slot, c) : e.key # probe.key
(* Mutant: only the home group is searched *)
OnlyHomeGroup == TRUE
EndsSearch == \/ OverflowBit(CtrlOf(probe.key)) \notin overflow[probe.index]
              \/ ~ HasNextBucket(probe.step, groupMask)

FindNext == /\ MissedGroup /\ ~ EndsSearch
            /\ probe' = NextBucket
            /\ UNCHANGED <<table, mlf, pc, call, at, rehash, ret>>

NotFound == /\ MissedGroup /\ EndsSearch
            /\ CASE call.op \in Insertions -> pc' = "grow" /\ UNCHANGED ret
                 [] call.op = "find"       -> Done(Absent)
                 [] call.op = "erase"      -> Done("none")
            /\ UNCHANGED <<table, mlf, call, probe, at, rehash>>

ReturnFound == \E c \in DOMAIN slot : \E e \in Read(slot, c) :
    /\ Hit(c, e) /\ call.op = "find"
    /\ Done(e.val)
    /\ UNCHANGED <<table, mlf, call, probe, at, rehash>>

KeepExisting == \E c \in DOMAIN slot : \E e \in Read(slot, c) :
    /\ Hit(c, e) /\ call.op = "insert"
    /\ Done("exists")
    /\ UNCHANGED <<table, mlf, call, probe, at, rehash>>

AssignExisting == \E c \in DOMAIN slot : \E e \in Read(slot, c) :
    /\ Hit(c, e) /\ call.op = "insert_or_assign"
    /\ slot' = [slot EXCEPT ![c] = [key |-> e.key, val |-> call.val]]
    /\ Done("exists")
    /\ UNCHANGED <<groupMask, ctrl, overflow, slotSize, slotThreshold, mlf, call, probe, at, rehash>>

(* Mutant: the size is not decremented *)
NotDecremented(n) == n

(* size_t wraps below zero *)
WordMax == 2147483647
Decrement(n) == IF n = 0 THEN WordMax ELSE n - 1

(* erase_slot() and reset_ctrl(): a slot whose hash has overflowed its     *)
(* group does not count any more                                           *)
CausedOverflow(c) == OverflowBit(ctrl[c]) \in overflow[c[1]]
EraseFound == \E c \in DOMAIN slot : \E e \in Read(slot, c) :
    /\ Hit(c, e) /\ call.op = "erase"
    /\ slot' = [slot EXCEPT ![c] = Raw]
    /\ ctrl' = [ctrl EXCEPT ![c] = EmptySlot]
    /\ slotThreshold' = IF CausedOverflow(c) THEN Decrement(slotThreshold) ELSE slotThreshold
    /\ slotSize' = Decrement(slotSize)
    /\ Done("erased")
    /\ UNCHANGED <<groupMask, overflow, mlf, call, probe, at, rehash>>

-----------------------------------------------------------------------------
(* find_or_insert() after the search, and rehash_impl() *)

Grow == /\ pc = "grow" /\ NeedGrow
        /\ RehashImpl(FALSE, CtrlCapacity * 2, mlf)
        /\ UNCHANGED mlf

NoGrow == /\ pc = "grow" /\ ~ NeedGrow
          /\ pc' = "place"
          /\ probe' = StartProbe(call.key, groupMask)
          /\ UNCHANGED <<table, mlf, call, at, rehash, ret>>

Before(c, d) == c[1] < d[1] \/ (c[1] = d[1] /\ c[2] <= d[2])
NextPending == CHOOSE c \in pending : \A d \in pending : Before(c, d)

TransferNext == /\ pc = "rehash" /\ pending # {}
                /\ \E e \in Read(oldSlot, NextPending) : probe' = StartProbe(e.key, groupMask)
                /\ pc' = "transfer"
                /\ UNCHANGED <<table, mlf, call, at, rehash, ret>>

RehashDone == /\ pc = "rehash" /\ pending = {}
              /\ oldSlot' = NoSlots /\ oldSize' = 0
              /\ IF call.op \in Insertions
                 THEN pc' = "place" /\ probe' = StartProbe(call.key, groupMask) /\ UNCHANGED ret
                 ELSE Done("ok") /\ UNCHANGED probe
              /\ UNCHANGED <<table, mlf, call, at, pending>>

-----------------------------------------------------------------------------
(* find_empty_to_insert(): one step per group, then the construction *)

EmptyCells == {c \in DOMAIN ctrl : c[1] = probe.index /\ ctrl[c] = EmptySlot}
FirstEmpty == CHOOSE c \in EmptyCells : \A d \in EmptyCells : c[2] <= d[2]

(* Mutant: the overflow bit is set in the group the prober moves to *)
MarkNextGroup ==
    /\ pc \in {"place", "transfer"} /\ EmptyCells = {}
    /\ overflow' = [overflow EXCEPT ![NextBucket.index] = @ \cup {OverflowBit(CtrlOf(probe.key))}]
    /\ probe' = NextBucket
    /\ UNCHANGED <<groupMask, ctrl, slot, slotSize, slotThreshold, mlf, pc, call, at, rehash, ret>>

(* the loop never asks whether the prober has been through the table *)
PlaceNext == /\ pc \in {"place", "transfer"} /\ EmptyCells = {}
             /\ overflow' = [overflow EXCEPT ![probe.index] = @ \cup {OverflowBit(CtrlOf(probe.key))}]
             /\ probe' = NextBucket
             /\ UNCHANGED <<groupMask, ctrl, slot, slotSize, slotThreshold, mlf, pc, call, at, rehash, ret>>

PlaceNew == /\ pc = "place" /\ EmptyCells # {}
            /\ ctrl' = [ctrl EXCEPT ![FirstEmpty] = CtrlOf(probe.key)]
            /\ at' = FirstEmpty
            /\ pc' = "construct"
            /\ UNCHANGED <<groupMask, overflow, slot, slotSize, slotThreshold, mlf, call, probe, rehash, ret>>

(* no_grow_unique_transfer_insert(): moves the element, destroys the old one *)
PlaceMoved == /\ pc = "transfer" /\ EmptyCells # {}
              /\ ctrl' = [ctrl EXCEPT ![FirstEmpty] = CtrlOf(probe.key)]
              /\ slot' = [slot EXCEPT ![FirstEmpty] = oldSlot[NextPending]]
              /\ slotSize' = slotSize + 1
              /\ oldSlot' = [oldSlot EXCEPT ![NextPending] = Raw]
              /\ pending' = pending \ {NextPending}
              /\ pc' = "rehash"
              /\ UNCHANGED <<groupMask, overflow, slotThreshold, mlf, call, probe, at, oldSize, ret>>

Construct == /\ pc = "construct"
             /\ slot' = [slot EXCEPT ![at] = [key |-> call.key, val |-> call.val]]
             /\ slotSize' = slotSize + 1
             /\ at' = NoCell
             /\ Done("inserted")
             /\ UNCHANGED <<groupMask, ctrl, overflow, slotThreshold, mlf, call, probe, rehash>>

(* the constructor of the element throws: nothing undoes set_used() *)
ConstructThrows == /\ pc = "construct" /\ MayThrow
                   /\ at' = NoCell
                   /\ Done("throws")
                   /\ UNCHANGED <<table, mlf, call, probe, rehash>>

Return == /\ pc = "done"
          /\ pc' = "idle" /\ call' = NoCall /\ probe' = NoProbe /\ ret' = NoResult
          /\ UNCHANGED <<table, mlf, at, rehash>>

-----------------------------------------------------------------------------
Manage == Clear \/ Reserve \/ Rehash \/ ShrinkToFit \/ MaxLoadFactor
FindStep == FindNext \/ NotFound \/ ReturnFound \/ KeepExisting \/ AssignExisting \/ EraseFound
RehashStep == Grow \/ NoGrow \/ TransferNext \/ RehashDone
PlaceStep == PlaceNext \/ PlaceNew \/ PlaceMoved \/ Construct \/ ConstructThrows
Step == Manage \/ FindStep \/ RehashStep \/ PlaceStep \/ Return

Next == BeginKeyOp \/ BeginManagement \/ Step

(* A call that has begun runs on: the table has no other thread to wait for *)
Spec == Init /\ [][Next]_vars /\ WF_vars(Step)

-----------------------------------------------------------------------------
(* Properties *)

Live(slots) == {c \in DOMAIN slots : slots[c] # Raw}
Home(k) == IndexForHash(Hash[k], groupMask)

Phases == {"idle", "manage", "find", "grow", "rehash", "transfer", "place", "construct", "done"}

TypeOK ==
    /\ groupMask \in Nat /\ IsPow2(groupMask + 1)
    /\ ctrl \in [Cells(groupMask) -> 0..(CtrlRange - 1)]
    /\ overflow \in [Groups(groupMask) -> SUBSET (0..(OverflowBits - 1))]
    /\ slot \in [Cells(groupMask) -> Element \cup {Raw}]
    /\ slotSize \in Nat /\ slotThreshold \in Nat
    /\ mlf \in LoadFactors
    /\ pc \in Phases
    /\ call \in [op : KeyOps \cup {"none", "clear", "reserve", "rehash", "max_load_factor", "shrink_to_fit"},
                 key : Key \cup {Absent}, val : Value \cup {Absent}, arg : Nat]
    /\ probe \in [key : Key \cup {Absent}, index : Nat, step : Nat]
    /\ at \in Nat \X Nat
    /\ DOMAIN oldSlot \subseteq Nat \X Nat
    /\ oldSlot \in [DOMAIN oldSlot -> Element \cup {Raw}]
    /\ oldSize \in Nat /\ pending \subseteq DOMAIN oldSlot

(***************************************************************************)
(* A control byte marks a slot used exactly when an element lives in it,   *)
(* and is then the reduced hash of that element's key; the only sentinel   *)
(* is the last slot of the last group (of both static groups in a table    *)
(* without memory), where no element ever lives.  Between                  *)
(* find_empty_to_insert() and the construction one slot is marked and      *)
(* still empty.                                                            *)
(***************************************************************************)
IsSentinel(c) == c[2] = GroupSize - 1 /\ (c[1] = groupMask \/ ~ Allocated)
Constructing(c) == pc = "construct" /\ c = at
CtrlMirrorsSlots ==
    \A c \in DOMAIN ctrl :
        /\ IsSentinel(c) => ctrl[c] = SentinelSlot /\ slot[c] = Raw
        /\ ~ IsSentinel(c) /\ slot[c] # Raw => ctrl[c] = CtrlOf(slot[c].key)
        /\ ~ IsSentinel(c) /\ slot[c] = Raw =>
               ctrl[c] = IF Constructing(c) THEN CtrlOf(call.key) ELSE EmptySlot

(***************************************************************************)
(* Every element can be reached by a search for its key: all groups before *)
(* its own on the probe sequence carry the overflow bit of its hash.       *)
(* Inserting, erasing, reusing an erased slot and rehashing all touch what *)
(* this rests on.                                                          *)
(***************************************************************************)
Reachable(k, g) ==
    \E n \in 0..groupMask :
        /\ Probe(Home(k), n, groupMask) = g
        /\ \A m \in 0..(n - 1) :
              OverflowBit(CtrlOf(k)) \in overflow[Probe(Home(k), m, groupMask)]
EveryElementReachable == \A c \in Live(slot) : Reachable(slot[c].key, c[1])

(***************************************************************************)
(* No key is stored twice, not even while a rehash has elements in both    *)
(* arrays.                                                                 *)
(***************************************************************************)
UniqueKeys ==
    /\ \A c, d \in Live(slot) : slot[c].key = slot[d].key => c = d
    /\ \A c, d \in Live(oldSlot) : oldSlot[c].key = oldSlot[d].key => c = d
    /\ \A c \in Live(slot), d \in Live(oldSlot) : slot[c].key # oldSlot[d].key

(***************************************************************************)
(* slot_size_ is the number of elements, and a rehash neither loses nor    *)
(* invents one (the assertion slot_size() == old_slot_size).               *)
(***************************************************************************)
SizeCountsElements ==
    /\ slotSize = Cardinality(Live(slot))
    /\ pc \in {"rehash", "transfer"} => oldSize = slotSize + Cardinality(pending)

(***************************************************************************)
(* Every call returns: no probe loop and no rehash goes on for ever.       *)
(***************************************************************************)
EveryCallReturns == pc # "idle" ~> pc = "idle"

(***************************************************************************)
(* The table is a map: the elements in the new and, during a rehash, the   *)
(* old array are its mapping, and each call returns what a map returns.    *)
(***************************************************************************)
Elements == {slot[c] : c \in Live(slot)} \cup {oldSlot[c] : c \in Live(oldSlot)}
Contents == [k \in Key |-> IF \E e \in Elements : e.key = k
                           THEN (CHOOSE e \in Elements : e.key = k).val
                           ELSE Absent]

Map == INSTANCE HashMapSpec WITH map <- Contents
ImplementsMap == Map!Spec
=============================================================================
