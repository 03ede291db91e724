---------------------------- MODULE RobinHashMap ----------------------------
(***************************************************************************)
(* robin_hash_map with its elements in the table itself.  The table is     *)
(* linear: its capacity is followed by max_lookups_ more slots, and the    *)
(* chain of a home position never wraps.  A control byte holds the         *)
(* distance of its element from home, so that a search ends at the first   *)
(* element nearer to its home than the searched key would be; an insertion *)
(* takes that place and carries the element found there further, and an    *)
(* erasure shifts the rest of the chain back.  With StoreHash a control    *)
(* word holds eight bits of the hash code as well.                         *)
(***************************************************************************)
EXTENDS GroupQuadraticProber, FiniteSets

Sets == INSTANCE FiniteSetsExt

CONSTANTS
    Key, Value, Absent,
    Raw,                   \* the content of a slot that holds no element
    Hash, CtrlHash,        \* get_hash(k), get_ctrl_hash(k)
    StoreHash,             \* kNeedStoreHash
    GroupWidth,            \* kGroupWidth: 32, or 16 with stored hashes
    MinLookups, LookupFactor,   \* kMinLookups: 4, and the 2 of create_slots()
    LoadFactors, DefaultLoadFactor,
    MaxCapacity,           \* an allocation for more slots throws
    InitCapacities, RehashArgs, ReadOnlyArgs   \* the arguments callers use

LoadFactorAmplify == 256
MinCapacity == 4
MaxDist == 127

VARIABLES
    slotMask,      \* slot_mask_, 0 while the table owns no memory
    ctrl, slot,    \* with the bytes and the memory behind the last slot
    lastSlot,      \* last_slot_ as an index, 0 when it is null
    slotSize, slotThreshold, maxLookups, mlf,
    pc, call, probe,   \* what the current call does next, for whom, where
    hand,          \* insert_to_place(): where it began, the control byte it carries
    strayed,       \* history: an element was left where a search may not find it
    old,           \* a rehash: the control bytes and slots of the old table
    pending,       \* the old indexes whose elements are still to be moved
    resume,        \* what follows the rehash
    ret

table == <<slotMask, ctrl, slot, lastSlot, slotSize, slotThreshold, maxLookups>>
rehash == <<old, pending, resume>>
vars == <<table, mlf, pc, call, probe, hand, strayed, rehash, ret>>

Element == [key : Key, val : Value]
Ctrl(d, h) == [dist |-> d, hash |-> h]
Empty == Ctrl(-1, 0)
EndOf == Ctrl(-2, 0)

-----------------------------------------------------------------------------
(* Capacities *)

AtLeast(m, n) == IF m >= n THEN m ELSE n
AtMost(m, n) == IF m <= n THEN m ELSE n
Bsr(n) == Cardinality({p \in 2..n : IsPow2(p)})

(* Mutant: the capacity is what was asked for *)
AsAsked(n) == n
RoundUpPow2(n) == CHOOSE p \in n..(2 * n) : IsPow2(p) /\ p < 2 * n

CalcCapacity(n) == RoundUpPow2(AtLeast(n, MinCapacity))

(* from 2^16 slots on four times the logarithm, and no more than 128 *)
Lookups(capacity) == IF Bsr(capacity) < 16
                     THEN AtLeast(Bsr(capacity) * LookupFactor, MinLookups)
                     ELSE AtMost(Bsr(capacity) * 4, MaxDist + 1)
CalcSlotThreshold(m, capacity) == (capacity * m) \div LoadFactorAmplify
LoadFactorRev(m) == (LoadFactorAmplify * LoadFactorAmplify + m - 1) \div m
MinRequireCapacity(n, m) == (n * LoadFactorRev(m)) \div LoadFactorAmplify

ASSUME KeyAssumption ==
    /\ Absent \notin Key /\ Absent \notin Value
    /\ Raw \notin [key : Key, val : Value]
ASSUME HashAssumption ==
    /\ Hash \in [Key -> Nat] /\ CtrlHash \in [Key -> Nat] /\ StoreHash \in BOOLEAN
ASSUME LookupAssumption ==
    /\ GroupWidth \in Nat /\ GroupWidth >= MinCapacity /\ IsPow2(GroupWidth)
    \* no table of fewer slots has more lookups than one of 2^16, which has 64
    /\ MinLookups \in 1..64 /\ LookupFactor \in 0..4
ASSUME LoadFactorAssumption ==
    LoadFactors \subseteq 77..154 /\ DefaultLoadFactor \in LoadFactors
ASSUME CapacityAssumption == MaxCapacity \in Nat
ASSUME ArgsAssumption ==
    /\ InitCapacities \cup RehashArgs \subseteq Nat /\ ReadOnlyArgs \subseteq BOOLEAN
    /\ \A n \in InitCapacities : CalcCapacity(n) <= MaxCapacity

SlotCapacity == IF slotMask = 0 THEN 0 ELSE slotMask + 1
MaxSlotCapacity == SlotCapacity + maxLookups
GroupCount(capacity, lookups) == (capacity + lookups + GroupWidth - 1) \div GroupWidth
CtrlIndexes(capacity, lookups) == 0..((GroupCount(capacity, lookups) + 1) * GroupWidth - 1)

(* clear_ctrls(): a table smaller than a group ends with end marks, a larger one with empty bytes *)
FreshCtrl(capacity, lookups) ==
    [i \in CtrlIndexes(capacity, lookups) |->
        IF capacity < GroupWidth /\ i >= capacity + lookups THEN EndOf ELSE Empty]
AllRaw(capacity, lookups) == [i \in CtrlIndexes(capacity, lookups) |-> Raw]

CtrlAt(i) == IF i \in DOMAIN ctrl THEN ctrl[i] ELSE EndOf

(* Mutant: the mask is that of the smallest table *)
HomeInSmallest(k, mask) == Hash[k] % MinCapacity
Home(k, mask) == Hash[k] % (mask + 1)
HashOf(k) == IF StoreHash THEN CtrlHash[k] ELSE 0
IsUsed(c) == c.dist >= 0
IncDist(c) == Ctrl(c.dist + 1, c.hash)

NeedGrow == slotSize >= slotThreshold

(* Mutant: a chain may be as long as it likes *)
NeverTooFar(d) == FALSE
(* Without a stored hash the distance has eight bits and max_distance() is a multiple of 256. *)
TooFar(d) == StoreHash /\ d >= maxLookups

-----------------------------------------------------------------------------
(* The frame of a call *)

NoArg == [n |-> 0, flag |-> FALSE]
NoCall == [op |-> "none", key |-> Absent, val |-> Absent, arg |-> NoArg]
NoProbe == [key |-> Absent, index |-> 0, dist |-> 0]
NoHand == [at |-> 0, ctrl |-> Empty]
NoOld == [ctrl |-> [i \in {} |-> Empty], slot |-> [i \in {} |-> Raw], capacity |-> 0]
NoResult == [op |-> "none", key |-> Absent, res |-> Absent]
Insertions == {"insert", "insert_or_assign"}
KeyOps == Insertions \cup {"find", "erase"}

StartProbe(k, mask) == [key |-> k, index |-> Home(k, mask), dist |-> 0]
Further == [key |-> probe.key, index |-> probe.index + 1, dist |-> probe.dist + 1]
Result(r) == ret' = [op |-> call.op, key |-> call.key, res |-> r]
Done(r) == pc' = "done" /\ Result(r)

(* the constructor with a capacity, 0 by default *)
Init == \E n \in InitCapacities :
    LET capacity == IF n = 0 THEN 0 ELSE CalcCapacity(n)
        lookups == IF n = 0 THEN MinLookups ELSE Lookups(capacity)
    IN /\ slotMask = (IF n = 0 THEN 0 ELSE capacity - 1)
       /\ ctrl = FreshCtrl(capacity, lookups) /\ slot = AllRaw(capacity, lookups)
       /\ lastSlot = (IF n = 0 THEN 0 ELSE capacity + lookups)
       /\ slotSize = 0 /\ slotThreshold = CalcSlotThreshold(DefaultLoadFactor, capacity)
       /\ maxLookups = lookups /\ mlf = DefaultLoadFactor
       /\ pc = "idle" /\ call = NoCall /\ probe = NoProbe /\ hand = NoHand /\ strayed = FALSE
       /\ old = NoOld /\ pending = {} /\ resume = "done" /\ ret = NoResult

(* Mutant: a rehash leaves out what is behind the capacity *)
OnlyCapacity == 0..(SlotCapacity - 1)
(* the part of the old table that rehash_impl() goes through *)
OldIndexes == IF SlotCapacity >= GroupWidth
              THEN 0..(GroupCount(SlotCapacity, maxLookups) * GroupWidth - 1)
              ELSE 0..(MaxSlotCapacity - 1)

(* create_slots() and the start of the loop over the old control bytes *)
CreateSlots(capacity, m, after) ==
    LET lookups == Lookups(capacity)
    IN /\ slotMask' = capacity - 1 /\ lastSlot' = capacity + lookups
       /\ ctrl' = FreshCtrl(capacity, lookups) /\ slot' = AllRaw(capacity, lookups)
       /\ slotSize' = 0 /\ slotThreshold' = CalcSlotThreshold(m, capacity)
       /\ maxLookups' = lookups
       /\ old' = [ctrl |-> ctrl, slot |-> slot, capacity |-> SlotCapacity]
       /\ pending' = {i \in OldIndexes \cap DOMAIN ctrl : slotMask # 0 /\ IsUsed(ctrl[i])}
       /\ resume' = after /\ pc' = "rehash" /\ UNCHANGED <<strayed, ret>>

(* create_slots() sets max_lookups_ before it allocates *)
AllocationThrows(capacity) ==
    /\ maxLookups' = Lookups(capacity) /\ Done("throws")
    /\ strayed' = (strayed \/ pc = "retry")
    /\ UNCHANGED <<slotMask, ctrl, slot, lastSlot, slotSize, slotThreshold, rehash>>

Resize(capacity, m, after) ==
    /\ \/ capacity <= MaxCapacity /\ CreateSlots(capacity, m, after)
       \/ capacity > MaxCapacity /\ AllocationThrows(capacity)
    /\ UNCHANGED <<call, probe, hand>>

(* rehash_impl<true, false>() *)
RehashImpl(n, m) ==
    \/ CalcCapacity(n) # SlotCapacity /\ Resize(CalcCapacity(n), m, "done")
    \/ CalcCapacity(n) = SlotCapacity /\ Done("ok") /\ UNCHANGED <<table, call, probe, hand, strayed, rehash>>

(* Mutant: a growth allocates as many slots again *)
SameSize == slotMask + 1
TwiceTheSize == (slotMask + 1) * 2

(* grow_if_necessary() *)
GrowThen(after) == Resize(CalcCapacity(TwiceTheSize), mlf, after) /\ UNCHANGED mlf

-----------------------------------------------------------------------------
(* Calls *)

Begin(op, k, v, n, flag) ==
    /\ pc = "idle"
    /\ call' = [op |-> op, key |-> k, val |-> v, arg |-> [n |-> n, flag |-> flag]]
    /\ IF op \in KeyOps THEN pc' = "walk" /\ probe' = StartProbe(k, slotMask)
                        ELSE pc' = "manage" /\ UNCHANGED probe
    /\ UNCHANGED <<table, mlf, hand, strayed, rehash, ret>>

BeginKeyOp == \E k \in Key :
    \/ \E op \in {"find", "erase"} : Begin(op, k, Absent, 0, FALSE)
    \/ \E op \in Insertions, v \in Value : Begin(op, k, v, 0, FALSE)
BeginManagement ==
    \/ \E destroy \in BOOLEAN : Begin("clear", Absent, Absent, 0, destroy)
    \/ \E n \in RehashArgs, readOnly \in ReadOnlyArgs : Begin("rehash", Absent, Absent, n, readOnly)
    \/ \E readOnly \in ReadOnlyArgs : Begin("shrink_to_fit", Absent, Absent, 0, readOnly)
    \/ \E m \in LoadFactors : Begin("max_load_factor", Absent, Absent, m, FALSE)

Managing(op) == pc = "manage" /\ call.op = op

(* destroy_data() and reset(): the static control bytes of a table without memory *)
Destroy == /\ slotMask' = 0 /\ ctrl' = FreshCtrl(0, MinLookups) /\ slot' = AllRaw(0, MinLookups)
           /\ lastSlot' = 0 /\ slotSize' = 0 /\ slotThreshold' = 0 /\ maxLookups' = MinLookups

(* clear_data(): the threshold stays *)
ClearData == /\ ctrl' = FreshCtrl(SlotCapacity, maxLookups)
             /\ slot' = AllRaw(SlotCapacity, maxLookups) /\ slotSize' = 0
             /\ UNCHANGED <<slotMask, lastSlot, slotThreshold, maxLookups>>

Clear == /\ Managing("clear")
         /\ IF slotMask # 0 /\ call.arg.flag THEN Destroy ELSE ClearData
         /\ strayed' = FALSE /\ Done("ok")
         /\ UNCHANGED <<mlf, call, probe, hand, rehash>>

(* rehash(), and reserve() and resize(), which only call it *)
Rehash == LET n == IF call.arg.flag THEN call.arg.n ELSE MinRequireCapacity(call.arg.n, mlf)
          IN Managing("rehash") /\ RehashImpl(AtLeast(n, slotSize), mlf) /\ UNCHANGED mlf

ShrinkToFit == LET n == IF call.arg.flag THEN slotSize ELSE MinRequireCapacity(slotSize, mlf)
               IN Managing("shrink_to_fit") /\ RehashImpl(n, mlf) /\ UNCHANGED mlf

(* max_load_factor(): the threshold stays what it was unless the table is rehashed *)
MaxLoadFactor ==
    LET m == call.arg.n
        required == MinRequireCapacity(slotSize, m)
    IN /\ Managing("max_load_factor") /\ mlf' = m
       /\ IF slotSize > slotThreshold /\ required > SlotCapacity
          THEN RehashImpl(AtLeast(required, slotSize), m)
          ELSE Done("ok") /\ UNCHANGED <<table, call, probe, hand, strayed, rehash>>

-----------------------------------------------------------------------------
(* The walk along a chain *)

(* Mutant: an element as far from home as the key ends the search *)
StrictlyFurther(d, c) == d < c.dist
InChain(d, c) == d <= c.dist

(* Reading a slot no element was constructed in may yield any element. *)
Read(i) == IF i \notin DOMAIN slot \/ slot[i] = Raw THEN Element ELSE {slot[i]}
HashEquals == CtrlAt(probe.index).hash = HashOf(probe.key)
Hits == {e \in Read(probe.index) : HashEquals /\ e.key = probe.key}
Looking(op) == pc = "walk" /\ call.op = op /\ InChain(probe.dist, CtrlAt(probe.index))

WalkNext == /\ pc = "walk" /\ InChain(probe.dist, CtrlAt(probe.index))
            /\ HashEquals => \E e \in Read(probe.index) : e.key # probe.key
            /\ probe' = Further
            /\ UNCHANGED <<table, mlf, pc, call, hand, strayed, rehash, ret>>

NotFound == /\ pc = "walk" /\ ~ InChain(probe.dist, CtrlAt(probe.index))
            /\ CASE call.op \in Insertions -> pc' = "room" /\ UNCHANGED ret
                 [] call.op = "find"       -> Done(Absent)
                 [] call.op = "erase"      -> Done("none")
            /\ UNCHANGED <<table, mlf, call, probe, hand, strayed, rehash>>

ReturnFound == Looking("find") /\ \E e \in Hits :
    /\ Done(e.val)
    /\ UNCHANGED <<table, mlf, call, probe, hand, strayed, rehash>>

KeepExisting == Looking("insert") /\ \E e \in Hits :
    /\ Done("exists")
    /\ UNCHANGED <<table, mlf, call, probe, hand, strayed, rehash>>

AssignExisting == Looking("insert_or_assign") /\ \E e \in Hits :
    /\ slot' = [slot EXCEPT ![probe.index] = [key |-> e.key, val |-> call.val]]
    /\ Done("exists")
    /\ UNCHANGED <<slotMask, ctrl, lastSlot, slotSize, slotThreshold, maxLookups>>
    /\ UNCHANGED <<mlf, call, probe, hand, strayed, rehash>>

-----------------------------------------------------------------------------
(* Erasure: the rest of the chain moves one slot towards home *)

EraseFound == Looking("erase") /\ \E e \in Hits :
    /\ slot' = [slot EXCEPT ![probe.index] = Raw]
    /\ Result("erased") /\ pc' = "shift"
    /\ UNCHANGED <<slotMask, ctrl, lastSlot, slotSize, slotThreshold, maxLookups>>
    /\ UNCHANGED <<mlf, call, probe, hand, strayed, rehash>>

NextCtrl == CtrlAt(probe.index + 1)

(* Mutant: a moved element keeps its distance *)
SameDist(c) == c
DecDist(c) == Ctrl(c.dist - 1, c.hash)

(* Mutant: nothing is shifted *)
LeaveHole(c) == FALSE
(* ! isUnusedOrZero() *)
NotAtHome(c) == c.dist > 0

NextHole(i) == i + 1

ShiftNext ==
    /\ pc = "shift" /\ NotAtHome(NextCtrl)
    /\ ctrl' = [ctrl EXCEPT ![probe.index] = DecDist(NextCtrl)]
    /\ \E e \in Read(probe.index + 1) :
          slot' = [slot EXCEPT ![probe.index] = e, ![probe.index + 1] = Raw]
    /\ probe' = [probe EXCEPT !.index = NextHole(@)]
    /\ UNCHANGED <<slotMask, lastSlot, slotSize, slotThreshold, maxLookups>>
    /\ UNCHANGED <<mlf, pc, call, hand, strayed, rehash, ret>>

Decrement(n) == n - 1

ShiftDone ==
    /\ pc = "shift" /\ ~ NotAtHome(NextCtrl)
    /\ ctrl' = [ctrl EXCEPT ![probe.index] = Empty]
    /\ slotSize' = Decrement(slotSize)
    /\ pc' = "done"
    /\ UNCHANGED <<slotMask, slot, lastSlot, slotThreshold, maxLookups>>
    /\ UNCHANGED <<mlf, call, probe, hand, strayed, rehash, ret>>

-----------------------------------------------------------------------------
(* Insertion.  While elements are pending the one being placed is the first of them. *)

Moving == pending # {}
NextPending == Sets!Min(pending)
NewElement == IF Moving THEN old.slot[NextPending] ELSE [key |-> call.key, val |-> call.val]

Grow == /\ pc = "room" /\ (NeedGrow \/ TooFar(probe.dist))
        /\ GrowThen("place")

HaveRoom == /\ pc = "room" /\ ~ NeedGrow /\ ~ TooFar(probe.dist)
            /\ pc' = "place"
            /\ UNCHANGED <<table, mlf, call, probe, hand, strayed, rehash, ret>>

(* find_failed() and find_and_insert_no_grow(): the walk without comparing keys *)
PlaceNext == /\ pc = "place" /\ InChain(probe.dist, CtrlAt(probe.index))
             /\ probe' = Further
             /\ UNCHANGED <<table, mlf, pc, call, hand, strayed, rehash, ret>>

(* Moved from a table of a group or more, an element is not given its hash. *)
NewHash == IF ~ Moving THEN HashOf(probe.key)
           ELSE IF old.capacity < GroupWidth THEN old.ctrl[NextPending].hash
           ELSE 0
NewCtrl == Ctrl(probe.dist, NewHash)
AtEndOfChain == pc = "place" /\ ~ InChain(probe.dist, CtrlAt(probe.index))

(* what follows when the element has been constructed *)
Placed ==
    /\ slotSize' = slotSize + 1
    /\ IF Moving
       THEN /\ old' = [old EXCEPT !.slot[NextPending] = Raw]
            /\ pending' = pending \ {NextPending} /\ pc' = "rehash" /\ UNCHANGED ret
       ELSE Done("inserted") /\ UNCHANGED <<old, pending>>
    /\ UNCHANGED <<slotMask, lastSlot, slotThreshold, maxLookups, mlf, call, probe, resume>>

PlaceInEmpty ==
    /\ AtEndOfChain /\ CtrlAt(probe.index) = Empty
    /\ ctrl' = [ctrl EXCEPT ![probe.index] = NewCtrl]
    /\ slot' = [slot EXCEPT ![probe.index] = NewElement]
    /\ Placed
    /\ UNCHANGED <<hand, strayed>>

(* insert_to_place(): the new byte is put here, the one found here is in the hand now *)
Displace ==
    /\ AtEndOfChain /\ CtrlAt(probe.index) # Empty
    /\ ctrl' = [ctrl EXCEPT ![probe.index] = NewCtrl]
    /\ hand' = [at |-> probe.index, ctrl |-> IncDist(CtrlAt(probe.index))]
    /\ probe' = Further
    /\ pc' = "displace"
    /\ UNCHANGED <<slotMask, slot, lastSlot, slotSize, slotThreshold, maxLookups>>
    /\ UNCHANGED <<mlf, call, strayed, rehash, ret>>

(* The element in the hand waits in the slot where the new one will be constructed. *)
Displacing == pc = "displace" /\ probe.index < lastSlot

IsPoorerThan(c) == hand.ctrl.dist > c.dist

PassOn == Displacing /\ CtrlAt(probe.index) # Empty /\ \E inHand \in Read(hand.at), here \in Read(probe.index) :
    LET swaps == IsPoorerThan(CtrlAt(probe.index))
        carried == IncDist(IF swaps THEN CtrlAt(probe.index) ELSE hand.ctrl)
        gaveUp == ~ Moving /\ TooFar(carried.dist)
        swapped == IF swaps THEN [ctrl EXCEPT ![probe.index] = hand.ctrl] ELSE ctrl
    IN /\ slot' = IF swaps THEN [slot EXCEPT ![probe.index] = inHand, ![hand.at] = here] ELSE slot
       /\ probe' = Further
       /\ ctrl' = IF gaveUp THEN [swapped EXCEPT ![hand.at] = carried] ELSE swapped
       /\ hand' = IF gaveUp THEN NoHand ELSE [hand EXCEPT !.ctrl = carried]
       /\ pc' = IF gaveUp THEN "retry" ELSE pc
       /\ UNCHANGED <<slotMask, lastSlot, slotSize, slotThreshold, maxLookups>>
       /\ UNCHANGED <<mlf, call, strayed, rehash, ret>>

PutDown == Displacing /\ CtrlAt(probe.index) = Empty /\ \E inHand \in Read(hand.at) :
    /\ ctrl' = [ctrl EXCEPT ![probe.index] = hand.ctrl]
    /\ slot' = [slot EXCEPT ![probe.index] = inHand, ![hand.at] = NewElement]
    /\ Placed
    /\ hand' = NoHand /\ UNCHANGED strayed

(* Behind the last slot the element in the hand is put back where it was. *)
GiveUp == /\ pc = "displace" /\ probe.index >= lastSlot /\ ~ Moving
          /\ ctrl' = [ctrl EXCEPT ![hand.at] = hand.ctrl]
          /\ hand' = NoHand
          /\ pc' = "retry"
          /\ UNCHANGED <<slotMask, slot, lastSlot, slotSize, slotThreshold, maxLookups>>
          /\ UNCHANGED <<mlf, call, probe, strayed, rehash, ret>>

(* A rehash does not look at the result: the moved element is constructed over the other. *)
Overwrite == /\ pc = "displace" /\ probe.index >= lastSlot /\ Moving
             /\ ctrl' = [ctrl EXCEPT ![hand.at] = hand.ctrl]
             /\ slot' = [slot EXCEPT ![hand.at] = NewElement]
             /\ Placed
             /\ hand' = NoHand /\ strayed' = TRUE

(* kNeedGrow: the table grows and the insertion starts anew *)
Retry == pc = "retry" /\ GrowThen("walk")

-----------------------------------------------------------------------------
(* The loop of rehash_impl() *)

MoveNext == /\ pc = "rehash" /\ Moving
            /\ probe' = StartProbe(old.slot[NextPending].key, slotMask)
            /\ pc' = "place"
            /\ UNCHANGED <<table, mlf, call, hand, strayed, rehash, ret>>

RehashDone == /\ pc = "rehash" /\ ~ Moving
              /\ old' = NoOld /\ resume' = "done"
              /\ IF resume = "done"
                 THEN Done("ok") /\ UNCHANGED probe
                 ELSE pc' = resume /\ probe' = StartProbe(call.key, slotMask) /\ UNCHANGED ret
              /\ UNCHANGED <<table, mlf, call, hand, strayed, pending>>

Return == /\ pc = "done"
          /\ pc' = "idle" /\ call' = NoCall /\ probe' = NoProbe /\ ret' = NoResult
          /\ UNCHANGED <<table, mlf, hand, strayed, rehash>>

Manage == Clear \/ Rehash \/ ShrinkToFit \/ MaxLoadFactor
Search == WalkNext \/ NotFound \/ ReturnFound \/ KeepExisting \/ AssignExisting
Erasing == EraseFound \/ ShiftNext \/ ShiftDone
Inserting == \/ Grow \/ HaveRoom \/ PlaceNext \/ PlaceInEmpty \/ Displace
             \/ PassOn \/ PutDown \/ GiveUp \/ Overwrite \/ Retry
Rehashing == MoveNext \/ RehashDone

Step == Manage \/ Search \/ Erasing \/ Inserting \/ Rehashing \/ Return
Next == BeginKeyOp \/ BeginManagement \/ Step

(* A call runs on once it has begun. *)
Spec == Init /\ [][Next]_vars /\ WF_vars(Step)

-----------------------------------------------------------------------------
(* Iteration: an iterator is the index of a slot *)

UsedIndexes == {i \in DOMAIN ctrl : IsUsed(ctrl[i])}

(* Mutant: the slots behind the capacity are left out *)
WithoutOverrun == SlotCapacity
EndIndex == MaxSlotCapacity

(* begin() *)
FirstIndex ==
    LET used == {i \in UsedIndexes : i < GroupCount(SlotCapacity, maxLookups) * GroupWidth}
    IN IF used = {} THEN EndIndex ELSE Sets!Min(used)

(* operator ++ passes over empty bytes only *)
NextOf(i) == Sets!Min({j \in (i + 1)..EndIndex : j = EndIndex \/ CtrlAt(j).dist # Empty.dist})

-----------------------------------------------------------------------------
(* Properties *)

Live(slots) == {i \in DOMAIN slots : slots[i] # Raw}

TypeOK ==
    /\ slotMask \in Nat /\ IsPow2(slotMask + 1) /\ lastSlot \in Nat /\ slotSize \in Int /\ slotThreshold \in Nat
    /\ maxLookups \in Nat /\ mlf \in LoadFactors
    /\ ctrl \in [DOMAIN slot -> [dist : Int, hash : Nat]]
    /\ slot \in [DOMAIN slot -> Element \cup {Raw}] /\ DOMAIN slot \subseteq Nat
    /\ pc \in {"idle", "manage", "walk", "shift", "room", "place", "displace", "retry", "rehash", "done"}
    /\ probe \in [key : Key \cup {Absent}, index : Nat, dist : Nat]
    /\ hand \in [at : Nat, ctrl : [dist : Int, hash : Nat]]
    /\ strayed \in BOOLEAN /\ resume \in {"place", "walk", "done"}
    /\ old.slot \in [DOMAIN old.slot -> Element \cup {Raw}]
    /\ pending \subseteq DOMAIN old.slot

(***************************************************************************)
(* A control byte tells how far its slot's element is from home and has    *)
(* its hash.  While an insertion carries an element, that element waits in *)
(* the slot which already has the byte of the new one; while an erasure    *)
(* shifts the chain, one slot is vacant.                                   *)
(***************************************************************************)
Vacant == IF pc = "shift" THEN {probe.index} ELSE IF pc = "displace" THEN {hand.at} ELSE {}
CtrlOf(i, e) == Ctrl(i - Home(e.key, slotMask), HashOf(e.key))
CtrlMirrorsSlots ==
    /\ \A i \in DOMAIN ctrl \ Vacant : IsUsed(ctrl[i]) <=> slot[i] # Raw
    /\ \A i \in Live(slot) \ Vacant : ctrl[i] = CtrlOf(i, slot[i])
    /\ pc = "displace" /\ hand.at \in Live(slot) => hand.ctrl = CtrlOf(probe.index, slot[hand.at])

(***************************************************************************)
(* A search for an element comes to its slot: no element between its home  *)
(* and its slot is nearer to its own home than the search has come.  Each  *)
(* step of an insertion or an erasure keeps this true.                     *)
(***************************************************************************)
ReachableAt(i, k) == \A j \in Home(k, slotMask)..(i - 1) : ctrl[j].dist >= j - Home(k, slotMask)
EveryElementReachable ==
    /\ \A i \in Live(slot) \ Vacant : ReachableAt(i, slot[i].key)
    /\ pc = "displace" /\ hand.at \in Live(slot) => ReachableAt(probe.index, slot[hand.at].key)

(***************************************************************************)
(* No key is stored twice, in one table or in both during a rehash.        *)
(***************************************************************************)
UniqueKeys ==
    /\ \A i, j \in Live(slot) : slot[i].key = slot[j].key => i = j
    /\ \A i, j \in Live(old.slot) : old.slot[i].key = old.slot[j].key => i = j
    /\ \A i \in Live(slot), j \in Live(old.slot) : slot[i].key # old.slot[j].key

(***************************************************************************)
(* Whatever is called, in whatever order and however full the chains are:  *)
(* as long as no element has been left behind by a growth that failed or a *)
(* table that was made too small, and between the moment an insertion      *)
(* gives up and the growth that follows, the three hold.                   *)
(***************************************************************************)
SearchableUnlessStrayed ==
    pc # "retry" /\ ~ strayed => CtrlMirrorsSlots /\ EveryElementReachable /\ UniqueKeys

(***************************************************************************)
(* An insertion that gives up is followed by a growth in which every       *)
(* element finds a place, so that none strays while memory lasts, and none *)
(* lies behind the part of the table that a rehash goes through.           *)
(***************************************************************************)
Covered == Live(slot) \subseteq OldIndexes
NeverStrays == ~ strayed /\ Covered

(***************************************************************************)
(* The keys that need a place: those of the elements, and the one that is  *)
(* being inserted.  The chains of the homes from a on fit when the slots   *)
(* from a to the last one are enough for them; they are short when those   *)
(* of the homes a to b leave no element max_lookups_ slots behind b.       *)
(***************************************************************************)
KeysHere == {slot[i].key : i \in Live(slot)} \cup
            (IF pc \in {"place", "displace", "retry"} THEN {probe.key} ELSE {})
HomesIn(a, b) == {k \in KeysHere : Home(k, slotMask) \in a..b}
ChainsFit == slotMask # 0 =>
    \A a \in 0..slotMask : Cardinality(HomesIn(a, slotMask)) <= SlotCapacity + Lookups(SlotCapacity) - a
ChainsShort == slotMask # 0 =>
    \A b \in 0..slotMask : \A a \in 0..b :
        Cardinality(HomesIn(a, b)) <= b - a + Lookups(SlotCapacity)

(***************************************************************************)
(* Whether an insertion runs out of slots depends on the keys alone, not   *)
(* on the order in which they came or went: while their chains fit, no     *)
(* walk leaves the slots that were allocated, no displacement reaches the  *)
(* last of them with an element in the hand, and an insertion gives up     *)
(* only over stored hashes, where a chain is not short.                    *)
(***************************************************************************)
InMemory == \A i \in Live(slot) : i < lastSlot
GivesUpOnlyWhenCrowded == ~ strayed =>
    /\ ChainsFit =>
         /\ pc \in {"walk", "room"} => probe.index <= lastSlot
         /\ pc \in {"place", "displace"} => probe.index < lastSlot
         /\ pc = "displace" => hand.ctrl.dist >= 0
         /\ pc = "retry" => StoreHash /\ ~ ChainsShort
         /\ pc \notin {"shift", "displace", "retry"} => InMemory
    /\ ChainsShort =>
         /\ pc \in {"walk", "room"} => probe.dist <= Lookups(SlotCapacity)
         /\ pc = "place" => probe.dist < Lookups(SlotCapacity)
         /\ pc = "displace" => hand.ctrl.dist < Lookups(SlotCapacity)

(***************************************************************************)
(* While memory is left a growth follows when chains are not short; they   *)
(* have to be in the largest table, and to fit in every one.               *)
(***************************************************************************)
LastGrowth == CalcCapacity(TwiceTheSize) > MaxCapacity
Chains == ChainsFit /\ (StoreHash /\ LastGrowth => ChainsShort)

(***************************************************************************)
(* ctrl_data::setValue() asserts dist <= kMaxDist: a distance is a signed  *)
(* byte.  Nothing in the code compares one with that limit.                *)
(***************************************************************************)
DistancesFit ==
    /\ \A i \in DOMAIN ctrl : ctrl[i].dist <= MaxDist
    /\ hand.ctrl.dist <= MaxDist
    /\ pc \in {"walk", "room", "place"} => probe.dist <= MaxDist

(***************************************************************************)
(* begin() and ++ lead from one element to the next in the order of the    *)
(* slots, and past the last one to end(), also behind the capacity: over   *)
(* as many as size() says.  An allocation that failed has left             *)
(* max_lookups_, and with it end(), as the larger table would have had     *)
(* them; ++ may then leave the last element for an end mark before end().  *)
(***************************************************************************)
IterationIsComplete ==
    pc = "idle" /\ ~ strayed =>
        LET stops == Live(slot) \cup {EndIndex}
            next(i) == Sets!Min({j \in stops : j > i})
        IN /\ slotSize = Cardinality(Live(slot))
           /\ \A i \in Live(slot) : i < EndIndex
           /\ FirstIndex = Sets!Min(stops)
           /\ \A i \in Live(slot) :
                 next(i) \in Live(slot) \/ maxLookups = Lookups(SlotCapacity) => NextOf(i) = next(i)

(***************************************************************************)
(* The table is a map: the elements in the new and, during a rehash, the   *)
(* old table are its mapping, and each call returns what a map returns.    *)
(***************************************************************************)
Contents ==
    LET elements == {slot[i] : i \in Live(slot)} \cup {old.slot[i] : i \in Live(old.slot)}
        keys == {e.key : e \in elements}
    IN [k \in Key |-> IF k \in keys THEN (CHOOSE e \in elements : e.key = k).val ELSE Absent]

Map == INSTANCE HashMapSpec WITH map <- Contents
ImplementsMap == Map!Spec

(***************************************************************************)
(* Every call returns: walks and displacements end and so do the growths   *)
(* that a full chain asks for again and again.                             *)
(***************************************************************************)
EveryCallReturns == pc # "idle" ~> pc = "idle"
=============================================================================
