---------------------------- MODULE Flat16HashMap ----------------------------
(***************************************************************************)
(* flat16_hash_map: linear probing by groups that begin wherever the home  *)
(* of the key is.  One byte of control for a slot is seven bits of its     *)
(* element's hash, or a mark for a slot that is empty or deleted.  Groups  *)
(* are read across the end of the table, so that the bytes of the first    *)
(* slots are repeated behind the last; there the one of slot 0 is an end   *)
(* mark while the slot is not in use, and iteration stops at it.           *)
(***************************************************************************)
EXTENDS GroupQuadraticProber, FiniteSets

Sets == INSTANCE FiniteSetsExt

CONSTANTS
    Key,
    Absent,                 \* no key
    Raw,                    \* the content of a slot that holds no element
    Hash, CtrlHash,         \* get_hash(k), get_ctrl_hash(get_second_hash(get_hash(k)))
    GroupWidth, MinCapacity, DefaultCapacity,   \* kGroupWidth 16, the others 4
    ReorderAbove,           \* tables of more slots may drop deleted slots: 32
    ReorderShare,           \* when one slot of so many is deleted: 8
    WordSize,               \* the modulus of size_type
    LoadFactors, DefaultLoadFactor,
    LoadFactorRev,          \* n_mlf_rev_ for each n_mlf_
    MaxCapacity,            \* an allocation for more slots throws
    InitCapacities, RehashArgs, ReadOnlyArgs, DestroyArgs   \* the arguments callers use

LoadFactorAmplify == 65536

VARIABLES
    slotMask, ctrl,
    slot,          \* the keys of the elements; what is mapped to them plays no part
    slotSize, leftEmpties, mlf,
    pc, call,
    probe,         \* the key searched for and where the group begins that it has come to
    old,           \* a rehash: the slots of the old table
    pending,       \* the old indexes whose elements are still to be moved
    resume         \* what follows the rehash

table == <<slotMask, ctrl, slot, slotSize, leftEmpties>>
rehash == <<old, pending, resume>>
vars == <<table, mlf, pc, call, probe, rehash>>

(* kEmptyEntry, kDeletedEntry, kEndOfMark; a byte below them is a hash *)
Empty == 128
Deleted == 254
EndOf == 255
IsUsed(c) == c < 128

ASSUME KeyAssumption == Absent \notin Key /\ Raw \notin Key
ASSUME HashAssumption == Hash \in [Key -> Nat] /\ CtrlHash \in [Key -> 0..127]
ASSUME WidthAssumption ==
    /\ {GroupWidth, MinCapacity, DefaultCapacity} \subseteq {n \in Nat \ {0, 1} : IsPow2(n)}
    /\ DefaultCapacity >= MinCapacity
ASSUME ReorderAssumption == ReorderAbove \in Nat /\ ReorderShare \in Nat \ {0}
ASSUME LoadFactorAssumption ==
    /\ LoadFactors \subseteq {m \in Nat : 13108 <= m /\ m <= 52429} /\ DefaultLoadFactor \in LoadFactors
    /\ LoadFactorRev \in [LoadFactors -> Nat]
    /\ \A m \in LoadFactors : (MinCapacity * LoadFactorRev[m]) \div 65536 > MinCapacity
ASSUME ArgsAssumption ==
    /\ InitCapacities \cup RehashArgs \subseteq Nat
    /\ ReadOnlyArgs \cup DestroyArgs \subseteq BOOLEAN

-----------------------------------------------------------------------------
(* Capacities and control bytes *)

AtLeast(m, n) == IF m >= n THEN m ELSE n
CalcCapacity(n) == CHOOSE p \in AtLeast(n, MinCapacity)..(2 * AtLeast(n, MinCapacity)) :
                       IsPow2(p) /\ p < 2 * AtLeast(n, MinCapacity)

(* a constructor that cannot allocate makes no table *)
ASSUME CapacityAssumption ==
    /\ MaxCapacity \in Nat /\ WordSize \in Nat /\ 2 * MaxCapacity < WordSize
    /\ DefaultCapacity <= MaxCapacity
    /\ \A n \in InitCapacities : CalcCapacity(n) <= MaxCapacity

MinRequireCapacity(n, m) == (n * LoadFactorRev[m]) \div LoadFactorAmplify
SlotThreshold(m, capacity) == (capacity * m) \div LoadFactorAmplify
Minus(a, b) == (a - b + WordSize) % WordSize

SlotCapacity == slotMask + 1
RoundIndex(i) == i % SlotCapacity
GroupCount(capacity) == (capacity + GroupWidth - 1) \div GroupWidth

(* Mutant: there is no group behind the last one *)
OneGroupLess(capacity) ==
    [i \in 0..(GroupCount(capacity) * GroupWidth - 1) |-> IF i = capacity THEN EndOf ELSE Empty]
(* create_group(): behind the slots there is an end mark, and nothing but end marks where a
   table smaller than a group has no use for the bytes *)
FreshCtrl(capacity) ==
    [i \in 0..((GroupCount(capacity) + 1) * GroupWidth - 1) |->
        IF i = capacity \/ (capacity < GroupWidth /\ i >= 2 * capacity) THEN EndOf ELSE Empty]
AllRaw(capacity) == [i \in 0..(capacity - 1) |-> Raw]

(* Mutant: the byte is not repeated *)
UsedWithoutMirror(i, c) == [ctrl EXCEPT ![i] = c]
(* setUsed(), setUsedMirrorCtrl() *)
SetUsed(i, c) == IF i < GroupWidth THEN [ctrl EXCEPT ![i] = c, ![i + SlotCapacity] = c]
                                   ELSE [ctrl EXCEPT ![i] = c]

(* setEmpty() or setDeleted(), setUnusedMirrorCtrl() *)
SetUnused(i, c) ==
    IF i < GroupWidth
    THEN [ctrl EXCEPT ![i] = c, ![i + SlotCapacity] = IF i = 0 THEN EndOf ELSE c]
    ELSE [ctrl EXCEPT ![i] = c]

Home(k) == Hash[k] % SlotCapacity
NeedGrow == leftEmpties = 0

(* The groups: sixteen bytes from a slot on *)
Group(start) == start..(start + GroupWidth - 1)
HasAny(start, c) == \E i \in Group(start) : ctrl[i] = c
NextGroup(start) == RoundIndex(start + GroupWidth)

-----------------------------------------------------------------------------
(* The frame of a call *)

NoCall == [op |-> "none", key |-> Absent, n |-> 0, flag |-> FALSE]
NoProbe == [key |-> Absent, at |-> 0]
NoOld == [i \in {} |-> Raw]
KeyOps == {"insert", "find", "erase"}

Done == pc' = "done"

(* the constructor with a capacity *)
Init == \E n \in InitCapacities :
    LET capacity == CalcCapacity(n)
    IN /\ slotMask = capacity - 1 /\ ctrl = FreshCtrl(capacity) /\ slot = AllRaw(capacity)
       /\ slotSize = 0 /\ leftEmpties = SlotThreshold(DefaultLoadFactor, capacity)
       /\ mlf = DefaultLoadFactor /\ pc = "idle" /\ call = NoCall /\ probe = NoProbe
       /\ old = NoOld /\ pending = {} /\ resume = "done"

(* create_group() and the start of the loop over the old bytes *)
CreateGroup(capacity, m, after) ==
    /\ slotMask' = capacity - 1 /\ ctrl' = FreshCtrl(capacity) /\ slot' = AllRaw(capacity)
    /\ slotSize' = 0 /\ leftEmpties' = SlotThreshold(m, capacity)
    /\ old' = slot /\ pending' = {i \in 0..slotMask : IsUsed(ctrl[i])}
    /\ resume' = after /\ pc' = "rehash"

(* The allocation of the control bytes comes first and leaves everything as it was.  When the
   slots cannot be allocated the table already has the new bytes, and its elements are gone. *)
GroupsThrow == Done /\ UNCHANGED <<table, rehash>>
SlotsThrow(capacity) == /\ pc' = "broken" /\ ctrl' = FreshCtrl(capacity)
                        /\ UNCHANGED <<slotMask, slot, slotSize, leftEmpties, rehash>>

Resize(capacity, m, after) ==
    /\ \/ capacity <= MaxCapacity /\ CreateGroup(capacity, m, after)
       \/ capacity > MaxCapacity /\ (GroupsThrow \/ SlotsThrow(capacity))
    /\ UNCHANGED <<call, probe>>

(* rehash_impl<true, false>() *)
RehashImpl(n, m) ==
    \/ CalcCapacity(n) # SlotCapacity /\ Resize(CalcCapacity(n), m, "done")
    \/ CalcCapacity(n) = SlotCapacity /\ Done /\ UNCHANGED <<table, call, probe, rehash>>

(***************************************************************************)
(* drop_deleted_no_grow() marks the elements as deleted and then passes    *)
(* over the slots so marked: what it moves are the slots without an        *)
(* element, and what becomes of the table is undefined.                    *)
(***************************************************************************)
DropDeletedNoGrow == pc' = "broken" /\ UNCHANGED <<table, call, probe, rehash>>

SlotUsed(m) == Minus(SlotThreshold(m, SlotCapacity), leftEmpties)
SlotDeleted(m) == Minus(SlotUsed(m), slotSize)
WorthReordering(m) == /\ SlotCapacity > ReorderAbove
                      /\ SlotDeleted(m) >= SlotCapacity \div ReorderShare

(* Mutant: a growth allocates as many slots again *)
SameSize == slotMask + 1
TwiceTheSize == (slotMask + 1) * 2

(* reorder_or_grow_if_necessary(), and back to the start of find_and_prepare_insert() *)
ReorderOrGrow == /\ IF WorthReordering(mlf) THEN DropDeletedNoGrow
                                            ELSE Resize(CalcCapacity(TwiceTheSize), mlf, "walk")
                 /\ UNCHANGED mlf

-----------------------------------------------------------------------------
(* Calls *)

StartProbe(k) == [key |-> k, at |-> Home(k)]

Begin(op, k, n, flag) ==
    /\ pc = "idle"
    /\ call' = [op |-> op, key |-> k, n |-> n, flag |-> flag]
    /\ IF op \in KeyOps THEN pc' = "walk" /\ probe' = StartProbe(k)
                        ELSE pc' = "manage" /\ UNCHANGED probe
    /\ UNCHANGED <<table, mlf, rehash>>

BeginKeyOp == \E k \in Key, op \in KeyOps : Begin(op, k, 0, FALSE)
BeginManagement ==
    \/ \E destroy \in DestroyArgs : Begin("clear", Absent, 0, destroy)
    \/ \E n \in RehashArgs, readOnly \in ReadOnlyArgs : Begin("rehash", Absent, n, readOnly)
    \/ \E readOnly \in ReadOnlyArgs : Begin("shrink_to_fit", Absent, 0, readOnly)
    \/ \E m \in LoadFactors : Begin("max_load_factor", Absent, m, FALSE)

Managing(op) == pc = "manage" /\ call.op = op

(* destroy<true>() and create_group() *)
Recreate == /\ slotMask' = DefaultCapacity - 1
            /\ ctrl' = FreshCtrl(DefaultCapacity) /\ slot' = AllRaw(DefaultCapacity)
            /\ leftEmpties' = SlotThreshold(mlf, DefaultCapacity)
            /\ Done

(* destroy<false>() takes the number of a group for that of a slot: it clears the bytes of one
   group and of one more slot for each other group, the end mark of a small table included.
   Searches in a table that keeps the byte of an element it has destroyed are undefined. *)
ClearGroups ==
    LET cleared == Group(0) \cup {g + GroupWidth - 1 : g \in 0..(GroupCount(SlotCapacity) - 1)}
    IN /\ ctrl' = [i \in DOMAIN ctrl |-> IF i \in cleared THEN Empty ELSE ctrl[i]]
       /\ slot' = AllRaw(SlotCapacity)
       /\ leftEmpties' = SlotThreshold(mlf, SlotCapacity)
       /\ pc' = IF \E i \in DOMAIN ctrl \ cleared : IsUsed(ctrl[i]) THEN "broken" ELSE "done"
       /\ UNCHANGED slotMask

Clear == /\ Managing("clear")
         /\ IF SlotCapacity > DefaultCapacity /\ call.flag THEN Recreate ELSE ClearGroups
         /\ slotSize' = 0
         /\ UNCHANGED <<mlf, call, probe, rehash>>

(* rehash(), and reserve() and resize(), which only call it *)
Rehash == LET n == IF call.flag THEN call.n ELSE MinRequireCapacity(call.n, mlf)
          IN Managing("rehash") /\ RehashImpl(AtLeast(n, slotSize), mlf) /\ UNCHANGED mlf

ShrinkToFit == LET n == IF call.flag THEN slotSize ELSE MinRequireCapacity(slotSize, mlf)
               IN Managing("shrink_to_fit") /\ RehashImpl(n, mlf) /\ UNCHANGED mlf

(* max_load_factor(): leftEmpties stays what it was unless the table is rehashed *)
MaxLoadFactor ==
    LET m == call.n
        deleted == SlotDeleted(mlf)
    IN /\ Managing("max_load_factor") /\ mlf' = m
       /\ IF SlotUsed(mlf) <= SlotThreshold(m, SlotCapacity)
          THEN Done /\ UNCHANGED <<table, call, probe, rehash>>
          ELSE IF \/ SlotCapacity <= ReorderAbove
                  \/ deleted < SlotCapacity \div ReorderShare
                  \/ MinRequireCapacity(slotSize, m) > SlotCapacity
               THEN RehashImpl(AtLeast(MinRequireCapacity(slotSize, m), slotSize), m)
               ELSE DropDeletedNoGrow

-----------------------------------------------------------------------------
(* The walk along a chain: one group after the other, from the home of the *)
(* key on, until a group has an empty slot or the walk is round the table  *)

(* Reading a slot no element was constructed in may yield any key. *)
Read(i) == IF slot[i] = Raw THEN Key ELSE {slot[i]}
Compared == {RoundIndex(i) : i \in {j \in Group(probe.at) : ctrl[j] = CtrlHash[probe.key]}}
Hits == {i \in Compared : probe.key \in Read(i)}
Misses == \A i \in Compared : Read(i) # {probe.key}

AtChainEnd == HasAny(probe.at, Empty)
RoundTable == NextGroup(probe.at) = Home(probe.key)
Looking(op) == pc = "walk" /\ call.op = op

WalkNext == /\ pc = "walk" /\ Misses /\ ~ AtChainEnd /\ ~ RoundTable
            /\ probe' = [probe EXCEPT !.at = NextGroup(@)]
            /\ UNCHANGED <<table, mlf, pc, call, rehash>>

NotFound == /\ pc = "walk" /\ Misses /\ (AtChainEnd \/ RoundTable)
            /\ pc' = IF call.op = "insert" THEN "room" ELSE "done"
            /\ UNCHANGED <<table, mlf, call, probe, rehash>>

(* find(), and insert() and insert_always() of a key that is in the table *)
Found == /\ pc = "walk" /\ call.op # "erase" /\ Hits # {}
         /\ Done
         /\ UNCHANGED <<table, mlf, call, probe, rehash>>

(* Mutant: an erasure does not decrement *)
NotDecremented(n) == n
Decrement(n) == n - 1

(* erase_slot(): the chains that go on past the slot are taken to be those which the group that
   begins with the slot, or else the one behind that, shows *)
MayBeEmptied(i) ==
    \/ HasAny(i, Empty)
    \/ NextGroup(i) = i
    \/ \A j \in Group(NextGroup(i)) : ctrl[j] = Empty

EraseFound == Looking("erase") /\ \E i \in Hits :
    /\ slot' = [slot EXCEPT ![i] = Raw]
    /\ ctrl' = SetUnused(i, IF MayBeEmptied(i) THEN Empty ELSE Deleted)
    /\ leftEmpties' = IF MayBeEmptied(i) THEN (leftEmpties + 1) % WordSize ELSE leftEmpties
    /\ slotSize' = Decrement(slotSize)
    /\ Done
    /\ UNCHANGED <<slotMask, mlf, call, probe, rehash>>

-----------------------------------------------------------------------------
(* Insertion *)

Grow == pc = "room" /\ (NeedGrow \/ ~ AtChainEnd) /\ ReorderOrGrow

(* The bytes that the walk has passed, numbered from the home on *)
Walked == 0..(((probe.at + SlotCapacity - Home(probe.key)) % SlotCapacity) + GroupWidth - 1)
ByteAt(d) == RoundIndex(Home(probe.key) + d - (d % GroupWidth)) + (d % GroupWidth)
DeletedOnTheWay == {d \in Walked : ctrl[ByteAt(d)] = Deleted}
(* Mutant: the first empty slot of the table *)
AnyEmpty == Sets!Min({i \in 0..slotMask : ctrl[i] = Empty})
FirstEmpty == RoundIndex(Sets!Min({i \in Group(probe.at) : ctrl[i] = Empty}))

Put(i, k) == /\ ctrl' = SetUsed(i, CtrlHash[k])
             /\ slot' = [slot EXCEPT ![i] = k]
             /\ slotSize' = slotSize + 1

PutInDeleted == /\ pc = "room" /\ ~ NeedGrow /\ AtChainEnd /\ DeletedOnTheWay # {}
                /\ Put(RoundIndex(ByteAt(Sets!Min(DeletedOnTheWay))), call.key)
                /\ Done
                /\ UNCHANGED <<slotMask, leftEmpties, mlf, call, probe, rehash>>

PutInEmpty == /\ pc = "room" /\ ~ NeedGrow /\ AtChainEnd /\ DeletedOnTheWay = {}
              /\ Put(FirstEmpty, call.key)
              /\ leftEmpties' = leftEmpties - 1
              /\ Done
              /\ UNCHANGED <<slotMask, mlf, call, probe, rehash>>

-----------------------------------------------------------------------------
(* The loop of rehash_impl() *)

NextPending == Sets!Min(pending)

MoveNext == /\ pc = "rehash" /\ pending # {}
            /\ probe' = StartProbe(old[NextPending])
            /\ pc' = "move"
            /\ UNCHANGED <<table, mlf, call, rehash>>

(* find_first_empty_slot(): nothing but an empty slot ends this walk *)
MoveOn == /\ pc = "move" /\ ~ AtChainEnd
          /\ probe' = [probe EXCEPT !.at = NextGroup(@)]
          /\ UNCHANGED <<table, mlf, pc, call, rehash>>

(* move_insert_unique() *)
MoveHere == /\ pc = "move" /\ AtChainEnd
            /\ Put(FirstEmpty, probe.key)
            /\ old' = [old EXCEPT ![NextPending] = Raw]
            /\ pending' = pending \ {NextPending}
            /\ pc' = "rehash"
            /\ UNCHANGED <<slotMask, leftEmpties, mlf, call, probe, resume>>

RehashDone == /\ pc = "rehash" /\ pending = {}
              /\ leftEmpties' = Minus(leftEmpties, slotSize)
              /\ old' = NoOld /\ resume' = "done" /\ pc' = resume
              /\ probe' = IF resume = "walk" THEN StartProbe(call.key) ELSE NoProbe
              /\ UNCHANGED <<slotMask, ctrl, slot, slotSize, mlf, call, pending>>

Return == /\ pc = "done"
          /\ pc' = "idle" /\ call' = NoCall /\ probe' = NoProbe
          /\ UNCHANGED <<table, mlf, rehash>>

Manage == Clear \/ Rehash \/ ShrinkToFit \/ MaxLoadFactor
Search == WalkNext \/ NotFound \/ Found \/ EraseFound
Inserting == Grow \/ PutInDeleted \/ PutInEmpty
Rehashing == MoveNext \/ MoveOn \/ MoveHere \/ RehashDone

Step == Manage \/ Search \/ Inserting \/ Rehashing \/ Return
Next == BeginKeyOp \/ BeginManagement \/ Step

(* A call runs on once it has begun. *)
Spec == Init /\ [][Next]_vars /\ WF_vars(Step)

-----------------------------------------------------------------------------
(* Iteration: an iterator is the index of a slot *)

(* begin() reads the bytes of all groups *)
FirstIndex ==
    LET used == {i \in 0..(GroupCount(SlotCapacity) * GroupWidth - 1) : IsUsed(ctrl[i])}
    IN IF used = {} THEN SlotCapacity ELSE Sets!Min(used)

(* ++ stops at any byte that is neither empty nor deleted *)
NextOf(i) == Sets!Min({j \in DOMAIN ctrl : j > i /\ ctrl[j] \notin {Empty, Deleted}})

-----------------------------------------------------------------------------
(* Properties *)

Live(slots) == {i \in DOMAIN slots : slots[i] # Raw}

TypeOK ==
    /\ slotMask \in Nat /\ IsPow2(slotMask + 1)
    /\ slotSize \in 0..SlotCapacity /\ leftEmpties \in 0..(WordSize - 1)
    /\ mlf \in LoadFactors
    /\ ctrl \in [DOMAIN ctrl -> 0..255]
    /\ pc # "broken" => DOMAIN ctrl = 0..((GroupCount(SlotCapacity) + 1) * GroupWidth - 1)
    /\ slot \in [0..slotMask -> Key \cup {Raw}]
    /\ pc \in {"idle", "manage", "walk", "room", "move", "rehash", "done", "broken"}
    /\ probe \in [key : Key \cup {Absent}, at : Nat]
    /\ resume \in {"walk", "done"}
    /\ old \in [DOMAIN old -> Key \cup {Raw}] /\ pending = Live(old)

(***************************************************************************)
(* A byte tells whether its slot holds an element and the hash of it, and  *)
(* what is repeated behind the table shows the same elements.              *)
(***************************************************************************)
CtrlMirrorsSlots == pc # "broken" =>
    /\ \A i \in 0..slotMask : IF slot[i] = Raw THEN ctrl[i] \in {Empty, Deleted}
                                               ELSE ctrl[i] = CtrlHash[slot[i]]
    /\ \A i \in SlotCapacity..Sets!Max(DOMAIN ctrl) :
          LET shown == IF i - SlotCapacity \in 0..slotMask THEN ctrl[i - SlotCapacity] ELSE EndOf
          IN IF IsUsed(shown) THEN ctrl[i] = shown ELSE ~ IsUsed(ctrl[i])

(***************************************************************************)
(* begin() and ++ lead from one element to the next in the order of the    *)
(* slots, and past the last one to end(): over as many as size() says.     *)
(* A table smaller than a group that was cleared is an exception until its *)
(* slot 0 is used: there the byte behind the slots is not what begin()     *)
(* asserts of it.                                                          *)
(***************************************************************************)
EndMarked == ctrl[SlotCapacity] \notin {Empty, Deleted}
IterationIsComplete ==
    pc = "idle" /\ (EndMarked \/ SlotCapacity >= GroupWidth) =>
        LET stops == Live(slot) \cup {SlotCapacity}
        IN /\ slotSize = Cardinality(Live(slot))
           /\ FirstIndex = Sets!Min(stops)
           /\ \A i \in Live(slot) : NextOf(i) = Sets!Min({j \in stops : j > i})

(***************************************************************************)
(* A search for an element comes to its slot: no group on the way there    *)
(* has an empty slot.  A test erases every key that it has inserted and    *)
(* says that the table is empty then.                                      *)
(***************************************************************************)
Reachable(i) ==
    LET home == Home(slot[i])
        starts == {RoundIndex(home + n * GroupWidth) :
                      n \in {m \in 0..slotMask :
                                m * GroupWidth + GroupWidth <= (i + SlotCapacity - home) % SlotCapacity}}
    IN \A s \in starts : ~ HasAny(s, Empty)
EveryElementReachable == pc # "broken" => \A i \in Live(slot) : Reachable(i)

(***************************************************************************)
(* It is only by an erasure that an element gets out of reach: insertions, *)
(* growth, rehashing and clearing keep every element findable and, if one  *)
(* was lost, a rehash makes it findable again.                             *)
(***************************************************************************)
OnlyErasureHides == [][
    /\ EveryElementReachable /\ call.op # "erase" => EveryElementReachable'
    /\ pc = "rehash" /\ pc' # "rehash" => EveryElementReachable'
    ]_vars

(***************************************************************************)
(* A table into which elements are moved has room for each of them (the    *)
(* assertion slot_index != first_slot of find_first_empty_slot()).         *)
(***************************************************************************)
MoveFindsPlace == pc = "move" /\ ~ AtChainEnd => ~ RoundTable

(* Every call returns, even though the walk of a move has no other end than an empty slot. *)
EveryCallReturns == pc # "idle" ~> pc \in {"idle", "broken"}
=============================================================================
