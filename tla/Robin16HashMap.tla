--------------------------- MODULE Robin16HashMap ---------------------------
(***************************************************************************)
(* robin16_hash_map: robin hood hashing in a circular table.  Sixteen bits *)
(* of control for a slot are the distance of its element from home and     *)
(* eight bits of its hash.  A search compares its first slots one by one   *)
(* and then whole groups, each read from wherever the search has come to;  *)
(* so that a group may be read across the end of the table, the control    *)
(* words of the first slots are repeated behind the last.                  *)
(***************************************************************************)
EXTENDS GroupQuadraticProber, FiniteSets

Sets == INSTANCE FiniteSetsExt

CONSTANTS
    Key, Value, Absent,
    Raw,                    \* the content of a slot that holds no element
    Hash, CtrlHash,         \* index_for_hash(get_hash(k)) before the mask, get_ctrl_hash(k)
    GroupWidth, MinCapacity, DefaultCapacity,   \* kGroupWidth 16, the others 4
    DistLimit,              \* kDistLimit: 128
    LoadFactors, DefaultLoadFactor,
    LoadFactorRev,          \* n_mlf_rev_ for each n_mlf_: the amplified reciprocal, rounded up
    MaxCapacity,            \* an allocation for more slots throws
    InitCapacities, RehashArgs, ReadOnlyArgs, DestroyArgs   \* the arguments callers use

LoadFactorAmplify == 65536

VARIABLES
    slotMask, ctrl, slot, slotSize, slotThreshold, mlf,
    pc, call,
    probe,         \* the key searched for and how far from its home
    hand,          \* the slot it is at, and in insert_to_place() what it carries from target
    old,           \* a rehash: the slots of the old table
    pending,       \* the old indexes whose elements are still to be moved
    resume,        \* what follows the rehash
    ret

table == <<slotMask, ctrl, slot, slotSize, slotThreshold>>
rehash == <<old, pending, resume>>
vars == <<table, mlf, pc, call, probe, hand, rehash, ret>>

Element == [key : Key, val : Value]
Ctrl(d, h) == [dist |-> d, hash |-> h]
Empty == Ctrl(-1, 0)
EndOf == Ctrl(254, 0)    \* counts as used

ASSUME KeyAssumption ==
    /\ Absent \notin Key /\ Absent \notin Value
    /\ Raw \notin [key : Key, val : Value]
ASSUME HashAssumption == Hash \in [Key -> Nat] /\ CtrlHash \in [Key -> 0..255]
ASSUME WidthAssumption ==
    /\ {GroupWidth, MinCapacity, DefaultCapacity} \subseteq {n \in Nat \ {0, 1} : IsPow2(n)}
    /\ DefaultCapacity >= MinCapacity
ASSUME LoadFactorAssumption ==
    /\ LoadFactors \subseteq {m \in Nat : 13108 <= m /\ m <= 52429} /\ DefaultLoadFactor \in LoadFactors
    /\ LoadFactorRev \in [LoadFactors -> Nat]
    /\ \A m \in LoadFactors : LoadFactorRev[m] >= LoadFactorAmplify
ASSUME CapacityAssumption == MaxCapacity \in Nat
ASSUME ArgsAssumption ==
    /\ InitCapacities \cup RehashArgs \subseteq Nat /\ DistLimit \in Nat
    /\ ReadOnlyArgs \cup DestroyArgs \subseteq BOOLEAN

-----------------------------------------------------------------------------
(* Capacities and control words *)

AtLeast(m, n) == IF m >= n THEN m ELSE n
CalcCapacity(n) == CHOOSE p \in AtLeast(n, MinCapacity)..(2 * AtLeast(n, MinCapacity)) :
                       IsPow2(p) /\ p < 2 * AtLeast(n, MinCapacity)
MinRequireCapacity(n, m) == (n * LoadFactorRev[m]) \div LoadFactorAmplify
CalcSlotThreshold(m, capacity) == (capacity * m) \div LoadFactorAmplify

SlotCapacity == slotMask + 1
(* Mutant: the capacity is the mask *)
RoundPastEnd(i) == i % (SlotCapacity + 1)
RoundIndex(i) == i % SlotCapacity
GroupCount(capacity) == (capacity + GroupWidth - 1) \div GroupWidth

(* create_group(): what a table smaller than a group does not need is marked as its end *)
FreshCtrl(capacity) ==
    [i \in 0..((GroupCount(capacity) + 1) * GroupWidth - 1) |->
        IF capacity < GroupWidth /\ i >= 2 * capacity THEN EndOf ELSE Empty]
AllRaw(capacity) == [i \in 0..(capacity - 1) |-> Raw]

CtrlAt(i) == IF i \in DOMAIN ctrl THEN ctrl[i] ELSE EndOf
IsUsed(c) == c # Empty
IncDist(c) == Ctrl(c.dist + 1, c.hash)

(* Mutant: only the word itself is written *)
WithoutMirror(words, i, c) == [words EXCEPT ![i] = c]
(* setUsedCtrl(), setUnusedCtrl(): the words of the first slots are written twice *)
SetCtrl(words, i, c) == IF i < GroupWidth
                        THEN [words EXCEPT ![i] = c, ![i + SlotCapacity] = c]
                        ELSE [words EXCEPT ![i] = c]

Home(k) == Hash[k] % SlotCapacity
NeedGrow == slotSize >= slotThreshold

(* Mutant: an element as far from home as the key ends the search *)
StrictlyFurther(d, c) == d < c.dist
InChain(d, c) == d <= c.dist

-----------------------------------------------------------------------------
(* The frame of a call *)

NoArg == [n |-> 0, flag |-> FALSE]
NoCall == [op |-> "none", key |-> Absent, val |-> Absent, arg |-> NoArg]
NoProbe == [key |-> Absent, dist |-> 0]
NoHand == [target |-> 0, at |-> 0, elem |-> Raw, ctrl |-> Empty]
NoOld == [i \in {} |-> Raw]
NoResult == [op |-> "none", key |-> Absent, res |-> Absent]
Insertions == {"insert", "insert_or_assign"}
KeyOps == Insertions \cup {"find", "erase"}

StartProbe(k) == [key |-> k, dist |-> 0]
Further == [probe EXCEPT !.dist = @ + 1]
Result(r) == ret' = [op |-> call.op, key |-> call.key, res |-> r]
Done(r) == pc' = "done" /\ Result(r)

(* the constructor with a capacity *)
Init == \E n \in InitCapacities :
    LET capacity == CalcCapacity(n)
    IN /\ slotMask = capacity - 1 /\ ctrl = FreshCtrl(capacity) /\ slot = AllRaw(capacity)
       /\ slotSize = 0 /\ slotThreshold = CalcSlotThreshold(DefaultLoadFactor, capacity)
       /\ mlf = DefaultLoadFactor /\ pc = "idle" /\ call = NoCall
       /\ probe = NoProbe /\ hand = NoHand
       /\ old = NoOld /\ pending = {} /\ resume = "done" /\ ret = NoResult

(* create_group() and the start of the loop over the old control words *)
CreateGroup(capacity, m, after) ==
    /\ slotMask' = capacity - 1 /\ ctrl' = FreshCtrl(capacity) /\ slot' = AllRaw(capacity)
    /\ slotSize' = 0 /\ slotThreshold' = CalcSlotThreshold(m, capacity)
    /\ old' = slot
    /\ pending' = {i \in 0..slotMask : IsUsed(ctrl[i])}
    /\ resume' = after /\ pc' = "rehash" /\ UNCHANGED ret

(* The allocation of the control words comes first and leaves everything as it was, except
   that an insertion which gave up has left an element in the wrong place. *)
GroupsThrow == /\ Result("throws") /\ pc' = (IF pc = "retry" THEN "broken" ELSE "done")
               /\ UNCHANGED <<table, rehash>>

(* When the slots cannot be allocated the table already has the new control words. *)
SlotsThrow(capacity) == /\ Result("throws") /\ pc' = "broken"
                        /\ ctrl' = FreshCtrl(capacity)
                        /\ UNCHANGED <<slotMask, slot, slotSize, slotThreshold, rehash>>

Resize(capacity, m, after) ==
    /\ \/ capacity <= MaxCapacity /\ CreateGroup(capacity, m, after)
       \/ capacity > MaxCapacity /\ (GroupsThrow \/ SlotsThrow(capacity))
    /\ UNCHANGED <<call, probe, hand>>

(* rehash_impl<true, false>() *)
RehashImpl(n, m) ==
    \/ CalcCapacity(n) # SlotCapacity /\ Resize(CalcCapacity(n), m, "done")
    \/ CalcCapacity(n) = SlotCapacity /\ Done("ok") /\ UNCHANGED <<table, call, probe, hand, rehash>>

(* Mutant: a growth allocates as many slots again *)
SameSize == slotMask + 1
TwiceTheSize == (slotMask + 1) * 2

(* grow_if_necessary() *)
GrowIfNecessary == Resize(CalcCapacity(TwiceTheSize), mlf, "walk") /\ UNCHANGED mlf

-----------------------------------------------------------------------------
(* Calls *)

Begin(op, k, v, n, flag) ==
    /\ pc = "idle"
    /\ call' = [op |-> op, key |-> k, val |-> v, arg |-> [n |-> n, flag |-> flag]]
    /\ IF op \in KeyOps THEN pc' = "walk" /\ probe' = StartProbe(k)
                        ELSE pc' = "manage" /\ UNCHANGED probe
    /\ UNCHANGED <<table, mlf, hand, rehash, ret>>

BeginKeyOp == \E k \in Key :
    \/ \E op \in {"find", "erase"} : Begin(op, k, Absent, 0, FALSE)
    \/ \E op \in Insertions, v \in Value : Begin(op, k, v, 0, FALSE)
BeginManagement ==
    \/ \E destroy \in DestroyArgs : Begin("clear", Absent, Absent, 0, destroy)
    \/ \E n \in RehashArgs, readOnly \in ReadOnlyArgs : Begin("rehash", Absent, Absent, n, readOnly)
    \/ \E readOnly \in ReadOnlyArgs : Begin("shrink_to_fit", Absent, Absent, 0, readOnly)
    \/ \E m \in LoadFactors : Begin("max_load_factor", Absent, Absent, m, FALSE)

Managing(op) == pc = "manage" /\ call.op = op

(* destroy<true>() and create_group() *)
Recreate == /\ slotMask' = DefaultCapacity - 1
            /\ ctrl' = FreshCtrl(DefaultCapacity) /\ slot' = AllRaw(DefaultCapacity)
            /\ slotThreshold' = CalcSlotThreshold(mlf, DefaultCapacity)

(* destroy<false>(): the group behind the last one is not cleared *)
ClearGroups == /\ ctrl' = [i \in DOMAIN ctrl |->
                               IF i < GroupCount(SlotCapacity) * GroupWidth THEN Empty ELSE ctrl[i]]
               /\ slot' = AllRaw(SlotCapacity)
               /\ UNCHANGED <<slotMask, slotThreshold>>

Clear == /\ Managing("clear")
         /\ IF SlotCapacity > DefaultCapacity /\ call.arg.flag THEN Recreate ELSE ClearGroups
         /\ slotSize' = 0 /\ Done("ok")
         /\ UNCHANGED <<mlf, call, probe, hand, rehash>>

(* rehash(), and reserve() and resize(), which only call it *)
Rehash == LET n == IF call.arg.flag THEN call.arg.n ELSE MinRequireCapacity(call.arg.n, mlf)
          IN Managing("rehash") /\ RehashImpl(AtLeast(n, slotSize), mlf) /\ UNCHANGED mlf

ShrinkToFit == LET n == IF call.arg.flag THEN slotSize ELSE MinRequireCapacity(slotSize, mlf)
               IN Managing("shrink_to_fit") /\ RehashImpl(n, mlf) /\ UNCHANGED mlf

(* max_load_factor(): the threshold stays what it was unless the table is rehashed *)
MaxLoadFactor ==
    LET m == call.arg.n
        required == MinRequireCapacity(slotSize, m)
    IN /\ Managing("max_load_factor") /\ mlf' = m
       /\ IF slotSize > slotThreshold /\ required > SlotCapacity
          THEN RehashImpl(AtLeast(required, slotSize), m)
          ELSE Done("ok") /\ UNCHANGED <<table, call, probe, hand, rehash>>

-----------------------------------------------------------------------------
(* The walk along a chain.  A search looks at two slots by themselves, an  *)
(* insertion and a move at four; then each group begins a group's width    *)
(* further round the table, and is read on from there without rounding.    *)

SingleSlots == IF call.op \in {"find", "erase"} THEN 2 ELSE 4
InGroups == probe.dist >= SingleSlots
InGroup == (probe.dist - SingleSlots) % GroupWidth     \* how far in the group
GroupStart == RoundIndex(Home(probe.key) + probe.dist - InGroup)
CtrlIndex == IF InGroups THEN GroupStart + InGroup ELSE RoundIndex(Home(probe.key) + probe.dist)
Here == CtrlAt(CtrlIndex)
AtChainEnd == ~ InChain(probe.dist, Here)

(* Reading a slot no element was constructed in may yield any element. *)
Read(i) == IF i \notin DOMAIN slot \/ slot[i] = Raw THEN Element ELSE {slot[i]}

(* What is compared here: this slot while the chain lasts; where it ends, the rest of the group *)
RestOfGroup == {i \in (CtrlIndex + 1)..(GroupStart + GroupWidth - 1) :
                   InChain(probe.dist + i - CtrlIndex, CtrlAt(i))}
Compared == {i \in IF ~ AtChainEnd THEN {CtrlIndex} ELSE IF InGroups THEN RestOfGroup ELSE {} :
                 CtrlAt(i).hash = CtrlHash[probe.key]}
Hits == {RoundIndex(i) : i \in {j \in Compared : \E e \in Read(RoundIndex(j)) : e.key = probe.key}}
Misses == \A i \in Compared : \E e \in Read(RoundIndex(i)) : e.key # probe.key

Looking(op) == pc = "walk" /\ call.op = op

WalkNext == /\ pc = "walk" /\ ~ AtChainEnd /\ Misses
            /\ probe' = Further
            /\ UNCHANGED <<table, mlf, pc, call, hand, rehash, ret>>

NotFound == /\ pc = "walk" /\ AtChainEnd /\ Misses
            /\ CASE call.op \in Insertions -> pc' = "room" /\ UNCHANGED ret
                 [] call.op = "find"       -> Done(Absent)
                 [] call.op = "erase"      -> Done("none")
            /\ UNCHANGED <<table, mlf, call, probe, hand, rehash>>

ReturnFound == Looking("find") /\ \E i \in Hits : \E e \in Read(i) :
    /\ e.key = probe.key /\ Done(e.val)
    /\ UNCHANGED <<table, mlf, call, probe, hand, rehash>>

KeepExisting == Looking("insert") /\ Hits # {}
    /\ Done("exists")
    /\ UNCHANGED <<table, mlf, call, probe, hand, rehash>>

AssignExisting == Looking("insert_or_assign") /\ \E i \in Hits :
    /\ slot' = [slot EXCEPT ![i] = [key |-> probe.key, val |-> call.val]]
    /\ Done("exists")
    /\ UNCHANGED <<slotMask, ctrl, slotSize, slotThreshold, mlf, call, probe, hand, rehash>>

-----------------------------------------------------------------------------
(* Erasure: the rest of the chain moves one slot towards home.  The pointers it moves by are
   not wrapped. *)

(* Mutant: an erasure does not decrement *)
NotDecremented(n) == n
Decrement(n) == n - 1

EraseFound == Looking("erase") /\ \E i \in Hits :
    /\ slot' = [slot EXCEPT ![i] = Raw]
    /\ hand' = [NoHand EXCEPT !.at = i]
    /\ slotSize' = Decrement(slotSize)
    /\ Result("erased") /\ pc' = "shift"
    /\ UNCHANGED <<slotMask, ctrl, slotThreshold, mlf, call, probe, rehash>>

NextCtrl == CtrlAt(hand.at + 1)

(* Mutant: a moved element keeps its distance *)
SameDist(c) == c
DecDist(c) == Ctrl(c.dist - 1, c.hash)

(* Mutant: nothing is shifted *)
LeaveHole(c) == FALSE
(* ! isEmptyOrZero() *)
NotAtHome(c) == c.dist > 0

Shifting == pc = "shift" /\ NotAtHome(NextCtrl)

ShiftNext ==
    /\ Shifting /\ hand.at < slotMask
    /\ ctrl' = SetCtrl(ctrl, hand.at, DecDist(NextCtrl))
    /\ \E e \in Read(hand.at + 1) :
          slot' = [slot EXCEPT ![hand.at] = e, ![hand.at + 1] = Raw]
    /\ hand' = [hand EXCEPT !.at = @ + 1]
    /\ UNCHANGED <<slotMask, slotSize, slotThreshold, mlf, pc, call, probe, rehash, ret>>

(* The element after the last slot is looked for behind the table and not in the first slot:
   what the program does from here on is undefined. *)
ShiftBehindTable ==
    /\ Shifting /\ hand.at = slotMask
    /\ pc' = "broken"
    /\ UNCHANGED <<table, mlf, call, probe, hand, rehash, ret>>

ShiftDone ==
    /\ pc = "shift" /\ ~ NotAtHome(NextCtrl)
    /\ ctrl' = SetCtrl(ctrl, hand.at, Empty)
    /\ hand' = NoHand /\ pc' = "done"
    /\ UNCHANGED <<slotMask, slot, slotSize, slotThreshold, mlf, call, probe, rehash, ret>>

-----------------------------------------------------------------------------
(* Insertion.  While elements are pending the one being placed is the first of them. *)

Moving == pending # {}
NextPending == Sets!Min(pending)
NewElement == IF Moving THEN old[NextPending] ELSE [key |-> call.key, val |-> call.val]

Grow == pc = "room" /\ NeedGrow /\ GrowIfNecessary

(* unique_prepare_insert(): the walk without comparing keys *)
PlaceNext == /\ pc = "place" /\ ~ AtChainEnd
             /\ probe' = Further
             /\ UNCHANGED <<table, mlf, pc, call, hand, rehash, ret>>

AtTarget == \/ pc = "room" /\ ~ NeedGrow
            \/ pc = "place" /\ AtChainEnd
Target == RoundIndex(CtrlIndex)
NewCtrl == Ctrl(probe.dist % SlotCapacity, CtrlHash[probe.key])

(* what follows when the element has been constructed *)
Placed ==
    /\ slotSize' = slotSize + 1
    /\ IF Moving
       THEN /\ old' = [old EXCEPT ![NextPending] = Raw]
            /\ pending' = pending \ {NextPending} /\ pc' = "rehash" /\ UNCHANGED ret
       ELSE Done("inserted") /\ UNCHANGED <<old, pending>>
    /\ hand' = NoHand
    /\ UNCHANGED <<slotMask, slotThreshold, mlf, call, probe, resume>>

PlaceInEmpty ==
    /\ AtTarget /\ ctrl[Target] = Empty
    /\ ctrl' = SetCtrl(ctrl, Target, NewCtrl)
    /\ slot' = [slot EXCEPT ![Target] = NewElement]
    /\ Placed

(* insert_to_place(): the new control word is put here, what was here is in the hand now *)
Displace ==
    /\ AtTarget /\ ctrl[Target] # Empty /\ \E e \in Read(Target) :
          hand' = [target |-> Target, at |-> RoundIndex(Target + 1),
                   elem |-> e, ctrl |-> IncDist(ctrl[Target])]
    /\ ctrl' = SetCtrl(ctrl, Target, NewCtrl)
    /\ slot' = [slot EXCEPT ![Target] = Raw]
    /\ pc' = "displace"
    /\ UNCHANGED <<slotMask, slotSize, slotThreshold, mlf, call, probe, rehash, ret>>

(* Mutant: what is found is never taken for what is carried *)
NeverPoorer(c) == FALSE
IsPoorerThan(c) == hand.ctrl.dist > c.dist

GaveUp(carried, next) == (~ Moving /\ carried.dist > DistLimit) \/ next = hand.target

PassOn == pc = "displace" /\ ctrl[hand.at] # Empty /\ \E here \in Read(hand.at) :
    LET swaps == IsPoorerThan(ctrl[hand.at])
        elem == IF swaps THEN here ELSE hand.elem
        carried == IncDist(IF swaps THEN ctrl[hand.at] ELSE hand.ctrl)
        next == RoundIndex(hand.at + 1)
        gaveUp == GaveUp(carried, next)
        swapped == IF swaps THEN SetCtrl(ctrl, hand.at, hand.ctrl) ELSE ctrl
        swappedSlot == IF swaps THEN [slot EXCEPT ![hand.at] = hand.elem] ELSE slot
    IN /\ ctrl' = IF gaveUp THEN SetCtrl(swapped, hand.target, carried) ELSE swapped
       /\ slot' = IF gaveUp THEN [swappedSlot EXCEPT ![hand.target] = elem] ELSE swappedSlot
       /\ hand' = IF gaveUp THEN NoHand
                  ELSE [hand EXCEPT !.at = next, !.elem = elem, !.ctrl = carried]
       /\ pc' = IF gaveUp THEN "retry" ELSE pc
       /\ UNCHANGED <<slotMask, slotSize, slotThreshold, mlf, call, probe, rehash, ret>>

PutDown ==
    /\ pc = "displace" /\ ctrl[hand.at] = Empty
    /\ ctrl' = SetCtrl(ctrl, hand.at, hand.ctrl)
    /\ slot' = [slot EXCEPT ![hand.at] = hand.elem, ![hand.target] = NewElement]
    /\ Placed

(* The element in the hand is back in the target: the table grows and the insertion starts anew. *)
Retry == pc = "retry" /\ GrowIfNecessary

-----------------------------------------------------------------------------
(* The loop of rehash_impl() *)

MoveNext == /\ pc = "rehash" /\ Moving
            /\ probe' = StartProbe(old[NextPending].key)
            /\ pc' = "place"
            /\ UNCHANGED <<table, mlf, call, hand, rehash, ret>>

RehashDone == /\ pc = "rehash" /\ ~ Moving
              /\ old' = NoOld /\ resume' = "done"
              /\ IF resume = "done"
                 THEN Done("ok") /\ UNCHANGED probe
                 ELSE pc' = resume /\ probe' = StartProbe(call.key) /\ UNCHANGED ret
              /\ UNCHANGED <<table, mlf, call, hand, pending>>

Return == /\ pc = "done"
          /\ pc' = "idle" /\ call' = NoCall /\ probe' = NoProbe /\ ret' = NoResult
          /\ UNCHANGED <<table, mlf, hand, rehash>>

Manage == Clear \/ Rehash \/ ShrinkToFit \/ MaxLoadFactor
Search == WalkNext \/ NotFound \/ ReturnFound \/ KeepExisting \/ AssignExisting
Erasing == EraseFound \/ ShiftNext \/ ShiftBehindTable \/ ShiftDone
Inserting == Grow \/ PlaceNext \/ PlaceInEmpty \/ Displace \/ PassOn \/ PutDown \/ Retry
Rehashing == MoveNext \/ RehashDone

Step == Manage \/ Search \/ Erasing \/ Inserting \/ Rehashing \/ Return
Next == BeginKeyOp \/ BeginManagement \/ Step

(* A call runs on once it has begun. *)
Spec == Init /\ [][Next]_vars /\ WF_vars(Step)

-----------------------------------------------------------------------------
(* Iteration: an iterator is the index of a slot *)

(* begin(): the first used word of the groups, where end marks do not count *)
FirstIndex ==
    LET used == {i \in 0..(GroupCount(SlotCapacity) * GroupWidth - 1) : ctrl[i] \notin {Empty, EndOf}}
    IN IF used = {} THEN SlotCapacity ELSE Sets!Min(used)

NextOf(i) == Sets!Min({j \in (i + 1)..SlotCapacity : j = SlotCapacity \/ ctrl[j] # Empty})

-----------------------------------------------------------------------------
(* Properties *)

Live(slots) == {i \in DOMAIN slots : slots[i] # Raw}

(***************************************************************************)
(* The variables have their types.  A distance has eight bits: a state in  *)
(* which one needs more is none of the program's.                          *)
(***************************************************************************)
TypeOK ==
    /\ slotMask \in Nat /\ IsPow2(slotMask + 1) /\ slotSize \in Nat /\ slotThreshold \in Nat
    /\ mlf \in LoadFactors
    /\ ctrl \in [DOMAIN ctrl -> [dist : -1..254, hash : 0..255]]
    /\ slot \in [0..slotMask -> Element \cup {Raw}]
    /\ pc \in {"idle", "manage", "walk", "shift", "room", "place", "displace", "retry", "rehash",
               "done", "broken"}
    /\ probe \in [key : Key \cup {Absent}, dist : Nat]
    /\ hand \in [target : 0..slotMask, at : 0..slotMask, elem : Element \cup {Raw},
                 ctrl : [dist : -1..254, hash : 0..255]]
    /\ resume \in {"walk", "done"}
    /\ old \in [DOMAIN old -> Element \cup {Raw}] /\ pending \subseteq DOMAIN old

(***************************************************************************)
(* A control word tells how far its slot's element is from home and has    *)
(* its hash, and the words behind the table are those of the first slots.  *)
(* The slot which an erasure is at, and the target of an insertion, whose  *)
(* element the hand carries, are the exceptions.                           *)
(***************************************************************************)
Distance(i, k) == (i + SlotCapacity - Home(k)) % SlotCapacity
CtrlOf(i, e) == Ctrl(Distance(i, e.key), CtrlHash[e.key])
Vacant == CASE pc = "shift" -> {hand.at} [] pc = "displace" -> {hand.target} [] OTHER -> {}
CtrlMirrorsSlots ==
    /\ \A i \in 0..slotMask \ Vacant :
          ctrl[i] = IF slot[i] = Raw THEN Empty ELSE CtrlOf(i, slot[i])
    /\ pc = "displace" => hand.ctrl = CtrlOf(hand.at, hand.elem)
    /\ \A i \in 0..slotMask : i < GroupWidth => ctrl[i + SlotCapacity] = ctrl[i]

(***************************************************************************)
(* A search for an element comes to its slot: no element between its home  *)
(* and its slot, round the table, is nearer to its own home than the       *)
(* search has come.                                                        *)
(***************************************************************************)
ReachableAt(i, k) == \A d \in 0..(Distance(i, k) - 1) : ctrl[RoundIndex(Home(k) + d)].dist >= d
EveryElementReachable ==
    /\ \A i \in Live(slot) : ReachableAt(i, slot[i].key)
    /\ pc = "displace" => ReachableAt(hand.at, hand.elem.key)

(***************************************************************************)
(* Whatever is called, in whatever order and however the chains wrap round *)
(* the table, both hold, except between the moment an insertion gives up   *)
(* and the growth that follows.                                            *)
(***************************************************************************)
SearchableUnlessBroken == pc \notin {"retry", "broken"} => CtrlMirrorsSlots /\ EveryElementReachable

(***************************************************************************)
(* begin() and ++ lead from one element to the next in the order of the    *)
(* slots, and past the last one to end(): over as many as size() says.     *)
(***************************************************************************)
IterationIsComplete ==
    pc = "idle" =>
        LET stops == Live(slot) \cup {SlotCapacity}
        IN /\ slotSize = Cardinality(Live(slot))
           /\ FirstIndex = Sets!Min(stops)
           /\ \A i \in Live(slot) : NextOf(i) = Sets!Min({j \in stops : j > i})

(***************************************************************************)
(* The table is a map: the elements in the new table, in the hand and,     *)
(* during a rehash, in the old table are its mapping, and each call        *)
(* returns what a map returns.                                             *)
(***************************************************************************)
Contents ==
    LET elements == {slot[i] : i \in Live(slot)} \cup {old[i] : i \in Live(old)}
                    \cup ({hand.elem} \ {Raw})
        keys == {e.key : e \in elements}
    IN [k \in Key |-> IF k \in keys THEN (CHOOSE e \in elements : e.key = k).val ELSE Absent]

Map == INSTANCE HashMapSpec WITH map <- Contents
ImplementsMap == Map!Spec

(***************************************************************************)
(* Every call returns: walks and displacements round the table end, and so *)
(* do the growths that a chain at its limit asks for again and again.      *)
(***************************************************************************)
EveryCallReturns == pc # "idle" ~> pc \in {"idle", "broken"}
=============================================================================
