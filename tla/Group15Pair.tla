----------------------------- MODULE Group15Pair -----------------------------
(***************************************************************************)
(* Two group15_flat_tables, one of which is called at a time.  They meet   *)
(* in swap() and in copy assignment, which copies into a temporary table,  *)
(* at once or element by element, and swaps with it.  Elements are copied  *)
(* without throwing.                                                       *)
(***************************************************************************)
EXTENDS Group15Table

CONSTANT InitCapacities   \* the arguments of the capacity constructor

ASSUME PairAssumption == InitCapacities \subseteq Nat /\ MayThrow = FALSE

VARIABLES
    other,     \* the fields of the table that is not called
    copying,   \* a copy is being made, element by element
    copy,      \* the fields of the temporary table of that copy
    left       \* the cells its loop over the elements has still to come to

Sets == INSTANCE FiniteSetsExt

pairVars == <<vars, other, copying, copy, left>>

This == [groupMask |-> groupMask, ctrl |-> ctrl, overflow |-> overflow, slot |-> slot,
         slotSize |-> slotSize, slotThreshold |-> slotThreshold, mlf |-> mlf]

EmptyTable(m) ==
    [groupMask |-> 0, ctrl |-> DefaultCtrl, overflow |-> NoOverflow(0), slot |-> AllRaw(0),
     slotSize |-> 0, slotThreshold |-> 0, mlf |-> m]

-----------------------------------------------------------------------------
(* Construction *)

(* reserve_for_insert(n) in a table of size 0, the argument of create_slots() *)
CapacityFor(n, m) == RoundUpPow2(AtLeast(ShrinkToFitCapacity(n, m), MinCapacity))

NewTable(n, m) == 
    LET mask == CapacityFor(n, m) \div GroupWidth - 1
    IN [groupMask |-> mask, ctrl |-> FreshCtrl(mask), overflow |-> NoOverflow(mask),
        slot |-> AllRaw(mask), slotSize |-> 0,
        slotThreshold |-> CalcSlotThreshold(m, CalcSlotCapacity(mask + 1)), mlf |-> m]

(* the constructor with a capacity *)
WithCapacity(n) == IF n = 0 THEN EmptyTable(DefaultLoadFactor) ELSE NewTable(n, DefaultLoadFactor)

(***************************************************************************)
(* no_grow_unique_insert(): the element goes to the first empty slot on    *)
(* its probe sequence, and the groups before get the overflow bit of its   *)
(* hash.                                                                   *)
(***************************************************************************)
EmptyIn(t, g) == {p \in 0..(GroupSize - 1) : t.ctrl[<<g, p>>] = EmptySlot}
ProbesOf(t, k) == [n \in 0..t.groupMask |-> Probe(IndexForHash(Hash[k], t.groupMask), n, t.groupMask)]
Roomy(t, k) == {n \in 0..t.groupMask : EmptyIn(t, ProbesOf(t, k)[n]) # {}}

UniqueInsert(t, e) ==
    LET probes == ProbesOf(t, e.key)
        n == Sets!Min(Roomy(t, e.key))
        c == <<probes[n], Sets!Min(EmptyIn(t, probes[n]))>>
        passed == {probes[m] : m \in 0..(n - 1)}
        bit == OverflowBit(CtrlOf(e.key))
    IN [t EXCEPT !.ctrl[c] = CtrlOf(e.key),
                 !.slot[c] = e,
                 !.overflow = [g \in DOMAIN @ |-> @[g] \cup (IF g \in passed THEN {bit} ELSE {})],
                 !.slotSize = @ + 1]

-----------------------------------------------------------------------------
(* Steps *)

NoCopy == EmptyTable(DefaultLoadFactor)

PairInit == /\ Init /\ other \in {WithCapacity(n) : n \in InitCapacities}
            /\ copying = FALSE /\ copy = NoCopy /\ left = {}

(* swap_content() *)
Swap == /\ pc = "idle" /\ ~ copying
        /\ other' = This
        /\ groupMask' = other.groupMask /\ ctrl' = other.ctrl /\ overflow' = other.overflow
        /\ slot' = other.slot /\ slotSize' = other.slotSize
        /\ slotThreshold' = other.slotThreshold /\ mlf' = other.mlf
        /\ UNCHANGED <<pc, call, probe, at, rehash, ret, copying, copy, left>>

(***************************************************************************)
(* other = this.  A copy that cannot allocate throws and changes nothing.  *)
(* With equal capacities the arrays are copied as they are, and nobody     *)
(* sets the size; otherwise the elements are inserted one by one.          *)
(***************************************************************************)
CopyMask == CapacityFor(slotSize, mlf) \div GroupWidth - 1
IsFast == CapacityFor(slotSize, mlf) = CtrlCapacity

(* Mutant: the overflow bits are not copied *)
ForgetfulCopy == [This EXCEPT !.overflow = NoOverflow(groupMask)]

FastCopy == [This EXCEPT !.slotSize = 0,
                         !.slotThreshold = CalcSlotThreshold(mlf, SlotCapacity)]

CopyAtOnce == /\ pc = "idle" /\ ~ copying
              /\ \/ slotSize = 0 /\ other' = EmptyTable(mlf)
                 \/ slotSize # 0 /\ IsFast /\ CopyMask < MaxGroups /\ other' = FastCopy
              /\ UNCHANGED <<vars, copying, copy, left>>

(* Mutant: the loop moves on before it copies *)
ButTheFirst == {c \in UsedCells : \E d \in UsedCells : ~ Before(c, d)}

(* begin() to end() *)
ToCopy == UsedCells

CopyBegin == /\ pc = "idle" /\ ~ copying
             /\ slotSize # 0 /\ ~ IsFast /\ CopyMask < MaxGroups
             /\ copying' = TRUE
             /\ copy' = NewTable(slotSize, mlf) /\ left' = ToCopy
             /\ UNCHANGED <<vars, other>>

(* the search for an empty slot has no end if there is none *)
NextLeft == CHOOSE c \in left : \A d \in left : Before(c, d)
CopyNext == /\ copying /\ left # {}
            /\ Roomy(copy, slot[NextLeft].key) # {}
            /\ copy' = UniqueInsert(copy, slot[NextLeft])
            /\ left' = left \ {NextLeft}
            /\ UNCHANGED <<vars, other, copying>>

CopyDone == /\ copying /\ left = {}
            /\ other' = copy
            /\ copying' = FALSE /\ copy' = NoCopy
            /\ UNCHANGED <<vars, left>>

(* clear(true) *)
ClearAndDestroy == /\ pc = "manage" /\ call.op = "clear"
                   /\ Destroy
                   /\ UNCHANGED <<mlf, other, copying, copy, left>>

Call == ~ copying /\ Next /\ UNCHANGED <<other, copying, copy, left>>

PairNext == Call \/ Swap \/ CopyAtOnce \/ CopyBegin \/ CopyNext \/ CopyDone \/ ClearAndDestroy

PairSpec == PairInit /\ [][PairNext]_pairVars

-----------------------------------------------------------------------------
(* Properties *)

Other == INSTANCE Group15Table WITH
    groupMask <- other.groupMask, ctrl <- other.ctrl, overflow <- other.overflow,
    slot <- other.slot, slotSize <- other.slotSize, slotThreshold <- other.slotThreshold,
    mlf <- other.mlf, pc <- "idle", call <- NoCall, probe <- NoProbe, at <- NoCell,
    oldSlot <- NoSlots, oldSize <- 0, pending <- {}, ret <- NoResult

Copy == INSTANCE Group15Table WITH
    groupMask <- copy.groupMask, ctrl <- copy.ctrl, overflow <- copy.overflow,
    slot <- copy.slot, slotSize <- copy.slotSize, slotThreshold <- copy.slotThreshold,
    mlf <- copy.mlf, pc <- "idle", call <- NoCall, probe <- NoProbe, at <- NoCell,
    oldSlot <- NoSlots, oldSize <- 0, pending <- {}, ret <- NoResult

(***************************************************************************)
(* Swapping and copying keep both tables searchable, whichever way a copy  *)
(* is made, and so is the copy as long as it is being made: bytes and      *)
(* overflow bits are those of the elements next to them, and no key is     *)
(* there twice.                                                            *)
(***************************************************************************)
BothSearchable ==
    /\ CtrlMirrorsSlots /\ EveryElementReachable /\ UniqueKeys
    /\ Other!CtrlMirrorsSlots /\ Other!EveryElementReachable /\ Other!UniqueKeys
    /\ Copy!CtrlMirrorsSlots /\ Copy!EveryElementReachable /\ Copy!UniqueKeys

(***************************************************************************)
(* A copy of a table whose size is right holds the same elements and has   *)
(* the same load factor.                                                   *)
(***************************************************************************)
CopyHasTheElements ==
    [][(CopyAtOnce \/ CopyDone) /\ slotSize = Cardinality(Live(slot)) =>
          Other!Contents' = Contents /\ other'.mlf = mlf]_pairVars
=============================================================================
