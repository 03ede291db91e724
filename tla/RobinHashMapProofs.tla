------------------------- MODULE RobinHashMapProofs -------------------------
(***************************************************************************)
(* Theorems about one robin_hash_map, for every set of keys and values,    *)
(* every hash, every group width and every size.  As long as no element    *)
(* has strayed, searches come to every element, whatever was called        *)
(* before, and the table is a map: each of its steps is a step of          *)
(* HashMapSpec, or leaves the mapping and the result as they are.          *)
(***************************************************************************)
EXTENDS RobinHashMap, GroupQuadraticProberProofs

-----------------------------------------------------------------------------
(* Capacities *)

(* The new capacity is a power of two that is no less than what was asked for. *)
LEMMA CapacityRange ==
  ASSUME NEW n \in Int
  PROVE  /\ CalcCapacity(n) \in Nat
         /\ CalcCapacity(n) >= n /\ CalcCapacity(n) >= MinCapacity
         /\ IsPow2(CalcCapacity(n))
<1> DEFINE k == AtLeast(n, MinCapacity)
<1>1. k \in Nat /\ k >= 1 /\ k >= n /\ k >= MinCapacity
  BY DEF AtLeast, MinCapacity
<1>2. CalcCapacity(n) = RoundUpPow2(k)
  BY DEF CalcCapacity
<1> HIDE DEF k
<1>3. \E p \in k..(2 * k) : IsPow2(p) /\ p < 2 * k
  BY <1>1, Pow2Between
<1>4. RoundUpPow2(k) \in k..(2 * k) /\ IsPow2(RoundUpPow2(k))
  BY <1>3 DEF RoundUpPow2
<1> QED
  BY <1>1, <1>2, <1>4 DEF MinCapacity

(* A larger capacity has no smaller binary logarithm. *)
LEMMA BsrGrows ==
  ASSUME NEW a \in Nat, NEW b \in Nat, a <= b
  PROVE  Bsr(a) \in Nat /\ Bsr(b) \in Nat /\ Bsr(a) <= Bsr(b)
<1> DEFINE P(n) == {p \in 2..n : IsPow2(p)}
<1>1. IsFiniteSet(P(b))
  <2>1. IsFiniteSet(2..b)
    BY FS_Interval
  <2> QED
    BY <2>1, FS_Subset
<1>2. P(a) \in SUBSET P(b)
  OBVIOUS
<1>3. Bsr(a) = Cardinality(P(a)) /\ Bsr(b) = Cardinality(P(b))
  BY DEF Bsr
<1> HIDE DEF P
<1> QED
  BY <1>1, <1>2, <1>3, FS_Subset, FS_CardinalityType

(* A larger table has no fewer slots behind its capacity. *)
LEMMA LookupsGrow ==
  ASSUME NEW a \in Nat, NEW b \in Nat, a <= b
  PROVE  Lookups(a) \in Nat /\ Lookups(b) \in Nat /\ Lookups(a) <= Lookups(b)
<1>1. Bsr(a) \in Nat /\ Bsr(b) \in Nat /\ Bsr(a) <= Bsr(b)
  BY BsrGrows
<1>2. \A x, y, f \in Nat : x <= y => x * f \in Nat /\ y * f \in Nat /\ x * f <= y * f
  <2> SUFFICES ASSUME NEW x \in Nat, NEW y \in Nat, NEW f \in Nat, x <= y
               PROVE  x * f \in Nat /\ y * f \in Nat /\ x * f <= y * f
    OBVIOUS
  <2>1. y * f = x * f + (y - x) * f /\ (y - x) * f \in Nat /\ x * f \in Nat
    OBVIOUS
  <2> QED
    BY <2>1
<1>3. LookupFactor \in 0..4 /\ MinLookups \in 1..64 /\ MaxDist = 127
  BY LookupAssumption DEF MaxDist
<1>4. \A x, f, m \in Nat : x < 16 /\ f <= 4 /\ m <= 64 => AtLeast(x * f, m) \in Nat /\ AtLeast(x * f, m) <= 64
  <2> SUFFICES ASSUME NEW x \in Nat, NEW f \in Nat, NEW m \in Nat, x < 16, f <= 4, m <= 64
               PROVE  x * f \in Nat /\ x * f <= 64
    BY DEF AtLeast
  <2>1. x * f <= 16 * f
    BY <1>2
  <2> QED
    BY <2>1
<1> DEFINE F(x) == x * LookupFactor
           G(x) == x * 4
<1>5. \A x \in Nat : F(x) \in Nat /\ G(x) \in Nat /\ (x >= 16 => G(x) >= 64)
  BY <1>3
<1>6. F(Bsr(a)) <= F(Bsr(b)) /\ G(Bsr(a)) <= G(Bsr(b))
  BY <1>1, <1>2, <1>3
<1>7. \A c \in {a, b} : /\ Bsr(c) < 16 => /\ Lookups(c) = AtLeast(F(Bsr(c)), MinLookups)
                                          /\ Lookups(c) \in Nat /\ Lookups(c) <= 64
                        /\ ~ (Bsr(c) < 16) => /\ Lookups(c) = AtMost(G(Bsr(c)), 128)
                                              /\ Lookups(c) \in Nat /\ Lookups(c) >= 64
  <2> SUFFICES ASSUME NEW c \in {a, b}
               PROVE  /\ Bsr(c) < 16 => /\ Lookups(c) = AtLeast(F(Bsr(c)), MinLookups)
                                        /\ Lookups(c) \in Nat /\ Lookups(c) <= 64
                      /\ ~ (Bsr(c) < 16) => /\ Lookups(c) = AtMost(G(Bsr(c)), 128)
                                            /\ Lookups(c) \in Nat /\ Lookups(c) >= 64
    OBVIOUS
  <2>1. Bsr(c) \in Nat
    BY <1>1
  <2>2. CASE Bsr(c) < 16
    <3>1. Lookups(c) = AtLeast(F(Bsr(c)), MinLookups)
      BY <2>2 DEF Lookups
    <3>2. AtLeast(F(Bsr(c)), MinLookups) \in Nat /\ AtLeast(F(Bsr(c)), MinLookups) <= 64
      BY <1>3, <1>4, <2>1, <2>2
    <3> QED
      BY <2>2, <3>1, <3>2
  <2>3. CASE ~ (Bsr(c) < 16)
    <3>1. Lookups(c) = AtMost(G(Bsr(c)), 128)
      BY <1>3, <2>3 DEF Lookups
    <3>2. G(Bsr(c)) \in Nat /\ G(Bsr(c)) >= 64
      BY <1>5, <2>1, <2>3
    <3> HIDE DEF G
    <3> QED
      BY <2>3, <3>1, <3>2 DEF AtMost
  <2> QED
    BY <2>2, <2>3
<1> HIDE DEF F, G
<1>8. CASE Bsr(b) < 16
  <2>1. Bsr(a) < 16
    BY <1>1, <1>8
  <2> QED
    BY <1>1, <1>3, <1>5, <1>6, <1>7, <1>8, <2>1 DEF AtLeast
<1>9. CASE ~ (Bsr(b) < 16)
  BY <1>1, <1>5, <1>6, <1>7, <1>9 DEF AtMost
<1> QED
  BY <1>8, <1>9

(* A table without memory has kMinLookups of them. *)
LEMMA NoLookups == Lookups(0) = MinLookups
<1>1. {p \in 2..0 : IsPow2(p)} = {}
  OBVIOUS
<1>2. Bsr(0) = 0
  BY <1>1, FS_EmptySet DEF Bsr
<1> QED
  BY <1>2, LookupAssumption DEF Lookups, AtLeast

(* The control bytes are those of a whole number of groups, one more than the slots need. *)
LEMMA Span ==
  ASSUME NEW capacity \in Nat, NEW lookups \in Nat
  PROVE  \E n \in Nat : CtrlIndexes(capacity, lookups) = 0..n /\ capacity + lookups <= n
<1> DEFINE g == GroupWidth
           x == capacity + lookups + g - 1
           q == x \div g
<1>1. g \in Nat \ {0}
  BY LookupAssumption DEF MinCapacity
<1>2. x \in Nat
  BY <1>1
<1>3. q = GroupCount(capacity, lookups)
  BY DEF GroupCount
<1> HIDE DEF g, x
<1>4. x % g \in 0..(g - 1) /\ q \in Nat /\ x = (g * q) + (x % g)
  BY <1>1, <1>2, DivMod
<1> HIDE DEF q
<1>5. (q + 1) * g = (g * q) + g /\ g * q \in Nat
  BY <1>1, <1>4
<1>6. CtrlIndexes(capacity, lookups) = 0..((q + 1) * g - 1)
  BY <1>3 DEF CtrlIndexes, g
<1>7. (q + 1) * g - 1 \in Nat /\ capacity + lookups <= (q + 1) * g - 1
  <2>1. x = capacity + lookups + g - 1
    BY DEF x
  <2> QED
    BY <1>1, <1>2, <1>4, <1>5, <2>1
<1> QED
  BY <1>6, <1>7

(* The home of a key is a slot of the table. *)
LEMMA HomeRange ==
  ASSUME NEW k \in Key, NEW mask \in Nat
  PROVE  Home(k, mask) \in 0..mask
<1> DEFINE h == Hash[k]
           d == mask + 1
<1>1. h \in Nat /\ d \in Nat \ {0} /\ d - 1 = mask
  BY HashAssumption
<1>2. Home(k, mask) = h % d
  BY DEF Home
<1> HIDE DEF h, d
<1>3. h % d \in 0..(d - 1)
  BY <1>1, DivMod
<1> QED
  BY <1>1, <1>2, <1>3

(* Thresholds and required capacities are numbers. *)
LEMMA ShareRange ==
  ASSUME NEW m \in LoadFactors
  PROVE  /\ \A n \in Nat : CalcSlotThreshold(m, n) \in Nat
         /\ \A n \in Int : MinRequireCapacity(n, m) \in Int
<1>1. m \in Nat \ {0}
  BY LoadFactorAssumption
<1>2. LoadFactorRev(m) \in Nat
  <2> DEFINE a == LoadFactorAmplify * LoadFactorAmplify + m - 1
  <2>1. a \in Nat
    BY <1>1 DEF LoadFactorAmplify
  <2> HIDE DEF a
  <2>2. a \div m \in Nat
    BY <1>1, <2>1, DivMod
  <2> QED
    BY <2>2 DEF LoadFactorRev, a
<1>3. \A x, y \in Nat : (x * y) \div LoadFactorAmplify \in Nat
  <2> SUFFICES ASSUME NEW x \in Nat, NEW y \in Nat PROVE (x * y) \div LoadFactorAmplify \in Nat
    OBVIOUS
  <2>1. x * y \in Nat
    OBVIOUS
  <2> QED
    BY <2>1, DivMod DEF LoadFactorAmplify
<1>4. \A x \in Int, y \in Nat : (x * y) \div LoadFactorAmplify \in Int
  <2> SUFFICES ASSUME NEW x \in Int, NEW y \in Nat PROVE (x * y) \div LoadFactorAmplify \in Int
    OBVIOUS
  <2>1. x * y \in Int
    OBVIOUS
  <2> QED
    BY <2>1 DEF LoadFactorAmplify
<1> HIDE DEF LoadFactorRev
<1> QED
  BY <1>1, <1>2, <1>3, <1>4 DEF CalcSlotThreshold, MinRequireCapacity

(* The first of the pending indexes is one of them. *)
LEMMA NextPendingIn ==
  ASSUME pending \subseteq Nat, pending # {}
  PROVE  NextPending \in pending
<1>1. \E x \in pending : \A y \in pending : x <= y
  BY LeastElement
<1> QED
  BY <1>1 DEF NextPending, Sets!Min

-----------------------------------------------------------------------------
(* Types *)

CtrlWord == [dist : Int, hash : Nat]

TableOK ==
    /\ slotMask \in Nat /\ IsPow2(slotMask + 1) /\ lastSlot \in Nat
    /\ slotSize \in Int /\ slotThreshold \in Nat /\ maxLookups \in Nat /\ mlf \in LoadFactors
    /\ ctrl \in [DOMAIN slot -> CtrlWord]
    /\ slot \in [DOMAIN slot -> Element \cup {Raw}]

ControlOK ==
    /\ pc \in {"idle", "manage", "walk", "shift", "room", "place", "displace", "retry", "rehash", "done"}
    /\ probe \in [key : Key \cup {Absent}, index : Nat, dist : Nat]
    /\ hand \in [at : Nat, ctrl : CtrlWord]
    /\ strayed \in BOOLEAN /\ resume \in {"place", "walk", "done"}

(* The memory is an interval, and slots that an insertion may use are in it. *)
SpanInv == \E n \in Nat : DOMAIN slot = 0..n /\ lastSlot <= n

(* An allocation that fails leaves max_lookups_ larger than the table needs, never smaller. *)
CapacityInv ==
    /\ SlotCapacity <= MaxCapacity
    /\ lastSlot <= SlotCapacity + Lookups(SlotCapacity)
    /\ Lookups(SlotCapacity) <= maxLookups

(* A byte without a distance is one of the two marks, and end marks are behind the last slot. *)
BytesInv == \A i \in DOMAIN slot :
    ctrl[i].dist < 0 => ctrl[i] = Empty \/ (ctrl[i] = EndOf /\ i >= lastSlot)

OccupiedInv == \A i \in DOMAIN slot \ Vacant : IsUsed(ctrl[i]) => slot[i] # Raw

(* The hand holds an element, or else it took an end mark and the insertion is about to give up. *)
HandInv ==
    /\ pc = "shift" => probe.index \in DOMAIN slot
    /\ pc = "displace" =>
         /\ hand.at < probe.index
         /\ hand.ctrl.dist >= 0 => hand.at \in Live(slot)
         /\ hand.ctrl.dist < 0 => hand.ctrl = Empty /\ probe.index >= lastSlot

(***************************************************************************)
(* What the place a call has reached says of its arguments: without it the *)
(* key a step walks for, or the element it constructs, could be any.       *)
(***************************************************************************)
CallInv ==
    /\ call.arg.n \in Nat
    /\ call.op = "max_load_factor" => call.arg.n \in LoadFactors
    /\ call.op \in KeyOps => call.key \in Key
    /\ call.op \in Insertions => call.val \in Value
    /\ pc \in {"walk", "shift"} => call.op \in KeyOps /\ probe.key = call.key
    /\ pc \in {"room", "retry"} => call.op \in Insertions /\ probe.key = call.key
    /\ pc \in {"place", "displace"} =>
         IF Moving THEN probe.key = old.slot[NextPending].key
                   ELSE call.op \in Insertions /\ probe.key = call.key
    /\ pc \in {"rehash", "place", "displace"} /\ resume # "done" => call.op \in Insertions

(* There is an old table only during a rehash, and what is pending are elements of it. *)
RehashInv ==
    /\ old = [ctrl |-> old.ctrl, slot |-> old.slot, capacity |-> old.capacity]
    /\ DOMAIN old.slot \subseteq Nat
    /\ old.slot \in [DOMAIN old.slot -> Element \cup {Raw}]
    /\ old.ctrl \in [DOMAIN old.slot -> CtrlWord]
    /\ old.capacity \in Nat /\ old.capacity <= MaxCapacity
    /\ pending \subseteq Live(old.slot)
    /\ pending # {} => pc \in {"rehash", "place", "displace"}
    /\ pending = {} /\ pc # "rehash" => old = NoOld

FormInv == TableOK /\ SpanInv /\ CapacityInv /\ BytesInv /\ OccupiedInv
StepInv == ControlOK /\ HandInv /\ CallInv /\ RehashInv
TypeInv == FormInv /\ StepInv

(* The parts are the type invariant. *)
LEMMA TypeParts == TypeInv => TypeOK
<1> SUFFICES ASSUME TypeInv PROVE TypeOK
  OBVIOUS
<1> USE DEF TypeInv, FormInv, StepInv
<1>1. DOMAIN slot \subseteq Nat
  BY DEF SpanInv
<1>2. pending \subseteq DOMAIN old.slot
  BY DEF RehashInv, Live
<1> QED
  BY <1>1, <1>2 DEF TypeOK, TableOK, ControlOK, RehashInv, CtrlWord

(* A word of control and its successor. *)
LEMMA Words ==
  /\ Empty \in CtrlWord /\ EndOf \in CtrlWord /\ Empty # EndOf
  /\ Empty.dist = -1 /\ EndOf.dist = -2 /\ Empty.hash = 0 /\ EndOf.hash = 0
  /\ ~ IsUsed(Empty) /\ ~ IsUsed(EndOf)
  /\ IncDist(EndOf) = Empty
  /\ \A c \in CtrlWord : /\ IncDist(c) \in CtrlWord /\ DecDist(c) \in CtrlWord
                         /\ IncDist(c).dist = c.dist + 1 /\ DecDist(c).dist = c.dist - 1
                         /\ IncDist(c).hash = c.hash /\ DecDist(c).hash = c.hash
                         /\ c = Ctrl(c.dist, c.hash)
<1>1. Empty.dist = -1 /\ EndOf.dist = -2 /\ Empty.hash = 0 /\ EndOf.hash = 0
  BY DEF Empty, EndOf, Ctrl
<1>2. Empty # EndOf
  BY <1>1
<1>3. Empty \in CtrlWord /\ EndOf \in CtrlWord /\ IncDist(EndOf) = Empty
  BY DEF Empty, EndOf, Ctrl, CtrlWord, IncDist
<1>4. ~ IsUsed(Empty) /\ ~ IsUsed(EndOf)
  BY <1>1 DEF IsUsed
<1>5. \A c \in CtrlWord : /\ IncDist(c) \in CtrlWord /\ DecDist(c) \in CtrlWord
                          /\ IncDist(c).dist = c.dist + 1 /\ DecDist(c).dist = c.dist - 1
                          /\ IncDist(c).hash = c.hash /\ DecDist(c).hash = c.hash
                          /\ c = Ctrl(c.dist, c.hash)
  BY DEF CtrlWord, Ctrl, IncDist, DecDist
<1> QED
  BY <1>1, <1>2, <1>3, <1>4, <1>5

(* A new table holds nothing, and its end marks are behind the slots. *)
LEMMA FreshTable ==
  ASSUME NEW capacity \in Nat, NEW lookups \in Nat
  PROVE  /\ \E n \in Nat : /\ DOMAIN AllRaw(capacity, lookups) = 0..n
                           /\ DOMAIN FreshCtrl(capacity, lookups) = 0..n
                           /\ capacity + lookups <= n
         /\ FreshCtrl(capacity, lookups) \in [DOMAIN AllRaw(capacity, lookups) -> CtrlWord]
         /\ AllRaw(capacity, lookups) \in [DOMAIN AllRaw(capacity, lookups) -> Element \cup {Raw}]
         /\ Live(AllRaw(capacity, lookups)) = {}
         /\ \A i \in DOMAIN AllRaw(capacity, lookups) :
              \/ FreshCtrl(capacity, lookups)[i] = Empty
              \/ FreshCtrl(capacity, lookups)[i] = EndOf /\ i >= capacity + lookups
<1>1. PICK n \in Nat : CtrlIndexes(capacity, lookups) = 0..n /\ capacity + lookups <= n
  BY Span
<1>2. /\ DOMAIN AllRaw(capacity, lookups) = 0..n
      /\ DOMAIN FreshCtrl(capacity, lookups) = 0..n
  BY <1>1 DEF AllRaw, FreshCtrl
<1>3. \A i \in 0..n : \/ FreshCtrl(capacity, lookups)[i] = Empty
                      \/ FreshCtrl(capacity, lookups)[i] = EndOf /\ i >= capacity + lookups
  BY <1>1 DEF FreshCtrl
<1>4. FreshCtrl(capacity, lookups) \in [0..n -> CtrlWord]
  BY <1>1, Words DEF FreshCtrl
<1>5. AllRaw(capacity, lookups) \in [0..n -> Element \cup {Raw}] /\ Live(AllRaw(capacity, lookups)) = {}
  BY <1>1 DEF AllRaw, Live
<1> QED
  BY <1>1, <1>2, <1>3, <1>4, <1>5

(* A table that was just made has the form of one. *)
LEMMA FreshForm ==
  ASSUME NEW capacity \in Nat, NEW lookups \in Nat, NEW last \in Nat, last <= capacity + lookups
  PROVE  /\ \E n \in Nat : DOMAIN AllRaw(capacity, lookups) = 0..n /\ last <= n
         /\ \A i \in DOMAIN AllRaw(capacity, lookups) :
              /\ ~ IsUsed(FreshCtrl(capacity, lookups)[i])
              /\ \/ FreshCtrl(capacity, lookups)[i] = Empty
                 \/ FreshCtrl(capacity, lookups)[i] = EndOf /\ i >= last
<1>1. PICK n \in Nat : DOMAIN AllRaw(capacity, lookups) = 0..n /\ capacity + lookups <= n
  BY FreshTable
<1>2. \A i \in 0..n : \/ FreshCtrl(capacity, lookups)[i] = Empty
                      \/ FreshCtrl(capacity, lookups)[i] = EndOf /\ i >= capacity + lookups
  BY <1>1, FreshTable
<1>3. \A i \in 0..n : i >= capacity + lookups => i >= last
  OBVIOUS
<1> QED
  BY <1>1, <1>2, <1>3, Words

(* The first state has the types. *)
LEMMA InitType == Init => TypeInv
<1> SUFFICES ASSUME Init PROVE TypeInv
  OBVIOUS
<1>1. PICK n \in InitCapacities :
        LET capacity == IF n = 0 THEN 0 ELSE CalcCapacity(n)
            lookups == IF n = 0 THEN MinLookups ELSE Lookups(capacity)
        IN /\ slotMask = (IF n = 0 THEN 0 ELSE capacity - 1)
           /\ ctrl = FreshCtrl(capacity, lookups) /\ slot = AllRaw(capacity, lookups)
           /\ lastSlot = (IF n = 0 THEN 0 ELSE capacity + lookups)
           /\ slotThreshold = CalcSlotThreshold(DefaultLoadFactor, capacity)
           /\ maxLookups = lookups
           /\ slotSize = 0 /\ mlf = DefaultLoadFactor
           /\ pc = "idle" /\ call = NoCall /\ probe = NoProbe /\ hand = NoHand /\ strayed = FALSE
           /\ old = NoOld /\ pending = {} /\ resume = "done"
  BY DEF Init
<1> DEFINE capacity == IF n = 0 THEN 0 ELSE CalcCapacity(n)
           lookups == Lookups(capacity)
<1>2. n \in Nat /\ CalcCapacity(n) <= MaxCapacity /\ MaxCapacity \in Nat
  BY ArgsAssumption, CapacityAssumption
<1>3. capacity \in Nat /\ capacity <= MaxCapacity
  BY <1>2, CapacityRange
<1>4. lookups \in Nat /\ (n = 0 => lookups = MinLookups)
  BY <1>3, LookupsGrow, NoLookups
<1>5. slotMask \in Nat /\ IsPow2(slotMask + 1) /\ SlotCapacity = capacity
  <2>1. IsPow2(0 + 1)
    BY DEF IsPow2
  <2>2. CASE n = 0
    BY <1>1, <2>1, <2>2 DEF SlotCapacity
  <2>3. CASE n # 0
    <3> DEFINE c == CalcCapacity(n)
    <3>1. c \in Nat /\ c >= MinCapacity /\ IsPow2(c)
      BY <1>2, CapacityRange
    <3>2. slotMask = c - 1
      BY <1>1, <2>3
    <3> HIDE DEF c
    <3>3. slotMask \in Nat /\ slotMask + 1 = c /\ slotMask # 0
      BY <3>1, <3>2 DEF MinCapacity
    <3> QED
      BY <2>3, <3>1, <3>3 DEF SlotCapacity, c
  <2> QED
    BY <2>2, <2>3
<1>6. /\ ctrl = FreshCtrl(capacity, lookups) /\ slot = AllRaw(capacity, lookups)
      /\ lastSlot \in Nat /\ lastSlot <= capacity + lookups
      /\ slotThreshold \in Nat /\ maxLookups = lookups
  <2>1. CASE n = 0
    BY <1>1, <1>3, <1>4, <2>1, ShareRange, LoadFactorAssumption
  <2>2. CASE n # 0
    <3> HIDE DEF capacity
    <3>1. lastSlot = capacity + lookups /\ maxLookups = lookups
      BY <1>1, <2>2 DEF capacity
    <3>2. slotThreshold = CalcSlotThreshold(DefaultLoadFactor, capacity)
      BY <1>1 DEF capacity
    <3>3. ctrl = FreshCtrl(capacity, lookups) /\ slot = AllRaw(capacity, lookups)
      BY <1>1, <2>2 DEF capacity
    <3> QED
      BY <1>3, <1>4, <3>1, <3>2, <3>3, ShareRange, LoadFactorAssumption
  <2> QED
    BY <2>1, <2>2
<1> HIDE DEF capacity, lookups
<1>7. TableOK
  <2>1. ctrl \in [DOMAIN slot -> CtrlWord] /\ slot \in [DOMAIN slot -> Element \cup {Raw}]
    BY <1>3, <1>4, <1>6, FreshTable
  <2>2. mlf \in LoadFactors /\ slotSize \in Int
    BY <1>1, LoadFactorAssumption
  <2> QED
    BY <1>4, <1>5, <1>6, <2>1, <2>2 DEF TableOK
<1>8. SpanInv /\ BytesInv /\ OccupiedInv
  BY <1>3, <1>4, <1>6, FreshForm DEF SpanInv, BytesInv, OccupiedInv
<1>9. CapacityInv
  <2>1. lookups = Lookups(SlotCapacity)
    BY <1>5 DEF lookups
  <2> QED
    BY <1>3, <1>4, <1>5, <1>6, <2>1 DEF CapacityInv
<1>10. ControlOK
  <2>1. NoHand \in [at : Nat, ctrl : CtrlWord] /\ NoProbe \in [key : Key \cup {Absent}, index : Nat, dist : Nat]
    BY Words DEF NoHand, NoProbe
  <2> QED
    BY <1>1, <2>1 DEF ControlOK
<1>11. HandInv /\ CallInv
  <2>1. call.arg.n = 0 /\ call.op = "none"
    BY <1>1 DEF NoCall, NoArg
  <2> QED
    BY <1>1, <2>1 DEF CallInv, KeyOps, Insertions, HandInv
<1>12. RehashInv
  BY <1>1, CapacityAssumption DEF RehashInv, NoOld, Live
<1> QED
  BY <1>7, <1>8, <1>9, <1>10, <1>11, <1>12 DEF TypeInv, FormInv, StepInv

(* A step that leaves the table alone, and vacates no slot less, keeps its form. *)
LEMMA FormStays ==
  ASSUME FormInv, UNCHANGED table, mlf' \in LoadFactors, Vacant \subseteq Vacant'
  PROVE  FormInv'
<1>1. /\ slotMask' = slotMask /\ ctrl' = ctrl /\ slot' = slot /\ lastSlot' = lastSlot
      /\ slotSize' = slotSize /\ slotThreshold' = slotThreshold /\ maxLookups' = maxLookups
  BY DEF table
<1>2. TableOK' /\ SpanInv' /\ BytesInv'
  BY <1>1 DEF FormInv, TableOK, SpanInv, BytesInv
<1>3. CapacityInv'
  BY <1>1 DEF FormInv, CapacityInv, SlotCapacity
<1>4. OccupiedInv'
  BY <1>1 DEF FormInv, OccupiedInv
<1> QED
  BY <1>2, <1>3, <1>4 DEF FormInv

(* The same for what a rehash works on. *)
LEMMA RehashStays ==
  ASSUME RehashInv, UNCHANGED <<old, pending>>,
         pending # {} => pc' \in {"rehash", "place", "displace"},
         pending = {} /\ pc' # "rehash" => old = NoOld
  PROVE  RehashInv' /\ Moving' = Moving /\ NextPending' = NextPending
BY DEF RehashInv, Moving, NextPending, Live, NoOld

(* Beginning a call. *)
LEMMA BeginType ==
  ASSUME TypeInv, NEW op, NEW k \in Key \cup {Absent}, NEW v, NEW n \in Nat, NEW flag,
         Begin(op, k, v, n, flag),
         op \in KeyOps => k \in Key, op \in Insertions => v \in Value,
         op = "max_load_factor" => n \in LoadFactors
  PROVE  TypeInv'
<1> USE DEF TypeInv, StepInv
<1>1. /\ pc = "idle" /\ UNCHANGED <<table, mlf, hand, strayed, rehash>>
      /\ call' = [op |-> op, key |-> k, val |-> v, arg |-> [n |-> n, flag |-> flag]]
      /\ \/ op \in KeyOps /\ pc' = "walk" /\ probe' = StartProbe(k, slotMask)
         \/ op \notin KeyOps /\ pc' = "manage" /\ probe' = probe
  BY DEF Begin
<1>2. FormInv'
  BY <1>1, FormStays DEF FormInv, TableOK, Vacant
<1>3. RehashInv'
  BY <1>1, RehashStays DEF RehashInv, rehash
<1>4. ControlOK'
  <2>1. op \in KeyOps => /\ StartProbe(k, slotMask) \in [key : Key \cup {Absent}, index : Nat, dist : Nat]
    BY HomeRange DEF StartProbe, FormInv, TableOK
  <2> QED
    BY <1>1, <2>1 DEF ControlOK, rehash
<1>5. HandInv'
  BY <1>1 DEF HandInv
<1>6. CallInv'
  BY <1>1 DEF CallInv, StartProbe
<1> QED
  BY <1>2, <1>3, <1>4, <1>5, <1>6

(* Every call begins with arguments of its types. *)
LEMMA BeginsType == TypeInv /\ (BeginKeyOp \/ BeginManagement) => TypeInv'
<1> SUFFICES ASSUME TypeInv, BeginKeyOp \/ BeginManagement PROVE TypeInv'
  OBVIOUS
<1> USE DEF KeyOps, Insertions
<1>1. CASE BeginKeyOp
  <2>1. PICK k \in Key : \/ \E op \in {"find", "erase"} : Begin(op, k, Absent, 0, FALSE)
                         \/ \E op \in Insertions, v \in Value : Begin(op, k, v, 0, FALSE)
    BY <1>1 DEF BeginKeyOp
  <2>2. CASE \E op \in {"find", "erase"} : Begin(op, k, Absent, 0, FALSE)
    BY <2>2, BeginType
  <2>3. CASE \E op \in Insertions, v \in Value : Begin(op, k, v, 0, FALSE)
    BY <2>3, BeginType
  <2> QED
    BY <2>1, <2>2, <2>3
<1>2. CASE BeginManagement
  <2>1. \A n \in RehashArgs : n \in Nat
    BY ArgsAssumption
  <2>2. \A m \in LoadFactors : m \in Nat
    BY LoadFactorAssumption
  <2>3. CASE \E destroy \in BOOLEAN : Begin("clear", Absent, Absent, 0, destroy)
    BY <2>3, BeginType
  <2>4. CASE \E n \in RehashArgs, readOnly \in ReadOnlyArgs : Begin("rehash", Absent, Absent, n, readOnly)
    BY <2>1, <2>4, BeginType
  <2>5. CASE \E readOnly \in ReadOnlyArgs : Begin("shrink_to_fit", Absent, Absent, 0, readOnly)
    BY <2>5, BeginType
  <2>6. CASE \E m \in LoadFactors : Begin("max_load_factor", Absent, Absent, m, FALSE)
    BY <2>2, <2>6, BeginType
  <2> QED
    BY <1>2, <2>3, <2>4, <2>5, <2>6 DEF BeginManagement
<1> QED
  BY <1>1, <1>2

(* The next step of a walk has a probe of the same key, one slot further. *)
LEMMA FurtherType ==
  ASSUME ControlOK
  PROVE  /\ Further \in [key : Key \cup {Absent}, index : Nat, dist : Nat]
         /\ Further.key = probe.key
         /\ Further.index = probe.index + 1 /\ Further.dist = probe.dist + 1
BY DEF ControlOK, Further

(* An element in the chain is in the table. *)
LEMMA InChainUsed ==
  ASSUME TypeInv, InChain(probe.dist, CtrlAt(probe.index))
  PROVE  /\ probe.index \in DOMAIN slot /\ DOMAIN slot = DOMAIN ctrl
         /\ CtrlAt(probe.index) = ctrl[probe.index] /\ IsUsed(ctrl[probe.index])
<1> USE DEF TypeInv, FormInv, StepInv
<1>1. DOMAIN slot = DOMAIN ctrl /\ \A i \in DOMAIN slot : ctrl[i] \in CtrlWord
  BY DEF TableOK
<1>2. probe.dist \in Nat
  BY DEF ControlOK
<1>3. CtrlAt(probe.index).dist >= 0
  <2>1. CtrlAt(probe.index).dist \in Int
    BY <1>1, Words DEF CtrlAt, CtrlWord
  <2> QED
    BY <1>2, <2>1 DEF InChain
<1>4. probe.index \in DOMAIN ctrl
  BY <1>3, Words DEF CtrlAt
<1> QED
  BY <1>1, <1>3, <1>4 DEF CtrlAt, IsUsed

(* The steps that only look at the table. *)
LEMMA LookingType ==
  ASSUME TypeInv, \/ WalkNext \/ NotFound \/ ReturnFound \/ KeepExisting
                  \/ HaveRoom \/ PlaceNext \/ MoveNext \/ Return
  PROVE  TypeInv'
<1> USE DEF TypeInv, StepInv
<1>1. UNCHANGED <<table, mlf, hand, strayed, rehash>>
  BY DEF WalkNext, NotFound, ReturnFound, KeepExisting, HaveRoom, PlaceNext, MoveNext, Return
<1>2. /\ old' = old /\ pending' = pending /\ resume' = resume
      /\ hand' = hand /\ strayed' = strayed
  BY <1>1 DEF rehash
<1>3. \/ pc = "walk" /\ pc' \in {"walk", "room", "done"}
      \/ pc = "room" /\ pc' = "place"
      \/ pc = "place" /\ pc' = "place"
      \/ pc = "rehash" /\ pc' = "place" /\ pending # {}
      \/ pc = "done" /\ pc' = "idle"
  <2>1. CASE NotFound
    <3>1. pc = "walk" /\ call.op \in Insertions \cup {"find", "erase"}
      BY <2>1 DEF NotFound, CallInv, KeyOps
    <3> QED
      BY <2>1, <3>1 DEF NotFound, Done
  <2>2. CASE ~ NotFound
    BY <2>2 DEF WalkNext, ReturnFound, KeepExisting, HaveRoom, PlaceNext, MoveNext, Return,
                Looking, Done, Moving
  <2> QED
    BY <2>1, <2>2
<1>4. FormInv'
  BY <1>1, <1>3, FormStays DEF FormInv, TableOK, Vacant
<1>5. RehashInv' /\ Moving' = Moving /\ NextPending' = NextPending
  BY <1>2, <1>3, RehashStays DEF RehashInv
<1>6. HandInv'
  BY <1>3 DEF HandInv
<1>7. CASE WalkNext \/ NotFound \/ ReturnFound \/ KeepExisting \/ HaveRoom \/ PlaceNext
  <2>1. probe' \in {probe, Further} /\ call' = call
    BY <1>7 DEF WalkNext, NotFound, ReturnFound, KeepExisting, HaveRoom, PlaceNext
  <2>2. pc \in {"walk", "room", "place"}
    BY <1>7 DEF WalkNext, NotFound, ReturnFound, KeepExisting, HaveRoom, PlaceNext, Looking
  <2>3. ControlOK'
    BY <1>2, <1>3, <2>1, FurtherType DEF ControlOK
  <2>4. pc' = "room" => call.op \in Insertions
    BY <1>7, <2>2 DEF WalkNext, NotFound, ReturnFound, KeepExisting, HaveRoom, PlaceNext, Looking, CallInv,
       KeyOps, Done
  <2>5. probe'.key = probe.key
    BY <2>1, FurtherType
  <2>6. pc = "room" => ~ Moving
    BY DEF RehashInv, Moving
  <2>7. pc' = "place" => pc \in {"room", "place"}
    BY <1>3, <2>2
  <2>8. pc' # "rehash" /\ pc' \notin {"shift", "retry", "displace"}
    BY <1>3, <2>2
  <2>9. pc = "room" /\ resume # "done" => call.op \in Insertions
    BY DEF CallInv
  <2>10. pc' = "walk" => pc = "walk"
    BY <1>3, <2>2
  <2>11. pc' = "room" => pc = "walk"
    BY <1>3, <2>2
  <2>12. CallInv'
    BY <1>2, <1>5, <2>1, <2>4, <2>5, <2>6, <2>7, <2>8, <2>9, <2>10, <2>11 DEF CallInv
  <2> QED
    BY <1>4, <1>5, <1>6, <2>3, <2>12
<1>8. CASE MoveNext
  <2>1. NextPending \in Live(old.slot)
    BY <1>8, NextPendingIn DEF MoveNext, Moving, RehashInv, Live
  <2>2. old.slot[NextPending] \in Element
    BY <2>1 DEF RehashInv, Live
  <2>3. old.slot[NextPending].key \in Key
    BY <2>2 DEF Element
  <2>4. probe' = StartProbe(old.slot[NextPending].key, slotMask) /\ pc' = "place" /\ call' = call
        /\ pc = "rehash" /\ Moving
    BY <1>8 DEF MoveNext
  <2>5. ControlOK'
    BY <1>2, <2>3, <2>4, HomeRange DEF ControlOK, StartProbe, FormInv, TableOK
  <2>6. CallInv'
    BY <1>2, <1>5, <2>4 DEF CallInv, StartProbe
  <2> QED
    BY <1>4, <1>5, <1>6, <2>5, <2>6
<1>9. CASE Return
  <2>1. pc' = "idle" /\ probe' = NoProbe /\ call' = NoCall
    BY <1>9 DEF Return
  <2>2. ControlOK'
    BY <1>2, <2>1 DEF ControlOK, NoProbe
  <2>3. CallInv'
    BY <2>1 DEF CallInv, NoCall, NoArg, KeyOps, Insertions
  <2> QED
    BY <1>4, <1>5, <1>6, <2>2, <2>3
<1> QED
  BY <1>7, <1>8, <1>9

(* The end of a rehash. *)
LEMMA RehashDoneType ==
  ASSUME TypeInv, RehashDone
  PROVE  TypeInv'
<1> USE DEF TypeInv, StepInv
<1>1. /\ pc = "rehash" /\ pending = {} /\ old' = NoOld /\ resume' = "done" /\ pending' = {}
      /\ UNCHANGED <<table, mlf, call, hand, strayed>>
      /\ \/ resume = "done" /\ pc' = "done" /\ probe' = probe
         \/ resume # "done" /\ pc' = resume /\ probe' = StartProbe(call.key, slotMask)
  BY DEF RehashDone, Done, Moving
<1>2. resume # "done" => call.op \in Insertions /\ call.key \in Key
  BY <1>1 DEF CallInv, KeyOps
<1>3. FormInv'
  <2>1. pc' \in {"done", "place", "walk"}
    BY <1>1 DEF ControlOK
  <2> QED
    BY <1>1, <2>1, FormStays DEF FormInv, TableOK, Vacant
<1>4. ControlOK' /\ pc' \in {"done", "place", "walk"}
  BY <1>1, <1>2, HomeRange DEF ControlOK, StartProbe, FormInv, TableOK
<1>5. RehashInv'
  BY <1>1, <1>4, CapacityAssumption DEF RehashInv, NoOld, Live
<1>6. HandInv'
  BY <1>4 DEF HandInv
<1>7. ~ Moving'
  BY <1>1 DEF Moving
<1>8. CallInv'
  BY <1>1, <1>2, <1>4, <1>7 DEF CallInv, StartProbe, KeyOps
<1> QED
  BY <1>3, <1>4, <1>5, <1>6, <1>8

(***************************************************************************)
(* A new table is made and the loop over the old one begins, or the        *)
(* allocation throws.                                                      *)
(***************************************************************************)
LEMMA ResizeType ==
  ASSUME TypeInv, NEW capacity \in Nat, capacity >= MinCapacity, IsPow2(capacity),
         NEW m \in LoadFactors, mlf' \in LoadFactors, NEW after \in {"done", "walk", "place"},
         after # "done" => call.op \in Insertions,
         pc \in {"manage", "room", "retry"}, Resize(capacity, m, after)
  PROVE  TypeInv'
<1> USE DEF TypeInv, StepInv
<1>1. pending = {} /\ old = NoOld /\ Vacant = {} /\ MaxCapacity \in Nat
  BY CapacityAssumption DEF RehashInv, Vacant
<1>2. UNCHANGED <<call, probe, hand>>
  BY DEF Resize
<1>3. CASE capacity <= MaxCapacity /\ CreateSlots(capacity, m, after)
  <2> DEFINE lookups == Lookups(capacity)
             used == {i \in OldIndexes \cap DOMAIN ctrl : slotMask # 0 /\ IsUsed(ctrl[i])}
  <2>1. /\ slotMask' = capacity - 1 /\ lastSlot' = capacity + lookups
        /\ ctrl' = FreshCtrl(capacity, lookups) /\ slot' = AllRaw(capacity, lookups)
        /\ slotSize' = 0 /\ slotThreshold' = CalcSlotThreshold(m, capacity) /\ maxLookups' = lookups
        /\ old' = [ctrl |-> ctrl, slot |-> slot, capacity |-> SlotCapacity]
        /\ pending' = used /\ resume' = after /\ pc' = "rehash" /\ strayed' = strayed
    BY <1>3 DEF CreateSlots
  <2>2. lookups \in Nat
    BY LookupsGrow
  <2>3. SlotCapacity' = capacity
    BY <2>1 DEF SlotCapacity, MinCapacity
  <2>4. Lookups(SlotCapacity)' = lookups
    BY <2>3
  <2> HIDE DEF lookups, used
  <2>5. SpanInv' /\ BytesInv' /\ OccupiedInv'
    <3> DEFINE last == capacity + lookups
    <3>1. last \in Nat /\ last <= capacity + lookups /\ lastSlot' = last
      BY <2>1, <2>2
    <3> HIDE DEF last
    <3>2. slot' = AllRaw(capacity, lookups) /\ ctrl' = FreshCtrl(capacity, lookups)
      BY <2>1
    <3>3. \E n \in Nat : DOMAIN slot' = 0..n /\ lastSlot' <= n
      BY <2>2, <3>1, <3>2, FreshForm
    <3>4. \A i \in DOMAIN slot' : /\ ~ IsUsed(ctrl'[i])
                                  /\ ctrl'[i] = Empty \/ (ctrl'[i] = EndOf /\ i >= lastSlot')
      BY <2>2, <3>1, <3>2, FreshForm
    <3> QED
      BY <3>3, <3>4 DEF SpanInv, BytesInv, OccupiedInv
  <2>6. CapacityInv'
    BY <1>3, <2>1, <2>2, <2>3, <2>4 DEF CapacityInv
  <2>7. TableOK'
    <3>1. ctrl' \in [DOMAIN slot' -> CtrlWord] /\ slot' \in [DOMAIN slot' -> Element \cup {Raw}]
      BY <2>1, <2>2, FreshTable
    <3>2. slotMask' \in Nat /\ slotMask' + 1 = capacity
      BY <2>1 DEF MinCapacity
    <3>3. slotThreshold' \in Nat
      BY <2>1, ShareRange
    <3> QED
      BY <2>1, <2>2, <3>1, <3>2, <3>3 DEF TableOK
  <2>8. ControlOK' /\ HandInv' /\ CallInv'
    BY <1>2, <2>1 DEF ControlOK, HandInv, CallInv
  <2>9. RehashInv'
    <3>1. /\ DOMAIN slot \subseteq Nat /\ slot \in [DOMAIN slot -> Element \cup {Raw}]
          /\ ctrl \in [DOMAIN slot -> CtrlWord] /\ DOMAIN ctrl = DOMAIN slot
      BY DEF FormInv, SpanInv, TableOK
    <3>2. SlotCapacity \in Nat /\ SlotCapacity <= MaxCapacity
      BY DEF FormInv, CapacityInv, SlotCapacity, TableOK
    <3>3. used \subseteq Live(slot)
      BY <1>1, <3>1 DEF used, FormInv, OccupiedInv, Live
    <3>4. /\ old'.ctrl = ctrl /\ old'.slot = slot /\ old'.capacity = SlotCapacity
          /\ old' = [ctrl |-> old'.ctrl, slot |-> old'.slot, capacity |-> old'.capacity]
      BY <2>1
    <3> QED
      BY <2>1, <3>1, <3>2, <3>3, <3>4 DEF RehashInv
  <2> QED
    BY <2>5, <2>6, <2>7, <2>8, <2>9 DEF FormInv
<1>4. CASE capacity > MaxCapacity /\ AllocationThrows(capacity)
  <2>1. /\ maxLookups' = Lookups(capacity) /\ pc' = "done" /\ strayed' \in BOOLEAN
        /\ UNCHANGED <<slotMask, ctrl, slot, lastSlot, slotSize, slotThreshold, rehash>>
    BY <1>4 DEF AllocationThrows, Done, ControlOK
  <2>2. SlotCapacity \in Nat /\ SlotCapacity <= capacity /\ SlotCapacity' = SlotCapacity
    <3>1. SlotCapacity \in Nat
      BY DEF FormInv, TableOK, SlotCapacity
    <3> QED
      BY <1>1, <1>4, <2>1, <3>1 DEF FormInv, CapacityInv, SlotCapacity
  <2>3. /\ Lookups(SlotCapacity) \in Nat /\ Lookups(capacity) \in Nat
        /\ Lookups(SlotCapacity) <= Lookups(capacity)
    BY <2>2, LookupsGrow
  <2>4. CapacityInv'
    BY <2>1, <2>2, <2>3 DEF FormInv, CapacityInv
  <2>5. TableOK' /\ SpanInv' /\ BytesInv'
    BY <2>1, <2>3 DEF FormInv, TableOK, SpanInv, BytesInv
  <2>6. OccupiedInv'
    BY <1>1, <2>1 DEF FormInv, OccupiedInv
  <2>7. ControlOK' /\ HandInv' /\ CallInv'
    BY <1>2, <2>1 DEF ControlOK, HandInv, CallInv, rehash
  <2>8. RehashInv'
    BY <1>1, <2>1, RehashStays DEF rehash
  <2> QED
    BY <2>4, <2>5, <2>6, <2>7, <2>8 DEF FormInv
<1> QED
  BY <1>3, <1>4 DEF Resize

(* A call that ends with the table as it was. *)
LEMMA DoneType ==
  ASSUME TypeInv, UNCHANGED <<table, call, probe, hand, strayed, rehash>>, mlf' \in LoadFactors,
         pc = "manage", pc' = "done"
  PROVE  TypeInv'
<1> USE DEF TypeInv, StepInv
<1>1. FormInv'
  BY FormStays DEF Vacant
<1>2. RehashInv'
  BY RehashStays DEF RehashInv, rehash
<1> QED
  BY <1>1, <1>2 DEF ControlOK, HandInv, CallInv, rehash

(* rehash_impl() allocates, throws or leaves the table. *)
LEMMA RehashImplType ==
  ASSUME TypeInv, NEW n \in Int, NEW m \in LoadFactors, mlf' \in LoadFactors,
         pc = "manage", RehashImpl(n, m)
  PROVE  TypeInv'
<1>1. /\ CalcCapacity(n) \in Nat /\ CalcCapacity(n) >= MinCapacity /\ IsPow2(CalcCapacity(n))
  BY CapacityRange
<1>2. CASE Resize(CalcCapacity(n), m, "done")
  BY <1>1, <1>2, ResizeType
<1>3. CASE Done("ok") /\ UNCHANGED <<table, call, probe, hand, strayed, rehash>>
  BY <1>3, DoneType DEF Done
<1> QED
  BY <1>2, <1>3 DEF RehashImpl

(* grow_if_necessary() allocates or throws. *)
LEMMA GrowType ==
  ASSUME TypeInv, NEW after \in {"walk", "place"}, pc \in {"room", "retry"}, GrowThen(after)
  PROVE  TypeInv'
<1>1. TwiceTheSize \in Nat
  BY DEF TypeInv, FormInv, TableOK, TwiceTheSize
<1>2. /\ CalcCapacity(TwiceTheSize) \in Nat /\ CalcCapacity(TwiceTheSize) >= MinCapacity
      /\ IsPow2(CalcCapacity(TwiceTheSize))
  BY <1>1, CapacityRange
<1>3. mlf \in LoadFactors /\ call.op \in Insertions
  BY DEF TypeInv, FormInv, TableOK, StepInv, CallInv
<1>4. Resize(CalcCapacity(TwiceTheSize), mlf, after) /\ mlf' = mlf
  BY DEF GrowThen
<1> HIDE DEF TypeInv
<1> QED
  BY <1>2, <1>3, <1>4, ResizeType

(* The calls that clear or resize the table. *)
LEMMA ManageType == TypeInv /\ Manage => TypeInv'
<1> SUFFICES ASSUME TypeInv, Manage PROVE TypeInv'
  OBVIOUS
<1> USE DEF TypeInv, StepInv
<1>1. mlf \in LoadFactors /\ slotMask \in Nat /\ maxLookups \in Nat /\ slotSize \in Int
  BY DEF FormInv, TableOK
<1>2. CASE Clear
  <2>1. /\ pc = "manage" /\ pc' = "done" /\ strayed' = FALSE /\ UNCHANGED <<mlf, call, probe, hand, rehash>>
        /\ Destroy \/ ClearData
    BY <1>2 DEF Clear, Managing, Done
  <2>2. SlotCapacity \in Nat
    BY <1>1 DEF SlotCapacity
  <2>3. MinLookups \in Nat
    BY LookupAssumption
  <2>4. PICK capacity \in Nat, lookups \in Nat, last \in Nat :
          /\ last <= capacity + lookups /\ capacity <= MaxCapacity
          /\ Lookups(capacity) <= lookups /\ last <= capacity + Lookups(capacity)
          /\ ctrl' = FreshCtrl(capacity, lookups) /\ slot' = AllRaw(capacity, lookups)
          /\ lastSlot' = last /\ maxLookups' = lookups /\ SlotCapacity' = capacity
    <3>1. CASE Destroy
      <4>1. /\ slotMask' = 0 /\ lastSlot' = 0 /\ maxLookups' = MinLookups
            /\ ctrl' = FreshCtrl(0, MinLookups) /\ slot' = AllRaw(0, MinLookups)
        BY <3>1 DEF Destroy
      <4>2. SlotCapacity' = 0 /\ 0 <= MaxCapacity
        BY <4>1, CapacityAssumption DEF SlotCapacity
      <4>3. Lookups(0) = MinLookups
        BY NoLookups
      <4> QED
        BY <2>3, <4>1, <4>2, <4>3
    <3>2. CASE ClearData
      <4>1. /\ ctrl' = FreshCtrl(SlotCapacity, maxLookups) /\ slot' = AllRaw(SlotCapacity, maxLookups)
            /\ slotMask' = slotMask /\ lastSlot' = lastSlot /\ maxLookups' = maxLookups
        BY <3>2 DEF ClearData
      <4>2. SlotCapacity' = SlotCapacity
        BY <4>1 DEF SlotCapacity
      <4>3. lastSlot \in Nat /\ Lookups(SlotCapacity) \in Nat
        BY <2>2, LookupsGrow DEF FormInv, TableOK
      <4>4. /\ SlotCapacity <= MaxCapacity /\ lastSlot <= SlotCapacity + Lookups(SlotCapacity)
            /\ Lookups(SlotCapacity) <= maxLookups /\ lastSlot <= SlotCapacity + maxLookups
        BY <1>1, <2>2, <4>3 DEF FormInv, CapacityInv
      <4> QED
        BY <1>1, <2>2, <4>1, <4>2, <4>3, <4>4
    <3> QED
      BY <2>1, <3>1, <3>2
  <2>5. SpanInv' /\ BytesInv' /\ OccupiedInv'
    BY <2>4, FreshForm DEF SpanInv, BytesInv, OccupiedInv
  <2>6. CapacityInv'
    BY <2>4 DEF CapacityInv
  <2>7. TableOK'
    <3>1. ctrl' \in [DOMAIN slot' -> CtrlWord] /\ slot' \in [DOMAIN slot' -> Element \cup {Raw}]
      BY <2>4, FreshTable
    <3>2. IsPow2(0 + 1)
      BY DEF IsPow2
    <3>3. slotMask' \in Nat /\ IsPow2(slotMask' + 1) /\ slotSize' \in Int /\ slotThreshold' \in Nat
      BY <2>1, <3>2 DEF FormInv, TableOK, Destroy, ClearData
    <3> QED
      BY <1>1, <2>1, <2>4, <3>1, <3>3 DEF TableOK
  <2>8. ControlOK' /\ HandInv' /\ CallInv'
    BY <2>1 DEF ControlOK, HandInv, CallInv, rehash
  <2>9. RehashInv'
    BY <2>1, RehashStays DEF RehashInv, rehash
  <2> QED
    BY <2>5, <2>6, <2>7, <2>8, <2>9 DEF FormInv
<1>3. CASE Rehash
  <2> DEFINE a == IF call.arg.flag THEN call.arg.n ELSE MinRequireCapacity(call.arg.n, mlf)
             n == AtLeast(a, slotSize)
  <2>1. n \in Int
    <3>1. call.arg.n \in Nat /\ call.arg.n \in Int
      BY DEF CallInv
    <3>2. MinRequireCapacity(call.arg.n, mlf) \in Int
      BY <1>1, <3>1, ShareRange
    <3>3. a \in Int
      BY <3>1, <3>2
    <3> HIDE DEF a
    <3> QED
      BY <1>1, <3>3 DEF AtLeast
  <2>2. pc = "manage" /\ RehashImpl(n, mlf) /\ mlf' = mlf
    BY <1>3 DEF Rehash, Managing
  <2> HIDE DEF n
  <2> QED
    BY <1>1, <2>1, <2>2, RehashImplType
<1>4. CASE ShrinkToFit
  <2> DEFINE n == IF call.arg.flag THEN slotSize ELSE MinRequireCapacity(slotSize, mlf)
  <2>1. n \in Int
    BY <1>1, ShareRange
  <2>2. pc = "manage" /\ RehashImpl(n, mlf) /\ mlf' = mlf
    BY <1>4 DEF ShrinkToFit, Managing
  <2> HIDE DEF n
  <2> QED
    BY <1>1, <2>1, <2>2, RehashImplType
<1>5. CASE MaxLoadFactor
  <2> DEFINE m == call.arg.n
             r == MinRequireCapacity(slotSize, m)
             n == AtLeast(r, slotSize)
  <2>1. m \in LoadFactors /\ mlf' = m /\ pc = "manage"
    BY <1>5 DEF MaxLoadFactor, Managing, CallInv
  <2>2. n \in Int
    <3>1. r \in Int
      BY <1>1, <2>1, ShareRange
    <3> HIDE DEF r
    <3> QED
      BY <1>1, <3>1 DEF AtLeast
  <2>3. \/ RehashImpl(n, m)
        \/ pc' = "done" /\ UNCHANGED <<table, call, probe, hand, strayed, rehash>>
    BY <1>5 DEF MaxLoadFactor, Done
  <2> HIDE DEF m, n
  <2> QED
    BY <2>1, <2>2, <2>3, RehashImplType, DoneType
<1> QED
  BY <1>2, <1>3, <1>4, <1>5 DEF Manage

-----------------------------------------------------------------------------
(* The steps that change elements *)

(* The memory and the capacity stay, and the bytes written are marks for empty or distances. *)
LEMMA EditForm ==
  ASSUME FormInv, UNCHANGED <<slotMask, lastSlot, slotThreshold, maxLookups, mlf>>, slotSize' \in Int,
         slot' \in [DOMAIN slot -> Element \cup {Raw}], ctrl' \in [DOMAIN slot -> CtrlWord],
         \A i \in DOMAIN slot : ctrl'[i] = ctrl[i] \/ ctrl'[i] = Empty \/ ctrl'[i].dist >= 0,
         OccupiedInv'
  PROVE  FormInv'
<1>1. DOMAIN slot' = DOMAIN slot
  OBVIOUS
<1>2. TableOK' /\ SpanInv'
  BY <1>1 DEF FormInv, TableOK, SpanInv
<1>3. CapacityInv'
  BY DEF FormInv, CapacityInv, SlotCapacity
<1>4. BytesInv'
  <2> SUFFICES ASSUME NEW i \in DOMAIN slot, ctrl'[i].dist < 0
               PROVE  ctrl'[i] = Empty \/ (ctrl'[i] = EndOf /\ i >= lastSlot)
    BY <1>1 DEF BytesInv
  <2>1. ~ (ctrl'[i].dist >= 0)
    BY DEF CtrlWord
  <2> QED
    BY <2>1 DEF FormInv, BytesInv
<1> QED
  BY <1>2, <1>3, <1>4 DEF FormInv

(* What is read is an element, and where one is it is that. *)
LEMMA ReadRange ==
  ASSUME FormInv, NEW i
  PROVE  /\ Read(i) \subseteq Element
         /\ i \in Live(slot) => slot[i] \in Element /\ Read(i) = {slot[i]}
         /\ Raw \notin Element /\ \A e \in Element : e.key \in Key /\ e.val \in Value
BY KeyAssumption DEF Read, FormInv, TableOK, Live, Element

(* The words and the domains, where a step begins. *)
LEMMA TableFacts ==
  ASSUME TypeInv
  PROVE  /\ DOMAIN ctrl = DOMAIN slot /\ DOMAIN slot \subseteq Nat
         /\ \A i \in DOMAIN slot : ctrl[i] \in CtrlWord /\ slot[i] \in Element \cup {Raw}
         /\ \A i \in Nat : CtrlAt(i) \in CtrlWord
         /\ \A i, j \in Nat : i <= j /\ j \in DOMAIN slot => i \in DOMAIN slot
         /\ \A i \in Nat : i < lastSlot => i \in DOMAIN slot
         /\ lastSlot \in Nat /\ slotMask \in Nat
<1> USE DEF TypeInv, FormInv
<1>1. PICK n \in Nat : DOMAIN slot = 0..n /\ lastSlot <= n
  BY DEF SpanInv
<1> QED
  BY <1>1, Words DEF TableOK, CtrlAt

(* The element that is being placed. *)
LEMMA NewElementType ==
  ASSUME TypeInv, pc \in {"place", "displace"}
  PROVE  /\ NewElement \in Element /\ NewElement.key = probe.key /\ probe.key \in Key
         /\ NewCtrl \in CtrlWord /\ NewCtrl.dist = probe.dist /\ NewCtrl.hash = NewHash
         /\ probe.dist \in Nat
         /\ Moving => NextPending \in Live(old.slot) /\ NewElement = old.slot[NextPending]
<1> USE DEF TypeInv, StepInv
<1>1. Moving => NextPending \in Live(old.slot)
  BY NextPendingIn DEF RehashInv, Live, Moving
<1>2. NewElement \in Element /\ NewElement.key = probe.key
  <2>1. CASE Moving
    BY <1>1, <2>1 DEF NewElement, RehashInv, Live, CallInv
  <2>2. CASE ~ Moving
    BY <2>2 DEF NewElement, CallInv, Element, KeyOps
  <2> QED
    BY <2>1, <2>2
<1>3. probe.key \in Key
  BY <1>2 DEF Element
<1>4. NewHash \in Nat
  <2>1. HashOf(probe.key) \in Nat
    BY <1>3, HashAssumption DEF HashOf
  <2>2. Moving => old.ctrl[NextPending].hash \in Nat
    BY <1>1 DEF RehashInv, Live, CtrlWord
  <2> QED
    BY <2>1, <2>2 DEF NewHash
<1>5. probe.dist \in Nat
  BY DEF ControlOK
<1> QED
  BY <1>1, <1>2, <1>3, <1>4, <1>5 DEF NewCtrl, Ctrl, CtrlWord, NewElement

(* What Placed does to the rehash it is a part of. *)
LEMMA PlacedType ==
  ASSUME TypeInv, pc \in {"place", "displace"}, Placed, hand' \in {hand, NoHand}, strayed' \in BOOLEAN
  PROVE  /\ StepInv' /\ Vacant' = {}
         /\ UNCHANGED <<slotMask, lastSlot, slotThreshold, maxLookups, mlf>> /\ slotSize' \in Int
<1> USE DEF TypeInv, StepInv
<1>1. /\ slotSize' = slotSize + 1
      /\ UNCHANGED <<slotMask, lastSlot, slotThreshold, maxLookups, mlf, call, probe, resume>>
      /\ \/ /\ Moving /\ old' = [old EXCEPT !.slot[NextPending] = Raw]
            /\ pending' = pending \ {NextPending} /\ pc' = "rehash"
         \/ ~ Moving /\ pc' = "done" /\ old' = old /\ pending' = pending
  BY DEF Placed, Done
<1>2. NoHand \in [at : Nat, ctrl : CtrlWord]
  BY Words DEF NoHand
<1>3. ControlOK'
  BY <1>1, <1>2 DEF ControlOK
<1>4. HandInv' /\ CallInv' /\ Vacant' = {}
  BY <1>1 DEF HandInv, CallInv, Vacant
<1>5. RehashInv'
  <2>1. CASE Moving /\ old' = [old EXCEPT !.slot[NextPending] = Raw]
             /\ pending' = pending \ {NextPending} /\ pc' = "rehash"
    <3> DEFINE s == [old.slot EXCEPT ![NextPending] = Raw]
    <3>1. /\ old' = [ctrl |-> old.ctrl, slot |-> s, capacity |-> old.capacity]
      BY <2>1 DEF RehashInv
    <3>2. old'.ctrl = old.ctrl /\ old'.slot = s /\ old'.capacity = old.capacity
      BY <3>1
    <3>3. s \in [DOMAIN old.slot -> Element \cup {Raw}] /\ DOMAIN s = DOMAIN old.slot
      BY DEF RehashInv
    <3>4. pending' \subseteq Live(s)
      BY <2>1 DEF RehashInv, Live
    <3> HIDE DEF s
    <3>5. old' = [ctrl |-> old'.ctrl, slot |-> old'.slot, capacity |-> old'.capacity]
      BY <3>1, <3>2
    <3>6. /\ DOMAIN old'.slot \subseteq Nat
          /\ old'.slot \in [DOMAIN old'.slot -> Element \cup {Raw}]
          /\ old'.ctrl \in [DOMAIN old'.slot -> CtrlWord]
          /\ old'.capacity \in Nat /\ old'.capacity <= MaxCapacity
          /\ pending' \subseteq Live(old'.slot)
      BY <3>2, <3>3, <3>4 DEF RehashInv
    <3> QED
      BY <2>1, <3>5, <3>6 DEF RehashInv
  <2>2. CASE ~ Moving /\ pc' = "done" /\ old' = old /\ pending' = pending
    BY <2>2, RehashStays DEF RehashInv, Moving
  <2> QED
    BY <1>1, <2>1, <2>2
<1>6. slotSize \in Int
  BY DEF FormInv, TableOK
<1> QED
  BY <1>1, <1>3, <1>4, <1>5, <1>6

(* An assignment puts an element where one is. *)
LEMMA AssignType == TypeInv /\ AssignExisting => TypeInv'
<1> SUFFICES ASSUME TypeInv, AssignExisting PROVE TypeInv'
  OBVIOUS
<1> USE DEF TypeInv, StepInv
<1>1. PICK e \in Hits :
        /\ slot' = [slot EXCEPT ![probe.index] = [key |-> e.key, val |-> call.val]]
        /\ pc' = "done" /\ pc = "walk" /\ call.op = "insert_or_assign"
        /\ UNCHANGED <<slotMask, ctrl, lastSlot, slotSize, slotThreshold, maxLookups>>
        /\ UNCHANGED <<mlf, call, probe, hand, strayed, rehash>>
  BY DEF AssignExisting, Looking, Done
<1>2. e.key \in Key
  BY ReadRange DEF Hits
<1> DEFINE new == [key |-> e.key, val |-> call.val]
<1>3. new \in Element
  BY <1>1, <1>2 DEF Element, CallInv, Insertions
<1>4. slot' \in [DOMAIN slot -> Element \cup {Raw}] /\ new # Raw
  BY <1>1, <1>3, ReadRange DEF FormInv, TableOK
<1>5. OccupiedInv'
  BY <1>1, <1>4 DEF FormInv, OccupiedInv, TableOK, Vacant
<1>6. FormInv'
  BY <1>1, <1>4, <1>5, EditForm DEF FormInv, TableOK
<1>7. RehashInv'
  BY <1>1, RehashStays DEF RehashInv, rehash
<1> QED
  BY <1>1, <1>6, <1>7 DEF ControlOK, HandInv, CallInv, rehash

(* An erasure leaves its slot vacant. *)
LEMMA EraseType == TypeInv /\ EraseFound => TypeInv'
<1> SUFFICES ASSUME TypeInv, EraseFound PROVE TypeInv'
  OBVIOUS
<1> USE DEF TypeInv, StepInv
<1>1. /\ slot' = [slot EXCEPT ![probe.index] = Raw]
      /\ pc' = "shift" /\ Looking("erase")
      /\ UNCHANGED <<slotMask, ctrl, lastSlot, slotSize, slotThreshold, maxLookups>>
      /\ UNCHANGED <<mlf, call, probe, hand, strayed, rehash>>
  BY DEF EraseFound
<1>2. pc = "walk" /\ call.op = "erase" /\ probe.index \in DOMAIN slot
  BY <1>1, InChainUsed DEF Looking
<1>3. slot' \in [DOMAIN slot -> Element \cup {Raw}]
  BY <1>1 DEF FormInv, TableOK
<1>4. OccupiedInv'
  BY <1>1, <1>2 DEF FormInv, OccupiedInv, TableOK, Vacant
<1>5. FormInv'
  BY <1>1, <1>3, <1>4, EditForm DEF FormInv, TableOK
<1>6. RehashInv'
  BY <1>1, <1>2, RehashStays DEF RehashInv, rehash
<1> QED
  BY <1>1, <1>2, <1>3, <1>5, <1>6 DEF ControlOK, HandInv, CallInv, rehash, KeyOps, Insertions

(* A shift moves the vacant slot one further. *)
LEMMA ShiftNextType == TypeInv /\ ShiftNext => TypeInv'
<1> SUFFICES ASSUME TypeInv, ShiftNext PROVE TypeInv'
  OBVIOUS
<1> USE DEF TypeInv, StepInv
<1> DEFINE i == probe.index
<1>1. PICK e \in Read(i + 1) :
        /\ slot' = [slot EXCEPT ![i] = e, ![i + 1] = Raw]
        /\ pc = "shift" /\ pc' = "shift" /\ NotAtHome(NextCtrl)
        /\ ctrl' = [ctrl EXCEPT ![i] = DecDist(NextCtrl)]
        /\ probe' = [probe EXCEPT !.index = i + 1]
        /\ UNCHANGED <<slotMask, lastSlot, slotSize, slotThreshold, maxLookups>>
        /\ UNCHANGED <<mlf, call, hand, strayed, rehash>>
  BY DEF ShiftNext, NextHole
<1>2. i \in DOMAIN slot /\ i \in Nat
  BY <1>1 DEF HandInv, ControlOK
<1>3. NextCtrl \in CtrlWord /\ NextCtrl.dist > 0 /\ i + 1 \in DOMAIN slot
  <2>1. NextCtrl \in CtrlWord
    BY <1>2, TableFacts DEF NextCtrl
  <2>2. NextCtrl.dist > 0
    BY <1>1 DEF NotAtHome
  <2>3. i + 1 \in DOMAIN ctrl
    BY <2>2, Words DEF NextCtrl, CtrlAt
  <2> QED
    BY <2>1, <2>2, <2>3, TableFacts
<1>4. e \in Element /\ e # Raw
  BY ReadRange
<1> HIDE DEF i
<1>5. slot' \in [DOMAIN slot -> Element \cup {Raw}]
  BY <1>1, <1>4 DEF FormInv, TableOK
<1>6. ctrl' \in [DOMAIN slot -> CtrlWord] /\ DecDist(NextCtrl).dist >= 0
  <2>1. DecDist(NextCtrl) \in CtrlWord /\ DecDist(NextCtrl).dist = NextCtrl.dist - 1
    BY <1>3, Words
  <2>2. NextCtrl.dist \in Int
    BY <1>3 DEF CtrlWord
  <2>3. DecDist(NextCtrl).dist >= 0
    BY <1>3, <2>1, <2>2
  <2> QED
    BY <1>1, <2>1, <2>3 DEF FormInv, TableOK
<1>7. \A j \in DOMAIN slot : ctrl'[j] = ctrl[j] \/ ctrl'[j].dist >= 0
  BY <1>1, <1>6, TableFacts
<1>8. OccupiedInv'
  <2>1. Vacant = {i} /\ Vacant' = {i + 1}
    BY <1>1, <1>2 DEF Vacant, ControlOK, i
  <2>2. i # i + 1
    BY <1>2
  <2> QED
    BY <1>1, <1>2, <1>4, <2>1, <2>2, TableFacts DEF FormInv, OccupiedInv, TableOK
<1>9. FormInv'
  BY <1>1, <1>5, <1>6, <1>7, <1>8, EditForm DEF FormInv, TableOK
<1>10. RehashInv'
  BY <1>1, RehashStays DEF RehashInv, rehash
<1>11. probe' \in [key : Key \cup {Absent}, index : Nat, dist : Nat] /\ probe'.key = probe.key
       /\ probe'.index = i + 1
  BY <1>1, <1>2 DEF ControlOK
<1> QED
  BY <1>1, <1>3, <1>5, <1>9, <1>10, <1>11 DEF ControlOK, HandInv, CallInv, rehash

(* The last slot of the chain becomes empty. *)
LEMMA ShiftDoneType == TypeInv /\ ShiftDone => TypeInv'
<1> SUFFICES ASSUME TypeInv, ShiftDone PROVE TypeInv'
  OBVIOUS
<1> USE DEF TypeInv, StepInv
<1>1. /\ pc = "shift" /\ pc' = "done" /\ ctrl' = [ctrl EXCEPT ![probe.index] = Empty]
      /\ slotSize' = slotSize - 1
      /\ UNCHANGED <<slotMask, slot, lastSlot, slotThreshold, maxLookups>>
      /\ UNCHANGED <<mlf, call, probe, hand, strayed, rehash>>
  BY DEF ShiftDone, Decrement
<1>2. ctrl' \in [DOMAIN slot -> CtrlWord] /\ slotSize' \in Int
      /\ \A i \in DOMAIN slot : ctrl'[i] = ctrl[i] \/ ctrl'[i] = Empty
  <2>1. ctrl \in [DOMAIN slot -> CtrlWord] /\ slotSize \in Int
    BY DEF FormInv, TableOK
  <2>2. Empty \in CtrlWord
    BY Words
  <2>3. ctrl' \in [DOMAIN slot -> CtrlWord]
    BY <1>1, <2>1, <2>2
  <2>4. slotSize' \in Int
    BY <1>1, <2>1
  <2>5. \A i \in DOMAIN slot : ctrl'[i] = ctrl[i] \/ ctrl'[i] = Empty
    BY <1>1, <2>1
  <2> QED
    BY <2>3, <2>4, <2>5
<1>3. OccupiedInv'
  BY <1>1, Words, TableFacts DEF FormInv, OccupiedInv, Vacant
<1>4. FormInv'
  BY <1>1, <1>2, <1>3, EditForm DEF FormInv, TableOK
<1>5. RehashInv'
  BY <1>1, RehashStays DEF RehashInv, rehash
<1> QED
  BY <1>1, <1>4, <1>5 DEF ControlOK, HandInv, CallInv, rehash

(* While an element is carried past slots of the table, it and those it passes are there. *)
LEMMA Carrying ==
  ASSUME TypeInv, Displacing
  PROVE  /\ hand.at \in Nat /\ hand.at < probe.index /\ probe.index \in Nat
         /\ hand.ctrl \in CtrlWord /\ hand.ctrl.dist >= 0
         /\ hand.at \in Live(slot) /\ slot[hand.at] \in Element /\ Read(hand.at) = {slot[hand.at]}
         /\ probe.index \in DOMAIN slot /\ CtrlAt(probe.index) = ctrl[probe.index]
         /\ ctrl[probe.index] \in CtrlWord
         /\ ctrl[probe.index] # Empty =>
              /\ ctrl[probe.index].dist >= 0 /\ IsUsed(ctrl[probe.index])
              /\ probe.index \in Live(slot) /\ slot[probe.index] \in Element
              /\ Read(probe.index) = {slot[probe.index]}
<1> USE DEF TypeInv, StepInv
<1>1. pc = "displace" /\ probe.index < lastSlot
  BY DEF Displacing
<1>2. hand.at \in Nat /\ probe.index \in Nat /\ hand.ctrl \in CtrlWord /\ hand.ctrl.dist \in Int
  BY DEF ControlOK, CtrlWord
<1>3. lastSlot \in Nat /\ probe.index \in DOMAIN slot /\ DOMAIN ctrl = DOMAIN slot
  BY <1>1, <1>2, TableFacts
<1>4. hand.ctrl.dist >= 0
  BY <1>1, <1>2, <1>3 DEF HandInv
<1>5. hand.at < probe.index /\ hand.at \in Live(slot)
  BY <1>1, <1>4 DEF HandInv
<1>6. CtrlAt(probe.index) = ctrl[probe.index] /\ ctrl[probe.index] \in CtrlWord
      /\ ctrl[probe.index].dist \in Int
  BY <1>3, TableFacts DEF CtrlAt, CtrlWord
<1>7. ASSUME ctrl[probe.index] # Empty
      PROVE  ctrl[probe.index].dist >= 0 /\ IsUsed(ctrl[probe.index]) /\ probe.index \in Live(slot)
  <2>1. ctrl[probe.index].dist >= 0
    BY <1>1, <1>2, <1>3, <1>6, <1>7 DEF FormInv, BytesInv
  <2>2. IsUsed(ctrl[probe.index])
    BY <2>1 DEF IsUsed
  <2>3. probe.index \notin Vacant
    BY <1>1, <1>2, <1>5 DEF Vacant
  <2> QED
    BY <1>3, <2>1, <2>2, <2>3 DEF FormInv, OccupiedInv, Live
<1> QED
  BY <1>2, <1>3, <1>4, <1>5, <1>6, <1>7, ReadRange

(* An element is constructed in an empty slot. *)
LEMMA PlaceInEmptyType == TypeInv /\ PlaceInEmpty => TypeInv'
<1> SUFFICES ASSUME TypeInv, PlaceInEmpty PROVE TypeInv'
  OBVIOUS
<1>1. /\ pc = "place" /\ Placed /\ hand' = hand /\ strayed' = strayed
      /\ ctrl' = [ctrl EXCEPT ![probe.index] = NewCtrl]
      /\ slot' = [slot EXCEPT ![probe.index] = NewElement]
  BY DEF PlaceInEmpty, AtEndOfChain
<1>2. /\ StepInv' /\ Vacant' = {} /\ Vacant = {}
      /\ UNCHANGED <<slotMask, lastSlot, slotThreshold, maxLookups, mlf>> /\ slotSize' \in Int
  BY <1>1, PlacedType DEF TypeInv, StepInv, ControlOK, Vacant
<1>3. /\ NewElement \in Element /\ NewElement # Raw /\ NewCtrl \in CtrlWord /\ NewCtrl.dist >= 0
  BY <1>1, NewElementType, ReadRange DEF TypeInv
<1>4. FormInv /\ ctrl \in [DOMAIN slot -> CtrlWord] /\ slot \in [DOMAIN slot -> Element \cup {Raw}]
  BY DEF TypeInv, FormInv, TableOK
<1>5. slot' \in [DOMAIN slot -> Element \cup {Raw}] /\ ctrl' \in [DOMAIN slot -> CtrlWord]
  BY <1>1, <1>3, <1>4
<1>6. \A i \in DOMAIN slot : ctrl'[i] = ctrl[i] \/ ctrl'[i].dist >= 0
  BY <1>1, <1>3, <1>4
<1>7. OccupiedInv'
  BY <1>1, <1>2, <1>3, <1>4 DEF FormInv, OccupiedInv
<1> QED
  BY <1>2, <1>4, <1>5, <1>6, <1>7, EditForm DEF TypeInv

(* An element, or an end mark, is taken into the hand. *)
LEMMA DisplaceType == TypeInv /\ Displace => TypeInv'
<1> SUFFICES ASSUME TypeInv, Displace PROVE TypeInv'
  OBVIOUS
<1> DEFINE i == probe.index
           c == CtrlAt(i)
<1>1. /\ pc = "place" /\ c # Empty /\ pc' = "displace"
      /\ ctrl' = [ctrl EXCEPT ![i] = NewCtrl]
      /\ hand' = [at |-> i, ctrl |-> IncDist(c)] /\ probe' = Further
      /\ UNCHANGED <<slotMask, slot, lastSlot, slotSize, slotThreshold, maxLookups>>
      /\ UNCHANGED <<mlf, call, strayed, rehash, ret>>
  BY DEF Displace, AtEndOfChain
<1>2. NewCtrl \in CtrlWord /\ NewCtrl.dist >= 0
  BY <1>1, NewElementType
<1>3. FormInv /\ ctrl \in [DOMAIN slot -> CtrlWord] /\ slot \in [DOMAIN slot -> Element \cup {Raw}]
      /\ slotSize \in Int
  BY DEF TypeInv, FormInv, TableOK
<1>4. i \in Nat /\ c \in CtrlWord /\ c.dist \in Int /\ IncDist(c) \in CtrlWord /\ IncDist(c).dist = c.dist + 1
  <2>1. i \in Nat
    BY DEF TypeInv, StepInv, ControlOK
  <2>2. c \in CtrlWord
    BY <2>1, TableFacts
  <2> HIDE DEF c
  <2> QED
    BY <2>1, <2>2, Words DEF CtrlWord
<1>5. /\ probe'.index = i + 1 /\ probe'.key = probe.key
      /\ probe' \in [key : Key \cup {Absent}, index : Nat, dist : Nat]
  BY <1>1, FurtherType DEF TypeInv, StepInv
<1>6. hand'.at = i /\ hand'.ctrl = IncDist(c) /\ hand' \in [at : Nat, ctrl : CtrlWord]
  BY <1>1, <1>4
<1>7. Vacant = {} /\ Vacant' = {i}
  BY <1>1, <1>6 DEF Vacant
<1>8. i \in DOMAIN slot => c = ctrl[i]
  BY <1>3 DEF CtrlAt
<1>9. c.dist >= 0 => i \in Live(slot)
  <2>1. ASSUME c.dist >= 0 PROVE i \in DOMAIN slot
    BY <1>3, <2>1, Words DEF CtrlAt
  <2> QED
    BY <1>3, <1>7, <1>8, <2>1 DEF FormInv, OccupiedInv, IsUsed, Live
<1>10. c.dist < 0 => c = EndOf /\ i + 1 >= lastSlot
  <2>1. CASE i \in DOMAIN slot
    BY <1>1, <1>3, <1>4, <1>8, <2>1, TableFacts DEF FormInv, BytesInv
  <2>2. CASE i \notin DOMAIN slot
    BY <1>3, <1>4, <2>2, TableFacts DEF CtrlAt
  <2> QED
    BY <2>1, <2>2
<1> HIDE DEF i, c
<1>11. ctrl' \in [DOMAIN slot -> CtrlWord] /\ slot' \in [DOMAIN slot -> Element \cup {Raw}]
       /\ \A j \in DOMAIN slot : ctrl'[j] = ctrl[j] \/ ctrl'[j].dist >= 0
  <2>1. ctrl' \in [DOMAIN slot -> CtrlWord]
    BY <1>1, <1>2, <1>3
  <2>2. \A j \in DOMAIN slot : ctrl'[j] = ctrl[j] \/ ctrl'[j].dist >= 0
    BY <1>1, <1>2, <1>3
  <2> QED
    BY <1>1, <1>3, <2>1, <2>2
<1>12. OccupiedInv'
  BY <1>1, <1>3, <1>7 DEF FormInv, OccupiedInv
<1>13. FormInv'
  BY <1>1, <1>3, <1>11, <1>12, EditForm
<1>14. HandInv'
  <2>1. IncDist(c).dist >= 0 => c.dist >= 0 \/ IncDist(c) = Empty
    BY <1>4, <1>10, Words
  <2>2. ~ (Empty.dist >= 0)
    BY Words
  <2>3. hand'.ctrl.dist >= 0 => hand'.at \in Live(slot')
    BY <1>1, <1>6, <1>9, <2>1, <2>2
  <2>4. hand'.ctrl.dist < 0 => hand'.ctrl = Empty /\ probe'.index >= lastSlot'
    BY <1>1, <1>4, <1>5, <1>6, <1>10, Words
  <2> QED
    BY <1>1, <1>4, <1>5, <1>6, <2>3, <2>4 DEF HandInv
<1>15. ControlOK'
  BY <1>1, <1>5, <1>6 DEF TypeInv, StepInv, ControlOK, rehash
<1>16. RehashInv' /\ Moving' = Moving /\ NextPending' = NextPending
  BY <1>1, RehashStays DEF TypeInv, StepInv, RehashInv, rehash
<1>17. CallInv'
  BY <1>1, <1>5, <1>16 DEF TypeInv, StepInv, CallInv, rehash
<1> QED
  BY <1>13, <1>14, <1>15, <1>16, <1>17 DEF TypeInv, StepInv

(* The hand passes a slot, or changes its element for the one there. *)
LEMMA PassOnType == TypeInv /\ PassOn => TypeInv'
<1> SUFFICES ASSUME TypeInv, PassOn PROVE TypeInv'
  OBVIOUS
<1> DEFINE i == probe.index
           c == ctrl[i]
           a == hand.at
           swaps == IsPoorerThan(c)
           carried == IncDist(IF swaps THEN c ELSE hand.ctrl)
           gaveUp == ~ Moving /\ TooFar(carried.dist)
           swapped == IF swaps THEN [ctrl EXCEPT ![i] = hand.ctrl] ELSE ctrl
<1>1. Displacing /\ pc = "displace"
  BY DEF PassOn, Displacing
<1>2. /\ CtrlAt(i) = c /\ c # Empty /\ Read(a) = {slot[a]} /\ Read(i) = {slot[i]}
      /\ a \in Nat /\ i \in Nat /\ a < i /\ hand.ctrl \in CtrlWord /\ hand.ctrl.dist >= 0
      /\ a \in Live(slot) /\ slot[a] \in Element /\ i \in Live(slot) /\ slot[i] \in Element
      /\ i \in DOMAIN slot /\ c \in CtrlWord /\ c.dist >= 0
  BY <1>1, Carrying DEF PassOn
<1>3. /\ slot' = IF swaps THEN [slot EXCEPT ![i] = slot[a], ![a] = slot[i]] ELSE slot
      /\ probe' = Further
      /\ ctrl' = IF gaveUp THEN [swapped EXCEPT ![a] = carried] ELSE swapped
      /\ hand' = IF gaveUp THEN NoHand ELSE [hand EXCEPT !.ctrl = carried]
      /\ pc' = IF gaveUp THEN "retry" ELSE pc
      /\ UNCHANGED <<slotMask, lastSlot, slotSize, slotThreshold, maxLookups>>
      /\ UNCHANGED <<mlf, call, strayed, rehash, ret>>
  BY <1>2 DEF PassOn
<1>4. FormInv /\ ctrl \in [DOMAIN slot -> CtrlWord] /\ slot \in [DOMAIN slot -> Element \cup {Raw}]
      /\ slotSize \in Int /\ a \in DOMAIN slot /\ slot[a] # Raw /\ slot[i] # Raw
  BY <1>2 DEF TypeInv, FormInv, TableOK, Live
<1>5. carried \in CtrlWord /\ carried.dist >= 0
  <2> DEFINE w == IF swaps THEN c ELSE hand.ctrl
  <2>1. w \in CtrlWord /\ w.dist >= 0
    BY <1>2
  <2> HIDE DEF w
  <2>2. IncDist(w) \in CtrlWord /\ IncDist(w).dist = w.dist + 1 /\ w.dist \in Int
    BY <2>1, Words DEF CtrlWord
  <2>3. IncDist(w).dist >= 0
    BY <2>1, <2>2
  <2> QED
    BY <2>2, <2>3 DEF w
<1>6. NoHand \in [at : Nat, ctrl : CtrlWord]
  BY Words DEF NoHand
<1> HIDE DEF carried, gaveUp, swaps, i, c, a
<1>7. swapped \in [DOMAIN slot -> CtrlWord]
      /\ \A j \in DOMAIN slot : swapped[j] = ctrl[j] \/ swapped[j].dist >= 0
  BY <1>2, <1>4
<1> HIDE DEF swapped
<1>8. ctrl' \in [DOMAIN slot -> CtrlWord]
      /\ \A j \in DOMAIN slot : ctrl'[j] = ctrl[j] \/ ctrl'[j].dist >= 0
  BY <1>3, <1>5, <1>7
<1>9. slot' \in [DOMAIN slot -> Element \cup {Raw}] /\ slot'[a] # Raw /\ slot'[i] # Raw
      /\ \A j \in DOMAIN slot : j # a /\ j # i => slot'[j] = slot[j]
  BY <1>2, <1>3, <1>4
<1>10. OccupiedInv'
  <2>1. Vacant = {a}
    BY <1>1 DEF Vacant, a
  <2>2. \A j \in DOMAIN slot : j # a /\ j # i => ctrl'[j] = ctrl[j]
    BY <1>3, <1>4, <1>7 DEF swapped
  <2> QED
    BY <1>4, <1>9, <2>1, <2>2 DEF FormInv, OccupiedInv
<1>11. FormInv'
  BY <1>3, <1>4, <1>8, <1>9, <1>10, EditForm
<1>12. /\ probe'.index = i + 1 /\ probe'.key = probe.key
       /\ probe' \in [key : Key \cup {Absent}, index : Nat, dist : Nat]
  BY <1>3, FurtherType DEF TypeInv, StepInv, i
<1>13. hand \in [at : Nat, ctrl : CtrlWord]
  BY DEF TypeInv, StepInv, ControlOK
<1>14. hand' \in [at : Nat, ctrl : CtrlWord] /\ (~ gaveUp => hand'.at = a /\ hand'.ctrl = carried)
  BY <1>3, <1>5, <1>6, <1>13 DEF a
<1>15. ControlOK' /\ pc' \in {"retry", "displace"} /\ (pc' = "retry" => gaveUp)
  BY <1>1, <1>3, <1>12, <1>14 DEF TypeInv, StepInv, ControlOK, rehash
<1>16. HandInv'
  <2>1. a \in Live(slot')
    BY <1>4, <1>9 DEF Live
  <2>2. pc' = "displace" => ~ gaveUp
    BY <1>3
  <2>3. ~ (carried.dist < 0)
    BY <1>5 DEF CtrlWord
  <2> QED
    BY <1>2, <1>12, <1>14, <1>15, <2>1, <2>2, <2>3 DEF HandInv
<1>17. RehashInv' /\ Moving' = Moving /\ NextPending' = NextPending
  BY <1>1, <1>3, <1>15, RehashStays DEF TypeInv, StepInv, RehashInv, rehash, gaveUp, Moving
<1>18. CallInv'
  BY <1>1, <1>3, <1>12, <1>15, <1>17 DEF TypeInv, StepInv, CallInv, rehash, gaveUp
<1> QED
  BY <1>11, <1>15, <1>16, <1>17, <1>18 DEF TypeInv, StepInv

(* The hand is emptied into an empty slot. *)
LEMMA PutDownType == TypeInv /\ PutDown => TypeInv'
<1> SUFFICES ASSUME TypeInv, PutDown PROVE TypeInv'
  OBVIOUS
<1>1. Displacing /\ pc = "displace" /\ Placed /\ hand' = NoHand /\ strayed' = strayed
  BY DEF PutDown, Displacing
<1> DEFINE i == probe.index
           a == hand.at
<1>2. /\ Read(a) = {slot[a]} /\ a \in Nat /\ i \in Nat /\ a < i
      /\ hand.ctrl \in CtrlWord /\ hand.ctrl.dist >= 0
      /\ a \in Live(slot) /\ slot[a] \in Element /\ i \in DOMAIN slot
  BY <1>1, Carrying
<1>3. /\ ctrl' = [ctrl EXCEPT ![i] = hand.ctrl]
      /\ slot' = [slot EXCEPT ![i] = slot[a], ![a] = NewElement]
  BY <1>2 DEF PutDown
<1>4. NewElement \in Element /\ NewElement # Raw /\ slot[a] # Raw /\ a \in DOMAIN slot
  BY <1>1, <1>2, NewElementType, ReadRange DEF TypeInv, Live
<1>5. FormInv /\ ctrl \in [DOMAIN slot -> CtrlWord] /\ slot \in [DOMAIN slot -> Element \cup {Raw}]
  BY DEF TypeInv, FormInv, TableOK
<1>6. /\ StepInv' /\ Vacant' = {} /\ Vacant = {a}
      /\ UNCHANGED <<slotMask, lastSlot, slotThreshold, maxLookups, mlf>> /\ slotSize' \in Int
  BY <1>1, PlacedType DEF TypeInv, StepInv, ControlOK, Vacant
<1> HIDE DEF i, a
<1>7. ctrl' \in [DOMAIN slot -> CtrlWord] /\ \A j \in DOMAIN slot : ctrl'[j] = ctrl[j] \/ ctrl'[j].dist >= 0
  <2>1. ctrl' \in [DOMAIN slot -> CtrlWord]
    BY <1>2, <1>3, <1>5
  <2> QED
    BY <1>2, <1>3, <1>5, <2>1
<1>8. slot' \in [DOMAIN slot -> Element \cup {Raw}]
      /\ slot'[a] # Raw /\ slot'[i] # Raw /\ \A j \in DOMAIN slot : j # a /\ j # i => slot'[j] = slot[j]
  BY <1>2, <1>3, <1>4, <1>5
<1>9. OccupiedInv'
  BY <1>3, <1>5, <1>6, <1>8 DEF FormInv, OccupiedInv
<1> QED
  BY <1>5, <1>6, <1>7, <1>8, <1>9, EditForm DEF TypeInv

(* Where the insertion ends without a place, the byte in the hand goes back. *)
LEMMA BackType ==
  ASSUME TypeInv, pc = "displace", ctrl' = [ctrl EXCEPT ![hand.at] = hand.ctrl]
  PROVE  /\ ctrl' \in [DOMAIN slot -> CtrlWord]
         /\ \A j \in DOMAIN slot : ctrl'[j] = ctrl[j] \/ ctrl'[j] = Empty \/ ctrl'[j].dist >= 0
<1>1. hand.ctrl \in CtrlWord /\ hand.ctrl.dist \in Int /\ ctrl \in [DOMAIN slot -> CtrlWord]
  BY DEF TypeInv, StepInv, ControlOK, FormInv, TableOK, CtrlWord
<1>2. hand.ctrl.dist >= 0 \/ hand.ctrl = Empty
  BY <1>1 DEF TypeInv, StepInv, HandInv
<1>3. ctrl' \in [DOMAIN slot -> CtrlWord]
  BY <1>1
<1> QED
  BY <1>1, <1>2, <1>3

(* The hand is emptied into the slot it was filled from. *)
LEMMA GiveUpType == TypeInv /\ GiveUp => TypeInv'
<1> SUFFICES ASSUME TypeInv, GiveUp PROVE TypeInv'
  OBVIOUS
<1>1. /\ pc = "displace" /\ ~ Moving /\ ctrl' = [ctrl EXCEPT ![hand.at] = hand.ctrl]
      /\ hand' = NoHand /\ pc' = "retry"
      /\ UNCHANGED <<slotMask, slot, lastSlot, slotSize, slotThreshold, maxLookups>>
      /\ UNCHANGED <<mlf, call, probe, strayed, rehash, ret>>
  BY DEF GiveUp
<1>2. NoHand \in [at : Nat, ctrl : CtrlWord]
  BY Words DEF NoHand
<1>3. OccupiedInv'
  <2>1. hand.ctrl.dist >= 0 => hand.at \in Live(slot)
    BY <1>1 DEF TypeInv, StepInv, HandInv
  <2>2. Vacant = {hand.at} /\ Vacant' = {}
    BY <1>1 DEF Vacant
  <2>3. ctrl \in [DOMAIN slot -> CtrlWord]
    BY DEF TypeInv, FormInv, TableOK
  <2> QED
    BY <1>1, <2>1, <2>2, <2>3 DEF TypeInv, FormInv, OccupiedInv, IsUsed, Live
<1>4. FormInv'
  BY <1>1, <1>3, BackType, EditForm DEF TypeInv, FormInv, TableOK
<1>5. RehashInv' /\ Moving' = Moving
  BY <1>1, RehashStays DEF TypeInv, StepInv, RehashInv, rehash, Moving
<1>6. ControlOK' /\ HandInv' /\ CallInv'
  BY <1>1, <1>2 DEF TypeInv, StepInv, ControlOK, HandInv, CallInv, rehash
<1> QED
  BY <1>4, <1>5, <1>6 DEF TypeInv, StepInv

(* A rehash constructs its element over the one in the hand. *)
LEMMA OverwriteType == TypeInv /\ Overwrite => TypeInv'
<1> SUFFICES ASSUME TypeInv, Overwrite PROVE TypeInv'
  OBVIOUS
<1>1. /\ pc = "displace" /\ Placed /\ hand' = NoHand /\ strayed' = TRUE
      /\ ctrl' = [ctrl EXCEPT ![hand.at] = hand.ctrl]
      /\ slot' = [slot EXCEPT ![hand.at] = NewElement]
  BY DEF Overwrite
<1>2. NewElement \in Element /\ NewElement # Raw
  BY <1>1, NewElementType, ReadRange DEF TypeInv
<1>3. FormInv /\ ctrl \in [DOMAIN slot -> CtrlWord] /\ slot \in [DOMAIN slot -> Element \cup {Raw}]
  BY DEF TypeInv, FormInv, TableOK
<1>4. /\ StepInv' /\ Vacant' = {} /\ Vacant = {hand.at}
      /\ UNCHANGED <<slotMask, lastSlot, slotThreshold, maxLookups, mlf>> /\ slotSize' \in Int
  BY <1>1, PlacedType DEF TypeInv, StepInv, ControlOK, Vacant
<1>5. slot' \in [DOMAIN slot -> Element \cup {Raw}]
  BY <1>1, <1>2, <1>3
<1>6. OccupiedInv'
  BY <1>1, <1>2, <1>3, <1>4 DEF FormInv, OccupiedInv
<1> QED
  BY <1>1, <1>3, <1>4, <1>5, <1>6, BackType, EditForm DEF TypeInv

(***************************************************************************)
(* Every step keeps the types, one lemma for each kind of step above.      *)
(***************************************************************************)
LEMMA NextType == TypeInv /\ [Next]_vars => TypeInv'
<1> SUFFICES ASSUME TypeInv, [Next]_vars PROVE TypeInv'
  OBVIOUS
<1>1. CASE UNCHANGED vars
  <2>1. UNCHANGED <<table, mlf, call, probe, hand, strayed, pc>> /\ UNCHANGED <<old, pending, resume>>
    BY <1>1 DEF vars, rehash
  <2>2. FormInv'
    BY <2>1, FormStays DEF TypeInv, FormInv, TableOK, Vacant
  <2>3. RehashInv' /\ Moving' = Moving /\ NextPending' = NextPending
    BY <2>1, RehashStays DEF TypeInv, StepInv, RehashInv
  <2>4. ControlOK' /\ HandInv' /\ CallInv'
    BY <2>1, <2>3 DEF TypeInv, StepInv, ControlOK, HandInv, CallInv, table
  <2> QED
    BY <2>2, <2>3, <2>4 DEF TypeInv, StepInv
<1>2. CASE BeginKeyOp \/ BeginManagement
  BY <1>2, BeginsType
<1>3. CASE Manage
  BY <1>3, ManageType
<1>4. CASE Search
  BY <1>4, LookingType, AssignType DEF Search
<1>5. CASE Erasing
  BY <1>5, EraseType, ShiftNextType, ShiftDoneType DEF Erasing
<1>6. CASE Grow \/ Retry
  <2>1. \/ pc = "room" /\ GrowThen("place")
        \/ pc = "retry" /\ GrowThen("walk")
    BY <1>6 DEF Grow, Retry
  <2> QED
    BY <2>1, GrowType
<1>7. CASE Inserting /\ ~ (Grow \/ Retry)
  BY <1>7, LookingType, PlaceInEmptyType, DisplaceType, PassOnType, PutDownType, GiveUpType, OverwriteType
  DEF Inserting
<1>8. CASE Rehashing \/ Return
  BY <1>8, LookingType, RehashDoneType DEF Rehashing
<1> QED
  BY <1>1, <1>2, <1>3, <1>4, <1>5, <1>6, <1>7, <1>8 DEF Next, Step

(* Where a call is and what it holds always have their types. *)
THEOREM TypesAlways == Spec => []TypeInv
<1>1. Init => TypeInv
  BY InitType
<1>2. TypeInv /\ [Next]_vars => TypeInv'
  BY NextType
<1> QED
  BY <1>1, <1>2, PTL DEF Spec

(***************************************************************************)
(* The types of robin_hash_map are right, whatever was called before: also *)
(* when an allocation failed or an element was overwritten.                *)
(***************************************************************************)
THEOREM TypeCorrect == Spec => []TypeOK
<1>1. Spec => []TypeInv
  BY TypesAlways
<1>2. TypeInv => TypeOK
  BY TypeParts
<1> QED
  BY <1>1, <1>2, PTL

-----------------------------------------------------------------------------
(***************************************************************************)
(* What a walk, a rehash and a displacement know of the table.             *)
(***************************************************************************)

(* A table that is moved to a larger one keeps the hashes of its elements, or has none. *)
HashesKept == StoreHash => MaxCapacity < GroupWidth

(* From the home of the key to the slot before i no element is nearer to its home. *)
Along(bytes, mask, i, k) == \A j \in Home(k, mask)..(i - 1) : bytes[j].dist >= j - Home(k, mask)

NotStored(k, slots) == \A i \in Live(slots) : slots[i].key # k

WalkInv == pc \in {"walk", "room", "place"} =>
    /\ probe.index = Home(probe.key, slotMask) + probe.dist
    /\ \A j \in Home(probe.key, slotMask)..(probe.index - 1) : j \in DOMAIN slot
    /\ Along(ctrl, slotMask, probe.index, probe.key)

(* The walk has not passed its key. *)
SearchInv == pc = "walk" => \A j \in Live(slot) : slot[j].key = probe.key => j >= probe.index

(* What is to be inserted is not in the table, and not in the old one. *)
AbsentInv ==
    /\ pc \in {"room", "place", "displace"} /\ ~ Moving => NotStored(call.key, slot)
    /\ pc \in {"rehash", "place", "displace"} /\ resume = "place" =>
         NotStored(call.key, slot) /\ NotStored(call.key, old.slot)

(* The byte of the new element fits the slot where it will be constructed. *)
VacantInv ==
    /\ pc = "shift" => slot[probe.index] = Raw
    /\ pc = "displace" =>
         /\ Home(probe.key, slotMask) <= hand.at
         /\ hand.at \in DOMAIN slot =>
              ctrl[hand.at] = Ctrl(hand.at - Home(probe.key, slotMask), HashOf(probe.key))
         /\ Along(ctrl, slotMask, hand.at, probe.key)

HashesInv ==
    /\ \A i \in Live(slot) \ Vacant : ctrl[i].hash = HashOf(slot[i].key)
    /\ \A i \in pending : old.ctrl[i].hash = HashOf(old.slot[i].key)

TableInv == CtrlMirrorsSlots /\ EveryElementReachable
CourseInv == UniqueKeys /\ WalkInv /\ SearchInv /\ AbsentInv /\ VacantInv /\ HashesInv
SearchableInv == ~ strayed => (pc # "retry" => TableInv) /\ CourseInv

-----------------------------------------------------------------------------
(* Elements, keys and chains *)

(* What the byte of an element says. *)
LEMMA ByteOf ==
  ASSUME NEW e \in Element, NEW i \in Nat, slotMask \in Nat
  PROVE  /\ e.key \in Key /\ Home(e.key, slotMask) \in Nat
         /\ CtrlOf(i, e).dist = i - Home(e.key, slotMask)
         /\ CtrlOf(i, e).hash = HashOf(e.key)
<1>1. e.key \in Key
  BY DEF Element
<1>2. Home(e.key, slotMask) \in Nat
  BY <1>1, HomeRange
<1> QED
  BY <1>1, <1>2 DEF CtrlOf, Ctrl

(* An element lies at its home or behind it, and its byte tells how far. *)
LEMMA Resident ==
  ASSUME TypeInv, CtrlMirrorsSlots, NEW i \in Live(slot) \ Vacant
  PROVE  /\ i \in DOMAIN slot /\ i \in Nat /\ slot[i] \in Element /\ slot[i].key \in Key
         /\ Home(slot[i].key, slotMask) \in Nat /\ Home(slot[i].key, slotMask) <= i
         /\ ctrl[i] = CtrlOf(i, slot[i]) /\ IsUsed(ctrl[i]) /\ ctrl[i].dist \in Int
         /\ ctrl[i].dist = i - Home(slot[i].key, slotMask)
         /\ ctrl[i].hash = HashOf(slot[i].key)
<1>1. i \in DOMAIN slot /\ slot[i] # Raw
  BY DEF Live
<1>2. i \in Nat /\ slot[i] \in Element /\ slotMask \in Nat /\ DOMAIN ctrl = DOMAIN slot /\ ctrl[i] \in CtrlWord
  BY <1>1, TableFacts
<1>3. ctrl[i] = CtrlOf(i, slot[i]) /\ IsUsed(ctrl[i])
  BY <1>1, <1>2 DEF CtrlMirrorsSlots
<1>4. /\ slot[i].key \in Key /\ Home(slot[i].key, slotMask) \in Nat
      /\ ctrl[i].dist = i - Home(slot[i].key, slotMask) /\ ctrl[i].hash = HashOf(slot[i].key)
  BY <1>2, <1>3, ByteOf
<1>5. ctrl[i].dist >= 0 /\ ctrl[i].dist \in Int
  BY <1>2, <1>3 DEF IsUsed, CtrlWord
<1>6. Home(slot[i].key, slotMask) <= i
  BY <1>2, <1>4, <1>5
<1> QED
  BY <1>1, <1>2, <1>3, <1>4, <1>5, <1>6

(* Elements that move within the table, one to a slot, stay unique. *)
LEMMA KeysMoved ==
  ASSUME UniqueKeys, NEW f, old'.slot = old.slot,
         \A x \in Live(slot') : f[x] \in Live(slot) /\ slot'[x].key = slot[f[x]].key,
         \A x, y \in Live(slot') : f[x] = f[y] => x = y
  PROVE  UniqueKeys' /\ \A k : NotStored(k, slot) => NotStored(k, slot')
<1>1. \A i, j \in Live(slot') : slot'[i].key = slot'[j].key => i = j
  BY DEF UniqueKeys
<1>2. \A i \in Live(slot'), j \in Live(old'.slot) : slot'[i].key # old'.slot[j].key
  BY DEF UniqueKeys
<1>3. \A k : NotStored(k, slot) => NotStored(k, slot')
  BY DEF NotStored
<1> QED
  BY <1>1, <1>2, <1>3 DEF UniqueKeys

(* The same when one of the slots takes the element that is placed. *)
LEMMA KeysPlaced ==
  ASSUME TypeInv, UniqueKeys, AbsentInv, HashesInv, pc \in {"place", "displace"}, Placed,
         NEW n \in DOMAIN slot', slot'[n] = NewElement, Vacant' = {},
         NEW f,
         \A x \in Live(slot') \ {n} : f[x] \in Live(slot) /\ slot'[x].key = slot[f[x]].key,
         \A x, y \in Live(slot') \ {n} : f[x] = f[y] => x = y
  PROVE  /\ UniqueKeys' /\ AbsentInv'
         /\ \A i \in pending' : old'.ctrl[i].hash = HashOf(old'.slot[i].key)
<1>1. /\ NewElement \in Element /\ NewElement.key = probe.key /\ call' = call /\ resume' = resume
      /\ Moving => NextPending \in Live(old.slot) /\ NewElement = old.slot[NextPending]
      /\ ~ Moving => probe.key = call.key /\ old = NoOld
  BY NewElementType DEF Placed, TypeInv, StepInv, CallInv, RehashInv, Moving
<1>2. NotStored(NewElement.key, slot)
  BY <1>1 DEF UniqueKeys, AbsentInv, NotStored
<1>3. /\ \A i, j \in Live(slot') : slot'[i].key = slot'[j].key => i = j
      /\ \A i \in Live(slot') : slot'[i].key = NewElement.key \/ \E j \in Live(slot) : slot'[i].key = slot[j].key
  BY <1>2 DEF UniqueKeys, NotStored
<1>4. CASE Moving
  <2> DEFINE s == [old.slot EXCEPT ![NextPending] = Raw]
  <2>1. /\ old' = [old EXCEPT !.slot[NextPending] = Raw] /\ pending' = pending \ {NextPending} /\ pc' = "rehash"
    BY <1>4 DEF Placed
  <2>2. old'.slot = s /\ old'.ctrl = old.ctrl
    BY <2>1 DEF TypeInv, StepInv, RehashInv
  <2>3. \A i \in Live(s) : i # NextPending /\ i \in Live(old.slot) /\ s[i] = old.slot[i]
    BY DEF Live
  <2>4. \A i \in Live(s) : s[i].key # NewElement.key
    BY <1>1, <1>4, <2>3 DEF UniqueKeys
  <2> HIDE DEF s
  <2>5. UniqueKeys'
    <3>1. \A i, j \in Live(s) : s[i].key = s[j].key => i = j
      BY <2>3 DEF UniqueKeys
    <3>2. \A i \in Live(slot'), j \in Live(s) : slot'[i].key # s[j].key
      BY <1>3, <2>3, <2>4 DEF UniqueKeys
    <3> QED
      BY <1>3, <2>2, <3>1, <3>2 DEF UniqueKeys
  <2>6. AbsentInv'
    <3>1. ASSUME resume = "place" PROVE NotStored(call.key, slot') /\ NotStored(call.key, s)
      <4>1. NotStored(call.key, slot) /\ NotStored(call.key, old.slot)
        BY <3>1 DEF AbsentInv
      <4>2. NewElement.key # call.key
        BY <1>1, <1>4, <4>1 DEF NotStored
      <4> QED
        BY <1>3, <2>3, <4>1, <4>2 DEF NotStored
    <3> QED
      BY <1>1, <2>1, <2>2, <3>1 DEF AbsentInv
  <2>7. \A i \in pending' : old'.ctrl[i].hash = HashOf(old'.slot[i].key)
    <3>1. \A i \in pending' : i \in pending /\ s[i] = old.slot[i]
      BY <2>1 DEF s, TypeInv, StepInv, RehashInv, Live
    <3> QED
      BY <2>2, <3>1 DEF HashesInv
  <2> QED
    BY <2>5, <2>6, <2>7
<1>5. CASE ~ Moving
  <2>1. old' = NoOld /\ pending' = {} /\ pc' = "done"
    BY <1>1, <1>5 DEF Placed, Done, Moving
  <2>2. Live(NoOld.slot) = {}
    BY DEF NoOld, Live
  <2> QED
    BY <1>3, <2>1, <2>2 DEF UniqueKeys, AbsentInv
<1> QED
  BY <1>4, <1>5

(* The hash in the byte of an element that is placed is right. *)
LEMMA NewHashRight ==
  ASSUME HashesKept, TypeInv, HashesInv, pc \in {"place", "displace"}
  PROVE  NewHash = HashOf(probe.key)
<1>1. CASE ~ Moving
  BY <1>1 DEF NewHash
<1>2. CASE Moving /\ old.capacity < GroupWidth
  <2>1. NextPending \in pending
    BY <1>2, NextPendingIn DEF Moving, TypeInv, StepInv, RehashInv, Live
  <2>2. probe.key = old.slot[NextPending].key
    BY <1>2 DEF TypeInv, StepInv, CallInv
  <2> QED
    BY <1>2, <2>1, <2>2 DEF NewHash, HashesInv
<1>3. CASE Moving /\ ~ (old.capacity < GroupWidth)
  <2>1. old.capacity \in Nat /\ old.capacity <= MaxCapacity /\ MaxCapacity \in Nat /\ GroupWidth \in Nat
    BY CapacityAssumption, LookupAssumption DEF TypeInv, StepInv, RehashInv
  <2>2. ~ StoreHash
    BY <1>3, <2>1 DEF HashesKept
  <2> QED
    BY <1>3, <2>2 DEF NewHash, HashOf
<1> QED
  BY <1>1, <1>2, <1>3

(* Where the walk for a key has ended, the key is not in the table. *)
LEMMA WalkedIsAbsent ==
  ASSUME TypeInv, TableInv, WalkInv, SearchInv, pc = "walk", ~ InChain(probe.dist, CtrlAt(probe.index))
  PROVE  NotStored(probe.key, slot)
<1> SUFFICES ASSUME NEW i \in Live(slot), slot[i].key = probe.key PROVE FALSE
  BY DEF NotStored
<1> USE DEF TableInv
<1>1. Vacant = {}
  BY DEF Vacant
<1> DEFINE h == Home(probe.key, slotMask)
<1>2. /\ i \in DOMAIN slot /\ i \in Nat /\ h \in Nat /\ h <= i
      /\ ctrl[i].dist = i - h
  BY <1>1, Resident
<1>3. i >= probe.index
  BY DEF SearchInv
<1>4. probe.index = h + probe.dist /\ probe.dist \in Nat /\ probe.index \in Nat
  BY DEF WalkInv, TypeInv, StepInv, ControlOK
<1>5. probe.index \in DOMAIN slot /\ CtrlAt(probe.index) = ctrl[probe.index] /\ ctrl[probe.index].dist \in Int
  BY <1>2, <1>3, <1>4, TableFacts DEF CtrlAt, CtrlWord
<1>6. ctrl[probe.index].dist >= probe.index - h
  <2>1. CASE i = probe.index
    BY <1>2, <1>4, <2>1
  <2>2. CASE i # probe.index
    <3>1. probe.index \in h..(i - 1)
      BY <1>2, <1>3, <1>4, <2>2
    <3>2. ReachableAt(i, probe.key)
      BY <1>1 DEF EveryElementReachable
    <3> QED
      BY <3>1, <3>2 DEF ReachableAt
  <2> QED
    BY <2>1, <2>2
<1> HIDE DEF h
<1>7. probe.index - h = probe.dist
  BY <1>2, <1>4
<1>8. probe.dist <= ctrl[probe.index].dist
  BY <1>6, <1>7
<1> QED
  BY <1>5, <1>8 DEF InChain

-----------------------------------------------------------------------------
(* Steps that leave the table alone *)

(* With no slot vacant before and after, the table stays searchable. *)
LEMMA TableStays ==
  ASSUME TypeInv, TableInv, UniqueKeys, HashesInv, Vacant = {}, Vacant' = {}, pc' \notin {"shift", "displace"},
         UNCHANGED <<slotMask, ctrl, slot, pending>>, old' = old \/ (old' = NoOld /\ pending = {})
  PROVE  TableInv' /\ UniqueKeys' /\ VacantInv' /\ HashesInv'
<1>1. TableInv'
  BY DEF TableInv, CtrlMirrorsSlots, EveryElementReachable, CtrlOf, ReachableAt
<1>2. Live(NoOld.slot) = {}
  BY DEF NoOld, Live
<1>3. UniqueKeys'
  BY <1>2 DEF UniqueKeys
<1>4. HashesInv'
  BY DEF HashesInv
<1> QED
  BY <1>1, <1>3, <1>4 DEF VacantInv

(* A walk begins at the home of its key, and no slot before it can hold the key. *)
LEMMA WalkBegins ==
  ASSUME TypeInv, TableInv, Vacant = {}, UNCHANGED <<slotMask, ctrl, slot>>,
         NEW k \in Key, probe' = StartProbe(k, slotMask)
  PROVE  WalkInv' /\ SearchInv'
<1> DEFINE h == Home(k, slotMask)
<1>1. slotMask \in Nat
  BY TableFacts
<1>2. h \in Nat
  BY <1>1, HomeRange
<1>3. probe' = [key |-> k, index |-> h, dist |-> 0]
  BY DEF StartProbe
<1>4. probe'.key = k /\ probe'.index = h /\ probe'.dist = 0 /\ Home(probe'.key, slotMask') = h
  BY <1>3
<1>5. \A j \in Live(slot') : slot'[j].key = k => j >= h
  BY <1>2, Resident DEF TableInv
<1> HIDE DEF h
<1>6. h = h + 0 /\ \A j \in h..(h - 1) : FALSE
  BY <1>2
<1>7. WalkInv'
  <2>1. Along(ctrl', slotMask', probe'.index, probe'.key)
    BY <1>4, <1>6 DEF Along
  <2> QED
    BY <1>4, <1>6, <2>1 DEF WalkInv
<1> QED
  BY <1>4, <1>5, <1>7 DEF SearchInv

(* The walk goes on over a byte that is no nearer to its home. *)
LEMMA WalkGoesOn ==
  ASSUME TypeInv, WalkInv, pc \in {"walk", "place"}, InChain(probe.dist, CtrlAt(probe.index)),
         UNCHANGED <<slotMask, ctrl, slot>>, probe' = Further
  PROVE  WalkInv'
<1> DEFINE h == Home(probe.key, slotMask)
           i == probe.index
           d == probe.dist
<1>1. /\ probe'.key = probe.key /\ probe'.index = i + 1 /\ probe'.dist = d + 1
      /\ Home(probe'.key, slotMask') = h
  BY DEF Further
<1>2. /\ i = h + d /\ i \in Nat /\ d \in Nat
      /\ \A j \in h..(i - 1) : j \in DOMAIN slot /\ ctrl[j].dist >= j - h
  BY DEF WalkInv, Along, TypeInv, StepInv, ControlOK
<1>3. probe.key \in Key /\ slotMask \in Nat
  <2>1. CASE pc = "walk"
    BY <2>1, TableFacts DEF TypeInv, StepInv, CallInv
  <2>2. CASE pc = "place"
    BY <2>2, NewElementType, TableFacts
  <2> QED
    BY <2>1, <2>2
<1>4. h \in Nat
  BY <1>3, HomeRange
<1>5. i \in DOMAIN slot /\ ctrl[i].dist >= d
  <2>1. CtrlAt(i).dist >= 0 /\ CtrlAt(i).dist >= d
    BY <1>2, TableFacts DEF InChain, CtrlWord
  <2>2. i \in DOMAIN ctrl
    BY <2>1, Words DEF CtrlAt
  <2> QED
    BY <2>1, <2>2, TableFacts DEF CtrlAt
<1> HIDE DEF h, i, d
<1>6. i + 1 = h + (d + 1) /\ \A j \in h..i : j \in DOMAIN slot /\ ctrl[j].dist >= j - h
  <2>1. i - h = d
    BY <1>2, <1>4
  <2> QED
    BY <1>2, <1>4, <1>5, <2>1
<1>7. /\ \A j \in Home(probe'.key, slotMask')..(probe'.index - 1) : j \in DOMAIN slot'
      /\ \A j \in Home(probe'.key, slotMask')..(probe'.index - 1) :
           ctrl'[j].dist >= j - Home(probe'.key, slotMask')
  <2>1. probe'.index - 1 = i
    BY <1>1, <1>2
  <2>2. ctrl' = ctrl /\ slot' = slot
    OBVIOUS
  <2> QED
    BY <1>1, <1>6, <2>1, <2>2, Zenon
<1>8. Along(ctrl', slotMask', probe'.index, probe'.key)
  BY <1>7 DEF Along
<1>9. probe'.index = Home(probe'.key, slotMask') + probe'.dist
  BY <1>1, <1>6
<1> QED
  BY <1>7, <1>8, <1>9 DEF WalkInv

(* A call begins. *)
LEMMA BeginSearch ==
  ASSUME TypeInv, TableInv, CourseInv, BeginKeyOp \/ BeginManagement
  PROVE  TableInv' /\ CourseInv'
<1>1. /\ pc = "idle" /\ pc' \in {"walk", "manage"}
      /\ UNCHANGED <<slotMask, ctrl, slot, old, pending, resume>>
      /\ pc' = "walk" => \E k \in Key : probe' = StartProbe(k, slotMask)
  <2>1. ASSUME NEW op, NEW k, NEW v, NEW n, NEW flag, Begin(op, k, v, n, flag), op \in KeyOps => k \in Key
        PROVE  /\ pc = "idle" /\ pc' \in {"walk", "manage"}
               /\ UNCHANGED <<slotMask, ctrl, slot, old, pending, resume>>
               /\ pc' = "walk" => \E x \in Key : probe' = StartProbe(x, slotMask)
    BY <2>1 DEF Begin, table, rehash
  <2>2. CASE BeginKeyOp
    BY <2>1, <2>2 DEF BeginKeyOp
  <2>3. CASE BeginManagement
    <3>1. {"clear", "rehash", "shrink_to_fit", "max_load_factor"} \cap KeyOps = {}
      BY DEF KeyOps, Insertions
    <3> QED
      BY <2>1, <2>3, <3>1 DEF BeginManagement
  <2> QED
    BY <2>2, <2>3
<1>2. Vacant = {} /\ Vacant' = {}
  BY <1>1 DEF Vacant
<1>3. TableInv' /\ UniqueKeys' /\ VacantInv' /\ HashesInv'
  BY <1>1, <1>2, TableStays DEF CourseInv
<1>4. WalkInv' /\ SearchInv'
  <2>1. CASE pc' = "walk"
    BY <1>1, <1>2, <2>1, WalkBegins
  <2>2. CASE pc' # "walk"
    BY <1>1, <2>2 DEF WalkInv, SearchInv
  <2> QED
    BY <2>1, <2>2
<1>5. AbsentInv'
  BY <1>1 DEF AbsentInv
<1> QED
  BY <1>3, <1>4, <1>5 DEF CourseInv

(* The walk passes an element that has another key. *)
LEMMA WalkNextSearch ==
  ASSUME TypeInv, TableInv, CourseInv, WalkNext
  PROVE  TableInv' /\ CourseInv'
<1>1. /\ pc = "walk" /\ pc' = "walk" /\ probe' = Further
      /\ UNCHANGED <<slotMask, ctrl, slot, old, pending, resume>>
      /\ InChain(probe.dist, CtrlAt(probe.index))
  BY DEF WalkNext, table, rehash
<1>2. Vacant = {} /\ Vacant' = {}
  BY <1>1 DEF Vacant
<1>3. TableInv' /\ UniqueKeys' /\ VacantInv' /\ HashesInv'
  BY <1>1, <1>2, TableStays DEF CourseInv
<1>4. WalkInv'
  BY <1>1, WalkGoesOn DEF CourseInv
<1>5. SearchInv'
  <2>1. probe'.key = probe.key /\ probe'.index = probe.index + 1 /\ probe.index \in Nat
    BY <1>1 DEF Further, TypeInv, StepInv, ControlOK
  <2> SUFFICES ASSUME NEW j \in Live(slot), slot[j].key = probe.key PROVE j >= probe.index + 1
    BY <1>1, <2>1 DEF SearchInv
  <2>2. j >= probe.index /\ j \in Nat /\ j \in DOMAIN slot
        /\ slot[j] # Raw /\ ctrl[j].hash = HashOf(probe.key)
    BY <1>1, <1>2, Resident DEF CourseInv, SearchInv, TableInv, Live
  <2>3. j # probe.index
    <3> SUFFICES ASSUME j = probe.index PROVE FALSE
      OBVIOUS
    <3>1. CtrlAt(probe.index) = ctrl[j] /\ Read(probe.index) = {slot[j]}
      BY <2>2, TableFacts DEF CtrlAt, Read
    <3>2. HashEquals
      BY <2>2, <3>1 DEF HashEquals
    <3> QED
      BY <3>1, <3>2 DEF WalkNext
  <2> QED
    BY <2>1, <2>2, <2>3
<1>6. AbsentInv'
  BY <1>1 DEF AbsentInv
<1> QED
  BY <1>3, <1>4, <1>5, <1>6 DEF CourseInv

(* The walk has ended. *)
LEMMA NotFoundSearch ==
  ASSUME TypeInv, TableInv, CourseInv, NotFound
  PROVE  TableInv' /\ CourseInv'
<1>1. /\ pc = "walk" /\ pc' \in {"room", "done"} /\ probe' = probe /\ call' = call
      /\ UNCHANGED <<slotMask, ctrl, slot, old, pending, resume>>
      /\ ~ InChain(probe.dist, CtrlAt(probe.index))
  <2>1. pc = "walk" /\ call.op \in KeyOps
    BY DEF NotFound, TypeInv, StepInv, CallInv
  <2>2. CASE call.op \in Insertions
    <3>1. pc' = "room"
      BY <2>2 DEF NotFound, Insertions
    <3> QED
      BY <2>1, <3>1 DEF NotFound, table, rehash
  <2>3. CASE call.op = "find"
    <3>1. pc' = "done"
      BY <2>3 DEF NotFound, Insertions, Done
    <3> QED
      BY <2>1, <3>1 DEF NotFound, table, rehash
  <2>4. CASE call.op = "erase"
    <3>1. pc' = "done"
      BY <2>4 DEF NotFound, Insertions, Done
    <3> QED
      BY <2>1, <3>1 DEF NotFound, table, rehash
  <2> QED
    BY <2>1, <2>2, <2>3, <2>4 DEF KeyOps
<1>2. Vacant = {} /\ Vacant' = {}
  BY <1>1 DEF Vacant
<1>3. TableInv' /\ UniqueKeys' /\ VacantInv' /\ HashesInv'
  BY <1>1, <1>2, TableStays DEF CourseInv
<1>4. WalkInv' /\ SearchInv'
  BY <1>1 DEF CourseInv, WalkInv, SearchInv, Along
<1>5. AbsentInv'
  <2>1. NotStored(call.key, slot)
    BY <1>1, WalkedIsAbsent DEF CourseInv, TypeInv, StepInv, CallInv
  <2> QED
    BY <1>1, <2>1 DEF AbsentInv, NotStored, Live
<1> QED
  BY <1>3, <1>4, <1>5 DEF CourseInv

(* Calls that return, and an insertion that has room. *)
LEMMA ReturnSearch ==
  ASSUME TypeInv, TableInv, CourseInv, ReturnFound \/ KeepExisting \/ HaveRoom \/ Return
  PROVE  TableInv' /\ CourseInv'
<1>1. /\ UNCHANGED <<slotMask, ctrl, slot, old, pending, resume>>
      /\ \/ pc \in {"walk", "done"} /\ pc' \in {"idle", "done"}
         \/ pc = "room" /\ pc' = "place" /\ probe' = probe /\ call' = call
  BY DEF ReturnFound, KeepExisting, HaveRoom, Return, Done, table, rehash, Looking
<1>2. Vacant = {} /\ Vacant' = {}
  BY <1>1 DEF Vacant
<1>3. TableInv' /\ UniqueKeys' /\ VacantInv' /\ HashesInv'
  BY <1>1, <1>2, TableStays DEF CourseInv
<1>4. WalkInv' /\ SearchInv'
  BY <1>1 DEF CourseInv, WalkInv, SearchInv, Along
<1>5. AbsentInv'
  <2>1. ASSUME pc = "room" PROVE NotStored(call.key, slot) /\ NotStored(call.key, old.slot)
    <3>1. ~ Moving /\ old = NoOld
      BY <2>1 DEF TypeInv, StepInv, RehashInv, Moving
    <3>2. Live(old.slot) = {}
      BY <3>1 DEF NoOld, Live
    <3> QED
      BY <2>1, <3>1, <3>2 DEF CourseInv, AbsentInv, NotStored
  <2> QED
    BY <1>1, <2>1 DEF AbsentInv, NotStored, Live
<1> QED
  BY <1>3, <1>4, <1>5 DEF CourseInv

(* An insertion walks on to the place where its key belongs. *)
LEMMA PlaceNextSearch ==
  ASSUME TypeInv, TableInv, CourseInv, PlaceNext
  PROVE  TableInv' /\ CourseInv'
<1>1. /\ pc = "place" /\ pc' = "place" /\ probe' = Further /\ call' = call
      /\ UNCHANGED <<slotMask, ctrl, slot, old, pending, resume>>
      /\ InChain(probe.dist, CtrlAt(probe.index))
  BY DEF PlaceNext, table, rehash
<1>2. Vacant = {} /\ Vacant' = {}
  BY <1>1 DEF Vacant
<1>3. TableInv' /\ UniqueKeys' /\ VacantInv' /\ HashesInv'
  BY <1>1, <1>2, TableStays DEF CourseInv
<1>4. WalkInv'
  BY <1>1, WalkGoesOn DEF CourseInv
<1>5. SearchInv' /\ AbsentInv'
  BY <1>1 DEF CourseInv, SearchInv, AbsentInv, NotStored, Live, Moving
<1> QED
  BY <1>3, <1>4, <1>5 DEF CourseInv

(* The next element of a rehash is looked for a place, or the call goes on after the last. *)
LEMMA RehashingSearch ==
  ASSUME TypeInv, TableInv, CourseInv, MoveNext \/ RehashDone
  PROVE  TableInv' /\ CourseInv'
<1>1. /\ pc = "rehash" /\ pending' = pending /\ UNCHANGED <<slotMask, ctrl, slot, call>>
      /\ \/ /\ MoveNext /\ Moving /\ pc' = "place" /\ old' = old /\ resume' = resume
            /\ probe' = StartProbe(old.slot[NextPending].key, slotMask)
         \/ /\ RehashDone /\ pending = {} /\ old' = NoOld /\ resume' = "done"
            /\ \/ pc' = "done"
               \/ /\ pc' = resume /\ resume \in {"place", "walk"}
                  /\ probe' = StartProbe(call.key, slotMask)
  BY DEF MoveNext, RehashDone, table, rehash, Moving, Done, TypeInv, StepInv, ControlOK
<1>2. Vacant = {} /\ Vacant' = {} /\ pc' \in {"place", "done", "walk"}
  BY <1>1 DEF Vacant
<1>3. TableInv' /\ UniqueKeys' /\ VacantInv' /\ HashesInv'
  BY <1>1, <1>2, TableStays DEF CourseInv
<1>4. WalkInv' /\ SearchInv'
  <2>1. CASE pc' = "done"
    BY <2>1 DEF WalkInv, SearchInv
  <2>2. CASE pc' # "done"
    <3>1. ASSUME MoveNext, Moving PROVE old.slot[NextPending].key \in Key
      BY <3>1, NextPendingIn DEF Moving, TypeInv, StepInv, RehashInv, Live, Element
    <3>2. ASSUME resume \in {"place", "walk"} PROVE call.key \in Key
      BY <1>1, <3>2 DEF TypeInv, StepInv, CallInv, KeyOps
    <3>3. \E k \in Key : probe' = StartProbe(k, slotMask)
      BY <1>1, <2>2, <3>1, <3>2
    <3> QED
      BY <1>1, <1>2, <3>3, WalkBegins
  <2> QED
    BY <2>1, <2>2
<1>5. AbsentInv'
  BY <1>1 DEF CourseInv, AbsentInv, NotStored, Live, Moving
<1> QED
  BY <1>3, <1>4, <1>5 DEF CourseInv

-----------------------------------------------------------------------------
(* New tables *)

(* A table without elements is searchable. *)
LEMMA FreshSearch ==
  ASSUME NEW capacity \in Nat, NEW lookups \in Nat, pc' \in {"idle", "rehash", "done"},
         ctrl' = FreshCtrl(capacity, lookups), slot' = AllRaw(capacity, lookups)
  PROVE  /\ Live(slot') = {} /\ TableInv' /\ WalkInv' /\ SearchInv' /\ VacantInv'
         /\ \A i \in Live(slot') \ Vacant' : ctrl'[i].hash = HashOf(slot'[i].key)
<1>1. Live(slot') = {}
  BY FreshTable
<1>2. DOMAIN ctrl' = DOMAIN slot' /\ \A i \in DOMAIN slot' : ~ IsUsed(ctrl'[i])
  <2>1. capacity + lookups \in Nat /\ capacity + lookups <= capacity + lookups
    OBVIOUS
  <2> QED
    BY <2>1, FreshForm, FreshTable
<1>3. \A i \in DOMAIN slot' : slot'[i] = Raw
  BY <1>1 DEF Live
<1>4. CtrlMirrorsSlots'
  BY <1>1, <1>2, <1>3 DEF CtrlMirrorsSlots
<1>5. EveryElementReachable'
  BY <1>1 DEF EveryElementReachable
<1>6. WalkInv' /\ SearchInv' /\ VacantInv'
  BY DEF WalkInv, SearchInv, VacantInv
<1> QED
  BY <1>1, <1>4, <1>5, <1>6 DEF TableInv

(* The constructor makes one. *)
LEMMA InitSearch == Init => SearchableInv
<1> SUFFICES ASSUME Init PROVE SearchableInv
  OBVIOUS
<1>1. PICK capacity, lookups : ctrl = FreshCtrl(capacity, lookups) /\ slot = AllRaw(capacity, lookups)
  BY DEF Init
<1>2. pc = "idle" /\ old = NoOld /\ pending = {}
  BY DEF Init
<1>3. TypeInv
  BY InitType
<1>4. Live(slot) = {} /\ Live(old.slot) = {} /\ Vacant = {}
  BY <1>1, <1>2 DEF Live, NoOld, AllRaw, Vacant
<1>5. \A i \in DOMAIN slot : ~ IsUsed(ctrl[i])
  BY <1>3, <1>4 DEF TypeInv, FormInv, OccupiedInv, Live
<1>6. TableInv
  <2>1. CtrlMirrorsSlots
    BY <1>2, <1>3, <1>4, <1>5, TableFacts DEF CtrlMirrorsSlots, Live
  <2>2. EveryElementReachable
    BY <1>2, <1>4 DEF EveryElementReachable
  <2> QED
    BY <2>1, <2>2 DEF TableInv
<1>7. UniqueKeys /\ HashesInv
  BY <1>2, <1>4 DEF UniqueKeys, HashesInv
<1>8. WalkInv /\ SearchInv /\ AbsentInv /\ VacantInv
  BY <1>2 DEF WalkInv, SearchInv, AbsentInv, VacantInv
<1> QED
  BY <1>6, <1>7, <1>8 DEF SearchableInv, CourseInv

(* clear() leaves nothing to search for. *)
LEMMA ClearSearch ==
  ASSUME TypeInv, Clear
  PROVE  TableInv' /\ CourseInv'
<1>1. /\ pc = "manage" /\ pc' = "done" /\ UNCHANGED <<old, pending>>
      /\ Destroy \/ ClearData
  BY DEF Clear, Managing, Done, rehash
<1>2. SlotCapacity \in Nat /\ maxLookups \in Nat /\ MinLookups \in Nat
  BY LookupAssumption DEF SlotCapacity, TypeInv, FormInv, TableOK
<1>3. PICK capacity \in Nat, lookups \in Nat :
        ctrl' = FreshCtrl(capacity, lookups) /\ slot' = AllRaw(capacity, lookups)
  BY <1>1, <1>2 DEF Destroy, ClearData
<1>4. /\ Live(slot') = {} /\ TableInv' /\ WalkInv' /\ SearchInv' /\ VacantInv'
      /\ \A i \in Live(slot') \ Vacant' : ctrl'[i].hash = HashOf(slot'[i].key)
  BY <1>1, <1>3, FreshSearch
<1>5. pending = {} /\ old = NoOld
  BY <1>1 DEF TypeInv, StepInv, RehashInv
<1>6. Live(old'.slot) = {} /\ pending' = {}
  BY <1>1, <1>5 DEF Live, NoOld
<1>7. UniqueKeys' /\ HashesInv' /\ AbsentInv'
  BY <1>1, <1>4, <1>6 DEF UniqueKeys, HashesInv, AbsentInv
<1> QED
  BY <1>4, <1>7 DEF CourseInv

(* A new table takes the place of the old one, or the table stays because the allocation threw. *)
LEMMA ResizeSearch ==
  ASSUME TypeInv, SearchableInv, ~ strayed', NEW capacity \in Nat, NEW m, NEW after, Resize(capacity, m, after),
         pc \in {"manage", "room", "retry"}, after = "place" => pc = "room"
  PROVE  TableInv' /\ CourseInv'
<1>1. pending = {} /\ old = NoOld /\ Vacant = {} /\ call' = call
  BY DEF TypeInv, StepInv, RehashInv, Vacant, Resize
<1>2. CASE CreateSlots(capacity, m, after)
  <2> DEFINE used == {i \in OldIndexes \cap DOMAIN ctrl : slotMask # 0 /\ IsUsed(ctrl[i])}
  <2>1. /\ ctrl' = FreshCtrl(capacity, Lookups(capacity)) /\ slot' = AllRaw(capacity, Lookups(capacity))
        /\ old' = [ctrl |-> ctrl, slot |-> slot, capacity |-> SlotCapacity]
        /\ pending' = used /\ resume' = after /\ pc' = "rehash" /\ strayed' = strayed
    BY <1>2 DEF CreateSlots
  <2>2. Lookups(capacity) \in Nat
    BY LookupsGrow
  <2>3. UniqueKeys /\ HashesInv /\ AbsentInv
    BY <2>1 DEF SearchableInv, CourseInv
  <2>4. /\ Live(slot') = {} /\ TableInv' /\ WalkInv' /\ SearchInv' /\ VacantInv'
        /\ \A i \in Live(slot') \ Vacant' : ctrl'[i].hash = HashOf(slot'[i].key)
    BY <2>1, <2>2, FreshSearch
  <2>5. old'.slot = slot /\ old'.ctrl = ctrl
    BY <2>1
  <2>6. UniqueKeys'
    BY <2>3, <2>4, <2>5 DEF UniqueKeys
  <2>7. HashesInv'
    <3>1. used \subseteq Live(slot)
      BY <1>1, TableFacts DEF TypeInv, FormInv, OccupiedInv, Live
    <3> QED
      BY <1>1, <2>1, <2>3, <2>4, <2>5, <3>1 DEF HashesInv
  <2>8. AbsentInv'
    <3>1. after = "place" => NotStored(call.key, slot)
      BY <1>1, <2>3 DEF AbsentInv, Moving
    <3>2. NotStored(call.key, slot')
      BY <2>4 DEF NotStored
    <3> QED
      BY <1>1, <2>1, <2>5, <3>1, <3>2 DEF AbsentInv
  <2> QED
    BY <2>4, <2>6, <2>7, <2>8 DEF CourseInv
<1>3. CASE AllocationThrows(capacity)
  <2>1. /\ pc' = "done" /\ pc # "retry" /\ ~ strayed
        /\ UNCHANGED <<slotMask, ctrl, slot, old, pending>>
    BY <1>3 DEF AllocationThrows, Done, rehash, TypeInv, StepInv, ControlOK
  <2>2. Vacant' = {} /\ TableInv /\ CourseInv
    BY <2>1 DEF SearchableInv, Vacant
  <2>3. TableInv' /\ UniqueKeys' /\ VacantInv' /\ HashesInv'
    BY <1>1, <2>1, <2>2, TableStays DEF CourseInv
  <2>4. WalkInv' /\ SearchInv' /\ AbsentInv'
    BY <2>1 DEF WalkInv, SearchInv, AbsentInv
  <2> QED
    BY <2>3, <2>4 DEF CourseInv
<1> QED
  BY <1>2, <1>3 DEF Resize

(* What clear(), rehash(), shrink_to_fit() and max_load_factor() come to. *)
LEMMA ManageCases ==
  ASSUME TypeInv, Manage
  PROVE  \/ Clear
         \/ /\ pc = "manage"
            /\ \E n \in Int, m \in LoadFactors : Resize(CalcCapacity(n), m, "done")
         \/ pc = "manage" /\ Done("ok") /\ UNCHANGED <<table, call, probe, hand, strayed, rehash>>
<1> USE DEF TypeInv, StepInv
<1>1. mlf \in LoadFactors /\ slotSize \in Int
  BY DEF FormInv, TableOK
<1>2. ASSUME NEW n \in Int, NEW m \in LoadFactors, RehashImpl(n, m)
      PROVE  \/ \E x \in Int, y \in LoadFactors : Resize(CalcCapacity(x), y, "done")
             \/ Done("ok") /\ UNCHANGED <<table, call, probe, hand, strayed, rehash>>
  BY <1>2 DEF RehashImpl
<1>3. CASE Rehash
  <2> DEFINE a == IF call.arg.flag THEN call.arg.n ELSE MinRequireCapacity(call.arg.n, mlf)
             n == AtLeast(a, slotSize)
  <2>1. n \in Int
    <3>1. call.arg.n \in Nat /\ call.arg.n \in Int
      BY DEF CallInv
    <3>2. MinRequireCapacity(call.arg.n, mlf) \in Int
      BY <1>1, <3>1, ShareRange
    <3>3. a \in Int
      BY <3>1, <3>2
    <3> HIDE DEF a
    <3> QED
      BY <1>1, <3>3 DEF AtLeast
  <2>2. pc = "manage" /\ RehashImpl(n, mlf)
    BY <1>3 DEF Rehash, Managing
  <2> HIDE DEF n
  <2> QED
    BY <1>1, <1>2, <2>1, <2>2
<1>4. CASE ShrinkToFit
  <2> DEFINE n == IF call.arg.flag THEN slotSize ELSE MinRequireCapacity(slotSize, mlf)
  <2>1. n \in Int
    BY <1>1, ShareRange
  <2>2. pc = "manage" /\ RehashImpl(n, mlf)
    BY <1>4 DEF ShrinkToFit, Managing
  <2> HIDE DEF n
  <2> QED
    BY <1>1, <1>2, <2>1, <2>2
<1>5. CASE MaxLoadFactor
  <2> DEFINE m == call.arg.n
             r == MinRequireCapacity(slotSize, m)
             n == AtLeast(r, slotSize)
  <2>1. m \in LoadFactors /\ pc = "manage"
    BY <1>5 DEF MaxLoadFactor, Managing, CallInv
  <2>2. n \in Int
    <3>1. r \in Int
      BY <1>1, <2>1, ShareRange
    <3> HIDE DEF r
    <3> QED
      BY <1>1, <3>1 DEF AtLeast
  <2>3. \/ RehashImpl(n, m)
        \/ Done("ok") /\ UNCHANGED <<table, call, probe, hand, strayed, rehash>>
    BY <1>5 DEF MaxLoadFactor
  <2> HIDE DEF m, n
  <2> QED
    BY <1>2, <2>1, <2>2, <2>3
<1> QED
  BY <1>3, <1>4, <1>5 DEF Manage

(* All of them keep the table searchable. *)
LEMMA ManageSearch ==
  ASSUME TypeInv, SearchableInv, ~ strayed', Manage
  PROVE  TableInv' /\ CourseInv'
<1>1. CASE Clear
  BY <1>1, ClearSearch
<1>2. CASE pc = "manage" /\ \E n \in Int, m \in LoadFactors : Resize(CalcCapacity(n), m, "done")
  BY <1>2, CapacityRange, ResizeSearch
<1>3. CASE pc = "manage" /\ Done("ok") /\ UNCHANGED <<table, call, probe, hand, strayed, rehash>>
  <2>1. /\ UNCHANGED <<slotMask, ctrl, slot, old, pending>> /\ Vacant = {} /\ Vacant' = {}
        /\ TableInv /\ CourseInv
    BY <1>3 DEF table, rehash, Vacant, SearchableInv, Done
  <2>2. TableInv' /\ UniqueKeys' /\ VacantInv' /\ HashesInv'
    BY <1>3, <2>1, TableStays DEF CourseInv, Done
  <2>3. WalkInv' /\ SearchInv' /\ AbsentInv'
    BY <1>3 DEF WalkInv, SearchInv, AbsentInv, Done
  <2> QED
    BY <2>2, <2>3 DEF CourseInv
<1> QED
  BY <1>1, <1>2, <1>3, ManageCases

(* A growth before an insertion, or after one that gave up. *)
LEMMA GrowSearch ==
  ASSUME TypeInv, SearchableInv, ~ strayed', Grow \/ Retry
  PROVE  TableInv' /\ CourseInv'
<1>1. TwiceTheSize \in Int
  BY DEF TypeInv, FormInv, TableOK, TwiceTheSize
<1>2. CalcCapacity(TwiceTheSize) \in Nat
  BY <1>1, CapacityRange
<1>3. \/ pc = "room" /\ Resize(CalcCapacity(TwiceTheSize), mlf, "place")
      \/ pc = "retry" /\ Resize(CalcCapacity(TwiceTheSize), mlf, "walk")
  BY DEF Grow, Retry, GrowThen
<1> QED
  BY <1>2, <1>3, ResizeSearch

-----------------------------------------------------------------------------
(* Assignment and erasure *)

(* The hashes in a table whose bytes mirror its slots. *)
LEMMA HashesMirrored ==
  ASSUME CtrlMirrorsSlots'
  PROVE  \A i \in Live(slot') \ Vacant' : ctrl'[i].hash = HashOf(slot'[i].key)
<1>1. \A d, h : Ctrl(d, h).hash = h
  BY DEF Ctrl
<1>2. \A i \in Live(slot') \ Vacant' :
        ctrl'[i] = Ctrl(i - Home(slot'[i].key, slotMask'), HashOf(slot'[i].key))
  BY DEF CtrlMirrorsSlots, CtrlOf
<1> QED
  BY <1>1, <1>2

(* What a search has found is the element in the slot it has come to. *)
LEMMA Found ==
  ASSUME TypeInv, TableInv, NEW op, Looking(op), NEW e \in Hits
  PROVE  /\ pc = "walk" /\ Vacant = {} /\ probe.index \in Nat /\ probe.index \in Live(slot)
         /\ e = slot[probe.index] /\ e \in Element /\ e.key = probe.key
<1>1. pc = "walk" /\ Vacant = {} /\ InChain(probe.dist, CtrlAt(probe.index)) /\ probe.dist \in Nat
      /\ probe.index \in Nat
  BY DEF Looking, Vacant, TypeInv, StepInv, ControlOK
<1>2. CtrlAt(probe.index) \in CtrlWord /\ CtrlAt(probe.index).dist >= 0
  BY <1>1, TableFacts DEF InChain, CtrlWord
<1>3. probe.index \in DOMAIN ctrl /\ IsUsed(ctrl[probe.index])
  BY <1>2, Words DEF CtrlAt, IsUsed
<1>4. probe.index \in DOMAIN slot /\ slot[probe.index] # Raw
  BY <1>1, <1>3, TableFacts DEF TableInv, CtrlMirrorsSlots
<1>5. Read(probe.index) = {slot[probe.index]}
  BY <1>4 DEF Read
<1> QED
  BY <1>1, <1>4, <1>5, TableFacts DEF Hits, Live

(* insert_or_assign() gives an element another value. *)
LEMMA AssignSearch ==
  ASSUME TypeInv, TableInv, CourseInv, AssignExisting
  PROVE  TableInv' /\ CourseInv'
<1> DEFINE i == probe.index
<1>1. PICK e \in Hits :
        /\ slot' = [slot EXCEPT ![i] = [key |-> e.key, val |-> call.val]]
        /\ pc' = "done" /\ UNCHANGED <<slotMask, ctrl, old, pending>>
  BY DEF AssignExisting, Done, rehash
<1>2. Looking("insert_or_assign")
  BY DEF AssignExisting
<1>3. pc = "walk" /\ Vacant = {} /\ i \in Live(slot) /\ e = slot[i] /\ e \in Element
  BY <1>1, <1>2, Found
<1>4. Vacant' = {}
  BY <1>1 DEF Vacant
<1> DEFINE n == [key |-> e.key, val |-> call.val]
<1>5. n # Raw
  <2>1. call.val \in Value
    BY <1>2, <1>3 DEF Looking, TypeInv, StepInv, CallInv, Insertions
  <2>2. n \in Element
    BY <1>3, <2>1 DEF Element
  <2> QED
    BY <2>2, KeyAssumption DEF Element
<1>6. n.key = slot[i].key
  BY <1>3
<1> HIDE DEF n, i
<1>7. /\ DOMAIN slot' = DOMAIN slot /\ Live(slot') = Live(slot)
      /\ \A x \in Live(slot') : slot'[x].key = slot[x].key
  <2>1. slot' = [slot EXCEPT ![i] = n]
    BY <1>1 DEF n
  <2> QED
    BY <1>3, <1>5, <1>6, <2>1 DEF Live
<1>8. CtrlMirrorsSlots'
  <2>1. \A x \in DOMAIN ctrl' \ Vacant' : IsUsed(ctrl'[x]) <=> slot'[x] # Raw
    <3>1. \A x \in DOMAIN slot : slot'[x] # Raw <=> slot[x] # Raw
      BY <1>7 DEF Live
    <3> QED
      BY <1>1, <1>3, <3>1, TableFacts DEF TableInv, CtrlMirrorsSlots
  <2>2. \A x \in Live(slot') \ Vacant' : ctrl'[x] = Ctrl(x - Home(slot'[x].key, slotMask'), HashOf(slot'[x].key))
    BY <1>1, <1>3, <1>7 DEF TableInv, CtrlMirrorsSlots, CtrlOf
  <2> QED
    BY <1>1, <2>1, <2>2 DEF CtrlMirrorsSlots, CtrlOf
<1>9. EveryElementReachable'
  BY <1>1, <1>3, <1>4, <1>7 DEF TableInv, EveryElementReachable, ReachableAt
<1>10. UniqueKeys'
  <2> DEFINE f == [x \in Live(slot) |-> x]
  <2>1. \A x \in Live(slot') : f[x] = x /\ f[x] \in Live(slot) /\ slot'[x].key = slot[f[x]].key
    BY <1>7
  <2>2. old'.slot = old.slot
    BY <1>1
  <2> HIDE DEF f
  <2>3. \A x, y \in Live(slot') : f[x] = f[y] => x = y
    BY <2>1
  <2> QED
    BY <2>1, <2>2, <2>3, KeysMoved DEF CourseInv
<1>11. HashesInv'
  BY <1>1, <1>8, HashesMirrored DEF CourseInv, HashesInv
<1>12. WalkInv' /\ SearchInv' /\ AbsentInv' /\ VacantInv'
  BY <1>1 DEF WalkInv, SearchInv, AbsentInv, VacantInv
<1> QED
  BY <1>8, <1>9, <1>10, <1>11, <1>12 DEF TableInv, CourseInv

(* An erasure empties the slot it has found. *)
LEMMA EraseSearch ==
  ASSUME TypeInv, TableInv, CourseInv, EraseFound
  PROVE  TableInv' /\ CourseInv'
<1> DEFINE i == probe.index
<1>1. PICK e \in Hits :
        /\ slot' = [slot EXCEPT ![i] = Raw]
        /\ pc' = "shift" /\ UNCHANGED <<slotMask, ctrl, old, pending, probe>>
  BY DEF EraseFound, rehash
<1>2. pc = "walk" /\ Vacant = {} /\ i \in Live(slot)
  BY <1>1, Found DEF EraseFound
<1>3. Vacant' = {i}
  BY <1>1 DEF Vacant
<1>4. /\ DOMAIN slot' = DOMAIN slot /\ Live(slot') = Live(slot) \ {i} /\ slot'[i] = Raw
      /\ \A x \in DOMAIN slot : x # i => slot'[x] = slot[x]
  BY <1>1, <1>2 DEF Live
<1> HIDE DEF i
<1>5. CtrlMirrorsSlots'
  <2>1. \A x \in DOMAIN ctrl' \ Vacant' : IsUsed(ctrl'[x]) <=> slot'[x] # Raw
    BY <1>1, <1>2, <1>3, <1>4, TableFacts DEF TableInv, CtrlMirrorsSlots
  <2>2. \A x \in Live(slot') \ Vacant' : ctrl'[x] = Ctrl(x - Home(slot'[x].key, slotMask'), HashOf(slot'[x].key))
    BY <1>1, <1>2, <1>4 DEF TableInv, CtrlMirrorsSlots, CtrlOf, Live
  <2> QED
    BY <1>1, <2>1, <2>2 DEF CtrlMirrorsSlots, CtrlOf
<1>6. EveryElementReachable'
  BY <1>1, <1>2, <1>4 DEF TableInv, EveryElementReachable, ReachableAt, Live
<1>7. UniqueKeys'
  <2> DEFINE f == [x \in Live(slot) |-> x]
  <2>1. \A x \in Live(slot') : f[x] = x /\ f[x] \in Live(slot) /\ slot'[x].key = slot[f[x]].key
    BY <1>4 DEF Live
  <2>2. old'.slot = old.slot
    BY <1>1
  <2> HIDE DEF f
  <2>3. \A x, y \in Live(slot') : f[x] = f[y] => x = y
    BY <2>1
  <2> QED
    BY <2>1, <2>2, <2>3, KeysMoved DEF CourseInv
<1>8. HashesInv'
  BY <1>1, <1>5, HashesMirrored DEF CourseInv, HashesInv
<1>9. WalkInv' /\ SearchInv' /\ AbsentInv' /\ VacantInv'
  BY <1>1, <1>4 DEF WalkInv, SearchInv, AbsentInv, VacantInv, i
<1> QED
  BY <1>5, <1>6, <1>7, <1>8, <1>9 DEF TableInv, CourseInv

(***************************************************************************)
(* The next element of the chain moves one slot back: its byte is one      *)
(* less, and a search that passed its slot passes the one before it.       *)
(***************************************************************************)
LEMMA ShiftNextSearch ==
  ASSUME TypeInv, TableInv, CourseInv, ShiftNext
  PROVE  TableInv' /\ CourseInv'
<1> DEFINE i == probe.index
           n == i + 1
           c == ctrl[n]
<1>1. /\ pc = "shift" /\ pc' = "shift" /\ Vacant = {i} /\ i \in Nat /\ i \in DOMAIN slot /\ slot[i] = Raw
      /\ NotAtHome(CtrlAt(n))
  BY DEF ShiftNext, NextCtrl, Vacant, TypeInv, StepInv, ControlOK, HandInv, CourseInv, VacantInv
<1>2. n \in Nat /\ n # i /\ n \in DOMAIN slot /\ CtrlAt(n) = c /\ c \in CtrlWord /\ c.dist > 0
  <2>1. n \in Nat /\ n # i
    BY <1>1
  <2>2. CtrlAt(n).dist > 0
    BY <1>1 DEF NotAtHome
  <2>3. n \in DOMAIN ctrl
    BY <2>2, Words DEF CtrlAt
  <2> QED
    BY <2>1, <2>2, <2>3, TableFacts DEF CtrlAt
<1>3. n \in Live(slot) \ Vacant
  <2>1. IsUsed(c) /\ n \in DOMAIN ctrl \ Vacant
    BY <1>1, <1>2, TableFacts DEF IsUsed, CtrlWord
  <2> QED
    BY <1>2, <2>1 DEF TableInv, CtrlMirrorsSlots, Live
<1> DEFINE h == Home(slot[n].key, slotMask)
<1>4. slot[n] # Raw /\ slot[n] \in Element /\ h \in Nat /\ c.dist = n - h /\ c.hash = HashOf(slot[n].key)
  BY <1>3, Resident DEF TableInv, Live
<1>5. Read(n) = {slot[n]}
  BY <1>2, <1>4 DEF Read
<1>6. /\ ctrl' = [ctrl EXCEPT ![i] = DecDist(c)]
      /\ slot' = [slot EXCEPT ![i] = slot[n], ![n] = Raw]
      /\ probe' = [probe EXCEPT !.index = n]
      /\ UNCHANGED <<slotMask, old, pending, resume, call>>
  BY <1>1, <1>2, <1>5 DEF ShiftNext, NextCtrl, NextHole, rehash
<1>7. probe'.index = n /\ Vacant' = {n}
  <2>1. probe'.index = n
    BY <1>6 DEF TypeInv, StepInv, ControlOK
  <2> QED
    BY <1>1, <2>1 DEF Vacant
<1>8. DecDist(c) = Ctrl(i - h, HashOf(slot[n].key)) /\ i - h >= 0 /\ DecDist(c).dist = c.dist - 1
  <2>1. c.dist - 1 = i - h /\ i - h >= 0
    BY <1>1, <1>2, <1>4
  <2> QED
    BY <1>2, <1>4, <2>1, Words DEF DecDist
<1> HIDE DEF h, c
<1>9. n = i + 1
  OBVIOUS
<1> HIDE DEF n, i
<1>10. DOMAIN ctrl = DOMAIN slot /\ DOMAIN slot \subseteq Nat
  BY TableFacts
<1>11. /\ DOMAIN slot' = DOMAIN slot /\ DOMAIN ctrl' = DOMAIN ctrl
       /\ slot'[i] = slot[n] /\ slot'[n] = Raw /\ ctrl'[i] = DecDist(c)
       /\ \A x \in DOMAIN slot : x # i /\ x # n => slot'[x] = slot[x]
       /\ \A x \in DOMAIN slot : x # i => ctrl'[x] = ctrl[x]
  BY <1>1, <1>2, <1>6, <1>10
<1>12. \A x \in Live(slot') : x \in DOMAIN slot /\ x # n /\ (x # i => x \in Live(slot) \ Vacant /\ slot'[x] = slot[x])
  BY <1>1, <1>11 DEF Live
<1>13. CtrlMirrorsSlots'
  <2>1. \A x \in DOMAIN ctrl' \ Vacant' : IsUsed(ctrl'[x]) <=> slot'[x] # Raw
    <3>1. IsUsed(ctrl'[i]) /\ slot'[i] # Raw
      BY <1>4, <1>8, <1>11 DEF IsUsed, Ctrl
    <3>2. \A x \in DOMAIN ctrl \ {i, n} : IsUsed(ctrl[x]) <=> slot[x] # Raw
      BY <1>1 DEF TableInv, CtrlMirrorsSlots
    <3> QED
      BY <1>7, <1>10, <1>11, <3>1, <3>2
  <2>2. \A x \in Live(slot') \ Vacant' : ctrl'[x] = Ctrl(x - Home(slot'[x].key, slotMask'), HashOf(slot'[x].key))
    <3> SUFFICES ASSUME NEW x \in Live(slot')
                 PROVE  ctrl'[x] = Ctrl(x - Home(slot'[x].key, slotMask), HashOf(slot'[x].key))
      BY <1>6
    <3>1. CASE x = i
      BY <1>8, <1>11, <3>1 DEF h
    <3>2. CASE x # i
      BY <1>11, <1>12, <3>2 DEF TableInv, CtrlMirrorsSlots, CtrlOf
    <3> QED
      BY <3>1, <3>2
  <2> QED
    BY <1>1, <2>1, <2>2 DEF CtrlMirrorsSlots, CtrlOf
<1>14. EveryElementReachable'
  <2> SUFFICES ASSUME NEW x \in Live(slot'), NEW j \in Home(slot'[x].key, slotMask)..(x - 1)
               PROVE  ctrl'[j].dist >= j - Home(slot'[x].key, slotMask)
    BY <1>1, <1>6 DEF EveryElementReachable, ReachableAt
  <2> DEFINE o == IF x = i THEN n ELSE x
             g == Home(slot'[x].key, slotMask)
  <2>1. o \in Live(slot) \ Vacant /\ o \in DOMAIN slot /\ o \in Nat /\ slot'[x] = slot[o] /\ x \in Nat
        /\ x \in DOMAIN slot
    BY <1>3, <1>10, <1>11, <1>12 DEF Live
  <2>2. g \in Nat
    BY <2>1, Resident DEF TableInv
  <2>3. \A y \in g..(o - 1) : ctrl[y].dist >= y - g
    BY <2>1 DEF TableInv, EveryElementReachable, ReachableAt
  <2>4. /\ \A y \in g..(o - 1) : y \in DOMAIN slot /\ ctrl[y].dist \in Int
    <3>1. \A y \in g..(o - 1) : y \in DOMAIN slot
      BY <2>1, <2>2, TableFacts
    <3> QED
      BY <3>1, TableFacts DEF CtrlWord
  <2>5. j \in Int /\ g <= j /\ j <= x - 1
    BY <2>1, <2>2
  <2>6. x <= o
    BY <1>1, <1>9, <2>1
  <2>7. o # i
    BY <1>1, <2>1
  <2> HIDE DEF g, o
  <2>8. CASE j # i
    <3>1. j \in g..(o - 1)
      BY <2>1, <2>2, <2>5, <2>6
    <3>2. ctrl'[j] = ctrl[j]
      BY <1>11, <2>4, <2>8, <3>1
    <3> QED
      BY <2>3, <3>1, <3>2 DEF g
  <2>9. CASE j = i
    <3>1. x # i /\ x # n
      BY <1>1, <1>12, <2>1, <2>5, <2>9
    <3>2. o = x
      BY <3>1 DEF o
    <3>3. n \in g..(o - 1)
      BY <1>1, <1>9, <2>1, <2>2, <2>5, <2>9, <3>1, <3>2
    <3>4. c.dist >= n - g /\ c.dist \in Int
      BY <2>3, <2>4, <3>3 DEF c
    <3>5. ctrl'[j].dist = c.dist - 1
      BY <1>8, <1>11, <2>9
    <3>6. ctrl'[j].dist >= j - g
      BY <1>1, <1>9, <2>2, <2>9, <3>4, <3>5
    <3> QED
      BY <3>6 DEF g
  <2> QED
    BY <2>8, <2>9
<1>15. UniqueKeys'
  <2> DEFINE f == [x \in DOMAIN slot |-> IF x = i THEN n ELSE x]
  <2>1. \A x \in Live(slot') : f[x] \in Live(slot) /\ slot'[x].key = slot[f[x]].key
    BY <1>3, <1>11, <1>12
  <2>2. \A x, y \in Live(slot') : f[x] = f[y] => x = y
    BY <1>12
  <2>3. old'.slot = old.slot
    BY <1>6
  <2> HIDE DEF f
  <2> QED
    BY <2>1, <2>2, <2>3, KeysMoved DEF CourseInv
<1>16. HashesInv'
  BY <1>6, <1>13, HashesMirrored DEF CourseInv, HashesInv
<1>17. WalkInv' /\ SearchInv' /\ AbsentInv' /\ VacantInv'
  BY <1>1, <1>7, <1>11 DEF WalkInv, SearchInv, AbsentInv, VacantInv
<1> QED
  BY <1>13, <1>14, <1>15, <1>16, <1>17 DEF TableInv, CourseInv

(***************************************************************************)
(* The last slot of the chain becomes empty: every element behind it is at *)
(* home or behind it, or else the byte after it would tell a distance.     *)
(***************************************************************************)
LEMMA ShiftDoneSearch ==
  ASSUME TypeInv, TableInv, CourseInv, ShiftDone
  PROVE  TableInv' /\ CourseInv'
<1> DEFINE i == probe.index
<1>1. /\ pc = "shift" /\ pc' = "done" /\ Vacant = {i} /\ Vacant' = {} /\ i \in Nat /\ i \in DOMAIN slot
      /\ slot[i] = Raw /\ ~ NotAtHome(CtrlAt(i + 1)) /\ ctrl' = [ctrl EXCEPT ![i] = Empty]
      /\ UNCHANGED <<slotMask, slot, old, pending>>
  BY DEF ShiftDone, NextCtrl, Vacant, TypeInv, StepInv, ControlOK, HandInv, CourseInv, VacantInv, rehash
<1>2. DOMAIN ctrl = DOMAIN slot /\ DOMAIN slot \subseteq Nat
  BY TableFacts
<1>3. /\ DOMAIN ctrl' = DOMAIN slot /\ ctrl'[i] = Empty
      /\ \A x \in DOMAIN slot : x # i => ctrl'[x] = ctrl[x]
  BY <1>1, <1>2
<1>4. \A x \in Live(slot) : x # i /\ x \in DOMAIN slot /\ x \in Live(slot) \ Vacant
  BY <1>1 DEF Live
<1> HIDE DEF i
<1>5. CtrlMirrorsSlots'
  <2>1. \A x \in DOMAIN ctrl' \ Vacant' : IsUsed(ctrl'[x]) <=> slot'[x] # Raw
    <3>1. \A x \in DOMAIN ctrl \ {i} : IsUsed(ctrl[x]) <=> slot[x] # Raw
      BY <1>1 DEF TableInv, CtrlMirrorsSlots
    <3> QED
      BY <1>1, <1>2, <1>3, <3>1, Words
  <2>2. \A x \in Live(slot') \ Vacant' : ctrl'[x] = Ctrl(x - Home(slot'[x].key, slotMask'), HashOf(slot'[x].key))
    BY <1>1, <1>3, <1>4 DEF TableInv, CtrlMirrorsSlots, CtrlOf
  <2> QED
    BY <1>1, <2>1, <2>2 DEF CtrlMirrorsSlots, CtrlOf
<1>6. EveryElementReachable'
  <2> SUFFICES ASSUME NEW x \in Live(slot), NEW j \in Home(slot[x].key, slotMask)..(x - 1)
               PROVE  ctrl'[j].dist >= j - Home(slot[x].key, slotMask)
    BY <1>1 DEF EveryElementReachable, ReachableAt
  <2> DEFINE g == Home(slot[x].key, slotMask)
  <2>1. /\ x \in Live(slot) \ Vacant /\ x \in DOMAIN slot /\ x \in Nat /\ g \in Nat
        /\ ctrl[x].dist = x - g
    BY <1>4, Resident DEF TableInv
  <2>2. \A y \in g..(x - 1) : ctrl[y].dist >= y - g
    BY <1>4 DEF TableInv, EveryElementReachable, ReachableAt
  <2>3. j \in Int /\ g <= j /\ j <= x - 1
    BY <2>1
  <2> HIDE DEF g
  <2>4. j # i
    <3> SUFFICES ASSUME j = i PROVE FALSE
      OBVIOUS
    <3> DEFINE n == i + 1
    <3>1. n \in Nat /\ n - g \in Int /\ n - g >= 1 /\ n <= x /\ g <= n /\ ~ NotAtHome(CtrlAt(n))
      BY <1>1, <2>1, <2>3
    <3> HIDE DEF n
    <3>2. ctrl[n].dist >= n - g
      <4>1. CASE n = x
        BY <2>1, <3>1, <4>1
      <4>2. CASE n # x
        <5>1. n \in g..(x - 1)
          BY <2>1, <3>1, <4>2
        <5> QED
          BY <2>2, <5>1
      <4> QED
        BY <4>1, <4>2
    <3>3. CtrlAt(n) = ctrl[n] /\ ctrl[n].dist \in Int
      BY <2>1, <3>1, TableFacts DEF CtrlAt, CtrlWord
    <3>4. ctrl[n].dist > 0
      BY <3>1, <3>2, <3>3
    <3> QED
      BY <3>1, <3>3, <3>4 DEF NotAtHome
  <2>5. j \in Nat /\ j <= x
    BY <2>1, <2>3
  <2>6. j \in DOMAIN slot
    BY <2>1, <2>5, TableFacts
  <2> QED
    BY <1>3, <2>2, <2>4, <2>6 DEF g
<1>7. UniqueKeys'
  BY <1>1 DEF CourseInv, UniqueKeys
<1>8. HashesInv'
  BY <1>1, <1>5, HashesMirrored DEF CourseInv, HashesInv
<1>9. WalkInv' /\ SearchInv' /\ AbsentInv' /\ VacantInv'
  BY <1>1 DEF WalkInv, SearchInv, AbsentInv, VacantInv
<1> QED
  BY <1>5, <1>6, <1>7, <1>8, <1>9 DEF TableInv, CourseInv

-----------------------------------------------------------------------------
(* Insertion *)

(* Bytes that only grow let every search go as far as before. *)
LEMMA BytesRaised ==
  ASSUME TypeInv, slotMask' = slotMask,
         \A j \in DOMAIN slot : ctrl'[j].dist \in Int /\ ctrl'[j].dist >= ctrl[j].dist,
         NEW x \in Nat, NEW k \in Key, \A j \in 0..(x - 1) : j \in DOMAIN slot,
         Along(ctrl, slotMask, x, k)
  PROVE  Along(ctrl', slotMask', x, k)
<1>1. Home(k, slotMask) \in Nat
  BY HomeRange, TableFacts
<1> SUFFICES ASSUME NEW j \in Home(k, slotMask)..(x - 1)
             PROVE  ctrl'[j].dist >= j - Home(k, slotMask)
  BY DEF Along
<1> DEFINE h == Home(k, slotMask)
<1>2. ctrl[j].dist >= j - h
  BY DEF Along
<1>3. j \in DOMAIN slot /\ j - h \in Int
  BY <1>1
<1>4. ctrl[j].dist \in Int
  BY <1>3, TableFacts DEF CtrlWord
<1> HIDE DEF h
<1>5. ctrl'[j].dist >= j - h
  BY <1>2, <1>3, <1>4
<1> QED
  BY <1>5 DEF h

(* A search that comes to a slot and may pass its byte comes to the next. *)
LEMMA AlongNext ==
  ASSUME NEW bytes, NEW mask \in Nat, NEW x \in Nat, NEW k \in Key,
         Along(bytes, mask, x, k), bytes[x].dist >= x - Home(k, mask)
  PROVE  Along(bytes, mask, x + 1, k)
<1> DEFINE h == Home(k, mask)
<1>1. h \in Nat
  BY HomeRange
<1>2. \A j \in h..(x - 1) : bytes[j].dist >= j - h
  BY DEF Along
<1>3. bytes[x].dist >= x - h
  OBVIOUS
<1> HIDE DEF h
<1>4. x + 1 - 1 = x /\ \A j \in h..x : j = x \/ j \in h..(x - 1)
  BY <1>1
<1>5. \A j \in h..(x + 1 - 1) : bytes[j].dist >= j - h
  BY <1>2, <1>3, <1>4
<1> QED
  BY <1>5 DEF Along, h

(* Where an insertion has ended its walk, and the byte it brings there. *)
LEMMA Arrived ==
  ASSUME HashesKept, TypeInv, TableInv, CourseInv, AtEndOfChain
  PROVE  /\ pc = "place" /\ Vacant = {} /\ probe.index \in Nat /\ probe.key \in Key
         /\ Home(probe.key, slotMask) \in Nat /\ Home(probe.key, slotMask) <= probe.index
         /\ NewCtrl = Ctrl(probe.index - Home(probe.key, slotMask), HashOf(probe.key))
         /\ NewCtrl \in CtrlWord
         /\ NewCtrl.dist = probe.index - Home(probe.key, slotMask) /\ NewCtrl.dist > CtrlAt(probe.index).dist
         /\ CtrlAt(probe.index) \in CtrlWord
         /\ Along(ctrl, slotMask, probe.index, probe.key)
<1> DEFINE h == Home(probe.key, slotMask)
           i == probe.index
<1>1. pc = "place" /\ Vacant = {} /\ ~ InChain(probe.dist, CtrlAt(i)) /\ i \in Nat
  BY DEF AtEndOfChain, Vacant, TypeInv, StepInv, ControlOK
<1>2. probe.key \in Key /\ NewCtrl \in CtrlWord /\ NewCtrl.dist = probe.dist /\ probe.dist \in Nat
  BY <1>1, NewElementType
<1>3. h \in Nat
  BY <1>2, HomeRange, TableFacts
<1>4. i = h + probe.dist /\ Along(ctrl, slotMask, i, probe.key)
  BY <1>1 DEF CourseInv, WalkInv
<1>5. NewHash = HashOf(probe.key)
  BY <1>1, NewHashRight DEF CourseInv
<1>6. CtrlAt(i) \in CtrlWord /\ CtrlAt(i).dist < probe.dist
  <2>1. CtrlAt(i) \in CtrlWord
    BY <1>1, TableFacts
  <2> QED
    BY <1>1, <1>2, <2>1 DEF InChain, CtrlWord
<1>7. NewCtrl = Ctrl(probe.dist, HashOf(probe.key))
  BY <1>5 DEF NewCtrl
<1> HIDE DEF h, i
<1>8. probe.dist = i - h /\ h <= i
  BY <1>1, <1>2, <1>3, <1>4
<1>9. CtrlAt(i).dist \in Int
  BY <1>6 DEF CtrlWord
<1>10. NewCtrl.dist > CtrlAt(i).dist
  BY <1>2, <1>6, <1>9
<1> QED
  BY <1>1, <1>2, <1>3, <1>4, <1>6, <1>7, <1>8, <1>10 DEF h, i

(* The new element takes an empty slot. *)
LEMMA PlaceInEmptySearch ==
  ASSUME HashesKept, TypeInv, TableInv, CourseInv, PlaceInEmpty
  PROVE  TableInv' /\ CourseInv'
<1> DEFINE i == probe.index
           h == Home(probe.key, slotMask)
<1>1. /\ pc = "place" /\ Vacant = {} /\ i \in Nat /\ probe.key \in Key /\ h \in Nat /\ h <= i
      /\ NewCtrl = Ctrl(i - h, HashOf(probe.key)) /\ NewCtrl \in CtrlWord /\ NewCtrl.dist = i - h
      /\ Along(ctrl, slotMask, i, probe.key)
  BY Arrived DEF PlaceInEmpty
<1>2. /\ ctrl' = [ctrl EXCEPT ![i] = NewCtrl] /\ slot' = [slot EXCEPT ![i] = NewElement]
      /\ Placed /\ slotMask' = slotMask /\ pc' \in {"rehash", "done"} /\ CtrlAt(i) = Empty
  BY DEF PlaceInEmpty, Placed, Done
<1>3. i \in DOMAIN slot /\ ctrl[i] = Empty
  BY <1>1, <1>2, Words, TableFacts DEF CtrlAt
<1>4. slot[i] = Raw
  BY <1>1, <1>3, Words, TableFacts DEF TableInv, CtrlMirrorsSlots
<1>5. NewElement # Raw /\ NewElement.key = probe.key
  <2>1. NewElement \in Element /\ NewElement.key = probe.key
    BY <1>1, NewElementType
  <2> QED
    BY <2>1, KeyAssumption DEF Element
<1>6. DOMAIN ctrl = DOMAIN slot /\ DOMAIN slot \subseteq Nat
  BY TableFacts
<1>7. Vacant' = {}
  BY <1>2 DEF Vacant
<1> HIDE DEF i, h
<1>8. /\ DOMAIN slot' = DOMAIN slot /\ DOMAIN ctrl' = DOMAIN ctrl
      /\ slot'[i] = NewElement /\ ctrl'[i] = NewCtrl
      /\ \A x \in DOMAIN slot : x # i => slot'[x] = slot[x] /\ ctrl'[x] = ctrl[x]
  BY <1>2, <1>3, <1>6
<1>9. \A x \in Live(slot') \ {i} : x \in Live(slot) /\ slot'[x] = slot[x] /\ ctrl'[x] = ctrl[x] /\ x \in DOMAIN slot
  BY <1>8 DEF Live
<1>10. CtrlMirrorsSlots'
  <2>1. \A x \in DOMAIN ctrl' \ Vacant' : IsUsed(ctrl'[x]) <=> slot'[x] # Raw
    <3>1. IsUsed(ctrl'[i]) /\ slot'[i] # Raw
      BY <1>1, <1>5, <1>8 DEF IsUsed
    <3>2. \A x \in DOMAIN ctrl : IsUsed(ctrl[x]) <=> slot[x] # Raw
      BY <1>1 DEF TableInv, CtrlMirrorsSlots
    <3> QED
      BY <1>6, <1>8, <3>1, <3>2
  <2>2. \A x \in Live(slot') \ Vacant' : ctrl'[x] = Ctrl(x - Home(slot'[x].key, slotMask'), HashOf(slot'[x].key))
    <3> SUFFICES ASSUME NEW x \in Live(slot')
                 PROVE  ctrl'[x] = Ctrl(x - Home(slot'[x].key, slotMask), HashOf(slot'[x].key))
      BY <1>2
    <3>1. CASE x = i
      BY <1>1, <1>5, <1>8, <3>1 DEF h
    <3>2. CASE x # i
      BY <1>1, <1>9, <3>2 DEF TableInv, CtrlMirrorsSlots, CtrlOf
    <3> QED
      BY <3>1, <3>2
  <2> QED
    BY <1>2, <2>1, <2>2 DEF CtrlMirrorsSlots, CtrlOf
<1>11. \A j \in DOMAIN slot : ctrl'[j].dist \in Int /\ ctrl'[j].dist >= ctrl[j].dist
  <2> SUFFICES ASSUME NEW j \in DOMAIN slot PROVE ctrl'[j].dist \in Int /\ ctrl'[j].dist >= ctrl[j].dist
    OBVIOUS
  <2>1. ctrl[j].dist \in Int
    BY TableFacts DEF CtrlWord
  <2>2. CASE j = i
    BY <1>1, <1>3, <1>8, <2>2, Words
  <2>3. CASE j # i
    BY <1>8, <2>1, <2>3
  <2> QED
    BY <2>2, <2>3
<1>12. EveryElementReachable'
  <2> SUFFICES ASSUME NEW x \in Live(slot') PROVE Along(ctrl', slotMask', x, slot'[x].key)
    BY <1>2 DEF EveryElementReachable, ReachableAt, Along
  <2>1. Along(ctrl, slotMask, x, slot'[x].key) /\ slot'[x].key \in Key /\ x \in DOMAIN slot /\ x \in Nat
    <3>1. CASE x = i
      BY <1>1, <1>3, <1>5, <1>8, <3>1
    <3>2. CASE x # i
      <4>1. ReachableAt(x, slot[x].key) /\ slot[x].key \in Key
        BY <1>1, <1>9, <3>2, Resident DEF TableInv, EveryElementReachable
      <4> QED
        BY <1>6, <1>9, <3>2, <4>1 DEF ReachableAt, Along
    <3> QED
      BY <3>1, <3>2
  <2>2. \A j \in 0..(x - 1) : j \in DOMAIN slot
    BY <2>1, TableFacts
  <2> QED
    BY <1>2, <1>11, <2>1, <2>2, BytesRaised
<1>13. UniqueKeys' /\ AbsentInv' /\ \A j \in pending' : old'.ctrl[j].hash = HashOf(old'.slot[j].key)
  <2> DEFINE f == [x \in DOMAIN slot |-> x]
  <2>1. \A x \in Live(slot') \ {i} : f[x] = x /\ f[x] \in Live(slot) /\ slot'[x].key = slot[f[x]].key
    BY <1>9
  <2> HIDE DEF f
  <2>2. \A x, y \in Live(slot') \ {i} : f[x] = f[y] => x = y
    BY <2>1
  <2>3. i \in DOMAIN slot' /\ slot'[i] = NewElement /\ Vacant' = {} /\ pc \in {"place", "displace"}
    BY <1>1, <1>3, <1>7, <1>8
  <2> QED
    BY <1>2, <2>1, <2>2, <2>3, KeysPlaced DEF CourseInv
<1>14. HashesInv'
  BY <1>10, <1>13, HashesMirrored DEF HashesInv
<1>15. WalkInv' /\ SearchInv' /\ VacantInv'
  BY <1>2 DEF WalkInv, SearchInv, VacantInv
<1> QED
  BY <1>10, <1>12, <1>13, <1>14, <1>15 DEF TableInv, CourseInv

(***************************************************************************)
(* The new element takes the byte of one nearer to its home, which is in   *)
(* the hand now: the search for it may pass the slot it came from.         *)
(***************************************************************************)
LEMMA DisplaceSearch ==
  ASSUME HashesKept, TypeInv, TableInv, CourseInv, Displace
  PROVE  TableInv' /\ CourseInv'
<1> DEFINE i == probe.index
           h == Home(probe.key, slotMask)
           c == CtrlAt(i)
<1>1. /\ pc = "place" /\ Vacant = {} /\ i \in Nat /\ probe.key \in Key /\ h \in Nat /\ h <= i
      /\ NewCtrl = Ctrl(i - h, HashOf(probe.key)) /\ NewCtrl \in CtrlWord /\ NewCtrl.dist = i - h
      /\ NewCtrl.dist > c.dist /\ c \in CtrlWord
      /\ Along(ctrl, slotMask, i, probe.key)
  BY Arrived DEF Displace
<1>2. /\ ctrl' = [ctrl EXCEPT ![i] = NewCtrl] /\ slot' = slot
      /\ hand' = [at |-> i, ctrl |-> IncDist(c)] /\ probe' = Further /\ pc' = "displace"
      /\ UNCHANGED <<slotMask, call, old, pending, resume>>
  BY DEF Displace, rehash
<1>3. DOMAIN ctrl = DOMAIN slot /\ DOMAIN slot \subseteq Nat
  BY TableFacts
<1>4. probe'.index = i + 1 /\ probe'.key = probe.key /\ hand'.at = i /\ hand'.ctrl = IncDist(c) /\ Vacant' = {i}
  <2>1. probe'.index = i + 1 /\ probe'.key = probe.key /\ hand'.at = i /\ hand'.ctrl = IncDist(c)
    BY <1>2 DEF Further
  <2> QED
    BY <1>2, <2>1 DEF Vacant
<1>5. i \in DOMAIN slot => c = ctrl[i]
  BY <1>3 DEF CtrlAt
<1> HIDE DEF i, h, c
<1>6. /\ DOMAIN ctrl' = DOMAIN ctrl /\ (i \in DOMAIN slot => ctrl'[i] = NewCtrl)
      /\ \A x \in DOMAIN slot : x # i => ctrl'[x] = ctrl[x]
  BY <1>2, <1>3
<1>7. \A x \in Live(slot) : x \in DOMAIN slot /\ x \in Live(slot) \ Vacant
  BY <1>1 DEF Live
<1>8. CtrlMirrorsSlots'
  <2>1. \A x \in DOMAIN ctrl' \ Vacant' : IsUsed(ctrl'[x]) <=> slot'[x] # Raw
    <3>1. \A x \in DOMAIN ctrl : IsUsed(ctrl[x]) <=> slot[x] # Raw
      BY <1>1 DEF TableInv, CtrlMirrorsSlots
    <3> QED
      BY <1>2, <1>3, <1>4, <1>6, <3>1
  <2>2. \A x \in Live(slot') \ Vacant' : ctrl'[x] = Ctrl(x - Home(slot'[x].key, slotMask'), HashOf(slot'[x].key))
    BY <1>2, <1>4, <1>6, <1>7 DEF TableInv, CtrlMirrorsSlots, CtrlOf
  <2> DEFINE n == i + 1
  <2>3. i \in Live(slot) => IncDist(c) = Ctrl(n - Home(slot[i].key, slotMask), HashOf(slot[i].key))
    <3> SUFFICES ASSUME i \in Live(slot)
                 PROVE  IncDist(c) = Ctrl(n - Home(slot[i].key, slotMask), HashOf(slot[i].key))
      OBVIOUS
    <3> DEFINE g == Home(slot[i].key, slotMask)
    <3>1. c.dist = i - g /\ c.hash = HashOf(slot[i].key) /\ g \in Nat
      BY <1>5, <1>7, Resident DEF TableInv
    <3> HIDE DEF g
    <3>2. c.dist + 1 = n - g
      BY <1>1, <3>1
    <3> HIDE DEF n
    <3> QED
      BY <3>1, <3>2 DEF IncDist, g
  <2>4. hand'.at \in Live(slot') =>
          hand'.ctrl = Ctrl(probe'.index - Home(slot'[hand'.at].key, slotMask'), HashOf(slot'[hand'.at].key))
    <3>1. hand'.at = i /\ hand'.ctrl = IncDist(c) /\ probe'.index = n
      BY <1>4
    <3> HIDE DEF n
    <3>2. slot' = slot /\ slotMask' = slotMask
      BY <1>2
    <3>3. slot'[hand'.at].key = slot[i].key
      BY <3>1, <3>2
    <3> QED
      BY <2>3, <3>1, <3>2, <3>3
  <2> QED
    BY <2>1, <2>2, <2>4 DEF CtrlMirrorsSlots, CtrlOf
<1>9. \A j \in DOMAIN slot : ctrl'[j].dist \in Int /\ ctrl'[j].dist >= ctrl[j].dist
  <2> SUFFICES ASSUME NEW j \in DOMAIN slot PROVE ctrl'[j].dist \in Int /\ ctrl'[j].dist >= ctrl[j].dist
    OBVIOUS
  <2>1. ctrl[j].dist \in Int /\ NewCtrl.dist \in Int
    BY <1>1, TableFacts DEF CtrlWord
  <2>2. CASE j = i
    BY <1>1, <1>5, <1>6, <2>1, <2>2
  <2>3. CASE j # i
    BY <1>6, <2>1, <2>3
  <2> QED
    BY <2>2, <2>3
<1>10. ASSUME NEW x \in Live(slot)
       PROVE  /\ Along(ctrl', slotMask', x, slot[x].key) /\ x \in Nat
              /\ slot[x].key \in Key
  <2>1. ReachableAt(x, slot[x].key) /\ slot[x].key \in Key /\ x \in DOMAIN slot /\ x \in Nat
    BY <1>3, <1>7, Resident DEF TableInv, EveryElementReachable
  <2>2. Along(ctrl, slotMask, x, slot[x].key)
    BY <2>1 DEF ReachableAt, Along
  <2>3. \A j \in 0..(x - 1) : j \in DOMAIN slot
    BY <2>1, TableFacts
  <2> QED
    BY <1>2, <1>9, <2>1, <2>2, <2>3, BytesRaised
<1>11. i \in Live(slot) => Along(ctrl', slotMask', i + 1, slot[i].key)
  <2> SUFFICES ASSUME i \in Live(slot) PROVE Along(ctrl', slotMask', i + 1, slot[i].key)
    OBVIOUS
  <2> DEFINE g == Home(slot[i].key, slotMask)
  <2>1. c.dist = i - g /\ g \in Nat
    BY <1>5, <1>7, Resident DEF TableInv
  <2>2. ctrl'[i].dist >= i - g
    <3>1. ctrl'[i] = NewCtrl
      BY <1>6, <1>7
    <3> HIDE DEF g
    <3> QED
      BY <1>1, <2>1, <3>1 DEF CtrlWord
  <2>3. slotMask' \in Nat /\ ctrl'[i].dist >= i - Home(slot[i].key, slotMask')
    BY <1>2, <2>2, TableFacts
  <2> QED
    BY <1>1, <1>10, <2>3, AlongNext
<1>12. EveryElementReachable'
  BY <1>2, <1>4, <1>10, <1>11 DEF EveryElementReachable, ReachableAt, Along
<1>13. UniqueKeys' /\ AbsentInv'
  BY <1>1, <1>2 DEF CourseInv, UniqueKeys, AbsentInv, NotStored, Live, Moving
<1>14. HashesInv'
  BY <1>2, <1>8, HashesMirrored DEF CourseInv, HashesInv
<1>15. WalkInv' /\ SearchInv'
  BY <1>2 DEF WalkInv, SearchInv
<1>16. VacantInv'
  <2>1. \A j \in h..(i - 1) : ctrl'[j].dist >= j - h
    <3> SUFFICES ASSUME NEW j \in h..(i - 1) PROVE ctrl'[j].dist >= j - h
      OBVIOUS
    <3>1. ctrl[j].dist >= j - h
      BY <1>1 DEF Along, h
    <3>2. j # i /\ j \in DOMAIN slot
      BY <1>1 DEF CourseInv, WalkInv, h, i
    <3> QED
      BY <1>6, <3>1, <3>2
  <2>2. Along(ctrl', slotMask', i, probe.key)
    BY <1>2, <2>1 DEF Along, h
  <2> QED
    BY <1>1, <1>2, <1>4, <1>6, <2>2 DEF VacantInv, h
<1> QED
  BY <1>8, <1>12, <1>13, <1>14, <1>15, <1>16 DEF TableInv, CourseInv

(* The element in the hand, and the one in the slot it has come to. *)
LEMMA InHand ==
  ASSUME TypeInv, TableInv, Displacing
  PROVE  /\ pc = "displace" /\ Vacant = {hand.at}
         /\ slot[hand.at].key \in Key /\ Home(slot[hand.at].key, slotMask) \in Nat
         /\ hand.ctrl = CtrlOf(probe.index, slot[hand.at])
         /\ hand.ctrl.dist = probe.index - Home(slot[hand.at].key, slotMask)
         /\ Along(ctrl, slotMask, probe.index, slot[hand.at].key)
         /\ ctrl[probe.index] # Empty =>
              /\ probe.index \in Live(slot) \ Vacant
              /\ ctrl[probe.index] = CtrlOf(probe.index, slot[probe.index])
              /\ slot[probe.index].key \in Key /\ Home(slot[probe.index].key, slotMask) \in Nat
              /\ ctrl[probe.index].dist = probe.index - Home(slot[probe.index].key, slotMask)
              /\ Along(ctrl, slotMask, probe.index, slot[probe.index].key)
<1>1. pc = "displace" /\ Vacant = {hand.at}
  BY DEF Displacing, Vacant
<1>2. /\ hand.at \in Live(slot) /\ slot[hand.at] \in Element /\ probe.index \in Nat /\ hand.at < probe.index
      /\ hand.at \in Nat
  BY Carrying
<1>3. hand.ctrl = CtrlOf(probe.index, slot[hand.at]) /\ ReachableAt(probe.index, slot[hand.at].key)
  BY <1>1, <1>2 DEF TableInv, CtrlMirrorsSlots, EveryElementReachable
<1>4. slotMask \in Nat
  BY TableFacts
<1>5. /\ slot[hand.at].key \in Key /\ Home(slot[hand.at].key, slotMask) \in Nat
      /\ hand.ctrl.dist = probe.index - Home(slot[hand.at].key, slotMask)
  BY <1>2, <1>3, <1>4, ByteOf
<1>6. ASSUME ctrl[probe.index] # Empty
      PROVE  /\ probe.index \in Live(slot) \ Vacant
             /\ ctrl[probe.index] = CtrlOf(probe.index, slot[probe.index])
             /\ slot[probe.index].key \in Key /\ Home(slot[probe.index].key, slotMask) \in Nat
             /\ ctrl[probe.index].dist = probe.index - Home(slot[probe.index].key, slotMask)
             /\ ReachableAt(probe.index, slot[probe.index].key)
  <2>1. probe.index \in Live(slot) \ Vacant
    BY <1>1, <1>2, <1>6, Carrying
  <2> QED
    BY <2>1, Resident DEF TableInv, EveryElementReachable
<1> QED
  BY <1>1, <1>3, <1>5, <1>6 DEF ReachableAt, Along

(* A word that is carried one slot further tells the distance there. *)
LEMMA CarriedByte ==
  ASSUME NEW i \in Nat, NEW e \in Element, slotMask \in Nat
  PROVE  IncDist(CtrlOf(i, e)) = CtrlOf(i + 1, e)
<1> DEFINE n == i + 1
           g == Home(e.key, slotMask)
<1>1. g \in Nat
  BY ByteOf
<1>2. CtrlOf(i, e) = Ctrl(i - g, HashOf(e.key)) /\ CtrlOf(n, e) = Ctrl(n - g, HashOf(e.key))
  BY DEF CtrlOf
<1> HIDE DEF g
<1>3. i - g + 1 = n - g
  BY <1>1
<1> HIDE DEF n
<1>4. IncDist(CtrlOf(i, e)) = CtrlOf(n, e)
  BY <1>2, <1>3 DEF IncDist, Ctrl
<1> QED
  BY <1>4 DEF n

(***************************************************************************)
(* The element in the hand passes one that is no nearer to its home, or    *)
(* changes places with one that is.                                        *)
(***************************************************************************)
LEMMA PassOnSearch ==
  ASSUME TypeInv, TableInv, CourseInv, PassOn
  PROVE  (pc' # "retry" => TableInv') /\ CourseInv'
<1> DEFINE i == probe.index
           c == ctrl[i]
           a == hand.at
           swaps == IsPoorerThan(c)
           w == IF swaps THEN c ELSE hand.ctrl
           carried == IncDist(w)
           gaveUp == ~ Moving /\ TooFar(carried.dist)
           swapped == IF swaps THEN [ctrl EXCEPT ![i] = hand.ctrl] ELSE ctrl
           n == i + 1
<1>1. Displacing /\ pc = "displace" /\ Vacant = {a}
  BY DEF PassOn, Displacing, Vacant
<1>2. /\ CtrlAt(i) = c /\ c # Empty /\ Read(a) = {slot[a]} /\ Read(i) = {slot[i]}
      /\ a \in Nat /\ i \in Nat /\ a < i /\ hand.ctrl \in CtrlWord /\ hand.ctrl.dist >= 0
      /\ a \in Live(slot) /\ slot[a] \in Element /\ i \in Live(slot) /\ slot[i] \in Element
      /\ i \in DOMAIN slot /\ c \in CtrlWord /\ c.dist >= 0
  BY <1>1, Carrying DEF PassOn
<1>3. /\ slot' = IF swaps THEN [slot EXCEPT ![i] = slot[a], ![a] = slot[i]] ELSE slot
      /\ ctrl' = IF gaveUp THEN [swapped EXCEPT ![a] = carried] ELSE swapped
      /\ hand' = IF gaveUp THEN NoHand ELSE [hand EXCEPT !.ctrl = carried]
      /\ pc' = (IF gaveUp THEN "retry" ELSE pc) /\ probe' = Further
      /\ UNCHANGED <<slotMask, call, old, pending, resume>>
  BY <1>2 DEF PassOn, rehash
<1>4. /\ DOMAIN ctrl = DOMAIN slot /\ DOMAIN slot \subseteq Nat /\ slotMask \in Nat
      /\ a # i /\ a \in DOMAIN slot /\ slot[a] # Raw /\ slot[i] # Raw
      /\ hand.ctrl.dist \in Int /\ c.dist \in Int
  BY <1>2, TableFacts DEF Live, CtrlWord
<1>5. /\ hand.ctrl = CtrlOf(i, slot[a]) /\ hand.ctrl.dist = i - Home(slot[a].key, slotMask)
      /\ Along(ctrl, slotMask, i, slot[a].key) /\ slot[a].key \in Key
      /\ Home(slot[a].key, slotMask) \in Nat
      /\ c = CtrlOf(i, slot[i]) /\ c.dist = i - Home(slot[i].key, slotMask)
      /\ Along(ctrl, slotMask, i, slot[i].key) /\ slot[i].key \in Key
      /\ Home(slot[i].key, slotMask) \in Nat
  BY <1>1, <1>2, InHand
<1>6. carried = CtrlOf(n, IF swaps THEN slot[i] ELSE slot[a])
  BY <1>2, <1>4, <1>5, CarriedByte
<1>7. swaps <=> hand.ctrl.dist > c.dist
  BY DEF IsPoorerThan
<1>8. probe'.index = n /\ probe'.key = probe.key
  BY <1>3 DEF Further
<1>9. n = i + 1
  OBVIOUS
<1> HIDE DEF carried, gaveUp, w, c, a, i, n
<1>10. /\ DOMAIN swapped = DOMAIN slot /\ DOMAIN slot' = DOMAIN slot /\ DOMAIN ctrl' = DOMAIN slot
       /\ \A x \in DOMAIN slot : x # i => swapped[x] = ctrl[x]
       /\ \A x \in DOMAIN slot : x # a => ctrl'[x] = swapped[x]
       /\ \A x \in DOMAIN slot : x # i /\ x # a => slot'[x] = slot[x]
       /\ slot'[i] = (IF swaps THEN slot[a] ELSE slot[i])
       /\ slot'[a] = (IF swaps THEN slot[i] ELSE slot[a])
       /\ swapped[i] = (IF swaps THEN hand.ctrl ELSE c)
       /\ ctrl'[a] = (IF gaveUp THEN carried ELSE ctrl[a])
  BY <1>2, <1>3, <1>4 DEF c
<1> HIDE DEF swaps, swapped
<1>11. /\ swapped[i] = CtrlOf(i, slot'[i]) /\ carried = CtrlOf(n, slot'[a])
       /\ slot'[i] # Raw /\ slot'[a] # Raw
  BY <1>4, <1>5, <1>6, <1>10
<1>12. \A x \in Live(slot') : x = i \/ x = a \/ (x \in Live(slot) \ Vacant /\ slot'[x] = slot[x] /\ ctrl'[x] = ctrl[x])
  BY <1>1, <1>10 DEF Live
<1>13. \A x \in Live(slot') \ {a} : x \in DOMAIN slot /\ ctrl'[x] = CtrlOf(x, slot'[x])
  <2> SUFFICES ASSUME NEW x \in Live(slot') \ {a} PROVE x \in DOMAIN slot /\ ctrl'[x] = CtrlOf(x, slot'[x])
    OBVIOUS
  <2>1. x \in DOMAIN slot
    BY <1>10 DEF Live
  <2>2. CASE x = i
    BY <1>10, <1>11, <2>1, <2>2
  <2>3. CASE x # i
    BY <1>12, <2>1, <2>3 DEF TableInv, CtrlMirrorsSlots
  <2> QED
    BY <2>1, <2>2, <2>3
<1>14. UniqueKeys' /\ \A k : NotStored(k, slot) => NotStored(k, slot')
  <2> DEFINE f == [x \in DOMAIN slot |-> IF ~ swaps THEN x ELSE IF x = i THEN a ELSE IF x = a THEN i ELSE x]
  <2>1. \A x \in DOMAIN slot : f[x] \in DOMAIN slot /\ slot'[x] = slot[f[x]]
    BY <1>2, <1>4, <1>10
  <2>2. \A x, y \in DOMAIN slot : f[x] = f[y] => x = y
    BY <1>4
  <2>3. Live(slot') \subseteq DOMAIN slot /\ \A x \in DOMAIN slot : x \in Live(slot') => f[x] \in Live(slot)
    BY <1>10, <2>1 DEF Live
  <2>4. old'.slot = old.slot
    BY <1>3
  <2> HIDE DEF f
  <2>5. /\ \A x \in Live(slot') : f[x] \in Live(slot) /\ slot'[x].key = slot[f[x]].key
        /\ \A x, y \in Live(slot') : f[x] = f[y] => x = y
    BY <2>1, <2>2, <2>3
  <2>6. UniqueKeys
    BY DEF CourseInv
  <2> QED
    BY <2>4, <2>5, <2>6, KeysMoved
<1>15. AbsentInv'
  BY <1>1, <1>3, <1>14 DEF CourseInv, AbsentInv, Moving
<1>16. WalkInv' /\ SearchInv'
  BY <1>1, <1>3 DEF WalkInv, SearchInv
<1>17. CASE gaveUp
  <2>1. pc' = "retry" /\ Vacant' = {} /\ ctrl'[a] = carried
    BY <1>3, <1>10, <1>17 DEF Vacant
  <2>2. \A x, e : CtrlOf(x, e).hash = HashOf(e.key)
    BY DEF CtrlOf, Ctrl
  <2>3. \A x \in Live(slot') : ctrl'[x].hash = HashOf(slot'[x].key)
    BY <1>11, <1>13, <2>1, <2>2
  <2>4. HashesInv'
    BY <1>3, <2>3 DEF HashesInv, CourseInv
  <2>5. VacantInv'
    BY <2>1 DEF VacantInv
  <2> QED
    BY <1>14, <1>15, <1>16, <2>1, <2>4, <2>5 DEF CourseInv
<1>18. CASE ~ gaveUp
  <2>1. /\ pc' = "displace" /\ hand'.at = a /\ hand'.ctrl = carried /\ Vacant' = {a} /\ ctrl'[a] = ctrl[a]
    <3>1. hand' = [hand EXCEPT !.ctrl = carried] /\ pc' = "displace"
      BY <1>1, <1>3, <1>18
    <3>2. hand'.at = a /\ hand'.ctrl = carried
      BY <3>1 DEF TypeInv, StepInv, ControlOK, a
    <3> QED
      BY <1>10, <1>18, <3>1, <3>2 DEF Vacant
  <2>2. CtrlMirrorsSlots'
    <3>1. \A x \in DOMAIN ctrl' \ Vacant' : IsUsed(ctrl'[x]) <=> slot'[x] # Raw
      <4>1. IsUsed(ctrl'[i]) /\ slot'[i] # Raw
        BY <1>2, <1>4, <1>10, <1>11 DEF IsUsed
      <4>2. \A x \in DOMAIN ctrl \ {a} : IsUsed(ctrl[x]) <=> slot[x] # Raw
        BY <1>1 DEF TableInv, CtrlMirrorsSlots
      <4> QED
        BY <1>4, <1>10, <2>1, <4>1, <4>2
    <3>2. \A x \in Live(slot') \ Vacant' : ctrl'[x] = Ctrl(x - Home(slot'[x].key, slotMask'), HashOf(slot'[x].key))
      BY <1>3, <1>13, <2>1 DEF CtrlOf
    <3>3. hand'.ctrl = Ctrl(probe'.index - Home(slot'[hand'.at].key, slotMask'), HashOf(slot'[hand'.at].key))
      BY <1>3, <1>8, <1>11, <2>1 DEF CtrlOf
    <3> QED
      BY <3>1, <3>2, <3>3 DEF CtrlMirrorsSlots, CtrlOf
  <2>3. \A j \in DOMAIN slot : ctrl'[j].dist \in Int /\ ctrl'[j].dist >= ctrl[j].dist
    <3> SUFFICES ASSUME NEW j \in DOMAIN slot PROVE ctrl'[j].dist \in Int /\ ctrl'[j].dist >= ctrl[j].dist
      OBVIOUS
    <3>1. ctrl[j].dist \in Int
      BY TableFacts DEF CtrlWord
    <3>2. CASE j = i
      BY <1>4, <1>7, <1>10, <3>1, <3>2 DEF c
    <3>3. CASE j # i
      BY <1>10, <2>1, <3>1, <3>3
    <3> QED
      BY <3>2, <3>3
  <2>4. \A j \in 0..(i - 1) : j \in DOMAIN slot
    BY <1>2, TableFacts
  <2>5. /\ Along(ctrl', slotMask', i, slot[a].key) /\ Along(ctrl', slotMask', i, slot[i].key)
    BY <1>2, <1>3, <1>5, <2>3, <2>4, BytesRaised
  <2>6. Along(ctrl', slotMask', i, slot'[i].key) /\ Along(ctrl', slotMask', n, slot'[a].key)
    <3>1. Along(ctrl', slotMask', i, slot'[i].key)
      BY <1>10, <2>5
    <3>2. /\ slot'[a].key \in Key /\ Along(ctrl', slotMask', i, slot'[a].key) /\ slotMask' \in Nat
      BY <1>3, <1>4, <1>5, <1>10, <2>5
    <3>3. ctrl'[i].dist >= i - Home(slot'[a].key, slotMask')
      <4>1. ctrl'[i] = swapped[i]
        BY <1>2, <1>4, <1>10
      <4>2. CASE swaps
        <5>1. ctrl'[i].dist > c.dist /\ c.dist = i - Home(slot'[a].key, slotMask')
          BY <1>3, <1>5, <1>7, <1>10, <4>1, <4>2
        <5> QED
          BY <1>4, <1>10, <4>1, <4>2, <5>1
      <4>3. CASE ~ swaps
        <5>1. ctrl'[i].dist >= hand.ctrl.dist /\ hand.ctrl.dist = i - Home(slot'[a].key, slotMask')
          BY <1>3, <1>4, <1>5, <1>7, <1>10, <4>1, <4>3
        <5> QED
          BY <5>1
      <4> QED
        BY <4>2, <4>3
    <3>4. Along(ctrl', slotMask', i + 1, slot'[a].key)
      BY <1>2, <3>2, <3>3, AlongNext
    <3> QED
      BY <3>1, <3>4 DEF n
  <2>7. \A x \in Live(slot') \ {a} : Along(ctrl', slotMask', x, slot'[x].key)
    <3> SUFFICES ASSUME NEW x \in Live(slot') \ {a}, x # i PROVE Along(ctrl', slotMask', x, slot'[x].key)
      BY <2>6
    <3>1. x \in Live(slot) \ Vacant /\ slot'[x] = slot[x]
      BY <1>12
    <3>2. ReachableAt(x, slot[x].key) /\ slot[x].key \in Key /\ x \in DOMAIN slot /\ x \in Nat
      BY <3>1, Resident DEF TableInv, EveryElementReachable
    <3>3. Along(ctrl, slotMask, x, slot[x].key)
      BY <3>2 DEF ReachableAt, Along
    <3>4. \A j \in 0..(x - 1) : j \in DOMAIN slot
      BY <3>2, TableFacts
    <3>5. Along(ctrl', slotMask', x, slot[x].key)
      BY <1>3, <2>3, <3>2, <3>3, <3>4, BytesRaised
    <3> QED
      BY <3>1, <3>5
  <2>8. EveryElementReachable'
    BY <1>8, <2>1, <2>6, <2>7 DEF EveryElementReachable, ReachableAt, Along
  <2>9. HashesInv'
    BY <1>3, <2>2, HashesMirrored DEF CourseInv, HashesInv
  <2>10. VacantInv'
    <3> DEFINE h == Home(probe.key, slotMask)
    <3>1. /\ h <= a /\ ctrl[a] = Ctrl(a - h, HashOf(probe.key))
          /\ \A j \in h..(a - 1) : ctrl[j].dist >= j - h
      BY <1>1, <1>4 DEF CourseInv, VacantInv, Along, a
    <3>2. probe.key \in Key
      BY <1>1, NewElementType
    <3>3. h \in Nat
      BY <1>4, <3>2, HomeRange
    <3>4. \A j \in h..(a - 1) : j \in DOMAIN slot /\ j # i /\ j # a
      BY <1>2, <1>4, <3>3, TableFacts
    <3> HIDE DEF h
    <3>5. \A j \in h..(a - 1) : ctrl'[j].dist >= j - h
      BY <1>10, <3>1, <3>4
    <3>6. Along(ctrl', slotMask', a, probe.key)
      BY <1>3, <3>5 DEF Along, h
    <3> QED
      BY <1>3, <1>8, <2>1, <3>1, <3>6 DEF VacantInv, h
  <2> QED
    BY <1>14, <1>15, <1>16, <2>2, <2>8, <2>9, <2>10 DEF TableInv, CourseInv
<1> QED
  BY <1>17, <1>18

(* The element in the hand takes an empty slot, and the new one the slot it has left. *)
LEMMA PutDownSearch ==
  ASSUME TypeInv, TableInv, CourseInv, PutDown
  PROVE  TableInv' /\ CourseInv'
<1> DEFINE i == probe.index
           a == hand.at
           k == probe.key
           h == Home(k, slotMask)
<1>1. Displacing /\ pc = "displace" /\ Vacant = {a} /\ CtrlAt(i) = Empty /\ Placed /\ slotMask' = slotMask
  BY DEF PutDown, Placed, Displacing, Vacant
<1>2. /\ Read(a) = {slot[a]} /\ CtrlAt(i) = ctrl[i] /\ i \in DOMAIN slot
      /\ a \in Nat /\ i \in Nat /\ a < i /\ hand.ctrl \in CtrlWord /\ hand.ctrl.dist >= 0
      /\ a \in Live(slot) /\ slot[a] \in Element
  BY <1>1, Carrying
<1>3. /\ ctrl' = [ctrl EXCEPT ![i] = hand.ctrl]
      /\ slot' = [slot EXCEPT ![i] = slot[a], ![a] = NewElement]
  BY <1>2 DEF PutDown
<1>4. pc' \in {"rehash", "done"} /\ Vacant' = {}
  BY <1>1 DEF Placed, Done, Vacant
<1>5. /\ DOMAIN ctrl = DOMAIN slot /\ DOMAIN slot \subseteq Nat /\ slotMask \in Nat
      /\ a # i /\ a \in DOMAIN slot /\ slot[a] # Raw
  BY <1>2, TableFacts DEF Live
<1>6. NewElement # Raw /\ NewElement.key = k /\ k \in Key
  <2>1. NewElement \in Element /\ NewElement.key = k /\ k \in Key
    BY <1>1, NewElementType
  <2> QED
    BY <2>1, KeyAssumption DEF Element
<1>7. /\ hand.ctrl = CtrlOf(i, slot[a]) /\ hand.ctrl.dist \in Int
      /\ Along(ctrl, slotMask, i, slot[a].key) /\ slot[a].key \in Key
  BY <1>1, <1>2, InHand DEF CtrlWord
<1>8. h <= a /\ ctrl[a] = Ctrl(a - h, HashOf(k)) /\ Along(ctrl, slotMask, a, k) /\ h \in Nat
  BY <1>1, <1>5, <1>6, HomeRange DEF CourseInv, VacantInv
<1>9. ctrl[i] = Empty /\ slot[i] = Raw
  <2>1. ctrl[i] = Empty /\ ~ IsUsed(ctrl[i]) /\ i \in DOMAIN ctrl \ Vacant
    BY <1>1, <1>2, <1>5, Words
  <2> QED
    BY <2>1 DEF TableInv, CtrlMirrorsSlots
<1> HIDE DEF i, a, k, h
<1>10. /\ DOMAIN slot' = DOMAIN slot /\ DOMAIN ctrl' = DOMAIN slot
       /\ slot'[i] = slot[a] /\ slot'[a] = NewElement /\ ctrl'[i] = hand.ctrl /\ ctrl'[a] = ctrl[a]
       /\ \A x \in DOMAIN slot : x # i => ctrl'[x] = ctrl[x]
       /\ \A x \in DOMAIN slot : x # i /\ x # a => slot'[x] = slot[x]
  BY <1>2, <1>3, <1>5
<1>11. \A x \in Live(slot') : \/ x = i \/ x = a
                              \/ x \in Live(slot) \ Vacant /\ slot'[x] = slot[x] /\ ctrl'[x] = ctrl[x]
  BY <1>1, <1>10 DEF Live
<1>12. \A x \in Live(slot') : x \in DOMAIN slot /\ ctrl'[x] = CtrlOf(x, slot'[x])
  <2> SUFFICES ASSUME NEW x \in Live(slot') PROVE x \in DOMAIN slot /\ ctrl'[x] = CtrlOf(x, slot'[x])
    OBVIOUS
  <2>1. x \in DOMAIN slot
    BY <1>10 DEF Live
  <2>2. CASE x = i
    BY <1>7, <1>10, <2>1, <2>2
  <2>3. CASE x = a
    <3>1. CtrlOf(a, NewElement) = Ctrl(a - h, HashOf(k))
      BY <1>6 DEF CtrlOf, h
    <3> QED
      BY <1>8, <1>10, <2>1, <2>3, <3>1
  <2>4. CASE x # i /\ x # a
    BY <1>11, <2>1, <2>4 DEF TableInv, CtrlMirrorsSlots
  <2> QED
    BY <2>2, <2>3, <2>4
<1>13. CtrlMirrorsSlots'
  <2>1. \A x \in DOMAIN ctrl' \ Vacant' : IsUsed(ctrl'[x]) <=> slot'[x] # Raw
    <3>1. IsUsed(ctrl'[i]) /\ slot'[i] # Raw
      BY <1>2, <1>5, <1>10 DEF IsUsed
    <3>2. IsUsed(ctrl'[a]) /\ slot'[a] # Raw
      <4>1. ctrl'[a].dist = a - h
        BY <1>8, <1>10 DEF Ctrl
      <4> QED
        BY <1>2, <1>6, <1>8, <1>10, <4>1 DEF IsUsed
    <3>3. \A x \in DOMAIN ctrl \ {a} : IsUsed(ctrl[x]) <=> slot[x] # Raw
      BY <1>1 DEF TableInv, CtrlMirrorsSlots
    <3> QED
      BY <1>5, <1>10, <3>1, <3>2, <3>3
  <2>2. \A x \in Live(slot') \ Vacant' : ctrl'[x] = Ctrl(x - Home(slot'[x].key, slotMask'), HashOf(slot'[x].key))
    BY <1>1, <1>12 DEF CtrlOf
  <2> QED
    BY <1>4, <2>1, <2>2 DEF CtrlMirrorsSlots, CtrlOf
<1>14. \A j \in DOMAIN slot : ctrl'[j].dist \in Int /\ ctrl'[j].dist >= ctrl[j].dist
  <2> SUFFICES ASSUME NEW j \in DOMAIN slot PROVE ctrl'[j].dist \in Int /\ ctrl'[j].dist >= ctrl[j].dist
    OBVIOUS
  <2>1. ctrl[j].dist \in Int
    BY TableFacts DEF CtrlWord
  <2>2. CASE j = i
    BY <1>2, <1>7, <1>9, <1>10, <2>2, Words
  <2>3. CASE j # i
    BY <1>10, <2>1, <2>3
  <2> QED
    BY <2>2, <2>3
<1>15. EveryElementReachable'
  <2> SUFFICES ASSUME NEW x \in Live(slot') PROVE Along(ctrl', slotMask', x, slot'[x].key)
    BY <1>4 DEF EveryElementReachable, ReachableAt, Along
  <2>1. Along(ctrl, slotMask, x, slot'[x].key) /\ slot'[x].key \in Key /\ x \in DOMAIN slot /\ x \in Nat
    <3>1. CASE x = i
      BY <1>2, <1>7, <1>10, <3>1
    <3>2. CASE x = a
      BY <1>2, <1>5, <1>6, <1>8, <1>10, <3>2
    <3>3. CASE x # i /\ x # a
      <4>1. x \in Live(slot) \ Vacant /\ slot'[x] = slot[x]
        BY <1>11, <3>3
      <4>2. ReachableAt(x, slot[x].key) /\ slot[x].key \in Key /\ x \in DOMAIN slot /\ x \in Nat
        BY <4>1, Resident DEF TableInv, EveryElementReachable
      <4> QED
        BY <4>1, <4>2 DEF ReachableAt, Along
    <3> QED
      BY <3>1, <3>2, <3>3
  <2>2. \A j \in 0..(x - 1) : j \in DOMAIN slot
    BY <2>1, TableFacts
  <2> QED
    BY <1>1, <1>14, <2>1, <2>2, BytesRaised
<1>16. UniqueKeys' /\ AbsentInv' /\ \A j \in pending' : old'.ctrl[j].hash = HashOf(old'.slot[j].key)
  <2> DEFINE f == [x \in DOMAIN slot |-> IF x = i THEN a ELSE x]
  <2>1. \A x \in Live(slot') \ {a} : f[x] \in Live(slot) /\ slot'[x].key = slot[f[x]].key
    <3> SUFFICES ASSUME NEW x \in Live(slot') \ {a} PROVE f[x] \in Live(slot) /\ slot'[x].key = slot[f[x]].key
      OBVIOUS
    <3>1. x \in DOMAIN slot
      BY <1>12
    <3>2. CASE x = i
      BY <1>2, <1>10, <3>1, <3>2
    <3>3. CASE x # i
      BY <1>11, <3>1, <3>3
    <3> QED
      BY <3>2, <3>3
  <2>2. \A x, y \in Live(slot') \ {a} : f[x] = f[y] => x = y
    BY <1>12
  <2>3. a \in DOMAIN slot' /\ slot'[a] = NewElement /\ Vacant' = {} /\ pc \in {"place", "displace"}
    BY <1>1, <1>4, <1>5, <1>10
  <2> HIDE DEF f
  <2> QED
    BY <1>1, <2>1, <2>2, <2>3, KeysPlaced DEF CourseInv
<1>17. HashesInv'
  BY <1>13, <1>16, HashesMirrored DEF HashesInv
<1>18. WalkInv' /\ SearchInv' /\ VacantInv'
  BY <1>4 DEF WalkInv, SearchInv, VacantInv
<1> QED
  BY <1>13, <1>15, <1>16, <1>17, <1>18 DEF TableInv, CourseInv

(* An insertion gives up: the byte in the hand goes back to the slot of its element. *)
LEMMA GiveUpSearch ==
  ASSUME TypeInv, TableInv, CourseInv, GiveUp
  PROVE  pc' = "retry" /\ CourseInv'
<1> DEFINE a == hand.at
<1>1. /\ pc = "displace" /\ Vacant = {a} /\ pc' = "retry" /\ Vacant' = {}
      /\ ctrl' = [ctrl EXCEPT ![a] = hand.ctrl] /\ UNCHANGED <<slotMask, slot, old, pending>>
  BY DEF GiveUp, Vacant, rehash
<1>2. DOMAIN ctrl = DOMAIN slot
  BY TableFacts
<1>3. \A x, e : CtrlOf(x, e).hash = HashOf(e.key)
  BY DEF CtrlOf, Ctrl
<1>4. a \in Live(slot) => hand.ctrl.hash = HashOf(slot[a].key)
  BY <1>1, <1>3 DEF TableInv, CtrlMirrorsSlots
<1> HIDE DEF a
<1>5. \A x \in Live(slot) : ctrl'[x].hash = HashOf(slot[x].key)
  <2> SUFFICES ASSUME NEW x \in Live(slot) PROVE ctrl'[x].hash = HashOf(slot[x].key)
    OBVIOUS
  <2>1. x \in DOMAIN ctrl
    BY <1>2 DEF Live
  <2>2. CASE x = a
    BY <1>1, <1>4, <2>1, <2>2
  <2>3. CASE x # a
    BY <1>1, <2>1, <2>3 DEF CourseInv, HashesInv
  <2> QED
    BY <2>2, <2>3
<1>6. HashesInv'
  BY <1>1, <1>5 DEF CourseInv, HashesInv
<1>7. UniqueKeys'
  BY <1>1 DEF CourseInv, UniqueKeys
<1>8. WalkInv' /\ SearchInv' /\ AbsentInv' /\ VacantInv'
  BY <1>1 DEF WalkInv, SearchInv, AbsentInv, VacantInv
<1> QED
  BY <1>1, <1>6, <1>7, <1>8 DEF CourseInv

-----------------------------------------------------------------------------
(* The theorem *)

(* Nothing changes. *)
LEMMA StutterSearch ==
  ASSUME SearchableInv, UNCHANGED vars
  PROVE  SearchableInv'
<1>1. UNCHANGED <<slotMask, ctrl, slot, pc, call, probe, hand, strayed, old, pending, resume>>
  BY DEF vars, table, rehash
<1>2. TableInv => TableInv'
  BY <1>1 DEF TableInv, CtrlMirrorsSlots, EveryElementReachable, ReachableAt, CtrlOf, Vacant, Live
<1>3. UniqueKeys /\ HashesInv => UniqueKeys' /\ HashesInv'
  BY <1>1 DEF UniqueKeys, HashesInv, Vacant, Live
<1>4. WalkInv /\ SearchInv /\ AbsentInv /\ VacantInv => WalkInv' /\ SearchInv' /\ AbsentInv' /\ VacantInv'
  BY <1>1 DEF WalkInv, SearchInv, AbsentInv, VacantInv, Along, NotStored, Live, Moving
<1> QED
  BY <1>1, <1>2, <1>3, <1>4 DEF SearchableInv, CourseInv

(* Every step, one lemma for each kind of step above. *)
LEMMA NextSearch ==
  ASSUME HashesKept, TypeInv, SearchableInv, [Next]_vars
  PROVE  SearchableInv'
<1> SUFFICES ASSUME ~ strayed', Next PROVE (pc' # "retry" => TableInv') /\ CourseInv'
  BY StutterSearch DEF SearchableInv
<1>1. CASE Manage
  BY <1>1, ManageSearch
<1>2. CASE Grow \/ Retry
  BY <1>2, GrowSearch
<1>3. CASE Overwrite
  BY <1>3 DEF Overwrite
<1>4. CASE ~ (Manage \/ Grow \/ Retry \/ Overwrite)
  <2>1. \/ BeginKeyOp \/ BeginManagement \/ Search \/ Erasing \/ Rehashing \/ Return
        \/ HaveRoom \/ PlaceNext \/ PlaceInEmpty \/ Displace \/ PassOn \/ PutDown \/ GiveUp
    BY <1>4 DEF Next, Step, Inserting
  <2>2. strayed' = strayed /\ pc # "retry"
    <3>1. CASE BeginKeyOp \/ BeginManagement
      BY <3>1 DEF BeginKeyOp, BeginManagement, Begin
    <3>2. CASE Search
      BY <3>2 DEF Search, WalkNext, NotFound, ReturnFound, KeepExisting, AssignExisting, Looking
    <3>3. CASE Erasing
      BY <3>3 DEF Erasing, EraseFound, ShiftNext, ShiftDone, Looking
    <3>4. CASE Rehashing \/ Return
      BY <3>4 DEF Rehashing, MoveNext, RehashDone, Return
    <3>5. CASE HaveRoom \/ PlaceNext \/ PlaceInEmpty \/ Displace
      BY <3>5 DEF HaveRoom, PlaceNext, PlaceInEmpty, Displace, AtEndOfChain
    <3>6. CASE PassOn \/ PutDown \/ GiveUp
      BY <3>6 DEF PassOn, PutDown, GiveUp, Displacing
    <3> QED
      BY <2>1, <3>1, <3>2, <3>3, <3>4, <3>5, <3>6
  <2>3. TableInv /\ CourseInv
    BY <2>2 DEF SearchableInv
  <2>4. CASE BeginKeyOp \/ BeginManagement
    BY <2>3, <2>4, BeginSearch
  <2>5. CASE Search
    BY <2>3, <2>5, WalkNextSearch, NotFoundSearch, ReturnSearch, AssignSearch DEF Search
  <2>6. CASE Erasing
    BY <2>3, <2>6, EraseSearch, ShiftNextSearch, ShiftDoneSearch DEF Erasing
  <2>7. CASE Rehashing
    BY <2>3, <2>7, RehashingSearch DEF Rehashing
  <2>8. CASE Return \/ HaveRoom
    BY <2>3, <2>8, ReturnSearch
  <2>9. CASE PlaceNext
    BY <2>3, <2>9, PlaceNextSearch
  <2>10. CASE PlaceInEmpty \/ Displace
    BY <2>3, <2>10, PlaceInEmptySearch, DisplaceSearch
  <2>11. CASE PassOn \/ PutDown \/ GiveUp
    BY <2>3, <2>11, PassOnSearch, PutDownSearch, GiveUpSearch
  <2> QED
    BY <2>1, <2>4, <2>5, <2>6, <2>7, <2>8, <2>9, <2>10, <2>11
<1> QED
  BY <1>1, <1>2, <1>3, <1>4

(***************************************************************************)
(* As long as no element has strayed, the bytes of a robin_hash_map mirror *)
(* its slots, a search comes to every element and no key is stored twice,  *)
(* in the middle of a displacement, a shift or a rehash as well.  With     *)
(* stored hashes this needs tables smaller than a group, since a rehash of *)
(* a larger one gives its elements the hash 0 (HashesKept).                *)
(***************************************************************************)
THEOREM Searchable ==
  ASSUME HashesKept
  PROVE  Spec => []SearchableUnlessStrayed
<1>1. Init => SearchableInv
  BY InitSearch
<1>2. TypeInv /\ SearchableInv /\ [Next]_vars => SearchableInv'
  BY NextSearch
<1>3. Spec => []TypeInv
  BY TypesAlways
<1>4. SearchableInv => SearchableUnlessStrayed
  BY DEF SearchableInv, SearchableUnlessStrayed, TableInv, CourseInv
<1> QED
  BY <1>1, <1>2, <1>3, <1>4, PTL DEF Spec

-----------------------------------------------------------------------------
(* The mapping of a set of elements *)

ElementsOf(slots) == {slots[i] : i \in Live(slots)}
Elements == ElementsOf(slot) \cup ElementsOf(old.slot)

ContentsOf(E) == [k \in Key |-> IF \E e \in E : e.key = k
                                THEN (CHOOSE e \in E : e.key = k).val
                                ELSE Absent]

KeyedOnce(E) == E \subseteq Element /\ \A e, f \in E : e.key = f.key => e = f

(* An element gives its key its value. *)
LEMMA Lookup ==
  ASSUME NEW E, KeyedOnce(E), NEW e \in E
  PROVE  /\ e.key \in Key /\ e.val \in Value /\ e.val # Absent
         /\ ContentsOf(E)[e.key] = e.val
<1>1. e.key \in Key /\ e.val \in Value
  BY DEF KeyedOnce, Element
<1>2. (CHOOSE f \in E : f.key = e.key) = e
  BY DEF KeyedOnce
<1> QED
  BY <1>1, <1>2, KeyAssumption DEF ContentsOf

(* Where only the element of one key changes, the mapping changes at that key. *)
LEMMA LookupChange ==
  ASSUME NEW E, NEW F, KeyedOnce(E), KeyedOnce(F), NEW k \in Key,
         \A e \in Element : e.key # k => (e \in E <=> e \in F)
  PROVE  ContentsOf(F) = [ContentsOf(E) EXCEPT ![k] = ContentsOf(F)[k]]
<1>1. ASSUME NEW j \in Key, j # k
      PROVE  ContentsOf(F)[j] = ContentsOf(E)[j]
  <2>1. CASE \E e \in E : e.key = j
    <3>1. PICK e \in E : e.key = j
      BY <2>1
    <3>2. e \in F
      BY <1>1, <3>1 DEF KeyedOnce
    <3> QED
      BY <3>1, <3>2, Lookup
  <2>2. CASE ~ \E e \in E : e.key = j
    <3>1. ~ \E e \in F : e.key = j
      BY <1>1, <2>2 DEF KeyedOnce
    <3> QED
      BY <2>2, <3>1 DEF ContentsOf
  <2> QED
    BY <2>1, <2>2
<1>2. /\ ContentsOf(F) = [j \in Key |-> ContentsOf(F)[j]]
      /\ ContentsOf(E) = [j \in Key |-> ContentsOf(E)[j]]
  BY DEF ContentsOf
<1> QED
  BY <1>1, <1>2

(* Each key has one element, before a step and after it. *)
LEMMA ElementsKeyed ==
  ASSUME TypeInv, UniqueKeys
  PROVE  KeyedOnce(Elements) /\ Contents = ContentsOf(Elements)
<1>1. ElementsOf(slot) \subseteq Element /\ ElementsOf(old.slot) \subseteq Element
  BY DEF ElementsOf, Live, TypeInv, FormInv, TableOK, StepInv, RehashInv
<1>2. ASSUME NEW e \in Elements, NEW f \in Elements, e.key = f.key PROVE e = f
  BY <1>2 DEF Elements, ElementsOf, UniqueKeys
<1>3. Contents = ContentsOf(Elements)
  BY DEF Contents, ContentsOf, Elements, ElementsOf
<1> QED
  BY <1>1, <1>2, <1>3 DEF KeyedOnce, Elements

(* The same of the next state, for which a lemma about this one cannot be cited. *)
LEMMA ElementsKeyedNext ==
  ASSUME TypeInv', UniqueKeys'
  PROVE  KeyedOnce(Elements') /\ Contents' = ContentsOf(Elements')
<1>1. ElementsOf(slot') \subseteq Element /\ ElementsOf(old'.slot) \subseteq Element
  BY DEF ElementsOf, Live, TypeInv, FormInv, TableOK, StepInv, RehashInv
<1>2. ASSUME NEW e \in Elements', NEW f \in Elements', e.key = f.key PROVE e = f
  BY <1>2 DEF Elements, ElementsOf, UniqueKeys
<1>3. Contents' = ContentsOf(Elements')
  BY DEF Contents, ContentsOf, Elements, ElementsOf
<1> QED
  BY <1>1, <1>2, <1>3 DEF KeyedOnce, Elements

-----------------------------------------------------------------------------
(* What else a step has to know *)

(* A table without memory has no elements, and no call puts one into it. *)
MemoryInv == slotMask = 0 =>
    /\ slotSize = 0 /\ slotThreshold = 0 /\ Live(slot) = {}
    /\ pc \notin {"place", "displace", "shift", "retry", "rehash"}

(* There is a result when a call has taken effect. *)
ResultInv ==
    /\ pc \notin {"done", "shift"} => ret = NoResult
    /\ call.op \notin KeyOps => call.key = Absent
    /\ (pc = "rehash" \/ Moving) /\ resume = "done" => call.op \in Map!Managements

(* What a rehash has still to move are the elements of the old table. *)
MovedInv == pending = Live(old.slot)

(* The bytes of all elements are used, also those of an insertion that has given up. *)
CarryInv ==
    /\ pc = "displace" /\ hand.at \in Live(slot) => hand.ctrl.dist >= 0
    /\ pc = "retry" => \A i \in Live(slot) : IsUsed(ctrl[i])

MapInv == MemoryInv /\ ResultInv /\ MovedInv /\ CarryInv

(* A new table is a map's without memory or elements. *)
LEMMA InitMap == Init => MapInv
<1> SUFFICES ASSUME Init PROVE MapInv
  OBVIOUS
<1>1. PICK n \in InitCapacities :
        /\ slotMask = (IF n = 0 THEN 0 ELSE CalcCapacity(n) - 1)
        /\ slotThreshold = CalcSlotThreshold(DefaultLoadFactor, IF n = 0 THEN 0 ELSE CalcCapacity(n))
        /\ \E c, l : slot = AllRaw(c, l)
  BY DEF Init
<1>2. /\ slotSize = 0 /\ pc = "idle" /\ ret = NoResult /\ call = NoCall /\ old = NoOld /\ pending = {}
  BY DEF Init
<1>3. CalcCapacity(n) \in Nat /\ CalcCapacity(n) >= 4
  BY ArgsAssumption, CapacityRange DEF MinCapacity
<1>4. slotMask = 0 => slotThreshold = 0
  <2>1. slotMask = 0 => n = 0
    <3> DEFINE c == CalcCapacity(n)
    <3>1. n # 0 => slotMask = c - 1 /\ c \in Nat /\ c >= 4
      BY <1>1, <1>3
    <3> HIDE DEF c
    <3> QED
      BY <3>1
  <2>2. DefaultLoadFactor \in Nat
    BY LoadFactorAssumption
  <2>3. CalcSlotThreshold(DefaultLoadFactor, 0) = 0
    BY <2>2 DEF CalcSlotThreshold, LoadFactorAmplify
  <2> QED
    BY <1>1, <2>1, <2>3
<1>5. Live(slot) = {} /\ Live(old.slot) = {}
  BY <1>1, <1>2 DEF Live, AllRaw, NoOld
<1>6. MemoryInv /\ MovedInv /\ CarryInv
  BY <1>2, <1>4, <1>5 DEF MemoryInv, MovedInv, CarryInv
<1>7. ResultInv
  BY <1>2 DEF ResultInv, NoCall, Moving
<1> QED
  BY <1>6, <1>7 DEF MapInv

(* Only a rehash and clear() change the number of slots. *)
Resizing == Manage \/ Grow \/ Retry

(* All other steps keep it. *)
LEMMA SameMask ==
  ASSUME [Next]_vars, ~ Resizing
  PROVE  slotMask' = slotMask
<1>1. CASE BeginKeyOp \/ BeginManagement
  BY <1>1 DEF BeginKeyOp, BeginManagement, Begin, table
<1>2. CASE Search
  BY <1>2 DEF Search, WalkNext, NotFound, ReturnFound, KeepExisting, AssignExisting, table
<1>3. CASE Erasing
  BY <1>3 DEF Erasing, EraseFound, ShiftNext, ShiftDone
<1>4. CASE Rehashing \/ Return
  BY <1>4 DEF Rehashing, MoveNext, RehashDone, Return, table
<1>5. CASE HaveRoom \/ PlaceNext \/ PlaceInEmpty \/ Displace
  BY <1>5 DEF HaveRoom, PlaceNext, PlaceInEmpty, Displace, Placed, table
<1>6. CASE PassOn \/ PutDown \/ GiveUp \/ Overwrite
  BY <1>6 DEF PassOn, PutDown, GiveUp, Overwrite, Placed
<1>7. CASE UNCHANGED vars
  BY <1>7 DEF vars, table
<1> QED
  BY <1>1, <1>2, <1>3, <1>4, <1>5, <1>6, <1>7 DEF Next, Step, Inserting, Resizing

(* What Clear and the others come to, with the calls they belong to. *)
LEMMA ManageOps ==
  ASSUME TypeInv, Manage
  PROVE  /\ pc = "manage"
         /\ \/ Clear
            \/ /\ call.op \in Map!Managements
               /\ \/ \E n \in Int, m \in LoadFactors : Resize(CalcCapacity(n), m, "done")
                  \/ Done("ok") /\ UNCHANGED <<table, call, probe, hand, strayed, rehash>>
<1>1. pc = "manage"
  BY DEF Manage, Clear, Rehash, ShrinkToFit, MaxLoadFactor, Managing
<1>2. Clear \/ call.op \in Map!Managements
  BY DEF Manage, Rehash, ShrinkToFit, MaxLoadFactor, Managing, Map!Managements
<1>3. ~ Clear => \/ \E n \in Int, m \in LoadFactors : Resize(CalcCapacity(n), m, "done")
                 \/ Done("ok") /\ UNCHANGED <<table, call, probe, hand, strayed, rehash>>
  BY ManageCases
<1> QED
  BY <1>1, <1>2, <1>3

(* A growth is one into twice the slots. *)
LEMMA GrowOps ==
  ASSUME TypeInv, Grow \/ Retry
  PROVE  /\ TwiceTheSize \in Int /\ call.op \in Insertions /\ call.key \in Key
         /\ \/ pc = "room" /\ Resize(CalcCapacity(TwiceTheSize), mlf, "place")
            \/ pc = "retry" /\ Resize(CalcCapacity(TwiceTheSize), mlf, "walk")
<1>1. TwiceTheSize \in Int
  BY DEF TypeInv, FormInv, TableOK, TwiceTheSize
<1> QED
  BY <1>1 DEF Grow, Retry, GrowThen, TypeInv, StepInv, CallInv, KeyOps

(* A table that gets no memory gets no elements. *)
LEMMA NextMemory ==
  ASSUME TypeInv, MemoryInv, [Next]_vars
  PROVE  MemoryInv'
<1>1. CASE slotMask' = slotMask /\ slotMask # 0
  BY <1>1 DEF MemoryInv
<1>2. ASSUME NEW n \in Int, NEW m, NEW after, Resize(CalcCapacity(n), m, after) PROVE MemoryInv'
  <2>1. CASE CreateSlots(CalcCapacity(n), m, after)
    <3>1. slotMask' = CalcCapacity(n) - 1 /\ CalcCapacity(n) \in Nat /\ CalcCapacity(n) >= 4
      BY <2>1, CapacityRange DEF CreateSlots, MinCapacity
    <3> QED
      BY <3>1 DEF MemoryInv
  <2>2. CASE AllocationThrows(CalcCapacity(n))
    BY <2>2 DEF AllocationThrows, Done, MemoryInv
  <2> QED
    BY <1>2, <2>1, <2>2 DEF Resize
<1>3. CASE Manage
  <2>1. CASE Clear
    <3>1. Destroy \/ ClearData
      BY <2>1 DEF Clear
    <3>2. pc' = "done"
      BY <2>1 DEF Clear, Done
    <3>3. slotSize' = 0 /\ Live(slot') = {} /\ (slotMask' = 0 => slotThreshold' = 0)
      BY <3>1 DEF Destroy, ClearData, Live, AllRaw, MemoryInv
    <3> QED
      BY <3>2, <3>3 DEF MemoryInv
  <2>2. CASE Done("ok") /\ UNCHANGED <<table, call, probe, hand, strayed, rehash>>
    BY <2>2 DEF Done, table, MemoryInv
  <2> QED
    BY <1>2, <1>3, <2>1, <2>2, ManageOps
<1>4. CASE Grow \/ Retry
  BY <1>2, <1>4, GrowOps
<1>5. CASE slotMask = 0 /\ ~ Resizing
  <2>1. slotMask' = 0 /\ slotSize = 0 /\ slotThreshold = 0 /\ Live(slot) = {}
        /\ pc \notin {"place", "displace", "shift", "retry", "rehash"}
    BY <1>5, SameMask DEF MemoryInv
  <2>2. \/ BeginKeyOp \/ BeginManagement \/ WalkNext \/ NotFound \/ ReturnFound \/ KeepExisting
        \/ AssignExisting \/ EraseFound \/ HaveRoom \/ Return \/ UNCHANGED vars
    BY <1>5, <2>1 DEF Next, Step, Search, Erasing, Inserting, Rehashing, ShiftNext, ShiftDone, PlaceNext,
       PlaceInEmpty, AtEndOfChain, Displace, Displacing, PassOn, PutDown, GiveUp, Overwrite, MoveNext, RehashDone,
       Resizing
  <2>3. ~ AssignExisting /\ ~ EraseFound
    <3> SUFFICES ASSUME pc = "walk", InChain(probe.dist, CtrlAt(probe.index)) PROVE FALSE
      BY DEF AssignExisting, EraseFound, Looking
    <3>1. probe.index \in DOMAIN slot /\ IsUsed(ctrl[probe.index])
      BY InChainUsed
    <3>2. probe.index \in Live(slot)
      BY <3>1 DEF TypeInv, FormInv, OccupiedInv, Vacant, Live
    <3> QED
      BY <2>1, <3>2
  <2>4. ~ HaveRoom
    BY <2>1 DEF HaveRoom, NeedGrow
  <2>5. UNCHANGED table
    BY <2>2, <2>3, <2>4 DEF BeginKeyOp, BeginManagement, Begin, WalkNext, NotFound, ReturnFound, KeepExisting,
       Return, vars
  <2>6. pc' \notin {"place", "displace", "shift", "retry", "rehash"}
    <3>1. CASE NotFound
      <4>1. pc = "walk" /\ call.op \in KeyOps
        BY <3>1 DEF NotFound, TypeInv, StepInv, CallInv
      <4> QED
        BY <3>1, <4>1 DEF NotFound, KeyOps, Insertions, Done
    <3>2. CASE ~ NotFound
      BY <2>1, <2>2, <2>3, <2>4, <3>2 DEF BeginKeyOp, BeginManagement, Begin, WalkNext, ReturnFound, KeepExisting,
         Return, vars, Done
    <3> QED
      BY <3>1, <3>2
  <2> QED
    BY <2>1, <2>5, <2>6 DEF MemoryInv, table
<1> QED
  BY <1>1, <1>3, <1>4, <1>5, SameMask DEF Resizing

(* A new table is made of the elements of the old one. *)
LEMMA CreateMoved ==
  ASSUME TypeInv, SearchableInv, ~ strayed, Covered, MapInv, pc \in {"manage", "room", "retry"},
         NEW capacity, NEW m, NEW after, CreateSlots(capacity, m, after)
  PROVE  pending' = Live(slot) /\ old'.slot = slot /\ Live(slot') = {}
<1>1. Vacant = {} /\ DOMAIN ctrl = DOMAIN slot
  BY TableFacts DEF Vacant
<1>2. \A i \in Live(slot) : i \in DOMAIN slot /\ IsUsed(ctrl[i])
  <2>1. CASE pc = "retry"
    BY <2>1 DEF MapInv, CarryInv, Live
  <2>2. CASE pc # "retry"
    BY <1>1, <2>2 DEF SearchableInv, TableInv, CtrlMirrorsSlots, Live
  <2> QED
    BY <2>1, <2>2
<1>3. \A i \in DOMAIN slot : IsUsed(ctrl[i]) => i \in Live(slot)
  BY <1>1 DEF TypeInv, FormInv, OccupiedInv, Live
<1>4. slotMask = 0 => Live(slot) = {}
  BY DEF MapInv, MemoryInv
<1>5. {i \in OldIndexes \cap DOMAIN ctrl : slotMask # 0 /\ IsUsed(ctrl[i])} = Live(slot)
  BY <1>1, <1>2, <1>3, <1>4 DEF Covered
<1>6. slot' = AllRaw(capacity, Lookups(capacity)) /\ pending' = Live(slot) /\ old'.slot = slot
  BY <1>5 DEF CreateSlots
<1> QED
  BY <1>6 DEF AllRaw, Live

(* An element that is placed leaves the old table. *)
LEMMA PlacedMoved ==
  ASSUME TypeInv, MovedInv, pc \in {"place", "displace"}, Placed
  PROVE  /\ MovedInv'
         /\ Moving => /\ Live(old'.slot) = Live(old.slot) \ {NextPending}
                      /\ \A i \in Live(old'.slot) : old'.slot[i] = old.slot[i]
                      /\ pc' = "rehash" /\ ret' = ret
         /\ ~ Moving => old' = old /\ Done("inserted")
<1>1. CASE Moving
  <2> DEFINE s == [old.slot EXCEPT ![NextPending] = Raw]
  <2>1. old'.slot = s /\ pending' = pending \ {NextPending} /\ pc' = "rehash" /\ ret' = ret
    BY <1>1 DEF Placed, TypeInv, StepInv, RehashInv
  <2>2. Live(s) = Live(old.slot) \ {NextPending} /\ \A i \in Live(s) : s[i] = old.slot[i]
    BY DEF Live
  <2> HIDE DEF s
  <2> QED
    BY <1>1, <2>1, <2>2 DEF MovedInv
<1>2. CASE ~ Moving
  BY <1>2 DEF Placed, MovedInv
<1> QED
  BY <1>1, <1>2

(* What is pending and what is in the old table remain the same. *)
LEMMA NextMoved ==
  ASSUME TypeInv, SearchableInv, ~ strayed, Covered, MapInv, [Next]_vars
  PROVE  MovedInv'
<1>1. CASE UNCHANGED <<old, pending>>
  BY <1>1 DEF MapInv, MovedInv
<1>2. ASSUME pc \in {"manage", "room", "retry"}, NEW n, NEW m, NEW after, Resize(n, m, after)
      PROVE  MovedInv'
  <2>1. CASE CreateSlots(n, m, after)
    BY <1>2, <2>1, CreateMoved DEF MovedInv
  <2>2. CASE AllocationThrows(n)
    BY <1>1, <2>2 DEF AllocationThrows, rehash
  <2> QED
    BY <1>2, <2>1, <2>2 DEF Resize
<1>3. CASE Manage
  <2>1. CASE Clear \/ (Done("ok") /\ UNCHANGED <<table, call, probe, hand, strayed, rehash>>)
    BY <1>1, <2>1 DEF Clear, rehash
  <2> QED
    BY <1>2, <1>3, <2>1, ManageOps
<1>4. CASE Grow \/ Retry
  BY <1>2, <1>4, GrowOps
<1>5. CASE PlaceInEmpty \/ PutDown \/ Overwrite
  BY <1>5, PlacedMoved DEF MapInv, PlaceInEmpty, AtEndOfChain, PutDown, Displacing, Overwrite
<1>6. CASE RehashDone
  BY <1>6 DEF RehashDone, MovedInv, Moving, NoOld, Live
<1>7. CASE BeginKeyOp \/ BeginManagement \/ Search \/ Erasing \/ MoveNext \/ Return \/ HaveRoom \/ PlaceNext
           \/ Displace \/ PassOn \/ GiveUp \/ UNCHANGED vars
  <2>1. CASE BeginKeyOp \/ BeginManagement
    BY <1>1, <2>1 DEF BeginKeyOp, BeginManagement, Begin, rehash
  <2>2. CASE Search
    BY <1>1, <2>2 DEF Search, WalkNext, NotFound, ReturnFound, KeepExisting, AssignExisting, rehash
  <2>3. CASE Erasing
    BY <1>1, <2>3 DEF Erasing, EraseFound, ShiftNext, ShiftDone, rehash
  <2>4. CASE MoveNext \/ Return \/ HaveRoom \/ PlaceNext
    BY <1>1, <2>4 DEF MoveNext, Return, HaveRoom, PlaceNext, rehash
  <2>5. CASE Displace \/ PassOn \/ GiveUp
    BY <1>1, <2>5 DEF Displace, PassOn, GiveUp, rehash
  <2>6. CASE UNCHANGED vars
    BY <1>1, <2>6 DEF vars, rehash
  <2> QED
    BY <1>7, <2>1, <2>2, <2>3, <2>4, <2>5, <2>6
<1> QED
  BY <1>3, <1>4, <1>5, <1>6, <1>7 DEF Next, Step, Inserting, Rehashing

(* There is no result before the call has taken effect. *)
LEMMA NextResult ==
  ASSUME TypeInv, MapInv, [Next]_vars
  PROVE  ResultInv'
<1>1. ResultInv
  BY DEF MapInv
<1>2. ASSUME NEW n, NEW m, NEW after, Resize(n, m, after), pc \in {"manage", "room", "retry"},
             after = "done" => call.op \in Map!Managements
      PROVE  ResultInv'
  <2>1. call' = call /\ pending = {}
    BY <1>2 DEF Resize, TypeInv, StepInv, RehashInv
  <2>2. CASE CreateSlots(n, m, after)
    BY <1>1, <1>2, <2>1, <2>2 DEF CreateSlots, ResultInv
  <2>3. CASE AllocationThrows(n)
    BY <1>1, <1>2, <2>1, <2>3 DEF AllocationThrows, ResultInv, Done, rehash, Moving
  <2> QED
    BY <1>2, <2>2, <2>3 DEF Resize
<1>3. CASE Manage
  <2>1. CASE Clear \/ (Done("ok") /\ UNCHANGED <<table, call, probe, hand, strayed, rehash>>)
    BY <1>1, <2>1 DEF Clear, rehash, ResultInv, Done, Moving
  <2> QED
    BY <1>2, <1>3, <2>1, ManageOps
<1>4. CASE Grow \/ Retry
  BY <1>2, <1>4, GrowOps
<1>5. CASE BeginKeyOp \/ BeginManagement
  <2>1. PICK op, k, v, n, flag : Begin(op, k, v, n, flag) /\ (op \in KeyOps \/ k = Absent)
    BY <1>5 DEF BeginKeyOp, BeginManagement, KeyOps, Insertions
  <2>2. pc = "idle" /\ pc' \in {"walk", "manage"} /\ call'.op = op /\ call'.key = k /\ UNCHANGED <<ret, rehash>>
    BY <2>1 DEF Begin
  <2>3. pending' = {}
    BY <2>2 DEF TypeInv, StepInv, RehashInv, rehash
  <2> QED
    BY <1>1, <2>1, <2>2, <2>3 DEF ResultInv, Moving
<1>6. CASE Search
  <2>1. pc = "walk" /\ UNCHANGED <<call, pending, resume>> /\ (pc' = "done" \/ (pc' \in {"walk", "room"} /\ ret' = ret))
    <3>1. pc = "walk" => call.op \in KeyOps
      BY DEF TypeInv, StepInv, CallInv
    <3>2. CASE NotFound
      BY <3>1, <3>2 DEF NotFound, Done, KeyOps, rehash
    <3> QED
      BY <1>6, <3>2 DEF Search, WalkNext, ReturnFound, KeepExisting, AssignExisting, Looking, Done, rehash
  <2>2. pending = {}
    BY <2>1 DEF TypeInv, StepInv, RehashInv
  <2> QED
    BY <1>1, <2>1, <2>2 DEF ResultInv, Moving
<1>7. CASE Erasing
  BY <1>1, <1>7 DEF Erasing, EraseFound, ShiftNext, ShiftDone, Looking, ResultInv, rehash, TypeInv, StepInv, RehashInv,
     Moving
<1>8. CASE HaveRoom \/ PlaceNext \/ Displace \/ GiveUp \/ MoveNext
  BY <1>1, <1>8 DEF HaveRoom, PlaceNext, Displace, GiveUp, MoveNext, AtEndOfChain, ResultInv, rehash, Moving
<1>9. CASE PassOn
  BY <1>1, <1>9 DEF PassOn, Displacing, ResultInv, rehash, Moving
<1>10. CASE PlaceInEmpty \/ PutDown \/ Overwrite
  <2>1. Placed /\ pc \in {"place", "displace"}
    BY <1>10 DEF PlaceInEmpty, PutDown, Overwrite, AtEndOfChain, Displacing
  <2>2. UNCHANGED <<call, resume>> /\ (Moving \/ pc' = "done") /\ (Moving => ret' = ret /\ pc' = "rehash") /\ (~ Moving => pending' = {})
    BY <2>1 DEF Placed, Done, Moving
  <2> QED
    BY <1>1, <2>1, <2>2 DEF ResultInv, Moving
<1>11. CASE RehashDone
  BY <1>1, <1>11 DEF RehashDone, ResultInv, Moving, Done, TypeInv, StepInv, ControlOK
<1>12. CASE Return
  BY <1>1, <1>12 DEF Return, ResultInv, NoCall, rehash, TypeInv, StepInv, RehashInv, Moving
<1>13. CASE UNCHANGED vars
  BY <1>1, <1>13 DEF vars, rehash, ResultInv, Moving
<1> QED
  BY <1>3, <1>4, <1>5, <1>6, <1>7, <1>8, <1>9, <1>10, <1>11, <1>12, <1>13 DEF Next, Step, Inserting, Rehashing

(* An insertion that displaces or gives up loses no element. *)
LEMMA NextCarry ==
  ASSUME TypeInv, SearchableInv, ~ strayed, MapInv, [Next]_vars
  PROVE  CarryInv'
<1>1. CASE pc' \notin {"displace", "retry"}
  BY <1>1 DEF CarryInv
<1>2. pc' \in {"displace", "retry"} => Displace \/ PassOn \/ GiveUp \/ UNCHANGED vars
  <2>1. CASE BeginKeyOp \/ BeginManagement \/ Search
    BY <2>1 DEF BeginKeyOp, BeginManagement, Begin, Search, WalkNext, NotFound, ReturnFound, KeepExisting, AssignExisting,
       Looking, Done, TypeInv, StepInv, CallInv, KeyOps
  <2>2. CASE Erasing
    BY <2>2 DEF Erasing, EraseFound, ShiftNext, ShiftDone, Looking
  <2>3. CASE Rehashing \/ Return \/ HaveRoom
    BY <2>3 DEF Rehashing, MoveNext, RehashDone, Return, HaveRoom, Done, TypeInv, StepInv, ControlOK
  <2>4. CASE Manage \/ Grow \/ Retry
    BY <2>4, ManageOps, GrowOps DEF Resize, CreateSlots, AllocationThrows, Done, Clear
  <2>5. CASE PlaceNext \/ PlaceInEmpty \/ PutDown \/ Overwrite
    BY <2>5 DEF PlaceNext, PlaceInEmpty, PutDown, Overwrite, AtEndOfChain, Displacing, Placed, Done
  <2> QED
    BY <2>1, <2>2, <2>3, <2>4, <2>5 DEF Next, Step, Inserting
<1>3. CASE Displace
  <2>1. /\ pc' = "displace" /\ slot' = slot /\ hand'.at = probe.index /\ hand'.ctrl = IncDist(CtrlAt(probe.index))
        /\ pc = "place" /\ Vacant = {} /\ TableInv
    BY <1>3 DEF Displace, AtEndOfChain, Vacant, SearchableInv
  <2>2. ASSUME probe.index \in Live(slot) PROVE hand'.ctrl.dist >= 0
    <3>1. CtrlAt(probe.index) \in CtrlWord /\ CtrlAt(probe.index).dist >= 0
      BY <2>1, <2>2, Resident DEF TableInv, CtrlAt, IsUsed, TypeInv, FormInv, TableOK
    <3> QED
      BY <2>1, <3>1 DEF IncDist, Ctrl, CtrlWord
  <2> QED
    BY <2>1, <2>2 DEF CarryInv
<1>4. CASE PassOn
  <2> DEFINE i == probe.index
             c == ctrl[i]
             a == hand.at
             swaps == IsPoorerThan(c)
             carried == IncDist(IF swaps THEN c ELSE hand.ctrl)
             gaveUp == ~ Moving /\ TooFar(carried.dist)
             swapped == IF swaps THEN [ctrl EXCEPT ![i] = hand.ctrl] ELSE ctrl
  <2>1. Displacing /\ TableInv /\ Vacant = {a}
    BY <1>4 DEF PassOn, Displacing, SearchableInv, Vacant
  <2>2. /\ CtrlAt(i) = c /\ c # Empty /\ Read(a) = {slot[a]} /\ Read(i) = {slot[i]}
        /\ a < i /\ a \in Nat /\ i \in Nat /\ hand.ctrl \in CtrlWord /\ hand.ctrl.dist >= 0
        /\ a \in DOMAIN slot /\ i \in DOMAIN slot /\ c \in CtrlWord /\ c.dist >= 0 /\ DOMAIN ctrl = DOMAIN slot
    BY <1>4, <2>1, Carrying, TableFacts DEF PassOn, Live
  <2>3. /\ slot' = IF swaps THEN [slot EXCEPT ![i] = slot[a], ![a] = slot[i]] ELSE slot
        /\ ctrl' = IF gaveUp THEN [swapped EXCEPT ![a] = carried] ELSE swapped
        /\ hand' = IF gaveUp THEN NoHand ELSE [hand EXCEPT !.ctrl = carried]
        /\ pc' = (IF gaveUp THEN "retry" ELSE "displace")
    BY <1>4, <2>1, <2>2 DEF PassOn, Displacing
  <2>4. carried.dist >= 0
    BY <2>2 DEF IncDist, Ctrl, CtrlWord
  <2>5. hand = [at |-> hand.at, ctrl |-> hand.ctrl]
    BY DEF TypeInv, StepInv, ControlOK
  <2> HIDE DEF carried, gaveUp, c
  <2>6. CASE ~ gaveUp
    <3>1. hand'.ctrl = carried /\ pc' = "displace"
      BY <2>3, <2>5, <2>6
    <3> QED
      BY <2>4, <3>1 DEF CarryInv
  <2>7. CASE gaveUp
    <3>1. /\ DOMAIN slot' = DOMAIN slot /\ \A x \in DOMAIN slot : x # i /\ x # a => slot'[x] = slot[x]
          /\ \A x \in DOMAIN slot : x # i /\ x # a => ctrl'[x] = ctrl[x]
          /\ ctrl'[a] = carried /\ ctrl'[i] \in {hand.ctrl, c}
      <4>1. /\ DOMAIN slot' = DOMAIN slot
            /\ \A x \in DOMAIN slot : x # i /\ x # a => slot'[x] = slot[x]
        BY <2>2, <2>3
      <4>2. /\ DOMAIN swapped = DOMAIN slot /\ swapped[i] \in {hand.ctrl, c}
            /\ \A x \in DOMAIN slot : x # i => swapped[x] = ctrl[x]
        BY <2>2 DEF c
      <4>3. ctrl' = [swapped EXCEPT ![a] = carried]
        BY <2>3, <2>7
      <4> HIDE DEF swapped, swaps
      <4>4. a # i
        BY <2>2
      <4> QED
        BY <2>2, <4>1, <4>2, <4>3, <4>4
    <3>2. \A x \in DOMAIN slot : slot[x] # Raw /\ x # a => IsUsed(ctrl[x])
      BY <2>1, <2>2 DEF TableInv, CtrlMirrorsSlots
    <3>3. \A x \in Live(slot') : IsUsed(ctrl'[x])
      BY <2>2, <2>4, <3>1, <3>2 DEF Live, IsUsed
    <3> QED
      BY <2>3, <2>7, <3>3 DEF CarryInv
  <2> QED
    BY <2>6, <2>7
<1>5. CASE GiveUp
  <2>1. /\ pc = "displace" /\ pc' = "retry" /\ slot' = slot /\ ctrl' = [ctrl EXCEPT ![hand.at] = hand.ctrl]
        /\ TableInv /\ Vacant = {hand.at} /\ DOMAIN ctrl = DOMAIN slot
    BY <1>5, TableFacts DEF GiveUp, SearchableInv, Vacant
  <2>2. \A x \in Live(slot) : x \in DOMAIN slot /\ (x # hand.at => IsUsed(ctrl[x]))
    BY <2>1 DEF TableInv, CtrlMirrorsSlots, Live
  <2>3. hand.at \in Live(slot) => hand.ctrl.dist >= 0
    BY <2>1 DEF MapInv, CarryInv
  <2> QED
    BY <2>1, <2>2, <2>3 DEF CarryInv, IsUsed
<1>6. CASE UNCHANGED vars
  BY <1>6 DEF vars, table, MapInv, CarryInv, Live
<1> QED
  BY <1>1, <1>2, <1>3, <1>4, <1>5, <1>6

-----------------------------------------------------------------------------
(* Steps of the table as steps of the map *)

AbstractStep == [Map!Next]_Map!mapVars

(* A state in which no element has strayed. *)
Sound == TypeInv /\ SearchableInv /\ ~ strayed /\ MapInv

(* Each key has one element, before a step and after it. *)
LEMMA Keyed ==
  ASSUME Sound, TypeInv', SearchableInv', ~ strayed'
  PROVE  /\ KeyedOnce(Elements) /\ KeyedOnce(Elements')
         /\ Contents = ContentsOf(Elements) /\ Contents' = ContentsOf(Elements')
<1>1. UniqueKeys /\ UniqueKeys'
  BY DEF Sound, SearchableInv, CourseInv
<1> QED
  BY <1>1, ElementsKeyed, ElementsKeyedNext DEF Sound

(* A step that keeps the elements and the result does not show. *)
LEMMA Silent ==
  ASSUME Sound, TypeInv', SearchableInv', ~ strayed', Elements' = Elements, ret' = ret
  PROVE  AbstractStep
<1>1. Contents' = Contents
  BY Keyed
<1> QED
  BY <1>1 DEF AbstractStep, Map!mapVars

(* A step with a result is an operation of the map. *)
LEMMA Effective ==
  ASSUME Sound, pc \notin {"done", "shift"}, Map!Operation
  PROVE  AbstractStep
<1>1. ret = NoResult
  BY DEF Sound, MapInv, ResultInv
<1> QED
  BY <1>1 DEF AbstractStep, Map!Next, Map!NoResult, NoResult

(* The elements of a table that is not being rehashed are in its slots. *)
LEMMA NoneOld ==
  ASSUME Sound, pending = {}
  PROVE  Live(old.slot) = {} /\ Elements = ElementsOf(slot)
BY DEF Sound, MapInv, MovedInv, Elements, ElementsOf

(* The key that a call is about has its element there, or none. *)
LEMMA KeyStored ==
  ASSUME Sound, pc = "walk", NEW op, Looking(op), NEW e \in Hits
  PROVE  /\ call.key \in Key /\ call.op = op /\ e = slot[probe.index] /\ probe.index \in Live(slot)
         /\ e \in Elements /\ e \in Element /\ e.key = call.key
         /\ e.val = Contents[call.key] /\ e.val # Absent
<1>1. TableInv /\ UniqueKeys
  BY DEF Sound, SearchableInv, CourseInv
<1>2. /\ e = slot[probe.index] /\ e \in Element /\ e.key = probe.key /\ probe.key = call.key
      /\ probe.index \in Live(slot) /\ call.op = op
  BY <1>1, Found DEF Sound, TypeInv, StepInv, CallInv, Looking
<1>3. e \in Elements
  BY <1>2 DEF Elements, ElementsOf
<1>4. KeyedOnce(Elements) /\ Contents = ContentsOf(Elements)
  BY <1>1, ElementsKeyed DEF Sound
<1>5. e.key \in Key /\ e.val # Absent /\ ContentsOf(Elements)[e.key] = e.val
  BY <1>3, <1>4, Lookup
<1> QED
  BY <1>2, <1>3, <1>4, <1>5

(* A key that no slot holds has no value. *)
LEMMA KeyMissing ==
  ASSUME Sound, pending = {}, NEW k \in Key, NotStored(k, slot)
  PROVE  Contents[k] = Absent
<1>1. UniqueKeys
  BY DEF Sound, SearchableInv, CourseInv
<1>2. ~ \E e \in Elements : e.key = k
  BY NoneOld DEF ElementsOf, NotStored
<1>3. Contents = ContentsOf(Elements)
  BY <1>1, ElementsKeyed DEF Sound
<1> QED
  BY <1>2, <1>3 DEF ContentsOf

(* A find(), and an insertion that finds its key. *)
LEMMA SearchMaps ==
  ASSUME Sound, TypeInv', SearchableInv', ~ strayed', Search
  PROVE  AbstractStep
<1>1. pc = "walk" /\ pending = {} /\ old' = old /\ call.op \in KeyOps /\ call.key \in Key /\ probe.key = call.key
  BY DEF Search, WalkNext, NotFound, ReturnFound, KeepExisting, AssignExisting, Looking, rehash, Sound, TypeInv,
     StepInv, RehashInv, CallInv
<1>2. slot' = slot => Elements' = Elements /\ Contents' = Contents
  <2>1. slot' = slot => Elements' = Elements
    BY <1>1 DEF Elements
  <2> QED
    BY <2>1, Keyed
<1>3. CASE WalkNext
  BY <1>2, <1>3, Silent DEF WalkNext, table
<1>4. CASE NotFound
  <2>1. NotStored(call.key, slot)
    BY <1>1, <1>4, WalkedIsAbsent DEF NotFound, Sound, SearchableInv, CourseInv
  <2>2. Contents[call.key] = Absent /\ Contents' = Contents /\ slot' = slot
    BY <1>1, <1>2, <1>4, <2>1, KeyMissing DEF NotFound, table
  <2>3. CASE call.op \in Insertions
    <3>1. ret' = ret
      BY <1>4, <2>3 DEF NotFound, Insertions
    <3> QED
      BY <1>2, <2>2, <3>1, Silent
  <2>4. CASE call.op = "find"
    <3>1. Map!Find(call.key)
      BY <1>4, <2>2, <2>4 DEF NotFound, Done, Result, Map!Find, Map!Result, Insertions
    <3>2. Map!Operation
      BY <1>1, <3>1 DEF Map!Operation
    <3> QED
      BY <1>1, <3>2, Effective
  <2>5. CASE call.op = "erase"
    <3>1. Done("none")
      BY <1>4, <2>5 DEF NotFound, Insertions
    <3>2. Contents' = [Contents EXCEPT ![call.key] = Absent]
      BY <1>1, <2>2 DEF Contents
    <3>3. Map!Erase(call.key)
      BY <2>2, <2>5, <3>1, <3>2 DEF Done, Result, Map!Erase, Map!Result, Map!Has
    <3>4. Map!Operation
      BY <1>1, <3>3 DEF Map!Operation
    <3> QED
      BY <1>1, <3>4, Effective
  <2> QED
    BY <1>1, <2>3, <2>4, <2>5 DEF KeyOps
<1>5. CASE ReturnFound
  <2>1. PICK e \in Hits : Done(e.val) /\ slot' = slot
    BY <1>5 DEF ReturnFound, table
  <2>2. call.op = "find" /\ e.val = Contents[call.key]
    BY <1>1, <1>5, KeyStored DEF ReturnFound
  <2>3. Map!Find(call.key)
    BY <1>2, <2>1, <2>2 DEF Done, Result, Map!Find, Map!Result
  <2>4. Map!Operation
    BY <1>1, <2>3 DEF Map!Operation
  <2> QED
    BY <1>1, <2>4, Effective
<1>6. CASE KeepExisting
  <2>1. PICK e \in Hits : Done("exists") /\ slot' = slot
    BY <1>6 DEF KeepExisting, table
  <2>2. call.op = "insert" /\ Contents[call.key] # Absent
    BY <1>1, <1>6, KeyStored DEF KeepExisting
  <2>3. Map!Keep(call.key)
    BY <1>2, <2>1, <2>2 DEF Done, Result, Map!Keep, Map!Result, Map!Has
  <2>4. Map!Operation
    BY <1>1, <2>3 DEF Map!Operation
  <2> QED
    BY <1>1, <2>4, Effective
<1>7. CASE AssignExisting
  <2> DEFINE i == probe.index
  <2>1. PICK e \in Hits : Done("exists") /\ slot' = [slot EXCEPT ![i] = [key |-> e.key, val |-> call.val]]
    BY <1>7 DEF AssignExisting
  <2>2. /\ call.op = "insert_or_assign" /\ Contents[call.key] # Absent
        /\ e = slot[i] /\ e.key = call.key /\ i \in Live(slot) /\ e \in Element
    BY <1>1, <1>7, KeyStored DEF AssignExisting
  <2> DEFINE n == [key |-> call.key, val |-> call.val]
  <2>3. call.val \in Value /\ n \in Element /\ n # Raw /\ n.key = call.key /\ n.val = call.val
    <3>1. call.val \in Value
      BY <2>2 DEF Sound, TypeInv, StepInv, CallInv, Insertions
    <3>2. n \in Element
      BY <1>1, <3>1 DEF Element
    <3> QED
      BY <3>1, <3>2, KeyAssumption DEF Element
  <2> HIDE DEF n, i
  <2>4. slot' = [slot EXCEPT ![i] = n]
    BY <2>1, <2>2 DEF n
  <2>5. /\ Live(slot') = Live(slot) /\ slot'[i] = n /\ slot'[i] # Raw
        /\ \A x \in Live(slot') : x # i => slot'[x] = slot[x]
    BY <2>2, <2>3, <2>4 DEF Live
  <2>6. Elements = ElementsOf(slot) /\ Elements' = ElementsOf(slot')
    <3>1. Live(old'.slot) = {} /\ Elements = ElementsOf(slot)
      BY <1>1, NoneOld
    <3> QED
      BY <3>1 DEF Elements, ElementsOf
  <2>7. n \in Elements'
    BY <2>2, <2>5, <2>6 DEF ElementsOf
  <2>8. \A f \in Element : f.key # call.key => (f \in Elements <=> f \in Elements')
    <3>1. \A x \in Live(slot) : x # i => slot'[x] = slot[x]
      BY <2>5
    <3>2. slot[i].key = call.key /\ slot'[i].key = call.key
      BY <2>2, <2>3, <2>5
    <3> QED
      BY <2>5, <2>6, <3>1, <3>2 DEF ElementsOf
  <2>9. Contents' = [Contents EXCEPT ![call.key] = Contents'[call.key]]
    BY <1>1, <2>8, Keyed, LookupChange
  <2>10. Contents'[call.key] = call.val
    BY <2>3, <2>7, Keyed, Lookup
  <2>11. Map!Assign(call.key, call.val)
    BY <2>1, <2>2, <2>9, <2>10 DEF Done, Result, Map!Assign, Map!Result, Map!Has
  <2>12. Map!Operation
    BY <1>1, <2>3, <2>11 DEF Map!Operation
  <2> QED
    BY <1>1, <2>12, Effective
<1> QED
  BY <1>3, <1>4, <1>5, <1>6, <1>7 DEF Search

(* An erasure takes effect when it destroys the element; the shifting does not show. *)
LEMMA EraseMaps ==
  ASSUME Sound, TypeInv', SearchableInv', ~ strayed', Erasing
  PROVE  AbstractStep
<1> DEFINE i == probe.index
<1>1. /\ pc \in {"walk", "shift"} /\ pending = {} /\ old' = old /\ TableInv /\ Elements = ElementsOf(slot)
      /\ Elements' = ElementsOf(slot')
  <2>1. pc \in {"walk", "shift"} /\ old' = old
    BY DEF Erasing, EraseFound, ShiftNext, ShiftDone, Looking, rehash
  <2>2. pending = {} /\ TableInv
    BY <2>1 DEF Sound, TypeInv, StepInv, RehashInv, SearchableInv
  <2>3. Live(old'.slot) = {} /\ Elements = ElementsOf(slot)
    BY <2>1, <2>2, NoneOld
  <2> QED
    BY <2>1, <2>2, <2>3 DEF Elements, ElementsOf
<1>2. CASE EraseFound
  <2>1. PICK e \in Hits : Result("erased") /\ slot' = [slot EXCEPT ![i] = Raw]
    BY <1>2 DEF EraseFound
  <2>2. /\ call.op = "erase" /\ call.key \in Key /\ Contents[call.key] # Absent /\ pc = "walk"
        /\ e = slot[i] /\ e.key = call.key /\ i \in Live(slot)
    BY <1>2, KeyStored DEF EraseFound, Looking
  <2> HIDE DEF i
  <2>3. /\ Live(slot') = Live(slot) \ {i} /\ \A x \in Live(slot') : slot'[x] = slot[x]
    BY <2>1, <2>2 DEF Live
  <2>4. UniqueKeys
    BY DEF Sound, SearchableInv, CourseInv
  <2>5. /\ \A f \in Elements' : f.key # call.key
        /\ \A f \in Element : f.key # call.key => (f \in Elements <=> f \in Elements')
    BY <1>1, <2>2, <2>3, <2>4 DEF ElementsOf, UniqueKeys
  <2>6. Contents' = [Contents EXCEPT ![call.key] = Contents'[call.key]]
    BY <2>2, <2>5, Keyed, LookupChange
  <2>7. Contents'[call.key] = Absent
    BY <2>2, <2>5, Keyed DEF ContentsOf
  <2>8. Map!Erase(call.key)
    BY <2>1, <2>2, <2>6, <2>7 DEF Result, Map!Erase, Map!Result, Map!Has
  <2>9. Map!Operation
    BY <2>2, <2>8 DEF Map!Operation
  <2> QED
    BY <2>2, <2>9, Effective
<1>3. CASE ShiftNext
  <2> DEFINE n == i + 1
  <2>1. /\ pc = "shift" /\ Vacant = {i} /\ i \in Nat /\ i \in DOMAIN slot /\ slot[i] = Raw /\ NotAtHome(CtrlAt(n))
    BY <1>3 DEF ShiftNext, NextCtrl, Vacant, Sound, TypeInv, StepInv, ControlOK, HandInv, SearchableInv, CourseInv,
       VacantInv
  <2>2. n \in Nat /\ n # i /\ n \in DOMAIN slot /\ slot[n] # Raw
    <3>1. n \in Nat /\ n # i
      BY <2>1
    <3>2. CtrlAt(n).dist > 0
      BY <2>1 DEF NotAtHome
    <3>3. n \in DOMAIN ctrl /\ CtrlAt(n) = ctrl[n]
      BY <3>2, Words DEF CtrlAt
    <3>4. n \in DOMAIN slot /\ DOMAIN ctrl = DOMAIN slot /\ IsUsed(ctrl[n])
      BY <3>2, <3>3, TableFacts DEF IsUsed, CtrlWord, Sound
    <3> QED
      BY <1>1, <2>1, <3>1, <3>4 DEF TableInv, CtrlMirrorsSlots
  <2>3. Read(n) = {slot[n]}
    BY <2>2 DEF Read
  <2>4. slot' = [slot EXCEPT ![i] = slot[n], ![n] = Raw] /\ ret' = ret
    BY <1>3, <2>3 DEF ShiftNext
  <2> HIDE DEF n, i
  <2>5. /\ DOMAIN slot' = DOMAIN slot /\ slot'[i] = slot[n] /\ slot'[n] = Raw
        /\ \A x \in DOMAIN slot : x # i /\ x # n => slot'[x] = slot[x]
    BY <2>1, <2>2, <2>4
  <2>6. ElementsOf(slot') = ElementsOf(slot)
    <3>1. ASSUME NEW x \in Live(slot') PROVE \E y \in Live(slot) : slot'[x] = slot[y]
      BY <2>2, <2>5 DEF Live
    <3>2. ASSUME NEW x \in Live(slot) PROVE \E y \in Live(slot') : slot[x] = slot'[y]
      BY <2>1, <2>2, <2>5 DEF Live
    <3> QED
      BY <3>1, <3>2 DEF ElementsOf
  <2> QED
    BY <1>1, <2>4, <2>6, Silent
<1>4. CASE ShiftDone
  BY <1>1, <1>4, Silent DEF ShiftDone
<1> QED
  BY <1>2, <1>3, <1>4 DEF Erasing

(* A table of another size is made of the same elements, or the allocation throws. *)
LEMMA ResizeMaps ==
  ASSUME Sound, TypeInv', SearchableInv', ~ strayed', Covered, pc \in {"manage", "room", "retry"},
         NEW n, NEW m, NEW after, Resize(n, m, after),
         \/ call.op \in Map!Managements /\ call.key = Absent
         \/ call.op \in Map!Insertions /\ call.key \in Key
  PROVE  AbstractStep
<1>1. pending = {}
  BY DEF Sound, TypeInv, StepInv, RehashInv
<1>2. Elements = ElementsOf(slot) /\ Live(old.slot) = {}
  BY <1>1, NoneOld
<1>3. CASE CreateSlots(n, m, after)
  <2>1. old'.slot = slot /\ Live(slot') = {} /\ ret' = ret
    BY <1>3, CreateMoved DEF Sound, CreateSlots
  <2>2. Elements' = Elements
    BY <1>2, <2>1 DEF Elements, ElementsOf
  <2> QED
    BY <2>1, <2>2, Silent
<1>4. CASE AllocationThrows(n)
  <2>1. Contents' = Contents /\ Done("throws")
    BY <1>4 DEF AllocationThrows, rehash, Contents, Live
  <2>2. Map!Throw(call.op, call.key)
    BY <2>1 DEF Done, Result, Map!Throw, Map!Result
  <2>3. Map!Operation
    BY <2>2 DEF Map!Operation
  <2> QED
    BY <2>3, Effective
<1> QED
  BY <1>3, <1>4 DEF Resize

(* clear() empties the map; the other calls leave it, throw, or begin a rehash. *)
LEMMA ManageMaps ==
  ASSUME Sound, TypeInv', SearchableInv', ~ strayed', Covered, Manage
  PROVE  AbstractStep
<1>1. /\ pc = "manage" /\ pending = {} /\ old = NoOld
  BY ManageOps DEF Sound, TypeInv, StepInv, RehashInv
<1>2. CASE Clear
  <2>1. Live(slot') = {} /\ old' = NoOld /\ Done("ok") /\ call.op = "clear" /\ Live(NoOld.slot) = {}
    BY <1>1, <1>2 DEF Clear, Destroy, ClearData, Managing, AllRaw, Live, rehash, NoOld
  <2>2. Contents' = [k \in Key |-> Absent]
    BY <2>1 DEF Contents
  <2>3. call.key = Absent
    BY <2>1 DEF Sound, MapInv, ResultInv, KeyOps, Insertions
  <2>4. Map!Clear("clear")
    BY <2>1, <2>2, <2>3 DEF Done, Result, Map!Clear, Map!Result
  <2>5. Map!Operation
    BY <2>4 DEF Map!Operation
  <2> QED
    BY <1>1, <2>5, Effective
<1>3. ASSUME call.op \in Map!Managements PROVE call.key = Absent
  BY <1>3 DEF Sound, MapInv, ResultInv, KeyOps, Insertions, Map!Managements
<1>4. CASE call.op \in Map!Managements /\ Done("ok") /\ UNCHANGED <<table, call, probe, hand, strayed, rehash>>
  <2>1. Contents' = Contents
    BY <1>4 DEF Contents, Live, table, rehash
  <2>2. Map!Resize(call.op)
    BY <1>3, <1>4, <2>1 DEF Done, Result, Map!Resize, Map!Result
  <2>3. Map!Operation
    BY <1>4, <2>2 DEF Map!Operation
  <2> QED
    BY <1>1, <2>3, Effective
<1>5. CASE call.op \in Map!Managements /\ \E n \in Int, m \in LoadFactors : Resize(CalcCapacity(n), m, "done")
  BY <1>1, <1>3, <1>5, ResizeMaps
<1> QED
  BY <1>2, <1>4, <1>5, ManageOps DEF Sound

(* A growth throws or begins a rehash. *)
LEMMA GrowMaps ==
  ASSUME Sound, TypeInv', SearchableInv', ~ strayed', Covered, Grow \/ Retry
  PROVE  AbstractStep
<1>1. call.op \in Map!Insertions /\ call.key \in Key
  BY GrowOps DEF Sound, Map!Insertions, Insertions
<1> QED
  BY <1>1, GrowOps, ResizeMaps DEF Sound

(* An element that is placed was in the old table, or is new to the map. *)
LEMMA PlacedMaps ==
  ASSUME Sound, TypeInv', SearchableInv', ~ strayed', pc \in {"place", "displace"}, Placed,
         ElementsOf(slot') = ElementsOf(slot) \cup {NewElement}
  PROVE  AbstractStep
<1>1. /\ NewElement \in Element /\ NewElement.key = probe.key
      /\ Moving => NextPending \in Live(old.slot) /\ NewElement = old.slot[NextPending]
  BY NewElementType DEF Sound
<1>2. MovedInv
  BY DEF Sound, MapInv
<1>3. CASE Moving
  <2>1. /\ Live(old'.slot) = Live(old.slot) \ {NextPending}
        /\ \A i \in Live(old'.slot) : old'.slot[i] = old.slot[i]
        /\ ret' = ret
    BY <1>2, <1>3, PlacedMoved DEF Sound
  <2>2. ElementsOf(old.slot) = ElementsOf(old'.slot) \cup {NewElement}
    BY <1>1, <1>3, <2>1 DEF ElementsOf
  <2>3. Elements' = Elements
    BY <2>2 DEF Elements
  <2> QED
    BY <2>1, <2>3, Silent
<1>4. CASE ~ Moving
  <2>1. old' = old /\ Done("inserted")
    BY <1>2, <1>4, PlacedMoved DEF Sound
  <2>2. /\ call.op \in Insertions /\ call.key = probe.key /\ call.key \in Key /\ call.val \in Value
        /\ NewElement = [key |-> call.key, val |-> call.val]
    BY <1>4 DEF Sound, TypeInv, StepInv, CallInv, KeyOps, NewElement
  <2>3. Elements' = Elements \cup {NewElement}
    BY <2>1 DEF Elements
  <2>4. NotStored(call.key, slot)
    BY <1>4 DEF Sound, SearchableInv, CourseInv, AbsentInv
  <2>5. Contents[call.key] = Absent
    BY <1>4, <2>2, <2>4, KeyMissing DEF Moving
  <2>6. \A f \in Element : f.key # call.key => (f \in Elements <=> f \in Elements')
    BY <2>2, <2>3
  <2>7. Contents' = [Contents EXCEPT ![call.key] = Contents'[call.key]]
    BY <2>2, <2>6, Keyed, LookupChange
  <2>8. NewElement \in Elements' /\ NewElement.key = call.key /\ NewElement.val = call.val
    BY <2>2, <2>3
  <2>9. Contents'[call.key] = call.val
    BY <2>8, Keyed, Lookup
  <2>10. Map!Insert(call.op, call.key, call.val)
    BY <2>1, <2>5, <2>7, <2>9 DEF Done, Result, Map!Insert, Map!Result, Map!Has
  <2>11. Map!Operation
    BY <2>2, <2>10 DEF Map!Operation, Map!Insertions, Insertions
  <2> QED
    BY <2>11, Effective
<1> QED
  BY <1>3, <1>4

(* The steps of an insertion that find no place, or find one. *)
LEMMA PlaceInEmptyMaps ==
  ASSUME Sound, TypeInv', SearchableInv', ~ strayed', PlaceInEmpty
  PROVE  AbstractStep
<1> DEFINE i == probe.index
<1>1. /\ pc = "place" /\ Placed /\ slot' = [slot EXCEPT ![i] = NewElement] /\ CtrlAt(i) = Empty
      /\ Vacant = {} /\ TableInv
  BY DEF PlaceInEmpty, AtEndOfChain, Vacant, Sound, SearchableInv
<1>2. i \in DOMAIN slot /\ slot[i] = Raw
  <2>1. i \in DOMAIN ctrl /\ ctrl[i] = Empty
    BY <1>1, Words DEF CtrlAt
  <2> QED
    BY <1>1, <2>1, Words, TableFacts DEF TableInv, CtrlMirrorsSlots, Sound
<1>3. NewElement # Raw
  BY <1>1, NewElementType, KeyAssumption DEF Element, Sound
<1> HIDE DEF i
<1>4. /\ DOMAIN slot' = DOMAIN slot /\ slot'[i] = NewElement
      /\ \A x \in DOMAIN slot : x # i => slot'[x] = slot[x]
  BY <1>1, <1>2
<1>5. ElementsOf(slot') = ElementsOf(slot) \cup {NewElement}
  <2>1. Live(slot') = Live(slot) \cup {i}
    BY <1>2, <1>3, <1>4 DEF Live
  <2>2. \A x \in Live(slot) : x # i /\ slot'[x] = slot[x]
    BY <1>2, <1>4 DEF Live
  <2> QED
    BY <1>4, <2>1, <2>2 DEF ElementsOf
<1> QED
  BY <1>1, <1>5, PlacedMaps

(* Two elements that change places stay the same elements. *)
LEMMA PassOnMaps ==
  ASSUME Sound, TypeInv', SearchableInv', ~ strayed', PassOn
  PROVE  AbstractStep
<1> DEFINE i == probe.index
           a == hand.at
<1>1. Displacing /\ CtrlAt(i) # Empty
  BY DEF PassOn
<1>2. /\ Read(a) = {slot[a]} /\ Read(i) = {slot[i]} /\ a < i /\ a \in Nat /\ i \in Nat
      /\ a \in Live(slot) /\ i \in Live(slot)
  BY <1>1, Carrying DEF Sound
<1>3. /\ slot' = slot \/ slot' = [slot EXCEPT ![i] = slot[a], ![a] = slot[i]]
      /\ old' = old /\ ret' = ret
  BY <1>2 DEF PassOn, rehash
<1>4. CASE slot' = slot
  BY <1>3, <1>4, Silent DEF Elements
<1>5. CASE slot' = [slot EXCEPT ![i] = slot[a], ![a] = slot[i]]
  <2> HIDE DEF i, a
  <2>1. /\ DOMAIN slot' = DOMAIN slot /\ slot'[i] = slot[a] /\ slot'[a] = slot[i] /\ a # i
        /\ \A x \in DOMAIN slot : x # i /\ x # a => slot'[x] = slot[x]
    BY <1>2, <1>5 DEF Live
  <2>2. ElementsOf(slot') = ElementsOf(slot)
    <3>1. ASSUME NEW x \in Live(slot') PROVE \E y \in Live(slot) : slot'[x] = slot[y]
      BY <1>2, <2>1 DEF Live
    <3>2. ASSUME NEW x \in Live(slot) PROVE \E y \in Live(slot') : slot[x] = slot'[y]
      BY <1>2, <2>1 DEF Live
    <3> QED
      BY <3>1, <3>2 DEF ElementsOf
  <2> QED
    BY <1>3, <2>2, Silent DEF Elements
<1> QED
  BY <1>3, <1>4, <1>5

(* The element in the hand finds its slot, and the new one the slot it has left. *)
LEMMA PutDownMaps ==
  ASSUME Sound, TypeInv', SearchableInv', ~ strayed', PutDown
  PROVE  AbstractStep
<1> DEFINE i == probe.index
           a == hand.at
<1>1. Displacing /\ pc = "displace" /\ Vacant = {a} /\ CtrlAt(i) = Empty /\ Placed /\ TableInv
  BY DEF PutDown, Displacing, Vacant, Sound, SearchableInv
<1>2. /\ Read(a) = {slot[a]} /\ CtrlAt(i) = ctrl[i] /\ i \in DOMAIN slot /\ a # i /\ a \in Live(slot)
  BY <1>1, Carrying DEF Sound
<1>3. slot' = [slot EXCEPT ![i] = slot[a], ![a] = NewElement]
  BY <1>2 DEF PutDown
<1>4. NewElement # Raw
  BY <1>1, NewElementType, KeyAssumption DEF Element, Sound
<1>5. slot[i] = Raw
  <2>1. ctrl[i] = Empty /\ ~ IsUsed(ctrl[i]) /\ i \in DOMAIN ctrl \ Vacant
    BY <1>1, <1>2, Words, TableFacts DEF Sound
  <2> QED
    BY <1>1, <2>1 DEF TableInv, CtrlMirrorsSlots
<1> HIDE DEF i, a
<1>6. /\ DOMAIN slot' = DOMAIN slot /\ slot'[i] = slot[a] /\ slot'[a] = NewElement
      /\ \A x \in DOMAIN slot : x # i /\ x # a => slot'[x] = slot[x]
  BY <1>2, <1>3 DEF Live
<1>7. ElementsOf(slot') = ElementsOf(slot) \cup {NewElement}
  <2>1. ASSUME NEW x \in Live(slot') PROVE slot'[x] = NewElement \/ \E y \in Live(slot) : slot'[x] = slot[y]
    BY <1>2, <1>6 DEF Live
  <2>2. ASSUME NEW x \in Live(slot) PROVE \E y \in Live(slot') : slot[x] = slot'[y]
    BY <1>2, <1>5, <1>6 DEF Live
  <2>3. a \in Live(slot')
    BY <1>2, <1>4, <1>6 DEF Live
  <2> QED
    BY <1>6, <2>1, <2>2, <2>3 DEF ElementsOf
<1> QED
  BY <1>1, <1>7, PlacedMaps

(* The loop of a rehash, its start and its end. *)
LEMMA RehashingMaps ==
  ASSUME Sound, TypeInv', SearchableInv', ~ strayed', Rehashing
  PROVE  AbstractStep
<1>1. CASE MoveNext
  BY <1>1, Silent DEF MoveNext, table, rehash, Elements
<1>2. CASE RehashDone
  <2>1. pc = "rehash" /\ pending = {} /\ slot' = slot /\ old' = NoOld /\ Live(NoOld.slot) = {}
    BY <1>2 DEF RehashDone, Moving, table, NoOld, Live
  <2>2. Elements' = Elements
    <3>1. Elements = ElementsOf(slot)
      BY <2>1, NoneOld
    <3> QED
      BY <2>1, <3>1 DEF Elements, ElementsOf
  <2>3. CASE resume = "done"
    <3>1. Done("ok") /\ call.op \in Map!Managements
      BY <1>2, <2>1, <2>3 DEF RehashDone, Sound, MapInv, ResultInv
    <3>2. call.key = Absent
      BY <3>1 DEF Sound, MapInv, ResultInv, KeyOps, Insertions, Map!Managements
    <3>3. Contents' = Contents
      BY <2>2, Keyed
    <3>4. Map!Resize(call.op)
      BY <3>1, <3>2, <3>3 DEF Done, Result, Map!Resize, Map!Result
    <3>5. Map!Operation
      BY <3>1, <3>4 DEF Map!Operation
    <3> QED
      BY <2>1, <3>5, Effective
  <2>4. CASE resume # "done"
    BY <1>2, <2>2, <2>4, Silent DEF RehashDone
  <2> QED
    BY <2>3, <2>4
<1> QED
  BY <1>1, <1>2 DEF Rehashing

(* Every step of the table is one of the map, or none. *)
LEMMA StepMaps ==
  ASSUME Sound, TypeInv', SearchableInv', ~ strayed', Covered, [Next]_vars
  PROVE  AbstractStep
<1>1. CASE BeginKeyOp \/ BeginManagement
  <2>1. UNCHANGED <<slot, old, ret>>
    BY <1>1 DEF BeginKeyOp, BeginManagement, Begin, table, rehash
  <2> QED
    BY <2>1, Silent DEF Elements
<1>2. CASE HaveRoom \/ PlaceNext \/ Displace \/ GiveUp
  <2>1. UNCHANGED <<slot, old, ret>>
    BY <1>2 DEF HaveRoom, PlaceNext, Displace, GiveUp, table, rehash
  <2> QED
    BY <2>1, Silent DEF Elements
<1>3. CASE Return
  <2>1. Contents' = Contents /\ ret' = NoResult
    BY <1>3 DEF Return, Contents, Live, table, rehash
  <2>2. Map!Return
    BY <2>1 DEF Map!Return, Map!NoResult, NoResult
  <2> QED
    BY <2>2 DEF AbstractStep, Map!Next
<1>4. CASE Overwrite
  BY <1>4 DEF Overwrite
<1>5. CASE UNCHANGED vars
  BY <1>5, Silent DEF vars, table, rehash, Elements
<1> QED
  BY <1>1, <1>2, <1>3, <1>4, <1>5, ManageMaps, GrowMaps, SearchMaps, EraseMaps, PlaceInEmptyMaps, PassOnMaps,
     PutDownMaps, RehashingMaps DEF Next, Step, Inserting

(* A new table is the empty map. *)
LEMMA InitMaps == Init => Map!Init
<1> SUFFICES ASSUME Init PROVE Map!Init
  OBVIOUS
<1>1. Live(slot) = {} /\ Live(old.slot) = {} /\ ret = NoResult
  BY DEF Init, Live, AllRaw, NoOld
<1>2. Contents = [k \in Key |-> Absent]
  BY <1>1 DEF Contents
<1> QED
  BY <1>1, <1>2 DEF Map!Init, Map!NoResult, NoResult

(***************************************************************************)
(* A robin_hash_map implements the map as long as no element has strayed:  *)
(* each call returns what a map returns, and displacements, shifts, growth *)
(* and the moves of a rehash do not show.                                  *)
(***************************************************************************)
THEOREM MapRefinement ==
  ASSUME HashesKept
  PROVE  Spec /\ []NeverStrays => ImplementsMap
<1>1. Init => SearchableInv /\ MapInv /\ Map!Init
  BY InitSearch, InitMap, InitMaps
<1>2. TypeInv /\ SearchableInv /\ MapInv /\ NeverStrays /\ [Next]_vars => MapInv'
  BY NextMemory, NextMoved, NextResult, NextCarry DEF NeverStrays, MapInv
<1>3. TypeInv /\ SearchableInv /\ [Next]_vars => SearchableInv'
  BY NextSearch
<1>4. /\ TypeInv /\ SearchableInv /\ MapInv /\ NeverStrays /\ [Next]_vars
      /\ TypeInv' /\ SearchableInv' /\ NeverStrays'
      => [Map!Next]_Map!mapVars
  BY StepMaps DEF NeverStrays, Sound, AbstractStep
<1>5. Spec => []TypeInv
  BY TypesAlways
<1> QED
  BY <1>1, <1>2, <1>3, <1>4, <1>5, PTL DEF Spec, ImplementsMap, Map!Spec

-----------------------------------------------------------------------------
(* Size and iteration *)

(***************************************************************************)
(* slot_size_ counts the elements; that of an erasure is not yet taken off *)
(* while the chain behind it is shifted, and the new element of an         *)
(* insertion is constructed and counted in one step, so that it is not     *)
(* among them while another is carried.                                    *)
(***************************************************************************)
SizeInv == ~ strayed =>
    slotSize = Cardinality(Live(slot)) + (IF pc = "shift" THEN 1 ELSE 0)

(* A table ends behind as many slots more than its capacity as it asked for, one without memory at none. *)
EndInv == lastSlot = IF slotMask = 0 THEN 0 ELSE SlotCapacity + Lookups(SlotCapacity)

(* The elements can be counted. *)
LEMMA LiveFinite ==
  ASSUME TypeInv
  PROVE  IsFiniteSet(Live(slot)) /\ Cardinality(Live(slot)) \in Nat /\ Live(slot) \subseteq Nat
<1>1. PICK n \in Nat : DOMAIN slot = 0..n
  BY DEF TypeInv, FormInv, SpanInv
<1>2. IsFiniteSet(0..n)
  BY <1>1, FS_Interval
<1>3. Live(slot) \subseteq 0..n
  BY <1>1 DEF Live
<1> QED
  BY <1>1, <1>2, <1>3, FS_Subset, FS_CardinalityType

(* One more of them, one less, and one in place of another. *)
LEMMA CountOne ==
  ASSUME NEW S, IsFiniteSet(S), Cardinality(S) \in Nat
  PROVE  /\ \A x : x \notin S => Cardinality(S \cup {x}) = Cardinality(S) + 1
         /\ \A x \in S : Cardinality(S \ {x}) = Cardinality(S) - 1
         /\ \A x \in S : \A y : y \notin S => Cardinality((S \ {x}) \cup {y}) = Cardinality(S)
<1>1. \A x : x \notin S => Cardinality(S \cup {x}) = Cardinality(S) + 1
  BY FS_AddElement
<1>2. \A x \in S : IsFiniteSet(S \ {x}) /\ Cardinality(S \ {x}) = Cardinality(S) - 1
  BY FS_RemoveElement
<1>3. ASSUME NEW x \in S, NEW y, y \notin S
      PROVE  Cardinality((S \ {x}) \cup {y}) = Cardinality(S)
  <2>1. y \notin S \ {x} /\ IsFiniteSet(S \ {x}) /\ Cardinality(S \ {x}) = Cardinality(S) - 1
    BY <1>2, <1>3
  <2>2. Cardinality((S \ {x}) \cup {y}) = Cardinality(S \ {x}) + 1
    BY <2>1, FS_AddElement
  <2> QED
    BY <2>1, <2>2
<1> QED
  BY <1>1, <1>2, <1>3

(***************************************************************************)
(* What the steps that touch elements do to the set of slots they are in.  *)
(***************************************************************************)
LEMMA ErasingSize ==
  ASSUME TypeInv, TableInv, CourseInv, SizeInv, ~ strayed, Erasing \/ AssignExisting
  PROVE  SizeInv'
<1> DEFINE S == Live(slot)
           i == probe.index
<1>0. IsFiniteSet(S) /\ Cardinality(S) \in Nat /\ i \in Nat /\ Raw \notin Element
  BY LiveFinite, KeyAssumption DEF TypeInv, StepInv, ControlOK, Element
<1>5. slotSize = Cardinality(S) + (IF pc = "shift" THEN 1 ELSE 0)
  BY DEF SizeInv
<1>6. ASSUME pc' # "shift", slotSize' = Cardinality(Live(slot')), Cardinality(Live(slot')) \in Nat PROVE SizeInv'
  BY <1>6 DEF SizeInv
<1>1. CASE EraseFound
  <2>1. pc = "walk" /\ i \in S
    BY <1>1, Found DEF EraseFound, Looking
  <2>2. slot' = [slot EXCEPT ![i] = Raw] /\ slotSize' = slotSize /\ pc' = "shift"
    BY <1>1 DEF EraseFound
  <2>3. Live(slot') = S \ {i}
    BY <2>1, <2>2 DEF Live
  <2>4. Cardinality(Live(slot')) = Cardinality(S) - 1
    <3> HIDE DEF S
    <3> QED
      BY <1>0, <2>1, <2>3, CountOne
  <2>5. slotSize = Cardinality(S)
    <3> HIDE DEF S
    <3> QED
      BY <1>0, <1>5, <2>1
  <2>6. slotSize' = Cardinality(Live(slot')) + 1
    <3> HIDE DEF S
    <3> QED
      BY <1>0, <2>2, <2>4, <2>5
  <2> QED
    BY <2>2, <2>6 DEF SizeInv
<1>2. CASE AssignExisting
  <2>1. PICK e \in Hits : slot' = [slot EXCEPT ![i] = [key |-> e.key, val |-> call.val]]
    BY <1>2 DEF AssignExisting
  <2>2. pc = "walk" /\ i \in S /\ slotSize' = slotSize /\ pc' = "done" /\ call.op = "insert_or_assign"
    BY <1>2, Found DEF AssignExisting, Looking, Done
  <2>3. slot'[i] # Raw
    <3>1. e.key \in Key /\ call.val \in Value
      BY <1>2, <2>1, <2>2, Found, ReadRange DEF AssignExisting, TypeInv, StepInv, CallInv, Insertions
    <3> QED
      BY <1>0, <2>1, <2>2, <3>1 DEF Element, Live
  <2>4. Live(slot') = S
    BY <2>1, <2>2, <2>3 DEF Live
  <2> QED
    <3>1. Cardinality(Live(slot')) = Cardinality(S)
      BY <2>4
    <3> HIDE DEF S
    <3> QED
      BY <1>0, <1>5, <1>6, <2>2, <3>1
<1>3. CASE ShiftNext
  <2>1. /\ pc = "shift" /\ pc' = pc /\ slotSize' = slotSize /\ NotAtHome(NextCtrl)
        /\ \E e \in Read(i + 1) : slot' = [slot EXCEPT ![i] = e, ![i + 1] = Raw]
    BY <1>3 DEF ShiftNext
  <2>2. i \in DOMAIN slot /\ i \notin S
    BY <2>1 DEF TypeInv, StepInv, HandInv, CourseInv, VacantInv, Live
  <2>3. i + 1 \in S
    <3>1. i + 1 \in Nat /\ CtrlAt(i + 1) \in CtrlWord
      BY <1>0, TableFacts
    <3>2. CtrlAt(i + 1).dist > 0 /\ CtrlAt(i + 1).dist \in Int
      BY <2>1, <3>1 DEF NextCtrl, NotAtHome, CtrlWord
    <3>3. i + 1 \in DOMAIN ctrl /\ IsUsed(ctrl[i + 1])
      BY <3>2, Words DEF CtrlAt, IsUsed
    <3>4. i + 1 \notin Vacant
      BY <1>0, <2>1 DEF Vacant
    <3> QED
      BY <3>3, <3>4, TableFacts DEF TableInv, CtrlMirrorsSlots, Live
  <2>4. PICK e \in Element : slot' = [slot EXCEPT ![i] = e, ![i + 1] = Raw]
    BY <2>1, ReadRange DEF TypeInv
  <2>5. Live(slot') = (S \ {i + 1}) \cup {i}
    BY <1>0, <2>2, <2>3, <2>4 DEF Live
  <2>6. Cardinality((S \ {i + 1}) \cup {i}) = Cardinality(S)
    <3> HIDE DEF S
    <3> QED
      BY <1>0, <2>2, <2>3, CountOne
  <2> QED
    BY <2>1, <2>5, <2>6 DEF SizeInv
<1>4. CASE ShiftDone
  <2>1. pc = "shift" /\ pc' = "done" /\ slotSize' = slotSize - 1 /\ slot' = slot
    BY <1>4 DEF ShiftDone, Decrement
  <2> QED
    BY <1>0, <2>1 DEF SizeInv
<1> QED
  BY <1>1, <1>2, <1>3, <1>4 DEF Erasing

(* An insertion adds one, and what it carries is there all the time. *)
LEMMA InsertingSize ==
  ASSUME TypeInv, TableInv, CourseInv, SizeInv, ~ strayed, PlaceInEmpty \/ PassOn \/ PutDown
  PROVE  SizeInv'
<1> DEFINE S == Live(slot)
           i == probe.index
<1>0. IsFiniteSet(S) /\ Cardinality(S) \in Nat /\ i \in Nat /\ Raw \notin Element
  BY LiveFinite, KeyAssumption DEF TypeInv, StepInv, ControlOK, Element
<1>5. slotSize = Cardinality(S) + (IF pc = "shift" THEN 1 ELSE 0)
  BY DEF SizeInv
<1>6. ASSUME pc' # "shift", slotSize' = Cardinality(Live(slot')), Cardinality(Live(slot')) \in Nat PROVE SizeInv'
  BY <1>6 DEF SizeInv
<1>1. CASE PlaceInEmpty
  <2>1. /\ pc = "place" /\ CtrlAt(i) = Empty /\ slot' = [slot EXCEPT ![i] = NewElement]
        /\ slotSize' = slotSize + 1 /\ pc' # "shift"
    BY <1>1 DEF PlaceInEmpty, AtEndOfChain, Placed, Done
  <2>2. NewElement \in Element
    BY <2>1, NewElementType
  <2>3. i \in DOMAIN slot /\ i \notin S
    <3>1. i \in DOMAIN ctrl /\ ctrl[i] = Empty /\ ~ IsUsed(Empty)
      BY <2>1, Words DEF CtrlAt, IsUsed, Empty, EndOf, Ctrl
    <3> QED
      BY <2>1, <3>1, TableFacts DEF Vacant, TableInv, CtrlMirrorsSlots, Live
  <2>4. Live(slot') = S \cup {i}
    BY <1>0, <2>1, <2>2, <2>3 DEF Live
  <2>5. Cardinality(S \cup {i}) = Cardinality(S) + 1
    <3> HIDE DEF S
    <3> QED
      BY <1>0, <2>3, CountOne
  <2> QED
    <3>1. Cardinality(Live(slot')) = Cardinality(S) + 1
      BY <2>4, <2>5
    <3> HIDE DEF S
    <3> QED
      BY <1>0, <1>5, <1>6, <2>1, <3>1
<1>2. CASE PassOn
  <2>1. /\ pc = "displace" /\ Displacing /\ CtrlAt(i) # Empty /\ slotSize' = slotSize /\ pc' # "shift"
        /\ \E inHand \in Read(hand.at), here \in Read(i) :
              slot' = slot \/ slot' = [slot EXCEPT ![i] = inHand, ![hand.at] = here]
    BY <1>2 DEF PassOn, Displacing
  <2>2. hand.at \in S /\ i \in S
    BY <2>1, Carrying
  <2>3. Live(slot') = S
    BY <1>0, <2>1, <2>2, ReadRange DEF Live, TypeInv
  <2> QED
    <3>1. Cardinality(Live(slot')) = Cardinality(S)
      BY <2>3
    <3> HIDE DEF S
    <3> QED
      BY <1>0, <1>5, <1>6, <2>1, <3>1
<1>3. CASE PutDown
  <2>1. /\ pc = "displace" /\ Displacing /\ CtrlAt(i) = Empty /\ slotSize' = slotSize + 1 /\ pc' # "shift"
        /\ \E inHand \in Read(hand.at) : slot' = [slot EXCEPT ![i] = inHand, ![hand.at] = NewElement]
    BY <1>3 DEF PutDown, Displacing, Placed, Done
  <2>2. NewElement \in Element /\ hand.at \in S /\ i # hand.at /\ i \in DOMAIN slot /\ ctrl[i] = Empty
    BY <2>1, NewElementType, Carrying
  <2>3. i \notin S
    <3>1. ~ IsUsed(Empty)
      BY DEF IsUsed, Empty, Ctrl
    <3> QED
      BY <2>1, <2>2, <3>1, TableFacts DEF Vacant, TableInv, CtrlMirrorsSlots, Live
  <2>4. PICK e \in Element : slot' = [slot EXCEPT ![i] = e, ![hand.at] = NewElement]
    BY <2>1, ReadRange DEF TypeInv
  <2>5. Live(slot') = S \cup {i}
    BY <1>0, <2>2, <2>3, <2>4 DEF Live
  <2>6. Cardinality(S \cup {i}) = Cardinality(S) + 1
    <3> HIDE DEF S
    <3> QED
      BY <1>0, <2>3, CountOne
  <2> QED
    <3>1. Cardinality(Live(slot')) = Cardinality(S) + 1
      BY <2>5, <2>6
    <3> HIDE DEF S
    <3> QED
      BY <1>0, <1>5, <1>6, <2>1, <3>1
<1> QED
  BY <1>1, <1>2, <1>3

(* A new table and a cleared one are empty. *)
LEMMA ResizingSize ==
  ASSUME TypeInv, SizeInv, EndInv, Resizing
  PROVE  SizeInv' /\ EndInv'
<1>0. Cardinality({}) = 0 /\ \A c, l : Live(AllRaw(c, l)) = {}
  BY FS_EmptySet DEF Live, AllRaw
<1>1. ASSUME NEW n \in Int, NEW m, NEW after, Resize(CalcCapacity(n), m, after),
             pc \in {"manage", "room", "retry"}
      PROVE  SizeInv' /\ EndInv'
  <2>1. CASE CreateSlots(CalcCapacity(n), m, after)
    <3> DEFINE c == CalcCapacity(n)
    <3>1. /\ slotMask' = c - 1 /\ lastSlot' = c + Lookups(c) /\ slot' = AllRaw(c, Lookups(c))
          /\ slotSize' = 0 /\ pc' = "rehash" /\ c \in Nat /\ c >= 4
      BY <2>1, CapacityRange DEF CreateSlots, MinCapacity
    <3> HIDE DEF c
    <3>2. EndInv'
      BY <3>1 DEF EndInv, SlotCapacity
    <3> QED
      BY <1>0, <3>1, <3>2 DEF SizeInv
  <2>2. CASE AllocationThrows(CalcCapacity(n))
    BY <1>1, <2>2 DEF AllocationThrows, Done, SizeInv, EndInv, SlotCapacity
  <2> QED
    BY <1>1, <2>1, <2>2 DEF Resize
<1>2. CASE Manage
  <2>1. CASE Clear
    <3>1. (Destroy \/ ClearData) /\ pc' = "done"
      BY <2>1 DEF Clear, Done
    <3>2. slotSize' = 0 /\ Live(slot') = {}
      BY <1>0, <3>1 DEF Destroy, ClearData
    <3>3. EndInv'
      BY <3>1 DEF Destroy, ClearData, EndInv, SlotCapacity
    <3> QED
      BY <1>0, <3>1, <3>2, <3>3 DEF SizeInv
  <2>2. CASE Done("ok") /\ UNCHANGED <<table, call, probe, hand, strayed, rehash>>
    <3>1. pc = "manage" /\ pc' = "done"
      BY <1>2, <2>2, ManageOps DEF Done
    <3> QED
      BY <2>2, <3>1 DEF table, SizeInv, EndInv, SlotCapacity
  <2> QED
    BY <1>1, <1>2, <2>1, <2>2, ManageOps
<1>3. CASE Grow \/ Retry
  BY <1>1, <1>3, GrowOps
<1> QED
  BY <1>2, <1>3 DEF Resizing

(* A step that does not make a table leaves its end where it is. *)
LEMMA SameEnd ==
  ASSUME [Next]_vars, ~ Resizing
  PROVE  UNCHANGED <<slotMask, lastSlot>>
<1>1. CASE BeginKeyOp \/ BeginManagement
  BY <1>1 DEF BeginKeyOp, BeginManagement, Begin, table
<1>2. CASE Search
  BY <1>2 DEF Search, WalkNext, NotFound, ReturnFound, KeepExisting, AssignExisting, table
<1>3. CASE Erasing
  BY <1>3 DEF Erasing, EraseFound, ShiftNext, ShiftDone
<1>4. CASE Rehashing \/ Return
  BY <1>4 DEF Rehashing, MoveNext, RehashDone, Return, table
<1>5. CASE HaveRoom \/ PlaceNext \/ PlaceInEmpty \/ Displace
  BY <1>5 DEF HaveRoom, PlaceNext, PlaceInEmpty, Displace, Placed, table
<1>6. CASE PassOn \/ PutDown \/ GiveUp \/ Overwrite
  BY <1>6 DEF PassOn, PutDown, GiveUp, Overwrite, Placed
<1>7. CASE UNCHANGED vars
  BY <1>7 DEF vars, table
<1> QED
  BY <1>1, <1>2, <1>3, <1>4, <1>5, <1>6, <1>7 DEF Next, Step, Inserting, Resizing

(* Each step keeps the size and the end right. *)
LEMMA NextSize ==
  ASSUME TypeInv, SearchableInv, SizeInv, EndInv, [Next]_vars
  PROVE  SizeInv' /\ EndInv'
<1>1. CASE Resizing
  BY <1>1, ResizingSize
<1>2. CASE ~ Resizing
  <2>1. EndInv'
    BY <1>2, SameEnd DEF EndInv, SlotCapacity
  <2>2. CASE strayed'
    BY <2>1, <2>2 DEF SizeInv
  <2>3. CASE UNCHANGED <<slot, slotSize, strayed>> /\ (pc = "shift" <=> pc' = "shift")
    BY <2>1, <2>3 DEF SizeInv
  <2>4. CASE ~ strayed /\ (Erasing \/ AssignExisting \/ PlaceInEmpty \/ PassOn \/ PutDown)
    <3>1. pc # "retry"
      BY <2>4 DEF Erasing, EraseFound, ShiftNext, ShiftDone, AssignExisting, Looking, PlaceInEmpty, AtEndOfChain,
         PassOn, PutDown, Displacing
    <3> QED
      BY <2>1, <2>4, <3>1, ErasingSize, InsertingSize DEF SearchableInv
  <2>5. CASE Erasing \/ AssignExisting \/ PlaceInEmpty \/ PassOn \/ PutDown
    <3>1. strayed' = strayed
      BY <2>5 DEF Erasing, EraseFound, ShiftNext, ShiftDone, AssignExisting, PlaceInEmpty, PassOn, PutDown
    <3>2. strayed \in BOOLEAN
      BY DEF TypeInv, StepInv, ControlOK
    <3> QED
      BY <2>2, <2>4, <2>5, <3>1, <3>2
  <2>6. CASE BeginKeyOp \/ BeginManagement
    BY <2>3, <2>6 DEF BeginKeyOp, BeginManagement, Begin, table
  <2>7. CASE WalkNext \/ ReturnFound \/ KeepExisting \/ HaveRoom \/ PlaceNext
    BY <2>3, <2>7 DEF WalkNext, ReturnFound, KeepExisting, HaveRoom, PlaceNext, Looking, Done, table
  <2>8. CASE NotFound
    <3>1. pc = "walk" /\ call.op \in KeyOps
      BY <2>8 DEF NotFound, TypeInv, StepInv, CallInv
    <3>2. UNCHANGED <<table, strayed>> /\ pc' # "shift"
      BY <2>8, <3>1 DEF NotFound, Done, KeyOps, Insertions
    <3> QED
      BY <2>3, <3>1, <3>2 DEF table
  <2>9. CASE Rehashing \/ Return
    <3>1. resume # "shift"
      BY DEF TypeInv, StepInv, ControlOK
    <3> QED
      BY <2>3, <2>9, <3>1 DEF Rehashing, MoveNext, RehashDone, Return, Done, table
  <2>10. CASE Displace \/ GiveUp
    BY <2>3, <2>10 DEF Displace, GiveUp, AtEndOfChain
  <2>11. CASE Overwrite
    BY <2>2, <2>11 DEF Overwrite
  <2>12. CASE UNCHANGED vars
    BY <2>3, <2>12 DEF vars, table
  <2> QED
    BY <1>2, <2>5, <2>6, <2>7, <2>8, <2>9, <2>10, <2>11, <2>12 DEF Next, Step, Search, Inserting, Resizing
<1> QED
  BY <1>1, <1>2

(* A new table. *)
LEMMA InitSize == Init => SizeInv /\ EndInv
<1> SUFFICES ASSUME Init PROVE SizeInv /\ EndInv
  OBVIOUS
<1>1. Live(slot) = {} /\ slotSize = 0 /\ pc = "idle"
  BY DEF Init, Live, AllRaw
<1>2. Cardinality({}) = 0
  BY FS_EmptySet
<1>3. PICK n \in InitCapacities :
        /\ slotMask = (IF n = 0 THEN 0 ELSE CalcCapacity(n) - 1)
        /\ lastSlot = (IF n = 0 THEN 0 ELSE CalcCapacity(n) + Lookups(CalcCapacity(n)))
  BY DEF Init
<1>4. CalcCapacity(n) \in Nat /\ CalcCapacity(n) >= 4
  BY ArgsAssumption, CapacityRange DEF MinCapacity
<1>5. EndInv
  <2> DEFINE c == CalcCapacity(n)
  <2>1. /\ n # 0 => slotMask = c - 1 /\ lastSlot = c + Lookups(c)
        /\ n = 0 => slotMask = 0 /\ lastSlot = 0
        /\ c \in Nat /\ c >= 4
    BY <1>3, <1>4
  <2> HIDE DEF c
  <2>2. n # 0 => SlotCapacity = c /\ slotMask # 0
    BY <2>1 DEF SlotCapacity
  <2> QED
    BY <2>1, <2>2 DEF EndInv
<1> QED
  BY <1>1, <1>2, <1>5 DEF SizeInv

(* The least element of a set, told by being one. *)
LEMMA LeastIs ==
  ASSUME NEW S, S \subseteq Nat, NEW x \in S, \A y \in S : x <= y
  PROVE  Sets!Min(S) = x
<1> DEFINE m == Sets!Min(S)
<1>1. m \in S /\ \A y \in S : m <= y
  BY DEF Sets!Min
<1> HIDE DEF m
<1>2. m <= x /\ x <= m /\ m \in Nat /\ x \in Nat
  BY <1>1
<1>3. m = x
  BY <1>2
<1> QED
  BY <1>3 DEF m

(* The least element of a set that has some. *)
LEMMA LeastOf ==
  ASSUME NEW S, S \subseteq Nat, S # {}
  PROVE  Sets!Min(S) \in S /\ \A y \in S : Sets!Min(S) <= y
<1>1. \E x \in S : \A y \in S : x <= y
  BY LeastElement
<1> QED
  BY <1>1 DEF Sets!Min

(* The groups that begin() goes through have all slots of the table. *)
LEMMA GroupsSuffice ==
  ASSUME NEW capacity \in Nat, NEW lookups \in Nat
  PROVE  /\ GroupCount(capacity, lookups) * GroupWidth \in Nat
         /\ capacity + lookups <= GroupCount(capacity, lookups) * GroupWidth
<1> DEFINE g == GroupWidth
           x == capacity + lookups + g - 1
           q == x \div g
<1>1. g \in Nat \ {0}
  BY LookupAssumption DEF MinCapacity
<1>2. x \in Nat /\ x = capacity + lookups + g - 1
  BY <1>1
<1>3. q = GroupCount(capacity, lookups)
  BY DEF GroupCount
<1> HIDE DEF g, x
<1>4. x % g \in 0..(g - 1) /\ q \in Nat /\ x = (g * q) + (x % g)
  BY <1>1, <1>2, DivMod
<1> HIDE DEF q
<1>5. q * g = g * q /\ g * q \in Nat
  BY <1>1, <1>4
<1>6. capacity + lookups <= g * q
  BY <1>1, <1>2, <1>4, <1>5
<1> QED
  BY <1>3, <1>5, <1>6 DEF g

(***************************************************************************)
(* Between two calls the used bytes are those of the elements, and a byte  *)
(* that is passed over on the way to the next element, or to the end of a  *)
(* table whose allocations have not failed, is not an end mark, since      *)
(* these lie behind the last slot.                                         *)
(***************************************************************************)
LEMMA IterationFollows ==
  ASSUME TypeInv, SearchableInv, SizeInv, EndInv, InMemory
  PROVE  IterationIsComplete
<1> DEFINE E == EndIndex
           L == Live(slot)
           stops == L \cup {E}
           Following(i) == Sets!Min({j \in stops : j > i})
<1> SUFFICES ASSUME pc = "idle", ~ strayed
             PROVE  /\ slotSize = Cardinality(L)
                    /\ \A i \in L : i < E
                    /\ FirstIndex = Sets!Min(stops)
                    /\ \A i \in L : Following(i) \in L \/ maxLookups = Lookups(SlotCapacity) => NextOf(i) = Following(i)
  BY DEF IterationIsComplete
<1>1. slotSize = Cardinality(L)
  BY LiveFinite DEF SizeInv
<1>2. /\ SlotCapacity \in Nat /\ maxLookups \in Nat /\ Lookups(SlotCapacity) \in Nat
      /\ E = SlotCapacity + maxLookups /\ lastSlot <= E /\ lastSlot \in Nat
  <2>1. slotMask \in Nat /\ maxLookups \in Nat /\ lastSlot \in Nat
    BY DEF TypeInv, FormInv, TableOK
  <2>2. SlotCapacity \in Nat
    BY <2>1 DEF SlotCapacity
  <2>3. Lookups(SlotCapacity) \in Nat
    BY <2>2, LookupsGrow
  <2> QED
    BY <2>1, <2>2, <2>3 DEF TypeInv, FormInv, CapacityInv, EndIndex, MaxSlotCapacity
<1> HIDE DEF E
<1>3. L \subseteq Nat /\ \A i \in L : i < lastSlot /\ i < E /\ i \in DOMAIN slot
  BY <1>2, LiveFinite DEF InMemory, Live
<1>4. UsedIndexes = L /\ DOMAIN ctrl = DOMAIN slot
  <2>1. Vacant = {} /\ CtrlMirrorsSlots
    BY DEF Vacant, SearchableInv, TableInv
  <2> QED
    BY <2>1, TableFacts DEF UsedIndexes, CtrlMirrorsSlots, Live
<1>5. stops \subseteq Nat /\ E \in stops
  BY <1>2, <1>3
<1>6. FirstIndex = Sets!Min(stops)
  <2> DEFINE used == {i \in UsedIndexes : i < GroupCount(SlotCapacity, maxLookups) * GroupWidth}
             n == GroupCount(SlotCapacity, maxLookups) * GroupWidth
  <2>1. n \in Nat /\ E <= n
    BY <1>2, GroupsSuffice
  <2>2. used = L
    <3> HIDE DEF n
    <3>1. \A i \in L : i < n
      BY <1>2, <1>3, <2>1
    <3> QED
      BY <1>4, <3>1 DEF n
  <2>3. FirstIndex = IF L = {} THEN E ELSE Sets!Min(L)
    BY <2>2 DEF FirstIndex, E
  <2>4. CASE L = {}
    <3>1. stops = {E}
      BY <2>4
    <3>2. Sets!Min(stops) = E
      BY <1>5, <3>1, <1>2, LeastIs
    <3> QED
      BY <2>3, <2>4, <3>2
  <2>5. CASE L # {}
    <3> DEFINE m == Sets!Min(L)
    <3>1. m \in L /\ \A y \in L : m <= y
      BY <1>3, <2>5, LeastOf
    <3> HIDE DEF m
    <3>2. \A y \in stops : m <= y
      BY <1>2, <1>3, <3>1
    <3>3. Sets!Min(stops) = m
      BY <1>5, <3>1, <3>2, LeastIs
    <3> QED
      BY <2>3, <2>5, <3>3 DEF m
  <2> QED
    BY <2>4, <2>5
<1>7. ASSUME NEW i \in L, Following(i) \in L \/ maxLookups = Lookups(SlotCapacity)
      PROVE  NextOf(i) = Following(i)
  <2> DEFINE later == {j \in stops : j > i}
             at == {j \in (i + 1)..E : j = E \/ CtrlAt(j).dist # Empty.dist}
             x == Sets!Min(later)
  <2>1. i \in Nat /\ i < E /\ i < lastSlot
    BY <1>3
  <2>2. x \in later /\ \A y \in later : x <= y
    <3>1. E \in later /\ later \subseteq Nat
      BY <1>2, <1>5, <2>1
    <3> HIDE DEF later
    <3> QED
      BY <3>1, LeastOf
  <2>3. Following(i) = x
    OBVIOUS
  <2> HIDE DEF x
  <2>4. x \in stops /\ x > i /\ x \in Nat /\ x <= E /\ \A y \in stops : y > i => x <= y
    BY <1>2, <1>3, <1>5, <2>2
  <2>5. x \in at
    <3>1. x \in (i + 1)..E
      BY <1>2, <2>1, <2>4
    <3>2. CASE x \in L
      <4>1. x \in DOMAIN ctrl /\ IsUsed(ctrl[x]) /\ ctrl[x] \in CtrlWord
        BY <1>3, <1>4, <3>2, TableFacts DEF UsedIndexes
      <4>2. CtrlAt(x).dist # Empty.dist
        BY <4>1, Words DEF CtrlAt, IsUsed, CtrlWord
      <4> QED
        BY <3>1, <4>2
    <3> QED
      BY <2>4, <3>1, <3>2
  <2>6. x <= lastSlot
    <3>1. CASE x \in L
      BY <1>2, <1>3, <2>4, <3>1
    <3>2. CASE x = E
      <4>1. E \notin L
        BY <1>2, <1>3
      <4>2. maxLookups = Lookups(SlotCapacity)
        BY <1>7, <2>3, <3>2, <4>1
      <4>3. slotMask # 0
        BY <1>2, <2>1 DEF EndInv
      <4> QED
        BY <1>2, <3>2, <4>2, <4>3 DEF EndInv
    <3> QED
      BY <2>4, <3>1, <3>2
  <2>7. ASSUME NEW j \in at PROVE x <= j
    <3>1. j \in Nat /\ j > i /\ j <= E
      BY <1>2, <2>1
    <3>2. CASE j < x
      <4>1. j # E /\ j < lastSlot /\ j \notin L /\ CtrlAt(j).dist # Empty.dist
        BY <1>2, <2>4, <2>6, <2>7, <3>1, <3>2
      <4>2. j \in DOMAIN slot /\ j \in DOMAIN ctrl /\ ctrl[j] \in CtrlWord /\ CtrlAt(j) = ctrl[j]
        BY <1>4, <3>1, <4>1, TableFacts DEF CtrlAt
      <4>3. ctrl[j].dist < 0
        <5>1. ~ IsUsed(ctrl[j])
          BY <1>4, <4>1, <4>2 DEF UsedIndexes
        <5>2. ctrl[j].dist \in Int
          BY <4>2 DEF CtrlWord
        <5> QED
          BY <5>1, <5>2 DEF IsUsed
      <4>4. ctrl[j] = Empty \/ j >= lastSlot
        BY <4>2, <4>3 DEF TypeInv, FormInv, BytesInv
      <4> QED
        BY <1>2, <3>1, <4>1, <4>2, <4>4
    <3> QED
      BY <2>4, <3>1, <3>2
  <2>8. Sets!Min(at) = x
    <3>1. at \subseteq Nat
      BY <1>2, <2>1
    <3> HIDE DEF at
    <3> QED
      BY <2>5, <2>7, <3>1, LeastIs
  <2> QED
    BY <2>3, <2>8 DEF NextOf, E
<1> QED
  BY <1>1, <1>3, <1>6, <1>7

(***************************************************************************)
(* begin() and ++ visit every element of a robin_hash_map once, in the     *)
(* order of the slots and also behind the capacity, and there are size()   *)
(* of them, whatever calls made the table and as long as no chain has left *)
(* the slots that were allocated.                                          *)
(***************************************************************************)
THEOREM Iteration ==
  ASSUME HashesKept
  PROVE  Spec => [](InMemory => IterationIsComplete)
<1>1. Init => SearchableInv /\ SizeInv /\ EndInv
  BY InitSearch, InitSize
<1>2. TypeInv /\ SearchableInv /\ SizeInv /\ EndInv /\ [Next]_vars => SearchableInv' /\ SizeInv' /\ EndInv'
  BY NextSearch, NextSize
<1>3. TypeInv /\ SearchableInv /\ SizeInv /\ EndInv => (InMemory => IterationIsComplete)
  BY IterationFollows
<1>4. Spec => []TypeInv
  BY TypesAlways
<1> QED
  BY <1>1, <1>2, <1>3, <1>4, PTL DEF Spec

(***************************************************************************)
(* As long as no element has strayed, slot_size_ is the number of the      *)
(* elements, but for the one that an erasure has not taken off yet.        *)
(***************************************************************************)
THEOREM SizeIsRight ==
  ASSUME HashesKept
  PROVE  Spec => []SizeInv
<1>1. Init => SearchableInv /\ SizeInv /\ EndInv
  BY InitSearch, InitSize
<1>2. TypeInv /\ SearchableInv /\ SizeInv /\ EndInv /\ [Next]_vars => SearchableInv' /\ SizeInv' /\ EndInv'
  BY NextSearch, NextSize
<1>3. Spec => []TypeInv
  BY TypesAlways
<1> QED
  BY <1>1, <1>2, <1>3, PTL DEF Spec

-----------------------------------------------------------------------------
(* How far a chain reaches *)

(* An end mark is in the hand only where it was taken up behind the last slot. *)
HandEndInv == pc = "displace" /\ hand.ctrl.dist < 0 => hand.at >= lastSlot

(* What is known of a table besides that it is searchable. *)
BoundsInv == MemoryInv /\ EndInv /\ HandEndInv

(* The keys that need a place, and those with some of the homes, can be counted. *)
LEMMA KeysFinite ==
  ASSUME TypeInv
  PROVE  /\ IsFiniteSet(KeysHere)
         /\ \A a, b : IsFiniteSet(HomesIn(a, b)) /\ Cardinality(HomesIn(a, b)) \in Nat
<1> DEFINE K == {slot[i].key : i \in Live(slot)}
           E == IF pc \in {"place", "displace", "retry"} THEN {probe.key} ELSE {}
           f == [i \in Live(slot) |-> slot[i].key]
<1>1. f \in Surjection(Live(slot), K)
  BY DEF Surjection
<1>2. IsFiniteSet(K)
  <2> HIDE DEF f, K
  <2> QED
    BY <1>1, LiveFinite, FS_Surjection
<1>3. IsFiniteSet(E)
  BY FS_EmptySet, FS_Singleton
<1>4. KeysHere = K \cup E
  BY DEF KeysHere
<1> HIDE DEF K, E
<1>5. IsFiniteSet(KeysHere)
  BY <1>2, <1>3, <1>4, FS_Union
<1>6. ASSUME NEW a, NEW b PROVE IsFiniteSet(HomesIn(a, b)) /\ Cardinality(HomesIn(a, b)) \in Nat
  <2>1. HomesIn(a, b) \in SUBSET KeysHere
    BY DEF HomesIn
  <2> QED
    BY <1>5, <2>1, FS_Subset, FS_CardinalityType
<1> QED
  BY <1>5, <1>6

(* Each used byte before the last slot is that of a key of its own, and a search comes to it. *)
Occupied(occ) ==
    /\ \A j \in 0..(lastSlot - 1) :
         /\ ctrl[j].dist \in Int
         /\ ctrl[j].dist >= 0 =>
              /\ occ[j] \in KeysHere /\ occ[j] \in Key
              /\ ctrl[j].dist = j - Home(occ[j], slotMask)
              /\ Along(ctrl, slotMask, j, occ[j])
    /\ \A i, j \in 0..(lastSlot - 1) :
         ctrl[i].dist >= 0 /\ ctrl[j].dist >= 0 /\ occ[i] = occ[j] => i = j

(***************************************************************************)
(* A search that has come to slot p has passed used bytes only.  Those     *)
(* from the first slot of that run on, and the searched key, have homes    *)
(* that are in the run and no further than the home of that key.           *)
(***************************************************************************)
LEMMA RunOfKeys ==
  ASSUME TypeInv, NEW occ, Occupied(occ),
         NEW p \in Nat, p <= lastSlot, NEW k \in KeysHere, k \in Key,
         Home(k, slotMask) <= p, Along(ctrl, slotMask, p, k),
         \A j \in 0..(p - 1) : ctrl[j].dist >= 0 => occ[j] # k
  PROVE  \E a \in 0..Home(k, slotMask) :
            p - a + 1 <= Cardinality(HomesIn(a, Home(k, slotMask)))
<1> DEFINE h == Home(k, slotMask)
           S == {a \in 0..h : \A j \in a..(p - 1) : ctrl[j].dist >= 0}
<1>1. h \in Nat /\ h <= p /\ slotMask \in Nat /\ lastSlot \in Nat
  BY HomeRange, TableFacts
<1>2. \A j \in h..(p - 1) : ctrl[j].dist >= j - h
  BY DEF Along
<1> HIDE DEF h
<1>3. \A j \in 0..(p - 1) : j \in 0..(lastSlot - 1) /\ ctrl[j].dist \in Int
  BY <1>1 DEF Occupied
<1>4. h \in S
  <2> SUFFICES ASSUME NEW j \in h..(p - 1) PROVE ctrl[j].dist >= 0
    BY <1>1
  <2>1. ctrl[j].dist >= j - h /\ j \in 0..(p - 1) /\ j - h >= 0 /\ j - h \in Int
    BY <1>1, <1>2
  <2> QED
    BY <1>3, <2>1
<1>5. PICK a \in S : \A x \in S : a <= x
  <2>1. S \subseteq 0..h
    OBVIOUS
  <2> HIDE DEF S
  <2>2. S \subseteq Nat /\ S # {}
    BY <1>1, <1>4, <2>1
  <2> QED
    BY <2>2, LeastElement
<1>6. a \in 0..h /\ a \in Nat /\ a <= h /\ \A j \in a..(p - 1) : ctrl[j].dist >= 0
  BY <1>1, <1>5
<1> DEFINE T == HomesIn(a, h)
           f == [j \in a..p |-> IF j = p THEN k ELSE occ[j]]
<1>7. ASSUME NEW j \in a..(p - 1)
      PROVE  occ[j] \in T /\ occ[j] # k /\ j \in 0..(lastSlot - 1) /\ ctrl[j].dist >= 0
  <2>1. j \in 0..(p - 1) /\ j \in Nat /\ ctrl[j].dist >= 0 /\ j \in 0..(lastSlot - 1) /\ j \in Int
    BY <1>1, <1>3, <1>6
  <2>2. /\ occ[j] \in KeysHere /\ occ[j] \in Key /\ ctrl[j].dist = j - Home(occ[j], slotMask)
        /\ Along(ctrl, slotMask, j, occ[j]) /\ occ[j] # k
    BY <2>1 DEF Occupied
  <2> DEFINE g == Home(occ[j], slotMask)
  <2>3. g \in Nat
    BY <1>1, <2>2, HomeRange
  <2>4. ctrl[j].dist = j - g /\ \A x \in g..(j - 1) : ctrl[x].dist >= x - g
    BY <2>2 DEF Along
  <2>5. g = Home(occ[j], slotMask)
    OBVIOUS
  <2> HIDE DEF g
  <2>6. g <= j
    BY <2>1, <2>3, <2>4
  <2>7. g <= h
    <3>1. CASE j <= h
      BY <1>1, <2>1, <2>3, <2>6, <3>1
    <3>2. CASE j > h
      <4>1. j - g >= j - h
        BY <1>1, <1>2, <2>1, <2>4, <3>2
      <4> QED
        BY <1>1, <2>1, <2>3, <4>1
    <3> QED
      BY <1>1, <2>1, <3>1, <3>2
  <2>8. a <= g
    <3> SUFFICES ASSUME g < a PROVE FALSE
      BY <1>6, <2>3
    <3>1. ASSUME NEW x \in g..(p - 1) PROVE ctrl[x].dist >= 0
      <4>1. CASE x \in a..(p - 1)
        BY <1>6, <4>1
      <4>2. CASE x \notin a..(p - 1)
        <5>1. x \in g..(j - 1) /\ x \in 0..(p - 1) /\ x - g >= 0 /\ x - g \in Int
          BY <1>1, <1>6, <2>1, <2>3, <4>2
        <5>2. ctrl[x].dist >= x - g /\ ctrl[x].dist \in Int
          BY <1>3, <2>4, <5>1
        <5> QED
          BY <5>1, <5>2
      <4> QED
        BY <4>1, <4>2
    <3>2. g \in S
      BY <1>1, <2>3, <2>7, <3>1
    <3> QED
      BY <1>5, <1>6, <2>3, <3>2
  <2>9. occ[j] \in T
    BY <1>1, <1>6, <2>2, <2>3, <2>5, <2>7, <2>8 DEF HomesIn
  <2> QED
    BY <2>1, <2>2, <2>9
<1>8. k \in T
  BY <1>1, <1>6 DEF HomesIn, h
<1>9. \A j \in a..p : j = p \/ j \in a..(p - 1)
  BY <1>1, <1>6
<1>10. f \in [a..p -> T]
  <2> HIDE DEF T
  <2> QED
    BY <1>7, <1>8, <1>9
<1>11. \A i, j \in a..p : f[i] = f[j] => i = j
  <2> SUFFICES ASSUME NEW i \in a..p, NEW j \in a..p, f[i] = f[j] PROVE i = j
    OBVIOUS
  <2>1. CASE i = p \/ j = p
    BY <1>7, <1>9, <2>1
  <2>2. CASE i # p /\ j # p
    <3>1. i \in a..(p - 1) /\ j \in a..(p - 1) /\ occ[i] = occ[j]
      BY <1>9, <2>2
    <3> QED
      BY <1>7, <3>1 DEF Occupied
  <2> QED
    BY <2>1, <2>2
<1> HIDE DEF f, S
<1>12. f \in Injection(a..p, T)
  BY <1>10, <1>11 DEF Injection, IsInjective
<1>13. Cardinality(a..p) <= Cardinality(T)
  BY <1>12, KeysFinite, FS_Injection
<1>14. Cardinality(a..p) = p - a + 1
  BY <1>1, <1>6, FS_Interval
<1> QED
  BY <1>6, <1>13, <1>14 DEF h

(* Short chains fit. *)
LEMMA ShortIsFit ==
  ASSUME TypeInv, ChainsShort
  PROVE  ChainsFit
<1> SUFFICES ASSUME slotMask # 0, NEW a \in 0..slotMask
             PROVE  Cardinality(HomesIn(a, slotMask)) <= SlotCapacity + Lookups(SlotCapacity) - a
  BY DEF ChainsFit
<1>1. slotMask \in Nat /\ SlotCapacity = slotMask + 1 /\ slotMask \in 0..slotMask
  BY TableFacts DEF SlotCapacity
<1>2. Lookups(SlotCapacity) \in Nat
  BY <1>1, LookupsGrow
<1>3. Cardinality(HomesIn(a, slotMask)) <= slotMask - a + Lookups(SlotCapacity)
  BY <1>1 DEF ChainsShort
<1>4. Cardinality(HomesIn(a, slotMask)) \in Nat
  BY KeysFinite
<1> HIDE DEF Lookups
<1> QED
  BY <1>1, <1>2, <1>3, <1>4

(***************************************************************************)
(* Where chains fit, a search stays before the last slot; where they are   *)
(* short, it comes less than max_lookups_ slots far.                       *)
(***************************************************************************)
LEMMA ChainReach ==
  ASSUME TypeInv, EndInv, slotMask # 0, NEW occ, Occupied(occ),
         NEW p \in Nat, NEW k \in KeysHere, k \in Key,
         Home(k, slotMask) <= p, Along(ctrl, slotMask, p, k),
         \A j \in 0..(p - 1) : j < lastSlot /\ ctrl[j].dist >= 0 => occ[j] # k
  PROVE  /\ ChainsFit => p < lastSlot
         /\ ChainsShort => p - Home(k, slotMask) < Lookups(SlotCapacity)
<1> DEFINE h == Home(k, slotMask)
           l == Lookups(SlotCapacity)
<1>1. /\ h \in Nat /\ h <= slotMask /\ slotMask \in Nat /\ lastSlot \in Nat /\ h <= p
      /\ SlotCapacity = slotMask + 1
  BY HomeRange, TableFacts DEF SlotCapacity
<1>2. l \in Nat /\ lastSlot = slotMask + 1 + l
  BY <1>1, LookupsGrow DEF EndInv
<1>3. h = Home(k, slotMask) /\ l = Lookups(SlotCapacity)
  OBVIOUS
<1> HIDE DEF h, l
<1>4. ASSUME ChainsFit PROVE p < lastSlot
  <2> DEFINE q == IF p <= lastSlot THEN p ELSE lastSlot
  <2>1. q \in Nat /\ q <= lastSlot /\ h <= q /\ q <= p
    BY <1>1, <1>2
  <2> HIDE DEF q
  <2>2. Along(ctrl, slotMask, q, k)
    <3>1. \A j \in h..(q - 1) : j \in h..(p - 1)
      BY <1>1, <2>1
    <3> QED
      BY <1>3, <3>1 DEF Along
  <2>3. \A j \in 0..(q - 1) : j \in 0..(p - 1) /\ j < lastSlot
    BY <1>1, <2>1
  <2>4. PICK a \in 0..h : q - a + 1 <= Cardinality(HomesIn(a, h))
    BY <1>3, <2>1, <2>2, <2>3, RunOfKeys
  <2>5. a \in 0..slotMask /\ a \in Nat /\ a <= h
    BY <1>1
  <2>6. Cardinality(HomesIn(a, h)) <= Cardinality(HomesIn(a, slotMask))
    <3>1. HomesIn(a, h) \in SUBSET HomesIn(a, slotMask)
      BY <1>1, <2>5 DEF HomesIn
    <3> QED
      BY <3>1, KeysFinite, FS_Subset
  <2>7. Cardinality(HomesIn(a, slotMask)) <= slotMask + 1 + l - a
    BY <1>1, <1>3, <1>4, <2>5 DEF ChainsFit
  <2>8. Cardinality(HomesIn(a, h)) \in Nat /\ Cardinality(HomesIn(a, slotMask)) \in Nat
    BY KeysFinite
  <2>9. q <= slotMask + l
    BY <1>1, <1>2, <2>1, <2>4, <2>5, <2>6, <2>7, <2>8
  <2> QED
    BY <1>1, <1>2, <2>9 DEF q
<1>5. ASSUME ChainsShort PROVE p - h < l
  <2>1. p < lastSlot
    BY <1>4, <1>5, ShortIsFit
  <2>2. \A j \in 0..(p - 1) : j < lastSlot
    BY <1>1, <2>1
  <2>3. PICK a \in 0..h : p - a + 1 <= Cardinality(HomesIn(a, h))
    BY <1>1, <1>3, <2>1, <2>2, RunOfKeys
  <2>4. h \in 0..slotMask
    BY <1>1
  <2>5. Cardinality(HomesIn(a, h)) <= h - a + l
    BY <1>1, <1>3, <1>5, <2>4 DEF ChainsShort
  <2>6. Cardinality(HomesIn(a, h)) \in Nat /\ a \in Nat
    BY <1>1, KeysFinite
  <2> QED
    BY <1>1, <1>2, <2>3, <2>5, <2>6
<1> QED
  BY <1>3, <1>4, <1>5

(* What is being placed is not in the table yet. *)
LEMMA PlacedIsNew ==
  ASSUME TypeInv, CourseInv, pc \in {"place", "displace"}
  PROVE  NotStored(probe.key, slot) /\ probe.key \in Key /\ probe.key \in KeysHere
<1>1. /\ NewElement.key = probe.key /\ probe.key \in Key
      /\ Moving => NextPending \in Live(old.slot) /\ NewElement = old.slot[NextPending]
      /\ ~ Moving => probe.key = call.key
  BY NewElementType DEF TypeInv, StepInv, CallInv
<1>2. NotStored(probe.key, slot)
  BY <1>1 DEF CourseInv, UniqueKeys, AbsentInv, NotStored
<1>3. probe.key \in KeysHere
  BY DEF KeysHere
<1> QED
  BY <1>1, <1>2, <1>3

(* The key a byte stands for, also that of the slot which waits for the new element. *)
KeyAt == [j \in Nat |-> IF pc = "displace" /\ j = hand.at THEN probe.key ELSE slot[j].key]

(* A used byte before the last slot is that of an element, or of the new one. *)
LEMMA Occupants ==
  ASSUME TypeInv, TableInv, CourseInv, pc # "shift"
  PROVE  /\ Occupied(KeyAt)
         /\ \A j \in Nat : j < lastSlot /\ ctrl[j].dist >= 0 =>
              \/ pc = "displace" /\ j = hand.at /\ KeyAt[j] = probe.key
              \/ j \in Live(slot) \ Vacant /\ KeyAt[j] = slot[j].key
<1>1. lastSlot \in Nat /\ slotMask \in Nat
  BY TableFacts
<1>2. Vacant = IF pc = "displace" THEN {hand.at} ELSE {}
  BY DEF Vacant
<1>3. ASSUME NEW j \in Nat, j < lastSlot
      PROVE  /\ ctrl[j].dist \in Int
             /\ ctrl[j].dist >= 0 =>
                  \/ pc = "displace" /\ j = hand.at /\ KeyAt[j] = probe.key
                  \/ j \in Live(slot) \ Vacant /\ KeyAt[j] = slot[j].key
  <2>1. j \in DOMAIN slot /\ j \in DOMAIN ctrl /\ ctrl[j].dist \in Int
    BY <1>3, TableFacts DEF CtrlWord
  <2>2. CASE j \in Vacant
    BY <1>2, <2>1, <2>2 DEF KeyAt
  <2>3. CASE j \notin Vacant
    <3>1. ctrl[j].dist >= 0 => j \in Live(slot)
      BY <2>1, <2>3 DEF TableInv, CtrlMirrorsSlots, IsUsed, Live
    <3> QED
      BY <1>2, <2>1, <2>3, <3>1 DEF KeyAt
  <2> QED
    BY <2>2, <2>3
<1>4. ASSUME NEW j \in Nat, j < lastSlot, ctrl[j].dist >= 0
      PROVE  /\ KeyAt[j] \in KeysHere /\ KeyAt[j] \in Key
             /\ ctrl[j].dist = j - Home(KeyAt[j], slotMask)
             /\ Along(ctrl, slotMask, j, KeyAt[j])
  <2>1. CASE pc = "displace" /\ j = hand.at /\ KeyAt[j] = probe.key
    <3>1. j \in DOMAIN slot
      BY <1>4, TableFacts
    <3>2. ctrl[j] = Ctrl(j - Home(probe.key, slotMask), HashOf(probe.key)) /\ Along(ctrl, slotMask, j, probe.key)
      BY <2>1, <3>1 DEF CourseInv, VacantInv
    <3>3. ctrl[j].dist = j - Home(probe.key, slotMask)
      BY <3>2 DEF Ctrl
    <3> QED
      BY <2>1, <3>2, <3>3, PlacedIsNew
  <2>2. CASE j \in Live(slot) \ Vacant /\ KeyAt[j] = slot[j].key
    <3>1. slot[j].key \in Key /\ ctrl[j].dist = j - Home(slot[j].key, slotMask)
      BY <2>2, Resident DEF TableInv
    <3>2. Along(ctrl, slotMask, j, slot[j].key)
      BY <2>2 DEF TableInv, EveryElementReachable, ReachableAt, Along
    <3>3. slot[j].key \in KeysHere
      BY <2>2 DEF KeysHere
    <3> QED
      BY <2>2, <3>1, <3>2, <3>3
  <2> QED
    BY <1>3, <1>4, <2>1, <2>2
<1>5. ASSUME NEW i \in Nat, NEW j \in Nat, i < lastSlot, j < lastSlot,
             ctrl[i].dist >= 0, ctrl[j].dist >= 0, KeyAt[i] = KeyAt[j]
      PROVE  i = j
  <2>1. ASSUME pc = "displace" PROVE NotStored(probe.key, slot)
    BY <2>1, PlacedIsNew
  <2>2. /\ \/ pc = "displace" /\ i = hand.at /\ KeyAt[i] = probe.key
           \/ i \in Live(slot) /\ KeyAt[i] = slot[i].key
        /\ \/ pc = "displace" /\ j = hand.at /\ KeyAt[j] = probe.key
           \/ j \in Live(slot) /\ KeyAt[j] = slot[j].key
    BY <1>3, <1>5
  <2> QED
    BY <1>5, <2>1, <2>2 DEF NotStored, CourseInv, UniqueKeys
<1>6. \A j \in 0..(lastSlot - 1) : j \in Nat /\ j < lastSlot
  BY <1>1
<1>7. Occupied(KeyAt)
  BY <1>3, <1>4, <1>5, <1>6 DEF Occupied
<1> QED
  BY <1>3, <1>7

(* How far from home an element is when none is on its way. *)
LEMMA ElementReach ==
  ASSUME TypeInv, TableInv, CourseInv, BoundsInv, pc \notin {"shift", "displace"}, NEW i \in Live(slot)
  PROVE  /\ ChainsFit => i < lastSlot
         /\ ChainsShort => i - Home(slot[i].key, slotMask) < Lookups(SlotCapacity)
<1>1. Vacant = {} /\ slotMask # 0 /\ EndInv
  BY DEF Vacant, BoundsInv, MemoryInv
<1>2. /\ i \in Nat /\ slot[i].key \in Key /\ Home(slot[i].key, slotMask) <= i /\ slot[i].key \in KeysHere
      /\ Along(ctrl, slotMask, i, slot[i].key)
  <2>1. i \in Nat /\ slot[i].key \in Key /\ Home(slot[i].key, slotMask) <= i
    BY <1>1, Resident DEF TableInv
  <2>2. Along(ctrl, slotMask, i, slot[i].key)
    BY <1>1 DEF TableInv, EveryElementReachable, ReachableAt, Along
  <2> QED
    BY <2>1, <2>2 DEF KeysHere
<1>3. \A j \in 0..(i - 1) : j < lastSlot /\ ctrl[j].dist >= 0 => KeyAt[j] # slot[i].key
  <2> SUFFICES ASSUME NEW j \in 0..(i - 1), j < lastSlot, ctrl[j].dist >= 0
               PROVE  KeyAt[j] # slot[i].key
    OBVIOUS
  <2>1. j \in Nat /\ j # i
    BY <1>2
  <2>2. j \in Live(slot) /\ KeyAt[j] = slot[j].key
    BY <2>1, Occupants
  <2> QED
    BY <2>1, <2>2 DEF CourseInv, UniqueKeys
<1> QED
  BY <1>1, <1>2, <1>3, Occupants, ChainReach

(* While chains fit, all elements are before the last slot. *)
LEMMA InMemoryWhereFit ==
  ASSUME TypeInv, TableInv, CourseInv, BoundsInv, pc \notin {"shift", "displace"}, ChainsFit
  PROVE  InMemory
  BY ElementReach DEF InMemory

(* An insertion walks over used bytes to where it places its element, or takes one into its hand. *)
LEMMA PlaceReach ==
  ASSUME TypeInv, TableInv, CourseInv, BoundsInv, pc = "place"
  PROVE  /\ ChainsFit => probe.index < lastSlot
         /\ ChainsShort => probe.dist < Lookups(SlotCapacity)
<1>1. slotMask # 0 /\ EndInv
  BY DEF BoundsInv, MemoryInv
<1>2. /\ probe.index \in Nat /\ probe.dist \in Nat /\ probe.key \in Key /\ probe.key \in KeysHere
      /\ NotStored(probe.key, slot)
  BY PlacedIsNew DEF TypeInv, StepInv, ControlOK
<1>3. Home(probe.key, slotMask) \in Nat
  BY <1>2, HomeRange, TableFacts
<1>4. probe.index = Home(probe.key, slotMask) + probe.dist /\ Along(ctrl, slotMask, probe.index, probe.key)
  BY DEF CourseInv, WalkInv
<1>5. \A j \in 0..(probe.index - 1) : j < lastSlot /\ ctrl[j].dist >= 0 => KeyAt[j] # probe.key
  <2> SUFFICES ASSUME NEW j \in 0..(probe.index - 1), j < lastSlot, ctrl[j].dist >= 0
               PROVE  KeyAt[j] # probe.key
    OBVIOUS
  <2>1. j \in Nat
    BY <1>2
  <2>2. j \in Live(slot) /\ KeyAt[j] = slot[j].key
    BY <2>1, Occupants
  <2> QED
    BY <1>2, <2>2 DEF NotStored
<1>6. Home(probe.key, slotMask) <= probe.index
  BY <1>2, <1>3, <1>4
<1>7. /\ ChainsFit => probe.index < lastSlot
      /\ ChainsShort => probe.index - Home(probe.key, slotMask) < Lookups(SlotCapacity)
  BY <1>1, <1>2, <1>4, <1>5, <1>6, Occupants, ChainReach
<1>8. probe.index - Home(probe.key, slotMask) = probe.dist
  BY <1>2, <1>3, <1>4
<1> QED
  BY <1>7, <1>8

(* How far a search for the element in the hand comes, from the slot it is carried to. *)
LEMMA HandReach ==
  ASSUME TypeInv, TableInv, CourseInv, BoundsInv, pc = "displace", hand.ctrl.dist >= 0,
         NEW p \in Nat, probe.index <= p,
         probe.index = p \/ Along(ctrl, slotMask, p, slot[hand.at].key)
  PROVE  /\ slot[hand.at].key \in Key /\ Home(slot[hand.at].key, slotMask) \in Nat
         /\ hand.ctrl.dist = probe.index - Home(slot[hand.at].key, slotMask)
         /\ ChainsFit => p < lastSlot
         /\ ChainsShort => p - Home(slot[hand.at].key, slotMask) < Lookups(SlotCapacity)
<1> DEFINE a == hand.at
           i == probe.index
<1>1. slotMask # 0 /\ EndInv /\ slotMask \in Nat /\ Vacant = {a}
  BY TableFacts DEF BoundsInv, MemoryInv, Vacant
<1>2. /\ i \in Nat /\ a \in Nat /\ a < i /\ hand.ctrl.dist \in Int
      /\ probe.key \in Key /\ probe.key \in KeysHere /\ NotStored(probe.key, slot)
  BY PlacedIsNew DEF TypeInv, StepInv, ControlOK, HandInv, CtrlWord
<1>3. a \in Live(slot) /\ slot[a] \in Element
  BY ReadRange DEF TypeInv, StepInv, HandInv
<1>4. hand.ctrl = CtrlOf(i, slot[a]) /\ Along(ctrl, slotMask, i, slot[a].key)
  BY <1>3 DEF TableInv, CtrlMirrorsSlots, EveryElementReachable, ReachableAt, Along
<1>5. /\ slot[a].key \in Key /\ Home(slot[a].key, slotMask) \in Nat
      /\ hand.ctrl.dist = i - Home(slot[a].key, slotMask)
  BY <1>1, <1>2, <1>3, <1>4, ByteOf
<1>6. slot[a].key \in KeysHere /\ slot[a].key # probe.key
  BY <1>2, <1>3 DEF KeysHere, NotStored
<1>7. \A j \in 0..(p - 1) : j < lastSlot /\ ctrl[j].dist >= 0 => KeyAt[j] # slot[a].key
  <2> SUFFICES ASSUME NEW j \in 0..(p - 1), j < lastSlot, ctrl[j].dist >= 0
               PROVE  KeyAt[j] # slot[a].key
    OBVIOUS
  <2>1. j \in Nat
    OBVIOUS
  <2>2. \/ j = a /\ KeyAt[j] = probe.key
        \/ j # a /\ j \in Live(slot) /\ KeyAt[j] = slot[j].key
    BY <1>1, <2>1, Occupants
  <2> QED
    BY <1>3, <1>6, <2>2 DEF CourseInv, UniqueKeys
<1>8. Home(slot[a].key, slotMask) <= p /\ Along(ctrl, slotMask, p, slot[a].key)
  <2>1. Home(slot[a].key, slotMask) <= p
    BY <1>2, <1>5
  <2> QED
    BY <1>4, <2>1
<1>9. /\ ChainsFit => p < lastSlot
      /\ ChainsShort => p - Home(slot[a].key, slotMask) < Lookups(SlotCapacity)
  BY <1>1, <1>5, <1>6, <1>7, <1>8, Occupants, ChainReach
<1> QED
  BY <1>5, <1>9

(* A displacement puts the element in its hand down before it leaves the table. *)
LEMMA DisplaceReach ==
  ASSUME TypeInv, TableInv, CourseInv, BoundsInv, pc = "displace"
  PROVE  /\ ChainsFit => probe.index < lastSlot /\ hand.ctrl.dist >= 0
         /\ ChainsShort => hand.ctrl.dist < Lookups(SlotCapacity)
<1> DEFINE a == hand.at
           i == probe.index
<1>1. slotMask # 0 /\ EndInv /\ slotMask \in Nat /\ Vacant = {a}
  BY TableFacts DEF BoundsInv, MemoryInv, Vacant
<1>2. /\ i \in Nat /\ a \in Nat /\ a < i /\ hand.ctrl.dist \in Int /\ lastSlot \in Nat
      /\ probe.key \in Key /\ probe.key \in KeysHere /\ NotStored(probe.key, slot)
  BY PlacedIsNew, TableFacts DEF TypeInv, StepInv, ControlOK, HandInv, CtrlWord
<1>3. ASSUME NEW j \in Nat, j < lastSlot, ctrl[j].dist >= 0
      PROVE  \/ j = a /\ KeyAt[j] = probe.key
             \/ j # a /\ j \in Live(slot) /\ KeyAt[j] = slot[j].key
  BY <1>1, <1>3, Occupants
<1>4. ASSUME hand.ctrl.dist >= 0
      PROVE  /\ ChainsFit => i < lastSlot
             /\ ChainsShort => hand.ctrl.dist < Lookups(SlotCapacity)
  <2>1. i <= i
    BY <1>2
  <2> QED
    BY <1>2, <1>4, <2>1, HandReach
<1>5. ASSUME hand.ctrl.dist < 0 PROVE ~ ChainsFit
  <2> SUFFICES ASSUME ChainsFit PROVE FALSE
    OBVIOUS
  <2>1. a >= lastSlot
    BY <1>5 DEF BoundsInv, HandEndInv
  <2>2. Home(probe.key, slotMask) <= a /\ Along(ctrl, slotMask, a, probe.key)
    BY DEF CourseInv, VacantInv
  <2>3. \A j \in 0..(a - 1) : j < lastSlot /\ ctrl[j].dist >= 0 => KeyAt[j] # probe.key
    <3> SUFFICES ASSUME NEW j \in 0..(a - 1), j < lastSlot, ctrl[j].dist >= 0
                 PROVE  KeyAt[j] # probe.key
      OBVIOUS
    <3>1. j \in Nat /\ j # a
      BY <1>2
    <3> QED
      BY <1>2, <1>3, <3>1 DEF NotStored
  <2>4. a < lastSlot
    BY <1>1, <1>2, <2>2, <2>3, Occupants, ChainReach
  <2> QED
    BY <1>2, <2>1, <2>4
<1>6. CASE hand.ctrl.dist >= 0
  BY <1>4, <1>6
<1>7. CASE hand.ctrl.dist < 0
  BY <1>5, <1>7, ShortIsFit
<1> QED
  BY <1>2, <1>6, <1>7

(* A search that compares keys comes no further than the slot behind the last element. *)
LEMMA WalkReach ==
  ASSUME TypeInv, TableInv, CourseInv, BoundsInv, pc \in {"walk", "room"}, ChainsFit
  PROVE  /\ probe.index <= lastSlot
         /\ ChainsShort => probe.dist <= Lookups(SlotCapacity)
<1>1. InMemory /\ Vacant = {}
  BY InMemoryWhereFit DEF Vacant
<1>2. probe.key \in Key /\ probe.index \in Nat /\ probe.dist \in Nat /\ lastSlot \in Nat /\ slotMask \in Nat
  BY TableFacts DEF TypeInv, StepInv, CallInv, ControlOK, KeyOps
<1> DEFINE h == Home(probe.key, slotMask)
<1>3. /\ h \in Nat /\ h <= slotMask /\ probe.index = h + probe.dist
      /\ \A j \in h..(probe.index - 1) : j \in DOMAIN slot /\ ctrl[j].dist >= j - h
  BY <1>2, HomeRange DEF CourseInv, WalkInv, Along
<1> HIDE DEF h
<1>4. CASE probe.dist = 0
  <2>1. probe.index <= slotMask
    BY <1>2, <1>3, <1>4
  <2>2. Lookups(SlotCapacity) \in Nat /\ (slotMask # 0 => SlotCapacity = slotMask + 1)
    BY <1>2, LookupsGrow DEF SlotCapacity
  <2>3. slotMask # 0 => lastSlot = SlotCapacity + Lookups(SlotCapacity)
    BY DEF BoundsInv, EndInv
  <2> HIDE DEF Lookups
  <2>4. SlotCapacity \in Nat
    BY <1>2 DEF SlotCapacity
  <2>5. Lookups(SlotCapacity) \in Nat
    BY <2>4, LookupsGrow
  <2> QED
    BY <1>2, <1>4, <2>1, <2>2, <2>3, <2>5
<1>5. CASE probe.dist # 0
  <2> DEFINE j == probe.index - 1
  <2>1. j \in h..(probe.index - 1) /\ j - h >= 0 /\ j \in Nat /\ j - h \in Int
    BY <1>2, <1>3, <1>5
  <2>2. probe.index = j + 1
    BY <1>2
  <2> HIDE DEF j
  <2>3. j \in DOMAIN slot /\ j \in DOMAIN ctrl /\ ctrl[j].dist \in Int /\ ctrl[j].dist >= j - h
    BY <1>3, <2>1, TableFacts DEF CtrlWord
  <2>4. IsUsed(ctrl[j])
    BY <2>1, <2>3 DEF IsUsed
  <2>5. j \in Live(slot)
    BY <1>1, <2>3, <2>4 DEF TableInv, CtrlMirrorsSlots, Live
  <2>6. j < lastSlot
    BY <1>1, <2>5 DEF InMemory
  <2>7. ASSUME ChainsShort PROVE probe.dist <= Lookups(SlotCapacity)
    <3> DEFINE l == Lookups(SlotCapacity)
               d == ctrl[j].dist
    <3>1. l \in Nat
      <4>1. SlotCapacity \in Nat
        BY <1>2 DEF SlotCapacity
      <4> QED
        BY <4>1, LookupsGrow
    <3>2. d = j - Home(slot[j].key, slotMask)
      <4>1. ctrl[j] = CtrlOf(j, slot[j])
        BY <1>1, <2>5 DEF TableInv, CtrlMirrorsSlots
      <4> QED
        BY <4>1 DEF CtrlOf, Ctrl
    <3>3. j - Home(slot[j].key, slotMask) < l
      BY <2>5, <2>7, ElementReach
    <3>4. d < l /\ d \in Int /\ d >= j - h
      BY <2>3, <3>2, <3>3
    <3> HIDE DEF l, d
    <3>5. probe.dist <= l
      BY <1>2, <1>3, <2>1, <2>2, <3>1, <3>4
    <3> QED
      BY <3>5 DEF l
  <2> QED
    BY <1>2, <2>1, <2>2, <2>6, <2>7
<1> QED
  BY <1>4, <1>5

(* No step but Displace and PassOn leaves an insertion with an element in its hand. *)
LEMMA ToDisplace ==
  ASSUME TypeInv, [Next]_vars, pc' \in {"displace", "retry"}
  PROVE  Displace \/ PassOn \/ GiveUp \/ UNCHANGED vars
<1>1. CASE BeginKeyOp \/ BeginManagement
  BY <1>1 DEF BeginKeyOp, BeginManagement, Begin
<1>2. ~ Resizing
  <2>1. \A n, m, after : Resize(n, m, after) => pc' \in {"rehash", "done"}
    BY DEF Resize, CreateSlots, AllocationThrows, Done
  <2>2. CASE Manage
    BY <2>1, <2>2, ManageOps DEF Clear, Done
  <2>3. CASE Grow \/ Retry
    BY <2>1, <2>3, GrowOps
  <2> QED
    BY <2>2, <2>3 DEF Resizing
<1>3. CASE NotFound
  <2>1. pc = "walk" /\ call.op \in KeyOps
    BY <1>3 DEF NotFound, TypeInv, StepInv, CallInv
  <2> QED
    BY <1>3, <2>1 DEF NotFound, KeyOps, Insertions, Done
<1>4. CASE WalkNext \/ ReturnFound \/ KeepExisting \/ AssignExisting
  BY <1>4 DEF WalkNext, ReturnFound, KeepExisting, AssignExisting, Looking, Done
<1>5. CASE Erasing
  BY <1>5 DEF Erasing, EraseFound, ShiftNext, ShiftDone, Looking
<1>6. CASE Rehashing \/ Return
  <2>1. resume \in {"place", "walk", "done"}
    BY DEF TypeInv, StepInv, ControlOK
  <2> QED
    BY <1>6, <2>1 DEF Rehashing, MoveNext, RehashDone, Return, Done
<1>7. CASE HaveRoom \/ PlaceNext \/ PlaceInEmpty
  BY <1>7 DEF HaveRoom, PlaceNext, PlaceInEmpty, AtEndOfChain, Placed, Done
<1>8. CASE PutDown \/ Overwrite
  BY <1>8 DEF PutDown, Overwrite, Displacing, Placed, Done
<1> QED
  BY <1>1, <1>2, <1>3, <1>4, <1>5, <1>6, <1>7, <1>8 DEF Next, Step, Search, Inserting, Resizing

(* An end mark is taken up behind the last slot only, and is not carried on. *)
LEMMA NextHandEnd ==
  ASSUME TypeInv, HandEndInv, [Next]_vars
  PROVE  HandEndInv'
<1> SUFFICES ASSUME pc' = "displace", hand'.ctrl.dist < 0 PROVE hand'.at >= lastSlot'
  BY DEF HandEndInv
<1>1. CASE Displace
  <2> DEFINE i == probe.index
             c == CtrlAt(i)
  <2>1. /\ hand'.at = i /\ hand'.ctrl = IncDist(c) /\ lastSlot' = lastSlot /\ c # Empty
    BY <1>1 DEF Displace
  <2>2. i \in Nat /\ c \in CtrlWord /\ c.dist \in Int /\ lastSlot \in Nat
    BY TableFacts DEF TypeInv, StepInv, ControlOK, CtrlWord
  <2>3. c.dist < 0
    BY <2>1, <2>2, Words
  <2>4. ASSUME i < lastSlot PROVE FALSE
    <3>1. i \in DOMAIN slot /\ i \in DOMAIN ctrl
      BY <2>2, <2>4, TableFacts
    <3>2. c = ctrl[i]
      BY <3>1 DEF CtrlAt
    <3> QED
      BY <2>1, <2>2, <2>3, <2>4, <3>1, <3>2 DEF TypeInv, FormInv, BytesInv
  <2> QED
    BY <2>1, <2>2, <2>4
<1>2. CASE PassOn
  <2>1. Displacing
    BY <1>2 DEF PassOn
  <2>2. /\ CtrlAt(probe.index) # Empty /\ hand.ctrl \in CtrlWord /\ hand.ctrl.dist >= 0
        /\ CtrlAt(probe.index) \in CtrlWord /\ CtrlAt(probe.index).dist >= 0
    BY <1>2, <2>1, Carrying DEF PassOn
  <2>3. \E c \in {CtrlAt(probe.index), hand.ctrl} : hand'.ctrl = IncDist(c)
    <3>1. hand = [at |-> hand.at, ctrl |-> hand.ctrl]
      BY DEF TypeInv, StepInv, ControlOK
    <3>2. pc' # "retry"
      OBVIOUS
    <3>3. \E c \in {CtrlAt(probe.index), hand.ctrl} : hand' = [hand EXCEPT !.ctrl = IncDist(c)]
      BY <1>2, <3>2 DEF PassOn
    <3> QED
      BY <3>1, <3>3
  <2>4. ASSUME NEW c \in CtrlWord, c.dist >= 0 PROVE ~ (IncDist(c).dist < 0)
    <3>1. IncDist(c).dist = c.dist + 1 /\ c.dist \in Int
      BY Words DEF CtrlWord
    <3> QED
      BY <2>4, <3>1
  <2> QED
    BY <2>2, <2>3, <2>4
<1>3. CASE GiveUp
  BY <1>3 DEF GiveUp
<1>4. CASE UNCHANGED vars
  BY <1>4 DEF vars, table, HandEndInv
<1> QED
  BY <1>1, <1>2, <1>3, <1>4, ToDisplace

(* Each step keeps what is known of the table besides. *)
LEMMA NextBounds ==
  ASSUME TypeInv, SearchableInv, SizeInv, BoundsInv, [Next]_vars
  PROVE  BoundsInv'
BY NextMemory, NextSize, NextHandEnd DEF BoundsInv

(* A new table. *)
LEMMA InitBounds == Init => BoundsInv
<1> SUFFICES ASSUME Init PROVE BoundsInv
  OBVIOUS
<1>1. MemoryInv /\ EndInv
  BY InitMap, InitSize DEF MapInv
<1>2. HandEndInv
  BY DEF Init, HandEndInv
<1> QED
  BY <1>1, <1>2 DEF BoundsInv

(* The same keys in a table of the same size fit as before. *)
LEMMA SameChains ==
  ASSUME KeysHere' = KeysHere, slotMask' = slotMask
  PROVE  (ChainsFit' <=> ChainsFit) /\ (ChainsShort' <=> ChainsShort)
<1>1. \A a, b : HomesIn(a, b)' = HomesIn(a, b)
  BY DEF HomesIn
<1>2. SlotCapacity' = SlotCapacity
  BY DEF SlotCapacity
<1> QED
  BY <1>1, <1>2 DEF ChainsFit, ChainsShort

(* Two elements that may have changed places: the keys of a table remain. *)
LEMMA PassOnKeys ==
  ASSUME TypeInv, PassOn
  PROVE  KeysHere' = KeysHere /\ Live(slot') = Live(slot)
<1> DEFINE a == hand.at
           i == probe.index
           K(s) == {s[x].key : x \in Live(s)}
<1>1. /\ pc = "displace" /\ pc' \in {"displace", "retry"} /\ probe'.key = probe.key
      /\ a \in Live(slot) /\ i \in Live(slot) /\ Read(a) = {slot[a]} /\ Read(i) = {slot[i]}
  <2>1. Displacing /\ CtrlAt(i) # Empty
    BY DEF PassOn
  <2> QED
    BY <2>1, Carrying DEF PassOn, Displacing, Further
<1>2. slot' = slot \/ slot' = [slot EXCEPT ![i] = slot[a], ![a] = slot[i]]
  BY <1>1 DEF PassOn
<1> HIDE DEF a, i
<1>3. CASE slot' = slot
  BY <1>1, <1>3 DEF KeysHere
<1>4. CASE slot' = [slot EXCEPT ![i] = slot[a], ![a] = slot[i]]
  <2>1. DOMAIN slot' = DOMAIN slot /\ a \in DOMAIN slot /\ i \in DOMAIN slot
    BY <1>1, <1>4 DEF Live
  <2>2. /\ slot'[a] = slot[i] /\ slot'[i] = slot[a]
        /\ \A x \in DOMAIN slot : x # a /\ x # i => slot'[x] = slot[x]
    BY <1>4, <2>1
  <2>3. Live(slot') = Live(slot)
    BY <1>1, <2>1, <2>2 DEF Live
  <2>4. K(slot') = K(slot)
    <3>1. ASSUME NEW x \in Live(slot) PROVE \E y \in Live(slot) : slot'[x] = slot[y] /\ slot[x] = slot'[y]
      BY <1>1, <2>1, <2>2 DEF Live
    <3> QED
      BY <2>3, <3>1
  <2> QED
    BY <1>1, <2>3, <2>4 DEF KeysHere
<1> QED
  BY <1>2, <1>3, <1>4

(* An insertion that gives up in the table has stored hashes and a chain that is not short. *)
LEMMA PassOnGivesUp ==
  ASSUME TypeInv, TableInv, CourseInv, BoundsInv, PassOn, pc' = "retry"
  PROVE  StoreHash /\ ~ ChainsShort
<1> DEFINE i == probe.index
           k == slot[hand.at].key
           c == CtrlAt(i)
           w == IF IsPoorerThan(c) THEN c ELSE hand.ctrl
<1>1. Displacing /\ pc = "displace" /\ c # Empty
  BY DEF PassOn, Displacing
<1>2. /\ i \in Nat /\ hand.ctrl \in CtrlWord /\ hand.ctrl.dist >= 0
      /\ c = ctrl[i] /\ c \in CtrlWord /\ c.dist >= 0 /\ Read(hand.at) # {} /\ Read(i) # {}
  BY <1>1, Carrying
<1>3. TooFar(IncDist(w).dist)
  BY <1>1 DEF PassOn
<1>4. StoreHash /\ w.dist + 1 >= maxLookups /\ w.dist \in Int /\ hand.ctrl.dist \in Int /\ c.dist \in Int
  <2>1. w \in CtrlWord
    BY <1>2
  <2> HIDE DEF w
  <2> QED
    BY <1>2, <1>3, <2>1, Words DEF TooFar, CtrlWord
<1>5. Lookups(SlotCapacity) <= maxLookups /\ maxLookups \in Nat /\ Lookups(SlotCapacity) \in Nat
  <2>1. SlotCapacity \in Nat
    BY TableFacts DEF SlotCapacity
  <2> QED
    BY <2>1, LookupsGrow DEF TypeInv, FormInv, CapacityInv, TableOK
<1>6. ASSUME ChainsShort PROVE FALSE
  <2>1. hand.ctrl.dist < Lookups(SlotCapacity)
    BY <1>1, <1>6, DisplaceReach
  <2>2. CASE IsPoorerThan(c)
    <3>1. w = c /\ c.dist < hand.ctrl.dist
      BY <1>4, <2>2 DEF IsPoorerThan
    <3> HIDE DEF w, c
    <3> QED
      BY <1>4, <1>5, <2>1, <3>1
  <2>3. CASE ~ IsPoorerThan(c)
    <3>1. w = hand.ctrl /\ c.dist >= hand.ctrl.dist
      BY <1>4, <2>3 DEF IsPoorerThan
    <3>2. /\ k \in Key /\ Home(k, slotMask) \in Nat /\ hand.ctrl.dist = i - Home(k, slotMask)
          /\ Along(ctrl, slotMask, i, k) /\ slotMask \in Nat
      BY <1>1, TableFacts, InHand
    <3>3. Along(ctrl, slotMask, i + 1, k)
      <4>1. ctrl[i].dist >= i - Home(k, slotMask)
        BY <1>2, <3>1, <3>2
      <4> HIDE DEF k, i
      <4> QED
        BY <1>2, <3>2, <4>1, AlongNext
    <3>4. i + 1 - Home(k, slotMask) < Lookups(SlotCapacity)
      <4>1. i + 1 \in Nat /\ i <= i + 1
        BY <1>2
      <4> QED
        BY <1>1, <1>2, <1>6, <3>3, <4>1, HandReach
    <3> HIDE DEF w, c, k, i
    <3> QED
      BY <1>2, <1>4, <1>5, <3>1, <3>2, <3>4
  <2> QED
    BY <2>2, <2>3
<1> QED
  BY <1>4, <1>6

(* The reason why an insertion has given up. *)
RetryInv == ~ strayed /\ pc = "retry" /\ ChainsFit => StoreHash /\ ~ ChainsShort

(* It is there when the insertion gives up, and stays until the growth. *)
LEMMA NextRetry ==
  ASSUME TypeInv, SearchableInv, BoundsInv, RetryInv, [Next]_vars
  PROVE  RetryInv'
<1> SUFFICES ASSUME ~ strayed', pc' = "retry", ChainsFit' PROVE StoreHash /\ ~ ChainsShort'
  BY DEF RetryInv
<1>1. CASE UNCHANGED vars
  <2>1. UNCHANGED <<slot, slotMask, pc, probe, strayed>>
    BY <1>1 DEF vars, table
  <2>2. KeysHere' = KeysHere
    BY <2>1 DEF KeysHere
  <2> QED
    BY <2>1, <2>2, SameChains DEF RetryInv
<1>2. CASE PassOn
  <2>1. strayed' = strayed /\ pc = "displace" /\ slotMask' = slotMask
    BY <1>2 DEF PassOn, Displacing
  <2> QED
    BY <1>2, <2>1, PassOnGivesUp, PassOnKeys, SameChains DEF SearchableInv
<1>3. CASE GiveUp
  <2>1. /\ strayed' = strayed /\ pc = "displace" /\ UNCHANGED <<slot, slotMask, probe>>
        /\ probe.index >= lastSlot
    BY <1>3 DEF GiveUp
  <2>2. KeysHere' = KeysHere
    BY <2>1 DEF KeysHere
  <2>3. ~ ChainsFit
    <3>1. probe.index \in Nat /\ lastSlot \in Nat
      BY TableFacts DEF TypeInv, StepInv, ControlOK
    <3> QED
      BY <2>1, <3>1, DisplaceReach DEF SearchableInv
  <2> QED
    BY <2>1, <2>2, <2>3, SameChains
<1>4. CASE Displace
  BY <1>4 DEF Displace
<1> QED
  BY <1>1, <1>2, <1>3, <1>4, ToDisplace

(* The bounds of walks and displacements, and the reason of a retry. *)
LEMMA Crowded ==
  ASSUME TypeInv, SearchableInv, BoundsInv, RetryInv
  PROVE  GivesUpOnlyWhenCrowded
<1> SUFFICES ASSUME ~ strayed
             PROVE  /\ ChainsFit =>
                         /\ pc \in {"walk", "room"} => probe.index <= lastSlot
                         /\ pc \in {"place", "displace"} => probe.index < lastSlot
                         /\ pc = "displace" => hand.ctrl.dist >= 0
                         /\ pc = "retry" => StoreHash /\ ~ ChainsShort
                         /\ pc \notin {"shift", "displace", "retry"} => InMemory
                    /\ ChainsShort =>
                         /\ pc \in {"walk", "room"} => probe.dist <= Lookups(SlotCapacity)
                         /\ pc = "place" => probe.dist < Lookups(SlotCapacity)
                         /\ pc = "displace" => hand.ctrl.dist < Lookups(SlotCapacity)
  BY DEF GivesUpOnlyWhenCrowded
<1>1. CASE pc = "retry"
  BY <1>1 DEF RetryInv
<1>2. CASE pc # "retry"
  <2>1. TableInv /\ CourseInv
    BY <1>2 DEF SearchableInv
  <2>2. pc \in {"walk", "room"} /\ ChainsFit => /\ probe.index <= lastSlot
                                                /\ ChainsShort => probe.dist <= Lookups(SlotCapacity)
    BY <2>1, WalkReach
  <2>3. pc = "place" => /\ ChainsFit => probe.index < lastSlot
                        /\ ChainsShort => probe.dist < Lookups(SlotCapacity)
    BY <2>1, PlaceReach
  <2>4. pc = "displace" => /\ ChainsFit => probe.index < lastSlot /\ hand.ctrl.dist >= 0
                           /\ ChainsShort => hand.ctrl.dist < Lookups(SlotCapacity)
    BY <2>1, DisplaceReach
  <2>5. pc \notin {"shift", "displace"} /\ ChainsFit => InMemory
    BY <2>1, InMemoryWhereFit
  <2>6. ChainsShort => ChainsFit
    BY ShortIsFit
  <2>7. ChainsFit => /\ pc \in {"walk", "room"} => probe.index <= lastSlot
                     /\ pc \in {"place", "displace"} => probe.index < lastSlot
                     /\ pc = "displace" => hand.ctrl.dist >= 0
                     /\ pc = "retry" => StoreHash /\ ~ ChainsShort
                     /\ pc \notin {"shift", "displace", "retry"} => InMemory
    BY <1>2, <2>2, <2>3, <2>4, <2>5
  <2>8. ChainsShort => /\ pc \in {"walk", "room"} => probe.dist <= Lookups(SlotCapacity)
                       /\ pc = "place" => probe.dist < Lookups(SlotCapacity)
                       /\ pc = "displace" => hand.ctrl.dist < Lookups(SlotCapacity)
    BY <2>2, <2>3, <2>4, <2>6
  <2> QED
    BY <2>7, <2>8
<1> QED
  BY <1>1, <1>2

(***************************************************************************)
(* Whether walks and displacements of a robin_hash_map stay in the slots   *)
(* that were allocated depends on the keys alone: a slot after the home of *)
(* a key is passed only if the keys of a run of homes need it.  A rehash,  *)
(* which cannot report that there is no place left, finds one for every    *)
(* element if the chains fit the new table.                                *)
(***************************************************************************)
THEOREM GivesUp ==
  ASSUME HashesKept
  PROVE  Spec => []GivesUpOnlyWhenCrowded
<1>1. Init => SearchableInv /\ SizeInv /\ BoundsInv /\ RetryInv
  <2>1. Init => RetryInv
    BY DEF Init, RetryInv
  <2> QED
    BY <2>1, InitSearch, InitSize, InitBounds
<1>2. TypeInv /\ SearchableInv /\ SizeInv /\ BoundsInv /\ RetryInv /\ [Next]_vars
      => SearchableInv' /\ SizeInv' /\ BoundsInv' /\ RetryInv'
  BY NextSearch, NextSize, NextBounds, NextRetry DEF BoundsInv
<1>3. Spec => []TypeInv
  BY TypesAlways
<1>4. TypeInv /\ SearchableInv /\ BoundsInv /\ RetryInv => GivesUpOnlyWhenCrowded
  BY Crowded
<1> QED
  BY <1>1, <1>2, <1>3, <1>4, PTL DEF Spec

-----------------------------------------------------------------------------
(* While chains fit, nothing strays *)

(* A growth for which there is no memory comes only when a chain could still be served by one. *)
LEMMA NoneOverwritten ==
  ASSUME TypeInv, SearchableInv, BoundsInv, RetryInv, Chains, ~ strayed, [Next]_vars
  PROVE  ~ strayed'
<1>1. ASSUME pc = "retry" PROVE ~ LastGrowth
  BY <1>1 DEF Chains, RetryInv
<1>2. CASE Resizing
  <2>1. \A n, m, after : Resize(n, m, after) /\ pc # "retry" => ~ strayed'
    BY DEF Resize, CreateSlots, AllocationThrows
  <2>2. CASE Manage
    BY <2>1, <2>2, ManageOps DEF Clear
  <2>3. CASE Grow
    BY <2>1, <2>3, GrowOps DEF Grow
  <2>4. CASE Retry
    <3>1. CalcCapacity(TwiceTheSize) <= MaxCapacity
      <4>1. TwiceTheSize \in Int /\ MaxCapacity \in Nat
        BY <2>4, GrowOps, CapacityAssumption
      <4>2. CalcCapacity(TwiceTheSize) \in Nat
        BY <4>1, CapacityRange
      <4> QED
        BY <1>1, <2>4, <4>1, <4>2 DEF Retry, LastGrowth
    <3>2. CalcCapacity(TwiceTheSize) \in Nat /\ MaxCapacity \in Nat
      BY <2>4, GrowOps, CapacityAssumption, CapacityRange
    <3>3. Resize(CalcCapacity(TwiceTheSize), mlf, "walk")
      BY <2>4 DEF Retry, GrowThen
    <3> QED
      BY <3>1, <3>2, <3>3 DEF Resize, CreateSlots
  <2> QED
    BY <1>2, <2>2, <2>3, <2>4 DEF Resizing
<1>3. CASE Overwrite
  <2>1. pc = "displace" /\ probe.index >= lastSlot
    BY <1>3 DEF Overwrite
  <2>2. probe.index \in Nat /\ lastSlot \in Nat
    BY TableFacts DEF TypeInv, StepInv, ControlOK
  <2>3. probe.index < lastSlot
    BY <2>1, DisplaceReach DEF SearchableInv, Chains
  <2> QED
    BY <2>1, <2>2, <2>3
<1>4. CASE BeginKeyOp \/ BeginManagement
  BY <1>4 DEF BeginKeyOp, BeginManagement, Begin
<1>5. CASE Search
  BY <1>5 DEF Search, WalkNext, NotFound, ReturnFound, KeepExisting, AssignExisting
<1>6. CASE Erasing
  BY <1>6 DEF Erasing, EraseFound, ShiftNext, ShiftDone
<1>7. CASE Rehashing \/ Return
  BY <1>7 DEF Rehashing, MoveNext, RehashDone, Return
<1>8. CASE HaveRoom \/ PlaceNext \/ PlaceInEmpty \/ Displace
  BY <1>8 DEF HaveRoom, PlaceNext, PlaceInEmpty, Displace
<1>9. CASE PassOn \/ PutDown \/ GiveUp
  BY <1>9 DEF PassOn, PutDown, GiveUp
<1>10. CASE UNCHANGED vars
  BY <1>10 DEF vars
<1> QED
  BY <1>2, <1>3, <1>4, <1>5, <1>6, <1>7, <1>8, <1>9, <1>10 DEF Next, Step, Inserting, Resizing

(* Elements stay among the slots that were allocated, in every phase of a call. *)
LEMMA NextInMemory ==
  ASSUME TypeInv, SearchableInv, BoundsInv, RetryInv, Chains, ~ strayed, InMemory, [Next]_vars
  PROVE  InMemory'
<1>1. CASE Live(slot') = {}
  BY <1>1 DEF InMemory
<1>2. CASE Live(slot') \subseteq Live(slot) /\ lastSlot' = lastSlot
  BY <1>2 DEF InMemory
<1>3. CASE Resizing
  <2>1. ASSUME NEW n, NEW m, NEW after, Resize(n, m, after) PROVE InMemory'
    <3>1. CASE CreateSlots(n, m, after)
      <4>1. Live(slot') = {}
        BY <3>1 DEF CreateSlots, Live, AllRaw
      <4> QED
        BY <1>1, <4>1
    <3>2. CASE AllocationThrows(n)
      BY <1>2, <3>2 DEF AllocationThrows
    <3> QED
      BY <2>1, <3>1, <3>2 DEF Resize
  <2>2. CASE Manage
    <3>1. CASE Clear
      <4>1. Live(slot') = {}
        BY <3>1 DEF Clear, Destroy, ClearData, Live, AllRaw
      <4> QED
        BY <1>1, <4>1
    <3>2. CASE UNCHANGED table
      BY <1>2, <3>2 DEF table
    <3> QED
      BY <2>1, <2>2, <3>1, <3>2, ManageOps
  <2>3. CASE Grow \/ Retry
    BY <2>1, <2>3, GrowOps
  <2> QED
    BY <1>3, <2>2, <2>3 DEF Resizing
<1>4. CASE ~ Resizing
  <2>0. lastSlot' = lastSlot
    BY <1>4, SameEnd
  <2>1. CASE slot' = slot
    BY <1>2, <2>0, <2>1
  <2>2. CASE AssignExisting \/ EraseFound
    <3>1. probe.index \in Live(slot)
      <4>1. pc = "walk" /\ InChain(probe.dist, CtrlAt(probe.index))
        BY <2>2 DEF AssignExisting, EraseFound, Looking
      <4>2. probe.index \in DOMAIN slot /\ IsUsed(ctrl[probe.index])
        BY <4>1, InChainUsed
      <4> QED
        BY <4>1, <4>2 DEF TypeInv, FormInv, OccupiedInv, Vacant, Live
    <3>2. \E e : slot' = [slot EXCEPT ![probe.index] = e]
      BY <2>2 DEF AssignExisting, EraseFound
    <3>3. Live(slot') \subseteq Live(slot)
      BY <3>1, <3>2 DEF Live
    <3> QED
      BY <1>2, <2>0, <3>3
  <2>3. CASE ShiftNext
    <3> DEFINE i == probe.index
               n == probe.index + 1
    <3>1. /\ pc = "shift" /\ NotAtHome(CtrlAt(n)) /\ i \in Nat /\ n \in Nat /\ n # i /\ Vacant = {i}
          /\ \E e : slot' = [slot EXCEPT ![i] = e, ![n] = Raw]
      <4>1. i \in Nat
        BY DEF TypeInv, StepInv, ControlOK
      <4>2. n \in Nat /\ n # i
        BY <4>1
      <4>3. pc = "shift" /\ NotAtHome(CtrlAt(n)) /\ Vacant = {i}
        BY <2>3 DEF ShiftNext, NextCtrl, Vacant
      <4>4. \E e : slot' = [slot EXCEPT ![i] = e, ![n] = Raw]
        BY <2>3 DEF ShiftNext
      <4> QED
        BY <4>1, <4>2, <4>3, <4>4
    <3>2. n \in DOMAIN ctrl /\ IsUsed(ctrl[n]) /\ DOMAIN ctrl = DOMAIN slot
      <4>1. CtrlAt(n) \in CtrlWord /\ DOMAIN ctrl = DOMAIN slot
        BY <3>1, TableFacts
      <4>2. CtrlAt(n).dist > 0
        BY <3>1 DEF NotAtHome
      <4>3. n \in DOMAIN ctrl
        BY <4>2, Words DEF CtrlAt
      <4> HIDE DEF n
      <4> QED
        BY <4>1, <4>2, <4>3 DEF CtrlAt, IsUsed, CtrlWord
    <3>3. n \in Live(slot)
      BY <3>1, <3>2 DEF TypeInv, FormInv, OccupiedInv, Live
    <3>4. i < lastSlot
      <4>1. n < lastSlot /\ lastSlot \in Nat
        BY <3>3, TableFacts DEF InMemory
      <4> QED
        BY <3>1, <4>1
    <3>5. Live(slot') \subseteq Live(slot) \cup {i}
      BY <3>1 DEF Live
    <3> QED
      BY <2>0, <3>4, <3>5 DEF InMemory
  <2>4. CASE PlaceInEmpty
    <3>1. pc = "place" /\ slot' = [slot EXCEPT ![probe.index] = NewElement]
      BY <2>4 DEF PlaceInEmpty, AtEndOfChain
    <3>2. probe.index < lastSlot
      BY <3>1, PlaceReach DEF SearchableInv, Chains
    <3>3. Live(slot') \subseteq Live(slot) \cup {probe.index}
      BY <3>1 DEF Live
    <3> QED
      BY <2>0, <3>2, <3>3 DEF InMemory
  <2>5. CASE PassOn
    BY <1>2, <2>0, <2>5, PassOnKeys
  <2>6. CASE PutDown
    <3>1. /\ Displacing /\ probe.index < lastSlot
          /\ \E e : slot' = [slot EXCEPT ![probe.index] = e, ![hand.at] = NewElement]
      BY <2>6 DEF PutDown, Displacing
    <3>2. hand.at < lastSlot
      <4>1. hand.at \in Nat /\ probe.index \in Nat /\ lastSlot \in Nat /\ hand.at < probe.index
        BY <3>1, Carrying, TableFacts
      <4> QED
        BY <3>1, <4>1
    <3>3. Live(slot') \subseteq Live(slot) \cup {probe.index, hand.at}
      BY <3>1 DEF Live
    <3> QED
      BY <2>0, <3>1, <3>2, <3>3 DEF InMemory
  <2>7. ~ Overwrite
    BY NoneOverwritten DEF Overwrite
  <2>8. \/ AssignExisting \/ EraseFound \/ ShiftNext \/ PlaceInEmpty \/ PassOn \/ PutDown
        \/ slot' = slot
    <3>1. CASE BeginKeyOp \/ BeginManagement
      BY <3>1 DEF BeginKeyOp, BeginManagement, Begin, table
    <3>2. CASE Search
      BY <3>2 DEF Search, WalkNext, NotFound, ReturnFound, KeepExisting, table
    <3>3. CASE Erasing
      BY <3>3 DEF Erasing, ShiftDone
    <3>4. CASE Rehashing \/ Return
      BY <3>4 DEF Rehashing, MoveNext, RehashDone, Return, table
    <3>5. CASE HaveRoom \/ PlaceNext \/ Displace \/ GiveUp
      BY <3>5 DEF HaveRoom, PlaceNext, Displace, GiveUp, table
    <3>6. CASE UNCHANGED vars
      BY <3>6 DEF vars, table
    <3> QED
      BY <1>4, <2>7, <3>1, <3>2, <3>3, <3>4, <3>5, <3>6 DEF Next, Step, Inserting, Resizing
  <2> QED
    BY <2>1, <2>2, <2>3, <2>4, <2>5, <2>6, <2>8
<1> QED
  BY <1>3, <1>4

(* The part of a table that a rehash goes through has all slots that were allocated. *)
LEMMA MemoryIsCovered ==
  ASSUME TypeInv, EndInv, InMemory
  PROVE  Covered
<1>1. /\ SlotCapacity \in Nat /\ maxLookups \in Nat /\ lastSlot \in Nat
      /\ lastSlot <= SlotCapacity + maxLookups
  <2>1. slotMask \in Nat /\ maxLookups \in Nat /\ lastSlot \in Nat
    BY DEF TypeInv, FormInv, TableOK
  <2>2. SlotCapacity \in Nat
    BY <2>1 DEF SlotCapacity
  <2>3. Lookups(SlotCapacity) \in Nat
    BY <2>2, LookupsGrow
  <2> QED
    BY <2>1, <2>2, <2>3 DEF TypeInv, FormInv, CapacityInv
<1> DEFINE n == GroupCount(SlotCapacity, maxLookups) * GroupWidth
<1>2. n \in Nat /\ SlotCapacity + maxLookups <= n
  BY <1>1, GroupsSuffice
<1>3. OldIndexes = 0..(n - 1) \/ OldIndexes = 0..(SlotCapacity + maxLookups - 1)
  <2>1. CASE SlotCapacity >= GroupWidth
    BY <2>1 DEF OldIndexes
  <2>2. CASE ~ (SlotCapacity >= GroupWidth)
    <3>1. OldIndexes = 0..(MaxSlotCapacity - 1)
      BY <2>2, Zenon DEF OldIndexes
    <3>2. MaxSlotCapacity = SlotCapacity + maxLookups /\ MaxSlotCapacity \in Nat
      BY <1>1 DEF MaxSlotCapacity
    <3>3. OldIndexes = 0..(SlotCapacity + maxLookups - 1)
      BY <1>1, <3>1, <3>2
    <3> QED
      BY <3>3
  <2> QED
    BY <2>1, <2>2
<1> HIDE DEF n
<1>4. \A i \in Live(slot) : i \in Nat /\ i < lastSlot
  BY LiveFinite DEF InMemory
<1> QED
  BY <1>1, <1>2, <1>3, <1>4 DEF Covered

(***************************************************************************)
(* While the keys of each state fit their table, no element of a           *)
(* robin_hash_map strays: an insertion that gives up is followed by a      *)
(* growth that succeeds, a rehash finds a place for every element, and a   *)
(* later one goes through all of them.                                     *)
(***************************************************************************)
THEOREM NothingStrays ==
  ASSUME HashesKept
  PROVE  Spec /\ []Chains => []NeverStrays
<1> DEFINE Kept == SearchableInv /\ SizeInv /\ BoundsInv /\ RetryInv /\ ~ strayed /\ InMemory
<1>1. Init => Kept
  <2>1. Init => RetryInv /\ ~ strayed /\ InMemory
    BY DEF Init, RetryInv, InMemory, Live, AllRaw
  <2> QED
    BY <2>1, InitSearch, InitSize, InitBounds
<1>2. TypeInv /\ Chains /\ Kept /\ [Next]_vars => Kept'
  BY NextSearch, NextSize, NextBounds, NextRetry, NoneOverwritten, NextInMemory DEF BoundsInv
<1>3. Spec => []TypeInv
  BY TypesAlways
<1>4. TypeInv /\ Kept => NeverStrays
  BY MemoryIsCovered DEF BoundsInv, NeverStrays
<1> HIDE DEF Kept
<1> QED
  BY <1>1, <1>2, <1>3, <1>4, PTL DEF Spec

(***************************************************************************)
(* A robin_hash_map is a map as long as the keys of each state fit their   *)
(* table, and no hypothesis about what its operations do is needed.        *)
(***************************************************************************)
THEOREM MapWhereChainsFit ==
  ASSUME HashesKept
  PROVE  Spec /\ []Chains => ImplementsMap
<1>1. Spec /\ []Chains => []NeverStrays
  BY NothingStrays
<1>2. Spec /\ []NeverStrays => ImplementsMap
  BY MapRefinement
<1> QED
  BY <1>1, <1>2, PTL

(* In a table that its keys fit, begin() and ++ go through all elements. *)
THEOREM IterationWhereChainsFit ==
  ASSUME HashesKept
  PROVE  Spec => [](ChainsFit => IterationIsComplete)
<1>1. Spec => []GivesUpOnlyWhenCrowded
  BY GivesUp
<1>2. Spec => [](InMemory => IterationIsComplete)
  BY Iteration
<1>3. GivesUpOnlyWhenCrowded /\ (InMemory => IterationIsComplete) => (ChainsFit => IterationIsComplete)
  <2>1. IterationIsComplete \/ (pc = "idle" /\ ~ strayed)
    BY DEF IterationIsComplete
  <2> QED
    BY <2>1 DEF GivesUpOnlyWhenCrowded
<1> QED
  BY <1>1, <1>2, <1>3, PTL

-----------------------------------------------------------------------------
(* Distances *)

(* No byte, and not that in the hand, has a distance of more than max_lookups_ of the largest table. *)
DistancesInv ==
    /\ \A i \in DOMAIN ctrl : ctrl[i].dist <= Lookups(MaxCapacity)
    /\ hand.ctrl.dist <= Lookups(MaxCapacity)

(* The bytes of a new table have no distance at all. *)
LEMMA FreshDistances ==
  ASSUME NEW capacity, NEW lookups
  PROVE  \A i \in DOMAIN FreshCtrl(capacity, lookups) : FreshCtrl(capacity, lookups)[i].dist <= Lookups(MaxCapacity)
<1>1. Lookups(MaxCapacity) \in Nat
  BY CapacityAssumption, LookupsGrow
<1>2. Empty.dist <= Lookups(MaxCapacity) /\ EndOf.dist <= Lookups(MaxCapacity)
  BY <1>1, Words
<1> QED
  BY <1>2 DEF FreshCtrl

(* While chains are short, no step puts a greater distance into a byte or into the hand. *)
LEMMA NextDistances ==
  ASSUME HashesKept, TypeInv, SearchableInv, BoundsInv, ~ strayed, ChainsShort, DistancesInv, [Next]_vars
  PROVE  DistancesInv'
<1> DEFINE B == Lookups(MaxCapacity)
<1>1. B \in Nat /\ Lookups(SlotCapacity) \in Nat /\ Lookups(SlotCapacity) <= B /\ hand.ctrl.dist <= B
  <2>1. SlotCapacity \in Nat /\ SlotCapacity <= MaxCapacity /\ MaxCapacity \in Nat
    BY CapacityAssumption, TableFacts DEF SlotCapacity, TypeInv, FormInv, CapacityInv
  <2> QED
    BY <2>1, LookupsGrow DEF DistancesInv
<1>2. Empty.dist = -1 /\ NoHand.ctrl = Empty
  BY Words DEF NoHand
<1>3. \A i \in Nat : CtrlAt(i).dist <= B /\ CtrlAt(i).dist \in Int /\ CtrlAt(i) \in CtrlWord
  <2> SUFFICES ASSUME NEW i \in Nat PROVE CtrlAt(i).dist <= B /\ CtrlAt(i).dist \in Int /\ CtrlAt(i) \in CtrlWord
    OBVIOUS
  <2>1. CtrlAt(i) \in CtrlWord /\ CtrlAt(i).dist \in Int
    BY TableFacts DEF CtrlWord
  <2>2. EndOf.dist <= B
    BY <1>1, Words
  <2> QED
    BY <2>1, <2>2 DEF CtrlAt, DistancesInv
<1>4. /\ DOMAIN ctrl = DOMAIN slot /\ probe.index \in Nat /\ probe.dist \in Nat
      /\ hand = [at |-> hand.at, ctrl |-> hand.ctrl] /\ hand.ctrl \in CtrlWord /\ hand.ctrl.dist \in Int
  BY TableFacts DEF TypeInv, StepInv, ControlOK, CtrlWord
<1> HIDE DEF B
(* the forms a change of the bytes has *)
<1>5. CASE ctrl' = ctrl /\ hand' = hand
  BY <1>5 DEF DistancesInv
<1>6. ASSUME NEW n, NEW l, ctrl' = FreshCtrl(n, l), hand' = hand PROVE DistancesInv'
  <2>1. MaxCapacity' = MaxCapacity /\ \A i \in DOMAIN ctrl' : ctrl'[i].dist <= Lookups(MaxCapacity)
    BY <1>6, FreshDistances
  <2>2. Lookups(MaxCapacity)' = Lookups(MaxCapacity)
    OBVIOUS
  <2> QED
    BY <1>6, <2>1, <2>2 DEF DistancesInv
<1>7. ASSUME NEW i, NEW w, ctrl' = [ctrl EXCEPT ![i] = w], w.dist <= B,
             hand'.ctrl.dist <= B
      PROVE  DistancesInv'
  <2>1. \A j \in DOMAIN ctrl' : j \in DOMAIN ctrl /\ ctrl'[j] \in {ctrl[j], w}
    BY <1>7
  <2>2. \A j \in DOMAIN ctrl' : ctrl'[j].dist <= B
    BY <1>7, <2>1 DEF DistancesInv, B
  <2> QED
    BY <1>7, <2>2 DEF DistancesInv, B
<1>8. CASE Resizing
  <2>1. ASSUME NEW n, NEW m, NEW after, Resize(n, m, after) PROVE DistancesInv'
    BY <1>5, <1>6, <2>1 DEF Resize, CreateSlots, AllocationThrows
  <2>2. CASE Manage
    <3>1. CASE Clear
      <4>1. hand' = hand /\ \E n, l : ctrl' = FreshCtrl(n, l)
        BY <3>1 DEF Clear, Destroy, ClearData
      <4> QED
        BY <1>6, <4>1
    <3>2. CASE UNCHANGED <<table, call, probe, hand, strayed, rehash>>
      BY <1>5, <3>2 DEF table
    <3> QED
      BY <2>1, <2>2, <3>1, <3>2, ManageOps
  <2>3. CASE Grow \/ Retry
    BY <2>1, <2>3, GrowOps
  <2> QED
    BY <1>8, <2>2, <2>3 DEF Resizing
<1>9. CASE ShiftNext
  <2>1. /\ ctrl' = [ctrl EXCEPT ![probe.index] = DecDist(CtrlAt(probe.index + 1))] /\ hand' = hand
    BY <1>9 DEF ShiftNext, NextCtrl
  <2>2. probe.index + 1 \in Nat
    BY <1>4
  <2>3. DecDist(CtrlAt(probe.index + 1)).dist <= B
    <3> DEFINE c == CtrlAt(probe.index + 1)
    <3>1. c \in CtrlWord /\ c.dist <= B /\ c.dist \in Int
      BY <1>3, <2>2
    <3> HIDE DEF c
    <3>2. DecDist(c).dist <= B
      BY <1>1, <3>1, Words
    <3> QED
      BY <3>2 DEF c
  <2> QED
    BY <1>1, <1>7, <2>1, <2>3
<1>10. CASE ShiftDone
  <2>1. ctrl' = [ctrl EXCEPT ![probe.index] = Empty] /\ hand' = hand /\ Empty.dist <= B
    BY <1>1, <1>2, <1>10 DEF ShiftDone
  <2> QED
    BY <1>1, <1>7, <2>1
<1>11. CASE PlaceInEmpty \/ Displace
  <2>1. AtEndOfChain /\ pc = "place" /\ TableInv /\ CourseInv
    BY <1>11 DEF PlaceInEmpty, Displace, AtEndOfChain, SearchableInv
  <2>2. /\ NewCtrl.dist = probe.dist /\ NewCtrl.dist > CtrlAt(probe.index).dist
        /\ CtrlAt(probe.index) \in CtrlWord
    BY <2>1, Arrived, NewElementType
  <2>3. probe.dist < Lookups(SlotCapacity)
    BY <2>1, PlaceReach
  <2>4. CtrlAt(probe.index).dist + 1 <= B /\ NewCtrl.dist <= B
    <3> DEFINE d == CtrlAt(probe.index).dist
    <3>1. d \in Int /\ d < probe.dist
      BY <2>2 DEF CtrlWord
    <3> HIDE DEF d
    <3>2. d + 1 <= B /\ probe.dist <= B
      BY <1>1, <1>4, <2>3, <3>1
    <3> QED
      BY <2>2, <3>2 DEF d
  <2>5. IncDist(CtrlAt(probe.index)).dist <= B
    BY <2>2, <2>4, Words
  <2>6. /\ ctrl' = [ctrl EXCEPT ![probe.index] = NewCtrl]
        /\ hand' = hand \/ hand' = [at |-> probe.index, ctrl |-> IncDist(CtrlAt(probe.index))]
    BY <1>11 DEF PlaceInEmpty, Displace
  <2>7. hand'.ctrl.dist <= B
    BY <1>1, <2>5, <2>6
  <2> QED
    BY <1>7, <2>4, <2>6, <2>7
<1>12. CASE PassOn
  <2> DEFINE c == CtrlAt(probe.index)
             swaps == IsPoorerThan(c)
             w == IF swaps THEN c ELSE hand.ctrl
             carried == IncDist(w)
             swapped == IF swaps THEN [ctrl EXCEPT ![probe.index] = hand.ctrl] ELSE ctrl
  <2>1. /\ Displacing /\ pc = "displace" /\ TableInv /\ CourseInv
        /\ hand.ctrl.dist < Lookups(SlotCapacity)
    BY <1>12, DisplaceReach DEF PassOn, Displacing, SearchableInv
  <2>2. c \in CtrlWord /\ c.dist \in Int /\ w \in CtrlWord
    BY <1>3, <1>4
  <2>3. w.dist <= hand.ctrl.dist
    BY <1>4, <2>2 DEF IsPoorerThan
  <2>4. carried.dist <= B
    <3>1. carried.dist = w.dist + 1 /\ w.dist \in Int
      <4> HIDE DEF w
      <4> QED
        BY <2>2, Words DEF CtrlWord
    <3> HIDE DEF w, carried
    <3> QED
      BY <1>1, <1>4, <2>1, <2>3, <3>1
  <2>5. /\ ctrl' = swapped \/ ctrl' = [swapped EXCEPT ![hand.at] = carried]
        /\ hand' = NoHand \/ hand' = [hand EXCEPT !.ctrl = carried]
    BY <1>12, <2>1, Carrying DEF PassOn
  <2>6. hand'.ctrl.dist <= B
    <3>1. hand'.ctrl \in {Empty, carried}
      BY <1>2, <1>4, <2>5
    <3>2. Empty.dist <= B
      BY <1>1, <1>2
    <3> QED
      BY <2>4, <3>1, <3>2
  <2>7. \A j \in DOMAIN ctrl' : j \in DOMAIN ctrl /\ ctrl'[j] \in {ctrl[j], hand.ctrl, carried}
    <3>1. \A j \in DOMAIN swapped : j \in DOMAIN ctrl /\ swapped[j] \in {ctrl[j], hand.ctrl}
      OBVIOUS
    <3> HIDE DEF swapped, carried
    <3> QED
      BY <2>5, <3>1
  <2> HIDE DEF carried
  <2>8. \A j \in DOMAIN ctrl' : ctrl'[j].dist <= B
    BY <1>1, <2>4, <2>7 DEF DistancesInv, B
  <2> QED
    BY <2>6, <2>8 DEF DistancesInv, B
<1>13. CASE PutDown \/ GiveUp \/ Overwrite
  <2>1. /\ hand' = NoHand
        /\ \E i : ctrl' = [ctrl EXCEPT ![i] = hand.ctrl]
    BY <1>13 DEF PutDown, GiveUp, Overwrite
  <2>2. hand'.ctrl.dist <= B
    BY <1>1, <1>2, <2>1
  <2> QED
    BY <1>1, <1>7, <2>1, <2>2
<1>14. CASE ~ Resizing /\ ~ (\/ ShiftNext \/ ShiftDone \/ PlaceInEmpty \/ Displace
                             \/ PassOn \/ PutDown \/ GiveUp \/ Overwrite)
  <2>1. ctrl' = ctrl /\ hand' = hand
    <3>1. CASE BeginKeyOp \/ BeginManagement
      BY <3>1 DEF BeginKeyOp, BeginManagement, Begin, table
    <3>2. CASE Search
      BY <3>2 DEF Search, WalkNext, NotFound, ReturnFound, KeepExisting, AssignExisting, table
    <3>3. CASE EraseFound
      BY <3>3 DEF EraseFound
    <3>4. CASE Rehashing \/ Return
      BY <3>4 DEF Rehashing, MoveNext, RehashDone, Return, table
    <3>5. CASE HaveRoom \/ PlaceNext
      BY <3>5 DEF HaveRoom, PlaceNext, table
    <3>6. CASE UNCHANGED vars
      BY <3>6 DEF vars, table
    <3> QED
      BY <1>14, <3>1, <3>2, <3>3, <3>4, <3>5, <3>6 DEF Next, Step, Inserting, Erasing, Resizing
  <2> QED
    BY <1>5, <2>1
<1> QED
  BY <1>8, <1>9, <1>10, <1>11, <1>12, <1>13, <1>14

(***************************************************************************)
(* setValue() of a control byte asserts that the distance is no more than  *)
(* kMaxDist.  As long as chains are short it is so of all distances, those *)
(* that walks count included, in every table of less than 2^32 slots,      *)
(* since max_lookups_ grows with the logarithm of the capacity only.       *)
(***************************************************************************)
THEOREM Distances ==
  ASSUME HashesKept, Lookups(MaxCapacity) <= MaxDist
  PROVE  Spec /\ []ChainsShort => []DistancesFit
<1>1. Lookups(MaxCapacity) \in Nat /\ MaxDist \in Nat
  BY CapacityAssumption, LookupsGrow DEF MaxDist
<1>2. Init => SearchableInv /\ SizeInv /\ BoundsInv /\ RetryInv
  <2>1. Init => RetryInv
    BY DEF Init, RetryInv
  <2> QED
    BY <2>1, InitSearch, InitSize, InitBounds
<1>3. TypeInv /\ SearchableInv /\ SizeInv /\ BoundsInv /\ RetryInv /\ [Next]_vars
      => SearchableInv' /\ SizeInv' /\ BoundsInv' /\ RetryInv'
  BY NextSearch, NextSize, NextBounds, NextRetry DEF BoundsInv
<1>4. Init => DistancesInv
  <2> SUFFICES ASSUME Init PROVE DistancesInv
    OBVIOUS
  <2>1. hand.ctrl = Empty /\ \E n, l : ctrl = FreshCtrl(n, l)
    BY DEF Init, NoHand
  <2>2. Empty.dist <= Lookups(MaxCapacity)
    BY <1>1, Words
  <2> QED
    BY <2>1, <2>2, FreshDistances DEF DistancesInv
<1>5. /\ TypeInv /\ SearchableInv /\ BoundsInv /\ ~ strayed /\ ChainsShort /\ DistancesInv /\ [Next]_vars
      => DistancesInv'
  BY NextDistances
<1>6. TypeInv /\ ChainsShort => Chains
  BY ShortIsFit DEF Chains
<1>7. NeverStrays => ~ strayed
  BY DEF NeverStrays
<1>8. TypeInv /\ SearchableInv /\ BoundsInv /\ RetryInv /\ ~ strayed /\ ChainsShort /\ DistancesInv => DistancesFit
  <2> SUFFICES ASSUME TypeInv, SearchableInv, BoundsInv, RetryInv, ~ strayed, ChainsShort, DistancesInv
               PROVE  DistancesFit
    OBVIOUS
  <2>1. \A d \in Int : d <= Lookups(MaxCapacity) => d <= MaxDist
    BY <1>1
  <2>2. hand.ctrl.dist \in Int /\ \A i \in DOMAIN ctrl : ctrl[i].dist \in Int
    BY TableFacts DEF TypeInv, StepInv, ControlOK, CtrlWord
  <2>3. pc \in {"walk", "room", "place"} => probe.dist <= MaxDist
    <3>1. pc \in {"walk", "room", "place"} => probe.dist <= Lookups(SlotCapacity)
      <4>1. /\ pc \in {"walk", "room"} => probe.dist <= Lookups(SlotCapacity)
            /\ pc = "place" => probe.dist < Lookups(SlotCapacity)
        BY Crowded DEF GivesUpOnlyWhenCrowded
      <4>2. probe.dist \in Nat /\ SlotCapacity \in Nat
        BY TableFacts DEF TypeInv, StepInv, ControlOK, SlotCapacity
      <4>3. Lookups(SlotCapacity) \in Nat
        BY <4>2, LookupsGrow
      <4> QED
        BY <4>1, <4>2, <4>3
    <3>2. SlotCapacity \in Nat /\ SlotCapacity <= MaxCapacity /\ MaxCapacity \in Nat
      BY CapacityAssumption, TableFacts DEF SlotCapacity, TypeInv, FormInv, CapacityInv
    <3>3. Lookups(SlotCapacity) \in Nat /\ Lookups(SlotCapacity) <= Lookups(MaxCapacity)
      BY <3>2, LookupsGrow
    <3>4. probe.dist \in Nat
      BY DEF TypeInv, StepInv, ControlOK
    <3> QED
      BY <1>1, <3>1, <3>3, <3>4
  <2> QED
    BY <2>1, <2>2, <2>3 DEF DistancesInv, DistancesFit
<1>9. Spec => []TypeInv
  BY TypesAlways
<1>10. Spec /\ []Chains => []NeverStrays
  BY NothingStrays
<1> QED
  BY <1>2, <1>3, <1>4, <1>5, <1>6, <1>7, <1>8, <1>9, <1>10, PTL DEF Spec

=============================================================================
