------------------------ MODULE Robin16HashMapProofs ------------------------
(***************************************************************************)
(* What holds of a robin16 map whatever its keys, its sizes and the calls: *)
(* the control words are those of the elements, wherever the chains wrap   *)
(* round the table, a search comes to every element, no key is there       *)
(* twice, and every call does to the mapping what a map would.             *)
(***************************************************************************)
EXTENDS Robin16HashMap, GroupQuadraticProberProofs

-----------------------------------------------------------------------------
(* Capacities *)

(* The widths are powers of two. *)
LEMMA Widths ==
  /\ GroupWidth \in Nat /\ GroupWidth >= 2 /\ IsPow2(GroupWidth)
  /\ MinCapacity \in Nat /\ MinCapacity >= 2 /\ IsPow2(MinCapacity)
  /\ DefaultCapacity \in Nat /\ IsPow2(DefaultCapacity) /\ DefaultCapacity >= MinCapacity
BY WidthAssumption

(* A quotient and what is left of it. *)
LEMMA QuotientRest ==
  ASSUME NEW d \in Nat \ {0}, NEW q \in Nat, NEW r \in 0..(d - 1)
  PROVE  ((d * q) + r) \div d = q
OBVIOUS

(* calc_capacity() rounds up to a power of two that is not too small. *)
LEMMA CalcCapacityRange ==
  ASSUME NEW n \in Nat
  PROVE  /\ CalcCapacity(n) \in Nat /\ IsPow2(CalcCapacity(n))
         /\ CalcCapacity(n) >= MinCapacity /\ CalcCapacity(n) >= n
<1> DEFINE w == AtLeast(n, MinCapacity)
<1>1. w \in Nat /\ w >= 1 /\ w >= MinCapacity /\ w >= n
  BY Widths DEF AtLeast
<1> HIDE DEF w
<1>2. \E p \in w..(2 * w) : IsPow2(p) /\ p < 2 * w
  BY <1>1, Pow2Between
<1>3. CalcCapacity(n) \in w..(2 * w) /\ IsPow2(CalcCapacity(n))
  BY <1>2 DEF CalcCapacity, w
<1> QED
  BY <1>1, <1>3, Widths

(* The capacities of tables, and the control words that go with them. *)
ValidCapacity(c) == c \in Nat /\ IsPow2(c) /\ MinCapacity <= c
Words(c) == 0..((GroupCount(c) + 1) * GroupWidth - 1)

(* The number of words there are for so many slots. *)
LEMMA CapacityShape ==
  ASSUME NEW c, ValidCapacity(c)
  PROVE  /\ c \in Nat /\ c >= 2
         /\ c < GroupWidth => /\ Words(c) = 0..(2 * GroupWidth - 1)
                             /\ 2 * c <= GroupWidth /\ GroupCount(c) = 1
         /\ c >= GroupWidth => /\ Words(c) = 0..(c + GroupWidth - 1)
                              /\ GroupCount(c) * GroupWidth = c
                              /\ \E q \in Nat : q >= 1 /\ c = q * GroupWidth /\ GroupCount(c) = q
<1>1. c \in Nat /\ c >= 2 /\ IsPow2(c)
  BY Widths DEF ValidCapacity
<1>2. CASE c < GroupWidth
  <2>1. GroupCount(c) = 1
    <3>1. c + GroupWidth - 1 = (GroupWidth * 1) + (c - 1) /\ c - 1 \in 0..(GroupWidth - 1)
      BY <1>1, <1>2, Widths
    <3> QED
      BY <3>1, Widths, QuotientRest DEF GroupCount
  <2>2. Words(c) = 0..(2 * GroupWidth - 1)
    BY <2>1 DEF Words
  <2>3. PICK q \in Nat : GroupWidth = c * q /\ IsPow2(q)
    BY <1>1, <1>2, Widths, Pow2Divides
  <2>4. q >= 2
    <3>1. q # 0 /\ q # 1
      BY <1>1, <1>2, <2>3, Widths
    <3> QED
      BY <3>1
  <2>5. PICK d \in Nat : q = 2 + d
    BY <2>4, q - 2 \in Nat, q = 2 + (q - 2)
  <2>6. GroupWidth = 2 * c + c * d /\ c * d \in Nat
    BY <1>1, <2>3, <2>5
  <2> QED
    BY <1>1, <1>2, <2>1, <2>2, <2>6
<1>3. CASE c >= GroupWidth
  <2>1. PICK q \in Nat : c = GroupWidth * q /\ IsPow2(q)
    BY <1>1, <1>3, Widths, Pow2Divides
  <2>2. GroupCount(c) = q
    <3>1. c + GroupWidth - 1 = (GroupWidth * q) + (GroupWidth - 1) /\ GroupWidth - 1 \in 0..(GroupWidth - 1)
      BY <1>1, <2>1, Widths
    <3> QED
      BY <3>1, Widths, QuotientRest DEF GroupCount
  <2>3. (q + 1) * GroupWidth - 1 = c + GroupWidth - 1 /\ q * GroupWidth = c /\ q >= 1
    BY <2>1, Widths DEF IsPow2
  <2> QED
    BY <1>1, <1>3, <2>2, <2>3, Widths DEF Words
<1> QED
  BY <1>1, <1>2, <1>3, Widths

(* A load factor is less than one. *)
LEMMA FactorRange ==
  ASSUME NEW m \in LoadFactors
  PROVE  m \in Nat /\ m <= 65535 /\ LoadFactorRev[m] \in Nat
BY LoadFactorAssumption

(* The threshold is less than the capacity. *)
LEMMA ThresholdRange ==
  ASSUME NEW c \in Nat, c >= 1, NEW m \in LoadFactors
  PROVE  CalcSlotThreshold(m, c) \in 0..(c - 1)
<1>1. m \in Nat /\ m <= 65535
  BY FactorRange
<1> DEFINE a == c * m
           q == a \div 65536
<1>2. a \in Nat /\ a <= c * 65535
  <2>1. a \in Nat /\ c * (65535 - m) \in Nat /\ c * 65535 = c * m + c * (65535 - m)
    BY <1>1
  <2> QED
    BY <2>1
<1> HIDE DEF a
<1>3. q \in Nat /\ a >= 65536 * q
  BY <1>2
<1> HIDE DEF q
<1>4. q < c
  BY <1>2, <1>3
<1>5. CalcSlotThreshold(m, c) = q
  BY DEF CalcSlotThreshold, LoadFactorAmplify, a, q
<1> QED
  BY <1>3, <1>4, <1>5

(* So many slots are asked for, and never fewer than there are elements. *)
LEMMA RequireRange ==
  ASSUME NEW n \in Nat, NEW m \in LoadFactors
  PROVE  MinRequireCapacity(n, m) \in Nat /\ MinRequireCapacity(n, m) >= n
<1>1. LoadFactorRev[m] \in Nat /\ LoadFactorRev[m] >= 65536
  BY FactorRange, LoadFactorAssumption DEF LoadFactorAmplify
<1> DEFINE r == LoadFactorRev[m] - 65536
           x == n * r
           a == n * LoadFactorRev[m]
           q == a \div 65536
<1>2. r \in Nat /\ LoadFactorRev[m] = 65536 + r
  BY <1>1
<1>3. x \in Nat /\ a = 65536 * n + x
  <2> HIDE DEF r
  <2> QED
    BY <1>2
<1> HIDE DEF x, a, r
<1>4. a \in Nat /\ a >= 65536 * n
  BY <1>3
<1>5. q \in Nat /\ a < 65536 * q + 65536
  BY <1>4
<1> HIDE DEF q
<1>6. q >= n
  BY <1>4, <1>5
<1>7. MinRequireCapacity(n, m) = q
  BY DEF MinRequireCapacity, LoadFactorAmplify, a, q
<1> QED
  BY <1>5, <1>6, <1>7

(* The least element of a set, told by being one. *)
LEMMA LeastIs ==
  ASSUME NEW S, S \subseteq Nat, NEW x \in S, \A y \in S : x <= y
  PROVE  Sets!Min(S) = x
<1> DEFINE m == Sets!Min(S)
<1>1. m \in S /\ \A y \in S : m <= y
  BY DEF Sets!Min
<1> HIDE DEF m
<1>2. m <= x /\ x <= m /\ m \in Nat /\ x \in Nat
  BY <1>1
<1>3. m = x
  BY <1>2
<1> QED
  BY <1>3 DEF m

(* The least element of a set that has some. *)
LEMMA LeastOf ==
  ASSUME NEW S, S \subseteq Nat, S # {}
  PROVE  Sets!Min(S) \in S /\ \A y \in S : Sets!Min(S) <= y
<1>1. \E x \in S : \A y \in S : x <= y
  BY LeastElement
<1> QED
  BY <1>1 DEF Sets!Min

-----------------------------------------------------------------------------
(* The circle of the slots *)

(* The home of a key, how far a slot is from it, the slot so far from it, and the slot after one. *)
HomeIn(mask, k) == Hash[k] % (mask + 1)
Gap(mask, i, k) == IF i >= HomeIn(mask, k) THEN i - HomeIn(mask, k) ELSE i + (mask + 1) - HomeIn(mask, k)
Spot(mask, k, d) == IF HomeIn(mask, k) + d <= mask THEN HomeIn(mask, k) + d
                                                   ELSE HomeIn(mask, k) + d - (mask + 1)
After(mask, i) == IF i = mask THEN 0 ELSE i + 1

(* The word of an element in a slot, and what a search for a key has to pass to come there. *)
WordOf(mask, i, e) == Ctrl(Gap(mask, i, e.key), CtrlHash[e.key])
Along(words, mask, i, k) ==
    \A j \in 0..mask : Gap(mask, j, k) < Gap(mask, i, k) => words[j].dist >= Gap(mask, j, k)

(* A key lives in a slot. *)
LEMMA HomeRange ==
  ASSUME NEW mask \in Nat, NEW k \in Key
  PROVE  HomeIn(mask, k) \in 0..mask
<1> DEFINE n == mask + 1
<1>1. Hash[k] \in Nat /\ n \in Nat \ {0} /\ 0..(n - 1) = 0..mask
  BY HashAssumption
<1> HIDE DEF n
<1>2. Hash[k] % n \in 0..(n - 1)
  BY <1>1, DivMod
<1> QED
  BY <1>1, <1>2 DEF HomeIn, n

(* Each slot has its own distance from a home, and there are no others. *)
LEMMA GapRange ==
  ASSUME NEW mask \in Nat, NEW k \in Key
  PROVE  /\ \A i \in 0..mask : Gap(mask, i, k) \in 0..mask
         /\ \A i \in 0..mask, j \in 0..mask : Gap(mask, i, k) = Gap(mask, j, k) => i = j
         /\ \A i \in 0..mask : Gap(mask, i, k) = 0 <=> i = HomeIn(mask, k)
<1> DEFINE h == HomeIn(mask, k)
<1>1. h \in 0..mask
  BY HomeRange
<1>2. \A i : Gap(mask, i, k) = IF i >= h THEN i - h ELSE i + (mask + 1) - h
  BY DEF Gap
<1> HIDE DEF h
<1>3. /\ \A i \in 0..mask : Gap(mask, i, k) \in 0..mask
      /\ \A i \in 0..mask, j \in 0..mask : Gap(mask, i, k) = Gap(mask, j, k) => i = j
      /\ \A i \in 0..mask : Gap(mask, i, k) = 0 <=> i = h
  BY <1>1, <1>2
<1> QED
  BY <1>3 DEF h

(* The slot after one is one further from a home, or is the home. *)
LEMMA GapAfter ==
  ASSUME NEW mask \in Nat, NEW k \in Key, NEW i \in 0..mask
  PROVE  /\ After(mask, i) \in 0..mask
         /\ Gap(mask, i, k) < mask => Gap(mask, After(mask, i), k) = Gap(mask, i, k) + 1
         /\ Gap(mask, i, k) = mask => Gap(mask, After(mask, i), k) = 0
         /\ mask >= 1 => After(mask, i) # i
<1> DEFINE h == HomeIn(mask, k)
<1>1. h \in 0..mask
  BY HomeRange
<1>2. \A j : Gap(mask, j, k) = IF j >= h THEN j - h ELSE j + (mask + 1) - h
  BY DEF Gap
<1> HIDE DEF h
<1> QED
  BY <1>1, <1>2 DEF After

(* The slot that is so far from a home. *)
LEMMA GapSpot ==
  ASSUME NEW mask \in Nat, NEW k \in Key
  PROVE  /\ \A d \in 0..mask : Spot(mask, k, d) \in 0..mask /\ Gap(mask, Spot(mask, k, d), k) = d
         /\ \A i \in 0..mask : Spot(mask, k, Gap(mask, i, k)) = i
         /\ Spot(mask, k, mask + 1) = HomeIn(mask, k)
<1> DEFINE h == HomeIn(mask, k)
<1>1. h \in 0..mask
  BY HomeRange
<1>2. \A j : Gap(mask, j, k) = IF j >= h THEN j - h ELSE j + (mask + 1) - h
  BY DEF Gap
<1>3. \A d : Spot(mask, k, d) = IF h + d <= mask THEN h + d ELSE h + d - (mask + 1)
  BY DEF Spot
<1> HIDE DEF h
<1>4. /\ \A d \in 0..mask : Spot(mask, k, d) \in 0..mask /\ Gap(mask, Spot(mask, k, d), k) = d
      /\ \A i \in 0..mask : Spot(mask, k, Gap(mask, i, k)) = i
      /\ Spot(mask, k, mask + 1) = h
  BY <1>1, <1>2, <1>3
<1> QED
  BY <1>4 DEF h

(* An index on the circle. *)
LEMMA RoundRange ==
  ASSUME NEW i \in Nat, slotMask \in Nat
  PROVE  /\ RoundIndex(i) \in 0..slotMask
         /\ i <= slotMask => RoundIndex(i) = i
         /\ i \in SlotCapacity..(2 * SlotCapacity - 1) => RoundIndex(i) = i - SlotCapacity
<1>1. SlotCapacity \in Nat \ {0} /\ SlotCapacity = slotMask + 1
  BY DEF SlotCapacity
<1>2. RoundIndex(i) \in 0..slotMask
  BY <1>1, DivMod DEF RoundIndex
<1>3. ASSUME i <= slotMask PROVE RoundIndex(i) = i
  <2>1. i = (SlotCapacity * 0) + i /\ i \in 0..(SlotCapacity - 1)
    BY <1>1, <1>3
  <2> QED
    BY <1>1, <2>1, ModUnique DEF RoundIndex
<1>4. ASSUME i \in SlotCapacity..(2 * SlotCapacity - 1) PROVE RoundIndex(i) = i - SlotCapacity
  <2>1. i = (SlotCapacity * 1) + (i - SlotCapacity) /\ i - SlotCapacity \in 0..(SlotCapacity - 1)
    BY <1>1, <1>4
  <2> QED
    BY <1>1, <2>1, ModUnique DEF RoundIndex
<1> QED
  BY <1>2, <1>3, <1>4

(* The source reckons on the circle with remainders. *)
LEMMA OnCircle ==
  ASSUME slotMask \in Nat, NEW k \in Key
  PROVE  /\ Home(k) = HomeIn(slotMask, k) /\ Home(k) \in 0..slotMask
         /\ \A i \in 0..slotMask : Distance(i, k) = Gap(slotMask, i, k)
         /\ \A d \in 0..SlotCapacity : RoundIndex(Home(k) + d) = Spot(slotMask, k, d)
         /\ \A i \in 0..slotMask : RoundIndex(i + 1) = After(slotMask, i)
<1>1. SlotCapacity = slotMask + 1
  BY DEF SlotCapacity
<1>2. Home(k) = HomeIn(slotMask, k)
  BY <1>1 DEF Home, HomeIn
<1>3. Home(k) \in 0..slotMask
  BY <1>2, HomeRange
<1>4. ASSUME NEW i \in 0..slotMask PROVE Distance(i, k) = Gap(slotMask, i, k)
  <2>1. i + SlotCapacity - Home(k) \in Nat /\ i + SlotCapacity - Home(k) <= 2 * SlotCapacity - 1
    BY <1>1, <1>3
  <2>2. Distance(i, k) = RoundIndex(i + SlotCapacity - Home(k))
    BY DEF Distance, RoundIndex
  <2>3. CASE i >= Home(k)
    <3>1. RoundIndex(i + SlotCapacity - Home(k)) = (i + SlotCapacity - Home(k)) - SlotCapacity
      BY <1>1, <1>3, <2>1, <2>3, RoundRange
    <3> QED
      BY <1>1, <1>2, <1>3, <2>2, <2>3, <3>1 DEF Gap
  <2>4. CASE ~ (i >= Home(k))
    <3>1. RoundIndex(i + SlotCapacity - Home(k)) = i + SlotCapacity - Home(k)
      BY <1>1, <1>3, <2>1, <2>4, RoundRange
    <3> QED
      BY <1>1, <1>2, <2>2, <2>4, <3>1 DEF Gap
  <2> QED
    BY <2>3, <2>4
<1>5. ASSUME NEW d \in 0..SlotCapacity PROVE RoundIndex(Home(k) + d) = Spot(slotMask, k, d)
  <2>1. Home(k) + d \in Nat /\ Home(k) + d <= 2 * SlotCapacity - 1
    BY <1>1, <1>3
  <2> QED
    BY <1>1, <1>2, <1>3, <2>1, RoundRange DEF Spot
<1>6. ASSUME NEW i \in 0..slotMask PROVE RoundIndex(i + 1) = After(slotMask, i)
  <2>1. i + 1 \in Nat /\ (i = slotMask => i + 1 \in SlotCapacity..(2 * SlotCapacity - 1))
    BY <1>1
  <2> QED
    BY <1>1, <2>1, RoundRange DEF After
<1> QED
  BY <1>2, <1>3, <1>4, <1>5, <1>6

(* A search comes to a slot in the words of the source. *)
LEMMA IsAlong ==
  ASSUME slotMask \in Nat, NEW i \in 0..slotMask, NEW k \in Key
  PROVE  ReachableAt(i, k) <=> Along(ctrl, slotMask, i, k)
<1> DEFINE g == Gap(slotMask, i, k)
<1>1. Distance(i, k) = g /\ g \in 0..slotMask
  BY OnCircle, GapRange
<1>2. \A d \in 0..(g - 1) : d \in 0..SlotCapacity /\ RoundIndex(Home(k) + d) = Spot(slotMask, k, d)
                               /\ Spot(slotMask, k, d) \in 0..slotMask /\ Gap(slotMask, Spot(slotMask, k, d), k) = d
  <2>1. \A d \in 0..(g - 1) : d \in 0..SlotCapacity /\ d \in 0..slotMask
    BY <1>1 DEF SlotCapacity
  <2> QED
    BY <2>1, OnCircle, GapSpot
<1>3. \A j \in 0..slotMask : Spot(slotMask, k, Gap(slotMask, j, k)) = j /\ Gap(slotMask, j, k) \in 0..slotMask
  BY GapSpot, GapRange
<1>4. ReachableAt(i, k) <=> \A d \in 0..(g - 1) : ctrl[Spot(slotMask, k, d)].dist >= d
  BY <1>1, <1>2 DEF ReachableAt
<1>5. ASSUME \A d \in 0..(g - 1) : ctrl[Spot(slotMask, k, d)].dist >= d
      PROVE  Along(ctrl, slotMask, i, k)
  <2> SUFFICES ASSUME NEW j \in 0..slotMask, Gap(slotMask, j, k) < g
               PROVE  ctrl[j].dist >= Gap(slotMask, j, k)
    BY DEF Along
  <2>1. Gap(slotMask, j, k) \in 0..(g - 1)
    BY <1>1, <1>3
  <2> QED
    BY <1>3, <1>5, <2>1
<1>6. ASSUME Along(ctrl, slotMask, i, k), NEW d \in 0..(g - 1)
      PROVE  ctrl[Spot(slotMask, k, d)].dist >= d
  <2>1. d < g
    BY <1>1
  <2> QED
    BY <1>2, <1>6, <2>1 DEF Along
<1> QED
  BY <1>4, <1>5, <1>6

-----------------------------------------------------------------------------
(* The invariant *)

CtrlWord == [dist : {-1} \cup Nat, hash : 0..255]
Small == SlotCapacity < GroupWidth
Managements == {"clear", "rehash", "shrink_to_fit", "max_load_factor"}

TableOK ==
    /\ slotMask \in Nat /\ ValidCapacity(SlotCapacity)
    /\ slot \in [0..slotMask -> Element \cup {Raw}]
    /\ slotSize \in Nat /\ slotThreshold \in 0..slotMask
    /\ ctrl \in [DOMAIN ctrl -> CtrlWord]

ControlOK ==
    /\ mlf \in LoadFactors
    /\ pc \in {"idle", "manage", "walk", "shift", "room", "place", "displace", "retry", "rehash",
               "done", "broken"}
    /\ call \in [op : KeyOps \cup Managements \cup {"none"}, key : Key \cup {Absent},
                 val : Value \cup {Absent}, arg : [n : Nat, flag : BOOLEAN]]
    /\ call.op \in KeyOps => call.key \in Key
    /\ call.op \in Insertions => call.val \in Value
    /\ call.op = "max_load_factor" => call.arg.n \in LoadFactors
    /\ call.op = "clear" => call.arg.flag \in DestroyArgs
    /\ pc = "walk" => call.op \in KeyOps
    /\ pc \in {"room", "retry"} \/ (pc = "displace" /\ ~ Moving) \/ resume = "walk" => call.op \in Insertions

(* The prober has a key, and the insertion or the move it is made for has an element of that key. *)
ProbeOK ==
    /\ probe \in [key : Key \cup {Absent}, dist : Nat]
    /\ pc \in {"walk", "room"} => probe.key = call.key
    /\ pc \in {"walk", "room", "place"} => probe.dist <= SlotCapacity
    /\ pc \in {"room", "place", "displace"} => NewElement \in Element /\ probe.key = NewElement.key

RehashOK ==
    /\ resume \in {"walk", "done"}
    /\ old \in [DOMAIN old -> Element \cup {Raw}] /\ DOMAIN old \subseteq Nat
    /\ pending = Live(old) /\ IsFiniteSet(pending)
    /\ pc = "place" => Moving
    /\ Moving => pc \in {"rehash", "place", "displace"}
    /\ pc \in {"rehash", "place"} \/ Moving \/ (old = NoOld /\ resume = "done")

HandOK ==
    /\ hand \in [target : 0..slotMask, at : 0..slotMask, elem : Element \cup {Raw}, ctrl : CtrlWord]
    /\ pc \notin {"shift", "displace", "broken"} => hand = NoHand
    /\ IF pc = "displace" THEN hand.elem \in Element /\ hand.at # hand.target ELSE hand.elem = Raw
    /\ \A i \in Vacant : slot[i] = Raw

(* The element in the hand is counted before it is in a slot again. *)
Carried == IF pc = "displace" THEN 1 ELSE 0
SizeOK == pc # "broken" =>
    /\ slotSize = Cardinality(Live(slot)) + Carried
    /\ slotSize + Cardinality(pending) <= SlotCapacity
    /\ pc = "displace" => slotSize < SlotCapacity

(* The words that repeat those of the first slots, and those that repeat none. *)
TailWords == (2 * SlotCapacity)..(2 * GroupWidth - 1)
Shaped(words) ==
    /\ DOMAIN words = Words(SlotCapacity) /\ words \in [DOMAIN words -> CtrlWord]
    /\ \A i \in 0..slotMask : i < GroupWidth => words[i + SlotCapacity] = words[i]
    /\ Small => \A i \in TailWords : words[i] \in {Empty, EndOf}
ShapeOK == pc # "broken" => Shaped(ctrl)

(* The words of the slots: those of their elements, except for the last one of an insertion that gave up. *)
Settled == pc \notin {"retry", "broken"}
OwnWords ==
    /\ Settled => \A i \in (0..slotMask) \ Vacant :
          ctrl[i] = IF slot[i] = Raw THEN Empty ELSE WordOf(slotMask, i, slot[i])
    /\ pc = "retry" => \A i \in 0..slotMask : ctrl[i] = Empty <=> slot[i] = Raw
    /\ pc = "displace" => /\ hand.ctrl = WordOf(slotMask, hand.at, hand.elem)
                          /\ ctrl[hand.target] = WordOf(slotMask, hand.target, NewElement)

ReachInv == Settled => \A i \in Live(slot) : Along(ctrl, slotMask, i, slot[i].key)

(* What a displacement has passed since it left the target is not empty, and both its elements
   are where a search comes. *)
From(mask, i, j) == IF j >= i THEN j - i ELSE j + (mask + 1) - i
HandInv == pc = "displace" =>
    /\ Along(ctrl, slotMask, hand.at, hand.elem.key) /\ Along(ctrl, slotMask, hand.target, probe.key)
    /\ \A j \in 0..slotMask : From(slotMask, hand.target, j) < From(slotMask, hand.target, hand.at) => ctrl[j] # Empty

(* What a walk has passed is as far from home as it was. *)
WalkInv ==
    /\ pc \in {"walk", "room", "place"} =>
          \A j \in 0..slotMask : Gap(slotMask, j, probe.key) < probe.dist => ctrl[j].dist >= Gap(slotMask, j, probe.key)
    /\ pc = "room" => ctrl[Spot(slotMask, probe.key, probe.dist)].dist < probe.dist

(* What is stored, and what a call has come to. *)
Stored == TableOK /\ HandOK /\ SizeOK /\ ShapeOK /\ OwnWords /\ ReachInv /\ HandInv
Course == ControlOK /\ ProbeOK /\ RehashOK /\ WalkInv
Layout == Stored /\ Course

-----------------------------------------------------------------------------
(* What the invariant says of a state *)

(* The hashes of keys differ from that of an end mark, and a call of clear() that keeps the slots
   finds a table smaller than a group. *)
MarksDiffer == \A k \in Key : CtrlHash[k] # 0
Clears == DestroyArgs \subseteq {TRUE} /\ DefaultCapacity < GroupWidth

(* The shape of a table. *)
LEMMA Shape ==
  ASSUME TableOK
  PROVE  /\ slotMask \in Nat /\ slotMask >= 1 /\ SlotCapacity = slotMask + 1
         /\ GroupWidth \in Nat /\ GroupWidth >= 2
         /\ Small => /\ Words(SlotCapacity) = 0..(2 * GroupWidth - 1)
                     /\ 2 * SlotCapacity <= GroupWidth /\ GroupCount(SlotCapacity) = 1
         /\ ~ Small => /\ Words(SlotCapacity) = 0..(SlotCapacity + GroupWidth - 1)
                       /\ SlotCapacity >= GroupWidth
                       /\ GroupCount(SlotCapacity) * GroupWidth = SlotCapacity
<1>1. slotMask \in Nat /\ ValidCapacity(SlotCapacity)
  BY DEF TableOK
<1>2. SlotCapacity = slotMask + 1
  BY DEF SlotCapacity
<1> QED
  BY <1>1, <1>2, CapacityShape, Widths DEF Small

(* An element has a key, a value and a hash. *)
LEMMA ElementRange ==
  ASSUME NEW e \in Element
  PROVE  e.key \in Key /\ e.val \in Value /\ e # Raw /\ CtrlHash[e.key] \in 0..255
BY KeyAssumption, HashAssumption DEF Element

(* The slots that hold elements, and how many they are. *)
LEMMA Slots ==
  ASSUME TableOK
  PROVE  /\ DOMAIN slot = 0..slotMask /\ Live(slot) = {i \in 0..slotMask : slot[i] # Raw}
         /\ IsFiniteSet(Live(slot)) /\ Cardinality(Live(slot)) \in Nat
         /\ \A i \in Live(slot) : slot[i] \in Element /\ slot[i].key \in Key
         /\ IsFiniteSet(0..slotMask) /\ Cardinality(0..slotMask) = slotMask + 1
<1>1. DOMAIN slot = 0..slotMask /\ Live(slot) = {i \in 0..slotMask : slot[i] # Raw}
  BY DEF TableOK, Live
<1>2. IsFiniteSet(0..slotMask) /\ Cardinality(0..slotMask) = slotMask + 1
  <2>1. slotMask \in Nat
    BY DEF TableOK
  <2> QED
    BY <2>1, FS_Interval
<1>3. IsFiniteSet(Live(slot)) /\ Cardinality(Live(slot)) \in Nat
  <2>1. Live(slot) \subseteq 0..slotMask
    BY <1>1
  <2> QED
    BY <1>2, <2>1, FS_Subset, FS_CardinalityType
<1>4. \A i \in Live(slot) : slot[i] \in Element
  BY <1>1 DEF TableOK
<1> QED
  BY <1>1, <1>2, <1>3, <1>4, ElementRange

(* The word of an element is that of none. *)
LEMMA WordRange ==
  ASSUME NEW mask \in Nat, NEW i \in 0..mask, NEW e \in Element
  PROVE  /\ WordOf(mask, i, e) \in CtrlWord /\ WordOf(mask, i, e) # Empty
         /\ WordOf(mask, i, e).dist = Gap(mask, i, e.key) /\ WordOf(mask, i, e).dist \in 0..mask
<1>1. Gap(mask, i, e.key) \in 0..mask /\ CtrlHash[e.key] \in 0..255
  BY ElementRange, GapRange
<1>2. WordOf(mask, i, e) = [dist |-> Gap(mask, i, e.key), hash |-> CtrlHash[e.key]]
  BY DEF WordOf, Ctrl
<1>3. Empty.dist = -1
  BY DEF Empty, Ctrl
<1> QED
  BY <1>1, <1>2, <1>3 DEF CtrlWord

(* A word with a distance is not empty. *)
LEMMA EmptyRange == Empty \in CtrlWord /\ Empty.dist = -1 /\ EndOf \in CtrlWord /\ EndOf.hash = 0 /\ Empty # EndOf
<1>1. Empty = [dist |-> -1, hash |-> 0] /\ EndOf = [dist |-> 254, hash |-> 0]
  BY DEF Empty, EndOf, Ctrl
<1>2. Empty.dist # EndOf.dist
  BY <1>1
<1> QED
  BY <1>1, <1>2 DEF CtrlWord

(* Outside of an insertion that gave up, a slot holds an element where its word says so. *)
LEMMA UsedIsLive ==
  ASSUME TableOK, OwnWords, Settled, NEW i \in (0..slotMask) \ Vacant
  PROVE  /\ ctrl[i] # Empty <=> i \in Live(slot)
         /\ ctrl[i].dist >= 0 => i \in Live(slot)
         /\ i \in Live(slot) => /\ slot[i] \in Element /\ slot[i].key \in Key
                               /\ ctrl[i] = WordOf(slotMask, i, slot[i])
                               /\ ctrl[i].dist = Gap(slotMask, i, slot[i].key)
<1>1. ctrl[i] = IF slot[i] = Raw THEN Empty ELSE WordOf(slotMask, i, slot[i])
  BY DEF OwnWords
<1>2. i \in Live(slot) <=> slot[i] # Raw
  BY Slots
<1>3. ASSUME i \in Live(slot)
      PROVE  /\ ctrl[i] # Empty /\ slot[i] \in Element /\ slot[i].key \in Key
             /\ ctrl[i] = WordOf(slotMask, i, slot[i]) /\ ctrl[i].dist = Gap(slotMask, i, slot[i].key)
  <2>1. slot[i] \in Element /\ slot[i].key \in Key /\ slotMask \in Nat
    BY <1>3, Slots, Shape
  <2> QED
    BY <1>1, <1>2, <1>3, <2>1, WordRange
<1>4. ASSUME i \notin Live(slot) PROVE ctrl[i] = Empty /\ ~ (ctrl[i].dist >= 0)
  <2>1. ctrl[i] = Empty
    BY <1>1, <1>2, <1>4
  <2> QED
    BY <2>1, EmptyRange
<1> QED
  BY <1>3, <1>4

(* Each slot has its word. *)
LEMMA WordIn ==
  ASSUME TableOK, NEW words, Shaped(words), NEW i \in 0..slotMask
  PROVE  i \in DOMAIN words /\ words[i] \in CtrlWord /\ words[i].dist \in Int
<1>1. DOMAIN words = Words(SlotCapacity) /\ words \in [DOMAIN words -> CtrlWord]
  BY DEF Shaped
<1>2. i \in DOMAIN words
  BY <1>1, Shape
<1>3. words[i] \in CtrlWord
  BY <1>1, <1>2
<1> QED
  BY <1>2, <1>3 DEF CtrlWord

(* Where a walk is, in terms of the circle, though groups are read on behind the last slot. *)
LEMMA WalkIsAt ==
  ASSUME TableOK, ShapeOK, pc # "broken", probe.key \in Key, probe.dist \in 0..SlotCapacity
  PROVE  /\ Target = Spot(slotMask, probe.key, probe.dist) /\ Target \in 0..slotMask
         /\ CtrlIndex \in Nat /\ Here = ctrl[Target]
         /\ InGroups => GroupStart \in 0..slotMask /\ CtrlIndex >= GroupStart
<1> DEFINE h == Home(probe.key)
           d == probe.dist
           n == SlotCapacity
           t == Spot(slotMask, probe.key, d)
<1>1. /\ slotMask \in Nat /\ n = slotMask + 1 /\ GroupWidth \in Nat /\ GroupWidth >= 2
      /\ h \in 0..slotMask /\ d \in 0..n /\ h = HomeIn(slotMask, probe.key)
  BY Shape, OnCircle
<1>2. t \in 0..slotMask /\ t = IF h + d <= slotMask THEN h + d ELSE h + d - n
  <2>1. t = IF h + d <= slotMask THEN h + d ELSE h + d - (slotMask + 1)
    BY <1>1 DEF Spot
  <2> QED
    BY <1>1, <2>1
<1>3. RoundIndex(h + d) = t
  BY <1>1, OnCircle
<1>4. ASSUME NEW c \in Nat, c = t \/ (c = t + n /\ t < GroupWidth)
      PROVE  RoundIndex(c) = t /\ CtrlAt(c) = ctrl[t]
  <2>1. Shaped(ctrl)
    BY DEF ShapeOK
  <2>2. c \in DOMAIN ctrl
    BY <1>1, <1>2, <1>4, <2>1, Shape DEF Shaped, Small
  <2>3. ctrl[c] = ctrl[t]
    BY <1>2, <1>4, <2>1 DEF Shaped
  <2>4. RoundIndex(c) = t
    BY <1>1, <1>2, <1>4, RoundRange
  <2> QED
    BY <2>2, <2>3, <2>4 DEF CtrlAt
<1>5. CASE ~ InGroups
  <2>1. CtrlIndex = t
    BY <1>3, <1>5 DEF CtrlIndex
  <2>2. t \in Nat
    BY <1>2
  <2> QED
    BY <1>2, <1>4, <1>5, <2>1, <2>2 DEF Target, Here
<1>6. CASE InGroups
  <2> DEFINE g == InGroup
             s == GroupStart
             x == d - SingleSlots
  <2>1. SingleSlots \in {2, 4} /\ x \in Nat /\ x <= d
    BY <1>1, <1>6 DEF SingleSlots, InGroups
  <2>2. g \in 0..(GroupWidth - 1) /\ g <= x
    <3>1. g = x % GroupWidth
      BY DEF InGroup
    <3>2. x % GroupWidth \in 0..(GroupWidth - 1) /\ x = (GroupWidth * (x \div GroupWidth)) + (x % GroupWidth)
          /\ x \div GroupWidth \in Nat
      <4>1. GroupWidth \in Nat \ {0} /\ x \in Nat
        BY <1>1, <2>1
      <4> HIDE DEF x
      <4> QED
        BY <4>1, DivMod
    <3>3. GroupWidth * (x \div GroupWidth) \in Nat
      BY <1>1, <3>2
    <3> HIDE DEF x, g
    <3> QED
      BY <2>1, <3>1, <3>2, <3>3
  <2> HIDE DEF x
  <2>3. d - g \in 0..n
    BY <1>1, <2>1, <2>2
  <2>4. s = RoundIndex(h + (d - g))
    <3>1. h + d - g = h + (d - g)
      BY <1>1, <2>2
    <3> QED
      BY <3>1 DEF GroupStart
  <2> HIDE DEF g, s
  <2>5. s \in 0..slotMask /\ s = IF h + (d - g) <= slotMask THEN h + (d - g) ELSE h + (d - g) - n
    <3>1. s = Spot(slotMask, probe.key, d - g)
      BY <1>1, <2>3, <2>4, OnCircle
    <3>2. s = IF h + (d - g) <= slotMask THEN h + (d - g) ELSE h + (d - g) - (slotMask + 1)
      BY <1>1, <3>1 DEF Spot
    <3> QED
      BY <1>1, <2>3, <3>2
  <2>6. CtrlIndex = s + g
    BY <1>6 DEF CtrlIndex, s, g
  <2>7. s + g \in Nat /\ (s + g = t \/ (s + g = t + n /\ t < GroupWidth))
    BY <1>1, <1>2, <2>2, <2>3, <2>5
  <2>8. RoundIndex(s + g) = t /\ CtrlAt(s + g) = ctrl[t]
    BY <1>4, <2>7
  <2>9. Target = t /\ Here = ctrl[t] /\ CtrlIndex \in Nat
    BY <2>6, <2>7, <2>8 DEF Target, Here
  <2>10. s \in 0..slotMask /\ CtrlIndex >= s
    BY <2>2, <2>5, <2>6, <1>1
  <2> QED
    BY <1>2, <2>9, <2>10 DEF s
<1> QED
  BY <1>5, <1>6

(* What a search takes for the element it looks for is that. *)
LEMMA HitsFound ==
  ASSUME TableOK, ProbeOK, ControlOK, ShapeOK, OwnWords, MarksDiffer, pc = "walk", NEW i \in Hits
  PROVE  /\ i \in Live(slot) /\ i \in 0..slotMask /\ slot[i] \in Element
         /\ slot[i].key = probe.key /\ Read(i) = {slot[i]}
<1>1. probe.key \in Key /\ probe.dist \in 0..SlotCapacity
  <2>1. probe.key = call.key /\ call.op \in KeyOps /\ probe.dist \in Nat /\ probe.dist <= SlotCapacity
    BY DEF ProbeOK, ControlOK
  <2>2. call.key \in Key /\ SlotCapacity \in Nat
    BY <2>1, Shape DEF ControlOK
  <2> QED
    BY <2>1, <2>2
<1>2. /\ Target \in 0..slotMask /\ Here = ctrl[Target] /\ CtrlIndex \in Nat
      /\ InGroups => GroupStart \in 0..slotMask /\ CtrlIndex >= GroupStart
  BY <1>1, WalkIsAt
<1>3. Shaped(ctrl) /\ Settled /\ Vacant = {}
  BY DEF ShapeOK, Settled, Vacant
<1>4. PICK j : /\ j \in Compared /\ i = RoundIndex(j)
               /\ \E e \in Read(RoundIndex(j)) : e.key = probe.key
  BY DEF Hits
<1>5. i \in 0..slotMask /\ ctrl[i] # Empty
  <2>1. CASE ~ AtChainEnd
    <3>1. j = CtrlIndex /\ i = Target
      BY <1>4, <2>1 DEF Compared, Target
    <3>2. probe.dist <= ctrl[i].dist
      BY <1>2, <2>1, <3>1 DEF AtChainEnd, InChain
    <3> QED
      BY <1>1, <1>2, <3>1, <3>2, EmptyRange, Shape
  <2>2. CASE AtChainEnd
    <3>1. InGroups /\ j \in RestOfGroup /\ CtrlAt(j).hash = CtrlHash[probe.key]
      BY <1>4, <2>2 DEF Compared
    <3>2. /\ j \in (CtrlIndex + 1)..(GroupStart + GroupWidth - 1)
          /\ probe.dist + j - CtrlIndex <= CtrlAt(j).dist
      BY <3>1 DEF RestOfGroup, InChain
    <3>3. j \in Nat /\ j <= slotMask + GroupWidth - 1 /\ CtrlAt(j).dist >= 0
      <4>1. GroupStart \in 0..slotMask /\ CtrlIndex \in Nat /\ GroupWidth \in Nat /\ slotMask \in Nat
        BY <1>2, <3>1, Shape
      <4>2. j \in Nat /\ j >= CtrlIndex + 1 /\ j <= GroupStart + GroupWidth - 1
        BY <3>2, <4>1
      <4>3. CtrlAt(j).dist \in Int
        BY <1>3, EmptyRange DEF CtrlAt, Shaped, CtrlWord
      <4>4. probe.dist + j - CtrlIndex \in Nat
        BY <1>1, <4>1, <4>2, Shape
      <4> QED
        BY <3>2, <4>1, <4>2, <4>3, <4>4
    <3>4. CtrlAt(j) # EndOf /\ CtrlAt(j) # Empty
      <4>1. CtrlHash[probe.key] # 0
        BY <1>1 DEF MarksDiffer
      <4> QED
        BY <3>1, <3>3, <4>1, EmptyRange
    <3>5. j \in DOMAIN ctrl /\ ctrl[j] # EndOf /\ ctrl[j] # Empty
      BY <3>4 DEF CtrlAt
    <3>6. DOMAIN ctrl = Words(SlotCapacity)
      BY <1>3 DEF Shaped
    <3>7. CASE j <= slotMask
      BY <1>4, <3>3, <3>5, <3>7, RoundRange, Shape
    <3>8. CASE j > slotMask /\ j < 2 * SlotCapacity
      <4>1. j \in SlotCapacity..(2 * SlotCapacity - 1) /\ slotMask \in Nat /\ SlotCapacity = slotMask + 1
        BY <3>3, <3>8, Shape
      <4>2. i = j - SlotCapacity
        BY <1>4, <3>3, <4>1, RoundRange
      <4>3. i \in 0..slotMask /\ i < GroupWidth /\ i + SlotCapacity = j
        BY <3>3, <4>1, <4>2, Shape
      <4>4. ctrl[j] = ctrl[i]
        BY <1>3, <4>3 DEF Shaped
      <4> QED
        BY <3>5, <4>3, <4>4
    <3>9. CASE j >= 2 * SlotCapacity
      <4>1. Small /\ j \in TailWords
        <5>1. Small
          BY <3>3, <3>9, Shape
        <5> QED
          BY <3>3, <3>5, <3>6, <3>9, <5>1, Shape DEF TailWords
      <4> QED
        BY <1>3, <3>5, <4>1 DEF Shaped
    <3> QED
      BY <3>3, <3>7, <3>8, <3>9, Shape
  <2> QED
    BY <2>1, <2>2
<1>6. i \in Live(slot) /\ slot[i] \in Element
  BY <1>3, <1>5, UsedIsLive
<1>7. Read(i) = {slot[i]}
  BY <1>5, <1>6, Slots DEF Read
<1> QED
  BY <1>4, <1>5, <1>6, <1>7

(* A word is written, and its copy. *)
LEMMA SetShaped ==
  ASSUME TableOK, NEW words, Shaped(words), NEW p \in 0..slotMask, NEW c \in CtrlWord
  PROVE  /\ Shaped(SetCtrl(words, p, c))
         /\ \A i \in 0..slotMask : SetCtrl(words, p, c)[i] = IF i = p THEN c ELSE words[i]
<1> DEFINE w == SetCtrl(words, p, c)
<1>1. /\ slotMask \in Nat /\ SlotCapacity = slotMask + 1 /\ SlotCapacity \in Nat /\ GroupWidth \in Nat
      /\ words \in [DOMAIN words -> CtrlWord] /\ DOMAIN words = Words(SlotCapacity)
  BY Shape DEF Shaped
<1>2. \A i \in 0..slotMask : i \in DOMAIN words /\ (i < GroupWidth => i + SlotCapacity \in DOMAIN words)
  BY <1>1, Shape DEF Small
<1>3. /\ DOMAIN w = DOMAIN words /\ w \in [DOMAIN w -> CtrlWord]
      /\ \A j \in DOMAIN words : w[j] = IF j = p \/ (p < GroupWidth /\ j = p + SlotCapacity) THEN c ELSE words[j]
  <2>1. CASE p < GroupWidth
    <3>1. w = [words EXCEPT ![p] = c, ![p + SlotCapacity] = c]
      BY <2>1 DEF SetCtrl
    <3> HIDE DEF w
    <3> QED
      BY <1>1, <1>2, <2>1, <3>1
  <2>2. CASE ~ (p < GroupWidth)
    <3>1. w = [words EXCEPT ![p] = c]
      BY <2>2 DEF SetCtrl
    <3> HIDE DEF w
    <3> QED
      BY <1>1, <1>2, <2>2, <3>1
  <2> QED
    BY <2>1, <2>2
<1> HIDE DEF w
<1>4. \A i \in 0..slotMask : w[i] = IF i = p THEN c ELSE words[i]
  <2> SUFFICES ASSUME NEW i \in 0..slotMask PROVE w[i] = IF i = p THEN c ELSE words[i]
    OBVIOUS
  <2>1. i # p + SlotCapacity
    BY <1>1
  <2> QED
    BY <1>2, <1>3, <2>1
<1>5. \A i \in 0..slotMask : i < GroupWidth => w[i + SlotCapacity] = w[i]
  <2> SUFFICES ASSUME NEW i \in 0..slotMask, i < GroupWidth PROVE w[i + SlotCapacity] = w[i]
    OBVIOUS
  <2>1. i + SlotCapacity # p /\ (i + SlotCapacity = p + SlotCapacity <=> i = p)
    BY <1>1
  <2>2. words[i + SlotCapacity] = words[i]
    BY DEF Shaped
  <2> QED
    BY <1>2, <1>3, <1>4, <2>1, <2>2
<1>6. Small => \A i \in TailWords : w[i] \in {Empty, EndOf}
  <2> SUFFICES ASSUME Small, NEW i \in TailWords PROVE w[i] \in {Empty, EndOf}
    OBVIOUS
  <2>1. i \in DOMAIN words /\ i # p /\ i # p + SlotCapacity
    BY <1>1, Shape DEF TailWords
  <2>2. words[i] \in {Empty, EndOf}
    BY DEF Shaped
  <2> QED
    BY <1>3, <2>1, <2>2
<1>7. Shaped(w)
  BY <1>1, <1>3, <1>5, <1>6 DEF Shaped
<1> QED
  BY <1>4, <1>7 DEF w

(* The shape is that of the table before as long as the mask is. *)
LEMMA ShapeStays ==
  ASSUME slotMask' = slotMask
  PROVE  /\ SlotCapacity' = SlotCapacity /\ Small' = Small /\ (Shaped(ctrl)' <=> Shaped(ctrl'))
         /\ Settled' <=> pc' \notin {"retry", "broken"}
<1>1. SlotCapacity' = SlotCapacity
  BY DEF SlotCapacity
<1> QED
  BY <1>1 DEF Shaped, Small, TailWords, Settled, Words, GroupCount

(* Where there are fewer elements than slots one of the slots is empty. *)
LEMMA SomeEmpty ==
  ASSUME TableOK, SizeOK, OwnWords, HandOK, Settled, pc # "shift",
         pc = "displace" \/ slotSize < SlotCapacity
  PROVE  \E e \in 0..slotMask : ctrl[e] = Empty /\ e \notin Vacant
<1> DEFINE L == Live(slot) \cup Vacant
<1>1. IsFiniteSet(0..slotMask) /\ Cardinality(0..slotMask) = slotMask + 1 /\ SlotCapacity = slotMask + 1 /\ slotMask \in Nat
  BY Slots, Shape
<1>2. L \subseteq 0..slotMask /\ IsFiniteSet(L) /\ Cardinality(L) < slotMask + 1
  <2>1. Live(slot) \subseteq 0..slotMask /\ IsFiniteSet(Live(slot)) /\ Cardinality(Live(slot)) \in Nat
    BY Slots
  <2>2. slotSize = Cardinality(Live(slot)) + Carried
    BY DEF SizeOK, Settled
  <2>3. CASE pc = "displace"
    <3>1. Vacant = {hand.target} /\ hand.target \in 0..slotMask /\ slot[hand.target] = Raw
      BY <2>3 DEF Vacant, HandOK
    <3>2. hand.target \notin Live(slot)
      BY <3>1, Slots
    <3>3. IsFiniteSet(L) /\ Cardinality(L) = Cardinality(Live(slot)) + 1
      BY <2>1, <3>1, <3>2, FS_AddElement
    <3>4. slotSize < slotMask + 1 /\ Carried = 1
      BY <1>1, <2>3 DEF SizeOK, Carried
    <3> HIDE DEF L
    <3>5. Cardinality(L) < slotMask + 1
      BY <2>1, <2>2, <3>3, <3>4
    <3> QED
      BY <2>1, <3>1, <3>3, <3>5 DEF L
  <2>4. CASE pc # "displace"
    <3>1. Vacant = {} /\ Carried = 0
      BY <2>4 DEF Vacant, Carried
    <3>2. L = Live(slot)
      BY <3>1
    <3> QED
      BY <1>1, <2>1, <2>2, <2>4, <3>1, <3>2
  <2> QED
    BY <2>3, <2>4
<1> HIDE DEF L
<1>3. L # 0..slotMask
  <2> SUFFICES ASSUME L = 0..slotMask PROVE FALSE
    OBVIOUS
  <2>1. Cardinality(L) = slotMask + 1
    BY <1>1
  <2> QED
    BY <1>1, <1>2, <2>1
<1>4. PICK e \in 0..slotMask : e \notin L
  BY <1>2, <1>3
<1>5. ctrl[e] = Empty /\ e \notin Vacant
  BY <1>4, UsedIsLive DEF L
<1> QED
  BY <1>4, <1>5

(* A chain that reaches a slot with a distance ends before it has gone round. *)
LEMMA NotAround ==
  ASSUME TableOK, NEW e \in 0..slotMask, ctrl[e] = Empty, NEW i \in 0..slotMask, ctrl[i] # Empty,
         NEW k \in Key, Along(ctrl, slotMask, i, k)
  PROVE  /\ Gap(slotMask, i, k) < slotMask /\ After(slotMask, i) \in 0..slotMask
         /\ Gap(slotMask, After(slotMask, i), k) = Gap(slotMask, i, k) + 1
<1> DEFINE g == Gap(slotMask, i, k)
           f == Gap(slotMask, e, k)
<1>1. slotMask \in Nat /\ g \in 0..slotMask /\ f \in 0..slotMask /\ f # g
  <2>1. slotMask \in Nat
    BY Shape
  <2> QED
    BY <2>1, GapRange
<1>2. ~ (f < g)
  <2> SUFFICES ASSUME f < g PROVE FALSE
    OBVIOUS
  <2>1. ctrl[e].dist >= f
    BY DEF Along
  <2> QED
    BY <1>1, <2>1, EmptyRange
<1> HIDE DEF f, g
<1>3. g < slotMask
  BY <1>1, <1>2
<1> QED
  BY <1>1, <1>3, GapAfter DEF g

(* Words that only rise let every search pass that they let pass. *)
LEMMA WordsRaised ==
  ASSUME NEW mask \in Nat, NEW words, NEW words2, NEW i \in 0..mask, NEW k \in Key, Along(words, mask, i, k),
         \A j \in 0..mask : /\ words[j].dist \in Int /\ words2[j].dist \in Int
                            /\ words2[j].dist >= words[j].dist
  PROVE  Along(words2, mask, i, k)
<1> SUFFICES ASSUME NEW j \in 0..mask, Gap(mask, j, k) < Gap(mask, i, k)
             PROVE  words2[j].dist >= Gap(mask, j, k)
  BY DEF Along
<1>1. words[j].dist >= Gap(mask, j, k)
  BY DEF Along
<1>2. Gap(mask, j, k) \in Int
  BY GapRange
<1> QED
  BY <1>1, <1>2

-----------------------------------------------------------------------------
(* Steps that change the table as a whole, or not at all *)

Kept == UNCHANGED <<table, rehash>> /\ pc' = "done"
Halted == /\ pc' = "broken" /\ UNCHANGED <<slotMask, slot, slotSize, slotThreshold, rehash>>
          /\ ctrl' = ctrl \/ \E c : ValidCapacity(c) /\ ctrl' = FreshCtrl(c)
Replaced == \E c, m : /\ ValidCapacity(c) /\ c >= slotSize /\ m \in LoadFactors
                      /\ CreateGroup(c, m, IF pc = "manage" THEN "done" ELSE "walk")
Emptied == /\ Recreate \/ (ClearGroups /\ Small)
           /\ slotSize' = 0 /\ pc' = "done" /\ UNCHANGED rehash
Rearranged ==
    /\ Kept \/ Halted \/ Replaced \/ Emptied
    /\ UNCHANGED <<call, probe, hand>> /\ mlf' \in LoadFactors
    /\ pc \in {"manage", "room", "retry"} /\ (pc = "retry" => ~ Kept /\ ~ Emptied)

(* A table of another size is allocated or not. *)
LEMMA ResizeIs ==
  ASSUME NEW c, ValidCapacity(c), c >= slotSize, NEW m \in LoadFactors, pc \in {"manage", "room", "retry"},
         Resize(c, m, IF pc = "manage" THEN "done" ELSE "walk")
  PROVE  /\ Kept \/ Halted \/ Replaced
         /\ UNCHANGED <<call, probe, hand>> /\ (pc = "retry" => pc' # "done")
<1>1. CASE CreateGroup(c, m, IF pc = "manage" THEN "done" ELSE "walk")
  BY <1>1 DEF Resize, Replaced, CreateGroup
<1>2. CASE GroupsThrow
  BY <1>2 DEF Resize, GroupsThrow, Kept, Halted, table
<1>3. CASE SlotsThrow(c)
  BY <1>3 DEF Resize, SlotsThrow, Halted
<1> QED
  BY <1>1, <1>2, <1>3 DEF Resize

(* rehash_impl() makes a table for at least the elements there are, or none. *)
LEMMA RehashImplIs ==
  ASSUME NEW n \in Nat, slotSize \in Nat, n >= slotSize, NEW m \in LoadFactors, pc = "manage", RehashImpl(n, m)
  PROVE  (Kept \/ Halted \/ Replaced) /\ UNCHANGED <<call, probe, hand>>
<1>1. ValidCapacity(CalcCapacity(n)) /\ CalcCapacity(n) >= slotSize
  BY CalcCapacityRange, Widths DEF ValidCapacity
<1>2. CASE Resize(CalcCapacity(n), m, "done")
  BY <1>1, <1>2, ResizeIs
<1>3. CASE Done("ok") /\ UNCHANGED <<table, call, probe, hand, rehash>>
  BY <1>3 DEF Done, Kept
<1> QED
  BY <1>2, <1>3 DEF RehashImpl

(* The calls that manage the table. *)
LEMMA ManageIs ==
  ASSUME Layout, Clears, Manage
  PROVE  Rearranged
<1>1. slotSize \in Nat /\ mlf \in LoadFactors /\ pc = "manage" /\ slotMask \in Nat /\ SlotCapacity = slotMask + 1
  <2>1. pc = "manage"
    BY DEF Manage, Clear, Rehash, ShrinkToFit, MaxLoadFactor, Managing
  <2> QED
    BY <2>1, Shape DEF Layout, Stored, Course, TableOK, ControlOK
<1>2. \A n \in Nat : AtLeast(n, slotSize) \in Nat /\ AtLeast(n, slotSize) >= slotSize
  BY <1>1 DEF AtLeast
<1>3. call.arg.n \in Nat /\ (call.op = "max_load_factor" => call.arg.n \in LoadFactors)
      /\ (call.op = "clear" => call.arg.flag = TRUE)
  BY DEF Layout, Course, ControlOK, Clears
<1>4. CASE Clear
  <2>1. /\ IF SlotCapacity > DefaultCapacity /\ call.arg.flag THEN Recreate ELSE ClearGroups
        /\ slotSize' = 0 /\ pc' = "done" /\ UNCHANGED <<mlf, call, probe, hand, rehash>> /\ call.op = "clear"
    BY <1>4 DEF Clear, Done, Managing
  <2>2. CASE SlotCapacity > DefaultCapacity
    BY <1>1, <1>3, <2>1, <2>2 DEF Rearranged, Emptied
  <2>3. CASE ~ (SlotCapacity > DefaultCapacity)
    <3>1. Small
      BY <1>1, <2>3, Widths DEF Clears, Small
    <3> QED
      BY <1>1, <2>1, <2>3, <3>1 DEF Rearranged, Emptied
  <2> QED
    BY <2>2, <2>3
<1>5. CASE Rehash
  <2> DEFINE n == IF call.arg.flag THEN call.arg.n ELSE MinRequireCapacity(call.arg.n, mlf)
  <2>1. RehashImpl(AtLeast(n, slotSize), mlf) /\ mlf' = mlf
    BY <1>5 DEF Rehash
  <2>2. n \in Nat
    BY <1>1, <1>3, RequireRange
  <2> HIDE DEF n
  <2>3. (Kept \/ Halted \/ Replaced) /\ UNCHANGED <<call, probe, hand>>
    BY <1>1, <1>2, <2>1, <2>2, RehashImplIs
  <2> QED
    BY <1>1, <2>1, <2>3 DEF Rearranged
<1>6. CASE ShrinkToFit
  <2> DEFINE n == IF call.arg.flag THEN slotSize ELSE MinRequireCapacity(slotSize, mlf)
  <2>1. RehashImpl(n, mlf) /\ mlf' = mlf
    BY <1>6 DEF ShrinkToFit
  <2>2. n \in Nat /\ n >= slotSize
    BY <1>1, RequireRange
  <2> HIDE DEF n
  <2>3. (Kept \/ Halted \/ Replaced) /\ UNCHANGED <<call, probe, hand>>
    BY <1>1, <2>1, <2>2, RehashImplIs
  <2> QED
    BY <1>1, <2>1, <2>3 DEF Rearranged
<1>7. CASE MaxLoadFactor
  <2> DEFINE m == call.arg.n
             n == MinRequireCapacity(slotSize, m)
  <2>1. /\ mlf' = m /\ m \in LoadFactors
        /\ \/ RehashImpl(AtLeast(n, slotSize), m)
           \/ Done("ok") /\ UNCHANGED <<table, call, probe, hand, rehash>>
    BY <1>3, <1>7 DEF MaxLoadFactor, Managing
  <2>2. n \in Nat
    BY <1>1, <2>1, RequireRange
  <2> HIDE DEF n, m
  <2>3. CASE RehashImpl(AtLeast(n, slotSize), m)
    <3>1. (Kept \/ Halted \/ Replaced) /\ UNCHANGED <<call, probe, hand>>
      BY <1>1, <1>2, <2>1, <2>2, <2>3, RehashImplIs
    <3> QED
      BY <1>1, <2>1, <3>1 DEF Rearranged
  <2>4. CASE Done("ok") /\ UNCHANGED <<table, call, probe, hand, rehash>>
    BY <1>1, <2>1, <2>4 DEF Rearranged, Done, Kept
  <2> QED
    BY <2>1, <2>3, <2>4
<1> QED
  BY <1>4, <1>5, <1>6, <1>7 DEF Manage

(* Growing for an insertion. *)
LEMMA GrowIs ==
  ASSUME Layout, Grow \/ Retry
  PROVE  Rearranged
<1>1. /\ slotSize \in Nat /\ mlf \in LoadFactors /\ pc \in {"room", "retry"}
      /\ slotMask \in Nat /\ SlotCapacity = slotMask + 1
      /\ slotSize <= SlotCapacity
  <2>1. pc \in {"room", "retry"}
    BY DEF Grow, Retry
  <2>2. slotSize \in Nat /\ slotSize + Cardinality(pending) <= SlotCapacity /\ IsFiniteSet(pending)
        /\ Cardinality(pending) \in Nat
    BY <2>1, FS_CardinalityType DEF Layout, Stored, Course, TableOK, SizeOK, RehashOK
  <2> QED
    BY <2>1, <2>2, Shape DEF Layout, Stored, Course, ControlOK
<1> DEFINE n == (slotMask + 1) * 2
<1>2. GrowIfNecessary /\ n \in Nat /\ n >= slotSize
  BY <1>1 DEF Grow, Retry
<1>3. Resize(CalcCapacity(n), mlf, "walk") /\ mlf' = mlf
  BY <1>2 DEF GrowIfNecessary, TwiceTheSize
<1> HIDE DEF n
<1>4. ValidCapacity(CalcCapacity(n)) /\ CalcCapacity(n) >= slotSize
  BY <1>1, <1>2, CalcCapacityRange, Widths DEF ValidCapacity
<1>5. Resize(CalcCapacity(n), mlf, IF pc = "manage" THEN "done" ELSE "walk") /\ pc \in {"manage", "room", "retry"}
  BY <1>1, <1>3
<1>6. (Kept \/ Halted \/ Replaced) /\ UNCHANGED <<call, probe, hand>> /\ (pc = "retry" => pc' # "done")
  BY <1>1, <1>4, <1>5, ResizeIs
<1> QED
  BY <1>1, <1>3, <1>6 DEF Rearranged, Kept, Emptied

-----------------------------------------------------------------------------
(* Tables without elements *)

(* create_group() has made a table of so many slots. *)
NewTable(c) == slotMask = c - 1 /\ ctrl = FreshCtrl(c) /\ slot = AllRaw(c)

(* Its words are those of no elements, repeated as they have to be. *)
LEMMA FreshTable ==
  \A c : ValidCapacity(c) /\ NewTable(c) =>
     /\ slotMask \in Nat /\ SlotCapacity = c /\ slot \in [0..slotMask -> Element \cup {Raw}]
     /\ ctrl \in [DOMAIN ctrl -> CtrlWord] /\ Shaped(ctrl)
     /\ \A i \in 0..slotMask : slot[i] = Raw /\ ctrl[i] = Empty
<1> SUFFICES ASSUME NEW c, ValidCapacity(c), NewTable(c)
             PROVE  /\ slotMask \in Nat /\ SlotCapacity = c /\ slot \in [0..slotMask -> Element \cup {Raw}]
                    /\ ctrl \in [DOMAIN ctrl -> CtrlWord] /\ Shaped(ctrl)
                    /\ \A i \in 0..slotMask : slot[i] = Raw /\ ctrl[i] = Empty
  OBVIOUS
<1>1. /\ c \in Nat /\ c >= 2 /\ GroupWidth \in Nat /\ GroupWidth >= 2
      /\ c < GroupWidth => Words(c) = 0..(2 * GroupWidth - 1) /\ 2 * c <= GroupWidth
      /\ c >= GroupWidth => Words(c) = 0..(c + GroupWidth - 1)
  BY CapacityShape, Widths
<1>2. slotMask = c - 1 /\ slotMask \in Nat /\ SlotCapacity = c /\ slotMask + 1 = c
  BY <1>1 DEF NewTable, SlotCapacity
<1>3. /\ DOMAIN ctrl = Words(c)
      /\ \A i \in Words(c) : ctrl[i] = IF c < GroupWidth /\ i >= 2 * c THEN EndOf ELSE Empty
      /\ ctrl \in [DOMAIN ctrl -> CtrlWord]
  BY EmptyRange DEF NewTable, FreshCtrl, Words
<1>4. slot \in [0..slotMask -> Element \cup {Raw}] /\ \A i \in 0..slotMask : slot[i] = Raw
  BY <1>2 DEF NewTable, AllRaw
<1>5. \A i \in 0..slotMask : ctrl[i] = Empty
  <2> SUFFICES ASSUME NEW i \in 0..slotMask PROVE ctrl[i] = Empty
    OBVIOUS
  <2>1. i \in Words(c) /\ ~ (i >= 2 * c)
    BY <1>1, <1>2
  <2> QED
    BY <1>3, <2>1
<1>6. \A i \in 0..slotMask : i < GroupWidth => ctrl[i + SlotCapacity] = ctrl[i]
  <2> SUFFICES ASSUME NEW i \in 0..slotMask, i < GroupWidth PROVE ctrl[i + c] = ctrl[i]
    BY <1>2
  <2>1. i + c \in Words(c) /\ ~ (i + c >= 2 * c)
    BY <1>1, <1>2
  <2> QED
    BY <1>3, <1>5, <2>1
<1>7. Small => \A i \in TailWords : ctrl[i] \in {Empty, EndOf}
  <2> SUFFICES ASSUME Small, NEW i \in TailWords PROVE ctrl[i] \in {Empty, EndOf}
    OBVIOUS
  <2>1. i \in Words(c)
    BY <1>1, <1>2 DEF Small, TailWords
  <2> QED
    BY <1>3, <2>1
<1> QED
  BY <1>2, <1>3, <1>4, <1>5, <1>6, <1>7 DEF Shaped

(* And so they are after the step that makes it. *)
LEMMA FreshTableNext ==
  \A c : ValidCapacity(c) /\ NewTable(c)' =>
     /\ slotMask' \in Nat /\ SlotCapacity' = c /\ slot' \in [0..slotMask' -> Element \cup {Raw}]
     /\ ctrl' \in [DOMAIN ctrl' -> CtrlWord] /\ Shaped(ctrl)'
     /\ \A i \in 0..slotMask' : slot'[i] = Raw /\ ctrl'[i] = Empty
<1>1. (\A c : ValidCapacity(c) /\ NewTable(c) =>
         /\ slotMask \in Nat /\ SlotCapacity = c /\ slot \in [0..slotMask -> Element \cup {Raw}]
         /\ ctrl \in [DOMAIN ctrl -> CtrlWord] /\ Shaped(ctrl)
         /\ \A i \in 0..slotMask : slot[i] = Raw /\ ctrl[i] = Empty)'
  BY FreshTable, PTL
<1> QED
  BY <1>1

(* A table without elements, between two insertions. *)
Blank ==
    /\ TableOK /\ Shaped(ctrl) /\ \A i \in 0..slotMask : slot[i] = Raw /\ ctrl[i] = Empty
    /\ slotSize = 0 /\ hand = NoHand /\ pc \in {"idle", "done", "rehash"}
    /\ Cardinality(pending) \in 0..SlotCapacity

(* Nothing is stored in it. *)
LEMMA BlankStored == Blank => Stored
<1> SUFFICES ASSUME Blank PROVE Stored
  OBVIOUS
<1>1. /\ TableOK /\ Shaped(ctrl) /\ slotSize = 0 /\ hand = NoHand /\ pc \in {"idle", "done", "rehash"}
      /\ \A i \in 0..slotMask : slot[i] = Raw /\ ctrl[i] = Empty
      /\ Cardinality(pending) \in 0..SlotCapacity
  BY DEF Blank
<1>2. slotMask \in Nat /\ SlotCapacity \in Nat
  BY <1>1, Shape
<1>3. Live(slot) = {} /\ Cardinality(Live(slot)) = 0
  <2>1. Live(slot) = {}
    BY <1>1, Slots
  <2> QED
    BY <2>1, FS_EmptySet
<1>4. Vacant = {} /\ Carried = 0
  BY <1>1 DEF Vacant, Carried
<1>5. HandOK
  BY <1>1, <1>2, <1>4, EmptyRange DEF HandOK, NoHand
<1>6. SizeOK
  BY <1>1, <1>2, <1>3, <1>4 DEF SizeOK
<1>7. ShapeOK /\ OwnWords /\ ReachInv /\ HandInv
  BY <1>1, <1>3 DEF ShapeOK, OwnWords, ReachInv, HandInv
<1> QED
  BY <1>1, <1>5, <1>6, <1>7 DEF Stored

(* Nor is anything after the step. *)
LEMMA BlankStoredNext == Blank' => Stored'
<1>1. (Blank => Stored)'
  BY BlankStored, PTL
<1> QED
  BY <1>1

(* What is stored stays so while a call is at a place where nothing is in its hand. *)
Plain == {"idle", "manage", "walk", "room", "place", "rehash", "done"}

(* A step that touches neither the table nor the hand. *)
LEMMA StillStored ==
  ASSUME Stored, pc \in Plain, pc' \in Plain, UNCHANGED <<table, hand, pending>>
  PROVE  Stored'
<1>1. /\ UNCHANGED <<slotMask, ctrl, slot, slotSize, slotThreshold, hand, pending>>
      /\ SlotCapacity' = SlotCapacity /\ Live(slot)' = Live(slot) /\ Small' = Small
  BY DEF table, SlotCapacity, Live, Small
<1>2. Vacant = {} /\ Vacant' = {} /\ Carried = 0 /\ Carried' = 0 /\ Settled /\ Settled'
  BY DEF Plain, Vacant, Carried, Settled
<1>3. TableOK'
  BY <1>1 DEF Stored, TableOK
<1>4. HandOK'
  BY <1>1, <1>2 DEF Stored, HandOK, Plain
<1>5. SizeOK'
  BY <1>1, <1>2 DEF Stored, SizeOK, Plain
<1>6. ShapeOK'
  BY <1>1, ShapeStays DEF Stored, ShapeOK, Plain
<1>7. OwnWords' /\ HandInv'
  BY <1>1, <1>2 DEF Stored, OwnWords, HandInv, Plain
<1>8. ReachInv'
  BY <1>1, <1>2 DEF Stored, ReachInv
<1> QED
  BY <1>3, <1>4, <1>5, <1>6, <1>7, <1>8 DEF Stored

(* The slots that a rehash goes through are those with elements. *)
LEMMA UsedAre ==
  ASSUME Stored, pc \in {"manage", "room", "retry"}
  PROVE  {i \in 0..slotMask : IsUsed(ctrl[i])} = Live(slot) /\ slotSize = Cardinality(Live(slot))
<1>1. Vacant = {} /\ Carried = 0
  BY DEF Vacant, Carried
<1>2. \A i \in 0..slotMask : ctrl[i] # Empty <=> i \in Live(slot)
  <2>1. CASE pc = "retry"
    BY <2>1, Slots DEF Stored, OwnWords
  <2>2. CASE pc # "retry"
    BY <1>1, <2>2, UsedIsLive DEF Stored, Settled
  <2> QED
    BY <2>1, <2>2
<1>3. Live(slot) \subseteq 0..slotMask
  BY Slots DEF Stored
<1>4. slotSize = Cardinality(Live(slot)) + 0 /\ Cardinality(Live(slot)) \in Nat
  BY <1>1, Slots DEF Stored, SizeOK
<1>5. {i \in 0..slotMask : IsUsed(ctrl[i])} = Live(slot)
  BY <1>2, <1>3 DEF IsUsed
<1> QED
  BY <1>4, <1>5

(* A rehash begins with an empty table and with what was stored in the old one. *)
LEMMA ReplacedStored ==
  ASSUME Layout, Replaced, pc \in {"manage", "room", "retry"}, hand' = hand
  PROVE  /\ Stored' /\ RehashOK' /\ pc' = "rehash"
         /\ resume' = IF pc = "manage" THEN "done" ELSE "walk"
<1>1. PICK c, m : /\ ValidCapacity(c) /\ c >= slotSize /\ m \in LoadFactors
                  /\ CreateGroup(c, m, IF pc = "manage" THEN "done" ELSE "walk")
  BY DEF Replaced
<1>2. /\ NewTable(c)' /\ slotSize' = 0 /\ slotThreshold' = CalcSlotThreshold(m, c)
      /\ old' = slot /\ pending' = {i \in 0..slotMask : IsUsed(ctrl[i])} /\ pc' = "rehash"
      /\ resume' = IF pc = "manage" THEN "done" ELSE "walk"
  BY <1>1 DEF CreateGroup, NewTable
<1>3. pending' = Live(slot) /\ slotSize = Cardinality(Live(slot))
  BY <1>2, UsedAre DEF Layout
<1>4. c \in Nat /\ c >= 1 /\ slotMask' = c - 1
  BY <1>1, <1>2, CapacityShape DEF NewTable
<1>5. TableOK' /\ Shaped(ctrl)' /\ \A i \in 0..slotMask' : slot'[i] = Raw /\ ctrl'[i] = Empty
  <2>1. CalcSlotThreshold(m, c) \in 0..(c - 1)
    BY <1>1, <1>4, ThresholdRange
  <2>2. /\ slotMask' \in Nat /\ SlotCapacity' = c /\ slot' \in [0..slotMask' -> Element \cup {Raw}]
        /\ ctrl' \in [DOMAIN ctrl' -> CtrlWord] /\ Shaped(ctrl)'
        /\ \A i \in 0..slotMask' : slot'[i] = Raw /\ ctrl'[i] = Empty
    BY <1>1, <1>2, FreshTableNext
  <2>3. slotThreshold' \in 0..slotMask' /\ slotSize' \in Nat
    BY <1>2, <1>4, <2>1
  <2>4. ValidCapacity(SlotCapacity')
    BY <1>1, <2>2
  <2>5. TableOK'
    BY <2>2, <2>3, <2>4 DEF TableOK, ValidCapacity
  <2> QED
    BY <2>2, <2>5
<1>6. hand' = NoHand
  BY DEF Layout, Stored, HandOK
<1>7. Cardinality(pending') \in 0..SlotCapacity'
  <2>1. slotSize \in Nat /\ SlotCapacity' = c /\ Cardinality(pending') = slotSize
    BY <1>1, <1>2, <1>3, FreshTableNext DEF Layout, Stored, TableOK
  <2> QED
    BY <1>1, <1>4, <2>1
<1>8. Stored'
  <2>1. Blank'
    BY <1>2, <1>5, <1>6, <1>7 DEF Blank
  <2> QED
    BY <2>1, BlankStoredNext
<1>9. RehashOK'
  <2>1. slot \in [0..slotMask -> Element \cup {Raw}] /\ DOMAIN slot = 0..slotMask /\ IsFiniteSet(Live(slot))
    BY Slots DEF Layout, Stored, TableOK
  <2>2. Live(old)' = Live(slot) /\ pc' = "rehash" /\ resume' \in {"walk", "done"}
    BY <1>2 DEF Live
  <2>3. old' \in [DOMAIN old' -> Element \cup {Raw}] /\ DOMAIN old' \subseteq Nat
    BY <1>2, <2>1
  <2>4. pending' = Live(old)' /\ IsFiniteSet(pending')
    BY <1>3, <2>1, <2>2
  <2> QED
    BY <2>2, <2>3, <2>4 DEF RehashOK
<1> QED
  BY <1>2, <1>8, <1>9

(* Clearing leaves an empty table, of the same size or of the least. *)
LEMMA EmptiedStored ==
  ASSUME Layout, Emptied, pc \in {"manage", "room"}, hand' = hand
  PROVE  Stored'
<1>1. hand' = NoHand /\ slotSize' = 0 /\ pc' = "done" /\ pending' = pending
  BY DEF Layout, Stored, HandOK, Emptied, rehash
<1>2. Cardinality(pending) = 0
  <2>1. pending = {}
    BY DEF Layout, Course, RehashOK, Moving
  <2> QED
    BY <2>1, FS_EmptySet
<1>3. CASE Recreate
  <2>1. NewTable(DefaultCapacity)' /\ ValidCapacity(DefaultCapacity)
        /\ slotThreshold' = CalcSlotThreshold(mlf, DefaultCapacity)
    BY <1>3, Widths DEF Recreate, NewTable, ValidCapacity
  <2>2. CalcSlotThreshold(mlf, DefaultCapacity) \in 0..(DefaultCapacity - 1)
    BY Widths, ThresholdRange DEF Layout, Course, ControlOK
  <2>3. /\ slotMask' \in Nat /\ SlotCapacity' = DefaultCapacity /\ slot' \in [0..slotMask' -> Element \cup {Raw}]
        /\ ctrl' \in [DOMAIN ctrl' -> CtrlWord] /\ Shaped(ctrl)' /\ slotMask' = DefaultCapacity - 1
        /\ \A i \in 0..slotMask' : slot'[i] = Raw /\ ctrl'[i] = Empty
    BY <2>1, FreshTableNext DEF NewTable
  <2>4. ValidCapacity(SlotCapacity') /\ SlotCapacity' \in Nat
    BY <2>1, <2>3, Widths
  <2>5. TableOK'
    BY <1>1, <2>1, <2>2, <2>3, <2>4 DEF TableOK, ValidCapacity
  <2>6. Blank'
    BY <1>1, <1>2, <2>3, <2>4, <2>5 DEF Blank
  <2> QED
    BY <2>6, BlankStoredNext
<1>4. CASE ClearGroups /\ Small
  <2>1. /\ ctrl' = [i \in DOMAIN ctrl |-> IF i < GroupCount(SlotCapacity) * GroupWidth THEN Empty ELSE ctrl[i]]
        /\ slot' = AllRaw(SlotCapacity) /\ UNCHANGED <<slotMask, slotThreshold>>
    BY <1>4 DEF ClearGroups
  <2>2. TableOK /\ Shaped(ctrl)
    BY DEF Layout, Stored, ShapeOK
  <2>3. /\ slotMask \in Nat /\ SlotCapacity = slotMask + 1 /\ GroupWidth \in Nat /\ SlotCapacity' = SlotCapacity
        /\ Words(SlotCapacity) = 0..(2 * GroupWidth - 1) /\ 2 * SlotCapacity <= GroupWidth
        /\ GroupCount(SlotCapacity) * GroupWidth = GroupWidth
    <3>1. GroupCount(SlotCapacity) = 1
      BY <1>4, <2>2, Shape
    <3> QED
      BY <1>4, <2>1, <2>2, <3>1, Shape, ShapeStays
  <2>4. /\ DOMAIN ctrl' = DOMAIN ctrl /\ DOMAIN ctrl = Words(SlotCapacity)
        /\ \A i \in DOMAIN ctrl : ctrl'[i] = IF i < GroupWidth THEN Empty ELSE ctrl[i]
        /\ ctrl' \in [DOMAIN ctrl' -> CtrlWord]
    <3>1. \A i \in DOMAIN ctrl : ctrl[i] \in CtrlWord
      BY <2>2 DEF Shaped
    <3>2. ctrl' = [i \in DOMAIN ctrl |-> IF i < GroupWidth THEN Empty ELSE ctrl[i]]
      BY <2>1, <2>3
    <3> QED
      BY <2>2, <3>1, <3>2, EmptyRange DEF Shaped
  <2>5. \A i \in 0..slotMask : /\ ctrl'[i] = Empty
                               /\ i < GroupWidth => ctrl'[i + SlotCapacity] = ctrl'[i]
    <3> SUFFICES ASSUME NEW i \in 0..slotMask
                 PROVE  ctrl'[i] = Empty /\ ctrl'[i + SlotCapacity] = Empty
      OBVIOUS
    <3>1. i \in Words(SlotCapacity) /\ i < GroupWidth
          /\ i + SlotCapacity \in Words(SlotCapacity) /\ i + SlotCapacity < GroupWidth
      BY <2>3
    <3> QED
      BY <2>4, <3>1
  <2>6. \A i \in TailWords : ctrl'[i] \in {Empty, EndOf}
    <3> SUFFICES ASSUME NEW i \in TailWords PROVE ctrl'[i] \in {Empty, EndOf}
      OBVIOUS
    <3>1. i \in Words(SlotCapacity) /\ ctrl[i] \in {Empty, EndOf}
      BY <1>4, <2>2, <2>3 DEF Shaped, TailWords
    <3> QED
      BY <2>4, <3>1
  <2>7. Shaped(ctrl')
    BY <2>4, <2>5, <2>6 DEF Shaped
  <2>8. /\ slot' \in [0..slotMask -> Element \cup {Raw}] /\ \A i \in 0..slotMask : slot'[i] = Raw
    BY <2>1, <2>3 DEF AllRaw
  <2>9. TableOK'
    BY <1>1, <2>1, <2>2, <2>3, <2>4, <2>8 DEF TableOK
  <2>10. Shaped(ctrl)' /\ SlotCapacity \in Nat
    BY <2>1, <2>3, <2>7, ShapeStays
  <2>11. Blank'
    BY <1>1, <1>2, <2>1, <2>3, <2>5, <2>8, <2>9, <2>10 DEF Blank
  <2> QED
    BY <2>11, BlankStoredNext
<1> QED
  BY <1>3, <1>4 DEF Emptied

(* An exception leaves a table of which only the types are known. *)
LEMMA HaltedStored ==
  ASSUME Layout, Halted, pc \in {"manage", "room", "retry"}, hand' = hand
  PROVE  Stored'
<1>1. hand' = hand /\ hand = NoHand /\ pc' = "broken" /\ UNCHANGED <<slotMask, slot, slotSize, slotThreshold>>
  BY DEF Layout, Stored, HandOK, Halted
<1>2. ctrl' \in [DOMAIN ctrl' -> CtrlWord]
  <2>1. CASE ctrl' = ctrl
    BY <2>1 DEF Layout, Stored, TableOK
  <2>2. ASSUME NEW c, ctrl' = FreshCtrl(c) PROVE ctrl' \in [DOMAIN ctrl' -> CtrlWord]
    BY <2>2, EmptyRange DEF FreshCtrl
  <2> QED
    BY <2>1, <2>2 DEF Halted
<1>3. TableOK'
  <2>1. SlotCapacity' = SlotCapacity
    BY <1>1, ShapeStays
  <2> QED
    BY <1>1, <1>2, <2>1 DEF Layout, Stored, TableOK
<1>4. HandOK'
  <2>1. Vacant' = {}
    BY <1>1 DEF Vacant
  <2> QED
    BY <1>1, <2>1 DEF Layout, Stored, HandOK, NoHand
<1> QED
  BY <1>1, <1>3, <1>4 DEF Stored, SizeOK, ShapeOK, OwnWords, ReachInv, HandInv, Settled

(* Whatever becomes of the table as a whole, what is said of a state holds of the next one. *)
LEMMA RearrangedLayout ==
  ASSUME Layout, Rearranged
  PROVE  Layout'
<1>1. pc \in {"manage", "room", "retry"} /\ UNCHANGED <<call, probe, hand>> /\ mlf' \in LoadFactors
  BY DEF Rearranged
<1>2. \/ pc' = "done" \/ pc' = "broken"
      \/ pc' = "rehash" /\ resume' \in {"done", "walk"} /\ (pc = "manage" => resume' = "done")
  BY <1>1, ReplacedStored DEF Rearranged, Kept, Halted, Emptied
<1>3. ControlOK'
  <2>1. resume' = "walk" => call.op \in Insertions
    <3>1. pc # "manage" => call.op \in Insertions
      BY <1>1 DEF Layout, Course, ControlOK
    <3>2. ASSUME ~ Replaced PROVE resume' = "done"
      <4>1. resume' = resume
        BY <3>2 DEF Rearranged, Kept, Halted, Emptied, rehash
      <4> QED
        BY <1>1, <4>1 DEF Layout, Course, RehashOK, Moving
    <3>3. ASSUME Replaced PROVE pc = "manage" => resume' = "done"
      BY <1>1, <3>3, ReplacedStored
    <3> QED
      BY <3>1, <3>2, <3>3
  <2> QED
    BY <1>1, <1>2, <2>1 DEF Layout, Course, ControlOK
<1>4. ProbeOK' /\ WalkInv'
  BY <1>1, <1>2 DEF Layout, Course, ProbeOK, WalkInv
<1>5. RehashOK' /\ Stored'
  <2>1. CASE Replaced
    BY <1>1, <2>1, ReplacedStored
  <2>2. CASE Kept \/ Halted \/ Emptied
    <3>1. UNCHANGED <<old, pending, resume>> /\ pc' \in {"done", "broken"}
      BY <2>2 DEF Kept, Halted, Emptied, rehash
    <3>2. old = NoOld /\ resume = "done" /\ ~ Moving
      BY <1>1 DEF Layout, Course, RehashOK, Moving
    <3>3. RehashOK'
      BY <3>1, <3>2 DEF Layout, Course, RehashOK, Moving, Live
    <3>4. Stored'
      <4>1. CASE Kept
        <5>1. pc \in Plain /\ pc' \in Plain /\ UNCHANGED <<table, hand, pending>>
          BY <1>1, <3>1, <4>1 DEF Kept, Rearranged, Plain
        <5> QED
          BY <5>1, StillStored DEF Layout
      <4>2. CASE Halted
        BY <1>1, <4>2, HaltedStored
      <4>3. CASE Emptied
        BY <1>1, <4>3, EmptiedStored DEF Rearranged
      <4> QED
        BY <2>2, <4>1, <4>2, <4>3
    <3> QED
      BY <3>3, <3>4
  <2> QED
    BY <2>1, <2>2 DEF Rearranged
<1> QED
  BY <1>3, <1>4, <1>5 DEF Layout, Course

-----------------------------------------------------------------------------
(* Steps of walks and of the frame of a call *)

(* The constructor. *)
LEMMA InitLayout == Init => Layout
<1> SUFFICES ASSUME Init PROVE Layout
  OBVIOUS
<1>1. PICK n \in InitCapacities :
         /\ NewTable(CalcCapacity(n)) /\ slotSize = 0
         /\ slotThreshold = CalcSlotThreshold(DefaultLoadFactor, CalcCapacity(n))
         /\ mlf = DefaultLoadFactor /\ pc = "idle" /\ call = NoCall
         /\ probe = NoProbe /\ hand = NoHand
         /\ old = NoOld /\ pending = {} /\ resume = "done"
  BY DEF Init, NewTable
<1> DEFINE c == CalcCapacity(n)
<1>2. ValidCapacity(c) /\ c \in Nat /\ c >= 1
  <2>1. n \in Nat
    BY ArgsAssumption
  <2> QED
    BY <2>1, CalcCapacityRange, Widths DEF ValidCapacity
<1>3. DefaultLoadFactor \in LoadFactors
  BY LoadFactorAssumption
<1> HIDE DEF c
<1>4. CalcSlotThreshold(DefaultLoadFactor, c) \in 0..(c - 1)
  BY <1>2, <1>3, ThresholdRange
<1>5. NewTable(c) /\ slotMask = c - 1 /\ slotThreshold = CalcSlotThreshold(DefaultLoadFactor, c)
  BY <1>1 DEF c, NewTable
<1>6. /\ slotMask \in Nat /\ SlotCapacity = c /\ slot \in [0..slotMask -> Element \cup {Raw}]
      /\ ctrl \in [DOMAIN ctrl -> CtrlWord] /\ Shaped(ctrl)
      /\ \A i \in 0..slotMask : slot[i] = Raw /\ ctrl[i] = Empty
  BY <1>2, <1>5, FreshTable
<1>7. TableOK
  BY <1>1, <1>2, <1>4, <1>5, <1>6 DEF TableOK
<1>8. Cardinality(pending) \in 0..SlotCapacity
  BY <1>1, <1>2, <1>6, FS_EmptySet
<1>9. Stored
  BY <1>1, <1>6, <1>7, <1>8, BlankStored DEF Blank
<1>10. call.op = "none" /\ call \in [op : KeyOps \cup Managements \cup {"none"}, key : Key \cup {Absent},
                                    val : Value \cup {Absent}, arg : [n : Nat, flag : BOOLEAN]]
  BY <1>1 DEF NoCall, NoArg
<1>11. ControlOK
  BY <1>1, <1>3, <1>10 DEF ControlOK, KeyOps, Insertions
<1>12. ProbeOK /\ WalkInv
  BY <1>1 DEF ProbeOK, WalkInv, NoProbe
<1>13. RehashOK
  <2>1. Live(old) = {} /\ IsFiniteSet({})
    BY <1>1, FS_EmptySet DEF Live, NoOld
  <2> QED
    BY <1>1, <2>1 DEF RehashOK, NoOld, Moving
<1> QED
  BY <1>9, <1>11, <1>12, <1>13 DEF Layout, Course

(* A call begins. *)
LEMMA BeginLayout ==
  ASSUME Layout, BeginKeyOp \/ BeginManagement
  PROVE  Layout'
<1>1. PICK op \in KeyOps \cup Managements, k \in Key \cup {Absent}, v \in Value \cup {Absent},
           n \in Nat, flag \in BOOLEAN :
         /\ Begin(op, k, v, n, flag)
         /\ op \in KeyOps => k \in Key
         /\ op \in Insertions => v \in Value
         /\ op = "max_load_factor" => n \in LoadFactors
         /\ op = "clear" => flag \in DestroyArgs
  <2>1. /\ RehashArgs \subseteq Nat /\ DestroyArgs \subseteq BOOLEAN /\ ReadOnlyArgs \subseteq BOOLEAN
        /\ FALSE \in BOOLEAN /\ \A m \in LoadFactors : m \in Nat
    BY ArgsAssumption, FactorRange
  <2>2. CASE BeginKeyOp
    <3>1. PICK k \in Key : \/ \E op \in {"find", "erase"} : Begin(op, k, Absent, 0, FALSE)
                           \/ \E op \in Insertions, v \in Value : Begin(op, k, v, 0, FALSE)
      BY <2>2 DEF BeginKeyOp
    <3>2. CASE \E op \in {"find", "erase"} : Begin(op, k, Absent, 0, FALSE)
      <4>1. PICK op \in {"find", "erase"} : Begin(op, k, Absent, 0, FALSE)
        BY <3>2
      <4>2. op \in KeyOps /\ op \notin Insertions /\ op # "max_load_factor" /\ op # "clear"
        BY DEF KeyOps, Insertions
      <4> QED
        BY <4>1, <4>2
    <3>3. CASE \E op \in Insertions, v \in Value : Begin(op, k, v, 0, FALSE)
      <4>1. PICK op \in Insertions, v \in Value : Begin(op, k, v, 0, FALSE)
        BY <3>3
      <4>2. op \in KeyOps /\ op # "max_load_factor" /\ op # "clear"
        BY DEF KeyOps, Insertions
      <4> QED
        BY <4>1, <4>2
    <3> QED
      BY <3>1, <3>2, <3>3
  <2>3. CASE BeginManagement
    <3>1. \A op \in Managements : op \notin KeyOps /\ op \notin Insertions
      BY DEF Managements, KeyOps, Insertions
    <3>2. "clear" \in Managements /\ "rehash" \in Managements /\ "shrink_to_fit" \in Managements
          /\ "max_load_factor" \in Managements
      BY DEF Managements
    <3>3. CASE \E destroy \in DestroyArgs : Begin("clear", Absent, Absent, 0, destroy)
      BY <2>1, <3>1, <3>2, <3>3
    <3>4. CASE \E n \in RehashArgs, readOnly \in ReadOnlyArgs : Begin("rehash", Absent, Absent, n, readOnly)
      BY <2>1, <3>1, <3>2, <3>4
    <3>5. CASE \E readOnly \in ReadOnlyArgs : Begin("shrink_to_fit", Absent, Absent, 0, readOnly)
      BY <2>1, <3>1, <3>2, <3>5
    <3>6. CASE \E m \in LoadFactors : Begin("max_load_factor", Absent, Absent, m, FALSE)
      <4>1. PICK m \in LoadFactors : Begin("max_load_factor", Absent, Absent, m, FALSE)
        BY <3>6
      <4>2. /\ "max_load_factor" \in KeyOps \cup Managements /\ Absent \in Key \cup {Absent}
            /\ Absent \in Value \cup {Absent} /\ m \in Nat /\ FALSE \in BOOLEAN
            /\ "max_load_factor" \notin KeyOps /\ "max_load_factor" \notin Insertions
            /\ "max_load_factor" # "clear"
        BY <2>1, <3>1, <3>2
      <4> QED
        BY <4>1, <4>2
    <3> QED
      BY <2>3, <3>3, <3>4, <3>5, <3>6 DEF BeginManagement
  <2> QED
    BY <2>2, <2>3
<1>2. /\ pc = "idle" /\ call' = [op |-> op, key |-> k, val |-> v, arg |-> [n |-> n, flag |-> flag]]
      /\ IF op \in KeyOps THEN pc' = "walk" /\ probe' = StartProbe(k) ELSE pc' = "manage" /\ UNCHANGED probe
      /\ UNCHANGED <<table, mlf, hand, rehash>>
  BY <1>1 DEF Begin
<1>3. /\ call'.op = op /\ call'.key = k /\ call'.val = v /\ call'.arg.n = n /\ call'.arg.flag = flag
      /\ pc' \in {"walk", "manage"} /\ (pc' = "walk" => op \in KeyOps)
      /\ UNCHANGED <<old, pending, resume, slotMask, ctrl>>
  BY <1>2 DEF rehash, table
<1>4. Stored'
  <2>1. pc \in Plain /\ pc' \in Plain
    BY <1>2, <1>3 DEF Plain
  <2> QED
    BY <1>2, <1>3, <2>1, StillStored DEF Layout
<1>5. ControlOK'
  <2>1. call' \in [op : KeyOps \cup Managements \cup {"none"}, key : Key \cup {Absent},
                   val : Value \cup {Absent}, arg : [n : Nat, flag : BOOLEAN]]
    BY <1>1, <1>2
  <2>2. resume' = "done"
    BY <1>2, <1>3 DEF Layout, Course, RehashOK, Moving
  <2> QED
    BY <1>1, <1>2, <1>3, <2>1, <2>2 DEF Layout, Course, ControlOK
<1>6. ProbeOK' /\ WalkInv'
  <2>1. CASE op \in KeyOps
    <3>1. pc' = "walk" /\ probe' = [key |-> k, dist |-> 0] /\ k \in Key /\ call'.key = k
      BY <1>1, <1>2, <1>3, <2>1 DEF StartProbe
    <3>2. slotMask' \in Nat /\ SlotCapacity' \in Nat
      BY <1>3, ShapeStays, Shape DEF Layout, Stored
    <3>3. \A j \in 0..slotMask' : ~ (Gap(slotMask', j, k) < 0)
      BY <3>1, <3>2, GapRange
    <3> QED
      BY <3>1, <3>2, <3>3 DEF ProbeOK, WalkInv
  <2>2. CASE op \notin KeyOps
    <3>1. pc' = "manage" /\ probe' = probe
      BY <1>2, <2>2
    <3> QED
      BY <3>1 DEF Layout, Course, ProbeOK, WalkInv
  <2> QED
    BY <2>1, <2>2
<1>7. RehashOK'
  BY <1>2, <1>3 DEF Layout, Course, RehashOK, Moving, Live
<1> QED
  BY <1>4, <1>5, <1>6, <1>7 DEF Layout, Course

(* A search, a move or an insertion passes a slot, which is further from home than it has come. *)
LEMMA PassesSlot ==
  ASSUME Layout, pc \in {"walk", "place"}, ~ AtChainEnd
  PROVE  /\ probe.dist \in 0..slotMask /\ probe.key \in Key /\ Target \in 0..slotMask
         /\ Gap(slotMask, Target, probe.key) = probe.dist /\ ctrl[Target].dist >= probe.dist
         /\ Target \in Live(slot)
<1>1. probe.key \in Key /\ probe.dist \in 0..SlotCapacity
  <2>1. CASE pc = "walk"
    BY <2>1, Shape DEF Layout, Stored, Course, ProbeOK, ControlOK
  <2>2. CASE pc = "place"
    BY <2>2, Shape, ElementRange DEF Layout, Stored, Course, ProbeOK
  <2> QED
    BY <2>1, <2>2
<1>2. Target = Spot(slotMask, probe.key, probe.dist) /\ Target \in 0..slotMask /\ Here = ctrl[Target]
  BY <1>1, WalkIsAt DEF Layout, Stored
<1>3. probe.dist <= ctrl[Target].dist
  BY <1>2 DEF AtChainEnd, InChain
<1>4. Settled /\ Vacant = {} /\ slotMask \in Nat
  BY Shape DEF Settled, Vacant, Layout, Stored
<1>5. ctrl[Target].dist \in Int
  BY <1>2, WordIn DEF Layout, Stored, ShapeOK
<1>6. Target \in Live(slot) /\ ctrl[Target].dist \in 0..slotMask
  <2>1. ctrl[Target].dist >= 0
    BY <1>1, <1>3, <1>5, Shape DEF Layout, Stored
  <2>2. Target \in Live(slot) /\ slot[Target].key \in Key
        /\ ctrl[Target].dist = Gap(slotMask, Target, slot[Target].key)
    BY <1>2, <1>4, <2>1, UsedIsLive DEF Layout, Stored
  <2> QED
    BY <1>2, <1>4, <2>2, GapRange
<1>7. probe.dist \in 0..slotMask
  BY <1>1, <1>3, <1>4, <1>6 DEF SlotCapacity
<1> QED
  BY <1>1, <1>2, <1>3, <1>4, <1>6, <1>7, GapSpot

(* The element that a rehash moves next. *)
LEMMA NextIsElement ==
  ASSUME RehashOK, Moving
  PROVE  NextPending \in pending /\ NextPending \in DOMAIN old /\ old[NextPending] \in Element
         /\ NewElement = old[NextPending]
<1>1. pending \subseteq Nat /\ pending # {} /\ pending = {i \in DOMAIN old : old[i] # Raw}
  BY DEF RehashOK, Moving, Live
<1>2. Sets!Min(pending) \in pending
  BY <1>1, LeastOf
<1>3. NextPending \in pending
  BY <1>2 DEF NextPending
<1>4. NextPending \in DOMAIN old /\ old[NextPending] # Raw
  BY <1>1, <1>3
<1>5. old[NextPending] \in Element
  BY <1>4 DEF RehashOK
<1> QED
  BY <1>3, <1>4, <1>5 DEF NewElement

(* A call that has no more to do. *)
LEMMA FinishLayout ==
  ASSUME Layout, pc = "walk", pc' = "done", UNCHANGED <<table, mlf, call, probe, hand, rehash>>
  PROVE  Layout'
<1>1. Stored'
  BY StillStored DEF Layout, Plain, rehash
<1>2. UNCHANGED <<old, pending, resume>> /\ old = NoOld /\ resume = "done" /\ ~ Moving
  BY DEF Layout, Course, RehashOK, Moving, rehash
<1>3. ControlOK'
  BY <1>2 DEF Layout, Course, ControlOK, Moving
<1>4. ProbeOK' /\ WalkInv'
  BY DEF Layout, Course, ProbeOK, WalkInv
<1>5. RehashOK'
  BY <1>2 DEF Layout, Course, RehashOK, Moving, Live
<1> QED
  BY <1>1, <1>3, <1>4, <1>5 DEF Layout, Course

(* A walk goes on to the next slot. *)
LEMMA FurtherLayout ==
  ASSUME Layout, WalkNext \/ PlaceNext
  PROVE  Layout'
<1>1. /\ pc \in {"walk", "place"} /\ ~ AtChainEnd /\ probe' = Further
      /\ UNCHANGED <<table, mlf, pc, call, hand, rehash>>
  BY DEF WalkNext, PlaceNext
<1>2. /\ probe.dist \in 0..slotMask /\ probe.key \in Key /\ Target \in 0..slotMask
      /\ Gap(slotMask, Target, probe.key) = probe.dist /\ ctrl[Target].dist >= probe.dist
  BY <1>1, PassesSlot
<1>3. /\ probe \in [key : Key \cup {Absent}, dist : Nat]
      /\ probe'.key = probe.key /\ probe'.dist = probe.dist + 1
      /\ probe' \in [key : Key \cup {Absent}, dist : Nat]
  <2>1. probe \in [key : Key \cup {Absent}, dist : Nat]
    BY DEF Layout, Course, ProbeOK
  <2> QED
    BY <1>1, <2>1 DEF Further
<1>4. UNCHANGED <<old, pending, resume, slotMask, ctrl>> /\ SlotCapacity' = SlotCapacity
      /\ SlotCapacity = slotMask + 1 /\ slotMask \in Nat
  BY <1>1, Shape, ShapeStays DEF rehash, table, Layout, Stored
<1>5. Stored'
  BY <1>1, <1>4, StillStored DEF Layout, Plain
<1>6. ControlOK'
  BY <1>1, <1>4 DEF Layout, Course, ControlOK, Moving
<1>7. ProbeOK'
  <2>1. NewElement' = NewElement
    BY <1>1, <1>4 DEF NewElement, Moving, NextPending
  <2>2. probe'.dist <= SlotCapacity'
    BY <1>2, <1>3, <1>4
  <2> QED
    BY <1>1, <1>3, <2>1, <2>2 DEF Layout, Course, ProbeOK
<1>8. WalkInv'
  <2> SUFFICES ASSUME NEW j \in 0..slotMask, Gap(slotMask, j, probe.key) < probe.dist + 1
               PROVE  ctrl[j].dist >= Gap(slotMask, j, probe.key)
    BY <1>1, <1>3, <1>4 DEF WalkInv
  <2>1. CASE Gap(slotMask, j, probe.key) < probe.dist
    BY <1>1, <2>1 DEF Layout, Course, WalkInv
  <2>2. CASE Gap(slotMask, j, probe.key) = probe.dist
    <3>1. j = Target
      BY <1>2, <1>4, <2>2, GapRange
    <3> QED
      BY <1>2, <3>1
  <2>3. Gap(slotMask, j, probe.key) \in 0..slotMask
    BY <1>2, <1>4, GapRange
  <2> QED
    BY <1>2, <2>1, <2>2, <2>3
<1>9. RehashOK'
  BY <1>1, <1>4 DEF Layout, Course, RehashOK, Moving, Live
<1> QED
  BY <1>5, <1>6, <1>7, <1>8, <1>9 DEF Layout, Course

(* A search comes to the end of its chain: an insertion has found its place. *)
LEMMA NotFoundLayout ==
  ASSUME Layout, NotFound
  PROVE  Layout'
<1>1. /\ pc = "walk" /\ AtChainEnd /\ UNCHANGED <<table, mlf, call, probe, hand, rehash>>
      /\ pc' = IF call.op \in Insertions THEN "room" ELSE "done"
  <2>1. call.op \in Insertions \cup {"find", "erase"}
    BY DEF NotFound, Layout, Course, ControlOK, KeyOps
  <2>2. "find" \notin Insertions /\ "erase" \notin Insertions
    BY DEF Insertions
  <2> QED
    BY <2>1, <2>2 DEF NotFound, Done
<1>2. CASE call.op \notin Insertions
  BY <1>1, <1>2, FinishLayout
<1>3. CASE call.op \in Insertions
  <2>1. probe.key = call.key /\ call.key \in Key /\ call.val \in Value /\ probe.dist \in 0..SlotCapacity
    BY <1>1, <1>3, Shape DEF Layout, Stored, Course, ControlOK, ProbeOK, KeyOps
  <2>2. UNCHANGED <<old, pending, resume, slotMask, ctrl>> /\ old = NoOld /\ resume = "done" /\ ~ Moving
        /\ SlotCapacity' = SlotCapacity
    BY <1>1, ShapeStays DEF Layout, Course, RehashOK, Moving, rehash, table
  <2>3. Stored'
    BY <1>1, <1>3, <2>2, StillStored DEF Layout, Plain
  <2>4. ControlOK'
    BY <1>1, <1>3, <2>2 DEF Layout, Course, ControlOK, Moving
  <2>5. ProbeOK'
    <3>1. NewElement' = [key |-> call.key, val |-> call.val]
      BY <1>1, <2>2 DEF NewElement, Moving
    <3>2. NewElement' \in Element /\ NewElement'.key = call.key
      BY <2>1, <3>1 DEF Element
    <3> QED
      BY <1>1, <1>3, <2>1, <2>2, <3>2 DEF Layout, Course, ProbeOK
  <2>6. WalkInv'
    <3>1. Here = ctrl[Spot(slotMask, probe.key, probe.dist)] /\ Spot(slotMask, probe.key, probe.dist) \in 0..slotMask
      BY <1>1, <2>1, WalkIsAt DEF Layout, Stored
    <3>2. Here.dist \in Int
      BY <1>1, <3>1, WordIn DEF Layout, Stored, ShapeOK
    <3>3. ctrl[Spot(slotMask, probe.key, probe.dist)].dist < probe.dist
      BY <1>1, <2>1, <3>1, <3>2 DEF AtChainEnd, InChain
    <3> QED
      BY <1>1, <2>2, <3>3 DEF Layout, Course, WalkInv
  <2>7. RehashOK'
    BY <1>1, <1>3, <2>2 DEF Layout, Course, RehashOK, Moving, Live
  <2> QED
    BY <2>3, <2>4, <2>5, <2>6, <2>7 DEF Layout, Course
<1> QED
  BY <1>2, <1>3

(* The walk for the next element that a rehash moves begins. *)
LEMMA MoveNextLayout ==
  ASSUME Layout, MoveNext
  PROVE  Layout'
<1>1. /\ pc = "rehash" /\ Moving /\ probe' = StartProbe(old[NextPending].key) /\ pc' = "place"
      /\ UNCHANGED <<table, mlf, call, hand, old, pending, resume, slotMask, ctrl>>
  BY DEF MoveNext, rehash, table
<1>2. old[NextPending] \in Element /\ NewElement = old[NextPending] /\ NewElement' = NewElement
  <2>1. old[NextPending] \in Element /\ NewElement = old[NextPending]
    BY <1>1, NextIsElement DEF Layout, Course
  <2> QED
    BY <1>1, <2>1 DEF NewElement, Moving, NextPending
<1>3. probe' = [key |-> NewElement.key, dist |-> 0] /\ NewElement.key \in Key
  BY <1>1, <1>2, ElementRange DEF StartProbe
<1>4. slotMask \in Nat /\ SlotCapacity' = SlotCapacity /\ SlotCapacity \in Nat
  BY <1>1, Shape, ShapeStays DEF Layout, Stored
<1>5. Stored'
  BY <1>1, StillStored DEF Layout, Plain
<1>6. ControlOK'
  BY <1>1 DEF Layout, Course, ControlOK, Moving
<1>7. ProbeOK'
  BY <1>1, <1>2, <1>3, <1>4 DEF ProbeOK
<1>8. WalkInv'
  <2>1. \A j \in 0..slotMask : ~ (Gap(slotMask, j, NewElement.key) < 0)
    BY <1>3, <1>4, GapRange
  <2> QED
    BY <1>1, <1>3, <2>1 DEF WalkInv
<1>9. RehashOK'
  BY <1>1 DEF Layout, Course, RehashOK, Moving, Live
<1> QED
  BY <1>5, <1>6, <1>7, <1>8, <1>9 DEF Layout, Course

(* The rehash is over: the call is, or its search begins again in the new table. *)
LEMMA RehashDoneLayout ==
  ASSUME Layout, RehashDone
  PROVE  Layout'
<1>1. /\ pc = "rehash" /\ ~ Moving /\ old' = NoOld /\ resume' = "done"
      /\ UNCHANGED <<table, mlf, call, hand, pending, slotMask, ctrl>>
      /\ IF resume = "done" THEN pc' = "done" /\ UNCHANGED probe
                            ELSE pc' = "walk" /\ probe' = StartProbe(call.key)
  BY DEF RehashDone, Done, table, Layout, Course, RehashOK
<1>2. Stored'
  BY <1>1, StillStored DEF Layout, Plain
<1>3. ~ (resume = "done") => call.op \in Insertions /\ call.op \in KeyOps /\ call.key \in Key
  BY DEF Layout, Course, ControlOK, RehashOK, KeyOps
<1>4. ControlOK'
  BY <1>1, <1>3 DEF Layout, Course, ControlOK, Moving
<1>5. ProbeOK' /\ WalkInv'
  <2>1. CASE resume = "done"
    BY <1>1, <2>1 DEF Layout, Course, ProbeOK, WalkInv
  <2>2. CASE resume # "done"
    <3>1. probe' = [key |-> call.key, dist |-> 0] /\ call.key \in Key /\ pc' = "walk"
      BY <1>1, <1>3, <2>2 DEF StartProbe
    <3>2. slotMask \in Nat /\ SlotCapacity' = SlotCapacity /\ SlotCapacity \in Nat
      BY <1>1, Shape, ShapeStays DEF Layout, Stored
    <3>3. \A j \in 0..slotMask : ~ (Gap(slotMask, j, call.key) < 0)
      BY <3>1, <3>2, GapRange
    <3> QED
      BY <1>1, <3>1, <3>2, <3>3 DEF ProbeOK, WalkInv
  <2> QED
    BY <2>1, <2>2
<1>6. RehashOK'
  <2>1. pending' = {}
    BY <1>1 DEF Moving
  <2>2. Live(old)' = {} /\ IsFiniteSet({})
    BY <1>1, FS_EmptySet DEF Live, NoOld
  <2> QED
    BY <1>1, <2>1, <2>2 DEF RehashOK, NoOld, Moving
<1> QED
  BY <1>2, <1>4, <1>5, <1>6 DEF Layout, Course

(* The call returns. *)
LEMMA ReturnLayout ==
  ASSUME Layout, Return
  PROVE  Layout'
<1>1. /\ pc = "done" /\ pc' = "idle" /\ call' = NoCall /\ probe' = NoProbe
      /\ UNCHANGED <<table, mlf, hand, old, pending, resume>>
  BY DEF Return, rehash
<1>2. Stored'
  BY <1>1, StillStored DEF Layout, Plain
<1>3. ~ Moving /\ resume = "done" /\ old = NoOld
  BY <1>1 DEF Layout, Course, RehashOK, Moving
<1>4. ControlOK'
  <2>1. call'.op = "none" /\ call' \in [op : KeyOps \cup Managements \cup {"none"}, key : Key \cup {Absent},
                                        val : Value \cup {Absent}, arg : [n : Nat, flag : BOOLEAN]]
    BY <1>1 DEF NoCall, NoArg
  <2> QED
    BY <1>1, <1>3, <2>1 DEF Layout, Course, ControlOK, KeyOps, Insertions, Moving
<1>5. ProbeOK' /\ WalkInv'
  BY <1>1 DEF ProbeOK, WalkInv, NoProbe
<1>6. RehashOK'
  BY <1>1, <1>3 DEF Layout, Course, RehashOK, Moving, Live
<1> QED
  BY <1>2, <1>4, <1>5, <1>6 DEF Layout, Course

(* What is assigned to an element changes neither its key nor where it is. *)
LEMMA AssignLayout ==
  ASSUME Layout, MarksDiffer, AssignExisting
  PROVE  Layout'
<1>1. PICK i \in Hits : /\ slot' = [slot EXCEPT ![i] = [key |-> probe.key, val |-> call.val]]
                        /\ pc = "walk" /\ pc' = "done" /\ call.op \in Insertions
                        /\ UNCHANGED <<slotMask, ctrl, slotSize, slotThreshold, mlf, call, probe, hand, rehash>>
  BY DEF AssignExisting, Looking, Done, Insertions
<1>2. i \in Live(slot) /\ i \in 0..slotMask /\ slot[i] \in Element /\ slot[i].key = probe.key
  BY <1>1, HitsFound DEF Layout, Stored, Course
<1> DEFINE e == [key |-> probe.key, val |-> call.val]
<1>3. e \in Element /\ e.key = slot[i].key /\ e # Raw
  <2>1. probe.key \in Key /\ call.val \in Value
    BY <1>1, <1>2, ElementRange DEF Layout, Course, ControlOK
  <2>2. e \in Element /\ e.key = slot[i].key
    BY <1>2, <2>1 DEF Element
  <2> QED
    BY <2>2, ElementRange
<1> HIDE DEF e
<1>4. slot' = [slot EXCEPT ![i] = e]
  BY <1>1 DEF e
<1>5. slot \in [0..slotMask -> Element \cup {Raw}]
  BY DEF Layout, Stored, TableOK
<1>6. /\ slot' \in [0..slotMask -> Element \cup {Raw}]
      /\ \A j \in 0..slotMask : /\ slot'[j] = Raw <=> slot[j] = Raw
                                /\ slot[j] # Raw => slot'[j].key = slot[j].key
  BY <1>2, <1>3, <1>4, <1>5, ElementRange
<1>7. Live(slot)' = Live(slot)
  BY <1>5, <1>6 DEF Live
<1>8. UNCHANGED <<old, pending, resume>> /\ old = NoOld /\ resume = "done" /\ ~ Moving
  BY <1>1 DEF Layout, Course, RehashOK, Moving, rehash
<1>9. Vacant = {} /\ Vacant' = {} /\ Carried = 0 /\ Carried' = 0 /\ Settled /\ Settled'
      /\ SlotCapacity' = SlotCapacity
  BY <1>1, ShapeStays DEF Vacant, Carried, Settled
<1>10. TableOK'
  BY <1>1, <1>6, <1>9 DEF Layout, Stored, TableOK
<1>11. HandOK' /\ HandInv'
  BY <1>1, <1>9 DEF Layout, Stored, HandOK, HandInv
<1>12. SizeOK'
  BY <1>1, <1>7, <1>8, <1>9 DEF Layout, Stored, SizeOK
<1>13. ShapeOK'
  BY <1>1, ShapeStays DEF Layout, Stored, ShapeOK
<1>14. OwnWords'
  <2>1. \A j \in 0..slotMask : ctrl[j] = IF slot[j] = Raw THEN Empty ELSE WordOf(slotMask, j, slot[j])
    BY <1>9 DEF Layout, Stored, OwnWords
  <2>2. \A j \in 0..slotMask : slot[j] # Raw => WordOf(slotMask, j, slot'[j]) = WordOf(slotMask, j, slot[j])
    BY <1>6 DEF WordOf
  <2>3. \A j \in 0..slotMask : ctrl[j] = IF slot'[j] = Raw THEN Empty ELSE WordOf(slotMask, j, slot'[j])
    BY <1>6, <2>1, <2>2
  <2> QED
    BY <1>1, <1>9, <2>3 DEF OwnWords
<1>15. ReachInv'
  <2>1. \A j \in Live(slot) : Along(ctrl, slotMask, j, slot'[j].key)
    <3>1. \A j \in Live(slot) : j \in 0..slotMask /\ slot[j] # Raw
      BY <1>5 DEF Live
    <3> QED
      BY <1>6, <1>9, <3>1 DEF Layout, Stored, ReachInv
  <2> QED
    BY <1>1, <1>7, <2>1 DEF ReachInv
<1>16. ControlOK'
  BY <1>1, <1>8 DEF Layout, Course, ControlOK, Moving
<1>17. ProbeOK' /\ WalkInv'
  BY <1>1 DEF Layout, Course, ProbeOK, WalkInv
<1>18. RehashOK'
  BY <1>1, <1>8 DEF Layout, Course, RehashOK, Moving, Live
<1> QED
  BY <1>10, <1>11, <1>12, <1>13, <1>14, <1>15, <1>16, <1>17, <1>18 DEF Layout, Stored, Course

-----------------------------------------------------------------------------
(* Erasure *)

(* Nothing is being moved or inserted meanwhile. *)
LEMMA ErasingCourse ==
  ASSUME Course, pc \in {"walk", "shift"}, pc' \in {"shift", "done", "broken"},
         UNCHANGED <<mlf, call, probe, rehash>>
  PROVE  Course'
<1>1. UNCHANGED <<old, pending, resume>> /\ old = NoOld /\ resume = "done" /\ ~ Moving
  BY DEF Course, RehashOK, Moving, rehash
<1>2. ControlOK'
  BY <1>1 DEF Course, ControlOK, Moving
<1>3. ProbeOK' /\ WalkInv'
  BY DEF Course, ProbeOK, WalkInv
<1>4. RehashOK'
  BY <1>1 DEF Course, RehashOK, Moving, Live
<1> QED
  BY <1>2, <1>3, <1>4 DEF Course

(* The element found is destroyed. *)
LEMMA EraseLayout ==
  ASSUME Layout, MarksDiffer, EraseFound
  PROVE  Layout'
<1>1. PICK i \in Hits : /\ slot' = [slot EXCEPT ![i] = Raw] /\ hand' = [NoHand EXCEPT !.at = i]
                        /\ slotSize' = slotSize - 1 /\ pc = "walk" /\ pc' = "shift"
                        /\ UNCHANGED <<slotMask, ctrl, slotThreshold, mlf, call, probe, rehash>>
  BY DEF EraseFound, Looking, Decrement
<1>2. i \in Live(slot) /\ i \in 0..slotMask
  BY <1>1, HitsFound DEF Layout, Stored, Course
<1>3. TableOK /\ slot \in [0..slotMask -> Element \cup {Raw}] /\ slotMask \in Nat
  BY Shape DEF Layout, Stored, TableOK
<1>4. /\ slot' \in [0..slotMask -> Element \cup {Raw}]
      /\ \A j \in 0..slotMask : slot'[j] = IF j = i THEN Raw ELSE slot[j]
  BY <1>1, <1>2, <1>3
<1>5. Live(slot)' = Live(slot) \ {i}
  <2>1. Live(slot)' = {j \in 0..slotMask : slot'[j] # Raw}
    BY <1>4 DEF Live
  <2> QED
    BY <1>3, <1>4, <2>1, Slots
<1>6. hand'.at = i /\ hand' = [target |-> 0, at |-> i, elem |-> Raw, ctrl |-> Empty]
  BY <1>1 DEF NoHand
<1>7. Vacant = {} /\ Vacant' = {i} /\ Carried = 0 /\ Carried' = 0 /\ Settled /\ Settled'
      /\ SlotCapacity' = SlotCapacity
  BY <1>1, <1>6, ShapeStays DEF Vacant, Carried, Settled
<1>8. /\ slotSize = Cardinality(Live(slot)) /\ slotSize \in Nat /\ slotSize >= 1
      /\ slotSize' = Cardinality(Live(slot)')
  <2> DEFINE n == Cardinality(Live(slot))
             m == Cardinality(Live(slot) \ {i})
  <2>1. IsFiniteSet(Live(slot)) /\ n \in Nat
    BY <1>3, Slots
  <2>2. m = n - 1 /\ m \in Nat
    <3>1. m = n - 1 /\ IsFiniteSet(Live(slot) \ {i})
      BY <1>2, <2>1, FS_RemoveElement
    <3> QED
      BY <3>1, FS_CardinalityType
  <2>3. slotSize = n + 0
    BY <1>1, <1>7 DEF Layout, Stored, SizeOK
  <2>4. Cardinality(Live(slot)') = m
    BY <1>5
  <2> HIDE DEF n, m
  <2>5. slotSize = n /\ slotSize \in Nat /\ slotSize >= 1 /\ slotSize' = m
    BY <1>1, <2>1, <2>2, <2>3
  <2> QED
    BY <2>4, <2>5 DEF n
<1>9. TableOK'
  BY <1>1, <1>4, <1>7, <1>8 DEF Layout, Stored, TableOK
<1>10. HandOK'
  <2>1. slot'[i] = Raw
    BY <1>2, <1>4
  <2>2. hand' \in [target : 0..slotMask, at : 0..slotMask, elem : Element \cup {Raw}, ctrl : CtrlWord]
        /\ hand'.elem = Raw
    <3>1. 0 \in 0..slotMask /\ Raw \in Element \cup {Raw} /\ Empty \in CtrlWord
      BY <1>3, EmptyRange
    <3> QED
      BY <1>2, <1>6, <3>1
  <2> QED
    BY <1>1, <1>7, <2>1, <2>2 DEF HandOK
<1>11. SizeOK'
  <2>1. pending' = pending /\ pending = {} /\ Cardinality(pending) = 0
    BY <1>1, FS_EmptySet DEF Layout, Course, RehashOK, Moving, rehash
  <2>2. slotSize + Cardinality(pending) <= SlotCapacity /\ SlotCapacity \in Nat
    BY <1>1, <1>3, Shape DEF Layout, Stored, SizeOK
  <2> QED
    BY <1>1, <1>7, <1>8, <2>1, <2>2 DEF SizeOK
<1>12. ShapeOK' /\ HandInv'
  BY <1>1, ShapeStays DEF Layout, Stored, ShapeOK, HandInv
<1>13. OwnWords'
  BY <1>1, <1>4, <1>7 DEF Layout, Stored, OwnWords
<1>14. ReachInv'
  <2>1. \A j \in Live(slot)' : j \in Live(slot) /\ slot'[j] = slot[j]
    BY <1>3, <1>4, <1>5, Slots
  <2> QED
    BY <1>1, <1>7, <2>1 DEF Layout, Stored, ReachInv
<1>15. Course'
  BY <1>1, ErasingCourse DEF Layout
<1> QED
  BY <1>9, <1>10, <1>11, <1>12, <1>13, <1>14, <1>15 DEF Layout, Stored

(* The word behind the slot that an erasure is at is that of the slot after it. *)
LEMMA NextIs ==
  ASSUME TableOK, HandOK, ShapeOK, pc = "shift"
  PROVE  /\ hand.at \in 0..slotMask /\ slot[hand.at] = Raw /\ Vacant = {hand.at}
         /\ After(slotMask, hand.at) \in 0..slotMask /\ After(slotMask, hand.at) # hand.at
         /\ NextCtrl = ctrl[After(slotMask, hand.at)] /\ NextCtrl \in CtrlWord
<1>1. hand.at \in 0..slotMask /\ slot[hand.at] = Raw /\ Vacant = {hand.at}
  BY DEF HandOK, Vacant
<1>2. /\ slotMask \in Nat /\ slotMask >= 1 /\ SlotCapacity = slotMask + 1 /\ Shaped(ctrl)
      /\ GroupWidth \in Nat /\ GroupWidth >= 2
  BY Shape DEF ShapeOK
<1>3. After(slotMask, hand.at) \in 0..slotMask /\ After(slotMask, hand.at) # hand.at
  BY <1>1, <1>2 DEF After
<1>4. NextCtrl = ctrl[After(slotMask, hand.at)]
  <2>1. CASE hand.at = slotMask
    <3>1. ctrl[0 + SlotCapacity] = ctrl[0] /\ 0 + SlotCapacity = hand.at + 1
      BY <1>2, <2>1 DEF Shaped
    <3>2. 0 + SlotCapacity \in DOMAIN ctrl
      BY <1>2, Shape DEF Shaped
    <3> QED
      BY <2>1, <3>1, <3>2 DEF NextCtrl, CtrlAt, After
  <2>2. CASE hand.at # slotMask
    <3>1. hand.at + 1 \in 0..slotMask
      BY <1>1, <1>2, <2>2
    <3>2. hand.at + 1 \in DOMAIN ctrl
      BY <1>2, <3>1, WordIn
    <3> QED
      BY <2>2, <3>2 DEF NextCtrl, CtrlAt, After
  <2> QED
    BY <2>1, <2>2
<1> QED
  BY <1>1, <1>2, <1>3, <1>4, WordIn

(* An element moves one slot towards its home: those behind it were further from theirs than it is. *)
LEMMA ShiftNextLayout ==
  ASSUME Layout, ShiftNext
  PROVE  Layout'
<1> DEFINE at == hand.at
           nx == hand.at + 1
           d == NextCtrl.dist
<1>1. /\ pc = "shift" /\ at < slotMask /\ d > 0 /\ pc' = "shift"
      /\ ctrl' = SetCtrl(ctrl, at, DecDist(NextCtrl)) /\ hand' = [hand EXCEPT !.at = @ + 1]
      /\ UNCHANGED <<slotMask, slotSize, slotThreshold, mlf, call, probe, rehash>>
  BY DEF ShiftNext, Shifting, NotAtHome
<1>2. /\ TableOK /\ HandOK /\ OwnWords /\ ReachInv /\ Shaped(ctrl)
      /\ slot \in [0..slotMask -> Element \cup {Raw}] /\ slotMask \in Nat
  BY <1>1, Shape DEF Layout, Stored, TableOK, ShapeOK
<1>3. /\ at \in 0..slotMask /\ slot[at] = Raw /\ Vacant = {at} /\ nx \in 0..slotMask /\ nx # at
      /\ After(slotMask, at) = nx /\ NextCtrl = ctrl[nx] /\ NextCtrl \in CtrlWord
  <2>1. ShapeOK
    BY DEF Layout, Stored
  <2>2. at \in 0..slotMask /\ After(slotMask, at) = nx
    BY <1>1, <1>2, <2>1, NextIs DEF After
  <2> QED
    BY <1>1, <1>2, <2>1, <2>2, NextIs
<1> DEFINE e == slot[nx]
<1>4. Settled /\ Settled' /\ Carried = 0 /\ Carried' = 0 /\ SlotCapacity' = SlotCapacity
  BY <1>1, ShapeStays DEF Settled, Carried
<1>5. /\ nx \in Live(slot) /\ e \in Element /\ e.key \in Key /\ ctrl[nx] = WordOf(slotMask, nx, e)
      /\ d = Gap(slotMask, nx, e.key) /\ d \in 0..slotMask
  <2>1. nx \in (0..slotMask) \ Vacant /\ ctrl[nx].dist >= 0
    BY <1>1, <1>3 DEF CtrlWord
  <2>2. /\ nx \in Live(slot) /\ slot[nx] \in Element /\ slot[nx].key \in Key
        /\ ctrl[nx] = WordOf(slotMask, nx, slot[nx]) /\ ctrl[nx].dist = Gap(slotMask, nx, slot[nx].key)
    BY <1>2, <1>4, <2>1, UsedIsLive
  <2>3. Gap(slotMask, nx, slot[nx].key) \in 0..slotMask
    BY <1>2, <1>3, <2>2, GapRange
  <2> QED
    BY <1>3, <2>2, <2>3
<1>6. slot' = [slot EXCEPT ![at] = e, ![nx] = Raw]
  <2>1. Read(nx) = {e}
    BY <1>2, <1>3, <1>5, ElementRange DEF Read
  <2> QED
    BY <2>1 DEF ShiftNext
<1>7. /\ slot' \in [0..slotMask -> Element \cup {Raw}]
      /\ \A j \in 0..slotMask : slot'[j] = IF j = at THEN e ELSE IF j = nx THEN Raw ELSE slot[j]
  <2> HIDE DEF e, nx, at
  <2> QED
    BY <1>2, <1>3, <1>5, <1>6
<1>8. /\ Gap(slotMask, at, e.key) = d - 1 /\ DecDist(NextCtrl) = WordOf(slotMask, at, e)
      /\ DecDist(NextCtrl) \in CtrlWord /\ DecDist(NextCtrl).dist = d - 1
  <2>1. Gap(slotMask, at, e.key) \in 0..slotMask
    BY <1>2, <1>3, <1>5, GapRange
  <2>2. Gap(slotMask, at, e.key) = d - 1
    BY <1>1, <1>2, <1>3, <1>5, <2>1, GapAfter
  <2>3. NextCtrl.hash = CtrlHash[e.key]
    BY <1>3, <1>5 DEF WordOf, Ctrl
  <2>4. DecDist(NextCtrl) = WordOf(slotMask, at, e)
    BY <2>2, <2>3 DEF DecDist, WordOf
  <2>5. WordOf(slotMask, at, e) \in CtrlWord /\ WordOf(slotMask, at, e).dist = Gap(slotMask, at, e.key)
    BY <1>2, <1>3, <1>5, WordRange
  <2> QED
    BY <2>2, <2>4, <2>5
<1> DEFINE c == DecDist(NextCtrl)
<1>9. Shaped(ctrl') /\ \A j \in 0..slotMask : ctrl'[j] = IF j = at THEN c ELSE ctrl[j]
  <2> HIDE DEF c, at
  <2>1. ctrl' = SetCtrl(ctrl, at, c) /\ c \in CtrlWord /\ at \in 0..slotMask
    BY <1>1, <1>3, <1>8 DEF c, at
  <2> QED
    BY <1>2, <2>1, SetShaped
<1>10. hand' = [target |-> hand.target, at |-> nx, elem |-> Raw, ctrl |-> hand.ctrl]
       /\ hand.target \in 0..slotMask /\ hand.ctrl \in CtrlWord
  BY <1>1, <1>2 DEF HandOK
<1>11. Vacant' = {nx}
  BY <1>1, <1>10 DEF Vacant
<1>12. \A j \in 0..slotMask : ctrl[j].dist \in Int
  BY <1>2, WordIn
<1> HIDE DEF at, nx, d, e, c
<1>13. Live(slot)' = (Live(slot) \ {nx}) \cup {at} /\ at \notin Live(slot)
  <2>1. Live(slot)' = {j \in 0..slotMask : slot'[j] # Raw}
    BY <1>7 DEF Live
  <2>2. Live(slot) = {j \in 0..slotMask : slot[j] # Raw} /\ e # Raw
    BY <1>2, <1>5, Slots, ElementRange
  <2>3. at \notin Live(slot)
    BY <1>3, <2>2
  <2>4. ASSUME NEW j PROVE j \in Live(slot)' <=> j \in (Live(slot) \ {nx}) \cup {at}
    BY <1>3, <1>7, <2>1, <2>2
  <2> QED
    BY <2>3, <2>4
<1>14. Cardinality(Live(slot)') = Cardinality(Live(slot))
  <2> DEFINE A == Live(slot)
  <2>1. IsFiniteSet(A) /\ Cardinality(A) \in Nat
    BY <1>2, Slots
  <2>2. nx \in A /\ at \notin A \ {nx}
    BY <1>5, <1>13
  <2> HIDE DEF A
  <2>3. IsFiniteSet(A \ {nx}) /\ Cardinality(A \ {nx}) = Cardinality(A) - 1
    BY <2>1, <2>2, FS_RemoveElement
  <2>4. Cardinality((A \ {nx}) \cup {at}) = Cardinality(A \ {nx}) + 1
    BY <2>2, <2>3, FS_AddElement
  <2>5. Cardinality((A \ {nx}) \cup {at}) = Cardinality(A)
    BY <2>1, <2>3, <2>4
  <2> QED
    BY <1>13, <2>5 DEF A
<1>15. TableOK'
  <2>1. ctrl' \in [DOMAIN ctrl' -> CtrlWord]
    BY <1>9 DEF Shaped
  <2> QED
    BY <1>1, <1>2, <1>4, <1>7, <2>1 DEF TableOK
<1>16. HandOK'
  BY <1>1, <1>2, <1>3, <1>7, <1>10, <1>11 DEF HandOK
<1>17. SizeOK'
  <2>1. pending' = pending
    BY <1>1 DEF rehash
  <2> QED
    BY <1>1, <1>4, <1>14, <2>1 DEF Layout, Stored, SizeOK
<1>18. ShapeOK' /\ HandInv'
  BY <1>1, <1>9, ShapeStays DEF ShapeOK, HandInv
<1>19. OwnWords'
  <2>1. \A j \in (0..slotMask) \ {at} : ctrl[j] = IF slot[j] = Raw THEN Empty ELSE WordOf(slotMask, j, slot[j])
    BY <1>2, <1>3, <1>4 DEF OwnWords
  <2>2. e # Raw /\ c = WordOf(slotMask, at, e)
    BY <1>5, <1>8, ElementRange DEF c
  <2>3. \A j \in (0..slotMask) \ {nx} : ctrl'[j] = IF slot'[j] = Raw THEN Empty ELSE WordOf(slotMask, j, slot'[j])
    BY <1>7, <1>9, <2>1, <2>2
  <2> QED
    BY <1>1, <1>11, <2>3 DEF OwnWords
<1>20. ReachInv'
  <2> SUFFICES ASSUME NEW f \in Live(slot)' PROVE Along(ctrl', slotMask, f, slot'[f].key)
    BY <1>1 DEF ReachInv
  <2>1. f \in 0..slotMask
    BY <1>3, <1>13, <1>2, Slots
  <2>2. CASE f = at
    <3>1. slot'[f] = e /\ Along(ctrl, slotMask, nx, e.key)
      BY <1>2, <1>3, <1>4, <1>5, <1>7, <2>2 DEF ReachInv, e
    <3> SUFFICES ASSUME NEW j \in 0..slotMask, Gap(slotMask, j, e.key) < Gap(slotMask, at, e.key)
                 PROVE  ctrl'[j].dist >= Gap(slotMask, j, e.key)
      BY <2>2, <3>1 DEF Along
    <3>2. Gap(slotMask, j, e.key) \in 0..slotMask
      BY <1>2, <1>5, GapRange
    <3>3. j # at /\ Gap(slotMask, j, e.key) < Gap(slotMask, nx, e.key)
      BY <1>5, <1>8, <3>2
    <3> QED
      BY <1>9, <3>1, <3>3 DEF Along
  <2>3. CASE f # at
    <3>1. f \in Live(slot) /\ f # nx /\ slot'[f] = slot[f] /\ slot[f].key \in Key
      BY <1>2, <1>7, <1>13, <2>1, <2>3, Slots
    <3> DEFINE k == slot[f].key
    <3>2. Along(ctrl, slotMask, f, k) /\ k \in Key /\ slot'[f].key = k
      BY <1>2, <1>4, <3>1 DEF ReachInv
    <3> HIDE DEF k
    <3> SUFFICES ASSUME NEW j \in 0..slotMask, Gap(slotMask, j, k) < Gap(slotMask, f, k)
                 PROVE  ctrl'[j].dist >= Gap(slotMask, j, k)
      BY <3>2 DEF Along
    <3>3. CASE j # at
      BY <1>9, <3>2, <3>3 DEF Along
    <3>4. CASE j = at
      <4>1. Gap(slotMask, at, k) \in 0..slotMask /\ Gap(slotMask, f, k) \in 0..slotMask
            /\ Gap(slotMask, nx, k) # Gap(slotMask, f, k)
        BY <1>2, <1>3, <2>1, <3>1, <3>2, GapRange
      <4>2. Gap(slotMask, nx, k) = Gap(slotMask, at, k) + 1
        BY <1>2, <1>3, <3>2, <3>4, <4>1, GapAfter
      <4>3. Gap(slotMask, nx, k) < Gap(slotMask, f, k)
        BY <1>2, <3>4, <4>1, <4>2
      <4>4. ctrl[nx].dist >= Gap(slotMask, nx, k)
        BY <1>3, <3>2, <4>3 DEF Along
      <4>5. d = ctrl[nx].dist /\ ctrl'[at].dist = d - 1
        BY <1>3, <1>8, <1>9 DEF d, c
      <4> QED
        BY <1>5, <3>4, <4>1, <4>2, <4>4, <4>5
    <3> QED
      BY <3>3, <3>4
  <2> QED
    BY <2>2, <2>3
<1>21. Course'
  BY <1>1, ErasingCourse DEF Layout
<1> QED
  BY <1>15, <1>16, <1>17, <1>18, <1>19, <1>20, <1>21 DEF Layout, Stored

(* The shift comes to the end of the table while there is still an element to move. *)
LEMMA ShiftBehindLayout ==
  ASSUME Layout, ShiftBehindTable
  PROVE  Layout'
<1>1. pc = "shift" /\ pc' = "broken" /\ UNCHANGED <<slotMask, ctrl, slot, slotSize, slotThreshold, mlf, call, probe, hand, rehash>>
  BY DEF ShiftBehindTable, Shifting, table
<1>2. TableOK'
  BY <1>1, ShapeStays DEF Layout, Stored, TableOK
<1>3. HandOK'
  <2>1. Vacant' = {}
    BY <1>1 DEF Vacant
  <2> QED
    BY <1>1, <2>1 DEF Layout, Stored, HandOK
<1>4. Course'
  BY <1>1, ErasingCourse DEF Layout
<1> QED
  BY <1>1, <1>2, <1>3, <1>4 DEF Layout, Stored, SizeOK, ShapeOK, OwnWords, ReachInv, HandInv, Settled

(* No search goes on behind the slot that the shift ends at. *)
LEMMA ShiftDoneLayout ==
  ASSUME Layout, ShiftDone
  PROVE  Layout'
<1> DEFINE at == hand.at
           nx == After(slotMask, hand.at)
<1>1. /\ pc = "shift" /\ pc' = "done" /\ ~ (NextCtrl.dist > 0)
      /\ ctrl' = SetCtrl(ctrl, at, Empty) /\ hand' = NoHand
      /\ UNCHANGED <<slotMask, slot, slotSize, slotThreshold, mlf, call, probe, rehash>>
  BY DEF ShiftDone, NotAtHome
<1>2. /\ TableOK /\ HandOK /\ OwnWords /\ ReachInv /\ Shaped(ctrl) /\ ShapeOK /\ slotMask \in Nat
  BY <1>1, Shape DEF Layout, Stored, ShapeOK
<1>3. /\ at \in 0..slotMask /\ slot[at] = Raw /\ Vacant = {at} /\ nx \in 0..slotMask
      /\ NextCtrl = ctrl[nx] /\ NextCtrl \in CtrlWord
  BY <1>1, <1>2, NextIs
<1>4. /\ Settled /\ Settled' /\ Carried = 0 /\ Carried' = 0 /\ SlotCapacity' = SlotCapacity /\ Vacant' = {}
      /\ Live(slot)' = Live(slot)
  BY <1>1, ShapeStays DEF Settled, Carried, Vacant, Live
<1> HIDE DEF at, nx
<1>5. Shaped(ctrl') /\ \A j \in 0..slotMask : ctrl'[j] = IF j = at THEN Empty ELSE ctrl[j]
  <2>1. ctrl' = SetCtrl(ctrl, at, Empty) /\ Empty \in CtrlWord /\ at \in 0..slotMask
    BY <1>1, <1>3, EmptyRange DEF at
  <2> QED
    BY <1>2, <2>1, SetShaped
<1>6. TableOK'
  <2>1. ctrl' \in [DOMAIN ctrl' -> CtrlWord]
    BY <1>5 DEF Shaped
  <2> QED
    BY <1>1, <1>2, <1>4, <2>1 DEF TableOK
<1>7. HandOK'
  BY <1>1, <1>2, <1>4, EmptyRange DEF HandOK, NoHand
<1>8. SizeOK'
  <2>1. pending' = pending
    BY <1>1 DEF rehash
  <2> QED
    BY <1>1, <1>4, <2>1 DEF Layout, Stored, SizeOK
<1>9. ShapeOK' /\ HandInv'
  BY <1>1, <1>5, ShapeStays DEF ShapeOK, HandInv
<1>10. OwnWords'
  <2>1. \A j \in (0..slotMask) \ {at} : ctrl[j] = IF slot[j] = Raw THEN Empty ELSE WordOf(slotMask, j, slot[j])
    BY <1>2, <1>3, <1>4 DEF OwnWords
  <2>2. \A j \in 0..slotMask : ctrl'[j] = IF slot[j] = Raw THEN Empty ELSE WordOf(slotMask, j, slot[j])
    BY <1>3, <1>5, <2>1
  <2> QED
    BY <1>1, <1>4, <2>2 DEF OwnWords
<1>11. ReachInv'
  <2> SUFFICES ASSUME NEW f \in Live(slot) PROVE Along(ctrl', slotMask, f, slot[f].key)
    BY <1>1, <1>4 DEF ReachInv
  <2> DEFINE k == slot[f].key
  <2>1. f \in 0..slotMask /\ f # at /\ k \in Key /\ Along(ctrl, slotMask, f, k)
    BY <1>2, <1>3, <1>4, Slots DEF ReachInv
  <2>2. ctrl[f].dist = Gap(slotMask, f, k)
    BY <1>2, <1>3, <1>4, <2>1, UsedIsLive
  <2> HIDE DEF k
  <2> SUFFICES ASSUME NEW j \in 0..slotMask, Gap(slotMask, j, k) < Gap(slotMask, f, k)
               PROVE  ctrl'[j].dist >= Gap(slotMask, j, k)
    BY DEF Along, k
  <2>3. CASE j # at
    BY <1>5, <2>1, <2>3 DEF Along
  <2>4. CASE j = at
    <3>1. /\ Gap(slotMask, at, k) \in 0..slotMask /\ Gap(slotMask, f, k) \in 0..slotMask
          /\ Gap(slotMask, nx, k) = Gap(slotMask, f, k) => nx = f
      BY <1>2, <1>3, <2>1, GapRange
    <3>2. Gap(slotMask, nx, k) = Gap(slotMask, at, k) + 1
      BY <1>2, <1>3, <2>1, <2>4, <3>1, GapAfter DEF nx, at
    <3>3. ctrl[nx].dist >= Gap(slotMask, nx, k)
      <4>1. CASE nx = f
        BY <2>2, <3>1, <4>1
      <4>2. CASE nx # f
        <5>1. Gap(slotMask, nx, k) < Gap(slotMask, f, k)
          BY <2>4, <3>1, <3>2, <4>2
        <5> QED
          BY <1>3, <2>1, <5>1 DEF Along
      <4> QED
        BY <4>1, <4>2
    <3>4. ctrl[nx].dist \in Int /\ ~ (ctrl[nx].dist > 0)
      BY <1>1, <1>3 DEF CtrlWord
    <3> QED
      BY <3>1, <3>2, <3>3, <3>4
  <2> QED
    BY <2>3, <2>4
<1>12. Course'
  BY <1>1, ErasingCourse DEF Layout
<1> QED
  BY <1>6, <1>7, <1>8, <1>9, <1>10, <1>11, <1>12 DEF Layout, Stored

-----------------------------------------------------------------------------
(* Insertion *)

(* A search that passes a slot comes to the slot after it. *)
LEMMA AlongAfter ==
  ASSUME NEW mask \in Nat, NEW words, NEW i \in 0..mask, NEW k \in Key, Along(words, mask, i, k),
         words[i].dist >= Gap(mask, i, k), Gap(mask, i, k) < mask
  PROVE  Along(words, mask, After(mask, i), k)
<1>1. Gap(mask, After(mask, i), k) = Gap(mask, i, k) + 1
  BY GapAfter
<1> SUFFICES ASSUME NEW j \in 0..mask, Gap(mask, j, k) < Gap(mask, i, k) + 1
             PROVE  words[j].dist >= Gap(mask, j, k)
  BY <1>1 DEF Along
<1>2. Gap(mask, j, k) \in 0..mask /\ Gap(mask, i, k) \in 0..mask
  BY GapRange
<1>3. CASE Gap(mask, j, k) < Gap(mask, i, k)
  BY <1>3 DEF Along
<1>4. CASE Gap(mask, j, k) = Gap(mask, i, k)
  <2>1. j = i
    BY <1>4, GapRange
  <2> QED
    BY <2>1
<1> QED
  BY <1>2, <1>3, <1>4

(* How far a slot is behind another one. *)
LEMMA FromRange ==
  ASSUME NEW mask \in Nat, NEW i \in 0..mask
  PROVE  /\ \A j \in 0..mask : From(mask, i, j) \in 0..mask /\ (From(mask, i, j) = 0 <=> j = i)
         /\ \A j \in 0..mask, l \in 0..mask : From(mask, i, j) = From(mask, i, l) => j = l
         /\ \A j \in 0..mask : /\ After(mask, j) \in 0..mask
                               /\ From(mask, i, j) < mask => From(mask, i, After(mask, j)) = From(mask, i, j) + 1
                               /\ From(mask, i, j) = mask => After(mask, j) = i
<1>1. \A j : From(mask, i, j) = IF j >= i THEN j - i ELSE j + (mask + 1) - i
  BY DEF From
<1>2. \A j : After(mask, j) = IF j = mask THEN 0 ELSE j + 1
  BY DEF After
<1> QED
  BY <1>1, <1>2

(* What is placed next is not counted yet, and what is pending still fits in. *)
LEMMA PlacedCourse ==
  ASSUME Layout, Placed, pc \in {"room", "place", "displace"}, slotSize < SlotCapacity
  PROVE  /\ Course' /\ pc' \in {"rehash", "done"} /\ hand' = NoHand
         /\ slotSize' = slotSize + 1 /\ UNCHANGED <<slotMask, slotThreshold>>
         /\ slotSize' + Cardinality(pending)' <= SlotCapacity
<1>1. /\ slotSize' = slotSize + 1 /\ hand' = NoHand
      /\ UNCHANGED <<slotMask, slotThreshold, mlf, call, probe, resume>>
  BY DEF Placed
<1>2. slotSize \in Nat /\ SlotCapacity \in Nat /\ slotSize + Cardinality(pending) <= SlotCapacity
  BY Shape DEF Layout, Stored, TableOK, SizeOK
<1>3. CASE Moving
  <2>1. /\ old' = [old EXCEPT ![NextPending] = Raw] /\ pending' = pending \ {NextPending} /\ pc' = "rehash"
    BY <1>3 DEF Placed
  <2>2. NextPending \in pending /\ NextPending \in DOMAIN old
    BY <1>3, NextIsElement DEF Layout, Course
  <2> HIDE DEF NextPending
  <2>3. Cardinality(pending') = Cardinality(pending) - 1 /\ IsFiniteSet(pending') /\ Cardinality(pending) \in Nat
    <3>1. IsFiniteSet(pending) /\ Cardinality(pending) \in Nat
      BY FS_CardinalityType DEF Layout, Course, RehashOK
    <3> QED
      BY <2>1, <2>2, <3>1, FS_RemoveElement
  <2>4. slotSize' + Cardinality(pending)' <= SlotCapacity
    <3> DEFINE n == Cardinality(pending)
               m == Cardinality(pending')
    <3>1. m = n - 1 /\ n \in Nat /\ slotSize + n <= SlotCapacity
      BY <1>2, <2>3
    <3> HIDE DEF n, m
    <3>2. slotSize' + m <= SlotCapacity
      BY <1>1, <1>2, <3>1
    <3> QED
      BY <3>2 DEF m
  <2>5. RehashOK'
    <3>1. old \in [DOMAIN old -> Element \cup {Raw}] /\ DOMAIN old \subseteq Nat
          /\ pending = {i \in DOMAIN old : old[i] # Raw} /\ resume \in {"walk", "done"}
      BY DEF Layout, Course, RehashOK, Live
    <3>2. /\ DOMAIN old' = DOMAIN old /\ old' \in [DOMAIN old' -> Element \cup {Raw}]
          /\ \A i \in DOMAIN old : old'[i] = IF i = NextPending THEN Raw ELSE old[i]
      BY <2>1, <2>2, <3>1
    <3>3. Live(old)' = {i \in DOMAIN old : old'[i] # Raw}
      BY <3>2 DEF Live
    <3>4. pending' = Live(old)'
      BY <2>1, <3>1, <3>2, <3>3
    <3> QED
      BY <1>1, <2>1, <2>3, <3>1, <3>2, <3>4 DEF RehashOK
  <2>6. ControlOK'
    BY <1>1, <2>1 DEF Layout, Course, ControlOK
  <2>7. ProbeOK' /\ WalkInv'
    BY <1>1, <2>1 DEF Layout, Course, ProbeOK, WalkInv
  <2> QED
    BY <1>1, <2>1, <2>4, <2>5, <2>6, <2>7 DEF Course
<1>4. CASE ~ Moving
  <2>1. pc' = "done" /\ UNCHANGED <<old, pending>> /\ pending = {} /\ old = NoOld /\ resume = "done"
    BY <1>4 DEF Placed, Done, Moving, Layout, Course, RehashOK
  <2>2. Cardinality(pending') = 0
    BY <2>1, FS_EmptySet
  <2>3. RehashOK'
    BY <1>1, <1>4, <2>1 DEF Layout, Course, RehashOK, Moving, Live
  <2>4. ControlOK'
    BY <1>1, <2>1 DEF Layout, Course, ControlOK
  <2>5. ProbeOK' /\ WalkInv'
    BY <1>1, <2>1 DEF Layout, Course, ProbeOK, WalkInv
  <2> QED
    BY <1>1, <1>2, <2>1, <2>2, <2>3, <2>4, <2>5 DEF Course
<1> QED
  BY <1>3, <1>4

(* Where an insertion or a move puts its element: at the distance it has come, which is no further round
   the table than there are slots, because one of them is empty. *)
LEMMA TargetIs ==
  ASSUME Layout, AtTarget
  PROVE  /\ Settled /\ Vacant = {} /\ slotSize < SlotCapacity /\ Carried = 0 /\ pc \in {"room", "place"}
         /\ probe.key \in Key /\ NewElement \in Element /\ probe.key = NewElement.key
         /\ Target \in 0..slotMask /\ ctrl[Target].dist < Gap(slotMask, Target, probe.key)
         /\ Along(ctrl, slotMask, Target, probe.key)
         /\ NewCtrl = WordOf(slotMask, Target, NewElement)
         /\ \E e \in 0..slotMask : ctrl[e] = Empty
<1>1. pc \in {"room", "place"} /\ Settled /\ Vacant = {} /\ Carried = 0
  BY DEF AtTarget, Settled, Vacant, Carried
<1>2. /\ TableOK /\ ShapeOK /\ OwnWords /\ SizeOK /\ HandOK /\ ProbeOK /\ WalkInv
      /\ slotMask \in Nat /\ SlotCapacity = slotMask + 1 /\ slotSize \in Nat /\ slotThreshold \in 0..slotMask
  BY Shape DEF Layout, Stored, Course, TableOK
<1>3. NewElement \in Element /\ probe.key = NewElement.key /\ probe.key \in Key /\ probe.dist \in 0..SlotCapacity
  <2>1. NewElement \in Element /\ probe.key = NewElement.key /\ probe.dist \in Nat /\ probe.dist <= SlotCapacity
    BY <1>1, <1>2 DEF ProbeOK
  <2> QED
    BY <1>2, <2>1, ElementRange
<1>4. slotSize < SlotCapacity
  <2>1. CASE pc = "room"
    BY <1>2, <2>1 DEF AtTarget, NeedGrow
  <2>2. CASE pc = "place"
    <3>1. pending # {} /\ IsFiniteSet(pending)
      BY <2>2 DEF Layout, Course, RehashOK, Moving
    <3>2. Cardinality(pending) \in Nat /\ Cardinality(pending) # 0
      BY <3>1, FS_CardinalityType, FS_EmptySet
    <3>3. slotSize + Cardinality(pending) <= SlotCapacity
      BY <1>2, <2>2 DEF SizeOK
    <3> QED
      BY <1>2, <3>2, <3>3
  <2> QED
    BY <1>1, <2>1, <2>2
<1>5. PICK e \in 0..slotMask : ctrl[e] = Empty
  BY <1>1, <1>2, <1>4, SomeEmpty
<1>6. /\ Target = Spot(slotMask, probe.key, probe.dist) /\ Target \in 0..slotMask /\ Here = ctrl[Target]
  BY <1>1, <1>2, <1>3, WalkIsAt
<1>7. ctrl[Target].dist \in Int
  BY <1>1, <1>2, <1>6, WordIn DEF ShapeOK
<1>8. ctrl[Target].dist < probe.dist
  <2>1. CASE pc = "room"
    BY <1>2, <1>6, <2>1 DEF WalkInv
  <2>2. CASE pc = "place"
    BY <1>3, <1>6, <1>7, <2>2 DEF AtTarget, AtChainEnd, InChain
  <2> QED
    BY <1>1, <2>1, <2>2
<1>9. \A j \in 0..slotMask : Gap(slotMask, j, probe.key) < probe.dist => ctrl[j].dist >= Gap(slotMask, j, probe.key)
  BY <1>1, <1>2 DEF WalkInv
<1>10. probe.dist \in 0..slotMask
  <2>1. Gap(slotMask, e, probe.key) \in 0..slotMask
    BY <1>2, <1>3, <1>5, GapRange
  <2>2. ~ (Gap(slotMask, e, probe.key) < probe.dist)
    BY <1>5, <1>9, <2>1, EmptyRange
  <2> QED
    BY <1>2, <1>3, <2>1, <2>2
<1>11. Gap(slotMask, Target, probe.key) = probe.dist
  BY <1>2, <1>3, <1>6, <1>10, GapSpot
<1>12. Along(ctrl, slotMask, Target, probe.key)
  BY <1>9, <1>11 DEF Along
<1>13. NewCtrl = WordOf(slotMask, Target, NewElement)
  <2>1. RoundIndex(probe.dist) = probe.dist
    BY <1>2, <1>10, RoundRange
  <2>2. probe.dist % SlotCapacity = probe.dist
    BY <2>1 DEF RoundIndex
  <2> QED
    BY <1>3, <1>11, <2>2 DEF NewCtrl, WordOf
<1> QED
  BY <1>1, <1>3, <1>4, <1>5, <1>6, <1>8, <1>11, <1>12, <1>13

(* The element is put into an empty slot. *)
LEMMA PlaceInEmptyLayout ==
  ASSUME Layout, PlaceInEmpty
  PROVE  Layout'
<1> DEFINE t == Target
           c == NewCtrl
           new == NewElement
<1>1. /\ AtTarget /\ ctrl[t] = Empty /\ ctrl' = SetCtrl(ctrl, t, c) /\ slot' = [slot EXCEPT ![t] = new] /\ Placed
  BY DEF PlaceInEmpty
<1>2. /\ Settled /\ Vacant = {} /\ slotSize < SlotCapacity /\ Carried = 0 /\ pc \in {"room", "place"}
      /\ probe.key \in Key /\ new \in Element /\ probe.key = new.key /\ t \in 0..slotMask
      /\ Along(ctrl, slotMask, t, new.key) /\ c = WordOf(slotMask, t, new)
  BY <1>1, TargetIs
<1>3. /\ Course' /\ pc' \in {"rehash", "done"} /\ hand' = NoHand
      /\ slotSize' = slotSize + 1 /\ UNCHANGED <<slotMask, slotThreshold>>
      /\ slotSize' + Cardinality(pending)' <= SlotCapacity
  BY <1>1, <1>2, PlacedCourse
<1> HIDE DEF t, c, new
<1>4. /\ TableOK /\ HandOK /\ SizeOK /\ OwnWords /\ ReachInv /\ Shaped(ctrl) /\ slotMask \in Nat
      /\ slot \in [0..slotMask -> Element \cup {Raw}] /\ slotSize \in Nat
      /\ slotMask \in Nat /\ SlotCapacity = slotMask + 1
  BY <1>2, Shape DEF Layout, Stored, ShapeOK, TableOK, Settled
<1>5. c \in CtrlWord /\ c.dist \in 0..slotMask /\ new # Raw
  BY <1>2, <1>4, WordRange, ElementRange
<1>6. Shaped(ctrl') /\ \A j \in 0..slotMask : ctrl'[j] = IF j = t THEN c ELSE ctrl[j]
  <2>1. ctrl' = SetCtrl(ctrl, t, c) /\ c \in CtrlWord /\ t \in 0..slotMask
    BY <1>1, <1>2, <1>5
  <2> QED
    BY <1>4, <2>1, SetShaped
<1>7. /\ slot' \in [0..slotMask -> Element \cup {Raw}]
      /\ \A j \in 0..slotMask : slot'[j] = IF j = t THEN new ELSE slot[j]
  BY <1>1, <1>2, <1>4
<1>8. t \notin Live(slot)
  BY <1>1, <1>2, <1>4, UsedIsLive
<1>9. Live(slot)' = Live(slot) \cup {t}
  <2>1. Live(slot)' = {j \in 0..slotMask : slot'[j] # Raw}
    BY <1>7 DEF Live
  <2> QED
    BY <1>2, <1>4, <1>5, <1>7, <2>1, Slots
<1>10. Vacant' = {} /\ Carried' = 0 /\ Settled' /\ SlotCapacity' = SlotCapacity
  BY <1>3, ShapeStays DEF Vacant, Carried, Settled
<1>11. \A j \in 0..slotMask : /\ ctrl[j].dist \in Int /\ ctrl'[j].dist \in Int
                              /\ ctrl'[j].dist >= ctrl[j].dist
  <2> SUFFICES ASSUME NEW j \in 0..slotMask
               PROVE  ctrl[j].dist \in Int /\ ctrl'[j].dist \in Int /\ ctrl'[j].dist >= ctrl[j].dist
    OBVIOUS
  <2>1. ctrl[j].dist \in Int
    BY <1>4, WordIn
  <2> QED
    BY <1>1, <1>5, <1>6, <2>1, EmptyRange
<1>12. TableOK'
  <2>1. ctrl' \in [DOMAIN ctrl' -> CtrlWord]
    BY <1>6 DEF Shaped
  <2>2. slotSize' \in Nat
    BY <1>3, <1>4
  <2> QED
    BY <1>3, <1>4, <1>7, <1>10, <2>1, <2>2 DEF TableOK
<1>13. HandOK'
  <2>1. 0 \in 0..slotMask
    BY <1>4
  <2> QED
    BY <1>3, <1>10, <2>1, EmptyRange DEF HandOK, NoHand
<1>14. SizeOK'
  <2> DEFINE n == Cardinality(Live(slot))
             m == Cardinality(Live(slot)')
  <2>1. m = n + 1 /\ n \in Nat
    <3>1. IsFiniteSet(Live(slot)) /\ n \in Nat
      BY <1>4, Slots
    <3> QED
      BY <1>8, <1>9, <3>1, FS_AddElement
  <2>2. slotSize = n + 0
    BY <1>2, <1>4 DEF SizeOK, Settled
  <2> HIDE DEF n, m
  <2>3. slotSize' = m + 0
    BY <1>3, <2>1, <2>2
  <2> QED
    BY <1>3, <1>10, <2>3 DEF SizeOK, m
<1>15. ShapeOK' /\ HandInv'
  BY <1>3, <1>6, ShapeStays DEF ShapeOK, HandInv
<1>16. OwnWords'
  <2>1. \A j \in 0..slotMask : ctrl[j] = IF slot[j] = Raw THEN Empty ELSE WordOf(slotMask, j, slot[j])
    BY <1>2, <1>4 DEF OwnWords
  <2>2. \A j \in 0..slotMask : ctrl'[j] = IF slot'[j] = Raw THEN Empty ELSE WordOf(slotMask, j, slot'[j])
    BY <1>2, <1>5, <1>6, <1>7, <2>1
  <2> QED
    BY <1>3, <1>10, <2>2 DEF OwnWords
<1>17. ReachInv'
  <2> SUFFICES ASSUME NEW f \in Live(slot)' PROVE Along(ctrl', slotMask, f, slot'[f].key)
    BY <1>3 DEF ReachInv
  <2>1. f \in 0..slotMask /\ slot'[f].key \in Key /\ Along(ctrl, slotMask, f, slot'[f].key)
    <3>1. CASE f = t
      BY <1>2, <1>7, <3>1
    <3>2. CASE f # t
      <4>1. f \in Live(slot)
        BY <1>9, <3>2
      <4> QED
        BY <1>2, <1>4, <1>7, <3>2, <4>1, Slots DEF ReachInv
    <3> QED
      BY <3>1, <3>2
  <2> QED
    BY <1>4, <1>11, <2>1, WordsRaised
<1> QED
  BY <1>3, <1>12, <1>13, <1>14, <1>15, <1>16, <1>17 DEF Layout, Stored

(* The element that was in the target is carried on. *)
LEMMA DisplaceLayout ==
  ASSUME Layout, Displace
  PROVE  Layout'
<1> DEFINE t == Target
           c == NewCtrl
           e == slot[Target]
           nx == After(slotMask, Target)
<1>1. /\ AtTarget /\ ctrl[t] # Empty /\ ctrl' = SetCtrl(ctrl, t, c) /\ slot' = [slot EXCEPT ![t] = Raw]
      /\ pc' = "displace" /\ UNCHANGED <<slotMask, slotSize, slotThreshold, mlf, call, probe, old, pending, resume>>
  BY DEF Displace, rehash
<1>2. /\ Settled /\ Vacant = {} /\ slotSize < SlotCapacity /\ Carried = 0 /\ pc \in {"room", "place"}
      /\ probe.key \in Key /\ NewElement \in Element /\ probe.key = NewElement.key /\ t \in 0..slotMask
      /\ ctrl[t].dist < Gap(slotMask, t, probe.key)
      /\ Along(ctrl, slotMask, t, probe.key) /\ c = WordOf(slotMask, t, NewElement)
      /\ \E x \in 0..slotMask : ctrl[x] = Empty
  BY <1>1, TargetIs
<1>3. /\ TableOK /\ HandOK /\ SizeOK /\ OwnWords /\ ReachInv /\ Shaped(ctrl)
      /\ slotMask \in Nat /\ SlotCapacity = slotMask + 1 /\ slotMask >= 1
      /\ slot \in [0..slotMask -> Element \cup {Raw}] /\ slotSize \in Nat
  BY <1>2, Shape DEF Layout, Stored, ShapeOK, TableOK, Settled
<1>4. /\ t \in Live(slot) /\ e \in Element /\ e.key \in Key /\ ctrl[t] = WordOf(slotMask, t, e)
      /\ ctrl[t].dist = Gap(slotMask, t, e.key) /\ Along(ctrl, slotMask, t, e.key)
  <2>1. /\ t \in Live(slot) /\ e \in Element /\ e.key \in Key /\ ctrl[t] = WordOf(slotMask, t, e)
        /\ ctrl[t].dist = Gap(slotMask, t, e.key)
    BY <1>1, <1>2, <1>3, UsedIsLive
  <2> QED
    BY <1>2, <1>3, <2>1 DEF ReachInv
<1>5. /\ Gap(slotMask, t, e.key) < slotMask /\ nx \in 0..slotMask /\ nx # t
      /\ Gap(slotMask, nx, e.key) = Gap(slotMask, t, e.key) + 1
  BY <1>1, <1>2, <1>3, <1>4, NotAround, GapAfter
<1>6. hand' = [target |-> t, at |-> nx, elem |-> e, ctrl |-> WordOf(slotMask, nx, e)]
  <2>1. Read(t) = {e}
    BY <1>2, <1>3, <1>4, ElementRange DEF Read
  <2>2. IncDist(ctrl[t]) = WordOf(slotMask, nx, e)
    BY <1>4, <1>5 DEF IncDist, WordOf, Ctrl
  <2>3. RoundIndex(t + 1) = nx
    BY <1>2, <1>3, <1>4, OnCircle
  <2>4. hand' = [target |-> t, at |-> RoundIndex(t + 1), elem |-> e, ctrl |-> IncDist(ctrl[t])]
    BY <2>1 DEF Displace
  <2> QED
    BY <2>2, <2>3, <2>4
<1>7. c \in CtrlWord /\ c # Empty /\ c.dist = Gap(slotMask, t, probe.key) /\ c.dist \in 0..slotMask
      /\ WordOf(slotMask, nx, e) \in CtrlWord
  <2>1. nx \in 0..slotMask /\ e \in Element /\ NewElement \in Element /\ t \in 0..slotMask
    BY <1>2, <1>4, <1>5
  <2> HIDE DEF nx, e, t, c
  <2> QED
    BY <1>2, <1>3, <2>1, WordRange
<1> HIDE DEF t, c, e, nx
<1>8. Shaped(ctrl') /\ \A j \in 0..slotMask : ctrl'[j] = IF j = t THEN c ELSE ctrl[j]
  <2>1. ctrl' = SetCtrl(ctrl, t, c) /\ c \in CtrlWord /\ t \in 0..slotMask
    BY <1>1, <1>2, <1>7
  <2> QED
    BY <1>3, <2>1, SetShaped
<1>9. /\ slot' \in [0..slotMask -> Element \cup {Raw}]
      /\ \A j \in 0..slotMask : slot'[j] = IF j = t THEN Raw ELSE slot[j]
  BY <1>1, <1>2, <1>3
<1>10. Live(slot)' = Live(slot) \ {t}
  <2>1. Live(slot)' = {j \in 0..slotMask : slot'[j] # Raw}
    BY <1>9 DEF Live
  <2> QED
    BY <1>3, <1>9, <2>1, Slots
<1>11. Vacant' = {t} /\ Carried' = 1 /\ Settled' /\ SlotCapacity' = SlotCapacity /\ hand'.target = t
       /\ hand'.at = nx /\ hand'.elem = e /\ hand'.ctrl = WordOf(slotMask, nx, e)
  <2>1. hand'.target = t
    BY <1>6
  <2> QED
    BY <1>1, <1>6, <2>1, ShapeStays DEF Vacant, Carried, Settled
<1>12. NewElement' = NewElement /\ Moving' = Moving
  BY <1>1 DEF NewElement, Moving, NextPending
<1>13. \A j \in 0..slotMask : /\ ctrl[j].dist \in Int /\ ctrl'[j].dist \in Int
                              /\ ctrl'[j].dist >= ctrl[j].dist
  <2> SUFFICES ASSUME NEW j \in 0..slotMask
               PROVE  ctrl[j].dist \in Int /\ ctrl'[j].dist \in Int /\ ctrl'[j].dist >= ctrl[j].dist
    OBVIOUS
  <2>1. ctrl[j].dist \in Int
    BY <1>3, WordIn
  <2>2. CASE j # t
    BY <1>8, <2>1, <2>2
  <2>3. CASE j = t
    <3>1. ctrl'[t].dist = c.dist /\ ctrl[t].dist < c.dist /\ c.dist \in Int
      BY <1>2, <1>7, <1>8
    <3> QED
      BY <2>1, <2>3, <3>1
  <2> QED
    BY <2>2, <2>3
<1>14. TableOK'
  <2>1. ctrl' \in [DOMAIN ctrl' -> CtrlWord]
    BY <1>8 DEF Shaped
  <2> QED
    BY <1>1, <1>3, <1>9, <1>11, <2>1 DEF TableOK
<1>15. HandOK'
  <2>1. slot'[t] = Raw
    BY <1>2, <1>9
  <2>2. hand' \in [target : 0..slotMask, at : 0..slotMask, elem : Element \cup {Raw}, ctrl : CtrlWord]
    BY <1>2, <1>4, <1>5, <1>6, <1>7
  <2> QED
    BY <1>1, <1>4, <1>5, <1>11, <2>1, <2>2 DEF HandOK
<1>16. SizeOK'
  <2> DEFINE n == Cardinality(Live(slot))
             m == Cardinality(Live(slot)')
  <2>1. m = n - 1 /\ n \in Nat
    <3>1. IsFiniteSet(Live(slot)) /\ n \in Nat
      BY <1>3, Slots
    <3> QED
      BY <1>4, <1>10, <3>1, FS_RemoveElement
  <2>2. slotSize = n + 0 /\ slotSize + Cardinality(pending) <= SlotCapacity
    BY <1>2, <1>3 DEF SizeOK, Settled
  <2> HIDE DEF n, m
  <2>3. slotSize' = m + 1
    BY <1>1, <1>3, <2>1, <2>2
  <2> QED
    BY <1>1, <1>2, <1>11, <2>2, <2>3 DEF SizeOK, m
<1>17. ShapeOK'
  BY <1>1, <1>8, ShapeStays DEF ShapeOK
<1>18. OwnWords'
  <2>1. \A j \in 0..slotMask : ctrl[j] = IF slot[j] = Raw THEN Empty ELSE WordOf(slotMask, j, slot[j])
    BY <1>2, <1>3 DEF OwnWords
  <2>2. \A j \in (0..slotMask) \ {t} : ctrl'[j] = IF slot'[j] = Raw THEN Empty ELSE WordOf(slotMask, j, slot'[j])
    BY <1>8, <1>9, <2>1
  <2>3. ctrl'[t] = WordOf(slotMask, t, NewElement)
    BY <1>2, <1>8
  <2> QED
    BY <1>1, <1>11, <1>12, <2>2, <2>3 DEF OwnWords
<1>19. ReachInv'
  <2> SUFFICES ASSUME NEW f \in Live(slot)' PROVE Along(ctrl', slotMask, f, slot'[f].key)
    BY <1>1 DEF ReachInv
  <2>1. f \in 0..slotMask /\ slot'[f].key \in Key /\ Along(ctrl, slotMask, f, slot'[f].key)
    <3>1. f \in Live(slot) /\ f # t
      BY <1>10
    <3> QED
      BY <1>2, <1>3, <1>9, <3>1, Slots DEF ReachInv
  <2> QED
    BY <1>3, <1>13, <2>1, WordsRaised
<1>20. HandInv'
  <2>1. Along(ctrl', slotMask, t, e.key) /\ Along(ctrl', slotMask, t, probe.key)
    <3>1. \A k \in Key : Along(ctrl, slotMask, t, k) => Along(ctrl', slotMask, t, k)
      BY <1>2, <1>3, <1>13, WordsRaised
    <3> QED
      BY <1>2, <1>4, <3>1
  <2>2. Along(ctrl', slotMask, nx, e.key)
    <3>1. ctrl'[t].dist >= Gap(slotMask, t, e.key)
      BY <1>2, <1>4, <1>13
    <3> QED
      BY <1>2, <1>3, <1>4, <1>5, <2>1, <3>1, AlongAfter DEF nx, t
  <2>3. ASSUME NEW j \in 0..slotMask, From(slotMask, t, j) < From(slotMask, t, nx) PROVE ctrl'[j] # Empty
    <3>1. From(slotMask, t, t) = 0 /\ From(slotMask, t, j) \in 0..slotMask /\ (From(slotMask, t, j) = 0 <=> j = t)
      BY <1>2, <1>3, FromRange
    <3>2. From(slotMask, t, nx) = 1
      <4>1. nx = After(slotMask, t) /\ From(slotMask, t, t) < slotMask
        BY <1>3, <3>1 DEF nx, t
      <4>2. From(slotMask, t, After(slotMask, t)) = From(slotMask, t, t) + 1
        BY <1>2, <1>3, <4>1, FromRange
      <4> QED
        BY <3>1, <4>1, <4>2
    <3>3. j = t
      BY <1>3, <2>3, <3>1, <3>2
    <3> QED
      BY <1>7, <1>8, <3>3
  <2> QED
    BY <1>1, <1>11, <2>1, <2>2, <2>3 DEF HandInv
<1>21. Course'
  <2>1. ControlOK'
    BY <1>1, <1>2, <1>12 DEF Layout, Course, ControlOK, RehashOK
  <2>2. ProbeOK' /\ WalkInv'
    BY <1>1, <1>2, <1>12 DEF Layout, Course, ProbeOK, WalkInv
  <2>3. RehashOK'
    <3>1. Live(old)' = Live(old)
      BY <1>1 DEF Live
    <3> QED
      BY <1>1, <1>2, <1>12, <3>1 DEF Layout, Course, RehashOK
  <2> QED
    BY <2>1, <2>2, <2>3 DEF Course
<1> QED
  BY <1>14, <1>15, <1>16, <1>17, <1>18, <1>19, <1>20, <1>21 DEF Layout, Stored

(* What is known while an element is carried. *)
LEMMA HandIs ==
  ASSUME Layout, pc = "displace"
  PROVE  /\ TableOK /\ HandOK /\ SizeOK /\ OwnWords /\ ReachInv /\ HandInv /\ Shaped(ctrl) /\ Settled
         /\ slotMask \in Nat /\ SlotCapacity = slotMask + 1 /\ slotSize \in Nat
         /\ slot \in [0..slotMask -> Element \cup {Raw}]
         /\ hand \in [target : 0..slotMask, at : 0..slotMask, elem : Element \cup {Raw}, ctrl : CtrlWord]
         /\ hand.at \in 0..slotMask /\ hand.target \in 0..slotMask /\ hand.at # hand.target
         /\ Vacant = {hand.target} /\ slot[hand.target] = Raw /\ Carried = 1
         /\ hand.elem \in Element /\ hand.elem.key \in Key /\ hand.ctrl = WordOf(slotMask, hand.at, hand.elem)
         /\ hand.ctrl.dist = Gap(slotMask, hand.at, hand.elem.key) /\ hand.ctrl.dist \in 0..slotMask
         /\ hand.ctrl \in CtrlWord /\ hand.ctrl # Empty
         /\ NewElement \in Element /\ probe.key = NewElement.key /\ probe.key \in Key
         /\ ctrl[hand.target] = WordOf(slotMask, hand.target, NewElement) /\ ctrl[hand.target] # Empty
         /\ Along(ctrl, slotMask, hand.at, hand.elem.key) /\ Along(ctrl, slotMask, hand.target, probe.key)
         /\ slotSize < SlotCapacity
<1>1. /\ TableOK /\ HandOK /\ SizeOK /\ OwnWords /\ ReachInv /\ HandInv /\ Shaped(ctrl) /\ Settled
      /\ slotMask \in Nat /\ SlotCapacity = slotMask + 1 /\ slotSize \in Nat
      /\ slot \in [0..slotMask -> Element \cup {Raw}]
  BY Shape DEF Layout, Stored, ShapeOK, TableOK, Settled
<1>2. /\ hand \in [target : 0..slotMask, at : 0..slotMask, elem : Element \cup {Raw}, ctrl : CtrlWord]
      /\ hand.elem \in Element /\ hand.at # hand.target /\ Vacant = {hand.target} /\ slot[hand.target] = Raw
      /\ Carried = 1 /\ slotSize < SlotCapacity
  BY <1>1 DEF HandOK, Vacant, Carried, SizeOK
<1>3. hand.at \in 0..slotMask /\ hand.target \in 0..slotMask /\ hand.ctrl \in CtrlWord
  BY <1>2
<1>4. NewElement \in Element /\ probe.key = NewElement.key
  BY DEF Layout, Course, ProbeOK
<1>5. /\ hand.ctrl = WordOf(slotMask, hand.at, hand.elem)
      /\ ctrl[hand.target] = WordOf(slotMask, hand.target, NewElement)
  BY <1>1 DEF OwnWords
<1>6. /\ hand.ctrl.dist = Gap(slotMask, hand.at, hand.elem.key) /\ hand.ctrl.dist \in 0..slotMask
      /\ hand.ctrl # Empty
  BY <1>1, <1>2, <1>3, <1>5, WordRange
<1>7. ctrl[hand.target] # Empty
  BY <1>1, <1>3, <1>4, <1>5, WordRange
<1>8. Along(ctrl, slotMask, hand.at, hand.elem.key) /\ Along(ctrl, slotMask, hand.target, probe.key)
  BY <1>1 DEF HandInv
<1>9. hand.elem.key \in Key /\ probe.key \in Key
  BY <1>2, <1>4, ElementRange
<1> QED
  BY <1>1, <1>2, <1>3, <1>4, <1>5, <1>6, <1>7, <1>8, <1>9

(* The element that is carried comes to an empty slot, and the new one is put into the target. *)
LEMMA PutDownLayout ==
  ASSUME Layout, PutDown
  PROVE  Layout'
<1> DEFINE at == hand.at
           t == hand.target
           c == hand.ctrl
           e == hand.elem
           new == NewElement
<1>1. /\ pc = "displace" /\ ctrl[at] = Empty /\ ctrl' = SetCtrl(ctrl, at, c) /\ Placed
      /\ slot' = [slot EXCEPT ![at] = e, ![t] = new]
  BY DEF PutDown
<1>2. /\ TableOK /\ HandOK /\ SizeOK /\ OwnWords /\ ReachInv /\ HandInv /\ Shaped(ctrl) /\ Settled
      /\ slotMask \in Nat /\ SlotCapacity = slotMask + 1 /\ slotSize \in Nat
      /\ slot \in [0..slotMask -> Element \cup {Raw}]
      /\ at \in 0..slotMask /\ t \in 0..slotMask /\ at # t
      /\ Vacant = {t} /\ slot[t] = Raw /\ Carried = 1
      /\ e \in Element /\ e.key \in Key /\ c = WordOf(slotMask, at, e)
      /\ c.dist \in 0..slotMask /\ c \in CtrlWord
      /\ new \in Element /\ probe.key = new.key /\ new.key \in Key
      /\ ctrl[t] = WordOf(slotMask, t, new)
      /\ Along(ctrl, slotMask, at, e.key) /\ Along(ctrl, slotMask, t, new.key)
      /\ slotSize < SlotCapacity
  BY <1>1, HandIs
<1>3. /\ Course' /\ pc' \in {"rehash", "done"} /\ hand' = NoHand
      /\ slotSize' = slotSize + 1 /\ UNCHANGED <<slotMask, slotThreshold>>
      /\ slotSize' + Cardinality(pending)' <= SlotCapacity
  BY <1>1, <1>2, PlacedCourse
<1> HIDE DEF at, t, c, e, new
<1>4. Shaped(ctrl') /\ \A j \in 0..slotMask : ctrl'[j] = IF j = at THEN c ELSE ctrl[j]
  <2>1. ctrl' = SetCtrl(ctrl, at, c) /\ c \in CtrlWord /\ at \in 0..slotMask
    BY <1>1, <1>2
  <2> QED
    BY <1>2, <2>1, SetShaped
<1>5. /\ slot' \in [0..slotMask -> Element \cup {Raw}]
      /\ \A j \in 0..slotMask : slot'[j] = IF j = t THEN new ELSE IF j = at THEN e ELSE slot[j]
  BY <1>1, <1>2
<1>6. e # Raw /\ new # Raw
  BY <1>2, ElementRange
<1>7. at \notin Live(slot) /\ t \notin Live(slot)
  <2>1. at \notin Live(slot)
    BY <1>1, <1>2, UsedIsLive
  <2> QED
    BY <1>2, <2>1, Slots
<1>8. Live(slot)' = (Live(slot) \cup {at}) \cup {t}
  <2>1. Live(slot)' = {j \in 0..slotMask : slot'[j] # Raw}
    BY <1>5 DEF Live
  <2>2. Live(slot) = {j \in 0..slotMask : slot[j] # Raw}
    BY <1>2, Slots
  <2>3. ASSUME NEW j PROVE j \in Live(slot)' <=> j \in (Live(slot) \cup {at}) \cup {t}
    BY <1>2, <1>5, <1>6, <2>1, <2>2
  <2> QED
    BY <2>3
<1>9. Vacant' = {} /\ Carried' = 0 /\ Settled' /\ SlotCapacity' = SlotCapacity
  BY <1>3, ShapeStays DEF Vacant, Carried, Settled
<1>10. \A j \in 0..slotMask : /\ ctrl[j].dist \in Int /\ ctrl'[j].dist \in Int
                              /\ ctrl'[j].dist >= ctrl[j].dist
  <2> SUFFICES ASSUME NEW j \in 0..slotMask
               PROVE  ctrl[j].dist \in Int /\ ctrl'[j].dist \in Int /\ ctrl'[j].dist >= ctrl[j].dist
    OBVIOUS
  <2>1. ctrl[j].dist \in Int
    BY <1>2, WordIn
  <2>2. CASE j # at
    BY <1>4, <2>1, <2>2
  <2>3. CASE j = at
    <3>1. ctrl'[at] = c /\ ctrl[at].dist = -1 /\ c.dist \in 0..slotMask
      BY <1>1, <1>2, <1>4, EmptyRange
    <3> QED
      BY <2>3, <3>1
  <2> QED
    BY <2>2, <2>3
<1>11. TableOK'
  <2>1. ctrl' \in [DOMAIN ctrl' -> CtrlWord]
    BY <1>4 DEF Shaped
  <2>2. slotSize' \in Nat
    BY <1>2, <1>3
  <2> QED
    BY <1>2, <1>3, <1>5, <1>9, <2>1, <2>2 DEF TableOK
<1>12. HandOK'
  <2>1. 0 \in 0..slotMask
    BY <1>2
  <2> QED
    BY <1>3, <1>9, <2>1, EmptyRange DEF HandOK, NoHand
<1>13. SizeOK'
  <2> DEFINE A == Live(slot)
             n == Cardinality(A)
             m == Cardinality((A \cup {at}) \cup {t})
  <2>1. m = n + 2 /\ n \in Nat
    <3>1. IsFiniteSet(A) /\ n \in Nat
      BY <1>2, Slots
    <3>2. at \notin A /\ t \notin A \cup {at}
      BY <1>2, <1>7
    <3> HIDE DEF A
    <3>3. IsFiniteSet(A \cup {at}) /\ Cardinality(A \cup {at}) = n + 1
      BY <3>1, <3>2, FS_AddElement
    <3>4. m = Cardinality(A \cup {at}) + 1
      BY <3>2, <3>3, FS_AddElement
    <3> QED
      BY <3>1, <3>3, <3>4
  <2>2. slotSize = n + 1
    BY <1>2 DEF SizeOK, Settled
  <2>3. Cardinality(Live(slot)') = m
    BY <1>8
  <2> HIDE DEF n, m
  <2>4. slotSize' = m + 0
    BY <1>3, <2>1, <2>2
  <2> QED
    BY <1>3, <1>9, <2>3, <2>4 DEF SizeOK
<1>14. ShapeOK' /\ HandInv'
  BY <1>3, <1>4, ShapeStays DEF ShapeOK, HandInv
<1>15. OwnWords'
  <2>1. \A j \in (0..slotMask) \ {t} : ctrl[j] = IF slot[j] = Raw THEN Empty ELSE WordOf(slotMask, j, slot[j])
    BY <1>2 DEF OwnWords
  <2>2. \A j \in 0..slotMask : ctrl'[j] = IF slot'[j] = Raw THEN Empty ELSE WordOf(slotMask, j, slot'[j])
    BY <1>2, <1>4, <1>5, <1>6, <2>1
  <2> QED
    BY <1>3, <1>9, <2>2 DEF OwnWords
<1>16. ReachInv'
  <2> SUFFICES ASSUME NEW f \in Live(slot)' PROVE Along(ctrl', slotMask, f, slot'[f].key)
    BY <1>3 DEF ReachInv
  <2>1. f \in 0..slotMask /\ slot'[f].key \in Key /\ Along(ctrl, slotMask, f, slot'[f].key)
    <3>1. CASE f = t
      BY <1>2, <1>5, <3>1
    <3>2. CASE f = at
      BY <1>2, <1>5, <3>2
    <3>3. CASE f # t /\ f # at
      <4>1. f \in Live(slot)
        BY <1>8, <3>3
      <4> QED
        BY <1>2, <1>5, <3>3, <4>1, Slots DEF ReachInv
    <3> QED
      BY <3>1, <3>2, <3>3
  <2> QED
    BY <1>2, <1>10, <2>1, WordsRaised
<1> QED
  BY <1>3, <1>11, <1>12, <1>13, <1>14, <1>15, <1>16 DEF Layout, Stored

(* What becomes of the words and the slots where the element that is carried is taken for another one
   or passes: words that let every search pass which passed, and slots with the same elements but one. *)
PassedOn(words, slots, e, c) ==
    /\ Shaped(words)
    /\ \A j \in 0..slotMask : /\ words[j].dist >= ctrl[j].dist
                              /\ words[j] = Empty <=> ctrl[j] = Empty
    /\ slots \in [0..slotMask -> Element \cup {Raw}]
    /\ \A j \in 0..slotMask : slots[j] = Raw <=> slot[j] = Raw
    /\ \A j \in (0..slotMask) \ {hand.target} :
          words[j] = IF slots[j] = Raw THEN Empty ELSE WordOf(slotMask, j, slots[j])
    /\ words[hand.target] = ctrl[hand.target]
    /\ \A j \in Live(slots) : Along(words, slotMask, j, slots[j].key)
    /\ e \in Element /\ c = WordOf(slotMask, After(slotMask, hand.at), e)
    /\ Along(words, slotMask, After(slotMask, hand.at), e.key)

(* The element gives up and is put back into the target, or is carried on to the next slot. *)
PassedTo(words, slots, e, c) ==
    \/ /\ ~ Moving /\ pc' = "retry" /\ hand' = NoHand
       /\ ctrl' = SetCtrl(words, hand.target, c)
       /\ slot' = [slots EXCEPT ![hand.target] = e]
    \/ /\ pc' = "displace" /\ ctrl' = words /\ slot' = slots
       /\ hand' = [hand EXCEPT !.at = After(slotMask, hand.at), !.elem = e, !.ctrl = c]

(* The carried element does not come round to the target, so that only a long chain makes it give up. *)
LEMMA PassOnIs ==
  ASSUME Layout, PassOn
  PROVE  /\ pc = "displace" /\ After(slotMask, hand.at) # hand.target
         /\ After(slotMask, hand.at) \in 0..slotMask
         /\ From(slotMask, hand.target, After(slotMask, hand.at)) = From(slotMask, hand.target, hand.at) + 1
         /\ ctrl[hand.at] # Empty
         /\ UNCHANGED <<slotMask, slotSize, slotThreshold, mlf, call, probe, old, pending, resume>>
         /\ \E words, slots, e, c : PassedOn(words, slots, e, c) /\ PassedTo(words, slots, e, c)
<1> DEFINE at == hand.at
           t == hand.target
           nx == After(slotMask, at)
           swaps == IsPoorerThan(ctrl[at])
           w == ctrl[at]
           here == slot[at]
           e == IF swaps THEN here ELSE hand.elem
           c == IncDist(IF swaps THEN w ELSE hand.ctrl)
           words == IF swaps THEN SetCtrl(ctrl, at, hand.ctrl) ELSE ctrl
           slots == IF swaps THEN [slot EXCEPT ![at] = hand.elem] ELSE slot
           gaveUp == GaveUp(c, RoundIndex(at + 1))
<1>1. pc = "displace" /\ w # Empty /\ UNCHANGED <<slotMask, slotSize, slotThreshold, mlf, call, probe, old, pending, resume>>
  BY DEF PassOn, rehash
<1>2. /\ TableOK /\ HandOK /\ SizeOK /\ OwnWords /\ ReachInv /\ HandInv /\ Shaped(ctrl) /\ Settled
      /\ slotMask \in Nat /\ SlotCapacity = slotMask + 1 /\ slotSize \in Nat
      /\ slot \in [0..slotMask -> Element \cup {Raw}]
      /\ at \in 0..slotMask /\ t \in 0..slotMask /\ at # t
      /\ Vacant = {t} /\ slot[t] = Raw /\ ctrl[t] # Empty
      /\ hand.elem \in Element /\ hand.elem.key \in Key /\ hand.ctrl = WordOf(slotMask, at, hand.elem)
      /\ hand.ctrl.dist = Gap(slotMask, at, hand.elem.key) /\ hand.ctrl.dist \in 0..slotMask
      /\ hand.ctrl \in CtrlWord /\ hand.ctrl # Empty
      /\ Along(ctrl, slotMask, at, hand.elem.key)
  BY <1>1, HandIs
<1>3. PICK x \in 0..slotMask : ctrl[x] = Empty /\ x \notin Vacant
  BY <1>1, <1>2, SomeEmpty
<1>4. /\ at \in Live(slot) /\ here \in Element /\ here.key \in Key /\ here # Raw
      /\ w = WordOf(slotMask, at, here) /\ w.dist = Gap(slotMask, at, here.key)
      /\ Along(ctrl, slotMask, at, here.key)
  <2>1. /\ at \in Live(slot) /\ here \in Element /\ here.key \in Key
        /\ w = WordOf(slotMask, at, here) /\ w.dist = Gap(slotMask, at, here.key)
    BY <1>1, <1>2, UsedIsLive
  <2> QED
    BY <1>2, <2>1, ElementRange DEF ReachInv
<1>5. RoundIndex(at + 1) = nx
  BY <1>2, OnCircle
<1>6. nx # t /\ nx \in 0..slotMask /\ From(slotMask, t, nx) = From(slotMask, t, at) + 1
  <2>1. From(slotMask, t, at) \in 0..slotMask /\ From(slotMask, t, x) \in 0..slotMask
        /\ From(slotMask, t, at) # From(slotMask, t, x)
    <3>1. at # x
      BY <1>1, <1>3
    <3> QED
      BY <1>2, <1>3, <3>1, FromRange
  <2>2. ~ (From(slotMask, t, x) < From(slotMask, t, at))
    BY <1>1, <1>2, <1>3 DEF HandInv
  <2>3. From(slotMask, t, at) < slotMask
    BY <1>2, <2>1, <2>2
  <2>4. nx \in 0..slotMask /\ From(slotMask, t, nx) = From(slotMask, t, at) + 1
    BY <1>2, <2>3, FromRange
  <2>5. From(slotMask, t, t) = 0
    BY <1>2, FromRange
  <2> QED
    BY <2>1, <2>4, <2>5
<1>7. /\ ctrl' = IF gaveUp THEN SetCtrl(words, t, c) ELSE words
      /\ slot' = IF gaveUp THEN [slots EXCEPT ![t] = e] ELSE slots
      /\ hand' = IF gaveUp THEN NoHand ELSE [hand EXCEPT !.at = nx, !.elem = e, !.ctrl = c]
      /\ pc' = IF gaveUp THEN "retry" ELSE "displace"
  <2>1. Read(at) = {here}
    BY <1>2, <1>4 DEF Read
  <2>2. /\ ctrl' = IF gaveUp THEN SetCtrl(words, t, c) ELSE words
        /\ slot' = IF gaveUp THEN [slots EXCEPT ![t] = e] ELSE slots
        /\ hand' = IF gaveUp THEN NoHand ELSE [hand EXCEPT !.at = RoundIndex(at + 1), !.elem = e, !.ctrl = c]
        /\ pc' = IF gaveUp THEN "retry" ELSE pc
    BY <2>1 DEF PassOn
  <2> QED
    BY <1>1, <1>5, <2>2
<1>8. gaveUp => ~ Moving
  BY <1>5, <1>6 DEF GaveUp
<1> HIDE DEF gaveUp
<1>9. swaps <=> hand.ctrl.dist > w.dist
  BY DEF IsPoorerThan
<1>10. w.dist \in 0..slotMask
  <2>1. w.dist = Gap(slotMask, at, here.key) /\ here.key \in Key /\ at \in 0..slotMask /\ slotMask \in Nat
    BY <1>2, <1>4
  <2> HIDE DEF w, at, here
  <2> QED
    BY <2>1, GapRange
<1>11. e \in Element /\ e.key \in Key /\ Along(ctrl, slotMask, at, e.key)
       /\ c = IncDist(WordOf(slotMask, at, e))
  BY <1>2, <1>4
<1>12. words[at] # Empty /\ words[at].dist >= Gap(slotMask, at, e.key)
       /\ Shaped(words) /\ \A j \in 0..slotMask : words[j] = IF swaps /\ j = at THEN hand.ctrl ELSE ctrl[j]
  <2>1. CASE swaps
    <3>1. Shaped(words) /\ \A j \in 0..slotMask : words[j] = IF j = at THEN hand.ctrl ELSE ctrl[j]
      <4>1. words = SetCtrl(ctrl, at, hand.ctrl) /\ hand.ctrl \in CtrlWord /\ at \in 0..slotMask
        BY <1>2, <2>1
      <4> HIDE DEF words, swaps, at
      <4> QED
        BY <1>2, <4>1, SetShaped
    <3>2. words[at] = hand.ctrl /\ e = here
      BY <1>2, <2>1, <3>1
    <3>3. hand.ctrl.dist >= Gap(slotMask, at, here.key)
      BY <1>2, <1>4, <1>9, <1>10, <2>1
    <3> HIDE DEF words, swaps, e, here
    <3> QED
      BY <1>2, <2>1, <3>1, <3>2, <3>3
  <2>2. CASE ~ swaps
    <3>1. words = ctrl /\ e = hand.elem
      BY <2>2
    <3>2. w.dist >= Gap(slotMask, at, hand.elem.key)
      BY <1>2, <1>9, <1>10, <2>2
    <3> HIDE DEF words, swaps, e
    <3> QED
      BY <1>1, <1>2, <2>2, <3>1, <3>2
  <2> QED
    BY <2>1, <2>2
<1>13. slots \in [0..slotMask -> Element \cup {Raw}]
       /\ \A j \in 0..slotMask : slots[j] = IF swaps /\ j = at THEN hand.elem ELSE slot[j]
  <2> HIDE DEF swaps, at
  <2> QED
    BY <1>2
<1> HIDE DEF words, slots, e, c
<1>14. Gap(slotMask, at, e.key) < slotMask /\ Gap(slotMask, nx, e.key) = Gap(slotMask, at, e.key) + 1
  BY <1>1, <1>2, <1>3, <1>11, NotAround
<1>15. c = WordOf(slotMask, nx, e)
  BY <1>11, <1>14 DEF IncDist, WordOf, Ctrl
<1>16. \A j \in 0..slotMask : /\ ctrl[j].dist \in Int /\ words[j].dist \in Int
                              /\ words[j].dist >= ctrl[j].dist /\ (words[j] = Empty <=> ctrl[j] = Empty)
  <2> SUFFICES ASSUME NEW j \in 0..slotMask
               PROVE  /\ ctrl[j].dist \in Int /\ words[j].dist \in Int
                      /\ words[j].dist >= ctrl[j].dist /\ (words[j] = Empty <=> ctrl[j] = Empty)
    OBVIOUS
  <2>1. ctrl[j].dist \in Int
    BY <1>2, WordIn
  <2>2. CASE ~ (swaps /\ j = at)
    BY <1>12, <2>1, <2>2
  <2>3. CASE swaps /\ j = at
    <3>1. words[j] = hand.ctrl /\ ctrl[j] = w /\ hand.ctrl.dist > w.dist
      BY <1>9, <1>12, <2>3
    <3> QED
      BY <1>1, <1>2, <1>10, <3>1
  <2> QED
    BY <2>2, <2>3
<1>17. \A j \in 0..slotMask : slots[j] = Raw <=> slot[j] = Raw
  <2>1. hand.elem # Raw
    BY <1>2, ElementRange
  <2> QED
    BY <1>4, <1>13, <2>1
<1>18. \A j \in (0..slotMask) \ {t} : words[j] = IF slots[j] = Raw THEN Empty ELSE WordOf(slotMask, j, slots[j])
  <2>1. \A j \in (0..slotMask) \ {t} : ctrl[j] = IF slot[j] = Raw THEN Empty ELSE WordOf(slotMask, j, slot[j])
    BY <1>2 DEF OwnWords
  <2>2. hand.elem # Raw
    BY <1>2, ElementRange
  <2> HIDE DEF swaps
  <2> QED
    BY <1>2, <1>12, <1>13, <2>1, <2>2
<1>19. words[t] = ctrl[t]
  BY <1>2, <1>12
<1>20. \A j \in Live(slots) : Along(words, slotMask, j, slots[j].key)
  <2> SUFFICES ASSUME NEW j \in Live(slots) PROVE Along(words, slotMask, j, slots[j].key)
    OBVIOUS
  <2>1. j \in 0..slotMask /\ slots[j] # Raw
    BY <1>13 DEF Live
  <2>2. j \in Live(slot)
    BY <1>2, <1>17, <2>1, Slots
  <2>3. slots[j].key \in Key /\ Along(ctrl, slotMask, j, slots[j].key)
    <3>1. CASE swaps /\ j = at
      BY <1>2, <1>13, <2>1, <3>1
    <3>2. CASE ~ (swaps /\ j = at)
      BY <1>2, <1>13, <2>1, <2>2, <3>2, Slots DEF ReachInv
    <3> QED
      BY <3>1, <3>2
  <2> QED
    BY <1>2, <1>16, <2>1, <2>3, WordsRaised
<1>21. Along(words, slotMask, nx, e.key)
  <2>1. Along(words, slotMask, at, e.key)
    BY <1>2, <1>11, <1>16, WordsRaised
  <2> QED
    BY <1>2, <1>11, <1>12, <1>14, <2>1, AlongAfter
<1>22. PassedOn(words, slots, e, c)
  BY <1>11, <1>12, <1>13, <1>15, <1>16, <1>17, <1>18, <1>19, <1>20, <1>21 DEF PassedOn
<1>23. \/ /\ ~ Moving /\ pc' = "retry" /\ hand' = NoHand
          /\ ctrl' = SetCtrl(words, t, c) /\ slot' = [slots EXCEPT ![t] = e]
       \/ /\ pc' = "displace" /\ ctrl' = words /\ slot' = slots
          /\ hand' = [hand EXCEPT !.at = nx, !.elem = e, !.ctrl = c]
  BY <1>7, <1>8
<1>24. PassedTo(words, slots, e, c)
  BY <1>23 DEF PassedTo
<1>25. \E words2, slots2, e2, c2 : PassedOn(words2, slots2, e2, c2) /\ PassedTo(words2, slots2, e2, c2)
  BY <1>22, <1>24
<1> QED
  BY <1>1, <1>6, <1>25

(* The element goes on to the next slot, or back to the target with its word. *)
LEMMA PassOnLayout ==
  ASSUME Layout, PassOn
  PROVE  Layout'
<1> DEFINE at == hand.at
           t == hand.target
           nx == After(slotMask, hand.at)
<1>1. /\ pc = "displace" /\ nx # t /\ nx \in 0..slotMask /\ ctrl[at] # Empty
      /\ From(slotMask, t, nx) = From(slotMask, t, at) + 1
      /\ UNCHANGED <<slotMask, slotSize, slotThreshold, mlf, call, probe, old, pending, resume>>
  BY PassOnIs
<1>2a. PICK words, slots, e, c : PassedOn(words, slots, e, c) /\ PassedTo(words, slots, e, c)
  BY PassOnIs
<1>2. /\ PassedOn(words, slots, e, c)
      /\ \/ /\ ~ Moving /\ pc' = "retry" /\ hand' = NoHand
            /\ ctrl' = SetCtrl(words, t, c) /\ slot' = [slots EXCEPT ![t] = e]
         \/ /\ pc' = "displace" /\ ctrl' = words /\ slot' = slots
            /\ hand' = [hand EXCEPT !.at = nx, !.elem = e, !.ctrl = c]
  BY <1>2a DEF PassedTo
<1>3. /\ TableOK /\ HandOK /\ SizeOK /\ OwnWords /\ ReachInv /\ HandInv /\ Shaped(ctrl) /\ Settled
      /\ slotMask \in Nat /\ SlotCapacity = slotMask + 1 /\ slotSize \in Nat
      /\ slot \in [0..slotMask -> Element \cup {Raw}]
      /\ hand \in [target : 0..slotMask, at : 0..slotMask, elem : Element \cup {Raw}, ctrl : CtrlWord]
      /\ at \in 0..slotMask /\ t \in 0..slotMask
      /\ Vacant = {t} /\ slot[t] = Raw /\ ctrl[t] # Empty /\ Carried = 1
      /\ NewElement \in Element /\ probe.key = NewElement.key /\ probe.key \in Key
      /\ ctrl[t] = WordOf(slotMask, t, NewElement)
      /\ Along(ctrl, slotMask, t, probe.key) /\ slotSize < SlotCapacity
  BY <1>1, HandIs
<1>4. /\ Shaped(words) /\ slots \in [0..slotMask -> Element \cup {Raw}]
      /\ \A j \in 0..slotMask : words[j].dist >= ctrl[j].dist /\ (words[j] = Empty <=> ctrl[j] = Empty)
      /\ \A j \in 0..slotMask : slots[j] = Raw <=> slot[j] = Raw
      /\ \A j \in (0..slotMask) \ {t} : words[j] = IF slots[j] = Raw THEN Empty ELSE WordOf(slotMask, j, slots[j])
      /\ words[t] = ctrl[t]
      /\ \A j \in Live(slots) : Along(words, slotMask, j, slots[j].key)
      /\ e \in Element /\ c = WordOf(slotMask, nx, e) /\ Along(words, slotMask, nx, e.key)
  BY <1>2 DEF PassedOn
<1> HIDE DEF at, t, nx
<1>5. c \in CtrlWord /\ c # Empty /\ e # Raw
  BY <1>1, <1>3, <1>4, WordRange, ElementRange
<1>6. Live(slots) = Live(slot) /\ t \notin Live(slot)
  <2>1. Live(slots) = {j \in 0..slotMask : slots[j] # Raw}
    BY <1>4 DEF Live
  <2> QED
    BY <1>3, <1>4, <2>1, Slots
<1>7. SlotCapacity' = SlotCapacity /\ NewElement' = NewElement /\ Moving' = Moving /\ Live(old)' = Live(old)
  BY <1>1, ShapeStays DEF NewElement, Moving, NextPending, Live
<1> DEFINE n == Cardinality(Live(slot))
<1>8. slotSize = n + 1 /\ slotSize + Cardinality(pending) <= SlotCapacity /\ n \in Nat
      /\ IsFiniteSet(Live(slot))
  BY <1>3, Slots DEF SizeOK, Settled
<1>9. CASE pc' = "retry" /\ ~ Moving /\ hand' = NoHand /\ ctrl' = SetCtrl(words, t, c) /\ slot' = [slots EXCEPT ![t] = e]
  <2>1. Shaped(ctrl') /\ \A j \in 0..slotMask : ctrl'[j] = IF j = t THEN c ELSE words[j]
    <3>1. ctrl' = SetCtrl(words, t, c) /\ c \in CtrlWord /\ t \in 0..slotMask /\ Shaped(words) /\ TableOK
      BY <1>3, <1>4, <1>5, <1>9
    <3> QED
      BY <3>1, SetShaped
  <2>2. /\ slot' \in [0..slotMask -> Element \cup {Raw}]
        /\ \A j \in 0..slotMask : slot'[j] = IF j = t THEN e ELSE slots[j]
    BY <1>3, <1>4, <1>9
  <2>3. Live(slot)' = Live(slot) \cup {t}
    <3>1. Live(slot)' = {j \in 0..slotMask : slot'[j] # Raw}
      BY <2>2 DEF Live
    <3>2. Live(slot) = {j \in 0..slotMask : slot[j] # Raw}
      BY <1>3, Slots
    <3>3. ASSUME NEW j PROVE j \in Live(slot)' <=> j \in Live(slot) \cup {t}
      BY <1>3, <1>4, <1>5, <2>2, <3>1, <3>2
    <3> QED
      BY <3>3
  <2>4. Vacant' = {} /\ Carried' = 0 /\ ~ Settled'
    BY <1>9 DEF Vacant, Carried, Settled
  <2>5. TableOK'
    <3>1. ctrl' \in [DOMAIN ctrl' -> CtrlWord]
      BY <2>1 DEF Shaped
    <3> QED
      BY <1>1, <1>3, <1>7, <2>2, <3>1 DEF TableOK
  <2>6. HandOK'
    <3>1. 0 \in 0..slotMask
      BY <1>3
    <3> QED
      BY <1>1, <1>9, <2>4, <3>1, EmptyRange DEF HandOK, NoHand
  <2>7. SizeOK'
    <3> DEFINE m == Cardinality(Live(slot)')
    <3>1. m = n + 1
      BY <1>6, <1>8, <2>3, FS_AddElement
    <3> HIDE DEF n, m
    <3>2. slotSize' = m + 0
      BY <1>1, <1>8, <3>1
    <3> QED
      BY <1>1, <1>7, <1>8, <1>9, <2>4, <3>2 DEF SizeOK, m
  <2>8. ShapeOK' /\ HandInv' /\ ReachInv'
    BY <1>1, <1>9, <2>1, <2>4, ShapeStays DEF ShapeOK, HandInv, ReachInv
  <2>9. OwnWords'
    <3>1. \A j \in 0..slotMask : ctrl'[j] = Empty <=> slot'[j] = Raw
      <4> SUFFICES ASSUME NEW j \in 0..slotMask PROVE ctrl'[j] = Empty <=> slot'[j] = Raw
        OBVIOUS
      <4>1. CASE j = t
        BY <1>5, <2>1, <2>2, <4>1
      <4>2. CASE j # t
        <5>1. slots[j] # Raw => slots[j] \in Element
          BY <1>4
        <5>2. slots[j] # Raw => WordOf(slotMask, j, slots[j]) # Empty
          BY <1>3, <5>1, WordRange
        <5> QED
          BY <1>4, <2>1, <2>2, <4>2, <5>2
      <4> QED
        BY <4>1, <4>2
    <3> QED
      BY <1>1, <1>9, <2>4, <3>1 DEF OwnWords
  <2>10. Course'
    <3>1. ControlOK'
      BY <1>1, <1>9 DEF Layout, Course, ControlOK
    <3>2. ProbeOK' /\ WalkInv'
      BY <1>1, <1>9 DEF Layout, Course, ProbeOK, WalkInv
    <3>3. RehashOK'
      BY <1>1, <1>7, <1>9 DEF Layout, Course, RehashOK
    <3> QED
      BY <3>1, <3>2, <3>3 DEF Course
  <2> QED
    BY <2>5, <2>6, <2>7, <2>8, <2>9, <2>10 DEF Layout, Stored
<1>10. CASE pc' = "displace" /\ ctrl' = words /\ slot' = slots /\ hand' = [hand EXCEPT !.at = nx, !.elem = e, !.ctrl = c]
  <2>1. hand' = [target |-> t, at |-> nx, elem |-> e, ctrl |-> c]
    BY <1>3, <1>10 DEF t
  <2>2. hand'.target = t /\ hand'.at = nx /\ hand'.elem = e /\ hand'.ctrl = c
        /\ hand' \in [target : 0..slotMask, at : 0..slotMask, elem : Element \cup {Raw}, ctrl : CtrlWord]
    BY <1>1, <1>3, <1>4, <1>5, <2>1
  <2>3. Vacant' = {t} /\ Carried' = 1 /\ Settled' /\ Live(slot)' = Live(slot)
    BY <1>6, <1>10, <2>2 DEF Vacant, Carried, Settled, Live
  <2>4. TableOK'
    <3>1. ctrl' \in [DOMAIN ctrl' -> CtrlWord]
      BY <1>4, <1>10 DEF Shaped
    <3> QED
      BY <1>1, <1>3, <1>4, <1>7, <1>10, <3>1 DEF TableOK
  <2>5. HandOK'
    <3>1. slot'[t] = Raw
      BY <1>3, <1>4, <1>10
    <3> QED
      BY <1>1, <1>4, <1>10, <2>2, <2>3, <3>1 DEF HandOK
  <2>6. SizeOK'
    <3>1. slotSize' = Cardinality(Live(slot)') + 1
      BY <1>1, <1>8, <2>3
    <3> QED
      BY <1>1, <1>3, <1>7, <1>8, <2>3, <3>1 DEF SizeOK
  <2>7. ShapeOK'
    BY <1>1, <1>4, <1>10, ShapeStays DEF ShapeOK
  <2>8. OwnWords'
    BY <1>1, <1>3, <1>4, <1>7, <1>10, <2>2, <2>3 DEF OwnWords
  <2>9. ReachInv'
    BY <1>1, <1>4, <1>6, <1>10, <2>3 DEF ReachInv
  <2>10. HandInv'
    <3>1. Along(words, slotMask, t, probe.key)
      <4>1. \A j \in 0..slotMask : ctrl[j].dist \in Int /\ words[j].dist \in Int
        BY <1>3, <1>4, WordIn
      <4> QED
        BY <1>3, <1>4, <4>1, WordsRaised
    <3>2. ASSUME NEW j \in 0..slotMask, From(slotMask, t, j) < From(slotMask, t, nx) PROVE words[j] # Empty
      <4>1. From(slotMask, t, j) \in 0..slotMask /\ From(slotMask, t, at) \in 0..slotMask
            /\ (From(slotMask, t, j) = From(slotMask, t, at) => j = at)
        <5>1. slotMask \in Nat /\ t \in 0..slotMask /\ at \in 0..slotMask
          BY <1>3
        <5> QED
          BY <5>1, FromRange
      <4>2. From(slotMask, t, j) < From(slotMask, t, at) => ctrl[j] # Empty
        BY <1>1, <1>3 DEF HandInv, t, at
      <4>3. CASE j = at
        BY <1>1, <1>4, <4>3
      <4>4. CASE j # at
        BY <1>1, <1>4, <3>2, <4>1, <4>2, <4>4
      <4> QED
        BY <4>3, <4>4
    <3> QED
      BY <1>1, <1>4, <1>10, <2>2, <3>1, <3>2 DEF HandInv
  <2>11. Course'
    <3>1. ControlOK'
      BY <1>1, <1>7, <1>10 DEF Layout, Course, ControlOK
    <3>2. ProbeOK' /\ WalkInv'
      BY <1>1, <1>7, <1>10 DEF Layout, Course, ProbeOK, WalkInv
    <3>3. RehashOK'
      BY <1>1, <1>7, <1>10 DEF Layout, Course, RehashOK
    <3> QED
      BY <3>1, <3>2, <3>3 DEF Course
  <2> QED
    BY <2>4, <2>5, <2>6, <2>7, <2>8, <2>9, <2>10, <2>11 DEF Layout, Stored
<1> QED
  BY <1>2, <1>9, <1>10

-----------------------------------------------------------------------------
(* All steps *)

(* What the invariant says holds of the next state. *)
LEMMA NextLayout ==
  ASSUME Layout, Clears, MarksDiffer, [Next]_vars
  PROVE  Layout'
<1>1. CASE UNCHANGED vars
  <2>1. UNCHANGED <<slotMask, ctrl, slot, slotSize, slotThreshold, mlf, pc, call, probe, hand, old, pending, resume>>
    BY <1>1 DEF vars, table, rehash
  <2>2. SlotCapacity' = SlotCapacity /\ Vacant' = Vacant /\ Carried' = Carried /\ Settled' = Settled
        /\ Live(slot)' = Live(slot) /\ Live(old)' = Live(old) /\ NewElement' = NewElement /\ Moving' = Moving
    BY <2>1, ShapeStays DEF Vacant, Carried, Settled, Live, NewElement, Moving, NextPending
  <2>3. TableOK' /\ HandOK' /\ SizeOK'
    BY <2>1, <2>2 DEF Layout, Stored, TableOK, HandOK, SizeOK
  <2>4. ShapeOK'
    BY <2>1, ShapeStays DEF Layout, Stored, ShapeOK
  <2>5. OwnWords' /\ ReachInv' /\ HandInv'
    BY <2>1, <2>2 DEF Layout, Stored, OwnWords, ReachInv, HandInv
  <2>6. ControlOK' /\ ProbeOK' /\ RehashOK' /\ WalkInv'
    BY <2>1, <2>2 DEF Layout, Course, ControlOK, ProbeOK, RehashOK, WalkInv
  <2> QED
    BY <2>3, <2>4, <2>5, <2>6 DEF Layout, Stored, Course
<1>2. CASE BeginKeyOp \/ BeginManagement
  BY <1>2, BeginLayout
<1>3. CASE Manage
  BY <1>3, ManageIs, RearrangedLayout
<1>4. CASE Search
  <2>1. CASE WalkNext
    BY <2>1, FurtherLayout
  <2>2. CASE NotFound
    BY <2>2, NotFoundLayout
  <2>3. CASE ReturnFound \/ KeepExisting
    <3>1. pc = "walk" /\ pc' = "done" /\ UNCHANGED <<table, mlf, call, probe, hand, rehash>>
      BY <2>3 DEF ReturnFound, KeepExisting, Looking, Done
    <3> QED
      BY <3>1, FinishLayout
  <2>4. CASE AssignExisting
    BY <2>4, AssignLayout
  <2> QED
    BY <1>4, <2>1, <2>2, <2>3, <2>4 DEF Search
<1>5. CASE Erasing
  BY <1>5, EraseLayout, ShiftNextLayout, ShiftBehindLayout, ShiftDoneLayout DEF Erasing
<1>6. CASE Inserting
  <2>1. CASE Grow \/ Retry
    BY <2>1, GrowIs, RearrangedLayout
  <2>2. CASE PlaceNext
    BY <2>2, FurtherLayout
  <2>3. CASE PlaceInEmpty \/ Displace \/ PassOn \/ PutDown
    BY <2>3, PlaceInEmptyLayout, DisplaceLayout, PassOnLayout, PutDownLayout
  <2> QED
    BY <1>6, <2>1, <2>2, <2>3 DEF Inserting
<1>7. CASE Rehashing
  BY <1>7, MoveNextLayout, RehashDoneLayout DEF Rehashing
<1>8. CASE Return
  BY <1>8, ReturnLayout
<1> QED
  BY <1>1, <1>2, <1>3, <1>4, <1>5, <1>6, <1>7, <1>8 DEF Next, Step

-----------------------------------------------------------------------------
(* Theorems *)

(* A distance has eight bits in the program: as long as none needs more, the numbers of the model are
   those of the program. *)
DistancesFit ==
    /\ \A i \in DOMAIN ctrl : ctrl[i].dist <= 254
    /\ hand.ctrl.dist <= 254

(* The types. *)
LEMMA Typed == Layout => (DistancesFit => TypeOK)
<1> SUFFICES ASSUME Layout, DistancesFit PROVE TypeOK
  OBVIOUS
<1>1. slotMask \in Nat /\ IsPow2(slotMask + 1) /\ slotSize \in Nat /\ slotThreshold \in Nat
      /\ slot \in [0..slotMask -> Element \cup {Raw}]
  <2>1. /\ slotMask \in Nat /\ ValidCapacity(SlotCapacity) /\ slotSize \in Nat /\ slotThreshold \in 0..slotMask
        /\ slot \in [0..slotMask -> Element \cup {Raw}]
    BY DEF Layout, Stored, TableOK
  <2> QED
    BY <2>1 DEF ValidCapacity, SlotCapacity
<1>2. \A c \in CtrlWord : c.dist <= 254 => c \in [dist : -1..254, hash : 0..255]
  BY DEF CtrlWord
<1>3. ctrl \in [DOMAIN ctrl -> [dist : -1..254, hash : 0..255]]
  <2>1. ctrl \in [DOMAIN ctrl -> CtrlWord]
    BY DEF Layout, Stored, TableOK
  <2> QED
    BY <1>2, <2>1 DEF DistancesFit
<1>4. hand \in [target : 0..slotMask, at : 0..slotMask, elem : Element \cup {Raw},
                ctrl : [dist : -1..254, hash : 0..255]]
  <2>1. hand \in [target : 0..slotMask, at : 0..slotMask, elem : Element \cup {Raw}, ctrl : CtrlWord]
    BY DEF Layout, Stored, HandOK
  <2>2. hand.ctrl \in [dist : -1..254, hash : 0..255]
    BY <1>2, <2>1 DEF DistancesFit
  <2> QED
    BY <2>1, <2>2
<1>5. /\ mlf \in LoadFactors
      /\ pc \in {"idle", "manage", "walk", "shift", "room", "place", "displace", "retry", "rehash",
                 "done", "broken"}
      /\ probe \in [key : Key \cup {Absent}, dist : Nat]
  BY DEF Layout, Course, ControlOK, ProbeOK
<1>6. resume \in {"walk", "done"} /\ old \in [DOMAIN old -> Element \cup {Raw}] /\ pending \subseteq DOMAIN old
  BY DEF Layout, Course, RehashOK, Live
<1> QED
  BY <1>1, <1>3, <1>4, <1>5, <1>6 DEF TypeOK

(* The words of the slots, and the searches, in the words of the source. *)
LEMMA Mirrored == Layout => SearchableUnlessBroken
<1> SUFFICES ASSUME Layout, Settled PROVE CtrlMirrorsSlots /\ EveryElementReachable
  BY DEF SearchableUnlessBroken, Settled
<1>1. TableOK /\ HandOK /\ OwnWords /\ ReachInv /\ HandInv /\ Shaped(ctrl) /\ slotMask \in Nat
  BY Shape DEF Layout, Stored, ShapeOK, Settled
<1>2. \A i \in 0..slotMask, e \in Element : CtrlOf(i, e) = WordOf(slotMask, i, e)
  BY <1>1, OnCircle, ElementRange DEF CtrlOf, WordOf
<1>3. \A i \in Live(slot) : i \in 0..slotMask /\ slot[i] \in Element /\ slot[i].key \in Key /\ slot[i] # Raw
  BY <1>1, Slots
<1>4. pc = "displace" => hand.elem \in Element /\ hand.at \in 0..slotMask /\ hand.elem.key \in Key
  BY <1>1, ElementRange DEF HandOK
<1>5. CtrlMirrorsSlots
  <2>1. ASSUME NEW i \in (0..slotMask) \ Vacant
        PROVE  ctrl[i] = IF slot[i] = Raw THEN Empty ELSE CtrlOf(i, slot[i])
    <3>1. ctrl[i] = IF slot[i] = Raw THEN Empty ELSE WordOf(slotMask, i, slot[i])
      BY <1>1 DEF OwnWords
    <3>2. slot[i] # Raw => slot[i] \in Element
      BY <1>1 DEF TableOK
    <3> QED
      BY <1>2, <3>1, <3>2
  <2>2. pc = "displace" => hand.ctrl = CtrlOf(hand.at, hand.elem)
    BY <1>1, <1>2, <1>4 DEF OwnWords
  <2>3. \A i \in 0..slotMask : i < GroupWidth => ctrl[i + SlotCapacity] = ctrl[i]
    BY <1>1 DEF Shaped
  <2> QED
    BY <2>1, <2>2, <2>3 DEF CtrlMirrorsSlots
<1>6. EveryElementReachable
  <2>1. \A i \in Live(slot) : ReachableAt(i, slot[i].key)
    BY <1>1, <1>3, IsAlong DEF ReachInv
  <2>2. pc = "displace" => ReachableAt(hand.at, hand.elem.key)
    BY <1>1, <1>4, IsAlong DEF HandInv
  <2> QED
    BY <2>1, <2>2 DEF EveryElementReachable
<1> QED
  BY <1>5, <1>6

(* Between calls the words that are used are those of the slots with elements, and no word behind the
   table is taken for one before them. *)
LEMMA Iterated == Layout /\ MarksDiffer => IterationIsComplete
<1> SUFFICES ASSUME Layout, MarksDiffer, pc = "idle"
             PROVE  LET stops == Live(slot) \cup {SlotCapacity}
                    IN /\ slotSize = Cardinality(Live(slot))
                       /\ FirstIndex = Sets!Min(stops)
                       /\ \A i \in Live(slot) : NextOf(i) = Sets!Min({j \in stops : j > i})
  BY DEF IterationIsComplete
<1> DEFINE L == Live(slot)
           n == SlotCapacity
           stops == L \cup {n}
           used == {i \in 0..(GroupCount(n) * GroupWidth - 1) : ctrl[i] \notin {Empty, EndOf}}
<1>1. /\ TableOK /\ SizeOK /\ OwnWords /\ Shaped(ctrl) /\ Settled /\ Vacant = {} /\ Carried = 0
      /\ slotMask \in Nat /\ n = slotMask + 1 /\ GroupWidth \in Nat /\ GroupWidth >= 2
  BY Shape DEF Layout, Stored, ShapeOK, Settled, Vacant, Carried
<1>2. slotSize = Cardinality(L)
  <2>1. slotSize = Cardinality(L) + 0 /\ Cardinality(L) \in Nat
    BY <1>1, Slots DEF SizeOK, Settled
  <2> QED
    BY <2>1
<1>3. \A i \in 0..slotMask : (ctrl[i] # Empty <=> i \in L) /\ ctrl[i] # EndOf
  <2> SUFFICES ASSUME NEW i \in 0..slotMask PROVE (ctrl[i] # Empty <=> i \in L) /\ ctrl[i] # EndOf
    OBVIOUS
  <2>1. /\ ctrl[i] # Empty <=> i \in L
        /\ i \in L => slot[i].key \in Key /\ ctrl[i] = WordOf(slotMask, i, slot[i])
    BY <1>1, UsedIsLive
  <2>2. i \in L => ctrl[i].hash # EndOf.hash
    BY <2>1, EmptyRange DEF MarksDiffer, WordOf, Ctrl
  <2> QED
    BY <2>1, <2>2, EmptyRange
<1>4. L \subseteq 0..slotMask
  BY <1>1, Slots
<1>5. /\ \A i \in 0..slotMask : i \in used <=> i \in L
      /\ \A i \in used : i \in Nat /\ (i > slotMask => \E j \in L : j <= i)
  <2>1. \A i \in 0..slotMask : i \in 0..(GroupCount(n) * GroupWidth - 1)
    BY <1>1, Shape
  <2>2. \A i \in 0..slotMask : i \in used <=> i \in L
    BY <1>3, <2>1
  <2>3. ASSUME NEW i \in used, i > slotMask PROVE \E j \in L : j <= i
    <3>1. i \in 0..(GroupCount(n) * GroupWidth - 1) /\ ctrl[i] # Empty /\ ctrl[i] # EndOf
      OBVIOUS
    <3>2. Small /\ i \in 0..(GroupWidth - 1)
      BY <1>1, <2>3, <3>1, Shape
    <3>3. CASE i >= 2 * n
      <4>1. i \in TailWords
        BY <1>1, <3>2, <3>3 DEF TailWords
      <4> QED
        BY <1>1, <3>1, <3>2, <4>1 DEF Shaped
    <3>4. CASE i < 2 * n
      <4>1. i - n \in 0..slotMask /\ i - n < GroupWidth /\ (i - n) + n = i /\ i - n <= i
        BY <1>1, <2>3, <3>2, <3>4
      <4>2. ctrl[i] = ctrl[i - n]
        BY <1>1, <4>1 DEF Shaped
      <4> QED
        BY <1>3, <3>1, <4>1, <4>2
    <3> QED
      BY <1>1, <3>2, <3>3, <3>4
  <2>4. \A i \in used : i \in Nat
    OBVIOUS
  <2> HIDE DEF used, L
  <2> QED
    BY <2>2, <2>3, <2>4
<1> HIDE DEF used, L
<1>6. FirstIndex = Sets!Min(stops)
  <2>1. FirstIndex = IF used = {} THEN n ELSE Sets!Min(used)
    BY DEF FirstIndex, used
  <2>2. stops \subseteq Nat /\ used \subseteq Nat /\ n \in Nat
    BY <1>1, <1>4, <1>5
  <2>3. CASE L = {}
    <3>1. used = {}
      BY <1>1, <1>5, <2>3
    <3>2. n \in stops /\ \A y \in stops : n <= y
      BY <2>2, <2>3
    <3>3. Sets!Min(stops) = n
      BY <2>2, <3>2, LeastIs
    <3> QED
      BY <2>1, <3>1, <3>3
  <2>4. CASE L # {}
    <3> DEFINE x == Sets!Min(L)
    <3>1. x \in L /\ \A y \in L : x <= y
      <4>1. L \subseteq Nat
        BY <1>1, <1>4
      <4> QED
        BY <2>4, <4>1, LeastOf
    <3> HIDE DEF x
    <3>2. x \in 0..slotMask /\ x \in used /\ x \in stops
      BY <1>4, <1>5, <3>1
    <3>3. \A y \in stops : x <= y
      BY <1>1, <3>1, <3>2
    <3>4. \A y \in used : x <= y
      <4> SUFFICES ASSUME NEW y \in used PROVE x <= y
        OBVIOUS
      <4>1. CASE y > slotMask
        <5>1. PICK j \in L : j <= y
          BY <1>5, <4>1
        <5>2. x <= j /\ j \in Nat /\ x \in Nat /\ y \in Nat
          BY <1>4, <1>1, <1>5, <3>1, <3>2
        <5> QED
          BY <5>1, <5>2
      <4>2. CASE ~ (y > slotMask)
        <5>1. y \in 0..slotMask
          BY <1>1, <1>5, <4>2
        <5> QED
          BY <1>5, <3>1, <5>1
      <4> QED
        BY <4>1, <4>2
    <3>5. Sets!Min(stops) = x /\ Sets!Min(used) = x
      BY <2>2, <3>2, <3>3, <3>4, LeastIs
    <3>6. used # {}
      BY <3>2
    <3> QED
      BY <2>1, <3>5, <3>6
  <2> QED
    BY <2>3, <2>4
<1>7. ASSUME NEW i \in L PROVE NextOf(i) = Sets!Min({j \in stops : j > i})
  <2>1. i \in 0..slotMask
    BY <1>4
  <2>2. ASSUME NEW j
        PROVE  j \in (i + 1)..n /\ (j = n \/ ctrl[j] # Empty) <=> j \in stops /\ j > i
    <3>1. CASE j = n
      BY <1>1, <2>1, <3>1
    <3>2. CASE j # n
      <4>1. j \in L => j \in 0..slotMask
        BY <1>4
      <4>2. j \in (i + 1)..n => j \in 0..slotMask
        BY <1>1, <2>1, <3>2
      <4> QED
        BY <1>1, <1>3, <2>1, <3>2, <4>1, <4>2
    <3> QED
      BY <3>1, <3>2
  <2>3. {j \in (i + 1)..n : j = n \/ ctrl[j] # Empty} = {j \in stops : j > i}
    BY <2>2
  <2> QED
    BY <2>3 DEF NextOf
<1> QED
  BY <1>2, <1>6, <1>7 DEF L

(* The invariant holds of every behaviour. *)
LEMMA AlwaysLayout ==
  ASSUME Clears, MarksDiffer
  PROVE  Spec => []Layout
<1>1. Init => Layout
  BY InitLayout
<1>2. Layout /\ [Next]_vars => Layout'
  BY NextLayout
<1> QED
  BY <1>1, <1>2, PTL DEF Spec

(* Every variable of a map has its type, whatever is called, as long as the distances fit. *)
THEOREM TypeCorrect ==
  ASSUME Clears, MarksDiffer
  PROVE  Spec => [](DistancesFit => TypeOK)
<1>1. Spec => []Layout
  BY AlwaysLayout
<1>2. Layout => (DistancesFit => TypeOK)
  BY Typed
<1> QED
  BY <1>1, <1>2, PTL

(* Whatever is inserted, erased or moved, and however the chains wrap round the table, the control words
   are those of the elements and a search comes to each of them: no insertion, no displacement and no
   shift of an erasure leaves an element behind, except where an insertion gave up or an exception or the
   end of the table stopped a call. *)
THEOREM Searchable ==
  ASSUME Clears, MarksDiffer
  PROVE  Spec => []SearchableUnlessBroken
<1>1. Spec => []Layout
  BY AlwaysLayout
<1>2. Layout => SearchableUnlessBroken
  BY Mirrored
<1> QED
  BY <1>1, <1>2, PTL

(* begin() and ++ go over every element once, in the order of the slots, and size() is their number. *)
THEOREM Iteration ==
  ASSUME Clears, MarksDiffer
  PROVE  Spec => []IterationIsComplete
<1>1. Spec => []Layout
  BY AlwaysLayout
<1>2. Layout => IterationIsComplete
  BY Iterated
<1> QED
  BY <1>1, <1>2, PTL

-----------------------------------------------------------------------------
(* The mapping of a set of elements *)

(* The elements of the slots of a table, of those of an old one, and the one in the hand. *)
ElementsOf(slots) == {slots[i] : i \in Live(slots)}
AllOf(slots, olds, e) == ElementsOf(slots) \cup ElementsOf(olds) \cup ({e} \ {Raw})
Elements == AllOf(slot, old, hand.elem)

(* No two of them have the same key. *)
Distinct(slots, olds, e) ==
    /\ \A i, j \in Live(slots) : slots[i].key = slots[j].key => i = j
    /\ \A i, j \in Live(olds) : olds[i].key = olds[j].key => i = j
    /\ \A i \in Live(slots), j \in Live(olds) : slots[i].key # olds[j].key
    /\ e # Raw => /\ \A i \in Live(slots) : slots[i].key # e.key
                  /\ \A j \in Live(olds) : olds[j].key # e.key
UniqueKeys == Distinct(slot, old, hand.elem)

(* What a search has passed has not its key, and an insertion is of a key that is not there. *)
SearchInv ==
    /\ pc = "walk" => \A i \in Live(slot) :
          slot[i].key = probe.key => Gap(slotMask, i, probe.key) >= probe.dist
    /\ pc = "room" \/ (pc = "displace" /\ ~ Moving) => \A e \in Elements : e.key # call.key

(* There is a result when a call has taken effect. *)
ResultInv ==
    /\ pc \notin {"done", "shift", "broken"} => ret = NoResult
    /\ call.op \notin KeyOps => call.key = Absent
    /\ (pc = "rehash" \/ Moving) /\ resume = "done" => call.op \in Map!Managements

MapInv == UniqueKeys /\ SearchInv /\ ResultInv

ContentsOf(E) == [k \in Key |-> IF \E e \in E : e.key = k
                                THEN (CHOOSE e \in E : e.key = k).val
                                ELSE Absent]

KeyedOnce(E) == E \subseteq Element /\ \A e, f \in E : e.key = f.key => e = f

(* An element gives its key its value. *)
LEMMA Lookup ==
  ASSUME NEW E, KeyedOnce(E), NEW e \in E
  PROVE  /\ e.key \in Key /\ e.val \in Value /\ e.val # Absent
         /\ ContentsOf(E)[e.key] = e.val
<1>1. e.key \in Key /\ e.val \in Value
  BY ElementRange DEF KeyedOnce
<1>2. (CHOOSE f \in E : f.key = e.key) = e
  BY DEF KeyedOnce
<1> QED
  BY <1>1, <1>2, KeyAssumption DEF ContentsOf

(* Where only the element of one key changes, the mapping changes at that key. *)
LEMMA LookupChange ==
  ASSUME NEW E, NEW F, KeyedOnce(E), KeyedOnce(F), NEW k \in Key,
         \A e \in Element : e.key # k => (e \in E <=> e \in F)
  PROVE  ContentsOf(F) = [ContentsOf(E) EXCEPT ![k] = ContentsOf(F)[k]]
<1>1. ASSUME NEW j \in Key, j # k
      PROVE  ContentsOf(F)[j] = ContentsOf(E)[j]
  <2>1. CASE \E e \in E : e.key = j
    <3>1. PICK e \in E : e.key = j
      BY <2>1
    <3>2. e \in F
      BY <1>1, <3>1 DEF KeyedOnce
    <3> QED
      BY <3>1, <3>2, Lookup
  <2>2. CASE ~ \E e \in E : e.key = j
    <3>1. ~ \E e \in F : e.key = j
      BY <1>1, <2>2 DEF KeyedOnce
    <3> QED
      BY <2>2, <3>1 DEF ContentsOf
  <2> QED
    BY <2>1, <2>2
<1>2. /\ ContentsOf(F) = [j \in Key |-> ContentsOf(F)[j]]
      /\ ContentsOf(E) = [j \in Key |-> ContentsOf(E)[j]]
  BY DEF ContentsOf
<1> QED
  BY <1>1, <1>2

-----------------------------------------------------------------------------
(* How the elements change places *)

(* Slots that hold elements or none, and one of them written. *)
SlotsOf(S) == [S -> Element \cup {Raw}]
With(slots, i, x) == [slots EXCEPT ![i] = x]

(* Elements with keys of their own are keyed once. *)
LEMMA DistinctKeyed ==
  ASSUME NEW S, NEW slots \in SlotsOf(S), NEW T, NEW olds \in SlotsOf(T),
         NEW e \in Element \cup {Raw}, Distinct(slots, olds, e)
  PROVE  KeyedOnce(AllOf(slots, olds, e))
<1>1. /\ ElementsOf(slots) \subseteq Element /\ ElementsOf(olds) \subseteq Element
      /\ {e} \ {Raw} \subseteq Element
  BY DEF ElementsOf, Live, SlotsOf
<1>2. ASSUME NEW x \in AllOf(slots, olds, e), NEW y \in AllOf(slots, olds, e), x.key = y.key PROVE x = y
  BY <1>2 DEF AllOf, ElementsOf, Distinct
<1> QED
  BY <1>1, <1>2 DEF KeyedOnce, AllOf

(* A slot is written. *)
LEMMA SlotSet ==
  ASSUME NEW S, NEW slots \in SlotsOf(S), NEW i \in S, NEW x
  PROVE  /\ With(slots, i, x)[i] = x /\ (x \in Element \/ x = Raw => With(slots, i, x) \in SlotsOf(S))
         /\ \A j \in S : j # i => With(slots, i, x)[j] = slots[j]
         /\ Live(slots) = {j \in S : slots[j] # Raw}
         /\ Live(With(slots, i, x)) = {j \in S : With(slots, i, x)[j] # Raw}
BY DEF Live, With, SlotsOf

(* An element is taken up. *)
LEMMA TakenUp ==
  ASSUME NEW S, NEW slots \in SlotsOf(S), NEW olds, NEW i \in S, slots[i] # Raw,
         Distinct(slots, olds, Raw)
  PROVE  /\ Distinct(With(slots, i, Raw), olds, slots[i])
         /\ AllOf(With(slots, i, Raw), olds, slots[i]) = AllOf(slots, olds, Raw)
<1> DEFINE slots2 == With(slots, i, Raw)
<1>1. /\ slots2 \in SlotsOf(S) /\ slots2[i] = Raw /\ \A j \in S : j # i => slots2[j] = slots[j]
      /\ Live(slots) = {j \in S : slots[j] # Raw} /\ Live(slots2) = {j \in S : slots2[j] # Raw}
  BY SlotSet
<1>2. Live(slots2) \subseteq Live(slots) /\ i \in Live(slots) /\ i \notin Live(slots2)
      /\ Live(slots) = Live(slots2) \cup {i} /\ \A j \in Live(slots2) : slots2[j] = slots[j]
  BY <1>1
<1>3. Distinct(slots2, olds, slots[i])
  BY <1>2 DEF Distinct
<1>4. ElementsOf(slots) = ElementsOf(slots2) \cup {slots[i]}
  BY <1>2 DEF ElementsOf
<1> QED
  BY <1>3, <1>4 DEF AllOf

(* An element is put into an empty slot. *)
LEMMA PutIn ==
  ASSUME NEW S, NEW slots \in SlotsOf(S), NEW olds, NEW i \in S, slots[i] = Raw,
         NEW e \in Element
  PROVE  /\ AllOf(With(slots, i, e), olds, Raw) = AllOf(slots, olds, e)
         /\ Distinct(slots, olds, e) => Distinct(With(slots, i, e), olds, Raw)
<1> DEFINE slots2 == With(slots, i, e)
<1>1. /\ slots2[i] = e /\ \A j \in S : j # i => slots2[j] = slots[j]
      /\ Live(slots) = {j \in S : slots[j] # Raw} /\ Live(slots2) = {j \in S : slots2[j] # Raw}
  BY SlotSet
<1>2. i \notin Live(slots) /\ Live(slots2) = Live(slots) \cup {i} /\ e # Raw
      /\ \A j \in Live(slots) : slots2[j] = slots[j]
  BY <1>1, ElementRange
<1>3. Distinct(slots, olds, e) => Distinct(slots2, olds, Raw)
  BY <1>1, <1>2 DEF Distinct
<1>4. ElementsOf(slots2) = ElementsOf(slots) \cup {e}
  BY <1>1, <1>2 DEF ElementsOf
<1> QED
  BY <1>2, <1>3, <1>4 DEF AllOf

(* An element is put where another one is taken up. *)
LEMMA Exchanged ==
  ASSUME NEW S, NEW slots \in SlotsOf(S), NEW olds, NEW i \in S, slots[i] # Raw,
         NEW e \in Element, Distinct(slots, olds, e)
  PROVE  /\ Distinct(With(slots, i, e), olds, slots[i])
         /\ AllOf(With(slots, i, e), olds, slots[i]) = AllOf(slots, olds, e)
<1> DEFINE slots2 == With(slots, i, e)
<1>1. /\ slots2[i] = e /\ \A j \in S : j # i => slots2[j] = slots[j]
      /\ Live(slots) = {j \in S : slots[j] # Raw} /\ Live(slots2) = {j \in S : slots2[j] # Raw}
  BY SlotSet
<1>2. /\ i \in Live(slots) /\ Live(slots2) = Live(slots) /\ e # Raw
      /\ \A j \in Live(slots) : j # i => slots2[j] = slots[j]
  BY <1>1, ElementRange
<1>3. Distinct(slots2, olds, slots[i])
  <2>1. /\ \A j \in Live(slots) : j # i => slots[j].key # slots[i].key
        /\ \A j \in Live(slots) : slots[j].key # e.key
        /\ \A j \in Live(olds) : olds[j].key # e.key /\ olds[j].key # slots[i].key
    BY <1>2 DEF Distinct
  <2>2. \A j, l \in Live(slots2) : slots2[j].key = slots2[l].key => j = l
    BY <1>1, <1>2, <2>1 DEF Distinct
  <2>3. \A j \in Live(slots2), l \in Live(olds) : slots2[j].key # olds[l].key
    BY <1>1, <1>2, <2>1 DEF Distinct
  <2>4. \A j \in Live(slots2) : slots2[j].key # slots[i].key
    BY <1>1, <1>2, <2>1
  <2> QED
    BY <2>1, <2>2, <2>3, <2>4 DEF Distinct
<1>4. ElementsOf(slots2) \cup {slots[i]} = ElementsOf(slots) \cup {e}
  <2>1. ASSUME NEW j \in Live(slots2) PROVE slots2[j] \in ElementsOf(slots) \cup {e}
    BY <1>1, <1>2 DEF ElementsOf
  <2>2. ASSUME NEW j \in Live(slots) PROVE slots[j] \in ElementsOf(slots2) \cup {slots[i]}
    BY <1>1, <1>2 DEF ElementsOf
  <2>3. e \in ElementsOf(slots2) /\ slots[i] \in ElementsOf(slots)
    BY <1>1, <1>2 DEF ElementsOf
  <2> QED
    BY <2>1, <2>2, <2>3 DEF ElementsOf
<1> QED
  BY <1>2, <1>3, <1>4 DEF AllOf

(* The element of an old table is moved to an empty slot. *)
LEMMA MovedOver ==
  ASSUME NEW S, NEW slots \in SlotsOf(S), NEW T, NEW olds \in SlotsOf(T),
         NEW i \in S, slots[i] = Raw, NEW p \in T, olds[p] # Raw,
         Distinct(slots, olds, Raw)
  PROVE  /\ Distinct(With(slots, i, olds[p]), With(olds, p, Raw), Raw)
         /\ AllOf(With(slots, i, olds[p]), With(olds, p, Raw), Raw) = AllOf(slots, olds, Raw)
<1> DEFINE olds2 == With(olds, p, Raw)
<1>1. olds[p] \in Element
  BY DEF SlotsOf
<1>2. Distinct(slots, olds2, olds[p]) /\ AllOf(slots, olds2, olds[p]) = AllOf(slots, olds, Raw)
  <2>1. Distinct(olds, slots, Raw)
    BY DEF Distinct
  <2>2. Distinct(olds2, slots, olds[p]) /\ AllOf(olds2, slots, olds[p]) = AllOf(olds, slots, Raw)
    BY <2>1, TakenUp
  <2> QED
    BY <2>2 DEF Distinct, AllOf
<1> QED
  BY <1>1, <1>2, PutIn

Sound == Layout /\ MapInv
Index == 0..slotMask

(* What the invariant says of the elements, wherever they are. *)
LEMMA Places ==
  ASSUME Layout
  PROVE  /\ slotMask \in Nat /\ slot \in SlotsOf(Index)
         /\ old \in SlotsOf(DOMAIN old) /\ hand.elem \in Element \cup {Raw}
         /\ pc # "displace" => hand.elem = Raw
         /\ pending = Live(old) /\ (~ Moving => Live(old) = {})
<1>1. slotMask \in Nat /\ slot \in SlotsOf(Index)
  BY Shape DEF Layout, Stored, TableOK, SlotsOf, Index
<1>2. /\ hand.elem \in Element \cup {Raw}
      /\ pc # "displace" => hand.elem = Raw
  BY DEF Layout, Stored, HandOK
<1>3. /\ old \in SlotsOf(DOMAIN old)
      /\ pending = Live(old) /\ (~ Moving => Live(old) = {})
  BY DEF Layout, Course, RehashOK, Moving, SlotsOf
<1> QED
  BY <1>1, <1>2, <1>3

(* The mapping is that of the elements. *)
LEMMA Keyed == Layout /\ UniqueKeys => KeyedOnce(Elements) /\ Contents = ContentsOf(Elements)
<1> SUFFICES ASSUME Layout, UniqueKeys
             PROVE  KeyedOnce(Elements) /\ Contents = ContentsOf(Elements)
  OBVIOUS
<1>1. KeyedOnce(Elements)
  BY Places, DistinctKeyed DEF UniqueKeys, Elements
<1>2. Contents = ContentsOf(Elements)
  BY DEF Contents, ContentsOf, Elements, AllOf, ElementsOf
<1> QED
  BY <1>1, <1>2

(* The same of the next state, for which a lemma about this one cannot be cited. *)
LEMMA KeyedNext == Layout' /\ UniqueKeys' => KeyedOnce(Elements') /\ Contents' = ContentsOf(Elements')
<1>1. (Layout /\ UniqueKeys => KeyedOnce(Elements) /\ Contents = ContentsOf(Elements))'
  BY Keyed, PTL
<1> QED
  BY <1>1

(* A step that moves no element. *)
LEMMA StillThere ==
  ASSUME UniqueKeys, slot' = slot, old' = old, hand'.elem = hand.elem
  PROVE  UniqueKeys' /\ Elements' = Elements
BY DEF UniqueKeys, Elements, Distinct, AllOf, ElementsOf, Live

(* What the elements of the next state are. *)
LEMMA NowThere ==
  ASSUME NEW slots, NEW olds, NEW e, slot' = slots, old' = olds, hand'.elem = e, Distinct(slots, olds, e)
  PROVE  UniqueKeys' /\ Elements' = AllOf(slots, olds, e)
BY DEF UniqueKeys, Elements, Distinct, AllOf, ElementsOf, Live

(* create_group() leaves all of them in the old table. *)
LEMMA CreateKeys ==
  ASSUME Layout, UniqueKeys, pc # "displace", pending = {}, NEW c, NEW m, NEW after, CreateGroup(c, m, after),
         hand' = hand
  PROVE  UniqueKeys' /\ Elements' = Elements /\ ret' = ret
<1>1. /\ hand.elem = Raw /\ Live(old) = {} /\ slot' = AllRaw(c) /\ old' = slot /\ hand'.elem = Raw /\ ret' = ret
  BY Places DEF CreateGroup
<1>2. Live(AllRaw(c)) = {}
  BY DEF AllRaw, Live
<1>3. Distinct(AllRaw(c), slot, Raw)
  BY <1>1, <1>2 DEF UniqueKeys, Distinct
<1>4. AllOf(AllRaw(c), slot, Raw) = Elements
  BY <1>1, <1>2 DEF Elements, AllOf, ElementsOf
<1> QED
  BY <1>1, <1>3, <1>4, NowThere

(* The end of a rehash gives up an old table without elements. *)
LEMMA RehashDoneKeys ==
  ASSUME Layout, UniqueKeys, RehashDone
  PROVE  UniqueKeys' /\ Elements' = Elements
<1>1. slot' = slot /\ old' = NoOld /\ hand'.elem = hand.elem /\ Live(old) = {}
  BY Places DEF RehashDone, table
<1>2. Live(NoOld) = {}
  BY DEF NoOld, Live
<1>3. Distinct(slot, NoOld, hand.elem)
  BY <1>1, <1>2 DEF UniqueKeys, Distinct
<1>4. AllOf(slot, NoOld, hand.elem) = Elements
  BY <1>1, <1>2 DEF Elements, AllOf, ElementsOf
<1> QED
  BY <1>1, <1>3, <1>4, NowThere

(* A search finds the element of its key. *)
LEMMA HitIs ==
  ASSUME Sound, MarksDiffer, pc = "walk", NEW i \in Hits
  PROVE  /\ i \in Index /\ slot[i] \in Element /\ slot[i] # Raw /\ Read(i) = {slot[i]}
         /\ call.key \in Key /\ slot[i].key = call.key /\ probe.key = call.key
         /\ slot[i] \in Elements /\ slot[i].val = Contents[call.key] /\ slot[i].val # Absent
<1>1. /\ i \in Live(slot) /\ i \in 0..slotMask /\ slot[i] \in Element
      /\ slot[i].key = probe.key /\ Read(i) = {slot[i]} /\ probe.key = call.key /\ call.key \in Key
  BY HitsFound DEF Sound, Layout, Stored, Course, ProbeOK, ControlOK
<1>2. slot[i] \in Elements
  BY <1>1 DEF Elements, AllOf, ElementsOf
<1>3. slot[i].val # Absent /\ slot[i].val = Contents[slot[i].key]
  BY <1>2, Keyed, Lookup DEF Sound, MapInv
<1> QED
  BY <1>1, <1>2, <1>3, ElementRange DEF Index

(* insert_or_assign() replaces an element by one of the same key. *)
LEMMA AssignKeys ==
  ASSUME Sound, MarksDiffer, AssignExisting
  PROVE  /\ UniqueKeys' /\ call.val \in Value
         /\ \E e \in Elements' : e.key = call.key /\ e.val = call.val
         /\ \A e \in Element : e.key # call.key => (e \in Elements <=> e \in Elements')
<1>1. PICK i \in Hits : /\ slot' = [slot EXCEPT ![i] = [key |-> probe.key, val |-> call.val]]
                        /\ old' = old /\ hand'.elem = hand.elem /\ pc = "walk" /\ call.op = "insert_or_assign"
  BY DEF AssignExisting, Looking, rehash
<1>2. /\ i \in Index /\ slot[i] \in Element /\ slot[i] # Raw /\ slot[i].key = call.key /\ probe.key = call.key
      /\ call.key \in Key
  BY <1>1, HitIs
<1> DEFINE n == [key |-> probe.key, val |-> call.val]
<1>3. n \in Element /\ n.key = call.key /\ n.val = call.val /\ n # Raw /\ call.val \in Value
  <2>1. call.val \in Value
    BY <1>1 DEF Sound, Layout, Course, ControlOK, Insertions
  <2>2. n \in Element
    BY <1>2, <2>1 DEF Element
  <2> QED
    BY <1>2, <2>1, <2>2, ElementRange
<1> HIDE DEF n
<1>4. slot' = With(slot, i, n)
  BY <1>1 DEF With, n
<1>5. hand.elem = Raw /\ slot \in SlotsOf(Index)
  BY <1>1, Places DEF Sound
<1>6. /\ slot'[i] = n /\ \A j \in Index : j # i => slot'[j] = slot[j]
      /\ Live(slot) = {j \in Index : slot[j] # Raw} /\ Live(slot') = {j \in Index : slot'[j] # Raw}
  BY <1>2, <1>3, <1>4, <1>5, SlotSet
<1>7. Live(slot') = Live(slot) /\ \A j \in Live(slot) : slot'[j].key = slot[j].key
  BY <1>2, <1>3, <1>6
<1>8. Distinct(slot', old, Raw)
  BY <1>5, <1>7 DEF Sound, MapInv, UniqueKeys, Distinct
<1>9. UniqueKeys' /\ Elements' = AllOf(slot', old, Raw)
  BY <1>1, <1>5, <1>8, NowThere
<1>10. n \in Elements'
  BY <1>2, <1>6, <1>7, <1>9 DEF AllOf, ElementsOf
<1>11. \A e \in Element : e.key # call.key => (e \in ElementsOf(slot) <=> e \in ElementsOf(slot'))
  <2>1. \A j \in Live(slot) : j # i => slot'[j] = slot[j]
    BY <1>6
  <2> QED
    BY <1>2, <1>3, <1>6, <1>7, <2>1 DEF ElementsOf
<1>12. \A e \in Element : e.key # call.key => (e \in Elements <=> e \in Elements')
  BY <1>5, <1>9, <1>11 DEF Elements, AllOf
<1> QED
  BY <1>3, <1>9, <1>10, <1>12

(* An erasure takes one element away. *)
LEMMA EraseKeys ==
  ASSUME Sound, MarksDiffer, EraseFound
  PROVE  /\ UniqueKeys' /\ \A e \in Elements' : e.key # call.key
         /\ \A e \in Element : e.key # call.key => (e \in Elements <=> e \in Elements')
<1>1. PICK i \in Hits : /\ slot' = [slot EXCEPT ![i] = Raw] /\ hand'.elem = Raw
                        /\ old' = old /\ pc = "walk"
  BY DEF EraseFound, Looking, rehash, NoHand
<1>2. i \in Index /\ slot[i] \in Element /\ slot[i] # Raw /\ slot[i].key = call.key
  BY <1>1, HitIs
<1>3. hand.elem = Raw /\ slot \in SlotsOf(Index)
  BY <1>1, Places DEF Sound
<1>4. slot' = With(slot, i, Raw)
  BY <1>1 DEF With
<1>5. Distinct(slot', old, slot[i]) /\ AllOf(slot', old, slot[i]) = Elements
  BY <1>2, <1>3, <1>4, TakenUp DEF Elements, Sound, MapInv, UniqueKeys
<1>6. Distinct(slot', old, Raw)
  BY <1>5 DEF Distinct
<1>7. UniqueKeys' /\ Elements' = AllOf(slot', old, Raw)
  BY <1>1, <1>6, NowThere
<1>8. Elements = Elements' \cup {slot[i]}
  BY <1>2, <1>5, <1>7 DEF AllOf
<1>9. \A e \in Elements' : e.key # call.key
  BY <1>2, <1>5, <1>7 DEF Distinct, AllOf, ElementsOf
<1> QED
  BY <1>2, <1>7, <1>8, <1>9

(* A shift moves one element. *)
LEMMA ShiftKeys ==
  ASSUME Sound, ShiftNext
  PROVE  UniqueKeys' /\ Elements' = Elements
<1> DEFINE i == hand.at
           n == hand.at + 1
<1>1. /\ pc = "shift" /\ NextCtrl.dist > 0 /\ i < slotMask /\ hand'.elem = hand.elem /\ old' = old
      /\ \E e \in Read(n) : slot' = [slot EXCEPT ![i] = e, ![n] = Raw]
  <2>1. hand' = [hand EXCEPT !.at = @ + 1]
    BY DEF ShiftNext
  <2>2. hand'.elem = hand.elem
    BY <2>1 DEF Sound, Layout, Stored, HandOK
  <2> QED
    BY <2>2 DEF ShiftNext, Shifting, NotAtHome, rehash
<1>2. i \in 0..slotMask /\ slot[i] = Raw /\ Vacant = {i} /\ NextCtrl = ctrl[After(slotMask, i)]
  BY <1>1, NextIs DEF Sound, Layout, Stored
<1>3. n = After(slotMask, i) /\ n \in 0..slotMask /\ n # i /\ n \in Index /\ i \in Index
  BY <1>1, <1>2, Places DEF After, Sound, Index
<1>4. slot[n] \in Element /\ slot[n] # Raw
  <2>1. n \in Live(slot) /\ slot[n] \in Element
    <3>1. Settled /\ n \in (0..slotMask) \ Vacant /\ ctrl[n].dist > 0
      BY <1>1, <1>2, <1>3 DEF Settled
    <3>2. ctrl[n].dist \in Int
      BY <1>1, <1>3, WordIn DEF Sound, Layout, Stored, ShapeOK
    <3>3. ctrl[n].dist >= 0
      BY <3>1, <3>2
    <3> QED
      BY <3>1, <3>3, UsedIsLive DEF Sound, Layout, Stored
  <2> QED
    BY <2>1, ElementRange
<1>5. hand.elem = Raw /\ slot \in SlotsOf(Index)
  BY <1>1, Places DEF Sound
<1> HIDE DEF i, n
<1>6. Read(n) = {slot[n]}
  BY <1>3, <1>4, <1>5 DEF Read, SlotsOf
<1>7. slot' = With(With(slot, n, Raw), i, slot[n])
  <2>1. slot' = [slot EXCEPT ![i] = slot[n], ![n] = Raw]
    BY <1>1, <1>6
  <2> QED
    BY <1>2, <1>3, <1>5, <2>1 DEF With, SlotsOf
<1> DEFINE s == With(slot, n, Raw)
<1>8. s \in SlotsOf(Index) /\ s[i] = Raw
  BY <1>2, <1>3, <1>5, SlotSet
<1>9. Distinct(s, old, slot[n]) /\ AllOf(s, old, slot[n]) = Elements
  BY <1>3, <1>4, <1>5, TakenUp DEF Elements, Sound, MapInv, UniqueKeys
<1> HIDE DEF s
<1>10. Distinct(slot', old, Raw) /\ AllOf(slot', old, Raw) = Elements
  BY <1>3, <1>4, <1>7, <1>8, <1>9, PutIn DEF s
<1> QED
  BY <1>1, <1>5, <1>10, NowThere

(* What a displacement carries, and what it is carried past. *)
LEMMA PassedKeys ==
  ASSUME Sound, PassOn
  PROVE  UniqueKeys' /\ Elements' = Elements
<1> DEFINE at == hand.at
           t == hand.target
           swaps == IsPoorerThan(ctrl[at])
           e == IF swaps THEN slot[at] ELSE hand.elem
           s == IF swaps THEN With(slot, at, hand.elem) ELSE slot
<1>1. /\ at \in Index /\ t \in Index /\ at # t /\ slot[t] = Raw /\ hand.elem \in Element /\ hand.elem # Raw
      /\ hand \in [target : 0..slotMask, at : 0..slotMask, elem : Element \cup {Raw}, ctrl : CtrlWord]
  BY HandIs, ElementRange DEF PassOn, Sound, Index
<1>2. slot[at] \in Element /\ slot[at] # Raw
  <2>1. ctrl[at] # Empty /\ at \in (0..slotMask) \ Vacant /\ TableOK /\ OwnWords /\ Settled
    BY <1>1, HandIs DEF PassOn, Sound, Index
  <2>2. slot[at] \in Element
    BY <2>1, UsedIsLive
  <2> QED
    BY <2>2, ElementRange
<1>3. slot \in SlotsOf(Index)
  BY Places DEF Sound
<1>4. Read(at) = {slot[at]}
  BY <1>1, <1>2, <1>3 DEF Read, SlotsOf
<1>5. /\ s \in SlotsOf(Index) /\ s[t] = Raw /\ e \in Element
      /\ Distinct(s, old, e) /\ AllOf(s, old, e) = Elements
  <2>1. CASE swaps
    <3>1. Distinct(With(slot, at, hand.elem), old, slot[at])
          /\ AllOf(With(slot, at, hand.elem), old, slot[at]) = Elements
      BY <1>1, <1>2, <1>3, Exchanged DEF Elements, Sound, MapInv, UniqueKeys
    <3>2. With(slot, at, hand.elem) \in SlotsOf(Index) /\ With(slot, at, hand.elem)[t] = Raw
      BY <1>1, <1>3, SlotSet
    <3> QED
      BY <1>2, <2>1, <3>1, <3>2
  <2>2. CASE ~ swaps
    BY <1>1, <1>3, <2>2 DEF Elements, Sound, MapInv, UniqueKeys
  <2> QED
    BY <2>1, <2>2
<1>6. /\ old' = old
      /\ \/ slot' = s /\ hand'.elem = e
         \/ slot' = With(s, t, e) /\ hand'.elem = Raw
  <2> DEFINE carried == IncDist(IF swaps THEN ctrl[at] ELSE hand.ctrl)
             next == RoundIndex(at + 1)
             gaveUp == GaveUp(carried, next)
             swappedSlot == IF swaps THEN [slot EXCEPT ![at] = hand.elem] ELSE slot
  <2>1. /\ slot' = IF gaveUp THEN [swappedSlot EXCEPT ![t] = e] ELSE swappedSlot
        /\ hand' = IF gaveUp THEN NoHand
                   ELSE [hand EXCEPT !.at = next, !.elem = e, !.ctrl = carried]
        /\ old' = old
    BY <1>4 DEF PassOn, rehash
  <2>2. swappedSlot = s
    BY DEF With
  <2> HIDE DEF swappedSlot, s, e, gaveUp, carried, next
  <2>3. gaveUp => slot' = With(s, t, e) /\ hand'.elem = Raw
    BY <2>1, <2>2 DEF With, NoHand
  <2>4. ~ gaveUp => slot' = s /\ hand'.elem = e
    BY <1>1, <2>1, <2>2
  <2> QED
    BY <2>1, <2>3, <2>4
<1> HIDE DEF s, e, t, at
<1>7. CASE slot' = s /\ hand'.elem = e
  BY <1>5, <1>6, <1>7, NowThere
<1>8. CASE slot' = With(s, t, e) /\ hand'.elem = Raw
  <2>1. Distinct(slot', old, Raw) /\ AllOf(slot', old, Raw) = Elements
    BY <1>1, <1>5, <1>8, PutIn
  <2> QED
    BY <1>6, <1>8, <2>1, NowThere
<1> QED
  BY <1>6, <1>7, <1>8

(* An element is taken up from the target of an insertion. *)
LEMMA DisplaceKeys ==
  ASSUME Sound, Displace
  PROVE  UniqueKeys' /\ Elements' = Elements
<1> DEFINE t == Target
<1>1. t \in Index /\ ctrl[t] # Empty /\ hand.elem = Raw /\ slot[t] \in Element /\ slot[t] # Raw
  <2>1. /\ t \in 0..slotMask /\ ctrl[t] # Empty /\ pc \in {"room", "place"} /\ Vacant = {}
        /\ TableOK /\ OwnWords /\ Settled
    BY TargetIs DEF Displace, Sound, Layout, Stored
  <2>2. slot[t] \in Element /\ hand.elem = Raw
    BY <2>1, UsedIsLive, Places DEF Sound
  <2> QED
    BY <2>1, <2>2, ElementRange DEF Index
<1>2. slot \in SlotsOf(Index)
  BY Places DEF Sound
<1>3. Read(t) = {slot[t]}
  BY <1>1, <1>2 DEF Read, SlotsOf
<1>4. slot' = With(slot, t, Raw) /\ old' = old /\ hand'.elem = slot[t]
  BY <1>3 DEF Displace, rehash, With
<1> HIDE DEF t
<1>5. Distinct(slot', old, slot[t]) /\ AllOf(slot', old, slot[t]) = Elements
  BY <1>1, <1>2, <1>4, TakenUp DEF Elements, Sound, MapInv, UniqueKeys
<1> QED
  BY <1>4, <1>5, NowThere

(* The element that is constructed comes from the old table, or its key is new. *)
PlacesOne ==
  /\ UniqueKeys'
  /\ Moving => Elements' = Elements /\ ret' = ret
  /\ ~ Moving => /\ Elements' = Elements \cup {NewElement} /\ NewElement.key = call.key
                 /\ NewElement.val = call.val /\ \A e \in Elements : e.key # call.key
                 /\ call.op \in Insertions /\ call.key \in Key /\ call.val \in Value
                 /\ Done("inserted")

(* It does so wherever the slot is that it is constructed in. *)
LEMMA PlacedKeys ==
  ASSUME Sound, pc \in {"room", "place", "displace"}, pc = "room" => ~ Moving, Placed,
         NEW s \in SlotsOf(Index), NEW t \in Index, s[t] = Raw, slot' = With(s, t, NewElement),
         Distinct(s, old, Raw), AllOf(s, old, Raw) = Elements
  PROVE  PlacesOne
<1>1. NewElement \in Element /\ NewElement # Raw /\ hand'.elem = Raw
  <2>1. NewElement \in Element
    BY DEF Sound, Layout, Course, ProbeOK
  <2> QED
    BY <2>1, ElementRange DEF Placed, NoHand
<1>2. CASE Moving
  <2>1. /\ NextPending \in DOMAIN old /\ old[NextPending] \in Element /\ NewElement = old[NextPending]
        /\ old \in SlotsOf(DOMAIN old)
    BY <1>2, NextIsElement, Places DEF Sound, Layout, Course
  <2>2. old[NextPending] # Raw /\ old' = With(old, NextPending, Raw) /\ ret' = ret
    BY <1>1, <1>2, <2>1 DEF Placed, With
  <2>3. Distinct(slot', old', Raw) /\ AllOf(slot', old', Raw) = Elements
    BY <2>1, <2>2, MovedOver
  <2> QED
    BY <1>1, <1>2, <2>2, <2>3, NowThere DEF PlacesOne
<1>3. CASE ~ Moving
  <2>1. /\ NewElement = [key |-> call.key, val |-> call.val] /\ call.op \in Insertions
        /\ call.key \in Key /\ call.val \in Value /\ pc # "place"
    BY <1>3 DEF NewElement, Sound, Layout, Course, ControlOK, RehashOK, KeyOps
  <2>2. old' = old /\ Done("inserted") /\ Live(old) = {}
    BY <1>3, Places DEF Placed, Sound
  <2>3. \A e \in Elements : e.key # call.key
    BY <1>3, <2>1 DEF Sound, MapInv, SearchInv
  <2>4. Distinct(s, old, NewElement)
    <3>1. \A i \in Live(s) : s[i] \in Elements
      BY DEF AllOf, ElementsOf
    <3> QED
      BY <2>1, <2>2, <2>3, <3>1 DEF Distinct
  <2>5. Distinct(slot', old, Raw) /\ AllOf(slot', old, Raw) = AllOf(s, old, NewElement)
    BY <1>1, <2>4, PutIn
  <2>6. AllOf(s, old, NewElement) = Elements \cup {NewElement}
    BY <1>1 DEF AllOf
  <2>7. UniqueKeys' /\ Elements' = Elements \cup {NewElement}
    BY <1>1, <2>2, <2>5, <2>6, NowThere
  <2> QED
    BY <1>3, <2>1, <2>2, <2>3, <2>7 DEF PlacesOne
<1> QED
  BY <1>2, <1>3

(* An element is placed in the empty slot at which its chain ends. *)
LEMMA PlaceInEmptyKeys ==
  ASSUME Sound, PlaceInEmpty
  PROVE  PlacesOne
<1>1. /\ Target \in 0..slotMask /\ ctrl[Target] = Empty /\ pc \in {"room", "place"} /\ Vacant = {}
      /\ TableOK /\ OwnWords /\ Settled /\ hand.elem = Raw
  BY TargetIs, Places DEF PlaceInEmpty, Sound, Layout, Stored
<1>2. Target \in Index /\ slot[Target] = Raw /\ slot \in SlotsOf(Index)
  <2>1. slot[Target] = Raw
    BY <1>1, UsedIsLive, Slots
  <2> QED
    BY <1>1, <2>1, Places DEF Index, Sound
<1>3. Placed /\ slot' = With(slot, Target, NewElement) /\ (pc = "room" => ~ Moving)
  BY DEF PlaceInEmpty, With, Sound, Layout, Course, RehashOK
<1>4. Distinct(slot, old, Raw) /\ AllOf(slot, old, Raw) = Elements
  BY <1>1 DEF Sound, MapInv, UniqueKeys, Elements
<1> HIDE DEF Target
<1> QED
  BY <1>1, <1>2, <1>3, <1>4, PlacedKeys

(* The element in the hand and the new one are put down. *)
LEMMA PutDownKeys ==
  ASSUME Sound, PutDown
  PROVE  PlacesOne
<1> DEFINE at == hand.at
           t == hand.target
           s == With(slot, at, hand.elem)
<1>1. /\ at \in Index /\ t \in Index /\ at # t /\ slot[t] = Raw /\ hand.elem \in Element /\ pc = "displace"
      /\ Placed /\ slot' = [slot EXCEPT ![at] = hand.elem, ![t] = NewElement]
  BY HandIs DEF PutDown, Sound, Index
<1>2. slot[at] = Raw
  <2>1. ctrl[at] = Empty /\ at \in (0..slotMask) \ Vacant /\ TableOK /\ OwnWords /\ Settled
    BY <1>1, HandIs DEF PutDown, Sound, Index
  <2> QED
    BY <2>1, UsedIsLive, Slots
<1>3. slot \in SlotsOf(Index)
  BY Places DEF Sound
<1>4. s \in SlotsOf(Index) /\ s[t] = Raw
  BY <1>1, <1>3, SlotSet
<1>5. Distinct(s, old, Raw) /\ AllOf(s, old, Raw) = Elements
  BY <1>1, <1>2, <1>3, PutIn DEF Elements, Sound, MapInv, UniqueKeys
<1> HIDE DEF at, t
<1>6. slot' = With(s, t, NewElement)
  BY <1>1, <1>3 DEF With, SlotsOf
<1> HIDE DEF s
<1> QED
  BY <1>1, <1>4, <1>5, <1>6, PlacedKeys

-----------------------------------------------------------------------------
(* What a search has shown *)

(* The element a search compares, when its chain has not ended. *)
LEMMA NotPassed ==
  ASSUME Sound, pc = "walk", ~ AtChainEnd, Misses
  PROVE  \A i \in Live(slot) : slot[i].key = probe.key => Gap(slotMask, i, probe.key) >= probe.dist + 1
<1>1. /\ probe.dist \in 0..slotMask /\ probe.key \in Key /\ Target \in 0..slotMask
      /\ Gap(slotMask, Target, probe.key) = probe.dist /\ Target \in Live(slot)
  BY PassesSlot DEF Sound
<1>2. slotMask \in Nat /\ Here = ctrl[Target]
  BY <1>1, WalkIsAt, Shape DEF Sound, Layout, Stored, SlotCapacity
<1>3. slot[Target].key # probe.key
  <2> SUFFICES ASSUME slot[Target].key = probe.key PROVE FALSE
    OBVIOUS
  <2>1. Settled /\ Vacant = {}
    BY DEF Settled, Vacant
  <2>2. Here.hash = CtrlHash[probe.key]
    <3>1. Here = WordOf(slotMask, Target, slot[Target])
      BY <1>1, <1>2, <2>1, UsedIsLive DEF Sound, Layout, Stored
    <3> QED
      BY <3>1 DEF WordOf, Ctrl
  <2>3. CtrlIndex \in Compared
    BY <2>2 DEF Compared, Here
  <2>4. \E e \in Read(Target) : e.key # probe.key
    BY <2>3 DEF Misses, Target
  <2>5. Read(Target) = {slot[Target]}
    BY <1>1, Slots DEF Read, Sound, Layout, Stored
  <2> QED
    BY <2>4, <2>5
<1> SUFFICES ASSUME NEW i \in Live(slot), slot[i].key = probe.key
             PROVE  Gap(slotMask, i, probe.key) >= probe.dist + 1
  OBVIOUS
<1>4. i \in 0..slotMask /\ i # Target
  BY <1>3, Slots DEF Sound, Layout, Stored
<1>5. Gap(slotMask, i, probe.key) >= probe.dist
  BY DEF Sound, MapInv, SearchInv
<1>6. Gap(slotMask, i, probe.key) \in Nat /\ Gap(slotMask, i, probe.key) # probe.dist
  BY <1>1, <1>2, <1>4, GapRange
<1> QED
  BY <1>1, <1>5, <1>6

(* Where the chain of a key ends, the key is not stored. *)
LEMMA EndIsAbsent ==
  ASSUME Sound, pc = "walk", AtChainEnd
  PROVE  \A e \in Elements : e.key # call.key
<1>1. probe.key = call.key /\ probe.key \in Key /\ probe.dist \in 0..SlotCapacity /\ ~ Moving
  <2>1. probe.key = call.key /\ call.op \in KeyOps /\ probe.dist \in Nat /\ probe.dist <= SlotCapacity /\ ~ Moving
    BY DEF Sound, Layout, Course, ProbeOK, ControlOK, RehashOK
  <2>2. call.key \in Key /\ SlotCapacity \in Nat
    BY <2>1, Shape DEF Sound, Layout, Stored, Course, ControlOK
  <2> QED
    BY <2>1, <2>2
<1>2. /\ slotMask \in Nat /\ SlotCapacity = slotMask + 1 /\ Settled /\ Vacant = {}
      /\ Target = Spot(slotMask, probe.key, probe.dist) /\ Target \in 0..slotMask /\ Here = ctrl[Target]
  BY <1>1, WalkIsAt, Shape DEF Sound, Layout, Stored, Settled, Vacant
<1>3. ctrl[Target].dist \in Int /\ ctrl[Target].dist < probe.dist
  <2>1. ctrl[Target].dist \in Int
    BY <1>2, WordIn DEF Sound, Layout, Stored, ShapeOK
  <2> QED
    BY <1>1, <1>2, <2>1 DEF AtChainEnd, InChain
<1>4. ASSUME NEW i \in Live(slot), slot[i].key = probe.key PROVE FALSE
  <2>1. i \in 0..slotMask /\ Along(ctrl, slotMask, i, probe.key)
        /\ ctrl[i].dist = Gap(slotMask, i, probe.key)
    BY <1>2, <1>4, Slots, UsedIsLive DEF Sound, Layout, Stored, ReachInv
  <2>2. Gap(slotMask, i, probe.key) \in 0..slotMask /\ Gap(slotMask, i, probe.key) >= probe.dist
    BY <1>1, <1>2, <1>4, <2>1, GapRange DEF Sound, MapInv, SearchInv
  <2>3. probe.dist \in 0..slotMask
    BY <1>1, <1>2, <2>2
  <2>4. Gap(slotMask, Target, probe.key) = probe.dist
    BY <1>1, <1>2, <2>3, GapSpot
  <2>5. CASE i = Target
    BY <1>1, <1>3, <2>1, <2>4, <2>5
  <2>6. CASE i # Target
    <3>1. Gap(slotMask, i, probe.key) # probe.dist
      BY <1>1, <1>2, <2>1, <2>4, <2>6, GapRange
    <3>2. Gap(slotMask, Target, probe.key) < Gap(slotMask, i, probe.key)
      BY <2>2, <2>3, <2>4, <3>1
    <3>3. ctrl[Target].dist >= Gap(slotMask, Target, probe.key)
      BY <1>2, <2>1, <3>2 DEF Along
    <3> QED
      BY <1>1, <1>3, <2>4, <3>3
  <2> QED
    BY <2>5, <2>6
<1>5. hand.elem = Raw /\ Live(old) = {}
  BY <1>1, Places DEF Sound
<1> QED
  BY <1>1, <1>4, <1>5 DEF Elements, AllOf, ElementsOf

(* A search for a key has passed nothing when it begins. *)
LEMMA SearchBegins ==
  ASSUME Layout', pc' = "walk", probe'.dist = 0
  PROVE  SearchInv'
<1>1. slotMask' \in Nat /\ probe'.key \in Key /\ slot' \in [0..slotMask' -> Element \cup {Raw}]
  BY DEF Layout, Stored, Course, TableOK, ProbeOK, ControlOK
<1>2. \A i \in Live(slot') : i \in 0..slotMask'
  BY <1>1 DEF Live
<1>3. \A i \in 0..slotMask' : Gap(slotMask', i, probe'.key) >= 0
  BY <1>1, GapRange
<1> QED
  BY <1>2, <1>3 DEF SearchInv, Live

(* Nothing is said of the other places of a call. *)
LEMMA NoSearch ==
  ASSUME pc' \notin {"walk", "room", "displace"}
  PROVE  SearchInv'
BY DEF SearchInv

(* The steps of a search. *)
LEMMA WalkSearch ==
  ASSUME Sound, WalkNext \/ NotFound
  PROVE  SearchInv'
<1>1. CASE WalkNext
  <2>1. /\ pc = "walk" /\ pc' = "walk" /\ slot' = slot /\ slotMask' = slotMask
        /\ probe'.key = probe.key /\ probe'.dist = probe.dist + 1
    BY <1>1 DEF WalkNext, Further, table, Sound, Layout, Course, ProbeOK
  <2>2. \A i \in Live(slot) : slot[i].key = probe.key => Gap(slotMask, i, probe.key) >= probe.dist + 1
    BY <1>1, NotPassed DEF WalkNext
  <2> QED
    BY <2>1, <2>2 DEF SearchInv, Live
<1>2. CASE NotFound
  <2>1. pc = "walk" /\ AtChainEnd /\ call' = call /\ pc' \in {"room", "done"} /\ Elements' = Elements
    <3>1. call.op \in KeyOps /\ pc = "walk"
      BY <1>2 DEF NotFound, Sound, Layout, Course, ControlOK
    <3>2. pc' \in {"room", "done"}
      BY <1>2, <3>1 DEF NotFound, Done, KeyOps
    <3>3. UNCHANGED <<slot, old, hand>>
      BY <1>2 DEF NotFound, table, rehash
    <3> QED
      BY <1>2, <3>1, <3>2, <3>3, StillThere DEF NotFound, Sound, MapInv
  <2> QED
    BY <2>1, EndIsAbsent DEF SearchInv
<1> QED
  BY <1>1, <1>2

-----------------------------------------------------------------------------
(* Steps of the table as steps of the map *)

AbstractStep == [Map!Next]_Map!mapVars
Mapped == MapInv' /\ AbstractStep

(* A step that keeps the elements and the result does not show. *)
LEMMA Silent ==
  ASSUME Sound, Layout', UniqueKeys', Elements' = Elements, ret' = ret
  PROVE  AbstractStep
<1>1. Contents' = Contents
  BY Keyed, KeyedNext DEF Sound, MapInv
<1> QED
  BY <1>1 DEF AbstractStep, Map!mapVars

(* A step with a result is an operation of the map. *)
LEMMA Effective ==
  ASSUME Sound, pc \notin {"done", "shift", "broken"}, Map!Operation
  PROVE  AbstractStep
<1>1. ret = NoResult
  BY DEF Sound, MapInv, ResultInv
<1> QED
  BY <1>1 DEF AbstractStep, Map!Next, Map!NoResult, NoResult

(* A step within a call. *)
LEMMA Quiet ==
  ASSUME Sound, Layout', UniqueKeys', Elements' = Elements, SearchInv', UNCHANGED <<call, pending, resume, ret>>,
         pc' \in {"done", "shift", "broken"} \/ pc \notin {"done", "shift", "broken"},
         pc' = "rehash" => pc = "rehash" \/ Moving
  PROVE  Mapped
<1>1. ResultInv'
  BY DEF Sound, MapInv, ResultInv, Moving
<1>2. AbstractStep
  BY Silent
<1> QED
  BY <1>1, <1>2 DEF Mapped, MapInv

(* The end of a call that leaves no search and no rehash. *)
LEMMA Finished ==
  ASSUME Sound, pc \notin {"done", "shift", "broken"}, UniqueKeys', UNCHANGED call,
         pc' \in {"done", "shift", "broken"}, pending' = {}, Map!Operation
  PROVE  Mapped
<1>1. ResultInv'
  BY DEF Sound, MapInv, ResultInv, Moving
<1>2. SearchInv'
  BY NoSearch
<1>3. AbstractStep
  BY Effective
<1> QED
  BY <1>1, <1>2, <1>3 DEF Mapped, MapInv

(* A call begins. *)
LEMMA BeginMaps ==
  ASSUME Sound, Layout', BeginKeyOp \/ BeginManagement
  PROVE  Mapped
<1>1. PICK op, k, v, n, flag : Begin(op, k, v, n, flag) /\ (op \in KeyOps \/ k = Absent)
  BY DEF BeginKeyOp, BeginManagement, KeyOps, Insertions
<1>2. /\ pc = "idle" /\ call'.op = op /\ call'.key = k /\ UNCHANGED <<slot, hand, old, pending, resume, ret>>
      /\ pc' = "manage" \/ (pc' = "walk" /\ probe'.dist = 0)
  BY <1>1 DEF Begin, table, rehash, StartProbe
<1>3. UniqueKeys' /\ Elements' = Elements
  BY <1>2, StillThere DEF Sound, MapInv
<1>4. SearchInv'
  BY <1>2, SearchBegins, NoSearch
<1>5. pending' = {}
  BY <1>2 DEF Sound, Layout, Course, RehashOK, Moving
<1>6. ResultInv'
  BY <1>1, <1>2, <1>5 DEF Sound, MapInv, ResultInv, Moving
<1>7. AbstractStep
  BY <1>2, <1>3, Silent
<1> QED
  BY <1>3, <1>4, <1>6, <1>7 DEF Mapped, MapInv

(* What is known while a search runs. *)
LEMMA Searching ==
  ASSUME Sound, pc = "walk"
  PROVE  call.op \in KeyOps /\ call.key \in Key /\ probe.key = call.key /\ pending = {} /\ hand.elem = Raw
BY Places DEF Sound, Layout, Course, ControlOK, ProbeOK, RehashOK, Moving

(* A search that goes on, and one that finds nothing. *)
LEMMA NotFoundMaps ==
  ASSUME Sound, Layout', WalkNext \/ NotFound
  PROVE  Mapped
<1>1. /\ pc = "walk" /\ UNCHANGED <<slot, hand, old, pending, resume, call>>
      /\ call.op \in KeyOps /\ call.key \in Key /\ pending = {}
  BY Searching DEF WalkNext, NotFound, table, rehash
<1>2. UniqueKeys' /\ Elements' = Elements /\ SearchInv'
  BY <1>1, StillThere, WalkSearch DEF Sound, MapInv
<1>3. CASE WalkNext
  BY <1>1, <1>2, <1>3, Quiet DEF WalkNext
<1>4. CASE NotFound
  <2>1. Contents[call.key] = Absent
    <3>1. \A e \in Elements : e.key # call.key
      BY <1>1, <1>4, EndIsAbsent DEF NotFound
    <3>2. Contents = ContentsOf(Elements)
      BY Keyed DEF Sound, MapInv
    <3> QED
      BY <1>1, <3>1, <3>2 DEF ContentsOf
  <2>2. Contents' = Contents
    BY <1>2, Keyed, KeyedNext DEF Sound, MapInv
  <2>3. CASE call.op \in Insertions
    <3>1. ret' = ret /\ pc' = "room"
      BY <1>4, <2>3 DEF NotFound, Insertions
    <3> QED
      BY <1>1, <1>2, <3>1, Quiet
  <2>4. CASE call.op = "find"
    <3>1. pc' = "done" /\ Map!Find(call.key)
      BY <1>4, <2>1, <2>2, <2>4 DEF NotFound, Done, Result, Map!Find, Map!Result, Insertions
    <3>2. Map!Operation
      BY <1>1, <3>1 DEF Map!Operation
    <3> QED
      BY <1>1, <1>2, <3>1, <3>2, Finished
  <2>5. CASE call.op = "erase"
    <3>1. Done("none")
      BY <1>4, <2>5 DEF NotFound, Insertions
    <3>2. Contents' = [Contents EXCEPT ![call.key] = Absent]
      BY <1>1, <2>1, <2>2 DEF Contents
    <3>3. pc' = "done" /\ Map!Erase(call.key)
      BY <2>1, <2>5, <3>1, <3>2 DEF Done, Result, Map!Erase, Map!Result, Map!Has
    <3>4. Map!Operation
      BY <1>1, <3>3 DEF Map!Operation
    <3> QED
      BY <1>1, <1>2, <3>3, <3>4, Finished
  <2> QED
    BY <1>1, <2>3, <2>4, <2>5 DEF KeyOps
<1> QED
  BY <1>3, <1>4

(* A search that finds its key. *)
LEMMA FoundMaps ==
  ASSUME Sound, MarksDiffer, Layout', ReturnFound \/ KeepExisting
  PROVE  Mapped
<1>1. PICK i \in Hits : /\ pc = "walk" /\ pc' = "done" /\ UNCHANGED <<slot, hand, old, pending, resume, call>>
                        /\ \/ call.op = "insert" /\ Done("exists")
                           \/ call.op = "find" /\ \E e \in Read(i) : Done(e.val)
  BY DEF ReturnFound, KeepExisting, Looking, Done, table, rehash
<1>2. Read(i) = {slot[i]} /\ slot[i].val = Contents[call.key] /\ slot[i].val # Absent /\ call.key \in Key
  BY <1>1, HitIs
<1>3. UniqueKeys' /\ Elements' = Elements /\ pending' = {}
  BY <1>1, StillThere, Searching DEF Sound, MapInv
<1>4. Contents' = Contents
  BY <1>3, Keyed, KeyedNext DEF Sound, MapInv
<1>5. Map!Operation => Mapped
  BY <1>1, <1>3, Finished
<1>6. Map!Keep(call.key) \/ Map!Find(call.key)
  <2>1. CASE call.op = "insert" /\ Done("exists")
    BY <1>2, <1>4, <2>1 DEF Done, Result, Map!Keep, Map!Result, Map!Has
  <2>2. CASE call.op = "find" /\ \E e \in Read(i) : Done(e.val)
    BY <1>2, <1>4, <2>2 DEF Done, Result, Map!Find, Map!Result
  <2> QED
    BY <1>1, <2>1, <2>2
<1> QED
  BY <1>2, <1>5, <1>6 DEF Map!Operation

(* insert_or_assign() gives its key another value. *)
LEMMA AssignMaps ==
  ASSUME Sound, MarksDiffer, Layout', AssignExisting
  PROVE  Mapped
<1>1. PICK i \in Hits : /\ pc = "walk" /\ pc' = "done" /\ UNCHANGED <<pending, call>>
                        /\ call.op = "insert_or_assign" /\ Done("exists")
  BY DEF AssignExisting, Looking, Done, rehash
<1>2. Contents[call.key] # Absent /\ call.key \in Key /\ pending' = {}
  BY <1>1, HitIs, Searching
<1>3. /\ UniqueKeys' /\ call.val \in Value
      /\ \E e \in Elements' : e.key = call.key /\ e.val = call.val
      /\ \A e \in Element : e.key # call.key => (e \in Elements <=> e \in Elements')
  BY AssignKeys
<1>4. /\ KeyedOnce(Elements) /\ Contents = ContentsOf(Elements)
      /\ KeyedOnce(Elements') /\ Contents' = ContentsOf(Elements')
  BY <1>3, Keyed, KeyedNext DEF Sound, MapInv
<1>5. Contents' = [Contents EXCEPT ![call.key] = Contents'[call.key]]
  BY <1>2, <1>3, <1>4, LookupChange
<1>6. Contents'[call.key] = call.val
  BY <1>3, <1>4, Lookup
<1>7. Map!Assign(call.key, call.val)
  BY <1>1, <1>2, <1>5, <1>6 DEF Done, Result, Map!Assign, Map!Result, Map!Has
<1>8. Map!Operation
  BY <1>2, <1>3, <1>7 DEF Map!Operation
<1> QED
  BY <1>1, <1>2, <1>3, <1>8, Finished

(* An erasure takes effect when it destroys the element; the shifting does not show. *)
LEMMA EraseMaps ==
  ASSUME Sound, MarksDiffer, Layout', EraseFound
  PROVE  Mapped
<1>1. PICK i \in Hits : /\ pc = "walk" /\ pc' = "shift" /\ UNCHANGED <<pending, call>>
                        /\ call.op = "erase" /\ Result("erased")
  BY DEF EraseFound, Looking, rehash
<1>2. Contents[call.key] # Absent /\ call.key \in Key /\ pending' = {}
  BY <1>1, HitIs, Searching
<1>3. /\ UniqueKeys' /\ \A e \in Elements' : e.key # call.key
      /\ \A e \in Element : e.key # call.key => (e \in Elements <=> e \in Elements')
  BY EraseKeys
<1>4. /\ KeyedOnce(Elements) /\ Contents = ContentsOf(Elements)
      /\ KeyedOnce(Elements') /\ Contents' = ContentsOf(Elements')
  BY <1>3, Keyed, KeyedNext DEF Sound, MapInv
<1>5. Contents' = [Contents EXCEPT ![call.key] = Contents'[call.key]]
  BY <1>2, <1>3, <1>4, LookupChange
<1>6. Contents'[call.key] = Absent
  BY <1>2, <1>3, <1>4 DEF ContentsOf
<1>7. Map!Erase(call.key)
  BY <1>1, <1>2, <1>5, <1>6 DEF Result, Map!Erase, Map!Result, Map!Has
<1>8. Map!Operation
  BY <1>2, <1>7 DEF Map!Operation
<1> QED
  BY <1>1, <1>2, <1>3, <1>8, Finished

(* A shift, and the two ways in which it ends. *)
LEMMA ShiftMaps ==
  ASSUME Sound, Layout', ShiftNext \/ ShiftBehindTable \/ ShiftDone
  PROVE  Mapped
<1>1. pc = "shift" /\ pc' \in {"shift", "done", "broken"} /\ UNCHANGED <<call, pending, resume, ret>>
  BY DEF ShiftNext, ShiftBehindTable, ShiftDone, Shifting, rehash
<1>2. UniqueKeys' /\ Elements' = Elements
  <2>1. CASE ShiftNext
    BY <2>1, ShiftKeys
  <2>2. CASE ShiftBehindTable
    BY <2>2, StillThere DEF ShiftBehindTable, table, rehash, Sound, MapInv
  <2>3. CASE ShiftDone
    BY <1>1, <2>3, StillThere, Places DEF ShiftDone, NoHand, rehash, Sound, MapInv
  <2> QED
    BY <2>1, <2>2, <2>3
<1>3. SearchInv'
  BY <1>1, NoSearch
<1> QED
  BY <1>1, <1>2, <1>3, Quiet

(* What a managing call and a growth do: they empty the map, leave everything to a rehash, are done
   at once, or throw. *)
LEMMA ChangesAre ==
  ASSUME Sound, Manage \/ Grow \/ Retry
  PROVE  /\ pc \in {"manage", "room", "retry"} /\ pending = {} /\ hand.elem = Raw /\ UNCHANGED <<call, hand>>
         /\ pc = "manage" => call.op \in Managements
         /\ pc # "manage" => call.op \in Insertions
         /\ \/ Clear
            \/ /\ \/ pc = "manage" /\ call.op # "clear" /\ Done("ok")
                  \/ Result("throws") /\ pc' \in {"done", "broken"} /\ (pc = "manage" => call.op # "clear")
               /\ UNCHANGED <<slot, old, pending, resume>>
            \/ \E c, m : \/ pc = "manage" /\ call.op # "clear" /\ CreateGroup(c, m, "done")
                         \/ CreateGroup(c, m, "walk")
<1>1. pc \in {"manage", "room", "retry"} /\ (pc = "manage" => call.op \in Managements)
  BY DEF Manage, Clear, Rehash, ShrinkToFit, MaxLoadFactor, Grow, Retry, Managing, Managements
<1>2. pending = {} /\ hand.elem = Raw /\ (pc # "manage" => call.op \in Insertions)
  BY <1>1, Places DEF Sound, Layout, Course, ControlOK, RehashOK, Moving
<1>3. ASSUME NEW c, NEW m, NEW after, Resize(c, m, after)
      PROVE  /\ UNCHANGED <<call, hand>>
             /\ \/ CreateGroup(c, m, after)
                \/ Result("throws") /\ pc' \in {"done", "broken"} /\ UNCHANGED <<slot, old, pending, resume>>
  BY <1>3 DEF Resize, GroupsThrow, SlotsThrow, table, rehash
<1>4. ASSUME NEW n, NEW m, RehashImpl(n, m)
      PROVE  /\ UNCHANGED <<call, hand>>
             /\ \/ \E c : CreateGroup(c, m, "done")
                \/ (Done("ok") \/ (Result("throws") /\ pc' \in {"done", "broken"})) /\ UNCHANGED <<slot, old, pending, resume>>
  <2>1. CASE Resize(CalcCapacity(n), m, "done")
    BY <1>3, <2>1
  <2>2. CASE Done("ok") /\ UNCHANGED <<table, call, probe, hand, rehash>>
    BY <2>2 DEF table, rehash
  <2> QED
    BY <1>4, <2>1, <2>2 DEF RehashImpl
<1>5. CASE Clear
  BY <1>1, <1>2, <1>5 DEF Clear
<1>6. CASE Rehash \/ ShrinkToFit \/ MaxLoadFactor
  <2>1. pc = "manage" /\ call.op # "clear"
    BY <1>6 DEF Rehash, ShrinkToFit, MaxLoadFactor, Managing
  <2>2. \/ \E n, m : RehashImpl(n, m)
        \/ Done("ok") /\ UNCHANGED <<table, call, probe, hand, rehash>>
    BY <1>6 DEF Rehash, ShrinkToFit, MaxLoadFactor
  <2>3. CASE \E n, m : RehashImpl(n, m)
    BY <1>1, <1>2, <1>4, <2>1, <2>3
  <2>4. CASE Done("ok") /\ UNCHANGED <<table, call, probe, hand, rehash>>
    BY <1>1, <1>2, <2>1, <2>4 DEF table, rehash
  <2> QED
    BY <2>2, <2>3, <2>4
<1>7. CASE Grow \/ Retry
  <2>1. pc \in {"room", "retry"} /\ \E c : Resize(c, mlf, "walk")
    BY <1>7 DEF Grow, Retry, GrowIfNecessary
  <2> QED
    BY <1>2, <1>3, <2>1
<1> QED
  BY <1>5, <1>6, <1>7 DEF Manage

(* clear() empties the map. *)
LEMMA ClearMaps ==
  ASSUME Sound, Layout', Clear
  PROVE  Mapped
<1>1. /\ pc = "manage" /\ call.op = "clear" /\ Done("ok") /\ UNCHANGED <<call, hand, old, pending, resume>>
      /\ \E c : slot' = AllRaw(c)
  BY DEF Clear, Managing, Recreate, ClearGroups, rehash
<1>2. pending = {} /\ hand.elem = Raw /\ Live(old) = {}
  BY <1>1, Places DEF Sound, Layout, Course, RehashOK, Moving
<1>3. Live(slot') = {} /\ Live(old') = {} /\ hand'.elem = Raw
  BY <1>1, <1>2 DEF AllRaw, Live
<1>4. UniqueKeys' /\ Elements' = {}
  <2>1. Distinct(slot', old', Raw) /\ AllOf(slot', old', Raw) = {}
    BY <1>3 DEF Distinct, AllOf, ElementsOf
  <2> QED
    BY <1>3, <2>1, NowThere
<1>5. Contents' = [k \in Key |-> Absent]
  BY <1>4, KeyedNext DEF ContentsOf
<1>6. call.key = Absent
  BY <1>1 DEF Sound, MapInv, ResultInv, KeyOps, Insertions
<1>7. Map!Clear("clear")
  BY <1>1, <1>5, <1>6 DEF Done, Result, Map!Clear, Map!Result
<1>8. Map!Operation
  BY <1>7 DEF Map!Operation
<1> QED
  BY <1>1, <1>2, <1>4, <1>8, Finished DEF Done

(* The other managing calls, and growth, leave the map or throw. *)
LEMMA ChangeMaps ==
  ASSUME Sound, Layout', Manage \/ Grow \/ Retry
  PROVE  Mapped
<1>1. /\ pc \in {"manage", "room", "retry"} /\ pending = {} /\ hand.elem = Raw /\ UNCHANGED <<call, hand>>
      /\ pc = "manage" => call.op \in Managements
      /\ pc # "manage" => call.op \in Insertions
  BY ChangesAre
<1>2. /\ pc = "manage" /\ call.op # "clear" => call.op \in Map!Managements /\ call.key = Absent
      /\ pc # "manage" => call.op \in Map!Insertions /\ call.key \in Key
  <2>1. call.op \in KeyOps => call.key \in Key
    BY DEF Sound, Layout, Course, ControlOK
  <2>2. call.op \notin KeyOps => call.key = Absent
    BY DEF Sound, MapInv, ResultInv
  <2> QED
    BY <1>1, <2>1, <2>2 DEF Managements, KeyOps, Insertions, Map!Managements, Map!Insertions
<1>3. CASE /\ \/ pc = "manage" /\ call.op # "clear" /\ Done("ok")
              \/ Result("throws") /\ pc' \in {"done", "broken"} /\ (pc = "manage" => call.op # "clear")
           /\ UNCHANGED <<slot, old, pending, resume>>
  <2>1. UniqueKeys' /\ Elements' = Elements /\ pc' \in {"done", "broken"} /\ pending' = {}
    BY <1>1, <1>3, StillThere DEF Sound, MapInv, Done
  <2>2. Contents' = Contents
    BY <2>1, Keyed, KeyedNext DEF Sound, MapInv
  <2>3. Map!Operation
    <3>1. CASE pc = "manage" /\ call.op # "clear" /\ Done("ok")
      <4>1. Map!Resize(call.op)
        BY <1>2, <2>2, <3>1 DEF Done, Result, Map!Resize, Map!Result
      <4> QED
        BY <1>2, <3>1, <4>1 DEF Map!Operation
    <3>2. CASE Result("throws") /\ (pc = "manage" => call.op # "clear")
      <4>1. Map!Throw(call.op, call.key)
        BY <2>2, <3>2 DEF Result, Map!Throw, Map!Result
      <4> QED
        BY <1>2, <3>2, <4>1 DEF Map!Operation
    <3> QED
      BY <1>3, <3>1, <3>2
  <2> QED
    BY <1>1, <2>1, <2>3, Finished
<1>4. ASSUME NEW c, NEW m, \/ pc = "manage" /\ call.op # "clear" /\ CreateGroup(c, m, "done")
                           \/ CreateGroup(c, m, "walk")
      PROVE  Mapped
  <2>1. PICK after \in {"done", "walk"} : CreateGroup(c, m, after) /\ (after = "done" => call.op \in Map!Managements)
    BY <1>2, <1>4
  <2>2. UniqueKeys' /\ Elements' = Elements /\ ret' = ret
    BY <1>1, <2>1, CreateKeys DEF Sound, MapInv
  <2>3. pc' = "rehash" /\ resume' = after
    BY <2>1 DEF CreateGroup
  <2>4. ResultInv'
    BY <1>1, <2>1, <2>2, <2>3 DEF Sound, MapInv, ResultInv
  <2>5. SearchInv' /\ AbstractStep
    BY <2>2, <2>3, NoSearch, Silent
  <2> QED
    BY <2>2, <2>4, <2>5 DEF Mapped, MapInv
<1> QED
  BY <1>3, <1>4, ChangesAre, ClearMaps

(* An element that is placed was in the old table, or is new to the map. *)
LEMMA PlacedMaps ==
  ASSUME Sound, Layout', PlaceInEmpty \/ PutDown
  PROVE  Mapped
<1>1. PlacesOne /\ Placed /\ pc \in {"room", "place", "displace"}
  BY PlaceInEmptyKeys, PutDownKeys DEF PlaceInEmpty, PutDown, AtTarget
<1>2. UNCHANGED <<call, resume>> /\ UniqueKeys'
  BY <1>1 DEF Placed, PlacesOne
<1>3. CASE Moving
  <2>1. Elements' = Elements /\ ret' = ret /\ pc' = "rehash"
    BY <1>1, <1>3 DEF Placed, PlacesOne
  <2>2. ResultInv'
    BY <1>1, <1>2, <1>3, <2>1 DEF Sound, MapInv, ResultInv
  <2>3. SearchInv' /\ AbstractStep
    BY <1>2, <2>1, NoSearch, Silent
  <2> QED
    BY <1>2, <2>2, <2>3 DEF Mapped, MapInv
<1>4. CASE ~ Moving
  <2>1. pending' = {}
    BY <1>1, <1>4 DEF Placed, Moving
  <2>2. /\ Elements' = Elements \cup {NewElement} /\ NewElement.key = call.key
        /\ NewElement.val = call.val /\ \A e \in Elements : e.key # call.key
        /\ call.op \in Insertions /\ call.key \in Key /\ call.val \in Value
        /\ Done("inserted")
    BY <1>1, <1>4 DEF PlacesOne
  <2>3. /\ KeyedOnce(Elements) /\ Contents = ContentsOf(Elements)
        /\ KeyedOnce(Elements') /\ Contents' = ContentsOf(Elements')
    BY <1>2, Keyed, KeyedNext DEF Sound, MapInv
  <2> HIDE DEF NewElement
  <2>4. Contents[call.key] = Absent
    BY <2>2, <2>3 DEF ContentsOf
  <2>5. \A e \in Element : e.key # call.key => (e \in Elements <=> e \in Elements')
    BY <2>2
  <2>6. Contents' = [Contents EXCEPT ![call.key] = Contents'[call.key]]
    BY <2>2, <2>3, <2>5, LookupChange
  <2>7. Contents'[call.key] = call.val
    BY <2>2, <2>3, Lookup
  <2>8. Map!Insert(call.op, call.key, call.val)
    BY <2>2, <2>4, <2>6, <2>7 DEF Done, Result, Map!Insert, Map!Result, Map!Has
  <2>9. Map!Operation
    BY <2>2, <2>8 DEF Map!Operation, Map!Insertions, Insertions
  <2> QED
    BY <1>1, <1>2, <2>1, <2>2, <2>9, Finished DEF Done
<1> QED
  BY <1>3, <1>4

(* Elements that change places stay the same elements. *)
LEMMA CarryMaps ==
  ASSUME Sound, Layout', Displace \/ PassOn \/ PlaceNext \/ MoveNext
  PROVE  Mapped
<1>1. CASE Displace \/ PassOn
  <2>1. UniqueKeys' /\ Elements' = Elements
    BY <1>1, DisplaceKeys, PassedKeys
  <2>2. /\ pc \in {"room", "place", "displace"} /\ pc' \in {"displace", "retry"}
        /\ UNCHANGED <<call, pending, resume, ret>> /\ (pc = "place" => Moving)
    BY <1>1 DEF Displace, PassOn, AtTarget, rehash, Sound, Layout, Course, RehashOK
  <2>3. SearchInv'
    BY <2>1, <2>2 DEF SearchInv, Sound, MapInv, Moving
  <2> QED
    BY <2>1, <2>2, <2>3, Quiet
<1>2. CASE PlaceNext \/ MoveNext
  <2>1. pc \in {"place", "rehash"} /\ pc' = "place" /\ UNCHANGED <<slot, hand, call, old, pending, resume, ret>>
    BY <1>2 DEF PlaceNext, MoveNext, table, rehash
  <2>2. UniqueKeys' /\ Elements' = Elements /\ SearchInv'
    BY <2>1, StillThere, NoSearch DEF Sound, MapInv
  <2> QED
    BY <2>1, <2>2, Quiet
<1> QED
  BY <1>1, <1>2

(* The end of a rehash is that of a managing call, or an insertion starts anew. *)
LEMMA RehashDoneMaps ==
  ASSUME Sound, Layout', RehashDone
  PROVE  Mapped
<1>1. pc = "rehash" /\ pending = {} /\ UNCHANGED <<call, pending>> /\ resume \in {"walk", "done"}
  BY DEF RehashDone, Moving, Sound, Layout, Course, RehashOK
<1>2. UniqueKeys' /\ Elements' = Elements
  BY RehashDoneKeys DEF Sound, MapInv
<1>3. CASE resume = "done"
  <2>1. Done("ok") /\ call.op \in Map!Managements
    BY <1>1, <1>3 DEF RehashDone, Sound, MapInv, ResultInv
  <2>2. call.key = Absent
    BY <2>1 DEF Sound, MapInv, ResultInv, KeyOps, Insertions, Map!Managements
  <2>3. Contents' = Contents
    BY <1>2, Keyed, KeyedNext DEF Sound, MapInv
  <2>4. Map!Resize(call.op)
    BY <2>1, <2>2, <2>3 DEF Done, Result, Map!Resize, Map!Result
  <2>5. Map!Operation
    BY <2>1, <2>4 DEF Map!Operation
  <2> QED
    BY <1>1, <1>2, <2>1, <2>5, Finished DEF Done
<1>4. CASE resume = "walk"
  <2>1. pc' = "walk" /\ probe'.dist = 0 /\ ret' = ret
    BY <1>4 DEF RehashDone, StartProbe
  <2>2. SearchInv' /\ AbstractStep
    BY <1>2, <2>1, SearchBegins, Silent
  <2>3. ResultInv'
    BY <1>1, <2>1 DEF Sound, MapInv, ResultInv, Moving
  <2> QED
    BY <1>2, <2>2, <2>3 DEF Mapped, MapInv
<1> QED
  BY <1>1, <1>3, <1>4

(* The caller is told the result. *)
LEMMA ReturnMaps ==
  ASSUME Sound, Layout', Return
  PROVE  Mapped
<1>1. pc = "done" /\ pc' = "idle" /\ UNCHANGED <<slot, hand, old, pending>> /\ call' = NoCall /\ ret' = NoResult
  BY DEF Return, table, rehash
<1>2. UniqueKeys' /\ Elements' = Elements /\ SearchInv'
  BY <1>1, StillThere, NoSearch DEF Sound, MapInv
<1>3. ResultInv'
  BY <1>1 DEF ResultInv, NoCall, Moving, Sound, Layout, Course, RehashOK
<1>4. Contents' = Contents
  BY <1>2, Keyed, KeyedNext DEF Sound, MapInv
<1>5. Map!Return
  BY <1>1, <1>4 DEF Map!Return, Map!NoResult, NoResult
<1> QED
  BY <1>2, <1>3, <1>5 DEF Mapped, MapInv, AbstractStep, Map!Next

(* Every step of the table is one of the map, or none. *)
LEMMA StepMaps ==
  ASSUME Sound, MarksDiffer, Layout', [Next]_vars
  PROVE  Mapped
<1>1. CASE UNCHANGED vars
  <2>1. UNCHANGED <<slotMask, slot, hand, old, pending, resume, pc, call, probe, ret>>
    BY <1>1 DEF vars, table, rehash
  <2>2. UniqueKeys' /\ Elements' = Elements
    BY <2>1, StillThere DEF Sound, MapInv
  <2>3. SearchInv'
    BY <2>1, <2>2 DEF Sound, MapInv, SearchInv, Moving, Live
  <2>4. ResultInv' /\ AbstractStep
    BY <2>1, <2>2, Silent DEF Sound, MapInv, ResultInv, Moving
  <2> QED
    BY <2>2, <2>3, <2>4 DEF Mapped, MapInv
<1>2. CASE Search \/ Erasing
  BY <1>2, NotFoundMaps, FoundMaps, AssignMaps, EraseMaps, ShiftMaps DEF Search, Erasing
<1>3. CASE Inserting \/ Rehashing
  BY <1>3, ChangeMaps, PlacedMaps, CarryMaps, RehashDoneMaps DEF Inserting, Rehashing
<1> QED
  BY <1>1, <1>2, <1>3, BeginMaps, ChangeMaps, ReturnMaps DEF Next, Step

(* A new table is the empty map. *)
LEMMA InitMaps == Init => MapInv /\ Map!Init
<1> SUFFICES ASSUME Init PROVE MapInv /\ Map!Init
  OBVIOUS
<1>1. /\ Live(slot) = {} /\ Live(old) = {} /\ hand.elem = Raw /\ ret = NoResult /\ call.key = Absent
      /\ pc = "idle" /\ pending = {}
  BY DEF Init, Live, AllRaw, NoOld, NoHand, NoCall
<1>2. Contents = [k \in Key |-> Absent]
  BY <1>1 DEF Contents
<1>3. MapInv
  BY <1>1 DEF MapInv, UniqueKeys, Distinct, SearchInv, ResultInv, Moving
<1> QED
  BY <1>1, <1>2, <1>3 DEF Map!Init, Map!NoResult, NoResult

(* What is stored, and the keys of it. *)
LEMMA AlwaysSound ==
  ASSUME Clears, MarksDiffer
  PROVE  Spec => []Sound
<1>1. Init => Sound
  BY InitLayout, InitMaps DEF Sound
<1>2. Sound /\ [Next]_vars => Sound'
  BY NextLayout, StepMaps DEF Sound, Mapped
<1> QED
  BY <1>1, <1>2, PTL DEF Spec

(***************************************************************************)
(* No key is stored twice: the elements in the slots, in the hand of an    *)
(* insertion and, during a rehash, in the old table have keys of their own.*)
(***************************************************************************)
THEOREM NoDuplicates ==
  ASSUME Clears, MarksDiffer
  PROVE  Spec => []UniqueKeys
<1>1. Spec => []Sound
  BY AlwaysSound
<1>2. Sound => UniqueKeys
  BY DEF Sound, MapInv
<1> QED
  BY <1>1, <1>2, PTL

(***************************************************************************)
(* A robin16 map implements the map: each call returns what a map returns, *)
(* and displacements, shifts, insertions that give up, growth and the      *)
(* moves of a rehash do not show.  An erasure whose shift comes to the end *)
(* of the table, and an allocation that fails halfway, end the behaviour   *)
(* but have not changed the mapping.                                       *)
(***************************************************************************)
THEOREM Refinement ==
  ASSUME Clears, MarksDiffer
  PROVE  Spec => ImplementsMap
<1>1. Spec => []Sound
  BY AlwaysSound
<1>2. Init => Map!Init
  BY InitMaps
<1>3. Sound /\ Sound' /\ [Next]_vars => [Map!Next]_Map!mapVars
  BY StepMaps DEF Mapped, AbstractStep, Sound
<1> QED
  BY <1>1, <1>2, <1>3, PTL DEF Spec, ImplementsMap, Map!Spec

=============================================================================
