------------------------- MODULE Flat16HashMapProofs -------------------------
(***************************************************************************)
(* What holds of a flat16 map whatever its keys, its sizes and the calls:  *)
(* the bytes and their copies are those of the slots, iteration visits     *)
(* every element once, and only an erasure can hide one.                   *)
(***************************************************************************)
EXTENDS Flat16HashMap, GroupQuadraticProberProofs

-----------------------------------------------------------------------------
(* Capacities *)

(* The widths are powers of two. *)
LEMMA Widths ==
  /\ GroupWidth \in Nat /\ GroupWidth >= 2 /\ IsPow2(GroupWidth)
  /\ MinCapacity \in Nat /\ MinCapacity >= 2 /\ IsPow2(MinCapacity)
  /\ DefaultCapacity \in Nat /\ IsPow2(DefaultCapacity) /\ DefaultCapacity >= MinCapacity
BY WidthAssumption

(* A quotient and what is left of it. *)
LEMMA QuotientRest ==
  ASSUME NEW d \in Nat \ {0}, NEW q \in Nat, NEW r \in 0..(d - 1)
  PROVE  ((d * q) + r) \div d = q
OBVIOUS

(* calc_capacity() rounds up to a power of two that is not too small. *)
LEMMA CalcCapacityRange ==
  ASSUME NEW n \in Nat
  PROVE  /\ CalcCapacity(n) \in Nat /\ IsPow2(CalcCapacity(n))
         /\ CalcCapacity(n) >= MinCapacity /\ CalcCapacity(n) >= n
<1> DEFINE w == AtLeast(n, MinCapacity)
<1>1. w \in Nat /\ w >= 1 /\ w >= MinCapacity /\ w >= n
  BY Widths DEF AtLeast
<1> HIDE DEF w
<1>2. \E p \in w..(2 * w) : IsPow2(p) /\ p < 2 * w
  BY <1>1, Pow2Between
<1>3. CalcCapacity(n) \in w..(2 * w) /\ IsPow2(CalcCapacity(n))
  BY <1>2 DEF CalcCapacity, w
<1> QED
  BY <1>1, <1>3, Widths

(* The capacities of tables, and the bytes that go with them. *)
ValidCapacity(c) == c \in Nat /\ IsPow2(c) /\ MinCapacity <= c /\ c <= MaxCapacity
Bytes(c) == 0..((GroupCount(c) + 1) * GroupWidth - 1)

(* The number of bytes there are for so many slots. *)
LEMMA CapacityShape ==
  ASSUME NEW c, ValidCapacity(c)
  PROVE  /\ c \in Nat /\ c >= 2 /\ c < WordSize /\ WordSize \in Nat
         /\ c < GroupWidth => Bytes(c) = 0..(2 * GroupWidth - 1) /\ 2 * c <= GroupWidth
         /\ c >= GroupWidth => /\ Bytes(c) = 0..(c + GroupWidth - 1)
                              /\ GroupCount(c) * GroupWidth = c
                              /\ \E q \in Nat : q >= 1 /\ c = q * GroupWidth /\ GroupCount(c) = q
<1>1. c \in Nat /\ c >= 2 /\ IsPow2(c) /\ c < WordSize /\ WordSize \in Nat
  BY Widths, CapacityAssumption DEF ValidCapacity
<1>2. CASE c < GroupWidth
  <2>1. GroupCount(c) = 1
    <3>1. c + GroupWidth - 1 = (GroupWidth * 1) + (c - 1) /\ c - 1 \in 0..(GroupWidth - 1)
      BY <1>1, <1>2, Widths
    <3> QED
      BY <3>1, Widths, QuotientRest DEF GroupCount
  <2>2. Bytes(c) = 0..(2 * GroupWidth - 1)
    BY <2>1 DEF Bytes
  <2>3. PICK q \in Nat : GroupWidth = c * q /\ IsPow2(q)
    BY <1>1, <1>2, Widths, Pow2Divides
  <2>4. q >= 2
    <3>1. q # 0 /\ q # 1
      BY <1>1, <1>2, <2>3, Widths
    <3> QED
      BY <3>1
  <2>5. PICK d \in Nat : q = 2 + d
    BY <2>4, q - 2 \in Nat, q = 2 + (q - 2)
  <2>6. GroupWidth = 2 * c + c * d /\ c * d \in Nat
    BY <1>1, <2>3, <2>5
  <2> QED
    BY <1>1, <1>2, <2>2, <2>6
<1>3. CASE c >= GroupWidth
  <2>1. PICK q \in Nat : c = GroupWidth * q /\ IsPow2(q)
    BY <1>1, <1>3, Widths, Pow2Divides
  <2>2. GroupCount(c) = q
    <3>1. c + GroupWidth - 1 = (GroupWidth * q) + (GroupWidth - 1) /\ GroupWidth - 1 \in 0..(GroupWidth - 1)
      BY <1>1, <2>1, Widths
    <3> QED
      BY <3>1, Widths, QuotientRest DEF GroupCount
  <2>3. (q + 1) * GroupWidth - 1 = c + GroupWidth - 1 /\ q * GroupWidth = c /\ q >= 1
    BY <2>1, Widths DEF IsPow2
  <2> QED
    BY <1>1, <1>3, <2>2, <2>3, Widths DEF Bytes
<1> QED
  BY <1>1, <1>2, <1>3, Widths

(* A load factor is less than one. *)
LEMMA FactorRange ==
  ASSUME NEW m \in LoadFactors
  PROVE  m \in Nat /\ m <= 65535 /\ LoadFactorRev[m] \in Nat
BY LoadFactorAssumption

(* The threshold is less than the capacity. *)
LEMMA ThresholdRange ==
  ASSUME NEW c \in Nat, c >= 1, NEW m \in LoadFactors
  PROVE  SlotThreshold(m, c) \in 0..(c - 1)
<1>1. m \in Nat /\ m <= 65535
  BY FactorRange
<1> DEFINE a == c * m
           q == a \div 65536
<1>2. a \in Nat /\ a <= c * 65535
  <2>1. a \in Nat /\ c * (65535 - m) \in Nat /\ c * 65535 = c * m + c * (65535 - m)
    BY <1>1
  <2> QED
    BY <2>1
<1> HIDE DEF a
<1>3. q \in Nat /\ a >= 65536 * q
  BY <1>2
<1> HIDE DEF q
<1>4. q < c
  BY <1>2, <1>3
<1>5. SlotThreshold(m, c) = q
  BY DEF SlotThreshold, LoadFactorAmplify, a, q
<1> QED
  BY <1>3, <1>4, <1>5

(* So many slots are asked for in terms of a load factor. *)
LEMMA RequireRange ==
  ASSUME NEW n \in Nat, NEW m \in LoadFactors
  PROVE  MinRequireCapacity(n, m) \in Nat
<1> DEFINE a == n * LoadFactorRev[m]
<1>1. a \in Nat
  BY FactorRange
<1>2. a \div 65536 \in Nat
  <2> HIDE DEF a
  <2> QED
    BY <1>1
<1> QED
  BY <1>2 DEF MinRequireCapacity, LoadFactorAmplify

(* An index on the circle. *)
LEMMA RoundRange ==
  ASSUME NEW i \in Nat, slotMask \in Nat
  PROVE  /\ RoundIndex(i) \in 0..slotMask
         /\ i <= slotMask => RoundIndex(i) = i
         /\ i \in SlotCapacity..(2 * SlotCapacity - 1) => RoundIndex(i) = i - SlotCapacity
<1>1. SlotCapacity \in Nat \ {0} /\ SlotCapacity = slotMask + 1
  BY DEF SlotCapacity
<1>2. RoundIndex(i) \in 0..slotMask
  BY <1>1, DivMod DEF RoundIndex
<1>3. ASSUME i <= slotMask PROVE RoundIndex(i) = i
  <2>1. i = (SlotCapacity * 0) + i /\ i \in 0..(SlotCapacity - 1)
    BY <1>1, <1>3
  <2> QED
    BY <1>1, <2>1, ModUnique DEF RoundIndex
<1>4. ASSUME i \in SlotCapacity..(2 * SlotCapacity - 1) PROVE RoundIndex(i) = i - SlotCapacity
  <2>1. i = (SlotCapacity * 1) + (i - SlotCapacity) /\ i - SlotCapacity \in 0..(SlotCapacity - 1)
    BY <1>1, <1>4
  <2> QED
    BY <1>1, <2>1, ModUnique DEF RoundIndex
<1> QED
  BY <1>2, <1>3, <1>4

-----------------------------------------------------------------------------
(* The invariant *)

Small == SlotCapacity < GroupWidth
Moving == pc \in {"rehash", "move"}

TableOK ==
    /\ slotMask \in Nat /\ ValidCapacity(SlotCapacity)
    /\ slot \in [0..slotMask -> Key \cup {Raw}]
    /\ leftEmpties \in 0..(WordSize - 1)
    /\ ctrl \in [DOMAIN ctrl -> 0..255]

SizeOK == slotSize = Cardinality(Live(slot))

ControlOK ==
    /\ mlf \in LoadFactors
    /\ pc \in {"idle", "manage", "walk", "room", "move", "rehash", "done", "broken"}
    /\ call.op \in KeyOps \cup {"none", "clear", "rehash", "shrink_to_fit", "max_load_factor"}
    /\ call.op \in KeyOps => call.key \in Key
    /\ call.n \in Nat
    /\ call.op = "max_load_factor" => call.n \in LoadFactors
    /\ pc \in {"walk", "room"} => call.op \in KeyOps /\ probe.key = call.key
    /\ pc = "room" => call.op = "insert"
    /\ pc = "manage" => call.op \notin KeyOps

ProbeOK ==
    /\ probe \in [key : Key \cup {Absent}, at : Nat]
    /\ pc \in {"walk", "room", "move"} => probe.key \in Key /\ probe.at \in 0..slotMask

RehashOK ==
    /\ resume \in {"walk", "done"} /\ (resume = "walk" => call.op = "insert")
    /\ old \in [DOMAIN old -> Key \cup {Raw}] /\ DOMAIN old \subseteq Nat /\ pending = Live(old)
    /\ pc = "move" => pending # {} /\ probe.key = old[NextPending]
    /\ ~ Moving /\ pc # "broken" => resume = "done" /\ old = NoOld

(* The bytes of the slots. *)
OwnBytes == \A i \in 0..slotMask :
    IF slot[i] = Raw THEN ctrl[i] \in {Empty, Deleted} ELSE ctrl[i] = CtrlHash[slot[i]]

(* The bytes that repeat those of the first slots. *)
Copies == \A i \in 0..slotMask : i < GroupWidth =>
    IF IsUsed(ctrl[i]) THEN ctrl[i + SlotCapacity] = ctrl[i] ELSE ~ IsUsed(ctrl[i + SlotCapacity])
ExactCopies == Small => \A i \in 0..slotMask :
    /\ ctrl[i + SlotCapacity] \in {ctrl[i], EndOf}
    /\ i # 0 => ctrl[i + SlotCapacity] = ctrl[i]

(* The bytes that repeat none, and are empty in a table that was cleared: then there are more
   empty slots than those left to use. *)
TailBytes == (2 * SlotCapacity)..(2 * GroupWidth - 1)
NotEmpty == {i \in 0..slotMask : ctrl[i] # Empty}
Tail == Small =>
    /\ \A i \in TailBytes : ctrl[i] \in {Empty, EndOf}
    /\ \/ \A i \in TailBytes : ctrl[i] = EndOf
       \/ ~ Moving /\ leftEmpties + Cardinality(NotEmpty) < SlotCapacity

EndByte == ~ Small => ctrl[SlotCapacity] \notin {Empty, Deleted}

BytesOK == pc # "broken" =>
    DOMAIN ctrl = Bytes(SlotCapacity) /\ OwnBytes /\ Copies /\ ExactCopies /\ Tail /\ EndByte

TypeInv == TableOK /\ SizeOK /\ ControlOK /\ ProbeOK /\ RehashOK
Layout == TypeInv /\ BytesOK

(* The bytes of elements are below those of the marks. *)
LEMMA HashRange ==
  ASSUME NEW k \in Key
  PROVE  Hash[k] \in Nat /\ CtrlHash[k] \in 0..127 /\ k # Raw
BY HashAssumption, KeyAssumption

(* The shape of the table of a layout. *)
LEMMA Shape ==
  ASSUME Layout
  PROVE  /\ slotMask \in Nat /\ slotMask >= 1 /\ SlotCapacity = slotMask + 1 /\ SlotCapacity < WordSize
         /\ WordSize \in Nat /\ GroupWidth \in Nat /\ GroupWidth >= 2
         /\ Small => Bytes(SlotCapacity) = 0..(2 * GroupWidth - 1) /\ 2 * SlotCapacity <= GroupWidth
         /\ ~ Small => Bytes(SlotCapacity) = 0..(SlotCapacity + GroupWidth - 1) /\ SlotCapacity >= GroupWidth
<1>1. slotMask \in Nat /\ ValidCapacity(SlotCapacity)
  BY DEF Layout, TypeInv, TableOK
<1>2. SlotCapacity = slotMask + 1
  BY DEF SlotCapacity
<1> QED
  BY <1>1, <1>2, CapacityShape, Widths DEF Small

(* A key lives in a slot. *)
LEMMA HomeRange ==
  ASSUME slotMask \in Nat, NEW k \in Key
  PROVE  Home(k) \in 0..slotMask
BY HashRange, RoundRange DEF Home, RoundIndex

(* The slots with an element are those whose byte says so. *)
LEMMA LiveIsUsed ==
  ASSUME Layout, pc # "broken"
  PROVE  /\ DOMAIN slot = 0..slotMask /\ Live(slot) = {i \in 0..slotMask : IsUsed(ctrl[i])}
         /\ \A i \in 0..slotMask : slot[i] # Raw <=> IsUsed(ctrl[i])
         /\ \A i \in Live(slot) : slot[i] \in Key /\ ctrl[i] = CtrlHash[slot[i]]
<1>1. DOMAIN slot = 0..slotMask /\ \A i \in 0..slotMask : slot[i] \in Key \cup {Raw}
  BY DEF Layout, TypeInv, TableOK
<1>2. \A i \in 0..slotMask : IF slot[i] = Raw THEN ctrl[i] \in {Empty, Deleted} ELSE ctrl[i] = CtrlHash[slot[i]]
  BY DEF Layout, BytesOK, OwnBytes
<1>3. \A i \in 0..slotMask : slot[i] # Raw <=> IsUsed(ctrl[i])
  <2> SUFFICES ASSUME NEW i \in 0..slotMask PROVE slot[i] # Raw <=> IsUsed(ctrl[i])
    OBVIOUS
  <2>1. CASE slot[i] = Raw
    BY <1>2, <2>1 DEF Empty, Deleted, IsUsed
  <2>2. CASE slot[i] # Raw
    <3>1. slot[i] \in Key /\ ctrl[i] = CtrlHash[slot[i]]
      BY <1>1, <1>2, <2>2
    <3>2. ctrl[i] \in 0..127
      BY <3>1, HashRange
    <3> QED
      BY <2>2, <3>2 DEF IsUsed
  <2> QED
    BY <2>1, <2>2
<1> QED
  BY <1>1, <1>2, <1>3 DEF Live

(* A group that begins with a slot lies within the bytes. *)
LEMMA GroupInside ==
  ASSUME Layout, NEW s \in 0..slotMask, NEW j \in Group(s)
  PROVE  /\ j \in Nat /\ j \in Bytes(SlotCapacity)
         /\ \/ j \in 0..slotMask /\ RoundIndex(j) = j
            \/ /\ j - SlotCapacity \in 0..slotMask /\ RoundIndex(j) = j - SlotCapacity
               /\ j - SlotCapacity < GroupWidth
            \/ Small /\ j \in TailBytes
<1>1. j \in Nat /\ s <= j /\ j <= s + GroupWidth - 1
  BY Shape DEF Group
<1>2. j \in Bytes(SlotCapacity)
  BY <1>1, Shape DEF Small
<1>3. CASE j <= slotMask
  BY <1>1, <1>2, <1>3, Shape, RoundRange
<1>4. CASE j > slotMask /\ j < 2 * SlotCapacity
  <2>1. j \in SlotCapacity..(2 * SlotCapacity - 1)
    BY <1>1, <1>4, Shape
  <2>2. j - SlotCapacity < GroupWidth
    BY <1>1, Shape
  <2> QED
    BY <1>1, <1>2, <2>1, <2>2, Shape, RoundRange
<1>5. CASE j >= 2 * SlotCapacity
  <2>1. Small
    BY <1>1, <1>5, Shape DEF Small
  <2>2. j <= 2 * GroupWidth - 1
    BY <1>1, <2>1, Shape DEF Small
  <2> QED
    BY <1>1, <1>2, <1>5, <2>1, <2>2, Shape DEF TailBytes
<1> QED
  BY <1>1, <1>3, <1>4, <1>5, Shape

(* A byte of a hash that a group shows is that of an element. *)
LEMMA UsedByte ==
  ASSUME Layout, pc # "broken", NEW s \in 0..slotMask, NEW j \in Group(s), IsUsed(ctrl[j])
  PROVE  RoundIndex(j) \in Live(slot) /\ ctrl[RoundIndex(j)] = ctrl[j]
<1>1. Copies /\ Tail
  BY DEF Layout, BytesOK
<1>2. ~ (Small /\ j \in TailBytes)
  BY <1>1 DEF Tail, IsUsed, Empty, EndOf
<1>3. CASE j \in 0..slotMask /\ RoundIndex(j) = j
  BY <1>3, LiveIsUsed
<1>4. CASE j - SlotCapacity \in 0..slotMask /\ RoundIndex(j) = j - SlotCapacity /\ j - SlotCapacity < GroupWidth
  <2>1. (j - SlotCapacity) + SlotCapacity = j
    BY GroupInside, Shape
  <2>2. IF IsUsed(ctrl[j - SlotCapacity]) THEN ctrl[j] = ctrl[j - SlotCapacity] ELSE ~ IsUsed(ctrl[j])
    BY <1>1, <1>4, <2>1 DEF Copies
  <2> QED
    BY <1>4, <2>2, LiveIsUsed
<1> QED
  BY <1>2, <1>3, <1>4, GroupInside

(* A byte of a slot without an element, except one that repeats none. *)
LEMMA UnusedByte ==
  ASSUME Layout, pc # "broken", NEW s \in 0..slotMask, NEW j \in Group(s),
         ctrl[j] \in {Empty, Deleted}, ctrl[j] = Deleted \/ j \notin TailBytes
  PROVE  /\ RoundIndex(j) \in 0..slotMask /\ slot[RoundIndex(j)] = Raw
         /\ Small => ctrl[RoundIndex(j)] = ctrl[j]
<1>1. Copies /\ Tail /\ ExactCopies
  BY DEF Layout, BytesOK
<1>2. ~ (Small /\ j \in TailBytes)
  BY <1>1 DEF Tail, Empty, EndOf, Deleted
<1>3. CASE j \in 0..slotMask /\ RoundIndex(j) = j
  <2>1. ~ IsUsed(ctrl[j])
    BY DEF IsUsed, Empty, Deleted
  <2> QED
    BY <1>3, <2>1, LiveIsUsed
<1>4. CASE j - SlotCapacity \in 0..slotMask /\ RoundIndex(j) = j - SlotCapacity /\ j - SlotCapacity < GroupWidth
  <2>1. (j - SlotCapacity) + SlotCapacity = j
    BY GroupInside, Shape
  <2>2. IF IsUsed(ctrl[j - SlotCapacity]) THEN ctrl[j] = ctrl[j - SlotCapacity] ELSE ~ IsUsed(ctrl[j])
    BY <1>1, <1>4, <2>1 DEF Copies
  <2>3. ~ IsUsed(ctrl[j - SlotCapacity])
    BY <2>2 DEF IsUsed, Empty, Deleted
  <2>4. Small => ctrl[j] \in {ctrl[j - SlotCapacity], EndOf}
    BY <1>1, <1>4, <2>1 DEF ExactCopies
  <2>5. Small => ctrl[j - SlotCapacity] = ctrl[j]
    BY <2>4 DEF Empty, Deleted, EndOf
  <2> QED
    BY <1>4, <2>3, <2>5, LiveIsUsed
<1> QED
  BY <1>2, <1>3, <1>4, GroupInside

-----------------------------------------------------------------------------
(* One byte is written, and its copy *)

(* The bytes when that of slot p has become a, and its copy b. *)
Write(p, a, b) ==
    [j \in DOMAIN ctrl |-> IF j = p THEN a
                           ELSE IF p < GroupWidth /\ j = p + SlotCapacity THEN b ELSE ctrl[j]]

(* Taking and leaving a slot write its byte and the copy. *)
LEMMA SetIsWrite ==
  ASSUME Layout, pc # "broken", NEW p \in 0..slotMask, NEW a
  PROVE  /\ SetUsed(p, a) = Write(p, a, a)
         /\ SetUnused(p, a) = Write(p, a, IF p = 0 THEN EndOf ELSE a)
<1>1. DOMAIN ctrl = Bytes(SlotCapacity) /\ ctrl = [j \in DOMAIN ctrl |-> ctrl[j]]
  BY DEF Layout, TypeInv, TableOK, BytesOK
<1>2. p \in DOMAIN ctrl /\ p # p + SlotCapacity
  BY <1>1, Shape DEF Small
<1>3. CASE p < GroupWidth
  <2>1. p + SlotCapacity \in DOMAIN ctrl
    BY <1>1, <1>3, Shape DEF Small
  <2> QED
    BY <1>1, <1>2, <1>3, <2>1 DEF SetUsed, SetUnused, Write
<1>4. CASE ~ (p < GroupWidth)
  BY <1>1, <1>2, <1>4 DEF SetUsed, SetUnused, Write
<1> QED
  BY <1>3, <1>4

(* What is written to a byte and its copy: of an element or of none. *)
Agrees(p, a, b) ==
    \/ a \in 0..127 /\ b = a /\ \E k \in Key : slot' = [slot EXCEPT ![p] = k] /\ a = CtrlHash[k]
    \/ /\ a \in {Empty, Deleted} /\ b = (IF p = 0 THEN EndOf ELSE a)
       /\ slot' = [slot EXCEPT ![p] = Raw]

(* The bytes agree with the slots when one of each has been written. *)
LEMMA BytesWritten ==
  ASSUME Layout, pc # "broken", NEW p \in 0..slotMask, NEW a, NEW b, Agrees(p, a, b),
         ctrl' = Write(p, a, b), slotMask' = slotMask
  PROVE  /\ DOMAIN ctrl' = Bytes(SlotCapacity)' /\ ctrl' \in [DOMAIN ctrl' -> 0..255]
         /\ slot' \in [0..slotMask' -> Key \cup {Raw}]
         /\ OwnBytes' /\ Copies' /\ ExactCopies' /\ EndByte'
         /\ Small' = Small /\ SlotCapacity' = SlotCapacity /\ TailBytes' = TailBytes
         /\ Small => \A i \in TailBytes : ctrl'[i] = ctrl[i]
         /\ NotEmpty' = IF a = Empty THEN NotEmpty \ {p} ELSE NotEmpty \cup {p}
<1>1. /\ DOMAIN ctrl = Bytes(SlotCapacity) /\ ctrl \in [DOMAIN ctrl -> 0..255]
      /\ slot \in [0..slotMask -> Key \cup {Raw}]
      /\ OwnBytes /\ Copies /\ ExactCopies /\ EndByte
  BY DEF Layout, TypeInv, TableOK, BytesOK
<1>2. /\ SlotCapacity' = SlotCapacity /\ Small' = Small /\ TailBytes' = TailBytes
      /\ Bytes(SlotCapacity)' = Bytes(SlotCapacity)
  BY DEF SlotCapacity, Small, TailBytes, Bytes, GroupCount
<1>3. a \in 0..254 /\ b \in 0..255
  BY DEF Agrees, Empty, Deleted, EndOf
<1>4. /\ DOMAIN ctrl' = DOMAIN ctrl
      /\ \A j \in DOMAIN ctrl : ctrl'[j] = IF j = p THEN a ELSE
                                           IF p < GroupWidth /\ j = p + SlotCapacity THEN b ELSE ctrl[j]
  BY DEF Write
<1>5. ctrl' \in [DOMAIN ctrl' -> 0..255]
  <2>1. \A j \in DOMAIN ctrl : ctrl[j] \in 0..255
    BY <1>1
  <2> QED
    BY <2>1, <1>3, <1>4 DEF Write
<1>6. /\ slot' \in [0..slotMask' -> Key \cup {Raw}]
      /\ \A i \in 0..slotMask : i # p => slot'[i] = slot[i]
  BY <1>1 DEF Agrees
<1>7. \A i \in 0..slotMask : i \in DOMAIN ctrl /\ (i < GroupWidth => i + SlotCapacity \in DOMAIN ctrl)
  BY <1>1, Shape DEF Small
<1>8. \A i \in 0..slotMask : i # p => /\ ctrl'[i] = ctrl[i]
                                      /\ i < GroupWidth => ctrl'[i + SlotCapacity] = ctrl[i + SlotCapacity]
  <2> SUFFICES ASSUME NEW i \in 0..slotMask, i # p
               PROVE  /\ ctrl'[i] = ctrl[i]
                      /\ i < GroupWidth => ctrl'[i + SlotCapacity] = ctrl[i + SlotCapacity]
    OBVIOUS
  <2>1. i # p + SlotCapacity /\ i + SlotCapacity # p /\ i + SlotCapacity # p + SlotCapacity
    BY Shape
  <2> QED
    BY <1>4, <1>7, <2>1
<1>9. /\ ctrl'[p] = a
      /\ p < GroupWidth => ctrl'[p + SlotCapacity] = b
  <2>1. p # p + SlotCapacity
    BY Shape
  <2> QED
    BY <1>4, <1>7, <2>1
<1>10. OwnBytes'
  <2> SUFFICES ASSUME NEW i \in 0..slotMask
               PROVE  IF slot'[i] = Raw THEN ctrl'[i] \in {Empty, Deleted} ELSE ctrl'[i] = CtrlHash[slot'[i]]
    BY DEF OwnBytes
  <2>1. CASE i # p
    BY <1>1, <1>6, <1>8, <2>1 DEF OwnBytes
  <2>2. CASE i = p
    <3>1. DOMAIN slot = 0..slotMask
      BY <1>1
    <3> QED
      BY <1>9, <2>2, <3>1, KeyAssumption DEF Agrees
  <2> QED
    BY <2>1, <2>2
<1>11. (IsUsed(a) => b = a) /\ (~ IsUsed(a) => ~ IsUsed(b) /\ b \in {a, EndOf} /\ (p # 0 => b = a))
  BY DEF Agrees, IsUsed, Empty, Deleted, EndOf
<1>12. Copies'
  <2> SUFFICES ASSUME NEW i \in 0..slotMask, i < GroupWidth
               PROVE  IF IsUsed(ctrl'[i]) THEN ctrl'[i + SlotCapacity] = ctrl'[i]
                                          ELSE ~ IsUsed(ctrl'[i + SlotCapacity])
    BY <1>2 DEF Copies
  <2>1. CASE i # p
    BY <1>1, <1>8, <2>1 DEF Copies
  <2>2. CASE i = p
    BY <1>9, <1>11, <2>2
  <2> QED
    BY <2>1, <2>2
<1>13. ExactCopies'
  <2> SUFFICES ASSUME Small, NEW i \in 0..slotMask
               PROVE  /\ ctrl'[i + SlotCapacity] \in {ctrl'[i], EndOf}
                      /\ i # 0 => ctrl'[i + SlotCapacity] = ctrl'[i]
    BY <1>2 DEF ExactCopies
  <2>1. i < GroupWidth
    BY Shape DEF Small
  <2>2. CASE i # p
    BY <1>1, <1>8, <2>1, <2>2 DEF ExactCopies
  <2>3. CASE i = p
    BY <1>9, <1>11, <2>1, <2>3
  <2> QED
    BY <2>2, <2>3
<1>14. EndByte'
  <2> SUFFICES ASSUME ~ Small PROVE ctrl'[SlotCapacity] \notin {Empty, Deleted}
    BY <1>2 DEF EndByte
  <2>1. 0 \in 0..slotMask /\ 0 < GroupWidth /\ 0 + SlotCapacity = SlotCapacity
    BY Shape
  <2>2. CASE p # 0
    BY <1>1, <1>8, <2>1, <2>2 DEF EndByte
  <2>3. CASE p = 0
    <3>1. ctrl'[SlotCapacity] = b
      BY <1>9, <2>1, <2>3
    <3> QED
      BY <2>3, <3>1 DEF Agrees, Empty, Deleted, EndOf
  <2> QED
    BY <2>2, <2>3
<1>15. Small => \A i \in TailBytes : ctrl'[i] = ctrl[i]
  <2> SUFFICES ASSUME Small, NEW i \in TailBytes PROVE ctrl'[i] = ctrl[i]
    OBVIOUS
  <2>1. i \in DOMAIN ctrl /\ i # p /\ i # p + SlotCapacity
    BY <1>1, Shape DEF TailBytes
  <2> QED
    BY <1>4, <2>1
<1>16. NotEmpty' = IF a = Empty THEN NotEmpty \ {p} ELSE NotEmpty \cup {p}
  BY <1>8, <1>9 DEF NotEmpty
<1> QED
  BY <1>1, <1>2, <1>4, <1>5, <1>6, <1>10, <1>12, <1>13, <1>14, <1>15, <1>16


(* The least element of a set, told by being one. *)
LEMMA LeastIs ==
  ASSUME NEW S, S \subseteq Nat, NEW x \in S, \A y \in S : x <= y
  PROVE  Sets!Min(S) = x
<1> DEFINE m == Sets!Min(S)
<1>1. m \in S /\ \A y \in S : m <= y
  BY DEF Sets!Min
<1> HIDE DEF m
<1>2. m <= x /\ x <= m /\ m \in Nat /\ x \in Nat
  BY <1>1
<1>3. m = x
  BY <1>2
<1> QED
  BY <1>3 DEF m

(* The least element of a set that has some. *)
LEMMA LeastOf ==
  ASSUME NEW S, S \subseteq Nat, S # {}
  PROVE  Sets!Min(S) \in S /\ \A y \in S : Sets!Min(S) <= y
<1>1. \E x \in S : \A y \in S : x <= y
  BY LeastElement
<1> QED
  BY <1>1 DEF Sets!Min

(* The greatest number of an interval. *)
LEMMA GreatestIs ==
  ASSUME NEW n \in Nat
  PROVE  Sets!Max(0..n) = n
<1> DEFINE m == Sets!Max(0..n)
<1>1. n \in 0..n /\ \A y \in 0..n : n >= y
  OBVIOUS
<1>2. m \in 0..n /\ \A y \in 0..n : m >= y
  BY <1>1 DEF Sets!Max
<1> HIDE DEF m
<1>3. m = n
  BY <1>1, <1>2
<1> QED
  BY <1>3 DEF m

-----------------------------------------------------------------------------
(* Whole tables that are new, or cleared *)

(* create_group() has made the table, for so many slots. *)
Fresh(c, m) ==
    /\ slotMask = c - 1 /\ ctrl = FreshCtrl(c) /\ slot = AllRaw(c)
    /\ slotSize = 0 /\ leftEmpties = SlotThreshold(m, c)

(* A new table has the layout, and no element. *)
LEMMA FreshTable ==
  \A c, m : ValidCapacity(c) /\ m \in LoadFactors /\ Fresh(c, m) =>
              TableOK /\ SizeOK /\ BytesOK /\ Live(slot) = {}
<1> SUFFICES ASSUME NEW c, NEW m, ValidCapacity(c), m \in LoadFactors, Fresh(c, m)
             PROVE  TableOK /\ SizeOK /\ BytesOK /\ Live(slot) = {}
  OBVIOUS
<1>1. /\ c \in Nat /\ c >= 2 /\ c < WordSize /\ WordSize \in Nat /\ GroupWidth \in Nat /\ GroupWidth >= 2
      /\ c < GroupWidth => Bytes(c) = 0..(2 * GroupWidth - 1) /\ 2 * c <= GroupWidth
      /\ c >= GroupWidth => Bytes(c) = 0..(c + GroupWidth - 1)
  BY CapacityShape, Widths
<1>2. slotMask = c - 1 /\ SlotCapacity = c /\ slotMask \in Nat
  BY <1>1 DEF Fresh, SlotCapacity
<1>3. /\ DOMAIN ctrl = Bytes(c)
      /\ \A i \in Bytes(c) : ctrl[i] = IF i = c \/ (c < GroupWidth /\ i >= 2 * c) THEN EndOf ELSE Empty
  BY DEF Fresh, FreshCtrl, Bytes
<1>4. ctrl \in [DOMAIN ctrl -> 0..255]
  BY <1>3 DEF Fresh, FreshCtrl, EndOf, Empty
<1>5. DOMAIN slot = 0..slotMask /\ (\A i \in 0..slotMask : slot[i] = Raw) /\ slot \in [0..slotMask -> Key \cup {Raw}]
  BY <1>2 DEF Fresh, AllRaw
<1>6. Live(slot) = {}
  BY <1>5 DEF Live
<1>7. SizeOK
  BY <1>6, FS_EmptySet DEF SizeOK, Fresh
<1>8. TableOK
  <2>1. leftEmpties \in 0..(WordSize - 1)
    BY <1>1, ThresholdRange DEF Fresh
  <2> QED
    BY <1>2, <1>4, <1>5, <2>1 DEF TableOK
<1>9. \A i \in 0..slotMask : /\ i \in Bytes(c) /\ ctrl[i] = Empty
                             /\ i < GroupWidth => i + c \in Bytes(c) /\ ctrl[i + c] \in {Empty, EndOf}
                             /\ c < GroupWidth /\ i # 0 => ctrl[i + c] = Empty
  <2> SUFFICES ASSUME NEW i \in 0..slotMask
               PROVE  /\ i \in Bytes(c) /\ ctrl[i] = Empty
                      /\ i < GroupWidth => i + c \in Bytes(c) /\ ctrl[i + c] \in {Empty, EndOf}
                      /\ c < GroupWidth /\ i # 0 => ctrl[i + c] = Empty
    OBVIOUS
  <2>1. i \in Bytes(c) /\ (i < GroupWidth => i + c \in Bytes(c)) /\ i # c /\ ~ (i >= 2 * c) /\ ~ (i + c >= 2 * c)
    BY <1>1, <1>2
  <2>2. i # 0 => i + c # c
    BY <1>1, <1>2
  <2> QED
    BY <1>1, <1>2, <1>3, <2>1, <2>2
<1>10. OwnBytes /\ Copies /\ ExactCopies
  <2>1. OwnBytes
    BY <1>5, <1>9 DEF OwnBytes
  <2>2. Copies
    BY <1>2, <1>9 DEF Copies, IsUsed, Empty, EndOf
  <2>3. ExactCopies
    BY <1>1, <1>2, <1>9 DEF ExactCopies, Small
  <2> QED
    BY <2>1, <2>2, <2>3
<1>11. Tail
  <2>1. ASSUME Small, NEW i \in TailBytes PROVE ctrl[i] = EndOf
    BY <1>1, <1>2, <1>3, <2>1 DEF Small, TailBytes
  <2> QED
    BY <2>1 DEF Tail
<1>12. EndByte
  <2>1. ~ Small => c \in Bytes(c)
    BY <1>1, <1>2 DEF Small
  <2> QED
    BY <1>2, <1>3, <2>1 DEF EndByte, Empty, Deleted, EndOf
<1> QED
  BY <1>2, <1>3, <1>6, <1>7, <1>8, <1>10, <1>11, <1>12 DEF BytesOK

(* So has a table that a step creates. *)
LEMMA FreshTableNext ==
  \A c, m : ValidCapacity(c) /\ m \in LoadFactors /\ Fresh(c, m)' =>
              TableOK' /\ SizeOK' /\ BytesOK' /\ Live(slot') = {}
<1>1. (\A c, m : ValidCapacity(c) /\ m \in LoadFactors /\ Fresh(c, m) =>
                   TableOK /\ SizeOK /\ BytesOK /\ Live(slot) = {})'
  BY FreshTable, PTL
<1> QED
  BY <1>1 DEF ValidCapacity, Live

(* So has a table whose groups were cleared, unless it has kept the byte of an element. *)
LEMMA ClearedTable ==
  ASSUME Layout, pc # "broken", ClearGroups, slotSize' = 0
  PROVE  TableOK' /\ SizeOK' /\ BytesOK' /\ Live(slot') = {}
<1> DEFINE cleared == Group(0) \cup {g + GroupWidth - 1 : g \in 0..(GroupCount(SlotCapacity) - 1)}
<1>1. /\ slotMask' = slotMask /\ SlotCapacity' = SlotCapacity
      /\ ctrl' = [i \in DOMAIN ctrl |-> IF i \in cleared THEN Empty ELSE ctrl[i]]
      /\ slot' = AllRaw(SlotCapacity) /\ leftEmpties' = SlotThreshold(mlf, SlotCapacity)
      /\ pc' = IF \E i \in DOMAIN ctrl \ cleared : IsUsed(ctrl[i]) THEN "broken" ELSE "done"
  BY DEF ClearGroups, SlotCapacity
<1>2. /\ TableOK /\ DOMAIN ctrl = Bytes(SlotCapacity) /\ OwnBytes /\ Copies /\ ExactCopies /\ Tail /\ EndByte
      /\ mlf \in LoadFactors
  BY DEF Layout, TypeInv, BytesOK, ControlOK
<1>3. Group(0) = 0..(GroupWidth - 1) /\ Group(0) \subseteq cleared
  BY Shape DEF Group
<1>4. DOMAIN slot' = 0..slotMask' /\ (\A i \in 0..slotMask' : slot'[i] = Raw)
      /\ slot' \in [0..slotMask' -> Key \cup {Raw}]
  BY <1>1, Shape DEF AllRaw
<1>5. Live(slot') = {}
  BY <1>4 DEF Live
<1>6. SizeOK'
  BY <1>5, FS_EmptySet DEF SizeOK, Live
<1>7. leftEmpties' \in 0..(SlotCapacity - 1)
  <2>1. SlotCapacity \in Nat /\ SlotCapacity >= 1
    BY Shape
  <2> QED
    BY <1>1, <1>2, <2>1, ThresholdRange
<1>8. TableOK'
  <2>1. ctrl' \in [DOMAIN ctrl' -> 0..255]
    BY <1>1, <1>2 DEF TableOK, Empty
  <2> QED
    BY <1>1, <1>2, <1>4, <1>7, <2>1, Shape DEF TableOK, ValidCapacity
<1>9. ASSUME pc' # "broken" PROVE BytesOK'
  <2> HIDE DEF cleared
  <2>1. /\ DOMAIN ctrl' = DOMAIN ctrl
        /\ \A i \in DOMAIN ctrl : ctrl'[i] = IF i \in cleared THEN Empty ELSE ctrl[i]
        /\ \A i \in DOMAIN ctrl : i \notin cleared => ~ IsUsed(ctrl[i])
    BY <1>1, <1>9
  <2>2. \A i \in DOMAIN ctrl : ~ IsUsed(ctrl'[i])
    BY <2>1 DEF IsUsed, Empty
  <2>3. /\ Small' = Small /\ TailBytes' = TailBytes /\ Bytes(SlotCapacity)' = Bytes(SlotCapacity)
    BY <1>1 DEF Small, TailBytes, Bytes, GroupCount
  <2>4. \A i \in 0..slotMask : i \in DOMAIN ctrl /\ (i < GroupWidth => i + SlotCapacity \in DOMAIN ctrl)
    BY <1>2, Shape DEF Small
  <2>5. OwnBytes'
    <3> SUFFICES ASSUME NEW i \in 0..slotMask PROVE ctrl'[i] \in {Empty, Deleted}
      BY <1>1, <1>4 DEF OwnBytes
    <3>1. CASE i \in cleared
      BY <2>1, <2>4, <3>1
    <3>2. CASE i \notin cleared
      <4>1. ctrl'[i] = ctrl[i] /\ ~ IsUsed(ctrl[i])
        BY <2>1, <2>4, <3>2
      <4> QED
        BY <1>2, <4>1, LiveIsUsed DEF OwnBytes
    <3> QED
      BY <3>1, <3>2
  <2>6. Copies'
    BY <1>1, <2>2, <2>4 DEF Copies
  <2>7. Small => /\ \A i \in 0..slotMask : ctrl'[i] = Empty /\ ctrl'[i + SlotCapacity] = Empty
                 /\ \A i \in TailBytes : ctrl'[i] \in {Empty, EndOf}
    <3> SUFFICES ASSUME Small
                 PROVE  /\ \A i \in 0..slotMask : ctrl'[i] = Empty /\ ctrl'[i + SlotCapacity] = Empty
                        /\ \A i \in TailBytes : ctrl'[i] \in {Empty, EndOf}
      OBVIOUS
    <3>1. \A i \in 0..slotMask : i \in cleared /\ i + SlotCapacity \in cleared /\ i < GroupWidth
      BY <1>3, Shape
    <3>2. \A i \in TailBytes : i \in DOMAIN ctrl
      BY <1>2, Shape DEF TailBytes
    <3> QED
      BY <1>2, <2>1, <2>4, <3>1, <3>2 DEF Tail
  <2>8. ExactCopies'
    BY <1>1, <2>3, <2>7 DEF ExactCopies
  <2>9. Tail'
    <3> SUFFICES ASSUME Small PROVE Tail'
      BY <2>3 DEF Tail
    <3>1. NotEmpty' = {}
      BY <1>1, <2>7 DEF NotEmpty
    <3>2. Cardinality(NotEmpty') = 0
      BY <3>1, FS_EmptySet
    <3>3. ~ Moving'
      BY <1>1 DEF Moving
    <3>4. leftEmpties' + Cardinality(NotEmpty') < SlotCapacity'
      BY <1>1, <1>7, <3>2, Shape
    <3> QED
      BY <2>3, <2>7, <3>3, <3>4 DEF Tail
  <2>10. EndByte'
    <3> SUFFICES ASSUME ~ Small PROVE ctrl'[SlotCapacity] \notin {Empty, Deleted}
      BY <1>1, <2>3 DEF EndByte
    <3>1. SlotCapacity \in DOMAIN ctrl
      BY <1>2, Shape
    <3>2. SlotCapacity \notin cleared
      <4>1. PICK q \in Nat : q >= 1 /\ SlotCapacity = q * GroupWidth /\ GroupCount(SlotCapacity) = q
        BY <1>2, CapacityShape, Shape DEF TableOK, Small
      <4>2. PICK d \in Nat : q = d + 1
        BY <4>1, q - 1 \in Nat, q = (q - 1) + 1
      <4>3. SlotCapacity = d * GroupWidth + GroupWidth /\ d * GroupWidth \in Nat /\ d * GroupWidth >= d
        <5>1. PICK w \in Nat : GroupWidth = w + 1
          BY Shape, GroupWidth - 1 \in Nat, GroupWidth = (GroupWidth - 1) + 1
        <5>2. d * GroupWidth = d * w + d /\ d * w \in Nat
          BY <4>2, <5>1
        <5>3. SlotCapacity = d * GroupWidth + GroupWidth
          BY <4>1, <4>2, Shape
        <5> QED
          BY <5>2, <5>3, <4>2
      <4>4. \A g \in 0..(GroupCount(SlotCapacity) - 1) : g + GroupWidth - 1 < SlotCapacity
        <5> SUFFICES ASSUME NEW g \in 0..(GroupCount(SlotCapacity) - 1) PROVE g + GroupWidth - 1 < SlotCapacity
          OBVIOUS
        <5>1. g \in Nat /\ g <= d
          BY <4>1, <4>2
        <5> QED
          BY <4>2, <4>3, <5>1, Shape
      <4> QED
        BY <1>3, <4>4, Shape DEF cleared
    <3> QED
      BY <1>2, <2>1, <3>1, <3>2 DEF EndByte
  <2> QED
    BY <1>2, <2>1, <2>3, <2>5, <2>6, <2>8, <2>9, <2>10 DEF BytesOK
<1>10. BytesOK'
  BY <1>9 DEF BytesOK
<1> QED
  BY <1>5, <1>6, <1>8, <1>10

-----------------------------------------------------------------------------
(* The slots that insertions take *)

(* What goes into the first empty slot of a group goes into a slot without an element. *)
LEMMA FirstEmptyPlace ==
  ASSUME Layout, pc \in {"room", "move"}, AtChainEnd, pc = "room" => ~ NeedGrow
  PROVE  /\ FirstEmpty \in 0..slotMask /\ slot[FirstEmpty] = Raw /\ (Small => ctrl[FirstEmpty] = Empty)
         /\ \E j \in Group(probe.at) : FirstEmpty = RoundIndex(j)
<1> DEFINE E == {i \in Group(probe.at) : ctrl[i] = Empty}
           j == Sets!Min(E)
<1>1. probe.at \in 0..slotMask /\ pc # "broken"
  BY DEF Layout, TypeInv, ProbeOK
<1>2. E # {} /\ E \subseteq Nat
  BY <1>1, GroupInside DEF AtChainEnd, HasAny
<1>3. j \in E /\ \A y \in E : j <= y
  <2> HIDE DEF E
  <2> QED
    BY <1>2, LeastOf
<1>4. FirstEmpty = RoundIndex(j)
  BY DEF FirstEmpty
<1> HIDE DEF j
<1>5. j \in Group(probe.at) /\ ctrl[j] = Empty /\ j \in Nat
  BY <1>2, <1>3
<1>6. ASSUME j \in TailBytes PROVE FALSE
  <2>1. /\ j >= 2 * SlotCapacity /\ j <= 2 * GroupWidth - 1 /\ Small
    BY <1>5, <1>6, Shape DEF TailBytes, Small
  <2>2. Tail /\ ExactCopies /\ leftEmpties \in 0..(WordSize - 1)
    BY <1>1 DEF Layout, TypeInv, TableOK, BytesOK
  <2>3. ~ Moving /\ leftEmpties + Cardinality(NotEmpty) < SlotCapacity
    BY <1>5, <1>6, <2>1, <2>2 DEF Tail, Empty, EndOf
  <2>4. leftEmpties >= 1
    BY <2>2, <2>3, Shape DEF Moving, NeedGrow
  <2>5. 1..slotMask \subseteq NotEmpty
    <3> SUFFICES ASSUME NEW i \in 1..slotMask, ctrl[i] = Empty PROVE FALSE
      BY Shape DEF NotEmpty
    <3>1. i \in 0..slotMask /\ i # 0
      BY Shape
    <3>2. ctrl[i + SlotCapacity] = Empty
      BY <2>1, <2>2, <3>1 DEF ExactCopies
    <3>3. i + SlotCapacity \in Group(probe.at) /\ i + SlotCapacity < j
      BY <1>1, <1>5, <2>1, <3>1, Shape DEF Group
    <3> QED
      BY <1>3, <1>5, <3>2, <3>3, Shape
  <2>6. /\ NotEmpty \subseteq 0..slotMask /\ IsFiniteSet(0..slotMask)
        /\ IsFiniteSet(1..slotMask) /\ Cardinality(1..slotMask) = slotMask
    BY Shape, FS_Interval DEF NotEmpty
  <2>7. IsFiniteSet(NotEmpty) /\ Cardinality(NotEmpty) \in Nat
    BY <2>6, FS_Subset, FS_CardinalityType
  <2>8. slotMask <= Cardinality(NotEmpty)
    BY <2>5, <2>6, <2>7, FS_Subset
  <2> QED
    BY <2>2, <2>3, <2>4, <2>7, <2>8, Shape
<1> QED
  BY <1>1, <1>4, <1>5, <1>6, UnusedByte

(* What goes into the first deleted slot on the way does too. *)
LEMMA DeletedPlace ==
  ASSUME Layout, pc = "room", DeletedOnTheWay # {}
  PROVE  LET d == Sets!Min(DeletedOnTheWay)
             p == RoundIndex(ByteAt(d))
         IN /\ d \in Walked /\ d \in Nat
            /\ p \in 0..slotMask /\ slot[p] = Raw /\ (Small => ctrl[p] # Empty)
<1>1. pc # "broken" /\ probe.key \in Key /\ probe.at \in 0..slotMask
  BY DEF Layout, TypeInv, ProbeOK
<1>2. Home(probe.key) \in 0..slotMask
  BY <1>1, HomeRange, Shape
<1>3. Walked \subseteq Nat
  BY DEF Walked
<1> DEFINE d == Sets!Min(DeletedOnTheWay)
<1>4. d \in Walked /\ d \in Nat /\ ctrl[ByteAt(d)] = Deleted
  <2>1. DeletedOnTheWay \subseteq Nat
    BY <1>3 DEF DeletedOnTheWay
  <2>2. d \in DeletedOnTheWay
    BY <2>1, LeastOf
  <2> QED
    BY <1>3, <2>2 DEF DeletedOnTheWay
<1> HIDE DEF d
<1> DEFINE r == d % GroupWidth
           s == RoundIndex(Home(probe.key) + d - r)
<1>5. r \in 0..(GroupWidth - 1) /\ r <= d
  <2>1. GroupWidth \in Nat \ {0}
    BY Shape
  <2>2. d = (GroupWidth * (d \div GroupWidth)) + r /\ d \div GroupWidth \in Nat /\ r \in 0..(GroupWidth - 1)
    BY <1>4, <2>1, DivMod
  <2> DEFINE q == d \div GroupWidth
             m == GroupWidth * q
  <2>3. m \in Nat
    BY <2>1, <2>2
  <2> HIDE DEF m, r
  <2> QED
    BY <1>4, <2>2, <2>3 DEF m
<1>6. ByteAt(d) = s + r
  BY DEF ByteAt
<1> HIDE DEF r
<1>7. s \in 0..slotMask
  <2>1. Home(probe.key) + d - r \in Nat
    BY <1>2, <1>4, <1>5
  <2> QED
    BY <2>1, RoundRange, Shape
<1> HIDE DEF s
<1>8. s + r \in Group(s)
  BY <1>5, <1>7, Shape DEF Group
<1> QED
  BY <1>1, <1>4, <1>6, <1>7, <1>8, UnusedByte DEF d, Deleted, Empty

-----------------------------------------------------------------------------
(* The way of a walk *)

Offset(n) == RoundIndex(Home(probe.key) + n * GroupWidth)

(* No group that the walk has left has an empty slot, and it has not been round the table. *)
WalkInv == pc \in {"walk", "room", "move"} =>
    \E n \in Nat : /\ n = 0 \/ n * GroupWidth < SlotCapacity
                   /\ probe.at = Offset(n)
                   /\ \A m \in 0..(n - 1) : ~ HasAny(Offset(m), Empty)

(* A search for the key comes to the slot. *)
Placed(p, k) == \A n \in 0..slotMask :
    n * GroupWidth + GroupWidth <= (p + SlotCapacity - Home(k)) % SlotCapacity =>
        ~ HasAny(RoundIndex(Home(k) + n * GroupWidth), Empty)

(* So far behind the home a slot is that was reached from there. *)
LEMMA Distance ==
  ASSUME slotMask \in Nat, NEW home \in 0..slotMask, NEW e \in 0..slotMask
  PROVE  (RoundIndex(home + e) + SlotCapacity - home) % SlotCapacity = e
<1>1. SlotCapacity = slotMask + 1
  BY DEF SlotCapacity
<1>2. \A i \in Nat : RoundIndex(i) = i % SlotCapacity
  BY DEF RoundIndex
<1>3. CASE home + e <= slotMask
  <2>1. RoundIndex(home + e) + SlotCapacity - home = e + SlotCapacity
    BY <1>1, <1>3, RoundRange
  <2>2. RoundIndex(e + SlotCapacity) = e
    BY <1>1, RoundRange
  <2> QED
    BY <1>1, <1>2, <2>1, <2>2
<1>4. CASE home + e > slotMask
  <2>1. RoundIndex(home + e) + SlotCapacity - home = e
    BY <1>1, <1>4, RoundRange
  <2>2. RoundIndex(e) = e
    BY RoundRange
  <2> QED
    BY <1>1, <1>2, <2>1, <2>2
<1> QED
  BY <1>3, <1>4

(* A number rounded first and then moved on is moved on as well as rounded last. *)
LEMMA RoundAdd ==
  ASSUME slotMask \in Nat, NEW a \in Nat, NEW b \in Nat
  PROVE  RoundIndex(RoundIndex(a) + b) = RoundIndex(a + b)
<1>1. SlotCapacity \in Nat \ {0}
  BY DEF SlotCapacity
<1> QED
  BY <1>1, ModAdd DEF RoundIndex

(* The multiples of a group: in order, and the last one before the end leaves a group. *)
LEMMA GroupOrder ==
  ASSUME Layout, NEW m \in Nat, NEW n \in Nat
  PROVE  /\ m * GroupWidth \in Nat /\ (n + 1) * GroupWidth = n * GroupWidth + GroupWidth
         /\ m * GroupWidth < n * GroupWidth => m < n
         /\ ~ Small /\ n * GroupWidth < SlotCapacity => n * GroupWidth + GroupWidth <= SlotCapacity
         /\ Small /\ n * GroupWidth < SlotCapacity => n = 0
<1>1. GroupWidth \in Nat /\ GroupWidth >= 2 /\ SlotCapacity \in Nat
  BY Shape
<1>2. m * GroupWidth \in Nat /\ n * GroupWidth \in Nat /\ (n + 1) * GroupWidth = n * GroupWidth + GroupWidth
  BY <1>1
<1>3. ASSUME NEW a \in Nat, NEW b \in Nat, a * GroupWidth < b * GroupWidth
      PROVE  /\ a < b
             /\ a * GroupWidth + GroupWidth <= b * GroupWidth
  <2>1. a < b
    <3> SUFFICES ASSUME a >= b PROVE FALSE
      OBVIOUS
    <3>1. PICK d \in Nat : a = b + d
      BY a - b \in Nat, a = b + (a - b)
    <3>2. a * GroupWidth = b * GroupWidth + d * GroupWidth /\ d * GroupWidth \in Nat /\ b * GroupWidth \in Nat
      BY <1>1, <3>1
    <3> QED
      BY <1>3, <3>2
  <2>2. PICK d \in Nat : b = (a + 1) + d
    BY <2>1, b - (a + 1) \in Nat, b = (a + 1) + (b - (a + 1))
  <2>3. b * GroupWidth = a * GroupWidth + GroupWidth + d * GroupWidth /\ d * GroupWidth \in Nat /\ a * GroupWidth \in Nat
    BY <1>1, <2>2
  <2> QED
    BY <1>1, <2>1, <2>3
<1>4. ASSUME ~ Small, n * GroupWidth < SlotCapacity PROVE n * GroupWidth + GroupWidth <= SlotCapacity
  <2>1. PICK q \in Nat : SlotCapacity = q * GroupWidth
    BY <1>4, CapacityShape, Shape DEF Layout, TypeInv, TableOK
  <2> QED
    BY <1>3, <1>4, <2>1
<1>5. ASSUME Small, n * GroupWidth < SlotCapacity PROVE n = 0
  <2>1. 1 * GroupWidth = GroupWidth /\ n * GroupWidth < 1 * GroupWidth
    BY <1>1, <1>2, <1>5 DEF Small
  <2>2. n < 1
    BY <1>3, <2>1
  <2> QED
    BY <2>2
<1> QED
  BY <1>2, <1>3, <1>4, <1>5

(* The walk goes to the next group, or is round the table and at the home again. *)
LEMMA WalkOn ==
  ASSUME Layout, WalkInv, pc \in {"walk", "move"}, ~ AtChainEnd
  PROVE  \E n \in Nat : /\ n = 0 \/ n * GroupWidth < SlotCapacity
                        /\ NextGroup(probe.at) = Offset(n)
                        /\ \A m \in 0..(n - 1) : ~ HasAny(Offset(m), Empty)
<1> DEFINE home == Home(probe.key)
<1>1. probe.key \in Key /\ home \in 0..slotMask /\ slotMask \in Nat /\ SlotCapacity = slotMask + 1
      /\ GroupWidth \in Nat /\ GroupWidth >= 2
  BY HomeRange, Shape DEF Layout, TypeInv, ProbeOK
<1> HIDE DEF home
<1>2. PICK n \in Nat : /\ n = 0 \/ n * GroupWidth < SlotCapacity
                       /\ probe.at = Offset(n)
                       /\ \A m \in 0..(n - 1) : ~ HasAny(Offset(m), Empty)
  BY DEF WalkInv
<1>3. \A m \in Nat : Offset(m) = RoundIndex(home + m * GroupWidth) /\ m * GroupWidth \in Nat
  BY <1>1 DEF Offset, home
<1>4. (n + 1) * GroupWidth = n * GroupWidth + GroupWidth /\ n * GroupWidth \in Nat
  BY GroupOrder
<1>5. NextGroup(probe.at) = Offset(n + 1)
  <2>1. NextGroup(probe.at) = RoundIndex((home + n * GroupWidth) + GroupWidth)
    <3>1. home + n * GroupWidth \in Nat
      BY <1>1, <1>4
    <3>2. RoundIndex(RoundIndex(home + n * GroupWidth) + GroupWidth) = RoundIndex((home + n * GroupWidth) + GroupWidth)
      BY <1>1, <3>1, RoundAdd
    <3> QED
      BY <1>2, <1>3, <3>2 DEF NextGroup
  <2>2. (home + n * GroupWidth) + GroupWidth = home + (n + 1) * GroupWidth
    BY <1>1, <1>4
  <2> QED
    BY <1>3, <2>1, <2>2
<1>6. CASE (n + 1) * GroupWidth < SlotCapacity
  <2>1. \A m \in 0..((n + 1) - 1) : ~ HasAny(Offset(m), Empty)
    <3>1. ~ HasAny(Offset(n), Empty)
      BY <1>2 DEF AtChainEnd
    <3> QED
      BY <1>2, <3>1
  <2> QED
    BY <1>5, <1>6, <2>1, n + 1 \in Nat
<1>7. CASE ~ ((n + 1) * GroupWidth < SlotCapacity)
  <2>1. \E e \in Nat : (n + 1) * GroupWidth = SlotCapacity * e
    <3>1. CASE ~ Small
      <4>1. n * GroupWidth < SlotCapacity
        BY <1>1, <1>2, Shape DEF Small
      <4>2. (n + 1) * GroupWidth = SlotCapacity * 1
        BY <1>1, <1>4, <1>7, <3>1, <4>1, GroupOrder
      <4> QED
        BY <4>2
    <3>2. CASE Small
      <4>1. n = 0
        BY <1>2, <3>2, GroupOrder
      <4>2. IsPow2(SlotCapacity) /\ IsPow2(GroupWidth) /\ SlotCapacity \in Nat /\ SlotCapacity <= GroupWidth
        BY <1>1, <3>2, Widths DEF Layout, TypeInv, TableOK, ValidCapacity, Small
      <4>3. PICK e \in Nat : GroupWidth = SlotCapacity * e
        BY <1>1, <4>2, Pow2Divides
      <4>4. (n + 1) * GroupWidth = GroupWidth
        BY <1>1, <4>1
      <4> QED
        BY <4>3, <4>4
    <3> QED
      BY <3>1, <3>2
  <2>2. PICK e \in Nat : (n + 1) * GroupWidth = SlotCapacity * e
    BY <2>1
  <2>3. (SlotCapacity * e + home) % SlotCapacity = home
    <3>1. SlotCapacity \in Nat \ {0} /\ home \in 0..(SlotCapacity - 1)
      BY <1>1
    <3> QED
      BY <3>1, ModUnique
  <2>4. Offset(n + 1) = home
    <3>1. SlotCapacity * e + home = home + (n + 1) * GroupWidth
      BY <1>1, <1>4, <2>2
    <3> QED
      BY <1>3, <2>3, <3>1 DEF RoundIndex
  <2>5. Offset(0) = home
    <3>1. home + 0 * GroupWidth = home
      BY <1>1
    <3> QED
      BY <1>1, <1>3, <3>1, RoundRange
  <2> QED
    BY <1>5, <2>4, <2>5
<1> QED
  BY <1>6, <1>7

(* A search comes to the slot that is that far on the way of the walk. *)
LEMMA OnTheWay ==
  ASSUME Layout, NEW n \in Nat, n = 0 \/ n * GroupWidth < SlotCapacity, probe.key \in Key,
         \A m \in 0..(n - 1) : ~ HasAny(Offset(m), Empty),
         NEW e \in 0..(n * GroupWidth + GroupWidth - 1)
  PROVE  Placed(RoundIndex(Home(probe.key) + e), probe.key)
<1> DEFINE home == Home(probe.key)
           p == RoundIndex(home + e)
<1>1. home \in 0..slotMask /\ slotMask \in Nat /\ SlotCapacity = slotMask + 1 /\ GroupWidth \in Nat /\ GroupWidth >= 2
  BY HomeRange, Shape
<1>2. n * GroupWidth \in Nat
  BY GroupOrder
<1> SUFFICES ASSUME NEW m \in 0..slotMask, m * GroupWidth + GroupWidth <= (p + SlotCapacity - home) % SlotCapacity
             PROVE  ~ HasAny(RoundIndex(home + m * GroupWidth), Empty)
  BY DEF Placed
<1> HIDE DEF home
<1>3. m \in Nat /\ m * GroupWidth \in Nat
  BY <1>1, GroupOrder
<1>4. p \in 0..slotMask
  BY <1>1, <1>2, RoundRange
<1>5. ~ Small
  <2>1. p + SlotCapacity - home \in Nat /\ SlotCapacity \in Nat \ {0}
    BY <1>1, <1>4
  <2>2. (p + SlotCapacity - home) % SlotCapacity \in 0..(SlotCapacity - 1)
    BY <2>1, DivMod
  <2> QED
    BY <1>1, <1>3, <2>2 DEF Small
<1>6. e \in 0..slotMask
  <2>1. n * GroupWidth < SlotCapacity
    BY <1>1, <1>5 DEF Small
  <2>2. n * GroupWidth + GroupWidth <= SlotCapacity
    BY <1>5, <2>1, GroupOrder
  <2> QED
    BY <1>1, <1>2, <2>2
<1>7. (p + SlotCapacity - home) % SlotCapacity = e
  BY <1>1, <1>6, Distance
<1>8. m * GroupWidth < n * GroupWidth
  BY <1>1, <1>2, <1>3, <1>7
<1>9. m < n
  BY <1>3, <1>8, GroupOrder
<1> QED
  BY <1>3, <1>9 DEF Offset, home

(* A search comes to the first empty slot of the group where its walk ends. *)
LEMMA EmptyOnTheWay ==
  ASSUME Layout, WalkInv, pc \in {"room", "move"}, NEW j \in Group(probe.at)
  PROVE  Placed(RoundIndex(j), probe.key)
<1> DEFINE home == Home(probe.key)
<1>1. /\ probe.key \in Key /\ probe.at \in 0..slotMask /\ home \in 0..slotMask /\ slotMask \in Nat
      /\ GroupWidth \in Nat
  BY HomeRange, Shape DEF Layout, TypeInv, ProbeOK
<1>2. PICK n \in Nat : /\ n = 0 \/ n * GroupWidth < SlotCapacity
                       /\ probe.at = Offset(n)
                       /\ \A m \in 0..(n - 1) : ~ HasAny(Offset(m), Empty)
  BY DEF WalkInv
<1>3. n * GroupWidth \in Nat /\ probe.at = RoundIndex(home + n * GroupWidth)
  BY <1>2, GroupOrder DEF Offset
<1> HIDE DEF home
<1>4. PICK r \in 0..(GroupWidth - 1) : j = probe.at + r
  BY <1>1, j - probe.at \in 0..(GroupWidth - 1), j = probe.at + (j - probe.at) DEF Group
<1>5. RoundIndex(j) = RoundIndex(home + (n * GroupWidth + r))
  <2>1. home + n * GroupWidth \in Nat /\ r \in Nat /\ home + n * GroupWidth + r = home + (n * GroupWidth + r)
    BY <1>1, <1>3
  <2> QED
    BY <1>1, <1>3, <1>4, <2>1, RoundAdd
<1>6. n * GroupWidth + r \in 0..(n * GroupWidth + GroupWidth - 1)
  BY <1>1, <1>3
<1> QED
  BY <1>1, <1>2, <1>5, <1>6, OnTheWay DEF home

(* And it comes to the first deleted slot that the walk has passed. *)
LEMMA DeletedOnItsWay ==
  ASSUME Layout, WalkInv, pc = "room", NEW d \in Walked
  PROVE  Placed(RoundIndex(ByteAt(d)), probe.key)
<1> DEFINE home == Home(probe.key)
<1>1. /\ probe.key \in Key /\ probe.at \in 0..slotMask /\ home \in 0..slotMask /\ slotMask \in Nat
      /\ GroupWidth \in Nat \ {0} /\ SlotCapacity = slotMask + 1
  BY HomeRange, Shape DEF Layout, TypeInv, ProbeOK
<1>2. PICK n \in Nat : /\ n = 0 \/ n * GroupWidth < SlotCapacity
                       /\ probe.at = Offset(n)
                       /\ \A m \in 0..(n - 1) : ~ HasAny(Offset(m), Empty)
  BY DEF WalkInv
<1>3. n * GroupWidth \in Nat /\ probe.at = RoundIndex(home + n * GroupWidth) /\ n * GroupWidth \in 0..slotMask
  <2>1. n * GroupWidth \in Nat /\ n * GroupWidth < SlotCapacity
    <3>1. 0 * GroupWidth = 0
      BY <1>1
    <3> QED
      BY <1>1, <1>2, <3>1, GroupOrder
  <2> QED
    BY <1>1, <1>2, <2>1 DEF Offset
<1>4. d \in 0..(n * GroupWidth + GroupWidth - 1)
  <2>1. (probe.at + SlotCapacity - home) % SlotCapacity = n * GroupWidth
    BY <1>1, <1>3, Distance
  <2> QED
    BY <2>1 DEF Walked, home
<1> DEFINE r == d % GroupWidth
<1>5. r \in Nat /\ d - r \in Nat
  <2> DEFINE q == d \div GroupWidth
             s == GroupWidth * q
  <2>1. d \in Nat
    BY <1>1, <1>3, <1>4
  <2>2. d = s + r /\ q \in Nat /\ r \in 0..(GroupWidth - 1)
    BY <1>1, <2>1, DivMod
  <2>3. s \in Nat
    BY <1>1, <2>2
  <2> HIDE DEF s, r
  <2> QED
    BY <1>1, <2>1, <2>2, <2>3
<1>6. ByteAt(d) = RoundIndex(home + d - r) + r
  BY DEF ByteAt
<1> HIDE DEF r, home
<1>7. RoundIndex(ByteAt(d)) = RoundIndex(home + d)
  <2>1. d \in Nat /\ home + d - r \in Nat /\ (home + d - r) + r = home + d
    BY <1>1, <1>3, <1>4, <1>5
  <2> QED
    BY <1>1, <1>5, <1>6, <2>1, RoundAdd
<1> QED
  BY <1>1, <1>2, <1>4, <1>7, OnTheWay DEF home

-----------------------------------------------------------------------------
(* What a step does to the table *)

Same == UNCHANGED table /\ (Moving' => Moving)
Counted == /\ pc = "rehash" /\ leftEmpties' = Minus(leftEmpties, slotSize) /\ ~ Moving'
           /\ UNCHANGED <<slotMask, ctrl, slot, slotSize>>
Creating == \E c, m : ValidCapacity(c) /\ m \in LoadFactors /\ Fresh(c, m)'
Breaking == /\ pc' = "broken" /\ \E c : ctrl' = FreshCtrl(c)
            /\ UNCHANGED <<slotMask, slot, slotSize, leftEmpties>>
Clearing == ClearGroups /\ slotSize' = 0
Erasing == \E p \in Live(slot), a \in {Empty, Deleted} :
    /\ call.op = "erase"
    /\ slot' = [slot EXCEPT ![p] = Raw] /\ ctrl' = SetUnused(p, a) /\ slotSize' = slotSize - 1
    /\ leftEmpties' = IF a = Empty THEN (leftEmpties + 1) % WordSize ELSE leftEmpties
    /\ slotMask' = slotMask /\ ~ Moving'
Putting == \E p \in 0..slotMask, k \in Key :
    /\ slot[p] = Raw /\ Put(p, k) /\ slotMask' = slotMask /\ (WalkInv => Placed(p, k))
    /\ \/ leftEmpties' = leftEmpties /\ (Moving' => Moving) /\ (Small => Moving \/ ctrl[p] # Empty)
       \/ leftEmpties >= 1 /\ leftEmpties' = leftEmpties - 1 /\ ~ Moving'

TableStep == Same \/ Counted \/ Creating \/ Breaking \/ Clearing \/ Erasing \/ Putting

(* So many elements are in a table. *)
LEMMA SizeRange ==
  ASSUME Layout
  PROVE  /\ IsFiniteSet(Live(slot)) /\ slotSize = Cardinality(Live(slot))
         /\ slotSize \in Nat /\ slotSize <= SlotCapacity
<1>1. Live(slot) \subseteq 0..slotMask
  BY DEF Live, Layout, TypeInv, TableOK
<1>2. IsFiniteSet(0..slotMask) /\ Cardinality(0..slotMask) = slotMask + 1
  BY Shape, FS_Interval
<1>3. slotSize = Cardinality(Live(slot))
  BY DEF Layout, TypeInv, SizeOK
<1>4. IsFiniteSet(Live(slot)) /\ Cardinality(Live(slot)) <= Cardinality(0..slotMask)
  BY <1>1, <1>2, FS_Subset
<1> QED
  BY <1>2, <1>3, <1>4, FS_CardinalityType, Shape

(* Resizing makes a new table, fails and changes nothing, or breaks the table. *)
LEMMA ResizeIs ==
  ASSUME Layout, pc # "broken", ~ Moving, NEW n \in Nat, NEW m \in LoadFactors, NEW after,
         Resize(CalcCapacity(n), m, after)
  PROVE  TableStep
<1> DEFINE c == CalcCapacity(n)
<1>1. c \in Nat /\ IsPow2(c) /\ c >= MinCapacity
  BY CalcCapacityRange
<1> HIDE DEF c
<1>2. CASE c <= MaxCapacity /\ CreateGroup(c, m, after)
  <2>1. ValidCapacity(c)
    BY <1>1, <1>2 DEF ValidCapacity
  <2>2. Fresh(c, m)'
    BY <1>2 DEF CreateGroup, Fresh, FreshCtrl, AllRaw, SlotThreshold, GroupCount
  <2> QED
    BY <2>1, <2>2 DEF TableStep, Creating
<1>3. CASE GroupsThrow
  BY <1>3 DEF GroupsThrow, Done, TableStep, Same, Moving
<1>4. CASE SlotsThrow(c)
  BY <1>4 DEF SlotsThrow, TableStep, Breaking
<1>5. (c <= MaxCapacity /\ CreateGroup(c, m, after)) \/ GroupsThrow \/ SlotsThrow(c)
  BY DEF Resize, c
<1> QED
  BY <1>2, <1>3, <1>4, <1>5

(* And so does a rehash, where the capacity is not what it was. *)
LEMMA RehashImplIs ==
  ASSUME Layout, pc # "broken", ~ Moving, NEW n \in Nat, NEW m \in LoadFactors, RehashImpl(n, m)
  PROVE  TableStep
<1>1. CASE Resize(CalcCapacity(n), m, "done")
  BY <1>1, ResizeIs
<1>2. CASE Done /\ UNCHANGED table
  BY <1>2 DEF Done, TableStep, Same, Moving
<1> QED
  BY <1>1, <1>2 DEF RehashImpl

(* The calls that manage the table. *)
LEMMA ManageIs ==
  ASSUME Layout, Manage
  PROVE  TableStep
<1>1. /\ slotSize \in Nat /\ mlf \in LoadFactors /\ call.n \in Nat
      /\ call.op = "max_load_factor" => call.n \in LoadFactors
  BY SizeRange DEF Layout, TypeInv, ControlOK
<1>2. pc = "manage" /\ pc # "broken" /\ ~ Moving
  BY DEF Manage, Clear, Rehash, ShrinkToFit, MaxLoadFactor, Managing, Moving
<1>3. \A n, m \in Nat : AtLeast(n, m) \in Nat
  BY DEF AtLeast
<1>4. CASE Clear
  <2>1. CASE Recreate
    <3>1. ValidCapacity(DefaultCapacity)
      BY Widths, CapacityAssumption DEF ValidCapacity
    <3>2. Fresh(DefaultCapacity, mlf)'
      <4>1. slotSize' = 0 /\ mlf' = mlf
        BY <1>4 DEF Clear
      <4> QED
        BY <2>1, <4>1 DEF Recreate, Fresh, FreshCtrl, AllRaw, SlotThreshold, GroupCount
    <3>3. \E c, m : ValidCapacity(c) /\ m \in LoadFactors /\ Fresh(c, m)'
      <4>1. ValidCapacity(DefaultCapacity) /\ mlf \in LoadFactors /\ mlf' = mlf
        BY <1>1, <1>4, <3>1 DEF Clear
      <4>2. PICK m0 \in LoadFactors : m0 = mlf
        BY <4>1
      <4>3. Fresh(DefaultCapacity, m0)'
        BY <4>1, <4>2, <3>2 DEF Fresh
      <4> QED
        BY <4>1, <4>2, <4>3
    <3> QED
      BY <3>3 DEF TableStep, Creating
  <2>2. CASE ClearGroups
    BY <1>4, <2>2 DEF Clear, TableStep, Clearing
  <2> QED
    BY <1>4, <2>1, <2>2 DEF Clear
<1>5. CASE Rehash
  <2> DEFINE n == IF call.flag THEN call.n ELSE MinRequireCapacity(call.n, mlf)
  <2>1. n \in Nat
    BY <1>1, RequireRange
  <2> HIDE DEF n
  <2>2. RehashImpl(AtLeast(n, slotSize), mlf)
    BY <1>5 DEF Rehash, n
  <2> QED
    BY <1>1, <1>2, <1>3, <2>1, <2>2, RehashImplIs
<1>6. CASE ShrinkToFit
  <2> DEFINE n == IF call.flag THEN slotSize ELSE MinRequireCapacity(slotSize, mlf)
  <2>1. n \in Nat
    BY <1>1, RequireRange
  <2> HIDE DEF n
  <2>2. RehashImpl(n, mlf)
    BY <1>6 DEF ShrinkToFit, n
  <2> QED
    BY <1>1, <1>2, <2>1, <2>2, RehashImplIs
<1>7. CASE MaxLoadFactor
  <2> DEFINE m == call.n
             n == AtLeast(MinRequireCapacity(slotSize, m), slotSize)
  <2>1. m \in LoadFactors
    BY <1>1, <1>7 DEF MaxLoadFactor, Managing
  <2>2. n \in Nat
    BY <1>1, <1>3, <2>1, RequireRange
  <2>3. (Done /\ UNCHANGED table) \/ RehashImpl(n, m) \/ DropDeletedNoGrow
    BY <1>7 DEF MaxLoadFactor
  <2> HIDE DEF m, n
  <2>4. CASE Done /\ UNCHANGED table
    BY <2>4 DEF Done, TableStep, Same, Moving
  <2>5. CASE DropDeletedNoGrow
    BY <2>5 DEF DropDeletedNoGrow, TableStep, Same, Moving
  <2>6. CASE RehashImpl(n, m)
    BY <1>2, <2>1, <2>2, <2>6, RehashImplIs
  <2> QED
    BY <2>3, <2>4, <2>5, <2>6
<1> QED
  BY <1>4, <1>5, <1>6, <1>7 DEF Manage

(* Searches change nothing but what an erasure takes out. *)
LEMMA SearchIs ==
  ASSUME Layout, Search
  PROVE  TableStep
<1>1. CASE WalkNext \/ NotFound \/ Found
  BY <1>1 DEF WalkNext, NotFound, Found, Done, TableStep, Same, Moving
<1>2. CASE EraseFound
  <2>1. /\ pc = "walk" /\ pc # "broken" /\ call.op = "erase" /\ pc' = "done"
        /\ probe.key \in Key /\ probe.at \in 0..slotMask
    BY <1>2 DEF EraseFound, Looking, Done, Layout, TypeInv, ProbeOK
  <2>2. PICK i \in Hits :
            /\ slot' = [slot EXCEPT ![i] = Raw]
            /\ ctrl' = SetUnused(i, IF MayBeEmptied(i) THEN Empty ELSE Deleted)
            /\ leftEmpties' = IF MayBeEmptied(i) THEN (leftEmpties + 1) % WordSize ELSE leftEmpties
            /\ slotSize' = slotSize - 1 /\ slotMask' = slotMask
    BY <1>2 DEF EraseFound, Decrement
  <2>3. i \in Live(slot)
    <3>1. PICK j \in Group(probe.at) : ctrl[j] = CtrlHash[probe.key] /\ i = RoundIndex(j)
      BY <2>2 DEF Hits, Compared
    <3>2. IsUsed(ctrl[j])
      BY <2>1, <3>1, HashRange DEF IsUsed
    <3> QED
      BY <2>1, <3>1, <3>2, UsedByte
  <2>4. PICK a \in {Empty, Deleted} : a = (IF MayBeEmptied(i) THEN Empty ELSE Deleted)
    OBVIOUS
  <2>5. a = Empty <=> MayBeEmptied(i)
    BY <2>4 DEF Empty, Deleted
  <2>6. /\ ctrl' = SetUnused(i, a)
        /\ leftEmpties' = IF a = Empty THEN (leftEmpties + 1) % WordSize ELSE leftEmpties
    BY <2>2, <2>4, <2>5
  <2> QED
    BY <2>1, <2>2, <2>3, <2>6 DEF TableStep, Erasing, Moving
<1> QED
  BY <1>1, <1>2 DEF Search

(* An insertion grows the table, fails, or puts an element into a slot that has none. *)
LEMMA InsertingIs ==
  ASSUME Layout, Inserting
  PROVE  TableStep
<1>1. /\ pc = "room" /\ pc # "broken" /\ ~ Moving /\ mlf \in LoadFactors /\ slotMask \in Nat
      /\ call.key \in Key /\ probe.key = call.key /\ leftEmpties \in 0..(WordSize - 1)
  <2>1. pc = "room"
    BY DEF Inserting, Grow, PutInDeleted, PutInEmpty
  <2> QED
    BY <2>1 DEF Layout, TypeInv, ControlOK, TableOK, Moving
<1>2. CASE Grow
  <2>1. TwiceTheSize \in Nat
    BY <1>1 DEF TwiceTheSize
  <2>2. CASE DropDeletedNoGrow
    BY <2>2 DEF DropDeletedNoGrow, TableStep, Same, Moving
  <2>3. CASE Resize(CalcCapacity(TwiceTheSize), mlf, "walk")
    BY <1>1, <2>1, <2>3, ResizeIs
  <2> QED
    BY <1>2, <2>2, <2>3 DEF Grow, ReorderOrGrow
<1>3. CASE PutInDeleted
  <2> DEFINE p == RoundIndex(ByteAt(Sets!Min(DeletedOnTheWay)))
  <2>1. p \in 0..slotMask /\ slot[p] = Raw /\ (Small => ctrl[p] # Empty)
    BY <1>1, <1>3, DeletedPlace DEF PutInDeleted
  <2>2. /\ Put(p, call.key) /\ slotMask' = slotMask /\ leftEmpties' = leftEmpties /\ pc' = "done"
    BY <1>3 DEF PutInDeleted, Done
  <2>3. WalkInv => Placed(p, call.key)
    BY <1>1, <1>3, DeletedPlace, DeletedOnItsWay DEF PutInDeleted
  <2> HIDE DEF p
  <2> QED
    BY <1>1, <2>1, <2>2, <2>3 DEF TableStep, Putting, Moving
<1>4. CASE PutInEmpty
  <2>1. FirstEmpty \in 0..slotMask /\ slot[FirstEmpty] = Raw
    BY <1>1, <1>4, FirstEmptyPlace DEF PutInEmpty
  <2>2. /\ Put(FirstEmpty, call.key) /\ slotMask' = slotMask /\ leftEmpties' = leftEmpties - 1 /\ pc' = "done"
    BY <1>4 DEF PutInEmpty, Done
  <2>3. leftEmpties >= 1
    BY <1>1, <1>4, Shape DEF PutInEmpty, NeedGrow
  <2>4. WalkInv => Placed(FirstEmpty, call.key)
    BY <1>1, <1>4, FirstEmptyPlace, EmptyOnTheWay DEF PutInEmpty
  <2> QED
    BY <1>1, <2>1, <2>2, <2>3, <2>4 DEF TableStep, Putting, Moving
<1> QED
  BY <1>2, <1>3, <1>4 DEF Inserting

(* The old slot whose element is moved holds one. *)
LEMMA PendingOne ==
  ASSUME RehashOK, pending # {}
  PROVE  NextPending \in pending /\ old[NextPending] \in Key /\ NextPending \in DOMAIN old
<1>1. pending \subseteq Nat /\ pending = Live(old) /\ old \in [DOMAIN old -> Key \cup {Raw}]
  BY DEF RehashOK, Live
<1>2. NextPending \in pending
  BY <1>1, LeastOf DEF NextPending
<1> QED
  BY <1>1, <1>2 DEF Live

(* A rehash puts elements into slots that have none, and then counts the slots left. *)
LEMMA RehashingIs ==
  ASSUME Layout, Rehashing
  PROVE  TableStep
<1>1. CASE MoveNext \/ MoveOn
  BY <1>1 DEF MoveNext, MoveOn, TableStep, Same, Moving
<1>2. CASE MoveHere
  <2>1. pc = "move" /\ Moving /\ pc' = "rehash" /\ probe.key \in Key /\ AtChainEnd
    BY <1>2 DEF MoveHere, Moving, Layout, TypeInv, ProbeOK
  <2>2. FirstEmpty \in 0..slotMask /\ slot[FirstEmpty] = Raw
    BY <2>1, FirstEmptyPlace
  <2>3. Put(FirstEmpty, probe.key) /\ slotMask' = slotMask /\ leftEmpties' = leftEmpties
    BY <1>2 DEF MoveHere
  <2>4. WalkInv => Placed(FirstEmpty, probe.key)
    BY <2>1, FirstEmptyPlace, EmptyOnTheWay
  <2> QED
    BY <2>1, <2>2, <2>3, <2>4 DEF TableStep, Putting
<1>3. CASE RehashDone
  <2>1. resume \in {"walk", "done"}
    BY DEF Layout, TypeInv, RehashOK
  <2> QED
    BY <1>3, <2>1 DEF RehashDone, TableStep, Counted, Moving
<1> QED
  BY <1>1, <1>2, <1>3 DEF Rehashing

(* Every step is one of these, and none starts from a broken table. *)
LEMMA StepIs ==
  ASSUME Layout, Next
  PROVE  TableStep /\ pc # "broken"
<1>1. CASE BeginKeyOp \/ BeginManagement
  BY <1>1 DEF BeginKeyOp, BeginManagement, Begin, TableStep, Same, Moving
<1>2. CASE Manage
  BY <1>2, ManageIs DEF Manage, Clear, Rehash, ShrinkToFit, MaxLoadFactor, Managing
<1>3. CASE Search
  BY <1>3, SearchIs DEF Search, WalkNext, NotFound, Found, EraseFound, Looking
<1>4. CASE Inserting
  BY <1>4, InsertingIs DEF Inserting, Grow, PutInDeleted, PutInEmpty
<1>5. CASE Rehashing
  BY <1>5, RehashingIs DEF Rehashing, MoveNext, MoveOn, MoveHere, RehashDone
<1>6. CASE Return
  BY <1>6 DEF Return, TableStep, Same, Moving
<1> QED
  BY <1>1, <1>2, <1>3, <1>4, <1>5, <1>6 DEF Next, Step

(* A step that writes one byte keeps the layout of the table. *)
LEMMA OneWritten ==
  ASSUME Layout, pc # "broken", Erasing \/ Putting
  PROVE  TableOK' /\ SizeOK' /\ BytesOK'
<1>0. /\ TableOK /\ Tail /\ DOMAIN slot = 0..slotMask /\ leftEmpties \in 0..(WordSize - 1)
      /\ WordSize \in Nat \ {0}
  BY Shape, LiveIsUsed DEF Layout, TypeInv, BytesOK, TableOK
<1>1. /\ NotEmpty \subseteq 0..slotMask /\ IsFiniteSet(NotEmpty) /\ Cardinality(NotEmpty) \in Nat
  <2>1. NotEmpty \subseteq 0..slotMask /\ IsFiniteSet(0..slotMask)
    BY FS_Interval, Shape DEF NotEmpty
  <2>2. IsFiniteSet(NotEmpty)
    BY <2>1, FS_Subset
  <2> QED
    BY <2>1, <2>2, FS_CardinalityType
<1>2. CASE Erasing
  <2>1. PICK p \in Live(slot), a \in {Empty, Deleted} :
          /\ slot' = [slot EXCEPT ![p] = Raw] /\ ctrl' = SetUnused(p, a) /\ slotSize' = slotSize - 1
          /\ leftEmpties' = IF a = Empty THEN (leftEmpties + 1) % WordSize ELSE leftEmpties
          /\ slotMask' = slotMask /\ ~ Moving'
    BY <1>2 DEF Erasing
  <2> DEFINE b == IF p = 0 THEN EndOf ELSE a
  <2>2. p \in 0..slotMask /\ slot[p] # Raw /\ ctrl[p] # Empty
    BY <2>1, LiveIsUsed DEF Live, IsUsed, Empty
  <2>3. ctrl' = Write(p, a, b)
    BY <2>1, <2>2, SetIsWrite
  <2>4. Agrees(p, a, b)
    BY <2>1 DEF Agrees
  <2> HIDE DEF b
  <2>5. /\ DOMAIN ctrl' = Bytes(SlotCapacity)' /\ ctrl' \in [DOMAIN ctrl' -> 0..255]
        /\ slot' \in [0..slotMask' -> Key \cup {Raw}]
        /\ OwnBytes' /\ Copies' /\ ExactCopies' /\ EndByte'
        /\ Small' = Small /\ SlotCapacity' = SlotCapacity /\ TailBytes' = TailBytes
        /\ Small => \A i \in TailBytes : ctrl'[i] = ctrl[i]
        /\ NotEmpty' = IF a = Empty THEN NotEmpty \ {p} ELSE NotEmpty \cup {p}
    BY <2>1, <2>2, <2>3, <2>4, BytesWritten
  <2>6. leftEmpties' \in 0..(WordSize - 1) /\ (a = Empty => leftEmpties' <= leftEmpties + 1)
    <3>1. leftEmpties + 1 = WordSize => (leftEmpties + 1) % WordSize = 0
      BY <1>0
    <3>2. leftEmpties + 1 < WordSize => (leftEmpties + 1) % WordSize = leftEmpties + 1
      BY <1>0
    <3> QED
      BY <1>0, <2>1, <3>1, <3>2
  <2>7. TableOK'
    BY <1>0, <2>1, <2>5, <2>6 DEF TableOK, ValidCapacity
  <2>8. SizeOK'
    <3>1. Live(slot') = Live(slot) \ {p}
      BY <1>0, <2>1 DEF Live
    <3>2. Cardinality(Live(slot')) = Cardinality(Live(slot)) - 1
      BY <2>1, <3>1, SizeRange, FS_RemoveElement
    <3> QED
      BY <2>1, <3>2, SizeRange DEF SizeOK, Live
  <2>9. Tail'
    <3>1. p \in NotEmpty
      BY <2>2 DEF NotEmpty
    <3>2. Cardinality(NotEmpty') = IF a = Empty THEN Cardinality(NotEmpty) - 1 ELSE Cardinality(NotEmpty)
      <4>1. NotEmpty \cup {p} = NotEmpty
        BY <3>1
      <4> QED
        BY <1>1, <2>5, <3>1, <4>1, FS_RemoveElement
    <3>3. leftEmpties' + Cardinality(NotEmpty') <= leftEmpties + Cardinality(NotEmpty)
      BY <1>0, <1>1, <2>1, <2>6, <3>2
    <3>4. Cardinality(NotEmpty') \in Nat
      BY <1>1, <2>5, FS_Subset, FS_CardinalityType, FS_AddElement, <3>1
    <3>5. leftEmpties + Cardinality(NotEmpty) < SlotCapacity => leftEmpties' + Cardinality(NotEmpty') < SlotCapacity'
      BY <1>0, <1>1, <2>5, <2>6, <3>3, <3>4, Shape
    <3> QED
      BY <1>0, <2>1, <2>5, <3>5 DEF Tail
  <2> QED
    BY <2>5, <2>7, <2>8, <2>9 DEF BytesOK
<1>3. CASE Putting
  <2>1. PICK p \in 0..slotMask, k \in Key :
          /\ slot[p] = Raw /\ Put(p, k) /\ slotMask' = slotMask
          /\ \/ leftEmpties' = leftEmpties /\ (Moving' => Moving) /\ (Small => Moving \/ ctrl[p] # Empty)
             \/ leftEmpties >= 1 /\ leftEmpties' = leftEmpties - 1 /\ ~ Moving'
    BY <1>3 DEF Putting
  <2> DEFINE a == CtrlHash[k]
  <2>2. a \in 0..127 /\ a # Empty /\ k # Raw
    BY HashRange DEF Empty
  <2>3. ctrl' = Write(p, a, a) /\ slot' = [slot EXCEPT ![p] = k] /\ slotSize' = slotSize + 1
    BY <2>1, SetIsWrite DEF Put
  <2>4. Agrees(p, a, a)
    BY <2>2, <2>3 DEF Agrees
  <2> HIDE DEF a
  <2>5. /\ DOMAIN ctrl' = Bytes(SlotCapacity)' /\ ctrl' \in [DOMAIN ctrl' -> 0..255]
        /\ slot' \in [0..slotMask' -> Key \cup {Raw}]
        /\ OwnBytes' /\ Copies' /\ ExactCopies' /\ EndByte'
        /\ Small' = Small /\ SlotCapacity' = SlotCapacity /\ TailBytes' = TailBytes
        /\ Small => \A i \in TailBytes : ctrl'[i] = ctrl[i]
        /\ NotEmpty' = NotEmpty \cup {p}
    BY <2>1, <2>2, <2>3, <2>4, BytesWritten
  <2>6. leftEmpties' \in 0..(WordSize - 1)
    BY <1>0, <2>1
  <2>7. TableOK'
    BY <1>0, <2>1, <2>5, <2>6 DEF TableOK, ValidCapacity
  <2>8. SizeOK'
    <3>1. Live(slot') = Live(slot) \cup {p} /\ p \notin Live(slot)
      BY <1>0, <2>1, <2>2, <2>3 DEF Live
    <3>2. Cardinality(Live(slot')) = Cardinality(Live(slot)) + 1
      BY <3>1, SizeRange, FS_AddElement
    <3> QED
      BY <2>3, <3>2, SizeRange DEF SizeOK, Live
  <2>9. Tail'
    <3>1. /\ Cardinality(NotEmpty') \in Nat /\ Cardinality(NotEmpty') <= Cardinality(NotEmpty) + 1
          /\ p \in NotEmpty => Cardinality(NotEmpty') = Cardinality(NotEmpty)
      <4>1. CASE p \in NotEmpty
        <5>1. NotEmpty' = NotEmpty
          BY <2>5, <4>1
        <5> QED
          BY <1>1, <5>1
      <4>2. CASE p \notin NotEmpty
        <5>1. Cardinality(NotEmpty') = Cardinality(NotEmpty) + 1
          BY <1>1, <2>5, <4>2, FS_AddElement
        <5> QED
          BY <1>1, <4>2, <5>1
      <4> QED
        BY <4>1, <4>2
    <3>2. ASSUME Small, ~ Moving, leftEmpties + Cardinality(NotEmpty) < SlotCapacity
          PROVE  ~ Moving' /\ leftEmpties' + Cardinality(NotEmpty') < SlotCapacity'
      <4>1. CASE leftEmpties' = leftEmpties /\ ctrl[p] # Empty /\ ~ Moving'
        BY <2>5, <3>1, <3>2, <4>1 DEF NotEmpty
      <4>2. CASE leftEmpties' = leftEmpties - 1 /\ ~ Moving'
        BY <1>0, <1>1, <2>5, <3>1, <3>2, <4>2, Shape
      <4> QED
        BY <2>1, <3>2, <4>1, <4>2
    <3> QED
      BY <1>0, <2>5, <3>2 DEF Tail
  <2> QED
    BY <2>5, <2>7, <2>8, <2>9 DEF BytesOK
<1> QED
  BY <1>2, <1>3

(* Every step keeps the layout of the table. *)
LEMMA TableNext ==
  ASSUME Layout, Next
  PROVE  TableOK' /\ SizeOK' /\ BytesOK'
<1>0. pc # "broken" /\ TableOK /\ SizeOK /\ BytesOK
  BY StepIs DEF Layout, TypeInv
<1>1. CASE Same
  <2>1. UNCHANGED <<slotMask, ctrl, slot, slotSize, leftEmpties>> /\ (Moving' => Moving)
    BY <1>1 DEF Same, table
  <2>2. TableOK' /\ SizeOK'
    BY <1>0, <2>1 DEF TableOK, SizeOK, ValidCapacity, SlotCapacity, Live
  <2>3. SlotCapacity' = SlotCapacity /\ Small' = Small /\ TailBytes' = TailBytes /\ NotEmpty' = NotEmpty
    BY <2>1 DEF SlotCapacity, Small, TailBytes, NotEmpty
  <2>4. OwnBytes' /\ Copies' /\ ExactCopies' /\ EndByte'
    BY <1>0, <2>1, <2>3 DEF BytesOK, OwnBytes, Copies, ExactCopies, EndByte
  <2>5. Tail' /\ DOMAIN ctrl' = Bytes(SlotCapacity)'
    BY <1>0, <2>1, <2>3 DEF BytesOK, Tail, Bytes, GroupCount
  <2> QED
    BY <2>2, <2>4, <2>5 DEF BytesOK
<1>2. CASE Counted
  <2>1. /\ UNCHANGED <<slotMask, ctrl, slot, slotSize>> /\ Moving
        /\ leftEmpties' = Minus(leftEmpties, slotSize)
    BY <1>2 DEF Counted, Moving
  <2>2. leftEmpties' \in 0..(WordSize - 1)
    <3> DEFINE a == leftEmpties - slotSize + WordSize
    <3>1. a \in Nat /\ WordSize \in Nat \ {0}
      BY <1>0, SizeRange, Shape DEF TableOK
    <3> HIDE DEF a
    <3>2. a % WordSize \in 0..(WordSize - 1)
      BY <3>1, DivMod
    <3> QED
      BY <2>1, <3>2 DEF Minus, a
  <2>3. TableOK' /\ SizeOK'
    BY <1>0, <2>1, <2>2 DEF TableOK, SizeOK, ValidCapacity, SlotCapacity, Live
  <2>4. SlotCapacity' = SlotCapacity /\ Small' = Small /\ TailBytes' = TailBytes
    BY <2>1 DEF SlotCapacity, Small, TailBytes
  <2>5. OwnBytes' /\ Copies' /\ ExactCopies' /\ EndByte'
    BY <1>0, <2>1, <2>4 DEF BytesOK, OwnBytes, Copies, ExactCopies, EndByte
  <2>6. Tail' /\ DOMAIN ctrl' = Bytes(SlotCapacity)'
    BY <1>0, <2>1, <2>4 DEF BytesOK, Tail, Bytes, GroupCount
  <2> QED
    BY <2>3, <2>5, <2>6 DEF BytesOK
<1>3. CASE Creating
  BY <1>3, FreshTableNext DEF Creating
<1>4. CASE Breaking
  <2>1. PICK c : ctrl' = FreshCtrl(c)
    BY <1>4 DEF Breaking
  <2>2. ctrl' \in [DOMAIN ctrl' -> 0..255]
    BY <2>1 DEF FreshCtrl, EndOf, Empty
  <2> QED
    BY <1>0, <1>4, <2>2 DEF Breaking, TableOK, SizeOK, BytesOK, ValidCapacity, SlotCapacity, Live
<1>5. CASE Clearing
  BY <1>0, <1>5, ClearedTable DEF Clearing
<1>6. CASE Erasing \/ Putting
  BY <1>0, <1>6, OneWritten
<1> QED
  BY <1>1, <1>2, <1>3, <1>4, <1>5, <1>6, StepIs DEF TableStep

-----------------------------------------------------------------------------
(* The call, the probe and the rehash *)

(* A call has the arguments of its operation wherever it has come to. *)
LEMMA ControlNext ==
  ASSUME Layout, Next
  PROVE  ControlOK'
<1>1. ControlOK /\ ProbeOK /\ RehashOK
  BY DEF Layout, TypeInv
<1>2. CASE BeginKeyOp
  <2>1. PICK k \in Key, op \in KeyOps : Begin(op, k, 0, FALSE)
    BY <1>2 DEF BeginKeyOp
  <2>2. /\ pc' = "walk" /\ mlf' = mlf /\ probe' = StartProbe(k)
        /\ call'.op = op /\ call'.key = k /\ call'.n = 0
    BY <2>1 DEF Begin
  <2> QED
    BY <1>1, <2>1, <2>2 DEF ControlOK, KeyOps, StartProbe
<1>3. CASE BeginManagement
  <2>1. PICK op \in {"clear", "rehash", "shrink_to_fit", "max_load_factor"}, n \in Nat, flag \in BOOLEAN :
          Begin(op, Absent, n, flag) /\ (op = "max_load_factor" => n \in LoadFactors)
    <3>1. RehashArgs \subseteq Nat /\ DestroyArgs \subseteq BOOLEAN /\ ReadOnlyArgs \subseteq BOOLEAN
          /\ FALSE \in BOOLEAN /\ \A m \in LoadFactors : m \in Nat
      BY ArgsAssumption, FactorRange
    <3> QED
      BY <1>3, <3>1 DEF BeginManagement
  <2>2. op \notin KeyOps
    BY DEF KeyOps
  <2>3. pc' = "manage" /\ mlf' = mlf /\ call'.op = op /\ call'.n = n
    BY <2>1, <2>2 DEF Begin
  <2> QED
    BY <1>1, <2>1, <2>2, <2>3 DEF ControlOK, KeyOps
<1>4. CASE Manage
  <2>1. /\ pc = "manage" /\ call' = call /\ pc' \in {"done", "broken", "rehash"}
        /\ mlf' \in LoadFactors
    <3>1. CASE Clear
      BY <1>1, <3>1 DEF Clear, Managing, Recreate, ClearGroups, Done, ControlOK
    <3>2. CASE Rehash
      BY <1>1, <3>2 DEF Rehash, Managing, RehashImpl, Resize, CreateGroup, GroupsThrow, SlotsThrow, Done, ControlOK
    <3>3. CASE ShrinkToFit
      BY <1>1, <3>3 DEF ShrinkToFit, Managing, RehashImpl, Resize, CreateGroup, GroupsThrow, SlotsThrow, Done, ControlOK
    <3>4. CASE MaxLoadFactor
      BY <1>1, <3>4 DEF MaxLoadFactor, Managing, RehashImpl, Resize, CreateGroup, GroupsThrow, SlotsThrow,
                         DropDeletedNoGrow, Done, ControlOK
    <3> QED
      BY <1>4, <3>1, <3>2, <3>3, <3>4 DEF Manage
  <2> QED
    BY <1>1, <2>1 DEF ControlOK
<1>5. CASE Search
  <2>1. /\ pc = "walk" /\ call' = call /\ mlf' = mlf /\ pc' \in {"walk", "room", "done"}
        /\ pc' = "room" => call.op = "insert"
        /\ probe' = probe \/ probe' = [probe EXCEPT !.at = NextGroup(@)]
    BY <1>5 DEF Search, WalkNext, NotFound, Found, EraseFound, Looking, Done
  <2>2. probe'.key = probe.key
    BY <1>1, <2>1 DEF ProbeOK
  <2> QED
    BY <1>1, <2>1, <2>2 DEF ControlOK
<1>6. CASE Inserting
  <2>1. pc = "room" /\ call' = call /\ mlf' = mlf /\ pc' \in {"done", "broken", "rehash"}
    BY <1>6 DEF Inserting, Grow, ReorderOrGrow, DropDeletedNoGrow, Resize, CreateGroup, GroupsThrow, SlotsThrow,
                PutInDeleted, PutInEmpty, Done
  <2> QED
    BY <1>1, <2>1 DEF ControlOK
<1>7. CASE MoveNext \/ MoveOn \/ MoveHere
  <2>1. call' = call /\ mlf' = mlf /\ pc' \in {"move", "rehash"}
    BY <1>7 DEF MoveNext, MoveOn, MoveHere
  <2> QED
    BY <1>1, <2>1 DEF ControlOK
<1>8. CASE RehashDone
  <2>1. /\ call' = call /\ mlf' = mlf /\ pc' \in {"walk", "done"}
        /\ pc' = "walk" => call.op = "insert" /\ probe'.key = call.key
    BY <1>1, <1>8 DEF RehashDone, RehashOK, StartProbe
  <2> QED
    BY <1>1, <2>1 DEF ControlOK, KeyOps
<1>9. CASE Return
  BY <1>1, <1>9 DEF Return, ControlOK, NoCall, KeyOps
<1> QED
  BY <1>2, <1>3, <1>4, <1>5, <1>6, <1>7, <1>8, <1>9 DEF Next, Step, Rehashing

(* A walk stays in the table, and begins at a slot. *)
LEMMA WalkStays ==
  ASSUME Layout, pc \in {"walk", "room", "move"}
  PROVE  NextGroup(probe.at) \in 0..slotMask
<1>1. probe.at + GroupWidth \in Nat
  BY Shape DEF Layout, TypeInv, ProbeOK
<1> QED
  BY <1>1, RoundRange, Shape DEF NextGroup

(* A probe is for the key whose search has begun. *)
LEMMA ProbeNext ==
  ASSUME Layout, Next
  PROVE  ProbeOK'
<1>1. ControlOK /\ ProbeOK /\ RehashOK /\ slotMask \in Nat
  BY Shape DEF Layout, TypeInv
<1>2. \A k \in Key : StartProbe(k) \in [key : Key, at : 0..slotMask]
  BY <1>1, HomeRange DEF StartProbe
<1>3. CASE slotMask' = slotMask /\ \E k \in Key : probe' = StartProbe(k)
  BY <1>2, <1>3 DEF ProbeOK
<1>4. CASE pc' \notin {"walk", "room", "move"} /\ probe' \in {probe, NoProbe}
  BY <1>1, <1>4 DEF ProbeOK, NoProbe
<1>5. CASE slotMask' = slotMask /\ pc \in {"walk", "room", "move"} /\ probe' \in {probe, [probe EXCEPT !.at = NextGroup(@)]}
  <2>1. probe.key \in Key /\ probe.at \in 0..slotMask /\ probe \in [key : Key \cup {Absent}, at : Nat]
    BY <1>1, <1>5 DEF ProbeOK
  <2>2. NextGroup(probe.at) \in 0..slotMask
    BY <1>5, WalkStays
  <2> QED
    BY <1>5, <2>1, <2>2 DEF ProbeOK
<1>6. CASE BeginKeyOp
  BY <1>3, <1>6 DEF BeginKeyOp, Begin, table
<1>7. CASE BeginManagement
  BY <1>4, <1>7 DEF BeginManagement, Begin, KeyOps
<1>8. CASE Manage
  <2>1. probe' = probe /\ pc' \in {"done", "broken", "rehash"}
    <3>1. CASE Clear
      BY <3>1 DEF Clear, Recreate, ClearGroups, Done
    <3>2. CASE Rehash \/ ShrinkToFit
      BY <3>2 DEF Rehash, ShrinkToFit, RehashImpl, Resize, CreateGroup, GroupsThrow, SlotsThrow, Done
    <3>3. CASE MaxLoadFactor
      BY <3>3 DEF MaxLoadFactor, RehashImpl, Resize, CreateGroup, GroupsThrow, SlotsThrow, DropDeletedNoGrow, Done
    <3> QED
      BY <1>8, <3>1, <3>2, <3>3 DEF Manage
  <2> QED
    BY <1>4, <2>1
<1>9. CASE Search
  BY <1>5, <1>9 DEF Search, WalkNext, NotFound, Found, EraseFound, Looking, table
<1>10. CASE Inserting
  BY <1>4, <1>10 DEF Inserting, Grow, ReorderOrGrow, DropDeletedNoGrow, Resize, CreateGroup, GroupsThrow, SlotsThrow,
                     PutInDeleted, PutInEmpty, Done
<1>11. CASE MoveNext
  BY <1>1, <1>3, <1>11, PendingOne DEF MoveNext, table
<1>12. CASE MoveOn
  BY <1>5, <1>12 DEF MoveOn, table
<1>13. CASE MoveHere
  BY <1>4, <1>13 DEF MoveHere
<1>14. CASE RehashDone
  <2>1. CASE resume = "walk"
    BY <1>1, <1>3, <1>14, <2>1 DEF RehashDone, RehashOK, ControlOK, KeyOps
  <2>2. CASE resume = "done"
    BY <1>4, <1>14, <2>2 DEF RehashDone
  <2> QED
    BY <1>1, <2>1, <2>2 DEF RehashOK
<1>15. CASE Return
  <2>1. pc' = "idle" /\ probe' = NoProbe
    BY <1>15 DEF Return
  <2> QED
    BY <1>4, <2>1
<1> QED
  BY <1>6, <1>7, <1>8, <1>9, <1>10, <1>11, <1>12, <1>13, <1>14, <1>15 DEF Next, Step, Rehashing

(* What a rehash has still to move is what is left in the old table. *)
LEMMA RehashNext ==
  ASSUME Layout, Next
  PROVE  RehashOK'
<1>1. ControlOK /\ ProbeOK /\ RehashOK /\ slotMask \in Nat /\ slot \in [0..slotMask -> Key \cup {Raw}]
  BY Shape DEF Layout, TypeInv, TableOK
<1>2. CASE UNCHANGED rehash /\ pc # "move" /\ pc' # "move" /\ ~ Moving /\ call' = call /\ pc # "broken"
  BY <1>1, <1>2 DEF RehashOK, rehash, Moving, Live
<1>3. ASSUME pc # "broken", ~ Moving, NEW c, NEW m, NEW after \in {"walk", "done"}, CreateGroup(c, m, after),
             call' = call, after = "walk" => call.op = "insert"
      PROVE  RehashOK'
  <2>1. old' = slot /\ pending' = {i \in 0..slotMask : IsUsed(ctrl[i])} /\ resume' = after /\ pc' = "rehash"
    BY <1>3 DEF CreateGroup
  <2>2. pending' = Live(old') /\ DOMAIN old' \subseteq Nat
    BY <1>1, <1>3, <2>1, LiveIsUsed
  <2> QED
    BY <1>1, <1>3, <2>1, <2>2 DEF RehashOK, Moving, Live
<1>4. ASSUME pc # "broken", ~ Moving, NEW c, NEW m, NEW after \in {"walk", "done"}, Resize(c, m, after),
             after = "walk" => call.op = "insert"
      PROVE  RehashOK'
  <2>1. CASE CreateGroup(c, m, after)
    BY <1>3, <1>4, <2>1 DEF Resize
  <2>2. CASE GroupsThrow \/ SlotsThrow(c)
    BY <1>2, <1>4, <2>2 DEF Resize, GroupsThrow, SlotsThrow, Done, Moving
  <2> QED
    BY <1>4, <2>1, <2>2 DEF Resize
<1>5. CASE BeginKeyOp \/ BeginManagement
  <2>1. UNCHANGED rehash /\ pc = "idle" /\ pc' \in {"walk", "manage"}
    BY <1>5 DEF BeginKeyOp, BeginManagement, Begin
  <2>2. resume = "done"
    BY <1>1, <2>1 DEF RehashOK, Moving
  <2> QED
    BY <1>1, <2>1, <2>2 DEF RehashOK, rehash, Moving, Live
<1>6. CASE Manage
  <2>1. pc = "manage" /\ pc # "broken" /\ ~ Moving
    BY <1>6 DEF Manage, Clear, Rehash, ShrinkToFit, MaxLoadFactor, Managing, Moving
  <2>2. CASE Clear
    BY <1>2, <2>1, <2>2 DEF Clear, Recreate, ClearGroups, Done
  <2>3. ASSUME NEW n, NEW m, RehashImpl(n, m) PROVE RehashOK'
    <3>1. CASE Resize(CalcCapacity(n), m, "done")
      BY <1>4, <2>1, <3>1
    <3>2. CASE Done /\ UNCHANGED <<table, call, probe, rehash>>
      BY <1>2, <2>1, <3>2 DEF Done
    <3> QED
      BY <2>3, <3>1, <3>2 DEF RehashImpl
  <2>4. CASE Rehash \/ ShrinkToFit
    BY <2>3, <2>4 DEF Rehash, ShrinkToFit
  <2>5. CASE MaxLoadFactor
    <3>1. CASE Done /\ UNCHANGED <<table, call, probe, rehash>>
      BY <1>2, <2>1, <3>1 DEF Done
    <3>2. CASE DropDeletedNoGrow
      BY <1>2, <2>1, <3>2 DEF DropDeletedNoGrow
    <3> QED
      BY <2>3, <2>5, <3>1, <3>2 DEF MaxLoadFactor
  <2> QED
    BY <1>6, <2>2, <2>4, <2>5 DEF Manage
<1>7. CASE Search
  BY <1>2, <1>7 DEF Search, WalkNext, NotFound, Found, EraseFound, Looking, Done, Moving
<1>8. CASE Inserting
  <2>1. pc = "room" /\ pc # "broken" /\ ~ Moving /\ call.op = "insert"
    BY <1>1, <1>8 DEF Inserting, Grow, PutInDeleted, PutInEmpty, Moving, ControlOK
  <2>2. CASE Grow
    <3>1. CASE DropDeletedNoGrow
      BY <1>2, <2>1, <3>1 DEF DropDeletedNoGrow
    <3>2. CASE Resize(CalcCapacity(TwiceTheSize), mlf, "walk")
      BY <1>4, <2>1, <3>2
    <3> QED
      BY <2>2, <3>1, <3>2 DEF Grow, ReorderOrGrow
  <2>3. CASE PutInDeleted \/ PutInEmpty
    BY <1>2, <2>1, <2>3 DEF PutInDeleted, PutInEmpty, Done
  <2> QED
    BY <1>8, <2>2, <2>3 DEF Inserting
<1>9. CASE MoveNext
  <2>1. UNCHANGED rehash /\ pc = "rehash" /\ pc' = "move" /\ pending # {} /\ probe' = StartProbe(old[NextPending]) /\ call' = call
    BY <1>9 DEF MoveNext
  <2>2. pending' # {} /\ probe'.key = old'[NextPending'] /\ Live(old') = Live(old)
    BY <2>1 DEF StartProbe, rehash, NextPending, Live
  <2> QED
    BY <1>1, <2>1, <2>2 DEF RehashOK, rehash, Moving
<1>10. CASE MoveOn
  <2>1. UNCHANGED rehash /\ pc = "move" /\ pc' = "move" /\ call' = call /\ probe' = [probe EXCEPT !.at = NextGroup(@)]
    BY <1>10 DEF MoveOn
  <2>2. probe'.key = probe.key /\ NextPending' = NextPending /\ Live(old') = Live(old)
    BY <1>1, <2>1 DEF ProbeOK, NextPending, rehash, Live
  <2> QED
    BY <1>1, <2>1, <2>2 DEF RehashOK, rehash, Moving
<1>11. CASE MoveHere
  <2>1. /\ pc = "move" /\ pc' = "rehash" /\ old' = [old EXCEPT ![NextPending] = Raw]
        /\ pending' = pending \ {NextPending} /\ resume' = resume /\ call' = call
    BY <1>11 DEF MoveHere
  <2>2. NextPending \in DOMAIN old
    BY <1>1, <2>1, PendingOne DEF RehashOK
  <2>3. pending' = Live(old') /\ DOMAIN old' = DOMAIN old
    BY <1>1, <2>1, <2>2 DEF RehashOK, Live
  <2>4. old' \in [DOMAIN old' -> Key \cup {Raw}]
    BY <1>1, <2>1, <2>3 DEF RehashOK
  <2> QED
    BY <1>1, <2>1, <2>3, <2>4 DEF RehashOK, Moving
<1>12. CASE RehashDone
  <2>1. /\ pending = {} /\ pending' = pending /\ old' = NoOld /\ resume' = "done" /\ pc' = resume /\ call' = call
    BY <1>12 DEF RehashDone
  <2>2. Live(old') = {} /\ DOMAIN old' = {}
    BY <2>1 DEF NoOld, Live
  <2>3. old' \in [DOMAIN old' -> Key \cup {Raw}]
    BY <2>1 DEF NoOld
  <2> QED
    BY <1>1, <2>1, <2>2, <2>3 DEF RehashOK, Moving
<1>13. CASE Return
  <2>1. UNCHANGED rehash /\ pc = "done" /\ pc' = "idle"
    BY <1>13 DEF Return
  <2>2. resume = "done"
    BY <1>1, <2>1 DEF RehashOK, Moving
  <2> QED
    BY <1>1, <2>1, <2>2 DEF RehashOK, rehash, Moving, Live
<1> QED
  BY <1>5, <1>6, <1>7, <1>8, <1>9, <1>10, <1>11, <1>12, <1>13 DEF Next, Step, Rehashing

-----------------------------------------------------------------------------
(* The layout always, and what follows from it *)

(* The constructor makes a table that has the layout. *)
LEMMA LayoutInit == Init => Layout
<1> SUFFICES ASSUME Init PROVE Layout
  OBVIOUS
<1>1. PICK n \in InitCapacities :
        /\ Fresh(CalcCapacity(n), DefaultLoadFactor)
        /\ mlf = DefaultLoadFactor /\ pc = "idle" /\ call = NoCall /\ probe = NoProbe
        /\ old = NoOld /\ pending = {} /\ resume = "done"
  BY DEF Init, Fresh
<1>2. n \in Nat /\ DefaultLoadFactor \in LoadFactors
  BY ArgsAssumption, LoadFactorAssumption
<1>3. ValidCapacity(CalcCapacity(n))
  BY <1>2, CalcCapacityRange, CapacityAssumption DEF ValidCapacity
<1>4. TableOK /\ SizeOK /\ BytesOK
  BY <1>1, <1>2, <1>3, FreshTable
<1>5. ControlOK /\ ProbeOK
  BY <1>1, <1>2 DEF ControlOK, ProbeOK, NoCall, NoProbe, KeyOps
<1>6. RehashOK
  <2>1. Live(old) = {} /\ DOMAIN old = {} /\ old \in [DOMAIN old -> Key \cup {Raw}]
    BY <1>1 DEF NoOld, Live
  <2> QED
    BY <1>1, <2>1 DEF RehashOK, Moving
<1> QED
  BY <1>4, <1>5, <1>6 DEF Layout, TypeInv

(* A step that changes nothing keeps the layout. *)
LEMMA LayoutStutter == Layout /\ UNCHANGED vars => Layout'
<1> SUFFICES ASSUME Layout, UNCHANGED vars PROVE Layout'
  OBVIOUS
<1>1. /\ UNCHANGED <<slotMask, ctrl, slot, slotSize, leftEmpties, mlf, pc, call, probe, old, pending, resume>>
      /\ TableOK /\ SizeOK /\ ControlOK /\ ProbeOK /\ RehashOK /\ BytesOK
  BY DEF vars, table, rehash, Layout, TypeInv
<1>2. TableOK' /\ SizeOK'
  BY <1>1 DEF TableOK, SizeOK, ValidCapacity, SlotCapacity, Live
<1>3. ControlOK' /\ ProbeOK'
  BY <1>1 DEF ControlOK, ProbeOK
<1>4. RehashOK'
  BY <1>1 DEF RehashOK, Moving, NextPending, Live
<1>5. /\ SlotCapacity' = SlotCapacity /\ Small' = Small /\ TailBytes' = TailBytes
      /\ NotEmpty' = NotEmpty /\ Moving' = Moving
  BY <1>1 DEF SlotCapacity, Small, TailBytes, NotEmpty, Moving
<1>6. BytesOK'
  BY <1>1, <1>5 DEF BytesOK, Bytes, GroupCount, OwnBytes, Copies, ExactCopies, Tail, EndByte
<1> QED
  BY <1>2, <1>3, <1>4, <1>6 DEF Layout, TypeInv

(* Every step keeps the layout. *)
LEMMA LayoutNext == Layout /\ [Next]_vars => Layout'
<1>1. ASSUME Layout, Next PROVE Layout'
  BY <1>1, TableNext, ControlNext, ProbeNext, RehashNext DEF Layout, TypeInv
<1> QED
  BY <1>1, LayoutStutter

(* The layout is an invariant. *)
LEMMA LayoutAlways == Spec => []Layout
BY LayoutInit, LayoutNext, PTL DEF Spec

(***************************************************************************)
(* Every variable has its type: a power of two of slots, the bytes for     *)
(* them and their copies, not more elements than slots, and a rehash       *)
(* still has to move just what is left in the old table.                   *)
(***************************************************************************)
THEOREM TypeCorrect == Spec => []TypeOK
<1>1. Layout => TypeOK
  <2> SUFFICES ASSUME Layout PROVE TypeOK
    OBVIOUS
  <2>1. TableOK /\ ControlOK /\ ProbeOK /\ RehashOK /\ BytesOK
    BY DEF Layout, TypeInv
  <2>2. slotMask \in Nat /\ IsPow2(slotMask + 1) /\ slotSize \in 0..SlotCapacity
    BY <2>1, SizeRange, Shape DEF TableOK, ValidCapacity, SlotCapacity
  <2>3. pc # "broken" => DOMAIN ctrl = 0..((GroupCount(SlotCapacity) + 1) * GroupWidth - 1)
    BY <2>1 DEF BytesOK, Bytes
  <2> QED
    BY <2>1, <2>2, <2>3 DEF TypeOK, TableOK, ControlOK, ProbeOK, RehashOK
<1> QED
  BY <1>1, LayoutAlways, PTL

(***************************************************************************)
(* The byte of a slot tells whether it holds an element and the hash of    *)
(* it; the bytes behind the table repeat those of the elements in the      *)
(* first slots and show no others.  So setUsedMirrorCtrl(),                *)
(* setUnusedMirrorCtrl() and destroy_group() leave nothing behind that a   *)
(* group reaching over the end would take for an element.                  *)
(***************************************************************************)
THEOREM Mirror == Spec => []CtrlMirrorsSlots
<1>1. Layout => CtrlMirrorsSlots
  <2> SUFFICES ASSUME Layout, pc # "broken"
               PROVE  /\ OwnBytes
                      /\ \A i \in SlotCapacity..Sets!Max(DOMAIN ctrl) :
                            LET shown == IF i - SlotCapacity \in 0..slotMask THEN ctrl[i - SlotCapacity] ELSE EndOf
                            IN IF IsUsed(shown) THEN ctrl[i] = shown ELSE ~ IsUsed(ctrl[i])
    BY DEF CtrlMirrorsSlots, OwnBytes
  <2>1. DOMAIN ctrl = Bytes(SlotCapacity) /\ OwnBytes /\ Copies /\ Tail
    BY DEF Layout, BytesOK
  <2> SUFFICES ASSUME NEW i \in SlotCapacity..Sets!Max(DOMAIN ctrl)
               PROVE  LET shown == IF i - SlotCapacity \in 0..slotMask THEN ctrl[i - SlotCapacity] ELSE EndOf
                      IN IF IsUsed(shown) THEN ctrl[i] = shown ELSE ~ IsUsed(ctrl[i])
    BY <2>1
  <2>2. /\ i \in Nat /\ i >= SlotCapacity
        /\ Small => i <= 2 * GroupWidth - 1
        /\ ~ Small => i <= SlotCapacity + GroupWidth - 1
    <3>1. CASE Small
      <4>1. 2 * GroupWidth - 1 \in Nat /\ DOMAIN ctrl = 0..(2 * GroupWidth - 1)
        BY <2>1, <3>1, Shape
      <4>2. Sets!Max(DOMAIN ctrl) = 2 * GroupWidth - 1
        BY <4>1, GreatestIs
      <4> QED
        BY <3>1, <4>1, <4>2, Shape
    <3>2. CASE ~ Small
      <4>1. SlotCapacity + GroupWidth - 1 \in Nat /\ DOMAIN ctrl = 0..(SlotCapacity + GroupWidth - 1)
        BY <2>1, <3>2, Shape
      <4>2. Sets!Max(DOMAIN ctrl) = SlotCapacity + GroupWidth - 1
        BY <4>1, GreatestIs
      <4> QED
        BY <3>2, <4>1, <4>2, Shape
    <3> QED
      BY <3>1, <3>2
  <2>3. CASE i - SlotCapacity \in 0..slotMask
    <3>1. i - SlotCapacity < GroupWidth /\ (i - SlotCapacity) + SlotCapacity = i
      BY <2>2, <2>3, Shape DEF Small
    <3> QED
      BY <2>1, <2>3, <3>1 DEF Copies
  <2>4. CASE i - SlotCapacity \notin 0..slotMask
    <3>1. Small /\ i \in TailBytes
      BY <2>2, <2>4, Shape DEF Small, TailBytes
    <3> QED
      BY <2>1, <2>4, <3>1 DEF Tail, IsUsed, Empty, EndOf
  <2> QED
    BY <2>3, <2>4
<1> QED
  BY <1>1, LayoutAlways, PTL

(***************************************************************************)
(* begin() and ++ visit every element once, in the order of the slots, and *)
(* stop at the end of the table, and they are as many as size() says.  It  *)
(* is so for every table of at least a group of slots, and for a smaller   *)
(* one as long as its end mark has not been cleared.                       *)
(***************************************************************************)
THEOREM Iteration == Spec => []IterationIsComplete
<1>1. Layout => IterationIsComplete
  <2> SUFFICES ASSUME Layout, pc = "idle", EndMarked \/ SlotCapacity >= GroupWidth
               PROVE  LET stops == Live(slot) \cup {SlotCapacity}
                      IN /\ slotSize = Cardinality(Live(slot))
                         /\ FirstIndex = Sets!Min(stops)
                         /\ \A i \in Live(slot) : NextOf(i) = Sets!Min({j \in stops : j > i})
    BY DEF IterationIsComplete
  <2> DEFINE stops == Live(slot) \cup {SlotCapacity}
             used == {i \in 0..(GroupCount(SlotCapacity) * GroupWidth - 1) : IsUsed(ctrl[i])}
  <2>1. /\ pc # "broken" /\ DOMAIN ctrl = Bytes(SlotCapacity) /\ OwnBytes /\ Copies /\ Tail /\ EndByte
        /\ ValidCapacity(SlotCapacity)
    BY DEF Layout, BytesOK, TypeInv, TableOK
  <2>2. /\ Live(slot) = {i \in 0..slotMask : IsUsed(ctrl[i])} /\ Live(slot) \subseteq Nat
        /\ \A i \in 0..slotMask : i \in Live(slot) <=> ctrl[i] \notin {Empty, Deleted}
    <3>1. Live(slot) = {i \in 0..slotMask : IsUsed(ctrl[i])}
      BY <2>1, LiveIsUsed
    <3>2. \A i \in 0..slotMask : i \in Live(slot) <=> ctrl[i] \notin {Empty, Deleted}
      <4> SUFFICES ASSUME NEW i \in 0..slotMask PROVE i \in Live(slot) <=> ctrl[i] \notin {Empty, Deleted}
        OBVIOUS
      <4>1. CASE slot[i] = Raw
        BY <2>1, <4>1, LiveIsUsed DEF OwnBytes, Live
      <4>2. CASE slot[i] # Raw
        <5>1. i \in Live(slot) /\ IsUsed(ctrl[i])
          BY <2>1, <4>2, LiveIsUsed DEF Live
        <5> QED
          BY <5>1 DEF IsUsed, Empty, Deleted
      <4> QED
        BY <4>1, <4>2
    <3> QED
      BY <3>1, <3>2
  <2>3. ctrl[SlotCapacity] \notin {Empty, Deleted} /\ SlotCapacity \in DOMAIN ctrl /\ SlotCapacity \in Nat
    <3>1. SlotCapacity \in DOMAIN ctrl
      BY <2>1, Shape DEF Small
    <3>2. SlotCapacity >= GroupWidth => ctrl[SlotCapacity] \notin {Empty, Deleted}
      BY <2>1, Shape DEF EndByte, Small
    <3> QED
      BY <3>1, <3>2, Shape DEF EndMarked
  <2>4. used \subseteq Nat /\ Live(slot) \subseteq used /\ (\A i \in used : i \in Live(slot) \/ i >= SlotCapacity)
        /\ (Live(slot) = {} => used = {})
    <3>1. CASE ~ Small
      <4>1. GroupCount(SlotCapacity) * GroupWidth = SlotCapacity
        BY <2>1, <3>1, CapacityShape, Shape
      <4>2. used = Live(slot)
        BY <2>2, <4>1, Shape
      <4> QED
        BY <2>2, <4>2
    <3>2. CASE Small
      <4>1. GroupCount(SlotCapacity) * GroupWidth = GroupWidth
        <5>1. SlotCapacity + GroupWidth - 1 = (GroupWidth * 1) + (SlotCapacity - 1) /\ SlotCapacity - 1 \in 0..(GroupWidth - 1)
          BY <3>2, Shape DEF Small
        <5>2. GroupCount(SlotCapacity) = 1
          BY <5>1, Shape, QuotientRest DEF GroupCount
        <5> QED
          BY <5>2, Shape
      <4>2. used = {i \in 0..(GroupWidth - 1) : IsUsed(ctrl[i])}
        BY <4>1
      <4>3. used \subseteq Nat /\ Live(slot) \subseteq used
        BY <2>2, <3>2, <4>2, Shape
      <4>4. ASSUME NEW i \in used, i \notin Live(slot)
            PROVE  i >= SlotCapacity /\ i - SlotCapacity \in Live(slot)
        <5>1. i \in 0..(GroupWidth - 1) /\ IsUsed(ctrl[i])
          BY <4>2, <4>4
        <5>2. i >= SlotCapacity
          BY <2>2, <4>4, <5>1, Shape
        <5>3. i < 2 * SlotCapacity
          <6>1. ASSUME i >= 2 * SlotCapacity PROVE FALSE
            <7>1. i \in TailBytes
              BY <5>1, <6>1, Shape DEF TailBytes
            <7> QED
              BY <2>1, <3>2, <5>1, <7>1 DEF Tail, IsUsed, Empty, EndOf
          <6> QED
            BY <5>1, <6>1, Shape
        <5>4. i - SlotCapacity \in 0..slotMask /\ i - SlotCapacity < GroupWidth /\ (i - SlotCapacity) + SlotCapacity = i
          BY <5>1, <5>2, <5>3, Shape
        <5>5. IsUsed(ctrl[i - SlotCapacity])
          BY <2>1, <5>1, <5>4 DEF Copies
        <5> QED
          BY <2>2, <5>2, <5>4, <5>5
      <4> QED
        BY <4>3, <4>4
    <3> QED
      BY <3>1, <3>2
  <2>5. FirstIndex = Sets!Min(stops)
    <3> DEFINE m == Sets!Min(Live(slot))
    <3>1. FirstIndex = IF used = {} THEN SlotCapacity ELSE Sets!Min(used)
      BY DEF FirstIndex
    <3> HIDE DEF used
    <3>2. CASE Live(slot) = {}
      <4>1. stops = {SlotCapacity}
        BY <3>2
      <4>2. Sets!Min(stops) = SlotCapacity
        BY <2>3, <4>1, LeastIs
      <4> QED
        BY <2>4, <3>1, <3>2, <4>2
    <3>3. CASE Live(slot) # {}
      <4>1. m \in Live(slot) /\ \A i \in Live(slot) : m <= i
        BY <2>2, <3>3, LeastOf
      <4> HIDE DEF m
      <4>2. m < SlotCapacity /\ m \in Nat
        BY <2>2, <4>1, Shape
      <4>3. Sets!Min(used) = m
        <5>1. m \in used /\ \A i \in used : m <= i
          BY <2>3, <2>4, <4>1, <4>2
        <5> QED
          BY <2>4, <5>1, LeastIs
      <4>4. Sets!Min(stops) = m
        <5>1. stops \subseteq Nat /\ m \in stops /\ \A i \in stops : m <= i
          BY <2>2, <2>3, <4>1, <4>2
        <5> HIDE DEF stops
        <5> QED
          BY <5>1, LeastIs
      <4>5. used # {}
        BY <2>4, <4>1
      <4> QED
        BY <3>1, <4>3, <4>4, <4>5
    <3> QED
      BY <3>2, <3>3
  <2>6. ASSUME NEW i \in Live(slot) PROVE NextOf(i) = Sets!Min({j \in stops : j > i})
    <3> DEFINE S == {j \in stops : j > i}
               T == {j \in DOMAIN ctrl : j > i /\ ctrl[j] \notin {Empty, Deleted}}
               m == Sets!Min(S)
    <3>1. i \in 0..slotMask /\ stops \subseteq Nat
      BY <2>2, <2>3
    <3>2. S \subseteq Nat /\ SlotCapacity \in S
      BY <2>3, <3>1, Shape
    <3>3. m \in S /\ \A j \in S : m <= j
      <4> HIDE DEF S
      <4> QED
        BY <3>2, LeastOf
    <3> HIDE DEF m
    <3>4. m <= SlotCapacity /\ m \in Nat /\ m > i /\ (m = SlotCapacity \/ m \in Live(slot))
      BY <3>2, <3>3
    <3>5. DOMAIN ctrl \subseteq Nat /\ 0..slotMask \subseteq DOMAIN ctrl
      BY <2>1, Shape DEF Small
    <3>6. m \in T
      BY <2>2, <2>3, <3>4, <3>5
    <3>7. ASSUME NEW j \in T PROVE m <= j
      <4>1. j \in Nat /\ j > i /\ ctrl[j] \notin {Empty, Deleted}
        BY <3>5
      <4>2. CASE j <= slotMask
        <5>1. j \in Live(slot)
          BY <2>2, <4>1, <4>2, Shape
        <5> QED
          BY <3>3, <4>1, <5>1
      <4>3. CASE j > slotMask
        BY <3>4, <4>1, <4>3, Shape
      <4> QED
        BY <4>1, <4>2, <4>3, Shape
    <3>8. Sets!Min(T) = m
      <4>1. T \subseteq Nat
        BY <3>5
      <4> HIDE DEF T
      <4> QED
        BY <3>6, <3>7, <4>1, LeastIs
    <3> QED
      BY <3>8 DEF NextOf, m
  <2> QED
    BY <2>5, <2>6, SizeRange
<1> QED
  BY <1>1, LayoutAlways, PTL

-----------------------------------------------------------------------------
(* Only an erasure hides an element *)

(* The elements of a table into which they are moved are all within reach. *)
ReachInv == Moving => EveryElementReachable

(* An element is within reach when it is placed where a search for it comes. *)
LEMMA ReachIsPlaced ==
  EveryElementReachable <=> (pc # "broken" => \A i \in Live(slot) : \A k : k = slot[i] => Placed(i, k))
<1>1. \A i : Reachable(i) <=> Placed(i, slot[i])
  BY DEF Reachable, Placed
<1> QED
  BY <1>1 DEF EveryElementReachable

(* And so it is after a step. *)
LEMMA ReachIsPlacedNext ==
  EveryElementReachable' <=> (pc' # "broken" => \A i \in Live(slot') : \A k : k = slot'[i] => Placed(i, k)')
<1>1. (EveryElementReachable <=> (pc # "broken" => \A i \in Live(slot) : \A k : k = slot[i] => Placed(i, k)))'
  BY ReachIsPlaced, PTL
<1> QED
  BY <1>1 DEF Live

(* Putting an element where a search for it comes hides none of the others. *)
LEMMA PutReach ==
  ASSUME Layout, pc # "broken", EveryElementReachable, NEW p \in 0..slotMask, NEW k \in Key,
         Put(p, k), slotMask' = slotMask, Placed(p, k)
  PROVE  EveryElementReachable'
<1>1. /\ SlotCapacity' = SlotCapacity /\ slot' = [slot EXCEPT ![p] = k]
      /\ (\A c : Home(c)' = Home(c)) /\ (\A i : RoundIndex(i)' = RoundIndex(i))
  BY DEF Put, SlotCapacity, Home, RoundIndex
<1>2. DOMAIN slot = 0..slotMask /\ slotMask \in Nat
  BY LiveIsUsed, Shape
<1>3. \A s \in 0..slotMask : HasAny(s, Empty)' => HasAny(s, Empty)
  <2> SUFFICES ASSUME NEW s \in 0..slotMask, NEW i \in Group(s), ctrl'[i] = Empty PROVE ctrl[i] = Empty
    BY DEF HasAny, Group
  <2>1. ctrl' = Write(p, CtrlHash[k], CtrlHash[k])
    BY SetIsWrite DEF Put
  <2>2. i \in DOMAIN ctrl /\ CtrlHash[k] # Empty
    BY GroupInside, HashRange DEF Layout, BytesOK, Empty
  <2> QED
    BY <2>1, <2>2 DEF Write
<1>4. ASSUME NEW i, NEW c \in Key, Placed(i, c) PROVE Placed(i, c)'
  <2> SUFFICES ASSUME NEW n \in 0..slotMask, n * GroupWidth + GroupWidth <= (i + SlotCapacity - Home(c)) % SlotCapacity
               PROVE  ~ HasAny(RoundIndex(Home(c) + n * GroupWidth), Empty)'
    BY <1>1 DEF Placed
  <2> DEFINE s == RoundIndex(Home(c) + n * GroupWidth)
  <2>1. s \in 0..slotMask
    <3>1. n \in Nat /\ Home(c) \in Nat
      BY <1>2, HomeRange
    <3>2. n * GroupWidth \in Nat
      BY <3>1, GroupOrder
    <3> QED
      BY <1>2, <3>1, <3>2, RoundRange
  <2>2. ~ HasAny(s, Empty)
    BY <1>4 DEF Placed
  <2>3. s' = s
    BY <1>1
  <2>4. \A t \in 0..slotMask : t = s => ~ HasAny(t, Empty)'
    BY <1>3, <2>2
  <2> HIDE DEF s
  <2>5. ~ HasAny(s, Empty)'
    BY <2>1, <2>3, <2>4 DEF HasAny, Group
  <2> QED
    BY <2>5 DEF s
<1>5. ASSUME NEW i \in Live(slot'), NEW c, c = slot'[i] PROVE Placed(i, c)'
  <2>1. i \in 0..slotMask /\ (i # p => i \in Live(slot) /\ c = slot[i]) /\ (i = p => c = k)
    BY <1>1, <1>2, <1>5 DEF Live
  <2>2. c \in Key
    BY <2>1, LiveIsUsed
  <2>3. Placed(i, c)
    BY <2>1, ReachIsPlaced
  <2> QED
    BY <1>4, <2>2, <2>3
<1> QED
  BY <1>5, ReachIsPlacedNext

(* A walk that has begun has passed no group with an empty slot. *)
LEMMA WalkNextInv ==
  ASSUME Layout, WalkInv, Next
  PROVE  WalkInv'
<1>1. ControlOK /\ ProbeOK /\ RehashOK /\ slotMask \in Nat
  BY Shape DEF Layout, TypeInv
<1>2. ASSUME NEW k \in Key, probe' = StartProbe(k), UNCHANGED <<slotMask, ctrl>>
      PROVE  WalkInv'
  <2>1. probe'.at = Home(k) /\ probe'.key = k
    BY <1>2 DEF StartProbe
  <2>2. Offset(0)' = RoundIndex(Home(k) + 0 * GroupWidth)
    BY <1>2, <2>1 DEF Offset, RoundIndex, SlotCapacity, Home
  <2>3. RoundIndex(Home(k) + 0 * GroupWidth) = Home(k)
    <3>1. Home(k) + 0 * GroupWidth = Home(k) /\ Home(k) \in 0..slotMask
      BY <1>1, HomeRange, Shape
    <3> QED
      BY <1>1, <3>1, RoundRange
  <2>4. probe'.at = Offset(0)'
    BY <2>1, <2>2, <2>3
  <2>5. \A m \in 0..(0 - 1) : ~ HasAny(Offset(m), Empty)'
    OBVIOUS
  <2> QED
    BY <2>4, <2>5 DEF WalkInv
<1>3. CASE pc' \notin {"walk", "room", "move"}
  BY <1>3 DEF WalkInv
<1>4. ASSUME UNCHANGED <<slotMask, ctrl>>, probe'.key = probe.key
      PROVE  /\ SlotCapacity' = SlotCapacity
             /\ \A n \in Nat : Offset(n)' = Offset(n) /\ HasAny(Offset(n), Empty)' = HasAny(Offset(n), Empty)
  BY <1>4 DEF Offset, RoundIndex, SlotCapacity, Home, HasAny, Group
<1>5. ASSUME pc \in {"walk", "move"}, ~ AtChainEnd, probe' = [probe EXCEPT !.at = NextGroup(@)],
             UNCHANGED <<slotMask, ctrl>>
      PROVE  WalkInv'
  <2>1. probe'.at = NextGroup(probe.at) /\ probe'.key = probe.key
    BY <1>1, <1>5 DEF ProbeOK
  <2>2. PICK n \in Nat : /\ n = 0 \/ n * GroupWidth < SlotCapacity
                         /\ NextGroup(probe.at) = Offset(n)
                         /\ \A m \in 0..(n - 1) : ~ HasAny(Offset(m), Empty)
    BY <1>5, WalkOn
  <2>3. /\ n = 0 \/ n * GroupWidth < SlotCapacity'
        /\ probe'.at = Offset(n)'
        /\ \A m \in 0..(n - 1) : ~ HasAny(Offset(m), Empty)'
    BY <1>4, <1>5, <2>1, <2>2
  <2> QED
    BY <2>3 DEF WalkInv
<1>6. ASSUME pc = "walk", probe' = probe, UNCHANGED <<slotMask, ctrl>>
      PROVE  WalkInv'
  <2>1. PICK n \in Nat : /\ n = 0 \/ n * GroupWidth < SlotCapacity
                         /\ probe.at = Offset(n)
                         /\ \A m \in 0..(n - 1) : ~ HasAny(Offset(m), Empty)
    BY <1>6 DEF WalkInv
  <2>2. /\ n = 0 \/ n * GroupWidth < SlotCapacity'
        /\ probe'.at = Offset(n)'
        /\ \A m \in 0..(n - 1) : ~ HasAny(Offset(m), Empty)'
    BY <1>4, <1>6, <2>1
  <2> QED
    BY <2>2 DEF WalkInv
<1>7. CASE BeginKeyOp
  BY <1>2, <1>7 DEF BeginKeyOp, Begin, table
<1>8. CASE BeginManagement
  BY <1>3, <1>8 DEF BeginManagement, Begin, KeyOps
<1>9. CASE Manage
  <2>1. pc' \in {"done", "broken", "rehash"}
    <3>1. CASE Clear
      BY <3>1 DEF Clear, Recreate, ClearGroups, Done
    <3>2. CASE Rehash \/ ShrinkToFit
      BY <3>2 DEF Rehash, ShrinkToFit, RehashImpl, Resize, CreateGroup, GroupsThrow, SlotsThrow, Done
    <3>3. CASE MaxLoadFactor
      BY <3>3 DEF MaxLoadFactor, RehashImpl, Resize, CreateGroup, GroupsThrow, SlotsThrow, DropDeletedNoGrow, Done
    <3> QED
      BY <1>9, <3>1, <3>2, <3>3 DEF Manage
  <2> QED
    BY <1>3, <2>1
<1>10. CASE WalkNext
  BY <1>5, <1>10 DEF WalkNext, table
<1>11. CASE NotFound
  BY <1>6, <1>11 DEF NotFound, table
<1>12. CASE Found \/ EraseFound
  BY <1>3, <1>12 DEF Found, EraseFound, Done
<1>13. CASE Inserting
  BY <1>3, <1>13 DEF Inserting, Grow, ReorderOrGrow, DropDeletedNoGrow, Resize, CreateGroup, GroupsThrow, SlotsThrow,
                     PutInDeleted, PutInEmpty, Done
<1>14. CASE MoveNext
  BY <1>1, <1>2, <1>14, PendingOne DEF MoveNext, table
<1>15. CASE MoveOn
  BY <1>5, <1>15 DEF MoveOn, table
<1>16. CASE MoveHere
  BY <1>3, <1>16 DEF MoveHere
<1>17. CASE RehashDone
  <2>1. CASE resume = "walk"
    BY <1>1, <1>2, <1>17, <2>1 DEF RehashDone, RehashOK, ControlOK, KeyOps
  <2>2. CASE resume = "done"
    BY <1>3, <1>17, <2>2 DEF RehashDone
  <2> QED
    BY <1>1, <2>1, <2>2 DEF RehashOK
<1>18. CASE Return
  <2>1. pc' = "idle"
    BY <1>18 DEF Return
  <2> QED
    BY <1>3, <2>1
<1> QED
  BY <1>7, <1>8, <1>9, <1>10, <1>11, <1>12, <1>13, <1>14, <1>15, <1>16, <1>17, <1>18 DEF Next, Step, Search, Rehashing

(* What a step does to the elements that are within reach. *)
LEMMA ReachNext ==
  ASSUME Layout, WalkInv, ReachInv, Next
  PROVE  /\ EveryElementReachable /\ call.op # "erase" => EveryElementReachable'
         /\ ReachInv'
<1>0. pc # "broken" /\ TableStep
  BY StepIs
<1>1. ASSUME UNCHANGED <<slotMask, ctrl, slot>>, EveryElementReachable PROVE EveryElementReachable'
  BY <1>0, <1>1 DEF EveryElementReachable, Reachable, RoundIndex, SlotCapacity, Home, HasAny, Group, Live
<1>2. CASE Same
  BY <1>1, <1>2 DEF Same, table, ReachInv
<1>3. CASE Counted
  BY <1>1, <1>3 DEF Counted, ReachInv
<1>4. CASE Creating
  <2>1. Live(slot') = {}
    BY <1>4, FreshTableNext DEF Creating
  <2>2. EveryElementReachable'
    BY <2>1 DEF EveryElementReachable, Live
  <2> QED
    BY <2>2 DEF ReachInv
<1>5. CASE Breaking
  BY <1>5 DEF Breaking, EveryElementReachable, ReachInv
<1>6. CASE Clearing
  <2>1. Live(slot') = {}
    BY <1>0, <1>6, ClearedTable DEF Clearing
  <2>2. EveryElementReachable'
    BY <2>1 DEF EveryElementReachable, Live
  <2> QED
    BY <2>2 DEF ReachInv
<1>7. CASE Erasing
  BY <1>7 DEF Erasing, ReachInv
<1>8. CASE Putting
  BY <1>0, <1>8, PutReach DEF Putting, ReachInv
<1> QED
  BY <1>0, <1>2, <1>3, <1>4, <1>5, <1>6, <1>7, <1>8 DEF TableStep

(* The walk and what is within reach are as they should be in every state. *)
LEMMA ReachAlways == Spec => [](Layout /\ WalkInv /\ ReachInv)
<1>1. Init => WalkInv /\ ReachInv
  BY DEF Init, WalkInv, ReachInv, Moving
<1>2. ASSUME Layout, WalkInv, ReachInv, UNCHANGED vars PROVE WalkInv' /\ ReachInv'
  <2>1. UNCHANGED <<slotMask, ctrl, slot, pc, probe>>
    BY <1>2 DEF vars, table
  <2> QED
    BY <1>2, <2>1 DEF WalkInv, Offset, ReachInv, Moving, EveryElementReachable, Reachable, RoundIndex, SlotCapacity,
                      Home, HasAny, Group, Live
<1>3. Layout /\ WalkInv /\ ReachInv /\ [Next]_vars => (WalkInv /\ ReachInv)'
  BY <1>2, WalkNextInv, ReachNext
<1> QED
  BY <1>1, <1>3, LayoutInit, LayoutNext, PTL DEF Spec

(***************************************************************************)
(* It is only by an erasure that an element gets out of reach of find():   *)
(* every other step of every call, growth and rehashing included, keeps    *)
(* each element findable if all were, and when a rehash has ended all are, *)
(* whatever had been lost before.                                          *)
(***************************************************************************)
THEOREM ErasureAlone == Spec => OnlyErasureHides
<1>1. ASSUME Layout, WalkInv, ReachInv, [Next]_vars
      PROVE  /\ EveryElementReachable /\ call.op # "erase" => EveryElementReachable'
             /\ pc = "rehash" /\ pc' # "rehash" => EveryElementReachable'
  <2>1. CASE UNCHANGED vars
    <3>1. UNCHANGED <<slotMask, ctrl, slot, pc>>
      BY <2>1 DEF vars, table
    <3> QED
      BY <1>1, <3>1 DEF EveryElementReachable, Reachable, RoundIndex, SlotCapacity, Home, HasAny, Group, Live
  <2>2. CASE Next
    <3>1. EveryElementReachable /\ call.op # "erase" => EveryElementReachable'
      BY <1>1, <2>2, ReachNext
    <3>2. ASSUME pc = "rehash", pc' # "rehash" PROVE EveryElementReachable'
      <4>1. EveryElementReachable /\ pc # "broken"
        BY <1>1, <3>2 DEF ReachInv, Moving
      <4>2. UNCHANGED <<slotMask, ctrl, slot>>
        BY <2>2, <3>2 DEF Next, BeginKeyOp, BeginManagement, Begin, Step, Manage, Clear, Rehash, ShrinkToFit,
              MaxLoadFactor, Managing, Search, WalkNext, NotFound, Found, EraseFound, Looking, Inserting, Grow,
              PutInDeleted, PutInEmpty, Rehashing, MoveNext, MoveOn, MoveHere, RehashDone, Return, table
      <4> QED
        BY <4>1, <4>2 DEF EveryElementReachable, Reachable, RoundIndex, SlotCapacity, Home, HasAny, Group, Live
    <3> QED
      BY <3>1, <3>2
  <2> QED
    BY <1>1, <2>1, <2>2
<1> QED
  BY <1>1, ReachAlways, PTL DEF Spec, OnlyErasureHides

=============================================================================
