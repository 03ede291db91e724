--------------------------- MODULE TraversalProofs ---------------------------
(***************************************************************************)
(* The two ways through a group15 table: a search, whose prober goes from  *)
(* group to group, and an iterator, which goes from byte to byte.  Either  *)
(* leaves nothing out, for every table and whatever is inserted and erased *)
(* between two moves of the iterator.                                      *)
(***************************************************************************)
EXTENDS GroupProbeWalk, Group15Iterator, GroupQuadraticProberProofs

-----------------------------------------------------------------------------
(***************************************************************************)
(* The prober.  The inductive invariant ties the groups seen to the closed *)
(* form: they are the probes made so far, and ProbeCovers says that        *)
(* mask + 1 probes are all the groups.                                     *)
(***************************************************************************)
Probed(n) == {Probe(home, i, mask) : i \in 0..n}

SeenIsProbed == /\ going => step <= mask /\ probed = Probed(step)
                /\ ~ going => step = mask + 1 /\ probed = Probed(mask)

WalkInv == WalkTypeOK /\ PositionIsProbe /\ SeenIsProbed

(* The first state of a traversal satisfies the invariant. *)
LEMMA WalkBegins == WalkInit => WalkInv
<1> SUFFICES ASSUME WalkInit PROVE WalkInv
  OBVIOUS
<1>1. mask \in Nat /\ home \in 0..mask /\ index = home /\ step = 0 /\ going = TRUE /\ probed = {home}
  BY MasksAssumption DEF WalkInit
<1>2. Probed(0) = {home}
  BY DEF Probed, Probe
<1> QED
  BY <1>1, <1>2 DEF WalkInit, WalkInv, WalkTypeOK, PositionIsProbe, SeenIsProbed, Probe

(* next_bucket() preserves the invariant. *)
LEMMA WalkStep == WalkInv /\ [NextBucket]_walkVars => WalkInv'
<1> SUFFICES ASSUME WalkInv, [NextBucket]_walkVars PROVE WalkInv'
  OBVIOUS
<1> USE DEF WalkInv, WalkTypeOK
<1>1. CASE UNCHANGED walkVars
  BY <1>1 DEF walkVars, PositionIsProbe, SeenIsProbed, Probed
<1>2. CASE NextBucket
  <2>1. /\ going /\ mask \in Nat /\ IsPow2(mask + 1) /\ home \in 0..mask /\ step \in 0..mask
        /\ probed = Probed(step) /\ mask' = mask /\ home' = home
    BY <1>2, MasksAssumption DEF NextBucket, SeenIsProbed
  <2>2. step' = step + 1 /\ step' \in 0..(mask + 1)
    BY <1>2, <2>1 DEF NextBucket
  <2>3. index' = Probe(home, step + 1, mask) /\ index' \in 0..mask
    BY <1>2, <2>1, ProbeStep, ProbeRange DEF NextBucket, PositionIsProbe
  <2>4. Probed(step + 1) = Probed(step) \cup {Probe(home, step + 1, mask)}
    <3>1. 0..(step + 1) = (0..step) \cup {step + 1}
      BY <2>1
    <3> QED
      BY <3>1 DEF Probed
  <2>5. going' = (step + 1 <= mask)
    BY <1>2 DEF NextBucket, HasNextBucket
  <2>6. CASE step + 1 <= mask
    BY <1>2, <2>1, <2>2, <2>3, <2>4, <2>5, <2>6
       DEF NextBucket, PositionIsProbe, SeenIsProbed, Probed
  <2>7. CASE ~ (step + 1 <= mask)
    <3>1. step = mask /\ probed' = probed /\ ~ going'
      <4>1. step = mask
        BY <2>1, <2>7
      <4>2. ~ going'
        BY <2>5, <2>7, Zenon
      <4>3. probed' = (IF going' THEN probed \cup {index'} ELSE probed)
        BY <1>2 DEF NextBucket
      <4> QED
        BY <4>1, <4>2, <4>3, Zenon
    <3>2. SeenIsProbed'
      BY <2>1, <2>2, <3>1 DEF SeenIsProbed, Probed
    <3>3. PositionIsProbe'
      BY <2>1, <2>2, <2>3 DEF PositionIsProbe
    <3> QED
      BY <2>1, <2>2, <2>3, <2>5, <3>1, <3>2, <3>3
  <2> QED
    BY <2>6, <2>7
<1> QED
  BY <1>1, <1>2

(* A traversal that has ended has been in every group. *)
LEMMA WalkEnd == WalkInv => TraversesAll
<1> SUFFICES ASSUME WalkInv, ~ going, NEW g \in 0..mask PROVE g \in probed
  BY DEF WalkInv, WalkTypeOK, TraversesAll
<1>1. mask \in Nat /\ IsPow2(mask + 1) /\ home \in 0..mask /\ probed = Probed(mask)
  BY MasksAssumption DEF WalkInv, WalkTypeOK, SeenIsProbed
<1>2. PICK n \in 0..mask : Probe(home, n, mask) = g
  BY <1>1, ProbeCovers
<1> QED
  BY <1>1, <1>2 DEF Probed

(***************************************************************************)
(* next_bucket() returns false only when the whole array has been          *)
(* traversed, for every home group and every power of two of groups.       *)
(***************************************************************************)
THEOREM WalkTraversesAll == WalkSpec => []TraversesAll
<1>1. WalkInit => WalkInv
  BY WalkBegins
<1>2. WalkInv /\ [NextBucket]_walkVars => WalkInv'
  BY WalkStep
<1>3. WalkInv => TraversesAll
  BY WalkEnd
<1> QED
  BY <1>1, <1>2, <1>3, PTL DEF WalkSpec

(***************************************************************************)
(* The prober, which adds a growing step to a masked index, is always at   *)
(* the group the closed form of the sequence gives.                        *)
(***************************************************************************)
THEOREM WalkPosition == WalkSpec => []PositionIsProbe
<1>1. WalkInit => WalkInv
  BY WalkBegins
<1>2. WalkInv /\ [NextBucket]_walkVars => WalkInv'
  BY WalkStep
<1>3. WalkInv => PositionIsProbe
  BY DEF WalkInv
<1> QED
  BY <1>1, <1>2, <1>3, PTL DEF WalkSpec

-----------------------------------------------------------------------------
(* The iterator *)

(* A group has positions. *)
LEMMA Width == GroupSize \in Nat /\ GroupSize >= 1 /\ Last \in Nat /\ Last = GroupSize - 1
BY IteratorAssumption DEF GroupSize, Last

(* What a cell is. *)
LEMMA CellIs ==
  ASSUME NEW m \in Nat, NEW c \in Cells(m)
  PROVE  /\ c[1] \in 0..m /\ c[2] \in 0..Last /\ c = <<c[1], c[2]>>
         /\ ~ (c[1] = m /\ c[2] = Last)
BY DEF Cells

(* The slot of a control byte. *)
SlotOf(g, p) == g * GroupSize + p
(* It moves by one with the byte and by fifteen with the group; a group begins where the one before ends. *)
LEMMA SlotIs ==
  ASSUME NEW g \in Int, NEW p \in Int
  PROVE  /\ SlotOf(g, p) \in Int
         /\ SlotOf(g, p + 1) = SlotOf(g, p) + 1 /\ SlotOf(g, p - 1) = SlotOf(g, p) - 1
         /\ SlotOf(g + 1, p) = SlotOf(g, p) + GroupSize /\ SlotOf(g - 1, p) = SlotOf(g, p) - GroupSize
         /\ SlotOf(g + 1, 0) = SlotOf(g, Last) + 1 /\ SlotOf(g - 1, Last) = SlotOf(g, 0) - 1
         /\ SlotOf(g, p) = SlotOf(g, 0) + p /\ SlotOf(g, p) = SlotOf(g, Last) - (Last - p)
<1> DEFINE x == g * GroupSize
           y == (g + 1) * GroupSize
           z == (g - 1) * GroupSize
<1>1. GroupSize \in Int /\ Last = GroupSize - 1
  BY Width
<1>2. x \in Int /\ y = x + GroupSize /\ z = x - GroupSize
  BY <1>1
<1>3. \A q : SlotOf(g, q) = x + q /\ SlotOf(g + 1, q) = y + q /\ SlotOf(g - 1, q) = z + q
  BY DEF SlotOf
<1> HIDE DEF x, y, z
<1> QED
  BY <1>1, <1>2, <1>3

(* The order of the slots, which are pairs of numbers. *)
Place == Int \X Int

(* They are in one order. *)
LEMMA Order ==
  /\ \A c \in Place, d \in Place : Before(c, d) \/ Before(d, c) \/ c = d
  /\ \A c \in Place, d \in Place : ~ (Before(c, d) /\ Before(d, c))
  /\ \A c \in Place, d \in Place, e \in Place : Before(c, d) /\ Before(d, e) => Before(c, e)
  /\ \A g \in Int, p \in Int, h \in Int, q \in Int : Before(<<g, p>>, <<h, q>>) <=> g < h \/ (g = h /\ p < q)
<1>1. \A c \in Place : c[1] \in Int /\ c[2] \in Int /\ c = <<c[1], c[2]>>
  BY DEF Place
<1> QED
  BY <1>1 DEF Before

(* The bit scans find the first and the last used position of a group that has one. *)
LEMMA ScanIs ==
  ASSUME NEW g, UsedIn(g) # {}
  PROVE  /\ FirstUsed(g) \in UsedIn(g) /\ \A p \in UsedIn(g) : FirstUsed(g) <= p
         /\ LastUsed(g) \in UsedIn(g) /\ \A p \in UsedIn(g) : p <= LastUsed(g)
         /\ UsedIn(g) \subseteq 0..Last
<1> DEFINE S == UsedIn(g)
<1>1. S \subseteq 0..Last /\ S \subseteq Nat /\ S # {} /\ Last \in Nat
  BY Width DEF UsedIn
<1> HIDE DEF S
<1>2. \E p \in S : \A q \in S : p <= q
  BY <1>1, LeastElement
<1>3. \E p \in S : \A q \in S : q <= p
  <2> DEFINE D == {Last - p : p \in S}
  <2>1. D \subseteq Nat /\ D # {}
    <3>1. \A p \in S : Last - p \in Nat
      BY <1>1
    <3> QED
      BY <1>1, <3>1, Zenon
  <2>2. PICK d \in D : \A e \in D : d <= e
    <3> HIDE DEF D
    <3> QED
      BY <2>1, LeastElement
  <2>3. PICK p \in S : d = Last - p
    BY <2>2
  <2>4. \A q \in S : Last - p <= Last - q /\ q \in 0..Last /\ p \in 0..Last
    BY <1>1, <2>2, <2>3
  <2> QED
    BY <1>1, <2>3, <2>4
<1>4. /\ FirstUsed(g) = Min(S) /\ LastUsed(g) = Max(S)
  BY DEF FirstUsed, LastUsed, S
<1>5. Min(S) \in S /\ \A q \in S : Min(S) <= q
  BY <1>2 DEF Min
<1>6. Max(S) \in S /\ \A q \in S : q <= Max(S)
  BY <1>3 DEF Max
<1> QED
  BY <1>1, <1>4, <1>5, <1>6 DEF S

-----------------------------------------------------------------------------
(* The invariant *)

TypeInv ==
    /\ groupMask \in Nat \ {0} /\ used \subseteq Cells(groupMask) /\ stayed \subseteq used
    /\ mode \in {"begin", "at", "end", "forward", "next_groups", "backward", "previous_groups"}
    /\ group \in Int /\ pos \in 0..Last /\ slot \in Int

(* Control byte and slot are of the same cell. *)
Together == mode # "end" => group \in 0..groupMask /\ slot = SlotOf(group, pos)

(* There is no element between the one a move has left and the position it has come to. *)
ScanInv ==
    /\ mode = "at" => Here \in used
    /\ mode \in {"forward", "next_groups", "backward", "previous_groups"} => from \in used
    /\ mode = "begin" => /\ from = Start /\ pos = 0 /\ used # {}
                         /\ \A c \in used : c[1] >= group
    /\ mode = "forward" => /\ group = from[1] /\ pos >= from[2] /\ Here # Sentinel
                           /\ \A c \in used : Before(from, c) => Before(Here, c)
    /\ mode = "next_groups" => /\ from[1] < group /\ pos = 0
                               /\ \A c \in used : Before(from, c) => c[1] >= group
    /\ mode \in {"backward", "previous_groups"} => \E c \in used : Before(c, from)
    /\ mode = "backward" => /\ group = from[1] /\ pos <= from[2]
                            /\ \A c \in used : Before(c, from) => Before(c, Here)
    /\ mode = "previous_groups" => /\ group < from[1] /\ pos = Last
                                   /\ \A c \in used : Before(c, from) => c[1] <= group

(* What has been there all the time was seen, up to where the iterator last stood. *)
SeenInv ==
    /\ mode = "end" => stayed \subseteq seen
    /\ mode = "at" => \A c \in stayed : ~ Before(Here, c) => c \in seen
    /\ mode \notin {"at", "end"} => \A c \in stayed : ~ Before(from, c) => c \in seen

IterInv == TypeInv /\ Together /\ ScanInv /\ SeenInv

(* What MovesToNeighbour says of the elements a step passes. *)
Neighbour ==
    /\ mode \in {"begin", "forward", "next_groups"} /\ mode' \in {"at", "end"} =>
          \A c \in used : Before(from, c) => mode' = "at" /\ ~ Before(c, Here')
    /\ mode \in {"backward", "previous_groups"} /\ mode' \in {"at", "end"} =>
          mode' = "at" /\ \A c \in used : Before(c, from) => ~ Before(Here', c)

(* Where an element is, and where a move began. *)
LEMMA UsedCell ==
  ASSUME IterInv
  PROVE  /\ groupMask \in Nat \ {0} /\ groupMask \in Int /\ Last \in Nat /\ Last \in Int /\ Here \in Place
         /\ group \in Int /\ pos \in Int /\ pos \in 0..Last
         /\ \A c \in used : /\ c[1] \in Int /\ c[2] \in Int /\ c[1] <= groupMask /\ c[2] <= Last
                            /\ c[1] >= 0 /\ c[2] >= 0
         /\ used \subseteq Place /\ stayed \subseteq Place
         /\ \A c \in used : /\ c[1] \in 0..groupMask /\ c[2] \in 0..Last /\ c = <<c[1], c[2]>>
                            /\ ~ (c[1] = groupMask /\ c[2] = Last) /\ c # Sentinel
         /\ mode \notin {"at", "end"} => /\ from \in Place /\ from = <<from[1], from[2]>>
                                         /\ from[1] \in Int /\ from[2] \in 0..Last
<1>1. groupMask \in Nat /\ groupMask # 0 /\ used \subseteq Cells(groupMask) /\ Last \in Nat
  BY Width DEF IterInv, TypeInv
<1>2. \A c \in used : c \in Cells(groupMask)
  BY <1>1
<1>3. \A c \in used : /\ c[1] \in 0..groupMask /\ c[2] \in 0..Last /\ c = <<c[1], c[2]>>
                      /\ ~ (c[1] = groupMask /\ c[2] = Last)
  BY <1>1, <1>2, CellIs
<1>4. \A c \in used : c # Sentinel /\ c \in Place
  BY <1>1, <1>3 DEF Sentinel, Place
<1>5. Start[1] = -1 /\ Start[2] = Last /\ Start = <<Start[1], Start[2]>>
  BY DEF Start
<1>6. mode \notin {"at", "end"} => from = Start \/ from \in used
  BY DEF IterInv, ScanInv, TypeInv
<1>7. mode \notin {"at", "end"} => from[1] \in Int /\ from[2] \in 0..Last /\ from = <<from[1], from[2]>>
  BY <1>1, <1>3, <1>5, <1>6
<1>8. mode \notin {"at", "end"} => from \in Place
  BY <1>1, <1>7 DEF Place
<1>9. Here \in Place /\ stayed \subseteq Place
  <2>1. group \in Int /\ pos \in 0..Last /\ stayed \subseteq used
    BY DEF IterInv, TypeInv
  <2>2. pos \in Int
    BY <1>1, <2>1
  <2> QED
    BY <1>4, <2>1, <2>2 DEF Here, Place
<1>10. group \in Int /\ pos \in 0..Last /\ pos \in Int /\ groupMask \in Int /\ Last \in Int
  <2>1. group \in Int /\ pos \in 0..Last
    BY DEF IterInv, TypeInv
  <2> QED
    BY <1>1, <2>1
<1>11. \A c \in used : /\ c[1] \in Int /\ c[2] \in Int /\ c[1] <= groupMask /\ c[2] <= Last
                      /\ c[1] >= 0 /\ c[2] >= 0
  <2>1. \A x \in 0..groupMask : x \in Int /\ x >= 0 /\ x <= groupMask
    OBVIOUS
  <2>2. \A x \in 0..Last : x \in Int /\ x >= 0 /\ x <= Last
    OBVIOUS
  <2> QED
    BY <1>3, <2>1, <2>2
<1> QED
  BY <1>1, <1>3, <1>4, <1>7, <1>8, <1>9, <1>10, <1>11

(* A move ends at an element: what has been there all the time up to this one is either it or was seen. *)
LEMMA Arrives ==
  ASSUME IterInv, mode \notin {"at", "end"}, NEW g, NEW p, <<g, p>> \in used,
         group' = g, pos' = p, slot' = SlotOf(g, p), StandAt(<<g, p>>), UNCHANGED <<table, from, stayed>>,
         \A c \in stayed : ~ Before(<<g, p>>, c) => c = <<g, p>> \/ ~ Before(from, c)
  PROVE  IterInv' /\ mode' = "at" /\ Here' = <<g, p>>
<1>1. g \in 0..groupMask /\ p \in 0..Last /\ groupMask \in Nat \ {0} /\ Last \in Nat
  BY UsedCell
<1>2. /\ mode' = "at" /\ seen' = seen \cup {<<g, p>>} /\ used' = used /\ groupMask' = groupMask
      /\ stayed' = stayed /\ Here' = <<g, p>>
  BY DEF StandAt, table, Here
<1>3. TypeInv'
  <2>1. SlotOf(g, p) \in Int /\ g \in Int
    BY <1>1, SlotIs
  <2> QED
    BY <1>1, <1>2, <2>1 DEF IterInv, TypeInv
<1>4. Together' /\ ScanInv'
  BY <1>1, <1>2 DEF Together, ScanInv, SlotOf
<1>5. \A c \in stayed : ~ Before(<<g, p>>, c) => c \in seen'
  BY <1>2 DEF IterInv, SeenInv
<1>6. SeenInv'
  <2>1. \A c \in stayed' : ~ Before(Here', c) => c \in seen'
    BY <1>2, <1>5
  <2>2. \A c : Before(Here, c)' <=> Before(Here', c)
    BY DEF Before
  <2> QED
    BY <1>2, <2>1, <2>2 DEF SeenInv, Before
<1> QED
  BY <1>2, <1>3, <1>4, <1>6 DEF IterInv

(* A move forward ends at an element that is the next one. *)
LEMMA ComesNext ==
  ASSUME IterInv, mode \in {"begin", "forward", "next_groups"}, NEW g, NEW p, <<g, p>> \in used,
         group' = g, pos' = p, slot' = SlotOf(g, p), StandAt(<<g, p>>), UNCHANGED <<table, from, stayed>>,
         \A c \in used : Before(from, c) => ~ Before(c, <<g, p>>)
  PROVE  IterInv' /\ Neighbour
<1>1. ASSUME NEW c \in stayed, ~ Before(<<g, p>>, c) PROVE c = <<g, p>> \/ ~ Before(from, c)
  <2>1. c \in used /\ c \in Place /\ <<g, p>> \in Place
    BY UsedCell DEF IterInv, TypeInv
  <2>2. c = <<g, p>> \/ Before(c, <<g, p>>)
    BY <1>1, <2>1, Order
  <2> QED
    BY <2>1, <2>2
<1>2. IterInv' /\ mode' = "at" /\ Here' = <<g, p>>
  BY <1>1, Arrives
<1> QED
  BY <1>2 DEF Neighbour

(* A move backward ends at an element that is the one before. *)
LEMMA ComesBefore ==
  ASSUME IterInv, mode \in {"backward", "previous_groups"}, NEW g, NEW p, <<g, p>> \in used,
         group' = g, pos' = p, slot' = SlotOf(g, p), StandAt(<<g, p>>), UNCHANGED <<table, from, stayed>>,
         Before(<<g, p>>, from),
         \A c \in used : Before(c, from) => ~ Before(<<g, p>>, c)
  PROVE  IterInv' /\ Neighbour
<1>1. ASSUME NEW c \in stayed, ~ Before(<<g, p>>, c) PROVE c = <<g, p>> \/ ~ Before(from, c)
  <2>1. c \in used /\ c \in Place /\ <<g, p>> \in Place /\ from \in Place
    BY UsedCell DEF IterInv, TypeInv
  <2>2. c = <<g, p>> \/ Before(c, <<g, p>>)
    BY <1>1, <2>1, Order
  <2> QED
    BY <2>1, <2>2, Order
<1>2. IterInv' /\ mode' = "at" /\ Here' = <<g, p>>
  BY <1>1, Arrives
<1> QED
  BY <1>2 DEF Neighbour

(* A move forward ends at the sentinel when there is no element left. *)
LEMMA ComesToEnd ==
  ASSUME IterInv, mode \in {"begin", "forward", "next_groups"}, Stop, UNCHANGED <<table, from, stayed>>,
         \A c \in used : ~ Before(from, c), group' \in Int, pos' \in 0..Last, slot' \in Int
  PROVE  IterInv' /\ Neighbour
<1>1. mode' = "end" /\ UNCHANGED <<used, groupMask, stayed, seen>>
  BY DEF Stop, table
<1>2. stayed \subseteq seen
  BY DEF IterInv, TypeInv, SeenInv
<1> QED
  BY <1>1, <1>2 DEF IterInv, TypeInv, Together, ScanInv, SeenInv, Neighbour

(* A move goes on. *)
LEMMA GoesOn ==
  ASSUME IterInv, mode \notin {"at", "end"}, ScanInv', UNCHANGED <<table, from, stayed, seen>>,
         mode' \in {"begin", "forward", "next_groups", "backward", "previous_groups"},
         group' \in 0..groupMask, pos' \in 0..Last, slot' = SlotOf(group', pos')
  PROVE  IterInv' /\ Neighbour
<1>1. UNCHANGED <<used, groupMask, stayed, seen, from>>
  BY DEF table
<1>2. SeenInv'
  <2>1. \A c \in stayed : ~ Before(from, c) => c \in seen
    BY DEF IterInv, SeenInv
  <2>2. \A c : Before(from, c) <=> Before(from', c)
    BY <1>1
  <2>3. \A c \in stayed' : ~ Before(from', c) => c \in seen'
    BY <1>1, <2>1, <2>2
  <2> QED
    BY <2>3 DEF SeenInv, Before
<1>3. TypeInv' /\ Together'
  <2>1. group' \in Int /\ pos' \in Int
    <3>1. groupMask \in Nat /\ Last \in Nat
      BY UsedCell
    <3>2. \A n \in Nat : \A k \in 0..n : k \in Int
      OBVIOUS
    <3> QED
      BY <3>1, <3>2, Zenon
  <2>2. SlotOf(group', pos') \in Int
    BY <2>1, SlotIs
  <2> QED
    BY <1>1, <2>1, <2>2 DEF IterInv, TypeInv, Together, SlotOf
<1> QED
  BY <1>2, <1>3 DEF IterInv, Neighbour

-----------------------------------------------------------------------------
(* The scan of a group *)

(* A group in which nothing is used is not the last one and has no element. *)
LEMMA NothingUsed ==
  ASSUME IterInv, mode \notin {"at", "end"}, UsedIn(group) = {}
  PROVE  group \in 0..groupMask /\ group # groupMask /\ \A c \in used : c[1] # group
<1>1. group \in 0..groupMask
  BY DEF IterInv, Together
<1>2. group # groupMask
  <2>1. Last \in 0..Last
    BY Width
  <2> QED
    BY <2>1 DEF UsedIn, Sentinel
<1>3. ASSUME NEW c \in used, c[1] = group PROVE FALSE
  <2>1. c[2] \in 0..Last /\ c = <<group, c[2]>>
    BY <1>3, UsedCell
  <2> QED
    BY <2>1 DEF UsedIn
<1> QED
  BY <1>1, <1>2, <1>3

(* The first and the last used position of a group: an element or the sentinel, and none of the
   elements of the group is before or behind it. *)
LEMMA SomethingUsed ==
  ASSUME IterInv, UsedIn(group) # {}
  PROVE  /\ FirstUsed(group) \in 0..Last /\ LastUsed(group) \in 0..Last
         /\ <<group, FirstUsed(group)>> \in used \/ <<group, FirstUsed(group)>> = Sentinel
         /\ <<group, LastUsed(group)>> \in used \/ <<group, LastUsed(group)>> = Sentinel
         /\ \A c \in used : c[1] = group => FirstUsed(group) <= c[2] /\ c[2] <= LastUsed(group)
<1>1. /\ FirstUsed(group) \in UsedIn(group) /\ LastUsed(group) \in UsedIn(group)
      /\ \A p \in UsedIn(group) : FirstUsed(group) <= p /\ p <= LastUsed(group)
  BY ScanIs
<1>2. \A p \in UsedIn(group) : p \in 0..Last /\ (<<group, p>> \in used \/ <<group, p>> = Sentinel)
  BY DEF UsedIn
<1>3. ASSUME NEW c \in used, c[1] = group PROVE c[2] \in UsedIn(group)
  <2>1. c[2] \in 0..Last /\ c = <<group, c[2]>>
    BY <1>3, UsedCell
  <2> QED
    BY <2>1 DEF UsedIn
<1> QED
  BY <1>1, <1>2, <1>3

(* The first used byte of the group a move forward has come to is the next element, or there is none. *)
LEMMA FirstIsNext ==
  ASSUME IterInv, mode \in {"begin", "next_groups"}, UsedIn(group) # {}
  PROVE  /\ <<group, FirstUsed(group)>> # Sentinel => <<group, FirstUsed(group)>> \in used
         /\ \A c \in used : Before(from, c) => ~ Before(c, <<group, FirstUsed(group)>>)
         /\ <<group, FirstUsed(group)>> = Sentinel => \A c \in used : ~ Before(from, c)
<1> DEFINE p == FirstUsed(group)
<1>1. /\ p \in 0..Last
      /\ <<group, p>> \in used \/ <<group, p>> = Sentinel
      /\ \A c \in used : c[1] = group => p <= c[2]
  BY SomethingUsed
<1>2. \A c \in used : Before(from, c) => c[1] >= group
  BY DEF IterInv, ScanInv
<1> HIDE DEF p
<1>3. /\ group \in Int /\ groupMask \in Int /\ Last \in Int
      /\ \A c \in used : /\ c[1] \in Int /\ c[2] \in Int /\ c[1] <= groupMask /\ c[2] <= Last
                         /\ ~ (c[1] = groupMask /\ c[2] = Last)
  BY UsedCell
<1>8. p \in Int
  BY <1>1, <1>3
<1>4. ASSUME NEW c \in used, Before(from, c) PROVE ~ Before(c, <<group, p>>)
  <2>1. c[1] >= group /\ (c[1] = group => p <= c[2]) /\ c[1] \in Int /\ c[2] \in Int
    BY <1>1, <1>2, <1>3, <1>4
  <2> QED
    BY <1>3, <1>8, <2>1 DEF Before
<1>5. ASSUME <<group, p>> = Sentinel, NEW c \in used, Before(from, c) PROVE FALSE
  <2>1. group = groupMask /\ p = Last
    BY <1>5 DEF Sentinel
  <2>2. c[1] >= groupMask /\ (c[1] = groupMask => Last <= c[2])
    BY <1>1, <1>2, <1>5, <2>1
  <2> QED
    BY <1>3, <2>2
<1> QED
  BY <1>1, <1>4, <1>5 DEF p

(* The last used byte of the group a move backward has come to is the element before. *)
LEMMA LastIsBefore ==
  ASSUME IterInv, mode = "previous_groups", UsedIn(group) # {}
  PROVE  /\ <<group, LastUsed(group)>> \in used
         /\ Before(<<group, LastUsed(group)>>, from)
         /\ \A c \in used : Before(c, from) => ~ Before(<<group, LastUsed(group)>>, c)
<1> DEFINE p == LastUsed(group)
<1>1. /\ p \in 0..Last
      /\ <<group, p>> \in used \/ <<group, p>> = Sentinel
      /\ \A c \in used : c[1] = group => c[2] <= p
  BY SomethingUsed
<1>2. group < from[1] /\ from \in used /\ \A c \in used : Before(c, from) => c[1] <= group
  BY DEF IterInv, ScanInv
<1> HIDE DEF p
<1>3. /\ group \in Int /\ groupMask \in Int /\ Last \in Int
      /\ \A c \in used : /\ c[1] \in Int /\ c[2] \in Int /\ c[1] <= groupMask /\ c[2] <= Last
                         /\ ~ (c[1] = groupMask /\ c[2] = Last)
  BY UsedCell
<1>8. p \in Int
  BY <1>1, <1>3
<1>4. group < groupMask
  BY <1>2, <1>3
<1>5. <<group, p>> \in used
  <2>1. group # groupMask
    BY <1>3, <1>4
  <2> QED
    BY <1>1, <2>1 DEF Sentinel
<1>6. Before(<<group, p>>, from)
  BY <1>2 DEF Before
<1>7. ASSUME NEW c \in used, Before(c, from) PROVE ~ Before(<<group, p>>, c)
  <2>1. c[1] <= group /\ (c[1] = group => c[2] <= p) /\ c[1] \in Int /\ c[2] \in Int
    BY <1>1, <1>2, <1>3, <1>7
  <2> QED
    BY <1>3, <1>8, <2>1 DEF Before
<1> QED
  BY <1>5, <1>6, <1>7 DEF p

-----------------------------------------------------------------------------
(* The steps of a move *)

(* begin(): the groups before the one it has come to are empty. *)
LEMMA BeginNextIter == ASSUME IterInv, BeginNext PROVE IterInv' /\ Neighbour
<1>1. /\ mode = "begin" /\ pos = 0 /\ from = Start /\ group \in 0..groupMask /\ slot = SlotOf(group, 0)
      /\ used # {} /\ \A c \in used : c[1] >= group
  BY DEF BeginNext, IterInv, ScanInv, Together
<1>2. /\ group \in Int /\ groupMask \in Int /\ Last \in Nat /\ UNCHANGED <<table, from, stayed>>
      /\ \A c \in used : c[1] \in Int /\ c[1] <= groupMask
  BY UsedCell DEF BeginNext
<1>3. CASE UsedIn(group) = {}
  <2>1. group' = group + 1 /\ slot' = slot + GroupSize /\ UNCHANGED <<pos, mode, seen>>
    BY <1>3 DEF BeginNext
  <2>2. group # groupMask /\ \A c \in used : c[1] # group
    BY <1>1, <1>3, NothingUsed
  <2>3. group' \in 0..groupMask /\ pos' \in 0..Last /\ slot' = SlotOf(group', pos')
    <3>1. SlotOf(group + 1, 0) = SlotOf(group, 0) + GroupSize
      BY <1>2, SlotIs
    <3> QED
      BY <1>1, <1>2, <2>1, <2>2, <3>1
  <2>4. \A c \in used : c[1] >= group'
    BY <1>1, <1>2, <2>1, <2>2
  <2>5. ScanInv'
    BY <1>1, <1>2, <2>1, <2>4 DEF ScanInv, table, Start
  <2> QED
    BY <1>1, <1>2, <2>1, <2>3, <2>5, GoesOn
<1>4. CASE UsedIn(group) # {}
  <2> DEFINE p == FirstUsed(group)
  <2>1. group' = group /\ pos' = p /\ slot' = slot + p
    BY <1>4 DEF BeginNext
  <2>2. p \in 0..Last /\ p \in Int
    <3>1. p \in 0..Last
      BY <1>4, SomethingUsed
    <3> QED
      BY <1>2, <3>1
  <2>3. /\ <<group, p>> # Sentinel => <<group, p>> \in used
        /\ \A c \in used : Before(from, c) => ~ Before(c, <<group, p>>)
        /\ <<group, p>> = Sentinel => \A c \in used : ~ Before(from, c)
    BY <1>1, <1>4, FirstIsNext
  <2>4. slot' = SlotOf(group, p) /\ slot' \in Int
    BY <1>1, <1>2, <2>1, <2>2, SlotIs
  <2>5. IF <<group, p>> = Sentinel THEN Stop ELSE StandAt(<<group, p>>)
    BY <1>4, <2>1 DEF BeginNext
  <2> HIDE DEF p
  <2>6. CASE <<group, p>> = Sentinel
    BY <1>1, <1>2, <2>1, <2>2, <2>3, <2>4, <2>5, <2>6, ComesToEnd
  <2>7. CASE <<group, p>> # Sentinel
    BY <1>1, <1>2, <2>1, <2>3, <2>4, <2>5, <2>7, ComesNext
  <2> QED
    BY <2>6, <2>7
<1> QED
  BY <1>3, <1>4

(* increment(), group by group. *)
LEMMA GroupForwardIter == ASSUME IterInv, GroupForward PROVE IterInv' /\ Neighbour
<1>1. /\ mode = "next_groups" /\ pos = 0 /\ group \in 0..groupMask /\ slot = SlotOf(group, 0)
      /\ from \in used /\ from[1] < group
      /\ \A c \in used : Before(from, c) => c[1] >= group
  BY DEF GroupForward, IterInv, ScanInv, Together
<1>2. /\ group \in Int /\ groupMask \in Int /\ Last \in Nat /\ UNCHANGED <<table, from, stayed>>
      /\ \A c \in used : c[1] \in Int /\ c[1] <= groupMask
  BY UsedCell DEF GroupForward
<1>3. CASE UsedIn(group) = {}
  <2>1. group' = group + 1 /\ slot' = slot + GroupSize /\ UNCHANGED <<pos, mode, seen>>
    BY <1>3 DEF GroupForward, NextGroup
  <2>2. group # groupMask /\ \A c \in used : c[1] # group
    BY <1>1, <1>3, NothingUsed
  <2>3. group' \in 0..groupMask /\ pos' \in 0..Last /\ slot' = SlotOf(group', pos')
    <3>1. SlotOf(group + 1, 0) = SlotOf(group, 0) + GroupSize
      BY <1>2, SlotIs
    <3> QED
      BY <1>1, <1>2, <2>1, <2>2, <3>1
  <2>4. from[1] < group' /\ \A c \in used : Before(from, c) => c[1] >= group'
    BY <1>1, <1>2, <2>1, <2>2
  <2>5. ScanInv'
    <3>1. used' = used /\ from' = from /\ mode' = "next_groups" /\ pos' = 0
      BY <1>1, <1>2, <2>1 DEF table
    <3>2. \A c : Before(from, c) <=> Before(from', c)
      BY <3>1
    <3>3. \A c \in used' : Before(from', c) => c[1] >= group'
      BY <2>4, <3>1, <3>2
    <3> QED
      BY <1>1, <2>4, <3>1, <3>3 DEF ScanInv, Before
  <2> QED
    BY <1>1, <1>2, <2>1, <2>3, <2>5, GoesOn
<1>4. CASE UsedIn(group) # {}
  <2> DEFINE p == FirstUsed(group)
  <2>1. p \in 0..Last /\ p \in Int
    <3>1. p \in 0..Last
      BY <1>4, SomethingUsed
    <3> QED
      BY <1>2, <3>1
  <2>2. /\ <<group, p>> # Sentinel => <<group, p>> \in used
        /\ \A c \in used : Before(from, c) => ~ Before(c, <<group, p>>)
        /\ <<group, p>> = Sentinel => \A c \in used : ~ Before(from, c)
    BY <1>1, <1>4, FirstIsNext
  <2>3. /\ IF <<group, p>> = Sentinel THEN Stop /\ UNCHANGED <<pos, slot>>
           ELSE StandAt(<<group, p>>) /\ pos' = p /\ slot' = slot + p
        /\ group' = group
    BY <1>4 DEF GroupForward
  <2>4. SlotOf(group, p) = slot + p /\ slot \in Int
    BY <1>1, <1>2, <2>1, SlotIs
  <2> HIDE DEF p
  <2>5. CASE <<group, p>> = Sentinel
    <3>1. Stop /\ pos' = pos /\ slot' = slot /\ pos' \in 0..Last
      BY <1>1, <1>2, <2>3, <2>5
    <3> QED
      BY <1>1, <1>2, <2>2, <2>3, <2>4, <2>5, <3>1, ComesToEnd
  <2>6. CASE <<group, p>> # Sentinel
    BY <1>1, <1>2, <2>2, <2>3, <2>4, <2>6, ComesNext
  <2> QED
    BY <2>5, <2>6
<1> QED
  BY <1>3, <1>4

(* decrement(), group by group. *)
LEMMA GroupBackwardIter == ASSUME IterInv, GroupBackward PROVE IterInv' /\ Neighbour
<1>1. /\ mode = "previous_groups" /\ pos = Last /\ group \in 0..groupMask /\ slot = SlotOf(group, Last)
      /\ from \in used /\ group < from[1]
      /\ \A c \in used : Before(c, from) => c[1] <= group
      /\ \E c \in used : Before(c, from)
  BY DEF GroupBackward, IterInv, ScanInv, Together
<1>2. /\ group \in Int /\ groupMask \in Int /\ Last \in Nat /\ Last \in Int /\ UNCHANGED <<table, from, stayed>>
      /\ \A c \in used : c[1] \in Int /\ c[1] <= groupMask /\ c[1] >= 0
  BY UsedCell DEF GroupBackward
<1>3. CASE UsedIn(group) = {}
  <2>1. group' = group - 1 /\ slot' = slot - GroupSize /\ UNCHANGED <<pos, mode, seen>>
    BY <1>3 DEF GroupBackward
  <2>2. \A c \in used : c[1] # group
    BY <1>1, <1>3, NothingUsed
  <2>3. group' < from[1] /\ \A c \in used : Before(c, from) => c[1] <= group'
    BY <1>1, <1>2, <2>1, <2>2
  <2>4. group' \in 0..groupMask /\ pos' \in 0..Last /\ slot' = SlotOf(group', pos')
    <3>1. SlotOf(group - 1, Last) = SlotOf(group, Last) - GroupSize
      BY <1>2, SlotIs
    <3>2. group' >= 0
      BY <1>1, <1>2, <2>1, <2>3
    <3>3. Last \in 0..Last
      BY <1>2
    <3> QED
      BY <1>1, <1>2, <2>1, <3>1, <3>2, <3>3
  <2>5. ScanInv'
    <3>1. used' = used /\ from' = from /\ mode' = "previous_groups" /\ pos' = Last
      BY <1>1, <1>2, <2>1 DEF table
    <3>2. \A c : Before(c, from) <=> Before(c, from')
      BY <3>1
    <3>3. /\ \A c \in used' : Before(c, from') => c[1] <= group'
          /\ \E c \in used' : Before(c, from')
      BY <1>1, <2>3, <3>1, <3>2
    <3> QED
      BY <1>1, <2>3, <3>1, <3>3 DEF ScanInv, Before
  <2> QED
    BY <1>1, <1>2, <2>1, <2>4, <2>5, GoesOn
<1>4. CASE UsedIn(group) # {}
  <2> DEFINE p == LastUsed(group)
  <2>1. p \in 0..Last /\ p \in Int
    <3>1. p \in 0..Last
      BY <1>4, SomethingUsed
    <3> QED
      BY <1>2, <3>1
  <2>2. /\ <<group, p>> \in used /\ Before(<<group, p>>, from)
        /\ \A c \in used : Before(c, from) => ~ Before(<<group, p>>, c)
    BY <1>1, <1>4, LastIsBefore
  <2>3. /\ IF <<group, p>> = Sentinel THEN Stop /\ UNCHANGED <<pos, slot>>
           ELSE StandAt(<<group, p>>) /\ pos' = p /\ slot' = slot - (Last - p)
        /\ group' = group
    BY <1>4 DEF GroupBackward
  <2>4. SlotOf(group, p) = slot - (Last - p)
    BY <1>1, <1>2, <2>1, SlotIs
  <2>5. <<group, p>> # Sentinel
    BY <2>2, UsedCell
  <2> HIDE DEF p
  <2> QED
    BY <1>1, <1>2, <2>2, <2>3, <2>4, <2>5, ComesBefore
<1> QED
  BY <1>3, <1>4

(* increment(), byte by byte. *)
LEMMA ScanForwardIter == ASSUME IterInv, ScanForward PROVE IterInv' /\ Neighbour
<1>1. /\ mode = "forward" /\ group \in 0..groupMask /\ slot = SlotOf(group, pos)
      /\ from \in used /\ group = from[1] /\ pos >= from[2] /\ Here # Sentinel
      /\ \A c \in used : Before(from, c) => Before(Here, c)
  BY DEF ScanForward, IterInv, ScanInv, Together
<1>2. /\ group \in Int /\ groupMask \in Int /\ Last \in Nat /\ Last \in Int /\ UNCHANGED <<table, from, stayed>>
      /\ pos \in 0..Last /\ pos \in Int /\ slot' = slot + 1 /\ used' = used /\ from' = from
      /\ \A c \in used : c[1] \in Int /\ c[2] \in Int /\ c[1] <= groupMask /\ c[2] <= Last /\ c = <<c[1], c[2]>>
  BY UsedCell DEF ScanForward, table
<1>3. \A c \in used : Before(from, c) => group < c[1] \/ (group = c[1] /\ pos < c[2])
  BY <1>1 DEF Before, Here
<1>4. \A c : Before(from, c) <=> Before(from', c)
  BY <1>2
<1>5. CASE pos = Last
  <2>1. group' = group + 1 /\ pos' = 0 /\ mode' = "next_groups" /\ seen' = seen
    BY <1>5 DEF ScanForward
  <2>2. group # groupMask
    BY <1>1, <1>5 DEF Here, Sentinel
  <2>3. group' \in 0..groupMask /\ pos' \in 0..Last /\ slot' = SlotOf(group', pos')
    <3>1. SlotOf(group + 1, 0) = SlotOf(group, Last) + 1
      BY <1>2, SlotIs
    <3> QED
      BY <1>1, <1>2, <1>5, <2>1, <2>2, <3>1
  <2>4. from[1] < group' /\ \A c \in used' : Before(from', c) => c[1] >= group'
    BY <1>1, <1>2, <1>3, <1>4, <1>5, <2>1
  <2>5. ScanInv'
    BY <1>1, <1>2, <2>1, <2>4 DEF ScanInv, Before
  <2> QED
    BY <1>1, <1>2, <2>1, <2>3, <2>5, GoesOn
<1>6. CASE pos # Last
  <2>1. pos' = pos + 1 /\ group' = group
    BY <1>6 DEF ScanForward
  <2>2. IF <<group, pos + 1>> = Sentinel THEN Stop
        ELSE IF <<group, pos + 1>> \in used THEN StandAt(<<group, pos + 1>>)
        ELSE UNCHANGED <<mode, seen>>
    BY <1>6, <2>1 DEF ScanForward
  <2>3. pos + 1 \in 0..Last /\ SlotOf(group, pos + 1) = slot' /\ slot' \in Int
    <3>1. pos + 1 \in 0..Last
      BY <1>2, <1>6
    <3>2. SlotOf(group, pos + 1) = SlotOf(group, pos) + 1 /\ SlotOf(group, pos) \in Int
      BY <1>2, SlotIs
    <3> QED
      BY <1>1, <1>2, <3>1, <3>2
  <2>4. CASE <<group, pos + 1>> = Sentinel
    <3>1. group = groupMask /\ pos + 1 = Last
      BY <2>4 DEF Sentinel
    <3>2. \A c \in used : ~ (c[1] = groupMask /\ c[2] = Last)
      BY UsedCell
    <3>3. \A c \in used : ~ Before(from, c)
      BY <1>2, <1>3, <3>1, <3>2
    <3> QED
      BY <1>1, <1>2, <2>1, <2>2, <2>3, <2>4, <3>3, ComesToEnd
  <2>5. CASE <<group, pos + 1>> # Sentinel /\ <<group, pos + 1>> \in used
    <3>1. \A c \in used : Before(from, c) => ~ Before(c, <<group, pos + 1>>)
      BY <1>2, <1>3 DEF Before
    <3> QED
      BY <1>1, <1>2, <2>1, <2>2, <2>3, <2>5, <3>1, ComesNext
  <2>6. CASE <<group, pos + 1>> # Sentinel /\ <<group, pos + 1>> \notin used
    <3>1. mode' = "forward" /\ seen' = seen
      BY <1>1, <2>2, <2>6
    <3>2. Here' = <<group, pos + 1>> /\ Sentinel' = Sentinel
      BY <1>2, <2>1 DEF Here, Sentinel, ScanForward, table
    <3>3. \A c \in used : Before(from, c) => group < c[1] \/ (group = c[1] /\ pos + 1 < c[2])
      <4>1. \A c \in used : ~ (group = c[1] /\ pos + 1 = c[2])
        BY <1>2, <2>6
      <4> QED
        BY <1>2, <1>3, <4>1
    <3>4. \A c \in used' : Before(from', c) => Before(Here', c)
      BY <1>2, <1>4, <3>2, <3>3 DEF Before
    <3>5. ScanInv'
      <4>1. group' = from'[1] /\ pos' >= from'[2] /\ from' \in used' /\ Here' # Sentinel'
        BY <1>1, <1>2, <2>1, <2>6, <3>2
      <4> QED
        BY <3>1, <3>4, <4>1 DEF ScanInv, Before
    <3> QED
      BY <1>1, <1>2, <2>1, <2>3, <3>1, <3>5, GoesOn
  <2> QED
    BY <2>4, <2>5, <2>6
<1> QED
  BY <1>5, <1>6

(* decrement(), byte by byte. *)
LEMMA ScanBackwardIter == ASSUME IterInv, ScanBackward PROVE IterInv' /\ Neighbour
<1>1. /\ mode = "backward" /\ group \in 0..groupMask /\ slot = SlotOf(group, pos)
      /\ from \in used /\ group = from[1] /\ pos <= from[2]
      /\ \A c \in used : Before(c, from) => Before(c, Here)
      /\ \E c \in used : Before(c, from)
  BY DEF ScanBackward, IterInv, ScanInv, Together
<1>2. /\ group \in Int /\ groupMask \in Int /\ Last \in Nat /\ Last \in Int /\ UNCHANGED <<table, from, stayed>>
      /\ pos \in 0..Last /\ pos \in Int /\ slot' = slot - 1 /\ used' = used /\ from' = from
      /\ \A c \in used : /\ c[1] \in Int /\ c[2] \in Int /\ c[1] <= groupMask /\ c[2] <= Last /\ c = <<c[1], c[2]>>
                         /\ c[1] >= 0 /\ c[2] >= 0
  BY UsedCell DEF ScanBackward, table
<1>3. \A c \in used : Before(c, from) => c[1] < group \/ (c[1] = group /\ c[2] < pos)
  BY <1>1 DEF Before, Here
<1>4. \A c : Before(c, from) <=> Before(c, from')
  BY <1>2
<1>5. CASE pos = 0
  <2>1. group' = group - 1 /\ pos' = Last /\ mode' = "previous_groups" /\ seen' = seen
    BY <1>5 DEF ScanBackward
  <2>2. PICK c \in used : Before(c, from)
    BY <1>1
  <2>3. c[1] < group /\ c[1] >= 0
    BY <1>2, <1>3, <1>5, <2>2
  <2>4. group' \in 0..groupMask /\ pos' \in 0..Last /\ slot' = SlotOf(group', pos')
    <3>1. SlotOf(group - 1, Last) = SlotOf(group, 0) - 1
      BY <1>2, SlotIs
    <3>2. Last \in 0..Last
      BY <1>2
    <3> QED
      BY <1>1, <1>2, <1>5, <2>1, <2>3, <3>1, <3>2
  <2>5. /\ group' < from[1] /\ \A d \in used' : Before(d, from') => d[1] <= group'
        /\ \E d \in used' : Before(d, from')
    BY <1>1, <1>2, <1>3, <1>4, <1>5, <2>1
  <2>6. ScanInv'
    BY <1>1, <1>2, <2>1, <2>5 DEF ScanInv, Before
  <2> QED
    BY <1>1, <1>2, <2>1, <2>4, <2>6, GoesOn
<1>6. CASE pos # 0
  <2>1. pos' = pos - 1 /\ group' = group
    BY <1>6 DEF ScanBackward
  <2>2. IF <<group, pos - 1>> \in used THEN StandAt(<<group, pos - 1>>) ELSE UNCHANGED <<mode, seen>>
    BY <1>6, <2>1 DEF ScanBackward
  <2>3. pos - 1 \in 0..Last /\ SlotOf(group, pos - 1) = slot'
    <3>1. pos - 1 \in 0..Last
      BY <1>2, <1>6
    <3>2. SlotOf(group, pos - 1) = SlotOf(group, pos) - 1
      BY <1>2, SlotIs
    <3> QED
      BY <1>1, <1>2, <3>1, <3>2
  <2>4. CASE <<group, pos - 1>> \in used
    <3>1. \A c \in used : Before(c, from) => ~ Before(<<group, pos - 1>>, c)
      BY <1>2, <1>3 DEF Before
    <3>2. Before(<<group, pos - 1>>, from)
      BY <1>1, <1>2 DEF Before
    <3> QED
      BY <1>1, <1>2, <2>1, <2>2, <2>3, <2>4, <3>1, <3>2, ComesBefore
  <2>5. CASE <<group, pos - 1>> \notin used
    <3>1. mode' = "backward" /\ seen' = seen /\ Here' = <<group, pos - 1>>
      BY <1>1, <2>1, <2>2, <2>5 DEF Here
    <3>2. \A c \in used : Before(c, from) => c[1] < group \/ (c[1] = group /\ c[2] < pos - 1)
      <4>1. \A c \in used : ~ (group = c[1] /\ pos - 1 = c[2])
        BY <1>2, <2>5
      <4> QED
        BY <1>2, <1>3, <4>1
    <3>3. /\ \A c \in used' : Before(c, from') => Before(c, Here')
          /\ \E c \in used' : Before(c, from')
      BY <1>1, <1>2, <1>4, <3>1, <3>2 DEF Before
    <3>4. group' = from'[1] /\ pos' <= from'[2] /\ from' \in used'
      BY <1>1, <1>2, <2>1
    <3>5. ScanInv'
      BY <3>1, <3>3, <3>4 DEF ScanInv, Before
    <3> QED
      BY <1>1, <1>2, <2>1, <2>3, <3>1, <3>5, GoesOn
  <2> QED
    BY <2>4, <2>5
<1> QED
  BY <1>5, <1>6

(* What begin() finds. *)
LEMMA AtTheBegin ==
  ASSUME groupMask \in Nat \ {0}, used \subseteq Cells(groupMask), mode = AtBegin,
         group = 0, pos = 0, slot = 0, from = Start, stayed = used, seen = {}
  PROVE  IterInv
<1>1. Last \in Nat /\ 0 \in 0..Last /\ groupMask \in Nat /\ 0 \in 0..groupMask /\ GroupSize \in Nat
  BY Width
<1>2. \A c \in used : c[1] \in Int /\ c[1] >= 0 /\ Before(from, c)
  <2>1. \A c \in used : c[1] \in 0..groupMask
    BY <1>1, CellIs
  <2>2. \A x \in 0..groupMask : x \in Int /\ x >= 0 /\ -1 < x
    BY <1>1
  <2> QED
    BY <2>1, <2>2 DEF Before, Start
<1>3. (mode = "begin" /\ used # {}) \/ (mode = "end" /\ used = {})
  BY DEF AtBegin
<1>4. SlotOf(0, 0) = 0
  BY <1>1 DEF SlotOf
<1>5. TypeInv /\ Together
  BY <1>1, <1>3, <1>4 DEF TypeInv, Together
<1>6. ScanInv
  BY <1>2, <1>3 DEF ScanInv
<1>7. SeenInv
  BY <1>2, <1>3 DEF SeenInv
<1> QED
  BY <1>5, <1>6, <1>7 DEF IterInv

(* The first state. *)
LEMMA InitIter == Init => IterInv
<1> SUFFICES ASSUME Init PROVE IterInv
  OBVIOUS
<1>1. groupMask \in Nat \ {0} /\ used \subseteq Cells(groupMask)
  BY IteratorAssumption DEF Init
<1> QED
  BY <1>1, AtTheBegin DEF Init

(* The same of the state a step leads to. *)
LEMMA AtTheBeginNext ==
  groupMask \in Nat \ {0} /\ used \subseteq Cells(groupMask) /\ mode = AtBegin
  /\ group = 0 /\ pos = 0 /\ slot = 0 /\ from = Start /\ stayed = used /\ seen = {} => IterInv
BY AtTheBegin

(* A traversal begins. *)
LEMMA BeginIter == ASSUME IterInv, Begin PROVE IterInv' /\ Neighbour
<1>1. (groupMask \in Nat \ {0} /\ used \subseteq Cells(groupMask) /\ mode = AtBegin
       /\ group = 0 /\ pos = 0 /\ slot = 0 /\ from = Start /\ stayed = used /\ seen = {} => IterInv)'
  BY AtTheBeginNext, PTL
<1>2. /\ groupMask' \in Nat \ {0} /\ used' \subseteq Cells(groupMask') /\ mode' = AtBegin'
      /\ group' = 0 /\ pos' = 0 /\ slot' = 0 /\ from' = Start' /\ stayed' = used' /\ seen' = {}
  BY DEF Begin, table, AtBegin, Start, IterInv, TypeInv, Cells
<1>3. Neighbour
  BY DEF Begin, Neighbour
<1> QED
  BY <1>1, <1>2, <1>3 DEF Cells

(* A move begins at an element. *)
LEMMA MoveIter == ASSUME IterInv, Increment \/ Decrement PROVE IterInv' /\ Neighbour
<1>1. /\ mode = "at" /\ mode' \in {"forward", "backward"} /\ from' = Here
      /\ UNCHANGED <<groupMask, used, group, pos, slot, stayed, seen>>
  BY DEF Increment, Decrement, Move, table, Here
<1>2. Here \in used /\ Here \in Place /\ group \in Int /\ pos \in Int /\ Here[1] = group /\ Here[2] = pos /\ Here # Sentinel
  BY <1>1, UsedCell DEF IterInv, ScanInv, Here
<1>3. Here' = Here /\ Sentinel' = Sentinel
  BY <1>1 DEF Here, Sentinel
<1>4. TypeInv' /\ Together'
  BY <1>1 DEF IterInv, TypeInv, Together, SlotOf
<1>5. mode' = "backward" => \E c \in used : Before(c, Here)
  BY DEF Increment, Decrement, Move, Before, Here
<1>6. ScanInv'
  <2>1. mode' = "backward" => \E c \in used' : Before(c, from')
    BY <1>1, <1>5
  <2>2. /\ \A c \in used' : Before(from', c) => Before(Here', c)
        /\ \A c \in used' : Before(c, from') => Before(c, Here')
    BY <1>1, <1>3
  <2>3. group' = from'[1] /\ pos' = from'[2] /\ pos' \in Int /\ from' \in used' /\ Here' # Sentinel'
    BY <1>1, <1>2, <1>3
  <2> QED
    BY <1>1, <2>1, <2>2, <2>3 DEF ScanInv, Before
<1>7. SeenInv'
  <2>1. \A c \in stayed : ~ Before(Here, c) => c \in seen
    BY <1>1 DEF IterInv, SeenInv
  <2>2. \A c \in stayed' : ~ Before(from', c) => c \in seen'
    BY <1>1, <2>1
  <2> QED
    BY <1>1, <2>2 DEF SeenInv, Before
<1> QED
  BY <1>1, <1>4, <1>6, <1>7 DEF IterInv, Neighbour

(* What another call of the table does between two moves. *)
LEMMA MarkIter ==
  ASSUME IterInv, NEW c \in Cells(groupMask), Mark(c) \/ Unmark(c)
  PROVE  IterInv' /\ Neighbour
<1>1. /\ mode = "at" /\ UNCHANGED <<groupMask, mode, group, pos, slot, from, seen>>
      /\ stayed' \subseteq stayed /\ stayed' \subseteq used' /\ used' \subseteq Cells(groupMask) /\ Here \in used'
  BY DEF Mark, Unmark, IterInv, TypeInv, ScanInv, Here
<1>2. Here' = Here
  BY <1>1 DEF Here
<1>3. TypeInv' /\ Together'
  BY <1>1 DEF IterInv, TypeInv, Together, SlotOf, Cells
<1>4. ScanInv'
  BY <1>1, <1>2 DEF ScanInv
<1>5. SeenInv'
  <2>1. \A d \in stayed : ~ Before(Here, d) => d \in seen
    BY <1>1 DEF IterInv, SeenInv
  <2>2. \A d \in stayed' : ~ Before(Here', d) => d \in seen'
    BY <1>1, <1>2, <2>1
  <2> QED
    BY <1>1, <2>2 DEF SeenInv, Before
<1> QED
  BY <1>1, <1>3, <1>4, <1>5 DEF IterInv, Neighbour

(* Every step. *)
LEMMA NextIter == IterInv /\ [Next]_vars => IterInv' /\ (Neighbour \/ UNCHANGED vars)
<1> SUFFICES ASSUME IterInv, [Next]_vars PROVE IterInv' /\ (Neighbour \/ UNCHANGED vars)
  OBVIOUS
<1>1. CASE UNCHANGED vars
  BY <1>1 DEF vars, IterInv, TypeInv, Together, SlotOf, ScanInv, SeenInv, Here, Sentinel, Start, Before, Cells
<1>2. CASE Begin
  BY <1>2, BeginIter
<1>3. CASE Moving
  BY <1>3, BeginNextIter, ScanForwardIter, GroupForwardIter, ScanBackwardIter, GroupBackwardIter DEF Moving
<1>4. CASE Increment \/ Decrement
  BY <1>4, MoveIter
<1>5. CASE \E c \in Cells(groupMask) : Mark(c) \/ Unmark(c)
  BY <1>5, MarkIter
<1> QED
  BY <1>1, <1>2, <1>3, <1>4, <1>5 DEF Next

(* In every state. *)
LEMMA AlwaysIter == Spec => []IterInv
<1>1. Init => IterInv
  BY InitIter
<1>2. IterInv /\ [Next]_vars => IterInv'
  BY NextIter
<1> QED
  BY <1>1, <1>2, PTL DEF Spec

(***************************************************************************)
(* A traversal that has reached the end has stood at every element that    *)
(* was in the table all the time, for every table and whatever is inserted *)
(* and erased between its moves.                                           *)
(***************************************************************************)
THEOREM TraversalComplete == Spec => []NothingMissed
<1>1. Spec => []IterInv
  BY AlwaysIter
<1>2. IterInv => NothingMissed
  BY DEF IterInv, SeenInv, NothingMissed
<1> QED
  BY <1>1, <1>2, PTL

(***************************************************************************)
(* ++ and -- end at the next element and at the one before, with the slot  *)
(* that belongs to the byte, and ++ at the end when there is none.         *)
(***************************************************************************)
THEOREM Neighbours == Spec => MovesToNeighbour
<1> DEFINE Moves ==
      /\ mode \in {"begin", "forward", "next_groups"} /\ mode' \in {"at", "end"} =>
            \A c \in used : Before(from, c) => mode' = "at" /\ ~ Before(c, Here')
      /\ mode \in {"backward", "previous_groups"} /\ mode' \in {"at", "end"} =>
            mode' = "at" /\ \A c \in used : Before(c, from) => ~ Before(Here', c)
      /\ mode' = "at" => slot' = group' * GroupSize + pos'
<1>1. Spec => []IterInv
  BY AlwaysIter
<1>2. IterInv /\ [Next]_vars => [Moves]_vars
  <2> SUFFICES ASSUME IterInv, [Next]_vars, ~ UNCHANGED vars PROVE Moves
    OBVIOUS
  <2>1. IterInv' /\ Neighbour
    BY NextIter
  <2>2. mode' = "at" => slot' = group' * GroupSize + pos'
    BY <2>1 DEF IterInv, Together, SlotOf
  <2> QED
    BY <2>1, <2>2 DEF Neighbour
<1>3. MovesToNeighbour <=> [][Moves]_vars
  BY DEF MovesToNeighbour
<1> HIDE DEF Moves
<1> QED
  BY <1>1, <1>2, <1>3, PTL DEF Spec


(***************************************************************************)
(* The steps a move has left at most: of the scan of its group, and of the *)
(* groups to the end it goes to.                                           *)
(***************************************************************************)
ToGo == CASE mode \in {"begin", "next_groups"} -> groupMask - group + 1
          [] mode = "forward"                  -> (groupMask - group) + (Last - pos) + 2
          [] mode = "backward"                 -> group + pos + 2
          [] mode = "previous_groups"          -> group + 1
          [] OTHER                             -> 0

(* The bound of a move. *)
LEMMA ToGoRange ==
  ASSUME IterInv
  PROVE  /\ ToGo \in Nat /\ ToGo <= groupMask + GroupSize + 1
         /\ mode \notin {"at", "end"} => ToGo > 0
<1>1. /\ groupMask \in Nat /\ pos \in 0..Last /\ Last \in Nat /\ GroupSize = Last + 1
      /\ mode # "end" => group \in 0..groupMask
      /\ mode \in {"begin", "at", "end", "forward", "next_groups", "backward", "previous_groups"}
  BY Width DEF IterInv, TypeInv, Together
<1>2. CASE mode \in {"begin", "next_groups"}
  BY <1>1, <1>2 DEF ToGo
<1>3. CASE mode = "forward"
  BY <1>1, <1>3 DEF ToGo
<1>4. CASE mode = "backward"
  BY <1>1, <1>4 DEF ToGo
<1>5. CASE mode = "previous_groups"
  BY <1>1, <1>5 DEF ToGo
<1>6. CASE mode \in {"at", "end"}
  BY <1>1, <1>6 DEF ToGo
<1> QED
  BY <1>1, <1>2, <1>3, <1>4, <1>5, <1>6

(* A step that ends the move leaves nothing to go. *)
LEMMA NothingToGo ==
  ASSUME IterInv, mode \notin {"at", "end"}, mode' \in {"at", "end"}
  PROVE  ToGo' < ToGo
<1>1. ToGo' = 0
  BY DEF ToGo
<1> QED
  BY <1>1, ToGoRange

(***************************************************************************)
(* Every step of ++, -- or begin() brings it nearer to its end, in a table *)
(* of any size and whatever is in it, and there are never more than a      *)
(* group's positions and the table's groups to go: no move runs past the   *)
(* sentinel or before the first cell.                                      *)
(***************************************************************************)
THEOREM MovesGetShorter ==
  Spec => /\ [](ToGo \in Nat /\ ToGo <= groupMask + GroupSize + 1)
          /\ [][mode \notin {"at", "end"} => ToGo' < ToGo]_vars
<1>1. Spec => []IterInv
  BY AlwaysIter
<1>2. IterInv => ToGo \in Nat /\ ToGo <= groupMask + GroupSize + 1
  BY ToGoRange
<1>3. IterInv /\ [Next]_vars => [mode \notin {"at", "end"} => ToGo' < ToGo]_vars
  <2> SUFFICES ASSUME IterInv, Next, mode \notin {"at", "end"} PROVE ToGo' < ToGo
    BY DEF vars
  <2>1. Moving
    BY DEF Next, Begin, Increment, Decrement, Move, Mark, Unmark
  <2>2. /\ groupMask \in Nat /\ pos \in 0..Last /\ Last \in Nat /\ group \in 0..groupMask
        /\ groupMask' = groupMask
    BY <2>1, Width DEF IterInv, TypeInv, Together, Moving, BeginNext, ScanForward, GroupForward, ScanBackward,
                       GroupBackward, table
  <2>3. SUFFICES ASSUME mode' \notin {"at", "end"} PROVE ToGo' < ToGo
    BY NothingToGo
  <2>4. CASE BeginNext
    <3>1. mode = "begin" /\ mode' = "begin" /\ group' = group + 1
      BY <2>3, <2>4 DEF BeginNext, Stop, StandAt
    <3> QED
      BY <2>2, <3>1 DEF ToGo
  <2>5. CASE ScanForward
    <3>1. /\ mode = "forward"
          /\ \/ mode' = "next_groups" /\ group' = group + 1
             \/ mode' = "forward" /\ group' = group /\ pos' = pos + 1
      BY <2>3, <2>5 DEF ScanForward, Stop, StandAt
    <3> QED
      BY <2>2, <3>1 DEF ToGo
  <2>6. CASE GroupForward
    <3>1. mode = "next_groups" /\ mode' = "next_groups" /\ group' = group + 1
      BY <2>3, <2>6 DEF GroupForward, NextGroup, Stop, StandAt
    <3> QED
      BY <2>2, <3>1 DEF ToGo
  <2>7. CASE ScanBackward
    <3>1. /\ mode = "backward"
          /\ \/ mode' = "previous_groups" /\ group' = group - 1
             \/ mode' = "backward" /\ group' = group /\ pos' = pos - 1
      BY <2>3, <2>7 DEF ScanBackward, StandAt
    <3> QED
      BY <2>2, <3>1 DEF ToGo
  <2>8. CASE GroupBackward
    <3>1. mode = "previous_groups" /\ mode' = "previous_groups" /\ group' = group - 1
      BY <2>3, <2>8 DEF GroupBackward, Stop, StandAt
    <3> QED
      BY <2>2, <3>1 DEF ToGo
  <2> QED
    BY <2>1, <2>4, <2>5, <2>6, <2>7, <2>8 DEF Moving
<1> QED
  BY <1>1, <1>2, <1>3, PTL DEF Spec

=============================================================================
