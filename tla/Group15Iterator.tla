--------------------------- MODULE Group15Iterator ---------------------------
(***************************************************************************)
(* An iterator of a group15_flat_table: begin(), ++ and --.  It holds a    *)
(* pointer to a control byte and one to a slot and moves each on its own,  *)
(* over the control bytes one by one to the end of a group and then group  *)
(* by group; only the sentinel ends a traversal.  Between two moves the    *)
(* table may gain and lose elements elsewhere, as long as it does not      *)
(* rehash.                                                                 *)
(***************************************************************************)
EXTENDS Naturals, Integers, FiniteSetsExt

CONSTANTS GroupWidth,   \* kGroupWidth
          Masks         \* group_mask_ of the tables to traverse

ASSUME IteratorAssumption == GroupWidth \in Nat /\ GroupWidth >= 2 /\ Masks \subseteq Nat \ {0}

VARIABLES
    groupMask,
    used,     \* the cells whose byte is neither empty nor the sentinel's
    mode,     \* what the move under way does next, "at" or "end" when there is none
    group, pos, slot,  \* the position of ctrl_ and the index of slot_
    from,     \* the cell the last move started from
    stayed,   \* the cells in use ever since begin()
    seen      \* the cells the iterator has stood at

vars == <<groupMask, used, mode, group, pos, slot, from, stayed, seen>>
table == <<groupMask, used>>

GroupSize == GroupWidth - 1
Last == GroupSize - 1      \* the last position of a group
Sentinel == <<groupMask, Last>>
Cells(mask) == ((0..mask) \X (0..Last)) \ {<<mask, Last>>}
Start == <<-1, Last>>      \* before the first cell

(* match_used(): the sentinel counts as used *)
UsedIn(g) == {p \in 0..Last : <<g, p>> \in used \/ <<g, p>> = Sentinel}

(* Mutant: the highest set bit for the lowest *)
HighestUsed(g) == Max(UsedIn(g))

(* bsf32() and bsr32() of the used bits; the lowest is the mutant of the highest *)
FirstUsed(g) == Min(UsedIn(g))
LastUsed(g) == Max(UsedIn(g))

Stop == mode' = "end" /\ UNCHANGED seen
StandAt(c) == mode' = "at" /\ seen' = seen \cup {c}

AtBegin == IF used = {} THEN "end" ELSE "begin"

Init == /\ groupMask \in Masks
        /\ used \in SUBSET Cells(groupMask)
        /\ mode = AtBegin
        /\ group = 0 /\ pos = 0 /\ slot = 0
        /\ from = Start
        /\ stayed = used /\ seen = {}

(* the next traversal *)
Begin == /\ mode = "end" /\ mode' = AtBegin
         /\ group' = 0 /\ pos' = 0 /\ slot' = 0
         /\ from' = Start
         /\ stayed' = used /\ seen' = {}
         /\ UNCHANGED table

(* find_first_used_index(): the first group with a used byte *)
BeginNext == /\ mode = "begin"
             /\ IF UsedIn(group) = {}
                THEN group' = group + 1 /\ slot' = slot + GroupSize /\ UNCHANGED <<pos, mode, seen>>
                ELSE /\ pos' = FirstUsed(group) /\ slot' = slot + pos'
                     /\ IF <<group, pos'>> = Sentinel THEN Stop ELSE StandAt(<<group, pos'>>)
                     /\ UNCHANGED group
             /\ UNCHANGED <<table, from, stayed>>

Move(scan) == /\ mode = "at"
              /\ mode' = scan /\ from' = <<group, pos>>
              /\ UNCHANGED <<table, group, pos, slot, stayed, seen>>
Increment == Move("forward")
(* the caller does not go back from the first element *)
Decrement == Move("backward") /\ \E c \in used : c[1] < group \/ (c[1] = group /\ c[2] < pos)

(* increment(), first loop: to the next byte of the group *)
ScanForward ==
    /\ mode = "forward"
    /\ slot' = slot + 1
    /\ IF pos = Last
       THEN group' = group + 1 /\ pos' = 0 /\ mode' = "next_groups" /\ UNCHANGED seen
       ELSE /\ pos' = pos + 1 /\ UNCHANGED group
            /\ IF <<group, pos'>> = Sentinel THEN Stop
               ELSE IF <<group, pos'>> \in used THEN StandAt(<<group, pos'>>)
               ELSE UNCHANGED <<mode, seen>>
    /\ UNCHANGED <<table, from, stayed>>

(* Mutant: neither pointer moves *)
SameGroup == UNCHANGED <<group, slot>>

NextGroup == group' = group + 1 /\ slot' = slot + GroupSize

(* increment(), second loop: to the first used byte of a group *)
GroupForward ==
    /\ mode = "next_groups"
    /\ IF UsedIn(group) = {}
       THEN NextGroup /\ UNCHANGED <<pos, mode, seen>>
       ELSE LET p == FirstUsed(group)
            IN /\ IF <<group, p>> = Sentinel
                  THEN Stop /\ UNCHANGED <<pos, slot>>
                  ELSE StandAt(<<group, p>>) /\ pos' = p /\ slot' = slot + p
               /\ UNCHANGED group
    /\ UNCHANGED <<table, from, stayed>>

(* decrement(), first loop *)
ScanBackward ==
    /\ mode = "backward"
    /\ slot' = slot - 1
    /\ IF pos = 0
       THEN group' = group - 1 /\ pos' = Last /\ mode' = "previous_groups" /\ UNCHANGED seen
       ELSE /\ pos' = pos - 1 /\ UNCHANGED group
            /\ IF <<group, pos'>> \in used THEN StandAt(<<group, pos'>>)
               ELSE UNCHANGED <<mode, seen>>
    /\ UNCHANGED <<table, from, stayed>>

(* decrement(), second loop *)
GroupBackward ==
    /\ mode = "previous_groups"
    /\ IF UsedIn(group) = {}
       THEN group' = group - 1 /\ slot' = slot - GroupSize /\ UNCHANGED <<pos, mode, seen>>
       ELSE LET p == LastUsed(group)
            IN /\ IF <<group, p>> = Sentinel
                  THEN Stop /\ UNCHANGED <<pos, slot>>
                  ELSE StandAt(<<group, p>>) /\ pos' = p /\ slot' = slot - (Last - p)
               /\ UNCHANGED group
    /\ UNCHANGED <<table, from, stayed>>

(* another call of the table, which does not touch the iterator's element *)
Mark(c) == /\ mode = "at" /\ c \notin used
           /\ used' = used \cup {c}
           /\ UNCHANGED <<groupMask, mode, group, pos, slot, from, stayed, seen>>
Unmark(c) == /\ mode = "at" /\ c \in used \ {<<group, pos>>}
             /\ used' = used \ {c} /\ stayed' = stayed \ {c}
             /\ UNCHANGED <<groupMask, mode, group, pos, slot, from, seen>>

Moving == BeginNext \/ ScanForward \/ GroupForward \/ ScanBackward \/ GroupBackward
Next == Begin \/ Moving \/ Increment \/ Decrement \/ \E c \in Cells(groupMask) : Mark(c) \/ Unmark(c)

(* A move that has begun runs on *)
Spec == Init /\ [][Next]_vars /\ WF_vars(Moving)

-----------------------------------------------------------------------------
(* Properties *)

Before(c, d) == c[1] < d[1] \/ (c[1] = d[1] /\ c[2] < d[2])
Here == <<group, pos>>

(***************************************************************************)
(* ++ and -- go to the neighbouring element: a move jumps over no element, *)
(* and an end is reached only when none is left.  Where a move ends, the   *)
(* slot is that of the byte.                                               *)
(***************************************************************************)
MovesToNeighbour ==
    [][/\ mode \in {"begin", "forward", "next_groups"} /\ mode' \in {"at", "end"} =>
             \A c \in used : Before(from, c) => mode' = "at" /\ ~ Before(c, Here')
       /\ mode \in {"backward", "previous_groups"} /\ mode' \in {"at", "end"} =>
             mode' = "at" /\ \A c \in used : Before(c, from) => ~ Before(Here', c)
       /\ mode' = "at" => slot' = group' * GroupSize + pos']_vars

(***************************************************************************)
(* A traversal to the end stands at every element that has been there all  *)
(* the time, whatever is inserted and erased between its moves.            *)
(***************************************************************************)
NothingMissed == mode = "end" => stayed \subseteq seen

(***************************************************************************)
(* Every move ends.                                                        *)
(***************************************************************************)
MovesEnd == mode \notin {"at", "end"} ~> mode \in {"at", "end"}
=============================================================================
