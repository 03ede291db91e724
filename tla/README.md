# A verification development for jstd_hashmap

The library is a set of C++ hash maps, header only, in `src/src/jstd/hashmap/`. This directory holds TLA+
modules that model them, TLC configurations that check the models on small instances, and TLAPS proofs of
what holds for every instance. Paths below are relative to `src/src/jstd/hashmap/` unless they say more.

## 1. Inventory

| component | state | operations | hard part | what makes it correct |
|---|---|---|---|---|
| `group_quadratic_prober.hpp` | `index_`, `step_` | `next_bucket()` | modular arithmetic | one traversal visits every group once |
| `group15_flat_table.hpp` with `flat_map_group15.hpp` | groups of 15 control bytes and one byte of overflow bits, slots, size, threshold, mask, load factor | find, insert, assign, erase, clear, reserve, rehash, shrink, load factor; copy, move, swap, iteration | three redundant views of the elements (bytes, slots, counters), chains kept only by overflow bits, insertion loops without a bound, a constructor that throws in the middle | it is a map; every element reachable; counters right; every loop ends |
| `group15_flat_map.hpp` | a table | forwards to the table, `at`, `operator[]` | - | the table's |
| `flat_map_iterator15.hpp` | pointers to a group, a position and a slot | `++`, `--`, `*` | dangles after a rehash; stops at the sentinel | visits each element once |
| `group16_flat_table.hpp` and its group, map and iterator | as group15, 16 slots, 7 hash bits and an overflow bit in each byte | the same; the threshold is given back when an erased slot is reused | the same, and the threshold | the same |
| `group30_flat_table.hpp` and its group and map | as group15, slots allocated apart | the same | does not compile | - |
| `robin_hash_map.h` | a byte of control per slot with the distance of its element from home (a word with eight bits of the hash where hashes are stored); slots, `max_lookups_` of them behind the capacity, so that no chain wraps | find, insert with displacement, erase with backward shift, growth that is asked for in the middle of an insertion, rehash; iteration | chains of moves with one element in the hand; a limit of lookups; walks whose only end is a byte | it is a map; distances right, sorted along a chain; nothing left behind by a growth |
| `robin16_hash_map.h` | sixteen bits of control per slot, those of the first group repeated behind the last; circular | the same | indexes that wrap, copies to keep in step, tables smaller than a group | the same, and copies that agree |
| `flat16_hash_map.h` | a byte of seven hash bits or Empty, Deleted, EndOf per slot; groups begin at any slot and wrap; a count of empties left | find, insert, erase, growth, dropping of deleted slots, rehash; iteration | when an erased slot may be empty again; marks behind the table | every element findable; iteration complete |
| `unordered_map.h`, `hash_chunk_list.h` | buckets, entry chunks, free list | find, insert, erase, rehash | does not compile | - |
| slot policies, layout policies, traits | none | construct, transfer, destroy | compile-time selection | each slot constructed and destroyed once |
| `hasher/`, `support/`, `string/`, `memory/`, `traits/`, `system/`, `test/` | none, or a generator's | pure functions, shims | bit tricks | power-of-two rounding |

The components interact by direct calls within one thread: a map calls its table, the table calls the prober,
the group, the slot policy, the user's hash, equality and constructors. Nothing is concurrent, nothing is
persisted, and there are no callbacks but the user's hash, equality, constructors and allocator, of which the
last two may throw. What is hard is therefore long sequences of legal calls, redundant state, boundaries, and
a failure between two steps of one call. The static groups that all tables without memory share are the one
piece of state that crosses objects.

PROJECT.json lists every component with its status and every hazard at its line.

## 2. Modules

`GroupQuadraticProber` - the arithmetic of the probe sequence: `NextIndex` and `HasNextBucket` are
`next_bucket()`, `Probe` is the closed form of the index after n moves.

`GroupProbeWalk` - a state machine for one whole traversal, a prober moved until it returns false.

`HashMapSpec` - the abstract map: a function from keys to values and the result of the last call. It is what
every map of the library promises: `Group15Table`, `Group16Table`, `RobinHashMap` and `Robin16HashMap` implement it.

`Group15Table` - one `group15_flat_table`. A call is a thread of steps (variable `pc`): `idle` to `find`
for calls with a key, `manage` for the others; `grow` after a search that found nothing; `rehash` and
`transfer` for the loop over the old groups; `place` for `find_empty_to_insert()`; `construct` between the
marking of the slot and the construction of the element; `done` when it returns. One step is one iteration of
a loop of the source, so a state between two iterations is visible to the invariants.

| model | code |
|---|---|
| `groupMask`, `slotSize`, `slotThreshold`, `mlf` | `group_mask_`, `slot_size_`, `slot_threshold_`, `mlf_` |
| `ctrl[<<g, p>>]`, `overflow[g]` | the bytes of group g; its last byte, as the set of its bits |
| `slot[<<g, p>>]` | the slot at `g * kGroupSize + p`, an element or `Raw` |
| `probe` | `prober_type` and the key it is used for |
| `oldSlot`, `oldSize`, `pending` | `old_slots`, `old_slot_size`, what the loop of `rehash_impl()` has still to move |
| `FindNext` ... `EraseFound` | an iteration of `find_impl()` and what its caller does with the result |
| `Grow`, `CreateSlots`, `TransferNext`, `PlaceMoved`, `RehashDone` | `grow_if_necessary()`, `rehash_impl()` |
| `PlaceNext`, `PlaceNew`, `Construct`, `ConstructThrows` | `find_empty_to_insert()`, `emplace_impl()` |
| `Reserve`, `Rehash`, `ShrinkToFit`, `MaxLoadFactor`, `Clear` | the calls of those names |

The hash is a constant function, any function. Three abstractions matter: a match of several control bytes in
one group is tried in any order (the source goes by position, and at most one of them can have the key);
comparing with a slot that holds nothing may give any answer (`Read`), because the source reads memory in which
nothing was constructed; and `size_t` wraps at `WordMax`, a number TLC can hold. `emplace`, `try_emplace`,
`insert` and `operator[]` are the call `insert`, which keeps the value of a key that is there;
`insert_or_assign` replaces it.

`MCGroup15Table` - instances for TLC: groups of four bytes and hash codes of eleven bits, chosen so that keys
share their home group, their control byte (one of them through the reduction of 0 to 8), and their overflow bit.

`Group15Pair` - two tables: it extends `Group15Table`, whose variables are those of the table that is called,
with `other`, the fields of the second. `Swap` is `swap_content()` and also lets either be called. A copy assignment is
the copy constructor into a temporary table and the swap with it: `CopyAtOnce` of a table of size 0, or by
`fast_copy_slots_from()` (`FastCopy`); otherwise `CopyBegin`, `CopyNext` and `CopyDone`, the loop of `unique_insert()`, one
step per element. There `copy` is the temporary table and `left` what the loop has still to come to; no call runs meanwhile. `UniqueInsert`
is a `find_empty_to_insert()` in one piece, and `CopyNext` has no step where that finds no slot. `ClearAndDestroy` is `clear(true)`. Moving a table does not compile at
this commit (`get_ctrl_allocator_ref()` at line 369 is declared nowhere), and the fast copy compiles only
for elements that are not trivially copyable (the cast at line 1725), so `FastCopy` is the loop of line 1730.
`MCGroup15Pair` - its instances.

`Group15Iterator` - an iterator in a table, of which only the used bytes matter: `group` and `pos` are the place
of `ctrl_`, `slot` is the index of `slot_`, which move on their own. The loops of `increment()` and `decrement()`
are the modes `forward`, `next_groups`, `backward` and `previous_groups`, one step per iteration. `Mark` and
`Unmark` are the table's insertions and erasures between two moves. `stayed` and `seen` are history for
`NothingMissed`. Erasing at an iterator does not compile (line 1011).

`Group16Table` - one `group16_flat_table`, in the steps of `Group15Table`; what differs is in the definitions.
There is no sentinel and every byte has a slot; `ctrl` is the low seven bits of a byte and `overflow[g]` the
positions in group g whose top bit is set, which is where the source keeps the overflow bit of the hashes that leave
this position as remainder. `EraseFound` takes one off the threshold, `PlaceNew` gives it back (`GivenBack`), `ClearData` keeps it;
`rehash()` may shrink, and a table may be constructed with a capacity. An iterator is the index of a slot, so it
has no state of its own: `FirstUsedIndex` and `SkipEmptySlots` are `begin()` and `++`. Elements are constructed without
throwing, and an insertion is marked, constructed and counted in one step. `MCGroup16Table` - its instances.

`RobinHashMap` - one `robin_hash_map` whose elements lie in the table, with stored hashes (`StoreHash`) or without. A
search is `walk`, and an erasure goes on with `shift`, one element per step. An insertion is `walk` (the key is not
there), `room` (does the table have to grow), `place` (the first element that is nearer to its home) and `displace`; an
insertion that gives up is at `retry` until its growth has begun, and starts again at `walk`. The loop of
`rehash_impl()` is `rehash`, and each of its moves is `place` and `displace` as well, since the source has two
overloads of one text.

| model | code |
|---|---|
| `slotMask`, `slotSize`, `slotThreshold`, `maxLookups`, `lastSlot`, `mlf` | `slot_mask_`, `slot_size_`, `slot_threshold_`, `max_lookups_`, `last_slot_`, `n_mlf_` |
| `ctrl[i]` | the control byte or word of slot i; the distance is -1 for empty, -2 for the end |
| `slot[i]` | the slot, an element or `Raw` |
| `probe` | the key, the slot and the distance a loop has come to |
| `hand` | `insert_to_place()`: the slot where it began, whose element it carries, and the control byte carried |
| `old`, `pending`, `resume` | the old arrays, what `rehash_impl()` has still to move, what follows it |
| `EraseFound`, `ShiftNext`, `ShiftDone` | `find_and_erase()`, `erase_slot()` |
| `HaveRoom`, `Grow`, `PlaceNext`, `PlaceInEmpty` | `find_and_insert()` |
| `Displace`, `PassOn`, `PutDown`, `GiveUp`, `Overwrite` | `insert_to_place()` and what its callers make of its result |
| `Retry`, `MoveNext`, `RehashDone` | the loop around `kNeedGrow`, `rehash_impl()` |

In the source the hand is the slot where the displacement began: its byte is already that of the new element, and its
content is exchanged with each slot the hand passes. So is it in the model, and this slot is `Vacant` to the properties
meanwhile. An access beyond the allocated bytes reads an end mark (`CtrlAt`); no run reads there. `strayed` is history: a
growth after a displacement gave up has thrown (the element in the hand is now in the new one's place, with a
byte that is not its own), or a move found no place and overwrote one. Whether that can happen is a matter of the keys: `ChainsFit` says
that the homes from any one to the last have no more keys than there are slots from there to the end of the memory, `ChainsShort` that no run of
homes has more keys than leave the last of them within `max_lookups_` of home. Both count keys and homes and look at no slot.

`Robin16HashMap` - one `robin16_hash_map`. What differs from `RobinHashMap`: the table is circular; a control word of the
first `GroupWidth` slots is written twice (`SetCtrl`); a search compares the first slots one by one and then whole
groups; the hand holds its element itself, as a local variable does in this source. A state `broken` ends a behaviour where the source
goes on with memory that is not what it takes it for: a shift that leaves the table at its end (line 3576), slots
that could not be allocated after the control words were replaced (2367), a growth that throws after an insertion gave up.

`Flat16HashMap` - one `flat16_hash_map`, keys only, since nothing in it depends on the values. A search is
one step per group; a group begins at any slot, and its bytes behind the table are copies of the first ones. `ctrl` has
the marks Empty, Deleted and, behind the table, EndOf. `broken` again ends a behaviour: slots that could not be allocated,
`drop_deleted_no_grow()`, and a `clear()` that leaves bytes of elements it has destroyed.

`MCRobinHashMap`, `MCRobin16HashMap`, `MCFlat16HashMap` - their instances: keys in chains that overlap, at the end of
the table where chains leave the capacity or wrap, and that a larger table parts.

Proofs: `GroupQuadraticProberProofs`, `TraversalProofs` (the prober's way through a table and the iterator's), `Group15TableProofs` (types, reachability, bytes, keys, size,
refinement, that calls end), `Group15PairProofs` (both tables and a copy searchable, what a copy holds, room for it), `Group16TableProofs` (the same as for group15, iteration and the threshold), `RobinHashMapProofs`
(types, order of the chains, keys, refinement, size, iteration, when an insertion gives up, distances), `Robin16HashMapProofs`
(types, words, order of the chains on the circle, iteration, keys, refinement), `Flat16HashMapProofs` (types, bytes, iteration, what erasures may do).

## 3. Runs

| run | what it asks | what it shows |
|---|---|---|
| `probe_walk` | traversals of 1 to 64 groups | each visits every group exactly once |
| `group15_manage` | all sequences of key calls, clear, reserve, rehash, shrink_to_fit and max_load_factor on four keys | bytes, slots, counters and overflow bits agree in every state, in the middle of calls too; the table implements `HashMapSpec`; every call returns |
| `group15_throws` | a constructor that may throw | every element is still reachable |
| `group15_pair` | two tables, calls, swaps, copies of both kinds, destruction | bytes and overflow bits of both fit their elements, copies hold what they were made of; no copy stops for want of a slot (it would be a deadlock) |
| `group15_iterator` | traversals forth and back through every table of 2 and 4 groups, insertions and erasures in between | no element is jumped over, byte and slot of the iterator stay together, every move ends |
| `group16_table` | all sequences of key and management calls on four keys in a group16 table | layout, iteration, and `HashMapSpec`; the threshold rises only as elements get below their own overflow bit |
| `robin_map` | all sequences of key and management calls on five keys, with the group width and the lookups of the code, and a reservation whose allocation fails | distances, order of the chains and unique keys in every state of a displacement, shift or rehash; iteration is complete; `HashMapSpec` |
| `robin_lookups` | stored hashes and a limit of two lookups | insertions give up half way, only where keys crowd a run of homes, grow and begin anew, without losing an element and not for ever |
| `robin_strays` | tables with one slot behind the capacity, and a memory that ends at eight | up to the failure that leaves an element behind, every element can be found |
| `robin16_map` | six keys whose chains wrap, tables of two to sixteen slots, failing allocations | copies, distances and order of the chains, iteration, `HashMapSpec`, every call returns |
| `flat16_map` | five keys whose groups wrap, tables of two to sixteen slots, deleted slots, failing allocations | bytes and copies, iteration; only an erasure puts elements out of reach, and a rehash brings them back; every call returns |
| `flat16_rehash` | the assertion of `find_first_empty_slot()` under `rehash(0)` | it fails: the move of the last element finds no place |

`flat16_rehash` is a finding: PROJECT.json quotes the line of the source and says what the run shows.

### Known deviations

Each of these was read in the source, and most were seen in a counterexample, while the models were made. The models do what the
code does; the properties above are stated so that they say what holds next to it.

group15 and the prober:
- `reserve(0)` drops the elements (the comment on `reserve()` says otherwise); `reserve(53)` leaves a threshold of 51.
- `shrink_to_fit(true)` may leave fewer slots than elements, and an insertion then probes for ever.
- The array copy leaves `slot_size_` at 0.
- After a constructor that throws, the slot stays marked; a rehash then moves and counts it, against the assertion at line 2154.
- Erasures can take the threshold down to zero with elements left.
- `clear()` on a table without memory marks the sentinel of the static groups again, against an assertion.
- `insert(first, last)` inserts the first element over and over (`group15_flat_map.hpp:453`).
- The rollback of a copy that throws destroys the slot whose construction threw (1753).
- The comment on the prober lists other offsets than it computes.

group16:
- The threshold may exceed the capacity, against the assertion at `group16_flat_table.hpp:2190`, so that a full table does not grow and the
  next insertion never ends. An insertion below an overflow bit gives one back (2188) for any slot that was erased, also for one whose element had another overflow bit, so that
  its erasure took nothing; and `clear(false)` keeps a threshold that has risen. Two
  keys that fill the first of two groups, a third of another overflow bit that goes to the second, one of the first erased and a fourth
  key of the third's bit inserted are enough: the threshold of the four slots is five.
- `shrink_to_fit(true)` can leave a threshold below the size. Erasing elements below their overflow bit then takes the threshold to zero with elements
  left, against the assertion at `group16_flat_table.hpp:2602`, and the next such erasure wraps it (2603), after which the table never grows.
  `ThresholdDrift` therefore speaks of steps from a threshold above zero.

`robin_hash_map.h`:
- A rehash does not look at the result of a move. `shrink_to_fit(true)` to a table where a chain finds no place overwrites an element (6168).
- A chain of eleven keys at the end of a table of 32 leaves the table, against the assertions at 5504 and 5514. `ChainsFit` is false there; where it
  is true every element has a place, but a search that misses may still read the byte of the last slot, so that 5514 fails for a chain that just fits.
- An insertion that gave up and whose growth throws leaves an element with a distance that is not its own (5890).
- With stored hashes, a rehash of a table as large as a group, or larger, goes through an overload that gives every element the hash 0 (6147), so that later searches do not find it.
- A failed allocation leaves `max_lookups_` as the larger table would have it (set at 4356, the allocation is at 4366). `clear(false)` then resets that many bytes,
  and `end()` (3406) lies behind the memory, while `++` (2817), which passes over empty bytes only, stops at the end mark of a
  table smaller than a group: behind the last element there is one more stop that is not `end()`. `IterationIsComplete` says this with its condition on `maxLookups`.
- On a map without memory the result of a find that misses differs from `end()`.
- From 2^32 slots on `max_lookups_` is 128 (4355), one more than the distance of a control byte, which is signed, can be.

`robin16_hash_map.h`:
- An erasure whose shift comes to the end of the table goes on behind it (3576; the assertion of `get_slot()` at 2135).
- `clear(false)` does not clear the words behind the table (2191 to 2200).
- In a table smaller than a group, a search for a key whose hash bits are 0 matches the end marks.
- Slots that cannot be allocated after the words were replaced lose all elements (2334 to 2376).
- A growth that throws after an insertion gave up leaves an element behind. The header compiles only with NDEBUG.

`flat16_hash_map.h`:
- `erase_slot()` (2748) decides by the group that begins at the erased slot whether it may be empty again; elements that a search
  reaches in a group that begins earlier are hidden, and their keys are inserted a second time (`benchmark.cpp:851` asserts that erasing all leaves none).
- `clear()` passes a group index for a slot index (1737): bytes stay behind, and `clear(false)` (1731 to 1746) takes the end mark from every table smaller than a group (the assertion of `begin()` at 1181).
- `drop_deleted_no_grow()` passes over the slots it has marked (2131, against the comment at 2109). It is reached through
  `max_load_factor()`, which does not adjust `left_empties_`, in tables of more than 32 slots.
- `rehash(0)` may make a full table and not return (the finding); so may `shrink_to_fit(true)`.
- Slots that cannot be allocated lose all elements.

### Bounds

A group has four bytes instead of sixteen, so the smallest table has two groups and five slots, and
`MinCapacity` and `SmallCapacity` keep their ratio to it. Four keys overflow the first group and, with `reserve(9)`, growth and
shrinking, move between tables of two and four groups; `MaxGroups` is the number of groups beyond which the allocation throws. The load factor
160/256 stands for 224/256: the largest at which a table that shrinks to fit still has a slot for each element,
as 224/256 is with sixteen bytes (`LoadFactorAssumption`). `group15_throws` bounds the slots that are marked and empty (`MaxGhosts`), because with more of them
a small table fills up with no element in it and an insertion never ends, and does not follow a counter below
zero (`NotWrapped`) or a loop beyond the last group (`NotLooping`). `group15_pair` starts with a second table without memory or with the capacity constructor's two or four groups and
does not follow a table of size 0 with elements (`RightSize`; the array copy makes one, see the known
deviations), nor two tables that both hold elements and different ones (`CloseCopies`): tables do not
share state, so a copy's later calls are those of `group15_manage`. Four keys in one group make a copy of a table grown to four
groups fit two again, so both ways of copying happen.
`group15_iterator` has groups of two slots: each group can be empty, and an element first or last in it. In
`group15_manage`, `group16_table`, `robin_map`, `robin_lookups` and `robin16_map` not every key changes its
value (`OneKeyChanges`): one is enough to tell an insertion that keeps from one that replaces.

`group16_table` has groups of two slots, so that a table of four slots fills up with its four keys,
which share a home group and use both overflow bits; larger tables are reached through the capacity constructor, growth, `reserve(5)`,
shrinking and a failing allocation. A loop is followed to the end of one traversal (`NotLooping`) and a
threshold to the capacity (`NotDrifting`): beyond that lies a full table that does not grow, see the known deviations. `CallsGetShorter` has the same bound as its hypothesis.

`robin_map` has the code's group width of 32, its four lookups at least and its factor of two. Tables have up to sixteen
slots (`reserve(9)` asks for 32 and fails) and five keys, two chains of which overlap at the last position and the one before, with a fifth key that joins
them in a table of four, so that displacements, shifts and iteration go behind the capacity. `robin_lookups` has a limit of two
lookups (the code's least is four) so that three keys suffice to give up; a table of sixteen parts the keys of a chain, and one of 32 is the last
that can be allocated. `robin_strays` has one slot behind the capacity and one value, since it asks nothing about values; it is the
only run where a move overwrites and where an insertion finds no slot left.

`robin16_map` has groups of four words and a distance limit of two (128 in the code), so that tables are
smaller than a group (two slots), as large, and larger, a search reaches its second part, and insertions give up for either reason. `flat16_map`
likewise; `ReorderAbove` is 4 for 32, `WordSize` 64 for 2^64. An element that an erasure has hidden is inserted a second time, so the number of
elements is bounded (`FewElements`), and nothing is erased in tables of more than eight slots. `flat16_rehash` has one load factor and `rehash(0)` only.
The arguments of `clear` are left at TRUE in both, since `clear(false)` leads to what the known deviations say.

`probe_walk`, `robin16_map`, `flat16_map` and `flat16_rehash` do not check for deadlock: a traversal ends, and so does a `broken` behaviour.

### Fairness

`EveryCallReturns` assumes weak fairness of the steps of the call that is running and nothing of the calls
that begin. A call runs in one thread that waits for nothing, so it takes its next step. In `Robin16HashMap` and
`Flat16HashMap` a call returns or is broken. `MovesEnd` assumes the same of the iterator.

## 4. Proofs

`ProbeCovers`: for every power of two of groups and every home group, the first `mask + 1` probes reach every
group. Two probes m < n in one group would make `2 * (mask + 1)` divide `(n - m) * (n + m + 1)`. One factor is
odd, and an odd factor can be dropped (`OddFactor`, by descent over the halves of the power of two), so
`2 * (mask + 1)` would divide the other, which is smaller. An injection of a finite set into itself is onto.

`WalkTraversesAll` and `WalkPosition`: the same of the state machine. The invariant `SeenIsProbed` says that the
groups seen are the probes made so far; without it `TraversesAll` says nothing about a traversal under way.

`TraversalComplete` and `Neighbours`: the iterator. Neither property is inductive, since a move is many steps and the table changes between
moves. `IterInv` adds `Together`, that byte and slot are of the same cell in every step of a move; `ScanInv`, that no element lies between the one a
move left and the place it has come to, and that a move backward has one to go to; `SeenInv`, that what has been there all the time was seen up to
where the iterator last stood. Cells are in one order (`Order`), byte and slot move by different distances (`SlotIs`), and the bit scan of
a group finds its first or last element, or the sentinel only when there is none (`FirstIsNext`, `LastIsBefore`). TLC has checked `IterInv` on the instance of `group15_iterator`.

`MovesGetShorter`: the safety half of `MovesEnd`. The scans of a move have no bound of their own; `ToGo` is a number that every step lessens, the
positions left in the group at hand and the groups left beyond it. That each step is taken is fairness, and stays with TLC.

`TypeCorrect`: the types of `Group15Table`. The inductive invariant is `TypeInv`, which adds `CallOK`: what the
place a call has reached says of its arguments, without which the key a step probes for could be none. The
work is in the operators: between a number and its double lies a power of two (`Pow2Between`, by descent), a
power of two divides every larger one (`Pow2Divides`), so a capacity is a whole number of groups and the number
of groups a power of two (`NewMaskRange`); the scaled hash is a group (`IndexRange`); the reduced hash is never a
mark (`CtrlOfRange`).

`Reachability`: every element can be reached by a search for its key, for every constant, `MayThrow` included.
`EveryElementReachable` is not inductive. `ReachInv` adds `ProbeInv` - a prober at work is at a group of its
key's sequence and all groups before it carry the key's overflow bit - and `MemoryInv`, that no call gets from
the static groups to the search for an empty slot, where that would be false. The insertion loop has no bound,
so the prober may be anywhere on an unlimited sequence; `ReachWithin` uses `ProbeCovers` to find its group's
first visit within the limit of a search. TLC has checked both inductive invariants on the instances of
`group15_manage` and `group15_throws`.

The remaining theorems about `Group15Table` assume `MayThrow = FALSE`. They are false without it: a constructor
that throws leaves a byte that stands for no element.

`Mirror`: the control bytes are those of the elements. `MirrorInv` adds that what a rehash has still to move are
elements, and that the slot marked by `find_empty_to_insert()` holds none until its element is constructed.

`NoDuplicates`: no key is stored twice. That follows from an insertion being made only for a key that is absent,
which is what `KeysInv` carries through the call: the groups a search has left do not hold its key (`SearchInv`);
once the search has ended, no group does (`NotFoundIsAbsent`, from `Reachability`: a group beyond the end of the
search is behind a group without the key's overflow bit); this stays so while the table grows and a slot is
looked for (`NewKeyInv`), because a rehash only moves elements it has not moved yet (`OldInv`).

`SizeIsRight`: `slot_size_` is the number of elements, by `SizeInv`, which adds only that the elements are finitely many.

`Refinement`: the table implements `HashMapSpec`. With `Elements` keyed once, choosing the value of a key is
no choice (`Lookup`), so adding, removing or replacing an element changes the mapping at its key only. One step
of each call has its whole effect (`EraseFound`, `AssignExisting`, `Construct`, `RehashDone`, ...) and all others are stutters (`StepMaps`).
`ResultInv` says that a call has no result before it returns, and `CapacityAtLeast` that growing always gets a
larger table, so that an insertion never returns without its element.

`InsertionsEnd` and `CallsGetShorter`: what can be proved of `EveryCallReturns`. The loop of `find_empty_to_insert()` goes on until it finds an empty slot and
never asks whether there is one. `RoomInv` says that there is: a table that an insertion goes on in is below its threshold or has just grown, a
table made by a rehash has a slot for each element of the old one (`RoomFor`, from `SlotsSuffice`), and none of the groups that the prober has passed has
an empty slot (`FullBehind`), because nothing frees one between two of its moves. The last part is what makes it inductive: that a slot is left says nothing of whether the
prober has been there already. So the group of an empty slot is still to come, within one traversal (`PlacesLeft`, from `ProbeCovers`). `Shorter` says that each step of a call leads
on to a later `Stage` of it or leaves less to do in its loop (`LoopLeft`), both natural numbers (`LeftRange`). That each step is taken is fairness. Both theorems assume what
the known deviations break: no `shrink_to_fit(true)`, and `ThresholdFits`, that an erasure has not taken the threshold below zero. TLC has checked `RoomInv`, `ThresholdFits`
and `Shorter` on the instance of `group15_manage`.

The theorems about `Group15Pair`, whose `PairAssumption` includes that nothing throws:

`Group15PairProofs!Searchable`, `CopiesAreEqual`, `CopyRoom`: two tables and the copy between them. `PairInv` is the inductive invariant: the table that is called
satisfies the invariants above (`TableInv`), and the fields of the other and of the copy `Fit`, which says the same of a record between two
calls. `CopyInv` says of a copy being made that it has the elements the loop has passed, each once, and the capacity it was made with. The
size is left out of both, since the array copy leaves 0 beside elements; `CopiesAreEqual` and `CopyRoom` are therefore about tables whose size is right, as
`CopyHasTheElements` is. An insertion only sets overflow bits, and those of the groups it has passed (`InsertFits`), so that whatever was reachable stays so. With fewer elements than slots
the probe sequence comes to an empty slot (`FreeIsFound`, from `ProbeCovers` and a count of the cells), and the table made for a copy has a slot for
each element (`RoomForCopy`), so that `CopyNext` always finds one, and the insertion loop, which has no bound, ends. Dividing by the load factor asks for more than
`n * 256 / m` bytes; a group loses one of its bytes to the overflow bits and the last one another to the sentinel, and
`LoadFactorAssumption` is what a table of two groups needs (`SlotsSuffice` scales it to any number of groups). TLC has checked
`PairInv` on the instance of `group15_pair`.

The assumptions on the constants are those `Group15Table` states: a hash into a range, groups of a power of two
of bytes, load factors in the range `max_load_factor()` admits. `LoadFactorAssumption` is evaluated by TLC for
the instances. TLC has checked the conjunction of all inductive invariants (`MapInv`) on the instance of `group15_manage`.

The theorems about `RobinHashMap`, with the assumptions it states of its constants:

`RobinHashMapProofs!TypeCorrect`. `TypeInv` is in two parts. `FormInv` is the table: `TableOK`, its types; `SpanInv`, the memory is
an interval that reaches to `lastSlot`; `CapacityInv`, a failed allocation leaves `max_lookups_` larger than the table needs and never
smaller; `BytesInv`, a byte without a distance is Empty or an end mark, and end marks are behind the last slot, which is what
ends a walk there; `OccupiedInv`, a used byte has an element in its slot, which a displacement needs when it
takes the element up. `StepInv` is the call: `ControlOK`; `HandInv`, the hand holds an element, or has taken an end mark and is about to
give up; `CallInv`, the key a step walks for is that of the call or of the element being moved; `RehashInv`, there is an old table only during a rehash. It holds in every
behaviour, of failing allocations and of elements that stray too.

`Searchable`: bytes, order of the chains and unique keys, while nothing has strayed. `SearchableInv` is `TableInv` - the bytes are those of the
elements and every element is reachable - and `CourseInv`, what the place of a call says: `WalkInv`, the elements a walk has passed are as
far from home as it was; `SearchInv`, none of them has its key; `AbsentInv`, the key of an insertion is in neither table; `VacantInv`, the
byte of a new element fits the slot where it will be constructed; `HashesInv`, the bytes of elements still to be moved have their hashes. Three arguments carry it. A displacement only raises bytes (`BytesRaised`), so whatever
was reachable stays so. A shift lowers a byte and moves its element one slot nearer home, so that each keeps the distance the other has. And a walk's end implies
absence (`WalkedIsAbsent`): an element further on would have to be reachable past a byte that is smaller than its distance. It assumes `HashesKept`: with stored hashes,
`MaxCapacity < GroupWidth`, since a rehash of a larger table does give elements the hash 0 (known deviations).

`MapRefinement`: the map implements `HashMapSpec`, if no element strays (`NeverStrays`). The assumption is needed: an
element that strays is lost. `NeverStrays` has a second part, `Covered`, that a rehash goes through all slots that hold elements. `NothingStrays`, below, says when it holds.
Contents are the elements of both arrays, the one in the hand and that of a shift included, and one step of each call has its
whole effect; the others are stutters (`StepMaps`). The invariant adds to `SearchableInv`: `MemoryInv`, no memory, no elements; `ResultInv`, a call
has a result only when it has taken effect; `MovedInv`, what is pending is what the old array has; `CarryInv`, after an
insertion has given up each element still has a used byte, if not its own, so that the growth moves all of them. TLC has checked these invariants on
the robin instances.

`RobinHashMapProofs!SizeIsRight` and `Iteration`. `SizeInv` counts the elements: the one in the hand is counted before its slot is, the
one of an erasure until the shift is done. `EndInv` is what `end()` needs: the last slot is where the lookups of the
capacity end, or of a larger one after a failed allocation. The next stop of `++` is the least position behind it with an
element (`LeastIs`), and the search by groups that the code makes for it stays in the memory it may read (`GroupsSuffice`).
`Iteration` assumes `InMemory` of the state: every element is at a slot before the last one. That is weaker than the assertions at 5504 and 5514 and
follows from no bound on the number of keys: eleven keys of one chain at the end of a table of 32 break it in the code. It follows from `ChainsFit`
(`IterationWhereChainsFit`).
The first proof of `Iteration` failed at a failing allocation; TLC then showed the state, and the condition on `maxLookups` and the failing `reserve(9)` of `robin_map` were added.

`GivesUp`, `NothingStrays`, `MapWhereChainsFit` and `Distances`: what a `robin_hash_map` asks of its keys. The source has walks without an end, a rehash
that cannot report that there is no place left, and insertions that give up, and trusts the hash for all three. `GivesUpOnlyWhenCrowded` says in terms
of keys and homes alone when it may: with no order of insertions and erasures do walks leave the memory while chains fit, and an insertion gives up only with stored
hashes and where chains are not short. The argument is one of counting. An element d slots behind its home has, all the way, elements no nearer to theirs (`Along`, from
`SearchableInv`); going back from it to the last slot with an element at home, there is a run of slots in use from some home a on
whose elements have their homes in the run (`RunOfKeys`). They have different keys, so there are as many keys with these homes as slots in the run (`Occupants`),
and one more when the hand or the call brings one (`PlacedIsNew`, `KeyAt`); if that is more than `ChainsFit` admits the run would have been too long (`ChainReach`).
`PlaceReach`, `HandReach`, `DisplaceReach` and `WalkReach` are its uses, one per loop of the source. `BoundsInv` adds to `SearchableInv` how far the hand has come and
where it may end, and `RetryInv` that an insertion at `retry` gave up for the reason the property names: there the element put down has
a foreign byte, so that the other invariants do not hold until the growth has begun.

`NothingStrays` has the hypothesis `[]Chains`: in each state chains fit, and in the largest table that can be allocated they are short when hashes are
stored, since a growth that fails after an insertion gave up leaves an element behind. It carries `InMemory` through every step (`NextInMemory`): a shift or a
displacement moves elements only to slots that had one or that `PlaceReach` bounds, and a rehash into new memory is a sequence of these. With `InMemory`
every slot with an element is one that the next rehash goes through (`MemoryIsCovered`). So `Overwrite` never happens (`NoneOverwritten`), and `MapWhereChainsFit` is `MapRefinement`
without an assumption about what the operations do. The hypothesis holds of the behaviours of `robin_map` and `robin_lookups`, and of those of
`robin_strays` until its tables with one slot behind the capacity are too small.

`Distances`: with short chains no distance exceeds `kMaxDist`, which `setValue()` asserts (941) and nothing else compares with: not in a
byte, not in the hand, and not where a walk counts. The proof bounds all of them by the `max_lookups_` of the largest table. That is 124 for
2^31 slots, so its second hypothesis, `Lookups(MaxCapacity) <= MaxDist`, holds up to there (it is 128 from 2^32 on, see the known deviations). `MaxCapacity` itself is any
natural number. TLC has checked `DistancesFit` and `GivesUpOnlyWhenCrowded` on all three robin instances.

The theorems about `Group16Table` have the plan of those about `Group15Table`, without a condition, since no constructor throws in this model:

`Group16TableProofs!TypeCorrect`, `Mirror`, `Reachability`, `NoDuplicates`, `SizeIsRight`, `Refinement`. `Layout` has the types and the bytes in
one, since here an overflow bit is part of the byte of a slot that may be empty or in use: what erasing, emptying and placing do to a byte must keep both (`MarksKept`).
`NoDrift` is an action property: the threshold less the number of elements below their own overflow bit does not rise. Each step of `TableStep` either
leaves both alone or moves them by the same amount; a new overflow bit only adds to the second. `Iteration`: the next used byte in the
order of the slots, found by whole groups (`SkipEmptySlots`), is the least used index above (`IndexesOf`).

`Group16TableProofs!InsertionsEnd` and `CallsGetShorter` are those of group15, with `PlaceFits` apart from `RoomInv`: a new table has room for what is in it whatever was asked for, since
`calc_capacity()` takes the size into account, so that moves end without a condition, `shrink_to_fit(true)` included. An insertion ends where the table is not full, and that it is not
follows from the threshold (`ThresholdFits`), which this table does not always keep within its capacity (known deviations). TLC has checked `RoomInv`,
`InsertionsEnd` and, where `PlaceFits`, `Shorter` on the instance of `group16_table`, with thresholds up to two beyond the capacity.

The theorems about `Flat16HashMap`:

`Flat16HashMapProofs!TypeCorrect`, `Mirror`, `Iteration`. `Layout` is `TypeInv` with `BytesOK`. What the property says of the copies is not inductive: that a copy is
either the byte it copies or a mark (`Copies`) does not tell what `setUsedMirrorCtrl()` writes for a table smaller than a group. `ExactCopies` says that there the copies are exact,
`Tail` that what lies behind them is never an element's byte, and `EndByte` that a larger table has something
behind its last slot where `++` stops. `TypeInv` has the size, the number of elements, since the slots left in a rehash are reckoned from it.

`ErasureAlone`: no call but an erasure puts an element out of a search's reach, and the end of a rehash brings all within reach. `WalkInv` says
that the groups a walk has passed are full, so that the slot it takes is reachable; `ReachInv`, that during a rehash all that has been moved is. A
group that is full stays so as long as nothing is erased. Any key that a walk does not find is inserted, one that is out of reach too, so that there is no
theorem of unique keys or of a refinement here: the code has neither (known deviations).

The theorems about `Robin16HashMap`, the circular table:

`Robin16HashMapProofs!TypeCorrect`, `Searchable`, `Iteration`. The inductive invariant is `Layout`, in two parts. `Stored` is the table: `TableOK`, its types; `HandOK`, what a
displacement holds; `SizeOK`, the elements are counted, the one in the hand too, and there is room for what a rehash has still to move; `ShapeOK`, the
words behind the table are those of the first slots, or marks; `OwnWords`, a word is that of the element in its slot; `ReachInv`, every element
is along the chain of its home (`Along`); `HandInv`, so are the two elements of a displacement, and what it has passed is not empty. `Course` is the call:
`ControlOK`, `ProbeOK`, `RehashOK` and `WalkInv`, the words a walk has passed are as far from home as it was.
Nothing is reckoned with remainders: `Gap` is how far a slot is from the home of a key, `Spot` the slot at a distance, and `OnCircle`
says that they undo each other; `WalkIsAt` finds the slot that a word read behind the last one stands for. Four arguments carry the invariant. A displacement only raises
words (`WordsRaised`), so what was along its chain stays so. A shift lowers a word and moves its element one slot nearer home (`ShiftNextLayout`), and ends where
nothing beyond has to pass. Some slot is always empty while an element is in the hand (`SomeEmpty`, from the counting of `SizeOK`), so that no chain goes round the
table (`NotAround`) and a displacement never comes back to the slot where it began. The distance of a target is at most the mask (`TargetIs`), so that only
`DistLimit` makes an insertion give up.

`NoDuplicates` and `Refinement`. `MapInv` adds to `Layout`: `UniqueKeys`, over the slots, the old slots and the hand; `SearchInv`, what a search has passed has not its
key, and the key of an insertion is nowhere; `ResultInv`. Where a chain ends its key is not stored (`EndIsAbsent`, from `ReachInv`). The mapping changes by
four edits of the table (`TakenUp`, `PutIn`, `Exchanged`, `MovedOver`), of which only those that serve a call's own element change the
contents; one step of each call has its whole effect, the others are stutters (`StepMaps`). A `broken` behaviour ends without having changed the mapping.
The refinement needs no assumption that nothing strays, other than in `RobinHashMap`: a chain wraps instead of leaving the memory,
and where the source loses elements the behaviour is `broken`.

The hypotheses are where the code departs from this (known deviations). `Clears`: calls of `clear()` destroy, since `clear(false)` leaves the words behind a table of a group or more; and the
default capacity, up to which a call that destroys clears in place too, is smaller than a group. `MarksDiffer`: no key's hash bits are 0, since such a key matches the end marks of a small
table. `TypeCorrect` speaks of states where `DistancesFit`: a distance is a number in the model and has eight bits in the source. TLC has checked
`Layout` and `MapInv` on the instance of `robin16_map`.

Only model-checked: liveness (`EveryCallReturns`, `MovesEnd`), which is beyond the prover; of `MovesEnd`, `MovesGetShorter` is what can be
proved, and of `EveryCallReturns` `CallsGetShorter`, for the group tables. Every invariant and action property
of the runs is stated by a theorem, with the hypotheses named above.

## 5. Plan

1. (done) `GroupQuadraticProber`, `GroupProbeWalk` and their proofs.
2. (done) `HashMapSpec`, `Group15Table`, and its proofs: types, reachability, bytes, unique keys, the size, the refinement.
3. (done) `Group15Pair`, `Group15Iterator` and their proofs. Left: the rollback of a copy whose elements throw.
4. (done) `Group16Table` and its proofs. Left: throwing constructors and swap.
5. (done) `RobinHashMap` and its proofs: types, searchability, refinement, size, iteration, when insertions give up. Left: elements stored apart from the
   table, copies and swap.
6. (done) `Flat16HashMap` and its proofs; `Robin16HashMap` and its proofs: types, searchability, iteration, unique keys, refinement.

### Not modelled

- `unordered_map.h` has syntax errors (lines 240 to 245) and is included by no source file; `hash_chunk_list.h` is used by it only.
  `group30_flat_table.hpp` uses the group type of group15 (141), which lacks two operations it calls. None of them compiles, so that there is no program to model.
- Members that do not compile when they are instantiated: moving a group15 table (369), erasing by iterator there (1011); `erase(iterator)`, `erase(first, last)`
  (`robin_hash_map.h:3730`, `3763`) and `std::erase_if` of the robin maps; `swap`, `at()` and `erase(iterator)` of `flat16_hash_map.h`.
- Branches that the headers switch off (`GROUP15_USE_SEPARATE_SLOTS`, `GROUP15_USE_NEW_OVERFLOW`, `ROBIN_USE_HASH_POLICY`, ...).
- Benchmarks and tests, strings, traits, platform shims, clocks and random generators, which keep no state of the maps; hash
  functions, of which the maps only need that they are functions.

The modelled definitions stand for about six thousand of the repository's 67 thousand lines. The maps that compile are some twenty-two thousand lines, of
which most are overloads of one operation for each kind of key and value, constructors that forward, comments and branches that are switched off; everything else is in the list above.
