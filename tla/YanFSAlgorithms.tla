-------------------------- MODULE YanFSAlgorithms --------------------------
(***************************************************************************)
(* The loops behind the operators of YanFS.  YanFS says what sorting the    *)
(* index, looking up a name, allocating an extent and validating a          *)
(* directory return; here the code's own algorithms (os/sort.h and          *)
(* os/yanfs.c) are evaluated on every small directory and compared with it. *)
(* A behaviour picks one directory and does nothing else.                   *)
(***************************************************************************)
EXTENDS YanFS

CONSTANTS
    Directories,   \* the directories that are tried
    Word           \* 2^32 in the code: unsigned arithmetic wraps here

ASSUME WordAssumption == Word \in Nat /\ Word > Capacity
ASSUME DirectoriesAssumption == Directories \subseteq Directory

(* Slots are sorted by a key: the name, or the first block of the extent.  *)
NameKey(dir) == [s \in Slots |-> dir[s].name]
StartKey(dir) == [s \in Slots |-> dir[s].start]

(* A loop: its body, what it starts from, and as many turns as it may take. *)
(* A body that is done leaves its state alone.                              *)
Turns(body, start, n) ==
    LET turn[k \in 0 .. n] == IF k = 0 THEN start ELSE body[turn[k - 1]]
    IN  turn[n]

-----------------------------------------------------------------------------
(* Heapsort of os/sort.h; order[i] of the code is q[i + 1].                 *)

Swap(q, i, j) == [q EXCEPT ![i + 1] = q[j + 1], ![j + 1] = q[i + 1]]
before(key, q, i, j) == key[q[i + 1]] < key[q[j + 1]]

sift_turn(key, count, s) ==
    LET left == 2 * s.root + 1
        child == IF left + 1 < count /\ before(key, s.q, left, left + 1)
                 THEN left + 1 ELSE left
    IN  IF left >= count \/ ~before(key, s.q, s.root, child) THEN s
        ELSE [q |-> Swap(s.q, s.root, child), root |-> child]
sift_down(key, q, root, count) ==
    LET body == [s \in [q : Seq(Slots), root : Nat] |-> sift_turn(key, count, s)]
    IN  Turns(body, [q |-> q, root |-> root], count).q

heapify_turn(key, s) ==
    [q |-> sift_down(key, s.q, s.first - 1, Len(s.q)), first |-> s.first - 1]
heapify(key, q) ==
    LET body == [s \in [q : Seq(Slots), first : Nat] |-> heapify_turn(key, s)]
        half == Len(q) \div 2
    IN  Turns(body, [q |-> q, first |-> half], half).q

extract_turn(key, s) ==
    [q |-> sift_down(key, Swap(s.q, 0, s.end - 1), 0, s.end - 1), end |-> s.end - 1]
extract(key, q) ==
    LET body == [s \in [q : Seq(Slots), end : Nat] |-> extract_turn(key, s)]
    IN  Turns(body, [q |-> q, end |-> Len(q)], Len(q) - 1).q

SortWithoutHeap(key, q) ==         \* mutant: nothing was heapified
    IF Len(q) < 2 THEN q ELSE extract(key, q)

sort_index(key, q) == IF Len(q) < 2 THEN q ELSE extract(key, heapify(key, q))

(* The slots of a set, as the filling loops find them.                      *)
fill_turn(S, s) ==
    [slot |-> s.slot + 1,
     list |-> IF s.slot \in S THEN Append(s.list, s.slot) ELSE s.list]
Listed(S) ==
    LET body == [s \in [slot : Nat, list : Seq(Slots)] |-> fill_turn(S, s)]
    IN  Turns(body, [slot |-> 0, list |-> << >>], K * D - 1).list

SortedNames(dir) == sort_index(NameKey(dir), Listed(LiveSlots(dir)))
SortedExtents(dir) == sort_index(StartKey(dir), Listed(ExtentSlots(dir)))

-----------------------------------------------------------------------------
(* The binary search of find_entry: the first index whose name is not below. *)
search_turn(n, s) ==
    LET middle == s.low + (s.high - s.low) \div 2
    IN  IF s.low >= s.high THEN s
        ELSE IF cache.dir[order[middle + 1]].name < n
             THEN [low |-> middle + 1, high |-> s.high]
             ELSE [low |-> s.low, high |-> middle]
LowerBound(n) ==
    LET body == [s \in [low : Nat, high : Nat] |-> search_turn(n, s)]
    IN  Turns(body, [low |-> 0, high |-> Len(order)], Len(order)).low

find_entry_loop(n) ==
    LET low == LowerBound(n)
    IN  IF low < Len(order) /\ cache.dir[order[low + 1]].name = n
        THEN {order[low + 1]} ELSE {}

(* The walk of allocate_extent over the extents sorted by start, up to the   *)
(* first gap that is wide enough.                                           *)
walk_turn(q, needed, s) ==
    IF s.i > Len(q) \/ (cache.dir[q[s.i]].start - s.at) % Word >= needed THEN s
    ELSE [i |-> s.i + 1,
          at |-> (cache.dir[q[s.i]].start + cache.dir[q[s.i]].count) % Word]
Candidate(q, needed) ==
    LET body == [s \in [i : Nat, at : Nat] |-> walk_turn(q, needed, s)]
    IN  Turns(body, [i |-> 1, at |-> D], Len(q)).at

AllocateStrict(needed) ==          \* mutant: never fills the tail exactly
    LET candidate == Candidate(SortedExtents(cache.dir), needed)
    IN  IF needed < (capacity_blocks - candidate) % Word THEN {candidate} ELSE {}

allocate_extent_loop(needed) ==
    LET candidate == Candidate(SortedExtents(cache.dir), needed)
    IN  IF needed <= (capacity_blocks - candidate) % Word THEN {candidate} ELSE {}

(* The two passes of validate_directory that compare sorted neighbours.     *)
StartsValid(dir) ==                \* mutant: only the first blocks differ
    LET x == SortedExtents(dir)
        n == SortedNames(dir)
    IN  /\ \A i \in 2 .. Len(x) : dir[x[i]].start > dir[x[i - 1]].start
        /\ \A i \in 2 .. Len(n) : dir[n[i - 1]].name # dir[n[i]].name

NeighboursValid(dir) ==
    LET x == SortedExtents(dir)
        n == SortedNames(dir)
    IN  /\ \A i \in 2 .. Len(x) :
              dir[x[i]].start >= (dir[x[i - 1]].start + dir[x[i - 1]].count) % Word
        /\ \A i \in 2 .. Len(n) : dir[n[i - 1]].name # dir[n[i]].name

validate_directory_loop(d) ==
    /\ d.crc = d.dir
    /\ \A s \in Slots : EntryValid(d.dir[s])
    /\ NeighboursValid(d.dir)

-----------------------------------------------------------------------------
(* The mounted instance with one of the directories in its cache and the    *)
(* index that the sort leaves.                                              *)
AlgorithmInit ==
    /\ \E dir \in Directories :
          /\ disk = [dir |-> dir, crc |-> dir]
          /\ cache = [dir |-> dir, crc |-> dir]
          /\ order = SortedNames(dir)
    /\ data = [b \in DataBlocks |-> Unwritten]
    /\ header = "accepted" /\ st = "MOUNTED" /\ busy = FALSE
    /\ capacity_blocks = Capacity
    /\ source = FirstSource
    /\ op = [t \in Tasks |-> Idle]
    /\ held = NothingHeld

AlgorithmSpec == AlgorithmInit /\ [][UNCHANGED vars]_vars

(* Heapsort leaves the live slots in name order, each exactly once, for     *)
(* every directory, sound or not; and where the names are unique the binary *)
(* search over that order finds exactly the slot that carries a name, and   *)
(* none when no slot does (rebuild_name_order, find_entry).                 *)
NameIndexFinds ==
    /\ IsNameOrder(order, cache.dir)
    /\ NamesUnique(cache.dir) =>
            \A n \in Names :
                /\ find_entry_loop(n) = {s \in LiveSlots(cache.dir) : cache.dir[s].name = n}
                /\ find_entry_loop(n) = find_entry(n)

(* On a sound directory the walk over sorted extents returns the lowest run *)
(* of free blocks, and fails only when there is none: no gap is overlooked, *)
(* and the unsigned subtractions never wrap.                                *)
WalkIsFirstFit ==
    DirectorySound(cache.dir) =>
        \A needed \in 1 .. Capacity :
            allocate_extent_loop(needed) = allocate_extent(needed)

(* Comparing sorted neighbours accepts exactly the directories in which all *)
(* pairs of extents are disjoint and all pairs of names differ.             *)
NeighboursSuffice == validate_directory_loop(cache) <=> validate_directory(cache)
=============================================================================
