------------------------------- MODULE YanFS -------------------------------
(***************************************************************************)
(* The YanFS file system (os/yanfs.c): one flat directory of D blocks,     *)
(* contiguous extents, copy-on-write replacement, one CRC over the whole   *)
(* directory stored in block 0.                                            *)
(*                                                                         *)
(* A call runs until its first device callback, and then from callback to  *)
(* callback: inside a callback the calling task may be suspended and       *)
(* another task may enter the file system, so every callback is a step of  *)
(* its own.  A call that is refused before its first callback changes      *)
(* nothing and is a stuttering step: the guards below are the conditions   *)
(* under which the code goes on.                                           *)
(*                                                                         *)
(* Abstractions of data: a name is a positive number (0 is the zero byte   *)
(* of an unused slot), a block of file data is the pair <<caller's buffer, *)
(* index in it>>, and the CRC field holds the directory it was computed    *)
(* over, so that it matches exactly the directory it covers (CRC-32        *)
(* collisions are not modelled).                                           *)
(***************************************************************************)
EXTENDS Integers, Sequences, FiniteSets

CONSTANTS
    Tasks,       \* tasks that call the file system
    Observers,   \* those of them that also keep a source identity
    D,           \* directory blocks, YanFs.directory_blocks
    K,           \* directory entries per block (64 in the code)
    Capacity,    \* blocks of the device
    BlockSize,   \* bytes per block (4096 in the code)
    Names,       \* file names, positive numbers in the order of the bytes
    Sizes,       \* file lengths in bytes that callers write
    Payloads,    \* the callers' buffers
    NoPayload,   \* what is on a data block nobody has written completely
    Images,      \* directory contents a host may hand over, CRC included
    MaxSerial    \* the last source identity, UINT64_MAX in the code

ASSUME GeometryAssumption ==
    /\ D \in Nat \ {0} /\ K \in Nat \ {0, 1} /\ BlockSize \in Nat \ {0}
    /\ Capacity \in Nat /\ Capacity >= D
ASSUME InputAssumption ==
    /\ Names \subseteq Nat \ {0} /\ Sizes \subseteq Nat
    /\ NoPayload \notin Payloads /\ Observers \subseteq Tasks
    /\ MaxSerial \in Nat \ {0}

Slots == 0 .. (K * D - 2)
DataBlocks == D .. (Capacity - 1)

Entry == [name : Int, size : Nat, start : Nat, count : Nat]
NoEntry == [name |-> 0, size |-> 0, start |-> 0, count |-> 0]
Directory == [Slots -> Entry]
EmptyDirectory == [s \in Slots |-> NoEntry]

ASSUME ImageAssumption ==
    Images \subseteq [dir : Directory, crc : Directory]

(* What is left of the entry, or of the CRC field, that an interrupted     *)
(* write was storing: neither the old nor the new bytes.                   *)
TornEntry == [name |-> -1, size |-> 0, start |-> 0, count |-> 0]
TornCrc == [s \in Slots |-> TornEntry]

Content == (Payloads \cup {NoPayload}) \X Nat
Unwritten == <<NoPayload, 0>>

VARIABLES
    disk,      \* the directory on the medium: its entries and its CRC field
    data,      \* the data blocks of the medium
    header,    \* whether capacity and header fields suit this instance
    st,        \* YanFs.state; "UNINIT" before yan_fs_init_directory
    busy,      \* YanFs.busy
    cache,     \* YanFs.directory, the directory in memory
    order,     \* YanFs.name_order, up to name_order_count
    capacity_blocks,
    source,    \* the source identity and its process-wide allocator
    op,        \* for each task, the operation it is inside of
    held       \* the source identity an observer holds, and what it saw

vars == <<disk, data, header, st, busy, cache, order, capacity_blocks, source,
          op, held>>
medium == <<disk, data, header>>

-----------------------------------------------------------------------------
(* Directory entries and extents.                                          *)

entry_block(slot) == (1 + slot) \div K

LiveSlots(dir) == {s \in Slots : dir[s].name # 0}
ExtentSlots(dir) == {s \in LiveSlots(dir) : dir[s].size # 0}
Extent(e) == IF e.size = 0 THEN {} ELSE e.start .. (e.start + e.count - 1)
UsedBlocks(dir) == UNION {Extent(dir[s]) : s \in LiveSlots(dir)}

blocks_needed(length) ==
    (length \div BlockSize) + (IF length % BlockSize # 0 THEN 1 ELSE 0)

EntryValid(e) ==
    \/ e = NoEntry
    \/ /\ e.name \in Names
       /\ \/ e.size = 0 /\ e.start = 0 /\ e.count = 0
          \/ /\ e.size # 0 /\ e.count = blocks_needed(e.size)
             /\ e.start >= D /\ e.start < Capacity
             /\ e.count <= Capacity - e.start

ExtentsDisjoint(dir) ==
    \A s, t \in ExtentSlots(dir) :
        s # t => Extent(dir[s]) \cap Extent(dir[t]) = {}

NamesUnique(dir) ==
    \A s, t \in LiveSlots(dir) : s # t => dir[s].name # dir[t].name

(* A directory whose entries can be trusted.                               *)
DirectorySound(dir) ==
    /\ \A s \in Slots : EntryValid(dir[s])
    /\ ExtentsDisjoint(dir)
    /\ NamesUnique(dir)

DirectoryWithoutCrc(d) == DirectorySound(d.dir)    \* mutant
validate_directory(d) == d.crc = d.dir /\ DirectorySound(d.dir)

(* The files a directory describes, with their contents.                   *)
FileOf(e, dat) ==
    [name |-> e.name, size |-> e.size,
     blocks |-> [i \in 0 .. (e.count - 1) |-> dat[e.start + i]]]
Files(dir, dat) == {FileOf(dir[s], dat) : s \in LiveSlots(dir)}

-----------------------------------------------------------------------------
(* The name index.  rebuild_name_order sorts the live slots by name;       *)
(* find_entry searches the first indexed entry whose name is not below n.  *)

SlotSeqs == UNION {[1 .. n -> Slots] : n \in 0 .. (K * D - 1)}

IsNameOrder(q, dir) ==
    /\ {q[i] : i \in 1 .. Len(q)} = LiveSlots(dir)
    /\ \A i, j \in 1 .. Len(q) :
          i < j => q[i] # q[j] /\ dir[q[i]].name <= dir[q[j]].name

rebuild_name_order(dir) == {q \in SlotSeqs : IsNameOrder(q, dir)}

find_entry(n) ==
    {order[k] : k \in {j \in 1 .. Len(order) :
        /\ cache.dir[order[j]].name = n
        /\ \A i \in 1 .. Len(order) :
              IF i < j THEN cache.dir[order[i]].name < n
                       ELSE cache.dir[order[i]].name >= n}}

find_free_slot ==
    {s \in Slots : /\ cache.dir[s] = NoEntry
                   /\ \A r \in Slots : r < s => cache.dir[r] # NoEntry}

(* First fit: the lowest run of `needed' blocks that no live file owns.     *)
FreeStartsShort(needed) ==        \* mutant: the last block is not looked at
    {b \in DataBlocks :
        /\ needed <= capacity_blocks - b
        /\ b .. (b + needed - 2) \cap UsedBlocks(cache.dir) = {}}

FreeStarts(needed) ==
    {b \in DataBlocks :
        /\ needed <= capacity_blocks - b
        /\ b .. (b + needed - 1) \cap UsedBlocks(cache.dir) = {}}

allocate_extent(needed) ==
    IF needed = 0 THEN {0}
    ELSE {b \in FreeStarts(needed) : \A c \in FreeStarts(needed) : b <= c}

-----------------------------------------------------------------------------
(* Source identities.                                                      *)

SourceIdentityWraps(s) ==         \* mutant: starts over instead of giving up
    LET serial == IF s.serial = MaxSerial THEN 1 ELSE s.serial + 1
    IN  [s EXCEPT !.serial = serial, !.token = serial, !.cacheable = TRUE]

source_identity_allocate(s) ==
    IF s.exhausted \/ s.serial = MaxSerial
    THEN [s EXCEPT !.exhausted = TRUE, !.token = 0, !.cacheable = FALSE]
    ELSE [s EXCEPT !.serial = s.serial + 1, !.token = s.serial + 1,
                   !.cacheable = TRUE]

FirstSource ==
    [token |-> 0, cacheable |-> FALSE, serial |-> 0, exhausted |-> FALSE]
Cacheable == source.cacheable /\ ~source.exhausted
View == [state |-> st, files |-> Files(cache.dir, data)]
NothingHeld == [token |-> 0, view |-> [state |-> "UNINIT", files |-> {}]]

-----------------------------------------------------------------------------
(* The operation a task is inside of: the callback it waits for (phase),   *)
(* the slot and the entry it will publish, the buffer or the extent its    *)
(* data comes from, the block it has read, and the blocks still to do.     *)

Phases == {"idle", "capacity", "header", "directory", "payload", "fetch",
           "store", "entry", "publish", "read"}

Op == [phase : Phases, slot : Slots, entry : Entry, bytes : Payloads \cup {NoPayload},
       from : Nat, block : Content, i : Nat, end : Nat]

Idle == [phase |-> "idle", slot |-> 0, entry |-> NoEntry, bytes |-> NoPayload,
         from |-> 0, block |-> Unwritten, i |-> 0, end |-> 0]

CommitInTwo(slot) == "entry"       \* mutant: block 0 takes two writes as well
CommitPhase(slot) == IF entry_block(slot) = 0 THEN "publish" ELSE "entry"

(* The task goes on to its next callback, or, with Idle, returns.          *)
Enter(t, o) ==
    /\ op' = [op EXCEPT ![t] = o]
    /\ busy' = TRUE

ReturnBusy(t) ==                  \* mutant: an exit that forgets busy
    /\ op' = [op EXCEPT ![t] = Idle]
    /\ UNCHANGED busy

Return(t) ==
    /\ op' = [op EXCEPT ![t] = Idle]
    /\ busy' = FALSE

(* The shared prefix of every call: the task is outside of the file        *)
(* system, and no operation is in progress.                                *)
Callable(t) == op[t].phase = "idle" /\ st # "UNINIT" /\ ~busy

operation_guard(t) == Callable(t) /\ st = "MOUNTED"

FaultIgnored ==                   \* mutant: the instance stays in service
    /\ UNCHANGED st
    /\ source' = source_identity_allocate(source)

fault_io ==
    /\ st' = "FAULTED"
    /\ source' = source_identity_allocate(source)

-----------------------------------------------------------------------------
(* Instance life cycle.                                                    *)

Init ==
    /\ disk \in Images
    /\ data = [b \in DataBlocks |-> Unwritten]
    /\ header \in {"accepted", "rejected"}
    /\ st = "UNINIT"
    /\ busy = FALSE
    /\ cache = [dir |-> EmptyDirectory, crc |-> EmptyDirectory]
    /\ order = << >>
    /\ capacity_blocks = 0
    /\ source = FirstSource
    /\ op = [t \in Tasks |-> Idle]
    /\ held = NothingHeld

ClearCache ==
    /\ cache' = [dir |-> EmptyDirectory, crc |-> EmptyDirectory]
    /\ order' = << >>

(* An instance in use is not initialised again.                            *)
InitDirectory(t) ==
    /\ op[t].phase = "idle"
    /\ st # "UNINIT" => ~busy /\ st = "UNMOUNTED"
    /\ st' = "UNMOUNTED"
    /\ busy' = FALSE
    /\ capacity_blocks' = 0
    /\ source' = source_identity_allocate(source)
    /\ ClearCache
    /\ UNCHANGED <<medium, op, held>>

(* From any state, and without I/O.                                        *)
Unmount(t) ==
    /\ Callable(t)
    /\ st' = "UNMOUNTED"
    /\ capacity_blocks' = 0
    /\ source' = source_identity_allocate(source)
    /\ ClearCache
    /\ UNCHANGED <<medium, busy, op, held>>

(* Mount asks for the capacity, reads block 0, then the other directory     *)
(* blocks straight into the cache, and validates them together.            *)
MountBegin(t) ==
    /\ Callable(t)
    /\ st = "UNMOUNTED"
    /\ ClearCache
    /\ Enter(t, [Idle EXCEPT !.phase = "capacity"])
    /\ UNCHANGED <<medium, st, capacity_blocks, source, held>>

(* A capacity that does not fit, like a header that does not, ends it.      *)
MountCapacity(t) ==
    /\ op[t].phase = "capacity"
    /\ \/ /\ Enter(t, [op[t] EXCEPT !.phase = "header"])
          /\ UNCHANGED <<cache, order>>
       \/ header = "rejected" /\ Return(t) /\ ClearCache
    /\ UNCHANGED <<medium, st, capacity_blocks, source, held>>

(* The outcome of mount once the cache holds d.                            *)
MountVerdict(t, d) ==
    /\ Return(t)
    /\ \/ /\ validate_directory(d)
          /\ cache' = d
          /\ order' \in rebuild_name_order(d.dir)
          /\ st' = "MOUNTED"
          /\ capacity_blocks' = Capacity
          /\ source' = source_identity_allocate(source)
       \/ /\ ~validate_directory(d)
          /\ ClearCache
          /\ UNCHANGED <<st, capacity_blocks, source>>

(* Directory block b of from, the other blocks of onto.                    *)
WithBlock(onto, from, b) ==
    [s \in Slots |-> IF entry_block(s) = b THEN from[s] ELSE onto[s]]

MountReadHeader(t) ==
    /\ op[t].phase = "header"
    /\ UNCHANGED <<medium, held>>
    /\ LET d == [dir |-> WithBlock(cache.dir, disk.dir, 0), crc |-> disk.crc]
       IN  \/ /\ header = "rejected"
              /\ Return(t)
              /\ ClearCache
              /\ UNCHANGED <<st, capacity_blocks, source>>
           \/ /\ header = "accepted" /\ D = 1
              /\ MountVerdict(t, d)
           \/ /\ header = "accepted" /\ D > 1
              /\ cache' = d
              /\ Enter(t, [op[t] EXCEPT !.phase = "directory", !.i = 1])
              /\ UNCHANGED <<st, order, capacity_blocks, source>>

MountReadDirectory(t) ==
    /\ op[t].phase = "directory"
    /\ UNCHANGED <<medium, held>>
    /\ LET d == [cache EXCEPT !.dir = WithBlock(cache.dir, disk.dir, op[t].i)]
       IN  IF op[t].i + 1 < D
           THEN /\ cache' = d
                /\ Enter(t, [op[t] EXCEPT !.i = op[t].i + 1])
                /\ UNCHANGED <<st, order, capacity_blocks, source>>
           ELSE MountVerdict(t, d)

(* The capacity callback or one of the reads fails.                        *)
MountFails(t) ==
    /\ op[t].phase \in {"capacity", "header", "directory"}
    /\ fault_io
    /\ ClearCache
    /\ Return(t)
    /\ UNCHANGED <<medium, capacity_blocks, held>>

-----------------------------------------------------------------------------
(* The calls that change the directory, up to their first callback.        *)

(* allocate_extent borrows the index to sort the extents, and rebuilds it. *)
RestoreNameOrder(needed) ==
    order' \in IF needed = 0 THEN {order} ELSE rebuild_name_order(cache.dir)

BeginCommit(t, slot, entry) ==
    Enter(t, [Idle EXCEPT !.phase = CommitPhase(slot), !.slot = slot,
                          !.entry = entry])

(* Puts the first `needed' blocks of bytes, or of the extent at from, into  *)
(* the extent at start, and then commits the entry.                        *)
BeginData(t, slot, entry, phase, bytes, from) ==
    IF entry.count = 0
    THEN BeginCommit(t, slot, entry)
    ELSE Enter(t, [Idle EXCEPT !.phase = phase, !.slot = slot, !.entry = entry,
                               !.bytes = bytes, !.from = from,
                               !.end = entry.count])

Create(t, n, length, bytes) ==
    /\ operation_guard(t)
    /\ find_entry(n) = {}
    /\ \E slot \in find_free_slot :
       \E start \in allocate_extent(blocks_needed(length)) :
          BeginData(t, slot, [name |-> n, size |-> length, start |-> start,
                              count |-> blocks_needed(length)],
                    "payload", bytes, 0)
    /\ RestoreNameOrder(blocks_needed(length))
    /\ UNCHANGED <<medium, st, cache, capacity_blocks, source, held>>

(* The old extent is still in use: the new data needs its own room.        *)
Replace(t, n, length, bytes) ==
    /\ operation_guard(t)
    /\ \E slot \in find_entry(n) :
       \E start \in allocate_extent(blocks_needed(length)) :
          BeginData(t, slot, [name |-> cache.dir[slot].name, size |-> length,
                              start |-> start, count |-> blocks_needed(length)],
                    "payload", bytes, 0)
    /\ RestoreNameOrder(blocks_needed(length))
    /\ UNCHANGED <<medium, st, cache, capacity_blocks, source, held>>

Remove(t, n) ==
    /\ operation_guard(t)
    /\ \E slot \in find_entry(n) : BeginCommit(t, slot, NoEntry)
    /\ UNCHANGED <<medium, st, cache, order, capacity_blocks, source, held>>

RenameOver(t, old, new) ==        \* mutant: no look at the new name
    /\ operation_guard(t)
    /\ \E slot \in find_entry(old) :
          BeginCommit(t, slot, [cache.dir[slot] EXCEPT !.name = new])
    /\ UNCHANGED <<medium, st, cache, order, capacity_blocks, source, held>>

Rename(t, old, new) ==
    /\ operation_guard(t)
    /\ find_entry(new) = {}
    /\ \E slot \in find_entry(old) :
          BeginCommit(t, slot, [cache.dir[slot] EXCEPT !.name = new])
    /\ UNCHANGED <<medium, st, cache, order, capacity_blocks, source, held>>

Copy(t, src, dst) ==
    /\ operation_guard(t)
    /\ find_entry(dst) = {}
    /\ \E from \in find_entry(src) :
          LET e == cache.dir[from]
          IN  /\ \E slot \in find_free_slot :
                 \E start \in allocate_extent(e.count) :
                    BeginData(t, slot, [e EXCEPT !.name = dst, !.start = start],
                              "fetch", NoPayload, e.start)
              /\ RestoreNameOrder(e.count)
    /\ UNCHANGED <<medium, st, cache, capacity_blocks, source, held>>

(* Reads blocks first .. last of a file.  A read of no bytes, or past the   *)
(* end, returns without a callback.                                        *)
Read(t, n, first, last) ==
    /\ operation_guard(t)
    /\ \E slot \in find_entry(n) :
          /\ first <= last /\ last < cache.dir[slot].count
          /\ Enter(t, [Idle EXCEPT !.phase = "read", !.slot = slot,
                                   !.entry = cache.dir[slot], !.i = first,
                                   !.end = last + 1])
    /\ UNCHANGED <<medium, st, cache, order, capacity_blocks, source, held>>

-----------------------------------------------------------------------------
(* The callbacks of an operation in progress.                              *)

(* After block i: the next block, or the commit once all are written.       *)
NextBlock(t, phase) ==
    IF op[t].i + 1 < op[t].end
    THEN Enter(t, [op[t] EXCEPT !.phase = phase, !.i = op[t].i + 1])
    ELSE BeginCommit(t, op[t].slot, op[t].entry)

WritePayload(t) ==
    /\ op[t].phase = "payload"
    /\ data' = [data EXCEPT ![op[t].entry.start + op[t].i] =
                                <<op[t].bytes, op[t].i>>]
    /\ NextBlock(t, "payload")
    /\ UNCHANGED <<disk, header, st, cache, order, capacity_blocks, source, held>>

CopyFetch(t) ==
    /\ op[t].phase = "fetch"
    /\ Enter(t, [op[t] EXCEPT !.phase = "store",
                              !.block = data[op[t].from + op[t].i]])
    /\ UNCHANGED <<medium, st, cache, order, capacity_blocks, source, held>>

CopyStore(t) ==
    /\ op[t].phase = "store"
    /\ data' = [data EXCEPT ![op[t].entry.start + op[t].i] = op[t].block]
    /\ NextBlock(t, "fetch")
    /\ UNCHANGED <<disk, header, st, cache, order, capacity_blocks, source, held>>

(* The directory with the entry of t's operation in place.                 *)
Edited(t) == [cache.dir EXCEPT ![op[t].slot] = op[t].entry]

(* commit_entry, a slot after block 0: its block goes to the medium and to  *)
(* the cache before the CRC does.                                          *)
CommitEntryBlock(t) ==
    /\ op[t].phase = "entry"
    /\ disk' = [disk EXCEPT !.dir =
                    WithBlock(disk.dir, Edited(t), entry_block(op[t].slot))]
    /\ cache' = [cache EXCEPT !.dir = Edited(t)]
    /\ Enter(t, [op[t] EXCEPT !.phase = "publish"])
    /\ UNCHANGED <<data, header, st, order, capacity_blocks, source, held>>

(* commit_entry, block 0: the entry if it is there, and the CRC of the      *)
(* whole directory.                                                        *)
CommitBlockZero(t) ==
    /\ op[t].phase = "publish"
    /\ disk' = [dir |-> WithBlock(disk.dir, Edited(t), 0), crc |-> Edited(t)]
    /\ cache' = [dir |-> Edited(t), crc |-> Edited(t)]
    /\ order' \in rebuild_name_order(Edited(t))
    /\ source' = source_identity_allocate(source)
    /\ Return(t)
    /\ UNCHANGED <<data, header, st, capacity_blocks, held>>

ReadBlock(t) ==
    /\ op[t].phase = "read"
    /\ IF op[t].i + 1 < op[t].end
       THEN Enter(t, [op[t] EXCEPT !.i = op[t].i + 1])
       ELSE Return(t)
    /\ UNCHANGED <<medium, st, cache, order, capacity_blocks, source, held>>

-----------------------------------------------------------------------------
(* A callback fails.  A failed write leaves the block as it was, as it was  *)
(* to be, or in neither state.  Every failure faults the instance.          *)

ReadFails(t) ==
    /\ op[t].phase \in {"fetch", "read"}
    /\ fault_io
    /\ Return(t)
    /\ UNCHANGED <<medium, cache, order, capacity_blocks, held>>

DataWriteFails(t) ==
    /\ op[t].phase \in {"payload", "store"}
    /\ LET b == op[t].entry.start + op[t].i
           new == IF op[t].phase = "store" THEN op[t].block
                                           ELSE <<op[t].bytes, op[t].i>>
       IN  \E v \in {data[b], new, Unwritten} : data' = [data EXCEPT ![b] = v]
    /\ fault_io
    /\ Return(t)
    /\ UNCHANGED <<disk, header, cache, order, capacity_blocks, held>>

TornSlot(t) == [disk.dir EXCEPT ![op[t].slot] = TornEntry]

(* commit_entry rebuilds the index even when it fails.                      *)
EntryBlockFails(t) ==
    /\ op[t].phase = "entry"
    /\ \E dir \in {disk.dir, TornSlot(t),
                    WithBlock(disk.dir, Edited(t), entry_block(op[t].slot))} :
          disk' = [disk EXCEPT !.dir = dir]
    /\ fault_io
    /\ order' \in rebuild_name_order(cache.dir)
    /\ Return(t)
    /\ UNCHANGED <<data, header, cache, capacity_blocks, held>>

BlockZeroFails(t) ==
    /\ op[t].phase = "publish"
    /\ \E dir \in {disk.dir, WithBlock(disk.dir, Edited(t), 0)}
              \cup IF entry_block(op[t].slot) = 0 THEN {TornSlot(t)} ELSE {},
          crc \in {disk.crc, Edited(t), TornCrc} :
          disk' = [dir |-> dir, crc |-> crc]
    /\ fault_io
    /\ order' \in rebuild_name_order(cache.dir)
    /\ Return(t)
    /\ UNCHANGED <<data, header, cache, capacity_blocks, held>>

-----------------------------------------------------------------------------
(* yan_fs_source: an observer keeps the identity and remembers what the     *)
(* files were; an identity that is not cacheable is not kept.               *)
ObserveSource(t) ==
    /\ t \in Observers
    /\ Callable(t)
    /\ held' = IF Cacheable THEN [token |-> source.token, view |-> View]
                            ELSE NothingHeld
    /\ UNCHANGED <<medium, st, busy, cache, order, capacity_blocks, source, op>>

(* The program ends at any point and is started again on the same image.   *)
Crash ==
    /\ st # "UNINIT"
    /\ st' = "UNINIT"
    /\ busy' = FALSE
    /\ ClearCache
    /\ capacity_blocks' = 0
    /\ source' = FirstSource
    /\ op' = [t \in Tasks |-> Idle]
    /\ held' = NothingHeld
    /\ UNCHANGED medium

Call(t) ==
    \/ InitDirectory(t) \/ Unmount(t) \/ MountBegin(t) \/ ObserveSource(t)
    \/ \E n \in Names :
          \/ \E length \in Sizes, bytes \in Payloads :
                Create(t, n, length, bytes) \/ Replace(t, n, length, bytes)
          \/ Remove(t, n)
          \/ \E m \in Names : Rename(t, n, m) \/ Copy(t, n, m)
          \/ \E first, last \in 0 .. (Capacity - 1) : Read(t, n, first, last)

Callback(t) ==
    \/ MountCapacity(t) \/ MountReadHeader(t) \/ MountReadDirectory(t)
    \/ WritePayload(t) \/ CopyFetch(t) \/ CopyStore(t)
    \/ CommitEntryBlock(t) \/ CommitBlockZero(t) \/ ReadBlock(t)
    \/ MountFails(t) \/ ReadFails(t) \/ DataWriteFails(t)
    \/ EntryBlockFails(t) \/ BlockZeroFails(t)

Next == Crash \/ \E t \in Tasks : Call(t) \/ Callback(t)

Spec == Init /\ [][Next]_vars

(* A device callback always returns: the adapter waits for the host, and    *)
(* the host answers every request.                                         *)
FairSpec == Spec /\ \A t \in Tasks : WF_vars(Callback(t))

-----------------------------------------------------------------------------
TypeOK ==
    /\ disk \in [dir : Directory, crc : Directory]
    /\ data \in [DataBlocks -> Content]
    /\ header \in {"accepted", "rejected"}
    /\ st \in {"UNINIT", "UNMOUNTED", "MOUNTED", "FAULTED"}
    /\ busy \in BOOLEAN
    /\ cache \in [dir : Directory, crc : Directory]
    /\ order \in Seq(Slots)
    /\ capacity_blocks \in {0, Capacity}
    /\ source \in [token : Nat, cacheable : BOOLEAN, serial : Nat,
                   exhausted : BOOLEAN]
    /\ op \in [Tasks -> Op]
    /\ held.token \in Nat

-----------------------------------------------------------------------------
(* Properties.                                                             *)

Active(t) == op[t].phase # "idle"

(* busy is set exactly while one operation is between two of its callbacks, *)
(* and there is never a second one: create, replace, remove, rename, copy,  *)
(* read and mount never interleave, whatever task a callback lets run.      *)
OneOperation ==
    /\ busy <=> \E t \in Tasks : Active(t)
    /\ \A t, u \in Tasks : Active(t) /\ Active(u) => t = u

(* Between operations a mounted instance shows exactly the directory on the *)
(* medium, that directory passes mount's own validation, and the name index *)
(* that find_entry searches lists its live slots in name order.             *)
CacheIsMedium ==
    st = "MOUNTED" /\ ~busy =>
        /\ cache = disk
        /\ header = "accepted" /\ validate_directory(disk)
        /\ IsNameOrder(order, cache.dir)

(* Whatever has failed, the directory in memory stays sound: extents inside *)
(* the data area and disjoint, names unique, also half-way through a commit *)
(* and after a fault.                                                       *)
CacheSound == st \in {"MOUNTED", "FAULTED"} => DirectorySound(cache.dir)

(* Copy on write: no step, failed writes included, changes a data block     *)
(* that a file of a mountable image owns, so that the image keeps its       *)
(* contents until the directory itself is replaced.                        *)
CommittedDataKept ==
    [][validate_directory(disk) =>
          \A b \in UsedBlocks(disk.dir) \cap DataBlocks : data'[b] = data[b]]_vars

(* A source identity names one state of the files: whoever holds a          *)
(* cacheable identity and is told the same one again finds the same         *)
(* instance state, the same files and the same contents.  This is what the  *)
(* term index relies on when it answers from memory.                        *)
IdentityNamesContents ==
    ~busy /\ Cacheable /\ source.token = held.token => View = held.view

(* With a directory of one block, ending the program at any point leaves an *)
(* image that mounts: only a write that the device reports as failed can    *)
(* make it unmountable.                                                     *)
OneBlockCommitAtomic ==
    [][D = 1 /\ validate_directory(disk) /\ ~validate_directory(disk)'
          => st' = "FAULTED"]_vars

(* Every operation comes to its end and releases busy.                      *)
BusyReleased == busy ~> ~busy

-----------------------------------------------------------------------------
(* The refinement mapping.                                                  *)

WritePhases == {"payload", "fetch", "store", "entry", "publish"}

(* The data blocks as they will be when t has written its extent.           *)
IntendedData(t) ==
    LET o == op[t]
    IN  [b \in DataBlocks |->
            IF b \in Extent(o.entry) /\ o.phase = "payload"
                THEN <<o.bytes, b - o.entry.start>>
            ELSE IF b \in Extent(o.entry) /\ o.phase \in {"fetch", "store"}
                THEN data[o.from + (b - o.entry.start)]
            ELSE data[b]]

Writers == {t \in Tasks : op[t].phase \in WritePhases}
Mountable == header = "accepted" /\ validate_directory(disk)

durable ==
    [some |-> Mountable,
     files |-> IF Mountable THEN Files(disk.dir, data) ELSE {}]
intent ==
    [some |-> Writers # {},
     files |-> UNION {Files(Edited(t), IntendedData(t)) : t \in Writers}]
session ==
    CASE st = "MOUNTED" -> "up" [] st = "FAULTED" -> "failed" [] OTHER -> "down"

Abs == INSTANCE YanFSAbs

(* YanFS implements the abstract specification: every call takes effect     *)
(* completely, or not at all, or leaves an image that mount refuses; and    *)
(* what takes effect is what the call says (create adds one file with the   *)
(* caller's bytes, rename keeps contents, copy duplicates them, ...).       *)
AbsSpec == Abs!Spec
=============================================================================
