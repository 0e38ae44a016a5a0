# YanOS in TLA+

YanOS is a small RISC-V machine with the programs that run on it: an emulator
(`src/src`), a cooperative guest runtime with the YanFS file system, a shell, an
editor and a search index (`src/os`, `src/apps`), and host tools that open the
same file-system images (`src/host`, `src/tools`), among them an MCP server whose
tools write notes. This directory models the parts of it that keep state under
concurrency and failure, and the text algorithms of the guest whose answers users
rely on. Paths below are those of the repository, seen from its
root as `src/`; line numbers are those of the commit the model was made from.

Contents: [the system](#the-system) · [modules](#modules-and-code) ·
[runs](#what-the-runs-show) · [bounds](#bounds) · [fairness](#fairness) ·
[proofs](#proofs) · [model-checked only](#model-checked-only) ·
[disagreements](#where-code-and-documents-disagree) ·
[not modelled](#not-modelled) · [plan](#plan)

## The system

How the parts interact: an application task calls YanFS; YanFS calls its block
callbacks; the adapter (`os/yanfs_block.c`) turns a callback into a framed
request on the guest-to-host ring, and waits in the runtime for the transport's
interrupt; the host (`tools/host_block.c`) serves the ring between two
instructions of the guest and writes the image file; the answer raises the
channel's line, the PLIC claims it, the trap handler wakes the task. The host
tools run YanFS themselves, over `pread` and `pwrite`, on the same image file,
which they either lock and replace by `rename`, or open without a lock.

| Component | State | Operations | What is hard | What makes it correct |
|---|---|---|---|---|
| **YanFS** `os/yanfs.c` | directory cache, name index, mount state, `busy`, source identity; the medium | init, mount, unmount, create, replace, remove, rename, copy, read, list, stat | a callback suspends the task in the middle of a call; writes fail or tear; power goes between two writes; extents fragment | calls are atomic, the medium mounts or is refused, the cache equals the medium, committed blocks are never overwritten, an identity names one state |
| **Cooperative runtime** `os/task.c`, `os/trap_entry.S` | task slots, waiter table, cursor, MIE | spawn, wait, yield, exit, scheduler, trap handler | an interrupt between any two steps of wait or of the switch | no lost wake-up, table and states agree, everybody runs |
| **PLIC** `src/interrupt.c` | pending, in service, claimed | sample, claim, complete | a level that rises while its source is in service | nothing pended is forgotten |
| **UART** `src/uart.c`, **terminal line reader** `os/line.c`, `os/terminal.c` | receive byte, enable bits; line buffer | receive, arm, read a line | the terminal leaves; CRLF; overlong lines | the reader is woken and gets the lines that were typed |
| **Transport rings and block protocol** `src/transport.c`, `os/block.c`, `tools/host_block.c`, `tools/host_disk.c`, `os/yanfs_block.c` | two rings, doorbell, latches; disk file; tags | submit, serve, take; one call of the adapter | frames pushed in two steps; no room for the answer; injected faults; a failing file; reused tags; reentry | one answer for each request, in order, and true |
| **Shell and application** `os/shell.c`, `apps/yanfs_terminal/main.c` | mode of the session, what was printed, verdict | startup, prompt, 30 commands, judge, end | the medium fails or the output is refused in the middle of any command | the session goes on only when it can, and the host is told the truth |
| **Editor** `os/editor.c` | draft, name, whether the file exists | open, a, r, d, p, w, q | overlapping moves of the draft; a save that fails | an editor of lines; what is in the draft can be saved |
| **Literal and term search** `os/search*.c` | a stream position, a rank, per-chunk carry | parse, scan, rank, snippet | words, scalars and line ends across chunks; windows cut inside a scalar | agrees with the plain definition |
| **Term index** `os/search_terms_index.c` | tables, the identity they were built at, the qualification of a filter | build, query, fall back, status, clear | built over many reads; the source changes, fails, is mounted again; the caller stops | an answer from memory is the answer from the medium |
| **Note metadata, relations, blocks** `os/note_*.c` | parsed headers, streaming parsers | show, list, set, tag, link, backlinks, related, blocks | a header rebuilt in the buffer of the body; parsers that restart | one replace changes one header; answers count what the bytes say |
| **Arena, memory** `os/arena.c`, `os/memory.c` | a bump pointer | allocate | sequential | unit tests suffice |
| **Host note writer and image lock** `host/note_write.c`, `tools/mcp_note.c`, `tools/yan_run.c` | image file, side lock, temporary copy | preview, commit; the emulator's session | another writer, a guest writing in place, crashes between copy, fsync, rename and the directory's fsync | no lost update, the image is always whole, the reply is true |
| **Semantic index** `host/semantic*.c` | index file, identities | build, publish, match | source changes during a build | a stale index is never used |
| **Image migration** `host/image_migrate.c` | source and target images | migrate | failure half-way | source untouched, target complete or absent |
| **Knowledge graph and block query** `host/knowledge_graph*.c`, `host/block_query.c` | in-memory graph; mounted image | build, query | no lock; the image changes | an OK answer is of the identity it names |
| **MCP server** `tools/yan_mcp.c`, `tools/mcp_*.c` | reply queue, one worker process with its group | dispatch, cancel, time out, shut down | answer against deadline against cancellation; a worker that ignores SIGTERM or leaves children | one reply for each request, no worker left |
| **Emulator core** `src/cpu.c`, `src/bus.c`, `src/csr.c` | registers, CSRs | step, trap | interrupts at instruction boundaries | differential tests |
| **Command-line tools** `tools/yan_mkfs.c`, `tools/yan_gen.c` ... | none | one shot | none | tests |

`PROJECT.json` says of each component whether it is modelled, and lists what is
hard to test at the lines where it bites.

## Modules and code

| Module | Models | State ↔ code |
|---|---|---|
| `YanFS` | `os/yanfs.c` from callback to callback: each action is the code between two device callbacks, `op[t]` is where task `t`'s call stands | `cache`, `order`, `st`, `busy`, `source` ↔ fields of `YanFs`; `disk`, `header`, `data` ↔ the medium |
| `YanFSAbs` | what YanFS promises: files on the medium, an intent, a session | refined by `YanFS` (`AbsSpec`) |
| `YanFSAlgorithms` | heapsort (`os/sort.h`), binary search, first-fit walk and neighbour validation, loop for loop, in words that wrap where the code's do | against plain definitions (`NameIndexFinds` and the others) |
| `YanFS_proofs` | proofs about the loops of `YanFSAlgorithms`, then about `YanFS`: types of every step; the directory in memory; the medium, the identities, the refinement of `YanFSAbs` | |
| `Plic` | gateway, selection, claim, complete (`src/interrupt.c`) | `plic.pending`, `plic.in_service` |
| `Runtime` | `os/task.c`, the trap handler, the wait loops of the line reader and the block adapter, the interrupt side of UART and channel | `state`, `waiters`, `sched_cursor` ↔ `tasks[]`, `waiters[]`, the cursor; `pc`, `trap` ↔ where each context stands |
| `Runtime_proofs` | proofs about `Runtime` | |
| `BlockDevice` | what the channel promises: each request answered once, in order, by a disk that may fail for good | refined by `BlockChannel` (`DeviceSpec`) |
| `BlockChannel` | rings cell by cell, submit and take of `os/block.c`, service of `host_block.c`, the file of `host_disk.c` | `g2h`, `h2g` ↔ the rings with head and tail; `doorbell`, `overflow`, `failNext`, `broken` ↔ the host's flags; `sent`, `answers`, `got` are history |
| `BlockAdapter` | `run_request` of `os/yanfs_block.c` over `BlockChannel` | `adapter` ↔ `YanFsBlockAdapter`, `result` ↔ what the callback returned |
| `Block_proofs` | proofs about `BlockChannel` and `BlockAdapter` | |
| `NoteWrite` | an image file and all who open it: `mcp_note.c`, `note_write.c`, the queries of `block_query.c` and `mcp_meta.c`, the emulator as the lock's other user and the guest's writes in place | `disk` ↔ inodes, the path (`current`), what the directory on the medium may name (`mayName`), what is synced; `lock` ↔ holders of `<image>.lock`; `call[p]` ↔ locals of the tool call |
| `NoteWrite_proofs` | proofs about `NoteWrite` | |
| `McpServer` | `tools/yan_mcp.c` with its worker: each action is one section of the poll loop, or a step of the client, the worker, a process the worker left, or time | `srv` ↔ `McpServer` (session, queue, task, closing); `at` ↔ the section of the loop; `worker`, `kid` ↔ processes; `given`, `called` are history |
| `McpServer_proofs` | proofs about `McpServer` | |
| `Guest` | what every guest command stands on: the file system as a caller sees it, the output sink, `finish_*_error` and verdicts | `files` ↔ the directory in slot order, `wire` ↔ `STOPPED`, `said`, `verdict` ↔ output and `YanShellResult` |
| `Editor` | `os/editor.c` on the bytes of the draft | `draft`, `existing`, `active`, `ename` ↔ `YanEditor` |
| `LineEditor` | what the editor promises: a file and a draft as sequences of lines | refined by `Session` (`EditorImplementsLines`) |
| `Shell` | the file commands and `cat`'s display stream (`os/shell.c`) | |
| `NoteFormat` | header grammar, parser and encoder (`note_metadata_format.c`), block markers and references (`note_blocks_format.c`) | pure functions |
| `Notes` | meta, links, backlinks, related, block (`note_metadata.c`, `note_relations.c`, `note_blocks.c`) with their rows | |
| `Session` | the application `apps/yanfs_terminal/main.c`, composing `Shell`, `Notes` and `Editor` | `phase`, `editing` ↔ the loop and its mode; `code` ↔ what the host reads; `asked` is history |
| `Session_proofs` | proofs about `Session` | |
| `PatternAutomaton` | the automaton with which both searches look for a pattern (`linear_feed_content`, `scan_byte`), and its prefix table | functions of a pattern, a state and a byte |
| `TextSearch` | query parser, chunked scan, ranking and literal search, byte by byte | pure functions of `files`; `query`, `pattern`, `chunk`, `filter` are the question asked |
| `IndexSearch` | what a term search does besides the scan of `TextSearch`: building the index, the join of its postings, the snippets | pure functions of the same `files` and question |
| `TextSearch_proofs` | proofs about `PatternAutomaton` and `TextSearch` | |
| `TermIndex` | when the index is built, published, trusted, thrown away or passed over, with the shell's search commands | `token` ↔ `YanFs.source`; `index`, `table`, `armed` ↔ `YanSearchTermsIndex`; `step` ↔ where the command stands |
| `TermIndex_proofs` | proofs about `TermIndex` | |
| `MC*` | instances for TLC | |

Conventions. A call that is refused with no change of state (BUSY, INVALID,
AGAIN) is a stuttering step; guards are the conditions under which the code goes
on. An operator whose comment says *mutant* is a deliberately wrong form of the
definition that follows it, used by no specification: it is there so that a
property can be seen to fail when the code has that bug. The variables `held`,
`reentered`, `sent`, `answers`, `got`, `acked` and `dirty` are history.

In `Guest` and the modules on it a byte is a string: a printable word, `LF`, `CR`,
`TAB`, `ESC` or the hex digits of a byte above 7F; the words of the note grammar
(`@end`, `tag: s`, `@block p`) are one byte each. What distinguishes texts (line
ends, controls, well-formed UTF-8, grammar lines) is all kept. An operation of
the file system answers a set of results, one of which is a failing device; what
happens inside it is `YanFS`'s subject. `Session` leaves the search commands to
`TermIndex`, and `TermIndex` leaves what one lookup finds in given bytes to
`TextSearch` and `IndexSearch`, which use byte values. `TermIndex` may mount again in the middle
of a run, which the library allows though the application never does.

Two points of the data abstraction matter. The CRC field of a directory holds
the directory it was computed over, so it matches exactly that directory:
collisions do not exist. The SHA-256 identity of an image is its contents.

In `NoteWrite`, `write_image`'s copying and editing is one step: it happens on an
inode nobody else has opened, so that only its failure and the moment it reads
the image can be seen. A guest's change is a data step (its text may land on
blocks that a directory mounted earlier still names) and a commit, in two writes
when `TwoBlocks`; the guest's own YanFS is in `YanFS`. A power loss may keep any
name the directory was not synced over and may lose what was not fsynced; it
assumes that `rename` is atomic on the medium.

## What the runs show

| Run | Shows |
|---|---|
| `yanfs_one` | One-block directory, two tasks, every operation, device failures, torn writes, restarts and broken images: `CacheSound` (extents and names), `CommittedDataKept` (copy on write), `OneBlockCommitAtomic` (a commit is one write) |
| `yanfs_two` | Two-block directory, where a commit may be two writes, one of the tasks keeping the last identity it saw: `CacheIsMedium`, `IdentityNamesContents`, `BusyReleased` under fairness, and the refinement of `YanFSAbs`: every call takes effect completely, not at all, or leaves an image that mount refuses |
| `yanfs_algorithms` | `NameIndexFinds` (sort and search together find exactly the name that is there), `WalkIsFirstFit`, `NeighboursSuffice`, for every directory within the bounds |
| `runtime` | `WaitersAreBlocked`, `NoLostWakeup`; `WaiterWakes` and `RunnableRuns` under fairness |
| `block_channel` | the refinement of `BlockDevice` (each request answered once, in order, truly, frames never torn apart), and `EveryRequestAnswered` although an answer may first have to wait for room |
| `block_adapter` | `ResultIsTrue` (a callback's result is true of the disk, with every request under the same tag), `AlarmMeansReentry` (only a second task makes the adapter give up), `CallReturns` |
| `note_write` | `NoLostUpdate`, `ImageSurvives`, `AckedWriteLasts` (also across power loss), `GuestKeepsImage`, `ReplyIsTrue`, `QueryIsTrue` |
| `note_meta` | a [disagreement](#where-code-and-documents-disagree) between code and documents |
| `mcp_server` | `ReplyIsTrue`, `NobodyLeft` (no process outlives the server), `RepliesOnce` (one reply at most, none after a cancellation), `ServerSettles` under fairness (every request settled, and a closing server ends) |
| `session` | `EndingsAreTrue`, `DraftIsSavable`, `AnswersAreTrue` (cat, links, blocks against the bytes), `BodySurvives` (meta changes one header and nothing else), and the refinement of `LineEditor` |
| `text_search` | `ScanIsReference`, `LiteralIsReference` (the streaming searches find what a plain definition finds, for every chunk size), `IndexEqualsScan` (both backends answer alike), `SnippetIsTrue` |
| `term_index` | `StatusIsCurrent` (a READY status is of the present identity), `AnswersAreCurrent` (what a search reports, by whichever path, is what is on the medium and passes its filter) |

`QueryIsTrue` is stated for at most two changes of the guest that overlap one
query, the one counted that was under way when the query opened the image. That is where it stops being true, and no document promises more (0033 and 0035
disclaim a snapshot): after a third change begins, the blocks of the directory
the query mounted first may have been reused twice, while the image is back at
the contents it had.

What `AckedWriteLasts` does not say: a reply `unchanged: true` is not an
acknowledged write. When the directory's fsync fails, the reply is IO with
`committed: true`; repeating the call then answers `unchanged: true` without any
fsync, so the note may still be lost with the power although
`docs/mcp-write-tools.md:103` tells the caller to stop there.

What `RepliesOnce` and `ServerSettles` do not say: at the end of input or after a
signal the server drops the replies it has not sent, a reply cut in the middle
included, and unless that reply was the worker's its exit code is still 0.

`IndexEqualsScan` and `AnswersAreCurrent` rest on the precondition of
`os/search_terms.h`: nobody changes the source during one query. Under it the
second look at the identity in the build can only meet a failure of the source;
the change it also guards against does not happen in this program.

## Bounds

| Run | Constants | Why they are enough |
|---|---|---|
| `yanfs_one` | D = 1, K = 3 (two slots), five blocks, two bytes a block, names {1, 2}, sizes {0, 1, 3}, one payload, two tasks, `MaxSerial` 2 | empty, partly filled and two-block files; a full directory, no space, a gap between extents; a rename onto a name in use; a second task at every callback; identities run out |
| `yanfs_two` | D = 2, K = 2 (three slots), sizes {0, 3}, two tasks of which one observes, `MaxSerial` 2 | entries in block 0 and behind it, so that commits of one write and of two mix; the identity counter used up while an identity is held |
| images | an empty one, one with a file, five broken ones | each broken image violates one rule of mount |
| `yanfs_algorithms` | six slots, names 1..5, words of three bits (the least that hold a block number) | the heap has last nodes with one child and with none; gaps in front, between and behind |
| `runtime` | three tasks, two of them readers, two sources, at most two responses | a reader, another reader and one that only yields; an event that repeats while it is being served |
| `block_channel` | ring of 8 cells, header 2, blocks of 2, disk of 2 blocks, first position 0 or 7, two requests of a menu of six, one fault | two answers never fit together; a header crosses the wrap; equal tags; out of range; more than one fault only repeats the first |
| `block_adapter` | blocks of 5, so a frame fills the ring exactly; one tag | every request reuses the tag of the one before it |
| `note_write` | two processes, one guest, names {m, n}, texts {a, b}, four inodes, two calls of a menu of five, two changes of the guest, two faults, directory of two blocks | two commits race, one commit meets a query, a guest changes the image during either; a failed fsync followed by a power loss |
| `mcp_server` | three scripts of three lines (call, cancel and call again under one id; a list, a tool and a note call; a legacy session), a queue of two, one fault | the queue is full with a worker's answer ready; a cancellation meets the answer, the deadline and the shutdown; each failure of the host at each place |
| `session` | four libraries of up to three files (CRLF and UTF-8; linked notes with blocks; a binary file, a broken header and a text that ends in a CR; repeated and empty blocks), one saving command, two openings or edits, draft of 8 bytes, `cat` in pieces of 4, rows cut at 1 | a save meets every other command before and after it; every refusal and capacity is met; a sequence lies across a read of `cat` |
| `text_search` | all texts up to 3 over six bytes and up to 4 over line ends, some twenty odd ones (overlong and surrogate sequences, NUL, long words), pairs of files, eleven queries, five literals, chunks of 1 and 3 | matches, scalars and line ends at every place of a chunk; ties in the ranking; each table at its limit; the ring one longer than the longest query, so that it wraps within a file |
| `term_index` | two slots, three words, two keys, three postings, identities up to 4, two queries, with and without a filter | an index that fits and one that does not; a change, a fault and a mount between any two commands; the counter used up |

TLC stops exploring at `MaxSerial` (an identity counter that the code, too,
refuses to wrap), `TokenMax` (likewise), `MaxItems`, `MaxRequests`, `MaxFaults`,
`MaxCalls`, `MaxSaves` and `MaxEdits`, which guards name. A run whose cfg turns the
search for deadlock off ends when its budgets are spent, as the channel's does, or
after one question, as the pure ones do.

## Fairness

- `YanFS!FairSpec`: weak fairness of each task's `Callback`. The adapter waits
  for every request, and the host answers every request (`EveryRequestAnswered`,
  `CallReturns`). Nothing is assumed about which calls are made.
- `Runtime!FairSpec`: weak fairness of the handler, the scheduler and a task that
  stands inside the runtime (the CPU goes on executing), and strong fairness of
  `Release`: a task that runs comes to wait, yield or exit. That is the
  contract of a cooperative runtime, not something the code enforces; without
  it `RunnableRuns` is false by design.
- `BlockChannel!LiveSpec`: weak fairness of the guest's and the host's steps:
  `yan_run` calls the service before each instruction while the bell has rung or
  request cells remain, and the client keeps taking answers.
- `BlockAdapter`: the adapter's own steps, the rest of a submit or a take
  it has begun, and the host.
- `McpServer!FairSpec`: weak fairness of the server's loop, of the kernel (a killed
  process dies, a pipe reports its end), of the deadlines (a clock that is past a
  deadline stays past it), and of a worker that has not been told to stop: it
  comes to its end, because the model client it may call has timeouts of its own.
  Nothing is assumed about the client, nor about a worker
  that has been sent SIGTERM, which may ignore it until SIGKILL.
- `NoteWrite`, `Session`, `TermIndex` and `TextSearch` have none: their properties
  are safety.

## Proofs

Eight modules hold 48 theorems worth knowing and the lemmas under them; `PROJECT.json` lists
them. All are about any values of the constants that satisfy the modules'
assumptions:

- `GeometryAssumption` (at least one directory block, two entries a block, a
  device that holds the directory), `InputAssumption` (names and sizes are
  numbers), `ImageAssumption` (host images are directories with *some* CRC field);
- `WordAssumption` (a block number fits a word, as `uint32_t` capacities do) and
  `DirectoriesAssumption` (the directories tried are directories);
- `RuntimeAssumption` (each event has at most one reader, as the application
  arranges) and `PlicAssumption`;
- `ChannelAssumption` (a ring has room for a header, the largest single answer that
  is always due, the capacity's, and the cell that stays free: `include/yan/transport.h`
  demands 64 bytes), `RequestAssumption` (requests are those `yan_os_block_submit`
  does not refuse as mistakes of its caller) and `TagAssumption`;
- `NoteAssumption`: inodes are numbers, the emulator is no process of a tool, a
  text is not one of the words that stand for a missing, torn or absent note, and a
  commit carries an expected identity, which `mcp_note.c` demands of it;
- `McpAssumption`: a client sends finitely many lines, and the queue has room for one;
- `SearchAssumption`: files, queries and patterns are sequences of bytes, and a chunk is
  not empty; `LimitAssumption`: the limits are numbers, a line's score has room for at least
  one occurrence, and the ring of word bytes is longer than a query (1024 in
  `os/search_terms_core.h:24`, 1023 in `os/search_terms.h:47`);
- `TermAssumption` (limits are numbers, there is at least one identity) and
  `FileAssumption` (a mounted directory has no name twice, which YanFS's mount
  checks and `CacheSoundHolds` proves of it).

**Runtime.** `Runtime_proofs` proves `Spec => []IInv` with
`IInv == TypeOK /\ Standing /\ Gate /\ Waiting /\ Armed`, and from it
`TypeCorrect`, `OneRunningHolds`, `WaitersAreBlockedHolds`, `NoLostWakeupHolds`,
`MaskedOnlyBrieflyHolds` and `NoPanicHolds`. None of those is inductive alone:
that no wake-up is lost depends on *where* each context stands in `wait` and
`yield` (`Standing`), on MIE being off exactly in the critical section and in the
handler, with the PLIC's claim matching the handler's step (`Gate`), on waiter
and state written together as seen by the handler (`Waiting`), and on the device
line of an event being armed as long as somebody waits for it (`Armed`).

**YanFS, in memory.** `YanFS_proofs` proves the types of every step, and
from them `Spec => []IInv` with `IInv == Typed /\ Sound`, where
`Typed == TypeOK /\ OneOperation /\ DownIsIdle` and
`Sound == CacheSound /\ Placed /\ Indexed /\ PhaseState /\ EditsSound /\ CopiesInside`.
The theorems a reader wants are `TypeCorrect`, `OneOperationHolds` and
`CacheSoundHolds`: the directory in memory keeps its extents inside the data
area and disjoint and its names unique, through commits that fail half-way.
`CacheSound` is not inductive: what a call in progress is *about* to publish must
be sound too (`EditsSound`), for which the allocator must see the whole device
(`Placed`) and the name search a sorted index (`Indexed`); and no second call
may change the directory meanwhile, which is `OneOperation`. The key lemmas are
`EditKeepsSound` (a valid entry with a fresh name and free blocks keeps a
directory sound) and those on the first-fit allocation.

**YanFS, on the medium.** The second half of `YanFS_proofs` adds the medium:
`MInv == IInv /\ MirrorInv /\ OpInv /\ EmptyInv /\ IdentityInv`. A mounted
instance has the medium's directory in memory, only the CRC field behind
(`MirrorInv`); of the operation under way it says which blocks it has written, that
they lie in an extent no file owns, and what a mount has loaded so far (`OpInv`);
an instance that is not mounted is empty (`EmptyInv`); the counter of identities
is ahead of every identity an observer holds, and a held identity that is
current has the held files (`IdentityInv`). TLC checked `MInv` on both geometries
before it was proved. From it:

- `CacheIsMediumHolds`, `IdentityNamesContentsHolds`, `CommittedDataKeptHolds`,
  `OneBlockCommitAtomicHolds`;
- `Refinement`: `Spec => AbsSpec`. `durable` is what mount would find, `intent` what
  the entry being written will make of the files once its data is there (`Outcome`,
  with `Plan` for the data still to come), `session` the mount state. Each call
  begins an edit of the abstract file set (`CreateAbstract` and its like, which need
  that allocation and name search return a free extent and a fresh name); a data
  write is a stutter, because it lies outside every file's extent; the first write
  of a two-block commit is `Interrupt`; block 0 is `Publish`; a failure at each place
  is `Fail`, and the end of the program is `Leave`. `Outcome` changes under no data
  write, which is what makes the effect of a call the one its caller asked for.

**The loops of YanFS.** A loop of `YanFSAlgorithms` is a body and a number of turns
(`Turns`). `LoopInvariant` says that what holds at the start and goes over from each
turn to the next holds at the end; it rests on an induction over the natural numbers
for a *set* (`Induction`), which needs no theorem with an operator parameter: the
numbers outside the set would have a least one (`WFMin`). Every loop then has its own
invariant: the array is a heap but for one root (`SiftTurn`, `SiftDown`), a heap from
a position on (`Heapify`), a heap in front of a sorted tail that it does not exceed
(`Extract`), which gives `HeapsortSorts`; what lies outside the bracket of the binary
search is decided and the bracket halves (`SearchTurn`), which gives `NamesAreFound`;
every run that starts before the candidate meets a used block (`WalkTurn`), which gives
`AllocationIsFirstFit`; and sorted neighbours that do not touch keep all pairs apart
(`NeighbourChecksSuffice`). So what `YanFS` takes for granted of its index, its
allocator and its validation holds of the loops that compute them, at every size.

**The automaton of the searches.** `Ends(g, k, w, n)` says that the first n bytes of w
end with the first k of the pattern g. Which beginnings go on with one more byte depends only on
the longest that ends before it (`EndsMore`, `EndsWithin`); so falling back along the
table until the byte fits arrives at the longest beginning that ends after it
(`NextState`). Run on the pattern itself this says that the table is the right one
(`PrefixTable`), and run on a text, that the state stays the longest beginning that
ends there, over a whole match too (`OneByte`). `AutomatonFindsAll` is the answer a
search depends on: a match is seen after a byte exactly when the bytes up to it end
with the pattern.

**The literal search.** The second half of `TextSearch_proofs` is an invariant over the
bytes fed (`Sound`). Between two bytes a line is open, or the last byte ended it. An
open line's content is all bytes since its start, or all but a last CR, of which the
next byte decides whether it belongs to the line's end (`Settle`); the automaton stands where these
bytes leave it, and `match` says that they hold the pattern. The rows already written
are those of the earlier lines that hold it, in order (`Rows`). `FeedByte` carries this
over a byte of each kind, `FinishEof` over the end of the file. `StreamIsLine`, an
induction backwards from the end, joins the pieces in which the bytes of a match are
read again; `HitIsHas` and `LaterLine` translate the result into the reference, whose lines are
described by `LineOf` and `LineEnd` alone. `LiteralIsReferenceHolds` follows from them
for every file, not only for those of the instance.

**The term search by scan.** The last part of `TextSearch_proofs` puts the ranked scan
together from the inside out, and ends in `ScanIsReferenceHolds`.

- *Text.* `Passed` says what the check of a file has seen after n bytes: whole scalars up to
  the carried bytes, and these begin one. A scalar's length shows in its first byte and
  each further byte keeps it possible (`Beginning`, `NextScalar`), so a carry that is left at
  the end, or a byte that fits nothing, is what `IsText` excludes (`PreflightIs`).
- *Query.* `ParseIs`: the groups of a query are not empty, no longer than the query, and have no LF.
- *Ranking.* `Ranked(rank, lines)`: the list is sorted, holds lines of the set, as many as there
  is room for, and each line left out is worse than all in a list that is full. `RankAdd` carries it
  over an insertion of a line that comes later than all before.
- *Bytes.* `Scanned` is the invariant over the bytes of a file: each group's automaton state
  is the longest beginning that ends here, its count and the anchor are those of the
  occurrences in this line that have ended (`Sofar`), the ring holds whether each of the last
  `Ring` bytes was a word byte, and the earlier lines are ranked. `Apart` is why the ring does
  not overwrite the byte before an occurrence, `HitIs` why a hit is an occurrence with its word
  boundaries, `SofarLine` why a LF ends all of them, a group having none itself.
- *Reads.* One byte is held back until the next read (`Held`): its successor decides the word
  boundary. `ChunkIsScanned` carries this over a read of any length, `PiecesAreScanned` over all reads.
- *Files.* `FileIsScanned` adds the last byte and the last line, `VisitIs` the filter
  and the skip count, and `QueryIs` goes over the slots.

**Block channel and adapter.** `Block_proofs` describes the rings by what is on its
way: a ring `Holds` a sequence of frames, one behind the other from the tail, at
offsets modulo its size (`HoldsPush`, `HoldsDrop`, `HoldsExtend`: a frame pushed or
popped in two steps). `CInv == DiskInv /\ HistoryInv /\ GuestInv /\ RingsInv` says
that the request ring holds exactly the requests sent and not answered, with a bare
header behind them between the two pushes of a submit, the answer ring exactly the
answers given and not taken, less a header the guest has popped already; and that each
answer is one to the request with its number. It is inductive because the host
serves only a frame that is there in full: a header without its payload is not one
(`FrontHeader`, `ServedIsOldest`), and what it decodes is what was encoded. From it
`ChannelIsDevice`: a service that answers is `BlockDevice`'s `Answer`, a take is its
`Take`, and every push in between is a stutter. The adapter's invariant `AInv` adds
that between calls nothing is on its way and during a call exactly one frame is
(`CallInv`), so that with one tag for all requests there is no answer to confuse it with;
and that the answer is true of the disk from the moment it is given (`TruthInv`), since
nothing else writes. `ResultsAreTrue` and `AlarmsMeanReentry` follow.

**Session.** `Session_proofs` proves `SInv`. Whatever a command does, it meets a fatal
error only with the storage given up or faulted (`Honest`, for each operation of the
file system), reports it only as fatal (`Reported`, for each command down to the note
parsers' results), and can otherwise be fatal only by losing the wire; the editor
opens only by `edit` and is left only by a command that says so (`Stays`, `Leaves`).
So after every command verdict, storage, wire and mode agree (`Judged`), from which
`EndingsAreTrueHolds`.

**Note writer.** `NoteWrite_proofs` proves
`IInv == TypeOK /\ LockInv /\ GuestInv /\ DiskInv /\ CallInv /\ AckInv`. No property is
inductive alone: that nobody changes what a commit is about to replace is a matter
of who holds the exclusive lock (`LockInv`, `GuestInv`), of what the commit has
established at each of its steps (`CallInv`: the copy is synced before the rename,
its inode is one the path cannot name), and of every inode a power loss may leave
(`DiskInv`). It yields `NoLostUpdateHolds`, `ImageSurvivesHolds`,
`AckedWriteLastsHolds`, `GuestKeepsImageHolds`, and `ReplyIsTrueHolds`, an action
property. `QueryIsTrueHolds` is about a caller without the lock and needs a second
invariant, `QInv`: which of the changes that overlapped the query it can still
notice, counted in `moved`.

**Term index.** `TermIndex_proofs` proves `IndexInv`: an index carries an
identity that the source had, at most the one of now, and an index with the
identity of now is the one the files as they are would give. It is kept because
every step of the model is one of four kinds (`StepIsSourceStep`): nothing changes,
the index is made of the present files, the identity is new, or the index is empty.
`StatusIsCurrentHolds` follows. `AnswerInv` adds that the directory is sound and
that a query's table, rows and printed lines are those of the files as they are,
from which `AnswersAreCurrentHolds`: what a search says is true by either path.

**MCP server.** `McpServer_proofs` follows a request. Its line has a number that no
line before it had (`LineInv`); it is the task or a frame of the queue, once and
never both (`QueueInv`); what waits there is neither answered nor cancelled
(`OpenInv`); worker and child belong to the task that owns them (`WorkerInv`); a
frame says what the reaped worker wrote (`AnswerInv`); a section of the loop is
entered only with something to do (`SectionInv`). Together they are inductive and
give `NobodyLeftHolds`, `ReplyIsTrueHolds` and `RepliesOnceHolds`. The lemma that
carries `RepliesOnce` is `FirstTaskFrame`: the queue has at most one frame of a
task, so that discarding the first one leaves none.

Proving changed the model where it was wrong or vague, and the runs were repeated:

- `OpenImage` counts a change of the guest that is under way when a query opens
  the image. The count had left it out, so that the bound of
  `QueryIsTrue` admitted three overlapping changes where two were meant.
- `WithoutTaskFrame` removes the *first* frame of a task, as `discard_task_frame`
  does (`tools/yan_mcp.c:131-142`). It had removed all.
- The loops of `YanFSAlgorithms` were RECURSIVE operators; they are recursive functions
  over turns now, and block numbers wrap at the end of an extent as well.
- In `TermIndex!Decide` and in `BlockChannel`'s decoding and judging arms of a CASE
  overlapped, which TLC resolves by order and the semantics does not; they exclude
  each other now.
- `ChannelAssumption` allowed rings too small for the answer to a capacity query, with
  which a host would wait for room for ever; the code's minimum excludes them. What a
  submit may be asked (`RequestAssumption`) had been left to the instance.
- The results of reads taken in turn (`Notes!InTurn`, `Then`) are sets of sets instead of a fold,
  and `file_scan` names the results a parser can end with (`ParserResults`).
- The automaton of the searches is a module of its own; its table is a recursive
  function instead of a fold, and the one for a byte is defined on the states it can fall to
  instead of on all, most of which the table does not have yet while it is being filled.
- The feed of the literal search and the pieces it sends are recursive functions instead of
  a fold and a RECURSIVE operator, and its reference is a set of rows with an order. The
  reference of the ranked search looks at all lines of a file, where it had stopped at a
  number of lines the instance never reached.
- The scan's loops (over bytes, reads, slots, the checked text, the parsed query, the
  score) are recursive functions over their turns, and its reference says what a ranking
  is (`IsRanking`) instead of computing one. The instance's ring was shorter than
  its queries, which the code's never is; it is one byte longer now, as in the code.
- The index and the snippets have moved from `TextSearch` to `IndexSearch`.

## Model-checked only

- Liveness (`BusyReleased`, `WaiterWakes`, `RunnableRuns`, `EveryRequestAnswered`,
  `CallReturns`, `ServerSettles`): fairness and ENABLED are out of the prover's reach.
- What is computed by folds over bytes: `IndexEqualsScan` and
  `SnippetIsTrue` of `IndexSearch`, `AnswersAreTrue`,
  `BodySurvives`, `DraftIsSavable` and `EditorImplementsLines` of `Session`. A fold or a
  `SelectSeq` takes an operator as a parameter, of which the provers know nothing; these
  would first have to become loops as those of `YanFSAlgorithms` are. That the scan
  is right is proved, so what TLC adds to it is that the index agrees with it.

The other way round, `TypeOK`, `OneOperation`, `OneRunning`,
`MaskedOnlyBriefly` and `NoPanic` are proved and not run: the theorems cover
the instances, and the invariants that are still checked would break with them.

## Where code and documents disagree

`docs/specs/0041-note-meta-mcp-tool.md:66` and `:89` say that an image rewritten in
place during a meta query is reported STALE. Both of its looks go through the
directory that was mounted at the start, so that a change committed between them
is not seen. Run `note_meta`.

Three more were met while modelling and have no run of their own:

1. `os/line.c:126` says that a terminal that leaves must not leave the reader
   waiting. It checks between waits only; a reader that is already blocked is
   never woken, because a disconnect raises no interrupt
   (`docs/specs/0022-terminal-file-operations.md:65` knows the limit). `Runtime`
   has the behaviour: a reader blocked when its terminal goes stays blocked.
2. The comment at `os/yanfs.c:778-781` says that a failed commit allocates no
   source identity. It does, in `fault_io`: rightly, since the medium may have
   changed, and `IdentityNamesContents` needs it.
3. The comment at `os/yanfs.c:1478` says that a rename is the single write of
   block 0. With an entry behind block 0 it is two, as `yanfs_two` has it.

## Not modelled

- `list`, `stat`, `probe` of YanFS: they only read the cache or a header.
- A terminal that comes back after it left, and a channel that is detached or
  reconfigured while in use: no program does either.
- CRC and SHA-256 collisions; a `take` with too small a buffer (the adapter's is
  large enough); `UNSUPPORTED` from the host, which no request of the guest layer
  can provoke.
- UART transmission, CLINT, instruction semantics (the differential tests).
- Whether the compiler keeps the loads of `yan_os_sched_run`'s polling loop; the
  model reads memory each time.
- The guest's line reader while a line is typed (echo, erasing, CRLF) and the shell's
  tokeniser: `Session` starts from the command they yield. Refusals of the shell and
  the editor for overlong lines or control bytes cannot happen: the reader refuses
  those first.
- The ordinary text of names, titles and dates (sets of the instance); the tools'
  own text rules behind INVALID and INVALID_TEXT, the diff of a preview, wording of
  diagnostics.
- Lookup structures of the term index (hash chains, merge sort of postings): a
  postings set and its limits stand for them. JSON and argument rules of the MCP
  server: a line is one of ten kinds. A temporary copy that a killed process leaves
  behind stays in the directory, which no property is about.
- Rename and copy by a guest in `NoteWrite`: a change there is of one note.

## Plan

Order of work, most important first; the first six lines are done.

1. `YanFS`, `YanFSAbs`, `YanFSAlgorithms`; its type and soundness theorems.
2. `Plic`, `Runtime`; its safety theorems.
3. `BlockDevice`, `BlockChannel`, `BlockAdapter`.
4. `NoteWrite`; `McpServer`.
5. `TextSearch`, `IndexSearch`, `TermIndex`.
6. `Guest`, `Shell`, `Editor`, `LineEditor`, `NoteFormat`, `Notes`, `Session`.
7. `SemanticIndex`: build, publish, staleness; `ImageMigrate`: source unchanged,
   target complete or removed; the knowledge graph's build and queries.
8. The line reader with echo, CRLF and overlong lines; CLINT and trap entry of the
   CPU, as far as interrupts and CSRs go.
9. Proofs: `DraftIsSavable` of `Session`, which needs bounds on what the input mode
   appends, and the moves of the draft as loops (`draft_move`, `Rebuilt`); then the join of
   `IndexSearch` as loops over the postings, against the proved scan.
