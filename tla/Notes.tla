-------------------------------- MODULE Notes --------------------------------
(***************************************************************************)
(* The commands on notes: meta (os/note_metadata.c), links, backlinks and  *)
(* related (os/note_relations.c) and block (os/note_blocks.c), with the    *)
(* rows the shell prints for them (os/shell.c).                            *)
(*                                                                         *)
(* A command reads its files one after the other and stops at the first    *)
(* that fails; nothing is printed before the last one is read, except by   *)
(* block show.  A set of results stands for the reads that may go wrong.   *)
(***************************************************************************)
EXTENDS Shell, NoteFormat

CONSTANTS
    NoteCapacity,                              \* bytes of the candidate file
    RelatedShown, BacklinksShown, RefsShown    \* rows of one answer

ASSUME NotesAssumption == Names = NamesInOrder

Least(i, j) == IF i < j THEN i ELSE j
FirstRows(rows, most) == SubSeq(rows, 1, Least(Len(rows), most))

-----------------------------------------------------------------------------
(* Reading.                                                                 *)

(* The results of steps that are taken in turn while they succeed, and of   *)
(* one step with others after it.                                           *)
InTurn(steps) ==
    LET Reached(k) == \A j \in 1 .. k - 1 : "OK" \in steps[j]
        failed == UNION {steps[k] \ {"OK"} : k \in {j \in DOMAIN steps : Reached(j)}}
    IN  IF Reached(Len(steps) + 1) THEN failed \cup {"OK"} ELSE failed
Then(first, others) ==
    IF "OK" \in first THEN (first \ {"OK"}) \cup others ELSE first

Head_(n) == parse_head(Data(n))
Info(n) == Head_(n).info
read_head(n) ==
    IF yan_fs_stat(n) # "OK" THEN {yan_fs_stat(n)}
    ELSE InTurn(<<Reads(Data(n)), {Head_(n).result}>>)

ListedNames == [i \in DOMAIN Listed |-> Listed[i].name]
Ascending(names) == SetToSortSeq(names, LAMBDA n, m : name_compare(n, m) < 0)
Directory == Ascending(ToSet(ListedNames))

(* The answer of a command that has read its files: the rows, or the error  *)
(* that is printed instead of them.                                         *)
Answered(results, rows) ==
    /\ UNCHANGED files
    /\ \E r \in results :
        /\ disk' = IF r = "IO" THEN "faulted" ELSE disk
        /\ IF r = "OK" THEN Say(rows, "OK") ELSE finish_fs_error(r)

-----------------------------------------------------------------------------
(* meta show, meta set, meta tag, meta link and meta list.                  *)

OrUnknown(v) == IF v = "" THEN <<"UNKNOWN">> ELSE Displayed(<<v>>)
State(n) == IF Exists(n) THEN "OK" ELSE "DANGLING"
LinkRows(links) == [i \in DOMAIN links |-> <<"LINK", links[i], State(links[i])>>]

ShownMeta(n) ==
    LET info == Info(n)
        OrNone(kind, rows) == IF rows = <<>> THEN <<<<kind, "NONE">>>> ELSE rows
        tags == [i \in DOMAIN info.tags |-> <<"TAG", Displayed(<<info.tags[i]>>)>>]
    IN  <<<<"META", n>>, <<"TITLE", OrUnknown(info.title)>>,
          <<"CREATED", OrUnknown(info.created)>>, <<"MODIFIED", OrUnknown(info.modified)>>>>
        \o OrNone("TAG", tags) \o OrNone("LINK", LinkRows(info.links))
run_meta_show(n) ==
    IF n = BadName THEN Own("USAGE")
    ELSE Answered(read_head(n), Append(ShownMeta(n), Ok("meta show")))

(* The text rule of a file that is to be rewritten.                         *)
editor_text_valid(s) ==
    LET f[i \in 1 .. Len(s) + 2] ==
            IF i > Len(s) THEN TRUE
            ELSE CASE s[i] = "CR" -> i < Len(s) /\ s[i + 1] = "LF" /\ f[i + 2]
                   [] s[i] \in {"LF", "TAB"} -> f[i + 1]
                   [] IsAscii(s[i]) -> ~Control(s[i]) /\ f[i + 1]
                   [] OTHER -> LET run == SequenceAt(s, i)
                               IN  /\ run # 0 /\ ~C1(SubSeq(s, i, i + run - 1))
                                   /\ f[i + run]
    IN  f[1]

(* A rebuild that always copies upward.                                     *)
Rebuilt_upward(data, old, header) ==
    LET new == Len(header)
        body == Len(data) - old
        room == [i \in 1 .. Len(data) + new |-> IF i <= Len(data) THEN data[i] ELSE ""]
        moved == FoldLeft(LAMBDA a, i : [a EXCEPT ![new + i] = a[old + i]], room,
                          [i \in 1 .. body |-> i])
    IN  [i \in 1 .. new + body |-> IF i <= new THEN header[i] ELSE moved[i]]

(* The file with another header: the body moves towards the side that keeps *)
(* what is still to be copied, then the header is written over the start.   *)
Rebuilt(data, old, header) ==
    LET new == Len(header)
        body == Len(data) - old
        room == [i \in 1 .. Len(data) + new |-> IF i <= Len(data) THEN data[i] ELSE ""]
        moved == FoldLeft(LAMBDA a, i : [a EXCEPT ![new + i] = a[old + i]], room,
                          LET up == [i \in 1 .. body |-> i]
                          IN  IF new > old THEN Reverse(up) ELSE up)
    IN  [i \in 1 .. new + body |-> IF i <= new THEN header[i] ELSE moved[i]]

publish_change(n, info) ==
    LET data == Data(n)
        old == Head_(n).bytes
        header == encode_header(info)
    IN  CASE Len(data) > NoteCapacity -> Refused("TOO_LARGE")
          [] ~editor_text_valid(data) -> Refused("INVALID_TEXT")
          [] Len(data) - old > NoteCapacity - Len(header) -> Refused("TOO_LARGE")
          [] OTHER -> yan_fs_replace(n, Rebuilt(data, old, header))

(* The info after a change, with its result when the change is refused.     *)
(* Removing what is not there and setting what is set change nothing.       *)
Applied(info, change) ==
    LET list == IF change.field = "tag" THEN "tags" ELSE "links"
        most == IF change.field = "tag" THEN TagMax ELSE LinkMax
    IN  CASE change.how = "set" -> [info EXCEPT ![change.field] = change.value]
          [] change.how = "del" -> [info EXCEPT ![list] = Remove(@, change.value)]
          [] Contains(info[list], change.value) -> info
          [] Len(info[list]) >= most -> Bad(info)
          [] OTHER -> [info EXCEPT ![list] = Append(@, change.value)]

run_meta_change(n, change) ==
    LET info == Applied(Info(n), change)
        outcomes == CASE info.bad -> Refused("INVALID")
                      [] info = Info(n) -> Refused("OK")
                      [] OTHER -> publish_change(n, info)
        family == IF change.how = "set" THEN "meta set" ELSE "meta " \o change.field
    IN  IF n = BadName THEN Own("USAGE")
        ELSE \E r \in read_head(n) :
                IF r = "OK" THEN Performed(outcomes, family)
                ELSE /\ UNCHANGED files
                     /\ disk' = (IF r = "IO" THEN "faulted" ELSE disk)
                     /\ finish_fs_error(r)

run_meta_list(filter) ==
    LET rows == [i \in DOMAIN Directory |-> <<Directory[i]>>]
        Eligible(row) == filter \subseteq ToSet(Info(row[1]).tags)
        shown == SelectSeq(rows, Eligible)
    IN  Answered(InTurn([i \in DOMAIN ListedNames |-> read_head(ListedNames[i])]),
                 Append(shown, <<"OK", "meta list", Len(shown)>>))

-----------------------------------------------------------------------------
(* links, backlinks and related.                                            *)

link_matches(info, n) == Contains(info.links, n)
shared_tag_count(info, other) == Cardinality(ToSet(info.tags) \cap ToSet(other.tags))

row_ranks_after(left, right) ==
    LET Score(row) == row[3] + row[4]
    IN  CASE Score(left) # Score(right) -> Score(left) < Score(right)
          [] left[5] # right[5] -> left[5] < right[5]
          [] OTHER -> name_compare(left[2], right[2]) > 0
sort_rows(rows) == SetToSortSeq(rows, LAMBDA l, r : row_ranks_after(r, l))

run_links(n) ==
    LET rows == LinkRows(Info(n).links)
    IN  IF n = BadName THEN Own("USAGE")
        ELSE Answered(read_head(n), Append(rows, <<"OK", "links", Len(rows)>>))

(* Every header of the directory is read, the ones that say nothing too.    *)
run_backlinks(n) ==
    LET all == SelectSeq(Directory, LAMBDA m : link_matches(Info(m), n))
        shown == FirstRows([i \in DOMAIN all |-> <<"BACKLINK", all[i]>>], BacklinksShown)
    IN  IF n = BadName THEN Own("USAGE")
        ELSE Answered(InTurn([i \in DOMAIN ListedNames |-> read_head(ListedNames[i])]),
                      Append(shown, <<"OK", "backlinks", Len(all), Len(shown), State(n)>>))

RelatedRow(n, m) ==
    LET Count(b) == IF b THEN 1 ELSE 0
    IN  <<"RELATED", m, Count(link_matches(Info(n), m)), Count(link_matches(Info(m), n)),
          shared_tag_count(Info(n), Info(m))>>
run_related(n) ==
    LET others == SelectSeq(ListedNames, LAMBDA m : m # n)
        rows == {RelatedRow(n, m) : m \in ToSet(others)}
        all == sort_rows({row \in rows : row[3] + row[4] + row[5] # 0})
        shown == FirstRows(all, RelatedShown)
    IN  IF n = BadName THEN Own("USAGE")
        ELSE Answered(Then(read_head(n), InTurn([i \in DOMAIN others |-> read_head(others[i])])),
                      Append(shown, <<"OK", "related", Len(all), Len(shown)>>))

-----------------------------------------------------------------------------
(* block list, block refs, block backlinks and block show.                  *)

(* The streaming text rule: a CR or the start of a sequence is held until   *)
(* the next byte decides.                                                   *)
NoText == [bad |-> FALSE, cr |-> FALSE, utf8 |-> <<>>]
yan_block_text_feed(v, b) ==
    LET s == Append(v.utf8, b)
        need == IF IsAscii(s[1]) THEN 1 ELSE utf8_lead_length(s[1])
        broken == \/ need = 0
                  \/ \E i \in 2 .. Len(s) : ~Continuation(s[i])
                  \/ Len(s) > 1 /\ ~utf8_sequence_valid(s)
        refused == \/ Len(s) = 1 /\ Control(b) /\ b \notin {"LF", "TAB"}
                   \/ Len(s) = 2 /\ C1(s)
    IN  CASE v.bad \/ (v.cr /\ b # "LF") -> [v EXCEPT !.bad = TRUE]
          [] v.cr -> [v EXCEPT !.cr = FALSE]
          [] v.utf8 = <<>> /\ b = "CR" -> [v EXCEPT !.cr = TRUE]
          [] broken \/ refused -> [v EXCEPT !.bad = TRUE]
          [] OTHER -> [v EXCEPT !.utf8 = IF Len(s) = need THEN <<>> ELSE s]
yan_block_text_finish(v) ==
    IF v.bad \/ v.cr \/ v.utf8 # <<>> THEN "INVALID_TEXT" ELSE "OK"
Eligibility(data) == yan_block_text_finish(FoldLeft(yan_block_text_feed, NoText, data))

(* The whole file is found eligible before the first byte is interpreted.   *)
(* The parser then ends with one of these (note_blocks_format.c).           *)
ParserResults == {"OK", "BLOCK_FORMAT", "AMBIGUOUS", "LIMIT"}
Parsed(n) == parse_body(Data(n), Head_(n).bytes)
file_scan(n) ==
    IF yan_fs_stat(n) # "OK" THEN {yan_fs_stat(n)}
    ELSE InTurn(<<Reads(Data(n)), {Eligibility(Data(n))},
                  {Head_(n).result}, ParserResults \cap {Parsed(n).result}>>)

DeclaredIn(n, id) ==
    Exists(n) /\ \E k \in DOMAIN Parsed(n).blocks : Parsed(n).blocks[k].id = id
target(n) == {IF r = "NOT_FOUND" THEN "OK" ELSE r : r \in file_scan(n)}
target_state(n, id) ==
    CASE ~Exists(n) -> "DANGLING_FILE"
      [] ~DeclaredIn(n, id) -> "DANGLING_BLOCK"
      [] OTHER -> "OK"

run_block_list(n) ==
    LET blocks == Parsed(n).blocks
        rows == [k \in DOMAIN blocks |-> <<"BLOCK", n, blocks[k]>>]
    IN  IF n = BadName THEN Own("USAGE")
        ELSE Answered(file_scan(n), Append(rows, <<"OK", "block list", Len(rows), Len(rows)>>))

(* The count goes on past the last row that fits.                           *)
collect(n, refs) == [k \in DOMAIN refs |-> <<"REF", n, refs[k]>>]

run_block_refs(n) ==
    LET found == IF "OK" \in file_scan(n) THEN Parsed(n).refs ELSE <<>>
        all == collect(n, found)
        shown == FirstRows(all, RefsShown)
        rows == [k \in DOMAIN shown |->
                    Append(shown[k], target_state(shown[k][3].name, shown[k][3].id))]
    IN  IF n = BadName THEN Own("USAGE")
        ELSE Answered(Then(file_scan(n),
                           InTurn([k \in DOMAIN shown |-> target(shown[k][3].name)])),
                      Append(rows, <<"OK", "block refs", Len(all), Len(rows)>>))

(* A file that is not text is passed over and counted; any other failure    *)
(* ends the command.                                                        *)
run_block_backlinks(n, id) ==
    LET Skipped(m) == Eligibility(Data(m)) # "OK"
        Of(m) == IF Skipped(m) THEN <<>>
                 ELSE collect(m, SelectSeq(Parsed(m).refs, LAMBDA ref : ref.name = n /\ ref.id = id))
        all == FlattenSeq([i \in DOMAIN Directory |-> Of(Directory[i])])
        rows == FirstRows(all, RefsShown)
        Tolerant(m) == {IF r = "INVALID_TEXT" THEN "OK" ELSE r : r \in file_scan(m)}
        skipped == Len(SelectSeq(Directory, Skipped))
    IN  IF n = BadName THEN Own("USAGE")
        ELSE Answered(Then(target(n),
                           InTurn([i \in DOMAIN Directory |-> Tolerant(Directory[i])])),
                      Append(rows, <<"OK", "block backlinks", Len(all), Len(rows), skipped,
                                     target_state(n, id)>>))

(* The lines of a block as they are shown: numbered, without their ends.    *)
block_output_chunk(out, b) ==
    CASE b = "LF" -> [out EXCEPT !.open = FALSE, !.line = @ + 1, !.stream = NoStream,
                        !.rows = Append(@, <<"line", out.line, cat_flush(out.stream).out>>)]
      [] b = "CR" -> [out EXCEPT !.open = TRUE]
      [] OTHER -> [out EXCEPT !.open = TRUE, !.stream = cat_feed(@, b)]
LinesShown(bytes, first) ==
    LET out == FoldLeft(block_output_chunk,
                        [rows |-> <<>>, open |-> FALSE, line |-> first, stream |-> NoStream],
                        bytes)
    IN  IF out.open THEN Append(out.rows, <<"line", out.line, cat_flush(out.stream).out>>)
        ELSE out.rows

(* The body is read again, chunk by chunk, while it is printed.             *)
run_block_show(n, id) ==
    LET blocks == Parsed(n).blocks
        block == CHOOSE b \in ToSet(blocks) : b.id = id
        bytes == SubSeq(Data(n), block.start + 1, block.end)
        total == IF bytes = <<>> THEN 0 ELSE block.last - block.first + 1
        found == {IF DeclaredIn(n, id) THEN "OK" ELSE "NOT_FOUND"}
        rows == LinesShown(bytes, block.first)
    IN  \/ n = BadName /\ Own("USAGE")
        \/ /\ n # BadName
           /\ Answered(InTurn(<<file_scan(n), found>>),
                       Append(rows, <<"OK", "block show", total, total>>))
        \/ /\ n # BadName /\ "OK" \in file_scan(n) /\ DeclaredIn(n, id) /\ bytes # <<>>
           /\ \E k \in 0 .. (Len(bytes) - 1) \div Chunk :
                SayAfter(LinesShown(SubSeq(bytes, 1, k * Chunk), block.first),
                         <<Error("IO")>>, "FATAL")
           /\ disk' = "faulted" /\ UNCHANGED files
=============================================================================
