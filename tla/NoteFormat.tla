----------------------------- MODULE NoteFormat -----------------------------
(***************************************************************************)
(* The metadata header of a note (os/note_metadata_format.c) and the named *)
(* blocks and block references of its body (os/note_blocks_format.c), as   *)
(* pure functions of the bytes.                                            *)
(*                                                                         *)
(* The words of the grammar are one symbol each: the marker "@note 1", any *)
(* other beginning with the same prefix "@note 2", a field line such as    *)
(* "tag: s" without its LF, "@end", and a block marker line "@block p".    *)
(* Names and block ids in a reference are one symbol long.                 *)
(***************************************************************************)
EXTENDS Integers, Sequences, FiniteSets, SequencesExt

CONSTANTS
    NameOrder,                  \* the file names in ASCII order
    Titles, Dates, Tags, Ids,   \* legal values of the fields, block ids
    TagMax, LinkMax, BlockMax,  \* 16, 16, 64
    HeaderMax                   \* 4096: the prefix a reader may look at

NamesInOrder == {NameOrder[i] : i \in DOMAIN NameOrder}
name_compare(n, m) ==
    LET At(x) == CHOOSE i \in DOMAIN NameOrder : NameOrder[i] = x
    IN  At(n) - At(m)

-----------------------------------------------------------------------------
(* The header.                                                              *)

Kinds == {"title", "created", "modified", "tag", "link"}
ValuesOf(kind) ==
    CASE kind = "title" -> Titles
      [] kind \in {"created", "modified"} -> Dates
      [] kind = "tag" -> Tags
      [] OTHER -> NamesInOrder
Field(kind, value) == kind \o ": " \o value

(* The field a header line is, {} when it is none or has no legal value.    *)
classify_line(line) ==
    IF Len(line) # 1 THEN {}
    ELSE {f \in UNION {{kind} \X ValuesOf(kind) : kind \in Kinds} :
             line[1] = Field(f[1], f[2])}

NoInfo == [bad |-> FALSE, title |-> "", created |-> "", modified |-> "", tags |-> <<>>, links |-> <<>>]
Bad(info) == [info EXCEPT !.bad = TRUE]

(* The info after one more field; bad once a field repeats, is unknown or   *)
(* is one too many.                                                         *)
apply_field(info, line) ==
    LET fields == classify_line(line)
        f == CHOOSE x \in fields : TRUE
        single == f[1] \in {"title", "created", "modified"}
        list == IF f[1] = "tag" THEN "tags" ELSE "links"
        most == IF f[1] = "tag" THEN TagMax ELSE LinkMax
    IN  CASE info.bad \/ fields = {} -> Bad(info)
          [] single -> IF info[f[1]] # "" THEN Bad(info) ELSE [info EXCEPT ![f[1]] = f[2]]
          [] OTHER -> IF Len(info[list]) >= most \/ Contains(info[list], f[2]) THEN Bad(info)
                      ELSE [info EXCEPT ![list] = Append(@, f[2])]

(* The prefix of a file, read as a header: how many bytes it takes and what *)
(* it says.  Only a prefix that starts like a marker is a header at all.    *)
parse_header(bytes) ==
    LET ends == SelectSeq([i \in DOMAIN bytes |-> i], LAMBDA i : bytes[i] = "LF")
        Line(k) == SubSeq(bytes, ends[k - 1] + 1, ends[k] - 1)
        closing == {k \in 2 .. Len(ends) : Line(k) = <<"@end">>}
        last == CHOOSE k \in closing : \A j \in closing : k <= j
        info == FoldLeft(apply_field, NoInfo, [k \in 1 .. last - 2 |-> Line(k + 1)])
    IN  CASE bytes = <<>> \/ bytes[1] \notin {"@note 1", "@note 2"} ->
                [result |-> "OK", bytes |-> 0, info |-> NoInfo]
          [] Len(bytes) < 2 \/ bytes[1] # "@note 1" \/ bytes[2] # "LF" \/ closing = {} ->
                [result |-> "METADATA", bytes |-> 0, info |-> NoInfo]
          [] info.bad -> [result |-> "METADATA", bytes |-> 0, info |-> NoInfo]
          [] OTHER -> [result |-> "OK", bytes |-> ends[last], info |-> info]
parse_head(bytes) == parse_header(SubSeq(bytes, 1, IF Len(bytes) < HeaderMax THEN Len(bytes) ELSE HeaderMax))

encode_header(info) ==
    LET Single(kind) == IF info[kind] = "" THEN <<>> ELSE <<Field(kind, info[kind]), "LF">>
        Many(kind, list) ==
            FlattenSeq([i \in DOMAIN list |-> <<Field(kind, list[i]), "LF">>])
    IN  <<"@note 1", "LF">> \o Single("title") \o Single("created") \o Single("modified")
        \o Many("tag", info.tags) \o Many("link", info.links) \o <<"@end", "LF">>

-----------------------------------------------------------------------------
(* The blocks and the references of a body.                                 *)

Marker(id) == "@block " \o id
Markers == {Marker(id) : id \in Ids}
IsMarker(b) == b \in Markers \cup {"@block"}
WordByte(b) == b \in NamesInOrder \cup Ids

(* The parser: the declarations and the references found, the automaton of  *)
(* the reference at hand, and the line it is in.                            *)
parser_init(body_offset, first_line) ==
    [result |-> "OK", blocks |-> <<>>, refs |-> <<>>,
     offset |-> body_offset, line_start |-> body_offset, line |-> first_line,
     first |-> <<>>, last |-> "", state |-> "SEEK", start |-> 0, name |-> "", id |-> ""]

close_block(p, end, last_line) ==
    LET n == Len(p.blocks)
        empty == p.blocks[n].start = end
    IN  IF n = 0 THEN p
        ELSE [p EXCEPT !.blocks[n].end = end,
                       !.blocks[n].first = IF empty THEN 0 ELSE p.blocks[n].marker + 1,
                       !.blocks[n].last = IF empty THEN 0 ELSE last_line]

(* The line that ends here: an ordinary one, or a marker that closes the    *)
(* block before it and opens its own.                                       *)
classify_block_line(p, after_eol) ==
    LET length == p.offset - p.line_start - (IF p.last = "CR" THEN 1 ELSE 0)
        id == CHOOSE i \in Ids : p.first = <<Marker(i)>>
        closed == close_block(p, p.line_start, p.line - 1)
    IN  CASE length < 1 \/ ~IsMarker(p.first[1]) -> p
          [] length > 1 \/ p.first[1] \notin Markers -> [p EXCEPT !.result = "BLOCK_FORMAT"]
          [] \E k \in DOMAIN p.blocks : p.blocks[k].id = id -> [p EXCEPT !.result = "AMBIGUOUS"]
          [] Len(p.blocks) = BlockMax -> [p EXCEPT !.result = "LIMIT"]
          [] OTHER -> [closed EXCEPT !.blocks =
                Append(@, [id |-> id, marker |-> p.line, start |-> after_eol,
                           end |-> after_eol, first |-> 0, last |-> 0])]

(* The restart that forgets the bracket before.                             *)
reference_restart_whole(p, b) ==
    IF b # "[" THEN [p EXCEPT !.state = "SEEK"]
    ELSE [p EXCEPT !.state = "OPEN", !.start = p.offset, !.name = "", !.id = ""]

(* A byte that fits nowhere starts over, but a "[" after a "[" is already   *)
(* the second of a pair.                                                    *)
reference_restart(p, b) ==
    CASE b # "[" -> [p EXCEPT !.state = "SEEK"]
      [] p.last = "[" -> [p EXCEPT !.state = "NAME", !.start = p.offset - 1, !.name = "", !.id = ""]
      [] OTHER -> [p EXCEPT !.state = "OPEN", !.start = p.offset, !.name = "", !.id = ""]

Reference(p) ==
    [line |-> p.line, start |-> p.start, end |-> p.offset + 1,
     within |-> IF p.blocks = <<>> THEN "NONE" ELSE p.blocks[Len(p.blocks)].id,
     name |-> p.name, id |-> p.id]

reference_byte(p, b) ==
    CASE p.state = "SEEK" /\ b = "[" -> [p EXCEPT !.state = "OPEN", !.start = p.offset]
      [] p.state = "SEEK" -> p
      [] p.state = "OPEN" /\ b = "[" -> [p EXCEPT !.state = "NAME", !.name = "", !.id = ""]
      [] p.state = "NAME" /\ WordByte(b) /\ p.name = "" -> [p EXCEPT !.name = b]
      [] p.state = "NAME" /\ b = "#" /\ p.name \in NamesInOrder -> [p EXCEPT !.state = "ID"]
      [] p.state = "ID" /\ WordByte(b) /\ p.id = "" -> [p EXCEPT !.id = b]
      [] p.state = "ID" /\ b = "]" /\ p.id # "" -> [p EXCEPT !.state = "CLOSE"]
      [] p.state = "CLOSE" /\ b = "]" ->
            [p EXCEPT !.state = "SEEK", !.refs = Append(@, Reference(p))]
      [] OTHER -> reference_restart(p, b)

parser_feed(p, b) ==
    LET seen == IF b = "LF" THEN classify_block_line(p, p.offset + 1)
                ELSE reference_byte([p EXCEPT !.first =
                        IF p.offset = p.line_start THEN <<b>> ELSE @], b)
        moved == [seen EXCEPT !.last = b, !.offset = @ + 1]
    IN  CASE p.result # "OK" -> p
          [] seen.result # "OK" -> seen
          [] b = "LF" -> [moved EXCEPT !.line = @ + 1, !.line_start = p.offset + 1,
                                       !.first = <<>>, !.state = "SEEK"]
          [] OTHER -> moved

parser_finish(p) ==
    LET final == p.offset # p.line_start
        seen == IF p.result = "OK" /\ final THEN classify_block_line(p, p.offset) ELSE p
    IN  IF seen.result # "OK" THEN seen
        ELSE close_block(seen, p.offset, IF final THEN p.line ELSE p.line - 1)

parse_body(bytes, body) ==
    LET lines == Cardinality({i \in 1 .. body : bytes[i] = "LF"})
    IN  parser_finish(FoldLeft(parser_feed, parser_init(body, lines + 1),
                               SubSeq(bytes, body + 1, Len(bytes))))
=============================================================================
