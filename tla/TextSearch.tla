----------------------------- MODULE TextSearch -----------------------------
(***************************************************************************)
(* The two searches over the texts of the notes: the ranked term search    *)
(* that scans the files (os/search_terms_core.c, search_terms_linear.c,    *)
(* search_text.c) and the literal search (os/search_linear.c, search.c).   *)
(* They are pure functions of the stored bytes, read in chunks.  The index *)
(* that may answer a term search instead, and the snippets of its lines,   *)
(* are in IndexSearch; the cache that decides when the index is used is in *)
(* TermIndex.                                                              *)
(*                                                                         *)
(* A behaviour is one question: the files in slot order, then a query or a *)
(* literal pattern with the chunk size and the tag filter, which is the    *)
(* set of slots whose header carries the tags.  Bytes are numbers, offsets *)
(* count from 0 as in the code, and files[s][o + 1] is the byte at o.      *)
(***************************************************************************)
EXTENDS Integers, Sequences, FiniteSets, SequencesExt, PatternAutomaton

CONSTANTS
    Corpora,       \* sequences of files, a file is a sequence of bytes
    Queries, Patterns, ChunkSizes,
    Filters,       \* sets of slots; NoFilter for an unfiltered query
    NoFilter,
    QueryMax, GroupMax, WordMax,       \* 1023, 16, 255
    Ring,                              \* 1024, history of word bytes
    ScoreMax, ShownMax                 \* 255 per group, 20 lines

Byte == 0 .. 255
ASSUME SearchAssumption ==
    /\ \A c \in Corpora : c \in Seq(Seq(Byte))
    /\ \A p \in Patterns \cup Queries : p \in Seq(Byte)
    /\ ChunkSizes \subseteq Nat \ {0}
ASSUME LimitAssumption ==      \* the ring holds a longest group and the byte before it
    /\ QueryMax \in Nat /\ Ring \in Nat /\ QueryMax < Ring
    /\ ScoreMax \in Nat \ {0} /\ ShownMax \in Nat /\ GroupMax \in Nat

VARIABLES files, query, pattern, chunk, filter
vars == <<files, query, pattern, chunk, filter>>

Nul == 0
Tab == 9
LF == 10
CR == 13
Eof == -1
Min2(a, b) == IF a < b THEN a ELSE b
Least(S) == CHOOSE x \in S : \A y \in S : x <= y
Slots == 1 .. Len(files)
Pieces(bytes) ==
    [i \in 1 .. ((Len(bytes) + chunk - 1) \div chunk) |->
        SubSeq(bytes, (i - 1) * chunk + 1, Min2(i * chunk, Len(bytes)))]

-----------------------------------------------------------------------------
(* search_text.c                                                           *)

is_ascii_word(b) == b \in (48 .. 57) \cup (65 .. 90) \cup (97 .. 122) \cup {95}
ascii_fold(b) == IF b \in 65 .. 90 THEN b + 32 ELSE b
Fold(s) == [i \in DOMAIN s |-> ascii_fold(s[i])]

(* The length of the scalar that starts with the bytes at hand, 0 when they *)
(* already cannot start one.                                                *)
utf8_expected(s) ==
    LET need == CASE s[1] < 128 -> 1
                  [] s[1] \in 194 .. 223 -> 2
                  [] s[1] \in 224 .. 239 -> 3
                  [] s[1] \in 240 .. 244 -> 4
                  [] OTHER -> 0
        legal == /\ \A i \in 2 .. Min2(need, Len(s)) : s[i] \in 128 .. 191
                 /\ need > 1 /\ Len(s) > 1 =>
                        /\ s[1] = 224 => s[2] >= 160
                        /\ s[1] = 237 => s[2] <= 159
                        /\ s[1] = 240 => s[2] >= 144
                        /\ s[1] = 244 => s[2] <= 143
    IN  IF legal THEN need ELSE 0

(* The whole-file check: one byte at a time with the unfinished scalar      *)
(* carried over, whatever the reads were.                                   *)
preflight_byte(s, b) ==
    LET carry == Append(s.carry, b)
        need == utf8_expected(carry)
    IN  IF s.skip \/ (s.carry = <<>> /\ b \in 1 .. 127) THEN s
        ELSE IF b = Nul \/ need = 0 THEN [s EXCEPT !.skip = TRUE]
        ELSE IF need <= Len(carry) THEN [s EXCEPT !.carry = SubSeq(carry, need + 1, Len(carry))]
        ELSE [s EXCEPT !.carry = carry]
preflight(bytes) ==
    LET upto[n \in 0 .. Len(bytes)] ==
            IF n = 0 THEN [carry |-> <<>>, skip |-> FALSE]
            ELSE preflight_byte(upto[n - 1], bytes[n])
    IN  upto[Len(bytes)].skip \/ upto[Len(bytes)].carry # <<>>

utf8_valid(bytes) ==
    LET f[i \in 1 .. Len(bytes) + 1] ==
            IF i > Len(bytes) THEN TRUE
            ELSE LET need == utf8_expected(SubSeq(bytes, i, Len(bytes)))
                 IN  need # 0 /\ i + need <= Len(bytes) + 1 /\ f[i + need]
    IN  f[1]

-----------------------------------------------------------------------------
(* The query: groups of word bytes and non-ASCII bytes, case folded, each   *)
(* kept once, with the word flags of its two ends.                          *)

query_separator(b) == b < 128 /\ ~is_ascii_word(b)

GroupAt(q, i) ==
    LET ends == {j \in i .. Len(q) : \A k \in i .. j : ~query_separator(q[k])}
    IN  SubSeq(q, i, CHOOSE j \in ends : \A k \in ends : k <= j)
GroupStarts(q) ==
    {i \in DOMAIN q : ~query_separator(q[i]) /\ (i = 1 \/ query_separator(q[i - 1]))}
WordRuns(s) == {r \in (DOMAIN s) \X (DOMAIN s) :
                    r[1] <= r[2] /\ \A k \in r[1] .. r[2] : is_ascii_word(s[k])}

parse(q) ==
    LET upto[n \in 0 .. Len(q)] ==
            IF n = 0 THEN <<>>
            ELSE LET groups == upto[n - 1]
                     group == Fold(GroupAt(q, n))
                 IN  IF n \in GroupStarts(q) /\ \A k \in DOMAIN groups : groups[k] # group
                     THEN Append(groups, group) ELSE groups
    IN  upto[Len(q)]

parse_ok(q) ==
    /\ Len(q) \in 1 .. QueryMax
    /\ \A i \in DOMAIN q : (q[i] >= 32 \/ q[i] = Tab) /\ q[i] # 127
    /\ utf8_valid(q)
    /\ \A r \in WordRuns(q) : r[2] - r[1] < WordMax
    /\ Len(parse(q)) \in 1 .. GroupMax

pattern_build(groups) ==
    [k \in DOMAIN groups |->
        [text |-> groups[k], prefix |-> prefix_table(groups[k]),
         left |-> is_ascii_word(groups[k][1]),
         right |-> is_ascii_word(groups[k][Len(groups[k])])]]

-----------------------------------------------------------------------------
(* The ranking: the best ShownMax lines by score, then slot, then line.     *)

NoRank == [list |-> <<>>, total |-> 0, skipped |-> 0]

rank_better(c, d) ==
    \/ c.score > d.score
    \/ c.score = d.score /\ c.slot < d.slot
    \/ c.score = d.score /\ c.slot = d.slot /\ c.line < d.line

rank_add(rank, c) ==
    LET worse == {i \in DOMAIN rank.list : rank_better(c, rank.list[i])}
        at == IF worse = {} THEN Len(rank.list) + 1 ELSE Least(worse)
        list == SubSeq(rank.list, 1, at - 1) \o <<c>>
                \o SubSeq(rank.list, at, Len(rank.list))
    IN  [rank EXCEPT !.total = @ + 1,
            !.list = IF at > ShownMax THEN @ ELSE SubSeq(list, 1, Min2(ShownMax, Len(list)))]

-----------------------------------------------------------------------------
(* The streaming scan of one file.                                          *)

scan_start(pat, rank) ==
    [pos |-> 0, line |-> 1, counts |-> [k \in DOMAIN pat |-> 0],
     state |-> [k \in DOMAIN pat |-> 0], anchor |-> {}, active |-> FALSE,
     ring |-> [i \in 0 .. Ring - 1 |-> FALSE], pending |-> <<>>, rank |-> rank]

SumCounts(counts) ==
    LET upto[n \in 0 .. Len(counts)] == IF n = 0 THEN 0 ELSE upto[n - 1] + counts[n]
    IN  upto[Len(counts)]

scan_finalize(s, slot) ==
    IF \A k \in DOMAIN s.counts : s.counts[k] > 0
    THEN rank_add(s.rank, [slot |-> slot, line |-> s.line, anchor |-> Least(s.anchor),
                           score |-> SumCounts(s.counts)])
    ELSE s.rank

(* A full match counts when the bytes around it keep a word whole; the byte *)
(* before it is in the ring, the byte after it is the one looked ahead.     *)
scan_byte(pat, slot, s, b, next) ==
    LET ring == [s.ring EXCEPT ![s.pos % Ring] = is_ascii_word(b)]
        state == [k \in DOMAIN pat |->
                    next_state(pat[k].text, pat[k].prefix, s.state[k], ascii_fold(b))]
        start(k) == s.pos - Len(pat[k].text) + 1
        Full == {k \in DOMAIN pat : state[k] = Len(pat[k].text)}
        Hits == {k \in Full :
                    /\ ~(pat[k].left /\ start(k) > 0 /\ ring[(start(k) - 1) % Ring])
                    /\ ~(pat[k].right /\ next # Eof /\ is_ascii_word(next))}
        all == s.anchor \cup {start(k) : k \in Hits}
        t == [pos |-> s.pos + 1, line |-> s.line, active |-> TRUE, ring |-> ring,
              state |-> [k \in DOMAIN pat |->
                            after_match(pat[k].text, pat[k].prefix, state[k])],
              counts |-> [k \in DOMAIN pat |->
                            IF k \in Hits THEN Min2(s.counts[k] + 1, ScoreMax) ELSE s.counts[k]],
              anchor |-> IF all = {} THEN {} ELSE {Least(all)},
              pending |-> s.pending, rank |-> s.rank]
    IN  IF b # LF THEN t
        ELSE [t EXCEPT !.rank = scan_finalize(t, slot), !.line = @ + 1,
                       !.counts = [k \in DOMAIN pat |-> 0], !.anchor = {},
                       !.active = FALSE]

scan_chunk_alone(pat, slot, s, piece) ==      \* mutant: no byte is held back
    LET Next(n) == IF n < Len(piece) THEN piece[n + 1] ELSE Eof
        after[n \in 0 .. Len(piece)] ==
            IF n = 0 THEN s ELSE scan_byte(pat, slot, after[n - 1], piece[n], Next(n))
    IN  after[Len(piece)]

(* The last byte of a read waits for the first byte of the next one.        *)
scan_chunk(pat, slot, s, piece) ==
    LET run == s.pending \o piece
        after[n \in 0 .. Len(run) - 1] ==
            IF n = 0 THEN s ELSE scan_byte(pat, slot, after[n - 1], run[n], run[n + 1])
    IN  [after[Len(run) - 1] EXCEPT !.pending = <<run[Len(run)]>>]

scan_last(pat, slot, s) ==
    IF s.pending = <<>> THEN s ELSE scan_byte(pat, slot, s, s.pending[1], Eof)
scan_end(s, slot) == IF s.active THEN scan_finalize(s, slot) ELSE s.rank
scan_pieces(pat, rank, slot, pieces) ==
    LET upto[n \in 0 .. Len(pieces)] ==
            IF n = 0 THEN scan_start(pat, rank)
            ELSE scan_chunk(pat, slot, upto[n - 1], pieces[n])
    IN  upto[Len(pieces)]
scan_file(pat, rank, slot, bytes) ==
    IF preflight(bytes) THEN [rank EXCEPT !.skipped = @ + 1]
    ELSE scan_end(scan_last(pat, slot, scan_pieces(pat, rank, slot, Pieces(bytes))), slot)

-----------------------------------------------------------------------------
(* The linear backend.  The qualification of a filtered query marks each    *)
(* slot before anything is ranked.                                          *)

eligible(s) ==
    IF preflight(files[s]) THEN "INVALID" ELSE IF s \in filter THEN "ELIGIBLE" ELSE "TAG"

linear_visit(pat, rank, s) ==
    IF filter = NoFilter \/ eligible(s) = "ELIGIBLE"
    THEN scan_file(pat, rank, s, files[s])
    ELSE [rank EXCEPT !.skipped = @ + (IF eligible(s) = "INVALID" THEN 1 ELSE 0)]
linear_query(q) ==
    LET pat == pattern_build(parse(q))
        upto[s \in 0 .. Len(files)] ==
            IF s = 0 THEN NoRank ELSE linear_visit(pat, upto[s - 1], s)
    IN  upto[Len(files)]

-----------------------------------------------------------------------------
(* The literal search.  A line ends with LF or CRLF; whether a CR is        *)
(* content is settled by the byte after it.                                 *)

literal_ok(p) == Len(p) > 0 /\ \A i \in DOMAIN p : p[i] \notin {Nul, LF}

linear_start == [line |-> 1, start |-> 0, content |-> 0, kmp |-> 0, match |-> FALSE,
                 cr |-> FALSE, newline |-> FALSE, out |-> <<>>]
feed_content(s, b) ==
    LET table == prefix_table(pattern)
        q == next_state(pattern, table, s.kmp, b)
    IN  [s EXCEPT !.content = @ + 1, !.match = @ \/ q = Len(pattern),
                  !.kmp = after_match(pattern, table, q)]
end_line(s) ==
    IF ~s.match THEN s
    ELSE [s EXCEPT !.match = FALSE, !.out = Append(@, <<s.line, s.start, s.content>>)]
feed_byte(s, b, pos) ==
    IF s.cr /\ b = LF THEN [end_line([s EXCEPT !.cr = FALSE]) EXCEPT !.newline = TRUE]
    ELSE LET t == IF s.cr THEN feed_content([s EXCEPT !.cr = FALSE], CR) ELSE s
             u == IF t.newline
                  THEN [t EXCEPT !.line = @ + 1, !.start = pos, !.content = 0, !.kmp = 0,
                                 !.match = FALSE, !.newline = FALSE]
                  ELSE t
         IN  CASE b = CR -> [u EXCEPT !.cr = TRUE]
               [] b = LF -> [end_line(u) EXCEPT !.newline = TRUE]
               [] OTHER -> feed_content(u, b)
finish_eof_dropping(s) ==                     \* mutant: a last CR is forgotten
    IF s.newline \/ s.content = 0 THEN s ELSE end_line(s)
finish_eof(s) ==
    LET t == IF s.cr THEN feed_content([s EXCEPT !.cr = FALSE], CR) ELSE s
    IN  IF t.newline \/ t.content = 0 THEN t ELSE end_line(t)

(* The bytes of a match reach the sink in pieces, each read again from the  *)
(* file at the offset the match recorded.                                   *)
facade_stream(bytes, m) ==
    LET rest[offset \in 0 .. m[3]] ==
            LET next == Min2(offset + chunk, m[3])
            IN  IF offset = m[3] THEN <<>>
                ELSE SubSeq(bytes, m[2] + offset + 1, m[2] + next) \o rest[next]
    IN  rest[0]
linear_feed(bytes) ==
    LET after[n \in 0 .. Len(bytes)] ==
            IF n = 0 THEN linear_start ELSE feed_byte(after[n - 1], bytes[n], n - 1)
    IN  after[Len(bytes)]
literal_file(bytes) ==
    LET out == finish_eof(linear_feed(bytes)).out
    IN  IF \E i \in DOMAIN bytes : bytes[i] = Nul THEN <<>>
        ELSE [k \in DOMAIN out |-> <<out[k][1], facade_stream(bytes, out[k])>>]

-----------------------------------------------------------------------------
(* What the searches promise, read off the bytes.                           *)

WellFormed(s) ==          \* one scalar in its shortest form, no surrogate
    CASE Len(s) = 1 -> s[1] < 128
      [] Len(s) = 2 -> s[1] \in 194 .. 223 /\ s[2] \in 128 .. 191
      [] Len(s) = 3 -> /\ s[1] \in 224 .. 239 /\ s[3] \in 128 .. 191
                       /\ s[2] \in (CASE s[1] = 224 -> 160 .. 191
                                      [] s[1] = 237 -> 128 .. 159
                                      [] OTHER -> 128 .. 191)
      [] OTHER -> /\ s[1] \in 240 .. 244 /\ s[3] \in 128 .. 191 /\ s[4] \in 128 .. 191
                  /\ s[2] \in (CASE s[1] = 240 -> 144 .. 191
                                 [] s[1] = 244 -> 128 .. 143
                                 [] OTHER -> 128 .. 191)
IsText(bytes) ==
    /\ \A i \in DOMAIN bytes : bytes[i] # Nul
    /\ \A i \in DOMAIN bytes : \E j \in 1 .. i, k \in i .. Len(bytes) :
          k - j < 4 /\ WellFormed(SubSeq(bytes, j, k))

LineOf(bytes, i) == 1 + Cardinality({j \in 1 .. i - 1 : bytes[j] = LF})
WordAt(bytes, i) == i \in DOMAIN bytes /\ is_ascii_word(bytes[i])
Occurrences(g, bytes, line) ==     \* first offsets
    {i \in 0 .. Len(bytes) - Len(g) :
        /\ Fold(SubSeq(bytes, i + 1, i + Len(g))) = g /\ LineOf(bytes, i + 1) = line
        /\ is_ascii_word(g[1]) => ~WordAt(bytes, i)
        /\ is_ascii_word(g[Len(g)]) => ~WordAt(bytes, i + Len(g) + 1)}

(* The line of slot s, as it is to be ranked when every group occurs in it. *)
In(s, line, groups) == UNION {Occurrences(groups[k], files[s], line) : k \in DOMAIN groups}
RankedLine(s, line, groups) ==
    [slot |-> s, line |-> line, anchor |-> Least(In(s, line, groups)),
     score |-> SumCounts([k \in DOMAIN groups |->
                    Min2(Cardinality(Occurrences(groups[k], files[s], line)), ScoreMax)])]
MatchingLines(q) ==
    UNION {{RankedLine(s, line, parse(q)) :
              line \in {l \in 1 .. LineOf(files[s], Len(files[s]) + 1) :
                          \A k \in DOMAIN parse(q) :
                              Occurrences(parse(q)[k], files[s], l) # {}}} :
        s \in {r \in Slots : IsText(files[r]) /\ (filter = NoFilter \/ r \in filter)}}

(* The best of the lines, in their order, as many as are shown.             *)
IsRanking(rank, lines) ==
    LET list == rank.list
    IN  /\ rank.total = Cardinality(lines)
        /\ Len(list) = Min2(ShownMax, Cardinality(lines))
        /\ \A i \in 1 .. Len(list) : list[i] \in lines
        /\ \A i, j \in 1 .. Len(list) : i < j => rank_better(list[i], list[j])
        /\ \A c \in lines :
              (\A i \in 1 .. Len(list) : list[i] # c) =>
                  Len(list) = ShownMax /\ \A i \in 1 .. Len(list) : rank_better(list[i], c)

(* Where the content of the line that holds the byte at offset i ends.      *)
LineEnd(bytes, i) ==
    LET lfs == {j \in i + 1 .. Len(bytes) : bytes[j] = LF}
        lf == Least(lfs)
    IN  IF lfs = {} THEN Len(bytes)
        ELSE IF lf > 1 /\ bytes[lf - 1] = CR THEN lf - 2 ELSE lf - 1

Content(bytes, i) == SubSeq(bytes, i + 1, LineEnd(bytes, i))
Has(c) ==
    \E i \in 0 .. Len(c) - Len(pattern) : SubSeq(c, i + 1, i + Len(pattern)) = pattern
LiteralReference(bytes) ==
    {<<LineOf(bytes, i + 1), Content(bytes, i)>> :
        i \in {j \in 0 .. Len(bytes) - 1 :
                /\ j = 0 \/ bytes[j] = LF
                /\ Has(Content(bytes, j)) /\ \A k \in DOMAIN bytes : bytes[k] # Nul}}

-----------------------------------------------------------------------------
SearchInit ==
    /\ files \in Corpora
    /\ query = <<>> /\ pattern = <<>> /\ chunk = 1 /\ filter = NoFilter

Asked == query # <<>> \/ pattern # <<>>

SearchTerms ==            \* yan_search_terms, yan_search_terms_filtered
    /\ ~Asked
    /\ query' \in Queries /\ chunk' \in ChunkSizes /\ filter' \in Filters
    /\ UNCHANGED <<files, pattern>>

SearchLiteral ==          \* yan_search_query
    /\ ~Asked
    /\ pattern' \in Patterns /\ chunk' \in ChunkSizes
    /\ UNCHANGED <<files, query, filter>>

SearchNext == SearchTerms \/ SearchLiteral
SearchSpec == SearchInit /\ [][SearchNext]_vars

(* The streaming scan ranks exactly the lines in which every group occurs   *)
(* as a whole word, with the right score, anchor, total and skip count: no  *)
(* match is lost or gained where two reads meet, where matches overlap,     *)
(* where a scalar is split, or where the history ring wraps                 *)
(* (search_terms_core.c).                                                   *)
ScanIsReference ==
    parse_ok(query) =>
        /\ IsRanking(linear_query(query), MatchingLines(query))
        /\ linear_query(query).skipped = Cardinality({s \in Slots : ~IsText(files[s])})

(* The literal search reports exactly the lines whose content holds the     *)
(* pattern, from the first to the last, each with its number and its own    *)
(* bytes, for every mix of LF, CRLF, bare CR, empty lines and a last line   *)
(* without a terminator, and of a file with a NUL nothing                   *)
(* (search_linear.c).                                                       *)
LiteralIsReference ==
    literal_ok(pattern) =>
        \A s \in Slots :
            LET rows == literal_file(files[s])
            IN  /\ ToSet(rows) = LiteralReference(files[s])
                /\ \A k \in 1 .. Len(rows) - 1 : rows[k][1] < rows[k + 1][1]
=============================================================================
