----------------------------- MODULE IndexSearch -----------------------------
(***************************************************************************)
(* What a term search does besides the scan of TextSearch: the index that  *)
(* answers a query instead of it (os/search_terms_index.c), and the        *)
(* snippets of the lines that were ranked, each read again around its      *)
(* anchor (os/search_terms_core.c, search_terms_linear.c).                 *)
(***************************************************************************)
EXTENDS TextSearch

CONSTANTS
    HeaderMax,                         \* 4096, the prefix a reader may hold
    KeyMax, PoolMax, PostingMax,       \* 8192, 262144, 65536
    SnippetLeft, SnippetTotal,         \* 40, 160 scalars
    WindowLeft, WindowRight            \* 255, 704 bytes

-----------------------------------------------------------------------------
(* The reader keeps the bytes of the last small file it visited, until a    *)
(* snippet of another file is wanted; a larger file leaves it empty.        *)
visited == {s \in Slots : filter = NoFilter \/ eligible(s) = "ELIGIBLE"}
prefix_after_scan ==
    LET last == CHOOSE s \in visited : \A r \in visited : r <= s
    IN  IF visited = {} \/ Len(files[last]) \notin 1 .. HeaderMax THEN {}
        ELSE {<<last, files[last]>>}
prefix_kept(prefix, slot) == prefix           \* mutant: never forgotten
prefix_for(prefix, slot) == {p \in prefix : p[1] = slot}

linear_read(prefix, slot, offset, size) ==
    LET bytes == IF \E p \in prefix : offset + size <= Len(p[2])
                 THEN (CHOOSE p \in prefix : TRUE)[2] ELSE files[slot]
    IN  SubSeq(bytes, offset + 1, Min2(offset + size, Len(bytes)))

-----------------------------------------------------------------------------
(* The snippet around an anchor: a window is read again, its torn first     *)
(* scalar dropped, and then at most SnippetLeft scalars before the anchor   *)
(* and SnippetTotal in all, inside the line.                                *)

snippet(prefix, slot, anchor) ==
    LET size == Len(files[slot])
        begin == anchor - Min2(anchor, WindowLeft)
        end == anchor + Min2(size - anchor, WindowRight)
        w == linear_read(prefix, slot, begin, end - begin)
        got == Len(w)
        rel == anchor - begin
        At(i) == w[i + 1]
        CrLf(i) == At(i) = CR /\ i + 1 < got /\ At(i + 1) = LF
        Need(i) == utf8_expected(SubSeq(w, i + 1, got))
        base == Least({i \in 0 .. rel : i = rel \/ At(i) \notin 128 .. 191})
        WidthLeft(i) ==
            CASE CrLf(i) -> 2
              [] Need(i) = 0 \/ i + Need(i) > rel -> 1
              [] OTHER -> Need(i)
        left[i \in 0 .. rel + 1] ==
            IF i >= rel THEN [starts |-> <<>>, broken |-> FALSE]
            ELSE LET rest == left[i + WidthLeft(i)]
                 IN  IF rest.broken THEN rest
                     ELSE IF At(i) = LF \/ CrLf(i) THEN [rest EXCEPT !.broken = TRUE]
                     ELSE [rest EXCEPT !.starts = <<i>> \o @]
        starts == left[base].starts
        leftCount == Min2(Len(starts), SnippetLeft)
        leftEdge == IF leftCount = 0 THEN rel ELSE starts[Len(starts) - leftCount + 1]
        StopsAt(i) == \/ i >= got
                      \/ At(i) = LF \/ CrLf(i)
                      \/ At(i) # CR /\ (Need(i) = 0 \/ i + Need(i) > got)
        right[i \in rel .. got] ==
            IF StopsAt(i) THEN <<>>
            ELSE LET n == i + (IF At(i) = CR THEN 1 ELSE Need(i)) IN <<n>> \o right[n]
        rightCount == Min2(Len(right[rel]), SnippetTotal - leftCount)
        rightEnd == IF rightCount = 0 THEN rel ELSE right[rel][rightCount]
        full == leftCount + rightCount = SnippetTotal
    IN  [body |-> SubSeq(w, leftEdge + 1, rightEnd), at |-> begin + leftEdge,
         left_truncated |-> Len(starts) > SnippetLeft,
         right_truncated |->
            IF full /\ rightEnd < got THEN ~(At(rightEnd) = LF \/ CrLf(rightEnd))
            ELSE rightEnd >= got /\ begin + rightEnd < size]

-----------------------------------------------------------------------------
(* The index: every complete ASCII word, folded, and every raw non-ASCII    *)
(* scalar is a key whose postings are in slot, then offset order.  A build  *)
(* that meets a limit publishes nothing.                                    *)

NoIndex == [keys |-> <<>>, pool |-> 0, postings |-> 0, skipped |-> 0, limit |-> FALSE]

add_posting(x, atom, posting) ==
    LET new == atom \notin DOMAIN x.keys
    IN  IF \/ x.limit
           \/ new /\ (Cardinality(DOMAIN x.keys) >= KeyMax \/ x.pool + Len(atom) > PoolMax)
           \/ x.postings >= PostingMax
        THEN [x EXCEPT !.limit = TRUE]
        ELSE [x EXCEPT
                !.keys = [a \in DOMAIN @ \cup {atom} |->
                    (IF a \in DOMAIN @ THEN @[a] ELSE <<>>)
                    \o (IF a = atom THEN <<posting>> ELSE <<>>)],
                !.pool = IF new THEN @ + Len(atom) ELSE @,
                !.postings = @ + 1]

(* t is the tokenizer: the index so far, the position and line, the word    *)
(* and the scalar being collected.                                          *)
FlushWordAtEnd(t, slot) ==                    \* mutant: posts where the word ends
    IF t.word = <<>> THEN t
    ELSE [t EXCEPT !.word = <<>>, !.x = add_posting(@, t.word, <<slot, t.line, t.pos>>)]
FlushWord(t, slot) ==
    IF t.word = <<>> THEN t
    ELSE [t EXCEPT !.word = <<>>,
            !.x = add_posting(@, t.word, <<slot, t.line, t.pos - Len(t.word)>>)]
index_byte(t, slot, b) ==
    LET u == FlushWord(t, slot)
        scalar == Append(u.scalar, b)
        full == utf8_expected(scalar) <= Len(scalar)
        next == IF is_ascii_word(b)
                THEN [t EXCEPT !.x.limit = @ \/ Len(t.word) >= WordMax,
                               !.word = Append(@, ascii_fold(b))]
                ELSE IF b < 128 THEN [u EXCEPT !.line = IF b = LF THEN @ + 1 ELSE @]
                ELSE IF ~full THEN [u EXCEPT !.scalar = scalar]
                ELSE [u EXCEPT !.scalar = <<>>,
                        !.x = add_posting(@, scalar, <<slot, u.line, u.pos + 1 - Len(scalar)>>)]
    IN  [next EXCEPT !.pos = @ + 1]
index_scan_file(x, slot, bytes) ==
    LET t == FoldLeft(LAMBDA u, b : index_byte(u, slot, b),
                      [x |-> x, pos |-> 0, line |-> 1, word |-> <<>>, scalar |-> <<>>], bytes)
    IN  FlushWord(t, slot).x
index_build ==
    FoldLeft(LAMBDA x, s : IF x.limit THEN x
                           ELSE IF preflight(files[s]) THEN [x EXCEPT !.skipped = @ + 1]
                           ELSE index_scan_file(x, s, files[s]),
             NoIndex, [s \in Slots |-> s])

(* The query in the same atoms.                                             *)
group_atoms(g) ==
    LET from[i \in 1 .. Len(g) + 1] ==
            IF i > Len(g) THEN <<>>
            ELSE LET n == IF is_ascii_word(g[i])
                          THEN CHOOSE r \in WordRuns(g) : r[1] = i /\
                                   \A q \in WordRuns(g) : q[1] = i => q[2] <= r[2]
                          ELSE <<i, i + utf8_expected(SubSeq(g, i, Len(g))) - 1>>
                 IN  <<SubSeq(g, n[1], n[2])>> \o from[n[2] + 1]
    IN  from[1]

Before(p, q) ==
    \/ p[1] < q[1]
    \/ p[1] = q[1] /\ p[2] < q[2]
    \/ p[1] = q[1] /\ p[2] = q[2] /\ p[3] < q[3]
Advance(list, c, key) ==
    Least({p \in c .. Len(list) + 1 : p = Len(list) + 1 \/ ~Before(list[p], key)})

(* One group in one line: the occurrences of its first atom drive, every    *)
(* later atom has a cursor of its own that only moves forward.              *)
group_in_line(keys, atoms, cursors, slot, line) ==
    LET first == Advance(keys[atoms[1]], cursors[1], <<slot, line, 0>>)
        InLine == {p \in first .. Len(keys[atoms[1]]) :
                      keys[atoms[1]][p][1] = slot /\ keys[atoms[1]][p][2] = line}
        Atom(w, i) ==
            IF ~w.whole THEN w
            ELSE LET list == keys[atoms[i]]
                     c == Advance(list, w.cursors[i], <<slot, line, w.end>>)
                 IN  [w EXCEPT !.cursors[i] = c, !.end = @ + Len(atoms[i]),
                               !.whole = c <= Len(list) /\ list[c] = <<slot, line, w.end>>]
        Occurrence(r, p) ==
            LET at == keys[atoms[1]][p][3]
                w == FoldLeft(Atom, [cursors |-> r.cursors, end |-> at + Len(atoms[1]),
                                     whole |-> TRUE], [i \in 1 .. Len(atoms) - 1 |-> i + 1])
            IN  [cursors |-> w.cursors,
                 count |-> IF w.whole THEN Min2(r.count + 1, ScoreMax) ELSE r.count,
                 starts |-> IF w.whole THEN r.starts \cup {at} ELSE r.starts]
        done == FoldLeft(Occurrence, [cursors |-> cursors, count |-> 0, starts |-> {}],
                         SetToSortSeq(InLine, <))
    IN  [done EXCEPT !.cursors[1] = first + Cardinality(InLine)]

(* Every group of the query must occur in the line; the first one that does *)
(* not ends the work on it.                                                 *)
eval_line(keys, groups, e, slot, line) ==
    LET Group(v, g) ==
            IF ~v.all THEN v
            ELSE LET r == group_in_line(keys, groups[g], v.cursors[g], slot, line)
                 IN  [cursors |-> [v.cursors EXCEPT ![g] = r.cursors], all |-> r.count > 0,
                      score |-> v.score + r.count, starts |-> v.starts \cup r.starts]
        v == FoldLeft(Group, [cursors |-> e.cursors, all |-> TRUE, score |-> 0, starts |-> {}],
                      [g \in DOMAIN groups |-> g])
    IN  [cursors |-> v.cursors,
         rank |-> IF v.all THEN rank_add(e.rank, [slot |-> slot, line |-> line,
                                    anchor |-> Least(v.starts), score |-> v.score])
                  ELSE e.rank]

index_ranked(x, groups) ==
    LET Atoms == UNION {ToSet(groups[g]) : g \in DOMAIN groups}
        anchor == CHOOSE a \in Atoms : \A b \in Atoms : Len(x.keys[a]) <= Len(x.keys[b])
        Lines == SelectSeq(x.keys[anchor],
                           LAMBDA p : filter = NoFilter \/ eligible(p[1]) = "ELIGIBLE")
        NewLine(k) == k = 1 \/ <<Lines[k][1], Lines[k][2]>> # <<Lines[k - 1][1], Lines[k - 1][2]>>
        start == [cursors |-> [g \in DOMAIN groups |-> [i \in DOMAIN groups[g] |-> 1]],
                  rank |-> NoRank]
        rank == IF ~(Atoms \subseteq DOMAIN x.keys) THEN NoRank
                ELSE FoldLeft(LAMBDA e, k :
                                  IF NewLine(k)
                                  THEN eval_line(x.keys, groups, e, Lines[k][1], Lines[k][2])
                                  ELSE e,
                              start, [k \in DOMAIN Lines |-> k]).rank
    IN  [rank EXCEPT !.skipped = IF filter = NoFilter THEN x.skipped
                                 ELSE Cardinality({s \in Slots : eligible(s) = "INVALID"})]
index_search(q) ==
    index_ranked(index_build, [g \in DOMAIN parse(q) |-> group_atoms(parse(q)[g])])

-----------------------------------------------------------------------------
(* What they promise.                                                       *)

(* Where the line that holds the byte at offset i starts.                   *)
LineStart(bytes, i) ==
    LET lfs == {j \in 1 .. i : bytes[j] = LF}
    IN  IF lfs = {} THEN 0 ELSE CHOOSE j \in lfs : \A k \in lfs : k <= j
Scalars(bytes) == Cardinality({i \in DOMAIN bytes : bytes[i] \notin 128 .. 191})

(* A query answered from the index gives the answer of the scan, line by    *)
(* line, unless the build met a limit and published nothing: the adjacency  *)
(* of the atoms and the forward-only cursors lose no occurrence             *)
(* (search_terms_index.c).                                                  *)
IndexEqualsScan ==
    parse_ok(query) /\ ~index_build.limit => index_search(query) = linear_query(query)

(* Every snippet of a ranked line is a run of whole scalars of that line    *)
(* around its anchor, from the file the line is in, and says truthfully     *)
(* whether the line goes on at either end, although only a window of the    *)
(* file is read and the reader may hold another file's bytes.               *)
SnippetOf(f, anchor, shown) ==
    LET to == shown.at + Len(shown.body)
    IN  /\ shown.body = SubSeq(f, shown.at + 1, to)
        /\ shown.at \in LineStart(f, anchor) .. anchor
        /\ to \in anchor + 1 .. LineEnd(f, anchor)
        /\ IsText(shown.body) /\ Scalars(shown.body) <= SnippetTotal
        /\ shown.left_truncated = (shown.at > LineStart(f, anchor))
        /\ shown.right_truncated = (to < LineEnd(f, anchor))
SnippetIsTrue ==
    parse_ok(query) =>
        \A c \in ToSet(linear_query(query).list) :
            SnippetOf(files[c.slot], c.anchor,
                      snippet(prefix_for(prefix_after_scan, c.slot), c.slot, c.anchor))
=============================================================================
