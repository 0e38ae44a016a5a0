------------------------------ MODULE TermIndex ------------------------------
(***************************************************************************)
(* The term index as a cache: when it is built, published, trusted and     *)
(* thrown away (os/search_terms_index.c), the scan it falls back to and    *)
(* the tag qualification before both (os/search_terms_linear.c), the       *)
(* facade over them (os/search_terms.c), and the shell's search, grep,     *)
(* rebuild and index commands (os/shell.c).  What one lookup or one scan   *)
(* finds in given bytes is TextSearch's subject; here a posting is a word  *)
(* at an offset, and a row is a line that holds every word asked for.      *)
(*                                                                         *)
(* The storage changes identity with every commit, fault, mount and        *)
(* unmount; the index carries the identity it was built under.  Every step *)
(* of a query may meet a read error, and its caller may stop it at a row.  *)
(***************************************************************************)
EXTENDS Guest, NoteFormat

CONSTANTS
    InitialFiles, NewTexts,   \* the directories to start from, what is written
    Words,                    \* the bytes that are words
    Queries, Filters,         \* sets of words, sets of tags; {} is no filter
    KeyMax, PostingMax,       \* what the tables hold: 8192, 65536
    ShownMax,                 \* 20 rows
    TokenMax                  \* the last identity, 2^64 - 1

ASSUME TermAssumption ==
    TokenMax \in Nat \ {0} /\ KeyMax \in Nat /\ PostingMax \in Nat /\ ShownMax \in Nat
ASSUME FileAssumption ==
    /\ "" \notin Names
    /\ NewTexts \subseteq Seq(STRING)
    /\ \A d \in InitialFiles :
            /\ d \in Seq([name : Names \cup {""}, data : Seq(STRING)])
            /\ \A s, t \in DOMAIN d : d[s].name = d[t].name /\ d[s].name # "" => s = t
            /\ \A s \in DOMAIN d : d[s].name = "" => d[s] = Free

VARIABLES
    token,        \* the identity of the source, 0 when there are no more
    index,        \* state, identity, postings, names of the slots, skips
    table, armed, \* slot -> qualification; whether a query looks at it
    step,         \* where the command at hand is
    ask,          \* the search: words, filter
    rows, mode    \* the lines found and not yet shown, and by which path

cache == <<index, table, armed>>
query == <<step, ask, rows, mode>>
vars == <<guest, token, cache, query>>

-----------------------------------------------------------------------------
(* The source.                                                              *)

(* The ceiling that hands out its last identity again.                      *)
Renewed_stuck(t) == IF t = TokenMax THEN t ELSE t + 1
Renewed(t) == IF t \in {0, TokenMax} THEN 0 ELSE t + 1
source_identity_allocate == token' = Renewed(token)
cacheable == token # 0

fault_io == disk' = "faulted" /\ source_identity_allocate

-----------------------------------------------------------------------------
(* What files say.                                                          *)

(* A file that is not UTF-8 is skipped as a whole.                          *)
preflight(d) ==
    LET f[i \in 1 .. Len(d) + 1] ==
            IF i > Len(d) THEN TRUE
            ELSE IF IsAscii(d[i]) THEN f[i + 1]
            ELSE SequenceAt(d, i) # 0 /\ f[i + SequenceAt(d, i)]
    IN  f[1]

LineAt(d, i) == 1 + Cardinality({j \in 1 .. i - 1 : d[j] = "LF"})
PostingsOf(s) ==
    LET d == files[s].data
    IN  {[slot |-> s, line |-> LineAt(d, i), at |-> i, word |-> d[i]] :
            i \in {j \in DOMAIN d : d[j] \in Words}}
Taken == {s \in DOMAIN files : files[s] # Free}
Text == {s \in Taken : preflight(files[s].data)}

(* The lines that hold every word, most words first, then in the order of   *)
(* slots and lines.                                                         *)
Better(r, q) ==
    \/ r.score > q.score
    \/ r.score = q.score /\ r.slot < q.slot
    \/ r.score = q.score /\ r.slot = q.slot /\ r.line < q.line
LinesWith(postings, words) ==
    LET hits == {p \in postings : p.word \in words}
        Of(s, l) == {p \in hits : p.slot = s /\ p.line = l}
        full == {h \in {<<p.slot, p.line>> : p \in hits} :
                    words = {p.word : p \in Of(h[1], h[2])}}
        ranked == {[slot |-> h[1], line |-> h[2], score |-> Cardinality(Of(h[1], h[2])),
                    at |-> CHOOSE a \in {p.at : p \in Of(h[1], h[2])} :
                                \A p \in Of(h[1], h[2]) : a <= p.at] : h \in full}
    IN  [k \in 1 .. Cardinality(ranked) |->
            CHOOSE r \in ranked : Cardinality({q \in ranked : Better(q, r)}) = k - 1]

(* The line around an offset of a file, as it is on the medium now.         *)
snippet(d, at) ==
    SelectSeq([i \in DOMAIN d |-> <<LineAt(d, i), d[i]>>],
                  LAMBDA b : b[1] = LineAt(d, at) /\ b[2] # "LF")

-----------------------------------------------------------------------------
(* The index.                                                               *)

Empty(state) ==
    [state |-> state, valid |-> FALSE, token |-> 0, postings |-> {}, names |-> <<>>, skipped |-> 0]

(* The index of the directory as it is, whatever it takes.                  *)
Built ==
    [state |-> "READY", valid |-> TRUE, token |-> token,
     postings |-> UNION {PostingsOf(s) : s \in Text},
     names |-> [s \in DOMAIN files |-> files[s].name],
     skipped |-> Cardinality(Taken \ Text)]
Fits(x) ==
    /\ Cardinality({p.word : p \in x.postings}) <= KeyMax
    /\ Cardinality(x.postings) <= PostingMax

token_match_any == index.valid
token_match == index.valid /\ index.token = token

-----------------------------------------------------------------------------
(* The ends of a command, and what the shell prints.  A filter is disarmed  *)
(* with its query, however that ends.                                       *)

terms_error_is_fatal(result) ==
    result \in {"NOT_MOUNTED", "FAULTED", "IO", "PROTOCOL", "CORRUPT", "UNSUPPORTED"}

Nothing == [words |-> {}, filter |-> {}]
Idle ==
    step' = "idle" /\ ask' = Nothing /\ rows' = <<>> /\ mode' = "" /\ armed' = FALSE
finish_terms_error(result) ==
    /\ Idle /\ said' = Append(said, Error(result))
    /\ verdict' = IF terms_error_is_fatal(result) THEN "FATAL" ELSE "OK"
Finished(lines, how) == Idle /\ said' = lines /\ verdict' = how
Stored == UNCHANGED <<files, wire>>
Unread == UNCHANGED <<disk, token>>

(* A read that fails ends the command; the source has a new identity.       *)
ReadFails(S) ==
    /\ \E s \in S : files[s].data # <<>>
    /\ fault_io /\ finish_terms_error("IO")

Begin == step = "idle" /\ Stored
Guarded ==       \* the health guard of every command but index
    /\ Begin
    /\ disk # "mounted" => Finished(<<Error(Health)>>, "FATAL") /\ Unread /\ UNCHANGED <<index, table>>

-----------------------------------------------------------------------------
(* search.                                                                  *)

(* A scan counts the files it skips itself.                                 *)
skipped ==
    IF armed THEN Cardinality({s \in DOMAIN table : table[s] = "INVALID"})
    ELSE IF mode = "index" THEN index.skipped ELSE Cardinality(Taken \ Text)

run_search_terms ==
    \E words \in Queries, filter \in Filters :
        /\ Guarded
        /\ disk = "mounted" =>
                /\ ask' = [words |-> words, filter |-> filter]
                /\ step' = IF filter = {} THEN "decide" ELSE "qualify"
                /\ said' = <<>> /\ verdict' = "OK"
                /\ Unread /\ UNCHANGED <<cache, rows, mode>>

(* Every file is qualified in slot order, before any look at the index; the *)
(* first broken header ends the query and leaves the rest unqualified.      *)
BrokenSlots == {s \in Text : parse_head(files[s].data).result # "OK"}
linear_qualify_file(s) ==
    IF s \notin Text THEN "INVALID"
    ELSE IF ask.filter \subseteq ToSet(parse_head(files[s].data).info.tags) THEN "ELIGIBLE"
    ELSE "TAG"
QualifiedBefore(stop) ==
    [s \in DOMAIN files |-> IF s \in Taken /\ s < stop THEN linear_qualify_file(s) ELSE "TAG"]

Qualify ==
    /\ step = "qualify"
    /\ \/ /\ BrokenSlots = {}
          /\ table' = QualifiedBefore(Len(files) + 1) /\ armed' = TRUE /\ step' = "decide"
          /\ Unread /\ UNCHANGED <<said, verdict, ask, rows, mode>>
       \/ \E s \in BrokenSlots :
            /\ \A t \in BrokenSlots : s <= t
            /\ table' = QualifiedBefore(s) /\ finish_terms_error("METADATA") /\ Unread
       \/ \E s \in Taken :
            /\ \A t \in BrokenSlots : s <= t
            /\ table' = QualifiedBefore(s) /\ ReadFails({s})
    /\ Stored /\ UNCHANGED index

(* index_query_with_filter: which path answers.                             *)
Decide ==
    /\ step = "decide"
    /\ index' = IF cacheable THEN index ELSE Empty("UNCACHEABLE")
    /\ step' = CASE ~cacheable \/ index.state = "UNCACHEABLE" -> "scan"
                 [] cacheable /\ index.state = "READY" /\ token_match -> "lookup"
                 [] cacheable /\ index.state = "LIMIT" /\ token_match -> "scan"
                 [] OTHER -> "build"
    /\ Stored /\ Unread /\ UNCHANGED <<said, verdict, table, armed, ask, rows, mode>>

(* index_build_locked: the old index goes first, and only a whole new one   *)
(* is published.  A directory that does not fit leaves its identity behind, *)
(* so that the next query knows not to try again.                           *)
Publishes ==
    Fits(Built) /\ index' = Built /\ Unread
Overflows ==
    /\ ~Fits(Built) /\ Unread
    /\ index' = [Empty("LIMIT") EXCEPT !.valid = TRUE, !.token = token]
BuildFails ==
    /\ index' = Empty("EMPTY")
    /\ \E s \in Taken :
        /\ Fits([Built EXCEPT !.postings = {p \in @ : p.slot < s}])
        /\ ReadFails({s})

Build ==
    /\ step = "build"
    /\ \/ Publishes /\ step' = "lookup" /\ UNCHANGED <<said, verdict, rows, mode, armed, ask>>
       \/ Overflows /\ step' = "scan" /\ UNCHANGED <<said, verdict, rows, mode, armed, ask>>
       \/ BuildFails
    /\ Stored /\ UNCHANGED table

Passes(s) == armed => table[s] = "ELIGIBLE"
Show(postings, named, how) ==
    LET lines == LinesWith(postings, ask.words)
    IN  /\ rows' = [k \in DOMAIN lines |->
                        [name |-> named[lines[k].slot], line |-> lines[k].line, at |-> lines[k].at]]
        /\ mode' = how /\ step' = "show" /\ UNCHANGED <<said, verdict, armed, ask>>

(* The posting lists answer, but for slots the table does not let through.  *)
index_search_locked ==
    /\ step = "lookup"
    /\ Show({p \in index.postings : Passes(p.slot)}, index.names, "index")
    /\ Stored /\ Unread /\ UNCHANGED <<index, table>>

(* The files answer, each read once or twice.                               *)
linear_query_locked ==
    /\ step = "scan"
    /\ LET read == {s \in Taken : Passes(s)}
       IN  \/ /\ Show(UNION {PostingsOf(s) : s \in read \cap Text},
                       [s \in DOMAIN files |-> files[s].name], "scan")
              /\ Unread
           \/ ReadFails(read)
    /\ Stored /\ UNCHANGED <<index, table>>

shown == Len(said)
More == step = "show" /\ shown < Len(rows) /\ shown < ShownMax

(* A row goes out, with its text read again from the medium.                *)
search_match ==
    /\ More
    /\ \E result \in (IF Exists(rows[shown + 1].name) THEN {"OK", "IO"} ELSE {"NOT_FOUND"}) :
        LET row == rows[shown + 1]
        IN  CASE result = "OK" ->
                    /\ said' = Append(said, <<row.name, row.line, snippet(Data(row.name), row.at)>>)
                    /\ Unread /\ UNCHANGED <<step, verdict, rows, mode, armed, ask>>
              [] result = "IO" -> fault_io /\ finish_terms_error("IO")
              [] OTHER -> Unread /\ finish_terms_error("NOT_FOUND")
    /\ Stored /\ UNCHANGED <<index, table>>

(* The caller refuses a row: there is no summary, and the shell knows that  *)
(* its output is gone.                                                      *)
Stopped ==
    /\ More /\ Finished(said, "FATAL")
    /\ Stored /\ Unread /\ UNCHANGED <<index, table>>

Summary ==
    /\ step = "show" /\ ~More
    /\ Finished(Append(said, <<"OK", "search", Len(rows), shown, skipped, mode>>), "OK")
    /\ Stored /\ Unread /\ UNCHANGED <<index, table>>

-----------------------------------------------------------------------------
(* rebuild, index status, index clear and grep.                             *)

run_rebuild ==
    /\ Guarded
    /\ disk = "mounted" =>
        /\ UNCHANGED table
        /\ IF ~cacheable
           THEN index' = Empty("UNCACHEABLE") /\ Finished(<<Ok("rebuild")>>, "OK") /\ Unread
           ELSE \/ Publishes /\ Finished(<<Ok("rebuild")>>, "OK")
                \/ Overflows /\ Finished(<<Error("INDEX_LIMIT")>>, "OK")
                \/ BuildFails

(* What memory says of the index, without a look at the medium; legal       *)
(* whatever the source is.                                                  *)
index_status ==
    IF disk # "mounted" THEN "UNAVAILABLE"
    ELSE IF ~cacheable THEN "UNCACHEABLE"
    ELSE IF index.state \in {"READY", "LIMIT"} /\ ~token_match THEN "STALE"
    ELSE index.state
run_index_status ==
    LET counts == IF index_status # "READY" THEN <<0, 0>>
                  ELSE <<Cardinality({p.word : p \in index.postings}), Cardinality(index.postings)>>
    IN  /\ Begin
        /\ Finished(<<<<"INDEX", index_status, disk>> \o counts, Ok("index")>>, "OK")
        /\ Unread /\ UNCHANGED <<index, table>>
run_index_clear ==
    /\ Begin
    /\ index' = Empty("EMPTY")
    /\ Finished(<<Ok("index")>>, "OK") /\ Unread /\ UNCHANGED table

(* grep reads the files and nothing but the files: one with invalid UTF-8   *)
(* is searched too.  A read that fails ends it after some of its rows, and  *)
(* so does a row the caller refuses.                                        *)
run_grep ==
    \E word \in Words :
        LET lines == {h \in Taken \X (1 .. 4) :
                        \E p \in PostingsOf(h[1]) : p.line = h[2] /\ p.word = word}
            Before(h) == {g \in lines : g[1] < h[1] \/ (g[1] = h[1] /\ g[2] < h[2])}
            out == [k \in 1 .. Cardinality(lines) |->
                        LET h == CHOOSE g \in lines : Cardinality(Before(g)) = k - 1
                        IN  <<files[h[1]].name, h[2]>>]
        IN  /\ Guarded
            /\ disk = "mounted" =>
                /\ UNCHANGED <<index, table>>
                /\ \/ Finished(Append(out, Ok("grep")), "OK") /\ Unread
                   \/ \E k \in 0 .. Len(out) - 1 : Finished(SubSeq(out, 1, k), "FATAL") /\ Unread
                   \/ \E k \in 0 .. Len(out) :
                        /\ \E s \in Taken : files[s].data # <<>>
                        /\ Finished(Append(SubSeq(out, 1, k), Error("IO")), "FATAL") /\ fault_io

-----------------------------------------------------------------------------
(* The source changes between commands, and only then: a query borrows it.  *)

Changed(outcomes) ==
    /\ step = "idle"
    /\ \E o \in outcomes :
        /\ files' = o.files /\ disk' = o.disk
        /\ token' = IF o.result \in {"OK", "IO"} THEN Renewed(token) ELSE token
    /\ said' = <<>> /\ UNCHANGED <<wire, verdict, cache, query>>

CreateFile == \E n \in Names, d \in NewTexts : Changed(yan_fs_create(n, d))
ReplaceFile == \E n \in Names, d \in NewTexts : Changed(yan_fs_replace(n, d))
RemoveFile == \E n \in Names : Changed(yan_fs_remove(n))
RenameFile == \E n \in Names : \E m \in Names \ {n} : Changed(yan_fs_rename(n, m))

(* An unmount is legal in every state; a mount may meet a read error, which *)
(* faults the instance.  Each of the three is a new identity.               *)
Mounting(state) ==
    /\ step = "idle"
    /\ disk' = state /\ source_identity_allocate
    /\ said' = <<>> /\ UNCHANGED <<files, wire, verdict, cache, query>>
yan_fs_unmount == Mounting("unmounted")
yan_fs_mount == disk = "unmounted" /\ \E state \in {"mounted", "faulted"} : Mounting(state)

-----------------------------------------------------------------------------
Init ==
    /\ files \in InitialFiles /\ disk = "mounted" /\ wire = "open" /\ said = <<>> /\ verdict = "OK"
    /\ token = 1
    /\ index = Empty("EMPTY")
    /\ table = [s \in DOMAIN files |-> "TAG"] /\ armed = FALSE
    /\ step = "idle" /\ ask = Nothing
    /\ rows = <<>> /\ mode = ""

Searching ==
    Qualify \/ Decide \/ Build \/ index_search_locked \/ linear_query_locked
        \/ search_match \/ Stopped \/ Summary
Commands == run_search_terms \/ run_rebuild \/ run_index_status \/ run_index_clear \/ run_grep
Storage == CreateFile \/ ReplaceFile \/ RemoveFile \/ RenameFile \/ yan_fs_unmount \/ yan_fs_mount
Next == Searching \/ Commands \/ Storage
Spec == Init /\ [][Next]_vars

-----------------------------------------------------------------------------
(* What the files say now about the question at hand.                       *)
Eligible ==
    IF ask.filter = {} THEN Text
    ELSE {s \in Text : ask.filter \subseteq ToSet(parse_head(files[s].data).info.tags)}
RowsNow ==
    LET lines == LinesWith(UNION {PostingsOf(s) : s \in Eligible}, ask.words)
    IN  [k \in DOMAIN lines |->
            LET f == files[lines[k].slot] IN <<f.name, lines[k].line, snippet(f.data, lines[k].at)>>]
AnswerNow(how) ==
    LET most == IF Len(RowsNow) < ShownMax THEN Len(RowsNow) ELSE ShownMax
    IN  Append(SubSeq(RowsNow, 1, most),
               <<"OK", "search", Len(RowsNow), most, Cardinality(Taken \ Text), how>>)

(* A search that ends well printed exactly what the files say at that       *)
(* moment, by whichever path: no row of a file that was since replaced,     *)
(* removed or renamed, none that the filter of this or an earlier query     *)
(* kept out or let in, and never an answer over a broken header.  It says   *)
(* that the index answered only when the directory fits one                 *)
(* (os/search_terms_index.c, index_query_with_filter).                      *)
AnswersAreCurrent ==
    [][(step = "show" /\ step' = "idle" /\ verdict' = "OK") =>
        /\ said' = AnswerNow(mode)
        /\ mode = "index" => cacheable /\ Fits(Built)
        /\ ask.filter # {} => BrokenSlots = {}]_vars

(* Whenever the status command would call the index ready, it is the index  *)
(* of the files as they are, and whenever it would report the limit they    *)
(* still do not fit: an identity is never given to two contents of the      *)
(* source, not even when the identities run out (os/yanfs.c,                *)
(* source_identity_allocate).                                               *)
StatusIsCurrent ==
    /\ index_status = "READY" => index = Built
    /\ index_status = "LIMIT" => ~Fits(Built)
=============================================================================
