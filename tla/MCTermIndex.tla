----------------------------- MODULE MCTermIndex -----------------------------
(* Two slots and texts that match, that are skipped, that carry tags, that  *)
(* have a broken header, and that do not fit the index.                     *)
EXTENDS TermIndex

File(n, d) == [name |-> n, data |-> d]
Tagged == <<"@note 1", "LF", "tag: s", "LF", "@end", "LF", "x">>
Broken == <<"@note 2", "LF", "y">>
Binary == <<"x", "C3">>

MCNames == {"a", "b"}
MCNameOrder == <<"a", "b">>
MCInitialFiles == {
    <<File("b", <<"x", "LF", "y", "x">>), File("a", Tagged)>>,
    <<File("a", Binary), Free>>,
    <<File("a", Broken), File("b", Tagged)>>}
MCNewTexts == {<<"x", "z">>, Tagged}
MCQueries == {{"x"}, {"x", "y"}}
MCFilters == {{}, {"s"}}
=============================================================================
