------------------------------ MODULE MCSession ------------------------------
(* Small libraries in which every command has something to find, to refuse *)
(* and to trip over.                                                       *)
EXTENDS Session

MCNames == {"a", "b", "c"}
MCNameOrder == <<"a", "b", "c">>
MCTitles == {"\\"}

File(n, d) == [name |-> n, data |-> d]
Line(w) == Append(w, "LF")
Text(lines) == FlattenSeq([i \in DOMAIN lines |-> Line(lines[i])])
Ref(n, i) == <<"[", "[", n, "#", i, "]", "]">>
Header(fields) ==
    Text(<<<<"@note 1">>>> \o [i \in DOMAIN fields |-> <<fields[i]>>] \o <<<<"@end">>>>)

Plain == <<File("b", <<"x", "CR", "LF", "C3", "A9">>), Free, File("a", <<"\\", "TAB", "E0", "A0", "80", "LF">>)>>
Graph == <<
    File("c", Header(<<"tag: s", "link: a">>)),
    File("a", Header(<<"title: \\", "tag: s", "tag: t", "link: b">>) \o Text(<<<<"@block p">>, Ref("b", "q")>>)),
    File("b", <<"[">> \o Text(<<Ref("a", "p")>>) \o <<"@block q", "LF", "x">>)>>
Binary == <<
    File("b", Text(<<<<"@block p">>, <<"ESC", "C2", "80", "C3">>>>)),
    File("c", Header(<<"tag: s", "tag: s">>)),
    File("a", Text(<<Ref("b", "p"), Ref("c", "p")>>) \o <<"x", "CR">>)>>
Marks == <<
    File("a", Text(<<<<"@block p">>, <<"@block p">>>>)),
    File("b", Text(<<Ref("a", "p"), <<"@block">>>>)),
    File("c", Text(<<<<"@block p">>, <<"x", "CR">>, <<"@block q">>, <<"@block r">>>>))>>
MCInitialFiles == {Plain, Graph, Binary, Marks}

MCTexts == {<<>>, <<"x", "y">>, <<"C2", "80">>}
MCNewTexts == {<<"x">>}
Change(h, f, v) == [how |-> h, field |-> f, value |-> v]
MCChanges == {Change("set", "title", ""), Change("set", "created", "d"),
              Change("add", "tag", "u"), Change("del", "link", "b")}
MCFilters == {{}, {"s"}}
=============================================================================
