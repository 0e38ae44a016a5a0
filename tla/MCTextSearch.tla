---------------------------- MODULE MCTextSearch ----------------------------
(* Small texts over the bytes that the searches tell apart.                 *)
EXTENDS IndexSearch

a == 97
b == 98
upperA == 65
space == 32
e1 == 195     \* lead byte of a two-byte scalar
e2 == 169     \* its continuation

Strings(S, n) == UNION {[1 .. k -> S] : k \in 0 .. n}

Short == {<<f>> : f \in Strings({a, b, space, LF, e1, e2}, 3)}
Ends == {<<f>> : f \in Strings({a, space, LF, CR}, 4)}
Odd == {<<f>> : f \in {
    <<Nul, a>>, <<a, Nul>>, <<upperA, space, a, LF, a>>,
    <<a, e1, e2, a, e1, e2, a>>, <<e1, e2, e1, e2, e1, e2, e1, e2>>,
    <<a, b, a, b, a, b, space, a, b>>, <<a, LF, LF, a, space, b, LF, b, space, a>>,
    <<226, 130, 172, a>>, <<224, 159, 191>>, <<237, 160, 128>>, <<a, 240, 159, 152, 128>>,
    <<240, 143, 191, 191>>, <<244, 144, 128, 128>>, <<192, 128>>, <<a, 226, 130>>,
    <<space, a, e1, e2, e1, e2, e1, e2, space, space, a, b, a, CR, LF, a>>,
    <<b, a, e1, e2>>, <<space, a, e1, e2>>,
    <<a, space, a, space, a, space, a, LF, a, space, a>>}}
Bodies == {<<a>>, <<b, LF, a>>, <<Nul>>, <<a, LF, a, space, b>>,
           <<a, space, e1, e2, e1, e2>>, <<a, b, space, a, space, a, b>>}
Pairs == Bodies \X Bodies
MCCorpora == Short \cup Ends \cup Odd \cup Pairs

MCQueries == {<<a>>, <<upperA, b>>, <<b, space, a>>, <<a, e1, e2>>, <<e1, e2, e1, e2>>,
              <<space, e1, e2, a>>, <<a, space, a>>, <<a, Tab, e1, e2, space>>, <<a, e1>>,
              <<a, a, a>>, <<space>>}
MCPatterns == {<<a>>, <<a, space>>, <<a, CR>>, <<a, a>>, <<LF>>}
=============================================================================
