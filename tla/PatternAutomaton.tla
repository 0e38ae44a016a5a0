-------------------------- MODULE PatternAutomaton --------------------------
(***************************************************************************)
(* The automaton with which both searches look for a pattern in a stream   *)
(* of bytes (Knuth, Morris and Pratt): os/search_linear.c has one for the  *)
(* literal pattern, os/search_terms_core.c one for each group of a query.  *)
(*                                                                         *)
(* Its state is how much of the pattern the bytes read so far end with;    *)
(* table[k] is how much of it the first k of its own bytes end with,       *)
(* themselves aside.                                                       *)
(***************************************************************************)
EXTENDS Integers, Sequences

(* One byte: fall back along the table until the byte continues a match.    *)
next_state(g, table, k, b) ==
    LET from[j \in 0 .. k] ==
            IF g[j + 1] = b THEN j + 1 ELSE IF j = 0 THEN 0 ELSE from[table[j]]
    IN  from[k]

(* A whole match goes on as the longest shorter one it ends with.           *)
after_match(g, table, k) == IF k = Len(g) THEN table[k] ELSE k

(* The table, filled from the left by running the automaton on the pattern. *)
prefix_table(g) ==
    LET upto[m \in 1 .. Len(g)] ==
            IF m = 1 THEN <<0>>
            ELSE LET table == upto[m - 1]
                 IN  Append(table, next_state(g, table, table[m - 1], g[m]))
    IN  upto[Len(g)]
=============================================================================
