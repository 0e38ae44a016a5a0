------------------------- MODULE MCYanFSAlgorithms -------------------------
(* Every directory of three arbitrary entries, legal or not, and every       *)
(* directory of five empty files with arbitrary names.                       *)
EXTENDS YanFSAlgorithms

SomeEntries ==
    {NoEntry}
    \cup {[name |-> n, size |-> 0, start |-> 0, count |-> 0] : n \in {1, 2}}
    \cup {[name |-> n, size |-> z, start |-> b, count |-> blocks_needed(z)] :
             n \in {1, 3}, z \in {1, 3}, b \in 0 .. Capacity}

MCDirectories ==
    {[s \in Slots |-> IF s < 3 THEN f[s] ELSE NoEntry] : f \in [0 .. 2 -> SomeEntries]}
    \cup {[s \in Slots |-> [NoEntry EXCEPT !.name = f[s]]] : f \in [Slots -> 0 .. 5]}

NoImages == {}
=============================================================================
