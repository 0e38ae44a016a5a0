------------------------------- MODULE MCYanFS -------------------------------
(* Small instances of YanFS.                                                 *)
EXTENDS YanFS

Formatted == [dir |-> EmptyDirectory, crc |-> EmptyDirectory]

(* Images that carry a CRC of their own but break one rule of the           *)
(* directory each: two files with one name, an extent inside the directory, *)
(* an extent past the end, two files that share a block, an unused slot     *)
(* that is not zero.                                                        *)
Lone(e) == [EmptyDirectory EXCEPT ![0] = e]
Pair(e, f) == [EmptyDirectory EXCEPT ![0] = e, ![1] = f]
File(n, z, b) == [name |-> n, size |-> z, start |-> b, count |-> blocks_needed(z)]
Broken ==
    {Pair(File(1, 0, 0), File(1, BlockSize, D)),
     Lone(File(1, BlockSize, D - 1)),
     Lone(File(1, 2 * BlockSize, Capacity - 1)),
     Pair(File(1, 2 * BlockSize, D), File(2, BlockSize, D + 1)),
     Lone([NoEntry EXCEPT !.size = 1])}
MCImages ==
    {Formatted,
     [dir |-> Lone(File(1, BlockSize, D + 1)), crc |-> Lone(File(1, BlockSize, D + 1))]}
    \cup {[dir |-> d, crc |-> d] : d \in Broken}

=============================================================================
