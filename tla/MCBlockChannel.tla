--------------------------- MODULE MCBlockChannel ---------------------------
(***************************************************************************)
(* A small channel for TLC: eight cells a ring, so that at most two blocks *)
(* fit a frame, two such frames never fit together, and from the last cell *)
(* a header crosses the wrap.                                              *)
(***************************************************************************)
EXTENDS BlockChannel

CONSTANTS a, b

Asked(op, tag, lba, data, count) ==
  [head |-> [op |-> op, status |-> "none", tag |-> tag, lba |-> lba, count |-> count],
   data |-> data]

\* One block and two, in range and out of range, and tags that repeat.
MCRequests ==
  { Asked("READ", 1, 0, <<>>, 2),
    Asked("WRITE", 0, 1, <<b>>, 1), Asked("WRITE", 1, 0, <<a, b>>, 2),
    Asked("WRITE", 0, 1, <<b, a>>, 2),
    Asked("CAPACITY", 1, 0, <<>>, 0), Asked("CAPACITY", 0, 1, <<>>, 0) }
=============================================================================
