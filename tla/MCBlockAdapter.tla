--------------------------- MODULE MCBlockAdapter ---------------------------
(***************************************************************************)
(* The YanFS block adapter over the smallest channel that serves it, where *)
(* a frame with its one block fills the ring, and with a single tag: every *)
(* request reuses the tag of the last.                                     *)
(***************************************************************************)
EXTENDS BlockAdapter

CONSTANTS a, b
=============================================================================
