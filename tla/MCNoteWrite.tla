---------------------------- MODULE MCNoteWrite ----------------------------
(* Two processes with tool calls and one guest; note m exists, note n does   *)
(* not.  A process' caller knows the first image's identity.                *)
EXTENDS NoteWrite, TLC

MCInitial == [n \in Names |-> IF n = "m" THEN "a" ELSE Absent]

Request(kind, name, text, replace, expects) ==
    [kind |-> kind, name |-> name, text |-> text, replace |-> replace,
     expects |-> expects]

MCRequests ==
    {Request("commit", "m", "b", TRUE, TRUE),
     Request("commit", "n", "a", FALSE, TRUE),
     Request("preview", "m", "a", TRUE, FALSE),
     Request("block", "m", "a", TRUE, FALSE),
     Request("block", "m", "a", TRUE, TRUE)}
MCMeta == {Request("meta", "m", "a", TRUE, TRUE)}

MCSymmetry == Permutations(Procs)
=============================================================================
