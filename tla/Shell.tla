------------------------------- MODULE Shell --------------------------------
(***************************************************************************)
(* The file commands of the guest's shell (os/shell.c): one action each,   *)
(* with the arguments already taken from the line.  The commands on notes  *)
(* are in Notes, the searches in TermIndex, and the grammar of the line is *)
(* the set of lines the application may hand over, with shell_refused for  *)
(* those no command takes.                                                 *)
(***************************************************************************)
EXTENDS Editor

CONSTANTS Chunk   \* bytes of one read of cat

-----------------------------------------------------------------------------
(* The display stream: a multibyte sequence is held back until it is        *)
(* complete, or until a byte shows that it never will be.                   *)

NoStream == [pending |-> <<>>, out |-> <<>>]

cat_flush(stream) ==
    [pending |-> <<>>, out |-> stream.out \o Escaped(stream.pending)]

cat_clean(stream, b) ==
    CASE IsAscii(b) -> [stream EXCEPT !.out = @ \o AsciiShown(b)]
      [] utf8_lead_length(b) # 0 -> [stream EXCEPT !.pending = <<b>>]
      [] OTHER -> [stream EXCEPT !.out = Append(@, Hex(b))]
cat_feed(stream, b) ==
    LET s == Append(stream.pending, b)
        plain == utf8_sequence_valid(s) /\ ~C1(s)
    IN  CASE stream.pending = <<>> -> cat_clean(stream, b)
          [] ~Continuation(b) -> cat_clean(cat_flush(stream), b)
          [] Len(s) < utf8_lead_length(s[1]) -> [stream EXCEPT !.pending = s]
          [] OTHER -> [pending |-> <<>>,
                       out |-> stream.out \o (IF plain THEN s ELSE Escaped(s))]

Displayed(bytes) == cat_flush(FoldLeft(cat_feed, NoStream, bytes)).out

-----------------------------------------------------------------------------
(* The file commands.                                                       *)

run_ls ==
    /\ Say([i \in DOMAIN Listed |-> <<"file", Listed[i].name, Len(Listed[i].data)>>]
             \o <<Ok("ls")>>, "OK")
    /\ UNCHANGED <<files, disk>>

run_stat(n) ==
    /\ IF yan_fs_stat(n) # "OK" THEN finish_fs_error(yan_fs_stat(n))
       ELSE Say(<<<<"file", n, Len(Data(n))>>, Ok("stat")>>, "OK")
    /\ UNCHANGED <<files, disk>>

(* What was shown before a failing read stays on the screen, with what was  *)
(* held back; the error has a line of its own.                              *)
run_cat(n) ==
    /\ UNCHANGED files
    /\ \/ /\ yan_fs_stat(n) # "OK"
          /\ finish_fs_error(yan_fs_stat(n)) /\ UNCHANGED disk
       \/ /\ yan_fs_stat(n) = "OK"
          /\ Say(<<<<"text", Displayed(Data(n))>>, Ok("cat")>>, "OK") /\ UNCHANGED disk
       \/ /\ yan_fs_stat(n) = "OK"
          /\ \E k \in 0 .. (Len(Data(n)) - 1) \div Chunk :
                LET shown == SubSeq(Data(n), 1, k * Chunk)
                    prefix == IF k = 0 THEN <<>> ELSE <<<<"text", Displayed(shown)>>>>
                IN  Data(n) # <<>> /\ SayAfter(prefix, <<Error("IO")>>, "FATAL")
          /\ disk' = "faulted"

run_create(n, text) == Performed(yan_fs_create(n, text), "create")
run_rewrite(n, text) == Performed(yan_fs_replace(n, text), "write")
run_rm(n) == Performed(yan_fs_remove(n), "rm")
run_mv(n, m) == Performed(yan_fs_rename(n, m), "mv")
run_cp(n, m) == Performed(yan_fs_copy(n, m), "cp")

run_help == Say(<<Ok("help")>>, "OK") /\ UNCHANGED <<files, disk>>
run_exit ==
    /\ Say(<<Ok("exit")>>, "EXIT")
    /\ UNCHANGED <<files, disk>>

shell_blank == Say(<<>>, "OK") /\ UNCHANGED <<files, disk>>
shell_refused(token) == Own(token)
=============================================================================
