------------------------------- MODULE Editor -------------------------------
(***************************************************************************)
(* The line editor of the guest (os/editor.c): a draft of raw bytes, its   *)
(* line model, the commands a, r, d, p, w and q, and the start of an       *)
(* editing session.  A refusal leaves the draft as it was; w saves the     *)
(* whole draft with one call of the file system.                           *)
(*                                                                         *)
(* The line reader passes on no line that is too long or holds a control   *)
(* byte, so the refusals of execute_busy for those cannot happen here.     *)
(* Health is checked before every command, the empty one included.         *)
(***************************************************************************)
EXTENDS Guest

CONSTANTS
    Capacity,  \* bytes of a draft
    Texts,     \* what is typed after a and r
    Numbers    \* the line numbers typed after r and d

VARIABLES draft, existing, active, ename

editor == <<draft, existing, active, ename>>

-----------------------------------------------------------------------------
(* What may be in a draft, and how it is displayed.                         *)

(* Legal text: ASCII at the places the rule allows, and well-formed          *)
(* sequences that are no C1 control.                                        *)
LegalText(s, allowed) ==
    LET f[i \in 1 .. Len(s) + 1] ==
            IF i > Len(s) THEN TRUE
            ELSE IF IsAscii(s[i]) THEN i \in allowed /\ f[i + 1]
            ELSE LET run == SequenceAt(s, i)
                 IN  run # 0 /\ ~C1(SubSeq(s, i, i + run - 1)) /\ f[i + run]
    IN  f[1]
text_is_valid(s) == LegalText(s, {i \in DOMAIN s : ~Control(s[i])})
draft_is_valid(s) ==
    LegalText(s, {i \in DOMAIN s :
        \/ ~Control(s[i]) \/ s[i] \in {"LF", "TAB"}
        \/ s[i] = "CR" /\ i < Len(s) /\ s[i + 1] = "LF"})

safe_text(s) ==
    LET f[i \in 1 .. Len(s) + 1] ==
            IF i > Len(s) THEN <<>>
            ELSE IF IsAscii(s[i]) THEN AsciiShown(s[i]) \o f[i + 1]
            ELSE LET run == SequenceAt(s, i)
                     bytes == SubSeq(s, i, i + run - 1)
                 IN  IF run = 0 THEN <<Hex(s[i])>> \o f[i + 1]
                     ELSE (IF C1(bytes) THEN Escaped(bytes) ELSE bytes) \o f[i + run]
    IN  f[1]

(* The lines of a draft: where the content starts, how long it is and how   *)
(* long its terminator is.                                                  *)
LinesOf(d) ==
    LET ends == SelectSeq([i \in DOMAIN d |-> i], LAMBDA i : d[i] = "LF")
        open == d # <<>> /\ d[Len(d)] # "LF"
        Start(k) == IF k = 1 THEN 1 ELSE ends[k - 1] + 1
        Eol(k) == CASE k > Len(ends) -> 0
                    [] ends[k] > Start(k) /\ d[ends[k] - 1] = "CR" -> 2
                    [] OTHER -> 1
        Stop(k) == IF k > Len(ends) THEN Len(d) + 1
                   ELSE IF Eol(k) = 2 THEN ends[k] - 1 ELSE ends[k]
    IN  [k \in 1 .. Len(ends) + (IF open THEN 1 ELSE 0) |->
            [start |-> Start(k), len |-> Stop(k) - Start(k), eol |-> Eol(k)]]
Content(d, line) == SubSeq(d, line.start, line.start + line.len - 1)

(* The direction that loses the bytes a longer line pushes down.            *)
draft_move_upward(d, source, destination, length) ==
    FoldLeft(LAMBDA a, i : [a EXCEPT ![destination + i - 1] = a[source + i - 1]], d,
             [i \in 1 .. length |-> i])
(* Moves length bytes inside the draft, in the direction that keeps the     *)
(* bytes still to be copied.                                                *)
draft_move(d, source, destination, length) ==
    LET Copy(a, i) == [a EXCEPT ![destination + i - 1] = a[source + i - 1]]
        upward == [i \in 1 .. length |-> i]
    IN  FoldLeft(Copy, d, IF destination < source THEN upward ELSE Reverse(upward))

(* The draft after the bytes from start to stop - 1 became text: the tail   *)
(* is moved first, then the text is written before it.                      *)
Spliced(d, start, stop, text) ==
    LET tail == Len(d) + 1 - stop
        room == [i \in 1 .. Capacity |-> IF i <= Len(d) THEN d[i] ELSE ""]
        moved == draft_move(room, stop, start + Len(text), tail)
        length == start - 1 + Len(text) + tail
    IN  [i \in 1 .. length |->
            IF i \in start .. start + Len(text) - 1 THEN text[i - start + 1] ELSE moved[i]]

-----------------------------------------------------------------------------
(* The commands.                                                            *)

Edited(d, command) ==
    draft' = d /\ Say(<<Ok(command)>>, "OK") /\ UNCHANGED <<files, disk>>

run_append(text) ==
    LET separator == draft # <<>> /\ draft[Len(draft)] # "LF"
        added == (IF separator THEN <<"LF">> ELSE <<>>) \o text \o <<"LF">>
        refusal == CASE Len(draft) + Len(added) > Capacity -> "TOO_LARGE"
                     [] ~text_is_valid(text) -> "INVALID_TEXT"
                     [] OTHER -> "OK"
    IN  /\ IF refusal # "OK" THEN Own(refusal) /\ UNCHANGED draft
           ELSE Edited(draft \o added, "a")
        /\ UNCHANGED <<existing, active, ename>>

run_replace(number, text) ==
    LET lines == LinesOf(draft)
        line == lines[number]
        refusal == CASE number \notin DOMAIN lines -> "OUT_OF_RANGE"
                     [] Len(draft) - line.len + Len(text) > Capacity -> "TOO_LARGE"
                     [] ~text_is_valid(text) -> "INVALID_TEXT"
                     [] OTHER -> "OK"
    IN  /\ IF refusal # "OK" THEN Own(refusal) /\ UNCHANGED draft
           ELSE Edited(Spliced(draft, line.start, line.start + line.len, text), "r")
        /\ UNCHANGED <<existing, active, ename>>

run_delete(number) ==
    LET lines == LinesOf(draft)
        line == lines[number]
    IN  /\ IF number \notin DOMAIN lines THEN Own("OUT_OF_RANGE") /\ UNCHANGED draft
           ELSE Edited(Spliced(draft, line.start, line.start + line.len + line.eol, <<>>), "d")
        /\ UNCHANGED <<existing, active, ename>>

Printed ==
    LET lines == LinesOf(draft)
    IN  [k \in DOMAIN lines |-> <<"line", k, safe_text(Content(draft, lines[k]))>>]
run_print ==
    /\ Say(Append(Printed, Ok("p")), "OK")
    /\ UNCHANGED <<files, disk, editor>>

(* The medium has changed before the session leaves editing, and a lost     *)
(* confirmation takes nothing back.                                         *)
run_write ==
    \E o \in IF existing THEN yan_fs_replace(ename, draft) ELSE yan_fs_create(ename, draft) :
        /\ files' = o.files /\ disk' = o.disk
        /\ active' = (o.result # "OK")
        /\ IF o.result = "OK" THEN Say(<<Ok("w")>>, "EXIT") ELSE finish_fs_error(o.result)
        /\ UNCHANGED <<draft, existing, ename>>

run_quit ==
    /\ active' = FALSE
    /\ Say(<<Ok("q")>>, "EXIT")
    /\ UNCHANGED <<files, disk, draft, existing, ename>>

(* Blank lines and the lines no command takes.                              *)
edit_blank == Say(<<>>, "OK") /\ UNCHANGED <<files, disk, editor>>
edit_refused(token) == Own(token) /\ UNCHANGED editor

-----------------------------------------------------------------------------
(* The start of a session.  The old draft is gone whatever happens next.    *)

Closed == draft' = <<>> /\ existing' = FALSE /\ active' = FALSE

Opened_stale(n, bytes, found) ==
    /\ draft' = bytes /\ existing' = (existing \/ found) /\ ename' = n
    /\ Say(<<Ok("edit")>>, "OK")
    /\ active' = (wire' = "open")
    /\ UNCHANGED <<files, disk>>
Opened(n, bytes, found) ==
    /\ draft' = bytes /\ existing' = found /\ ename' = n
    /\ Say(<<Ok("edit")>>, "OK")
    /\ active' = (wire' = "open")
    /\ UNCHANGED <<files, disk>>

yan_editor_start(n) ==
    \/ /\ yan_fs_stat(n) \notin {"OK", "NOT_FOUND"}
       /\ Closed /\ ename' = "" /\ finish_fs_error(yan_fs_stat(n)) /\ UNCHANGED <<files, disk>>
    \/ yan_fs_stat(n) = "NOT_FOUND" /\ Opened(n, <<>>, FALSE)
    \/ /\ yan_fs_stat(n) = "OK" /\ Len(Data(n)) > Capacity
       /\ Closed /\ ename' = "" /\ Own("TOO_LARGE")
    \/ /\ yan_fs_stat(n) = "OK" /\ Len(Data(n)) <= Capacity
       /\ \E result \in Reads(Data(n)) :
            \/ /\ result = "IO"
               /\ Closed /\ ename' = "" /\ finish_fs_error(result)
               /\ disk' = "faulted" /\ UNCHANGED files
            \/ result = "OK" /\ draft_is_valid(Data(n)) /\ Opened(n, Data(n), TRUE)
            \/ /\ result = "OK" /\ ~draft_is_valid(Data(n))
               /\ Closed /\ ename' = "" /\ Own("INVALID_TEXT")

=============================================================================
