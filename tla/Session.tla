------------------------------- MODULE Session -------------------------------
(***************************************************************************)
(* The guest application (apps/yanfs_terminal/main.c): the startup, the    *)
(* loop of a prompt, a line and a command, the switch between shell and    *)
(* editor, and the verdict the host reads at the end.  The commands are in *)
(* Shell, Notes and Editor; the searches are in TermIndex.                 *)
(*                                                                         *)
(* A round has three steps: the prompt is printed, a line arrives and its  *)
(* command runs to the end, and the application judges the result.         *)
(***************************************************************************)
EXTENDS Notes

CONSTANTS
    InitialFiles,           \* the directories a session may start from
    NewTexts,               \* what create and write are given
    Changes,                \* what meta set, tag and link are given
    Filters,                \* the tag sets of meta list
    MaxSaves, MaxEdits      \* changing commands; openings and edits of a session

VARIABLES
    phase,     \* "boot", "prompt", "line", "ran" or "over"
    editing,   \* whether the lines go to the editor
    asked,     \* the command of this round
    code,      \* what the host is told at the end
    saves, edits

session == <<phase, editing, asked, code, saves, edits>>
vars == <<guest, editor, session>>

Init ==
    /\ files \in InitialFiles /\ disk = "unmounted" /\ wire = "open"
    /\ said = <<>> /\ verdict = "OK"
    /\ draft = <<>> /\ existing = FALSE /\ active = FALSE /\ ename = ""
    /\ phase = "boot" /\ editing = FALSE /\ asked = <<>> /\ code = ""
    /\ saves = 0 /\ edits = 0

-----------------------------------------------------------------------------
(* The application's own output and its end.                                *)

app_finish(reason) == phase' = "over" /\ code' = reason

(* A diagnostic only while the wire is whole; the end does not wait for it. *)
app_fail(reason, row) ==
    /\ IF wire = "open" THEN SayAfter(said, <<row>>, verdict)
       ELSE UNCHANGED <<said, verdict, wire>>
    /\ app_finish(reason)

(* A line that must get out: the session goes on only with all of it.       *)
app_write_or_fail(rows, next) ==
    /\ Say(rows, "OK")
    /\ IF wire' = "open" THEN phase' = next /\ code' = code ELSE app_finish("OUTPUT")

-----------------------------------------------------------------------------
(* Startup.                                                                 *)

Startup == <<"NO_CHANNEL", "MAX_COUNT", "SPAWN", "NO_TERMINAL", "ADAPTER",
             "PROBE", "ARENA", "MOUNT">>

(* A step that fails ends it all.  Without a terminal there is nobody to    *)
(* tell; a directory that cannot be read or mounted is named by its own     *)
(* error.                                                                   *)
StartFails ==
    /\ phase = "boot"
    /\ \E k \in DOMAIN Startup :
        CASE Startup[k] = "NO_TERMINAL" ->
                app_finish("NO_TERMINAL") /\ UNCHANGED <<said, verdict, wire, disk>>
          [] Startup[k] \in {"PROBE", "MOUNT"} ->
                /\ \E r \in {"CORRUPT", "IO"} : app_fail("MOUNT", Error(r))
                /\ disk' = IF Startup[k] = "MOUNT" THEN "faulted" ELSE disk
          [] OTHER -> app_fail(Startup[k], Error(Startup[k])) /\ UNCHANGED disk
    /\ UNCHANGED <<files, editor, editing, asked, saves, edits>>

Start ==
    /\ phase = "boot"
    /\ disk' = "mounted"
    /\ app_write_or_fail(<<<<"yanfs terminal">>>>, "prompt")
    /\ UNCHANGED <<files, editor, editing, asked, saves, edits>>

-----------------------------------------------------------------------------
(* The prompt, and the lines the reader does not pass on.                   *)

Prompt ==
    /\ phase = "prompt"
    /\ said' = <<>> /\ asked' = <<>> /\ verdict' = "OK"
    /\ \/ phase' = "line" /\ UNCHANGED <<wire, code>>
       \/ wire' = "lost" /\ app_finish("OUTPUT")
    /\ UNCHANGED <<files, disk, editor, editing, saves, edits>>

LineRefused ==
    /\ phase = "line"
    /\ \E token \in {"LINE_TOO_LONG", "INVALID_INPUT"} :
            app_write_or_fail(<<Error(token)>>, "prompt")
    /\ UNCHANGED <<files, disk, editor, editing, asked, saves, edits>>

(* The terminal went away, perhaps while a byte was echoed.                 *)
LineUnavailable ==
    /\ phase = "line"
    /\ app_fail("LINE_UNAVAILABLE", Error("LINE_UNAVAILABLE"))
    /\ UNCHANGED <<files, disk, editor, editing, asked, saves, edits>>

BareEnter ==
    /\ phase = "line" /\ ~editing
    /\ phase' = "prompt"
    /\ UNCHANGED <<guest, editor, editing, asked, code, saves, edits>>

-----------------------------------------------------------------------------
(* The commands.                                                            *)

(* One line for the shell, or for the editor, both of which look at the     *)
(* file system's state before anything else.                                *)
Typed(command) ==
    /\ phase = "line" /\ phase' = "ran" /\ asked' = command
    /\ UNCHANGED <<editing, code>>
ToShell(command) == ~editing /\ Typed(command) /\ UNCHANGED <<editor, edits>>
Reading(command) == ToShell(command) /\ UNCHANGED saves
Saving(command) == ToShell(command) /\ saves < MaxSaves /\ saves' = saves + 1
ToEditor(command) == editing /\ Typed(command)
Editing(command) ==
    ToEditor(command) /\ edits < MaxEdits /\ edits' = edits + 1 /\ UNCHANGED saves

Guarded(Command) ==
    IF Health = "OK" THEN Command
    ELSE finish_fs_error(Health) /\ UNCHANGED <<files, disk, editor>>

Ls == Reading(<<"ls">>) /\ Guarded(run_ls)
Stat == \E n \in Tokens : Reading(<<"stat", n>>) /\ Guarded(run_stat(n))
Cat == \E n \in Tokens : Reading(<<"cat", n>>) /\ Guarded(run_cat(n))
Create == \E n \in Tokens, t \in NewTexts :
    Saving(<<"create", n>>) /\ Guarded(run_create(n, t))
Rewrite == \E n \in Tokens, t \in NewTexts :
    Saving(<<"write", n>>) /\ Guarded(run_rewrite(n, t))
Rm == \E n \in Tokens : Saving(<<"rm", n>>) /\ Guarded(run_rm(n))
Mv == \E n, m \in Tokens : Saving(<<"mv", n, m>>) /\ Guarded(run_mv(n, m))
Cp == \E n, m \in Tokens : Saving(<<"cp", n, m>>) /\ Guarded(run_cp(n, m))
ShellBlank == Reading(<<"blank">>) /\ Guarded(shell_blank)
ShellRefused == \E token \in {"USAGE", "UNKNOWN_COMMAND"} :
    Reading(<<"refused">>) /\ Guarded(shell_refused(token))
Exit == Reading(<<"exit">>) /\ Guarded(run_exit)

(* The editor's hint is the application's own output.                       *)
Help ==
    /\ Reading(<<"help">>)
    /\ Guarded(run_help)
HelpLost ==
    /\ phase = "line" /\ ~editing
    /\ said' = <<>> /\ wire' = "lost" /\ app_finish("OUTPUT")
    /\ UNCHANGED <<files, disk, verdict, editor, editing, asked, saves, edits>>

MetaShow == \E n \in Tokens : Reading(<<"meta show", n>>) /\ Guarded(run_meta_show(n))
MetaChange == \E n \in Tokens, c \in Changes :
    Saving(<<"meta change", n, c>>) /\ Guarded(run_meta_change(n, c))
MetaList == \E f \in Filters : Reading(<<"meta list", f>>) /\ Guarded(run_meta_list(f))
Links == \E n \in Tokens : Reading(<<"links", n>>) /\ Guarded(run_links(n))
Backlinks == \E n \in Tokens : Reading(<<"backlinks", n>>) /\ Guarded(run_backlinks(n))
Related == \E n \in Tokens : Reading(<<"related", n>>) /\ Guarded(run_related(n))
BlockList == \E n \in Tokens : Reading(<<"block list", n>>) /\ Guarded(run_block_list(n))
BlockRefs == \E n \in Tokens : Reading(<<"block refs", n>>) /\ Guarded(run_block_refs(n))
BlockBacklinks == \E n \in Tokens, id \in Ids :
    Reading(<<"block backlinks", n, id>>) /\ Guarded(run_block_backlinks(n, id))
BlockShow == \E n \in Tokens, id \in Ids :
    Reading(<<"block show", n, id>>) /\ Guarded(run_block_show(n, id))

Edit == \E n \in Tokens :
    /\ ~editing /\ edits < MaxEdits /\ edits' = edits + 1 /\ UNCHANGED saves
    /\ Typed(<<"edit", n>>) /\ yan_editor_start(n)
EditUsage ==
    /\ phase = "line" /\ ~editing
    /\ app_write_or_fail(<<Error("USAGE")>>, "prompt")
    /\ UNCHANGED <<files, disk, editor, editing, asked, saves, edits>>

EditAppend == \E t \in Texts : Editing(<<"a", t>>) /\ Guarded(run_append(t))
EditReplace == \E k \in Numbers, t \in Texts :
    Editing(<<"r", k, t>>) /\ Guarded(run_replace(k, t))
EditDelete == \E k \in Numbers : Editing(<<"d", k>>) /\ Guarded(run_delete(k))
EditPrint == ToEditor(<<"p">>) /\ Guarded(run_print) /\ UNCHANGED <<saves, edits>>
EditWrite ==
    ToEditor(<<"w">>) /\ saves < MaxSaves /\ saves' = saves + 1 /\ UNCHANGED edits
    /\ Guarded(run_write)
EditQuit == ToEditor(<<"q">>) /\ Guarded(run_quit) /\ UNCHANGED <<saves, edits>>
EditBlank == ToEditor(<<"blank">>) /\ Guarded(edit_blank) /\ UNCHANGED <<saves, edits>>
EditRefused == \E token \in {"USAGE", "UNKNOWN_COMMAND"} :
    ToEditor(<<"refused">>) /\ Guarded(edit_refused(token)) /\ UNCHANGED <<saves, edits>>

-----------------------------------------------------------------------------
(* The application judges the command.                                      *)

Edited_ == editing \/ asked[1] = "edit"

GoesOn ==
    /\ phase = "ran" /\ verdict = "OK"
    /\ phase' = "prompt"
    /\ editing' = IF Edited_ THEN active ELSE editing
    /\ UNCHANGED <<guest, editor, asked, code, saves, edits>>

LeavesEditor ==
    /\ phase = "ran" /\ verdict = "EXIT" /\ editing
    /\ phase' = "prompt" /\ editing' = FALSE
    /\ UNCHANGED <<guest, editor, asked, code, saves, edits>>

(* The storage is given up first; only a last line that got out makes the   *)
(* end a good one.                                                          *)
LeavesShell ==
    /\ phase = "ran" /\ verdict = "EXIT" /\ ~editing
    /\ disk' = "unmounted"
    /\ SayAfter(said, <<<<"yanfs: exit">>>>, "EXIT")
    /\ app_finish(IF wire' = "open" THEN "1" ELSE "OUTPUT")
    /\ UNCHANGED <<files, editor, editing, asked, saves, edits>>

Fails ==
    /\ phase = "ran" /\ verdict = "FATAL"
    /\ LET reason == IF Edited_ THEN "EDITOR_FATAL" ELSE "SHELL_FATAL"
       IN  app_fail(reason, Error(reason))
    /\ UNCHANGED <<files, disk, editor, editing, asked, saves, edits>>

app_session == Start \/ StartFails \/ Prompt \/ LineRefused \/ LineUnavailable \/ BareEnter
Shell_ ==
    \/ Ls \/ Stat \/ Cat \/ Create \/ Rewrite \/ Rm \/ Mv \/ Cp
    \/ ShellBlank \/ ShellRefused \/ Exit \/ Help \/ HelpLost
Notes_ ==
    \/ MetaShow \/ MetaChange \/ MetaList \/ Links \/ Backlinks \/ Related
    \/ BlockList \/ BlockRefs \/ BlockBacklinks \/ BlockShow
Editor_ ==
    \/ Edit \/ EditUsage \/ EditAppend \/ EditReplace \/ EditDelete \/ EditPrint
    \/ EditWrite \/ EditQuit \/ EditBlank \/ EditRefused
Judge == GoesOn \/ LeavesEditor \/ LeavesShell \/ Fails
Over == phase = "over" /\ UNCHANGED vars

Next == app_session \/ Shell_ \/ Notes_ \/ Editor_ \/ Judge \/ Over

Spec == Init /\ [][Next]_vars

-----------------------------------------------------------------------------
(* Properties.                                                              *)

(* The application asks for another line only while the storage is mounted  *)
(* and every byte has got out, and it is in the mode the editor is in; it   *)
(* reports success only after giving the storage up and telling the user,   *)
(* and a fatal command only when the storage or the wire is really gone.    *)
EndingsAreTrue ==
    /\ phase \in {"prompt", "line"} =>
            disk = "mounted" /\ wire = "open" /\ editing = active
    /\ code = "1" =>
            disk = "unmounted" /\ wire = "open" /\ Last(said) = <<"yanfs: exit">>
    /\ code \in {"SHELL_FATAL", "EDITOR_FATAL"} => disk = "faulted" \/ wire = "lost"

(* While editing, the draft can be saved: w meets no refusal but the lack   *)
(* of room, and what it saves can be opened again and is text to the block  *)
(* commands, whose rule is another piece of code.                           *)
DraftIsSavable ==
    (active /\ phase = "line") =>
        LET outcomes == IF existing THEN yan_fs_replace(ename, draft)
                        ELSE yan_fs_create(ename, draft)
        IN  /\ {o.result : o \in outcomes} \subseteq {"OK", "IO", "NOSPACE", "DIRECTORY_FULL"}
            /\ Len(draft) <= Capacity /\ editor_text_valid(draft)
                /\ draft_is_valid(draft) /\ Eligibility(draft) = "OK"

(* meta changes one header: the body and every other file are what they     *)
(* were, and the new header says what was asked for, no more and no less.   *)
BodySurvives ==
    [][(asked' # asked /\ asked' # <<>> /\ asked'[1] = "meta change" /\ files' # files) =>
        \A s \in DOMAIN files :
            LET old == files[s].data
                new == files'[s].data
                Body(d) == SubSeq(d, parse_head(d).bytes + 1, Len(d))
            IN  /\ files'[s].name = files[s].name
                /\ files[s].name # asked'[2] => new = old
                /\ files[s].name = asked'[2] =>
                        /\ Body(new) = Body(old) /\ parse_head(new).result = "OK"
                        /\ parse_head(new).info = Applied(parse_head(old).info, asked'[3])]_vars

(* What a complete answer says, against the bytes on the medium: cat shows  *)
(* the file as one text although it is read in pieces, backlinks counts the *)
(* link lines above the first @end, the block commands count the places     *)
(* where the whole reference stands, and every line that is a marker opens  *)
(* a block that ends where the next one begins.                             *)
Declares(m, n) ==
    \E e \in DOMAIN Data(m) :
        /\ Data(m)[1] = "@note 1" /\ Data(m)[e] = "@end"
        /\ \A i \in 1 .. e - 1 : Data(m)[i] # "@end"
        /\ \E i \in 1 .. e - 1 : Data(m)[i] = Field("link", n)
ReferencesIn(n, targets) ==
    {i \in Head_(n).bytes + 1 .. Len(Data(n)) - 6 :
        \E t \in targets : SubSeq(Data(n), i, i + 6) = <<"[", "[", t[1], "#", t[2], "]", "]">>}
MarkersIn(n) ==
    {i \in Head_(n).bytes + 1 .. Len(Data(n)) :
        Data(n)[i] \in Markers /\ (i = 1 \/ Data(n)[i - 1] = "LF")}
AnswersAreTrue ==
    (phase = "ran" /\ said # <<>> /\ Last(said)[1] = "OK") =>
        LET n == asked[2]
            receipt == Last(said)
            Text(m) == draft_is_valid(Data(m))
            Where(m) == ReferencesIn(m, {<<n, asked[3]>>})
        IN  CASE asked[1] = "cat" -> said[1][2] = safe_text(Data(n))
              [] asked[1] = "backlinks" ->
                    receipt[3] = Cardinality({m \in ToSet(ListedNames) : Declares(m, n)})
              [] asked[1] = "block refs" ->
                    receipt[3] = Cardinality(ReferencesIn(n, Names \X Ids))
              [] asked[1] = "block backlinks" ->
                    receipt[3] = Cardinality(UNION {{m} \X Where(m) :
                                        m \in {x \in ToSet(ListedNames) : Text(x)}})
              [] asked[1] = "block list" ->
                    LET opens == {said[k][3].start : k \in 1 .. Len(said) - 1}
                    IN  /\ Cardinality(opens) = receipt[3]
                        /\ opens = {IF i = Len(Data(n)) THEN i
                                     ELSE IF Data(n)[i + 1] = "CR" THEN i + 2 ELSE i + 1 :
                                        i \in MarkersIn(n)}
                        /\ \A k \in 1 .. Len(said) - 2 :
                                Data(n)[said[k][3].end + 1] \in Markers
              [] OTHER -> TRUE

(* The editor is the line editor a user thinks of: its lines, one file at a *)
(* time, saved at one point or not at all.                                  *)
LineModel(d) ==
    LET lines == LinesOf(d)
        End(line) == CASE line.eol = 0 -> "" [] line.eol = 1 -> "LF" [] OTHER -> "CRLF"
    IN  [k \in DOMAIN lines |-> [text |-> Content(d, lines[k]), eol |-> End(lines[k])]]
NoFile == <<[text |-> <<>>, eol |-> "no file"]>>
Lines == INSTANCE LineEditor WITH
    Nothing <- NoFile,
    book <- [n \in Names |-> IF Exists(n) THEN LineModel(Data(n)) ELSE NoFile],
    open <- IF active THEN ename ELSE "",
    doc <- IF active THEN LineModel(draft) ELSE <<>>
EditorImplementsLines == Lines!Spec
=============================================================================
