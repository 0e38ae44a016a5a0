------------------------------- MODULE Guest -------------------------------
(***************************************************************************)
(* What every command of the guest application stands on: the mounted file *)
(* system as its callers see it (os/yanfs.c, whose inside is in YanFS),    *)
(* the terminal's output sink, and the way a command reports.              *)
(*                                                                         *)
(* files is the directory in slot order.  A byte is a string: a printable  *)
(* word, "LF", "CR", "TAB", "ESC", "\\", or the hex digits of a byte above *)
(* 7F.  A printed line is a tuple whose first element says its kind; said  *)
(* holds the lines printed since the prompt, and wire is "lost" from the   *)
(* first refused byte on.                                                  *)
(***************************************************************************)
EXTENDS Integers, Sequences, FiniteSets, SequencesExt

CONSTANTS
    Names,     \* the legal file names
    BadName,   \* a token YanFS refuses as a name
    Space      \* bytes the data area holds

VARIABLES
    files,     \* slot -> [name, data]
    disk,      \* "mounted", "faulted" or "unmounted"
    wire,      \* "open" or "lost"
    said,      \* lines printed since the prompt
    verdict    \* what the command told the application: OK, EXIT or FATAL

guest == <<files, disk, wire, said, verdict>>

Free == [name |-> "", data |-> <<>>]
Tokens == Names \cup {BadName}

-----------------------------------------------------------------------------
(* The file system.  An operation answers a set of possible results.        *)

SlotsOf(n) == {s \in DOMAIN files : files[s].name = n}
Exists(n) == SlotsOf(n) # {}
SlotOf(n) == CHOOSE s \in SlotsOf(n) : TRUE
Data(n) == files[SlotOf(n)].data
Used == FoldLeft(LAMBDA total, f : total + Len(f.data), 0, files)
FirstFree == CHOOSE s \in SlotsOf("") : \A t \in SlotsOf("") : s <= t
Listed == SelectSeq(files, LAMBDA f : f # Free)

Health ==
    CASE disk = "faulted" -> "FAULTED"
      [] disk = "unmounted" -> "NOT_MOUNTED"
      [] OTHER -> "OK"
FsGuard(n) ==
    IF Health # "OK" THEN Health ELSE IF n = BadName THEN "INVALID" ELSE "OK"
yan_fs_stat(n) ==
    CASE FsGuard(n) # "OK" -> FsGuard(n)
      [] ~Exists(n) -> "NOT_FOUND"
      [] OTHER -> "OK"

(* A read of some bytes may meet a device error, which faults the instance. *)
Reads(bytes) == IF bytes = <<>> THEN {"OK"} ELSE {"OK", "IO"}

(* A commit is durable, or fails with the medium before or after it.        *)
Commit(new) ==
    {[result |-> "OK", files |-> new, disk |-> disk],
     [result |-> "IO", files |-> new, disk |-> "faulted"],
     [result |-> "IO", files |-> files, disk |-> "faulted"]}
Refused(result) == {[result |-> result, files |-> files, disk |-> disk]}

Room(bytes) == Used + Len(bytes) <= Space
Placed(n, bytes) ==
    CASE SlotsOf("") = {} -> Refused("DIRECTORY_FULL")
      [] ~Room(bytes) -> Refused("NOSPACE")
      [] OTHER -> Commit([files EXCEPT ![FirstFree] = [name |-> n, data |-> bytes]])

yan_fs_create(n, bytes) ==
    CASE FsGuard(n) # "OK" -> Refused(FsGuard(n))
      [] Exists(n) -> Refused("EXISTS")
      [] OTHER -> Placed(n, bytes)
yan_fs_replace(n, bytes) ==
    CASE yan_fs_stat(n) # "OK" -> Refused(yan_fs_stat(n))
      [] ~Room(bytes) -> Refused("NOSPACE")
      [] OTHER -> Commit([files EXCEPT ![SlotOf(n)].data = bytes])
yan_fs_remove(n) ==
    IF yan_fs_stat(n) # "OK" THEN Refused(yan_fs_stat(n))
    ELSE Commit([files EXCEPT ![SlotOf(n)] = Free])
FsGuardTwo(n, m) == IF FsGuard(m) # "OK" THEN FsGuard(m) ELSE yan_fs_stat(n)
yan_fs_rename(n, m) ==
    CASE FsGuardTwo(n, m) # "OK" -> Refused(FsGuardTwo(n, m))
      [] n = m -> Refused("OK")
      [] Exists(m) -> Refused("EXISTS")
      [] OTHER -> Commit([files EXCEPT ![SlotOf(n)].name = m])
yan_fs_copy(n, m) ==
    CASE FsGuardTwo(n, m) # "OK" -> Refused(FsGuardTwo(n, m))
      [] Exists(m) -> Refused("EXISTS")
      [] OTHER -> Placed(m, Data(n))

-----------------------------------------------------------------------------
(* The report of a command.                                                 *)

fs_error_is_fatal_but_io(result) ==
    result \in {"NOT_MOUNTED", "FAULTED", "PROTOCOL", "CORRUPT", "UNSUPPORTED"}
fs_error_is_fatal(result) ==
    result \in {"NOT_MOUNTED", "FAULTED", "IO", "PROTOCOL", "CORRUPT", "UNSUPPORTED"}

(* Prints the rows after those already out, or loses the wire in one of     *)
(* them; every later byte is refused then, and the command is fatal.        *)
SayAfter(out, rows, how) ==
    \/ said' = out \o rows /\ verdict' = how /\ wire' = wire
    \/ \E k \in 0 .. Len(rows) - 1 :
            said' = out \o SubSeq(rows, 1, k) /\ verdict' = "FATAL" /\ wire' = "lost"
Say(rows, how) == SayAfter(<<>>, rows, how)

Error(result) == <<"ERROR", result>>
Ok(command) == <<"OK", command>>

finish_fs_error(result) ==
    Say(<<Error(result)>>, IF fs_error_is_fatal(result) THEN "FATAL" ELSE "OK")
Own(token) == Say(<<Error(token)>>, "OK") /\ UNCHANGED <<files, disk>>

(* A command that is one call of the file system.                           *)
Performed(outcomes, command) ==
    \E o \in outcomes :
        /\ files' = o.files /\ disk' = o.disk
        /\ IF o.result = "OK" THEN Say(<<Ok(command)>>, "OK")
           ELSE finish_fs_error(o.result)

-----------------------------------------------------------------------------
(* Text.                                                                    *)

utf8_lead_length(b) ==
    CASE b \in {"C2", "C3"} -> 2
      [] b = "E0" -> 3
      [] OTHER -> 0
Continuation(b) == b \in {"80", "A0", "A9"}
IsAscii(b) == utf8_lead_length(b) = 0 /\ ~Continuation(b)
Control(b) == b \in {"LF", "CR", "TAB", "ESC"}
utf8_sequence_valid(s) == s[1] = "E0" => s[2] # "80"
C1(s) == s[1] = "C2" /\ s[2] = "80"

(* The length of the well-formed sequence at i, 0 when there is none.       *)
SequenceAt(s, i) ==
    LET need == utf8_lead_length(s[i])
    IN  IF /\ need # 0 /\ i + need - 1 <= Len(s)
           /\ \A j \in i + 1 .. i + need - 1 : Continuation(s[j])
           /\ utf8_sequence_valid(SubSeq(s, i, i + need - 1))
        THEN need ELSE 0

Hex(b) == "x" \o b
Escaped(s) == [i \in DOMAIN s |-> Hex(s[i])]
AsciiShown(b) ==
    IF b = "\\" THEN <<b, b>> ELSE IF Control(b) THEN <<Hex(b)>> ELSE <<b>>

=============================================================================
