----------------------------- MODULE LineEditor ------------------------------
(***************************************************************************)
(* What the guest's editor promises: a file is a sequence of lines, an     *)
(* editing session has one of its own, and the file becomes that sequence  *)
(* at one point, when it is saved, or never.  Outside a session anything   *)
(* may happen to the files.                                                *)
(***************************************************************************)
EXTENDS Integers, Sequences, SequencesExt

CONSTANTS Names, Texts, Numbers, Nothing   \* Nothing: no file has this name

VARIABLES
    book,   \* name -> the lines of the file, or Nothing
    open,   \* the file being edited, or ""
    doc     \* its lines

vars == <<book, open, doc>>

Init == open = "" /\ doc = <<>>

Line(text, eol) == [text |-> text, eol |-> eol]
Unterminated(d) == d # <<>> /\ d[Len(d)].eol = ""
Terminated(d) == IF Unterminated(d) THEN [d EXCEPT ![Len(d)].eol = "LF"] ELSE d

Edit(d) == open # "" /\ doc' = d /\ UNCHANGED <<book, open>>

Open(n) ==
    /\ open = "" /\ open' = n
    /\ doc' = IF book[n] = Nothing THEN <<>> ELSE book[n]
    /\ UNCHANGED book
AddLine(t) == Edit(Append(Terminated(doc), Line(t, "LF")))
(* A last line without an end that becomes empty is no line any more.       *)
ReplaceLine(k, t) ==
    /\ k \in DOMAIN doc
    /\ Edit(IF t = <<>> /\ doc[k].eol = "" THEN Front(doc)
            ELSE [doc EXCEPT ![k].text = t])
DeleteLine(k) == k \in DOMAIN doc /\ Edit(RemoveAt(doc, k))

Close == open # "" /\ open' = "" /\ doc' = <<>>
Save == book'[open] = doc /\ book' = [book EXCEPT ![open] = doc]
SaveAndClose == Close /\ Save
Discard == Close /\ UNCHANGED book
(* A save whose outcome nobody learns: the session never goes on.           *)
SaveUnknown == open # "" /\ UNCHANGED <<open, doc>> /\ Save
Outside == open = "" /\ UNCHANGED <<open, doc>>

Next ==
    \/ \E n \in Names : Open(n)
    \/ \E t \in Texts : AddLine(t) \/ \E k \in Numbers : ReplaceLine(k, t)
    \/ \E k \in Numbers : DeleteLine(k)
    \/ SaveAndClose \/ Discard \/ SaveUnknown \/ Outside

Spec == Init /\ [][Next]_vars
=============================================================================
