------------------------------ MODULE YanFSAbs ------------------------------
(***************************************************************************)
(* What YanFS promises about the files on the medium.  `durable' is what    *)
(* the next mount will find: a set of files, or Damaged, an image that      *)
(* mount refuses.  A call that changes the directory has an intent, the     *)
(* files there will be when it succeeds; it takes effect completely or not  *)
(* at all, or it leaves an image that mount refuses, never a mixture.       *)
(***************************************************************************)
EXTENDS Integers

CONSTANTS Names, Sizes, Payloads, BlockSize

VARIABLES durable, intent, session

vars == <<durable, intent, session>>

(* An image, or an intent, is the set of its files, or absent.              *)
Some(f) == [some |-> TRUE, files |-> f]
Damaged == [some |-> FALSE, files |-> {}]
NoIntent == [some |-> FALSE, files |-> {}]
files == durable.files

blocks(length) ==
    (length \div BlockSize) + (IF length % BlockSize # 0 THEN 1 ELSE 0)

FileWith(n, length, bytes) ==
    [name |-> n, size |-> length,
     blocks |-> [i \in 0 .. (blocks(length) - 1) |-> <<bytes, i>>]]

Absent(n) == \A f \in files : f.name # n

(* What each call makes of the files.                                      *)
Created ==
    {files \cup {FileWith(n, length, bytes)} :
        n \in {m \in Names : Absent(m)}, length \in Sizes, bytes \in Payloads}
Replaced ==
    {(files \ {f}) \cup {FileWith(f.name, length, bytes)} :
        f \in files, length \in Sizes, bytes \in Payloads}
Removed == {files \ {f} : f \in files}
Renamed ==
    {(files \ {f}) \cup {[f EXCEPT !.name = n]} :
        f \in files, n \in {m \in Names : Absent(m)}}
Copied ==
    {files \cup {[f EXCEPT !.name = n]} :
        f \in files, n \in {m \in Names : Absent(m)}}

Init ==
    /\ intent = NoIntent
    /\ session = "down"

Begin ==
    /\ session = "up" /\ intent = NoIntent
    /\ \E f \in Created \cup Replaced \cup Removed \cup Renamed \cup Copied :
          intent' = Some(f)
    /\ UNCHANGED <<durable, session>>

(* A directory of several blocks is refused while its blocks disagree.     *)
Interrupt ==
    /\ intent # NoIntent
    /\ durable' = Damaged
    /\ UNCHANGED <<intent, session>>

Publish ==
    /\ intent # NoIntent
    /\ durable' = intent
    /\ intent' = NoIntent
    /\ UNCHANGED session

Fail ==
    /\ intent # NoIntent
    /\ durable' \in {durable, intent, Damaged}
    /\ intent' = NoIntent
    /\ session' = "failed"

(* Only an image that is not damaged is mounted.                           *)
Mount ==
    /\ session = "down" /\ durable # Damaged
    /\ session' = "up"
    /\ UNCHANGED <<durable, intent>>

MountFails ==
    /\ session = "down"
    /\ session' = "failed"
    /\ UNCHANGED <<durable, intent>>

ReadFails ==
    /\ session = "up" /\ intent = NoIntent
    /\ session' = "failed"
    /\ UNCHANGED <<durable, intent>>

(* unmount, or the end of the program in the middle of a call              *)
Leave ==
    /\ session' = "down"
    /\ intent' = NoIntent
    /\ UNCHANGED durable

Next ==
    \/ Begin \/ Interrupt \/ Publish \/ Fail
    \/ Mount \/ MountFails \/ ReadFails \/ Leave

Spec == Init /\ [][Next]_vars
=============================================================================
