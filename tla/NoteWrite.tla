------------------------------ MODULE NoteWrite ------------------------------
(***************************************************************************)
(* One image file on the host and everybody who opens it: the note tools    *)
(* that replace it by an edited copy, the read-only tools that take no      *)
(* lock, and the emulator, whose guest rewrites it in place.  The image is  *)
(* an inode; `current' is the inode its path names, and rename moves the    *)
(* path.  The identity of an image (SHA-256 over its files) is its contents.*)
(***************************************************************************)
EXTENDS Integers, FiniteSets

CONSTANTS
    Procs,        \* processes that serve note, block and meta tool calls
    Inodes,       \* inodes there is room for in the image's directory
    Names, Texts, \* names and texts of notes
    Initial,      \* the notes of the first image
    Requests,     \* the tool calls to choose from
    TwoBlocks,    \* does a directory change of the guest take two writes?
    MaxCalls,     \* tool calls of all processes together
    MaxEdits,     \* calls of the guest's file system that change the image
    MaxFaults     \* failed host calls, killed processes and power losses

Absent == "absent"
Contents == [Names -> Texts \cup {Absent}]
Torn == [n \in Names |-> "torn"]     \* an image that mount refuses
NoImage == [n \in Names |-> "none"]

ASSUME NoteAssumption ==
    /\ IsFiniteSet(Procs) /\ IsFiniteSet(Inodes) /\ Inodes \subseteq Nat
    /\ "guest" \notin Procs     \* so the emulator is no process of a tool
    /\ 0 \in Inodes /\ Names # {}
    /\ {Absent, "torn", "none"} \cap Texts = {}
    /\ Initial \in Contents /\ TwoBlocks \in BOOLEAN
    /\ Requests \subseteq [kind : {"commit", "preview", "block", "meta"},
                            name : Names, text : Texts, replace : BOOLEAN,
                            expects : BOOLEAN]
    /\ \A r \in Requests : r.kind = "commit" => r.expects
    /\ {MaxCalls, MaxEdits, MaxFaults} \subseteq Nat

VARIABLES
    disk,   \* the inodes, the path, and what a power loss may leave of them
    lock,   \* holders of the side lock, exclusive and shared
    call,   \* the tool call each process is in
    known,  \* the identity each process' caller was told last
    reply,  \* the reply given in the last step, if one was
    guest,  \* the emulator: its lock, its descriptor and the change it makes
    left,   \* calls, edits and faults still to come
    acked,  \* the image of the last acknowledged write, until the next change
    dirty   \* inodes a guest wrote in place

vars == <<disk, lock, call, known, reply, guest, left, acked, dirty>>

Closed == -1       \* of a descriptor
Idle == [kind |-> "none", at |-> "idle", replace |-> FALSE, name |-> Absent,
         text |-> Absent, expected |-> NoImage, fd |-> Closed, temp |-> Closed,
         view |-> NoImage, freed |-> {}, before |-> NoImage, answer |-> Absent,
         committed |-> FALSE, moved |-> 0]

NoReply == [result |-> "none", source |-> NoImage, committed |-> FALSE]

Off == [at |-> "off", fd |-> Closed, next |-> NoImage, name |-> Absent]

Init ==
    /\ disk = [file |-> [i \in Inodes |-> IF i = 0 THEN Initial ELSE NoImage],
               current |-> 0, mayName |-> {0}, synced |-> {0}]
    /\ lock = [ex |-> {}, sh |-> {}]
    /\ call = [p \in Procs |-> Idle]
    /\ known = [p \in Procs |-> Initial]
    /\ reply = NoReply
    /\ guest = Off
    /\ left = [calls |-> MaxCalls, edits |-> MaxEdits, faults |-> MaxFaults]
    /\ acked = NoImage
    /\ dirty = {}

image == disk.file[disk.current]

(* mutant: a second exclusive lock is granted                               *)
ExclusiveIgnored(exclusive) == exclusive => lock.sh = {}

(* yan_image_lock: flock without waiting.  A refused lock is the answer     *)
(* BUSY, which changes nothing.                                            *)
CanLock(exclusive) == lock.ex = {} /\ (exclusive => lock.sh = {})
Locked(p, exclusive) ==
    IF exclusive THEN [lock EXCEPT !.ex = @ \cup {p}]
    ELSE [lock EXCEPT !.sh = @ \cup {p}]
Unlocked(p) == [ex |-> lock.ex \ {p}, sh |-> lock.sh \ {p}]

At(p, place) == call[p].at = place
Writing(p) == call[p].kind = "commit"
GoTo(p, place) == call' = [call EXCEPT ![p].at = place]

(* The end of a call: descriptors closed, the lock released last, the reply *)
(* given; the caller remembers the identity it is told.                     *)
Reply(p, result, source) ==
    /\ call' = [call EXCEPT ![p] = Idle]
    /\ lock' = Unlocked(p)
    /\ known' = [known EXCEPT ![p] = IF result = "OK" THEN source ELSE @]
    /\ reply' = [result |-> result, source |-> source,
                 committed |-> call[p].committed]
Silent == reply' = NoReply
-----------------------------------------------------------------------------
(* A call begins: a commit takes the exclusive lock and carries an expected *)
(* identity, a preview takes the shared one, a query takes none.           *)
NoLock == {"block", "meta"}

BeginCall(p) ==
    /\ At(p, "idle") /\ left.calls > 0
    /\ \E r \in Requests :
          /\ lock' = IF r.kind \in NoLock THEN lock
                     ELSE Locked(p, r.kind = "commit")
          /\ r.kind \notin NoLock => CanLock(r.kind = "commit")
          /\ call' = [call EXCEPT ![p] =
                [Idle EXCEPT !.kind = r.kind, !.at = "open", !.name = r.name,
                    !.text = r.text, !.replace = r.replace,
                    !.expected = IF r.expects THEN known[p] ELSE NoImage]]
    /\ left' = [left EXCEPT !.calls = @ - 1]
    /\ Silent
    /\ UNCHANGED <<disk, known, guest, acked, dirty>>

(* open(2): from here on the call reads the inode, whatever the path names.  *)
(* A change of the guest that is under way is the first the call meets.     *)
Changing == guest.at \in {"commit", "half"}
OpenImage(p) ==
    /\ At(p, "open")
    /\ call' = [call EXCEPT ![p].at = "mount", ![p].fd = disk.current,
                            ![p].moved = IF Changing THEN 1 ELSE 0]
    /\ Silent
    /\ UNCHANGED <<disk, lock, known, guest, left, acked, dirty>>

(* Mounting reads the directory; what the call reads afterwards, it reads    *)
(* through that copy of the directory.                                      *)
Mounted(p, place) ==
    [call EXCEPT ![p].at = place, ![p].freed = {},
                 ![p].view = disk.file[call[p].fd]]

MountImage(p) ==
    /\ \/ At(p, "mount") /\ call' = Mounted(p, "before")
       \/ At(p, "remount") /\ call' = Mounted(p, "after")
       \/ At(p, "reopen")
          /\ call' = [Mounted(p, "after") EXCEPT ![p].fd = disk.current,
                                                  ![p].view = image]
    /\ call'[p].view # Torn
    /\ Silent
    /\ UNCHANGED <<disk, lock, known, guest, left, acked, dirty>>

MountCorrupt(p) ==
    /\ call[p].at \in {"mount", "remount"} /\ disk.file[call[p].fd] = Torn
    /\ Reply(p, "CORRUPT", NoImage)
    /\ UNCHANGED <<disk, guest, left, acked, dirty>>
-----------------------------------------------------------------------------
(* yan_mcp_note_execute up to the write: the first condition that holds     *)
(* decides.                                                                 *)
Exists(p) == call[p].view[call[p].name] # Absent
Same(p) == Writing(p) /\ call[p].view[call[p].name] = call[p].text
Stale(p) == call[p].expected # NoImage /\ call[p].expected # call[p].view

Judge(p) ==
    /\ At(p, "before") /\ call[p].kind \in {"commit", "preview"}
    /\ IF Same(p) THEN Reply(p, "OK", call[p].view)
       ELSE IF Stale(p) THEN Reply(p, "STALE", NoImage)
       ELSE IF Exists(p) # call[p].replace
            THEN Reply(p, IF Exists(p) THEN "EXISTS" ELSE "NOT_FOUND", NoImage)
       ELSE IF Writing(p)
            THEN /\ call' = [call EXCEPT ![p].at = "copy",
                                         ![p].before = call[p].view]
                 /\ UNCHANGED <<lock, known>> /\ Silent
       ELSE Reply(p, "OK", call[p].view)
    /\ UNCHANGED <<disk, guest, left, acked, dirty>>

(* write_image.  The copy is made in a new inode that nobody else opens,     *)
(* edited there by YanFS, brought to the medium and only then given the     *)
(* image's name.                                                            *)
InUse == {disk.current} \cup disk.mayName \cup
         {call[p].fd : p \in Procs} \cup {call[p].temp : p \in Procs} \cup
         {guest.fd}
FreeInodes == Inodes \ InUse

Edited(p, contents) == [contents EXCEPT ![call[p].name] = call[p].text]

CopyImage(p) ==
    /\ At(p, "copy")
    /\ \E i \in FreeInodes :
          /\ \A j \in FreeInodes : i <= j
          /\ disk' = [disk EXCEPT !.file[i] = Edited(p, image),
                                  !.synced = @ \ {i}]
          /\ call' = [call EXCEPT ![p].at = "sync", ![p].temp = i,
                                  ![p].fd = disk.current]
          /\ dirty' = dirty \ {i}
    /\ Silent
    /\ UNCHANGED <<lock, known, guest, left, acked>>

(* mutant: renamed without fsync                                            *)
SyncNothing(p) ==
    /\ At(p, "sync")
    /\ GoTo(p, "rename")
    /\ Silent
    /\ UNCHANGED <<disk, lock, known, guest, left, acked, dirty>>

SyncCopy(p) ==
    /\ At(p, "sync")
    /\ disk' = [disk EXCEPT !.synced = @ \cup {call[p].temp}]
    /\ GoTo(p, "rename")
    /\ Silent
    /\ UNCHANGED <<lock, known, guest, left, acked, dirty>>

(* mutant: the rename does not count as the commit yet                      *)
RenameUntold(p) ==
    /\ At(p, "rename")
    /\ disk' = [disk EXCEPT !.current = call[p].temp,
                            !.mayName = @ \cup {call[p].temp}]
    /\ GoTo(p, "parent")
    /\ acked' = NoImage
    /\ Silent
    /\ UNCHANGED <<lock, known, guest, left, dirty>>

RenameOver(p) ==
    /\ At(p, "rename")
    /\ disk' = [disk EXCEPT !.current = call[p].temp,
                            !.mayName = @ \cup {call[p].temp}]
    /\ call' = [call EXCEPT ![p].at = "parent", ![p].committed = TRUE]
    /\ acked' = NoImage
    /\ Silent
    /\ UNCHANGED <<lock, known, guest, left, dirty>>

(* mutant: the directory is not synced                                      *)
ParentForgotten(p) ==
    /\ At(p, "parent")
    /\ GoTo(p, "reopen")
    /\ Silent
    /\ UNCHANGED <<disk, lock, known, guest, left, acked, dirty>>

SyncParent(p) ==
    /\ At(p, "parent")
    /\ disk' = [disk EXCEPT !.mayName = {disk.current}]
    /\ GoTo(p, "reopen")
    /\ Silent
    /\ UNCHANGED <<lock, known, guest, left, acked, dirty>>

Acknowledge(p) ==
    /\ At(p, "after") /\ Writing(p)
    /\ Reply(p, "OK", call[p].view)
    /\ acked' = call[p].view
    /\ UNCHANGED <<disk, guest, left, dirty>>
-----------------------------------------------------------------------------
(* The read-only tools look twice: the identity before the note is read and  *)
(* after.  A block query mounts again for the second look; a meta query goes*)
(* on reading through the directory it mounted first.                       *)
Asking(p) == call[p].kind \in NoLock

ObserveBefore(p) ==
    /\ At(p, "before") /\ Asking(p)
    /\ IF Stale(p) THEN Reply(p, "STALE", NoImage)
       ELSE /\ call' = [call EXCEPT ![p].at = "read",
                                    ![p].before = call[p].view]
            /\ UNCHANGED <<lock, known>> /\ Silent
    /\ UNCHANGED <<disk, guest, left, acked, dirty>>

SecondLook(kind) == IF kind = "block" THEN "remount" ELSE "after"

ReadNote(p) ==
    /\ At(p, "read")
    /\ IF Exists(p)
       THEN /\ call' = [call EXCEPT ![p].at = SecondLook(call[p].kind),
                            ![p].answer = call[p].view[call[p].name]]
            /\ UNCHANGED <<lock, known>> /\ Silent
       ELSE Reply(p, "NOT_FOUND", NoImage)
    /\ UNCHANGED <<disk, guest, left, acked, dirty>>

(* mutant: the second look is not compared                                  *)
NeverMoved(p) == FALSE
Moved(p) == call[p].before # call[p].view

CompareAfter(p) ==
    /\ At(p, "after") /\ Asking(p)
    /\ IF Moved(p) THEN Reply(p, "STALE", NoImage)
       ELSE Reply(p, "OK", call[p].view)
    /\ UNCHANGED <<disk, guest, left, acked, dirty>>
-----------------------------------------------------------------------------
(* mutant: the emulator opens the image without the lock                    *)
GuestUnlocked ==
    /\ guest.at = "off"
    /\ guest' = [guest EXCEPT !.at = "open"]
    /\ Silent
    /\ UNCHANGED <<disk, lock, call, known, left, acked, dirty>>

(* yan_run locks the image before it opens it and until it exits; it exits,  *)
(* or is killed, anywhere.                                                  *)
GuestLock ==
    /\ guest.at = "off" /\ CanLock(TRUE)
    /\ lock' = Locked("guest", TRUE)
    /\ guest' = [guest EXCEPT !.at = "open"]
    /\ Silent
    /\ UNCHANGED <<disk, call, known, left, acked, dirty>>

GuestOpen ==
    /\ guest.at = "open"
    /\ guest' = [guest EXCEPT !.at = "idle", !.fd = disk.current]
    /\ Silent
    /\ UNCHANGED <<disk, lock, call, known, left, acked, dirty>>

GuestStop ==
    /\ guest.at # "off"
    /\ guest' = Off
    /\ lock' = Unlocked("guest")
    /\ Silent
    /\ UNCHANGED <<disk, call, known, left, acked, dirty>>

Readers == {p \in Procs : ~At(p, "idle") /\ call[p].fd = guest.fd}
OneMore(k) == IF k = 3 THEN 3 ELSE k + 1

(* A call of the guest's YanFS that creates, replaces or removes a note.     *)
(* The text goes to free blocks first, among them those that a directory a  *)
(* reader mounted earlier still names.  Nothing is synced.                  *)
GuestData ==
    /\ guest.at = "idle" /\ left.edits > 0 /\ disk.file[guest.fd] # Torn
    /\ \E n \in Names, t \in Texts \cup {Absent}, reused \in SUBSET Names :
          /\ t # disk.file[guest.fd][n]
          /\ t = Absent => reused = {}
          /\ guest' = [guest EXCEPT !.at = "commit", !.name = n,
                          !.next = [disk.file[guest.fd] EXCEPT ![n] = t]]
          /\ call' = [p \in Procs |->
                IF p \notin Readers THEN call[p]
                ELSE [call[p] EXCEPT !.moved = OneMore(@),
                        !.view = [x \in Names |->
                            IF x \in reused \cap call[p].freed THEN t
                            ELSE call[p].view[x]]]]
    /\ disk' = [disk EXCEPT !.synced = @ \ {guest.fd}]
    /\ left' = [left EXCEPT !.edits = @ - 1]
    /\ dirty' = dirty \cup {guest.fd}
    /\ acked' = NoImage
    /\ Silent
    /\ UNCHANGED <<lock, known>>

(* Between the two writes of a directory of several blocks mount refuses it.*)
GuestHalf ==
    /\ TwoBlocks /\ guest.at = "commit"
    /\ disk' = [disk EXCEPT !.file[guest.fd] = Torn]
    /\ guest' = [guest EXCEPT !.at = "half"]
    /\ Silent
    /\ UNCHANGED <<lock, call, known, left, acked, dirty>>

GuestCommit ==
    /\ guest.at = IF TwoBlocks THEN "half" ELSE "commit"
    /\ disk' = [disk EXCEPT !.file[guest.fd] = guest.next]
    /\ guest' = [guest EXCEPT !.at = "idle", !.next = NoImage, !.name = Absent]
    /\ call' = [p \in Procs |->
          IF p \in Readers /\ call[p].view \in Contents
          THEN [call[p] EXCEPT !.freed = @ \cup {guest.name}] ELSE call[p]]
    /\ Silent
    /\ UNCHANGED <<lock, known, left, acked, dirty>>
-----------------------------------------------------------------------------
(* A host call of a commit fails.  The copy is removed; whether the image    *)
(* was replaced is told by `committed'.                                     *)
Fail(p) ==
    /\ ~At(p, "idle") /\ Writing(p) /\ left.faults > 0
    /\ Reply(p, "IO", NoImage)
    /\ left' = [left EXCEPT !.faults = @ - 1]
    /\ UNCHANGED <<disk, guest, acked, dirty>>

(* A process dies; the kernel drops its lock.                               *)
Kill(p) ==
    /\ ~At(p, "idle") /\ left.faults > 0
    /\ call' = [call EXCEPT ![p] = Idle]
    /\ lock' = Unlocked(p)
    /\ left' = [left EXCEPT !.faults = @ - 1]
    /\ Silent
    /\ UNCHANGED <<disk, known, guest, acked, dirty>>

(* After a power loss the path is any inode the directory on the medium may *)
(* name, and what was not synced may be lost.                               *)
PowerLoss ==
    /\ left.faults > 0
    /\ \E c \in disk.mayName, whole \in BOOLEAN :
          disk' = [disk EXCEPT !.current = c, !.mayName = {c},
                      !.synced = Inodes,
                      !.file[c] = IF whole \/ c \in disk.synced THEN @ ELSE Torn]
    /\ call' = [p \in Procs |-> Idle]
    /\ lock' = [ex |-> {}, sh |-> {}]
    /\ guest' = Off
    /\ left' = [left EXCEPT !.faults = @ - 1]
    /\ Silent
    /\ UNCHANGED <<known, acked, dirty>>

Next ==
    \/ \E p \in Procs :
          \/ BeginCall(p) \/ OpenImage(p) \/ MountImage(p) \/ MountCorrupt(p)
          \/ Judge(p) \/ CopyImage(p) \/ SyncCopy(p)
          \/ RenameOver(p) \/ SyncParent(p) \/ Acknowledge(p)
          \/ ObserveBefore(p) \/ ReadNote(p) \/ CompareAfter(p)
          \/ Fail(p) \/ Kill(p)
    \/ GuestLock \/ GuestOpen \/ GuestStop
    \/ GuestData \/ GuestHalf \/ GuestCommit
    \/ PowerLoss

Spec == Init /\ [][Next]_vars
-----------------------------------------------------------------------------
(* A commit edits the very image its caller saw: from the judgement to the  *)
(* rename nobody, neither another commit nor a guest, changes what it is    *)
(* about to replace, and its copy is that image with the one note in it.    *)
NoLostUpdate ==
    \A p \in Procs :
       /\ call[p].at \in {"copy", "sync", "rename"} =>
             image = call[p].expected
       /\ call[p].at \in {"sync", "rename"} =>
             disk.file[call[p].temp] = Edited(p, call[p].expected)

(* The path always names a mountable image, also after a power loss at any  *)
(* moment of a commit, unless a guest wrote that inode in place.            *)
ImageSurvives == image = Torn => disk.current \in dirty

(* A write that was acknowledged is still there after a crash or a power    *)
(* loss, until somebody changes the image again.                            *)
AckedWriteLasts == acked # NoImage => image = acked

(* What a commit's reply says of the image is so: OK means that the note is *)
(* there and the identity is the image's, and a written one is durable; an   *)
(* error without `committed' means that the image is as before, one with it *)
(* that the note was written.                                               *)
Replied(p) == ~At(p, "idle") /\ call'[p].at = "idle" /\ reply' # NoReply
ReplyHolds(p) ==
    /\ reply'.result = "OK" =>
          /\ image'[call[p].name] = call[p].text
          /\ reply'.source = image'
          /\ reply'.committed => disk'.mayName = {disk'.current}
    /\ reply'.result # "OK" /\ call[p].before # NoImage =>
          image' = IF reply'.committed THEN Edited(p, call[p].before)
                   ELSE call[p].before
ReplyIsTrue ==
    [][\A p \in Procs : Replied(p) /\ Writing(p) => ReplyHolds(p)]_vars

(* A block query that answers OK read its note from the image it names as   *)
(* its source, although it holds no lock: a rename leaves it the old inode, *)
(* and a guest's change is noticed.  (From the third change on that overlaps*)
(* the query the blocks it reads may have been used twice.)                 *)
QueryIsTrue ==
    [][\A p \in Procs :
         /\ Replied(p) /\ call[p].kind = "block" /\ reply'.result = "OK"
         /\ call[p].moved <= 2
         => call[p].answer = reply'.source[call[p].name]]_vars

(* The inode the emulator writes to is the one the image's path names.      *)
GuestKeepsImage == guest.fd # Closed => guest.fd = disk.current

(* docs/specs/0041-note-meta-mcp-tool.md:66 and :89: an image rewritten in  *)
(* place during a meta call is reported STALE by the comparison of the      *)
(* identities before and after.                                             *)
MetaChangeIsStale ==
    [][\A p \in Procs :
         Replied(p) /\ call[p].kind = "meta" /\ reply'.result = "OK"
         => reply'.source = disk.file[call[p].fd]]_vars
=============================================================================
