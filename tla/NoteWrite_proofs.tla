--------------------------- MODULE NoteWrite_proofs ---------------------------
(***************************************************************************)
(* What the image of NoteWrite keeps for every number of processes, names,  *)
(* texts and inodes: no update is lost, an acknowledged write lasts, every  *)
(* reply of a commit is true.  The argument is who holds the image lock:    *)
(* while a commit is under way nobody else changes the image, and a guest's *)
(* presence means that no commit is.                                        *)
(***************************************************************************)
EXTENDS NoteWrite, TLAPS

Images == Contents \cup {Torn}                  \* of an inode somebody opened
Views == [Names -> Texts \cup {Absent, "torn", "none"}]
Places == {"idle", "open", "mount", "before", "copy", "sync", "rename",
           "parent", "reopen", "after", "read", "remount"}
Replacing == {"copy", "sync", "rename"}
Replaced == {"parent", "reopen", "after"}
Descriptors == Inodes \cup {Closed}

Call == [kind : {"none", "commit", "preview", "block", "meta"}, at : Places,
         replace : BOOLEAN, name : Names \cup {Absent},
         text : Texts \cup {Absent}, expected : Views, fd : Descriptors,
         temp : Descriptors, view : Views, freed : SUBSET Names,
         before : Views, answer : Texts \cup {Absent, "torn", "none"},
         committed : BOOLEAN, moved : 0..3]

Answers == [result : {"none", "OK", "CORRUPT", "STALE", "EXISTS", "NOT_FOUND",
                      "IO"},
            source : Views, committed : BOOLEAN]

(* The variables hold what their declarations say.                          *)
TypeOK ==
    /\ disk \in [file : [Inodes -> Views], current : Inodes,
                 mayName : SUBSET Inodes, synced : SUBSET Inodes]
    /\ lock \in [ex : SUBSET (Procs \cup {"guest"}),
                 sh : SUBSET (Procs \cup {"guest"})]
    /\ call \in [Procs -> Call]
    /\ known \in [Procs -> Contents]
    /\ reply \in Answers
    /\ guest \in [at : {"off", "open", "idle", "commit", "half"},
                  fd : Descriptors, next : Views, name : Names \cup {Absent}]
    /\ left \in [calls : Nat, edits : Nat, faults : Nat]
    /\ acked \in Views
    /\ dirty \subseteq Inodes

(* The image lock has one exclusive holder, or none.                        *)
LockInv ==
    /\ \A x, y \in lock.ex : x = y
    /\ lock.ex # {} => lock.sh = {}

(* A guest that is there holds the lock and writes the inode of the path.    *)
GuestInv ==
    /\ guest.at # "off" => "guest" \in lock.ex
    /\ guest.at \in {"off", "open"} => guest.fd = Closed
    /\ guest.at \in {"idle", "commit", "half"} => guest.fd = disk.current
    /\ guest.at \in {"commit", "half"} =>
          /\ guest.next \in Contents /\ guest.name \in Names
          /\ guest.fd \in dirty /\ acked = NoImage

(* Every inode the path may name after a power loss is a whole image on the *)
(* medium, unless a guest wrote it in place.                                *)
DiskInv ==
    /\ disk.current \in disk.mayName
    /\ \A c \in disk.mayName :
          /\ disk.file[c] \in Images
          /\ disk.file[c] = Torn \/ c \notin disk.synced => c \in dirty

(* An open inode holds an image, and what was mounted is contents.           *)
OpenInv(p) ==
    /\ At(p, "idle") => call[p] = Idle
    /\ call[p].at # "idle" => call[p].name \in Names
    /\ call[p].at \notin {"idle", "open"} =>
          call[p].fd \in Inodes /\ disk.file[call[p].fd] \in Images
    /\ call[p].at \notin {"idle", "open", "mount"} => call[p].view \in Contents
    /\ call[p].at \in {"copy", "sync", "rename", "parent", "reopen"} =>
          Writing(p)

(* What a commit knows of the image at each of its steps.                    *)
WriterInv(p) ==
    Writing(p) =>
       /\ p \in lock.ex
       /\ call[p].at \in {"open", "mount", "before"} \cup Replacing \cup Replaced
       /\ call[p].name \in Names /\ call[p].text \in Texts
       /\ call[p].expected \in Contents
       /\ call[p].at \in {"open", "mount", "before"} =>
             call[p].before = NoImage /\ ~call[p].committed
       /\ call[p].at \in {"mount", "before"} => call[p].fd = disk.current
       /\ call[p].at = "before" => call[p].view = image
       /\ call[p].at \in Replacing =>
             /\ image = call[p].expected /\ call[p].before = call[p].expected
             /\ ~call[p].committed
       /\ call[p].at \in {"sync", "rename"} =>
             /\ call[p].temp \in Inodes \ disk.mayName
             /\ disk.file[call[p].temp] = Edited(p, call[p].expected)
       /\ call[p].at = "rename" => call[p].temp \in disk.synced
       /\ call[p].at \in Replaced =>
             /\ call[p].before \in Contents /\ call[p].committed
             /\ image = Edited(p, call[p].before)
             /\ disk.current \in disk.synced
       /\ call[p].at \in {"reopen", "after"} => disk.mayName = {disk.current}
       /\ call[p].at = "after" => call[p].view = image

(* An acknowledged image is the one the path names, and nothing else is what *)
(* a power loss may leave.                                                  *)
AckInv ==
    acked # NoImage =>
       /\ image = acked
       /\ disk.mayName = {disk.current} /\ disk.current \in disk.synced

CallInv == \A p \in Procs : OpenInv(p) /\ WriterInv(p)

IInv == TypeOK /\ LockInv /\ GuestInv /\ DiskInv /\ CallInv /\ AckInv
-----------------------------------------------------------------------------
(* Contents are neither torn nor missing.                                   *)
LEMMA ContentsAreWhole ==
    /\ Torn \notin Contents /\ NoImage \notin Contents /\ Torn # NoImage
    /\ Contents \subseteq Views /\ Torn \in Views /\ NoImage \in Views
<1>1. PICK n \in Names : TRUE
    BY NoteAssumption
<1>2. Torn[n] = "torn" /\ NoImage[n] = "none"
    BY <1>1 DEF Torn, NoImage
<1>3. \A c \in Contents : c[n] \in Texts \cup {Absent}
    BY <1>1 DEF Contents
<1>4. "torn" \notin Texts \cup {Absent} /\ "none" \notin Texts \cup {Absent}
    BY NoteAssumption DEF Absent
<1>5. Contents \subseteq Views
    BY DEF Contents, Views
<1>6. Torn \in Views /\ NoImage \in Views
    BY DEF Torn, NoImage, Views
<1> QED  BY <1>2, <1>3, <1>4, <1>5, <1>6

(* The state of a process that does nothing is a call state.                *)
LEMMA IdleIsACall == Idle \in Call
    BY ContentsAreWhole DEF Idle, Call, Places, Absent, Closed, Descriptors

(* Writing one note of an image makes an image.                              *)
LEMMA EditedIsWhole ==
    ASSUME NEW p \in Procs, NEW c \in Contents,
           call[p].name \in Names, call[p].text \in Texts
    PROVE  Edited(p, c) \in Contents /\ Edited(p, c)[call[p].name] = call[p].text
    BY DEF Edited, Contents

(* There is one commit at a time, and none beside a guest.                   *)
LEMMA OneWriter ==
    ASSUME IInv, NEW p \in Procs, NEW q \in Procs, Writing(p), Writing(q)
    PROVE  p = q
    BY DEF IInv, CallInv, WriterInv, LockInv

(* While a guest holds the image lock no process is inside a commit.        *)
LEMMA NoWriterBesideGuest ==
    ASSUME IInv, guest.at # "off", NEW p \in Procs
    PROVE  ~Writing(p)
    BY NoteAssumption DEF IInv, CallInv, WriterInv, LockInv, GuestInv

(* The invariant holds at the start.                                        *)
LEMMA InitInvariant == ASSUME Init PROVE IInv
<1> USE DEF Init
<1>1. Initial \in Contents /\ 0 \in Inodes /\ left \in [calls : Nat, edits : Nat, faults : Nat]
    BY NoteAssumption
<1>2. TypeOK
    <2>1. disk \in [file : [Inodes -> Views], current : Inodes,
                    mayName : SUBSET Inodes, synced : SUBSET Inodes]
        BY <1>1, ContentsAreWhole
    <2>2. call \in [Procs -> Call]
        BY IdleIsACall
    <2>3. known \in [Procs -> Contents]
        BY <1>1
    <2>4. reply \in Answers
        BY ContentsAreWhole DEF NoReply, Answers
    <2>5. guest \in [at : {"off", "open", "idle", "commit", "half"},
                     fd : Descriptors, next : Views, name : Names \cup {Absent}]
        BY ContentsAreWhole DEF Off, Descriptors
    <2> QED  BY <1>1, <2>1, <2>2, <2>3, <2>4, <2>5, ContentsAreWhole DEF TypeOK
<1>3. LockInv
    BY DEF LockInv
<1>4. GuestInv
    BY DEF GuestInv, Off
<1>5. DiskInv
    BY <1>1, ContentsAreWhole DEF DiskInv, Images
<1>6. CallInv
    BY DEF CallInv, OpenInv, WriterInv, At, Writing, Idle
<1>7. AckInv
    BY DEF AckInv
<1> QED  BY <1>2, <1>3, <1>4, <1>5, <1>6, <1>7 DEF IInv
-----------------------------------------------------------------------------
(* The other calls do not see that one call ends or goes on.                *)
LEMMA OthersStay ==
    ASSUME IInv, NEW p \in Procs, NEW q \in Procs, q # p,
           call'[q] = call[q], disk' = disk,
           q \in lock.ex => q \in lock'.ex
    PROVE  OpenInv(q)' /\ WriterInv(q)'
<1>1. OpenInv(q) /\ WriterInv(q)
    BY DEF IInv, CallInv
<1>2. OpenInv(q)'
    BY <1>1 DEF OpenInv, At, Writing
<1>3. WriterInv(q)'
    BY <1>1 DEF WriterInv, Writing, Edited, image
<1> QED  BY <1>2, <1>3

(* A call ends: its lock is released, and nothing else depends on it.        *)
LEMMA CallEnds ==
    ASSUME IInv, NEW p \in Procs,
           call' = [call EXCEPT ![p] = Idle], lock' = Unlocked(p),
           UNCHANGED <<disk, guest, dirty>>,
           known' \in [Procs -> Contents],
           reply' \in Answers,
           left' \in [calls : Nat, edits : Nat, faults : Nat],
           acked' \in Views, AckInv',
           guest.at \in {"commit", "half"} => acked' = acked
    PROVE  IInv'
<1>1. TypeOK'
    BY IdleIsACall DEF IInv, TypeOK, Unlocked
<1>2. LockInv'
    BY DEF IInv, LockInv, Unlocked, TypeOK
<1>3. GuestInv'
    BY NoteAssumption DEF IInv, GuestInv, Unlocked
<1>4. DiskInv'
    BY DEF IInv, DiskInv
<1>5. CallInv'
    <2> SUFFICES ASSUME NEW q \in Procs PROVE OpenInv(q)' /\ WriterInv(q)'
        BY DEF CallInv
    <2>1. CASE q = p
        <3>1. call'[q] = Idle
            BY <2>1 DEF IInv, TypeOK
        <3> QED  BY <3>1 DEF OpenInv, WriterInv, At, Writing, Idle
    <2>2. CASE q # p
        BY <2>2, OthersStay DEF IInv, TypeOK, Unlocked
    <2> QED  BY <2>1, <2>2
<1> QED  BY <1>1, <1>2, <1>3, <1>4, <1>5 DEF IInv

(* What a commit is about, and what it has recorded so far.                  *)
SameRequest(p) ==
    /\ call'[p].kind = call[p].kind /\ call'[p].name = call[p].name
    /\ call'[p].text = call[p].text /\ call'[p].expected = call[p].expected
SameRecord(p) ==
    /\ call'[p].before = call[p].before
    /\ call'[p].committed = call[p].committed

(* A call goes on: nothing but the call changes.                             *)
LEMMA CallGoesOn ==
    ASSUME IInv, NEW p \in Procs,
           call' \in [Procs -> Call],
           \A q \in Procs \ {p} : call'[q] = call[q], Silent,
           UNCHANGED <<disk, lock, known, guest, left, acked, dirty>>,
           OpenInv(p)', WriterInv(p)'
    PROVE  IInv'
<1>1. TypeOK'
    <2>1. reply' \in Answers
        BY ContentsAreWhole DEF Silent, NoReply, Answers
    <2> QED  BY <2>1 DEF IInv, TypeOK
<1>2. LockInv' /\ GuestInv' /\ DiskInv' /\ AckInv'
    BY DEF IInv, LockInv, GuestInv, DiskInv, AckInv, image
<1>3. CallInv'
    <2> SUFFICES ASSUME NEW q \in Procs PROVE OpenInv(q)' /\ WriterInv(q)'
        BY DEF CallInv
    <2>1. CASE q # p
        BY <2>1, OthersStay DEF IInv, TypeOK
    <2> QED  BY <2>1
<1> QED  BY <1>1, <1>2, <1>3 DEF IInv
-----------------------------------------------------------------------------
(* A call that begins keeps the invariant: a commit is alone with the lock. *)
LEMMA BeginCallStep ==
    ASSUME IInv, NEW p \in Procs, BeginCall(p) PROVE IInv'
<1> USE DEF BeginCall
<1>1. PICK r \in Requests :
          /\ lock' = IF r.kind \in NoLock THEN lock
                     ELSE Locked(p, r.kind = "commit")
          /\ r.kind \notin NoLock => CanLock(r.kind = "commit")
          /\ call' = [call EXCEPT ![p] =
                [Idle EXCEPT !.kind = r.kind, !.at = "open", !.name = r.name,
                    !.text = r.text, !.replace = r.replace,
                    !.expected = IF r.expects THEN known[p] ELSE NoImage]]
    OBVIOUS
<1>2. /\ r.kind \in {"commit", "preview", "block", "meta"}
      /\ r.name \in Names /\ r.text \in Texts /\ r.replace \in BOOLEAN
      /\ r.kind = "commit" => r.expects
    BY NoteAssumption
<1> DEFINE c == [Idle EXCEPT !.kind = r.kind, !.at = "open", !.name = r.name,
                    !.text = r.text, !.replace = r.replace,
                    !.expected = IF r.expects THEN known[p] ELSE NoImage]
<1>3. c \in Call /\ call'[p] = c
    <2>1. known[p] \in Views /\ NoImage \in Views
        BY ContentsAreWhole DEF IInv, TypeOK
    <2>2. c \in Call
        <3> DEFINE e == IF r.expects THEN known[p] ELSE NoImage
        <3>1. e \in Views
            BY <2>1
        <3> HIDE DEF e
        <3>2. [Idle EXCEPT !.kind = r.kind, !.at = "open", !.name = r.name,
                    !.text = r.text, !.replace = r.replace,
                    !.expected = e] \in Call
            BY <1>2, <3>1, IdleIsACall DEF Call, Places
        <3> QED  BY <3>2 DEF e
    <2>3. call \in [Procs -> Call]
        BY DEF IInv, TypeOK
    <2> HIDE DEF c
    <2>4. call' = [call EXCEPT ![p] = c]
        BY <1>1 DEF c
    <2> QED  BY <2>2, <2>3, <2>4
<1>4. TypeOK'
    <2>1. call' \in [Procs -> Call]
        BY <1>1, <1>3 DEF IInv, TypeOK
    <2>2. reply' \in Answers
        BY ContentsAreWhole DEF Silent, NoReply, Answers
    <2>3. lock' \in [ex : SUBSET (Procs \cup {"guest"}),
                     sh : SUBSET (Procs \cup {"guest"})]
        BY <1>1 DEF IInv, TypeOK, Locked
    <2>4. left' \in [calls : Nat, edits : Nat, faults : Nat]
        BY DEF IInv, TypeOK
    <2> QED  BY <2>1, <2>2, <2>3, <2>4 DEF IInv, TypeOK
<1>5. LockInv'
    BY <1>1 DEF IInv, TypeOK, LockInv, CanLock, Locked
<1>6. lock.ex \subseteq lock'.ex
    BY <1>1 DEF IInv, TypeOK, Locked
<1>7. GuestInv' /\ DiskInv' /\ AckInv'
    BY <1>6 DEF IInv, GuestInv, DiskInv, AckInv, image
<1>8. CallInv'
    <2> SUFFICES ASSUME NEW q \in Procs PROVE OpenInv(q)' /\ WriterInv(q)'
        BY DEF CallInv
    <2>1. CASE q = p
        <3>1. OpenInv(p)'
            <4>1. call'[p].at = "open" /\ call'[p].name \in Names
                BY <1>2, <1>3 DEF Idle
            <4> QED  BY <4>1 DEF OpenInv, At
        <3>2. ASSUME Writing(p)' PROVE WriterInv(p)'
            <4>1. r.kind = "commit"
                BY <1>3, <3>2 DEF Writing, Idle
            <4>2. p \in lock'.ex
                BY <1>1, <4>1 DEF NoLock, Locked, IInv, TypeOK
            <4>3. c.expected \in Contents
                BY <1>2, <4>1 DEF Idle, IInv, TypeOK
            <4>4. /\ c.at = "open" /\ c.before = NoImage /\ ~c.committed
                  /\ c.name \in Names /\ c.text \in Texts
                BY <1>2 DEF Idle
            <4> HIDE DEF c
            <4> QED  BY <1>3, <4>2, <4>3, <4>4
                     DEF WriterInv, Writing, Replacing, Replaced
        <3> QED  BY <2>1, <3>1, <3>2 DEF WriterInv
    <2>2. CASE q # p
        BY <1>1, <1>6, <2>2, OthersStay DEF IInv, TypeOK
    <2> QED  BY <2>1, <2>2
<1> QED  BY <1>4, <1>5, <1>7, <1>8 DEF IInv

(* Opening the path keeps the invariant: under its lock a commit opens the  *)
(* current inode.                                                           *)
LEMMA OpenImageStep ==
    ASSUME IInv, NEW p \in Procs, OpenImage(p) PROVE IInv'
<1>1. call \in [Procs -> Call] /\ disk.current \in Inodes
    BY DEF IInv, TypeOK
<1>2. OpenInv(p) /\ WriterInv(p) /\ disk.file[disk.current] \in Images
    BY DEF IInv, CallInv, DiskInv
<1>3. /\ call' = [call EXCEPT ![p].at = "mount", ![p].fd = disk.current,
                              ![p].moved = IF Changing THEN 1 ELSE 0]
      /\ disk' = disk /\ lock' = lock /\ call[p].at = "open"
    BY DEF OpenImage, At
<1>4. /\ call' \in [Procs -> Call]
      /\ \A q \in Procs \ {p} : call'[q] = call[q]
    <2> DEFINE k == IF Changing THEN 1 ELSE 0
               c == [call[p] EXCEPT !.at = "mount", !.fd = disk.current,
                                    !.moved = k]
    <2>1. c \in Call
        <3>1. call[p] \in Call /\ disk.current \in Inodes /\ k \in 0..3
            BY <1>1
        <3> HIDE DEF k
        <3> QED  BY <3>1 DEF Call, Places, Descriptors
    <2>2. call' = [call EXCEPT ![p] = c]
        BY <1>1, <1>3
    <2> QED  BY <1>1, <2>1, <2>2
<1>5. /\ call'[p].at = "mount" /\ call'[p].fd = disk.current
      /\ SameRequest(p) /\ SameRecord(p)
    BY <1>1, <1>3 DEF Call, SameRequest, SameRecord
<1>6. OpenInv(p)'
    BY <1>1, <1>2, <1>3, <1>5 DEF OpenInv, At, SameRequest
<1>7. WriterInv(p)'
    BY <1>2, <1>3, <1>5
       DEF WriterInv, Writing, SameRequest, SameRecord, Replacing, Replaced
<1> QED  BY <1>4, <1>6, <1>7, CallGoesOn DEF OpenImage

(* A mount keeps the invariant: a commit sees the image as it is.           *)
LEMMA MountImageStep ==
    ASSUME IInv, NEW p \in Procs, MountImage(p) PROVE IInv'
<1>1. /\ call \in [Procs -> Call] /\ disk.current \in Inodes
      /\ disk.file \in [Inodes -> Views]
    BY DEF IInv, TypeOK
<1>2. /\ OpenInv(p) /\ WriterInv(p)
      /\ disk' = disk /\ lock' = lock /\ disk.file[disk.current] \in Images
    BY DEF MountImage, IInv, DiskInv, CallInv
<1>3. /\ call' \in [Procs -> Call]
      /\ \A q \in Procs \ {p} : call'[q] = call[q]
      /\ call'[p].fd \in Inodes /\ call'[p].view = disk.file[call'[p].fd]
      /\ call'[p].view \in Contents
      /\ SameRequest(p) /\ SameRecord(p)
      /\ \/ /\ call[p].at = "mount" /\ call'[p].at = "before"
            /\ call'[p].fd = call[p].fd
         \/ /\ call[p].at = "remount" /\ call'[p].at = "after"
         \/ /\ call[p].at = "reopen" /\ call'[p].at = "after"
            /\ call'[p].fd = disk.current
    <2>1. CASE call[p].at \in {"mount", "remount"}
        <3>1. call[p].fd \in Inodes /\ disk.file[call[p].fd] \in Images
            BY <1>2, <2>1 DEF OpenInv
        <3>2. PICK place \in {"before", "after"} :
                 /\ call' = Mounted(p, place)
                 /\ call[p].at = "mount" => place = "before"
                 /\ call[p].at = "remount" => place = "after"
            BY <2>1 DEF MountImage, At
        <3>3. call' = [call EXCEPT ![p].at = place, ![p].freed = {},
                 ![p].view = disk.file[call[p].fd]]
            BY <3>2 DEF Mounted
        <3>4. /\ call' \in [Procs -> Call]
              /\ \A q \in Procs \ {p} : call'[q] = call[q]
            <4> DEFINE c == [call[p] EXCEPT !.at = place, !.freed = {},
                                            !.view = disk.file[call[p].fd]]
            <4>1. c \in Call
                <5>1. call[p] \in Call /\ disk.file[call[p].fd] \in Views
                    BY <1>1, <3>1
                <5> QED  BY <5>1 DEF Call, Places
            <4>2. call' = [call EXCEPT ![p] = c]
                BY <1>1, <3>3
            <4> QED  BY <1>1, <4>1, <4>2
        <3>5. /\ call'[p].fd = call[p].fd /\ call'[p].view = disk.file[call[p].fd]
              /\ call'[p].at = place
              /\ SameRequest(p) /\ SameRecord(p)
            BY <1>1, <3>3 DEF Call, SameRequest, SameRecord
        <3>6. call'[p].view # Torn
            BY DEF MountImage
        <3> QED  BY <2>1, <3>1, <3>2, <3>4, <3>5, <3>6 DEF Images
    <2>2. CASE call[p].at = "reopen"
        <3> DEFINE m == [call[p] EXCEPT !.at = "after", !.freed = {},
                                        !.view = disk.file[call[p].fd]]
                   c == [m EXCEPT !.fd = disk.current, !.view = disk.file[disk.current]]
        <3>1. /\ call'[p] = c /\ call' \in [Procs -> Call]
              /\ \A q \in Procs \ {p} : call'[q] = call[q]
            <4>1. /\ call[p] \in Call /\ disk.current \in Inodes
                  /\ disk.file[disk.current] \in Views
                BY <1>1
            <4>2. c \in Call
                BY <4>1 DEF Call, Places, Descriptors
            <4>3. Mounted(p, "after") = [call EXCEPT ![p] = m]
                BY <1>1 DEF Mounted
            <4>4. call' = [Mounted(p, "after") EXCEPT ![p].fd = disk.current,
                               ![p].view = disk.file[disk.current]]
                BY <2>2 DEF MountImage, At, image
            <4> HIDE DEF m
            <4>5. call' = [call EXCEPT ![p] = c]
                BY <1>1, <4>3, <4>4
            <4> QED  BY <1>1, <4>2, <4>5
        <3>3. /\ call'[p].fd = disk.current
              /\ call'[p].view = disk.file[disk.current]
              /\ call'[p].at = "after"
              /\ SameRequest(p) /\ SameRecord(p)
            BY <1>1, <3>1 DEF Call, SameRequest, SameRecord
        <3> HIDE DEF m, c
        <3>4. call'[p].view # Torn
            BY DEF MountImage
        <3> QED  BY <1>1, <1>2, <2>2, <3>1, <3>3, <3>4 DEF Images
    <2> QED  BY <2>1, <2>2 DEF MountImage, At
<1>4. OpenInv(p)'
    BY <1>2, <1>3 DEF OpenInv, At, Images, SameRequest
<1>5. WriterInv(p)'
    BY <1>2, <1>3 DEF WriterInv, Writing, SameRequest, SameRecord, Replacing, Replaced,
                      image, Edited
<1> QED  BY <1>3, <1>4, <1>5, CallGoesOn DEF MountImage
-----------------------------------------------------------------------------
(* A call ends with a reply.                                                *)
LEMMA ReplyEnds ==
    ASSUME IInv, NEW p \in Procs, NEW source \in Views,
           NEW result \in {"OK", "CORRUPT", "STALE", "EXISTS", "NOT_FOUND", "IO"},
           Reply(p, result, source), result = "OK" => source \in Contents,
           UNCHANGED <<disk, guest, dirty>>,
           left' \in [calls : Nat, edits : Nat, faults : Nat],
           acked' \in Views, AckInv',
           guest.at \in {"commit", "half"} => acked' = acked
    PROVE  IInv'
<1>1. known' \in [Procs -> Contents]
    BY DEF IInv, TypeOK, Reply
<1>2. reply' \in Answers
    <2>1. call[p].committed \in BOOLEAN
        BY DEF IInv, TypeOK, Call
    <2> QED  BY <2>1 DEF Reply, Answers
<1> QED  BY <1>1, <1>2, CallEnds DEF Reply

(* Most replies leave the acknowledged image and the bounds alone.          *)
LEMMA ReplyOnly ==
    ASSUME IInv, NEW p \in Procs, NEW source \in Views,
           NEW result \in {"OK", "CORRUPT", "STALE", "EXISTS", "NOT_FOUND", "IO"},
           Reply(p, result, source), result = "OK" => source \in Contents,
           UNCHANGED <<disk, guest, left, acked, dirty>>
    PROVE  IInv'
<1>1. AckInv' /\ acked' \in Views
    BY DEF IInv, TypeOK, AckInv, image
<1>2. left' \in [calls : Nat, edits : Nat, faults : Nat]
    BY DEF IInv, TypeOK
<1> QED  BY <1>1, <1>2, ReplyEnds

(* A mount that refuses ends the call.                                      *)
LEMMA MountCorruptStep ==
    ASSUME IInv, NEW p \in Procs, MountCorrupt(p) PROVE IInv'
    BY ReplyOnly, ContentsAreWhole DEF MountCorrupt

(* A refusal (stale, existing or missing) ends the call.                    *)
LEMMA JudgeStep ==
    ASSUME IInv, NEW p \in Procs, Judge(p) PROVE IInv'
<1>1. /\ call \in [Procs -> Call] /\ OpenInv(p) /\ WriterInv(p)
      /\ call[p].at = "before" /\ call[p].view \in Contents
    BY DEF IInv, TypeOK, CallInv, OpenInv, Judge, At
<1>2. CASE Same(p)
    BY <1>1, <1>2, ReplyOnly, ContentsAreWhole DEF Judge
<1>3. CASE ~Same(p) /\ Stale(p)
    BY <1>3, ReplyOnly, ContentsAreWhole DEF Judge
<1>4. CASE ~Same(p) /\ ~Stale(p) /\ Exists(p) # call[p].replace
    BY <1>4, ReplyOnly, ContentsAreWhole DEF Judge
<1>5. CASE /\ ~Same(p) /\ ~Stale(p) /\ ~(Exists(p) # call[p].replace)
           /\ ~Writing(p)
    BY <1>1, <1>5, ReplyOnly, ContentsAreWhole DEF Judge
<1>6. CASE /\ ~Same(p) /\ ~Stale(p) /\ ~(Exists(p) # call[p].replace)
           /\ Writing(p)
    <2>1. /\ call' = [call EXCEPT ![p].at = "copy", ![p].before = call[p].view]
          /\ Silent
          /\ UNCHANGED <<disk, lock, known, guest, left, acked, dirty>>
        BY <1>6 DEF Judge
    <2>2. /\ call' \in [Procs -> Call]
          /\ \A q \in Procs \ {p} : call'[q] = call[q]
        <3> DEFINE c == [call[p] EXCEPT !.at = "copy", !.before = call[p].view]
        <3>1. c \in Call
            <4>1. call[p] \in Call /\ call[p].view \in Views
                BY <1>1, ContentsAreWhole
            <4> QED  BY <4>1 DEF Call, Places
        <3>2. call' = [call EXCEPT ![p] = c]
            BY <1>1, <2>1
        <3> QED  BY <1>1, <3>1, <3>2
    <2>3. /\ call'[p].at = "copy" /\ call'[p].before = call[p].view
          /\ call'[p].view = call[p].view /\ call'[p].fd = call[p].fd
          /\ call'[p].committed = call[p].committed /\ SameRequest(p)
        BY <1>1, <2>1 DEF Call, SameRequest
    <2>4. image = call[p].view /\ call[p].expected = call[p].view
        BY <1>1, <1>6, ContentsAreWhole DEF WriterInv, Stale
    <2>5. OpenInv(p)'
        BY <1>1, <1>6, <2>1, <2>3 DEF OpenInv, At, Writing, SameRequest
    <2>6. WriterInv(p)'
        BY <1>1, <1>6, <2>1, <2>3, <2>4
           DEF WriterInv, Writing, SameRequest, Replacing, Replaced, image
    <2> QED  BY <2>1, <2>2, <2>5, <2>6, CallGoesOn
<1> QED  BY <1>2, <1>3, <1>4, <1>5, <1>6

(* An acknowledged commit leaves the image it says, durable under the only  *)
(* inode the path may name.                                                 *)
LEMMA AcknowledgeStep ==
    ASSUME IInv, NEW p \in Procs, Acknowledge(p) PROVE IInv'
<1>1. /\ OpenInv(p) /\ WriterInv(p) /\ Writing(p) /\ At(p, "after")
      /\ UNCHANGED <<disk, guest, left, dirty>>
      /\ Reply(p, "OK", call[p].view) /\ acked' = call[p].view
    BY DEF IInv, CallInv, Acknowledge
<1>2. call[p].view \in Contents /\ call[p].view = image
    BY <1>1 DEF OpenInv, WriterInv, At
<1>3. AckInv'
    BY <1>1, <1>2 DEF AckInv, WriterInv, At, Replaced, image
<1>4. guest.at = "off"
    BY <1>1, NoWriterBesideGuest
<1>5. left' \in [calls : Nat, edits : Nat, faults : Nat]
    BY <1>1 DEF IInv, TypeOK
<1> QED  BY <1>1, <1>2, <1>3, <1>4, <1>5, ReplyEnds, ContentsAreWhole

(* A call that fails keeps the invariant.                                   *)
LEMMA FailStep ==
    ASSUME IInv, NEW p \in Procs, Fail(p) PROVE IInv'
<1>1. left' \in [calls : Nat, edits : Nat, faults : Nat]
    BY DEF IInv, TypeOK, Fail
<1>2. AckInv' /\ acked' \in Views
    BY DEF IInv, TypeOK, AckInv, image, Fail
<1> QED  BY <1>1, <1>2, ReplyEnds, ContentsAreWhole DEF Fail

(* A process killed at any step keeps the invariant.                        *)
LEMMA KillStep ==
    ASSUME IInv, NEW p \in Procs, Kill(p) PROVE IInv'
<1>1. left' \in [calls : Nat, edits : Nat, faults : Nat]
    BY DEF IInv, TypeOK, Kill
<1>2. AckInv' /\ acked' \in Views /\ known' \in [Procs -> Contents]
    BY DEF IInv, TypeOK, AckInv, image, Kill
<1>3. reply' \in Answers
    BY ContentsAreWhole DEF Kill, Silent, NoReply, Answers
<1> QED  BY <1>1, <1>2, <1>3, CallEnds DEF Kill

(* A preview's first look keeps the invariant.                              *)
LEMMA ObserveBeforeStep ==
    ASSUME IInv, NEW p \in Procs, ObserveBefore(p) PROVE IInv'
<1>1. /\ call \in [Procs -> Call] /\ OpenInv(p)
      /\ call[p].at = "before" /\ call[p].view \in Contents /\ ~Writing(p)
    BY DEF IInv, TypeOK, CallInv, OpenInv, ObserveBefore, At, Asking, NoLock, Writing
<1>2. CASE Stale(p)
    BY <1>2, ReplyOnly, ContentsAreWhole DEF ObserveBefore
<1>3. CASE ~Stale(p)
    <2>1. /\ call' = [call EXCEPT ![p].at = "read", ![p].before = call[p].view]
          /\ Silent
          /\ UNCHANGED <<disk, lock, known, guest, left, acked, dirty>>
        BY <1>3 DEF ObserveBefore
    <2>2. /\ call' \in [Procs -> Call]
          /\ \A q \in Procs \ {p} : call'[q] = call[q]
        <3> DEFINE c == [call[p] EXCEPT !.at = "read", !.before = call[p].view]
        <3>1. c \in Call
            <4>1. call[p] \in Call /\ call[p].view \in Views
                BY <1>1, ContentsAreWhole
            <4> QED  BY <4>1 DEF Call, Places
        <3>2. call' = [call EXCEPT ![p] = c]
            BY <1>1, <2>1
        <3> QED  BY <1>1, <3>1, <3>2
    <2>3. /\ call'[p].at = "read" /\ call'[p].view = call[p].view
          /\ call'[p].fd = call[p].fd /\ call'[p].kind = call[p].kind
          /\ call'[p].name = call[p].name
        BY <1>1, <2>1 DEF Call
    <2>4. OpenInv(p)' /\ WriterInv(p)'
        BY <1>1, <2>1, <2>3 DEF OpenInv, WriterInv, At, Writing
    <2> QED  BY <2>1, <2>2, <2>4, CallGoesOn
<1> QED  BY <1>2, <1>3

(* Reading the note of a preview keeps the invariant.                       *)
LEMMA ReadNoteStep ==
    ASSUME IInv, NEW p \in Procs, ReadNote(p) PROVE IInv'
<1>1. /\ call \in [Procs -> Call] /\ OpenInv(p)
      /\ call[p].at = "read" /\ call[p].view \in Contents
    BY DEF IInv, TypeOK, CallInv, OpenInv, ReadNote, At
<1>2. ~Writing(p)
    BY <1>1 DEF IInv, CallInv, WriterInv, Replacing, Replaced
<1>3. CASE ~Exists(p)
    BY <1>3, ReplyOnly, ContentsAreWhole DEF ReadNote
<1>4. CASE Exists(p)
    <2> DEFINE place == SecondLook(call[p].kind)
               c == [call[p] EXCEPT !.at = place,
                                    !.answer = call[p].view[call[p].name]]
    <2>1. /\ call' = [call EXCEPT ![p].at = place,
                          ![p].answer = call[p].view[call[p].name]]
          /\ Silent
          /\ UNCHANGED <<disk, lock, known, guest, left, acked, dirty>>
          /\ place \in {"remount", "after"}
        BY <1>4 DEF ReadNote, SecondLook
    <2> HIDE DEF place
    <2>2. /\ call' \in [Procs -> Call]
          /\ \A q \in Procs \ {p} : call'[q] = call[q]
        <3>1. c \in Call
            <4>1. /\ call[p] \in Call
                  /\ call[p].view[call[p].name] \in Texts \cup {Absent, "torn", "none"}
                <5>1. call[p] \in Call
                    BY <1>1
                <5>2. call[p].name \in Names
                    BY <1>1 DEF OpenInv
                <5> QED  BY <1>1, <5>1, <5>2 DEF Contents
            <4> QED  BY <2>1, <4>1 DEF Call, Places
        <3>2. call' = [call EXCEPT ![p] = c]
            BY <1>1, <2>1
        <3> QED  BY <1>1, <3>1, <3>2
    <2>3. /\ call'[p].at = place /\ call'[p].view = call[p].view
          /\ call'[p].fd = call[p].fd /\ call'[p].kind = call[p].kind
          /\ call'[p].name = call[p].name
        BY <1>1, <2>1 DEF Call
    <2>4. OpenInv(p)' /\ WriterInv(p)'
        BY <1>1, <1>2, <2>1, <2>3 DEF OpenInv, WriterInv, At, Writing
    <2> QED  BY <2>1, <2>2, <2>4, CallGoesOn
<1> QED  BY <1>3, <1>4

(* Its second look keeps the invariant.                                     *)
LEMMA CompareAfterStep ==
    ASSUME IInv, NEW p \in Procs, CompareAfter(p) PROVE IInv'
<1>1. call[p].view \in Contents
    BY DEF IInv, CallInv, OpenInv, CompareAfter, At
<1> QED  BY <1>1, ReplyOnly, ContentsAreWhole DEF CompareAfter
-----------------------------------------------------------------------------
(* A commit changes the disk: nobody else is about to.                       *)
LEMMA WriterMoves ==
    ASSUME IInv, NEW p \in Procs, Writing(p),
           call' \in [Procs -> Call],
           \A q \in Procs \ {p} : call'[q] = call[q], Silent,
           UNCHANGED <<lock, known, guest, left>>,
           disk' \in [file : [Inodes -> Views], current : Inodes,
                      mayName : SUBSET Inodes, synced : SUBSET Inodes],
           \A i \in Inodes : disk.file[i] \in Images => disk'.file[i] \in Images,
           acked' \in Views, dirty' \subseteq Inodes,
           DiskInv', AckInv', OpenInv(p)', WriterInv(p)'
    PROVE  IInv'
<1>1. TypeOK'
    <2>1. reply' \in Answers
        BY ContentsAreWhole DEF Silent, NoReply, Answers
    <2> QED  BY <2>1 DEF IInv, TypeOK
<1>2. LockInv'
    BY DEF IInv, LockInv
<1>3. GuestInv'
    <2>1. guest.at = "off"
        BY NoWriterBesideGuest
    <2> QED  BY <2>1 DEF IInv, GuestInv
<1>4. CallInv'
    <2> SUFFICES ASSUME NEW q \in Procs, q # p PROVE OpenInv(q)' /\ WriterInv(q)'
        BY DEF CallInv
    <2>1. OpenInv(q) /\ call'[q] = call[q] /\ ~Writing(q)
        BY OneWriter DEF IInv, CallInv
    <2> QED  BY <2>1 DEF OpenInv, WriterInv, At, Writing
<1> QED  BY <1>1, <1>2, <1>3, <1>4 DEF IInv

(* The temporary copy is an inode the path cannot name, so the image is     *)
(* untouched.                                                               *)
LEMMA CopyImageStep ==
    ASSUME IInv, NEW p \in Procs, CopyImage(p) PROVE IInv'
<1>1. /\ call \in [Procs -> Call] /\ OpenInv(p) /\ WriterInv(p)
      /\ call[p].at = "copy" /\ Writing(p) /\ DiskInv /\ AckInv
    BY DEF IInv, TypeOK, CallInv, OpenInv, CopyImage, At
<1>2. PICK i \in FreeInodes :
          /\ disk' = [disk EXCEPT !.file[i] = Edited(p, image),
                                  !.synced = @ \ {i}]
          /\ call' = [call EXCEPT ![p].at = "sync", ![p].temp = i,
                                  ![p].fd = disk.current]
          /\ dirty' = dirty \ {i}
    BY DEF CopyImage
<1>3. i \in Inodes /\ i \notin disk.mayName /\ i # disk.current
    BY DEF FreeInodes, InUse
<1>4. Silent /\ UNCHANGED <<lock, known, guest, left, acked>>
    BY DEF CopyImage
<1>5. image = call[p].expected /\ Edited(p, image) \in Contents
    BY <1>1, EditedIsWhole DEF WriterInv, Replacing
<1>6. disk \in [file : [Inodes -> Views], current : Inodes,
                mayName : SUBSET Inodes, synced : SUBSET Inodes]
    BY DEF IInv, TypeOK
<1>7. /\ disk'.file = [disk.file EXCEPT ![i] = Edited(p, image)]
      /\ disk'.current = disk.current /\ disk'.mayName = disk.mayName
      /\ disk'.synced = disk.synced \ {i}
    BY <1>2, <1>6
<1>8. disk' \in [file : [Inodes -> Views], current : Inodes,
                 mayName : SUBSET Inodes, synced : SUBSET Inodes]
    <2>1. Edited(p, image) \in Views
        BY <1>5, ContentsAreWhole
    <2> QED  BY <1>2, <1>6, <2>1
<1>9. /\ call' \in [Procs -> Call]
      /\ \A q \in Procs \ {p} : call'[q] = call[q]
    <2> DEFINE c == [call[p] EXCEPT !.at = "sync", !.temp = i,
                                    !.fd = disk.current]
    <2>1. c \in Call
        <3>1. call[p] \in Call /\ disk.current \in Inodes /\ i \in Inodes
            BY <1>1, <1>3, <1>6
        <3> QED  BY <3>1 DEF Call, Places, Descriptors
    <2>2. call' = [call EXCEPT ![p] = c]
        BY <1>1, <1>2
    <2> QED  BY <1>1, <2>1, <2>2
<1>10. /\ call'[p].at = "sync" /\ call'[p].temp = i
       /\ call'[p].fd = disk.current /\ call'[p].view = call[p].view
       /\ SameRequest(p) /\ SameRecord(p)
    BY <1>1, <1>2 DEF Call, SameRequest, SameRecord
<1>11. \A j \in Inodes : disk.file[j] \in Images => disk'.file[j] \in Images
    BY <1>3, <1>5, <1>6, <1>7 DEF Images
<1>12. image' = image
    BY <1>3, <1>6, <1>7 DEF image
<1>13. DiskInv'
    BY <1>1, <1>2, <1>3, <1>6, <1>7, <1>11 DEF DiskInv
<1>14. AckInv'
    BY <1>1, <1>3, <1>4, <1>7, <1>12 DEF AckInv
<1>15. OpenInv(p)'
    BY <1>1, <1>6, <1>7, <1>10, <1>11 DEF OpenInv, At, Writing, SameRequest, DiskInv
<1>16. WriterInv(p)'
    <2>1. disk'.file[i] = Edited(p, image)
        BY <1>3, <1>6, <1>7
    <2>2. Edited(p, call[p].expected)' = Edited(p, call[p].expected)
        BY <1>10 DEF Edited, SameRequest
    <2> QED  BY <1>1, <1>3, <1>4, <1>5, <1>7, <1>10, <1>12, <2>1, <2>2
             DEF WriterInv, Writing, SameRequest, SameRecord, Replacing, Replaced
<1>17. acked' \in Views /\ dirty' \subseteq Inodes
    BY <1>2, <1>4 DEF IInv, TypeOK
<1> QED  BY <1>1, <1>4, <1>8, <1>9, <1>11, <1>13, <1>14, <1>15, <1>16, <1>17,
            WriterMoves

(* The three steps that only change the disk and where the commit is.        *)
LEMMA WriterStepsTo ==
    ASSUME IInv, NEW p \in Procs, NEW place \in Places, Writing(p),
           call' = [call EXCEPT ![p].at = place]
    PROVE  /\ call' \in [Procs -> Call]
           /\ \A q \in Procs \ {p} : call'[q] = call[q]
           /\ call'[p].at = place /\ SameRequest(p) /\ SameRecord(p)
           /\ call'[p].temp = call[p].temp /\ call'[p].fd = call[p].fd
           /\ call'[p].view = call[p].view
<1>1. call \in [Procs -> Call]
    BY DEF IInv, TypeOK
<1> DEFINE c == [call[p] EXCEPT !.at = place]
<1>2. c \in Call
    <2>1. call[p] \in Call
        BY <1>1
    <2> QED  BY <2>1 DEF Call
<1>3. call' = [call EXCEPT ![p] = c]
    BY <1>1
<1>4. /\ call'[p].at = place /\ SameRequest(p) /\ SameRecord(p)
      /\ call'[p].temp = call[p].temp /\ call'[p].fd = call[p].fd
      /\ call'[p].view = call[p].view
    BY <1>1 DEF Call, SameRequest, SameRecord
<1> QED  BY <1>1, <1>2, <1>3, <1>4

(* After its fsync the copy holds the edited image on the medium.           *)
LEMMA SyncCopyStep ==
    ASSUME IInv, NEW p \in Procs, SyncCopy(p) PROVE IInv'
<1>1. /\ OpenInv(p) /\ WriterInv(p) /\ call[p].at = "sync" /\ Writing(p)
      /\ DiskInv /\ AckInv
    BY DEF IInv, CallInv, OpenInv, SyncCopy, At
<1>2. /\ disk' = [disk EXCEPT !.synced = @ \cup {call[p].temp}] /\ Silent
      /\ call' = [call EXCEPT ![p].at = "rename"]
      /\ UNCHANGED <<lock, known, guest, left, acked, dirty>>
    BY DEF SyncCopy, GoTo
<1>3. /\ call' \in [Procs -> Call]
      /\ \A q \in Procs \ {p} : call'[q] = call[q]
      /\ call'[p].at = "rename" /\ SameRequest(p) /\ SameRecord(p)
      /\ call'[p].temp = call[p].temp /\ call'[p].fd = call[p].fd
      /\ call'[p].view = call[p].view
    BY <1>1, <1>2, WriterStepsTo DEF Places
<1>4. call[p].temp \in Inodes
    BY <1>1 DEF WriterInv
<1>5. /\ disk \in [file : [Inodes -> Views], current : Inodes,
                mayName : SUBSET Inodes, synced : SUBSET Inodes]
      /\ acked' \in Views /\ dirty' \subseteq Inodes
    BY <1>2 DEF IInv, TypeOK
<1>6. /\ disk'.file = disk.file
      /\ disk'.current = disk.current /\ disk'.mayName = disk.mayName
      /\ disk'.synced = disk.synced \cup {call[p].temp}
      /\ disk' \in [file : [Inodes -> Views], current : Inodes,
                    mayName : SUBSET Inodes, synced : SUBSET Inodes]
    BY <1>2, <1>4, <1>5
<1>7. DiskInv' /\ AckInv'
    BY <1>1, <1>2, <1>6 DEF DiskInv, AckInv, image
<1>8. OpenInv(p)'
    BY <1>1, <1>3, <1>6 DEF OpenInv, At, Writing, SameRequest
<1>9. WriterInv(p)'
    BY <1>1, <1>2, <1>3, <1>6
       DEF WriterInv, Writing, SameRequest, SameRecord, Replacing, Replaced,
           image, Edited
<1> QED  BY <1>1, <1>2, <1>3, <1>5, <1>6, <1>7, <1>8, <1>9, WriterMoves

(* The rename makes the copy the current image; until the parent is synced  *)
(* a power loss may leave either.                                           *)
LEMMA RenameOverStep ==
    ASSUME IInv, NEW p \in Procs, RenameOver(p) PROVE IInv'
<1>1. /\ OpenInv(p) /\ WriterInv(p) /\ call[p].at = "rename" /\ Writing(p)
      /\ DiskInv /\ call \in [Procs -> Call]
    BY DEF IInv, TypeOK, CallInv, OpenInv, RenameOver, At
<1>2. /\ disk' = [disk EXCEPT !.current = call[p].temp,
                              !.mayName = @ \cup {call[p].temp}] /\ Silent
      /\ call' = [call EXCEPT ![p].at = "parent", ![p].committed = TRUE]
      /\ acked' = NoImage
      /\ UNCHANGED <<lock, known, guest, left, dirty>>
    BY DEF RenameOver
<1>3. /\ call' \in [Procs -> Call]
      /\ \A q \in Procs \ {p} : call'[q] = call[q]
    <2> DEFINE c == [call[p] EXCEPT !.at = "parent", !.committed = TRUE]
    <2>1. c \in Call
        <3>1. call[p] \in Call
            BY <1>1
        <3> QED  BY <3>1 DEF Call, Places
    <2>2. call' = [call EXCEPT ![p] = c]
        BY <1>1, <1>2
    <2> QED  BY <1>1, <2>1, <2>2
<1>4. /\ call'[p].at = "parent" /\ call'[p].committed
      /\ call'[p].before = call[p].before /\ call'[p].fd = call[p].fd
      /\ call'[p].view = call[p].view /\ SameRequest(p)
    BY <1>1, <1>2 DEF Call, SameRequest
<1>5. /\ call[p].temp \in Inodes /\ call[p].temp \in disk.synced
      /\ disk.file[call[p].temp] = Edited(p, call[p].before)
      /\ call[p].before \in Contents
      /\ disk.file[call[p].temp] \in Contents
    BY <1>1, EditedIsWhole DEF WriterInv, Replacing
<1>6. /\ disk \in [file : [Inodes -> Views], current : Inodes,
                mayName : SUBSET Inodes, synced : SUBSET Inodes]
      /\ acked' \in Views /\ dirty' \subseteq Inodes
    BY <1>2, ContentsAreWhole DEF IInv, TypeOK
<1>7. /\ disk'.file = disk.file /\ disk'.synced = disk.synced
      /\ disk'.current = call[p].temp
      /\ disk'.mayName = disk.mayName \cup {call[p].temp}
      /\ disk' \in [file : [Inodes -> Views], current : Inodes,
                    mayName : SUBSET Inodes, synced : SUBSET Inodes]
    BY <1>2, <1>5, <1>6
<1>8. DiskInv' /\ AckInv'
    BY <1>1, <1>2, <1>5, <1>7, ContentsAreWhole DEF DiskInv, AckInv, Images
<1>9. OpenInv(p)'
    BY <1>1, <1>4, <1>7 DEF OpenInv, At, Writing, SameRequest
<1>10. WriterInv(p)'
    BY <1>1, <1>2, <1>4, <1>5, <1>7
       DEF WriterInv, Writing, SameRequest, Replacing, Replaced, image, Edited
<1> QED  BY <1>1, <1>2, <1>3, <1>6, <1>7, <1>8, <1>9, <1>10, WriterMoves

(* The fsync of the parent leaves one inode for the path.                   *)
LEMMA SyncParentStep ==
    ASSUME IInv, NEW p \in Procs, SyncParent(p) PROVE IInv'
<1>1. /\ OpenInv(p) /\ WriterInv(p) /\ call[p].at = "parent" /\ Writing(p)
      /\ DiskInv /\ AckInv
    BY DEF IInv, CallInv, OpenInv, SyncParent, At
<1>2. /\ disk' = [disk EXCEPT !.mayName = {disk.current}] /\ Silent
      /\ call' = [call EXCEPT ![p].at = "reopen"]
      /\ UNCHANGED <<lock, known, guest, left, acked, dirty>>
    BY DEF SyncParent, GoTo
<1>3. /\ call' \in [Procs -> Call]
      /\ \A q \in Procs \ {p} : call'[q] = call[q]
      /\ call'[p].at = "reopen" /\ SameRequest(p) /\ SameRecord(p)
      /\ call'[p].temp = call[p].temp /\ call'[p].fd = call[p].fd
      /\ call'[p].view = call[p].view
    BY <1>1, <1>2, WriterStepsTo DEF Places
<1>4. /\ disk \in [file : [Inodes -> Views], current : Inodes,
                mayName : SUBSET Inodes, synced : SUBSET Inodes]
      /\ acked' \in Views /\ dirty' \subseteq Inodes
    BY <1>2 DEF IInv, TypeOK
<1>5. /\ disk'.file = disk.file /\ disk'.synced = disk.synced
      /\ disk'.current = disk.current /\ disk'.mayName = {disk.current}
      /\ disk' \in [file : [Inodes -> Views], current : Inodes,
                    mayName : SUBSET Inodes, synced : SUBSET Inodes]
    BY <1>2, <1>4
<1>6. DiskInv' /\ AckInv'
    BY <1>1, <1>2, <1>5 DEF DiskInv, AckInv, image
<1>7. OpenInv(p)'
    BY <1>1, <1>3, <1>5 DEF OpenInv, At, Writing, SameRequest
<1>8. WriterInv(p)'
    BY <1>1, <1>2, <1>3, <1>5
       DEF WriterInv, Writing, SameRequest, SameRecord, Replacing, Replaced,
           image, Edited
<1> QED  BY <1>1, <1>2, <1>3, <1>4, <1>5, <1>6, <1>7, <1>8, WriterMoves
-----------------------------------------------------------------------------
(* The emulator comes and goes: the calls do not notice.                     *)
LEMMA CallsStay ==
    ASSUME IInv, call' = call, disk' = disk,
           \A p \in Procs : p \in lock.ex => p \in lock'.ex
    PROVE  CallInv'
<1> SUFFICES ASSUME NEW p \in Procs PROVE OpenInv(p)' /\ WriterInv(p)'
    BY DEF CallInv
<1>1. OpenInv(p) /\ WriterInv(p)
    BY DEF IInv, CallInv
<1>2. OpenInv(p)'
    BY <1>1 DEF OpenInv, At, Writing
<1>3. WriterInv(p)'
    BY <1>1 DEF WriterInv, Writing, Edited, image
<1> QED  BY <1>2, <1>3

(* A guest that takes the lock finds no commit under way.                   *)
LEMMA GuestLockStep == ASSUME IInv, GuestLock PROVE IInv'
<1> USE DEF GuestLock
<1>1. TypeOK'
    <2>1. reply' \in Answers
        BY ContentsAreWhole DEF Silent, NoReply, Answers
    <2>2. lock' \in [ex : SUBSET (Procs \cup {"guest"}),
                     sh : SUBSET (Procs \cup {"guest"})]
        BY DEF IInv, TypeOK, Locked
    <2>3. guest' \in [at : {"off", "open", "idle", "commit", "half"},
                      fd : Descriptors, next : Views, name : Names \cup {Absent}]
        BY DEF IInv, TypeOK
    <2> QED  BY <2>1, <2>2, <2>3 DEF IInv, TypeOK
<1>2. LockInv'
    BY DEF IInv, TypeOK, LockInv, CanLock, Locked
<1>3. GuestInv'
    BY DEF IInv, TypeOK, GuestInv, Locked
<1>4. DiskInv' /\ AckInv'
    BY DEF IInv, DiskInv, AckInv, image
<1>5. CallInv'
    BY CallsStay DEF IInv, TypeOK, Locked
<1> QED  BY <1>1, <1>2, <1>3, <1>4, <1>5 DEF IInv

(* A guest opens the current inode.                                         *)
LEMMA GuestOpenStep == ASSUME IInv, GuestOpen PROVE IInv'
<1> USE DEF GuestOpen
<1>1. TypeOK'
    <2>1. reply' \in Answers
        BY ContentsAreWhole DEF Silent, NoReply, Answers
    <2>2. guest' \in [at : {"off", "open", "idle", "commit", "half"},
                      fd : Descriptors, next : Views, name : Names \cup {Absent}]
        BY DEF IInv, TypeOK, Descriptors
    <2> QED  BY <2>1, <2>2 DEF IInv, TypeOK
<1>2. LockInv' /\ DiskInv' /\ AckInv'
    BY DEF IInv, LockInv, DiskInv, AckInv, image
<1>3. GuestInv'
    BY DEF IInv, TypeOK, GuestInv
<1>4. CallInv'
    BY CallsStay
<1> QED  BY <1>1, <1>2, <1>3, <1>4 DEF IInv

(* A guest that stops keeps the invariant.                                  *)
LEMMA GuestStopStep == ASSUME IInv, GuestStop PROVE IInv'
<1> USE DEF GuestStop
<1>1. TypeOK'
    <2>1. reply' \in Answers
        BY ContentsAreWhole DEF Silent, NoReply, Answers
    <2>2. guest' \in [at : {"off", "open", "idle", "commit", "half"},
                      fd : Descriptors, next : Views, name : Names \cup {Absent}]
        BY ContentsAreWhole DEF Off, Descriptors
    <2>3. lock' \in [ex : SUBSET (Procs \cup {"guest"}),
                     sh : SUBSET (Procs \cup {"guest"})]
        BY DEF IInv, TypeOK, Unlocked
    <2> QED  BY <2>1, <2>2, <2>3 DEF IInv, TypeOK
<1>2. LockInv'
    BY DEF IInv, TypeOK, LockInv, Unlocked
<1>3. DiskInv' /\ AckInv'
    BY DEF IInv, DiskInv, AckInv, image
<1>4. GuestInv'
    BY DEF GuestInv, Off
<1>5. CallInv'
    BY NoteAssumption, CallsStay DEF Unlocked
<1> QED  BY <1>1, <1>2, <1>3, <1>4, <1>5 DEF IInv

(* A guest's write: an inode that holds an image goes on holding one, and no *)
(* commit is there to notice.                                               *)
LEMMA GuestMoves ==
    ASSUME IInv, guest.at # "off",
           call' \in [Procs -> Call],
           \A p \in Procs :
              /\ call'[p].at = call[p].at /\ call'[p].kind = call[p].kind
              /\ call'[p].name = call[p].name /\ call'[p].fd = call[p].fd
              /\ call[p].view \in Contents => call'[p].view \in Contents
              /\ At(p, "idle") => call'[p] = call[p],
           \A i \in Inodes : disk.file[i] \in Images => disk'.file[i] \in Images
    PROVE  CallInv'
<1> SUFFICES ASSUME NEW p \in Procs PROVE OpenInv(p)' /\ WriterInv(p)'
    BY DEF CallInv
<1>1. OpenInv(p) /\ ~Writing(p)
    BY NoWriterBesideGuest DEF IInv, CallInv
<1> QED  BY <1>1 DEF OpenInv, WriterInv, At, Writing

(* A guest that begins a change keeps the invariant: its inode is dirty     *)
(* from here on, and nothing counts as acknowledged.                        *)
LEMMA GuestDataStep == ASSUME IInv, GuestData PROVE IInv'
<1>1. /\ guest.at = "idle" /\ disk.file[guest.fd] # Torn
      /\ disk' = [disk EXCEPT !.synced = @ \ {guest.fd}]
      /\ left' = [left EXCEPT !.edits = @ - 1] /\ left.edits > 0
      /\ dirty' = dirty \cup {guest.fd}
      /\ acked' = NoImage /\ Silent /\ UNCHANGED <<lock, known>>
    BY DEF GuestData
<1>2. PICK n \in Names, t \in Texts \cup {Absent}, reused \in SUBSET Names :
          /\ t # disk.file[guest.fd][n]
          /\ t = Absent => reused = {}
          /\ guest' = [guest EXCEPT !.at = "commit", !.name = n,
                          !.next = [disk.file[guest.fd] EXCEPT ![n] = t]]
          /\ call' = [p \in Procs |->
                IF p \notin Readers THEN call[p]
                ELSE [call[p] EXCEPT !.moved = OneMore(@),
                        !.view = [x \in Names |->
                            IF x \in reused \cap call[p].freed THEN t
                            ELSE call[p].view[x]]]]
    BY DEF GuestData
<1>3. /\ guest.fd = disk.current /\ disk.file[disk.current] \in Contents
      /\ disk.current \in Inodes
    BY <1>1 DEF IInv, TypeOK, GuestInv, DiskInv, Images
<1>4. /\ disk'.file = disk.file /\ disk'.current = disk.current
      /\ disk'.mayName = disk.mayName
      /\ disk'.synced = disk.synced \ {disk.current}
      /\ disk' \in [file : [Inodes -> Views], current : Inodes,
                    mayName : SUBSET Inodes, synced : SUBSET Inodes]
    BY <1>1, <1>3 DEF IInv, TypeOK
<1>5. [disk.file[guest.fd] EXCEPT ![n] = t] \in Contents
    BY <1>3 DEF Contents
<1>6. \A p \in Procs :
         /\ call'[p] \in Call
         /\ call'[p].at = call[p].at /\ call'[p].kind = call[p].kind
         /\ call'[p].name = call[p].name /\ call'[p].fd = call[p].fd
         /\ call[p].view \in Contents => call'[p].view \in Contents
         /\ At(p, "idle") => call'[p] = call[p]
    <2> SUFFICES ASSUME NEW p \in Procs
        PROVE  /\ call'[p] \in Call
               /\ call'[p].at = call[p].at /\ call'[p].kind = call[p].kind
               /\ call'[p].name = call[p].name /\ call'[p].fd = call[p].fd
               /\ call[p].view \in Contents => call'[p].view \in Contents
               /\ At(p, "idle") => call'[p] = call[p]
        OBVIOUS
    <2>1. call[p] \in Call
        BY DEF IInv, TypeOK
    <2>2. CASE p \notin Readers
        BY <1>2, <2>1, <2>2
    <2>3. CASE p \in Readers
        <3> DEFINE v == [x \in Names |-> IF x \in reused \cap call[p].freed THEN t
                                         ELSE call[p].view[x]]
                   k == OneMore(call[p].moved)
        <3>1. v \in Views
            BY <2>1 DEF Call, Views
        <3>2. call[p].view \in Contents => v \in Contents
            BY DEF Contents
        <3>3. k \in 0..3
            BY <2>1 DEF Call, OneMore
        <3>4. ~At(p, "idle")
            BY <2>3 DEF Readers
        <3>5. call'[p] = [call[p] EXCEPT !.moved = k, !.view = v]
            BY <1>2, <2>3
        <3> HIDE DEF v, k
        <3>6. call'[p] \in Call
            BY <2>1, <3>1, <3>3, <3>5 DEF Call
        <3>7. /\ call'[p].at = call[p].at /\ call'[p].kind = call[p].kind
              /\ call'[p].name = call[p].name /\ call'[p].fd = call[p].fd
              /\ call'[p].view = v
            BY <2>1, <3>5 DEF Call
        <3> QED  BY <3>2, <3>4, <3>6, <3>7
    <2> QED  BY <2>2, <2>3
<1>7. call' \in [Procs -> Call]
    BY <1>2, <1>6
<1>8. TypeOK'
    <2>1. reply' \in Answers
        BY <1>1, ContentsAreWhole DEF Silent, NoReply, Answers
    <2>2. guest' \in [at : {"off", "open", "idle", "commit", "half"},
                      fd : Descriptors, next : Views, name : Names \cup {Absent}]
        BY <1>2, <1>5, ContentsAreWhole DEF IInv, TypeOK
    <2>3. left' \in [calls : Nat, edits : Nat, faults : Nat]
        BY <1>1 DEF IInv, TypeOK
    <2>4. acked' \in Views /\ dirty' \subseteq Inodes
        BY <1>1, <1>3, ContentsAreWhole DEF IInv, TypeOK
    <2> QED  BY <1>1, <1>4, <1>7, <2>1, <2>2, <2>3, <2>4 DEF IInv, TypeOK
<1>9. LockInv'
    BY <1>1 DEF IInv, LockInv
<1>10. GuestInv'
    <2>1. /\ guest'.at = "commit" /\ guest'.fd = guest.fd
          /\ guest'.next \in Contents /\ guest'.name \in Names
        BY <1>2, <1>5 DEF IInv, TypeOK
    <2> QED  BY <1>1, <1>3, <1>4, <2>1 DEF IInv, GuestInv
<1>11. DiskInv'
    BY <1>1, <1>3, <1>4 DEF IInv, DiskInv
<1>12. AckInv'
    BY <1>1 DEF AckInv
<1>13. CallInv'
    BY <1>1, <1>4, <1>6, <1>7, GuestMoves
<1> QED  BY <1>8, <1>9, <1>10, <1>11, <1>12, <1>13 DEF IInv

(* The first write of a guest's commit tears its inode and no other.        *)
LEMMA GuestHalfStep == ASSUME IInv, GuestHalf PROVE IInv'
<1>1. /\ guest.at = "commit"
      /\ disk' = [disk EXCEPT !.file[guest.fd] = Torn]
      /\ guest' = [guest EXCEPT !.at = "half"]
      /\ Silent /\ UNCHANGED <<lock, call, known, left, acked, dirty>>
    BY DEF GuestHalf
<1>2. guest.fd = disk.current /\ guest.fd \in dirty /\ acked = NoImage
    BY <1>1 DEF IInv, GuestInv
<1>3. /\ disk \in [file : [Inodes -> Views], current : Inodes,
                   mayName : SUBSET Inodes, synced : SUBSET Inodes]
    BY DEF IInv, TypeOK
<1>4. /\ disk'.file = [disk.file EXCEPT ![disk.current] = Torn]
      /\ disk'.current = disk.current /\ disk'.mayName = disk.mayName
      /\ disk'.synced = disk.synced
      /\ disk' \in [file : [Inodes -> Views], current : Inodes,
                    mayName : SUBSET Inodes, synced : SUBSET Inodes]
    BY <1>1, <1>2, <1>3, ContentsAreWhole
<1>5. \A i \in Inodes : disk.file[i] \in Images => disk'.file[i] \in Images
    BY <1>3, <1>4 DEF Images
<1>6. TypeOK'
    <2>1. reply' \in Answers
        BY <1>1, ContentsAreWhole DEF Silent, NoReply, Answers
    <2>2. guest' \in [at : {"off", "open", "idle", "commit", "half"},
                      fd : Descriptors, next : Views, name : Names \cup {Absent}]
        BY <1>1 DEF IInv, TypeOK
    <2> QED  BY <1>1, <1>4, <2>1, <2>2 DEF IInv, TypeOK
<1>7. LockInv' /\ AckInv'
    BY <1>1, <1>2 DEF IInv, LockInv, AckInv
<1>8. GuestInv'
    <2>1. guest'.at = "half" /\ guest'.fd = guest.fd /\ guest'.next = guest.next
        BY <1>1 DEF IInv, TypeOK
    <2> QED  BY <1>1, <1>2, <1>4, <2>1 DEF IInv, GuestInv
<1>9. DiskInv'
    BY <1>1, <1>2, <1>3, <1>4, <1>5 DEF IInv, DiskInv
<1>10. CallInv'
    BY <1>1, <1>5, GuestMoves DEF IInv, TypeOK
<1> QED  BY <1>6, <1>7, <1>8, <1>9, <1>10 DEF IInv

(* The second makes the image the guest's next one.                         *)
LEMMA GuestCommitStep == ASSUME IInv, GuestCommit PROVE IInv'
<1>1. /\ guest.at \in {"commit", "half"}
      /\ disk' = [disk EXCEPT !.file[guest.fd] = guest.next]
      /\ guest' = [guest EXCEPT !.at = "idle", !.next = NoImage, !.name = Absent]
      /\ Silent /\ UNCHANGED <<lock, known, left, acked, dirty>>
      /\ call' = [p \in Procs |->
            IF p \in Readers /\ call[p].view \in Contents
            THEN [call[p] EXCEPT !.freed = @ \cup {guest.name}] ELSE call[p]]
    BY DEF GuestCommit
<1>2. /\ guest.fd = disk.current /\ guest.fd \in dirty /\ acked = NoImage
      /\ guest.next \in Contents
    BY <1>1 DEF IInv, GuestInv
<1>3. /\ disk \in [file : [Inodes -> Views], current : Inodes,
                   mayName : SUBSET Inodes, synced : SUBSET Inodes]
    BY DEF IInv, TypeOK
<1>4. /\ disk'.file = [disk.file EXCEPT ![disk.current] = guest.next]
      /\ disk'.current = disk.current /\ disk'.mayName = disk.mayName
      /\ disk'.synced = disk.synced
      /\ disk' \in [file : [Inodes -> Views], current : Inodes,
                    mayName : SUBSET Inodes, synced : SUBSET Inodes]
    BY <1>1, <1>2, <1>3, ContentsAreWhole
<1>5. \A i \in Inodes : disk.file[i] \in Images => disk'.file[i] \in Images
    BY <1>2, <1>3, <1>4 DEF Images
<1>6. \A p \in Procs :
         /\ call'[p] \in Call
         /\ call'[p].at = call[p].at /\ call'[p].kind = call[p].kind
         /\ call'[p].name = call[p].name /\ call'[p].fd = call[p].fd
         /\ call'[p].view = call[p].view
         /\ At(p, "idle") => call'[p] = call[p]
    <2> SUFFICES ASSUME NEW p \in Procs
        PROVE  /\ call'[p] \in Call
               /\ call'[p].at = call[p].at /\ call'[p].kind = call[p].kind
               /\ call'[p].name = call[p].name /\ call'[p].fd = call[p].fd
               /\ call'[p].view = call[p].view
               /\ At(p, "idle") => call'[p] = call[p]
        OBVIOUS
    <2>1. call[p] \in Call
        BY DEF IInv, TypeOK
    <2>2. CASE ~(p \in Readers /\ call[p].view \in Contents)
        BY <1>1, <2>1, <2>2
    <2>3. CASE p \in Readers /\ call[p].view \in Contents
        <3>1. guest.name \in Names
            BY <1>1 DEF IInv, GuestInv
        <3>2. ~At(p, "idle")
            BY <2>3 DEF Readers
        <3>3. call'[p] = [call[p] EXCEPT !.freed = @ \cup {guest.name}]
            BY <1>1, <2>3
        <3> QED  BY <2>1, <3>1, <3>2, <3>3 DEF Call
    <2> QED  BY <2>2, <2>3
<1>7. call' \in [Procs -> Call]
    BY <1>1, <1>6
<1>8. TypeOK'
    <2>1. reply' \in Answers
        BY <1>1, ContentsAreWhole DEF Silent, NoReply, Answers
    <2>2. guest' \in [at : {"off", "open", "idle", "commit", "half"},
                      fd : Descriptors, next : Views, name : Names \cup {Absent}]
        BY <1>1, ContentsAreWhole DEF IInv, TypeOK
    <2> QED  BY <1>1, <1>4, <1>7, <2>1, <2>2 DEF IInv, TypeOK
<1>9. LockInv' /\ AckInv'
    BY <1>1, <1>2 DEF IInv, LockInv, AckInv
<1>10. GuestInv'
    <2>1. guest'.at = "idle" /\ guest'.fd = guest.fd
        BY <1>1 DEF IInv, TypeOK
    <2> QED  BY <1>1, <1>2, <1>4, <2>1 DEF IInv, GuestInv
<1>11. DiskInv'
    BY <1>1, <1>2, <1>3, <1>4, <1>5 DEF IInv, DiskInv
<1>12. CallInv'
    BY <1>1, <1>5, <1>6, <1>7, GuestMoves
<1> QED  BY <1>8, <1>9, <1>10, <1>11, <1>12 DEF IInv

(* A power loss leaves an inode that the path may have named, with what was *)
(* synced.                                                                  *)
LEMMA PowerLossStep == ASSUME IInv, PowerLoss PROVE IInv'
<1>1. PICK c \in disk.mayName, whole \in BOOLEAN :
          disk' = [disk EXCEPT !.current = c, !.mayName = {c}, !.synced = Inodes,
                      !.file[c] = IF whole \/ c \in disk.synced THEN @ ELSE Torn]
    BY DEF PowerLoss
<1>2. /\ call' = [p \in Procs |-> Idle] /\ lock' = [ex |-> {}, sh |-> {}]
      /\ guest' = Off /\ left' = [left EXCEPT !.faults = @ - 1]
      /\ left.faults > 0 /\ Silent /\ UNCHANGED <<known, acked, dirty>>
    BY DEF PowerLoss
<1>3. /\ disk \in [file : [Inodes -> Views], current : Inodes,
                   mayName : SUBSET Inodes, synced : SUBSET Inodes]
      /\ c \in Inodes
    BY DEF IInv, TypeOK
<1>4. /\ disk'.current = c /\ disk'.mayName = {c} /\ disk'.synced = Inodes
      /\ disk'.file[c] = IF whole \/ c \in disk.synced THEN disk.file[c] ELSE Torn
      /\ disk'.file \in [Inodes -> Views]
    BY <1>1, <1>3, ContentsAreWhole
<1>5. disk' \in [file : [Inodes -> Views], current : Inodes,
                 mayName : SUBSET Inodes, synced : SUBSET Inodes]
    BY <1>1, <1>3, <1>4
<1>6. TypeOK'
    <2>1. reply' \in Answers
        BY <1>2, ContentsAreWhole DEF Silent, NoReply, Answers
    <2>2. guest' \in [at : {"off", "open", "idle", "commit", "half"},
                      fd : Descriptors, next : Views, name : Names \cup {Absent}]
        BY <1>2, ContentsAreWhole DEF Off, Descriptors
    <2>3. left' \in [calls : Nat, edits : Nat, faults : Nat]
        BY <1>2 DEF IInv, TypeOK
    <2>4. call' \in [Procs -> Call] /\ known' \in [Procs -> Contents]
        BY <1>2, IdleIsACall DEF IInv, TypeOK
    <2> QED  BY <1>2, <1>5, <2>1, <2>2, <2>3, <2>4 DEF IInv, TypeOK
<1>7. LockInv' /\ GuestInv'
    BY <1>2 DEF LockInv, GuestInv, Off
<1>8. DiskInv'
    BY <1>2, <1>3, <1>4 DEF IInv, DiskInv, Images
<1>9. AckInv'
    BY <1>2, <1>3, <1>4 DEF IInv, AckInv, image
<1>10. CallInv'
    BY <1>2 DEF CallInv, OpenInv, WriterInv, At, Writing, Idle
<1> QED  BY <1>6, <1>7, <1>8, <1>9, <1>10 DEF IInv
-----------------------------------------------------------------------------
(* A step that changes nothing keeps the invariant.                         *)
LEMMA StutterStep == ASSUME IInv, UNCHANGED vars PROVE IInv'
<1> USE DEF vars
<1>1. TypeOK'
    BY DEF IInv, TypeOK
<1>2. LockInv' /\ GuestInv' /\ DiskInv' /\ AckInv'
    BY DEF IInv, LockInv, GuestInv, DiskInv, AckInv, image
<1>3. CallInv'
    BY CallsStay
<1> QED  BY <1>1, <1>2, <1>3 DEF IInv

(* Every step keeps the invariant.                                          *)
LEMMA NextInvariant == ASSUME IInv, [Next]_vars PROVE IInv'
<1>1. ASSUME NEW p \in Procs,
             \/ BeginCall(p) \/ OpenImage(p) \/ MountImage(p) \/ MountCorrupt(p)
             \/ Judge(p) \/ CopyImage(p) \/ SyncCopy(p)
             \/ RenameOver(p) \/ SyncParent(p) \/ Acknowledge(p)
             \/ ObserveBefore(p) \/ ReadNote(p) \/ CompareAfter(p)
             \/ Fail(p) \/ Kill(p)
      PROVE  IInv'
    BY <1>1, BeginCallStep, OpenImageStep, MountImageStep, MountCorruptStep,
       JudgeStep, CopyImageStep, SyncCopyStep, RenameOverStep, SyncParentStep,
       AcknowledgeStep, ObserveBeforeStep, ReadNoteStep, CompareAfterStep,
       FailStep, KillStep
<1> QED  BY <1>1, GuestLockStep, GuestOpenStep, GuestStopStep, GuestDataStep,
            GuestHalfStep, GuestCommitStep, PowerLossStep, StutterStep DEF Next

(* The inductive invariant holds throughout.                                *)
THEOREM Invariance == Spec => []IInv
<1>1. Init => IInv
    BY InitInvariant
<1>2. IInv /\ [Next]_vars => IInv'
    BY NextInvariant
<1> QED  BY <1>1, <1>2, PTL DEF Spec

(* Every variable always holds what its declaration says; in particular the *)
(* identity a caller is told is that of a whole image.                       *)
THEOREM TypeCorrect == Spec => []TypeOK
<1>1. IInv => TypeOK
    BY DEF IInv
<1> QED  BY <1>1, Invariance, PTL

(* From its judgement to the rename a commit's image is the one its caller   *)
(* saw, and its copy is that image with the one note in it: the exclusive    *)
(* lock that write_image is called under keeps everybody else out.           *)
THEOREM NoLostUpdateHolds == Spec => []NoLostUpdate
<1>1. ASSUME IInv PROVE NoLostUpdate
    BY <1>1 DEF IInv, CallInv, OpenInv, WriterInv, NoLostUpdate, Replacing
<1> QED  BY <1>1, Invariance, PTL

(* An image that no guest wrote in place can be mounted, whatever inode a   *)
(* power loss leaves at its path.                                           *)
THEOREM ImageSurvivesHolds == Spec => []ImageSurvives
<1>1. ASSUME IInv PROVE ImageSurvives
    BY <1>1 DEF IInv, DiskInv, ImageSurvives, image
<1> QED  BY <1>1, Invariance, PTL

(* A write that was acknowledged is the path's image until the next change,  *)
(* through every failure, kill and power loss.                              *)
THEOREM AckedWriteLastsHolds == Spec => []AckedWriteLasts
<1>1. ASSUME IInv PROVE AckedWriteLasts
    BY <1>1 DEF IInv, AckInv, AckedWriteLasts
<1> QED  BY <1>1, Invariance, PTL

(* The inode an emulator writes to is the one the path names: nobody renames *)
(* over the image while a guest runs.                                       *)
THEOREM GuestKeepsImageHolds == Spec => []GuestKeepsImage
<1>1. ASSUME IInv PROVE GuestKeepsImage
    BY <1>1 DEF IInv, TypeOK, GuestInv, GuestKeepsImage
<1> QED  BY <1>1, Invariance, PTL
-----------------------------------------------------------------------------
(* Only the call's own steps end it.                                        *)
LEMMA OnlyItsOwnStepsEnd ==
    ASSUME IInv, Next, NEW p \in Procs, Replied(p), Writing(p)
    PROVE  Judge(p) \/ Acknowledge(p) \/ Fail(p) \/ MountCorrupt(p)
<1>1. call \in [Procs -> Call] /\ call[p].at # "idle" /\ call'[p].at = "idle"
      /\ reply' # NoReply
    BY DEF IInv, TypeOK, Replied, At
<1>2. ~Silent
    BY <1>1 DEF Silent
<1>3. PICK q \in Procs : \/ Judge(q) \/ Acknowledge(q) \/ Fail(q)
                         \/ MountCorrupt(q) \/ ObserveBefore(q)
                         \/ ReadNote(q) \/ CompareAfter(q)
    BY <1>2 DEF Next, BeginCall, OpenImage, MountImage, CopyImage, SyncCopy,
                RenameOver, SyncParent, Kill, GuestLock, GuestOpen, GuestStop,
                GuestData, GuestHalf, GuestCommit, PowerLoss
<1>4. PICK result, source : Reply(q, result, source)
    BY <1>2, <1>3 DEF Judge, Acknowledge, Fail, MountCorrupt, ObserveBefore,
                      ReadNote, CompareAfter
<1>5. q = p
    BY <1>1, <1>4 DEF Reply
<1>6. call[p].at # "read"
    BY DEF IInv, CallInv, WriterInv, Replacing, Replaced
<1> QED  BY <1>3, <1>5, <1>6
         DEF ObserveBefore, ReadNote, CompareAfter, Asking, NoLock, Writing, At

(* Every reply of a commit is true: OK names the image the path has, with    *)
(* the note in it and durable; an error tells by `committed' whether the     *)
(* image was replaced.                                                      *)
THEOREM ReplyIsTrueHolds == Spec => ReplyIsTrue
<1>1. ASSUME IInv, Next, NEW p \in Procs, Replied(p), Writing(p)
      PROVE  ReplyHolds(p)
    <2>1. WriterInv(p) /\ OpenInv(p)
        BY <1>1 DEF IInv, CallInv
    <2>2. CASE Judge(p)
        <3>1. /\ disk' = disk /\ call[p].at = "before"
              /\ call[p].view = image /\ call[p].before = NoImage
              /\ ~call[p].committed
            BY <1>1, <2>1, <2>2 DEF Judge, At, WriterInv
        <3>2. reply'.committed = call[p].committed
              /\ (reply'.result = "OK" => Same(p) /\ reply'.source = call[p].view)
            BY <1>1, <2>2 DEF Judge, Reply, Silent, Replied
        <3> QED  BY <3>1, <3>2 DEF ReplyHolds, image, Same
    <2>3. CASE Acknowledge(p)
        <3>1. /\ disk' = disk /\ call[p].at = "after"
              /\ call[p].view = image /\ disk.mayName = {disk.current}
              /\ image = Edited(p, call[p].before) /\ call[p].before \in Contents
              /\ call[p].name \in Names /\ call[p].text \in Texts
            BY <1>1, <2>1, <2>3 DEF Acknowledge, At, WriterInv, Replaced
        <3>2. reply'.result = "OK" /\ reply'.source = call[p].view
            BY <2>3 DEF Acknowledge, Reply
        <3>3. image[call[p].name] = call[p].text
            BY <3>1, EditedIsWhole
        <3> QED  BY <3>1, <3>2, <3>3 DEF ReplyHolds, image
    <2>4. CASE Fail(p)
        <3>1. /\ disk' = disk /\ reply'.result = "IO"
              /\ reply'.committed = call[p].committed
              /\ call[p].at # "idle"
            BY <2>4 DEF Fail, Reply, At
        <3> QED  BY <1>1, <2>1, <3>1
                 DEF ReplyHolds, WriterInv, Replacing, Replaced, image
    <2>5. CASE MountCorrupt(p)
        <3>1. call[p].at = "mount" /\ reply'.result = "CORRUPT"
            BY <1>1, <2>1, <2>5 DEF MountCorrupt, WriterInv, Replacing, Replaced, Reply
        <3>2. call[p].before = NoImage
            BY <1>1, <2>1, <3>1 DEF WriterInv
        <3> QED  BY <3>1, <3>2 DEF ReplyHolds
    <2> QED  BY <1>1, <2>2, <2>3, <2>4, <2>5, OnlyItsOwnStepsEnd
<1>2. IInv /\ [Next]_vars
          => [\A p \in Procs : Replied(p) /\ Writing(p) => ReplyHolds(p)]_vars
    BY <1>1
<1> QED  BY <1>2, Invariance, PTL DEF Spec, ReplyIsTrue
-----------------------------------------------------------------------------
(***************************************************************************)
(* A block query holds no lock, so its answer is true by the comparison of   *)
(* its two looks.  Up to two changes of a guest overlap it: the first can    *)
(* only free blocks the query's directory names, the second reuse them, and  *)
(* then what the first changed is still not what the query saw before.      *)
(***************************************************************************)
Overtaken(p) == Changing /\ guest.fd = call[p].fd

(* A change of the guest changes the note it is about.                       *)
GuestNextInv ==
    /\ guest.at = "commit" =>
          /\ disk.file[guest.fd] \in Contents
          /\ guest.next[guest.name] # disk.file[guest.fd][guest.name]
    /\ guest.at = "half" => disk.file[guest.fd] = Torn

(* The query's copy of the directory until the second change.               *)
ViewInv(p) ==
    /\ call[p].freed = {} =>
          /\ disk.file[call[p].fd] # Torn => disk.file[call[p].fd] = call[p].view
          /\ Overtaken(p) => guest.next[guest.name] # call[p].view[guest.name]
    /\ Overtaken(p) => call[p].freed = {}
    /\ \A x \in call[p].freed : disk.file[call[p].fd][x] # call[p].view[x]

(* The second look will find another image than the first.                   *)
WillDiffer(p) ==
    /\ disk.file[call[p].fd] # call[p].before
    /\ Overtaken(p) => guest.next # call[p].before

QueryInv(p) ==
    call[p].kind = "block" =>
       /\ call[p].at = "open" => call[p].freed = {} /\ call[p].view = NoImage
       /\ call[p].at \notin {"idle", "open"} =>
             (call[p].freed # {} \/ Overtaken(p) => call[p].moved >= 1)
       /\ call[p].at \in {"before", "read"} /\ call[p].moved <= 1 => ViewInv(p)
       /\ call[p].at = "read" =>
             /\ call[p].before \in Contents
             /\ call[p].moved <= 1 => call[p].before = call[p].view
             /\ call[p].moved <= 2 /\
                call[p].view[call[p].name] # call[p].before[call[p].name]
                => WillDiffer(p)
       /\ call[p].at \in {"remount", "after"} =>
             /\ call[p].before \in Contents
             /\ call[p].moved <= 1 =>
                   call[p].answer = call[p].before[call[p].name]
             /\ call[p].moved <= 2 /\
                call[p].answer # call[p].before[call[p].name]
                => IF call[p].at = "remount" THEN WillDiffer(p)
                   ELSE call[p].view # call[p].before

QInv == IInv /\ GuestNextInv /\ \A p \in Procs : QueryInv(p)

(* A query that does not move is not disturbed by what is done elsewhere.    *)
LEMMA QueryStays ==
    ASSUME IInv, NEW q \in Procs, QueryInv(q), call'[q] = call[q],
           call[q].fd \in Inodes => disk'.file[call[q].fd] = disk.file[call[q].fd],
           Changing' => Changing /\ guest'.fd = guest.fd /\ guest'.next = guest.next
                        /\ guest'.name = guest.name
    PROVE  QueryInv(q)'
<1>1. OpenInv(q)
    BY DEF IInv, CallInv
<1>2. CASE call[q].at \in {"idle", "open"}
    BY <1>2 DEF QueryInv
<1>3. CASE call[q].at \notin {"idle", "open"}
    <2>1. disk'.file[call[q].fd] = disk.file[call[q].fd]
        BY <1>1, <1>3 DEF OpenInv
    <2>2. Overtaken(q)' => Overtaken(q)
        BY DEF Overtaken
    <2>3. ViewInv(q) => ViewInv(q)'
        BY <2>1, <2>2 DEF ViewInv, Overtaken
    <2>4. WillDiffer(q) => WillDiffer(q)'
        BY <2>1, <2>2 DEF WillDiffer, Overtaken
    <2> QED  BY <1>3, <2>1, <2>2, <2>3, <2>4 DEF QueryInv
<1> QED  BY <1>2, <1>3

(* What the step of one call leaves to the others.                           *)
ProcStep(p) ==
    \/ BeginCall(p) \/ OpenImage(p) \/ MountImage(p) \/ MountCorrupt(p)
    \/ Judge(p) \/ CopyImage(p) \/ SyncCopy(p)
    \/ RenameOver(p) \/ SyncParent(p) \/ Acknowledge(p)
    \/ ObserveBefore(p) \/ ReadNote(p) \/ CompareAfter(p)
    \/ Fail(p) \/ Kill(p)

(* A step of one process changes neither the guest, nor another's call, nor *)
(* an inode that another has open.                                          *)
LEMMA ProcStepLeaves ==
    ASSUME IInv, NEW p \in Procs, ProcStep(p)
    PROVE  /\ guest' = guest
           /\ \A q \in Procs \ {p} :
                 /\ call'[q] = call[q]
                 /\ call[q].fd \in Inodes =>
                       disk'.file[call[q].fd] = disk.file[call[q].fd]
<1>1. call \in [Procs -> Call]
      /\ disk \in [file : [Inodes -> Views], current : Inodes,
                   mayName : SUBSET Inodes, synced : SUBSET Inodes]
    BY DEF IInv, TypeOK
<1>2. CASE BeginCall(p) \/ OpenImage(p) \/ ObserveBefore(p) \/ ReadNote(p)
    BY <1>1, <1>2 DEF BeginCall, OpenImage, ObserveBefore, ReadNote, Reply
<1>3. CASE MountImage(p)
    BY <1>1, <1>3 DEF MountImage, Mounted
<1>4. CASE Judge(p)
    BY <1>1, <1>4 DEF Judge, Reply
<1>5. CASE \/ MountCorrupt(p) \/ Acknowledge(p) \/ CompareAfter(p)
           \/ Fail(p) \/ Kill(p)
    BY <1>1, <1>5 DEF MountCorrupt, Acknowledge, CompareAfter, Fail, Kill, Reply
<1>6. CASE SyncCopy(p) \/ RenameOver(p) \/ SyncParent(p)
    BY <1>1, <1>6 DEF SyncCopy, RenameOver, SyncParent, GoTo
<1>7. CASE CopyImage(p)
    <2>1. PICK i \in FreeInodes :
             /\ disk' = [disk EXCEPT !.file[i] = Edited(p, image),
                                     !.synced = @ \ {i}]
             /\ call' = [call EXCEPT ![p].at = "sync", ![p].temp = i,
                                     ![p].fd = disk.current]
        BY <1>7 DEF CopyImage
    <2>2. \A q \in Procs : call[q].fd # i
        BY DEF FreeInodes, InUse
    <2>3. disk'.file = [disk.file EXCEPT ![i] = Edited(p, image)]
        BY <1>1, <2>1
    <2>4. guest' = guest
        BY <1>7 DEF CopyImage
    <2> QED  BY <1>1, <2>1, <2>2, <2>3, <2>4
<1> QED  BY <1>2, <1>3, <1>4, <1>5, <1>6, <1>7 DEF ProcStep

(* A process changes nothing of a guest's commit.                           *)
LEMMA GuestNextStays ==
    ASSUME QInv, NEW p \in Procs, ProcStep(p) PROVE GuestNextInv'
<1>1. guest' = guest
    BY ProcStepLeaves DEF QInv
<1>2. CASE ~Changing
    BY <1>1, <1>2 DEF GuestNextInv, Changing
<1>3. CASE Changing
    <2>1. ~Writing(p)
        BY <1>3, NoWriterBesideGuest DEF QInv, Changing
    <2>2. disk' = disk
        <3>1. ~CopyImage(p) /\ ~SyncCopy(p) /\ ~RenameOver(p) /\ ~SyncParent(p)
            BY <2>1 DEF QInv, IInv, CallInv, OpenInv, CopyImage, SyncCopy,
                        RenameOver, SyncParent, At
        <3> QED  BY <3>1 DEF ProcStep, BeginCall, OpenImage, MountImage,
                    MountCorrupt, Judge, Acknowledge, ObserveBefore, ReadNote,
                    CompareAfter, Fail, Kill
    <2> QED  BY <1>1, <2>2 DEF QInv, GuestNextInv
<1> QED  BY <1>2, <1>3

(* The copy of the image is followed by its fsync.                          *)
LEMMA CopyGoesOn ==
    ASSUME IInv, NEW p \in Procs, CopyImage(p)
    PROVE  call'[p].at = "sync" /\ call'[p].kind = call[p].kind
<1>1. call \in [Procs -> Call]
    BY DEF IInv, TypeOK
<1>2. PICK i \in FreeInodes :
          call' = [call EXCEPT ![p].at = "sync", ![p].temp = i,
                               ![p].fd = disk.current]
    BY DEF CopyImage
<1> QED  BY <1>1, <1>2 DEF Call

(* The query's own steps.                                                   *)
LEMMA OwnStep ==
    ASSUME QInv, NEW p \in Procs, ProcStep(p) PROVE QueryInv(p)'
<1>1. /\ call \in [Procs -> Call] /\ OpenInv(p) /\ WriterInv(p)
      /\ QueryInv(p) /\ GuestInv /\ GuestNextInv /\ guest' = guest
      /\ DiskInv
    BY ProcStepLeaves DEF QInv, IInv, TypeOK, CallInv
<1>2. CASE call'[p].at \in {"idle", "open"}
    <2>1. call'[p].at = "open" => BeginCall(p)
        <3>2. \A r, s : Reply(p, r, s) => call'[p].at = "idle"
            BY <1>1 DEF Reply, Idle
        <3>3. CASE MountCorrupt(p) \/ Acknowledge(p) \/ CompareAfter(p) \/ Fail(p)
            BY <3>2, <3>3 DEF MountCorrupt, Acknowledge, CompareAfter, Fail
        <3>4. CASE Kill(p)
            BY <1>1, <3>4 DEF Kill, Idle
        <3>5. CASE Judge(p)
            BY <1>1, <3>2, <3>5 DEF Judge, Call
        <3>6. CASE ObserveBefore(p)
            BY <1>1, <3>2, <3>6 DEF ObserveBefore, Call
        <3>7. CASE ReadNote(p)
            BY <1>1, <3>2, <3>7 DEF ReadNote, Call, SecondLook
        <3>8. CASE MountImage(p)
            BY <1>1, <3>8 DEF MountImage, Mounted, Call
        <3>9. CASE OpenImage(p)
            BY <1>1, <3>9 DEF OpenImage, Call
        <3>10. CASE SyncCopy(p) \/ RenameOver(p) \/ SyncParent(p)
            BY <1>1, <3>10 DEF SyncCopy, RenameOver, SyncParent, GoTo, Call
        <3>11. CASE CopyImage(p)
            BY <1>1, <3>11, CopyGoesOn DEF QInv
        <3> QED  BY <3>11, <3>3, <3>4, <3>5, <3>6, <3>7, <3>8, <3>9, <3>10 DEF ProcStep
    <2>2. BeginCall(p) => call'[p].freed = {} /\ call'[p].view = NoImage
        BY <1>1 DEF BeginCall, Idle
    <2> QED  BY <1>2, <2>1, <2>2 DEF QueryInv
<1>3. CASE Writing(p)
    <2>1. call'[p].kind = "commit" \/ call'[p].at = "idle"
        <3>1. CASE \/ MountCorrupt(p) \/ Judge(p) \/ Acknowledge(p)
                   \/ Fail(p) \/ Kill(p)
            BY <1>1, <1>3, <3>1 DEF MountCorrupt, Judge, Acknowledge, Fail, Kill,
                                    Reply, Writing, Idle, Call
        <3>2. CASE MountImage(p)
            BY <1>1, <1>3, <3>2 DEF MountImage, Mounted, Writing, Call
        <3>5. CASE OpenImage(p)
            BY <1>1, <1>3, <3>5 DEF OpenImage, Writing, Call
        <3>6. CASE CopyImage(p)
            BY <1>3, <3>6, CopyGoesOn DEF QInv, Writing
        <3>3. CASE SyncCopy(p) \/ RenameOver(p) \/ SyncParent(p)
            BY <1>1, <1>3, <3>3 DEF SyncCopy, RenameOver,
                                    SyncParent, GoTo, Writing, Call
        <3>4. ~BeginCall(p) /\ ~ObserveBefore(p) /\ ~ReadNote(p) /\ ~CompareAfter(p)
            BY <1>1, <1>3 DEF BeginCall, ObserveBefore, ReadNote, CompareAfter,
                   OpenInv, WriterInv, Writing, At, Asking, NoLock, Idle,
                   Replacing, Replaced
        <3> QED  BY <3>1, <3>2, <3>3, <3>4, <3>5, <3>6 DEF ProcStep
    <2> QED  BY <2>1 DEF QueryInv
<1>4. CASE ~Writing(p) /\ call'[p].at \notin {"idle", "open"}
    <2>1. ~CopyImage(p) /\ ~SyncCopy(p) /\ ~RenameOver(p) /\ ~SyncParent(p)
          /\ ~Acknowledge(p)
        BY <1>1, <1>4 DEF OpenInv, CopyImage, SyncCopy, RenameOver, SyncParent,
                          Acknowledge, At
    <2>2. ~BeginCall(p)
        <3>1. BeginCall(p) => call'[p].at = "open"
            BY <1>1 DEF BeginCall, Idle
        <3> QED  BY <1>4, <3>1
    <2>3. \A r, s : ~Reply(p, r, s)
        BY <1>1, <1>4 DEF Reply, Idle
    <2>4. ~MountCorrupt(p) /\ ~CompareAfter(p) /\ ~Fail(p) /\ ~Judge(p)
        BY <1>4, <2>3 DEF MountCorrupt, CompareAfter, Fail, Judge
    <2>5. ~Kill(p)
        BY <1>1, <1>4 DEF Kill, Idle
    <2>6. CASE OpenImage(p)
        <3>1. /\ call'[p].at = "mount" /\ call'[p].fd = disk.current
              /\ call'[p].moved = IF Changing THEN 1 ELSE 0
              /\ call'[p].freed = call[p].freed
              /\ call'[p].kind = call[p].kind
            BY <1>1, <2>6 DEF OpenImage, Call
        <3>2. call[p].kind = "block" => call[p].freed = {}
            BY <1>1, <2>6 DEF QueryInv, OpenImage, At
        <3> QED  BY <1>1, <3>1, <3>2 DEF QueryInv, Overtaken, Changing
    <2>7. CASE MountImage(p)
        <3>1. disk' = disk
            BY <2>7 DEF MountImage
        <3>2. \/ At(p, "mount") /\ call' = Mounted(p, "before")
              \/ At(p, "remount") /\ call' = Mounted(p, "after")
            BY <1>1, <1>4, <2>7 DEF MountImage, OpenInv, At
        <3>3. /\ call'[p].freed = {} /\ call'[p].fd = call[p].fd
              /\ call'[p].view = disk.file[call[p].fd]
              /\ call'[p].view # Torn
              /\ call'[p].moved = call[p].moved
              /\ call'[p].before = call[p].before
              /\ call'[p].answer = call[p].answer /\ SameRequest(p)
            <4>1. PICK place \in {"before", "after"} : call' = Mounted(p, place)
                BY <3>2
            <4>2. call'[p] = [call[p] EXCEPT !.at = place, !.freed = {},
                                             !.view = disk.file[call[p].fd]]
                BY <1>1, <4>1 DEF Mounted
            <4>3. call[p] \in Call /\ call'[p].view # Torn
                BY <1>1, <2>7 DEF MountImage
            <4> QED  BY <4>2, <4>3 DEF Call, SameRequest
        <3>4. CASE At(p, "mount") /\ call'[p].at = "before"
            <4>1. ViewInv(p)'
                BY <1>1, <3>1, <3>3
                   DEF ViewInv, Overtaken, Changing, GuestNextInv
            <4> QED  BY <1>1, <3>3, <3>4, <4>1
                     DEF QueryInv, Overtaken, Changing, SameRequest, At
        <3>5. CASE At(p, "remount") /\ call'[p].at = "after"
            BY <1>1, <3>1, <3>3, <3>5
               DEF QueryInv, Overtaken, Changing, SameRequest, At, WillDiffer
        <3>6. \/ At(p, "mount") /\ call'[p].at = "before"
              \/ At(p, "remount") /\ call'[p].at = "after"
            BY <1>1, <3>2 DEF Mounted, At, Call
        <3> QED  BY <3>4, <3>5, <3>6
    <2>8. CASE ObserveBefore(p)
        <3>1. /\ call' = [call EXCEPT ![p].at = "read", ![p].before = call[p].view]
              /\ disk' = disk /\ call[p].at = "before"
            BY <2>3, <2>8 DEF ObserveBefore, At
        <3>2. /\ call'[p].at = "read" /\ call'[p].before = call[p].view
              /\ call'[p].fd = call[p].fd /\ call'[p].view = call[p].view
              /\ call'[p].moved = call[p].moved /\ call'[p].freed = call[p].freed
              /\ SameRequest(p)
            BY <1>1, <3>1 DEF Call, SameRequest
        <3>3. ViewInv(p) => ViewInv(p)'
            BY <1>1, <3>1, <3>2 DEF ViewInv, Overtaken, Changing
        <3>4. call[p].view \in Contents
            BY <1>1, <3>1 DEF OpenInv
        <3> QED  BY <1>1, <3>1, <3>2, <3>3, <3>4
                 DEF QueryInv, Overtaken, Changing, SameRequest
    <2>9. CASE ReadNote(p)
        <3>1. /\ call' = [call EXCEPT ![p].at = SecondLook(call[p].kind),
                               ![p].answer = call[p].view[call[p].name]]
              /\ disk' = disk /\ call[p].at = "read"
            BY <2>3, <2>9 DEF ReadNote, At
        <3>2. /\ call'[p].at = SecondLook(call[p].kind)
              /\ call'[p].answer = call[p].view[call[p].name]
              /\ call'[p].before = call[p].before
              /\ call'[p].fd = call[p].fd /\ call'[p].view = call[p].view
              /\ call'[p].moved = call[p].moved /\ call'[p].freed = call[p].freed
              /\ SameRequest(p)
            BY <1>1, <3>1 DEF Call, SameRequest
        <3>3. WillDiffer(p) => WillDiffer(p)'
            BY <1>1, <3>1, <3>2 DEF WillDiffer, Overtaken, Changing
        <3>4. call[p].kind = "block" => call'[p].at = "remount"
            BY <3>2 DEF SecondLook
        <3> QED  BY <1>1, <3>1, <3>2, <3>3, <3>4
                 DEF QueryInv, Overtaken, Changing, SameRequest
    <2> QED  BY <2>1, <2>2, <2>4, <2>5, <2>6, <2>7, <2>8, <2>9 DEF ProcStep
<1> QED  BY <1>2, <1>3, <1>4

(* A change of the guest begins: the query's directory may be overwritten    *)
(* where an earlier one freed it.                                           *)
LEMMA QueryGuestData ==
    ASSUME QInv, GuestData, NEW p \in Procs PROVE QueryInv(p)'
<1>1. /\ call[p] \in Call /\ OpenInv(p) /\ QueryInv(p)
      /\ disk \in [file : [Inodes -> Views], current : Inodes,
                   mayName : SUBSET Inodes, synced : SUBSET Inodes]
    BY DEF QInv, IInv, TypeOK, CallInv
<1>2. PICK n \in Names, t \in Texts \cup {Absent}, reused \in SUBSET Names :
          /\ t # disk.file[guest.fd][n]
          /\ t = Absent => reused = {}
          /\ guest' = [guest EXCEPT !.at = "commit", !.name = n,
                          !.next = [disk.file[guest.fd] EXCEPT ![n] = t]]
          /\ call' = [q \in Procs |->
                IF q \notin Readers THEN call[q]
                ELSE [call[q] EXCEPT !.moved = OneMore(@),
                        !.view = [x \in Names |->
                            IF x \in reused \cap call[q].freed THEN t
                            ELSE call[q].view[x]]]]
    BY DEF GuestData
<1>3. /\ guest.at = "idle" /\ disk.file[guest.fd] # Torn
      /\ disk' = [disk EXCEPT !.synced = @ \ {guest.fd}]
    BY DEF GuestData
<1>4. disk'.file = disk.file
    BY <1>1, <1>3
<1>5. /\ guest.fd = disk.current /\ disk.file[guest.fd] \in Contents
    BY <1>3 DEF QInv, IInv, TypeOK, GuestInv, DiskInv, Images
<1>6. /\ guest'.at = "commit" /\ guest'.fd = guest.fd /\ guest'.name = n
      /\ guest'.next = [disk.file[guest.fd] EXCEPT ![n] = t]
    BY <1>2 DEF QInv, IInv, TypeOK
<1>7. /\ guest'.next[n] = t
      /\ \A x \in Names : x # n => guest'.next[x] = disk.file[guest.fd][x]
    BY <1>5, <1>6 DEF Contents
<1>8. ~Changing
    BY <1>3 DEF Changing
<1>9. CASE p \notin Readers
    <2>1. call'[p] = call[p]
        BY <1>2, <1>9
    <2>2. CASE At(p, "idle")
        BY <1>1, <2>1, <2>2 DEF OpenInv, QueryInv, Idle
    <2>3. CASE ~At(p, "idle")
        <3>1. ~Overtaken(p)' /\ ~Overtaken(p)
            BY <1>6, <1>8, <1>9, <2>1, <2>3 DEF Overtaken, Readers, Changing
        <3>2. (ViewInv(p) => ViewInv(p)') /\ (WillDiffer(p) => WillDiffer(p)')
            BY <1>4, <2>1, <3>1 DEF ViewInv, WillDiffer
        <3> QED  BY <1>1, <1>4, <2>1, <3>1, <3>2 DEF QueryInv
    <2> QED  BY <2>2, <2>3
<1>10. CASE p \in Readers /\ call[p].kind = "block"
    <2> DEFINE v == [x \in Names |-> IF x \in reused \cap call[p].freed THEN t
                                     ELSE call[p].view[x]]
               k == OneMore(call[p].moved)
    <2>1. call'[p] = [call[p] EXCEPT !.moved = k, !.view = v]
        BY <1>2, <1>10
    <2>2. /\ call'[p].at = call[p].at /\ SameRequest(p)
          /\ call'[p].fd = call[p].fd /\ call'[p].freed = call[p].freed
          /\ call'[p].before = call[p].before /\ call'[p].answer = call[p].answer
          /\ call'[p].moved = k /\ call'[p].view = v
        BY <1>1, <2>1 DEF Call, SameRequest
    <2>3. /\ call[p].moved \in 0..3 /\ call[p].view \in Views
          /\ call[p].freed \subseteq Names
        BY <1>1 DEF Call
    <2>4. /\ k >= 1
          /\ k <= 1 => call[p].moved = 0
          /\ k <= 2 => call[p].moved <= 1
        BY <2>3 DEF OneMore
    <2>5. call[p].freed = {} => v = call[p].view
        BY <2>3 DEF Views
    <2>6. /\ \A x \in Names : v[x] # call[p].view[x] => v[x] = t /\ x \in call[p].freed
        OBVIOUS
    <2> HIDE DEF v, k
    <2>7. call[p].fd = guest.fd /\ call[p].at # "idle"
        BY <1>10 DEF Readers, At
    <2>8. call[p].name \in Names
        BY <1>1, <2>7 DEF OpenInv
    <2>9. Overtaken(p)'
        BY <1>6, <2>2, <2>7 DEF Overtaken, Changing
    <2>10. ASSUME call[p].at \in {"before", "read"}, k <= 1 PROVE ViewInv(p)'
        <3>1. call[p].moved = 0 /\ ViewInv(p) /\ call[p].freed = {}
            BY <1>1, <1>10, <2>3, <2>4, <2>10 DEF QueryInv
        <3>2. disk.file[guest.fd] = call[p].view /\ v = call[p].view
            BY <1>3, <2>5, <2>7, <3>1 DEF ViewInv
        <3>3. t # call[p].view[n]
            BY <1>2, <3>2
        <3> QED  BY <1>4, <1>6, <1>7, <2>2, <2>7, <3>1, <3>2, <3>3 DEF ViewInv
    <2>11. ASSUME call[p].at = "read", k <= 2,
                  v[call[p].name] # call[p].before[call[p].name]
           PROVE  WillDiffer(p)'
        <3>1. call[p].moved <= 1 /\ call[p].before = call[p].view /\ ViewInv(p)
            BY <1>1, <1>10, <2>4, <2>11 DEF QueryInv
        <3>2. v[call[p].name] = t /\ call[p].name \in call[p].freed
            BY <2>6, <2>8, <2>11, <3>1
        <3>3. disk.file[guest.fd][call[p].name] # call[p].before[call[p].name]
            BY <2>7, <3>1, <3>2 DEF ViewInv
        <3>4. guest'.next[call[p].name] # call[p].before[call[p].name]
            BY <1>7, <2>8, <2>11, <3>2, <3>3
        <3> QED  BY <1>4, <2>2, <2>7, <3>3, <3>4 DEF WillDiffer
    <2>12. CASE call[p].at \in {"open", "mount"}
        BY <1>1, <1>10, <2>2, <2>4, <2>5, <2>12 DEF QueryInv, SameRequest
    <2>13. CASE call[p].at = "before"
        BY <1>1, <1>10, <2>2, <2>4, <2>10, <2>13 DEF QueryInv, SameRequest
    <2>14. CASE call[p].at = "read"
        <3>1. k <= 1 => call[p].before = v
            BY <1>1, <1>10, <2>3, <2>4, <2>5, <2>14 DEF QueryInv
        <3> QED  BY <1>1, <1>10, <2>2, <2>4, <2>10, <2>11, <2>14, <3>1
                 DEF QueryInv, SameRequest
    <2>15. CASE call[p].at \in {"remount", "after"}
        <3>1. k <= 2 => call[p].answer = call[p].before[call[p].name]
            BY <1>1, <1>10, <2>4, <2>15 DEF QueryInv
        <3>2. k <= 1 => k <= 2
            BY <2>3 DEF k, OneMore
        <3> QED  BY <1>1, <1>10, <2>2, <2>4, <2>15, <3>1, <3>2
                 DEF QueryInv, SameRequest
    <2>16. CASE call[p].at \notin {"open", "mount", "before", "read", "remount", "after"}
        BY <1>1, <1>10, <2>2, <2>4, <2>16 DEF QueryInv, SameRequest
    <2> QED  BY <2>12, <2>13, <2>14, <2>15, <2>16
<1>11. CASE p \in Readers /\ call[p].kind # "block"
    <2>1. call'[p].kind = call[p].kind
        BY <1>1, <1>2, <1>11 DEF Call
    <2> QED  BY <1>11, <2>1 DEF QueryInv
<1> QED  BY <1>9, <1>10, <1>11

(* After its data write a guest's commit differs from the image in the name *)
(* it writes.                                                               *)
LEMMA GuestNextData == ASSUME QInv, GuestData PROVE GuestNextInv'
<1>1. PICK n \in Names, t \in Texts \cup {Absent}, reused \in SUBSET Names :
          /\ t # disk.file[guest.fd][n]
          /\ t = Absent => reused = {}
          /\ guest' = [guest EXCEPT !.at = "commit", !.name = n,
                          !.next = [disk.file[guest.fd] EXCEPT ![n] = t]]
          /\ call' = [q \in Procs |->
                IF q \notin Readers THEN call[q]
                ELSE [call[q] EXCEPT !.moved = OneMore(@),
                        !.view = [x \in Names |->
                            IF x \in reused \cap call[q].freed THEN t
                            ELSE call[q].view[x]]]]
    BY DEF GuestData
<1>2. /\ guest.at = "idle" /\ disk.file[guest.fd] # Torn
      /\ disk' = [disk EXCEPT !.synced = @ \ {guest.fd}]
    BY DEF GuestData
<1>3. disk'.file = disk.file
    BY <1>2 DEF QInv, IInv, TypeOK
<1>4. disk.file[guest.fd] \in Contents
    BY <1>2 DEF QInv, IInv, TypeOK, GuestInv, DiskInv, Images
<1>5. /\ guest'.at = "commit" /\ guest'.fd = guest.fd /\ guest'.name = n
      /\ guest'.next = [disk.file[guest.fd] EXCEPT ![n] = t]
    BY <1>1 DEF QInv, IInv, TypeOK
<1>6. guest'.next[n] = t
    BY <1>4, <1>5 DEF Contents
<1> QED  BY <1>1, <1>3, <1>4, <1>5, <1>6 DEF GuestNextInv

(* The two writes of a change.                                              *)
LEMMA QueryGuestHalf ==
    ASSUME QInv, GuestHalf PROVE GuestNextInv' /\ \A p \in Procs : QueryInv(p)'
<1>1. /\ guest.at = "commit" /\ call' = call
      /\ disk' = [disk EXCEPT !.file[guest.fd] = Torn]
      /\ guest' = [guest EXCEPT !.at = "half"]
    BY DEF GuestHalf
<1>2. /\ guest'.at = "half" /\ guest'.fd = guest.fd
      /\ guest'.next = guest.next /\ guest'.name = guest.name
      /\ guest.fd \in Inodes /\ guest.name \in Names
    BY <1>1 DEF QInv, IInv, TypeOK, GuestInv
<1>3. /\ disk'.file = [disk.file EXCEPT ![guest.fd] = Torn]
      /\ disk.file \in [Inodes -> Views]
    BY <1>1 DEF QInv, IInv, TypeOK
<1>4. GuestNextInv'
    BY <1>2, <1>3 DEF GuestNextInv
<1>5. ASSUME NEW p \in Procs PROVE QueryInv(p)'
    <2>1. QueryInv(p) /\ OpenInv(p) /\ call[p] \in Call /\ call'[p] = call[p]
        BY <1>1 DEF QInv, IInv, CallInv, TypeOK
    <2>2. CASE call[p].at \in {"idle", "open"}
        BY <2>1, <2>2 DEF QueryInv
    <2>3. CASE call[p].at \notin {"idle", "open"} /\ call[p].fd # guest.fd
        <3>1. ~Overtaken(p)' /\ ~Overtaken(p)
            BY <1>2, <2>1, <2>3 DEF Overtaken
        <3>2. disk'.file[call[p].fd] = disk.file[call[p].fd]
            BY <1>3, <2>1, <2>3 DEF OpenInv
        <3>3. (ViewInv(p) => ViewInv(p)') /\ (WillDiffer(p) => WillDiffer(p)')
            BY <2>1, <3>1, <3>2 DEF ViewInv, WillDiffer
        <3> QED  BY <2>1, <3>1, <3>3 DEF QueryInv
    <2>4. CASE call[p].at \notin {"idle", "open"} /\ call[p].fd = guest.fd
        <3>1. Overtaken(p)' /\ Overtaken(p)
            BY <1>1, <1>2, <2>1, <2>4 DEF Overtaken, Changing
        <3>2. disk'.file[call[p].fd] = Torn
            BY <1>2, <1>3, <2>1, <2>4
        <3>3. ViewInv(p) => ViewInv(p)'
            BY <1>2, <2>1, <3>1, <3>2 DEF ViewInv
        <3>4. call[p].before \in Contents => (WillDiffer(p) => WillDiffer(p)')
            BY <1>2, <2>1, <3>1, <3>2, ContentsAreWhole DEF WillDiffer
        <3> QED  BY <2>1, <3>1, <3>3, <3>4 DEF QueryInv
    <2> QED  BY <2>2, <2>3, <2>4
<1> QED  BY <1>4, <1>5

(* What a meta query remembers stays true when a guest completes a commit:  *)
(* that is a move of the image it counts.                                   *)
LEMMA QueryGuestCommit ==
    ASSUME QInv, GuestCommit PROVE GuestNextInv' /\ \A p \in Procs : QueryInv(p)'
<1>1. /\ guest.at \in {"commit", "half"}
      /\ disk' = [disk EXCEPT !.file[guest.fd] = guest.next]
      /\ guest' = [guest EXCEPT !.at = "idle", !.next = NoImage, !.name = Absent]
      /\ call' = [p \in Procs |->
            IF p \in Readers /\ call[p].view \in Contents
            THEN [call[p] EXCEPT !.freed = @ \cup {guest.name}] ELSE call[p]]
    BY DEF GuestCommit
<1>2. /\ guest'.at = "idle" /\ Changing /\ ~Changing'
      /\ guest.fd \in Inodes /\ guest.name \in Names /\ guest.next \in Contents
    BY <1>1 DEF QInv, IInv, TypeOK, GuestInv, Changing
<1>3. /\ disk'.file = [disk.file EXCEPT ![guest.fd] = guest.next]
      /\ disk.file \in [Inodes -> Views]
    BY <1>1 DEF QInv, IInv, TypeOK
<1>4. GuestNextInv'
    BY <1>2 DEF GuestNextInv
<1>5. ASSUME NEW p \in Procs PROVE QueryInv(p)'
    <2>1. QueryInv(p) /\ OpenInv(p) /\ call[p] \in Call /\ ~Overtaken(p)'
        BY <1>2 DEF QInv, IInv, CallInv, TypeOK, Overtaken
    <2>2. CASE call[p].at = "idle"
        <3>1. call'[p] = call[p]
            BY <1>1, <2>2 DEF Readers, At
        <3> QED  BY <2>2, <3>1 DEF QueryInv
    <2>3. CASE call[p].at # "idle" /\ call[p].fd # guest.fd
        <3>1. call'[p] = call[p] /\ ~Overtaken(p)
            BY <1>1, <2>3 DEF Readers, Overtaken
        <3>2. CASE call[p].at = "open"
            BY <2>1, <3>1, <3>2 DEF QueryInv
        <3>3. CASE call[p].at # "open"
            <4>1. disk'.file[call[p].fd] = disk.file[call[p].fd]
                BY <1>3, <2>1, <2>3, <3>3 DEF OpenInv
            <4>2. (ViewInv(p) => ViewInv(p)') /\ (WillDiffer(p) => WillDiffer(p)')
                BY <2>1, <3>1, <4>1 DEF ViewInv, WillDiffer
            <4> QED  BY <2>1, <2>3, <3>1, <3>3, <4>2 DEF QueryInv
        <3> QED  BY <3>2, <3>3
    <2>4. CASE call[p].at # "idle" /\ call[p].fd = guest.fd
        <3>1. Overtaken(p) /\ p \in Readers
            BY <1>2, <2>4 DEF Overtaken, Readers, At
        <3>2. disk'.file[call[p].fd] = guest.next
            BY <1>2, <1>3, <2>4
        <3>3. /\ call'[p].at = call[p].at /\ SameRequest(p)
              /\ call'[p].fd = call[p].fd /\ call'[p].view = call[p].view
              /\ call'[p].before = call[p].before
              /\ call'[p].answer = call[p].answer
              /\ call'[p].moved = call[p].moved
            BY <1>1, <2>1 DEF Call, SameRequest
        <3>4. /\ call[p].view \in Contents =>
                    call'[p].freed = call[p].freed \cup {guest.name}
              /\ call[p].view \notin Contents => call'[p].freed = call[p].freed
            BY <1>1, <2>1, <3>1 DEF Call
        <3>5. WillDiffer(p) => WillDiffer(p)'
            BY <2>1, <3>1, <3>2, <3>3 DEF WillDiffer
        <3>6. call[p].view \in Contents /\ ViewInv(p) => ViewInv(p)'
            BY <2>1, <3>1, <3>2, <3>3, <3>4 DEF ViewInv
        <3>7. CASE call[p].at = "open"
            <4>1. call[p].kind = "block" => call[p].view = NoImage
                BY <2>1, <3>7 DEF QueryInv
            <4> QED  BY <2>1, <3>3, <3>4, <3>7, <4>1, ContentsAreWhole
                     DEF QueryInv, SameRequest
        <3>8. CASE call[p].at # "open"
            <4>1. call[p].kind = "block" => call[p].moved >= 1
                BY <2>1, <2>4, <3>1, <3>8 DEF QueryInv
            <4> QED  BY <2>1, <2>4, <3>3, <3>5, <3>6, <3>8, <4>1
                     DEF QueryInv, OpenInv, SameRequest
        <3> QED  BY <3>7, <3>8
    <2> QED  BY <2>2, <2>3, <2>4
<1> QED  BY <1>4, <1>5

(* The second invariant holds at the start.                                 *)
LEMMA QueryInit == ASSUME Init PROVE QInv
<1>1. IInv
    BY InitInvariant
<1>2. GuestNextInv
    BY DEF Init, Off, GuestNextInv
<1>3. \A p \in Procs : QueryInv(p)
    BY DEF Init, QueryInv, Idle
<1> QED  BY <1>1, <1>2, <1>3 DEF QInv

(* Every step keeps the second invariant.                                   *)
LEMMA QueryNext == ASSUME QInv, [Next]_vars PROVE QInv'
<1>1. IInv /\ IInv' /\ GuestNextInv /\ \A p \in Procs : QueryInv(p)
    BY NextInvariant DEF QInv
<1>2. ASSUME NEW p \in Procs, ProcStep(p) PROVE QInv'
    <2>1. GuestNextInv' /\ QueryInv(p)'
        BY <1>2, GuestNextStays, OwnStep
    <2>2. ASSUME NEW q \in Procs, q # p PROVE QueryInv(q)'
        <3>1. /\ guest' = guest /\ call'[q] = call[q]
              /\ call[q].fd \in Inodes =>
                    disk'.file[call[q].fd] = disk.file[call[q].fd]
            BY <1>1, <1>2, <2>2, ProcStepLeaves
        <3> QED  BY <1>1, <3>1, QueryStays DEF Changing
    <2> QED  BY <1>1, <2>1, <2>2 DEF QInv
<1>3. CASE GuestLock \/ GuestOpen \/ GuestStop
    <2>1. /\ call' = call /\ disk' = disk
          /\ guest'.at \in {"off", "open", "idle"}
        <3>1. guest \in [at : {"off", "open", "idle", "commit", "half"},
                         fd : Descriptors, next : Views, name : Names \cup {Absent}]
            BY <1>1 DEF IInv, TypeOK
        <3>2. CASE GuestLock
            BY <3>1, <3>2 DEF GuestLock
        <3>3. CASE GuestOpen
            BY <3>1, <3>3 DEF GuestOpen
        <3>4. CASE GuestStop
            BY <3>4 DEF GuestStop, Off
        <3> QED  BY <1>3, <3>2, <3>3, <3>4
    <2>2. ~Changing'
        BY <2>1 DEF Changing
    <2>3. GuestNextInv'
        BY <2>1 DEF GuestNextInv
    <2>4. \A p \in Procs : QueryInv(p)'
        BY <1>1, <2>1, <2>2, QueryStays
    <2> QED  BY <1>1, <2>3, <2>4 DEF QInv
<1>4. CASE GuestData
    BY <1>1, <1>4, QueryGuestData, GuestNextData DEF QInv
<1>5. CASE GuestHalf
    BY <1>1, <1>5, QueryGuestHalf DEF QInv
<1>6. CASE GuestCommit
    BY <1>1, <1>6, QueryGuestCommit DEF QInv
<1>7. CASE PowerLoss
    <2>1. call' = [p \in Procs |-> Idle] /\ guest' = Off
        BY <1>7 DEF PowerLoss
    <2>2. GuestNextInv' /\ \A p \in Procs : QueryInv(p)'
        BY <2>1 DEF GuestNextInv, QueryInv, Off, Idle
    <2> QED  BY <1>1, <2>2 DEF QInv
<1>8. CASE UNCHANGED vars
    <2>1. GuestNextInv'
        BY <1>1, <1>8 DEF GuestNextInv, vars
    <2>2. \A p \in Procs : QueryInv(p)'
        BY <1>1, <1>8, QueryStays DEF vars, Changing
    <2> QED  BY <1>1, <2>1, <2>2 DEF QInv
<1> QED  BY <1>2, <1>3, <1>4, <1>5, <1>6, <1>7, <1>8 DEF Next, ProcStep

(* An answered block query read its note from the very image it names as    *)
(* its source, however guest changes, renames and crashes fall between its   *)
(* two looks, as long as at most two changes overlap it.                     *)
THEOREM QueryIsTrueHolds == Spec => QueryIsTrue
<1>1. ASSUME QInv, Next, NEW p \in Procs, Replied(p), call[p].kind = "block",
             reply'.result = "OK", call[p].moved <= 2
      PROVE  call[p].answer = reply'.source[call[p].name]
    <2>1. /\ call \in [Procs -> Call] /\ OpenInv(p) /\ QueryInv(p)
          /\ call[p].at # "idle" /\ call'[p].at = "idle" /\ reply' # NoReply
        BY <1>1 DEF QInv, IInv, CallInv, TypeOK, Replied, At
    <2>2. ~Silent
        BY <2>1 DEF Silent
    <2>3. PICK q \in Procs : \/ Judge(q) \/ Acknowledge(q) \/ Fail(q)
                             \/ MountCorrupt(q) \/ ObserveBefore(q)
                             \/ ReadNote(q) \/ CompareAfter(q)
        BY <1>1, <2>2 DEF Next, BeginCall, OpenImage, MountImage, CopyImage,
                SyncCopy, RenameOver, SyncParent, Kill, GuestLock, GuestOpen,
                GuestStop, GuestData, GuestHalf, GuestCommit, PowerLoss
    <2>4. PICK result, source : Reply(q, result, source)
        BY <2>2, <2>3 DEF Judge, Acknowledge, Fail, MountCorrupt, ObserveBefore,
                          ReadNote, CompareAfter
    <2>5. q = p
        BY <2>1, <2>4 DEF Reply
    <2>6. CompareAfter(p)
        BY <1>1, <2>2, <2>3, <2>5
           DEF Judge, Acknowledge, Fail, MountCorrupt, ObserveBefore, ReadNote,
               Writing, Reply
    <2>7. /\ call[p].at = "after" /\ call[p].before = call[p].view
          /\ reply'.source = call[p].view
        BY <1>1, <2>6 DEF CompareAfter, Moved, Reply, At
    <2>8. call[p].answer = call[p].before[call[p].name]
        BY <1>1, <2>1, <2>7 DEF QueryInv
    <2> QED  BY <2>7, <2>8
<1>2. QInv /\ [Next]_vars
          => [\A p \in Procs :
                /\ Replied(p) /\ call[p].kind = "block" /\ reply'.result = "OK"
                /\ call[p].moved <= 2
                => call[p].answer = reply'.source[call[p].name]]_vars
    BY <1>1
<1> QED  BY <1>2, QueryInit, QueryNext, PTL DEF Spec, QueryIsTrue
=============================================================================
