--------------------------- MODULE McpServer_proofs ---------------------------
(***************************************************************************)
(* What the MCP server keeps for every client, every length of the queue    *)
(* and every number of failures: nobody is left behind, no reply comes      *)
(* twice, and the reply of a tool is what its worker said.                  *)
(*                                                                         *)
(* The argument follows a request: its line has a number none before it     *)
(* had, it is the task or a frame of the queue and never both, and it       *)
(* leaves the queue with the write that completes it.                       *)
(***************************************************************************)
EXTENDS McpServer, FiniteSetTheorems, SequenceTheorems, TLAPS

Ids == {NoId} \cup UNION {{script[n].id : n \in DOMAIN script} : script \in Scripts}
Targets == UNION {{script[n].target : n \in DOMAIN script} : script \in Scripts}
Tokens == {"error", "result", "INVALID", "BUSY", "ok", "STALE", "IO", "LIMIT"}

Line == [kind : LineKinds, id : Ids, target : Targets, modern : BOOLEAN, serial : Nat]
Reply == [serial : Nat, id : Ids, token : Tokens, task : BOOLEAN, sent : 0 .. 2, late : BOOLEAN]
Task == [active : BOOLEAN, owned : BOOLEAN, grouped : BOOLEAN, open : BOOLEAN,
         cancelled : BOOLEAN, stopping : BOOLEAN, late : BOOLEAN,
         killed : BOOLEAN, failed : BOOLEAN, broken : BOOLEAN,
         orphan : BOOLEAN, exited : BOOLEAN, serial : Nat, id : Ids]
ServerState == [session : {"fresh", "initialized", "ready"}, queue : Seq(Reply), task : Task,
                closing : BOOLEAN, exit : Nat]
Worker == [at : {"gone", "gate", "run", "wrote", "zombie"}, gate : {"shut", "open", "eof"},
           result : Results \cup {"none"}, wrote : 0 .. 2, status : {"none", "ok", "fail"}]

TypeOK ==
    /\ stdin \in Seq(Line)
    /\ client \in [script : Scripts, sent : Nat, closed : BOOLEAN, deaf : BOOLEAN]
    /\ at \in {"poll", "input", "worker", "finish", "output", "check", "exited"}
    /\ srv \in ServerState
    /\ worker \in Worker
    /\ kid \in {"none", "alive", "zombie"}
    /\ given \in [Serials -> Seq(Tokens)]
    /\ called \in [read : SUBSET Nat, cancelled : SUBSET Nat]

(* The lines of the client carry the numbers of their order; those read are *)
(* the first ones.                                                          *)
Done == client.sent - Len(stdin)
LineInv ==
    /\ Done \in Nat
    /\ client.sent <= Len(client.script)
    /\ \A i \in DOMAIN stdin : stdin[i].serial = Done + i
    /\ \A n \in Serials : n > Done => given[n] = <<>>
    /\ \A n \in called.cancelled : n <= Done

(* A request is in the queue once, or is the task; the reply of the task is *)
(* queued only when its worker is reaped.                                   *)
QueueInv(s) ==
    /\ s.task.owned => s.task.active
    /\ \A i, j \in DOMAIN s.queue : s.queue[i].serial = s.queue[j].serial => i = j
    /\ \A i \in DOMAIN s.queue :
          s.queue[i].task =>
              s.task.active /\ ~s.task.owned /\ s.queue[i].serial = s.task.serial
    /\ s.task.active => \A i \in DOMAIN s.queue : s.queue[i].serial = s.task.serial => s.queue[i].task

(* Whatever is queued, or still the task, has not been answered (g), and    *)
(* what was cancelled (c) never will be.                                    *)
OpenInv(s, done, g, c) ==
    /\ \A i \in DOMAIN s.queue :
          /\ s.queue[i].serial \in 1 .. done
          /\ g[s.queue[i].serial] = <<>>
          /\ s.queue[i].serial \notin c
    /\ s.task.active => s.task.serial \in 1 .. done
    /\ s.task.owned =>
          /\ g[s.task.serial] = <<>>
          /\ s.task.serial \in c => s.task.cancelled

(* The worker and its kid belong to the task that owns them.                *)
WorkerInv(s, w, k) ==
    /\ ~s.task.owned => w.at = "gone" /\ k = "none"
    /\ s.task.owned /\ s.task.exited => w.at = "zombie"
    /\ w.at \in {"run", "wrote"} => s.task.grouped
    /\ w.at = "gate" /\ w.gate = "open" => s.task.grouped

Told(f, w) ==
    (f.task /\ f.token # "IO") =>
        w.at = "gone" /\ w.status = "ok" /\ Whole(w) /\ f.token = w.result
AnswerInv(s, w) == \A i \in DOMAIN s.queue : Told(s.queue[i], w)

(* A section of the loop is entered only when it has something to do.       *)
SectionInv ==
    /\ at = "finish" => srv.task.owned
    /\ at = "output" => srv.queue # <<>>
    /\ at = "exited" => ~srv.task.owned

SrvInv(s, done, w, k, g, c) ==
    QueueInv(s) /\ OpenInv(s, done, g, c) /\ WorkerInv(s, w, k) /\ AnswerInv(s, w)
IInv ==
    /\ TypeOK /\ LineInv /\ SectionInv
    /\ SrvInv(srv, Done, worker, kid, given, called.cancelled)
-----------------------------------------------------------------------------
(* What the helpers of the server do to its state.                          *)

SameTask(t, u) ==
    /\ u.active = t.active /\ u.owned = t.owned /\ u.grouped = t.grouped
    /\ u.exited = t.exited /\ u.serial = t.serial

(* No task is a task state.                                                 *)
LEMMA TaskTyped ==
    /\ NoTask \in Task
    /\ NoTask.active = FALSE /\ NoTask.owned = FALSE
BY DEF NoTask, Task, Ids

(* Another task in the same state of the server.                            *)
LEMMA TaskReplaced ==
    ASSUME NEW s \in ServerState, NEW t \in Task
    PROVE  /\ [s EXCEPT !.task = t] \in ServerState
           /\ [s EXCEPT !.task = t].task = t
           /\ [s EXCEPT !.task = t].queue = s.queue
           /\ [s EXCEPT !.task = t].closing = s.closing
BY DEF ServerState

(* Stopping a task (yan_mcp.c, stop_task) keeps who owns it, its number and *)
(* the queue; it only adds the mark of a cancel.                            *)
LEMMA StopTaskFacts ==
    ASSUME NEW s \in ServerState, NEW c \in BOOLEAN
    PROVE  LET r == StopTask(s, c)
           IN  /\ r \in ServerState /\ r.queue = s.queue /\ r.closing = s.closing
               /\ SameTask(s.task, r.task)
               /\ r.task.cancelled = (s.task.cancelled \/ (s.task.active /\ c))
<1>1. s.task \in Task
  BY DEF ServerState
<1>2. CASE ~s.task.active
  <2>1. StopTask(s, c) = s
    BY <1>2 DEF StopTask
  <2>2. s.task.cancelled \in BOOLEAN
    BY <1>1 DEF Task
  <2> QED BY <1>2, <2>1, <2>2 DEF SameTask
<1>3. CASE s.task.active
  <2> DEFINE t == [s.task EXCEPT !.cancelled = s.task.cancelled \/ c,
                                 !.stopping = s.task.stopping \/ s.task.owned]
  <2>1. t \in Task
    <3> DEFINE x == s.task.cancelled \/ c
               y == s.task.stopping \/ s.task.owned
    <3>1. x \in BOOLEAN /\ y \in BOOLEAN
      OBVIOUS
    <3> HIDE DEF x, y
    <3>2. [s.task EXCEPT !.cancelled = x, !.stopping = y] \in Task
      BY <1>1, <3>1 DEF Task
    <3> QED BY <3>2 DEF x, y
  <2>2. SameTask(s.task, t) /\ t.cancelled = (s.task.cancelled \/ c)
    BY <1>1 DEF SameTask, Task
  <2> DEFINE r == [s EXCEPT !.task.cancelled = @ \/ c, !.task.stopping = @ \/ s.task.owned]
  <2>3. StopTask(s, c) = r
    BY <1>3 DEF StopTask
  <2>4. r = [s EXCEPT !.task = t]
    BY <1>1 DEF ServerState, Task
  <2> HIDE DEF t, r
  <2> QED BY <1>3, <2>1, <2>2, <2>3, <2>4, TaskReplaced
<1> QED BY <1>2, <1>3

(* Releasing clears the task unless its worker is still owned.              *)
LEMMA ReleasedFacts ==
    ASSUME NEW s \in ServerState
    PROVE  LET r == Released(s)
           IN  /\ r \in ServerState /\ r.queue = s.queue /\ r.closing = s.closing
               /\ r.task = IF s.task.owned THEN s.task ELSE NoTask
BY TaskTyped, TaskReplaced DEF Released

(* The queue goes, and the task with it unless its worker is still owned.   *)
LEMMA ShutDownFacts ==
    ASSUME NEW s \in ServerState, NEW code \in Nat
    PROVE  LET r == ShutDown(s, code)
           IN  /\ r \in ServerState /\ r.queue = <<>> /\ r.closing = TRUE
               /\ s.task.owned => SameTask(s.task, r.task)
                                  /\ (s.task.active => r.task.cancelled)
                                  /\ (s.task.cancelled => r.task.cancelled)
               /\ ~s.task.owned => r.task = NoTask
<1> DEFINE e == IF PartSent(s.queue) THEN 5 ELSE IF s.exit # 5 /\ code # 0 THEN code ELSE s.exit
           c == [s EXCEPT !.closing = TRUE, !.queue = <<>>, !.exit = e]
           d == StopTask(c, TRUE)
<1>1. e \in Nat
  BY DEF ServerState
<1>2. <<>> \in Seq(Reply)
  BY EmptySeq
<1> HIDE DEF e
<1>3. /\ c \in ServerState /\ c.queue = <<>> /\ c.closing = TRUE /\ c.task = s.task
  BY <1>1, <1>2 DEF ServerState
<1>4. ShutDown(s, code) = Released(d)
  BY DEF ShutDown, e
<1> HIDE DEF c
<1>5. /\ d \in ServerState /\ d.queue = <<>> /\ d.closing = TRUE /\ SameTask(s.task, d.task)
      /\ d.task.cancelled = (s.task.cancelled \/ (s.task.active /\ TRUE))
  BY <1>3, StopTaskFacts
<1> HIDE DEF d
<1>6. /\ Released(d) \in ServerState /\ Released(d).queue = <<>> /\ Released(d).closing = TRUE
      /\ Released(d).task = IF d.task.owned THEN d.task ELSE NoTask
  BY <1>5, ReleasedFacts
<1>7. d.task.owned = s.task.owned
  BY <1>5 DEF SameTask
<1> QED BY <1>4, <1>5, <1>6, <1>7

(* A frame is queued at the end, or the queue is full and the server begins *)
(* to shut down.                                                            *)
LEMMA EnqueuedFacts ==
    ASSUME NEW s \in ServerState, NEW f \in Reply
    PROVE  LET r == Enqueued(s, f)
           IN  /\ r \in ServerState
               /\ \/ r.queue = Append(s.queue, f) /\ r.task = s.task /\ r.closing = s.closing
                  \/ r = ShutDown(s, 5)
<1>1. CASE Len(s.queue) < QueueMax
  <2>1. Append(s.queue, f) \in Seq(Reply)
    BY AppendProperties DEF ServerState
  <2>2. Enqueued(s, f) = [s EXCEPT !.queue = Append(@, f)]
    BY <1>1 DEF Enqueued
  <2> QED BY <2>1, <2>2 DEF ServerState
<1>2. CASE ~(Len(s.queue) < QueueMax)
  BY <1>2, ShutDownFacts DEF Enqueued
<1> QED BY <1>1, <1>2

(* Reading a line changes the session only.                                 *)
LEMMA ParsedFacts ==
    ASSUME TypeOK, stdin # <<>>
    PROVE  /\ line \in Line /\ Tail(stdin) \in Seq(Line)
           /\ parsed \in ServerState /\ parsed.queue = srv.queue /\ parsed.task = srv.task
           /\ parsed.closing = srv.closing
<1>1. line \in Line /\ Tail(stdin) \in Seq(Line)
  BY HeadTailProperties DEF line, TypeOK
<1> DEFINE session == IF Duplicate(srv, line) THEN srv.session ELSE SessionAfter(srv, line)
<1>2. srv \in ServerState /\ srv.session \in {"fresh", "initialized", "ready"}
  BY DEF TypeOK, ServerState
<1>3. session \in {"fresh", "initialized", "ready"}
  BY <1>2 DEF SessionAfter
<1>4. parsed = [srv EXCEPT !.session = session]
  BY DEF parsed
<1> HIDE DEF session
<1>5. /\ parsed \in ServerState /\ parsed.queue = srv.queue /\ parsed.task = srv.task
      /\ parsed.closing = srv.closing
  BY <1>2, <1>3, <1>4 DEF ServerState
<1> QED BY <1>1, <1>5

(* The loop goes on to a section only when that section has something to    *)
(* do.                                                                      *)
LEMMA GoOnFacts ==
    ASSUME NEW from \in 1 .. 4, NEW s, NEW r, GoOn(from, s, r)
    PROVE  /\ at' \in {"input", "worker", "finish", "output", "check"}
           /\ at' = "finish" => s.task.owned
           /\ at' = "output" => s.queue # <<>>
<1> DEFINE todo == {i \in from .. 4 : HasWork(Sections[i], s, r)}
<1>1. CASE todo = {}
  BY <1>1 DEF GoOn
<1>2. CASE todo # {}
  <2> DEFINE i == CHOOSE i \in todo : \A j \in todo : i <= j
  <2>1. \E k \in todo : \A j \in todo : k <= j
    <3>1. PICK k \in todo : TRUE
      BY <1>2
    <3>2. todo \subseteq 1 .. 4
      OBVIOUS
    <3> HIDE DEF todo
    <3>3. CASE 1 \in todo
      BY <3>2, <3>3
    <3>4. CASE 1 \notin todo /\ 2 \in todo
      BY <3>2, <3>4
    <3>5. CASE 1 \notin todo /\ 2 \notin todo /\ 3 \in todo
      BY <3>2, <3>5
    <3>6. CASE 1 \notin todo /\ 2 \notin todo /\ 3 \notin todo
      BY <3>1, <3>2, <3>6
    <3> QED BY <3>3, <3>4, <3>5, <3>6
  <2>2. i \in todo
    BY <2>1
  <2>3. at' = Sections[i] /\ HasWork(Sections[i], s, r) /\ i \in 1 .. 4
    BY <1>2, <2>2 DEF GoOn
  <2> HIDE DEF i
  <2>4. Sections[i] \in {"input", "worker", "finish", "output"}
    BY <2>3 DEF Sections
  <2> QED BY <2>3, <2>4 DEF HasWork
<1> QED BY <1>1, <1>2

(* What the invariant says of the server stays true...                      *)
(* ... when the task changes in what it does not look at,                   *)
LEMMA TaskKept ==
    ASSUME NEW s \in ServerState, NEW r \in ServerState, NEW done, NEW w, NEW k, NEW g, NEW c,
           SrvInv(s, done, w, k, g, c), r.queue = s.queue, SameTask(s.task, r.task),
           s.task.cancelled => r.task.cancelled
    PROVE  SrvInv(r, done, w, k, g, c)
BY DEF SrvInv, QueueInv, OpenInv, WorkerInv, AnswerInv, SameTask

(* ... when the server shuts down,                                          *)
LEMMA ShutDownKeeps ==
    ASSUME NEW s \in ServerState, NEW code \in Nat, NEW done, NEW w, NEW k, NEW g, NEW c,
           SrvInv(s, done, w, k, g, c)
    PROVE  /\ SrvInv(ShutDown(s, code), done, w, k, g, c)
           /\ ShutDown(s, code).task.owned <=> s.task.owned
<1> DEFINE r == ShutDown(s, code)
<1>1. /\ r \in ServerState /\ r.queue = <<>>
      /\ s.task.owned => SameTask(s.task, r.task)
                         /\ (s.task.active => r.task.cancelled)
                         /\ (s.task.cancelled => r.task.cancelled)
      /\ ~s.task.owned => r.task = NoTask
  BY ShutDownFacts
<1> HIDE DEF r
<1>2. DOMAIN r.queue = {}
  BY <1>1
<1>3. QueueInv(r) /\ AnswerInv(r, w)
  <2>1. r.task.owned => r.task.active
    BY <1>1, TaskTyped DEF SrvInv, QueueInv, SameTask
  <2> QED BY <1>2, <2>1 DEF QueueInv, AnswerInv
<1>4. CASE s.task.owned
  <2>1. s.task.active
    BY <1>4 DEF SrvInv, QueueInv
  <2>2. OpenInv(r, done, g, c)
    BY <1>1, <1>2, <1>4, <2>1 DEF SrvInv, OpenInv, SameTask
  <2>3. WorkerInv(r, w, k)
    BY <1>1, <1>4 DEF SrvInv, WorkerInv, SameTask
  <2>4. r.task.owned
    BY <1>1, <1>4 DEF SameTask
  <2> QED BY <1>3, <1>4, <2>2, <2>3, <2>4 DEF SrvInv, r
<1>5. CASE ~s.task.owned
  <2>1. ~r.task.owned /\ ~r.task.active
    BY <1>1, <1>5, TaskTyped
  <2>2. OpenInv(r, done, g, c)
    BY <1>2, <2>1 DEF OpenInv
  <2>3. WorkerInv(r, w, k)
    BY <1>5, <2>1 DEF SrvInv, WorkerInv
  <2> QED BY <1>3, <1>5, <2>1, <2>2, <2>3 DEF SrvInv, r
<1> QED BY <1>4, <1>5

(* ... when the reply of a request joins the queue that is not in it.       *)
LEMMA EnqueueKeeps ==
    ASSUME NEW s \in ServerState, NEW f \in Reply, NEW done \in Nat, NEW w, NEW k, NEW g, NEW c,
           SrvInv(s, done, w, k, g, c), Told(f, w),
           f.serial \in 1 .. done, g[f.serial] = <<>>, f.serial \notin c,
           \A i \in DOMAIN s.queue : s.queue[i].serial # f.serial,
           f.task => s.task.active /\ ~s.task.owned /\ f.serial = s.task.serial,
           ~f.task => (s.task.active => f.serial # s.task.serial)
    PROVE  /\ SrvInv(Enqueued(s, f), done, w, k, g, c)
           /\ Enqueued(s, f).task.owned <=> s.task.owned
<1> DEFINE r == Enqueued(s, f)
<1>1. /\ r \in ServerState
      /\ \/ r.queue = Append(s.queue, f) /\ r.task = s.task
         \/ r = ShutDown(s, 5)
  BY EnqueuedFacts
<1>2. CASE r = ShutDown(s, 5)
  BY <1>2, ShutDownKeeps
<1>3. CASE r.queue = Append(s.queue, f) /\ r.task = s.task
  <2> HIDE DEF r
  <2> DEFINE q == s.queue
             n == Len(q)
  <2>1. q \in Seq(Reply) /\ n \in Nat /\ DOMAIN q = 1 .. n
    BY LenProperties DEF ServerState
  <2>2. /\ DOMAIN r.queue = 1 .. n + 1 /\ r.queue[n + 1] = f
        /\ \A i \in 1 .. n : r.queue[i] = q[i]
    <3>1. r.queue \in Seq(Reply) /\ Len(r.queue) = n + 1
      BY <1>3, <2>1, AppendProperties
    <3> QED BY <1>3, <2>1, <3>1, AppendProperties, LenProperties
  <2>3. \A i \in DOMAIN r.queue : i = n + 1 \/ i \in DOMAIN q
    BY <2>1, <2>2
  <2>4. QueueInv(r)
    BY <1>3, <2>1, <2>2, <2>3 DEF QueueInv, SrvInv
  <2>5. OpenInv(r, done, g, c)
    BY <1>3, <2>1, <2>2, <2>3 DEF OpenInv, SrvInv
  <2>6. WorkerInv(r, w, k)
    BY <1>3 DEF WorkerInv, SrvInv
  <2>7. AnswerInv(r, w)
    BY <2>1, <2>2, <2>3 DEF AnswerInv, SrvInv
  <2> QED BY <1>3, <2>4, <2>5, <2>6, <2>7 DEF SrvInv, r
<1> QED BY <1>1, <1>2, <1>3

(* ... when one frame is taken out of the queue.                            *)
LEMMA WithoutOne ==
    ASSUME NEW q \in Seq(Reply), NEW n \in DOMAIN q
    PROVE  LET r == RemoveAt(q, n)
           IN  /\ r \in Seq(Reply) /\ DOMAIN r = 1 .. Len(q) - 1
               /\ \A i \in DOMAIN r : r[i] = IF i < n THEN q[i] ELSE q[i + 1]
<1>1. Len(q) \in Nat /\ DOMAIN q = 1 .. Len(q) /\ \A i \in 1 .. Len(q) : q[i] \in Reply
  BY LenProperties, ElementOfSeq
<1> DEFINE a == SubSeq(q, 1, n - 1)
           b == SubSeq(q, n + 1, Len(q))
<1>2. /\ a \in Seq(Reply) /\ Len(a) = n - 1 /\ \A i \in 1 .. n - 1 : a[i] = q[i]
  <2>1. /\ a \in Seq(Reply) /\ Len(a) = IF 1 <= n - 1 THEN (n - 1) - 1 + 1 ELSE 0
        /\ \A i \in 1 .. (n - 1) - 1 + 1 : a[i] = q[1 + i - 1]
    BY <1>1, SubSeqProperties
  <2> HIDE DEF a
  <2> QED BY <1>1, <2>1
<1>3. /\ b \in Seq(Reply) /\ Len(b) = Len(q) - n /\ \A i \in 1 .. Len(q) - n : b[i] = q[n + i]
  <2>1. /\ b \in Seq(Reply) /\ Len(b) = IF n + 1 <= Len(q) THEN Len(q) - (n + 1) + 1 ELSE 0
        /\ \A i \in 1 .. Len(q) - (n + 1) + 1 : b[i] = q[(n + 1) + i - 1]
    BY <1>1, SubSeqProperties
  <2> HIDE DEF b
  <2>2. \A i \in 1 .. Len(q) - n : i \in 1 .. Len(q) - (n + 1) + 1 /\ (n + 1) + i - 1 = n + i
    BY <1>1
  <2> QED BY <1>1, <2>1, <2>2
<1>4. RemoveAt(q, n) = a \o b
  BY DEF RemoveAt
<1> HIDE DEF a, b
<1>5. /\ a \o b \in Seq(Reply) /\ Len(a \o b) = Len(a) + Len(b)
      /\ \A i \in 1 .. Len(a) + Len(b) :
            (a \o b)[i] = IF i <= Len(a) THEN a[i] ELSE b[i - Len(a)]
  BY <1>2, <1>3, ConcatProperties
<1>6. DOMAIN (a \o b) = 1 .. Len(q) - 1
  <2>1. DOMAIN (a \o b) = 1 .. Len(a \o b)
    BY <1>5, LenProperties
  <2> QED BY <1>1, <1>2, <1>3, <1>5, <2>1
<1>7. ASSUME NEW i \in 1 .. Len(q) - 1
      PROVE  (a \o b)[i] = IF i < n THEN q[i] ELSE q[i + 1]
  <2>1. i \in 1 .. Len(a) + Len(b)
    BY <1>1, <1>2, <1>3
  <2>2. CASE i < n
    BY <1>1, <1>2, <1>5, <2>1, <2>2
  <2>3. CASE ~(i < n)
    <3>1. ~(i <= Len(a)) /\ i - Len(a) \in 1 .. Len(q) - n /\ n + (i - Len(a)) = i + 1
      BY <1>1, <1>2, <2>3
    <3>2. (a \o b)[i] = b[i - Len(a)]
      BY <1>5, <2>1, <3>1
    <3>3. b[i - Len(a)] = q[n + (i - Len(a))]
      BY <1>3, <3>1
    <3> QED BY <2>3, <3>1, <3>2, <3>3
  <2> QED BY <2>2, <2>3
<1> QED BY <1>4, <1>5, <1>6, <1>7

(* Taking a frame out of the queue keeps the invariant of the others.       *)
LEMMA DropKeeps ==
    ASSUME NEW s \in ServerState, NEW r \in ServerState, NEW n \in DOMAIN s.queue,
           NEW done, NEW w, NEW k, NEW g, NEW c,
           SrvInv(s, done, w, k, g, c), r.queue = RemoveAt(s.queue, n), r.task = s.task
    PROVE  /\ SrvInv(r, done, w, k, g, c)
           /\ \A i \in DOMAIN r.queue :
                \E j \in DOMAIN s.queue : j # n /\ r.queue[i] = s.queue[j]
<1> DEFINE q == s.queue
<1>1. q \in Seq(Reply) /\ Len(q) \in Nat /\ DOMAIN q = 1 .. Len(q)
  BY LenProperties DEF ServerState
<1>2. /\ DOMAIN r.queue = 1 .. Len(q) - 1
      /\ \A i \in DOMAIN r.queue : r.queue[i] = IF i < n THEN q[i] ELSE q[i + 1]
  BY <1>1, WithoutOne
<1>3. \A i \in DOMAIN r.queue : /\ (IF i < n THEN i ELSE i + 1) \in DOMAIN q
                                /\ (IF i < n THEN i ELSE i + 1) # n
  BY <1>1, <1>2
<1>4. QueueInv(r)
  <2>1. \A i, j \in DOMAIN r.queue : r.queue[i].serial = r.queue[j].serial => i = j
    <3> SUFFICES ASSUME NEW i \in DOMAIN r.queue, NEW j \in DOMAIN r.queue,
                        r.queue[i].serial = r.queue[j].serial
                 PROVE  i = j
      OBVIOUS
    <3> DEFINE x == IF i < n THEN i ELSE i + 1
               y == IF j < n THEN j ELSE j + 1
    <3>1. r.queue[i] = q[x] /\ r.queue[j] = q[y] /\ x \in DOMAIN q /\ y \in DOMAIN q
      BY <1>2, <1>3
    <3>2. x = y
      BY <3>1 DEF QueueInv, SrvInv
    <3> QED BY <1>1, <1>2, <3>2
  <2> QED BY <1>2, <1>3, <2>1 DEF QueueInv, SrvInv
<1>5. OpenInv(r, done, g, c) /\ WorkerInv(r, w, k) /\ AnswerInv(r, w)
  BY <1>2, <1>3 DEF OpenInv, WorkerInv, AnswerInv, SrvInv
<1> QED BY <1>2, <1>3, <1>4, <1>5 DEF SrvInv

-----------------------------------------------------------------------------
(* A line is read.                                                          *)

(* The next line has the first number that is not read yet: nothing is      *)
(* queued, cancelled or answered under it.                                  *)
LEMMA NextLine ==
    ASSUME IInv, stdin # <<>>
    PROVE  /\ Done \in Nat /\ line.serial = Done + 1 /\ Done + 1 \in 1 .. Done + 1
           /\ given[Done + 1] = <<>> /\ Done + 1 \notin called.cancelled
           /\ \A i \in DOMAIN srv.queue : srv.queue[i].serial # Done + 1
           /\ srv.task.active => srv.task.serial # Done + 1
           /\ parsed \in ServerState /\ parsed.queue = srv.queue /\ parsed.task = srv.task
           /\ SrvInv(parsed, Done + 1, worker, kid, given, called.cancelled)
           /\ line \in Line
<1>1. /\ Done \in Nat /\ stdin \in Seq(Line) /\ Len(stdin) \in Nat /\ Len(stdin) > 0
      /\ DOMAIN stdin = 1 .. Len(stdin)
  BY EmptySeq, LenProperties DEF IInv, TypeOK, LineInv
<1>2. line.serial = Done + 1
  BY <1>1 DEF IInv, LineInv, line
<1>3. Done + 1 \in Serials
  <2>1. client.script \in Scripts /\ client.sent \in Nat
    BY DEF IInv, TypeOK
  <2>2. Done + 1 <= client.sent
    BY <1>1, <2>1 DEF Done
  <2>3. Done + 1 \in DOMAIN client.script
    BY <1>1, <2>1, <2>2, McpAssumption DEF IInv, LineInv
  <2> QED BY <2>1, <2>3 DEF Serials
<1>4. given[Done + 1] = <<>> /\ Done + 1 \notin called.cancelled
  BY <1>1, <1>3 DEF IInv, LineInv
<1>5. /\ \A i \in DOMAIN srv.queue : srv.queue[i].serial # Done + 1
      /\ srv.task.active => srv.task.serial # Done + 1
  BY <1>1 DEF IInv, SrvInv, OpenInv
<1>6. /\ line \in Line /\ parsed \in ServerState
      /\ parsed.queue = srv.queue /\ parsed.task = srv.task
  BY ParsedFacts DEF IInv
<1>7. \A n \in 1 .. Done : n \in 1 .. Done + 1
  BY <1>1
<1>8. SrvInv(parsed, Done + 1, worker, kid, given, called.cancelled)
  BY <1>6, <1>7 DEF IInv, SrvInv, QueueInv, OpenInv, WorkerInv, AnswerInv
<1> QED BY <1>1, <1>2, <1>4, <1>5, <1>6, <1>8

(* A line that is read and leaves the state of the server sound keeps the   *)
(* invariant, whichever section follows.                                    *)
LEMMA LineConsumed ==
    ASSUME IInv, stdin # <<>>, NEW s \in ServerState, Consumed(s),
           SrvInv(s, Done + 1, worker', kid', given, called'.cancelled),
           worker' \in Worker, kid' \in {"none", "alive", "zombie"},
           called' \in [read : SUBSET Nat, cancelled : SUBSET Nat],
           \A n \in called'.cancelled : n <= Done + 1
    PROVE  IInv'
<1>1. srv' = s /\ stdin' = Tail(stdin) /\ client' = client /\ given' = given
  BY DEF Consumed
<1>2. /\ stdin \in Seq(Line) /\ Len(stdin) \in Nat /\ DOMAIN stdin = 1 .. Len(stdin)
      /\ Done \in Nat /\ client.sent \in Nat
  BY LenProperties DEF IInv, TypeOK, LineInv
<1>3. /\ stdin' \in Seq(Line) /\ Len(stdin') = Len(stdin) - 1 /\ Len(stdin') \in Nat
      /\ DOMAIN stdin' = 1 .. Len(stdin')
      /\ \A i \in DOMAIN stdin' : stdin'[i] = stdin[i + 1] /\ i + 1 \in DOMAIN stdin
  BY <1>1, <1>2, HeadTailProperties, LenProperties
<1>4. Done' = Done + 1
  BY <1>1, <1>2, <1>3 DEF Done
<1>5. /\ at' \in {"input", "worker", "finish", "output", "check"}
      /\ at' = "finish" => s.task.owned
      /\ at' = "output" => s.queue # <<>>
  BY GoOnFacts DEF Consumed
<1>6. TypeOK'
  BY <1>1, <1>3, <1>5 DEF IInv, TypeOK
<1>7. LineInv'
  <2>1. ASSUME NEW i \in DOMAIN stdin' PROVE stdin'[i].serial = Done' + i
    <3>1. stdin[i + 1].serial = Done + (i + 1)
      BY <1>3 DEF IInv, LineInv
    <3> QED BY <1>2, <1>3, <1>4, <3>1
  <2>2. \A n \in Serials : n > Done + 1 => n > Done
    <3>1. \A n \in Serials : n \in Nat
      BY McpAssumption DEF Serials
    <3> QED BY <1>2, <3>1
  <2> QED BY <1>1, <1>2, <1>4, <2>1, <2>2 DEF IInv, LineInv
<1>8. SectionInv'
  BY <1>1, <1>5 DEF SectionInv
<1> QED BY <1>1, <1>4, <1>6, <1>7, <1>8 DEF IInv

(* The same for a line that cancels nothing.                                *)
LEMMA LineHandled ==
    ASSUME IInv, stdin # <<>>, NEW s \in ServerState, LineDone(s),
           SrvInv(s, Done + 1, worker', kid', given, called.cancelled),
           worker' \in Worker, kid' \in {"none", "alive", "zombie"}
    PROVE  IInv'
<1>1. called \in [read : SUBSET Nat, cancelled : SUBSET Nat] /\ line \in Line /\ Done \in Nat
  BY NextLine DEF IInv, TypeOK
<1>2. called' = [called EXCEPT !.read = @ \cup {line.serial}] /\ line.serial \in Nat
  BY <1>1 DEF LineDone, Line
<1>3. /\ called' \in [read : SUBSET Nat, cancelled : SUBSET Nat]
      /\ called'.cancelled = called.cancelled
  BY <1>1, <1>2
<1>4. \A n \in called'.cancelled : n <= Done + 1
  BY <1>1, <1>3 DEF IInv, LineInv
<1> QED BY <1>3, <1>4, LineConsumed DEF LineDone

(* The server answers a line at once.                                       *)
LEMMA Answered ==
    ASSUME IInv, stdin # <<>>, NEW token \in Tokens,
           LineDone(Enqueued(parsed, Frame(line, token, FALSE))), UNCHANGED process
    PROVE  IInv'
<1> DEFINE f == Frame(line, token, FALSE)
<1>1. f \in Reply /\ f.serial = line.serial /\ ~f.task
  BY NextLine DEF Frame, Reply, Line
<1>2. Told(f, worker)
  BY <1>1 DEF Told
<1> HIDE DEF f
<1>3. SrvInv(Enqueued(parsed, f), Done + 1, worker, kid, given, called.cancelled)
  BY <1>1, <1>2, NextLine, EnqueueKeeps
<1>4. Enqueued(parsed, f) \in ServerState
  BY <1>1, NextLine, EnqueuedFacts
<1>5. worker' = worker /\ kid' = kid
  BY DEF process
<1> QED BY <1>3, <1>4, <1>5, LineHandled DEF f, IInv, TypeOK

(* A line without a reply keeps the invariant.                              *)
LEMMA HandleIgnoreStep == ASSUME IInv, HandleIgnore PROVE IInv'
<1>1. stdin # <<>> /\ Consumed(parsed) /\ worker' = worker /\ kid' = kid /\ called' = called
  BY DEF HandleIgnore, Handling, process
<1>2. \A n \in called.cancelled : n <= Done + 1
  BY <1>1, NextLine DEF IInv, LineInv, TypeOK
<1> QED BY <1>1, <1>2, NextLine, LineConsumed DEF IInv, TypeOK

(* A line answered at once (a reply, BUSY, or nothing) keeps the invariant. *)
LEMMA QuickSteps ==
    ASSUME IInv, HandleQuick \/ HandleBusy \/ HandleNote PROVE IInv'
<1>1. CASE HandleQuick
  BY <1>1, Answered DEF HandleQuick, Handling, Tokens
<1>2. CASE HandleBusy
  BY <1>2, Answered DEF HandleBusy, Handling, Tokens
<1>3. CASE HandleNote
  BY <1>3, Answered DEF HandleNote, Handling, Tokens
<1> QED BY <1>1, <1>2, <1>3

(* Starting a worker keeps the invariant: the task takes the number of its  *)
(* line.                                                                    *)
LEMMA StartTaskStep == ASSUME IInv, StartTask PROVE IInv'
<1>1. PICK grouped \in BOOLEAN :
          /\ LineDone([parsed EXCEPT !.task = Started(grouped)])
          /\ worker' = Forked(grouped)
  BY DEF StartTask
<1>2. stdin # <<>> /\ ~srv.task.active /\ kid' = kid
  BY DEF StartTask, Handling
<1> DEFINE t == Started(grouped)
           s == [parsed EXCEPT !.task = t]
<1>3. /\ t \in Task /\ t.active /\ t.owned /\ t.grouped = grouped /\ ~t.exited
      /\ t.serial = line.serial
  <2>1. line.serial \in Nat /\ line.id \in Ids
    BY <1>2, NextLine DEF Line
  <2>2. NoTask \in Task /\ ~NoTask.exited
    BY TaskTyped DEF NoTask
  <2> DEFINE k == NoTask
             serial == line.serial
             id == line.id
  <2>3. /\ k \in Task /\ ~k.exited /\ serial \in Nat /\ id \in Ids
        /\ t = [k EXCEPT !.active = TRUE, !.owned = TRUE, !.grouped = grouped,
                         !.open = TRUE, !.failed = ~grouped, !.stopping = ~grouped,
                         !.serial = serial, !.id = id]
    BY <2>1, <2>2 DEF Started
  <2> HIDE DEF k, serial, id, t
  <2>4. t \in Task
    BY <2>3 DEF Task
  <2>5. t.active /\ t.owned /\ t.grouped = grouped /\ t.serial = serial /\ ~t.exited
    BY <2>3 DEF Task
  <2> QED BY <2>4, <2>5 DEF serial
<1>4. /\ worker' \in Worker /\ worker'.at = "gate"
      /\ worker'.gate = "open" => grouped
  <2> DEFINE gate == IF grouped THEN "open" ELSE "eof"
  <2>1. gate \in {"open", "eof"} /\ (gate = "open" => grouped)
    OBVIOUS
  <2>2. worker' = [NoWorker EXCEPT !.at = "gate", !.gate = gate]
    BY <1>1 DEF Forked
  <2> HIDE DEF gate
  <2>3. worker' = [at |-> "gate", gate |-> gate, result |-> "none", wrote |-> 0,
                   status |-> "none"]
    BY <2>2 DEF NoWorker
  <2> QED BY <2>1, <2>3 DEF Worker
<1> HIDE DEF t
<1>5. s \in ServerState /\ s.task = t /\ s.queue = srv.queue
  BY <1>2, <1>3, NextLine, TaskReplaced
<1> HIDE DEF s
<1>6. \A i \in DOMAIN srv.queue : ~srv.queue[i].task /\ srv.queue[i].serial \in 1 .. Done
  BY <1>2 DEF IInv, SrvInv, QueueInv, OpenInv
<1>7. QueueInv(s)
  <2>1. \A i \in DOMAIN srv.queue : srv.queue[i].serial # t.serial
    BY <1>2, <1>3, NextLine
  <2> QED BY <1>3, <1>5, <1>6, <2>1 DEF IInv, SrvInv, QueueInv
<1>8. OpenInv(s, Done + 1, given, called.cancelled)
  <2>1. parsed.queue = srv.queue
        /\ SrvInv(parsed, Done + 1, worker, kid, given, called.cancelled)
    BY <1>2, NextLine
  <2>2. t.serial \in 1 .. Done + 1 /\ given[t.serial] = <<>> /\ t.serial \notin called.cancelled
    BY <1>2, <1>3, NextLine
  <2> QED BY <1>5, <2>1, <2>2 DEF SrvInv, OpenInv
<1>9. WorkerInv(s, worker', kid')
  BY <1>3, <1>4, <1>5 DEF WorkerInv
<1>10. AnswerInv(s, worker')
  BY <1>5, <1>6 DEF AnswerInv, Told
<1>11. SrvInv(s, Done + 1, worker', kid', given, called.cancelled)
  BY <1>7, <1>8, <1>9, <1>10 DEF SrvInv
<1> QED BY <1>1, <1>2, <1>4, <1>5, <1>11, LineHandled DEF s, t, IInv, TypeOK

(* A worker that cannot be started leaves an IO frame or a shutdown; both   *)
(* keep the invariant.                                                      *)
LEMMA StartFailsStep == ASSUME IInv, StartFails PROVE IInv'
<1> DEFINE s == [parsed EXCEPT !.task = NoTask]
           f == Frame(line, "IO", FALSE)
<1>1. /\ stdin # <<>> /\ ~srv.task.active /\ worker' = worker /\ kid' = kid
      /\ LineDone(Enqueued(s, f))
  BY DEF StartFails, Handling, process
<1>2. s \in ServerState /\ s.task = NoTask /\ s.queue = srv.queue
  BY <1>1, NextLine, TaskTyped, TaskReplaced
<1>3. f \in Reply /\ f.serial = line.serial /\ ~f.task
  BY <1>1, NextLine DEF Frame, Reply, Line, Tokens
<1>4. Told(f, worker)
  BY <1>3 DEF Told
<1> HIDE DEF s, f
<1>5. SrvInv(s, Done + 1, worker, kid, given, called.cancelled)
  <2>1. /\ parsed.queue = srv.queue /\ parsed.task = srv.task
        /\ SrvInv(parsed, Done + 1, worker, kid, given, called.cancelled)
    BY <1>1, NextLine
  <2>2. ~srv.task.owned
    BY <1>1 DEF IInv, SrvInv, QueueInv
  <2>3. QueueInv(s) /\ OpenInv(s, Done + 1, given, called.cancelled)
    BY <1>1, <1>2, <2>1, TaskTyped DEF SrvInv, QueueInv, OpenInv
  <2>4. WorkerInv(s, worker, kid) /\ AnswerInv(s, worker)
    BY <1>2, <2>1, <2>2, TaskTyped DEF SrvInv, WorkerInv, AnswerInv
  <2> QED BY <2>3, <2>4 DEF SrvInv
<1>6. SrvInv(Enqueued(s, f), Done + 1, worker, kid, given, called.cancelled)
  BY <1>1, <1>2, <1>3, <1>4, <1>5, NextLine, TaskTyped, EnqueueKeeps
<1>7. Enqueued(s, f) \in ServerState
  BY <1>2, <1>3, EnqueuedFacts
<1> QED BY <1>1, <1>6, <1>7, LineHandled DEF IInv, TypeOK

-----------------------------------------------------------------------------
(* A cancellation, and the other sections of the loop.                      *)

(* A queue has at most one frame of a task; discarding it removes that      *)
(* frame and no other.                                                      *)
LEMMA FirstTaskFrame ==
    ASSUME NEW s \in ServerState, QueueInv(s)
    PROVE  \/ /\ WithoutTaskFrame(s.queue) = s.queue
              /\ \A i \in DOMAIN s.queue : ~s.queue[i].task
           \/ \E n \in DOMAIN s.queue :
                 /\ s.queue[n].task /\ WithoutTaskFrame(s.queue) = RemoveAt(s.queue, n)
                 /\ \A i \in DOMAIN s.queue : i # n => ~s.queue[i].task
<1> DEFINE q == s.queue
           ofTask == {i \in DOMAIN q : q[i].task}
           n == CHOOSE i \in ofTask : \A j \in ofTask : i <= j
<1>1. DOMAIN q = 1 .. Len(q)
  BY LenProperties DEF ServerState
<1>2. \A i, j \in ofTask : i = j
  BY DEF QueueInv
<1>3. CASE ofTask = {}
  BY <1>3 DEF WithoutTaskFrame
<1>4. CASE ofTask # {}
  <2>1. \E i \in ofTask : \A j \in ofTask : i <= j
    BY <1>1, <1>2, <1>4
  <2>2. n \in ofTask
    BY <2>1
  <2>3. WithoutTaskFrame(q) = RemoveAt(q, n)
    BY <1>4 DEF WithoutTaskFrame
  <2> HIDE DEF n
  <2> QED BY <1>2, <2>2, <2>3
<1> QED BY <1>3, <1>4

(* A cancel of the task takes its frame out of the queue or marks the task, *)
(* so that its number is never answered.                                    *)
LEMMA CancelledFacts ==
    ASSUME NEW s \in ServerState, s.task.active, NEW done, NEW w, NEW k, NEW g, NEW c,
           SrvInv(s, done, w, k, g, c)
    PROVE  /\ Cancelled(s) \in ServerState
           /\ SrvInv(Cancelled(s), done, w, k, g, c \cup {s.task.serial})
<1> DEFINE r == Cancelled(s)
           d == c \cup {s.task.serial}
<1>1. CASE PartSent(s.queue)
  <2>1. r = ShutDown(s, 5)
    BY <1>1 DEF Cancelled
  <2>2. /\ r \in ServerState /\ r.queue = <<>>
        /\ s.task.owned => SameTask(s.task, r.task) /\ r.task.cancelled
        /\ ~s.task.owned => r.task = NoTask
    <3> HIDE DEF r
    <3>1. 5 \in Nat
      OBVIOUS
    <3>2. /\ s.task.owned => SameTask(s.task, ShutDown(s, 5).task)
                             /\ (s.task.active => ShutDown(s, 5).task.cancelled)
          /\ ~s.task.owned => ShutDown(s, 5).task = NoTask
          /\ ShutDown(s, 5) \in ServerState /\ ShutDown(s, 5).queue = <<>>
      BY <3>1, ShutDownFacts
    <3> QED BY <2>1, <3>2
  <2>3. SrvInv(r, done, w, k, g, c)
    BY <2>1, ShutDownKeeps
  <2>4. OpenInv(r, done, g, d)
    <3>1. DOMAIN r.queue = {}
      BY <2>2
    <3>2. r.task.owned => r.task.cancelled
      BY <2>2, TaskTyped
    <3> QED BY <2>3, <3>1, <3>2 DEF SrvInv, OpenInv
  <2> QED BY <2>2, <2>3, <2>4 DEF SrvInv
<1>2. CASE ~PartSent(s.queue)
  <2> DEFINE t == [s EXCEPT !.queue = WithoutTaskFrame(@)]
             u == StopTask(t, TRUE)
  <2>1. r = Released(u)
    BY <1>2 DEF Cancelled
  <2>2. /\ t \in ServerState /\ t.task = s.task /\ SrvInv(t, done, w, k, g, c)
        /\ \A i \in DOMAIN t.queue : t.queue[i].serial # s.task.serial
    <3>1. QueueInv(s) /\ s.queue \in Seq(Reply)
      BY DEF SrvInv, ServerState
    <3>2. CASE /\ WithoutTaskFrame(s.queue) = s.queue
               /\ \A i \in DOMAIN s.queue : ~s.queue[i].task
      <4>1. t = s
        BY <3>2 DEF ServerState
      <4> QED BY <3>1, <3>2, <4>1 DEF QueueInv
    <3>3. ASSUME NEW n \in DOMAIN s.queue,
                 s.queue[n].task, WithoutTaskFrame(s.queue) = RemoveAt(s.queue, n),
                 \A i \in DOMAIN s.queue : i # n => ~s.queue[i].task
          PROVE  /\ t \in ServerState /\ t.task = s.task /\ SrvInv(t, done, w, k, g, c)
                 /\ \A i \in DOMAIN t.queue : t.queue[i].serial # s.task.serial
      <4>1. RemoveAt(s.queue, n) \in Seq(Reply)
        BY <3>1, <3>3, WithoutOne
      <4>2. t \in ServerState /\ t.task = s.task /\ t.queue = RemoveAt(s.queue, n)
        BY <3>3, <4>1 DEF ServerState
      <4> HIDE DEF t
      <4>3. /\ SrvInv(t, done, w, k, g, c)
            /\ \A i \in DOMAIN t.queue :
                 \E j \in DOMAIN s.queue : j # n /\ t.queue[i] = s.queue[j]
        BY <3>3, <4>2, DropKeeps
      <4> QED BY <3>1, <3>3, <4>2, <4>3 DEF QueueInv
    <3> HIDE DEF t
    <3> QED BY <3>1, <3>2, <3>3, FirstTaskFrame
  <2> HIDE DEF t
  <2>3. /\ u \in ServerState /\ u.queue = t.queue /\ SameTask(t.task, u.task)
        /\ u.task.cancelled
    BY <2>2, StopTaskFacts
  <2> HIDE DEF u
  <2>4. SrvInv(u, done, w, k, g, c)
    BY <2>2, <2>3, TaskKept
  <2>5. /\ r \in ServerState /\ r.queue = u.queue
        /\ r.task = IF u.task.owned THEN u.task ELSE NoTask
    BY <2>1, <2>3, ReleasedFacts
  <2> HIDE DEF r
  <2>6. \A i \in DOMAIN r.queue : r.queue[i].serial # s.task.serial
    BY <2>2, <2>3, <2>5
  <2>7. CASE u.task.owned
    <3>1. OpenInv(r, done, g, d)
      BY <2>3, <2>4, <2>5, <2>6, <2>7 DEF SrvInv, OpenInv
    <3>2. QueueInv(r) /\ WorkerInv(r, w, k) /\ AnswerInv(r, w)
      BY <2>4, <2>5, <2>7 DEF SrvInv, QueueInv, WorkerInv, AnswerInv
    <3> QED BY <2>5, <3>1, <3>2 DEF SrvInv, r
  <2>8. CASE ~u.task.owned
    <3>1. r.task = NoTask /\ ~r.task.active /\ ~r.task.owned
      BY <2>5, <2>8, TaskTyped
    <3>2. OpenInv(r, done, g, d)
      BY <2>4, <2>5, <2>6, <3>1 DEF SrvInv, OpenInv
    <3>3. \A i \in DOMAIN r.queue : ~r.queue[i].task
      BY <2>2, <2>3, <2>4, <2>5, <2>6 DEF SrvInv, QueueInv, SameTask
    <3>4. QueueInv(r) /\ WorkerInv(r, w, k) /\ AnswerInv(r, w)
      BY <2>4, <2>5, <2>8, <3>1, <3>3 DEF SrvInv, QueueInv, WorkerInv, AnswerInv, Told
    <3> QED BY <2>5, <3>2, <3>4 DEF SrvInv, r
  <2> QED BY <2>7, <2>8
<1> QED BY <1>1, <1>2

(* A cancel line keeps the invariant.                                       *)
LEMMA HandleCancelStep == ASSUME IInv, HandleCancel PROVE IInv'
<1>1. stdin # <<>> /\ worker' = worker /\ kid' = kid
  BY DEF HandleCancel, Handling, process
<1>2. called \in [read : SUBSET Nat, cancelled : SUBSET Nat] /\ Done \in Nat
  BY DEF IInv, TypeOK, LineInv
<1> DEFINE hit == srv.task.active /\ line.target = srv.task.id
<1>3. CASE hit
  <2>1. /\ Consumed(Cancelled(parsed))
        /\ called' = [called EXCEPT !.cancelled = called.cancelled \cup {srv.task.serial}]
    BY <1>3 DEF HandleCancel
  <2>2. /\ parsed \in ServerState /\ parsed.task = srv.task
        /\ SrvInv(parsed, Done + 1, worker, kid, given, called.cancelled)
    BY <1>1, NextLine
  <2>3. srv.task.serial \in 1 .. Done
    BY <1>3 DEF IInv, SrvInv, OpenInv
  <2>4. /\ called' \in [read : SUBSET Nat, cancelled : SUBSET Nat]
        /\ called'.cancelled = called.cancelled \cup {srv.task.serial}
    BY <1>2, <2>1, <2>3
  <2>5. \A n \in called'.cancelled : n <= Done + 1
    BY <1>2, <2>3, <2>4 DEF IInv, LineInv
  <2>6. /\ Cancelled(parsed) \in ServerState
        /\ SrvInv(Cancelled(parsed), Done + 1, worker, kid, given, called'.cancelled)
    BY <1>3, <2>2, <2>4, CancelledFacts
  <2> QED BY <1>1, <2>1, <2>4, <2>5, <2>6, LineConsumed DEF IInv, TypeOK
<1>4. CASE ~hit
  <2>1. Consumed(parsed) /\ called' = [called EXCEPT !.cancelled = called.cancelled]
    BY <1>4 DEF HandleCancel
  <2>2. called' = called
    BY <1>2, <2>1
  <2>3. \A n \in called.cancelled : n <= Done + 1
    BY <1>2 DEF IInv, LineInv
  <2> QED BY <1>1, <2>1, <2>2, <2>3, NextLine, LineConsumed DEF IInv, TypeOK
<1> QED BY <1>3, <1>4

(* A step of the server that reads no line and completes no reply.          *)
LEMMA ServerMoves ==
    ASSUME IInv, UNCHANGED <<stdin, client, given, called>>, srv' \in ServerState,
           SrvInv(srv', Done, worker', kid', given, called.cancelled),
           worker' \in Worker, kid' \in {"none", "alive", "zombie"},
           at' \in {"poll", "input", "worker", "finish", "output", "check", "exited"},
           SectionInv'
    PROVE  IInv'
<1>1. Done' = Done
  BY DEF Done
<1>2. TypeOK' /\ LineInv'
  BY <1>1 DEF IInv, TypeOK, LineInv
<1> QED BY <1>1, <1>2 DEF IInv

(* A section that reads no line, gives no reply and leaves the server sound *)
(* keeps the invariant, whichever section follows.                          *)
LEMMA RoundGoesOn ==
    ASSUME IInv, UNCHANGED <<stdin, client, given, called>>, srv' \in ServerState,
           NEW from \in 1 .. 4, NEW r, GoOn(from, srv', r),
           SrvInv(srv', Done, worker', kid', given, called.cancelled),
           worker' \in Worker, kid' \in {"none", "alive", "zombie"}
    PROVE  IInv'
<1>1. /\ at' \in {"input", "worker", "finish", "output", "check"}
      /\ at' = "finish" => srv'.task.owned
      /\ at' = "output" => srv'.queue # <<>>
  BY GoOnFacts
<1>2. SectionInv'
  BY <1>1 DEF SectionInv
<1> QED BY <1>1, <1>2, ServerMoves

(* The end of the input keeps the invariant.                                *)
LEMMA EndOfInputStep == ASSUME IInv, EndOfInput PROVE IInv'
<1>1. /\ srv' = ShutDown(srv, 0) /\ GoOn(2, srv', ready) /\ worker' = worker /\ kid' = kid
      /\ UNCHANGED <<stdin, client, given, called>>
  BY DEF EndOfInput, outside, process
<1>2. srv \in ServerState /\ SrvInv(srv, Done, worker, kid, given, called.cancelled) /\ 0 \in Nat
  BY DEF IInv, TypeOK
<1>3. srv' \in ServerState /\ SrvInv(srv', Done, worker, kid, given, called.cancelled)
  BY <1>1, <1>2, ShutDownFacts, ShutDownKeeps
<1>4. 2 \in 1 .. 4
  OBVIOUS
<1> QED BY <1>1, <1>3, <1>4, RoundGoesOn DEF IInv, TypeOK

(* The task changes in what the invariant does not look at.                 *)
LEMMA OtherTask ==
    ASSUME NEW s \in ServerState, NEW t \in Task, NEW done, NEW w, NEW k, NEW g, NEW c,
           SrvInv(s, done, w, k, g, c), SameTask(s.task, t), s.task.cancelled => t.cancelled
    PROVE  [s EXCEPT !.task = t] \in ServerState /\ SrvInv([s EXCEPT !.task = t], done, w, k, g, c)
<1> DEFINE r == [s EXCEPT !.task = t]
<1>1. r \in ServerState /\ r.task = t /\ r.queue = s.queue
  BY TaskReplaced
<1> HIDE DEF r
<1>2. SrvInv(r, done, w, k, g, c)
  BY <1>1, TaskKept
<1> QED BY <1>1, <1>2 DEF r

(* The open mark of the output pipe is in no part of the invariant.         *)
LEMMA Opened ==
    ASSUME NEW s \in ServerState, NEW done, NEW w, NEW k, NEW g, NEW c, NEW open \in BOOLEAN,
           SrvInv(s, done, w, k, g, c)
    PROVE  LET r == [s EXCEPT !.task.open = open]
           IN  r \in ServerState /\ SrvInv(r, done, w, k, g, c)
<1> DEFINE t == [s.task EXCEPT !.open = open]
           r == [s EXCEPT !.task.open = open]
<1>1. s.task \in Task
  BY DEF ServerState
<1>2. t \in Task /\ SameTask(s.task, t) /\ t.cancelled = s.task.cancelled
  BY <1>1 DEF Task, SameTask
<1>3. r = [s EXCEPT !.task = t]
  OBVIOUS
<1> HIDE DEF r, t
<1> QED BY <1>2, <1>3, OtherTask DEF r

(* Nor are the marks of a failed or broken answer.                          *)
LEMMA Failed ==
    ASSUME NEW s \in ServerState, NEW done, NEW w, NEW k, NEW g, NEW c,
           SrvInv(s, done, w, k, g, c)
    PROVE  LET r == [s EXCEPT !.task.failed = TRUE, !.task.broken = TRUE]
           IN  r \in ServerState /\ SrvInv(r, done, w, k, g, c)
               /\ (r.task.owned <=> s.task.owned)
<1> DEFINE t == [s.task EXCEPT !.failed = TRUE, !.broken = TRUE]
           r == [s EXCEPT !.task.failed = TRUE, !.task.broken = TRUE]
<1>1. s.task \in Task
  BY DEF ServerState
<1>2. t \in Task /\ SameTask(s.task, t) /\ t.cancelled = s.task.cancelled
  BY <1>1 DEF Task, SameTask
<1>3. r = [s EXCEPT !.task = t]
  BY <1>1 DEF ServerState, Task
<1> HIDE DEF r, t
<1>4. r \in ServerState /\ SrvInv(r, done, w, k, g, c) /\ r.task = t
  BY <1>2, <1>3, OtherTask, TaskReplaced
<1> QED BY <1>2, <1>4 DEF r, SameTask

(* Reading the worker's pipe keeps the invariant.                           *)
LEMMA ReadWorkerStep == ASSUME IInv, ReadWorker PROVE IInv'
<1>1. /\ GoOn(3, srv', ready) /\ worker' = worker /\ kid' = kid
      /\ UNCHANGED <<stdin, client, given, called>> /\ 3 \in 1 .. 4
  BY DEF ReadWorker, process
<1>2. srv \in ServerState /\ SrvInv(srv, Done, worker, kid, given, called.cancelled)
  BY DEF IInv, TypeOK
<1>3. srv' \in {srv, [srv EXCEPT !.task.open = ~HeadDead]} \/ srv' = Broke(srv)
  BY DEF ReadWorker
<1>4. CASE srv' = Broke(srv)
  <2> DEFINE r == [srv EXCEPT !.task.failed = TRUE, !.task.broken = TRUE]
  <2>1. r \in ServerState /\ SrvInv(r, Done, worker, kid, given, called.cancelled)
    BY <1>2, Failed
  <2>2. srv' = StopTask(r, FALSE)
    BY <1>4 DEF Broke
  <2> HIDE DEF r
  <2>3. /\ srv' \in ServerState /\ srv'.queue = r.queue /\ SameTask(r.task, srv'.task)
        /\ srv'.task.cancelled = (r.task.cancelled \/ (r.task.active /\ FALSE))
    BY <2>1, <2>2, StopTaskFacts
  <2>4. r.task.cancelled => srv'.task.cancelled
    BY <2>3
  <2>5. SrvInv(srv', Done, worker, kid, given, called.cancelled)
    BY <2>1, <2>3, <2>4, TaskKept
  <2> QED BY <1>1, <2>3, <2>5, RoundGoesOn DEF IInv, TypeOK
<1>5. CASE srv' = [srv EXCEPT !.task.open = ~HeadDead]
  <2>1. (~HeadDead) \in BOOLEAN
    OBVIOUS
  <2>2. srv' \in ServerState /\ SrvInv(srv', Done, worker, kid, given, called.cancelled)
    BY <1>2, <1>5, <2>1, Opened
  <2> QED BY <1>1, <2>2, RoundGoesOn DEF IInv, TypeOK
<1>6. CASE srv' = srv
  BY <1>1, <1>2, <1>6, RoundGoesOn DEF IInv, TypeOK
<1> QED BY <1>3, <1>4, <1>5, <1>6

(* The watch on the leader, before the group is reaped.                     *)
LEMMA WatchedFacts ==
    ASSUME IInv, Finishing
    PROVE  /\ watched \in ServerState
           /\ SrvInv(watched, Done, worker, kid, given, called.cancelled)
           /\ watched.task.owned
<1> DEFINE t == Watched(srv.task)
           s == [srv EXCEPT !.task = Watched(@)]
           c == called.cancelled
<1>1. srv \in ServerState /\ srv.task \in Task /\ srv.task.owned /\ worker \in Worker
      /\ SrvInv(srv, Done, worker, kid, given, c)
  BY DEF IInv, TypeOK, ServerState, SectionInv, Finishing
<1> DEFINE exited == srv.task.exited \/ worker.at = "zombie"
           killed == srv.task.killed \/ exited \/ (srv.task.stopping /\ srv.task.late)
<1>2. t = [srv.task EXCEPT !.exited = exited, !.killed = killed]
  BY DEF Watched
<1>3. exited \in BOOLEAN /\ killed \in BOOLEAN
  OBVIOUS
<1>4. exited <=> (srv.task.exited \/ worker.at = "zombie")
  OBVIOUS
<1> HIDE DEF exited, killed, t
<1>5. /\ t \in Task /\ t.active = srv.task.active /\ t.owned = srv.task.owned
      /\ t.grouped = srv.task.grouped /\ t.serial = srv.task.serial
      /\ t.cancelled = srv.task.cancelled /\ t.exited = exited
  <2> DEFINE k == srv.task
  <2>1. k \in Task
    BY <1>1
  <2>2. t = [k EXCEPT !.exited = exited, !.killed = killed]
    BY <1>2
  <2> HIDE DEF k
  <2>3. t \in Task
    BY <2>1, <2>2, <1>3 DEF Task
  <2>4. /\ t.active = k.active /\ t.owned = k.owned /\ t.grouped = k.grouped
        /\ t.serial = k.serial /\ t.cancelled = k.cancelled /\ t.exited = exited
    BY <2>1, <2>2 DEF Task
  <2> QED BY <2>3, <2>4 DEF k
<1>6. s = [srv EXCEPT !.task = t]
  BY DEF t
<1> HIDE DEF s
<1>7. s \in ServerState /\ s.task = t /\ s.queue = srv.queue
  <2>1. srv \in ServerState /\ t \in Task
    BY <1>1, <1>5
  <2> QED BY <1>6, <2>1, TaskReplaced
<1>8. SrvInv(s, Done, worker, kid, given, c)
  <2>1. QueueInv(s) /\ OpenInv(s, Done, given, c) /\ AnswerInv(s, worker)
    BY <1>1, <1>5, <1>7 DEF SrvInv, QueueInv, OpenInv, AnswerInv
  <2>2. WorkerInv(s, worker, kid)
    BY <1>1, <1>4, <1>5, <1>7 DEF SrvInv, WorkerInv
  <2> QED BY <2>1, <2>2 DEF SrvInv
<1>9. s.task.owned
  BY <1>1, <1>5, <1>7
<1>10. watched = IF s.task.broken THEN ShutDown(s, 5) ELSE s
  BY DEF watched, s
<1>11. /\ ShutDown(s, 5) \in ServerState /\ ShutDown(s, 5).task.owned
       /\ SrvInv(ShutDown(s, 5), Done, worker, kid, given, c)
  <2>1. 5 \in Nat
    OBVIOUS
  <2> QED BY <1>7, <1>8, <1>9, <2>1, ShutDownFacts, ShutDownKeeps
<1> QED BY <1>7, <1>8, <1>9, <1>10, <1>11

(* A worker that does not exit yet keeps the invariant.                     *)
LEMMA FinishWaitsStep == ASSUME IInv, FinishWaits PROVE IInv'
<1>1. /\ srv' = watched /\ GoOn(4, srv', ready) /\ worker' = worker /\ kid' = kid
      /\ UNCHANGED <<stdin, client, given, called>> /\ 4 \in 1 .. 4 /\ Finishing
  BY DEF FinishWaits, outside, process
<1> QED BY <1>1, WatchedFacts, RoundGoesOn DEF IInv, TypeOK

(* Reaping the worker keeps the invariant.                                  *)
LEMMA FinishReapsStep == ASSUME IInv, FinishReaps PROVE IInv'
<1>1. /\ GoOn(4, srv', ready) /\ worker' = worker /\ 4 \in 1 .. 4
      /\ UNCHANGED <<stdin, client, given, called>> /\ Finishing
  BY DEF FinishReaps
<1> DEFINE s == watched
           c == called.cancelled
<1>2. s \in ServerState /\ SrvInv(s, Done, worker, kid, given, c) /\ s.task.owned
  BY <1>1, WatchedFacts
<1> HIDE DEF s
<1>3. \/ srv' = s /\ kid' = kid
      \/ kid' = "none" /\ srv' = [s EXCEPT !.task.orphan = TRUE]
      \/ /\ kid' = kid
         /\ srv' = ShutDown([s EXCEPT !.task.failed = TRUE, !.task.broken = TRUE], 5)
  BY DEF FinishReaps, s
<1>4. CASE srv' = s /\ kid' = kid
  BY <1>1, <1>2, <1>4, RoundGoesOn DEF IInv, TypeOK
<1>5. CASE kid' = "none" /\ srv' = [s EXCEPT !.task.orphan = TRUE]
  <2> DEFINE t == [s.task EXCEPT !.orphan = TRUE]
             r == [s EXCEPT !.task.orphan = TRUE]
  <2>1. s.task \in Task
    BY <1>2 DEF ServerState
  <2>2. t \in Task /\ SameTask(s.task, t) /\ t.cancelled = s.task.cancelled
    BY <2>1 DEF Task, SameTask
  <2>3. r = [s EXCEPT !.task = t]
    OBVIOUS
  <2> HIDE DEF r, t
  <2>4. r \in ServerState /\ SrvInv(r, Done, worker, kid, given, c)
    BY <1>2, <2>2, <2>3, OtherTask
  <2>5. r.task.owned
    BY <1>2, <2>2, <2>3, TaskReplaced DEF SameTask
  <2>6. SrvInv(r, Done, worker, "none", given, c)
    BY <2>4, <2>5 DEF SrvInv, WorkerInv
  <2> QED BY <1>1, <1>5, <2>4, <2>6, RoundGoesOn DEF IInv, TypeOK, r
<1>6. CASE /\ kid' = kid
           /\ srv' = ShutDown([s EXCEPT !.task.failed = TRUE, !.task.broken = TRUE], 5)
  <2> DEFINE r == [s EXCEPT !.task.failed = TRUE, !.task.broken = TRUE]
  <2>1. r \in ServerState /\ SrvInv(r, Done, worker, kid, given, c) /\ 5 \in Nat
    BY <1>2, Failed
  <2> HIDE DEF r
  <2>2. srv' \in ServerState /\ SrvInv(srv', Done, worker, kid, given, c)
    BY <1>6, <2>1, ShutDownFacts, ShutDownKeeps DEF r
  <2> QED BY <1>1, <1>6, <2>2, RoundGoesOn DEF IInv, TypeOK
<1> QED BY <1>3, <1>4, <1>5, <1>6

(* The leader is reaped: its task ends, or its reply joins the queue.       *)
LEMMA ReapedFacts ==
    ASSUME NEW s \in ServerState, NEW done, NEW w, NEW k, NEW g, NEW c,
           SrvInv(s, done, w, k, g, c), s.task.owned,
           NEW v, v.at = "gone"
    PROVE  LET r == Reaped(s)
           IN  /\ r \in ServerState /\ r.queue = s.queue /\ r.closing = s.closing
               /\ r.task.active /\ ~r.task.owned /\ r.task.serial = s.task.serial
               /\ r.task.cancelled = s.task.cancelled /\ r.task \in Task
               /\ SrvInv(r, done, v, "none", g, c)
               /\ \A i \in DOMAIN r.queue : ~r.queue[i].task /\ r.queue[i].serial # s.task.serial
<1> DEFINE t == [s.task EXCEPT !.owned = FALSE, !.open = FALSE]
           r == Reaped(s)
<1>1. s.task \in Task /\ s.task.active
  BY DEF ServerState, SrvInv, QueueInv
<1>2. /\ t \in Task /\ t.active /\ ~t.owned /\ t.serial = s.task.serial
      /\ t.cancelled = s.task.cancelled
  BY <1>1 DEF Task
<1>3. r = [s EXCEPT !.task = t]
  BY <1>1 DEF Reaped, ServerState, Task
<1> HIDE DEF t, r
<1>4. r \in ServerState /\ r.task = t /\ r.queue = s.queue /\ r.closing = s.closing
  BY <1>2, <1>3, TaskReplaced
<1>5. \A i \in DOMAIN s.queue : ~s.queue[i].task /\ s.queue[i].serial # s.task.serial
  BY <1>1 DEF SrvInv, QueueInv
<1>6. QueueInv(r) /\ OpenInv(r, done, g, c)
  BY <1>1, <1>2, <1>4, <1>5 DEF SrvInv, QueueInv, OpenInv
<1>7. WorkerInv(r, v, "none") /\ AnswerInv(r, v)
  BY <1>2, <1>4, <1>5 DEF WorkerInv, AnswerInv, Told
<1> QED BY <1>1, <1>2, <1>4, <1>5, <1>6, <1>7 DEF SrvInv, r

(* The frame made for a reaped worker carries what that worker wrote, or    *)
(* IO.                                                                      *)
LEMMA TokenFacts ==
    ASSUME NEW t \in Task, worker \in Worker, NEW v,
           v.at = "gone", v.result = worker.result, v.wrote = worker.wrote,
           v.status = worker.status
    PROVE  LET f == Frame(t, Token(t), TRUE)
           IN  f \in Reply /\ f.serial = t.serial /\ f.task /\ Told(f, v)
<1> DEFINE token == Token(t)
<1>1. /\ token \in Tokens
      /\ token # "IO" => worker.status = "ok" /\ Whole(worker) /\ token = worker.result
  BY DEF Token, Whole, Tokens
<1>2. Whole(worker) <=> Whole(v)
  BY DEF Whole
<1> HIDE DEF token
<1> DEFINE f == Frame(t, token, TRUE)
<1>3. f = [serial |-> t.serial, id |-> t.id, token |-> token, task |-> TRUE, sent |-> 0,
           late |-> FALSE]
  BY DEF Frame
<1>4. t.serial \in Nat /\ t.id \in Ids
  BY DEF Task
<1> HIDE DEF f
<1>5. f \in Reply
  BY <1>1, <1>3, <1>4 DEF Reply
<1>6. Told(f, v)
  BY <1>1, <1>2, <1>3 DEF Told
<1>7. f.serial = t.serial /\ f.task
  BY <1>3
<1> QED BY ONLY <1>5, <1>6, <1>7 DEF token, f

(* Turning the reaped worker into a frame keeps the invariant: the task     *)
(* stops being owned as its frame enters the queue.                         *)
LEMMA FinishDoneStep == ASSUME IInv, FinishDone PROVE IInv'
<1>1. /\ GoOn(4, srv', ready) /\ 4 \in 1 .. 4 /\ kid = "none" /\ kid' = "none"
      /\ UNCHANGED <<stdin, client, given, called>> /\ Finishing /\ watched.task.exited
  <2>1. FinishDone
    OBVIOUS
  <2>2. GoOn(4, srv', ready)
    BY ONLY <2>1 DEF FinishDone
  <2>3. kid = "none" /\ Finishing /\ watched.task.exited /\ UNCHANGED <<outside, ready, kid, called>>
    BY ONLY <2>1 DEF FinishDone
  <2> QED BY <2>2, <2>3 DEF outside
<1> DEFINE s == watched
           c == called.cancelled
           r == Reaped(s)
           f == Frame(r.task, Token(r.task), TRUE)
<1>2. s \in ServerState /\ SrvInv(s, Done, worker, kid, given, c) /\ s.task.owned
  BY <1>1, WatchedFacts
<1>3. worker.at = "zombie" /\ worker \in Worker /\ Done \in Nat
  BY <1>1, <1>2 DEF SrvInv, WorkerInv, IInv, TypeOK, LineInv
<1>4. worker' = [worker EXCEPT !.at = "gone"]
  BY <1>3 DEF FinishDone
<1>5. srv' = IF r.task.cancelled \/ r.closing THEN Released(r) ELSE Enqueued(r, f)
  BY DEF FinishDone
<1>6. /\ worker' \in Worker /\ worker'.at = "gone" /\ worker'.result = worker.result
      /\ worker'.wrote = worker.wrote /\ worker'.status = worker.status
  BY <1>3, <1>4 DEF Worker
<1> HIDE DEF s
<1>7. /\ r \in ServerState /\ r.queue = s.queue /\ r.task.active /\ ~r.task.owned
      /\ r.task.serial = s.task.serial /\ r.task.cancelled = s.task.cancelled /\ r.task \in Task
      /\ SrvInv(r, Done, worker', "none", given, c)
      /\ \A i \in DOMAIN r.queue : ~r.queue[i].task /\ r.queue[i].serial # s.task.serial
  BY <1>2, <1>6, ReapedFacts
<1> HIDE DEF r
<1>8. CASE r.task.cancelled \/ r.closing
  <2>1. srv' = Released(r)
    BY <1>5, <1>8
  <2>2. srv' \in ServerState /\ srv'.queue = r.queue /\ srv'.task = NoTask
    BY <1>7, <2>1, ReleasedFacts
  <2>3. QueueInv(srv') /\ OpenInv(srv', Done, given, c)
    BY <1>7, <2>2, TaskTyped DEF SrvInv, QueueInv, OpenInv
  <2>4. WorkerInv(srv', worker', "none") /\ AnswerInv(srv', worker')
    BY <1>6, <1>7, <2>2, TaskTyped DEF SrvInv, WorkerInv, AnswerInv
  <2>5. SrvInv(srv', Done, worker', kid', given, c)
    BY <1>1, <2>3, <2>4 DEF SrvInv
  <2> QED BY <1>1, <1>6, <2>2, <2>5, RoundGoesOn
<1>9. CASE ~(r.task.cancelled \/ r.closing)
  <2>1. srv' = Enqueued(r, f)
    BY <1>5, <1>9
  <2>2. f \in Reply /\ f.serial = r.task.serial /\ f.task /\ Told(f, worker')
    BY <1>3, <1>6, <1>7, TokenFacts
  <2>3. /\ f.serial \in 1 .. Done /\ given[f.serial] = <<>> /\ f.serial \notin c
        /\ \A i \in DOMAIN r.queue : r.queue[i].serial # f.serial
    <3>1. s.task.active /\ ~s.task.cancelled
      BY <1>2, <1>7, <1>9 DEF SrvInv, QueueInv
    <3> QED BY <1>2, <1>7, <2>2, <3>1 DEF SrvInv, OpenInv
  <2> HIDE DEF f
  <2>4. SrvInv(srv', Done, worker', "none", given, c)
    BY <1>3, <1>7, <2>1, <2>2, <2>3, EnqueueKeeps
  <2>5. srv' \in ServerState
    BY <1>7, <2>1, <2>2, EnqueuedFacts
  <2> QED BY <1>1, <1>6, <2>4, <2>5, RoundGoesOn
<1> QED BY <1>8, <1>9

-----------------------------------------------------------------------------
(* The head of the queue is written, and the deadlines.                     *)

(* The head of the queue changes in what was sent of it or in its deadline. *)
LEMMA HeadChanged ==
    ASSUME NEW s \in ServerState, s.queue # <<>>, NEW f \in Reply,
           f.serial = s.queue[1].serial, f.task = s.queue[1].task, f.token = s.queue[1].token,
           NEW done, NEW w, NEW k, NEW g, NEW c, SrvInv(s, done, w, k, g, c)
    PROVE  LET r == [s EXCEPT !.queue[1] = f]
           IN  /\ r \in ServerState /\ r.task = s.task /\ r.closing = s.closing
               /\ Len(r.queue) = Len(s.queue) /\ r.queue # <<>> /\ r.queue[1] = f
               /\ \A i \in DOMAIN r.queue : i # 1 => r.queue[i] = s.queue[i]
               /\ SrvInv(r, done, w, k, g, c)
<1> DEFINE q == [s.queue EXCEPT ![1] = f]
           r == [s EXCEPT !.queue[1] = f]
<1>1. /\ s.queue \in Seq(Reply) /\ Len(s.queue) \in Nat /\ DOMAIN s.queue = 1 .. Len(s.queue)
      /\ Len(s.queue) > 0
  BY EmptySeq, LenProperties DEF ServerState
<1>2. /\ q \in Seq(Reply) /\ Len(q) = Len(s.queue) /\ DOMAIN q = DOMAIN s.queue /\ q[1] = f
      /\ \A i \in DOMAIN q : i # 1 => q[i] = s.queue[i]
  BY <1>1, ExceptSeq
<1>3. r = [s EXCEPT !.queue = q]
  OBVIOUS
<1> HIDE DEF q, r
<1>4. r \in ServerState /\ r.task = s.task /\ r.closing = s.closing /\ r.queue = q
  BY <1>2, <1>3 DEF ServerState
<1>5. \A i \in DOMAIN q : /\ q[i].serial = s.queue[i].serial /\ q[i].task = s.queue[i].task
                          /\ q[i].token = s.queue[i].token
  BY <1>1, <1>2
<1>6. QueueInv(r) /\ OpenInv(r, done, g, c) /\ WorkerInv(r, w, k) /\ AnswerInv(r, w)
  <2>1. QueueInv(r)
    BY <1>2, <1>4, <1>5 DEF SrvInv, QueueInv
  <2>2. OpenInv(r, done, g, c)
    BY <1>2, <1>4, <1>5 DEF SrvInv, OpenInv
  <2>3. WorkerInv(r, w, k)
    BY <1>4 DEF SrvInv, WorkerInv
  <2>4. AnswerInv(r, w)
    BY <1>2, <1>4, <1>5 DEF SrvInv, AnswerInv, Told
  <2> QED BY <2>1, <2>2, <2>3, <2>4
<1>7. q # <<>>
  BY <1>1, <1>2, EmptySeq
<1> QED BY <1>2, <1>4, <1>6, <1>7 DEF SrvInv, r

(* After its write the first frame leaves the queue, and no frame behind it *)
(* has its number.                                                          *)
LEMMA PoppedFacts ==
    ASSUME NEW s \in ServerState, s.queue # <<>>, NEW done, NEW w, NEW k, NEW g, NEW h, NEW c,
           SrvInv(s, done, w, k, g, c),
           \A n \in 1 .. done : n # s.queue[1].serial => h[n] = g[n]
    PROVE  Popped(s) \in ServerState /\ SrvInv(Popped(s), done, w, k, h, c)
<1> DEFINE q == s.queue
           t == IF Head(q).task THEN NoTask ELSE s.task
           r == Popped(s)
<1>1. /\ q \in Seq(Reply) /\ Len(q) \in Nat /\ DOMAIN q = 1 .. Len(q) /\ Len(q) > 0
      /\ s.task \in Task /\ Head(q) = q[1]
  BY EmptySeq, LenProperties, HeadTailProperties DEF ServerState
<1>2. /\ Tail(q) \in Seq(Reply) /\ DOMAIN Tail(q) = 1 .. Len(q) - 1
      /\ \A i \in 1 .. Len(q) - 1 : Tail(q)[i] = q[i + 1]
  BY <1>1, HeadTailProperties, LenProperties
<1>3. t \in Task
  BY <1>1, TaskTyped
<1>4. r = [s EXCEPT !.queue = Tail(q), !.task = t]
  BY DEF Popped
<1>5. t = IF q[1].task THEN NoTask ELSE s.task
  BY <1>1
<1> HIDE DEF t, r
<1>6. r \in ServerState /\ r.task = t /\ r.queue = Tail(q)
  BY <1>2, <1>3, <1>4 DEF ServerState
<1>7. 1 \in DOMAIN q /\ \A i \in 1 .. Len(q) - 1 : i + 1 \in DOMAIN q /\ i + 1 # 1
  BY <1>1
<1>8. \A i \in DOMAIN r.queue : \E j \in DOMAIN q : j # 1 /\ r.queue[i] = q[j]
  BY <1>2, <1>6, <1>7
<1>9. \A i, j \in DOMAIN r.queue : r.queue[i].serial = r.queue[j].serial => i = j
  <2> SUFFICES ASSUME NEW i \in DOMAIN r.queue, NEW j \in DOMAIN r.queue,
                      r.queue[i].serial = r.queue[j].serial
               PROVE  i = j
    OBVIOUS
  <2>1. /\ r.queue[i] = q[i + 1] /\ r.queue[j] = q[j + 1]
        /\ i + 1 \in DOMAIN q /\ j + 1 \in DOMAIN q /\ i \in Nat /\ j \in Nat
    BY <1>1, <1>2, <1>6, <1>7
  <2>2. i + 1 = j + 1
    BY <2>1 DEF SrvInv, QueueInv
  <2> QED BY <2>1, <2>2
<1>10. \A j \in DOMAIN q : j # 1 => q[j].serial # q[1].serial
  BY <1>7 DEF SrvInv, QueueInv
<1>11. CASE q[1].task
  <2>1. r.task = NoTask /\ ~r.task.owned /\ ~r.task.active /\ ~s.task.owned
    BY <1>5, <1>6, <1>7, <1>11, TaskTyped DEF SrvInv, QueueInv
  <2>2. \A j \in DOMAIN q : j # 1 => ~q[j].task
    BY <1>7, <1>10, <1>11 DEF SrvInv, QueueInv
  <2>3. QueueInv(r)
    BY <1>8, <1>9, <2>1, <2>2 DEF QueueInv
  <2>4. OpenInv(r, done, h, c)
    BY <1>8, <1>10, <2>1 DEF SrvInv, OpenInv
  <2>5. WorkerInv(r, w, k)
    BY <2>1 DEF SrvInv, WorkerInv
  <2>6. AnswerInv(r, w)
    BY <1>8, <2>2 DEF AnswerInv, Told
  <2> QED BY <1>6, <2>3, <2>4, <2>5, <2>6 DEF SrvInv, r
<1>12. CASE ~q[1].task
  <2>1. r.task = s.task
    BY <1>5, <1>6, <1>12
  <2>2. s.task.active => s.task.serial # q[1].serial
    BY <1>7, <1>12 DEF SrvInv, QueueInv
  <2>3. QueueInv(r)
    BY <1>8, <1>9, <2>1 DEF SrvInv, QueueInv
  <2>4. OpenInv(r, done, h, c)
    BY <1>8, <1>10, <2>1, <2>2 DEF SrvInv, QueueInv, OpenInv
  <2>5. WorkerInv(r, w, k) /\ AnswerInv(r, w)
    BY <1>8, <2>1 DEF SrvInv, WorkerInv, AnswerInv
  <2> QED BY <1>6, <2>3, <2>4, <2>5 DEF SrvInv, r
<1> QED BY <1>11, <1>12

(* Of one that is cut off, the reply counts and the queue is dropped.       *)
LEMMA CutOffFacts ==
    ASSUME NEW s \in ServerState, s.queue # <<>>, NEW done, NEW w, NEW k, NEW g, NEW h, NEW c,
           SrvInv(s, done, w, k, g, c),
           \A n \in 1 .. done : n # s.queue[1].serial => h[n] = g[n]
    PROVE  ShutDown(s, 5) \in ServerState /\ SrvInv(ShutDown(s, 5), done, w, k, h, c)
<1> DEFINE r == ShutDown(s, 5)
<1>1. 5 \in Nat
  OBVIOUS
<1>2. /\ r \in ServerState /\ r.queue = <<>>
      /\ s.task.owned => SameTask(s.task, r.task)
      /\ ~s.task.owned => r.task = NoTask
      /\ SrvInv(r, done, w, k, g, c)
  <2>1. SrvInv(r, done, w, k, g, c)
    BY <1>1, ShutDownKeeps
  <2>2. /\ s.task.owned => SameTask(s.task, ShutDown(s, 5).task)
        /\ ~s.task.owned => ShutDown(s, 5).task = NoTask
        /\ ShutDown(s, 5) \in ServerState /\ ShutDown(s, 5).queue = <<>>
    BY <1>1, ShutDownFacts
  <2> QED BY <2>1, <2>2
<1> HIDE DEF r
<1>3. 1 \in DOMAIN s.queue
  BY EmptySeq, LenProperties DEF ServerState
<1>4. r.task.owned => s.task.owned /\ s.task.active /\ r.task.serial # s.queue[1].serial
  BY <1>2, <1>3, TaskTyped DEF SrvInv, QueueInv, SameTask
<1>5. r.task.owned => r.task.serial \in 1 .. done
  BY <1>2 DEF SrvInv, QueueInv, OpenInv
<1>6. DOMAIN r.queue = {}
  BY <1>2
<1>7. OpenInv(r, done, h, c)
  BY <1>2, <1>4, <1>5, <1>6 DEF SrvInv, OpenInv
<1> QED BY <1>2, <1>7 DEF SrvInv, r

(* The numbers read so far are numbers of lines.                            *)
LEMMA DoneSerials == ASSUME IInv PROVE 1 .. Done \subseteq Serials
<1>1. /\ client.script \in Scripts /\ client.sent \in Nat /\ client.sent <= Len(client.script)
      /\ stdin \in Seq(Line) /\ Len(stdin) \in Nat
  BY LenProperties DEF IInv, TypeOK, LineInv
<1>2. Done <= client.sent /\ Done \in Int
  BY <1>1 DEF Done
<1>3. 1 .. Done \subseteq DOMAIN client.script
  BY <1>1, <1>2, McpAssumption
<1> QED BY <1>1, <1>3 DEF Serials

(* What a write, complete or not, may have done.                            *)
LEMMA WriteOutputFacts ==
    ASSUME IInv, WriteOutput
    PROVE  /\ srv.queue # <<>> /\ 1 \in DOMAIN srv.queue /\ srv.queue[1] \in Reply
           /\ srv.queue[1].serial \in Serials
           /\ given' \in {given, [given EXCEPT ![srv.queue[1].serial] =
                                     Append(@, srv.queue[1].token)]}
<1>1. srv.queue # <<>> /\ srv.queue \in Seq(Reply)
  BY DEF WriteOutput, IInv, SectionInv, TypeOK, ServerState
<1>2. Head(srv.queue) = srv.queue[1] /\ 1 \in DOMAIN srv.queue /\ srv.queue[1] \in Reply
  BY <1>1, HeadTailProperties, LenProperties, ElementOfSeq, EmptySeq
<1>3. srv.queue[1].serial \in Serials
  BY <1>2, DoneSerials DEF IInv, SrvInv, OpenInv
<1>4. given' \in {given, [given EXCEPT ![Head(srv.queue).serial] =
                             Append(@, Head(srv.queue).token)]}
  BY DEF WriteOutput
<1> QED BY <1>1, <1>2, <1>3, <1>4

(* A write, whole, partial or failed, keeps the invariant.                  *)
LEMMA WriteOutputStep == ASSUME IInv, WriteOutput PROVE IInv'
<1> DEFINE f == srv.queue[1]
           c == called.cancelled
<1>1. /\ srv.queue # <<>> /\ 1 \in DOMAIN srv.queue /\ f \in Reply /\ f.serial \in Serials
      /\ given' \in {given, [given EXCEPT ![f.serial] = Append(@, f.token)]}
  BY WriteOutputFacts
<1>2. srv \in ServerState /\ SrvInv(srv, Done, worker, kid, given, c) /\ Done \in Nat
      /\ given \in [Serials -> Seq(Tokens)] /\ f.serial \in 1 .. Done
  BY <1>1 DEF IInv, TypeOK, LineInv, SrvInv, OpenInv
<1>3. /\ stdin' = stdin /\ client' = client /\ called' = called /\ worker' = worker /\ kid' = kid
      /\ at' = "check"
  BY DEF WriteOutput, process
<1>4. Done' = Done
  BY <1>3 DEF Done
<1>5. /\ given' \in [Serials -> Seq(Tokens)]
      /\ \A n \in Serials : n # f.serial => given'[n] = given[n]
      /\ \A n \in 1 .. Done : n # f.serial => given'[n] = given[n]
  <2>1. f.token \in Tokens
    BY <1>1 DEF Reply
  <2>2. Append(given[f.serial], f.token) \in Seq(Tokens)
    BY <1>1, <1>2, <2>1, AppendProperties
  <2> DEFINE v == Append(given[f.serial], f.token)
  <2>3. given' = given \/ given' = [given EXCEPT ![f.serial] = v]
    BY <1>1
  <2> HIDE DEF v
  <2>4. v \in Seq(Tokens)
    BY <2>2 DEF v
  <2> HIDE DEF f
  <2>5. \A n \in Serials : n # f.serial => given'[n] = given[n]
    BY <1>2, <2>3
  <2>6. given' \in [Serials -> Seq(Tokens)]
    BY <1>2, <2>3, <2>4
  <2>7. \A n \in 1 .. Done : n # f.serial => given'[n] = given[n]
    BY <2>5, DoneSerials
  <2> QED BY <2>5, <2>6, <2>7
<1>6. srv' \in ServerState /\ SrvInv(srv', Done, worker, kid, given', c)
  <2>1. srv.queue \in Seq(Reply) /\ Head(srv.queue) = f
    BY <1>1, HeadTailProperties DEF IInv, TypeOK, ServerState
  <2>2. CASE srv' = ShutDown(srv, 5)
    BY <1>1, <1>2, <1>5, <2>2, CutOffFacts
  <2>3. ASSUME NEW sent \in f.sent .. 2, NEW over \in BOOLEAN,
               given' = IF sent = 2 THEN [given EXCEPT ![f.serial] = Append(@, f.token)]
                        ELSE given,
               srv' = IF over THEN ShutDown([srv EXCEPT !.queue[1].sent = sent], 5)
                      ELSE IF sent = 2 THEN Popped([srv EXCEPT !.queue[1].sent = sent])
                      ELSE [srv EXCEPT !.queue[1].sent = sent]
        PROVE  srv' \in ServerState /\ SrvInv(srv', Done, worker, kid, given', c)
    <3> DEFINE h == [f EXCEPT !.sent = sent]
               r == [srv EXCEPT !.queue[1].sent = sent]
    <3>1. f.sent \in 0 .. 2
      BY <1>1 DEF Reply
    <3>2. sent \in 0 .. 2
      BY <3>1
    <3>3. h \in Reply /\ h.serial = f.serial /\ h.task = f.task /\ h.token = f.token
      BY <1>1, <3>2 DEF Reply
    <3>4. r = [srv EXCEPT !.queue[1] = h]
      OBVIOUS
    <3> HIDE DEF h, r
    <3>5. /\ r \in ServerState /\ r.queue # <<>> /\ r.queue[1] = h
          /\ SrvInv(r, Done, worker, kid, given, c)
      BY <1>1, <1>2, <3>3, <3>4, HeadChanged
    <3>6. \A n \in 1 .. Done : n # r.queue[1].serial => given'[n] = given[n]
      BY <1>5, <3>3, <3>5
    <3>7. CASE over
      BY <2>3, <3>5, <3>6, <3>7, CutOffFacts DEF r
    <3>8. CASE ~over /\ sent = 2
      BY <2>3, <3>5, <3>6, <3>8, PoppedFacts DEF r
    <3>9. CASE ~over /\ sent # 2
      BY <2>3, <3>5, <3>9 DEF r
    <3> QED BY <3>7, <3>8, <3>9
  <2>4. \/ srv' = ShutDown(srv, 5)
        \/ \E sent \in f.sent .. 2, over \in BOOLEAN :
              /\ given' = IF sent = 2 THEN [given EXCEPT ![f.serial] = Append(@, f.token)]
                          ELSE given
              /\ srv' = IF over THEN ShutDown([srv EXCEPT !.queue[1].sent = sent], 5)
                        ELSE IF sent = 2 THEN Popped([srv EXCEPT !.queue[1].sent = sent])
                        ELSE [srv EXCEPT !.queue[1].sent = sent]
    BY <2>1 DEF WriteOutput
  <2> QED BY <2>2, <2>3, <2>4
<1>7. TypeOK'
  BY <1>3, <1>5, <1>6 DEF IInv, TypeOK
<1>8. LineInv'
  <2>1. \A n \in Serials : n > Done => n # f.serial
    BY <1>2
  <2> QED BY <1>3, <1>4, <1>5, <2>1 DEF IInv, LineInv
<1>9. SectionInv'
  BY <1>3 DEF SectionInv
<1> QED BY <1>3, <1>4, <1>6, <1>7, <1>8, <1>9 DEF IInv

(* The check of the deadline keeps the invariant.                           *)
LEMMA CheckDeadlineStep == ASSUME IInv, CheckDeadline PROVE IInv'
<1>1. /\ srv' \in {srv, ShutDown(srv, 5)} /\ at' = "poll"
      /\ UNCHANGED <<stdin, client, given, called>> /\ worker' = worker /\ kid' = kid
  BY DEF CheckDeadline, outside, process
<1>2. srv \in ServerState /\ SrvInv(srv, Done, worker, kid, given, called.cancelled) /\ 5 \in Nat
  BY DEF IInv, TypeOK
<1>3. ShutDown(srv, 5) \in ServerState
      /\ SrvInv(ShutDown(srv, 5), Done, worker, kid, given, called.cancelled)
  BY <1>2, ShutDownFacts, ShutDownKeeps
<1>4. srv' \in ServerState /\ SrvInv(srv', Done, worker, kid, given, called.cancelled)
  BY <1>1, <1>2, <1>3
<1>5. SectionInv'
  BY <1>1 DEF SectionInv
<1> QED BY <1>1, <1>4, <1>5, ServerMoves DEF IInv, TypeOK

(* A new round of the loop keeps the invariant.                             *)
LEMMA PollStep == ASSUME IInv, Poll PROVE IInv'
<1>1. /\ GoOn(1, srv', ready') /\ 1 \in 1 .. 4
      /\ UNCHANGED <<stdin, client, given, called>> /\ worker' = worker /\ kid' = kid
      /\ srv' = IF sig = "none" THEN srv ELSE ShutDown(srv, IF sig = "INT" THEN 130 ELSE 143)
  BY DEF Poll, outside, process
<1> DEFINE code == IF sig = "INT" THEN 130 ELSE 143
<1>2. code \in Nat
  OBVIOUS
<1>3. srv \in ServerState /\ SrvInv(srv, Done, worker, kid, given, called.cancelled)
  BY DEF IInv, TypeOK
<1> HIDE DEF code
<1>4. ShutDown(srv, code) \in ServerState
      /\ SrvInv(ShutDown(srv, code), Done, worker, kid, given, called.cancelled)
  BY <1>2, <1>3, ShutDownFacts, ShutDownKeeps
<1>5. srv' \in ServerState /\ SrvInv(srv', Done, worker, kid, given, called.cancelled)
  BY <1>1, <1>3, <1>4 DEF code
<1> QED BY <1>1, <1>5, RoundGoesOn DEF IInv, TypeOK

(* Leaving the loop keeps the invariant: no worker is owned then.           *)
LEMMA ExitStep == ASSUME IInv, Exit PROVE IInv'
<1>1. /\ UNCHANGED <<stdin, client, given, called, srv>> /\ worker' = worker /\ kid' = kid
      /\ at' = "exited" /\ ~srv.task.owned
  BY DEF Exit, LoopEnds, outside, process, IInv, SrvInv, QueueInv
<1>2. SectionInv'
  BY <1>1 DEF SectionInv
<1> QED BY <1>1, <1>2, ServerMoves DEF IInv, TypeOK

-----------------------------------------------------------------------------
(* The worker, its kid, the client and time.                                *)

(* A step of the worker or of its kid.                                      *)
LEMMA ProcessMoves ==
    ASSUME IInv, UNCHANGED server, worker' \in Worker, kid' \in {"none", "alive", "zombie"},
           WorkerInv(srv, worker', kid'), worker.at # "gone"
    PROVE  IInv'
<1>1. UNCHANGED <<stdin, client, given, called, srv, at>>
  BY DEF server
<1>2. srv.task.owned
  BY DEF IInv, SrvInv, WorkerInv
<1>3. AnswerInv(srv, worker')
  BY <1>2 DEF IInv, SrvInv, QueueInv, AnswerInv, Told
<1>4. SrvInv(srv, Done, worker', kid', given, called.cancelled)
  BY <1>3 DEF IInv, SrvInv
<1>5. SectionInv'
  BY <1>1 DEF IInv, SectionInv
<1> QED BY <1>1, <1>4, <1>5, ServerMoves DEF IInv, TypeOK

(* A worker that ends becomes a zombie and disturbs nothing else.           *)
LEMMA WorkerDies ==
    ASSUME IInv, UNCHANGED server, kid' = kid, NEW status \in {"ok", "fail"}, Dies(status),
           worker.at \notin {"zombie", "gone"}
    PROVE  IInv'
<1>1. worker \in Worker /\ kid \in {"none", "alive", "zombie"} /\ WorkerInv(srv, worker, kid)
  BY DEF IInv, TypeOK, SrvInv
<1>2. worker' = [worker EXCEPT !.at = "zombie", !.status = status]
  BY DEF Dies
<1>3. worker' \in Worker /\ worker'.at = "zombie"
  BY <1>1, <1>2 DEF Worker
<1>4. WorkerInv(srv, worker', kid')
  BY <1>1, <1>3 DEF WorkerInv
<1> QED BY <1>1, <1>3, <1>4, ProcessMoves

(* The steps of the worker keep the invariant.                              *)
LEMMA WorkSteps == ASSUME IInv, Work PROVE IInv'
<1>1. worker \in Worker /\ kid \in {"none", "alive", "zombie"} /\ WorkerInv(srv, worker, kid)
  BY DEF IInv, TypeOK, SrvInv
<1>2. CASE PassGate
  <2>1. /\ UNCHANGED server /\ kid' = kid /\ worker.at = "gate" /\ worker.gate = "open"
        /\ worker' = [worker EXCEPT !.at = "run"]
    BY <1>2 DEF PassGate
  <2>2. worker' \in Worker /\ worker'.at = "run"
    BY <1>1, <2>1 DEF Worker
  <2>3. WorkerInv(srv, worker', kid')
    BY <1>1, <2>1, <2>2 DEF WorkerInv
  <2> QED BY <1>1, <2>1, <2>2, <2>3, ProcessMoves
<1>3. CASE LeaveAtGate
  <2>1. /\ UNCHANGED server /\ kid' = kid /\ worker.at = "gate" /\ Dies("fail")
    BY <1>3 DEF LeaveAtGate
  <2> QED BY <2>1, WorkerDies
<1>4. CASE WriteHeader
  <2>1. /\ UNCHANGED server /\ kid' = "none" /\ worker.at = "run"
    BY <1>4 DEF WriteHeader
  <2>2. PICK result \in Results :
            worker' = [worker EXCEPT !.at = "wrote", !.result = result, !.wrote = 1]
    BY <1>4 DEF WriteHeader
  <2>3. worker' \in Worker /\ worker'.at = "wrote"
    <3>1. result \in Results \cup {"none"} /\ 1 \in 0 .. 2
      BY <2>2
    <3> QED BY <1>1, <2>2, <3>1 DEF Worker
  <2>4. WorkerInv(srv, worker', kid')
    BY <1>1, <2>1, <2>3 DEF WorkerInv
  <2> QED BY <1>1, <2>1, <2>3, <2>4, ProcessMoves
<1>5. CASE WritePayload
  <2>1. /\ UNCHANGED server /\ kid' = kid /\ worker.at = "wrote"
        /\ worker' = [worker EXCEPT !.wrote = 2]
    BY <1>5 DEF WritePayload
  <2>2. worker' \in Worker /\ worker'.at = "wrote"
    BY <1>1, <2>1 DEF Worker
  <2>3. WorkerInv(srv, worker', kid')
    BY <1>1, <2>1, <2>2 DEF WorkerInv
  <2> QED BY <1>1, <2>1, <2>2, <2>3, ProcessMoves
<1>6. CASE WorkerExit
  <2>1. /\ UNCHANGED server /\ kid' = kid /\ worker.at = "wrote" /\ Dies("ok")
    BY <1>6 DEF WorkerExit
  <2> QED BY <2>1, WorkerDies
<1> QED BY <1>2, <1>3, <1>4, <1>5, <1>6 DEF Work

(* The steps of the kernel, a crash of the worker and its own child keep    *)
(* the invariant.                                                           *)
LEMMA KernelSteps == ASSUME IInv, Kernel \/ WorkerCrash \/ Spawn PROVE IInv'
<1>1. worker \in Worker /\ kid \in {"none", "alive", "zombie"} /\ WorkerInv(srv, worker, kid)
  BY DEF IInv, TypeOK, SrvInv
<1>2. CASE WorkerKilled
  BY <1>2, WorkerDies DEF WorkerKilled
<1>3. CASE WorkerCrash
  BY <1>3, WorkerDies DEF WorkerCrash, Alive
<1>4. CASE KidKilled
  <2>1. UNCHANGED server /\ worker' = worker /\ kid = "alive" /\ kid' = "zombie"
    BY <1>4 DEF KidKilled
  <2>2. srv.task.owned
    BY <1>1, <2>1 DEF WorkerInv
  <2>3. WorkerInv(srv, worker', kid')
    BY <1>1, <2>1, <2>2 DEF WorkerInv
  <2>4. SrvInv(srv, Done, worker', kid', given, called.cancelled)
    BY <2>1, <2>3 DEF IInv, SrvInv
  <2>5. UNCHANGED <<stdin, client, given, called, srv, at>>
    BY <2>1 DEF server
  <2>6. SectionInv'
    BY <2>5 DEF IInv, SectionInv
  <2> QED BY <1>1, <2>1, <2>4, <2>5, <2>6, ServerMoves DEF IInv, TypeOK
<1>5. CASE Spawn
  <2>1. UNCHANGED server /\ worker' = worker /\ worker.at = "run" /\ kid' = "alive"
    BY <1>5 DEF Spawn
  <2>2. WorkerInv(srv, worker', kid')
    BY <1>1, <2>1 DEF WorkerInv
  <2> QED BY <1>1, <2>1, <2>2, ProcessMoves
<1> QED BY <1>2, <1>3, <1>4, <1>5 DEF Kernel

(* A line that the client sends keeps the invariant: it has the next        *)
(* number.                                                                  *)
LEMMA SendStep == ASSUME IInv, Send PROVE IInv'
<1> DEFINE n == client.sent + 1
           l == client.script[n]
           x == [kind |-> l.kind, id |-> l.id, target |-> l.target, modern |-> l.modern,
                 serial |-> n]
<1>1. /\ client.sent < Len(client.script) /\ stdin' = Append(stdin, x)
      /\ client' = [client EXCEPT !.sent = client.sent + 1]
      /\ UNCHANGED <<at, srv, given, called>> /\ worker' = worker /\ kid' = kid
  BY DEF Send, process
<1>2. /\ client \in [script : Scripts, sent : Nat, closed : BOOLEAN, deaf : BOOLEAN]
      /\ client.script \in Scripts /\ client.sent \in Nat
      /\ stdin \in Seq(Line) /\ Len(stdin) \in Nat /\ DOMAIN stdin = 1 .. Len(stdin)
      /\ Done \in Nat
  BY LenProperties DEF IInv, TypeOK, LineInv
<1>3. n \in DOMAIN client.script
  <2>1. DOMAIN client.script = 1 .. Len(client.script) /\ Len(client.script) \in Nat
    BY <1>2, McpAssumption
  <2> QED BY <1>1, <1>2, <2>1
<1>4. x \in Line
  <2>1. l.kind \in LineKinds /\ l.modern \in BOOLEAN
    BY <1>2, <1>3, McpAssumption
  <2>2. l.id \in Ids /\ l.target \in Targets
    BY <1>2, <1>3 DEF Ids, Targets
  <2>3. n \in Nat
    BY <1>2
  <2> HIDE DEF l, n
  <2> QED BY <2>1, <2>2, <2>3 DEF Line
<1>5. x.serial = n
  OBVIOUS
<1> HIDE DEF x, l
<1>6. /\ stdin' \in Seq(Line) /\ Len(stdin') = Len(stdin) + 1
      /\ DOMAIN stdin' = 1 .. Len(stdin) + 1 /\ stdin'[Len(stdin) + 1] = x
      /\ \A i \in 1 .. Len(stdin) : stdin'[i] = stdin[i]
  <2>1. stdin' \in Seq(Line) /\ Len(stdin') = Len(stdin) + 1
    BY <1>1, <1>2, <1>4, AppendProperties
  <2> QED BY <1>1, <1>2, <1>4, <2>1, AppendProperties, LenProperties
<1>7. /\ client' \in [script : Scripts, sent : Nat, closed : BOOLEAN, deaf : BOOLEAN]
      /\ client'.sent = client.sent + 1 /\ client'.script = client.script
  <2>1. client.sent + 1 \in Nat
    BY <1>2
  <2> QED BY <1>1, <1>2, <2>1
<1>8. Done' = Done
  BY <1>2, <1>6, <1>7 DEF Done
<1>9. TypeOK'
  BY <1>1, <1>6, <1>7 DEF IInv, TypeOK
<1>10. LineInv'
  <2>1. client'.sent <= Len(client'.script)
    <3>1. Len(client.script) \in Nat
      BY <1>2, McpAssumption
    <3> QED BY <1>1, <1>2, <1>7, <3>1
  <2>2. ASSUME NEW i \in DOMAIN stdin' PROVE stdin'[i].serial = Done' + i
    <3>1. CASE i = Len(stdin) + 1
      <4>1. Done + (Len(stdin) + 1) = n
        BY <1>2 DEF Done
      <4> QED BY <1>5, <1>6, <1>8, <3>1, <4>1
    <3>2. CASE i # Len(stdin) + 1
      <4>1. i \in 1 .. Len(stdin)
        BY <1>2, <1>6, <3>2
      <4> QED BY <1>2, <1>6, <1>8, <4>1 DEF IInv, LineInv
    <3> QED BY <3>1, <3>2
  <2> QED BY <1>1, <1>2, <1>8, <2>1, <2>2 DEF IInv, LineInv
<1>11. SectionInv' /\ SrvInv(srv, Done, worker, kid, given, called.cancelled)
  BY <1>1 DEF IInv, SectionInv
<1> QED BY <1>1, <1>8, <1>9, <1>10, <1>11 DEF IInv

(* The client's other steps keep the invariant.                             *)
LEMMA ClientSteps ==
    ASSUME IInv, CloseInput \/ StopReading \/ Signal PROVE IInv'
<1>1. /\ UNCHANGED <<stdin, srv, given, called>> /\ worker' = worker /\ kid' = kid
      /\ at' = at
  BY DEF CloseInput, StopReading, Signal, process
<1>2. client' \in {client, [client EXCEPT !.closed = TRUE], [client EXCEPT !.deaf = TRUE]}
  BY DEF CloseInput, StopReading, Signal
<1>3. client \in [script : Scripts, sent : Nat, closed : BOOLEAN, deaf : BOOLEAN]
  BY DEF IInv, TypeOK
<1>4. /\ client' \in [script : Scripts, sent : Nat, closed : BOOLEAN, deaf : BOOLEAN]
      /\ client'.sent = client.sent /\ client'.script = client.script
  BY <1>2, <1>3
<1>5. Done' = Done
  BY <1>1, <1>4 DEF Done
<1>6. TypeOK' /\ LineInv' /\ SectionInv'
  BY <1>1, <1>4, <1>5 DEF IInv, TypeOK, LineInv, SectionInv
<1> QED BY <1>1, <1>5, <1>6 DEF IInv

(* A deadline that passes keeps the invariant.                              *)
LEMMA LateStep == ASSUME IInv, Late PROVE IInv'
<1>1. /\ UNCHANGED <<stdin, client, given, called, at>> /\ worker' = worker /\ kid' = kid
      /\ at # "exited"
      /\ \/ srv.queue # <<>> /\ srv' = [srv EXCEPT !.queue[1].late = TRUE]
         \/ srv' = [srv EXCEPT !.task.late = TRUE]
  BY DEF Late, process
<1>2. srv \in ServerState /\ SrvInv(srv, Done, worker, kid, given, called.cancelled)
  BY DEF IInv, TypeOK
<1>3. CASE srv.queue # <<>> /\ srv' = [srv EXCEPT !.queue[1].late = TRUE]
  <2> DEFINE f == [srv.queue[1] EXCEPT !.late = TRUE]
  <2>1. srv.queue[1] \in Reply
    BY <1>2, <1>3, EmptySeq, LenProperties, ElementOfSeq DEF ServerState
  <2>2. /\ f \in Reply /\ f.serial = srv.queue[1].serial /\ f.task = srv.queue[1].task
        /\ f.token = srv.queue[1].token
    BY <2>1 DEF Reply
  <2> DEFINE r == [srv EXCEPT !.queue[1] = f]
  <2>3. srv' = r
    BY <1>3
  <2> HIDE DEF f, r
  <2>4. /\ srv' \in ServerState /\ srv'.task = srv.task /\ srv'.queue # <<>>
        /\ SrvInv(srv', Done, worker, kid, given, called.cancelled)
    <3>1. /\ r \in ServerState /\ r.task = srv.task /\ r.queue # <<>>
          /\ SrvInv(r, Done, worker, kid, given, called.cancelled)
      BY <1>2, <1>3, <2>2, HeadChanged DEF r
    <3> QED BY <2>3, <3>1
  <2>5. SectionInv'
    BY <1>1, <2>4 DEF IInv, SectionInv
  <2> QED BY <1>1, <2>4, <2>5, ServerMoves DEF IInv, TypeOK
<1>4. CASE srv' = [srv EXCEPT !.task.late = TRUE]
  <2> DEFINE t == [srv.task EXCEPT !.late = TRUE]
  <2>1. srv.task \in Task
    BY <1>2 DEF ServerState
  <2>2. t \in Task /\ SameTask(srv.task, t) /\ t.cancelled = srv.task.cancelled
    BY <2>1 DEF Task, SameTask
  <2>3. srv' = [srv EXCEPT !.task = t]
    BY <1>4
  <2> HIDE DEF t
  <2>4. /\ srv' \in ServerState /\ SrvInv(srv', Done, worker, kid, given, called.cancelled)
        /\ srv'.task = t /\ srv'.queue = srv.queue
    BY <1>2, <2>2, <2>3, OtherTask, TaskReplaced
  <2>5. SectionInv'
    BY <1>1, <2>2, <2>4 DEF IInv, SectionInv, SameTask
  <2> QED BY <1>1, <2>4, <2>5, ServerMoves DEF IInv, TypeOK
<1> QED BY <1>1, <1>3, <1>4

(* A step that changes nothing keeps the invariant.                         *)
LEMMA StutterStep == ASSUME IInv, UNCHANGED vars PROVE IInv'
BY DEF vars, IInv, TypeOK, LineInv, SectionInv, Done

(* The invariant holds at the start.                                        *)
LEMMA InitInvariant == ASSUME Init PROVE IInv
<1>1. /\ stdin = <<>> /\ at = "poll" /\ worker = NoWorker /\ kid = "none"
      /\ srv = [session |-> "fresh", queue |-> <<>>, task |-> NoTask, closing |-> FALSE,
                exit |-> 0]
      /\ given = [n \in Serials |-> <<>>] /\ called = [read |-> {}, cancelled |-> {}]
  BY DEF Init
<1>2. PICK script \in Scripts :
          client = [script |-> script, sent |-> 0, closed |-> FALSE, deaf |-> FALSE]
  BY DEF Init
<1>3. Len(script) \in Nat
  BY McpAssumption
<1>4. srv \in ServerState /\ srv.queue = <<>> /\ srv.task = NoTask
  <2>1. <<>> \in Seq(Reply)
    BY EmptySeq
  <2> QED BY <1>1, <2>1, TaskTyped DEF ServerState
<1>5. worker \in Worker /\ worker.at = "gone"
  BY <1>1 DEF NoWorker, Worker
<1>6. TypeOK
  <2>1. stdin \in Seq(Line)
    BY <1>1, EmptySeq
  <2>2. given \in [Serials -> Seq(Tokens)]
    <3>1. <<>> \in Seq(Tokens)
      BY EmptySeq
    <3> QED BY <1>1, <3>1
  <2>3. client \in [script : Scripts, sent : Nat, closed : BOOLEAN, deaf : BOOLEAN]
    BY <1>2
  <2>4. called \in [read : SUBSET Nat, cancelled : SUBSET Nat]
    BY <1>1
  <2> QED BY <1>1, <1>4, <1>5, <2>1, <2>2, <2>3, <2>4 DEF TypeOK
<1>7. LineInv
  <2>1. Done = 0 /\ DOMAIN stdin = {}
    BY <1>1, <1>2 DEF Done
  <2> QED BY <1>1, <1>2, <1>3, <2>1 DEF LineInv
<1>8. SrvInv(srv, Done, worker, kid, given, called.cancelled)
  <2>1. DOMAIN srv.queue = {}
    BY <1>4
  <2> QED BY <1>1, <1>4, <1>5, <2>1, TaskTyped
          DEF SrvInv, QueueInv, OpenInv, WorkerInv, AnswerInv
<1> QED BY <1>1, <1>6, <1>7, <1>8 DEF IInv, SectionInv

(* Every step keeps the invariant.                                          *)
LEMMA NextInvariant == ASSUME IInv, [Next]_vars PROVE IInv'
<1>1. CASE Server
  BY <1>1, HandleIgnoreStep, QuickSteps, StartTaskStep, StartFailsStep, HandleCancelStep,
     EndOfInputStep, ReadWorkerStep, FinishWaitsStep, FinishReapsStep, FinishDoneStep,
     WriteOutputStep, CheckDeadlineStep, PollStep, ExitStep DEF Server
<1>2. CASE Work
  BY <1>2, WorkSteps
<1>3. CASE Kernel
  BY <1>3, KernelSteps
<1>4. CASE Environment
  BY <1>4, KernelSteps, SendStep, ClientSteps, LateStep DEF Environment
<1>5. CASE UNCHANGED vars
  BY <1>5, StutterStep
<1> QED BY <1>1, <1>2, <1>3, <1>4, <1>5 DEF Next

(* A request is read once, waits in one place, and leaves it answered or    *)
(* cancelled, however the client, the worker, the deadlines and the         *)
(* failures of the host come between (the loop of tools/yan_mcp.c).         *)
THEOREM Invariance == Spec => []IInv
<1>1. Init => IInv
  BY InitInvariant
<1>2. IInv /\ [Next]_vars => IInv'
  BY NextInvariant
<1> QED BY <1>1, <1>2, PTL DEF Spec

(* The state of the server keeps its type: the queue holds replies of a     *)
(* line's number and id, the task and the worker have one of their states.  *)
THEOREM TypeCorrect == Spec => []TypeOK
<1>1. IInv => TypeOK
  BY DEF IInv
<1> QED BY <1>1, Invariance, PTL

(* A server that has no task, or is gone, has left neither a worker nor a   *)
(* process of its group, and a worker that runs can be killed with its      *)
(* group, for any client and any failures of the host                       *)
(* (yan_mcp.c:143-160, 220-230, 249-300).                                   *)
THEOREM NobodyLeftHolds == Spec => []NobodyLeft
<1>1. IInv => NobodyLeft
  BY DEF IInv, SrvInv, QueueInv, WorkerInv, SectionInv, NobodyLeft
<1> QED BY <1>1, Invariance, PTL

(* What a client is told of a tool's run is all that a worker that ended    *)
(* well said; anything else is IO (yan_mcp.c:303-309).                      *)
THEOREM ReplyIsTrueHolds == Spec => []ReplyIsTrue
<1>1. IInv => ReplyIsTrue
  BY DEF IInv, SrvInv, AnswerInv, Told, ReplyIsTrue
<1> QED BY <1>1, Invariance, PTL

(* Nothing but a write gives the client a reply.                            *)
LEMMA OnlyWritesGive ==
    ASSUME IInv, [Next]_vars, ~WriteOutput PROVE given' = given
BY DEF Next, Server, Work, Kernel, Environment, vars, outside, server,
       HandleIgnore, HandleQuick, HandleBusy, HandleNote, StartTask, StartFails, HandleCancel,
       LineDone, Consumed, EndOfInput, ReadWorker, FinishWaits, FinishReaps, FinishDone,
       CheckDeadline, Poll, Exit, PassGate, LeaveAtGate, WriteHeader, WritePayload, WorkerExit,
       WorkerKilled, KidKilled, Spawn, WorkerCrash, Send, CloseInput, StopReading, Signal, Late

(* No line is answered twice, and none that was cancelled is answered: a    *)
(* reply completes only for a line of the queue, and those wait there once, *)
(* unanswered and not cancelled (yan_mcp.c:270-313, 326-332, 380-397).      *)
THEOREM RepliesOnceHolds == Spec => RepliesOnce
<1> DEFINE Once == \A n \in Serials : given'[n] # given[n] =>
                      given[n] = <<>> /\ Len(given'[n]) = 1 /\ n \notin called.cancelled
<1>1. IInv /\ [Next]_vars => Once
  <2> SUFFICES ASSUME IInv, [Next]_vars PROVE Once
    OBVIOUS
  <2>1. CASE ~WriteOutput
    BY <2>1, OnlyWritesGive
  <2>2. CASE WriteOutput
    <3> DEFINE f == srv.queue[1]
               v == Append(given[f.serial], f.token)
    <3>1. /\ 1 \in DOMAIN srv.queue /\ f \in Reply /\ f.serial \in Serials
          /\ given' = given \/ given' = [given EXCEPT ![f.serial] = v]
      BY <2>2, WriteOutputFacts
    <3>2. given[f.serial] = <<>> /\ f.serial \notin called.cancelled
      BY <3>1 DEF IInv, SrvInv, OpenInv
    <3>3. f.token \in Tokens /\ <<>> \in Seq(Tokens)
      BY <3>1, EmptySeq DEF Reply
    <3>4. Len(v) = 1
      BY <3>2, <3>3, AppendProperties
    <3>5. given \in [Serials -> Seq(Tokens)]
      BY DEF IInv, TypeOK
    <3> HIDE DEF v, f
    <3>6. \A n \in Serials : n # f.serial => given'[n] = given[n]
      BY <3>1, <3>5
    <3>7. given'[f.serial] \in {given[f.serial], v}
      BY <3>1, <3>5
    <3> QED BY <3>2, <3>4, <3>6, <3>7
  <2> QED BY <2>1, <2>2
<1> QED BY <1>1, Invariance, PTL DEF Spec, RepliesOnce

=============================================================================
