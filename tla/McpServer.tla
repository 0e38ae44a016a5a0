----------------------------- MODULE McpServer -----------------------------
(***************************************************************************)
(* The MCP server tools/yan_mcp.c: one loop over poll that reads requests, *)
(* keeps one worker process at a time, and writes replies with a deadline.  *)
(* Each action is one section of the loop's body, or a step of the client,  *)
(* the worker, a process the worker left behind, or time.                   *)
(***************************************************************************)
EXTENDS Integers, Sequences, FiniteSets, SequencesExt

CONSTANTS
    Scripts,   \* what a client may send, line by line
    QueueMax,  \* replies the queue has room for
    MaxFaults  \* failures of the host, signals, a client that stops reading

NoId == "none"
(* What a line may be; badargs stands for every argument a tool refuses.    *)
LineKinds == {"garbage", "initialize", "initialized", "cancel", "ping",
              "discover", "list", "badargs", "note", "tool"}

ASSUME McpAssumption ==
    /\ \A script \in Scripts :
          /\ Len(script) \in Nat /\ DOMAIN script = 1 .. Len(script)
          /\ \A n \in DOMAIN script :
                script[n].kind \in LineKinds /\ script[n].modern \in BOOLEAN
    /\ MaxFaults \in Nat /\ QueueMax \in Nat \ {0}

VARIABLES
    stdin,    \* lines sent and not yet read, each with its serial number
    client,   \* its script, lines sent so far; has it closed its end, or stopped reading?
    at,       \* the section of the loop that comes next
    ready,    \* what the last poll reported
    srv,      \* Server: session, queue, task, closing, exit code
    worker,   \* the worker process
    kid,      \* a process of the worker's group beside the worker
    sig,      \* the signal the server's handler noted
    faults,   \* failures still to come
    given,    \* the complete replies to each line
    called    \* requests read, and those whose cancellation was accepted

vars == <<stdin, client, at, ready, srv, worker, kid, sig, faults, given, called>>
process == <<worker, kid>>
outside == <<stdin, client, sig, faults, given>>

Serials == UNION {DOMAIN script : script \in Scripts}

NoTask == [active |-> FALSE, owned |-> FALSE, grouped |-> FALSE, open |-> FALSE,
           cancelled |-> FALSE, stopping |-> FALSE, late |-> FALSE,
           killed |-> FALSE, failed |-> FALSE, broken |-> FALSE,
           orphan |-> FALSE, exited |-> FALSE,
           serial |-> 0, id |-> NoId]
NoWorker == [at |-> "gone", gate |-> "shut", result |-> "none", wrote |-> 0,
             status |-> "none"]

Init ==
    /\ stdin = <<>>
    /\ \E script \in Scripts :
          client = [script |-> script, sent |-> 0, closed |-> FALSE, deaf |-> FALSE]
    /\ at = "poll" /\ ready = {}
    /\ srv = [session |-> "fresh", queue |-> <<>>, task |-> NoTask,
              closing |-> FALSE, exit |-> 0]
    /\ worker = NoWorker /\ kid = "none"
    /\ sig = "none" /\ faults = MaxFaults
    /\ given = [n \in Serials |-> <<>>]
    /\ called = [read |-> {}, cancelled |-> {}]

Fail == faults > 0 /\ faults' = faults - 1
-----------------------------------------------------------------------------
(* The queue of replies.  A reply takes two writes at most: sent is 0, 1, 2.*)
Frame(request, token, task) ==
    [serial |-> request.serial, id |-> request.id, token |-> token,
     task |-> task, sent |-> 0, late |-> FALSE]
PartSent(q) == \E i \in DOMAIN q : q[i].task /\ q[i].sent > 0
(* discard_task_frame: the first reply of a task goes, and only that.       *)
WithoutTaskFrame(q) ==
    LET ofTask == {i \in DOMAIN q : q[i].task}
    IN  IF ofTask = {} THEN q
        ELSE RemoveAt(q, CHOOSE i \in ofTask : \A j \in ofTask : i <= j)

(* stop_task: SIGTERM once, to the group when it is owned.  That the worker *)
(* has been sent the signal is task.stopping.                               *)
StopTask(s, cancelled) ==
    IF ~s.task.active THEN s
    ELSE [s EXCEPT !.task.cancelled = @ \/ cancelled,
                   !.task.stopping = @ \/ s.task.owned]

(* A task that is no longer active: nothing looks at its fields again.      *)
Released(s) == IF s.task.owned THEN s ELSE [s EXCEPT !.task = NoTask]

(* shutdown_server: replies not yet written are dropped; a worker still      *)
(* owned keeps the task active until it is reaped.                           *)
ShutDown(s, code) ==
    Released(StopTask([s EXCEPT !.closing = TRUE, !.queue = <<>>,
                          !.exit = IF PartSent(s.queue) THEN 5
                                   ELSE IF s.exit # 5 /\ code # 0 THEN code ELSE @],
                      TRUE))

(* enqueue, with what every caller does when it fails                       *)
Enqueued(s, frame) ==
    IF Len(s.queue) < QueueMax THEN [s EXCEPT !.queue = Append(@, frame)]
    ELSE ShutDown(s, 5)
-----------------------------------------------------------------------------
(* yan_mcp_parse: what a line asks for.  A line without an id is a           *)
(* notification.  A request is modern when it says so or when no legacy      *)
(* session is ready, and must then carry the modern fields.                  *)
Modern(s, line) == line.modern \/ s.session # "ready"
Parse(s, line) ==
    CASE line.kind = "garbage" -> "error"
      [] line.kind = "initialized" -> "ignore"
      [] line.kind = "cancel" -> "cancel"
      [] s.task.active /\ line.id = s.task.id -> "error"
      [] line.kind = "initialize" /\ ~line.modern ->
            IF s.session = "fresh" THEN "result" ELSE "error"
      [] Modern(s, line) /\ ~line.modern -> "error"
      [] line.kind = "discover" -> IF Modern(s, line) THEN "result" ELSE "error"
      [] line.kind = "ping" -> IF Modern(s, line) THEN "error" ELSE "result"
      [] line.kind = "list" -> "result"
      [] line.kind = "badargs" -> "INVALID"
      [] line.kind \in {"note", "tool"} -> line.kind
      [] OTHER -> "error"

SessionAfter(s, line) ==
    CASE line.kind = "initialize" /\ Parse(s, line) = "result" -> "initialized"
      [] line.kind = "initialized" /\ s.session = "initialized" -> "ready"
      [] OTHER -> s.session

Duplicate(s, line) ==
    line.id # NoId /\ \E i \in DOMAIN s.queue : s.queue[i].id = line.id

(* The sections of one round, after a given one, that have something to do: *)
(* those the poll reported, the watch on an owned worker, the last check.   *)
Sections == <<"input", "worker", "finish", "output">>
HasWork(section, s, r) ==
    CASE section = "input" -> "in" \in r
      [] section = "worker" -> "worker" \in r /\ s.task.owned /\ s.task.open
      [] section = "finish" -> s.task.owned
      [] OTHER -> "out" \in r /\ ~s.closing /\ s.queue # <<>>
GoOn(from, s, r) ==
    LET todo == {i \in from .. 4 : HasWork(Sections[i], s, r)}
    IN at' = IF todo = {} THEN "check"
             ELSE Sections[CHOOSE i \in todo : \A j \in todo : i <= j]

line == Head(stdin)
asked == IF Duplicate(srv, line) THEN "error" ELSE Parse(srv, line)
parsed == [srv EXCEPT !.session = IF Duplicate(srv, line) THEN @
                                  ELSE SessionAfter(srv, line)]

(* read_input: the lines of one chunk are handled one after the other; the  *)
(* chunk may end behind any of them.                                        *)
Handling(kinds) == at = "input" /\ stdin # <<>> /\ asked \in kinds
Consumed(s) ==
    /\ srv' = s
    /\ stdin' = Tail(stdin)
    /\ \/ GoOn(2, s, ready)
       \/ ~s.closing /\ Tail(stdin) # <<>> /\ at' = "input"
    /\ UNCHANGED <<client, ready, sig, given>>
LineDone(s) ==
    /\ Consumed(s)
    /\ called' = [called EXCEPT !.read = @ \cup {line.serial}]

HandleIgnore ==
    /\ Handling({"ignore"})
    /\ Consumed(parsed)
    /\ UNCHANGED <<process, faults, called>>

(* Errors, discovery, tool lists, pings, the answer to initialize.          *)
HandleQuick ==
    /\ Handling({"error", "result", "INVALID"})
    /\ LineDone(Enqueued(parsed, Frame(line, asked, FALSE)))
    /\ UNCHANGED <<process, faults>>

(* A second tool call while a task is active, its reply's delivery included *)
HandleBusy ==
    /\ Handling({"note", "tool"}) /\ srv.task.active
    /\ LineDone(Enqueued(parsed, Frame(line, "BUSY", FALSE)))
    /\ UNCHANGED <<process, faults>>

(* yan_mcp_note_execute runs in the server itself, start to end.            *)
HandleNote ==
    /\ Handling({"note"}) /\ ~srv.task.active
    /\ \E token \in {"ok", "STALE"} :
          LineDone(Enqueued(parsed, Frame(line, token, FALSE)))
    /\ UNCHANGED <<process, faults>>

(* start_task: fork, own the group, open the gate.  A worker that cannot be *)
(* owned is stopped behind its closed gate.                                  *)
Started(grouped) ==
    [NoTask EXCEPT !.active = TRUE, !.owned = TRUE, !.grouped = grouped,
                   !.open = TRUE, !.failed = ~grouped, !.stopping = ~grouped,
                   !.serial = line.serial, !.id = line.id]
(* mutant: the gate is opened before the group is known to be owned         *)
GateAnyway(grouped) == [NoWorker EXCEPT !.at = "gate", !.gate = "open"]
Forked(grouped) ==
    [NoWorker EXCEPT !.at = "gate", !.gate = IF grouped THEN "open" ELSE "eof"]

StartTask ==
    /\ Handling({"tool"}) /\ ~srv.task.active
    /\ \E grouped \in BOOLEAN :
          /\ IF grouped THEN faults' = faults ELSE Fail
          /\ LineDone([parsed EXCEPT !.task = Started(grouped)])
          /\ worker' = Forked(grouped)
    /\ UNCHANGED kid

StartFails ==
    /\ Handling({"tool"}) /\ ~srv.task.active /\ Fail
    /\ LineDone(Enqueued([parsed EXCEPT !.task = NoTask], Frame(line, "IO", FALSE)))
    /\ UNCHANGED process

(* A cancellation of the active task: before its reply was queued the worker *)
(* is stopped; a queued reply of which nothing was sent is dropped; one that *)
(* was begun can only be cut, and the server with it.                        *)
(* mutant: a queued reply is left to be delivered                            *)
CancelLeavesReply(s) == Released(StopTask(s, TRUE))
Cancelled(s) ==
    IF PartSent(s.queue) THEN ShutDown(s, 5)
    ELSE Released(StopTask([s EXCEPT !.queue = WithoutTaskFrame(@)], TRUE))
HandleCancel ==
    /\ Handling({"cancel"})
    /\ LET hit == srv.task.active /\ line.target = srv.task.id IN
       /\ Consumed(IF hit THEN Cancelled(parsed) ELSE parsed)
       /\ called' = [called EXCEPT !.cancelled =
                        IF hit THEN @ \cup {srv.task.serial} ELSE @]
    /\ UNCHANGED <<process, faults>>

EndOfInput ==
    /\ at = "input" /\ stdin = <<>>
    /\ srv' = ShutDown(srv, 0) /\ GoOn(2, srv', ready)
    /\ UNCHANGED <<outside, ready, process, called>>
-----------------------------------------------------------------------------
(* read_worker: data, which is only collected; the end of it, when every     *)
(* writer is dead; or a failed read.                                        *)
HeadDead == worker.at \in {"zombie", "gone"}
Broke(s) == StopTask([s EXCEPT !.task.failed = TRUE, !.task.broken = TRUE], FALSE)

ReadWorker ==
    /\ at = "worker"
    /\ \/ srv' \in {srv, [srv EXCEPT !.task.open = ~HeadDead]} /\ UNCHANGED faults
       \/ Fail /\ srv' = Broke(srv)
    /\ GoOn(3, srv', ready)
    /\ UNCHANGED <<stdin, client, sig, given, ready, process, called>>
-----------------------------------------------------------------------------
(* finish_task.  First the watch on the leader: once it has exited, or five *)
(* seconds after it was asked to stop, the group is killed.                 *)
(* mutant: only a leader that has exited is killed                          *)
NeverKills(t) ==
    LET exited == t.exited \/ worker.at = "zombie"
    IN [t EXCEPT !.exited = exited, !.killed = @ \/ exited]
Watched(t) ==
    LET exited == t.exited \/ worker.at = "zombie"
    IN [t EXCEPT !.exited = exited, !.killed = @ \/ exited \/ (t.stopping /\ t.late)]

watched == LET s == [srv EXCEPT !.task = Watched(@)]
           IN IF s.task.broken THEN ShutDown(s, 5) ELSE s
Finishing == at = "finish"

FinishWaits ==
    /\ Finishing /\ ~watched.task.exited
    /\ srv' = watched /\ GoOn(4, srv', ready)
    /\ UNCHANGED <<outside, ready, process, called>>

(* reap_descendants: a scan that reaps a process, finds one alive or fails  *)
(* is followed by another one in the next round of the loop.                *)
FinishReaps ==
    /\ Finishing /\ watched.task.exited
    /\ \/ /\ kid = "alive" /\ srv' = watched
          /\ UNCHANGED <<kid, faults>>
       \/ /\ kid = "zombie" /\ kid' = "none"
          /\ srv' = [watched EXCEPT !.task.orphan = TRUE]
          /\ UNCHANGED faults
       \/ /\ Fail /\ UNCHANGED kid
          /\ srv' = ShutDown([watched EXCEPT !.task.failed = TRUE,
                                             !.task.broken = TRUE], 5)
    /\ GoOn(4, srv', ready)
    /\ UNCHANGED <<stdin, client, sig, given, ready, worker, called>>

(* The leader is reaped last, and the pipe drained.  A reply goes out only  *)
(* when nobody wants it cancelled; it is the worker's when every part of it *)
(* arrived from a worker that ended well and left nobody behind.            *)
Whole(w) == \/ w.result = "ok" /\ w.wrote = 2
            \/ w.result \in {"error", "LIMIT"} /\ w.wrote = 1
(* mutant: the exit status and the processes left behind are not looked at  *)
TokenAnyway(t) == IF Whole(worker) THEN worker.result ELSE "IO"
Token(t) == IF ~t.failed /\ ~t.orphan /\ worker.status = "ok" /\ Whole(worker)
            THEN worker.result ELSE "IO"
(* mutant: the process id is kept after the leader was reaped               *)
StillOwned(s) == [s EXCEPT !.task.open = FALSE]
Reaped(s) == [s EXCEPT !.task.owned = FALSE, !.task.open = FALSE]

FinishDone ==
    /\ Finishing /\ watched.task.exited /\ kid = "none"
    /\ worker' = IF worker.at = "zombie" THEN [worker EXCEPT !.at = "gone"] ELSE worker
    /\ LET s == Reaped(watched) IN
       srv' = IF s.task.cancelled \/ s.closing THEN Released(s)
              ELSE Enqueued(s, Frame(s.task, Token(s.task), TRUE))
    /\ GoOn(4, srv', ready)
    /\ UNCHANGED <<outside, ready, kid, called>>
-----------------------------------------------------------------------------
(* write_output: one write of a part of the first reply, or none; a reply   *)
(* whose time is over, before or after the write, ends the server.          *)
Popped(s) == [s EXCEPT !.queue = Tail(@),
                       !.task = IF Head(s.queue).task THEN NoTask ELSE @]

WriteOutput ==
    /\ at = "output"
    /\ LET frame == Head(srv.queue) IN
       \/ /\ frame.late \/ client.deaf
          /\ srv' = ShutDown(srv, 5) /\ UNCHANGED given
       \/ /\ ~frame.late /\ ~client.deaf
          /\ \E sent \in frame.sent .. 2, over \in BOOLEAN :
                LET written == [srv EXCEPT !.queue[1].sent = sent] IN
                /\ given' = IF sent = 2
                            THEN [given EXCEPT ![frame.serial] = Append(@, frame.token)]
                            ELSE given
                /\ sent = frame.sent => ~over
                /\ srv' = IF over THEN ShutDown(written, 5)
                          ELSE IF sent = 2 THEN Popped(written) ELSE written
    /\ at' = "check"
    /\ UNCHANGED <<stdin, client, sig, faults, ready, process, called>>

(* mutant: only a write looks at the deadline                               *)
NeverOverdue(q) == FALSE
Overdue(q) == q # <<>> /\ Head(q).late
CheckDeadline ==
    /\ at = "check"
    /\ srv' = IF Overdue(srv.queue) THEN ShutDown(srv, 5) ELSE srv
    /\ at' = "poll" /\ ready' = {}
    /\ UNCHANGED <<outside, process, called>>

(* The head of the loop: a noted signal, then poll; the client's end of the *)
(* output may have no room.                                                 *)
Poll ==
    /\ at = "poll" /\ (~srv.closing \/ (srv.task.active /\ srv.task.owned))
    /\ LET s == IF sig = "none" THEN srv
                ELSE ShutDown(srv, IF sig = "INT" THEN 130 ELSE 143)
       IN /\ srv' = s
          /\ \E room \in BOOLEAN :
                ready' = {x \in {"in", "out", "worker"} :
                   \/ x = "in" /\ ~s.closing /\ (stdin # <<>> \/ client.closed)
                   \/ x = "out" /\ ~s.closing /\ s.queue # <<>> /\ (room \/ client.deaf)
                   \/ x = "worker" /\ s.task.owned /\ s.task.open}
    /\ GoOn(1, srv', ready')
    /\ UNCHANGED <<outside, process, called>>

LoopEnds == srv.closing /\ ~(srv.task.active /\ srv.task.owned)
Exit ==
    /\ at = "poll" /\ LoopEnds
    /\ at' = "exited"
    /\ UNCHANGED <<outside, ready, srv, process, called>>

Server ==
    \/ HandleIgnore \/ HandleQuick \/ HandleBusy \/ HandleNote \/ StartTask
    \/ StartFails \/ HandleCancel \/ EndOfInput \/ ReadWorker
    \/ FinishWaits \/ FinishReaps \/ FinishDone
    \/ WriteOutput \/ CheckDeadline \/ Poll \/ Exit
-----------------------------------------------------------------------------
(* The worker (child, yan_mcp_execute).  A task that was stopped means that *)
(* the signal has been sent: the worker sees it at the gate, and later when *)
(* it looks.                                                                *)
Alive == worker.at \notin {"zombie", "gone"} /\ ~srv.task.killed
server == <<stdin, client, at, ready, srv, sig, given, called>>

Dies(status) == worker' = [worker EXCEPT !.at = "zombie", !.status = status]

PassGate ==
    /\ Alive /\ worker.at = "gate" /\ worker.gate = "open"
    /\ worker' = [worker EXCEPT !.at = "run"]
    /\ UNCHANGED <<server, kid, faults>>
LeaveAtGate ==
    /\ Alive /\ worker.at = "gate" /\ (worker.gate = "eof" \/ srv.task.stopping)
    /\ Dies("fail")
    /\ UNCHANGED <<server, kid, faults>>
(* What a tool's run comes to: a payload, an error of its domain, or one that *)
(* is over the limit of a reply and becomes an error.                        *)
Results == {"ok", "error", "LIMIT"}
(* yan_semantic_llama_*: a model process, stopped again before the answer,  *)
(* unless the worker dies first.                                            *)
Spawn ==
    /\ Alive /\ worker.at = "run" /\ kid = "none" /\ kid' = "alive"
    /\ UNCHANGED <<server, worker, faults>>
WriteHeader ==
    /\ Alive /\ worker.at = "run" /\ kid' = "none"
    /\ \E result \in Results :
          worker' = [worker EXCEPT !.at = "wrote", !.result = result, !.wrote = 1]
    /\ UNCHANGED <<server, faults>>
WritePayload ==
    /\ Alive /\ worker.at = "wrote" /\ worker.result = "ok" /\ worker.wrote = 1
    /\ worker' = [worker EXCEPT !.wrote = 2]
    /\ UNCHANGED <<server, kid, faults>>
WorkerExit ==
    /\ Alive /\ worker.at = "wrote" /\ Whole(worker) /\ Dies("ok")
    /\ UNCHANGED <<server, kid, faults>>
WorkerCrash ==
    /\ Alive /\ Fail /\ Dies("fail")
    /\ UNCHANGED <<server, kid>>
WorkerKilled ==
    /\ worker.at \notin {"zombie", "gone"} /\ srv.task.killed /\ Dies("fail")
    /\ UNCHANGED <<server, kid, faults>>
KidKilled ==
    /\ kid = "alive" /\ srv.task.killed /\ srv.task.grouped /\ kid' = "zombie"
    /\ UNCHANGED <<server, worker, faults>>

Work == PassGate \/ LeaveAtGate \/ WriteHeader \/ WritePayload \/ WorkerExit
Kernel == WorkerKilled \/ KidKilled
-----------------------------------------------------------------------------
Send ==
    /\ client.sent < Len(client.script) /\ ~client.closed
    /\ LET n == client.sent + 1  l == client.script[n] IN
       stdin' = Append(stdin, [kind |-> l.kind, id |-> l.id, target |-> l.target,
                               modern |-> l.modern, serial |-> n])
    /\ client' = [client EXCEPT !.sent = @ + 1]
    /\ UNCHANGED <<at, ready, srv, process, sig, faults, given, called>>
CloseInput ==
    /\ ~client.closed /\ client' = [client EXCEPT !.closed = TRUE]
    /\ UNCHANGED <<stdin, at, ready, srv, process, sig, faults, given, called>>
StopReading ==
    /\ ~client.deaf /\ Fail /\ client' = [client EXCEPT !.deaf = TRUE]
    /\ UNCHANGED <<stdin, at, ready, srv, process, sig, given, called>>
Signal ==
    /\ at # "exited" /\ Fail /\ sig' \in {"INT", "TERM"}
    /\ UNCHANGED <<stdin, client, at, ready, srv, process, given, called>>

(* Five seconds pass for the first reply, or since the worker was stopped.  *)
Late ==
    /\ at # "exited"
    /\ \/ /\ srv.queue # <<>> /\ ~Head(srv.queue).late
          /\ srv' = [srv EXCEPT !.queue[1].late = TRUE]
       \/ /\ srv.task.active /\ srv.task.stopping /\ ~srv.task.late
          /\ srv' = [srv EXCEPT !.task.late = TRUE]
    /\ UNCHANGED <<stdin, client, at, ready, process, sig, faults, given, called>>

Environment == Spawn \/ WorkerCrash \/ Send \/ CloseInput \/ StopReading \/ Signal \/ Late
Next == Server \/ Work \/ Kernel \/ Environment

Spec == Init /\ [][Next]_vars
(* A worker comes to an end (the model client has timeouts of its own), but  *)
(* nothing says that it heeds SIGTERM.                                       *)
FairSpec == /\ Spec /\ WF_vars(Server) /\ WF_vars(Kernel) /\ WF_vars(Late)
            /\ WF_vars(~srv.task.stopping /\ Work)
-----------------------------------------------------------------------------

(* A reply completes only for a line that has none yet and that no accepted *)
(* cancellation has silenced, however an answer, a cancellation and the     *)
(* deadlines meet (yan_mcp.c:270-313, 326-332, 380-397).                    *)
RepliesOnce ==
    [][\A n \in Serials : given'[n] # given[n] =>
            given[n] = <<>> /\ Len(given'[n]) = 1 /\ n \notin called.cancelled]_vars

(* What a client is told of a tool's run is what a worker that ended well    *)
(* said, all of it; anything else is IO (yan_mcp.c:303-309).                 *)
ReplyIsTrue ==
    \A i \in DOMAIN srv.queue :
        (srv.queue[i].task /\ srv.queue[i].token # "IO") =>
            /\ worker.at = "gone" /\ worker.status = "ok" /\ Whole(worker)
            /\ srv.queue[i].token = worker.result

(* The slot is free only when the worker is reaped and its group empty, and  *)
(* a worker runs only in a group that can be killed: a server that is gone   *)
(* leaves no process behind (yan_mcp.c:143-160, 220-230, 249-300).           *)
NobodyLeft ==
    /\ ~srv.task.active => worker.at = "gone" /\ kid = "none"
    /\ worker.at \in {"run", "wrote"} => srv.task.grouped
    /\ at = "exited" => worker.at = "gone" /\ kid = "none"

(* A server that owes a reply or is closing settles: every request read is  *)
(* answered or cancelled, and a server that closes comes to its end, even   *)
(* over a worker that does not heed SIGTERM (yan_mcp.c:282-287, 423, 436).  *)
Unresolved == {n \in called.read \ called.cancelled : given[n] = <<>>}
ServerSettles ==
    (Unresolved # {} \/ srv.closing)
        ~> ((Unresolved = {} /\ ~srv.closing) \/ at = "exited")
=============================================================================
