---------------------------- MODULE BlockChannel ----------------------------
(***************************************************************************)
(* The block protocol over the host transport channel: two rings of cells *)
(* in guest RAM (src/transport.c, os/platform.h), the guest layer that    *)
(* frames requests and takes responses (os/block.c), and the host service *)
(* that answers them between two guest instructions (tools/host_block.c,  *)
(* tools/yan_run.c) from a file that can fail (tools/host_disk.c).        *)
(*                                                                         *)
(* A cell stands for a run of bytes: a header is HeaderSize cells, a      *)
(* block BlockSize cells, the capacity payload CapacitySize cells.  A     *)
(* cell remembers which header or value it is a part of, and which part,  *)
(* so that a frame read from the wrong place decodes as garbage.          *)
(***************************************************************************)
EXTENDS Integers, Sequences, FiniteSets

CONSTANTS RingSize, HeaderSize, BlockSize, CapacitySize,  \* in cells
          CapacityBlocks,    \* blocks on the disk
          Values, Torn, Nothing,
          Requests,          \* the [head, data] pairs the client may submit
          Starts,            \* where the positions can stand, rings drained, at the start
          MaxRequests,       \* bound: requests submitted in a behaviour
          MaxFaults          \* bound: injected faults in a behaviour

ASSUME ChannelAssumption ==
  /\ RingSize \in Nat /\ HeaderSize \in Nat \ {0} /\ BlockSize \in Nat \ {0}
  /\ CapacitySize \in Nat \ {0} /\ CapacityBlocks \in Nat
  /\ RingSize > HeaderSize + CapacitySize /\ Starts \subseteq 0..RingSize - 1
  /\ MaxRequests \in Nat /\ MaxFaults \in Nat

\* What yan_os_block_submit does not refuse as a mistake of its caller: one of the
\* three operations, and for a write a buffer of as many blocks as it names.
IsRequest(request) ==
  /\ request \in
       [head : [op : {"READ", "WRITE", "CAPACITY"}, status : {"none"}, tag : Nat,
                lba : Nat, count : Nat],
        data : Seq(Values)]
  /\ Len(request.data) = IF request.head.op = "WRITE" THEN request.head.count ELSE 0

ASSUME RequestAssumption == \A request \in Requests : IsRequest(request)

VARIABLES
  g2h, h2g,    \* [head, tail, cell]: the rings and their positions
  overflow,    \* overflow_detected, the channel's overrun latch
  doorbell,    \* doorbell_rung in yan_run
  serving,     \* the host is inside yan_host_block_service
  guest,       \* where the guest is inside a submit or a take
  store, failNext, broken,   \* the disk, fail_next, YanHostDisk.failed
  sent,        \* history: requests whose whole frame was submitted
  answers,     \* history: the answer of each request the host has served
  got,         \* the responses the guest has taken, as decoded
  faults       \* history: faults injected (bounded by MaxFaults)

ringVars == <<g2h, h2g, overflow, doorbell, serving>>
diskVars == <<store, failNext, broken>>
vars == <<ringVars, guest, diskVars, sent, answers, got, faults>>

-----------------------------------------------------------------------------
(* Rings.                                                                  *)

Used(ring) == (ring.head - ring.tail) % RingSize

\* One cell stays free, so that full and empty differ.
Free(ring) == RingSize - 1 - Used(ring)

Put(ring, cells) ==
  [ring EXCEPT
     !.cell = [k \in DOMAIN ring.cell |->
                 LET i == ((k - ring.head) % RingSize) + 1
                 IN IF i <= Len(cells) THEN cells[i] ELSE ring.cell[k]],
     !.head = (@ + Len(cells)) % RingSize]

\* yan_os_transport_g2h_push: all or nothing.
Push(ring, cells) == IF Len(cells) > Free(ring) THEN ring ELSE Put(ring, cells)

Drop(ring, n) == [ring EXCEPT !.tail = (@ + n) % RingSize]

\* n cells from offset on, without consuming them.
Peek(ring, offset, n) ==
  [i \in 1..n |-> ring.cell[(ring.tail + offset + i - 1) % RingSize]]

-----------------------------------------------------------------------------
(* Frames.                                                                 *)

NoHeader == [op |-> "none", status |-> "none", tag |-> 0, lba |-> 0, count |-> 0]
Garbage == [NoHeader EXCEPT !.op = "garbage"]

BlankCell == [head |-> NoHeader, data |-> Nothing, at |-> 0]

HeaderCells(head) ==
  [i \in 1..HeaderSize |-> [head |-> head, data |-> Nothing, at |-> i]]

\* `width` cells for each value.
DataCells(data, width) ==
  [i \in 1..Len(data) * width |->
     [head |-> NoHeader, data |-> data[((i - 1) \div width) + 1], at |-> (i - 1) % width]]

DecodeHeader(cells) ==
  IF cells = HeaderCells(cells[1].head) THEN cells[1].head ELSE Garbage

DecodeData(cells, width) ==
  [j \in 1..Len(cells) \div width |->
     LET value == cells[(j - 1) * width + 1].data
     IN IF SubSeq(cells, (j - 1) * width + 1, j * width) = DataCells(<<value>>, width)
          THEN value ELSE Torn]

HeaderAt(ring) == DecodeHeader(Peek(ring, 0, HeaderSize))

Width(op) == IF op = "CAPACITY" THEN CapacitySize ELSE BlockSize

\* The payload a request carries: only a write has one.
RequestPayload(head) == IF head.op = "WRITE" THEN head.count * BlockSize ELSE 0

\* The payload of a response: a failure carries none.
ReplyPayload(head) ==
  IF head.status # "OK" THEN 0
    ELSE CASE head.op = "READ"     -> head.count * BlockSize
           [] head.op = "CAPACITY" -> CapacitySize
           [] OTHER                -> 0

\* Whether a frame with this payload can exist in a ring at all.
FitsRing(payload) == HeaderSize + payload <= RingSize - 1

MaxCount == (RingSize - 1 - HeaderSize) \div BlockSize

-----------------------------------------------------------------------------
Idle == [at |-> "idle", request |-> [head |-> NoHeader, data |-> <<>>], response |-> NoHeader]

\* yan_transport_configure places both rings at 0; earlier traffic, all of it
\* taken, leaves their positions anywhere.
DrainedRing(start) ==
  [head |-> start, tail |-> start, cell |-> [k \in 0..RingSize - 1 |-> BlankCell]]

Init ==
  /\ \E start \in Starts : g2h = DrainedRing(start) /\ h2g = DrainedRing(start)
  /\ overflow = FALSE /\ doorbell = FALSE /\ serving = FALSE
  /\ guest = Idle
  /\ store \in [0..CapacityBlocks - 1 -> Values]
  /\ failNext = FALSE /\ broken = FALSE
  /\ sent = <<>> /\ answers = <<>> /\ got = <<>>
  /\ faults = 0

-----------------------------------------------------------------------------
(* The guest layer, os/block.c.  The host runs between any two of its      *)
(* instructions, so the two pushes of a submit, its doorbell and the two   *)
(* pops of a take are steps of their own.                                  *)

\* yan_os_block_submit accepts the request now: it is one the ring can carry
\* both ways, and the whole frame fits before its first cell is written.
Accepts(request) ==
  /\ request.head.op = "CAPACITY" \/ request.head.count <= MaxCount
  /\ Free(g2h) >= HeaderSize + RequestPayload(request.head)

SubmitHeader(request) ==
  /\ ~serving /\ guest.at = "idle"
  /\ Accepts(request)
  /\ g2h' = Push(g2h, HeaderCells(request.head))
  /\ IF RequestPayload(request.head) = 0
       THEN /\ guest' = [guest EXCEPT !.at = "bell", !.request = request]
            /\ sent' = Append(sent, request)
       ELSE /\ guest' = [guest EXCEPT !.at = "payload", !.request = request]
            /\ UNCHANGED sent
  /\ UNCHANGED <<h2g, overflow, doorbell, serving, diskVars, answers, got, faults>>

SubmitPayload ==
  /\ ~serving /\ guest.at = "payload"
  /\ g2h' = Push(g2h, DataCells(guest.request.data, BlockSize))
  /\ guest' = [guest EXCEPT !.at = "bell"]
  /\ sent' = Append(sent, guest.request)
  /\ UNCHANGED <<h2g, overflow, doorbell, serving, diskVars, answers, got, faults>>

RingDoorbell ==
  /\ ~serving /\ guest.at = "bell"
  /\ doorbell' = TRUE
  /\ guest' = Idle
  /\ UNCHANGED <<g2h, h2g, overflow, serving, diskVars, sent, answers, got, faults>>

\* A header take refuses: the frame is unknown or larger than any ring.
Malformed(head) ==
  head.op \notin {"READ", "WRITE", "CAPACITY"} \/ ~FitsRing(ReplyPayload(head))

\* yan_os_block_take has something to consume: a whole frame, or a header that
\* can never be one.
Takes ==
  /\ Used(h2g) >= HeaderSize
  /\ LET head == HeaderAt(h2g)
     IN Malformed(head) \/ Used(h2g) >= HeaderSize + ReplyPayload(head)

TakeHeader ==
  /\ ~serving /\ guest.at = "idle"
  /\ Takes
  /\ LET head == HeaderAt(h2g)
     IN IF Malformed(head) \/ ReplyPayload(head) = 0
          THEN /\ got' = Append(got, [head |-> head, data |-> <<>>])
               /\ UNCHANGED guest
          ELSE /\ guest' = [guest EXCEPT !.at = "body", !.response = head]
               /\ UNCHANGED got
  /\ h2g' = Drop(h2g, HeaderSize)
  /\ UNCHANGED <<g2h, overflow, doorbell, serving, diskVars, sent, answers, faults>>

TakeBody ==
  /\ ~serving /\ guest.at = "body"
  /\ LET n == ReplyPayload(guest.response)
     IN /\ got' = Append(got,
             [head |-> guest.response,
              data |-> DecodeData(Peek(h2g, 0, n), Width(guest.response.op))])
        /\ h2g' = Drop(h2g, n)
  /\ guest' = Idle
  /\ UNCHANGED <<g2h, overflow, doorbell, serving, diskVars, sent, answers, faults>>

-----------------------------------------------------------------------------
(* The host service, tools/host_block.c.                                   *)

\* The cells a request occupies; a write no ring can hold is its header alone.
FrameLength(head) ==
  HeaderSize + IF FitsRing(RequestPayload(head)) THEN RequestPayload(head) ELSE 0

\* The status a request earns from its header alone.
Judge(head) ==
  IF head.op \notin {"READ", "WRITE", "CAPACITY"} THEN "UNSUPPORTED"
  ELSE IF /\ FitsRing(RequestPayload(head))
          /\ FitsRing(ReplyPayload([head EXCEPT !.status = "OK"]))
          /\ IF head.op = "CAPACITY"
               THEN head.lba = 0 /\ head.count = 0
               ELSE head.count # 0 /\ head.lba + head.count <= CapacityBlocks
         THEN "OK" ELSE "INVALID"

\* A request that reaches the disk while a fault is injected fails with it.
Faulted(head) == failNext /\ Judge(head) = "OK" /\ head.op # "CAPACITY"

Status(head) == IF Faulted(head) THEN "DEVICE" ELSE Judge(head)

Response(head, status) ==
  [head EXCEPT !.status = status, !.count = IF status = "OK" THEN @ ELSE 0]

\* The loop of yan_host_block_service goes on: the oldest request is whole and
\* its answer fits.
CanServe ==
  /\ Used(g2h) >= HeaderSize
  /\ LET head == HeaderAt(g2h)
     IN /\ Used(g2h) >= FrameLength(head)
        /\ HeaderSize + ReplyPayload(Response(head, Status(head))) <= Free(h2g)

\* yan_transport_host_publish: a frame that does not fit latches the overrun.
Publish(cells) ==
  /\ overflow' = (overflow \/ Len(cells) > Free(h2g))
  /\ h2g' = Push(h2g, cells)

\* The request is carried out on the disk.
Reaches(head) == Status(head) = "OK" /\ head.op # "CAPACITY"

OutcomesForgiven(head) ==         \* mutant: a failed file is tried again
  IF Reaches(head) THEN {"unable", "failed", "done"} ELSE {"done"}

\* How that can end: "unable" is the service finding no memory for the payload,
\* which leaves the file alone; a failed file stays failed.
Outcomes(head) ==
  IF Reaches(head) THEN {"unable", "failed"} \cup (IF broken THEN {} ELSE {"done"})
                   ELSE {"done"}

\* The disk after it.  A failed write leaves each of its blocks old, new or torn;
\* one after the failure does not reach the file.
Access(head, data, outcome) ==
  LET blocks == head.lba .. head.lba + head.count - 1
      new(b) == data[b - head.lba + 1]
      writes == Reaches(head) /\ head.op = "WRITE" /\ outcome # "unable" /\ ~broken
      left   == IF outcome = "done" THEN {[b \in blocks |-> "new"]}
                                    ELSE [blocks -> {"old", "new", "torn"}]
  IN /\ broken' = (broken \/ outcome = "failed")
     /\ IF writes
          THEN \E state \in left :
                 store' = [b \in DOMAIN store |->
                   IF b \notin blocks \/ state[b] = "old" THEN store[b]
                   ELSE IF state[b] = "new" THEN new(b) ELSE Torn]
          ELSE UNCHANGED store

\* The answer, with the data of a successful one.
Answer(head, outcome) ==
  LET status == IF outcome = "done" THEN Status(head) ELSE "DEVICE"
  IN [head |-> Response(head, status),
      data |-> IF status # "OK" THEN <<>>
                 ELSE CASE head.op = "READ" -> [j \in 1..head.count |-> store[head.lba + j - 1]]
                        [] head.op = "CAPACITY" -> <<CapacityBlocks>>
                        [] OTHER -> <<>>]

\* The oldest request, as the service decodes it from the ring.
Oldest ==
  LET head == HeaderAt(g2h)
  IN [head |-> head,
      data |-> DecodeData(Peek(g2h, HeaderSize, FrameLength(head) - HeaderSize), BlockSize)]

CalledOnBell == serving \/ doorbell     \* mutant: on the bell's edge only

\* yan_run calls the service on the bell's edge and, because a request whose
\* answer did not fit is a level, while request cells remain.
Called == serving \/ doorbell \/ Used(g2h) > 0

\* One round of the service loop.  The loop runs to its end before the guest's
\* next instruction.
Serve ==
  /\ Called
  /\ CanServe
  /\ \E request \in {Oldest} : \E outcome \in Outcomes(request.head) :
       \E answer \in {Answer(request.head, outcome)} :
         /\ g2h' = Drop(g2h, FrameLength(request.head))
         /\ Access(request.head, request.data, outcome)
         /\ Publish(HeaderCells(answer.head) \o DataCells(answer.data, Width(answer.head.op)))
         /\ answers' = Append(answers, answer)
         /\ failNext' = (failNext /\ ~Faulted(request.head))
  /\ doorbell' = FALSE
  /\ serving' = TRUE
  /\ UNCHANGED <<guest, sent, got, faults>>

\* The loop breaks, or a call finds nothing it can answer and only clears the bell.
Break ==
  /\ serving \/ doorbell
  /\ ~CanServe
  /\ serving' = FALSE /\ doorbell' = FALSE
  /\ UNCHANGED <<g2h, h2g, overflow, guest, diskVars, sent, answers, got, faults>>

\* The host arms the injected fault between two calls of the service.
InjectFault ==
  /\ ~serving /\ ~failNext
  /\ faults < MaxFaults
  /\ failNext' = TRUE
  /\ faults' = faults + 1
  /\ UNCHANGED <<ringVars, guest, store, broken, sent, answers, got>>

-----------------------------------------------------------------------------
\* A client of the guest layer: it submits when it likes and takes what comes.
Submit ==
  /\ Len(sent) < MaxRequests
  /\ \E request \in Requests : SubmitHeader(request)

GuestStep == SubmitPayload \/ RingDoorbell \/ TakeHeader \/ TakeBody
HostStep == Serve \/ Break

Next == Submit \/ GuestStep \/ HostStep \/ InjectFault

Spec == Init /\ [][Next]_vars

(* The host loop is called between guest instructions for as long as request *)
(* cells remain, and the guest finishes the call it is in and takes an answer *)
(* that is there: the fairness of a client that goes on executing.            *)
LiveSpec == Spec /\ WF_vars(GuestStep) /\ WF_vars(HostStep)

-----------------------------------------------------------------------------
Device == INSTANCE BlockDevice WITH asked <- sent, answered <- answers, received <- got

(***************************************************************************)
(* The rings, the framing and the service together are a device that      *)
(* answers each request once, in order, from the parameters it was sent   *)
(* with, and hands the guest exactly those answers; an injected fault is  *)
(* spent by an answer, and a failed file never answers OK again.          *)
(***************************************************************************)
DeviceSpec == Device!Spec

(***************************************************************************)
(* Every request whose frame was submitted is answered and its answer     *)
(* taken, even when it first had to wait for room among the answers and   *)
(* the guest never rings again (the level condition of yan_run).          *)
(***************************************************************************)
EveryRequestAnswered ==
  \A i \in 1..MaxRequests : (Len(sent) >= i) ~> (Len(got) >= i)
=============================================================================
