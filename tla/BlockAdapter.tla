---------------------------- MODULE BlockAdapter ----------------------------
(***************************************************************************)
(* The block callbacks of YanFS over the block channel (os/yanfs_block.c): *)
(* one request at a time, submitted whole, waited for on a predicate over *)
(* the answer's header, taken whole, and only then paired with what was   *)
(* asked.  Anything but the answer or a device error closes the adapter   *)
(* for good.  The task that waits may be asked for another call by a      *)
(* second task: a reentrant call.                                          *)
(***************************************************************************)
EXTENDS BlockChannel

CONSTANT TagModulus   \* tags wrap: 2^16 in the code

ASSUME TagAssumption == TagModulus \in Nat \ {0}

VARIABLES adapter,   \* YanFsBlockAdapter
          result,    \* what the last call of the owner returned, and for what
          reentered  \* history: a call was made while another was in progress

adapterVars == <<adapter, result, reentered>>
allVars == <<vars, adapterVars>>

NoResult == [outcome |-> "none", op |-> "none", lba |-> 0, written |-> <<>>, data |-> <<>>]

Closed == [initialized |-> FALSE, busy |-> FALSE, failed |-> FALSE,
           nextTag |-> 0, op |-> "none", tag |-> 0, lba |-> 0]

AdapterInit == Init /\ adapter = Closed /\ result = NoResult /\ reentered = FALSE

-----------------------------------------------------------------------------
\* yan_fs_block_init: both rings empty, and never out of a failure.
Open ==
  /\ ~serving /\ guest.at = "idle"
  /\ ~adapter.busy /\ ~adapter.failed
  /\ ~overflow /\ MaxCount >= 1
  /\ Used(g2h) = 0 /\ Used(h2g) = 0
  /\ adapter' = [Closed EXCEPT !.initialized = TRUE]
  /\ UNCHANGED <<vars, result, reentered>>

\* finish_ok, finish_io and finish_protocol.
Finish(outcome, data) ==
  /\ adapter' = [adapter EXCEPT !.busy = FALSE, !.op = "none", !.tag = 0, !.lba = 0,
                                !.failed = @ \/ outcome = "PROTOCOL"]
  /\ result' = [result EXCEPT !.outcome = outcome, !.data = data]

MayCall == adapter.initialized /\ ~adapter.failed /\ ~adapter.busy

RequestOf(op, lba, data) ==
  [head |-> [op |-> op, status |-> "none", tag |-> adapter.nextTag, lba |-> lba,
             count |-> IF op = "CAPACITY" THEN 0 ELSE 1],
   data |-> data]

\* run_request up to its wait.  The standing of the channel is checked on every
\* call, and a submit that does not fit at once is a failure: nothing would wake
\* the task when room came.
Call(op, lba, data) ==
  /\ ~serving /\ guest.at = "idle"
  /\ MayCall
  /\ LET request == RequestOf(op, lba, data)
         asked   == [NoResult EXCEPT !.op = op, !.lba = lba, !.written = data]
     IN IF overflow \/ MaxCount < 1 \/ ~Accepts(request)
          THEN /\ adapter' = [adapter EXCEPT !.failed = TRUE]
               /\ result' = [asked EXCEPT !.outcome = "PROTOCOL"]
               /\ UNCHANGED vars
          ELSE /\ SubmitHeader(request)
               /\ adapter' = [adapter EXCEPT !.busy = TRUE,
                                !.op = op, !.tag = adapter.nextTag, !.lba = lba,
                                !.nextTag = (@ + 1) % TagModulus]
               /\ result' = asked
  /\ UNCHANGED reentered

\* A call on an adapter that was never opened, or has failed.
Refuse ==
  /\ ~serving /\ guest.at = "idle"
  /\ ~adapter.initialized \/ adapter.failed
  /\ ~adapter.busy
  /\ result' = [NoResult EXCEPT !.outcome = "PROTOCOL"]
  /\ UNCHANGED <<vars, adapter, reentered>>

Waiting == adapter.busy /\ guest.at = "idle" /\ Len(got) < Len(sent)

\* Another task calls while the owner sleeps: that call is refused, and the
\* adapter with it; the owner's own answer is still on its way.
Reenter ==
  /\ ~serving /\ Waiting
  /\ adapter' = [adapter EXCEPT !.failed = TRUE]
  /\ reentered' = TRUE
  /\ UNCHANGED <<vars, result>>

ShapeOfRead(op) == IF op = "READ" THEN 1 ELSE 0    \* mutant: a write answers no block

\* The shape a response header must have for an adapter that asks one block.
ShapeOf(op) == IF op = "CAPACITY" THEN 0 ELSE 1

Plausible(head) ==
  /\ head.op \in {"READ", "WRITE", "CAPACITY"}
  /\ head.count = (IF head.status = "OK" THEN ShapeOf(head.op) ELSE 0)
  /\ (head.op = "CAPACITY" /\ head.status = "OK") => head.lba = 0

ReadyWithData ==                  \* mutant: sleeps for the data of a failed read
  Used(h2g) >= HeaderSize + (IF adapter.op = "READ" THEN BlockSize ELSE 0)

\* response_ready, the predicate the task sleeps on: a whole plausible frame, or
\* a header that can never become one.
ResponseReady ==
  /\ Used(h2g) >= HeaderSize
  /\ LET head == HeaderAt(h2g)
     IN \/ ~Plausible(head) \/ ~FitsRing(ReplyPayload(head))
        \/ Used(h2g) >= HeaderSize + ReplyPayload(head)

\* The task wakes and takes the frame; a take that finds none closes the adapter.
Wake ==
  /\ ~serving /\ Waiting
  /\ ResponseReady
  /\ IF Takes THEN TakeHeader /\ UNCHANGED <<adapter, result>>
              ELSE Finish("PROTOCOL", <<>>) /\ UNCHANGED vars
  /\ UNCHANGED reentered

VerdictWithoutDevice(answer) ==   \* mutant: a device error passes for success
  IF answer.head.tag # adapter.tag THEN "PROTOCOL" ELSE "OK"

\* What the taken frame means to the call that waited for it.
Verdict(answer) ==
  IF \/ answer.head.op # adapter.op
     \/ answer.head.tag # adapter.tag
     \/ answer.head.lba # adapter.lba
     \/ ~Plausible(answer.head)
    THEN "PROTOCOL"
    ELSE CASE answer.head.status = "OK"     -> "OK"
           [] answer.head.status = "DEVICE" -> "IO_ERROR"
           [] OTHER                         -> "PROTOCOL"

Pair ==
  /\ ~serving /\ adapter.busy /\ guest.at = "idle"
  /\ Len(got) = Len(sent)
  /\ LET answer == got[Len(got)]
     IN Finish(Verdict(answer), answer.data)
  /\ UNCHANGED <<vars, reentered>>

-----------------------------------------------------------------------------
\* The channel's own steps: the rest of a submit or a take, and the host.
ChannelStep ==
  /\ SubmitPayload \/ RingDoorbell \/ TakeBody \/ HostStep \/ InjectFault
  /\ UNCHANGED adapterVars

\* YanFS asks for blocks the disk has (its image was validated against CAPACITY).
Calls ==
  /\ Len(sent) < MaxRequests
  /\ \/ \E lba \in 0..CapacityBlocks - 1 :
          \/ Call("READ", lba, <<>>)
          \/ \E value \in Values : Call("WRITE", lba, <<value>>)
     \/ Call("CAPACITY", 0, <<>>)

AdapterStep == Wake \/ Pair

AdapterNext == Open \/ Calls \/ Refuse \/ Reenter \/ AdapterStep \/ ChannelStep

AdapterSpec == AdapterInit /\ [][AdapterNext]_allVars

(* The caller's task runs on until it sleeps and is woken when its predicate  *)
(* holds (module Runtime); the host is called between guest instructions.     *)
AdapterLiveSpec ==
  /\ AdapterSpec
  /\ WF_allVars(AdapterStep)
  /\ WF_allVars((SubmitPayload \/ RingDoorbell \/ TakeBody) /\ UNCHANGED adapterVars)
  /\ WF_allVars(HostStep /\ UNCHANGED adapterVars)

-----------------------------------------------------------------------------
(***************************************************************************)
(* What a returned call says is true of the disk: a block read is the     *)
(* block's contents, a block written is on the disk, and neither can be   *)
(* said again once the disk file has failed.  It is the contract of       *)
(* YanFsBlockIo that YanFS is built on.                                   *)
(***************************************************************************)
ResultIsTrue ==
  (~adapter.busy /\ result.outcome = "OK") =>
    CASE result.op = "READ"     -> ~broken /\ result.data = <<store[result.lba]>>
      [] result.op = "WRITE"    -> ~broken /\ result.written = <<store[result.lba]>>
      [] result.op = "CAPACITY" -> result.data = <<CapacityBlocks>>

(***************************************************************************)
(* With this host the adapter closes itself only on a reentrant call: a   *)
(* disk that fails, a fault, a frame that wraps or a tag that comes round *)
(* again never looks like a broken protocol.  And no call that reached    *)
(* the channel returns PROTOCOL: a reentrant call does not cost the owner *)
(* its own answer (a refused call has no op).                             *)
(***************************************************************************)
AlarmMeansReentry ==
  /\ adapter.failed => reentered
  /\ result.outcome = "PROTOCOL" => result.op = "none"

(***************************************************************************)
(* Every call returns, whatever the disk answers and whoever reenters.    *)
(***************************************************************************)
CallReturns == adapter.busy ~> ~adapter.busy
=============================================================================
