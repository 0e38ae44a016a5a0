---------------------------- MODULE BlockDevice ----------------------------
(***************************************************************************)
(* What the block protocol (docs/specs/0018) promises to its client: a    *)
(* disk that answers requests one at a time, whole, in the order they     *)
(* were submitted.  There are no rings, no frames and no partial arrival  *)
(* here; BlockChannel is shown to implement this specification.           *)
(***************************************************************************)
EXTENDS Integers, Sequences

CONSTANTS Requests,        \* the [head, data] pairs a client may submit
          CapacityBlocks,  \* blocks on the disk
          MaxCount,        \* blocks one frame of the channel can carry
          Values, Torn     \* contents of a block; what a failed write leaves

VARIABLES store,     \* the disk: a value per block
          failNext,  \* an injected fault waits for the next disk access
          broken,    \* the backing file failed: no access succeeds again
          asked,     \* the requests submitted, in order
          answered,  \* the answers given, in order
          received   \* the answers the client has taken

vars == <<store, failNext, broken, asked, answered, received>>

Init ==
  /\ store \in [0..CapacityBlocks - 1 -> Values]
  /\ ~failNext
  /\ ~broken
  /\ asked = <<>> /\ answered = <<>> /\ received = <<>>

Touches(head) == head.op \in {"READ", "WRITE"}

\* The parameters the protocol accepts.
Valid(head) ==
  IF head.op = "CAPACITY"
    THEN head.lba = 0 /\ head.count = 0
    ELSE head.count \in 1..MaxCount /\ head.lba + head.count <= CapacityBlocks

Blocks(head) == head.lba .. head.lba + head.count - 1

Reply(request, status, data) ==
  [head |-> [request.head EXCEPT !.status = status,
                                 !.count = IF status = "OK" THEN @ ELSE 0],
   data |-> data]

Submit ==
  /\ \E request \in Requests : asked' = Append(asked, request)
  /\ UNCHANGED <<store, failNext, broken, answered, received>>

\* The oldest unanswered request.
Turn == asked[Len(answered) + 1]

Reject ==
  /\ ~Valid(Turn.head)
  /\ answered' = Append(answered, Reply(Turn, "INVALID", <<>>))
  /\ UNCHANGED <<store, failNext, broken>>

TellCapacity ==
  /\ Valid(Turn.head) /\ Turn.head.op = "CAPACITY"
  /\ answered' = Append(answered, Reply(Turn, "OK", <<CapacityBlocks>>))
  /\ UNCHANGED <<store, failNext, broken>>

\* The injected fault: this request fails and touches nothing.
Fault ==
  /\ Valid(Turn.head) /\ Touches(Turn.head)
  /\ failNext
  /\ failNext' = FALSE
  /\ answered' = Append(answered, Reply(Turn, "DEVICE", <<>>))
  /\ UNCHANGED <<store, broken>>

Read ==
  /\ Valid(Turn.head) /\ Turn.head.op = "READ"
  /\ ~failNext /\ ~broken
  /\ answered' = Append(answered,
       Reply(Turn, "OK", [j \in 1..Turn.head.count |-> store[Turn.head.lba + j - 1]]))
  /\ UNCHANGED <<store, failNext, broken>>

Write ==
  /\ Valid(Turn.head) /\ Turn.head.op = "WRITE"
  /\ ~failNext /\ ~broken
  /\ store' = [b \in DOMAIN store |->
                 IF b \in Blocks(Turn.head) THEN Turn.data[b - Turn.head.lba + 1]
                                            ELSE store[b]]
  /\ answered' = Append(answered, Reply(Turn, "OK", <<>>))
  /\ UNCHANGED <<failNext, broken>>

\* The backing file fails, or failed before, or cannot be tried: the answer says
\* so, and only the first failing write can have touched its own blocks.
Break ==
  /\ Valid(Turn.head) /\ Touches(Turn.head)
  /\ ~failNext
  /\ broken' \in {broken, TRUE}
  /\ answered' = Append(answered, Reply(Turn, "DEVICE", <<>>))
  /\ store' \in [DOMAIN store -> Values \cup {Torn}]
  /\ \A b \in DOMAIN store :
       (store'[b] # store[b]) =>
         /\ ~broken /\ broken' /\ Turn.head.op = "WRITE" /\ b \in Blocks(Turn.head)
         /\ store'[b] \in {Turn.data[b - Turn.head.lba + 1], Torn}
  /\ UNCHANGED failNext

Answer ==
  /\ Len(answered) < Len(asked)
  /\ Reject \/ TellCapacity \/ Fault \/ Read \/ Write \/ Break
  /\ UNCHANGED <<asked, received>>

Receive ==
  /\ Len(received) < Len(answered)
  /\ received' = Append(received, answered[Len(received) + 1])
  /\ UNCHANGED <<store, failNext, broken, asked, answered>>

InjectFault ==
  /\ failNext' = TRUE
  /\ UNCHANGED <<store, broken, asked, answered, received>>

Next == Submit \/ Answer \/ Receive \/ InjectFault

Spec == Init /\ [][Next]_vars

=============================================================================
