---------------------------- MODULE Runtime_proofs ----------------------------
(***************************************************************************)
(* The safety of the runtime for every number of task slots: the type       *)
(* invariant, and the five safety properties of Runtime from one inductive  *)
(* invariant.                                                              *)
(***************************************************************************)
EXTENDS Runtime, TLAPS

(* Where each context stands, and what state that leaves its slot in: only  *)
(* the context that holds the CPU is inside of the runtime.                 *)
Standing ==
    /\ \A i \in Slots : i # current =>
          pc[i] = "user" /\ state[i] \in {"UNUSED", "RUNNABLE", "BLOCKED"}
    /\ current # Sched =>
          /\ pc[Sched] = "pick"
          /\ pc[current] \in {"user", "ask", "register"} => state[current] = "RUNNING"
          /\ pc[current] = "restore" => state[current] = "BLOCKED"
          /\ pc[current] \in {"pick", "switch"} =>
                state[current] \in {"RUNNABLE", "BLOCKED"}
    /\ current = Sched => pc[Sched] \in {"pick", "switch"}
    /\ pc[current] = "switch" /\ next # Sched => state[next] = "RUNNABLE"

(* Interrupts and the handshake with the PLIC.                              *)
Gate ==
    /\ ~mie <=> \/ panicked \/ trap # "none"
                \/ current # Sched /\ pc[current] \in {"register", "restore"}
    /\ panicked => trap = "none"
    /\ trap # "none" /\ current # Sched => pc[current] \notin {"register", "restore"}
    /\ trap \in {"none", "claim"} => claimed = 0 /\ plic.in_service = {}
    /\ trap \notin {"none", "claim"} => claimed \in Events /\ plic.in_service = {claimed}

(* The waiter table.                                                       *)
Waiting ==
    /\ \A e \in Events : waiters[e] # Sched =>
          state[waiters[e]] = "BLOCKED" /\ event[waiters[e]] = e
    /\ \A i \in Slots : state[i] = "BLOCKED" =>
          waiters[event[i]] = i /\ i \in Reader[event[i]]
    /\ current # Sched /\ pc[current] \in {"ask", "register"} =>
          current \in Reader[event[current]]
    /\ current # Sched /\ pc[current] = "register" => waiters[event[current]] = Sched
    /\ trap = "complete" => waiters[claimed] = Sched
    /\ ~panicked

(* An event that is waited for, or about to be, is on its way.              *)
Coming(e) ==
    \/ items[e] = 0
    \/ e = TRANSPORT /\ latch
    \/ e = UART /\ rx_irq
Armed ==
    /\ trap = "service" /\ claimed = UART => Predicate(UART)
    /\ current # Sched /\ pc[current] = "ask" /\ event[current] = UART =>
          rx_irq \/ Predicate(UART)
    /\ current # Sched /\ pc[current] = "register" =>
          Coming(event[current]) /\ (event[current] = UART => rx_irq)
    /\ \A e \in Events : waiters[e] # Sched =>
          \/ Coming(e) /\ (e = UART => rx_irq)
          \/ claimed = e /\ trap = "wake"

IInv == TypeOK /\ Standing /\ Gate /\ Waiting /\ Armed

USE RuntimeAssumption, PlicAssumption DEF Events, TRANSPORT, UART, Slots, Sched

-----------------------------------------------------------------------------
(* Sampling the lines changes what is pending, never what is in service,    *)
(* and only a line that is asserted can be selected.                       *)
LEMMA Sampling ==
    ASSUME TypeOK
    PROVE  /\ Sampled \in PlicState
           /\ Sampled.in_service = plic.in_service
           /\ plic_select(Sampled) \subseteq Asserted
BY DEF TypeOK, Sampled, PlicState, plic_set_level, plic_select, Asserted

(* Priorities and ids order the sources totally: one is claimed at a time.  *)
LEMMA OneSelected ==
    ASSUME NEW p \in PlicState, NEW s \in plic_select(p), NEW r \in plic_select(p)
    PROVE  s = r
<1>1. s \in Nat /\ r \in Nat /\ Priority[s] \in Nat /\ Priority[r] \in Nat
  BY DEF PlicState, plic_select
<1>2. Better(s, r) /\ Better(r, s)
  BY DEF plic_select
<1>. QED
  BY <1>1, <1>2 DEF Better

(* What every instruction leaves alone.                                     *)
LEMMA Executing ==
    ASSUME TypeOK, Executes
    PROVE  /\ ~panicked /\ trap = "none" /\ trap' = trap /\ claimed' = claimed
           /\ plic' \in PlicState
           /\ plic'.in_service = plic.in_service
BY Sampling DEF Executes, trapvars

-----------------------------------------------------------------------------
(* The inductive invariant holds when the scheduler starts.               *)
LEMMA Initially == Init => IInv
<1>. SUFFICES ASSUME Init PROVE IInv
  OBVIOUS
<1>1. TypeOK
  <2>1. state \in [Slots -> {"UNUSED", "RUNNABLE", "RUNNING", "BLOCKED"}]
    BY DEF Init
  <2>2. pc \in [0 .. N -> {"user", "ask", "register", "restore", "pick", "switch"}]
    BY DEF Init
  <2>3. plic \in PlicState
    BY DEF Init, PlicReset, PlicState
  <2>4. scan \in 1 .. (N + 1) /\ sched_cursor \in Slots /\ next \in 0 .. N /\ current \in 0 .. N
    BY DEF Init
  <2>5. /\ waiters \in [Events -> 0 .. N] /\ event \in [Slots -> Events]
        /\ items \in [Events -> Nat]
    BY DEF Init
  <2>. QED
    BY <2>1, <2>2, <2>3, <2>4, <2>5 DEF Init, TypeOK
<1>2. Standing
  BY DEF Init, Standing
<1>3. Gate /\ Waiting /\ Armed
  BY DEF Init, Gate, Waiting, Armed, PlicReset
<1>. QED
  BY <1>1, <1>2, <1>3 DEF IInv

(* spawn only fills a slot that nobody waits in.                          *)
LEMMA SpawnStep ==
    ASSUME IInv, NEW i \in Slots, Spawn(i)
    PROVE  IInv'
<1>0. /\ ~panicked /\ trap = "none" /\ trap' = trap /\ claimed' = claimed
      /\ plic' \in PlicState /\ plic'.in_service = plic.in_service
  BY Executing DEF IInv, Spawn
<1>1. TypeOK'
  BY <1>0 DEF IInv, Spawn, Goto, devices, TypeOK
<1>2. Standing'
  BY <1>0 DEF IInv, Spawn, At, Goto, Standing
<1>3. Gate'
  BY <1>0 DEF IInv, Spawn, At, Goto, Gate
<1>4. Waiting'
  BY <1>0 DEF IInv, Spawn, Goto, Waiting
<1>5. Armed'
  BY <1>0 DEF IInv, Spawn, At, Goto, devices, Armed, Coming
<1>. QED
  BY <1>1, <1>2, <1>3, <1>4, <1>5 DEF IInv

(* Only the UART's reader masks its route, and it is not blocked then.    *)
LEMMA LeaveReaderStep ==
    ASSUME IInv, NEW i \in Slots, LeaveReader(i)
    PROVE  IInv'
<1>0. /\ ~panicked /\ trap = "none" /\ trap' = trap /\ claimed' = claimed
      /\ plic' \in PlicState /\ plic'.in_service = plic.in_service
  BY Executing DEF IInv, LeaveReader
<1>1. TypeOK'
  BY <1>0 DEF IInv, LeaveReader, taskvars, TypeOK
<1>2. Standing'
  BY <1>0 DEF IInv, LeaveReader, taskvars, Standing
<1>3. Gate'
  BY <1>0 DEF IInv, LeaveReader, taskvars, Gate
<1>4. Waiting'
  BY <1>0 DEF IInv, LeaveReader, taskvars, Waiting
<1>5. Armed'
  BY <1>0 DEF IInv, LeaveReader, At, taskvars, TypeOK, Standing, Waiting,
     Armed, Coming
<1>. QED
  BY <1>1, <1>2, <1>3, <1>4, <1>5 DEF IInv

(* yield: RUNNING becomes RUNNABLE, no waiter is concerned.               *)
LEMMA YieldStep ==
    ASSUME IInv, NEW i \in Slots, Yield(i)
    PROVE  IInv'
<1>0. /\ ~panicked /\ trap = "none" /\ trap' = trap /\ claimed' = claimed
      /\ plic' \in PlicState /\ plic'.in_service = plic.in_service
  BY Executing DEF IInv, Yield
<1>1. TypeOK'
  BY <1>0 DEF IInv, Yield, Goto, devices, TypeOK
<1>2. Standing'
  BY <1>0 DEF IInv, Yield, At, Goto, TypeOK, Standing
<1>3. Gate'
  BY <1>0 DEF IInv, Yield, At, Goto, Gate
<1>4. Waiting'
  BY <1>0 DEF IInv, Yield, At, Goto, Standing, Waiting
<1>5. Armed'
  BY <1>0 DEF IInv, Yield, At, Goto, devices, Armed, Coming
<1>. QED
  BY <1>1, <1>2, <1>3, <1>4, <1>5 DEF IInv

(* exit: an ending task is RUNNING, so no waiter slot names it.           *)
LEMMA ExitStep ==
    ASSUME IInv, NEW i \in Slots, Exit(i)
    PROVE  IInv'
<1>0. /\ ~panicked /\ trap = "none" /\ trap' = trap /\ claimed' = claimed
      /\ plic' \in PlicState /\ plic'.in_service = plic.in_service
  BY Executing DEF IInv, Exit
<1>1. TypeOK'
  BY <1>0 DEF IInv, Exit, devices, TypeOK
<1>2. Standing'
  BY <1>0 DEF IInv, Exit, At, TypeOK, Standing
<1>3. Gate'
  BY <1>0 DEF IInv, Exit, At, Gate
<1>4. Waiting'
  BY <1>0 DEF IInv, Exit, At, Standing, Waiting
<1>5. Armed'
  BY <1>0 DEF IInv, Exit, devices, Armed, Coming
<1>. QED
  BY <1>1, <1>2, <1>3, <1>4, <1>5 DEF IInv

(* Taking an item re-arms the UART and leaves the waiters alone.          *)
LEMMA TakeStep ==
    ASSUME IInv, NEW i \in Slots, NEW e \in Events, Take(i, e)
    PROVE  IInv'
<1>0. /\ ~panicked /\ trap = "none" /\ trap' = trap /\ claimed' = claimed
      /\ plic' \in PlicState /\ plic'.in_service = plic.in_service
  BY Executing DEF IInv, Take
<1>1. TypeOK'
  BY <1>0 DEF IInv, Take, taskvars, TypeOK
<1>2. Standing'
  BY <1>0 DEF IInv, Take, taskvars, Standing
<1>3. Gate'
  BY <1>0 DEF IInv, Take, taskvars, Gate
<1>4. Waiting'
  BY <1>0 DEF IInv, Take, taskvars, Waiting
<1>5. Armed'
  BY <1>0 DEF IInv, Take, At, taskvars, TypeOK, Armed, Coming
<1>. QED
  BY <1>1, <1>2, <1>3, <1>4, <1>5 DEF IInv

(* A task enters wait armed: the UART's interrupt is enabled.             *)
LEMMA CallWaitStep ==
    ASSUME IInv, NEW i \in Slots, NEW e \in Events, CallWait(i, e)
    PROVE  IInv'
<1>0. /\ ~panicked /\ trap = "none" /\ trap' = trap /\ claimed' = claimed
      /\ plic' \in PlicState /\ plic'.in_service = plic.in_service
  BY Executing DEF IInv, CallWait
<1>1. TypeOK'
  BY <1>0 DEF IInv, CallWait, Goto, TypeOK
<1>2. Standing'
  BY <1>0 DEF IInv, CallWait, At, Goto, Standing
<1>3. Gate'
  BY <1>0 DEF IInv, CallWait, At, Goto, Gate
<1>4. Waiting'
  BY <1>0 DEF IInv, CallWait, At, TypeOK, Standing, Waiting
<1>5. Armed'
  BY <1>0 DEF IInv, CallWait, At, TypeOK, Armed, Coming
<1>. QED
  BY <1>1, <1>2, <1>3, <1>4, <1>5 DEF IInv

(* A false predicate, asked with interrupts off, means nothing is held yet.*)
LEMMA AskStep ==
    ASSUME IInv, NEW i \in Slots, Ask(i)
    PROVE  IInv'
<1>0. /\ ~panicked /\ trap = "none" /\ trap' = trap /\ claimed' = claimed
      /\ plic' \in PlicState /\ plic'.in_service = plic.in_service
  BY Executing DEF IInv, Ask
<1>a. \/ pc' = pc
      \/ \E place \in {"user", "register"} : pc' = [pc EXCEPT ![i] = place]
  BY DEF Ask, Goto
<1>b. pc' \in [0 .. N -> {"user", "ask", "register", "restore", "pick", "switch"}]
  BY <1>a DEF IInv, TypeOK, Slots
<1>c. UNCHANGED <<state, current, waiters, sched_cursor, event, scan, next, devices>>
  BY DEF Ask
<1>1. TypeOK'
  <2>1. mie' \in BOOLEAN /\ panicked' \in BOOLEAN
    BY DEF IInv, Ask, TypeOK
  <2>. QED
    BY <1>0, <1>b, <1>c, <2>1 DEF IInv, devices, TypeOK
<1>2. Standing'
  <2>1. /\ current = i /\ pc[i] = "ask" /\ \A k \in 0 .. N : k # i => pc'[k] = pc[k]
        /\ pc'[i] \in {"user", "ask", "register"} /\ i \in Slots /\ i # Sched
    BY <1>a DEF IInv, TypeOK, Ask, At, Slots, Sched
  <2>. QED
    BY <1>c, <2>1 DEF IInv, TypeOK, Standing, Slots, Sched
<1>3. Gate'
  <2>1. /\ current = i /\ i # Sched /\ pc[i] = "ask" /\ mie /\ pc'[i] \in {"user", "ask", "register"}
        /\ pc'[i] = "register" => ~mie' /\ ~panicked'
        /\ pc'[i] = "user" => mie' /\ ~panicked'
        /\ pc'[i] = "ask" => ~mie' /\ panicked'
    BY <1>0 DEF IInv, TypeOK, Gate, Ask, At, Goto, Slots, Sched
  <2>2. trap' = "none" /\ current' = i
    BY <1>0, <1>c, <2>1
  <2>3. ~mie' <=> panicked' \/ pc'[i] \in {"register", "restore"}
    BY <2>1
  <2>4. claimed' = 0 /\ plic'.in_service = {}
    BY <1>0 DEF IInv, Gate
  <2>. QED
    BY <2>1, <2>2, <2>3, <2>4 DEF Gate
<1>4. Waiting'
  BY <1>0 DEF IInv, Ask, At, TypeOK, Standing, Waiting
<1>5. Armed'
  BY <1>0 DEF IInv, Ask, At, Goto, devices, TypeOK, Armed, Coming, Predicate
<1>. QED
  BY <1>1, <1>2, <1>3, <1>4, <1>5 DEF IInv

(* What came since the predicate is still asserted when wait registers.   *)
LEMMA RegisterStep ==
    ASSUME IInv, NEW i \in Slots, Register(i)
    PROVE  IInv'
<1>0. /\ ~panicked /\ trap = "none" /\ trap' = trap /\ claimed' = claimed
      /\ plic' \in PlicState /\ plic'.in_service = plic.in_service
  BY Executing DEF IInv, Register
<1>1. TypeOK'
  BY <1>0 DEF IInv, Register, Goto, devices, TypeOK
<1>2. Standing'
  BY <1>0 DEF IInv, Register, At, Goto, TypeOK, Standing
<1>3. Gate'
  BY <1>0 DEF IInv, Register, At, Goto, Gate
<1>4. Waiting'
  BY <1>0 DEF IInv, Register, At, Goto, TypeOK, Waiting
<1>5. Armed'
  BY <1>0 DEF IInv, Register, At, devices, Armed, Coming
<1>. QED
  BY <1>1, <1>2, <1>3, <1>4, <1>5 DEF IInv

(* Interrupts on again; the waiter is registered and BLOCKED.             *)
LEMMA RestoreStep ==
    ASSUME IInv, NEW i \in Slots, Restore(i)
    PROVE  IInv'
<1>0. /\ ~panicked /\ trap = "none" /\ trap' = trap /\ claimed' = claimed
      /\ plic' \in PlicState /\ plic'.in_service = plic.in_service
  BY Executing DEF IInv, Restore
<1>1. TypeOK'
  BY <1>0 DEF IInv, Restore, Goto, devices, TypeOK
<1>2. Standing'
  BY <1>0 DEF IInv, Restore, At, Goto, Standing
<1>3. Gate'
  BY <1>0 DEF IInv, Restore, At, Goto, TypeOK, Gate
<1>4. Waiting'
  BY <1>0 DEF IInv, Restore, Goto, Waiting
<1>5. Armed'
  BY <1>0 DEF IInv, Restore, At, Goto, devices, Armed, Coming
<1>. QED
  BY <1>1, <1>2, <1>3, <1>4, <1>5 DEF IInv

(* The scan goes round the slots.                                          *)
LEMMA Round ==
    ASSUME NEW offset \in Nat, sched_cursor \in Slots
    PROVE  slot_after(offset) \in Slots
BY DEF slot_after

(* The scan touches the cursor only.                                      *)
LEMMA ScanStep ==
    ASSUME IInv, NEW c \in 0 .. N, Scan(c)
    PROVE  IInv'
<1>0. /\ ~panicked /\ trap = "none" /\ trap' = trap /\ claimed' = claimed
      /\ plic' \in PlicState /\ plic'.in_service = plic.in_service
  BY Executing DEF IInv, Scan
<1>a. slot_after(scan) \in Slots
  <2>1. scan \in Nat /\ sched_cursor \in Slots
    BY DEF IInv, TypeOK
  <2>. QED
    BY <2>1, Round
<1>b. /\ pc[c] = "pick" /\ current = c
      /\ UNCHANGED <<state, current, waiters, event, mie, devices, panicked>>
  BY DEF Scan, At
<1>d. \/ /\ state[slot_after(scan)] = "RUNNABLE"
         /\ sched_cursor' = slot_after(scan) /\ next' = slot_after(scan)
         /\ pc' = [pc EXCEPT ![c] = "switch"] /\ scan' = scan
      \/ /\ scan <= N /\ scan' = scan + 1
         /\ UNCHANGED <<sched_cursor, next, pc>>
      \/ /\ next' = N /\ pc' = [pc EXCEPT ![c] = "switch"]
         /\ UNCHANGED <<sched_cursor, scan>>
  BY DEF Scan, Goto
<1>1. TypeOK'
  <2>1. /\ sched_cursor' \in Slots /\ next' \in 0 .. N /\ scan' \in 1 .. (N + 1)
    <3>1. /\ sched_cursor \in 0 .. (N - 1) /\ next \in 0 .. N /\ scan \in 1 .. (N + 1)
          /\ slot_after(scan) \in 0 .. (N - 1) /\ slot_after(scan) \in 0 .. N
          /\ N \in 0 .. N
      BY <1>a DEF IInv, TypeOK
    <3>2. scan <= N => scan + 1 \in 1 .. (N + 1)
      BY <3>1
    <3>. QED
      BY <1>d, <3>1, <3>2
  <2>2. pc' \in [0 .. N -> {"user", "ask", "register", "restore", "pick", "switch"}]
    BY <1>d DEF IInv, TypeOK
  <2>. QED
    BY <1>0, <1>b, <2>1, <2>2 DEF IInv, devices, TypeOK
<1>2. Standing'
  <2>1. /\ \A k \in 0 .. N : k # c => pc'[k] = pc[k]
        /\ pc'[c] \in {"pick", "switch"}
        /\ pc'[c] = "switch" /\ next' # N => state[next'] = "RUNNABLE"
    BY <1>a, <1>b, <1>d DEF IInv, TypeOK
  <2>. QED
    BY <1>b, <2>1 DEF IInv, TypeOK, Standing
<1>3. Gate'
  BY <1>0 DEF IInv, Scan, At, Goto, TypeOK, Gate
<1>4. Waiting'
  <2>1. pc'[current'] \in {"pick", "switch"}
    BY <1>b, <1>d DEF IInv, TypeOK
  <2>. QED
    BY <1>0, <1>b, <2>1 DEF IInv, Waiting
<1>5. Armed'
  BY <1>0 DEF IInv, Scan, At, Goto, devices, TypeOK, Armed, Coming
<1>. QED
  BY <1>1, <1>2, <1>3, <1>4, <1>5 DEF IInv

(* A task hands the CPU over, to a RUNNABLE task or to the scheduler.     *)
LEMMA SwitchStep ==
    ASSUME IInv, NEW i \in Slots, Switch(i)
    PROVE  IInv'
<1>0. /\ ~panicked /\ trap = "none" /\ trap' = trap /\ claimed' = claimed
      /\ plic' \in PlicState /\ plic'.in_service = plic.in_service
  BY Executing DEF IInv, Switch
<1>1. TypeOK'
  BY <1>0 DEF IInv, Switch, Goto, devices, TypeOK
<1>2. Standing'
  BY <1>0 DEF IInv, Switch, At, Goto, TypeOK, Standing
<1>3. Gate'
  BY <1>0 DEF IInv, Switch, At, Goto, TypeOK, Standing, Gate
<1>4. Waiting'
  BY <1>0 DEF IInv, Switch, At, Goto, TypeOK, Standing, Waiting
<1>5. Armed'
  BY <1>0 DEF IInv, Switch, At, Goto, devices, TypeOK, Standing, Armed, Coming
<1>. QED
  BY <1>1, <1>2, <1>3, <1>4, <1>5 DEF IInv

(* The scheduler hands the CPU to a RUNNABLE task.                        *)
LEMMA DispatchStep ==
    ASSUME IInv, Dispatch
    PROVE  IInv'
<1>0. /\ ~panicked /\ trap = "none" /\ trap' = trap /\ claimed' = claimed
      /\ plic' \in PlicState /\ plic'.in_service = plic.in_service
  BY Executing DEF IInv, Dispatch
<1>1. TypeOK'
  BY <1>0 DEF IInv, Dispatch, Goto, devices, TypeOK
<1>2. Standing'
  BY <1>0 DEF IInv, Dispatch, At, Goto, TypeOK, Standing
<1>3. Gate'
  BY <1>0 DEF IInv, Dispatch, At, Goto, TypeOK, Standing, Gate
<1>4. Waiting'
  BY <1>0 DEF IInv, Dispatch, At, Goto, TypeOK, Standing, Waiting
<1>5. Armed'
  BY <1>0 DEF IInv, Dispatch, At, Goto, devices, TypeOK, Standing, Armed, Coming
<1>. QED
  BY <1>1, <1>2, <1>3, <1>4, <1>5 DEF IInv

(* A trap is taken only with interrupts on, so never inside wait's mask.  *)
LEMMA EnterTrapStep ==
    ASSUME IInv, EnterTrap
    PROVE  IInv'
<1>1. TypeOK'
  BY Sampling DEF IInv, EnterTrap, devices, taskvars, TypeOK
<1>2. Standing'
  BY Sampling DEF IInv, EnterTrap, taskvars, Standing
<1>3. Gate'
  BY Sampling DEF IInv, EnterTrap, taskvars, Gate
<1>4. Waiting'
  BY Sampling DEF IInv, EnterTrap, taskvars, Waiting
<1>5. Armed'
  BY Sampling DEF IInv, EnterTrap, devices, taskvars, Armed, Coming, Predicate
<1>. QED
  BY <1>1, <1>2, <1>3, <1>4, <1>5 DEF IInv

(* At most one source is claimed, and its device still holds the event.   *)
LEMMA ClaimStep ==
    ASSUME IInv, Claim
    PROVE  IInv'
<1>0. \/ trap' = "none" /\ claimed' = 0 /\ mie' = TRUE /\ plic'.in_service = {}
      \/ /\ trap' = "service" /\ claimed' \in Asserted /\ mie' = mie
         /\ plic'.in_service = {claimed'}
  <2>1. Sampled \in PlicState /\ Sampled.in_service = {} /\ plic_select(Sampled) \subseteq Asserted
    BY Sampling DEF IInv, Gate, Claim
  <2>2. plic'.in_service = plic_select(Sampled)
    BY <2>1 DEF Claim, plic_claim, PlicState
  <2>3. CASE plic_select(Sampled) = {}
    BY <2>2, <2>3 DEF Claim, LeaveTrap
  <2>4. CASE plic_select(Sampled) # {}
    <3>1. claimed' \in plic_select(Sampled) /\ trap' = "service" /\ mie' = mie
      BY <2>4 DEF Claim
    <3>2. plic_select(Sampled) = {claimed'}
      BY <2>1, <3>1, OneSelected
    <3>. QED
      BY <2>1, <2>2, <3>1, <3>2
  <2>. QED
    BY <2>3, <2>4
<1>p. plic' \in PlicState
  <2>1. Sampled \in PlicState /\ plic_select(Sampled) \subseteq Sources
    BY Sampling DEF IInv, plic_select, PlicState
  <2>2. plic' = [Sampled EXCEPT !.pending = @ \ plic_select(Sampled),
                                !.in_service = @ \cup plic_select(Sampled)]
    BY DEF Claim, plic_claim
  <2>. QED
    BY <2>1, <2>2 DEF PlicState
<1>a. Asserted \subseteq Events /\ (UART \in Asserted => items[UART] > 0)
  BY DEF Asserted, uart_pending
<1>c. UNCHANGED <<taskvars, devices, panicked>> /\ trap = "claim"
  BY DEF Claim
<1>1. TypeOK'
  BY <1>0, <1>p, <1>a, <1>c DEF IInv, devices, taskvars, TypeOK
<1>2. Standing'
  BY <1>0, <1>p, <1>a, <1>c DEF IInv, taskvars, Standing
<1>3. Gate'
  <2>1. ~mie /\ ~panicked /\ (current # N => pc[current] \notin {"register", "restore"})
    BY <1>c DEF IInv, Gate, Waiting
  <2>2. UNCHANGED <<panicked, current, pc>>
    BY <1>c DEF taskvars
  <2>3. CASE trap' = "none" /\ claimed' = 0 /\ mie' = TRUE /\ plic'.in_service = {}
    BY <2>1, <2>2, <2>3 DEF Gate
  <2>4. CASE /\ trap' = "service" /\ claimed' \in Asserted /\ mie' = mie
             /\ plic'.in_service = {claimed'}
    <3>1. claimed' \in Events /\ ~mie'
      BY <1>a, <2>1, <2>4
    <3>. QED
      BY <2>1, <2>2, <2>4, <3>1 DEF Gate
  <2>. QED
    BY <1>0, <2>3, <2>4
<1>4. Waiting'
  BY <1>0, <1>p, <1>a, <1>c DEF IInv, taskvars, Waiting
<1>5. Armed'
  BY <1>0, <1>p, <1>a, <1>c DEF IInv, devices, taskvars, Armed, Coming,
     Predicate
<1>. QED
  BY <1>1, <1>2, <1>3, <1>4, <1>5 DEF IInv

(* Withdrawing the line moves the promise from the line to the handler.   *)
LEMMA ServiceStep ==
    ASSUME IInv, Service
    PROVE  IInv'
<1>1. TypeOK'
  BY Sampling DEF IInv, Service, taskvars, TypeOK
<1>2. Standing'
  BY Sampling DEF IInv, Service, taskvars, Standing
<1>3. Gate'
  BY Sampling DEF IInv, Service, taskvars, Gate
<1>4. Waiting'
  BY Sampling DEF IInv, Service, taskvars, Waiting
<1>5. Armed'
  BY Sampling DEF IInv, Service, taskvars, Gate, Armed, Coming, Predicate
<1>. QED
  BY <1>1, <1>2, <1>3, <1>4, <1>5 DEF IInv

(* The waiter is RUNNABLE and its slot empty.                             *)
LEMMA WakeStep ==
    ASSUME IInv, Wake
    PROVE  IInv'
<1>s. /\ state' \in [Slots -> {"UNUSED", "RUNNABLE", "RUNNING", "BLOCKED"}]
      /\ \A i \in Slots : state'[i] = IF i = waiters[claimed] /\ state[i] = "BLOCKED"
                                     THEN "RUNNABLE" ELSE state[i]
  BY DEF IInv, TypeOK, Wake
<1>c. /\ trap = "wake" /\ trap' = "complete" /\ plic' = Sampled
      /\ waiters' = [waiters EXCEPT ![claimed] = Sched]
      /\ UNCHANGED <<current, sched_cursor, pc, event, scan, next, mie, claimed,
                     devices, panicked>>
  BY DEF Wake
<1>1. TypeOK'
  BY Sampling, <1>s, <1>c DEF IInv, devices, TypeOK, Gate
<1>2. Standing'
  BY Sampling, <1>s, <1>c DEF IInv, TypeOK, Gate, Standing
<1>3. Gate'
  BY Sampling, <1>s, <1>c DEF IInv, Gate
<1>4. Waiting'
  BY Sampling, <1>s, <1>c DEF IInv, TypeOK, Gate, Waiting
<1>5. Armed'
  BY Sampling, <1>s, <1>c DEF IInv, devices, TypeOK, Armed, Coming, Predicate
<1>. QED
  BY <1>1, <1>2, <1>3, <1>4, <1>5 DEF IInv

(* Completing opens the PLIC again when nobody waits for the source.      *)
LEMMA CompleteStep ==
    ASSUME IInv, Complete
    PROVE  IInv'
<1>1. TypeOK'
  BY Sampling DEF IInv, Complete, devices, taskvars, LeaveTrap, plic_complete,
     PlicState, TypeOK
<1>2. Standing'
  BY Sampling DEF IInv, Complete, taskvars, LeaveTrap, plic_complete,
     PlicState, Standing
<1>3. Gate'
  BY Sampling DEF IInv, Complete, taskvars, LeaveTrap, plic_complete,
     PlicState, Gate
<1>4. Waiting'
  BY Sampling DEF IInv, Complete, taskvars, LeaveTrap, plic_complete,
     PlicState, Waiting
<1>5. Armed'
  BY Sampling DEF IInv, Complete, devices, taskvars, LeaveTrap, plic_complete,
     PlicState, Armed, Coming, Predicate
<1>. QED
  BY <1>1, <1>2, <1>3, <1>4, <1>5 DEF IInv

(* A response raises the latch in the same step.                          *)
LEMMA PublishStep ==
    ASSUME IInv, Publish
    PROVE  IInv'
<1>1. TypeOK'
  BY DEF IInv, Publish, taskvars, trapvars, TypeOK
<1>2. Standing'
  BY DEF IInv, Publish, taskvars, trapvars, Standing
<1>3. Gate'
  BY DEF IInv, Publish, taskvars, trapvars, Gate
<1>4. Waiting'
  BY DEF IInv, Publish, taskvars, trapvars, Waiting
<1>5. Armed'
  BY DEF IInv, Publish, taskvars, trapvars, Armed, Coming, Predicate
<1>. QED
  BY <1>1, <1>2, <1>3, <1>4, <1>5 DEF IInv

(* A byte arrives on an armed UART, or on one nobody waits for.           *)
LEMMA PushRxStep ==
    ASSUME IInv, PushRx
    PROVE  IInv'
<1>1. TypeOK'
  BY DEF IInv, PushRx, taskvars, trapvars, TypeOK
<1>2. Standing'
  BY DEF IInv, PushRx, taskvars, trapvars, Standing
<1>3. Gate'
  BY DEF IInv, PushRx, taskvars, trapvars, Gate
<1>4. Waiting'
  BY DEF IInv, PushRx, taskvars, trapvars, Waiting
<1>5. Armed'
  BY DEF IInv, PushRx, taskvars, trapvars, Armed, Coming, Predicate
<1>. QED
  BY <1>1, <1>2, <1>3, <1>4, <1>5 DEF IInv

(* A terminal that leaves takes its byte away, and makes the predicate true.*)
LEMMA DisconnectStep ==
    ASSUME IInv, Disconnect
    PROVE  IInv'
<1>1. TypeOK'
  BY DEF IInv, Disconnect, taskvars, trapvars, TypeOK
<1>2. Standing'
  BY DEF IInv, Disconnect, taskvars, trapvars, Standing
<1>3. Gate'
  BY DEF IInv, Disconnect, taskvars, trapvars, Gate
<1>4. Waiting'
  BY DEF IInv, Disconnect, taskvars, trapvars, Waiting
<1>5. Armed'
  BY DEF IInv, Disconnect, taskvars, trapvars, Armed, Coming, Predicate
<1>. QED
  BY <1>1, <1>2, <1>3, <1>4, <1>5 DEF IInv

(* A step that changes no variable.                                       *)
LEMMA StutterStep ==
    ASSUME IInv, UNCHANGED vars
    PROVE  IInv'
BY DEF vars, taskvars, trapvars, devices, IInv, TypeOK, Standing, Gate, Waiting,
       Armed, Coming, Predicate

(* Every step of the tasks, the scheduler, the trap handler and the host  *)
(* preserves it.                                                          *)
LEMMA Inductive == IInv /\ [Next]_vars => IInv'
<1>. SUFFICES ASSUME IInv, [Next]_vars PROVE IInv'
  OBVIOUS
<1>1. CASE Handler
  BY <1>1, EnterTrapStep, ClaimStep, ServiceStep, WakeStep, CompleteStep DEF
     Handler
<1>2. CASE Scheduler
  <2>1. Sched \in 0 .. N
    OBVIOUS
  <2>. QED
    BY <1>2, <2>1, ScanStep, DispatchStep DEF Scheduler
<1>3. CASE Host
  BY <1>3, PublishStep, PushRxStep, DisconnectStep DEF Host
<1>4. ASSUME NEW i \in Slots, TaskStep(i) PROVE IInv'
  <2>1. i \in 0 .. N
    OBVIOUS
  <2>2. CASE Spawn(i) \/ LeaveReader(i) \/ Yield(i) \/ Exit(i)
    BY <2>2, SpawnStep, LeaveReaderStep, YieldStep, ExitStep
  <2>3. CASE \E e \in Events : Take(i, e) \/ CallWait(i, e)
    BY <2>3, TakeStep, CallWaitStep
  <2>4. CASE Ask(i) \/ Register(i) \/ Restore(i) \/ Scan(i) \/ Switch(i)
    BY <2>1, <2>4, AskStep, RegisterStep, RestoreStep, ScanStep, SwitchStep
  <2>. QED
    BY <1>4, <2>2, <2>3, <2>4 DEF TaskStep
<1>5. CASE UNCHANGED vars
  BY <1>5, StutterStep
<1>. QED
  BY <1>1, <1>2, <1>3, <1>4, <1>5 DEF Next

(* It holds in every reachable state.                                     *)
THEOREM Invariance == Spec => []IInv
BY Initially, Inductive, PTL DEF Spec

-----------------------------------------------------------------------------
(* The variables keep their types, for every number of slots.               *)
THEOREM TypeCorrect == Spec => []TypeOK
<1>1. IInv => TypeOK
  BY DEF IInv
<1>. QED
  BY <1>1, Invariance, PTL

(* yield, wait, exit and the scheduler never leave two tasks RUNNING, nor a  *)
(* task that executes in any other state.                                  *)
THEOREM OneRunningHolds == Spec => []OneRunning
<1>1. IInv => OneRunning
  BY DEF IInv, Standing, OneRunning
<1>. QED
  BY <1>1, Invariance, PTL

(* The waiter table and the task states agree.                              *)
THEOREM WaitersAreBlockedHolds == Spec => []WaitersAreBlocked
<1>1. IInv => WaitersAreBlocked
  BY DEF IInv, Waiting, WaitersAreBlocked
<1>. QED
  BY <1>1, Invariance, PTL

(* The predicate and the registration under one mask, and the level-type     *)
(* interrupt, lose no wake-up: Armed carries the event from the predicate to *)
(* the registration, Gate says that the PLIC holds nothing else closed.     *)
THEOREM NoLostWakeupHolds == Spec => []NoLostWakeup
<1>1. ASSUME IInv, NEW e \in Events, waiters[e] # Sched, items[e] > 0
      PROVE  \/ e \in Asserted /\ e \notin plic.in_service
             \/ claimed = e /\ trap \in {"service", "wake"}
  <2>1. CASE claimed = e /\ trap = "wake"
    BY <2>1
  <2>2. CASE Coming(e) /\ (e = UART => rx_irq)
    <3>1. e \in Asserted
      BY <1>1, <2>2 DEF Coming, Asserted, transport_pending, uart_pending
    <3>2. e \in plic.in_service => claimed = e /\ trap \in {"service", "wake"}
      BY <1>1 DEF IInv, TypeOK, Gate, Waiting
    <3>. QED
      BY <3>1, <3>2
  <2>. QED
    BY <1>1, <2>1, <2>2 DEF IInv, Armed
<1>2. IInv => NoLostWakeup
  BY <1>1 DEF NoLostWakeup
<1>. QED
  BY <1>2, Invariance, PTL

(* Interrupts are masked in the trap handler and in wait's critical section  *)
(* and nowhere else.                                                       *)
THEOREM MaskedOnlyBrieflyHolds == Spec => []MaskedOnlyBriefly
<1>1. IInv => MaskedOnlyBriefly
  BY DEF IInv, Gate, MaskedOnlyBriefly
<1>. QED
  BY <1>1, Invariance, PTL

(* With one reader per event WAITER_EXISTS is never reported.               *)
THEOREM NoPanicHolds == Spec => []NoPanic
<1>1. IInv => NoPanic
  BY DEF IInv, Waiting, NoPanic
<1>. QED
  BY <1>1, Invariance, PTL
===============================================================================
