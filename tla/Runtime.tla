------------------------------- MODULE Runtime -------------------------------
(***************************************************************************)
(* The cooperative runtime (os/task.c) on its machine: task slots, the      *)
(* round-robin scheduler, yan_os_task_wait with one waiter per event, and   *)
(* the trap handler that claims an interrupt, withdraws the device's line,  *)
(* marks the waiter and completes.  The devices are the transport channel   *)
(* and the UART as far as their interrupt lines go.                         *)
(*                                                                         *)
(* There is one CPU.  Before every instruction the machine samples the      *)
(* device lines (yan_machine_step), and takes a pending interrupt if        *)
(* mstatus.MIE allows; the host acts between any two steps.                 *)
(***************************************************************************)
EXTENDS Plic, FiniteSets

CONSTANTS
    N,           \* task slots, YAN_OS_TASK_MAX
    Reader,      \* Reader[e]: the tasks whose code waits for event e
    MaxItems     \* responses the transport holds at most

TRANSPORT == 1   \* an event is its interrupt source
UART == 2
Events == {TRANSPORT, UART}
Slots == 0 .. (N - 1)
Sched == N       \* the scheduler's own context; also the NULL task

ASSUME RuntimeAssumption ==
    /\ N \in Nat \ {0} /\ MaxItems \in Nat \ {0}
    /\ Sources = Events
    /\ \A e \in Events : \A i, j \in Reader[e] : i = j
    /\ Reader \in [Events -> SUBSET Slots]

VARIABLES
    state,       \* tasks[i].state
    current,     \* the context that holds the CPU
    waiters,     \* waiters[e], or Sched for none
    sched_cursor,
    pc,          \* where each context stands in the runtime's code
    event,       \* the event a task's call of wait is about
    scan,        \* offset of the scan in yan_os_sched_pick
    next,        \* what the scan has found; Sched for NULL
    mie,         \* mstatus.MIE
    trap,        \* where the trap handler stands, "none" outside of it
    claimed,     \* the source it has claimed
    plic,
    items,       \* what each device holds for its reader
    latch,       \* transport IRQ_STATUS.H2G_DATA
    rx_irq,      \* UART CONTROL.RX_IRQ_ENABLE
    connected,   \* UART STATUS.CONNECTED
    panicked

taskvars == <<state, current, waiters, sched_cursor, pc, event, scan, next>>
trapvars == <<trap, claimed>>
devices == <<items, latch, rx_irq, connected>>
vars == <<taskvars, trapvars, mie, plic, devices, panicked>>

-----------------------------------------------------------------------------
(* Device lines and predicates.                                            *)

transport_pending == latch
uart_pending == items[UART] > 0 /\ rx_irq
Asserted == {s \in Sources : IF s = UART THEN uart_pending ELSE transport_pending}

(* yan_machine_sample_devices, in front of every instruction.              *)
Sampled == plic_set_level(plic, Asserted)

(* The CPU executes an instruction only when no interrupt is to be taken.   *)
Executes ==
    /\ ~panicked /\ trap = "none"
    /\ ~(mie /\ plic_pending(Sampled))
    /\ plic' = Sampled
    /\ UNCHANGED trapvars

(* response_ready, and line_predicate.                                     *)
Predicate(e) == items[e] > 0 \/ (e = UART /\ ~connected)

At(c, where) == current = c /\ pc[c] = where
Goto(c, where) == pc' = [pc EXCEPT ![c] = where]

-----------------------------------------------------------------------------
Init ==
    /\ \E spawned \in SUBSET Slots \ {{}} :
          state = [i \in Slots |-> IF i \in spawned THEN "RUNNABLE" ELSE "UNUSED"]
    /\ current = Sched
    /\ waiters = [e \in Events |-> Sched]
    /\ sched_cursor = N - 1
    /\ pc = [c \in 0 .. N |-> IF c = Sched THEN "pick" ELSE "user"]
    /\ event = [i \in Slots |-> TRANSPORT]
    /\ scan = 1
    /\ next = Sched
    /\ mie = TRUE
    /\ trap = "none"
    /\ claimed = 0
    /\ plic = PlicReset
    /\ items = [e \in Events |-> 0]
    /\ latch = FALSE
    /\ rx_irq = TRUE
    /\ connected = TRUE
    /\ panicked = FALSE

-----------------------------------------------------------------------------
(* A task's own code: it spawns, takes what a device holds, arms the UART    *)
(* before it waits for it, and calls wait, yield and exit.                  *)

Spawn(i) ==
    /\ At(i, "user") /\ Executes
    /\ \E slot \in Slots :
          /\ state[slot] = "UNUSED"
          /\ \A s \in Slots : s < slot => state[s] # "UNUSED"
          /\ state' = [state EXCEPT ![slot] = "RUNNABLE"]
          /\ Goto(slot, "user")
    /\ UNCHANGED <<current, waiters, sched_cursor, event, scan, next, mie,
                   devices, panicked>>

(* The reader of the UART masks the interrupt before it takes the byte and  *)
(* arms it again afterwards.                                               *)
Take(i, e) ==
    /\ At(i, "user") /\ Executes
    /\ i \in Reader[e] /\ items[e] > 0
    /\ items' = [items EXCEPT ![e] = @ - 1]
    /\ rx_irq' = (rx_irq \/ e = UART)
    /\ UNCHANGED <<taskvars, mie, latch, connected, panicked>>

(* yan_line_next returns: the route is masked.                              *)
LeaveReader(i) ==
    /\ At(i, "user") /\ Executes
    /\ i \in Reader[UART]
    /\ rx_irq' = FALSE
    /\ UNCHANGED <<taskvars, mie, items, latch, connected, panicked>>

(* Nothing to take: the UART is armed, then the task calls wait.             *)
CallWait(i, e) ==
    /\ At(i, "user") /\ Executes
    /\ i \in Reader[e]
    /\ e = UART => connected
    /\ items[e] = 0
    /\ event' = [event EXCEPT ![i] = e]
    /\ rx_irq' = (rx_irq \/ e = UART)
    /\ Goto(i, "ask")
    /\ UNCHANGED <<state, current, waiters, sched_cursor, scan, next, mie,
                   items, latch, connected, panicked>>

(* wait, steps 1 and 2: interrupts off, then the predicate.                  *)
AskUnmasked(i) ==                    \* mutant: interrupts stay on
    /\ At(i, "ask") /\ Executes
    /\ IF Predicate(event[i])
       THEN Goto(i, "user") /\ UNCHANGED panicked
       ELSE IF waiters[event[i]] # Sched
       THEN panicked' = TRUE /\ UNCHANGED pc
       ELSE Goto(i, "register") /\ UNCHANGED panicked
    /\ UNCHANGED <<mie, state, current, waiters, sched_cursor, event, scan,
                   next, devices>>

Ask(i) ==
    /\ At(i, "ask") /\ Executes
    /\ IF Predicate(event[i])
       THEN Goto(i, "user") /\ UNCHANGED <<mie, panicked>>
       ELSE IF waiters[event[i]] # Sched
       THEN panicked' = TRUE /\ mie' = FALSE /\ UNCHANGED pc
       ELSE mie' = FALSE /\ Goto(i, "register") /\ UNCHANGED panicked
    /\ UNCHANGED <<state, current, waiters, sched_cursor, event, scan, next,
                   devices>>

(* Steps 4 and 5.                                                          *)
RegisterRunning(i) ==                \* mutant: the task is not marked
    /\ At(i, "register") /\ Executes
    /\ waiters' = [waiters EXCEPT ![event[i]] = i]
    /\ Goto(i, "restore")
    /\ UNCHANGED <<state, current, sched_cursor, event, scan, next, mie,
                   devices, panicked>>

Register(i) ==
    /\ At(i, "register") /\ Executes
    /\ waiters' = [waiters EXCEPT ![event[i]] = i]
    /\ state' = [state EXCEPT ![i] = "BLOCKED"]
    /\ Goto(i, "restore")
    /\ UNCHANGED <<current, sched_cursor, event, scan, next, mie, devices,
                   panicked>>

(* Step 6; the scan for another task follows.                              *)
Restore(i) ==
    /\ At(i, "restore") /\ Executes
    /\ mie' = TRUE
    /\ scan' = 1
    /\ Goto(i, "pick")
    /\ UNCHANGED <<state, current, waiters, sched_cursor, event, next, devices,
                   panicked>>

Yield(i) ==
    /\ At(i, "user") /\ Executes
    /\ state' = [state EXCEPT ![i] = "RUNNABLE"]
    /\ scan' = 1
    /\ Goto(i, "pick")
    /\ UNCHANGED <<current, waiters, sched_cursor, event, next, mie, devices,
                   panicked>>

(* The slot is free and the CPU goes to the scheduler.                      *)
Exit(i) ==
    /\ At(i, "user") /\ Executes
    /\ state' = [state EXCEPT ![i] = "UNUSED"]
    /\ current' = Sched
    /\ scan' = 1
    /\ UNCHANGED <<waiters, sched_cursor, pc, event, next, mie, devices, panicked>>

-----------------------------------------------------------------------------
(* yan_os_sched_pick, one slot at a time: interrupts are on, so that a mark *)
(* may land in the middle of the scan.                                     *)
SlotFromZero(offset) == offset - 1   \* mutant: every scan starts at slot 0
slot_after(offset) == (sched_cursor + offset) % N

Scan(c) ==
    /\ At(c, "pick") /\ Executes
    /\ LET index == slot_after(scan)
       IN  \/ /\ scan <= N /\ state[index] = "RUNNABLE"
              /\ sched_cursor' = index
              /\ next' = index
              /\ Goto(c, "switch")
              /\ UNCHANGED scan
           \/ /\ scan <= N /\ state[index] # "RUNNABLE"
              /\ scan' = scan + 1
              /\ UNCHANGED <<sched_cursor, next, pc>>
           \/ /\ scan > N
              /\ next' = Sched
              /\ Goto(c, "switch")
              /\ UNCHANGED <<sched_cursor, scan>>
    /\ UNCHANGED <<state, current, waiters, event, mie, devices, panicked>>

(* The end of yan_os_sched_reschedule: the task goes on, or hands the CPU   *)
(* to the next task or, when none can run, to the scheduler.                *)
Switch(i) ==
    /\ i # Sched
    /\ At(i, "switch") /\ Executes
    /\ Goto(i, "user")
    /\ current' = next
    /\ state' = IF next = Sched THEN state ELSE [state EXCEPT ![next] = "RUNNING"]
    /\ scan' = 1
    /\ UNCHANGED <<waiters, sched_cursor, event, next, mie, devices, panicked>>

(* The loop of yan_os_sched_run.                                           *)
Dispatch ==
    /\ At(Sched, "switch") /\ Executes
    /\ Goto(Sched, "pick")
    /\ current' = next
    /\ state' = IF next = Sched THEN state ELSE [state EXCEPT ![next] = "RUNNING"]
    /\ scan' = 1
    /\ UNCHANGED <<waiters, sched_cursor, event, next, mie, devices, panicked>>

-----------------------------------------------------------------------------
(* The trap handler.  It runs with interrupts off; the CPU has cleared MIE.  *)

EnterTrap ==
    /\ ~panicked /\ trap = "none"
    /\ mie /\ plic_pending(Sampled)
    /\ mie' = FALSE
    /\ trap' = "claim"
    /\ plic' = Sampled
    /\ UNCHANGED <<taskvars, claimed, devices, panicked>>

LeaveTrap ==
    /\ mie' = TRUE
    /\ trap' = "none"
    /\ claimed' = 0

(* Zero: what raised MEIP is gone, because the terminal has left.           *)
Claim ==
    /\ trap = "claim"
    /\ plic' = plic_claim(Sampled)
    /\ \/ /\ plic_select(Sampled) = {}
          /\ LeaveTrap
       \/ /\ plic_select(Sampled) # {}
          /\ claimed' \in plic_select(Sampled)
          /\ trap' = "service"
          /\ UNCHANGED mie
    /\ UNCHANGED <<taskvars, devices, panicked>>

(* The device condition is withdrawn before anything else.                  *)
Service ==
    /\ trap = "service"
    /\ plic' = Sampled
    /\ trap' = "wake"
    /\ latch' = (latch /\ claimed # TRANSPORT)
    /\ rx_irq' = (rx_irq /\ claimed # UART)
    /\ UNCHANGED <<taskvars, mie, claimed, items, connected, panicked>>

(* yan_os_wake: empty the slot and mark the task.                           *)
Wake ==
    /\ trap = "wake"
    /\ plic' = Sampled
    /\ trap' = "complete"
    /\ waiters' = [waiters EXCEPT ![claimed] = Sched]
    /\ state' = [i \in Slots |-> IF i = waiters[claimed] /\ state[i] = "BLOCKED"
                                 THEN "RUNNABLE" ELSE state[i]]
    /\ UNCHANGED <<current, sched_cursor, pc, event, scan, next, mie, claimed,
                   devices, panicked>>

Complete ==
    /\ trap = "complete"
    /\ plic' = plic_complete(Sampled, claimed)
    /\ LeaveTrap
    /\ UNCHANGED <<taskvars, devices, panicked>>

-----------------------------------------------------------------------------
(* The host, between two steps of the machine.                             *)

Publish ==
    /\ items[TRANSPORT] < MaxItems
    /\ items' = [items EXCEPT ![TRANSPORT] = @ + 1]
    /\ latch' = TRUE
    /\ UNCHANGED <<taskvars, trapvars, mie, plic, rx_irq, connected, panicked>>

(* The receiver holds one byte; a second one is refused.                    *)
PushRx ==
    /\ connected /\ items[UART] = 0
    /\ items' = [items EXCEPT ![UART] = 1]
    /\ UNCHANGED <<taskvars, trapvars, mie, plic, latch, rx_irq, connected,
                   panicked>>

(* The terminal leaves and takes the unread byte with it.                   *)
Disconnect ==
    /\ connected
    /\ connected' = FALSE
    /\ items' = [items EXCEPT ![UART] = 0]
    /\ UNCHANGED <<taskvars, trapvars, mie, plic, latch, rx_irq, panicked>>

-----------------------------------------------------------------------------
TaskStep(i) ==
    \/ Spawn(i) \/ LeaveReader(i) \/ Yield(i) \/ Exit(i)
    \/ \E e \in Events : Take(i, e) \/ CallWait(i, e)
    \/ Ask(i) \/ Register(i) \/ Restore(i) \/ Scan(i) \/ Switch(i)

Handler == EnterTrap \/ Claim \/ Service \/ Wake \/ Complete
Scheduler == Scan(Sched) \/ Dispatch
Host == Publish \/ PushRx \/ Disconnect

Next == Handler \/ Scheduler \/ Host \/ \E i \in Slots : TaskStep(i)

Spec == Init /\ [][Next]_vars

(* The CPU never stops, and a task is cooperative: however often it is       *)
(* interrupted, it comes to block, to yield or to exit.  A wait that finds  *)
(* its predicate true returns at once and does not count.                  *)
Release(i) == Yield(i) \/ Exit(i) \/ Register(i)
InRuntime(i) == Ask(i) \/ Register(i) \/ Restore(i) \/ Scan(i) \/ Switch(i)
Fairness ==
    /\ WF_vars(Handler)
    /\ WF_vars(Scheduler)
    /\ \A i \in Slots : WF_vars(InRuntime(i)) /\ SF_vars(Release(i))
FairSpec == Spec /\ Fairness

-----------------------------------------------------------------------------
TypeOK ==
    /\ state \in [Slots -> {"UNUSED", "RUNNABLE", "RUNNING", "BLOCKED"}]
    /\ current \in 0 .. N
    /\ waiters \in [Events -> 0 .. N]
    /\ sched_cursor \in Slots
    /\ pc \in [0 .. N -> {"user", "ask", "register", "restore", "pick", "switch"}]
    /\ event \in [Slots -> Events]
    /\ scan \in 1 .. (N + 1)
    /\ next \in 0 .. N
    /\ mie \in BOOLEAN
    /\ trap \in {"none", "claim", "service", "wake", "complete"}
    /\ claimed \in Events \cup {0}
    /\ plic \in PlicState
    /\ items \in [Events -> Nat]
    /\ latch \in BOOLEAN /\ rx_irq \in BOOLEAN /\ connected \in BOOLEAN
    /\ panicked \in BOOLEAN

-----------------------------------------------------------------------------
(* Properties.                                                             *)

(* At most one task is RUNNING and it is the one that holds the CPU; a task *)
(* that runs its own code is RUNNING, whichever of yield, wait, exit or an  *)
(* interrupt in the middle of a switch brought it there.                   *)
OneRunning ==
    /\ \A i \in Slots : state[i] = "RUNNING" => current = i
    /\ current # Sched /\ pc[current] \in {"user", "ask", "register"}
          => state[current] = "RUNNING"

(* A task is BLOCKED exactly while it is the registered waiter of the event *)
(* it waits for: none is BLOCKED with nobody to wake it, and no slot of the *)
(* waiter table names a task that has gone on, ended or been reused.        *)
WaitersAreBlocked ==
    /\ \A e \in Events : waiters[e] # Sched =>
          state[waiters[e]] = "BLOCKED" /\ event[waiters[e]] = e
    /\ \A i \in Slots : state[i] = "BLOCKED" => waiters[event[i]] = i

(* Whatever the interleaving of the predicate, the registration, the        *)
(* interrupt and the host, an event that has happened reaches its waiter:   *)
(* its interrupt is requested and not held closed by the PLIC, or the trap  *)
(* handler is about to wake it.                                            *)
NoLostWakeup ==
    \A e \in Events : waiters[e] # Sched /\ items[e] > 0 =>
        \/ e \in Asserted /\ e \notin plic.in_service
        \/ claimed = e /\ trap \in {"service", "wake"}

(* Interrupts are off exactly in the trap handler and between the predicate *)
(* and the registration of a wait; every task is entered with them on.      *)
MaskedOnlyBriefly ==
    ~mie <=> \/ panicked \/ trap # "none"
             \/ current # Sched /\ pc[current] \in {"register", "restore"}

(* One task per event never makes the runtime give up with WAITER_EXISTS,   *)
(* however its waits, wake-ups and exits interleave with its successors'.   *)
NoPanic == ~panicked

(* What a blocked task waits for wakes it, unless it is taken away again.   *)
WaiterWakes ==
    \A e \in Events :
        waiters[e] # Sched /\ items[e] > 0 ~> waiters[e] = Sched \/ items[e] = 0

(* Round robin: a task that can run does run.                               *)
RunnableRuns ==
    \A i \in Slots : state[i] = "RUNNABLE" ~> state[i] = "RUNNING"

=============================================================================
