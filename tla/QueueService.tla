----------------------------- MODULE QueueService -----------------------------
(***************************************************************************)
(* How a chain gets from a driver to a device and back (mmio.rs, poll.rs,  *)
(* bus.rs).  The transport's lock is held by one of three threads: a vCPU  *)
(* that trapped on a register, the queue poller, or a host thread that has *)
(* finished a request.  The guest shares only memory with the holder, so   *)
(* its steps fall between any two accesses of the rings; the interrupt     *)
(* status and line are changed outside the lock as well.                   *)
(*                                                                         *)
(* Poller times are left out: a watch may end whether or not the ring was  *)
(* quiet, and QueueSignal, its hint, only says when to look.               *)
(***************************************************************************)
EXTENDS Virtqueue

CONSTANTS
    Loads    \* the workloads a behaviour may start with

VARIABLES
    load,      \* [layout, start, queues, chains, slots, early, polled, deferred, resets]
    mem,       \* the rings of each queue, in guest memory
    queues,    \* VirtioMmio::queues
    device,    \* [activated, early_kicks]
    held,      \* the holder of the transport lock and where it is
    irq,       \* [status, line]
    poller,    \* [at, pending]
    driver,    \* each queue's driver half (external)
    cpu,       \* the vCPU that submits (external)
    handler    \* the vCPU that takes the interrupt (external)

vars == <<load, mem, queues, device, held, irq, poller, driver, cpu, handler>>

Queues == 0 .. load.queues - 1
First == 0

Free == [by |-> "none", at |-> "Idle", todo |-> {}, polling |-> FALSE, q |-> 0, i |-> 0,
         looking |-> FALSE, taken |-> 0, moved |-> FALSE, serviced |-> {}, wants |-> FALSE]

Unlocked == held.by = "none"

Init ==
    /\ load \in Loads
    /\ mem = [i \in Queues |-> NewRings]
    /\ queues = [i \in Queues |-> NewQueue]
    /\ device = [activated |-> FALSE, early_kicks |-> {}]
    /\ held = Free
    /\ irq = [status |-> FALSE, line |-> FALSE]
    /\ poller = [at |-> "Parked", pending |-> FALSE]
    /\ driver = [i \in Queues |-> NewDriver]
    /\ cpu = [at |-> "Idle", q |-> 0, left |-> [i \in Queues |-> load.chains], resets |-> load.resets]
    /\ handler = [at |-> "Idle", i |-> 0]
-------------------------------------------------------------------------------
(* The registers.                                                          *)

\* write_register of DRIVER_FEATURES, the geometry and QUEUE_READY.  A split
\* ring may be joined when load.start chains have come and gone.
Setup ==
    /\ Unlocked /\ cpu.at = "Idle" /\ ~queues[First].ready
    /\ queues' = [i \in Queues |->
          [NewQueue EXCEPT !.layout = load.layout, !.ready = TRUE, !.next_avail = load.start,
                           !.next_used = load.start, !.signalled_used = load.start]]
    /\ mem' = [i \in Queues |->
          [NewRings EXCEPT !.avail_idx = load.start, !.used_idx = load.start,
                           !.avail_event = load.start, !.used_event = load.start]]
    /\ driver' = [i \in Queues |->
          [NewDriver EXCEPT !.next_avail = load.start, !.last_used = load.start]]
    /\ UNCHANGED <<load, device, held, irq, poller, cpu, handler>>

\* set_status with DRIVER_OK: activate, then service the kicks that came early.
SetDriverOk ==
    /\ Unlocked /\ cpu.at = "Idle" /\ queues[First].ready /\ ~device.activated
    /\ device' = [activated |-> TRUE, early_kicks |-> {}]
    /\ held' = [Free EXCEPT !.by = "cpu", !.at = "Next", !.todo = device.early_kicks]
    /\ UNCHANGED <<load, mem, queues, irq, poller, driver, cpu, handler>>

\* set_status with 0, by a driver that has its buffers back, and the rings it
\* lays out afresh.
Reset ==
    /\ Unlocked /\ cpu.at = "Idle" /\ handler.at = "Idle" /\ device.activated /\ cpu.resets > 0
    /\ \A i \in Queues : driver[i].free = Ids
    /\ queues' = [i \in Queues |-> NewQueue]
    /\ device' = [activated |-> FALSE, early_kicks |-> {}]
    /\ irq' = [status |-> FALSE, line |-> FALSE]
    /\ mem' = [i \in Queues |-> NewRings]
    /\ driver' = [i \in Queues |-> NewDriver]
    /\ cpu' = [cpu EXCEPT !.resets = @ - 1]
    /\ UNCHANGED <<load, held, poller, handler>>

\* write_register of QUEUE_NOTIFY: the observer, then notify_queue.
QueueNotify ==
    /\ Unlocked /\ cpu.at = "Trap"
    /\ poller' = [poller EXCEPT !.pending = @ \/ load.polled]
    /\ held' = [Free EXCEPT !.by = "cpu", !.at = "Next", !.todo = {cpu.q}]
    /\ cpu' = [cpu EXCEPT !.at = "Idle"]
    /\ UNCHANGED <<load, mem, queues, device, irq, driver, handler>>

\* service_queue, by a host thread that has finished a request.
ServiceQueue(i) ==
    /\ Unlocked /\ load.deferred /\ queues[i].outstanding # {}
    /\ held' = [Free EXCEPT !.by = "host", !.at = "Next", !.todo = {i}]
    /\ UNCHANGED <<load, mem, queues, device, irq, poller, driver, cpu, handler>>
-------------------------------------------------------------------------------
(* notify_queue and finish_service, under the lock.                        *)

Smallest(S) == CHOOSE x \in S : \A y \in S : x <= y

\* notify_queue of the next queue; poll_queue skips one with nothing on it.
Notify ==
    /\ held.at = "Next" /\ held.todo # {}
    /\ LET i == Smallest(held.todo)
           h == [held EXCEPT !.todo = @ \ {i}]
       IN  IF held.polling /\ ~HasWork(queues[i], mem[i]) THEN held' = h /\ UNCHANGED device
           ELSE IF ~device.activated
           THEN held' = h /\ device' = [device EXCEPT !.early_kicks = @ \cup {i}]
           ELSE /\ held' = [h EXCEPT !.at = "Device", !.q = i, !.looking = FALSE, !.taken = 0,
                                     !.serviced = {}]
                /\ UNCHANGED device
    /\ UNCHANGED <<load, mem, queues, irq, poller, driver, cpu, handler>>

\* VirtioDevice::notify takes what is offered.
Take ==
    /\ held.at = "Device" /\ HasWork(queues[held.q], mem[held.q])
    /\ queues' = [queues EXCEPT ![held.q] = Pop(@, mem[held.q])]
    /\ held' = [held EXCEPT !.taken = @ + queues'[held.q].chain_len[Head(queues[held.q], mem[held.q])], !.moved = @ \/ held.looking]
    /\ UNCHANGED <<load, mem, device, irq, poller, driver, cpu, handler>>

\* It returns chains in any order, now or after a host thread has done the work.
Complete(id) ==
    /\ held.at = "Device" /\ id \in queues[held.q].outstanding
    /\ mem' = [mem EXCEPT ![held.q] = PushUsed(queues[held.q], @, id)]
    /\ queues' = [queues EXCEPT ![held.q] = Pushed(@, id)]
    /\ held' = [held EXCEPT !.serviced = @ \cup {held.q}]
    /\ UNCHANGED <<load, device, irq, poller, driver, cpu, handler>>

NextLook(h, i) ==
    IF i + 1 \in Queues THEN [h EXCEPT !.at = "Look", !.i = i + 1]
    ELSE IF h.moved THEN [h EXCEPT !.at = "Arm", !.i = First]
    ELSE IF h.serviced = {} THEN [h EXCEPT !.at = "Next"]
    ELSE [h EXCEPT !.at = "Ask", !.i = First, !.wants = FALSE]

\* It returns once it sees no more.  A host thread came with a request finished.
DeviceReturns ==
    /\ held.at = "Device" /\ ~HasWork(queues[held.q], mem[held.q])
    /\ \/ queues[held.q].outstanding = {}
       \/ load.deferred /\ (held.by = "host" => held.serviced # {})
    /\ held' = IF held.looking THEN NextLook(held, held.i)
               ELSE [held EXCEPT !.at = "Arm", !.i = First]
    /\ UNCHANGED <<load, mem, queues, device, irq, poller, driver, cpu, handler>>

\* Mutant: no second look after arming.
ArmAndTrust ==
    /\ held.at = "Arm"
    /\ mem' = [mem EXCEPT ![held.i] = ArmNotifications(queues[held.i], @)]
    /\ queues' = [queues EXCEPT ![held.i] = Armed(@)]
    /\ held' = IF held.i + 1 \in Queues THEN [held EXCEPT !.i = @ + 1]
               ELSE IF held.serviced = {} THEN [held EXCEPT !.at = "Next"]
               ELSE [held EXCEPT !.at = "Ask", !.i = First, !.wants = FALSE]
    /\ UNCHANGED <<load, device, irq, poller, driver, cpu, handler>>

\* Each pass of the loop arms every queue...
Arm ==
    /\ held.at = "Arm"
    /\ mem' = [mem EXCEPT ![held.i] = ArmNotifications(queues[held.i], @)]
    /\ queues' = [queues EXCEPT ![held.i] = Armed(@)]
    /\ held' = IF held.i + 1 \in Queues THEN [held EXCEPT !.i = @ + 1]
               ELSE [held EXCEPT !.at = "Look", !.i = First, !.moved = FALSE]
    /\ UNCHANGED <<load, device, irq, poller, driver, cpu, handler>>

\* ...and then reads each again.
Look ==
    /\ held.at = "Look"
    /\ held' = IF HasWork(queues[held.i], mem[held.i])
               THEN [held EXCEPT !.at = "Device", !.q = held.i, !.looking = TRUE]
               ELSE NextLook(held, held.i)
    /\ UNCHANGED <<load, mem, queues, device, irq, poller, driver, cpu, handler>>

NextAsk(h) ==
    IF h.i + 1 \in Queues THEN [h EXCEPT !.at = "Ask", !.i = @ + 1]
    ELSE [h EXCEPT !.at = IF h.wants THEN "Raise" ELSE "Next"]

\* needs_interrupt of every queue that gained used entries.  A packed ring's
\* flags are read here and the position after.
Ask ==
    /\ held.at = "Ask"
    /\ LET i == held.i
           q == queues[i]
           packed == i \in held.serviced /\ Packed(q)
           positioned == packed /\ mem[i].driver_flags = "DESC"
           wants == IF packed THEN mem[i].driver_flags = "ENABLE"
                    ELSE i \in held.serviced /\ NeedsInterrupt(q, mem[i])
       IN  /\ queues' = IF i \in held.serviced /\ ~positioned
                        THEN [queues EXCEPT ![i] = Asked(q)] ELSE queues
           /\ held' = IF positioned THEN [held EXCEPT !.at = "Position"]
                      ELSE NextAsk([held EXCEPT !.wants = @ \/ wants])
    /\ UNCHANGED <<load, mem, device, irq, poller, driver, cpu, handler>>

AskPosition ==
    /\ held.at = "Position"
    /\ held' = NextAsk([held EXCEPT !.wants = @ \/ NeedsInterruptAt(queues[held.i], mem[held.i])])
    /\ queues' = [queues EXCEPT ![held.i] = Asked(@)]
    /\ UNCHANGED <<load, mem, device, irq, poller, driver, cpu, handler>>

\* InterruptLine::raise: the status...
Raise ==
    /\ held.at = "Raise"
    /\ irq' = [irq EXCEPT !.status = TRUE]
    /\ held' = [held EXCEPT !.at = "Lift"]
    /\ UNCHANGED <<load, mem, queues, device, poller, driver, cpu, handler>>

\* ...and sync, which re-reads it.
Sync(q) == [q EXCEPT !.line = q.status]

Lift ==
    /\ held.at = "Lift"
    /\ irq' = Sync(irq)
    /\ held' = [held EXCEPT !.at = "Next"]
    /\ UNCHANGED <<load, mem, queues, device, poller, driver, cpu, handler>>

Unlock ==
    /\ held.at = "Next" /\ held.todo = {} /\ poller.at # "Drain"
    /\ held' = Free
    /\ UNCHANGED <<load, mem, queues, device, irq, poller, driver, cpu, handler>>
-------------------------------------------------------------------------------
(* The poller.                                                             *)

\* Kicks::wait_until returns; Payoff may say that watching does not pay.
Wake ==
    /\ poller.at = "Parked" /\ poller.pending
    /\ \E at \in {"Parked", "Suppress"} : poller' = [at |-> at, pending |-> FALSE]
    /\ UNCHANGED <<load, mem, queues, device, held, irq, driver, cpu, handler>>

Silence(on) ==
    /\ mem' = [i \in Queues |-> SuppressNotifications(queues[i], mem[i], on)]
    /\ queues' = [i \in Queues |-> Suppressed(queues[i], on)]

Suppress ==
    /\ poller.at = "Suppress" /\ Unlocked
    /\ Silence(TRUE)
    /\ poller' = [poller EXCEPT !.at = "Watch"]
    /\ UNCHANGED <<load, device, held, irq, driver, cpu, handler>>

\* watch: a queue with work is polled.
WatchPolls(i) ==
    /\ poller.at = "Watch" /\ Unlocked /\ HasWork(queues[i], mem[i])
    /\ held' = [Free EXCEPT !.by = "poller", !.at = "Next", !.todo = {i}, !.polling = TRUE]
    /\ UNCHANGED <<load, mem, queues, device, irq, poller, driver, cpu, handler>>

\* Mutant: the poller sleeps without a last look.
ClearAndPark ==
    /\ poller.at = "Watch" /\ Unlocked
    /\ Silence(FALSE)
    /\ poller' = [poller EXCEPT !.at = "Parked"]
    /\ UNCHANGED <<load, device, held, irq, driver, cpu, handler>>

\* The window has passed: clear, and look again with the lock held.
Clear ==
    /\ poller.at = "Watch" /\ Unlocked
    /\ Silence(FALSE)
    /\ poller' = [poller EXCEPT !.at = "Drain"]
    /\ held' = [Free EXCEPT !.by = "poller", !.at = "Next", !.todo = Queues, !.polling = TRUE]
    /\ UNCHANGED <<load, device, irq, driver, cpu, handler>>

\* Once every queue has been polled, those with something left send it round.
Drained ==
    /\ poller.at = "Drain" /\ held.at = "Next" /\ held.todo = {}
    /\ LET left == \E i \in Queues : HasWork(queues[i], mem[i])
       IN  /\ held' = IF left THEN [held EXCEPT !.todo = Queues] ELSE Free
           /\ poller' = IF left THEN poller ELSE [poller EXCEPT !.at = "Parked"]
    /\ UNCHANGED <<load, mem, queues, device, irq, driver, cpu, handler>>
-------------------------------------------------------------------------------
(* The guest (external).                                                   *)

\* A call of the transport that takes a whole lap of the index, 65536 slots
\* without returning, is left out.
BoundedCall(i, n) ==
    LET mine == Ids \ (driver[i].free \cup queues[i].outstanding)
    IN  ~Unlocked => held.taken + SlotsOf(driver[i], mine) + n < W

\* virtqueue_add, of the first free name: names differ in nothing else.  Before
\* DRIVER_OK only some drivers fill a queue.
Add(i, id, n) ==
    /\ cpu.at = "Idle" \/ (cpu.at = "Added" /\ cpu.q = i)
    /\ queues[i].ready /\ (device.activated \/ load.early)
    /\ cpu.left[i] > 0 /\ driver[i].free # {} /\ id = Smallest(driver[i].free)
    /\ BoundedCall(i, n) /\ driver[i].added < SIZE
    /\ n = 1 \/ load.layout = "packed"
    /\ load.layout = "packed" => SlotsOf(driver[i], Ids \ driver[i].free) + n <= SIZE
    /\ mem' = [mem EXCEPT ![i] = AddChain(queues[i], @, id, n, driver[i])]
    /\ driver' = [driver EXCEPT ![i] = Added(queues[i], id, n, @)]
    /\ cpu' = [cpu EXCEPT !.at = "Added", !.q = i, !.left[i] = @ - 1]
    /\ UNCHANGED <<load, queues, device, held, irq, poller, handler>>

\* virtqueue_kick.
Kick ==
    /\ cpu.at = "Added"
    /\ cpu' = [cpu EXCEPT !.at = IF WantsKick(queues[cpu.q], mem[cpu.q], driver[cpu.q])
                                 THEN "Trap" ELSE "Idle"]
    /\ driver' = [driver EXCEPT ![cpu.q].added = 0]
    /\ UNCHANGED <<load, mem, queues, device, held, irq, poller, handler>>

\* vm_interrupt reads the status and acknowledges it, without the lock.
Interrupted ==
    /\ handler.at = "Idle" /\ irq.line /\ irq.status
    /\ handler' = [at |-> "Ack", i |-> First]
    /\ UNCHANGED <<load, mem, queues, device, held, irq, poller, driver, cpu>>

\* InterruptLine::acknowledge.
Acknowledge ==
    /\ handler.at = "Ack"
    /\ irq' = [irq EXCEPT !.status = FALSE]
    /\ handler' = [handler EXCEPT !.at = "Drop"]
    /\ UNCHANGED <<load, mem, queues, device, held, poller, driver, cpu>>

Drop ==
    /\ handler.at = "Drop"
    /\ irq' = Sync(irq)
    /\ handler' = [handler EXCEPT !.at = "Ring"]
    /\ UNCHANGED <<load, mem, queues, device, held, poller, driver, cpu>>

NextRing(h) == IF h.i + 1 \in Queues THEN [at |-> "Ring", i |-> h.i + 1] ELSE [at |-> "Idle", i |-> 0]

\* vring_interrupt calls back a queue that has something used.
Ring ==
    /\ handler.at = "Ring"
    /\ LET i == handler.i IN
       IF MoreUsed(queues[i], mem[i], driver[i])
       THEN /\ \E m \in DisableCb(queues[i], mem[i]) : mem' = [mem EXCEPT ![i] = m]
            /\ handler' = [handler EXCEPT !.at = "Get"]
       ELSE handler' = NextRing(handler) /\ UNCHANGED mem
    /\ UNCHANGED <<load, queues, device, held, irq, poller, driver, cpu>>

\* virtqueue_get_buf until there is none, then virtqueue_enable_cb, which
\* looks once more.
Get ==
    /\ handler.at = "Get"
    /\ LET i == handler.i IN
       IF MoreUsed(queues[i], mem[i], driver[i])
       THEN /\ driver' = [driver EXCEPT ![i] = GotBuf(queues[i], mem[i], @)]
            /\ UNCHANGED <<mem, handler>>
       ELSE /\ mem' = [mem EXCEPT ![i] = EnableAt(queues[i], @, driver[i])]
            /\ handler' = [handler EXCEPT !.at = "Enable"]
            /\ UNCHANGED driver
    /\ UNCHANGED <<load, queues, device, held, irq, poller, cpu>>

Enable ==
    /\ handler.at = "Enable"
    /\ mem' = [mem EXCEPT ![handler.i] = EnableCb(queues[handler.i], @)]
    /\ handler' = [handler EXCEPT !.at = "Recheck"]
    /\ UNCHANGED <<load, queues, device, held, irq, poller, driver, cpu>>

Recheck ==
    /\ handler.at = "Recheck"
    /\ LET i == handler.i IN
       handler' = IF MoreUsed(queues[i], mem[i], driver[i])
                  THEN [handler EXCEPT !.at = "Ring"] ELSE NextRing(handler)
    /\ UNCHANGED <<load, mem, queues, device, held, irq, poller, driver, cpu>>
-------------------------------------------------------------------------------
Serve ==
    \/ Notify \/ Take \/ (\E id \in Ids : Complete(id)) \/ DeviceReturns
    \/ Arm \/ Look \/ Ask \/ AskPosition \/ Raise \/ Lift \/ Unlock \/ Drained

Poll == Wake \/ Suppress \/ Clear \/ \E i \in Queues : WatchPolls(i)

Handle == Interrupted \/ Acknowledge \/ Drop \/ Ring \/ Get \/ Enable \/ Recheck

Submit == \E i \in Queues, id \in Ids, n \in 1 .. load.slots : Add(i, id, n)

Next ==
    \/ Setup \/ SetDriverOk \/ Reset \/ QueueNotify
    \/ \E i \in Queues : ServiceQueue(i)
    \/ Serve \/ Poll \/ Submit \/ Kick \/ Handle

Spec == Init /\ [][Next]_vars

\* Threads run, and whoever waits for the lock gets it; the driver need not
\* submit, nor the machine reset.
Fairness ==
    /\ WF_vars(Serve) /\ WF_vars(Handle) /\ WF_vars(Kick \/ Setup) /\ WF_vars(Wake)
    /\ SF_vars(SetDriverOk \/ QueueNotify) /\ SF_vars(Suppress \/ Clear)
    /\ SF_vars(\E i \in Queues : ServiceQueue(i))

FairSpec == Spec /\ Fairness
-------------------------------------------------------------------------------
(* Properties.                                                             *)

\* Every variable has its type, and every cursor is within its range.
TypeOK ==
    /\ load \in Loads
    /\ device.activated \in BOOLEAN /\ device.early_kicks \subseteq Queues
    /\ held.by \in {"none", "cpu", "host", "poller"} /\ held.todo \subseteq Queues
    /\ held.at \in {"Idle", "Next", "Device", "Arm", "Look", "Ask", "Position", "Raise", "Lift"}
    /\ held.serviced \subseteq Queues /\ held.q \in Queues /\ held.i \in Queues
    /\ irq \in [status : BOOLEAN, line : BOOLEAN]
    /\ poller \in [at : {"Parked", "Suppress", "Watch", "Drain"}, pending : BOOLEAN]
    /\ cpu.at \in {"Idle", "Added", "Trap"}
    /\ handler.at \in {"Idle", "Ack", "Drop", "Ring", "Get", "Enable", "Recheck"}
    /\ \A i \in Queues :
          /\ queues[i].outstanding \subseteq Ids
          /\ queues[i].next_avail \in 0 .. W - 1 /\ queues[i].next_used \in 0 .. W - 1
          /\ driver[i].free \subseteq Ids


\* A chain on a ring is somebody's to look at: a device that has looked and
\* armed, or a poller that has stopped watching, leaves nothing the driver was
\* told not to kick for (finish_service's second look, the poller's drain).
\* Before DRIVER_OK it is an early kick.
NoLostKick ==
    Unlocked /\ cpu.at = "Idle" /\ poller.at \in {"Parked", "Suppress"} =>
        \A i \in Queues : HasWork(queues[i], mem[i]) =>
            ~device.activated /\ i \in device.early_kicks

\* A completion a driver has not seen when nobody is at work has an interrupt
\* pending and the line up (needs_interrupt in its three forms,
\* InterruptLine::sync after a raise and after an acknowledgement).
NoLostInterrupt ==
    Unlocked /\ handler.at = "Idle" =>
        \A i \in Queues : MoreUsed(queues[i], mem[i], driver[i]) => irq.status /\ irq.line

\* Every chain comes back: a driver that has done submitting has them all.
ChainsComeBack == []<>(\A i \in Queues : driver[i].free = Ids)
================================================================================
