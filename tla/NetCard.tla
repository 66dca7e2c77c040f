-------------------------------- MODULE NetCard --------------------------------
(***************************************************************************)
(* A virtio-net card (virtio/net.rs) between the guest, the queue poller   *)
(* (poll.rs) and the threads of its backend (net.rs, lan.rs).  Frames are  *)
(* numbered in the order the guest sends them.  Rings are packed, which is *)
(* what a driver is offered: it kicks unless told not to.  What an answer  *)
(* says, and how a frame lies in its descriptors, is left out.             *)
(***************************************************************************)
EXTENDS Integers, Sequences, FiniteSets

CONSTANTS
    RX_BACKLOG,   \* frames the inbox holds
    RING,         \* slots of either ring
    Loads         \* the workloads a behaviour may start with

ASSUME CardAssumption == {RX_BACKLOG, RING} \subseteq Nat \ {0}

VARIABLES
    load,      \* [frames, room (OUTBOX_BYTES), answered, arrivals, polled]
    tx,        \* the transmit ring: [sent, taken, silent]
    rx,        \* buffers on the receive ring
    outbox,    \* [frames, parked]
    inbox,     \* frames for the guest
    held,      \* the holder of the transport lock and where it is
    backend,   \* the thread that drains the outbox: [at, answers, parked]
    network,   \* the thread that reads the network: [at, left]
    poller,    \* [at, pending]
    cpu        \* the guest's (external): [at, queue]

vars == <<load, tx, rx, outbox, inbox, held, backend, network, poller, cpu>>

Free == [by |-> "none", at |-> "Idle", queue |-> "TX", looking |-> FALSE, moved |-> FALSE]
Unlocked == held.by = "none"

Init ==
    /\ load \in Loads
    /\ tx = [sent |-> 0, taken |-> 0, silent |-> FALSE]
    /\ rx = RING
    /\ outbox = [frames |-> <<>>, parked |-> FALSE]
    /\ inbox = 0
    /\ held = Free
    /\ backend = [at |-> "Take", answers |-> FALSE, parked |-> FALSE]
    /\ network = [at |-> "Recv", left |-> load.arrivals]
    /\ poller = [at |-> "Parked", pending |-> FALSE]
    /\ cpu = [at |-> "Idle", queue |-> "TX"]

TxWork == tx.sent # tx.taken
RxWork == rx > 0

\* notify_queue, with the lock taken.
Notify(by, queue) == [Free EXCEPT !.by = by, !.at = queue, !.queue = queue]
--------------------------------------------------------------------------------
(* Net, and finish_service, under the lock.                                *)

\* Mutant: a full outbox is not recorded as parked.
TransmitUnparked ==
    /\ held.at = "TX"
    /\ held' = [held EXCEPT !.at =
          IF TxWork /\ Len(outbox.frames) < load.room THEN "Copy" ELSE "Looked"]
    /\ UNCHANGED <<load, tx, rx, outbox, inbox, backend, network, poller, cpu>>

\* transmit: another chain, and room for it?  has_room releases the outbox.
Transmit ==
    /\ held.at = "TX"
    /\ held' = [held EXCEPT !.at =
          IF ~TxWork THEN "Looked" ELSE IF Len(outbox.frames) < load.room THEN "Copy" ELSE "Park"]
    /\ UNCHANGED <<load, tx, rx, outbox, inbox, backend, network, poller, cpu>>

\* transmit: the frame goes to the outbox and the chain back to the driver.
Copy ==
    /\ held.at = "Copy"
    /\ outbox' = [outbox EXCEPT !.frames = Append(@, tx.taken + 1)]
    /\ tx' = [tx EXCEPT !.taken = @ + 1]
    /\ held' = [held EXCEPT !.at = "TX", !.moved = @ \/ held.looking]
    /\ UNCHANGED <<load, rx, inbox, backend, network, poller, cpu>>

\* transmit: no room.
Park ==
    /\ held.at = "Park"
    /\ outbox' = [outbox EXCEPT !.parked = TRUE]
    /\ held' = [held EXCEPT !.at = "Looked"]
    /\ UNCHANGED <<load, tx, rx, inbox, backend, network, poller, cpu>>

\* receive: a frame and a buffer, one at a time.
Receive ==
    /\ held.at = "RX"
    /\ IF inbox > 0 /\ RxWork
       THEN /\ inbox' = inbox - 1 /\ rx' = rx - 1
            /\ held' = [held EXCEPT !.moved = @ \/ held.looking]
       ELSE held' = [held EXCEPT !.at = "Looked"] /\ UNCHANGED <<inbox, rx>>
    /\ UNCHANGED <<load, tx, outbox, backend, network, poller, cpu>>

\* finish_service: each ring with something on it goes to the device again,
\* and all of it again if a cursor moved.
LookAgain ==
    /\ held.at = "Looked"
    /\ LET h == [held EXCEPT !.looking = TRUE]
       IN  held' = CASE ~held.looking \/ (held.queue = "TX" /\ held.moved) ->
                           [h EXCEPT !.at = IF RxWork THEN "RX" ELSE "Looked",
                                     !.queue = "RX", !.moved = FALSE]
                     [] held.looking /\ held.queue = "RX" ->
                           [h EXCEPT !.at = IF TxWork THEN "TX" ELSE "Looked", !.queue = "TX"]
                     [] OTHER -> IF poller.at = "Drain" THEN [held EXCEPT !.at = "Count"] ELSE Free
    /\ UNCHANGED <<load, tx, rx, outbox, inbox, backend, network, poller, cpu>>
--------------------------------------------------------------------------------
(* The backend's threads.                                                  *)

\* Mutant: the drain thread forgets that the ring was parked.
TakeForgetting ==
    /\ backend.at = "Take" /\ outbox.frames # <<>>
    /\ backend' = [at |-> "Answer", parked |-> FALSE,
                   answers |-> \E k \in DOMAIN outbox.frames : outbox.frames[k] \in load.answered]
    /\ outbox' = [frames |-> <<>>, parked |-> FALSE]
    /\ UNCHANGED <<load, tx, rx, inbox, held, network, poller, cpu>>

\* Outbox::take: everything, and whether the device had parked.
Take ==
    /\ backend.at = "Take" /\ outbox.frames # <<>>
    /\ backend' = [at |-> "Answer", parked |-> outbox.parked,
                   answers |-> \E k \in DOMAIN outbox.frames : outbox.frames[k] \in load.answered]
    /\ outbox' = [frames |-> <<>>, parked |-> FALSE]
    /\ UNCHANGED <<load, tx, rx, inbox, held, network, poller, cpu>>

AfterAnswers(parked) == IF parked THEN "WakeTx" ELSE "Take"

\* The frames go to the network, or answers to them into the inbox.
Answer ==
    /\ backend.at = "Answer"
    /\ LET queued == backend.answers /\ inbox < RX_BACKLOG
       IN  /\ inbox' = IF queued THEN inbox + 1 ELSE inbox
           /\ backend' = [backend EXCEPT !.at =
                 IF queued THEN "WakeRx" ELSE AfterAnswers(backend.parked)]
    /\ UNCHANGED <<load, tx, rx, outbox, held, network, poller, cpu>>

\* wake_rx: service_queue of the receive ring.
WakeRx ==
    /\ backend.at = "WakeRx" /\ Unlocked
    /\ held' = Notify("backend", "RX")
    /\ backend' = [backend EXCEPT !.at = AfterAnswers(backend.parked)]
    /\ UNCHANGED <<load, tx, rx, outbox, inbox, network, poller, cpu>>

\* wake_tx: the look owed to the transmit ring.
WakeTx ==
    /\ backend.at = "WakeTx" /\ Unlocked
    /\ held' = Notify("backend", "TX")
    /\ backend' = [backend EXCEPT !.at = "Take"]
    /\ UNCHANGED <<load, tx, rx, outbox, inbox, network, poller, cpu>>

\* enqueue_received: a full backlog drops the frame.
Recv ==
    /\ network.at = "Recv" /\ network.left > 0
    /\ inbox' = IF inbox < RX_BACKLOG THEN inbox + 1 ELSE inbox
    /\ network' = [at |-> IF inbox < RX_BACKLOG THEN "WakeRx" ELSE "Recv", left |-> network.left - 1]
    /\ UNCHANGED <<load, tx, rx, outbox, held, backend, poller, cpu>>

NetworkWakesRx ==
    /\ network.at = "WakeRx" /\ Unlocked
    /\ held' = Notify("network", "RX")
    /\ network' = [network EXCEPT !.at = "Recv"]
    /\ UNCHANGED <<load, tx, rx, outbox, inbox, backend, poller, cpu>>
--------------------------------------------------------------------------------
(* The poller of the transmit ring, which only the card of net.rs has.     *)

\* A kick wakes it; it watches, or finds that watching has not paid.
Wake ==
    /\ poller.at = "Parked" /\ poller.pending
    /\ \E at \in {"Parked", "Suppress"} : poller' = [at |-> at, pending |-> FALSE]
    /\ UNCHANGED <<load, tx, rx, outbox, inbox, held, backend, network, cpu>>

Suppress ==
    /\ poller.at = "Suppress" /\ Unlocked
    /\ tx' = [tx EXCEPT !.silent = TRUE]
    /\ poller' = [poller EXCEPT !.at = "Watch"]
    /\ UNCHANGED <<load, rx, outbox, inbox, held, backend, network, cpu>>

\* poll_queue, each time the ring has work: the lock is dropped in between.
Poll ==
    /\ poller.at = "Watch" /\ Unlocked /\ TxWork
    /\ held' = Notify("poller", "TX")
    /\ UNCHANGED <<load, tx, rx, outbox, inbox, backend, network, poller, cpu>>

\* The ring stayed quiet for the window.
Quiet ==
    /\ poller.at = "Watch" /\ ~TxWork /\ held.by # "poller"
    /\ poller' = [poller EXCEPT !.at = "Clear"]
    /\ UNCHANGED <<load, tx, rx, outbox, inbox, held, backend, network, cpu>>

\* From here the lock is kept.
Clear ==
    /\ poller.at = "Clear" /\ Unlocked
    /\ tx' = [tx EXCEPT !.silent = FALSE]
    /\ poller' = [poller EXCEPT !.at = "Drain"]
    /\ held' = [Free EXCEPT !.by = "poller", !.at = "Poll"]
    /\ UNCHANGED <<load, rx, outbox, inbox, backend, network, cpu>>

DrainPoll ==
    /\ held.at = "Poll"
    /\ held' = IF TxWork THEN Notify("poller", "TX") ELSE [held EXCEPT !.at = "Count"]
    /\ UNCHANGED <<load, tx, rx, outbox, inbox, backend, network, poller, cpu>>

\* Round again until the ring is empty; a card has no retry deadline.
DrainCount ==
    /\ held.at = "Count"
    /\ held' = IF TxWork THEN [held EXCEPT !.at = "Poll"] ELSE Free
    /\ poller' = IF TxWork THEN poller ELSE [poller EXCEPT !.at = "Parked"]
    /\ UNCHANGED <<load, tx, rx, outbox, inbox, backend, network, cpu>>
--------------------------------------------------------------------------------
(* The guest (external).                                                   *)

Send ==
    /\ cpu.at = "Idle" /\ tx.sent < load.frames /\ tx.sent - tx.taken < RING
    /\ tx' = [tx EXCEPT !.sent = @ + 1]
    /\ cpu' = [at |-> "Decide", queue |-> "TX"]
    /\ UNCHANGED <<load, rx, outbox, inbox, held, backend, network, poller>>

Post ==
    /\ cpu.at = "Idle" /\ rx < RING
    /\ rx' = rx + 1
    /\ cpu' = [at |-> "Trap", queue |-> "RX"]
    /\ UNCHANGED <<load, tx, outbox, inbox, held, backend, network, poller>>

Decide ==
    /\ cpu.at = "Decide"
    /\ cpu' = [cpu EXCEPT !.at = IF tx.silent THEN "Idle" ELSE "Trap"]
    /\ UNCHANGED <<load, tx, rx, outbox, inbox, held, backend, network, poller>>

\* The trap: write_register of QUEUE_NOTIFY.
Kick ==
    /\ cpu.at = "Trap" /\ Unlocked
    /\ held' = Notify("cpu", cpu.queue)
    /\ poller' = [poller EXCEPT !.pending = @ \/ (load.polled /\ cpu.queue = "TX")]
    /\ cpu' = [cpu EXCEPT !.at = "Idle"]
    /\ UNCHANGED <<load, tx, rx, outbox, inbox, backend, network>>
--------------------------------------------------------------------------------
Serve == Transmit \/ Copy \/ Park \/ Receive \/ LookAgain \/ DrainPoll \/ DrainCount

Next ==
    \/ Serve
    \/ Take \/ Answer \/ WakeRx \/ WakeTx \/ Recv \/ NetworkWakesRx
    \/ Wake \/ Suppress \/ Poll \/ Quiet \/ Clear
    \/ Send \/ Post \/ Decide \/ Kick

Spec == Init /\ [][Next]_vars

\* Threads run, and whoever waits for a lock that is released again and again
\* gets it.  The guest need not send nor the network deliver.
Fairness ==
    /\ WF_vars(Serve) /\ WF_vars(Take \/ Answer) /\ WF_vars(Decide)
    /\ WF_vars(Wake \/ Quiet) /\ SF_vars(Poll \/ Suppress \/ Clear)
    /\ SF_vars(WakeRx \/ WakeTx) /\ SF_vars(NetworkWakesRx) /\ SF_vars(Kick)

FairSpec == Spec /\ Fairness
--------------------------------------------------------------------------------
(* Properties.                                                             *)

\* Every variable has its type; the outbox and the inbox keep within their room.
TypeOK ==
    /\ load \in Loads
    /\ tx.sent \in 0 .. load.frames /\ tx.taken \in 0 .. tx.sent /\ tx.silent \in BOOLEAN
    /\ rx \in 0 .. RING
    /\ Len(outbox.frames) <= load.room /\ outbox.parked \in BOOLEAN
    /\ inbox \in 0 .. RX_BACKLOG
    /\ held.by \in {"none", "cpu", "poller", "backend", "network"}
    /\ held.at \in {"Idle", "TX", "RX", "Copy", "Park", "Looked", "Poll", "Count"}
    /\ backend.at \in {"Take", "Answer", "WakeRx", "WakeTx"}
    /\ network.at \in {"Recv", "WakeRx"} /\ network.left \in 0 .. load.arrivals
    /\ poller.at \in {"Parked", "Suppress", "Watch", "Clear", "Drain"} /\ poller.pending \in BOOLEAN
    /\ cpu.at \in {"Idle", "Decide", "Trap"}

AtRest == Unlocked /\ cpu.at = "Idle" /\ poller.at \in {"Parked", "Suppress"}

\* With every thread at rest nothing waits that could move on.  No frame the
\* guest sent is on the ring beside an empty outbox, though the room is looked
\* for and the flag set under two holds of the outbox's lock (transmit, take,
\* finish_service); and a frame waits in the inbox only for a buffer (receive,
\* wake_rx, the guest's kick).
NothingForgotten ==
    /\ TypeOK
    /\ AtRest /\ backend.at = "Take" =>
          /\ outbox.frames = <<>> => ~TxWork
          /\ network.at = "Recv" => inbox = 0 \/ ~RxWork

\* Whatever the guest sends is taken: the drain thread "asks for the queue to
\* be looked at again once there is room".
FramesAreTaken == []<>(~TxWork)
================================================================================
