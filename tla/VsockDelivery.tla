----------------------------- MODULE VsockDelivery -----------------------------
(***************************************************************************)
(* How transmit chains the host has finished with, and packets for the     *)
(* guest, reach the guest when the guest itself is silent: the threads     *)
(* that finish with them (complete, try_send_owned, read_outbound_exact),  *)
(* the two wakers, and the delivery thread, which spins, then parks on a   *)
(* condition variable (machine.rs).                                        *)
(***************************************************************************)
EXTENDS Naturals, FiniteSets

CONSTANTS
    Heads,           \* transmit chains
    Threads,         \* host threads that finish with chains or send
    PILE             \* done chains that are pushed out at once

ASSUME DeliveryAssumption ==
    /\ IsFiniteSet(Heads)
    /\ PILE \in Nat \ {0}

VARIABLES
    held,     \* chains the host has taken and not returned
    done,     \* those among them nobody needs any more
    parted,   \* ghost: those among these that a part of a header came in
    outbox,   \* whether packets wait for the guest
    flag,     \* the delivery thread's pending flag, under its mutex
    deliver,  \* where the delivery thread is
    thread    \* where each host thread is

vars == <<held, done, parted, outbox, flag, deliver, thread>>
--------------------------------------------------------------------------------

\* service_queue(RX): everything done goes back and the outbox is drained.
ServiceRx ==
    /\ held' = held \ done
    /\ done' = {} /\ parted' = {}
    /\ outbox' = FALSE

\* The guest sends: its notification returns what is done, and the device
\* holds the new chain.
GuestSend(h) ==
    /\ h \notin held
    /\ held' = (held \ done) \cup {h}
    /\ done' = {} /\ parted' = {}
    /\ outbox' = FALSE
    /\ UNCHANGED <<flag, deliver, thread>>
--------------------------------------------------------------------------------
(* Host threads.                                                           *)

\* Mutant: a chain below the pile is left for the next one.
CompleteLazily(t, h) ==
    /\ thread[t] = "Idle" /\ h \in held \ done
    /\ done' = done \cup {h}
    /\ LET n == Cardinality(done')
           pile == n >= PILE \/ n >= Cardinality(held)
       IN  thread' = [thread EXCEPT ![t] = IF pile THEN "Wake" ELSE "Idle"]
    /\ UNCHANGED <<held, parted, outbox, flag, deliver>>

\* complete, under the lock: a pile goes out on this thread, and so does the
\* last of what is held; anything less is left to the delivery thread.
Complete(t, h) ==
    /\ thread[t] = "Idle" /\ h \in held \ done
    /\ done' = done \cup {h}
    /\ LET n == Cardinality(done')
           pile == n >= PILE \/ n >= Cardinality(held)
       IN  thread' = [thread EXCEPT ![t] = IF pile THEN "Wake" ELSE "Defer"]
    /\ UNCHANGED <<held, parted, outbox, flag, deliver>>

\* try_send_owned: bulk data is delivered by the thread, a request here.
SendOwned(t) ==
    /\ thread[t] = "Idle"
    /\ outbox' = TRUE
    /\ \E at \in {"Wake", "Defer"} : thread' = [thread EXCEPT ![t] = at]
    /\ UNCHANGED <<held, done, parted, flag, deliver>>

\* read_outbound_exact with part of what it wants: the chain is done, and
\* the thread waits for the rest.
ReadPart(t, h) ==
    /\ thread[t] = "Idle" /\ h \in held \ done
    /\ done' = done \cup {h} /\ parted' = parted \cup {h}
    /\ UNCHANGED <<held, outbox, flag, deliver, thread>>

\* wake: the transport's lock, and a service.
Wake(t) ==
    /\ thread[t] = "Wake"
    /\ ServiceRx
    /\ thread' = [thread EXCEPT ![t] = "Idle"]
    /\ UNCHANGED <<flag, deliver>>

\* Mutant: the flag is raised only over a sleeping thread.
DeferUnlessWaiting(t) ==
    /\ thread[t] = "Defer"
    /\ flag' = (deliver \in {"Wait", "TimedWait"})
    /\ thread' = [thread EXCEPT ![t] = "Notify"]
    /\ UNCHANGED <<held, done, parted, outbox, deliver>>

\* wake_deferred: the flag under its mutex, then notify_one.
Defer(t) ==
    /\ thread[t] = "Defer"
    /\ flag' = TRUE
    /\ thread' = [thread EXCEPT ![t] = "Notify"]
    /\ UNCHANGED <<held, done, parted, outbox, deliver>>

Notify(t) ==
    /\ thread[t] = "Notify"
    /\ deliver' = IF deliver \in {"Wait", "TimedWait"} THEN "Woken" ELSE deliver
    /\ thread' = [thread EXCEPT ![t] = "Idle"]
    /\ UNCHANGED <<held, done, parted, outbox, flag>>
--------------------------------------------------------------------------------
(* The delivery thread.                                                    *)

\* Fifty microseconds of looking at the flag, then the slow path.
Spin ==
    /\ deliver = "Spin"
    /\ \/ flag /\ flag' = FALSE /\ deliver' = "Service"
       \/ deliver' = "Park" /\ UNCHANGED flag
    /\ UNCHANGED <<held, done, parted, outbox, thread>>

\* The loop around the condition variable, with the mutex held: has_done is
\* read before the wait gives the mutex up.
Park ==
    /\ deliver = "Park"
    /\ IF flag THEN flag' = FALSE /\ deliver' = "Service"
       ELSE /\ deliver' = IF done # {} THEN "TimedWait" ELSE "Wait"
            /\ UNCHANGED flag
    /\ UNCHANGED <<held, done, parted, outbox, thread>>

\* A millisecond passes.
Timeout ==
    /\ deliver = "TimedWait"
    /\ deliver' = "TimedOut"
    /\ UNCHANGED <<held, done, parted, outbox, flag, thread>>

\* After a timed wait a clear flag is no reason to wait again.
Resume ==
    /\ \/ deliver = "Woken" /\ deliver' = "Park" /\ UNCHANGED flag
       \/ deliver = "TimedOut" /\ deliver' = "Service" /\ flag' = FALSE
    /\ UNCHANGED <<held, done, parted, outbox, thread>>

Service ==
    /\ deliver = "Service"
    /\ ServiceRx
    /\ deliver' = "Spin"
    /\ UNCHANGED <<flag, thread>>
--------------------------------------------------------------------------------
Init ==
    /\ held = {} /\ done = {} /\ parted = {} /\ outbox = FALSE
    /\ flag = FALSE /\ deliver = "Spin"
    /\ thread = [t \in Threads |-> "Idle"]

Host(t) ==
    \/ \E h \in Heads : Complete(t, h) \/ ReadPart(t, h)
    \/ SendOwned(t)
    \/ Wake(t)
    \/ Defer(t)
    \/ Notify(t)

Deliver == Spin \/ Park \/ Timeout \/ Resume \/ Service

Next ==
    \/ \E h \in Heads : GuestSend(h)
    \/ \E t \in Threads : Host(t)
    \/ Deliver

Spec == Init /\ [][Next]_vars

\* A thread that has decided to wake goes on, and the delivery thread runs.
\* The guest owes nothing.
Fairness ==
    /\ WF_vars(Deliver)
    /\ \A t \in Threads : WF_vars(Wake(t)) /\ WF_vars(Defer(t)) /\ WF_vars(Notify(t))

FairSpec == Spec /\ Fairness
--------------------------------------------------------------------------------
\* Every variable has its type; only held chains are done.
TypeOK ==
    /\ held \subseteq Heads /\ done \subseteq held /\ parted \subseteq done
    /\ outbox \in BOOLEAN /\ flag \in BOOLEAN
    /\ deliver \in {"Spin", "Park", "Wait", "TimedWait", "TimedOut", "Woken", "Service"}
    /\ thread \in [Threads -> {"Idle", "Wake", "Defer", "Notify"}]

\* A parked delivery thread leaves nothing behind: while it waits without a
\* bound and no thread is on its way to wake anybody, no chain but a part of a
\* header's is done and no packet waits (complete: "its bounded wait for
\* existing completions cannot help a new one").
NothingLeftBehind ==
    (deliver = "Wait" /\ \A t \in Threads : thread[t] = "Idle")
        => done = parted /\ ~outbox

\* Everything reaches a guest that never sends again: every chain the host has
\* finished with goes back, and every packet queued for the guest is delivered
\* (the delivery thread, complete and defer).
SilentGuestServed ==
    /\ \A h \in Heads : h \in done \ parted ~> h \notin done
    /\ outbox ~> ~outbox

================================================================================
