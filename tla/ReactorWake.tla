------------------------------ MODULE ReactorWake ------------------------------
(***************************************************************************)
(* How the reactor's one thread learns that a stream has something to do:  *)
(* commands and a pipe, the set of touched connections, and the flag that  *)
(* replaces the pipe while the reactor spins (run in reactor.rs,           *)
(* progressed, touch and take_touched in vsock/mod.rs).  Every atomic      *)
(* access and every hold of a lock is a step of its own.                   *)
(***************************************************************************)
EXTENDS Naturals, FiniteSets

CONSTANTS
    Keys,         \* connections a guest opens and the reactor carries
    Threads,      \* threads that change connections and call progressed
    TOUCHED_MAX   \* touched connections kept before they are folded into one

ASSUME ReactorAssumption == TOUCHED_MAX \in Nat

VARIABLES
    touched, touched_all,     \* what changed, under the device's lock
    commands, accepting,      \* connections to take on, and whose pipe write is to come
    stream_pending,           \* the flag
    reactor_spinning,         \* whether the flag is enough
    pipe,                     \* whether the wake pipe holds a byte
    thread,                   \* where each thread is in progressed
    room,                     \* whether the outbox has room
    arrived,                  \* connections with an event nobody has served
    unsent,                   \* streams whose bytes the outbox had no room for
    streams, fresh, waiting,  \* the reactor's own sets
    keys,                     \* what it is serving
    at,                       \* where it is in its loop
    spinning, woken, pending, active  \* its local variables; active is n > 0

table == <<touched, touched_all>>
opened == <<commands, accepting>>
flags == <<stream_pending, reactor_spinning, pipe>>
work == <<room, arrived, unsent>>
own == <<streams, fresh, waiting, keys>>
local == <<at, spinning, woken, pending, active>>
vars == <<table, opened, flags, thread, work, own, local>>
--------------------------------------------------------------------------------
(* The threads that change connections.                                    *)

\* Mutant: a full set drops what does not fit.
TouchDropping(k) ==
    IF Cardinality(touched) >= TOUCHED_MAX THEN UNCHANGED table
    ELSE touched' = touched \cup {k} /\ UNCHANGED touched_all

\* Inner::touch.
Touch(k) ==
    IF touched_all THEN UNCHANGED table
    ELSE IF Cardinality(touched) >= TOUCHED_MAX
    THEN touched' = {} /\ touched_all' = TRUE
    ELSE touched' = touched \cup {k} /\ UNCHANGED touched_all

\* drain_tx and every host call that changes one connection.
Change(t, k) ==
    /\ thread[t] = "Idle"
    /\ Touch(k)
    /\ arrived' = arrived \cup {k}
    /\ thread' = [thread EXCEPT ![t] = "Store"]
    /\ UNCHANGED <<opened, flags, room, unsent, own, local>>

\* drain_rx: room for whoever waits for it, and no connection touched.
MakeRoom(t) ==
    /\ thread[t] = "Idle" /\ ~room
    /\ room' = TRUE
    /\ thread' = [thread EXCEPT ![t] = "Store"]
    /\ UNCHANGED <<table, opened, flags, arrived, unsent, own, local>>

\* progressed: the flag, then whether the reactor spins, then the pipe.
StorePending(t) ==
    /\ thread[t] = "Store"
    /\ stream_pending' = TRUE
    /\ thread' = [thread EXCEPT ![t] = "Load"]
    /\ UNCHANGED <<table, opened, reactor_spinning, pipe, work, own, local>>

LoadSpinning(t) ==
    /\ thread[t] = "Load"
    /\ thread' = [thread EXCEPT ![t] = IF reactor_spinning THEN "Idle" ELSE "Poke"]
    /\ UNCHANGED <<table, opened, flags, work, own, local>>

Poke(t) ==
    /\ thread[t] = "Poke"
    /\ pipe' = TRUE
    /\ thread' = [thread EXCEPT ![t] = "Idle"]
    /\ UNCHANGED <<table, opened, stream_pending, reactor_spinning, work, own, local>>

\* accept_outbound: the command, then the pipe.
Accept(k) ==
    /\ k \notin streams \cup commands \cup accepting
    /\ commands' = commands \cup {k}
    /\ accepting' = accepting \cup {k}
    /\ UNCHANGED <<table, flags, thread, work, own, local>>

AcceptPoke(k) ==
    /\ k \in accepting
    /\ pipe' = TRUE
    /\ accepting' = accepting \ {k}
    /\ UNCHANGED <<table, commands, stream_pending, reactor_spinning, thread, work, own, local>>
--------------------------------------------------------------------------------
(* The reactor.                                                            *)

\* push_to_guest and recheck: what the outbox refuses waits for room.
Serve(k, bytes) ==
    /\ unsent' = IF k \in bytes /\ ~room THEN unsent \cup {k} ELSE unsent \ {k}
    /\ waiting' = IF k \in bytes /\ ~room THEN waiting \cup {k} ELSE waiting \ {k}
    /\ room' \in IF k \in bytes /\ room THEN BOOLEAN ELSE {room}

\* kevent: at once while spinning, otherwise once something is ready, which
\* may be a stream's socket (readable, recheck).
Kevent ==
    /\ at = "Kevent" /\ at' = "Swap"
    /\ woken' = pipe
    /\ \/ /\ pipe \/ spinning
          /\ active' = pipe
          /\ UNCHANGED <<room, unsent, waiting>>
       \/ \E k \in streams \ unsent : Serve(k, {k}) /\ active' = TRUE
    /\ UNCHANGED <<table, opened, flags, thread, arrived, streams, fresh, keys,
                   spinning, pending>>

\* stream_pending.swap(false).
Swap ==
    /\ at = "Swap" /\ at' = "Drain"
    /\ pending' = stream_pending
    /\ stream_pending' = FALSE
    /\ UNCHANGED <<table, opened, reactor_spinning, pipe, thread, work, own,
                   spinning, woken, active>>

\* The pipe is emptied when kevent reported it.
Drain ==
    /\ at = "Drain" /\ at' = IF woken \/ pending THEN "Commands" ELSE "Settle"
    /\ pipe' = (pipe /\ ~woken)
    /\ UNCHANGED <<table, opened, stream_pending, reactor_spinning, thread, work, own,
                   spinning, woken, pending, active>>

\* Mutant: a new stream is not served when it is taken in.
TakeCommandsStale ==
    /\ at = "Commands" /\ at' = "Touched"
    /\ streams' = streams \cup commands
    /\ commands' = {}
    /\ UNCHANGED <<table, accepting, flags, thread, work, fresh, waiting, keys,
                   spinning, woken, pending, active>>

\* Commands are taken and run before the touched connections are.
TakeCommands ==
    /\ at = "Commands" /\ at' = "Touched"
    /\ streams' = streams \cup commands
    /\ fresh' = fresh \cup commands
    /\ commands' = {}
    /\ UNCHANGED <<table, accepting, flags, thread, work, waiting, keys,
                   spinning, woken, pending, active>>

\* take_touched: the touched, the fresh and the waiting, or every stream,
\* which the reactor also serves now and then (SWEEP_EVERY).
TakeTouched ==
    /\ at = "Touched" /\ at' = "Serve"
    /\ touched' = {} /\ touched_all' = FALSE
    /\ fresh' = {}
    /\ \/ ~touched_all /\ keys' = touched \cup fresh \cup waiting
       \/ keys' = streams
    /\ UNCHANGED <<opened, flags, thread, work, streams, waiting,
                   spinning, woken, pending, active>>

\* progress and recheck, one connection at a time.
Progress(k) ==
    /\ at = "Serve" /\ k \in keys
    /\ keys' = keys \ {k}
    /\ IF k \in streams THEN arrived' = arrived \ {k} /\ Serve(k, unsent)
       ELSE UNCHANGED <<work, waiting>>
    /\ UNCHANGED <<table, opened, flags, thread, streams, fresh, local>>

Served ==
    /\ at = "Serve" /\ keys = {} /\ at' = "Settle"
    /\ UNCHANGED <<table, opened, flags, thread, work, own, spinning, woken, pending, active>>

\* The end of the loop: spin after any activity; once quiet for long enough,
\* stop, and say so.
Settle ==
    /\ at = "Settle"
    /\ \/ /\ active \/ woken \/ pending
          /\ at' = "Kevent" /\ spinning' = TRUE /\ reactor_spinning' = TRUE
       \/ /\ ~(active \/ woken \/ pending) /\ spinning
          /\ at' = "Kevent" /\ UNCHANGED <<spinning, reactor_spinning>>
       \/ /\ ~(active \/ woken \/ pending) /\ spinning
          /\ at' = "Parking" /\ spinning' = FALSE /\ reactor_spinning' = FALSE
    /\ UNCHANGED <<table, opened, stream_pending, pipe, thread, work, own,
                   woken, pending, active>>

\* Mutant: the reactor parks without a second look.
ParkingBlind ==
    /\ at = "Parking" /\ at' = "Kevent"
    /\ UNCHANGED <<table, opened, flags, thread, work, own, spinning, woken, pending, active>>

\* Parked as far as the device can see: the flag once more.
Parking ==
    /\ at = "Parking" /\ at' = IF stream_pending THEN "Unpark" ELSE "Kevent"
    /\ spinning' = stream_pending
    /\ UNCHANGED <<table, opened, flags, thread, work, own, woken, pending, active>>

Unpark ==
    /\ at = "Unpark" /\ at' = "Kevent"
    /\ reactor_spinning' = TRUE
    /\ UNCHANGED <<table, opened, stream_pending, pipe, thread, work, own,
                   spinning, woken, pending, active>>
--------------------------------------------------------------------------------
Init ==
    /\ touched = {} /\ touched_all = FALSE
    /\ commands = {} /\ accepting = {}
    /\ stream_pending = FALSE /\ reactor_spinning = FALSE /\ pipe = FALSE
    /\ thread = [t \in Threads |-> "Idle"]
    /\ room = TRUE /\ arrived = {} /\ unsent = {}
    /\ streams = {} /\ fresh = {} /\ waiting = {} /\ keys = {}
    /\ at = "Kevent" /\ spinning = FALSE /\ woken = FALSE /\ pending = FALSE /\ active = FALSE

Progressed(t) == StorePending(t) \/ LoadSpinning(t) \/ Poke(t)

Reactor ==
    \/ Kevent \/ Swap \/ Drain \/ TakeCommands \/ TakeTouched
    \/ (\E k \in Keys : Progress(k)) \/ Served
    \/ Settle \/ Parking \/ Unpark

Next ==
    \/ \E t \in Threads, k \in Keys : Change(t, k)
    \/ \E t \in Threads : MakeRoom(t) \/ Progressed(t)
    \/ \E k \in Keys : Accept(k) \/ AcceptPoke(k)
    \/ Reactor

Spec == Init /\ [][Next]_vars

\* The reactor runs, a thread in progressed goes on, and a listener hands
\* over what it accepted.
Fairness ==
    /\ WF_vars(Reactor)
    /\ \A t \in Threads : WF_vars(Progressed(t))
    /\ \A k \in Keys : WF_vars(Accept(k)) /\ WF_vars(AcceptPoke(k))

FairSpec == Spec /\ Fairness
--------------------------------------------------------------------------------
\* Every variable has its type, and a stream with unsent bytes is one the
\* reactor serves on every wake.
TypeOK ==
    /\ touched \subseteq Keys /\ touched_all \in BOOLEAN
    /\ commands \subseteq Keys /\ accepting \subseteq Keys
    /\ stream_pending \in BOOLEAN /\ reactor_spinning \in BOOLEAN /\ pipe \in BOOLEAN
    /\ thread \in [Threads -> {"Idle", "Store", "Load", "Poke"}]
    /\ room \in BOOLEAN /\ arrived \subseteq Keys
    /\ streams \subseteq Keys /\ fresh \subseteq streams /\ keys \subseteq Keys
    /\ unsent \subseteq waiting /\ waiting \subseteq streams
    /\ at \in {"Kevent", "Swap", "Drain", "Commands", "Touched", "Serve",
               "Settle", "Parking", "Unpark"}
    /\ spinning \in BOOLEAN /\ woken \in BOOLEAN /\ pending \in BOOLEAN /\ active \in BOOLEAN

Parked == at = "Kevent" /\ ~spinning /\ ~pipe
Quiet == accepting = {} /\ \A t \in Threads : thread[t] = "Idle"

\* No wake is lost: when the reactor blocks in kevent and nobody is on the way
\* to the pipe, no command waits, no stream has an unserved event and no stream
\* waits for room there is ("one of them must see the other's store or a wake
\* is lost").
NoLostWake ==
    Parked /\ Quiet => /\ commands = {}
                       /\ arrived \cap streams = {}
                       /\ room => unsent = {}

\* The set of touched connections is bounded, and folding it loses nothing: an
\* unserved event of a stream is in it, covered by the fold, or in the
\* reactor's hands.
TouchedCovers ==
    /\ Cardinality(touched) <= TOUCHED_MAX
    /\ touched_all \/ arrived \cap streams \subseteq touched \cup fresh \cup keys

\* Every event on a connection is served, also one that came before the
\* reactor had the connection.
EventsServed == \A k \in Keys : k \in arrived ~> k \notin arrived
--------------------------------------------------------------------------------
(* The inductive invariant behind NoLostWake.                              *)

\* A thread is about to set the flag, it is set, or the reactor has it.
Flagged ==
    \/ \E t \in Threads : thread[t] = "Store"
    \/ stream_pending
    \/ at = "Drain" /\ pending
    \/ at \in {"Commands", "Touched"}

\* Why nothing is lost: what there is to do is always behind a flag or a pipe
\* write, and while the reactor is parked a set flag is behind a pipe write.
Signalled ==
    /\ spinning = (reactor_spinning \/ at = "Unpark")
    /\ at \in {"Parking", "Unpark"} => ~reactor_spinning
    /\ fresh # {} => at = "Touched"
    /\ keys # {} => at = "Serve"
    /\ commands # {} => accepting # {} \/ pipe \/ at = "Commands"
    /\ touched_all \/ arrived \cap streams \subseteq touched \cup fresh \cup keys
    /\ touched_all \/ touched # {} => Flagged
    /\ room /\ unsent # {} => Flagged \/ (at = "Serve" /\ unsent \subseteq keys)
    /\ at = "Kevent" /\ ~spinning /\ stream_pending =>
           pipe \/ \E t \in Threads : thread[t] \in {"Load", "Poke"}
================================================================================
