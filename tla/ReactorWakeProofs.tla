--------------------------- MODULE ReactorWakeProofs ---------------------------
(***************************************************************************)
(* No wake of the reactor is lost, for any number of connections and of    *)
(* threads.                                                                *)
(***************************************************************************)
EXTENDS ReactorWake, TLAPS

\* A single thread's move within progressed.
LEMMA ThreadMoves ==
    ASSUME TypeOK, NEW t \in Threads, NEW s \in {"Idle", "Store", "Load", "Poke"},
           thread' = [thread EXCEPT ![t] = s]
    PROVE  /\ thread' \in [Threads -> {"Idle", "Store", "Load", "Poke"}]
           /\ thread'[t] = s
           /\ \A u \in Threads : u # t => thread'[u] = thread[u]
BY DEF TypeOK

\* The types hold, and so does Signalled, when the machine starts.
LEMMA InitSignalled == Init => TypeOK /\ Signalled
BY DEF Init, TypeOK, Signalled

\* A changed connection is touched before the flag is set.
LEMMA ChangeSignalled ==
    ASSUME TypeOK, Signalled, NEW t \in Threads, NEW k \in Keys, Change(t, k)
    PROVE  TypeOK' /\ Signalled'
<1>1. /\ thread' \in [Threads -> {"Idle", "Store", "Load", "Poke"}]
      /\ thread[t] = "Idle" /\ thread'[t] = "Store"
      /\ \A u \in Threads : u # t => thread'[u] = thread[u]
  BY ThreadMoves DEF Change
<1>2. UNCHANGED <<opened, flags, room, unsent, own, local>> /\ arrived' = arrived \cup {k}
  BY DEF Change
<1>3. \/ touched_all' = TRUE /\ touched' \subseteq Keys
      \/ touched' = touched \cup {k} /\ touched_all' = touched_all
  BY DEF Change, Touch, table, TypeOK
<1>4. TypeOK'
  <2>1. touched' \subseteq Keys /\ touched_all' \in BOOLEAN /\ arrived' \subseteq Keys
    BY <1>2, <1>3 DEF TypeOK
  <2> QED BY <1>1, <1>2, <2>1 DEF TypeOK, opened, flags, own, local
<1>5. Flagged'
  BY <1>1 DEF Flagged
<1> QED BY <1>1, <1>2, <1>3, <1>4, <1>5 DEF TypeOK, Signalled, opened, flags, own, local

\* Room comes with a thread about to set the flag.
LEMMA MakeRoomSignalled ==
    ASSUME TypeOK, Signalled, NEW t \in Threads, MakeRoom(t)
    PROVE  TypeOK' /\ Signalled'
<1>1. /\ thread' \in [Threads -> {"Idle", "Store", "Load", "Poke"}]
      /\ thread[t] = "Idle" /\ thread'[t] = "Store"
      /\ \A u \in Threads : u # t => thread'[u] = thread[u]
  BY ThreadMoves DEF MakeRoom
<1>2. UNCHANGED <<table, opened, flags, arrived, unsent, own, local>> /\ room' = TRUE
  BY DEF MakeRoom
<1>3. Flagged'
  BY <1>1 DEF Flagged
<1> QED BY <1>1, <1>2, <1>3 DEF TypeOK, Signalled, table, opened, flags, own, local

\* progressed: the thread carries the signal from one step to the next.
LEMMA ProgressedSignalled ==
    ASSUME TypeOK, Signalled, NEW t \in Threads, Progressed(t)
    PROVE  TypeOK' /\ Signalled'
<1>1. CASE StorePending(t)
  <2>1. /\ thread' \in [Threads -> {"Idle", "Store", "Load", "Poke"}]
        /\ thread[t] = "Store" /\ thread'[t] = "Load"
        /\ \A u \in Threads : u # t => thread'[u] = thread[u]
    BY <1>1, ThreadMoves DEF StorePending
  <2>2. /\ UNCHANGED <<table, opened, reactor_spinning, pipe, work, own, local>>
        /\ stream_pending' = TRUE
    BY <1>1 DEF StorePending
  <2>3. Flagged'
    BY <2>2 DEF Flagged
  <2> QED BY <2>1, <2>2, <2>3 DEF TypeOK, Signalled, table, opened, work, own, local
<1>2. CASE LoadSpinning(t)
  <2>1. /\ thread' \in [Threads -> {"Idle", "Store", "Load", "Poke"}]
        /\ thread[t] = "Load"
        /\ thread'[t] = IF reactor_spinning THEN "Idle" ELSE "Poke"
        /\ \A u \in Threads : u # t => thread'[u] = thread[u]
    BY <1>2, ThreadMoves DEF LoadSpinning
  <2>2. UNCHANGED <<table, opened, flags, work, own, local>>
    BY <1>2 DEF LoadSpinning
  <2>3. Flagged => Flagged'
    BY <2>1, <2>2 DEF Flagged, flags, local
  <2> QED BY <2>1, <2>2, <2>3 DEF TypeOK, Signalled, table, opened, flags, work, own, local
<1>3. CASE Poke(t)
  <2>1. /\ thread' \in [Threads -> {"Idle", "Store", "Load", "Poke"}]
        /\ thread[t] = "Poke" /\ thread'[t] = "Idle"
        /\ \A u \in Threads : u # t => thread'[u] = thread[u]
    BY <1>3, ThreadMoves DEF Poke
  <2>2. /\ UNCHANGED <<table, opened, stream_pending, reactor_spinning, work, own, local>>
        /\ pipe' = TRUE
    BY <1>3 DEF Poke
  <2>3. Flagged => Flagged'
    BY <2>1, <2>2 DEF Flagged, local
  <2> QED BY <2>1, <2>2, <2>3 DEF TypeOK, Signalled, table, opened, work, own, local
<1> QED BY <1>1, <1>2, <1>3 DEF Progressed

\* A command comes with a pipe write.
LEMMA AcceptSignalled ==
    ASSUME TypeOK, Signalled, NEW k \in Keys, Accept(k) \/ AcceptPoke(k)
    PROVE  TypeOK' /\ Signalled'
<1>1. UNCHANGED <<table, stream_pending, reactor_spinning, thread, work, own, local>>
  BY DEF Accept, AcceptPoke, flags
<1>2. Flagged' = Flagged
  BY <1>1 DEF Flagged, local
<1>3. CASE Accept(k)
  <2>1. commands' = commands \cup {k} /\ accepting' = accepting \cup {k} /\ pipe' = pipe
    BY <1>3 DEF Accept, flags
  <2> QED BY <1>1, <1>2, <2>1 DEF TypeOK, Signalled, table, work, own, local
<1>4. CASE AcceptPoke(k)
  <2>1. commands' = commands /\ accepting' = accepting \ {k} /\ pipe' = TRUE
    BY <1>4 DEF AcceptPoke
  <2> QED BY <1>1, <1>2, <2>1 DEF TypeOK, Signalled, table, work, own, local
<1> QED BY <1>3, <1>4

\* What serving one stream does to the streams without room.
LEMMA ServeFacts ==
    ASSUME TypeOK, NEW k \in streams, NEW bytes \in SUBSET Keys, Serve(k, bytes)
    PROVE  /\ room' \in BOOLEAN
           /\ room' => room
           /\ unsent' \ {k} = unsent \ {k} /\ waiting' \ {k} = waiting \ {k}
           /\ room => k \notin unsent'
           /\ k \in unsent' <=> k \in waiting'
           /\ unsent' \subseteq unsent \cup {k} /\ waiting' \subseteq waiting \cup {k}
BY DEF Serve, TypeOK

\* kevent takes nothing; a socket it reports can only use up room.
LEMMA KeventSignalled ==
    ASSUME TypeOK, Signalled, Kevent
    PROVE  TypeOK' /\ Signalled'
<1>1. /\ at = "Kevent" /\ at' = "Swap" /\ woken' = pipe /\ active' \in BOOLEAN
      /\ UNCHANGED <<table, opened, flags, thread, arrived, streams, fresh, keys,
                     spinning, pending>>
  BY DEF Kevent, TypeOK
<1>2. /\ room' \in BOOLEAN /\ (room' => room /\ unsent' \subseteq unsent)
      /\ unsent' \subseteq waiting' /\ waiting' \subseteq streams
  <2>1. CASE UNCHANGED <<room, unsent, waiting>>
    BY <2>1 DEF TypeOK
  <2>2. ASSUME NEW k \in streams \ unsent, Serve(k, {k})
        PROVE  /\ room' \in BOOLEAN /\ (room' => room /\ unsent' \subseteq unsent)
               /\ unsent' \subseteq waiting' /\ waiting' \subseteq streams
    BY <2>2, ServeFacts DEF TypeOK
  <2> QED BY <2>1, <2>2 DEF Kevent
<1>3. TypeOK'
  BY <1>1, <1>2 DEF TypeOK, table, opened, flags
<1>4. Flagged => Flagged'
  BY <1>1 DEF Flagged, flags
<1> QED BY <1>1, <1>2, <1>3, <1>4 DEF TypeOK, Signalled, table, opened, flags

\* The flag passes from the device to the reactor's own variable.
LEMMA SwapSignalled ==
    ASSUME TypeOK, Signalled, Swap
    PROVE  TypeOK' /\ Signalled'
<1>1. /\ at = "Swap" /\ at' = "Drain" /\ pending' = stream_pending /\ stream_pending' = FALSE
      /\ UNCHANGED <<table, opened, reactor_spinning, pipe, thread, work, own,
                     spinning, woken, active>>
  BY DEF Swap
<1>2. Flagged => Flagged'
  BY <1>1 DEF Flagged, TypeOK
<1> QED BY <1>1, <1>2 DEF TypeOK, Signalled, table, opened, work, own

\* Emptying the pipe leads to the commands.
LEMMA DrainSignalled ==
    ASSUME TypeOK, Signalled, Drain
    PROVE  TypeOK' /\ Signalled'
<1>1. /\ at = "Drain" /\ at' = IF woken \/ pending THEN "Commands" ELSE "Settle"
      /\ pipe' = (pipe /\ ~woken)
      /\ UNCHANGED <<table, opened, stream_pending, reactor_spinning, thread, work, own,
                     spinning, woken, pending, active>>
  BY DEF Drain
<1>2. Flagged => Flagged'
  BY <1>1 DEF Flagged, TypeOK
<1> QED BY <1>1, <1>2 DEF TypeOK, Signalled, table, opened, work, own

\* A stream taken on is fresh, so events from before it count.
LEMMA TakeCommandsSignalled ==
    ASSUME TypeOK, Signalled, TakeCommands
    PROVE  TypeOK' /\ Signalled'
<1>1. /\ at = "Commands" /\ at' = "Touched" /\ commands' = {}
      /\ streams' = streams \cup commands /\ fresh' = fresh \cup commands
      /\ UNCHANGED <<table, accepting, flags, thread, work, waiting, keys,
                     spinning, woken, pending, active>>
  BY DEF TakeCommands
<1>2. Flagged'
  BY <1>1 DEF Flagged
<1> QED BY <1>1, <1>2 DEF TypeOK, Signalled, table, flags, work

\* What is taken to be served covers every event and every stream that waits.
LEMMA TakeTouchedSignalled ==
    ASSUME TypeOK, Signalled, TakeTouched
    PROVE  TypeOK' /\ Signalled'
<1>1. /\ at = "Touched" /\ at' = "Serve"
      /\ touched' = {} /\ touched_all' = FALSE /\ fresh' = {}
      /\ UNCHANGED <<opened, flags, thread, work, streams, waiting,
                     spinning, woken, pending, active>>
  BY DEF TakeTouched
<1>2. \/ ~touched_all /\ keys' = touched \cup fresh \cup waiting
      \/ keys' = streams
  BY DEF TakeTouched
<1>3. keys = {}
  BY <1>1 DEF Signalled
<1>4. TypeOK'
  BY <1>1, <1>2 DEF TypeOK, opened, flags, work
<1>5. arrived \cap streams \subseteq keys' /\ unsent \subseteq keys'
  BY <1>2, <1>3 DEF TypeOK, Signalled
<1> QED BY <1>1, <1>4, <1>5 DEF TypeOK, Signalled, opened, flags, work

\* Serving a stream takes care of its event and of its bytes, or leaves it
\* waiting for room.
LEMMA ProgressSignalled ==
    ASSUME TypeOK, Signalled, NEW k \in Keys, Progress(k)
    PROVE  TypeOK' /\ Signalled'
<1>1. /\ at = "Serve" /\ k \in keys /\ keys' = keys \ {k}
      /\ UNCHANGED <<table, opened, flags, thread, streams, fresh, local>>
  BY DEF Progress
<1>2. Flagged' = Flagged
  BY <1>1 DEF Flagged, flags, local
<1>3. CASE k \in streams
  <2>1. arrived' = arrived \ {k} /\ Serve(k, unsent)
    BY <1>3 DEF Progress
  <2>2. /\ room' \in BOOLEAN
        /\ room' => room
        /\ unsent' \ {k} = unsent \ {k} /\ waiting' \ {k} = waiting \ {k}
        /\ room => k \notin unsent'
        /\ k \in unsent' <=> k \in waiting'
    <3>1. unsent \in SUBSET Keys
      BY DEF TypeOK
    <3> QED BY <1>3, <2>1, <3>1, ServeFacts
  <2>3. TypeOK'
    BY <1>1, <1>3, <2>1, <2>2 DEF TypeOK, table, opened, flags, local
  <2>4. room' /\ unsent' # {} => room /\ unsent # {}
    BY <2>2
  <2>5. room' /\ unsent \subseteq keys => unsent' \subseteq keys'
    BY <1>1, <2>2
  <2> QED BY <1>1, <1>2, <2>1, <2>3, <2>4, <2>5 DEF Signalled, table, opened, flags, local
<1>4. CASE k \notin streams
  <2>1. UNCHANGED <<work, waiting>>
    BY <1>4 DEF Progress
  <2> QED BY <1>1, <1>2, <1>4, <2>1 DEF TypeOK, Signalled, table, opened, flags, work, local
<1> QED BY <1>3, <1>4

\* The end of a pass changes no set.
LEMMA ServedSignalled ==
    ASSUME TypeOK, Signalled, Served
    PROVE  TypeOK' /\ Signalled'
<1>1. /\ at = "Serve" /\ keys = {} /\ at' = "Settle"
      /\ UNCHANGED <<table, opened, flags, thread, work, own, spinning, woken, pending, active>>
  BY DEF Served
<1>2. Flagged' = Flagged
  BY <1>1 DEF Flagged, flags
<1> QED BY <1>1, <1>2 DEF TypeOK, Signalled, table, opened, flags, work, own

\* Parking: the flag is looked at once more after the device has been told to
\* use the pipe.
LEMMA SpinSignalled ==
    ASSUME TypeOK, Signalled, Settle \/ Parking \/ Unpark
    PROVE  TypeOK' /\ Signalled'
<1>1. /\ at \in {"Settle", "Parking", "Unpark"} /\ at' \in {"Kevent", "Parking", "Unpark"}
      /\ UNCHANGED <<table, opened, stream_pending, pipe, thread, work, own,
                     woken, pending, active>>
  BY DEF Settle, Parking, Unpark, flags
<1>2. Flagged' = Flagged
  BY <1>1 DEF Flagged
<1>3. /\ spinning' \in BOOLEAN /\ reactor_spinning' \in BOOLEAN
      /\ spinning' = (reactor_spinning' \/ at' = "Unpark")
      /\ at' \in {"Parking", "Unpark"} => ~reactor_spinning'
      /\ at' = "Kevent" /\ ~spinning' => ~stream_pending
  <2>1. CASE Settle
    BY <2>1 DEF Settle, TypeOK, Signalled
  <2>2. CASE Parking
    BY <2>2 DEF Parking, TypeOK, Signalled, flags
  <2>3. CASE Unpark
    BY <2>3 DEF Unpark, TypeOK, Signalled
  <2> QED BY <2>1, <2>2, <2>3
<1> QED BY <1>1, <1>2, <1>3 DEF TypeOK, Signalled, table, opened, work, own

\* Every step of every thread keeps the types and Signalled.
LEMMA NextSignalled ==
    ASSUME TypeOK, Signalled, [Next]_vars PROVE TypeOK' /\ Signalled'
<1>1. CASE UNCHANGED vars
  <2>1. Flagged' = Flagged
    BY <1>1 DEF Flagged, vars, flags, local
  <2> QED BY <1>1, <2>1
      DEF TypeOK, Signalled, vars, table, opened, flags, work, own, local
<1>2. CASE Reactor
  BY <1>2, KeventSignalled, SwapSignalled, DrainSignalled, TakeCommandsSignalled,
     TakeTouchedSignalled, ProgressSignalled, ServedSignalled, SpinSignalled DEF Reactor
<1> QED BY <1>1, <1>2, ChangeSignalled, MakeRoomSignalled, ProgressedSignalled,
           AcceptSignalled DEF Next

\* Signalled holds in every reachable state: what there is to do is always
\* behind a flag or a pipe write.
THEOREM AlwaysSignalled == Spec => [](TypeOK /\ Signalled)
<1>1. (TypeOK /\ Signalled) /\ [Next]_vars => (TypeOK /\ Signalled)'
  BY NextSignalled
<1> QED BY <1>1, InitSignalled, PTL DEF Spec

\* The reactor never blocks in kevent over a command, an event or a stream with
\* room, once the threads that brought them have finished.
THEOREM NoWakeIsLost == Spec => []NoLostWake
<1>1. TypeOK /\ Signalled => NoLostWake
  <2> SUFFICES ASSUME TypeOK, Signalled, Parked, Quiet
               PROVE  commands = {} /\ arrived \cap streams = {} /\ (room => unsent = {})
    BY DEF NoLostWake
  <2>1. at = "Kevent" /\ ~spinning /\ ~pipe /\ accepting = {}
    BY DEF Parked, Quiet
  <2>2. ~stream_pending
    BY <2>1 DEF Signalled, Quiet
  <2>3. ~Flagged
    BY <2>1, <2>2 DEF Flagged, Quiet
  <2> QED BY <2>1, <2>3 DEF Signalled, TypeOK
<1> QED BY <1>1, AlwaysSignalled, PTL
================================================================================
