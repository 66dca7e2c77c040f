------------------------------- MODULE VsockRing -------------------------------
(***************************************************************************)
(* The virtio-vsock device's connection table and the transmit ring that   *)
(* every connection shares (virtio/vsock/mod.rs).                          *)
(*                                                                         *)
(* A payload the guest sends stays in the guest's own buffers until the    *)
(* host has written it: its descriptor chain is held.  The ring is finite, *)
(* so no connection holds more than a share of it and a reserve is never   *)
(* held; a payload beyond either is copied and its chain returned at once. *)
(*                                                                         *)
(* `inner` is the state behind the device's lock, and every operator on it *)
(* is a method of the source applied to that state.  Servers are the host  *)
(* threads (pumps, the reactor) that carry a connection's bytes to a host  *)
(* socket; they know a connection by its key alone.  The guest is          *)
(* arbitrary: it may send any packet on any key, answer or not, and reuse  *)
(* a port.  Bytes are counted in whole payloads; what credit they cost is  *)
(* the subject of VsockFlow.  Elapsed time is a choice of the sweep.       *)
(***************************************************************************)
EXTENDS VsockCredit, Sequences, FiniteSets

CONSTANTS
    GuestKeys,   \* (host port, guest port) pairs of connections the guest opens
    HostKeys,    \* those of connections the host opens, with a port of its own each
    Heads,       \* the transmit ring's chains
    NoKey,       \* no connection
    MaxId,       \* bound: connections ever inserted
    MaxOwned,    \* bound: copied payloads waiting, which the guest's credit limits
    Loads        \* the workloads: what the guest and the host may do, and how much

Ops == {"Request", "Response", "Rst", "Rw",
        "ShutdownSend", "ShutdownRcv", "ShutdownBoth"}
Keys == GuestKeys \cup HostKeys
Ids  == 1..MaxId

ASSUME RingAssumption ==
    /\ IsFiniteSet(Heads)
    /\ GuestKeys \cap HostKeys = {}
    /\ NoKey \notin Keys
    /\ MaxId \in Nat /\ MaxOwned \in Nat
    /\ Loads \subseteq [keys : SUBSET Keys,    \* the connections in use
                         ops : SUBSET Ops,      \* the packets the guest sends
                         opens : 0..MaxId,      \* bound: connections inserted
                         posts : 0..2,          \* bound: packets posted and not popped
                         chains : 0..Cardinality(Heads),  \* bound: chains in use at once
                         resets : BOOLEAN]      \* whether the driver resets the device

VARIABLES
    inner,    \* the device's state behind its lock
    servers,  \* the host thread serving the connection with each id
    posted,   \* packets in the transmit ring the device has not popped
    free,     \* chains that are the guest's
    load      \* the workload, which never changes

vars == <<inner, servers, posted, free>>
--------------------------------------------------------------------------------
(* Types.  A key with no connection has the record Absent.                 *)

NewConn(state, id) ==
    [state |-> state, id |-> id, queued |-> {}, owned |-> 0,
     guest_done |-> FALSE, guest_receive_closed |-> FALSE,
     buffered |-> 0, held |-> 0, window |-> Open]

Absent == NewConn("None", 0)

\* A connection: `queued` are the chains in its outbound queue and `owned`
\* the copies there; `buffered` is received - fwd_cnt, which wraps.
Conn ==
    [state : {"None", "Connecting", "Established", "Closed"},
     id : Nat, queued : SUBSET Heads, owned : Nat,
     guest_done : BOOLEAN, guest_receive_closed : BOOLEAN,
     buffered : 0..(WRAP - 1), held : Nat, window : Nat]

Inner ==
    [conns : [Keys -> Conn],
     done : SUBSET Heads,                             \* finished, not returned
     held : Nat,                                      \* chains taken
     holders : [Heads -> ({NoKey} \cup Keys) \X Nat], \* who holds each
     next_id : Nat, granted : Nat,
     ring_full : BOOLEAN]

\* A server reads the header of a stream the guest opened, then carries
\* each batch it takes (`heads` and `owned` copies) to its socket and
\* acknowledges what it has written.  One that failed, or that
\* has delivered the guest's EOF, has only the close of its key left to do.
Server ==
    [key : Keys \cup {NoKey}, phase : {"Header", "Serving", "Failed", "Drained"},
     heads : SUBSET Heads, owned : Nat, unacked : Nat]

Packet == [head : Heads, key : Keys, op : Ops]

Nobody == <<NoKey, 0>>
Live(d, k) == d.conns[k].state # "None"
HeldBy(d, k, i) == {h \in Heads : d.holders[h] = <<k, i>>}
Held(d) == {h \in Heads : d.holders[h] # Nobody}

\* tx_limits: the most chains held at once, and the most by one connection.
Ring == Most(Cardinality(Heads), 4)
RingLimit == Ring - Ring \div 4
Share == Ring \div 4
--------------------------------------------------------------------------------
(* Methods of Inner.                                                       *)

\* Mutants: queued chains are dropped, or the window is kept.
RetireLeakingChains(d, c) == [d EXCEPT !.granted = GiveBack(@, c.window)]
RetireKeepingWindow(d, c) == [d EXCEPT !.done = @ \cup c.queued]

\* retire: the window goes back to the budget and queued chains to `done`.
Retire(d, c) ==
    [d EXCEPT !.granted = GiveBack(@, c.window), !.done = @ \cup c.queued]

Remove(d, k) ==
    IF Live(d, k)
    THEN [Retire(d, d.conns[k]) EXCEPT !.conns[k] = Absent]
    ELSE d

\* insert: a new connection under `k`, retiring the one it replaces.
Insert(d, k, st) ==
    LET old == IF Live(d, k) THEN Retire(d, d.conns[k]) ELSE d
    IN  [old EXCEPT !.next_id = @ + 1,
                    !.conns[k] = NewConn(st, d.next_id + 1)]

\* Mutant: a returned chain is counted against whatever connection has the
\* key of the one that held it.
FinishDoneByKey(d) ==
    [d EXCEPT
        !.done = {},
        !.held = SatSub(@, Cardinality(d.done)),
        !.holders = [h \in Heads |-> IF h \in d.done THEN Nobody ELSE @[h]],
        !.conns = [k \in Keys |->
            IF d.conns[k].state = "None" THEN d.conns[k]
            ELSE [d.conns[k] EXCEPT !.held =
                    SatSub(@, Cardinality({h \in d.done : d.holders[h][1] = k}))]]]

\* finish_done: finished chains, counted back against the ring and against
\* the connection that held them if it is still the one under its key.
FinishDone(d) ==
    [d EXCEPT
        !.done = {},
        !.held = SatSub(@, Cardinality(d.done)),
        !.holders = [h \in Heads |-> IF h \in d.done THEN Nobody ELSE @[h]],
        !.conns = [k \in Keys |->
            IF d.conns[k].state = "None" THEN d.conns[k]
            ELSE [d.conns[k] EXCEPT !.held =
                    SatSub(@, Cardinality(d.done \cap HeldBy(d, k, d.conns[k].id)))]]]

\* finish_shutdown: ends a connection we closed, or one the guest closed
\* both ways whose every byte has been delivered.
FinishShutdown(d, k) ==
    LET c == d.conns[k]
    IN  IF /\ Live(d, k)
           /\ \/ c.state = "Closed"
              \/ c.guest_done /\ c.guest_receive_closed /\ c.buffered = 0
        THEN Remove(d, k) ELSE d
--------------------------------------------------------------------------------
(* Packets from the guest.                                                 *)

\* Mutant: no share, only the ring's reserve.
CanHoldNoShare(d, k) ==
    d.conns[k].state \in {"Connecting", "Established"} /\ d.held < RingLimit

\* handle_guest_rw: whether the payload's chain is held rather than copied.
CanHold(d, k) ==
    /\ d.conns[k].state \in {"Connecting", "Established"}
    /\ d.conns[k].held < Share
    /\ d.held < RingLimit

HandleGuestRw(d, k, head) ==
    LET c == d.conns[k]
        more == WrapAdd(c.buffered, 1)
        kept == [c EXCEPT !.queued = c.queued \cup {head},
                          !.held = c.held + 1, !.buffered = more]
        copied == [c EXCEPT !.owned = c.owned + 1, !.buffered = more]
    IN  IF c.state \in {"None", "Closed"} THEN d
        ELSE IF CanHold(d, k)
        THEN [d EXCEPT !.held = d.held + 1,
                       !.holders[head] = <<k, c.id>>,
                       !.conns[k] = kept]
        ELSE [d EXCEPT !.conns[k] = copied]

\* Mutant: an answer opens a connection whatever its state.
HandleResponseAlways(d, k) ==
    IF Live(d, k) THEN [d EXCEPT !.conns[k].state = "Established"] ELSE d

HandleResponse(d, k) ==
    IF d.conns[k].state = "Connecting"
    THEN [d EXCEPT !.conns[k].state = "Established"] ELSE d

HandleShutdown(d, k, send, rcv) ==
    LET c == d.conns[k]
        told == [c EXCEPT !.guest_done = c.guest_done \/ send,
                          !.guest_receive_closed = c.guest_receive_closed \/ rcv]
    IN  IF Live(d, k)
        THEN FinishShutdown([d EXCEPT !.conns[k] = told], k) ELSE d

\* A REQUEST is accepted when something on the host listens on the port.
Accepts(d, p) == p.op = "Request" /\ p.key \in GuestKeys

Handle(d, p) ==
    CASE p.op = "Response" -> HandleResponse(d, p.key)
      [] p.op = "Rst" -> Remove(d, p.key)
      [] p.op = "ShutdownSend" -> HandleShutdown(d, p.key, TRUE, FALSE)
      [] p.op = "ShutdownRcv" -> HandleShutdown(d, p.key, FALSE, TRUE)
      [] p.op = "ShutdownBoth" -> HandleShutdown(d, p.key, TRUE, TRUE)
      [] p.op = "Rw" -> HandleGuestRw(d, p.key, p.head)
      [] p.op = "Request" ->
            IF Accepts(d, p) THEN Insert(d, p.key, "Established") ELSE d
--------------------------------------------------------------------------------
(* The device.                                                             *)

Idle == [key |-> NoKey, phase |-> "Serving", heads |-> {}, owned |-> 0, unacked |-> 0]

\* Requests still in the ring, for the bound on insertions.
Coming == Cardinality({j \in DOMAIN posted : Accepts(inner, posted[j])})
MayInsert == inner.next_id + Coming < load.opens

Start(k, i, phase) ==
    [servers EXCEPT ![i] = [Idle EXCEPT !.key = k, !.phase = phase]]

\* drain_tx, one packet of its batch: a chain that is not held goes back at
\* once, and after the last packet so does every finished chain.  The code
\* handles the batch under one lock; every run of it is also one of these.
DrainTx ==
    /\ posted # <<>>
    /\ LET p == Head(posted)
           last == Len(posted) = 1
           keeps == p.op = "Rw" /\ CanHold(inner, p.key)
           d == Handle(inner, p)
       IN  /\ posted' = Tail(posted)
           /\ inner' = IF last THEN FinishDone(d) ELSE d
           /\ free' = free \cup (IF keeps THEN {} ELSE {p.head})
                           \cup (IF last THEN d.done ELSE {})
           /\ servers' = IF Accepts(inner, p)
                         THEN Start(p.key, inner.next_id + 1, "Header") ELSE servers

\* notify on the receive queue, which the wakers cause: finished chains go
\* back whichever queue was notified.
CompleteDone ==
    /\ inner.done # {}
    /\ inner' = FinishDone(inner)
    /\ free' = free \cup inner.done
    /\ UNCHANGED <<servers, posted>>

\* The driver resets the device: the table goes, and every chain is the
\* guest's again.
Reset ==
    /\ load.resets
    /\ inner' = [inner EXCEPT !.conns = [k \in Keys |-> Absent]]
    /\ posted' = <<>>
    /\ free' = Heads
    /\ UNCHANGED servers
--------------------------------------------------------------------------------
(* Host threads.                                                           *)

\* next_port gives every connection the host opens a port of its own: a
\* key nothing refers to any more stands for a new one.
Unused(k) ==
    /\ \A i \in Ids : servers[i].key # k
    /\ \A j \in DOMAIN posted : posted[j].key # k

HostOpen(k) ==
    /\ k \in HostKeys \cap load.keys
    /\ ~Live(inner, k) /\ Unused(k)
    /\ MayInsert
    /\ inner' = Insert(inner, k, "Connecting")
    /\ servers' = Start(k, inner.next_id + 1, "Serving")
    /\ UNCHANGED <<posted, free>>

\* shutdown: the host closes its end; queued payloads are dropped.
Shutdown(d, k) ==
    LET c == d.conns[k]
        closed == [c EXCEPT !.state = "Closed", !.queued = {}, !.owned = 0]
    IN  IF Live(d, k)
        THEN [d EXCEPT !.done = d.done \cup c.queued, !.conns[k] = closed]
        ELSE d

\* A server closes its key: its socket ended or failed, perhaps while its
\* writer has a batch in hand, which the writer still completes.
Close(i) ==
    LET s == servers[i]
    IN  /\ s.key # NoKey /\ s.phase # "Header"
        /\ inner' = Shutdown(inner, s.key)
        /\ servers' = [servers EXCEPT ![i] =
                          IF s.phase = "Serving" THEN s ELSE Idle]
        /\ UNCHANGED <<posted, free>>

\* abandon: the opener stops waiting for the guest's answer.
Abandon(k) ==
    /\ k \in HostKeys /\ Live(inner, k)
    /\ inner' = Remove(inner, k)
    /\ UNCHANGED <<servers, posted, free>>

HoldsNothing(s) == s.heads = {} /\ s.owned = 0 /\ s.unacked = 0

\* take_outbound: everything queued under the server's key, or its end.
TakeOutbound(i) ==
    LET s == servers[i]
        c == inner.conns[s.key]
        some == c.queued # {} \/ c.owned > 0
    IN  /\ s.key # NoKey /\ s.phase = "Serving" /\ HoldsNothing(s)
        /\ \/ /\ some
              /\ servers' = [servers EXCEPT ![i] =
                    [s EXCEPT !.heads = c.queued, !.owned = c.owned]]
              /\ inner' = [inner EXCEPT !.conns[s.key] =
                    [c EXCEPT !.queued = {}, !.owned = 0]]
           \/ /\ ~some
              /\ c.state \in {"None", "Closed"} \/ c.guest_done
              /\ servers' = [servers EXCEPT ![i] =
                    IF c.state \in {"None", "Closed"} THEN Idle
                    ELSE [s EXCEPT !.phase = "Drained"]]
              /\ UNCHANGED inner
        /\ UNCHANGED <<posted, free>>

\* try_read_outbound: the listener reads the header a stream opens with,
\* whose chain goes back without leaving the lock; what it leaves of a
\* chain's payload stays queued as a copy.
ReadOutbound(i) ==
    LET s == servers[i]
        c == inner.conns[s.key]
        served == [s EXCEPT !.phase = "Serving"]
    IN  /\ s.key # NoKey /\ s.phase = "Header"
        /\ \/ \E h \in c.queued, rest \in {0, 1} :
                 /\ inner' = [inner EXCEPT
                        !.done = inner.done \cup {h},
                        !.conns[s.key] = [c EXCEPT !.queued = c.queued \ {h},
                                                   !.owned = c.owned + rest]]
                 /\ servers' = [servers EXCEPT ![i] =
                                  [served EXCEPT !.unacked = 1 - rest]]
           \/ /\ c.owned > 0
              /\ inner' = [inner EXCEPT !.conns[s.key] =
                              [c EXCEPT !.owned = c.owned - 1]]
              /\ servers' = [servers EXCEPT ![i] = [served EXCEPT !.unacked = 1]]
           \/ /\ c.queued = {} /\ c.owned = 0
              /\ c.state \in {"None", "Closed"} \/ c.guest_done
              /\ servers' = [servers EXCEPT ![i].phase = "Failed"]
              /\ UNCHANGED inner
        /\ UNCHANGED <<posted, free>>

\* Mutant: written bytes are acknowledged for the chains only.
CompleteUncounted(i) ==
    LET s == servers[i]
    IN  /\ s.key # NoKey
        /\ s.heads # {} \/ s.owned > 0
        /\ inner' = [inner EXCEPT !.done = @ \cup s.heads]
        /\ servers' = [servers EXCEPT ![i] =
              [s EXCEPT !.heads = {}, !.owned = 0,
                        !.unacked = s.unacked + Cardinality(s.heads)]]
        /\ UNCHANGED <<posted, free>>

\* complete after a write of part or all of the batch: chains go to `done`,
\* and the bytes await their acknowledgement.
Complete(i) ==
    LET s == servers[i]
    IN  /\ s.key # NoKey
        /\ \E hs \in SUBSET s.heads, n \in 0..s.owned :
              /\ hs # {} \/ n > 0
              /\ inner' = [inner EXCEPT !.done = @ \cup hs]
              /\ servers' = [servers EXCEPT ![i] =
                    [s EXCEPT !.heads = s.heads \ hs, !.owned = s.owned - n,
                              !.unacked = s.unacked + Cardinality(hs) + n]]
        /\ UNCHANGED <<posted, free>>

\* Mutant: a failed batch is dropped with its chains.
FailLeaking(i) ==
    LET s == servers[i]
    IN  /\ s.key # NoKey /\ (s.heads # {} \/ s.owned > 0)
        /\ servers' = [servers EXCEPT ![i] =
              [Idle EXCEPT !.key = s.key, !.phase = "Failed"]]
        /\ UNCHANGED <<inner, posted, free>>

\* complete after a failed write: every chain still goes back, nothing is
\* acknowledged, and the server has still to close its key.
Fail(i) ==
    LET s == servers[i]
    IN  /\ s.key # NoKey /\ (s.heads # {} \/ s.owned > 0)
        /\ inner' = [inner EXCEPT !.done = @ \cup s.heads]
        /\ servers' = [servers EXCEPT ![i] =
              [Idle EXCEPT !.key = s.key, !.phase = "Failed"]]
        /\ UNCHANGED <<posted, free>>

\* acknowledge: the connection under the key is credited; a close that only
\* waited for it ends, and otherwise the window may grow.
Acknowledge(i) ==
    LET s == servers[i]
        c == inner.conns[s.key]
        left == WrapSub(c.buffered, s.unacked)
        credited == [c EXCEPT !.buffered = left]
        consumed == [inner EXCEPT !.conns[s.key] = credited]
        grown == Grow(inner.granted, c.window)
    IN  /\ s.key # NoKey /\ s.unacked > 0
        /\ servers' = [servers EXCEPT ![i].unacked = 0]
        /\ UNCHANGED <<posted, free>>
        /\ \/ /\ ~Live(inner, s.key)
              /\ UNCHANGED inner
           \/ /\ Live(inner, s.key)
              /\ c.guest_done /\ c.guest_receive_closed /\ left = 0
              /\ inner' = FinishShutdown(consumed, s.key)
           \/ /\ Live(inner, s.key)
              /\ ~(c.guest_done /\ c.guest_receive_closed /\ left = 0)
              /\ \/ inner' = consumed            \* below a quarter of the window
                 \/ inner' = [inner EXCEPT
                        !.granted = inner.granted + (grown - c.window),
                        !.conns[s.key] = [credited EXCEPT !.window = grown]]
--------------------------------------------------------------------------------
(* The warden.  A pass that times out several connections is as many       *)
(* passes with nothing in between, so each ends or cuts at most one.       *)

Expired(d) == {k \in Keys : d.conns[k].state \in {"Closed", "Connecting"}}
Stalled(d) == {k \in Keys : /\ d.conns[k].state = "Established"
                            /\ d.conns[k].window > MIN_WINDOW}

CutWindow(d, k) ==
    LET c == d.conns[k]
    IN  [d EXCEPT !.granted = GiveBack(d.granted, c.window),
                  !.conns[k] = [c EXCEPT !.window = Shrink(c.window)]]

\* The connections the watchdog would reset: those that hold the most.
Worst(d) == {k \in Keys : /\ Live(d, k) /\ d.conns[k].held > 0
                          /\ \A j \in Keys : d.conns[j].held <= d.conns[k].held}

\* The watchdog: a ring at its limit since an earlier pass, with nothing
\* returned for long enough, costs the connection that holds the most.
Watchdog(d) ==
    IF d.held < RingLimit THEN {[d EXCEPT !.ring_full = FALSE]}
    ELSE {[d EXCEPT !.ring_full = TRUE]} \cup
         (IF d.ring_full
          THEN {[Remove(d, k) EXCEPT !.ring_full = FALSE] : k \in Worst(d)}
          ELSE {})

SweepOf(k) ==
    /\ k \in Expired(inner)
    /\ inner' \in Watchdog(Remove(inner, k))
    /\ UNCHANGED <<servers, posted, free>>

Sweep ==
    /\ \E d \in {inner} \cup {Remove(inner, k) : k \in Expired(inner)}
                        \cup {CutWindow(inner, k) : k \in Stalled(inner)} :
            inner' \in Watchdog(d)
    /\ UNCHANGED <<servers, posted, free>>
--------------------------------------------------------------------------------
(* The guest's driver: any packet, on any key, while it has a chain.       *)

GuestPost(head, k, op) ==
    /\ head \in free /\ k \in load.keys /\ op \in load.ops
    /\ Len(posted) < load.posts /\ Cardinality(Heads \ free) < load.chains
    /\ op = "Rw" => inner.conns[k].owned < MaxOwned
    /\ op = "Request" => MayInsert
    /\ free' = free \ {head}
    /\ posted' = Append(posted, [head |-> head, key |-> k, op |-> op])
    /\ UNCHANGED <<inner, servers>>
--------------------------------------------------------------------------------
Init ==
    /\ inner = [conns |-> [k \in Keys |-> Absent], done |-> {}, held |-> 0,
                holders |-> [h \in Heads |-> Nobody], next_id |-> 0,
                granted |-> 0, ring_full |-> FALSE]
    /\ servers = [i \in Ids |-> Idle]
    /\ posted = <<>>
    /\ free = Heads
    /\ load \in Loads

Serve(i) ==
    \/ TakeOutbound(i)
    \/ ReadOutbound(i)
    \/ Complete(i)
    \/ Fail(i)
    \/ Acknowledge(i)
    \/ Close(i)

Next ==
    /\ \/ DrainTx
       \/ CompleteDone
       \/ Reset
       \/ Sweep
       \/ \E k \in Keys : HostOpen(k) \/ Abandon(k)
       \/ \E i \in Ids : Serve(i)
       \/ \E h \in Heads, k \in Keys, op \in Ops : GuestPost(h, k, op)
    /\ UNCHANGED load

Spec == Init /\ [][Next]_<<vars, load>>

\* The device and the warden keep running, and a host peer takes the bytes
\* it is given or its socket fails: fairness of every step but the guest's
\* and the host's own choices.
Fairness ==
    /\ WF_vars(DrainTx) /\ WF_vars(CompleteDone)
    /\ \A k \in Keys : WF_vars(SweepOf(k))
    /\ \A i \in Ids :
          /\ WF_vars(ReadOutbound(i)) /\ WF_vars(TakeOutbound(i))
          /\ WF_vars(Complete(i) \/ Fail(i))
          /\ WF_vars(Acknowledge(i))
          /\ WF_vars(servers[i].phase = "Failed" /\ Close(i))

FairSpec == Spec /\ Fairness
--------------------------------------------------------------------------------
\* Every variable has its type: the device's table and counts, the servers, the
\* transmit ring and the guest's free chains.
TypeOK ==
    /\ inner \in Inner
    /\ servers \in [Ids -> Server]
    /\ posted \in Seq(Packet)
    /\ free \subseteq Heads

Posted == {posted[j].head : j \in DOMAIN posted}

\* Every chain has exactly one owner: the guest, the ring, the queue of one
\* connection, the hands of one server, or `done`.  A chain with none is
\* leaked, and one with two is returned twice.
ChainsOwnedOnce ==
    /\ \A h \in Heads :
          \/ h \in free \cup Posted \cup inner.done
          \/ \E k \in Keys : h \in inner.conns[k].queued
          \/ \E i \in Ids : h \in servers[i].heads
    /\ free \cap Posted = {} /\ (free \cup Posted) \cap Held(inner) = {}
    /\ \A m, n \in DOMAIN posted : posted[m].head = posted[n].head => m = n
    /\ \A k \in Keys :
          /\ inner.conns[k].queued \subseteq HeldBy(inner, k, inner.conns[k].id)
          /\ inner.conns[k].queued \cap inner.done = {}
    /\ \A i \in Ids :
          /\ servers[i].heads \subseteq Held(inner) \ inner.done
          /\ \A k \in Keys : servers[i].heads \cap inner.conns[k].queued = {}
          /\ \A j \in Ids \ {i} : servers[i].heads \cap servers[j].heads = {}
    /\ inner.done \subseteq Held(inner)

\* The counts the limits are taken on are exact: `held` is the number of
\* chains taken from the ring, and each connection's the number it holds,
\* whatever connections were replaced under the same key meanwhile.
HeldExact ==
    /\ inner.held = Cardinality(Held(inner))
    /\ \A k \in Keys : Live(inner, k) =>
          inner.conns[k].held = Cardinality(HeldBy(inner, k, inner.conns[k].id))

\* No connection holds more than its share of the ring, and the reserve is
\* never held (TX_SHARE_DIVISOR, TX_RESERVE_DIVISOR).
ShareAndReserve ==
    /\ inner.held <= RingLimit
    /\ \A k \in Keys : inner.conns[k].held <= Share

\* Budget::grow never promises more than the budget has, however windows
\* grow, are cut and are given back.
GrantedBounded == inner.granted <= BUDGET

\* What a connection counts as buffered is what its server has yet to
\* deliver, the batch in its hands included.
AllBuffered(i) ==
    LET s == servers[i]
        c == inner.conns[s.key]
    IN  s.phase \in {"Header", "Serving"} /\ c.state \in {"Connecting", "Established"}
        => c.buffered = Cardinality(c.queued) + c.owned
                        + Cardinality(s.heads) + s.owned + s.unacked

\* Conn::buffered ("bytes taken from the guest and not yet on the host
\* socket") is exact for every connection whose key is its own.  A graceful
\* close waits for it to reach zero, so it never overtakes a batch.
BufferedExact == \A i \in Ids : servers[i].key \in HostKeys => AllBuffered(i)

\* A connection the host closed is never open again: an answer that comes
\* after the close would leave it established with nobody to end it.
ClosedStays ==
    [][\A k \in Keys :
          /\ inner.conns[k].state = "Closed"
          /\ inner'.conns[k].id = inner.conns[k].id
          => inner'.conns[k].state = "Closed"]_vars

\* No chain is kept for good: one the device holds goes back to the guest,
\* through a failed write, a close or a replaced connection.  A driver that
\* resets the device is left out: reset drops queued payloads uncounted.
ChainsReturned ==
    \A h \in Heads : (~load.resets /\ h \in Held(inner)) ~> h \notin Held(inner)

================================================================================
