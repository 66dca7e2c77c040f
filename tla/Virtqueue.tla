------------------------------- MODULE Virtqueue -------------------------------
(***************************************************************************)
(* One virtqueue (queue.rs): the device's cursors q over the rings m in    *)
(* guest memory, in the split layout with and without the event index and  *)
(* in the packed layout.  An operator of the device reads or writes the    *)
(* rings once; entries are merged with the index or the flags that publish *)
(* them, which is what the fences in the code are for.                     *)
(*                                                                         *)
(* The driver's half, d, is Linux's virtio_ring.c (external).              *)
(***************************************************************************)
EXTENDS Integers, FiniteSets, FiniteSetsExt

CONSTANTS
    SIZE,    \* slots of the ring
    W        \* indices are counted modulo W (65536 in the code)

ASSUME QueueAssumption ==
    /\ SIZE \in Nat \ {0}
    /\ W \in Nat /\ W >= 2 * SIZE /\ W % (2 * SIZE) = 0

Ids == 0 .. SIZE - 1
Slots == 0 .. SIZE - 1
None == -1
Layouts == {"flags", "event_idx", "packed"}

WrapAdd(x, n) == (x + n) % W
WrapSub(x, n) == (x - n) % W

\* need_event: whether what was wanted lies among what was added.
NeedEvent(wanted, now, last) ==
    WrapSub(WrapSub(now, wanted), 1) < WrapSub(now, last)
--------------------------------------------------------------------------------
NewQueue ==
    [ready |-> FALSE, layout |-> "flags", next_avail |-> 0, next_used |-> 0,
     avail_wrap |-> TRUE, used_wrap |-> TRUE,
     suppressed |-> FALSE, published |-> None,
     signalled_used |-> 0, used_total |-> 0, signalled_total |-> 0,
     chain_len |-> [id \in Ids |-> 1], outstanding |-> {}]

\* The rings as a driver lays them out: zeroed.
NewRings ==
    [avail_idx |-> 0, avail |-> [s \in Slots |-> None],
     used_idx |-> 0, used |-> [s \in Slots |-> None],
     avail_event |-> 0, used_event |-> 0, no_notify |-> FALSE, no_interrupt |-> FALSE,
     desc |-> [s \in Slots |-> [id |-> None, next |-> FALSE, avail |-> FALSE, used |-> FALSE]],
     driver_flags |-> "ENABLE", driver_pos |-> 0, driver_wrap |-> FALSE,
     device_flags |-> "ENABLE"]

Packed(q) == q.layout = "packed"
--------------------------------------------------------------------------------
(* Taking chains.                                                          *)

IsAvailable(q, e) == e.avail = q.avail_wrap /\ e.used # e.avail

\* has_work, more_available and a non-zero outstanding().
HasWork(q, m) ==
    q.ready /\ IF Packed(q) THEN IsAvailable(q, m.desc[q.next_avail])
               ELSE m.avail_idx # q.next_avail

\* The slots of the packed chain at the cursor: up to the first without NEXT.
ChainSlots(q, m) ==
    Min({SIZE} \cup {n \in 1 .. SIZE : ~m.desc[(q.next_avail + n - 1) % SIZE].next})

Head(q, m) ==
    IF Packed(q) THEN m.desc[(q.next_avail + ChainSlots(q, m) - 1) % SIZE].id
    ELSE m.avail[q.next_avail % SIZE]


AdvanceAvail(q, slots) ==
    [q EXCEPT !.next_avail = (@ + slots) % SIZE,
              !.avail_wrap = IF q.next_avail + slots >= SIZE THEN ~@ ELSE @]

MarkTaken(q, id) == [q EXCEPT !.outstanding = @ \cup {id}]

\* pop and pop_packed, of a ring that has work.
Pop(q, m) ==
    IF Packed(q)
    THEN MarkTaken([AdvanceAvail(q, ChainSlots(q, m)) EXCEPT
                       !.chain_len[Head(q, m)] = ChainSlots(q, m)], Head(q, m))
    ELSE MarkTaken([q EXCEPT !.next_avail = WrapAdd(@, 1)], Head(q, m))
--------------------------------------------------------------------------------
(* Returning chains.                                                       *)

\* The cursors after push_used; a head that is not outstanding is refused.
Pushed(q, id) ==
    IF id \notin q.outstanding THEN q
    ELSE IF Packed(q)
    THEN [q EXCEPT !.outstanding = @ \ {id}, !.next_used = (@ + q.chain_len[id]) % SIZE,
                   !.used_wrap = IF q.next_used + q.chain_len[id] >= SIZE THEN ~@ ELSE @,
                   !.used_total = WrapAdd(@, q.chain_len[id])]
    ELSE [q EXCEPT !.outstanding = @ \ {id}, !.next_used = WrapAdd(@, 1)]

\* The rings after push_used.
PushUsed(q, m, id) ==
    IF id \notin q.outstanding THEN m
    ELSE IF Packed(q)
    THEN [m EXCEPT !.desc[q.next_used] =
            [id |-> id, next |-> FALSE, avail |-> q.used_wrap, used |-> q.used_wrap]]
    ELSE [m EXCEPT !.used[q.next_used % SIZE] = id, !.used_idx = WrapAdd(q.next_used, 1)]
--------------------------------------------------------------------------------
(* Asking to be told, and telling.                                         *)

\* publish_avail_event: half the index space away is never reached.
WantEvent(q) == IF q.suppressed THEN WrapAdd(q.next_avail, W \div 2) ELSE q.next_avail
PublishEvent(q) == [q EXCEPT !.published = WantEvent(q)]
PublishAvailEvent(q, m) ==
    IF q.published = WantEvent(q) THEN m ELSE [m EXCEPT !.avail_event = WantEvent(q)]

\* arm_notifications.
Armed(q) == IF q.layout = "event_idx" THEN PublishEvent(q) ELSE q
ArmNotifications(q, m) == IF q.layout = "event_idx" THEN PublishAvailEvent(q, m) ELSE m

\* suppress_notifications, of a queue with an address.
Suppressed(q, on) ==
    LET s == [q EXCEPT !.suppressed = on] IN
    IF ~q.ready THEN q ELSE IF q.layout = "event_idx" THEN PublishEvent(s) ELSE s
SuppressNotifications(q, m, on) ==
    LET s == [q EXCEPT !.suppressed = on] IN
    CASE ~q.ready -> m
      [] Packed(q) -> [m EXCEPT !.device_flags = IF on THEN "DISABLE" ELSE "ENABLE"]
      [] q.layout = "event_idx" -> PublishAvailEvent(s, m)
      [] OTHER -> [m EXCEPT !.no_notify = on]

\* What needs_interrupt remembers, whatever it decides.
Asked(q) ==
    CASE q.layout = "event_idx" -> [q EXCEPT !.signalled_used = q.next_used]
      [] Packed(q) -> [q EXCEPT !.signalled_total = q.used_total]
      [] OTHER -> q

\* needs_interrupt in the split layouts.
NeedsInterrupt(q, m) ==
    IF q.layout = "event_idx" THEN NeedEvent(m.used_event, q.next_used, q.signalled_used)
    ELSE ~m.no_interrupt

\* Mutant: the distance forgets which lap the driver named.
BehindInLap(q, m) == (q.next_used - m.driver_pos) % SIZE

\* How far the driver's position is behind the cursor.
Behind(q, m) ==
    LET behind == (q.next_used - m.driver_pos) % SIZE
    IN  IF behind = 0 /\ m.driver_wrap # q.used_wrap THEN SIZE ELSE behind

\* needs_interrupt_packed, once the flags are read.
NeedsInterruptAt(q, m) ==
    NeedEvent(WrapSub(q.used_total, Behind(q, m)), q.used_total, q.signalled_total)
--------------------------------------------------------------------------------
(* The driver (external).                                                  *)

NewDriver ==
    [next_avail |-> 0, avail_wrap |-> TRUE, last_used |-> 0, used_wrap |-> TRUE,
     added |-> 0, free |-> Ids, len |-> [id \in Ids |-> 0]]

\* The slots of the chains S.
SlotsOf(d, S) == FoldSet(LAMBDA id, n : n + d.len[id], 0, S)

\* A chain of n slots under the name id; packed descriptors take the lap's
\* flags, and the last one the name.
AddChain(q, m, id, n, d) ==
    IF Packed(q)
    THEN [m EXCEPT !.desc = [s \in Slots |->
            LET k == (s - d.next_avail) % SIZE
                lap == IF d.next_avail + k >= SIZE THEN ~d.avail_wrap ELSE d.avail_wrap
            IN  IF k < n THEN [id |-> id, next |-> k < n - 1, avail |-> lap, used |-> ~lap]
                ELSE m.desc[s]]]
    ELSE [m EXCEPT !.avail[d.next_avail % SIZE] = id, !.avail_idx = WrapAdd(d.next_avail, 1)]

Added(q, id, n, d) ==
    LET e == [d EXCEPT !.free = @ \ {id}, !.len[id] = n, !.added = @ + 1]
    IN  IF Packed(q)
        THEN [e EXCEPT !.next_avail = (@ + n) % SIZE,
                       !.avail_wrap = IF d.next_avail + n >= SIZE THEN ~@ ELSE @]
        ELSE [e EXCEPT !.next_avail = WrapAdd(@, 1)]

\* virtqueue_kick_prepare.
WantsKick(q, m, d) ==
    CASE Packed(q) -> m.device_flags # "DISABLE"
      [] q.layout = "event_idx" ->
            NeedEvent(m.avail_event, d.next_avail, WrapSub(d.next_avail, d.added))
      [] OTHER -> ~m.no_notify

MoreUsed(q, m, d) ==
    IF Packed(q)
    THEN m.desc[d.last_used].avail = d.used_wrap /\ m.desc[d.last_used].used = d.used_wrap
    ELSE m.used_idx # d.last_used

UsedId(q, m, d) ==
    IF Packed(q) THEN m.desc[d.last_used].id ELSE m.used[d.last_used % SIZE]

GotBuf(q, m, d) ==
    LET id == UsedId(q, m, d)
        e == [d EXCEPT !.free = @ \cup {id}]
    IN  IF Packed(q)
        THEN [e EXCEPT !.last_used = (@ + d.len[id]) % SIZE,
                       !.used_wrap = IF d.last_used + d.len[id] >= SIZE THEN ~@ ELSE @]
        ELSE [e EXCEPT !.last_used = WrapAdd(@, 1)]

\* virtqueue_disable_cb: with the event index, an interrupt that was just
\* taken makes it unnecessary.
DisableCb(q, m) ==
    CASE Packed(q) -> {m, [m EXCEPT !.driver_flags = "DISABLE"]}
      [] q.layout = "event_idx" -> {m}
      [] OTHER -> {[m EXCEPT !.no_interrupt = TRUE]}

\* virtqueue_enable_cb: the position, and then the flags that make it current.
EnableAt(q, m, d) ==
    CASE Packed(q) -> [m EXCEPT !.driver_pos = d.last_used, !.driver_wrap = d.used_wrap]
      [] q.layout = "event_idx" -> [m EXCEPT !.used_event = d.last_used]
      [] OTHER -> [m EXCEPT !.no_interrupt = FALSE]
EnableCb(q, m) == IF Packed(q) THEN [m EXCEPT !.driver_flags = "DESC"] ELSE m
================================================================================
