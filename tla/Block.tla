--------------------------------- MODULE Block ---------------------------------
(***************************************************************************)
(* The block device (virtio/block.rs) over a sparse host file              *)
(* (virtio/disk.rs) that may run out of space, with the poller that        *)
(* retries what waits (virtio/poll.rs).                                    *)
(*                                                                         *)
(* A request is named by its place in the workload.  A sector holds the    *)
(* name of the request that wrote it last, 0 at first.  Interrupts and the *)
(* layout of the rings are QueueService's.                                 *)
(***************************************************************************)
EXTENDS Integers, Sequences, SequencesExt, FiniteSets, FiniteSetsExt

CONSTANTS
    SECTORS,   \* of the disk
    BLOCK,     \* sectors of a block of the host's filesystem
    SIZE,      \* slots of a ring
    Loads      \* the workloads a behaviour may start with

ASSUME BlockAssumption ==
    /\ {SECTORS, BLOCK, SIZE} \subseteq Nat \ {0}

VARIABLES
    load,      \* [requests, read_only, resets, fills, errors]
    offered,   \* requests the guest has offered
    rings,     \* those on each queue's ring
    popped,    \* the order the device took them in
    done,      \* progress of each mutation: sectors from its start
    pending,   \* [id, due], or NoPending
    backlog,
    retained,  \* of each queue
    waiting,   \* Disk::waiting, for the status command
    disk,      \* who wrote each sector last
    stable,    \* the same, of what fsync has covered
    host,      \* the host's volume: [full, fills, errors]
    answers,   \* [id, status, data, wrote] in the order of completion
    dropped,   \* requests forgotten by a reset
    held,      \* the holder of the transport lock and where it is
    poller,    \* [at, deadline, left]
    kicked,    \* Kicks::pending
    silent,    \* the driver is told not to kick
    cpu        \* one to a queue (external)

device == <<popped, done, pending, backlog, retained, waiting, disk, stable, answers>>
vars == <<load, offered, rings, device, host, dropped, held, poller, kicked, silent, cpu>>

Ids == DOMAIN load.requests
Request(id) == load.requests[id]
Queues == {Request(id).queue : id \in Ids}
Sectors == 0 .. SECTORS - 1
NoPending == [id |-> 0, due |-> FALSE]
Free == [by |-> "none", at |-> "Idle", queue |-> 0, round |-> {}, moved |-> FALSE, todo |-> <<>>]
Unlocked == held.by = "none"

Init ==
    /\ load \in Loads
    /\ offered = 0
    /\ rings = [q \in Queues |-> <<>>]
    /\ popped = <<>>
    /\ done = [id \in Ids |-> 0]
    /\ pending = NoPending /\ backlog = <<>> /\ retained = [q \in Queues |-> 0]
    /\ waiting = FALSE
    /\ disk = [s \in Sectors |-> 0] /\ stable = disk
    /\ host = [full |-> FALSE, fills |-> load.fills, errors |-> load.errors, resets |-> load.resets]
    /\ answers = <<>> /\ dropped = {}
    /\ held = Free
    /\ poller = [at |-> "Deadline", deadline |-> FALSE, left |-> {}]
    /\ kicked = FALSE /\ silent = FALSE
    /\ cpu = [q \in Queues |-> "Idle"]
--------------------------------------------------------------------------------
(* Operations.                                                             *)

Covers(r) == r.at .. r.at + r.len - 1
Mutates(r) == r.kind \in {"write", "discard", "zero"}

\* mutation_range: all of it, whatever has been written.
MutationRange(r) == IF Mutates(r) THEN Covers(r) ELSE {}

\* prepare: what is answered at once, in whatever state the device is.
Refused(r) ==
    \/ r.kind \in {"read", "write", "discard", "zero"} /\ r.at + r.len > SECTORS
    \/ Mutates(r) /\ load.read_only

\* Mutant: anything may pass what it does not overlap.
MayPassBeside(r, earlier) ==
    r.kind = "id" \/ Covers(r) \cap MutationRange(earlier) = {}

\* Mutant: a flush passes mutations.
MayPassFlush(r, earlier) ==
    \/ r.kind \in {"id", "flush"}
    \/ r.kind = "read" /\ Covers(r) \cap MutationRange(earlier) = {}

\* may_pass.
MayPass(r, earlier) ==
    \/ r.kind = "id"
    \/ r.kind = "read" /\ Covers(r) \cap MutationRange(earlier) = {}

\* Mutant: only the request at the head is compared.
CanPassHead(r) == pending # NoPending => MayPass(r, Request(pending.id))

\* can_pass.
CanPass(r) ==
    /\ pending # NoPending => MayPass(r, Request(pending.id))
    /\ \A k \in DOMAIN backlog : MayPass(r, Request(backlog[k]))

\* punch_hole: the blocks that lie in the range whole.
Punched(r) ==
    {s \in Covers(r) : LET b == (s \div BLOCK) * BLOCK IN b .. b + BLOCK - 1 \subseteq Covers(r)}

\* What a request covers when it has gone as far as n sectors.
Reached(r, n) ==
    CASE r.kind \in {"write", "zero"} -> r.at .. r.at + n - 1
      [] r.kind = "discard" -> IF n = r.len THEN Punched(r) ELSE {}
      [] OTHER -> {}

\* How far perform may get from n, and the error it stops at: a full volume
\* may refuse any part of a mutation or a flush, and a failing one anything.
Stops(r, n) ==
    IF r.kind \in {"write", "zero"} THEN n .. r.len - 1
    ELSE IF r.kind = "discard" /\ Punched(r) = {} THEN {} ELSE {0}
Outcomes(r, n) ==
    {[to |-> r.len, error |-> "none"]}
        \cup [to : Stops(r, n), error : {e \in {"ENOSPC"} : host.full /\ r.kind \notin {"read", "id"}}]
        \cup [to : Stops(r, n), error : {e \in {"EIO"} : host.errors > 0 /\ r.kind # "id"}]
--------------------------------------------------------------------------------
(* The device, under the lock.                                             *)

Answer(id, status, data, wrote) ==
    answers' = Append(answers, [id |-> id, status |-> status, data |-> data, wrote |-> wrote])

\* perform: what it leaves on the volume.
Perform(id, o) ==
    LET r == Request(id) IN
    /\ done' = [done EXCEPT ![id] = o.to]
    /\ disk' = [s \in Sectors |->
          IF s \in Reached(r, o.to) \ Reached(r, done[id]) THEN id ELSE disk[s]]
    /\ stable' = IF r.kind = "flush" /\ o.error = "none" /\ ~load.read_only THEN disk ELSE stable
    /\ host' = IF o.error = "EIO" THEN [host EXCEPT !.errors = @ - 1] ELSE host

\* The answer to a request perform has finished with.
Finish(id, o) ==
    LET r == Request(id)
    IN  Answer(id, IF o.error = "none" THEN "OK" ELSE "IOERR",
               IF r.kind = "read" THEN [s \in Covers(r) |-> disk[s]] ELSE <<>>, Reached(r, o.to))

\* submit: n is what the queue retains without this request.
Submit(id, q, n) ==
    \/ /\ pending # NoPending /\ ~CanPass(Request(id))
       /\ backlog' = Append(backlog, id)
       /\ retained' = [retained EXCEPT ![q] = n + 1]
       /\ UNCHANGED <<done, disk, stable, host, pending, waiting, answers>>
    \/ /\ pending # NoPending => CanPass(Request(id))
       /\ \E o \in Outcomes(Request(id), done[id]) :
             /\ Perform(id, o)
             /\ IF o.error = "ENOSPC"
                THEN /\ pending' = [id |-> id, due |-> FALSE] /\ waiting' = TRUE
                     /\ retained' = [retained EXCEPT ![q] = n + 1]
                     /\ UNCHANGED answers
                ELSE /\ Finish(id, o)
                     /\ retained' = [retained EXCEPT ![q] = n]
                     /\ UNCHANGED <<pending, waiting>>
       /\ UNCHANGED backlog

\* process_queue: one more request, while the ring's worth is not retained.
Pop ==
    /\ held.at = "Serve"
    /\ LET q == held.queue
           id == Head(rings[q])
       IN  /\ retained[q] < SIZE /\ rings[q] # <<>>
           /\ rings' = [rings EXCEPT ![q] = Tail(@)]
           /\ popped' = Append(popped, id)
           /\ IF Refused(Request(id))
              THEN /\ Answer(id, "IOERR", <<>>, {})
                   /\ UNCHANGED <<done, disk, stable, host, pending, waiting, backlog, retained>>
              ELSE Submit(id, q, retained[q])
    /\ held' = [held EXCEPT !.moved = TRUE]
    /\ UNCHANGED <<load, offered, dropped, poller, kicked, silent, cpu>>

\* Mutant: what waited behind the head is not submitted again.
RetryHeadOnly ==
    /\ held.at = "Retry"
    /\ \E o \in Outcomes(Request(pending.id), done[pending.id]) :
          /\ Perform(pending.id, o)
          /\ IF o.error = "ENOSPC"
             THEN /\ pending' = [pending EXCEPT !.due = FALSE] /\ waiting' = TRUE
                  /\ held' = [held EXCEPT !.at = "Look"]
                  /\ UNCHANGED <<answers, retained, backlog>>
             ELSE /\ pending' = NoPending /\ waiting' = FALSE
                  /\ Finish(pending.id, o)
                  /\ retained' = [retained EXCEPT ![Request(pending.id).queue] = @ - 1]
                  /\ held' = [held EXCEPT !.at = "Look"]
                  /\ UNCHANGED backlog
    /\ UNCHANGED <<load, offered, rings, popped, dropped, poller, kicked, silent, cpu>>

\* retry, when the deadline has passed: the request that waits.
Retry ==
    /\ held.at = "Retry"
    /\ \E o \in Outcomes(Request(pending.id), done[pending.id]) :
          /\ Perform(pending.id, o)
          /\ IF o.error = "ENOSPC"
             THEN /\ pending' = [pending EXCEPT !.due = FALSE] /\ waiting' = TRUE
                  /\ held' = [held EXCEPT !.at = "Look"]
                  /\ UNCHANGED <<answers, retained, backlog>>
             ELSE /\ pending' = NoPending /\ waiting' = FALSE
                  /\ Finish(pending.id, o)
                  /\ retained' = [retained EXCEPT ![Request(pending.id).queue] = @ - 1]
                  /\ held' = [held EXCEPT !.at = "Resubmit", !.todo = backlog]
                  /\ backlog' = <<>>
    /\ UNCHANGED <<load, offered, rings, popped, dropped, poller, kicked, silent, cpu>>

\* retry: each that was behind it, in order.
Resubmit ==
    /\ held.at = "Resubmit" /\ held.todo # <<>>
    /\ LET id == Head(held.todo)
           q == Request(id).queue
       IN  Submit(id, q, retained[q] - 1)
    /\ held' = [held EXCEPT !.todo = Tail(@)]
    /\ UNCHANGED <<load, offered, rings, popped, dropped, poller, kicked, silent, cpu>>

\* The call returns to the transport, which looks at every ring again.
Return ==
    /\ \/ held.at = "Serve" /\ (retained[held.queue] = SIZE \/ rings[held.queue] = <<>>)
       \/ held.at = "Resubmit" /\ held.todo = <<>>
    /\ held' = [held EXCEPT !.at = "Look", !.round = IF held.at = "Serve" THEN @ ELSE {},
                            !.moved = IF held.at = "Serve" THEN @ ELSE TRUE]
    /\ UNCHANGED <<load, offered, rings, device, host, dropped, poller, kicked, silent, cpu>>

\* Where the poller goes from a call of its own.
Back(p) ==
    CASE p.at = "Retrying" /\ pending # NoPending -> {[p EXCEPT !.at = "Deadline"]}
      [] p.at = "Retrying" /\ pending = NoPending ->
            {[p EXCEPT !.at = at] : at \in {"Deadline", "Suppress"}}
      [] OTHER -> {p}

\* finish_service: the rings in turn, and all again while a cursor moves.
LookAgain ==
    /\ held.at = "Look"
    /\ LET busy == {q \in held.round : rings[q] # <<>>}
       IN  IF busy # {}
           THEN /\ held' = [held EXCEPT !.at = "Serve", !.queue = Min(busy),
                                        !.round = {q \in held.round : q > Min(busy)}]
                /\ UNCHANGED poller
           ELSE IF held.moved
           THEN /\ held' = [held EXCEPT !.round = Queues, !.moved = FALSE]
                /\ UNCHANGED poller
           ELSE /\ held' = IF held.by = "poller" /\ poller.at = "Drain"
                           THEN [held EXCEPT !.at = "Drain"] ELSE Free
                /\ IF held.by = "poller" THEN poller' \in Back(poller) ELSE UNCHANGED poller
    /\ UNCHANGED <<load, offered, rings, device, host, dropped, kicked, silent, cpu>>

\* notify_queue, with the lock taken.
Notify(by, q) == [Free EXCEPT !.by = by, !.at = "Serve", !.queue = q, !.moved = TRUE]
--------------------------------------------------------------------------------
(* The poller.                                                             *)

\* Mutant: the poller does not ask for the device's deadline.
ReadNoDeadline ==
    /\ poller.at = "Deadline" /\ Unlocked
    /\ poller' = [poller EXCEPT !.at = "Wait", !.deadline = FALSE]
    /\ UNCHANGED <<load, offered, rings, device, host, dropped, held, kicked, silent, cpu>>

\* The deadline is read under the lock, which is then given up.
ReadDeadline ==
    /\ poller.at = "Deadline" /\ Unlocked
    /\ poller' = [poller EXCEPT !.at = "Wait", !.deadline = pending # NoPending]
    /\ UNCHANGED <<load, offered, rings, device, host, dropped, held, kicked, silent, cpu>>

\* wait_until: a kick, or the deadline it was given.
Wake ==
    /\ poller.at = "Wait" /\ (kicked \/ poller.deadline)
    /\ kicked' = FALSE
    /\ poller' = [poller EXCEPT !.at = "Lock"]
    /\ UNCHANGED <<load, offered, rings, device, host, dropped, held, silent, cpu>>

\* retry_deferred if something is due; it does not watch while something waits.
RetryDeferred ==
    /\ poller.at = "Lock" /\ Unlocked
    /\ IF pending.due
       THEN /\ held' = [Free EXCEPT !.by = "poller", !.at = "Retry", !.moved = TRUE]
            /\ poller' = [poller EXCEPT !.at = "Retrying"]
       ELSE poller' \in Back([poller EXCEPT !.at = "Retrying"]) /\ UNCHANGED held
    /\ UNCHANGED <<load, offered, rings, device, host, dropped, kicked, silent, cpu>>

Suppress ==
    /\ poller.at = "Suppress" /\ Unlocked
    /\ silent' = TRUE
    /\ poller' = [poller EXCEPT !.at = "Watch"]
    /\ UNCHANGED <<load, offered, rings, device, host, dropped, held, kicked, cpu>>

\* watch: poll_queue of a ring with work.
Poll(q) ==
    /\ poller.at = "Watch" /\ Unlocked /\ rings[q] # <<>>
    /\ held' = Notify("poller", q)
    /\ UNCHANGED <<load, offered, rings, device, host, dropped, poller, kicked, silent, cpu>>

\* watch returns: nothing found, or only what waits, for the window.
Quiet ==
    /\ poller.at = "Watch" /\ held.by # "poller"
    /\ pending # NoPending \/ \A q \in Queues : rings[q] = <<>>
    /\ poller' = [poller EXCEPT !.at = "Clear"]
    /\ UNCHANGED <<load, offered, rings, device, host, dropped, held, kicked, silent, cpu>>

\* The last look, with the lock kept.
Clear ==
    /\ poller.at = "Clear" /\ Unlocked
    /\ silent' = FALSE
    /\ poller' = [poller EXCEPT !.at = "Drain", !.left = Queues]
    /\ held' = [Free EXCEPT !.by = "poller", !.at = "Drain"]
    /\ UNCHANGED <<load, offered, rings, device, host, dropped, kicked, cpu>>

\* Round again until the rings are empty or something waits.
Drain ==
    /\ held.at = "Drain"
    /\ LET q == Min(poller.left)
       IN  IF poller.left # {}
           THEN /\ poller' = [poller EXCEPT !.left = @ \ {q}]
                /\ held' = IF rings[q] # <<>> THEN Notify("poller", q) ELSE held
           ELSE IF pending # NoPending \/ \A i \in Queues : rings[i] = <<>>
           THEN poller' = [poller EXCEPT !.at = "Deadline"] /\ held' = Free
           ELSE poller' = [poller EXCEPT !.left = Queues] /\ held' = held
    /\ UNCHANGED <<load, offered, rings, device, host, dropped, kicked, silent, cpu>>
--------------------------------------------------------------------------------
(* The host and the clock.                                                 *)

RetryInterval ==
    /\ pending # NoPending /\ ~pending.due /\ Unlocked
    /\ pending' = [pending EXCEPT !.due = TRUE]
    /\ UNCHANGED <<load, offered, rings, popped, done, backlog, retained, waiting, disk, stable,
                   answers, host, dropped, held, poller, kicked, silent, cpu>>

Fill ==
    /\ ~host.full /\ host.fills > 0 /\ Unlocked
    /\ host' = [host EXCEPT !.full = TRUE, !.fills = @ - 1]
    /\ UNCHANGED <<load, offered, rings, device, dropped, held, poller, kicked, silent, cpu>>

MakeRoom ==
    /\ host.full /\ Unlocked
    /\ host' = [host EXCEPT !.full = FALSE]
    /\ UNCHANGED <<load, offered, rings, device, dropped, held, poller, kicked, silent, cpu>>
--------------------------------------------------------------------------------
(* The guest (external).                                                   *)

Answered == {answers[k].id : k \in DOMAIN answers}
Open(q) == {id \in 1 .. offered : Request(id).queue = q} \ (Answered \cup dropped)

\* The next request goes on its queue's ring.
Offer ==
    /\ offered < Len(load.requests)
    /\ LET q == Request(offered + 1).queue
       IN  /\ cpu[q] = "Idle" /\ Cardinality(Open(q)) < SIZE
           /\ rings' = [rings EXCEPT ![q] = Append(@, offered + 1)]
           /\ cpu' = [cpu EXCEPT ![q] = "Decide"]
    /\ offered' = offered + 1
    /\ UNCHANGED <<load, device, host, dropped, held, poller, kicked, silent>>

Decide(q) ==
    /\ cpu[q] = "Decide"
    /\ cpu' = [cpu EXCEPT ![q] = IF silent THEN "Idle" ELSE "Trap"]
    /\ UNCHANGED <<load, offered, rings, device, host, dropped, held, poller, kicked, silent>>

\* QUEUE_NOTIFY: the observer first, then notify_queue.
Trap(q) ==
    /\ cpu[q] = "Trap" /\ Unlocked
    /\ kicked' = TRUE
    /\ held' = Notify("cpu", q)
    /\ cpu' = [cpu EXCEPT ![q] = "Idle"]
    /\ UNCHANGED <<load, offered, rings, device, host, dropped, poller, silent>>

\* Mutant: a reset keeps the counts of what it forgets.
ResetKeeping ==
    /\ host.resets > 0 /\ Unlocked /\ \A q \in Queues : cpu[q] = "Idle"
    /\ host' = [host EXCEPT !.resets = @ - 1]
    /\ dropped' = dropped \cup UNION {Open(q) : q \in Queues}
    /\ rings' = [q \in Queues |-> <<>>]
    /\ pending' = NoPending /\ backlog' = <<>>
    /\ waiting' = FALSE /\ silent' = FALSE
    /\ UNCHANGED <<load, offered, popped, done, disk, stable, answers, held, poller, kicked, cpu,
                   retained>>

\* The driver resets the device, and sets it up again.
Reset ==
    /\ host.resets > 0 /\ Unlocked /\ \A q \in Queues : cpu[q] = "Idle"
    /\ host' = [host EXCEPT !.resets = @ - 1]
    /\ dropped' = dropped \cup UNION {Open(q) : q \in Queues}
    /\ rings' = [q \in Queues |-> <<>>]
    /\ pending' = NoPending /\ backlog' = <<>> /\ retained' = [q \in Queues |-> 0]
    /\ waiting' = FALSE /\ silent' = FALSE
    /\ UNCHANGED <<load, offered, popped, done, disk, stable, answers, held, poller, kicked, cpu>>
--------------------------------------------------------------------------------
Serve == Pop \/ Retry \/ Resubmit \/ Return \/ LookAgain \/ Drain

Next ==
    \/ Serve
    \/ ReadDeadline \/ Wake \/ RetryDeferred \/ Suppress \/ Quiet \/ Clear
    \/ \E q \in Queues : Poll(q) \/ Decide(q) \/ Trap(q)
    \/ RetryInterval \/ Fill \/ MakeRoom
    \/ Offer \/ Reset

Spec == Init /\ [][Next]_vars

\* Threads run, whoever waits for the lock gets it, time passes, and a full
\* volume is given room.  The guest need not offer nor reset.
Fairness ==
    /\ WF_vars(Serve) /\ WF_vars(RetryInterval) /\ SF_vars(MakeRoom)
    /\ WF_vars(Wake \/ Quiet)
    /\ SF_vars(ReadDeadline \/ RetryDeferred \/ Suppress \/ Clear)
    /\ SF_vars(\E q \in Queues : Poll(q))
    /\ WF_vars(\E q \in Queues : Decide(q)) /\ SF_vars(\E q \in Queues : Trap(q))

FairSpec == Spec /\ Fairness
--------------------------------------------------------------------------------
(* Properties.                                                             *)

\* Every variable has its type, and no queue retains more than its ring holds.
TypeOK ==
    /\ load \in Loads /\ offered \in 0 .. Len(load.requests)
    /\ rings \in [Queues -> Seq(Ids)]
    /\ popped \in Seq(Ids) /\ done \in [Ids -> 0 .. SECTORS]
    /\ pending.id \in Ids \cup {0} /\ pending.due \in BOOLEAN
    /\ backlog \in Seq(Ids) /\ retained \in [Queues -> 0 .. SIZE]
    /\ waiting \in BOOLEAN
    /\ disk \in [Sectors -> Ids \cup {0}] /\ stable \in [Sectors -> Ids \cup {0}]
    /\ dropped \subseteq Ids
    /\ held.by \in {"none", "cpu", "poller"}
    /\ held.at \in {"Idle", "Serve", "Retry", "Resubmit", "Look", "Drain"}
    /\ poller.at \in {"Deadline", "Wait", "Lock", "Retrying", "Suppress", "Watch", "Clear", "Drain"}
    /\ kicked \in BOOLEAN /\ silent \in BOOLEAN
    /\ cpu \in [Queues -> {"Idle", "Decide", "Trap"}]

\* Requests the device took before id.
Before(id) ==
    {popped[k] : k \in {k \in DOMAIN popped : \E j \in DOMAIN popped : popped[j] = id /\ k < j}}

\* What an answered mutation left on the volume.
Wrote(id) == UNION {a.wrote : a \in {a \in ToSet(answers) : a.id = id}}

\* A read returns what the mutations taken before it made of each sector, and
\* nothing of those taken after it, though it may be answered while they wait
\* (may_pass, can_pass, submit, retry).
ReadsSeeEarlierMutations ==
    \A k \in DOMAIN answers :
        LET a == answers[k] IN
        Request(a.id).kind = "read" /\ a.status = "OK" =>
            \A s \in Covers(Request(a.id)) :
                LET writers == {w \in Before(a.id) : s \in Wrote(w)}
                IN  IF a.data[s] = 0 THEN writers = {} ELSE
                    /\ a.data[s] \in writers \cup dropped
                    /\ writers \subseteq Before(a.data[s]) \cup {a.data[s]}

\* A flush that is answered OK has made durable what every mutation taken
\* before it wrote: each is answered, and its sectors were on the volume when
\* the flush reached it ("mutations and flushes always retain device-observed
\* order").
FlushCoversEarlier ==
    \A a \in ToSet(answers) :
        Request(a.id).kind = "flush" /\ a.status = "OK" /\ ~load.read_only =>
            \A w \in Before(a.id) \ dropped :
                /\ Mutates(Request(w)) => w \in Answered
                /\ \A s \in Wrote(w) : stable[s] = w \/ w \in Before(stable[s])

\* Mutations and flushes are answered in the order they were taken, refused
\* ones aside.
MutationsInOrder ==
    \A j, k \in DOMAIN answers :
        LET ordered(a) == Request(a.id).kind \notin {"read", "id"} /\ ~Refused(Request(a.id)) IN
        j < k /\ ordered(answers[j]) /\ ordered(answers[k]) => answers[k].id \notin Before(answers[j].id)

\* The device keeps exactly what it took and did not answer, once, counts it
\* against its ring, and the status command shows a wait when there is one.
KeepsWhatItOwes ==
    LET kept == (IF pending = NoPending THEN <<>> ELSE <<pending.id>>) \o backlog \o held.todo IN
    /\ TypeOK
    /\ IsInjective(kept)
    /\ ToSet(kept) = ToSet(popped) \ (Answered \cup dropped)
    /\ \A q \in Queues : retained[q] = Cardinality({id \in ToSet(kept) : Request(id).queue = q})
    /\ waiting = (pending # NoPending)
    /\ backlog # <<>> => pending # NoPending

\* Something that waits is retried: the poller sleeps without a deadline only
\* if the kick that brought the request will wake it (wait_until, the observer
\* before notify_queue).
WaitIsNoticed ==
    poller.at = "Wait" /\ ~poller.deadline /\ pending # NoPending => kicked

\* Every request is answered, if a full volume is given room.
RequestsAreAnswered == []<>(\A id \in 1 .. offered : id \in Answered \cup dropped)
================================================================================
