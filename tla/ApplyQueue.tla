------------------------------- MODULE ApplyQueue -------------------------------
(***************************************************************************)
(* The queue a share's mutations are acknowledged into and applied from    *)
(* (lighter-fs, apply.rs): server threads push jobs and wait at barriers,  *)
(* workers apply them, and the share is dropped in the end.  A job is      *)
(* named by its sequence number.  What it does to the host is left out, as *)
(* are the free-space figure and the hold that tests use.                  *)
(***************************************************************************)
EXTENDS Integers, Sequences, SequencesExt, FiniteSets, FiniteSetsExt

CONSTANTS
    Workers,     \* the apply threads
    Callers,     \* the server threads
    Keys,        \* nodeids
    None,        \* no nodeid, no job
    Loads        \* the workloads a behaviour may start with

ASSUME ApplyAssumption ==
    /\ None \notin Keys
    /\ \A l \in Loads : {l.window, l.bytes_cap} \subseteq Nat /\ l.width \in Nat \ {0}

VARIABLES
    load,        \* [calls, width, window, bytes_cap]: the pushes and barriers of
                 \* each caller, create_width(), jobs_cap() and bytes_cap()
    jobs,        \* every job pushed: [lane, keys, bytes]
    slots,       \* the held jobs: [waiting, successors, taken]
    ready,       \* the serial lane
    ready_clones,\* the wide lane
    bounded,     \* the bounded lane: [by_key, ready_keys, running, count]
    serial_running,
    tails,       \* the latest held job on each key
    applied,     \* the watermark
    bytes,
    ran,         \* jobs that have run
    worker,      \* each worker: [at, seq]
    caller,      \* each caller: [at, step, mark]
    sure,        \* jobs each caller was told have landed
    retired,
    owner        \* the thread that drops the share

queue == <<jobs, slots, ready, ready_clones, bounded, serial_running, tails, applied>>
vars == <<load, queue, bytes, ran, worker, caller, sure, retired, owner>>

Seqs == DOMAIN jobs
Pushed == Len(jobs)
Held == DOMAIN slots
Depth == Cardinality(Held)
First(job) == job.keys[1]
On(key) == {i \in Seqs : key \in ToSet(jobs[i].keys)}
Share(i, j) == ToSet(jobs[i].keys) \cap ToSet(jobs[j].keys) # {}

Init ==
    /\ load \in Loads
    /\ jobs = <<>> /\ slots = <<>>
    /\ ready = <<>> /\ ready_clones = <<>>
    /\ bounded = [by_key |-> [k \in Keys |-> <<>>], ready_keys |-> <<>>, running |-> {}, count |-> 0]
    /\ serial_running = FALSE
    /\ tails = [k \in Keys |-> None]
    /\ applied = 0 /\ bytes = 0 /\ ran = {}
    /\ worker = [w \in Workers |-> [at |-> "Pick", seq |-> None]]
    /\ caller = [c \in Callers |-> [at |-> "Step", step |-> 1, mark |-> 0]]
    /\ sure = [c \in Callers |-> {}]
    /\ retired = FALSE
    /\ owner = "Drain"

\* Condition variables: those waiting go back for the lock.
WakeWorkers(W) == [w \in Workers |-> IF w \in W THEN [worker[w] EXCEPT !.at = "Pick"] ELSE worker[w]]
Asleep == {w \in Workers : worker[w].at = "Sleep"}
\* notify_one wakes one of them, if there is one.
NotifyOne == IF Asleep = {} THEN {{}} ELSE {{w} : w \in Asleep}
--------------------------------------------------------------------------------
(* The bounded lane.                                                       *)

\* Bounded::offer.
Offer(b, key, seq) ==
    [b EXCEPT !.by_key[key] = Append(@, seq),
              !.ready_keys = IF b.by_key[key] = <<>> /\ key \notin b.running
                             THEN Append(@, key) ELSE @]

\* Bounded::pick, of a lane with a ready key.
PickedSeq(b) == Head(b.by_key[Head(b.ready_keys)])
Picked(b) ==
    LET key == Head(b.ready_keys)
    IN  [by_key |-> [b.by_key EXCEPT ![key] = Tail(@)], ready_keys |-> Tail(b.ready_keys),
         running |-> b.running \cup {key}, count |-> b.count + 1]

\* Bounded::finished.
Finished(b, key) ==
    [b EXCEPT !.running = @ \ {key}, !.count = @ - 1,
              !.ready_keys = IF b.by_key[key] # <<>> THEN Append(@, key) ELSE @]

\* Jobs with nothing before them go to their lanes, in order.
Lane(lane, S) == SetToSortSeq({i \in S : jobs'[i].lane = lane}, <)
Offered(b, S) == FoldLeft(LAMBDA x, i : Offer(x, First(jobs'[i]), i), b, Lane("bounded", S))
--------------------------------------------------------------------------------
(* push, and the barriers.                                                 *)

Op(c) == load.calls[c][caller[c].step]
Doing(c, op) == caller[c].step <= Len(load.calls[c]) /\ Op(c).op = op
NextStep(c) == [caller[c] EXCEPT !.at = "Step", !.step = @ + 1]

\* Mutant: a job waits for its first key alone.
BehindFirst(job) == {tails[First(job)]} \ {None}

\* The latest held job on each of its keys.
Behind(job) == {tails[job.keys[k]] : k \in DOMAIN job.keys} \ {None}

TooMuch == bytes > load.bytes_cap \/ Depth > load.window

\* push waits on "settled" for room.
PushWait(c) ==
    /\ caller[c].at = "Step" /\ Doing(c, "push") /\ TooMuch
    /\ caller' = [caller EXCEPT ![c].at = "Settle"]
    /\ UNCHANGED <<load, queue, bytes, ran, worker, sure, retired, owner>>

\* push, with the lock held; what it orders the job behind has its number.
Push(c) ==
    /\ caller[c].at = "Step" /\ Doing(c, "push") /\ ~TooMuch
    /\ LET job == Op(c).job
           seq == Pushed + 1
           before == Behind(job)
           now == IF before = {} THEN {seq} ELSE {}
       IN  /\ jobs' = Append(jobs, job)
           /\ slots' = [i \in Held \cup {seq} |->
                 IF i = seq THEN [waiting |-> Cardinality(before), successors |-> <<>>, taken |-> FALSE]
                 ELSE IF i \in before THEN [slots[i] EXCEPT !.successors = Append(@, seq)]
                 ELSE slots[i]]
           /\ tails' = [k \in Keys |-> IF k \in ToSet(job.keys) THEN seq ELSE tails[k]]
           /\ ready' = ready \o Lane("serial", now)
           /\ ready_clones' = ready_clones \o Lane("wide", now)
           /\ bounded' = Offered(bounded, now)
           /\ bytes' = bytes + job.bytes
           /\ caller' = [caller EXCEPT ![c].at = "Notify", ![c].mark = seq]
    /\ UNCHANGED <<load, serial_running, applied, ran, worker, sure, retired, owner>>

\* Mutant: a push wakes no worker.
NotifyNobody(c) ==
    /\ caller[c].at = "Notify"
    /\ caller' = [caller EXCEPT ![c] = NextStep(c)]
    /\ UNCHANGED <<load, queue, bytes, ran, worker, sure, retired, owner>>

\* push: arrived.notify_one, with the lock dropped.
Notify(c) ==
    /\ caller[c].at = "Notify"
    /\ \E W \in NotifyOne : worker' = WakeWorkers(W)
    /\ caller' = [caller EXCEPT ![c] = NextStep(c)]
    /\ UNCHANGED <<load, queue, bytes, ran, sure, retired, owner>>

\* drain_to, of the caller's last job.
DrainTo(c) ==
    /\ caller[c].at = "Step" /\ Doing(c, "drain_to")
    /\ IF applied >= caller[c].mark
       THEN /\ sure' = [sure EXCEPT ![c] = @ \cup 1 .. caller[c].mark]
            /\ caller' = [caller EXCEPT ![c] = NextStep(c)]
       ELSE caller' = [caller EXCEPT ![c].at = "Settle"] /\ UNCHANGED sure
    /\ UNCHANGED <<load, queue, bytes, ran, worker, retired, owner>>

\* drain: everything pushed by now, which need not be the caller's.
Drain(c) ==
    /\ caller[c].at = "Step" /\ Doing(c, "drain")
    /\ caller' = [caller EXCEPT ![c].mark = Pushed, ![c].at = "Draining"]
    /\ UNCHANGED <<load, queue, bytes, ran, worker, sure, retired, owner>>
Drained(c) ==
    /\ caller[c].at = "Draining"
    /\ IF applied >= caller[c].mark
       THEN /\ sure' = [sure EXCEPT ![c] = @ \cup 1 .. caller[c].mark]
            /\ caller' = [caller EXCEPT ![c] = NextStep(c)]
       ELSE caller' = [caller EXCEPT ![c].at = "SettleDraining"] /\ UNCHANGED sure
    /\ UNCHANGED <<load, queue, bytes, ran, worker, retired, owner>>

\* wait_while an inode's flag is up, which a job raises as it is pushed and
\* lowers as it runs.
WaitWhile(c) ==
    /\ caller[c].at = "Step" /\ Doing(c, "wait_while")
    /\ IF On(Op(c).key) \subseteq ran \/ Depth = 0
       THEN /\ sure' = [sure EXCEPT ![c] = @ \cup On(Op(c).key)]
            /\ caller' = [caller EXCEPT ![c] = NextStep(c)]
       ELSE caller' = [caller EXCEPT ![c].at = "Settle"] /\ UNCHANGED sure
    /\ UNCHANGED <<load, queue, bytes, ran, worker, retired, owner>>
--------------------------------------------------------------------------------
(* The workers.                                                            *)

Exit(w) ==
    /\ worker[w].at = "Pick" /\ retired
    /\ worker' = [worker EXCEPT ![w].at = "Gone"]
    /\ UNCHANGED <<load, queue, bytes, ran, caller, sure, retired, owner>>

Take(w, seq) ==
    /\ worker' = [worker EXCEPT ![w] = [at |-> "Run", seq |-> seq]]
    /\ slots' = [slots EXCEPT ![seq].taken = TRUE]

PickSerial == ~serial_running /\ ready # <<>>
PickBounded == ~PickSerial /\ bounded.count < load.width /\ bounded.ready_keys # <<>>

\* run: the serial lane first, then the bounded, then the wide, or sleep.
Pick(w) ==
    /\ worker[w].at = "Pick" /\ ~retired
    /\ \/ /\ PickSerial
          /\ Take(w, Head(ready))
          /\ ready' = Tail(ready) /\ serial_running' = TRUE
          /\ UNCHANGED <<bounded, ready_clones>>
       \/ /\ PickBounded
          /\ Take(w, PickedSeq(bounded))
          /\ bounded' = Picked(bounded)
          /\ UNCHANGED <<ready, serial_running, ready_clones>>
       \/ /\ ~PickSerial /\ ~PickBounded /\ ready_clones # <<>>
          /\ Take(w, Head(ready_clones))
          /\ ready_clones' = Tail(ready_clones)
          /\ UNCHANGED <<ready, serial_running, bounded>>
       \/ /\ ~PickSerial /\ ~PickBounded /\ ready_clones = <<>>
          /\ worker' = [worker EXCEPT ![w].at = "Sleep"]
          /\ UNCHANGED <<slots, ready, serial_running, bounded, ready_clones>>
    /\ UNCHANGED <<load, jobs, tails, applied, bytes, ran, caller, sure, retired, owner>>

\* The job runs, or panics; its bytes are given back with no lock held.
Run(w) ==
    /\ worker[w].at = "Run"
    /\ ran' = ran \cup {worker[w].seq}
    /\ bytes' = bytes - jobs[worker[w].seq].bytes
    /\ worker' = [worker EXCEPT ![w].at = "Finish"]
    /\ UNCHANGED <<load, queue, caller, sure, retired, owner>>

\* Mutant: the watermark is the job that has just finished.
WatermarkOf(seq, left) == seq

\* The number below the oldest job still outstanding.
Watermark(seq, left) == IF left = {} THEN Pushed ELSE Min(left) - 1

\* Mutant: a job that has run stays the tail of its keys.
TailsKept(seq) == tails

\* A key that still points at the job has no later one on it.
TailsWithout(seq) == [k \in Keys |-> IF tails[k] = seq THEN None ELSE tails[k]]

\* run: the job leaves the table, and those it was before move up.
Finish(w) ==
    /\ worker[w].at = "Finish"
    /\ LET seq == worker[w].seq
           left == Held \ {seq}
           after == ToSet(slots[seq].successors)
           now == {i \in after : slots[i].waiting = 1}
           free == IF jobs[seq].lane = "bounded" THEN Finished(bounded, First(jobs[seq])) ELSE bounded
           others == {i \in now : jobs[i].lane # "serial"}
       IN  /\ slots' = [i \in left |->
                 IF i \in after THEN [slots[i] EXCEPT !.waiting = @ - 1] ELSE slots[i]]
           /\ jobs' = jobs
           /\ ready' = ready \o Lane("serial", now)
           /\ ready_clones' = ready_clones \o Lane("wide", now)
           /\ bounded' = Offered(free, now)
           /\ serial_running' = (serial_running /\ jobs[seq].lane # "serial")
           /\ tails' = TailsWithout(seq)
           /\ applied' = Watermark(seq, left)
           /\ \E W \in (CASE Cardinality(others) = 0 -> {{}}
                          [] Cardinality(others) = 1 -> NotifyOne
                          [] OTHER -> {Asleep}) :
                 worker' = [WakeWorkers(W) EXCEPT ![w].at = "Settled"]
    /\ UNCHANGED <<load, bytes, ran, caller, sure, retired, owner>>

\* Mutant: callers are not told that a job has landed.
SettledNext(w) ==
    /\ worker[w].at = "Settled"
    /\ worker' = [worker EXCEPT ![w] = [at |-> "Pick", seq |-> None]]
    /\ UNCHANGED <<load, queue, bytes, ran, caller, sure, retired, owner>>

\* run: settled.notify_all, with the lock dropped.
Settled(w) ==
    /\ worker[w].at = "Settled"
    /\ worker' = [worker EXCEPT ![w] = [at |-> "Pick", seq |-> None]]
    /\ caller' = [c \in Callers |->
          CASE caller[c].at = "Settle" -> [caller[c] EXCEPT !.at = "Step"]
            [] caller[c].at = "SettleDraining" -> [caller[c] EXCEPT !.at = "Draining"]
            [] OTHER -> caller[c]]
    /\ owner' = IF owner = "Settle" THEN "Drain" ELSE owner
    /\ UNCHANGED <<load, queue, bytes, ran, sure, retired>>
--------------------------------------------------------------------------------
(* Drop for Apply, by the last to hold the share.                          *)

Over == \A c \in Callers : caller[c].at = "Step" /\ caller[c].step > Len(load.calls[c])

DropDrains ==
    /\ owner = "Drain" /\ Over
    /\ owner' = IF applied >= Pushed THEN "Retire" ELSE "Settle"
    /\ UNCHANGED <<load, queue, bytes, ran, worker, caller, sure, retired>>

\* retired, and both condition variables told.
Retire ==
    /\ owner = "Retire"
    /\ retired' = TRUE
    /\ worker' = WakeWorkers(Asleep)
    /\ owner' = "Join"
    /\ UNCHANGED <<load, queue, bytes, ran, caller, sure>>
--------------------------------------------------------------------------------
Work(w) == Pick(w) \/ Run(w) \/ Finish(w) \/ Settled(w) \/ Exit(w)
Call(c) ==
    PushWait(c) \/ Push(c) \/ Notify(c) \/ DrainTo(c) \/ Drain(c) \/ Drained(c) \/ WaitWhile(c)

Next ==
    \/ \E w \in Workers : Work(w)
    \/ \E c \in Callers : Call(c)
    \/ DropDrains \/ Retire

Spec == Init /\ [][Next]_vars

\* Every thread runs: none of its steps can be taken away by another's.
Fairness ==
    /\ \A w \in Workers : WF_vars(Work(w))
    /\ \A c \in Callers : WF_vars(Call(c))
    /\ WF_vars(DropDrains \/ Retire)

FairSpec == Spec /\ Fairness
--------------------------------------------------------------------------------
(* Properties.                                                             *)

\* Every variable has its type; what is listed, and what a worker runs, is held.
TypeOK ==
    /\ load \in Loads
    /\ Held \subseteq Seqs
    /\ \A i \in Held : slots[i].waiting \in 0 .. Pushed /\ slots[i].taken \in BOOLEAN
    /\ ToSet(ready) \cup ToSet(ready_clones) \subseteq Held
    /\ \A k \in Keys : ToSet(bounded.by_key[k]) \subseteq Held
    /\ ToSet(bounded.ready_keys) \cup bounded.running \subseteq Keys
    /\ bounded.count \in 0 .. Cardinality(Workers)
    /\ serial_running \in BOOLEAN /\ tails \in [Keys -> Seqs \cup {None}]
    /\ applied \in 0 .. Pushed /\ bytes \in Nat /\ ran \subseteq Seqs
    /\ \A w \in Workers :
          /\ worker[w].at \in {"Pick", "Sleep", "Run", "Finish", "Settled", "Gone"}
          /\ worker[w].at \in {"Run", "Finish"} => worker[w].seq \in Held
    /\ \A c \in Callers :
          caller[c].at \in {"Step", "Settle", "Notify", "Draining", "SettleDraining"}
    /\ retired \in BOOLEAN /\ owner \in {"Drain", "Settle", "Retire", "Join"}

Running == {worker[w].seq : w \in {w \in Workers : worker[w].at \in {"Run", "Finish"}}}

\* Two jobs that share an inode are applied in the order they were pushed: a
\* job starts only when every earlier one on any of its inodes has run.
SharedKeysInOrder ==
    \A j \in Running \cup ran : \A i \in 1 .. j - 1 : Share(i, j) => i \in ran


\* Nothing is said to have landed before it has: every job up to the watermark
\* has run, though jobs finish out of order, and so has all that a caller was
\* told of by fsync, a read of the bytes or a wait for an inode's own flag
\* ("durability is never claimed early").
NothingClaimedEarly ==
    /\ 1 .. applied \subseteq ran
    /\ \A c \in Callers : sure[c] \subseteq ran

\* A held job is waiting behind exactly the jobs that name it, or is listed
\* once in its lane, or runs: the table's expectations ("a tail names a held
\* job", "a listed key has a job", "a successor is held until it runs") hold.
NothingMislaid ==
    /\ TypeOK
    /\ \A i \in Held :
          /\ slots[i].waiting = Cardinality({h \in Held : i \in ToSet(slots[h].successors)})
          /\ ToSet(slots[i].successors) \subseteq Held /\ IsInjective(slots[i].successors)
          /\ slots[i].taken = (i \in Running)
    /\ \A k \in Keys : tails[k] = None \/ (tails[k] \in Held /\ \A i \in On(k) : i <= tails[k])
    /\ LET listed == ready \o ready_clones
           open(k) == bounded.by_key[k] # <<>> /\ k \notin bounded.running
       IN  /\ IsInjective(listed) /\ IsInjective(bounded.ready_keys)
           /\ ToSet(bounded.ready_keys) = {k \in Keys : open(k)}
           /\ {i \in Held : slots[i].waiting = 0 /\ ~slots[i].taken}
                = ToSet(listed) \cup UNION {ToSet(bounded.by_key[k]) : k \in Keys}

\* No worker sleeps through a job that it could take unless another is awake
\* or about to be told: a notification to one worker is never lost.
NobodySleepsThroughWork ==
    PickSerial \/ PickBounded \/ ready_clones # <<>> =>
        \/ \E w \in Workers : worker[w].at # "Sleep"
        \/ \E c \in Callers : caller[c].at = "Notify"

\* Every caller gets past its barriers and the share is dropped with
\* everything applied and every worker gone.
SharesAreDropped ==
    <>(Held = {} /\ ran = Seqs /\ \A w \in Workers : worker[w].at = "Gone")
================================================================================
