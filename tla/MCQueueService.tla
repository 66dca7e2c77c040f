---------------------------- MODULE MCQueueService ----------------------------
(***************************************************************************)
(* Workloads for the transport: each layout under the poller, two queues   *)
(* on one line with kicks before DRIVER_OK, and requests finished by host  *)
(* threads with a device reset in between.                                 *)
(***************************************************************************)
EXTENDS QueueService

Polled(layout, start, chains, slots) ==
    [layout |-> layout, start |-> start, queues |-> 1, chains |-> chains, slots |-> slots,
     early |-> FALSE, polled |-> TRUE, deferred |-> FALSE, resets |-> 0]
Early(layout) ==
    [Polled(layout, 0, 1, 1) EXCEPT !.queues = 2, !.early = TRUE, !.polled = FALSE]
Deferred(layout) ==
    [Polled(layout, 0, 2, 1) EXCEPT !.polled = FALSE, !.deferred = TRUE, !.resets = 1]

AllLoads ==
    {Polled("flags", 0, 3, 1), Polled("event_idx", 2, 3, 1), Polled("packed", 0, 3, 1),
     Polled("packed", 0, 2, 2)}
        \cup {Early(l) : l \in Layouts} \cup {Deferred(l) : l \in Layouts}
================================================================================
