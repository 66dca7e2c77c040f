-------------------------------- MODULE MCBlock --------------------------------
(***************************************************************************)
(* Workloads for the block device, on one queue and on two.                *)
(***************************************************************************)
EXTENDS Block

Op(queue, kind, at, len) == [queue |-> queue, kind |-> kind, at |-> at, len |-> len]
Work(requests) ==
    [requests |-> requests, read_only |-> FALSE, resets |-> 0, fills |-> 1, errors |-> 0]

\* A write, a read beside it, an overwrite from the other queue, and a read of that.
Overlap == Work(<<Op(0, "write", 0, 2), Op(1, "read", 2, 1), Op(1, "write", 1, 2),
                  Op(0, "read", 2, 1)>>)
\* A flush among mutations of the other queue.
Flushes == Work(<<Op(0, "write", 0, 1), Op(1, "flush", 0, 0), Op(0, "zero", 0, 2)>>)
\* A discard of one and a half blocks on a volume that fails, and a read past the end.
Edges == [Work(<<Op(0, "write", 0, 4), Op(0, "discard", 1, 3), Op(0, "read", 0, 4),
                 Op(0, "read", 3, 2)>>) EXCEPT !.errors = 1]
\* The driver resets the device with requests waiting.
Resets == [Work(<<Op(0, "write", 0, 2), Op(1, "flush", 0, 0), Op(0, "read", 0, 2)>>)
              EXCEPT !.resets = 1]
ReadOnly == [Work(<<Op(0, "write", 0, 1), Op(0, "id", 0, 0), Op(0, "flush", 0, 0)>>)
                EXCEPT !.read_only = TRUE]

AllLoads == {Overlap, Flushes, Edges, Resets, ReadOnly}
================================================================================
