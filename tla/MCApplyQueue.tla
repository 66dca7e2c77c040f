----------------------------- MODULE MCApplyQueue -----------------------------
(***************************************************************************)
(* Workloads for the apply queue: two server threads over two directories  *)
(* and two files.                                                          *)
(***************************************************************************)
EXTENDS ApplyQueue

CONSTANTS c1, c2, d1, d2, f1, f2

PushOf(lane, keys, n) == [op |-> "push", job |-> [lane |-> lane, keys |-> keys, bytes |-> n]]
Create(d, f) == PushOf("bounded", <<d, f>>, 0)
Write(f) == PushOf("bounded", <<f>>, 1)
Rename(d, e, f) == PushOf("serial", <<d, e, f>>, 0)
Setattr(f) == PushOf("serial", <<f>>, 0)
Unlink(d, f) == PushOf("wide", <<d, f>>, 0)
Clone(d, f, g) == PushOf("wide", <<d, f, g>>, 0)
DrainOf == [op |-> "drain"]
DrainToOf == [op |-> "drain_to"]
WaitOf(f) == [op |-> "wait_while", key |-> f]

Calls(one, two, width, window, cap) ==
    [calls |-> [c \in Callers |-> IF c = c1 THEN one ELSE two],
     width |-> width, window |-> window, bytes_cap |-> cap]

\* A file is created and written by one thread, and moved by the other.
Moved == Calls(<<Create(d1, f1), Write(f1), DrainToOf>>, <<Rename(d1, d2, f1), WaitOf(f1)>>, 1, 9, 9)
\* Names in one directory and another, with room for two, and a removal.
Names == Calls(<<Create(d1, f1), Create(d1, f2), Unlink(d1, f1)>>, <<Create(d2, d2), DrainOf>>, 2, 9, 9)
\* A clone behind writes to its source, beside serial jobs, in a window of one.
Clones == Calls(<<Write(f1), Clone(d2, f2, f1), DrainToOf>>, <<Setattr(f2), Setattr(d1)>>, 1, 1, 0)

AllLoads == {Moved, Names, Clones}
================================================================================
