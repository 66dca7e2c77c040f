------------------------------ MODULE MCVsockRing ------------------------------
(* VsockRing for model checking: the workloads, and a sum TLC can take.    *)
EXTENDS VsockRing, FiniteSetsExt, TLC

Symmetry == Permutations(Heads)

Load(keys, ops, opens, posts, chains) ==
    [keys |-> keys, ops |-> ops, opens |-> opens, posts |-> posts, chains |-> chains,
     resets |-> FALSE]

\* A guest that opens one port again and again over the whole ring, and
\* connections the host opens, which either side closes in every way.
SafeLoads ==
    {Load(GuestKeys, {"Request", "Rw"}, 3, 1, 3),
     Load(HostKeys, Ops, 2, 2, 2)}

\* A guest's connection and a host's that compete for the budget, a guest that
\* opens its port again, and a driver that resets the device.
LiveLoads ==
    {Load(Keys, {"Request", "Response", "Rw"}, 2, 1, 1),
     Load(GuestKeys, {"Request", "Rw"}, 2, 1, 2),
     [Load(GuestKeys, {"Request", "Rw"}, 1, 1, 2) EXCEPT !.resets = TRUE]}

\* What the budget has granted is what the windows hold beyond their least:
\* no way of ending a connection leaks its window or gives it back twice,
\* short of a reset of the device, which clears the table alone.
GrantedExact ==
    load.resets \/ inner.granted =
        MapThenSumSet(LAMBDA k : BeyondLeast(inner.conns[k].window), Keys)
================================================================================
