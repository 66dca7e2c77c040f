------------------------------ MODULE MCVsockFlow ------------------------------
EXTENDS VsockFlow

Carry(g, c, buf) ==
    [guest_bytes |-> g, client_bytes |-> c, guest_buf |-> buf,
     half_close |-> FALSE, fail |-> FALSE]
Trouble(l) == [l EXCEPT !.half_close = TRUE, !.fail = TRUE]

\* Everything that can happen to a short exchange, each way and both ways at
\* once; a guest that sends until the counters wrap; a client that does.
SafeLoads ==
    {Trouble(Carry(2, 0, 2)), Trouble(Carry(0, 2, 2)), Trouble(Carry(1, 1, 2)),
     Carry(10, 0, 4), Carry(0, 10, 2)}

\* A guest whose own buffer is a quarter of our least window, and one whose
\* buffer is larger; a byte either way and everything that can happen to it.
LiveLoads == {Carry(6, 0, 1), Carry(5, 0, 8), Trouble(Carry(1, 0, 2)), Trouble(Carry(0, 1, 2))}

\* A client that ends its request while the guest is sending.
HalfCloseLoads == {[Carry(4, 0, 4) EXCEPT !.half_close = TRUE]}
================================================================================
