------------------------------ MODULE VsockCredit ------------------------------
(***************************************************************************)
(* The arithmetic of vsock flow control (virtio/vsock/credit.rs): the      *)
(* budget every receive window is drawn from, and one direction's credit.  *)
(* The u32 byte counters wrap at WRAP, which stands for 2^32: the          *)
(* assumption keeps what the code relies on, that a window is far smaller  *)
(* than the counters' range.                                               *)
(***************************************************************************)
EXTENDS Integers

CONSTANTS
    MIN_WINDOW,  \* the least window a connection keeps
    BUF_ALLOC,   \* a connection's full window
    BUDGET,      \* what all windows together may promise beyond their least
    WRAP         \* where the wrapping u32 counters wrap

ASSUME CreditAssumption ==
    /\ MIN_WINDOW \in Nat \ {0}
    /\ BUF_ALLOC \in Nat
    /\ BUF_ALLOC >= MIN_WINDOW
    /\ BUDGET \in Nat
    /\ WRAP \in Nat
    /\ WRAP > 2 * BUF_ALLOC

Least(a, b) == IF a <= b THEN a ELSE b
Most(a, b)  == IF a >= b THEN a ELSE b

\* saturating_sub, wrapping_add and wrapping_sub.
SatSub(a, b)  == IF a >= b THEN a - b ELSE 0
WrapAdd(a, b) == (a + b) % WRAP
\* Mutant: the subtraction does not wrap.
WrapSubUnwrapped(a, b) == a - b
WrapSub(a, b) == (a - b) % WRAP
--------------------------------------------------------------------------------
(* Budget: `granted` is what windows hold beyond their least.              *)

Free(granted) == SatSub(BUDGET, granted)

Open == MIN_WINDOW

\* Mutant: growth ignores what the budget has free.
GrowUnbounded(granted, window) == Least(2 * window, BUF_ALLOC)

\* The window after a connection has drained a quarter of `window`.
Grow(granted, window) ==
    LET want == Least(2 * window, BUF_ALLOC)
    IN  Most(Least(want, window + Free(granted)), window)

BeyondLeast(window) == SatSub(window, MIN_WINDOW)

\* What remains granted once `window` is cut to the least, or closed.
GiveBack(granted, window) == SatSub(granted, BeyondLeast(window))

Shrink(window) == Least(window, MIN_WINDOW)
--------------------------------------------------------------------------------
(* Credit: how many bytes may be sent to a peer that advertised peerBuf    *)
(* and has consumed peerFwd of the txCnt bytes sent to it.                 *)

Available(peerBuf, peerFwd, txCnt) == SatSub(peerBuf, WrapSub(txCnt, peerFwd))
================================================================================
