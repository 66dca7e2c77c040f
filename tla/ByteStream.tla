------------------------------ MODULE ByteStream -------------------------------
(***************************************************************************)
(* What one direction of a proxied connection promises: bytes come out in  *)
(* the number they went in, and the far end sees the end of the stream     *)
(* only after every byte, unless an end gave up or something failed.       *)
(***************************************************************************)
EXTENDS Naturals

VARIABLES
    sent,       \* bytes the sender has written
    delivered,  \* bytes the receiver's socket holds or has read
    ended,      \* the sender will write no more
    eof,        \* the receiver is told so
    broken      \* the stream was cut

vars == <<sent, delivered, ended, eof, broken>>

Init == sent = 0 /\ delivered = 0 /\ ~ended /\ ~eof /\ ~broken

Send ==
    /\ ~ended
    /\ sent' = sent + 1
    /\ UNCHANGED <<delivered, ended, eof, broken>>

Deliver ==
    /\ ~eof
    /\ delivered' \in delivered + 1 .. sent
    /\ UNCHANGED <<sent, ended, eof, broken>>

End ==
    /\ ended' = TRUE
    /\ UNCHANGED <<sent, delivered, eof, broken>>

Eof ==
    /\ broken \/ (ended /\ delivered = sent)
    /\ eof' = TRUE
    /\ UNCHANGED <<sent, delivered, ended, broken>>

\* A cut may end the stream for both ends at once.
Break ==
    /\ broken' = TRUE
    /\ ended' \in {ended, TRUE} /\ eof' \in {eof, TRUE}
    /\ UNCHANGED <<sent, delivered>>

Next == Send \/ Deliver \/ End \/ Eof \/ Break

Spec == Init /\ [][Next]_vars
================================================================================
