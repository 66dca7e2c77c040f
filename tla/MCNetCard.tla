------------------------------- MODULE MCNetCard -------------------------------
(***************************************************************************)
(* Cards: one without a poller, as lan.rs makes, whose outbox fills; one   *)
(* whose transmit ring is watched, with an outbox that holds all it sends; *)
(* and one that is watched and fills.                                      *)
(***************************************************************************)
EXTENDS NetCard

Card(frames, room, answered, arrivals, polled) ==
    [frames |-> frames, room |-> room, answered |-> answered, arrivals |-> arrivals,
     polled |-> polled]

WorkingLoads == {Card(4, 1, {}, 3, FALSE), Card(3, 3, {1, 2}, 1, TRUE)}
WatchedFull == {Card(4, 1, {}, 0, TRUE)}
================================================================================
