-------------------------- MODULE VsockDeliveryProofs --------------------------
(***************************************************************************)
(* The delivery thread never parks over work, for any number of chains and *)
(* of threads; the chain a part of a header came in is the exception.      *)
(***************************************************************************)
EXTENDS VsockDelivery, TLAPS

\* Somebody is about to serve the guest, or has told the delivery thread to.
Serving ==
    \/ flag
    \/ deliver \in {"Service", "TimedOut"}
    \/ \E t \in Threads : thread[t] \in {"Wake", "Defer"}

\* The inductive invariant: work is always somebody's, and a set flag with
\* the thread asleep has its notification still to come.
Owed ==
    /\ TypeOK
    /\ done # parted \/ outbox => Serving
    /\ flag /\ deliver \in {"Wait", "TimedWait"} => \E t \in Threads : thread[t] = "Notify"

\* Nothing is owed at the start.
LEMMA InitOwed == Init => Owed
BY DEF Init, Owed, TypeOK

\* Every step keeps it: what complete and try_send_owned leave behind, they
\* follow with a wake.
LEMMA NextOwed == ASSUME Owed, [Next]_vars PROVE Owed'
<1> USE DEF Owed, TypeOK, Serving
<1>1. ASSUME NEW h \in Heads, GuestSend(h) PROVE Owed'
  <2>1. TypeOK'
    BY <1>1 DEF GuestSend
  <2> QED BY <1>1, <2>1 DEF GuestSend
<1>2. ASSUME NEW t \in Threads, NEW h \in Heads, Complete(t, h) PROVE Owed'
  <2>1. thread'[t] \in {"Wake", "Defer"}
    BY <1>2 DEF Complete
  <2>2. \A u \in Threads : u # t => thread'[u] = thread[u]
    BY <1>2 DEF Complete
  <2>3. thread[t] = "Idle" /\ UNCHANGED <<held, outbox, flag, deliver>>
    BY <1>2 DEF Complete
  <2>4. TypeOK'
    BY <1>2 DEF Complete
  <2> QED BY <2>1, <2>2, <2>3, <2>4
<1>3. ASSUME NEW t \in Threads, SendOwned(t) PROVE Owed'
  BY <1>3 DEF SendOwned
<1>4. ASSUME NEW t \in Threads, Wake(t) PROVE Owed'
  BY <1>4 DEF Wake, ServiceRx
<1>5. ASSUME NEW t \in Threads, Defer(t) PROVE Owed'
  BY <1>5 DEF Defer
<1>6. ASSUME NEW t \in Threads, Notify(t) PROVE Owed'
  BY <1>6 DEF Notify
<1>7. CASE Deliver
  <2>1. CASE Spin BY <2>1 DEF Spin
  <2>2. CASE Park BY <2>2 DEF Park
  <2>3. CASE Timeout BY <2>3 DEF Timeout
  <2>4. CASE Resume BY <2>4 DEF Resume
  <2>5. CASE Service BY <2>5 DEF Service, ServiceRx
  <2> QED BY <1>7, <2>1, <2>2, <2>3, <2>4, <2>5 DEF Deliver
<1>8. CASE UNCHANGED vars
  BY <1>8 DEF vars
<1>10. ASSUME NEW t \in Threads, NEW h \in Heads, ReadPart(t, h) PROVE Owed'
  <2>1. TypeOK' /\ (done # parted \/ ~(done' # parted'))
    BY <1>10 DEF ReadPart
  <2> QED BY <1>10, <2>1 DEF ReadPart
<1> HIDE DEF Owed
<1>9. ASSUME NEW t \in Threads, Host(t) PROVE Owed'
  BY <1>2, <1>3, <1>4, <1>5, <1>6, <1>9, <1>10 DEF Host
<1> QED BY <1>1, <1>7, <1>8, <1>9 DEF Next

\* While the delivery thread waits without a bound and no thread is on its way
\* to wake anybody, every finished chain has gone back to the guest and every
\* packet is with it.
THEOREM NothingIsLeftBehind ==
    Spec => []NothingLeftBehind
<1>1. Owed => NothingLeftBehind
  BY DEF Owed, TypeOK, Serving, NothingLeftBehind
<1>2. Owed /\ [Next]_vars => Owed'
  BY NextOwed
<1> QED BY <1>1, <1>2, InitOwed, PTL DEF Spec
================================================================================
