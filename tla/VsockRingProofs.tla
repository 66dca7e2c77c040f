---------------------------- MODULE VsockRingProofs ----------------------------
(***************************************************************************)
(* Proofs about VsockRing, for every set of keys, every ring and every     *)
(* budget.                                                                 *)
(***************************************************************************)
EXTENDS VsockRing, FiniteSetTheorems, SequenceTheorems, TLAPS

--------------------------------------------------------------------------------
(* Arithmetic of the budget and of the counters.                           *)

\* grow never shrinks a window and never promises more than the budget.
LEMMA GrowBounds ==
    ASSUME NEW g \in Nat, NEW w \in Nat
    PROVE  /\ Grow(g, w) \in Nat
           /\ Grow(g, w) >= w
           /\ g <= BUDGET => g + (Grow(g, w) - w) <= BUDGET
BY CreditAssumption DEF Grow, Least, Most, Free, SatSub, CreditAssumption

\* Giving a window back or cutting it never raises what is granted.
LEMMA GiveBackBounds ==
    ASSUME NEW g \in Nat, NEW w \in Nat
    PROVE  /\ GiveBack(g, w) \in Nat /\ GiveBack(g, w) <= g
           /\ Shrink(w) \in Nat
BY CreditAssumption DEF GiveBack, BeyondLeast, SatSub, Shrink, Least, CreditAssumption

\* A ring always has a reserve and every connection a share of it.
LEMMA LimitTypes == RingLimit \in Nat /\ Share \in Nat
<1>1. Cardinality(Heads) \in Nat BY RingAssumption, FS_CardinalityType DEF RingAssumption
<1>2. Ring \in Nat BY <1>1 DEF Ring, Most
<1>3. Ring \div 4 \in Nat /\ Ring \div 4 <= Ring BY <1>2
<1> QED BY <1>2, <1>3 DEF RingLimit, Share

--------------------------------------------------------------------------------
(* The methods of Inner keep its type and the limits.                      *)

\* The limits of the ring and of the budget, of the device's state alone.
Within(d) ==
    /\ d.held <= RingLimit
    /\ \A k \in Keys : d.conns[k].held <= Share
    /\ d.granted <= BUDGET

Good(d) == d \in Inner /\ Within(d)

\* A new connection holds nothing.
LEMMA NewConnType ==
    ASSUME NEW st \in {"None", "Connecting", "Established", "Closed"}, NEW i \in Nat
    PROVE  NewConn(st, i) \in Conn /\ NewConn(st, i).held = 0
BY CreditAssumption DEF NewConn, Conn, Open, CreditAssumption

\* An empty slot of the table is a connection that holds nothing.
LEMMA AbsentType == Absent \in Conn /\ Absent.held = 0
BY NewConnType DEF Absent

\* retire frees a connection's chains and never raises a count.
LEMMA RetireGood ==
    ASSUME NEW d, Good(d), NEW c \in Conn
    PROVE  Good(Retire(d, c))
<1>1. c.queued \subseteq Heads /\ c.window \in Nat BY DEF Conn
<1>2. d \in Inner /\ d.granted \in Nat /\ BUDGET \in Nat
    BY CreditAssumption DEF Good, Inner, CreditAssumption
<1>3. GiveBack(d.granted, c.window) \in Nat /\ GiveBack(d.granted, c.window) <= d.granted
    BY <1>1, <1>2, GiveBackBounds
<1>4. Retire(d, c) \in Inner BY <1>1, <1>2, <1>3 DEF Retire, Inner
<1>5. Within(Retire(d, c)) BY <1>2, <1>3 DEF Good, Within, Retire, Inner
<1> QED BY <1>4, <1>5 DEF Good

\* Changing one connection, within its share.
LEMMA PutGood ==
    ASSUME NEW d, Good(d), NEW k \in Keys, NEW c \in Conn, c.held <= Share
    PROVE  Good([d EXCEPT !.conns[k] = c])
<1>1. [d EXCEPT !.conns[k] = c] \in Inner BY DEF Good, Inner
<1>2. [d EXCEPT !.conns[k] = c].conns = [d.conns EXCEPT ![k] = c] BY DEF Good, Inner
<1>3. Within([d EXCEPT !.conns[k] = c]) BY <1>2 DEF Good, Inner, Within
<1> QED BY <1>1, <1>3 DEF Good

\* remove gives a window back and empties the slot.
LEMMA RemoveGood ==
    ASSUME NEW d, Good(d), NEW k \in Keys
    PROVE  Good(Remove(d, k))
<1>1. d.conns[k] \in Conn BY DEF Good, Inner
<1>2. Good(Retire(d, d.conns[k])) BY <1>1, RetireGood
<1>3. Good([Retire(d, d.conns[k]) EXCEPT !.conns[k] = Absent])
    BY <1>2, AbsentType, LimitTypes, PutGood
<1> QED BY <1>3 DEF Remove

\* insert closes what the key held before and opens at the least.
LEMMA InsertGood ==
    ASSUME NEW d, Good(d), NEW k \in Keys, NEW st \in {"Connecting", "Established"}
    PROVE  Good(Insert(d, k, st))
<1> DEFINE old == IF Live(d, k) THEN Retire(d, d.conns[k]) ELSE d
           mid == [old EXCEPT !.next_id = @ + 1]
           new == NewConn(st, d.next_id + 1)
<1>1. d.conns[k] \in Conn /\ d.next_id \in Nat BY DEF Good, Inner
<1>2. Good(old) BY <1>1, RetireGood
<1>3. new \in Conn /\ new.held <= Share BY <1>1, NewConnType, LimitTypes
<1>4. Good(mid) 
  <2> HIDE DEF old
  <2> QED BY <1>2 DEF Good, Inner, Within
<1> HIDE DEF mid, new
<1>5. Good([mid EXCEPT !.conns[k] = new]) BY <1>3, <1>4, PutGood
<1> QED BY <1>5 DEF Insert, mid, new

\* Every chain returned can only lower the counts.
LEMMA FinishDoneGood ==
    ASSUME NEW d, Good(d)
    PROVE  Good(FinishDone(d))
<1> DEFINE left(k) == SatSub(d.conns[k].held, Cardinality(d.done \cap HeldBy(d, k, d.conns[k].id)))
           conn(k) == IF d.conns[k].state = "None" THEN d.conns[k]
                      ELSE [d.conns[k] EXCEPT !.held = left(k)]
           total == SatSub(d.held, Cardinality(d.done))
           holders == [h \in Heads |-> IF h \in d.done THEN Nobody ELSE d.holders[h]]
<1>1. ASSUME NEW S \in SUBSET Heads PROVE Cardinality(S) \in Nat
    BY RingAssumption, FS_Subset, FS_CardinalityType DEF RingAssumption
<1>2. d \in Inner /\ d.held \in Nat /\ d.done \subseteq Heads /\ d.held <= RingLimit
    BY DEF Good, Inner, Within
<1>3. total \in Nat /\ total <= RingLimit BY <1>1, <1>2, LimitTypes DEF SatSub
<1>4. ASSUME NEW k \in Keys
      PROVE  conn(k) \in Conn /\ conn(k).held <= Share
  <2>1. d.conns[k] \in Conn /\ d.conns[k].held \in Nat /\ d.conns[k].held <= Share
      BY DEF Good, Inner, Within, Conn
  <2>2. Cardinality(d.done \cap HeldBy(d, k, d.conns[k].id)) \in Nat BY <1>1, <1>2
  <2>3. left(k) \in Nat /\ left(k) <= Share BY <2>1, <2>2, LimitTypes DEF SatSub
  <2> HIDE DEF left
  <2>4. [d.conns[k] EXCEPT !.held = left(k)] \in Conn BY <2>1, <2>3 DEF Conn
  <2>5. [d.conns[k] EXCEPT !.held = left(k)].held = left(k) BY <2>1 DEF Conn
  <2> QED BY <2>1, <2>3, <2>4, <2>5
<1>5. holders \in [Heads -> ({NoKey} \cup Keys) \X Nat] BY <1>2 DEF Inner, Nobody
<1>6. [k \in Keys |-> conn(k)] \in [Keys -> Conn] BY <1>4
<1> HIDE DEF left, conn, total, holders
<1> DEFINE r1 == [d EXCEPT !.done = {}, !.held = total]
           r2 == [r1 EXCEPT !.holders = holders]
           r3 == [r2 EXCEPT !.conns = [k \in Keys |-> conn(k)]]
<1>7. r1 \in Inner /\ r1.held = total /\ r1.granted = d.granted
    BY <1>2, <1>3 DEF Inner
<1> HIDE DEF r1
<1>8. r2 \in Inner /\ r2.held = total /\ r2.granted = d.granted
    BY <1>5, <1>7 DEF Inner
<1> HIDE DEF r2
<1>9. /\ r3 \in Inner /\ r3.held = total /\ r3.granted = d.granted
      /\ r3.conns = [k \in Keys |-> conn(k)]
    BY <1>6, <1>8 DEF Inner
<1> HIDE DEF r3
<1>10. Good(r3) BY <1>9, <1>3, <1>4 DEF Good, Within
<1>11. r3 = FinishDone(d)
    BY DEF r3, r2, r1, conn, left, total, holders, FinishDone
<1> QED BY <1>10, <1>11

\* finish_shutdown removes the connection or leaves it alone.
LEMMA FinishShutdownGood ==
    ASSUME NEW d, Good(d), NEW k \in Keys
    PROVE  Good(FinishShutdown(d, k))
BY RemoveGood DEF FinishShutdown

\* A chain is held only below the ring's limit and the connection's share.
LEMMA HandleGuestRwGood ==
    ASSUME NEW d, Good(d), NEW k \in Keys, NEW head \in Heads
    PROVE  Good(HandleGuestRw(d, k, head))
<1> DEFINE c == d.conns[k]
           more == WrapAdd(c.buffered, 1)
           kept == [c EXCEPT !.queued = c.queued \cup {head},
                             !.held = c.held + 1, !.buffered = more]
           copied == [c EXCEPT !.owned = c.owned + 1, !.buffered = more]
           r1 == [d EXCEPT !.held = d.held + 1]
           r2 == [r1 EXCEPT !.holders[head] = <<k, c.id>>]
<1>1. /\ d \in Inner /\ d.held \in Nat /\ d.held <= RingLimit
      /\ c \in Conn /\ c.held \in Nat /\ c.held <= Share
      /\ c.buffered \in Nat /\ c.id \in Nat
    BY DEF Good, Inner, Within, Conn
<1>2. more \in 0..(WRAP - 1)
    BY <1>1, CreditAssumption DEF WrapAdd, CreditAssumption
<1> HIDE DEF c, more
<1>3. copied \in Conn /\ copied.held = c.held
  <2>1. /\ [c EXCEPT !.owned = c.owned + 1] \in Conn
        /\ [c EXCEPT !.owned = c.owned + 1].held = c.held
      BY <1>1 DEF Conn
  <2> QED BY <2>1, <1>2 DEF Conn
<1>4. kept \in Conn /\ kept.held = c.held + 1
  <2> DEFINE c1 == [c EXCEPT !.queued = c.queued \cup {head}]
             c2 == [c1 EXCEPT !.held = c.held + 1]
  <2>1. c1 \in Conn /\ c1.held = c.held BY <1>1 DEF Conn
  <2> HIDE DEF c1
  <2>2. c2 \in Conn /\ c2.held = c.held + 1 BY <1>1, <2>1 DEF Conn
  <2> HIDE DEF c2
  <2>3. [c2 EXCEPT !.buffered = more] \in Conn /\ [c2 EXCEPT !.buffered = more].held = c.held + 1
      BY <2>2, <1>2 DEF Conn
  <2> QED BY <2>3 DEF c2, c1
<1> HIDE DEF kept, copied
<1>5. Good([d EXCEPT !.conns[k] = copied]) BY <1>1, <1>3, PutGood
<1>6. ASSUME CanHold(d, k)
      PROVE  Good([r2 EXCEPT !.conns[k] = kept])
  <2>1. c.held < Share /\ d.held < RingLimit BY <1>6 DEF CanHold, c
  <2>2. Good(r1) BY <1>1, <2>1, LimitTypes DEF Good, Inner, Within
  <2> HIDE DEF r1
  <2>3. r2 \in Inner BY <1>1, <2>2 DEF Good, Inner
  <2>4. Good(r2) BY <2>2, <2>3 DEF Good, Inner, Within
  <2> HIDE DEF r2
  <2> QED BY <2>1, <2>4, <1>1, <1>4, PutGood, LimitTypes
<1>7. CASE c.state \in {"None", "Closed"}
    BY <1>7 DEF HandleGuestRw, c
<1>8. CASE c.state \notin {"None", "Closed"} /\ CanHold(d, k)
  <2>1. HandleGuestRw(d, k, head) = [r2 EXCEPT !.conns[k] = kept]
      BY <1>8 DEF HandleGuestRw, kept, c, more
  <2> QED BY <1>6, <1>8, <2>1
<1>9. CASE c.state \notin {"None", "Closed"} /\ ~CanHold(d, k)
  <2>1. HandleGuestRw(d, k, head) = [d EXCEPT !.conns[k] = copied]
      BY <1>9 DEF HandleGuestRw, copied, c, more
  <2> QED BY <1>5, <2>1
<1> QED BY <1>7, <1>8, <1>9

\* A RESPONSE only establishes a connection.
LEMMA HandleResponseGood ==
    ASSUME NEW d, Good(d), NEW k \in Keys
    PROVE  Good(HandleResponse(d, k))
<1> DEFINE c == [d.conns[k] EXCEPT !.state = "Established"]
<1>1. d.conns[k] \in Conn /\ d.conns[k].held <= Share BY DEF Good, Inner, Within
<1>2. c \in Conn /\ c.held <= Share BY <1>1 DEF Conn
<1>3. Good([d EXCEPT !.conns[k] = c]) BY <1>2, PutGood
<1> QED BY <1>3 DEF HandleResponse

\* A SHUTDOWN marks the connection, or removes it.
LEMMA HandleShutdownGood ==
    ASSUME NEW d, Good(d), NEW k \in Keys, NEW a \in BOOLEAN, NEW b \in BOOLEAN
    PROVE  Good(HandleShutdown(d, k, a, b))
<1> DEFINE c == d.conns[k]
           r == [c EXCEPT !.guest_done = c.guest_done \/ a,
                          !.guest_receive_closed = c.guest_receive_closed \/ b]
<1>1. c \in Conn /\ c.held <= Share BY DEF Good, Inner, Within
<1>2. (c.guest_done \/ a) \in BOOLEAN /\ (c.guest_receive_closed \/ b) \in BOOLEAN
    OBVIOUS
<1> HIDE DEF c
<1>3. r \in Conn /\ r.held = c.held BY <1>1, <1>2 DEF Conn
<1> HIDE DEF r
<1>4. Good([d EXCEPT !.conns[k] = r]) BY <1>1, <1>3, PutGood
<1>5. Good(FinishShutdown([d EXCEPT !.conns[k] = r], k)) BY <1>4, FinishShutdownGood
<1> QED BY <1>5 DEF HandleShutdown, r, c

\* Every packet the guest sends keeps the table good.
LEMMA HandleGood ==
    ASSUME NEW d, Good(d), NEW p \in Packet
    PROVE  Good(Handle(d, p))
<1>1. p.key \in Keys /\ p.head \in Heads /\ p.op \in Ops BY DEF Packet
<1>2. Good(HandleResponse(d, p.key)) BY <1>1, HandleResponseGood
<1>3. Good(Remove(d, p.key)) BY <1>1, RemoveGood
<1>4. \A a, b \in BOOLEAN : Good(HandleShutdown(d, p.key, a, b))
    BY <1>1, HandleShutdownGood
<1>5. Good(HandleGuestRw(d, p.key, p.head)) BY <1>1, HandleGuestRwGood
<1>6. Good(Insert(d, p.key, "Established")) BY <1>1, InsertGood
<1> QED BY <1>1, <1>2, <1>3, <1>4, <1>5, <1>6 DEF Handle, Ops

\* The host's shutdown marks the connection, or removes it.
LEMMA ShutdownGood ==
    ASSUME NEW d, Good(d), NEW k \in Keys
    PROVE  Good(Shutdown(d, k))
<1> DEFINE c == d.conns[k]
           e == [d EXCEPT !.done = d.done \cup c.queued]
           r == [c EXCEPT !.state = "Closed", !.queued = {}, !.owned = 0]
<1>1. c \in Conn /\ c.held <= Share /\ c.queued \subseteq Heads
    BY DEF Good, Inner, Within, Conn
<1> HIDE DEF c
<1>2. Good(e) BY <1>1 DEF Good, Inner, Within
<1>3. r \in Conn /\ r.held = c.held BY <1>1 DEF Conn
<1> HIDE DEF e, r
<1>4. Good([e EXCEPT !.conns[k] = r]) BY <1>1, <1>2, <1>3, PutGood
<1> QED BY <1>4 DEF Shutdown, e, r, c

\* The warden cuts windows and gives back what they held.
LEMMA CutWindowGood ==
    ASSUME NEW d, Good(d), NEW k \in Keys
    PROVE  Good(CutWindow(d, k))
<1> DEFINE c == d.conns[k]
           e == [d EXCEPT !.granted = GiveBack(d.granted, c.window)]
           r == [c EXCEPT !.window = Shrink(c.window)]
<1>1. /\ c \in Conn /\ c.held <= Share /\ c.window \in Nat
      /\ d \in Inner /\ d.granted \in Nat /\ d.granted <= BUDGET /\ BUDGET \in Nat
    BY CreditAssumption DEF Good, Inner, Within, Conn, CreditAssumption
<1> HIDE DEF c
<1>2. /\ GiveBack(d.granted, c.window) \in Nat
      /\ GiveBack(d.granted, c.window) <= d.granted
      /\ Shrink(c.window) \in Nat
    BY <1>1, GiveBackBounds
<1>3. Good(e) BY <1>1, <1>2 DEF Good, Inner, Within
<1>4. r \in Conn /\ r.held = c.held BY <1>1, <1>2 DEF Conn
<1> HIDE DEF e, r
<1>5. Good([e EXCEPT !.conns[k] = r]) BY <1>1, <1>3, <1>4, PutGood
<1> QED BY <1>5 DEF CutWindow, e, r, c

\* The watchdog removes at most one connection.
LEMMA WatchdogGood ==
    ASSUME NEW d, Good(d), NEW e \in Watchdog(d)
    PROVE  Good(e)
<1>1. ASSUME NEW f, Good(f), NEW b \in BOOLEAN PROVE Good([f EXCEPT !.ring_full = b])
    BY <1>1 DEF Good, Inner, Within
<1>2. ASSUME NEW k \in Keys PROVE Good([Remove(d, k) EXCEPT !.ring_full = FALSE])
    BY RemoveGood, <1>1
<1> QED BY <1>1, <1>2 DEF Watchdog, Worst
--------------------------------------------------------------------------------
(* Type correctness and the limits, together: each step keeps both.        *)

Limits == TypeOK /\ ShareAndReserve /\ GrantedBounded

\* The invariant in terms of the table alone.
LEMMA LimitsGood ==
    /\ Limits <=> /\ Good(inner)
                  /\ servers \in [Ids -> Server]
                  /\ posted \in Seq(Packet)
                  /\ free \subseteq Heads
    /\ Limits' <=> /\ Good(inner)'
                   /\ servers' \in [Ids -> Server]
                   /\ posted' \in Seq(Packet)
                   /\ free' \subseteq Heads
BY DEF Limits, TypeOK, ShareAndReserve, GrantedBounded, Good, Within

\* An idle server is a server.
LEMMA IdleType == Idle \in Server
BY DEF Idle, Server

\* A server starts with nothing in its hands.
LEMMA StartType ==
    ASSUME Limits, NEW k \in Keys, NEW i, NEW phase \in {"Header", "Serving"}
    PROVE  Start(k, i, phase) \in [Ids -> Server]
<1>1. [Idle EXCEPT !.key = k] \in Server BY DEF Idle, Server
<1>2. [Idle EXCEPT !.key = k, !.phase = phase] \in Server
  <2> DEFINE s == [Idle EXCEPT !.key = k]
  <2> HIDE DEF s
  <2>1. [s EXCEPT !.phase = phase] \in Server BY <1>1 DEF Server, s
  <2> QED BY <2>1 DEF s
<1> QED BY <1>2, LimitsGood DEF Start

\* drain_tx keeps the limits.
LEMMA DrainTxLimits == ASSUME Limits, DrainTx PROVE Limits'
<1> DEFINE p == Head(posted)
           d == Handle(inner, p)
<1>1. p \in Packet /\ Tail(posted) \in Seq(Packet)
    BY LimitsGood, HeadTailProperties DEF DrainTx
<1>2. p.key \in Keys /\ p.head \in Heads BY <1>1 DEF Packet
<1>3. Good(d) BY <1>1, LimitsGood, HandleGood
<1>4. Good(FinishDone(d)) BY <1>3, FinishDoneGood
<1>5. d.done \subseteq Heads BY <1>3 DEF Good, Inner
<1>6. Good(inner)' BY <1>3, <1>4 DEF DrainTx
<1>7. free' \subseteq Heads BY <1>2, <1>5, LimitsGood DEF DrainTx
<1>8. Start(p.key, inner.next_id + 1, "Header") \in [Ids -> Server] BY <1>2, StartType
<1>9. servers' \in [Ids -> Server] BY <1>8, LimitsGood DEF DrainTx
<1>10. posted' \in Seq(Packet) BY <1>1 DEF DrainTx
<1> QED BY <1>6, <1>7, <1>9, <1>10, LimitsGood

\* complete_done only empties the list of finished chains.
LEMMA CompleteDoneLimits == ASSUME Limits, CompleteDone PROVE Limits'
<1>1. Good(inner)' BY LimitsGood, FinishDoneGood DEF CompleteDone
<1>2. inner.done \subseteq Heads BY LimitsGood DEF Good, Inner
<1> QED BY <1>1, <1>2, LimitsGood DEF CompleteDone

\* A device reset clears the table and keeps the limits.
LEMMA ResetLimits == ASSUME Limits, Reset PROVE Limits'
<1> DEFINE none == [k \in Keys |-> Absent]
<1>1. none \in [Keys -> Conn] /\ \A k \in Keys : none[k].held <= Share
    BY AbsentType, LimitTypes
<1> HIDE DEF none
<1>2. [inner EXCEPT !.conns = none] \in Inner BY <1>1, LimitsGood DEF Good, Inner
<1>3. Good([inner EXCEPT !.conns = none])
    BY <1>1, <1>2, LimitsGood DEF Good, Inner, Within
<1>4. Good(inner)' BY <1>3 DEF Reset, none
<1>5. posted' \in Seq(Packet) /\ free' \subseteq Heads /\ servers' = servers
    BY DEF Reset
<1> QED BY <1>4, <1>5, LimitsGood

\* Opening, attaching and shutting down keep the limits.
LEMMA HostLimits ==
    ASSUME Limits, NEW k \in Keys, HostOpen(k) \/ Abandon(k)
    PROVE  Limits'
<1>1. CASE HostOpen(k)
  <2>1. Good(inner)' BY <1>1, LimitsGood, InsertGood DEF HostOpen
  <2>2. servers' \in [Ids -> Server] BY <1>1, StartType DEF HostOpen
  <2> QED BY <1>1, <2>1, <2>2, LimitsGood DEF HostOpen
<1>2. CASE Abandon(k)
  <2>1. Good(inner)' BY <1>2, LimitsGood, RemoveGood DEF Abandon
  <2> QED BY <1>2, <2>1, LimitsGood DEF Abandon
<1> QED BY <1>1, <1>2

\* The warden keeps the limits.
LEMMA SweepLimits == ASSUME Limits, Sweep PROVE Limits'
<1>1. PICK d \in {inner} \cup {Remove(inner, k) : k \in Expired(inner)}
                         \cup {CutWindow(inner, k) : k \in Stalled(inner)} :
          inner' \in Watchdog(d)
    BY DEF Sweep
<1>2. Good(d)
    BY <1>1, LimitsGood, RemoveGood, CutWindowGood DEF Expired, Stalled
<1>3. Good(inner)' BY <1>1, <1>2, WatchdogGood
<1> QED BY <1>3, LimitsGood DEF Sweep

\* A chain the guest posts is not yet anybody's.
LEMMA GuestPostLimits ==
    ASSUME Limits, NEW h \in Heads, NEW k \in Keys, NEW op \in Ops,
           GuestPost(h, k, op)
    PROVE  Limits'
<1>1. [head |-> h, key |-> k, op |-> op] \in Packet
    BY RingAssumption DEF RingAssumption, Packet
<1>2. posted' \in Seq(Packet) BY <1>1, LimitsGood DEF GuestPost
<1> QED BY <1>2, LimitsGood DEF GuestPost

--------------------------------------------------------------------------------
(* The steps of a server.                                                  *)

\* What a serving step can rely on.
LEMMA ServerFacts ==
    ASSUME Limits, NEW i \in Ids, servers[i].key # NoKey
    PROVE  LET s == servers[i]
               c == inner.conns[s.key]
           IN  /\ s \in Server /\ s.key \in Keys
               /\ s.heads \subseteq Heads /\ s.owned \in Nat /\ s.unacked \in Nat
               /\ c \in Conn /\ c.queued \subseteq Heads /\ c.owned \in Nat
               /\ c.held \in Nat /\ c.held <= Share
               /\ c.buffered \in Nat /\ c.window \in Nat
               /\ inner.granted \in Nat /\ inner.done \subseteq Heads
<1>1. servers[i] \in Server /\ servers[i].key \in Keys
    BY LimitsGood DEF Server
<1>2. /\ inner.conns[servers[i].key] \in Conn
      /\ inner.conns[servers[i].key].held <= Share
    BY <1>1, LimitsGood DEF Good, Inner, Within
<1>3. inner.granted \in Nat /\ inner.done \subseteq Heads
    BY LimitsGood DEF Good, Inner
<1> HIDE DEF Limits
<1>4. /\ servers[i].heads \subseteq Heads /\ servers[i].owned \in Nat
      /\ servers[i].unacked \in Nat
    BY <1>1 DEF Server
<1>5. LET c == inner.conns[servers[i].key]
      IN  /\ c.queued \subseteq Heads /\ c.owned \in Nat /\ c.held \in Nat
          /\ c.buffered \in Nat /\ c.window \in Nat
    BY <1>2 DEF Conn
<1> QED BY <1>1, <1>2, <1>3, <1>4, <1>5

\* More chains done.
LEMMA DoneGood ==
    ASSUME NEW d, Good(d), NEW hs \in SUBSET Heads
    PROVE  Good([d EXCEPT !.done = d.done \cup hs])
BY DEF Good, Inner, Within

\* Taking a connection's queue leaves its counts as they are.
LEMMA TakeOutboundLimits ==
    ASSUME Limits, NEW i \in Ids, TakeOutbound(i)
    PROVE  Limits'
<1> DEFINE s == servers[i]
           c == inner.conns[s.key]
           taken == [s EXCEPT !.heads = c.queued, !.owned = c.owned]
           empty == [c EXCEPT !.queued = {}, !.owned = 0]
<1>1. s.key # NoKey BY DEF TakeOutbound
<1>2. /\ s \in Server /\ s.key \in Keys
      /\ c \in Conn /\ c.held <= Share /\ c.queued \subseteq Heads /\ c.owned \in Nat
    BY <1>1, ServerFacts
<1>3. UNCHANGED <<posted, free>> BY DEF TakeOutbound
<1>4. CASE servers' = [servers EXCEPT ![i] = taken] /\ inner' = [inner EXCEPT !.conns[s.key] = empty]
  <2> HIDE DEF c, s
  <2>1. taken \in Server BY <1>2 DEF Server
  <2>2. empty \in Conn /\ empty.held = c.held BY <1>2 DEF Conn
  <2> HIDE DEF taken, empty
  <2>3. Good([inner EXCEPT !.conns[s.key] = empty]) BY <1>2, <2>2, LimitsGood, PutGood
  <2> QED BY <1>3, <1>4, <2>1, <2>3, LimitsGood
<1>5. CASE UNCHANGED inner /\ servers' = [servers EXCEPT ![i] =
                IF c.state \in {"None", "Closed"} THEN Idle ELSE [s EXCEPT !.phase = "Drained"]]
  <2>1. [s EXCEPT !.phase = "Drained"] \in Server BY <1>2 DEF Server
  <2>2. servers' \in [Ids -> Server] BY <1>5, <2>1, IdleType, LimitsGood
  <2> QED BY <1>3, <1>5, <2>2, LimitsGood
<1> QED BY <1>4, <1>5 DEF TakeOutbound

\* Reading from the queue frees what it finishes, by finish_done.
LEMMA ReadOutboundLimits ==
    ASSUME Limits, NEW i \in Ids, ReadOutbound(i)
    PROVE  Limits'
<1> DEFINE s == servers[i]
           c == inner.conns[s.key]
           served == [s EXCEPT !.phase = "Serving"]
<1>1. s.key # NoKey BY DEF ReadOutbound
<1>2. /\ s \in Server /\ s.key \in Keys
      /\ c \in Conn /\ c.held <= Share /\ c.queued \subseteq Heads /\ c.owned \in Nat
    BY <1>1, ServerFacts
<1>3. UNCHANGED <<posted, free>> BY DEF ReadOutbound
<1>4. \A n \in Nat : [served EXCEPT !.unacked = n] \in Server
  <2> HIDE DEF s
  <2>1. served \in Server BY <1>2 DEF Server
  <2> HIDE DEF served
  <2> QED BY <2>1 DEF Server
<1>5. ASSUME NEW h \in c.queued, NEW rest \in {0, 1},
             inner' = [inner EXCEPT !.done = inner.done \cup {h},
                           !.conns[s.key] = [c EXCEPT !.queued = c.queued \ {h},
                                                      !.owned = c.owned + rest]],
             servers' = [servers EXCEPT ![i] = [served EXCEPT !.unacked = 1 - rest]]
      PROVE  Limits'
  <2> DEFINE e == [inner EXCEPT !.done = inner.done \cup {h}]
             r == [c EXCEPT !.queued = c.queued \ {h}, !.owned = c.owned + rest]
  <2>1. {h} \subseteq Heads BY <1>2
  <2>2. Good(e) BY <2>1, LimitsGood, DoneGood
  <2>3. r \in Conn /\ r.held = c.held
    <3> DEFINE q == [c EXCEPT !.queued = c.queued \ {h}]
    <3>1. c.owned + rest \in Nat BY <1>2
    <3> HIDE DEF c
    <3>2. q \in Conn /\ q.held = c.held BY <1>2 DEF Conn
    <3> HIDE DEF q
    <3>3. /\ [q EXCEPT !.owned = c.owned + rest] \in Conn
          /\ [q EXCEPT !.owned = c.owned + rest].held = c.held
        BY <3>1, <3>2 DEF Conn
    <3> QED BY <3>3 DEF q
  <2> HIDE DEF e, r
  <2>4. Good([e EXCEPT !.conns[s.key] = r]) BY <1>2, <2>2, <2>3, PutGood
  <2>5. Good(inner)' BY <1>5, <2>4 DEF e, r
  <2>6. servers' \in [Ids -> Server]
    <3>1. 1 - rest \in Nat OBVIOUS
    <3> QED BY <1>4, <1>5, <3>1, LimitsGood
  <2> QED BY <1>3, <2>5, <2>6, LimitsGood
<1>6. CASE /\ c.owned > 0
           /\ inner' = [inner EXCEPT !.conns[s.key] = [c EXCEPT !.owned = c.owned - 1]]
           /\ servers' = [servers EXCEPT ![i] = [served EXCEPT !.unacked = 1]]
  <2> DEFINE r == [c EXCEPT !.owned = c.owned - 1]
  <2>1. r \in Conn /\ r.held = c.held
    <3>1. c.owned - 1 \in Nat BY <1>2, <1>6
    <3> HIDE DEF c
    <3> QED BY <1>2, <3>1 DEF Conn
  <2> HIDE DEF r
  <2>2. Good([inner EXCEPT !.conns[s.key] = r]) BY <1>2, <2>1, LimitsGood, PutGood
  <2>3. Good(inner)' BY <1>6, <2>2 DEF r
  <2>4. servers' \in [Ids -> Server] BY <1>4, <1>6, LimitsGood
  <2> QED BY <1>3, <2>3, <2>4, LimitsGood
<1>7. CASE UNCHANGED inner /\ servers' = [servers EXCEPT ![i].phase = "Failed"]
  <2>1. [s EXCEPT !.phase = "Failed"] \in Server BY <1>2 DEF Server
  <2>2. servers' \in [Ids -> Server] BY <1>7, <2>1, LimitsGood
  <2> QED BY <1>3, <1>7, <2>2, LimitsGood
<1> QED BY <1>5, <1>6, <1>7 DEF ReadOutbound

\* complete frees what was taken, by finish_done.
LEMMA CompleteLimits ==
    ASSUME Limits, NEW i \in Ids, Complete(i)
    PROVE  Limits'
<1> DEFINE s == servers[i]
<1>1. s.key # NoKey BY DEF Complete
<1>2. s \in Server /\ s.heads \subseteq Heads /\ s.owned \in Nat /\ s.unacked \in Nat
    BY <1>1, ServerFacts
<1>3. PICK hs \in SUBSET s.heads, n \in 0..s.owned :
        /\ inner' = [inner EXCEPT !.done = inner.done \cup hs]
        /\ servers' = [servers EXCEPT ![i] =
              [s EXCEPT !.heads = s.heads \ hs, !.owned = s.owned - n,
                        !.unacked = s.unacked + Cardinality(hs) + n]]
    BY DEF Complete
<1>4. Good(inner)' BY <1>2, <1>3, LimitsGood, DoneGood
<1>5. Cardinality(hs) \in Nat
    BY <1>2, RingAssumption, FS_Subset, FS_CardinalityType DEF RingAssumption
<1> DEFINE left == s.owned - n
           due == s.unacked + Cardinality(hs) + n
<1>6. left \in Nat /\ due \in Nat BY <1>2, <1>5
<1>7. [s EXCEPT !.heads = s.heads \ hs, !.owned = left, !.unacked = due] \in Server
  <2> HIDE DEF s, left, due
  <2>1. [s EXCEPT !.heads = s.heads \ hs, !.owned = left] \in Server BY <1>2, <1>6 DEF Server
  <2> QED BY <1>6, <2>1 DEF Server
<1>8. servers' \in [Ids -> Server] BY <1>3, <1>7, LimitsGood
<1> QED BY <1>4, <1>8, LimitsGood DEF Complete

\* A server whose write fails gives its chains back through the done list.
LEMMA FailLimits ==
    ASSUME Limits, NEW i \in Ids, Fail(i)
    PROVE  Limits'
<1> DEFINE s == servers[i]
           r == [Idle EXCEPT !.key = s.key, !.phase = "Failed"]
<1>1. s \in Server /\ s.key \in Keys /\ s.heads \subseteq Heads
    BY ServerFacts DEF Fail
<1>2. Good(inner)' BY <1>1, LimitsGood, DoneGood DEF Fail
<1>3. r \in Server
  <2>1. [Idle EXCEPT !.key = s.key] \in Server BY <1>1 DEF Idle, Server
  <2> QED BY <2>1 DEF Idle, Server
<1>4. servers' \in [Ids -> Server] BY <1>3, LimitsGood DEF Fail
<1> QED BY <1>2, <1>4, LimitsGood DEF Fail

\* acknowledge grows a window by what the budget has free.
LEMMA AcknowledgeLimits ==
    ASSUME Limits, NEW i \in Ids, Acknowledge(i)
    PROVE  Limits'
<1> DEFINE s == servers[i]
           c == inner.conns[s.key]
           left == WrapSub(c.buffered, s.unacked)
           credited == [c EXCEPT !.buffered = left]
           consumed == [inner EXCEPT !.conns[s.key] = credited]
           grown == Grow(inner.granted, c.window)
           e == [inner EXCEPT !.granted = inner.granted + (grown - c.window)]
           wide == [credited EXCEPT !.window = grown]
<1>1. /\ s \in Server /\ s.key \in Keys /\ s.unacked \in Nat
      /\ c \in Conn /\ c.held <= Share
      /\ c.buffered \in Nat /\ c.window \in Nat /\ inner.granted \in Nat
    BY ServerFacts DEF Acknowledge
<1>2. left \in 0..(WRAP - 1)
    BY <1>1, CreditAssumption DEF WrapSub, CreditAssumption
<1> HIDE DEF left
<1>3. credited \in Conn /\ credited.held = c.held
  <2> HIDE DEF c
  <2> QED BY <1>1, <1>2 DEF Conn
<1> HIDE DEF credited
<1>4. Good(consumed) BY <1>1, <1>3, LimitsGood, PutGood
<1>5. /\ grown \in Nat /\ grown >= c.window
      /\ inner.granted + (grown - c.window) <= BUDGET
  <2>1. inner.granted <= BUDGET BY LimitsGood DEF Good, Within
  <2> QED BY <1>1, <2>1, GrowBounds
<1> HIDE DEF grown
<1>6. Good(e)
  <2>1. inner.granted + (grown - c.window) \in Nat BY <1>1, <1>5
  <2> HIDE DEF c
  <2> QED BY <1>5, <2>1, LimitsGood DEF Good, Inner, Within
<1>7. wide \in Conn /\ wide.held = c.held
  <2> HIDE DEF c
  <2> QED BY <1>3, <1>5 DEF Conn
<1> HIDE DEF wide, e
<1>8. Good([e EXCEPT !.conns[s.key] = wide]) BY <1>1, <1>6, <1>7, PutGood
<1>9. Good(FinishShutdown(consumed, s.key)) BY <1>1, <1>4, FinishShutdownGood
<1>10. Good(inner)'
    BY <1>4, <1>8, <1>9, LimitsGood DEF Acknowledge, e, wide, grown, credited, left
<1>11. [s EXCEPT !.unacked = 0] \in Server BY <1>1 DEF Server
<1>12. servers' \in [Ids -> Server] BY <1>11, LimitsGood DEF Acknowledge
<1> QED BY <1>10, <1>12, LimitsGood DEF Acknowledge

\* A server that leaves takes nothing with it.
LEMMA CloseLimits ==
    ASSUME Limits, NEW i \in Ids, Close(i)
    PROVE  Limits'
<1>1. servers[i].key \in Keys /\ servers[i] \in Server BY ServerFacts DEF Close
<1>2. Good(inner)' BY <1>1, LimitsGood, ShutdownGood DEF Close
<1>3. servers' \in [Ids -> Server] BY <1>1, IdleType, LimitsGood DEF Close
<1> QED BY <1>2, <1>3, LimitsGood DEF Close

\* Every step of a server keeps the limits.
LEMMA ServeLimits ==
    ASSUME Limits, NEW i \in Ids, Serve(i)
    PROVE  Limits'
BY TakeOutboundLimits, ReadOutboundLimits, CompleteLimits, FailLimits,
   AcknowledgeLimits, CloseLimits DEF Serve

\* The limits hold when the machine starts.
LEMMA InitLimits == Init => Limits
<1> SUFFICES ASSUME Init PROVE Limits OBVIOUS
<1>1. Good(inner)
    BY AbsentType, LimitTypes, CreditAssumption
    DEF Init, Good, Inner, Within, Nobody, CreditAssumption
<1>2. servers \in [Ids -> Server] BY IdleType DEF Init
<1>3. posted \in Seq(Packet) /\ free \subseteq Heads BY DEF Init
<1> QED BY <1>1, <1>2, <1>3, LimitsGood

\* Every step of the system keeps the limits.
LEMMA NextLimits == ASSUME Limits, [Next]_<<vars, load>> PROVE Limits'
<1>1. CASE UNCHANGED <<vars, load>>
    BY <1>1 DEF vars, Limits, TypeOK, ShareAndReserve, GrantedBounded
<1>2. CASE Next
    BY <1>2, DrainTxLimits, CompleteDoneLimits, ResetLimits, SweepLimits, HostLimits,
       ServeLimits, GuestPostLimits DEF Next
<1> QED BY <1>1, <1>2

\* The types of the device's state and of the threads around it hold in
\* every reachable state, for any guest, ring and budget.
THEOREM TypeCorrect == Spec => []TypeOK
<1>1. Limits => TypeOK BY DEF Limits
<1> QED BY InitLimits, NextLimits, <1>1, PTL DEF Spec

\* handle_guest_rw's two checks keep every connection within its share of
\* the ring and the reserve free, whatever the guest sends, whatever
\* connections are replaced and even across a reset.
THEOREM ShareAndReserveHold == Spec => []ShareAndReserve
<1>1. Limits => ShareAndReserve BY DEF Limits
<1> QED BY InitLimits, NextLimits, <1>1, PTL DEF Spec

\* The budget never promises more than it has.
THEOREM GrantedBoundedHolds == Spec => []GrantedBounded
<1>1. Limits => GrantedBounded BY DEF Limits
<1> QED BY InitLimits, NextLimits, <1>1, PTL DEF Spec
================================================================================
