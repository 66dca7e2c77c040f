------------------------------- MODULE VsockFlow -------------------------------
(***************************************************************************)
(* One connection a host client opens into the guest, end to end: the      *)
(* proxy's thread and the writer it starts (vsock_proxy.rs, pump in        *)
(* vsock/mod.rs), the device between them and the guest, the warden, and   *)
(* the Linux socket and application at the other end, which are external   *)
(* and modelled by what the device relies on.                              *)
(*                                                                         *)
(* Bytes are counted; payloads are one unit each way and the counters in   *)
(* packets wrap.  A packet the device hands over is received at once: the  *)
(* guest's receive ring is part of the outbox here.  Chains and the ring   *)
(* are the subject of VsockRing.                                           *)
(***************************************************************************)
EXTENDS VsockCredit, Sequences, SequencesExt

CONSTANTS
    OUTBOX_LIMIT,   \* packets a sender may have waiting
    SOCK_BUF,       \* what the host socket holds towards the client
    MaxBytes,       \* bound: bytes either end sends
    Loads           \* what a connection may be asked to carry

\* A load: the bytes each end sends at most, the guest socket's own buffer,
\* whether the client may end its request and read on, and whether sockets
\* fail, the client leaves and timers run out.
ASSUME FlowAssumption ==
    /\ OUTBOX_LIMIT \in Nat \ {0} /\ SOCK_BUF \in Nat \ {0} /\ MaxBytes \in Nat
    /\ Loads \subseteq [guest_bytes : 0 .. MaxBytes, client_bytes : 0 .. MaxBytes,
                        guest_buf : 1 .. (WRAP - 1) \div 2,
                        half_close : BOOLEAN, fail : BOOLEAN]

VARIABLES
    load,    \* the load this behaviour carries
    conn,    \* the device's table entry
    outbox,  \* packets waiting for the guest, in the connection's lane
    txring,  \* packets the guest has posted and the device not read
    guest,   \* the guest's socket
    sock,    \* the host socket between the client and the pump
    client,  \* the host client
    writer,  \* the thread that carries guest bytes to the socket
    reader   \* the proxy's thread, which carries the client's bytes

vars == <<conn, outbox, txring, guest, sock, client, writer, reader>>
--------------------------------------------------------------------------------
(* Packets.  SEND and RCV are the flags of a SHUTDOWN.                     *)

Packet(op, len, flags, buf, fwd) ==
    [op |-> op, len |-> len, flags |-> flags, buf_alloc |-> buf, fwd_cnt |-> fwd]

Control(op, buf, fwd) == Packet(op, 0, {}, buf, fwd)

Live == conn.state # "None"
Gone == [conn EXCEPT !.state = "None", !.outbound = 0]

\* Socket::close and Closable::stop_reading on the pump's end.
CloseBoth(s) == [s EXCEPT !.shut_read = TRUE, !.shut_write = TRUE]
StopReading(s) == [s EXCEPT !.shut_read = TRUE]
--------------------------------------------------------------------------------
(* Packets from the guest.                                                 *)

Observed(p) == [conn EXCEPT !.peer_buf = p.buf_alloc, !.peer_fwd = p.fwd_cnt]

\* Mutant: a close is answered once the queue is empty, whatever the writer
\* has in hand.
FinishesOnEmpty(c) ==
    \/ c.state = "Closed"
    \/ c.guest_done /\ c.guest_receive_closed /\ c.outbound = 0

Finishes(c) ==
    \/ c.state = "Closed"
    \/ c.guest_done /\ c.guest_receive_closed /\ c.received = c.fwd_cnt

\* finish_shutdown: the reset that answers a close once all is delivered.
FinishShutdown(c, box, s) ==
    IF Finishes(c)
    THEN /\ conn' = [c EXCEPT !.state = "None", !.outbound = 0]
         /\ outbox' = Append(box, Control("Rst", c.window, c.fwd_cnt))
         /\ sock' = CloseBoth(s)
    ELSE conn' = c /\ outbox' = box /\ sock' = s

HandleResponse(p) ==
    /\ p.op = "Response"
    /\ conn' = IF Live
               THEN [Observed(p) EXCEPT !.state = IF @ = "Connecting" THEN "Established" ELSE @]
               ELSE conn
    /\ UNCHANGED <<outbox, sock>>

HandleRst(p) ==
    /\ p.op = "Rst"
    /\ conn' = IF Live THEN Gone ELSE conn
    /\ sock' = IF Live THEN CloseBoth(sock) ELSE sock
    /\ UNCHANGED outbox

NotRw(p) == p.op # "Rw"

HandleShutdown(p) ==
    LET c == [Observed(p) EXCEPT
                !.guest_done = @ \/ "SEND" \in p.flags,
                !.guest_receive_closed = @ \/ "RCV" \in p.flags]
    IN  /\ p.op = "Shutdown"
        /\ IF ~Live THEN UNCHANGED <<conn, outbox, sock>>
           ELSE IF c.guest_receive_closed
           THEN FinishShutdown(c, SelectSeq(outbox, NotRw), StopReading(sock))
           ELSE FinishShutdown(c, outbox, sock)

HandleRw(p) ==
    /\ p.op = "Rw"
    /\ outbox' = IF Live THEN outbox ELSE Append(outbox, Control("Rst", BUF_ALLOC, 0))
    /\ conn' = IF ~Live THEN conn
               ELSE IF conn.state = "Closed" THEN Observed(p)
               ELSE [Observed(p) EXCEPT !.received = WrapAdd(@, p.len),
                                        !.outbound = @ + p.len]
    /\ UNCHANGED sock

HandleCreditUpdate(p) ==
    /\ p.op = "CreditUpdate"
    /\ conn' = IF Live THEN Observed(p) ELSE conn
    /\ UNCHANGED <<outbox, sock>>

\* drain_tx.
DrainTx ==
    /\ txring # <<>>
    /\ LET p == Head(txring)
       IN  \/ HandleResponse(p)
           \/ HandleRst(p)
           \/ HandleShutdown(p)
           \/ HandleRw(p)
           \/ HandleCreditUpdate(p)
    /\ txring' = Tail(txring)
    /\ UNCHANGED <<guest, client, writer, reader>>
--------------------------------------------------------------------------------
(* The writer: guest to host.                                              *)

\* take_outbound, and the end of the writer's loop: the client is owed EOF.
TakeOutbound ==
    /\ writer.at = "Take"
    /\ \/ /\ Live /\ conn.outbound > 0
          /\ writer' = [at |-> "Write", batch |-> conn.outbound, written |-> 0]
          /\ conn' = [conn EXCEPT !.outbound = 0]
          /\ UNCHANGED sock
       \/ /\ ~Live \/ (conn.outbound = 0 /\ (conn.state = "Closed" \/ conn.guest_done))
          /\ writer' = [writer EXCEPT !.at = "Done"]
          /\ sock' = [sock EXCEPT !.shut_write = TRUE]
          /\ UNCHANGED conn
    /\ UNCHANGED <<outbox, txring, guest, client, reader>>

\* write_all_chunks: part of the batch at a time, as the client makes room.
Write ==
    /\ writer.at = "Write" /\ writer.written < writer.batch
    /\ ~sock.shut_write /\ ~client.closed
    /\ sock.down < SOCK_BUF
    /\ sock' = [sock EXCEPT !.down = @ + 1, !.delivered = @ + 1]
    /\ writer' = [writer EXCEPT !.written = @ + 1]
    /\ UNCHANGED <<conn, outbox, txring, guest, client, reader>>

WriteFails ==
    /\ writer.at = "Write" /\ writer.written < writer.batch
    /\ sock.shut_write \/ client.closed
    /\ sock' = CloseBoth(sock)
    /\ writer' = [at |-> "Done", batch |-> 0, written |-> 0]
    /\ UNCHANGED <<conn, outbox, txring, guest, client, reader>>

\* Mutant: what was received is reported as consumed.
CreditUpdateReceived(c) == Control("CreditUpdate", c.window, c.received)
\* Mutant: an update is due after a whole window.
DueWholeWindow(c) == c.unreported >= c.window

\* The update an acknowledgement sends once a quarter of the window, ours or
\* the guest's, is unreported.
CreditUpdate(c) == Control("CreditUpdate", c.window, c.fwd_cnt)
Due(c) == c.unreported >= Least(c.window, Most(c.peer_buf, MIN_WINDOW)) \div 4

\* The only connection's window is all the budget has granted.
Grown(c) == Grow(BeyondLeast(c.window), c.window)

Acknowledge ==
    /\ writer.at = "Write" /\ writer.written = writer.batch
    /\ writer' = [at |-> "Take", batch |-> 0, written |-> 0]
    /\ LET c == [conn EXCEPT !.fwd_cnt = WrapAdd(@, writer.batch)]
           u == [c EXCEPT !.unreported = @ + writer.batch]
           w == [u EXCEPT !.unreported = 0, !.window = Grown(c)]
       IN  IF ~Live THEN UNCHANGED <<conn, outbox, sock>>
           ELSE IF c.guest_done /\ c.guest_receive_closed /\ c.received = c.fwd_cnt
           THEN FinishShutdown(c, outbox, sock)
           ELSE IF ~Due(u) THEN conn' = u /\ UNCHANGED <<outbox, sock>>
           ELSE conn' = w /\ outbox' = Append(outbox, CreditUpdate(w)) /\ UNCHANGED sock
    /\ UNCHANGED <<txring, guest, client, reader>>
--------------------------------------------------------------------------------
(* The reader: the proxy's thread, from open to close.                     *)

\* await_established, and abandon when the guest refused or is silent.
Await ==
    /\ reader.at = "Await"
    /\ \/ /\ conn.state = "Established"
          /\ reader' = [reader EXCEPT !.at = "Read"]
          /\ writer' = [writer EXCEPT !.at = "Take"]
          /\ UNCHANGED <<conn, outbox, sock>>
       \/ /\ ~Live
          /\ reader' = [reader EXCEPT !.at = "End", !.failed = TRUE]
          /\ writer' = [writer EXCEPT !.at = "Done"]
          /\ sock' = CloseBoth(sock)
          /\ UNCHANGED <<conn, outbox>>
    /\ UNCHANGED <<txring, guest, client>>

Abandon ==
    /\ load.fail /\ reader.at = "Await" /\ Live
    /\ conn' = Gone
    /\ outbox' = Append(outbox, Control("Rst", MIN_WINDOW, 0))
    /\ sock' = CloseBoth(sock)
    /\ reader' = [reader EXCEPT !.at = "End", !.failed = TRUE]
    /\ writer' = [writer EXCEPT !.at = "Done"]
    /\ UNCHANGED <<txring, guest, client>>

\* Mutant: the end of the stream is seen before the bytes ahead of it.
ReadEndFirst ==
    /\ reader.at = "Read"
    /\ \/ /\ sock.shut_read \/ client.ended \/ client.closed
          /\ reader' = [reader EXCEPT !.at = "HalfClose"]
          /\ UNCHANGED sock
       \/ /\ ~sock.shut_read /\ sock.up > 0
          /\ reader' = [reader EXCEPT !.at = "Send", !.left = sock.up]
          /\ sock' = [sock EXCEPT !.up = 0]
    /\ UNCHANGED <<conn, outbox, txring, guest, client, writer>>

\* read_host_socket: bytes or end of stream.
Read ==
    /\ reader.at = "Read"
    /\ \/ /\ sock.shut_read \/ (sock.up = 0 /\ (client.ended \/ client.closed))
          /\ reader' = [reader EXCEPT !.at = "HalfClose"]
          /\ UNCHANGED sock
       \/ /\ ~sock.shut_read /\ sock.up > 0
          /\ reader' = [reader EXCEPT !.at = "Send", !.left = sock.up]
          /\ sock' = [sock EXCEPT !.up = 0]
    /\ UNCHANGED <<conn, outbox, txring, guest, client, writer>>

ReadFails ==
    /\ load.fail /\ reader.at = "Read"
    /\ reader' = [reader EXCEPT !.at = "Close", !.failed = TRUE]
    /\ UNCHANGED <<conn, outbox, txring, guest, sock, client, writer>>

\* send, one hold of the lock: as much as credit allows, if the outbox has room.
Send ==
    /\ reader.at = "Send"
    /\ LET allowed == Available(conn.peer_buf, conn.peer_fwd, conn.tx_cnt)
           take == Least(allowed, reader.left)
       IN  IF conn.state = "Established" /\ ~conn.guest_receive_closed
           THEN /\ allowed > 0 /\ Len(outbox) < OUTBOX_LIMIT
                /\ outbox' = Append(outbox, Packet("Rw", take, {}, conn.window, conn.fwd_cnt))
                /\ conn' = [conn EXCEPT !.tx_cnt = WrapAdd(@, take)]
                /\ reader' = [reader EXCEPT !.left = @ - take,
                                            !.at = IF reader.left = take THEN "Read" ELSE "Send"]
           ELSE /\ reader' = [reader EXCEPT !.at = IF Live /\ conn.guest_receive_closed
                                                   THEN "HalfClose" ELSE "Close"]
                /\ UNCHANGED <<conn, outbox>>
    /\ UNCHANGED <<txring, guest, sock, client, writer>>

\* shutdown_write: the packet says nothing of what was consumed, so its
\* fwd_cnt is the zero Packet::control starts with.
ShutdownWrite ==
    /\ reader.at = "HalfClose"
    /\ outbox' = IF Live /\ ~conn.guest_receive_closed
                 THEN Append(outbox, Packet("Shutdown", 0, {"SEND"}, conn.window, 0))
                 ELSE outbox
    /\ reader' = [reader EXCEPT !.at = "Wait"]
    /\ UNCHANGED <<conn, txring, guest, sock, client, writer>>

\* Mutant: the pump closes without waiting for its writer.
WaitNot ==
    /\ reader.at = "Wait"
    /\ reader' = [reader EXCEPT !.at = "Close"]
    /\ UNCHANGED <<conn, outbox, txring, guest, sock, client, writer>>

\* Mutant: the pump waits for its writer alone.
WaitUnprobed ==
    /\ reader.at = "Wait"
    /\ writer.at = "Done"
    /\ reader' = [reader EXCEPT !.at = "Close"]
    /\ UNCHANGED <<conn, outbox, txring, guest, sock, client, writer>>

\* The half-closed wait: until the writer is done, or the client has gone.
Wait ==
    /\ reader.at = "Wait"
    /\ writer.at = "Done" \/ client.closed
    /\ reader' = [reader EXCEPT !.at = "Close"]
    /\ UNCHANGED <<conn, outbox, txring, guest, sock, client, writer>>

\* shutdown: both ways, and what the guest sent is dropped.
Shutdown ==
    /\ reader.at = "Close"
    /\ IF Live
       THEN /\ conn' = [conn EXCEPT !.state = "Closed", !.outbound = 0]
            /\ outbox' = Append(outbox,
                   Packet("Shutdown", 0, {"SEND", "RCV"}, conn.window, conn.fwd_cnt))
            /\ sock' = CloseBoth(sock)
       ELSE UNCHANGED <<conn, outbox, sock>>
    /\ reader' = [reader EXCEPT !.at = "Join"]
    /\ UNCHANGED <<txring, guest, client, writer>>

Join ==
    /\ reader.at = "Join" /\ writer.at = "Done"
    /\ reader' = [reader EXCEPT !.at = "End"]
    /\ UNCHANGED <<conn, outbox, txring, guest, sock, client, writer>>
--------------------------------------------------------------------------------
(* The warden.                                                             *)

\* sweep: a connection that stalls or idles keeps only the least window.
SweepCut ==
    /\ conn.state = "Established" /\ conn.window > MIN_WINDOW
    /\ LET c == [conn EXCEPT !.window = Shrink(@)]
       IN  conn' = c /\ outbox' = Append(outbox, CreditUpdate(c))
    /\ UNCHANGED <<txring, guest, sock, client, writer, reader>>

\* sweep: a close the guest never answered.
SweepClosed ==
    /\ load.fail /\ conn.state = "Closed"
    /\ conn' = Gone
    /\ outbox' = Append(outbox, Control("Rst", MIN_WINDOW, 0))
    /\ sock' = CloseBoth(sock)
    /\ UNCHANGED <<txring, guest, client, writer, reader>>
--------------------------------------------------------------------------------
(* The guest: Linux's virtio transport and an application (external).      *)

GuestSends(p) == txring' = Append(txring, p)
GuestControl(op, flags) == Packet(op, 0, flags, load.guest_buf, guest.fwd_cnt)

\* drain_rx hands over one packet, whose credit fields the socket takes first.
Heard(p) == [guest EXCEPT !.heard_buf = p.buf_alloc, !.heard_fwd = p.fwd_cnt]

GuestRequest(p) ==
    /\ p.op = "Request"
    /\ \/ guest' = [Heard(p) EXCEPT !.state = "Open"] /\ GuestSends(GuestControl("Response", {}))
       \/ guest' = [guest EXCEPT !.state = "Gone", !.cut = TRUE] /\ GuestSends(GuestControl("Rst", {}))

GuestNoSocket(p) ==
    /\ p.op # "Request" /\ guest.state \in {"Listen", "Gone"}
    /\ UNCHANGED guest
    /\ IF p.op = "Rst" THEN UNCHANGED txring ELSE GuestSends(GuestControl("Rst", {}))

GuestRst(p) ==
    /\ p.op = "Rst" /\ guest.state \in {"Open", "Closing"}
    /\ guest' = [guest EXCEPT !.state = "Gone"]
    /\ UNCHANGED txring

GuestRw(p) ==
    /\ p.op = "Rw" /\ guest.state \in {"Open", "Closing"}
    /\ guest' = IF guest.state = "Closing" THEN Heard(p)
                ELSE [Heard(p) EXCEPT !.rx = @ + p.len, !.got = @ + p.len]
    /\ UNCHANGED txring

\* A close both ways of a socket with nothing unread is answered at once.
GuestShutdown(p) ==
    LET g == [Heard(p) EXCEPT !.host_ended = @ \/ "SEND" \in p.flags,
                              !.host_closed = @ \/ "RCV" \in p.flags]
        answer == guest.state = "Open" /\ g.host_ended /\ g.host_closed /\ g.rx = 0
    IN  /\ p.op = "Shutdown" /\ guest.state \in {"Open", "Closing"}
        /\ guest' = IF guest.state = "Closing" THEN Heard(p)
                    ELSE IF answer THEN [g EXCEPT !.state = "Gone"] ELSE g
        /\ IF answer THEN GuestSends(GuestControl("Rst", {})) ELSE UNCHANGED txring

GuestCreditUpdate(p) ==
    /\ p.op = "CreditUpdate" /\ guest.state \in {"Open", "Closing"}
    /\ guest' = Heard(p)
    /\ UNCHANGED txring

DrainRx ==
    /\ outbox # <<>>
    /\ LET p == Head(outbox)
       IN  \/ GuestRequest(p)
           \/ GuestNoSocket(p)
           \/ GuestRst(p)
           \/ GuestRw(p)
           \/ GuestShutdown(p)
           \/ GuestCreditUpdate(p)
    /\ outbox' = Tail(outbox)
    /\ UNCHANGED <<conn, sock, client, writer, reader>>

\* The application sends while it has credit: its own buffer's worth ahead
\* of what it last heard, at most.
GuestSend ==
    /\ guest.state = "Open" /\ ~guest.ended /\ ~guest.host_closed
    /\ guest.sent < load.guest_bytes
    /\ Available(Least(guest.heard_buf, load.guest_buf), guest.heard_fwd, guest.tx_cnt) > 0
    /\ guest' = [guest EXCEPT !.sent = @ + 1, !.tx_cnt = WrapAdd(@, 1)]
    /\ GuestSends(Packet("Rw", 1, {}, load.guest_buf, guest.fwd_cnt))
    /\ UNCHANGED <<conn, outbox, sock, client, writer, reader>>

GuestRead ==
    /\ guest.state = "Open" /\ guest.rx > 0
    /\ LET g == [guest EXCEPT !.rx = 0, !.fwd_cnt = WrapAdd(@, guest.rx)]
       IN  guest' = g /\ GuestSends(Packet("CreditUpdate", 0, {}, load.guest_buf, g.fwd_cnt))
    /\ UNCHANGED <<conn, outbox, sock, client, writer, reader>>

GuestEnd ==
    /\ guest.state = "Open" /\ ~guest.ended
    /\ guest' = [guest EXCEPT !.ended = TRUE]
    /\ GuestSends(GuestControl("Shutdown", {"SEND"}))
    /\ UNCHANGED <<conn, outbox, sock, client, writer, reader>>

GuestClose ==
    /\ guest.state = "Open"
    /\ IF guest.host_ended /\ guest.host_closed
       THEN /\ guest' = [guest EXCEPT !.state = "Gone"]
            /\ GuestSends(GuestControl("Rst", {}))
       ELSE /\ guest' = [guest EXCEPT !.state = "Closing", !.ended = TRUE, !.rx = 0]
            /\ GuestSends(GuestControl("Shutdown", {"SEND", "RCV"}))
    /\ UNCHANGED <<conn, outbox, sock, client, writer, reader>>

\* The guest's own close timeout: it resets what the host never answered.
GuestTimeout ==
    /\ load.fail /\ guest.state = "Closing"
    /\ guest' = [guest EXCEPT !.state = "Gone", !.cut = TRUE]
    /\ GuestSends(GuestControl("Rst", {}))
    /\ UNCHANGED <<conn, outbox, sock, client, writer, reader>>
--------------------------------------------------------------------------------
(* The client.                                                             *)

ClientWrite ==
    /\ ~client.ended /\ ~client.closed /\ client.sent < load.client_bytes
    /\ client' = [client EXCEPT !.sent = @ + 1]
    /\ sock' = [sock EXCEPT !.up = @ + 1]
    /\ UNCHANGED <<conn, outbox, txring, guest, writer, reader>>

ClientRead ==
    /\ ~client.closed /\ sock.down > 0
    /\ sock' = [sock EXCEPT !.down = @ - 1]
    /\ UNCHANGED <<conn, outbox, txring, guest, client, writer, reader>>

ClientEnd ==
    /\ load.half_close /\ ~client.ended /\ ~client.closed
    /\ client' = [client EXCEPT !.ended = TRUE]
    /\ UNCHANGED <<conn, outbox, txring, guest, sock, writer, reader>>

\* A client that has read to the end closes; one that gives up may close
\* at any time.
ClientClose ==
    /\ ~client.closed
    /\ load.fail \/ (sock.shut_write /\ sock.down = 0)
    /\ client' = [client EXCEPT !.closed = TRUE,
                                !.gave_up = ~(sock.shut_write /\ sock.down = 0)]
    /\ UNCHANGED <<conn, outbox, txring, guest, sock, writer, reader>>
--------------------------------------------------------------------------------
Init ==
    /\ load \in Loads
    /\ conn = [state |-> "Connecting", window |-> Open, outbound |-> 0,
               received |-> 0, fwd_cnt |-> 0, unreported |-> 0,
               tx_cnt |-> 0, peer_buf |-> 0, peer_fwd |-> 0,
               guest_done |-> FALSE, guest_receive_closed |-> FALSE]
    /\ outbox = <<Control("Request", Open, 0)>>
    /\ txring = <<>>
    /\ guest = [state |-> "Listen", sent |-> 0, tx_cnt |-> 0,
                heard_buf |-> 0, heard_fwd |-> 0, rx |-> 0, got |-> 0, fwd_cnt |-> 0,
                ended |-> FALSE, host_ended |-> FALSE, host_closed |-> FALSE,
                cut |-> FALSE]
    /\ sock = [up |-> 0, down |-> 0, delivered |-> 0,
               shut_read |-> FALSE, shut_write |-> FALSE]
    /\ client = [sent |-> 0, ended |-> FALSE, closed |-> FALSE, gave_up |-> FALSE]
    /\ writer = [at |-> "Start", batch |-> 0, written |-> 0]
    /\ reader = [at |-> "Await", left |-> 0, failed |-> FALSE]

Device == DrainTx \/ DrainRx
Pump == \/ TakeOutbound \/ Write \/ WriteFails \/ Acknowledge
        \/ Await \/ Abandon \/ Read \/ ReadFails \/ Send \/ ShutdownWrite \/ Wait \/ Shutdown \/ Join
Warden == SweepCut \/ SweepClosed
Guest == GuestSend \/ GuestRead \/ GuestEnd \/ GuestClose \/ GuestTimeout
Client == ClientWrite \/ ClientRead \/ ClientEnd \/ ClientClose

Next ==
    /\ Device \/ Pump \/ Warden \/ Guest \/ Client
    /\ UNCHANGED load

Spec == Init /\ [][Next]_<<vars, load>>

\* Threads and device queues run; both applications read what they are given,
\* the guest's sends what it has, and the warden's timers expire.
Fairness ==
    /\ WF_vars(DrainTx) /\ WF_vars(DrainRx)
    /\ WF_vars(TakeOutbound) /\ WF_vars(Write) /\ WF_vars(WriteFails) /\ WF_vars(Acknowledge)
    /\ WF_vars(Await) /\ WF_vars(Read) /\ WF_vars(Send) /\ WF_vars(ShutdownWrite)
    /\ WF_vars(Wait) /\ WF_vars(Shutdown) /\ WF_vars(Join)
    /\ WF_vars(SweepCut) /\ WF_vars(SweepClosed)
    /\ WF_vars(GuestSend) /\ WF_vars(GuestRead) /\ WF_vars(ClientRead)

FairSpec == Spec /\ Fairness
--------------------------------------------------------------------------------
Packets ==
    [op : {"Request", "Response", "Rst", "Shutdown", "Rw", "CreditUpdate"},
     len : 0 .. MaxBytes, flags : SUBSET {"SEND", "RCV"},
     buf_alloc : 1 .. Most(load.guest_buf, BUF_ALLOC), fwd_cnt : 0 .. WRAP - 1]

\* Every variable has its type.
TypeOK ==
    /\ conn \in [state : {"None", "Connecting", "Established", "Closed"},
                 window : MIN_WINDOW .. BUF_ALLOC, outbound : 0 .. load.guest_bytes,
                 received : 0 .. WRAP - 1, fwd_cnt : 0 .. WRAP - 1, unreported : 0 .. load.guest_bytes,
                 tx_cnt : 0 .. WRAP - 1, peer_buf : {0, load.guest_buf}, peer_fwd : 0 .. WRAP - 1,
                 guest_done : BOOLEAN, guest_receive_closed : BOOLEAN]
    /\ outbox \in Seq(Packets) /\ txring \in Seq(Packets)
    /\ guest \in [state : {"Listen", "Open", "Closing", "Gone"}, sent : 0 .. load.guest_bytes,
                  tx_cnt : 0 .. WRAP - 1, heard_buf : 0 .. BUF_ALLOC,
                  heard_fwd : 0 .. WRAP - 1, rx : 0 .. load.client_bytes,
                  got : 0 .. load.client_bytes,
                  fwd_cnt : 0 .. WRAP - 1, ended : BOOLEAN, host_ended : BOOLEAN,
                  host_closed : BOOLEAN, cut : BOOLEAN]
    /\ sock \in [up : 0 .. load.client_bytes, down : 0 .. SOCK_BUF, delivered : 0 .. load.guest_bytes,
                 shut_read : BOOLEAN, shut_write : BOOLEAN]
    /\ client \in [sent : 0 .. load.client_bytes, ended : BOOLEAN, closed : BOOLEAN, gave_up : BOOLEAN]
    /\ writer \in [at : {"Start", "Take", "Write", "Done"},
                   batch : 0 .. load.guest_bytes, written : 0 .. load.guest_bytes]
    /\ reader \in [at : {"Await", "Read", "Send", "HalfClose", "Wait", "Close", "Join", "End"},
                   left : 0 .. load.client_bytes, failed : BOOLEAN]

InFlight == FoldLeft(LAMBDA n, p : n + p.len, 0, outbox)

\* Neither end's memory is overrun.  What the guest sent and the client has not
\* been given, queued or in the writer's hands, is never more than a full
\* window: the queue has no limit of its own (Conn::outbound), and credit is
\* kept where no half-close has the guest count its bytes anew.  What the
\* device has sent and the guest's application not read never exceeds what the
\* guest advertised, so Linux drops nothing (Credit::available).
BuffersKept ==
    /\ TypeOK
    /\ ~load.half_close => conn.outbound + (writer.batch - writer.written) <= BUF_ALLOC
    /\ guest.state = "Open" => guest.rx + InFlight <= load.guest_buf


\* A graceful close is answered by a reset only when every byte is with the
\* client (finish_shutdown): unless an end gave up, the connection leaves the
\* table after a close by the guest with nothing undelivered.
GracefulReset ==
    (/\ guest.state = "Closing" /\ ~Live
     /\ ~client.gave_up /\ ~reader.failed)
        => sock.delivered = guest.sent

\* Each direction is a byte stream: the client's end of the guest's bytes, and
\* the guest's end of the client's.  The first is cut by a client that gives
\* up, a reader that fails, a guest that stops waiting for the close to be
\* answered; the second also by a guest that closes.
ToClient == INSTANCE ByteStream WITH
    sent <- guest.sent, delivered <- sock.delivered, ended <- guest.ended,
    eof <- sock.shut_write,
    broken <- client.gave_up \/ reader.failed \/ guest.cut
ToGuest == INSTANCE ByteStream WITH
    sent <- client.sent, delivered <- guest.got, ended <- client.ended \/ client.closed,
    eof <- guest.host_ended,
    broken <- client.gave_up \/ reader.failed \/ guest.state \in {"Closing", "Gone"}

\* What a guest sends reaches the client, and then the end of the stream.
GuestToClient == ToClient!Spec

\* What a client sends reaches the guest, and then the end of the stream.
ClientToGuest == ToGuest!Spec

\* A guest with bytes to send and a client that reads never waits for credit
\* for ever: MIN_WINDOW is kept "so it can always make progress".
GuestNeverStalls ==
    \A n \in 0 .. MaxBytes - 1 :
        (guest.state = "Open" /\ guest.sent = n /\ n < load.guest_bytes)
            ~> \/ guest.sent > n \/ guest.ended \/ guest.host_closed
               \/ guest.state # "Open"

\* Once either end has closed, the connection leaves the table and both of the
\* pump's threads end: none is left waiting on a socket or on credit.
PumpEnds ==
    (guest.state = "Closing" \/ client.closed)
        ~> (~Live /\ writer.at = "Done" /\ reader.at = "End")
================================================================================
