------------------------------ MODULE TcpFlow ------------------------------
(***************************************************************************)
(* One guest TCP flow through the host's user-space network stack          *)
(* (host/src/qemu/network-stack.ts) and its backend (host/src/qemu/net.ts):*)
(* the NAT entry, the upstream socket behind it, the frames queued for     *)
(* QEMU, and the two pause flags that stop the upstream socket.            *)
(*                                                                         *)
(* The flow is one key (the 4-tuple); the guest may use it again for a new *)
(* connection, so connections are numbered.  Payload is counted in         *)
(* segments.  The guest's TCP, Node's net.Socket and the upstream peer are *)
(* external.                                                               *)
(*                                                                         *)
(* A bound on what is modelled: sequence numbers are offsets from the      *)
(* initial ones.  The code keeps raw numbers, adds and compares them       *)
(* without reducing them modulo 2^32, and writes them with writeUInt32BE,  *)
(* which throws beyond it.  The model is of connections that stay below:   *)
(* it says nothing of one whose numbers wrap, which this code cannot carry *)
(* on (the guest's start anywhere in the range).                           *)
(***************************************************************************)
EXTENDS Integers, Sequences, SequencesExt

CONSTANTS
    Setups,         \* the small configurations a behaviour starts from
    MaxInFlight,    \* TCP_MAX_IN_FLIGHT_BYTES, in segments
    Burst,          \* TCP_MAX_BURST_BYTES, in segments
    TxMax,          \* TX_QUEUE_MAX_BYTES, in packets
    HighWater,      \* TX_BUFFER_HIGH_WATER, in packets
    LowWater,       \* TX_BUFFER_LOW_WATER, in packets
    MaxPending,     \* maxTcpPendingWriteBytes, in segments
    SniffLimit,     \* undecided segments after which a flow is refused
    MaxUnread       \* bound: segments of the guest the host has not read

FlowAssumption ==
    /\ {MaxInFlight, Burst, TxMax, MaxPending, SniffLimit, MaxUnread} \subseteq Nat \ {0}
    /\ LowWater \in Nat /\ HighWater \in LowWater .. TxMax
    /\ \A s \in Setups : /\ s.conns \in Nat \ {0} /\ s.rcvBuf \in Nat \ {0}
                         /\ {s.guestBytes, s.hostBytes, s.stalls, s.losses} \subseteq Nat
                         /\ {s.mapped, s.rude} \subseteq BOOLEAN

VARIABLES
    setup,      \* the configuration of this behaviour
    h,          \* the host: NAT entry, backend session, sockets, queue
    wire,       \* packets written to QEMU that the guest has not received
    toHost,     \* the guest's segments that the host has not read
    guest       \* the guest's end of its newest connection

vars == <<setup, h, wire, toHost, guest>>

Conns == 1 .. setup.conns
Least(S) == CHOOSE x \in S : \A y \in S : x <= y
Most(a, b) == IF a > b THEN a ELSE b

-----------------------------------------------------------------------------
(* Host state *)

\* No entry in natTable; also the form of an entry that has been deleted.
NoNat == [live |-> FALSE, conn |-> 0, state |-> "SYN_SENT", vmAck |-> 0, mySeq |-> 0, myAck |-> 0,
          peerWindow |-> 0, out |-> 0, endPending |-> FALSE, flow |-> FALSE, sniffed |-> 0,
          drainScheduled |-> FALSE]

\* The backend's entry in tcpSessions (conn 0: there is none).
NoSession == [conn |-> 0, pend |-> 0]

\* A net.Socket: `fin` says who ended it, `in` and `buf` count what it has
\* emitted and what it still has to write, `got` what the peer received.
NoSocket == [st |-> "none", fin |-> "no", paused |-> FALSE, eof |-> FALSE, in |-> 0, buf |-> 0, got |-> 0]

Init ==
    /\ setup \in Setups
    /\ h = [nat |-> NoNat, ses |-> NoSession, sock |-> [c \in Conns |-> NoSocket], tx |-> <<>>, new |-> <<>>,
            waitingDrain |-> FALSE, queuePaused |-> FALSE, flowPaused |-> FALSE]
    /\ wire = <<>>
    /\ toHost = <<>>
    /\ guest = [conn |-> 0, st |-> "closed", sent |-> 0, fin |-> FALSE, got |-> 0, read |-> 0,
                gotFin |-> FALSE, stalls |-> setup.stalls, losses |-> setup.losses]

\* A handler runs to its end, then what it wrote is on QEMU's socket and a
\* deleted entry is forgotten.
Commit(host) ==
    /\ h' = [host EXCEPT !.new = <<>>, !.nat = IF @.live THEN @ ELSE NoNat]
    /\ wire' = wire \o host.new

-----------------------------------------------------------------------------
(* The backend's callbacks (net.ts) *)

HasSocket(x) == x.ses.conn # 0 /\ x.sock[x.ses.conn].st # "none"

OnTcpPause(x) == IF HasSocket(x) THEN [x EXCEPT !.sock[x.ses.conn].paused = TRUE] ELSE x
OnTcpResume(x) == IF HasSocket(x) THEN [x EXCEPT !.sock[x.ses.conn].paused = FALSE] ELSE x

\* destroy() and end() on a socket of Node's.
Destroyed(s) == IF s.st \in {"connecting", "open"} THEN [s EXCEPT !.st = "destroyed"] ELSE s
Ended(s, who) == IF s.fin = "no" THEN [s EXCEPT !.fin = who] ELSE s

\* The guest closed its end: writes not yet handed to the socket are dropped,
\* also those of a socket that still connects.
OnTcpClose(x, destroy) ==
    IF x.ses.conn = 0 THEN x
    ELSE IF ~HasSocket(x) THEN [x EXCEPT !.ses = NoSession]
    ELSE [x EXCEPT !.ses.pend = 0,
                   !.sock[x.ses.conn] = IF destroy THEN Destroyed(@) ELSE Ended(@, "guest")]

ClearPauseState(x) == [x EXCEPT !.queuePaused = FALSE, !.flowPaused = FALSE]

DestroyTcpSession(x) == [ClearPauseState(OnTcpClose(x, TRUE)) EXCEPT !.nat.live = FALSE]

-----------------------------------------------------------------------------
(* Frames to the guest *)

Packet(c, kind) == [conn |-> c, kind |-> kind]

\* enqueueTx and the flush that follows it.  A full queue drops the packet;
\* a dropped payload takes its flow with it.
SendTcp(x, c, kind) ==
    IF ~x.waitingDrain THEN [x EXCEPT !.new = Append(@, Packet(c, kind))]
    ELSE IF Len(x.tx) < TxMax THEN [x EXCEPT !.tx = Append(@, Packet(c, kind))]
    ELSE IF kind = "data" /\ x.nat.live THEN DestroyTcpSession(x)
    ELSE x

Reply(x, kind) == SendTcp(x, x.nat.conn, kind)

InFlight(n) == Most(0, n.mySeq - n.vmAck)
\* Mutant: the guest's window is not looked at.
MayFlyUnlimited(n) == MaxInFlight
MayFly(n) == Least({n.peerWindow, MaxInFlight})

PauseFlow(x) == IF x.flowPaused THEN x ELSE OnTcpPause([x EXCEPT !.flowPaused = TRUE])

MaybeResumeFlow(x) ==
    IF x.flowPaused /\ (~x.nat.live \/ x.nat.out = 0 \/ InFlight(x.nat) < MayFly(x.nat))
    THEN LET y == [x EXCEPT !.flowPaused = FALSE]
         IN IF y.queuePaused THEN y ELSE OnTcpResume(y)
    ELSE x

\* One segment of pendingOutbound; a drop in SendTcp has removed the entry.
SendSegment(x) ==
    IF ~x.nat.live THEN x
    ELSE LET y == Reply([x EXCEPT !.nat.out = @ - 1], "data")
         IN IF y.nat.live THEN [y EXCEPT !.nat.mySeq = @ + 1] ELSE y

SendSegments(x, k) == FoldLeft(LAMBDA y, i : SendSegment(y), x, [i \in 1 .. k |-> i])

\* The FIN that waits behind pendingOutbound.
SendEnd(x) ==
    IF x.nat.out = 0 /\ x.nat.endPending /\ InFlight(x.nat) < MayFly(x.nat)
    THEN [Reply(x, "fin") EXCEPT !.nat.mySeq = @ + 1, !.nat.state = "FIN_WAIT", !.nat.endPending = FALSE]
    ELSE x

PauseOrResume(x) ==
    IF x.nat.out > 0 \/ x.nat.endPending THEN PauseFlow(x) ELSE MaybeResumeFlow(x)

DrainOutbound(x) ==
    IF ~x.nat.live THEN x
    ELSE IF x.nat.out = 0 /\ ~x.nat.endPending THEN MaybeResumeFlow(x)
    ELSE LET room == Most(0, MayFly(x.nat) - InFlight(x.nat))
             burst == Least({x.nat.out, room, Burst})
             y == SendSegments(x, burst)
         IN IF ~y.nat.live THEN y
            ELSE IF y.nat.out > 0 /\ burst < room /\ burst = Burst
            THEN [y EXCEPT !.nat.drainScheduled = TRUE]
            ELSE PauseOrResume(SendEnd(y))

-----------------------------------------------------------------------------
(* Upstream events (network-stack.ts handleTcp..., net.ts ensureTcpSocket) *)

HandleTcpConnected(x) ==
    [Reply([x EXCEPT !.nat.state = "ESTABLISHED"], "synack") EXCEPT !.nat.mySeq = @ + 1]

PauseOnFullQueue(x) ==
    IF Len(x.tx) > HighWater /\ ~x.queuePaused THEN OnTcpPause([x EXCEPT !.queuePaused = TRUE]) ELSE x

HandleTcpData(x, n) ==
    IF x.nat.live THEN PauseOnFullQueue(DrainOutbound([x EXCEPT !.nat.out = @ + n])) ELSE x

HandleTcpEnd(x) ==
    IF x.nat.live THEN DrainOutbound([x EXCEPT !.nat.endPending = TRUE]) ELSE x

HandleTcpError(x) ==
    IF x.nat.live THEN [ClearPauseState(Reply(x, "rst")) EXCEPT !.nat.live = FALSE] ELSE x

HandleTcpClosed(x) ==
    IF x.nat.live THEN [x EXCEPT !.nat.state = "CLOSED_BY_REMOTE"] ELSE x

\* More is buffered than the backend allows.
AbortTcpSession(x) ==
    [HandleTcpError([x EXCEPT !.sock[x.ses.conn] = Destroyed(@)]) EXCEPT !.ses = NoSession]

QueueTcpPendingWrite(x, n) ==
    IF x.ses.pend + n > MaxPending THEN AbortTcpSession(x) ELSE [x EXCEPT !.ses.pend = @ + n]

EnsureTcpSocket(x) ==
    [x EXCEPT !.sock[x.ses.conn] = IF @.st = "none" THEN [@ EXCEPT !.st = "connecting"] ELSE @]

HandleTcpSend(x, n) ==
    IF x.ses.conn = 0 THEN x
    ELSE LET y == EnsureTcpSocket(x)
             s == y.sock[y.ses.conn]
         IN IF s.st # "open" \/ s.fin # "no" THEN QueueTcpPendingWrite(y, n)
            ELSE IF s.buf + n > MaxPending THEN AbortTcpSession(y)
            ELSE [y EXCEPT !.sock[y.ses.conn].buf = @ + n]

\* Events of the socket of connection c.  They find the flow by its key, so
\* they act on whatever entry has the key by then.
SocketUnchanged == UNCHANGED <<setup, toHost, guest>>

SocketConnects(c) ==
    /\ h.sock[c].st = "connecting"
    /\ Commit([h EXCEPT !.sock[c].st = "open",
                        !.sock[c].buf = IF h.ses.conn = c THEN h.ses.pend ELSE 0,
                        !.ses.pend = IF h.ses.conn = c THEN 0 ELSE @])
    /\ SocketUnchanged

Readable(s) == s.st = "open" /\ ~s.paused /\ ~s.eof

SocketData(c) ==
    /\ Readable(h.sock[c])
    /\ \E n \in 1 .. setup.hostBytes - h.sock[c].in :
          Commit(HandleTcpData([h EXCEPT !.sock[c].in = @ + n], n))
    /\ SocketUnchanged

\* allowHalfOpen is off: Node ends the socket when its peer has.
SocketEnd(c) ==
    /\ Readable(h.sock[c])
    /\ Commit(HandleTcpEnd([h EXCEPT !.sock[c] = [Ended(@, "auto") EXCEPT !.eof = TRUE]]))
    /\ SocketUnchanged

SocketClose(c) ==
    /\ \/ h.sock[c].st = "destroyed"
       \/ h.sock[c].st = "open" /\ h.sock[c].eof /\ h.sock[c].buf = 0
    /\ Commit([HandleTcpClosed(h) EXCEPT !.sock[c].st = "closed", !.ses = NoSession])
    /\ SocketUnchanged

SocketError(c) ==
    /\ setup.rude
    /\ h.sock[c].st \in {"connecting", "open"}
    /\ Commit([HandleTcpError(h) EXCEPT !.sock[c] = Destroyed(@), !.ses = NoSession])
    /\ SocketUnchanged

UpstreamReads(c) ==
    /\ h.sock[c].st = "open" /\ h.sock[c].buf > 0
    /\ h' = [h EXCEPT !.sock[c].got = @ + h.sock[c].buf, !.sock[c].buf = 0]
    /\ UNCHANGED <<setup, wire, toHost, guest>>

-----------------------------------------------------------------------------
(* Segments from the guest (network-stack.ts handleTCP) *)

\* A SYN for a key that is free: the backend replaces its session, if any.
OpenFlow(x, seg) ==
    HandleTcpConnected([x EXCEPT !.nat = [NoNat EXCEPT !.live = TRUE, !.conn = seg.conn,
                                                       !.peerWindow = seg.window],
                                 !.ses = [NoSession EXCEPT !.conn = seg.conn]])

TakeAck(x, seg) ==
    LET n == x.nat
        newAck == seg.ack > n.vmAck /\ seg.ack <= n.mySeq
        y == [x EXCEPT !.nat.peerWindow = seg.window, !.nat.vmAck = IF newAck THEN seg.ack ELSE @]
    IN IF newAck \/ (n.out > 0 /\ seg.window > n.peerWindow) THEN DrainOutbound(y) ELSE y

RejectTcpFlow(x) == DestroyTcpSession(Reply(x, "rst"))

\* classifyTcpFlow and the policy: mapped flows are forwarded as they are, any
\* other is collected until it is known to be none of the mediated protocols.
Refuses(x, new) == ~setup.mapped /\ ~x.nat.flow /\ x.nat.sniffed + new >= SniffLimit

TakePayload(x, new, fin) ==
    LET all == x.nat.sniffed + new
        decided == x.nat.flow \/ setup.mapped
        y == [x EXCEPT !.nat.myAck = @ + new, !.nat.flow = decided,
                       !.nat.sniffed = IF decided THEN 0 ELSE all]
        z == IF decided /\ all > 0 THEN HandleTcpSend(y, all) ELSE y
    IN IF fin THEN z ELSE Reply(z, "ack")

\* The FIN of the guest, in order, behind its last byte or a duplicate.
TakeFin(x, finSeq) ==
    IF finSeq # x.nat.myAck THEN Reply(x, "ack")
    ELSE LET y == Reply([OnTcpClose(x, FALSE) EXCEPT !.nat.myAck = @ + 1], "ack")
         IN IF y.nat.state \in {"CLOSED_BY_REMOTE", "FIN_WAIT"}
            THEN [ClearPauseState(y) EXCEPT !.nat.live = FALSE]
            ELSE [y EXCEPT !.nat.state = "FIN_SENT"]

HandleSegment(x, seg) ==
    LET y == TakeAck(x, seg)
        skip == y.nat.myAck - seg.off
        new == Most(0, seg.len - skip)
        old == seg.len > 0 /\ skip >= seg.len
        z == IF old THEN Reply(y, "ack") ELSE y
        w == IF seg.len > 0 THEN TakePayload(z, new, seg.fin) ELSE z
    IN IF seg.len > 0 /\ skip < 0 THEN Reply(y, "ack")
       ELSE IF old /\ ~seg.fin THEN z
       ELSE IF seg.len > 0 /\ Refuses(z, new) THEN RejectTcpFlow(z)
       ELSE IF seg.fin THEN TakeFin(w, seg.off + seg.len) ELSE w

HandleTCP ==
    /\ toHost # <<>>
    /\ LET seg == Head(toHost) IN
       Commit(IF seg.rst THEN (IF h.nat.live THEN DestroyTcpSession(h) ELSE h)
              ELSE IF h.nat.live THEN HandleSegment(h, seg)
              ELSE IF seg.syn THEN OpenFlow(h, seg)
              ELSE SendTcp(h, seg.conn, "rst"))
    /\ toHost' = Tail(toHost)
    /\ UNCHANGED <<setup, guest>>

\* The setImmediate of a drain that reached its burst limit.
DrainTick ==
    /\ h.nat.drainScheduled
    /\ Commit(DrainOutbound([h EXCEPT !.nat.drainScheduled = FALSE]))
    /\ UNCHANGED <<setup, toHost, guest>>

-----------------------------------------------------------------------------
(* The socket to QEMU (net.ts flush, network-stack.ts readFromNetwork) *)

\* A write returned false: what follows is queued.
QemuStalls ==
    /\ ~h.waitingDrain /\ guest.stalls > 0
    /\ h' = [h EXCEPT !.waitingDrain = TRUE]
    /\ guest' = [guest EXCEPT !.stalls = @ - 1]
    /\ UNCHANGED <<setup, wire, toHost>>

ResumeOnLowQueue(x) ==
    IF Len(x.tx) < LowWater /\ x.queuePaused
    THEN [(IF x.flowPaused THEN x ELSE OnTcpResume(x)) EXCEPT !.queuePaused = FALSE]
    ELSE x

\* "drain": as much is written as goes before a write returns false again.
QemuDrains ==
    /\ h.waitingDrain
    /\ \E k \in 0 .. Len(h.tx) :
          /\ k = 0 => h.tx = <<>>
          /\ wire' = wire \o SubSeq(h.tx, 1, k)
          /\ h' = [(IF k = 0 THEN h ELSE ResumeOnLowQueue([h EXCEPT !.tx = SubSeq(@, k + 1, Len(@))]))
                   EXCEPT !.waitingDrain = k < Len(h.tx)]
    /\ UNCHANGED <<setup, toHost, guest>>

-----------------------------------------------------------------------------
(* The guest's TCP and its program (external) *)

Window(g) == setup.rcvBuf - (g.got - g.read)
\* What the guest acknowledges: the SYN, the data and the FIN it has seen.
AckOf(g) == 1 + g.got + (IF g.gotFin THEN 1 ELSE 0)

Segment(g) == [conn |-> g.conn, syn |-> FALSE, rst |-> FALSE, fin |-> FALSE, ack |-> AckOf(g),
               window |-> Window(g), off |-> g.sent, len |-> 0]

CanSend == Len(toHost) < MaxUnread
Sends(seg) == toHost' = Append(toHost, seg)

GuestOpens ==
    /\ guest.st = "closed" /\ guest.conn < setup.conns /\ CanSend
    /\ guest' = [guest EXCEPT !.conn = @ + 1, !.st = "syn", !.sent = 0, !.fin = FALSE, !.got = 0,
                              !.read = 0, !.gotFin = FALSE]
    /\ Sends([Segment(guest') EXCEPT !.syn = TRUE, !.ack = 0])
    /\ UNCHANGED <<setup, h, wire>>

\* New data, or old data again; a frame may be lost before it leaves.
GuestSends(fin) ==
    /\ guest.st = "open" /\ ~guest.fin /\ CanSend
    /\ \E off \in 0 .. guest.sent, len \in 0 .. setup.guestBytes, lost \in BOOLEAN :
          LET again == off < guest.sent IN
          /\ off + len <= setup.guestBytes /\ (len > 0 \/ fin)
          /\ fin => off + len >= guest.sent
          /\ (lost \/ again) => guest.losses > 0
          /\ lost => ~fin
          /\ guest' = [guest EXCEPT !.sent = Most(@, off + len), !.fin = fin,
                                    !.losses = IF lost \/ again THEN @ - 1 ELSE @]
          /\ IF lost THEN UNCHANGED toHost
             ELSE Sends([Segment(guest) EXCEPT !.off = off, !.len = len, !.fin = fin])
    /\ UNCHANGED <<setup, h, wire>>

GuestReads ==
    /\ guest.st = "open" /\ guest.read < guest.got /\ CanSend
    /\ guest' = [guest EXCEPT !.read = @ + 1]
    /\ Sends(Segment(guest'))
    /\ UNCHANGED <<setup, h, wire>>

GuestAborts ==
    /\ setup.rude /\ guest.st # "closed" /\ CanSend
    /\ guest' = [guest EXCEPT !.st = "closed"]
    /\ Sends([Segment(guest) EXCEPT !.rst = TRUE])
    /\ UNCHANGED <<setup, h, wire>>

\* Both ends are done; the port may be used again.
GuestForgets ==
    /\ guest.st = "open" /\ guest.fin /\ guest.gotFin
    /\ guest' = [guest EXCEPT !.st = "closed"]
    /\ UNCHANGED <<setup, h, wire, toHost>>

\* What a packet of the guest's own connection makes of it.
Received(g, kind) ==
    CASE kind = "synack" -> [g EXCEPT !.st = "open"]
      [] kind = "data" -> [g EXCEPT !.got = @ + 1]
      [] kind = "fin" -> [g EXCEPT !.gotFin = TRUE]
      [] kind = "rst" -> [g EXCEPT !.st = "closed"]
      [] kind = "ack" -> g

GuestReceives ==
    /\ wire # <<>> /\ CanSend
    /\ LET p == Head(wire)
           own == p.conn = guest.conn /\ (IF p.kind = "synack" THEN guest.st = "syn" ELSE guest.st = "open")
           dead == p.conn = guest.conn /\ p.kind = "rst" /\ guest.st = "syn"
       IN /\ guest' = IF own \/ dead THEN Received(guest, p.kind) ELSE guest
          /\ IF own /\ p.kind \in {"synack", "data", "fin"} THEN Sends(Segment(guest'))
             ELSE IF ~own /\ p.kind # "rst" /\ guest.st # "open"
             THEN Sends([Segment(guest) EXCEPT !.rst = TRUE])
             ELSE UNCHANGED toHost
    /\ wire' = Tail(wire)
    /\ UNCHANGED <<setup, h>>

-----------------------------------------------------------------------------
Next ==
    \/ HandleTCP \/ DrainTick \/ QemuStalls \/ QemuDrains
    \/ \E c \in Conns : \/ SocketConnects(c) \/ SocketData(c) \/ SocketEnd(c)
                        \/ SocketClose(c) \/ SocketError(c) \/ UpstreamReads(c)
    \/ GuestOpens \/ GuestSends(FALSE) \/ GuestSends(TRUE) \/ GuestReads
    \/ GuestAborts \/ GuestForgets \/ GuestReceives

Spec == Init /\ [][Next]_vars

-----------------------------------------------------------------------------
(* Properties *)

Flows(q, c) == Len(SelectSeq(q, LAMBDA p : p.conn = c /\ p.kind = "data"))

\* Type invariant.
TypeOK ==
    /\ h.ses.conn \in 0 .. setup.conns /\ h.ses.pend \in 0 .. MaxPending
    /\ h.nat.out \in 0 .. setup.hostBytes /\ h.nat.vmAck <= h.nat.mySeq
    /\ \A c \in Conns : h.sock[c].buf \in 0 .. MaxPending
    /\ Len(h.tx) <= TxMax

\* The guest's receive buffer is never overrun: what is queued, on the wire
\* and unread fits it, whatever windows were announced in between.
GuestBufferRespected ==
    guest.st = "open" => Flows(h.tx, guest.conn) + Flows(wire, guest.conn) + guest.got - guest.read
                         <= setup.rcvBuf

\* The guest sees the end of the stream only behind all its data: a stream cut
\* short by a drop, an abort or an error never looks complete.
EndBehindAllData ==
    guest.gotFin => LET s == h.sock[guest.conn] IN s.eof /\ guest.got = s.in

\* Nothing crosses from one connection of a key to the next: what a
\* connection's guest reads is what its own upstream sent, and the reverse.
NoCrosstalk ==
    /\ guest.conn # 0 => guest.got <= h.sock[guest.conn].in
    /\ \A c \in Conns : h.sock[c].got > 0 => c <= guest.conn
    /\ guest.conn # 0 => h.sock[guest.conn].got <= guest.sent

\* Nothing is due: no frame in flight, no timer, a guest that has read all.
Quiet ==
    /\ toHost = <<>> /\ wire = <<>> /\ ~h.waitingDrain /\ ~h.nat.drainScheduled
    /\ guest.st = "open" => guest.read = guest.got

\* The guest's connection and the host's entry are each other's.
Delivering == h.nat.live /\ h.nat.conn = guest.conn /\ guest.st = "open"

\* What upstream sent reaches a guest that goes on reading: through zero
\* windows, burst limits and queue stalls the flow never comes to rest with
\* data left in pendingOutbound or with its socket stopped.
NothingStranded ==
    Quiet /\ Delivering =>
        /\ h.nat.out = 0 /\ guest.got = h.sock[guest.conn].in
        /\ HasSocket(h) /\ h.sock[h.ses.conn].paused => h.nat.endPending

\* What a TCP flow promises while its sequence numbers stay below 2^32.  To the
\* guest: all that upstream sent, into a buffer that has room, and the end last.
\* To upstream: bytes of its own connection only, each once; not all of them,
\* since a FIN that comes while the socket connects drops what waits for it
\* (handleTcpClose empties pendingWrites).
TcpDelivers ==
    TypeOK /\ GuestBufferRespected /\ EndBehindAllData /\ NoCrosstalk /\ NothingStranded
=============================================================================
