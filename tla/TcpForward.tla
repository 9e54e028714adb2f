----------------------------- MODULE TcpForward -----------------------------
(***************************************************************************)
(* Streams to loopback services of the guest, carried over one virtio port:*)
(* openTcpStream / openIngressStream and TcpForwardStream on the host      *)
(* (host/src/sandbox/server-ops.ts, server-transport.ts), the bridge that  *)
(* queues their frames, and the forwarder in the guest                     *)
(* (guest/src/shared/tcp_forwarder.zig).  The SSH and the ingress port run *)
(* the same code on separate state, so one port is modelled.               *)
(*                                                                         *)
(* Payload is counted in units of one frame; a control frame takes one     *)
(* byte of a queue and a unit takes UnitBytes.  The sockets, the virtio    *)
(* ring, the applications and the guest's services are external.           *)
(***************************************************************************)
EXTENDS Integers, Sequences, SequencesExt, FiniteSetsExt

CONSTANTS
    Setups,         \* the small configurations a behaviour starts from
    UnitBytes,      \* bytes of one tcp_data frame
    MaxPending,     \* maxPendingBytes of the bridge
    WireMark,       \* frames in a socket at which write() returns false
    MaxTcp,         \* MAX_BUFFERED_TCP, in units
    MaxVirtio       \* MAX_BUFFERED_VIRTIO, in frames

ASSUME ForwardAssumption ==
    /\ {UnitBytes, MaxPending, WireMark, MaxTcp, MaxVirtio} \subseteq Nat \ {0}
    /\ \A s \in Setups : /\ s.streams \in Nat \ {0}
                         /\ {s.up, s.down, s.exits} \subseteq Nat
                         /\ s.rude \in BOOLEAN

VARIABLES
    setup,      \* the configuration of this behaviour
    streams,    \* the host's TcpForwardStreams
    bridge,     \* the host's VirtioBridge
    toGuest,    \* frames written to the bridge's socket, not read by the guest
    toHost,     \* frames written to the virtio port, not read by the host
    guest,      \* the forwarder: its connections and its FrameWriter
    backends    \* the services' ends of the connections

forwardVars == <<setup, streams, bridge, toGuest, toHost, guest, backends>>

Ids == 1 .. setup.streams
Frame(t, id) == [t |-> t, id |-> id]
Size(f) == IF f.t = "tcp_data" THEN UnitBytes ELSE 1
Bytes(fs) == FoldSeq(LAMBDA f, n : n + Size(f), 0, fs)

\* Fields of a stream: `call` is the promise of openTcpStream, which has a
\* waiter while it is pending, `listed` membership of tcpStreams, and
\* `closeLost` that the bridge refused its tcp_close.
NoStream == [call |-> "none", listed |-> FALSE, destroyed |-> FALSE, closedByRemote |-> FALSE,
             closeLost |-> FALSE, ended |-> FALSE, written |-> 0, pushed |-> 0, read |-> 0]

NoConn == [live |-> FALSE, pending |-> 0, hostEof |-> FALSE, backendShutdown |-> FALSE]

\* A service's end: what it received, and the units and the end it has sent
\* that the forwarder has not read; `why` is how the connection came to its end.
NoBackend == [got |-> 0, gotEof |-> FALSE, sent |-> 0, unread |-> 0, end |-> "open", why |-> "none"]

ForwardInit ==
    /\ setup \in Setups
    /\ streams = [id \in Ids |-> NoStream]
    /\ bridge = [up |-> TRUE, pending |-> <<>>, waitingDrain |-> FALSE, exits |-> 0]
    /\ toGuest = <<>>
    /\ toHost = <<>>
    /\ guest = [conns |-> [id \in Ids |-> NoConn], writer |-> <<>>]
    /\ backends = [id \in Ids |-> NoBackend]

-----------------------------------------------------------------------------
(* VirtioBridge.  A `link` is the bridge with the frames on its socket. *)

BridgeLink == [b |-> bridge, wire |-> toGuest]

\* socket.write: the frame is taken, and a full socket asks to wait for drain.
WriteFrame(l, f) ==
    [b |-> [l.b EXCEPT !.waitingDrain = Len(l.wire) + 1 >= WireMark], wire |-> Append(l.wire, f)]

QueueFits(l, f) == Bytes(l.b.pending) + Size(f) <= MaxPending

QueueFrame(l, f) == IF QueueFits(l, f) THEN [l EXCEPT !.b.pending = Append(@, f)] ELSE l

\* Frames leave the queue one by one until the socket asks to wait.
FlushPending(l) ==
    IF ~l.b.up \/ l.b.waitingDrain \/ l.b.pending = <<>> THEN l
    ELSE LET room == IF Len(l.wire) >= WireMark THEN 1 ELSE WireMark - Len(l.wire)
             n == IF Len(l.b.pending) < room THEN Len(l.b.pending) ELSE room
             wire == l.wire \o SubSeq(l.b.pending, 1, n)
         IN  [b |-> [l.b EXCEPT !.pending = SubSeq(@, n + 1, Len(@)), !.waitingDrain = Len(wire) >= WireMark],
              wire |-> wire]

Direct(l) == l.b.pending = <<>> /\ ~l.b.waitingDrain /\ l.b.up

\* What send returns, and the link after it.
Accepts(l, f) == Direct(l) \/ QueueFits(l, f)
Send(l, f) == IF Direct(l) THEN WriteFrame(l, f)
              ELSE IF QueueFits(l, f) THEN FlushPending(QueueFrame(l, f)) ELSE l

SetLink(l) == bridge' = l.b /\ toGuest' = l.wire

MayDrain == bridge.up /\ bridge.waitingDrain /\ Len(toGuest) < WireMark

Drain ==
    /\ MayDrain
    /\ SetLink(FlushPending([BridgeLink EXCEPT !.b.waitingDrain = FALSE]))
    /\ UNCHANGED <<setup, streams, toHost, guest, backends>>

-----------------------------------------------------------------------------
(* TcpForwardStream and openTcpStream *)

\* destroy(): tcp_close is sent unless the guest has closed, whatever becomes
\* of it; the 'close' event takes the stream and its waiter off the books.
Destroyed(s) == [s EXCEPT !.destroyed = TRUE, !.listed = FALSE,
                          !.call = IF @ \in {"none", "pending"} THEN "failed" ELSE @]

Destroy(id) ==
    /\ streams' = [streams EXCEPT ![id] = [Destroyed(@) EXCEPT !.closeLost = ~Accepts(BridgeLink, Frame("tcp_close", id))]]
    /\ SetLink(Send(BridgeLink, Frame("tcp_close", id)))

\* A refused tcp_open destroys the stream; otherwise the caller waits.
OpenStream(id) ==
    /\ streams[id].call = "none" /\ \A k \in 1 .. id - 1 : streams[k].call # "none"
    /\ IF Accepts(BridgeLink, Frame("tcp_open", id))
       THEN /\ streams' = [streams EXCEPT ![id].call = "pending", ![id].listed = TRUE]
            /\ SetLink(Send(BridgeLink, Frame("tcp_open", id)))
       ELSE Destroy(id)
    /\ UNCHANGED <<setup, toHost, guest, backends>>

OpenTimeout(id) ==
    /\ streams[id].call = "pending"
    /\ Destroy(id)
    /\ UNCHANGED <<setup, toHost, guest, backends>>

Usable(id) == streams[id].call = "ok" /\ ~streams[id].destroyed

\* A refused chunk fails the write, and the error destroys the stream.
WriteStream(id) ==
    /\ Usable(id) /\ ~streams[id].ended /\ streams[id].written < setup.up
    /\ IF Accepts(BridgeLink, Frame("tcp_data", id))
       THEN /\ streams' = [streams EXCEPT ![id].written = @ + 1]
            /\ SetLink(Send(BridgeLink, Frame("tcp_data", id)))
       ELSE Destroy(id)
    /\ UNCHANGED <<setup, toHost, guest, backends>>

\* _final: the half-close is sent, whatever becomes of it.
Final(id) ==
    /\ Usable(id) /\ ~streams[id].ended
    /\ streams' = [streams EXCEPT ![id].ended = TRUE]
    /\ SetLink(Send(BridgeLink, Frame("tcp_eof", id)))
    /\ UNCHANGED <<setup, toHost, guest, backends>>

Abandon(id) ==
    /\ setup.rude /\ Usable(id)
    /\ Destroy(id)
    /\ UNCHANGED <<setup, toHost, guest, backends>>

ReadStream(id) ==
    /\ Usable(id) /\ streams[id].read < streams[id].pushed
    /\ streams' = [streams EXCEPT ![id].read = @ + 1]
    /\ UNCHANGED <<setup, bridge, toGuest, toHost, guest, backends>>

\* sshBridge.onMessage.  A call that fails here never sends tcp_close: the
\* guest has no connection.
OnOpened(f) ==
    IF streams[f.id].call # "pending" THEN streams
    ELSE IF f.ok THEN [streams EXCEPT ![f.id].call = "ok"]
    ELSE [streams EXCEPT ![f.id] = [Destroyed(@) EXCEPT !.closedByRemote = TRUE]]

OnData(f) ==
    [streams EXCEPT ![f.id].pushed = IF streams[f.id].listed THEN @ + 1 ELSE @]

\* remoteClose: what the reader has not taken goes with the stream.
OnClose(f) ==
    IF streams[f.id].listed
    THEN [streams EXCEPT ![f.id] = [Destroyed(@) EXCEPT !.closedByRemote = TRUE]]
    ELSE streams

HostReceives ==
    /\ bridge.up /\ toHost # <<>>
    /\ toHost' = Tail(toHost)
    /\ LET f == Head(toHost)
       IN  streams' = CASE f.t = "tcp_opened" -> OnOpened(f)
                        [] f.t = "tcp_data"   -> OnData(f)
                        [] f.t = "tcp_close"  -> OnClose(f)
    /\ UNCHANGED <<setup, bridge, toGuest, guest, backends>>

-----------------------------------------------------------------------------
(* The forwarder in the guest *)

\* FrameWriter.flush: as much as the port takes.
FlushOf(writer) ==
    LET room == IF Len(toHost) >= WireMark THEN 0 ELSE WireMark - Len(toHost)
        n == IF Len(writer) < room THEN Len(writer) ELSE room
    IN  [writer |-> SubSeq(writer, n + 1, Len(writer)), wire |-> toHost \o SubSeq(writer, 1, n)]

EnqueueAndFlush(conns, writer) ==
    /\ guest' = [conns |-> conns, writer |-> FlushOf(writer).writer]
    /\ toHost' = FlushOf(writer).wire

\* closeConn: the service's socket is closed, pending input is dropped and the
\* host is told, if there was a connection at all.
CloseConn(id, why) ==
    /\ guest' = IF guest.conns[id].live
                THEN [conns |-> [guest.conns EXCEPT ![id] = NoConn], writer |-> Append(guest.writer, Frame("tcp_close", id))]
                ELSE guest
    /\ backends' = [backends EXCEPT ![id].why = IF guest.conns[id].live THEN why ELSE @]
    /\ UNCHANGED toHost

\* The ids of a port are never used twice, so there is no connection to close.
HandleOpen(id, ok) ==
    /\ EnqueueAndFlush([guest.conns EXCEPT ![id] = IF ok THEN [NoConn EXCEPT !.live = TRUE] ELSE @],
                       Append(guest.writer, [t |-> "tcp_opened", id |-> id, ok |-> ok]))
    /\ UNCHANGED backends

HandleData(id) ==
    IF guest.conns[id].live /\ guest.conns[id].pending + 1 > MaxTcp
    THEN CloseConn(id, "full")
    ELSE /\ guest' = [guest EXCEPT !.conns[id].pending = IF guest.conns[id].live THEN @ + 1 ELSE @]
         /\ UNCHANGED <<toHost, backends>>

\* The service sees the end of the input once nothing is pending.
\* Mutant: at once.
EofAtOnce(conn) == conn.hostEof /\ ~conn.backendShutdown
MayShutdown(conn) == conn.hostEof /\ ~conn.backendShutdown /\ conn.pending = 0

Settle(id, conn, n) ==
    /\ guest' = [guest EXCEPT !.conns[id] = [conn EXCEPT !.backendShutdown = @ \/ MayShutdown(conn)]]
    /\ backends' = [backends EXCEPT ![id].got = @ + n, ![id].gotEof = @ \/ MayShutdown(conn)]

HandleEof(id) ==
    IF guest.conns[id].live
    THEN Settle(id, [guest.conns[id] EXCEPT !.hostEof = TRUE], 0) /\ UNCHANGED toHost
    ELSE UNCHANGED <<guest, backends, toHost>>

GuestReceives ==
    /\ bridge.up /\ toGuest # <<>>
    /\ toGuest' = Tail(toGuest)
    /\ LET f == Head(toGuest)
       IN  \/ f.t = "tcp_open" /\ \E ok \in IF setup.rude THEN BOOLEAN ELSE {TRUE} : HandleOpen(f.id, ok)
           \/ f.t = "tcp_data" /\ HandleData(f.id)
           \/ f.t = "tcp_eof" /\ HandleEof(f.id)
           \/ f.t = "tcp_close" /\ CloseConn(f.id, "host")
    /\ UNCHANGED <<setup, streams, bridge>>

\* POLLOUT of a service's socket: part of what is pending is written.
MayWrite(id) == bridge.up /\ guest.conns[id].live /\ guest.conns[id].pending > 0

GuestWrites(id) ==
    /\ MayWrite(id)
    /\ IF backends[id].end = "reset" THEN CloseConn(id, "error")
       ELSE \E n \in 1 .. guest.conns[id].pending :
                Settle(id, [guest.conns[id] EXCEPT !.pending = @ - n], n) /\ UNCHANGED toHost
    /\ UNCHANGED <<setup, streams, bridge, toGuest>>

\* POLLIN or POLLHUP, unless the writer is backed up: a chunk, or the end.
ForwardBackendReadChunk(id) ==
    CASE backends[id].end = "reset" -> CloseConn(id, "error")
      [] backends[id].end # "reset" /\ backends[id].unread = 0 -> CloseConn(id, "eof")
      [] OTHER -> /\ EnqueueAndFlush(guest.conns, Append(guest.writer, Frame("tcp_data", id)))
                  /\ backends' = [backends EXCEPT ![id].unread = @ - 1]

MayForward(id) ==
    /\ bridge.up /\ guest.conns[id].live /\ Len(guest.writer) < MaxVirtio
    /\ backends[id].unread > 0 \/ backends[id].end # "open"

GuestForwards(id) ==
    /\ MayForward(id)
    /\ ForwardBackendReadChunk(id)
    /\ UNCHANGED <<setup, streams, bridge, toGuest>>

\* POLLOUT of the port.
MayFlush == bridge.up /\ guest.writer # <<>> /\ Len(toHost) < WireMark

GuestFlushes ==
    /\ MayFlush
    /\ EnqueueAndFlush(guest.conns, guest.writer)
    /\ UNCHANGED <<setup, streams, bridge, toGuest, backends>>

-----------------------------------------------------------------------------
(* The services, and the end of a virtual machine *)

ServiceSends(id) ==
    /\ guest.conns[id].live /\ backends[id].end = "open" /\ backends[id].sent < setup.down
    /\ backends' = [backends EXCEPT ![id].sent = @ + 1, ![id].unread = @ + 1]
    /\ UNCHANGED <<setup, streams, bridge, toGuest, toHost, guest>>

ServiceEnds(id) ==
    /\ guest.conns[id].live /\ backends[id].end = "open"
    /\ \E end \in IF setup.rude THEN {"fin", "reset"} ELSE {"fin"} :
           backends' = [backends EXCEPT ![id].end = end, ![id].unread = IF end = "reset" THEN 0 ELSE @]
    /\ UNCHANGED <<setup, streams, bridge, toGuest, toHost, guest>>

\* The bridge's socket ends with the machine.  Only an error (not the orderly
\* end) reaches onError, which destroys every stream; their tcp_close frames
\* go to the dying socket.  Frames in the bridge's queue are kept.
VmExits ==
    /\ bridge.up /\ bridge.exits < setup.exits
    /\ \E error \in BOOLEAN :
           streams' = [id \in Ids |-> IF error /\ streams[id].listed THEN Destroyed(streams[id]) ELSE streams[id]]
    /\ bridge' = [bridge EXCEPT !.up = FALSE, !.waitingDrain = FALSE, !.exits = @ + 1]
    /\ toGuest' = <<>> /\ toHost' = <<>>
    /\ guest' = [conns |-> [id \in Ids |-> NoConn], writer |-> <<>>]
    /\ backends' = [id \in Ids |-> [backends[id] EXCEPT !.why = IF guest.conns[id].live THEN "exit" ELSE @]]
    /\ UNCHANGED setup

\* attachSocket: the next machine's connection takes what has been queued.
AttachSocket ==
    /\ ~bridge.up
    /\ SetLink(FlushPending([BridgeLink EXCEPT !.b.up = TRUE, !.b.waitingDrain = FALSE]))
    /\ UNCHANGED <<setup, streams, toHost, guest, backends>>

ForwardNext ==
    \/ \E id \in Ids :
           \/ OpenStream(id) \/ OpenTimeout(id) \/ WriteStream(id) \/ Final(id) \/ Abandon(id) \/ ReadStream(id)
           \/ GuestWrites(id) \/ GuestForwards(id) \/ ServiceSends(id) \/ ServiceEnds(id)
    \/ HostReceives \/ Drain \/ GuestReceives \/ GuestFlushes \/ VmExits \/ AttachSocket

ForwardSpec == ForwardInit /\ [][ForwardNext]_forwardVars

-----------------------------------------------------------------------------
(* Properties *)

\* A service sees a clean end of its input when the forwarder shuts its side down,
\* and also when it closes the connection, unless output of the service that was
\* not read makes that a reset.
SeesEnd(id) ==
    \/ backends[id].gotEof
    \/ /\ backends[id].why \in {"full", "host", "error", "eof"}
       /\ backends[id].unread = 0 /\ backends[id].end # "reset"

\* The half-close reaches a service only behind every unit the application had
\* written: through the bridge's queue, the port and the pending buffer of the
\* connection (tcp_forwarder.zig 143-152 and 185-188).  A close does not wait:
\* it throws away what is pending (272-275), and the service sees an end with
\* units missing.  That happens only where the host's stream was destroyed, where
\* the service has ended its own output, and where it is more than MaxTcp behind.
EofBehindUpload ==
    \A id \in Ids :
        /\ backends[id].gotEof => streams[id].ended /\ backends[id].got = streams[id].written
        /\ SeesEnd(id) /\ backends[id].got # streams[id].written =>
               \/ backends[id].why = "host" /\ streams[id].destroyed
               \/ backends[id].why = "eof" /\ backends[id].end = "fin"
               \/ backends[id].why = "full" /\ backends[id].got + MaxTcp < streams[id].written

\* A stream closed because the service ended its output has been given all of
\* that output first, however backed up the port was (194-210).  Its reader may
\* get less: remoteClose destroys the stream, and with it what was pushed and not
\* yet read (server-transport.ts 301-306), which no acknowledgement holds up.
CloseBehindDownload ==
    \A id \in Ids : streams[id].closedByRemote /\ backends[id].why = "eof"
                    => streams[id].pushed = backends[id].sent

OnWay(t, id, fs) == \E i \in DOMAIN fs : fs[i].t = t /\ fs[i].id = id
Outbound(t, id) == OnWay(t, id, bridge.pending) \/ OnWay(t, id, toGuest)
Inbound(t, id) == OnWay(t, id, toHost) \/ OnWay(t, id, guest.writer)

\* While the machine lives, neither side is left alone: a stream on the host's
\* books has its connection, or the frame that will settle it is under way;
\* a connection in the guest has its stream, or its tcp_close is under way
\* (unless a queue to the guest that was full to its last byte refused it).
NoHalfRelease ==
    bridge.exits = 0 =>
        \A id \in Ids :
            /\ streams[id].call = "pending" =>
                   Outbound("tcp_open", id) \/ Inbound("tcp_opened", id) \/ Inbound("tcp_close", id)
            /\ streams[id].listed /\ streams[id].call = "ok" =>
                   guest.conns[id].live \/ Inbound("tcp_close", id)
            /\ guest.conns[id].live /\ ~streams[id].listed =>
                   Outbound("tcp_close", id) \/ streams[id].closeLost

\* The code that moves frames and payload has nothing left to do.
AtRest ==
    /\ bridge.up /\ toHost = <<>> /\ toGuest = <<>> /\ ~MayDrain /\ ~MayFlush
    /\ \A id \in Ids : ~MayWrite(id) /\ ~MayForward(id)

\* Backpressure is always taken back: when everything is at rest no frame is
\* left in a queue and nothing at a socket, and a stream its user has ended has
\* ended at the service.
NothingStranded ==
    AtRest => /\ bridge.pending = <<>> /\ guest.writer = <<>>
              /\ \A id \in Ids : guest.conns[id].live =>
                     /\ guest.conns[id].pending = 0 /\ backends[id].unread = 0
                     /\ guest.conns[id].hostEof => backends[id].gotEof

\* What a forwarded stream promises its two ends: the data before each half-close,
\* and before a close as far as it is said above; nothing left behind, neither side
\* left alone.
ForwardDelivers == EofBehindUpload /\ CloseBehindDownload /\ NoHalfRelease /\ NothingStranded
=============================================================================
