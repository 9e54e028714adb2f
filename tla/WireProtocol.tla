--------------------------- MODULE WireProtocol ---------------------------
(***************************************************************************)
(* The control channel between the host and sandboxd: messages, frames and *)
(* the byte stream under them (sandbox/virtio-protocol.ts, VirtioBridge's  *)
(* reading side, shared/protocol.zig, shared/cbor.zig and sandboxd's       *)
(* loop).  A frame is a length and a body; either side reads the stream in *)
(* pieces of any size and keeps what it has of a frame.  In the guest the  *)
(* loop and the exec workers write to one port under a lock.               *)
(*                                                                         *)
(* The stream is a sequence of units [f, i]: unit i of the f-th frame; the *)
(* first HeaderLen units are the length (4 bytes in the code).  A reader   *)
(* that takes other units for a length reads an arbitrary number.  What an *)
(* exec or a file operation does is left to ExecScheduler and OutputFlow.  *)
(***************************************************************************)
EXTENDS Integers, Sequences, SequencesExt, FiniteSets, TLC

CONSTANTS HeaderLen,      \* units of a frame's length prefix
          MaxFrame,       \* MAX_FRAME, in units
          MaxU32,         \* the largest u32
          DefaultWindow,  \* 256 KiB: the output window of an exec
          Chunk,          \* [default, min, max]: the chunk size of a read
          Scripts,        \* what the host's API may ask: sequences of calls
          MaxBoots        \* bound: machines, one after another

WireAssumption ==
  /\ HeaderLen \in Nat \ {0} /\ MaxFrame \in Nat \ {0}
  /\ DefaultWindow \in 1..MaxU32
  /\ Chunk.min <= Chunk.default /\ Chunk.default <= Chunk.max

-----------------------------------------------------------------------------
(* Values.  A JavaScript number is an integer or a fraction; cbor2 writes  *)
(* them as an integer and a float, and the guest's decoder knows no float. *)

Text(s) == [tag |-> "text", of |-> s]
Bytes(s) == [tag |-> "bytes", of |-> s]
Bool(b) == [tag |-> "bool", of |-> b]
List(s) == [tag |-> "array", of |-> s]

\* Decoder.decodeValue: what it refuses whatever the message is.
Decodable(p) ==
  \A f \in DOMAIN p :
    /\ p[f].tag # "float"
    /\ p[f].tag = "map" =>
         \A g \in DOMAIN p[f].of : p[f].of[g].tag # "float"

\* expectU32, expectU64, expectText, expectBool, expectArray ...
Is(kind, v) ==
  CASE kind = "u32" -> v.tag = "int" /\ v.of \in 0..MaxU32
    [] kind = "u64" -> v.tag = "int" /\ v.of >= 0
    [] OTHER -> v.tag = kind

\* The fields a payload must have, and those it may have, are of their kinds.
Shaped(p, required, optional) ==
  /\ \A f \in DOMAIN required : f \in DOMAIN p /\ Is(required[f], p[f])
  /\ \A f \in DOMAIN optional \cap DOMAIN p : Is(optional[f], p[f])

Asked(p, f, default) == IF f \in DOMAIN p THEN p[f].of ELSE default

-----------------------------------------------------------------------------
(* What the host sends: a message is [t, id, p], with its encoded size.    *)

Flags == {"clear_env", "deny_descendants", "isolate_ipc", "isolate_devices",
          "deny_fork", "stdin", "pty"}
Lists == {"argv", "env", "allowed_executables", "allowed_writable_paths",
          "allowed_readable_directories", "allowed_writable_directories"}
Windows == {"stdout_window", "stderr_window"}

\* Only what is defined is sent.
Defined(call, fields) == [f \in DOMAIN call.p \cap fields |-> call.p[f]]

\* A message of a call, with the size its encoding has.
Message(call, p) == [t |-> call.t, id |-> call.id, p |-> p, size |-> call.size]

\* handleExec fills in the flags and the lists a client left out ...
ExecPayload(call) ==
  [f \in DOMAIN call.p \cup Flags \cup Lists |->
     IF f \in DOMAIN call.p THEN call.p[f]
     ELSE IF f \in Flags THEN Bool(FALSE) ELSE List(<<>>)]

\* ... and buildExecRequest sends the fields of an exec.
BuildExecRequest(call) ==
  Message(call, Defined([call EXCEPT !.p = ExecPayload(call)],
                        {"cmd", "cwd", "isolate_proc", "resource_limits"}
                          \cup Flags \cup Lists \cup Windows))

\* An eof is sent only when it is set.
BuildData(call) ==
  Message(call, IF Asked(call.p, "eof", FALSE) THEN call.p
                ELSE Defined(call, {"data"}))

BuildPtyResize(call) == Message(call, Defined(call, {"rows", "cols"}))
BuildExecWindow(call) == Message(call, Defined(call, {"stdout", "stderr"}))
BuildFileRead(call) == Message(call, Defined(call, {"path", "cwd", "chunk_size"}))

\* writeGuestFile always truncates.
BuildFileWrite(call) ==
  Message(call, Defined(call, {"path", "cwd"}) @@ ("truncate" :> Bool(TRUE)))

BuildFileDelete(call) ==
  Message(call, Defined(call, {"path", "cwd", "force", "recursive"}))

Build(call) ==
  CASE call.t = "exec_request" -> BuildExecRequest(call)
    [] call.t \in {"stdin_data", "file_write_data"} -> BuildData(call)
    [] call.t = "pty_resize" -> BuildPtyResize(call)
    [] call.t = "exec_window" -> BuildExecWindow(call)
    [] call.t = "file_read_request" -> BuildFileRead(call)
    [] call.t = "file_write_request" -> BuildFileWrite(call)
    [] call.t = "file_delete_request" -> BuildFileDelete(call)

-----------------------------------------------------------------------------
(* What the guest makes of it: [ok, req], req having every field.          *)

Refused == [ok |-> FALSE]
Taken(t, id, req) == [ok |-> TRUE, t |-> t, id |-> id, req |-> req]

LimitsShaped(p) ==
  "resource_limits" \in DOMAIN p =>
    LET limits == p["resource_limits"].of
    IN  /\ Shaped(limits, [cpu_time_ms |-> "u64", memory_bytes |-> "u64",
                           pids |-> "u32"], <<>>)
        /\ \A f \in {"cpu_time_ms", "memory_bytes", "pids"} : limits[f].of # 0

\* A window of 0 is the default window.
Window(p, f) ==
  IF Asked(p, f, 0) = 0 THEN DefaultWindow ELSE Asked(p, f, 0)

\* isolate_proc follows isolate_devices unless it is given.
IsolateProc(p) == Asked(p, "isolate_proc", Asked(p, "isolate_devices", FALSE))
ParseExecRequest(m) ==
  IF /\ Shaped(m.p, [cmd |-> "text"],
               [f \in Flags \cup {"isolate_proc"} |-> "bool"]
                 @@ [f \in Lists |-> "array"] @@ [f \in Windows |-> "u32"]
                 @@ [cwd |-> "text", resource_limits |-> "map"])
     /\ LimitsShaped(m.p)
  THEN Taken(m.t, m.id,
             [f \in Flags |-> Asked(m.p, f, FALSE)]
               @@ [f \in Lists |-> Asked(m.p, f, <<>>)]
               @@ [f \in Windows |-> Window(m.p, f)]
               @@ [cmd |-> m.p["cmd"].of, cwd |-> Asked(m.p, "cwd", "none"),
                   isolate_proc |-> IsolateProc(m.p),
                   resource_limits |-> Asked(m.p, "resource_limits", "none")])
  ELSE Refused

ParseData(m) ==
  IF Shaped(m.p, [data |-> "bytes"], [eof |-> "bool"])
  THEN Taken(m.t, m.id, [data |-> m.p["data"].of, eof |-> Asked(m.p, "eof", FALSE)])
  ELSE Refused

ParsePtyResize(m) ==
  IF Shaped(m.p, [rows |-> "u32", cols |-> "u32"], <<>>)
  THEN Taken(m.t, m.id, [rows |-> m.p["rows"].of, cols |-> m.p["cols"].of])
  ELSE Refused

ParseExecWindow(m) ==
  IF Shaped(m.p, <<>>, [stdout |-> "u32", stderr |-> "u32"])
  THEN Taken(m.t, m.id, [stdout |-> Asked(m.p, "stdout", 0),
                         stderr |-> Asked(m.p, "stderr", 0)])
  ELSE Refused

\* 0 is the default; then between the smallest and the largest chunk.
ChunkSize(n) ==
  IF n = 0 THEN Chunk.default
  ELSE IF n < Chunk.min THEN Chunk.min
  ELSE IF n > Chunk.max THEN Chunk.max ELSE n

ParseFileRead(m) ==
  IF Shaped(m.p, [path |-> "text"], [cwd |-> "text", chunk_size |-> "u32"])
  THEN Taken(m.t, m.id, [path |-> m.p["path"].of, cwd |-> Asked(m.p, "cwd", "none"),
                         chunk_size |-> ChunkSize(Asked(m.p, "chunk_size", 0))])
  ELSE Refused

ParseFileWrite(m) ==
  IF Shaped(m.p, [path |-> "text"], [cwd |-> "text", truncate |-> "bool"])
  THEN Taken(m.t, m.id, [path |-> m.p["path"].of, cwd |-> Asked(m.p, "cwd", "none"),
                         truncate |-> Asked(m.p, "truncate", TRUE)])
  ELSE Refused

ParseFileDelete(m) ==
  IF Shaped(m.p, [path |-> "text"],
            [cwd |-> "text", force |-> "bool", recursive |-> "bool"])
  THEN Taken(m.t, m.id, [path |-> m.p["path"].of, cwd |-> Asked(m.p, "cwd", "none"),
                         force |-> Asked(m.p, "force", FALSE),
                         recursive |-> Asked(m.p, "recursive", FALSE)])
  ELSE Refused

\* main tries one kind after another; file_write_data is of no kind there.
Parse(m) ==
  IF ~Decodable(m.p) THEN Refused ELSE
  CASE m.t = "exec_request" -> ParseExecRequest(m)
    [] m.t = "stdin_data" -> ParseData(m)
    [] m.t = "pty_resize" -> ParsePtyResize(m)
    [] m.t = "exec_window" -> ParseExecWindow(m)
    [] m.t = "file_read_request" -> ParseFileRead(m)
    [] m.t = "file_write_request" -> ParseFileWrite(m)
    [] m.t = "file_delete_request" -> ParseFileDelete(m)
    [] OTHER -> Refused

-----------------------------------------------------------------------------
VARIABLES calls,     \* the calls the API still makes
          sent,      \* the messages the host has sent, in order
          queued,    \* VirtioBridge.pending: serials of messages with no socket
          socket,    \* is there a socket?
          boots,     \* machines so far
          running,   \* is there a machine?
          toGuest, toHost,  \* the stream's units on their way
          guestIn,   \* what sandboxd has of a frame: [len, part]
          hostIn,    \* FrameReader: [len, part]
          guestGot,  \* ghost: what the guest's loop read, a serial or Garbage
          hostGot,   \* ghost: what the host decoded
          taken,     \* ghost: serial -> the request the guest acted upon
          writing,   \* the id of the write sandboxd's loop is in, or "none"
          execs,     \* the exec workers of this machine
          lock,      \* VirtioTx.mutex: who writes, or "none"
          say,       \* who -> the messages they still send
          rest,      \* the units of the frame that is being written
          spoken,    \* ghost: the messages the guest has sent, in order
          cut        \* ghost: a machine died within a frame the host was reading

wire == <<toGuest, toHost, guestIn, hostIn>>
guest == <<writing, execs, lock, say, rest, spoken>>
vars == <<calls, sent, queued, socket, boots, running, wire, guestGot, hostGot,
          taken, guest, cut>>

NoLength == -1
NoId == "0"      \* the id of a message that belongs to no request
Garbage == 0     \* a frame that is none of those that were sent
Empty == [len |-> NoLength, part |-> <<>>]

Units(f, size) == [i \in 1..(HeaderLen + size) |-> [f |-> f, i |-> i]]

Init ==
  /\ calls \in Scripts
  /\ sent = <<>> /\ queued = <<>> /\ socket = FALSE
  /\ boots = 0 /\ running = FALSE
  /\ toGuest = <<>> /\ toHost = <<>> /\ guestIn = Empty /\ hostIn = Empty
  /\ guestGot = <<>> /\ hostGot = <<>> /\ taken = <<>>
  /\ writing = "none" /\ execs = {} /\ lock = "none"
  /\ say = [w \in {"loop"} |-> <<>>] /\ rest = <<>> /\ spoken = <<>>
  /\ cut = FALSE

-----------------------------------------------------------------------------
(* The host's sending side and the machine.                                *)

\* send: to the socket, or to the queue when there is none.  encodeFrame sets
\* no bound on the frame.
HostSends ==
  /\ calls # <<>> /\ boots > 0
  /\ LET message == Build(Head(calls))
         serial  == Len(sent) + 1
     IN  /\ sent' = Append(sent, message)
         /\ IF socket
            THEN toGuest' = toGuest \o Units(serial, message.size) /\ UNCHANGED queued
            ELSE queued' = Append(queued, serial) /\ UNCHANGED toGuest
  /\ calls' = Tail(calls)
  /\ UNCHANGED <<socket, boots, running, toHost, guestIn, hostIn, guestGot,
                 hostGot, taken, guest, cut>>

\* A message of the guest; what follows are the loop's answers.
Reply(t, id) == [t |-> t, id |-> id, size |-> 1]
ExecReplies(id) == <<Reply("exec_output", id), Reply("exec_response", id)>>
FileReadReplies(id) == <<Reply("file_read_data", id), Reply("file_read_done", id)>>
FileWriteDone(id) == <<Reply("file_write_done", id)>>
FileDeleteDone(id) == <<Reply("file_delete_done", id)>>
VfsStatus == <<Reply("vfs_status", NoId)>>
Error(id) == <<Reply("error", id)>>

\* A machine boots, connects to the bridge, which sends what it has queued
\* (attachSocket), and sandboxd starts by sending the state of its mount.
Boot ==
  /\ ~running /\ boots < MaxBoots
  /\ boots' = boots + 1 /\ running' = TRUE /\ socket' = TRUE
  /\ toGuest' = FlattenSeq([i \in DOMAIN queued |-> Units(queued[i], sent[queued[i]].size)])
  /\ queued' = <<>> /\ toHost' = <<>> /\ guestIn' = Empty
  /\ say' = [w \in {"loop"} |-> VfsStatus]
  /\ writing' = "none" /\ execs' = {} /\ lock' = "none" /\ rest' = <<>>
  /\ UNCHANGED <<calls, sent, hostIn, guestGot, hostGot, taken, spoken, cut>>

\* The machine dies; the bridge sees the end of its socket and keeps what its
\* FrameReader has.
Dies ==
  /\ running
  /\ running' = FALSE /\ socket' = FALSE
  /\ toGuest' = <<>> /\ toHost' = <<>> /\ rest' = <<>> /\ lock' = "none"
  /\ say' = [w \in {"loop"} |-> <<>>] /\ execs' = {}
  /\ cut' = (cut \/ hostIn # Empty)
  /\ UNCHANGED <<calls, sent, queued, boots, guestIn, hostIn, guestGot, hostGot,
                 taken, writing, spoken>>

-----------------------------------------------------------------------------
(* The guest.                                                              *)

\* The length that HeaderLen units say: a frame's, when they are its header.
LengthOf(units, size, guess) ==
  IF \A i \in DOMAIN units : units[i] = [f |-> units[1].f, i |-> i]
  THEN size ELSE guess

\* The frame that units are the body of, or garbage.
FrameOf(units, size) ==
  IF /\ units # <<>> /\ Len(units) = size
     /\ \A i \in DOMAIN units : units[i] = [f |-> units[1].f, i |-> HeaderLen + i]
  THEN units[1].f ELSE Garbage

SizeSent(units) == IF units = <<>> THEN 0 ELSE sent[units[1].f].size
SizeSpoken(units) == IF units = <<>> THEN 0 ELSE spoken[units[1].f].size

\* What sandboxd's loop does with a request it has parsed.
Acts(serial, request) ==
  /\ taken' = taken @@ (serial :> request)
  /\ CASE request.t = "exec_request" /\ request.id \notin execs ->
            /\ execs' = execs \cup {request.id}
            /\ say' = say @@ (request.id :> ExecReplies(request.id))
            /\ UNCHANGED writing
       [] request.t = "file_write_request" ->
            writing' = request.id /\ UNCHANGED <<execs, say>>
       [] request.t = "file_read_request" ->
            /\ say' = [say EXCEPT !["loop"] = FileReadReplies(request.id)]
            /\ UNCHANGED <<execs, writing>>
       [] request.t = "file_delete_request" ->
            /\ say' = [say EXCEPT !["loop"] = FileDeleteDone(request.id)]
            /\ UNCHANGED <<execs, writing>>
       [] request.t \in {"stdin_data", "pty_resize", "exec_window"}
            /\ request.id \in execs ->
            UNCHANGED <<execs, say, writing>>
       [] OTHER ->   \* unknown_id, or a duplicate exec id
            /\ say' = [say EXCEPT !["loop"] = Error(request.id)]
            /\ UNCHANGED <<execs, writing>>

\* The loop reads a frame: main, or handleFileWrite while a write is going on.
Dispatch(serial) ==
  LET message == sent[serial]
      data    == ParseData(message)
  IN  IF writing # "none"
      THEN IF /\ serial # Garbage /\ Decodable(message.p)
              /\ message.t = "file_write_data" /\ message.id = writing /\ data.ok
           THEN /\ taken' = taken @@ (serial :> data)
                /\ writing' = IF data.req.eof THEN "none" ELSE writing
                /\ say' = IF data.req.eof
                          THEN [say EXCEPT !["loop"] = FileWriteDone(writing)]
                          ELSE say
                /\ UNCHANGED execs
           ELSE /\ say' = [say EXCEPT !["loop"] = Error(writing)]
                /\ writing' = "none" /\ UNCHANGED <<taken, execs>>
      ELSE IF serial # Garbage /\ Parse(message).ok
           THEN Acts(serial, Parse(message))
           ELSE /\ say' = [say EXCEPT !["loop"] = Error(NoId)]
                /\ UNCHANGED <<taken, writing, execs>>

\* readFrame gives a length it refuses back to the loop, which goes on with the
\* next units.
TooLarge(len) == len > MaxFrame

\* readExact: the rest of the header or of the body, or some of it.
GuestReads ==
  /\ running /\ toGuest # <<>> /\ say["loop"] = <<>> /\ lock # "loop"
  /\ LET header  == guestIn.len = NoLength
         missing == (IF header THEN HeaderLen ELSE guestIn.len) - Len(guestIn.part)
     IN  \E n \in 1..Len(toGuest), guess \in 0..(MaxFrame + 1) :
           LET part == guestIn.part \o SubSeq(toGuest, 1, n)
               len  == LengthOf(part, SizeSent(part), guess)
           IN  /\ n <= missing
               /\ toGuest' = SubSeq(toGuest, n + 1, Len(toGuest))
               /\ IF n < missing
                  THEN /\ guestIn' = [guestIn EXCEPT !.part = part]
                       /\ UNCHANGED <<guestGot, taken, writing, execs, say>>
                  ELSE IF header
                  THEN /\ guestIn' = IF TooLarge(len) THEN Empty
                                     ELSE [len |-> len, part |-> <<>>]
                       /\ UNCHANGED <<guestGot, taken, writing, execs, say>>
                  ELSE /\ guestIn' = Empty
                       /\ guestGot' = Append(guestGot, FrameOf(part, SizeSent(part)))
                       /\ Dispatch(FrameOf(part, SizeSent(part)))
  /\ UNCHANGED <<calls, sent, queued, socket, boots, running, toHost, hostIn,
                 hostGot, lock, rest, spoken, cut>>

\* a bug: the port is taken while another one is in the middle of its frame
SpeaksUnlocked(w) ==
  /\ running /\ say[w] # <<>>
  /\ lock' = w
  /\ spoken' = Append(spoken, Head(say[w]))
  /\ rest' = Units(Len(spoken) + 1, Head(say[w]).size) \o rest
  /\ say' = [say EXCEPT ![w] = Tail(@)]
  /\ UNCHANGED <<calls, sent, queued, socket, boots, running, wire, guestGot,
                 hostGot, taken, writing, execs, cut>>

\* The loop or an exec worker takes the port for its next frame (VirtioTx).
Speaks(w) ==
  /\ running /\ lock = "none" /\ say[w] # <<>>
  /\ lock' = w
  /\ spoken' = Append(spoken, Head(say[w]))
  /\ rest' = Units(Len(spoken) + 1, Head(say[w]).size)
  /\ say' = [say EXCEPT ![w] = Tail(@)]
  /\ UNCHANGED <<calls, sent, queued, socket, boots, running, wire, guestGot,
                 hostGot, taken, writing, execs, cut>>

\* writeAll: some of the frame's units; the lock is released after the last.
GuestWrites ==
  /\ running /\ rest # <<>>
  /\ \E n \in 1..Len(rest) :
       /\ toHost' = IF socket THEN toHost \o SubSeq(rest, 1, n) ELSE toHost
       /\ rest' = SubSeq(rest, n + 1, Len(rest))
       /\ lock' = IF n = Len(rest) THEN "none" ELSE lock
  /\ UNCHANGED <<calls, sent, queued, socket, boots, running, toGuest, guestIn,
                 hostIn, guestGot, hostGot, taken, writing, execs, say, spoken, cut>>

\* A worker that has said everything is done; the loop removes it.
WorkerEnds(w) ==
  /\ running /\ w \in execs /\ say[w] = <<>> /\ lock # w
  /\ execs' = execs \ {w}
  /\ say' = [v \in DOMAIN say \ {w} |-> say[v]]
  /\ UNCHANGED <<calls, sent, queued, socket, boots, running, wire, guestGot,
                 hostGot, taken, writing, lock, rest, spoken, cut>>

-----------------------------------------------------------------------------
(* The host's receiving side.                                              *)

\* FrameReader.push, a unit at a time: r is the reader, what it has given out
\* (out) and whether a length was refused (bad).
Push(r, unit, guess) ==
  LET part   == Append(r.part, unit)
      header == r.len = NoLength
      len    == IF header THEN LengthOf(part, SizeSpoken(part), guess) ELSE r.len
  IN  IF r.bad THEN r
      ELSE IF header /\ Len(part) < HeaderLen THEN [r EXCEPT !.part = part]
      ELSE IF header
      THEN IF len > MaxFrame THEN [r EXCEPT !.len = len, !.part = <<>>, !.bad = TRUE]
           ELSE IF len = 0 THEN [r EXCEPT !.part = <<>>, !.out = Append(@, Garbage)]
           ELSE [r EXCEPT !.len = len, !.part = <<>>]
      ELSE IF Len(part) < r.len THEN [r EXCEPT !.part = part]
      ELSE [r EXCEPT !.len = NoLength, !.part = <<>>,
                     !.out = Append(@, FrameOf(part, SizeSpoken(part)))]

\* The socket's "data": a chunk of any size.  A frame that does not decode, or a
\* length above MAX_FRAME, closes the socket (handleDisconnect); the machine
\* does not connect again.
HostReads ==
  /\ socket /\ toHost # <<>>
  /\ \E n \in 1..Len(toHost), guess \in 0..(MaxFrame + 1) :
       LET r == FoldLeft(LAMBDA x, u : Push(x, u, guess),
                         [len |-> hostIn.len, part |-> hostIn.part, out |-> <<>>, bad |-> FALSE],
                         SubSeq(toHost, 1, n))
           lost == r.bad \/ Contains(r.out, Garbage)
       IN  /\ hostIn' = [len |-> r.len, part |-> r.part]
           /\ hostGot' = hostGot \o r.out
           /\ socket' = ~lost
           /\ toHost' = IF lost THEN <<>> ELSE SubSeq(toHost, n + 1, Len(toHost))
           /\ toGuest' = IF lost THEN <<>> ELSE toGuest
  /\ UNCHANGED <<calls, sent, queued, boots, running, guestIn, guestGot, taken,
                 guest, cut>>

-----------------------------------------------------------------------------
Next ==
  \/ HostSends \/ Boot \/ Dies
  \/ GuestReads \/ GuestWrites
  \/ \E w \in DOMAIN say : Speaks(w) \/ WorkerEnds(w)
  \/ HostReads

Spec == Init /\ [][Next]_vars

-----------------------------------------------------------------------------
InOrder(got) == \A i, j \in DOMAIN got : i < j => got[i] < got[j]

\* However the stream is cut into pieces, sandboxd acts on whole frames, each
\* once and in the order they were sent (readFrame, FrameReader), as long as
\* none was longer than it takes.
GuestReadsFrames ==
  (\A i \in DOMAIN sent : sent[i].size <= MaxFrame) =>
     Garbage \notin {guestGot[i] : i \in DOMAIN guestGot} /\ InOrder(guestGot)

\* The host decodes whole frames of the loop and the exec workers, each once
\* and in the order in which they took the port (VirtioTx, FrameReader.push), as
\* long as no machine died in the middle of one.
HostReadsFrames ==
  ~cut => Garbage \notin {hostGot[i] : i \in DOMAIN hostGot} /\ InOrder(hostGot)

\* What the host's caller asked for is what the guest acts on: no flag, list or
\* limit is lost on the way, no exec starts without an output window, and
\* isolated devices bring an isolated /proc unless the caller kept it.
NothingAskedIsLost ==
  \A s \in DOMAIN taken :
    LET asked == sent[s].p
        done  == taken[s].req
    IN  /\ \A f \in (DOMAIN asked \cap DOMAIN done) \ (Windows \cup {"chunk_size"}) :
             done[f] = asked[f].of
        /\ taken[s].t = "exec_request" =>
             /\ \A f \in Windows : done[f] > 0
             /\ done.isolate_devices /\ "isolate_proc" \notin DOMAIN asked => done.isolate_proc
        /\ taken[s].t = "file_read_request" => done.chunk_size \in Chunk.min..Chunk.max

\* Frames arrive whole, once and in order in both directions, and mean to the
\* guest what the host's caller asked.
FramesArrive == GuestReadsFrames /\ HostReadsFrames /\ NothingAskedIsLost
=============================================================================
