------------------------------ MODULE MCGuest -------------------------------
(***************************************************************************)
(* The guest, seen from what reaches it, component by component: the frames *)
(* of its control port, the launch of an exec, and a request through the    *)
(* ingress.  Launch and request are GuestLaunch and IngressGateway         *)
(* themselves.                                                             *)
(***************************************************************************)
EXTENDS Integers, Sequences, FiniteSets, TLC, GuestLaunch, IngressGateway

VARIABLES
  part,      \* the component that this behaviour is about
  calls, sent, queued, socket, boots, running, toGuest, toHost, guestIn,
  hostIn, guestGot, hostGot, taken, writing, execs, lock, say, rest, spoken,
  cut
-----------------------------------------------------------------------------
\* Short scripts of calls: an exec with its input, a read, a write, a delete, and
\* a fraction where the guest wants an integer.
WireChunk == [default |-> 2, min |-> 2, max |-> 3]

Value(tag, of) == [tag |-> tag, of |-> of]
Sent(t, id, size, p) == [t |-> t, id |-> id, size |-> size, p |-> p]
Exec(id, size, p) == Sent("exec_request", id, size, [cmd |-> Value("text", "x")] @@ p)
Limits == Value("map", [cpu_time_ms |-> Value("int", 5), memory_bytes |-> Value("int", 5), pids |-> Value("int", 1)])
File == Value("text", "/f")

WireScripts ==
  { <<Exec("1", 1, [isolate_devices |-> Value("bool", TRUE), stdout_window |-> Value("int", 0),
                    resource_limits |-> Limits]),
      Sent("stdin_data", "1", 2, [data |-> Value("bytes", "d"), eof |-> Value("bool", TRUE)])>>,
    <<Exec("1", 2, [isolate_devices |-> Value("bool", TRUE), isolate_proc |-> Value("bool", FALSE)]),
      Exec("2", 1, [stdin |-> Value("bool", TRUE)])>>,
    <<Exec("1", 1, <<>>),
      Sent("pty_resize", "1", 1, [rows |-> Value("int", 9), cols |-> Value("int", 1)]),
      Sent("exec_window", "1", 1, [stdout |-> Value("int", 1)])>>,
    <<Sent("file_write_request", "3", 1, [path |-> File]),
      Sent("file_write_data", "3", 2, [data |-> Value("bytes", "d"), eof |-> Value("bool", FALSE)]),
      Sent("file_write_data", "3", 1, [data |-> Value("bytes", ""), eof |-> Value("bool", TRUE)])>>,
    <<Sent("file_read_request", "4", 2, [path |-> File, chunk_size |-> Value("int", 7)]),
      Sent("file_delete_request", "5", 1, [path |-> File, force |-> Value("bool", TRUE)])>>,
    <<Sent("file_read_request", "4", 1, [path |-> File, chunk_size |-> Value("float", "fraction")])>> }

W == INSTANCE WireProtocol WITH
     HeaderLen <- 2, MaxFrame <- 2, MaxU32 <- 7, DefaultWindow <- 4,
     Chunk <- WireChunk, Scripts <- WireScripts, MaxBoots <- 2

ASSUME W!WireAssumption
-----------------------------------------------------------------------------
\* What exec requests ask for, from nothing to everything.
Asks(set) == [a \in {"limits", "deny", "guarded", "isolated", "trees", "noFork", "stdin"} |-> a \in set]

LaunchConfs ==
  { Asks({}), Asks({"isolated"}), Asks({"limits", "stdin"}), Asks({"guarded", "isolated", "deny"}),
    Asks({"guarded", "limits"}), Asks({"limits", "trees", "noFork", "deny", "guarded"}) }

-----------------------------------------------------------------------------
\* Requests with and without a body, answers of each framing, with each kind of
\* hook, and upgrades.
GatewayRequests ==
  [kind : {"plain"}, upload : {0, 2}, framing : {"fixed", "chunked", "toEnd"}, length : {0, 2},
   hook : {"none", "stream", "buffer"}, limit : {1, 2}]
  \cup [kind : {"upgrade"}, upload : {0}, framing : {"none"}, length : {0}, hook : {"none", "stream"}, limit : {0}]

-----------------------------------------------------------------------------
(* One component moves in a behaviour; the others wait in an initial state. *)

WWaits == W!Init /\ calls = <<Sent("file_read_request", "4", 1, [path |-> File, chunk_size |-> Value("float", "fraction")])>>
GWaits == Init /\ conf = Asks({})
YWaits == GatewayInit /\ setup.kind = "upgrade" /\ setup.hook = "none"

GuestInit ==
  \/ part = "wire" /\ W!Init /\ GWaits /\ YWaits
  \/ part = "launch" /\ Init /\ WWaits /\ YWaits
  \/ part = "gateway" /\ GatewayInit /\ WWaits /\ GWaits

WVars == <<calls, sent, queued, socket, boots, running, toGuest, toHost,
            guestIn, hostIn, guestGot, hostGot, taken, writing, execs, lock,
            say, rest, spoken, cut>>

WStep == part = "wire" /\ W!Next /\ UNCHANGED <<part, vars, gatewayVars>>
GStep == part = "launch" /\ Next /\ UNCHANGED <<part, WVars, gatewayVars>>
YStep == part = "gateway" /\ GatewayNext /\ UNCHANGED <<part, WVars, vars>>

GuestNext == WStep \/ GStep \/ YStep

guestVars == <<part, WVars, vars, gatewayVars>>

\* GuestLaunch's own fairness (nothing makes a payload read its stdin); the
\* gateway's hooks settle, its timers fire, and its client takes what is written
\* to it or leaves.
GuestSpec ==
  /\ GuestInit /\ [][GuestNext]_guestVars
  /\ WF_vars(part = "launch" /\ Worker) /\ WF_vars(part = "launch" /\ Child)
  /\ WF_vars(part = "launch" /\ Dies)
  /\ WF_vars(part = "launch" /\ ~Reader /\ StdinTaken) /\ SF_vars(part = "launch" /\ PollsGroup)
  /\ WF_gatewayVars(part = "gateway" /\ Handler) /\ WF_gatewayVars(part = "gateway" /\ WriteFails)
-----------------------------------------------------------------------------
\* Frames arrive whole, once and in order in both directions, and mean to the
\* guest what the host's caller asked (protocol.zig, virtio-protocol.ts).
FramesArrive == W!FramesArrive

=============================================================================
