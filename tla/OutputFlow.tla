------------------------------ MODULE OutputFlow ------------------------------
(***************************************************************************)
(* Flow control of the output of one exec: the credit window that          *)
(* host/src/exec.ts keeps for each of stdout and stderr, the exec_window   *)
(* coalescing in SandboxServerOps (server-ops.ts), and the credit the      *)
(* guest's exec worker (guest/src/sandboxd/main.zig, runExecSession)       *)
(* spends on every byte it reads from the process.                         *)
(*                                                                         *)
(* A frame of output or of credit is a number of bytes: outWire and        *)
(* grantWire count the bytes on their way, and a receiver takes any part   *)
(* of them, which covers every cut of the bytes into frames.  The other    *)
(* execs are present as the traffic that fills the control bridge.         *)
(***************************************************************************)
EXTENDS Integers

CONSTANTS
  Window,         \* session.windowBytes, and stdout_window of the request
  Threshold,      \* updateThreshold(session)
  ModePairs,      \* output modes of an exec, <<mode of stdout, of stderr>>
  Outputs,        \* what a process may write: bytes per stream
  MaxCongestions  \* times other traffic fills the bridge (bounds the model)

Streams == {"stdout", "stderr"}
Modes == {"buffer", "ignore", "pipe", "writable"}

ASSUME FlowAssumption ==
  /\ Window \in Nat \ {0}
  /\ Threshold \in 1 .. Window
  /\ ModePairs \subseteq Modes \X Modes
  /\ Outputs \subseteq [Streams -> Nat]
  /\ MaxCongestions \in Nat

VARIABLES
  \* guest: the exec worker
  unsent,         \* bytes the process has still to write
  open,           \* stdout_open, stderr_open
  guestCredit,    \* stdout_credit, stderr_credit
  response,       \* the exec_response: "none", "sent" or "received"
  \* the control port
  outWire,        \* output bytes on their way to the host
  grantWire,      \* credit on its way to the guest
  bridgeFull,     \* bridge.send() returns false
  congestions,
  \* host: SandboxServer
  inflight,       \* the id is in the inflight map
  pendingWin,     \* pendingExecWindows: credit that waits for the bridge
  flushDue,       \* execWindowFlushScheduled
  \* host: VM and ExecSession
  attached,       \* the session is in VM.sessions
  mode,
  credit,         \* stdoutCredit, stderrCredit
  updatePending,  \* stdoutUpdatePending, stderrUpdatePending
  unread,         \* bufferedBytes of the pipe, WritableBlockedBytes
  refused,        \* the part of bufferedBytes an ended pipe did not take
  refillDue,      \* the pipe's consumedScheduled microtask
  ended,          \* endStream() was called on the pipes
  writeError      \* session.outputWriteError

guestVars == <<unsent, open, guestCredit, response>>
portVars == <<outWire, grantWire, bridgeFull, congestions>>
serverVars == <<inflight, pendingWin, flushDue>>
bufferVars == <<unread, refused, refillDue, ended>>
sessionVars == <<attached, mode, credit, updatePending, bufferVars, writeError>>
vars == <<guestVars, portVars, serverVars, sessionVars>>

Zero == [s \in Streams |-> 0]
Plus(f, g) == [s \in Streams |-> f[s] + g[s]]
Add(f, s, n) == [f EXCEPT ![s] = @ + n]
Sub(f, s, n) == [f EXCEPT ![s] = @ - n]

Init ==
  /\ unsent \in Outputs
  /\ open = [s \in Streams |-> TRUE]
  /\ guestCredit = [s \in Streams |-> Window]
  /\ response = "none"
  /\ outWire = Zero /\ grantWire = Zero
  /\ bridgeFull = FALSE /\ congestions = 0
  /\ inflight = TRUE /\ pendingWin = Zero /\ flushDue = FALSE
  /\ attached = TRUE
  /\ mode \in {[stdout |-> p[1], stderr |-> p[2]] : p \in ModePairs}
  /\ credit = [s \in Streams |-> Window]
  /\ updatePending = Zero
  /\ unread = Zero /\ refused = Zero
  /\ refillDue = [s \in Streams |-> FALSE]
  /\ ended = FALSE /\ writeError = FALSE

-----------------------------------------------------------------------------
(* Credit on its way back to the guest.                                    *)

\* a bug: credit that cannot be sent at once is forgotten
ForwardWindowOnce(g) ==
  IF inflight /\ ~bridgeFull
  THEN /\ pendingWin' = Zero
       /\ grantWire' = Plus(grantWire, Plus(pendingWin, g))
  ELSE UNCHANGED <<pendingWin, grantWire>>

\* handleExecWindow for the credit g: it is merged with what waits already and
\* sent at once unless the bridge is full; credit for a finished exec is ignored
ForwardWindow(g) ==
  IF ~inflight
  THEN UNCHANGED <<pendingWin, grantWire>>
  ELSE IF bridgeFull
  THEN pendingWin' = Plus(pendingWin, g) /\ UNCHANGED grantWire
  ELSE /\ pendingWin' = Zero
       /\ grantWire' = Plus(grantWire, Plus(pendingWin, g))

\* a meaningful batch has gathered, or the guest is starved on a stream
UpdateWorthSending(c, p) ==
  \E s \in Streams : p[s] >= Threshold \/ c[s] = 0

\* flushWindowUpdates for the credits c and the pending updates p
FlushUpdates(c, p) ==
  /\ credit' = Plus(c, p)
  /\ updatePending' = Zero
  /\ ForwardWindow(p)

\* queueWindowUpdate, when p already includes the new bytes
QueueUpdate(c, p) ==
  IF UpdateWorthSending(c, p)
  THEN FlushUpdates(c, p)
  ELSE /\ credit' = c /\ updatePending' = p
       /\ UNCHANGED <<pendingWin, grantWire>>

\* flushPendingExecWindows, from the bridge's onWritable
FlushPendingWindows ==
  /\ flushDue
  /\ flushDue' = FALSE
  /\ IF bridgeFull
     THEN UNCHANGED <<pendingWin, grantWire>>
     ELSE /\ pendingWin' = Zero
          /\ grantWire' = Plus(grantWire, pendingWin)
  /\ UNCHANGED <<guestVars, outWire, bridgeFull, congestions, inflight,
                 sessionVars>>

\* frames of other requests fill the bridge's queue
BridgeFills ==
  /\ ~bridgeFull /\ congestions < MaxCongestions
  /\ bridgeFull' = TRUE /\ congestions' = congestions + 1
  /\ UNCHANGED <<guestVars, outWire, grantWire, serverVars, sessionVars>>

\* flushPending hands queued frames to the socket and calls onWritable
BridgeDrains ==
  /\ bridgeFull
  /\ bridgeFull' = FALSE /\ flushDue' = TRUE
  /\ UNCHANGED <<guestVars, outWire, grantWire, congestions, inflight,
                 pendingWin, sessionVars>>

-----------------------------------------------------------------------------
(* Output on its way to the caller.                                        *)

\* a bug: the bytes of a paused sink are granted back and stay on its account
FailWritableKeepsBlocked(s, c, back) ==
  /\ mode' = [mode EXCEPT ![s] = "ignore"]
  /\ FlushUpdates(c, Add(updatePending, s, unread[s] + back))
  /\ writeError' = TRUE
  /\ ended' = TRUE
  /\ UNCHANGED <<unread, refused, refillDue>>

\* failWritableOutput: the stream is ignored from now on, everything it owes
\* (back more bytes included) is granted back, and the exec is rejected, which
\* ends both pipes
FailWritable(s, c, back) ==
  LET owed == unread[s] + back IN
  /\ mode' = [mode EXCEPT ![s] = "ignore"]
  /\ unread' = [unread EXCEPT ![s] = 0]
  /\ IF owed > 0
     THEN FlushUpdates(c, Add(updatePending, s, owed))
     ELSE /\ credit' = c
          /\ UNCHANGED <<updatePending, pendingWin, grantWire>>
  /\ writeError' = TRUE
  /\ ended' = TRUE
  /\ UNCHANGED <<refused, refillDue>>

\* applyOutputChunk for n bytes.  A writable takes the chunk, takes it and asks
\* for a pause, or throws.  A pipe that has ended refuses the chunk, yet
\* pushChunk has counted it.
ApplyChunk(s, n) ==
  LET c == [credit EXCEPT ![s] = IF n > @ THEN 0 ELSE @ - n]
      consumed == /\ QueueUpdate(c, Add(updatePending, s, n))
                  /\ UNCHANGED <<mode, bufferVars, writeError>>
      held == /\ credit' = c
              /\ unread' = Add(unread, s, n)
              /\ refused' = IF mode[s] = "pipe" /\ ended
                            THEN Add(refused, s, n) ELSE refused
              /\ UNCHANGED <<mode, updatePending, pendingWin, grantWire,
                             refillDue, ended, writeError>>
  IN \/ mode[s] \in {"buffer", "ignore", "writable"} /\ consumed
     \/ mode[s] \in {"pipe", "writable"} /\ held
     \/ mode[s] = "writable" /\ FailWritable(s, c, n)

\* bridge.onMessage for exec_output, then VM.handleMessage: the bytes are
\* dropped when the server or the VM no longer knows the exec
RecvOutput(s) ==
  \E n \in 1 .. outWire[s] :
    /\ outWire' = Sub(outWire, s, n)
    /\ IF inflight /\ attached
       THEN ApplyChunk(s, n)
       ELSE UNCHANGED <<mode, credit, updatePending, bufferVars, writeError,
                        pendingWin, grantWire>>
    /\ UNCHANGED <<guestVars, bridgeFull, congestions, inflight, flushDue,
                   attached>>

\* the reader of the pipe takes n bytes (ExecPipeStream.consume); the refill is
\* left to a microtask
Consume(s) ==
  /\ mode[s] = "pipe"
  /\ \E n \in 1 .. unread[s] - refused[s] : unread' = Sub(unread, s, n)
  /\ refillDue' = [refillDue EXCEPT ![s] = TRUE]
  /\ UNCHANGED <<guestVars, portVars, serverVars, attached, mode, credit,
                 updatePending, refused, ended, writeError>>

\* a bug: updates that wait to be sent are granted a second time
RefillableTwice(s) == Window - unread[s] - credit[s]

\* what refillPipeWindow may grant: the room in the window that the guest has
\* not been told of
Refillable(s) == Window - unread[s] - (credit[s] + updatePending[s])

RefillPipeWindow(s) ==
  /\ refillDue[s]
  /\ refillDue' = [refillDue EXCEPT ![s] = FALSE]
  /\ IF Refillable(s) > 0
     THEN QueueUpdate(credit, Add(updatePending, s, Refillable(s)))
     ELSE UNCHANGED <<credit, updatePending, pendingWin, grantWire>>
  /\ UNCHANGED <<guestVars, outWire, bridgeFull, congestions, inflight,
                 flushDue, attached, mode, unread, refused, ended, writeError>>

\* the "drain" event of a writable that asked for a pause
Drain(s) ==
  /\ mode[s] = "writable" /\ unread[s] > 0
  /\ unread' = [unread EXCEPT ![s] = 0]
  /\ FlushUpdates(credit, Add(updatePending, s, unread[s]))
  /\ UNCHANGED <<guestVars, outWire, bridgeFull, congestions, inflight,
                 flushDue, attached, mode, refused, refillDue, ended,
                 writeError>>

\* the "error" event of a writable (EPIPE)
WritableError(s) ==
  /\ mode[s] = "writable"
  /\ FailWritable(s, credit, 0)
  /\ UNCHANGED <<guestVars, outWire, bridgeFull, congestions, inflight,
                 flushDue, attached>>

\* the abort signal, or an error answer to one of the exec's own messages:
\* the VM forgets the session and tells nobody
Abandon ==
  /\ attached
  /\ attached' = FALSE /\ ended' = TRUE
  /\ UNCHANGED <<guestVars, portVars, serverVars, mode, credit, updatePending,
                 unread, refused, refillDue, writeError>>

\* disconnectClient on the server, handleDisconnect in the VM
Disconnect ==
  /\ inflight
  /\ inflight' = FALSE /\ pendingWin' = Zero
  /\ attached' = FALSE /\ ended' = TRUE
  /\ UNCHANGED <<guestVars, portVars, flushDue, mode, credit, updatePending,
                 unread, refused, refillDue, writeError>>

-----------------------------------------------------------------------------
(* The guest's exec worker.                                                *)

\* a read() of at most credit bytes, sent as one exec_output
GuestSend(s) ==
  /\ open[s]
  /\ \E n \in 1 .. unsent[s] :
       /\ n <= guestCredit[s]
       /\ unsent' = Sub(unsent, s, n)
       /\ guestCredit' = Sub(guestCredit, s, n)
       /\ outWire' = Add(outWire, s, n)
  /\ UNCHANGED <<open, response, grantWire, bridgeFull, congestions,
                 serverVars, sessionVars>>

\* the end of the stream shows as an empty read, or, when there is no credit to
\* read with, as a hangup with no bytes available
EndSeen(s) == unsent[s] = 0

GuestClose(s) ==
  /\ open[s] /\ EndSeen(s)
  /\ open' = [open EXCEPT ![s] = FALSE]
  /\ UNCHANGED <<unsent, guestCredit, response, portVars, serverVars,
                 sessionVars>>

\* a .window control message: credit never grows beyond the window
GuestGrant(s) ==
  /\ \E n \in 1 .. grantWire[s] :
       /\ grantWire' = Sub(grantWire, s, n)
       /\ guestCredit' = [guestCredit EXCEPT ![s] =
                            IF @ + n > Window THEN Window ELSE @ + n]
  /\ UNCHANGED <<unsent, open, response, outWire, bridgeFull, congestions,
                 serverVars, sessionVars>>

\* the process is gone and both streams have ended
GuestExit ==
  /\ response = "none" /\ \A s \in Streams : ~open[s]
  /\ response' = "sent"
  /\ UNCHANGED <<unsent, open, guestCredit, portVars, serverVars, sessionVars>>

\* bridge.onMessage for exec_response, which follows the output on the wire,
\* and VM.handleExecResponse
RecvExecResponse ==
  /\ response = "sent" /\ outWire = Zero
  /\ response' = "received"
  /\ inflight' = FALSE /\ pendingWin' = Zero
  /\ attached' = FALSE
  /\ ended' = TRUE
  /\ UNCHANGED <<unsent, open, guestCredit, portVars, flushDue, mode, credit,
                 updatePending, unread, refused, refillDue, writeError>>

-----------------------------------------------------------------------------
\* the reader of a pipe, the sink behind a writable
Consumer(s) == Consume(s) \/ Drain(s)

GuestStream(s) == GuestSend(s) \/ GuestClose(s) \/ GuestGrant(s)

HostStream(s) == RecvOutput(s) \/ RefillPipeWindow(s)

Next ==
  \/ \E s \in Streams :
       HostStream(s) \/ GuestStream(s) \/ Consumer(s) \/ WritableError(s)
  \/ FlushPendingWindows \/ BridgeFills \/ BridgeDrains
  \/ GuestExit \/ RecvExecResponse
  \/ Abandon \/ Disconnect

Spec == Init /\ [][Next]_vars

\* Node's event loop runs every callback that is due, the bridge's socket
\* drains, and the worker's poll loop serves each descriptor and message
Fairness ==
  /\ \A s \in Streams : WF_vars(RecvOutput(s)) /\ WF_vars(RefillPipeWindow(s))
  /\ \A s \in Streams :
       WF_vars(GuestSend(s)) /\ WF_vars(GuestClose(s)) /\ WF_vars(GuestGrant(s))
  /\ WF_vars(FlushPendingWindows) /\ WF_vars(BridgeDrains)
  /\ WF_vars(GuestExit) /\ WF_vars(RecvExecResponse)

FairSpec == Spec /\ Fairness

-----------------------------------------------------------------------------
TypeOK ==
  /\ unsent \in [Streams -> Nat] /\ open \in [Streams -> BOOLEAN]
  /\ guestCredit \in [Streams -> Nat]
  /\ response \in {"none", "sent", "received"}
  /\ outWire \in [Streams -> Nat] /\ grantWire \in [Streams -> Nat]
  /\ bridgeFull \in BOOLEAN /\ congestions \in Nat
  /\ inflight \in BOOLEAN /\ pendingWin \in [Streams -> Nat]
  /\ flushDue \in BOOLEAN
  /\ attached \in BOOLEAN /\ mode \in [Streams -> Modes]
  /\ credit \in [Streams -> Nat] /\ updatePending \in [Streams -> Nat]
  /\ unread \in [Streams -> Nat] /\ refused \in [Streams -> Nat]
  /\ refillDue \in [Streams -> BOOLEAN]
  /\ ended \in BOOLEAN /\ writeError \in BOOLEAN

\* the credit of a stream that the host has given out and not seen spent,
\* wherever it is
Outstanding(s) == guestCredit[s] + grantWire[s] + pendingWin[s] + outWire[s]

\* While the exec lives at both ends, no byte of credit is lost or made up:
\* the host's stdoutCredit/stderrCredit is exactly what is outstanding, and
\* together with the updates not sent and the bytes held for the caller it is
\* the window, except for bytes read in the microtask before the refill.
CreditConserved ==
  attached /\ inflight => \A s \in Streams :
    /\ credit[s] = Outstanding(s)
    /\ credit[s] + updatePending[s] + unread[s] <= Window
    /\ ~refillDue[s] => credit[s] + updatePending[s] + unread[s] = Window

\* "Gondolin uses a host<->guest credit window to keep buffered output bounded"
\* (docs/sdk-vm.md): what a stream has on the wire and in the host's buffer
\* fits in its window, also after a failed write, an abort or a disconnect.
BufferedOutputBounded ==
  \A s \in Streams : outWire[s] + unread[s] <= Window

\* The window as the caller sees it: a buffer of Window bytes per stream.
BoundedBuffer ==
  INSTANCE BoundedBuffer WITH
    Capacity <- Window, held <- [s \in Streams |-> outWire[s] + unread[s]]

\* The credit protocol implements that buffer: the worker's read puts bytes into
\* it and nothing but the caller's consumption, or giving the output up, takes
\* them out.
ImplementsBoundedBuffer == BoundedBuffer!Spec

\* The reader of a pipe keeps reading and a paused sink drains.
ConsumerFairness == \A s \in Streams : WF_vars(Consumer(s))

\* A sink has failed beside a pipe: failWritableOutput has ended the pipe, which
\* takes no byte any more but counts them all as unread, so once its window is used
\* up the guest gets no credit again and the exec may stay for ever.
EndedPipeStalls == writeError /\ \E s \in Streams : mode[s] = "pipe"

\* If the consumers keep up, an exec ends, whatever it writes and however often
\* the bridge is full, unless the caller gives it up first or a sink fails while
\* the other stream is a pipe.
ExecFinishes == ConsumerFairness => <>(~attached \/ EndedPipeStalls)

==============================================================================
