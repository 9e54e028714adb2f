------------------------------ MODULE StdinFlow ------------------------------
(***************************************************************************)
(* The way of stdin from a client to the processes of several execs: the   *)
(* queues SandboxServerOps keeps per exec and their limits (server-ops.ts, *)
(* handleStdin, flushQueuedStdin), the credit the guest advertises with    *)
(* stdin_window, and the exec worker that writes the bytes into the        *)
(* process's pipe and reads its output (guest/src/sandboxd/main.zig).      *)
(*                                                                         *)
(* A queue is a number of bytes and a mark for the end of input behind     *)
(* them; a frame is any part of the bytes on the wire.  Admission is in    *)
(* ExecScheduler: here an exec is held, running or over on the host.  The  *)
(* credit for output is in OutputFlow and never runs out here.             *)
(***************************************************************************)
EXTENDS Naturals, Sequences, FiniteSets, SequencesExt, Filtering

CONSTANTS
  Execs,           \* exec ids
  Program,         \* "echo" copies its input to its output, "deaf" reads nothing
  Input,           \* bytes the client of an exec has for it
  MaxChunk,        \* largest stdin message of a client (maxStdinBytes)
  MaxQueued,       \* maxQueuedStdinBytes
  MaxTotalQueued,  \* maxTotalQueuedStdinBytes
  GuestMax,        \* max_queued_stdin_bytes
  PipeSize,        \* capacity of a pipe in the guest
  MaxCongestions   \* times other traffic fills the bridge (bounds the model)

Programs == {"echo", "deaf"}

ASSUME StdinAssumption ==
  /\ IsFiniteSet(Execs)
  /\ Program \in [Execs -> Programs]
  /\ Input \in [Execs -> Nat]
  /\ MaxChunk \in Nat \ {0} /\ GuestMax \in Nat \ {0} /\ PipeSize \in Nat \ {0}
  /\ MaxQueued \in Nat /\ MaxTotalQueued \in Nat /\ MaxCongestions \in Nat

VARIABLES
  \* the client
  unsent,       \* bytes it has not handed in
  eofGiven,     \* it has sent its eof message
  oversized,    \* bytes of its messages that were above maxStdinBytes
  \* host: SandboxServer
  phase,        \* "held" before startExecNow, "running", "over" when not in flight
  queued,       \* queuedStdinBytes
  eofQueued,    \* the last chunk of queuedStdin is an eof
  total,        \* queuedStdinBytesTotal
  listed,       \* keys of the queuedStdin map in insertion order
  credit,       \* stdinCredits
  ioFlushDue,   \* execIoFlushScheduled
  \* the control port
  bridgeFull, congestions,
  wire, eofWire,  \* stdin_data on its way to the guest
  windowWire,     \* stdin_window on its way to the host
  \* guest: control loop and exec worker
  session,      \* "none", "requested", "live" or "done"
  guestCredit,  \* stdin_credit_inflight
  controls,     \* stdin bytes in session.controls
  batch,        \* stdin bytes in local_controls that are not written yet
  eofControls, eofBatch,
  stdinClosed,  \* the write end of the stdin pipe is closed
  lost,         \* execs that had a chunk rejected with stdin_backpressure
  \* guest: the process
  inPipe, outPipe, exited

clientVars == <<unsent, eofGiven, oversized>>
queueVars  == <<queued, eofQueued, total, listed>>
hostVars   == <<phase, queueVars, credit, ioFlushDue>>
bridgeVars == <<bridgeFull, congestions>>
portVars   == <<bridgeVars, wire, eofWire, windowWire>>
workerVars == <<session, guestCredit, controls, batch, eofControls, eofBatch,
                stdinClosed, lost>>
processVars == <<inPipe, outPipe, exited>>
guestVars  == <<workerVars, processVars>>
vars == <<clientVars, hostVars, portVars, guestVars>>

Least(m, n) == IF m <= n THEN m ELSE n
\* how many bytes the execs of S have together when an exec x has f[x]
Bytes(f, S) == Cardinality(UNION {{x} \X (1 .. f[x]) : x \in S})
\* the list l without the execs outside S
Only(l, S) == Filtered(l, {i \in DOMAIN l : l[i] \in S})
Zero == [x \in Execs |-> 0]
No   == [x \in Execs |-> FALSE]

Init ==
  /\ unsent = Input /\ eofGiven = No /\ oversized = Zero
  /\ phase = [x \in Execs |-> "held"]
  /\ queued = Zero /\ eofQueued = No /\ total = 0 /\ listed = <<>>
  /\ credit = Zero /\ ioFlushDue = FALSE
  /\ bridgeFull = FALSE /\ congestions = 0
  /\ wire = Zero /\ eofWire = No /\ windowWire = Zero
  /\ session = [x \in Execs |-> "none"]
  /\ guestCredit = Zero /\ controls = Zero /\ batch = Zero
  /\ eofControls = No /\ eofBatch = No /\ stdinClosed = No /\ lost = {}
  /\ inPipe = Zero /\ outPipe = Zero /\ exited = No

-----------------------------------------------------------------------------
(* Host: the queues of stdin.                                              *)

\* clearQueuedStdin
ClearQueuedStdin(x) ==
  /\ queued' = [queued EXCEPT ![x] = 0]
  /\ eofQueued' = [eofQueued EXCEPT ![x] = FALSE]
  /\ listed' \in Only(listed, Execs \ {x})
  /\ total' = total - queued[x]

\* the exec leaves inflight and everything the server keeps for its stdin goes
Over(x) ==
  /\ phase' = [phase EXCEPT ![x] = "over"]
  /\ credit' = [credit EXCEPT ![x] = 0]
  /\ ClearQueuedStdin(x)

\* a bug: an eof overtakes the data that waits for credit
EofMayGoAlways(q, c) == q \in Nat

\* an eof needs no credit, but it goes behind the data of its exec
EofMayGo(q, c) == q <= c

\* a bug: a chunk goes out whole when there is any credit
BytesOutWhole(q, c) == IF c > 0 THEN q ELSE 0

\* a chunk is cut to the credit there is
BytesOut(q, c) == Least(q, c)

\* a bug: credit is not spent
CreditKept(c, n) == IF n >= 0 THEN c ELSE 0

CreditLeft(c, n) == c - n

\* flushQueuedStdinFor, for each of the running execs in ids, when the queues,
\* their eof marks, the total, the listed ids and the credits are q, e, t, l, c:
\* as many bytes as there is credit for go out, then the eof behind them
Flush(ids, q, e, t, l, c) ==
  LET out  == [x \in Execs |-> IF x \in ids /\ ~bridgeFull
                               THEN BytesOut(q[x], c[x]) ELSE 0]
      ends == {x \in ids : e[x] /\ ~bridgeFull /\ EofMayGo(q[x], c[x])}
      stay == {x \in Execs : q[x] > out[x] \/ (e[x] /\ x \notin ends)}
  IN /\ queued' = [x \in Execs |-> q[x] - out[x]]
     /\ eofQueued' = [x \in Execs |-> e[x] /\ x \notin ends]
     /\ total' = t - Bytes(out, ids)
     /\ listed' \in Only(l, stay)
     /\ credit' = [x \in Execs |-> CreditLeft(c[x], out[x])]
     /\ wire' = [x \in Execs |-> wire[x] + out[x]]
     /\ eofWire' = [x \in Execs |-> eofWire[x] \/ x \in ends]

\* flushQueuedStdinFor returns false: the list of x is not empty afterwards
Blocked(x, q, c) == bridgeFull \/ q[x] > c[x]

\* the overflow message of queueStdinChunk
Overflows(x, n) == queued[x] + n > MaxQueued \/ total + n > MaxTotalQueued


\* queueStdinChunk of a chunk that does not fit: an exec that has not started is
\* cancelled, a running one only misses the chunk
Overflow(x) ==
  IF phase[x] = "held" THEN Over(x) ELSE UNCHANGED <<phase, queueVars, credit>>

\* a stdin message with n bytes, and the eof mark if e, for an exec in flight
StdinMessage(x, n, e) ==
  /\ phase[x] # "over" /\ ~eofGiven[x]
  /\ n <= unsent[x] /\ (n > 0 \/ e) /\ (e => n = unsent[x])
  /\ unsent' = [unsent EXCEPT ![x] = @ - n]
  /\ eofGiven' = [eofGiven EXCEPT ![x] = e]

\* handleStdin for a message above maxStdinBytes: an error is answered and the
\* bytes, with the eof if they carry it, are gone.  Nothing else changes: an exec
\* that is held stays held and starts without them.
RefuseStdin(x, n, e) ==
  /\ StdinMessage(x, n, e) /\ n > MaxChunk
  /\ oversized' = [oversized EXCEPT ![x] = @ + n]
  /\ UNCHANGED <<hostVars, portVars, guestVars>>

\* handleStdin for any other
HandleStdin(x, n, e) ==
  /\ StdinMessage(x, n, e) /\ n <= MaxChunk
  /\ LET q == [queued EXCEPT ![x] = @ + n]
         l == IF x \in ToSet(listed) THEN listed ELSE Append(listed, x)
         ends == [eofQueued EXCEPT ![x] = e]
     IN \/ /\ Overflows(x, n)
           /\ Overflow(x)
           /\ UNCHANGED <<ioFlushDue, wire, eofWire>>
        \/ /\ ~Overflows(x, n) /\ phase[x] = "held"
           /\ queued' = q /\ eofQueued' = ends /\ total' = total + n /\ listed' = l
           /\ UNCHANGED <<phase, credit, ioFlushDue, wire, eofWire>>
        \/ /\ ~Overflows(x, n) /\ phase[x] = "running"
           /\ Flush({x}, q, ends, total + n, l, credit)
           /\ ioFlushDue' = (ioFlushDue \/ Blocked(x, q, credit))
           /\ UNCHANGED phase
  /\ UNCHANGED <<oversized, bridgeVars, windowWire, guestVars>>

\* startExecNow: refused by a full bridge, or sent, and the queue flushed
StartExecNow(x) ==
  /\ phase[x] = "held"
  /\ \/ /\ bridgeFull
        /\ Over(x)
        /\ UNCHANGED <<ioFlushDue, wire, eofWire, session>>
     \/ /\ ~bridgeFull
        /\ phase' = [phase EXCEPT ![x] = "running"]
        /\ session' = [session EXCEPT ![x] = "requested"]
        /\ Flush({x}, queued, eofQueued, total, listed, credit)
        /\ ioFlushDue' = (ioFlushDue \/ queued[x] > 0)
  /\ UNCHANGED <<clientVars, bridgeVars, windowWire, guestCredit, controls, batch,
                 eofControls, eofBatch, stdinClosed, lost, processVars>>

\* bridge.onMessage for a stdin_window of n bytes
RecvStdinWindow(x, n) ==
  /\ windowWire' = [windowWire EXCEPT ![x] = @ - n]
  /\ IF phase[x] = "running"
     THEN LET c == [credit EXCEPT ![x] = @ + n] IN
          /\ Flush({x}, queued, eofQueued, total, listed, c)
          /\ ioFlushDue' = (ioFlushDue \/ (x \in ToSet(listed) /\ Blocked(x, queued, c)))
     ELSE UNCHANGED <<queueVars, credit, ioFlushDue, wire, eofWire>>
  /\ UNCHANGED <<clientVars, phase, bridgeVars, guestVars>>

\* flushQueuedStdin: the lists in map order, up to the first that stays
FlushQueuedStdin ==
  /\ ioFlushDue
  /\ ioFlushDue' = FALSE
  /\ LET passed(y)  == phase[y] # "running" \/ ~Blocked(y, queued, credit)
         reached(i) == \A j \in 1 .. i - 1 : passed(listed[j])
         ids == {listed[i] : i \in {k \in DOMAIN listed : reached(k)}}
     IN Flush({x \in ids : phase[x] = "running"},
              queued, eofQueued, total, listed, credit)
  /\ UNCHANGED <<clientVars, phase, bridgeVars, windowWire, guestVars>>

\* disconnectClient
Disconnect(x) ==
  /\ phase[x] # "over"
  /\ Over(x)
  /\ UNCHANGED <<clientVars, ioFlushDue, portVars, guestVars>>

\* the exec_response, which follows every stdin_window of its worker
RecvExecResponse(x) ==
  /\ phase[x] = "running" /\ session[x] = "done" /\ windowWire[x] = 0
  /\ Over(x)
  /\ UNCHANGED <<clientVars, ioFlushDue, portVars, guestVars>>

\* frames of other requests fill the bridge's queue
BridgeFills ==
  /\ ~bridgeFull /\ congestions < MaxCongestions
  /\ bridgeFull' = TRUE /\ congestions' = congestions + 1
  /\ UNCHANGED <<clientVars, hostVars, wire, eofWire, windowWire, guestVars>>

\* bridge.onWritable
OnWritable == ioFlushDue' = TRUE

\* flushPending empties the queue and calls onWritable
BridgeDrains ==
  /\ bridgeFull
  /\ bridgeFull' = FALSE
  /\ OnWritable
  /\ UNCHANGED <<clientVars, phase, queueVars, credit, congestions, wire, eofWire,
                 windowWire, guestVars>>

-----------------------------------------------------------------------------
(* Guest: the control loop and the exec worker.                            *)

\* startExecSession, and the worker up to its first stdin_window
GuestStarts(x) ==
  /\ session[x] = "requested"
  /\ session' = [session EXCEPT ![x] = "live"]
  /\ guestCredit' = [guestCredit EXCEPT ![x] = GuestMax]
  /\ windowWire' = [windowWire EXCEPT ![x] = @ + GuestMax]
  /\ UNCHANGED <<clientVars, hostVars, bridgeVars, wire, eofWire, controls, batch,
                 eofControls, eofBatch, stdinClosed, lost, processVars>>

\* enqueueExecInput for n bytes: more than the credit or the room is rejected
GuestRecvStdin(x, n) ==
  /\ session[x] \in {"live", "done"}
  /\ wire' = [wire EXCEPT ![x] = @ - n]
  /\ IF session[x] = "done"
     THEN UNCHANGED <<controls, guestCredit, lost>>
     ELSE IF n <= guestCredit[x] /\ controls[x] + batch[x] + n <= GuestMax
     THEN /\ controls' = [controls EXCEPT ![x] = @ + n]
          /\ guestCredit' = [guestCredit EXCEPT ![x] = @ - n]
          /\ UNCHANGED lost
     ELSE lost' = lost \cup {x} /\ UNCHANGED <<controls, guestCredit>>
  /\ UNCHANGED <<clientVars, hostVars, bridgeVars, eofWire, windowWire, session,
                 batch, eofControls, eofBatch, stdinClosed, processVars>>

GuestRecvEof(x) ==
  /\ session[x] \in {"live", "done"} /\ eofWire[x] /\ wire[x] = 0
  /\ eofWire' = [eofWire EXCEPT ![x] = FALSE]
  /\ eofControls' = [eofControls EXCEPT ![x] = session[x] = "live"]
  /\ UNCHANGED <<clientVars, hostVars, bridgeVars, wire, windowWire, session,
                 guestCredit, controls, batch, eofBatch, stdinClosed, lost,
                 processVars>>

\* the worker is at the top of its loop: no chunk of a batch is left to write
Polling(x) == session[x] = "live" /\ batch[x] = 0 /\ ~eofBatch[x]

\* it swaps session.controls for its empty local list
WorkerSwaps(x) ==
  /\ Polling(x) /\ (controls[x] > 0 \/ eofControls[x])
  /\ batch' = [batch EXCEPT ![x] = controls[x]]
  /\ eofBatch' = [eofBatch EXCEPT ![x] = eofControls[x]]
  /\ controls' = [controls EXCEPT ![x] = 0]
  /\ eofControls' = [eofControls EXCEPT ![x] = FALSE]
  /\ UNCHANGED <<clientVars, hostVars, portVars, session, guestCredit, stdinClosed,
                 lost, processVars>>

\* what the worker grants once n bytes are written: the room that neither a
\* queued byte nor credit in the host's hands takes up
Grant(x, n) ==
  Least(n, GuestMax - (controls[x] + batch[x] - n + guestCredit[x]))

\* a blocking write to the pipe; when the process is gone it fails and closes
\* the pipe, the bytes are dropped, and the credit goes back all the same
WorkerWrites(x, n) ==
  /\ session[x] = "live"
  /\ \/ /\ ~exited[x] /\ inPipe[x] + n <= PipeSize
        /\ inPipe' = [inPipe EXCEPT ![x] = @ + n]
        /\ UNCHANGED stdinClosed
     \/ /\ exited[x]
        /\ stdinClosed' = [stdinClosed EXCEPT ![x] = TRUE]
        /\ UNCHANGED inPipe
  /\ batch' = [batch EXCEPT ![x] = @ - n]
  /\ guestCredit' = [guestCredit EXCEPT ![x] = @ + Grant(x, n)]
  /\ windowWire' = [windowWire EXCEPT ![x] = @ + Grant(x, n)]
  /\ UNCHANGED <<clientVars, hostVars, bridgeVars, wire, eofWire, session, controls,
                 eofControls, eofBatch, lost, outPipe, exited>>

WorkerClosesStdin(x) ==
  /\ session[x] = "live" /\ batch[x] = 0 /\ eofBatch[x]
  /\ eofBatch' = [eofBatch EXCEPT ![x] = FALSE]
  /\ stdinClosed' = [stdinClosed EXCEPT ![x] = TRUE]
  /\ UNCHANGED <<clientVars, hostVars, portVars, session, guestCredit, controls,
                 batch, eofControls, lost, processVars>>

\* the worker reads output between two batches
WorkerReads(x) ==
  /\ Polling(x) /\ outPipe[x] > 0
  /\ outPipe' = [outPipe EXCEPT ![x] = 0]
  /\ UNCHANGED <<clientVars, hostVars, portVars, workerVars, inPipe, exited>>

\* the process is gone, its output is drained: exec_response, session done
WorkerEnds(x) ==
  /\ Polling(x) /\ exited[x] /\ outPipe[x] = 0
  /\ session' = [session EXCEPT ![x] = "done"]
  /\ UNCHANGED <<clientVars, hostVars, portVars, guestCredit, controls, batch,
                 eofControls, eofBatch, stdinClosed, lost, processVars>>

-----------------------------------------------------------------------------
(* Guest: the processes.                                                   *)

\* a program that copies its input reads a byte and writes it
ProcessCopies(x) ==
  /\ session[x] = "live" /\ ~exited[x] /\ inPipe[x] > 0
  /\ Program[x] = "echo" /\ outPipe[x] < PipeSize
  /\ outPipe' = [outPipe EXCEPT ![x] = @ + 1]
  /\ inPipe' = [inPipe EXCEPT ![x] = @ - 1]
  /\ UNCHANGED <<clientVars, hostVars, portVars, workerVars, exited>>

\* it has read to the end of its input
AtEnd(x) == stdinClosed[x] /\ inPipe[x] = 0 /\ Program[x] = "echo"

\* a process ends at the end of its input, one that does not read at any time
ProcessExits(x) ==
  /\ session[x] = "live" /\ ~exited[x]
  /\ AtEnd(x) \/ Program[x] = "deaf"
  /\ exited' = [exited EXCEPT ![x] = TRUE]
  /\ inPipe' = [inPipe EXCEPT ![x] = 0]
  /\ UNCHANGED <<clientVars, hostVars, portVars, workerVars, outPipe>>

-----------------------------------------------------------------------------
Client(x) == \E n \in 0 .. unsent[x], e \in BOOLEAN :
               HandleStdin(x, n, e) \/ RefuseStdin(x, n, e)

Host(x) ==
  \/ StartExecNow(x) \/ RecvExecResponse(x)
  \/ \E n \in 1 .. windowWire[x] : RecvStdinWindow(x, n)

Guest(x) ==
  \/ GuestStarts(x) \/ GuestRecvEof(x)
  \/ \E n \in 1 .. wire[x] : GuestRecvStdin(x, n)

Worker(x) ==
  \/ WorkerSwaps(x) \/ WorkerClosesStdin(x) \/ WorkerReads(x) \/ WorkerEnds(x)
  \/ \E n \in 1 .. batch[x] : WorkerWrites(x, n)

Next ==
  \/ \E x \in Execs : \/ Client(x) \/ Host(x) \/ Guest(x) \/ Worker(x)
                      \/ ProcessCopies(x) \/ ProcessExits(x) \/ Disconnect(x)
  \/ FlushQueuedStdin \/ BridgeFills \/ BridgeDrains

Spec == Init /\ [][Next]_vars

\* setImmediate callbacks run and the bridge's socket drains.
FlushFairness == WF_vars(FlushQueuedStdin) /\ WF_vars(BridgeDrains)

FlushSpec == Spec /\ FlushFairness

-----------------------------------------------------------------------------
TypeOK ==
  /\ unsent \in [Execs -> Nat] /\ eofGiven \in [Execs -> BOOLEAN]
  /\ oversized \in [Execs -> Nat]
  /\ phase \in [Execs -> {"held", "running", "over"}]
  /\ queued \in [Execs -> Nat] /\ eofQueued \in [Execs -> BOOLEAN]
  /\ total \in Nat /\ listed \in Seq(Execs)
  /\ credit \in [Execs -> Nat] /\ ioFlushDue \in BOOLEAN
  /\ bridgeFull \in BOOLEAN /\ congestions \in Nat
  /\ wire \in [Execs -> Nat] /\ eofWire \in [Execs -> BOOLEAN]
  /\ windowWire \in [Execs -> Nat]
  /\ session \in [Execs -> {"none", "requested", "live", "done"}]
  /\ guestCredit \in [Execs -> Nat]
  /\ controls \in [Execs -> Nat] /\ batch \in [Execs -> Nat]
  /\ eofControls \in [Execs -> BOOLEAN] /\ eofBatch \in [Execs -> BOOLEAN]
  /\ stdinClosed \in [Execs -> BOOLEAN] /\ lost \subseteq Execs
  /\ inPipe \in [Execs -> 0 .. PipeSize] /\ outPipe \in [Execs -> 0 .. PipeSize]
  /\ exited \in [Execs -> BOOLEAN]

\* The counters behind the stdin limits agree with what is queued, whichever of
\* a flush, an overflow, a refusal by the bridge, a disconnection or an answer
\* took the bytes away, so neither limit is exceeded or leaks
\* (queuedStdinBytes, queuedStdinBytesTotal).
QueuedBytesAccounted ==
  /\ total = Bytes(queued, Execs)
  /\ total <= MaxTotalQueued /\ \A x \in Execs : queued[x] <= MaxQueued
  /\ ToSet(listed) = {x \in Execs : queued[x] > 0 \/ eofQueued[x]}
  /\ Len(listed) = Cardinality(ToSet(listed))

\* The credit the host may spend, on its way or in its hands, is what the guest
\* has given out ("Maintain: stdin_queued_bytes + stdin_credit_inflight <=
\* max_queued_stdin_bytes", main.zig).
StdinCreditConserved ==
  \A x \in Execs : session[x] = "live" =>
    /\ phase[x] = "running"
         => credit[x] + windowWire[x] + wire[x] = guestCredit[x]
    /\ guestCredit[x] + controls[x] + batch[x] = GuestMax

\* The guest never answers stdin_backpressure, an error the host takes for
\* advisory while the bytes are gone: no input is lost on the way.
StdinNeverRejected == lost = {}

\* A process sees the end of its input only after every byte that was accepted
\* for it has been written to its pipe, unless it has ended itself.
EofAfterAllInput ==
  \A x \in Execs : stdinClosed[x] /\ ~exited[x] =>
    queued[x] + wire[x] + controls[x] + batch[x] = 0

\* The limits and the order of stdin hold: what is counted is what is queued, and
\* the end of a process's input comes behind all of it.
StdinSound ==
  TypeOK /\ QueuedBytesAccounted /\ EofAfterAllInput /\ StdinNeverRejected

\* "Cancel queued execs on stdin overflow to avoid running with partial stdin"
\* (handleStdin): an exec that starts has in its queue every byte that was handed
\* in for it, up to the messages that were above maxStdinBytes, for which nothing
\* is cancelled.
StartsWithItsStdin ==
  [][\A x \in Execs : phase[x] = "held" /\ phase'[x] = "running"
                         => queued[x] + oversized[x] + unsent[x] = Input[x]]_vars

\* input that only waits for somebody to flush it
Ready(x) == /\ phase[x] = "running" /\ x \in ToSet(listed)
            /\ credit[x] > 0 \/ queued[x] = 0

\* no running exec that was listed before x waits for credit
NoneAhead(x) ==
  \A i, j \in DOMAIN listed : i < j /\ listed[j] = x =>
    phase[listed[i]] # "running" \/ queued[listed[i]] <= credit[listed[i]]

\* While there is credit for the stdin of an exec a flush stays due, however often
\* the bridge is full, as long as none of the execs listed before it waits for
\* credit: flushQueuedStdin stops at the first that does and looks at none behind.
StdinSent == \A x \in Execs : []NoneAhead(x) => []<>~Ready(x)


===============================================================================
