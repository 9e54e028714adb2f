---------------------------- MODULE ExecScheduler ----------------------------
(***************************************************************************)
(* Admission and scheduling of exec requests and guest file operations by  *)
(* SandboxServerOps (host/src/sandbox/server-ops.ts and the bridge handler *)
(* of server.ts), together with the control loop of the guest daemon       *)
(* (guest/src/sandboxd/main.zig, file_requests.zig) at the other end of    *)
(* the virtio control port.                                                *)
(*                                                                         *)
(* Several JavaScript tasks interleave on the host: every handleExec call  *)
(* suspends once while the controller is resumed, every file operation     *)
(* suspends after its idle check and around each frame it sends.  An       *)
(* action is one run of such a task between two suspension points.         *)
(*                                                                         *)
(* The byte accounting of an exec (stdin, output credit) is in StdinFlow   *)
(* and OutputFlow; here a stdin or window frame is an "input" frame.       *)
(***************************************************************************)
EXTENDS Naturals, Sequences, FiniteSets, SequencesExt, Filtering

CONSTANTS
  Clients,         \* connected SandboxClients
  Calls,           \* invocations of handleExec
  IdOf,            \* the request id each invocation carries
  FileCalls,       \* invocations of read/write/deleteGuestFile
  MaxRequestId,    \* MAX_REQUEST_ID
  FirstFileOpId,   \* value of nextFileOpId when the behaviour begins
  MaxQueuedExecs,  \* options.maxQueuedExecs
  BridgeCap,       \* control frames the bridge accepts before send() is false
  InputCalls,      \* the calls that send an input frame (bounds the model)
  MaxVmExits,      \* VM exits (bounds the model)
  None

ASSUME SchedulerAssumption ==
  /\ MaxRequestId \in Nat \ {0} /\ FirstFileOpId \in 1 .. MaxRequestId
  /\ IdOf \in [Calls -> 1 .. MaxRequestId]
  /\ MaxQueuedExecs \in Nat \ {0} /\ BridgeCap \in Nat \ {0}
  /\ InputCalls \subseteq Calls /\ MaxVmExits \in Nat
  /\ Calls \cap FileCalls = {} /\ None \notin Calls \cup FileCalls \cup Clients
  /\ None \notin Nat

VARIABLES
  clients,      \* SandboxServer.clients
  inflight,     \* id -> the client that is owed an answer
  startedExecs, \* ids whose exec_request was accepted by the bridge
  admission,    \* pendingExecAdmissions: id -> token (the call itself)
  execQueue,    \* calls waiting behind the active file operation
  fileOps,      \* the file calls registered in the fileOps map
  activeFileOpId,
  nextFileOpId,
  call,         \* per handleExec call: where it stands, and its client
  fcall,        \* per file call: where it stands, its id, kind and outcome
  toGuest,      \* control frames sent to the guest, oldest first
  toHost,       \* control frames sent to the host, oldest first
  vmUp,
  exits,        \* VM exits so far
  session,      \* guest: exec_sessions, id -> state and the call it runs
  fileWriter,   \* guest: the write request whose data loop owns the port
  owner,        \* ghost: the call last admitted under an id
  reply,        \* ghost: the answers by which the host ends a call; an error
                \*   for refused input (RefuseInput) ends none
  lost          \* ghost: requests whose frame a foreign data loop consumed

hostVars  == <<clients, inflight, startedExecs, admission, execQueue, call>>
fileVars  == <<fileOps, activeFileOpId, nextFileOpId, fcall>>
guestVars == <<session, fileWriter, lost>>
vars == <<hostVars, fileVars, toGuest, toHost, vmUp, exits, guestVars,
          owner, reply>>

RequestId == 1 .. MaxRequestId

Frame(t, id, by) == [t |-> t, id |-> id, by |-> by]
------------------------------------------------------------------------------
(* Host: bookkeeping shared by the handlers.                               *)

\* Mutant: started execs whose client has gone are forgotten
TrackedByClientsOnly == {id \in RequestId : inflight[id] # None}

\* execPressure: started execs plus admitted ones not yet started
Tracked == startedExecs \cup {id \in RequestId : inflight[id] # None}

\* handleExec's pressure check
AtCapacity == Cardinality(Tracked) >= MaxQueuedExecs

\* what waitForExecIdle polls for
ExecIdle == Tracked = {} /\ activeFileOpId = None /\ execQueue = <<>>

CanSend == Len(toGuest) < BridgeCap

\* sendError / sendJson of the answer that ends c, caused by who
Answer(c, kind, who) ==
  [reply EXCEPT ![c] = Append(@, [kind |-> kind, by |-> who])]

\* the maps a finished or cancelled exec id is removed from
Forget(ids) ==
  /\ inflight' = [id \in RequestId |-> IF id \in ids THEN None ELSE inflight[id]]
  /\ admission' = [id \in RequestId |-> IF id \in ids THEN None ELSE admission[id]]

\* Mutant: the queue is not pumped when the file operation ends
LeaveExecQueue(wire) == toGuest' = wire /\ UNCHANGED <<hostVars, reply>>

\* pumpExecQueue once no file operation is active, behind the frames in wire:
\* every queued call whose id is still in flight (live) is started in order,
\* or refused once the bridge is full
StartQueued(live, cut, wire) ==
  LET stale   == {IdOf[c] : c \in ToSet(execQueue) \ ToSet(live)}
      sent    == {live[i] : i \in 1 .. cut}
      refused == ToSet(live) \ sent
  IN /\ execQueue' = <<>>
     /\ toGuest' = wire \o [i \in 1 .. cut |-> Frame("exec", IdOf[live[i]], live[i])]
     /\ Forget({IdOf[c] : c \in refused})
     /\ startedExecs' = (startedExecs \ stale) \cup {IdOf[c] : c \in sent}
     /\ call' = [c \in Calls |->
                   IF c \in sent THEN [call[c] EXCEPT !.pc = "sent"]
                   ELSE IF c \in ToSet(execQueue) THEN [call[c] EXCEPT !.pc = "over"]
                   ELSE call[c]]
     /\ reply' = [c \in Calls |->
                    IF c \in refused
                    THEN Append(reply[c], [kind |-> "queue_full", by |-> c])
                    ELSE reply[c]]
     /\ UNCHANGED clients

PumpExecQueue(wire) ==
  LET waiting == {i \in DOMAIN execQueue : inflight[IdOf[execQueue[i]]] # None}
      room    == IF Len(wire) < BridgeCap THEN BridgeCap - Len(wire) ELSE 0
  IN \E live \in Filtered(execQueue, waiting) :
       StartQueued(live, IF Len(live) <= room THEN Len(live) ELSE room, wire)

\* resolveFileOperation and rejectFileOperation: a registered operation leaves
\* the map, its promise settles, and if it was the active one the gate opens
SettleFileOp(f, pc, outcome, wire) ==
  /\ fileOps' = fileOps \ {f}
  /\ fcall' = [fcall EXCEPT ![f].pc = pc,
                            ![f].outcome = IF f \in fileOps THEN outcome ELSE @]
  /\ UNCHANGED nextFileOpId
  /\ IF f \in fileOps /\ activeFileOpId = fcall[f].id
     THEN activeFileOpId' = None /\ PumpExecQueue(wire)
     ELSE toGuest' = wire /\ UNCHANGED <<activeFileOpId, hostVars, reply>>
------------------------------------------------------------------------------
(* Host: exec requests.                                                    *)

Init ==
  /\ clients = Clients
  /\ inflight = [id \in RequestId |-> None]
  /\ startedExecs = {}
  /\ admission = [id \in RequestId |-> None]
  /\ execQueue = <<>>
  /\ fileOps = {} /\ activeFileOpId = None /\ nextFileOpId = FirstFileOpId
  /\ call = [c \in Calls |-> [pc |-> "new", client |-> None, input |-> FALSE]]
  /\ fcall = [f \in FileCalls |->
                [pc |-> "new", id |-> None, kind |-> None, outcome |-> "none"]]
  /\ toGuest = <<>> /\ toHost = <<>> /\ vmUp = TRUE /\ exits = 0
  /\ session = [id \in RequestId |-> [st |-> "free", by |-> None]]
  /\ fileWriter = None
  /\ owner = [id \in RequestId |-> None]
  /\ reply = [c \in Calls |-> <<>>]
  /\ lost = {}

\* handleExec up to its await: refused outright, or admitted under a token
HandleExec(c, k) ==
  /\ call[c].pc = "new" /\ k \in clients
  /\ LET id == IdOf[c] IN
     \/ /\ id \in Tracked
        /\ call' = [call EXCEPT ![c].pc = "over", ![c].client = k]
        /\ reply' = Answer(c, "duplicate_id", c)
        /\ UNCHANGED <<inflight, admission, owner>>
     \/ /\ id \notin Tracked /\ AtCapacity
        /\ call' = [call EXCEPT ![c].pc = "over", ![c].client = k]
        /\ reply' = Answer(c, "queue_full", c)
        /\ UNCHANGED <<inflight, admission, owner>>
     \/ /\ id \notin Tracked /\ ~AtCapacity
        /\ inflight' = [inflight EXCEPT ![id] = k]
        /\ admission' = [admission EXCEPT ![id] = c]
        /\ owner' = [owner EXCEPT ![id] = c]
        /\ call' = [call EXCEPT ![c].pc = "resuming", ![c].client = k]
        /\ UNCHANGED reply
  /\ UNCHANGED <<clients, startedExecs, execQueue, fileVars, toGuest, toHost,
                 vmUp, exits, guestVars>>

OwnsAdmission(c) == admission[IdOf[c]] = c

\* resumeControllerForActivity rejected: undo the admission if still ours
ResumeFailed(c) ==
  /\ call[c].pc = "resuming"
  /\ call' = [call EXCEPT ![c].pc = "over"]
  /\ IF OwnsAdmission(c)
     THEN /\ Forget({IdOf[c]})
          /\ reply' = IF inflight[IdOf[c]] # None
                      THEN Answer(c, "sandbox_resume_failed", c) ELSE reply
     ELSE UNCHANGED <<inflight, admission, reply>>
  /\ UNCHANGED <<clients, startedExecs, execQueue, fileVars, toGuest, toHost,
                 vmUp, exits, guestVars, owner>>

\* the rest of handleExec, with startExecNow
Resumed(c) ==
  /\ call[c].pc = "resuming"
  /\ LET id == IdOf[c]
         mine == OwnsAdmission(c)
     IN \/ \* cancelled, or the id belongs to someone else by now
           /\ ~mine \/ inflight[id] # call[c].client
           /\ admission' = IF mine THEN [admission EXCEPT ![id] = None] ELSE admission
           /\ call' = [call EXCEPT ![c].pc = "over"]
           /\ UNCHANGED <<inflight, startedExecs, execQueue, toGuest, reply>>
        \/ \* held back behind the active file operation
           /\ mine /\ inflight[id] = call[c].client /\ activeFileOpId # None
           /\ admission' = [admission EXCEPT ![id] = None]
           /\ execQueue' = Append(execQueue, c)
           /\ call' = [call EXCEPT ![c].pc = "queued"]
           /\ UNCHANGED <<inflight, startedExecs, toGuest, reply>>
        \/ \* startExecNow: the bridge takes the request
           /\ mine /\ inflight[id] = call[c].client /\ activeFileOpId = None
           /\ CanSend
           /\ admission' = [admission EXCEPT ![id] = None]
           /\ toGuest' = Append(toGuest, Frame("exec", id, c))
           /\ startedExecs' = startedExecs \cup {id}
           /\ call' = [call EXCEPT ![c].pc = "sent"]
           /\ UNCHANGED <<inflight, execQueue, reply>>
        \/ \* startExecNow: the bridge refuses it
           /\ mine /\ inflight[id] = call[c].client /\ activeFileOpId = None
           /\ ~CanSend
           /\ Forget({id})
           /\ startedExecs' = startedExecs \ {id}
           /\ reply' = Answer(c, "queue_full", c)
           /\ call' = [call EXCEPT ![c].pc = "over"]
           /\ UNCHANGED <<execQueue, toGuest>>
  /\ UNCHANGED <<clients, fileVars, toHost, vmUp, exits, guestVars, owner>>

\* handleStdin on an exec that has not started: the chunk overflows the queued
\* stdin limits, so the exec is cancelled wherever it waits
StdinOverflow(c) ==
  LET id == IdOf[c] IN
  /\ call[c].pc \in {"resuming", "queued"} /\ owner[id] = c
  /\ inflight[id] # None /\ id \notin startedExecs
  /\ reply' = Answer(c, "payload_too_large", c)
  /\ Forget({id})
  /\ execQueue' \in Filtered(execQueue,
                           {i \in DOMAIN execQueue : IdOf[execQueue[i]] # id})
  /\ call' = [d \in Calls |-> IF call[d].pc = "queued" /\ IdOf[d] = id
                              THEN [call[d] EXCEPT !.pc = "over"] ELSE call[d]]
  /\ UNCHANGED <<clients, startedExecs, fileVars, toGuest, toHost, vmUp, exits,
                 guestVars, owner>>

\* a stdin, resize or window frame for a running exec (data plane abstracted)
SendInput(c) ==
  /\ call[c].pc = "sent" /\ c \in InputCalls /\ ~call[c].input
  /\ owner[IdOf[c]] = c /\ inflight[IdOf[c]] # None /\ IdOf[c] \in startedExecs
  /\ CanSend
  /\ toGuest' = Append(toGuest, Frame("input", IdOf[c], c))
  /\ call' = [call EXCEPT ![c].input = TRUE]
  /\ UNCHANGED <<clients, inflight, startedExecs, admission, execQueue, fileVars,
                 toHost, vmUp, exits, guestVars, owner, reply>>

\* handleStdin answers an `error` under the id of an exec in flight (stdin_disabled,
\* a chunk above maxStdinBytes, a full stdin queue once it runs) and changes nothing
\* else: the exec stays in flight and goes on, although VM.handleError takes that
\* frame for its end.
RefuseInput(c) ==
  /\ c \in InputCalls /\ ~call[c].input
  /\ owner[IdOf[c]] = c /\ inflight[IdOf[c]] # None
  /\ call' = [call EXCEPT ![c].input = TRUE]
  /\ UNCHANGED <<clients, inflight, startedExecs, admission, execQueue, fileVars,
                 toGuest, toHost, vmUp, exits, guestVars, owner, reply>>

\* Mutant: queued calls survive their client
StaysQueuedAlways(c, k) == c \in Calls

\* the queue entries disconnectClient keeps
StaysQueued(c, k) == call[c].client # k

\* disconnectClient: what the client awaits is dropped, but an exec already
\* started keeps its id reserved until the guest reports its end
DisconnectClient(k) ==
  /\ k \in clients
  /\ clients' = clients \ {k}
  /\ Forget({id \in RequestId : inflight[id] = k})
  /\ execQueue' \in Filtered(execQueue,
                           {i \in DOMAIN execQueue : StaysQueued(execQueue[i], k)})
  /\ call' = [c \in Calls |-> IF call[c].pc = "queued" /\ call[c].client = k
                              THEN [call[c] EXCEPT !.pc = "over"] ELSE call[c]]
  /\ UNCHANGED <<startedExecs, fileVars, toGuest, toHost, vmUp, exits, guestVars,
                 owner, reply>>
------------------------------------------------------------------------------
(* Host: file operations.  A delete is a read that cannot be aborted.      *)

FileOpIds == {fcall[f].id : f \in fileOps}

\* allocateFileOpId: the first id from nextFileOpId, cyclically, that neither
\* an exec nor a file operation uses
AllocateFileOpId ==
  LET free == RequestId \ (Tracked \cup FileOpIds)
      dist(id) == IF id >= nextFileOpId THEN id - nextFileOpId
                  ELSE id + MaxRequestId - nextFileOpId
  IN CHOOSE id \in free : \A other \in free : dist(id) <= dist(other)

\* nextFileOpId after id is taken
IdAfter(id) == IF id = MaxRequestId THEN 1 ELSE id + 1

\* waitForExecIdle returns; the caller resumes in a later microtask
FileIdleSeen(f) ==
  /\ fcall[f].pc = "new" /\ ExecIdle
  /\ fcall' = [fcall EXCEPT ![f].pc = "idleSeen"]
  /\ UNCHANGED <<hostVars, fileOps, activeFileOpId, nextFileOpId, toGuest, toHost,
                 vmUp, exits, guestVars, owner, reply>>

RegisterFileOp(f, kind) ==
  /\ fcall[f].pc = "idleSeen"
  /\ RequestId \ (Tracked \cup FileOpIds) # {}
  /\ LET id == AllocateFileOpId IN
     /\ nextFileOpId' = IdAfter(id)
     /\ activeFileOpId' = id
     /\ fcall' = [fcall EXCEPT ![f] = [pc |-> "request", id |-> id, kind |-> kind,
                                       outcome |-> "pending"]]
  /\ fileOps' = fileOps \cup {f}
  /\ UNCHANGED <<hostVars, toGuest, toHost, vmUp, exits, guestVars, owner, reply>>

\* the request frame; a write goes on to its data, whose last frame is modelled
SendFileRequest(f) ==
  /\ fcall[f].pc = "request" /\ CanSend
  /\ toGuest' = Append(toGuest, Frame(fcall[f].kind, fcall[f].id, f))
  /\ fcall' = [fcall EXCEPT ![f].pc = IF fcall[f].kind = "write" THEN "data"
                                      ELSE "await"]
  /\ UNCHANGED <<hostVars, fileOps, activeFileOpId, nextFileOpId, toHost, vmUp,
                 exits, guestVars, owner, reply>>

\* the eof frame is sent whether or not the operation was settled meanwhile
SendFileEof(f) ==
  /\ fcall[f].pc = "data" /\ CanSend
  /\ toGuest' = Append(toGuest, Frame("data", fcall[f].id, f))
  /\ fcall' = [fcall EXCEPT ![f].pc = "await"]
  /\ UNCHANGED <<hostVars, fileOps, activeFileOpId, nextFileOpId, toHost, vmUp,
                 exits, guestVars, owner, reply>>

\* sendControlMessage throws (abort signal, failed resume, waiter rejected by
\* failInflight) before the request is out or while a write is being closed,
\* or a read's abort signal fires while it waits
FileSendFails(f) ==
  /\ \/ fcall[f].pc \in {"request", "closing"}
     \/ fcall[f].pc = "await" /\ fcall[f].kind = "read" /\ f \in fileOps
  /\ SettleFileOp(f, "await", "failed", toGuest)
  /\ UNCHANGED <<toHost, vmUp, exits, guestVars, owner>>

\* the data of a write fails part way: the catch block still sends the eof the
\* guest waits for, and only then rejects the operation
FileDataFails(f) ==
  /\ fcall[f].pc = "data"
  /\ fcall' = [fcall EXCEPT ![f].pc = "closing"]
  /\ UNCHANGED <<hostVars, fileOps, activeFileOpId, nextFileOpId, toGuest, toHost,
                 vmUp, exits, guestVars, owner, reply>>

SendClosingEof(f) ==
  /\ fcall[f].pc = "closing" /\ CanSend
  /\ SettleFileOp(f, "await", "failed",
                  Append(toGuest, Frame("data", fcall[f].id, f)))
  /\ UNCHANGED <<toHost, vmUp, exits, guestVars, owner>>
------------------------------------------------------------------------------
(* Host: the bridge's message handler.                                     *)

Received == toHost' = Tail(toHost) /\ UNCHANGED <<vmUp, exits, guestVars, owner>>

\* exec_response
RecvExecResponse ==
  /\ toHost # <<>> /\ Head(toHost).t = "exec_response"
  /\ LET m == Head(toHost) IN
     /\ reply' = IF inflight[m.id] # None
                 THEN Answer(owner[m.id], "exec_response", m.by) ELSE reply
     /\ inflight' = [inflight EXCEPT ![m.id] = None]
     /\ startedExecs' = startedExecs \ {m.id}
  /\ UNCHANGED <<clients, admission, execQueue, call, fileVars, toGuest>>
  /\ Received

\* file_read_done, file_write_done, file_delete_done
RecvFileDone ==
  /\ toHost # <<>> /\ Head(toHost).t = "file_done"
  /\ \/ \E f \in fileOps : /\ fcall[f].id = Head(toHost).id
                           /\ SettleFileOp(f, fcall[f].pc, "done", toGuest)
     \/ /\ Head(toHost).id \notin FileOpIds
        /\ UNCHANGED <<hostVars, fileVars, toGuest, reply>>
  /\ Received

\* Mutant: an error is only matched against execs
RecvErrorExecOnly ==
  /\ toHost # <<>> /\ Head(toHost).t = "error"
  /\ LET m == Head(toHost) IN
     /\ reply' = IF m.id # 0 /\ inflight[m.id] # None
                 THEN Answer(owner[m.id], "error", m.by) ELSE reply
     /\ inflight' = [id \in RequestId |-> IF id = m.id THEN None ELSE inflight[id]]
     /\ startedExecs' = startedExecs \ {m.id}
  /\ UNCHANGED <<clients, admission, execQueue, call, fileVars, toGuest>>
  /\ Received

\* error: charged to the exec in flight under the id, else to the file
\* operation with that id, else to an orphaned exec; an error without an id is
\* charged to the active file operation
RecvError ==
  /\ toHost # <<>> /\ Head(toHost).t = "error"
  /\ LET m == Head(toHost)
         execOwned == m.id # 0 /\ inflight[m.id] # None
         target == IF m.id = 0 THEN activeFileOpId ELSE m.id
     IN \/ /\ execOwned
           /\ reply' = Answer(owner[m.id], "error", m.by)
           /\ inflight' = [inflight EXCEPT ![m.id] = None]
           /\ startedExecs' = startedExecs \ {m.id}
           /\ UNCHANGED <<clients, admission, execQueue, call, fileVars, toGuest>>
        \/ /\ ~execOwned
           /\ \E f \in fileOps : /\ fcall[f].id = target
                                 /\ SettleFileOp(f, fcall[f].pc, "failed", toGuest)
        \/ /\ ~execOwned /\ target \notin FileOpIds
           /\ startedExecs' = startedExecs \ {m.id}
           /\ UNCHANGED <<clients, inflight, admission, execQueue, call, fileVars,
                          toGuest, reply>>
  /\ Received

\* the controller's exit event: failInflight; frames the bridge had not yet
\* written survive in its queue, frames the dying VM had sent may still arrive
VmExit ==
  /\ vmUp /\ exits < MaxVmExits
  /\ vmUp' = FALSE /\ exits' = exits + 1
  /\ reply' = [c \in Calls |->
                 IF inflight[IdOf[c]] # None /\ owner[IdOf[c]] = c
                 THEN Append(reply[c], [kind |-> "sandbox_stopped", by |-> c])
                 ELSE reply[c]]
  /\ Forget(RequestId)
  /\ startedExecs' = {} /\ execQueue' = <<>>
  /\ call' = [c \in Calls |-> IF call[c].pc = "queued"
                              THEN [call[c] EXCEPT !.pc = "over"] ELSE call[c]]
  /\ fileOps' = {} /\ activeFileOpId' = None
  /\ fcall' = [f \in FileCalls |-> IF f \in fileOps
                 THEN [fcall[f] EXCEPT !.outcome = "failed"] ELSE fcall[f]]
  /\ \E n \in 0 .. Len(toGuest) : toGuest' = SubSeq(toGuest, n + 1, Len(toGuest))
  /\ \E n \in 0 .. Len(toHost) : toHost' = SubSeq(toHost, 1, n)
  /\ session' = [id \in RequestId |-> [st |-> "free", by |-> None]]
  /\ fileWriter' = None
  /\ UNCHANGED <<clients, nextFileOpId, owner, lost>>

\* the VM boots again; by then the host has read all the old one sent
VmStart ==
  /\ ~vmUp /\ toHost = <<>>
  /\ vmUp' = TRUE
  /\ UNCHANGED <<hostVars, fileVars, toGuest, toHost, exits, guestVars, owner, reply>>
------------------------------------------------------------------------------
(* Guest: sandboxd's control loop and exec workers.                        *)

Reply(t, id, by) == toHost' = Append(toHost, Frame(t, id, by))

GuestReads == vmUp /\ toGuest # <<>>

Consumed == /\ toGuest' = Tail(toGuest)
            /\ UNCHANGED <<hostVars, fileVars, vmUp, exits, owner, reply>>

\* exec_request: a new worker, or an error while the id's session is not done
GuestExec ==
  /\ GuestReads /\ fileWriter = None /\ Head(toGuest).t = "exec"
  /\ LET m == Head(toGuest) IN
     \/ /\ session[m.id].st = "free"
        /\ session' = [session EXCEPT ![m.id] = [st |-> "running", by |-> m.by]]
        /\ UNCHANGED toHost
     \/ /\ session[m.id].st # "free"
        /\ Reply("error", m.id, m.by)
        /\ UNCHANGED session
  /\ UNCHANGED <<fileWriter, lost>>
  /\ Consumed

\* stdin_data, pty_resize, exec_window: routed to the session if it exists
GuestInput ==
  /\ GuestReads /\ fileWriter = None /\ Head(toGuest).t = "input"
  /\ LET m == Head(toGuest) IN
     IF session[m.id].st # "free" THEN UNCHANGED toHost ELSE Reply("error", m.id, m.by)
  /\ UNCHANGED guestVars
  /\ Consumed

\* handleFileRead, handleFileDelete: run to their end, done or failed
GuestFileRead ==
  /\ GuestReads /\ fileWriter = None /\ Head(toGuest).t = "read"
  /\ \E t \in {"file_done", "error"} : Reply(t, Head(toGuest).id, Head(toGuest).by)
  /\ UNCHANGED guestVars
  /\ Consumed

\* handleFileWrite: if the file opens, the handler itself reads the port
GuestFileWrite ==
  /\ GuestReads /\ fileWriter = None /\ Head(toGuest).t = "write"
  /\ \/ fileWriter' = Head(toGuest) /\ UNCHANGED toHost
     \/ Reply("error", Head(toGuest).id, Head(toGuest).by) /\ UNCHANGED fileWriter
  /\ UNCHANGED <<session, lost>>
  /\ Consumed

\* handleFileWrite's loop: its own data ends it, any other frame is consumed
\* and fails it
GuestWriteLoop ==
  /\ GuestReads /\ fileWriter # None
  /\ LET m == Head(toGuest)
         own == m.t = "data" /\ m.id = fileWriter.id
     IN /\ \/ own /\ Reply("file_done", fileWriter.id, fileWriter.by)
           \/ Reply("error", fileWriter.id, fileWriter.by)
        /\ lost' = IF own THEN lost ELSE lost \cup {m.by}
  /\ fileWriter' = None
  /\ UNCHANGED session
  /\ Consumed

\* write data that reaches the main loop is an unsupported request, without id
GuestStrayData ==
  /\ GuestReads /\ fileWriter = None /\ Head(toGuest).t = "data"
  /\ Reply("error", 0, Head(toGuest).by)
  /\ UNCHANGED guestVars
  /\ Consumed

\* execWorker: exec_response or error goes out before the session is marked done
ExecWorkerEnds(id) ==
  /\ vmUp /\ session[id].st = "running"
  /\ \E t \in {"exec_response", "error"} : Reply(t, id, session[id].by)
  /\ session' = [session EXCEPT ![id].st = "replied"]
  /\ UNCHANGED <<hostVars, fileVars, toGuest, vmUp, exits, fileWriter, lost, owner, reply>>

\* markSessionDone, then cleanupFinishedExecSessions or startExecSession reap it
ExecSessionDone(id) ==
  /\ vmUp /\ session[id].st = "replied"
  /\ session' = [session EXCEPT ![id] = [st |-> "free", by |-> None]]
  /\ UNCHANGED <<hostVars, fileVars, toGuest, toHost, vmUp, exits, fileWriter, lost,
                 owner, reply>>
------------------------------------------------------------------------------
HostExec(c) ==
  \/ \E k \in Clients : HandleExec(c, k)
  \/ ResumeFailed(c) \/ Resumed(c) \/ StdinOverflow(c) \/ SendInput(c) \/ RefuseInput(c)

HostFile(f) ==
  \/ FileIdleSeen(f)
  \/ \E kind \in {"read", "write"} : RegisterFileOp(f, kind)
  \/ SendFileRequest(f) \/ SendFileEof(f) \/ FileSendFails(f)
  \/ FileDataFails(f) \/ SendClosingEof(f)

HostRecv == RecvExecResponse \/ RecvFileDone \/ RecvError

GuestLoop == \/ GuestExec \/ GuestInput \/ GuestFileRead \/ GuestFileWrite
             \/ GuestWriteLoop \/ GuestStrayData

GuestWorker(id) == ExecWorkerEnds(id) \/ ExecSessionDone(id)

Next ==
  \/ \E c \in Calls : HostExec(c)
  \/ \E k \in Clients : DisconnectClient(k)
  \/ \E f \in FileCalls : HostFile(f)
  \/ HostRecv \/ VmExit \/ VmStart
  \/ GuestLoop
  \/ \E id \in RequestId : GuestWorker(id)

\* The event loop runs every ready task, the guest drains its port and payloads
\* end.  Clients need not submit anything, and nothing starts an exited VM again
\* unless the embedder does (autoRestart is off by default, server-options.ts).
Fairness ==
  /\ \A c \in Calls : WF_vars(ResumeFailed(c) \/ Resumed(c))
  /\ \A f \in FileCalls :
       /\ WF_vars(FileIdleSeen(f))
       /\ WF_vars(\E kind \in {"read", "write"} : RegisterFileOp(f, kind))
       /\ WF_vars(SendFileRequest(f) \/ SendFileEof(f) \/ SendClosingEof(f))
  /\ WF_vars(HostRecv) /\ WF_vars(GuestLoop)
  /\ \A id \in RequestId : WF_vars(GuestWorker(id))

Spec == Init /\ [][Next]_vars
FairSpec == Spec /\ Fairness
------------------------------------------------------------------------------
(* Properties.                                                             *)

CallPcs == {"new", "resuming", "queued", "sent", "over"}
FilePcs == {"new", "idleSeen", "request", "data", "closing", "await"}

\* Every variable stays within the values the code gives it: maps of request
\* ids to clients and tokens, frames between the two ends, one state per call.
TypeOK ==
  /\ clients \subseteq Clients
  /\ inflight \in [RequestId -> Clients \cup {None}]
  /\ startedExecs \subseteq RequestId
  /\ admission \in [RequestId -> Calls \cup {None}]
  /\ execQueue \in Seq(Calls)
  /\ fileOps \subseteq FileCalls
  /\ activeFileOpId \in RequestId \cup {None}
  /\ nextFileOpId \in RequestId
  /\ call \in [Calls -> [pc : CallPcs, client : Clients \cup {None}, input : BOOLEAN]]
  /\ fcall \in [FileCalls -> [pc : FilePcs, id : RequestId \cup {None},
                              kind : {"read", "write", None},
                              outcome : {"none", "pending", "done", "failed"}]]
  /\ vmUp \in BOOLEAN /\ exits \in 0 .. MaxVmExits
  /\ session \in [RequestId -> [st : {"free", "running", "replied"},
                                by : Calls \cup {None}]]
  /\ owner \in [RequestId -> Calls \cup {None}]
  /\ lost \subseteq Calls \cup FileCalls

\* A call waits in execQueue only behind a file operation that is still
\* registered, so that settling it pumps the queue: no exec is stranded
\* (server-ops.ts pumpExecQueue, resolveFileOperation, failInflight).
QueuedBehindLiveFileOp ==
  /\ execQueue # <<>> => activeFileOpId # None
  /\ activeFileOpId # None => activeFileOpId \in FileOpIds

\* Each entry of execQueue is the current holder of its id, awaited by its own
\* client and not started: cancellation, disconnection and a VM exit leave no
\* entry behind that a later pump would start for somebody else.
QueueEntriesOwnTheirId ==
  \A i \in DOMAIN execQueue :
    LET c == execQueue[i] IN
    /\ call[c].pc = "queued" /\ owner[IdOf[c]] = c
    /\ inflight[IdOf[c]] = call[c].client /\ IdOf[c] \notin startedExecs
    /\ \A j \in DOMAIN execQueue : execQueue[j] = c => j = i

\* The queue of held execs is sound: pumped by somebody, and free of entries that
\* a cancellation, a disconnection or a VM exit should have taken out.
QueueSound == TypeOK /\ QueuedBehindLiveFileOp /\ QueueEntriesOwnTheirId

\* The host ends a call at most once, and an answer that comes from the guest was
\* caused by that very call: a late answer of an earlier, orphaned or refused
\* request under the same id is never taken for it.  What a client is told of
\* input that was refused does not count: the exec goes on behind it.
AnswersAreOwn ==
  \A c \in Calls : /\ Len(reply[c]) <= 1
                   /\ \A i \in DOMAIN reply[c] : reply[c][i].by = c

\* An id whose exec still runs in the guest stays reserved on the host, also
\* after its client has gone, so that neither a new exec nor a file operation
\* is admitted as if the guest were idle (startedExecs, waitForExecIdle).
ReservedWhileRunning ==
  exits = 0 => \A id \in RequestId : session[id].st = "running" => id \in startedExecs

\* Until the VM is replaced, the guest never runs more than maxQueuedExecs
\* payloads for this host, those whose client has gone included (execPressure).
GuestLoadBounded ==
  exits = 0 => Cardinality({id \in RequestId : session[id].st = "running"})
                 <= MaxQueuedExecs

\* Request ids keep their owner on both sides: answers go to the call that caused
\* them, and ids and places of running payloads are not given away.
IdsKeepTheirOwner == AnswersAreOwn /\ ReservedWhileRunning /\ GuestLoadBounded

\* A call that was cancelled, refused or failed, or whose client has left, is
\* never started afterwards: the frame is not sent once queued stdin has
\* overflowed (handleStdin) nor for a reused id (pendingExecAdmissions).
CancelledNeverStarts ==
  [][\A c \in Calls :
       call[c].pc # "sent" /\ call'[c].pc = "sent"
         => reply[c] = <<>> /\ call[c].client \in clients]_vars

\* A VM that does not stay down: the embedder, or autoRestart, starts it again.
VmComesBack == []<>vmUp

\* If the VM comes back, every admitted call is ended by an answer, unless its
\* client leaves or some request's frame was consumed by the data loop of a guest
\* file write.
ExecAnswered ==
  VmComesBack =>
    \A c \in Calls :
      call[c].pc = "resuming" ~> \/ reply[c] # <<>> \/ call[c].client \notin clients
                                 \/ lost # {}

\* If the VM comes back, every file operation that is registered settles, unless a
\* frame was lost.
FileOpSettles ==
  VmComesBack =>
    \A f \in FileCalls : fcall[f].outcome = "pending"
                           ~> fcall[f].outcome \in {"done", "failed"} \/ lost # {}

\* server-ops.ts:1189 "Keep file operations mutually exclusive with exec start.
\* Once the file operation completes, queued execs are started concurrently."
FileOpsExcludeExecs == ~(fileOps # {} /\ startedExecs # {})
==============================================================================
