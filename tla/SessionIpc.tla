----------------------------- MODULE SessionIpc -----------------------------
(***************************************************************************)
(* The attach socket of a session (SessionIpcServer and connectToSession   *)
(* in host/src/session-registry.ts): external clients start execs in a     *)
(* running VM under ids of their own choice, which the server translates   *)
(* into internal ids of the sandbox, and the answers back.                 *)
(*                                                                         *)
(* The sandbox (ExecScheduler) is seen from its LocalSandboxClient: it     *)
(* calls back in the step in which it sends.  Framing is left out.         *)
(***************************************************************************)
EXTENDS Integers, FiniteSets, Functions

CONSTANTS
    Clients,    \* attach clients, one socket each
    Externals,  \* the request ids they use
    MaxExecs    \* bound on the execs of a behaviour, far below the wrap of
                \* nextInternalId at INTERNAL_ID_FLOOR

VARIABLES
    socket,     \* each client's socket: open, destroyed and not yet cleaned up,
                \* or gone with the session
    connection, \* whether the client's SandboxConnection is open
    e2i, i2e,   \* externalToInternal and internalToExternal of each client
    allocated,  \* allocatedInternalIds
    issued,     \* internal ids handed out so far, the last one included
    execs,      \* the sandbox: its running execs and the client that owns each
    snapshot,   \* the snapshot under way: the client that asked, if any, or
                \* "done" when it has closed the VM
    call,       \* history: the exec each client's request id stands for
    heard       \* the last frame a client received

vars == <<socket, connection, e2i, i2e, allocated, issued, execs, snapshot, call, heard>>

Empty == <<>>
None == "none"
Nothing == [client |-> None, external |-> 0, exec |-> 0, kind |-> None]
With(f, x, v) == [y \in DOMAIN f \cup {x} |-> IF y = x THEN v ELSE f[y]]
Without(f, x) == Restrict(f, DOMAIN f \ {x})

Init ==
    /\ socket = [c \in Clients |-> "open"]
    /\ connection = [c \in Clients |-> FALSE]
    /\ e2i = [c \in Clients |-> Empty]
    /\ i2e = [c \in Clients |-> Empty]
    /\ allocated = {}
    /\ issued = 0
    /\ execs = Empty
    /\ snapshot = None
    /\ call = [c \in Clients |-> [e \in Externals |-> 0]]
    /\ heard = Nothing

\* What reaches a client: a frame about one of its requests.
Deliver(c, e, i, kind) ==
    heard' = IF socket[c] = "open" THEN [client |-> c, external |-> e, exec |-> i, kind |-> kind] ELSE heard

\* a bug: the way back survives a terminal answer
ForgetsOneWay(c, e, i) ==
    /\ e2i' = [e2i EXCEPT ![c] = Without(@, e)]
    /\ allocated' = allocated \ {i}
    /\ UNCHANGED i2e

\* A terminal answer ends the translation and frees the internal id.
Forget(c, e, i) ==
    /\ e2i' = [e2i EXCEPT ![c] = Without(@, e)]
    /\ i2e' = [i2e EXCEPT ![c] = Without(@, i)]
    /\ allocated' = allocated \ {i}

-----------------------------------------------------------------------------
(* Requests of a client. *)

\* handleExec: the sandbox admits the exec, or refuses it in the same call.
Exec(c, e, admitted) ==
    LET i == issued + 1 IN
    /\ socket[c] = "open" /\ snapshot # "done" /\ e \notin DOMAIN e2i[c] /\ issued < MaxExecs
    /\ issued' = i
    /\ connection' = [connection EXCEPT ![c] = TRUE]
    /\ IF admitted
       THEN /\ e2i' = [e2i EXCEPT ![c] = With(@, e, i)]
            /\ i2e' = [i2e EXCEPT ![c] = With(@, i, e)]
            /\ allocated' = allocated \cup {i}
            /\ execs' = With(execs, i, c)
            /\ call' = [call EXCEPT ![c][e] = i]
            /\ UNCHANGED heard
       ELSE /\ Deliver(c, e, i, "refused")
            /\ call' = [call EXCEPT ![c][e] = i]
            /\ UNCHANGED <<e2i, i2e, allocated, execs>>
    /\ UNCHANGED <<socket, snapshot>>

\* Stdin, resize and window: the sandbox may answer a running exec's message
\* with an error of the exec's id (stdin above its limit, stdin not enabled),
\* while the exec goes on.  The translation takes it for the exec's end.  Where
\* the sandbox takes the message nothing here changes.
ForwardRefused(c, e) ==
    /\ socket[c] = "open" /\ e \in DOMAIN e2i[c]
    /\ Deliver(c, e, e2i[c][e], "error")
    /\ Forget(c, e, e2i[c][e])
    /\ UNCHANGED <<socket, connection, issued, execs, snapshot, call>>

\* handleSnapshot: checkpointInternal closes the VM.
Snapshot(c) ==
    /\ socket[c] = "open" /\ snapshot = None
    /\ snapshot' = c
    /\ UNCHANGED <<socket, connection, e2i, i2e, allocated, issued, execs, call, heard>>

-----------------------------------------------------------------------------
(* Messages of the sandbox, to the connection that owns the exec. *)

Running(i) == i \in DOMAIN execs
Translated(i) == LET c == execs[i] IN c # None /\ i \in DOMAIN i2e[c]

\* An exec's output and its advisory errors leave the translation alone.
Output(i) ==
    /\ Running(i) /\ Translated(i)
    /\ Deliver(execs[i], i2e[execs[i]][i], i, "output")
    /\ UNCHANGED <<socket, connection, e2i, i2e, allocated, issued, execs, snapshot, call>>

\* exec_response, or the error that ends the exec.
Ends(i) ==
    /\ Running(i)
    /\ execs' = Without(execs, i)
    /\ IF Translated(i)
       THEN LET c == execs[i] IN
            /\ Deliver(c, i2e[c][i], i, "response")
            /\ Forget(c, i2e[c][i], i)
       ELSE UNCHANGED <<e2i, i2e, allocated, heard>>
    /\ UNCHANGED <<socket, connection, issued, snapshot, call>>

\* closeAllClients: every connection's onClose destroys its socket.  A
\* snapshot is answered after it, if the socket of its client is still there.
CloseVm ==
    /\ snapshot \in Clients
    /\ socket' = [c \in Clients |-> IF connection[c] THEN "destroyed" ELSE socket[c]]
    /\ connection' = [c \in Clients |-> FALSE]
    /\ execs' = Empty
    /\ snapshot' = "done"
    /\ heard' = IF socket'[snapshot] = "open"
                THEN [client |-> snapshot, external |-> 0, exec |-> 0, kind |-> "snapshot"] ELSE heard
    /\ UNCHANGED <<e2i, i2e, allocated, issued, call>>

-----------------------------------------------------------------------------
(* The socket. *)

Disconnect(c) ==
    /\ socket[c] = "open"
    /\ socket' = [socket EXCEPT ![c] = "destroyed"]
    /\ UNCHANGED <<connection, e2i, i2e, allocated, issued, execs, snapshot, call, heard>>

\* The cleanup of handleConnection.  The sandbox keeps the client's execs
\* without an owner.  The client may attach again with a new socket, as long as
\* the session is there.
Cleanup(c) ==
    /\ socket[c] = "destroyed"
    /\ socket' = [socket EXCEPT ![c] = IF snapshot = "done" THEN "gone" ELSE "open"]
    /\ connection' = [connection EXCEPT ![c] = FALSE]
    /\ e2i' = [e2i EXCEPT ![c] = Empty]
    /\ i2e' = [i2e EXCEPT ![c] = Empty]
    /\ allocated' = allocated \ DOMAIN i2e[c]
    /\ execs' = [i \in DOMAIN execs |-> IF execs[i] = c THEN None ELSE execs[i]]
    /\ call' = [call EXCEPT ![c] = [e \in Externals |-> 0]]
    /\ UNCHANGED <<issued, snapshot, heard>>

Next ==
    \/ \E c \in Clients, e \in Externals, b \in BOOLEAN : Exec(c, e, b)
    \/ \E c \in Clients, e \in Externals : ForwardRefused(c, e)
    \/ \E c \in Clients : Snapshot(c) \/ Disconnect(c) \/ Cleanup(c)
    \/ \E i \in 1 .. MaxExecs : Output(i) \/ Ends(i)
    \/ CloseVm

Spec == Init /\ [][Next]_vars

-----------------------------------------------------------------------------
(* Properties *)

\* A client hears under a request id only of the exec it last started with it:
\* output and answers of an exec whose translation has ended, by an error the
\* exec survived or by a reconnection, never pass for those of a later exec
\* with the same id.
FramesReachTheirCall ==
    [][heard' # heard /\ heard'.kind \in {"output", "response", "error"}
           => call[heard'.client][heard'.external] = heard'.exec]_vars
=============================================================================
