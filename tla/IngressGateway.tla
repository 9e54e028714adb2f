--------------------------- MODULE IngressGateway ---------------------------
(***************************************************************************)
(* One request through the ingress gateway (IngressGateway.handleRequest   *)
(* and handleUpgrade in host/src/ingress.ts): the route and the hooks, the *)
(* stream to the guest's server, the upload, and the answer, read under    *)
(* timeouts and sent on to the client.  A request shares nothing with      *)
(* another but the routing table, so one is modelled.                      *)
(*                                                                         *)
(* Bodies are counted in chunks.  The client, the guest's server and the   *)
(* hooks are external; the stream is TcpForward's, seen from its user.     *)
(***************************************************************************)
EXTENDS Integers, Sequences

CONSTANTS Setups    \* the requests a behaviour may be about

ASSUME GatewayAssumption ==
    \A s \in Setups : /\ s.kind \in {"plain", "upgrade"}
                      /\ s.framing \in {"fixed", "chunked", "toEnd", "none"}
                      /\ s.hook \in {"none", "stream", "buffer"}
                      /\ {s.upload, s.length, s.limit} \subseteq Nat

VARIABLES
    setup,      \* the request: its kind and upload, the answer's framing and
                \* length, onResponse and the limit of a buffered answer
    phase,      \* where the handler is
    client,     \* the client's connection: here or gone
    up,         \* the stream to the guest
    upload,     \* chunks of the request's body that are still to be written
    memory,     \* the answer's body in memory: none, buffered or replaced
    body,       \* chunks of a buffered body
    got         \* what the client received

gatewayVars == <<setup, phase, client, up, upload, memory, body, got>>

Plain == setup.kind = "plain"

\* What the guest's server answers: a head, the body, and the last chunk of a
\* chunked body.  Each is one item of the stream.
GuestAnswer == <<"head">> \o [i \in 1 .. setup.length |-> "chunk"]
                     \o (IF setup.framing = "chunked" THEN <<"last">> ELSE <<>>)
Whole == <<"head">> \o [i \in 1 .. setup.length |-> "chunk"] \o <<"end">>

\* Fields of the stream: items `sent` by the guest and `read` by the handler,
\* and whether the handler's `upstream` holds it.
NoStream == [st |-> "none", sent |-> 0, read |-> 0, held |-> FALSE]
Unread == IF up.st \in {"open", "ended"} THEN up.sent - up.read ELSE 0

GatewayInit ==
    /\ setup \in Setups
    /\ phase = "start"
    /\ client = "here"
    /\ up = NoStream
    /\ upload = setup.upload
    /\ memory = "none"
    /\ body = 0
    /\ got = <<>>

-----------------------------------------------------------------------------
(* Ends of the handler. *)

\* What reaches the client, if it is still there.
Send(items) == got' = IF client = "here" THEN got \o items ELSE got

\* The finally clause of handleRequest destroys the stream it knows of;
\* handleUpgrade has none.
Released == IF Plain /\ up.held THEN [up EXCEPT !.st = "dead"] ELSE up

End(items) ==
    /\ phase' = "over"
    /\ up' = Released
    /\ Send(items)
    /\ UNCHANGED <<setup, client, upload, memory, body>>

\* a bug: a failure after the head ends the answer instead of cutting it
CatchEnds == IF got = <<>> THEN <<"502", "end">> ELSE <<"end">>

\* The catch clause: an answer that has begun is cut, otherwise it is 502.
\* An upgraded socket gets its 502 in any case, and is then destroyed.
Catch == IF Plain /\ got # <<>> THEN <<"cut">> ELSE <<"502", "end">>
Fail == End(Catch)

\* The body iterators: what is left to read, and when they are through.  A
\* body without framing ends with the stream.
BodyComplete ==
    IF setup.framing = "toEnd" THEN Unread = 0 /\ up.st = "ended" ELSE up.read = Len(GuestAnswer)
BodyBroken ==
    /\ ~BodyComplete /\ Unread = 0
    /\ up.st \in {"ended", "dead"}

-----------------------------------------------------------------------------
(* handleRequest and handleUpgrade, up to the answer's head. *)

\* Requests that never reach a hook: no route matches (IngressListeners has the
\* table), or the headers of the one kind come by the way of the other.
Refuse(code) ==
    /\ phase = "start"
    /\ End(<<code, "end">>)

Route ==
    /\ phase = "start"
    /\ phase' = "policy"
    /\ UNCHANGED <<setup, client, up, upload, memory, body, got>>

\* buildUpstreamHookRequest: isAllowed, onRequest and the checks of its patch.
Policy(verdict) ==
    /\ phase = "policy"
    /\ CASE verdict = "allowed" -> phase' = "opening" /\ UNCHANGED <<setup, client, up, upload, memory, body, got>>
         [] verdict = "blocked" -> End(<<"403", "end">>)
         [] verdict = "throws"  -> Fail

\* openUpstreamAndWriteHead: the caller's `upstream` is set when it returns.
Opened ==
    /\ phase = "opening"
    /\ phase' = "writing"
    /\ up' = [up EXCEPT !.st = "open"]
    /\ UNCHANGED <<setup, client, upload, memory, body, got>>

OpenFails == phase = "opening" /\ Fail

HeadWritten ==
    /\ phase = "writing" /\ up.st # "dead"
    /\ up' = [up EXCEPT !.held = TRUE]
    /\ phase' = IF upload > 0 THEN "uploading" ELSE "awaiting"
    /\ UNCHANGED <<setup, client, upload, memory, body, got>>

UploadChunk ==
    /\ phase = "uploading" /\ client = "here" /\ up.st # "dead"
    /\ upload' = upload - 1
    /\ phase' = IF upload' = 0 THEN "awaiting" ELSE phase
    /\ UNCHANGED <<setup, client, up, memory, body, got>>

\* A write to a destroyed stream, or an upload its client has aborted.
WriteFails ==
    /\ \/ phase \in {"writing", "uploading"} /\ up.st = "dead"
       \/ phase = "uploading" /\ client = "gone"
    /\ Fail

ReadHead ==
    /\ phase = "awaiting" /\ Unread > 0
    /\ up' = [up EXCEPT !.read = 1]
    /\ phase' = IF setup.hook = "buffer" THEN "buffering" ELSE "hook"
    /\ memory' = IF setup.hook = "buffer" THEN "buffered" ELSE "none"
    /\ UNCHANGED <<setup, client, upload, body, got>>

HeadMissing ==
    /\ phase = "awaiting" /\ Unread = 0 /\ up.st \in {"ended", "dead"}
    /\ Fail

\* withTimeout: the stream is destroyed and the handler goes on at once.
HeaderTimeout ==
    /\ phase = "awaiting" /\ Unread = 0 /\ up.st = "open"
    /\ phase' = "over"
    /\ up' = [up EXCEPT !.st = "dead"]
    /\ Send(Catch)
    /\ UNCHANGED <<setup, client, upload, memory, body>>

-----------------------------------------------------------------------------
(* The answer of a plain request. *)

\* bufferAsyncIterable
BufferChunk ==
    /\ phase = "buffering" /\ Unread > 0
    /\ up' = [up EXCEPT !.read = @ + 1]
    /\ body' = IF GuestAnswer[up.read + 1] = "chunk" THEN body + 1 ELSE body
    /\ UNCHANGED <<setup, phase, client, upload, memory, got>>

BufferOverflows == phase = "buffering" /\ body > setup.limit /\ Fail

BufferDone ==
    /\ phase = "buffering" /\ BodyComplete /\ body <= setup.limit
    /\ phase' = "hook"
    /\ UNCHANGED <<setup, client, up, upload, memory, body, got>>

\* onResponse keeps the body or replaces it with one chunk of its own.
Hooked(replaces) ==
    /\ Plain /\ phase = "hook"
    /\ replaces => setup.hook # "none"
    /\ phase' = "answering"
    /\ memory' = IF replaces THEN "replaced" ELSE memory
    /\ UNCHANGED <<setup, client, up, upload, body, got>>

HookFails == phase = "hook" /\ setup.hook # "none" /\ Fail

\* A body in memory is written whole, behind its head.
AnswerFromMemory ==
    /\ phase = "answering" /\ memory # "none" /\ client = "here"
    /\ End(<<"head">> \o (IF memory = "replaced" THEN <<"other">> ELSE [i \in 1 .. body |-> "chunk"]) \o <<"end">>)

WriteResponseHead ==
    /\ phase = "answering" /\ memory = "none"
    /\ phase' = "relaying"
    /\ Send(<<"head">>)
    /\ UNCHANGED <<setup, client, up, upload, memory, body>>

RelayChunk ==
    /\ phase = "relaying" /\ Unread > 0 /\ client = "here"
    /\ up' = [up EXCEPT !.read = @ + 1]
    /\ Send(IF GuestAnswer[up.read + 1] = "chunk" THEN <<"chunk">> ELSE <<>>)
    /\ UNCHANGED <<setup, phase, client, upload, memory, body>>

RelayDone == phase = "relaying" /\ BodyComplete /\ End(<<"end">>)

\* A write to a client that is gone, or a body that breaks off.
AnswerFails ==
    /\ \/ phase \in {"buffering", "relaying"} /\ BodyBroken
       \/ phase \in {"answering", "relaying"} /\ client = "gone" /\ (memory # "none" \/ Unread > 0)
    /\ Fail

\* a bug: the timeout leaves the stream alone
TimeoutKeepsStream == UNCHANGED up

\* withIterableReadTimeout: the pause between two chunks was too long.  The
\* handler then waits for iterator.return(), which waits for the pending read,
\* which the destroyed stream ends.
TimeoutStream == up' = [up EXCEPT !.st = "dead"]
BodyTimeout ==
    /\ phase \in {"buffering", "relaying"}
    /\ Unread = 0 /\ up.st = "open" /\ ~BodyComplete
    /\ phase' = "unwinding"
    /\ TimeoutStream
    /\ UNCHANGED <<setup, client, upload, memory, body, got>>

Unwound ==
    /\ phase = "unwinding"
    /\ up.st \in {"ended", "dead"} \/ Unread > 0
    /\ Fail

-----------------------------------------------------------------------------
(* The answer of an upgrade: the tunnel, or a plain answer. *)

\* The head and what was read with it go to the client; a 101 becomes a tunnel.
Upgraded(switches) ==
    /\ ~Plain /\ phase = "hook"
    /\ Send(IF switches THEN <<"head">> ELSE <<"head", "end">>)
    /\ phase' = IF switches THEN "tunnel" ELSE "over"
    /\ up' = IF switches THEN up ELSE [up EXCEPT !.st = "dead"]
    /\ UNCHANGED <<setup, client, upload, memory, body>>

\* destroyBoth, when either end closes after the tunnel has begun.
TunnelEnds ==
    /\ phase = "tunnel"
    /\ up.st = "dead"
    /\ phase' = "over"
    /\ client' = "gone"
    /\ UNCHANGED <<setup, up, upload, memory, body, got>>

-----------------------------------------------------------------------------
(* The client and the guest's server. *)

\* onClientDisconnected destroys the stream the handler holds.  An upgraded
\* socket has a listener for its end only once the tunnel has begun; a reset
\* before that is an error nobody handles, and no state of the gateway.
ClientLeaves ==
    /\ client = "here" /\ phase # "over"
    /\ Plain \/ phase = "tunnel"
    /\ client' = "gone"
    /\ up' = IF up.held THEN [up EXCEPT !.st = "dead"] ELSE up
    /\ UNCHANGED <<setup, phase, upload, memory, body, got>>

\* An answer may come before the request is complete.
GuestSends ==
    /\ up.st = "open" /\ up.sent < Len(GuestAnswer)
    /\ up' = [up EXCEPT !.sent = @ + 1]
    /\ UNCHANGED <<setup, phase, client, upload, memory, body, got>>

GuestEnds ==
    /\ up.st = "open"
    /\ up' = [up EXCEPT !.st = "ended"]
    /\ UNCHANGED <<setup, phase, client, upload, memory, body, got>>

GuestCloses ==
    /\ up.st \in {"open", "ended"}
    /\ up' = [up EXCEPT !.st = "dead"]
    /\ UNCHANGED <<setup, phase, client, upload, memory, body, got>>

Handler ==
    \/ \E code \in {"404", "426"} : Refuse(code)
    \/ Route
    \/ \E v \in {"allowed", "blocked", "throws"} : Policy(v)
    \/ Opened \/ OpenFails
    \/ ReadHead \/ HeadMissing \/ HeaderTimeout
    \/ BufferChunk \/ BufferOverflows \/ BufferDone
    \/ (\E b \in BOOLEAN : Hooked(b)) \/ HookFails
    \/ AnswerFromMemory \/ WriteResponseHead \/ RelayChunk \/ RelayDone \/ AnswerFails
    \/ BodyTimeout \/ Unwound
    \/ (\E b \in BOOLEAN : Upgraded(b)) \/ TunnelEnds

Writes == HeadWritten \/ UploadChunk \/ WriteFails

GatewayNext == Handler \/ Writes \/ ClientLeaves \/ GuestSends \/ GuestEnds \/ GuestCloses

\* The handler's own steps happen: the hooks settle, the timers fire and the
\* client takes what is written to it or leaves.  Writes to the guest wait for
\* the guest and have no timeout.
GatewaySpec == GatewayInit /\ [][GatewayNext]_gatewayVars /\ WF_gatewayVars(Handler) /\ WF_gatewayVars(WriteFails)

-----------------------------------------------------------------------------
(* Properties *)

\* A client that sees a complete answer has the guest's whole body, the hook's
\* or the gateway's own, never part of one or two of them joined: what fails
\* half-way is cut ("writing a gateway body here can corrupt fixed-length
\* responses", handleRequest).  A body without framing has no end to miss.
CompleteAnswersAreWhole ==
    Plain /\ setup.framing # "toEnd" /\ got # <<>> /\ got[Len(got)] = "end" /\ got[1] = "head"
        => got \in {Whole, <<"head", "other", "end">>}

\* Once its request is written a handler ends and lets go of the stream,
\* whatever the guest does or leaves undone.
AnsweredOrGivenUp == (Plain /\ phase = "awaiting") ~> (phase = "over" /\ up.st = "dead")
=============================================================================
