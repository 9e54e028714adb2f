---------------------------- MODULE HttpExchange ----------------------------
(***************************************************************************)
(* HTTP requests of the guest that the host performs for it                *)
(* (host/src/qemu/http.ts): one exchange per TCP flow, the three ways a    *)
(* request body gets upstream, the semaphore that limits exchanges, the    *)
(* pause of QEMU's socket while an upload is ahead of its upstream, and    *)
(* the generations of the transport (host/src/qemu/net.ts,                 *)
(* host/src/http/utils.ts): QEMU's socket goes away with a restart and a   *)
(* new one is attached when the operations of the old one have settled.    *)
(*                                                                         *)
(* An action is the code from one await to the next.  Bodies are counted   *)
(* in units; heads, hooks, policies and addresses are outcomes.  The guest,*)
(* undici with its upstream and the embedder's hooks are external.         *)
(* WebSockets, buffered responses and 100-continue are left out.           *)
(*                                                                         *)
(* With fewer slots than uploads the code has a deadlock, and so has the   *)
(* model: QEMU's socket is paused for an upload that waits for a slot      *)
(* while those who hold one wait for the guest's acknowledgements.         *)
(***************************************************************************)
EXTENDS Integers, Sequences, FiniteSets, FiniteSetsExt, Functions

CONSTANTS
    Flows,          \* the guest's TCP flows that speak HTTP
    Setups,         \* the small configurations a behaviour starts from
    PauseHigh,      \* HTTP_STREAMING_RX_PAUSE_HIGH_WATER_BYTES, in units
    PauseLow,       \* HTTP_STREAMING_RX_PAUSE_LOW_WATER_BYTES, in units
    StreamMark,     \* HTTP_STREAMING_REQUEST_BODY_HIGH_WATER_BYTES, in units
    MaxPipeline,    \* MAX_HTTP_PIPELINE_BYTES, in units
    MaxRedirects,   \* MAX_HTTP_REDIRECTS
    TxMark,         \* unacknowledged units at which the stack pauses a flow
    MaxBatch        \* bound: frames of the guest in one read of the socket

ExchangeAssumption ==
    /\ {PauseHigh, StreamMark, TxMark, MaxBatch} \subseteq Nat \ {0}
    /\ PauseLow \in 0 .. PauseHigh - 1 /\ {MaxPipeline, MaxRedirects} \subseteq Nat
    /\ \A s \in Setups :
         /\ s.limit \in Nat \ {0} /\ s.detaches \in Nat /\ s.precheck \in BOOLEAN
         /\ s.mode \in [Flows -> {"length", "chunked"}]
         /\ {s.length, s.extra, s.answer} \subseteq [Flows -> Nat]

VARIABLES
    setup,      \* the configuration of this behaviour
    link,       \* backend.socket: is QEMU's socket attached
    channels,   \* the HostHttpLifetime: "open", "closing", "settled", "failed"
    gen,        \* how often a socket has been attached again
    batch,      \* frames left of the read that is being processed
    rxPaused,   \* qemuRxPausedForHttpStreaming
    active,     \* httpConcurrency: slots taken
    waiters,    \* httpConcurrency: exchanges waiting for one
    ex          \* the exchange of each flow

linkVars == <<link, channels, gen>>
vars == <<setup, linkVars, batch, rxPaused, active, waiters, ex>>

Mode(f) == setup.mode[f]
Length(f) == setup.length[f]

\* An operation runs in these phases, from the hooks to the last write.
Operating == {"hooks", "fetch", "write", "flow"}

\* TcpSession and HttpSession of a flow with its streamingBody (`on`), the
\* ReadableStream behind it (`body`, `queue`) and what its two ends have seen.
\* `phase` is where the handler is suspended, "idle" if it is not.
NewExchange(f) ==
    [conn |-> "new", left |-> Length(f) + setup.extra[f], phase |-> "idle", closed |-> FALSE, buffer |-> 0,
     on |-> FALSE, remaining |-> 0, live |-> FALSE, drop |-> FALSE, pending |-> 0, closing |-> FALSE, piped |-> 0,
     body |-> "none", queue |-> 0, got |-> 0, aborted |-> FALSE, opGen |-> 0, hops |-> 0, toCome |-> setup.answer[f],
     unacked |-> 0, answer |-> "none", finishes |-> 0, late |-> FALSE]

Init ==
    /\ setup \in Setups
    /\ link = "up" /\ channels = "open" /\ gen = 0
    /\ batch = 0 /\ rxPaused = FALSE
    /\ active = 0 /\ waiters = <<>>
    /\ ex = [f \in Flows |-> NewExchange(f)]

-----------------------------------------------------------------------------
(* Back-pressure to QEMU *)

\* getMaxHttpStreamingPendingBytes looks at the sessions the backend lists
\* that still point to their exchange.
MaxPending(exs) == Max({0} \cup {exs[f].pending : f \in {g \in Flows : exs[g].conn = "open"}})

\* updateQemuRxPauseState; without a socket there is nothing to pause.
RxPause(exs) ==
    IF link # "up" THEN rxPaused
    ELSE MaxPending(exs) >= PauseHigh \/ (rxPaused /\ MaxPending(exs) > PauseLow)

\* A step of f that ends in updateQemuRxPauseState.
Update(f, x) == /\ ex' = [ex EXCEPT ![f] = x]
                /\ rxPaused' = RxPause(ex')

-----------------------------------------------------------------------------
(* The body of a streamed upload *)

\* Mutant: the stream is closed as soon as the last byte has come in.
DrainEarly(x) ==
    LET n == IF x.live THEN Min({StreamMark - x.queue, x.pending}) ELSE 0
    IN  [x EXCEPT !.pending = @ - n, !.queue = @ + n, !.closing = @ /\ ~x.live,
                  !.body = IF x.live /\ x.closing THEN "closed" ELSE @]

\* drain(): what fits goes into the stream, which is closed behind the last byte.
Drain(x) ==
    LET n == IF x.live THEN Min({StreamMark - x.queue, x.pending}) ELSE 0
        last == x.live /\ x.closing /\ n = x.pending
    IN  [x EXCEPT !.pending = @ - n, !.queue = @ + n, !.closing = @ /\ ~last,
                  !.body = IF last THEN "closed" ELSE @]

\* n units arrive while streamingBody is set.
Stream(f, x, n) ==
    LET take == Min({n, x.remaining})
        x1 == [x EXCEPT !.remaining = @ - take, !.pending = IF x.drop THEN 0 ELSE @ + take, !.piped = @ + n - take]
    IN  IF x1.remaining = 0 /\ ~x.drop /\ take > 0 THEN Drain([x1 EXCEPT !.closing = TRUE]) ELSE Drain(x1)

\* cancel() of the ReadableStream: what is still to come is thrown away.
CancelBody(x) == [x EXCEPT !.drop = x.remaining > 0, !.live = FALSE, !.pending = 0, !.queue = 0, !.closing = FALSE,
                           !.body = "cancelled"]

\* There is something left that undici may read or cancel.
Readable(x) == x.body = "open" \/ (x.body = "closed" /\ x.queue > 0)

\* cleanupStreamingBodyState; an error also fails what undici has not read.
Cleanup(x, err) ==
    LET fails == err /\ x.live /\ Readable(x)
    IN  IF ~x.on THEN x
        ELSE [x EXCEPT !.on = FALSE, !.live = FALSE, !.pending = 0, !.closing = FALSE,
                       !.queue = IF fails THEN 0 ELSE @, !.body = IF fails THEN "errored" ELSE @]

-----------------------------------------------------------------------------
(* What the guest is told *)

\* A write to the stack; without a session for the key it is dropped.
Say(x, what) ==
    IF x.conn # "open" THEN x
    ELSE [x EXCEPT !.answer = IF what = "error" /\ @ # "none" THEN "broken" ELSE what,
                   !.late = @ \/ x.finishes > 0]

\* options.finish().
Finish(x) == [x EXCEPT !.closed = TRUE, !.finishes = IF x.conn = "open" THEN @ + 1 ELSE @]

FinishOnce(x) == IF x.closed THEN x ELSE Finish(x)

\* The catch and finally blocks around an operation, by the way the body went:
\* `err` is "none", "error", or "guest" for an error nobody is told of.
SettleStream(x, err) ==
    LET x1 == Cleanup(x, err # "none")
        x2 == IF err = "error" /\ ~x.closed THEN Say(x1, "error") ELSE x1
    IN  FinishOnce(Cleanup(x2, FALSE))

SettleBuffered(x, err) == FinishOnce(IF err = "error" THEN Say(x, "error") ELSE x)

\* Chunked bodies: the inner finally ends the flow before the outer catch of
\* the handler answers and ends it again.
SettleChunked(x, err) ==
    LET x1 == IF err = "error" THEN Say(Finish(x), "error") ELSE Finish(x)
    IN  IF err = "none" THEN x1 ELSE Finish(x1)

Settled(f, x, err) ==
    LET y == CASE Mode(f) = "chunked" -> SettleChunked(x, err)
               [] Mode(f) = "length" /\ x.on -> SettleStream(x, err)
               [] Mode(f) = "length" /\ ~x.on -> SettleBuffered(x, err)
    IN  [y EXCEPT !.phase = "over", !.aborted = FALSE]

\* The outer catch of handleHttpDataWithWriter, before any operation.
Refused(x) == [Finish(Cleanup(Say(x, "error"), TRUE)) EXCEPT !.phase = "over"]

-----------------------------------------------------------------------------
(* The semaphore *)

\* acquire()
Acquire(f, x) ==
    IF active < setup.limit
    THEN /\ active' = active + 1 /\ UNCHANGED waiters
         /\ Update(f, [x EXCEPT !.phase = "granted"])
    ELSE /\ waiters' = Append(waiters, f) /\ UNCHANGED active
         /\ Update(f, [x EXCEPT !.phase = "slot"])

\* The operation of f ends: release() frees its slot and wakes the next waiter.
End(f, x, err) ==
    /\ active' = active - 1
    /\ IF waiters = <<>>
       THEN /\ Update(f, Settled(f, x, err)) /\ UNCHANGED waiters
       ELSE /\ waiters' = Tail(waiters)
            /\ ex' = [ex EXCEPT ![f] = Settled(f, x, err), ![Head(waiters)].phase = "woken"]
            /\ rxPaused' = RxPause(ex')

\* The microtask behind the release: the waiter counts itself, and does not look
\* whether another exchange took the slot in between.
Woken == {f \in Flows : ex[f].phase = "woken"}

TakesSlot(f) ==
    /\ f \in Woken
    /\ active' = active + 1
    /\ ex' = [ex EXCEPT ![f].phase = "granted"]
    /\ UNCHANGED <<setup, linkVars, batch, rxPaused, waiters>>

-----------------------------------------------------------------------------
(* The guest's data: handleHttpDataWithWriter *)

\* A frame of the guest is read: the frames of a read that has begun are
\* processed even if its socket is paused in the middle.  Microtasks go first.
FrameRead ==
    /\ Woken = {}
    /\ link = "up" /\ (batch > 0 \/ ~rxPaused)
    /\ batch' \in {0, (IF batch > 0 THEN batch ELSE MaxBatch) - 1}

\* abortTcpSession: more than the pipeline cap behind the body.
OverPipeline(x) ==
    IF x.piped <= MaxPipeline THEN x
    ELSE [x EXCEPT !.closed = TRUE, !.conn = "gone", !.unacked = 0, !.phase = IF @ = "flow" THEN "write" ELSE @]

\* The head is known and b units of the body are buffered.
Decide(f, x) ==
    LET b == x.buffer IN
    CASE b > Length(f) + MaxPipeline ->
           Update(f, Refused(x)) /\ UNCHANGED <<active, waiters>>
      [] b < Length(f) /\ Mode(f) = "chunked" ->
           Update(f, [x EXCEPT !.phase = "idle"]) /\ UNCHANGED <<active, waiters>>
      [] b < Length(f) /\ Mode(f) = "length" ->
           Acquire(f, Stream(f, [x EXCEPT !.on = TRUE, !.live = TRUE, !.body = "open", !.remaining = Length(f),
                                          !.buffer = 0], b))
      [] OTHER ->
           Acquire(f, [x EXCEPT !.buffer = 0])

\* The first frame of a flow: the head with k units of the body behind it.
Connect(f, k) ==
    /\ FrameRead
    /\ ex[f].conn = "new" /\ k <= ex[f].left
    /\ LET x == [ex[f] EXCEPT !.conn = "open", !.left = @ - k, !.buffer = k]
       IN  IF setup.precheck
           THEN Update(f, [x EXCEPT !.phase = "policy"]) /\ UNCHANGED <<active, waiters>>
           ELSE Decide(f, x)
    /\ UNCHANGED <<setup, linkVars>>

\* A frame with one unit of the body, or of what follows it.
Receive(f) ==
    /\ FrameRead
    /\ ex[f].conn = "open" /\ ex[f].left > 0
    /\ LET x == [ex[f] EXCEPT !.left = @ - 1]
       IN  IF x.on /\ ~x.closed
           THEN Update(f, OverPipeline(Stream(f, x, 1))) /\ UNCHANGED <<active, waiters>>
           ELSE IF x.closed \/ x.phase # "idle"
           THEN Update(f, [x EXCEPT !.buffer = IF x.closed THEN @ ELSE @ + 1]) /\ UNCHANGED <<active, waiters>>
           ELSE Decide(f, [x EXCEPT !.buffer = @ + 1])
    /\ UNCHANGED <<setup, linkVars>>

\* ensureRequestHeadPolicies settles; the session is not looked at again.
PolicySettles(f) ==
    /\ batch = 0 /\ ex[f].phase = "policy"
    /\ \/ Decide(f, [ex[f] EXCEPT !.phase = "idle"])
       \/ Update(f, Refused(ex[f])) /\ UNCHANGED <<active, waiters>>
    /\ UNCHANGED <<setup, linkVars, batch>>

\* handleTcpClose: the guest closes or resets the flow.
GuestCloses(f) ==
    /\ FrameRead
    /\ ex[f].conn = "open"
    /\ LET x == [ex[f] EXCEPT !.closed = TRUE, !.aborted = ex[f].phase \in Operating, !.unacked = 0,
                              !.phase = IF @ = "flow" THEN "write" ELSE @]
           x1 == IF x.on /\ x.remaining > 0
                 THEN [x EXCEPT !.live = FALSE, !.queue = IF x.live THEN 0 ELSE @,
                                !.body = IF x.live THEN "errored" ELSE @]
                 ELSE x
       IN  /\ rxPaused' = IF x.on /\ x.remaining > 0 THEN RxPause([ex EXCEPT ![f] = x1]) ELSE rxPaused
           /\ ex' = [ex EXCEPT ![f] = [x1 EXCEPT !.conn = "gone"]]
    /\ UNCHANGED <<setup, linkVars, active, waiters>>

\* An acknowledgement lets the stack go on: handleTcpResume.
GuestAcks(f) ==
    /\ FrameRead
    /\ ex[f].conn = "open" /\ ex[f].unacked > 0
    /\ ex' = [ex EXCEPT ![f].unacked = 0, ![f].phase = IF @ = "flow" THEN "write" ELSE @]
    /\ UNCHANGED <<setup, linkVars, rxPaused, active, waiters>>

-----------------------------------------------------------------------------
(* The operation: fetchHookRequestAndRespond *)

\* runHostHttpOperation registers it, or refuses when the channels are closed.
StartOperation(f) ==
    /\ batch = 0 /\ ex[f].phase = "granted"
    /\ IF channels # "open"
       THEN End(f, ex[f], "error")
       ELSE /\ ex' = [ex EXCEPT ![f].phase = "hooks", ![f].opGen = gen]
            /\ UNCHANGED <<rxPaused, active, waiters>>
    /\ UNCHANGED <<setup, linkVars, batch>>

\* Request hooks and policies settle: the request goes upstream, or is
\* answered or refused by a hook.  An abort is noticed here.
HooksSettle(f) ==
    /\ batch = 0 /\ ex[f].phase = "hooks"
    /\ IF ex[f].aborted THEN End(f, ex[f], "guest")
       ELSE \/ ex' = [ex EXCEPT ![f].phase = "fetch"] /\ UNCHANGED <<rxPaused, active, waiters>>
            \/ End(f, Say(ex[f], "whole"), "none")
            \/ End(f, ex[f], "error")
    /\ UNCHANGED <<setup, linkVars, batch>>

\* undici takes a unit of a streamed body; pull() asks for more.
UpstreamReads(f) ==
    /\ batch = 0 /\ ex[f].phase \in {"fetch", "write", "flow"}
    /\ Readable(ex[f]) /\ ex[f].queue > 0
    /\ LET x == [ex[f] EXCEPT !.queue = @ - 1, !.got = @ + 1]
       IN  IF x.live THEN Update(f, Drain(x)) ELSE ex' = [ex EXCEPT ![f] = x] /\ UNCHANGED rxPaused
    /\ UNCHANGED <<setup, linkVars, batch, active, waiters>>

\* undici gives the body up, for instance because the upstream has answered.
UpstreamCancels(f) ==
    /\ batch = 0 /\ ex[f].phase \in {"fetch", "write", "flow"}
    /\ ex[f].on /\ Readable(ex[f])
    /\ Update(f, CancelBody(ex[f]))
    /\ UNCHANGED <<setup, linkVars, batch, active, waiters>>

\* A redirect: the next hop has its own hooks and policies, and no stream; a
\* streamed body cannot be sent again, if the new request needs one.
Redirected(f) ==
    /\ batch = 0 /\ ex[f].phase = "fetch" /\ ~ex[f].aborted
    /\ \/ /\ ex[f].hops < MaxRedirects
          /\ ex' = [ex EXCEPT ![f].hops = @ + 1, ![f].phase = "hooks"]
          /\ UNCHANGED <<rxPaused, active, waiters>>
       \/ /\ ex[f].hops = MaxRedirects \/ (ex[f].on /\ ex[f].hops = 0)
          /\ End(f, ex[f], "error")
    /\ UNCHANGED <<setup, linkVars, batch>>

\* The head of the response is written to the guest.
UpstreamAnswers(f) ==
    /\ batch = 0 /\ ex[f].phase = "fetch" /\ ~ex[f].aborted
    /\ ex' = [ex EXCEPT ![f] = [Say(ex[f], "part") EXCEPT !.phase = "write"]]
    /\ UNCHANGED <<setup, linkVars, batch, rxPaused, active, waiters>>

\* A chunk of the response, then waitForWritable: waitForFlowResume rejects
\* for a flow that is gone and waits while the stack has the flow paused.
UpstreamData(f) ==
    /\ batch = 0 /\ ex[f].phase = "write" /\ ~ex[f].aborted /\ ex[f].toCome > 0
    /\ LET x == [ex[f] EXCEPT !.toCome = @ - 1]
       IN  IF x.conn # "open" THEN End(f, x, "guest")
           ELSE /\ ex' = [ex EXCEPT ![f] = [x EXCEPT !.unacked = @ + 1,
                                                     !.phase = IF x.unacked + 1 >= TxMark THEN "flow" ELSE @]]
                /\ UNCHANGED <<rxPaused, active, waiters>>
    /\ UNCHANGED <<setup, linkVars, batch>>

UpstreamEnds(f) ==
    /\ batch = 0 /\ ex[f].phase = "write" /\ ~ex[f].aborted /\ ex[f].toCome = 0
    /\ End(f, Say(ex[f], "whole"), "none")
    /\ UNCHANGED <<setup, linkVars, batch>>

\* The upstream fails, or the abort of the operation reaches a fetch or a read.
UpstreamFails(f) ==
    /\ batch = 0 /\ ex[f].phase \in {"fetch", "write"}
    /\ End(f, ex[f], IF ex[f].aborted THEN "guest" ELSE "error")
    /\ UNCHANGED <<setup, linkVars, batch>>

-----------------------------------------------------------------------------
(* Generations of the transport *)

\* detachSocket: the listed sessions are aborted and forgotten, the waiters for
\* a flow's resumption are not touched, and closeSharedDispatchers closes the
\* channels and aborts every registered operation.
Detach ==
    /\ batch = 0 /\ Woken = {} /\ link = "up" /\ gen < setup.detaches
    /\ link' = "down" /\ channels' = "closing"
    /\ rxPaused' = FALSE
    /\ ex' = [f \in Flows |->
                [ex[f] EXCEPT !.conn = IF @ = "open" THEN "gone" ELSE @, !.unacked = 0,
                              !.aborted = ex[f].phase \in Operating]]
    /\ UNCHANGED <<setup, gen, batch, active, waiters>>

Registered == {f \in Flows : ex[f].phase \in Operating}

\* lifetime.closing resolves when no operation is registered any more.
ChannelsSettle ==
    /\ channels = "closing" /\ Registered = {}
    /\ channels' = "settled"
    /\ UNCHANGED <<setup, link, gen, batch, rxPaused, active, waiters, ex>>

\* Its timer: two seconds suffice for every step of the host, but not for a
\* hook of the embedder, nor for what nothing will ever wake.
SettlementTimesOut ==
    /\ channels = "closing" /\ Woken = {}
    /\ Registered # {} /\ \A f \in Registered : ex[f].phase \in {"hooks", "flow"}
    /\ channels' = "failed"
    /\ UNCHANGED <<setup, link, gen, batch, rxPaused, active, waiters, ex>>

\* attachSocket after reopenHostHttpChannels, which throws for ever once the
\* settlement has failed.
Attach ==
    /\ link = "down" /\ channels = "settled"
    /\ link' = "up" /\ channels' = "open" /\ gen' = gen + 1
    /\ UNCHANGED <<setup, batch, rxPaused, active, waiters, ex>>

-----------------------------------------------------------------------------
Guest(f) == Receive(f) \/ GuestCloses(f) \/ GuestAcks(f)

Upstream(f) == \/ UpstreamReads(f) \/ UpstreamCancels(f) \/ Redirected(f)
               \/ UpstreamAnswers(f) \/ UpstreamData(f) \/ UpstreamEnds(f) \/ UpstreamFails(f)

Next ==
    \/ \E f \in Flows : \E k \in 0 .. Max({0} \cup {Length(g) + setup.extra[g] : g \in Flows}) : Connect(f, k)
    \/ \E f \in Flows : Guest(f) \/ Upstream(f)
    \/ \E f \in Flows : PolicySettles(f) \/ TakesSlot(f) \/ StartOperation(f) \/ HooksSettle(f)
    \/ Detach \/ ChannelsSettle \/ SettlementTimesOut \/ Attach

Spec == Init /\ [][Next]_vars

-----------------------------------------------------------------------------
\* An upload is never cut short unnoticed: undici sees the end of a streamed
\* body (c.close() in drain) only behind all Content-Length bytes, and until
\* then every byte the guest has sent is in one of the queues.
UploadIntact ==
    \A f \in Flows :
        /\ ex[f].body = "closed" => ex[f].got + ex[f].queue = Length(f)
        /\ ex[f].on /\ ex[f].live /\ ex[f].body = "open" =>
             ex[f].got + ex[f].queue + ex[f].pending + ex[f].remaining = Length(f)

\* Steps that need no more data or acknowledgement of the guest.
MovesAlone(f) ==
    \/ ex[f].phase \in {"policy", "woken", "granted", "hooks", "fetch", "write"}
    \/ ex[f].phase = "flow" /\ ex[f].queue > 0

Holders == {f \in Flows : ex[f].phase \in Operating \cup {"granted"}}

\* The deadlock the code has: an upload that is too far ahead waits for a slot (its
\* flow may be gone, if all of the body had come: that does not end the pause), and
\* who holds the slots waits for acknowledgements the guest cannot send.
WaitsForSlots ==
    /\ \E f \in Range(waiters) : ex[f].pending > PauseLow
    /\ Cardinality(Holders) = setup.limit /\ \A f \in Holders : ex[f].phase = "flow"

\* While QEMU's socket is paused the guest cannot even acknowledge: somebody
\* else can go on then, unless uploads wait for slots as above.  A pause never
\* outlives the upload that is ahead.
RxPauseCanEnd == rxPaused => (\E f \in Flows : MovesAlone(f)) \/ WaitsForSlots

\* httpConcurrency: slots and exchanges that hold one agree, whatever ends an
\* exchange, and nobody waits while a slot is free.  (That no more than `limit`
\* hold one is not claimed: an acquire() between a release and the waiter's
\* microtask finds the slot free, and both take it.)
SlotsAccounted ==
    /\ active = Cardinality(Holders)
    /\ waiters # <<>> => active + Cardinality(Woken) >= setup.limit

\* A flow with a declared length ends at most once, behind a complete answer or
\* an error, and nothing is written behind its end.
AnswerBeforeEnd ==
    \A f \in Flows : Mode(f) = "length" =>
        /\ ex[f].finishes <= 1 /\ ~ex[f].late
        /\ ex[f].finishes = 1 /\ ex[f].conn = "open" => ex[f].answer \in {"whole", "error", "broken"}

\* "Reopen a guest transport only after the previous HTTP generation settled"
\* (http/utils.ts): no operation of an older socket runs beside a new one.
ReopenedAfterSettlement == link = "up" => \A f \in Registered : ex[f].opGen = gen

\* "Stop new work immediately and confirm bounded host HTTP settlement"
\* (http/utils.ts, closeSharedDispatchers): the settlement fails, and with it
\* every later attach, only when a hook of the embedder does not return.
SettlementFailsForHooksOnly ==
    [][channels = "closing" /\ channels' = "failed" => \E f \in Registered : ex[f].phase = "hooks"]_vars

\* An exchange is in order at every step: its upload, its answer, its slot and
\* the generation of its socket; and a paused socket is one that somebody can
\* end, but for an upload that waits for slots whose holders wait for the guest.
ExchangeInOrder ==
    UploadIntact /\ AnswerBeforeEnd /\ SlotsAccounted /\ ReopenedAfterSettlement /\ RxPauseCanEnd
=============================================================================
