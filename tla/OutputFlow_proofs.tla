--------------------------- MODULE OutputFlow_proofs ---------------------------
(***************************************************************************)
(* Proofs about OutputFlow, for every window, threshold, pair of output    *)
(* modes and amount of output: types, conservation of credit, the bound on *)
(* buffered output, and that the protocol implements BoundedBuffer.        *)
(*                                                                         *)
(* None of these is inductive alone.  The bound holds after an abort only  *)
(* because the host's own credit counter never falls below what the guest  *)
(* can still spend, and that in turn needs the counter, the unsent updates *)
(* and the held bytes to fit in the window; IInv says so.                  *)
(***************************************************************************)
EXTENDS OutputFlow, TLAPS

\* the host never believes less to be outstanding than there is
HostCoversGuest == \A s \in Streams : Outstanding(s) <= credit[s]

\* what the host has given out, will give out and holds fits in the window
WindowNotExceeded ==
  \A s \in Streams : credit[s] + updatePending[s] + unread[s] <= Window

IInv ==
  /\ TypeOK
  /\ HostCoversGuest
  /\ WindowNotExceeded
  /\ CreditConserved

\* Credit c and pending updates p have been accounted: nothing of a stream is
\* lost, and at most what the host gave out is on its way to the guest.
Accounted(c, p) ==
  /\ credit' \in [Streams -> Nat] /\ updatePending' \in [Streams -> Nat]
  /\ pendingWin' \in [Streams -> Nat] /\ grantWire' \in [Streams -> Nat]
  /\ \A s \in Streams :
       /\ credit'[s] + updatePending'[s] = c[s] + p[s]
       /\ pendingWin'[s] + grantWire'[s] + c[s]
            <= pendingWin[s] + grantWire[s] + credit'[s]
       /\ inflight => pendingWin'[s] + grantWire'[s] + c[s]
                        = pendingWin[s] + grantWire[s] + credit'[s]

\* The credit c covers what is outstanding, and with the updates p and the bytes
\* still held it fits in the window; while the exec lives, exactly.
Covered(c, p) ==
  \A s \in Streams :
    /\ guestCredit[s] + grantWire[s] + pendingWin[s] + outWire'[s] <= c[s]
    /\ c[s] + p[s] + unread'[s] <= Window
    /\ attached /\ inflight =>
         /\ guestCredit[s] + grantWire[s] + pendingWin[s] + outWire'[s] = c[s]
         /\ ~refillDue'[s] => c[s] + p[s] + unread'[s] = Window

-----------------------------------------------------------------------------
LEMMA ZeroType ==
  Zero \in [Streams -> Nat] /\ \A s \in Streams : Zero[s] = 0
  BY DEF Zero

LEMMA PlusType ==
  ASSUME NEW f \in [Streams -> Nat], NEW g \in [Streams -> Nat]
  PROVE  /\ Plus(f, g) \in [Streams -> Nat]
         /\ \A s \in Streams : Plus(f, g)[s] = f[s] + g[s]
  BY DEF Plus

\* Forwarding the credit g moves it towards the guest, or drops it when the exec
\* is no longer known to the server.
LEMMA ForwardMoves ==
  ASSUME NEW g \in [Streams -> Nat], ForwardWindow(g),
         pendingWin \in [Streams -> Nat], grantWire \in [Streams -> Nat]
  PROVE  /\ pendingWin' \in [Streams -> Nat] /\ grantWire' \in [Streams -> Nat]
         /\ \A s \in Streams :
              /\ pendingWin'[s] + grantWire'[s]
                   <= pendingWin[s] + grantWire[s] + g[s]
              /\ inflight => pendingWin'[s] + grantWire'[s]
                               = pendingWin[s] + grantWire[s] + g[s]
  <1>1. CASE ~inflight
    BY <1>1 DEF ForwardWindow
  <1>2. CASE inflight /\ bridgeFull
    BY <1>2 DEF ForwardWindow, Plus
  <1>3. CASE inflight /\ ~bridgeFull
    BY <1>3 DEF ForwardWindow, Plus, Zero
  <1> QED BY <1>1, <1>2, <1>3

LEMMA FlushAccounts ==
  ASSUME NEW c \in [Streams -> Nat], NEW p \in [Streams -> Nat],
         FlushUpdates(c, p),
         pendingWin \in [Streams -> Nat], grantWire \in [Streams -> Nat]
  PROVE  Accounted(c, p)
  <1>1. /\ credit' = Plus(c, p) /\ updatePending' = Zero
        /\ ForwardWindow(p)
    BY DEF FlushUpdates
  <1>2. /\ credit' \in [Streams -> Nat] /\ updatePending' \in [Streams -> Nat]
        /\ \A s \in Streams : credit'[s] = c[s] + p[s] /\ updatePending'[s] = 0
    BY <1>1, ZeroType, PlusType
  <1>3. /\ pendingWin' \in [Streams -> Nat] /\ grantWire' \in [Streams -> Nat]
        /\ \A s \in Streams :
             /\ pendingWin'[s] + grantWire'[s]
                  <= pendingWin[s] + grantWire[s] + p[s]
             /\ inflight => pendingWin'[s] + grantWire'[s]
                              = pendingWin[s] + grantWire[s] + p[s]
    BY <1>1, ForwardMoves
  <1> QED BY <1>2, <1>3 DEF Accounted

LEMMA QueueAccounts ==
  ASSUME NEW c \in [Streams -> Nat], NEW p \in [Streams -> Nat],
         QueueUpdate(c, p),
         pendingWin \in [Streams -> Nat], grantWire \in [Streams -> Nat]
  PROVE  Accounted(c, p)
  <1>1. CASE UpdateWorthSending(c, p)
    BY <1>1, FlushAccounts DEF QueueUpdate
  <1>2. CASE ~UpdateWorthSending(c, p)
    BY <1>2 DEF QueueUpdate, Accounted
  <1> QED BY <1>1, <1>2

-----------------------------------------------------------------------------
LEMMA InitHolds == Init => IInv
  <1> SUFFICES ASSUME Init PROVE IInv
    OBVIOUS
  <1>1. mode \in [Streams -> Modes]
    BY FlowAssumption DEF Init, Streams, Modes
  <1>2. TypeOK
    BY <1>1, FlowAssumption DEF Init, TypeOK, Zero
  <1>3. HostCoversGuest /\ WindowNotExceeded /\ CreditConserved
    BY FlowAssumption DEF Init, HostCoversGuest, WindowNotExceeded,
           CreditConserved, Outstanding, Zero
  <1> QED BY <1>2, <1>3 DEF IInv
-----------------------------------------------------------------------------
\* An action that takes bytes off the wire or out of the host's buffer and then
\* accounts the credits c and the updates p keeps the invariant.
LEMMA AccountedKeeps ==
  ASSUME TypeOK, outWire' \in [Streams -> Nat], unread' \in [Streams -> Nat],
         NEW c \in [Streams -> Nat], NEW p \in [Streams -> Nat],
         Accounted(c, p), Covered(c, p),
         UNCHANGED <<guestCredit, inflight, attached>>
  PROVE  HostCoversGuest' /\ WindowNotExceeded' /\ CreditConserved'
  <1>1. ASSUME NEW s \in Streams
        PROVE  /\ guestCredit[s] + grantWire'[s] + pendingWin'[s] + outWire'[s]
                    <= credit'[s]
               /\ credit'[s] + updatePending'[s] + unread'[s] <= Window
               /\ attached /\ inflight =>
                    /\ credit'[s] = guestCredit[s] + grantWire'[s]
                                      + pendingWin'[s] + outWire'[s]
                    /\ ~refillDue'[s] =>
                         credit'[s] + updatePending'[s] + unread'[s] = Window
    <2>1. /\ guestCredit[s] \in Nat /\ grantWire[s] \in Nat
          /\ pendingWin[s] \in Nat /\ outWire'[s] \in Nat /\ unread'[s] \in Nat
          /\ credit'[s] \in Nat /\ updatePending'[s] \in Nat
          /\ pendingWin'[s] \in Nat /\ grantWire'[s] \in Nat
          /\ c[s] \in Nat /\ p[s] \in Nat
      BY DEF TypeOK, Accounted
    <2>2. /\ credit'[s] + updatePending'[s] = c[s] + p[s]
          /\ pendingWin'[s] + grantWire'[s] + c[s]
               <= pendingWin[s] + grantWire[s] + credit'[s]
          /\ inflight => pendingWin'[s] + grantWire'[s] + c[s]
                           = pendingWin[s] + grantWire[s] + credit'[s]
      BY DEF Accounted
    <2>3. /\ guestCredit[s] + grantWire[s] + pendingWin[s] + outWire'[s] <= c[s]
          /\ c[s] + p[s] + unread'[s] <= Window
          /\ attached /\ inflight =>
               /\ guestCredit[s] + grantWire[s] + pendingWin[s] + outWire'[s]
                    = c[s]
               /\ ~refillDue'[s] => c[s] + p[s] + unread'[s] = Window
      BY DEF Covered
    <2> QED BY <2>1, <2>2, <2>3, FlowAssumption
  <1> QED BY <1>1 DEF HostCoversGuest, WindowNotExceeded, CreditConserved,
             Outstanding

-----------------------------------------------------------------------------
(* The guest's and the bridge's steps.                                     *)

LEMMA FlushPendingWindowsKeeps ==
  IInv /\ FlushPendingWindows => IInv'
  <1> SUFFICES ASSUME IInv, FlushPendingWindows PROVE IInv'
    OBVIOUS
  <1> USE DEF FlushPendingWindows, guestVars, sessionVars, bufferVars
  <1>1. /\ pendingWin \in [Streams -> Nat] /\ grantWire \in [Streams -> Nat]
    BY DEF IInv, TypeOK
  <1>2. /\ pendingWin' \in [Streams -> Nat] /\ grantWire' \in [Streams -> Nat]
        /\ \A s \in Streams : pendingWin'[s] + grantWire'[s]
                                = pendingWin[s] + grantWire[s]
    BY <1>1, ZeroType, PlusType
  <1>3. TypeOK'
    BY <1>2 DEF IInv, TypeOK
  <1>4. HostCoversGuest' /\ WindowNotExceeded' /\ CreditConserved'
    BY <1>2, <1>3 DEF IInv, TypeOK, HostCoversGuest, WindowNotExceeded,
       CreditConserved, Outstanding
  <1> QED BY <1>3, <1>4 DEF IInv

LEMMA GuestStepKeeps ==
  ASSUME IInv, NEW s \in Streams, GuestSend(s) \/ GuestGrant(s)
  PROVE  IInv'
  <1> USE DEF guestVars, serverVars, sessionVars, bufferVars
  <1>1. PICK n \in Nat :
          /\ guestCredit' \in [Streams -> Nat]
          /\ outWire' \in [Streams -> Nat] /\ grantWire' \in [Streams -> Nat]
          /\ \/ /\ guestCredit' = Sub(guestCredit, s, n)
                /\ outWire' = Add(outWire, s, n)
                /\ unsent' \in [Streams -> Nat] /\ grantWire' = grantWire
             \/ /\ grantWire' = Sub(grantWire, s, n)
                /\ unsent' = unsent /\ outWire' = outWire
                /\ guestCredit' = [guestCredit EXCEPT ![s] =
                     IF @ + n > Window THEN Window ELSE @ + n]
    BY FlowAssumption DEF IInv, TypeOK, GuestSend, GuestGrant, Sub, Add
  <1>2. UNCHANGED <<open, response, bridgeFull, congestions, serverVars,
                    sessionVars>>
    BY DEF GuestSend, GuestGrant
  <1>3. TypeOK'
    BY <1>1, <1>2 DEF IInv, TypeOK
  \* the cap at the window never bites while the exec lives
  <1>4. \A t \in Streams : /\ Outstanding(t)' <= Outstanding(t)
                           /\ attached /\ inflight =>
                                Outstanding(t)' = Outstanding(t)
    BY <1>1, <1>2, <1>3, FlowAssumption DEF IInv, TypeOK, CreditConserved,
       WindowNotExceeded, Outstanding, Sub, Add
  <1>5. HostCoversGuest' /\ WindowNotExceeded' /\ CreditConserved'
    BY <1>2, <1>3, <1>4 DEF IInv, TypeOK, HostCoversGuest, WindowNotExceeded,
       CreditConserved, Outstanding
  <1> QED BY <1>3, <1>5 DEF IInv

\* Steps that move no byte and no credit, or only forget credit.
LEMMA QuietStepKeeps ==
  ASSUME IInv,
         \/ BridgeFills \/ BridgeDrains \/ GuestExit \/ RecvExecResponse
         \/ Abandon \/ Disconnect \/ \E s \in Streams : GuestClose(s)
  PROVE  IInv'
  <1> USE DEF guestVars, portVars, serverVars, sessionVars, bufferVars
  <1>1. TypeOK'
    <2> USE DEF IInv, TypeOK
    <2>1. CASE BridgeFills
      BY <2>1 DEF BridgeFills
    <2>2. CASE BridgeDrains
      BY <2>2 DEF BridgeDrains
    <2>3. CASE GuestExit
      BY <2>3 DEF GuestExit
    <2>4. CASE RecvExecResponse
      BY <2>4, ZeroType DEF RecvExecResponse
    <2>5. CASE Abandon
      BY <2>5 DEF Abandon
    <2>6. CASE Disconnect
      BY <2>6, ZeroType DEF Disconnect
    <2>7. ASSUME NEW s \in Streams, GuestClose(s) PROVE TypeOK'
      BY <2>7 DEF GuestClose
    <2> QED BY <2>1, <2>2, <2>3, <2>4, <2>5, <2>6, <2>7
  <1>2. /\ UNCHANGED <<guestCredit, outWire, grantWire, credit, updatePending,
                       unread, refillDue>>
        /\ pendingWin' = pendingWin \/ (pendingWin' = Zero /\ ~inflight')
        /\ attached' /\ inflight' => attached /\ inflight
    BY DEF BridgeFills, BridgeDrains, GuestExit, RecvExecResponse, Abandon,
           Disconnect, GuestClose
  <1>3. \A s \in Streams : pendingWin'[s] <= pendingWin[s]
    BY <1>2, ZeroType DEF IInv, TypeOK
  <1>4. CASE attached' /\ inflight'
    BY <1>1, <1>2, <1>4 DEF IInv, TypeOK, HostCoversGuest,
       WindowNotExceeded, CreditConserved, Outstanding
  <1>5. CASE ~(attached' /\ inflight')
    BY <1>1, <1>2, <1>3, <1>5 DEF IInv, TypeOK, HostCoversGuest,
       WindowNotExceeded, CreditConserved, Outstanding
  <1> QED BY <1>1, <1>4, <1>5 DEF IInv

-----------------------------------------------------------------------------
(* The host's steps.                                                       *)

\* Bytes of a stream the host holds are given back as updates.
LEMMA DrainKeeps ==
  ASSUME IInv, NEW s \in Streams, Drain(s)
  PROVE  IInv'
  <1> DEFINE p == Add(updatePending, s, unread[s])
  <1>1. /\ p \in [Streams -> Nat] /\ credit \in [Streams -> Nat]
        /\ unread' \in [Streams -> Nat] /\ outWire' \in [Streams -> Nat]
        /\ pendingWin \in [Streams -> Nat] /\ grantWire \in [Streams -> Nat]
    BY DEF IInv, TypeOK, Drain, Add
  <1>2. Accounted(credit, p)
    BY <1>1, FlushAccounts DEF Drain
  <1>3. Covered(credit, p)
    BY DEF Covered, IInv, TypeOK, HostCoversGuest, WindowNotExceeded,
           CreditConserved, Outstanding, Drain, Add
  <1>4. UNCHANGED <<guestCredit, inflight, attached>>
    BY DEF Drain, guestVars
  <1>5. HostCoversGuest' /\ WindowNotExceeded' /\ CreditConserved'
    BY <1>1, <1>2, <1>3, <1>4, AccountedKeeps DEF IInv
  <1>6. TypeOK'
    BY <1>1, <1>2 DEF IInv, TypeOK, Accounted, Drain, guestVars
  <1> QED BY <1>5, <1>6 DEF IInv

LEMMA ConsumeKeeps ==
  ASSUME IInv, NEW s \in Streams, Consume(s)
  PROVE  IInv'
  <1> USE DEF Consume, guestVars, portVars, serverVars
  <1>1. PICK n \in Nat : n <= unread[s] /\ unread' = Sub(unread, s, n)
    BY DEF IInv, TypeOK
  <1>2. /\ unread' \in [Streams -> Nat]
        /\ \A t \in Streams : unread'[t] <= unread[t]
        /\ \A t \in Streams : ~refillDue'[t] =>
             unread'[t] = unread[t] /\ ~refillDue[t]
    BY <1>1 DEF IInv, TypeOK, Sub
  <1>3. TypeOK'
    BY <1>2 DEF IInv, TypeOK
  <1>4. HostCoversGuest' /\ WindowNotExceeded' /\ CreditConserved'
    BY <1>2, <1>3, FlowAssumption DEF IInv, TypeOK, HostCoversGuest,
       WindowNotExceeded, CreditConserved, Outstanding
  <1> QED BY <1>3, <1>4 DEF IInv

\* The refill brings the account of a pipe back to exactly the window.
LEMMA RefillKeeps ==
  ASSUME IInv, NEW s \in Streams, RefillPipeWindow(s)
  PROVE  IInv'
  <1> DEFINE p == IF Refillable(s) > 0
                  THEN Add(updatePending, s, Refillable(s)) ELSE updatePending
  <1>1. Refillable(s) \in Nat
    BY FlowAssumption DEF Refillable, IInv, TypeOK, WindowNotExceeded
  <1>2. /\ p \in [Streams -> Nat] /\ credit \in [Streams -> Nat]
        /\ unread' \in [Streams -> Nat] /\ outWire' \in [Streams -> Nat]
        /\ pendingWin \in [Streams -> Nat] /\ grantWire \in [Streams -> Nat]
    BY <1>1 DEF IInv, TypeOK, RefillPipeWindow, Add
  <1>3. Accounted(credit, p)
    <2>1. CASE Refillable(s) > 0
      BY <1>2, <2>1, QueueAccounts DEF RefillPipeWindow
    <2>2. CASE ~(Refillable(s) > 0)
      BY <1>2, <2>2 DEF RefillPipeWindow, Accounted
    <2> QED BY <2>1, <2>2
  <1>4. /\ p[s] = updatePending[s] + Refillable(s)
        /\ \A t \in Streams \ {s} : p[t] = updatePending[t]
    BY <1>1 DEF IInv, TypeOK, Add
  <1>5. Covered(credit, p)
    <2> HIDE DEF p
    <2> SUFFICES ASSUME NEW t \in Streams
        PROVE  /\ guestCredit[t] + grantWire[t] + pendingWin[t] + outWire'[t]
                    <= credit[t]
               /\ credit[t] + p[t] + unread'[t] <= Window
               /\ attached /\ inflight =>
                    /\ guestCredit[t] + grantWire[t] + pendingWin[t]
                         + outWire'[t] = credit[t]
                    /\ ~refillDue'[t] => credit[t] + p[t] + unread'[t] = Window
      BY DEF Covered
    <2>1. CASE t = s
      BY <1>2, <1>4, <2>1, FlowAssumption DEF IInv, TypeOK, HostCoversGuest,
         CreditConserved, Outstanding, RefillPipeWindow, Refillable
    <2>2. CASE t # s
      BY <1>2, <1>4, <2>2, FlowAssumption DEF IInv, TypeOK, HostCoversGuest,
         WindowNotExceeded, CreditConserved, Outstanding, RefillPipeWindow
    <2> QED BY <2>1, <2>2
  <1>6. UNCHANGED <<guestCredit, inflight, attached>>
    BY DEF RefillPipeWindow, guestVars
  <1>7. HostCoversGuest' /\ WindowNotExceeded' /\ CreditConserved'
    BY <1>2, <1>3, <1>5, <1>6, AccountedKeeps DEF IInv
  <1>8. TypeOK'
    BY <1>2, <1>3 DEF IInv, TypeOK, Accounted, RefillPipeWindow, guestVars
  <1> QED BY <1>7, <1>8 DEF IInv

\* A failed sink gives back what it held and what it was being given.
LEMMA FailAccounts ==
  ASSUME TypeOK, NEW s \in Streams, NEW c \in [Streams -> Nat],
         NEW back \in Nat, FailWritable(s, c, back)
  PROVE  /\ Add(updatePending, s, unread[s] + back) \in [Streams -> Nat]
         /\ Accounted(c, Add(updatePending, s, unread[s] + back))
  <1> DEFINE owed == unread[s] + back
             p == Add(updatePending, s, owed)
  <1>1. owed \in Nat /\ p \in [Streams -> Nat]
        /\ pendingWin \in [Streams -> Nat] /\ grantWire \in [Streams -> Nat]
    BY DEF TypeOK, Add
  <1>2. CASE owed > 0
    <2>1. FlushUpdates(c, p)
      BY <1>2 DEF FailWritable
    <2> QED BY <1>1, <2>1, FlushAccounts
  <1>3. CASE owed = 0
    <2>1. /\ credit' = c
          /\ UNCHANGED <<updatePending, pendingWin, grantWire>>
      BY <1>3 DEF FailWritable
    <2>2. \A t \in Streams : p[t] = updatePending[t]
      BY <1>3 DEF TypeOK, Add
    <2> QED BY <1>1, <2>1, <2>2 DEF Accounted, TypeOK
  <1> QED BY <1>1, <1>2, <1>3

LEMMA WritableErrorKeeps ==
  ASSUME IInv, NEW s \in Streams, WritableError(s)
  PROVE  IInv'
  <1> DEFINE p == Add(updatePending, s, unread[s] + 0)
  <1>1. FailWritable(s, credit, 0)
        /\ UNCHANGED <<guestVars, outWire, bridgeFull, congestions, inflight,
                       flushDue, attached>>
    BY DEF WritableError
  <1>2. /\ credit \in [Streams -> Nat] /\ outWire' \in [Streams -> Nat]
        /\ p \in [Streams -> Nat]
        /\ Accounted(credit, p)
    BY <1>1, FailAccounts DEF IInv, TypeOK
  <1>3. /\ unread' = [unread EXCEPT ![s] = 0]
        /\ mode' = [mode EXCEPT ![s] = "ignore"]
        /\ writeError' \in BOOLEAN /\ ended' \in BOOLEAN
        /\ UNCHANGED <<refused, refillDue>>
    BY <1>1 DEF FailWritable
  <1>4. unread' \in [Streams -> Nat] /\ mode' \in [Streams -> Modes]
    BY <1>3 DEF IInv, TypeOK, Modes
  <1>5. Covered(credit, p)
    BY <1>1, <1>3, FlowAssumption DEF Covered, IInv, TypeOK, HostCoversGuest,
       WindowNotExceeded, CreditConserved, Outstanding, Add
  <1>6. HostCoversGuest' /\ WindowNotExceeded' /\ CreditConserved'
    BY <1>1, <1>2, <1>4, <1>5, AccountedKeeps DEF IInv, guestVars
  <1>7. TypeOK'
    BY <1>1, <1>2, <1>3, <1>4 DEF IInv, TypeOK, Accounted, guestVars
  <1> QED BY <1>6, <1>7 DEF IInv

\* n bytes of s have been taken from its credit and are held, or are among the
\* updates p
ChunkEffect(s, n, p) ==
  /\ Accounted(Sub(credit, s, n), p)
  /\ unread' \in [Streams -> Nat] /\ refused' \in [Streams -> Nat]
  /\ mode' \in [Streams -> Modes] /\ refillDue' = refillDue
  /\ ended' \in BOOLEAN /\ writeError' \in BOOLEAN
  /\ p[s] + unread'[s] = updatePending[s] + unread[s] + n
  /\ \A t \in Streams \ {s} :
       p[t] + unread'[t] = updatePending[t] + unread[t]

\* Whatever becomes of n bytes that arrive for a live exec, they are in the
\* host's buffer or among the pending updates afterwards.
LEMMA ChunkAccounts ==
  ASSUME TypeOK, NEW s \in Streams, NEW n \in Nat, n <= credit[s],
         ApplyChunk(s, n)
  PROVE  \E p \in [Streams -> Nat] : ChunkEffect(s, n, p)
  <1> DEFINE c == Sub(credit, s, n)
  <1>0. credit \in [Streams -> Nat] /\ credit[s] \in Nat /\ ~(n > credit[s])
    BY DEF TypeOK
  <1>1. /\ c = [credit EXCEPT ![s] = IF n > @ THEN 0 ELSE @ - n]
        /\ c \in [Streams -> Nat]
        /\ Add(updatePending, s, n) \in [Streams -> Nat]
        /\ pendingWin \in [Streams -> Nat] /\ grantWire \in [Streams -> Nat]
    <2>1. c = [credit EXCEPT ![s] = IF n > @ THEN 0 ELSE @ - n]
      BY <1>0 DEF Sub
    <2>2. c \in [Streams -> Nat]
      BY <1>0 DEF Sub
    <2> QED BY <2>1, <2>2 DEF TypeOK, Add
  <1>2. CASE /\ QueueUpdate(c, Add(updatePending, s, n))
             /\ UNCHANGED <<mode, bufferVars, writeError>>
    <2> DEFINE p == Add(updatePending, s, n)
    <2>1. Accounted(c, p)
      BY <1>1, <1>2, QueueAccounts
    <2>2. p[s] = updatePending[s] + n
          /\ \A t \in Streams \ {s} : p[t] = updatePending[t]
      BY DEF TypeOK, Add
    <2> HIDE DEF p
    <2>3. unread' = unread /\ \A t \in Streams :
            unread[t] \in Nat /\ updatePending[t] \in Nat
      BY <1>2 DEF TypeOK, bufferVars
    <2>4. ChunkEffect(s, n, p)
      BY <1>2, <2>1, <2>2, <2>3 DEF TypeOK, ChunkEffect, bufferVars
    <2> QED BY <1>1, <2>4 DEF p
  <1>3. CASE /\ credit' = c
             /\ unread' = Add(unread, s, n)
             /\ refused' = IF mode[s] = "pipe" /\ ended
                           THEN Add(refused, s, n) ELSE refused
             /\ UNCHANGED <<mode, updatePending, pendingWin, grantWire,
                            refillDue, ended, writeError>>
    <2>1. Accounted(c, updatePending)
      BY <1>1, <1>3 DEF Accounted, TypeOK
    <2>2. unread' \in [Streams -> Nat] /\ refused' \in [Streams -> Nat]
      BY <1>3 DEF TypeOK, Add
    <2>3. unread'[s] = unread[s] + n
          /\ \A t \in Streams \ {s} : unread'[t] = unread[t]
      BY <1>3 DEF TypeOK, Add
    <2>4. updatePending \in [Streams -> Nat]
      BY DEF TypeOK
    <2>5. ChunkEffect(s, n, updatePending)
      BY <1>3, <2>1, <2>2, <2>3 DEF TypeOK, ChunkEffect
    <2> QED BY <2>4, <2>5
  <1>4. CASE FailWritable(s, c, n)
    <2> DEFINE p == Add(updatePending, s, unread[s] + n)
    <2>1. p \in [Streams -> Nat] /\ Accounted(c, p)
      BY <1>1, <1>4, FailAccounts
    <2>2. /\ unread' = [unread EXCEPT ![s] = 0]
          /\ mode' = [mode EXCEPT ![s] = "ignore"]
          /\ writeError' = TRUE /\ ended' = TRUE
          /\ UNCHANGED <<refused, refillDue>>
      BY <1>4 DEF FailWritable
    <2>3. unread' \in [Streams -> Nat] /\ mode' \in [Streams -> Modes]
      BY <2>2 DEF TypeOK, Modes
    <2>4. p[s] = updatePending[s] + unread[s] + n /\ unread'[s] = 0
          /\ \A t \in Streams \ {s} :
               p[t] = updatePending[t] /\ unread'[t] = unread[t]
      BY <2>2 DEF TypeOK, Add
    <2> HIDE DEF p
    <2>5. ChunkEffect(s, n, p)
      BY <2>1, <2>2, <2>3, <2>4 DEF TypeOK, ChunkEffect
    <2> QED BY <2>1, <2>5
  <1> QED BY <1>1, <1>2, <1>3, <1>4 DEF ApplyChunk

LEMMA RecvOutputKeeps ==
  ASSUME IInv, NEW s \in Streams, RecvOutput(s)
  PROVE  IInv'
  <1>1. PICK n \in 1 .. outWire[s] :
          /\ outWire' = Sub(outWire, s, n)
          /\ IF inflight /\ attached
             THEN ApplyChunk(s, n)
             ELSE UNCHANGED <<mode, credit, updatePending, bufferVars,
                              writeError, pendingWin, grantWire>>
          /\ UNCHANGED <<guestVars, bridgeFull, congestions, inflight,
                         flushDue, attached>>
    BY DEF RecvOutput
  <1>2. /\ n \in Nat /\ n <= outWire[s]
        /\ outWire' \in [Streams -> Nat]
        /\ outWire'[s] = outWire[s] - n
        /\ \A t \in Streams \ {s} : outWire'[t] = outWire[t]
    BY <1>1 DEF IInv, TypeOK, Sub
  <1>3. CASE inflight /\ attached
    <2> DEFINE c == Sub(credit, s, n)
    <2>1. n <= credit[s]
      BY <1>2, <1>3 DEF IInv, TypeOK, HostCoversGuest, Outstanding
    <2>2. PICK p \in [Streams -> Nat] : ChunkEffect(s, n, p)
      BY <1>1, <1>2, <1>3, <2>1, ChunkAccounts DEF IInv
    <2>3. /\ c \in [Streams -> Nat]
          /\ c[s] = credit[s] - n
          /\ \A t \in Streams \ {s} : c[t] = credit[t]
      BY <1>2, <2>1 DEF IInv, TypeOK, Sub
    <2> HIDE DEF c
    <2>4. Accounted(c, p) /\ unread' \in [Streams -> Nat]
      BY <2>2 DEF ChunkEffect, c
    <2>5. Covered(c, p)
      <3> SUFFICES ASSUME NEW t \in Streams
          PROVE  /\ guestCredit[t] + grantWire[t] + pendingWin[t] + outWire'[t]
                      <= c[t]
                 /\ c[t] + p[t] + unread'[t] <= Window
                 /\ attached /\ inflight =>
                      /\ guestCredit[t] + grantWire[t] + pendingWin[t]
                           + outWire'[t] = c[t]
                      /\ ~refillDue'[t] => c[t] + p[t] + unread'[t] = Window
        BY DEF Covered
      <3> DEFINE spent == IF t = s THEN n ELSE 0
                 out == guestCredit[t] + grantWire[t] + pendingWin[t]
      <3>1. /\ spent \in Nat /\ out \in Nat /\ outWire[t] \in Nat
            /\ credit[t] \in Nat /\ updatePending[t] \in Nat
            /\ unread[t] \in Nat /\ p[t] \in Nat /\ unread'[t] \in Nat
        BY <1>2, <2>4 DEF IInv, TypeOK
      <3>2. outWire'[t] = outWire[t] - spent /\ c[t] = credit[t] - spent
        BY <1>2, <2>3, <3>1
      <3>3. p[t] + unread'[t] = updatePending[t] + unread[t] + spent
        BY <2>2, <3>1 DEF ChunkEffect
      <3>4. /\ out + outWire[t] <= credit[t]
            /\ credit[t] + updatePending[t] + unread[t] <= Window
        BY DEF IInv, HostCoversGuest, WindowNotExceeded, Outstanding
      <3>5. /\ out + outWire[t] = credit[t]
            /\ ~refillDue'[t] =>
                 credit[t] + updatePending[t] + unread[t] = Window
        BY <1>3, <2>2 DEF ChunkEffect, IInv, CreditConserved, Outstanding
      <3> HIDE DEF spent, out
      <3>6. out + outWire'[t] = c[t]
        BY <3>1, <3>2, <3>5
      <3>7. c[t] + p[t] + unread'[t] = credit[t] + updatePending[t] + unread[t]
        BY <2>3, <3>1, <3>2, <3>3
      <3> QED BY <3>1, <3>2, <3>4, <3>5, <3>6, <3>7 DEF out
    <2>6. HostCoversGuest' /\ WindowNotExceeded' /\ CreditConserved'
      BY <1>1, <1>2, <2>3, <2>4, <2>5, AccountedKeeps DEF IInv, guestVars
    <2>7. TypeOK'
      BY <1>1, <1>2, <2>2 DEF IInv, TypeOK, ChunkEffect, Accounted, guestVars
    <2> QED BY <2>6, <2>7 DEF IInv
  <1>4. CASE ~(inflight /\ attached)
    <2>1. UNCHANGED <<guestCredit, credit, updatePending, unread, pendingWin,
                      grantWire, inflight, attached>>
      BY <1>1, <1>4 DEF guestVars, bufferVars
    <2>2. TypeOK'
      BY <1>1, <1>2, <1>4 DEF IInv, TypeOK, guestVars, bufferVars
    <2>3. HostCoversGuest' /\ WindowNotExceeded' /\ CreditConserved'
      BY <1>2, <1>4, <2>1 DEF IInv, TypeOK, HostCoversGuest, WindowNotExceeded,
         CreditConserved, Outstanding
    <2> QED BY <2>2, <2>3 DEF IInv
  <1> QED BY <1>3, <1>4

-----------------------------------------------------------------------------
LEMMA Inductive == IInv /\ [Next]_vars => IInv'
  <1> SUFFICES ASSUME IInv, [Next]_vars PROVE IInv'
    OBVIOUS
  <1>1. ASSUME NEW s \in Streams, HostStream(s) PROVE IInv'
    BY <1>1, RecvOutputKeeps, RefillKeeps DEF HostStream
  <1>2. ASSUME NEW s \in Streams, GuestStream(s) PROVE IInv'
    BY <1>2, GuestStepKeeps, QuietStepKeeps DEF GuestStream
  <1>3. ASSUME NEW s \in Streams, Consumer(s) PROVE IInv'
    BY <1>3, ConsumeKeeps, DrainKeeps DEF Consumer
  <1>4. ASSUME NEW s \in Streams, WritableError(s) PROVE IInv'
    BY <1>4, WritableErrorKeeps
  <1>5. CASE FlushPendingWindows
    BY <1>5, FlushPendingWindowsKeeps
  <1>6. CASE \/ BridgeFills \/ BridgeDrains \/ GuestExit \/ RecvExecResponse
             \/ Abandon \/ Disconnect
    BY <1>6, QuietStepKeeps
  <1>7. CASE UNCHANGED vars
    BY <1>7 DEF vars, guestVars, portVars, serverVars, sessionVars, bufferVars,
       IInv, TypeOK, HostCoversGuest, WindowNotExceeded, CreditConserved,
       Outstanding
  <1> QED BY <1>1, <1>2, <1>3, <1>4, <1>5, <1>6, <1>7 DEF Next

\* Every reachable state satisfies the inductive invariant.
THEOREM Invariance == Spec => []IInv
  <1>1. Init => IInv
    BY InitHolds
  <1>2. IInv /\ [Next]_vars => IInv'
    BY Inductive
  <1> QED BY <1>1, <1>2, PTL DEF Spec

\* The counters of exec.ts, server-ops.ts and main.zig are natural numbers: no
\* stream's credit is overdrawn, whatever the order of the steps.
THEOREM TypesHold == Spec => []TypeOK
  <1>1. IInv => TypeOK
    BY DEF IInv
  <1> QED BY <1>1, Invariance, PTL

\* No credit of a live exec is lost or made up, for every window size.
THEOREM CreditIsConserved == Spec => []CreditConserved
  <1>1. IInv => CreditConserved
    BY DEF IInv
  <1> QED BY <1>1, Invariance, PTL

LEMMA IInvBoundsBuffer == IInv => BufferedOutputBounded
  <1> SUFFICES ASSUME IInv, NEW s \in Streams
      PROVE  outWire[s] + unread[s] <= Window
    BY DEF BufferedOutputBounded
  <1> QED BY FlowAssumption DEF IInv, TypeOK, HostCoversGuest,
             WindowNotExceeded, Outstanding

\* The output of an exec that is on the wire or in the host's buffers never
\* exceeds the window, also for an exec that failed or was given up.
THEOREM OutputIsBounded == Spec => []BufferedOutputBounded
  <1> QED BY IInvBoundsBuffer, Invariance, PTL

-----------------------------------------------------------------------------
(* Refinement.                                                             *)

Held == [s \in Streams |-> outWire[s] + unread[s]]

\* A step touches what is held of one stream at most.
LEMMA OneStreamAtATime ==
  ASSUME IInv, [Next]_vars
  PROVE  \E s \in Streams : \A t \in Streams \ {s} : Held'[t] = Held[t]
  <1> USE DEF guestVars, portVars, serverVars, sessionVars, bufferVars
  <1>1. ASSUME NEW s \in Streams,
               \/ HostStream(s) \/ GuestStream(s) \/ Consumer(s)
               \/ WritableError(s)
        PROVE  \A t \in Streams \ {s} : Held'[t] = Held[t]
    <2> SUFFICES ASSUME NEW t \in Streams \ {s}
        PROVE  outWire'[t] = outWire[t] /\ unread'[t] = unread[t]
      BY DEF Held
    <2> USE DEF IInv, TypeOK, Sub, Add
    <2>1. CASE RecvOutput(s)
      BY <2>1 DEF RecvOutput, ApplyChunk, FailWritable
    <2>2. CASE RefillPipeWindow(s) \/ Drain(s) \/ Consume(s)
      BY <2>2 DEF RefillPipeWindow, Drain, Consume
    <2>3. CASE WritableError(s)
      BY <2>3 DEF WritableError, FailWritable
    <2>4. CASE GuestSend(s) \/ GuestClose(s) \/ GuestGrant(s)
      BY <2>4 DEF GuestSend, GuestClose, GuestGrant
    <2> QED BY <1>1, <2>1, <2>2, <2>3, <2>4
         DEF HostStream, GuestStream, Consumer
  <1>2. CASE \/ FlushPendingWindows \/ BridgeFills \/ BridgeDrains
             \/ GuestExit \/ RecvExecResponse \/ Abandon \/ Disconnect
             \/ UNCHANGED vars
    <2>1. outWire' = outWire /\ unread' = unread
      BY <1>2 DEF FlushPendingWindows, BridgeFills, BridgeDrains, GuestExit,
         RecvExecResponse, Abandon, Disconnect, vars
    <2> QED BY <2>1 DEF Held, Streams
  <1> QED BY <1>1, <1>2 DEF Next

\* The credit protocol implements a buffer of Window bytes per stream.
THEOREM Refinement == Spec => ImplementsBoundedBuffer
  <1>1. Init => BoundedBuffer!Init
    BY DEF Init, BoundedBuffer!Init, Zero
  <1>2. IInv' => BufferedOutputBounded'
    BY IInvBoundsBuffer, PTL
  <1>3. ASSUME IInv, IInv', [Next]_vars
        PROVE  [BoundedBuffer!Next]_Held
    <2>1. PICK s \in Streams : \A t \in Streams \ {s} : Held'[t] = Held[t]
      BY <1>3, OneStreamAtATime
    <2>2. /\ Held \in [Streams -> Nat] /\ Held' \in [Streams -> Nat]
          /\ Held'[s] <= Window
      <3>1. Held \in [Streams -> Nat]
        BY <1>3 DEF IInv, TypeOK, Held
      <3>2. Held' \in [Streams -> Nat]
        BY <1>3 DEF IInv, TypeOK, Held
      <3>3. BufferedOutputBounded'
        BY <1>3, <1>2
      <3>4. Held'[s] = outWire'[s] + unread'[s]
        BY DEF Held
      <3> QED BY <3>1, <3>2, <3>3, <3>4 DEF BufferedOutputBounded
    <2>3. CASE Held'[s] = Held[s]
      BY <2>1, <2>2, <2>3
    <2>4. CASE Held'[s] > Held[s]
      <3>1. PICK n \in 1 .. Window : Held'[s] = Held[s] + n
        <4>1. /\ Held[s] \in Nat /\ Held'[s] \in Nat
              /\ Held'[s] - Held[s] \in 1 .. Window
          BY <2>2, <2>4, FlowAssumption
        <4>2. Held'[s] = Held[s] + (Held'[s] - Held[s])
          BY <4>1
        <4> QED BY <4>1, <4>2
      <3>2. Held' = [Held EXCEPT ![s] = @ + n]
        BY <2>1, <2>2, <3>1
      <3> QED BY <2>2, <3>1, <3>2
           DEF BoundedBuffer!Next, BoundedBuffer!Accept, Held
    <2>5. CASE Held'[s] < Held[s]
      <3>1. PICK n \in 1 .. Held[s] : Held'[s] = Held[s] - n
        BY <2>2, <2>5
      <3>2. Held' = [Held EXCEPT ![s] = @ - n]
        BY <2>1, <2>2, <3>1
      <3> QED BY <3>1, <3>2
           DEF BoundedBuffer!Next, BoundedBuffer!Release, Held
    <2> QED BY <2>2, <2>3, <2>4, <2>5
  <1> QED BY <1>1, <1>3, Invariance, PTL
       DEF Spec, ImplementsBoundedBuffer, BoundedBuffer!Spec, Held

==============================================================================
