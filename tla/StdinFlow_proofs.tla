-------------------------- MODULE StdinFlow_proofs --------------------------
(***************************************************************************)
(* Stdin credit: what the host may send, the guest has room for (IInv).    *)
(* Stdin queues: what is counted is what is queued, the end of the input   *)
(* is behind all of it, and a partial input is never run on (QInv).        *)
(***************************************************************************)
EXTENDS StdinFlow, TLAPS, FiniteSetTheorems

\* the variables the credit of an exec is spread over
CreditTypes ==
  /\ phase \in [Execs -> {"held", "running", "over"}]
  /\ session \in [Execs -> {"none", "requested", "live", "done"}]
  /\ queued \in [Execs -> Nat] /\ credit \in [Execs -> Nat]
  /\ wire \in [Execs -> Nat] /\ windowWire \in [Execs -> Nat]
  /\ guestCredit \in [Execs -> Nat]
  /\ controls \in [Execs -> Nat] /\ batch \in [Execs -> Nat]

\* an exec that is not started has no credit, neither here nor there
NoCreditBeforeStart ==
  \A x \in Execs :
    /\ phase[x] = "held" => session[x] = "none"
    /\ phase[x] = "running" => session[x] # "none"
    /\ session[x] \in {"none", "requested"} =>
         /\ credit[x] = 0 /\ windowWire[x] = 0 /\ wire[x] = 0
         /\ guestCredit[x] = 0 /\ controls[x] = 0 /\ batch[x] = 0

\* also when the host has dropped credit, it has no more than the guest gave
CreditCovered ==
  \A x \in Execs :
    session[x] = "live" => credit[x] + windowWire[x] + wire[x] <= guestCredit[x]

IInv ==
  /\ CreditTypes /\ NoCreditBeforeStart /\ CreditCovered
  /\ StdinCreditConserved /\ StdinNeverRejected

-----------------------------------------------------------------------------
LEMMA LeastIs ==
  ASSUME NEW m \in Nat, NEW n \in Nat
  PROVE  Least(m, n) \in Nat /\ Least(m, n) <= m /\ Least(m, n) <= n
  BY DEF Least

\* A flush moves bytes from the queues to the wire and spends their credit.
LEMMA FlushMoves ==
  ASSUME NEW ids, NEW q \in [Execs -> Nat], NEW e, NEW t, NEW l,
         NEW c \in [Execs -> Nat], wire \in [Execs -> Nat],
         Flush(ids, q, e, t, l, c)
  PROVE  /\ queued' \in [Execs -> Nat] /\ credit' \in [Execs -> Nat]
         /\ wire' \in [Execs -> Nat]
         /\ \A x \in Execs : /\ credit'[x] + wire'[x] = c[x] + wire[x]
                             /\ c[x] = 0 => wire'[x] = wire[x]
  <1> DEFINE out == [x \in Execs |-> IF x \in ids /\ ~bridgeFull
                                     THEN BytesOut(q[x], c[x]) ELSE 0]
  <1>1. ASSUME NEW x \in Execs
        PROVE  out[x] \in Nat /\ out[x] <= q[x] /\ out[x] <= c[x]
    BY <1>1, LeastIs DEF BytesOut
  <1>2. /\ queued' = [x \in Execs |-> q[x] - out[x]]
        /\ credit' = [x \in Execs |-> c[x] - out[x]]
        /\ wire' = [x \in Execs |-> wire[x] + out[x]]
    BY DEF Flush, CreditLeft
  <1> HIDE DEF out
  <1>3. QED
    BY <1>1, <1>2
-----------------------------------------------------------------------------
\* The invariant only speaks of the variables of credit and of sessions.
creditVars == <<phase, session, queued, credit, wire, windowWire, guestCredit,
                controls, batch, lost>>

LEMMA InitInv == Init => IInv
  BY StdinAssumption
  DEF Init, IInv, CreditTypes, NoCreditBeforeStart, CreditCovered,
      StdinCreditConserved, StdinNeverRejected, Zero, No

LEMMA UnchangedInv == IInv /\ UNCHANGED creditVars => IInv'
  BY DEF creditVars, IInv, CreditTypes, NoCreditBeforeStart, CreditCovered,
         StdinCreditConserved, StdinNeverRejected

\* A flush with the credit the host has, whatever it does to the queues first.
LEMMA FlushInv ==
  ASSUME IInv, NEW ids, NEW q \in [Execs -> Nat], NEW e, NEW t, NEW l,
         Flush(ids, q, e, t, l, credit),
         UNCHANGED <<phase, session, windowWire, guestCredit, controls, batch, lost>>
  PROVE  IInv'
  <1>1. /\ queued' \in [Execs -> Nat] /\ credit' \in [Execs -> Nat]
        /\ wire' \in [Execs -> Nat]
        /\ \A x \in Execs : /\ credit'[x] + wire'[x] = credit[x] + wire[x]
                            /\ credit[x] = 0 => wire'[x] = wire[x]
    BY FlushMoves DEF IInv, CreditTypes
  <1>2. CreditTypes' BY <1>1 DEF IInv, CreditTypes
  <1>3. NoCreditBeforeStart'
    BY <1>1 DEF IInv, CreditTypes, NoCreditBeforeStart
  <1>4. CreditCovered' BY <1>1 DEF IInv, CreditTypes, CreditCovered
  <1>5. StdinCreditConserved'
    BY <1>1 DEF IInv, CreditTypes, StdinCreditConserved
  <1>6. StdinNeverRejected' BY DEF IInv, StdinNeverRejected
  <1> QED BY <1>2, <1>3, <1>4, <1>5, <1>6 DEF IInv

\* An exec that is over has no credit on the host.
LEMMA OverInv ==
  ASSUME IInv, NEW x \in Execs, Over(x),
         UNCHANGED <<session, wire, windowWire, guestCredit, controls, batch, lost>>
  PROVE  IInv'
  <1> USE DEF IInv, Over, ClearQueuedStdin
  <1>1. CreditTypes' BY DEF CreditTypes
  <1>2. NoCreditBeforeStart' BY DEF CreditTypes, NoCreditBeforeStart
  <1>3. CreditCovered' BY DEF CreditTypes, CreditCovered
  <1>4. StdinCreditConserved' BY DEF CreditTypes, StdinCreditConserved
  <1>5. StdinNeverRejected' BY DEF StdinNeverRejected
  <1> QED BY <1>1, <1>2, <1>3, <1>4, <1>5

LEMMA HandleStdinInv ==
  ASSUME IInv, NEW x \in Execs, NEW n \in Nat, NEW e \in BOOLEAN,
         HandleStdin(x, n, e)
  PROVE  IInv'
  <1> DEFINE q == [queued EXCEPT ![x] = @ + n]
             l == IF x \in ToSet(listed) THEN listed ELSE Append(listed, x)
             ends == [eofQueued EXCEPT ![x] = e]
  <1>1. UNCHANGED <<windowWire, session, guestCredit, controls, batch, lost>>
    BY DEF HandleStdin, guestVars, workerVars
  <1>2. q \in [Execs -> Nat] BY DEF IInv, CreditTypes
  <1>3. \/ Overflow(x) /\ UNCHANGED wire
        \/ /\ queued' = q
           /\ UNCHANGED <<phase, credit, wire>>
        \/ /\ Flush({x}, q, ends, total + n, l, credit)
           /\ UNCHANGED phase
    BY DEF HandleStdin
  <1> HIDE DEF q, l, ends
  <1>4. CASE Overflow(x) /\ UNCHANGED wire
    <2>1. CASE phase[x] = "held" BY <1>1, <1>4, <2>1, OverInv DEF Overflow
    <2>2. CASE phase[x] # "held"
      BY <1>1, <1>4, <2>2, UnchangedInv DEF Overflow, creditVars, queueVars
    <2> QED BY <2>1, <2>2
  <1>5. CASE queued' = q /\ UNCHANGED <<phase, credit, wire>>
    BY <1>1, <1>2, <1>5
    DEF IInv, CreditTypes, NoCreditBeforeStart, CreditCovered,
        StdinCreditConserved, StdinNeverRejected
  <1>6. CASE Flush({x}, q, ends, total + n, l, credit) /\ UNCHANGED phase
    BY <1>1, <1>2, <1>6, FlushInv
  <1> QED BY <1>3, <1>4, <1>5, <1>6

LEMMA StartExecNowInv ==
  ASSUME IInv, NEW x \in Execs, StartExecNow(x)
  PROVE  IInv'
  <1>1. UNCHANGED <<windowWire, guestCredit, controls, batch, lost>>
    BY DEF StartExecNow
  <1>2. CASE bridgeFull
    <2>1. Over(x) /\ UNCHANGED <<wire, session>> BY <1>2 DEF StartExecNow
    <2> QED BY <1>1, <2>1, OverInv
  <1>3. CASE ~bridgeFull
    <2>1. /\ phase[x] = "held"
          /\ phase' = [phase EXCEPT ![x] = "running"]
          /\ session' = [session EXCEPT ![x] = "requested"]
          /\ Flush({x}, queued, eofQueued, total, listed, credit)
      BY <1>3 DEF StartExecNow
    <2>2. /\ queued' \in [Execs -> Nat] /\ credit' \in [Execs -> Nat]
          /\ wire' \in [Execs -> Nat]
          /\ \A y \in Execs : /\ credit'[y] + wire'[y] = credit[y] + wire[y]
                              /\ credit[y] = 0 => wire'[y] = wire[y]
      <3> DEFINE ids == {x}
      <3>1. Flush(ids, queued, eofQueued, total, listed, credit) BY <2>1
      <3>2. /\ queued \in [Execs -> Nat] /\ credit \in [Execs -> Nat]
            /\ wire \in [Execs -> Nat]
        BY DEF IInv, CreditTypes
      <3> HIDE DEF ids
      <3> QED BY <3>1, <3>2, FlushMoves
    <2>3. session[x] = "none" /\ credit[x] = 0 /\ windowWire[x] = 0 /\ wire[x] = 0
      BY <2>1 DEF IInv, NoCreditBeforeStart
    <2>4. CreditTypes'
      <3>1. /\ phase' \in [Execs -> {"held", "running", "over"}]
            /\ session' \in [Execs -> {"none", "requested", "live", "done"}]
        BY <2>1 DEF IInv, CreditTypes
      <3> QED BY <1>1, <2>2, <3>1 DEF IInv, CreditTypes
    <2>5. /\ phase'[x] = "running" /\ session'[x] = "requested"
          /\ \A y \in Execs : y # x => phase'[y] = phase[y] /\ session'[y] = session[y]
      BY <2>1 DEF IInv, CreditTypes
    <2>6. \A y \in Execs : credit'[y] + windowWire[y] + wire'[y]
                             = credit[y] + windowWire[y] + wire[y]
      BY <2>2 DEF IInv, CreditTypes
    <2>7. \A y \in Execs : credit[y] = 0 => credit'[y] = 0 /\ wire'[y] = wire[y]
      BY <2>2 DEF IInv, CreditTypes
    <2>8. NoCreditBeforeStart'
      BY <1>1, <2>3, <2>5, <2>7 DEF IInv, NoCreditBeforeStart
    <2>9. CreditCovered' BY <1>1, <2>5, <2>6 DEF IInv, CreditCovered
    <2>10. StdinCreditConserved'
      BY <1>1, <2>5, <2>6 DEF IInv, StdinCreditConserved
    <2>11. StdinNeverRejected' BY <1>1 DEF IInv, StdinNeverRejected
    <2> QED BY <2>4, <2>8, <2>9, <2>10, <2>11 DEF IInv
  <1> QED BY <1>2, <1>3

\* A window moves credit from its way to the host into the host's hands.
LEMMA RecvStdinWindowInv ==
  ASSUME IInv, NEW x \in Execs, NEW n \in 1 .. windowWire[x], RecvStdinWindow(x, n)
  PROVE  IInv'
  <1> DEFINE c == [credit EXCEPT ![x] = @ + n]
  <1>1. /\ windowWire' = [windowWire EXCEPT ![x] = @ - n]
        /\ UNCHANGED <<phase, session, guestCredit, controls, batch, lost>>
    BY DEF RecvStdinWindow, guestVars, workerVars
  <1>2. n \in Nat /\ n > 0 /\ n <= windowWire[x] /\ windowWire[x] - n \in Nat
    BY DEF IInv, CreditTypes
  <1>6. c \in [Execs -> Nat] /\ windowWire' \in [Execs -> Nat]
    BY <1>1, <1>2 DEF IInv, CreditTypes
  <1>3. session[x] \notin {"none", "requested"}
    BY <1>2 DEF IInv, NoCreditBeforeStart
  <1>4. CASE phase[x] = "running"
    <2>1. Flush({x}, queued, eofQueued, total, listed, c)
      BY <1>4 DEF RecvStdinWindow
    <2>2. /\ queued' \in [Execs -> Nat] /\ credit' \in [Execs -> Nat]
          /\ wire' \in [Execs -> Nat]
          /\ \A y \in Execs : /\ credit'[y] + wire'[y] = c[y] + wire[y]
                              /\ c[y] = 0 => wire'[y] = wire[y]
      <3> DEFINE ids == {x}
      <3>1. Flush(ids, queued, eofQueued, total, listed, c) BY <2>1
      <3>2. queued \in [Execs -> Nat] /\ wire \in [Execs -> Nat]
        BY DEF IInv, CreditTypes
      <3> HIDE DEF ids, c
      <3> QED BY <1>6, <3>1, <3>2, FlushMoves
    <2>3. CreditTypes' BY <1>1, <1>6, <2>2 DEF IInv, CreditTypes
    <2>9. \A y \in Execs : y # x => c[y] = credit[y] /\ windowWire'[y] = windowWire[y]
      BY <1>1 DEF IInv, CreditTypes
    <2>10. c[x] = credit[x] + n /\ windowWire'[x] = windowWire[x] - n
      BY <1>1 DEF IInv, CreditTypes
    <2> HIDE DEF c
    <2>11. \A y \in Execs : credit'[y] + windowWire'[y] + wire'[y]
                              = credit[y] + windowWire[y] + wire[y]
      <3> SUFFICES ASSUME NEW y \in Execs
                   PROVE  credit'[y] + windowWire'[y] + wire'[y]
                            = credit[y] + windowWire[y] + wire[y]
        OBVIOUS
      <3>1. /\ credit[y] \in Nat /\ windowWire[y] \in Nat /\ wire[y] \in Nat
            /\ credit'[y] \in Nat /\ windowWire'[y] \in Nat /\ wire'[y] \in Nat
        BY <2>3 DEF IInv, CreditTypes
      <3>2. credit'[y] + wire'[y] = c[y] + wire[y] BY <2>2
      <3>3. CASE y = x BY <1>2, <2>10, <3>1, <3>2, <3>3
      <3>4. CASE y # x BY <2>9, <3>1, <3>2, <3>4
      <3> QED BY <3>3, <3>4
    <2>12. \A y \in Execs : y # x /\ credit[y] = 0 =>
                              credit'[y] = 0 /\ wire'[y] = wire[y]
      <3> SUFFICES ASSUME NEW y \in Execs, y # x, credit[y] = 0
                   PROVE  credit'[y] = 0 /\ wire'[y] = wire[y]
        OBVIOUS
      <3>1. c[y] = 0 BY <2>9
      <3>2. credit'[y] + wire'[y] = 0 + wire[y] /\ wire'[y] = wire[y]
        BY <2>2, <3>1
      <3>3. credit'[y] \in Nat /\ wire'[y] \in Nat BY <2>3 DEF CreditTypes
      <3> QED BY <3>2, <3>3
    <2>4. NoCreditBeforeStart'
      BY <1>1, <1>3, <2>9, <2>12 DEF IInv, NoCreditBeforeStart
    <2>5. CreditCovered' BY <1>1, <2>11 DEF IInv, CreditCovered
    <2>6. StdinCreditConserved' BY <1>1, <2>11 DEF IInv, StdinCreditConserved
    <2>7. StdinNeverRejected' BY <1>1 DEF IInv, StdinNeverRejected
    <2> QED BY <2>3, <2>4, <2>5, <2>6, <2>7 DEF IInv
  <1>5. CASE phase[x] # "running"
    <2>1. UNCHANGED <<queued, credit, wire>>
      BY <1>5 DEF RecvStdinWindow, queueVars
    <2>2. CreditTypes' BY <1>1, <1>6, <2>1 DEF IInv, CreditTypes
    <2>3. NoCreditBeforeStart'
      BY <1>1, <1>3, <2>1 DEF IInv, CreditTypes, NoCreditBeforeStart
    <2>4. CreditCovered'
      BY <1>1, <1>2, <2>1 DEF IInv, CreditTypes, CreditCovered
    <2>5. StdinCreditConserved'
      BY <1>1, <1>5, <2>1 DEF IInv, CreditTypes, StdinCreditConserved
    <2>6. StdinNeverRejected' BY <1>1 DEF IInv, StdinNeverRejected
    <2> QED BY <2>2, <2>3, <2>4, <2>5, <2>6 DEF IInv
  <1> QED BY <1>4, <1>5

LEMMA FlushQueuedStdinInv ==
  ASSUME IInv, FlushQueuedStdin
  PROVE  IInv'
  <1> DEFINE passed(y)  == phase[y] # "running" \/ ~Blocked(y, queued, credit)
             reached(i) == \A j \in 1 .. i - 1 : passed(listed[j])
             ids == {listed[i] : i \in {k \in DOMAIN listed : reached(k)}}
             run == {x \in ids : phase[x] = "running"}
  <1>1. Flush(run, queued, eofQueued, total, listed, credit)
    BY DEF FlushQueuedStdin
  <1> HIDE DEF run
  <1>2. UNCHANGED <<phase, session, windowWire, guestCredit, controls, batch, lost>>
    BY DEF FlushQueuedStdin, guestVars, workerVars
  <1> QED BY <1>1, <1>2, FlushInv DEF IInv, CreditTypes

LEMMA GuestStartsInv ==
  ASSUME IInv, NEW x \in Execs, GuestStarts(x)
  PROVE  IInv'
  <1>1. /\ session[x] = "requested"
        /\ session' = [session EXCEPT ![x] = "live"]
        /\ guestCredit' = [guestCredit EXCEPT ![x] = GuestMax]
        /\ windowWire' = [windowWire EXCEPT ![x] = @ + GuestMax]
        /\ UNCHANGED <<phase, queued, credit, wire, controls, batch, lost>>
    BY DEF GuestStarts, hostVars, queueVars
  <1>2. /\ credit[x] = 0 /\ windowWire[x] = 0 /\ wire[x] = 0
        /\ controls[x] = 0 /\ batch[x] = 0
    BY <1>1 DEF IInv, NoCreditBeforeStart
  <1>3. GuestMax \in Nat BY StdinAssumption
  <1>4. CreditTypes' BY <1>1, <1>3 DEF IInv, CreditTypes
  <1>5. /\ session'[x] = "live" /\ guestCredit'[x] = GuestMax
        /\ windowWire'[x] = GuestMax
        /\ \A y \in Execs : y # x => /\ session'[y] = session[y]
                                     /\ guestCredit'[y] = guestCredit[y]
                                     /\ windowWire'[y] = windowWire[y]
    BY <1>1, <1>2, <1>3 DEF IInv, CreditTypes
  <1>6. NoCreditBeforeStart'
    BY <1>1, <1>5 DEF IInv, CreditTypes, NoCreditBeforeStart
  <1>7. CreditCovered' BY <1>1, <1>2, <1>3, <1>5 DEF IInv, CreditCovered
  <1>8. StdinCreditConserved'
    BY <1>1, <1>2, <1>3, <1>5 DEF IInv, StdinCreditConserved
  <1>9. StdinNeverRejected' BY <1>1 DEF IInv, StdinNeverRejected
  <1> QED BY <1>4, <1>6, <1>7, <1>8, <1>9 DEF IInv

\* What arrives is covered by credit, so there is room for it.
LEMMA GuestRecvStdinInv ==
  ASSUME IInv, NEW x \in Execs, NEW n \in 1 .. wire[x], GuestRecvStdin(x, n)
  PROVE  IInv'
  <1>1. /\ session[x] \in {"live", "done"}
        /\ wire' = [wire EXCEPT ![x] = @ - n]
        /\ UNCHANGED <<phase, session, queued, credit, windowWire, batch>>
    BY DEF GuestRecvStdin, hostVars, queueVars
  <1>2. n \in Nat /\ n > 0 /\ n <= wire[x] /\ wire[x] - n \in Nat
    BY DEF IInv, CreditTypes
  <1>3. wire' \in [Execs -> Nat] BY <1>1, <1>2 DEF IInv, CreditTypes
  <1>4. /\ wire'[x] = wire[x] - n
        /\ \A y \in Execs : y # x => wire'[y] = wire[y]
    BY <1>1 DEF IInv, CreditTypes
  <1>5. CASE session[x] = "done"
    <2>1. UNCHANGED <<controls, guestCredit, lost>> BY <1>5 DEF GuestRecvStdin
    <2>2. CreditTypes' BY <1>1, <1>3, <2>1 DEF IInv, CreditTypes
    <2>3. NoCreditBeforeStart'
      BY <1>1, <1>4, <1>5, <2>1 DEF IInv, NoCreditBeforeStart
    <2>4. CreditCovered' BY <1>1, <1>4, <1>5, <2>1 DEF IInv, CreditCovered
    <2>5. StdinCreditConserved'
      BY <1>1, <1>4, <1>5, <2>1 DEF IInv, StdinCreditConserved
    <2>6. StdinNeverRejected' BY <2>1 DEF IInv, StdinNeverRejected
    <2> QED BY <2>2, <2>3, <2>4, <2>5, <2>6 DEF IInv
  <1>6. CASE session[x] = "live"
    <2>1. /\ credit[x] \in Nat /\ windowWire[x] \in Nat /\ wire[x] \in Nat
          /\ guestCredit[x] \in Nat /\ controls[x] \in Nat /\ batch[x] \in Nat
      BY DEF IInv, CreditTypes
    <2>2. /\ credit[x] + windowWire[x] + wire[x] <= guestCredit[x]
          /\ guestCredit[x] + controls[x] + batch[x] = GuestMax
      BY <1>6 DEF IInv, CreditCovered, StdinCreditConserved
    <2>3. n <= guestCredit[x] /\ controls[x] + batch[x] + n <= GuestMax
      BY <1>2, <2>1, <2>2
    <2>4. /\ controls' = [controls EXCEPT ![x] = @ + n]
          /\ guestCredit' = [guestCredit EXCEPT ![x] = @ - n]
          /\ UNCHANGED lost
      BY <1>6, <2>3 DEF GuestRecvStdin
    <2>5. guestCredit[x] - n \in Nat BY <1>2, <2>1, <2>3
    <2>6. /\ controls'[x] = controls[x] + n /\ guestCredit'[x] = guestCredit[x] - n
          /\ \A y \in Execs : y # x => controls'[y] = controls[y]
                                       /\ guestCredit'[y] = guestCredit[y]
      BY <2>4 DEF IInv, CreditTypes
    <2>7. CreditTypes'
      <3>1. controls' \in [Execs -> Nat] /\ guestCredit' \in [Execs -> Nat]
        BY <1>2, <2>4, <2>5 DEF IInv, CreditTypes
      <3> QED BY <1>1, <1>3, <3>1 DEF IInv, CreditTypes
    <2>8. NoCreditBeforeStart'
      BY <1>1, <1>4, <1>6, <2>6 DEF IInv, NoCreditBeforeStart
    <2>9. CreditCovered'
      BY <1>1, <1>2, <1>4, <2>1, <2>2, <2>6 DEF IInv, CreditCovered
    <2>10. StdinCreditConserved'
      BY <1>1, <1>2, <1>4, <1>6, <2>1, <2>6 DEF IInv, StdinCreditConserved
    <2>11. StdinNeverRejected' BY <2>4 DEF IInv, StdinNeverRejected
    <2> QED BY <2>7, <2>8, <2>9, <2>10, <2>11 DEF IInv
  <1> QED BY <1>1, <1>5, <1>6

LEMMA WorkerSwapsInv ==
  ASSUME IInv, NEW x \in Execs, WorkerSwaps(x)
  PROVE  IInv'
  <1>1. /\ session[x] = "live" /\ batch[x] = 0
        /\ batch' = [batch EXCEPT ![x] = controls[x]]
        /\ controls' = [controls EXCEPT ![x] = 0]
        /\ UNCHANGED <<phase, session, queued, credit, wire, windowWire, guestCredit,
                       lost>>
    BY DEF WorkerSwaps, Polling, hostVars, queueVars, portVars
  <1>2. CreditTypes' BY <1>1 DEF IInv, CreditTypes
  <1>3. /\ batch'[x] = controls[x] /\ controls'[x] = 0
        /\ \A y \in Execs : y # x => batch'[y] = batch[y] /\ controls'[y] = controls[y]
    BY <1>1 DEF IInv, CreditTypes
  <1>4. NoCreditBeforeStart' BY <1>1, <1>3 DEF IInv, NoCreditBeforeStart
  <1>5. CreditCovered' BY <1>1 DEF IInv, CreditCovered
  <1>6. StdinCreditConserved'
    BY <1>1, <1>3 DEF IInv, CreditTypes, StdinCreditConserved
  <1>7. StdinNeverRejected' BY <1>1 DEF IInv, StdinNeverRejected
  <1> QED BY <1>2, <1>4, <1>5, <1>6, <1>7 DEF IInv

\* The room there is allows the whole grant, so no credit is lost.
LEMMA WorkerWritesInv ==
  ASSUME IInv, NEW x \in Execs, NEW n \in 1 .. batch[x], WorkerWrites(x, n)
  PROVE  IInv'
  <1>1. /\ session[x] = "live"
        /\ batch' = [batch EXCEPT ![x] = @ - n]
        /\ guestCredit' = [guestCredit EXCEPT ![x] = @ + Grant(x, n)]
        /\ windowWire' = [windowWire EXCEPT ![x] = @ + Grant(x, n)]
        /\ UNCHANGED <<phase, session, queued, credit, wire, controls, lost>>
    BY DEF WorkerWrites, hostVars, queueVars
  <1>2. /\ credit[x] \in Nat /\ windowWire[x] \in Nat /\ wire[x] \in Nat
        /\ guestCredit[x] \in Nat /\ controls[x] \in Nat /\ batch[x] \in Nat
        /\ n \in Nat /\ n <= batch[x] /\ batch[x] - n \in Nat
    BY DEF IInv, CreditTypes
  <1>3. /\ credit[x] + windowWire[x] + wire[x] <= guestCredit[x]
        /\ guestCredit[x] + controls[x] + batch[x] = GuestMax
    BY <1>1 DEF IInv, CreditCovered, StdinCreditConserved
  <1>4. Grant(x, n) = n
    <2>1. GuestMax - (controls[x] + batch[x] - n + guestCredit[x]) = n
      BY <1>2, <1>3
    <2> QED BY <1>2, <2>1 DEF Grant, Least
  <1>5. /\ batch'[x] = batch[x] - n
        /\ guestCredit'[x] = guestCredit[x] + n /\ windowWire'[x] = windowWire[x] + n
        /\ \A y \in Execs : y # x => /\ batch'[y] = batch[y]
                                     /\ guestCredit'[y] = guestCredit[y]
                                     /\ windowWire'[y] = windowWire[y]
    BY <1>1, <1>4 DEF IInv, CreditTypes
  <1>6. CreditTypes'
    <2>1. /\ batch' \in [Execs -> Nat] /\ guestCredit' \in [Execs -> Nat]
          /\ windowWire' \in [Execs -> Nat]
      BY <1>1, <1>2, <1>4 DEF IInv, CreditTypes
    <2> QED BY <1>1, <2>1 DEF IInv, CreditTypes
  <1>7. NoCreditBeforeStart' BY <1>1, <1>5 DEF IInv, NoCreditBeforeStart
  <1>8. CreditCovered' BY <1>1, <1>2, <1>3, <1>5 DEF IInv, CreditCovered
  <1>9. StdinCreditConserved'
    BY <1>1, <1>2, <1>3, <1>5 DEF IInv, StdinCreditConserved
  <1>10. StdinNeverRejected' BY <1>1 DEF IInv, StdinNeverRejected
  <1> QED BY <1>6, <1>7, <1>8, <1>9, <1>10 DEF IInv

LEMMA WorkerEndsInv ==
  ASSUME IInv, NEW x \in Execs, WorkerEnds(x)
  PROVE  IInv'
  <1>1. /\ session[x] = "live" /\ session' = [session EXCEPT ![x] = "done"]
        /\ UNCHANGED <<phase, queued, credit, wire, windowWire, guestCredit, controls,
                       batch, lost>>
    BY DEF WorkerEnds, Polling, hostVars, queueVars, portVars
  <1>2. CreditTypes' BY <1>1 DEF IInv, CreditTypes
  <1>3. /\ session'[x] = "done"
        /\ \A y \in Execs : y # x => session'[y] = session[y]
    BY <1>1 DEF IInv, CreditTypes
  <1>4. NoCreditBeforeStart' BY <1>1, <1>3 DEF IInv, NoCreditBeforeStart
  <1>5. CreditCovered' BY <1>1, <1>3 DEF IInv, CreditCovered
  <1>6. StdinCreditConserved' BY <1>1, <1>3 DEF IInv, StdinCreditConserved
  <1>7. StdinNeverRejected' BY <1>1 DEF IInv, StdinNeverRejected
  <1> QED BY <1>2, <1>4, <1>5, <1>6, <1>7 DEF IInv

-----------------------------------------------------------------------------
LEMMA NextInv == IInv /\ [Next]_vars => IInv'
  <1> SUFFICES ASSUME IInv, [Next]_vars PROVE IInv' OBVIOUS
  <1> USE DEF hostVars, queueVars, portVars, bridgeVars, workerVars, guestVars,
              creditVars
  <1>1. ASSUME NEW x \in Execs, Client(x) PROVE IInv'
    <2>1. PICK n \in 0 .. unsent[x], e \in BOOLEAN :
            HandleStdin(x, n, e) \/ RefuseStdin(x, n, e)
      BY <1>1 DEF Client
    <2>2. n \in Nat OBVIOUS
    <2>3. CASE RefuseStdin(x, n, e) BY <2>3, UnchangedInv DEF RefuseStdin
    <2> QED BY <2>1, <2>2, <2>3, HandleStdinInv
  <1>2. ASSUME NEW x \in Execs, Host(x) PROVE IInv'
    <2>1. ASSUME RecvExecResponse(x) PROVE IInv'
      BY <2>1, OverInv DEF RecvExecResponse
    <2> QED BY <1>2, <2>1, StartExecNowInv, RecvStdinWindowInv DEF Host
  <1>3. ASSUME NEW x \in Execs, Guest(x) PROVE IInv'
    <2>1. ASSUME GuestRecvEof(x) PROVE IInv'
      BY <2>1, UnchangedInv DEF GuestRecvEof
    <2> QED BY <1>3, <2>1, GuestStartsInv, GuestRecvStdinInv DEF Guest
  <1>4. ASSUME NEW x \in Execs, Worker(x) PROVE IInv'
    <2>1. ASSUME WorkerClosesStdin(x) PROVE IInv'
      BY <2>1, UnchangedInv DEF WorkerClosesStdin
    <2>2. ASSUME WorkerReads(x) PROVE IInv'
      BY <2>2, UnchangedInv DEF WorkerReads
    <2> QED BY <1>4, <2>1, <2>2, WorkerSwapsInv, WorkerEndsInv, WorkerWritesInv
        DEF Worker
  <1>5. ASSUME NEW x \in Execs, ProcessCopies(x) PROVE IInv'
    BY <1>5, UnchangedInv DEF ProcessCopies
  <1>6. ASSUME NEW x \in Execs, ProcessExits(x) PROVE IInv'
    BY <1>6, UnchangedInv DEF ProcessExits
  <1>7. ASSUME NEW x \in Execs, Disconnect(x) PROVE IInv'
    BY <1>7, OverInv DEF Disconnect
  <1>8. CASE BridgeFills BY <1>8, UnchangedInv DEF BridgeFills
  <1>9. CASE BridgeDrains BY <1>9, UnchangedInv DEF BridgeDrains
  <1>10. CASE UNCHANGED vars BY <1>10, UnchangedInv DEF vars
  <1> QED BY <1>1, <1>2, <1>3, <1>4, <1>5, <1>6, <1>7, <1>8, <1>9, <1>10,
             FlushQueuedStdinInv DEF Next

\* In every run: what the host may still send is what the guest has given out, and
\* with what waits in the worker it is the guest's whole buffer (stdin_window,
\* flushQueuedStdinFor, main.zig's stdin_credit_inflight).
THEOREM CreditConservedAlways == Spec => []StdinCreditConserved
  <1>1. IInv => StdinCreditConserved BY DEF IInv
  <1> QED BY InitInv, NextInv, <1>1, PTL DEF Spec

\* In every run: the guest never rejects stdin for want of credit or room
\* (enqueueExecInput), so a host that keeps to its credit loses no input.
THEOREM NeverRejectedAlways == Spec => []StdinNeverRejected
  <1>1. IInv => StdinNeverRejected BY DEF IInv
  <1> QED BY InitInv, NextInv, <1>1, PTL DEF Spec


-----------------------------------------------------------------------------
(* Lists and numbers of bytes.                                             *)

\* no exec is listed twice
Distinct(l) == \A i, j \in DOMAIN l : l[i] = l[j] => i = j

LEMMA OnlyKeeps ==
  ASSUME NEW l \in Seq(Execs), Distinct(l), NEW S, NEW k \in Only(l, S)
  PROVE  k \in Seq(Execs) /\ Distinct(k) /\ ToSet(k) = ToSet(l) \cap S
  <1> DEFINE P == {i \in DOMAIN l : l[i] \in S}
             n == Cardinality(P)
  <1>1. DOMAIN l = 1 .. Len(l) /\ Len(l) \in Nat OBVIOUS
  <1>2. IsFiniteSet(P)
    <2>1. IsFiniteSet(1 .. Len(l)) BY <1>1, FS_Interval
    <2>2. P \in SUBSET (1 .. Len(l)) BY <1>1
    <2> QED BY <2>1, <2>2, FS_Subset
  <1>3. n \in Nat BY <1>2, FS_CardinalityType
  <1>4. PICK at \in InOrder(P) : k = [i \in DOMAIN at |-> l[at[i]]]
    BY DEF Only, Filtered
  <1>5. /\ at \in [1 .. n -> P] /\ DOMAIN at = 1 .. n
        /\ \A i, j \in 1 .. n : i < j => at[i] < at[j]
    BY <1>4 DEF InOrder
  <1>6. /\ \A p \in P : p \in 1 .. Len(l) /\ l[p] \in S
        /\ \A p \in 1 .. Len(l) : l[p] \in Execs
    BY <1>1
  <1>7. \A p \in 1 .. Len(l) : l[p] \in S => p \in P
    BY <1>1
  <1> HIDE DEF n, P
  <1>8. /\ k \in [1 .. n -> Execs] /\ DOMAIN k = 1 .. n
        /\ \A i \in 1 .. n : k[i] = l[at[i]] /\ at[i] \in 1 .. Len(l)
    <2>1. \A i \in 1 .. n : at[i] \in P BY <1>5
    <2>2. \A i \in 1 .. n : at[i] \in 1 .. Len(l) /\ l[at[i]] \in Execs
      BY <1>6, <2>1
    <2>3. k = [i \in 1 .. n |-> l[at[i]]] BY <1>4, <1>5
    <2> QED BY <2>2, <2>3
  <1>9. k \in Seq(Execs) BY <1>3, <1>8
  <1>10. \A i, j \in 1 .. n : at[i] = at[j] => i = j
    <2> SUFFICES ASSUME NEW i \in 1 .. n, NEW j \in 1 .. n, at[i] = at[j] PROVE i = j
      OBVIOUS
    <2>1. at[i] \in Int /\ at[j] \in Int BY <1>1, <1>8
    <2> QED BY <1>3, <1>5, <2>1
  <1>11. Distinct(k) BY <1>1, <1>5, <1>6, <1>8, <1>10 DEF Distinct
  <1>12. \A p \in P : \E i \in 1 .. n : at[i] = p
    <2>1. at \in Injection(1 .. n, P) BY <1>5, <1>10 DEF Injection, IsInjective
    <2>2. Cardinality(1 .. n) = Cardinality(P) BY <1>3, FS_Interval DEF n
    <2>3. at \in Surjection(1 .. n, P) BY <1>2, <2>1, <2>2, FS_Injection
    <2> QED BY <2>3 DEF Surjection
  <1>13. ToSet(k) = ToSet(l) \cap S
    <2>1. ToSet(k) \subseteq ToSet(l) \cap S
      BY <1>1, <1>5, <1>6, <1>8 DEF ToSet
    <2>2. ASSUME NEW y \in ToSet(l), y \in S PROVE y \in ToSet(k)
      <3>1. PICK p \in 1 .. Len(l) : y = l[p] BY <1>1 DEF ToSet
      <3>2. p \in P BY <1>7, <2>2, <3>1
      <3>3. PICK i \in 1 .. n : at[i] = p BY <1>12, <3>2
      <3> QED BY <1>8, <3>1, <3>3 DEF ToSet
    <2> QED BY <2>1, <2>2
  <1> QED BY <1>9, <1>11, <1>13

\* A list without repetitions is as long as its set is large.
LEMMA DistinctLength ==
  ASSUME NEW l \in Seq(Execs), Distinct(l)
  PROVE  Len(l) = Cardinality(ToSet(l))
  <1>1. l \in [1 .. Len(l) -> Execs] /\ DOMAIN l = 1 .. Len(l) /\ Len(l) \in Nat OBVIOUS
  <1>2. l \in Bijection(1 .. Len(l), ToSet(l))
    <2>1. l \in [1 .. Len(l) -> ToSet(l)] BY <1>1 DEF ToSet
    <2>2. \A t \in ToSet(l) : \E s \in 1 .. Len(l) : l[s] = t BY <1>1 DEF ToSet
    <2>3. \A i, j \in 1 .. Len(l) : l[i] = l[j] => i = j BY <1>1 DEF Distinct
    <2> QED BY <2>1, <2>2, <2>3 DEF Bijection, Injection, Surjection, IsInjective
  <1>3. ExistsBijection(1 .. Len(l), ToSet(l)) BY <1>2 DEF ExistsBijection
  <1> QED BY <1>1, <1>3, FS_CountingElements

-----------------------------------------------------------------------------
\* the bytes that Bytes counts
BytesOf(f, S) == UNION {{x} \X (1 .. f[x]) : x \in S}

LEMMA BytesOfIs ==
  ASSUME NEW f, NEW S
  PROVE  \A b : b \in BytesOf(f, S)
                  <=> \E x \in S : \E i \in 1 .. f[x] : b = <<x, i>>
  <1> SUFFICES ASSUME NEW b
               PROVE  b \in BytesOf(f, S) <=> \E x \in S : \E i \in 1 .. f[x] : b = <<x, i>>
    OBVIOUS
  <1>1. b \in BytesOf(f, S) <=> \E x \in S : b \in {x} \X (1 .. f[x])
    BY DEF BytesOf
  <1>2. ASSUME NEW x \in S
        PROVE  b \in {x} \X (1 .. f[x]) <=> \E i \in 1 .. f[x] : b = <<x, i>>
    OBVIOUS
  <1> QED BY <1>1, <1>2

LEMMA BytesFinite ==
  ASSUME NEW f \in [Execs -> Nat], NEW S \in SUBSET Execs
  PROVE  /\ IsFiniteSet(BytesOf(f, S)) /\ Bytes(f, S) = Cardinality(BytesOf(f, S))
         /\ Bytes(f, S) \in Nat
  <1> DEFINE part == [x \in S |-> {x} \X (1 .. f[x])]
             parts == {{x} \X (1 .. f[x]) : x \in S}
  <1>1. IsFiniteSet(S) BY StdinAssumption, FS_Subset
  <1>2. part \in Surjection(S, parts) BY DEF Surjection
  <1>3. IsFiniteSet(parts) BY <1>1, <1>2, FS_Surjection
  <1>4. ASSUME NEW T \in parts PROVE IsFiniteSet(T)
    <2>1. PICK x \in S : T = {x} \X (1 .. f[x]) BY <1>4
    <2>2. IsFiniteSet({x}) BY FS_Singleton
    <2>3. f[x] \in Int BY <2>1
    <2>4. IsFiniteSet(1 .. f[x]) BY <2>3, FS_Interval
    <2>5. PICK U : U = {x} OBVIOUS
    <2>6. PICK V : V = 1 .. f[x] OBVIOUS
    <2>7. IsFiniteSet(U \X V) BY <2>2, <2>4, <2>5, <2>6, FS_Product
    <2> QED BY <2>1, <2>5, <2>6, <2>7
  <1>5. IsFiniteSet(UNION parts)
    <2> HIDE DEF parts
    <2> QED BY <1>3, <1>4, FS_UNION
  <1>6. BytesOf(f, S) = UNION parts BY DEF BytesOf
  <1>7. Bytes(f, S) = Cardinality(BytesOf(f, S)) BY DEF Bytes, BytesOf
  <1> HIDE DEF parts
  <1>8. Cardinality(BytesOf(f, S)) \in Nat
    BY <1>5, <1>6, FS_CardinalityType
  <1> QED BY <1>5, <1>6, <1>7, <1>8

\* g is what taken has left of the queues f
Leaves(f, taken, g) == \A x \in Execs : taken[x] <= f[x] /\ g[x] = f[x] - taken[x]
\* only execs of S give something
From(taken, S) == \A x \in Execs : x \notin S => taken[x] = 0

\* What a flush takes taken of the queues of S is what is missing in them.
LEMMA BytesTaken ==
  ASSUME NEW f \in [Execs -> Nat], NEW taken \in [Execs -> Nat], NEW S \in SUBSET Execs,
         NEW g \in [Execs -> Nat], Leaves(f, taken, g), From(taken, S)
  PROVE  Bytes(g, Execs) = Bytes(f, Execs) - Bytes(taken, S)
  <1> DEFINE F == BytesOf(f, Execs)
             G == BytesOf(g, Execs)
             O == BytesOf(taken, S)
  <1>0. \A x \in Execs : f[x] \in Nat /\ taken[x] \in Nat /\ g[x] = f[x] - taken[x] /\ g[x] \in Nat
    BY DEF Leaves
  <1>2. /\ IsFiniteSet(F) /\ IsFiniteSet(O) /\ Bytes(f, Execs) = Cardinality(F)
        /\ Bytes(g, Execs) = Cardinality(G) /\ Bytes(taken, S) = Cardinality(O)
        /\ IsFiniteSet(G)
    BY BytesFinite
  <1>3. \A b : b \in F <=> \E x \in Execs : \E i \in 1 .. f[x] : b = <<x, i>>
    BY BytesOfIs
  <1>4. \A b : b \in G <=> \E x \in Execs : \E i \in 1 .. g[x] : b = <<x, i>>
    BY BytesOfIs
  <1>5. \A b : b \in O <=> \E x \in S : \E i \in 1 .. taken[x] : b = <<x, i>>
    BY BytesOfIs
  <1> HIDE DEF F, G, O
  <1>6. F \cap G = G
    <2>1. ASSUME NEW b \in G PROVE b \in F
      <3>1. PICK x \in Execs : \E i \in 1 .. g[x] : b = <<x, i>> BY <1>4, <2>1
      <3>2. PICK i \in 1 .. g[x] : b = <<x, i>> BY <3>1
      <3>3. i \in 1 .. f[x] BY <1>0, <3>2
      <3> QED BY <1>3, <3>2, <3>3
    <2> QED BY <2>1
  <1> DEFINE move == [b \in O |-> <<b[1], g[b[1]] + b[2]>>]
  <1>7. \A x \in S : \A i \in 1 .. taken[x] : <<x, i>> \in O /\ move[<<x, i>>] = <<x, g[x] + i>>
    BY <1>5
  <1>8. move \in Bijection(O, F \ G)
    <2>1. ASSUME NEW b \in O PROVE move[b] \in F \ G
      <3>1. PICK x \in S : \E i \in 1 .. taken[x] : b = <<x, i>> BY <1>5, <2>1
      <3>2. PICK i \in 1 .. taken[x] : b = <<x, i>> BY <3>1
      <3>3. move[b] = <<x, g[x] + i>> BY <1>7, <3>2
      <3>4. g[x] + i \in 1 .. f[x] /\ g[x] + i \notin 1 .. g[x] BY <1>0, <3>2
      <3>5. move[b] \in F BY <1>3, <3>3, <3>4
      <3>6. move[b] \notin G
        <4> SUFFICES ASSUME move[b] \in G PROVE FALSE OBVIOUS
        <4>1. PICK y \in Execs : \E j \in 1 .. g[y] : move[b] = <<y, j>> BY <1>4
        <4>2. PICK j \in 1 .. g[y] : move[b] = <<y, j>> BY <4>1
        <4> QED BY <3>3, <3>4, <4>2
      <3> QED BY <3>5, <3>6
    <2>2. ASSUME NEW b \in O, NEW c \in O, move[b] = move[c] PROVE b = c
      <3>1. PICK x \in S : \E i \in 1 .. taken[x] : b = <<x, i>> BY <1>5, <2>2
      <3>2. PICK i \in 1 .. taken[x] : b = <<x, i>> BY <3>1
      <3>3. PICK y \in S : \E j \in 1 .. taken[y] : c = <<y, j>> BY <1>5, <2>2
      <3>4. PICK j \in 1 .. taken[y] : c = <<y, j>> BY <3>3
      <3>5. move[b] = <<x, g[x] + i>> /\ move[c] = <<y, g[y] + j>> BY <1>7, <3>2, <3>4
      <3>6. x = y /\ g[x] + i = g[x] + j BY <2>2, <3>5
      <3>7. g[x] \in Nat /\ i \in Int /\ j \in Int BY <1>0, <3>2, <3>4
      <3> QED BY <3>2, <3>4, <3>6, <3>7
    <2>3. ASSUME NEW d \in F \ G PROVE \E b \in O : move[b] = d
      <3>1. PICK x \in Execs : \E i \in 1 .. f[x] : d = <<x, i>> BY <1>3, <2>3
      <3>2. PICK i \in 1 .. f[x] : d = <<x, i>> BY <3>1
      <3>3. i \notin 1 .. g[x] BY <1>4, <2>3, <3>2
      <3>4. i - g[x] \in 1 .. taken[x] /\ g[x] + (i - g[x]) = i BY <1>0, <3>2, <3>3
      <3>5. x \in S BY <1>0, <3>4 DEF From
      <3> QED BY <1>7, <3>2, <3>4, <3>5
    <2>4. move \in [O -> F \ G] BY <2>1
    <2> HIDE DEF move
    <2> QED BY <2>2, <2>3, <2>4 DEF Bijection, Injection, Surjection, IsInjective
  <1>9. Cardinality(F \ G) = Cardinality(O)
    <2>1. ExistsBijection(O, F \ G) BY <1>8 DEF ExistsBijection
    <2>2. PICK D : D = F \ G OBVIOUS
    <2> QED BY <1>2, <2>1, <2>2, FS_Bijection
  <1>10. Cardinality(F \ G) = Cardinality(F) - Cardinality(G)
    <2>1. Cardinality(F \ G) = Cardinality(F) - Cardinality(F \cap G)
      BY <1>2, FS_Difference
    <2> QED BY <1>6, <2>1
  <1>11. Cardinality(F) \in Nat /\ Cardinality(G) \in Nat /\ Cardinality(O) \in Nat
    BY <1>2, FS_CardinalityType
  <1> QED BY <1>2, <1>9, <1>10, <1>11

\* The bytes of one queue.
LEMMA BytesOfOne ==
  ASSUME NEW f \in [Execs -> Nat], NEW x \in Execs
  PROVE  Bytes(f, {x}) = f[x]
  <1> DEFINE one == {x} \X (1 .. f[x])
  <1>1. f[x] \in Nat OBVIOUS
  <1>2. UNION {{y} \X (1 .. f[y]) : y \in {x}} = one OBVIOUS
  <1>3. Bytes(f, {x}) = Cardinality(one) BY <1>2 DEF Bytes
  <1>4. PICK U : U = {x} OBVIOUS
  <1>5. PICK V : V = 1 .. f[x] OBVIOUS
  <1>6. /\ IsFiniteSet(U) /\ Cardinality(U) = 1
        /\ IsFiniteSet(V) /\ Cardinality(V) = f[x]
    <2>1. f[x] \in Int /\ 1 \in Int BY <1>1
    <2>2. IsFiniteSet(1 .. f[x]) /\ Cardinality(1 .. f[x]) = f[x]
      BY <1>1, <2>1, FS_Interval
    <2> QED BY <1>4, <1>5, <2>2, FS_Singleton
  <1>7. Cardinality(U \X V) = 1 * f[x] BY <1>6, FS_Product
  <1> QED BY <1>1, <1>3, <1>4, <1>5, <1>7

\* One queue grows by n bytes.
LEMMA BytesAdded ==
  ASSUME NEW f \in [Execs -> Nat], NEW x \in Execs, NEW n \in Nat,
         NEW g \in [Execs -> Nat], g[x] = f[x] + n,
         \A y \in Execs : y # x => g[y] = f[y]
  PROVE  Bytes(g, Execs) = Bytes(f, Execs) + n
  <1> DEFINE out == [y \in Execs |-> IF y = x THEN n ELSE 0]
  <1>1. out \in [Execs -> Nat] /\ out[x] = n OBVIOUS
  <1>2. Leaves(g, out, f) BY DEF Leaves
  <1>3. From(out, {x}) BY DEF From
  <1> HIDE DEF out
  <1>6. Bytes(f, Execs) = Bytes(g, Execs) - Bytes(out, {x})
    BY <1>1, <1>2, <1>3, BytesTaken
  <1>4. Bytes(out, {x}) = n BY <1>1, BytesOfOne
  <1>5. Bytes(f, Execs) \in Nat /\ Bytes(g, Execs) \in Nat BY BytesFinite
  <1> QED BY <1>4, <1>5, <1>6

-----------------------------------------------------------------------------
(* What is counted is what is queued, and the end comes behind it.          *)

QueueTypes ==
  /\ unsent \in [Execs -> Nat] /\ eofGiven \in [Execs -> BOOLEAN]
  /\ oversized \in [Execs -> Nat] /\ eofQueued \in [Execs -> BOOLEAN]
  /\ total \in Nat /\ ioFlushDue \in BOOLEAN
  /\ bridgeFull \in BOOLEAN /\ congestions \in Nat
  /\ eofWire \in [Execs -> BOOLEAN]
  /\ eofControls \in [Execs -> BOOLEAN] /\ eofBatch \in [Execs -> BOOLEAN]
  /\ stdinClosed \in [Execs -> BOOLEAN] /\ exited \in [Execs -> BOOLEAN]
  /\ inPipe \in [Execs -> 0 .. PipeSize] /\ outPipe \in [Execs -> 0 .. PipeSize]

\* the total t and the list l are those of the queues q with the marks e
AccountedFor(q, e, t, l) ==
  /\ t = Bytes(q, Execs) /\ t <= MaxTotalQueued
  /\ \A x \in Execs : q[x] <= MaxQueued
  /\ l \in Seq(Execs) /\ Distinct(l)
  /\ ToSet(l) = {x \in Execs : q[x] > 0 \/ e[x]}

Accounted == AccountedFor(queued, eofQueued, total, listed)

\* wherever the mark for the end of input is, no input is behind it
EofBehind(x) ==
  /\ (eofQueued[x] \/ eofWire[x] \/ eofControls[x] \/ eofBatch[x]
        \/ (stdinClosed[x] /\ ~exited[x])) => eofGiven[x]
  /\ eofWire[x] => queued[x] = 0
  /\ eofControls[x] => queued[x] = 0 /\ wire[x] = 0
  /\ eofBatch[x] => queued[x] = 0 /\ wire[x] = 0 /\ controls[x] = 0
  /\ stdinClosed[x] /\ ~exited[x] =>
       queued[x] = 0 /\ wire[x] = 0 /\ controls[x] = 0 /\ batch[x] = 0

EofBehindInput == \A x \in Execs : EofBehind(x)

QInv == QueueTypes /\ Accounted /\ EofBehindInput

LEMMA InitQ == Init => QInv
  <1> SUFFICES ASSUME Init PROVE QInv OBVIOUS
  <1>1. QueueTypes
    <2>1. 0 \in 0 .. PipeSize BY StdinAssumption
    <2> QED BY <2>1, StdinAssumption DEF Init, QueueTypes, Zero, No
  <1>2. Accounted
    <2>1. queued \in [Execs -> Nat] /\ \A x \in Execs : queued[x] = 0 /\ ~eofQueued[x]
      BY DEF Init, Zero, No
    <2>2. Bytes(queued, Execs) = 0
      <3>1. BytesOf(queued, Execs) = {}
        <4>1. ~ \E b : b \in BytesOf(queued, Execs)
          BY <2>1, BytesOfIs
        <4> QED BY <4>1
      <3>2. Bytes(queued, Execs) = Cardinality(BytesOf(queued, Execs))
        BY <2>1, BytesFinite
      <3> QED BY <3>1, <3>2, FS_EmptySet
    <2>3. listed = <<>> /\ total = 0 BY DEF Init
    <2>4. listed \in Seq(Execs) /\ Distinct(listed) /\ ToSet(listed) = {}
      BY <2>3 DEF Distinct, ToSet
    <2> QED BY <2>1, <2>2, <2>3, <2>4, StdinAssumption DEF Accounted, AccountedFor
  <1>3. EofBehindInput
    BY DEF Init, EofBehindInput, EofBehind, No
  <1> QED BY <1>1, <1>2, <1>3 DEF QInv

\* A flush of the queues q with the marks e, when they are accounted for.
LEMMA FlushKeepsAccount ==
  ASSUME NEW ids \in SUBSET Execs, NEW q \in [Execs -> Nat], NEW e \in [Execs -> BOOLEAN],
         NEW t, NEW l, AccountedFor(q, e, t, l),
         NEW c \in [Execs -> Nat], wire \in [Execs -> Nat],
         eofWire \in [Execs -> BOOLEAN], Flush(ids, q, e, t, l, c)
  PROVE  /\ Accounted' /\ queued' \in [Execs -> Nat] /\ eofQueued' \in [Execs -> BOOLEAN]
         /\ total' \in Nat /\ eofWire' \in [Execs -> BOOLEAN]
         /\ \A x \in Execs : /\ q[x] = 0 => queued'[x] = 0 /\ wire'[x] = wire[x]
                             /\ eofQueued'[x] => e[x]
                             /\ eofWire'[x] => eofWire[x] \/ (e[x] /\ queued'[x] = 0)
  <1> DEFINE out == [x \in Execs |-> IF x \in ids /\ ~bridgeFull
                                     THEN BytesOut(q[x], c[x]) ELSE 0]
             ends == {x \in ids : e[x] /\ ~bridgeFull /\ EofMayGo(q[x], c[x])}
             stay == {x \in Execs : q[x] > out[x] \/ (e[x] /\ x \notin ends)}
  <1>1. ASSUME NEW x \in Execs
        PROVE  /\ out[x] \in Nat /\ out[x] <= q[x]
               /\ x \notin ids => out[x] = 0
               /\ x \in ends => out[x] = q[x]
    BY <1>1, LeastIs DEF BytesOut, EofMayGo, Least
  <1>2. /\ queued' = [x \in Execs |-> q[x] - out[x]]
        /\ eofQueued' = [x \in Execs |-> e[x] /\ x \notin ends]
        /\ total' = t - Bytes(out, ids)
        /\ listed' \in Only(l, stay)
        /\ wire' = [x \in Execs |-> wire[x] + out[x]]
        /\ eofWire' = [x \in Execs |-> eofWire[x] \/ x \in ends]
    BY DEF Flush
  <1>3. stay = {x \in Execs : queued'[x] > 0 \/ eofQueued'[x]}
    <2>1. ASSUME NEW x \in Execs
          PROVE  /\ queued'[x] > 0 <=> q[x] > out[x]
                 /\ eofQueued'[x] <=> e[x] /\ x \notin ends
      <3>1. queued'[x] = q[x] - out[x] /\ q[x] \in Nat BY <1>2
      <3>2. queued'[x] > 0 <=> q[x] > out[x] BY <1>1, <3>1
      <3>3. eofQueued'[x] <=> e[x] /\ x \notin ends BY <1>2
      <3> QED BY <3>2, <3>3
    <2> HIDE DEF out, ends
    <2> QED BY <2>1
  <1>4. out \in [Execs -> Nat] BY <1>1
  <1>5. \A x \in ends : e[x] BY DEF ends
  <1> HIDE DEF out, ends, stay
  <1>6. queued' \in [Execs -> Nat] /\ \A x \in Execs : queued'[x] = q[x] - out[x]
    <2>1. \A x \in Execs : q[x] - out[x] \in Nat BY <1>1
    <2> QED BY <1>2, <2>1
  <1>7. total' = Bytes(queued', Execs)
    <2>1. PICK g : g = queued' OBVIOUS
    <2>2. PICK o : o = out OBVIOUS
    <2>3. g \in [Execs -> Nat] /\ o \in [Execs -> Nat] BY <1>4, <1>6, <2>1, <2>2
    <2>4. Leaves(q, o, g) /\ From(o, ids)
      BY <1>1, <1>6, <2>1, <2>2 DEF Leaves, From
    <2>5. Bytes(g, Execs) = Bytes(q, Execs) - Bytes(o, ids)
      <3> HIDE <2>1, <2>2
      <3> QED BY <2>3, <2>4, BytesTaken
    <2>6. t = Bytes(q, Execs) BY DEF AccountedFor
    <2> QED BY <1>2, <2>1, <2>2, <2>5, <2>6
  <1>8. total' \in Nat /\ total' <= t
    <2>1. Bytes(queued', Execs) \in Nat
      <3>1. PICK g : g = queued' OBVIOUS
      <3>2. g \in [Execs -> Nat] BY <1>6, <3>1
      <3>3. Bytes(g, Execs) \in Nat BY <3>2, BytesFinite
      <3> QED BY <3>1, <3>3
    <2>2. Bytes(out, ids) \in Nat /\ t \in Nat BY <1>4, BytesFinite DEF AccountedFor
    <2> QED BY <1>2, <1>7, <2>1, <2>2
  <1>9. listed' \in Seq(Execs) /\ Distinct(listed') /\ ToSet(listed') = stay
    <2>1. PICK k \in Only(l, stay) : listed' = k BY <1>2
    <2>2. k \in Seq(Execs) /\ Distinct(k) /\ ToSet(k) = ToSet(l) \cap stay
      BY OnlyKeeps DEF AccountedFor
    <2>3. stay \subseteq ToSet(l)
      BY <1>1 DEF stay, AccountedFor
    <2> QED BY <2>1, <2>2, <2>3
  <1>10. Accounted'
    <2>1. t \in Nat /\ t <= MaxTotalQueued BY BytesFinite DEF AccountedFor
    <2>2. total' <= MaxTotalQueued BY <1>8, <2>1, StdinAssumption
    <2>3. ASSUME NEW x \in Execs PROVE queued'[x] <= MaxQueued
      <3>1. q[x] <= MaxQueued BY DEF AccountedFor
      <3>2. MaxQueued \in Nat /\ q[x] \in Nat BY StdinAssumption
      <3>3. out[x] \in Nat /\ queued'[x] = q[x] - out[x] BY <1>1, <1>6
      <3> QED BY <3>1, <3>2, <3>3
    <2> QED BY <1>3, <1>7, <1>9, <2>2, <2>3 DEF Accounted, AccountedFor
  <1>11. eofQueued' \in [Execs -> BOOLEAN] /\ eofWire' \in [Execs -> BOOLEAN]
    BY <1>2
  <1>12. ASSUME NEW x \in Execs
         PROVE  /\ q[x] = 0 => queued'[x] = 0 /\ wire'[x] = wire[x]
                /\ eofQueued'[x] => e[x]
                /\ eofWire'[x] => eofWire[x] \/ (e[x] /\ queued'[x] = 0)
    <2>1. q[x] = 0 => queued'[x] = 0 /\ wire'[x] = wire[x]
      <3>1. wire'[x] = wire[x] + out[x] /\ wire[x] \in Nat BY <1>2
      <3> QED BY <1>1, <1>6, <3>1
    <2>2. eofQueued'[x] => e[x] BY <1>2
    <2>3. eofWire'[x] => eofWire[x] \/ (e[x] /\ queued'[x] = 0)
      BY <1>1, <1>2, <1>5, <1>6
    <2> QED BY <2>1, <2>2, <2>3
  <1> QED BY <1>6, <1>8, <1>10, <1>11, <1>12

-----------------------------------------------------------------------------
\* What the host does to its queues leaves the end behind the input.
LEMMA HostKeepsEof ==
  ASSUME QInv, UNCHANGED <<eofControls, eofBatch, stdinClosed, exited, controls, batch>>,
         \A y \in Execs :
           /\ eofGiven[y] => eofGiven'[y]
           /\ eofQueued'[y] => eofGiven'[y]
           /\ eofWire'[y] => eofWire[y] \/ (eofGiven'[y] /\ queued'[y] = 0)
           /\ eofGiven[y] /\ queued[y] = 0 => queued'[y] = 0 /\ wire'[y] = wire[y]
  PROVE  EofBehindInput'
  BY DEF QInv, EofBehindInput, EofBehind

\* The queue variables after Over: the exec's bytes are taken off the total.
LEMMA OverKeepsAccount ==
  ASSUME IInv, QInv, NEW x \in Execs, Over(x)
  PROVE  /\ Accounted' /\ eofQueued' \in [Execs -> BOOLEAN] /\ total' \in Nat
         /\ phase' = [phase EXCEPT ![x] = "over"]
         /\ \A y \in Execs : /\ eofQueued'[y] => eofQueued[y]
                             /\ queued[y] = 0 => queued'[y] = 0
  <1>1. /\ queued' = [queued EXCEPT ![x] = 0]
        /\ eofQueued' = [eofQueued EXCEPT ![x] = FALSE]
        /\ listed' \in Only(listed, Execs \ {x})
        /\ total' = total - queued[x]
        /\ phase' = [phase EXCEPT ![x] = "over"]
    BY DEF Over, ClearQueuedStdin
  <1>2. /\ queued \in [Execs -> Nat] /\ eofQueued \in [Execs -> BOOLEAN]
        /\ queued[x] \in Nat /\ MaxTotalQueued \in Nat /\ MaxQueued \in Nat
    BY StdinAssumption DEF IInv, CreditTypes, QInv, QueueTypes
  <1>3. AccountedFor(queued, eofQueued, total, listed)
    BY DEF QInv, Accounted
  <1>4. PICK f : f = queued OBVIOUS
  <1>5. PICK g : g = queued' OBVIOUS
  <1>6. /\ f \in [Execs -> Nat] /\ g \in [Execs -> Nat] /\ f[x] = g[x] + queued[x]
        /\ \A y \in Execs : y # x => f[y] = g[y]
    BY <1>1, <1>2, <1>4, <1>5
  <1>7. Bytes(f, Execs) = Bytes(g, Execs) + queued[x]
    <2>1. PICK n : n = queued[x] OBVIOUS
    <2>2. n \in Nat /\ f[x] = g[x] + n BY <1>2, <1>6, <2>1
    <2>3. Bytes(f, Execs) = Bytes(g, Execs) + n
      <3> HIDE <1>4, <1>5, <2>1
      <3> QED BY <1>6, <2>2, BytesAdded
    <2> QED BY <2>1, <2>3
  <1>8. Bytes(f, Execs) \in Nat /\ Bytes(g, Execs) \in Nat
    <2> HIDE <1>4, <1>5
    <2> QED BY <1>6, BytesFinite
  <1>9. total = Bytes(f, Execs) BY <1>3, <1>4 DEF AccountedFor
  <1>10. total' = Bytes(g, Execs) BY <1>1, <1>2, <1>7, <1>8, <1>9
  <1>11. total' \in Nat /\ total' <= MaxTotalQueued
    BY <1>1, <1>2, <1>3, <1>8, <1>9, <1>10 DEF AccountedFor
  <1>12. /\ listed' \in Seq(Execs) /\ Distinct(listed')
         /\ ToSet(listed') = ToSet(listed) \cap (Execs \ {x})
    <2>1. PICK l : l = listed OBVIOUS
    <2>2. PICK S : S = Execs \ {x} OBVIOUS
    <2>3. PICK k \in Only(l, S) : listed' = k BY <1>1, <2>1, <2>2
    <2>4. l \in Seq(Execs) /\ Distinct(l) BY <1>3, <2>1 DEF AccountedFor
    <2>5. k \in Seq(Execs) /\ Distinct(k) /\ ToSet(k) = ToSet(l) \cap S
      <3> HIDE <2>1, <2>2
      <3> QED BY <2>3, <2>4, OnlyKeeps
    <2> QED BY <2>1, <2>2, <2>3, <2>5
  <1>13. ToSet(listed') = {y \in Execs : queued'[y] > 0 \/ eofQueued'[y]}
    <2>1. ToSet(listed) = {y \in Execs : queued[y] > 0 \/ eofQueued[y]}
      BY <1>3 DEF AccountedFor
    <2>2. ASSUME NEW y \in Execs
          PROVE  (queued'[y] > 0 \/ eofQueued'[y])
                   <=> y # x /\ (queued[y] > 0 \/ eofQueued[y])
      BY <1>1, <1>2
    <2> QED BY <1>12, <2>1, <2>2
  <1>14. \A y \in Execs : queued'[y] <= MaxQueued
    BY <1>1, <1>2, <1>3 DEF AccountedFor
  <1>15. Accounted'
    BY <1>5, <1>10, <1>11, <1>12, <1>13, <1>14 DEF Accounted, AccountedFor
  <1> QED BY <1>1, <1>2, <1>11, <1>15

LEMMA OverQ ==
  ASSUME IInv, QInv, NEW x \in Execs, Over(x),
         UNCHANGED <<clientVars, wire, eofWire, bridgeVars, controls, batch, eofControls,
                     eofBatch, stdinClosed, processVars>>,
         ioFlushDue' = ioFlushDue
  PROVE  QInv'
  <1>1. /\ Accounted' /\ eofQueued' \in [Execs -> BOOLEAN] /\ total' \in Nat
        /\ phase' = [phase EXCEPT ![x] = "over"]
        /\ \A y \in Execs : /\ eofQueued'[y] => eofQueued[y]
                            /\ queued[y] = 0 => queued'[y] = 0
    BY OverKeepsAccount
  <1> USE DEF clientVars, bridgeVars, processVars
  <1>2. QueueTypes' BY <1>1 DEF QInv, QueueTypes
  <1>3. EofBehindInput' BY <1>1, HostKeepsEof DEF QInv, EofBehindInput, EofBehind
  <1> QED BY <1>1, <1>2, <1>3 DEF QInv

\* A flush of some execs, with whatever credit.
LEMMA FlushQ ==
  ASSUME IInv, QInv, NEW ids \in SUBSET Execs, NEW c \in [Execs -> Nat],
         Flush(ids, queued, eofQueued, total, listed, c),
         UNCHANGED <<clientVars, bridgeVars, controls, batch, eofControls, eofBatch,
                     stdinClosed, processVars>>,
         ioFlushDue' \in BOOLEAN
  PROVE  QInv'
  <1> USE DEF clientVars, bridgeVars, processVars
  <1>1. /\ queued \in [Execs -> Nat] /\ wire \in [Execs -> Nat]
        /\ eofQueued \in [Execs -> BOOLEAN] /\ eofWire \in [Execs -> BOOLEAN]
        /\ AccountedFor(queued, eofQueued, total, listed)
    BY DEF IInv, CreditTypes, QInv, QueueTypes, Accounted
  <1>2. /\ Accounted' /\ eofQueued' \in [Execs -> BOOLEAN]
        /\ total' \in Nat /\ eofWire' \in [Execs -> BOOLEAN]
        /\ \A x \in Execs : /\ queued[x] = 0 => queued'[x] = 0 /\ wire'[x] = wire[x]
                            /\ eofQueued'[x] => eofQueued[x]
                            /\ eofWire'[x] => eofWire[x] \/ (eofQueued[x] /\ queued'[x] = 0)
    BY <1>1, FlushKeepsAccount
  <1>3. QueueTypes' BY <1>2 DEF QInv, QueueTypes
  <1>4. EofBehindInput' BY <1>2, HostKeepsEof DEF QInv, EofBehindInput, EofBehind
  <1> QED BY <1>2, <1>3, <1>4 DEF QInv

\* queueStdinChunk of a chunk that fits.
LEMMA ChunkAccounted ==
  ASSUME IInv, QInv, NEW x \in Execs, NEW n \in Nat, NEW e \in BOOLEAN,
         n > 0 \/ e, ~Overflows(x, n),
         NEW q, q = [queued EXCEPT ![x] = @ + n],
         NEW ends, ends = [eofQueued EXCEPT ![x] = e],
         NEW l, l = IF x \in ToSet(listed) THEN listed ELSE Append(listed, x)
  PROVE  /\ q \in [Execs -> Nat] /\ ends \in [Execs -> BOOLEAN]
         /\ total + n \in Nat /\ AccountedFor(q, ends, total + n, l)
  <1>1. /\ queued \in [Execs -> Nat] /\ eofQueued \in [Execs -> BOOLEAN] /\ total \in Nat
        /\ AccountedFor(queued, eofQueued, total, listed)
    BY DEF IInv, CreditTypes, QInv, QueueTypes, Accounted
  <1>2. /\ q \in [Execs -> Nat] /\ q[x] = queued[x] + n
        /\ \A y \in Execs : y # x => q[y] = queued[y]
        /\ ends \in [Execs -> BOOLEAN] /\ ends[x] = e
        /\ \A y \in Execs : y # x => ends[y] = eofQueued[y]
    BY <1>1
  <1>3. total + n = Bytes(q, Execs)
    <2>1. PICK f : f = queued OBVIOUS
    <2>2. PICK g : g = q OBVIOUS
    <2>3. /\ f \in [Execs -> Nat] /\ g \in [Execs -> Nat] /\ g[x] = f[x] + n
          /\ \A y \in Execs : y # x => g[y] = f[y]
      BY <1>1, <1>2, <2>1, <2>2
    <2>4. Bytes(g, Execs) = Bytes(f, Execs) + n
      <3> HIDE <2>1, <2>2
      <3> QED BY <2>3, BytesAdded
    <2>5. total = Bytes(f, Execs) BY <1>1, <2>1 DEF AccountedFor
    <2> QED BY <2>2, <2>4, <2>5
  <1>4. total + n <= MaxTotalQueued /\ \A y \in Execs : q[y] <= MaxQueued
    <2>1. /\ queued[x] + n <= MaxQueued /\ total + n <= MaxTotalQueued
      BY <1>1, StdinAssumption DEF Overflows
    <2> QED BY <1>1, <1>2, <2>1 DEF AccountedFor
  <1>5. listed \in Seq(Execs) /\ Distinct(listed)
    BY <1>1 DEF AccountedFor
  <1>6. l \in Seq(Execs) /\ Distinct(l) /\ ToSet(l) = ToSet(listed) \cup {x}
    <2>1. CASE x \in ToSet(listed) BY <1>5, <2>1
    <2>2. CASE x \notin ToSet(listed)
      <3>1. l = Append(listed, x) BY <2>2
      <3>2. /\ l \in Seq(Execs) /\ Len(l) = Len(listed) + 1 /\ Len(listed) \in Nat
            /\ DOMAIN l = 1 .. Len(listed) + 1 /\ DOMAIN listed = 1 .. Len(listed)
            /\ l[Len(listed) + 1] = x
            /\ \A i \in 1 .. Len(listed) : l[i] = listed[i]
        BY <1>5, <3>1
      <3>3. \A i \in 1 .. Len(listed) : listed[i] # x BY <2>2, <3>2 DEF ToSet
      <3>4. \A i \in 1 .. Len(listed) + 1 : i \in 1 .. Len(listed) \/ i = Len(listed) + 1
        BY <3>2
      <3> HIDE <3>1
      <3>5. Distinct(l) BY <1>5, <3>2, <3>3, <3>4 DEF Distinct
      <3>6. ToSet(l) = ToSet(listed) \cup {x}
        <4>1. ToSet(l) \subseteq ToSet(listed) \cup {x}
          BY <3>2, <3>4 DEF ToSet
        <4>2. \A i \in 1 .. Len(listed) + 1 : l[i] \in ToSet(l) BY <3>2 DEF ToSet
        <4>3. \A i \in 1 .. Len(listed) : i \in 1 .. Len(listed) + 1 BY <3>2
        <4>4. x \in ToSet(l) BY <3>2, <4>2
        <4>5. ToSet(listed) \subseteq ToSet(l)
          BY <3>2, <4>2, <4>3 DEF ToSet
        <4> QED BY <4>1, <4>4, <4>5
      <3> QED BY <3>2, <3>5, <3>6
    <2> QED BY <2>1, <2>2
  <1>7. ToSet(l) = {y \in Execs : q[y] > 0 \/ ends[y]}
    <2>1. ToSet(listed) = {y \in Execs : queued[y] > 0 \/ eofQueued[y]}
      BY <1>1 DEF AccountedFor
    <2>2. q[x] > 0 \/ ends[x] BY <1>1, <1>2
    <2> QED BY <1>2, <1>6, <2>1, <2>2
  <1>8. total + n \in Nat BY <1>1
  <1> QED BY <1>2, <1>3, <1>4, <1>6, <1>7, <1>8 DEF AccountedFor

LEMMA HandleStdinQ ==
  ASSUME IInv, QInv, NEW x \in Execs, NEW n \in Nat, NEW e \in BOOLEAN,
         HandleStdin(x, n, e)
  PROVE  QInv'
  <1> DEFINE q == [queued EXCEPT ![x] = @ + n]
             l == IF x \in ToSet(listed) THEN listed ELSE Append(listed, x)
             ends == [eofQueued EXCEPT ![x] = e]
  <1>1. /\ phase[x] # "over" /\ ~eofGiven[x] /\ n <= unsent[x] /\ (n > 0 \/ e)
        /\ unsent' = [unsent EXCEPT ![x] = @ - n]
        /\ eofGiven' = [eofGiven EXCEPT ![x] = e]
        /\ UNCHANGED <<oversized, bridgeFull, congestions, controls, batch, eofControls,
                       eofBatch, stdinClosed, exited, inPipe, outPipe>>
    BY DEF HandleStdin, StdinMessage, bridgeVars, guestVars, workerVars, processVars
  <1>2. \/ Overflow(x) /\ UNCHANGED <<ioFlushDue, wire, eofWire>>
        \/ /\ ~Overflows(x, n)
           /\ queued' = q /\ eofQueued' = ends /\ total' = total + n /\ listed' = l
           /\ UNCHANGED <<phase, credit, ioFlushDue, wire, eofWire>>
        \/ /\ ~Overflows(x, n) /\ Flush({x}, q, ends, total + n, l, credit)
           /\ ioFlushDue' = (ioFlushDue \/ Blocked(x, q, credit))
           /\ UNCHANGED phase
    BY DEF HandleStdin
  <1>3. /\ q \in [Execs -> Nat] /\ q[x] = queued[x] + n /\ queued[x] \in Nat
        /\ \A y \in Execs : y # x => q[y] = queued[y]
        /\ ends \in [Execs -> BOOLEAN] /\ ends[x] = e
        /\ \A y \in Execs : y # x => ends[y] = eofQueued[y]
    BY DEF IInv, CreditTypes, QInv, QueueTypes
  <1>4. ~Overflows(x, n) => total + n \in Nat /\ AccountedFor(q, ends, total + n, l)
    <2>1. PICK q1 : q1 = q OBVIOUS
    <2>2. PICK e1 : e1 = ends OBVIOUS
    <2>3. PICK l1 : l1 = l OBVIOUS
    <2> HIDE DEF q, l, ends
    <2>4. /\ q1 = [queued EXCEPT ![x] = @ + n] /\ e1 = [eofQueued EXCEPT ![x] = e]
          /\ l1 = IF x \in ToSet(listed) THEN listed ELSE Append(listed, x)
      BY <2>1, <2>2, <2>3 DEF q, l, ends
    <2>5. ~Overflows(x, n) => total + n \in Nat /\ AccountedFor(q1, e1, total + n, l1)
      <3> HIDE <2>1, <2>2, <2>3
      <3> QED BY <1>1, <2>4, ChunkAccounted
    <2> QED BY <2>1, <2>2, <2>3, <2>5
  <1> HIDE DEF q, l, ends
  <1>5. unsent' \in [Execs -> Nat] /\ eofGiven' \in [Execs -> BOOLEAN]
    BY <1>1 DEF QInv, QueueTypes
  <1>6. /\ eofGiven'[x] = e /\ eofGiven[x] = FALSE
        /\ \A y \in Execs : y # x => eofGiven'[y] = eofGiven[y]
    BY <1>1 DEF QInv, QueueTypes
  <1>7. /\ ~eofQueued[x] /\ ~eofWire[x]
        /\ \A y \in Execs : eofQueued[y] => eofGiven[y]
    BY <1>6 DEF QInv, EofBehindInput, EofBehind
  <1>8. ioFlushDue' \in BOOLEAN BY <1>2 DEF QInv, QueueTypes, Blocked
  <1>9. /\ Accounted' /\ total' \in Nat /\ eofQueued' \in [Execs -> BOOLEAN]
        /\ eofWire' \in [Execs -> BOOLEAN]
        /\ \A y \in Execs :
             /\ eofQueued'[y] => eofGiven'[y]
             /\ eofWire'[y] => eofWire[y] \/ (eofGiven'[y] /\ queued'[y] = 0)
             /\ eofGiven[y] /\ queued[y] = 0 => queued'[y] = 0 /\ wire'[y] = wire[y]
    <2>1. CASE Overflow(x) /\ UNCHANGED <<ioFlushDue, wire, eofWire>>
      <3>1. eofWire \in [Execs -> BOOLEAN] /\ eofQueued \in [Execs -> BOOLEAN]
            /\ total \in Nat /\ Accounted
        BY DEF QInv, QueueTypes
      <3>2. /\ Accounted' /\ eofQueued' \in [Execs -> BOOLEAN] /\ total' \in Nat
            /\ \A y \in Execs : /\ eofQueued'[y] => eofQueued[y]
                                /\ queued[y] = 0 => queued'[y] = 0
        <4>1. CASE phase[x] = "held"
          <5>1. Over(x) BY <2>1, <4>1 DEF Overflow
          <5> QED BY <5>1, OverKeepsAccount
        <4>2. CASE phase[x] # "held"
          <5>1. UNCHANGED <<queued, eofQueued, total, listed>>
            BY <2>1, <4>2 DEF Overflow, queueVars
          <5> QED BY <3>1, <5>1 DEF Accounted, AccountedFor
        <4> QED BY <4>1, <4>2
      <3> QED BY <1>6, <1>7, <2>1, <3>1, <3>2
    <2>2. CASE /\ ~Overflows(x, n)
               /\ queued' = q /\ eofQueued' = ends /\ total' = total + n /\ listed' = l
               /\ UNCHANGED <<phase, credit, ioFlushDue, wire, eofWire>>
      <3>1. Accounted' BY <1>4, <2>2 DEF Accounted
      <3>2. eofWire' \in [Execs -> BOOLEAN] BY <2>2 DEF QInv, QueueTypes
      <3> QED BY <1>3, <1>4, <1>6, <1>7, <2>2, <3>1, <3>2
    <2>3. CASE /\ ~Overflows(x, n) /\ Flush({x}, q, ends, total + n, l, credit)
               /\ ioFlushDue' = (ioFlushDue \/ Blocked(x, q, credit))
               /\ UNCHANGED phase
      <3>1. /\ credit \in [Execs -> Nat] /\ wire \in [Execs -> Nat]
            /\ eofWire \in [Execs -> BOOLEAN] /\ {x} \in SUBSET Execs
        BY DEF IInv, CreditTypes, QInv, QueueTypes
      <3>2. /\ Accounted' /\ queued' \in [Execs -> Nat] /\ eofQueued' \in [Execs -> BOOLEAN]
            /\ total' \in Nat /\ eofWire' \in [Execs -> BOOLEAN]
            /\ \A y \in Execs : /\ q[y] = 0 => queued'[y] = 0 /\ wire'[y] = wire[y]
                                /\ eofQueued'[y] => ends[y]
                                /\ eofWire'[y] => eofWire[y] \/ (ends[y] /\ queued'[y] = 0)
        <4>1. PICK ids : ids = {x} OBVIOUS
        <4>2. PICK t : t = total + n OBVIOUS
        <4>3. /\ ids \in SUBSET Execs /\ AccountedFor(q, ends, t, l)
              /\ Flush(ids, q, ends, t, l, credit)
          BY <1>4, <2>3, <3>1, <4>1, <4>2
        <4> HIDE <4>1, <4>2
        <4> QED BY <1>3, <3>1, <4>3, FlushKeepsAccount
      <3> QED BY <1>3, <1>6, <1>7, <3>2
    <2> QED BY <1>2, <2>1, <2>2, <2>3
  <1>10. QueueTypes' BY <1>1, <1>5, <1>8, <1>9 DEF QInv, QueueTypes
  <1>11. EofBehindInput' BY <1>1, <1>6, <1>9, HostKeepsEof
  <1> QED BY <1>9, <1>10, <1>11 DEF QInv

LEMMA RefuseStdinQ ==
  ASSUME IInv, QInv, NEW x \in Execs, NEW n \in Nat, NEW e \in BOOLEAN,
         RefuseStdin(x, n, e)
  PROVE  QInv'
  <1>1. /\ ~eofGiven[x] /\ n <= unsent[x] /\ UNCHANGED <<hostVars, portVars, guestVars>>
        /\ unsent' = [unsent EXCEPT ![x] = @ - n]
        /\ eofGiven' = [eofGiven EXCEPT ![x] = e]
        /\ oversized' = [oversized EXCEPT ![x] = @ + n]
    BY DEF RefuseStdin, StdinMessage
  <1> USE DEF hostVars, queueVars, portVars, bridgeVars, guestVars, workerVars, processVars
  <1>2. /\ unsent' \in [Execs -> Nat] /\ eofGiven' \in [Execs -> BOOLEAN]
        /\ oversized' \in [Execs -> Nat]
        /\ \A y \in Execs : eofGiven[y] => eofGiven'[y]
    BY <1>1 DEF QInv, QueueTypes
  <1>3. QueueTypes' BY <1>1, <1>2 DEF QInv, QueueTypes
  <1>4. Accounted' BY <1>1 DEF QInv, Accounted, AccountedFor
  <1>5. EofBehindInput' BY <1>1, <1>2 DEF QInv, EofBehindInput, EofBehind
  <1> QED BY <1>3, <1>4, <1>5 DEF QInv

LEMMA StartExecNowQ ==
  ASSUME IInv, QInv, NEW x \in Execs, StartExecNow(x)
  PROVE  QInv'
  <1>1. UNCHANGED <<clientVars, bridgeVars, controls, batch, eofControls, eofBatch,
                    stdinClosed, processVars>>
    BY DEF StartExecNow
  <1>2. CASE bridgeFull
    <2>1. Over(x) /\ UNCHANGED <<ioFlushDue, wire, eofWire>> BY <1>2 DEF StartExecNow
    <2> QED BY <1>1, <2>1, OverQ
  <1>3. CASE ~bridgeFull
    <2>1. /\ phase' = [phase EXCEPT ![x] = "running"]
          /\ Flush({x}, queued, eofQueued, total, listed, credit)
          /\ ioFlushDue' = (ioFlushDue \/ queued[x] > 0)
      BY <1>3 DEF StartExecNow
    <2>2. ioFlushDue' \in BOOLEAN BY <2>1 DEF QInv, QueueTypes
    <2>3. \A y \in Execs : phase'[y] = "held" => phase[y] = "held"
      BY <2>1 DEF IInv, CreditTypes
    <2>4. credit \in [Execs -> Nat] BY DEF IInv, CreditTypes
    <2>5. PICK ids : ids = {x} OBVIOUS
    <2>6. ids \in SUBSET Execs /\ Flush(ids, queued, eofQueued, total, listed, credit)
      BY <2>1, <2>5
    <2> HIDE <2>5
    <2> QED BY <1>1, <2>2, <2>3, <2>4, <2>6, FlushQ
  <1> QED BY <1>2, <1>3

LEMMA RecvStdinWindowQ ==
  ASSUME IInv, QInv, NEW x \in Execs, NEW n \in 1 .. windowWire[x], RecvStdinWindow(x, n)
  PROVE  QInv'
  <1>1. /\ UNCHANGED <<clientVars, bridgeVars, controls, batch, eofControls, eofBatch,
                       stdinClosed, processVars>>
        /\ UNCHANGED phase
    BY DEF RecvStdinWindow, guestVars, workerVars
  <1>2. CASE phase[x] = "running"
    <2>1. PICK c : c = [credit EXCEPT ![x] = @ + n] OBVIOUS
    <2>2. /\ Flush({x}, queued, eofQueued, total, listed, c)
          /\ ioFlushDue' = (ioFlushDue \/ (x \in ToSet(listed) /\ Blocked(x, queued, c)))
      BY <1>2, <2>1 DEF RecvStdinWindow
    <2>3. c \in [Execs -> Nat] BY <2>1 DEF IInv, CreditTypes
    <2>4. ioFlushDue' \in BOOLEAN BY <2>2 DEF QInv, QueueTypes
    <2>5. PICK ids : ids = {x} OBVIOUS
    <2>6. ids \in SUBSET Execs /\ Flush(ids, queued, eofQueued, total, listed, c)
      BY <2>2, <2>5
    <2> HIDE <2>1, <2>5
    <2> QED BY <1>1, <2>3, <2>4, <2>6, FlushQ
  <1>3. CASE phase[x] # "running"
    <2>1. UNCHANGED <<queued, eofQueued, total, listed, ioFlushDue, wire, eofWire>>
      BY <1>3 DEF RecvStdinWindow, queueVars
    <2> QED
      BY <1>1, <2>1
      DEF clientVars, bridgeVars, processVars, QInv, QueueTypes, Accounted, AccountedFor,
          EofBehindInput, EofBehind
  <1> QED BY <1>2, <1>3

LEMMA FlushQueuedStdinQ ==
  ASSUME IInv, QInv, FlushQueuedStdin
  PROVE  QInv'
  <1> DEFINE passed(y)  == phase[y] # "running" \/ ~Blocked(y, queued, credit)
             reached(i) == \A j \in 1 .. i - 1 : passed(listed[j])
             ids == {listed[i] : i \in {k \in DOMAIN listed : reached(k)}}
             run == {x \in ids : phase[x] = "running"}
  <1>1. Flush(run, queued, eofQueued, total, listed, credit) /\ ioFlushDue' = FALSE
    BY DEF FlushQueuedStdin
  <1>2. run \in SUBSET Execs
    <2>1. \A i \in DOMAIN listed : listed[i] \in Execs
      BY DEF QInv, Accounted, AccountedFor
    <2> HIDE DEF passed
    <2> QED BY <2>1
  <1> HIDE DEF run
  <1>3. /\ UNCHANGED <<clientVars, bridgeVars, controls, batch, eofControls, eofBatch,
                       stdinClosed, processVars>>
        /\ UNCHANGED phase
    BY DEF FlushQueuedStdin, guestVars, workerVars
  <1>4. credit \in [Execs -> Nat] BY DEF IInv, CreditTypes
  <1>5. ioFlushDue' \in BOOLEAN BY <1>1
  <1> QED BY <1>1, <1>2, <1>3, <1>4, <1>5, FlushQ

-----------------------------------------------------------------------------
\* A step of the guest leaves the client and the queues of the host alone.
LEMMA GuestQ ==
  ASSUME IInv, QInv,
         UNCHANGED <<clientVars, phase, queueVars, ioFlushDue, bridgeVars>>,
         eofWire' \in [Execs -> BOOLEAN], eofControls' \in [Execs -> BOOLEAN],
         eofBatch' \in [Execs -> BOOLEAN], stdinClosed' \in [Execs -> BOOLEAN],
         exited' \in [Execs -> BOOLEAN],
         inPipe' \in [Execs -> 0 .. PipeSize], outPipe' \in [Execs -> 0 .. PipeSize],
         EofBehindInput'
  PROVE  QInv'
  BY DEF clientVars, bridgeVars, queueVars, QInv, QueueTypes, Accounted, AccountedFor

LEMMA GuestRecvStdinQ ==
  ASSUME IInv, QInv, NEW x \in Execs, NEW n \in 1 .. wire[x], GuestRecvStdin(x, n)
  PROVE  QInv'
  <1>1. /\ UNCHANGED <<clientVars, phase, queueVars, ioFlushDue, bridgeVars, eofWire,
                       eofControls, eofBatch, stdinClosed, processVars, batch>>
        /\ wire' = [wire EXCEPT ![x] = @ - n]
        /\ \/ UNCHANGED controls
           \/ controls' = [controls EXCEPT ![x] = @ + n]
    BY DEF GuestRecvStdin, hostVars
  <1>2. wire \in [Execs -> Nat] /\ controls \in [Execs -> Nat] BY DEF IInv, CreditTypes
  <1>3. wire[x] # 0 BY <1>2
  <1>4. \A y \in Execs : y # x => wire'[y] = wire[y] /\ controls'[y] = controls[y]
    BY <1>1, <1>2
  <1>5. EofBehindInput'
    BY <1>1, <1>3, <1>4
    DEF clientVars, queueVars, processVars, QInv, EofBehindInput, EofBehind
  <1> QED BY <1>1, <1>5, GuestQ DEF QInv, QueueTypes, processVars

LEMMA GuestRecvEofQ ==
  ASSUME IInv, QInv, NEW x \in Execs, GuestRecvEof(x)
  PROVE  QInv'
  <1>1. /\ UNCHANGED <<clientVars, phase, queueVars, ioFlushDue, bridgeVars, wire,
                       controls, batch, eofBatch, stdinClosed, processVars>>
        /\ eofWire[x] /\ wire[x] = 0
        /\ eofWire' = [eofWire EXCEPT ![x] = FALSE]
        /\ eofControls' = [eofControls EXCEPT ![x] = session[x] = "live"]
    BY DEF GuestRecvEof, hostVars
  <1>2. eofWire' \in [Execs -> BOOLEAN] /\ eofControls' \in [Execs -> BOOLEAN]
    BY <1>1 DEF QInv, QueueTypes
  <1>3. /\ ~eofWire'[x]
        /\ \A y \in Execs : y # x => eofWire'[y] = eofWire[y]
                                     /\ eofControls'[y] = eofControls[y]
    BY <1>1 DEF QInv, QueueTypes
  <1>4. EofBehindInput'
    BY <1>1, <1>3
    DEF clientVars, queueVars, processVars, QInv, EofBehindInput, EofBehind
  <1> QED BY <1>1, <1>2, <1>4, GuestQ DEF QInv, QueueTypes, processVars

LEMMA WorkerSwapsQ ==
  ASSUME IInv, QInv, NEW x \in Execs, WorkerSwaps(x)
  PROVE  QInv'
  <1>1. /\ UNCHANGED <<clientVars, phase, queueVars, ioFlushDue, bridgeVars, wire,
                       eofWire, stdinClosed, processVars>>
        /\ batch' = [batch EXCEPT ![x] = controls[x]]
        /\ eofBatch' = [eofBatch EXCEPT ![x] = eofControls[x]]
        /\ controls' = [controls EXCEPT ![x] = 0]
        /\ eofControls' = [eofControls EXCEPT ![x] = FALSE]
    BY DEF WorkerSwaps, hostVars, portVars
  <1>2. eofBatch' \in [Execs -> BOOLEAN] /\ eofControls' \in [Execs -> BOOLEAN]
    BY <1>1 DEF QInv, QueueTypes
  <1>3. /\ batch'[x] = controls[x] /\ controls'[x] = 0
        /\ eofBatch'[x] = eofControls[x] /\ ~eofControls'[x]
        /\ \A y \in Execs : y # x =>
             /\ batch'[y] = batch[y] /\ controls'[y] = controls[y]
             /\ eofBatch'[y] = eofBatch[y] /\ eofControls'[y] = eofControls[y]
    BY <1>1 DEF IInv, CreditTypes, QInv, QueueTypes
  <1>4. EofBehindInput'
    BY <1>1, <1>3
    DEF clientVars, queueVars, processVars, QInv, EofBehindInput, EofBehind
  <1> QED BY <1>1, <1>2, <1>4, GuestQ DEF QInv, QueueTypes, processVars

LEMMA WorkerWritesQ ==
  ASSUME IInv, QInv, NEW x \in Execs, NEW n \in 1 .. batch[x], WorkerWrites(x, n)
  PROVE  QInv'
  <1>1. /\ UNCHANGED <<clientVars, phase, queueVars, ioFlushDue, bridgeVars, wire,
                       eofWire, controls, eofControls, eofBatch, outPipe, exited>>
        /\ batch' = [batch EXCEPT ![x] = @ - n]
        /\ \/ /\ inPipe[x] + n <= PipeSize
              /\ inPipe' = [inPipe EXCEPT ![x] = @ + n] /\ UNCHANGED stdinClosed
           \/ /\ exited[x]
              /\ stdinClosed' = [stdinClosed EXCEPT ![x] = TRUE] /\ UNCHANGED inPipe
    BY DEF WorkerWrites, hostVars
  <1>2. n \in Nat /\ batch \in [Execs -> Nat] /\ batch[x] # 0 /\ PipeSize \in Nat
    BY StdinAssumption DEF IInv, CreditTypes
  <1>3. stdinClosed' \in [Execs -> BOOLEAN] /\ inPipe' \in [Execs -> 0 .. PipeSize]
    <2>1. stdinClosed \in [Execs -> BOOLEAN] /\ inPipe \in [Execs -> 0 .. PipeSize]
      BY DEF QInv, QueueTypes
    <2>2. inPipe[x] + n <= PipeSize => inPipe[x] + n \in 0 .. PipeSize
      BY <1>2, <2>1
    <2> QED BY <1>1, <2>1, <2>2
  <1>4. /\ \A y \in Execs : y # x =>
             batch'[y] = batch[y] /\ stdinClosed'[y] = stdinClosed[y]
        /\ stdinClosed'[x] => stdinClosed[x] \/ exited[x]
    BY <1>1 DEF IInv, CreditTypes, QInv, QueueTypes
  <1>5. EofBehindInput'
    BY <1>1, <1>2, <1>4
    DEF clientVars, queueVars, QInv, EofBehindInput, EofBehind
  <1> QED BY <1>1, <1>3, <1>5, GuestQ DEF QInv, QueueTypes

LEMMA WorkerClosesStdinQ ==
  ASSUME IInv, QInv, NEW x \in Execs, WorkerClosesStdin(x)
  PROVE  QInv'
  <1>1. /\ UNCHANGED <<clientVars, phase, queueVars, ioFlushDue, bridgeVars, wire,
                       eofWire, controls, batch, eofControls, processVars>>
        /\ batch[x] = 0 /\ eofBatch[x]
        /\ eofBatch' = [eofBatch EXCEPT ![x] = FALSE]
        /\ stdinClosed' = [stdinClosed EXCEPT ![x] = TRUE]
    BY DEF WorkerClosesStdin, hostVars, portVars
  <1>2. eofBatch' \in [Execs -> BOOLEAN] /\ stdinClosed' \in [Execs -> BOOLEAN]
    BY <1>1 DEF QInv, QueueTypes
  <1>3. /\ ~eofBatch'[x]
        /\ \A y \in Execs : y # x =>
             eofBatch'[y] = eofBatch[y] /\ stdinClosed'[y] = stdinClosed[y]
    BY <1>1 DEF QInv, QueueTypes
  <1>4. EofBehindInput'
    BY <1>1, <1>3
    DEF clientVars, queueVars, processVars, QInv, EofBehindInput, EofBehind
  <1> QED BY <1>1, <1>2, <1>4, GuestQ DEF QInv, QueueTypes, processVars

\* Steps that touch neither the input on its way nor the marks behind it.
LEMMA PipesQ ==
  ASSUME IInv, QInv,
         UNCHANGED <<clientVars, phase, queueVars, ioFlushDue, bridgeVars, wire, eofWire,
                     controls, batch, eofControls, eofBatch, stdinClosed>>,
         inPipe' \in [Execs -> 0 .. PipeSize], outPipe' \in [Execs -> 0 .. PipeSize],
         exited' \in [Execs -> BOOLEAN], \A y \in Execs : exited[y] => exited'[y]
  PROVE  QInv'
  <1>1. EofBehindInput'
    BY DEF clientVars, queueVars, QInv, EofBehindInput, EofBehind
  <1> QED BY <1>1, GuestQ DEF QInv, QueueTypes

LEMMA ProcessQ ==
  ASSUME IInv, QInv, NEW x \in Execs, ProcessCopies(x) \/ ProcessExits(x) \/ WorkerReads(x)
  PROVE  QInv'
  <1>1. /\ inPipe \in [Execs -> 0 .. PipeSize] /\ outPipe \in [Execs -> 0 .. PipeSize]
        /\ exited \in [Execs -> BOOLEAN] /\ PipeSize \in Nat
    BY StdinAssumption DEF QInv, QueueTypes
  <1>2. UNCHANGED <<clientVars, phase, queueVars, ioFlushDue, bridgeVars, wire, eofWire,
                    controls, batch, eofControls, eofBatch, stdinClosed>>
    BY DEF ProcessCopies, ProcessExits, WorkerReads, hostVars, portVars, workerVars
  <1>3. inPipe' \in [Execs -> 0 .. PipeSize] /\ outPipe' \in [Execs -> 0 .. PipeSize]
    <2>1. CASE ProcessCopies(x)
      <3>1. /\ inPipe[x] > 0 /\ outPipe[x] < PipeSize
            /\ outPipe' = [outPipe EXCEPT ![x] = @ + 1]
            /\ inPipe' = [inPipe EXCEPT ![x] = @ - 1]
        BY <2>1 DEF ProcessCopies
      <3>2. outPipe[x] + 1 \in 0 .. PipeSize /\ inPipe[x] - 1 \in 0 .. PipeSize
        BY <1>1, <3>1
      <3> QED BY <1>1, <3>1, <3>2
    <2>2. CASE ProcessExits(x) BY <1>1, <2>2 DEF ProcessExits
    <2>3. CASE WorkerReads(x) BY <1>1, <2>3 DEF WorkerReads
    <2> QED BY <2>1, <2>2, <2>3
  <1>4. exited' \in [Execs -> BOOLEAN] /\ \A y \in Execs : exited[y] => exited'[y]
    BY <1>1 DEF ProcessCopies, ProcessExits, WorkerReads
  <1> QED BY <1>2, <1>3, <1>4, PipesQ

LEMMA UnchangedQ == QInv /\ UNCHANGED vars => QInv'
  BY DEF vars, clientVars, hostVars, queueVars, portVars, bridgeVars, guestVars,
         workerVars, processVars, QInv, QueueTypes, Accounted, AccountedFor,
         EofBehindInput, EofBehind

-----------------------------------------------------------------------------
LEMMA NextQ == IInv /\ QInv /\ [Next]_vars => QInv'
  <1> SUFFICES ASSUME IInv, QInv, [Next]_vars PROVE QInv' OBVIOUS
  <1>1. ASSUME NEW x \in Execs, Client(x) PROVE QInv'
    <2>1. PICK n \in 0 .. unsent[x], e \in BOOLEAN :
            HandleStdin(x, n, e) \/ RefuseStdin(x, n, e)
      BY <1>1 DEF Client
    <2>2. n \in Nat OBVIOUS
    <2> QED BY <2>1, <2>2, HandleStdinQ, RefuseStdinQ
  <1>2. ASSUME NEW x \in Execs, RecvExecResponse(x) \/ Disconnect(x) PROVE QInv'
    BY <1>2, OverQ
    DEF RecvExecResponse, Disconnect, portVars, guestVars, workerVars
  <1>3. ASSUME NEW x \in Execs, Host(x) PROVE QInv'
    BY <1>2, <1>3, StartExecNowQ, RecvStdinWindowQ DEF Host
  <1>4. ASSUME NEW x \in Execs, GuestStarts(x) \/ WorkerEnds(x) PROVE QInv'
    <2>1. UNCHANGED <<clientVars, phase, queueVars, ioFlushDue, bridgeVars, wire, eofWire,
                      controls, batch, eofControls, eofBatch, stdinClosed, processVars>>
      BY <1>4 DEF GuestStarts, WorkerEnds, hostVars, portVars
    <2> QED BY <2>1, PipesQ DEF processVars, QInv, QueueTypes
  <1>5. ASSUME NEW x \in Execs, Guest(x) PROVE QInv'
    BY <1>4, <1>5, GuestRecvStdinQ, GuestRecvEofQ DEF Guest
  <1>6. ASSUME NEW x \in Execs, Worker(x) PROVE QInv'
    BY <1>4, <1>6, WorkerSwapsQ, WorkerWritesQ, WorkerClosesStdinQ, ProcessQ DEF Worker
  <1>7. ASSUME BridgeFills \/ BridgeDrains PROVE QInv'
    <2>1. /\ bridgeFull' \in BOOLEAN /\ congestions' \in Nat /\ ioFlushDue' \in BOOLEAN
          /\ UNCHANGED <<clientVars, phase, queueVars, wire, eofWire, guestVars>>
      <3>1. CASE BridgeFills
        BY <3>1 DEF BridgeFills, hostVars, QInv, QueueTypes
      <3>2. CASE BridgeDrains
        BY <3>2 DEF BridgeDrains, OnWritable, QInv, QueueTypes
      <3> QED BY <1>7, <3>1, <3>2
    <2> QED
      BY <2>1
      DEF clientVars, queueVars, guestVars, workerVars, processVars, QInv, QueueTypes,
          Accounted, AccountedFor, EofBehindInput, EofBehind
  <1> QED BY <1>1, <1>2, <1>3, <1>5, <1>6, <1>7, ProcessQ, FlushQueuedStdinQ, UnchangedQ
          DEF Next

\* In every run: the counters behind the stdin limits are those of the queues,
\* neither limit is exceeded, and a process sees the end of its input behind all
\* of it (queueStdinChunk, flushQueuedStdinFor, clearQueuedStdin and the exec
\* worker of main.zig).
THEOREM StdinSoundAlways == Spec => []StdinSound
  <1>1. ASSUME IInv, QInv PROVE StdinSound
    <2>1. TypeOK
      <3>1. listed \in Seq(Execs) BY <1>1 DEF QInv, Accounted, AccountedFor
      <3>2. lost \subseteq Execs BY <1>1 DEF IInv, StdinNeverRejected
      <3> QED BY <1>1, <3>1, <3>2 DEF TypeOK, IInv, CreditTypes, QInv, QueueTypes
    <2>2. QueuedBytesAccounted
      <3>1. AccountedFor(queued, eofQueued, total, listed)
        BY <1>1 DEF QInv, Accounted
      <3>2. PICK l : l = listed OBVIOUS
      <3>3. l \in Seq(Execs) /\ Distinct(l) BY <3>1, <3>2 DEF AccountedFor
      <3>4. Len(l) = Cardinality(ToSet(l))
        <4> HIDE <3>2
        <4> QED BY <3>3, DistinctLength
      <3> QED BY <3>1, <3>2, <3>4 DEF QueuedBytesAccounted, AccountedFor
    <2>3. EofAfterAllInput
      BY <1>1 DEF QInv, EofBehindInput, EofBehind, EofAfterAllInput
    <2>4. StdinNeverRejected BY <1>1 DEF IInv
    <2> QED BY <2>1, <2>2, <2>3, <2>4 DEF StdinSound
  <1> QED BY InitInv, NextInv, InitQ, NextQ, <1>1, PTL DEF Spec

-----------------------------------------------------------------------------
\* What a client has handed in for a held exec is queued, or was oversized.
HeldIsWhole ==
  \A x \in Execs : phase[x] = "held" => queued[x] + oversized[x] + unsent[x] = Input[x]

\* A step that leaves the client alone and touches the queues of no held exec.
LEMMA QueueUntouched ==
  ASSUME HeldIsWhole, UNCHANGED <<unsent, oversized>>,
         \A y \in Execs : phase'[y] = "held" => phase[y] = "held" /\ queued'[y] = queued[y]
  PROVE  HeldIsWhole'
  BY DEF HeldIsWhole

LEMMA OverLeavesOthers ==
  ASSUME IInv, NEW x \in Execs, Over(x)
  PROVE  \A y \in Execs : phase'[y] = "held" =>
           y # x /\ phase[y] = "held" /\ queued'[y] = queued[y]
  BY DEF Over, ClearQueuedStdin, IInv, CreditTypes

LEMMA FlushLeavesOthers ==
  ASSUME NEW ids, NEW q \in [Execs -> Nat], NEW e, NEW t, NEW l, NEW c,
         Flush(ids, q, e, t, l, c), NEW y \in Execs, y \notin ids
  PROVE  queued'[y] = q[y]
  <1>1. queued'[y] = q[y] - 0 BY DEF Flush
  <1> QED BY <1>1

LEMMA ClientKeepsHeld ==
  ASSUME IInv, QInv, HeldIsWhole, NEW x \in Execs, NEW n \in Nat, NEW e \in BOOLEAN,
         HandleStdin(x, n, e) \/ RefuseStdin(x, n, e)
  PROVE  HeldIsWhole'
  <1>1. /\ queued \in [Execs -> Nat] /\ unsent \in [Execs -> Nat]
        /\ oversized \in [Execs -> Nat] /\ n <= unsent[x]
        /\ unsent' = [unsent EXCEPT ![x] = @ - n]
    BY DEF IInv, CreditTypes, QInv, QueueTypes, HandleStdin, RefuseStdin, StdinMessage
  <1>2. unsent'[x] = unsent[x] - n /\ \A y \in Execs : y # x => unsent'[y] = unsent[y]
    BY <1>1
  <1>3. CASE RefuseStdin(x, n, e)
    <2>1. UNCHANGED <<phase, queued>> /\ oversized' = [oversized EXCEPT ![x] = @ + n]
      BY <1>3 DEF RefuseStdin, hostVars, queueVars
    <2>2. /\ oversized'[x] = oversized[x] + n
          /\ \A y \in Execs : y # x => oversized'[y] = oversized[y]
      BY <1>1, <2>1
    <2> QED BY <1>1, <1>2, <2>1, <2>2 DEF HeldIsWhole
  <1>4. CASE HandleStdin(x, n, e)
    <2> DEFINE q == [queued EXCEPT ![x] = @ + n]
               l == IF x \in ToSet(listed) THEN listed ELSE Append(listed, x)
               ends == [eofQueued EXCEPT ![x] = e]
    <2>1. /\ oversized' = oversized
          /\ \/ Overflow(x)
             \/ queued' = q /\ UNCHANGED phase
             \/ phase[x] = "running" /\ Flush({x}, q, ends, total + n, l, credit)
                  /\ UNCHANGED phase
      BY <1>4 DEF HandleStdin
    <2>2. /\ q \in [Execs -> Nat] /\ q[x] = queued[x] + n
          /\ \A y \in Execs : y # x => q[y] = queued[y]
      BY <1>1
    <2> HIDE DEF q, l, ends
    <2>3. CASE Overflow(x)
      <3>1. \A y \in Execs : phase'[y] = "held" =>
              y # x /\ phase[y] = "held" /\ queued'[y] = queued[y]
        <4>1. CASE phase[x] = "held"
          BY <2>3, <4>1, OverLeavesOthers DEF Overflow
        <4>2. CASE phase[x] # "held"
          BY <2>3, <4>2 DEF Overflow, queueVars
        <4> QED BY <4>1, <4>2
      <3> QED BY <1>2, <2>1, <3>1 DEF HeldIsWhole
    <2>4. CASE queued' = q /\ UNCHANGED phase
      BY <1>1, <1>2, <2>1, <2>2, <2>4 DEF HeldIsWhole
    <2>5. CASE phase[x] = "running" /\ Flush({x}, q, ends, total + n, l, credit)
                 /\ UNCHANGED phase
      <3>1. \A y \in Execs : y # x => queued'[y] = q[y]
        <4>1. PICK ids : ids = {x} OBVIOUS
        <4>2. PICK t : t = total + n OBVIOUS
        <4>3. Flush(ids, q, ends, t, l, credit) BY <2>5, <4>1, <4>2
        <4>4. \A y \in Execs : y \notin ids => queued'[y] = q[y]
          <5> HIDE <4>1, <4>2
          <5> QED BY <2>2, <4>3, FlushLeavesOthers
        <4> QED BY <4>1, <4>4
      <3> QED BY <1>2, <2>1, <2>2, <2>5, <3>1 DEF HeldIsWhole
    <2> QED BY <2>1, <2>3, <2>4, <2>5
  <1> QED BY <1>3, <1>4

LEMMA NextHeld == IInv /\ QInv /\ HeldIsWhole /\ [Next]_vars => HeldIsWhole'
  <1> SUFFICES ASSUME IInv, QInv, HeldIsWhole, [Next]_vars PROVE HeldIsWhole'
    OBVIOUS
  <1>1. queued \in [Execs -> Nat] BY DEF IInv, CreditTypes
  <1>2. ASSUME NEW x \in Execs, Client(x) PROVE HeldIsWhole'
    BY <1>2, ClientKeepsHeld DEF Client
  <1>3. ASSUME NEW x \in Execs, Disconnect(x) \/ RecvExecResponse(x) PROVE HeldIsWhole'
    BY <1>3, OverLeavesOthers, QueueUntouched DEF Disconnect, RecvExecResponse, clientVars
  <1>4. ASSUME NEW x \in Execs, StartExecNow(x) PROVE HeldIsWhole'
    <2>1. UNCHANGED <<unsent, oversized>> BY <1>4 DEF StartExecNow, clientVars
    <2>2. CASE bridgeFull
      <3>1. Over(x) BY <1>4, <2>2 DEF StartExecNow
      <3> QED BY <2>1, <3>1, OverLeavesOthers, QueueUntouched
    <2>3. CASE ~bridgeFull
      <3>1. /\ phase' = [phase EXCEPT ![x] = "running"]
            /\ Flush({x}, queued, eofQueued, total, listed, credit)
        BY <1>4, <2>3 DEF StartExecNow
      <3>2. \A y \in Execs : phase'[y] = "held" => y # x /\ phase[y] = "held"
        BY <3>1 DEF IInv, CreditTypes
      <3>3. \A y \in Execs : y # x => queued'[y] = queued[y]
        BY <1>1, <3>1, FlushLeavesOthers
      <3> QED BY <2>1, <3>2, <3>3, QueueUntouched
    <2> QED BY <2>2, <2>3
  <1>5. ASSUME NEW x \in Execs, NEW n \in 1 .. windowWire[x], RecvStdinWindow(x, n)
        PROVE  HeldIsWhole'
    <2>1. UNCHANGED <<unsent, oversized, phase>>
      BY <1>5 DEF RecvStdinWindow, clientVars
    <2>2. CASE phase[x] = "running"
      <3>1. PICK c : Flush({x}, queued, eofQueued, total, listed, c)
        BY <1>5, <2>2 DEF RecvStdinWindow
      <3>2. \A y \in Execs : y # x => queued'[y] = queued[y]
        BY <1>1, <3>1, FlushLeavesOthers
      <3> QED BY <2>1, <2>2, <3>2, QueueUntouched
    <2>3. CASE phase[x] # "running"
      BY <1>5, <2>1, <2>3, QueueUntouched DEF RecvStdinWindow, queueVars
    <2> QED BY <2>2, <2>3
  <1>6. CASE FlushQueuedStdin
    <2>1. PICK ids : Flush({x \in ids : phase[x] = "running"},
                           queued, eofQueued, total, listed, credit)
      BY <1>6 DEF FlushQueuedStdin
    <2>2. \A y \in Execs : phase[y] = "held" => queued'[y] = queued[y]
      BY <1>1, <2>1, FlushLeavesOthers
    <2> QED BY <1>6, <2>2, QueueUntouched DEF FlushQueuedStdin, clientVars
  <1>7. CASE UNCHANGED <<clientVars, phase, queueVars>>
    BY <1>7, QueueUntouched DEF clientVars, queueVars
  <1>8. ASSUME NEW x \in Execs, Guest(x) \/ Worker(x) \/ ProcessCopies(x) \/ ProcessExits(x)
        PROVE  UNCHANGED <<clientVars, phase, queueVars>>
    BY <1>8 DEF Guest, GuestStarts, GuestRecvEof, GuestRecvStdin, Worker, WorkerSwaps,
                WorkerClosesStdin, WorkerReads, WorkerEnds, WorkerWrites, ProcessCopies,
                ProcessExits, hostVars
  <1>9. CASE BridgeFills \/ BridgeDrains \/ UNCHANGED vars
    BY <1>7, <1>9 DEF BridgeFills, BridgeDrains, vars, hostVars
  <1> QED BY <1>2, <1>3, <1>4, <1>5, <1>6, <1>7, <1>8, <1>9 DEF Next, Host

\* In every run: an exec starts with every byte in its queue that was handed in for
\* it, up to what came in messages above maxStdinBytes (handleStdin answers those
\* and cancels nothing; queueStdinChunk cancels an exec whose queue overflows).
THEOREM StartsWithItsStdinAlways == Spec => StartsWithItsStdin
  <1> DEFINE Whole == \A x \in Execs :
                        phase[x] = "held" /\ phase'[x] = "running"
                          => queued[x] + oversized[x] + unsent[x] = Input[x]
  <1>1. HeldIsWhole => [Whole]_vars BY DEF HeldIsWhole
  <1>2. Init => HeldIsWhole
    BY StdinAssumption DEF Init, HeldIsWhole, Zero
  <1> HIDE DEF Whole
  <1>3. Spec => [][Whole]_vars
    BY InitInv, NextInv, InitQ, NextQ, NextHeld, <1>1, <1>2, PTL DEF Spec
  <1> QED BY <1>3 DEF StartsWithItsStdin, Whole
==============================================================================
