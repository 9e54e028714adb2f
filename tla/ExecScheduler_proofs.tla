------------------------ MODULE ExecScheduler_proofs ------------------------
(***************************************************************************)
(* What admission, the exec queue and the file-operation gate keep.        *)
(*                                                                         *)
(* For all constants no exec is left behind in the queue and the host      *)
(* never tracks more execs than maxQueuedExecs.  That answers, places and  *)
(* starts belong to the call they are for holds in two situations:         *)
(*   UniqueIds    no two calls share an id, as VM.allocateId hands them    *)
(*                out; input and exits of the VM at any time               *)
(*   OneLifetime  ids are shared and reused at will, but while one VM runs *)
(*                and without input frames, which the guest may answer     *)
(*                after their exec has gone                                *)
(* and, in both, as long as file operations and execs use different ids    *)
(* (IdsApart): the host does not keep the two counters apart.              *)
(***************************************************************************)
EXTENDS ExecScheduler, FiniteSetTheorems, SequenceTheorems, TLAPS

UniqueIds == \A c, d \in Calls : IdOf[c] = IdOf[d] => c = d

OneLifetime == InputCalls = {} /\ MaxVmExits = 0

IdsApart == \A f \in FileCalls, c \in Calls : fcall[f].id # IdOf[c]

-----------------------------------------------------------------------------
(* Frames on the wires. *)

GuestFrames ==
  [t : {"exec", "input"}, id : RequestId, by : Calls]
    \cup [t : {"read", "write", "data"}, id : RequestId, by : FileCalls]

HostFrames ==
  [t : {"exec_response", "error"}, id : RequestId, by : Calls]
    \cup [t : {"file_done", "error"}, id : 0 .. MaxRequestId, by : FileCalls]

\* A file call that has an id.
Registered(f) == fcall[f].pc \notin {"new", "idleSeen"}

WireTypes ==
  /\ toGuest \in Seq(GuestFrames) /\ toHost \in Seq(HostFrames)
  /\ fileWriter # None =>
       fileWriter \in [t : {"write"}, id : RequestId, by : FileCalls]
  /\ \A f \in FileCalls : Registered(f) => /\ fcall[f].id \in RequestId
                                           /\ fcall[f].kind \in {"read", "write"}
  /\ \A f \in fileOps : Registered(f)
  /\ \A id \in RequestId : session[id].st # "free" => session[id].by \in Calls

TInv == TypeOK /\ WireTypes

LEMMA TypeFacts ==
  ASSUME TInv
  PROVE  /\ \A c \in Calls : IdOf[c] \in RequestId
         /\ \A i \in DOMAIN execQueue : execQueue[i] \in Calls
         /\ DOMAIN execQueue = 1 .. Len(execQueue) /\ Len(execQueue) \in Nat
         /\ 0 \notin RequestId /\ None \notin RequestId
BY SchedulerAssumption DEF TInv, TypeOK, RequestId

-----------------------------------------------------------------------------
(* The queue. *)

\* What filter() leaves are entries of the queue, in their order.
LEMMA FilteredEntries ==
  ASSUME NEW S, NEW q \in Seq(S), NEW P \in SUBSET DOMAIN q, NEW l \in Filtered(q, P)
  PROVE  /\ l \in Seq(S)
         /\ \E at \in [1 .. Len(l) -> P] :
              /\ \A i \in 1 .. Len(l) : l[i] = q[at[i]]
              /\ \A i, j \in 1 .. Len(l) : i < j => at[i] < at[j]
              /\ \A p \in P : \E i \in 1 .. Len(l) : at[i] = p
<1>1. DOMAIN q = 1 .. Len(q) /\ Len(q) \in Nat
  OBVIOUS
<1>2. IsFiniteSet(P)
  <2>1. IsFiniteSet(1 .. Len(q))
    BY <1>1, FS_Interval
  <2>2. P \in SUBSET (1 .. Len(q))
    BY <1>1
  <2>3. QED BY <2>1, <2>2, FS_Subset
<1> DEFINE n == Cardinality(P)
<1>3. n \in Nat
  BY <1>2, FS_CardinalityType
<1>4. PICK at \in InOrder(P) : l = [i \in DOMAIN at |-> q[at[i]]]
  BY DEF Filtered
<1>5. /\ at \in [1 .. n -> P] /\ DOMAIN at = 1 .. n
      /\ \A i, j \in 1 .. n : i < j => at[i] < at[j]
  BY <1>4 DEF InOrder
<1> HIDE DEF n
<1>6. l \in [1 .. n -> S]
  BY <1>1, <1>4, <1>5
<1>7. l \in Seq(S) /\ Len(l) = n
  BY <1>3, <1>6
<1>8. \A p \in P : \E i \in 1 .. n : at[i] = p
  <2>1. at \in Injection(1 .. n, P)
    <3>1. ASSUME NEW i \in 1 .. n, NEW j \in 1 .. n, at[i] = at[j] PROVE i = j
      <4>1. at[i] \in Int /\ at[j] \in Int
        BY <1>1, <1>5
      <4>2. QED BY <1>3, <1>5, <3>1, <4>1
    <3>2. QED BY <1>5, <3>1 DEF Injection, IsInjective
  <2>2. Cardinality(1 .. n) = Cardinality(P)
    BY <1>3, FS_Interval DEF n
  <2>3. at \in Surjection(1 .. n, P)
    BY <1>2, <2>1, <2>2, FS_Injection
  <2>4. QED BY <2>3 DEF Surjection
<1>9. QED BY <1>4, <1>5, <1>7, <1>8
\* pumpExecQueue, for whatever waits: types, and no id that was not tracked.
LEMMA PumpTypes ==
  ASSUME TInv, NEW wire \in Seq(GuestFrames), PumpExecQueue(wire)
  PROVE  /\ execQueue' = <<>> /\ clients' = clients
         /\ toGuest' \in Seq(GuestFrames)
         /\ inflight' \in [RequestId -> Clients \cup {None}]
         /\ admission' \in [RequestId -> Calls \cup {None}]
         /\ startedExecs' \subseteq Tracked
         /\ \A id \in RequestId : inflight'[id] \in {inflight[id], None}
         /\ call' \in [Calls -> [pc : CallPcs, client : Clients \cup {None},
                                 input : BOOLEAN]]
         /\ \A c \in Calls : call'[c] = call[c] \/ call'[c].pc \in {"sent", "over"}
<1> DEFINE waiting == {i \in DOMAIN execQueue : inflight[IdOf[execQueue[i]]] # None}
           room    == IF Len(wire) < BridgeCap THEN BridgeCap - Len(wire) ELSE 0
<1>1. PICK live \in Filtered(execQueue, waiting) :
        StartQueued(live, IF Len(live) <= room THEN Len(live) ELSE room, wire)
  BY DEF PumpExecQueue
<1> DEFINE cut     == IF Len(live) <= room THEN Len(live) ELSE room
           sent    == {live[i] : i \in 1 .. cut}
           refused == ToSet(live) \ sent
           frames  == [i \in 1 .. cut |-> Frame("exec", IdOf[live[i]], live[i])]
<1>2. /\ live \in Seq(Calls)
      /\ \A i \in 1 .. Len(live) : inflight[IdOf[live[i]]] # None
  <2>1. execQueue \in Seq(Calls) /\ waiting \in SUBSET DOMAIN execQueue
    BY DEF TInv, TypeOK
  <2>2. \A p \in waiting : inflight[IdOf[execQueue[p]]] # None
    OBVIOUS
  <2> HIDE DEF waiting
  <2>3. PICK at \in [1 .. Len(live) -> waiting] :
          live \in Seq(Calls) /\ \A i \in 1 .. Len(live) : live[i] = execQueue[at[i]]
    BY <1>1, <2>1, FilteredEntries
  <2>4. QED BY <2>2, <2>3
<1>3. room \in Nat /\ cut \in 0 .. Len(live)
  <2>1. Len(live) \in Nat /\ Len(wire) \in Nat
    BY <1>2
  <2>2. QED BY <2>1, SchedulerAssumption
<1> HIDE DEF waiting, room, cut
<1>4. frames \in Seq(GuestFrames)
  <2>1. \A i \in 1 .. cut : live[i] \in Calls /\ IdOf[live[i]] \in RequestId
    BY <1>2, <1>3, TypeFacts
  <2>2. \A i \in 1 .. cut : Frame("exec", IdOf[live[i]], live[i]) \in GuestFrames
    BY <2>1 DEF Frame, GuestFrames
  <2>3. frames \in [1 .. cut -> GuestFrames]
    BY <2>2
  <2>4. QED BY <1>3, <2>3
<1>5. execQueue' = <<>> /\ clients' = clients /\ toGuest' = wire \o frames
  BY <1>1 DEF StartQueued, cut
<1>6. toGuest' \in Seq(GuestFrames)
  BY <1>4, <1>5, ConcatProperties
<1>7. \A c \in sent : c \in Calls /\ IdOf[c] \in RequestId /\ inflight[IdOf[c]] # None
  BY <1>2, <1>3, TypeFacts
<1>8. startedExecs' \subseteq startedExecs \cup {IdOf[c] : c \in sent}
  BY <1>1 DEF StartQueued, cut
<1>9. startedExecs' \subseteq Tracked
  BY <1>7, <1>8 DEF Tracked
<1>10. /\ inflight' \in [RequestId -> Clients \cup {None}]
       /\ admission' \in [RequestId -> Calls \cup {None}]
       /\ \A id \in RequestId : inflight'[id] \in {inflight[id], None}
  BY <1>1 DEF StartQueued, Forget, TInv, TypeOK
<1>11. call' \in [Calls -> [pc : CallPcs, client : Clients \cup {None},
                            input : BOOLEAN]]
  <2>1. \A c \in Calls : /\ call'[c] \in {[call[c] EXCEPT !.pc = "sent"],
                                         [call[c] EXCEPT !.pc = "over"], call[c]}
                         /\ call[c] \in [pc : CallPcs, client : Clients \cup {None},
                                         input : BOOLEAN]
    BY <1>1 DEF StartQueued, TInv, TypeOK
  <2>2. call' = [c \in Calls |-> call'[c]]
    BY <1>1, Zenon DEF StartQueued
  <2>3. QED BY <2>1, <2>2 DEF CallPcs
<1>12. \A c \in Calls : call'[c] = call[c] \/ call'[c].pc \in {"sent", "over"}
  <2>1. \A c \in Calls : /\ call'[c] \in {[call[c] EXCEPT !.pc = "sent"],
                                         [call[c] EXCEPT !.pc = "over"], call[c]}
                         /\ call[c] \in [pc : CallPcs, client : Clients \cup {None},
                                         input : BOOLEAN]
    BY <1>1 DEF StartQueued, TInv, TypeOK
  <2>2. QED BY <2>1
<1>13. QED BY <1>5, <1>6, <1>9, <1>10, <1>11, <1>12

CallStates == [pc : CallPcs, client : Clients \cup {None}, input : BOOLEAN]

\* A call that may still be started has its client.
ClientsKnown ==
  \A c \in Calls :
    call[c].pc \in {"resuming", "queued"} => call[c].client \in Clients

\* The last holder of an id was taken under it, and is started once it is sent.
Owned ==
  \A id \in RequestId : owner[id] # None =>
    /\ IdOf[owner[id]] = id
    /\ call[owner[id]].pc # "new"
    /\ call[owner[id]].pc \in {"resuming", "queued"} => id \notin startedExecs

\* pumpExecQueue, id by id, when the queue is sound: nothing changes for the
\* holder of the id, or it is started, or it is refused.
PumpedSame(id) ==
  /\ inflight'[id] = inflight[id] /\ admission'[id] = admission[id]
  /\ id \in startedExecs' <=> id \in startedExecs
  /\ owner[id] # None => /\ call'[owner[id]] = call[owner[id]]
                         /\ reply'[owner[id]] = reply[owner[id]]

PumpedStarted(id) ==
  LET c == owner[id] IN
  /\ c \in Calls /\ call[c].pc = "queued"
  /\ call'[c] = [call[c] EXCEPT !.pc = "sent"] /\ reply'[c] = reply[c]
  /\ inflight[id] # None
  /\ inflight'[id] = inflight[id] /\ admission'[id] = admission[id]
  /\ id \in startedExecs'

PumpedRefused(id) ==
  LET c == owner[id] IN
  /\ c \in Calls /\ call[c].pc = "queued"
  /\ call'[c] = [call[c] EXCEPT !.pc = "over"]
  /\ reply'[c] = Append(reply[c], [kind |-> "queue_full", by |-> c])
  /\ inflight[id] # None
  /\ inflight'[id] = None /\ admission'[id] = None
  /\ id \notin startedExecs'

LEMMA PumpEffects ==
  ASSUME TInv, ClientsKnown, Owned, QueueEntriesOwnTheirId,
         NEW wire \in Seq(GuestFrames), PumpExecQueue(wire)
  PROVE  /\ \A id \in RequestId :
              PumpedSame(id) \/ PumpedStarted(id) \/ PumpedRefused(id)
         /\ \A c \in Calls : owner[IdOf[c]] # c => /\ call'[c] = call[c]
                                                   /\ reply'[c] = reply[c]
         /\ \A i \in DOMAIN toGuest' :
              \/ i \in DOMAIN wire /\ toGuest'[i] = wire[i]
              \/ i \notin DOMAIN wire
                   /\ \E id \in RequestId :
                        PumpedStarted(id) /\ toGuest'[i] = Frame("exec", id, owner[id])
         /\ \A i, j \in DOMAIN toGuest' \ DOMAIN wire :
              toGuest'[i].id = toGuest'[j].id => i = j
<1> DEFINE waiting == {i \in DOMAIN execQueue : inflight[IdOf[execQueue[i]]] # None}
           room    == IF Len(wire) < BridgeCap THEN BridgeCap - Len(wire) ELSE 0
<1>1. PICK live \in Filtered(execQueue, waiting) :
        StartQueued(live, IF Len(live) <= room THEN Len(live) ELSE room, wire)
  BY DEF PumpExecQueue
<1> DEFINE cut     == IF Len(live) <= room THEN Len(live) ELSE room
           sent    == {live[i] : i \in 1 .. cut}
           refused == ToSet(live) \ sent
           frames  == [i \in 1 .. cut |-> Frame("exec", IdOf[live[i]], live[i])]
\* Every entry waits.
<1>2. \A i \in DOMAIN execQueue :
        LET c == execQueue[i] IN
        /\ c \in Calls /\ IdOf[c] \in RequestId /\ call[c].pc = "queued"
        /\ owner[IdOf[c]] = c /\ inflight[IdOf[c]] # None
        /\ IdOf[c] \notin startedExecs
  BY TypeFacts, SchedulerAssumption DEF QueueEntriesOwnTheirId, ClientsKnown
<1>3. waiting = DOMAIN execQueue
  BY <1>2
<1>4. PICK at \in [1 .. Len(live) -> waiting] :
        /\ live \in Seq(Calls)
        /\ \A i \in 1 .. Len(live) : live[i] = execQueue[at[i]]
        /\ \A i, j \in 1 .. Len(live) : i < j => at[i] < at[j]
        /\ \A p \in waiting : \E i \in 1 .. Len(live) : at[i] = p
  <2>1. execQueue \in Seq(Calls) /\ waiting \in SUBSET DOMAIN execQueue
    BY DEF TInv, TypeOK
  <2> HIDE DEF waiting
  <2>2. QED BY <1>1, <2>1, FilteredEntries
<1>5. room \in Nat /\ cut \in 0 .. Len(live) /\ Len(live) \in Nat
  <2>1. Len(live) \in Nat /\ Len(wire) \in Nat
    BY <1>4
  <2>2. QED BY <2>1, SchedulerAssumption
<1> HIDE DEF waiting, room, cut
<1>6. ToSet(live) = ToSet(execQueue)
  <2>1. DOMAIN live = 1 .. Len(live)
    BY <1>4
  <2>2. \A c \in ToSet(live) : c \in ToSet(execQueue)
    BY <1>3, <1>4, <2>1 DEF ToSet
  <2>3. ASSUME NEW c \in ToSet(execQueue) PROVE c \in ToSet(live)
    <3>1. PICK p \in waiting : c = execQueue[p]
      BY <1>3 DEF ToSet
    <3>2. PICK i \in 1 .. Len(live) : at[i] = p
      BY <1>4
    <3>3. QED BY <1>4, <2>1, <3>1, <3>2 DEF ToSet
  <2>4. QED BY <2>2, <2>3
<1>7. \A c \in ToSet(execQueue) :
        /\ c \in Calls /\ IdOf[c] \in RequestId /\ call[c].pc = "queued"
        /\ owner[IdOf[c]] = c /\ inflight[IdOf[c]] # None
        /\ IdOf[c] \notin startedExecs
  BY <1>2 DEF ToSet
<1>8. sent \subseteq ToSet(live) /\ ToSet(live) = sent \cup refused
  BY <1>4, <1>5 DEF ToSet
<1>9. \A i, j \in 1 .. Len(live) : IdOf[live[i]] = IdOf[live[j]] => i = j
  <2>1. \A i \in 1 .. Len(live) : at[i] \in DOMAIN execQueue /\ at[i] \in Int
    BY <1>3, <1>4, TypeFacts
  <2>2. ASSUME NEW i \in 1 .. Len(live), NEW j \in 1 .. Len(live),
               IdOf[live[i]] = IdOf[live[j]]
        PROVE  at[i] = at[j]
    <3>1. execQueue[at[i]] = execQueue[at[j]]
      BY <1>2, <1>4, <2>1, <2>2
    <3>2. QED BY <2>1, <3>1 DEF QueueEntriesOwnTheirId
  <2>3. QED BY <1>4, <1>5, <2>1, <2>2
<1> HIDE DEF sent, refused
\* What StartQueued assigns.
<1>10. /\ toGuest' = wire \o frames
       /\ \A id \in RequestId :
            /\ inflight'[id] = IF id \in {IdOf[c] : c \in refused} THEN None
                               ELSE inflight[id]
            /\ admission'[id] = IF id \in {IdOf[c] : c \in refused} THEN None
                                ELSE admission[id]
       /\ startedExecs' = startedExecs \cup {IdOf[c] : c \in sent}
       /\ \A c \in Calls :
            /\ call'[c] = IF c \in sent THEN [call[c] EXCEPT !.pc = "sent"]
                          ELSE IF c \in ToSet(execQueue)
                               THEN [call[c] EXCEPT !.pc = "over"] ELSE call[c]
            /\ reply'[c] = IF c \in refused
                           THEN Append(reply[c], [kind |-> "queue_full", by |-> c])
                           ELSE reply[c]
  BY <1>1, <1>6 DEF StartQueued, Forget, cut, sent, refused
<1>11. sent \cap refused = {}
  BY DEF refused
<1>12. \A c, d \in ToSet(execQueue) : IdOf[c] = IdOf[d] => c = d
  BY <1>7
<1>13. /\ \A c \in sent : PumpedStarted(IdOf[c])
       /\ \A c \in refused : PumpedRefused(IdOf[c])
  <2>1. ASSUME NEW c \in sent PROVE PumpedStarted(IdOf[c])
    <3>1. c \in ToSet(execQueue) /\ IdOf[c] \notin {IdOf[d] : d \in refused}
      BY <1>6, <1>8, <1>11, <1>12
    <3>2. /\ c \in Calls /\ IdOf[c] \in RequestId /\ call[c].pc = "queued"
          /\ owner[IdOf[c]] = c /\ inflight[IdOf[c]] # None /\ c \notin refused
      BY <1>7, <1>11, <3>1
    <3>3. /\ inflight'[IdOf[c]] = inflight[IdOf[c]]
          /\ admission'[IdOf[c]] = admission[IdOf[c]]
          /\ IdOf[c] \in startedExecs'
          /\ call'[c] = [call[c] EXCEPT !.pc = "sent"] /\ reply'[c] = reply[c]
      BY <1>10, <3>1, <3>2
    <3>4. QED BY <3>2, <3>3 DEF PumpedStarted
  <2>2. ASSUME NEW c \in refused PROVE PumpedRefused(IdOf[c])
    <3>1. c \in ToSet(execQueue) /\ IdOf[c] \notin {IdOf[d] : d \in sent}
      BY <1>6, <1>8, <1>11, <1>12
    <3>2. /\ c \in Calls /\ IdOf[c] \in RequestId /\ call[c].pc = "queued"
          /\ owner[IdOf[c]] = c /\ inflight[IdOf[c]] # None /\ c \notin sent
          /\ IdOf[c] \notin startedExecs
      BY <1>7, <1>11, <3>1
    <3>3. /\ inflight'[IdOf[c]] = None /\ admission'[IdOf[c]] = None
          /\ IdOf[c] \notin startedExecs'
          /\ call'[c] = [call[c] EXCEPT !.pc = "over"]
          /\ reply'[c] = Append(reply[c], [kind |-> "queue_full", by |-> c])
      BY <1>10, <3>1, <3>2
    <3>4. QED BY <3>2, <3>3 DEF PumpedRefused
  <2>3. QED BY <2>1, <2>2
<1>14. ASSUME NEW id \in RequestId,
              ~\E c \in ToSet(execQueue) : IdOf[c] = id
       PROVE  PumpedSame(id)
  <2>1. owner[id] # None => owner[id] \in Calls
    BY DEF TInv, TypeOK
  <2>2. id \notin {IdOf[c] : c \in refused} /\ id \notin {IdOf[c] : c \in sent}
    BY <1>6, <1>8, <1>14
  <2>3. owner[id] \notin ToSet(execQueue)
    <3>1. SUFFICES ASSUME owner[id] \in ToSet(execQueue) PROVE FALSE
      OBVIOUS
    <3>2. owner[id] # None
      BY <1>7, <3>1, SchedulerAssumption
    <3>3. IdOf[owner[id]] = id
      BY <3>2 DEF Owned
    <3>4. QED BY <1>14, <3>1, <3>3
  <2>4. owner[id] \notin sent /\ owner[id] \notin refused
    BY <1>6, <1>8, <2>3
  <2>5. QED BY <1>10, <2>1, <2>2, <2>3, <2>4 DEF PumpedSame
<1>15. \A id \in RequestId : PumpedSame(id) \/ PumpedStarted(id) \/ PumpedRefused(id)
  BY <1>6, <1>8, <1>13, <1>14
<1>16. \A c \in Calls : owner[IdOf[c]] # c => call'[c] = call[c] /\ reply'[c] = reply[c]
  BY <1>6, <1>7, <1>8, <1>10
<1>17. frames \in [1 .. cut -> GuestFrames]
  <2>1. \A i \in 1 .. cut : live[i] \in Calls /\ IdOf[live[i]] \in RequestId
    BY <1>4, <1>5, TypeFacts
  <2>2. QED BY <2>1 DEF Frame, GuestFrames
<1>18. /\ DOMAIN wire = 1 .. Len(wire) /\ Len(wire) \in Nat
       /\ DOMAIN toGuest' = 1 .. (Len(wire) + cut)
       /\ \A i \in 1 .. Len(wire) : toGuest'[i] = wire[i]
       /\ \A i \in 1 .. cut : toGuest'[Len(wire) + i] = frames[i]
  <2>1. frames \in Seq(GuestFrames) /\ Len(frames) = cut
    BY <1>5, <1>17
  <2>2. QED BY <1>5, <1>10, <2>1, ConcatProperties
<1>19. ASSUME NEW i \in DOMAIN toGuest', i \notin DOMAIN wire
       PROVE  /\ i - Len(wire) \in 1 .. cut
              /\ toGuest'[i] = frames[i - Len(wire)]
  <2>1. i - Len(wire) \in 1 .. cut /\ i = Len(wire) + (i - Len(wire))
    BY <1>5, <1>18, <1>19
  <2>2. QED BY <1>18, <2>1
<1>20. ASSUME NEW i \in DOMAIN toGuest', i \notin DOMAIN wire
       PROVE  LET c == live[i - Len(wire)] IN
              c \in sent /\ toGuest'[i] = Frame("exec", IdOf[c], c)
  BY <1>19, <1>20 DEF sent
<1>21. ASSUME NEW i \in DOMAIN toGuest', i \notin DOMAIN wire
       PROVE  \E id \in RequestId :
                PumpedStarted(id) /\ toGuest'[i] = Frame("exec", id, owner[id])
  BY <1>6, <1>7, <1>8, <1>13, <1>20, <1>21
<1>22. ASSUME NEW i \in DOMAIN toGuest' \ DOMAIN wire,
              NEW j \in DOMAIN toGuest' \ DOMAIN wire,
              toGuest'[i].id = toGuest'[j].id
       PROVE  i = j
  <2>1. IdOf[live[i - Len(wire)]] = IdOf[live[j - Len(wire)]]
    BY <1>20, <1>22 DEF Frame
  <2>2. i - Len(wire) = j - Len(wire)
    <3>1. i - Len(wire) \in 1 .. cut /\ j - Len(wire) \in 1 .. cut
      BY <1>19, <1>22
    <3>2. 1 .. cut \subseteq 1 .. Len(live)
      BY <1>5
    <3>3. QED BY <1>9, <2>1, <3>1, <3>2
  <2>3. QED BY <1>18, <1>22, <2>2
<1>23. \A i \in DOMAIN toGuest' :
         \/ i \in DOMAIN wire /\ toGuest'[i] = wire[i]
         \/ i \notin DOMAIN wire
              /\ \E id \in RequestId :
                   PumpedStarted(id) /\ toGuest'[i] = Frame("exec", id, owner[id])
  BY <1>18, <1>21
<1>24. QED BY <1>15, <1>16, <1>22, <1>23

-----------------------------------------------------------------------------
(* Types, the gate and the load, for all constants. *)

\* The host tracks as many execs as it admits at once.
Load == Cardinality(Tracked) <= MaxQueuedExecs

SafeInv == TInv /\ ClientsKnown /\ QueuedBehindLiveFileOp /\ Load

LEMMA LeastNatural ==
  ASSUME NEW T \in SUBSET Nat, T # {}
  PROVE  \E n \in T : \A m \in T : n <= m
<1>1. PICK n \in T : \A m \in T : <<m, n>> \notin OpToRel(<, Nat)
  BY NatLessThanWellFounded, WFMin
<1>2. \A m \in T : ~(m < n)
  BY <1>1 DEF OpToRel
<1>3. QED BY <1>2

\* allocateFileOpId returns an id that neither an exec nor a file operation uses.
LEMMA AllocatedIsFree ==
  ASSUME TInv, RequestId \ (Tracked \cup FileOpIds) # {}
  PROVE  AllocateFileOpId \in RequestId \ (Tracked \cup FileOpIds)
<1> DEFINE free == RequestId \ (Tracked \cup FileOpIds)
           dist(id) == IF id >= nextFileOpId THEN id - nextFileOpId
                       ELSE id + MaxRequestId - nextFileOpId
           P(id) == \A other \in free : dist(id) <= dist(other)
<1>1. \A id \in free : dist(id) \in Nat
  BY SchedulerAssumption DEF TInv, TypeOK, RequestId
<1>2. PICK n \in {dist(id) : id \in free} :
        \A m \in {dist(id) : id \in free} : n <= m
  <2> HIDE DEF dist, free
  <2>1. {dist(id) : id \in free} \in SUBSET Nat
    BY <1>1
  <2>2. {dist(id) : id \in free} # {}
    BY DEF free
  <2>3. QED BY <2>1, <2>2, LeastNatural
<1>3. \E id \in free : P(id)
  BY <1>2
<1>4. AllocateFileOpId = CHOOSE id \in free : P(id)
  BY DEF AllocateFileOpId
<1>5. QED BY <1>3, <1>4

\* A step that tracks nothing new keeps the load.
LEMMA LoadShrinks ==
  ASSUME TInv, Load, Tracked' \subseteq Tracked
  PROVE  Load'
<1>1. IsFiniteSet(RequestId)
  BY FS_Interval, SchedulerAssumption DEF RequestId
<1>2. Tracked \in SUBSET RequestId
  BY DEF TInv, TypeOK, Tracked
<1>3. IsFiniteSet(Tracked)
  BY <1>1, <1>2, FS_Subset
<1>4. Cardinality(Tracked') <= Cardinality(Tracked)
  BY <1>3, FS_Subset
<1>5. Cardinality(Tracked) \in Nat /\ Cardinality(Tracked') \in Nat
  BY <1>3, FS_Subset, FS_CardinalityType
<1>6. QED BY <1>4, <1>5, SchedulerAssumption DEF Load

LEMMA LoadGrowsBelowItsLimit ==
  ASSUME TInv, ~AtCapacity, NEW id, Tracked' \subseteq Tracked \cup {id}
  PROVE  Load'
<1>1. IsFiniteSet(RequestId)
  BY FS_Interval, SchedulerAssumption DEF RequestId
<1>2. Tracked \in SUBSET RequestId
  BY DEF TInv, TypeOK, Tracked
<1>3. IsFiniteSet(Tracked)
  BY <1>1, <1>2, FS_Subset
<1>4. /\ IsFiniteSet(Tracked \cup {id})
      /\ Cardinality(Tracked \cup {id}) <= Cardinality(Tracked) + 1
  <2>1. Cardinality(Tracked) \in Nat
    BY <1>3, FS_CardinalityType
  <2>2. /\ IsFiniteSet(Tracked \cup {id})
        /\ Cardinality(Tracked \cup {id}) =
             IF id \in Tracked THEN Cardinality(Tracked) ELSE Cardinality(Tracked) + 1
    BY <1>3, FS_AddElement
  <2>3. QED BY <2>1, <2>2
<1>5. /\ Cardinality(Tracked) \in Nat /\ Cardinality(Tracked') \in Nat
      /\ Cardinality(Tracked') <= Cardinality(Tracked \cup {id})
      /\ Cardinality(Tracked \cup {id}) \in Nat
  BY <1>3, <1>4, FS_Subset, FS_CardinalityType
<1>6. Cardinality(Tracked) < MaxQueuedExecs
  BY <1>5, SchedulerAssumption DEF AtCapacity
<1>7. QED BY <1>4, <1>5, <1>6, SchedulerAssumption DEF Load

LEMMA InitSafe == Init => SafeInv
<1> SUFFICES ASSUME Init PROVE SafeInv
  OBVIOUS
<1> USE DEF Init
<1>1. TypeOK
  BY SchedulerAssumption DEF TypeOK, RequestId, CallPcs, FilePcs
<1>2. WireTypes
  BY DEF WireTypes, Registered
<1>3. Tracked = {}
  BY DEF Tracked
<1>4. Load
  BY <1>3, FS_EmptySet, SchedulerAssumption DEF Load
<1>5. QED BY <1>1, <1>2, <1>4
          DEF SafeInv, TInv, ClientsKnown, QueuedBehindLiveFileOp

\* The wires after a step that adds a frame or takes one.
LEMMA WireSteps ==
  ASSUME TInv
  PROVE  /\ \A m \in GuestFrames : Append(toGuest, m) \in Seq(GuestFrames)
         /\ \A m \in HostFrames : Append(toHost, m) \in Seq(HostFrames)
         /\ toGuest # <<>> => /\ Head(toGuest) \in GuestFrames
                              /\ Tail(toGuest) \in Seq(GuestFrames)
         /\ toHost # <<>> => /\ Head(toHost) \in HostFrames
                             /\ Tail(toHost) \in Seq(HostFrames)
BY HeadTailProperties DEF TInv, WireTypes

\* What filter() leaves is a queue of calls, and is empty if the queue was.
LEMMA FilteredQueue ==
  ASSUME TInv, NEW P \in SUBSET DOMAIN execQueue, NEW l \in Filtered(execQueue, P)
  PROVE  /\ l \in Seq(Calls)
         /\ execQueue = <<>> => l = <<>>
<1>1. execQueue \in Seq(Calls)
  BY DEF TInv, TypeOK
<1>2. PICK at \in [1 .. Len(l) -> P] :
        l \in Seq(Calls) /\ \A i \in 1 .. Len(l) : l[i] = execQueue[at[i]]
  BY <1>1, FilteredEntries
<1>3. ASSUME execQueue = <<>> PROVE l = <<>>
  <2>1. P = {}
    BY <1>3
  <2>2. \A i \in 1 .. Len(l) : FALSE
    BY <1>2, <2>1
  <2>3. Len(l) \in Nat
    BY <1>2
  <2>4. Len(l) = 0
    BY <2>2, <2>3
  <2>5. QED BY <1>2, <2>4
<1>4. QED BY <1>2, <1>3

-----------------------------------------------------------------------------
(* The handlers of exec requests. *)

LEMMA SafeHandleExec ==
  ASSUME SafeInv, NEW c \in Calls, NEW k \in Clients, HandleExec(c, k)
  PROVE  SafeInv'
<1> USE DEF SafeInv, fileVars, guestVars
<1>1. IdOf[c] \in RequestId
  BY TypeFacts
<1>2. TypeOK'
  <2>1. call \in [Calls -> CallStates]
    BY DEF TInv, TypeOK, CallStates
  <2>2. call[c] \in CallStates
    BY <2>1
  <2>3. \A pc \in CallPcs : [call[c] EXCEPT !.pc = pc, !.client = k] \in CallStates
    BY <2>2 DEF CallStates
  <2>4. \E pc \in CallPcs :
          call' = [call EXCEPT ![c] = [call[c] EXCEPT !.pc = pc, !.client = k]]
    BY <1>1, Zenon DEF HandleExec, CallPcs
  <2>5. call' \in [Calls -> CallStates]
    BY <2>1, <2>3, <2>4
  <2>6. inflight' \in [RequestId -> Clients \cup {None}]
    BY <1>1 DEF HandleExec, TInv, TypeOK
  <2>7. admission' \in [RequestId -> Calls \cup {None}]
    BY <1>1 DEF HandleExec, TInv, TypeOK
  <2>8. owner' \in [RequestId -> Calls \cup {None}]
    BY <1>1 DEF HandleExec, TInv, TypeOK
  <2>9. QED BY <2>5, <2>6, <2>7, <2>8 DEF HandleExec, TInv, TypeOK, CallStates
<1>3. WireTypes'
  BY DEF HandleExec, TInv, WireTypes, Registered
<1>4. ClientsKnown'
  <2>1. \A d \in Calls : d # c => call'[d] = call[d]
    BY DEF HandleExec, TInv, TypeOK
  <2>2. call'[c].client = k
    BY DEF HandleExec, TInv, TypeOK
  <2>3. QED BY <2>1, <2>2 DEF ClientsKnown
<1>5. QueuedBehindLiveFileOp'
  BY DEF HandleExec, QueuedBehindLiveFileOp, FileOpIds
<1>6. Load'
  <2>1. CASE UNCHANGED inflight
    <3>1. Tracked' = Tracked
      BY <2>1 DEF HandleExec, Tracked
    <3>2. QED BY <3>1, LoadShrinks
  <2>2. CASE ~AtCapacity /\ inflight' = [inflight EXCEPT ![IdOf[c]] = k]
    <3>1. Tracked' \subseteq Tracked \cup {IdOf[c]}
      BY <2>2 DEF HandleExec, Tracked, TInv, TypeOK
    <3>2. QED BY <2>2, <3>1, LoadGrowsBelowItsLimit
  <2>3. QED BY <2>1, <2>2 DEF HandleExec
<1>7. QED BY <1>2, <1>3, <1>4, <1>5, <1>6 DEF TInv

\* Steps of a call's program counter, calls that are over, and ids the host forgets.
LEMMA CallPcMoves ==
  ASSUME TypeOK, NEW c \in Calls, NEW p \in CallPcs, call' = [call EXCEPT ![c].pc = p]
  PROVE  call' \in [Calls -> CallStates]
<1>1. call \in [Calls -> CallStates]
  BY DEF TypeOK, CallStates
<1>2. [call[c] EXCEPT !.pc = p] \in CallStates
  BY <1>1 DEF CallStates
<1>3. QED BY <1>1, <1>2

LEMMA OverIsAState ==
  \A s \in CallStates : [s EXCEPT !.pc = "over"] \in CallStates
BY DEF CallStates, CallPcs

LEMMA Forgotten ==
  ASSUME TypeOK, NEW ids, Forget(ids)
  PROVE  /\ inflight' \in [RequestId -> Clients \cup {None}]
         /\ admission' \in [RequestId -> Calls \cup {None}]
BY DEF Forget, TypeOK

LEMMA SafeExecTasks ==
  ASSUME SafeInv, NEW c \in Calls,
         ResumeFailed(c) \/ Resumed(c) \/ StdinOverflow(c) \/ SendInput(c) \/ RefuseInput(c)
  PROVE  SafeInv'
<1> USE DEF SafeInv, fileVars, guestVars
<1>1. IdOf[c] \in RequestId
  BY TypeFacts
<1>2. CASE ResumeFailed(c)
  <2>1. TypeOK'
    <3>1. call' \in [Calls -> CallStates]
      BY <1>2, CallPcMoves DEF ResumeFailed, TInv, CallPcs
    <3>2. /\ inflight' \in [RequestId -> Clients \cup {None}]
          /\ admission' \in [RequestId -> Calls \cup {None}]
      BY <1>2, Forgotten DEF ResumeFailed, TInv, TypeOK
    <3>3. QED BY <1>2, <3>1, <3>2 DEF ResumeFailed, TInv, TypeOK, CallStates
  <2>2. WireTypes'
    BY <1>2 DEF ResumeFailed, TInv, WireTypes, Registered
  <2>3. ClientsKnown'
    BY <1>2 DEF ResumeFailed, ClientsKnown, TInv, TypeOK
  <2>4. QueuedBehindLiveFileOp'
    BY <1>2 DEF ResumeFailed, QueuedBehindLiveFileOp, FileOpIds
  <2>5. Tracked' \subseteq Tracked
    BY <1>2 DEF ResumeFailed, Forget, Tracked
  <2>6. QED BY <2>1, <2>2, <2>3, <2>4, <2>5, LoadShrinks DEF TInv
<1>3. CASE Resumed(c)
  <2>1. Frame("exec", IdOf[c], c) \in GuestFrames
    BY <1>1 DEF Frame, GuestFrames
  <2>2. toGuest' \in Seq(GuestFrames)
    BY <1>3, <2>1, WireSteps DEF Resumed, TInv, WireTypes
  <2>3. execQueue' \in Seq(Calls)
    <3>1. execQueue' \in {execQueue, Append(execQueue, c)}
      BY <1>3 DEF Resumed
    <3>2. execQueue \in Seq(Calls)
      BY DEF TInv, TypeOK
    <3>3. Append(execQueue, c) \in Seq(Calls)
      BY <3>2
    <3>4. QED BY <3>1, <3>2, <3>3
  <2>4. TypeOK'
    <3>1. \E pc \in CallPcs : call' = [call EXCEPT ![c].pc = pc]
      BY <1>3 DEF Resumed, CallPcs
    <3>2. call' \in [Calls -> CallStates]
      <4>1. call \in [Calls -> CallStates]
        BY DEF TInv, TypeOK, CallStates
      <4>2. \A pc \in CallPcs : [call[c] EXCEPT !.pc = pc] \in CallStates
        BY <4>1 DEF CallStates
      <4>3. QED BY <3>1, <4>1, <4>2
    <3>3. /\ inflight' \in [RequestId -> Clients \cup {None}]
          /\ admission' \in [RequestId -> Calls \cup {None}]
          /\ startedExecs' \subseteq RequestId
      BY <1>1, <1>3 DEF Resumed, Forget, TInv, TypeOK
    <3>4. QED BY <1>3, <2>3, <3>2, <3>3 DEF Resumed, TInv, TypeOK, CallStates
  <2>5. WireTypes'
    BY <1>3, <2>2 DEF Resumed, TInv, WireTypes, Registered
  <2>6. ClientsKnown'
    <3>1. \A d \in Calls : /\ call'[d].client = call[d].client
                           /\ call'[d].pc \in {"resuming", "queued"}
                                => call[d].pc \in {"resuming", "queued"}
      <4>1. call[c].pc = "resuming" /\ \E p \in CallPcs : call' = [call EXCEPT ![c].pc = p]
        BY <1>3 DEF Resumed, CallPcs
      <4>2. QED BY <4>1 DEF TInv, TypeOK
    <3>2. QED BY <3>1 DEF ClientsKnown
  <2>7. QueuedBehindLiveFileOp'
    BY <1>3 DEF Resumed, QueuedBehindLiveFileOp, FileOpIds
  <2>8. Tracked' \subseteq Tracked
    <3>1. call[c].client \in Clients
      BY <1>3 DEF Resumed, ClientsKnown
    <3>2. call[c].client # None
      BY <3>1, SchedulerAssumption
    <3>3. QED BY <1>1, <1>3, <3>2 DEF Resumed, Forget, Tracked
  <2>9. QED BY <2>4, <2>5, <2>6, <2>7, <2>8, LoadShrinks DEF TInv
<1>4. CASE StdinOverflow(c)
  <2>1. execQueue' \in Seq(Calls) /\ (execQueue = <<>> => execQueue' = <<>>)
    BY <1>4, FilteredQueue DEF StdinOverflow
  <2>2. TypeOK'
    <3>1. call' \in [Calls -> CallStates]
      <4>1. call' = [d \in Calls |-> IF call[d].pc = "queued" /\ IdOf[d] = IdOf[c]
                                     THEN [call[d] EXCEPT !.pc = "over"] ELSE call[d]]
        BY <1>4 DEF StdinOverflow
      <4>2. QED BY <4>1, OverIsAState DEF TInv, TypeOK, CallStates
    <3>2. /\ inflight' \in [RequestId -> Clients \cup {None}]
          /\ admission' \in [RequestId -> Calls \cup {None}]
      BY <1>4, Forgotten DEF StdinOverflow, TInv
    <3>3. QED BY <1>4, <2>1, <3>1, <3>2 DEF StdinOverflow, TInv, TypeOK, CallStates
  <2>3. WireTypes'
    BY <1>4 DEF StdinOverflow, TInv, WireTypes, Registered
  <2>4. ClientsKnown'
    BY <1>4 DEF StdinOverflow, ClientsKnown, TInv, TypeOK
  <2>5. QueuedBehindLiveFileOp'
    BY <1>4, <2>1 DEF StdinOverflow, QueuedBehindLiveFileOp, FileOpIds
  <2>6. Tracked' \subseteq Tracked
    BY <1>4 DEF StdinOverflow, Forget, Tracked
  <2>7. QED BY <2>2, <2>3, <2>4, <2>5, <2>6, LoadShrinks DEF TInv
<1>5. CASE SendInput(c)
  <2>1. Frame("input", IdOf[c], c) \in GuestFrames
    BY <1>1 DEF Frame, GuestFrames
  <2>2. toGuest' \in Seq(GuestFrames)
    BY <1>5, <2>1, WireSteps DEF SendInput
  <2>3. TypeOK'
    <3>1. call \in [Calls -> CallStates] /\ call' = [call EXCEPT ![c].input = TRUE]
      BY <1>5 DEF SendInput, TInv, TypeOK, CallStates
    <3>2. [call[c] EXCEPT !.input = TRUE] \in CallStates
      BY <3>1 DEF CallStates
    <3>3. call' \in [Calls -> CallStates]
      BY <3>1, <3>2
    <3>4. QED BY <1>5, <3>3 DEF SendInput, TInv, TypeOK, CallStates
  <2>4. WireTypes'
    BY <1>5, <2>2 DEF SendInput, TInv, WireTypes, Registered
  <2>5. ClientsKnown'
    BY <1>5 DEF SendInput, ClientsKnown, TInv, TypeOK
  <2>6. QueuedBehindLiveFileOp' /\ Tracked' \subseteq Tracked
    BY <1>5 DEF SendInput, QueuedBehindLiveFileOp, FileOpIds, Tracked
  <2>7. QED BY <2>3, <2>4, <2>5, <2>6, LoadShrinks DEF TInv
<1>6. CASE RefuseInput(c)
  <2>1. TypeOK'
    <3>1. call \in [Calls -> CallStates] /\ call' = [call EXCEPT ![c].input = TRUE]
      BY <1>6 DEF RefuseInput, TInv, TypeOK, CallStates
    <3>2. [call[c] EXCEPT !.input = TRUE] \in CallStates
      BY <3>1 DEF CallStates
    <3>3. call' \in [Calls -> CallStates]
      BY <3>1, <3>2
    <3>4. QED BY <1>6, <3>3 DEF RefuseInput, TInv, TypeOK, CallStates
  <2>2. WireTypes'
    BY <1>6 DEF RefuseInput, TInv, WireTypes, Registered
  <2>3. ClientsKnown'
    BY <1>6 DEF RefuseInput, ClientsKnown, TInv, TypeOK
  <2>4. QueuedBehindLiveFileOp' /\ Tracked' \subseteq Tracked
    BY <1>6 DEF RefuseInput, QueuedBehindLiveFileOp, FileOpIds, Tracked
  <2>5. QED BY <1>6, <2>1, <2>2, <2>3, <2>4, LoadShrinks DEF TInv, RefuseInput
<1>7. QED BY <1>2, <1>3, <1>4, <1>5, <1>6

LEMMA SafeDisconnect ==
  ASSUME SafeInv, NEW k \in Clients, DisconnectClient(k)
  PROVE  SafeInv'
<1> USE DEF SafeInv, fileVars, guestVars
<1>1. execQueue' \in Seq(Calls) /\ (execQueue = <<>> => execQueue' = <<>>)
  BY FilteredQueue DEF DisconnectClient
<1>2. TypeOK'
  <2>1. call' \in [Calls -> CallStates]
    BY OverIsAState DEF DisconnectClient, TInv, TypeOK, CallStates
  <2>2. /\ inflight' \in [RequestId -> Clients \cup {None}]
        /\ admission' \in [RequestId -> Calls \cup {None}]
    BY Forgotten DEF DisconnectClient, TInv
  <2>3. QED BY <1>1, <2>1, <2>2 DEF DisconnectClient, TInv, TypeOK, CallStates
<1>3. WireTypes'
  BY DEF DisconnectClient, TInv, WireTypes, Registered
<1>4. ClientsKnown'
  BY DEF DisconnectClient, ClientsKnown, TInv, TypeOK
<1>5. QueuedBehindLiveFileOp'
  BY <1>1 DEF DisconnectClient, QueuedBehindLiveFileOp, FileOpIds
<1>6. Tracked' \subseteq Tracked
  BY DEF DisconnectClient, Forget, Tracked
<1>7. QED BY <1>2, <1>3, <1>4, <1>5, <1>6, LoadShrinks DEF TInv

-----------------------------------------------------------------------------
(* The handlers of file operations. *)

\* Settling a file operation, on whatever ground.
LEMMA SafeSettle ==
  ASSUME SafeInv, NEW f \in FileCalls, Registered(f),
         NEW pc \in {"request", "data", "closing", "await"},
         NEW outcome \in {"done", "failed"}, NEW wire \in Seq(GuestFrames),
         SettleFileOp(f, pc, outcome, wire),
         UNCHANGED <<vmUp, exits, guestVars, owner>>, toHost' \in Seq(HostFrames)
  PROVE  SafeInv'
<1> USE DEF SafeInv
<1>1. \/ activeFileOpId' = None /\ PumpExecQueue(wire)
      \/ /\ toGuest' = wire /\ UNCHANGED <<activeFileOpId, hostVars, reply>>
         /\ ~(f \in fileOps /\ activeFileOpId = fcall[f].id)
  BY DEF SettleFileOp
<1>2. fcall' \in [FileCalls -> [pc : FilePcs, id : RequestId \cup {None},
                               kind : {"read", "write", None},
                               outcome : {"none", "pending", "done", "failed"}]]
  <2>1. \E o \in {"none", "pending", "done", "failed"} :
          fcall' = [fcall EXCEPT ![f] = [fcall[f] EXCEPT !.pc = pc, !.outcome = o]]
    BY DEF SettleFileOp, TInv, TypeOK
  <2>2. fcall \in [FileCalls -> [pc : FilePcs, id : RequestId \cup {None},
                                 kind : {"read", "write", None},
                                 outcome : {"none", "pending", "done", "failed"}]]
    BY DEF TInv, TypeOK
  <2>3. \A o \in {"none", "pending", "done", "failed"} :
          [fcall[f] EXCEPT !.pc = pc, !.outcome = o]
            \in [pc : FilePcs, id : RequestId \cup {None},
                 kind : {"read", "write", None},
                 outcome : {"none", "pending", "done", "failed"}]
    BY <2>2 DEF FilePcs
  <2>4. QED BY <2>1, <2>2, <2>3
<1>3. /\ \A g \in FileCalls : /\ fcall'[g].id = fcall[g].id
                              /\ fcall'[g].kind = fcall[g].kind
                              /\ Registered(g)' <=> Registered(g)
      /\ fileOps' \subseteq fileOps
  <2>1. \E o : fcall' = [fcall EXCEPT ![f] = [fcall[f] EXCEPT !.pc = pc, !.outcome = o]]
    BY DEF SettleFileOp, TInv, TypeOK
  <2>2. QED BY <2>1 DEF SettleFileOp, Registered, TInv, TypeOK
<1>4. WireTypes'
  <2>1. toGuest' \in Seq(GuestFrames)
    BY <1>1, PumpTypes
  <2>2. QED BY <1>3, <2>1 DEF TInv, TypeOK, WireTypes, guestVars
<1>5. CASE activeFileOpId' = None /\ PumpExecQueue(wire)
  <2>1. /\ execQueue' = <<>> /\ clients' = clients
        /\ inflight' \in [RequestId -> Clients \cup {None}]
        /\ admission' \in [RequestId -> Calls \cup {None}]
        /\ startedExecs' \subseteq Tracked
        /\ \A id \in RequestId : inflight'[id] \in {inflight[id], None}
        /\ call' \in [Calls -> [pc : CallPcs, client : Clients \cup {None},
                                input : BOOLEAN]]
        /\ \A c \in Calls : call'[c] = call[c] \/ call'[c].pc \in {"sent", "over"}
    BY <1>5, PumpTypes
  <2>2. Tracked \subseteq RequestId
    BY DEF TInv, TypeOK, Tracked
  <2>3. TypeOK'
    BY <1>2, <1>3, <1>5, <2>1, <2>2 DEF SettleFileOp, TInv, TypeOK, guestVars
  <2>4. ClientsKnown'
    BY <2>1 DEF ClientsKnown
  <2>5. QueuedBehindLiveFileOp'
    BY <1>5, <2>1 DEF QueuedBehindLiveFileOp
  <2>6. Tracked' \subseteq Tracked
    BY <2>1 DEF Tracked
  <2>7. QED BY <1>4, <2>3, <2>4, <2>5, <2>6, LoadShrinks DEF TInv
<1>6. CASE /\ toGuest' = wire /\ UNCHANGED <<activeFileOpId, hostVars, reply>>
           /\ ~(f \in fileOps /\ activeFileOpId = fcall[f].id)
  <2>1. TypeOK'
    BY <1>2, <1>3, <1>6 DEF SettleFileOp, TInv, TypeOK, guestVars, hostVars
  <2>2. ClientsKnown'
    BY <1>6 DEF ClientsKnown, hostVars
  <2>3. QueuedBehindLiveFileOp'
    <3>1. ASSUME activeFileOpId # None PROVE activeFileOpId \in FileOpIds'
      <4>1. PICK g \in fileOps : activeFileOpId = fcall[g].id
        BY <3>1 DEF QueuedBehindLiveFileOp, FileOpIds
      <4>2. g \in fileOps' /\ g \in FileCalls
        BY <1>6, <4>1 DEF SettleFileOp, TInv, TypeOK
      <4>3. QED BY <1>3, <4>1, <4>2 DEF FileOpIds
    <3>2. QED BY <1>6, <3>1 DEF QueuedBehindLiveFileOp, hostVars
  <2>4. Tracked' = Tracked
    BY <1>6 DEF Tracked, hostVars
  <2>5. QED BY <1>4, <2>1, <2>2, <2>3, <2>4, LoadShrinks DEF TInv
<1>7. QED BY <1>1, <1>5, <1>6

LEMMA SafeFileTasks ==
  ASSUME SafeInv, NEW f \in FileCalls, HostFile(f)
  PROVE  SafeInv'
<1> USE DEF SafeInv
<1> DEFINE FileStates == [pc : FilePcs, id : RequestId \cup {None},
                          kind : {"read", "write", None},
                          outcome : {"none", "pending", "done", "failed"}]
<1>1. fcall \in [FileCalls -> FileStates] /\ fcall[f] \in FileStates
  BY DEF TInv, TypeOK
\* A step of a registered call that settles nothing.
<1>2. ASSUME NEW pc \in {"request", "data", "closing", "await"}, Registered(f),
             fcall' = [fcall EXCEPT ![f].pc = pc],
             toGuest' \in Seq(GuestFrames),
             UNCHANGED <<hostVars, fileOps, activeFileOpId, nextFileOpId, toHost,
                         vmUp, exits, guestVars, owner>>
      PROVE  SafeInv'
  <2>1. fcall' \in [FileCalls -> FileStates]
    <3>1. [fcall[f] EXCEPT !.pc = pc] \in FileStates
      BY <1>1, <1>2 DEF FilePcs
    <3>2. QED BY <1>1, <1>2, <3>1
  <2>2. TypeOK'
    BY <1>2, <2>1 DEF TInv, TypeOK, hostVars, guestVars
  <2>3. \A g \in FileCalls : /\ fcall'[g].id = fcall[g].id
                             /\ fcall'[g].kind = fcall[g].kind
                             /\ Registered(g)' <=> Registered(g)
    BY <1>1, <1>2 DEF Registered
  <2>4. WireTypes'
    BY <1>2, <2>3 DEF TInv, TypeOK, WireTypes, guestVars
  <2>5. FileOpIds' = FileOpIds
    BY <1>2, <2>3 DEF FileOpIds, TInv, TypeOK
  <2>6. ClientsKnown' /\ QueuedBehindLiveFileOp' /\ Load'
    BY <1>2, <2>5 DEF ClientsKnown, QueuedBehindLiveFileOp, Load, Tracked, hostVars
  <2>7. QED BY <2>2, <2>4, <2>6 DEF TInv
<1>3. ASSUME Registered(f), fcall[f].kind = "write" \/ fcall[f].kind = "read"
      PROVE  /\ Frame(fcall[f].kind, fcall[f].id, f) \in GuestFrames
             /\ Frame("data", fcall[f].id, f) \in GuestFrames
  BY <1>3 DEF TInv, WireTypes, Frame, GuestFrames
<1>4. Registered(f) => fcall[f].kind = "write" \/ fcall[f].kind = "read"
  BY DEF TInv, WireTypes
<1>5. CASE FileIdleSeen(f)
  <2>1. fcall' \in [FileCalls -> FileStates]
    <3>1. [fcall[f] EXCEPT !.pc = "idleSeen"] \in FileStates
      BY <1>1 DEF FilePcs
    <3>2. QED BY <1>1, <1>5, <3>1 DEF FileIdleSeen
  <2>2. TypeOK'
    BY <1>5, <2>1 DEF FileIdleSeen, TInv, TypeOK, hostVars, guestVars
  <2>3. \A g \in FileCalls : /\ fcall'[g].id = fcall[g].id
                             /\ fcall'[g].kind = fcall[g].kind
                             /\ Registered(g)' <=> Registered(g)
    BY <1>1, <1>5 DEF FileIdleSeen, Registered
  <2>4. WireTypes'
    BY <1>5, <2>3 DEF FileIdleSeen, TInv, TypeOK, WireTypes, guestVars
  <2>5. FileOpIds' = FileOpIds
    BY <1>5, <2>3 DEF FileIdleSeen, FileOpIds, TInv, TypeOK
  <2>6. ClientsKnown' /\ QueuedBehindLiveFileOp' /\ Load'
    BY <1>5, <2>5 DEF FileIdleSeen, ClientsKnown, QueuedBehindLiveFileOp, Load,
                      Tracked, hostVars
  <2>7. QED BY <2>2, <2>4, <2>6 DEF TInv
<1>6. ASSUME NEW kind \in {"read", "write"}, RegisterFileOp(f, kind) PROVE SafeInv'
  <2> DEFINE id == AllocateFileOpId
             entry == [pc |-> "request", id |-> id, kind |-> kind, outcome |-> "pending"]
  <2>1. id \in RequestId \ (Tracked \cup FileOpIds)
    BY <1>6, AllocatedIsFree DEF RegisterFileOp
  <2>2. IdAfter(id) \in RequestId
    BY <2>1, SchedulerAssumption DEF IdAfter, RequestId
  <2> HIDE DEF id
  <2>3. /\ fcall' = [fcall EXCEPT ![f] = entry] /\ fileOps' = fileOps \cup {f}
        /\ activeFileOpId' = id /\ nextFileOpId' = IdAfter(id)
        /\ UNCHANGED <<hostVars, toGuest, toHost, vmUp, exits, guestVars, owner, reply>>
    BY <1>6 DEF RegisterFileOp, id
  <2>4. entry \in FileStates
    BY <2>1 DEF FilePcs
  <2>5. fcall' \in [FileCalls -> FileStates]
    BY <1>1, <2>3, <2>4
  <2>6. TypeOK'
    BY <2>1, <2>2, <2>3, <2>5 DEF TInv, TypeOK, hostVars, guestVars
  <2>7. \A g \in FileCalls : fcall'[g] = IF g = f THEN entry ELSE fcall[g]
    BY <1>1, <2>3
  <2>8. WireTypes'
    BY <2>1, <2>3, <2>7 DEF TInv, TypeOK, WireTypes, Registered, guestVars
  <2>9. id \in FileOpIds'
    BY <2>3, <2>7 DEF FileOpIds
  <2>10. ClientsKnown' /\ QueuedBehindLiveFileOp' /\ Load'
    BY <2>1, <2>3, <2>9, TypeFacts DEF ClientsKnown, QueuedBehindLiveFileOp, Load,
                                       Tracked, hostVars
  <2>11. QED BY <2>6, <2>8, <2>10 DEF TInv
<1>7. CASE SendFileRequest(f)
  <2>1. Registered(f)
    BY <1>7 DEF SendFileRequest, Registered
  <2>2. toGuest' \in Seq(GuestFrames)
    BY <1>3, <1>4, <1>7, <2>1, WireSteps DEF SendFileRequest
  <2>3. \E pc \in {"data", "await"} : fcall' = [fcall EXCEPT ![f].pc = pc]
    BY <1>7 DEF SendFileRequest
  <2>4. QED BY <1>2, <1>7, <2>1, <2>2, <2>3 DEF SendFileRequest
<1>8. CASE SendFileEof(f)
  <2>1. Registered(f)
    BY <1>8 DEF SendFileEof, Registered
  <2>2. toGuest' \in Seq(GuestFrames)
    BY <1>3, <1>4, <1>8, <2>1, WireSteps DEF SendFileEof
  <2>3. QED BY <1>2, <1>8, <2>1, <2>2 DEF SendFileEof
<1>9. CASE FileSendFails(f)
  <2>1. Registered(f)
    BY <1>9 DEF FileSendFails, Registered
  <2>2. toGuest \in Seq(GuestFrames) /\ toHost \in Seq(HostFrames)
    BY DEF TInv, WireTypes
  <2>3. QED BY <1>9, <2>1, <2>2, SafeSettle DEF FileSendFails
<1>10. CASE FileDataFails(f)
  <2>1. Registered(f)
    BY <1>10 DEF FileDataFails, Registered
  <2>2. toGuest' \in Seq(GuestFrames)
    BY <1>10 DEF FileDataFails, TInv, WireTypes
  <2>3. QED BY <1>2, <1>10, <2>1, <2>2 DEF FileDataFails
<1>11. CASE SendClosingEof(f)
  <2>1. Registered(f)
    BY <1>11 DEF SendClosingEof, Registered
  <2>2. Append(toGuest, Frame("data", fcall[f].id, f)) \in Seq(GuestFrames)
    BY <1>3, <1>4, <2>1, WireSteps
  <2>3. toHost \in Seq(HostFrames)
    BY DEF TInv, WireTypes
  <2>4. QED BY <1>11, <2>1, <2>2, <2>3, SafeSettle DEF SendClosingEof
<1>12. QED BY <1>5, <1>6, <1>7, <1>8, <1>9, <1>10, <1>11 DEF HostFile

-----------------------------------------------------------------------------
(* The bridge's handlers, and the VM's exit and start. *)

LEMMA SafeRecv ==
  ASSUME SafeInv, HostRecv
  PROVE  SafeInv'
<1> USE DEF SafeInv
<1>1. /\ toHost # <<>> /\ toHost' = Tail(toHost) /\ toHost' \in Seq(HostFrames)
      /\ UNCHANGED <<vmUp, exits, guestVars, owner>>
  BY WireSteps DEF HostRecv, RecvExecResponse, RecvFileDone, RecvError, Received
\* What is left when the frame concerns no file operation.
<1>2. ASSUME UNCHANGED <<clients, admission, execQueue, call, fileVars, toGuest>>,
             \/ UNCHANGED inflight
             \/ \E id \in RequestId : inflight' = [inflight EXCEPT ![id] = None],
             startedExecs' \subseteq startedExecs
      PROVE  SafeInv'
  <2>1. /\ inflight' \in [RequestId -> Clients \cup {None}]
        /\ \A id \in RequestId : inflight'[id] \in {inflight[id], None}
    BY <1>2 DEF TInv, TypeOK
  <2>2. TypeOK'
    BY <1>1, <1>2, <2>1 DEF TInv, TypeOK, fileVars, guestVars
  <2>3. WireTypes'
    BY <1>1, <1>2 DEF TInv, WireTypes, Registered, fileVars, guestVars
  <2>4. ClientsKnown' /\ QueuedBehindLiveFileOp'
    BY <1>2 DEF ClientsKnown, QueuedBehindLiveFileOp, FileOpIds, fileVars
  <2>5. Tracked' \subseteq Tracked
    BY <1>2, <2>1 DEF Tracked
  <2>6. QED BY <2>2, <2>3, <2>4, <2>5, LoadShrinks DEF TInv
<1>3. ASSUME NEW f \in fileOps, NEW outcome \in {"done", "failed"},
             SettleFileOp(f, fcall[f].pc, outcome, toGuest)
      PROVE  SafeInv'
  <2>1. f \in FileCalls /\ Registered(f) /\ toGuest \in Seq(GuestFrames)
    BY DEF TInv, TypeOK, WireTypes
  <2>2. fcall[f].pc \in {"request", "data", "closing", "await"}
    BY <2>1 DEF TInv, TypeOK, FilePcs, Registered
  <2>3. QED BY <1>1, <1>3, <2>1, <2>2, SafeSettle
<1>4. CASE RecvExecResponse
  <2>1. Head(toHost).id \in RequestId
    BY <1>1, <1>4, WireSteps DEF RecvExecResponse, HostFrames
  <2>2. QED BY <1>2, <1>4, <2>1 DEF RecvExecResponse
<1>5. CASE RecvFileDone
  <2>1. CASE UNCHANGED <<hostVars, fileVars, toGuest, reply>>
    BY <1>2, <2>1 DEF hostVars
  <2>2. CASE \E f \in fileOps : SettleFileOp(f, fcall[f].pc, "done", toGuest)
    BY <1>3, <2>2
  <2>3. QED BY <1>5, <2>1, <2>2 DEF RecvFileDone
<1>6. CASE RecvError
  <2> DEFINE m == Head(toHost)
  <2>1. m.id \in RequestId \cup {0}
    BY <1>1, WireSteps DEF HostFrames, RequestId
  <2>2. CASE /\ m.id # 0 /\ inflight' = [inflight EXCEPT ![m.id] = None]
             /\ startedExecs' = startedExecs \ {m.id}
             /\ UNCHANGED <<clients, admission, execQueue, call, fileVars, toGuest>>
    BY <1>2, <2>1, <2>2
  <2>3. CASE \E f \in fileOps : SettleFileOp(f, fcall[f].pc, "failed", toGuest)
    BY <1>3, <2>3
  <2>4. CASE /\ startedExecs' = startedExecs \ {m.id}
             /\ UNCHANGED <<clients, inflight, admission, execQueue, call, fileVars,
                            toGuest, reply>>
    BY <1>2, <2>4
  <2>5. QED BY <1>6, <2>2, <2>3, <2>4 DEF RecvError
<1>7. QED BY <1>4, <1>5, <1>6 DEF HostRecv

LEMMA SafeVm ==
  ASSUME SafeInv, VmExit \/ VmStart
  PROVE  SafeInv'
<1> USE DEF SafeInv
<1>1. CASE VmExit
  <2>1. toGuest' \in Seq(GuestFrames)
    <3>1. PICK n \in 0 .. Len(toGuest) : toGuest' = SubSeq(toGuest, n + 1, Len(toGuest))
      BY <1>1 DEF VmExit
    <3>2. toGuest \in Seq(GuestFrames)
      BY DEF TInv, WireTypes
    <3>3. \A i \in n + 1 .. Len(toGuest) : toGuest[i] \in GuestFrames
      BY <3>2
    <3>4. QED BY <3>1, <3>2, <3>3, SubSeqProperties
  <2>2. toHost' \in Seq(HostFrames)
    <3>1. PICK n \in 0 .. Len(toHost) : toHost' = SubSeq(toHost, 1, n)
      BY <1>1 DEF VmExit
    <3>2. toHost \in Seq(HostFrames)
      BY DEF TInv, WireTypes
    <3>3. \A i \in 1 .. n : toHost[i] \in HostFrames
      BY <3>2
    <3>4. QED BY <3>1, <3>2, <3>3, SubSeqProperties
  <2>3. \A c \in Calls : call'[c] = call[c] \/ call'[c] = [call[c] EXCEPT !.pc = "over"]
    BY <1>1 DEF VmExit
  <2>4. call' \in [Calls -> CallStates]
    <3>1. call' = [c \in Calls |-> call'[c]]
      BY <1>1, Zenon DEF VmExit
    <3>2. \A c \in Calls : call[c] \in CallStates
      BY DEF TInv, TypeOK, CallStates
    <3>3. \A c \in Calls : [call[c] EXCEPT !.pc = "over"] \in CallStates
      BY <3>2 DEF CallStates, CallPcs
    <3>4. \A c \in Calls : call'[c] \in CallStates
      BY <2>3, <3>2, <3>3
    <3>5. QED BY <3>1, <3>4
  <2>5. \A f \in FileCalls : fcall'[f] = fcall[f]
                               \/ fcall'[f] = [fcall[f] EXCEPT !.outcome = "failed"]
    BY <1>1 DEF VmExit
  <2> DEFINE FileStates == [pc : FilePcs, id : RequestId \cup {None},
                            kind : {"read", "write", None},
                            outcome : {"none", "pending", "done", "failed"}]
  <2>6. fcall' \in [FileCalls -> FileStates]
    <3>1. fcall' = [f \in FileCalls |-> fcall'[f]]
      BY <1>1, Zenon DEF VmExit
    <3>2. \A f \in FileCalls : fcall[f] \in FileStates
      BY DEF TInv, TypeOK
    <3>3. \A f \in FileCalls : fcall'[f] \in FileStates
      BY <2>5, <3>2
    <3>4. QED BY <3>1, <3>3
  <2>7. /\ startedExecs' = {} /\ execQueue' = <<>> /\ fileOps' = {}
        /\ activeFileOpId' = None
        /\ inflight' = [id \in RequestId |-> None]
        /\ admission' = [id \in RequestId |-> None]
        /\ session' = [id \in RequestId |-> [st |-> "free", by |-> None]]
        /\ fileWriter' = None
        /\ UNCHANGED <<clients, nextFileOpId, owner, lost>>
    BY <1>1 DEF VmExit, Forget
  <2>8. TypeOK'
    <3>1. exits' \in 0 .. MaxVmExits /\ vmUp' \in BOOLEAN
      <4>1. exits \in 0 .. MaxVmExits /\ MaxVmExits \in Nat
        BY SchedulerAssumption DEF TInv, TypeOK
      <4>2. vmUp' = FALSE /\ exits < MaxVmExits /\ exits' = exits + 1
        BY <1>1 DEF VmExit
      <4>3. exits' \in 0 .. MaxVmExits
        BY <4>1, <4>2
      <4>4. QED BY <4>2, <4>3
    <3>2. QED BY <2>4, <2>6, <2>7, <3>1 DEF TInv, TypeOK, CallStates
  <2>9. WireTypes'
    <3>1. \A f \in FileCalls : /\ fcall'[f].id = fcall[f].id
                               /\ fcall'[f].kind = fcall[f].kind
                               /\ fcall'[f].pc = fcall[f].pc
      <4>1. \A f \in FileCalls : fcall[f] \in FileStates
        BY DEF TInv, TypeOK
      <4>2. QED BY <2>5, <4>1
    <3>2. QED BY <2>1, <2>2, <2>7, <3>1 DEF TInv, WireTypes, Registered
  <2>10. ClientsKnown'
    BY <2>3 DEF ClientsKnown, TInv, TypeOK
  <2>11. QueuedBehindLiveFileOp' /\ Tracked' \subseteq Tracked
    BY <2>7 DEF QueuedBehindLiveFileOp, Tracked
  <2>12. QED BY <2>8, <2>9, <2>10, <2>11, LoadShrinks DEF TInv
<1>2. CASE VmStart
  BY <1>2 DEF VmStart, TInv, TypeOK, WireTypes, Registered, ClientsKnown,
              QueuedBehindLiveFileOp, FileOpIds, Load, Tracked, hostVars, fileVars,
              guestVars
<1>3. QED BY <1>1, <1>2

-----------------------------------------------------------------------------
(* The guest. *)

LEMMA SafeGuest ==
  ASSUME SafeInv, GuestLoop \/ \E id \in RequestId : GuestWorker(id)
  PROVE  SafeInv'
<1> USE DEF SafeInv
<1>1. ASSUME UNCHANGED <<hostVars, fileVars, vmUp, exits, owner, reply>>,
             toGuest' \in Seq(GuestFrames), toHost' \in Seq(HostFrames),
             session' \in [RequestId -> [st : {"free", "running", "replied"},
                                         by : Calls \cup {None}]],
             \A id \in RequestId : session'[id].st # "free" => session'[id].by \in Calls,
             fileWriter' # None =>
               fileWriter' \in [t : {"write"}, id : RequestId, by : FileCalls],
             lost' \subseteq Calls \cup FileCalls
      PROVE  SafeInv'
  <2>1. TypeOK'
    BY <1>1 DEF TInv, TypeOK, hostVars, fileVars
  <2>2. WireTypes'
    BY <1>1 DEF TInv, WireTypes, Registered, hostVars, fileVars
  <2>3. ClientsKnown' /\ QueuedBehindLiveFileOp' /\ Load'
    BY <1>1 DEF ClientsKnown, QueuedBehindLiveFileOp, FileOpIds, Load, Tracked,
                hostVars, fileVars
  <2>4. QED BY <2>1, <2>2, <2>3 DEF TInv
<1> DEFINE m == Head(toGuest)
<1>2. /\ session \in [RequestId -> [st : {"free", "running", "replied"},
                                    by : Calls \cup {None}]]
      /\ \A id \in RequestId : session[id].st # "free" => session[id].by \in Calls
      /\ fileWriter # None =>
           fileWriter \in [t : {"write"}, id : RequestId, by : FileCalls]
      /\ lost \subseteq Calls \cup FileCalls /\ toHost \in Seq(HostFrames)
      /\ toGuest \in Seq(GuestFrames)
  BY DEF TInv, TypeOK, WireTypes
<1>3. toGuest # <<>> => /\ m \in GuestFrames /\ Tail(toGuest) \in Seq(GuestFrames)
                        /\ m.id \in RequestId /\ m.by \in Calls \cup FileCalls
  BY WireSteps DEF GuestFrames
<1>4. /\ \A t \in {"exec_response", "error"}, id \in RequestId, c \in Calls :
           Append(toHost, Frame(t, id, c)) \in Seq(HostFrames)
      /\ \A t \in {"file_done", "error"}, id \in 0 .. MaxRequestId, f \in FileCalls :
           Append(toHost, Frame(t, id, f)) \in Seq(HostFrames)
  BY WireSteps DEF Frame, HostFrames
<1>5. RequestId \subseteq 0 .. MaxRequestId /\ 0 \in 0 .. MaxRequestId
  BY SchedulerAssumption DEF RequestId
<1>6. CASE GuestExec
  <2>1. toGuest # <<>> /\ m.t = "exec" /\ m.by \in Calls /\ m.id \in RequestId
    BY <1>3, <1>6 DEF GuestExec, GuestReads, GuestFrames
  <2>2. toHost' \in Seq(HostFrames)
    BY <1>2, <1>4, <1>6, <2>1 DEF GuestExec, Reply
  <2>3. \/ session' = session
        \/ session' = [session EXCEPT ![m.id] = [st |-> "running", by |-> m.by]]
    BY <1>6 DEF GuestExec
  <2>4. /\ session' \in [RequestId -> [st : {"free", "running", "replied"},
                                       by : Calls \cup {None}]]
        /\ \A id \in RequestId : session'[id].st # "free" => session'[id].by \in Calls
    BY <1>2, <2>1, <2>3
  <2>5. QED BY <1>1, <1>2, <1>3, <1>6, <2>1, <2>2, <2>4 DEF GuestExec, Consumed
<1>7. CASE GuestInput
  <2>1. toGuest # <<>> /\ m.t = "input" /\ m.by \in Calls /\ m.id \in RequestId
    BY <1>3, <1>7 DEF GuestInput, GuestReads, GuestFrames
  <2>2. toHost' \in Seq(HostFrames)
    BY <1>2, <1>4, <1>7, <2>1 DEF GuestInput, Reply
  <2>3. QED BY <1>1, <1>2, <1>3, <1>7, <2>1, <2>2 DEF GuestInput, Consumed, guestVars
<1>8. CASE GuestFileRead
  <2>1. toGuest # <<>> /\ m.t = "read" /\ m.by \in FileCalls /\ m.id \in RequestId
    BY <1>3, <1>8 DEF GuestFileRead, GuestReads, GuestFrames
  <2>2. toHost' \in Seq(HostFrames)
    BY <1>4, <1>5, <1>8, <2>1 DEF GuestFileRead, Reply
  <2>3. QED BY <1>1, <1>2, <1>3, <1>8, <2>1, <2>2 DEF GuestFileRead, Consumed, guestVars
<1>9. CASE GuestFileWrite
  <2>1. /\ toGuest # <<>> /\ m.by \in FileCalls /\ m.id \in RequestId
        /\ m \in [t : {"write"}, id : RequestId, by : FileCalls]
    BY <1>3, <1>9 DEF GuestFileWrite, GuestReads, GuestFrames
  <2>2. toHost' \in Seq(HostFrames)
    <3>1. Append(toHost, Frame("error", m.id, m.by)) \in Seq(HostFrames)
      BY <1>4, <1>5, <2>1
    <3>2. toHost' \in {toHost, Append(toHost, Frame("error", m.id, m.by))}
      BY <1>9 DEF GuestFileWrite, Reply
    <3>3. QED BY <1>2, <3>1, <3>2
  <2>3. fileWriter' # None =>
          fileWriter' \in [t : {"write"}, id : RequestId, by : FileCalls]
    BY <1>2, <1>9, <2>1 DEF GuestFileWrite
  <2>4. QED BY <1>1, <1>2, <1>3, <1>9, <2>1, <2>2, <2>3 DEF GuestFileWrite, Consumed
<1>10. CASE GuestWriteLoop
  <2>1. toGuest # <<>> /\ fileWriter.by \in FileCalls /\ fileWriter.id \in RequestId
    BY <1>2, <1>10 DEF GuestWriteLoop, GuestReads
  <2>2. toHost' \in Seq(HostFrames)
    BY <1>4, <1>5, <1>10, <2>1 DEF GuestWriteLoop, Reply
  <2>3. lost' \subseteq Calls \cup FileCalls
    BY <1>2, <1>3, <1>10, <2>1 DEF GuestWriteLoop
  <2>4. QED BY <1>1, <1>2, <1>3, <1>10, <2>1, <2>2, <2>3 DEF GuestWriteLoop, Consumed
<1>11. CASE GuestStrayData
  <2>1. toGuest # <<>> /\ m.by \in FileCalls
    BY <1>3, <1>11 DEF GuestStrayData, GuestReads, GuestFrames
  <2>2. toHost' \in Seq(HostFrames)
    BY <1>4, <1>5, <1>11, <2>1 DEF GuestStrayData, Reply
  <2>3. QED BY <1>1, <1>2, <1>3, <1>11, <2>1, <2>2 DEF GuestStrayData, Consumed, guestVars
<1>12. ASSUME NEW id \in RequestId, ExecWorkerEnds(id) PROVE SafeInv'
  <2>1. session[id].by \in Calls
    BY <1>2, <1>12 DEF ExecWorkerEnds
  <2>2. toHost' \in Seq(HostFrames)
    BY <1>4, <1>12, <2>1 DEF ExecWorkerEnds, Reply
  <2>3. session' = [session EXCEPT ![id].st = "replied"]
    BY <1>12 DEF ExecWorkerEnds
  <2>4. session' \in [RequestId -> [st : {"free", "running", "replied"},
                                    by : Calls \cup {None}]]
    BY <1>2, <2>3
  <2>5. \A i \in RequestId : session'[i].st # "free" => session'[i].by \in Calls
    BY <1>2, <2>1, <2>3
  <2>6. QED BY <1>1, <1>2, <1>12, <2>2, <2>4, <2>5 DEF ExecWorkerEnds
<1>13. ASSUME NEW id \in RequestId, ExecSessionDone(id) PROVE SafeInv'
  <2>1. session' = [session EXCEPT ![id] = [st |-> "free", by |-> None]]
    BY <1>13 DEF ExecSessionDone
  <2>2. session' \in [RequestId -> [st : {"free", "running", "replied"},
                                    by : Calls \cup {None}]]
    BY <1>2, <2>1
  <2>3. \A i \in RequestId : session'[i].st # "free" => session'[i].by \in Calls
    BY <1>2, <2>1
  <2>4. QED BY <1>1, <1>2, <1>13, <2>2, <2>3 DEF ExecSessionDone
<1>14. QED BY <1>6, <1>7, <1>8, <1>9, <1>10, <1>11, <1>12, <1>13
           DEF GuestLoop, GuestWorker

LEMMA SafeStep == SafeInv /\ [Next]_vars => SafeInv'
<1> SUFFICES ASSUME SafeInv, [Next]_vars PROVE SafeInv'
  OBVIOUS
<1>1. CASE UNCHANGED vars
  BY <1>1 DEF SafeInv, TInv, TypeOK, WireTypes, Registered, ClientsKnown,
              QueuedBehindLiveFileOp, FileOpIds, Load, Tracked, vars, hostVars,
              fileVars, guestVars
<1>2. CASE Next
  BY <1>2, SafeHandleExec, SafeExecTasks, SafeDisconnect, SafeFileTasks, SafeRecv,
     SafeVm, SafeGuest DEF Next, HostExec
<1>3. QED BY <1>1, <1>2

\* Whatever ids the clients choose, frames, maps and queue stay well formed,
\* no exec waits behind a file operation that is not there, and the host
\* tracks at most maxQueuedExecs execs (handleExec, resolveFileOperation).
THEOREM SafeAlways == Spec => [](TypeOK /\ QueuedBehindLiveFileOp /\ Load)
<1>1. SafeInv => TypeOK /\ QueuedBehindLiveFileOp /\ Load
  BY DEF SafeInv, TInv
<1>2. QED BY <1>1, InitSafe, SafeStep, PTL DEF Spec

-----------------------------------------------------------------------------
(* Answers, starts and queue entries belong to their call. *)

\* A client is awaited for an id only by the call last taken under it, which is
\* unanswered and, until its handler resumes, holds the admission.
Owed ==
  \A id \in RequestId : inflight[id] # None =>
    LET c == owner[id] IN
    /\ c \in Calls
    /\ inflight[id] = call[c].client /\ inflight[id] \in clients
    /\ reply[c] = <<>>
    /\ call[c].pc \in {"resuming", "queued", "sent"}
    /\ call[c].pc = "resuming" => admission[id] = c

Admitted ==
  \A id \in RequestId : admission[id] # None =>
    owner[id] = admission[id] /\ call[admission[id]].pc = "resuming"

NewUnanswered == \A c \in Calls : call[c].pc = "new" => reply[c] = <<>>

ReplyMap == reply = [c \in Calls |-> reply[c]]

Holders == /\ Owned /\ Owed /\ Admitted /\ NewUnanswered /\ ReplyMap
           /\ AnswersAreOwn /\ QueueEntriesOwnTheirId

\* c was started under id, and no call was taken under id since.
Trace(id, c) == IdOf[c] = id /\ owner[id] = c /\ call[c].pc = "sent"

\* A frame on the wires belongs to the call it was sent by.
Accounted(m) ==
  /\ m.by \in Calls => Trace(m.id, m.by)
  /\ m.by \in FileCalls /\ m.id # 0 => Registered(m.by) /\ m.id = fcall[m.by].id

InTransit == ToSet(toGuest) \cup ToSet(toHost) \cup ({fileWriter} \ {None})

Traces ==
  /\ \A m \in InTransit : Accounted(m)
  /\ \A id \in RequestId : session[id].st = "running" => Trace(id, session[id].by)

ExecInv == Holders /\ Traces

\* The queue loses entries and keeps the order of the rest.
QueueShrinks ==
  \E at \in [DOMAIN execQueue' -> DOMAIN execQueue] :
    \A i \in DOMAIN execQueue' :
      /\ execQueue'[i] = execQueue[at[i]]
      /\ \A j \in DOMAIN execQueue' : at[i] = at[j] => i = j

\* A step that only takes from the calls: an id is released together with its
\* queue entry, or stays as it is, and only its holder is answered.
LEMMA HoldersRelease ==
  ASSUME TInv, ClientsKnown, Holders, owner' = owner,
         \A id \in RequestId :
           /\ \/ inflight'[id] = None
              \/ /\ inflight'[id] = inflight[id] /\ admission'[id] = admission[id]
                 /\ inflight[id] \in clients => inflight[id] \in clients'
           /\ admission'[id] \in {admission[id], None},
         startedExecs' \subseteq startedExecs,
         \A c \in Calls :
           /\ call'[c].client = call[c].client
           /\ \/ call'[c].pc = call[c].pc
              \/ /\ call'[c].pc = "over" /\ call[c].pc # "new"
                 /\ owner[IdOf[c]] = c => inflight'[IdOf[c]] = None
                 /\ admission'[IdOf[c]] # c,
         \A c \in Calls :
           \/ reply'[c] = reply[c]
           \/ /\ owner[IdOf[c]] = c /\ inflight[IdOf[c]] # None
              /\ inflight'[IdOf[c]] = None
              /\ \E kind : reply'[c] = Append(reply[c], [kind |-> kind, by |-> c]),
         reply' = [c \in Calls |-> reply'[c]],
         QueueShrinks, \A c \in ToSet(execQueue') : inflight'[IdOf[c]] # None
  PROVE  Holders'
<1> USE DEF Holders
<1>1. \A id \in RequestId : owner[id] # None => owner[id] \in Calls /\ IdOf[owner[id]] = id
  BY DEF Owned, TInv, TypeOK
<1>2. Owned'
  BY <1>1 DEF Owned
<1>3. \A id \in RequestId : inflight'[id] # None =>
        /\ owner[id] \in Calls /\ IdOf[owner[id]] = id
        /\ inflight'[id] = inflight[id] /\ admission'[id] = admission[id]
        /\ inflight[id] \in clients'
        /\ call'[owner[id]].pc = call[owner[id]].pc
        /\ reply'[owner[id]] = reply[owner[id]]
  <2>1. None \notin Calls
    BY SchedulerAssumption
  <2>2. QED BY <1>1, <2>1 DEF Owed
<1>4. Owed'
  BY <1>3 DEF Owed
<1>5. Admitted'
  <2>1. ASSUME NEW id \in RequestId, admission'[id] # None
        PROVE  /\ admission'[id] = admission[id] /\ owner[id] = admission[id]
               /\ call'[admission[id]].pc = "resuming"
    <3>1. admission'[id] = admission[id] /\ owner[id] = admission[id]
          /\ call[admission[id]].pc = "resuming"
      BY <2>1 DEF Admitted
    <3>2. admission[id] \in Calls /\ IdOf[admission[id]] = id
      BY <1>1, <2>1, <3>1
    <3>3. QED BY <2>1, <3>1, <3>2
  <2>2. QED BY <2>1 DEF Admitted
<1>6. \A c \in Calls : IdOf[c] \in RequestId
  BY TypeFacts
<1>7. \A c \in Calls : reply'[c] # reply[c] =>
        /\ owner[IdOf[c]] = c /\ reply[c] = <<>> /\ call[c].pc # "new"
        /\ \E kind : reply'[c] = <<[kind |-> kind, by |-> c]>>
  <2>1. \A c \in Calls : inflight[IdOf[c]] # None /\ owner[IdOf[c]] = c =>
          reply[c] = <<>> /\ call[c].pc # "new"
    BY <1>6 DEF Owed
  <2>2. ASSUME NEW c \in Calls, reply'[c] # reply[c]
        PROVE  /\ owner[IdOf[c]] = c /\ reply[c] = <<>> /\ call[c].pc # "new"
               /\ \E kind : reply'[c] = <<[kind |-> kind, by |-> c]>>
    <3>1. owner[IdOf[c]] = c /\ inflight[IdOf[c]] # None
      BY <2>2
    <3>2. PICK kind : reply'[c] = Append(reply[c], [kind |-> kind, by |-> c])
      BY <2>2
    <3>3. reply[c] = <<>> /\ call[c].pc # "new"
      BY <2>1, <3>1
    <3>4. reply'[c] = <<[kind |-> kind, by |-> c]>>
      BY <3>2, <3>3
    <3>5. QED BY <3>1, <3>3, <3>4
  <2>3. QED BY <2>2
<1>8. NewUnanswered'
  BY <1>7 DEF NewUnanswered
<1>9. AnswersAreOwn'
  <2>1. ASSUME NEW c \in Calls PROVE Len(reply'[c]) <= 1
                                     /\ \A i \in DOMAIN reply'[c] : reply'[c][i].by = c
    <3>1. CASE reply'[c] = reply[c]
      BY <3>1 DEF AnswersAreOwn
    <3>2. CASE \E kind : reply'[c] = <<[kind |-> kind, by |-> c]>>
      BY <3>2
    <3>3. QED BY <1>7, <3>1, <3>2
  <2>2. QED BY <2>1 DEF AnswersAreOwn
<1>10. QueueEntriesOwnTheirId'
  <2>1. PICK at \in [DOMAIN execQueue' -> DOMAIN execQueue] :
          \A i \in DOMAIN execQueue' :
            /\ execQueue'[i] = execQueue[at[i]]
            /\ \A j \in DOMAIN execQueue' : at[i] = at[j] => i = j
    BY DEF QueueShrinks
  <2>2. ASSUME NEW i \in DOMAIN execQueue'
        PROVE  LET c == execQueue'[i] IN
               /\ call'[c].pc = "queued" /\ owner'[IdOf[c]] = c
               /\ inflight'[IdOf[c]] = call'[c].client /\ IdOf[c] \notin startedExecs'
               /\ \A j \in DOMAIN execQueue' : execQueue'[j] = c => j = i
    <3> DEFINE c == execQueue'[i]
    <3>1. at[i] \in DOMAIN execQueue /\ c = execQueue[at[i]]
      BY <2>1
    <3>2. /\ c \in Calls /\ IdOf[c] \in RequestId
          /\ call[c].pc = "queued" /\ owner[IdOf[c]] = c
          /\ inflight[IdOf[c]] = call[c].client /\ IdOf[c] \notin startedExecs
      BY <1>6, <3>1, TypeFacts DEF QueueEntriesOwnTheirId
    <3>3. inflight'[IdOf[c]] # None
      BY DEF ToSet
    <3>4. ASSUME NEW j \in DOMAIN execQueue', execQueue'[j] = c PROVE j = i
      <4>1. at[j] \in DOMAIN execQueue /\ execQueue[at[j]] = execQueue[at[i]]
        BY <2>1, <3>1, <3>4
      <4>2. at[j] = at[i]
        BY <3>1, <4>1 DEF QueueEntriesOwnTheirId
      <4>3. QED BY <2>1, <4>2
    <3> HIDE DEF c
    <3>5. QED BY <3>2, <3>3, <3>4 DEF c
  <2>3. QED BY <2>2 DEF QueueEntriesOwnTheirId
<1>11. ReplyMap'
  BY DEF ReplyMap
<1>12. QED BY <1>2, <1>4, <1>5, <1>8, <1>9, <1>10, <1>11

\* What filter() leaves is a shorter queue.
LEMMA FilterShrinks ==
  ASSUME TInv, NEW P \in SUBSET DOMAIN execQueue, execQueue' \in Filtered(execQueue, P)
  PROVE  /\ QueueShrinks
         /\ \A c \in ToSet(execQueue') : \E i \in P : c = execQueue[i]
<1>1. execQueue \in Seq(Calls)
  BY DEF TInv, TypeOK
<1>2. PICK at \in [1 .. Len(execQueue') -> P] :
        /\ execQueue' \in Seq(Calls)
        /\ \A i \in 1 .. Len(execQueue') : execQueue'[i] = execQueue[at[i]]
        /\ \A i, j \in 1 .. Len(execQueue') : i < j => at[i] < at[j]
  <2>1. \A S : \A q \in Seq(S) : \A Q \in SUBSET DOMAIN q : \A l \in Filtered(q, Q) :
          /\ l \in Seq(S)
          /\ \E at \in [1 .. Len(l) -> Q] :
               /\ \A i \in 1 .. Len(l) : l[i] = q[at[i]]
               /\ \A i, j \in 1 .. Len(l) : i < j => at[i] < at[j]
    BY FilteredEntries
  <2>2. QED BY <1>1, <2>1
<1>3. DOMAIN execQueue' = 1 .. Len(execQueue') /\ Len(execQueue') \in Nat
  BY <1>2
<1>4. \A i \in DOMAIN execQueue' : at[i] \in P /\ at[i] \in DOMAIN execQueue /\ at[i] \in Int
  BY <1>1, <1>2, <1>3
<1>5. \A i, j \in DOMAIN execQueue' : at[i] = at[j] => i = j
  BY <1>2, <1>3, <1>4
<1>6. at \in [DOMAIN execQueue' -> DOMAIN execQueue]
  BY <1>2, <1>3, <1>4
<1>7. QueueShrinks
  BY <1>2, <1>3, <1>5, <1>6 DEF QueueShrinks
<1>8. QED BY <1>2, <1>3, <1>4, <1>7 DEF ToSet

LEMMA SameQueueShrinks ==
  ASSUME TInv, execQueue' = execQueue
  PROVE  QueueShrinks
<1> DEFINE at == [i \in DOMAIN execQueue |-> i]
<1>1. at \in [DOMAIN execQueue' -> DOMAIN execQueue]
  OBVIOUS
<1>2. \A i \in DOMAIN execQueue' :
        /\ execQueue'[i] = execQueue[at[i]]
        /\ \A j \in DOMAIN execQueue' : at[i] = at[j] => i = j
  OBVIOUS
<1>3. QED BY <1>1, <1>2 DEF QueueShrinks

LEMMA HoldersSame ==
  ASSUME Holders, UNCHANGED <<hostVars, owner, reply>>
  PROVE  Holders'
BY DEF Holders, Owned, Owed, Admitted, NewUnanswered, ReplyMap, AnswersAreOwn,
       QueueEntriesOwnTheirId, hostVars

LEMMA WireSets ==
  ASSUME NEW S, NEW s \in Seq(S)
  PROVE  /\ \A m \in S : ToSet(Append(s, m)) = ToSet(s) \cup {m}
         /\ s # <<>> => Head(s) \in ToSet(s) /\ ToSet(Tail(s)) \subseteq ToSet(s)
         /\ \A a \in 1 .. Len(s) + 1, b \in 0 .. Len(s) :
              ToSet(SubSeq(s, a, b)) \subseteq ToSet(s)
<1>1. DOMAIN s = 1 .. Len(s) /\ Len(s) \in Nat
  OBVIOUS
<1>2. ASSUME NEW m \in S PROVE ToSet(Append(s, m)) = ToSet(s) \cup {m}
  <2>1. /\ DOMAIN Append(s, m) = 1 .. Len(s) + 1
        /\ \A i \in 1 .. Len(s) : Append(s, m)[i] = s[i]
        /\ Append(s, m)[Len(s) + 1] = m
    OBVIOUS
  <2>2. \A i \in 1 .. Len(s) + 1 : i \in 1 .. Len(s) \/ i = Len(s) + 1
    BY <1>1
  <2>3. 1 .. Len(s) \subseteq 1 .. Len(s) + 1 /\ Len(s) + 1 \in 1 .. Len(s) + 1
    BY <1>1
  <2>4. QED BY <1>1, <2>1, <2>2, <2>3 DEF ToSet
<1>3. ASSUME s # <<>> PROVE Head(s) \in ToSet(s) /\ ToSet(Tail(s)) \subseteq ToSet(s)
  <2>1. Head(s) = s[1] /\ 1 \in DOMAIN s
    BY <1>1, <1>3
  <2>2. /\ DOMAIN Tail(s) = 1 .. Len(s) - 1
        /\ \A i \in 1 .. Len(s) - 1 : Tail(s)[i] = s[i + 1]
    BY <1>1, <1>3
  <2>3. \A i \in 1 .. Len(s) - 1 : i + 1 \in DOMAIN s
    BY <1>1
  <2>4. QED BY <2>1, <2>2, <2>3 DEF ToSet
<1>4. ASSUME NEW a \in 1 .. Len(s) + 1, NEW b \in 0 .. Len(s)
      PROVE  ToSet(SubSeq(s, a, b)) \subseteq ToSet(s)
  <2>1. /\ DOMAIN SubSeq(s, a, b) = 1 .. (IF a <= b THEN b - a + 1 ELSE 0)
        /\ \A i \in 1 .. (IF a <= b THEN b - a + 1 ELSE 0) :
             SubSeq(s, a, b)[i] = s[a + i - 1] /\ a + i - 1 \in DOMAIN s
    BY <1>1
  <2>2. QED BY <2>1 DEF ToSet
<1>5. QED BY <1>2, <1>3, <1>4

\* Frames stay accounted for while their calls keep their state, if every new
\* frame is.
LEMMA TracesStay ==
  ASSUME TInv, Traces, NEW new,
         InTransit' \subseteq InTransit \cup new,
         \A m \in new :
           /\ m.by \in Calls => /\ IdOf[m.by] = m.id /\ owner'[m.id] = m.by
                                /\ call'[m.by].pc = "sent"
           /\ m.by \in FileCalls /\ m.id # 0 =>
                /\ fcall'[m.by].pc \notin {"new", "idleSeen"}
                /\ m.id = fcall'[m.by].id,
         \A id \in RequestId : session'[id].st = "running" =>
           \/ session[id].st = "running" /\ session'[id].by = session[id].by
           \/ \E c \in Calls : /\ session'[id].by = c /\ IdOf[c] = id
                               /\ owner'[id] = c /\ call'[c].pc = "sent",
         \A c \in Calls : owner[IdOf[c]] = c /\ call[c].pc = "sent" =>
                            owner'[IdOf[c]] = c /\ call'[c].pc = "sent",
         \A f \in FileCalls : Registered(f) =>
           fcall'[f].id = fcall[f].id /\ fcall'[f].pc \notin {"new", "idleSeen"}
  PROVE  Traces'
<1>1. \A m \in InTransit :
        /\ m.by \in Calls => /\ IdOf[m.by] = m.id /\ owner'[m.id] = m.by
                             /\ call'[m.by].pc = "sent"
        /\ m.by \in FileCalls /\ m.id # 0 =>
             /\ fcall'[m.by].pc \notin {"new", "idleSeen"}
             /\ m.id = fcall'[m.by].id
  BY DEF Traces, Accounted, Trace
<1>2. \A m \in InTransit' : Accounted(m)'
  BY <1>1 DEF Accounted, Trace, Registered
<1>3. ASSUME NEW id \in RequestId, session'[id].st = "running"
      PROVE  /\ IdOf[session'[id].by] = id /\ owner'[id] = session'[id].by
             /\ call'[session'[id].by].pc = "sent"
  <2>1. CASE session[id].st = "running" /\ session'[id].by = session[id].by
    <3>1. session[id].by \in Calls
      BY <2>1 DEF TInv, WireTypes
    <3>2. QED BY <2>1, <3>1 DEF Traces, Trace
  <2>2. QED BY <1>3, <2>1
<1>4. QED BY <1>2, <1>3 DEF Traces, Trace

\* The same when no frame is new.
LEMMA TracesKept ==
  ASSUME TInv, Traces, owner' = owner, InTransit' \subseteq InTransit,
         \A id \in RequestId : session'[id].st = "running" => session'[id] = session[id],
         \A c \in Calls : call[c].pc = "sent" => call'[c].pc = "sent",
         \A f \in FileCalls : fcall'[f].id = fcall[f].id /\ fcall'[f].pc = fcall[f].pc
  PROVE  Traces'
<1>1. \A m \in InTransit : Accounted(m)'
  BY DEF Traces, Accounted, Trace, Registered
<1>2. ASSUME NEW id \in RequestId, session'[id].st = "running"
      PROVE  /\ IdOf[session'[id].by] = id /\ owner'[id] = session'[id].by
             /\ call'[session'[id].by].pc = "sent"
  <2>1. session'[id] = session[id] /\ session[id].by \in Calls
    BY <1>2 DEF TInv, WireTypes
  <2>2. QED BY <1>2, <2>1 DEF Traces, Trace
<1>3. QED BY <1>1, <1>2 DEF Traces, Trace

-----------------------------------------------------------------------------
(* Exec requests. *)

\* An id that can be taken has left nothing behind in the guest or on the wires.
Fresh ==
  \A c \in Calls : call[c].pc = "new" /\ IdOf[c] \notin Tracked =>
    /\ \A m \in InTransit : m.by \in Calls => m.id # IdOf[c]
    /\ session[IdOf[c]].st # "running"

LEMMA OwnHandleExec ==
  ASSUME SafeInv, ExecInv, Fresh, NEW c \in Calls, NEW k \in Clients, HandleExec(c, k)
  PROVE  ExecInv'
<1> USE DEF SafeInv, ExecInv, Holders
<1> DEFINE id == IdOf[c]
<1>1. id \in RequestId /\ c # None /\ \A d \in Calls : IdOf[d] \in RequestId
  BY TypeFacts, SchedulerAssumption
<1>2. /\ call[c].pc = "new" /\ k \in clients /\ reply[c] = <<>>
      /\ \A d \in Calls : d # c => call'[d] = call[d] /\ reply'[d] = reply[d]
      /\ call'[c].pc # "new" /\ call'[c].client = k
      /\ UNCHANGED <<clients, startedExecs, execQueue, fileVars, toGuest, toHost,
                     vmUp, exits, guestVars>>
  <2>1. call[c].pc = "new" /\ k \in clients /\ reply[c] = <<>>
    BY DEF HandleExec, NewUnanswered
  <2>2. \A d \in Calls : d # c => call'[d] = call[d]
    BY DEF HandleExec, TInv, TypeOK
  <2>3. \A d \in Calls : d # c => reply'[d] = reply[d]
    BY DEF HandleExec, Answer, ReplyMap
  <2>4. call'[c].pc # "new" /\ call'[c].client = k
    BY DEF HandleExec, TInv, TypeOK
  <2>5. QED BY <2>1, <2>2, <2>3, <2>4 DEF HandleExec
<1>3. /\ \A i \in RequestId : /\ owner[i] # c
                              /\ owner[i] # None => owner[i] \in Calls /\ IdOf[owner[i]] = i
      /\ \A i \in RequestId : /\ admission[i] # c
                              /\ admission[i] # None => admission[i] \in Calls
      /\ \A i \in DOMAIN execQueue : execQueue[i] # c
  <2>1. \A i \in RequestId : /\ owner[i] # c
                             /\ owner[i] # None => owner[i] \in Calls /\ IdOf[owner[i]] = i
    BY <1>1, <1>2 DEF Owned, TInv, TypeOK
  <2>2. \A i \in RequestId : /\ admission[i] # c
                             /\ admission[i] # None => admission[i] \in Calls
    BY <1>1, <1>2 DEF Admitted, TInv, TypeOK
  <2>3. \A i \in DOMAIN execQueue : execQueue[i] # c
    BY <1>2 DEF QueueEntriesOwnTheirId
  <2>4. QED BY <2>1, <2>2, <2>3
<1>4. \A m \in InTransit : m.by # c
  BY <1>2 DEF Traces, Accounted, Trace
<1>5. \A i \in RequestId : session[i].st = "running" => session[i].by # c
  BY <1>2 DEF Traces, Trace
<1>6. InTransit' = InTransit /\ session' = session
  BY <1>2 DEF InTransit, guestVars
\* Refused: nobody but the new call is touched.
<1>7. CASE /\ UNCHANGED <<inflight, admission, owner>>
           /\ \E kind : reply' = Answer(c, kind, c)
  <2>1. Owned'
    BY <1>2, <1>3, <1>7 DEF Owned
  <2>2. Owed'
    BY <1>2, <1>3, <1>7 DEF Owed
  <2>3. Admitted'
    BY <1>2, <1>3, <1>7 DEF Admitted
  <2>4. NewUnanswered'
    BY <1>2 DEF NewUnanswered
  <2>5. AnswersAreOwn'
    <3>1. PICK kind : reply' = Answer(c, kind, c)
      BY <1>7
    <3>2. reply'[c] = <<[kind |-> kind, by |-> c]>>
      BY <1>2, <3>1 DEF Answer, ReplyMap
    <3>3. Len(reply'[c]) <= 1 /\ \A i \in DOMAIN reply'[c] : reply'[c][i].by = c
      BY <3>2
    <3>4. QED BY <1>2, <3>3 DEF AnswersAreOwn
  <2>6. QueueEntriesOwnTheirId'
    BY <1>2, <1>3, <1>7, TypeFacts DEF QueueEntriesOwnTheirId
  <2>7. Traces'
    BY <1>2, <1>4, <1>5, <1>6, <1>7, TracesStay DEF Traces, Accounted, Trace, Registered,
       fileVars, TInv, WireTypes
  <2>8. ReplyMap'
    BY <1>7 DEF Answer, ReplyMap
  <2>9. QED BY <2>1, <2>2, <2>3, <2>4, <2>5, <2>6, <2>7, <2>8
\* Admitted: the id was free.
<1>8. CASE /\ id \notin Tracked
           /\ inflight' = [inflight EXCEPT ![id] = k]
           /\ admission' = [admission EXCEPT ![id] = c]
           /\ owner' = [owner EXCEPT ![id] = c]
           /\ call'[c].pc = "resuming" /\ reply' = reply
  <2>1. /\ inflight'[id] = k /\ admission'[id] = c /\ owner'[id] = c
        /\ \A i \in RequestId : i # id => /\ inflight'[i] = inflight[i]
                                          /\ admission'[i] = admission[i]
                                          /\ owner'[i] = owner[i]
        /\ inflight[id] = None /\ id \notin startedExecs
    BY <1>1, <1>8 DEF Tracked, TInv, TypeOK
  <2>2. Owned'
    BY <1>2, <1>3, <1>8, <2>1 DEF Owned
  <2>3. Owed'
    BY <1>2, <1>3, <1>8, <2>1 DEF Owed
  <2>4. Admitted'
    BY <1>2, <1>3, <1>8, <2>1 DEF Admitted
  <2>5. NewUnanswered' /\ AnswersAreOwn' /\ ReplyMap'
    BY <1>2, <1>8 DEF NewUnanswered, AnswersAreOwn, ReplyMap
  <2>6. QueueEntriesOwnTheirId'
    <3>1. \A i \in DOMAIN execQueue : IdOf[execQueue[i]] # id
      BY <1>1, <2>1, TypeFacts, SchedulerAssumption
         DEF QueueEntriesOwnTheirId, ClientsKnown
    <3>2. QED BY <1>1, <1>2, <1>3, <2>1, <3>1, TypeFacts DEF QueueEntriesOwnTheirId
  <2>7. Traces'
    <3>1. \A m \in InTransit : Accounted(m)'
      <4>1. ASSUME NEW m \in InTransit, m.by \in Calls
            PROVE  IdOf[m.by] = m.id /\ owner'[m.id] = m.by /\ call'[m.by].pc = "sent"
        <5>1. IdOf[m.by] = m.id /\ owner[m.id] = m.by /\ call[m.by].pc = "sent"
          BY <4>1 DEF Traces, Accounted, Trace
        <5>2. m.id # id
          BY <1>2, <1>8, <4>1 DEF Fresh
        <5>3. QED BY <1>1, <1>2, <1>4, <2>1, <4>1, <5>1, <5>2
      <4>2. QED BY <1>2, <4>1 DEF Traces, Accounted, Trace, Registered, fileVars
    <3>2. ASSUME NEW i \in RequestId, session[i].st = "running"
          PROVE  /\ IdOf[session[i].by] = i /\ owner'[i] = session[i].by
                 /\ call'[session[i].by].pc = "sent"
      <4>1. i # id
        BY <1>2, <1>8, <3>2 DEF Fresh
      <4>2. session[i].by \in Calls
        BY <3>2 DEF TInv, WireTypes
      <4>3. QED BY <1>2, <1>5, <2>1, <3>2, <4>1, <4>2 DEF Traces, Trace
    <3>3. QED BY <1>6, <3>1, <3>2 DEF Traces, Trace
  <2>8. QED BY <2>2, <2>3, <2>4, <2>5, <2>6, <2>7
<1>9. QED
  <2>1. call' = [call EXCEPT ![c].pc = "resuming", ![c].client = k] =>
          call'[c].pc = "resuming"
    BY DEF TInv, TypeOK
  <2>2. QED BY <1>7, <1>8, <2>1 DEF HandleExec

LEMMA AnswerFacts ==
  ASSUME ReplyMap, NEW c \in Calls, NEW kind, NEW who, reply' = Answer(c, kind, who)
  PROVE  /\ reply'[c] = Append(reply[c], [kind |-> kind, by |-> who])
         /\ \A d \in Calls : d # c => reply'[d] = reply[d]
         /\ reply' = [d \in Calls |-> reply'[d]]
BY DEF Answer, ReplyMap

LEMMA EntryFacts ==
  ASSUME TInv, ClientsKnown, QueueEntriesOwnTheirId
  PROVE  \A d \in ToSet(execQueue) :
           /\ d \in Calls /\ IdOf[d] \in RequestId /\ call[d].pc = "queued"
           /\ owner[IdOf[d]] = d /\ inflight[IdOf[d]] = call[d].client
           /\ inflight[IdOf[d]] # None /\ IdOf[d] \notin startedExecs
BY TypeFacts, SchedulerAssumption DEF QueueEntriesOwnTheirId, ClientsKnown, ToSet

\* A call that waits for the controller and has lost its admission is not awaited.
LEMMA NotMine ==
  ASSUME TInv, Holders, NEW c \in Calls, call[c].pc = "resuming"
  PROVE  /\ OwnsAdmission(c) => owner[IdOf[c]] = c
         /\ owner[IdOf[c]] = c /\ inflight[IdOf[c]] # None =>
              OwnsAdmission(c) /\ inflight[IdOf[c]] = call[c].client /\ reply[c] = <<>>
         /\ \A d \in ToSet(execQueue) : d # c
BY TypeFacts, SchedulerAssumption
   DEF Holders, Admitted, Owed, OwnsAdmission, QueueEntriesOwnTheirId, ToSet

LEMMA OwnResumeFailed ==
  ASSUME SafeInv, ExecInv, NEW c \in Calls, ResumeFailed(c)
  PROVE  ExecInv'
<1> USE DEF SafeInv, ExecInv
<1> DEFINE id == IdOf[c]
<1>1. id \in RequestId /\ call[c].pc = "resuming" /\ c # None
  BY TypeFacts, SchedulerAssumption DEF ResumeFailed
<1>2. /\ \A i \in RequestId : i # id => /\ inflight'[i] = inflight[i]
                                        /\ admission'[i] = admission[i]
      /\ OwnsAdmission(c) => inflight'[id] = None /\ admission'[id] = None
      /\ ~OwnsAdmission(c) => inflight'[id] = inflight[id] /\ admission'[id] = admission[id]
  BY <1>1 DEF ResumeFailed, Forget
<1>3. /\ \A d \in Calls : d # c => call'[d] = call[d]
      /\ call'[c].pc = "over" /\ call'[c].client = call[c].client
  BY DEF ResumeFailed, TInv, TypeOK
<1>4. /\ reply' = [d \in Calls |-> reply'[d]]
      /\ \A d \in Calls : d # c => reply'[d] = reply[d]
      /\ \/ reply'[c] = reply[c]
         \/ /\ OwnsAdmission(c) /\ inflight[id] # None
            /\ \E kind : reply'[c] = Append(reply[c], [kind |-> kind, by |-> c])
  <2>1. CASE reply' = reply
    BY <2>1 DEF Holders, ReplyMap
  <2>2. CASE OwnsAdmission(c) /\ inflight[id] # None
             /\ reply' = Answer(c, "sandbox_resume_failed", c)
    <3>1. ReplyMap
      BY DEF Holders
    <3>2. /\ reply'[c] = Append(reply[c], [kind |-> "sandbox_resume_failed", by |-> c])
          /\ \A d \in Calls : d # c => reply'[d] = reply[d]
          /\ reply' = [d \in Calls |-> reply'[d]]
      BY <2>2, <3>1, AnswerFacts
    <3>3. QED BY <2>2, <3>2
  <2>3. QED BY <2>1, <2>2 DEF ResumeFailed
<1>5. UNCHANGED <<clients, startedExecs, execQueue, fileVars, toGuest, toHost, vmUp,
                  exits, guestVars, owner>>
  BY DEF ResumeFailed
<1>6. \A d \in ToSet(execQueue) : inflight'[IdOf[d]] # None
  BY <1>1, <1>2, EntryFacts, NotMine DEF Holders
<1>7. owner[id] = c => inflight'[id] = None
  BY <1>1, <1>2, NotMine
<1>8. admission'[id] # c
  BY <1>1, <1>2 DEF OwnsAdmission
<1>9. Holders'
  <2>1. \A i \in RequestId :
          /\ \/ inflight'[i] = None
             \/ /\ inflight'[i] = inflight[i] /\ admission'[i] = admission[i]
                /\ inflight[i] \in clients => inflight[i] \in clients'
          /\ admission'[i] \in {admission[i], None}
    BY <1>2, <1>5
  <2>2. \A d \in Calls :
          /\ call'[d].client = call[d].client
          /\ \/ call'[d].pc = call[d].pc
             \/ /\ call'[d].pc = "over" /\ call[d].pc # "new"
                /\ owner[IdOf[d]] = d => inflight'[IdOf[d]] = None
                /\ admission'[IdOf[d]] # d
    BY <1>1, <1>3, <1>7, <1>8
  <2>3. \A d \in Calls :
          \/ reply'[d] = reply[d]
          \/ /\ owner[IdOf[d]] = d /\ inflight[IdOf[d]] # None
             /\ inflight'[IdOf[d]] = None
             /\ \E kind : reply'[d] = Append(reply[d], [kind |-> kind, by |-> d])
    BY <1>1, <1>2, <1>4, NotMine
  <2>4. QueueShrinks
    BY <1>5, SameQueueShrinks
  <2>5. QED BY <1>4, <1>5, <1>6, <2>1, <2>2, <2>3, <2>4, HoldersRelease
<1>10. Traces'
  <2>1. InTransit' = InTransit /\ session' = session /\ fcall' = fcall
    BY <1>5 DEF InTransit, guestVars, fileVars
  <2>2. \A d \in Calls : call[d].pc = "sent" => call'[d].pc = "sent"
    BY <1>1, <1>3
  <2>3. QED BY <1>5, <2>1, <2>2, TracesKept
<1>11. QED BY <1>9, <1>10

LEMMA OwnStdinOverflow ==
  ASSUME SafeInv, ExecInv, NEW c \in Calls, StdinOverflow(c)
  PROVE  ExecInv'
<1> USE DEF SafeInv, ExecInv
<1> DEFINE id == IdOf[c]
<1>1. /\ id \in RequestId /\ owner[id] = c /\ inflight[id] # None /\ c # None
      /\ call[c].pc \in {"resuming", "queued"}
  BY TypeFacts, SchedulerAssumption DEF StdinOverflow
<1>2. /\ \A i \in RequestId : i # id => /\ inflight'[i] = inflight[i]
                                        /\ admission'[i] = admission[i]
      /\ inflight'[id] = None /\ admission'[id] = None
  BY <1>1 DEF StdinOverflow, Forget
<1>3. \A d \in Calls : \/ call'[d] = call[d] /\ (call[d].pc = "queued" => IdOf[d] # id)
                       \/ /\ IdOf[d] = id /\ call[d].pc = "queued"
                          /\ call'[d] = [call[d] EXCEPT !.pc = "over"]
  BY DEF StdinOverflow
<1>4. \A d \in Calls :
        /\ call'[d].client = call[d].client
        /\ \/ call'[d].pc = call[d].pc
           \/ call'[d].pc = "over" /\ call[d].pc = "queued" /\ IdOf[d] = id
  <2>1. \A d \in Calls : call[d] \in CallStates
    BY DEF TInv, TypeOK, CallStates
  <2>2. ASSUME NEW d \in Calls, call'[d] # call[d]
        PROVE  /\ call'[d].pc = "over" /\ call[d].pc = "queued" /\ IdOf[d] = id
               /\ call'[d].client = call[d].client
    <3>1. call[d].pc = "queued" /\ IdOf[d] = id /\ call'[d] = [call[d] EXCEPT !.pc = "over"]
      BY <1>3, <2>2
    <3>2. QED BY <2>1, <3>1 DEF CallStates
  <2>3. QED BY <2>2
<1>5. /\ reply' = [d \in Calls |-> reply'[d]]
      /\ \A d \in Calls : d # c => reply'[d] = reply[d]
      /\ reply'[c] = Append(reply[c], [kind |-> "payload_too_large", by |-> c])
  BY AnswerFacts DEF StdinOverflow, Holders
<1>6. UNCHANGED <<clients, startedExecs, fileVars, toGuest, toHost, vmUp, exits,
                  guestVars, owner>>
  BY DEF StdinOverflow
<1>7. /\ QueueShrinks
      /\ \A d \in ToSet(execQueue') : d \in ToSet(execQueue) /\ IdOf[d] # id
  <2> DEFINE P == {i \in DOMAIN execQueue : IdOf[execQueue[i]] # id}
  <2>1. execQueue' \in Filtered(execQueue, P) /\ P \in SUBSET DOMAIN execQueue
    BY DEF StdinOverflow
  <2>2. \A i \in P : execQueue[i] \in ToSet(execQueue) /\ IdOf[execQueue[i]] # id
    BY DEF ToSet
  <2> HIDE DEF P
  <2>3. QED BY <2>1, <2>2, FilterShrinks
<1>8. \A d \in ToSet(execQueue') : inflight'[IdOf[d]] # None
  BY <1>2, <1>7, EntryFacts DEF Holders
<1>9. Holders'
  <2>1. \A i \in RequestId :
          /\ \/ inflight'[i] = None
             \/ /\ inflight'[i] = inflight[i] /\ admission'[i] = admission[i]
                /\ inflight[i] \in clients => inflight[i] \in clients'
          /\ admission'[i] \in {admission[i], None}
    BY <1>2, <1>6
  <2>2. \A d \in Calls :
          /\ call'[d].client = call[d].client
          /\ \/ call'[d].pc = call[d].pc
             \/ /\ call'[d].pc = "over" /\ call[d].pc # "new"
                /\ owner[IdOf[d]] = d => inflight'[IdOf[d]] = None
                /\ admission'[IdOf[d]] # d
    BY <1>2, <1>4, SchedulerAssumption
  <2>3. \A d \in Calls :
          \/ reply'[d] = reply[d]
          \/ /\ owner[IdOf[d]] = d /\ inflight[IdOf[d]] # None
             /\ inflight'[IdOf[d]] = None
             /\ \E kind : reply'[d] = Append(reply[d], [kind |-> kind, by |-> d])
    BY <1>1, <1>2, <1>5
  <2>4. QED BY <1>5, <1>6, <1>7, <1>8, <2>1, <2>2, <2>3, HoldersRelease
<1>10. Traces'
  <2>1. InTransit' = InTransit /\ session' = session /\ fcall' = fcall
    BY <1>6 DEF InTransit, guestVars, fileVars
  <2>2. \A d \in Calls : call[d].pc = "sent" => call'[d].pc = "sent"
    BY <1>4
  <2>3. QED BY <1>6, <2>1, <2>2, TracesKept
<1>11. QED BY <1>9, <1>10

LEMMA OwnDisconnect ==
  ASSUME SafeInv, ExecInv, NEW k \in Clients, DisconnectClient(k)
  PROVE  ExecInv'
<1> USE DEF SafeInv, ExecInv
<1>1. k # None
  BY SchedulerAssumption
<1>2. \A i \in RequestId :
        /\ inflight'[i] = IF inflight[i] = k THEN None ELSE inflight[i]
        /\ admission'[i] = IF inflight[i] = k THEN None ELSE admission[i]
  BY DEF DisconnectClient, Forget
<1>3. \A d \in Calls :
        /\ call'[d].client = call[d].client
        /\ \/ call'[d].pc = call[d].pc
           \/ call'[d].pc = "over" /\ call[d].pc = "queued" /\ call[d].client = k
  BY DEF DisconnectClient, TInv, TypeOK
<1>4. clients' = clients \ {k}
      /\ UNCHANGED <<startedExecs, fileVars, toGuest, toHost, vmUp, exits, guestVars,
                     owner, reply>>
  BY DEF DisconnectClient
<1>5. /\ QueueShrinks
      /\ \A d \in ToSet(execQueue') : d \in ToSet(execQueue) /\ call[d].client # k
  <2> DEFINE P == {i \in DOMAIN execQueue : StaysQueued(execQueue[i], k)}
  <2>1. execQueue' \in Filtered(execQueue, P) /\ P \in SUBSET DOMAIN execQueue
    BY DEF DisconnectClient
  <2>2. \A i \in P : execQueue[i] \in ToSet(execQueue) /\ call[execQueue[i]].client # k
    BY DEF ToSet, StaysQueued
  <2> HIDE DEF P
  <2>3. QED BY <2>1, <2>2, FilterShrinks
<1>6. \A d \in ToSet(execQueue') : inflight'[IdOf[d]] # None
  BY <1>2, <1>5, EntryFacts DEF Holders
<1>7. Holders'
  <2>1. \A i \in RequestId :
          /\ \/ inflight'[i] = None
             \/ /\ inflight'[i] = inflight[i] /\ admission'[i] = admission[i]
                /\ inflight[i] \in clients => inflight[i] \in clients'
          /\ admission'[i] \in {admission[i], None}
    BY <1>2, <1>4
  <2>2. \A d \in Calls : IdOf[d] \in RequestId
    BY TypeFacts
  <2>3. \A d \in Calls : call[d].pc = "queued" /\ call[d].client = k =>
          /\ owner[IdOf[d]] = d => inflight'[IdOf[d]] = None
          /\ admission'[IdOf[d]] # d
    <3>1. ASSUME NEW d \in Calls, call[d].pc = "queued" PROVE admission[IdOf[d]] # d
      BY <2>2, <3>1, SchedulerAssumption DEF Holders, Admitted
    <3>2. ASSUME NEW d \in Calls, call[d].client = k, owner[IdOf[d]] = d
          PROVE  inflight'[IdOf[d]] = None
      BY <1>2, <2>2, <3>2 DEF Holders, Owed
    <3>3. QED BY <1>2, <2>2, <3>1, <3>2, SchedulerAssumption
  <2>4. \A d \in Calls :
          /\ call'[d].client = call[d].client
          /\ \/ call'[d].pc = call[d].pc
             \/ /\ call'[d].pc = "over" /\ call[d].pc # "new"
                /\ owner[IdOf[d]] = d => inflight'[IdOf[d]] = None
                /\ admission'[IdOf[d]] # d
    BY <1>3, <2>3
  <2>5. reply' = [d \in Calls |-> reply'[d]] /\ \A d \in Calls : reply'[d] = reply[d]
    BY <1>4 DEF Holders, ReplyMap
  <2>6. startedExecs' \subseteq startedExecs /\ owner' = owner
    BY <1>4
  <2>7. QED BY <1>5, <1>6, <2>1, <2>4, <2>5, <2>6, HoldersRelease
<1>8. Traces'
  <2>1. InTransit' = InTransit /\ session' = session /\ fcall' = fcall
    BY <1>4 DEF InTransit, guestVars, fileVars
  <2>2. \A d \in Calls : call[d].pc = "sent" => call'[d].pc = "sent"
    BY <1>3
  <2>3. QED BY <1>4, <2>1, <2>2, TracesKept
<1>9. QED BY <1>7, <1>8

LEMMA OwnResumed ==
  ASSUME SafeInv, ExecInv, NEW c \in Calls, Resumed(c)
  PROVE  ExecInv'
<1> USE DEF SafeInv, ExecInv
<1> DEFINE id == IdOf[c]
<1>1. /\ id \in RequestId /\ call[c].pc = "resuming" /\ c # None
      /\ \A d \in Calls : IdOf[d] \in RequestId
  BY TypeFacts, SchedulerAssumption DEF Resumed
<1>2. /\ \A d \in Calls : d # c => call'[d] = call[d]
      /\ call'[c].client = call[c].client
      /\ UNCHANGED <<clients, fileVars, toHost, vmUp, exits, guestVars, owner>>
  BY DEF Resumed, TInv, TypeOK
<1>3. \A i \in RequestId : i # id => /\ inflight'[i] = inflight[i]
                                     /\ admission'[i] = admission[i]
  BY <1>1 DEF Resumed, Forget, TInv, TypeOK
<1>4. \A i \in RequestId : owner[i] # None => owner[i] \in Calls /\ IdOf[owner[i]] = i
  BY DEF Holders, Owned, TInv, TypeOK
<1>5. session' = session /\ fcall' = fcall /\ fileWriter' = fileWriter
  BY <1>2 DEF guestVars, fileVars
<1>6. ReplyMap
  BY DEF Holders
\* The call ends: it was cancelled, or the bridge refuses it.
<1>7. ASSUME call'[c].pc = "over", startedExecs' \subseteq startedExecs,
             UNCHANGED <<execQueue, toGuest>>, admission'[id] \in {admission[id], None},
             owner[id] = c => inflight'[id] = None, admission'[id] # c,
             \/ inflight'[id] = None
             \/ inflight'[id] = inflight[id] /\ admission'[id] = admission[id],
             \/ reply' = reply
             \/ /\ owner[id] = c /\ inflight[id] # None /\ inflight'[id] = None
                /\ reply' = Answer(c, "queue_full", c)
      PROVE  ExecInv'
  <2>1. \A i \in RequestId :
          /\ \/ inflight'[i] = None
             \/ /\ inflight'[i] = inflight[i] /\ admission'[i] = admission[i]
                /\ inflight[i] \in clients => inflight[i] \in clients'
          /\ admission'[i] \in {admission[i], None}
    BY <1>2, <1>3, <1>7
  <2>2. \A d \in Calls :
          /\ call'[d].client = call[d].client
          /\ \/ call'[d].pc = call[d].pc
             \/ /\ call'[d].pc = "over" /\ call[d].pc # "new"
                /\ owner[IdOf[d]] = d => inflight'[IdOf[d]] = None
                /\ admission'[IdOf[d]] # d
    BY <1>1, <1>2, <1>7
  <2>3. /\ reply' = [d \in Calls |-> reply'[d]]
        /\ \A d \in Calls :
             \/ reply'[d] = reply[d]
             \/ /\ owner[IdOf[d]] = d /\ inflight[IdOf[d]] # None
                /\ inflight'[IdOf[d]] = None
                /\ \E kind : reply'[d] = Append(reply[d], [kind |-> kind, by |-> d])
    <3>1. CASE reply' = reply
      BY <1>6, <3>1 DEF ReplyMap
    <3>2. CASE /\ owner[id] = c /\ inflight[id] # None /\ inflight'[id] = None
               /\ reply' = Answer(c, "queue_full", c)
      <4>1. /\ reply'[c] = Append(reply[c], [kind |-> "queue_full", by |-> c])
            /\ \A d \in Calls : d # c => reply'[d] = reply[d]
            /\ reply' = [d \in Calls |-> reply'[d]]
        BY <1>6, <3>2, AnswerFacts
      <4>2. QED BY <3>2, <4>1
    <3>3. QED BY <1>7, <3>1, <3>2
  <2>4. \A d \in ToSet(execQueue') : inflight'[IdOf[d]] # None
    <3>1. \A d \in ToSet(execQueue) : /\ IdOf[d] \in RequestId /\ inflight[IdOf[d]] # None
                                      /\ owner[IdOf[d]] = d /\ call[d].pc = "queued"
      BY EntryFacts DEF Holders
    <3>2. \A d \in ToSet(execQueue) : IdOf[d] = id => owner[id] # c
      BY <1>1, <3>1
    <3>3. \A d \in ToSet(execQueue) : IdOf[d] # id \/ inflight'[id] = inflight[id]
      <4>1. inflight'[id] = None /\ inflight[id] # None => owner[id] = c
        BY <1>1, <1>7, NotMine DEF Resumed, Forget
      <4>2. QED BY <1>7, <3>1, <3>2, <4>1
    <3>4. QED BY <1>3, <1>7, <3>1, <3>3
  <2>5. Holders'
    <3>1. QueueShrinks
      BY <1>7, SameQueueShrinks
    <3>2. QED BY <1>2, <1>7, <2>1, <2>2, <2>3, <2>4, <3>1, HoldersRelease
  <2>6. Traces'
    <3>1. InTransit' = InTransit
      BY <1>2, <1>5, <1>7 DEF InTransit
    <3>2. \A d \in Calls : call[d].pc = "sent" => call'[d].pc = "sent"
      BY <1>1, <1>2
    <3>3. QED BY <1>2, <1>5, <3>1, <3>2, TracesKept
  <2>7. QED BY <2>5, <2>6
\* The call moves on, with its admission turned into a place in the queue or a
\* started exec.
<1>8. ASSUME OwnsAdmission(c), inflight[id] = call[c].client, inflight' = inflight,
             admission' = [admission EXCEPT ![id] = None], reply' = reply
      PROVE  /\ owner[id] = c /\ inflight[id] # None /\ id \notin startedExecs
             /\ Admitted' /\ NewUnanswered' /\ ReplyMap' /\ AnswersAreOwn'
             /\ call'[c].pc \in {"queued", "sent"} => Owed'
             /\ \A d \in ToSet(execQueue) : d # c /\ IdOf[d] # id
  <2>1. owner[id] = c /\ inflight[id] # None
    BY <1>1, <1>8, NotMine, SchedulerAssumption DEF ClientsKnown
  <2>2. id \notin startedExecs
    BY <1>1, <2>1 DEF Holders, Owned
  <2>3. admission'[id] = None
    BY <1>1, <1>8 DEF TInv, TypeOK
  <2>4. Admitted'
    BY <1>1, <1>2, <1>3, <1>4, <2>3 DEF Holders, Admitted
  <2>5. NewUnanswered' /\ ReplyMap' /\ AnswersAreOwn'
    <3>1. call'[c].pc # "new"
      BY <1>1 DEF Resumed, TInv, TypeOK
    <3>2. QED BY <1>2, <1>8, <3>1 DEF Holders, NewUnanswered, ReplyMap, AnswersAreOwn
  <2>6. ASSUME call'[c].pc \in {"queued", "sent"} PROVE Owed'
    BY <1>1, <1>2, <1>3, <1>4, <1>8, <2>1, <2>6 DEF Holders, Owed
  <2>7. \A d \in ToSet(execQueue) : d # c /\ IdOf[d] # id
    BY <1>1, <2>1, EntryFacts DEF Holders
  <2>8. QED BY <2>1, <2>2, <2>4, <2>5, <2>6, <2>7
<1>9. CASE /\ ~OwnsAdmission(c) \/ inflight[id] # call[c].client
           /\ admission' = IF OwnsAdmission(c) THEN [admission EXCEPT ![id] = None]
                           ELSE admission
           /\ call' = [call EXCEPT ![c].pc = "over"]
           /\ UNCHANGED <<inflight, startedExecs, execQueue, toGuest, reply>>
  <2>1. owner[id] = c => inflight[id] = None
    BY <1>1, <1>9, NotMine
  <2>2. OwnsAdmission(c) => owner[id] = c
    BY <1>1, NotMine
  <2>3. call'[c].pc = "over"
    BY <1>9 DEF TInv, TypeOK
  <2>4. /\ OwnsAdmission(c) => admission'[id] = None
        /\ ~OwnsAdmission(c) => admission'[id] = admission[id]
    BY <1>1, <1>9 DEF TInv, TypeOK
  <2>5. admission'[id] # c
    BY <1>1, <2>4 DEF OwnsAdmission
  <2>6. QED BY <1>7, <1>9, <2>1, <2>2, <2>3, <2>4, <2>5
<1>10. CASE /\ OwnsAdmission(c) /\ inflight[id] = call[c].client
            /\ admission' = [admission EXCEPT ![id] = None]
            /\ execQueue' = Append(execQueue, c)
            /\ call' = [call EXCEPT ![c].pc = "queued"]
            /\ UNCHANGED <<inflight, startedExecs, toGuest, reply>>
  <2>1. call'[c].pc = "queued"
    BY <1>10 DEF TInv, TypeOK
  <2>2. Owned'
    BY <1>1, <1>2, <1>4, <1>8, <1>10 DEF Holders, Owned
  <2>3. QueueEntriesOwnTheirId'
    <3>1. execQueue \in Seq(Calls)
      BY DEF TInv, TypeOK
    <3>2. /\ DOMAIN execQueue = 1 .. Len(execQueue) /\ Len(execQueue) \in Nat
          /\ DOMAIN execQueue' = 1 .. Len(execQueue) + 1
          /\ \A i \in DOMAIN execQueue : execQueue'[i] = execQueue[i]
          /\ execQueue'[Len(execQueue) + 1] = c
      BY <1>10, <3>1
    <3>3. \A i \in DOMAIN execQueue : execQueue[i] \in Calls /\ execQueue[i] # c
      BY <1>8, <1>10, <3>1 DEF ToSet
    <3>4. \A i \in DOMAIN execQueue' : i \in DOMAIN execQueue \/ i = Len(execQueue) + 1
      BY <3>2
    <3>5. ASSUME NEW i \in DOMAIN execQueue'
          PROVE  LET d == execQueue'[i] IN
                 /\ call'[d].pc = "queued" /\ owner'[IdOf[d]] = d
                 /\ inflight'[IdOf[d]] = call'[d].client /\ IdOf[d] \notin startedExecs'
                 /\ \A j \in DOMAIN execQueue' : execQueue'[j] = d => j = i
      <4>1. CASE i \in DOMAIN execQueue
        <5>1. /\ execQueue'[i] = execQueue[i] /\ execQueue[i] \in Calls
              /\ execQueue[i] # c /\ call'[execQueue[i]] = call[execQueue[i]]
          BY <1>2, <3>2, <3>3, <4>1
        <5>2. \A j \in DOMAIN execQueue' : execQueue'[j] = execQueue[i] => j = i
          BY <3>2, <3>4, <4>1, <5>1 DEF Holders, QueueEntriesOwnTheirId
        <5>3. QED BY <1>2, <1>10, <4>1, <5>1, <5>2 DEF Holders, QueueEntriesOwnTheirId
      <4>2. CASE i = Len(execQueue) + 1
        <5>1. execQueue'[i] = c
          BY <3>2, <4>2
        <5>2. \A j \in DOMAIN execQueue' : execQueue'[j] = c => j = i
          BY <3>2, <3>3, <3>4, <4>2
        <5>3. QED BY <1>2, <1>8, <1>10, <2>1, <5>1, <5>2
      <4>3. QED BY <3>4, <4>1, <4>2
    <3>6. QED BY <3>5 DEF QueueEntriesOwnTheirId
  <2>4. Traces'
    <3>1. InTransit' = InTransit
      BY <1>2, <1>5, <1>10 DEF InTransit
    <3>2. \A d \in Calls : call[d].pc = "sent" => call'[d].pc = "sent"
      BY <1>1, <1>2
    <3>3. QED BY <1>2, <1>5, <3>1, <3>2, TracesKept
  <2>5. QED BY <1>8, <1>10, <2>1, <2>2, <2>3, <2>4 DEF Holders
<1>11. CASE /\ OwnsAdmission(c) /\ inflight[id] = call[c].client
            /\ admission' = [admission EXCEPT ![id] = None]
            /\ toGuest' = Append(toGuest, Frame("exec", id, c))
            /\ startedExecs' = startedExecs \cup {id}
            /\ call' = [call EXCEPT ![c].pc = "sent"]
            /\ UNCHANGED <<inflight, execQueue, reply>>
  <2>1. call'[c].pc = "sent"
    BY <1>11 DEF TInv, TypeOK
  <2>2. Owned'
    BY <1>1, <1>2, <1>4, <1>8, <1>11, <2>1 DEF Holders, Owned
  <2>3. QueueEntriesOwnTheirId'
    <3>1. \A i \in DOMAIN execQueue : /\ execQueue[i] \in Calls /\ execQueue[i] # c
                                      /\ IdOf[execQueue[i]] # id
      BY <1>8, <1>11, TypeFacts DEF ToSet
    <3>2. QED BY <1>2, <1>11, <3>1 DEF Holders, QueueEntriesOwnTheirId
  <2>4. Traces'
    <3> DEFINE new == {Frame("exec", id, c)}
    <3>1. toGuest \in Seq(GuestFrames) /\ Frame("exec", id, c) \in GuestFrames
      BY <1>1 DEF TInv, WireTypes, Frame, GuestFrames
    <3>2. InTransit' \subseteq InTransit \cup new
      BY <1>2, <1>5, <1>11, <3>1, WireSets DEF InTransit
    <3>3. \A m \in new : m.id = id /\ m.by = c
      BY DEF Frame
    <3>4. c \notin FileCalls
      BY SchedulerAssumption
    <3>5. \A d \in Calls : call[d].pc = "sent" => call'[d].pc = "sent"
      BY <1>1, <1>2
    <3>6. \A m \in new :
            /\ m.by \in Calls => /\ IdOf[m.by] = m.id /\ owner'[m.id] = m.by
                                 /\ call'[m.by].pc = "sent"
            /\ m.by \in FileCalls /\ m.id # 0 =>
                 /\ fcall'[m.by].pc \notin {"new", "idleSeen"}
                 /\ m.id = fcall'[m.by].id
      BY <1>2, <1>8, <1>11, <2>1, <3>3, <3>4
    <3> HIDE DEF new
    <3>7. QED BY <1>2, <1>5, <3>2, <3>5, <3>6, TracesStay DEF Registered
  <2>5. QED BY <1>8, <1>11, <2>1, <2>2, <2>3, <2>4 DEF Holders
<1>12. CASE /\ OwnsAdmission(c) /\ inflight[id] = call[c].client
            /\ Forget({id}) /\ startedExecs' = startedExecs \ {id}
            /\ reply' = Answer(c, "queue_full", c)
            /\ call' = [call EXCEPT ![c].pc = "over"]
            /\ UNCHANGED <<execQueue, toGuest>>
  <2>1. owner[id] = c /\ inflight[id] # None
    BY <1>1, <1>12, NotMine, SchedulerAssumption DEF ClientsKnown
  <2>2. inflight'[id] = None /\ admission'[id] = None /\ call'[c].pc = "over"
    BY <1>1, <1>12 DEF Forget, TInv, TypeOK
  <2>3. QED BY <1>1, <1>7, <1>12, <2>1, <2>2
<1>13. QED BY <1>9, <1>10, <1>11, <1>12 DEF Resumed

LEMMA OwnSendInput ==
  ASSUME SafeInv, ExecInv, NEW c \in Calls, SendInput(c)
  PROVE  ExecInv'
<1> USE DEF SafeInv, ExecInv
<1>1. \A d \in Calls : call'[d].pc = call[d].pc /\ call'[d].client = call[d].client
  BY DEF SendInput, TInv, TypeOK
<1>2. UNCHANGED <<clients, inflight, startedExecs, admission, execQueue, fileVars,
                  toHost, vmUp, exits, guestVars, owner, reply>>
  BY DEF SendInput
<1>3. Holders'
  <2>1. \A i \in RequestId : owner[i] # None => owner[i] \in Calls
    BY DEF TInv, TypeOK
  <2>2. \A i \in RequestId : admission[i] # None => admission[i] \in Calls
    BY DEF TInv, TypeOK
  <2>3. Owned' /\ Owed' /\ Admitted'
    BY <1>1, <1>2, <2>1, <2>2 DEF Holders, Owned, Owed, Admitted
  <2>4. NewUnanswered' /\ ReplyMap' /\ AnswersAreOwn' /\ QueueEntriesOwnTheirId'
    BY <1>1, <1>2, TypeFacts
       DEF Holders, NewUnanswered, ReplyMap, AnswersAreOwn, QueueEntriesOwnTheirId
  <2>5. QED BY <2>3, <2>4 DEF Holders
<1>4. Traces'
  <2> DEFINE id == IdOf[c]
             new == {Frame("input", id, c)}
  <2>1. /\ id \in RequestId /\ c \notin FileCalls /\ toGuest \in Seq(GuestFrames)
        /\ Frame("input", id, c) \in GuestFrames
    BY TypeFacts, SchedulerAssumption DEF TInv, WireTypes, Frame, GuestFrames
  <2>2. InTransit' \subseteq InTransit \cup new
    BY <1>2, <2>1, WireSets DEF SendInput, InTransit, guestVars
  <2>3. \A m \in new : m.id = id /\ m.by = c
    BY DEF Frame
  <2>4. owner[id] = c /\ call[c].pc = "sent"
    BY DEF SendInput
  <2>5. \A m \in new :
          /\ m.by \in Calls => /\ IdOf[m.by] = m.id /\ owner'[m.id] = m.by
                               /\ call'[m.by].pc = "sent"
          /\ m.by \in FileCalls /\ m.id # 0 =>
               /\ fcall'[m.by].pc \notin {"new", "idleSeen"}
               /\ m.id = fcall'[m.by].id
    BY <1>1, <1>2, <2>1, <2>3, <2>4
  <2> HIDE DEF new
  <2>6. QED BY <1>1, <1>2, <2>2, <2>5, TracesStay DEF Registered, fileVars, guestVars
<1>5. QED BY <1>3, <1>4

LEMMA OwnRefuseInput ==
  ASSUME SafeInv, ExecInv, NEW c \in Calls, RefuseInput(c)
  PROVE  ExecInv'
<1> USE DEF SafeInv, ExecInv
<1>1. \A d \in Calls : call'[d].pc = call[d].pc /\ call'[d].client = call[d].client
  BY DEF RefuseInput, TInv, TypeOK
<1>2. UNCHANGED <<clients, inflight, startedExecs, admission, execQueue, fileVars,
                  toGuest, toHost, vmUp, exits, guestVars, owner, reply>>
  BY DEF RefuseInput
<1>3. Holders'
  <2>1. \A i \in RequestId : owner[i] # None => owner[i] \in Calls
    BY DEF TInv, TypeOK
  <2>2. \A i \in RequestId : admission[i] # None => admission[i] \in Calls
    BY DEF TInv, TypeOK
  <2>3. Owned' /\ Owed' /\ Admitted'
    BY <1>1, <1>2, <2>1, <2>2 DEF Holders, Owned, Owed, Admitted
  <2>4. NewUnanswered' /\ ReplyMap' /\ AnswersAreOwn' /\ QueueEntriesOwnTheirId'
    BY <1>1, <1>2, TypeFacts
       DEF Holders, NewUnanswered, ReplyMap, AnswersAreOwn, QueueEntriesOwnTheirId
  <2>5. QED BY <2>3, <2>4 DEF Holders
<1>4. Traces'
  <2>1. InTransit' = InTransit
    BY <1>2 DEF InTransit, guestVars
  <2>2. QED BY <1>1, <1>2, <2>1, TracesKept DEF fileVars, guestVars
<1>5. QED BY <1>3, <1>4

-----------------------------------------------------------------------------
(* File operations. *)

\* pumpExecQueue keeps the books of every id.
LEMMA HoldersPump ==
  ASSUME SafeInv, Holders, NEW wire \in Seq(GuestFrames), PumpExecQueue(wire),
         owner' = owner
  PROVE  Holders'
<1> USE DEF SafeInv, Holders
<1>1. /\ \A id \in RequestId : PumpedSame(id) \/ PumpedStarted(id) \/ PumpedRefused(id)
      /\ \A c \in Calls : owner[IdOf[c]] # c => call'[c] = call[c] /\ reply'[c] = reply[c]
  BY PumpEffects
<1>2. execQueue' = <<>> /\ clients' = clients
  BY PumpTypes
<1>3. \A id \in RequestId : owner[id] # None =>
        owner[id] \in Calls /\ IdOf[owner[id]] = id /\ call[owner[id]] \in CallStates
  BY DEF Owned, TInv, TypeOK, CallStates
<1>4. \A c \in Calls : IdOf[c] \in RequestId /\ c # None
  BY TypeFacts, SchedulerAssumption
<1>5. Owned'
  <2>1. ASSUME NEW id \in RequestId, owner[id] # None
        PROVE  /\ call'[owner[id]].pc # "new"
               /\ call'[owner[id]].pc \in {"resuming", "queued"} => id \notin startedExecs'
    <3>1. CASE PumpedSame(id)
      BY <2>1, <3>1 DEF PumpedSame, Owned
    <3>2. CASE PumpedStarted(id)
      BY <1>3, <2>1, <3>2 DEF PumpedStarted, CallStates
    <3>3. CASE PumpedRefused(id)
      BY <1>3, <2>1, <3>3 DEF PumpedRefused, CallStates
    <3>4. QED BY <1>1, <3>1, <3>2, <3>3
  <2>2. QED BY <1>3, <2>1 DEF Owned
<1>6. Owed'
  <2>1. ASSUME NEW id \in RequestId, inflight'[id] # None
        PROVE  LET c == owner[id] IN
               /\ c \in Calls
               /\ inflight'[id] = call'[c].client /\ inflight'[id] \in clients'
               /\ reply'[c] = <<>>
               /\ call'[c].pc \in {"resuming", "queued", "sent"}
               /\ call'[c].pc = "resuming" => admission'[id] = c
    <3>1. CASE PumpedSame(id)
      BY <1>2, <1>4, <2>1, <3>1 DEF PumpedSame, Owed
    <3>2. CASE PumpedStarted(id)
      <4>1. owner[id] \in Calls /\ call[owner[id]] \in CallStates
        BY <1>3, <1>4, <3>2 DEF PumpedStarted
      <4>2. QED BY <1>2, <3>2, <4>1 DEF PumpedStarted, Owed, CallStates
    <3>3. CASE PumpedRefused(id)
      BY <2>1, <3>3 DEF PumpedRefused
    <3>4. QED BY <1>1, <3>1, <3>2, <3>3
  <2>2. QED BY <2>1 DEF Owed
<1>7. Admitted'
  <2>1. ASSUME NEW id \in RequestId, admission'[id] # None
        PROVE  owner[id] = admission'[id] /\ call'[admission'[id]].pc = "resuming"
    <3>1. CASE PumpedSame(id)
      BY <2>1, <3>1 DEF PumpedSame, Admitted
    <3>2. CASE PumpedStarted(id)
      BY <2>1, <3>2 DEF PumpedStarted, Admitted
    <3>3. CASE PumpedRefused(id)
      BY <2>1, <3>3 DEF PumpedRefused
    <3>4. QED BY <1>1, <3>1, <3>2, <3>3
  <2>2. QED BY <2>1 DEF Admitted
<1>8. ASSUME NEW c \in Calls
      PROVE  \/ reply'[c] = reply[c] /\ (call'[c].pc = "new" => call[c].pc = "new")
             \/ /\ call'[c].pc # "new"
                /\ reply'[c] = <<[kind |-> "queue_full", by |-> c]>>
  <2>1. CASE owner[IdOf[c]] # c
    BY <1>1, <2>1
  <2> DEFINE id == IdOf[c]
  <2>2. ASSUME owner[id] = c, PumpedSame(id)
        PROVE  reply'[c] = reply[c] /\ call'[c] = call[c]
    BY <1>4, <2>2 DEF PumpedSame
  <2>3. ASSUME owner[id] = c, PumpedStarted(id)
        PROVE  reply'[c] = reply[c] /\ call'[c].pc = "sent"
    BY <1>3, <1>4, <2>3 DEF PumpedStarted, CallStates
  <2>4. ASSUME owner[id] = c, PumpedRefused(id)
        PROVE  /\ call'[c].pc # "new"
               /\ reply'[c] = <<[kind |-> "queue_full", by |-> c]>>
    <3>1. reply[c] = <<>> /\ reply'[c] = Append(reply[c], [kind |-> "queue_full", by |-> c])
      BY <1>4, <2>4 DEF PumpedRefused, Owed
    <3>2. call'[c].pc # "new"
      BY <1>3, <1>4, <2>4 DEF PumpedRefused, CallStates
    <3>3. QED BY <3>1, <3>2
  <2>5. QED BY <1>1, <1>4, <2>1, <2>2, <2>3, <2>4
<1>9. NewUnanswered'
  BY <1>8 DEF NewUnanswered
<1>10. AnswersAreOwn'
  <2>1. ASSUME NEW c \in Calls
        PROVE  Len(reply'[c]) <= 1 /\ \A i \in DOMAIN reply'[c] : reply'[c][i].by = c
    <3>1. CASE reply'[c] = reply[c]
      BY <3>1 DEF AnswersAreOwn
    <3>2. CASE reply'[c] = <<[kind |-> "queue_full", by |-> c]>>
      BY <3>2
    <3>3. QED BY <1>8, <3>1, <3>2
  <2>2. QED BY <2>1 DEF AnswersAreOwn
<1>11. ReplyMap'
  BY Zenon DEF PumpExecQueue, StartQueued, ReplyMap
<1>12. QueueEntriesOwnTheirId'
  BY <1>2 DEF QueueEntriesOwnTheirId
<1>13. QED BY <1>5, <1>6, <1>7, <1>9, <1>10, <1>11, <1>12

LEMMA OwnSettle ==
  ASSUME SafeInv, ExecInv, NEW f \in FileCalls, Registered(f),
         NEW pc \in {"request", "data", "closing", "await"}, NEW outcome,
         NEW wire \in Seq(GuestFrames),
         \A m \in ToSet(wire) : \/ m \in ToSet(toGuest)
                                \/ m.by = f /\ m.id = fcall[f].id,
         SettleFileOp(f, pc, outcome, wire), UNCHANGED <<session, fileWriter, owner>>,
         ToSet(toHost') \subseteq ToSet(toHost)
  PROVE  ExecInv'
<1> USE DEF SafeInv, ExecInv
<1>1. /\ \A g \in FileCalls : fcall'[g].id = fcall[g].id
      /\ \A g \in FileCalls : Registered(g) => fcall'[g].pc \notin {"new", "idleSeen"}
  <2>1. \E o : fcall' = [fcall EXCEPT ![f] = [fcall[f] EXCEPT !.pc = pc, !.outcome = o]]
    BY DEF SettleFileOp, TInv, TypeOK
  <2>2. QED BY <2>1 DEF Registered, TInv, TypeOK
<1>2. f \notin Calls
  BY SchedulerAssumption
<1>3. \A m \in ToSet(wire) \ ToSet(toGuest) :
        /\ m.by \notin Calls
        /\ m.by \in FileCalls /\ m.id # 0 =>
             /\ fcall'[m.by].pc \notin {"new", "idleSeen"}
             /\ m.id = fcall'[m.by].id
  BY <1>1, <1>2
<1>4. CASE PumpExecQueue(wire)
  <2>1. Holders'
    BY <1>4, HoldersPump
  <2>2. /\ \A id \in RequestId : PumpedSame(id) \/ PumpedStarted(id) \/ PumpedRefused(id)
        /\ \A c \in Calls : owner[IdOf[c]] # c => call'[c] = call[c] /\ reply'[c] = reply[c]
        /\ \A i \in DOMAIN toGuest' :
             \/ i \in DOMAIN wire /\ toGuest'[i] = wire[i]
             \/ i \notin DOMAIN wire
                  /\ \E id \in RequestId :
                       PumpedStarted(id) /\ toGuest'[i] = Frame("exec", id, owner[id])
    BY <1>4, PumpEffects DEF Holders
  <2>3. \A c \in Calls : IdOf[c] \in RequestId /\ c # None /\ call[c] \in CallStates
    BY TypeFacts, SchedulerAssumption DEF TInv, TypeOK, CallStates
  <2>4. \A c \in Calls : owner[IdOf[c]] = c /\ call[c].pc = "sent" => call'[c].pc = "sent"
    <3>1. ASSUME NEW c \in Calls, owner[IdOf[c]] = c, call[c].pc = "sent"
          PROVE  call'[c].pc = "sent"
      <4>1. PumpedSame(IdOf[c]) => call'[c] = call[c]
        BY <2>3, <3>1 DEF PumpedSame
      <4>2. ~PumpedStarted(IdOf[c]) /\ ~PumpedRefused(IdOf[c])
        BY <3>1 DEF PumpedStarted, PumpedRefused
      <4>3. QED BY <2>2, <2>3, <3>1, <4>1, <4>2
    <3>2. QED BY <3>1
  <2> DEFINE started == {Frame("exec", id, owner[id]) :
                           id \in {i \in RequestId : PumpedStarted(i)}}
             new == started \cup (ToSet(wire) \ ToSet(toGuest))
  <2>5. InTransit' \subseteq InTransit \cup new
    <3>1. ToSet(toGuest') \subseteq ToSet(wire) \cup started
      BY <2>2 DEF ToSet
    <3>2. QED BY <3>1 DEF InTransit
  <2>6. \A id \in RequestId : PumpedStarted(id) =>
          /\ owner[id] \in Calls /\ IdOf[owner[id]] = id /\ call'[owner[id]].pc = "sent"
    <3>1. ASSUME NEW id \in RequestId, PumpedStarted(id)
          PROVE  /\ owner[id] \in Calls /\ IdOf[owner[id]] = id
                 /\ call'[owner[id]].pc = "sent"
      <4>1. owner[id] \in Calls /\ call'[owner[id]] = [call[owner[id]] EXCEPT !.pc = "sent"]
        BY <3>1 DEF PumpedStarted
      <4>2. IdOf[owner[id]] = id
        BY <2>3, <4>1 DEF Holders, Owned
      <4>3. QED BY <2>3, <4>1, <4>2 DEF CallStates
    <3>2. QED BY <3>1
  <2>7. \A m \in started :
          /\ m.by \in Calls /\ IdOf[m.by] = m.id /\ owner'[m.id] = m.by
          /\ call'[m.by].pc = "sent" /\ m.by \notin FileCalls
    BY <2>6, SchedulerAssumption DEF Frame
  <2> HIDE DEF started
  <2>8. \A m \in new :
          /\ m.by \in Calls => /\ IdOf[m.by] = m.id /\ owner'[m.id] = m.by
                               /\ call'[m.by].pc = "sent"
          /\ m.by \in FileCalls /\ m.id # 0 =>
               /\ fcall'[m.by].pc \notin {"new", "idleSeen"}
               /\ m.id = fcall'[m.by].id
    BY <1>3, <2>7
  <2> HIDE DEF new
  <2>9. Traces'
    BY <1>1, <2>4, <2>5, <2>8, TracesStay
  <2>10. QED BY <2>1, <2>9
<1>5. CASE toGuest' = wire /\ UNCHANGED <<activeFileOpId, hostVars, reply>>
  <2>1. Holders'
    BY <1>5, HoldersSame
  <2> DEFINE new == ToSet(wire) \ ToSet(toGuest)
  <2>2. InTransit' \subseteq InTransit \cup new
    BY <1>5 DEF InTransit
  <2>3. \A m \in new :
          /\ m.by \in Calls => /\ IdOf[m.by] = m.id /\ owner'[m.id] = m.by
                               /\ call'[m.by].pc = "sent"
          /\ m.by \in FileCalls /\ m.id # 0 =>
               /\ fcall'[m.by].pc \notin {"new", "idleSeen"}
               /\ m.id = fcall'[m.by].id
    BY <1>3
  <2> HIDE DEF new
  <2>4. Traces'
    BY <1>1, <1>5, <2>2, <2>3, TracesStay DEF hostVars
  <2>5. QED BY <2>1, <2>4
<1>6. QED BY <1>4, <1>5 DEF SettleFileOp

LEMMA OwnFileTasks ==
  ASSUME SafeInv, ExecInv, NEW f \in FileCalls, HostFile(f)
  PROVE  ExecInv'
<1> USE DEF SafeInv, ExecInv
<1>1. f \notin Calls /\ toGuest \in Seq(GuestFrames)
  BY SchedulerAssumption DEF TInv, WireTypes
<1>2. Registered(f) => /\ Frame(fcall[f].kind, fcall[f].id, f) \in GuestFrames
                       /\ Frame("data", fcall[f].id, f) \in GuestFrames
  BY DEF TInv, WireTypes, Frame, GuestFrames
\* What a file call sends or notes by itself.
<1>3. ASSUME UNCHANGED <<hostVars, toHost, guestVars, owner, reply>>,
             \/ toGuest' = toGuest
             \/ \E t : /\ toGuest' = Append(toGuest, Frame(t, fcall[f].id, f))
                       /\ Frame(t, fcall[f].id, f) \in GuestFrames /\ Registered(f),
             \A g \in FileCalls : Registered(g) =>
               fcall'[g].id = fcall[g].id /\ fcall'[g].pc \notin {"new", "idleSeen"}
      PROVE  ExecInv'
  <2>1. Holders'
    BY <1>3, HoldersSame
  <2> DEFINE new == ToSet(toGuest') \ ToSet(toGuest)
  <2>2. InTransit' \subseteq InTransit \cup new
    BY <1>3 DEF InTransit, guestVars
  <2>3. \A m \in new : m.by = f /\ m.id = fcall[f].id /\ Registered(f)
    <3>1. CASE toGuest' = toGuest
      BY <3>1
    <3>2. CASE \E t : /\ toGuest' = Append(toGuest, Frame(t, fcall[f].id, f))
                      /\ Frame(t, fcall[f].id, f) \in GuestFrames /\ Registered(f)
      <4>1. PICK t : /\ toGuest' = Append(toGuest, Frame(t, fcall[f].id, f))
                     /\ Frame(t, fcall[f].id, f) \in GuestFrames /\ Registered(f)
        BY <3>2
      <4>2. new \subseteq {Frame(t, fcall[f].id, f)}
        BY <1>1, <4>1, WireSets
      <4>3. QED BY <4>1, <4>2 DEF Frame
    <3>3. QED BY <1>3, <3>1, <3>2
  <2>4. \A m \in new :
          /\ m.by \in Calls => /\ IdOf[m.by] = m.id /\ owner'[m.id] = m.by
                               /\ call'[m.by].pc = "sent"
          /\ m.by \in FileCalls /\ m.id # 0 =>
               /\ fcall'[m.by].pc \notin {"new", "idleSeen"}
               /\ m.id = fcall'[m.by].id
    BY <1>1, <1>3, <2>3
  <2> HIDE DEF new
  <2>5. Traces'
    BY <1>3, <2>2, <2>4, TracesStay DEF hostVars, guestVars
  <2>6. QED BY <2>1, <2>5
<1>4. ASSUME NEW outcome, NEW wire \in Seq(GuestFrames), Registered(f),
             SettleFileOp(f, "await", outcome, wire),
             wire = toGuest \/ wire = Append(toGuest, Frame("data", fcall[f].id, f)),
             UNCHANGED <<toHost, guestVars, owner>>
      PROVE  ExecInv'
  <2>1. \A m \in ToSet(wire) : \/ m \in ToSet(toGuest)
                               \/ m.by = f /\ m.id = fcall[f].id
    <3>1. wire = toGuest \/ ToSet(wire) = ToSet(toGuest) \cup {Frame("data", fcall[f].id, f)}
      <4>1. Frame("data", fcall[f].id, f) \in GuestFrames
        BY <1>2, <1>4
      <4>2. ToSet(Append(toGuest, Frame("data", fcall[f].id, f)))
              = ToSet(toGuest) \cup {Frame("data", fcall[f].id, f)}
        BY <1>1, <4>1, WireSets
      <4>3. QED BY <1>4, <4>2
    <3>2. QED BY <3>1 DEF Frame
  <2>2. UNCHANGED <<session, fileWriter, owner>> /\ ToSet(toHost') \subseteq ToSet(toHost)
    BY <1>4 DEF guestVars
  <2>3. QED BY <1>4, <2>1, <2>2, OwnSettle
<1>5. CASE FileIdleSeen(f)
  <2>1. \A g \in FileCalls : Registered(g) => fcall'[g] = fcall[g]
    BY <1>5 DEF FileIdleSeen, Registered, TInv, TypeOK
  <2>2. QED BY <1>3, <1>5, <2>1 DEF FileIdleSeen, Registered
<1>6. ASSUME NEW kind \in {"read", "write"}, RegisterFileOp(f, kind) PROVE ExecInv'
  <2>1. \A g \in FileCalls : Registered(g) => fcall'[g] = fcall[g]
    BY <1>6 DEF RegisterFileOp, Registered, TInv, TypeOK
  <2>2. UNCHANGED <<hostVars, toHost, guestVars, owner, reply, toGuest>>
    BY <1>6 DEF RegisterFileOp
  <2>3. QED BY <1>3, <2>1, <2>2 DEF Registered
<1>7. ASSUME NEW pc \in {"request", "data", "closing", "await"}, Registered(f),
             fcall' = [fcall EXCEPT ![f].pc = pc]
      PROVE  \A g \in FileCalls : Registered(g) =>
               fcall'[g].id = fcall[g].id /\ fcall'[g].pc \notin {"new", "idleSeen"}
  BY <1>7 DEF Registered, TInv, TypeOK
<1>8. CASE SendFileRequest(f)
  <2>1. /\ Registered(f)
        /\ \E pc \in {"data", "await"} : fcall' = [fcall EXCEPT ![f].pc = pc]
    BY <1>8 DEF SendFileRequest, Registered
  <2>2. QED BY <1>2, <1>3, <1>7, <1>8, <2>1 DEF SendFileRequest
<1>9. CASE SendFileEof(f)
  <2>1. Registered(f) /\ fcall' = [fcall EXCEPT ![f].pc = "await"]
    BY <1>9 DEF SendFileEof, Registered
  <2>2. QED BY <1>2, <1>3, <1>7, <1>9, <2>1 DEF SendFileEof
<1>10. CASE FileSendFails(f)
  <2>1. Registered(f)
    BY <1>10 DEF FileSendFails, Registered
  <2>2. QED BY <1>1, <1>4, <1>10, <2>1 DEF FileSendFails
<1>11. CASE FileDataFails(f)
  <2>1. Registered(f) /\ fcall' = [fcall EXCEPT ![f].pc = "closing"]
    BY <1>11 DEF FileDataFails, Registered
  <2>2. QED BY <1>3, <1>7, <1>11, <2>1 DEF FileDataFails
<1>12. CASE SendClosingEof(f)
  <2>1. Registered(f)
    BY <1>12 DEF SendClosingEof, Registered
  <2>2. Append(toGuest, Frame("data", fcall[f].id, f)) \in Seq(GuestFrames)
    BY <1>2, <2>1, WireSteps
  <2>3. QED BY <1>4, <1>12, <2>1, <2>2 DEF SendClosingEof
<1>13. QED BY <1>5, <1>6, <1>8, <1>9, <1>10, <1>11, <1>12 DEF HostFile

-----------------------------------------------------------------------------
(* The bridge's handlers, the VM's exit, and the guest. *)

\* exec_response, or an error charged to an exec in flight.
LEMMA OwnAnswered ==
  ASSUME SafeInv, ExecInv, NEW m \in InTransit, m.by \in Calls, m.id \in RequestId,
         UNCHANGED <<clients, admission, execQueue, call, owner, session, fileWriter,
                     fcall>>,
         startedExecs' \subseteq startedExecs, InTransit' \subseteq InTransit,
         \/ inflight[m.id] = None /\ reply' = reply
         \/ /\ inflight[m.id] # None
            /\ \E kind : reply' = Answer(owner[m.id], kind, m.by),
         inflight' = [inflight EXCEPT ![m.id] = None]
  PROVE  ExecInv'
<1> USE DEF SafeInv, ExecInv
<1> DEFINE id == m.id
           c == m.by
<1>1. owner[id] = c /\ IdOf[c] = id /\ call[c].pc = "sent"
  BY DEF Traces, Accounted, Trace
<1>2. \A i \in RequestId : inflight'[i] = IF i = id THEN None ELSE inflight[i]
  BY DEF TInv, TypeOK
<1>3. \A i \in RequestId :
        /\ \/ inflight'[i] = None
           \/ /\ inflight'[i] = inflight[i] /\ admission'[i] = admission[i]
              /\ inflight[i] \in clients => inflight[i] \in clients'
        /\ admission'[i] \in {admission[i], None}
  BY <1>2
<1>4. \A d \in Calls :
        /\ call'[d].client = call[d].client
        /\ \/ call'[d].pc = call[d].pc
           \/ /\ call'[d].pc = "over" /\ call[d].pc # "new"
              /\ owner[IdOf[d]] = d => inflight'[IdOf[d]] = None
              /\ admission'[IdOf[d]] # d
  OBVIOUS
<1>5. /\ reply' = [d \in Calls |-> reply'[d]]
      /\ \A d \in Calls :
           \/ reply'[d] = reply[d]
           \/ /\ owner[IdOf[d]] = d /\ inflight[IdOf[d]] # None
              /\ inflight'[IdOf[d]] = None
              /\ \E kind : reply'[d] = Append(reply[d], [kind |-> kind, by |-> d])
  <2>1. CASE reply' = reply
    BY <2>1 DEF Holders, ReplyMap
  <2>2. CASE inflight[id] # None /\ \E kind : reply' = Answer(owner[id], kind, c)
    <3>1. PICK kind : reply' = Answer(c, kind, c)
      BY <1>1, <2>2
    <3>2. /\ reply'[c] = Append(reply[c], [kind |-> kind, by |-> c])
          /\ \A d \in Calls : d # c => reply'[d] = reply[d]
          /\ reply' = [d \in Calls |-> reply'[d]]
      BY <3>1, AnswerFacts DEF Holders
    <3>3. QED BY <1>1, <1>2, <2>2, <3>2
  <2>3. QED BY <2>1, <2>2
<1>6. \A d \in ToSet(execQueue') : inflight'[IdOf[d]] # None
  BY <1>1, <1>2, EntryFacts DEF Holders
<1>7. QueueShrinks
  BY SameQueueShrinks
<1>8. Holders'
  BY <1>3, <1>4, <1>5, <1>6, <1>7, HoldersRelease
<1>9. Traces'
  BY TracesKept
<1>10. QED BY <1>8, <1>9

LEMMA OwnRecv ==
  ASSUME SafeInv, ExecInv, IdsApart, HostRecv
  PROVE  ExecInv'
<1> USE DEF SafeInv, ExecInv
<1> DEFINE m == Head(toHost)
<1>1. /\ toHost # <<>> /\ toHost' = Tail(toHost) /\ m \in HostFrames
      /\ UNCHANGED <<vmUp, exits, guestVars, owner>>
  BY WireSteps DEF HostRecv, RecvExecResponse, RecvFileDone, RecvError, Received
<1>2. m \in InTransit /\ ToSet(toHost') \subseteq ToSet(toHost) /\ m \in ToSet(toHost)
  BY <1>1, WireSets DEF InTransit, TInv, WireTypes
<1>3. session' = session /\ fileWriter' = fileWriter
  BY <1>1 DEF guestVars
\* Nothing but startedExecs changes on the host.
<1>4. ASSUME UNCHANGED <<clients, inflight, admission, execQueue, call, fileVars,
                         toGuest, reply>>,
             startedExecs' \subseteq startedExecs
      PROVE  ExecInv'
  <2>1. Holders'
    BY <1>1, <1>4 DEF Holders, Owned, Owed, Admitted, NewUnanswered, ReplyMap,
                      AnswersAreOwn, QueueEntriesOwnTheirId
  <2>2. InTransit' \subseteq InTransit
    BY <1>2, <1>3, <1>4 DEF InTransit
  <2>3. Traces'
    BY <1>1, <1>3, <1>4, <2>2, TracesKept DEF fileVars
  <2>4. QED BY <2>1, <2>3
<1>5. ASSUME NEW f \in fileOps, NEW outcome, SettleFileOp(f, fcall[f].pc, outcome, toGuest)
      PROVE  ExecInv'
  <2>1. f \in FileCalls /\ Registered(f) /\ toGuest \in Seq(GuestFrames)
    BY DEF TInv, TypeOK, WireTypes
  <2>2. fcall[f].pc \in {"request", "data", "closing", "await"}
    BY <2>1 DEF TInv, TypeOK, FilePcs, Registered
  <2>3. QED BY <1>1, <1>2, <1>3, <1>5, <2>1, <2>2, OwnSettle
<1>6. ASSUME m.by \in Calls, m.id \in RequestId,
             UNCHANGED <<clients, admission, execQueue, call, fileVars, toGuest>>,
             startedExecs' = startedExecs \ {m.id},
             \/ inflight[m.id] = None /\ reply' = reply
             \/ /\ inflight[m.id] # None
                /\ \E kind : reply' = Answer(owner[m.id], kind, m.by),
             inflight' = [inflight EXCEPT ![m.id] = None]
      PROVE  ExecInv'
  <2>1. InTransit' \subseteq InTransit
    BY <1>2, <1>3, <1>6 DEF InTransit
  <2>2. startedExecs' \subseteq startedExecs
    BY <1>6
  <2> HIDE DEF m
  <2>3. QED BY <1>1, <1>2, <1>3, <1>6, <2>1, <2>2, OwnAnswered DEF fileVars
<1>7. CASE RecvExecResponse
  <2>1. m.by \in Calls /\ m.id \in RequestId
    BY <1>1, <1>7 DEF RecvExecResponse, HostFrames
  <2>2. QED BY <1>6, <1>7, <2>1 DEF RecvExecResponse
<1>8. CASE RecvFileDone
  <2>1. CASE UNCHANGED <<hostVars, fileVars, toGuest, reply>>
    BY <1>4, <2>1 DEF hostVars
  <2>2. CASE \E f \in fileOps : SettleFileOp(f, fcall[f].pc, "done", toGuest)
    BY <1>5, <2>2
  <2>3. QED BY <1>8, <2>1, <2>2 DEF RecvFileDone
<1>9. CASE RecvError
  <2>1. CASE /\ m.id # 0 /\ inflight[m.id] # None
             /\ reply' = Answer(owner[m.id], "error", m.by)
             /\ inflight' = [inflight EXCEPT ![m.id] = None]
             /\ startedExecs' = startedExecs \ {m.id}
             /\ UNCHANGED <<clients, admission, execQueue, call, fileVars, toGuest>>
    <3>1. m.id \in RequestId
      BY <1>1, <2>1 DEF HostFrames, RequestId
    <3>2. m.by \in Calls
      <4>1. owner[m.id] \in Calls /\ IdOf[owner[m.id]] = m.id
        BY <2>1, <3>1, SchedulerAssumption DEF Holders, Owed, Owned
      <4>2. m.by \in Calls \cup FileCalls
        BY <1>1 DEF HostFrames
      <4>3. ASSUME m.by \in FileCalls PROVE FALSE
        <5>1. m.id = fcall[m.by].id
          BY <1>2, <2>1, <4>3 DEF Traces, Accounted
        <5>2. QED BY <4>1, <4>3, <5>1 DEF IdsApart
      <4>4. QED BY <4>2, <4>3
    <3>3. QED BY <1>6, <2>1, <3>1, <3>2
  <2>2. CASE \E f \in fileOps : SettleFileOp(f, fcall[f].pc, "failed", toGuest)
    BY <1>5, <2>2
  <2>3. CASE /\ startedExecs' = startedExecs \ {m.id}
             /\ UNCHANGED <<clients, inflight, admission, execQueue, call, fileVars,
                            toGuest, reply>>
    BY <1>4, <2>3
  <2>4. QED BY <1>9, <2>1, <2>2, <2>3 DEF RecvError
<1>10. QED BY <1>7, <1>8, <1>9 DEF HostRecv

LEMMA OwnVm ==
  ASSUME SafeInv, ExecInv, VmExit \/ VmStart
  PROVE  ExecInv'
<1> USE DEF SafeInv, ExecInv
<1>1. CASE VmExit
  <2>1. \A d \in Calls : IdOf[d] \in RequestId
    BY TypeFacts
  <2>2. /\ \A i \in RequestId : inflight'[i] = None /\ admission'[i] = None
        /\ startedExecs' = {} /\ execQueue' = <<>>
        /\ owner' = owner
    BY <1>1 DEF VmExit, Forget
  <2>3. \A d \in Calls :
          /\ call'[d].client = call[d].client
          /\ \/ call'[d].pc = call[d].pc
             \/ call'[d].pc = "over" /\ call[d].pc = "queued"
    BY <1>1 DEF VmExit, TInv, TypeOK
  <2>4. /\ reply' = [d \in Calls |-> reply'[d]]
        /\ \A d \in Calls :
             \/ reply'[d] = reply[d]
             \/ /\ owner[IdOf[d]] = d /\ inflight[IdOf[d]] # None
                /\ \E kind : reply'[d] = Append(reply[d], [kind |-> kind, by |-> d])
    <3>1. \A d \in Calls :
             \/ reply'[d] = reply[d]
             \/ /\ owner[IdOf[d]] = d /\ inflight[IdOf[d]] # None
                /\ reply'[d] = Append(reply[d], [kind |-> "sandbox_stopped", by |-> d])
      BY <1>1 DEF VmExit
    <3>2. reply' = [d \in Calls |-> reply'[d]]
      BY <1>1, Zenon DEF VmExit
    <3>3. QED BY <3>1, <3>2
  <2>5. QueueShrinks
    <3>1. DOMAIN execQueue' = {}
      BY <2>2
    <3>2. [i \in {} |-> 0] \in [DOMAIN execQueue' -> DOMAIN execQueue]
      BY <3>1
    <3>3. QED BY <3>1, <3>2 DEF QueueShrinks
  <2>6. ToSet(execQueue') = {}
    BY <2>2 DEF ToSet
  <2>7. \A i \in RequestId :
          /\ \/ inflight'[i] = None
             \/ /\ inflight'[i] = inflight[i] /\ admission'[i] = admission[i]
                /\ inflight[i] \in clients => inflight[i] \in clients'
          /\ admission'[i] \in {admission[i], None}
    BY <2>2
  <2>8. \A d \in Calls :
          /\ call'[d].client = call[d].client
          /\ \/ call'[d].pc = call[d].pc
             \/ /\ call'[d].pc = "over" /\ call[d].pc # "new"
                /\ owner[IdOf[d]] = d => inflight'[IdOf[d]] = None
                /\ admission'[IdOf[d]] # d
    BY <2>1, <2>2, <2>3, SchedulerAssumption
  <2>9. \A d \in Calls :
          \/ reply'[d] = reply[d]
          \/ /\ owner[IdOf[d]] = d /\ inflight[IdOf[d]] # None
             /\ inflight'[IdOf[d]] = None
             /\ \E kind : reply'[d] = Append(reply[d], [kind |-> kind, by |-> d])
    BY <2>1, <2>2, <2>4
  <2>10. startedExecs' \subseteq startedExecs
         /\ \A d \in ToSet(execQueue') : inflight'[IdOf[d]] # None
    BY <2>2, <2>6
  <2>11. Holders'
    BY <2>2, <2>4, <2>5, <2>7, <2>8, <2>9, <2>10, HoldersRelease
  <2>12. InTransit' \subseteq InTransit
    <3>1. toGuest \in Seq(GuestFrames) /\ toHost \in Seq(HostFrames)
      BY DEF TInv, WireTypes
    <3>2. Len(toGuest) \in Nat /\ Len(toHost) \in Nat
      BY <3>1
    <3>3. ToSet(toGuest') \subseteq ToSet(toGuest)
      <4>1. PICK n \in 0 .. Len(toGuest) : toGuest' = SubSeq(toGuest, n + 1, Len(toGuest))
        BY <1>1 DEF VmExit
      <4>2. n + 1 \in 1 .. Len(toGuest) + 1 /\ Len(toGuest) \in 0 .. Len(toGuest)
        BY <3>2
      <4>3. QED BY <3>1, <4>1, <4>2, WireSets
    <3>4. ToSet(toHost') \subseteq ToSet(toHost)
      <4>1. PICK n \in 0 .. Len(toHost) : toHost' = SubSeq(toHost, 1, n)
        BY <1>1 DEF VmExit
      <4>2. 1 \in 1 .. Len(toHost) + 1
        BY <3>2
      <4>3. QED BY <3>1, <4>1, <4>2, WireSets
    <3>5. fileWriter' = None
      BY <1>1 DEF VmExit
    <3>6. QED BY <3>3, <3>4, <3>5 DEF InTransit
  <2>13. Traces'
    <3>1. \A id \in RequestId : session'[id].st # "running"
      BY <1>1 DEF VmExit
    <3>2. \A f \in FileCalls : fcall'[f].id = fcall[f].id /\ fcall'[f].pc = fcall[f].pc
      BY <1>1 DEF VmExit, TInv, TypeOK
    <3>3. \A d \in Calls : call[d].pc = "sent" => call'[d].pc = "sent"
      BY <2>3
    <3>4. QED BY <2>2, <2>12, <3>1, <3>2, <3>3, TracesKept
  <2>14. QED BY <2>11, <2>13
<1>2. CASE VmStart
  <2>1. Holders'
    BY <1>2, HoldersSame DEF VmStart
  <2>2. Traces'
    BY <1>2, TracesKept DEF VmStart, InTransit, hostVars, fileVars, guestVars
  <2>3. QED BY <2>1, <2>2
<1>3. QED BY <1>1, <1>2

LEMMA OwnGuest ==
  ASSUME SafeInv, ExecInv, GuestLoop \/ \E id \in RequestId : GuestWorker(id)
  PROVE  ExecInv'
<1> USE DEF SafeInv, ExecInv
<1>1. UNCHANGED <<hostVars, fileVars, owner, reply>>
  BY DEF GuestLoop, GuestWorker, GuestExec, GuestInput, GuestFileRead, GuestFileWrite,
         GuestWriteLoop, GuestStrayData, ExecWorkerEnds, ExecSessionDone, Consumed
<1>2. Holders'
  BY <1>1, HoldersSame
<1> DEFINE m == Head(toGuest)
\* What the guest sends answers something it had received.
<1>3. ASSUME NEW new, InTransit' \subseteq InTransit \cup new,
             \A x \in new : \/ x.id = 0
                            \/ \E y \in InTransit : x.id = y.id /\ x.by = y.by
                            \/ \E id \in RequestId : /\ session[id].st = "running"
                                                     /\ x.id = id /\ x.by = session[id].by,
             \A x \in new : x.id = 0 => x.by \notin Calls,
             \A id \in RequestId : session'[id].st = "running" =>
               \/ session[id].st = "running" /\ session'[id].by = session[id].by
               \/ \E y \in InTransit : y.id = id /\ y.by = session'[id].by
      PROVE  ExecInv'
  <2>1. call' = call /\ owner' = owner /\ fcall' = fcall
    BY <1>1 DEF hostVars, fileVars
  <2>2. \A x \in new :
          /\ x.by \in Calls => /\ IdOf[x.by] = x.id /\ owner'[x.id] = x.by
                               /\ call'[x.by].pc = "sent"
          /\ x.by \in FileCalls /\ x.id # 0 =>
               /\ fcall'[x.by].pc \notin {"new", "idleSeen"}
               /\ x.id = fcall'[x.by].id
    <3>1. \A id \in RequestId : session[id].st = "running" =>
            /\ session[id].by \in Calls /\ session[id].by \notin FileCalls
            /\ IdOf[session[id].by] = id /\ owner[id] = session[id].by
            /\ call[session[id].by].pc = "sent"
      BY SchedulerAssumption DEF TInv, WireTypes, Traces, Trace
    <3>2. \A y \in InTransit :
            /\ y.by \in Calls => /\ IdOf[y.by] = y.id /\ owner[y.id] = y.by
                                 /\ call[y.by].pc = "sent"
            /\ y.by \in FileCalls /\ y.id # 0 =>
                 /\ fcall[y.by].pc \notin {"new", "idleSeen"}
                 /\ y.id = fcall[y.by].id
      BY DEF Traces, Accounted, Trace, Registered
    <3>3. QED BY <1>3, <2>1, <3>1, <3>2
  <2>3. \A id \in RequestId : session'[id].st = "running" =>
          \/ session[id].st = "running" /\ session'[id].by = session[id].by
          \/ \E c \in Calls : /\ session'[id].by = c /\ IdOf[c] = id
                              /\ owner'[id] = c /\ call'[c].pc = "sent"
    <3>1. ASSUME NEW id \in RequestId, session'[id].st = "running"
          PROVE  session'[id].by \in Calls
      <4>1. SafeInv'
        BY SafeGuest
      <4>2. QED BY <3>1, <4>1 DEF TInv, WireTypes
    <3>2. \A y \in InTransit :
            y.by \in Calls => /\ IdOf[y.by] = y.id /\ owner[y.id] = y.by
                              /\ call[y.by].pc = "sent"
      BY DEF Traces, Accounted, Trace
    <3>3. QED BY <1>3, <2>1, <3>1, <3>2
  <2>4. Traces'
    BY <1>3, <2>1, <2>2, <2>3, TracesStay DEF Registered
  <2>5. QED BY <1>2, <2>4
<1>4. /\ toHost \in Seq(HostFrames) /\ toGuest \in Seq(GuestFrames)
      /\ \A id \in RequestId : session[id].st # "free" => session[id].by \in Calls
      /\ fileWriter # None =>
           fileWriter \in [t : {"write"}, id : RequestId, by : FileCalls]
      /\ \A c \in Calls : c \notin FileCalls
      /\ 0 \notin RequestId
  BY SchedulerAssumption DEF TInv, WireTypes, RequestId
<1>5. toGuest # <<>> => /\ m \in ToSet(toGuest) /\ m \in InTransit /\ m \in GuestFrames
                        /\ ToSet(Tail(toGuest)) \subseteq ToSet(toGuest)
  BY <1>4, WireSets, WireSteps DEF InTransit
<1>6. \A x \in HostFrames : ToSet(Append(toHost, x)) = ToSet(toHost) \cup {x}
  BY <1>4, WireSets
<1>7. fileWriter # None => fileWriter \in InTransit
  BY DEF InTransit
<1>8. CASE GuestExec
  <2>1. toGuest # <<>> /\ m.by \in Calls /\ m.id \in RequestId /\ toGuest' = Tail(toGuest)
    BY <1>5, <1>8 DEF GuestExec, GuestReads, GuestFrames, Consumed
  <2> DEFINE new == {Frame("error", m.id, m.by)}
  <2>2. Frame("error", m.id, m.by) \in HostFrames
    BY <2>1 DEF Frame, HostFrames
  <2>3. InTransit' \subseteq InTransit \cup new
    <3>1. /\ fileWriter' = fileWriter
          /\ toHost' = toHost \/ toHost' = Append(toHost, Frame("error", m.id, m.by))
      BY <1>8 DEF GuestExec, Reply
    <3>2. ToSet(toGuest') \subseteq ToSet(toGuest)
      BY <1>5, <2>1
    <3>3. ToSet(toHost') \subseteq ToSet(toHost) \cup new
      BY <1>6, <2>2, <3>1
    <3>4. QED BY <3>1, <3>2, <3>3 DEF InTransit
  <2>4. \A x \in new : x.id = m.id /\ x.by = m.by
    BY DEF Frame
  <2>5. \A id \in RequestId : session'[id].st = "running" =>
          \/ session[id].st = "running" /\ session'[id].by = session[id].by
          \/ id = m.id /\ session'[id].by = m.by
    BY <1>8, <2>1 DEF GuestExec, TInv, TypeOK
  <2> HIDE DEF new, m
  <2>6. QED BY <1>3, <1>4, <1>5, <2>1, <2>3, <2>4, <2>5
<1>9. CASE GuestInput
  <2>1. toGuest # <<>> /\ m.by \in Calls /\ m.id \in RequestId /\ toGuest' = Tail(toGuest)
    BY <1>5, <1>9 DEF GuestInput, GuestReads, GuestFrames, Consumed
  <2> DEFINE new == {Frame("error", m.id, m.by)}
  <2>2. Frame("error", m.id, m.by) \in HostFrames
    BY <2>1 DEF Frame, HostFrames
  <2>3. InTransit' \subseteq InTransit \cup new /\ session' = session
    <3>1. /\ fileWriter' = fileWriter /\ session' = session
          /\ toHost' = toHost \/ toHost' = Append(toHost, Frame("error", m.id, m.by))
      BY <1>9 DEF GuestInput, Reply, guestVars
    <3>2. ToSet(toGuest') \subseteq ToSet(toGuest)
      BY <1>5, <2>1
    <3>3. ToSet(toHost') \subseteq ToSet(toHost) \cup new
      BY <1>6, <2>2, <3>1
    <3>4. QED BY <3>1, <3>2, <3>3 DEF InTransit
  <2>4. \A x \in new : x.id = m.id /\ x.by = m.by
    BY DEF Frame
  <2> HIDE DEF new, m
  <2>5. QED BY <1>3, <1>4, <1>5, <2>1, <2>3, <2>4
<1>10. CASE GuestFileRead
  <2>1. toGuest # <<>> /\ m.by \in FileCalls /\ m.id \in RequestId /\ toGuest' = Tail(toGuest)
    BY <1>5, <1>10 DEF GuestFileRead, GuestReads, GuestFrames, Consumed
  <2> DEFINE new == {Frame("file_done", m.id, m.by), Frame("error", m.id, m.by)}
  <2>2. new \subseteq HostFrames
    BY <2>1, SchedulerAssumption DEF Frame, HostFrames, RequestId
  <2>3. InTransit' \subseteq InTransit \cup new /\ session' = session
    BY <1>5, <1>6, <1>10, <2>1, <2>2 DEF GuestFileRead, Reply, InTransit, guestVars
  <2>4. \A x \in new : x.id = m.id /\ x.by = m.by
    BY DEF Frame
  <2> HIDE DEF new, m
  <2>5. QED BY <1>3, <1>4, <1>5, <2>1, <2>3, <2>4
<1>11. CASE GuestFileWrite
  <2>1. toGuest # <<>> /\ m.by \in FileCalls /\ m.id \in RequestId /\ toGuest' = Tail(toGuest)
    BY <1>5, <1>11 DEF GuestFileWrite, GuestReads, GuestFrames, Consumed
  <2> DEFINE new == {Frame("error", m.id, m.by)}
  <2>2. new \subseteq HostFrames
    BY <2>1, SchedulerAssumption DEF Frame, HostFrames, RequestId
  <2>3. InTransit' \subseteq InTransit \cup new /\ session' = session
    <3>1. /\ session' = session
          /\ \/ fileWriter' = m /\ toHost' = toHost
             \/ toHost' = Append(toHost, Frame("error", m.id, m.by)) /\ fileWriter' = fileWriter
      BY <1>11 DEF GuestFileWrite, Reply
    <3>2. ToSet(toGuest') \subseteq ToSet(toGuest)
      BY <1>5, <2>1
    <3>3. ToSet(toHost') \subseteq ToSet(toHost) \cup new
      BY <1>6, <2>2, <3>1
    <3>4. QED BY <1>5, <2>1, <3>1, <3>2, <3>3 DEF InTransit
  <2>4. \A x \in new : x.id = m.id /\ x.by = m.by
    BY DEF Frame
  <2> HIDE DEF new, m
  <2>5. QED BY <1>3, <1>4, <1>5, <2>1, <2>3, <2>4
<1>12. CASE GuestWriteLoop
  <2>1. /\ toGuest # <<>> /\ fileWriter # None /\ fileWriter.by \in FileCalls
        /\ fileWriter.id \in RequestId /\ toGuest' = Tail(toGuest)
    BY <1>4, <1>12 DEF GuestWriteLoop, GuestReads, Consumed
  <2> DEFINE new == {Frame("file_done", fileWriter.id, fileWriter.by),
                     Frame("error", fileWriter.id, fileWriter.by)}
  <2>2. new \subseteq HostFrames
    BY <2>1, SchedulerAssumption DEF Frame, HostFrames, RequestId
  <2>3. InTransit' \subseteq InTransit \cup new /\ session' = session
    <3>1. /\ session' = session /\ fileWriter' = None
          /\ \E x \in new : toHost' = Append(toHost, x)
      BY <1>12 DEF GuestWriteLoop, Reply
    <3> HIDE DEF new
    <3>2. ToSet(toHost') \subseteq ToSet(toHost) \cup new
      BY <1>6, <2>2, <3>1
    <3>3. QED BY <1>5, <2>1, <3>1, <3>2 DEF InTransit
  <2>4. \A x \in new : x.id = fileWriter.id /\ x.by = fileWriter.by
    BY DEF Frame
  <2> HIDE DEF new, m
  <2>5. QED BY <1>3, <1>4, <1>7, <2>1, <2>3, <2>4
<1>13. CASE GuestStrayData
  <2>1. toGuest # <<>> /\ m.by \in FileCalls /\ toGuest' = Tail(toGuest)
    BY <1>5, <1>13 DEF GuestStrayData, GuestReads, GuestFrames, Consumed
  <2> DEFINE new == {Frame("error", 0, m.by)}
  <2>2. new \subseteq HostFrames
    BY <2>1, SchedulerAssumption DEF Frame, HostFrames, RequestId
  <2>3. InTransit' \subseteq InTransit \cup new /\ session' = session
    BY <1>5, <1>6, <1>13, <2>1, <2>2 DEF GuestStrayData, Reply, InTransit, guestVars
  <2>4. \A x \in new : x.id = 0 /\ x.by = m.by
    BY DEF Frame
  <2> HIDE DEF new, m
  <2>5. QED BY <1>3, <1>4, <2>1, <2>3, <2>4
<1>14. ASSUME NEW id \in RequestId, ExecWorkerEnds(id) PROVE ExecInv'
  <2>1. session[id].st = "running" /\ session[id].by \in Calls
    BY <1>4, <1>14 DEF ExecWorkerEnds
  <2> DEFINE new == {Frame("exec_response", id, session[id].by),
                     Frame("error", id, session[id].by)}
  <2>2. new \subseteq HostFrames
    BY <2>1 DEF Frame, HostFrames
  <2>3. InTransit' \subseteq InTransit \cup new
    BY <1>6, <1>14, <2>2 DEF ExecWorkerEnds, Reply, InTransit
  <2>4. \A x \in new : x.id = id /\ x.by = session[id].by
    BY DEF Frame
  <2>5. \A i \in RequestId : session'[i].st = "running" =>
          session[i].st = "running" /\ session'[i].by = session[i].by
    BY <1>14 DEF ExecWorkerEnds, TInv, TypeOK
  <2> HIDE DEF new
  <2>6. \A x \in new : \E i \in RequestId : /\ session[i].st = "running"
                                            /\ x.id = i /\ x.by = session[i].by
    BY <2>1, <2>4
  <2>7. \A x \in new : x.id # 0
    BY <1>4, <2>4
  <2>8. QED BY <1>3, <2>3, <2>5, <2>6, <2>7
<1>15. ASSUME NEW id \in RequestId, ExecSessionDone(id) PROVE ExecInv'
  <2>1. InTransit' = InTransit
    BY <1>15 DEF ExecSessionDone, InTransit
  <2>2. \A i \in RequestId : session'[i].st = "running" => session'[i] = session[i]
    BY <1>15 DEF ExecSessionDone, TInv, TypeOK
  <2>3. Traces'
    BY <1>1, <2>1, <2>2, TracesKept DEF hostVars, fileVars
  <2>4. QED BY <1>2, <2>3
<1>16. QED BY <1>8, <1>9, <1>10, <1>11, <1>12, <1>13, <1>14, <1>15
           DEF GuestLoop, GuestWorker

LEMMA OwnStep ==
  ASSUME SafeInv, ExecInv, Fresh, IdsApart, [Next]_vars
  PROVE  ExecInv'
<1>1. CASE UNCHANGED vars
  <2>1. Holders'
    BY <1>1, HoldersSame DEF ExecInv, vars
  <2>2. Traces'
    BY <1>1, TracesKept
       DEF ExecInv, SafeInv, vars, InTransit, hostVars, fileVars, guestVars
  <2>3. QED BY <2>1, <2>2 DEF ExecInv
<1>2. CASE Next
  BY <1>2, OwnHandleExec, OwnResumeFailed, OwnResumed, OwnStdinOverflow, OwnSendInput,
     OwnRefuseInput, OwnDisconnect, OwnFileTasks, OwnRecv, OwnVm, OwnGuest DEF Next, HostExec
<1>3. QED BY <1>1, <1>2

LEMMA InitOwn == Init => ExecInv
<1> SUFFICES ASSUME Init PROVE ExecInv
  OBVIOUS
<1>1. Holders
  BY DEF Init, Holders, Owned, Owed, Admitted, NewUnanswered, ReplyMap, AnswersAreOwn,
         QueueEntriesOwnTheirId
<1>2. InTransit = {}
  BY DEF Init, InTransit, ToSet
<1>3. Traces
  BY <1>2 DEF Init, Traces
<1>4. QED BY <1>1, <1>3 DEF ExecInv

LEMMA FreshIfUnique ==
  ASSUME SafeInv, ExecInv, UniqueIds
  PROVE  Fresh
<1>1. \A m \in InTransit : m.by \in Calls => IdOf[m.by] = m.id /\ call[m.by].pc = "sent"
  BY DEF ExecInv, Traces, Accounted, Trace
<1>2. \A id \in RequestId : session[id].st = "running" =>
        /\ session[id].by \in Calls /\ IdOf[session[id].by] = id
        /\ call[session[id].by].pc = "sent"
  BY DEF ExecInv, Traces, Trace, SafeInv, TInv, WireTypes
<1>3. \A c \in Calls : IdOf[c] \in RequestId
  BY TypeFacts DEF SafeInv
<1>4. QED BY <1>1, <1>2, <1>3 DEF Fresh, UniqueIds

-----------------------------------------------------------------------------
(* While one VM runs and no input is sent, a started exec is in one place:  *)
(* its request, its payload or its answer.                                  *)

Absent(w, id) == \A i \in DOMAIN w : w[i].by \in Calls => w[i].id # id

Single(w, id) ==
  \A i, j \in {k \in DOMAIN w : w[k].by \in Calls /\ w[k].id = id} : i = j

Tokens ==
  \A id \in RequestId :
    /\ Single(toGuest, id) /\ Single(toHost, id)
    /\ ~Absent(toGuest, id) => Absent(toHost, id)
    /\ ~Absent(toGuest, id) \/ ~Absent(toHost, id) => session[id].st # "running"
    /\ id \notin startedExecs => /\ Absent(toGuest, id) /\ Absent(toHost, id)
                                 /\ session[id].st # "running"

\* Tokens on a wire that gains or loses a frame.
LEMMA TokenFacts ==
  ASSUME NEW S, NEW w \in Seq(S), NEW id
  PROVE  /\ Absent(w, id) => Single(w, id)
         /\ \A m \in S :
              /\ m.by \in Calls /\ m.id = id /\ Absent(w, id) => Single(Append(w, m), id)
              /\ ~(m.by \in Calls /\ m.id = id) =>
                   /\ Absent(Append(w, m), id) <=> Absent(w, id)
                   /\ Single(w, id) => Single(Append(w, m), id)
         /\ w # <<>> =>
              /\ Absent(w, id) => Absent(Tail(w), id)
              /\ Single(w, id) => Single(Tail(w), id)
              /\ Head(w).by \in Calls /\ Head(w).id = id =>
                   ~Absent(w, id) /\ (Single(w, id) => Absent(Tail(w), id))
<1>1. DOMAIN w = 1 .. Len(w) /\ Len(w) \in Nat
  OBVIOUS
<1>2. Absent(w, id) => Single(w, id)
  BY DEF Absent, Single
<1>3. ASSUME NEW m \in S
      PROVE  /\ m.by \in Calls /\ m.id = id /\ Absent(w, id) => Single(Append(w, m), id)
             /\ ~(m.by \in Calls /\ m.id = id) =>
                  /\ Absent(Append(w, m), id) <=> Absent(w, id)
                  /\ Single(w, id) => Single(Append(w, m), id)
  <2>1. /\ DOMAIN Append(w, m) = 1 .. Len(w) + 1
        /\ \A i \in 1 .. Len(w) : Append(w, m)[i] = w[i]
        /\ Append(w, m)[Len(w) + 1] = m
    OBVIOUS
  <2>2. /\ \A i \in 1 .. Len(w) + 1 : i \in 1 .. Len(w) \/ i = Len(w) + 1
        /\ 1 .. Len(w) \subseteq 1 .. Len(w) + 1
    BY <1>1
  <2> DEFINE a == Append(w, m)
  <2> HIDE DEF a
  <2>3. /\ DOMAIN a = 1 .. Len(w) + 1 /\ \A i \in 1 .. Len(w) : a[i] = w[i]
        /\ a[Len(w) + 1] = m
    BY <2>1 DEF a
  <2>4. m.by \in Calls /\ m.id = id /\ Absent(w, id) => Single(a, id)
    BY <1>1, <2>2, <2>3 DEF Absent, Single
  <2>5. ~(m.by \in Calls /\ m.id = id) => (Absent(a, id) <=> Absent(w, id))
    BY <1>1, <2>2, <2>3 DEF Absent
  <2>6. ~(m.by \in Calls /\ m.id = id) /\ Single(w, id) => Single(a, id)
    BY <1>1, <2>2, <2>3 DEF Single
  <2>7. QED BY <2>4, <2>5, <2>6 DEF a
<1>4. ASSUME w # <<>>
      PROVE  /\ Absent(w, id) => Absent(Tail(w), id)
             /\ Single(w, id) => Single(Tail(w), id)
             /\ Head(w).by \in Calls /\ Head(w).id = id =>
                  ~Absent(w, id) /\ (Single(w, id) => Absent(Tail(w), id))
  <2> DEFINE t == Tail(w)
  <2>1. /\ DOMAIN t = 1 .. Len(w) - 1 /\ Head(w) = w[1] /\ 1 \in DOMAIN w
        /\ \A i \in 1 .. Len(w) - 1 : t[i] = w[i + 1]
    BY <1>1, <1>4
  <2>2. \A i \in 1 .. Len(w) - 1 : i + 1 \in DOMAIN w /\ i + 1 # 1
    BY <1>1
  <2> HIDE DEF t
  <2>3. Absent(w, id) => Absent(t, id)
    BY <2>1, <2>2 DEF Absent
  <2>4. Single(w, id) => Single(t, id)
    <3>1. ASSUME Single(w, id), NEW i \in DOMAIN t, NEW j \in DOMAIN t,
                 t[i].by \in Calls, t[i].id = id, t[j].by \in Calls, t[j].id = id
          PROVE  i = j
      <4>1. /\ w[i + 1].by \in Calls /\ w[i + 1].id = id /\ i + 1 \in DOMAIN w
            /\ w[j + 1].by \in Calls /\ w[j + 1].id = id /\ j + 1 \in DOMAIN w
        BY <2>1, <2>2, <3>1
      <4>2. i + 1 = j + 1
        BY <3>1, <4>1 DEF Single
      <4>3. i \in Int /\ j \in Int
        BY <1>1, <2>1
      <4>4. QED BY <4>2, <4>3
    <3>2. QED BY <3>1 DEF Single
  <2>5. Head(w).by \in Calls /\ Head(w).id = id => ~Absent(w, id)
    BY <2>1 DEF Absent
  <2>6. Head(w).by \in Calls /\ Head(w).id = id /\ Single(w, id) => Absent(t, id)
    <3>1. ASSUME Head(w).by \in Calls, Head(w).id = id, Single(w, id), NEW i \in DOMAIN t,
                 t[i].by \in Calls, t[i].id = id
          PROVE  FALSE
      <4>1. w[i + 1].by \in Calls /\ w[i + 1].id = id /\ i + 1 \in DOMAIN w /\ i + 1 # 1
        BY <2>1, <2>2, <3>1
      <4>2. QED BY <2>1, <3>1, <4>1 DEF Single
    <3>2. QED BY <3>1 DEF Absent
  <2>7. QED BY <2>3, <2>4, <2>5, <2>6 DEF t
<1>5. QED BY <1>2, <1>3, <1>4

LEMMA TokensKept ==
  ASSUME Tokens, UNCHANGED <<toGuest, toHost>>, startedExecs \subseteq startedExecs',
         \A id \in RequestId : session'[id].st = "running" => session[id].st = "running"
  PROVE  Tokens'
BY DEF Tokens

LEMMA TokensSettle ==
  ASSUME SafeInv, ExecInv, Tokens, NEW f \in FileCalls, NEW pc, NEW outcome,
         NEW wire \in Seq(GuestFrames), SettleFileOp(f, pc, outcome, wire),
         session' = session, owner' = owner,
         \A id \in RequestId :
           /\ Single(wire, id) /\ Single(toHost', id)
           /\ Absent(toGuest, id) => Absent(wire, id)
           /\ Absent(toHost, id) => Absent(toHost', id)
  PROVE  Tokens'
<1>1. CASE toGuest' = wire /\ UNCHANGED <<activeFileOpId, hostVars, reply>>
  BY <1>1 DEF Tokens, hostVars
<1>2. CASE PumpExecQueue(wire)
  <2> DEFINE New(id) == \E i \in DOMAIN toGuest' \ DOMAIN wire : toGuest'[i].id = id
  <2>1. /\ \A id \in RequestId : PumpedSame(id) \/ PumpedStarted(id) \/ PumpedRefused(id)
        /\ \A i \in DOMAIN toGuest' :
              \/ i \in DOMAIN wire /\ toGuest'[i] = wire[i]
              \/ i \notin DOMAIN wire
                   /\ \E id \in RequestId :
                        PumpedStarted(id) /\ toGuest'[i] = Frame("exec", id, owner[id])
        /\ \A i, j \in DOMAIN toGuest' \ DOMAIN wire :
              toGuest'[i].id = toGuest'[j].id => i = j
    BY <1>2, PumpEffects DEF SafeInv, ExecInv, Holders
  <2>2. \A id \in RequestId : PumpedStarted(id) \/ PumpedRefused(id) => id \notin startedExecs
    BY SchedulerAssumption
       DEF PumpedStarted, PumpedRefused, ExecInv, Holders, Owned
  <2>3. \A id : New(id) => id \in RequestId /\ PumpedStarted(id)
    BY <2>1 DEF Frame
  <2>4. \A id \in RequestId : id \notin startedExecs' => id \notin startedExecs /\ ~New(id)
    BY <2>1, <2>2, <2>3 DEF PumpedSame, PumpedStarted
  <2>5. ASSUME NEW id \in RequestId, ~New(id)
        PROVE  /\ Absent(wire, id) => Absent(toGuest', id)
               /\ Single(wire, id) => Single(toGuest', id)
    <3>1. \A i \in DOMAIN toGuest' :
            toGuest'[i].id = id => i \in DOMAIN wire /\ toGuest'[i] = wire[i]
      BY <2>1, <2>5
    <3>2. QED BY <3>1 DEF Absent, Single
  <2>6. ASSUME NEW id \in RequestId, New(id), Absent(wire, id)
        PROVE  Single(toGuest', id)
    <3>1. \A i \in DOMAIN toGuest' :
            toGuest'[i].by \in Calls /\ toGuest'[i].id = id => i \notin DOMAIN wire
      BY <2>1, <2>6 DEF Absent
    <3>2. QED BY <2>1, <3>1 DEF Single
  <2> HIDE DEF New
  <2>7. ASSUME NEW id \in RequestId
        PROVE  /\ Single(toGuest', id) /\ Single(toHost', id)
               /\ ~Absent(toGuest', id) => Absent(toHost', id)
               /\ ~Absent(toGuest', id) \/ ~Absent(toHost', id) => session'[id].st # "running"
               /\ id \notin startedExecs' => /\ Absent(toGuest', id) /\ Absent(toHost', id)
                                             /\ session'[id].st # "running"
    <3>1. CASE New(id)
      <4>1. id \notin startedExecs /\ id \in startedExecs'
        BY <2>2, <2>3, <2>4, <3>1
      <4>2. Absent(toGuest, id) /\ Absent(toHost, id) /\ session[id].st # "running"
        BY <4>1 DEF Tokens
      <4>3. QED BY <2>6, <3>1, <4>1, <4>2
    <3>2. CASE ~New(id)
      <4>1. /\ Single(toGuest', id) /\ Single(toHost', id)
            /\ Absent(toGuest, id) => Absent(toGuest', id)
            /\ Absent(toHost, id) => Absent(toHost', id)
        BY <2>5, <3>2
      <4>2. QED BY <2>4, <4>1 DEF Tokens
    <3>3. QED BY <3>1, <3>2
  <2>8. QED BY <2>7 DEF Tokens
<1>3. QED BY <1>1, <1>2 DEF SettleFileOp

\* Frames of file calls are no tokens.
LEMMA TokensFileFrame ==
  ASSUME TInv, Tokens
  PROVE  /\ \A m \in GuestFrames : m.by \in FileCalls =>
              \A id \in RequestId : /\ Single(Append(toGuest, m), id)
                                    /\ Absent(Append(toGuest, m), id) <=> Absent(toGuest, id)
         /\ \A m \in HostFrames : m.by \in FileCalls =>
              \A id \in RequestId : /\ Single(Append(toHost, m), id)
                                    /\ Absent(Append(toHost, m), id) <=> Absent(toHost, id)
         /\ \A id \in RequestId :
              /\ toGuest # <<>> => /\ Single(Tail(toGuest), id)
                                   /\ Absent(toGuest, id) => Absent(Tail(toGuest), id)
              /\ toHost # <<>> => /\ Single(Tail(toHost), id)
                                  /\ Absent(toHost, id) => Absent(Tail(toHost), id)
<1>1. toGuest \in Seq(GuestFrames) /\ toHost \in Seq(HostFrames)
  BY DEF TInv, WireTypes
<1>2. \A f \in FileCalls : f \notin Calls
  BY SchedulerAssumption
<1>3. \A id \in RequestId : Single(toGuest, id) /\ Single(toHost, id)
  BY DEF Tokens
<1>4. QED BY <1>1, <1>2, <1>3, TokenFacts

LEMMA TokensHost ==
  ASSUME SafeInv, ExecInv, Tokens, OneLifetime,
         \/ \E c \in Calls : HostExec(c)
         \/ \E k \in Clients : DisconnectClient(k)
         \/ \E f \in FileCalls : HostFile(f)
  PROVE  Tokens'
<1> USE DEF SafeInv, ExecInv
<1>1. toGuest \in Seq(GuestFrames) /\ toHost \in Seq(HostFrames)
  BY DEF TInv, WireTypes
<1>2. ASSUME NEW c \in Calls, NEW k \in Clients, HandleExec(c, k) PROVE Tokens'
  BY <1>2, TokensKept DEF HandleExec, guestVars
<1>3. ASSUME NEW c \in Calls, ResumeFailed(c) PROVE Tokens'
  BY <1>3, TokensKept DEF ResumeFailed, guestVars
<1>4. ASSUME NEW c \in Calls, StdinOverflow(c) PROVE Tokens'
  BY <1>4, TokensKept DEF StdinOverflow, guestVars
<1>5. ASSUME NEW c \in Calls, SendInput(c) PROVE Tokens'
  BY <1>5 DEF SendInput, OneLifetime
<1>refused. ASSUME NEW c \in Calls, RefuseInput(c) PROVE Tokens'
  BY <1>refused, TokensKept DEF RefuseInput, guestVars
<1>6. ASSUME NEW k \in Clients, DisconnectClient(k) PROVE Tokens'
  BY <1>6, TokensKept DEF DisconnectClient, guestVars
<1>7. ASSUME NEW c \in Calls, Resumed(c) PROVE Tokens'
  <2> DEFINE id == IdOf[c]
             m == Frame("exec", id, c)
  <2>1. /\ id \in RequestId /\ toHost' = toHost /\ session' = session
        /\ m \in GuestFrames /\ m.id = id /\ m.by = c
    BY <1>7, TypeFacts DEF Resumed, guestVars, Frame, GuestFrames
  <2>2. OwnsAdmission(c) /\ inflight[id] = call[c].client => id \notin startedExecs
    <3>1. ASSUME OwnsAdmission(c) PROVE id \notin startedExecs
      <4>1. owner[id] = c /\ call[c].pc = "resuming" /\ c # None
        BY <1>7, <3>1, NotMine, SchedulerAssumption DEF Resumed
      <4>2. QED BY <2>1, <4>1 DEF Holders, Owned
    <3>2. QED BY <3>1
  <2>3. CASE toGuest' = toGuest /\ startedExecs' = startedExecs
    BY <2>1, <2>3, TokensKept
  <2>4. CASE toGuest' = toGuest /\ id \notin startedExecs /\ startedExecs' = startedExecs \ {id}
    BY <2>1, <2>4, TokensKept
  <2>5. CASE /\ toGuest' = Append(toGuest, m) /\ id \notin startedExecs
             /\ startedExecs' = startedExecs \cup {id}
    <3>1. Absent(toGuest, id) /\ Absent(toHost, id) /\ session[id].st # "running"
      BY <2>1, <2>5 DEF Tokens
    <3>2. Single(toGuest', id)
      BY <1>1, <2>1, <2>5, <3>1, TokenFacts
    <3>3. \A i \in RequestId : i # id =>
            (Absent(toGuest', i) <=> Absent(toGuest, i)) /\ Single(toGuest', i)
      BY <1>1, <2>1, <2>5, TokenFacts DEF Tokens
    <3> HIDE DEF m
    <3>4. QED BY <2>1, <2>5, <3>1, <3>2, <3>3 DEF Tokens
  <2>6. QED BY <1>7, <2>2, <2>3, <2>4, <2>5 DEF Resumed
<1>8. ASSUME NEW f \in FileCalls, HostFile(f) PROVE Tokens'
  <2>1. Registered(f) => /\ Frame(fcall[f].kind, fcall[f].id, f) \in GuestFrames
                         /\ Frame("data", fcall[f].id, f) \in GuestFrames
    BY DEF TInv, WireTypes, Frame, GuestFrames
  <2>2. ASSUME NEW m \in GuestFrames, m.by \in FileCalls, toGuest' = Append(toGuest, m),
               UNCHANGED <<toHost, session, startedExecs>>
        PROVE  Tokens'
    <3>1. \A id \in RequestId : /\ Single(toGuest', id)
                                /\ Absent(toGuest', id) <=> Absent(toGuest, id)
      BY <2>2, TokensFileFrame
    <3>2. QED BY <2>2, <3>1 DEF Tokens
  <2>3. ASSUME NEW outcome, NEW wire \in Seq(GuestFrames),
               SettleFileOp(f, "await", outcome, wire),
               wire = toGuest \/ wire = Append(toGuest, Frame("data", fcall[f].id, f)),
               Registered(f), UNCHANGED <<toHost, guestVars, owner>>
        PROVE  Tokens'
    <3>1. \A id \in RequestId : Single(toGuest, id) /\ Single(toHost, id)
      BY DEF Tokens
    <3>2. \A id \in RequestId : Single(wire, id) /\ (Absent(toGuest, id) => Absent(wire, id))
      <4>1. CASE wire = toGuest
        BY <3>1, <4>1
      <4>2. CASE wire = Append(toGuest, Frame("data", fcall[f].id, f))
        <5>1. Frame("data", fcall[f].id, f).by \in FileCalls
          BY DEF Frame
        <5>2. QED BY <2>1, <2>3, <4>2, <5>1, TokensFileFrame
      <4>3. QED BY <2>3, <4>1, <4>2
    <3>3. QED BY <2>3, <3>1, <3>2, TokensSettle DEF guestVars
  <2>4. CASE FileIdleSeen(f)
    BY <2>4, TokensKept DEF FileIdleSeen, hostVars, guestVars
  <2>5. ASSUME NEW kind \in {"read", "write"}, RegisterFileOp(f, kind) PROVE Tokens'
    BY <2>5, TokensKept DEF RegisterFileOp, hostVars, guestVars
  <2>6. CASE SendFileRequest(f)
    <3>1. Registered(f) /\ Frame(fcall[f].kind, fcall[f].id, f).by = f
      BY <2>6 DEF SendFileRequest, Registered, Frame
    <3>2. QED BY <2>1, <2>2, <2>6, <3>1 DEF SendFileRequest, hostVars, guestVars
  <2>7. CASE SendFileEof(f)
    <3>1. Registered(f) /\ Frame("data", fcall[f].id, f).by = f
      BY <2>7 DEF SendFileEof, Registered, Frame
    <3>2. QED BY <2>1, <2>2, <2>7, <3>1 DEF SendFileEof, hostVars, guestVars
  <2>8. CASE FileSendFails(f)
    <3>1. Registered(f)
      BY <2>8 DEF FileSendFails, Registered
    <3>2. QED BY <1>1, <2>3, <2>8, <3>1 DEF FileSendFails
  <2>9. CASE FileDataFails(f)
    BY <2>9, TokensKept DEF FileDataFails, hostVars, guestVars
  <2>10. CASE SendClosingEof(f)
    <3>1. Registered(f)
      BY <2>10 DEF SendClosingEof, Registered
    <3>2. Append(toGuest, Frame("data", fcall[f].id, f)) \in Seq(GuestFrames)
      BY <2>1, <3>1, WireSteps
    <3>3. QED BY <2>3, <2>10, <3>1, <3>2 DEF SendClosingEof
  <2>11. QED BY <1>8, <2>4, <2>5, <2>6, <2>7, <2>8, <2>9, <2>10 DEF HostFile
<1>9. QED BY <1>2, <1>3, <1>4, <1>5, <1>refused, <1>6, <1>7, <1>8 DEF HostExec

LEMMA TokensRecv ==
  ASSUME SafeInv, ExecInv, Tokens, IdsApart, HostRecv
  PROVE  Tokens'
<1> USE DEF SafeInv, ExecInv
<1> DEFINE m == Head(toHost)
<1>1. /\ toHost # <<>> /\ toHost' = Tail(toHost) /\ m \in HostFrames
      /\ session' = session /\ owner' = owner
      /\ toGuest \in Seq(GuestFrames) /\ toHost \in Seq(HostFrames)
  BY WireSteps DEF HostRecv, RecvExecResponse, RecvFileDone, RecvError, Received,
     guestVars, TInv, WireTypes
<1>2. \A id \in RequestId :
        /\ Single(toGuest, id) /\ Single(toHost', id)
        /\ Absent(toHost, id) => Absent(toHost', id)
  BY <1>1, TokensFileFrame DEF Tokens
\* Nothing under the id of the frame is left when it has been received.
<1>3. ASSUME m.id \in RequestId
      PROVE  /\ Absent(toGuest, m.id) /\ Absent(toHost', m.id)
             /\ session[m.id].st # "running"
  <2>1. CASE m.by \in Calls
    <3>1. ~Absent(toHost, m.id) /\ Absent(toHost', m.id)
      BY <1>1, <1>3, <2>1, TokenFacts DEF Tokens
    <3>2. QED BY <1>3, <3>1 DEF Tokens
  <2>2. CASE m.by \in FileCalls
    <3>1. \A c \in Calls : IdOf[c] # m.id
      <4>1. m \in InTransit
        BY <1>1, WireSets DEF InTransit
      <4>2. m.id = fcall[m.by].id
        BY <1>3, <2>2, <4>1, TypeFacts DEF Traces, Accounted
      <4>3. QED BY <2>2, <4>2 DEF IdsApart
    <3>2. Absent(toGuest, m.id)
      BY <3>1 DEF Absent, Traces, Accounted, Trace, InTransit, ToSet
    <3>3. Absent(toHost, m.id)
      BY <3>1 DEF Absent, Traces, Accounted, Trace, InTransit, ToSet
    <3>4. session[m.id].st # "running"
      BY <1>3, <3>1 DEF Traces, Trace, TInv, WireTypes
    <3>5. QED BY <1>2, <1>3, <3>2, <3>3, <3>4
  <2>3. QED BY <1>1, <2>1, <2>2 DEF HostFrames
<1>4. ASSUME toGuest' = toGuest, startedExecs' = startedExecs \ {m.id} PROVE Tokens'
  <2> HIDE DEF m
  <2>1. \A id \in RequestId : id # m.id =>
          /\ id \in startedExecs' <=> id \in startedExecs
          /\ Absent(toHost, id) => Absent(toHost', id)
    BY <1>2, <1>4
  <2>2. QED BY <1>1, <1>2, <1>3, <1>4, <2>1 DEF Tokens
<1>5. ASSUME NEW f \in fileOps, NEW outcome, SettleFileOp(f, fcall[f].pc, outcome, toGuest)
      PROVE  Tokens'
  <2>1. f \in FileCalls
    BY DEF TInv, TypeOK
  <2>2. QED BY <1>1, <1>2, <1>5, <2>1, TokensSettle
<1>6. CASE RecvExecResponse
  BY <1>4, <1>6 DEF RecvExecResponse
<1>7. CASE RecvFileDone
  <2>1. CASE UNCHANGED <<hostVars, fileVars, toGuest, reply>>
    BY <1>1, <1>2, <2>1 DEF Tokens, hostVars
  <2>2. CASE \E f \in fileOps : SettleFileOp(f, fcall[f].pc, "done", toGuest)
    BY <1>5, <2>2
  <2>3. QED BY <1>7, <2>1, <2>2 DEF RecvFileDone
<1>8. CASE RecvError
  <2>1. CASE startedExecs' = startedExecs \ {m.id} /\ toGuest' = toGuest
    BY <1>4, <2>1
  <2>2. CASE \E f \in fileOps : SettleFileOp(f, fcall[f].pc, "failed", toGuest)
    BY <1>5, <2>2
  <2>3. QED BY <1>8, <2>1, <2>2 DEF RecvError
<1>9. QED BY <1>6, <1>7, <1>8 DEF HostRecv

LEMMA TokensGuest ==
  ASSUME SafeInv, ExecInv, Tokens, GuestLoop \/ \E id \in RequestId : GuestWorker(id)
  PROVE  Tokens'
<1> USE DEF SafeInv, ExecInv
<1> DEFINE m == Head(toGuest)
<1>1. startedExecs' = startedExecs
  BY DEF GuestLoop, GuestWorker, GuestExec, GuestInput, GuestFileRead, GuestFileWrite,
         GuestWriteLoop, GuestStrayData, ExecWorkerEnds, ExecSessionDone, Consumed,
         hostVars
<1>2. /\ toGuest \in Seq(GuestFrames) /\ toHost \in Seq(HostFrames)
      /\ fileWriter # None =>
           fileWriter \in [t : {"write"}, id : RequestId, by : FileCalls]
      /\ 0 \in 0 .. MaxRequestId /\ RequestId \subseteq 0 .. MaxRequestId
  BY SchedulerAssumption DEF TInv, WireTypes, RequestId
<1>3. toGuest # <<>> => m \in GuestFrames
  BY WireSteps
\* A frame is taken, and nothing or the answer of a file call is sent.
<1>4. ASSUME toGuest # <<>>, toGuest' = Tail(toGuest), session' = session,
             \/ toHost' = toHost
             \/ \E x \in HostFrames : x.by \in FileCalls /\ toHost' = Append(toHost, x)
      PROVE  Tokens'
  <2>1. \A id \in RequestId :
          /\ Single(toGuest', id) /\ (Absent(toGuest, id) => Absent(toGuest', id))
          /\ Single(toHost', id) /\ (Absent(toHost', id) <=> Absent(toHost, id))
    <3>1. \A id \in RequestId :
            Single(toGuest', id) /\ (Absent(toGuest, id) => Absent(toGuest', id))
      BY <1>4, TokensFileFrame
    <3>2. \A id \in RequestId :
            Single(toHost', id) /\ (Absent(toHost', id) <=> Absent(toHost, id))
      <4>1. CASE toHost' = toHost
        BY <4>1 DEF Tokens
      <4>2. CASE \E x \in HostFrames : x.by \in FileCalls /\ toHost' = Append(toHost, x)
        BY <4>2, TokensFileFrame
      <4>3. QED BY <1>4, <4>1, <4>2
    <3>3. QED BY <3>1, <3>2
  <2>2. QED BY <1>1, <1>4, <2>1 DEF Tokens
\* A frame of a call is taken, and answered under its id.
<1>5. ASSUME toGuest # <<>>, toGuest' = Tail(toGuest), session' = session,
             m.by \in Calls, m.id \in RequestId,
             toHost' = Append(toHost, Frame("error", m.id, m.by))
      PROVE  Tokens'
  <2> DEFINE x == Frame("error", m.id, m.by)
  <2>1. x \in HostFrames /\ x.id = m.id /\ x.by = m.by
    BY <1>5 DEF Frame, HostFrames
  <2>2. \A id \in RequestId :
          Single(toGuest', id) /\ (Absent(toGuest, id) => Absent(toGuest', id))
    BY <1>5, TokensFileFrame
  <2>3. ~Absent(toGuest, m.id) /\ Absent(toGuest', m.id)
    BY <1>2, <1>5, TokenFacts DEF Tokens
  <2>4. Absent(toHost, m.id) /\ session[m.id].st # "running" /\ m.id \in startedExecs
    BY <1>5, <2>3 DEF Tokens
  <2>5. Single(toHost', m.id)
    BY <1>2, <1>5, <2>1, <2>4, TokenFacts
  <2>6. \A id \in RequestId : id # m.id =>
          Single(toHost', id) /\ (Absent(toHost', id) <=> Absent(toHost, id))
    BY <1>2, <1>5, <2>1, TokenFacts DEF Tokens
  <2> HIDE DEF x, m
  <2>7. QED BY <1>1, <1>5, <2>2, <2>3, <2>4, <2>5, <2>6 DEF Tokens
<1>6. CASE GuestExec
  <2>1. toGuest # <<>> /\ m.by \in Calls /\ m.id \in RequestId /\ toGuest' = Tail(toGuest)
    BY <1>3, <1>6 DEF GuestExec, GuestReads, GuestFrames, Consumed
  <2>2. CASE /\ session' = [session EXCEPT ![m.id] = [st |-> "running", by |-> m.by]]
             /\ toHost' = toHost
    <3>1. \A id \in RequestId :
            Single(toGuest', id) /\ (Absent(toGuest, id) => Absent(toGuest', id))
      BY <2>1, TokensFileFrame
    <3>2. ~Absent(toGuest, m.id) /\ Absent(toGuest', m.id)
      BY <1>2, <2>1, TokenFacts DEF Tokens
    <3>3. Absent(toHost, m.id) /\ m.id \in startedExecs
      BY <2>1, <3>2 DEF Tokens
    <3>4. \A id \in RequestId : id # m.id => session'[id] = session[id]
      BY <2>2 DEF TInv, TypeOK
    <3> HIDE DEF m
    <3>5. QED BY <1>1, <2>1, <2>2, <3>1, <3>2, <3>3, <3>4 DEF Tokens
  <2>3. CASE Reply("error", m.id, m.by) /\ UNCHANGED session
    BY <1>5, <2>1, <2>3 DEF Reply
  <2>4. QED BY <1>6, <2>2, <2>3 DEF GuestExec
<1>7. CASE GuestInput
  <2>1. /\ toGuest # <<>> /\ m.by \in Calls /\ m.id \in RequestId /\ toGuest' = Tail(toGuest)
        /\ session' = session
    BY <1>3, <1>7 DEF GuestInput, GuestReads, GuestFrames, Consumed, guestVars
  <2>2. toHost' = toHost \/ Reply("error", m.id, m.by)
    BY <1>7 DEF GuestInput
  <2>3. QED BY <1>4, <1>5, <2>1, <2>2 DEF Reply
<1>8. ASSUME NEW t \in {"file_done", "error"}, NEW id \in 0 .. MaxRequestId,
             NEW f \in FileCalls
      PROVE  Frame(t, id, f) \in HostFrames /\ Frame(t, id, f).by \in FileCalls
  BY DEF Frame, HostFrames
<1>9. CASE GuestFileRead
  <2>1. /\ toGuest # <<>> /\ m.by \in FileCalls /\ m.id \in RequestId
        /\ toGuest' = Tail(toGuest) /\ session' = session
    BY <1>3, <1>9 DEF GuestFileRead, GuestReads, GuestFrames, Consumed, guestVars
  <2>2. \E x \in HostFrames : x.by \in FileCalls /\ toHost' = Append(toHost, x)
    BY <1>2, <1>8, <1>9, <2>1 DEF GuestFileRead, Reply
  <2>3. QED BY <1>4, <2>1, <2>2
<1>10. CASE GuestFileWrite
  <2>1. /\ toGuest # <<>> /\ m.by \in FileCalls /\ m.id \in RequestId
        /\ toGuest' = Tail(toGuest) /\ session' = session
    BY <1>3, <1>10 DEF GuestFileWrite, GuestReads, GuestFrames, Consumed
  <2>2. \/ toHost' = toHost
        \/ \E x \in HostFrames : x.by \in FileCalls /\ toHost' = Append(toHost, x)
    BY <1>2, <1>8, <1>10, <2>1 DEF GuestFileWrite, Reply
  <2>3. QED BY <1>4, <2>1, <2>2
<1>11. CASE GuestWriteLoop
  <2>1. /\ toGuest # <<>> /\ fileWriter.by \in FileCalls /\ fileWriter.id \in RequestId
        /\ toGuest' = Tail(toGuest) /\ session' = session
    BY <1>2, <1>11 DEF GuestWriteLoop, GuestReads, Consumed
  <2>2. \E x \in HostFrames : x.by \in FileCalls /\ toHost' = Append(toHost, x)
    BY <1>2, <1>8, <1>11, <2>1 DEF GuestWriteLoop, Reply
  <2>3. QED BY <1>4, <2>1, <2>2
<1>12. CASE GuestStrayData
  <2>1. /\ toGuest # <<>> /\ m.by \in FileCalls
        /\ toGuest' = Tail(toGuest) /\ session' = session
    BY <1>3, <1>12 DEF GuestStrayData, GuestReads, GuestFrames, Consumed, guestVars
  <2>2. \E x \in HostFrames : x.by \in FileCalls /\ toHost' = Append(toHost, x)
    BY <1>2, <1>8, <1>12, <2>1 DEF GuestStrayData, Reply
  <2>3. QED BY <1>4, <2>1, <2>2
<1>13. ASSUME NEW id \in RequestId, ExecWorkerEnds(id) PROVE Tokens'
  <2>1. session[id].st = "running" /\ session[id].by \in Calls /\ toGuest' = toGuest
    BY <1>13 DEF ExecWorkerEnds, TInv, WireTypes
  <2>2. PICK t \in {"exec_response", "error"} :
          toHost' = Append(toHost, Frame(t, id, session[id].by))
    BY <1>13 DEF ExecWorkerEnds, Reply
  <2> DEFINE x == Frame(t, id, session[id].by)
  <2>3. x \in HostFrames /\ x.id = id /\ x.by \in Calls
    BY <2>1 DEF Frame, HostFrames
  <2>4. Absent(toGuest, id) /\ Absent(toHost, id) /\ id \in startedExecs
    BY <2>1 DEF Tokens
  <2>5. Single(toHost', id)
    BY <1>2, <2>2, <2>3, <2>4, TokenFacts
  <2>6. \A i \in RequestId : i # id =>
          Single(toHost', i) /\ (Absent(toHost', i) <=> Absent(toHost, i))
    BY <1>2, <2>2, <2>3, TokenFacts DEF Tokens
  <2>7. /\ session'[id].st = "replied"
        /\ \A i \in RequestId : i # id => session'[i] = session[i]
    BY <1>13 DEF ExecWorkerEnds, TInv, TypeOK
  <2> HIDE DEF x
  <2>8. QED BY <1>1, <2>1, <2>4, <2>5, <2>6, <2>7 DEF Tokens
<1>14. ASSUME NEW id \in RequestId, ExecSessionDone(id) PROVE Tokens'
  <2>1. UNCHANGED <<toGuest, toHost>>
        /\ \A i \in RequestId : session'[i].st = "running" => session[i].st = "running"
    BY <1>14 DEF ExecSessionDone, TInv, TypeOK
  <2>2. QED BY <1>1, <2>1, TokensKept
<1>15. QED BY <1>6, <1>7, <1>9, <1>10, <1>11, <1>12, <1>13, <1>14
           DEF GuestLoop, GuestWorker

LEMMA TokensStep ==
  ASSUME SafeInv, ExecInv, Tokens, OneLifetime, IdsApart, [Next]_vars
  PROVE  Tokens'
<1>1. CASE UNCHANGED vars
  BY <1>1, TokensKept DEF vars, hostVars, guestVars
<1>2. CASE VmExit
  <2>1. exits \in Nat /\ exits < 0
    BY <1>2 DEF VmExit, OneLifetime, SafeInv, TInv, TypeOK
  <2>2. QED BY <2>1
<1>3. CASE VmStart
  BY <1>3, TokensKept DEF VmStart, hostVars, guestVars
<1>4. QED BY <1>1, <1>2, <1>3, TokensHost, TokensRecv, TokensGuest DEF Next

LEMMA FreshIfTokens ==
  ASSUME SafeInv, ExecInv, Tokens
  PROVE  Fresh
<1>1. ASSUME NEW c \in Calls, IdOf[c] \notin Tracked
      PROVE  /\ \A m \in InTransit : m.by \in Calls => m.id # IdOf[c]
             /\ session[IdOf[c]].st # "running"
  <2>1. IdOf[c] \in RequestId /\ IdOf[c] \notin startedExecs
    BY <1>1, TypeFacts DEF Tracked, SafeInv
  <2>2. /\ Absent(toGuest, IdOf[c]) /\ Absent(toHost, IdOf[c])
        /\ session[IdOf[c]].st # "running"
    BY <2>1 DEF Tokens
  <2>3. fileWriter # None => fileWriter.by \notin Calls
    BY SchedulerAssumption DEF SafeInv, TInv, WireTypes
  <2>4. QED BY <2>2, <2>3 DEF Absent, InTransit, ToSet
<1>2. QED BY <1>1 DEF Fresh

-----------------------------------------------------------------------------
(* Until the VM exits, an exec that waits in the port or runs is unanswered *)
(* and its id reserved, whatever input follows it.                          *)

ExecOf(m, id) == m.t = "exec" /\ m.id = id

Waits(w, id) == \E i \in DOMAIN w : ExecOf(w[i], id)

\* no frame of a call is before the request that starts the exec
Leads(w, id) ==
  \A i, j \in DOMAIN w : ExecOf(w[i], id) /\ w[j].by \in Calls /\ w[j].id = id => i <= j

Reserved ==
  exits = 0 =>
    \A id \in RequestId :
      /\ Leads(toGuest, id)
      /\ Waits(toGuest, id) => session[id].st # "running"
      /\ Waits(toGuest, id) \/ session[id].st = "running" =>
           Absent(toHost, id) /\ id \in startedExecs

\* Requests on a wire that gains or loses a frame.
LEMMA RequestFacts ==
  ASSUME NEW w \in Seq(GuestFrames), NEW id
  PROVE  /\ Absent(w, id) => ~Waits(w, id)
         /\ \A m \in GuestFrames :
              /\ ExecOf(m, id) /\ Absent(w, id) => Leads(Append(w, m), id)
              /\ ~ExecOf(m, id) => /\ Waits(Append(w, m), id) => Waits(w, id)
                                   /\ Leads(w, id) => Leads(Append(w, m), id)
         /\ w # <<>> =>
              /\ Waits(Tail(w), id) => Waits(w, id)
              /\ Leads(w, id) => Leads(Tail(w), id)
              /\ Leads(w, id) /\ Head(w).by \in Calls /\ Head(w).id = id =>
                   /\ ~Waits(Tail(w), id)
                   /\ Waits(w, id) => ExecOf(Head(w), id)
<1>1. /\ DOMAIN w = 1 .. Len(w) /\ Len(w) \in Nat
      /\ \A i \in DOMAIN w : w[i] \in GuestFrames
  OBVIOUS
<1>2. \A m \in GuestFrames : ExecOf(m, id) => m.by \in Calls /\ m.id = id
  BY SchedulerAssumption DEF GuestFrames, ExecOf
<1>3. Absent(w, id) => ~Waits(w, id)
  BY <1>1, <1>2 DEF Absent, Waits
<1>4. ASSUME NEW m \in GuestFrames
      PROVE  /\ ExecOf(m, id) /\ Absent(w, id) => Leads(Append(w, m), id)
             /\ ~ExecOf(m, id) => /\ Waits(Append(w, m), id) => Waits(w, id)
                                  /\ Leads(w, id) => Leads(Append(w, m), id)
  <2> DEFINE a == Append(w, m)
  <2>1. /\ DOMAIN a = 1 .. Len(w) + 1 /\ a[Len(w) + 1] = m
        /\ \A i \in 1 .. Len(w) : a[i] = w[i]
    OBVIOUS
  <2>2. \A i \in 1 .. Len(w) + 1 : i \in 1 .. Len(w) \/ i = Len(w) + 1
    BY <1>1
  <2> HIDE DEF a
  <2>3. ASSUME ExecOf(m, id), Absent(w, id) PROVE Leads(a, id)
    <3>1. ASSUME NEW i \in DOMAIN a, NEW j \in DOMAIN a, a[j].by \in Calls, a[j].id = id
          PROVE  i <= j
      <4>1. j = Len(w) + 1
        BY <1>1, <2>1, <2>2, <2>3, <3>1 DEF Absent
      <4>2. QED BY <1>1, <2>1, <4>1
    <3>2. QED BY <3>1 DEF Leads
  <2>4. ASSUME ~ExecOf(m, id), Waits(a, id) PROVE Waits(w, id)
    BY <1>1, <2>1, <2>2, <2>4 DEF Waits
  <2>5. ASSUME ~ExecOf(m, id), Leads(w, id) PROVE Leads(a, id)
    <3>1. ASSUME NEW i \in DOMAIN a, NEW j \in DOMAIN a, ExecOf(a[i], id),
                 a[j].by \in Calls, a[j].id = id
          PROVE  i <= j
      <4>1. i \in 1 .. Len(w) /\ ExecOf(w[i], id)
        BY <2>1, <2>2, <2>5, <3>1
      <4>2. CASE j \in 1 .. Len(w)
        BY <1>1, <2>1, <2>5, <3>1, <4>1, <4>2 DEF Leads
      <4>3. CASE j = Len(w) + 1
        BY <1>1, <4>1, <4>3
      <4>4. QED BY <2>1, <2>2, <4>2, <4>3
    <3>2. QED BY <3>1 DEF Leads
  <2>6. QED BY <2>3, <2>4, <2>5 DEF a
<1>5. ASSUME w # <<>>
      PROVE  /\ Waits(Tail(w), id) => Waits(w, id)
             /\ Leads(w, id) => Leads(Tail(w), id)
             /\ Leads(w, id) /\ Head(w).by \in Calls /\ Head(w).id = id =>
                  /\ ~Waits(Tail(w), id)
                  /\ Waits(w, id) => ExecOf(Head(w), id)
  <2> DEFINE t == Tail(w)
  <2>1. /\ DOMAIN t = 1 .. Len(w) - 1 /\ Head(w) = w[1] /\ 1 \in DOMAIN w
        /\ \A i \in 1 .. Len(w) - 1 : t[i] = w[i + 1]
    BY <1>1, <1>5
  <2>2. \A i \in 1 .. Len(w) - 1 : i + 1 \in DOMAIN w /\ i \in Nat /\ i >= 1
    BY <1>1
  <2> HIDE DEF t
  <2>3. Waits(t, id) => Waits(w, id)
    BY <2>1, <2>2 DEF Waits
  <2>4. ASSUME Leads(w, id) PROVE Leads(t, id)
    <3>1. ASSUME NEW i \in DOMAIN t, NEW j \in DOMAIN t, ExecOf(t[i], id),
                 t[j].by \in Calls, t[j].id = id
          PROVE  i <= j
      <4>1. i + 1 <= j + 1
        BY <2>1, <2>2, <2>4, <3>1 DEF Leads
      <4>2. QED BY <2>1, <2>2, <4>1
    <3>2. QED BY <3>1 DEF Leads
  <2>5. ASSUME Leads(w, id), Head(w).by \in Calls, Head(w).id = id
        PROVE  ~Waits(t, id) /\ (Waits(w, id) => ExecOf(Head(w), id))
    <3>1. \A i \in DOMAIN w : ExecOf(w[i], id) => i = 1
      <4>1. \A i \in DOMAIN w : ExecOf(w[i], id) => i <= 1
        BY <2>1, <2>5 DEF Leads
      <4>2. QED BY <1>1, <4>1
    <3>2. \A i \in DOMAIN t : ~ExecOf(t[i], id)
      <4>1. \A i \in DOMAIN t : i + 1 # 1 /\ i + 1 \in DOMAIN w /\ t[i] = w[i + 1]
        BY <2>1, <2>2
      <4>2. QED BY <3>1, <4>1
    <3>3. QED BY <2>1, <3>1, <3>2 DEF Waits
  <2>6. QED BY <2>3, <2>4, <2>5 DEF t
<1>6. QED BY <1>3, <1>4, <1>5

\* Nothing is on its way for an id whose last holder is not started.
LEMMA NothingSent ==
  ASSUME SafeInv, ExecInv, NEW id \in RequestId, owner[id] \in Calls,
         call[owner[id]].pc # "sent"
  PROVE  Absent(toGuest, id) /\ Absent(toHost, id) /\ session[id].st # "running"
<1>1. \A m \in InTransit : m.by \in Calls => owner[m.id] = m.by /\ call[m.by].pc = "sent"
  BY DEF ExecInv, Traces, Accounted, Trace
<1>2. \A i \in DOMAIN toGuest : toGuest[i] \in InTransit
  BY DEF InTransit, ToSet
<1>3. \A i \in DOMAIN toHost : toHost[i] \in InTransit
  BY DEF InTransit, ToSet
<1>4. session[id].st # "running"
  BY DEF ExecInv, Traces, Trace
<1>5. QED BY <1>1, <1>2, <1>3, <1>4 DEF Absent

\* A step that leaves the requests and adds no answer of an exec.
LEMMA ReservedKept ==
  ASSUME Reserved, exits' = exits,
         \A id \in RequestId :
           /\ Leads(toGuest, id) => Leads(toGuest', id)
           /\ Waits(toGuest', id) => Waits(toGuest, id)
           /\ Absent(toHost, id) => Absent(toHost', id)
           /\ session'[id].st = "running" => session[id].st = "running"
           /\ Waits(toGuest', id) \/ session'[id].st = "running" =>
                (id \in startedExecs => id \in startedExecs')
  PROVE  Reserved'
BY DEF Reserved

\* An exec is started by a request behind whatever is on the wire.
LEMMA ReservedStart ==
  ASSUME SafeInv, ExecInv, Reserved, exits' = exits, NEW new \in SUBSET RequestId,
         \A id \in new : /\ owner[id] \in Calls /\ call[owner[id]].pc # "sent"
                         /\ id \in startedExecs',
         \A id \in new : Absent(toGuest, id) => Leads(toGuest', id),
         \A id \in RequestId \ new :
           /\ Leads(toGuest, id) => Leads(toGuest', id)
           /\ Waits(toGuest', id) => Waits(toGuest, id)
           /\ Waits(toGuest', id) \/ session[id].st = "running" =>
                (id \in startedExecs => id \in startedExecs'),
         \A id \in RequestId : Absent(toHost, id) => Absent(toHost', id),
         session' = session
  PROVE  Reserved'
BY NothingSent DEF Reserved

\* A file operation settles, and the execs held behind it start.
LEMMA ReservedSettle ==
  ASSUME SafeInv, ExecInv, Reserved, exits' = exits, NEW f \in FileCalls, NEW pc, NEW outcome,
         NEW wire \in Seq(GuestFrames), SettleFileOp(f, pc, outcome, wire),
         session' = session, owner' = owner,
         \A id \in RequestId :
           /\ Leads(toGuest, id) => Leads(wire, id)
           /\ Waits(wire, id) => Waits(toGuest, id)
           /\ Absent(toGuest, id) => Absent(wire, id)
           /\ Absent(toHost, id) => Absent(toHost', id)
  PROVE  Reserved'
<1>1. CASE toGuest' = wire /\ UNCHANGED <<activeFileOpId, hostVars, reply>>
  BY <1>1, ReservedKept DEF hostVars
<1>2. CASE PumpExecQueue(wire)
  <2> DEFINE new == {id \in RequestId : PumpedStarted(id)}
  <2>1. /\ \A id \in RequestId : PumpedSame(id) \/ PumpedStarted(id) \/ PumpedRefused(id)
        /\ \A i \in DOMAIN toGuest' :
              \/ i \in DOMAIN wire /\ toGuest'[i] = wire[i]
              \/ i \notin DOMAIN wire
                   /\ \E id \in RequestId :
                        PumpedStarted(id) /\ toGuest'[i] = Frame("exec", id, owner[id])
        /\ \A i, j \in DOMAIN toGuest' \ DOMAIN wire :
              toGuest'[i].id = toGuest'[j].id => i = j
    BY <1>2, PumpEffects DEF SafeInv, ExecInv, Holders
  <2>2. \A id \in new : /\ owner[id] \in Calls /\ call[owner[id]].pc # "sent"
                        /\ id \in startedExecs'
    BY DEF PumpedStarted
  <2>3. \A id \in RequestId : PumpedRefused(id) => id \notin startedExecs
    BY SchedulerAssumption DEF PumpedRefused, ExecInv, Holders, Owned
  <2>4. \A id \in RequestId \ new : id \in startedExecs => id \in startedExecs'
    BY <2>1, <2>3 DEF PumpedSame
  <2>5. \A i \in DOMAIN toGuest' :
          /\ toGuest'[i].id \notin new => i \in DOMAIN wire /\ toGuest'[i] = wire[i]
          /\ i \notin DOMAIN wire => toGuest'[i].id \in new
    BY <2>1 DEF Frame
  <2>6. \A i \in DOMAIN toGuest' : i \in DOMAIN wire => toGuest'[i] = wire[i]
    BY <2>1
  <2> HIDE DEF new
  <2>7. ASSUME NEW id \in new, Absent(toGuest, id) PROVE Leads(toGuest', id)
    <3>1. \A i \in DOMAIN toGuest' :
            toGuest'[i].by \in Calls /\ toGuest'[i].id = id => i \notin DOMAIN wire
      <4>1. Absent(wire, id)
        BY <2>7 DEF new
      <4>2. QED BY <2>6, <4>1 DEF Absent
    <3>2. \A i \in DOMAIN toGuest' : ExecOf(toGuest'[i], id) =>
            toGuest'[i].by \in Calls /\ toGuest'[i].id = id
      <4>1. toGuest' \in Seq(GuestFrames)
        BY <1>2, PumpTypes DEF SafeInv
      <4>2. QED BY <4>1, SchedulerAssumption DEF ExecOf, GuestFrames
    <3>3. \A i, j \in DOMAIN toGuest' :
            ExecOf(toGuest'[i], id) /\ toGuest'[j].by \in Calls /\ toGuest'[j].id = id => i = j
      BY <2>1, <3>1, <3>2
    <3>4. DOMAIN toGuest' \subseteq Nat
      <4>1. toGuest' \in Seq(GuestFrames)
        BY <1>2, PumpTypes DEF SafeInv
      <4>2. DOMAIN toGuest' = 1 .. Len(toGuest') /\ Len(toGuest') \in Nat
        BY <4>1
      <4>3. QED BY <4>2
    <3>5. QED BY <3>3, <3>4 DEF Leads
  <2>8. ASSUME NEW id \in RequestId \ new
        PROVE  /\ Leads(toGuest, id) => Leads(toGuest', id)
               /\ Waits(toGuest', id) => Waits(toGuest, id)
    <3>1. \A i \in DOMAIN toGuest' :
            toGuest'[i].id = id => i \in DOMAIN wire /\ toGuest'[i] = wire[i]
      BY <2>5, <2>8
    <3>2. /\ Leads(wire, id) => Leads(toGuest', id)
          /\ Waits(toGuest', id) => Waits(wire, id)
      BY <3>1 DEF Leads, Waits, ExecOf
    <3>3. QED BY <3>2
  <2>9. new \in SUBSET RequestId
    BY DEF new
  <2>10. QED BY <2>2, <2>4, <2>7, <2>8, <2>9, ReservedStart
<1>3. QED BY <1>1, <1>2 DEF SettleFileOp

\* Frames of file calls and lost frames are of no exec.
LEMMA ReservedFileFrame ==
  ASSUME TInv, NEW id
  PROVE  /\ \A m \in GuestFrames : m.by \in FileCalls =>
              /\ Leads(toGuest, id) => Leads(Append(toGuest, m), id)
              /\ Waits(Append(toGuest, m), id) => Waits(toGuest, id)
              /\ Absent(toGuest, id) => Absent(Append(toGuest, m), id)
         /\ \A m \in HostFrames : m.by \in FileCalls =>
              (Absent(toHost, id) => Absent(Append(toHost, m), id))
         /\ toGuest # <<>> => /\ Leads(toGuest, id) => Leads(Tail(toGuest), id)
                              /\ Waits(Tail(toGuest), id) => Waits(toGuest, id)
         /\ toHost # <<>> => (Absent(toHost, id) => Absent(Tail(toHost), id))
<1>1. toGuest \in Seq(GuestFrames) /\ toHost \in Seq(HostFrames)
  BY DEF TInv, WireTypes
<1>2. \A m \in GuestFrames : m.by \in FileCalls => m.by \notin Calls /\ ~ExecOf(m, id)
  BY SchedulerAssumption DEF GuestFrames, ExecOf
<1>3. \A f \in FileCalls : f \notin Calls
  BY SchedulerAssumption
<1>4. QED BY <1>1, <1>2, <1>3, RequestFacts, TokenFacts

LEMMA ReservedHost ==
  ASSUME SafeInv, ExecInv, Reserved,
         \/ \E c \in Calls : HostExec(c)
         \/ \E k \in Clients : DisconnectClient(k)
         \/ \E f \in FileCalls : HostFile(f)
  PROVE  Reserved'
<1> USE DEF SafeInv, ExecInv
<1>1. toGuest \in Seq(GuestFrames) /\ toHost \in Seq(HostFrames)
  BY DEF TInv, WireTypes
<1>2. ASSUME NEW c \in Calls, NEW k \in Clients, HandleExec(c, k) PROVE Reserved'
  BY <1>2, ReservedKept DEF HandleExec, guestVars
<1>3. ASSUME NEW c \in Calls, ResumeFailed(c) PROVE Reserved'
  BY <1>3, ReservedKept DEF ResumeFailed, guestVars
<1>4. ASSUME NEW c \in Calls, StdinOverflow(c) PROVE Reserved'
  BY <1>4, ReservedKept DEF StdinOverflow, guestVars
<1>5. ASSUME NEW c \in Calls, SendInput(c) PROVE Reserved'
  <2> DEFINE m == Frame("input", IdOf[c], c)
  <2>1. m \in GuestFrames /\ \A id : ~ExecOf(m, id)
    BY TypeFacts DEF Frame, GuestFrames, ExecOf
  <2>2. toGuest' = Append(toGuest, m)
    BY <1>5 DEF SendInput
  <2> HIDE DEF m
  <2>3. \A id \in RequestId : /\ Leads(toGuest, id) => Leads(toGuest', id)
                              /\ Waits(toGuest', id) => Waits(toGuest, id)
    BY <1>1, <2>1, <2>2, RequestFacts
  <2>4. QED BY <1>5, <2>3, ReservedKept DEF SendInput, guestVars
<1>refused. ASSUME NEW c \in Calls, RefuseInput(c) PROVE Reserved'
  BY <1>refused, ReservedKept DEF RefuseInput, guestVars
<1>6. ASSUME NEW k \in Clients, DisconnectClient(k) PROVE Reserved'
  BY <1>6, ReservedKept DEF DisconnectClient, guestVars
<1>7. ASSUME NEW c \in Calls, Resumed(c) PROVE Reserved'
  <2> DEFINE id == IdOf[c]
             m == Frame("exec", id, c)
  <2>1. /\ id \in RequestId /\ toHost' = toHost /\ session' = session /\ exits' = exits
        /\ m \in GuestFrames /\ m.id = id /\ ExecOf(m, id)
        /\ \A i : i # id => ~ExecOf(m, i)
    BY <1>7, TypeFacts DEF Resumed, guestVars, Frame, GuestFrames, ExecOf
  <2>2. OwnsAdmission(c) => /\ id \notin startedExecs /\ owner[id] = c
                            /\ call[owner[id]].pc # "sent"
    <3>1. ASSUME OwnsAdmission(c)
          PROVE  id \notin startedExecs /\ owner[id] = c /\ call[owner[id]].pc # "sent"
      <4>1. owner[id] = c /\ call[c].pc = "resuming" /\ c # None
        BY <1>7, <3>1, NotMine, SchedulerAssumption DEF Resumed
      <4>2. QED BY <2>1, <4>1 DEF Holders, Owned
    <3>2. QED BY <3>1
  <2>3. CASE toGuest' = toGuest /\ startedExecs' = startedExecs
    BY <2>1, <2>3, ReservedKept
  <2>4. CASE toGuest' = toGuest /\ id \notin startedExecs /\ startedExecs' = startedExecs \ {id}
    <3>1. startedExecs' = startedExecs
      BY <2>4
    <3>2. QED BY <2>3, <2>4, <3>1
  <2>5. CASE /\ toGuest' = Append(toGuest, m) /\ OwnsAdmission(c)
             /\ startedExecs' = startedExecs \cup {id}
    <3>1. owner[id] \in Calls /\ call[owner[id]].pc # "sent" /\ id \in startedExecs'
      BY <2>2, <2>5
    <3>2. Absent(toGuest, id) => Leads(toGuest', id)
      BY <1>1, <2>1, <2>5, RequestFacts
    <3>3. \A i \in RequestId \ {id} : /\ Leads(toGuest, i) => Leads(toGuest', i)
                                      /\ Waits(toGuest', i) => Waits(toGuest, i)
      BY <1>1, <2>1, <2>5, RequestFacts
    <3> DEFINE new == {id}
    <3>4. /\ new \in SUBSET RequestId
          /\ \A i \in new : /\ owner[i] \in Calls /\ call[owner[i]].pc # "sent"
                            /\ i \in startedExecs'
          /\ \A i \in new : Absent(toGuest, i) => Leads(toGuest', i)
          /\ \A i \in RequestId \ new :
               /\ Leads(toGuest, i) => Leads(toGuest', i)
               /\ Waits(toGuest', i) => Waits(toGuest, i)
               /\ i \in startedExecs => i \in startedExecs'
      BY <2>1, <2>5, <3>1, <3>2, <3>3
    <3> HIDE DEF new
    <3>5. QED BY <2>1, <3>4, ReservedStart
  <2>6. QED BY <1>7, <2>2, <2>3, <2>4, <2>5 DEF Resumed
<1>8. ASSUME NEW f \in FileCalls, HostFile(f) PROVE Reserved'
  <2>1. Registered(f) => /\ Frame(fcall[f].kind, fcall[f].id, f) \in GuestFrames
                         /\ Frame("data", fcall[f].id, f) \in GuestFrames
    BY DEF TInv, WireTypes, Frame, GuestFrames
  <2>2. ASSUME NEW m \in GuestFrames, m.by \in FileCalls, toGuest' = Append(toGuest, m),
               UNCHANGED <<toHost, session, startedExecs, exits>>
        PROVE  Reserved'
    <3>1. \A id \in RequestId : /\ Leads(toGuest, id) => Leads(toGuest', id)
                                /\ Waits(toGuest', id) => Waits(toGuest, id)
      BY <2>2, ReservedFileFrame
    <3>2. QED BY <2>2, <3>1, ReservedKept
  <2>3. ASSUME NEW outcome, NEW wire \in Seq(GuestFrames),
               SettleFileOp(f, "await", outcome, wire),
               wire = toGuest \/ wire = Append(toGuest, Frame("data", fcall[f].id, f)),
               Registered(f), UNCHANGED <<toHost, exits, guestVars, owner>>
        PROVE  Reserved'
    <3>1. \A id \in RequestId : /\ Leads(toGuest, id) => Leads(wire, id)
                                /\ Waits(wire, id) => Waits(toGuest, id)
                                /\ Absent(toGuest, id) => Absent(wire, id)
      <4>1. CASE wire = toGuest
        BY <4>1
      <4>2. CASE wire = Append(toGuest, Frame("data", fcall[f].id, f))
        <5>1. Frame("data", fcall[f].id, f).by \in FileCalls
          BY DEF Frame
        <5>2. QED BY <2>1, <2>3, <4>2, <5>1, ReservedFileFrame
      <4>3. QED BY <2>3, <4>1, <4>2
    <3>2. QED BY <2>3, <3>1, ReservedSettle DEF guestVars
  <2>4. CASE FileIdleSeen(f)
    BY <2>4, ReservedKept DEF FileIdleSeen, hostVars, guestVars
  <2>5. ASSUME NEW kind \in {"read", "write"}, RegisterFileOp(f, kind) PROVE Reserved'
    BY <2>5, ReservedKept DEF RegisterFileOp, hostVars, guestVars
  <2>6. CASE SendFileRequest(f)
    <3>1. Registered(f) /\ Frame(fcall[f].kind, fcall[f].id, f).by = f
      BY <2>6 DEF SendFileRequest, Registered, Frame
    <3>2. QED BY <2>1, <2>2, <2>6, <3>1 DEF SendFileRequest, hostVars, guestVars
  <2>7. CASE SendFileEof(f)
    <3>1. Registered(f) /\ Frame("data", fcall[f].id, f).by = f
      BY <2>7 DEF SendFileEof, Registered, Frame
    <3>2. QED BY <2>1, <2>2, <2>7, <3>1 DEF SendFileEof, hostVars, guestVars
  <2>8. CASE FileSendFails(f)
    <3>1. Registered(f)
      BY <2>8 DEF FileSendFails, Registered
    <3>2. QED BY <1>1, <2>3, <2>8, <3>1 DEF FileSendFails
  <2>9. CASE FileDataFails(f)
    BY <2>9, ReservedKept DEF FileDataFails, hostVars, guestVars
  <2>10. CASE SendClosingEof(f)
    <3>1. Registered(f)
      BY <2>10 DEF SendClosingEof, Registered
    <3>2. Append(toGuest, Frame("data", fcall[f].id, f)) \in Seq(GuestFrames)
      BY <2>1, <3>1, WireSteps
    <3>3. QED BY <2>3, <2>10, <3>1, <3>2 DEF SendClosingEof
  <2>11. QED BY <1>8, <2>4, <2>5, <2>6, <2>7, <2>8, <2>9, <2>10 DEF HostFile
<1>9. QED BY <1>2, <1>3, <1>4, <1>5, <1>refused, <1>6, <1>7, <1>8 DEF HostExec

LEMMA ReservedRecv ==
  ASSUME SafeInv, ExecInv, Reserved, IdsApart, HostRecv
  PROVE  Reserved'
<1> USE DEF SafeInv, ExecInv
<1> DEFINE m == Head(toHost)
<1>1. /\ toHost # <<>> /\ toHost' = Tail(toHost) /\ m \in HostFrames
      /\ session' = session /\ owner' = owner /\ exits' = exits
      /\ toGuest \in Seq(GuestFrames) /\ toHost \in Seq(HostFrames)
  BY WireSteps DEF HostRecv, RecvExecResponse, RecvFileDone, RecvError, Received,
     guestVars, TInv, WireTypes
<1>2. \A id \in RequestId : Absent(toHost, id) => Absent(toHost', id)
  BY <1>1, TokenFacts
\* Neither a request nor a payload is left under the id of the frame.
<1>3. ASSUME exits = 0, m.id \in RequestId
      PROVE  ~Waits(toGuest, m.id) /\ session[m.id].st # "running"
  <2>1. CASE m.by \in Calls
    <3>1. ~Absent(toHost, m.id)
      BY <1>1, <2>1, TokenFacts
    <3>2. QED BY <1>3, <3>1 DEF Reserved
  <2>2. CASE m.by \in FileCalls
    <3>1. \A c \in Calls : IdOf[c] # m.id
      <4>1. m \in InTransit
        BY <1>1, WireSets DEF InTransit
      <4>2. m.id = fcall[m.by].id
        BY <1>3, <2>2, <4>1, TypeFacts DEF Traces, Accounted
      <4>3. QED BY <2>2, <4>2 DEF IdsApart
    <3>2. Absent(toGuest, m.id)
      BY <3>1 DEF Absent, Traces, Accounted, Trace, InTransit, ToSet
    <3>3. ~Waits(toGuest, m.id)
      BY <1>1, <3>2, RequestFacts
    <3>4. session[m.id].st # "running"
      BY <1>3, <3>1 DEF Traces, Trace, TInv, WireTypes
    <3>5. QED BY <3>3, <3>4
  <2>3. QED BY <1>1, <2>1, <2>2 DEF HostFrames
<1>4. ASSUME toGuest' = toGuest, startedExecs' = startedExecs \ {m.id} PROVE Reserved'
  <2> HIDE DEF m
  <2>1. \A id \in RequestId : id # m.id => (id \in startedExecs => id \in startedExecs')
    BY <1>4
  <2>2. QED BY <1>1, <1>2, <1>3, <1>4, <2>1 DEF Reserved
<1>5. ASSUME NEW f \in fileOps, NEW outcome, SettleFileOp(f, fcall[f].pc, outcome, toGuest)
      PROVE  Reserved'
  <2>1. f \in FileCalls
    BY DEF TInv, TypeOK
  <2>2. QED BY <1>1, <1>2, <1>5, <2>1, ReservedSettle
<1>6. CASE RecvExecResponse
  BY <1>4, <1>6 DEF RecvExecResponse
<1>7. CASE RecvFileDone
  <2>1. CASE UNCHANGED <<hostVars, fileVars, toGuest, reply>>
    BY <1>1, <1>2, <2>1, ReservedKept DEF hostVars
  <2>2. CASE \E f \in fileOps : SettleFileOp(f, fcall[f].pc, "done", toGuest)
    BY <1>5, <2>2
  <2>3. QED BY <1>7, <2>1, <2>2 DEF RecvFileDone
<1>8. CASE RecvError
  <2>1. CASE startedExecs' = startedExecs \ {m.id} /\ toGuest' = toGuest
    BY <1>4, <2>1
  <2>2. CASE \E f \in fileOps : SettleFileOp(f, fcall[f].pc, "failed", toGuest)
    BY <1>5, <2>2
  <2>3. QED BY <1>8, <2>1, <2>2 DEF RecvError
<1>9. QED BY <1>6, <1>7, <1>8 DEF HostRecv

LEMMA ReservedGuest ==
  ASSUME SafeInv, ExecInv, Reserved, GuestLoop \/ \E id \in RequestId : GuestWorker(id)
  PROVE  Reserved'
<1> USE DEF SafeInv, ExecInv
<1> DEFINE m == Head(toGuest)
<1>1. startedExecs' = startedExecs /\ exits' = exits
  BY DEF GuestLoop, GuestWorker, GuestExec, GuestInput, GuestFileRead, GuestFileWrite,
         GuestWriteLoop, GuestStrayData, ExecWorkerEnds, ExecSessionDone, Consumed,
         hostVars
<1>2. /\ toGuest \in Seq(GuestFrames) /\ toHost \in Seq(HostFrames)
      /\ fileWriter # None =>
           fileWriter \in [t : {"write"}, id : RequestId, by : FileCalls]
      /\ 0 \in 0 .. MaxRequestId /\ RequestId \subseteq 0 .. MaxRequestId
  BY SchedulerAssumption DEF TInv, WireTypes, RequestId
<1>3. toGuest # <<>> => m \in GuestFrames
  BY WireSteps
\* A frame is taken, and nothing or the answer of a file call is sent.
<1>4. ASSUME toGuest # <<>>, toGuest' = Tail(toGuest), session' = session,
             \/ toHost' = toHost
             \/ \E x \in HostFrames : x.by \in FileCalls /\ toHost' = Append(toHost, x)
      PROVE  Reserved'
  <2>1. \A id \in RequestId :
          /\ Leads(toGuest, id) => Leads(toGuest', id)
          /\ Waits(toGuest', id) => Waits(toGuest, id)
          /\ Absent(toHost, id) => Absent(toHost', id)
    BY <1>4, ReservedFileFrame
  <2>2. QED BY <1>1, <1>4, <2>1, ReservedKept
\* A frame of a call is taken, and refused under its id, which has no payload.
<1>5. ASSUME toGuest # <<>>, toGuest' = Tail(toGuest), session' = session,
             m.by \in Calls, m.id \in RequestId, session[m.id].st # "running",
             toHost' = Append(toHost, Frame("error", m.id, m.by))
      PROVE  Reserved'
  <2> DEFINE x == Frame("error", m.id, m.by)
  <2>1. x \in HostFrames /\ x.id = m.id /\ x.by = m.by
    BY <1>5 DEF Frame, HostFrames
  <2>2. \A id \in RequestId : /\ Leads(toGuest, id) => Leads(toGuest', id)
                              /\ Waits(toGuest', id) => Waits(toGuest, id)
    BY <1>5, ReservedFileFrame
  <2>3. exits = 0 => ~Waits(toGuest', m.id)
    BY <1>2, <1>5, RequestFacts DEF Reserved
  <2>4. \A id \in RequestId : id # m.id => (Absent(toHost, id) => Absent(toHost', id))
    BY <1>2, <1>5, <2>1, TokenFacts
  <2> HIDE DEF x, m
  <2>5. QED BY <1>1, <1>5, <2>2, <2>3, <2>4 DEF Reserved
<1>6. CASE GuestExec
  <2>1. /\ toGuest # <<>> /\ m.by \in Calls /\ m.id \in RequestId /\ toGuest' = Tail(toGuest)
        /\ ExecOf(m, m.id)
    BY <1>3, <1>6 DEF GuestExec, GuestReads, GuestFrames, Consumed, ExecOf
  <2>2. Waits(toGuest, m.id)
    <3>1. 1 \in DOMAIN toGuest /\ toGuest[1] = m
      BY <1>2, <2>1
    <3>2. QED BY <2>1, <3>1 DEF Waits
  <2>3. CASE /\ session' = [session EXCEPT ![m.id] = [st |-> "running", by |-> m.by]]
             /\ toHost' = toHost
    <3>1. \A id \in RequestId : /\ Leads(toGuest, id) => Leads(toGuest', id)
                                /\ Waits(toGuest', id) => Waits(toGuest, id)
      BY <2>1, ReservedFileFrame
    <3>2. exits = 0 => ~Waits(toGuest', m.id)
      BY <1>2, <2>1, RequestFacts DEF Reserved
    <3>3. \A id \in RequestId : id # m.id => session'[id] = session[id]
      BY <2>3 DEF TInv, TypeOK
    <3> HIDE DEF m
    <3>4. QED BY <1>1, <2>1, <2>2, <2>3, <3>1, <3>2, <3>3 DEF Reserved
  <2>4. ASSUME Reply("error", m.id, m.by), UNCHANGED session PROVE Reserved'
    <3>1. CASE exits = 0
      <4>1. session[m.id].st # "running"
        BY <2>1, <2>2, <3>1 DEF Reserved
      <4>2. QED BY <1>5, <2>1, <2>4, <4>1 DEF Reply
    <3>2. CASE exits # 0
      BY <1>1, <3>2 DEF Reserved
    <3>3. QED BY <3>1, <3>2
  <2>5. QED BY <1>6, <2>3, <2>4 DEF GuestExec
<1>7. CASE GuestInput
  <2>1. /\ toGuest # <<>> /\ m.by \in Calls /\ m.id \in RequestId /\ toGuest' = Tail(toGuest)
        /\ session' = session
    BY <1>3, <1>7 DEF GuestInput, GuestReads, GuestFrames, Consumed, guestVars
  <2>2. \/ toHost' = toHost
        \/ Reply("error", m.id, m.by) /\ session[m.id].st # "running"
    BY <1>7 DEF GuestInput
  <2>3. QED BY <1>4, <1>5, <2>1, <2>2 DEF Reply
<1>8. ASSUME NEW t \in {"file_done", "error"}, NEW id \in 0 .. MaxRequestId,
             NEW f \in FileCalls
      PROVE  Frame(t, id, f) \in HostFrames /\ Frame(t, id, f).by \in FileCalls
  BY DEF Frame, HostFrames
<1>9. CASE GuestFileRead
  <2>1. /\ toGuest # <<>> /\ m.by \in FileCalls /\ m.id \in RequestId
        /\ toGuest' = Tail(toGuest) /\ session' = session
    BY <1>3, <1>9 DEF GuestFileRead, GuestReads, GuestFrames, Consumed, guestVars
  <2>2. \E x \in HostFrames : x.by \in FileCalls /\ toHost' = Append(toHost, x)
    BY <1>2, <1>8, <1>9, <2>1 DEF GuestFileRead, Reply
  <2>3. QED BY <1>4, <2>1, <2>2
<1>10. CASE GuestFileWrite
  <2>1. /\ toGuest # <<>> /\ m.by \in FileCalls /\ m.id \in RequestId
        /\ toGuest' = Tail(toGuest) /\ session' = session
    BY <1>3, <1>10 DEF GuestFileWrite, GuestReads, GuestFrames, Consumed
  <2>2. \/ toHost' = toHost
        \/ \E x \in HostFrames : x.by \in FileCalls /\ toHost' = Append(toHost, x)
    BY <1>2, <1>8, <1>10, <2>1 DEF GuestFileWrite, Reply
  <2>3. QED BY <1>4, <2>1, <2>2
<1>11. CASE GuestWriteLoop
  <2>1. /\ toGuest # <<>> /\ fileWriter.by \in FileCalls /\ fileWriter.id \in RequestId
        /\ toGuest' = Tail(toGuest) /\ session' = session
    BY <1>2, <1>11 DEF GuestWriteLoop, GuestReads, Consumed
  <2>2. \E x \in HostFrames : x.by \in FileCalls /\ toHost' = Append(toHost, x)
    BY <1>2, <1>8, <1>11, <2>1 DEF GuestWriteLoop, Reply
  <2>3. QED BY <1>4, <2>1, <2>2
<1>12. CASE GuestStrayData
  <2>1. /\ toGuest # <<>> /\ m.by \in FileCalls
        /\ toGuest' = Tail(toGuest) /\ session' = session
    BY <1>3, <1>12 DEF GuestStrayData, GuestReads, GuestFrames, Consumed, guestVars
  <2>2. \E x \in HostFrames : x.by \in FileCalls /\ toHost' = Append(toHost, x)
    BY <1>2, <1>8, <1>12, <2>1 DEF GuestStrayData, Reply
  <2>3. QED BY <1>4, <2>1, <2>2
<1>13. ASSUME NEW id \in RequestId, ExecWorkerEnds(id) PROVE Reserved'
  <2>1. session[id].st = "running" /\ session[id].by \in Calls /\ toGuest' = toGuest
    BY <1>13 DEF ExecWorkerEnds, TInv, WireTypes
  <2>2. PICK t \in {"exec_response", "error"} :
          toHost' = Append(toHost, Frame(t, id, session[id].by))
    BY <1>13 DEF ExecWorkerEnds, Reply
  <2> DEFINE x == Frame(t, id, session[id].by)
  <2>3. x \in HostFrames /\ x.id = id /\ x.by \in Calls
    BY <2>1 DEF Frame, HostFrames
  <2>4. exits = 0 => ~Waits(toGuest, id)
    BY <2>1 DEF Reserved
  <2>5. \A i \in RequestId : i # id => (Absent(toHost, i) => Absent(toHost', i))
    BY <1>2, <2>2, <2>3, TokenFacts
  <2>6. /\ session'[id].st = "replied"
        /\ \A i \in RequestId : i # id => session'[i] = session[i]
    BY <1>13 DEF ExecWorkerEnds, TInv, TypeOK
  <2> HIDE DEF x
  <2>7. QED BY <1>1, <2>1, <2>4, <2>5, <2>6 DEF Reserved
<1>14. ASSUME NEW id \in RequestId, ExecSessionDone(id) PROVE Reserved'
  <2>1. UNCHANGED <<toGuest, toHost>>
        /\ \A i \in RequestId : session'[i].st = "running" => session[i].st = "running"
    BY <1>14 DEF ExecSessionDone, TInv, TypeOK
  <2>2. QED BY <1>1, <2>1, ReservedKept
<1>15. QED BY <1>6, <1>7, <1>9, <1>10, <1>11, <1>12, <1>13, <1>14
           DEF GuestLoop, GuestWorker

LEMMA ReservedStep ==
  ASSUME SafeInv, ExecInv, Reserved, IdsApart, [Next]_vars
  PROVE  Reserved'
<1>1. CASE UNCHANGED vars
  BY <1>1, ReservedKept DEF vars, hostVars, guestVars
<1>2. CASE VmExit
  <2>1. exits \in Nat /\ exits' = exits + 1
    BY <1>2 DEF VmExit, SafeInv, TInv, TypeOK
  <2>2. exits' # 0
    BY <2>1
  <2>3. QED BY <2>2 DEF Reserved
<1>3. CASE VmStart
  BY <1>3, ReservedKept DEF VmStart, hostVars, guestVars
<1>4. QED BY <1>1, <1>2, <1>3, ReservedHost, ReservedRecv, ReservedGuest DEF Next

LEMMA InitReserved == Init => Reserved
BY DEF Init, Reserved, Leads, Waits, Absent

-----------------------------------------------------------------------------
(* The theorems. *)

IInv ==
  /\ SafeInv
  /\ ExecInv
  /\ \/ UniqueIds
     \/ /\ OneLifetime
        /\ Tokens

LEMMA Inductive == IInv /\ IdsApart /\ [Next]_vars => IInv'
<1> SUFFICES ASSUME IInv, IdsApart, [Next]_vars PROVE IInv'
  OBVIOUS
<1>1. SafeInv'
  BY SafeStep DEF IInv
<1>2. Fresh
  BY FreshIfUnique, FreshIfTokens DEF IInv
<1>3. ExecInv'
  BY <1>2, OwnStep DEF IInv
<1>4. ASSUME OneLifetime, Tokens PROVE Tokens'
  <2>1. SafeInv /\ ExecInv
    BY DEF IInv
  <2>2. QED BY <1>4, <2>1, TokensStep
<1>5. QED BY <1>1, <1>3, <1>4 DEF IInv, UniqueIds, OneLifetime

LEMMA InitInductive == Init /\ (UniqueIds \/ OneLifetime) => IInv
<1> SUFFICES ASSUME Init, UniqueIds \/ OneLifetime PROVE IInv
  OBVIOUS
<1>1. Tokens
  BY DEF Init, Tokens, Absent, Single
<1>2. QED BY <1>1, InitSafe, InitOwn DEF IInv

THEOREM Invariance ==
  ASSUME UniqueIds \/ OneLifetime
  PROVE  Spec /\ []IdsApart => []IInv
<1>1. Init => IInv
  BY InitInductive
<1>2. QED BY <1>1, Inductive, PTL DEF Spec

\* The queue of held execs is pumped by somebody and holds no entry of a call
\* that was cancelled, disconnected or cut off by a VM exit (pumpExecQueue,
\* handleStdin, disconnectClient, failInflight).
THEOREM QueueStaysSound ==
  ASSUME UniqueIds \/ OneLifetime
  PROVE  Spec /\ []IdsApart => []QueueSound
<1>1. IInv => QueueSound
  BY DEF IInv, SafeInv, TInv, ExecInv, Holders, QueueSound
<1>2. QED BY <1>1, Invariance, PTL

\* The host ends a call at most once, and never by an answer that another request
\* under its id caused (exec_response and error handlers); an error for refused
\* input ends nothing.
THEOREM OwnAnswersOnly ==
  ASSUME UniqueIds \/ OneLifetime
  PROVE  Spec /\ []IdsApart => []AnswersAreOwn
<1>1. IInv => AnswersAreOwn
  BY DEF IInv, ExecInv, Holders
<1>2. QED BY <1>1, Invariance, PTL

\* Answers stay with the call that caused them; until the VM exits, the ids of
\* running payloads stay reserved and no more than maxQueuedExecs of them run,
\* whatever input is sent to them and however their clients leave.
THEOREM IdsStayWithTheirOwner ==
  ASSUME UniqueIds \/ OneLifetime
  PROVE  Spec /\ []IdsApart => []IdsKeepTheirOwner
<1>1. ASSUME IInv, Reserved PROVE IdsKeepTheirOwner
  <2>1. AnswersAreOwn
    BY <1>1 DEF IInv, ExecInv, Holders
  <2>2. ReservedWhileRunning
    BY <1>1 DEF Reserved, ReservedWhileRunning
  <2> DEFINE running == {id \in RequestId : session[id].st = "running"}
  <2>3. ASSUME exits = 0 PROVE Cardinality(running) <= MaxQueuedExecs
    <3>1. IsFiniteSet(RequestId)
      BY FS_Interval, SchedulerAssumption DEF RequestId
    <3>2. Tracked \in SUBSET RequestId
      BY <1>1 DEF IInv, SafeInv, TInv, TypeOK, Tracked
    <3>3. IsFiniteSet(Tracked)
      BY <3>1, <3>2, FS_Subset
    <3>4. running \subseteq Tracked
      BY <2>2, <2>3 DEF ReservedWhileRunning, Tracked
    <3> HIDE DEF running
    <3>5. Cardinality(running) <= Cardinality(Tracked) /\ IsFiniteSet(running)
      BY <3>3, <3>4, FS_Subset
    <3>6. Cardinality(running) \in Nat /\ Cardinality(Tracked) \in Nat
      BY <3>3, <3>5, FS_CardinalityType
    <3>7. Cardinality(Tracked) <= MaxQueuedExecs
      BY <1>1 DEF IInv, SafeInv, Load
    <3>8. QED BY <3>5, <3>6, <3>7, SchedulerAssumption
  <2>4. QED BY <2>1, <2>2, <2>3 DEF IdsKeepTheirOwner, GuestLoadBounded
<1>2. Init => IInv /\ Reserved
  BY InitInductive, InitReserved
<1>3. IInv /\ Reserved /\ IdsApart /\ [Next]_vars => Reserved'
  BY ReservedStep DEF IInv
<1>4. QED BY <1>1, <1>2, <1>3, Inductive, PTL DEF Spec

-----------------------------------------------------------------------------
(* Starts. *)

\* A call the pump starts is still owed an answer by its own client.
LEMMA PumpStartsOwed ==
  ASSUME SafeInv, ExecInv, NEW wire \in Seq(GuestFrames), PumpExecQueue(wire),
         NEW c \in Calls, call[c].pc # "sent", call'[c].pc = "sent"
  PROVE  reply[c] = <<>> /\ call[c].client \in clients
<1> USE DEF SafeInv, ExecInv, Holders
<1> DEFINE id == IdOf[c]
<1>1. id \in RequestId /\ c # None
  BY TypeFacts, SchedulerAssumption
<1>2. /\ PumpedSame(id) \/ PumpedStarted(id) \/ PumpedRefused(id)
      /\ owner[id] # c => call'[c] = call[c]
  BY <1>1, PumpEffects
<1>3. owner[id] = c
  BY <1>2
<1>4. ~PumpedSame(id)
  BY <1>1, <1>3 DEF PumpedSame
<1>5. ~PumpedRefused(id)
  <2>1. call[c] \in CallStates
    BY DEF TInv, TypeOK, CallStates
  <2>2. [call[c] EXCEPT !.pc = "over"].pc = "over"
    BY <2>1 DEF CallStates
  <2>3. QED BY <1>3, <2>2 DEF PumpedRefused
<1>6. inflight[id] # None
  BY <1>2, <1>4, <1>5 DEF PumpedStarted
<1>7. QED BY <1>1, <1>3, <1>6 DEF Owed

\* Every start, by its own handler or by the pump.
LEMMA StartsAreOwed ==
  ASSUME SafeInv, ExecInv, [Next]_vars,
         NEW c \in Calls, call[c].pc # "sent", call'[c].pc = "sent"
  PROVE  reply[c] = <<>> /\ call[c].client \in clients
<1> USE DEF SafeInv
<1> DEFINE Goal == reply[c] = <<>> /\ call[c].client \in clients
<1>1. \A d \in Calls : call[d] \in CallStates
  BY DEF TInv, TypeOK, CallStates
<1>2. toGuest \in Seq(GuestFrames)
  BY DEF TInv, WireTypes
<1>3. ASSUME NEW wire \in Seq(GuestFrames), PumpExecQueue(wire) PROVE Goal
  BY <1>3, PumpStartsOwed
<1>4. ASSUME call' = call PROVE Goal
  BY <1>4
<1>5. CASE UNCHANGED vars
  BY <1>4, <1>5 DEF vars, hostVars
<1>6. ASSUME NEW d \in Calls, HostExec(d) PROVE Goal
  <2>1. ASSUME NEW k \in Clients, HandleExec(d, k) PROVE Goal
    <3>1. call'[c].pc \in {call[c].pc, "over", "resuming"}
      BY <1>1, <2>1 DEF HandleExec, CallStates, TInv, TypeOK
    <3>2. QED BY <3>1
  <2>2. CASE ResumeFailed(d) \/ StdinOverflow(d) \/ SendInput(d) \/ RefuseInput(d)
    <3>1. ASSUME ResumeFailed(d) PROVE call'[c].pc \in {call[c].pc, "over"}
      BY <1>1, <3>1 DEF ResumeFailed, CallStates, TInv, TypeOK
    <3>2. ASSUME StdinOverflow(d) PROVE call'[c].pc \in {call[c].pc, "over"}
      BY <1>1, <3>2 DEF StdinOverflow, CallStates
    <3>3. ASSUME SendInput(d) PROVE call'[c].pc = call[c].pc
      BY <1>1, <3>3 DEF SendInput, CallStates, TInv, TypeOK
    <3>4. ASSUME RefuseInput(d) PROVE call'[c].pc = call[c].pc
      BY <1>1, <3>4 DEF RefuseInput, CallStates, TInv, TypeOK
    <3>5. QED BY <2>2, <3>1, <3>2, <3>3, <3>4
  <2>3. CASE Resumed(d)
    <3>1. CASE d = c
      <4>1. OwnsAdmission(c) /\ inflight[IdOf[c]] = call[c].client
        <5>1. \/ OwnsAdmission(c) /\ inflight[IdOf[c]] = call[c].client
              \/ call' = [call EXCEPT ![c].pc = "over"]
          BY <2>3, <3>1 DEF Resumed
        <5>2. CASE call' = [call EXCEPT ![c].pc = "over"]
          <6>1. call'[c].pc = "over"
            BY <1>1, <5>2 DEF CallStates, TInv, TypeOK
          <6>2. QED BY <6>1
        <5>3. QED BY <5>1, <5>2
      <4>2. call[c].pc = "resuming"
        BY <2>3, <3>1 DEF Resumed
      <4>3. call[c].client # None /\ IdOf[c] \in RequestId
        BY <4>2, TypeFacts, SchedulerAssumption DEF ClientsKnown
      <4>4. owner[IdOf[c]] = c
        BY <4>1, <4>2, NotMine DEF ExecInv
      <4>5. QED BY <4>1, <4>3, <4>4 DEF ExecInv, Holders, Owed
    <3>2. CASE d # c
      <4>1. call'[c] = call[c]
        BY <1>1, <2>3, <3>2 DEF Resumed, TInv, TypeOK
      <4>2. QED BY <4>1
    <3>3. QED BY <3>1, <3>2
  <2>4. QED BY <1>6, <2>1, <2>2, <2>3 DEF HostExec
<1>7. ASSUME NEW k \in Clients, DisconnectClient(k) PROVE Goal
  <2>1. call'[c].pc \in {call[c].pc, "over"}
    BY <1>1, <1>7 DEF DisconnectClient, CallStates
  <2>2. QED BY <2>1
<1>8. ASSUME NEW f \in FileCalls, NEW pc, NEW outcome, NEW wire \in Seq(GuestFrames),
             SettleFileOp(f, pc, outcome, wire)
      PROVE  Goal
  BY <1>3, <1>4, <1>8 DEF SettleFileOp, hostVars
<1>9. ASSUME NEW f \in FileCalls, HostFile(f) PROVE Goal
  <2>1. CASE \/ FileIdleSeen(f) \/ \E kind \in {"read", "write"} : RegisterFileOp(f, kind)
             \/ SendFileRequest(f) \/ SendFileEof(f) \/ FileDataFails(f)
    BY <1>4, <2>1 DEF FileIdleSeen, RegisterFileOp, SendFileRequest, SendFileEof,
                      FileDataFails, hostVars
  <2>2. CASE FileSendFails(f)
    BY <1>2, <1>8, <2>2 DEF FileSendFails
  <2>3. CASE SendClosingEof(f)
    <3>1. fcall[f].id \in RequestId
      BY <2>3 DEF SendClosingEof, TInv, WireTypes, Registered
    <3>2. Frame("data", fcall[f].id, f) \in GuestFrames
      BY <3>1 DEF Frame, GuestFrames
    <3>3. Append(toGuest, Frame("data", fcall[f].id, f)) \in Seq(GuestFrames)
      BY <3>2, WireSteps
    <3>4. QED BY <1>8, <2>3, <3>3 DEF SendClosingEof
  <2>4. QED BY <1>9, <2>1, <2>2, <2>3 DEF HostFile
<1>10. CASE HostRecv
  <2>1. CASE RecvExecResponse
    BY <1>4, <2>1 DEF RecvExecResponse
  <2>2. CASE RecvFileDone
    <3>1. call' = call \/ PumpExecQueue(toGuest)
      BY <2>2 DEF RecvFileDone, SettleFileOp, hostVars
    <3>2. QED BY <1>2, <1>3, <1>4, <3>1
  <2>3. CASE RecvError
    <3>1. call' = call \/ PumpExecQueue(toGuest)
      BY <2>3 DEF RecvError, SettleFileOp, hostVars
    <3>2. QED BY <1>2, <1>3, <1>4, <3>1
  <2>4. QED BY <1>10, <2>1, <2>2, <2>3 DEF HostRecv
<1>11. CASE VmExit
  <2>1. call'[c].pc \in {call[c].pc, "over"}
    BY <1>1, <1>11 DEF VmExit, CallStates
  <2>2. QED BY <2>1
<1>12. CASE VmStart
  BY <1>4, <1>12 DEF VmStart, hostVars
<1>13. CASE GuestLoop
  BY <1>4, <1>13 DEF GuestLoop, GuestExec, GuestInput, GuestFileRead, GuestFileWrite,
                     GuestWriteLoop, GuestStrayData, Consumed, hostVars
<1>14. ASSUME NEW id \in RequestId, GuestWorker(id) PROVE Goal
  BY <1>4, <1>14 DEF GuestWorker, ExecWorkerEnds, ExecSessionDone, hostVars
<1>15. QED BY <1>5, <1>6, <1>7, <1>9, <1>10, <1>11, <1>12, <1>13, <1>14
           DEF Next

\* A call that was cancelled, refused or failed, or whose client has left, is
\* never started (startExecNow from handleExec and from pumpExecQueue).
THEOREM CancelledStayUnstarted ==
  ASSUME UniqueIds \/ OneLifetime
  PROVE  Spec /\ []IdsApart => CancelledNeverStarts
<1> DEFINE StartsOwed ==
      \A c \in Calls : call[c].pc # "sent" /\ call'[c].pc = "sent"
                         => reply[c] = <<>> /\ call[c].client \in clients
<1>1. IInv /\ [Next]_vars => [StartsOwed]_vars
  BY StartsAreOwed DEF IInv
<1>2. QED BY <1>1, Invariance, PTL DEF Spec, CancelledNeverStarts
=============================================================================
