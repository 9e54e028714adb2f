------------------------- MODULE SessionIpc_proofs --------------------------
(***************************************************************************)
(* The services that a session offers other programs, for any number of    *)
(* their clients: frames on its socket reach the call they belong to, its  *)
(* files stay while it lives, and what it pinned of the host stays its own. *)
(*                                                                         *)
(* SessionIpc: the two maps of a client are inverse to each other, and the *)
(* entry of a request id is the exec it last stood for; no internal id is  *)
(* in the maps of two clients.  SessionRegistry: a session that was never   *)
(* seen half made was listed whole by every collection, and what the dead  *)
(* left is always among what is still looked at.  ScopedTree: one          *)
(* holder for each descriptor, and an object of a private root behind each *)
(* that may change anything.  IngressListeners: the text and the table     *)
(* agree after every step that neither leaves both alone nor is seen.      *)
(* TcpForward: the frames on their way to one side are one queue, and each *)
(* unit and each end is on one side, on the other or in it.                *)
(***************************************************************************)
EXTENDS SessionIpc, SessionRegistry, ScopedTree, IngressListeners, TcpForward,
        FiniteSetTheorems, SequenceTheorems, TLAPS

MapTypes ==
  /\ e2i = [c \in Clients |-> e2i[c]]
  /\ i2e = [c \in Clients |-> i2e[c]]
  /\ call \in [Clients -> [Externals -> Nat]]
  /\ issued \in Nat
  /\ \A n \in DOMAIN execs : execs[n] \in Clients \cup {None}

\* The way to the internal id of a request, and back.
WaysIn(c) ==
  \A e \in DOMAIN e2i[c] :
    /\ e \in Externals /\ call[c][e] = e2i[c][e]
    /\ e2i[c][e] \in DOMAIN i2e[c] /\ i2e[c][e2i[c][e]] = e

WaysBack(c) ==
  \A i \in DOMAIN i2e[c] :
    /\ i \in 1 .. issued
    /\ i2e[c][i] \in DOMAIN e2i[c] /\ e2i[c][i2e[c][i]] = i

Translations == \A c \in Clients : WaysIn(c) /\ WaysBack(c)

\* Clients do not share internal ids, and allocatedInternalIds is what their maps
\* hold.
InternalIdsAccounted ==
  /\ \A c, d \in Clients : c # d => DOMAIN i2e[c] \cap DOMAIN i2e[d] = {}
  /\ allocated = UNION {DOMAIN i2e[c] : c \in Clients}

IInv == MapTypes /\ Translations /\ InternalIdsAccounted

LEMMA InitHolds == Init => IInv
<1> SUFFICES ASSUME Init PROVE IInv
  OBVIOUS
<1>1. DOMAIN Empty = {}
  BY DEF Empty
<1>2. MapTypes
  BY <1>1 DEF Init, MapTypes
<1>3. Translations /\ InternalIdsAccounted
  BY <1>1 DEF Init, Translations, WaysIn, WaysBack, InternalIdsAccounted
<1>4. QED BY <1>2, <1>3 DEF IInv

\* What leaves the maps, the calls and the ids alone.
LEMMA MapsKept ==
  ASSUME IInv, UNCHANGED <<e2i, i2e, call, issued, allocated>>,
         \A i \in DOMAIN execs' : execs'[i] \in Clients \cup {None}
  PROVE  IInv'
BY DEF IInv, MapTypes, Translations, WaysIn, WaysBack, InternalIdsAccounted

-----------------------------------------------------------------------------
(* The end of a translation. *)

LEMMA ForgetKeeps ==
  ASSUME IInv, NEW c \in Clients, NEW e \in DOMAIN e2i[c], NEW i, i = e2i[c][e],
         Forget(c, e, i), UNCHANGED <<call, issued>>,
         \A j \in DOMAIN execs' : execs'[j] \in Clients \cup {None}
  PROVE  IInv'
<1> USE DEF IInv, MapTypes
<1>1. i \in DOMAIN i2e[c] /\ i2e[c][i] = e
  BY DEF Translations, WaysIn
<1>2. /\ e2i' = [d \in Clients |-> e2i'[d]] /\ i2e' = [d \in Clients |-> i2e'[d]]
      /\ e2i'[c] = Without(e2i[c], e) /\ i2e'[c] = Without(i2e[c], i)
      /\ \A d \in Clients \ {c} : e2i'[d] = e2i[d] /\ i2e'[d] = i2e[d]
  BY DEF Forget
<1>3. /\ DOMAIN e2i'[c] = DOMAIN e2i[c] \ {e}
      /\ \A x \in DOMAIN e2i[c] \ {e} : e2i'[c][x] = e2i[c][x]
      /\ DOMAIN i2e'[c] = DOMAIN i2e[c] \ {i}
      /\ \A x \in DOMAIN i2e[c] \ {i} : i2e'[c][x] = i2e[c][x]
  BY <1>2 DEF Without, Restrict
<1>4. ASSUME NEW d \in Clients PROVE (WaysIn(d) /\ WaysBack(d))'
  <2>1. CASE d # c
    BY <1>2, <2>1 DEF Translations, WaysIn, WaysBack
  <2>2. WaysIn(c) /\ WaysBack(c)
    BY DEF Translations
  <2>3. WaysIn(c)'
    BY <1>1, <1>3, <2>2 DEF WaysIn
  <2>4. WaysBack(c)'
    BY <1>1, <1>3, <2>2 DEF WaysBack
  <2>5. QED BY <2>1, <2>3, <2>4
<1>5. InternalIdsAccounted'
  <2>1. \A d \in Clients : DOMAIN i2e'[d] = DOMAIN i2e[d] \ {i}
    <3>1. \A d \in Clients \ {c} : i \notin DOMAIN i2e[d]
      BY <1>1 DEF InternalIdsAccounted
    <3>2. QED BY <1>2, <1>3, <3>1
  <2>2. allocated' = allocated \ {i}
    BY DEF Forget
  <2>3. QED BY <2>1, <2>2 DEF InternalIdsAccounted
<1>6. QED BY <1>2, <1>4, <1>5 DEF Translations

-----------------------------------------------------------------------------
(* Actions. *)

LEMMA ExecKeeps ==
  ASSUME IInv, NEW c \in Clients, NEW e \in Externals, NEW b \in BOOLEAN, Exec(c, e, b)
  PROVE  IInv'
<1> USE DEF IInv, MapTypes
<1> DEFINE i == issued + 1
<1>1. /\ e \notin DOMAIN e2i[c] /\ issued' = i /\ i \in Nat /\ issued < i
      /\ call' = [call EXCEPT ![c][e] = i]
  BY DEF Exec
<1>2. /\ call' \in [Clients -> [Externals -> Nat]]
      /\ call'[c][e] = i
      /\ \A x \in Externals \ {e} : call'[c][x] = call[c][x]
      /\ \A d \in Clients \ {c} : call'[d] = call[d]
  BY <1>1
<1>3. \A d \in Clients : i \notin DOMAIN i2e[d]
  BY <1>1 DEF Translations, WaysBack
<1>4. CASE ~b
  <2>1. UNCHANGED <<e2i, i2e, allocated, execs>>
    BY <1>4 DEF Exec
  <2>2. ASSUME NEW d \in Clients PROVE WaysIn(d)'
    BY <1>1, <1>2, <2>1 DEF Translations, WaysIn
  <2>3. ASSUME NEW d \in Clients PROVE WaysBack(d)'
    BY <1>1, <2>1 DEF Translations, WaysBack
  <2>4. InternalIdsAccounted'
    BY <2>1 DEF InternalIdsAccounted
  <2>5. QED BY <1>1, <1>2, <2>1, <2>2, <2>3, <2>4 DEF Translations
<1>5. CASE b
  <2>1. /\ e2i' = [e2i EXCEPT ![c] = With(@, e, i)]
        /\ i2e' = [i2e EXCEPT ![c] = With(@, i, e)]
        /\ allocated' = allocated \cup {i}
        /\ execs' = With(execs, i, c)
    BY <1>5 DEF Exec
  <2> HIDE DEF i
  <2>2. /\ e2i' = [d \in Clients |-> e2i'[d]] /\ i2e' = [d \in Clients |-> i2e'[d]]
        /\ e2i'[c] = With(e2i[c], e, i) /\ i2e'[c] = With(i2e[c], i, e)
        /\ \A d \in Clients \ {c} : e2i'[d] = e2i[d] /\ i2e'[d] = i2e[d]
    BY <2>1
  <2>3. /\ DOMAIN e2i'[c] = {e} \cup DOMAIN e2i[c] /\ e2i'[c][e] = i
        /\ \A x \in DOMAIN e2i[c] \ {e} : e2i'[c][x] = e2i[c][x]
    BY <2>2 DEF With
  <2>4. /\ DOMAIN i2e'[c] = {i} \cup DOMAIN i2e[c] /\ i2e'[c][i] = e
        /\ \A x \in DOMAIN i2e[c] \ {i} : i2e'[c][x] = i2e[c][x]
    BY <2>2 DEF With
  <2>5. \A j \in DOMAIN execs' : execs'[j] \in Clients \cup {None}
    BY <2>1 DEF With
  <2>6. ASSUME NEW d \in Clients \ {c} PROVE (WaysIn(d) /\ WaysBack(d))'
    BY <1>1, <1>2, <2>2 DEF Translations, WaysIn, WaysBack
  <2>7. WaysIn(c) /\ WaysBack(c)
    BY DEF Translations
  <2>8. WaysIn(c)'
    BY <1>1, <1>2, <1>3, <2>3, <2>4, <2>7 DEF WaysIn
  <2>9. WaysBack(c)'
    <3>1. \A j \in 1 .. issued : j \in 1 .. i
      BY <1>1
    <3>2. QED BY <1>1, <1>3, <2>3, <2>4, <2>7, <3>1 DEF WaysBack
  <2>10. InternalIdsAccounted'
    <3>1. \A d \in Clients \ {c} : DOMAIN i2e'[d] = DOMAIN i2e[d]
      BY <2>2
    <3>2. QED BY <1>3, <2>1, <2>4, <3>1 DEF InternalIdsAccounted
  <2>11. QED BY <1>1, <1>2, <2>2, <2>5, <2>6, <2>8, <2>9, <2>10 DEF Translations
<1>6. QED BY <1>4, <1>5

LEMMA EndsKeeps ==
  ASSUME IInv, NEW i, Ends(i)
  PROVE  IInv'
<1>1. \A j \in DOMAIN execs' : execs'[j] \in Clients \cup {None}
  BY DEF Ends, Without, Restrict, IInv, MapTypes
<1>2. CASE Translated(i)
  <2> DEFINE c == execs[i]
  <2>1. c \in Clients /\ i \in DOMAIN i2e[c]
    BY <1>2 DEF Ends, Running, Translated, IInv, MapTypes
  <2>2. i2e[c][i] \in DOMAIN e2i[c] /\ i = e2i[c][i2e[c][i]]
    BY <2>1 DEF IInv, Translations, WaysBack
  <2>3. Forget(c, i2e[c][i], i) /\ UNCHANGED <<call, issued>>
    BY <1>2 DEF Ends
  <2> HIDE DEF c
  <2>4. QED BY <1>1, <2>1, <2>2, <2>3, ForgetKeeps
<1>3. CASE ~Translated(i)
  BY <1>1, <1>3, MapsKept DEF Ends
<1>4. QED BY <1>2, <1>3

LEMMA CleanupKeeps ==
  ASSUME IInv, NEW c \in Clients, Cleanup(c)
  PROVE  IInv'
<1> USE DEF IInv, MapTypes
<1>1. /\ e2i' = [d \in Clients |-> e2i'[d]] /\ i2e' = [d \in Clients |-> i2e'[d]]
      /\ e2i'[c] = Empty /\ i2e'[c] = Empty
      /\ \A d \in Clients \ {c} : /\ e2i'[d] = e2i[d] /\ i2e'[d] = i2e[d]
                                  /\ call'[d] = call[d]
      /\ call' \in [Clients -> [Externals -> Nat]]
  BY DEF Cleanup
<1>2. DOMAIN Empty = {}
  BY DEF Empty
<1>3. issued' = issued /\ \A j \in DOMAIN execs' : execs'[j] \in Clients \cup {None}
  BY DEF Cleanup
<1>4. ASSUME NEW d \in Clients PROVE (WaysIn(d) /\ WaysBack(d))'
  <2>1. CASE d = c
    BY <1>1, <1>2, <2>1 DEF WaysIn, WaysBack
  <2>2. CASE d # c
    BY <1>1, <1>3, <2>2 DEF Translations, WaysIn, WaysBack
  <2>3. QED BY <2>1, <2>2
<1>5. InternalIdsAccounted'
  <2>1. /\ DOMAIN i2e'[c] = {} /\ \A d \in Clients \ {c} : DOMAIN i2e'[d] = DOMAIN i2e[d]
        /\ allocated' = allocated \ DOMAIN i2e[c]
    BY <1>1, <1>2 DEF Cleanup
  <2>2. \A d \in Clients \ {c} : DOMAIN i2e[d] \cap DOMAIN i2e[c] = {}
    BY DEF InternalIdsAccounted
  <2>3. \A d, k \in Clients : d # k => DOMAIN i2e'[d] \cap DOMAIN i2e'[k] = {}
    BY <2>1 DEF InternalIdsAccounted
  <2>4. \A x \in allocated' : \E d \in Clients : x \in DOMAIN i2e'[d]
    BY <2>1 DEF InternalIdsAccounted
  <2>5. \A d \in Clients : \A x \in DOMAIN i2e'[d] : x \in allocated'
    <3>1. SUFFICES ASSUME NEW d \in Clients, NEW x \in DOMAIN i2e'[d]
                   PROVE  x \in allocated'
      OBVIOUS
    <3>2. d # c /\ x \in DOMAIN i2e[d]
      BY <2>1
    <3>3. x \in allocated
      BY <3>2 DEF InternalIdsAccounted
    <3>4. QED BY <2>1, <2>2, <3>2, <3>3
  <2>6. allocated' = UNION {DOMAIN i2e'[d] : d \in Clients}
    BY <2>4, <2>5
  <2>7. QED BY <2>3, <2>6 DEF InternalIdsAccounted
<1>6. QED BY <1>1, <1>3, <1>4, <1>5 DEF Translations

LEMMA StepKeeps == IInv /\ [Next]_vars => IInv'
<1> SUFFICES ASSUME IInv, [Next]_vars PROVE IInv'
  OBVIOUS
<1>1. \A n \in DOMAIN execs : execs[n] \in Clients \cup {None}
  BY DEF IInv, MapTypes
<1>2. CASE UNCHANGED vars
  BY <1>1, <1>2, MapsKept DEF vars
<1>3. ASSUME NEW c \in Clients, NEW e \in Externals, NEW b \in BOOLEAN, Exec(c, e, b)
      PROVE  IInv'
  BY <1>3, ExecKeeps
<1>4. ASSUME NEW c \in Clients, NEW e \in Externals, ForwardRefused(c, e) PROVE IInv'
  <2>1. PICK i : i = e2i[c][e]
    OBVIOUS
  <2>2. e \in DOMAIN e2i[c] /\ Forget(c, e, i) /\ UNCHANGED <<call, issued, execs>>
    BY <1>4, <2>1 DEF ForwardRefused
  <2>3. QED BY <1>1, <2>1, <2>2, ForgetKeeps
<1>5. ASSUME NEW c \in Clients, Snapshot(c) \/ Disconnect(c) PROVE IInv'
  BY <1>1, <1>5, MapsKept DEF Snapshot, Disconnect
<1>6. ASSUME NEW c \in Clients, Cleanup(c) PROVE IInv'
  BY <1>6, CleanupKeeps
<1>7. ASSUME NEW i, Output(i) PROVE IInv'
  BY <1>1, <1>7, MapsKept DEF Output
<1>8. ASSUME NEW i, Ends(i) PROVE IInv'
  BY <1>8, EndsKeeps
<1>9. CASE CloseVm
  <2>1. \A j \in DOMAIN execs' : execs'[j] \in Clients \cup {None}
    BY <1>9 DEF CloseVm, Empty
  <2>2. QED BY <1>9, <2>1, MapsKept DEF CloseVm
<1>10. QED BY <1>2, <1>3, <1>4, <1>5, <1>6, <1>7, <1>8, <1>9 DEF Next

-----------------------------------------------------------------------------
(* The theorems. *)

\* The id maps of a client are inverse to each other, and allocatedInternalIds is
\* exactly the internal ids in them, each in one client's (session-registry.ts,
\* allocateInternalId, forgetRequest and the cleanup of a connection).
THEOREM Invariance == Spec => []IInv
BY InitHolds, StepKeeps, PTL DEF Spec

\* Output, answers and errors that a client hears under one of its request ids
\* are of the exec it last started with that id (LocalSandboxClient's messages in
\* SessionIpcServer).
THEOREM FramesReachTheirCallAlways == Spec => FramesReachTheirCall
<1> DEFINE Reached == heard' # heard /\ heard'.kind \in {"output", "response", "error"}
                        => call[heard'.client][heard'.external] = heard'.exec
<1>1. IInv /\ [Next]_vars => [Reached]_vars
  <2> SUFFICES ASSUME IInv, Next PROVE Reached
    OBVIOUS
  <2>1. ASSUME NEW c \in Clients, NEW e, NEW i, NEW kind,
               Deliver(c, e, i, kind), call[c][e] = i
        PROVE  Reached
    BY <2>1 DEF Deliver
  <2>2. ASSUME NEW c, NEW e, NEW b \in BOOLEAN, Exec(c, e, b) PROVE Reached
    BY <2>2 DEF Exec, Deliver
  <2>3. ASSUME NEW c \in Clients, NEW e \in Externals, ForwardRefused(c, e) PROVE Reached
    <3>1. e \in DOMAIN e2i[c] /\ Deliver(c, e, e2i[c][e], "error")
      BY <2>3 DEF ForwardRefused
    <3>2. call[c][e] = e2i[c][e]
      BY <3>1 DEF IInv, Translations, WaysIn
    <3>3. QED BY <2>1, <3>1, <3>2
  <2>4. ASSUME NEW i, Running(i), Translated(i)
        PROVE  /\ execs[i] \in Clients
               /\ call[execs[i]][i2e[execs[i]][i]] = i
    <3>1. execs[i] \in Clients /\ i \in DOMAIN i2e[execs[i]]
      BY <2>4 DEF Running, Translated, IInv, MapTypes
    <3>2. QED BY <3>1 DEF IInv, Translations, WaysIn, WaysBack
  <2>5. ASSUME NEW i, Output(i) PROVE Reached
    <3>1. Deliver(execs[i], i2e[execs[i]][i], i, "output") /\ Running(i) /\ Translated(i)
      BY <2>5 DEF Output
    <3>2. QED BY <2>1, <2>4, <3>1
  <2>6. ASSUME NEW i, Ends(i) PROVE Reached
    <3>1. CASE Translated(i)
      <4>1. Deliver(execs[i], i2e[execs[i]][i], i, "response") /\ Running(i)
        BY <2>6, <3>1 DEF Ends
      <4>2. QED BY <2>1, <2>4, <3>1, <4>1
    <3>2. CASE ~Translated(i)
      BY <2>6, <3>2 DEF Ends
    <3>3. QED BY <3>1, <3>2
  <2>7. CASE CloseVm
    BY <2>7 DEF CloseVm
  <2>8. ASSUME NEW c, Snapshot(c) \/ Disconnect(c) \/ Cleanup(c) PROVE Reached
    BY <2>8 DEF Snapshot, Disconnect, Cleanup
  <2>9. QED BY <2>2, <2>3, <2>5, <2>6, <2>7, <2>8 DEF Next
<1>2. QED BY <1>1, Invariance, PTL DEF Spec, FramesReachTheirCall

-----------------------------------------------------------------------------
(* The registry: what a collection may take for stale. *)

Collection == [pc : {"off", "look", "remove"}, json : SUBSET VMs, socks : SUBSET VMs,
               todo : SUBSET VMs, known : SUBSET VMs, stale : SUBSET VMs, dead : SUBSET VMs]

RegistryTypeOK ==
  /\ vm \in [VMs -> {"off", "starting", "registered", "up", "closing", "crashed"}]
  /\ gc \in [VMs -> Collection]
  /\ meta \subseteq VMs /\ sock \subseteq VMs

\* The files of a session that no collection has looked at when it was not
\* complete: the socket is there only with the metadata.
FilesInOrder(v) ==
  /\ v \in sock => v \in meta
  /\ vm[v] = "up" => v \in sock
  /\ vm[v] \in {"off", "starting", "registered", "closing"} => v \notin sock
  /\ vm[v] = "registered" => v \in meta

\* A collection does not remove such a session, nor will it: it was listed whole,
\* and was known when it had been looked at.
Spared(g, v) ==
  /\ gc[g].pc = "look" =>
       /\ v \notin gc[g].stale
       /\ v \in gc[g].socks => v \in gc[g].json
       /\ v \in gc[g].json /\ v \notin gc[g].todo /\ v \in gc[g].socks => v \in gc[g].known
  /\ gc[g].pc = "remove" => v \notin gc[g].todo

\* What is left of a process that had ended when a collection began is still to be
\* looked at, stale, an orphan of the listing, or still to be removed.
Hunted(g) ==
  /\ gc[g].pc # "off" => gc[g].dead \cap Processes = {}
  /\ gc[g].pc = "look" =>
       /\ gc[g].dead \cap (meta \cup sock) \subseteq gc[g].todo \cup gc[g].stale \cup (gc[g].socks \ gc[g].json)
       /\ gc[g].known \cup gc[g].todo \subseteq gc[g].json
  /\ gc[g].pc = "remove" => gc[g].dead \cap (meta \cup sock) \subseteq gc[g].todo

\* The inductive invariant of the registry.
RegistryInv ==
  /\ RegistryTypeOK /\ \A g \in VMs : Hunted(g)
  /\ \A v \in VMs \ exposed : FilesInOrder(v) /\ \A g \in VMs : Spared(g, v)

LEMMA RegistryInitHolds == RegistryInit => RegistryInv
<1> SUFFICES ASSUME RegistryInit PROVE RegistryInv
  OBVIOUS
<1>1. NoGc \in Collection /\ NoGc.pc = "off"
  BY DEF NoGc, Collection
<1>2. RegistryTypeOK
  BY <1>1 DEF RegistryInit, RegistryTypeOK
<1>3. ASSUME NEW v \in VMs PROVE Hunted(v) /\ FilesInOrder(v) /\ \A g \in VMs : Spared(g, v)
  BY <1>1 DEF RegistryInit, FilesInOrder, Spared, Hunted
<1>4. QED BY <1>2, <1>3 DEF RegistryInv

\* Start: a socket that is listed has its metadata listed.
LEMMA StartKeeps ==
  ASSUME RegistryInv, NEW h \in VMs, Start(h)
  PROVE  RegistryInv'
<1> DEFINE new == [NoGc EXCEPT !.pc = "look", !.json = meta, !.socks = sock, !.todo = meta,
                               !.dead = VMs \ Processes]
<1>1. /\ new \in Collection /\ new.pc = "look" /\ new.json = meta /\ new.socks = sock
      /\ new.todo = meta /\ new.stale = {} /\ new.known = {} /\ new.dead = VMs \ Processes
  BY DEF NoGc, Collection, RegistryInv, RegistryTypeOK
<1>2. gc' = [gc EXCEPT ![h] = new] /\ vm' = [vm EXCEPT ![h] = "starting"] /\ vm[h] = "off"
      /\ UNCHANGED <<meta, sock, exposed>>
  BY DEF Start
<1> HIDE DEF new
<1>3. RegistryTypeOK'
  BY <1>1, <1>2 DEF RegistryInv, RegistryTypeOK
<1>4. ASSUME NEW v \in VMs \ exposed, NEW g \in VMs PROVE FilesInOrder(v)' /\ Spared(g, v)'
  <2>1. FilesInOrder(v) /\ Spared(g, v)
    BY <1>4 DEF RegistryInv
  <2>2. FilesInOrder(v)'
    BY <1>2, <2>1 DEF FilesInOrder, RegistryInv, RegistryTypeOK
  <2>3. Spared(g, v)'
    BY <1>1, <1>2, <2>1 DEF Spared, FilesInOrder, RegistryInv, RegistryTypeOK
  <2>4. QED BY <2>2, <2>3
<1>6. ASSUME NEW g \in VMs PROVE Hunted(g)'
  <2>1. Hunted(g) /\ Processes' = Processes
    BY <1>2 DEF RegistryInv, RegistryTypeOK, Processes
  <2>2. g # h => gc'[g] = gc[g]
    BY <1>2 DEF RegistryInv, RegistryTypeOK
  <2>3. gc'[h] = new
    BY <1>2 DEF RegistryInv, RegistryTypeOK
  <2>4. QED BY <1>1, <1>2, <2>1, <2>2, <2>3 DEF Hunted
<1>5. QED BY <1>2, <1>3, <1>4, <1>6 DEF RegistryInv

\* Look: only a session that is exposed by it, or was before, is found stale.
LEMMA LookKeeps ==
  ASSUME RegistryInv, NEW h \in VMs, NEW w \in VMs, Look(h, w)
  PROVE  RegistryInv'
<1>7. PICK late \in BOOLEAN :
         /\ gc' = [gc EXCEPT ![h].todo = @ \ {w},
                             ![h].known = IF w \in meta THEN @ \cup {w} ELSE @,
                             ![h].stale = IF late \/ Stale(w) THEN @ \cup {w} ELSE @]
         /\ exposed' = IF late \/ vm[w] # "up" THEN exposed \cup {w} ELSE exposed
  BY DEF Look, RegistryInv, RegistryTypeOK
<1> DEFINE new == [gc[h] EXCEPT !.todo = @ \ {w},
                               !.known = IF w \in meta THEN @ \cup {w} ELSE @,
                               !.stale = IF late \/ Stale(w) THEN @ \cup {w} ELSE @]
<1>1. gc[h] \in Collection
  BY DEF RegistryInv, RegistryTypeOK
<1>2. /\ new \in Collection /\ new.pc = gc[h].pc /\ new.json = gc[h].json /\ new.socks = gc[h].socks
      /\ new.todo = gc[h].todo \ {w}
      /\ new.known = IF w \in meta THEN gc[h].known \cup {w} ELSE gc[h].known
      /\ new.stale = (IF late \/ Stale(w) THEN gc[h].stale \cup {w} ELSE gc[h].stale)
      /\ new.dead = gc[h].dead
  BY <1>1 DEF Collection
<1>3. /\ gc' = [gc EXCEPT ![h] = new] /\ gc[h].pc = "look" /\ w \in gc[h].todo
      /\ exposed' = IF late \/ vm[w] # "up" THEN exposed \cup {w} ELSE exposed
      /\ UNCHANGED <<vm, meta, sock>>
  BY <1>7 DEF Look
<1> HIDE DEF new
<1>4. RegistryTypeOK'
  BY <1>2, <1>3 DEF RegistryInv, RegistryTypeOK
<1>5. ASSUME NEW v \in VMs \ exposed', NEW g \in VMs PROVE FilesInOrder(v)' /\ Spared(g, v)'
  <2>1. v \notin exposed /\ FilesInOrder(v) /\ Spared(g, v)
    BY <1>3 DEF RegistryInv
  <2>2. FilesInOrder(v)'
    BY <1>3, <2>1 DEF FilesInOrder
  <2>3. v = w => v \in meta /\ ~Stale(w) /\ ~late
    BY <1>3, <2>1 DEF FilesInOrder, Stale, SocketAlive, Processes
  <2>4. Spared(g, v)'
    BY <1>2, <1>3, <2>1, <2>3 DEF Spared, RegistryInv, RegistryTypeOK
  <2>5. QED BY <2>2, <2>4
<1>8. ASSUME NEW g \in VMs PROVE Hunted(g)'
  <2>1. Hunted(g) /\ Hunted(h) /\ Processes' = Processes
    BY <1>3 DEF RegistryInv, Processes
  <2>2. g # h => gc'[g] = gc[g]
    BY <1>3 DEF RegistryInv, RegistryTypeOK
  <2>3. gc'[h] = new
    BY <1>3 DEF RegistryInv, RegistryTypeOK
  <2>4. w \in gc[h].dead => Stale(w)
    BY <1>3, <2>1 DEF Hunted, Stale
  <2>5. Hunted(h)'
    BY <1>2, <1>3, <2>1, <2>3, <2>4 DEF Hunted
  <2>6. QED BY <1>3, <2>1, <2>2, <2>5 DEF Hunted
<1>6. QED BY <1>4, <1>5, <1>8 DEF RegistryInv

\* Sweep: a socket of the listing without known metadata was not that of a
\* complete session.
LEMMA SweepKeeps ==
  ASSUME RegistryInv, NEW h \in VMs, Sweep(h)
  PROVE  RegistryInv'
<1> DEFINE left == gc[h].stale \cup Orphans(h)
           new  == [gc[h] EXCEPT !.pc = "remove", !.todo = left]
<1>1. gc[h] \in Collection
  BY DEF RegistryInv, RegistryTypeOK
<1>2. new \in Collection /\ new.pc = "remove" /\ new.todo = left /\ new.dead = gc[h].dead
  BY <1>1 DEF Collection, Orphans
<1>3. /\ gc' = [gc EXCEPT ![h] = new] /\ gc[h].pc = "look" /\ gc[h].todo = {}
      /\ exposed \subseteq exposed' /\ UNCHANGED <<vm, meta, sock>>
  BY DEF Sweep
<1>4. ASSUME NEW v \in VMs, v \notin exposed PROVE v \notin left
  BY <1>3, <1>4 DEF Orphans, RegistryInv, Spared
<1>8. gc[h].dead \cap (meta \cup sock) \subseteq left
  BY <1>3 DEF Orphans, RegistryInv, Hunted
<1> HIDE DEF new, left
<1>5. RegistryTypeOK'
  BY <1>2, <1>3 DEF RegistryInv, RegistryTypeOK
<1>6. ASSUME NEW v \in VMs \ exposed', NEW g \in VMs PROVE FilesInOrder(v)' /\ Spared(g, v)'
  <2>1. v \notin exposed /\ FilesInOrder(v) /\ Spared(g, v)
    BY <1>3 DEF RegistryInv
  <2>2. FilesInOrder(v)'
    BY <1>3, <2>1 DEF FilesInOrder
  <2>3. Spared(g, v)'
    BY <1>2, <1>3, <1>4, <2>1 DEF Spared, RegistryInv, RegistryTypeOK
  <2>4. QED BY <2>2, <2>3
<1>9. ASSUME NEW g \in VMs PROVE Hunted(g)'
  <2>1. Hunted(g) /\ Hunted(h) /\ Processes' = Processes
    BY <1>3 DEF RegistryInv, Processes
  <2>2. g # h => gc'[g] = gc[g]
    BY <1>3 DEF RegistryInv, RegistryTypeOK
  <2>3. gc'[h] = new
    BY <1>3 DEF RegistryInv, RegistryTypeOK
  <2>4. QED BY <1>2, <1>3, <1>8, <2>1, <2>2, <2>3 DEF Hunted
<1>7. QED BY <1>5, <1>6, <1>9 DEF RegistryInv

\* What is removed was exposed.
LEMMA RemoveKeeps ==
  ASSUME RegistryInv, NEW h \in VMs, NEW w \in VMs, RemoveStale(h, w)
  PROVE  RegistryInv'
<1> DEFINE new == [gc[h] EXCEPT !.todo = @ \ {w}]
<1>1. gc[h] \in Collection
  BY DEF RegistryInv, RegistryTypeOK
<1>2. new \in Collection /\ new.pc = gc[h].pc /\ new.todo = gc[h].todo \ {w} /\ new.dead = gc[h].dead
  BY <1>1 DEF Collection
<1>3. /\ gc[h].pc = "remove" /\ w \in gc[h].todo /\ UNCHANGED <<vm, exposed>>
      /\ gc' = gc \/ (gc' = [gc EXCEPT ![h] = new] /\ w \notin meta' \cup sock')
      /\ meta' \subseteq meta /\ meta \subseteq meta' \cup {w}
      /\ sock' \subseteq sock /\ sock \subseteq sock' \cup {w}
  BY DEF RemoveStale
<1>4. w \in exposed
  BY <1>3 DEF RegistryInv, Spared
<1> HIDE DEF new
<1>5. RegistryTypeOK'
  BY <1>2, <1>3 DEF RegistryInv, RegistryTypeOK
<1>6. ASSUME NEW v \in VMs \ exposed', NEW g \in VMs PROVE FilesInOrder(v)' /\ Spared(g, v)'
  <2>1. v \notin exposed /\ v # w /\ FilesInOrder(v) /\ Spared(g, v)
    BY <1>3, <1>4 DEF RegistryInv
  <2>2. FilesInOrder(v)'
    BY <1>3, <2>1 DEF FilesInOrder
  <2>3. Spared(g, v)'
    BY <1>2, <1>3, <2>1 DEF Spared, RegistryInv, RegistryTypeOK
  <2>4. QED BY <2>2, <2>3
<1>8. ASSUME NEW g \in VMs PROVE Hunted(g)'
  <2>1. Hunted(g) /\ Hunted(h) /\ Processes' = Processes
    BY <1>3 DEF RegistryInv, Processes
  <2>2. g # h => gc'[g] = gc[g]
    BY <1>3 DEF RegistryInv, RegistryTypeOK
  <2>3. gc'[h] = gc[h] \/ (gc'[h] = new /\ w \notin meta' \cup sock')
    BY <1>3 DEF RegistryInv, RegistryTypeOK
  <2>4. QED BY <1>2, <1>3, <2>1, <2>2, <2>3 DEF Hunted
<1>7. QED BY <1>3, <1>5, <1>6, <1>8 DEF RegistryInv

\* The session of a VM: its socket comes after its metadata and goes before.
LEMMA SessionKeeps ==
  ASSUME RegistryInv, NEW w \in VMs,
         Register(w) \/ Listen(w) \/ CloseIpc(w) \/ Unregister(w) \/ Crash(w)
  PROVE  RegistryInv'
<1>1. NoGc \in Collection /\ NoGc.pc = "off"
  BY DEF NoGc, Collection
<1>2. RegistryTypeOK' /\ exposed' = exposed
  BY <1>1 DEF RegistryInv, RegistryTypeOK, Register, Listen, CloseIpc, Unregister, Crash
<1>3. gc' = gc \/ gc' = [gc EXCEPT ![w] = NoGc]
  BY DEF Register, Listen, CloseIpc, Unregister, Crash
<1>4. ASSUME NEW v \in VMs \ exposed, NEW g \in VMs PROVE FilesInOrder(v)' /\ Spared(g, v)'
  <2>1. FilesInOrder(v) /\ Spared(g, v)
    BY DEF RegistryInv
  <2>2. FilesInOrder(v)'
    BY <2>1 DEF FilesInOrder, RegistryInv, RegistryTypeOK, Register, Listen, CloseIpc, Unregister, Crash
  <2>3. Spared(g, v)'
    BY <1>1, <1>3, <2>1 DEF Spared, RegistryInv, RegistryTypeOK
  <2>4. QED BY <2>2, <2>3
<1>6. ASSUME NEW g \in VMs PROVE Hunted(g)'
  <2>1. Hunted(g)
    BY DEF RegistryInv
  <2>2. gc'[g] = gc[g] \/ gc'[g] = NoGc
    BY <1>3 DEF RegistryInv, RegistryTypeOK
  <2>3. Processes' \subseteq Processes
    BY DEF Processes, RegistryInv, RegistryTypeOK, Register, Listen, CloseIpc, Unregister, Crash
  <2>4. meta' \cup sock' \subseteq meta \cup sock \cup {w} /\ (meta' \cup sock' # meta \cup sock => w \in Processes \/ meta' \cup sock' \subseteq meta \cup sock)
    BY DEF Processes, RegistryInv, RegistryTypeOK, Register, Listen, CloseIpc, Unregister, Crash
  <2>5. QED BY <1>1, <2>1, <2>2, <2>3, <2>4 DEF Hunted
<1>5. QED BY <1>2, <1>4, <1>6 DEF RegistryInv

LEMMA RegistryStep == RegistryInv /\ [RegistryNext]_registryVars => RegistryInv'
<1> SUFFICES ASSUME RegistryInv, [RegistryNext]_registryVars PROVE RegistryInv'
  OBVIOUS
<1>1. CASE UNCHANGED registryVars
  BY <1>1 DEF registryVars, RegistryInv, RegistryTypeOK, FilesInOrder, Spared, Hunted, Processes
<1>2. CASE RegistryNext
  BY <1>2, StartKeeps, LookKeeps, SweepKeeps, RemoveKeeps, SessionKeeps DEF RegistryNext
<1>3. QED BY <1>1, <1>2

\* A session whose socket listened and answered in time whenever a collection looked
\* at it keeps its files, and a collection leaves nothing of a process that had ended
\* when it began, for any number of processes, collections, crashes and closes
\* (gcSessions of session-registry.ts).
THEOREM CollectionsExactAlways == RegistrySpec => []CollectionsExact
<1>1. RegistryInv => CollectionsExact
  BY DEF RegistryInv, FilesInOrder, Hunted, CollectionsExact, SettledSessionsStay, DeadAreCollected, Discoverable
<1>2. QED BY RegistryInitHolds, RegistryStep, <1>1, PTL DEF RegistrySpec
-----------------------------------------------------------------------------
(* The pinned directories: who holds which descriptor, and what is beneath    *)
(* the private roots.                                                        *)

Inodes      == Folders \cup Regular \cup {Symlink, Nobody}
Pin         == [fd : 1..MaxFds, ino : Inodes \ {Nobody}, closed : BOOLEAN]
Handle      == [root : RootKinds, id : Nat, fd : 1..MaxFds, ino : Regular, writes : BOOLEAN]
NameCall    == [op : NameOps, kind : RootKinds, path : TreePaths, to : TreePaths, fd : 0..MaxFds]

TreeTypeOK ==
  /\ entries \in [Folders -> [EntryNames -> Inodes]]
  /\ hostAt \in [RootKinds -> Folders \cup {Nobody}]
  /\ fds \in [1..MaxFds -> [ino : Inodes, by : {"session", "other", Nobody}]]
  /\ session \in {"none", "pinning", "open", "refused", "disposed"}
  /\ pinned \in Seq(Pin) /\ Len(pinned) <= 3
  /\ handles \subseteq Handle
  /\ nextId \in [RootKinds -> Nat]
  /\ treeCall \in NameCall \cup {NoCall}

\* What the session holds when: roots that are not closed until it ends, and
\* nothing else before it is open and after it.
Course ==
  /\ session = "none" => pinned = <<>>
  /\ session = "pinning" => Len(pinned) < 3
  /\ session \in {"none", "pinning", "open"} => \A i \in DOMAIN pinned : ~pinned[i].closed
  /\ session \in {"refused", "disposed"} => \A i \in DOMAIN pinned : pinned[i].closed
  /\ session # "open" => handles = {} /\ treeCall = NoCall

\* What is beneath the private roots has been reached, and so has the object of
\* every handle and call that may change anything.
Private ==
  /\ PrivateNow(entries, pinned) \subseteq reached
  /\ \A h \in handles : h.root # "repository" => h.ino \in reached
  /\ treeCall # NoCall => /\ treeCall.kind # "repository"
                          /\ treeCall.fd # 0 => fds[treeCall.fd].ino \in Folders \cap reached

Held == PinnedFds \cup HandleFds \cup CallFds

\* The descriptors, as LiveRootsKept has them.
Descriptors ==
  /\ \A n \in 1..MaxFds : fds[n].ino = Nobody <=> fds[n].by = Nobody
  /\ {n \in 1..MaxFds : fds[n].by = "session"} = Held
  /\ PinnedFds \cap HandleFds = {} /\ (PinnedFds \cup HandleFds) \cap CallFds = {}
  /\ \A g, h \in handles : g.fd = h.fd => g = h
  /\ \A h \in handles : fds[h.fd].ino = h.ino /\ h.id < nextId[h.root]
  /\ \A i \in DOMAIN pinned : ~pinned[i].closed => VerifyIdentity(pinned[i])

RootsApart ==
  session = "open" => Len(pinned) = 3 /\ \A i, j \in 1..3 : i # j => pinned[i].ino # pinned[j].ino

\* The inductive invariant of a session.
TreeInv ==
  TreeTypeOK /\ Course /\ Private /\ Descriptors /\ RootsApart /\ changed \subseteq reached

LEMMA TreeInvImplies == TreeInv => LiveRootsKept
<1> SUFFICES ASSUME TreeInv PROVE LiveRootsKept
  OBVIOUS
<1>1. session \in {"refused", "disposed"} => Held = {}
  BY DEF TreeInv, Course, Held, PinnedFds, HandleFds, CallFds, NoCall
<1>2. QED BY <1>1 DEF TreeInv, Descriptors, Held, RootsApart, LiveRootsKept

LEMMA TreeInitHolds == TreeInit => TreeInv
<1> SUFFICES ASSUME TreeInit PROVE TreeInv
  OBVIOUS
<1>1. entries \in [Folders -> [EntryNames -> Inodes]]
  BY DEF TreeInit, Folders, EntryNames, Inodes, Regular, Nobody
<1>2. /\ hostAt \in [RootKinds -> Folders \cup {Nobody}]
      /\ fds = [n \in 1..MaxFds |-> FreeFd]
      /\ session = "none" /\ pinned = <<>> /\ handles = {} /\ treeCall = NoCall /\ changed = {}
      /\ nextId \in [RootKinds -> Nat]
  BY DEF TreeInit, RootKinds, Folders
<1>3. TreeTypeOK
  BY <1>1, <1>2 DEF TreeTypeOK, FreeFd, Inodes
<1>4. Course /\ RootsApart
  BY <1>2 DEF Course, RootsApart
<1>5. PrivateNow(entries, pinned) = {}
  BY <1>2 DEF PrivateNow
<1>6. Private
  BY <1>2, <1>5 DEF Private
<1>7. Held = {}
  BY <1>2 DEF Held, PinnedFds, HandleFds, CallFds, NoCall
<1>8. Descriptors
  <2>1. \A n \in 1..MaxFds : fds[n] = FreeFd
    BY <1>2
  <2>2. \A n \in 1..MaxFds : fds[n].ino = Nobody /\ fds[n].by = Nobody
    BY <2>1 DEF FreeFd
  <2>3. QED BY <1>2, <1>7, <2>2 DEF Descriptors, Held, Nobody
<1>9. QED BY <1>2, <1>3, <1>4, <1>6, <1>8 DEF TreeInv

\* What a path names is an entry of a directory beneath the one it starts from.
LEMMA ResolvedUnder ==
  ASSUME NEW d, NEW path
  PROVE  /\ DirectoryOf(d, path) \in Under(entries, d) \cup {Nobody}
         /\ Resolve(d, path) \in Under(entries, d) \cup {Nobody}
<1>1. ASSUME NEW f, NEW name PROVE Component(f, name) \in EntriesOf(entries, f) \cup {Nobody}
  BY DEF Component, EntriesOf
<1>2. DirectoryOf(d, path) \in {d, Nobody} \cup EntriesOf(entries, d)
  BY <1>1 DEF DirectoryOf
<1>3. Nobody \notin Folders
  BY DEF Nobody, Folders
<1>4. Resolve(d, path) \in EntriesOf(entries, DirectoryOf(d, path)) \cup {Nobody}
  BY <1>1 DEF Resolve
<1>5. EntriesOf(entries, Nobody) = {}
  BY <1>3 DEF EntriesOf
<1>6. QED BY <1>2, <1>4, <1>5 DEF Under

\* A path beneath a private root names something that has been reached.
LEMMA BeneathReached ==
  ASSUME TreeInv, session = "open", NEW kind \in RootKinds, kind # "repository", NEW path
  PROVE  /\ Holding(kind, path) \in reached \cup {Nobody}
         /\ Beneath(kind, path) \in reached \cup {Nobody}
<1> DEFINE i == RootIndex[kind]
<1>1. i \in {2, 3} /\ RootIndex["repository"] = 1
  BY DEF RootKinds, RootIndex
<1>2. Len(pinned) = 3 /\ pinned \in Seq(Pin)
  BY DEF TreeInv, RootsApart, TreeTypeOK
<1>3. i \in DOMAIN pinned
  BY <1>1, <1>2
<1>4. fds[RootOf(kind).fd].ino = pinned[i].ino
  BY <1>3 DEF TreeInv, Course, Descriptors, VerifyIdentity, RootOf
<1>5. Under(entries, pinned[i].ino) \subseteq PrivateNow(entries, pinned)
  BY <1>1, <1>3 DEF PrivateNow
<1>6. Under(entries, pinned[i].ino) \subseteq reached
  BY <1>5 DEF TreeInv, Private
<1> HIDE DEF i
<1>7. QED BY <1>4, <1>6, ResolvedUnder DEF Holding, Beneath

\* What leaves the descriptors and their holders alone.
LEMMA DescriptorsKept ==
  ASSUME TreeInv, UNCHANGED <<fds, pinned, handles>>,
         treeCall' = treeCall \/ (treeCall = NoCall /\ treeCall'.fd = 0),
         nextId' \in [RootKinds -> Nat], \A k \in RootKinds : nextId[k] <= nextId'[k]
  PROVE  Descriptors'
<1>1. CallFds' = CallFds /\ PinnedFds' = PinnedFds /\ HandleFds' = HandleFds
  BY DEF CallFds, PinnedFds, HandleFds, NoCall
<1>2. \A h \in handles : h.id \in Nat /\ h.root \in RootKinds /\ nextId[h.root] \in Nat
  BY DEF TreeInv, TreeTypeOK, Handle
<1>3. \A h \in handles : h.id < nextId'[h.root]
  BY <1>2 DEF TreeInv, Descriptors
<1>4. QED BY <1>1, <1>3 DEF TreeInv, Descriptors, Held, VerifyIdentity

\* A new descriptor is nobody's.
LEMMA NewFd ==
  ASSUME TreeInv, NEW n \in 1..MaxFds, IsNewFd(n)
  PROVE  n \notin Held /\ fds[n].by = Nobody
BY DEF TreeInv, Descriptors, IsNewFd, Nobody

\* Opened and Closing leave the other numbers alone.
LEMMA OpenedFds ==
  ASSUME TreeInv, NEW n \in 1..MaxFds, NEW i \in Inodes \ {Nobody}, NEW who \in {"session", "other"},
         fds' = Opened(n, i, who)
  PROVE  /\ fds' \in [1..MaxFds -> [ino : Inodes, by : {"session", "other", Nobody}]]
         /\ fds'[n].ino = i /\ fds'[n].by = who
         /\ \A m \in 1..MaxFds : m # n => fds'[m] = fds[m]
         /\ \A m \in 1..MaxFds : fds'[m].ino = Nobody <=> fds'[m].by = Nobody
<1> DEFINE new == [ino |-> i, by |-> who]
<1>1. new \in [ino : Inodes, by : {"session", "other", Nobody}] /\ new.ino = i /\ new.by = who
  OBVIOUS
<1>2. fds' = [fds EXCEPT ![n] = new]
  BY DEF Opened
<1> HIDE DEF new
<1>3. fds \in [1..MaxFds -> [ino : Inodes, by : {"session", "other", Nobody}]]
  BY DEF TreeInv, TreeTypeOK
<1>4. \A m \in 1..MaxFds : fds'[m] = IF m = n THEN new ELSE fds[m]
  BY <1>2, <1>3
<1>5. fds' \in [1..MaxFds -> [ino : Inodes, by : {"session", "other", Nobody}]]
  BY <1>1, <1>2, <1>3
<1>6. \A m \in 1..MaxFds : fds'[m].ino = Nobody <=> fds'[m].by = Nobody
  BY <1>1, <1>4 DEF TreeInv, Descriptors, Nobody
<1>7. QED BY <1>1, <1>4, <1>5, <1>6

LEMMA ClosedFds ==
  ASSUME TreeInv, NEW numbers, fds' = Closing(numbers)
  PROVE  /\ fds' \in [1..MaxFds -> [ino : Inodes, by : {"session", "other", Nobody}]]
         /\ \A m \in 1..MaxFds : m \in numbers => fds'[m].ino = Nobody /\ fds'[m].by = Nobody
         /\ \A m \in 1..MaxFds : m \notin numbers => fds'[m] = fds[m]
         /\ \A m \in 1..MaxFds : fds'[m].ino = Nobody <=> fds'[m].by = Nobody
<1>1. FreeFd \in [ino : Inodes, by : {"session", "other", Nobody}] /\ FreeFd.ino = Nobody /\ FreeFd.by = Nobody
  BY DEF FreeFd, Inodes
<1>2. fds \in [1..MaxFds -> [ino : Inodes, by : {"session", "other", Nobody}]]
  BY DEF TreeInv, TreeTypeOK
<1>3. \A m \in 1..MaxFds : fds'[m] = IF m \in numbers THEN FreeFd ELSE fds[m]
  BY DEF Closing
<1>4. fds' \in [1..MaxFds -> [ino : Inodes, by : {"session", "other", Nobody}]]
  BY <1>1, <1>2 DEF Closing
<1>5. \A m \in 1..MaxFds : fds'[m].ino = Nobody <=> fds'[m].by = Nobody
  BY <1>1, <1>3 DEF TreeInv, Descriptors
<1>6. QED BY <1>1, <1>3, <1>4, <1>5

\* What is held is a number of a descriptor of the session.
LEMMA HeldFds ==
  ASSUME TreeInv
  PROVE  Held \subseteq 1..MaxFds /\ \A n \in Held : fds[n].by = "session"
BY DEF TreeInv, Descriptors

-----------------------------------------------------------------------------
(* The actions of the session.                                               *)

LEMMA CreateKeeps ==
  ASSUME TreeInv, NEW form \in Forms, CreateSession(form)
  PROVE  TreeInv'
<1>1. /\ session = "none" /\ session' \in {"pinning", "refused"}
      /\ UNCHANGED <<entries, hostAt, fds, pinned, handles, nextId, treeCall, changed, reached>>
  BY DEF CreateSession
<1>2. pinned = <<>>
  BY <1>1 DEF TreeInv, Course
<1>3. TreeTypeOK' /\ Private' /\ RootsApart'
  BY <1>1 DEF TreeInv, TreeTypeOK, Private, RootsApart
<1>4. Course'
  BY <1>1, <1>2 DEF TreeInv, Course
<1>5. Descriptors'
  BY <1>1, DescriptorsKept DEF TreeInv, TreeTypeOK
<1>6. QED BY <1>1, <1>3, <1>4, <1>5 DEF TreeInv

LEMMA PinKeeps ==
  ASSUME TreeInv, PinRoot
  PROVE  TreeInv'
<1>1. /\ session = "pinning" /\ handles = {} /\ treeCall = NoCall
      /\ UNCHANGED <<entries, hostAt, handles, nextId, treeCall, changed>> /\ Reaching
  BY DEF PinRoot, TreeInv, Course
<1>2. PICK n \in 1..MaxFds, k \in RootKinds :
        /\ hostAt[k] # Nobody /\ IsNewFd(n)
        /\ fds' = Opened(n, hostAt[k], "session")
        /\ pinned' = Append(pinned, [fd |-> n, ino |-> hostAt[k], closed |-> FALSE])
  <2>1. Len(pinned) \in Nat /\ Len(pinned) < 3
    BY <1>1 DEF TreeInv, Course, TreeTypeOK
  <2>2. /\ RootIndex["repository"] = 1 /\ RootIndex["cache"] = 2 /\ RootIndex["temp"] = 3
        /\ "repository" \in RootKinds /\ "cache" \in RootKinds /\ "temp" \in RootKinds
    BY DEF RootKinds, RootIndex
  <2>3. Len(pinned) + 1 = 1 \/ Len(pinned) + 1 = 2 \/ Len(pinned) + 1 = 3
    BY <2>1
  <2>4. \E k \in RootKinds : RootIndex[k] = Len(pinned) + 1
    BY <2>2, <2>3
  <2>5. (CHOOSE k \in RootKinds : RootIndex[k] = Len(pinned) + 1) \in RootKinds
    BY <2>4
  <2>6. QED BY <2>5 DEF PinRoot
<1> DEFINE new == [fd |-> n, ino |-> hostAt[k], closed |-> FALSE]
<1>3. hostAt[k] \in Folders /\ hostAt[k] \in Inodes \ {Nobody}
  BY <1>2 DEF TreeInv, TreeTypeOK, Inodes
<1>4. new \in Pin /\ new.fd = n /\ new.ino = hostAt[k] /\ new.closed = FALSE
  BY <1>3 DEF Pin
<1>5. pinned' = Append(pinned, new)
  BY <1>2
<1> HIDE DEF new
<1>6. pinned \in Seq(Pin) /\ Len(pinned) < 3 /\ \A i \in DOMAIN pinned : ~pinned[i].closed
  BY <1>1 DEF TreeInv, TreeTypeOK, Course
<1>7. /\ pinned' \in Seq(Pin) /\ Len(pinned') = Len(pinned) + 1
      /\ DOMAIN pinned' = DOMAIN pinned \cup {Len(pinned) + 1}
      /\ pinned'[Len(pinned) + 1] = new
      /\ \A i \in DOMAIN pinned : pinned'[i] = pinned[i]
  BY <1>4, <1>5, <1>6
<1>8. n \notin Held /\ fds[n].by = Nobody
  BY <1>2, NewFd
<1>9. /\ fds' \in [1..MaxFds -> [ino : Inodes, by : {"session", "other", Nobody}]]
      /\ fds'[n].ino = hostAt[k] /\ fds'[n].by = "session"
      /\ \A m \in 1..MaxFds : m # n => fds'[m] = fds[m]
      /\ \A m \in 1..MaxFds : fds'[m].ino = Nobody <=> fds'[m].by = Nobody
  BY <1>2, <1>3, OpenedFds
<1>10. session' \in {"pinning", "open"} /\ (session' = "pinning" => Len(pinned') < 3)
       /\ (session' = "open" => Len(pinned') = 3 /\ RootsDiffer(pinned'))
  BY <1>1 DEF PinRoot
<1>11. TreeTypeOK'
  BY <1>1, <1>6, <1>7, <1>9, <1>10 DEF TreeInv, TreeTypeOK
<1>12. \A i \in DOMAIN pinned' : ~pinned'[i].closed
  BY <1>4, <1>6, <1>7
<1>13. Course'
  BY <1>1, <1>10, <1>12 DEF Course
<1>14. RootsApart'
  BY <1>7, <1>10 DEF RootsApart, RootsDiffer
<1>15. Private'
  BY <1>1 DEF Private, Reaching
<1>16. PinnedFds' = PinnedFds \cup {n} /\ HandleFds' = HandleFds /\ CallFds' = CallFds
  <2>1. PinnedFds = {pinned[i].fd : i \in DOMAIN pinned} /\ PinnedFds' = {pinned'[i].fd : i \in DOMAIN pinned'}
    BY <1>6, <1>12 DEF PinnedFds
  <2>2. PinnedFds' = PinnedFds \cup {n}
    BY <2>1, <1>4, <1>7
  <2>3. QED BY <2>2, <1>1 DEF HandleFds, CallFds
<1>17. HandleFds = {} /\ CallFds = {}
  BY <1>1 DEF HandleFds, CallFds, NoCall
<1>18. {m \in 1..MaxFds : fds'[m].by = "session"} = Held'
  <2>1. Held' = Held \cup {n}
    BY <1>16 DEF Held
  <2>2. Held = {m \in 1..MaxFds : fds[m].by = "session"}
    BY DEF TreeInv, Descriptors
  <2>3. QED BY <1>9, <2>1, <2>2
<1>19. \A i \in DOMAIN pinned' : fds'[pinned'[i].fd].ino = pinned'[i].ino
  <2>1. ASSUME NEW i \in DOMAIN pinned PROVE pinned[i].fd \in Held /\ fds[pinned[i].fd].ino = pinned[i].ino
    BY <1>6 DEF TreeInv, Descriptors, VerifyIdentity, Held, PinnedFds
  <2>2. ASSUME NEW i \in DOMAIN pinned PROVE fds'[pinned[i].fd].ino = pinned[i].ino
    BY <1>8, <1>9, <2>1, HeldFds
  <2>3. fds'[new.fd].ino = new.ino
    BY <1>4, <1>9
  <2>4. QED BY <1>7, <2>2, <2>3
<1>20. Descriptors'
  <2>1. \A i \in DOMAIN pinned' : ~pinned'[i].closed => VerifyIdentity(pinned[i])'
    BY <1>19 DEF VerifyIdentity
  <2>2. QED BY <1>1, <1>9, <1>16, <1>17, <1>18, <2>1 DEF Descriptors
<1>21. QED BY <1>1, <1>11, <1>13, <1>14, <1>15, <1>20 DEF TreeInv, Reaching

\* A session that ends, refused or disposed of, closes what it holds.
LEMMA EndKeeps ==
  ASSUME TreeInv, RefuseRoots \/ DisposeSession
  PROVE  TreeInv'
<1>1. /\ session \in {"pinning", "open"} /\ session' \in {"refused", "disposed"}
      /\ treeCall = NoCall /\ treeCall' = NoCall /\ handles' = {}
      /\ UNCHANGED <<entries, hostAt, nextId, changed, reached>>
  BY DEF RefuseRoots, DisposeSession, TreeInv, Course
<1>2. pinned \in Seq(Pin) /\ Len(pinned) <= 3 /\ \A i \in DOMAIN pinned : pinned[i] \in Pin /\ ~pinned[i].closed
  BY <1>1 DEF TreeInv, TreeTypeOK, Course
<1>3. pinned' = [i \in DOMAIN pinned |-> [pinned[i] EXCEPT !.closed = TRUE]]
  <2>1. session = "open" => DOMAIN pinned = 1..3
    BY <1>2 DEF TreeInv, RootsApart
  <2>2. QED BY <2>1 DEF RefuseRoots, DisposeSession
<1>4. /\ pinned' \in Seq(Pin) /\ Len(pinned') = Len(pinned) /\ DOMAIN pinned' = DOMAIN pinned
      /\ \A i \in DOMAIN pinned : pinned'[i].closed = TRUE /\ pinned'[i].ino = pinned[i].ino
  <2>1. \A i \in DOMAIN pinned :
          /\ pinned'[i] = [fd |-> pinned[i].fd, ino |-> pinned[i].ino, closed |-> TRUE]
    BY <1>2, <1>3 DEF Pin
  <2>2. \A i \in DOMAIN pinned : pinned[i].fd \in 1..MaxFds /\ pinned[i].ino \in Inodes \ {Nobody}
    BY <1>2 DEF Pin
  <2>3. ASSUME NEW i \in DOMAIN pinned PROVE pinned'[i] \in Pin
    <3>1. \A f \in 1..MaxFds, o \in Inodes \ {Nobody} : [fd |-> f, ino |-> o, closed |-> TRUE] \in Pin
      BY DEF Pin
    <3>2. QED BY <2>1, <2>2, <3>1
  <2>4. DOMAIN pinned = 1..Len(pinned) /\ Len(pinned) \in Nat
    BY <1>2
  <2>5. pinned' \in [1..Len(pinned) -> Pin]
    BY <1>3, <2>3, <2>4
  <2>6. QED BY <2>1, <2>4, <2>5
<1>5. PICK numbers :
        fds' = Closing(numbers) /\ numbers = HandleFds \cup {pinned[i].fd : i \in DOMAIN pinned}
  <2>1. session = "pinning" => HandleFds = {}
    BY DEF TreeInv, Course, HandleFds
  <2>2. QED BY <2>1 DEF RefuseRoots, DisposeSession, HandleFds
<1>6. Held = numbers
  BY <1>1, <1>2, <1>5 DEF Held, PinnedFds, CallFds, NoCall
<1>7. /\ fds' \in [1..MaxFds -> [ino : Inodes, by : {"session", "other", Nobody}]]
      /\ \A m \in 1..MaxFds : m \in numbers => fds'[m].ino = Nobody /\ fds'[m].by = Nobody
      /\ \A m \in 1..MaxFds : m \notin numbers => fds'[m] = fds[m]
      /\ \A m \in 1..MaxFds : fds'[m].ino = Nobody <=> fds'[m].by = Nobody
  BY <1>5, ClosedFds
<1>8. PinnedFds' = {} /\ HandleFds' = {} /\ CallFds' = {}
  BY <1>1, <1>4 DEF PinnedFds, HandleFds, CallFds, NoCall
<1>9. {m \in 1..MaxFds : fds'[m].by = "session"} = {}
  <2>1. \A m \in 1..MaxFds : m \notin numbers => fds[m].by # "session"
    BY <1>6 DEF TreeInv, Descriptors
  <2>2. QED BY <1>7, <2>1 DEF Nobody
<1>10. Descriptors'
  BY <1>1, <1>4, <1>7, <1>8, <1>9 DEF Descriptors, Held
<1>11. TreeTypeOK' /\ Course' /\ RootsApart'
  BY <1>1, <1>2, <1>4, <1>7 DEF TreeInv, TreeTypeOK, Course, RootsApart
<1>12. PrivateNow(entries, pinned') = PrivateNow(entries, pinned)
  BY <1>4 DEF PrivateNow
<1>13. Private'
  BY <1>1, <1>12 DEF TreeInv, Private
<1>14. QED BY <1>1, <1>10, <1>11, <1>13 DEF TreeInv


\* A path ends in the name of an entry.
LEMMA PathNames == \A path \in TreePaths : path.name \in EntryNames
<1>1. \A m \in EntryNames : At(m).name = m /\ Inside("sub", m).name = m /\ Inside("f", m).name = m
  BY DEF At, Inside
<1>2. "f" \in EntryNames /\ "sub\\f" \in EntryNames
  BY Zenon DEF EntryNames
<1>3. ASSUME NEW path \in TreePaths PROVE path.name \in EntryNames
  <2>1. path = At("f") \/ path = Inside("sub", "f") \/ path = At("sub\\f") \/ path = Inside("f", "f")
    BY Zenon DEF TreePaths
  <2>2. QED BY Zenon, <1>1, <1>2, <2>1
<1>4. QED BY <1>3

LEMMA CreateFileKeeps ==
  ASSUME TreeInv, NEW kind \in RootKinds, NEW path \in TreePaths, CreateFile(kind, path)
  PROVE  TreeInv'
<1>1. /\ session = "open" /\ treeCall = NoCall /\ kind # "repository"
      /\ UNCHANGED <<hostAt, fds, session, pinned, handles, nextId, treeCall>> /\ Reaching
  BY DEF CreateFile, MayCall, GrantedBy, ReadOps
<1>2. PICK d : /\ d = Holding(kind, path) /\ d \in Folders
               /\ entries' = [entries EXCEPT ![d][path.name] = "n"]
               /\ changed' = changed \cup {d, "n"}
  BY Zenon DEF CreateFile
<1>3. path.name \in EntryNames
  BY PathNames
<1>4. PICK i : i = RootIndex[kind]
  OBVIOUS
<1>5. i \in {2, 3} /\ RootIndex["repository"] = 1
  BY <1>1, <1>4 DEF RootKinds, RootIndex
<1>6. i \in DOMAIN pinned /\ pinned \in Seq(Pin)
  BY <1>1, <1>5 DEF TreeInv, RootsApart, TreeTypeOK
<1>7. PICK o : o = pinned[i].ino
  OBVIOUS
<1>8. fds[RootOf(kind).fd].ino = o
  BY <1>1, <1>4, <1>6, <1>7 DEF TreeInv, Course, Descriptors, VerifyIdentity, RootOf
<1>9. /\ entries \in [Folders -> [EntryNames -> Inodes]]
      /\ entries' \in [Folders -> [EntryNames -> Inodes]]
      /\ entries'[d][path.name] = "n"
      /\ \A f \in Folders : f # d => entries'[f] = entries[f]
  BY <1>2, <1>3 DEF TreeInv, TreeTypeOK, Inodes, Regular
<1>10. "n" \in EntriesOf(entries', d)
  BY <1>2, <1>3, <1>9 DEF EntriesOf, Nobody
<1>11. "n" \in Under(entries', o)
  <2>1. CASE d = o
    BY <1>10, <2>1 DEF Under
  <2>2. CASE d # o
    <3>1. d = Component(o, path.in)
      BY <1>2, <1>8, <2>2 DEF Holding, DirectoryOf
    <3>2. d \in EntriesOf(entries, o)
      BY <1>2, <3>1 DEF Component, EntriesOf, Nobody, Folders
    <3>3. EntriesOf(entries', o) = EntriesOf(entries, o)
      <4>1. CASE o \in Folders
        <5>1. entries'[o] = entries[o]
          BY <1>9, <2>2, <4>1
        <5>2. QED BY <4>1, <5>1 DEF EntriesOf
      <4>2. CASE o \notin Folders
        BY <4>2 DEF EntriesOf
      <4>3. QED BY <4>1, <4>2
    <3>4. d \in EntriesOf(entries', o)
      BY <3>2, <3>3
    <3>5. PICK held : held = EntriesOf(entries', d)
      OBVIOUS
    <3>6. "n" \in held /\ held \in {EntriesOf(entries', s) : s \in EntriesOf(entries', o)}
      BY <1>10, <3>4, <3>5, Zenon
    <3>7. QED BY <3>6, Zenon DEF Under
  <2>3. QED BY <2>1, <2>2
<1>12. Under(entries', pinned'[i].ino) \subseteq PrivateNow(entries', pinned')
  BY <1>1, <1>5, <1>6 DEF PrivateNow
<1>13. "n" \in reached'
  BY <1>1, <1>7, <1>11, <1>12 DEF Reaching
<1>14. d \in reached
  BY <1>1, <1>2, BeneathReached DEF Nobody, Folders
<1>15. reached \subseteq reached'
  BY <1>1 DEF Reaching
<1>16. changed' \subseteq reached'
  BY <1>2, <1>13, <1>14, <1>15 DEF TreeInv
<1>17. Private'
  BY <1>1, <1>15 DEF TreeInv, Private, Reaching, NoCall
<1>18. Descriptors'
  BY <1>1, DescriptorsKept DEF TreeInv, TreeTypeOK
<1>19. TreeTypeOK' /\ Course' /\ RootsApart'
  BY <1>1, <1>9 DEF TreeInv, TreeTypeOK, Course, RootsApart
<1>20. QED BY <1>16, <1>17, <1>18, <1>19 DEF TreeInv

\* A handle takes the next id of its root.
LEMMA NextIds ==
  ASSUME TreeInv, NEW kind \in RootKinds, nextId' = [nextId EXCEPT ![kind] = @ + 1]
  PROVE  /\ nextId' \in [RootKinds -> Nat]
         /\ \A k \in RootKinds : nextId[k] <= nextId'[k]
         /\ nextId[kind] < nextId'[kind]
BY DEF TreeInv, TreeTypeOK

LEMMA ChangeFileKeeps ==
  ASSUME TreeInv, NEW kind \in RootKinds, NEW op \in {"writeFile", "truncate"}, NEW path \in TreePaths,
         ChangeFile(kind, op, path)
  PROVE  TreeInv'
<1>1. /\ session = "open" /\ treeCall = NoCall /\ kind # "repository"
      /\ nextId' = [nextId EXCEPT ![kind] = @ + 1]
      /\ UNCHANGED <<entries, hostAt, fds, session, pinned, handles, treeCall, reached>>
  BY DEF ChangeFile, MayCall, GrantedBy, ReadOps
<1>2. changed' = changed \cup {Beneath(kind, path)} /\ Beneath(kind, path) \in Regular
  BY DEF ChangeFile
<1>3. Beneath(kind, path) \in reached
  BY <1>1, <1>2, BeneathReached DEF Nobody, Regular
<1>4. Descriptors'
  BY <1>1, NextIds, DescriptorsKept
<1>5. TreeTypeOK' /\ Course' /\ RootsApart' /\ Private'
  BY <1>1, NextIds DEF TreeInv, TreeTypeOK, Course, RootsApart, Private
<1>6. QED BY <1>1, <1>2, <1>3, <1>4, <1>5 DEF TreeInv

LEMMA OpenHandleKeeps ==
  ASSUME TreeInv, NEW kind \in RootKinds, NEW op \in {"openRead", "openWrite"}, NEW path \in TreePaths,
         OpenHandle(kind, op, path)
  PROVE  TreeInv'
<1>1. /\ session = "open" /\ treeCall = NoCall
      /\ nextId' = [nextId EXCEPT ![kind] = @ + 1]
      /\ UNCHANGED <<entries, hostAt, session, pinned, treeCall, changed, reached>>
  BY DEF OpenHandle, MayCall
<1>2. PICK o : o = Beneath(kind, path)
  OBVIOUS
<1> DEFINE made(n) == [root |-> kind, id |-> nextId[kind], fd |-> n, ino |-> o, writes |-> op = "openWrite"]
<1>3. PICK n \in 1..MaxFds : /\ IsNewFd(n) /\ o \in Regular /\ fds' = Opened(n, o, "session")
                             /\ handles' = handles \cup {made(n)}
  BY <1>2 DEF OpenHandle
<1>4. PICK h : h = made(n)
  OBVIOUS
<1>5. /\ h.root = kind /\ h.id = nextId[kind] /\ h.fd = n /\ h.ino = o
  BY <1>4
<1>6. nextId[kind] \in Nat
  BY DEF TreeInv, TreeTypeOK
<1>7. h \in Handle
  BY <1>3, <1>4, <1>6 DEF Handle
<1>8. handles' = handles \cup {h}
  BY <1>3, <1>4
<1> HIDE DEF made
<1>9. n \notin Held /\ fds[n].by = Nobody
  BY <1>3, NewFd
<1>10. o \in Inodes \ {Nobody}
  BY <1>3 DEF Inodes, Regular, Nobody
<1>11. /\ fds' \in [1..MaxFds -> [ino : Inodes, by : {"session", "other", Nobody}]]
       /\ fds'[n].ino = o /\ fds'[n].by = "session"
       /\ \A m \in 1..MaxFds : m # n => fds'[m] = fds[m]
       /\ \A m \in 1..MaxFds : fds'[m].ino = Nobody <=> fds'[m].by = Nobody
  BY <1>3, <1>10, OpenedFds
<1>12. HandleFds' = HandleFds \cup {n} /\ PinnedFds' = PinnedFds /\ CallFds' = CallFds
  BY <1>1, <1>5, <1>8 DEF HandleFds, PinnedFds, CallFds
<1>13. {m \in 1..MaxFds : fds'[m].by = "session"} = Held'
  <2>1. Held' = Held \cup {n}
    BY <1>12 DEF Held
  <2>2. Held = {m \in 1..MaxFds : fds[m].by = "session"}
    BY DEF TreeInv, Descriptors
  <2>3. QED BY <1>11, <2>1, <2>2
<1>14. \A g \in handles : g.fd \in Held /\ g.fd # n /\ fds'[g.fd] = fds[g.fd]
  <2>1. \A g \in handles : g.fd \in Held
    BY DEF Held, HandleFds
  <2>2. QED BY <1>9, <1>11, <2>1, HeldFds
<1>15. \A g, k \in handles' : g.fd = k.fd => g = k
  BY <1>5, <1>8, <1>14 DEF TreeInv, Descriptors
<1>16. \A g \in handles' : fds'[g.fd].ino = g.ino /\ g.id < nextId'[g.root]
  <2>1. \A g \in handles : g.id \in Nat /\ g.root \in RootKinds /\ nextId[g.root] \in Nat
    BY DEF TreeInv, TreeTypeOK, Handle
  <2>2. \A g \in handles : fds[g.fd].ino = g.ino /\ g.id < nextId[g.root]
    BY DEF TreeInv, Descriptors
  <2>3. \A g \in handles : fds'[g.fd].ino = g.ino
    BY <1>14, <2>2
  <2>4. \A g \in handles : g.id < nextId'[g.root]
    BY <1>1, <2>1, <2>2, NextIds
  <2>5. fds'[h.fd].ino = h.ino /\ h.id < nextId'[h.root]
    BY <1>1, <1>5, <1>11, NextIds
  <2>6. QED BY <1>8, <2>3, <2>4, <2>5
<1>17. \A i \in DOMAIN pinned' : ~pinned'[i].closed => VerifyIdentity(pinned[i])'
  <2>1. \A i \in DOMAIN pinned : ~pinned[i].closed => pinned[i].fd \in Held /\ fds[pinned[i].fd].ino = pinned[i].ino
    BY DEF TreeInv, Descriptors, Held, PinnedFds, VerifyIdentity
  <2>2. \A i \in DOMAIN pinned : ~pinned[i].closed => fds'[pinned[i].fd].ino = pinned[i].ino
    BY <1>9, <1>11, <2>1, HeldFds
  <2>3. QED BY <1>1, <2>2 DEF VerifyIdentity
<1>18. PinnedFds' \cap HandleFds' = {} /\ (PinnedFds' \cup HandleFds') \cap CallFds' = {}
  BY <1>9, <1>12 DEF TreeInv, Descriptors, Held
<1>19. Descriptors'
  BY <1>11, <1>13, <1>15, <1>16, <1>17, <1>18 DEF Descriptors
<1>20. kind # "repository" => h.ino \in reached
  BY <1>1, <1>2, <1>3, <1>5, BeneathReached DEF Nobody, Regular
<1>21. Private'
  BY <1>1, <1>5, <1>8, <1>20 DEF TreeInv, Private, NoCall
<1>22. TreeTypeOK' /\ Course' /\ RootsApart'
  BY <1>1, <1>7, <1>8, <1>11, NextIds DEF TreeInv, TreeTypeOK, Course, RootsApart
<1>23. QED BY <1>1, <1>19, <1>21, <1>22 DEF TreeInv

LEMMA InspectKeeps ==
  ASSUME TreeInv, NEW kind \in RootKinds, NEW op \in NameOps, NEW path \in TreePaths, NEW to \in TreePaths,
         Inspect(kind, op, path, to)
  PROVE  TreeInv'
<1>1. /\ session = "open" /\ treeCall = NoCall /\ kind # "repository"
      /\ treeCall' = [op |-> op, kind |-> kind, path |-> path, to |-> to, fd |-> 0]
      /\ UNCHANGED <<entries, hostAt, fds, session, pinned, handles, nextId, changed, reached>>
  BY DEF Inspect, MayCall, GrantedBy, ReadOps, NameOps
<1>2. treeCall' \in NameCall /\ treeCall'.fd = 0 /\ treeCall'.kind = kind
  <2>1. 0 \in 0..MaxFds
    BY ScopedTreeAssumption
  <2>2. QED BY <1>1, <2>1 DEF NameCall
<1>3. Descriptors'
  BY <1>1, <1>2, DescriptorsKept DEF TreeInv, TreeTypeOK
<1>4. Private'
  BY <1>1, <1>2 DEF TreeInv, Private
<1>5. TreeTypeOK' /\ Course' /\ RootsApart'
  BY <1>1, <1>2 DEF TreeInv, TreeTypeOK, Course, RootsApart
<1>6. QED BY <1>1, <1>3, <1>4, <1>5 DEF TreeInv


\* A call under way holds no descriptor, or one that is open on a directory.
LEMMA OpenParentKeeps ==
  ASSUME TreeInv, OpenParent
  PROVE  TreeInv'
<1>1. /\ treeCall # NoCall /\ treeCall.fd = 0 /\ session = "open"
      /\ UNCHANGED <<entries, hostAt, session, pinned, handles, nextId, changed, reached>>
  BY DEF OpenParent, TreeInv, Course
<1>2. treeCall \in NameCall /\ treeCall.kind \in RootKinds /\ treeCall.kind # "repository"
  BY <1>1 DEF TreeInv, TreeTypeOK, Private, NameCall
<1>3. PICK d : d = Holding(treeCall.kind, Separated(treeCall.path))
  OBVIOUS
<1>4. CASE d \notin Folders
  <2>1. treeCall' = NoCall /\ UNCHANGED fds
    BY <1>3, <1>4 DEF OpenParent
  <2>2. CallFds' = CallFds /\ PinnedFds' = PinnedFds /\ HandleFds' = HandleFds
    BY <1>1, <2>1 DEF CallFds, PinnedFds, HandleFds, NoCall
  <2>3. Descriptors'
    BY <1>1, <2>1, <2>2 DEF TreeInv, Descriptors, Held, VerifyIdentity
  <2>4. TreeTypeOK' /\ Course' /\ RootsApart' /\ Private'
    BY <1>1, <2>1 DEF TreeInv, TreeTypeOK, Course, RootsApart, Private
  <2>5. QED BY <1>1, <2>3, <2>4 DEF TreeInv
<1>5. CASE d \in Folders
  <2>1. PICK n \in 1..MaxFds : /\ IsNewFd(n) /\ fds' = Opened(n, d, "session")
                               /\ treeCall' = [treeCall EXCEPT !.fd = n]
    BY <1>3, <1>5 DEF OpenParent
  <2>2. d \in Inodes \ {Nobody} /\ d \in reached
    BY <1>1, <1>2, <1>3, <1>5, BeneathReached DEF Inodes, Folders, Nobody
  <2>3. treeCall' \in NameCall /\ treeCall'.fd = n /\ treeCall'.kind = treeCall.kind /\ n # 0
    BY <1>2, <2>1 DEF NameCall
  <2>4. n \notin Held /\ fds[n].by = Nobody
    BY <2>1, NewFd
  <2>5. /\ fds' \in [1..MaxFds -> [ino : Inodes, by : {"session", "other", Nobody}]]
        /\ fds'[n].ino = d /\ fds'[n].by = "session"
        /\ \A m \in 1..MaxFds : m # n => fds'[m] = fds[m]
        /\ \A m \in 1..MaxFds : fds'[m].ino = Nobody <=> fds'[m].by = Nobody
    BY <2>1, <2>2, OpenedFds
  <2>6. CallFds = {} /\ CallFds' = {n} /\ PinnedFds' = PinnedFds /\ HandleFds' = HandleFds
    BY <1>1, <2>3 DEF CallFds, PinnedFds, HandleFds
  <2>7. {m \in 1..MaxFds : fds'[m].by = "session"} = Held'
    <3>1. Held' = Held \cup {n}
      BY <2>6 DEF Held
    <3>2. Held = {m \in 1..MaxFds : fds[m].by = "session"}
      BY DEF TreeInv, Descriptors
    <3>3. QED BY <2>5, <3>1, <3>2
  <2>8. \A m \in Held : fds'[m] = fds[m]
    BY <2>4, <2>5, HeldFds
  <2>9. \A h \in handles' : fds'[h.fd].ino = h.ino
    <3>1. \A h \in handles : h.fd \in Held /\ fds[h.fd].ino = h.ino
      BY DEF TreeInv, Descriptors, Held, HandleFds
    <3>2. QED BY <1>1, <2>8, <3>1
  <2>10. \A i \in DOMAIN pinned' : ~pinned'[i].closed => VerifyIdentity(pinned[i])'
    <3>1. \A i \in DOMAIN pinned : ~pinned[i].closed => pinned[i].fd \in Held /\ fds[pinned[i].fd].ino = pinned[i].ino
      BY DEF TreeInv, Descriptors, Held, PinnedFds, VerifyIdentity
    <3>2. QED BY <1>1, <2>8, <3>1 DEF VerifyIdentity
  <2>11. Descriptors'
    BY <1>1, <2>4, <2>5, <2>6, <2>7, <2>9, <2>10 DEF TreeInv, Descriptors, Held
  <2>12. Private'
    BY <1>1, <1>2, <1>5, <2>2, <2>3, <2>5 DEF TreeInv, Private
  <2>13. TreeTypeOK' /\ Course' /\ RootsApart'
    BY <1>1, <2>3, <2>5 DEF TreeInv, TreeTypeOK, Course, RootsApart
  <2>14. QED BY <1>1, <2>11, <2>12, <2>13 DEF TreeInv
<1>6. QED BY <1>4, <1>5

LEMMA EntryGiven ==
  ASSUME NEW e \in [Folders -> [EntryNames -> Inodes]],
         NEW d \in Folders, NEW m \in EntryNames, NEW i \in Inodes
  PROVE  [e EXCEPT ![d][m] = i] \in [Folders -> [EntryNames -> Inodes]]
OBVIOUS

\* A change of the names of a directory leaves inodes at the names.
LEMMA NamesAfterType ==
  ASSUME entries \in [Folders -> [EntryNames -> Inodes]],
         NEW op, NEW d \in Folders, NEW from \in EntryNames, NEW to \in EntryNames
  PROVE  NamesAfter(op, d, from, to) \in [Folders -> [EntryNames -> Inodes]]
<1>1. Nobody \in Inodes
  BY DEF Inodes
<1>2. PICK x : x = entries[d][from] /\ x \in Inodes
  OBVIOUS
<1>3. \A m \in EntryNames, i \in Inodes : [entries EXCEPT ![d][m] = i] \in [Folders -> [EntryNames -> Inodes]]
  OBVIOUS
<1>4. [entries EXCEPT ![d][from] = Nobody, ![d][to] = x] \in [Folders -> [EntryNames -> Inodes]]
  BY <1>1, <1>2
<1>5. QED BY <1>1, <1>2, <1>3, <1>4 DEF NamesAfter

LEMMA ChangeNamesKeeps ==
  ASSUME TreeInv, ChangeNames
  PROVE  TreeInv'
<1>1. /\ treeCall # NoCall /\ treeCall.fd # 0 /\ session = "open"
      /\ fds' = Closing({treeCall.fd}) /\ treeCall' = NoCall
      /\ UNCHANGED <<hostAt, session, pinned, handles, nextId>> /\ Reaching
  BY DEF ChangeNames, TreeInv, Course
<1>2. PICK d : d = fds[treeCall.fd].ino
  OBVIOUS
<1>3. d \in Folders /\ d \in reached
  BY <1>1, <1>2 DEF TreeInv, Private
<1>4. PICK from, to : /\ from = Separated(treeCall.path).name /\ to = Separated(treeCall.to).name
  OBVIOUS
<1>5. /\ entries' = NamesAfter(treeCall.op, d, from, to)
      /\ changed' \subseteq changed \cup {d}
  BY <1>2, <1>4 DEF ChangeNames
<1>6. from \in EntryNames /\ to \in EntryNames
  <2>1. treeCall.path \in TreePaths /\ treeCall.to \in TreePaths
    BY <1>1 DEF TreeInv, TreeTypeOK, NameCall
  <2>2. \A path \in TreePaths : path.name \in EntryNames
    BY PathNames
  <2>3. Inside("sub", "f").name \in EntryNames
    BY DEF Inside, EntryNames
  <2>4. QED BY <1>4, <2>1, <2>2, <2>3 DEF Separated
<1>7. entries' \in [Folders -> [EntryNames -> Inodes]]
  BY <1>3, <1>5, <1>6, NamesAfterType DEF TreeInv, TreeTypeOK
<1>8. reached \subseteq reached' /\ changed' \subseteq reached'
  BY <1>1, <1>3, <1>5 DEF Reaching, TreeInv
<1>9. /\ fds' \in [1..MaxFds -> [ino : Inodes, by : {"session", "other", Nobody}]]
      /\ \A m \in 1..MaxFds : m \in {treeCall.fd} => fds'[m].ino = Nobody /\ fds'[m].by = Nobody
      /\ \A m \in 1..MaxFds : m \notin {treeCall.fd} => fds'[m] = fds[m]
      /\ \A m \in 1..MaxFds : fds'[m].ino = Nobody <=> fds'[m].by = Nobody
  BY <1>1, ClosedFds
<1>10. CallFds = {treeCall.fd} /\ CallFds' = {} /\ PinnedFds' = PinnedFds /\ HandleFds' = HandleFds
  BY <1>1 DEF CallFds, PinnedFds, HandleFds, NoCall
<1>11. Held' = Held \ {treeCall.fd} /\ treeCall.fd \notin PinnedFds \cup HandleFds
  BY <1>10 DEF TreeInv, Descriptors, Held
<1>12. {m \in 1..MaxFds : fds'[m].by = "session"} = Held'
  <2>1. Held = {m \in 1..MaxFds : fds[m].by = "session"}
    BY DEF TreeInv, Descriptors
  <2>2. QED BY <1>9, <1>11, <2>1 DEF Nobody
<1>13. \A m \in PinnedFds \cup HandleFds : fds'[m] = fds[m]
  BY <1>9, <1>11, HeldFds DEF Held
<1>14. \A h \in handles' : fds'[h.fd].ino = h.ino
  <2>1. \A h \in handles : h.fd \in HandleFds /\ fds[h.fd].ino = h.ino
    BY DEF TreeInv, Descriptors, HandleFds
  <2>2. QED BY <1>1, <1>13, <2>1
<1>15. \A i \in DOMAIN pinned' : ~pinned'[i].closed => VerifyIdentity(pinned[i])'
  <2>1. \A i \in DOMAIN pinned : ~pinned[i].closed => pinned[i].fd \in PinnedFds /\ fds[pinned[i].fd].ino = pinned[i].ino
    BY DEF TreeInv, Descriptors, PinnedFds, VerifyIdentity
  <2>2. QED BY <1>1, <1>13, <2>1 DEF VerifyIdentity
<1>16. Descriptors'
  BY <1>1, <1>9, <1>10, <1>12, <1>14, <1>15 DEF TreeInv, Descriptors
<1>17. Private'
  BY <1>1, <1>8 DEF TreeInv, Private, Reaching
<1>18. TreeTypeOK' /\ Course' /\ RootsApart'
  BY <1>1, <1>7, <1>9 DEF TreeInv, TreeTypeOK, Course, RootsApart
<1>19. QED BY <1>8, <1>16, <1>17, <1>18 DEF TreeInv

LEMMA WriteHandleKeeps ==
  ASSUME TreeInv, NEW kind \in RootKinds, NEW id, WriteHandle(kind, id)
  PROVE  TreeInv'
<1>1. /\ kind # "repository"
      /\ UNCHANGED <<entries, hostAt, fds, session, pinned, handles, nextId, treeCall, reached>>
  BY DEF WriteHandle
<1>2. PICK h \in handles : h.root = kind /\ changed' = changed \cup {fds[h.fd].ino}
  BY DEF WriteHandle
<1>3. changed' \subseteq reached
  BY <1>1, <1>2 DEF TreeInv, Private, Descriptors
<1>4. Descriptors'
  BY <1>1, DescriptorsKept DEF TreeInv, TreeTypeOK
<1>5. TreeTypeOK' /\ Course' /\ RootsApart' /\ Private'
  BY <1>1 DEF TreeInv, TreeTypeOK, Course, RootsApart, Private
<1>6. QED BY <1>1, <1>3, <1>4, <1>5 DEF TreeInv

LEMMA CloseHandleKeeps ==
  ASSUME TreeInv, NEW kind \in RootKinds, NEW id, CloseHandle(kind, id)
  PROVE  TreeInv'
<1>1. /\ session = "open" /\ treeCall = NoCall
      /\ UNCHANGED <<entries, hostAt, session, pinned, nextId, treeCall, changed, reached>>
  BY DEF CloseHandle
<1>2. PICK h \in handles : handles' = handles \ {h} /\ fds' = Closing({h.fd})
  BY DEF CloseHandle
<1>3. /\ fds' \in [1..MaxFds -> [ino : Inodes, by : {"session", "other", Nobody}]]
      /\ \A m \in 1..MaxFds : m \in {h.fd} => fds'[m].ino = Nobody /\ fds'[m].by = Nobody
      /\ \A m \in 1..MaxFds : m \notin {h.fd} => fds'[m] = fds[m]
      /\ \A m \in 1..MaxFds : fds'[m].ino = Nobody <=> fds'[m].by = Nobody
  BY <1>2, ClosedFds
<1>4. \A g \in handles : g # h => g.fd # h.fd
  BY DEF TreeInv, Descriptors
<1>5. HandleFds' = HandleFds \ {h.fd} /\ PinnedFds' = PinnedFds /\ CallFds = {} /\ CallFds' = {}
  BY <1>1, <1>2, <1>4 DEF HandleFds, PinnedFds, CallFds, NoCall
<1>6. h.fd \in HandleFds /\ h.fd \notin PinnedFds
  BY DEF TreeInv, Descriptors, HandleFds
<1>7. Held' = Held \ {h.fd}
  BY <1>5, <1>6 DEF Held
<1>8. {m \in 1..MaxFds : fds'[m].by = "session"} = Held'
  <2>1. Held = {m \in 1..MaxFds : fds[m].by = "session"}
    BY DEF TreeInv, Descriptors
  <2>2. QED BY <1>3, <1>7, <2>1 DEF Nobody
<1>9. \A m \in Held \ {h.fd} : fds'[m] = fds[m]
  BY <1>3, HeldFds
<1>10. \A g \in handles' : fds'[g.fd].ino = g.ino /\ g.id < nextId'[g.root]
  <2>1. \A g \in handles' : g \in handles /\ g.fd # h.fd
    BY <1>2, <1>4
  <2>2. \A g \in handles : g.fd \in Held /\ fds[g.fd].ino = g.ino /\ g.id < nextId[g.root]
    BY DEF TreeInv, Descriptors, Held, HandleFds
  <2>3. QED BY <1>1, <1>9, <2>1, <2>2
<1>11. \A i \in DOMAIN pinned' : ~pinned'[i].closed => VerifyIdentity(pinned[i])'
  <2>1. \A i \in DOMAIN pinned : ~pinned[i].closed =>
          pinned[i].fd \in Held \ {h.fd} /\ fds[pinned[i].fd].ino = pinned[i].ino
    BY <1>6 DEF TreeInv, Descriptors, Held, PinnedFds, VerifyIdentity
  <2>2. QED BY <1>1, <1>9, <2>1 DEF VerifyIdentity
<1>12. Descriptors'
  BY <1>2, <1>3, <1>5, <1>8, <1>10, <1>11 DEF TreeInv, Descriptors
<1>13. TreeTypeOK' /\ Course' /\ RootsApart' /\ Private'
  BY <1>1, <1>2, <1>3 DEF TreeInv, TreeTypeOK, Course, RootsApart, Private
<1>14. QED BY <1>1, <1>12, <1>13 DEF TreeInv

-----------------------------------------------------------------------------
(* The other programs.                                                       *)

LEMMA OthersMoveKeeps ==
  ASSUME TreeInv, OthersMove
  PROVE  TreeInv'
<1>1. UNCHANGED <<fds, session, pinned, handles, nextId, treeCall, changed>> /\ Reaching
  BY DEF OthersMove
<1>2. entries' \in [Folders -> [EntryNames -> Inodes]] /\ hostAt' \in [RootKinds -> Folders \cup {Nobody}]
  <2>1. /\ entries \in [Folders -> [EntryNames -> Inodes]] /\ hostAt \in [RootKinds -> Folders \cup {Nobody}]
        /\ Nobody \in Inodes /\ Symlink \in Inodes /\ "R" \in Folders
        /\ {"C", "S", "O"} \subseteq Folders /\ {"f", "sub"} \subseteq EntryNames
    BY DEF TreeInv, TreeTypeOK, Inodes, Folders, EntryNames
  <2>2. ASSUME NEW e \in {"C", "S", "O"}, NEW n \in {"f", "sub"}, NEW d \in Folders, NEW m \in EntryNames,
               entries' = [entries EXCEPT ![d][m] = Nobody, ![e][n] = entries[d][m]]
        PROVE  entries' \in [Folders -> [EntryNames -> Inodes]]
    <3>1. PICK x : x = entries[d][m] /\ x \in Inodes
      BY <2>1
    <3>2. e \in Folders /\ n \in EntryNames
      BY <2>1
    <3>3. PICK gone : /\ gone = [entries EXCEPT ![d][m] = Nobody]
                      /\ gone \in [Folders -> [EntryNames -> Inodes]]
      BY <2>1, EntryGiven
    <3>4. entries' = [gone EXCEPT ![e][n] = x]
      BY <2>2, <3>1, <3>3
    <3>5. QED BY <3>1, <3>2, <3>3, <3>4
  <2>3. ASSUME NEW e \in {"C", "S", "O"}, NEW n \in {"f", "sub"}, NEW i \in {entries["R"]["f"], Symlink},
               entries' = [entries EXCEPT ![e][n] = i]
        PROVE  entries' \in [Folders -> [EntryNames -> Inodes]]
    <3>1. i \in Inodes
      BY <2>1 DEF EntryNames
    <3>2. QED BY <2>1, <2>3, <3>1
  <2>4. ASSUME NEW k \in RootKinds, NEW d \in {"C", "O", Nobody}, hostAt' = [hostAt EXCEPT ![k] = d]
        PROVE  hostAt' \in [RootKinds -> Folders \cup {Nobody}]
    <3>1. d \in Folders \cup {Nobody}
      BY <2>1 DEF Folders
    <3>2. QED BY <2>1, <2>4, <3>1
  <2>5. CASE UNCHANGED hostAt /\ \E e \in {"C", "S", "O"}, n \in {"f", "sub"} :
               /\ entries[e][n] = Nobody
               /\ \/ \E d \in Folders, m \in EntryNames :
                       /\ entries[d][m] \notin {Nobody, e}
                       /\ entries' = [entries EXCEPT ![d][m] = Nobody, ![e][n] = entries[d][m]]
                  \/ \E i \in {entries["R"]["f"], Symlink} :
                       i # Nobody /\ entries' = [entries EXCEPT ![e][n] = i]
    <3>1. PICK e \in {"C", "S", "O"}, n \in {"f", "sub"} :
            /\ entries[e][n] = Nobody
            /\ \/ \E d \in Folders, m \in EntryNames :
                    /\ entries[d][m] \notin {Nobody, e}
                    /\ entries' = [entries EXCEPT ![d][m] = Nobody, ![e][n] = entries[d][m]]
               \/ \E i \in {entries["R"]["f"], Symlink} :
                    i # Nobody /\ entries' = [entries EXCEPT ![e][n] = i]
      BY Zenon, <2>5
    <3>2. ASSUME NEW d \in Folders, NEW m \in EntryNames,
                 entries' = [entries EXCEPT ![d][m] = Nobody, ![e][n] = entries[d][m]]
          PROVE  entries' \in [Folders -> [EntryNames -> Inodes]]
      BY <2>2, <3>2
    <3>3. ASSUME NEW i \in {entries["R"]["f"], Symlink}, entries' = [entries EXCEPT ![e][n] = i]
          PROVE  entries' \in [Folders -> [EntryNames -> Inodes]]
      BY <2>3, <3>3
    <3>4. entries' \in [Folders -> [EntryNames -> Inodes]]
      BY Zenon, <3>1, <3>2, <3>3
    <3>5. QED BY <2>1, <2>5, <3>4
  <2>6. CASE UNCHANGED entries /\ \E k \in RootKinds, d \in {"C", "O", Nobody} : hostAt' = [hostAt EXCEPT ![k] = d]
    BY <2>1, <2>4, <2>6
  <2>7. QED BY Zenon, <2>5, <2>6 DEF OthersMove
<1>3. Descriptors'
  BY <1>1, DescriptorsKept DEF TreeInv, TreeTypeOK
<1>4. Private' /\ changed' \subseteq reached'
  BY <1>1 DEF TreeInv, Private, Reaching
<1>5. TreeTypeOK' /\ Course' /\ RootsApart'
  BY <1>1, <1>2 DEF TreeInv, TreeTypeOK, Course, RootsApart
<1>6. QED BY <1>3, <1>4, <1>5 DEF TreeInv

\* A change of descriptors that are not the session's.
LEMMA OtherFdsKeep ==
  ASSUME TreeInv, UNCHANGED <<entries, hostAt, session, pinned, handles, nextId, treeCall, changed, reached>>,
         fds' \in [1..MaxFds -> [ino : Inodes, by : {"session", "other", Nobody}]],
         \A m \in 1..MaxFds : fds'[m].ino = Nobody <=> fds'[m].by = Nobody,
         \A m \in 1..MaxFds : fds[m].by = "session" => fds'[m] = fds[m],
         \A m \in 1..MaxFds : fds'[m].by = "session" => fds'[m] = fds[m]
  PROVE  TreeInv'
<1>1. PinnedFds' = PinnedFds /\ HandleFds' = HandleFds /\ CallFds' = CallFds
  BY DEF PinnedFds, HandleFds, CallFds
<1>2. \A m \in Held : fds'[m] = fds[m]
  BY HeldFds
<1>3. {m \in 1..MaxFds : fds'[m].by = "session"} = Held'
  <2>1. Held = {m \in 1..MaxFds : fds[m].by = "session"} /\ Held' = Held
    BY <1>1 DEF TreeInv, Descriptors, Held
  <2>2. QED BY <2>1
<1>4. \A h \in handles : fds'[h.fd].ino = h.ino
  <2>1. \A h \in handles : h.fd \in Held /\ fds[h.fd].ino = h.ino
    BY DEF TreeInv, Descriptors, Held, HandleFds
  <2>2. QED BY <1>2, <2>1
<1>5. \A i \in DOMAIN pinned' : ~pinned'[i].closed => VerifyIdentity(pinned[i])'
  <2>1. \A i \in DOMAIN pinned : ~pinned[i].closed => pinned[i].fd \in Held /\ fds[pinned[i].fd].ino = pinned[i].ino
    BY DEF TreeInv, Descriptors, Held, PinnedFds, VerifyIdentity
  <2>2. QED BY <1>2, <2>1 DEF VerifyIdentity
<1>6. Descriptors'
  BY <1>1, <1>3, <1>4, <1>5 DEF TreeInv, Descriptors
<1>7. Private'
  <2>1. (treeCall # NoCall /\ treeCall.fd # 0) => treeCall.fd \in Held
    BY DEF Held, CallFds
  <2>2. QED BY <1>2, <2>1 DEF TreeInv, Private
<1>8. TreeTypeOK' /\ Course' /\ RootsApart'
  BY DEF TreeInv, TreeTypeOK, Course, RootsApart
<1>9. QED BY <1>6, <1>7, <1>8 DEF TreeInv

LEMMA OthersOpenKeeps ==
  ASSUME TreeInv, OthersOpen
  PROVE  TreeInv'
<1>1. PICK n \in 1..MaxFds : IsNewFd(n) /\ fds' = Opened(n, "a", "other")
  BY DEF OthersOpen
<1>2. UNCHANGED <<entries, hostAt, session, pinned, handles, nextId, treeCall, changed, reached>>
  BY DEF OthersOpen
<1>3. "a" \in Inodes \ {Nobody} /\ fds[n].by = Nobody
  BY <1>1, NewFd DEF Inodes, Regular, Nobody
<1>4. /\ fds' \in [1..MaxFds -> [ino : Inodes, by : {"session", "other", Nobody}]]
      /\ fds'[n].by = "other" /\ \A m \in 1..MaxFds : m # n => fds'[m] = fds[m]
      /\ \A m \in 1..MaxFds : fds'[m].ino = Nobody <=> fds'[m].by = Nobody
  BY <1>1, <1>3, OpenedFds
<1>5. QED BY <1>2, <1>3, <1>4, OtherFdsKeep DEF Nobody

LEMMA OthersCloseKeeps ==
  ASSUME TreeInv, OthersClose
  PROVE  TreeInv'
<1>1. PICK n \in 1..MaxFds : fds[n].by = "other" /\ fds' = Closing({n})
  BY DEF OthersClose
<1>2. UNCHANGED <<entries, hostAt, session, pinned, handles, nextId, treeCall, changed, reached>>
  BY DEF OthersClose
<1>3. /\ fds' \in [1..MaxFds -> [ino : Inodes, by : {"session", "other", Nobody}]]
      /\ \A m \in 1..MaxFds : m \in {n} => fds'[m].ino = Nobody /\ fds'[m].by = Nobody
      /\ \A m \in 1..MaxFds : m \notin {n} => fds'[m] = fds[m]
      /\ \A m \in 1..MaxFds : fds'[m].ino = Nobody <=> fds'[m].by = Nobody
  BY <1>1, ClosedFds
<1>4. QED BY <1>1, <1>2, <1>3, OtherFdsKeep DEF Nobody

LEMMA TreeStep == TreeInv /\ [TreeNext]_treeVars => TreeInv'
<1> SUFFICES ASSUME TreeInv, [TreeNext]_treeVars PROVE TreeInv'
  OBVIOUS
<1>1. ASSUME NEW form \in Forms, CreateSession(form) PROVE TreeInv'
  BY <1>1, CreateKeeps
<1>2. CASE PinRoot
  BY <1>2, PinKeeps
<1>3. CASE RefuseRoots \/ DisposeSession
  BY <1>3, EndKeeps
<1>4. ASSUME NEW form \in Forms, InvokeContext(form) PROVE TreeInv'
  BY <1>4, EndKeeps DEF InvokeContext
<1>5. ASSUME NEW k \in RootKinds, NEW path \in TreePaths, CreateFile(k, path) PROVE TreeInv'
  BY <1>5, CreateFileKeeps
<1>6. ASSUME NEW k \in RootKinds, NEW path \in TreePaths, NEW op \in {"writeFile", "truncate"},
             ChangeFile(k, op, path)
      PROVE  TreeInv'
  BY <1>6, ChangeFileKeeps
<1>7. ASSUME NEW k \in RootKinds, NEW path \in TreePaths, NEW op \in {"openRead", "openWrite"},
             OpenHandle(k, op, path)
      PROVE  TreeInv'
  BY <1>7, OpenHandleKeeps
<1>8. ASSUME NEW k \in RootKinds, NEW path \in TreePaths, NEW to \in TreePaths, NEW op \in NameOps,
             Inspect(k, op, path, to)
      PROVE  TreeInv'
  BY <1>8, InspectKeeps
<1>9. CASE OpenParent
  BY <1>9, OpenParentKeeps
<1>10. CASE ChangeNames
  BY <1>10, ChangeNamesKeeps
<1>11. ASSUME NEW k \in RootKinds, NEW id \in 1..MaxCalls, WriteHandle(k, id) PROVE TreeInv'
  BY <1>11, WriteHandleKeeps
<1>12. ASSUME NEW k \in RootKinds, NEW id \in 1..MaxCalls, CloseHandle(k, id) PROVE TreeInv'
  BY <1>12, CloseHandleKeeps
<1>13. CASE OthersMove
  BY <1>13, OthersMoveKeeps
<1>14. CASE OthersOpen
  BY <1>14, OthersOpenKeeps
<1>15. CASE OthersClose
  BY <1>15, OthersCloseKeeps
<1>16. CASE UNCHANGED treeVars
  BY <1>16, OtherFdsKeep DEF treeVars, TreeInv, TreeTypeOK, Descriptors
<1>17. QED
  BY <1>1, <1>2, <1>3, <1>4, <1>5, <1>6, <1>7, <1>8, <1>9, <1>10, <1>11, <1>12, <1>13, <1>14, <1>15, <1>16
  DEF TreeNext, NameOps

\* Whatever other programs move, link or open between its system calls, the
\* session changes nothing that was never beneath a private root, holds each of
\* its descriptors once and for as long as it is open, and never uses or closes
\* a number the kernel has given to other code (scoped-tree.ts, requireHandle,
\* closeHandle, dispose).
THEOREM LiveRootsKeptAlways == TreeSpec => []LiveRootsKept
<1>1. TreeSpec => []TreeInv
  BY TreeInitHolds, TreeStep, PTL DEF TreeSpec
<1>2. QED BY <1>1, TreeInvImplies, PTL

-----------------------------------------------------------------------------
(* IngressListeners: the table and the file *)

Cells == Routes \cup {BadLine, EmptyLine, NulCell}

ListenersTypeOK ==
  /\ plan \in Plans
  /\ dir \in [Names -> FileNumbers \cup {0}]
  /\ data \in [FileNumbers -> Seq(Cells)]
  /\ opened \in {Closed} \cup [path : Names, ino : FileNumbers, offset : Nat]
  /\ listeners \in [routes : Seq(Routes), timer : BOOLEAN, failed : BOOLEAN]
  /\ unseen \in BOOLEAN

ListenersInv == ListenersTypeOK /\ RoutesFollowTheFile

\* The routes of a text are a table.
LEMMA RoutesOfText ==
  ASSUME NEW text \in Seq(Cells), NEW routes \in Parse(text)
  PROVE  routes \in Seq(Routes)
<1> DEFINE P == {i \in DOMAIN text : text[i] \in Routes}
<1>1. DOMAIN text = 1 .. Len(text) /\ Len(text) \in Nat
  OBVIOUS
<1>2. IsFiniteSet(1 .. Len(text))
  BY <1>1, FS_Interval
<1>3. IsFiniteSet(P)
  BY <1>1, <1>2, FS_Subset
<1>4. Cardinality(P) \in Nat
  BY <1>3, FS_CardinalityType
<1>5. PICK at \in InOrder(P) : routes = [i \in DOMAIN at |-> text[at[i]]]
  BY DEF Parse, Filtered
<1>6. at \in [1 .. Cardinality(P) -> P]
  BY <1>5 DEF InOrder
<1>7. \A i \in 1 .. Cardinality(P) : text[at[i]] \in Routes
  BY <1>6
<1>8. routes \in [1 .. Cardinality(P) -> Routes]
  BY <1>5, <1>6, <1>7
<1> HIDE DEF P
<1> QED
  BY <1>4, <1>8

LEMMA FilteredBy ==
  ASSUME NEW q, NEW P, NEW at \in InOrder(P)
  PROVE  [i \in DOMAIN at |-> q[at[i]]] \in Filtered(q, P)
BY DEF Filtered

\* Everything is kept when every position is.
LEMMA AllInOrder ==
  ASSUME NEW n \in Nat
  PROVE  [i \in 1 .. n |-> i] \in InOrder(1 .. n)
<1>1. Cardinality(1 .. n) = n
  BY FS_Interval
<1>2. PICK at : at = [i \in 1 .. n |-> i]
  OBVIOUS
<1>3. at \in [1 .. n -> 1 .. n] /\ \A i, j \in DOMAIN at : i < j => at[i] < at[j]
  BY <1>2
<1> QED
  BY <1>1, <1>2, <1>3 DEF InOrder

\* The canonical text of a table states the table.
LEMMA TableOfItsText ==
  ASSUME NEW routes \in Seq(Routes)
  PROVE  /\ Serialize(routes) \in Seq(Cells)
         /\ Parses(Serialize(routes)) /\ routes \in Parse(Serialize(routes))
<1> DEFINE text == Serialize(routes)
           P == {i \in DOMAIN text : text[i] \in Routes}
<1>0. BadLine \notin Routes /\ EmptyLine \notin Routes /\ EmptyLine # BadLine
  BY ListenersAssumption
<1>1. CASE routes = <<>>
  <2>1. text = <<EmptyLine>>
    BY <1>1 DEF Serialize
  <2>2. P = 1 .. 0
    BY <1>0, <2>1
  <2> DEFINE at == [i \in 1 .. 0 |-> i]
  <2>3. at \in InOrder(P)
    BY <2>2, AllInOrder
  <2>4. [i \in DOMAIN at |-> text[at[i]]] \in Filtered(text, P)
    <3> HIDE DEF at, text, P
    <3> QED
      BY <2>3, FilteredBy
  <2>5. [i \in DOMAIN at |-> text[at[i]]] = <<>>
    OBVIOUS
  <2>6. text \in Seq(Cells)
    BY <2>1 DEF Cells
  <2>7. Parses(text)
    BY <1>0, <2>1 DEF Parses
  <2> QED
    BY <1>1, <2>4, <2>5, <2>6, <2>7 DEF Parse
<1>2. CASE routes # <<>>
  <2>1. text = routes
    BY <1>2 DEF Serialize
  <2>2. P = 1 .. Len(routes) /\ DOMAIN routes = 1 .. Len(routes) /\ Len(routes) \in Nat
    BY <2>1
  <2> DEFINE at == [i \in 1 .. Len(routes) |-> i]
  <2>3. at \in InOrder(P)
    BY <2>2, AllInOrder
  <2>4. [i \in DOMAIN at |-> text[at[i]]] \in Filtered(text, P)
    <3> HIDE DEF at, text, P
    <3> QED
      BY <2>3, FilteredBy
  <2>5. routes = [i \in DOMAIN at |-> text[at[i]]]
    BY <2>1, <2>2
  <2>6. text \in Seq(Cells)
    BY <2>1 DEF Cells
  <2>7. Parses(text)
    BY <1>0, <2>1 DEF Parses
  <2> QED
    BY <2>4, <2>5, <2>6, <2>7 DEF Parse
<1> QED
  BY <1>1, <1>2

\* A file the host writes is there, with the text it wrote.
LEMMA HostWrites ==
  ASSUME ListenersTypeOK, NEW text \in Seq(Cells), WriteListenersText(text)
  PROVE  /\ dir' \in [Names -> FileNumbers \cup {0}] /\ data' \in [FileNumbers -> Seq(Cells)]
         /\ Text' = text
<1>1. PICK ino : ino = IF Exists("listeners") THEN dir["listeners"] ELSE NewFile
  OBVIOUS
<1>2. /\ Exists("listeners") \/ FreeFiles # {}
      /\ dir' = [dir EXCEPT !["listeners"] = ino]
      /\ data' = [data EXCEPT ![ino] = text]
  BY <1>1 DEF WriteListenersText
<1>3. ino \in FileNumbers
  BY <1>1, <1>2 DEF ListenersTypeOK, Exists, Names, NewFile, FreeFiles
<1>4. ino # 0
  BY <1>3, ListenersAssumption
<1>5. dir'["listeners"] = ino /\ data'[ino] = text
  BY <1>2, <1>3 DEF ListenersTypeOK, Names
<1>6. dir' \in [Names -> FileNumbers \cup {0}] /\ data' \in [FileNumbers -> Seq(Cells)]
  BY <1>2, <1>3 DEF ListenersTypeOK
<1>7. Text' = text
  BY <1>4, <1>5 DEF Text, Exists
<1> QED
  BY <1>6, <1>7

\* What a name holds outlives the handles and the other names.
LEMMA TextCollected ==
  ASSUME ListenersTypeOK, dir' \in [Names -> FileNumbers \cup {0}],
         dir'["listeners"] = dir["listeners"], Collect
  PROVE  Text' = Text /\ data' \in [FileNumbers -> Seq(Cells)]
<1>1. data' = [i \in FileNumbers |-> IF InUse(i)' THEN data[i] ELSE <<>>]
  BY DEF Collect
<1>2. CASE Exists("listeners")
  <2>1. dir["listeners"] \in FileNumbers
    BY <1>2 DEF ListenersTypeOK, Exists, Names
  <2>2. InUse(dir["listeners"])'
    BY DEF InUse, Names
  <2> QED
    BY <1>1, <1>2, <2>1, <2>2 DEF Text, Exists, ListenersTypeOK
<1>3. CASE ~Exists("listeners")
  BY <1>1, <1>3 DEF Text, Exists, ListenersTypeOK
<1> QED
  BY <1>2, <1>3

LEMMA HeldOrEmpty ==
  ASSUME ListenersTypeOK, Collect
  PROVE  data' \in [FileNumbers -> Seq(Cells)]
BY DEF Collect, ListenersTypeOK

\* A cell written at an offset, over a hole if need be.
LEMMA CellWritten ==
  ASSUME NEW text \in Seq(Cells), NEW at \in Nat \ {0}, NEW cell \in Cells
  PROVE  [Padded(text, at) EXCEPT ![at] = cell] \in Seq(Cells)
<1>1. Padded(text, at) \in Seq(Cells) /\ at \in 1 .. Len(Padded(text, at))
  <2>1. Len(text) \in Nat
    OBVIOUS
  <2>2. CASE at <= Len(text)
    <3>1. [i \in 1 .. at - Len(text) |-> NulCell] = <<>>
      BY <2>1, <2>2
    <3>2. text \o <<>> = text
      OBVIOUS
    <3>3. Padded(text, at) = text
      BY <3>1, <3>2, Zenon DEF Padded
    <3> QED
      BY <2>1, <2>2, <3>3
  <2>3. CASE at > Len(text)
    <3>1. PICK n \in Nat : n = at - Len(text)
      BY <2>1, <2>3
    <3>2. PICK hole : hole = [i \in 1 .. n |-> NulCell]
      OBVIOUS
    <3>3. hole \in [1 .. n -> Cells]
      BY <3>2 DEF Cells
    <3>4. hole \in Seq(Cells) /\ Len(hole) = n
      BY <3>1, <3>3
    <3>5. Padded(text, at) = text \o hole
      BY <3>1, <3>2 DEF Padded
    <3>6. Len(text \o hole) = Len(text) + n /\ text \o hole \in Seq(Cells)
      BY <3>4, <2>1
    <3> QED
      BY <2>1, <3>1, <3>5, <3>6
  <2> QED
    BY <2>1, <2>2, <2>3
<1> QED
  BY <1>1

\* A step that leaves the text and the table alone, or is seen.
LEMMA RoutesStillFollow ==
  ASSUME ListenersInv,
         listeners'.routes = listeners.routes, listeners'.failed = listeners.failed,
         listeners.timer => listeners'.timer,
         unseen => unseen', Text' = Text \/ unseen',
         opened'.path = "listeners" \/ listeners'.timer \/ opened.path # "listeners"
  PROVE  RoutesFollowTheFile'
<1>1. CASE listeners'.timer \/ opened'.path = "listeners" \/ unseen'
  BY <1>1 DEF RoutesFollowTheFile, Quiet
<1>2. CASE ~listeners'.timer /\ opened.path # "listeners" /\ ~unseen'
  <2>1. listeners.failed \/ RoutesAreTheFile
    BY <1>2 DEF ListenersInv, RoutesFollowTheFile, Quiet
  <2>2. Text' = Text
    BY <1>2
  <2> QED
    BY <2>1, <2>2 DEF RoutesFollowTheFile, RoutesAreTheFile
<1> QED
  BY <1>1, <1>2

LEMMA TextIsText ==
  ASSUME ListenersTypeOK
  PROVE  Text \in Seq(Cells)
<1>1. <<>> \in Seq(Cells)
  OBVIOUS
<1>2. Exists("listeners") => dir["listeners"] \in FileNumbers
  BY DEF ListenersTypeOK, Exists, Names
<1> QED
  BY <1>1, <1>2 DEF ListenersTypeOK, Text

LEMMA GuestStepKept ==
  ASSUME ListenersInv,
         \/ \E n \in Names, t \in BOOLEAN : Open(n, t)
         \/ \E c \in Routes \cup {BadLine} : Write(c)
         \/ \E n \in Names : Truncate(n) \/ Unlink(n)
         \/ \E m, n \in Names : Rename(m, n) \/ Link(m, n)
         \/ Release
  PROVE  ListenersInv'
<1>0. ListenersTypeOK
  BY DEF ListenersInv
<1>1. ASSUME NEW name \in Names, NEW t \in BOOLEAN, Open(name, t)
      PROVE  ListenersInv'
  <2>1. PICK ino : ino = IF Exists(name) THEN dir[name] ELSE NewFile
    OBVIOUS
  <2>2. /\ opened = Closed
        /\ Exists(name) \/ FreeFiles # {}
        /\ dir' = [dir EXCEPT ![name] = ino]
        /\ data' = IF t \/ ~Exists(name) THEN [data EXCEPT ![ino] = <<>>] ELSE data
        /\ opened' = [path |-> name, ino |-> ino, offset |-> 0]
        /\ plan' = plan /\ listeners' = listeners /\ Watch({name})
    BY <1>1, <2>1 DEF Open
  <2>3. ino \in FileNumbers
    BY <1>0, <2>1, <2>2 DEF ListenersTypeOK, Exists, Names, NewFile, FreeFiles
  <2>4. <<>> \in Seq(Cells)
    OBVIOUS
  <2>5. unseen' = (unseen \/ (Text' # Text /\ "listeners" \notin {name}))
    BY <2>2 DEF Watch
  <2>6. ListenersTypeOK'
    BY <1>0, <2>2, <2>3, <2>4, <2>5 DEF ListenersTypeOK
  <2>7. opened.path # "listeners" /\ opened'.path = name
    BY <2>2 DEF Closed, NoPath
  <2>8. opened'.path = "listeners" \/ Text' = Text \/ unseen'
    BY <2>5, <2>7
  <2>9. RoutesFollowTheFile'
    <3>1. CASE opened'.path = "listeners"
      BY <3>1 DEF RoutesFollowTheFile, Quiet
    <3>2. CASE opened'.path # "listeners"
      BY <2>2, <2>5, <2>7, <2>8, <3>2, RoutesStillFollow
    <3> QED
      BY <3>1, <3>2
  <2> QED
    BY <2>6, <2>9 DEF ListenersInv
<1>2. ASSUME NEW c \in Routes \cup {BadLine}, Write(c)
      PROVE  ListenersInv'
  <2>1. PICK at : at = opened.offset + 1
    OBVIOUS
  <2>2. /\ opened # Closed
        /\ data' = [data EXCEPT ![opened.ino] = [Padded(@, at) EXCEPT ![at] = c]]
        /\ opened' = [opened EXCEPT !.offset = at]
        /\ plan' = plan /\ dir' = dir /\ listeners' = listeners
        /\ unseen' = (unseen \/ (Text' # Text /\ "listeners" \notin {opened.path}))
    BY <1>2, <2>1 DEF Write, Watch
  <2>3. opened \in [path : Names, ino : FileNumbers, offset : Nat] /\ at \in Nat \ {0}
    BY <1>0, <2>1, <2>2 DEF ListenersTypeOK
  <2>4. PICK text : text = [Padded(data[opened.ino], at) EXCEPT ![at] = c]
    OBVIOUS
  <2>5. text \in Seq(Cells)
    <3>1. data[opened.ino] \in Seq(Cells) /\ c \in Cells
      BY <1>0, <2>3 DEF ListenersTypeOK, Cells
    <3> QED
      BY <2>3, <2>4, <3>1, CellWritten
  <2>6. data' = [data EXCEPT ![opened.ino] = text]
    BY <2>2, <2>4
  <2>7. ListenersTypeOK'
    <3>1. data' \in [FileNumbers -> Seq(Cells)]
      BY <1>0, <2>5, <2>6 DEF ListenersTypeOK
    <3>2. opened' \in [path : Names, ino : FileNumbers, offset : Nat]
      BY <2>2, <2>3
    <3>3. unseen' \in BOOLEAN
      BY <1>0, <2>2, Zenon DEF ListenersTypeOK
    <3> QED
      BY <1>0, <2>2, <3>1, <3>2, <3>3 DEF ListenersTypeOK
  <2>8. opened'.path = opened.path
    BY <2>2, <2>3
  <2>9. RoutesFollowTheFile'
    <3>1. CASE opened'.path = "listeners"
      BY <3>1 DEF RoutesFollowTheFile, Quiet
    <3>2. CASE opened'.path # "listeners"
      BY <2>2, <2>8, <3>2, RoutesStillFollow
    <3> QED
      BY <3>1, <3>2
  <2> QED
    BY <2>7, <2>9 DEF ListenersInv
<1>3. ASSUME NEW name \in Names, Truncate(name)
      PROVE  ListenersInv'
  <2>1. /\ Exists(name) /\ data' = [data EXCEPT ![dir[name]] = <<>>]
        /\ listeners' = [listeners EXCEPT !.timer = @ \/ name = "listeners"]
        /\ plan' = plan /\ dir' = dir /\ opened' = opened
        /\ unseen' = (unseen \/ (Text' # Text /\ "listeners" # name))
    BY <1>3 DEF Truncate, After, ReloadOps, Watch
  <2>2. <<>> \in Seq(Cells)
    OBVIOUS
  <2>3. listeners'.timer = (listeners.timer \/ name = "listeners")
    BY <1>0, <2>1 DEF ListenersTypeOK
  <2>4. ListenersTypeOK'
    BY <1>0, <2>1, <2>2 DEF ListenersTypeOK
  <2>5. RoutesFollowTheFile'
    <3>1. CASE listeners'.timer
      BY <3>1 DEF RoutesFollowTheFile, Quiet
    <3>2. CASE ~listeners'.timer
      BY <1>0, <2>1, <2>3, <3>2, RoutesStillFollow DEF ListenersTypeOK
    <3> QED
      BY <3>1, <3>2
  <2> QED
    BY <2>4, <2>5 DEF ListenersInv
<1>4. ASSUME NEW name \in Names, Unlink(name)
      PROVE  ListenersInv'
  <2>1. /\ dir' = [dir EXCEPT ![name] = 0] /\ Collect
        /\ listeners' = [listeners EXCEPT !.timer = @ \/ name = "listeners"]
        /\ plan' = plan /\ unseen' = unseen /\ opened' = opened
    BY <1>4 DEF Unlink, After, ReloadOps
  <2>2. dir' \in [Names -> FileNumbers \cup {0}]
    BY <1>0, <2>1 DEF ListenersTypeOK
  <2>3. listeners'.timer = (listeners.timer \/ name = "listeners")
    BY <1>0, <2>1 DEF ListenersTypeOK
  <2>4. data' \in [FileNumbers -> Seq(Cells)]
    BY <1>0, <2>1, HeldOrEmpty
  <2>5. ListenersTypeOK'
    BY <1>0, <2>1, <2>2, <2>4 DEF ListenersTypeOK
  <2>6. RoutesFollowTheFile'
    <3>1. CASE listeners'.timer
      BY <3>1 DEF RoutesFollowTheFile, Quiet
    <3>2. CASE ~listeners'.timer
      <4>1. dir'["listeners"] = dir["listeners"]
        BY <1>0, <2>1, <2>3, <3>2 DEF ListenersTypeOK, Names
      <4>2. Text' = Text
        BY <1>0, <2>1, <2>2, <4>1, TextCollected
      <4> QED
        BY <1>0, <2>1, <2>3, <3>2, <4>2, RoutesStillFollow DEF ListenersTypeOK
    <3> QED
      BY <3>1, <3>2
  <2> QED
    BY <2>5, <2>6 DEF ListenersInv
<1>5. ASSUME NEW old \in Names, NEW new \in Names, Rename(old, new)
      PROVE  ListenersInv'
  <2>1. /\ old # new
        /\ dir' = [dir EXCEPT ![new] = dir[old], ![old] = 0] /\ Collect
        /\ listeners' = [listeners EXCEPT !.timer = @ \/ "listeners" \in {old, new}]
        /\ plan' = plan /\ unseen' = unseen /\ opened' = opened
    BY <1>5 DEF Rename, After, ReloadOps
  <2>2. listeners'.timer
    BY <1>0, <2>1 DEF ListenersTypeOK, Names
  <2>3. data' \in [FileNumbers -> Seq(Cells)]
    BY <1>0, <2>1, HeldOrEmpty
  <2>4. ListenersTypeOK'
    BY <1>0, <2>1, <2>3 DEF ListenersTypeOK
  <2> QED
    BY <2>2, <2>4 DEF ListenersInv, RoutesFollowTheFile, Quiet
<1>6. ASSUME NEW old \in Names, NEW new \in Names, Link(old, new)
      PROVE  ListenersInv'
  <2>1. /\ dir' = [dir EXCEPT ![new] = dir[old]] /\ data' = data
        /\ listeners' = [listeners EXCEPT !.timer = @ \/ FALSE]
        /\ plan' = plan /\ opened' = opened
        /\ unseen' = (unseen \/ Text' # Text)
    BY <1>6 DEF Link, After, ReloadOps, Watch
  <2>2. ListenersTypeOK'
    BY <1>0, <2>1 DEF ListenersTypeOK
  <2>3. RoutesFollowTheFile'
    BY <1>0, <2>1, RoutesStillFollow DEF ListenersTypeOK
  <2> QED
    BY <2>2, <2>3 DEF ListenersInv
<1>7. CASE Release
  <2>1. /\ opened # Closed /\ opened' = Closed /\ Collect
        /\ listeners' = [listeners EXCEPT !.timer = @ \/ opened.path = "listeners"]
        /\ plan' = plan /\ dir' = dir /\ unseen' = unseen
    BY <1>7 DEF Release, After, ReloadOps
  <2>2. dir' \in [Names -> FileNumbers \cup {0}]
    BY <1>0, <2>1 DEF ListenersTypeOK
  <2>3. Text' = Text /\ data' \in [FileNumbers -> Seq(Cells)]
    BY <1>0, <2>1, <2>2, TextCollected
  <2>4. listeners'.timer = (listeners.timer \/ opened.path = "listeners")
    BY <1>0, <2>1 DEF ListenersTypeOK
  <2>5. ListenersTypeOK'
    BY <1>0, <2>1, <2>3 DEF ListenersTypeOK
  <2>6. RoutesFollowTheFile'
    BY <1>0, <2>1, <2>3, <2>4, RoutesStillFollow DEF ListenersTypeOK
  <2> QED
    BY <2>5, <2>6 DEF ListenersInv
<1> QED
  BY <1>1, <1>2, <1>3, <1>4, <1>5, <1>6, <1>7

\* A table the host sets, which is written unless it is too long.
LEMMA SetRoutesKept ==
  ASSUME ListenersInv, NEW routes \in plan.tables, SetRoutes(routes)
  PROVE  ListenersInv'
<1>0. ListenersTypeOK
  BY DEF ListenersInv
<1>1. routes \in Seq(Routes)
  BY <1>0, ListenersAssumption DEF ListenersTypeOK
<1>2. /\ IF Fits(Serialize(routes)) THEN WriteListenersText(Serialize(routes)) ELSE Untouched
      /\ listeners' = [listeners EXCEPT !.routes = routes, !.failed = FALSE]
      /\ unseen' = ~Fits(Serialize(routes))
      /\ plan' = plan /\ opened' = opened
  BY DEF SetRoutes
<1>3. CASE Fits(Serialize(routes))
  <2>1. /\ dir' \in [Names -> FileNumbers \cup {0}] /\ data' \in [FileNumbers -> Seq(Cells)]
        /\ Text' = Serialize(routes)
    BY <1>0, <1>1, <1>2, <1>3, HostWrites, TableOfItsText
  <2>2. listeners'.routes = routes
    BY <1>0, <1>2 DEF ListenersTypeOK
  <2>3. RoutesAreTheFile'
    BY <1>1, <2>1, <2>2, TableOfItsText DEF RoutesAreTheFile
  <2>4. ListenersTypeOK'
    BY <1>0, <1>1, <1>2, <1>3, <2>1 DEF ListenersTypeOK
  <2> QED
    BY <2>3, <2>4 DEF ListenersInv, RoutesFollowTheFile
<1>4. CASE ~Fits(Serialize(routes))
  <2>1. ListenersTypeOK'
    BY <1>0, <1>1, <1>2, <1>4 DEF ListenersTypeOK, Untouched
  <2> QED
    BY <1>2, <1>4, <2>1 DEF ListenersInv, RoutesFollowTheFile
<1> QED
  BY <1>3, <1>4

\* A reload, which writes the file where it is not canonical.
LEMMA ReloadKept ==
  ASSUME ListenersInv, Reload
  PROVE  ListenersInv'
<1>0. ListenersTypeOK
  BY DEF ListenersInv
<1>1. plan' = plan /\ opened' = opened /\ unseen' = FALSE
  BY DEF Reload
<1>2. CASE Fits(Text) /\ Parses(Text)
  <2>1. PICK routes \in Parse(Text) :
          /\ listeners' = [routes |-> routes, timer |-> FALSE, failed |-> FALSE]
          /\ IF Serialize(routes) # Text THEN WriteListenersText(Serialize(routes)) ELSE Untouched
    BY <1>2 DEF Reload
  <2>2. routes \in Seq(Routes)
    BY <1>0, TextIsText, RoutesOfText
  <2>3. /\ dir' \in [Names -> FileNumbers \cup {0}] /\ data' \in [FileNumbers -> Seq(Cells)]
        /\ Parses(Text') /\ routes \in Parse(Text')
    <3>1. CASE Serialize(routes) # Text
      <4>1. WriteListenersText(Serialize(routes))
        BY <2>1, <3>1
      <4>2. /\ dir' \in [Names -> FileNumbers \cup {0}] /\ data' \in [FileNumbers -> Seq(Cells)]
            /\ Text' = Serialize(routes)
        BY <1>0, <2>2, <4>1, HostWrites, TableOfItsText
      <4> QED
        BY <2>2, <4>2, TableOfItsText
    <3>2. CASE Serialize(routes) = Text
      <4>1. dir' = dir /\ data' = data
        BY <2>1, <3>2 DEF Untouched
      <4>2. Text' = Text
        BY <4>1 DEF Text, Exists
      <4> QED
        BY <1>0, <1>2, <2>1, <4>1, <4>2 DEF ListenersTypeOK
    <3> QED
      BY <3>1, <3>2
  <2>4. listeners'.routes = routes
    BY <2>1
  <2>5. RoutesAreTheFile'
    BY <2>3, <2>4 DEF RoutesAreTheFile, Parses, Parse
  <2>6. ListenersTypeOK'
    BY <1>0, <1>1, <2>1, <2>2, <2>3 DEF ListenersTypeOK
  <2> QED
    BY <2>5, <2>6 DEF ListenersInv, RoutesFollowTheFile
<1>3. CASE ~(Fits(Text) /\ Parses(Text))
  <2>1. listeners' = [listeners EXCEPT !.timer = FALSE, !.failed = TRUE] /\ Untouched
    BY <1>3 DEF Reload
  <2>2. listeners'.failed
    BY <1>0, <2>1 DEF ListenersTypeOK
  <2>3. ListenersTypeOK'
    BY <1>0, <1>1, <2>1 DEF ListenersTypeOK, Untouched
  <2> QED
    BY <2>2, <2>3 DEF ListenersInv, RoutesFollowTheFile
<1> QED
  BY <1>2, <1>3

\* However the guest's file operations, the host's tables and the reloads are
\* interleaved, the routes in force are those of the file once it is quiet, or
\* an error says why not (ingress.ts).
THEOREM RoutesFollowAlways == ListenersSpec => []RoutesFollowTheFile
<1>1. ListenersInit => ListenersInv
  <2> SUFFICES ASSUME ListenersInit PROVE ListenersInv
    OBVIOUS
  <2>1. <<>> \in Seq(Routes) /\ <<>> \in Seq(Cells)
    OBVIOUS
  <2>2. /\ Serialize(<<>>) \in Seq(Cells)
        /\ Parses(Serialize(<<>>)) /\ <<>> \in Parse(Serialize(<<>>))
    BY <2>1, TableOfItsText
  <2>3. ListenersTypeOK
    BY <2>1, <2>2, ListenersAssumption DEF ListenersInit, ListenersTypeOK
  <2>4. Text = Serialize(<<>>) /\ listeners.routes = <<>>
    BY ListenersAssumption DEF ListenersInit, Text, Exists, Names
  <2> QED
    BY <2>2, <2>3, <2>4 DEF ListenersInv, RoutesFollowTheFile, RoutesAreTheFile
<1>2. ListenersInv /\ [ListenersNext]_listenersVars => ListenersInv'
  <2> SUFFICES ASSUME ListenersInv, [ListenersNext]_listenersVars
               PROVE  ListenersInv'
    OBVIOUS
  <2>1. CASE UNCHANGED listenersVars
    BY <2>1 DEF listenersVars, ListenersInv, ListenersTypeOK, RoutesFollowTheFile, Quiet,
       RoutesAreTheFile, Text, Exists
  <2> QED
    BY <2>1, GuestStepKept, SetRoutesKept, ReloadKept DEF ListenersNext
<1>3. ListenersInv => RoutesFollowTheFile
  BY DEF ListenersInv
<1> QED
  BY <1>1, <1>2, <1>3, PTL DEF ListenersSpec
-----------------------------------------------------------------------------
(* Forwarded streams: all frames on their way to one side are one queue.     *)

OutQueue == toGuest \o bridge.pending
InQueue == toHost \o guest.writer

OpenedFrame(id, ok) == [t |-> "tcp_opened", id |-> id, ok |-> ok]

OutFrames == [t : {"tcp_open", "tcp_data", "tcp_eof", "tcp_close"}, id : Ids]
InFrames == [t : {"tcp_data", "tcp_close"}, id : Ids] \cup [t : {"tcp_opened"}, id : Ids, ok : BOOLEAN]

Has(f, q) == \E i \in 1..Len(q) : q[i] = f
Places(f, q) == {i \in 1..Len(q) : q[i] = f}
Num(f, q) == Cardinality(Places(f, q))

\* Nothing of a stream is behind its close, no data behind its end.
InOrdered(q) ==
  \A i, j \in 1..Len(q) :
    i < j /\ q[i].id = q[j].id => ~(q[i].t = "tcp_close" /\ q[j].t = "tcp_data")

OutOrdered(q) ==
  \A i, j \in 1..Len(q) :
    i < j /\ q[i].id = q[j].id =>
      q[j].t # "tcp_open" /\ ~(q[i].t = "tcp_eof" /\ q[j].t = "tcp_data")

StreamRecords ==
  [call : {"none", "pending", "ok", "failed"}, listed : BOOLEAN, destroyed : BOOLEAN,
   closedByRemote : BOOLEAN, closeLost : BOOLEAN, ended : BOOLEAN,
   written : Nat, pushed : Nat, read : Nat]

ConnRecords == [live : BOOLEAN, pending : Nat, hostEof : BOOLEAN, backendShutdown : BOOLEAN]

BackendRecords ==
  [got : Nat, gotEof : BOOLEAN, sent : Nat, unread : Nat, end : {"open", "fin", "reset"},
   why : {"none", "full", "host", "error", "eof", "exit"}]

BridgeRecords == [up : BOOLEAN, pending : Seq(OutFrames), waitingDrain : BOOLEAN, exits : Nat]

GuestRecords == [conns : [Ids -> ConnRecords], writer : Seq(InFrames)]

ForwardTyped ==
  /\ setup \in Setups
  /\ streams \in [Ids -> StreamRecords]
  /\ bridge \in BridgeRecords /\ toGuest \in Seq(OutFrames)
  /\ guest \in GuestRecords /\ toHost \in Seq(InFrames)
  /\ backends \in [Ids -> BackendRecords]

QueuesOrdered == OutOrdered(OutQueue) /\ InOrdered(InQueue)

\* What waits in the bridge waits for a drain or for a machine.
BridgeWaits == bridge.up /\ bridge.pending # <<>> => bridge.waitingDrain

\* Until the guest takes the tcp_open of a stream, nothing has become of it.
NotYetThere(id) ==
  /\ streams[id].call = "none" \/ Has(Frame("tcp_open", id), OutQueue) =>
       /\ streams[id].call # "ok" /\ streams[id].written = 0 /\ ~streams[id].ended
       /\ streams[id].pushed = 0 /\ ~streams[id].closedByRemote
       /\ ~guest.conns[id].live /\ backends[id] = NoBackend
       /\ ~Has(Frame("tcp_data", id), OutQueue) /\ ~Has(Frame("tcp_eof", id), OutQueue)
       /\ ~Has(Frame("tcp_data", id), InQueue) /\ ~Has(Frame("tcp_close", id), InQueue)
       /\ \A ok \in BOOLEAN : ~Has(OpenedFrame(id, ok), InQueue)
  /\ streams[id].call = "none" =>
       ~Has(Frame("tcp_open", id), OutQueue) /\ ~Has(Frame("tcp_close", id), OutQueue)

\* The host's books.
BooksKept(id) ==
  /\ streams[id].listed <=> streams[id].call \in {"pending", "ok"} /\ ~streams[id].destroyed
  /\ streams[id].call \in {"none", "pending"} => ~streams[id].destroyed
  /\ streams[id].closedByRemote => streams[id].destroyed /\ ~guest.conns[id].live

\* Why a connection was closed.
CutsCaused(id) ==
  /\ Has(Frame("tcp_close", id), OutQueue) => streams[id].destroyed
  /\ backends[id].why = "host" => streams[id].destroyed
  /\ backends[id].why = "eof" => backends[id].end = "fin"
  /\ backends[id].why = "error" => backends[id].end = "reset"
  /\ backends[id].why = "full" => backends[id].got + MaxTcp < streams[id].written

\* What has to be so when a connection is closed for the reason why.
EndsFor(id, why) ==
  /\ why = "host" => streams[id].destroyed
  /\ why = "eof" => backends[id].end = "fin" /\ backends[id].unread = 0
  /\ why = "error" => backends[id].end = "reset"
  /\ why = "full" => backends[id].got + MaxTcp < streams[id].written

\* Every unit written is at the service, in the connection or on its way.
UploadCounted(id) ==
  /\ guest.conns[id].live =>
       /\ backends[id].got + guest.conns[id].pending + Num(Frame("tcp_data", id), OutQueue)
            = streams[id].written
       /\ guest.conns[id].backendShutdown <=> backends[id].gotEof
       /\ guest.conns[id].hostEof =>
            /\ streams[id].ended /\ ~Has(Frame("tcp_data", id), OutQueue)
            /\ guest.conns[id].pending = 0 => backends[id].gotEof
  /\ Has(Frame("tcp_eof", id), OutQueue) => streams[id].ended
  /\ backends[id].gotEof => streams[id].ended /\ backends[id].got = streams[id].written
  /\ CutsCaused(id)

\* Every unit the service sent is with the stream, on its way or unread; from
\* the end of the connection on, with the stream or on its way.
DownloadCounted(id) ==
  /\ guest.conns[id].live =>
       /\ backends[id].why = "none"
       /\ streams[id].listed /\ backends[id].end # "reset" =>
            streams[id].pushed + Num(Frame("tcp_data", id), InQueue) + backends[id].unread
              = backends[id].sent
  /\ Has(Frame("tcp_close", id), InQueue) =>
       /\ ~guest.conns[id].live
       /\ streams[id].listed /\ backends[id].why = "eof" =>
            streams[id].pushed + Num(Frame("tcp_data", id), InQueue) = backends[id].sent
  /\ Has(OpenedFrame(id, FALSE), InQueue) => ~guest.conns[id].live /\ backends[id].why = "none"
  /\ streams[id].closedByRemote /\ backends[id].why = "eof" =>
       streams[id].pushed = backends[id].sent

\* Neither side is left alone while the machine lives.
SidesTold(id) ==
  bridge.exits = 0 =>
    /\ streams[id].call = "pending" =>
         \/ Has(Frame("tcp_open", id), OutQueue) \/ Has(Frame("tcp_close", id), InQueue)
         \/ \E ok \in BOOLEAN : Has(OpenedFrame(id, ok), InQueue)
    /\ streams[id].listed /\ (streams[id].call = "ok" \/ Has(OpenedFrame(id, TRUE), InQueue)) =>
         guest.conns[id].live \/ Has(Frame("tcp_close", id), InQueue)
    /\ ~streams[id].listed /\ (guest.conns[id].live \/ Has(Frame("tcp_open", id), OutQueue)) =>
         Has(Frame("tcp_close", id), OutQueue) \/ streams[id].closeLost

StreamInv(id) ==
  NotYetThere(id) /\ BooksKept(id) /\ UploadCounted(id) /\ DownloadCounted(id) /\ SidesTold(id)

ForwardInv == ForwardTyped /\ QueuesOrdered /\ BridgeWaits /\ \A id \in Ids : StreamInv(id)
-----------------------------------------------------------------------------
(* Queues: what is in one, and how often.                                    *)

LEMMA PlacesFinite ==
  ASSUME NEW S, NEW q \in Seq(S), NEW f
  PROVE  IsFiniteSet(Places(f, q)) /\ Num(f, q) \in Nat
<1>1. IsFiniteSet(1..Len(q))
  BY FS_Interval
<1>2. Places(f, q) \subseteq 1..Len(q)
  BY DEF Places
<1> QED
  BY <1>1, <1>2, FS_Subset, FS_CardinalityType DEF Num

LEMMA NoneCounted ==
  ASSUME NEW S, NEW q \in Seq(S), NEW f, ~Has(f, q)
  PROVE  Num(f, q) = 0
<1>1. Places(f, q) = {}
  BY DEF Places, Has
<1> QED
  BY <1>1, FS_EmptySet DEF Num

LEMMA AppendHas ==
  ASSUME NEW S, NEW q \in Seq(S), NEW g \in S, NEW f
  PROVE  Has(f, Append(q, g)) <=> Has(f, q) \/ f = g
<1>1. /\ Len(q) \in Nat /\ Len(Append(q, g)) = Len(q) + 1
      /\ Append(q, g)[Len(q) + 1] = g
      /\ \A i \in 1..Len(q) : Append(q, g)[i] = q[i]
  OBVIOUS
<1>2. ASSUME Has(f, Append(q, g)) PROVE Has(f, q) \/ f = g
  <2>1. PICK i \in 1..(Len(q) + 1) : Append(q, g)[i] = f
    BY <1>1, <1>2 DEF Has
  <2> QED
    BY <1>1, <2>1 DEF Has
<1>3. ASSUME Has(f, q) PROVE Has(f, Append(q, g))
  <2>1. PICK i \in 1..Len(q) : q[i] = f
    BY <1>3 DEF Has
  <2>2. i \in 1..Len(Append(q, g)) /\ Append(q, g)[i] = f
    BY <1>1, <2>1
  <2> QED
    BY <2>2 DEF Has
<1>4. ASSUME f = g PROVE Has(f, Append(q, g))
  <2>1. Len(q) + 1 \in 1..Len(Append(q, g)) /\ Append(q, g)[Len(q) + 1] = f
    BY <1>1, <1>4
  <2> QED
    BY <2>1 DEF Has
<1> QED
  BY <1>2, <1>3, <1>4

LEMMA AppendNum ==
  ASSUME NEW S, NEW q \in Seq(S), NEW g \in S, NEW f
  PROVE  Num(f, Append(q, g)) = IF f = g THEN Num(f, q) + 1 ELSE Num(f, q)
<1>1. /\ Len(q) \in Nat /\ Len(Append(q, g)) = Len(q) + 1
      /\ Append(q, g)[Len(q) + 1] = g
      /\ \A i \in 1..Len(q) : Append(q, g)[i] = q[i]
  OBVIOUS
<1>2. IsFiniteSet(Places(f, q))
  BY PlacesFinite
<1>3. CASE f = g
  <2>1. Places(f, Append(q, g)) = Places(f, q) \cup {Len(q) + 1}
    BY <1>1, <1>3 DEF Places
  <2>2. Len(q) + 1 \notin Places(f, q)
    BY <1>1 DEF Places
  <2> QED
    BY <1>2, <1>3, <2>1, <2>2, FS_AddElement DEF Num
<1>4. CASE f # g
  <2>1. Places(f, Append(q, g)) = Places(f, q)
    BY <1>1, <1>4 DEF Places
  <2> QED
    BY <1>4, <2>1 DEF Num
<1> QED
  BY <1>3, <1>4

LEMMA TailHas ==
  ASSUME NEW S, NEW q \in Seq(S), q # <<>>, NEW f
  PROVE  Has(f, q) <=> Has(f, Tail(q)) \/ f = Head(q)
<1>1. /\ Len(q) \in Nat /\ Len(q) > 0 /\ Len(Tail(q)) = Len(q) - 1 /\ Head(q) = q[1]
      /\ \A i \in 1..Len(Tail(q)) : Tail(q)[i] = q[i + 1]
  BY HeadTailProperties
<1>2. ASSUME Has(f, q), f # Head(q) PROVE Has(f, Tail(q))
  <2>1. PICK i \in 1..Len(q) : q[i] = f
    BY <1>2 DEF Has
  <2>2. i - 1 \in 1..Len(Tail(q)) /\ Tail(q)[i - 1] = f
    BY <1>1, <1>2, <2>1
  <2> QED
    BY <2>2 DEF Has
<1>3. ASSUME Has(f, Tail(q)) PROVE Has(f, q)
  <2>1. PICK i \in 1..Len(Tail(q)) : Tail(q)[i] = f
    BY <1>3 DEF Has
  <2>2. i + 1 \in 1..Len(q) /\ q[i + 1] = f
    BY <1>1, <2>1
  <2> QED
    BY <2>2 DEF Has
<1>4. ASSUME f = Head(q) PROVE Has(f, q)
  BY <1>1, <1>4 DEF Has
<1> QED
  BY <1>2, <1>3, <1>4

LEMMA TailNum ==
  ASSUME NEW S, NEW q \in Seq(S), q # <<>>, NEW f
  PROVE  Num(f, q) = IF f = Head(q) THEN Num(f, Tail(q)) + 1 ELSE Num(f, Tail(q))
<1>1. /\ Len(q) \in Nat /\ Len(q) > 0 /\ Len(Tail(q)) = Len(q) - 1 /\ Head(q) = q[1]
      /\ \A i \in 1..Len(Tail(q)) : Tail(q)[i] = q[i + 1]
      /\ Tail(q) \in Seq(S)
  BY HeadTailProperties
<1> DEFINE P == Places(f, Tail(q))
           Q == Places(f, q) \ {1}
           move == [i \in P |-> i + 1]
<1>2. move \in [P -> Q]
  BY <1>1 DEF Places
<1>3. \A i, j \in P : move[i] = move[j] => i = j
  BY DEF Places
<1>4. \A j \in Q : \E i \in P : move[i] = j
  <2> TAKE j \in Q
  <2>1. j - 1 \in P /\ move[j - 1] = j
    BY <1>1 DEF Places
  <2> QED
    BY <2>1
<1>5. move \in Bijection(P, Q)
  <2> HIDE DEF P, Q, move
  <2> QED
    BY <1>2, <1>3, <1>4 DEF Bijection, Injection, Surjection, IsInjective
<1>6. /\ IsFiniteSet(P) /\ IsFiniteSet(Places(f, q))
      /\ Num(f, q) \in Nat /\ Num(f, Tail(q)) \in Nat
  BY <1>1, PlacesFinite
<1>7. Cardinality(Q) = Cardinality(P)
  <2> HIDE DEF P, Q, move
  <2>1. ExistsBijection(P, Q)
    BY <1>5 DEF ExistsBijection
  <2> QED
    BY <1>6, <2>1, FS_Bijection
<1>8. Cardinality(Q) = IF 1 \in Places(f, q) THEN Num(f, q) - 1 ELSE Num(f, q)
  BY <1>6, FS_RemoveElement DEF Num
<1>9. 1 \in Places(f, q) <=> f = Head(q)
  BY <1>1 DEF Places
<1>10. Cardinality(P) = Num(f, Tail(q))
  BY DEF Num
<1> HIDE DEF P, Q, move
<1>11. CASE f = Head(q)
  <2>1. Num(f, q) - 1 = Num(f, Tail(q))
    BY <1>7, <1>8, <1>9, <1>10, <1>11
  <2> QED
    BY <1>6, <1>11, <2>1
<1>12. CASE f # Head(q)
  BY <1>7, <1>8, <1>9, <1>10, <1>12
<1> QED
  BY <1>11, <1>12
-----------------------------------------------------------------------------
(* Two queues in a row are one.                                              *)

LEMMA InARow ==
  ASSUME NEW S, NEW p \in Seq(S), NEW q \in Seq(S), NEW r \in Seq(S)
  PROVE  (p \o q) \o r = p \o (q \o r)
BY ConcatAssociative

LEMMA AppendBehind ==
  ASSUME NEW S, NEW p \in Seq(S), NEW q \in Seq(S), NEW f \in S
  PROVE  /\ p \o Append(q, f) = Append(p \o q, f)
         /\ p \o Append(q, f) \in Seq(S) /\ p \o q \in Seq(S)
<1>1. Append(q, f) = q \o <<f>> /\ Append(p \o q, f) = (p \o q) \o <<f>> /\ <<f>> \in Seq(S)
  OBVIOUS
<1>2. p \o q \in Seq(S) /\ (p \o q) \o <<f>> \in Seq(S)
  BY <1>1, ConcatProperties
<1> QED
  BY <1>1, <1>2, ConcatAssociative

LEMMA TailInFront ==
  ASSUME NEW S, NEW p \in Seq(S), NEW q \in Seq(S), p # <<>>
  PROVE  /\ Tail(p) \o q = Tail(p \o q) /\ Head(p) = Head(p \o q) /\ p \o q # <<>>
         /\ Tail(p) \in Seq(S) /\ p \o q \in Seq(S)
<1>1. /\ p \o q \in Seq(S) /\ Tail(p) \in Seq(S) /\ Len(Tail(p)) = Len(p) - 1
      /\ Len(p) \in Nat /\ Len(p) > 0 /\ Len(q) \in Nat /\ Len(p \o q) = Len(p) + Len(q)
      /\ \A i \in 1..Len(Tail(p)) : Tail(p)[i] = p[i + 1]
      /\ \A i \in 1..(Len(p) + Len(q)) : (p \o q)[i] = IF i <= Len(p) THEN p[i] ELSE q[i - Len(p)]
  BY ConcatProperties, HeadTailProperties, EmptySeq
<1>2. p \o q # <<>>
  BY <1>1, EmptySeq
<1>3. Head(p \o q) = (p \o q)[1] /\ Head(p) = p[1]
  BY <1>1, <1>2
<1>4. Head(p \o q) = Head(p)
  BY <1>1, <1>3
<1>5. /\ Tail(p \o q) \in Seq(S) /\ Len(Tail(p \o q)) = Len(p) + Len(q) - 1
      /\ \A i \in 1..Len(Tail(p \o q)) : Tail(p \o q)[i] = (p \o q)[i + 1]
  BY <1>1, <1>2, HeadTailProperties
<1>6. /\ Tail(p) \o q \in Seq(S) /\ Len(Tail(p) \o q) = Len(p) + Len(q) - 1
      /\ \A i \in 1..(Len(p) - 1 + Len(q)) :
           (Tail(p) \o q)[i] = IF i <= Len(p) - 1 THEN Tail(p)[i] ELSE q[i - (Len(p) - 1)]
  BY <1>1, ConcatProperties
<1>7. ASSUME NEW i \in 1..Len(Tail(p) \o q) PROVE (Tail(p) \o q)[i] = Tail(p \o q)[i]
  <2>1. CASE i <= Len(p) - 1
    BY <1>1, <1>5, <1>6, <2>1
  <2>2. CASE i > Len(p) - 1
    <3>1. (Tail(p) \o q)[i] = q[i - (Len(p) - 1)]
      BY <1>1, <1>6, <2>2
    <3>2. Tail(p \o q)[i] = q[(i + 1) - Len(p)]
      BY <1>1, <1>5, <1>6, <2>2
    <3>3. i - (Len(p) - 1) = (i + 1) - Len(p)
      BY <1>1, <1>6
    <3> QED
      BY <3>1, <3>2, <3>3
  <2> QED
    BY <1>1, <1>6, <2>1, <2>2
<1>8. Tail(p) \o q = Tail(p \o q)
  BY <1>5, <1>6, <1>7, SeqEqual
<1> QED
  BY <1>1, <1>2, <1>4, <1>8

LEMMA MovedForward ==
  ASSUME NEW S, NEW p \in Seq(S), NEW q \in Seq(S), NEW n \in 0..Len(q)
  PROVE  /\ p \o SubSeq(q, 1, n) \in Seq(S) /\ SubSeq(q, n + 1, Len(q)) \in Seq(S)
         /\ (p \o SubSeq(q, 1, n)) \o SubSeq(q, n + 1, Len(q)) = p \o q
         /\ Len(p \o SubSeq(q, 1, n)) = Len(p) + n
         /\ SubSeq(q, n + 1, Len(q)) = <<>> <=> n = Len(q)
<1>1. /\ SubSeq(q, 1, n) \in Seq(S) /\ SubSeq(q, n + 1, Len(q)) \in Seq(S)
      /\ Len(SubSeq(q, 1, n)) = n /\ Len(SubSeq(q, n + 1, Len(q))) = Len(q) - n
  OBVIOUS
<1>2. SubSeq(q, 1, n) \o SubSeq(q, n + 1, Len(q)) = q
  <2>1. 1 \in 1..Len(q) + 1 /\ n \in 1 - 1..Len(q) /\ Len(q) \in n..Len(q)
    OBVIOUS
  <2>2. SubSeq(q, 1, n) \o SubSeq(q, n + 1, Len(q)) = SubSeq(q, 1, Len(q))
    BY <2>1, ConcatAdjacentSubSeq
  <2> QED
    BY <2>2, SubSeqFull
<1>3. PICK a, b : a = SubSeq(q, 1, n) /\ b = SubSeq(q, n + 1, Len(q))
  OBVIOUS
<1>4. /\ a \in Seq(S) /\ b \in Seq(S) /\ Len(a) = n /\ Len(b) = Len(q) - n /\ a \o b = q
      /\ Len(p) \in Nat /\ Len(q) \in Nat /\ n \in Nat
  BY <1>1, <1>2, <1>3, LenProperties
<1>5. /\ (p \o a) \o b = p \o q /\ p \o a \in Seq(S) /\ Len(p \o a) = Len(p) + n
  <2>1. (p \o a) \o b = p \o (a \o b)
    <3>1. a \in Seq(S) /\ b \in Seq(S)
      BY <1>4
    <3> QED
      BY <3>1, InARow
  <2>2. p \o a \in Seq(S) /\ Len(p \o a) = Len(p) + n
    BY <1>4, ConcatProperties
  <2> QED
    BY <1>4, <2>1, <2>2, Zenon
<1>6. b = <<>> <=> n = Len(q)
  BY <1>4, EmptySeq
<1> QED
  BY <1>3, <1>4, <1>5, <1>6
-----------------------------------------------------------------------------
(* The order of queues.                                                      *)

LEMMA InAppendOrdered ==
  ASSUME NEW S, NEW q \in Seq(S), NEW f \in S, InOrdered(q),
         f.t = "tcp_data" => \A g \in S : g.t = "tcp_close" /\ g.id = f.id => ~Has(g, q)
  PROVE  InOrdered(Append(q, f))
<1>1. /\ Len(q) \in Nat /\ Len(Append(q, f)) = Len(q) + 1
      /\ Append(q, f)[Len(q) + 1] = f
      /\ \A i \in 1..Len(q) : Append(q, f)[i] = q[i] /\ q[i] \in S
  OBVIOUS
<1>2. PICK r : r = Append(q, f)
  OBVIOUS
<1>3. ASSUME NEW i \in 1..Len(r), NEW j \in 1..Len(r), i < j, r[i].id = r[j].id,
             r[i].t = "tcp_close", r[j].t = "tcp_data"
      PROVE  FALSE
  <2>1. i \in 1..Len(q) /\ r[i] = q[i] /\ q[i] \in S
    BY <1>1, <1>2, <1>3
  <2>2. CASE j \in 1..Len(q)
    BY <1>1, <1>2, <1>3, <2>1, <2>2 DEF InOrdered
  <2>3. CASE j = Len(q) + 1
    BY <1>1, <1>2, <1>3, <2>1, <2>3 DEF Has
  <2> QED
    BY <1>1, <1>2, <2>2, <2>3
<1> QED
  BY <1>2, <1>3 DEF InOrdered

LEMMA OutAppendOrdered ==
  ASSUME NEW S, NEW q \in Seq(S), NEW f \in S, OutOrdered(q),
         f.t = "tcp_open" => \A g \in S : g.id = f.id => ~Has(g, q),
         f.t = "tcp_data" => \A g \in S : g.t = "tcp_eof" /\ g.id = f.id => ~Has(g, q)
  PROVE  OutOrdered(Append(q, f))
<1>1. /\ Len(q) \in Nat /\ Len(Append(q, f)) = Len(q) + 1
      /\ Append(q, f)[Len(q) + 1] = f
      /\ \A i \in 1..Len(q) : Append(q, f)[i] = q[i] /\ q[i] \in S
  OBVIOUS
<1>2. PICK r : r = Append(q, f)
  OBVIOUS
<1>3. ASSUME NEW i \in 1..Len(r), NEW j \in 1..Len(r), i < j, r[i].id = r[j].id
      PROVE  r[j].t # "tcp_open" /\ ~(r[i].t = "tcp_eof" /\ r[j].t = "tcp_data")
  <2>1. i \in 1..Len(q) /\ r[i] = q[i] /\ q[i] \in S
    BY <1>1, <1>2, <1>3
  <2>2. CASE j \in 1..Len(q)
    BY <1>1, <1>2, <1>3, <2>1, <2>2 DEF OutOrdered
  <2>3. CASE j = Len(q) + 1
    BY <1>1, <1>2, <1>3, <2>1, <2>3 DEF Has
  <2> QED
    BY <1>1, <1>2, <2>2, <2>3
<1> QED
  BY <1>2, <1>3 DEF OutOrdered

LEMMA InTailOrdered ==
  ASSUME NEW S, NEW q \in Seq(S), q # <<>>, InOrdered(q)
  PROVE  /\ InOrdered(Tail(q))
         /\ Head(q).t = "tcp_close" =>
              \A g \in S : g.t = "tcp_data" /\ g.id = Head(q).id => ~Has(g, Tail(q))
<1>1. /\ Len(q) \in Nat /\ Len(q) > 0 /\ Len(Tail(q)) = Len(q) - 1 /\ Head(q) = q[1]
      /\ \A i \in 1..Len(Tail(q)) : Tail(q)[i] = q[i + 1]
  BY HeadTailProperties, EmptySeq
<1>2. PICK r : r = Tail(q)
  OBVIOUS
<1>3. ASSUME NEW i \in 1..Len(r), NEW j \in 1..Len(r), i < j, r[i].id = r[j].id
      PROVE  ~(r[i].t = "tcp_close" /\ r[j].t = "tcp_data")
  <2>1. i + 1 \in 1..Len(q) /\ j + 1 \in 1..Len(q) /\ i + 1 < j + 1
    BY <1>1, <1>2, <1>3
  <2>2. r[i] = q[i + 1] /\ r[j] = q[j + 1]
    BY <1>1, <1>2
  <2> QED
    BY <1>3, <2>1, <2>2 DEF InOrdered
<1>4. ASSUME Head(q).t = "tcp_close", NEW g \in S, g.t = "tcp_data", g.id = Head(q).id, Has(g, r)
      PROVE  FALSE
  <2>1. PICK j \in 1..Len(r) : r[j] = g
    BY <1>4 DEF Has
  <2>2. 1 \in 1..Len(q) /\ j + 1 \in 1..Len(q) /\ 1 < j + 1 /\ q[j + 1] = g
    BY <1>1, <1>2, <2>1
  <2> QED
    BY <1>1, <1>4, <2>2 DEF InOrdered
<1> QED
  BY <1>2, <1>3, <1>4 DEF InOrdered

LEMMA OutTailOrdered ==
  ASSUME NEW S, NEW q \in Seq(S), q # <<>>, OutOrdered(q)
  PROVE  /\ OutOrdered(Tail(q))
         /\ \A g \in S : g.id = Head(q).id /\ Has(g, Tail(q)) =>
              g.t # "tcp_open" /\ ~(Head(q).t = "tcp_eof" /\ g.t = "tcp_data")
<1>1. /\ Len(q) \in Nat /\ Len(q) > 0 /\ Len(Tail(q)) = Len(q) - 1 /\ Head(q) = q[1]
      /\ \A i \in 1..Len(Tail(q)) : Tail(q)[i] = q[i + 1]
  BY HeadTailProperties, EmptySeq
<1>2. PICK r : r = Tail(q)
  OBVIOUS
<1>3. ASSUME NEW i \in 1..Len(r), NEW j \in 1..Len(r), i < j, r[i].id = r[j].id
      PROVE  r[j].t # "tcp_open" /\ ~(r[i].t = "tcp_eof" /\ r[j].t = "tcp_data")
  <2>1. i + 1 \in 1..Len(q) /\ j + 1 \in 1..Len(q) /\ i + 1 < j + 1
    BY <1>1, <1>2, <1>3
  <2>2. r[i] = q[i + 1] /\ r[j] = q[j + 1]
    BY <1>1, <1>2
  <2> QED
    BY <1>3, <2>1, <2>2 DEF OutOrdered
<1>4. ASSUME NEW g \in S, g.id = Head(q).id, Has(g, r)
      PROVE  g.t # "tcp_open" /\ ~(Head(q).t = "tcp_eof" /\ g.t = "tcp_data")
  <2>1. PICK j \in 1..Len(r) : r[j] = g
    BY <1>4 DEF Has
  <2>2. 1 \in 1..Len(q) /\ j + 1 \in 1..Len(q) /\ 1 < j + 1 /\ q[j + 1] = g
    BY <1>1, <1>2, <2>1
  <2> QED
    BY <1>1, <1>4, <2>2 DEF OutOrdered
<1> QED
  BY <1>2, <1>3, <1>4 DEF OutOrdered

\* The end of a queue, when the front is lost.
LEMMA BackOrdered ==
  ASSUME NEW S, NEW p \in Seq(S), NEW q \in Seq(S), OutOrdered(p \o q)
  PROVE  OutOrdered(q) /\ \A g : Has(g, q) => Has(g, p \o q)
<1>1. /\ Len(p) \in Nat /\ Len(q) \in Nat /\ Len(p \o q) = Len(p) + Len(q)
      /\ \A i \in 1..Len(q) : i + Len(p) \in 1..Len(p \o q) /\ (p \o q)[i + Len(p)] = q[i]
  OBVIOUS
<1>2. PICK r : r = p \o q
  OBVIOUS
<1>3. ASSUME NEW i \in 1..Len(q), NEW j \in 1..Len(q), i < j, q[i].id = q[j].id
      PROVE  q[j].t # "tcp_open" /\ ~(q[i].t = "tcp_eof" /\ q[j].t = "tcp_data")
  <2>1. /\ i + Len(p) \in 1..Len(r) /\ j + Len(p) \in 1..Len(r) /\ i + Len(p) < j + Len(p)
        /\ q[i] = r[i + Len(p)] /\ q[j] = r[j + Len(p)]
    BY <1>1, <1>2, <1>3
  <2> QED
    BY <1>2, <1>3, <2>1 DEF OutOrdered
<1>4. ASSUME NEW g, Has(g, q) PROVE Has(g, r)
  BY <1>1, <1>2, <1>4 DEF Has
<1> QED
  BY <1>2, <1>3, <1>4 DEF OutOrdered
-----------------------------------------------------------------------------
(* The bridge: flushing moves frames within the queue, sending adds one.      *)

Bridges(S) == [up : BOOLEAN, pending : Seq(S), waitingDrain : BOOLEAN, exits : Nat]
Links(S) == [b : Bridges(S), wire : Seq(S)]
BridgeOf(up, pending, waiting, exits) ==
  [up |-> up, pending |-> pending, waitingDrain |-> waiting, exits |-> exits]

Whole(l) == l.wire \o l.b.pending

LinkWaits(l) == l.b.up /\ l.b.pending # <<>> => l.b.waitingDrain

LEMMA LinkTyped ==
  ASSUME NEW S, NEW l \in Links(S)
  PROVE  /\ l.b.up \in BOOLEAN /\ l.b.pending \in Seq(S) /\ l.b.waitingDrain \in BOOLEAN
         /\ l.b.exits \in Nat /\ l.wire \in Seq(S)
         /\ Len(l.wire) \in Nat /\ Len(l.b.pending) \in Nat
<1>1. PICK b : b = l.b
  OBVIOUS
<1>2. b \in Bridges(S) /\ l.wire \in Seq(S)
  BY <1>1 DEF Links
<1>3. b.up \in BOOLEAN /\ b.pending \in Seq(S) /\ b.waitingDrain \in BOOLEAN /\ b.exits \in Nat
  BY <1>2 DEF Bridges
<1> QED
  BY <1>1, <1>2, <1>3, LenProperties

LEMMA BridgeParts ==
  ASSUME NEW S, NEW l \in Links(S), NEW p \in Seq(S), NEW c \in BOOLEAN
  PROVE  /\ [l.b EXCEPT !.waitingDrain = c] = BridgeOf(l.b.up, l.b.pending, c, l.b.exits)
         /\ [l EXCEPT !.b.pending = p]
              = [b |-> BridgeOf(l.b.up, p, l.b.waitingDrain, l.b.exits), wire |-> l.wire]
<1>1. PICK b : b = l.b
  OBVIOUS
<1>2. b \in Bridges(S) /\ l.wire \in Seq(S)
  BY <1>1 DEF Links
<1>3. [b EXCEPT !.waitingDrain = c] = BridgeOf(b.up, b.pending, c, b.exits)
  BY <1>2 DEF Bridges, BridgeOf
<1>4. [b EXCEPT !.pending = p] = BridgeOf(b.up, p, b.waitingDrain, b.exits)
  BY <1>2 DEF Bridges, BridgeOf
<1>5. [l EXCEPT !.b.pending = p] = [b |-> [b EXCEPT !.pending = p], wire |-> l.wire]
  BY <1>1 DEF Links
<1> QED
  BY <1>1, <1>3, <1>4, <1>5

LEMMA FlushKeeps ==
  ASSUME NEW S, NEW l \in Links(S)
  PROVE  /\ FlushPending(l) \in Links(S)
         /\ Whole(FlushPending(l)) = Whole(l) /\ LinkWaits(FlushPending(l))
         /\ FlushPending(l).b.up = l.b.up /\ FlushPending(l).b.exits = l.b.exits
<1>1. CASE ~l.b.up \/ l.b.waitingDrain \/ l.b.pending = <<>>
  BY <1>1 DEF FlushPending, LinkWaits
<1>2. CASE ~(~l.b.up \/ l.b.waitingDrain \/ l.b.pending = <<>>)
  <2>1. PICK room : room = IF Len(l.wire) >= WireMark THEN 1 ELSE WireMark - Len(l.wire)
    OBVIOUS
  <2>2. PICK n : n = IF Len(l.b.pending) < room THEN Len(l.b.pending) ELSE room
    OBVIOUS
  <2>3. /\ l.b.pending \in Seq(S) /\ l.wire \in Seq(S) /\ WireMark \in Nat /\ WireMark > 0
        /\ Len(l.wire) \in Nat /\ Len(l.b.pending) \in Nat
    <3>1. WireMark \in Nat \ {0}
      BY ForwardAssumption
    <3> QED
      BY <3>1, LinkTyped
  <2>4. /\ n \in 0..Len(l.b.pending) /\ room \in Nat
        /\ n = Len(l.b.pending) \/ Len(l.wire) + n >= WireMark
    <3>1. PICK x, y \in Nat : x = Len(l.wire) /\ y = Len(l.b.pending)
      BY <2>3
    <3>2. room \in Nat /\ x + room >= WireMark
      <4>1. room = IF x >= WireMark THEN 1 ELSE WireMark - x
        BY <2>1, <3>1
      <4> QED
        BY <2>3, <4>1
    <3>3. n \in 0..y /\ (n = y \/ n = room)
      BY <2>2, <3>1, <3>2
    <3> QED
      BY <2>3, <3>1, <3>2, <3>3
  <2>5. PICK w, p : w = l.wire \o SubSeq(l.b.pending, 1, n) /\ p = SubSeq(l.b.pending, n + 1, Len(l.b.pending))
    OBVIOUS
  <2>6. /\ w \in Seq(S) /\ p \in Seq(S) /\ w \o p = l.wire \o l.b.pending
        /\ Len(w) = Len(l.wire) + n /\ (p = <<>> <=> n = Len(l.b.pending))
    <3>1. PICK x, y : x = l.wire /\ y = l.b.pending
      OBVIOUS
    <3>2. x \in Seq(S) /\ y \in Seq(S) /\ n \in 0..Len(y)
      BY <2>3, <2>4, <3>1
    <3>3. /\ x \o SubSeq(y, 1, n) \in Seq(S) /\ SubSeq(y, n + 1, Len(y)) \in Seq(S)
          /\ (x \o SubSeq(y, 1, n)) \o SubSeq(y, n + 1, Len(y)) = x \o y
          /\ Len(x \o SubSeq(y, 1, n)) = Len(x) + n
          /\ SubSeq(y, n + 1, Len(y)) = <<>> <=> n = Len(y)
      BY <3>2, MovedForward
    <3>4. w = x \o SubSeq(y, 1, n) /\ p = SubSeq(y, n + 1, Len(y))
      BY <2>5, <3>1, Zenon
    <3>5. /\ w \in Seq(S) /\ p \in Seq(S) /\ w \o p = x \o y
          /\ Len(w) = Len(x) + n /\ (p = <<>> <=> n = Len(y))
      BY <3>3, <3>4, Zenon
    <3> QED
      BY <3>1, <3>5, Zenon
  <2>7. FlushPending(l) = [b |-> [l.b EXCEPT !.pending = p, !.waitingDrain = Len(w) >= WireMark], wire |-> w]
    BY <1>2, <2>1, <2>2, <2>5 DEF FlushPending
  <2>8. \E c \in BOOLEAN : c <=> Len(w) >= WireMark
    BY Zenon
  <2>9. PICK c \in BOOLEAN : c <=> Len(w) >= WireMark
    BY <2>8
  <2>10. (Len(w) >= WireMark) = c
    BY <2>9
  <2>11. FlushPending(l) = [b |-> [l.b EXCEPT !.pending = p, !.waitingDrain = c], wire |-> w]
    BY <2>7, <2>10, Zenon
  <2>12. [l.b EXCEPT !.pending = p, !.waitingDrain = c] = BridgeOf(l.b.up, p, c, l.b.exits)
    <3>1. PICK b : b = l.b
      OBVIOUS
    <3>2. PICK d : d = [b EXCEPT !.pending = p]
      OBVIOUS
    <3>3. b \in Bridges(S) /\ p \in Seq(S)
      BY <2>6, <3>1 DEF Links
    <3>4. d = BridgeOf(b.up, p, b.waitingDrain, b.exits) /\ d \in Bridges(S)
      BY <3>2, <3>3 DEF Bridges, BridgeOf
    <3>5. [d EXCEPT !.waitingDrain = c] = BridgeOf(b.up, p, c, b.exits)
      BY <3>4 DEF Bridges, BridgeOf
    <3>6. [b EXCEPT !.pending = p, !.waitingDrain = c] = [d EXCEPT !.waitingDrain = c]
      BY <3>2
    <3> QED
      BY <3>1, <3>5, <3>6
  <2>13. FlushPending(l) = [b |-> BridgeOf(l.b.up, p, c, l.b.exits), wire |-> w]
    BY <2>11, <2>12, Zenon
  <2>14. LinkWaits(FlushPending(l))
    <3>1. p # <<>> => c
      BY <2>4, <2>6, <2>9
    <3> QED
      BY <2>13, <3>1 DEF LinkWaits, BridgeOf
  <2>15. FlushPending(l) \in Links(S) /\ Whole(FlushPending(l)) = Whole(l)
    <3>1. l.b.up \in BOOLEAN /\ l.b.exits \in Nat
      BY LinkTyped
    <3>2. Whole(FlushPending(l)) = w \o p
      BY <2>13 DEF Whole, BridgeOf
    <3>3. FlushPending(l) \in Links(S)
      BY <2>6, <2>9, <2>13, <3>1 DEF Links, Bridges, BridgeOf
    <3> QED
      BY <2>6, <3>2, <3>3 DEF Whole
  <2> QED
    BY <2>13, <2>14, <2>15 DEF BridgeOf
<1> QED
  BY <1>1, <1>2

LEMMA SendKeeps ==
  ASSUME NEW S, NEW l \in Links(S), NEW f \in S, LinkWaits(l)
  PROVE  /\ Send(l, f) \in Links(S) /\ LinkWaits(Send(l, f))
         /\ Accepts(l, f) => Whole(Send(l, f)) = Append(Whole(l), f)
         /\ ~Accepts(l, f) => Whole(Send(l, f)) = Whole(l)
         /\ Send(l, f).b.up = l.b.up /\ Send(l, f).b.exits = l.b.exits
<1>1. /\ l.b.pending \in Seq(S) /\ l.wire \in Seq(S) /\ l.b.up \in BOOLEAN /\ l.b.exits \in Nat
      /\ l.b.waitingDrain \in BOOLEAN
  BY LinkTyped
<1>2. CASE Direct(l)
  <2>1. \E c \in BOOLEAN : c <=> Len(l.wire) + 1 >= WireMark
    BY Zenon
  <2>2. PICK c \in BOOLEAN : c <=> Len(l.wire) + 1 >= WireMark
    BY <2>1
  <2>3. PICK w : w = Append(l.wire, f)
    OBVIOUS
  <2>4. l.b.pending = <<>>
    BY <1>2 DEF Direct
  <2>5. Send(l, f) = [b |-> BridgeOf(l.b.up, <<>>, c, l.b.exits), wire |-> w]
    <3>1. (Len(l.wire) + 1 >= WireMark) = c
      BY <2>2
    <3>2. Send(l, f) = WriteFrame(l, f)
      BY <1>2, Zenon DEF Send
    <3>3. Send(l, f) = [b |-> [l.b EXCEPT !.waitingDrain = c], wire |-> w]
      BY <3>1, <3>2, <2>3, Zenon DEF WriteFrame
    <3>4. [l.b EXCEPT !.waitingDrain = c] = BridgeOf(l.b.up, l.b.pending, c, l.b.exits)
      BY <1>1, BridgeParts
    <3> QED
      BY <2>4, <3>3, <3>4, Zenon
  <2>6. w \in Seq(S) /\ <<>> \in Seq(S)
    BY <1>1, <2>3
  <2>7. Send(l, f) \in Links(S) /\ LinkWaits(Send(l, f))
    BY <1>1, <2>5, <2>6 DEF Links, LinkWaits, Bridges, BridgeOf
  <2>8. Whole(Send(l, f)) = Append(Whole(l), f)
    <3>1. Whole(Send(l, f)) = w \o <<>> /\ Whole(l) = l.wire \o <<>>
      <4>1. Send(l, f).wire = w /\ Send(l, f).b.pending = <<>>
        BY <2>5 DEF BridgeOf
      <4> QED
        BY <2>4, <4>1, Zenon DEF Whole
    <3>2. w \o <<>> = w /\ l.wire \o <<>> = l.wire
      BY <1>1, <2>6, ConcatEmptySeq
    <3> QED
      BY <2>3, <3>1, <3>2
  <2> QED
    BY <1>2, <2>5, <2>7, <2>8 DEF Accepts, BridgeOf
<1>3. CASE ~Direct(l) /\ QueueFits(l, f)
  <2>1. PICK p : p = Append(l.b.pending, f)
    OBVIOUS
  <2>2. PICK m : m = QueueFrame(l, f)
    OBVIOUS
  <2>3. p \in Seq(S)
    BY <1>1, <2>1
  <2>4. m = [b |-> BridgeOf(l.b.up, p, l.b.waitingDrain, l.b.exits), wire |-> l.wire]
    <3>1. m = [l EXCEPT !.b.pending = p]
      BY <1>3, <2>1, <2>2 DEF QueueFrame
    <3> QED
      BY <1>1, <2>3, <3>1, BridgeParts
  <2>5. m \in Links(S) /\ m.b.up = l.b.up /\ m.b.exits = l.b.exits /\ m.wire = l.wire /\ m.b.pending = p
    BY <1>1, <2>3, <2>4 DEF Links, Bridges, BridgeOf
  <2>6. Send(l, f) = FlushPending(m)
    BY <1>3, <2>2 DEF Send
  <2>7. Whole(m) = Append(Whole(l), f)
    <3>1. PICK x, y : x = l.wire /\ y = l.b.pending
      OBVIOUS
    <3>2. x \in Seq(S) /\ y \in Seq(S) /\ p = Append(y, f)
      BY <1>1, <2>1, <3>1
    <3>3. x \o Append(y, f) = Append(x \o y, f)
      BY <3>2, AppendBehind
    <3> QED
      BY <2>5, <3>1, <3>2, <3>3 DEF Whole
  <2> QED
    BY <1>3, <2>5, <2>6, <2>7, FlushKeeps DEF Accepts
<1>4. CASE ~Direct(l) /\ ~QueueFits(l, f)
  BY <1>4 DEF Send, Accepts
<1> QED
  BY <1>2, <1>3, <1>4
-----------------------------------------------------------------------------
(* What one frame changes.                                                   *)

Kinds == {"tcp_open", "tcp_data", "tcp_eof", "tcp_close"}

SameWay(q, r, id) ==
  /\ \A t \in Kinds : Has(Frame(t, id), r) <=> Has(Frame(t, id), q)
  /\ \A ok \in BOOLEAN : Has(OpenedFrame(id, ok), r) <=> Has(OpenedFrame(id, ok), q)
  /\ Num(Frame("tcp_data", id), r) = Num(Frame("tcp_data", id), q)

LEMMA KindsKnown == "tcp_open" \in Kinds /\ "tcp_data" \in Kinds /\ "tcp_eof" \in Kinds /\ "tcp_close" \in Kinds
BY DEF Kinds

LEMMA FramesDiffer ==
  /\ \A t, u, i, j : Frame(t, i) = Frame(u, j) <=> t = u /\ i = j
  /\ \A t \in Kinds : \A i, j, ok : Frame(t, i) # OpenedFrame(j, ok)
  /\ \A i, j, ok, ko : OpenedFrame(i, ok) = OpenedFrame(j, ko) <=> i = j /\ ok = ko
  /\ \A t, i : Frame(t, i).id = i /\ Frame(t, i).t = t
  /\ \A i, ok : OpenedFrame(i, ok).id = i /\ OpenedFrame(i, ok).t = "tcp_opened" /\ OpenedFrame(i, ok).ok = ok
<1>1. \A t, i : Frame(t, i).id = i /\ Frame(t, i).t = t
  BY DEF Frame
<1>2. \A i, ok : OpenedFrame(i, ok).id = i /\ OpenedFrame(i, ok).t = "tcp_opened" /\ OpenedFrame(i, ok).ok = ok
  BY DEF OpenedFrame
<1>3. "tcp_opened" \notin Kinds
  BY DEF Kinds
<1> QED
  BY <1>1, <1>2, <1>3

LEMMA AppendElsewhere ==
  ASSUME NEW S, NEW q \in Seq(S), NEW f \in S, NEW id, f.id # id
  PROVE  SameWay(q, Append(q, f), id)
<1>1. (\A t \in Kinds : f # Frame(t, id)) /\ (\A ok \in BOOLEAN : f # OpenedFrame(id, ok)) /\ f # Frame("tcp_data", id)
  BY FramesDiffer
<1>2. \A t \in Kinds : Has(Frame(t, id), Append(q, f)) <=> Has(Frame(t, id), q)
  BY <1>1, AppendHas
<1>3. \A ok \in BOOLEAN : Has(OpenedFrame(id, ok), Append(q, f)) <=> Has(OpenedFrame(id, ok), q)
  BY <1>1, AppendHas
<1>4. Num(Frame("tcp_data", id), Append(q, f)) = Num(Frame("tcp_data", id), q)
  BY <1>1, AppendNum
<1> QED
  BY <1>2, <1>3, <1>4 DEF SameWay

LEMMA TailElsewhere ==
  ASSUME NEW S, NEW q \in Seq(S), q # <<>>, NEW id, Head(q).id # id
  PROVE  SameWay(q, Tail(q), id)
<1>1. PICK f : f = Head(q)
  OBVIOUS
<1>2. (\A t \in Kinds : f # Frame(t, id)) /\ (\A ok \in BOOLEAN : f # OpenedFrame(id, ok)) /\ f # Frame("tcp_data", id)
  BY <1>1, FramesDiffer
<1>3. \A t \in Kinds : Has(Frame(t, id), Tail(q)) <=> Has(Frame(t, id), q)
  BY <1>1, <1>2, TailHas
<1>4. \A ok \in BOOLEAN : Has(OpenedFrame(id, ok), Tail(q)) <=> Has(OpenedFrame(id, ok), q)
  BY <1>1, <1>2, TailHas
<1>5. Num(Frame("tcp_data", id), Tail(q)) = Num(Frame("tcp_data", id), q)
  BY <1>1, <1>2, TailNum
<1> QED
  BY <1>3, <1>4, <1>5 DEF SameWay

LEMMA AppendHere ==
  ASSUME NEW S, NEW q \in Seq(S), NEW id, NEW u \in Kinds, Frame(u, id) \in S
  PROVE  /\ \A t \in Kinds : Has(Frame(t, id), Append(q, Frame(u, id))) <=> Has(Frame(t, id), q) \/ t = u
         /\ \A ok \in BOOLEAN : Has(OpenedFrame(id, ok), Append(q, Frame(u, id))) <=> Has(OpenedFrame(id, ok), q)
         /\ Num(Frame("tcp_data", id), Append(q, Frame(u, id)))
              = IF u = "tcp_data" THEN Num(Frame("tcp_data", id), q) + 1 ELSE Num(Frame("tcp_data", id), q)
<1>1. PICK f : f = Frame(u, id)
  OBVIOUS
<1>2. /\ \A t \in Kinds : f = Frame(t, id) <=> t = u
      /\ \A ok \in BOOLEAN : f # OpenedFrame(id, ok)
      /\ "tcp_data" \in Kinds /\ f \in S
  BY <1>1, FramesDiffer DEF Kinds
<1>3. \A t \in Kinds : Has(Frame(t, id), Append(q, f)) <=> Has(Frame(t, id), q) \/ t = u
  BY <1>2, AppendHas
<1>4. \A ok \in BOOLEAN : Has(OpenedFrame(id, ok), Append(q, f)) <=> Has(OpenedFrame(id, ok), q)
  BY <1>2, AppendHas
<1>5. Num(Frame("tcp_data", id), Append(q, f))
        = IF u = "tcp_data" THEN Num(Frame("tcp_data", id), q) + 1 ELSE Num(Frame("tcp_data", id), q)
  BY <1>2, AppendNum
<1> QED
  BY <1>1, <1>3, <1>4, <1>5

LEMMA AppendOpened ==
  ASSUME NEW S, NEW q \in Seq(S), NEW id, NEW b \in BOOLEAN, OpenedFrame(id, b) \in S
  PROVE  /\ \A t \in Kinds : Has(Frame(t, id), Append(q, OpenedFrame(id, b))) <=> Has(Frame(t, id), q)
         /\ \A ok \in BOOLEAN : Has(OpenedFrame(id, ok), Append(q, OpenedFrame(id, b)))
              <=> Has(OpenedFrame(id, ok), q) \/ ok = b
         /\ Num(Frame("tcp_data", id), Append(q, OpenedFrame(id, b))) = Num(Frame("tcp_data", id), q)
<1>1. PICK f : f = OpenedFrame(id, b)
  OBVIOUS
<1>2. /\ \A t \in Kinds : f # Frame(t, id)
      /\ \A ok \in BOOLEAN : f = OpenedFrame(id, ok) <=> ok = b
      /\ "tcp_data" \in Kinds /\ f \in S
  BY <1>1, FramesDiffer DEF Kinds
<1>3. \A t \in Kinds : Has(Frame(t, id), Append(q, f)) <=> Has(Frame(t, id), q)
  BY <1>2, AppendHas
<1>4. \A ok \in BOOLEAN : Has(OpenedFrame(id, ok), Append(q, f)) <=> Has(OpenedFrame(id, ok), q) \/ ok = b
  BY <1>2, AppendHas
<1>5. Num(Frame("tcp_data", id), Append(q, f)) = Num(Frame("tcp_data", id), q)
  BY <1>2, AppendNum
<1> QED
  BY <1>1, <1>3, <1>4, <1>5

LEMMA TailHere ==
  ASSUME NEW S, NEW q \in Seq(S), q # <<>>, NEW id, NEW u \in Kinds, Head(q) = Frame(u, id)
  PROVE  /\ \A t \in Kinds : Has(Frame(t, id), q) <=> Has(Frame(t, id), Tail(q)) \/ t = u
         /\ \A ok \in BOOLEAN : Has(OpenedFrame(id, ok), q) <=> Has(OpenedFrame(id, ok), Tail(q))
         /\ Num(Frame("tcp_data", id), q) = IF u = "tcp_data" THEN Num(Frame("tcp_data", id), Tail(q)) + 1
                                            ELSE Num(Frame("tcp_data", id), Tail(q))
<1>1. PICK f : f = Head(q)
  OBVIOUS
<1>2. /\ \A t \in Kinds : f = Frame(t, id) <=> t = u
      /\ \A ok \in BOOLEAN : f # OpenedFrame(id, ok)
      /\ "tcp_data" \in Kinds
  BY <1>1, FramesDiffer DEF Kinds
<1>3. \A t \in Kinds : Has(Frame(t, id), q) <=> Has(Frame(t, id), Tail(q)) \/ t = u
  BY <1>1, <1>2, TailHas
<1>4. \A ok \in BOOLEAN : Has(OpenedFrame(id, ok), q) <=> Has(OpenedFrame(id, ok), Tail(q))
  BY <1>1, <1>2, TailHas
<1>5. Num(Frame("tcp_data", id), q) = IF u = "tcp_data" THEN Num(Frame("tcp_data", id), Tail(q)) + 1
                                      ELSE Num(Frame("tcp_data", id), Tail(q))
  BY <1>1, <1>2, TailNum
<1> QED
  BY <1>3, <1>4, <1>5

LEMMA TailOpened ==
  ASSUME NEW S, NEW q \in Seq(S), q # <<>>, NEW id, NEW b \in BOOLEAN, Head(q) = OpenedFrame(id, b)
  PROVE  /\ \A t \in Kinds : Has(Frame(t, id), q) <=> Has(Frame(t, id), Tail(q))
         /\ \A ok \in BOOLEAN : Has(OpenedFrame(id, ok), q) <=> Has(OpenedFrame(id, ok), Tail(q)) \/ ok = b
         /\ Num(Frame("tcp_data", id), q) = Num(Frame("tcp_data", id), Tail(q))
<1>1. PICK f : f = Head(q)
  OBVIOUS
<1>2. /\ \A t \in Kinds : f # Frame(t, id)
      /\ \A ok \in BOOLEAN : f = OpenedFrame(id, ok) <=> ok = b
      /\ "tcp_data" \in Kinds
  BY <1>1, FramesDiffer DEF Kinds
<1>3. \A t \in Kinds : Has(Frame(t, id), q) <=> Has(Frame(t, id), Tail(q))
  BY <1>1, <1>2, TailHas
<1>4. \A ok \in BOOLEAN : Has(OpenedFrame(id, ok), q) <=> Has(OpenedFrame(id, ok), Tail(q)) \/ ok = b
  BY <1>1, <1>2, TailHas
<1>5. Num(Frame("tcp_data", id), q) = Num(Frame("tcp_data", id), Tail(q))
  BY <1>1, <1>2, TailNum
<1> QED
  BY <1>3, <1>4, <1>5

LEMMA StreamKept ==
  ASSUME NEW id, StreamInv(id),
         streams'[id] = streams[id], guest'.conns[id] = guest.conns[id], backends'[id] = backends[id],
         SameWay(OutQueue, OutQueue', id), SameWay(InQueue, InQueue', id),
         bridge'.exits = bridge.exits
  PROVE  StreamInv(id)'
<1>1. /\ \A t \in Kinds : Has(Frame(t, id), OutQueue') <=> Has(Frame(t, id), OutQueue)
      /\ \A t \in Kinds : Has(Frame(t, id), InQueue') <=> Has(Frame(t, id), InQueue)
      /\ \A ok \in BOOLEAN : Has(OpenedFrame(id, ok), InQueue') <=> Has(OpenedFrame(id, ok), InQueue)
      /\ Num(Frame("tcp_data", id), OutQueue') = Num(Frame("tcp_data", id), OutQueue)
      /\ Num(Frame("tcp_data", id), InQueue') = Num(Frame("tcp_data", id), InQueue)
  BY DEF SameWay
<1>2. NotYetThere(id)'
  BY <1>1, KindsKnown DEF StreamInv, NotYetThere
<1>3. BooksKept(id)'
  BY DEF StreamInv, BooksKept
<1>4. UploadCounted(id)'
  BY <1>1, KindsKnown DEF StreamInv, UploadCounted, CutsCaused
<1>5. DownloadCounted(id)'
  BY <1>1, KindsKnown DEF StreamInv, DownloadCounted
<1>6. SidesTold(id)'
  BY <1>1, KindsKnown DEF StreamInv, SidesTold
<1> QED
  BY <1>2, <1>3, <1>4, <1>5, <1>6 DEF StreamInv
-----------------------------------------------------------------------------
(* The host's steps.                                                         *)

LEMMA QueuesTyped ==
  ASSUME ForwardTyped
  PROVE  /\ bridge \in Bridges(OutFrames) /\ BridgeLink \in Links(OutFrames)
         /\ Whole(BridgeLink) = OutQueue
         /\ OutQueue \in Seq(OutFrames) /\ InQueue \in Seq(InFrames)
         /\ guest.conns \in [Ids -> ConnRecords] /\ guest.writer \in Seq(InFrames)
         /\ bridge.pending \in Seq(OutFrames) /\ bridge.exits \in Nat
<1>1. bridge \in Bridges(OutFrames)
  BY DEF ForwardTyped, BridgeRecords, Bridges
<1>2. BridgeLink \in Links(OutFrames) /\ Whole(BridgeLink) = OutQueue
  BY <1>1 DEF ForwardTyped, BridgeLink, Links, Whole, OutQueue
<1>3. guest.conns \in [Ids -> ConnRecords] /\ guest.writer \in Seq(InFrames)
  BY DEF ForwardTyped, GuestRecords
<1>4. bridge.pending \in Seq(OutFrames) /\ bridge.exits \in Nat
  BY <1>1 DEF Bridges
<1>5. toHost \in Seq(InFrames) /\ toGuest \in Seq(OutFrames)
  BY DEF ForwardTyped
<1>6. OutQueue \in Seq(OutFrames) /\ InQueue \in Seq(InFrames)
  BY <1>3, <1>4, <1>5, ConcatProperties DEF OutQueue, InQueue
<1> QED
  BY <1>1, <1>2, <1>3, <1>4, <1>6

LEMMA FramesTyped ==
  ASSUME NEW id \in Ids
  PROVE  /\ \A t \in Kinds : Frame(t, id) \in OutFrames
         /\ \A t \in {"tcp_data", "tcp_close"} : Frame(t, id) \in InFrames
         /\ \A ok \in BOOLEAN : OpenedFrame(id, ok) \in InFrames
BY DEF Kinds, Frame, OpenedFrame, OutFrames, InFrames

LEMMA ForwardParts ==
  ASSUME ForwardInv
  PROVE  /\ ForwardTyped /\ OutOrdered(OutQueue) /\ InOrdered(InQueue) /\ BridgeWaits
         /\ \A id \in Ids : StreamInv(id)
         /\ \A id \in Ids : streams[id] \in StreamRecords /\ guest.conns[id] \in ConnRecords
                            /\ backends[id] \in BackendRecords
<1>1. ForwardTyped /\ QueuesOrdered
  BY DEF ForwardInv
<1>2. guest.conns \in [Ids -> ConnRecords]
  BY <1>1, QueuesTyped
<1> QED
  BY <1>1, <1>2 DEF ForwardInv, QueuesOrdered, ForwardTyped

LEMMA SameQueue ==
  ASSUME NEW q, NEW id
  PROVE  SameWay(q, q, id)
BY DEF SameWay

LEMMA LinkTaken ==
  ASSUME ForwardTyped, NEW l \in Links(OutFrames), LinkWaits(l), SetLink(l), setup' = setup
  PROVE  /\ bridge' \in BridgeRecords /\ toGuest' \in Seq(OutFrames) /\ BridgeWaits'
         /\ OutQueue' = Whole(l) /\ Ids' = Ids
         /\ bridge' = l.b
<1>1. bridge' = l.b /\ toGuest' = l.wire
  BY DEF SetLink
<1>2. bridge' \in BridgeRecords /\ toGuest' \in Seq(OutFrames)
  BY <1>1 DEF Links, Bridges, BridgeRecords
<1>3. BridgeWaits'
  BY <1>1 DEF BridgeWaits, LinkWaits
<1>4. OutQueue' = Whole(l)
  BY <1>1 DEF OutQueue, Whole
<1> QED
  BY <1>1, <1>2, <1>3, <1>4 DEF Ids

LEMMA HostSends ==
  ASSUME ForwardInv, NEW k \in Ids, NEW u \in Kinds, setup' = setup,
         SetLink(Send(BridgeLink, Frame(u, k)))
  PROVE  /\ bridge' \in BridgeRecords /\ toGuest' \in Seq(OutFrames) /\ BridgeWaits'
         /\ bridge'.exits = bridge.exits /\ Ids' = Ids
         /\ Accepts(BridgeLink, Frame(u, k)) => OutQueue' = Append(OutQueue, Frame(u, k))
         /\ ~Accepts(BridgeLink, Frame(u, k)) => OutQueue' = OutQueue
<1>1. PICK l, f, m : l = BridgeLink /\ f = Frame(u, k) /\ m = Send(BridgeLink, Frame(u, k))
  OBVIOUS
<1>2. l \in Links(OutFrames) /\ f \in OutFrames /\ Whole(l) = OutQueue /\ l.b = bridge
  BY <1>1, ForwardParts, QueuesTyped, FramesTyped DEF BridgeLink
<1>3. LinkWaits(l)
  BY <1>2, ForwardParts DEF BridgeWaits, LinkWaits
<1>4. /\ Send(l, f) \in Links(OutFrames) /\ LinkWaits(Send(l, f))
      /\ Accepts(l, f) => Whole(Send(l, f)) = Append(Whole(l), f)
      /\ ~Accepts(l, f) => Whole(Send(l, f)) = Whole(l)
      /\ Send(l, f).b.exits = l.b.exits
  BY <1>2, <1>3, SendKeeps
<1>5. m \in Links(OutFrames) /\ LinkWaits(m) /\ SetLink(m) /\ m = Send(l, f)
  BY <1>1, <1>4
<1>6. /\ bridge' \in BridgeRecords /\ toGuest' \in Seq(OutFrames) /\ BridgeWaits'
      /\ OutQueue' = Whole(m) /\ Ids' = Ids /\ bridge' = m.b
  BY <1>5, ForwardParts, LinkTaken
<1> QED
  BY <1>1, <1>2, <1>4, <1>5, <1>6

\* A frame of stream k, and a change of stream k alone.
LEMMA HostStepKeeps ==
  ASSUME ForwardInv, NEW k \in Ids, NEW u \in Kinds,
         SetLink(Send(BridgeLink, Frame(u, k))), UNCHANGED <<setup, toHost, guest, backends>>,
         streams' \in [Ids -> StreamRecords], \A id \in Ids \ {k} : streams'[id] = streams[id],
         u = "tcp_open" => streams[k].call = "none",
         u = "tcp_data" => ~streams[k].ended,
         StreamInv(k)'
  PROVE  ForwardInv'
<1>1. /\ bridge' \in BridgeRecords /\ toGuest' \in Seq(OutFrames) /\ BridgeWaits'
      /\ bridge'.exits = bridge.exits /\ Ids' = Ids
      /\ Accepts(BridgeLink, Frame(u, k)) => OutQueue' = Append(OutQueue, Frame(u, k))
      /\ ~Accepts(BridgeLink, Frame(u, k)) => OutQueue' = OutQueue
  BY HostSends
<1>2. PICK f : f = Frame(u, k) /\ f \in OutFrames /\ f.id = k /\ f.t = u
  BY FramesTyped, FramesDiffer
<1>3. OutQueue' = Append(OutQueue, f) \/ OutQueue' = OutQueue
  BY <1>1, <1>2
<1>4. InQueue' = InQueue /\ guest'.conns = guest.conns
  BY DEF InQueue
<1>5. ForwardTyped /\ OutQueue \in Seq(OutFrames) /\ OutOrdered(OutQueue) /\ InOrdered(InQueue)
  BY ForwardParts, QueuesTyped
<1>6. ForwardTyped'
  <2>1. OutFrames' = OutFrames /\ InFrames' = InFrames /\ BridgeRecords' = BridgeRecords
        /\ GuestRecords' = GuestRecords
    BY <1>1 DEF OutFrames, InFrames, BridgeRecords, GuestRecords
  <2> QED
    BY <1>1, <1>5, <2>1 DEF ForwardTyped
<1>7. OutOrdered(OutQueue')
  <2>1. u = "tcp_open" => \A g \in OutFrames : g.id = f.id => ~Has(g, OutQueue)
    <3>1. SUFFICES ASSUME u = "tcp_open", NEW g \in OutFrames, g.id = k, Has(g, OutQueue) PROVE FALSE
      BY <1>2
    <3>2. NotYetThere(k) /\ streams[k].call = "none"
      BY <3>1, ForwardParts DEF StreamInv
    <3>3. g = Frame(g.t, k) /\ g.t \in Kinds
      BY <3>1 DEF OutFrames, Frame, Kinds
    <3>4. \A t \in Kinds : ~Has(Frame(t, k), OutQueue)
      BY <3>2 DEF NotYetThere, Kinds
    <3> QED
      BY <3>1, <3>3, <3>4
  <2>2. u = "tcp_data" => \A g \in OutFrames : g.t = "tcp_eof" /\ g.id = f.id => ~Has(g, OutQueue)
    <3>1. SUFFICES ASSUME u = "tcp_data", NEW g \in OutFrames, g.t = "tcp_eof", g.id = k, Has(g, OutQueue)
                   PROVE FALSE
      BY <1>2
    <3>2. UploadCounted(k) /\ ~streams[k].ended
      BY <3>1, ForwardParts DEF StreamInv
    <3>3. g = Frame("tcp_eof", k)
      BY <3>1 DEF OutFrames, Frame
    <3> QED
      BY <3>1, <3>2, <3>3 DEF UploadCounted, CutsCaused
  <2> QED
    BY <1>2, <1>3, <1>5, <2>1, <2>2, OutAppendOrdered
<1>8. ASSUME NEW id \in Ids \ {k} PROVE StreamInv(id)'
  <2>1. SameWay(OutQueue, OutQueue', id)
    BY <1>2, <1>3, <1>5, SameQueue, AppendElsewhere
  <2>2. SameWay(InQueue, InQueue', id)
    BY <1>4, SameQueue
  <2> QED
    BY <1>1, <1>4, <1>8, <2>1, <2>2, ForwardParts, StreamKept
<1> QED
  BY <1>1, <1>4, <1>5, <1>6, <1>7, <1>8 DEF ForwardInv, QueuesOrdered

\* What a step of the host does to the queue to the guest, at its own stream.
LEMMA HostAdds ==
  ASSUME ForwardInv, NEW k \in Ids, NEW u \in Kinds,
         SetLink(Send(BridgeLink, Frame(u, k))), UNCHANGED <<setup, toHost, guest, backends>>
  PROVE  /\ \A t \in Kinds : Has(Frame(t, k), OutQueue')
              <=> Has(Frame(t, k), OutQueue) \/ (t = u /\ Accepts(BridgeLink, Frame(u, k)))
         /\ Num(Frame("tcp_data", k), OutQueue')
              = IF u = "tcp_data" /\ Accepts(BridgeLink, Frame(u, k))
                THEN Num(Frame("tcp_data", k), OutQueue) + 1 ELSE Num(Frame("tcp_data", k), OutQueue)
         /\ InQueue' = InQueue /\ guest'.conns = guest.conns /\ bridge'.exits = bridge.exits
         /\ Num(Frame("tcp_data", k), OutQueue) \in Nat
         /\ Num(Frame("tcp_data", k), InQueue) \in Nat
<1>1. /\ bridge'.exits = bridge.exits
      /\ Accepts(BridgeLink, Frame(u, k)) => OutQueue' = Append(OutQueue, Frame(u, k))
      /\ ~Accepts(BridgeLink, Frame(u, k)) => OutQueue' = OutQueue
  BY HostSends
<1>2. OutQueue \in Seq(OutFrames) /\ InQueue \in Seq(InFrames) /\ Frame(u, k) \in OutFrames
  BY ForwardParts, QueuesTyped, FramesTyped
<1>3. /\ \A t \in Kinds : Has(Frame(t, k), Append(OutQueue, Frame(u, k))) <=> Has(Frame(t, k), OutQueue) \/ t = u
      /\ Num(Frame("tcp_data", k), Append(OutQueue, Frame(u, k)))
           = IF u = "tcp_data" THEN Num(Frame("tcp_data", k), OutQueue) + 1 ELSE Num(Frame("tcp_data", k), OutQueue)
  BY <1>2, AppendHere
<1>4. Num(Frame("tcp_data", k), OutQueue) \in Nat /\ Num(Frame("tcp_data", k), InQueue) \in Nat
  BY <1>2, PlacesFinite
<1>5. InQueue' = InQueue /\ guest'.conns = guest.conns
  BY DEF InQueue
<1>6. CASE Accepts(BridgeLink, Frame(u, k))
  BY <1>1, <1>3, <1>4, <1>5, <1>6
<1>7. CASE ~Accepts(BridgeLink, Frame(u, k))
  BY <1>1, <1>4, <1>5, <1>7
<1> QED
  BY <1>6, <1>7

LEMMA DestroyedParts ==
  ASSUME NEW s \in StreamRecords
  PROVE  /\ Destroyed(s) \in StreamRecords
         /\ Destroyed(s).destroyed /\ ~Destroyed(s).listed
         /\ Destroyed(s).call = IF s.call \in {"none", "pending"} THEN "failed" ELSE s.call
         /\ Destroyed(s).closedByRemote = s.closedByRemote /\ Destroyed(s).closeLost = s.closeLost
         /\ Destroyed(s).ended = s.ended /\ Destroyed(s).written = s.written
         /\ Destroyed(s).pushed = s.pushed /\ Destroyed(s).read = s.read
<1>1. PICK c : c = IF s.call \in {"none", "pending"} THEN "failed" ELSE s.call
  OBVIOUS
<1>2. c \in {"none", "pending", "ok", "failed"}
  BY <1>1 DEF StreamRecords
<1>3. Destroyed(s) = [s EXCEPT !.destroyed = TRUE, !.listed = FALSE, !.call = c]
  BY <1>1 DEF Destroyed
<1>4. /\ s.listed \in BOOLEAN /\ s.closedByRemote \in BOOLEAN /\ s.closeLost \in BOOLEAN /\ s.ended \in BOOLEAN
      /\ s.written \in Nat /\ s.pushed \in Nat /\ s.read \in Nat
  BY DEF StreamRecords
<1>5. Destroyed(s) = [call |-> c, listed |-> FALSE, destroyed |-> TRUE, closedByRemote |-> s.closedByRemote,
                      closeLost |-> s.closeLost, ended |-> s.ended, written |-> s.written,
                      pushed |-> s.pushed, read |-> s.read]
  BY <1>3 DEF StreamRecords
<1> QED
  BY <1>1, <1>2, <1>4, <1>5 DEF StreamRecords

LEMMA DestroyKeeps ==
  ASSUME ForwardInv, NEW k \in Ids, Destroy(k), UNCHANGED <<setup, toHost, guest, backends>>
  PROVE  ForwardInv'
<1>0. \E a \in BOOLEAN : a <=> Accepts(BridgeLink, Frame("tcp_close", k))
  BY Zenon
<1>1. PICK accepted \in BOOLEAN : accepted <=> Accepts(BridgeLink, Frame("tcp_close", k))
  BY <1>0
<1>2. PICK d : d = Destroyed(streams[k])
  OBVIOUS
<1>3. /\ streams[k] \in StreamRecords /\ StreamInv(k) /\ ForwardTyped
      /\ guest.conns[k] \in ConnRecords /\ backends[k] \in BackendRecords
  BY ForwardParts
<1>4. /\ d \in StreamRecords
      /\ d.destroyed /\ ~d.listed
      /\ d.call = IF streams[k].call \in {"none", "pending"} THEN "failed" ELSE streams[k].call
      /\ d.closedByRemote = streams[k].closedByRemote
      /\ d.ended = streams[k].ended /\ d.written = streams[k].written
      /\ d.pushed = streams[k].pushed /\ d.read = streams[k].read
  BY <1>2, <1>3, DestroyedParts
<1>5. PICK lost \in BOOLEAN : lost = ~accepted
  OBVIOUS
<1>6. streams' = [streams EXCEPT ![k] = [d EXCEPT !.closeLost = lost]]
  <2>1. streams' = [streams EXCEPT ![k] = [Destroyed(streams[k]) EXCEPT
                                             !.closeLost = ~Accepts(BridgeLink, Frame("tcp_close", k))]]
    BY DEF Destroy
  <2>2. (~Accepts(BridgeLink, Frame("tcp_close", k))) = lost
    BY <1>1, <1>5
  <2> QED
    BY <1>2, <2>1, <2>2
<1>7. [d EXCEPT !.closeLost = lost] \in StreamRecords
  BY <1>4 DEF StreamRecords
<1>8. /\ streams' \in [Ids -> StreamRecords] /\ \A id \in Ids \ {k} : streams'[id] = streams[id]
      /\ streams'[k] = [d EXCEPT !.closeLost = lost]
  BY <1>3, <1>6, <1>7 DEF ForwardTyped
<1>9. /\ streams'[k].destroyed /\ ~streams'[k].listed /\ streams'[k].closeLost = lost
      /\ streams'[k].call = d.call /\ streams'[k].closedByRemote = d.closedByRemote
      /\ streams'[k].ended = d.ended /\ streams'[k].written = d.written
      /\ streams'[k].pushed = d.pushed /\ streams'[k].read = d.read
  BY <1>4, <1>8 DEF StreamRecords
<1>10. SetLink(Send(BridgeLink, Frame("tcp_close", k)))
  BY DEF Destroy
<1>11. /\ \A t \in Kinds : Has(Frame(t, k), OutQueue') <=> Has(Frame(t, k), OutQueue) \/ (t = "tcp_close" /\ accepted)
       /\ Num(Frame("tcp_data", k), OutQueue') = Num(Frame("tcp_data", k), OutQueue)
       /\ InQueue' = InQueue /\ guest'.conns = guest.conns /\ bridge'.exits = bridge.exits
  <2>1. /\ \A t \in Kinds : Has(Frame(t, k), OutQueue')
              <=> Has(Frame(t, k), OutQueue) \/ (t = "tcp_close" /\ Accepts(BridgeLink, Frame("tcp_close", k)))
        /\ Num(Frame("tcp_data", k), OutQueue') = Num(Frame("tcp_data", k), OutQueue)
        /\ InQueue' = InQueue /\ guest'.conns = guest.conns /\ bridge'.exits = bridge.exits
    BY <1>10, KindsKnown, HostAdds
  <2> QED
    BY <1>1, <2>1
<1>12. StreamInv(k)'
  <2>1. NotYetThere(k)'
    BY <1>3, <1>4, <1>9, <1>11, KindsKnown DEF StreamInv, NotYetThere
  <2>2. BooksKept(k)'
    BY <1>3, <1>4, <1>9, <1>11 DEF StreamInv, BooksKept
  <2>3. UploadCounted(k)'
    BY <1>3, <1>4, <1>9, <1>11, KindsKnown DEF StreamInv, UploadCounted, CutsCaused
  <2>4. DownloadCounted(k)'
    BY <1>3, <1>4, <1>9, <1>11, KindsKnown DEF StreamInv, DownloadCounted
  <2>5. SidesTold(k)'
    BY <1>3, <1>4, <1>5, <1>9, <1>11, KindsKnown DEF StreamInv, SidesTold
  <2> QED
    BY <2>1, <2>2, <2>3, <2>4, <2>5 DEF StreamInv
<1> QED
  BY <1>8, <1>10, <1>12, KindsKnown, HostStepKeeps

LEMMA OpenStreamKeeps ==
  ASSUME ForwardInv, NEW k \in Ids, OpenStream(k)
  PROVE  ForwardInv'
<1>1. CASE ~Accepts(BridgeLink, Frame("tcp_open", k))
  <2>1. Destroy(k) /\ UNCHANGED <<setup, toHost, guest, backends>>
    BY <1>1 DEF OpenStream
  <2> QED
    BY <2>1, DestroyKeeps
<1>2. CASE Accepts(BridgeLink, Frame("tcp_open", k))
  <2>1. /\ streams[k].call = "none" /\ UNCHANGED <<setup, toHost, guest, backends>>
        /\ streams' = [streams EXCEPT ![k].call = "pending", ![k].listed = TRUE]
        /\ SetLink(Send(BridgeLink, Frame("tcp_open", k)))
    BY <1>2 DEF OpenStream
  <2>2. streams[k] \in StreamRecords /\ StreamInv(k) /\ ForwardTyped
    BY ForwardParts
  <2>3. PICK s : s = [streams[k] EXCEPT !.call = "pending", !.listed = TRUE]
    OBVIOUS
  <2>4. s \in StreamRecords
    BY <2>2, <2>3 DEF StreamRecords
  <2>5. /\ s.call = "pending" /\ s.listed
        /\ s.destroyed = streams[k].destroyed /\ s.closedByRemote = streams[k].closedByRemote
        /\ s.closeLost = streams[k].closeLost /\ s.ended = streams[k].ended
        /\ s.written = streams[k].written /\ s.pushed = streams[k].pushed
    BY <2>2, <2>3 DEF StreamRecords
  <2>6. /\ streams' \in [Ids -> StreamRecords] /\ \A id \in Ids \ {k} : streams'[id] = streams[id]
        /\ streams'[k] = s
    BY <2>1, <2>2, <2>3, <2>4 DEF ForwardTyped
  <2>7. /\ \A t \in Kinds : Has(Frame(t, k), OutQueue') <=> Has(Frame(t, k), OutQueue) \/ t = "tcp_open"
        /\ Num(Frame("tcp_data", k), OutQueue') = Num(Frame("tcp_data", k), OutQueue)
        /\ InQueue' = InQueue /\ guest'.conns = guest.conns /\ bridge'.exits = bridge.exits
    BY <1>2, <2>1, KindsKnown, HostAdds
  <2>8. StreamInv(k)'
    <3>1. NotYetThere(k)'
      BY <2>1, <2>2, <2>5, <2>6, <2>7, KindsKnown DEF StreamInv, NotYetThere
    <3>2. BooksKept(k)'
      BY <2>1, <2>2, <2>5, <2>6, <2>7 DEF StreamInv, BooksKept
    <3>3. UploadCounted(k)'
      BY <2>1, <2>2, <2>5, <2>6, <2>7, KindsKnown DEF StreamInv, NotYetThere, UploadCounted, CutsCaused
    <3>4. DownloadCounted(k)'
      BY <2>1, <2>2, <2>5, <2>6, <2>7, KindsKnown DEF StreamInv, NotYetThere, DownloadCounted
    <3>5. SidesTold(k)'
      BY <2>1, <2>2, <2>5, <2>6, <2>7, KindsKnown DEF StreamInv, NotYetThere, SidesTold
    <3> QED
      BY <3>1, <3>2, <3>3, <3>4, <3>5 DEF StreamInv
  <2> QED
    BY <2>1, <2>6, <2>8, KindsKnown, HostStepKeeps
<1> QED
  BY <1>1, <1>2

LEMMA WriteStreamKeeps ==
  ASSUME ForwardInv, NEW k \in Ids, WriteStream(k)
  PROVE  ForwardInv'
<1>1. CASE ~Accepts(BridgeLink, Frame("tcp_data", k))
  <2>1. Destroy(k) /\ UNCHANGED <<setup, toHost, guest, backends>>
    BY <1>1 DEF WriteStream
  <2> QED
    BY <2>1, DestroyKeeps
<1>2. CASE Accepts(BridgeLink, Frame("tcp_data", k))
  <2>1. /\ streams[k].call = "ok" /\ ~streams[k].ended /\ UNCHANGED <<setup, toHost, guest, backends>>
        /\ streams' = [streams EXCEPT ![k].written = @ + 1]
        /\ SetLink(Send(BridgeLink, Frame("tcp_data", k)))
    BY <1>2 DEF WriteStream, Usable
  <2>2. /\ streams[k] \in StreamRecords /\ StreamInv(k) /\ ForwardTyped
        /\ guest.conns[k] \in ConnRecords /\ backends[k] \in BackendRecords
    BY ForwardParts
  <2>3. PICK w \in Nat : w = streams[k].written + 1
    BY <2>2 DEF StreamRecords
  <2>4. PICK s : s = [streams[k] EXCEPT !.written = w]
    OBVIOUS
  <2>5. s \in StreamRecords
    BY <2>2, <2>4 DEF StreamRecords
  <2>6. /\ s.call = streams[k].call /\ s.listed = streams[k].listed
        /\ s.destroyed = streams[k].destroyed /\ s.closedByRemote = streams[k].closedByRemote
        /\ s.closeLost = streams[k].closeLost /\ s.ended = streams[k].ended
        /\ s.written = w /\ s.pushed = streams[k].pushed
    BY <2>2, <2>4 DEF StreamRecords
  <2>7. /\ streams' \in [Ids -> StreamRecords] /\ \A id \in Ids \ {k} : streams'[id] = streams[id]
        /\ streams'[k] = s
    BY <2>1, <2>2, <2>3, <2>4, <2>5 DEF ForwardTyped
  <2>8. /\ \A t \in Kinds : Has(Frame(t, k), OutQueue') <=> Has(Frame(t, k), OutQueue) \/ t = "tcp_data"
        /\ Num(Frame("tcp_data", k), OutQueue') = Num(Frame("tcp_data", k), OutQueue) + 1
        /\ Num(Frame("tcp_data", k), OutQueue) \in Nat
        /\ InQueue' = InQueue /\ guest'.conns = guest.conns /\ bridge'.exits = bridge.exits
    BY <1>2, <2>1, KindsKnown, HostAdds
  <2>9. backends[k].got \in Nat /\ guest.conns[k].pending \in Nat /\ streams[k].written \in Nat
    BY <2>2 DEF BackendRecords, ConnRecords, StreamRecords
  <2>10. StreamInv(k)'
    <3>1. NotYetThere(k)'
      BY <2>1, <2>2, <2>6, <2>7, <2>8, KindsKnown DEF StreamInv, NotYetThere
    <3>2. BooksKept(k)'
      BY <2>1, <2>2, <2>6, <2>7, <2>8 DEF StreamInv, BooksKept
    <3>3. UploadCounted(k)'
      <4>1. guest.conns[k].live => backends[k].got + guest.conns[k].pending + Num(Frame("tcp_data", k), OutQueue)
                                    = streams[k].written
        BY <2>2 DEF StreamInv, UploadCounted
      <4>2. guest.conns[k].live => backends[k].got + guest.conns[k].pending + Num(Frame("tcp_data", k), OutQueue')
                                    = w
        BY <2>3, <2>8, <2>9, <4>1
      <4>3. ~backends[k].gotEof /\ (guest.conns[k].live => ~guest.conns[k].hostEof)
        BY <2>1, <2>2 DEF StreamInv, UploadCounted
      <4>4. backends[k].why = "full" => backends[k].got + MaxTcp < w
        BY <2>2, <2>3, <2>9, ForwardAssumption DEF StreamInv, UploadCounted, CutsCaused
      <4>5. CutsCaused(k)'
        BY <2>1, <2>2, <2>6, <2>7, <2>8, <4>4, KindsKnown DEF StreamInv, UploadCounted, CutsCaused
      <4> QED
        BY <2>1, <2>2, <2>6, <2>7, <2>8, <4>2, <4>3, <4>5, KindsKnown DEF StreamInv, UploadCounted
    <3>4. DownloadCounted(k)'
      BY <2>1, <2>2, <2>6, <2>7, <2>8, KindsKnown DEF StreamInv, DownloadCounted
    <3>5. SidesTold(k)'
      BY <2>1, <2>2, <2>6, <2>7, <2>8, KindsKnown DEF StreamInv, SidesTold
    <3> QED
      BY <3>1, <3>2, <3>3, <3>4, <3>5 DEF StreamInv
  <2> QED
    BY <2>1, <2>7, <2>10, KindsKnown, HostStepKeeps
<1> QED
  BY <1>1, <1>2

LEMMA FinalKeeps ==
  ASSUME ForwardInv, NEW k \in Ids, Final(k)
  PROVE  ForwardInv'
<1>1. /\ streams[k].call = "ok" /\ ~streams[k].ended /\ UNCHANGED <<setup, toHost, guest, backends>>
      /\ streams' = [streams EXCEPT ![k].ended = TRUE]
      /\ SetLink(Send(BridgeLink, Frame("tcp_eof", k)))
  BY DEF Final, Usable
<1>2. streams[k] \in StreamRecords /\ StreamInv(k) /\ ForwardTyped
  BY ForwardParts
<1>3. PICK s : s = [streams[k] EXCEPT !.ended = TRUE]
  OBVIOUS
<1>4. s \in StreamRecords
  BY <1>2, <1>3 DEF StreamRecords
<1>5. /\ s.call = streams[k].call /\ s.listed = streams[k].listed
      /\ s.destroyed = streams[k].destroyed /\ s.closedByRemote = streams[k].closedByRemote
      /\ s.closeLost = streams[k].closeLost /\ s.ended
      /\ s.written = streams[k].written /\ s.pushed = streams[k].pushed
  BY <1>2, <1>3 DEF StreamRecords
<1>6. /\ streams' \in [Ids -> StreamRecords] /\ \A id \in Ids \ {k} : streams'[id] = streams[id]
      /\ streams'[k] = s
  BY <1>1, <1>2, <1>3, <1>4 DEF ForwardTyped
<1>7. /\ \A t \in Kinds \ {"tcp_eof"} : Has(Frame(t, k), OutQueue') <=> Has(Frame(t, k), OutQueue)
      /\ Num(Frame("tcp_data", k), OutQueue') = Num(Frame("tcp_data", k), OutQueue)
      /\ InQueue' = InQueue /\ guest'.conns = guest.conns /\ bridge'.exits = bridge.exits
  BY <1>1, KindsKnown, HostAdds
<1>8. StreamInv(k)'
  <2>1. NotYetThere(k)'
    BY <1>1, <1>2, <1>5, <1>6, <1>7, KindsKnown DEF StreamInv, NotYetThere
  <2>2. BooksKept(k)'
    BY <1>1, <1>2, <1>5, <1>6, <1>7 DEF StreamInv, BooksKept
  <2>3. UploadCounted(k)'
    BY <1>1, <1>2, <1>5, <1>6, <1>7, KindsKnown DEF StreamInv, UploadCounted, CutsCaused
  <2>4. DownloadCounted(k)'
    BY <1>1, <1>2, <1>5, <1>6, <1>7, KindsKnown DEF StreamInv, DownloadCounted
  <2>5. SidesTold(k)'
    BY <1>1, <1>2, <1>5, <1>6, <1>7, KindsKnown DEF StreamInv, SidesTold
  <2> QED
    BY <2>1, <2>2, <2>3, <2>4, <2>5 DEF StreamInv
<1> QED
  BY <1>1, <1>6, <1>8, KindsKnown, HostStepKeeps
-----------------------------------------------------------------------------
(* The guest's steps and the services'.                                      *)

\* A step that changes the streams of K alone.
LEMMA ForwardStepKeeps ==
  ASSUME ForwardInv, NEW K \in SUBSET Ids, setup' = setup,
         bridge' \in BridgeRecords, toGuest' \in Seq(OutFrames), BridgeWaits', bridge'.exits = bridge.exits,
         streams' \in [Ids -> StreamRecords], guest' \in GuestRecords, toHost' \in Seq(InFrames),
         backends' \in [Ids -> BackendRecords],
         OutOrdered(OutQueue'), InOrdered(InQueue'),
         \A id \in Ids \ K : /\ streams'[id] = streams[id] /\ guest'.conns[id] = guest.conns[id]
                             /\ backends'[id] = backends[id]
                             /\ SameWay(OutQueue, OutQueue', id) /\ SameWay(InQueue, InQueue', id),
         \A id \in K : StreamInv(id)'
  PROVE  ForwardInv'
<1>1. Ids' = Ids
  BY DEF Ids
<1>2. ForwardTyped'
  <2>1. OutFrames' = OutFrames /\ InFrames' = InFrames /\ BridgeRecords' = BridgeRecords
        /\ GuestRecords' = GuestRecords
    BY <1>1 DEF OutFrames, InFrames, BridgeRecords, GuestRecords
  <2> QED
    BY <1>1, <2>1, ForwardParts DEF ForwardTyped
<1>3. \A id \in Ids \ K : StreamInv(id)'
  BY ForwardParts, StreamKept
<1> QED
  BY <1>1, <1>2, <1>3 DEF ForwardInv, QueuesOrdered

\* What becomes of the queue to the host: left alone, or flushed with more in it.
LEMMA WriterFlushes ==
  ASSUME ForwardTyped, NEW c, NEW w \in Seq(InFrames), EnqueueAndFlush(c, w)
  PROVE  /\ guest'.conns = c /\ guest'.writer \in Seq(InFrames) /\ toHost' \in Seq(InFrames)
         /\ InQueue' = toHost \o w
         /\ guest' = [conns |-> c, writer |-> guest'.writer]
<1>1. PICK room : room = IF Len(toHost) >= WireMark THEN 0 ELSE WireMark - Len(toHost)
  OBVIOUS
<1>2. PICK n : n = IF Len(w) < room THEN Len(w) ELSE room
  OBVIOUS
<1>3. toHost \in Seq(InFrames) /\ WireMark \in Nat
  BY ForwardAssumption DEF ForwardTyped
<1>4. n \in 0..Len(w)
  <2>1. PICK x, y \in Nat : x = Len(toHost) /\ y = Len(w)
    BY <1>3, LenProperties
  <2>2. room \in Nat
    BY <1>1, <1>3, <2>1
  <2> QED
    BY <1>2, <2>1, <2>2
<1>5. PICK h : h = toHost
  OBVIOUS
<1>6. PICK a, b : a = h \o SubSeq(w, 1, n) /\ b = SubSeq(w, n + 1, Len(w))
  OBVIOUS
<1>7. a \in Seq(InFrames) /\ b \in Seq(InFrames) /\ a \o b = h \o w
  <2>1. h \in Seq(InFrames)
    BY <1>3, <1>5
  <2>2. /\ h \o SubSeq(w, 1, n) \in Seq(InFrames) /\ SubSeq(w, n + 1, Len(w)) \in Seq(InFrames)
        /\ (h \o SubSeq(w, 1, n)) \o SubSeq(w, n + 1, Len(w)) = h \o w
    <3>1. PICK S : S = InFrames
      OBVIOUS
    <3>2. h \in Seq(S) /\ w \in Seq(S) /\ n \in 0..Len(w)
      BY <1>4, <2>1, <3>1
    <3>3. /\ h \o SubSeq(w, 1, n) \in Seq(S) /\ SubSeq(w, n + 1, Len(w)) \in Seq(S)
          /\ (h \o SubSeq(w, 1, n)) \o SubSeq(w, n + 1, Len(w)) = h \o w
          /\ Len(h \o SubSeq(w, 1, n)) = Len(h) + n
          /\ SubSeq(w, n + 1, Len(w)) = <<>> <=> n = Len(w)
      BY <3>2, MovedForward
    <3> QED
      BY <3>1, <3>3, Zenon
  <2> QED
    BY <1>6, <2>2, Zenon
<1>8. FlushOf(w) = [writer |-> b, wire |-> a]
  BY <1>1, <1>2, <1>5, <1>6 DEF FlushOf
<1>9. guest' = [conns |-> c, writer |-> b] /\ toHost' = a
  <2>1. FlushOf(w).writer = b /\ FlushOf(w).wire = a
    BY <1>8
  <2> QED
    BY <2>1, Zenon DEF EnqueueAndFlush
<1>10. guest'.writer = b /\ guest'.conns = c
  BY <1>9
<1> QED
  BY <1>5, <1>7, <1>9, <1>10 DEF InQueue

LEMMA WriterGrows ==
  ASSUME ForwardTyped, NEW f \in InFrames
  PROVE  /\ Append(guest.writer, f) \in Seq(InFrames)
         /\ toHost \o Append(guest.writer, f) = Append(InQueue, f)
<1>1. guest.writer \in Seq(InFrames) /\ toHost \in Seq(InFrames)
  BY QueuesTyped DEF ForwardTyped
<1> QED
  BY <1>1, AppendBehind DEF InQueue

\* A connection that ends: the host is told, the service has had its end.
ConnEnds(k, why) ==
  /\ guest.conns[k].live
  /\ guest'.conns[k] = NoConn /\ streams'[k] = streams[k]
  /\ backends'[k] = [backends[k] EXCEPT !.why = why]
  /\ InQueue' = Append(InQueue, Frame("tcp_close", k))
  /\ bridge'.exits = bridge.exits

LEMMA ConnEndsKeeps ==
  ASSUME ForwardInv, NEW k \in Ids, NEW why \in {"full", "host", "error", "eof"}, ConnEnds(k, why),
         EndsFor(k, why),
         \A t \in Kinds : Has(Frame(t, k), OutQueue') => Has(Frame(t, k), OutQueue)
  PROVE  StreamInv(k)' /\ backends'[k] \in BackendRecords
<1>1. /\ streams[k] \in StreamRecords /\ StreamInv(k) /\ ForwardTyped /\ backends[k] \in BackendRecords
      /\ InQueue \in Seq(InFrames)
  BY ForwardParts, QueuesTyped
<1>2. /\ backends'[k].got = backends[k].got /\ backends'[k].gotEof = backends[k].gotEof
      /\ backends'[k].sent = backends[k].sent /\ backends'[k].end = backends[k].end /\ backends'[k].why = why
      /\ backends'[k] \in BackendRecords
  BY <1>1 DEF ConnEnds, BackendRecords
<1>3. ~guest'.conns[k].live /\ guest.conns[k].live /\ streams'[k] = streams[k] /\ bridge'.exits = bridge.exits
  BY DEF ConnEnds, NoConn
<1>4. /\ \A t \in Kinds : Has(Frame(t, k), InQueue') <=> Has(Frame(t, k), InQueue) \/ t = "tcp_close"
      /\ \A ok \in BOOLEAN : Has(OpenedFrame(k, ok), InQueue') <=> Has(OpenedFrame(k, ok), InQueue)
      /\ Num(Frame("tcp_data", k), InQueue') = Num(Frame("tcp_data", k), InQueue)
      /\ Num(Frame("tcp_data", k), InQueue) \in Nat
  BY <1>1, KindsKnown, FramesTyped, AppendHere, PlacesFinite DEF ConnEnds
<1>5. ~Has(Frame("tcp_open", k), OutQueue) /\ streams[k].call # "none" /\ ~streams[k].closedByRemote
  BY <1>1, <1>3 DEF StreamInv, NotYetThere, BooksKept
<1>6. NotYetThere(k)'
  BY <1>3, <1>5, KindsKnown DEF NotYetThere
<1>7. BooksKept(k)'
  BY <1>1, <1>3, <1>5 DEF StreamInv, BooksKept
<1>8. UploadCounted(k)'
  <2>1. CutsCaused(k)'
    BY <1>1, <1>2, <1>3, KindsKnown DEF StreamInv, UploadCounted, CutsCaused, EndsFor
  <2> QED
    BY <1>1, <1>2, <1>3, <2>1, KindsKnown DEF StreamInv, UploadCounted
<1>9. DownloadCounted(k)'
  <2>1. streams[k].listed /\ why = "eof" =>
          streams[k].pushed + Num(Frame("tcp_data", k), InQueue) = backends[k].sent
    <3>1. SUFFICES ASSUME streams[k].listed, why = "eof"
                   PROVE  streams[k].pushed + Num(Frame("tcp_data", k), InQueue) = backends[k].sent
      OBVIOUS
    <3>2. streams[k].pushed + Num(Frame("tcp_data", k), InQueue) + backends[k].unread = backends[k].sent
          /\ backends[k].unread = 0
      BY <1>1, <1>3, <3>1 DEF StreamInv, DownloadCounted, EndsFor
    <3>3. streams[k].pushed \in Nat
      BY <1>1 DEF StreamRecords
    <3> QED
      BY <1>4, <3>2, <3>3
  <2>2. ~Has(OpenedFrame(k, FALSE), InQueue)
    BY <1>1, <1>3 DEF StreamInv, DownloadCounted
  <2> QED
    BY <1>2, <1>3, <1>4, <1>5, <2>1, <2>2, KindsKnown DEF DownloadCounted
<1>10. SidesTold(k)'
  BY <1>1, <1>3, <1>4, <1>5, KindsKnown DEF StreamInv, SidesTold
<1> QED
  BY <1>2, <1>6, <1>7, <1>8, <1>9, <1>10 DEF StreamInv

LEMMA CloseConnParts ==
  ASSUME ForwardTyped, NEW k \in Ids, NEW why, CloseConn(k, why), streams'[k] = streams[k], bridge'.exits = bridge.exits
  PROVE  /\ guest' \in GuestRecords /\ toHost' = toHost
         /\ \A id \in Ids \ {k} : guest'.conns[id] = guest.conns[id] /\ backends'[id] = backends[id]
         /\ ~guest.conns[k].live => guest' = guest /\ backends' = backends /\ InQueue' = InQueue
         /\ guest.conns[k].live => ConnEnds(k, why)
         /\ backends'[k] \in BackendRecords => backends' \in [Ids -> BackendRecords]
<1>1. /\ guest.conns \in [Ids -> ConnRecords] /\ guest.writer \in Seq(InFrames) /\ backends \in [Ids -> BackendRecords]
      /\ guest \in GuestRecords /\ backends[k] \in BackendRecords
  BY QueuesTyped DEF ForwardTyped
<1>2. toHost' = toHost
  BY DEF CloseConn
<1>3. CASE ~guest.conns[k].live
  <2>1. guest' = guest
    BY <1>3 DEF CloseConn
  <2>2. backends' = [backends EXCEPT ![k].why = backends[k].why]
    BY <1>3 DEF CloseConn
  <2>3. backends'[k] = [backends[k] EXCEPT !.why = backends[k].why]
    BY <1>1, <2>2
  <2>4. backends'[k] = backends[k]
    BY <1>1, <2>3 DEF BackendRecords
  <2>5. backends' = backends
    BY <1>1, <2>2, <2>4
  <2> QED
    BY <1>1, <1>2, <1>3, <2>1, <2>5 DEF InQueue
<1>4. CASE guest.conns[k].live
  <2>1. PICK c : c = [guest.conns EXCEPT ![k] = NoConn]
    OBVIOUS
  <2>2. c \in [Ids -> ConnRecords]
    <3>1. NoConn \in ConnRecords
      BY DEF NoConn, ConnRecords
    <3> QED
      BY <1>1, <2>1, <3>1
  <2>3. PICK f : f = Frame("tcp_close", k) /\ f \in InFrames
    BY FramesTyped
  <2>4. guest' = [conns |-> c, writer |-> Append(guest.writer, f)]
    BY <1>4, <2>1, <2>3 DEF CloseConn
  <2>5. Append(guest.writer, f) \in Seq(InFrames) /\ toHost \o Append(guest.writer, f) = Append(InQueue, f)
    BY <2>3, WriterGrows
  <2>6. guest' \in GuestRecords /\ InQueue' = Append(InQueue, f)
    BY <1>2, <2>2, <2>4, <2>5 DEF GuestRecords, InQueue
  <2>7. backends' = [backends EXCEPT ![k].why = why]
    BY <1>4 DEF CloseConn
  <2>8. backends'[k] = [backends[k] EXCEPT !.why = why]
    BY <1>1, <2>7
  <2>9. backends'[k] \in BackendRecords => backends' \in [Ids -> BackendRecords]
    BY <1>1, <2>7
  <2>10. guest'.conns[k] = NoConn /\ \A id \in Ids \ {k} : guest'.conns[id] = guest.conns[id]
    BY <1>1, <2>1, <2>4
  <2> QED
    BY <1>1, <1>2, <1>4, <2>3, <2>6, <2>7, <2>8, <2>9, <2>10 DEF ConnEnds
<1> QED
  BY <1>3, <1>4

\* A queue to the host that is left alone, or takes a frame of stream k.
LEMMA InGrows ==
  ASSUME InOrdered(InQueue), InQueue \in Seq(InFrames), NEW k \in Ids, StreamInv(k),
         \/ InQueue' = InQueue
         \/ \E f \in InFrames : /\ f.id = k /\ InQueue' = Append(InQueue, f)
                                /\ f.t = "tcp_data" => guest.conns[k].live
  PROVE  InOrdered(InQueue') /\ \A id \in Ids \ {k} : SameWay(InQueue, InQueue', id)
<1>1. CASE InQueue' = InQueue
  BY <1>1, SameQueue
<1>2. CASE \E f \in InFrames : /\ f.id = k /\ InQueue' = Append(InQueue, f)
                               /\ f.t = "tcp_data" => guest.conns[k].live
  <2>1. PICK f \in InFrames : /\ f.id = k /\ InQueue' = Append(InQueue, f)
                              /\ f.t = "tcp_data" => guest.conns[k].live
    BY <1>2
  <2>2. f.t = "tcp_data" => \A g \in InFrames : g.t = "tcp_close" /\ g.id = f.id => ~Has(g, InQueue)
    <3>1. SUFFICES ASSUME f.t = "tcp_data", NEW g \in InFrames, g.t = "tcp_close", g.id = k, Has(g, InQueue)
                   PROVE  FALSE
      BY <2>1
    <3>2. g = Frame("tcp_close", k)
      BY <3>1 DEF InFrames, Frame
    <3>3. guest.conns[k].live
      BY <2>1, <3>1
    <3> QED
      BY <3>1, <3>2, <3>3 DEF StreamInv, DownloadCounted
  <2>3. InOrdered(InQueue')
    BY <2>1, <2>2, InAppendOrdered
  <2>4. \A id \in Ids \ {k} : SameWay(InQueue, InQueue', id)
    BY <2>1, AppendElsewhere
  <2> QED
    BY <2>3, <2>4
<1> QED
  BY <1>1, <1>2

\* A step at connection k that takes nothing from the queue to the guest.
LEMMA GuestStepKeeps ==
  ASSUME ForwardInv, NEW k \in Ids, UNCHANGED <<setup, bridge, toGuest>>,
         streams' \in [Ids -> StreamRecords], guest' \in GuestRecords, toHost' \in Seq(InFrames),
         backends' \in [Ids -> BackendRecords],
         \A id \in Ids \ {k} : /\ streams'[id] = streams[id] /\ guest'.conns[id] = guest.conns[id]
                               /\ backends'[id] = backends[id],
         \/ InQueue' = InQueue
         \/ \E f \in InFrames : /\ f.id = k /\ InQueue' = Append(InQueue, f)
                                /\ f.t = "tcp_data" => guest.conns[k].live,
         StreamInv(k)'
  PROVE  ForwardInv'
<1>1. /\ ForwardTyped /\ OutOrdered(OutQueue) /\ InOrdered(InQueue) /\ BridgeWaits /\ StreamInv(k)
      /\ InQueue \in Seq(InFrames)
  BY ForwardParts, QueuesTyped
<1>2. OutQueue' = OutQueue /\ BridgeWaits' /\ bridge' \in BridgeRecords /\ toGuest' \in Seq(OutFrames)
  BY <1>1 DEF OutQueue, BridgeWaits, ForwardTyped
<1>3. InOrdered(InQueue') /\ \A id \in Ids \ {k} : SameWay(InQueue, InQueue', id)
  BY <1>1, InGrows
<1>4. \A id \in Ids : SameWay(OutQueue, OutQueue', id)
  BY <1>2, SameQueue
<1>5. {k} \in SUBSET Ids /\ \A id \in {k} : StreamInv(id)'
  OBVIOUS
<1>6. \A id \in Ids \ {k} : /\ streams'[id] = streams[id] /\ guest'.conns[id] = guest.conns[id]
                            /\ backends'[id] = backends[id]
                            /\ SameWay(OutQueue, OutQueue', id) /\ SameWay(InQueue, InQueue', id)
  BY <1>3, <1>4
<1>7. OutOrdered(OutQueue')
  BY <1>1, <1>2
<1> QED
  BY <1>2, <1>3, <1>5, <1>6, <1>7, ForwardStepKeeps

LEMMA ReadStreamKeeps ==
  ASSUME ForwardInv, NEW k \in Ids, ReadStream(k)
  PROVE  ForwardInv'
<1>1. ForwardTyped /\ streams[k] \in StreamRecords /\ StreamInv(k)
  BY ForwardParts
<1>2. /\ streams' = [streams EXCEPT ![k].read = @ + 1]
      /\ UNCHANGED <<setup, bridge, toGuest, toHost, guest, backends>>
  BY DEF ReadStream
<1>3. PICK n \in Nat : n = streams[k].read + 1
  BY <1>1 DEF StreamRecords
<1>4. streams'[k] = [streams[k] EXCEPT !.read = n]
  BY <1>1, <1>2, <1>3 DEF ForwardTyped
<1>5. /\ streams'[k] \in StreamRecords
      /\ streams'[k].call = streams[k].call /\ streams'[k].listed = streams[k].listed
      /\ streams'[k].destroyed = streams[k].destroyed /\ streams'[k].closedByRemote = streams[k].closedByRemote
      /\ streams'[k].closeLost = streams[k].closeLost /\ streams'[k].ended = streams[k].ended
      /\ streams'[k].written = streams[k].written /\ streams'[k].pushed = streams[k].pushed
  BY <1>1, <1>4 DEF StreamRecords
<1>6. OutQueue' = OutQueue /\ InQueue' = InQueue /\ Ids' = Ids
  BY <1>2 DEF OutQueue, InQueue, Ids
<1>7. StreamInv(k)'
  BY <1>1, <1>2, <1>5, <1>6
     DEF StreamInv, NotYetThere, BooksKept, UploadCounted, CutsCaused, DownloadCounted, SidesTold
<1>8. streams' \in [Ids -> StreamRecords] /\ \A id \in Ids \ {k} : streams'[id] = streams[id]
  BY <1>1, <1>2, <1>5 DEF ForwardTyped
<1> QED
  BY <1>1, <1>2, <1>6, <1>7, <1>8, GuestStepKeeps DEF ForwardTyped

\* What leaves the queues and the host alone.
LEMMA ServiceParts ==
  ASSUME UNCHANGED <<setup, streams, bridge, toGuest, toHost, guest>>
  PROVE  OutQueue' = OutQueue /\ InQueue' = InQueue
BY DEF OutQueue, InQueue

LEMMA ServiceSendsKeeps ==
  ASSUME ForwardInv, NEW k \in Ids, ServiceSends(k)
  PROVE  ForwardInv'
<1>1. /\ ForwardTyped /\ streams[k] \in StreamRecords /\ StreamInv(k) /\ backends[k] \in BackendRecords
      /\ InQueue \in Seq(InFrames)
  BY ForwardParts, QueuesTyped
<1>2. /\ guest.conns[k].live /\ backends[k].end = "open"
      /\ backends' = [backends EXCEPT ![k].sent = @ + 1, ![k].unread = @ + 1]
      /\ UNCHANGED <<setup, streams, bridge, toGuest, toHost, guest>>
  BY DEF ServiceSends
<1>a. backends[k].sent \in Nat /\ backends[k].unread \in Nat
  BY <1>1 DEF BackendRecords
<1>b. PICK n \in Nat : n = backends[k].sent + 1
  BY <1>a
<1>c. PICK m \in Nat : m = backends[k].unread + 1
  BY <1>a
<1>3. n \in Nat /\ m \in Nat /\ n = backends[k].sent + 1 /\ m = backends[k].unread + 1
  BY <1>b, <1>c
<1>4. PICK b : b = [backends[k] EXCEPT !.sent = n, !.unread = m]
  OBVIOUS
<1>5. b \in BackendRecords
  BY <1>1, <1>4 DEF BackendRecords
<1>6. /\ b.got = backends[k].got /\ b.gotEof = backends[k].gotEof /\ b.sent = n /\ b.unread = m
      /\ b.end = backends[k].end /\ b.why = backends[k].why
  BY <1>1, <1>4 DEF BackendRecords
<1>7. /\ backends' \in [Ids -> BackendRecords] /\ backends'[k] = b
      /\ \A id \in Ids \ {k} : backends'[id] = backends[id]
  BY <1>1, <1>2, <1>3, <1>4, <1>5 DEF ForwardTyped
<1>8. OutQueue' = OutQueue /\ InQueue' = InQueue
  BY <1>2, ServiceParts
<1>9. StreamInv(k)'
  <2>1. NotYetThere(k)'
    BY <1>1, <1>2, <1>8 DEF StreamInv, NotYetThere
  <2>2. BooksKept(k)'
    BY <1>1, <1>2, <1>8 DEF StreamInv, BooksKept
  <2>3. UploadCounted(k)'
    BY <1>1, <1>2, <1>6, <1>7, <1>8 DEF StreamInv, UploadCounted, CutsCaused
  <2>4. DownloadCounted(k)'
    <3>1. streams[k].listed =>
            streams[k].pushed + Num(Frame("tcp_data", k), InQueue) + m = n
      <4>1. streams[k].listed =>
              streams[k].pushed + Num(Frame("tcp_data", k), InQueue) + backends[k].unread = backends[k].sent
        BY <1>1, <1>2 DEF StreamInv, DownloadCounted
      <4>2. /\ streams[k].pushed \in Nat /\ Num(Frame("tcp_data", k), InQueue) \in Nat
            /\ backends[k].unread \in Nat /\ backends[k].sent \in Nat
        BY <1>1, PlacesFinite DEF StreamRecords, BackendRecords
      <4> QED
        BY <1>3, <4>1, <4>2
    <3>2. ~streams[k].closedByRemote /\ ~Has(Frame("tcp_close", k), InQueue)
          /\ ~Has(OpenedFrame(k, FALSE), InQueue) /\ backends[k].why = "none"
      BY <1>1, <1>2 DEF StreamInv, BooksKept, DownloadCounted
    <3> QED
      BY <1>2, <1>6, <1>7, <1>8, <3>1, <3>2 DEF DownloadCounted
  <2>5. SidesTold(k)'
    BY <1>1, <1>2, <1>8 DEF StreamInv, SidesTold
  <2> QED
    BY <2>1, <2>2, <2>3, <2>4, <2>5 DEF StreamInv
<1> QED
  BY <1>1, <1>2, <1>7, <1>8, <1>9, GuestStepKeeps DEF ForwardTyped

LEMMA ServiceEndsKeeps ==
  ASSUME ForwardInv, NEW k \in Ids, ServiceEnds(k)
  PROVE  ForwardInv'
<1>1. /\ ForwardTyped /\ streams[k] \in StreamRecords /\ StreamInv(k) /\ backends[k] \in BackendRecords
  BY ForwardParts
<1>2. /\ guest.conns[k].live /\ backends[k].end = "open"
      /\ UNCHANGED <<setup, streams, bridge, toGuest, toHost, guest>>
  BY DEF ServiceEnds
<1>3. PICK end \in {"fin", "reset"} :
        backends' = [backends EXCEPT ![k].end = end, ![k].unread = IF end = "reset" THEN 0 ELSE @]
  BY DEF ServiceEnds
<1>4. PICK m \in Nat : m = IF end = "reset" THEN 0 ELSE backends[k].unread
  BY <1>1 DEF BackendRecords
<1>5. PICK b : b = [backends[k] EXCEPT !.end = end, !.unread = m]
  OBVIOUS
<1>6. b \in BackendRecords
  BY <1>1, <1>5 DEF BackendRecords
<1>7. /\ b.got = backends[k].got /\ b.gotEof = backends[k].gotEof /\ b.sent = backends[k].sent /\ b.unread = m
      /\ b.end = end /\ b.why = backends[k].why
  BY <1>1, <1>5 DEF BackendRecords
<1>8. /\ backends' \in [Ids -> BackendRecords] /\ backends'[k] = b
      /\ \A id \in Ids \ {k} : backends'[id] = backends[id]
  BY <1>1, <1>3, <1>4, <1>5, <1>6 DEF ForwardTyped
<1>9. OutQueue' = OutQueue /\ InQueue' = InQueue
  BY <1>2, ServiceParts
<1>10. StreamInv(k)'
  <2>1. NotYetThere(k)'
    BY <1>1, <1>2, <1>9 DEF StreamInv, NotYetThere
  <2>2. BooksKept(k)'
    BY <1>1, <1>2, <1>9 DEF StreamInv, BooksKept
  <2>3. UploadCounted(k)'
    BY <1>1, <1>2, <1>7, <1>8, <1>9 DEF StreamInv, UploadCounted, CutsCaused
  <2>4. DownloadCounted(k)'
    BY <1>1, <1>2, <1>4, <1>7, <1>8, <1>9 DEF StreamInv, DownloadCounted
  <2>5. SidesTold(k)'
    BY <1>1, <1>2, <1>9 DEF StreamInv, SidesTold
  <2> QED
    BY <2>1, <2>2, <2>3, <2>4, <2>5 DEF StreamInv
<1> QED
  BY <1>1, <1>2, <1>8, <1>9, <1>10, GuestStepKeeps DEF ForwardTyped

LEMMA OpenTimeoutKeeps ==
  ASSUME ForwardInv, NEW k \in Ids, OpenTimeout(k) \/ Abandon(k)
  PROVE  ForwardInv'
<1>1. Destroy(k) /\ UNCHANGED <<setup, toHost, guest, backends>>
  BY DEF OpenTimeout, Abandon
<1> QED
  BY <1>1, DestroyKeeps

\* A connection that ends while the host's side is left alone.
LEMMA GuestClosesKeeps ==
  ASSUME ForwardInv, NEW k \in Ids, NEW why \in {"full", "host", "error", "eof"}, CloseConn(k, why),
         guest.conns[k].live, UNCHANGED <<setup, streams, bridge, toGuest>>, EndsFor(k, why)
  PROVE  ForwardInv'
<1>1. ForwardTyped /\ streams'[k] = streams[k] /\ bridge'.exits = bridge.exits /\ OutQueue' = OutQueue
  BY ForwardParts DEF OutQueue
<1>2. /\ guest' \in GuestRecords /\ toHost' = toHost
      /\ \A id \in Ids \ {k} : guest'.conns[id] = guest.conns[id] /\ backends'[id] = backends[id]
      /\ ConnEnds(k, why)
      /\ backends'[k] \in BackendRecords => backends' \in [Ids -> BackendRecords]
  BY <1>1, CloseConnParts
<1>3. StreamInv(k)' /\ backends'[k] \in BackendRecords
  BY <1>1, <1>2, ConnEndsKeeps
<1>4. PICK f \in InFrames : f.id = k /\ f.t = "tcp_close" /\ InQueue' = Append(InQueue, f)
  <2>1. Frame("tcp_close", k) \in InFrames
    BY FramesTyped
  <2> QED
    BY <1>2, <2>1, FramesDiffer DEF ConnEnds
<1>5. streams' \in [Ids -> StreamRecords] /\ toHost' \in Seq(InFrames)
  BY <1>1, <1>2 DEF ForwardTyped
<1> QED
  BY <1>2, <1>3, <1>4, <1>5, GuestStepKeeps

\* What Settle does to the connection and its service.
LEMMA SettleParts ==
  ASSUME ForwardTyped, NEW k \in Ids, NEW conn \in ConnRecords, NEW n \in Nat, Settle(k, conn, n)
  PROVE  /\ guest' \in GuestRecords /\ backends' \in [Ids -> BackendRecords] /\ guest'.writer = guest.writer
         /\ \A id \in Ids \ {k} : guest'.conns[id] = guest.conns[id] /\ backends'[id] = backends[id]
         /\ guest'.conns[k].live = conn.live /\ guest'.conns[k].pending = conn.pending
         /\ guest'.conns[k].hostEof = conn.hostEof
         /\ guest'.conns[k].backendShutdown <=> conn.backendShutdown \/ MayShutdown(conn)
         /\ backends'[k].got = backends[k].got + n
         /\ backends'[k].gotEof <=> backends[k].gotEof \/ MayShutdown(conn)
         /\ backends'[k].sent = backends[k].sent /\ backends'[k].unread = backends[k].unread
         /\ backends'[k].end = backends[k].end /\ backends'[k].why = backends[k].why
<1>1. /\ guest.conns \in [Ids -> ConnRecords] /\ guest.writer \in Seq(InFrames) /\ backends \in [Ids -> BackendRecords]
      /\ guest \in GuestRecords /\ backends[k] \in BackendRecords
  BY QueuesTyped DEF ForwardTyped
<1>2. /\ backends[k].got \in Nat /\ backends[k].gotEof \in BOOLEAN /\ conn.backendShutdown \in BOOLEAN
  BY <1>1 DEF BackendRecords, ConnRecords
<1>3. \E c \in BOOLEAN : c <=> conn.backendShutdown \/ MayShutdown(conn)
  BY Zenon
<1>4. PICK c \in BOOLEAN : c <=> conn.backendShutdown \/ MayShutdown(conn)
  BY <1>3
<1>5. \E e \in BOOLEAN : e <=> backends[k].gotEof \/ MayShutdown(conn)
  BY Zenon
<1>6. PICK e \in BOOLEAN : e <=> backends[k].gotEof \/ MayShutdown(conn)
  BY <1>5
<1>7. PICK m \in Nat : m = backends[k].got + n
  BY <1>2
<1>8. (conn.backendShutdown \/ MayShutdown(conn)) = c /\ (backends[k].gotEof \/ MayShutdown(conn)) = e
  BY <1>4, <1>6
<1>9. PICK d : d = [conn EXCEPT !.backendShutdown = c]
  OBVIOUS
<1>10. /\ d \in ConnRecords /\ d.live = conn.live /\ d.pending = conn.pending /\ d.hostEof = conn.hostEof
       /\ d.backendShutdown = c
  BY <1>9 DEF ConnRecords
<1>11. PICK b : b = [backends[k] EXCEPT !.got = m, !.gotEof = e]
  OBVIOUS
<1>12. /\ b \in BackendRecords /\ b.got = m /\ b.gotEof = e /\ b.sent = backends[k].sent
       /\ b.unread = backends[k].unread /\ b.end = backends[k].end /\ b.why = backends[k].why
  BY <1>1, <1>11 DEF BackendRecords
<1>13. guest' = [guest EXCEPT !.conns[k] = d]
  <2>1. guest' = [guest EXCEPT !.conns[k] = [conn EXCEPT !.backendShutdown = conn.backendShutdown \/ MayShutdown(conn)]]
    BY DEF Settle
  <2> QED
    BY <1>8, <1>9, <2>1
<1>14. /\ guest'.conns = [guest.conns EXCEPT ![k] = d] /\ guest'.writer = guest.writer
       /\ guest' = [conns |-> [guest.conns EXCEPT ![k] = d], writer |-> guest.writer]
  BY <1>1, <1>13 DEF GuestRecords
<1>15. [guest.conns EXCEPT ![k] = d] \in [Ids -> ConnRecords]
  BY <1>1, <1>10
<1>16. guest' \in GuestRecords
  BY <1>1, <1>14, <1>15 DEF GuestRecords
<1>17. backends' = [backends EXCEPT ![k] = b]
  <2>1. backends' = [backends EXCEPT ![k].got = backends[k].got + n,
                                     ![k].gotEof = backends[k].gotEof \/ MayShutdown(conn)]
    BY DEF Settle
  <2>2. backends' = [backends EXCEPT ![k].got = m, ![k].gotEof = e]
    BY <1>7, <1>8, <2>1
  <2> QED
    BY <1>1, <1>11, <2>2
<1>18. /\ backends' \in [Ids -> BackendRecords] /\ backends'[k] = b
       /\ \A id \in Ids \ {k} : backends'[id] = backends[id]
  BY <1>1, <1>12, <1>17
<1>19. guest'.conns[k] = d /\ \A id \in Ids \ {k} : guest'.conns[id] = guest.conns[id]
  BY <1>1, <1>14
<1> QED
  BY <1>4, <1>6, <1>7, <1>10, <1>12, <1>14, <1>16, <1>18, <1>19

LEMMA GuestWritesKeeps ==
  ASSUME ForwardInv, NEW k \in Ids, GuestWrites(k)
  PROVE  ForwardInv'
<1>1. /\ guest.conns[k].live /\ guest.conns[k].pending > 0 /\ UNCHANGED <<setup, streams, bridge, toGuest>>
  BY DEF GuestWrites, MayWrite
<1>2. CASE backends[k].end = "reset"
  <2>1. CloseConn(k, "error")
    BY <1>2 DEF GuestWrites
  <2> QED
    BY <1>1, <1>2, <2>1, GuestClosesKeeps DEF EndsFor
<1>3. CASE backends[k].end # "reset"
  <2>1. /\ ForwardTyped /\ StreamInv(k) /\ streams[k] \in StreamRecords /\ guest.conns[k] \in ConnRecords
        /\ backends[k] \in BackendRecords /\ OutQueue \in Seq(OutFrames)
    BY ForwardParts, QueuesTyped
  <2>2. PICK n \in 1..guest.conns[k].pending :
          Settle(k, [guest.conns[k] EXCEPT !.pending = @ - n], n) /\ toHost' = toHost
    BY <1>3 DEF GuestWrites
  <2>3. guest.conns[k].pending \in Nat
    BY <2>1 DEF ConnRecords
  <2>4. n \in Nat /\ n > 0
    BY <2>2, <2>3
  <2>5. PICK p \in Nat : p = guest.conns[k].pending - n
    BY <2>2, <2>3
  <2>6. PICK conn : conn = [guest.conns[k] EXCEPT !.pending = p]
    OBVIOUS
  <2>7. /\ conn \in ConnRecords /\ conn.live /\ conn.pending = p /\ conn.hostEof = guest.conns[k].hostEof
        /\ conn.backendShutdown = guest.conns[k].backendShutdown
    BY <1>1, <2>1, <2>6 DEF ConnRecords
  <2>8. Settle(k, conn, n)
    BY <2>2, <2>5, <2>6
  <2>9. /\ guest' \in GuestRecords /\ backends' \in [Ids -> BackendRecords] /\ guest'.writer = guest.writer
        /\ \A id \in Ids \ {k} : guest'.conns[id] = guest.conns[id] /\ backends'[id] = backends[id]
        /\ guest'.conns[k].live = conn.live /\ guest'.conns[k].pending = conn.pending
        /\ guest'.conns[k].hostEof = conn.hostEof
        /\ guest'.conns[k].backendShutdown <=> conn.backendShutdown \/ MayShutdown(conn)
        /\ backends'[k].got = backends[k].got + n
        /\ backends'[k].gotEof <=> backends[k].gotEof \/ MayShutdown(conn)
        /\ backends'[k].sent = backends[k].sent /\ backends'[k].unread = backends[k].unread
        /\ backends'[k].end = backends[k].end /\ backends'[k].why = backends[k].why
    BY <2>1, <2>4, <2>7, <2>8, SettleParts
  <2>10. OutQueue' = OutQueue /\ InQueue' = InQueue
    BY <1>1, <2>2, <2>9 DEF OutQueue, InQueue
  <2>11. MayShutdown(conn) <=> guest.conns[k].hostEof /\ ~guest.conns[k].backendShutdown /\ p = 0
    BY <2>7 DEF MayShutdown
  <2>12. /\ backends[k].got \in Nat /\ streams[k].written \in Nat /\ Num(Frame("tcp_data", k), OutQueue) \in Nat
    BY <2>1, PlacesFinite DEF BackendRecords, StreamRecords
  <2>13. backends[k].got + guest.conns[k].pending + Num(Frame("tcp_data", k), OutQueue) = streams[k].written
    BY <1>1, <2>1 DEF StreamInv, UploadCounted
  <2>14. backends'[k].got + p + Num(Frame("tcp_data", k), OutQueue) = streams[k].written
    BY <2>3, <2>4, <2>5, <2>9, <2>12, <2>13
  <2>15. ~backends[k].gotEof
    <3>1. backends[k].got # streams[k].written
      BY <1>1, <2>3, <2>12, <2>13
    <3> QED
      BY <2>1, <3>1 DEF StreamInv, UploadCounted, CutsCaused
  <2>16. ASSUME MayShutdown(conn) PROVE streams[k].ended /\ backends'[k].got = streams[k].written
    <3>1. streams[k].ended /\ ~Has(Frame("tcp_data", k), OutQueue) /\ p = 0
      BY <1>1, <2>1, <2>11, <2>16 DEF StreamInv, UploadCounted
    <3>2. Num(Frame("tcp_data", k), OutQueue) = 0
      BY <2>1, <3>1, NoneCounted
    <3> QED
      BY <2>4, <2>9, <2>12, <2>14, <3>1, <3>2
  <2>17. StreamInv(k)'
    <3>1. NotYetThere(k)'
      BY <1>1, <2>1, <2>10 DEF StreamInv, NotYetThere
    <3>2. BooksKept(k)'
      BY <1>1, <2>1, <2>7, <2>9 DEF StreamInv, BooksKept
    <3>3. UploadCounted(k)'
      <4>1. backends'[k].got + guest'.conns[k].pending + Num(Frame("tcp_data", k), OutQueue) = streams[k].written
        BY <2>7, <2>9, <2>14
      <4>2. guest'.conns[k].backendShutdown <=> backends'[k].gotEof
        BY <1>1, <2>1, <2>7, <2>9 DEF StreamInv, UploadCounted
      <4>3. guest'.conns[k].hostEof => streams[k].ended /\ ~Has(Frame("tcp_data", k), OutQueue)
        BY <1>1, <2>1, <2>7, <2>9 DEF StreamInv, UploadCounted
      <4>4. ~guest.conns[k].backendShutdown
        BY <1>1, <2>1, <2>15 DEF StreamInv, UploadCounted
      <4>5. guest'.conns[k].hostEof /\ guest'.conns[k].pending = 0 => backends'[k].gotEof
        BY <2>7, <2>9, <2>11, <4>4
      <4>6. backends'[k].gotEof => streams[k].ended /\ backends'[k].got = streams[k].written
        BY <2>9, <2>15, <2>16
      <4>7. Has(Frame("tcp_eof", k), OutQueue) => streams[k].ended
        BY <2>1 DEF StreamInv, UploadCounted
      <4>8. CutsCaused(k)'
        BY <1>1, <2>1, <2>9, <2>10 DEF StreamInv, UploadCounted, CutsCaused, DownloadCounted
      <4> QED
        BY <1>1, <2>10, <4>1, <4>2, <4>3, <4>5, <4>6, <4>7, <4>8 DEF UploadCounted
    <3>4. DownloadCounted(k)'
      BY <1>1, <2>1, <2>7, <2>9, <2>10 DEF StreamInv, DownloadCounted
    <3>5. SidesTold(k)'
      BY <1>1, <2>1, <2>7, <2>9, <2>10 DEF StreamInv, SidesTold
    <3> QED
      BY <3>1, <3>2, <3>3, <3>4, <3>5 DEF StreamInv
  <2> QED
    BY <1>1, <2>1, <2>2, <2>9, <2>10, <2>17, GuestStepKeeps DEF ForwardTyped
<1> QED
  BY <1>2, <1>3

LEMMA GuestForwardsKeeps ==
  ASSUME ForwardInv, NEW k \in Ids, GuestForwards(k)
  PROVE  ForwardInv'
<1>1. /\ guest.conns[k].live /\ UNCHANGED <<setup, streams, bridge, toGuest>> /\ ForwardBackendReadChunk(k)
  BY DEF GuestForwards, MayForward
<1>2. CASE backends[k].end = "reset"
  <2>1. CloseConn(k, "error")
    BY <1>1, <1>2 DEF ForwardBackendReadChunk
  <2> QED
    BY <1>1, <1>2, <2>1, GuestClosesKeeps DEF EndsFor
<1>3. CASE backends[k].end # "reset" /\ backends[k].unread = 0
  <2>1. CloseConn(k, "eof")
    BY <1>1, <1>3 DEF ForwardBackendReadChunk
  <2>2. backends[k].end = "fin"
    BY <1>3, ForwardParts DEF GuestForwards, MayForward, BackendRecords
  <2> QED
    BY <1>1, <1>3, <2>1, <2>2, GuestClosesKeeps DEF EndsFor
<1>4. CASE backends[k].end # "reset" /\ backends[k].unread # 0
  <2>1. /\ ForwardTyped /\ StreamInv(k) /\ streams[k] \in StreamRecords /\ guest.conns[k] \in ConnRecords
        /\ backends[k] \in BackendRecords /\ InQueue \in Seq(InFrames) /\ guest.conns \in [Ids -> ConnRecords]
    BY ForwardParts, QueuesTyped
  <2>2. PICK f : f = Frame("tcp_data", k) /\ f \in InFrames /\ f.id = k /\ f.t = "tcp_data"
    BY FramesTyped, FramesDiffer
  <2>3. /\ EnqueueAndFlush(guest.conns, Append(guest.writer, f))
        /\ backends' = [backends EXCEPT ![k].unread = @ - 1]
    BY <1>1, <1>4, <2>2 DEF ForwardBackendReadChunk
  <2>4. Append(guest.writer, f) \in Seq(InFrames) /\ toHost \o Append(guest.writer, f) = Append(InQueue, f)
    BY <2>1, <2>2, WriterGrows
  <2>5. PICK c, w : c = guest.conns /\ w = Append(guest.writer, f)
    OBVIOUS
  <2>6. /\ guest'.conns = c /\ guest'.writer \in Seq(InFrames) /\ toHost' \in Seq(InFrames)
        /\ InQueue' = toHost \o w /\ guest' = [conns |-> c, writer |-> guest'.writer]
    BY <2>1, <2>3, <2>4, <2>5, WriterFlushes
  <2>7. guest' \in GuestRecords /\ guest'.conns = guest.conns /\ InQueue' = Append(InQueue, f)
    BY <2>1, <2>4, <2>5, <2>6 DEF GuestRecords
  <2>8. backends[k].unread \in Nat
    BY <2>1 DEF BackendRecords
  <2>9. PICK m \in Nat : m = backends[k].unread - 1
    BY <1>4, <2>8
  <2>10. PICK b : b = [backends[k] EXCEPT !.unread = m]
    OBVIOUS
  <2>11. /\ b \in BackendRecords /\ b.got = backends[k].got /\ b.gotEof = backends[k].gotEof
         /\ b.sent = backends[k].sent /\ b.unread = m /\ b.end = backends[k].end /\ b.why = backends[k].why
    BY <2>1, <2>10 DEF BackendRecords
  <2>12. /\ backends' \in [Ids -> BackendRecords] /\ backends'[k] = b
         /\ \A id \in Ids \ {k} : backends'[id] = backends[id]
    BY <2>1, <2>3, <2>9, <2>10, <2>11 DEF ForwardTyped
  <2>13. OutQueue' = OutQueue
    BY <1>1 DEF OutQueue
  <2>14. /\ \A t \in Kinds : Has(Frame(t, k), InQueue') <=> Has(Frame(t, k), InQueue) \/ t = "tcp_data"
         /\ \A ok \in BOOLEAN : Has(OpenedFrame(k, ok), InQueue') <=> Has(OpenedFrame(k, ok), InQueue)
         /\ Num(Frame("tcp_data", k), InQueue') = Num(Frame("tcp_data", k), InQueue) + 1
    BY <2>1, <2>2, <2>7, KindsKnown, AppendHere
  <2>15. StreamInv(k)'
    <3>1. NotYetThere(k)'
      BY <1>1, <2>1, <2>13 DEF StreamInv, NotYetThere
    <3>2. BooksKept(k)'
      BY <1>1, <2>1, <2>7 DEF StreamInv, BooksKept
    <3>3. UploadCounted(k)'
      BY <1>1, <2>1, <2>7, <2>11, <2>12, <2>13 DEF StreamInv, UploadCounted, CutsCaused
    <3>4. DownloadCounted(k)'
      <4>1. streams[k].listed =>
              streams[k].pushed + Num(Frame("tcp_data", k), InQueue) + backends[k].unread = backends[k].sent
        BY <1>1, <1>4, <2>1 DEF StreamInv, DownloadCounted
      <4>2. streams[k].pushed \in Nat /\ Num(Frame("tcp_data", k), InQueue) \in Nat /\ backends[k].sent \in Nat
        BY <2>1, PlacesFinite DEF StreamRecords, BackendRecords
      <4>3. streams[k].listed => streams[k].pushed + Num(Frame("tcp_data", k), InQueue') + m = backends[k].sent
        BY <2>8, <2>9, <2>14, <4>1, <4>2
      <4>4. /\ ~streams[k].closedByRemote /\ ~Has(Frame("tcp_close", k), InQueue)
            /\ ~Has(OpenedFrame(k, FALSE), InQueue) /\ backends[k].why = "none"
        BY <1>1, <2>1 DEF StreamInv, BooksKept, DownloadCounted
      <4>5. ~Has(Frame("tcp_close", k), InQueue') /\ ~Has(OpenedFrame(k, FALSE), InQueue')
        BY <2>14, <4>4, KindsKnown
      <4> QED
        BY <1>1, <2>7, <2>11, <2>12, <4>3, <4>4, <4>5 DEF DownloadCounted
    <3>5. SidesTold(k)'
      BY <1>1, <2>1, <2>7, <2>13, <2>14, KindsKnown DEF StreamInv, SidesTold
    <3> QED
      BY <3>1, <3>2, <3>3, <3>4, <3>5 DEF StreamInv
  <2> QED
    BY <1>1, <2>1, <2>2, <2>6, <2>7, <2>12, <2>15, GuestStepKeeps DEF ForwardTyped
<1> QED
  BY <1>2, <1>3, <1>4

LEMMA GuestFlushesKeeps ==
  ASSUME ForwardInv, GuestFlushes
  PROVE  ForwardInv'
<1>1. UNCHANGED <<setup, streams, bridge, toGuest, backends>> /\ EnqueueAndFlush(guest.conns, guest.writer)
  BY DEF GuestFlushes
<1>2. /\ ForwardTyped /\ OutOrdered(OutQueue) /\ InOrdered(InQueue) /\ BridgeWaits
      /\ guest.conns \in [Ids -> ConnRecords] /\ guest.writer \in Seq(InFrames)
  BY ForwardParts, QueuesTyped
<1>3. PICK c, w : c = guest.conns /\ w = guest.writer
  OBVIOUS
<1>4. /\ guest'.conns = c /\ guest'.writer \in Seq(InFrames) /\ toHost' \in Seq(InFrames)
      /\ InQueue' = toHost \o w /\ guest' = [conns |-> c, writer |-> guest'.writer]
  BY <1>1, <1>2, <1>3, WriterFlushes
<1>5. guest' \in GuestRecords /\ guest'.conns = guest.conns /\ InQueue' = InQueue
  BY <1>2, <1>3, <1>4 DEF GuestRecords, InQueue
<1>6. OutQueue' = OutQueue /\ BridgeWaits'
  BY <1>1, <1>2 DEF OutQueue, BridgeWaits
<1>7. \A id \in Ids : SameWay(OutQueue, OutQueue', id) /\ SameWay(InQueue, InQueue', id)
  BY <1>5, <1>6, SameQueue
<1>8. {} \in SUBSET Ids /\ (\A id \in {} : StreamInv(id)') /\ Ids \ {} = Ids
  OBVIOUS
<1>9. /\ bridge' \in BridgeRecords /\ toGuest' \in Seq(OutFrames) /\ streams' \in [Ids -> StreamRecords]
      /\ backends' \in [Ids -> BackendRecords] /\ bridge'.exits = bridge.exits
      /\ OutOrdered(OutQueue') /\ InOrdered(InQueue')
  BY <1>1, <1>2, <1>5, <1>6 DEF ForwardTyped
<1>10. \A id \in Ids \ {} : /\ streams'[id] = streams[id] /\ guest'.conns[id] = guest.conns[id]
                            /\ backends'[id] = backends[id]
                            /\ SameWay(OutQueue, OutQueue', id) /\ SameWay(InQueue, InQueue', id)
  BY <1>1, <1>5, <1>7
<1> QED
  BY <1>1, <1>4, <1>5, <1>6, <1>8, <1>9, <1>10, ForwardStepKeeps
-----------------------------------------------------------------------------
(* What the guest takes from its queue.                                      *)

\* The oldest frame of the queue to the guest is taken by its stream k.
GuestTakes(u, k) ==
  /\ toGuest # <<>> /\ toGuest' = Tail(toGuest) /\ Head(toGuest) = Frame(u, k)
  /\ UNCHANGED <<setup, streams, bridge>>

LEMMA GuestTakesParts ==
  ASSUME ForwardInv, NEW k \in Ids, NEW u \in Kinds, GuestTakes(u, k)
  PROVE  /\ toGuest' \in Seq(OutFrames) /\ BridgeWaits' /\ OutOrdered(OutQueue')
         /\ OutQueue' \in Seq(OutFrames) /\ OutQueue \in Seq(OutFrames)
         /\ \A id \in Ids \ {k} : SameWay(OutQueue, OutQueue', id)
         /\ \A t \in Kinds : Has(Frame(t, k), OutQueue) <=> Has(Frame(t, k), OutQueue') \/ t = u
         /\ Num(Frame("tcp_data", k), OutQueue) = IF u = "tcp_data" THEN Num(Frame("tcp_data", k), OutQueue') + 1
                                                  ELSE Num(Frame("tcp_data", k), OutQueue')
         /\ Num(Frame("tcp_data", k), OutQueue') \in Nat
         /\ ~Has(Frame("tcp_open", k), OutQueue')
         /\ u = "tcp_eof" => ~Has(Frame("tcp_data", k), OutQueue')
<1>1. /\ ForwardTyped /\ OutOrdered(OutQueue) /\ BridgeWaits
      /\ OutQueue \in Seq(OutFrames) /\ bridge.pending \in Seq(OutFrames) /\ toGuest \in Seq(OutFrames)
  BY ForwardParts, QueuesTyped DEF ForwardTyped
<1>2. /\ toGuest # <<>> /\ toGuest' = Tail(toGuest) /\ Head(toGuest) = Frame(u, k)
      /\ UNCHANGED <<setup, streams, bridge>>
  BY DEF GuestTakes
<1>3. PICK p, q : p = toGuest /\ q = bridge.pending
  OBVIOUS
<1>4. p \in Seq(OutFrames) /\ q \in Seq(OutFrames) /\ p # <<>>
  BY <1>1, <1>2, <1>3
<1>5. PICK S : S = OutFrames
  OBVIOUS
<1>6. /\ Tail(p) \o q = Tail(p \o q) /\ Head(p) = Head(p \o q) /\ p \o q # <<>>
      /\ Tail(p) \in Seq(S) /\ p \o q \in Seq(S)
  BY <1>4, <1>5, TailInFront
<1>7. /\ OutQueue' = Tail(OutQueue) /\ OutQueue # <<>> /\ Head(OutQueue) = Frame(u, k)
      /\ toGuest' \in Seq(OutFrames)
  BY <1>2, <1>3, <1>5, <1>6 DEF OutQueue
<1>8. OutQueue' \in Seq(OutFrames)
  BY <1>1, <1>7, HeadTailProperties
<1>9. /\ OutOrdered(OutQueue')
      /\ \A g \in OutFrames : g.id = Frame(u, k).id /\ Has(g, OutQueue') =>
           g.t # "tcp_open" /\ ~(Frame(u, k).t = "tcp_eof" /\ g.t = "tcp_data")
  BY <1>1, <1>7, OutTailOrdered
<1>10. BridgeWaits'
  BY <1>1, <1>2 DEF BridgeWaits
<1>11. \A id \in Ids \ {k} : SameWay(OutQueue, OutQueue', id)
  <2>1. Frame(u, k).id = k
    BY FramesDiffer
  <2> QED
    BY <1>1, <1>7, <2>1, TailElsewhere
<1>12. /\ \A t \in Kinds : Has(Frame(t, k), OutQueue) <=> Has(Frame(t, k), OutQueue') \/ t = u
       /\ Num(Frame("tcp_data", k), OutQueue) = IF u = "tcp_data" THEN Num(Frame("tcp_data", k), OutQueue') + 1
                                                ELSE Num(Frame("tcp_data", k), OutQueue')
  BY <1>1, <1>7, TailHere
<1>13. Num(Frame("tcp_data", k), OutQueue') \in Nat
  BY <1>8, PlacesFinite
<1>14. ~Has(Frame("tcp_open", k), OutQueue') /\ (u = "tcp_eof" => ~Has(Frame("tcp_data", k), OutQueue'))
  <2>1. Frame("tcp_open", k) \in OutFrames /\ Frame("tcp_data", k) \in OutFrames
    BY FramesTyped, KindsKnown
  <2> QED
    BY <1>9, <2>1, FramesDiffer
<1> QED
  BY <1>1, <1>7, <1>8, <1>9, <1>10, <1>11, <1>12, <1>13, <1>14

LEMMA GuestTakesKeeps ==
  ASSUME ForwardInv, NEW k \in Ids, NEW u \in Kinds, GuestTakes(u, k),
         guest' \in GuestRecords, toHost' \in Seq(InFrames), backends' \in [Ids -> BackendRecords],
         \A id \in Ids \ {k} : guest'.conns[id] = guest.conns[id] /\ backends'[id] = backends[id],
         \/ InQueue' = InQueue
         \/ \E f \in InFrames : /\ f.id = k /\ InQueue' = Append(InQueue, f)
                                /\ f.t = "tcp_data" => guest.conns[k].live,
         StreamInv(k)'
  PROVE  ForwardInv'
<1>1. /\ ForwardTyped /\ InOrdered(InQueue) /\ StreamInv(k) /\ InQueue \in Seq(InFrames)
  BY ForwardParts, QueuesTyped
<1>2. /\ toGuest' \in Seq(OutFrames) /\ BridgeWaits' /\ OutOrdered(OutQueue')
      /\ \A id \in Ids \ {k} : SameWay(OutQueue, OutQueue', id)
  BY GuestTakesParts
<1>3. InOrdered(InQueue') /\ \A id \in Ids \ {k} : SameWay(InQueue, InQueue', id)
  BY <1>1, InGrows
<1>4. /\ setup' = setup /\ bridge' \in BridgeRecords /\ streams' \in [Ids -> StreamRecords]
      /\ bridge'.exits = bridge.exits /\ streams' = streams
  BY <1>1 DEF ForwardTyped, GuestTakes
<1>5. {k} \in SUBSET Ids /\ \A id \in {k} : StreamInv(id)'
  OBVIOUS
<1>6. \A id \in Ids \ {k} : /\ streams'[id] = streams[id] /\ guest'.conns[id] = guest.conns[id]
                            /\ backends'[id] = backends[id]
                            /\ SameWay(OutQueue, OutQueue', id) /\ SameWay(InQueue, InQueue', id)
  BY <1>2, <1>3, <1>4
<1> QED
  BY <1>2, <1>3, <1>4, <1>5, <1>6, ForwardStepKeeps

\* A frame for a connection that is gone.
LEMMA GuestIgnoresKeeps ==
  ASSUME ForwardInv, NEW k \in Ids, NEW u \in Kinds, GuestTakes(u, k), u # "tcp_open",
         ~guest.conns[k].live, guest' = guest, backends' = backends, toHost' = toHost
  PROVE  ForwardInv'
<1>1. /\ ForwardTyped /\ StreamInv(k)
  BY ForwardParts
<1>2. /\ \A t \in Kinds : Has(Frame(t, k), OutQueue') => Has(Frame(t, k), OutQueue)
      /\ ~Has(Frame("tcp_open", k), OutQueue') /\ ~Has(Frame("tcp_open", k), OutQueue)
  BY GuestTakesParts, KindsKnown
<1>3. InQueue' = InQueue /\ streams' = streams /\ bridge' = bridge
  BY DEF InQueue, GuestTakes
<1>4. StreamInv(k)'
  <2>1. NotYetThere(k)'
    BY <1>1, <1>2, <1>3, KindsKnown DEF StreamInv, NotYetThere
  <2>2. BooksKept(k)'
    BY <1>1, <1>3 DEF StreamInv, BooksKept
  <2>3. UploadCounted(k)'
    BY <1>1, <1>2, <1>3, KindsKnown DEF StreamInv, UploadCounted, CutsCaused
  <2>4. DownloadCounted(k)'
    BY <1>1, <1>3 DEF StreamInv, DownloadCounted
  <2>5. SidesTold(k)'
    BY <1>1, <1>2, <1>3, KindsKnown DEF StreamInv, SidesTold
  <2> QED
    BY <2>1, <2>2, <2>3, <2>4, <2>5 DEF StreamInv
<1> QED
  BY <1>1, <1>3, <1>4, GuestTakesKeeps DEF ForwardTyped

\* A frame that ends a connection.
LEMMA GuestTakesAndCloses ==
  ASSUME ForwardInv, NEW k \in Ids, NEW u \in Kinds, GuestTakes(u, k),
         NEW why \in {"full", "host"}, CloseConn(k, why), guest.conns[k].live, EndsFor(k, why)
  PROVE  ForwardInv'
<1>1. ForwardTyped /\ streams'[k] = streams[k] /\ bridge'.exits = bridge.exits
  BY ForwardParts DEF GuestTakes
<1>2. /\ guest' \in GuestRecords /\ toHost' = toHost
      /\ \A id \in Ids \ {k} : guest'.conns[id] = guest.conns[id] /\ backends'[id] = backends[id]
      /\ ConnEnds(k, why)
      /\ backends'[k] \in BackendRecords => backends' \in [Ids -> BackendRecords]
  BY <1>1, CloseConnParts
<1>3. \A t \in Kinds : Has(Frame(t, k), OutQueue') => Has(Frame(t, k), OutQueue)
  BY GuestTakesParts
<1>4. StreamInv(k)' /\ backends'[k] \in BackendRecords
  <2>1. why \in {"full", "host", "error", "eof"} /\ why # "eof"
    OBVIOUS
  <2> QED
    BY <1>2, <1>3, <2>1, ConnEndsKeeps
<1>5. PICK f \in InFrames : f.id = k /\ f.t = "tcp_close" /\ InQueue' = Append(InQueue, f)
  <2>1. Frame("tcp_close", k) \in InFrames
    BY FramesTyped
  <2> QED
    BY <1>2, <2>1, FramesDiffer DEF ConnEnds
<1>6. toHost' \in Seq(InFrames)
  BY <1>1, <1>2 DEF ForwardTyped
<1> QED
  BY <1>2, <1>4, <1>5, <1>6, GuestTakesKeeps

LEMMA HandleOpenKeeps ==
  ASSUME ForwardInv, NEW k \in Ids, GuestTakes("tcp_open", k), NEW ok \in BOOLEAN, HandleOpen(k, ok)
  PROVE  ForwardInv'
<1>1. /\ ForwardTyped /\ StreamInv(k) /\ InQueue \in Seq(InFrames) /\ OutQueue' \in Seq(OutFrames)
      /\ guest.conns \in [Ids -> ConnRecords] /\ guest.conns[k] \in ConnRecords
  BY ForwardParts, QueuesTyped, KindsKnown, GuestTakesParts
<1>2. /\ \A t \in Kinds : Has(Frame(t, k), OutQueue) <=> Has(Frame(t, k), OutQueue') \/ t = "tcp_open"
      /\ ~Has(Frame("tcp_open", k), OutQueue')
  BY KindsKnown, GuestTakesParts
<1>3. streams' = streams /\ bridge' = bridge /\ backends' = backends
  BY DEF GuestTakes, HandleOpen
<1>4. PICK f : f = OpenedFrame(k, ok) /\ f \in InFrames /\ f.id = k /\ f.t = "tcp_opened"
  BY FramesTyped, FramesDiffer
<1>5. PICK d : d = IF ok THEN [NoConn EXCEPT !.live = TRUE] ELSE guest.conns[k]
  OBVIOUS
<1>6. PICK c, w : c = [guest.conns EXCEPT ![k] = d] /\ w = Append(guest.writer, f)
  OBVIOUS
<1>7. EnqueueAndFlush(c, w)
  BY <1>4, <1>5, <1>6 DEF HandleOpen, OpenedFrame
<1>8. w \in Seq(InFrames) /\ toHost \o w = Append(InQueue, f)
  BY <1>1, <1>4, <1>6, WriterGrows
<1>9. /\ guest'.conns = c /\ guest'.writer \in Seq(InFrames) /\ toHost' \in Seq(InFrames)
      /\ InQueue' = toHost \o w /\ guest' = [conns |-> c, writer |-> guest'.writer]
  BY <1>1, <1>7, <1>8, WriterFlushes
<1>10. PICK r : r = [NoConn EXCEPT !.live = TRUE]
  OBVIOUS
<1>a. NoConn \in ConnRecords /\ NoConn.pending = 0 /\ ~NoConn.hostEof /\ ~NoConn.backendShutdown
  BY DEF NoConn, ConnRecords
<1>b. r \in ConnRecords /\ r.live /\ r.pending = 0 /\ ~r.hostEof /\ ~r.backendShutdown
  BY <1>10, <1>a DEF ConnRecords
<1>11. d \in ConnRecords
  BY <1>1, <1>5, <1>10, <1>b
<1>12. /\ c \in [Ids -> ConnRecords] /\ guest'.conns[k] = d
       /\ \A id \in Ids \ {k} : guest'.conns[id] = guest.conns[id]
  BY <1>1, <1>6, <1>9, <1>11
<1>13. guest' \in GuestRecords /\ InQueue' = Append(InQueue, f)
  BY <1>8, <1>9, <1>12 DEF GuestRecords
<1>14. /\ \A t \in Kinds : Has(Frame(t, k), InQueue') <=> Has(Frame(t, k), InQueue)
       /\ \A b \in BOOLEAN : Has(OpenedFrame(k, b), InQueue') <=> Has(OpenedFrame(k, b), InQueue) \/ b = ok
       /\ Num(Frame("tcp_data", k), InQueue') = Num(Frame("tcp_data", k), InQueue)
  BY <1>1, <1>4, <1>13, AppendOpened
<1>15. /\ streams[k].call # "none" /\ streams[k].call # "ok" /\ streams[k].written = 0 /\ ~streams[k].ended
       /\ streams[k].pushed = 0 /\ ~streams[k].closedByRemote
       /\ ~guest.conns[k].live /\ backends[k] = NoBackend
       /\ ~Has(Frame("tcp_data", k), OutQueue') /\ ~Has(Frame("tcp_eof", k), OutQueue')
       /\ ~Has(Frame("tcp_data", k), InQueue) /\ ~Has(Frame("tcp_close", k), InQueue)
       /\ \A b \in BOOLEAN : ~Has(OpenedFrame(k, b), InQueue)
  BY <1>1, <1>2, KindsKnown DEF StreamInv, NotYetThere
<1>16. /\ Num(Frame("tcp_data", k), OutQueue') = 0 /\ Num(Frame("tcp_data", k), InQueue') = 0
  BY <1>1, <1>14, <1>15, NoneCounted
<1>17. /\ d.live <=> ok
       /\ ok => d.pending = 0 /\ ~d.hostEof /\ ~d.backendShutdown
  BY <1>5, <1>10, <1>b, <1>15
<1>18. /\ backends'[k].got = 0 /\ ~backends'[k].gotEof /\ backends'[k].sent = 0 /\ backends'[k].unread = 0
       /\ backends'[k].why = "none"
  BY <1>3, <1>15 DEF NoBackend
<1>19. StreamInv(k)'
  <2>1. NotYetThere(k)'
    BY <1>2, <1>3, <1>15 DEF NotYetThere
  <2>2. BooksKept(k)'
    BY <1>1, <1>3, <1>15 DEF StreamInv, BooksKept
  <2>3. UploadCounted(k)'
    <3>1. CutsCaused(k)'
      BY <1>1, <1>2, <1>3, <1>18, KindsKnown DEF StreamInv, UploadCounted, CutsCaused
    <3> QED
      BY <1>3, <1>12, <1>15, <1>16, <1>17, <1>18, <3>1 DEF UploadCounted
  <2>4. DownloadCounted(k)'
    <3>1. ~Has(Frame("tcp_close", k), InQueue') /\ (Has(OpenedFrame(k, FALSE), InQueue') => ~ok)
      BY <1>14, <1>15, KindsKnown
    <3>2. streams'[k].pushed = 0 /\ ~streams'[k].closedByRemote
      BY <1>3, <1>15
    <3>3. 0 + 0 + 0 = 0
      OBVIOUS
    <3> QED
      BY <1>12, <1>16, <1>17, <1>18, <3>1, <3>2, <3>3 DEF DownloadCounted
  <2>5. SidesTold(k)'
    BY <1>1, <1>2, <1>3, <1>12, <1>14, <1>15, <1>17, KindsKnown DEF StreamInv, SidesTold
  <2> QED
    BY <2>1, <2>2, <2>3, <2>4, <2>5 DEF StreamInv
<1> QED
  BY <1>1, <1>3, <1>4, <1>9, <1>12, <1>13, <1>19, KindsKnown, GuestTakesKeeps DEF ForwardTyped

LEMMA HandleDataKeeps ==
  ASSUME ForwardInv, NEW k \in Ids, GuestTakes("tcp_data", k), HandleData(k)
  PROVE  ForwardInv'
<1>1. /\ ForwardTyped /\ StreamInv(k) /\ guest.conns[k] \in ConnRecords /\ guest.conns \in [Ids -> ConnRecords]
      /\ streams[k] \in StreamRecords /\ backends[k] \in BackendRecords /\ guest \in GuestRecords
  BY ForwardParts, QueuesTyped DEF ForwardTyped
<1>2. CASE guest.conns[k].live /\ guest.conns[k].pending + 1 > MaxTcp
  <2>1. CloseConn(k, "full")
    BY <1>2 DEF HandleData
  <2>2. Num(Frame("tcp_data", k), OutQueue) \in Nat /\ Num(Frame("tcp_data", k), OutQueue) > 0
    <3>1. /\ Num(Frame("tcp_data", k), OutQueue) = Num(Frame("tcp_data", k), OutQueue') + 1
          /\ Num(Frame("tcp_data", k), OutQueue') \in Nat
      BY KindsKnown, GuestTakesParts
    <3> QED
      BY <3>1
  <2>3. guest.conns[k].pending \in Nat /\ backends[k].got \in Nat /\ streams[k].written \in Nat /\ MaxTcp \in Nat
    BY <1>1, ForwardAssumption DEF ConnRecords, BackendRecords, StreamRecords
  <2>4. backends[k].got + guest.conns[k].pending + Num(Frame("tcp_data", k), OutQueue) = streams[k].written
    BY <1>1, <1>2 DEF StreamInv, UploadCounted
  <2>5. backends[k].got + MaxTcp < streams[k].written
    BY <1>2, <2>2, <2>3, <2>4
  <2> QED
    BY <1>2, <2>1, <2>5, KindsKnown, GuestTakesAndCloses DEF EndsFor
<1>3. CASE guest.conns[k].live /\ ~(guest.conns[k].pending + 1 > MaxTcp)
  <2>1. /\ guest' = [guest EXCEPT !.conns[k].pending = @ + 1] /\ toHost' = toHost /\ backends' = backends
        /\ streams' = streams /\ bridge' = bridge
    BY <1>3 DEF HandleData, GuestTakes
  <2>2. guest.conns[k].pending \in Nat /\ backends[k].got \in Nat /\ streams[k].written \in Nat
    BY <1>1 DEF ConnRecords, BackendRecords, StreamRecords
  <2>3. PICK p \in Nat : p = guest.conns[k].pending + 1
    BY <2>2
  <2>4. PICK d : d = [guest.conns[k] EXCEPT !.pending = p]
    OBVIOUS
  <2>5. /\ d \in ConnRecords /\ d.live /\ d.pending = p /\ d.hostEof = guest.conns[k].hostEof
        /\ d.backendShutdown = guest.conns[k].backendShutdown
    BY <1>1, <1>3, <2>4 DEF ConnRecords
  <2>6. guest' = [guest EXCEPT !.conns = [guest.conns EXCEPT ![k] = d]]
    BY <1>1, <2>1, <2>3, <2>4 DEF GuestRecords
  <2>7. /\ guest'.conns = [guest.conns EXCEPT ![k] = d] /\ guest'.writer = guest.writer
        /\ guest' \in GuestRecords
    BY <1>1, <2>5, <2>6 DEF GuestRecords
  <2>8. guest'.conns[k] = d /\ \A id \in Ids \ {k} : guest'.conns[id] = guest.conns[id]
    BY <1>1, <2>7
  <2>9. InQueue' = InQueue
    BY <2>1, <2>7 DEF InQueue
  <2>10. /\ \A t \in Kinds : Has(Frame(t, k), OutQueue) <=> Has(Frame(t, k), OutQueue') \/ t = "tcp_data"
         /\ Num(Frame("tcp_data", k), OutQueue) = Num(Frame("tcp_data", k), OutQueue') + 1
         /\ Num(Frame("tcp_data", k), OutQueue') \in Nat
         /\ ~Has(Frame("tcp_open", k), OutQueue')
    BY KindsKnown, GuestTakesParts
  <2>11. StreamInv(k)'
    <3>1. NotYetThere(k)'
      BY <1>1, <1>3, <2>1, <2>10, KindsKnown DEF StreamInv, NotYetThere
    <3>2. BooksKept(k)'
      BY <1>1, <1>3, <2>1, <2>5, <2>8 DEF StreamInv, BooksKept
    <3>3. UploadCounted(k)'
      <4>1. backends[k].got + guest.conns[k].pending + Num(Frame("tcp_data", k), OutQueue) = streams[k].written
        BY <1>1, <1>3 DEF StreamInv, UploadCounted
      <4>2. backends[k].got + p + Num(Frame("tcp_data", k), OutQueue') = streams[k].written
        BY <2>2, <2>3, <2>10, <4>1
      <4>3. ~guest.conns[k].hostEof
        BY <1>1, <1>3, <2>10, KindsKnown DEF StreamInv, UploadCounted
      <4>4. /\ guest.conns[k].backendShutdown <=> backends[k].gotEof
            /\ Has(Frame("tcp_eof", k), OutQueue') => streams[k].ended
            /\ backends[k].gotEof => streams[k].ended /\ backends[k].got = streams[k].written
        BY <1>1, <1>3, <2>10, KindsKnown DEF StreamInv, UploadCounted
      <4>5. CutsCaused(k)'
        BY <1>1, <2>1, <2>10, KindsKnown DEF StreamInv, UploadCounted, CutsCaused
      <4> QED
        BY <2>1, <2>5, <2>8, <4>2, <4>3, <4>4, <4>5 DEF UploadCounted
    <3>4. DownloadCounted(k)'
      BY <1>1, <1>3, <2>1, <2>5, <2>8, <2>9 DEF StreamInv, DownloadCounted
    <3>5. SidesTold(k)'
      BY <1>1, <1>3, <2>1, <2>5, <2>8, <2>9, <2>10, KindsKnown DEF StreamInv, SidesTold
    <3> QED
      BY <3>1, <3>2, <3>3, <3>4, <3>5 DEF StreamInv
  <2> QED
    BY <1>1, <2>1, <2>7, <2>8, <2>9, <2>11, KindsKnown, GuestTakesKeeps DEF ForwardTyped
<1>4. CASE ~guest.conns[k].live
  <2>1. /\ guest' = [guest EXCEPT !.conns[k].pending = guest.conns[k].pending]
        /\ toHost' = toHost /\ backends' = backends
    BY <1>4 DEF HandleData
  <2>2. [guest.conns[k] EXCEPT !.pending = guest.conns[k].pending] = guest.conns[k]
    BY <1>1 DEF ConnRecords
  <2>3. guest' = [guest EXCEPT !.conns = [guest.conns EXCEPT ![k] = guest.conns[k]]]
    BY <1>1, <2>1, <2>2 DEF GuestRecords
  <2>4. guest' = guest
    BY <1>1, <2>3 DEF GuestRecords
  <2> QED
    BY <1>4, <2>1, <2>4, KindsKnown, GuestIgnoresKeeps
<1> QED
  BY <1>2, <1>3, <1>4

LEMMA HandleEofKeeps ==
  ASSUME ForwardInv, NEW k \in Ids, GuestTakes("tcp_eof", k), HandleEof(k)
  PROVE  ForwardInv'
<1>1. /\ ForwardTyped /\ StreamInv(k) /\ guest.conns[k] \in ConnRecords
      /\ streams[k] \in StreamRecords /\ backends[k] \in BackendRecords
  BY ForwardParts
<1>2. CASE ~guest.conns[k].live
  <2>1. UNCHANGED <<guest, backends, toHost>>
    BY <1>2 DEF HandleEof
  <2> QED
    BY <1>2, <2>1, KindsKnown, GuestIgnoresKeeps
<1>3. CASE guest.conns[k].live
  <2>1. Settle(k, [guest.conns[k] EXCEPT !.hostEof = TRUE], 0) /\ toHost' = toHost
        /\ streams' = streams /\ bridge' = bridge
    BY <1>3 DEF HandleEof, GuestTakes
  <2>2. PICK conn : conn = [guest.conns[k] EXCEPT !.hostEof = TRUE]
    OBVIOUS
  <2>3. /\ conn \in ConnRecords /\ conn.live /\ conn.hostEof /\ conn.pending = guest.conns[k].pending
        /\ conn.backendShutdown = guest.conns[k].backendShutdown
    BY <1>1, <1>3, <2>2 DEF ConnRecords
  <2>4. Settle(k, conn, 0)
    BY <2>1, <2>2
  <2>5. PICK n \in Nat : n = 0
    OBVIOUS
  <2>6. /\ guest' \in GuestRecords /\ backends' \in [Ids -> BackendRecords] /\ guest'.writer = guest.writer
        /\ \A id \in Ids \ {k} : guest'.conns[id] = guest.conns[id] /\ backends'[id] = backends[id]
        /\ guest'.conns[k].live = conn.live /\ guest'.conns[k].pending = conn.pending
        /\ guest'.conns[k].hostEof = conn.hostEof
        /\ guest'.conns[k].backendShutdown <=> conn.backendShutdown \/ MayShutdown(conn)
        /\ backends'[k].got = backends[k].got + n
        /\ backends'[k].gotEof <=> backends[k].gotEof \/ MayShutdown(conn)
        /\ backends'[k].sent = backends[k].sent /\ backends'[k].unread = backends[k].unread
        /\ backends'[k].end = backends[k].end /\ backends'[k].why = backends[k].why
    BY <1>1, <2>3, <2>4, <2>5, SettleParts
  <2>7. /\ backends[k].got \in Nat /\ streams[k].written \in Nat /\ guest.conns[k].pending \in Nat
    BY <1>1 DEF BackendRecords, StreamRecords, ConnRecords
  <2>8. backends'[k].got = backends[k].got
    BY <2>5, <2>6, <2>7
  <2>9. InQueue' = InQueue
    BY <2>1, <2>6 DEF InQueue
  <2>10. MayShutdown(conn) <=> ~guest.conns[k].backendShutdown /\ guest.conns[k].pending = 0
    BY <2>3 DEF MayShutdown
  <2>11. /\ \A t \in Kinds : Has(Frame(t, k), OutQueue) <=> Has(Frame(t, k), OutQueue') \/ t = "tcp_eof"
         /\ Num(Frame("tcp_data", k), OutQueue) = Num(Frame("tcp_data", k), OutQueue')
         /\ Num(Frame("tcp_data", k), OutQueue') \in Nat /\ OutQueue' \in Seq(OutFrames)
         /\ ~Has(Frame("tcp_open", k), OutQueue') /\ ~Has(Frame("tcp_data", k), OutQueue')
    BY KindsKnown, GuestTakesParts
  <2>12. streams[k].ended
    BY <1>1, <2>11, KindsKnown DEF StreamInv, UploadCounted
  <2>13. backends[k].got + guest.conns[k].pending + Num(Frame("tcp_data", k), OutQueue') = streams[k].written
    BY <1>1, <1>3, <2>11 DEF StreamInv, UploadCounted
  <2>14. Num(Frame("tcp_data", k), OutQueue') = 0
    BY <2>11, NoneCounted
  <2>15. guest.conns[k].pending = 0 => backends[k].got = streams[k].written
    BY <2>7, <2>13, <2>14
  <2>16. /\ guest.conns[k].backendShutdown <=> backends[k].gotEof
         /\ backends[k].gotEof => backends[k].got = streams[k].written
    BY <1>1, <1>3 DEF StreamInv, UploadCounted
  <2>17. StreamInv(k)'
    <3>1. NotYetThere(k)'
      BY <1>1, <1>3, <2>1, <2>11, KindsKnown DEF StreamInv, NotYetThere
    <3>2. BooksKept(k)'
      BY <1>1, <1>3, <2>1, <2>3, <2>6 DEF StreamInv, BooksKept
    <3>3. UploadCounted(k)'
      <4>1. backends'[k].gotEof => backends'[k].got = streams[k].written
        BY <2>6, <2>8, <2>10, <2>15, <2>16
      <4>2. guest'.conns[k].backendShutdown <=> backends'[k].gotEof
        BY <2>3, <2>6, <2>16
      <4>3. guest'.conns[k].pending = 0 => backends'[k].gotEof
        BY <2>3, <2>6, <2>10, <2>16
      <4>4. backends'[k].got + guest'.conns[k].pending + Num(Frame("tcp_data", k), OutQueue') = streams[k].written
        BY <2>3, <2>6, <2>8, <2>13
      <4>5. CutsCaused(k)'
        BY <1>1, <2>1, <2>6, <2>8, <2>11, KindsKnown DEF StreamInv, UploadCounted, CutsCaused
      <4> QED
        BY <2>1, <2>11, <2>12, <4>1, <4>2, <4>3, <4>4, <4>5 DEF UploadCounted
    <3>4. DownloadCounted(k)'
      BY <1>1, <1>3, <2>1, <2>3, <2>6, <2>9 DEF StreamInv, DownloadCounted
    <3>5. SidesTold(k)'
      BY <1>1, <1>3, <2>1, <2>3, <2>6, <2>9, <2>11, KindsKnown DEF StreamInv, SidesTold
    <3> QED
      BY <3>1, <3>2, <3>3, <3>4, <3>5 DEF StreamInv
  <2> QED
    BY <1>1, <2>1, <2>6, <2>9, <2>17, KindsKnown, GuestTakesKeeps DEF ForwardTyped
<1> QED
  BY <1>2, <1>3

LEMMA GuestReceivesKeeps ==
  ASSUME ForwardInv, GuestReceives
  PROVE  ForwardInv'
<1>1. /\ toGuest # <<>> /\ toGuest' = Tail(toGuest) /\ UNCHANGED <<setup, streams, bridge>>
      /\ toGuest \in Seq(OutFrames) /\ guest \in GuestRecords /\ backends \in [Ids -> BackendRecords]
  BY ForwardParts DEF GuestReceives, ForwardTyped
<1>2. PICK f \in OutFrames : f = Head(toGuest)
  BY <1>1, HeadTailProperties
<1>3. PICK u, k : u = f.t /\ k = f.id
  OBVIOUS
<1>4. u \in Kinds /\ k \in Ids /\ f = Frame(u, k)
  BY <1>2, <1>3 DEF OutFrames, Frame, Kinds
<1>5. GuestTakes(u, k)
  BY <1>1, <1>2, <1>4 DEF GuestTakes
<1>6. \/ u = "tcp_open" /\ \E ok \in BOOLEAN : HandleOpen(k, ok)
      \/ u = "tcp_data" /\ HandleData(k)
      \/ u = "tcp_eof" /\ HandleEof(k)
      \/ u = "tcp_close" /\ CloseConn(k, "host")
  BY <1>2, <1>3 DEF GuestReceives
<1>7. CASE u = "tcp_open" /\ \E ok \in BOOLEAN : HandleOpen(k, ok)
  BY <1>4, <1>5, <1>7, HandleOpenKeeps
<1>8. CASE u = "tcp_data" /\ HandleData(k)
  BY <1>4, <1>5, <1>8, HandleDataKeeps
<1>9. CASE u = "tcp_eof" /\ HandleEof(k)
  BY <1>4, <1>5, <1>9, HandleEofKeeps
<1>10. CASE u = "tcp_close" /\ CloseConn(k, "host")
  <2>1. CASE guest.conns[k].live
    <3>1. Has(Frame("tcp_close", k), OutQueue)
      BY <1>4, <1>5, <1>10, KindsKnown, GuestTakesParts
    <3>2. streams[k].destroyed
      BY <1>4, <3>1, ForwardParts DEF StreamInv, UploadCounted, CutsCaused
    <3> QED
      BY <1>4, <1>5, <1>10, <2>1, <3>2, GuestTakesAndCloses DEF EndsFor
  <2>2. CASE ~guest.conns[k].live
    <3>1. streams'[k] = streams[k] /\ bridge'.exits = bridge.exits
      BY <1>1
    <3>2. guest' = guest /\ backends' = backends /\ toHost' = toHost
      BY <1>4, <1>10, <2>2, <3>1, ForwardParts, CloseConnParts
    <3> QED
      BY <1>4, <1>5, <1>10, <2>2, <3>2, GuestIgnoresKeeps
  <2> QED
    BY <2>1, <2>2
<1> QED
  BY <1>6, <1>7, <1>8, <1>9, <1>10
-----------------------------------------------------------------------------
(* What the host takes from its queue.                                       *)

\* The oldest frame of the queue to the host is taken.
HostTakes(f) ==
  /\ toHost # <<>> /\ toHost' = Tail(toHost) /\ Head(toHost) = f
  /\ UNCHANGED <<setup, bridge, toGuest, guest, backends>>

LEMMA HostTakesParts ==
  ASSUME ForwardInv, NEW f \in InFrames, HostTakes(f)
  PROVE  /\ toHost' \in Seq(InFrames) /\ InOrdered(InQueue')
         /\ InQueue' = Tail(InQueue) /\ InQueue # <<>> /\ Head(InQueue) = f
         /\ InQueue' \in Seq(InFrames) /\ InQueue \in Seq(InFrames)
         /\ \A id \in Ids \ {f.id} : SameWay(InQueue, InQueue', id)
         /\ Num(Frame("tcp_data", f.id), InQueue) \in Nat /\ Num(Frame("tcp_data", f.id), InQueue') \in Nat
         /\ f.t = "tcp_close" => ~Has(Frame("tcp_data", f.id), InQueue')
         /\ f.id \in Ids
<1>1. /\ ForwardTyped /\ InOrdered(InQueue) /\ InQueue \in Seq(InFrames)
      /\ guest.writer \in Seq(InFrames) /\ toHost \in Seq(InFrames)
  BY ForwardParts, QueuesTyped DEF ForwardTyped
<1>2. /\ toHost # <<>> /\ toHost' = Tail(toHost) /\ Head(toHost) = f /\ guest' = guest
  BY DEF HostTakes
<1>3. PICK p, q, S : p = toHost /\ q = guest.writer /\ S = InFrames
  OBVIOUS
<1>4. p \in Seq(S) /\ q \in Seq(S) /\ p # <<>>
  BY <1>1, <1>2, <1>3
<1>5. /\ Tail(p) \o q = Tail(p \o q) /\ Head(p) = Head(p \o q) /\ p \o q # <<>>
      /\ Tail(p) \in Seq(S) /\ p \o q \in Seq(S)
  BY <1>4, TailInFront
<1>6. /\ InQueue' = Tail(InQueue) /\ InQueue # <<>> /\ Head(InQueue) = f /\ toHost' \in Seq(InFrames)
  BY <1>2, <1>3, <1>5 DEF InQueue
<1>7. InQueue' \in Seq(InFrames)
  BY <1>1, <1>6, HeadTailProperties
<1>8. /\ InOrdered(InQueue')
      /\ f.t = "tcp_close" => \A g \in InFrames : g.t = "tcp_data" /\ g.id = f.id => ~Has(g, InQueue')
  BY <1>1, <1>6, InTailOrdered
<1>9. f.id \in Ids
  BY DEF InFrames
<1>10. Frame("tcp_data", f.id) \in InFrames /\ Frame("tcp_data", f.id).t = "tcp_data" /\ Frame("tcp_data", f.id).id = f.id
  BY <1>9, FramesTyped, FramesDiffer
<1>11. \A id \in Ids \ {f.id} : SameWay(InQueue, InQueue', id)
  BY <1>1, <1>6, TailElsewhere
<1>12. Num(Frame("tcp_data", f.id), InQueue) \in Nat /\ Num(Frame("tcp_data", f.id), InQueue') \in Nat
  BY <1>1, <1>7, PlacesFinite
<1> QED
  BY <1>1, <1>6, <1>7, <1>8, <1>9, <1>10, <1>11, <1>12

LEMMA HostTakesKeeps ==
  ASSUME ForwardInv, NEW f \in InFrames, HostTakes(f), NEW k, k = f.id,
         streams' \in [Ids -> StreamRecords], \A id \in Ids \ {k} : streams'[id] = streams[id],
         StreamInv(k)'
  PROVE  ForwardInv'
<1>1. /\ ForwardTyped /\ OutOrdered(OutQueue) /\ BridgeWaits
  BY ForwardParts
<1>2. /\ toHost' \in Seq(InFrames) /\ InOrdered(InQueue') /\ k \in Ids
      /\ \A id \in Ids \ {k} : SameWay(InQueue, InQueue', id)
  BY HostTakesParts
<1>3. UNCHANGED <<setup, bridge, toGuest, guest, backends>>
  BY DEF HostTakes
<1>4. OutQueue' = OutQueue /\ BridgeWaits'
  BY <1>1, <1>3 DEF OutQueue, BridgeWaits
<1>5. /\ setup' = setup /\ bridge' \in BridgeRecords /\ toGuest' \in Seq(OutFrames) /\ guest' \in GuestRecords
      /\ backends' \in [Ids -> BackendRecords] /\ bridge'.exits = bridge.exits /\ OutOrdered(OutQueue')
  BY <1>1, <1>3, <1>4 DEF ForwardTyped
<1>6. {k} \in SUBSET Ids /\ \A id \in {k} : StreamInv(id)'
  BY <1>2
<1>7. \A id \in Ids \ {k} : /\ streams'[id] = streams[id] /\ guest'.conns[id] = guest.conns[id]
                            /\ backends'[id] = backends[id]
                            /\ SameWay(OutQueue, OutQueue', id) /\ SameWay(InQueue, InQueue', id)
  BY <1>2, <1>3, <1>4, SameQueue
<1> QED
  BY <1>2, <1>4, <1>5, <1>6, <1>7, ForwardStepKeeps

\* A stream that the guest's end has closed.
Remotely(s) == [Destroyed(s) EXCEPT !.closedByRemote = TRUE]

LEMMA RemotelyParts ==
  ASSUME ForwardInv, NEW k \in Ids, streams' = [streams EXCEPT ![k] = Remotely(streams[k])]
  PROVE  /\ streams' \in [Ids -> StreamRecords] /\ \A id \in Ids \ {k} : streams'[id] = streams[id]
         /\ streams'[k].destroyed /\ ~streams'[k].listed /\ streams'[k].closedByRemote
         /\ streams'[k].call = IF streams[k].call \in {"none", "pending"} THEN "failed" ELSE streams[k].call
         /\ streams'[k].closeLost = streams[k].closeLost /\ streams'[k].ended = streams[k].ended
         /\ streams'[k].written = streams[k].written /\ streams'[k].pushed = streams[k].pushed
<1>1. /\ streams[k] \in StreamRecords /\ streams \in [Ids -> StreamRecords]
  BY ForwardParts DEF ForwardTyped
<1>2. PICK d : d = Destroyed(streams[k])
  OBVIOUS
<1>3. /\ d \in StreamRecords /\ d.destroyed /\ ~d.listed
      /\ d.call = IF streams[k].call \in {"none", "pending"} THEN "failed" ELSE streams[k].call
      /\ d.closeLost = streams[k].closeLost
      /\ d.ended = streams[k].ended /\ d.written = streams[k].written /\ d.pushed = streams[k].pushed
  BY <1>1, <1>2, DestroyedParts
<1>4. PICK s : s = [d EXCEPT !.closedByRemote = TRUE]
  OBVIOUS
<1>5. /\ s \in StreamRecords /\ s.closedByRemote /\ s.call = d.call /\ s.listed = d.listed
      /\ s.destroyed = d.destroyed /\ s.closeLost = d.closeLost /\ s.ended = d.ended
      /\ s.written = d.written /\ s.pushed = d.pushed
  BY <1>3, <1>4 DEF StreamRecords
<1>6. streams' = [streams EXCEPT ![k] = s]
  BY <1>2, <1>4 DEF Remotely
<1> QED
  BY <1>1, <1>3, <1>5, <1>6

LEMMA OpenedTakenKeeps ==
  ASSUME ForwardInv, NEW k \in Ids, NEW ok \in BOOLEAN, HostTakes(OpenedFrame(k, ok)),
         streams' = OnOpened(OpenedFrame(k, ok))
  PROVE  ForwardInv'
<1>1. /\ StreamInv(k) /\ streams[k] \in StreamRecords /\ streams \in [Ids -> StreamRecords]
  BY ForwardParts DEF ForwardTyped
<1>2. PICK f : f = OpenedFrame(k, ok) /\ f \in InFrames /\ f.id = k /\ f.ok = ok
  BY FramesTyped, FramesDiffer
<1>3. /\ InQueue \in Seq(InFrames) /\ InQueue # <<>> /\ InQueue' = Tail(InQueue) /\ Head(InQueue) = OpenedFrame(k, ok)
  BY <1>2, HostTakesParts
<1>4. /\ \A t \in Kinds : Has(Frame(t, k), InQueue) <=> Has(Frame(t, k), InQueue')
      /\ \A b \in BOOLEAN : Has(OpenedFrame(k, b), InQueue) <=> Has(OpenedFrame(k, b), InQueue') \/ b = ok
      /\ Num(Frame("tcp_data", k), InQueue) = Num(Frame("tcp_data", k), InQueue')
  BY <1>3, TailOpened
<1>5. guest' = guest /\ bridge' = bridge /\ backends' = backends /\ OutQueue' = OutQueue
  BY DEF HostTakes, OutQueue
<1>6. /\ streams[k].call # "none" /\ ~Has(Frame("tcp_open", k), OutQueue)
  BY <1>1, <1>4 DEF StreamInv, NotYetThere
<1>7. CASE streams[k].call # "pending"
  <2>1. streams' = streams
    BY <1>2, <1>7 DEF OnOpened
  <2>2. StreamInv(k)'
    <3>1. NotYetThere(k)'
      BY <1>5, <1>6, <2>1 DEF NotYetThere
    <3>2. BooksKept(k)'
      BY <1>1, <1>5, <2>1 DEF StreamInv, BooksKept
    <3>3. UploadCounted(k)'
      BY <1>1, <1>5, <2>1 DEF StreamInv, UploadCounted, CutsCaused
    <3>4. DownloadCounted(k)'
      BY <1>1, <1>4, <1>5, <2>1, KindsKnown DEF StreamInv, DownloadCounted
    <3>5. SidesTold(k)'
      BY <1>1, <1>4, <1>5, <1>7, <2>1, KindsKnown DEF StreamInv, SidesTold
    <3> QED
      BY <3>1, <3>2, <3>3, <3>4, <3>5 DEF StreamInv
  <2> QED
    BY <1>1, <1>2, <2>1, <2>2, HostTakesKeeps
<1>8. CASE streams[k].call = "pending" /\ ok
  <2>1. streams' = [streams EXCEPT ![k].call = "ok"]
    BY <1>2, <1>8 DEF OnOpened
  <2>2. PICK s : s = [streams[k] EXCEPT !.call = "ok"]
    OBVIOUS
  <2>3. /\ s \in StreamRecords /\ s.call = "ok" /\ s.listed = streams[k].listed
        /\ s.destroyed = streams[k].destroyed /\ s.closedByRemote = streams[k].closedByRemote
        /\ s.closeLost = streams[k].closeLost /\ s.ended = streams[k].ended
        /\ s.written = streams[k].written /\ s.pushed = streams[k].pushed
    BY <1>1, <2>2 DEF StreamRecords
  <2>4. /\ streams' \in [Ids -> StreamRecords] /\ \A id \in Ids \ {k} : streams'[id] = streams[id]
        /\ streams'[k] = s
    BY <1>1, <2>1, <2>2, <2>3
  <2>5. StreamInv(k)'
    <3>1. NotYetThere(k)'
      BY <1>5, <1>6, <2>3, <2>4 DEF NotYetThere
    <3>2. BooksKept(k)'
      BY <1>1, <1>5, <1>8, <2>3, <2>4 DEF StreamInv, BooksKept
    <3>3. UploadCounted(k)'
      BY <1>1, <1>5, <2>3, <2>4 DEF StreamInv, UploadCounted, CutsCaused
    <3>4. DownloadCounted(k)'
      BY <1>1, <1>4, <1>5, <2>3, <2>4, KindsKnown DEF StreamInv, DownloadCounted
    <3>5. SidesTold(k)'
      <4>1. Has(OpenedFrame(k, TRUE), InQueue)
        BY <1>4, <1>8
      <4> QED
        BY <1>1, <1>4, <1>5, <2>3, <2>4, <4>1, KindsKnown DEF StreamInv, SidesTold
    <3> QED
      BY <3>1, <3>2, <3>3, <3>4, <3>5 DEF StreamInv
  <2> QED
    BY <1>2, <2>4, <2>5, HostTakesKeeps
<1>9. CASE streams[k].call = "pending" /\ ~ok
  <2>1. streams' = [streams EXCEPT ![k] = Remotely(streams[k])]
    BY <1>2, <1>9 DEF OnOpened, Remotely
  <2>2. /\ streams' \in [Ids -> StreamRecords] /\ \A id \in Ids \ {k} : streams'[id] = streams[id]
        /\ streams'[k].destroyed /\ ~streams'[k].listed /\ streams'[k].closedByRemote
        /\ streams'[k].call = "failed" /\ streams'[k].ended = streams[k].ended
        /\ streams'[k].written = streams[k].written /\ streams'[k].pushed = streams[k].pushed
    BY <1>9, <2>1, RemotelyParts
  <2>3. Has(OpenedFrame(k, FALSE), InQueue)
    BY <1>4, <1>9
  <2>4. ~guest.conns[k].live /\ backends[k].why = "none"
    BY <1>1, <2>3 DEF StreamInv, DownloadCounted
  <2>5. StreamInv(k)'
    <3>1. NotYetThere(k)'
      BY <1>5, <1>6, <2>2 DEF NotYetThere
    <3>2. BooksKept(k)'
      BY <1>5, <2>2, <2>4 DEF BooksKept
    <3>3. UploadCounted(k)'
      BY <1>1, <1>5, <2>2 DEF StreamInv, UploadCounted, CutsCaused
    <3>4. DownloadCounted(k)'
      BY <1>5, <2>2, <2>4 DEF DownloadCounted
    <3>5. SidesTold(k)'
      BY <1>5, <1>6, <2>2, <2>4 DEF SidesTold
    <3> QED
      BY <3>1, <3>2, <3>3, <3>4, <3>5 DEF StreamInv
  <2> QED
    BY <1>2, <2>2, <2>5, HostTakesKeeps
<1> QED
  BY <1>7, <1>8, <1>9

LEMMA DataTakenKeeps ==
  ASSUME ForwardInv, NEW k \in Ids, HostTakes(Frame("tcp_data", k)), streams' = OnData(Frame("tcp_data", k))
  PROVE  ForwardInv'
<1>1. /\ StreamInv(k) /\ streams[k] \in StreamRecords /\ streams \in [Ids -> StreamRecords]
      /\ backends[k] \in BackendRecords
  BY ForwardParts DEF ForwardTyped
<1>2. PICK f : f = Frame("tcp_data", k) /\ f \in InFrames /\ f.id = k
  BY FramesTyped, FramesDiffer
<1>3. /\ InQueue \in Seq(InFrames) /\ InQueue # <<>> /\ InQueue' = Tail(InQueue) /\ Head(InQueue) = Frame("tcp_data", k)
      /\ Num(Frame("tcp_data", k), InQueue) \in Nat /\ Num(Frame("tcp_data", k), InQueue') \in Nat
  BY <1>2, HostTakesParts
<1>4. /\ \A t \in Kinds : Has(Frame(t, k), InQueue) <=> Has(Frame(t, k), InQueue') \/ t = "tcp_data"
      /\ \A b \in BOOLEAN : Has(OpenedFrame(k, b), InQueue) <=> Has(OpenedFrame(k, b), InQueue')
      /\ Num(Frame("tcp_data", k), InQueue) = Num(Frame("tcp_data", k), InQueue') + 1
  BY <1>3, KindsKnown, TailHere
<1>a. Num(Frame("tcp_data", k), InQueue) \in Nat /\ Num(Frame("tcp_data", k), InQueue') \in Nat
  BY <1>3
<1>5. guest' = guest /\ bridge' = bridge /\ backends' = backends /\ OutQueue' = OutQueue
  BY DEF HostTakes, OutQueue
<1>6. /\ streams[k].call # "none" /\ ~Has(Frame("tcp_open", k), OutQueue)
  BY <1>1, <1>4, KindsKnown DEF StreamInv, NotYetThere
<1>7. streams[k].pushed \in Nat /\ backends[k].unread \in Nat /\ backends[k].sent \in Nat
  BY <1>1 DEF StreamRecords, BackendRecords
<1>8. PICK p \in Nat : p = IF streams[k].listed THEN streams[k].pushed + 1 ELSE streams[k].pushed
  BY <1>7
<1>9. PICK s : s = [streams[k] EXCEPT !.pushed = p]
  OBVIOUS
<1>10. /\ s \in StreamRecords /\ s.call = streams[k].call /\ s.listed = streams[k].listed
       /\ s.destroyed = streams[k].destroyed /\ s.closedByRemote = streams[k].closedByRemote
       /\ s.closeLost = streams[k].closeLost /\ s.ended = streams[k].ended
       /\ s.written = streams[k].written /\ s.pushed = p
  BY <1>1, <1>9 DEF StreamRecords
<1>11. streams' = [streams EXCEPT ![k] = s]
  BY <1>1, <1>2, <1>8, <1>9 DEF OnData
<1>12. /\ streams' \in [Ids -> StreamRecords] /\ \A id \in Ids \ {k} : streams'[id] = streams[id]
       /\ streams'[k] = s
  BY <1>1, <1>10, <1>11
<1>13. StreamInv(k)'
  <2>1. NotYetThere(k)'
    BY <1>5, <1>6, <1>10, <1>12 DEF NotYetThere
  <2>2. BooksKept(k)'
    BY <1>1, <1>5, <1>10, <1>12 DEF StreamInv, BooksKept
  <2>3. UploadCounted(k)'
    BY <1>1, <1>5, <1>10, <1>12 DEF StreamInv, UploadCounted, CutsCaused
  <2>4. DownloadCounted(k)'
    <3>1. streams[k].listed /\ guest.conns[k].live /\ backends[k].end # "reset" =>
            p + Num(Frame("tcp_data", k), InQueue') + backends[k].unread = backends[k].sent
      <4>1. SUFFICES ASSUME streams[k].listed, guest.conns[k].live, backends[k].end # "reset"
                     PROVE  p + Num(Frame("tcp_data", k), InQueue') + backends[k].unread = backends[k].sent
        OBVIOUS
      <4>2. streams[k].pushed + Num(Frame("tcp_data", k), InQueue) + backends[k].unread = backends[k].sent
        BY <1>1, <4>1 DEF StreamInv, DownloadCounted
      <4>3. p = streams[k].pushed + 1
        BY <1>8, <4>1
      <4>4. Num(Frame("tcp_data", k), InQueue) = Num(Frame("tcp_data", k), InQueue') + 1
        BY <1>4
      <4> QED
        BY <1>a, <1>7, <4>2, <4>3, <4>4
    <3>2. streams[k].listed /\ Has(Frame("tcp_close", k), InQueue) /\ backends[k].why = "eof" =>
            p + Num(Frame("tcp_data", k), InQueue') = backends[k].sent
      <4>1. SUFFICES ASSUME streams[k].listed, Has(Frame("tcp_close", k), InQueue), backends[k].why = "eof"
                     PROVE  p + Num(Frame("tcp_data", k), InQueue') = backends[k].sent
        OBVIOUS
      <4>2. streams[k].pushed + Num(Frame("tcp_data", k), InQueue) = backends[k].sent
        BY <1>1, <4>1 DEF StreamInv, DownloadCounted
      <4>3. p = streams[k].pushed + 1
        BY <1>8, <4>1
      <4>4. Num(Frame("tcp_data", k), InQueue) = Num(Frame("tcp_data", k), InQueue') + 1
        BY <1>4
      <4> QED
        BY <1>a, <1>7, <4>2, <4>3, <4>4
    <3>3. streams[k].closedByRemote => ~streams[k].listed
      BY <1>1 DEF StreamInv, BooksKept
    <3>4. streams[k].closedByRemote => p = streams[k].pushed
      BY <1>8, <3>3
    <3>5. Has(Frame("tcp_close", k), InQueue') => Has(Frame("tcp_close", k), InQueue)
      BY <1>4, KindsKnown
    <3> QED
      BY <1>1, <1>4, <1>5, <1>10, <1>12, <3>1, <3>2, <3>4, <3>5 DEF StreamInv, DownloadCounted
  <2>5. SidesTold(k)'
    BY <1>1, <1>4, <1>5, <1>10, <1>12, KindsKnown DEF StreamInv, SidesTold
  <2> QED
    BY <2>1, <2>2, <2>3, <2>4, <2>5 DEF StreamInv
<1> QED
  BY <1>2, <1>12, <1>13, HostTakesKeeps

LEMMA CloseTakenKeeps ==
  ASSUME ForwardInv, NEW k \in Ids, HostTakes(Frame("tcp_close", k)), streams' = OnClose(Frame("tcp_close", k))
  PROVE  ForwardInv'
<1>1. /\ StreamInv(k) /\ streams[k] \in StreamRecords /\ streams \in [Ids -> StreamRecords]
      /\ backends[k] \in BackendRecords
  BY ForwardParts DEF ForwardTyped
<1>2. PICK f : f = Frame("tcp_close", k) /\ f \in InFrames /\ f.id = k /\ f.t = "tcp_close"
  BY FramesTyped, FramesDiffer
<1>3. /\ InQueue \in Seq(InFrames) /\ InQueue # <<>> /\ InQueue' = Tail(InQueue) /\ Head(InQueue) = Frame("tcp_close", k)
      /\ InQueue' \in Seq(InFrames) /\ ~Has(Frame("tcp_data", k), InQueue')
  BY <1>2, HostTakesParts
<1>4. /\ \A t \in Kinds : Has(Frame(t, k), InQueue) <=> Has(Frame(t, k), InQueue') \/ t = "tcp_close"
      /\ \A b \in BOOLEAN : Has(OpenedFrame(k, b), InQueue) <=> Has(OpenedFrame(k, b), InQueue')
      /\ Num(Frame("tcp_data", k), InQueue) = Num(Frame("tcp_data", k), InQueue')
  BY <1>3, KindsKnown, TailHere
<1>5. guest' = guest /\ bridge' = bridge /\ backends' = backends /\ OutQueue' = OutQueue
  BY DEF HostTakes, OutQueue
<1>6. /\ streams[k].call # "none" /\ ~Has(Frame("tcp_open", k), OutQueue)
  BY <1>1, <1>4, KindsKnown DEF StreamInv, NotYetThere
<1>7. /\ ~guest.conns[k].live
      /\ streams[k].listed /\ backends[k].why = "eof" =>
           streams[k].pushed + Num(Frame("tcp_data", k), InQueue) = backends[k].sent
  BY <1>1, <1>4, KindsKnown DEF StreamInv, DownloadCounted
<1>8. CASE streams[k].listed
  <2>1. streams' = [streams EXCEPT ![k] = Remotely(streams[k])]
    BY <1>2, <1>8 DEF OnClose, Remotely
  <2>2. /\ streams' \in [Ids -> StreamRecords] /\ \A id \in Ids \ {k} : streams'[id] = streams[id]
        /\ streams'[k].destroyed /\ ~streams'[k].listed /\ streams'[k].closedByRemote
        /\ streams'[k].call = IF streams[k].call \in {"none", "pending"} THEN "failed" ELSE streams[k].call
        /\ streams'[k].ended = streams[k].ended
        /\ streams'[k].written = streams[k].written /\ streams'[k].pushed = streams[k].pushed
    BY <2>1, RemotelyParts
  <2>3. backends[k].why = "eof" => streams[k].pushed = backends[k].sent
    <3>1. Num(Frame("tcp_data", k), InQueue) = 0
      BY <1>3, <1>4, NoneCounted
    <3>2. streams[k].pushed \in Nat
      BY <1>1 DEF StreamRecords
    <3> QED
      BY <1>7, <1>8, <3>1, <3>2
  <2>4. streams'[k].call # "none" /\ streams'[k].call # "pending"
    BY <1>6, <2>2
  <2>5. StreamInv(k)'
    <3>1. NotYetThere(k)'
      BY <1>5, <1>6, <2>4 DEF NotYetThere
    <3>2. BooksKept(k)'
      BY <1>5, <1>7, <2>2, <2>4 DEF BooksKept
    <3>3. UploadCounted(k)'
      BY <1>1, <1>5, <2>2 DEF StreamInv, UploadCounted, CutsCaused
    <3>4. DownloadCounted(k)'
      BY <1>1, <1>4, <1>5, <1>7, <2>2, <2>3 DEF StreamInv, DownloadCounted
    <3>5. SidesTold(k)'
      BY <1>5, <1>6, <1>7, <2>2, <2>4 DEF SidesTold
    <3> QED
      BY <3>1, <3>2, <3>3, <3>4, <3>5 DEF StreamInv
  <2> QED
    BY <1>2, <2>2, <2>5, HostTakesKeeps
<1>9. CASE ~streams[k].listed
  <2>1. streams' = streams
    BY <1>2, <1>9 DEF OnClose
  <2>2. StreamInv(k)'
    <3>1. NotYetThere(k)'
      BY <1>5, <1>6, <2>1 DEF NotYetThere
    <3>2. BooksKept(k)'
      BY <1>1, <1>5, <2>1 DEF StreamInv, BooksKept
    <3>3. UploadCounted(k)'
      BY <1>1, <1>5, <2>1 DEF StreamInv, UploadCounted, CutsCaused
    <3>4. DownloadCounted(k)'
      BY <1>1, <1>4, <1>5, <1>7, <1>9, <2>1, KindsKnown DEF StreamInv, DownloadCounted
    <3>5. SidesTold(k)'
      <4>1. streams[k].call # "pending"
        BY <1>1, <1>9 DEF StreamInv, BooksKept
      <4> QED
        BY <1>5, <1>6, <1>7, <1>9, <2>1, <4>1 DEF SidesTold
    <3> QED
      BY <3>1, <3>2, <3>3, <3>4, <3>5 DEF StreamInv
  <2> QED
    BY <1>1, <1>2, <2>1, <2>2, HostTakesKeeps
<1> QED
  BY <1>8, <1>9

LEMMA HostReceivesKeeps ==
  ASSUME ForwardInv, HostReceives
  PROVE  ForwardInv'
<1>1. /\ toHost # <<>> /\ toHost' = Tail(toHost) /\ UNCHANGED <<setup, bridge, toGuest, guest, backends>>
      /\ toHost \in Seq(InFrames)
  BY ForwardParts DEF HostReceives, ForwardTyped
<1>2. PICK f \in InFrames : f = Head(toHost)
  BY <1>1, HeadTailProperties
<1>3. HostTakes(f)
  BY <1>1, <1>2 DEF HostTakes
<1>4. streams' = CASE f.t = "tcp_opened" -> OnOpened(f)
                   [] f.t = "tcp_data"   -> OnData(f)
                   [] f.t = "tcp_close"  -> OnClose(f)
  BY <1>2 DEF HostReceives
<1>5. CASE f \in [t : {"tcp_opened"}, id : Ids, ok : BOOLEAN]
  <2>1. PICK k \in Ids, ok \in BOOLEAN : k = f.id /\ ok = f.ok
    BY <1>5
  <2>2. f = OpenedFrame(k, ok)
    BY <1>5, <2>1 DEF OpenedFrame
  <2>3. streams' = OnOpened(f)
    BY <1>4, <1>5
  <2> QED
    BY <1>3, <2>2, <2>3, OpenedTakenKeeps
<1>6. CASE f \in [t : {"tcp_data", "tcp_close"}, id : Ids]
  <2>1. PICK k \in Ids : k = f.id
    BY <1>6
  <2>2. CASE f.t = "tcp_data"
    <3>1. f = Frame("tcp_data", k)
      BY <1>6, <2>1, <2>2 DEF Frame
    <3>2. streams' = OnData(f)
      BY <1>4, <2>2
    <3> QED
      BY <1>3, <3>1, <3>2, DataTakenKeeps
  <2>3. CASE f.t = "tcp_close"
    <3>1. f = Frame("tcp_close", k)
      BY <1>6, <2>1, <2>3 DEF Frame
    <3>2. streams' = OnClose(f)
      BY <1>4, <2>3
    <3> QED
      BY <1>3, <3>1, <3>2, CloseTakenKeeps
  <2> QED
    BY <1>6, <2>2, <2>3
<1> QED
  BY <1>2, <1>5, <1>6 DEF InFrames
-----------------------------------------------------------------------------
(* Drains and exits, and the whole of it.                                    *)

LEMMA FlushedKeeps ==
  ASSUME ForwardInv, NEW l \in Links(OutFrames), Whole(l) = OutQueue,
         l.b.exits = bridge.exits, SetLink(FlushPending(l)), UNCHANGED <<setup, streams, toHost, guest, backends>>
  PROVE  ForwardInv'
<1>1. /\ ForwardTyped /\ OutOrdered(OutQueue) /\ InOrdered(InQueue)
  BY ForwardParts
<1>2. PICK m : m = FlushPending(l)
  OBVIOUS
<1>3. m \in Links(OutFrames) /\ Whole(m) = OutQueue /\ LinkWaits(m) /\ m.b.exits = bridge.exits
  BY <1>2, FlushKeeps
<1>4. SetLink(m) /\ setup' = setup
  BY <1>2
<1>5. /\ bridge' \in BridgeRecords /\ toGuest' \in Seq(OutFrames) /\ BridgeWaits'
      /\ OutQueue' = Whole(m) /\ bridge' = m.b
  BY <1>1, <1>3, <1>4, LinkTaken
<1>6. InQueue' = InQueue /\ OutQueue' = OutQueue /\ bridge'.exits = bridge.exits
  BY <1>3, <1>5 DEF InQueue
<1>7. {} \in SUBSET Ids /\ (\A id \in {} : StreamInv(id)')
  OBVIOUS
<1>8. /\ streams' \in [Ids -> StreamRecords] /\ guest' \in GuestRecords /\ toHost' \in Seq(InFrames)
      /\ backends' \in [Ids -> BackendRecords] /\ OutOrdered(OutQueue') /\ InOrdered(InQueue')
  BY <1>1, <1>6 DEF ForwardTyped
<1>9. \A id \in Ids \ {} : /\ streams'[id] = streams[id] /\ guest'.conns[id] = guest.conns[id]
                           /\ backends'[id] = backends[id]
                           /\ SameWay(OutQueue, OutQueue', id) /\ SameWay(InQueue, InQueue', id)
  BY <1>6, SameQueue
<1> QED
  BY <1>4, <1>5, <1>6, <1>7, <1>8, <1>9, ForwardStepKeeps

LEMMA DrainKeeps ==
  ASSUME ForwardInv, Drain \/ AttachSocket
  PROVE  ForwardInv'
<1>1. /\ ForwardTyped /\ bridge \in Bridges(OutFrames) /\ toGuest \in Seq(OutFrames)
  BY ForwardParts, QueuesTyped DEF ForwardTyped
<1>2. UNCHANGED <<setup, streams, toHost, guest, backends>>
  BY DEF Drain, AttachSocket
<1>3. PICK b : b = [bridge EXCEPT !.waitingDrain = FALSE]
  OBVIOUS
<1>4. b \in Bridges(OutFrames) /\ b.pending = bridge.pending /\ b.exits = bridge.exits
  BY <1>1, <1>3 DEF Bridges
<1>5. PICK c : c = [bridge EXCEPT !.up = TRUE, !.waitingDrain = FALSE]
  OBVIOUS
<1>6. c \in Bridges(OutFrames) /\ c.pending = bridge.pending /\ c.exits = bridge.exits
  BY <1>1, <1>5 DEF Bridges
<1>7. PICK l : l = [b |-> b, wire |-> toGuest]
  OBVIOUS
<1>8. PICK m : m = [b |-> c, wire |-> toGuest]
  OBVIOUS
<1>9. l \in Links(OutFrames) /\ Whole(l) = OutQueue /\ l.b.exits = bridge.exits
  BY <1>1, <1>4, <1>7 DEF Links, Whole, OutQueue
<1>10. m \in Links(OutFrames) /\ Whole(m) = OutQueue /\ m.b.exits = bridge.exits
  BY <1>1, <1>6, <1>8 DEF Links, Whole, OutQueue
<1>11. CASE Drain
  <2>1. [BridgeLink EXCEPT !.b.waitingDrain = FALSE] = l
    <3>1. PICK k : k = BridgeLink
      OBVIOUS
    <3>2. k \in Links(OutFrames) /\ k.b = bridge /\ k.wire = toGuest
      BY <1>1, <3>1 DEF BridgeLink, Links
    <3>3. [k EXCEPT !.b.waitingDrain = FALSE] = [k EXCEPT !.b = b]
      BY <1>3, <3>2 DEF Links
    <3>4. [k EXCEPT !.b = b] = l
      BY <1>7, <3>2 DEF Links
    <3> QED
      BY <3>1, <3>3, <3>4
  <2>2. SetLink(FlushPending(l))
    BY <1>11, <2>1 DEF Drain
  <2> QED
    BY <1>2, <1>9, <2>2, FlushedKeeps
<1>12. CASE AttachSocket
  <2>1. [BridgeLink EXCEPT !.b.up = TRUE, !.b.waitingDrain = FALSE] = m
    <3>1. PICK k : k = BridgeLink
      OBVIOUS
    <3>2. k \in Links(OutFrames) /\ k.b = bridge /\ k.wire = toGuest
      BY <1>1, <3>1 DEF BridgeLink, Links
    <3>3. PICK d : d = [bridge EXCEPT !.up = TRUE]
      OBVIOUS
    <3>4. PICK j : j = [k EXCEPT !.b = d]
      OBVIOUS
    <3>5. d \in Bridges(OutFrames) /\ j \in Links(OutFrames) /\ j.b = d /\ j.wire = toGuest
      BY <1>1, <3>2, <3>3, <3>4 DEF Links, Bridges
    <3>6. c = [d EXCEPT !.waitingDrain = FALSE]
      BY <1>1, <1>5, <3>3 DEF Bridges
    <3>7. [k EXCEPT !.b.up = TRUE] = j
      BY <3>2, <3>3, <3>4 DEF Links
    <3>8. [j EXCEPT !.b.waitingDrain = FALSE] = [j EXCEPT !.b = c]
      BY <3>5, <3>6 DEF Links
    <3>9. [j EXCEPT !.b = c] = m
      BY <1>8, <3>5 DEF Links
    <3>10. [k EXCEPT !.b.up = TRUE, !.b.waitingDrain = FALSE] = [[k EXCEPT !.b.up = TRUE] EXCEPT !.b.waitingDrain = FALSE]
      BY <3>2 DEF Links
    <3> QED
      BY <3>1, <3>7, <3>8, <3>9, <3>10
  <2>2. SetLink(FlushPending(m))
    BY <1>12, <2>1 DEF AttachSocket
  <2> QED
    BY <1>2, <1>10, <2>2, FlushedKeeps
<1> QED
  BY <1>11, <1>12

LEMMA NothingIn ==
  ASSUME NEW f
  PROVE  ~Has(f, <<>>)
BY DEF Has

LEMMA VmExitsKeeps ==
  ASSUME ForwardInv, VmExits
  PROVE  ForwardInv'
<1>1. /\ ForwardTyped /\ OutOrdered(OutQueue) /\ \A id \in Ids : StreamInv(id)
      /\ bridge.pending \in Seq(OutFrames) /\ toGuest \in Seq(OutFrames) /\ bridge \in BridgeRecords
      /\ bridge.exits \in Nat
  BY ForwardParts, QueuesTyped DEF ForwardTyped
<1>2. PICK error \in BOOLEAN :
        streams' = [id \in Ids |-> IF error /\ streams[id].listed THEN Destroyed(streams[id]) ELSE streams[id]]
  BY DEF VmExits
<1>3. /\ bridge' = [bridge EXCEPT !.up = FALSE, !.waitingDrain = FALSE, !.exits = @ + 1]
      /\ toGuest' = <<>> /\ toHost' = <<>> /\ setup' = setup
      /\ guest' = [conns |-> [id \in Ids |-> NoConn], writer |-> <<>>]
      /\ backends' = [id \in Ids |-> [backends[id] EXCEPT !.why = IF guest.conns[id].live THEN "exit" ELSE @]]
  BY DEF VmExits
<1>4. PICK n \in Nat : n = bridge.exits + 1
  BY <1>1
<1>5. /\ bridge' \in BridgeRecords /\ bridge'.exits # 0 /\ ~bridge'.up /\ bridge'.pending = bridge.pending
  <2>1. bridge' = [bridge EXCEPT !.up = FALSE, !.waitingDrain = FALSE, !.exits = n]
    BY <1>3, <1>4
  <2>2. bridge' \in BridgeRecords /\ bridge'.exits = n /\ ~bridge'.up /\ bridge'.pending = bridge.pending
    BY <1>1, <2>1 DEF BridgeRecords
  <2> QED
    BY <1>1, <1>4, <2>2
<1>6. OutQueue' = bridge.pending /\ InQueue' = <<>>
  <2>1. <<>> \o bridge.pending = bridge.pending
    BY <1>1, ConcatEmptySeq
  <2>2. <<>> \o <<>> = <<>>
    OBVIOUS
  <2> QED
    BY <1>3, <1>5, <2>1, <2>2 DEF OutQueue, InQueue
<1>7. OutOrdered(OutQueue') /\ \A g : Has(g, OutQueue') => Has(g, OutQueue)
  BY <1>1, <1>6, BackOrdered DEF OutQueue
<1>8. InOrdered(InQueue') /\ \A g : ~Has(g, InQueue')
  BY <1>6, NothingIn DEF InOrdered
<1>9. Ids' = Ids
  BY <1>3 DEF Ids
<1>10. ASSUME NEW id \in Ids
       PROVE  streams'[id] \in StreamRecords /\ backends'[id] \in BackendRecords /\ StreamInv(id)'
  <2>1. /\ streams[id] \in StreamRecords /\ backends[id] \in BackendRecords /\ StreamInv(id)
    BY ForwardParts
  <2>2. streams'[id] = IF error /\ streams[id].listed THEN Destroyed(streams[id]) ELSE streams[id]
    BY <1>2
  <2>3. ~guest'.conns[id].live
    BY <1>3 DEF NoConn
  <2>4. PICK s : s = streams'[id]
    OBVIOUS
  <2>5. /\ s \in StreamRecords /\ s.closedByRemote = streams[id].closedByRemote
        /\ s.ended = streams[id].ended /\ s.written = streams[id].written /\ s.pushed = streams[id].pushed
        /\ \/ s = streams[id]
           \/ /\ streams[id].listed /\ s.destroyed /\ ~s.listed
              /\ s.call = IF streams[id].call \in {"none", "pending"} THEN "failed" ELSE streams[id].call
    <3>1. CASE error /\ streams[id].listed
      BY <2>1, <2>2, <2>4, <3>1, DestroyedParts
    <3>2. CASE ~(error /\ streams[id].listed)
      BY <2>1, <2>2, <2>4, <3>2
    <3> QED
      BY <3>1, <3>2
  <2>6. PICK w : w = IF guest.conns[id].live THEN "exit" ELSE backends[id].why
    OBVIOUS
  <2>7. backends'[id] = [backends[id] EXCEPT !.why = w]
    BY <1>3, <2>6
  <2>8. w \in {"none", "full", "host", "error", "eof", "exit"}
    BY <2>1, <2>6 DEF BackendRecords
  <2>9. /\ backends'[id] \in BackendRecords /\ backends'[id].got = backends[id].got
        /\ backends'[id].gotEof = backends[id].gotEof /\ backends'[id].sent = backends[id].sent
        /\ backends'[id].why = w /\ (w = backends[id].why => backends'[id] = backends[id])
    BY <2>1, <2>7, <2>8 DEF BackendRecords
  <2>10. BooksKept(id)'
    BY <2>1, <2>3, <2>4, <2>5 DEF StreamInv, BooksKept
  <2>11. NotYetThere(id)'
    <3>1. s.call = "none" => streams[id].call = "none"
      BY <2>5
    <3>2. ASSUME s.call = "none" \/ Has(Frame("tcp_open", id), OutQueue')
          PROVE  /\ s.call # "ok" /\ s.written = 0 /\ ~s.ended /\ s.pushed = 0 /\ ~s.closedByRemote
                 /\ backends'[id] = NoBackend
                 /\ ~Has(Frame("tcp_data", id), OutQueue') /\ ~Has(Frame("tcp_eof", id), OutQueue')
      <4>1. /\ streams[id].call # "ok" /\ streams[id].written = 0 /\ ~streams[id].ended /\ streams[id].pushed = 0
            /\ ~streams[id].closedByRemote /\ backends[id] = NoBackend /\ ~guest.conns[id].live
            /\ ~Has(Frame("tcp_data", id), OutQueue) /\ ~Has(Frame("tcp_eof", id), OutQueue)
        BY <1>7, <2>1, <3>1, <3>2 DEF StreamInv, NotYetThere
      <4>2. s.call # "ok"
        BY <2>5, <4>1
      <4>3. w = backends[id].why
        BY <2>6, <4>1
      <4> QED
        BY <1>7, <2>5, <2>9, <4>1, <4>2, <4>3
    <3>3. s.call = "none" => ~Has(Frame("tcp_open", id), OutQueue') /\ ~Has(Frame("tcp_close", id), OutQueue')
      BY <1>7, <2>1, <3>1 DEF StreamInv, NotYetThere
    <3> QED
      BY <1>8, <2>3, <2>4, <3>2, <3>3 DEF NotYetThere
  <2>12. UploadCounted(id)'
    <3>1. s.destroyed = streams[id].destroyed \/ s.destroyed
      BY <2>5
    <3>2. CutsCaused(id)'
      <4>1. CutsCaused(id)
        BY <2>1 DEF StreamInv, UploadCounted
      <4>2. CASE guest.conns[id].live
        BY <1>7, <2>4, <2>6, <2>9, <3>1, <4>1, <4>2 DEF CutsCaused
      <4>3. CASE ~guest.conns[id].live
        <5>1. backends'[id] = backends[id]
          BY <2>6, <2>9, <4>3
        <5> QED
          BY <1>7, <2>4, <2>5, <3>1, <4>1, <5>1 DEF CutsCaused
      <4> QED
        BY <4>2, <4>3
    <3> QED
      BY <1>7, <2>1, <2>3, <2>4, <2>5, <2>9, <3>2 DEF StreamInv, UploadCounted
  <2>13. DownloadCounted(id)'
    <3>1. streams[id].closedByRemote => w = backends[id].why
      BY <2>1, <2>6 DEF StreamInv, BooksKept
    <3>2. streams[id].closedByRemote /\ backends[id].why = "eof" => streams[id].pushed = backends[id].sent
      BY <2>1 DEF StreamInv, DownloadCounted
    <3> QED
      BY <1>8, <2>3, <2>4, <2>5, <2>9, <3>1, <3>2 DEF DownloadCounted
  <2>14. SidesTold(id)'
    BY <1>5 DEF SidesTold
  <2> QED
    BY <2>4, <2>5, <2>9, <2>10, <2>11, <2>12, <2>13, <2>14 DEF StreamInv
<1>11. ForwardTyped'
  <2>1. OutFrames' = OutFrames /\ InFrames' = InFrames /\ BridgeRecords' = BridgeRecords
        /\ GuestRecords' = GuestRecords
    BY <1>9 DEF OutFrames, InFrames, BridgeRecords, GuestRecords
  <2>2. streams' \in [Ids -> StreamRecords] /\ backends' \in [Ids -> BackendRecords]
    BY <1>2, <1>3, <1>10
  <2>3. NoConn \in ConnRecords
    BY DEF NoConn, ConnRecords
  <2>4. guest' \in GuestRecords /\ toGuest' \in Seq(OutFrames) /\ toHost' \in Seq(InFrames)
    BY <1>3, <2>3 DEF GuestRecords
  <2> QED
    BY <1>1, <1>3, <1>5, <1>9, <2>1, <2>2, <2>4 DEF ForwardTyped
<1>12. BridgeWaits'
  BY <1>5 DEF BridgeWaits
<1> QED
  BY <1>7, <1>8, <1>9, <1>10, <1>11, <1>12 DEF ForwardInv, QueuesOrdered

LEMMA ForwardInit_Inv ==
  ASSUME ForwardInit
  PROVE  ForwardInv
<1>1. /\ setup \in Setups
      /\ streams = [id \in Ids |-> NoStream]
      /\ bridge = [up |-> TRUE, pending |-> <<>>, waitingDrain |-> FALSE, exits |-> 0]
      /\ toGuest = <<>> /\ toHost = <<>>
      /\ guest = [conns |-> [id \in Ids |-> NoConn], writer |-> <<>>]
      /\ backends = [id \in Ids |-> NoBackend]
  BY DEF ForwardInit
<1>2. OutQueue = <<>> /\ InQueue = <<>>
  <2>1. <<>> \o <<>> = <<>>
    OBVIOUS
  <2> QED
    BY <1>1, <2>1 DEF OutQueue, InQueue
<1>3. /\ NoStream \in StreamRecords /\ NoConn \in ConnRecords /\ NoBackend \in BackendRecords
  BY DEF NoStream, NoConn, NoBackend, StreamRecords, ConnRecords, BackendRecords
<1>4. ForwardTyped
  <2>1. bridge \in BridgeRecords /\ guest \in GuestRecords
    BY <1>1, <1>3 DEF BridgeRecords, GuestRecords
  <2> QED
    BY <1>1, <1>3, <2>1 DEF ForwardTyped
<1>5. QueuesOrdered /\ BridgeWaits
  BY <1>1, <1>2 DEF QueuesOrdered, OutOrdered, InOrdered, BridgeWaits
<1>6. ASSUME NEW id \in Ids PROVE StreamInv(id)
  <2>1. /\ streams[id].call = "none" /\ ~streams[id].listed /\ ~streams[id].destroyed /\ ~streams[id].closedByRemote
        /\ ~streams[id].ended /\ streams[id].written = 0 /\ streams[id].pushed = 0
        /\ ~guest.conns[id].live /\ backends[id] = NoBackend /\ ~backends[id].gotEof
        /\ backends[id].why = "none"
    BY <1>1 DEF NoStream, NoConn, NoBackend
  <2>2. \A g : ~Has(g, OutQueue) /\ ~Has(g, InQueue)
    BY <1>2, NothingIn
  <2> QED
    BY <2>1, <2>2 DEF StreamInv, NotYetThere, BooksKept, UploadCounted, CutsCaused, DownloadCounted, SidesTold
<1> QED
  BY <1>4, <1>5, <1>6 DEF ForwardInv

LEMMA ForwardStutters ==
  ASSUME ForwardInv, UNCHANGED forwardVars
  PROVE  ForwardInv'
<1>1. /\ ForwardTyped /\ OutOrdered(OutQueue) /\ InOrdered(InQueue) /\ BridgeWaits
  BY ForwardParts
<1>2. UNCHANGED <<setup, streams, bridge, toGuest, toHost, guest, backends>>
  BY DEF forwardVars
<1>3. OutQueue' = OutQueue /\ InQueue' = InQueue /\ BridgeWaits'
  BY <1>1, <1>2 DEF OutQueue, InQueue, BridgeWaits
<1>4. \A id \in Ids \ {} : /\ streams'[id] = streams[id] /\ guest'.conns[id] = guest.conns[id]
                           /\ backends'[id] = backends[id]
                           /\ SameWay(OutQueue, OutQueue', id) /\ SameWay(InQueue, InQueue', id)
  BY <1>2, <1>3, SameQueue
<1>5. {} \in SUBSET Ids /\ (\A id \in {} : StreamInv(id)')
  OBVIOUS
<1>6. /\ streams' \in [Ids -> StreamRecords] /\ guest' \in GuestRecords /\ toHost' \in Seq(InFrames)
      /\ backends' \in [Ids -> BackendRecords] /\ OutOrdered(OutQueue') /\ InOrdered(InQueue')
      /\ bridge' \in BridgeRecords /\ toGuest' \in Seq(OutFrames) /\ bridge'.exits = bridge.exits
  BY <1>1, <1>2, <1>3 DEF ForwardTyped
<1> QED
  BY <1>2, <1>3, <1>4, <1>5, <1>6, ForwardStepKeeps

LEMMA ForwardNext_Inv ==
  ASSUME ForwardInv, ForwardNext
  PROVE  ForwardInv'
<1>1. CASE \E id \in Ids :
             \/ OpenStream(id) \/ OpenTimeout(id) \/ WriteStream(id) \/ Final(id) \/ Abandon(id) \/ ReadStream(id)
             \/ GuestWrites(id) \/ GuestForwards(id) \/ ServiceSends(id) \/ ServiceEnds(id)
  <2>1. PICK id \in Ids :
             \/ OpenStream(id) \/ OpenTimeout(id) \/ WriteStream(id) \/ Final(id) \/ Abandon(id) \/ ReadStream(id)
             \/ GuestWrites(id) \/ GuestForwards(id) \/ ServiceSends(id) \/ ServiceEnds(id)
    BY <1>1
  <2>2. CASE OpenStream(id)
    BY <2>2, OpenStreamKeeps
  <2>3. CASE OpenTimeout(id) \/ Abandon(id)
    BY <2>3, OpenTimeoutKeeps
  <2>4. CASE WriteStream(id)
    BY <2>4, WriteStreamKeeps
  <2>5. CASE Final(id)
    BY <2>5, FinalKeeps
  <2>6. CASE ReadStream(id)
    BY <2>6, ReadStreamKeeps
  <2>7. CASE GuestWrites(id)
    BY <2>7, GuestWritesKeeps
  <2>8. CASE GuestForwards(id)
    BY <2>8, GuestForwardsKeeps
  <2>9. CASE ServiceSends(id)
    BY <2>9, ServiceSendsKeeps
  <2>10. CASE ServiceEnds(id)
    BY <2>10, ServiceEndsKeeps
  <2> QED
    BY <2>1, <2>2, <2>3, <2>4, <2>5, <2>6, <2>7, <2>8, <2>9, <2>10
<1>2. CASE HostReceives
  BY <1>2, HostReceivesKeeps
<1>3. CASE Drain \/ AttachSocket
  BY <1>3, DrainKeeps
<1>4. CASE GuestReceives
  BY <1>4, GuestReceivesKeeps
<1>5. CASE GuestFlushes
  BY <1>5, GuestFlushesKeeps
<1>6. CASE VmExits
  BY <1>6, VmExitsKeeps
<1> QED
  BY <1>1, <1>2, <1>3, <1>4, <1>5, <1>6 DEF ForwardNext

\* A frame of the whole queue is in one of its parts.
LEMMA HasOnWay ==
  ASSUME NEW S, NEW p \in Seq(S), NEW q \in Seq(S), NEW f, Has(f, p \o q)
  PROVE  OnWay(f.t, f.id, p) \/ OnWay(f.t, f.id, q)
<1>1. /\ Len(p) \in Nat /\ Len(q) \in Nat /\ Len(p \o q) = Len(p) + Len(q)
      /\ \A i \in 1..(Len(p) + Len(q)) : (p \o q)[i] = IF i <= Len(p) THEN p[i] ELSE q[i - Len(p)]
      /\ DOMAIN p = 1..Len(p) /\ DOMAIN q = 1..Len(q)
  BY ConcatProperties
<1>2. PICK i \in 1..(Len(p) + Len(q)) : (p \o q)[i] = f
  BY <1>1 DEF Has
<1>3. CASE i <= Len(p)
  <2>1. i \in DOMAIN p /\ p[i] = f
    BY <1>1, <1>2, <1>3
  <2> QED
    BY <2>1 DEF OnWay
<1>4. CASE ~(i <= Len(p))
  <2>1. i - Len(p) \in DOMAIN q /\ q[i - Len(p)] = f
    BY <1>1, <1>2, <1>4
  <2> QED
    BY <2>1 DEF OnWay
<1> QED
  BY <1>3, <1>4

LEMMA ForwardInv_NoHalfRelease ==
  ASSUME ForwardInv
  PROVE  NoHalfRelease
<1>1. /\ toGuest \in Seq(OutFrames) /\ bridge.pending \in Seq(OutFrames)
      /\ toHost \in Seq(InFrames) /\ guest.writer \in Seq(InFrames)
  BY ForwardParts, QueuesTyped DEF ForwardTyped
<1>2. \A t, id : Has(Frame(t, id), OutQueue) => Outbound(t, id)
  <2>1. SUFFICES ASSUME NEW t, NEW id, Has(Frame(t, id), OutQueue) PROVE Outbound(t, id)
    OBVIOUS
  <2>2. PICK f : f = Frame(t, id) /\ f.t = t /\ f.id = id
    BY FramesDiffer
  <2>3. OnWay(f.t, f.id, toGuest) \/ OnWay(f.t, f.id, bridge.pending)
    BY <1>1, <2>1, <2>2, HasOnWay DEF OutQueue
  <2> QED
    BY <2>2, <2>3 DEF Outbound
<1>3. \A f : Has(f, InQueue) => Inbound(f.t, f.id)
  <2>1. SUFFICES ASSUME NEW f, Has(f, InQueue) PROVE Inbound(f.t, f.id)
    OBVIOUS
  <2>2. OnWay(f.t, f.id, toHost) \/ OnWay(f.t, f.id, guest.writer)
    BY <1>1, <2>1, HasOnWay DEF InQueue
  <2> QED
    BY <2>2 DEF Inbound
<1>4. /\ \A id : Has(Frame("tcp_close", id), InQueue) => Inbound("tcp_close", id)
      /\ \A id, ok : Has(OpenedFrame(id, ok), InQueue) => Inbound("tcp_opened", id)
  BY <1>3, FramesDiffer
<1>5. \A id \in Ids : SidesTold(id)
  BY ForwardParts DEF StreamInv
<1> QED
  BY <1>2, <1>4, <1>5 DEF NoHalfRelease, SidesTold

LEMMA ForwardInv_NothingStranded ==
  ASSUME ForwardInv
  PROVE  NothingStranded
<1>1. SUFFICES ASSUME AtRest
               PROVE  /\ bridge.pending = <<>> /\ guest.writer = <<>>
                      /\ \A id \in Ids : guest.conns[id].live =>
                           /\ guest.conns[id].pending = 0 /\ backends[id].unread = 0
                           /\ guest.conns[id].hostEof => backends[id].gotEof
  BY DEF NothingStranded
<1>2. /\ bridge.up /\ toHost = <<>> /\ toGuest = <<>> /\ ~MayDrain /\ ~MayFlush
      /\ \A id \in Ids : ~MayWrite(id) /\ ~MayForward(id)
  BY <1>1 DEF AtRest
<1>3. Len(toHost) = 0 /\ Len(toGuest) = 0
  BY <1>2
<1>4. WireMark \in Nat /\ WireMark > 0 /\ MaxVirtio \in Nat /\ MaxVirtio > 0
  BY ForwardAssumption
<1>5. bridge.pending = <<>>
  <2>1. ~bridge.waitingDrain
    BY <1>2, <1>3, <1>4 DEF MayDrain
  <2> QED
    BY <1>2, <2>1, ForwardParts DEF BridgeWaits
<1>6. guest.writer = <<>>
  BY <1>2, <1>3, <1>4 DEF MayFlush
<1>7. ASSUME NEW id \in Ids, guest.conns[id].live
      PROVE  /\ guest.conns[id].pending = 0 /\ backends[id].unread = 0
             /\ guest.conns[id].hostEof => backends[id].gotEof
  <2>1. /\ guest.conns[id].pending \in Nat /\ backends[id].unread \in Nat /\ UploadCounted(id)
    <3>1. guest.conns[id] \in ConnRecords /\ backends[id] \in BackendRecords /\ StreamInv(id)
      BY ForwardParts
    <3> QED
      BY <3>1 DEF ConnRecords, BackendRecords, StreamInv
  <2>2. guest.conns[id].pending = 0
    BY <1>2, <1>7, <2>1 DEF MayWrite
  <2>3. backends[id].unread = 0
    <3>1. Len(guest.writer) < MaxVirtio
      BY <1>4, <1>6
    <3> QED
      BY <1>2, <1>7, <2>1, <3>1 DEF MayForward
  <2> QED
    BY <1>7, <2>1, <2>2, <2>3 DEF UploadCounted, CutsCaused
<1> QED
  BY <1>5, <1>6, <1>7

\* A forwarded stream keeps its promises whatever the ports, the queues and
\* the machine do: a half-close reaches a service behind all that was written, an
\* end that comes short is that of a connection closed for one of three reasons,
\* a stream the service ended has been given all that was sent,
\* neither side is left alone, and backpressure is always taken back
\* (server-transport.ts 100-294, server-ops.ts 381-560, tcp_forwarder.zig 61-281).
THEOREM ForwardDeliversAlways == ForwardSpec => []ForwardDelivers
<1>1. ForwardInit => ForwardInv
  BY ForwardInit_Inv
<1>2. ForwardInv /\ [ForwardNext]_forwardVars => ForwardInv'
  BY ForwardNext_Inv, ForwardStutters
<1>3. ForwardInv => ForwardDelivers
  <2>1. SUFFICES ASSUME ForwardInv PROVE ForwardDelivers
    OBVIOUS
  <2>2. \A id \in Ids : UploadCounted(id) /\ DownloadCounted(id)
    BY <2>1, ForwardParts DEF StreamInv
  <2>3. EofBehindUpload
    BY <2>2 DEF EofBehindUpload, SeesEnd, UploadCounted, CutsCaused
  <2>4. CloseBehindDownload
    BY <2>2 DEF CloseBehindDownload, DownloadCounted
  <2> QED
    BY <2>1, <2>3, <2>4, ForwardInv_NoHalfRelease, ForwardInv_NothingStranded DEF ForwardDelivers
<1> QED
  BY <1>1, <1>2, <1>3, PTL DEF ForwardSpec
=============================================================================
