-------------------------- MODULE SessionRegistry --------------------------
(***************************************************************************)
(* The registry of running sessions (host/src/session-registry.ts): a      *)
(* directory in which every host process keeps a metadata file and a       *)
(* socket per VM, and the garbage collection each start of a VM and each   *)
(* command runs over it (VM.ensureSessionIpc in host/src/vm/core.ts).      *)
(*                                                                         *)
(* The VMs belong to different processes: steps between two calls of the   *)
(* file system interleave, awaits or not.  A VM keeps its id when it is    *)
(* closed and started again.                                               *)
(***************************************************************************)
EXTENDS Integers, FiniteSets

CONSTANTS
    VMs,        \* the VMs, by their ids
    Fates       \* which VMs come to an end, and how, and whether probes may
                \* be late: [crashes, closes, slow]

ASSUME RegistryAssumption ==
    \A s \in Fates : {s.crashes, s.closes} \subseteq SUBSET VMs /\ s.slow \in BOOLEAN

VARIABLES
    fate,      \* the configuration of this behaviour
    vm,         \* how far the start or the close of each VM's session is
    meta,       \* ids with a .json file
    sock,       \* ids with a .sock file
    gc,         \* the collection each VM's start runs
    exposed     \* history: VMs a collection has looked at while their session
                \* was not (or not yet) complete, or with a probe that was late

registryVars == <<fate, vm, meta, sock, gc, exposed>>

\* Fields of a collection: the listing, what is still to be looked at, knownIds
\* and staleIds; and, as a history, whose process had ended when it began.
NoGc == [pc |-> "off", json |-> {}, socks |-> {}, todo |-> {}, known |-> {}, stale |-> {}, dead |-> {}]

RegistryInit ==
    /\ fate \in Fates
    /\ vm = [v \in VMs |-> "off"]
    /\ meta = {} /\ sock = {}
    /\ gc = [v \in VMs |-> NoGc]
    /\ exposed = {}

Processes == {v \in VMs : vm[v] # "crashed"}

\* isSocketAlive, when the probe is in time: the file is there and its server
\* listens.
SocketAlive(v) == v \in sock /\ vm[v] = "up"

-----------------------------------------------------------------------------
(* gcSessions, on behalf of g. *)

Start(g) ==
    /\ vm[g] = "off"
    /\ vm' = [vm EXCEPT ![g] = "starting"]
    /\ gc' = [gc EXCEPT ![g] = [NoGc EXCEPT !.pc = "look", !.json = meta, !.socks = sock, !.todo = meta,
                                            !.dead = VMs \ Processes]]
    /\ UNCHANGED <<fate, meta, sock, exposed>>

\* One metadata file of the listing: missing, of a dead process, or with a
\* socket that nobody answers on is stale.
Stale(v) == v \notin meta \/ v \notin Processes \/ ~SocketAlive(v)

\* The checks of one session: reading the file, its process, and its socket.  The
\* probe of a socket is given up after 500 ms, also when a server listens there
\* whose queue is full, or when this process is too busy to see the connection.
Look(g, v) ==
    /\ gc[g].pc = "look" /\ v \in gc[g].todo
    /\ \E late \in {FALSE, fate.slow} :
          /\ gc' = [gc EXCEPT ![g].todo = @ \ {v},
                              ![g].known = IF v \in meta THEN @ \cup {v} ELSE @,
                              ![g].stale = IF late \/ Stale(v) THEN @ \cup {v} ELSE @]
          /\ exposed' = IF late \/ vm[v] # "up" THEN exposed \cup {v} ELSE exposed
    /\ UNCHANGED <<fate, vm, meta, sock>>

\* a bug: the sockets are taken from the directory as it is now
OrphansNow(g) == sock \ gc[g].known

\* Sockets of the listing without known metadata.
Orphans(g) == gc[g].socks \ gc[g].known

Sweep(g) ==
    /\ gc[g].pc = "look" /\ gc[g].todo = {}
    /\ LET stale == gc[g].stale \cup Orphans(g) IN
        /\ gc' = [gc EXCEPT ![g].pc = "remove", ![g].todo = stale]
        /\ exposed' = exposed \cup {v \in gc[g].socks \ gc[g].json : vm[v] # "up"}
    /\ UNCHANGED <<fate, vm, meta, sock>>

\* unregisterSession: the metadata, then the socket.
RemoveStale(g, v) ==
    /\ gc[g].pc = "remove" /\ v \in gc[g].todo
    /\ IF v \in meta THEN meta' = meta \ {v} /\ UNCHANGED <<sock, gc>>
       ELSE /\ sock' = sock \ {v}
            /\ gc' = [gc EXCEPT ![g].todo = @ \ {v}]
            /\ UNCHANGED meta
    /\ UNCHANGED <<fate, vm, exposed>>

-----------------------------------------------------------------------------
(* The session of a VM. *)

\* registerSession
Register(v) ==
    /\ vm[v] = "starting" /\ gc[v].pc = "remove" /\ gc[v].todo = {}
    /\ meta' = meta \cup {v}
    /\ vm' = [vm EXCEPT ![v] = "registered"]
    /\ gc' = [gc EXCEPT ![v] = NoGc]
    /\ UNCHANGED <<fate, sock, exposed>>

\* SessionIpcServer.start: an old file is removed, and the socket listens.
Listen(v) ==
    /\ vm[v] = "registered"
    /\ sock' = sock \cup {v}
    /\ vm' = [vm EXCEPT ![v] = "up"]
    /\ UNCHANGED <<fate, meta, gc, exposed>>

\* SessionIpcServer.close removes the socket, unregisterSession the rest.
CloseIpc(v) ==
    /\ vm[v] = "up" /\ v \in fate.closes
    /\ sock' = sock \ {v}
    /\ vm' = [vm EXCEPT ![v] = "closing"]
    /\ UNCHANGED <<fate, meta, gc, exposed>>

Unregister(v) ==
    /\ vm[v] = "closing"
    /\ meta' = meta \ {v}
    /\ vm' = [vm EXCEPT ![v] = "off"]
    /\ UNCHANGED <<fate, sock, gc, exposed>>

\* The process ends without closing: its files stay, its collection stops.
Crash(v) ==
    /\ v \in fate.crashes /\ vm[v] # "crashed"
    /\ vm' = [vm EXCEPT ![v] = "crashed"]
    /\ gc' = [gc EXCEPT ![v] = NoGc]
    /\ UNCHANGED <<fate, meta, sock, exposed>>

RegistryNext ==
    \/ \E v \in VMs : Start(v) \/ Sweep(v) \/ Register(v) \/ Listen(v) \/ CloseIpc(v) \/ Unregister(v) \/ Crash(v)
    \/ \E g, v \in VMs : Look(g, v) \/ RemoveStale(g, v)

RegistrySpec == RegistryInit /\ [][RegistryNext]_registryVars

-----------------------------------------------------------------------------
(* Properties *)

Discoverable(v) == v \in meta /\ v \in sock

\* A session whose socket listened, and answered in time, whenever a collection
\* looked at it keeps its files, whatever collections of other processes are under
\* way, however old their listing is.  There is no other way to lose them; but a
\* session that is looked at before it listens, or that answers late, is collected
\* although it lives, and nothing registers it again.
SettledSessionsStay == \A v \in VMs : vm[v] = "up" /\ v \notin exposed => Discoverable(v)

\* A collection leaves nothing of a process that had ended when it began, even if
\* another one removes half of its files between the listing and the look.
DeadAreCollected ==
    \A g \in VMs : gc[g].pc = "remove" /\ gc[g].todo = {} => gc[g].dead \cap (meta \cup sock) = {}

\* What gcSessions may remove, and what it must.
CollectionsExact == SettledSessionsStay /\ DeadAreCollected
=============================================================================
