----------------------------- MODULE MCServices -----------------------------
(***************************************************************************)
(* What a host process offers its VMs and their users, component by         *)
(* component: the streams forwarded into a guest, the routes of its         *)
(* ingress, the registry of sessions all processes share, the session       *)
(* socket a client attaches to, the service behind a guest's mounts, the     *)
(* layers of providers below that service, and directories of the host     *)
(* that are pinned by descriptor.                                           *)
(*                                                                          *)
(* The streams, the routes, the registry, the session socket and the pinned *)
(* directories are those of TcpForward, IngressListeners, SessionRegistry,   *)
(* SessionIpc and ScopedTree themselves, with queues of two units, a file of *)
(* one line, three processes, two clients that choose the same ids, and a    *)
(* descriptor number each for three roots, a handle, a call and a stranger.  *)
(***************************************************************************)
EXTENDS Integers, FiniteSets, SequencesExt, SessionIpc, SessionRegistry,
        ScopedTree, IngressListeners, TcpForward

VARIABLES
  part,      \* the component that this behaviour is about
  store, isDir, linked, pathToIno, inoToPaths, nextIno, fs_handles, nextHandle,
  readdirCache, dentry, scan, edits, fs_setup,
  vfs_setup, fs, text, vfs_handle, carried
-----------------------------------------------------------------------------
ForwardBase == [streams |-> 1, up |-> 3, down |-> 2, exits |-> 0, rude |-> FALSE]

ForwardSetups ==
  { [ForwardBase EXCEPT !.rude = TRUE],
    [ForwardBase EXCEPT !.up = 1, !.down = 4],
    [ForwardBase EXCEPT !.up = 2, !.exits = 1],
    [ForwardBase EXCEPT !.streams = 2, !.up = 1, !.down = 0],
    [ForwardBase EXCEPT !.streams = 2, !.up = 0, !.down = 1] }
-----------------------------------------------------------------------------
\* Tables the host sets, with and without links the guest makes to the file.
ListenerSetups ==
  { [links |-> FALSE, tables |-> {<<>>, <<"a">>, <<"a", "a">>}],
    [links |-> TRUE, tables |-> {<<"a", "a">>}] }
-----------------------------------------------------------------------------
\* Processes that crash, close, or both; with probes that are late.
RegistryFates ==
  { [crashes |-> {1}, closes |-> {2}, slow |-> FALSE], [crashes |-> {1, 2}, closes |-> {}, slow |-> TRUE],
    [crashes |-> {}, closes |-> {1, 2}, slow |-> FALSE] }
-----------------------------------------------------------------------------
\* Trees of two names and two levels: with renames and links, with file handles,
\* and with directory scans and a host that changes the store once.
FsPaths == BoundedSeq({1, 2}, 2)

FsSetups ==
  { [files |-> 4, inos |-> 4, edits |-> 0, handles |-> FALSE, scans |-> FALSE],
    [files |-> 3, inos |-> 3, edits |-> 0, handles |-> TRUE, scans |-> FALSE],
    [files |-> 3, inos |-> 3, edits |-> 0, handles |-> FALSE, scans |-> TRUE],
    [files |-> 3, inos |-> 2, edits |-> 1, handles |-> FALSE, scans |-> TRUE],
    [files |-> 2, inos |-> 3, edits |-> 1, handles |-> FALSE, scans |-> TRUE] }

F == INSTANCE FsService WITH
     Names <- {1, 2}, Paths <- FsPaths, MaxFile <- 4, MaxIno <- 4,
     MaxHandle <- 2, Setups <- FsSetups, PageSize <- 1, setup <- fs_setup,
     handles <- fs_handles

ASSUME F!FsAssumption
-----------------------------------------------------------------------------
VfsPaths == {<<>>, <<"a">>, <<"b">>, <<"m">>, <<"a", "b">>, <<"b", "a">>, <<"b", "m">>, <<"m", "a">>}

NoNode      == [kind |-> "none", ino |-> 0, to |-> <<>>]
DirNode     == [NoNode EXCEPT !.kind = "dir"]
FileNode(i) == [NoNode EXCEPT !.kind = "file", !.ino = i]

VfsTree(nodes) == [p \in VfsPaths |-> IF p = <<>> THEN DirNode
                                      ELSE IF p \in DOMAIN nodes THEN nodes[p] ELSE NoNode]
PlainMount(s)  == [kind |-> "plain", lower |-> s, upper |-> s, hide |-> {}, mode |-> "deny"]
Mount(s, kind) == [PlainMount(s) EXCEPT !.kind = kind]
Shadow(hide, mode) ==
  [kind |-> "shadow", lower |-> "root", upper |-> "tmp", hide |-> hide, mode |-> mode]

Layered(mounts, root, named, targets) ==
  [mounts |-> mounts, named |-> named, targets |-> targets,
   vetoed |-> {<<"mkdir", <<"b", "a">>>>},
   stores |-> ("root" :> root) @@ ("lib" :> VfsTree(<<"a">> :> FileNode(2))) @@ ("tmp" :> VfsTree(<<>>))]

SecretFile == VfsTree(<<"a">> :> FileNode(1))
SecretDir  == VfsTree(<<"a">> :> DirNode @@ <<"a", "b">> :> FileNode(1))
SecretBelow == VfsTree(<<"b">> :> DirNode @@ <<"b", "a">> :> FileNode(1))
Few        == {<<"a">>, <<"b">>, <<"b", "a">>, <<"m", "a">>}

Beside(m, kind) == <<>> :> m @@ <<"m">> :> Mount("lib", kind)
Below(at, kind) == at :> PlainMount("root") @@ <<"b", "m">> :> Mount("lib", kind)

\* A shadowed file with a read-only mount beside it, and links to it.
VfsLinked == Layered(Beside(Shadow({<<"a">>}, "tmpfs"), "readonly"), SecretFile,
                     Few \cup {<<"a", "b">>}, {<<"a">>})

\* Besides, a shadowed directory, with and without links; a mount below a
\* directory that the root store may have, and below one that no store has; and a
\* shadowed file in a directory that is not shadowed.
VfsSetups ==
  {Layered(Beside(Shadow({<<"a">>}, "deny"), "readonly"), SecretDir,
           Few \cup {<<"a", "b">>}, {<<"a">>, <<"b">>}),
   VfsLinked,
   Layered(Beside(Shadow({<<"a">>}, "tmpfs"), "virtual"), SecretDir,
           {<<"a">>, <<"b">>, <<"a", "b">>, <<"b", "a">>}, {}),
   Layered(Below(<<>>, "virtual"), SecretFile,
           {<<"a">>, <<"b">>, <<"b", "a">>, <<"b", "m">>}, {}),
   Layered(Below(<<"m">>, "readonly"), SecretFile, {<<"m">>, <<"m", "a">>, <<"b">>, <<"b", "m">>}, {}),
   Layered(<<>> :> Shadow({<<"b", "a">>}, "deny"), SecretBelow, {<<"a">>, <<"b">>, <<"m">>, <<"b", "a">>, <<"m", "a">>}, {})}

V == INSTANCE VfsLayers WITH
     Paths <- VfsPaths, Setups <- VfsSetups, MaxIno <- 5, setup <- vfs_setup,
     handle <- vfs_handle

ASSUME V!LayersAssumption
-----------------------------------------------------------------------------
(* One component moves in a behaviour; the others wait in an initial state. *)

WWaits == ForwardInit /\ setup.rude
LWaits == ListenersInit /\ plan.links
RWaits == RegistryInit /\ fate.slow
FWaits == F!Init /\ fs_setup.handles
VWaits == V!Init /\ vfs_setup = VfsLinked

ServicesInit ==
  \/ part = "forward" /\ ForwardInit /\ LWaits /\ RWaits /\ Init /\ FWaits /\ VWaits /\ TreeInit
  \/ part = "ing" /\ ListenersInit /\ WWaits /\ RWaits /\ Init /\ FWaits /\ VWaits /\ TreeInit
  \/ part = "reg" /\ RegistryInit /\ WWaits /\ LWaits /\ Init /\ FWaits /\ VWaits /\ TreeInit
  \/ part = "ipc" /\ Init /\ WWaits /\ LWaits /\ RWaits /\ FWaits /\ VWaits /\ TreeInit
  \/ part = "fs" /\ F!Init /\ WWaits /\ LWaits /\ RWaits /\ Init /\ VWaits /\ TreeInit
  \/ part = "vfs" /\ V!Init /\ WWaits /\ LWaits /\ RWaits /\ Init /\ FWaits /\ TreeInit
  \/ part = "tree" /\ TreeInit /\ WWaits /\ LWaits /\ RWaits /\ Init /\ FWaits /\ VWaits

FVars == <<store, isDir, linked, pathToIno, inoToPaths, nextIno, fs_handles,
            nextHandle, readdirCache, dentry, scan, edits, fs_setup>>
VVars == <<vfs_setup, fs, text, vfs_handle, carried>>
WStep == part = "forward" /\ ForwardNext /\ UNCHANGED <<part, listenersVars, registryVars, vars, FVars, VVars, treeVars>>
LStep == part = "ing" /\ ListenersNext /\ UNCHANGED <<part, forwardVars, registryVars, vars, FVars, VVars, treeVars>>
RStep == part = "reg" /\ RegistryNext /\ UNCHANGED <<part, forwardVars, listenersVars, vars, FVars, VVars, treeVars>>
CStep == part = "ipc" /\ Next /\ UNCHANGED <<part, forwardVars, listenersVars, registryVars, FVars, VVars, treeVars>>
FStep == part = "fs" /\ F!Next /\ UNCHANGED <<part, forwardVars, listenersVars, registryVars, vars, VVars, treeVars>>
VStep == part = "vfs" /\ V!Next /\ UNCHANGED <<part, forwardVars, listenersVars, registryVars, vars, FVars, treeVars>>
TStep == part = "tree" /\ TreeNext /\ UNCHANGED <<part, forwardVars, listenersVars, registryVars, vars, FVars, VVars>>

ServicesNext == WStep \/ LStep \/ RStep \/ CStep \/ FStep \/ VStep \/ TStep

servicesVars == <<part, forwardVars, listenersVars, registryVars, vars, FVars, VVars, treeVars>>

ServicesSpec == ServicesInit /\ [][ServicesNext]_servicesVars
-----------------------------------------------------------------------------
\* Numbers, handles, kept listings and pages stand for the files they were given
\* for, across renames, links, exits and listings (vfs/rpc-service.ts).
NamesStand == F!NamesStand

\* No sequence of calls changes, or reads through a shadow, what the host keeps
\* under a shadowed name or on a read-only mount (vfs/shadow.ts, vfs/readonly.ts).
ProtectedUntouched == part = "vfs" => V!ProtectedUntouched

\* Where nobody makes links, mounts and layers together are one tree of names to
\* those who read it and to those who change it (Namespace).
OneTree == V!OneTree
=============================================================================
