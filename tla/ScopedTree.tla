----------------------------- MODULE ScopedTree -----------------------------
(***************************************************************************)
(* The foundation session of a scoped tree (host/src/scoped-tree.ts): it    *)
(* pins three directories of the host by descriptor, and its user reads     *)
(* beneath the repository and changes files beneath the cache and the       *)
(* temporary directory, by paths that openat2 resolves beneath the pinned   *)
(* descriptor or by handles.                                                *)
(*                                                                         *)
(* A call is synchronous in this process and several system calls for the   *)
(* others: in between another program may move what the next one names.     *)
(* Descriptor numbers are the kernel's: it gives the least free one to the  *)
(* session and to the other code of the process alike.                      *)
(***************************************************************************)
EXTENDS Naturals, Sequences

CONSTANTS
  MaxFds,        \* descriptors the process may have open
  MaxCalls,      \* calls of the session's user (bounds the model)
  MaxMoves       \* changes by other programs (bounds the model)

ASSUME ScopedTreeAssumption == MaxFds \in Nat /\ MaxCalls \in Nat /\ MaxMoves \in Nat

\* The roots, in the order in which they are pinned.
RootKinds == {"repository", "cache", "temp"}
RootIndex == [repository |-> 1, cache |-> 2, temp |-> 3]

\* Inodes: the three roots, a subdirectory, a directory elsewhere; regular
\* files; a symbolic link to the directory elsewhere.
Folders  == {"R", "C", "T", "S", "O"}
Regular  == {"a", "b", "c", "o", "n"}
Symlink  == "link"
Nobody   == "-"

\* A name may contain a backslash.
EntryNames == {"f", "sub", "sub\\f"}

VARIABLES
  entries,    \* entries[d][name]: the inode, or Nobody
  hostAt,     \* hostAt[kind]: the directory at the host path of a root, or Nobody
  fds,        \* fds[n]: the inode a descriptor is open on (or Nobody), and whose it is
  session,    \* "none", "pinning", "open", "refused" or "disposed"
  pinned,     \* of the roots pinned so far: fd, ino (identity) and closed
  handles,    \* ScopedTreeRoot.handles of the three roots
  nextId,     \* nextHandleId of each root
  treeCall,       \* the call under way, with the descriptor it holds
  changed,    \* inodes whose contents or entries the session has changed
  reached,    \* inodes that have ever been beneath a private root
  calls, moves

treeVars == <<entries, hostAt, fds, session, pinned, handles, nextId, treeCall, changed, reached, calls, moves>>

FreeFd == [ino |-> Nobody, by |-> Nobody]
NoCall == [op |-> "none", fd |-> 0]

TreeInit ==
  /\ entries = [d \in Folders |-> [n \in EntryNames |->
       CASE d = "R" /\ n = "f"      -> "a"
         [] d = "C" /\ n = "sub"    -> "S"
         [] d = "C" /\ n = "sub\\f" -> "c"
         [] d = "S" /\ n = "f"      -> "b"
         [] d = "O" /\ n = "f"      -> "o"
         [] OTHER -> Nobody]]
  /\ hostAt = [k \in RootKinds |-> IF k = "repository" THEN "R" ELSE IF k = "cache" THEN "C" ELSE "T"]
  /\ fds = [n \in 1..MaxFds |-> FreeFd]
  /\ session = "none" /\ pinned = <<>>
  /\ handles = {} /\ nextId = [k \in RootKinds |-> 1]
  /\ treeCall = NoCall /\ changed = {} /\ reached = {} /\ calls = 0 /\ moves = 0
-----------------------------------------------------------------------------
(* Descriptors and the resolution of paths.                                *)

Opened(n, i, who) == [fds EXCEPT ![n] = [ino |-> i, by |-> who]]

\* openat2 takes the least free number.
IsNewFd(n) == fds[n].ino = Nobody /\ \A m \in 1..(n - 1) : fds[m].ino # Nobody

\* linux.close acts on a number, whoever it belongs to by now.
Closing(numbers) == [n \in 1..MaxFds |-> IF n \in numbers THEN FreeFd ELSE fds[n]]

\* Mutant: a link on the way is followed wherever it leads.
FollowsLinks(d, name) ==
  LET i == IF d \in Folders /\ name \in EntryNames THEN entries[d][name] ELSE Nobody
  IN IF i = Symlink THEN "O" ELSE i

\* RESOLVE_BENEATH: a link on the way does not lead out of the pinned directory.
Component(d, name) == IF d \in Folders /\ name \in EntryNames THEN entries[d][name] ELSE Nobody

\* A path has a name and a directory, which is the root or an entry of it.
At(name)         == [in |-> "", name |-> name]
Inside(d, name)  == [in |-> d, name |-> name]
TreePaths == {At("f"), Inside("sub", "f"), At("sub\\f"), Inside("f", "f")}

DirectoryOf(d, path) == IF path.in = "" THEN d ELSE Component(d, path.in)
Resolve(d, path)     == Component(DirectoryOf(d, path), path.name)

\* parentRelative takes a backslash for a separator, and openat2 does not.
Separated(path) == IF path = At("sub\\f") THEN Inside("sub", "f") ELSE path

\* Everything beneath the private roots.
EntriesOf(e, d)  == IF d \in Folders THEN {e[d][n] : n \in EntryNames} \ {Nobody} ELSE {}
Under(e, d)      == {d} \cup EntriesOf(e, d) \cup UNION {EntriesOf(e, s) : s \in EntriesOf(e, d)}
PrivateNow(e, p) == UNION {Under(e, p[i].ino) : i \in {i \in DOMAIN p : i # RootIndex["repository"]}}

Reaching == reached' = reached \cup PrivateNow(entries', pinned')
-----------------------------------------------------------------------------
(* The session.                                                            *)

\* The document of a ceiling or a request is of the exact form, or has a field
\* that is missing, unknown, of another type or widens the authority.
Forms == {"exact", "otherwise"}

\* ScopedTreeRunnerInvocationContext.create: the document, and the native addon,
\* which may not be for this host, before any root
CreateSession(form) ==
  /\ session = "none"
  /\ session' \in IF form = "exact" THEN {"pinning", "refused"} ELSE {"refused"}
  /\ UNCHANGED <<entries, hostAt, fds, pinned, handles, nextId, treeCall, changed, reached, calls, moves>>

\* verifyIdentity, of a descriptor that is open
VerifyIdentity(p) == fds[p.fd].ino = p.ino

\* acquire compares the identities once the three are pinned.
RootsDiffer(p) == \A i, j \in DOMAIN p : p[i].ino = p[j].ino => i = j

\* pinRoot
PinRoot ==
  /\ session = "pinning"
  /\ LET i == hostAt[CHOOSE k \in RootKinds : RootIndex[k] = Len(pinned) + 1] IN
     \E n \in 1..MaxFds :
       /\ i # Nobody /\ IsNewFd(n)
       /\ fds' = Opened(n, i, "session")
       /\ pinned' = Append(pinned, [fd |-> n, ino |-> i, closed |-> FALSE])
  /\ \/ Len(pinned') < 3 /\ session' = session
     \/ Len(pinned') = 3 /\ RootsDiffer(pinned') /\ session' = "open"
  /\ UNCHANGED <<entries, hostAt, handles, nextId, treeCall, changed, calls, moves>>
  /\ Reaching

\* A root that cannot be opened or is no directory, an identity that the kernel
\* does not report, or two roots that are one: what was pinned is closed.
RefuseRoots ==
  /\ session = "pinning" /\ session' = "refused"
  /\ fds' = Closing({pinned[i].fd : i \in DOMAIN pinned})
  /\ pinned' = [i \in DOMAIN pinned |-> [pinned[i] EXCEPT !.closed = TRUE]]
  /\ UNCHANGED <<entries, hostAt, handles, nextId, treeCall, changed, reached, calls, moves>>

RootOf(kind) == pinned[RootIndex[kind]]

\* dispose closes the handles and the root of each kind.
DisposeSession ==
  /\ session = "open" /\ treeCall = NoCall
  /\ session' = "disposed"
  /\ fds' = Closing({h.fd : h \in handles} \cup {pinned[i].fd : i \in DOMAIN pinned})
  /\ handles' = {}
  /\ pinned' = [i \in 1..3 |-> [pinned[i] EXCEPT !.closed = TRUE]]
  /\ UNCHANGED <<entries, hostAt, nextId, treeCall, changed, reached, calls, moves>>
\* invoke launches nothing: whatever the form of the request, it disposes of the
\* session and then throws.
InvokeContext(form) == form \in Forms /\ DisposeSession
-----------------------------------------------------------------------------
(* Calls on a root that name a file by its path.  Once a path has been opened  *)
(* nobody can come between, so such a call is one step, and one that only     *)
(* reads, or is refused, has no effect.                                      *)

ReadOps  == {"lookup", "enumerate", "readFile", "openRead"}
WriteOps == {"createFile", "writeFile", "truncate", "openWrite"}
NameOps  == {"unlink", "rename", "link"}

\* What a root grants.  Directories, symbolic links, modes, owners and mounts
\* are no operation of any root.
GrantedBy(kind) == IF kind = "repository" THEN ReadOps ELSE ReadOps \cup WriteOps \cup NameOps

Beneath(kind, path) == Resolve(fds[RootOf(kind).fd].ino, path)
Holding(kind, path) == DirectoryOf(fds[RootOf(kind).fd].ino, path)

MayCall(kind, op) ==
  /\ session = "open" /\ treeCall = NoCall /\ calls < MaxCalls
  /\ op \in GrantedBy(kind)
  /\ calls' = calls + 1

\* An exclusive open that makes a file
CreateFile(kind, path) ==
  /\ MayCall(kind, "createFile")
  /\ LET d == Holding(kind, path) IN
     /\ d \in Folders /\ Beneath(kind, path) = Nobody
     /\ \A e \in Folders : "n" \notin EntriesOf(entries, e)
     /\ entries' = [entries EXCEPT ![d][path.name] = "n"]
     /\ changed' = changed \cup {d, "n"}
  /\ UNCHANGED <<hostAt, fds, session, pinned, handles, nextId, treeCall, moves>>
  /\ Reaching

\* writeFile and truncate: openHandle, the change through the handle, closeHandle
ChangeFile(kind, op, path) ==
  /\ MayCall(kind, op)
  /\ LET i == Beneath(kind, path) IN
     i \in Regular /\ changed' = changed \cup {i}
  /\ nextId' = [nextId EXCEPT ![kind] = @ + 1]
  /\ UNCHANGED <<entries, hostAt, fds, session, pinned, handles, treeCall, reached, moves>>

\* openHandle: only a regular file, and the handle keeps its identity
OpenHandle(kind, op, path) ==
  /\ MayCall(kind, op)
  /\ \E n \in 1..MaxFds :
       LET i == Beneath(kind, path) IN
       /\ IsNewFd(n) /\ i \in Regular
       /\ fds' = Opened(n, i, "session")
       /\ handles' = handles \cup {[root |-> kind, id |-> nextId[kind], fd |-> n, ino |-> i,
                                        writes |-> op = "openWrite"]}
  /\ nextId' = [nextId EXCEPT ![kind] = @ + 1]
  /\ UNCHANGED <<entries, hostAt, session, pinned, treeCall, changed, reached, moves>>

\* inspect: only a regular file is removed, renamed or linked, and the new name
\* is in the same directory
Inspect(kind, op, path, to) ==
  /\ MayCall(kind, op)
  /\ op \in {"rename", "link"} => Separated(path).in = Separated(to).in
  /\ Beneath(kind, path) \in Regular
  /\ treeCall' = [op |-> op, kind |-> kind, path |-> path, to |-> to, fd |-> 0]
  /\ UNCHANGED <<entries, hostAt, fds, session, pinned, handles, nextId, changed, reached, moves>>

\* The parent is resolved afresh.
OpenParent ==
  /\ treeCall # NoCall /\ treeCall.fd = 0
  /\ LET d == Holding(treeCall.kind, Separated(treeCall.path)) IN
     IF d \in Folders
     THEN \E n \in 1..MaxFds :
            IsNewFd(n) /\ fds' = Opened(n, d, "session") /\ treeCall' = [treeCall EXCEPT !.fd = n]
     ELSE treeCall' = NoCall /\ UNCHANGED fds
  /\ UNCHANGED <<entries, hostAt, session, pinned, handles, nextId, changed, reached, calls, moves>>

\* unlinkat, renameat2 and linkat, on what the names are by now
NamesAfter(op, d, from, to) ==
  LET x == entries[d][from]
      t == entries[d][to]
  IN CASE op = "unlink" /\ x \notin Folders -> [entries EXCEPT ![d][from] = Nobody]
       [] op = "rename" /\ x # Nobody /\ x # t /\ (t = Nobody \/ {x, t} \cap Folders = {})
            -> [entries EXCEPT ![d][from] = Nobody, ![d][to] = x]
       [] op = "link" /\ x # Nobody /\ x \notin Folders /\ t = Nobody
            -> [entries EXCEPT ![d][to] = x]
       [] OTHER -> entries

ChangeNames ==
  /\ treeCall # NoCall /\ treeCall.fd # 0
  /\ LET d == fds[treeCall.fd].ino IN
     /\ entries' = NamesAfter(treeCall.op, d, Separated(treeCall.path).name, Separated(treeCall.to).name)
     /\ changed' = IF entries' = entries THEN changed ELSE changed \cup {d}
  /\ fds' = Closing({treeCall.fd}) /\ treeCall' = NoCall
  /\ UNCHANGED <<hostAt, session, pinned, handles, nextId, calls, moves>>
  /\ Reaching
-----------------------------------------------------------------------------
(* Calls with a handle, which is plain data: an id and a root.             *)

\* requireHandle refuses a handle of another root.
WriteHandle(kind, id) ==
  /\ session = "open" /\ treeCall = NoCall /\ kind # "repository"
  /\ \E h \in handles :
       /\ h.root = kind /\ h.id = id /\ h.writes
       /\ changed' = changed \cup {fds[h.fd].ino}
  /\ UNCHANGED <<entries, hostAt, fds, session, pinned, handles, nextId, treeCall, reached, calls, moves>>

\* The handle's root is not compared.
CloseHandle(kind, id) ==
  /\ session = "open" /\ treeCall = NoCall
  /\ \E h \in handles :
       /\ h.root = kind /\ h.id = id
       /\ handles' = handles \ {h}
       /\ fds' = Closing({h.fd})
  /\ UNCHANGED <<entries, hostAt, session, pinned, nextId, treeCall, changed, reached, calls, moves>>

-----------------------------------------------------------------------------
(* The others.                                                             *)

\* Another program renames, links, or points a path of a root elsewhere.
OthersMove ==
  /\ moves < MaxMoves /\ moves' = moves + 1
  /\ \/ session = "open" /\ UNCHANGED hostAt /\ \E e \in {"C", "S", "O"}, n \in {"f", "sub"} :
          /\ entries[e][n] = Nobody
          /\ \/ \E d \in Folders, m \in EntryNames :
                  /\ entries[d][m] \notin {Nobody, e}
                  /\ entries' = [entries EXCEPT ![d][m] = Nobody, ![e][n] = entries[d][m]]
             \/ \E i \in {entries["R"]["f"], Symlink} :
                  i # Nobody /\ entries' = [entries EXCEPT ![e][n] = i]
     \/ session = "pinning" /\ \E k \in RootKinds, d \in {"C", "O", Nobody} :
          /\ hostAt' = [hostAt EXCEPT ![k] = d] /\ UNCHANGED entries
  /\ UNCHANGED <<fds, session, pinned, handles, nextId, treeCall, changed, calls>>
  /\ Reaching

\* Other code of the process, or of a worker thread, opens and closes a file.
\* Before the roots are pinned that would only shift their numbers.
OthersOpen ==
  \E n \in 1..MaxFds :
    /\ session = "open" /\ \A m \in 1..MaxFds : fds[m].by # "other"
    /\ IsNewFd(n) /\ fds' = Opened(n, "a", "other")
    /\ UNCHANGED <<entries, hostAt, session, pinned, handles, nextId, treeCall, changed, reached, calls, moves>>

OthersClose ==
  \E n \in 1..MaxFds :
    /\ fds[n].by = "other" /\ fds' = Closing({n})
    /\ UNCHANGED <<entries, hostAt, session, pinned, handles, nextId, treeCall, changed, reached, calls, moves>>

TreeNext ==
  \/ \E form \in Forms : CreateSession(form)
  \/ PinRoot \/ RefuseRoots
  \/ DisposeSession
  \/ \E form \in Forms : InvokeContext(form)
  \/ \E k \in RootKinds, path \in TreePaths :
       \/ CreateFile(k, path)
       \/ \E op \in {"writeFile", "truncate"} : ChangeFile(k, op, path)
       \/ \E op \in {"openRead", "openWrite"} : OpenHandle(k, op, path)
       \/ Inspect(k, "unlink", path, path)
       \/ \E op \in {"rename", "link"}, to \in TreePaths \ {path} : Inspect(k, op, path, to)
  \/ OpenParent \/ ChangeNames
  \/ \E k \in RootKinds, id \in 1..MaxCalls : WriteHandle(k, id) \/ CloseHandle(k, id)
  \/ OthersMove \/ OthersOpen \/ OthersClose

TreeSpec == TreeInit /\ [][TreeNext]_treeVars
-----------------------------------------------------------------------------
\* The descriptors the session holds: of its roots, its handles and its treeCall.
PinnedFds == {pinned[i].fd : i \in {i \in DOMAIN pinned : ~pinned[i].closed}}
HandleFds == {h.fd : h \in handles}
CallFds   == {treeCall.fd} \ {0}

\* Whatever other programs do to the tree, the session changes nothing that was
\* never beneath a private root: not the repository, and nothing elsewhere.  It
\* holds a descriptor for as long as it is open and no longer, one holder each,
\* so that a number the kernel has given to other code is never used or closed;
\* a root and a handle keep the object they were opened on, the three roots
\* differ, and a session that was refused or disposed of holds nothing.
LiveRootsKept ==
  /\ changed \subseteq reached
  /\ {n \in 1..MaxFds : fds[n].by = "session"} = PinnedFds \cup HandleFds \cup CallFds
  /\ PinnedFds \cap HandleFds = {} /\ (PinnedFds \cup HandleFds) \cap CallFds = {}
  /\ \A g, h \in handles : g.fd = h.fd => g = h
  /\ \A h \in handles : fds[h.fd].ino = h.ino /\ h.id < nextId[h.root]
  /\ \A i \in DOMAIN pinned : ~pinned[i].closed => VerifyIdentity(pinned[i])
  /\ session = "open" => Len(pinned) = 3 /\ \A i, j \in 1..3 : i # j => pinned[i].ino # pinned[j].ino
  /\ session \in {"refused", "disposed"} => PinnedFds \cup HandleFds \cup CallFds = {}
=============================================================================
