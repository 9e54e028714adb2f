----------------------------- MODULE FsService -----------------------------
(***************************************************************************)
(* The file system the host serves to the guest: FsRpcService              *)
(* (host/src/vfs/rpc-service.ts) names files by inode number for the FUSE  *)
(* daemon (guest/src/sandboxfs/main.zig), which passes the guest kernel's   *)
(* requests on one at a time (SandboxFs.run) and waits for each response.   *)
(*                                                                         *)
(* The service has no identity of a file but its path: an inode number     *)
(* stands for a list of paths, and a request on it goes to the first one.  *)
(* The kernel keeps the numbers for as long as it likes and the host may    *)
(* change the backing store behind the service's back, so what matters is  *)
(* whether a number still means the file it was given out for.             *)
(*                                                                         *)
(* Paths are sequences of names; a file is a number of the backing store,  *)
(* 0 where there is none.  Data, attributes and permissions are left out.   *)
(***************************************************************************)
EXTENDS Integers, Sequences, FiniteSets, SequencesExt

CONSTANTS
    Names,          \* names of directory entries, numbers: readdir lists them in order
    Paths,          \* bound: the paths there are, closed under prefixes
    MaxFile,        \* bound: files and directories
    MaxIno,         \* bound: inode numbers
    MaxHandle,      \* bound: file handles given out
    Setups,         \* what happens in a behaviour: files there are at a time and inode
                    \* numbers given out (bounds), changes the host makes, whether files
                    \* are opened and directories listed
    PageSize        \* entries of one readdir response (max_entries)

FsAssumption ==
    /\ Names \subseteq Nat
    /\ Paths \subseteq Seq(Names) /\ <<>> \in Paths /\ \A p \in Paths \ {<<>>} : Front(p) \in Paths
    /\ {MaxFile, MaxIno, MaxHandle, PageSize} \subseteq Nat \ {0}
    /\ Setups \subseteq [files : 1..MaxFile, inos : 1..MaxIno, edits : Nat,
                        handles : BOOLEAN, scans : BOOLEAN]

Root == <<>>
Parent(p) == Front(p)
\* The paths at or below one.
AtOrBelow(p) == {q \in Paths : IsPrefix(p, q)}
\* A directory below which there are paths.
Inner(p) == \E n \in Names : Append(p, n) \in Paths

VARIABLES
    store,          \* [Paths -> file], the backing provider
    isDir,          \* the directories among the files
    linked,         \* history: the files that got a second name
    pathToIno,      \* the service's path -> inode number, 0: none
    inoToPaths,     \* its inode number -> paths, in the order they were added
    nextIno,
    handles,        \* its open file handles: the path they were opened by, moved by renames
    nextHandle,
    readdirCache,   \* [Paths -> {names}], the listings it keeps: at most one each
    dentry,         \* the guest kernel's path -> inode number, 0: none
    scan,           \* a readdir in progress in the guest
    edits,          \* changes the host has made so far
    setup           \* the member of Setups this behaviour is of

storeVars == <<store, isDir, linked>>
mapVars == <<pathToIno, inoToPaths, nextIno>>
handleVars == <<handles, nextHandle>>
vars == <<storeVars, mapVars, handleVars, readdirCache, dentry, scan, edits, setup>>

Files == 1..MaxFile
RootFile == 1
Inos == 1..MaxIno
Idle == [ino |-> 0, offset |-> 0, got |-> <<>>, want |-> {}, done |-> FALSE, changed |-> FALSE]

TypeOK ==
    /\ store \in [Paths -> Files \cup {0}]
    /\ isDir \subseteq Files
    /\ linked \subseteq Files
    /\ pathToIno \in [Paths -> Inos \cup {0}]
    /\ inoToPaths \in [Inos -> Seq(Paths)]
    /\ nextIno \in 2..MaxIno + 1
    /\ handles \subseteq [fh : 1..MaxHandle, path : Paths, file : Files]
    /\ nextHandle \in 1..MaxHandle + 1
    /\ \A p \in Paths : readdirCache[p] \subseteq SUBSET Names /\ Cardinality(readdirCache[p]) <= 1
    /\ dentry \in [Paths -> Inos \cup {0}]
    /\ scan.ino \in Inos \cup {0}
    /\ edits \in 0..setup.edits
    /\ setup \in Setups

Init ==
    /\ store = [p \in Paths |-> IF p = Root THEN RootFile ELSE 0]
    /\ isDir = {RootFile}
    /\ linked = {}
    /\ pathToIno = [p \in Paths |-> IF p = Root THEN 1 ELSE 0]
    /\ inoToPaths = [i \in Inos |-> IF i = 1 THEN <<Root>> ELSE <<>>]
    /\ nextIno = 2
    /\ handles = {}
    /\ nextHandle = 1
    /\ readdirCache = [p \in Paths |-> {}]
    /\ dentry = [p \in Paths |-> IF p = Root THEN 1 ELSE 0]
    /\ scan = Idle
    /\ edits = 0
    /\ setup \in Setups

-----------------------------------------------------------------------------
(* The backing store: what provider.mkdir, unlink, rename ... do to it.    *)

Exists(p) == store[p] # 0
Listing(d) == {n \in Names : Append(d, n) \in Paths /\ Exists(Append(d, n))}
IsDirectory(p) == store[p] \in isDir
Live == {store[p] : p \in Paths} \ {0}
\* Numbers for a new file, of which there are setup.files.
Unused == {f \in 1..setup.files : f \notin Live /\ f \notin isDir /\ f \notin linked
                           /\ \A h \in handles : h.file # f}

\* The path q of the subtree at p, moved to the subtree at r.
Moved(q, p, r) == r \o SubSeq(q, Len(p) + 1, Len(q))

RenameStore(s, p, r) ==
    IF s[p] = s[r] THEN s
    ELSE [q \in Paths |->
            IF q \in AtOrBelow(r) /\ Moved(q, r, p) \in Paths THEN s[Moved(q, r, p)]
            ELSE IF q \in AtOrBelow(r) \cup AtOrBelow(p) THEN 0
            ELSE s[q]]

-----------------------------------------------------------------------------
(* The service's maps.                                                     *)

Maps == [toIno |-> pathToIno, toPaths |-> inoToPaths, next |-> nextIno]
SetMaps(m) == /\ pathToIno' = m.toIno
              /\ inoToPaths' = m.toPaths
              /\ nextIno' = m.next

EnsureIno(m, p, preferred) ==
    IF m.toIno[p] # 0 THEN m
    ELSE LET i == IF preferred # 0 THEN preferred ELSE m.next
         IN  [toIno |-> [m.toIno EXCEPT ![p] = i],
              toPaths |-> [m.toPaths EXCEPT ![i] = Append(@, p)],
              next |-> IF preferred # 0 THEN m.next ELSE m.next + 1]

\* requirePath fails with ENOENT when the number has no path left.
HasPath(i) == inoToPaths[i] # <<>>
RequirePath(i) == Head(inoToPaths[i])

\* The mappings of a set of paths are dropped.
Drop(m, gone) ==
    [m EXCEPT
       !.toIno = [q \in Paths |-> IF q \in gone THEN 0 ELSE @[q]],
       !.toPaths = [i \in Inos |-> SelectSeq(@[i], LAMBDA q : ~(q \in gone /\ m.toIno[q] = i))]]

RemoveMapping(m, p) == Drop(m, AtOrBelow(p))

\* Mutant: only the renamed name itself moves, what is below it stays.
RenameNameMapping(m, p, r) ==
    LET i == m.toIno[p]
        d == Drop(m, AtOrBelow(r) \cup {p})
    IN  IF i = 0 THEN d ELSE EnsureIno(d, r, i)

\* What lay at the destination is dropped first, then the source moves there.
RenameMapping(m, p, r) ==
    LET d == Drop(m, AtOrBelow(r) \ AtOrBelow(p))
        moves(q) == q \in AtOrBelow(p) /\ d.toIno[q] # 0
        arrives(q) == q \in AtOrBelow(r) /\ Moved(q, r, p) \in Paths /\ moves(Moved(q, r, p))
    IN  [toIno |-> [q \in Paths |->
                      IF arrives(q) THEN d.toIno[Moved(q, r, p)]
                      ELSE IF moves(q) THEN 0 ELSE d.toIno[q]],
         toPaths |-> [i \in Inos |->
                        LET here == SelectSeq(d.toPaths[i], LAMBDA q : q \in AtOrBelow(p))
                        IN  SelectSeq(d.toPaths[i], LAMBDA q : q \notin AtOrBelow(p))
                              \o [k \in DOMAIN here |-> Moved(here[k], p, r)]],
         next |-> d.next]

RenameHandles(p, r) ==
    {[h EXCEPT !.path = IF @ \in AtOrBelow(p) THEN Moved(@, p, r) ELSE @] : h \in handles}

\* invalidateReaddirCacheEntries: some listings, or whole subtrees of them.
Without(cache, ps) == [p \in Paths |-> IF p \in ps THEN {} ELSE cache[p]]

StaleAfterRename(p, r) == {Parent(p), Parent(r)} \cup AtOrBelow(p) \cup AtOrBelow(r)

AllocateHandle(p, f) ==
    /\ handles' = handles \cup {[fh |-> nextHandle, path |-> p, file |-> f]}
    /\ nextHandle' = nextHandle + 1

-----------------------------------------------------------------------------
(* The guest kernel (external, fs/fuse): it sends a request for a name only *)
(* below a directory it has a number for and changes only names it has     *)
(* looked up.  The lookup that finds a name absent is part of the request   *)
(* that takes the name: only the host can have put a file there since.      *)

Known(p) == dentry[p] > 0
TakesForAbsent(p, t) == dentry[p] = 0 /\ (~Exists(t) \/ edits > 0)

\* A name now means i: when it meant something else, all below is forgotten.
Learn(p, i) ==
    dentry' = [q \in Paths |->
                 IF q = p THEN i
                 ELSE IF q \in AtOrBelow(p) /\ dentry[p] # i THEN 0
                 ELSE dentry[q]]
Forget(p) == dentry' = [q \in Paths |-> IF q \in AtOrBelow(p) THEN 0 ELSE dentry[q]]

\* The paths a request on directory d and name n is about: the kernel's and the service's.
Target(d, n) == Append(RequirePath(dentry[d]), n)
CanAsk(d, n) == Known(d) /\ HasPath(dentry[d]) /\ Append(d, n) \in Paths /\ Target(d, n) \in Paths

\* The listing readdir answers with, and a scan whose directory has changed.
Answer(p) == IF readdirCache[p] # {} THEN CHOOSE l \in readdirCache[p] : TRUE ELSE Listing(p)
Scanned == IF scan.ino # 0 /\ HasPath(scan.ino) THEN {RequirePath(scan.ino)} ELSE {}
ScanChanged(yes) == scan' = [scan EXCEPT !.changed = @ \/ (scan.ino # 0 /\ yes)]
ChangesScan(ps) == ScanChanged(Scanned \cap ps # {})
-----------------------------------------------------------------------------
(* Requests: one handler of FsRpcService each, with what the kernel makes   *)
(* of its response.  A request that fails changes nothing and is left out.  *)

Lookup(d, n) ==
    /\ CanAsk(d, n)
    /\ IF Exists(Target(d, n))
       THEN LET m == EnsureIno(Maps, Target(d, n), 0)
            IN  /\ m.next <= setup.inos + 1
                /\ SetMaps(m)
                /\ Learn(Append(d, n), m.toIno[Target(d, n)])
       ELSE Forget(Append(d, n)) /\ UNCHANGED mapVars
    /\ UNCHANGED <<storeVars, handleVars, readdirCache, scan, edits, setup>>

\* The name t now is file f with number i, and its directory has changed.
Added(d, n, t, f, m) ==
    /\ m.next <= setup.inos + 1
    /\ store' = [store EXCEPT ![t] = f]
    /\ SetMaps(m)
    /\ Learn(Append(d, n), m.toIno[t])
    /\ readdirCache' = Without(readdirCache, {Parent(t)})
    /\ ChangesScan({Parent(t)})

Mkdir(d, n) ==
    LET t == Target(d, n) IN
    /\ CanAsk(d, n) /\ TakesForAbsent(Append(d, n), t)
    /\ IsDirectory(Parent(t)) /\ ~Exists(t) /\ Inner(t) /\ Unused # {}
    /\ Added(d, n, t, Min(Unused), EnsureIno(Maps, t, 0))
    /\ isDir' = isDir \cup {Min(Unused)}
    /\ UNCHANGED <<linked, handleVars, edits, setup>>

\* create opens with "w": a file the host put there meanwhile is truncated.
Create(d, n) ==
    LET t == Target(d, n)
        f == IF Exists(t) THEN store[t] ELSE Min(Unused)
        m == EnsureIno(Maps, t, 0) IN
    /\ CanAsk(d, n) /\ TakesForAbsent(Append(d, n), t)
    /\ IsDirectory(Parent(t)) /\ ~IsDirectory(t)
    /\ Exists(t) \/ Unused # {}
    /\ Added(d, n, t, f, m)
    /\ IF setup.handles THEN nextHandle <= MaxHandle /\ AllocateHandle(t, f)
       ELSE UNCHANGED handleVars
    /\ UNCHANGED <<isDir, linked, edits, setup>>

\* A symbolic link is a file of its own here: the kernel follows it, not the service.
Symlink(d, n) ==
    LET t == Target(d, n) IN
    /\ CanAsk(d, n) /\ TakesForAbsent(Append(d, n), t)
    /\ IsDirectory(Parent(t)) /\ ~Exists(t) /\ Unused # {}
    /\ Added(d, n, t, Min(Unused), EnsureIno(Maps, t, 0))
    /\ UNCHANGED <<isDir, linked, handleVars, edits, setup>>

Removed(d, n, t, cached) ==
    /\ store' = [store EXCEPT ![t] = 0]
    /\ SetMaps(RemoveMapping(Maps, t))
    /\ readdirCache' = Without(readdirCache, cached)
    /\ Forget(Append(d, n))
    /\ ChangesScan({Parent(t), t})
    /\ UNCHANGED <<isDir, linked, handleVars, edits, setup>>

Unlink(d, n) ==
    LET t == Target(d, n) IN
    /\ CanAsk(d, n) /\ Known(Append(d, n))
    /\ Exists(t) /\ ~IsDirectory(t)
    /\ Removed(d, n, t, {Parent(t)})

Rmdir(d, n) ==
    LET t == Target(d, n) IN
    /\ CanAsk(d, n) /\ Known(Append(d, n))
    /\ IsDirectory(t) /\ Listing(t) = {}
    /\ Removed(d, n, t, {Parent(t)} \cup AtOrBelow(t))

\* What the store lets a rename do; all that is moved must fit the bound.
MayRename(p, r) ==
    /\ Exists(p) /\ IsDirectory(Parent(r)) /\ r \notin AtOrBelow(p)
    /\ Exists(r) => (IsDirectory(p) <=> IsDirectory(r)) /\ Listing(r) = {}
    /\ IsDirectory(p) => Inner(r)
    /\ \A q \in AtOrBelow(p) :
         Exists(q) \/ pathToIno[q] # 0 \/ (\E h \in handles : h.path = q) => Moved(q, p, r) \in Paths

\* The kernel asks nothing when both names are the same inode (vfs_rename).
Rename(d, n, e, o) ==
    LET p == Target(d, n)
        r == Target(e, o)
        from == Append(d, n)
        to == Append(e, o) IN
    /\ CanAsk(d, n) /\ CanAsk(e, o)
    /\ Known(from) /\ (Known(to) \/ TakesForAbsent(to, r)) /\ dentry[from] # dentry[to]
    /\ to \notin AtOrBelow(from) /\ from \notin AtOrBelow(to)
    /\ MayRename(p, r)
    /\ store' = RenameStore(store, p, r)
    /\ SetMaps(RenameMapping(Maps, p, r))
    /\ handles' = RenameHandles(p, r)
    /\ readdirCache' = Without(readdirCache, StaleAfterRename(p, r))
    /\ dentry' = RenameStore(dentry, from, to)
    /\ ScanChanged(Scanned \cap ({Parent(p), Parent(r)} \cup AtOrBelow(r)) # {} \/ edits > 0)
    /\ UNCHANGED <<isDir, linked, nextHandle, edits, setup>>

Link(s, d, n) ==
    LET t == Target(d, n)
        i == dentry[s] IN
    /\ CanAsk(d, n) /\ TakesForAbsent(Append(d, n), t) /\ Known(s) /\ HasPath(i)
    /\ Exists(RequirePath(i)) /\ ~IsDirectory(RequirePath(i))
    /\ IsDirectory(Parent(t)) /\ ~Exists(t)
    /\ Added(d, n, t, store[RequirePath(i)], EnsureIno(Maps, t, i))
    /\ linked' = linked \cup {store[RequirePath(i)]}
    /\ UNCHANGED <<isDir, handleVars, edits, setup>>

Open(p) ==
    /\ setup.handles /\ Known(p) /\ HasPath(dentry[p]) /\ nextHandle <= MaxHandle
    /\ LET q == RequirePath(dentry[p]) IN
       /\ Exists(q) /\ ~IsDirectory(q)
       /\ AllocateHandle(q, store[q])
    /\ UNCHANGED <<storeVars, mapVars, readdirCache, dentry, scan, edits, setup>>

Release(h) ==
    /\ h \in handles
    /\ handles' = handles \ {h}
    /\ UNCHANGED <<storeVars, mapVars, nextHandle, readdirCache, dentry, scan, edits, setup>>

-----------------------------------------------------------------------------
(* Reading a directory: OPENDIR takes no request, each READDIR asks for the *)
(* entries after the last offset it was given, and an empty answer ends it. *)

OpenDir(p) ==
    /\ setup.scans /\ scan = Idle /\ Known(p) /\ HasPath(dentry[p]) /\ IsDirectory(RequirePath(dentry[p]))
    /\ scan' = [Idle EXCEPT !.ino = dentry[p]]
    /\ UNCHANGED <<storeVars, mapVars, handleVars, readdirCache, dentry, edits, setup>>

\* The page of a listing that starts at an offset.
Page(l, offset) ==
    LET entries == SetToSortSeq(l, <)
        start == Min({offset, Len(entries)})
    IN  SubSeq(entries, start + 1, Min({start + PageSize, Len(entries)}))

Readdir ==
    /\ scan.ino # 0 /\ HasPath(scan.ino) /\ IsDirectory(RequirePath(scan.ino)) /\ ~scan.done
    /\ LET d == RequirePath(scan.ino)
           l == Answer(d)
           page == Page(l, scan.offset)
           m == FoldLeft(LAMBDA x, n : EnsureIno(x, Append(d, n), 0), Maps, page) IN
       /\ m.next <= setup.inos + 1
       /\ SetMaps(m)
       /\ readdirCache' = [readdirCache EXCEPT ![d] = {l}]
       /\ scan' = [scan EXCEPT !.offset = @ + Len(page), !.got = @ \o page,
                              !.want = IF scan.offset = 0 THEN l ELSE @, !.done = page = <<>>]
    /\ UNCHANGED <<storeVars, handleVars, dentry, edits, setup>>

\* The directory has gone, or the guest is done with it.
CloseDir ==
    /\ scan.ino # 0
    /\ scan' = Idle
    /\ UNCHANGED <<storeVars, mapVars, handleVars, readdirCache, dentry, edits, setup>>

\* Five seconds pass without a readdir of p, or 128 other directories are read.
ExpireListing(p) ==
    /\ readdirCache[p] # {}
    /\ readdirCache' = Without(readdirCache, {p})
    /\ ScanChanged(readdirCache[p] # {Listing(p)})
    /\ UNCHANGED <<storeVars, mapVars, handleVars, dentry, edits, setup>>

-----------------------------------------------------------------------------
(* The machine exits and another one boots: the service lives on.  Closing  *)
(* the server closes what it holds.                                        *)

KernelGone ==
    /\ dentry' = [p \in Paths |-> IF p = Root THEN 1 ELSE 0]
    /\ scan' = Idle

VmExit ==
    /\ KernelGone
    /\ UNCHANGED <<storeVars, mapVars, handleVars, readdirCache, edits, setup>>

Close ==
    /\ KernelGone
    /\ handles' = {}
    /\ readdirCache' = [p \in Paths |-> {}]
    /\ UNCHANGED <<storeVars, mapVars, nextHandle, edits, setup>>

\* The host changes the store itself (external): a file is put at a free or
\* taken name, or a file or an empty directory is removed.
HostPuts(p) ==
    /\ edits < setup.edits
    /\ p # Root /\ IsDirectory(Parent(p)) /\ ~IsDirectory(p) /\ Unused # {}
    /\ edits' = edits + 1
    /\ store' = [store EXCEPT ![p] = Min(Unused)]
    /\ ScanChanged(Parent(p) \in Scanned /\ readdirCache[Parent(p)] = {})
    /\ UNCHANGED <<isDir, linked, mapVars, handleVars, readdirCache, dentry, setup>>

HostRemoves(p) ==
    /\ edits < setup.edits
    /\ p # Root /\ Exists(p) /\ Listing(p) = {}
    /\ edits' = edits + 1
    /\ store' = [store EXCEPT ![p] = 0]
    /\ ScanChanged(Parent(p) \in Scanned /\ readdirCache[Parent(p)] = {})
    /\ UNCHANGED <<isDir, linked, mapVars, handleVars, readdirCache, dentry, setup>>

Next ==
    \/ \E d \in Paths, n \in Names :
         \/ Lookup(d, n) \/ Mkdir(d, n) \/ Create(d, n) \/ Symlink(d, n)
         \/ Unlink(d, n) \/ Rmdir(d, n)
         \/ \E e \in Paths, o \in Names : Rename(d, n, e, o)
         \/ \E s \in Paths : Link(s, d, n)
    \/ \E p \in Paths : Open(p) \/ OpenDir(p) \/ ExpireListing(p)
                      \/ HostPuts(p) \/ HostRemoves(p)
    \/ \E h \in handles : Release(h)
    \/ Readdir \/ CloseDir
    \/ VmExit \/ Close

Spec == Init /\ [][Next]_vars

-----------------------------------------------------------------------------
\* While the host leaves the store alone, a number the kernel holds for a name
\* leads the service to the very file that has the name, across renames of the
\* name and of directories above it, replaced targets, hard links, machine
\* restarts and listings.
InoNamesItsFile ==
    edits = 0 =>
      \A p \in Paths :
        Known(p) => /\ HasPath(dentry[p]) /\ Exists(p)
                    /\ store[RequirePath(dentry[p])] = store[p]

\* While the host leaves the store alone, a listing the service keeps is the
\* directory's: every request that changes a listing, or moves a directory to
\* another path, drops what was kept.
ListingsFresh ==
    edits = 0 => \A p \in Paths : readdirCache[p] # {} => IsDirectory(p) /\ readdirCache[p] = {Listing(p)}

\* A directory read page by page yields each entry once and no other, if the
\* guest does not change the directory meanwhile: renames of directories
\* above it, expired listings and changes of the host a kept listing hides
\* do not disturb the offsets.
ScanComplete ==
    scan.done /\ ~scan.changed =>
      Range(scan.got) = scan.want /\ IsInjective(scan.got)

\* A handle carries a name of its file as long as the file has one, which the
\* overlap check of copy_file_range relies on: renames move it along.  Files
\* with several names are left out: their handles keep the name they were
\* opened under also when another one remains.
HandleNamesItsFile ==
    edits = 0 =>
      \A h \in handles : h.file \in Live \ linked => store[h.path] = h.file

\* Numbers, handles, kept listings and pages stand for the files they were
\* given for.
NamesStand == InoNamesItsFile /\ HandleNamesItsFile /\ ListingsFresh /\ ScanComplete
=============================================================================
