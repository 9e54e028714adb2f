------------------------------ MODULE VfsLayers ------------------------------
(***************************************************************************)
(* The stack of providers behind the guest's file system: hooks            *)
(* (vfs/provider.ts) over a router of mounts (vfs/mounts.ts) over, for     *)
(* each mount, a plain, read-only or shadowing provider (vfs/readonly.ts,  *)
(* vfs/readonly-virtual.ts, vfs/shadow.ts) over a store of files.  Every   *)
(* method has an asynchronous and a synchronous form that do the same; one *)
(* definition stands for both.  The guest daemon sends one request at a    *)
(* time, so a call runs to its end before the next.                        *)
(*                                                                         *)
(* A path is a sequence of names.  Deeper paths than Paths holds are       *)
(* refused: a bound of the model.                                          *)
(***************************************************************************)
EXTENDS Naturals, SequencesExt

CONSTANTS
  Paths,     \* the paths that may be named: closed under prefixes
  Setups,    \* the mounts, the stores at the start, the paths that calls name,
             \* the targets of the links they make, and the calls a hook refuses
  MaxIno     \* files that may ever exist (bounds the model)

LayersAssumption ==
  /\ <<>> \in Paths /\ \A p \in Paths : p # <<>> => Front(p) \in Paths
  /\ MaxIno \in Nat
  /\ \A s \in Setups : DOMAIN s = {"mounts", "stores", "named", "targets", "vetoed"}

VARIABLES
  setup,     \* the element of Setups that this behaviour is about
  fs,        \* the tree of each store
  text,      \* who wrote a file's content last, by inode
  handle,    \* the caller's open file: [ino, flags], ino 0 when there is none
  carried    \* history: the files <<store, ino>> under a shadowed name that the
             \* rename of a directory above them took to another name

vars == <<setup, fs, text, handle, carried>>

None      == [kind |-> "none", ino |-> 0, to |-> <<>>]
Dir       == [None EXCEPT !.kind = "dir"]
File(i)   == [None EXCEPT !.kind = "file", !.ino = i]
LinkTo(q) == [None EXCEPT !.kind = "link", !.to = q]

Closed == [ino |-> 0, flags |-> "r"]

Init ==
  /\ setup \in Setups
  /\ fs = setup.stores
  /\ text = [i \in 1 .. MaxIno |-> "host"]
  /\ handle = Closed
  /\ carried = {}

-----------------------------------------------------------------------------
(* A store: a host directory or memory, with hard and symbolic links *)

\* where a path leads when every link on the way is followed: {} when nowhere
RECURSIVE Walk(_, _, _, _)
Walk(f, done, rest, hops) ==
  IF rest = <<>> THEN {done}
  ELSE LET q == Append(done, Head(rest))
           n == IF q \in Paths THEN f[q] ELSE None IN
       CASE n.kind = "none" -> {}
         [] n.kind = "link" ->
              IF hops = 0 THEN {} ELSE Walk(f, <<>>, n.to \o Tail(rest), hops - 1)
         [] n.kind = "file" -> IF Len(rest) = 1 THEN {q} ELSE {}
         [] n.kind = "dir"  -> Walk(f, q, Tail(rest), hops)

Realpath(f, p) == Walk(f, <<>>, p, 2)

\* the place of the entry p names: its last name is not followed
Place(f, p) ==
  IF p = <<>> THEN {p}
  ELSE {Append(d, Last(p)) : d \in {d \in Realpath(f, Front(p)) : f[d] = Dir}} \cap Paths

LstatIn(f, p) == {f[q] : q \in Place(f, p)} \ {None}
StatIn(f, p)  == {f[q] : q \in Realpath(f, p)}
ReadlinkIn(f, p) == {n.to : n \in {n \in LstatIn(f, p) : n.kind = "link"}}
NamesIn(f, p) ==
  {Last(q) : q \in {q \in Paths \ {<<>>} : f[q] # None /\ Front(q) \in Realpath(f, p)}}

Empty(f, q) == \A r \in Paths : IsStrictPrefix(q, r) => f[r] = None

\* open, symlink and rename of the memory layer make missing parents
WithParents(f, p) ==
  [q \in Paths |-> IF IsStrictPrefix(q, p) /\ f[q] = None THEN Dir ELSE f[q]]

\* the store after a successful change; {} when it fails
Creating(f, p, node) ==
  {[f EXCEPT ![q] = node] : q \in {q \in Place(f, p) : f[q] = None}}
Removing(f, p, kinds) ==
  {[f EXCEPT ![q] = None] :
     q \in {q \in Place(f, p) : q # <<>> /\ f[q].kind \in kinds /\ Empty(f, q)}}
Moved(f, q, r) ==
  [x \in Paths |->
     IF IsPrefix(r, x)
     THEN LET y == q \o SubSeq(x, Len(r) + 1, Len(x)) IN IF y \in Paths THEN f[y] ELSE None
     ELSE IF IsPrefix(q, x) THEN None ELSE f[x]]
Fits(f, q, r) ==
  \A x \in Paths : IsPrefix(q, x) /\ f[x] # None => r \o SubSeq(x, Len(q) + 1, Len(x)) \in Paths
Moving(f, from, to) ==
  {Moved(f, m[1], m[2]) :
     m \in {m \in Place(f, from) \X Place(f, to) :
              /\ f[m[1]] # None /\ ~IsPrefix(m[1], m[2]) /\ ~IsPrefix(m[2], m[1])
              /\ f[m[2]] # None => Empty(f, m[2]) /\ (f[m[2]] = Dir <=> f[m[1]] = Dir)
              /\ Fits(f, m[1], m[2])}}

-----------------------------------------------------------------------------
(* One mount: read-only, shadowing or plain *)

\* a provider of its own files: no writes, no links
ReadonlyVirtual(d) == d.kind = "virtual"
ReadOnly(d) == d.kind = "readonly" \/ ReadonlyVirtual(d)
isWriteFlag(flags) == flags # "r"

\* createShadowPathPredicate
shadows(d, q) == \E h \in d.hide : IsPrefix(h, q)

\* a bug: a link that leads to a shadowed file is not looked through
NoBypassCheck(d, q) == FALSE

resolvesToShadowed(d, q) == \E r \in Realpath(fs[d.lower], q) : shadows(d, r)

Hidden(d, q) == shadows(d, q) \/ resolvesToShadowed(d, q)

\* what stands for a shadowed entry: nothing, or the memory layer
Upper(d) == IF d.mode = "tmpfs" THEN {d.upper} ELSE {}

Base(d, s, p) == IF d.mode = "tmpfs" /\ s = d.upper THEN WithParents(fs[s], p) ELSE fs[s]

\* the stores (one or none) that answer a call on q
StatsIn(d, q) == IF Hidden(d, q) THEN Upper(d) ELSE {d.lower}

\* readlink, realpath and access make the same choice
ResolvesIn(d, q) == IF Hidden(d, q) THEN Upper(d) ELSE {d.lower}

OpensIn(d, q, flags) ==
  IF ReadOnly(d) /\ isWriteFlag(flags) THEN {}
  ELSE IF Hidden(d, q) THEN Upper(d) ELSE {d.lower}

ChangesIn(d, q) ==
  IF ReadOnly(d) THEN {} ELSE IF Hidden(d, q) THEN Upper(d) ELSE {d.lower}

\* a bug: only the new name is checked
ChecksNewName(d, from, to) ==
  IF ReadOnly(d) THEN {} ELSE IF Hidden(d, to) THEN Upper(d) ELSE {d.lower}

\* both names in the same layer, or EXDEV
RenamesIn(d, from, to) ==
  IF ReadOnly(d) THEN {}
  ELSE IF Hidden(d, from) /\ Hidden(d, to)   THEN Upper(d)
  ELSE IF ~Hidden(d, from) /\ ~Hidden(d, to) THEN {d.lower}
  ELSE {}

\* neither the shadowing nor the virtual provider has a link method
LinksIn(d) == IF d.kind = "plain" THEN {d.lower} ELSE {}

DirAt(f, q) == \E r \in Realpath(f, q) : f[r] = Dir
Names(s, q) == IF DirAt(fs[s], q) THEN {NamesIn(fs[s], q)} ELSE {}

\* A listing is a set of at most one set of names, {} when the call fails:
\* the lower names that no policy hides, and those of the memory layer
ShadowReaddir(d, q) ==
  IF Hidden(d, q) THEN UNION {Names(s, q) : s \in Upper(d)}
  ELSE IF \E s \in Upper(d) : Realpath(fs[s], q) # {} /\ ~DirAt(fs[s], q) THEN {}
  ELSE {{n \in l : ~shadows(d, Append(q, n))} \cup
          UNION UNION {Names(s, q) : s \in Upper(d)} : l \in Names(d.lower, q)}

-----------------------------------------------------------------------------
(* The router *)

Mounts == DOMAIN setup.mounts

\* resolveMount: the longest mount path that covers p, if any
Covering(p) ==
  {m \in Mounts : /\ IsPrefix(m, p)
                  /\ \A n \in Mounts : IsPrefix(n, p) => Len(n) <= Len(m)}
Rel(p, m) == SubSeq(p, Len(m) + 1, Len(p))

\* names under p that lead to a mount
virtualChildren(p) ==
  {m[Len(p) + 1] : m \in {m \in Mounts : IsStrictPrefix(p, m)}}

\* what a call on p asks of the mount that covers it: the union of set Ask(d, q)
OfMount(p, Ask(_, _)) == UNION {Ask(setup.mounts[m], Rel(p, m)) : m \in Covering(p)}

\* a mount point's parents are directories even where no store has them
Fallback(p) == virtualChildren(p) # {} /\ Covering(p) \in {{}, {<<>>}}
OrVirtual(p, answer) == IF answer = {} /\ Fallback(p) THEN {Dir} ELSE answer

Lstat(p) ==
  OrVirtual(p, OfMount(p, LAMBDA d, q : UNION {LstatIn(fs[s], q) : s \in StatsIn(d, q)}))
Stat(p) ==
  OrVirtual(p, OfMount(p, LAMBDA d, q : UNION {StatIn(fs[s], q) : s \in StatsIn(d, q)}))

\* paths of the mount's own store, not of the router
RealpathOf(p) == OfMount(p, LAMBDA d, q : UNION {Realpath(fs[s], q) : s \in ResolvesIn(d, q)})
Access(p)     == RealpathOf(p) # {} \/ Fallback(p)
Readlink(p)   == OfMount(p, LAMBDA d, q : UNION {ReadlinkIn(fs[s], q) : s \in ResolvesIn(d, q)})

\* a mount hides an entry of its name
Readdir(p) ==
  IF Fallback(p) /\ OfMount(p, LAMBDA d, q : UNION {Realpath(fs[s], q) : s \in StatsIn(d, q)}) = {}
  THEN {virtualChildren(p)}
  ELSE {l \cup virtualChildren(p) : l \in OfMount(p, ShadowReaddir)}

\* requireSameMount
SameMount(p, q) == {m \in Covering(p) : m \in Covering(q)}

-----------------------------------------------------------------------------
(* The calls.  A before hook may refuse one; a call that fails changes nothing. *)

Allowed(op, p) == p \in setup.named /\ <<op, p>> \notin setup.vetoed

\* store s becomes one of the trees
Becomes(s, trees) ==
  /\ \E f \in trees : fs' = [fs EXCEPT ![s] = f]
  /\ UNCHANGED <<setup, text, handle, carried>>

OnMount(p, Do(_, _)) == \E m \in Covering(p) : Do(setup.mounts[m], Rel(p, m))

Linked(i) == \E s \in DOMAIN fs : \E q \in Paths : fs[s][q] = File(i)
FreeInos == {i \in 1 .. MaxIno : ~Linked(i) /\ handle.ino # i}

\* flags are r, r+ and w; only w creates a file, and empties one that is there.
\* An ino is only a name: the smallest free one is as good as any.
Open(p, flags) ==
  /\ Allowed("open", p) /\ handle = Closed
  /\ OnMount(p, LAMBDA d, q : \E s \in OpensIn(d, q, flags) :
       \/ \E r \in Realpath(fs[s], q) :
            /\ fs[s][r].kind = "file"
            /\ handle' = [ino |-> fs[s][r].ino, flags |-> flags]
            /\ text' = IF flags = "w" THEN [text EXCEPT ![fs[s][r].ino] = "guest"] ELSE text
            /\ UNCHANGED fs
       \/ /\ flags = "w" /\ Realpath(fs[s], q) = {}
          /\ \E i \in FreeInos : \E f \in Creating(Base(d, s, q), q, File(i)) :
               /\ \A j \in FreeInos : i <= j
               /\ fs' = [fs EXCEPT ![s] = f]
               /\ handle' = [ino |-> i, flags |-> flags]
               /\ text' = [text EXCEPT ![i] = "guest"])
  /\ UNCHANGED <<setup, carried>>

\* write and truncate of a handle
HandleWrite ==
  /\ handle.ino # 0 /\ isWriteFlag(handle.flags)
  /\ text' = [text EXCEPT ![handle.ino] = "guest"]
  /\ UNCHANGED <<setup, fs, handle, carried>>

HandleClose ==
  /\ handle.ino # 0 /\ handle' = Closed
  /\ UNCHANGED <<setup, fs, text, carried>>

\* truncate by path opens the file for it
Truncate(p) ==
  /\ Allowed("truncate", p)
  /\ OnMount(p, LAMBDA d, q : \E s \in OpensIn(d, q, "r+") : \E r \in Realpath(fs[s], q) :
       /\ fs[s][r].kind = "file"
       /\ text' = [text EXCEPT ![fs[s][r].ino] = "guest"])
  /\ UNCHANGED <<setup, fs, handle, carried>>

Mkdir(p) ==
  /\ Allowed("mkdir", p)
  /\ OnMount(p, LAMBDA d, q : \E s \in ChangesIn(d, q) : Becomes(s, Creating(fs[s], q, Dir)))

Rmdir(p) ==
  /\ Allowed("rmdir", p)
  /\ OnMount(p, LAMBDA d, q : \E s \in ChangesIn(d, q) : Becomes(s, Removing(fs[s], q, {"dir"})))

Unlink(p) ==
  /\ Allowed("unlink", p)
  /\ OnMount(p, LAMBDA d, q : \E s \in ChangesIn(d, q) :
       Becomes(s, Removing(fs[s], q, {"file", "link"})))

Symlink(target, p) ==
  /\ target \in setup.targets /\ Allowed("symlink", p)
  /\ OnMount(p, LAMBDA d, q : \E s \in ChangesIn(d, q) :
       Becomes(s, Creating(Base(d, s, q), q, LinkTo(target))))

\* what the policy hides below a directory that it does not hide
HiddenBelow(d, s, q) ==
  {<<s, fs[s][r].ino>> : r \in {r \in Paths : shadows(d, r) /\ fs[s][r].kind = "file" /\
                                 \E x \in Place(fs[s], q) : IsStrictPrefix(x, r) /\ ~shadows(d, x)}}

\* The two names are checked, not what is below them.
Rename(p, q) ==
  /\ Allowed("rename", p) /\ q \in setup.named
  /\ \E m \in SameMount(p, q) :
       LET d == setup.mounts[m] IN
       \E s \in RenamesIn(d, Rel(p, m), Rel(q, m)) :
         /\ \E f \in Moving(Base(d, s, Rel(q, m)), Rel(p, m), Rel(q, m)) : fs' = [fs EXCEPT ![s] = f]
         /\ carried' = carried \cup HiddenBelow(d, s, Rel(p, m))
  /\ UNCHANGED <<setup, text, handle>>

Link(p, q) ==
  /\ Allowed("link", p) /\ q \in setup.named
  /\ \E m \in SameMount(p, q) : \E s \in LinksIn(setup.mounts[m]) :
       \E r \in Realpath(fs[s], Rel(p, m)) :
         /\ fs[s][r].kind = "file"
         /\ Becomes(s, Creating(fs[s], Rel(q, m), fs[s][r]))

Next ==
  \/ \E p \in Paths : \E flags \in {"r", "r+", "w"} : Open(p, flags)
  \/ HandleWrite
  \/ HandleClose
  \/ \E p \in Paths : Truncate(p)
  \/ \E p \in Paths : Mkdir(p)
  \/ \E p \in Paths : Rmdir(p)
  \/ \E p \in Paths : Unlink(p)
  \/ \E p, q \in Paths : Rename(p, q)
  \/ \E p, q \in Paths : Link(p, q)
  \/ \E p, q \in Paths : Symlink(q, p)

Spec == Init /\ [][Next]_vars

-----------------------------------------------------------------------------
(* Properties *)

Hides(d) == {q \in Paths : ReadOnly(d) \/ shadows(d, q)}
InosAt(f, Q) == {f[q].ino : q \in Q} \ {0}

\* No sequence of calls changes, or reads through a shadow, what the host keeps
\* under a shadowed name or on a read-only mount, whatever links the guest makes
\* and however it renames: the checks are made on names, the data is found
\* through links and open files.  There is one way round, for a file shadowed
\* below a directory that is not: a rename takes the directory, with the file, to
\* another name, and from then on nothing hides it (`carried`).
ProtectedUntouched ==
  \A m \in Mounts :
    LET d == setup.mounts[m]
        kept == {q \in Hides(d) : /\ setup.stores[d.lower][q] # None
                                  /\ <<d.lower, setup.stores[d.lower][q].ino>> \notin carried}
        inos == InosAt(setup.stores[d.lower], kept) IN
    /\ \A q \in kept : fs[d.lower][q] = setup.stores[d.lower][q]
    /\ \A i \in inos : text[i] = "host"
    /\ d.kind = "shadow" =>
         /\ handle.ino \notin inos
         /\ \A p \in Paths : \A i \in inos : File(i) \notin Lstat(p) \cup Stat(p)

\* A file that stands where the parents of a mount point were
Buried == \E p \in Paths : virtualChildren(p) # {} /\ Lstat(p) # {} /\ Lstat(p) # {Dir}

\* Where nobody makes links, the methods that read a name, each with a layering
\* of its own, agree: a name is in the listing of its directory exactly when it
\* can be looked up, with or without following, and accessed.
ReadsAgree ==
  setup.targets = {} /\ ~Buried =>
    \A p \in Paths \ {<<>>} :
      /\ Stat(p) = Lstat(p) /\ Readlink(p) = {}
      /\ Access(p) <=> Lstat(p) # {}
      /\ Lstat(p) # {} <=> \E l \in Readdir(Front(p)) : Last(p) \in l

NS == INSTANCE Namespace WITH tree <- [p \in Paths |-> Lstat(p)]

\* the parents of mounts, and of shadowed names, are nobody's to change
Flat ==
  /\ \A p \in Paths \ {<<>>} : virtualChildren(p) # {} => Covering(p) = {}
  /\ \A m \in Mounts : \A h \in setup.mounts[m].hide : Len(h) = 1

\* Where nobody makes links, mounts and layers together are one tree: each call
\* makes, removes or moves what it names, and nothing else appears or is lost.
OneNamespace ==
  [][setup.targets = {} /\ Flat => NS!Next \/ UNCHANGED [p \in Paths |-> Lstat(p)]]_vars

\* Where nobody makes links the stack is one tree: to those who read it, and to
\* those who change it.
OneTree == []ReadsAgree /\ OneNamespace
=============================================================================
