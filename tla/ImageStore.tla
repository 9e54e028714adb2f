----------------------------- MODULE ImageStore -----------------------------
(***************************************************************************)
(* The local image store (host/src/images.ts, with the manifests and asset *)
(* lookups of host/src/assets.ts): object directories named by build id,   *)
(* refs that are symlinks per architecture, and pulls from the built-in    *)
(* registry with its cache.  Commands of several processes share the       *)
(* store; a process may be killed between any two of its file operations.  *)
(*                                                                         *)
(* A source of an image - a directory of assets or a downloaded archive -  *)
(* is [claims, arch, sound, sum, says]: the build id and the architecture  *)
(* its manifest names, whether it passes the checks of an import and has   *)
(* the checksum expected, and the architecture the registry names for it.  *)
(***************************************************************************)
EXTENDS Integers, Sequences

CONSTANTS
    Procs,      \* processes that use the store
    Refs,       \* image references
    HostArch,   \* defaultImageArch
    SourceSets  \* [dirs: directories to import, registry: the versions of the
                \* registry, each [refs, builds]]

Archs == {"aarch64", "x86_64"}

VARIABLES
    sources,    \* the configuration of this behaviour
    objects,    \* build id -> the object directory's manifest and files
    refs,       \* <<ref, arch>> -> build id
    published,  \* the version of the registry its server has
    cache,      \* the registry cache file: [etag, registry], versions
    cmd         \* each process: its command and how far it is

storeVars == <<sources, objects, refs, published, cache, cmd>>

NoCache == [etag |-> 0, registry |-> 0]
NoSource == [claims |-> "none", arch |-> "none", sound |-> FALSE, sum |-> FALSE, says |-> "any"]

\* `want` and `expect` are the ref the command sets and the build it expects
\* there; `registry` is the version the command goes by, `served` the one that
\* was current when the server answered.
Idle == [pc |-> "idle", want |-> <<>>, expect |-> "any", src |-> NoSource,
         cached |-> NoCache, registry |-> 0, served |-> 0]

StoreInit ==
    /\ sources \in SourceSets
    /\ objects = <<>>
    /\ refs = <<>>
    /\ published = 1
    /\ cache = NoCache
    /\ cmd = [p \in Procs |-> Idle]

Other(arch) == CHOOSE a \in Archs : a # arch

\* A target of a map from architectures: the one asked for, or the only one.
Pick(targets, arch) ==
    LET wanted == IF arch = "any" THEN HostArch ELSE arch
    IN  IF wanted \in DOMAIN targets THEN wanted
        ELSE IF Other(wanted) \in DOMAIN targets THEN Other(wanted) ELSE "none"

Targets(map, r) == [a \in {a \in Archs : <<r, a>> \in DOMAIN map} |-> map[r, a]]

\* loadGuestAssets and loadAssetManifest of an object
Loads(b) == b \in DOMAIN objects /\ objects[b].sound
LocalTarget(r, arch) == Pick(Targets(refs, r), arch)

\* A directory with one entry put in or put in place of an older one.
Entered(f, k, v) == [x \in DOMAIN f \cup {k} |-> IF x = k THEN v ELSE f[x]]

Goto(p, pc) == cmd' = [cmd EXCEPT ![p].pc = pc]
Done(p) == cmd' = [cmd EXCEPT ![p] = Idle]

-----------------------------------------------------------------------------
(* Commands. *)

\* image import <dir> --tag r: the tag has the architecture of the manifest.
Import(p, d, r) ==
    /\ cmd[p].pc = "idle"
    /\ cmd' = [cmd EXCEPT ![p] = [Idle EXCEPT !.pc = "import", !.src = d, !.want = <<r, d.arch>>]]
    /\ UNCHANGED <<sources, objects, refs, published, cache>>

\* tagImage of a ref, or of a directory, whose build must be in the store.
TagRef(p, from, r, arch) ==
    LET a == LocalTarget(from, arch)
    IN  /\ cmd[p].pc = "idle" /\ a # "none"
        /\ cmd' = [cmd EXCEPT ![p] = [Idle EXCEPT !.pc = "setRef", !.src.claims = refs[from, a],
                                                    !.want = <<r, IF arch = "any" THEN a ELSE arch>>]]
        /\ UNCHANGED <<sources, objects, refs, published, cache>>

TagDir(p, d, r, arch) ==
    /\ cmd[p].pc = "idle" /\ d.sound
    /\ cmd' = [cmd EXCEPT ![p] = [Idle EXCEPT !.pc = "setRef", !.src = d,
                                                !.want = <<r, IF arch = "any" THEN d.arch ELSE arch>>]]
    /\ UNCHANGED <<sources, objects, refs, published, cache>>

\* ensureImageSelector of a ref that is not there: the cache is read before
\* the request.
Pull(p, r, arch) ==
    /\ cmd[p].pc = "idle" /\ LocalTarget(r, arch) = "none"
    /\ cmd' = [cmd EXCEPT ![p] = [Idle EXCEPT !.pc = "fetch", !.cached = cache, !.want = <<r, arch>>]]
    /\ UNCHANGED <<sources, objects, refs, published, cache>>

-----------------------------------------------------------------------------
(* fetchBuiltinImageRegistry and the archive. *)

Fetched(p, v, served) ==
    cmd' = [cmd EXCEPT ![p].pc = "choose", ![p].registry = v, ![p].served = served]

FetchFails(p) ==
    /\ cmd[p].pc = "fetch"
    /\ IF cmd[p].cached = NoCache THEN Done(p) ELSE Fetched(p, cmd[p].cached.registry, 0)
    /\ UNCHANGED <<sources, objects, refs, published, cache>>

\* If-None-Match carries the etag of the cache that was read.
NotModified(p) ==
    /\ cmd[p].pc = "fetch" /\ cmd[p].cached # NoCache /\ cmd[p].cached.etag = published
    /\ Fetched(p, cmd[p].cached.registry, published)
    /\ UNCHANGED <<sources, objects, refs, published, cache>>

\* parseBuiltinRegistry: every ref names a build of the registry, one that is
\* not of another architecture.
Valid(reg) == \A k \in DOMAIN reg.refs : reg.refs[k] \in DOMAIN reg.builds /\ reg.builds[reg.refs[k]].says \in {"any", k[2]}

\* saveRegistryCache: one rename, whatever another process has put there.
SaveCache(p, v) == cache' = [etag |-> v, registry |-> v]

FetchedNew(p) ==
    /\ cmd[p].pc = "fetch" /\ cmd[p].cached.etag # published
    /\ IF Valid(sources.registry[published])
       THEN SaveCache(p, published) /\ Fetched(p, published, published)
       ELSE Done(p) /\ UNCHANGED cache
    /\ UNCHANGED <<sources, objects, refs, published>>

Publish ==
    /\ published < Len(sources.registry)
    /\ published' = published + 1
    /\ UNCHANGED <<sources, objects, refs, cache, cmd>>

\* resolveRegistrySourceForRef
Choose(p) ==
    LET reg == sources.registry[cmd[p].registry]
        a == Pick(Targets(reg.refs, cmd[p].want[1]), cmd[p].want[2])
    IN  /\ cmd[p].pc = "choose"
        /\ IF a = "none" THEN Done(p)
           ELSE LET b == reg.refs[cmd[p].want[1], a]
                IN  cmd' = [cmd EXCEPT ![p].pc = "download", ![p].want[2] = a, ![p].expect = b,
                                         ![p].src = reg.builds[b]]
        /\ UNCHANGED <<sources, objects, refs, published, cache>>

\* downloadArchive, extraction: an error or a wrong checksum ends the pull.
DownloadFails(p) ==
    /\ cmd[p].pc = "download"
    /\ Done(p)
    /\ UNCHANGED <<sources, objects, refs, published, cache>>

Downloaded(p) ==
    /\ cmd[p].pc = "download" /\ cmd[p].src.sum
    /\ Goto(p, "import")
    /\ UNCHANGED <<sources, objects, refs, published, cache>>

-----------------------------------------------------------------------------
(* importImageFromDirectory *)

\* An object that is there is taken for the build.
Present(p) ==
    /\ cmd[p].pc = "import" /\ cmd[p].src.claims \in DOMAIN objects
    /\ Goto(p, "load")
    /\ UNCHANGED <<sources, objects, refs, published, cache>>

\* The files are copied to a directory of their own.
StageAside(p) == UNCHANGED objects

Stage(p) ==
    /\ cmd[p].pc = "import" /\ cmd[p].src.claims \notin DOMAIN objects
    /\ StageAside(p)
    /\ Goto(p, "staged")
    /\ UNCHANGED <<sources, refs, published, cache>>

StageFails(p) ==
    /\ cmd[p].pc = "staged"
    /\ Done(p)
    /\ UNCHANGED <<sources, objects, refs, published, cache>>

\* The rename: a directory that is there stays (EEXIST, ENOTEMPTY).
Finalize(p) ==
    LET b == cmd[p].src.claims
    IN  /\ cmd[p].pc = "staged" /\ cmd[p].src.sound
        /\ objects' = IF Loads(b) THEN objects
                      ELSE Entered(objects, b, [arch |-> cmd[p].src.arch, sound |-> TRUE])
        /\ Goto(p, "load")
        /\ UNCHANGED <<sources, refs, published, cache>>

\* importImageFromSource and ensureImageSelector compare what was imported
\* with what was asked for.
AsExpected(p) ==
    /\ cmd[p].src.arch = cmd[p].want[2]
    /\ cmd[p].src.says \in {"any", cmd[p].src.arch}
    /\ cmd[p].expect \in {"any", cmd[p].src.claims}

Load(p) ==
    /\ cmd[p].pc = "load"
    /\ IF Loads(cmd[p].src.claims) /\ AsExpected(p) THEN Goto(p, "setRef") ELSE Done(p)
    /\ UNCHANGED <<sources, objects, refs, published, cache>>

-----------------------------------------------------------------------------
(* setImageRef *)

\* a bug: the object's architecture is not compared with the ref's
ObjectIsThere(p) == Loads(cmd[p].src.claims)

Fits(p) ==
    /\ Loads(cmd[p].src.claims)
    /\ objects[cmd[p].src.claims].arch = cmd[p].want[2]

\* writeRefSymlink: the new link is renamed over the old one.
SetRef(p) ==
    /\ cmd[p].pc = "setRef"
    /\ refs' = IF Fits(p) THEN Entered(refs, cmd[p].want, cmd[p].src.claims) ELSE refs
    /\ Done(p)
    /\ UNCHANGED <<sources, objects, published, cache>>

\* A killed process leaves what it staged, under a name nobody looks for.
Kill(p) ==
    /\ cmd[p].pc # "idle"
    /\ Done(p)
    /\ UNCHANGED <<sources, objects, refs, published, cache>>

StoreNext ==
    \/ \E p \in Procs, r \in Refs :
           \/ \E d \in sources.dirs : Import(p, d, r)
           \/ \E d \in sources.dirs, a \in Archs \cup {"any"} : TagDir(p, d, r, a)
           \/ \E from \in Refs, a \in Archs \cup {"any"} : TagRef(p, from, r, a)
           \/ \E a \in Archs \cup {"any"} : Pull(p, r, a)
    \/ \E p \in Procs :
           \/ FetchFails(p) \/ NotModified(p) \/ FetchedNew(p) \/ Choose(p) \/ DownloadFails(p) \/ Downloaded(p)
           \/ Present(p) \/ Stage(p) \/ StageFails(p) \/ Finalize(p) \/ Load(p) \/ SetRef(p) \/ Kill(p)
    \/ Publish

StoreSpec == StoreInit /\ [][StoreNext]_storeVars

-----------------------------------------------------------------------------
(* Properties *)

\* Whatever other processes are importing, and wherever one of them was
\* killed, a ref that was ever set names an object that loads and has the
\* architecture it is asked for under; and every object of the store loads.
StoreStaysUsable ==
    /\ \A k \in DOMAIN refs : Loads(refs[k]) /\ objects[refs[k]].arch = k[2]
    /\ \A b \in DOMAIN objects : Loads(b)
=============================================================================
