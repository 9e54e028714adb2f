-------------------------- MODULE ScopedAdmission --------------------------
(***************************************************************************)
(* What the two scoped runners accept: the ceiling a context is created    *)
(* with, the request of an invocation, and the comparison of the two.      *)
(* "files" is scoped-runner.ts, "tree" is scoped-tree-runner.ts.           *)
(*                                                                         *)
(* A document is a record of its fields.  A list of names becomes the set  *)
(* of its entries, as uniqueSorted makes it; the lists whose length counts *)
(* (reads and writes) are sequences.  form says whether the document is a  *)
(* plain object with exactly its keys, its schema version and its profile. *)
(***************************************************************************)
EXTENDS Naturals, Sequences, FiniteSets

CONSTANTS
  KnownGuarantees,   \* SCOPED_RUNNER_GUARANTEES, SCOPED_TREE_RUNNER_GUARANTEES by profile
  ActiveGuarantees,  \* those the feature manifest calls active
  VariableNames,     \* well-formed names of environment variables
  Shells,            \* the executables of isShellExecutable, by name
  Maximum,           \* of a limit of the files profile
  MinMemory,         \* 128 MiB, in MiB as every amount of memory here
  WholeMemory        \* the amounts that are a whole number of MiB

\* a plain object with its keys and no other, of the right version and profile
Exact(d) == d.form = "exact"

\* guarantees of the profile, others are unsupported
Guarantees(profile, names) == names \subseteq KnownGuarantees[profile]

FilesLimits == {"cpu", "memory", "pids", "storage", "output", "wall"}
TreeLimits  == {"cpu", "memory", "children", "output", "wall"}
Domains     == {"network", "credentials", "git", "ipc", "devices"}
Roles       == {"repository", "cache", "temp"}

ASSUME AdmissionAssumption ==
  /\ DOMAIN Maximum = FilesLimits /\ \A l \in FilesLimits : Maximum[l] \in Nat
  /\ MinMemory \in Nat \ {0} /\ WholeMemory \subseteq Nat
  /\ DOMAIN KnownGuarantees = {"files", "tree"}

-----------------------------------------------------------------------------
(* Paths.  at says whether a path of the guest is "data", the mount, lies  *)
(* "below" it or "elsewhere"; slash whether it ends with a slash, which    *)
(* path.posix.normalize keeps; canonical whether it is absolute and its    *)
(* own normal form.                                                        *)

GuestDataFile(p)   == p.canonical /\ p.at = "below" /\ ~p.slash
GuestDirectory(p)  == p.canonical /\ p.at \in {"data", "below"}
GuestExecutable(p) == p.canonical /\ ~p.slash

\* canonicalHostFile takes the path of a regular file, not of a link, and makes it
\* the file's real path; hostDirectory takes an absolute path and resolves it, as
\* text.  So several spellings are one file or directory afterwards.
HostFile(h)         == h.regular
RealPath(h)         == h.real
HostDirectory(h)    == h.absolute
ResolveDirectory(h) == h.resolved

\* resourceInteger and memoryBytes, positiveInteger and nonNegativeInteger
FilesLimit(l, n) ==
  /\ n \in Nat \ {0} /\ n <= Maximum[l]
  /\ l = "memory" => n >= MinMemory /\ n \in WholeMemory

TreeLimit(l, n) == n \in Nat /\ (l = "children" \/ n > 0)

-----------------------------------------------------------------------------
(* Ceilings.                                                               *)

\* The ceiling of the files profile, as normalizeCeiling accepts it.
FilesCeiling(c) ==
  /\ Exact(c)
  /\ \A e \in c.executables \cup c.descendants : GuestExecutable(e)
  /\ \A d \in c.directories : GuestDirectory(d)
  /\ \A s \in c.sources : HostFile(s)
  /\ \A p \in c.reads \cup c.writes : GuestDataFile(p)
  /\ c.names \subseteq VariableNames
  /\ DOMAIN c.limits = FilesLimits /\ \A l \in FilesLimits : FilesLimit(l, c.limits[l])
  /\ Guarantees("files", c.guarantees)
  /\ c.executables # {} /\ c.directories # {} /\ c.guarantees # {}
  /\ c.reads \cap c.writes = {}

\* The tree profile takes empty sets, which admit nothing, and has no maxima.
TreeCeiling(c) ==
  /\ Exact(c)
  /\ \A e \in c.executables : GuestExecutable(e)
  /\ \A d \in c.directories : GuestDirectory(d)
  /\ \A h \in c.repositories : HostDirectory(h)
  /\ \A role \in Roles : \A p \in c.guests[role] : GuestDirectory(p)
  /\ DOMAIN c.limits = TreeLimits /\ \A l \in TreeLimits : TreeLimit(l, c.limits[l])
  /\ Guarantees("tree", c.guarantees)

-----------------------------------------------------------------------------
(* Requests.                                                               *)

FilesRead(r)  == r.operations = {"read"} /\ HostFile(r.source) /\ GuestDataFile(r.guest)
FilesWrite(w) ==
  w.operations # {} /\ w.operations \subseteq {"write", "truncate"} /\ GuestDataFile(w.guest)

\* every guest path that a request names, one entry for each mention
GuestPaths(q) == [i \in DOMAIN (q.reads \o q.writes) |-> (q.reads \o q.writes)[i].guest]

Distinct(s) == \A i, j \in DOMAIN s : s[i] = s[j] => i = j

FilesRequest(q) ==
  /\ Exact(q) /\ q.id.wellFormed
  /\ q.mode \in {"direct", "shell"}
  /\ q.domains = [d \in Domains |-> "none"]
  /\ \A i \in DOMAIN q.reads : FilesRead(q.reads[i])
  /\ \A i \in DOMAIN q.writes : FilesWrite(q.writes[i])
  /\ Distinct(GuestPaths(q))
  /\ \A n \in DOMAIN q.environment : n \in VariableNames /\ q.environment[n] # ""
  /\ \A e \in q.children \cup {q.executable} : GuestExecutable(e)
  /\ \/ q.descendants = "deny" /\ q.children = {}
     \/ q.descendants = "allow-list" /\ q.children # {}
  /\ GuestDirectory(q.directory)
  /\ DOMAIN q.limits = FilesLimits /\ \A l \in FilesLimits : FilesLimit(l, q.limits[l])
  /\ Guarantees("files", q.guarantees) /\ q.guarantees # {}

\* A root has an identity that parses; the repository is not /data itself.
TreeRoot(role, root) ==
  /\ root.identity # "malformed" /\ HostDirectory(root.host) /\ GuestDirectory(root.guest)
  /\ role = "repository" => root.guest.at = "below" \/ root.guest.slash

TreeRequest(q) ==
  /\ Exact(q) /\ q.id.text # ""
  /\ q.domains = [d \in Domains |-> "none"]
  /\ GuestExecutable(q.executable) /\ GuestDirectory(q.directory)
  /\ \A role \in Roles : TreeRoot(role, q.roots[role])
  /\ DOMAIN q.limits = TreeLimits /\ \A l \in TreeLimits : TreeLimit(l, q.limits[l])
  /\ Guarantees("tree", q.guarantees)

-----------------------------------------------------------------------------
(* Admission: nothing the request asks for is outside the ceiling.         *)

AdmitsLaunch(q, c) == q.executable \in c.executables /\ q.directory \in c.directories

AdmitsLimits(q, c) == \A l \in DOMAIN q.limits : q.limits[l] <= c.limits[l]

\* The host file and the guest path of a read are compared each on its own.
AdmitsFiles(q, c) ==
  /\ AdmitsLaunch(q, c) /\ AdmitsLimits(q, c)
  /\ q.mode = "shell" => c.shell /\ q.executable.name \in Shells
  /\ \A i \in DOMAIN q.reads : /\ RealPath(q.reads[i].source) \in {RealPath(s) : s \in c.sources}
                               /\ q.reads[i].guest \in c.reads
  /\ \A i \in DOMAIN q.writes : q.writes[i].guest \in c.writes
  /\ DOMAIN q.environment \subseteq c.names
  /\ q.children \subseteq c.descendants
  /\ q.guarantees \subseteq c.guarantees \cap ActiveGuarantees

\* The host directories of cache and temp are the caller's own choice.
AdmitsTree(q, c) ==
  /\ AdmitsLaunch(q, c) /\ AdmitsLimits(q, c)
  /\ ResolveDirectory(q.roots["repository"].host) \in {ResolveDirectory(h) : h \in c.repositories}
  /\ \A role \in Roles : q.roots[role].guest \in c.guests[role]
  /\ q.guarantees \subseteq c.guarantees

\* A context exists, and its invoke() goes on to execute().
AdmitsJob(profile, q, c) ==
  \/ profile = "files" /\ FilesCeiling(c) /\ FilesRequest(q) /\ AdmitsFiles(q, c)
  \/ profile = "tree" /\ TreeCeiling(c) /\ TreeRequest(q) /\ AdmitsTree(q, c)
=============================================================================
