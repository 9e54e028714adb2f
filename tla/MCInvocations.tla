--------------------------- MODULE MCInvocations ----------------------------
(***************************************************************************)
(* What a caller of the host lets a guest program do, component by          *)
(* component: the invocation that publishes one file, and the run of a      *)
(* command in a VM of its own.                                              *)
(***************************************************************************)
EXTENDS Integers, Sequences, FiniteSets, TLC, CapabilityInvocation, ScopedRunner

CONSTANTS v, w, a, b   \* the invocations and their contexts, as model values

VARIABLE part      \* the component that this behaviour is about
-----------------------------------------------------------------------------
\* Two invocations of one file: by one writer context, with ids of their own or
\* the same id, by two writer contexts, and by a writer and a reader.
Both(x, y) == (v :> x) @@ (w :> y)
Profiles(x, y) == (a :> x) @@ (b :> y)

Asked(contexts, ids, operations, profiles, exists) ==
  [contextOf |-> contexts, id |-> ids, operations |-> operations,
   profileOf |-> profiles, exists |-> exists]

Writers == Profiles("exact-writer", "exact-writer")

CapabilitySetups ==
  {Asked(Both(a, a), Both(1, 2), Both({"create", "write"}, {"write", "truncate"}), Writers, e)
     : e \in BOOLEAN}
  \cup
  {Asked(Both(a, a), Both(1, 1), Both({"write"}, {"write"}), Writers, TRUE),
   Asked(Both(a, b), Both(1, 1), Both({"create"}, {"create"}), Writers, FALSE),
   Asked(Both(a, b), Both(1, 1), Both({"write"}, {"write"}),
          Profiles("exact-writer", "exact-reader"), TRUE)}
\* What an invocation and a context do depends on the setup alone, not on which
\* of the two it is.
CallerSymmetry == Permutations({v, w}) \cup Permutations({a, b})
-----------------------------------------------------------------------------
(* The documents of the scoped runners, with limits of a few units.         *)

MCMaximum   == [cpu |-> 2, memory |-> 4, pids |-> 2, storage |-> 2, output |-> 2, wall |-> 2]
MCKnown     == [files |-> {"bounded-output", "wall-time"}, tree |-> {"no-fork"}]
MCActive    == {"bounded-output"}
MCVariables == {"HOME"}
MCShells    == {"/bin/sh"}

Below(name)    == [at |-> "below", name |-> name, slash |-> FALSE, canonical |-> TRUE]
Program(name)  == [at |-> "elsewhere", name |-> name, slash |-> FALSE, canonical |-> TRUE]
SourceFile     == [regular |-> TRUE, real |-> "file"]
Directory(d)   == [absolute |-> TRUE, resolved |-> d]
Denied         == [d \in Domains |-> "none"]
WriteOf(f, o)  == [guest |-> Below(f), operations |-> o]

FilesMay ==
  [form |-> "exact", executables |-> {Program("/bin/cc"), Program("/bin/sh")},
   descendants |-> {Program("/bin/as")}, shell |-> FALSE, directories |-> {Below("work")},
   sources |-> {SourceFile}, reads |-> {Below("source")}, writes |-> {Below("x"), Below("y")},
   names |-> {"HOME"}, limits |-> MCMaximum, guarantees |-> {"bounded-output", "wall-time"}]

FilesAsks ==
  [form |-> "exact", id |-> [wellFormed |-> TRUE, text |-> "id"], executable |-> Program("/bin/cc"),
   mode |-> "direct", directory |-> Below("work"), domains |-> Denied,
   reads |-> <<[source |-> SourceFile, guest |-> Below("source"), operations |-> {"read"}]>>,
   writes |-> <<WriteOf("x", {"write", "truncate"}), WriteOf("y", {"write", "truncate"})>>,
   environment |-> [n \in {"HOME"} |-> "/data"], descendants |-> "deny", children |-> {},
   limits |-> [MCMaximum EXCEPT !.output = 1, !.cpu = 1, !.storage = 1], guarantees |-> {"bounded-output"}]

TreeMay ==
  [form |-> "exact", executables |-> {Program("/bin/cc")}, directories |-> {Below("source")},
   repositories |-> {Directory("/repo")},
   guests |-> [repository |-> {Below("source")}, cache |-> {Below("x")}, temp |-> {Below("y")}],
   limits |-> [cpu |-> 2, memory |-> 4, children |-> 1, output |-> 1, wall |-> 2],
   guarantees |-> {"no-fork"}]

Root(d, p) == [host |-> Directory(d), guest |-> Below(p), identity |-> "1:2:3"]

TreeAsks ==
  [form |-> "exact", id |-> [wellFormed |-> TRUE, text |-> "id"], executable |-> Program("/bin/cc"),
   directory |-> Below("source"), domains |-> Denied,
   roots |-> [repository |-> Root("/repo", "source"), cache |-> Root("/c", "x"), temp |-> Root("/t", "y")],
   limits |-> [TreeMay.limits EXCEPT !.children = 0], guarantees |-> {}]

FilesJob == [profile |-> "files", request |-> FilesAsks, ceiling |-> FilesMay,
             used |-> FALSE, aborted |-> FALSE]
TreeJob  == [FilesJob EXCEPT !.profile = "tree", !.request = TreeAsks, !.ceiling = TreeMay]

Asking(q)  == [FilesJob EXCEPT !.request = q]
Growing(q) == [TreeJob EXCEPT !.request = q]

\* Requests and ceilings that one check alone refuses.
RefusedJobs ==
  { [FilesJob EXCEPT !.used = TRUE],
    [FilesJob EXCEPT !.ceiling.reads = {Below("source"), Below("x")}],
    [FilesJob EXCEPT !.ceiling.executables = {}],
    Asking([FilesAsks EXCEPT !.executable = [@ EXCEPT !.slash = TRUE]]),
    Asking([FilesAsks EXCEPT !.mode = "shell", !.executable = Program("/bin/sh")]),
    Asking([FilesAsks EXCEPT !.directory = [@ EXCEPT !.canonical = FALSE]]),
    Asking([FilesAsks EXCEPT !.domains["network"] = "all"]),
    Asking([FilesAsks EXCEPT !.writes = <<WriteOf("x", {"write"}), WriteOf("x", {"truncate"})>>]),
    Asking([FilesAsks EXCEPT !.writes[1].operations = {"write", "unlink"}]),
    Asking([FilesAsks EXCEPT !.children = {Program("/bin/as")}]),
    Asking([FilesAsks EXCEPT !.descendants = "allow-list", !.children = {Program("/bin/ld")}]),
    Asking([FilesAsks EXCEPT !.limits.memory = 3]),
    Asking([FilesAsks EXCEPT !.limits.storage = 3]),
    Asking([FilesAsks EXCEPT !.guarantees = {"wall-time"}]),
    Growing([TreeAsks EXCEPT !.roots["repository"].host.resolved = "/home"]),
    Growing([TreeAsks EXCEPT !.roots["repository"].guest = [Below("") EXCEPT !.at = "data"]]),
    Growing([TreeAsks EXCEPT !.limits.children = 2]) }

\* A files run; one with one file that it appends to and truncates; one that may
\* not truncate its file, whose caller has aborted already; a tree run; and what
\* is refused.
AppendJob == Asking([FilesAsks EXCEPT !.writes = <<WriteOf("x", {"write", "truncate"})>>, !.reads = <<>>])

MCJobs ==
  { FilesJob, AppendJob,
    [Asking([FilesAsks EXCEPT !.writes = <<WriteOf("x", {"write"})>>, !.limits.storage = 1])
       EXCEPT !.aborted = TRUE],
    TreeJob } \cup RefusedJobs

MCMaxPosition == [j \in MCJobs |-> IF j = AppendJob THEN 2 ELSE 0]

\* What becomes of its files is the question of the job that appends: the caller
\* and the clocks leave it alone, and it writes no output.
Quiet == ~run.cancelled /\ ~run.timedOut /\ cpu = 0 /\ output.accepted = 0
-----------------------------------------------------------------------------
(* One component moves in a behaviour; the others wait in an initial state. *)

CWaits == Init /\ setup.id = Both(1, 2) /\ setup.exists
RWaits == RunnerInit /\ job = FilesJob

HostInit ==
  \/ part = "cap" /\ Init /\ RWaits
  \/ part = "run" /\ RunnerInit /\ CWaits

CStep == part = "cap" /\ Next /\ UNCHANGED <<part, runnerVars>>
RStep == part = "run" /\ RunnerNext /\ UNCHANGED <<part, vars>> /\ (job = AppendJob => Quiet')

HostNext == CStep \/ RStep

hostVars == <<part, vars, runnerVars>>

HostSpec == HostInit /\ [][HostNext]_hostVars
=============================================================================
