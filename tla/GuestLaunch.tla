----------------------------- MODULE GuestLaunch -----------------------------
(***************************************************************************)
(* How sandboxd's exec worker launches, watches and settles one exec       *)
(* (src/guest/src/sandboxd/main.zig, exec_guard.zig, payload_privileges.zig *)
(* and resource_observation.zig).  Three actors: the worker thread; the     *)
(* child it forks, which waits at the start gate, confines itself, reports  *)
(* over the setup gate and becomes the payload; and the payload's           *)
(* descendants.  The kernel's cgroup, its counters and the pinned exec      *)
(* guard outlive all three.  Of output and stdin (OutputFlow, StdinFlow)    *)
(* there is only what holds the worker up: a write of stdin that blocks.    *)
(*                                                                          *)
(* "Starved" is the daemon out of file descriptors: every open of a control *)
(* file fails while it lasts, rmdir and unlink still work.                  *)
(***************************************************************************)
EXTENDS Integers, Sequences

CONSTANTS Confs,      \* exec requests: records of the booleans Asked lists
          CpuLimit,   \* limits.cpu_time_ms; cpu is counted up to it
          MaxFaults   \* how often a control file or the port fails by itself

Asked == {"limits", "deny", "guarded", "isolated", "trees", "noFork", "stdin"}

ASSUME LaunchAssumption ==
  /\ Confs \subseteq [Asked -> BOOLEAN]
  /\ CpuLimit \in Nat /\ MaxFaults \in Nat

VARIABLES conf,      \* the request
          worker,    \* where execWorker is
          err,       \* the error it unwinds with, or "none"
          child,     \* the forked process
          todo,      \* confinement steps the child has yet to take
          confined,  \* those it has taken
          desc,      \* whether a descendant of the payload lives
          holds,     \* whether that descendant holds the output pipes
          gate,      \* start gate: "none", "shut", "open" or "eof"
          report,    \* setup gate: "none" or the child's ExecSetupStatus
          group,     \* the cgroup: "none", "made", "removed"
          member,    \* whether the child was moved into it
          doomed,    \* members a delivered cgroup.kill is about to end
          guard,     \* the BPF guard: "none", "pinned", "unpinned"
          ran,       \* file names the exec's processes have been started by
          kernel,    \* the cgroup's counters: [cpu, memory, pids]
          seen,      \* the worker's ResourceGroup fields and tree_killed
          usage,     \* resource_usage, or none yet
          answers,   \* what went to the host for this exec
          starved,   \* no descriptor is left in the daemon
          faults,    \* failures so far
          past       \* history: [missed, drained, killLost]

vars == <<conf, worker, err, child, todo, confined, desc, holds, gate, report,
          group, member, doomed, guard, ran, kernel, seen, usage, answers,
          starved, faults, past>>

process  == <<child, todo, confined, report>>
observer == <<seen, past>>
fixed    == <<conf, answers, starved>>

Files == {"admitted", "alias"}   \* alias: the admitted inode by another name

NeedsGroup == conf.limits \/ conf.deny \/ conf.guarded
NeedsSetup == conf.isolated \/ conf.guarded \/ conf.trees \/ conf.noFork
----------------------------------------------------------------------------
(* What the child does between the start gate and the exec, in order. *)

When(b, step) == IF b THEN <<step>> ELSE <<>>

Namespaces   == When(conf.isolated, "namespaces")
SealedRoot   == When(conf.guarded, "sealed")
Ruleset      == When(conf.guarded \/ conf.trees, "ruleset")
Executables  == When(conf.guarded, "executables")
Interpreters == When(conf.guarded, "interpreters")
Trees        == When(conf.trees, "trees")
Restricted   == When(conf.guarded \/ conf.trees, "restricted")
NoPrivileges == When(conf.guarded \/ conf.noFork, "unprivileged")
Filter       == When(conf.guarded /\ ~conf.noFork, "filter")
NoForkFilter == When(conf.noFork, "noForkFilter")

Steps == Namespaces \o SealedRoot \o Ruleset \o Executables \o Interpreters \o Trees
           \o Restricted \o NoPrivileges \o Filter \o NoForkFilter

Required == {Steps[i] : i \in DOMAIN Steps}

Failure(step) == IF step = "namespaces" THEN "namespace_failed" ELSE "policy_failed"

Live     == child \in {"gate", "setup", "ready", "payload"}
Members  == (IF member /\ Live THEN {"child"} ELSE {})
              \cup (IF desc /\ NeedsGroup THEN {"desc"} ELSE {})
Launched == child = "payload"
Fault    == faults < MaxFaults /\ faults' = faults + 1
MayFail  == (starved /\ faults' = faults) \/ (~starved /\ Fault)

TypeOK ==
  /\ conf \in Confs
  /\ worker \in {"prepare", "create", "guard", "fork", "release", "refuse", "await", "loop",
                 "stdin", "settle", "drain", "final", "close", "send", "done", "crashed"}
  /\ child \in {"unborn", "gate", "setup", "ready", "payload", "zombie", "reaped"}
  /\ gate \in {"none", "shut", "open", "eof"}
  /\ report \in {"none", "ready", "namespace_failed", "policy_failed"}
  /\ group \in {"none", "made", "removed"}
  /\ guard \in {"none", "pinned", "unpinned"}
  /\ desc \in BOOLEAN /\ holds \in BOOLEAN /\ member \in BOOLEAN
  /\ doomed \subseteq {"child", "desc"}
  /\ ran \subseteq Files
  /\ kernel.cpu \in 0..CpuLimit
  /\ faults \in 0..MaxFaults

Init ==
  /\ conf \in Confs
  /\ worker = "prepare" /\ err = "none"
  /\ child = "unborn" /\ todo = <<>> /\ confined = {}
  /\ desc = FALSE /\ holds = FALSE
  /\ gate = "none" /\ report = "none"
  /\ group = "none" /\ member = FALSE /\ doomed = {}
  /\ guard = "none" /\ ran = {}
  /\ kernel = [cpu |-> 0, memory |-> FALSE, pids |-> FALSE]
  /\ seen = [exhausted |-> "none", denied |-> FALSE, gap |-> FALSE,
             cpu |-> -1, killed |-> FALSE, status |-> FALSE]
  /\ usage = <<>> /\ answers = <<>>
  /\ starved = FALSE /\ faults = 0
  /\ past = [missed |-> FALSE, drained |-> FALSE, killLost |-> FALSE]
----------------------------------------------------------------------------
(* Before the fork. *)

\* Leaving runExecSession with an error: the defers settle a group that exists.
Unwind(code) ==
  /\ err' = code
  /\ worker' = IF group = "made" /\ usage = <<>> THEN "settle"
               ELSE IF usage # <<>> THEN "close" ELSE "send"

\* argv and the environment; an entry without '=' is refused.
Prepares ==
  /\ worker = "prepare"
  /\ \/ worker' = "create" /\ UNCHANGED <<err, faults>>
     \/ Fault /\ Unwind("exec_failed")
  /\ UNCHANGED <<process, desc, holds, gate, group, member, doomed, guard, ran,
                 kernel, observer, usage, fixed>>

Creates ==
  /\ worker = "create"
  /\ \/ ~NeedsGroup /\ worker' = "guard" /\ UNCHANGED <<group, err, faults>>
     \/ NeedsGroup /\ ~starved /\ group' = "made" /\ worker' = "guard"
        /\ UNCHANGED <<err, faults>>
     \/ NeedsGroup /\ MayFail /\ group' = group
        /\ Unwind("resource_controller_unavailable")
  /\ UNCHANGED <<process, desc, holds, gate, member, doomed, guard, ran, kernel,
                 observer, usage, fixed>>

InstallsGuard ==
  /\ worker = "guard"
  /\ \/ ~conf.guarded /\ worker' = "fork" /\ UNCHANGED <<guard, err, faults>>
     \/ conf.guarded /\ ~starved /\ guard' = "pinned" /\ worker' = "fork"
        /\ UNCHANGED <<err, faults>>
     \/ conf.guarded /\ MayFail /\ guard' = guard
        /\ Unwind("capability_policy_unavailable")
  /\ UNCHANGED group
  /\ UNCHANGED <<process, desc, holds, gate, member, doomed, ran, kernel,
                 observer, usage, fixed>>

Forks ==
  /\ worker = "fork"
  /\ \/ /\ ~starved
        /\ gate' = IF NeedsGroup THEN "shut" ELSE "none"
        /\ child' = IF NeedsGroup THEN "gate" ELSE "setup"
        /\ todo' = Steps
        /\ worker' = "release"
        /\ UNCHANGED <<err, faults, group>>
     \/ MayFail /\ group' = group /\ Unwind("exec_failed")
        /\ UNCHANGED <<gate, child, todo>>
  /\ UNCHANGED <<confined, report, desc, holds, member, doomed, guard, ran,
                 kernel, observer, usage, fixed>>
----------------------------------------------------------------------------
(* The gates. *)

\* releaseResourceStartGate: nobody is let through before it is in the group.
Releases ==
  /\ worker = "release"
  /\ UNCHANGED group
  /\ \/ ~NeedsGroup /\ worker' = "await" /\ UNCHANGED <<gate, member, err, faults>>
     \/ NeedsGroup /\ ~starved /\ Live
        /\ member' = TRUE /\ gate' = "open" /\ worker' = "await"
        /\ UNCHANGED <<err, faults>>
     \/ NeedsGroup /\ MayFail
        /\ gate' = "eof" /\ worker' = "refuse" /\ UNCHANGED <<member, err>>
     \/ NeedsGroup /\ child = "zombie"       \* the pipe has no reader left
        /\ gate' = "eof" /\ Unwind("resource_controller_unavailable")
        /\ UNCHANGED <<member, faults>>
  /\ UNCHANGED <<process, desc, holds, doomed, guard, ran, kernel, observer,
                 usage, fixed>>

\* kill and waitpid of a child that is not launched or no longer wanted
KillsChild == child' = "reaped" /\ doomed' = doomed \ {"child"}

Refuses ==
  /\ worker = "refuse"
  /\ KillsChild
  /\ group' = group /\ Unwind("resource_controller_unavailable")
  /\ UNCHANGED <<todo, confined, report, desc, holds, gate, member, guard, ran,
                 kernel, observer, usage, faults, fixed>>

\* awaitExecSetup reads one byte, or the end when the child is gone.
AwaitsSetup ==
  /\ worker = "await"
  /\ group' = group
  /\ \/ (~NeedsSetup \/ report = "ready") /\ worker' = "loop"
        /\ UNCHANGED <<child, doomed, err>>
     \/ /\ NeedsSetup /\ report # "ready"
        /\ report # "none" \/ child = "zombie"
        /\ KillsChild
        /\ Unwind(IF report = "namespace_failed" THEN "namespace_isolation_unavailable"
                  ELSE "capability_policy_unavailable")
  /\ UNCHANGED <<todo, confined, report, desc, holds, gate, member, guard, ran,
                 kernel, observer, usage, faults, fixed>>

world == <<desc, holds, group, guard, kernel, observer, usage, faults, fixed>>

\* a bug: the read's length is not looked at, so the end of the pipe lets through
PassesAnyEnd ==
  /\ child = "gate" /\ "child" \notin doomed
  /\ gate \in {"open", "eof"}
  /\ child' = "setup"
  /\ UNCHANGED <<worker, err, todo, confined, report, gate, member, doomed, ran, world>>

\* awaitResourceStartGate in the child: an end without a byte is a refusal.
PassesGate ==
  /\ child = "gate" /\ "child" \notin doomed
  /\ gate \in {"open", "eof"}
  /\ child' = IF gate = "open" THEN "setup" ELSE "zombie"
  /\ UNCHANGED <<worker, err, todo, confined, report, gate, member, doomed, ran, world>>

ConfinesItself ==
  /\ child = "setup" /\ todo # <<>> /\ "child" \notin doomed
  /\ \/ confined' = confined \cup {Head(todo)} /\ todo' = Tail(todo)
        /\ UNCHANGED <<child, report>>
     \/ report' = (IF NeedsSetup THEN Failure(Head(todo)) ELSE "none")
        /\ child' = "zombie" /\ UNCHANGED <<confined, todo>>
  /\ UNCHANGED <<worker, err, gate, member, doomed, ran, world>>

ReportsReady ==
  /\ child = "setup" /\ todo = <<>> /\ "child" \notin doomed
  /\ report' = IF NeedsSetup THEN "ready" ELSE "none"
  /\ child' = "ready"
  /\ UNCHANGED <<worker, err, todo, confined, gate, member, doomed, ran, world>>

\* The guard's program: within its cgroup only admitted names may be executed.
Admits(file) == guard = "pinned" => file = "admitted"

\* close_range, chdir and execvpe; each may fail and exit instead.
BecomesPayload ==
  /\ child = "ready" /\ "child" \notin doomed
  /\ \/ \E f \in Files : Admits(f) /\ ran' = ran \cup {f} /\ child' = "payload"
     \/ child' = "zombie" /\ UNCHANGED ran
  /\ UNCHANGED <<worker, err, todo, confined, report, gate, member, doomed, world>>
----------------------------------------------------------------------------
(* The payload, its descendant and the kernel. *)

quiet == <<worker, err, todo, confined, gate, report, group, guard, observer,
           usage, fixed>>

MaxPids == IF conf.deny /\ ~conf.trees THEN 1 ELSE 2   \* the one here is 2, not 1024

PayloadForks ==
  /\ Launched /\ "child" \notin doomed /\ ~desc /\ ~conf.noFork
  /\ IF NeedsGroup /\ MaxPids = 1
     THEN kernel' = [kernel EXCEPT !.pids = TRUE] /\ UNCHANGED <<desc, holds>>
     ELSE desc' = TRUE /\ holds' \in BOOLEAN /\ UNCHANGED kernel
  /\ UNCHANGED <<child, member, doomed, ran, faults, quiet>>

ForksTooMany ==
  /\ Launched /\ "child" \notin doomed /\ desc /\ NeedsGroup /\ conf.limits
  /\ ~kernel.pids
  /\ kernel' = [kernel EXCEPT !.pids = TRUE]
  /\ UNCHANGED <<child, desc, holds, member, doomed, ran, faults, quiet>>

\* Members, those a signal is about to end included, use up CPU.
UsesCpu ==
  /\ Members # {} /\ child # "gate" /\ kernel.cpu < CpuLimit
  /\ kernel' = [kernel EXCEPT !.cpu = @ + 1]
  /\ UNCHANGED <<child, desc, holds, member, doomed, ran, faults, quiet>>

HitsMemoryCeiling ==
  /\ Launched /\ member /\ conf.limits /\ ~kernel.memory /\ "child" \notin doomed
  /\ kernel' = [kernel EXCEPT !.memory = TRUE]
  /\ child' \in {child, "zombie"}
  /\ UNCHANGED <<desc, holds, member, doomed, ran, faults, quiet>>

\* A process of the exec starts a program.
StartsProgram(f) ==
  /\ \/ Launched /\ "child" \notin doomed
     \/ desc /\ "desc" \notin doomed
  /\ Admits(f) /\ ran' = ran \cup {f}
  /\ UNCHANGED <<child, desc, holds, member, doomed, kernel, faults, quiet>>

PayloadExits ==
  /\ Launched
  /\ child' = "zombie" /\ doomed' = doomed \ {"child"}
  /\ UNCHANGED <<desc, holds, member, ran, kernel, faults, quiet>>

DescendantExits ==
  /\ desc /\ "desc" \notin doomed
  /\ desc' = FALSE /\ holds' = FALSE
  /\ UNCHANGED <<child, member, doomed, ran, kernel, faults, quiet>>

\* SIGKILL is delivered to a member of the group.
Dies ==
  /\ \/ "child" \in doomed /\ child' = "zombie" /\ UNCHANGED <<desc, holds>>
        /\ doomed' = doomed \ {"child"}
     \/ "desc" \in doomed /\ desc' = FALSE /\ holds' = FALSE
        /\ doomed' = doomed \ {"desc"} /\ UNCHANGED child
  /\ UNCHANGED <<member, ran, kernel, faults, quiet>>

\* The guest's OOM killer picks the child, wherever it is.
OutOfMemory ==
  /\ Live /\ "child" \notin doomed /\ Fault /\ child' = "zombie"
  /\ UNCHANGED <<desc, holds, doomed, member, ran, kernel, quiet>>

Starves ==
  /\ \/ ~starved /\ Fault /\ starved' = TRUE
     \/ starved /\ starved' = FALSE /\ UNCHANGED faults
  /\ UNCHANGED <<conf, answers, worker, err, process, desc, holds, gate, group,
                 member, doomed, guard, ran, kernel, observer, usage>>
----------------------------------------------------------------------------
(* Observation.  observe() reads pids, then memory, then cpu, then the memory *)
(* peak; what was read before a failing read still counts as exhaustion.      *)

Reads(upTo) == CASE upTo = 0 -> {}
                 [] upTo = 1 -> {"pids"}
                 [] upTo = 2 -> {"pids", "memory"}
                 [] OTHER    -> {"pids", "memory", "cpu"}

\* a bug: CPU counts as exhausted only once it exceeds the limit
VerdictPastLimit(upTo) ==
  IF conf.limits /\ "memory" \in Reads(upTo) /\ kernel.memory THEN "memory"
  ELSE IF conf.limits /\ "cpu" \in Reads(upTo) /\ kernel.cpu > CpuLimit THEN "cpu"
  ELSE IF ~conf.deny /\ "pids" \in Reads(upTo) /\ kernel.pids THEN "pids"
  ELSE "none"

Verdict(upTo) ==
  IF conf.limits /\ "memory" \in Reads(upTo) /\ kernel.memory THEN "memory"
  ELSE IF conf.limits /\ "cpu" \in Reads(upTo) /\ kernel.cpu >= CpuLimit THEN "cpu"
  ELSE IF ~conf.deny /\ "pids" \in Reads(upTo) /\ kernel.pids THEN "pids"
  ELSE "none"

Recorded(upTo) ==
  [seen EXCEPT
     !.exhausted = IF @ = "none" THEN Verdict(upTo) ELSE @,
     !.denied    = @ \/ (conf.deny /\ "pids" \in Reads(upTo) /\ kernel.pids)]

Observed == [Recorded(3) EXCEPT !.cpu = IF conf.limits THEN kernel.cpu ELSE 0]

\* A later valid sample does not repair a gap.
Lost(upTo) == [Recorded(upTo) EXCEPT !.gap = TRUE]

LastRead == IF conf.limits THEN 3 ELSE 1

\* The two outcomes of pollExhaustion, applied to the worker's fields s.
Polls(s) ==
  \/ ~starved /\ s = Observed /\ faults' = faults /\ past'.missed = past.missed
  \/ \E upTo \in 0..LastRead :
       /\ starved => upTo = 0
       /\ MayFail /\ s = Lost(upTo) /\ past'.missed = TRUE

Triggered(s) == s.gap \/ s.exhausted # "none" \/ s.denied

\* killAll swallows a control file it cannot write.
KillsAll == IF starved THEN doomed' = doomed ELSE doomed' = Members
KillLost == starved /\ Members # {}
----------------------------------------------------------------------------
(* The worker's loop. *)

PollsGroup ==
  /\ worker = "loop" /\ group = "made" /\ ~seen.killed
  /\ \E s \in {Observed} \cup {Lost(n) : n \in 0..LastRead} :
       /\ past' = [past EXCEPT !.missed = @ \/ s # Observed,
                               !.killLost = @ \/ (Triggered(s) /\ KillLost)]
       /\ Polls(s)
       /\ seen' = [s EXCEPT !.killed = Triggered(s)]
       /\ IF Triggered(s) THEN KillsAll ELSE UNCHANGED doomed
  /\ UNCHANGED <<worker, err, process, desc, holds, gate, group, member, guard,
                 ran, kernel, usage, fixed>>

ReapsChild ==
  /\ worker = "loop" /\ child = "zombie"
  /\ child' = "reaped"
  /\ seen' = [seen EXCEPT !.status = TRUE, !.killed = @ \/ group = "made"]
  /\ IF group = "made" THEN KillsAll ELSE UNCHANGED doomed
  /\ past' = [past EXCEPT !.killLost = @ \/ (group = "made" /\ KillLost)]
  /\ UNCHANGED <<worker, err, todo, confined, report, desc, holds, gate, group,
                 member, guard, ran, kernel, usage, faults, fixed>>

Reader == Live \/ desc

\* The pipe is a blocking one: a chunk that does not fit is written for as long
\* as its reader takes, and the group is not polled meanwhile.
FeedsStdin ==
  /\ worker = "loop" /\ conf.stdin /\ Reader
  /\ worker' = "stdin"
  /\ UNCHANGED <<err, process, desc, holds, gate, group, member, doomed, guard,
                 ran, kernel, observer, usage, faults, fixed>>

\* The reader has read or closed its end, or is gone: the write's error is
\* swallowed.
StdinTaken ==
  /\ worker = "stdin"
  /\ worker' = "loop"
  /\ UNCHANGED <<err, process, desc, holds, gate, group, member, doomed, guard,
                 ran, kernel, observer, usage, faults, fixed>>

\* The outputs are closed and the child reaped: killAll, then settle.
LoopEnds ==
  /\ worker = "loop" /\ seen.status /\ ~holds
  /\ worker' = IF group = "made" THEN "settle" ELSE "send"
  /\ IF group = "made" THEN KillsAll ELSE UNCHANGED doomed
  /\ UNCHANGED <<err, process, desc, holds, gate, group, member, guard, ran,
                 kernel, observer, usage, faults, fixed>>

\* The errdefer kills and waits for a pid.  When the loop has reaped it already,
\* waitpid's ECHILD is `unreachable`: the daemon may end there, or go on.
WaitsAgain(code) ==
  \/ worker' = "crashed" /\ err' = err /\ group' = group
  \/ group' = group /\ Unwind(code)

LoopFails ==
  /\ worker = "loop" /\ Fault
  /\ IF seen.status THEN WaitsAgain("exec_failed") /\ UNCHANGED <<child, doomed>>
     ELSE KillsChild /\ group' = group /\ Unwind("exec_failed")
  /\ UNCHANGED <<todo, confined, report, desc, holds, gate, member, guard, ran,
                 kernel, observer, usage, fixed>>
----------------------------------------------------------------------------
(* settle: observe and kill, drain, observe again, remove the group. *)

after == <<err, process, desc, holds, gate, member, guard, ran, kernel>>

SettleKills ==
  /\ worker = "settle"
  /\ \E s \in {Observed} \cup {Lost(n) : n \in 0..LastRead} :
       /\ past' = [past EXCEPT !.missed = @ \/ s # Observed,
                               !.killLost = @ \/ KillLost]
       /\ Polls(s)
       /\ seen' = s
       /\ KillsAll
  /\ worker' = "drain"
  /\ UNCHANGED <<after, group, usage, fixed>>

\* Until cgroup.procs is empty, unreadable, or 100 times a millisecond passed.
Drains ==
  /\ worker = "drain"
  /\ past' = [past EXCEPT !.drained = Members = {} /\ ~starved]
  /\ worker' = "final"
  /\ UNCHANGED <<after, group, doomed, seen, usage, faults, fixed>>

\* rmdir succeeds on a group without live members.
Settled(s, removed) ==
  [cpu |-> IF s.gap THEN -1 ELSE s.cpu, gap |-> s.gap, exhausted |-> s.exhausted,
   denied |-> s.denied, removed |-> removed]

SettleEnds ==
  /\ worker = "final"
  /\ \E s \in {Observed} \cup {Lost(n) : n \in 0..LastRead}, agrees \in BOOLEAN :
       LET crosscheck == conf.noFork /\ err = "none"
           bad == crosscheck /\ (s.gap \/ ~conf.limits \/ ~agrees)
           t == IF bad THEN [s EXCEPT !.gap = TRUE] ELSE s
       IN  /\ past' = [past EXCEPT !.missed = @ \/ s # Observed]
           /\ Polls(s)
           /\ seen' = t
           /\ usage' = <<Settled(t, Members = {})>>
  /\ group' = IF Members = {} THEN "removed" ELSE group
  /\ worker' = IF err = "none" THEN "send" ELSE "close"
  /\ UNCHANGED <<after, doomed, fixed>>

Answer == IF err = "none" THEN [kind |-> "response", usage |-> usage]
          ELSE [kind |-> err, usage |-> <<>>]

Sends ==
  /\ worker = "send"
  /\ \/ answers' = Append(answers, Answer)
        /\ worker' = (IF err = "none" THEN "close" ELSE "done")
        /\ UNCHANGED <<err, faults, group>>
     \/ Fault /\ answers' = answers
        /\ IF err = "none" THEN WaitsAgain("exec_failed")
           ELSE worker' = "done" /\ UNCHANGED <<err, group>>
  /\ UNCHANGED <<process, desc, holds, gate, member, guard, ran, kernel, doomed,
                 conf, starved, observer, usage>>

\* The guard's defer: a guard whose group could not be removed stays pinned.
ClosesGuard ==
  /\ worker = "close"
  /\ guard' = IF guard = "pinned" /\ usage # <<>> /\ usage[1].removed
              THEN "unpinned" ELSE guard
  /\ worker' = IF err = "none" THEN "done" ELSE "send"
  /\ UNCHANGED <<err, process, desc, holds, gate, member, ran, kernel, group,
                 doomed, observer, usage, faults, fixed>>
----------------------------------------------------------------------------
Worker == Prepares \/ Creates \/ InstallsGuard \/ Forks \/ Releases \/ Refuses \/ AwaitsSetup
            \/ PollsGroup \/ ReapsChild \/ LoopEnds \/ SettleKills \/ Drains
            \/ SettleEnds \/ Sends \/ ClosesGuard

Child == PassesGate \/ ConfinesItself \/ ReportsReady \/ BecomesPayload

Next ==
  \/ Prepares \/ Creates \/ InstallsGuard \/ Forks \/ Releases \/ Refuses \/ AwaitsSetup
  \/ PollsGroup \/ FeedsStdin \/ StdinTaken \/ ReapsChild \/ LoopEnds \/ LoopFails \/ SettleKills \/ Drains
  \/ SettleEnds \/ Sends \/ ClosesGuard
  \/ PassesGate \/ ConfinesItself \/ ReportsReady \/ BecomesPayload
  \/ PayloadForks \/ ForksTooMany \/ UsesCpu \/ HitsMemoryCeiling
  \/ PayloadExits \/ DescendantExits \/ Dies \/ OutOfMemory \/ Starves
  \/ \E f \in Files : StartsProgram(f)

\* The worker thread, the child's way to its exec and the kernel's signals run;
\* nothing makes a reader take its stdin, but a pipe without one fails.  A loop
\* that goes round again and again polls at the top of each round.
Fairness ==
  /\ WF_vars(Worker) /\ WF_vars(Child) /\ WF_vars(Dies)
  /\ WF_vars(~Reader /\ StdinTaken) /\ SF_vars(PollsGroup)

Spec == Init /\ [][Next]_vars /\ Fairness
----------------------------------------------------------------------------
\* No payload runs before it is in its group, under its guard and behind every
\* restriction its request asks for: the child stops at a start gate that ends
\* without a byte and the worker lets nobody through it failed to attach.
ConfinedPayload ==
  child = "payload" => /\ Required \subseteq confined
                       /\ NeedsGroup => member /\ group = "made"
                       /\ conf.guarded => guard = "pinned"

\* Under a guard no process of the exec, a descendant that outlived the answer
\* or the daemon included, is ever started by a name that was not admitted.
OnlyAdmittedRun == conf.guarded => "alias" \notin ran

\* Usage that is reported has no gap behind it, and once the group was seen
\* empty it is all the CPU the exec used, not the last running sample.
UsageCoversTheRun ==
  \A i \in DOMAIN answers :
    answers[i].usage # <<>> /\ answers[i].usage[1].cpu # -1 =>
      /\ ~past.missed
      /\ conf.limits /\ past.drained => answers[i].usage[1].cpu = kernel.cpu

Excused == past.killLost \/ worker = "crashed"

\* A payload over a limit is ended, unless the kill itself could not be written
\* or the worker is held up for ever: one that burns its CPU and leaves its stdin
\* unread blocks the thread that would end it.
ExhaustionEndsPayload ==
  []<>(worker # "stdin") =>
    ((Launched /\ conf.limits /\ (kernel.memory \/ kernel.cpu = CpuLimit))
       ~> (~Launched \/ Excused))

\* A payload, its descendants and its reported usage are confined, admitted
\* and accounted as the request asked.
PayloadConfined == TypeOK /\ ConfinedPayload /\ OnlyAdmittedRun /\ UsageCoversTheRun
=============================================================================
