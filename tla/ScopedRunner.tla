---------------------------- MODULE ScopedRunner ----------------------------
(***************************************************************************)
(* One invocation of a scoped runner: admission, the VM and the command in *)
(* it, the limits on storage, output and host CPU that the host enforces   *)
(* while it runs, the teardown, and the result that is settled after it.   *)
(* The profile "files" is scoped-runner.ts (an in-memory file system with  *)
(* exact paths); "tree" is scoped-tree-runner.ts (directories of the host, *)
(* pinned by descriptor, vfs/scoped-tree.ts).                              *)
(*                                                                         *)
(* The guest serves one file request at a time and goes on doing so until  *)
(* its VM is gone: a rejected or aborted exec does not stop the command.   *)
(***************************************************************************)
EXTENDS ScopedAdmission

CONSTANTS
  Jobs,         \* what the callers ask of which contexts, see JobType
  MaxPosition   \* for each job, how far the guest appends to a file (bounds the model)

Writes   == {"x", "y"}                        \* granted for writing: files, or cache and temp
Paths    == Writes \cup {"source", "outside"} \* a granted source or repository; anything else
FileOps  == {"lookup", "read", "create", "write", "truncate", "open", "append", "other"}
TreeOps  == {"lookup", "read", "create", "write", "unlink", "rename", "move", "mkdir"}

\* profile; the documents; whether the invocation id has been used in the
\* context; whether the caller has aborted before it calls
JobType(j) ==
  /\ DOMAIN j = {"profile", "request", "ceiling", "used", "aborted"}
  /\ j.profile \in {"files", "tree"} /\ j.used \in BOOLEAN /\ j.aborted \in BOOLEAN
  /\ j.profile = "files" =>
       \A i \in DOMAIN j.request.writes : j.request.writes[i].guest.name \in Writes

ASSUME RunnerAssumption == MaxPosition \in [Jobs -> Nat] /\ \A j \in Jobs : JobType(j)

VARIABLES
  job,       \* the element of Jobs that this behaviour is about
  pc,        \* where execute() is
  vmm,       \* "none" before VM.create, then whether QEMU runs: "down" or "up"
  guest,     \* the command in the guest: "none", "running", "ended"
  run,       \* the locals of execute(): flags, usage and outcome
  lease,     \* the record of the execution registry: [status, verified]
  output,    \* BoundedOutput: [accepted, overflowed]
  storage,   \* WritableStorageBudget: [sizes, exhausted]
  files,     \* lengths of the writable files in the provider
  appender,  \* of each of them, the descriptor by which the guest appends, see RunnerInit
  tree,      \* ScopedTreeProvider and the private roots on disk
  effects,   \* [attempted, denied, observed]: whether there are any
  cpu,       \* host CPU the VMM has used, in samples
  evidence   \* what has been sealed, see SealedRun

runnerVars ==
  <<job, pc, vmm, guest, run, lease, output, storage, files, appender, tree, effects, cpu,
    evidence>>

Files == job.profile = "files"
Tree  == job.profile = "tree"

Limit(l) == job.request.limits[l]

NoEvidence == [sealed |-> FALSE]

RunnerInit ==
  /\ job \in Jobs
  /\ pc = "invoke" /\ vmm = "none" /\ guest = "none"
  /\ run = [cancelled |-> FALSE, timedOut |-> FALSE, aborted |-> FALSE, armed |-> FALSE,
            hostCpu |-> FALSE, sampled |-> 0, cpuLost |-> FALSE, observing |-> FALSE,
            pid |-> FALSE, dispatched |-> FALSE, exit |-> "none", usage |-> "none",
            removed |-> FALSE, admission |-> FALSE, error |-> FALSE, closeError |-> FALSE,
            outcome |-> "transport_failure"]
  /\ lease = [status |-> "none", verified |-> FALSE]
  /\ output = [accepted |-> 0, overflowed |-> FALSE]
  /\ storage = [sizes |-> [f \in Writes |-> 0], exhausted |-> FALSE]
  /\ files = [f \in Writes |-> 0]
  \* its position; whether the file was ever made shorter than that
  /\ appender = [f \in Writes |-> [at |-> 0, cut |-> FALSE]]
  /\ tree = [bound |-> FALSE, open |-> FALSE, private |-> TRUE]
  /\ effects = [attempted |-> FALSE, denied |-> FALSE, observed |-> FALSE]
  /\ cpu = 0
  /\ evidence = NoEvidence

Vm == vmm # "none"    \* VM.create has returned

-----------------------------------------------------------------------------
(* Admission and start.                                                    *)

\* Whether invoke() goes on to execute()
Accepted == AdmitsJob(job.profile, job.request, job.ceiling) /\ ~job.used

\* There is no such context, the request is malformed or widens the ceiling, or
\* its id has been used.
Refuse ==
  /\ pc = "invoke" /\ ~Accepted
  /\ pc' = "done" /\ run' = [run EXCEPT !.outcome = "rejected"]
  /\ UNCHANGED <<job, vmm, guest, lease, output, storage, files, appender, tree, effects, cpu, evidence>>

\* execute() up to VM.create.  The tree profile pins its three roots; the files
\* profile reads its sources, and one that is not the file of the ceiling any
\* more throws before there is a finally clause: the identity stays active.
Begin ==
  /\ pc = "invoke" /\ Accepted
  /\ lease' = [lease EXCEPT !.status = "active"]
  /\ \/ /\ Files /\ pc' = "done"
        /\ run' = [run EXCEPT !.outcome = "rejected"]
        /\ UNCHANGED tree
     \/ /\ pc' = "create"
        /\ run' = [run EXCEPT !.cancelled = job.aborted, !.aborted = job.aborted]
        /\ tree' \in IF Tree THEN {tree, [tree EXCEPT !.bound = TRUE, !.open = TRUE]} ELSE {tree}
  /\ UNCHANGED <<job, vmm, guest, output, storage, files, appender, effects, cpu, evidence>>

\* The identity authenticates events while it is active (requireActive).
Authenticated == lease.status = "active"

\* A day after it was begun it is revoked, by whoever looks at the registry.
Expire ==
  /\ Authenticated
  /\ lease' = [lease EXCEPT !.status = "revoked"]
  /\ UNCHANGED <<job, pc, vmm, guest, run, output, storage, files, appender, tree, effects, cpu, evidence>>

\* The catch clause, in its order, for an error of the kind given.
Thrown(kind, r) ==
  IF kind \in {"admission", "isolation"} THEN [r EXCEPT !.admission = TRUE, !.error = TRUE]
  ELSE [r EXCEPT !.error = TRUE, !.outcome =
    IF Files /\ storage.exhausted THEN "storage_exhausted"
    ELSE IF output.overflowed     THEN "output_overflow"
    ELSE IF Files /\ r.hostCpu    THEN "cpu_exhausted"
    ELSE IF r.cancelled           THEN "cancelled"
    ELSE IF r.timedOut            THEN "timeout"
    ELSE IF r.pid /\ vmm # "up"   THEN "guest_crash"
    ELSE IF ~r.dispatched         THEN "host_controller_failure"
    ELSE "transport_failure"]

Throw(kind) == pc' = "finally" /\ run' = Thrown(kind, run)

\* bindScopedTreeProvider or verifyPinnedIdentities refuses a root; VM.create
\* fails, or bindVm after it; the image lacks a guest feature; vm.start fails,
\* with or without a VMM left behind; QEMU's pid or its CPU accounting is not to
\* be had (files)
Create ==
  /\ pc = "create"
  /\ \/ Tree /\ Throw("admission") /\ UNCHANGED vmm
     \/ (Files \/ tree.bound) /\ Throw("failure") /\ UNCHANGED vmm
     \/ (Files \/ tree.bound) /\ ~Authenticated /\ Throw("failure") /\ vmm' = "down"
     \/ (Files \/ tree.bound) /\ Authenticated /\ pc' = "start" /\ vmm' = "down" /\ UNCHANGED run
  /\ UNCHANGED <<job, guest, lease, output, storage, files, appender, tree, effects, cpu, evidence>>

Start ==
  /\ pc = "start"
  /\ \/ Throw("admission") /\ UNCHANGED vmm
     \/ Throw("failure") /\ vmm' \in {"down", "up"}
     \/ Files /\ Throw("admission") /\ vmm' = "up"
     \/ /\ pc' = "dispatch" /\ vmm' = "up"
        /\ run' = [run EXCEPT !.pid = TRUE, !.armed = TRUE, !.observing = Files]
  /\ UNCHANGED <<job, guest, lease, output, storage, files, appender, tree, effects, cpu, evidence>>

\* The policy and start events, and vm.exec: an aborted signal rejects it before
\* anything is sent.
Dispatch ==
  /\ pc = "dispatch"
  /\ IF ~Authenticated THEN Throw("failure") /\ UNCHANGED guest
     ELSE IF run.aborted
     THEN /\ pc' = "finally" /\ run' = Thrown("failure", [run EXCEPT !.dispatched = TRUE])
          /\ UNCHANGED guest
     ELSE /\ pc' = "running" /\ guest' = "running"
          /\ run' = [run EXCEPT !.dispatched = TRUE]
  /\ UNCHANGED <<job, vmm, lease, output, storage, files, appender, tree, effects, cpu, evidence>>

-----------------------------------------------------------------------------
(* While the VM is up: the guest's file requests and output.               *)

\* The guest reaches the file service while its VM and the host's process are
\* up: its command, and the processes it leaves when its resource group was not
\* removed.
Reaches ==
  /\ vmm = "up" /\ pc \notin {"finally", "crashed"}
  /\ guest = "running" \/ (guest = "ended" /\ ~run.removed)

\* classifyOperation: create is an open that truncates, open one for appending
Operation(op) ==
  CASE op = "create" -> "truncate" [] op \in {"open", "append"} -> "write" [] OTHER -> op

\* the reads and writes maps of execute(): what was granted on a path
Declared(grants, path) == {i \in DOMAIN grants : grants[i].guest.name = path}
Granting(grants, path) == UNION {grants[i].operations : i \in Declared(grants, path)}

Writable(path) == Declared(job.request.writes, path) # {}

\* the before hook of the files profile: which operations policy allows
Allowed(path, op) ==
  \/ op = "lookup" /\ (Writable(path) \/ Declared(job.request.reads, path) # {})
  \/ Operation(op) \in Granting(job.request.reads, path) \cup Granting(job.request.writes, path)

Longer(m, n) == IF m > n THEN m ELSE n

\* Mutant: a write without an offset counts its own bytes only.
BooksLastWrite(length, op, n) ==
  CASE op = "truncate" -> n
    [] op = "create"   -> 0
    [] op = "open"     -> length
    [] op = "write"    -> Longer(length, n + 1)
    [] op = "append"   -> Longer(length, 1)

\* the length that the budget books for an operation at offset, or with size, n;
\* a write through a descriptor that appends has no offset
BookedLength(length, op, n) ==
  CASE op = "truncate" -> n
    [] op = "create"   -> 0
    [] op = "open"     -> length
    [] op = "write"    -> Longer(length, n + 1)
    [] op = "append"   -> length + 1

\* the length that it leads to: such a write is made where the descriptor stands
StoredLength(length, op, n, at) ==
  CASE op = "truncate" -> n
    [] op = "create"   -> 0
    [] op = "open"     -> length
    [] op = "write"    -> Longer(length, n + 1)
    [] op = "append"   -> Longer(length, at + 1)

\* The descriptor stands where the file ended when it was opened, plus what it
\* wrote; a truncation does not move it.  The guest holds one of each file at a
\* time: when it opens another it has closed the first.
Appending(d, length, op, n) ==
  CASE op = "open"                   -> [d EXCEPT !.at = length]
    [] op = "append"                 -> [d EXCEPT !.at = @ + 1]
    [] op \in {"create", "truncate"} -> [d EXCEPT !.cut = @ \/ StoredLength(length, op, n, d.at) < d.at]
    [] OTHER                         -> d

Total(lengths) == lengths["x"] + lengths["y"]

\* what WritableStorageBudget.reserve compares with its limit
Projected(path, next) == Total([storage.sizes EXCEPT ![path] = next])

Changes == {"create", "write", "truncate", "open", "append"}

\* One request, by hook and provider.  An open for appending that also truncates
\* is the one and then the other, as the hook sees it (rpc-service.ts, handleOpen).
FileRequest(path, op, n) ==
  LET next == BookedLength(storage.sizes[path], op, n)
      moved == Appending(appender[path], files[path], op, n)
  IN
  /\ Files /\ Reaches /\ (op \notin {"write", "truncate"} => n = 0)
  /\ \/ ~Authenticated /\ UNCHANGED <<effects, storage, files, appender, run>>
     \/ /\ Authenticated /\ ~Allowed(path, op)
        /\ effects' = [effects EXCEPT !.attempted = TRUE, !.denied = TRUE]
        /\ UNCHANGED <<storage, files, appender, run>>
     \/ /\ Authenticated /\ Allowed(path, op) /\ ~(Writable(path) /\ op \in Changes)
        /\ effects' = [effects EXCEPT !.attempted = TRUE, !.observed = TRUE]
        /\ UNCHANGED <<storage, files, appender, run>>
     \/ /\ Authenticated /\ Allowed(path, op) /\ Writable(path) /\ op \in Changes
        /\ op \in {"open", "append"} => moved.at <= MaxPosition[job]
        /\ IF Projected(path, next) > Limit("storage")
           THEN /\ effects' = [effects EXCEPT !.attempted = TRUE]
                /\ storage' = [storage EXCEPT !.exhausted = TRUE]
                /\ run' = [run EXCEPT !.aborted = TRUE]
                /\ UNCHANGED <<files, appender>>
           ELSE /\ effects' = [effects EXCEPT !.attempted = TRUE, !.observed = TRUE]
                /\ storage' = [storage EXCEPT !.sizes[path] = next]
                /\ files' = [files EXCEPT ![path] = StoredLength(@, op, n, appender[path].at)]
                /\ appender' = [appender EXCEPT ![path] = moved]
                /\ UNCHANGED run
  /\ UNCHANGED <<job, pc, vmm, guest, lease, output, tree, cpu, evidence>>

\* what ScopedTreeProvider decides: nothing in the repository may be changed,
\* a rename or link stays in its directory, and nothing but files is made
TreeGrants(path, op) ==
  op \in {"lookup", "read"} \/ (path \in Writes /\ op \in {"create", "write", "unlink", "rename"})

\* One request to ScopedTreeProvider.  A disposed provider refuses before it
\* decides (ESTALE), and a path in no root has no decision either; a denial is
\* recorded without an attempt, and a grant as attempted and observed at once.
TreeOperation(path, op) ==
  /\ Tree /\ Reaches
  /\ effects' =
       IF ~tree.open \/ path = "outside" \/ ~Authenticated THEN effects
       ELSE IF TreeGrants(path, op) THEN [effects EXCEPT !.attempted = TRUE, !.observed = TRUE]
       ELSE [effects EXCEPT !.denied = TRUE]
  /\ UNCHANGED <<job, pc, vmm, guest, run, lease, output, storage, files, appender, tree, cpu, evidence>>

\* BoundedOutput.accept: what exceeds the limit is cut off and aborts
WriteOutput(n) ==
  LET remaining == Limit("output") - output.accepted IN
  /\ pc = "running" /\ guest = "running" /\ ~run.aborted
  /\ output' = [accepted   |-> output.accepted + (IF n > remaining THEN remaining ELSE n),
                overflowed |-> output.overflowed \/ n > remaining]
  /\ run' = [run EXCEPT !.aborted = @ \/ n > remaining]
  /\ UNCHANGED <<job, pc, vmm, guest, lease, storage, files, appender, tree, effects, cpu, evidence>>

-----------------------------------------------------------------------------
(* The clocks, the caller, and the death of the VM.                        *)

Waiting == pc \in {"create", "start", "running"}

CancelRun ==
  /\ Waiting /\ ~run.cancelled
  /\ run' = [run EXCEPT !.cancelled = TRUE, !.aborted = TRUE]
  /\ UNCHANGED <<job, pc, vmm, guest, lease, output, storage, files, appender, tree, effects, cpu, evidence>>

\* The callback records an event before it aborts: with an identity that has
\* expired it throws, which nobody catches, and the host's process ends.
WallTimeExpires ==
  /\ pc = "running" /\ run.armed /\ ~run.timedOut
  /\ IF Authenticated THEN pc' = pc /\ run' = [run EXCEPT !.timedOut = TRUE, !.aborted = TRUE]
     ELSE pc' = "crashed" /\ run' = [run EXCEPT !.timedOut = TRUE]
  /\ UNCHANGED <<job, vmm, guest, lease, output, storage, files, appender, tree, effects, cpu, evidence>>

Burn ==
  /\ vmm = "up" /\ Files /\ pc \in {"running", "close"} /\ cpu < Limit("cpu")
  /\ cpu' = cpu + 1
  /\ UNCHANGED <<job, pc, vmm, guest, run, lease, output, storage, files, appender, tree, effects, evidence>>

\* HostCpuObserver.sampleElapsedMs in the interval and in the finally clause:
\* it throws when the process is gone or is another one
Sampled(r) ==
  IF vmm # "up" THEN [r EXCEPT !.cpuLost = TRUE]
  ELSE [r EXCEPT !.sampled = cpu, !.hostCpu = @ \/ cpu >= Limit("cpu")]

SampleCpu ==
  /\ pc = "running" /\ run.observing /\ ~run.cpuLost
  /\ LET r == Sampled(run) IN run' = [r EXCEPT !.aborted = @ \/ r.cpuLost \/ r.hostCpu]
  /\ UNCHANGED <<job, pc, vmm, guest, lease, output, storage, files, appender, tree, effects, cpu, evidence>>

RunnerDies ==
  /\ vmm = "up" /\ vmm' = "down"
  /\ UNCHANGED <<job, pc, guest, run, lease, output, storage, files, appender, tree, effects, cpu, evidence>>

-----------------------------------------------------------------------------
(* The end of the command and the settlement.                              *)

\* the outcome of an exec that returned, in each profile
ExitOutcome(exit) == IF exit = "zero" THEN "success" ELSE "command_failed"

\* resourceOutcome, of what the guest's report calls exhausted
Exhaustions == {"cpu", "memory", "pids"}
Exhausted(usage) ==
  CASE usage = "cpu"    -> "cpu_exhausted"
    [] usage = "memory" -> "memory_exhausted"
    [] usage = "pids"   -> IF Files THEN "pids_exhausted" ELSE "children_exhausted"

FilesOutcome(exit, usage) ==
  IF usage = "descendant"      THEN "policy_denied"
  ELSE IF usage \in Exhaustions THEN Exhausted(usage)
  ELSE IF storage.exhausted    THEN "storage_exhausted"
  ELSE IF output.overflowed    THEN "output_overflow"
  ELSE IF run.hostCpu          THEN "cpu_exhausted"
  ELSE IF effects.denied       THEN "policy_denied"
  ELSE ExitOutcome(exit)

TreeOutcome(exit, usage) ==
  IF effects.denied            THEN "policy_denied"
  ELSE IF usage \in Exhaustions THEN Exhausted(usage)
  ELSE IF output.overflowed    THEN "output_overflow"
  ELSE ExitOutcome(exit)

\* The guest's resource report: "failed" when it is missing, malformed, lacks a
\* measurement or says that it could not observe, "descendant" when a child of
\* the command was denied.
Usages == {"fine", "failed", "descendant"} \cup Exhaustions

\* The result also comes through when an abort meets a command that is over.
\* Its exit event needs the identity.
ExecReturns(exit, usage, removed) ==
  LET r == [run EXCEPT !.exit = exit, !.usage = usage, !.removed = removed] IN
  /\ pc = "running" /\ vmm = "up"
  /\ pc' = "finally" /\ guest' = "ended"
  /\ run' = IF ~Authenticated THEN Thrown("failure", r)
            ELSE [r EXCEPT !.outcome = IF Files THEN FilesOutcome(exit, usage)
                                                ELSE TreeOutcome(exit, usage)]
  /\ UNCHANGED <<job, vmm, lease, output, storage, files, appender, tree, effects, cpu, evidence>>

\* An abort, a lost VM, a guest error.  The command runs on, unless the guest
\* could not isolate it and never started it.
ExecRejects(kind) ==
  /\ pc = "running" /\ (kind = "isolation" => vmm = "up")
  /\ Throw(kind)
  /\ guest' = IF kind = "isolation" THEN "none" ELSE guest
  /\ UNCHANGED <<job, vmm, lease, output, storage, files, appender, tree, effects, cpu, evidence>>

\* the tree profile closes its handles and roots and deletes the private
\* directories, which may fail, while the VM may still run
Disposed(destroyed) ==
  IF Tree THEN [tree EXCEPT !.open = FALSE, !.private = ~destroyed] ELSE tree

\* the finally clause: clear the timers, sample a last time, look for the pid
Finally(destroyed) ==
  LET r == [run EXCEPT !.armed = FALSE, !.pid = @ \/ vmm = "up"] IN
  /\ pc = "finally"
  /\ pc' = IF Vm THEN "close" ELSE "settle"
  /\ run' = IF r.observing /\ ~r.cpuLost THEN Sampled(r) ELSE r
  /\ tree' = Disposed(destroyed)
  /\ UNCHANGED <<job, vmm, guest, lease, output, storage, files, appender, effects, cpu, evidence>>

\* vm.close() resolves once QEMU has exited, or fails anywhere on its way
CloseRunner(fails) ==
  /\ pc = "close"
  /\ pc' = "settle"
  /\ run' = [run EXCEPT !.closeError = fails]
  /\ IF fails THEN vmm' \in {vmm, "down"} ELSE vmm' = "down"
  /\ UNCHANGED <<job, guest, lease, output, storage, files, appender, tree, effects, cpu, evidence>>

RunnerStopped == Vm /\ (~run.pid \/ vmm # "up")
VmStopped     == Vm /\ ~run.closeError /\ RunnerStopped
TreeTornDown  == VmStopped /\ tree.bound /\ ~tree.open /\ ~tree.private

TeardownComplete == IF Files THEN VmStopped ELSE TreeTornDown

\* whether an admission error is thrown instead of a result
Contained ==
  IF Tree /\ ~run.dispatched
  THEN ~tree.private /\ ~run.closeError /\ ~tree.open /\ (Vm => VmStopped)
  ELSE TeardownComplete

\* what the host's CPU observer makes of the outcome
Observed ==
  CASE run.cpuLost /\ run.outcome \in {"success", "transport_failure", "host_controller_failure"}
         -> "host_controller_failure"
    [] ~run.cpuLost /\ run.hostCpu /\ run.outcome = "success" -> "cpu_exhausted"
    [] OTHER -> run.outcome

\* without the guest's own accounting there is no success, and with a VM or a
\* directory left there is only one outcome
FinalOutcome ==
  CASE ~TeardownComplete -> "teardown_failure"
    [] TeardownComplete /\ Observed = "success" /\ run.usage = "failed" -> "host_controller_failure"
    [] OTHER -> Observed

\* the evidence of a run, and the result it is bound to
SealedRun(outcome) ==
  [sealed |-> TRUE, outcome |-> outcome, exit |-> run.exit,
   error |-> run.error \/ outcome # Observed \/ (Observed # run.outcome /\ run.cpuLost),
   measured |-> run.usage \notin {"none", "failed"}, gates |-> TeardownComplete,
   attempted |-> effects.attempted, denied |-> effects.denied, observed |-> effects.observed,
   digests |-> files]

\* The rest of execute(), which meets no other event: an admission error or a
\* result, and neither of them when the identity has expired.  writeDigests are
\* read from the in-memory provider after the VM was closed.
Settle ==
  LET refused == run.admission /\ Contained
      outcome == IF ~Authenticated THEN "thrown" ELSE IF refused THEN "rejected" ELSE FinalOutcome
  IN
  /\ pc = "settle"
  /\ pc' = "done"
  /\ run' = [run EXCEPT !.outcome = outcome]
  /\ lease' = IF ~Authenticated THEN lease
              ELSE [status   |-> IF TeardownComplete /\ ~refused THEN "completed" ELSE "revoked",
                    verified |-> TeardownComplete \/ refused]
  /\ evidence' = IF Authenticated /\ ~refused THEN SealedRun(outcome) ELSE evidence
  /\ UNCHANGED <<job, vmm, guest, output, storage, files, appender, tree, effects, cpu>>

RunnerNext ==
  \/ Refuse \/ Begin \/ Expire \/ Create \/ Start \/ Dispatch
  \/ \E path \in Paths, op \in FileOps, n \in 0..1 : FileRequest(path, op, n)
  \/ \E path \in Paths, op \in TreeOps : TreeOperation(path, op)
  \/ \E n \in 1..2 : WriteOutput(n)
  \/ CancelRun \/ WallTimeExpires \/ Burn \/ SampleCpu \/ RunnerDies
  \/ \E exit \in {"zero", "nonzero"}, usage \in Usages, removed \in BOOLEAN :
        ExecReturns(exit, usage, removed)
  \/ \E kind \in {"isolation", "failure"} : ExecRejects(kind)
  \/ \E destroyed \in BOOLEAN : Finally(destroyed)
  \/ \E fails \in BOOLEAN : CloseRunner(fails)
  \/ Settle

RunnerSpec == RunnerInit /\ [][RunnerNext]_runnerVars

-----------------------------------------------------------------------------
(* Properties.                                                             *)

\* What the hook books never exceeds the limit of the command, nor that limit the
\* ceiling's, and only files of the ceiling hold anything.  A file holds no more
\* than is booked for it, over truncations, sparse writes, appends and several
\* files, as long as it was not made shorter than a descriptor stands by which
\* the guest appends; then it holds at most up to there (scoped-runner.ts,
\* admit, createScopedHooks, WritableStorageBudget; rpc-service.ts, handleWrite).
StorageWithinLimit ==
  Files /\ Accepted =>
    /\ Total(storage.sizes) <= Limit("storage") /\ Limit("storage") <= job.ceiling.limits["storage"]
    /\ \A f \in Writes :
         /\ files[f] > 0 => f \in {p.name : p \in job.ceiling.writes}
         /\ files[f] <= IF appender[f].cut THEN Longer(storage.sizes[f], appender[f].at)
                                           ELSE storage.sizes[f]

\* "success" is settled only for a command that exited with zero, whose usage
\* was observed, under every limit up to the last sample, with nothing denied
\* to it (by processes it left behind: nothing up to its end), and whose VM is
\* known to be gone, whatever the timers, the caller and the VM's death did in
\* between.
SuccessIsClean ==
  pc = "done" /\ run.outcome = "success" =>
    /\ run.exit = "zero" /\ run.usage \in IF Files THEN {"fine"} ELSE {"fine", "descendant"}
    /\ ~output.overflowed /\ ~run.cpuLost /\ (Files => run.sampled < Limit("cpu"))
    /\ run.removed => ~effects.denied /\ ~storage.exhausted
    /\ vmm # "up" /\ ~tree.open /\ (Tree => ~tree.private)

\* A caller who gets an admission error gets no evidence: then the VM is gone,
\* no root is pinned any more and the private directories are deleted, also
\* when the refusal came from the guest after its VM had been started.
RefusedLeavesNothing ==
  pc = "done" /\ run.outcome = "rejected" =>
    /\ ~evidence.sealed /\ vmm # "up" /\ ~tree.open
    /\ Accepted /\ Tree => ~tree.private

\* What the registry says of a run to whoever probes it is so: a teardown that
\* it calls verified has happened, and it completes only what was sealed
\* (invocation-evidence.ts, finish and probeCapabilityInvocationTeardown).
ProbeIsTrue ==
  /\ lease.verified => pc = "done" /\ vmm # "up" /\ ~tree.open /\ (Tree => ~tree.private)
  /\ lease.status = "completed" => lease.verified /\ evidence.sealed

CapabilityOutcomes ==
  {"success", "policy_denied", "cancelled", "command_failed", "timeout", "output_overflow",
   "cpu_exhausted", "memory_exhausted", "pids_exhausted", "storage_exhausted", "guest_crash",
   "host_controller_failure", "transport_failure", "commit_failure", "teardown_failure"}

\* what verifyEffects, verifyTeardown and verifyCapabilityInvocationResult ask of
\* the evidence and the result, besides signatures, digests and numbering
Verifies(e) ==
  /\ e.outcome \in CapabilityOutcomes
  /\ (e.denied => e.attempted) /\ (e.observed => e.attempted)
  /\ e.outcome = "success" => e.measured /\ e.exit = "zero" /\ ~e.error
  /\ e.outcome = "command_failed" => e.exit # "zero"
  /\ e.gates <=> e.outcome # "teardown_failure"

\* The evidence that the files profile seals passes its verifier, whatever
\* happened in the run, and its digests are those of the files for good: also
\* when the VM could not be stopped, no request changes a file after the result.
EvidenceHolds ==
  Files /\ evidence.sealed =>
    pc = "done" /\ Verifies(evidence) /\ evidence.outcome = run.outcome /\ evidence.digests = files

\* A run stays within its limits while it lasts, and its result, success,
\* refusal or failure, tells the truth for good.
RunContained ==
  StorageWithinLimit /\ SuccessIsClean /\ RefusedLeavesNothing /\ ProbeIsTrue /\ EvidenceHolds
=============================================================================
