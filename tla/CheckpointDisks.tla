--------------------------- MODULE CheckpointDisks ---------------------------
(***************************************************************************)
(* Disk files of VMs and checkpoints (host/src/checkpoint.ts,              *)
(* host/src/qemu/img.ts, and the root disk of host/src/vm/core.ts): every  *)
(* VM writes to a qcow2 overlay, a checkpoint is such an overlay moved to  *)
(* a path of the caller's, and a resume puts a new overlay on it.  A qcow2 *)
(* file names its backing file by path.                                    *)
(*                                                                         *)
(* The content of a file is the set of writes that can be read through it. *)
(* VmLifecycle has the order in which a VM closes and is checkpointed.     *)
(***************************************************************************)
EXTENDS Integers, FiniteSets

CONSTANTS
    VMs,        \* VMs, each the name of its overlay too
    Paths,      \* where checkpoints are put
    Roots,      \* places that hold the rootfs of the one build
    MaxWrites,  \* bound on guest writes, below what a disk takes
    BuildIds,   \* the roots whose manifest has a buildId
    KrunRoots,  \* the roots whose manifest has a krun kernel
    Vmm         \* the VMM of each VM: qemu or krun

DisksAssumption ==
    /\ MaxWrites \in Nat /\ BuildIds \subseteq Roots /\ KrunRoots \subseteq Roots
    /\ Vmm \in [VMs -> {"qemu", "krun"}]

VARIABLES
    file,       \* qcow2 files: [own, backing, trailer], where the trailer is the
                \* set of VMMs a checkpoint declares, empty where there is none
    vm,         \* each VM: [st, root, sees, deletes, dest]
    writes,     \* guest writes so far, each numbered
    took,       \* history: what the VM of each checkpoint saw when it was taken
    shaken      \* history: VMs whose backing file was replaced or removed

vars == <<file, vm, writes, took, shaken>>

Missing == [own |-> {}, backing |-> "none", trailer |-> {}]
NoVm == [st |-> "none", root |-> "none", sees |-> {}, deletes |-> FALSE, dest |-> "none"]
Files == VMs \cup Paths

Init ==
    /\ file = [f \in Files |-> Missing]
    /\ vm = [v \in VMs |-> NoVm]
    /\ writes = 0
    /\ took = [p \in Paths |-> {}]
    /\ shaken = {}

Exists(f) == f \in Files => file[f] # Missing

\* The files a read goes through: an overlay, the checkpoint below it, and so
\* on down to a root.
RECURSIVE Chain(_, _)
Chain(f, depth) ==
    IF f \notin Files \/ depth = 0 THEN {f} ELSE {f} \cup Chain(file[f].backing, depth - 1)
ChainOf(f) == Chain(f, Cardinality(Files))
Readable(f) == \A g \in ChainOf(f) : Exists(g)
Content(f) == UNION {file[g].own : g \in ChainOf(f) \cap Files}

\* VMs whose overlay is on p
Dependents(p) == {v \in VMs : file[v] # Missing /\ file[v].backing = p}

-----------------------------------------------------------------------------

\* createQcow2Overlay
Overlay(v, backing) == file' = [file EXCEPT ![v] = [own |-> {}, backing |-> backing, trailer |-> {}]]

\* VM.create with rootfs mode "cow"
Create(v, r) ==
    /\ vm[v].st = "none"
    /\ Overlay(v, r)
    /\ vm' = [vm EXCEPT ![v] = [NoVm EXCEPT !.st = "ready", !.root = r, !.deletes = TRUE]]
    /\ UNCHANGED <<writes, took, shaken>>

\* VmCheckpoint.resume looks at the compatible VMMs and for the file; the assets are found, or pulled,
\* an await later.
Resume(v, p) ==
    /\ vm[v].st = "none" /\ Vmm[v] \in file[p].trailer
    /\ vm' = [vm EXCEPT ![v] = [NoVm EXCEPT !.st = "resuming", !.dest = p]]
    /\ UNCHANGED <<file, writes, took, shaken>>

\* resolveAssetDirByBuildId: assets of the checkpoint's build.
AssetsFor(p, r) == r \in BuildIds

\* ensureCheckpointBackedByRootfs: what the checkpoint holds is left as it is.
Rebacked(p, r) == [file[p] EXCEPT !.backing = r]

\* The checkpoint is put on these assets, and an overlay on it.  The checkpoint may have been removed or replaced since.
Resumed(v, r) ==
    LET p == vm[v].dest IN
    /\ vm[v].st = "resuming" /\ AssetsFor(p, r)
    /\ IF Exists(p)
       THEN /\ file' = [file EXCEPT ![p] = Rebacked(p, r),
                                    ![v] = [own |-> {}, backing |-> p, trailer |-> {}]]
            /\ vm' = [vm EXCEPT ![v] = [NoVm EXCEPT !.st = "ready", !.root = r, !.sees = Content(p), !.deletes = TRUE]]
       ELSE vm' = [vm EXCEPT ![v] = NoVm] /\ UNCHANGED file
    /\ UNCHANGED <<writes, took, shaken>>

\* The VMM opens the disk with everything below it, and keeps it open.
Start(v) ==
    /\ vm[v].st = "ready" /\ Readable(v)
    /\ vm' = [vm EXCEPT ![v].st = "running", ![v].sees = Content(v)]
    /\ UNCHANGED <<file, writes, took, shaken>>

Write(v) ==
    /\ vm[v].st = "running" /\ writes < MaxWrites
    /\ writes' = writes + 1
    /\ file' = [file EXCEPT ![v].own = @ \cup {writes'}]
    /\ vm' = [vm EXCEPT ![v].sees = @ \cup {writes'}]
    /\ UNCHANGED <<took, shaken>>

\* cleanupRootDiskSync
Close(v) ==
    /\ vm[v].st \in {"ready", "running", "failed"}
    /\ file' = IF vm[v].deletes THEN [file EXCEPT ![v] = Missing] ELSE file
    /\ vm' = [vm EXCEPT ![v].st = "closed"]
    /\ UNCHANGED <<writes, took, shaken>>

\* checkpointInternal up to the close of the VM: from here on close() keeps
\* the overlay.  A checkpoint that failed may be tried again.
Checkpoint(v, p) ==
    /\ vm[v].st \in {"ready", "running", "failed", "closed"}
    /\ vm' = [vm EXCEPT ![v].st = "closing", ![v].deletes = FALSE, ![v].dest = p]
    /\ UNCHANGED <<file, writes, took, shaken>>

\* a bug: the backing path is changed, and what was read through it not kept
RebaseUnsafe(v) == [own |-> file[v].own, backing |-> vm[v].root, trailer |-> {}]

\* rebaseQcow2InPlace in its "safe" mode copies what the new backing file
\* does not have.
Rebase(v) == [own |-> Content(v), backing |-> vm[v].root, trailer |-> {}]

\* A rebase that cannot read the old backing file, or an overlay that is gone.
CannotRebase(v) == file[v] = Missing \/ (file[v].backing # vm[v].root /\ ~Readable(v))

Fail(v) == vm' = [vm EXCEPT ![v].st = "failed", ![v].dest = "none"]

PublishFails(v) ==
    /\ vm[v].st = "closing" /\ CannotRebase(v)
    /\ Fail(v)
    /\ UNCHANGED <<file, writes, took, shaken>>

\* The rest of checkpointInternal is synchronous: the overlay is rebased to
\* the root and moved over what was at the destination.  Without a build id
\* it throws when the file is moved already, before the trailer is written.
Publish(v) ==
    LET p == vm[v].dest
        ok == vm[v].root \in BuildIds
        vmms == IF vm[v].root \in KrunRoots \/ Vmm[v] = "krun" THEN {"qemu", "krun"} ELSE {"qemu"}
        disk == IF file[v].backing = vm[v].root THEN file[v] ELSE Rebase(v)
    IN  /\ vm[v].st = "closing" /\ ~CannotRebase(v)
        /\ file' = [file EXCEPT ![v] = Missing, ![p] = [disk EXCEPT !.trailer = IF ok THEN vmms ELSE {}]]
        /\ IF ok THEN vm' = [vm EXCEPT ![v].st = "checkpointed"] ELSE Fail(v)
        /\ took' = [took EXCEPT ![p] = vm[v].sees]
        /\ shaken' = (shaken \cup Dependents(p)) \ {v}
        /\ UNCHANGED writes

\* VmCheckpoint.delete
Delete(p) ==
    /\ file[p] # Missing
    /\ file' = [file EXCEPT ![p] = Missing]
    /\ shaken' = shaken \cup Dependents(p)
    /\ UNCHANGED <<vm, writes, took>>

Next ==
    \/ \E v \in VMs : \/ \E r \in Roots : Create(v, r) \/ Resumed(v, r)
                      \/ \E p \in Paths : Resume(v, p) \/ Checkpoint(v, p)
                      \/ Start(v) \/ Write(v) \/ Close(v) \/ PublishFails(v) \/ Publish(v)
    \/ \E p \in Paths : Delete(p)

Spec == Init /\ [][Next]_vars

-----------------------------------------------------------------------------
(* Properties *)

\* What a checkpoint holds is what its VM saw when it was taken, for as long
\* as it exists: whichever of its clones are resumed, rebased, checkpointed to
\* the same path or to another, or deleted.  VMs under which the file they
\* were resumed from has been replaced or removed are left out.
Saved(p) == file[p].trailer # {} => Content(p) = took[p]

CheckpointsKeepTheirData ==
    [][\A p \in Paths : \/ Saved(p)'
                        \/ ~Saved(p)
                        \/ \E v \in shaken : vm[v].st = "closing" /\ vm'[v].st # "closing"]_vars
=============================================================================
