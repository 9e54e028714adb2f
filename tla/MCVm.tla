-------------------------------- MODULE MCVm --------------------------------
(***************************************************************************)
(* A VM of the host and what it stands on, component by component: its      *)
(* starts and its end, the disks of checkpoints, and the store of guest     *)
(* images.                                                                  *)
(***************************************************************************)
EXTENDS VmLifecycle, ImageStore, Integers, Sequences, TLC

VARIABLES
  part,      \* the component that this behaviour is about
  file, disks_vm, writes, took, shaken
-----------------------------------------------------------------------------
\* What the three callers call.
Kinds(a, b, c) == [i \in 1..3 |-> CASE i = 1 -> a [] i = 2 -> b [] i = 3 -> c]

LifeBase == [kind |-> Kinds("start", "exec", "none"), autoStart |-> TRUE, vfs |-> TRUE, resize |-> FALSE,
             timeout |-> TRUE, faulty |-> FALSE, checkpoint |-> "no", closes |-> 1, exits |-> 1, drops |-> 0]

LifeSetups ==
  { LifeBase,
    [LifeBase EXCEPT !.kind = Kinds("exec", "start", "exec"), !.autoStart = FALSE, !.resize = TRUE, !.exits = 0],
    [LifeBase EXCEPT !.kind = Kinds("start", "exec", "start"), !.drops = 1, !.exits = 0, !.vfs = FALSE],
    [LifeBase EXCEPT !.kind = Kinds("start", "start", "none"), !.closes = 2, !.exits = 0, !.timeout = FALSE,
                     !.faulty = TRUE],
    [LifeBase EXCEPT !.checkpoint = "user", !.closes = 0, !.faulty = TRUE],
    [LifeBase EXCEPT !.checkpoint = "ipc", !.exits = 0] }

-----------------------------------------------------------------------------
\* A krun VM whose checkpoints qemu can take up, but not the other way round.
DiskVmm == [v \in {"u", "v", "w"} |-> IF v = "w" THEN "krun" ELSE "qemu"]

D == INSTANCE CheckpointDisks WITH
     VMs <- DOMAIN DiskVmm, Paths <- {"p", "q"}, Roots <- {"r", "s", "t"},
     BuildIds <- {"r", "s"}, KrunRoots <- {}, Vmm <- DiskVmm, MaxWrites <- 2,
     vm <- disks_vm

ASSUME D!DisksAssumption
-----------------------------------------------------------------------------
Archive(b, a, sound, sum) == [claims |-> b, arch |-> a, sound |-> sound, sum |-> sum, says |-> "any"]
Dir(b, a, sound) == Archive(b, a, sound, TRUE)

First == [refs |-> (<<"r", "x86_64">> :> "b1"), builds |-> ("b1" :> Archive("b1", "x86_64", TRUE, TRUE))]
Second(archive) == [refs |-> (<<"r", "x86_64">> :> "b2") @@ (<<"r", "aarch64">> :> "b2"),
                    builds |-> ("b2" :> archive)]

\* A second version with the right archive, with one of another build, with
\* one whose checksum is wrong, and one the parser refuses.
ImageSetups ==
  { [dirs |-> {},
     registry |-> <<First, Second(Archive("b2", "x86_64", TRUE, TRUE))>>],
    [dirs |-> {Dir("b1", "x86_64", FALSE)}, registry |-> <<First, Second(Archive("b3", "x86_64", TRUE, TRUE))>>],
    [dirs |-> {Dir("b2", "aarch64", TRUE)}, registry |-> <<First, Second(Archive("b2", "x86_64", TRUE, FALSE))>>],
    [dirs |-> {Dir("b2", "aarch64", TRUE)},
     registry |-> <<First, Second([Archive("b2", "aarch64", TRUE, TRUE) EXCEPT !.says = "aarch64"])>>] }
-----------------------------------------------------------------------------
(* One component moves in a behaviour; the others wait in an initial state. *)

LWaits == LifecycleInit /\ setup = LifeBase
DWaits == D!Init
IWaits == StoreInit /\ sources.dirs = {Dir("b1", "x86_64", FALSE)}

Init ==
  \/ part = "life" /\ LifecycleInit /\ DWaits /\ IWaits
  \/ part = "disks" /\ D!Init /\ LWaits /\ IWaits
  \/ part = "image" /\ StoreInit /\ LWaits /\ DWaits

DVars == <<file, disks_vm, writes, took, shaken>>

LStep == part = "life" /\ LifecycleNext /\ UNCHANGED <<part, DVars, storeVars>>
DStep == part = "disks" /\ D!Next /\ UNCHANGED <<part, lifecycleVars, storeVars>>
IStep == part = "image" /\ StoreNext /\ UNCHANGED <<part, lifecycleVars, DVars>>

Next == LStep \/ DStep \/ IStep

vars == <<part, lifecycleVars, DVars, storeVars>>

Spec == Init /\ [][Next]_vars
-----------------------------------------------------------------------------
\* A checkpoint that nobody deletes or writes over keeps what its VM saw when it
\* was taken, whoever resumes from it (vm/core.ts, checkpoint.ts, qemu-img).
CheckpointsKeepTheirData == D!CheckpointsKeepTheirData
=============================================================================
