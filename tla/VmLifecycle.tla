---------------------------- MODULE VmLifecycle ----------------------------
(***************************************************************************)
(* Starting, closing and checkpointing a VM (host/src/vm/core.ts) while    *)
(* calls overlap: start() and the starts that exec() causes share one      *)
(* flight, close() another; a start runs in stages with an await between   *)
(* them and a generation that says whether it is still wanted; a start     *)
(* that times out goes on in the background.                               *)
(*                                                                         *)
(* The SandboxServer is seen through its start, close and boot handler and *)
(* the status it broadcasts; VmController has what its controller does     *)
(* underneath.  The guest is what answers the commands of the start-up.    *)
(***************************************************************************)
EXTENDS Naturals, FiniteSets

CONSTANTS
    Setups,     \* the small configurations a behaviour starts from
    Callers     \* calls of start() and exec()

LifecycleAssumption ==
    /\ IsFiniteSet(Callers)
    /\ \A s \in Setups :
           /\ s.kind \in [Callers -> {"start", "exec", "none"}]
           /\ {s.autoStart, s.vfs, s.resize, s.timeout, s.faulty} \subseteq BOOLEAN
           /\ s.checkpoint \in {"no", "user", "ipc"}
           /\ {s.closes, s.exits, s.drops} \subseteq Nat

Tasks == 1 .. Cardinality(Callers)
NoFlight == 0

VARIABLES
    setup,      \* the configuration of this behaviour
    vm,         \* the VM's fields
    server,     \* its SandboxServer
    task,       \* runs of startInternal, numbered in order
    call,       \* calls of start() and exec(): where they stand
    closing,    \* the flight of close(), how many began and calls were made
    ckpt        \* progress of checkpoint()

lifecycleVars == <<setup, vm, server, task, call, closing, ckpt>>

\* `saw` is what the promise a task awaits has settled to ("wait": it has not);
\* `closes` and `exits` record how many there had been when the task began.
NoTask == [pc |-> "none", gen |-> 0, explicit |-> FALSE, saw |-> "wait", closes |-> 0, exits |-> 0]

LifecycleInit ==
    /\ setup \in Setups
    /\ vm = [gen |-> 0, state |-> "unknown", conn |-> FALSE, bootSent |-> FALSE, vfs |-> "none",
             resized |-> FALSE, ipc |-> FALSE, registered |-> FALSE, checkpointed |-> FALSE,
             flight |-> NoFlight, tasks |-> 0, timers |-> {}]
    /\ server = [status |-> "stopped", bridges |-> TRUE, exits |-> 0, drops |-> 0]
    /\ task = [t \in Tasks |-> NoTask]
    /\ call = [c \in Callers |-> [st |-> "idle", task |-> NoFlight]]
    /\ closing = [pc |-> "none", keepIpc |-> FALSE, begun |-> 0, asked |-> 0]
    /\ ckpt = "no"

\* A settled promise is followed up in microtasks, before the next event of
\* the loop: no call, timer, message or event comes in between.
Followed == \A t \in Tasks : task[t].pc \notin {"server", "connect"} /\ task[t].saw = "wait"
Turn == Followed /\ (ckpt = "close" => closing.pc # "none")

-----------------------------------------------------------------------------
(* Messages of the server.  A `now` is the facade with its tasks and calls, *)
(* as one synchronous piece of code changes them.                           *)

Now == [vm |-> vm, task |-> task, call |-> call]
Set(n) == vm' = n.vm /\ task' = n.task /\ call' = n.call

\* updateState: whoever waits for a status, or for this one, goes on.
UpdateState(n, s) ==
    [n EXCEPT !.vm.state = s,
              !.task = [t \in Tasks |->
                  IF n.task[t].saw = "wait" /\ (n.task[t].pc \in {"status", "boot"} \/ (n.task[t].pc = "running" /\ s = "running"))
                  THEN [n.task[t] EXCEPT !.saw = s] ELSE n.task[t]]]

Broadcast(n, s) == IF n.vm.conn THEN UpdateState(n, s) ELSE n

\* Sessions the guest or the server will not answer any more.
RejectSessions(n) ==
    [n EXCEPT !.vm.vfs = IF @ = "pending" THEN "none" ELSE @,
              !.task = [t \in Tasks |-> IF n.task[t].pc \in {"resize", "vfs"} /\ n.task[t].saw = "wait"
                                        THEN [n.task[t] EXCEPT !.saw = "reject"] ELSE n.task[t]],
              !.call = [c \in Callers |-> IF n.call[c].st = "sent" THEN [n.call[c] EXCEPT !.st = "failed"] ELSE n.call[c]]]

\* handleDisconnect.  The session of an exec that waits for its start is
\* rejected too: the caller gets this error, not the start's.
HandleDisconnect(n) ==
    LET r == RejectSessions(n)
    IN  [r EXCEPT !.vm.conn = FALSE,
                  !.task = [t \in Tasks |-> IF r.task[t].pc \in {"status", "boot", "running"} /\ r.task[t].saw = "wait"
                                            THEN [r.task[t] EXCEPT !.saw = "reject"] ELSE r.task[t]],
                  !.call = [c \in Callers |-> IF setup.kind[c] = "exec" /\ r.call[c].st = "waiting"
                                              THEN [r.call[c] EXCEPT !.st = "failed"] ELSE r.call[c]]]

-----------------------------------------------------------------------------
(* startInternal *)

\* The flight settles: every call that shares it goes on.  An exec sends its
\* message, whether or not its session is still there.
Settle(n, t, ok) ==
    [n EXCEPT !.vm.flight = NoFlight,
              !.call = [c \in Callers |->
                  IF n.call[c].task # t \/ n.call[c].st # "waiting" THEN n.call[c]
                  ELSE [n.call[c] EXCEPT !.st = IF ~ok THEN "failed"
                                                ELSE IF setup.kind[c] = "start" THEN "ok"
                                                ELSE IF n.vm.conn THEN "sent" ELSE "failed"]]]

End(n, t, ok) ==
    LET e == [n EXCEPT !.task[t].pc = IF ok THEN "ok" ELSE "failed", !.task[t].saw = "wait"]
    IN  IF n.vm.flight = t THEN Settle(e, t, ok) ELSE e

GoTo(n, t, pc, saw) == [n EXCEPT !.task[t].pc = pc, !.task[t].saw = saw]

\* ensureStartupGeneration, then `n`.
Wanted(t) == task[t].gen = vm.gen
IfWanted(t, n) == Set(IF Wanted(t) THEN n ELSE End(Now, t, FALSE))

\* exec(), start() and the start-up's own commands fail on a consumed VM.
CallVm(c) ==
    /\ Turn /\ call[c].st = "idle" /\ setup.kind[c] # "none"
    /\ IF vm.flight # NoFlight
       THEN /\ call' = [call EXCEPT ![c] = [st |-> "waiting", task |-> vm.flight]]
            /\ UNCHANGED <<vm, task>>
       ELSE IF vm.checkpointed
       THEN /\ call' = [call EXCEPT ![c].st = "failed"]
            /\ UNCHANGED <<vm, task>>
       ELSE LET t == vm.tasks + 1
            IN  /\ vm' = [vm EXCEPT !.gen = @ + 1, !.tasks = t, !.flight = t]
                /\ task' = [task EXCEPT ![t] = [NoTask EXCEPT !.pc = "server", !.gen = vm.gen + 1,
                                                !.explicit = setup.kind[c] = "start", !.closes = closing.begun,
                                                !.exits = server.exits]]
                /\ call' = [call EXCEPT ![c] = [st |-> "waiting", task |-> t]]
    /\ UNCHANGED <<setup, server, closing, ckpt>>

\* server.start() is over: ensureConnection, which forgets what it knew of the
\* server when it has to connect again.
AfterServer(t) ==
    /\ task[t].pc = "server"
    /\ IfWanted(t, IF vm.conn THEN GoTo(Now, t, "connect", "wait")
                   ELSE [GoTo(Now, t, "connect", "wait") EXCEPT !.vm.state = "unknown", !.vm.bootSent = FALSE, !.vm.vfs = "none"])
    /\ UNCHANGED <<setup, server, closing, ckpt>>

\* The connection is made, and the server says its status; ensureRunning.
AfterConnect(t) ==
    /\ task[t].pc = "connect"
    /\ LET n == IF vm.conn THEN Now ELSE UpdateState([Now EXCEPT !.vm.conn = TRUE], server.status)
       IN  Set(IF Wanted(t) THEN GoTo(n, t, "status", IF n.vm.state = "unknown" THEN "wait" ELSE n.vm.state)
               ELSE End(n, t, FALSE))
    /\ UNCHANGED <<setup, server, closing, ckpt>>

\* ensureBoot: handleBoot starts a stopped machine and answers with the status.
AfterStatus(t) ==
    /\ task[t].pc = "status" /\ task[t].saw # "wait"
    /\ IF task[t].saw = "reject" \/ (task[t].saw = "stopped" /\ ~setup.autoStart /\ ~task[t].explicit)
       THEN Set(End(Now, t, FALSE)) /\ UNCHANGED server
       ELSE LET status == IF ~vm.bootSent /\ server.status = "stopped" THEN "starting" ELSE server.status
                n == IF vm.bootSent THEN Now ELSE UpdateState([Now EXCEPT !.vm.bootSent = TRUE], status)
            IN  /\ server' = [server EXCEPT !.status = status]
                /\ Set(GoTo(n, t, "boot", IF n.vm.state = "unknown" THEN "wait" ELSE n.vm.state))
    /\ UNCHANGED <<setup, closing, ckpt>>

\* The rest of ensureRunning.
AfterBoot(t) ==
    /\ task[t].pc = "boot" /\ task[t].saw # "wait"
    /\ Set(IF task[t].saw = "reject" THEN End(Now, t, FALSE)
           ELSE GoTo(Now, t, "running", IF "running" \in {task[t].saw, vm.state} THEN "running" ELSE "wait"))
    /\ UNCHANGED <<setup, server, closing, ckpt>>

\* ensureRootfsResized and ensureVfsReady run commands in the guest; the
\* check of the mounts is shared.
ToResize(n, t) ==
    IF setup.resize /\ ~n.vm.resized THEN GoTo(n, t, "resize", IF n.vm.conn THEN "wait" ELSE "reject")
    ELSE GoTo(n, t, "resize", "yes")

ToVfs(n, t) ==
    IF ~setup.vfs \/ n.vm.vfs = "ready" THEN GoTo(n, t, "vfs", "yes")
    ELSE IF n.vm.vfs = "none" /\ ~n.vm.conn THEN GoTo(n, t, "vfs", "reject")
    ELSE [GoTo(n, t, "vfs", "wait") EXCEPT !.vm.vfs = "pending"]

AfterRunning(t) ==
    /\ task[t].pc = "running" /\ task[t].saw # "wait"
    /\ IF task[t].saw = "reject" THEN Set(End(Now, t, FALSE)) ELSE IfWanted(t, ToResize(Now, t))
    /\ UNCHANGED <<setup, server, closing, ckpt>>

AfterResize(t) ==
    /\ task[t].pc = "resize" /\ task[t].saw # "wait"
    /\ IF task[t].saw # "yes" THEN Set(End(Now, t, FALSE)) ELSE IfWanted(t, ToVfs([Now EXCEPT !.vm.resized = TRUE], t))
    /\ UNCHANGED <<setup, server, closing, ckpt>>

\* ensureSessionIpc up to its await (the sweep of dead sessions).
AfterVfs(t) ==
    /\ task[t].pc = "vfs" /\ task[t].saw # "wait"
    /\ IF task[t].saw # "yes" THEN Set(End(Now, t, FALSE)) ELSE IfWanted(t, GoTo(Now, t, "ipc", "wait"))
    /\ UNCHANGED <<setup, server, closing, ckpt>>

\* Mutant: nobody looks at the generation once the guest is ready.
SucceedAnyway(t) == [End(Now, t, TRUE) EXCEPT !.vm.ipc = TRUE, !.vm.registered = TRUE]
Register(t) ==
    IF vm.ipc THEN End(Now, t, Wanted(t))
    ELSE IF ~Wanted(t) THEN End(Now, t, FALSE)
    ELSE [End(Now, t, TRUE) EXCEPT !.vm.ipc = TRUE, !.vm.registered = TRUE]

AfterGc(t) ==
    /\ task[t].pc = "ipc" /\ Turn
    /\ Set(Register(t))
    /\ UNCHANGED <<setup, server, closing, ckpt>>

\* withStartTimeout: the calls fail, the task goes on without them, and the
\* clean-up is put off for a turn of the event loop.
Timeout(t) ==
    /\ Turn /\ setup.timeout /\ vm.flight = t
    /\ LET n == Settle(Now, t, FALSE)
       IN  Set(IF Wanted(t) THEN [n EXCEPT !.vm.gen = @ + 1, !.vm.timers = @ \cup {vm.gen + 1}] ELSE n)
    /\ UNCHANGED <<setup, server, closing, ckpt>>

-----------------------------------------------------------------------------
(* closeInternal and SandboxServer.closeInternal *)

\* A flight begins, for so many calls of close() by the embedder (none or one).
CloseBegins(n, keepIpc, calls) ==
    /\ Set([n EXCEPT !.vm.gen = @ + 1])
    /\ closing' = [closing EXCEPT !.pc = "ipc", !.keepIpc = keepIpc, !.begun = @ + 1, !.asked = @ + calls]

Close ==
    /\ Turn /\ closing.asked < setup.closes /\ closing.pc = "none"
    /\ CloseBegins(Now, FALSE, 1)
    /\ UNCHANGED <<setup, server, ckpt>>

\* A call of close() while one is in flight shares it, and whatever has started
\* behind that flight's beginning stays wanted.
CloseJoins ==
    /\ Turn /\ closing.asked < setup.closes /\ closing.pc # "none"
    /\ closing' = [closing EXCEPT !.asked = @ + 1]
    /\ UNCHANGED <<setup, vm, server, task, call, ckpt>>

\* The clean-up of a start that has timed out: is the VM still that start's?
Stale(g) == vm.gen = g

TimerFires(g) ==
    /\ Turn /\ g \in vm.timers
    /\ IF Stale(g) /\ closing.pc = "none"
       THEN CloseBegins([Now EXCEPT !.vm.timers = @ \ {g}], FALSE, 0)
       ELSE Set([Now EXCEPT !.vm.timers = @ \ {g}]) /\ UNCHANGED closing
    /\ UNCHANGED <<setup, server, ckpt>>

\* The session's socket is closed and forgotten; the server lets its clients
\* go and shuts its bridges for good.
CloseServer ==
    /\ Turn /\ closing.pc = "ipc"
    /\ LET n == [Now EXCEPT !.vm.ipc = @ /\ closing.keepIpc, !.vm.registered = @ /\ closing.keepIpc]
       IN  Set(IF vm.conn THEN HandleDisconnect(n) ELSE n)
    /\ server' = [server EXCEPT !.bridges = FALSE]
    /\ closing' = [closing EXCEPT !.pc = "controller"]
    /\ UNCHANGED <<setup, ckpt>>

\* controller.close(): a machine that was there has exited.  When the network
\* could not be closed, server.close() rejects after that, and with it this close
\* and a checkpoint that awaits it: the mounts, the connection and the root disk
\* stay as they are.
CloseController ==
    /\ Turn /\ closing.pc = "controller"
    /\ server' = [server EXCEPT !.status = "stopped"]
    /\ Set(IF server.status = "stopped" THEN Now ELSE RejectSessions(Broadcast(Now, "stopped")))
    /\ \E networkCloseFailed \in {FALSE, setup.faulty} :
          /\ closing' = [closing EXCEPT !.pc = IF networkCloseFailed THEN "none" ELSE "disconnect"]
          /\ ckpt' = IF networkCloseFailed /\ ckpt = "close" THEN "done" ELSE ckpt
    /\ UNCHANGED setup

CloseDone ==
    /\ Turn /\ closing.pc = "disconnect"
    /\ LET n == [Now EXCEPT !.vm.vfs = "none"] IN Set(IF vm.conn THEN HandleDisconnect(n) ELSE n)
    /\ closing' = [closing EXCEPT !.pc = "none"]
    /\ UNCHANGED <<setup, server, ckpt>>

-----------------------------------------------------------------------------
(* checkpointInternal: from the session's socket it keeps that socket, and *)
(* the caller closes once its answer has been queued.                       *)

CheckpointBegin ==
    /\ Turn /\ setup.checkpoint # "no" /\ ckpt = "no" /\ ~vm.checkpointed
    /\ setup.checkpoint = "ipc" => vm.ipc
    /\ ckpt' = "close"
    /\ IF closing.pc = "none" THEN CloseBegins(Now, setup.checkpoint = "ipc", 0)
       ELSE UNCHANGED <<vm, task, call, closing>>
    /\ UNCHANGED <<setup, server>>

\* The disk is moved; without a build id in the manifest that is all.
CheckpointMoved ==
    /\ Followed /\ ckpt = "close" /\ closing.pc = "none"
    /\ \E ok \in BOOLEAN : vm' = [vm EXCEPT !.checkpointed = ok]
    /\ ckpt' = IF setup.checkpoint = "ipc" /\ vm'.checkpointed THEN "answered" ELSE "done"
    /\ UNCHANGED <<setup, server, task, call, closing>>

CheckpointCloses ==
    /\ Turn /\ ckpt = "answered"
    /\ ckpt' = "done"
    /\ IF closing.pc = "none" THEN CloseBegins(Now, FALSE, 0) ELSE UNCHANGED <<vm, task, call, closing>>
    /\ UNCHANGED <<setup, server>>

-----------------------------------------------------------------------------
(* The machine and the guest *)

Spawned ==
    /\ Turn /\ server.status = "starting"
    /\ server' = [server EXCEPT !.status = "running"]
    /\ Set(Broadcast(Now, "running"))
    /\ UNCHANGED <<setup, closing, ckpt>>

\* The machine exits, or cannot be spawned: the status is broadcast and what
\* was in flight is failed.
Exits ==
    /\ Turn /\ server.status # "stopped" /\ server.exits < setup.exits
    /\ server' = [server EXCEPT !.status = "stopped", !.exits = @ + 1]
    /\ Set(RejectSessions(Broadcast(Now, "stopped")))
    /\ UNCHANGED <<setup, closing, ckpt>>

GuestUp == vm.conn /\ server.bridges /\ server.status = "running"

\* vfs_error: the server closes its clients.
VfsError ==
    /\ Turn /\ GuestUp /\ server.drops < setup.drops
    /\ server' = [server EXCEPT !.drops = @ + 1]
    /\ Set(HandleDisconnect(Now))
    /\ UNCHANGED <<setup, closing, ckpt>>

Resized(t) ==
    /\ Turn /\ GuestUp /\ task[t].pc = "resize" /\ task[t].saw = "wait"
    /\ \E saw \in {"yes", "no"} : task' = [task EXCEPT ![t].saw = saw]
    /\ UNCHANGED <<setup, vm, server, call, closing, ckpt>>

MountsChecked ==
    /\ Turn /\ GuestUp /\ vm.vfs = "pending"
    /\ \E saw \in {"yes", "no"} :
           /\ vm' = [vm EXCEPT !.vfs = IF saw = "yes" THEN "ready" ELSE "none"]
           /\ task' = [t \in Tasks |-> IF task[t].pc = "vfs" /\ task[t].saw = "wait" THEN [task[t] EXCEPT !.saw = saw] ELSE task[t]]
    /\ UNCHANGED <<setup, server, call, closing, ckpt>>

ExecEnds(c) ==
    /\ Turn /\ GuestUp /\ call[c].st = "sent"
    /\ call' = [call EXCEPT ![c].st = "ok"]
    /\ UNCHANGED <<setup, vm, server, task, closing, ckpt>>

Step(t) ==
    \/ AfterServer(t) \/ AfterConnect(t) \/ AfterStatus(t) \/ AfterBoot(t) \/ AfterRunning(t)
    \/ AfterResize(t) \/ AfterVfs(t) \/ AfterGc(t)

LifecycleNext ==
    \/ \E c \in Callers : CallVm(c) \/ ExecEnds(c)
    \/ \E t \in Tasks : Step(t) \/ Timeout(t) \/ Resized(t)
    \/ \E g \in vm.timers : TimerFires(g)
    \/ Close \/ CloseJoins \/ CloseServer \/ CloseController \/ CloseDone
    \/ CheckpointBegin \/ CheckpointMoved \/ CheckpointCloses
    \/ Spawned \/ Exits \/ VfsError \/ MountsChecked

LifecycleSpec == LifecycleInit /\ [][LifecycleNext]_lifecycleVars

-----------------------------------------------------------------------------
(* Properties *)

\* A start that was under way when closeInternal began never reports success,
\* wherever between its awaits that came (startInternal).  A call of close() that
\* joins a running flight begins nothing: of a start behind that flight's
\* beginning nothing is claimed, though close() was called after it.
NoSuccessAcrossClose ==
    [][\A t \in Tasks : task'[t].pc = "ok" /\ task[t].pc # "ok" => closing.begun = task[t].closes]_lifecycleVars

\* The clean-up of a timed-out start never closes a VM that has been started
\* or closed since (the comment in startInternal).
StaleCleanupSparesNewer ==
    [][\A g \in vm.timers \ vm'.timers :
           closing'.begun # closing.begun => vm.flight = NoFlight /\ \A t \in Tasks : task[t].gen < g]_lifecycleVars

\* A close prevails over the starts before its flight began, and its clean-up not
\* over those after it.
ClosesPrevail == NoSuccessAcrossClose /\ StaleCleanupSparesNewer
=============================================================================
