---------------------------- MODULE VmController ----------------------------
(***************************************************************************)
(* The life of the VMM processes a SandboxController owns (controller.ts;  *)
(* krun-controller.ts has the same start, close, restart and handlers),    *)
(* driven by the boot and lifecycle messages and the shutdown of the       *)
(* SandboxServer (server-ops.ts).                                          *)
(*                                                                         *)
(* start() gives the child two handlers that outlive close(): "error" and  *)
(* "exit" both clear this.child, whichever child it is by then.  A close() *)
(* takes the child away, waits for its exit and escalates from SIGTERM to  *)
(* SIGKILL to giving up.  Pausing over QMP is left out.                    *)
(***************************************************************************)
EXTENDS Naturals, FiniteSets

CONSTANTS
  Calls,         \* requests to the controller
  AutoRestart,   \* config.autoRestart
  Overlap,       \* a request may come while another is in progress
  MaxSpawns      \* VMMs started in one behaviour (bounds the model)

ASSUME ControllerAssumption ==
  /\ AutoRestart \in BOOLEAN /\ Overlap \in BOOLEAN
  /\ IsFiniteSet(Calls) /\ MaxSpawns \in Nat /\ MaxSpawns >= Cardinality(Calls)

Vms  == 1 .. MaxSpawns
None == 0

VARIABLES
  spawns,        \* VMMs spawned so far, numbered in order
  proc,          \* "none", "spawned", "alive" or "exited", its event delivered
  signal,        \* "no", "term" or "kill": the strongest signal sent
  child,         \* this.child
  state,         \* this.state
  manualStop, restartTimer,
  pc,            \* of a call: "idle", "closing", "closed" or "done"
  op,            \* what it does after close(): "close" or "restart"
  target,        \* the child its close() waits for
  wanted,        \* history: what the last request asked for, "run" or "stop",
                 \* or "failed" when that VMM could not be spawned
  abandoned      \* history: VMMs a close() has given up on

procVars == <<spawns, proc, signal>>
ctlVars  == <<child, state, manualStop, restartTimer>>
callVars == <<pc, op, target>>
histVars == <<wanted, abandoned>>
vars == <<procVars, ctlVars, callVars, histVars>>

Live(p) == proc[p] \in {"spawned", "alive"}

Init ==
  /\ spawns = 0 /\ proc = [p \in Vms |-> "none"] /\ signal = [p \in Vms |-> "no"]
  /\ child = None /\ state = "stopped" /\ manualStop = FALSE /\ restartTimer = FALSE
  /\ pc = [c \in Calls |-> "idle"] /\ op = [c \in Calls |-> "close"]
  /\ target = [c \in Calls |-> None]
  /\ wanted = "stop" /\ abandoned = {}

Active == {c \in Calls : pc[c] \in {"closing", "closed"}}

\* a bug: close() returns once the signal is sent
Signalled(p) == signal[p] # "no"

\* what close() waits for
HasExited(p) == proc[p] = "exited"

\* the promise a call awaits is settled: its continuation is a microtask, which
\* runs before any timer, message or event of a process
Resumable(c) ==
  pc[c] = "closed" \/ (pc[c] = "closing" /\ HasExited(target[c]))

Settled == \A c \in Calls : ~Resumable(c)

-----------------------------------------------------------------------------
\* a bug: start() of a controller that has been closed before stays manual
StartKeepsManualStop ==
  \/ child # None /\ UNCHANGED <<procVars, child, state, manualStop>>
  \/ /\ child = None /\ spawns < MaxSpawns
     /\ spawns' = spawns + 1 /\ proc' = [proc EXCEPT ![spawns'] = "spawned"]
     /\ child' = spawns' /\ state' = "starting"
     /\ UNCHANGED <<signal, manualStop>>

\* start()
Start ==
  \/ child # None /\ UNCHANGED <<procVars, child, state, manualStop>>
  \/ /\ child = None /\ spawns < MaxSpawns
     /\ spawns' = spawns + 1 /\ proc' = [proc EXCEPT ![spawns'] = "spawned"]
     /\ child' = spawns' /\ state' = "starting" /\ manualStop' = FALSE
     /\ UNCHANGED signal

\* close() up to its await
BeginClose(c, o) ==
  /\ op' = [op EXCEPT ![c] = o]
  /\ IF child = None
     THEN /\ pc' = [pc EXCEPT ![c] = "closed"]
          /\ UNCHANGED <<target, signal, child, manualStop, restartTimer>>
     ELSE /\ pc' = [pc EXCEPT ![c] = "closing"]
          /\ target' = [target EXCEPT ![c] = child]
          /\ signal' = [signal EXCEPT ![child] = "term"]
          /\ child' = None /\ manualStop' = TRUE /\ restartTimer' = FALSE
  /\ UNCHANGED <<spawns, proc, state, abandoned>>

MayCall(c) == pc[c] = "idle" /\ Settled /\ (Overlap \/ Active = {})

\* handleBoot: a VM that is up is restarted for a new configuration
HandleBoot(c, changed) ==
  /\ MayCall(c)
  /\ wanted' = "run"
  /\ \/ /\ changed /\ state # "stopped"
        /\ BeginClose(c, "restart")
     \/ /\ state = "stopped"
        /\ Start
        /\ pc' = [pc EXCEPT ![c] = "done"]
        /\ UNCHANGED <<op, target, restartTimer, abandoned>>

\* handleClientMessage, lifecycle "restart"
LifecycleRestart(c) ==
  MayCall(c) /\ wanted' = "run" /\ BeginClose(c, "restart")

\* lifecycle "shutdown", and closeInternal of the server
Shutdown(c) ==
  MayCall(c) /\ wanted' = "stop" /\ BeginClose(c, "close")

\* the call is back from waitForExit
CloseWaited(c) ==
  /\ pc[c] = "closing" /\ HasExited(target[c])
  /\ pc' = [pc EXCEPT ![c] = "closed"]
  /\ state' = "stopped"
  /\ UNCHANGED <<procVars, child, manualStop, restartTimer, op, target, histVars>>

\* close() returns; restart() goes on with start()
Return(c) ==
  /\ pc[c] = "closed"
  /\ pc' = [pc EXCEPT ![c] = "done"]
  /\ IF op[c] = "restart" THEN Start
     ELSE UNCHANGED <<procVars, child, state, manualStop>>
  /\ UNCHANGED <<restartTimer, op, target, histVars>>

\* a bug: the timer is set up for a child that has not been signalled
GraceOverUnsignalled(s) == s = "no"

\* a VMM may ignore SIGTERM
GraceOver(s) == s = "term"

\* sigkillTimer, after 3 s
SigkillTimer(c) ==
  /\ Settled
  /\ pc[c] = "closing" /\ GraceOver(signal[target[c]])
  /\ signal' = [signal EXCEPT ![target[c]] = "kill"]
  /\ UNCHANGED <<spawns, proc, ctlVars, callVars, histVars>>

\* closeTimeoutTimer, after 10 s: close() gives up on the child and kills every
\* VMM that is tracked (killActiveChildren)
CloseTimeout(c) ==
  /\ Settled
  /\ pc[c] = "closing" /\ signal[target[c]] = "kill"
  /\ signal' = [p \in Vms |-> IF Live(p) THEN "kill" ELSE signal[p]]
  /\ pc' = [pc EXCEPT ![c] = "closed"]
  /\ state' = "stopped"
  /\ abandoned' = abandoned \cup {target[c]}
  /\ UNCHANGED <<spawns, proc, child, manualStop, restartTimer, op, target, wanted>>

\* the bound leaves a VMM for every request that may still start one
Room == spawns + Cardinality({c \in Calls : pc[c] # "done"}) < MaxSpawns

\* the timer of scheduleRestart
RestartTimer ==
  /\ Settled /\ (child # None \/ Room)
  /\ restartTimer /\ restartTimer' = FALSE
  /\ Start
  /\ UNCHANGED <<callVars, histVars>>

-----------------------------------------------------------------------------
\* child "spawn"
VmSpawned(p) ==
  /\ proc[p] = "spawned"
  /\ proc' = [proc EXCEPT ![p] = "alive"]
  /\ state' = "running"
  /\ UNCHANGED <<spawns, signal, child, manualStop, restartTimer, callVars, histVars>>

\* both handlers: whatever this.child is now
ClearsChild == child' = None /\ state' = "stopped"

\* child "error": the spawn failed; no restart, whatever the configuration
VmFails(p) ==
  /\ proc[p] = "spawned"
  /\ proc' = [proc EXCEPT ![p] = "exited"]
  /\ ClearsChild
  /\ wanted' = IF wanted = "run" /\ Active = {} THEN "failed" ELSE wanted
  /\ UNCHANGED <<spawns, signal, manualStop, restartTimer, callVars, abandoned>>

\* child "exit": a crash, or the answer to a signal
VmExits(p) ==
  /\ Settled
  /\ proc[p] = "alive"
  /\ proc' = [proc EXCEPT ![p] = "exited"]
  /\ ClearsChild
  /\ IF manualStop
     THEN manualStop' = FALSE /\ UNCHANGED restartTimer
     ELSE restartTimer' = (restartTimer \/ AutoRestart) /\ UNCHANGED manualStop
  /\ UNCHANGED <<spawns, signal, callVars, histVars>>

-----------------------------------------------------------------------------
Call(c) ==
  \/ \E changed \in BOOLEAN : HandleBoot(c, changed)
  \/ LifecycleRestart(c) \/ Shutdown(c)

Continue(c) == CloseWaited(c) \/ Return(c)

Next ==
  \/ \E c \in Calls : Call(c) \/ Continue(c) \/ SigkillTimer(c) \/ CloseTimeout(c)
  \/ \E p \in Vms : VmSpawned(p) \/ VmFails(p) \/ VmExits(p)
  \/ RestartTimer

Spec == Init /\ [][Next]_vars

\* The event loop runs continuations, timers and events, and a VMM that has been
\* sent SIGKILL exits in the end.  A VMM need not react to SIGTERM.
Fairness ==
  /\ WF_vars(RestartTimer)
  /\ \A c \in Calls : WF_vars(Continue(c)) /\ WF_vars(SigkillTimer(c))
  /\ \A p \in Vms : /\ WF_vars(VmSpawned(p) \/ VmFails(p))
                    /\ WF_vars(signal[p] = "kill" /\ VmExits(p))

FairSpec == Spec /\ Fairness

-----------------------------------------------------------------------------
\* Types, and the child is never a process whose end has been reported.
TypeOK ==
  /\ spawns \in 0 .. MaxSpawns
  /\ proc \in [Vms -> {"none", "spawned", "alive", "exited"}]
  /\ signal \in [Vms -> {"no", "term", "kill"}]
  /\ child \in Vms \cup {None} /\ (child # None => Live(child))
  /\ state \in {"stopped", "starting", "running"}
  /\ manualStop \in BOOLEAN /\ restartTimer \in BOOLEAN
  /\ pc \in [Calls -> {"idle", "closing", "closed", "done"}]
  /\ op \in [Calls -> {"close", "restart"}]
  /\ target \in [Calls -> Vms \cup {None}]
  /\ wanted \in {"run", "stop", "failed"} /\ abandoned \subseteq Vms

\* Two VMMs never run on the same sockets and disk image: a start(), from a
\* restart, a boot or the restart timer, waits for the end of the last VMM, unless
\* a close() has given up on one.
OneVmAtATime == abandoned = {} => Cardinality({p \in Vms : Live(p)}) <= 1

\* Between two requests getState() tells whether there is a VMM, on which
\* handleBoot decides if it must start one.
QuietStateTruthful == Active = {} /\ abandoned = {} => (state = "stopped" <=> child = None)

\* One VMM at a time, and a state that says so.
OneTruthfulVm == TypeOK /\ OneVmAtATime /\ QuietStateTruthful

\* A VMM that close() has taken away exits, also one that ignores SIGTERM
\* (test "close escalates to SIGKILL after 3s").
ClosedVmsExit ==
  \A p \in Vms : signal[p] # "no" ~> proc[p] = "exited"

\* With autoRestart a VMM that exits although the callers want one is replaced,
\* also after requests that stopped earlier ones (test "crash triggers
\* auto-restart after 1s").
CrashedVmReplaced ==
  AutoRestart => []<>(wanted # "run" \/ child # None \/ ~Room)

=============================================================================
