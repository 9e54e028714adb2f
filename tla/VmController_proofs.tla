------------------------ MODULE VmController_proofs ------------------------
(***************************************************************************)
(* Requests that come one after the other never have two VMMs at once, and *)
(* getState() is true between them; and of the starts and closes of a VM   *)
(* the later one wins.                                                     *)
(*                                                                         *)
(* What makes OneTruthfulVm inductive is what a close() in progress knows: *)
(* the only VMM that may live is its target, the child is gone, the        *)
(* restart timer is not set, and as long as the target lives its exit will *)
(* be taken for a manual stop, so that it does not set the timer either.   *)
(*                                                                         *)
(* ClosesPrevail rests on the generations of VmLifecycle: a task of the    *)
(* present one has seen the last close begin, and no task has that of a    *)
(* timer.                                                                  *)
(*                                                                         *)
(* StoreStaysUsable is inductive as it stands: objects are never removed.  *)
(***************************************************************************)
EXTENDS VmController, VmLifecycle, ImageStore, FiniteSetTheorems, TLAPS

\* A close() that waits has a VMM to wait for.
ClosingHasTarget == \A c \in Calls : pc[c] = "closing" => target[c] \in Vms

\* Types, with what the action of a given-up close() needs to keep them.
TInv == TypeOK /\ ClosingHasTarget

\* No two requests are in progress.
OneCall == \A c, d \in Active : c = d

\* A close() in progress accounts for the only VMM that may live.
ClosingOwnsTheVm ==
  \A c \in Calls : pc[c] = "closing" =>
    /\ child = None /\ ~restartTimer
    /\ \A p \in Vms : Live(p) => p = target[c]
    /\ Live(target[c]) => manualStop

\* After it there is none, and the state says so.
ClosedLeavesNone ==
  \A c \in Calls : pc[c] = "closed" =>
    /\ child = None /\ state = "stopped"
    /\ \A p \in Vms : ~Live(p)

\* Between requests the only VMM that may live is the child.
QuietOwnsTheVm ==
  Active = {} => /\ state = "stopped" <=> child = None
                 /\ \A p \in Vms : Live(p) => p = child

Owned == ClosingOwnsTheVm /\ ClosedLeavesNone /\ QuietOwnsTheVm

\* The inductive invariant; a close() that has given up on a VMM ends its reach.
IInv == TInv /\ OneCall /\ (abandoned = {} => Owned)

-----------------------------------------------------------------------------
(* Types *)

\* start() numbers a new VMM or leaves the child that is there.
LEMMA StartTypes ==
  ASSUME TypeOK, Start
  PROVE  /\ spawns' \in 0 .. MaxSpawns
         /\ proc' \in [Vms -> {"none", "spawned", "alive", "exited"}]
         /\ signal' \in [Vms -> {"no", "term", "kill"}]
         /\ child' \in Vms /\ proc'[child'] \in {"spawned", "alive"}
         /\ state' \in {"stopped", "starting", "running"}
         /\ manualStop' \in BOOLEAN
<1>1. CASE child # None
  BY <1>1 DEF Start, TypeOK, Live, procVars
<1>2. CASE child = None
  <2>1. spawns + 1 \in Vms /\ spawns' = spawns + 1
    BY <1>2, ControllerAssumption DEF Start, TypeOK, Vms
  <2>2. proc' = [proc EXCEPT ![spawns + 1] = "spawned"] /\ child' = spawns + 1
        /\ state' = "starting" /\ manualStop' = FALSE /\ signal' = signal
    BY <1>2, <2>1 DEF Start
  <2>3. spawns' \in 0 .. MaxSpawns
    BY <2>1, ControllerAssumption DEF Vms
  <2>4. QED BY <2>1, <2>2, <2>3 DEF TypeOK
<1>3. QED BY <1>1, <1>2

LEMMA BeginCloseTypes ==
  ASSUME TInv, NEW c \in Calls, NEW o \in {"close", "restart"}, BeginClose(c, o),
         wanted' \in {"run", "stop", "failed"}
  PROVE  TInv'
<1> USE DEF TInv, ClosingHasTarget
<1>1. CASE child = None
  <2>1. /\ op' \in [Calls -> {"close", "restart"}]
        /\ pc' \in [Calls -> {"idle", "closing", "closed", "done"}]
    BY <1>1 DEF BeginClose, TypeOK
  <2>2. TypeOK'
    BY <1>1, <2>1 DEF BeginClose, TypeOK, Live
  <2>3. ClosingHasTarget'
    BY <1>1 DEF BeginClose, TypeOK
  <2>4. QED BY <2>2, <2>3
<1>2. CASE child # None
  <2>1. child \in Vms
    BY <1>2 DEF TypeOK
  <2>2. /\ op' \in [Calls -> {"close", "restart"}]
        /\ pc' \in [Calls -> {"idle", "closing", "closed", "done"}]
        /\ target' \in [Calls -> Vms \cup {None}]
        /\ signal' \in [Vms -> {"no", "term", "kill"}]
    BY <1>2, <2>1 DEF BeginClose, TypeOK
  <2>3. TypeOK'
    BY <1>2, <2>2 DEF BeginClose, TypeOK, Live
  <2>4. ClosingHasTarget'
    BY <1>2, <2>1 DEF BeginClose, TypeOK
  <2>5. QED BY <2>3, <2>4
<1>3. QED BY <1>1, <1>2

LEMMA TypeStep == TInv /\ [Next]_vars => TInv'
<1> SUFFICES ASSUME TInv, [Next]_vars PROVE TInv'
  OBVIOUS
<1>1. ASSUME NEW c \in Calls, NEW changed \in BOOLEAN, HandleBoot(c, changed)
      PROVE  TInv'
  <2>1. CASE BeginClose(c, "restart")
    BY <1>1, <2>1, BeginCloseTypes DEF HandleBoot
  <2>2. CASE Start /\ pc' = [pc EXCEPT ![c] = "done"]
                   /\ UNCHANGED <<op, target, restartTimer, abandoned>>
    BY <1>1, <2>2, StartTypes DEF HandleBoot, TypeOK, TInv, ClosingHasTarget, Live
  <2>3. QED BY <1>1, <2>1, <2>2 DEF HandleBoot
<1>2. ASSUME NEW c \in Calls, LifecycleRestart(c) PROVE TInv'
  BY <1>2, BeginCloseTypes DEF LifecycleRestart
<1>3. ASSUME NEW c \in Calls, Shutdown(c) PROVE TInv'
  BY <1>3, BeginCloseTypes DEF Shutdown
<1>4. ASSUME NEW c \in Calls, CloseWaited(c) PROVE TInv'
  BY <1>4 DEF CloseWaited, TypeOK, TInv, ClosingHasTarget, Live, procVars, histVars
<1>5. ASSUME NEW c \in Calls, Return(c) PROVE TInv'
  <2>1. CASE op[c] = "restart"
    BY <1>5, <2>1, StartTypes DEF Return, TypeOK, TInv, ClosingHasTarget, Live, histVars
  <2>2. CASE op[c] # "restart"
    BY <1>5, <2>2 DEF Return, TypeOK, TInv, ClosingHasTarget, Live, procVars, histVars
  <2>3. QED BY <2>1, <2>2
<1>6. ASSUME NEW c \in Calls, SigkillTimer(c) PROVE TInv'
  BY <1>6 DEF SigkillTimer, TypeOK, TInv, ClosingHasTarget, Live, ctlVars, callVars, histVars
<1>7. ASSUME NEW c \in Calls, CloseTimeout(c) PROVE TInv'
  <2>1. target[c] \in Vms
    BY <1>7 DEF CloseTimeout, TypeOK, TInv, ClosingHasTarget
  <2>2. QED BY <1>7, <2>1 DEF CloseTimeout, TypeOK, TInv, ClosingHasTarget, Live
<1>8. ASSUME NEW p \in Vms, VmSpawned(p) PROVE TInv'
  BY <1>8 DEF VmSpawned, TypeOK, TInv, ClosingHasTarget, Live, callVars, histVars
<1>9. ASSUME NEW p \in Vms, VmFails(p) PROVE TInv'
  BY <1>9 DEF VmFails, ClearsChild, TypeOK, TInv, ClosingHasTarget, Live, callVars, None
<1>10. ASSUME NEW p \in Vms, VmExits(p) PROVE TInv'
  BY <1>10 DEF VmExits, ClearsChild, TypeOK, TInv, ClosingHasTarget, Live, callVars, histVars, None
<1>11. CASE RestartTimer
  BY <1>11, StartTypes DEF RestartTimer, TypeOK, TInv, ClosingHasTarget, Live, callVars, histVars
<1>12. CASE UNCHANGED vars
  BY <1>12 DEF vars, procVars, ctlVars, callVars, histVars, TypeOK, TInv, ClosingHasTarget, Live
<1>13. QED
  BY <1>1, <1>2, <1>3, <1>4, <1>5, <1>6, <1>7, <1>8, <1>9, <1>10, <1>11, <1>12
  DEF Next, Call, Continue

LEMMA InitTypes == Init => TInv
<1> SUFFICES ASSUME Init PROVE TInv
  OBVIOUS
<1>1. spawns \in 0 .. MaxSpawns
  BY ControllerAssumption DEF Init
<1>2. QED BY <1>1 DEF Init, TInv, TypeOK, ClosingHasTarget

\* Types, and the child never is a VMM whose end has been reported, for any
\* number of requests that overlap or not.
THEOREM TypesHold == Spec => []TypeOK
<1>1. Init => TInv
  BY InitTypes
<1>2. TInv => TypeOK
  BY DEF TInv
<1>3. QED BY <1>1, <1>2, TypeStep, PTL DEF Spec

-----------------------------------------------------------------------------
(* One VMM at a time *)

\* A request begins only when no other is in progress; its close() takes the
\* child with it.
LEMMA BeginCloseOwned ==
  ASSUME IInv, Active = {}, NEW c \in Calls, NEW o \in {"close", "restart"}, BeginClose(c, o),
         pc[c] = "idle"
  PROVE  OneCall' /\ (abandoned' = {} => Owned')
<1>1. Active' = {c}
  BY DEF BeginClose, Active, IInv, TInv, TypeOK
<1>2. OneCall'
  BY <1>1 DEF OneCall
<1>3. ASSUME abandoned' = {} PROVE Owned'
  <2>1. Owned /\ abandoned = {}
    BY <1>3 DEF BeginClose, IInv
  <2>2. CASE child = None
    BY <1>1, <2>1, <2>2 DEF BeginClose, Owned, ClosingOwnsTheVm, ClosedLeavesNone,
      QuietOwnsTheVm, Active, Live, IInv, TInv, TypeOK, Vms, None
  <2>3. CASE child # None
    BY <1>1, <2>1, <2>3 DEF BeginClose, Owned, ClosingOwnsTheVm, ClosedLeavesNone,
      QuietOwnsTheVm, Active, Live, IInv, TInv, TypeOK
  <2>4. QED BY <2>2, <2>3
<1>4. QED BY <1>2, <1>3

\* A start() without a VMM spawns the only one.
LEMMA StartOwned ==
  ASSUME IInv, Start, child = None, Active' = {}, abandoned' = abandoned,
         abandoned = {} => \A p \in Vms : ~Live(p)
  PROVE  abandoned' = {} => Owned'
<1> SUFFICES ASSUME abandoned = {} PROVE Owned'
  OBVIOUS
<1>1. /\ spawns' \in Vms /\ proc' = [proc EXCEPT ![spawns'] = "spawned"]
      /\ child' = spawns' /\ state' = "starting"
  BY StartTypes DEF Start, IInv, TInv
<1>2. \A p \in Vms : Live(p)' => p = child'
  BY <1>1 DEF Live, IInv, TInv, TypeOK
<1>3. \A c \in Calls : pc'[c] \notin {"closing", "closed"}
  BY DEF Active
<1>4. QED
  BY <1>1, <1>2, <1>3 DEF Owned, ClosingOwnsTheVm, ClosedLeavesNone, QuietOwnsTheVm, None, Vms

LEMMA OwnedStep ==
  ASSUME Overlap = FALSE, IInv, [Next]_vars
  PROVE  OneCall' /\ (abandoned' = {} => Owned')
<1> USE DEF IInv, TInv, TypeOK
<1> USE DEF Owned, ClosingOwnsTheVm, ClosedLeavesNone, QuietOwnsTheVm
<1>1. ASSUME NEW c \in Calls, MayCall(c) PROVE Active = {} /\ pc[c] = "idle"
  BY <1>1 DEF MayCall
<1>2. ASSUME NEW c \in Calls, NEW changed \in BOOLEAN, HandleBoot(c, changed)
      PROVE  OneCall' /\ (abandoned' = {} => Owned')
  <2>1. Active = {} /\ pc[c] = "idle"
    BY <1>1, <1>2 DEF HandleBoot
  <2>2. CASE BeginClose(c, "restart")
    BY <2>1, <2>2, BeginCloseOwned
  <2>3. CASE /\ state = "stopped" /\ Start
             /\ pc' = [pc EXCEPT ![c] = "done"]
             /\ UNCHANGED <<op, target, restartTimer, abandoned>>
    <3>1. Active' = {}
      BY <2>1, <2>3 DEF Active
    <3>2. OneCall'
      BY <3>1 DEF OneCall
    <3>3. CASE child = None
      BY <2>1, <2>3, <3>1, <3>2, <3>3, StartOwned DEF None, Vms
    <3>4. CASE child # None
      <4>1. UNCHANGED <<procVars, child, state>>
        BY <2>3, <3>4 DEF Start
      <4>2. QED BY <2>1, <2>3, <3>1, <3>2, <4>1 DEF Active, Live, procVars
    <3>5. QED BY <3>3, <3>4
  <2>4. QED BY <1>2, <2>2, <2>3 DEF HandleBoot
<1>3. ASSUME NEW c \in Calls, LifecycleRestart(c)
      PROVE  OneCall' /\ (abandoned' = {} => Owned')
  BY <1>1, <1>3, BeginCloseOwned DEF LifecycleRestart
<1>4. ASSUME NEW c \in Calls, Shutdown(c)
      PROVE  OneCall' /\ (abandoned' = {} => Owned')
  BY <1>1, <1>4, BeginCloseOwned DEF Shutdown
<1>5. ASSUME NEW c \in Calls, CloseWaited(c)
      PROVE  OneCall' /\ (abandoned' = {} => Owned')
  <2>1. Active' = Active /\ Active = {c}
    BY <1>5 DEF CloseWaited, Active, OneCall
  <2>2. OneCall'
    BY <2>1 DEF OneCall
  <2>3. abandoned' = {} => Owned'
    BY <1>5, <2>1 DEF CloseWaited, HasExited, Live, procVars, histVars, Active
  <2>4. QED BY <2>2, <2>3
<1>6. ASSUME NEW c \in Calls, Return(c)
      PROVE  OneCall' /\ (abandoned' = {} => Owned')
  <2>1. Active' = {} /\ abandoned' = abandoned
    BY <1>6 DEF Return, Active, OneCall, histVars
  <2>2. OneCall'
    BY <2>1 DEF OneCall
  <2>3. CASE op[c] = "restart" /\ child = None
    <3>1. Start /\ (abandoned = {} => \A p \in Vms : ~Live(p))
      BY <1>6, <2>3 DEF Return
    <3>2. QED BY <2>1, <2>2, <2>3, <3>1, StartOwned
  <2>4. CASE op[c] # "restart"
    BY <1>6, <2>1, <2>2, <2>4 DEF Return, Active, Live, procVars
  <2>5. CASE op[c] = "restart" /\ child # None
    BY <1>6, <2>1, <2>2, <2>5 DEF Return
  <2>6. QED BY <2>3, <2>4, <2>5
<1>7. ASSUME NEW c \in Calls, SigkillTimer(c)
      PROVE  OneCall' /\ (abandoned' = {} => Owned')
  BY <1>7 DEF SigkillTimer, OneCall, Active, Live, ctlVars, callVars, histVars
<1>8. ASSUME NEW c \in Calls, CloseTimeout(c)
      PROVE  OneCall' /\ (abandoned' = {} => Owned')
  <2>1. abandoned' # {}
    BY <1>8 DEF CloseTimeout
  <2>2. OneCall'
    BY <1>8 DEF CloseTimeout, OneCall, Active
  <2>3. QED BY <2>1, <2>2
<1>9. ASSUME NEW p \in Vms, VmSpawned(p)
      PROVE  OneCall' /\ (abandoned' = {} => Owned')
  BY <1>9 DEF VmSpawned, OneCall, Active, Live, callVars, histVars, None, Vms
<1>10. ASSUME NEW p \in Vms, VmFails(p)
       PROVE  OneCall' /\ (abandoned' = {} => Owned')
  BY <1>10 DEF VmFails, ClearsChild, OneCall, Active, Live, callVars
<1>11. ASSUME NEW p \in Vms, VmExits(p)
       PROVE  OneCall' /\ (abandoned' = {} => Owned')
  BY <1>11 DEF VmExits, ClearsChild, OneCall, Active, Live, callVars, histVars
<1>12. CASE RestartTimer
  <2>1. OneCall' /\ Active' = Active /\ abandoned' = abandoned
    BY <1>12 DEF RestartTimer, OneCall, Active, callVars, histVars
  <2>2. ASSUME abandoned = {} PROVE Owned'
    <3>1. Active = {}
      BY <1>12, <2>2 DEF RestartTimer, Active, Settled, Resumable
    <3>2. CASE child = None
      <4>1. Start /\ \A p \in Vms : ~Live(p)
        BY <1>12, <2>2, <3>1, <3>2 DEF RestartTimer, None, Vms
      <4>2. QED BY <2>1, <2>2, <3>1, <3>2, <4>1, StartOwned
    <3>3. CASE child # None
      BY <1>12, <2>2, <3>1, <3>3 DEF RestartTimer, Start, Active, Live, procVars, callVars
    <3>4. QED BY <3>2, <3>3
  <2>3. QED BY <2>1, <2>2
<1>13. CASE UNCHANGED vars
  BY <1>13 DEF vars, procVars, ctlVars, callVars, histVars, OneCall, Active, Live
<1>14. QED
  BY <1>2, <1>3, <1>4, <1>5, <1>6, <1>7, <1>8, <1>9, <1>10, <1>11, <1>12, <1>13
  DEF Next, Call, Continue

\* The invariant gives what the run checks.
LEMMA OwnedGivesOne ==
  ASSUME IInv
  PROVE  OneTruthfulVm
<1>1. ASSUME abandoned = {} PROVE Cardinality({p \in Vms : Live(p)}) <= 1
  <2> DEFINE L == {p \in Vms : Live(p)}
  <2>1. \A p, q \in L : p = q
    <3>1. CASE Active = {}
      BY <1>1, <3>1 DEF IInv, Owned, QuietOwnsTheVm
    <3>2. CASE Active # {}
      BY <1>1, <3>2 DEF IInv, Owned, Active, ClosingOwnsTheVm, ClosedLeavesNone
    <3>3. QED BY <3>1, <3>2
  <2>2. CASE L = {}
    BY <2>2, FS_EmptySet
  <2>3. ASSUME NEW p \in L PROVE Cardinality(L) = 1
    <3>1. L = {p}
      BY <2>1
    <3>2. QED BY <3>1, FS_Singleton
  <2>4. QED BY <2>2, <2>3
<1>2. OneVmAtATime
  BY <1>1 DEF OneVmAtATime
<1>3. QuietStateTruthful
  BY DEF IInv, Owned, QuietOwnsTheVm, QuietStateTruthful
<1>4. QED BY <1>2, <1>3 DEF OneTruthfulVm, IInv, TInv

\* When requests come one after the other, two VMMs never run on the same
\* sockets and disk, and between requests getState() tells whether there is one:
\* for any number of requests, crashes, failed spawns and timeouts, until a
\* close() gives up on a VMM that outlives SIGKILL.
THEOREM OneVmAlways ==
  ASSUME Overlap = FALSE
  PROVE  Spec => []OneTruthfulVm
<1>1. Init => IInv
  <2> SUFFICES ASSUME Init PROVE IInv
    OBVIOUS
  <2>1. Active = {} /\ \A p \in Vms : ~Live(p)
    BY DEF Init, Active, Live
  <2>2. QED
    BY <2>1, InitTypes DEF Init, IInv, OneCall, Owned, ClosingOwnsTheVm, ClosedLeavesNone,
      QuietOwnsTheVm
<1>2. IInv /\ [Next]_vars => IInv'
  BY TypeStep, OwnedStep DEF IInv
<1>3. QED BY <1>1, <1>2, OwnedGivesOne, PTL DEF Spec

-----------------------------------------------------------------------------
(* Starts and closes of a VM: generations.                                   *)

States == {"unknown", "stopped", "starting", "running"}
Saws   == States \cup {"wait", "reject", "yes", "no"}
Stages == {"none", "server", "connect", "status", "boot", "running", "resize", "vfs", "ipc", "ok", "failed"}

VmFields   == [gen : Nat, state : States, conn : BOOLEAN, bootSent : BOOLEAN, vfs : {"none", "pending", "ready"},
               resized : BOOLEAN, ipc : BOOLEAN, registered : BOOLEAN, checkpointed : BOOLEAN,
               flight : Nat, tasks : Nat, timers : SUBSET Nat]
TaskFields == [pc : Stages, gen : Nat, explicit : BOOLEAN, saw : Saws, closes : Nat, exits : Nat]
CallFields == [st : {"idle", "waiting", "failed", "ok", "sent"}, task : Nat]
Facade     == [vm : VmFields, task : [Tasks -> TaskFields], call : [Callers -> CallFields]]

LifecycleTypeOK ==
  /\ vm \in VmFields /\ task \in [Tasks -> TaskFields] /\ call \in [Callers -> CallFields]
  /\ server \in [status : {"stopped", "starting", "running"}, bridges : BOOLEAN, exits : Nat, drops : Nat]
  /\ closing \in [pc : {"none", "ipc", "controller", "disconnect"}, keepIpc : BOOLEAN, begun : Nat, asked : Nat]

\* No task is of a later generation than the VM, and one of the present generation
\* has seen the close that is the last to have begun.  The generation of a timer is
\* no task's, so it is over once another start or close has come.
Generations ==
  /\ vm.timers \subseteq 1 .. vm.gen
  /\ \A t \in Tasks : task[t].gen <= vm.gen
  /\ \A t \in Tasks : (task[t].pc # "none" /\ task[t].gen = vm.gen) => task[t].closes = closing.begun
  /\ \A t \in Tasks : task[t].gen \notin vm.timers
  /\ vm.flight # NoFlight => vm.gen \notin vm.timers

LifecycleInv == LifecycleTypeOK /\ Generations

\* What a piece of code between two awaits may do to the facade: it settles the
\* flight, moves tasks on, and lets one succeed only in its generation.
Follows(m, n) ==
  /\ m \in Facade
  /\ m.vm.gen = n.vm.gen /\ m.vm.timers = n.vm.timers /\ m.vm.flight \in {n.vm.flight, NoFlight}
  /\ \A t \in Tasks :
       /\ m.task[t].gen = n.task[t].gen /\ m.task[t].closes = n.task[t].closes
       /\ m.task[t].pc = "none" <=> n.task[t].pc = "none"
       /\ m.task[t].pc = "ok" => (n.task[t].pc = "ok" \/ n.task[t].gen = n.vm.gen)

LEMMA FollowsTwice ==
  ASSUME NEW a, NEW b, NEW c, Follows(a, b), Follows(b, c)
  PROVE  Follows(a, c)
BY DEF Follows

LEMMA FollowsItself ==
  ASSUME NEW n \in Facade
  PROVE  Follows(n, n)
BY DEF Follows

LEMMA UpdateStateFollows ==
  ASSUME NEW n \in Facade, NEW s \in States
  PROVE  Follows(UpdateState(n, s), n)
<1>1. n.vm \in VmFields /\ n.task \in [Tasks -> TaskFields] /\ n.call \in [Callers -> CallFields]
  BY DEF Facade
<1> DEFINE v == [n.vm EXCEPT !.state = s]
           k == [t \in Tasks |->
                  IF n.task[t].saw = "wait" /\ (n.task[t].pc \in {"status", "boot"} \/ (n.task[t].pc = "running" /\ s = "running"))
                  THEN [n.task[t] EXCEPT !.saw = s] ELSE n.task[t]]
<1>2. UpdateState(n, s) = [n EXCEPT !.vm = v, !.task = k]
  BY DEF UpdateState, Facade
<1>3. v \in VmFields /\ v.gen = n.vm.gen /\ v.timers = n.vm.timers /\ v.flight = n.vm.flight
  BY <1>1 DEF VmFields
<1>4. \A t \in Tasks : k[t] \in TaskFields /\ k[t].pc = n.task[t].pc /\ k[t].gen = n.task[t].gen /\ k[t].closes = n.task[t].closes
  BY <1>1 DEF TaskFields, Saws
<1>5. k \in [Tasks -> TaskFields]
  BY <1>4
<1> HIDE DEF v, k
<1>6. /\ UpdateState(n, s) \in Facade
      /\ UpdateState(n, s).vm = v /\ UpdateState(n, s).task = k
  BY <1>2, <1>3, <1>5 DEF Facade
<1>7. QED BY <1>1, <1>2, <1>3, <1>4, <1>6 DEF Follows

LEMMA BroadcastFollows ==
  ASSUME NEW n \in Facade, NEW s \in States
  PROVE  Follows(Broadcast(n, s), n)
BY UpdateStateFollows, FollowsItself DEF Broadcast

LEMMA RejectSessionsFollows ==
  ASSUME NEW n \in Facade
  PROVE  Follows(RejectSessions(n), n)
<1>1. n.vm \in VmFields /\ n.task \in [Tasks -> TaskFields] /\ n.call \in [Callers -> CallFields]
  BY DEF Facade
<1> DEFINE v == [n.vm EXCEPT !.vfs = IF @ = "pending" THEN "none" ELSE @]
           k == [t \in Tasks |-> IF n.task[t].pc \in {"resize", "vfs"} /\ n.task[t].saw = "wait"
                                 THEN [n.task[t] EXCEPT !.saw = "reject"] ELSE n.task[t]]
           a == [c \in Callers |-> IF n.call[c].st = "sent" THEN [n.call[c] EXCEPT !.st = "failed"] ELSE n.call[c]]
<1>2. RejectSessions(n) = [n EXCEPT !.vm = v, !.task = k, !.call = a]
  BY DEF RejectSessions, Facade
<1>3. v \in VmFields /\ v.gen = n.vm.gen /\ v.timers = n.vm.timers /\ v.flight = n.vm.flight
  BY <1>1 DEF VmFields
<1>4. \A t \in Tasks : k[t] \in TaskFields /\ k[t].pc = n.task[t].pc /\ k[t].gen = n.task[t].gen /\ k[t].closes = n.task[t].closes
  BY <1>1 DEF TaskFields, Saws
<1>5. \A c \in Callers : a[c] \in CallFields
  BY <1>1 DEF CallFields
<1>6. k \in [Tasks -> TaskFields] /\ a \in [Callers -> CallFields]
  BY <1>4, <1>5
<1> HIDE DEF v, k, a
<1>7. /\ RejectSessions(n) \in Facade
      /\ RejectSessions(n).vm = v /\ RejectSessions(n).task = k
  BY <1>2, <1>3, <1>6 DEF Facade
<1>8. QED BY <1>1, <1>3, <1>4, <1>7 DEF Follows

LEMMA HandleDisconnectFollows ==
  ASSUME NEW n \in Facade
  PROVE  Follows(HandleDisconnect(n), n)
<1>1. PICK r : r = RejectSessions(n)
  OBVIOUS
<1>2. Follows(r, n) /\ r \in Facade
  BY <1>1, RejectSessionsFollows DEF Follows
<1>3. r.vm \in VmFields /\ r.task \in [Tasks -> TaskFields] /\ r.call \in [Callers -> CallFields]
  BY <1>2 DEF Facade
<1> DEFINE v == [r.vm EXCEPT !.conn = FALSE]
           k == [t \in Tasks |-> IF r.task[t].pc \in {"status", "boot", "running"} /\ r.task[t].saw = "wait"
                                 THEN [r.task[t] EXCEPT !.saw = "reject"] ELSE r.task[t]]
           a == [c \in Callers |-> IF setup.kind[c] = "exec" /\ r.call[c].st = "waiting"
                                   THEN [r.call[c] EXCEPT !.st = "failed"] ELSE r.call[c]]
<1>4. HandleDisconnect(n) = [r EXCEPT !.vm = v, !.task = k, !.call = a]
  BY <1>1, <1>2 DEF HandleDisconnect, Facade
<1>5. v \in VmFields /\ v.gen = r.vm.gen /\ v.timers = r.vm.timers /\ v.flight = r.vm.flight
  BY <1>3 DEF VmFields
<1>6. \A t \in Tasks : k[t] \in TaskFields /\ k[t].pc = r.task[t].pc /\ k[t].gen = r.task[t].gen /\ k[t].closes = r.task[t].closes
  BY <1>3 DEF TaskFields, Saws
<1>7. \A c \in Callers : a[c] \in CallFields
  BY <1>3 DEF CallFields
<1>8. k \in [Tasks -> TaskFields] /\ a \in [Callers -> CallFields]
  BY <1>6, <1>7
<1> HIDE DEF v, k, a
<1>9. /\ HandleDisconnect(n) \in Facade
      /\ HandleDisconnect(n).vm = v /\ HandleDisconnect(n).task = k
  BY <1>2, <1>4, <1>5, <1>8 DEF Facade
<1>10. Follows(HandleDisconnect(n), r)
  BY <1>3, <1>5, <1>6, <1>9 DEF Follows
<1>11. QED BY <1>2, <1>10, FollowsTwice

LEMMA SettleFollows ==
  ASSUME NEW n \in Facade, NEW t, NEW ok \in BOOLEAN
  PROVE  Follows(Settle(n, t, ok), n) /\ Settle(n, t, ok).vm.flight = NoFlight
<1>1. n.vm \in VmFields /\ n.task \in [Tasks -> TaskFields] /\ n.call \in [Callers -> CallFields]
  BY DEF Facade
<1> DEFINE v == [n.vm EXCEPT !.flight = NoFlight]
           a == [c \in Callers |->
                  IF n.call[c].task # t \/ n.call[c].st # "waiting" THEN n.call[c]
                  ELSE [n.call[c] EXCEPT !.st = IF ~ok THEN "failed"
                                                ELSE IF setup.kind[c] = "start" THEN "ok"
                                                ELSE IF n.vm.conn THEN "sent" ELSE "failed"]]
<1>2. Settle(n, t, ok) = [n EXCEPT !.vm = v, !.call = a]
  BY DEF Settle, Facade
<1>3. v \in VmFields /\ v.gen = n.vm.gen /\ v.timers = n.vm.timers /\ v.flight = NoFlight
  BY <1>1 DEF VmFields, NoFlight
<1>4. \A c \in Callers : a[c] \in CallFields
  BY <1>1 DEF CallFields
<1>5. a \in [Callers -> CallFields]
  BY <1>4
<1> HIDE DEF v, a
<1>6. /\ Settle(n, t, ok) \in Facade
      /\ Settle(n, t, ok).vm = v /\ Settle(n, t, ok).task = n.task
  BY <1>2, <1>3, <1>5 DEF Facade
<1>7. QED BY <1>1, <1>3, <1>6 DEF Follows

\* A task goes on to its next await, and ends.
LEMMA GoToFollows ==
  ASSUME NEW n \in Facade, NEW t \in Tasks, NEW stage \in Stages \ {"none"}, NEW saw \in Saws,
         n.task[t].pc # "none", stage = "ok" => n.task[t].gen = n.vm.gen
  PROVE  Follows(GoTo(n, t, stage, saw), n) /\ GoTo(n, t, stage, saw).vm = n.vm
<1>1. n.vm \in VmFields /\ n.task \in [Tasks -> TaskFields] /\ n.call \in [Callers -> CallFields]
  BY DEF Facade
<1> DEFINE new == [n.task[t] EXCEPT !.pc = stage, !.saw = saw]
<1>2. new \in TaskFields /\ new.pc = stage /\ new.gen = n.task[t].gen /\ new.closes = n.task[t].closes
  BY <1>1 DEF TaskFields
<1>3. GoTo(n, t, stage, saw) = [n EXCEPT !.task = [n.task EXCEPT ![t] = new]]
  BY <1>1 DEF GoTo, Facade
<1> HIDE DEF new
<1> DEFINE k == [n.task EXCEPT ![t] = new]
<1>4. k \in [Tasks -> TaskFields] /\ \A u \in Tasks : k[u] = IF u = t THEN new ELSE n.task[u]
  BY <1>1, <1>2
<1> HIDE DEF k
<1>5. /\ GoTo(n, t, stage, saw) \in Facade
      /\ GoTo(n, t, stage, saw).vm = n.vm /\ GoTo(n, t, stage, saw).task = k
  BY <1>3, <1>4 DEF Facade, k
<1>6. QED BY <1>1, <1>2, <1>4, <1>5 DEF Follows

LEMMA EndFollows ==
  ASSUME NEW n \in Facade, NEW t \in Tasks, NEW ok \in BOOLEAN,
         n.task[t].pc # "none", ok => n.task[t].gen = n.vm.gen
  PROVE  Follows(End(n, t, ok), n)
<1>1. PICK stage : stage = IF ok THEN "ok" ELSE "failed"
  OBVIOUS
<1>2. PICK e : e = GoTo(n, t, stage, "wait")
  OBVIOUS
<1>3. End(n, t, ok) = IF n.vm.flight = t THEN Settle(e, t, ok) ELSE e
  BY <1>1, <1>2 DEF End, GoTo
<1>4. Follows(e, n) /\ e \in Facade
  BY <1>1, <1>2, GoToFollows DEF Stages, Saws, Follows
<1>5. Follows(Settle(e, t, ok), n)
  BY <1>4, SettleFollows, FollowsTwice
<1>6. QED BY <1>3, <1>4, <1>5

\* Fields of the VM that say nothing of generations.
LEMMA VmFollows ==
  ASSUME NEW n \in Facade, NEW v \in VmFields,
         v.gen = n.vm.gen, v.timers = n.vm.timers, v.flight = n.vm.flight
  PROVE  Follows([n EXCEPT !.vm = v], n) /\ [n EXCEPT !.vm = v].task = n.task
<1>1. [n EXCEPT !.vm = v] \in Facade /\ [n EXCEPT !.vm = v].vm = v /\ [n EXCEPT !.vm = v].task = n.task
  BY DEF Facade
<1>2. QED BY <1>1 DEF Follows

-----------------------------------------------------------------------------
(* The actions.                                                              *)

\* What one step must do for the two action properties.
Succeeds == \A t \in Tasks : (task'[t].pc = "ok" /\ task[t].pc # "ok") => closing.begun = task[t].closes
Cleans ==
  \A g \in vm.timers \ vm'.timers :
    closing'.begun # closing.begun => (vm.flight = NoFlight /\ \A t \in Tasks : task[t].gen < g)

ServerFields  == [status : {"stopped", "starting", "running"}, bridges : BOOLEAN, exits : Nat, drops : Nat]
ClosingFields == [pc : {"none", "ipc", "controller", "disconnect"}, keepIpc : BOOLEAN, begun : Nat, asked : Nat]

LEMMA LifecycleTypes ==
  ASSUME LifecycleInv
  PROVE  /\ Now \in Facade /\ Now.vm = vm /\ Now.task = task /\ Now.call = call
         /\ server \in ServerFields /\ closing \in ClosingFields
         /\ server.status \in States
BY DEF LifecycleInv, LifecycleTypeOK, Now, Facade, ServerFields, ClosingFields, States

LEMMA LifecycleInitHolds == LifecycleInit => LifecycleInv
<1> SUFFICES ASSUME LifecycleInit PROVE LifecycleInv
  OBVIOUS
<1>1. vm \in VmFields /\ vm.gen = 0 /\ vm.timers = {} /\ vm.flight = NoFlight
  BY DEF LifecycleInit, VmFields, States, NoFlight
<1>2. NoTask \in TaskFields /\ NoTask.gen = 0 /\ NoTask.pc = "none"
  BY DEF NoTask, TaskFields, Stages, Saws
<1>3. task = [t \in Tasks |-> NoTask]
  BY DEF LifecycleInit
<1>4. call \in [Callers -> CallFields]
  BY DEF LifecycleInit, CallFields, NoFlight
<1>5. server \in ServerFields /\ closing \in ClosingFields
  BY DEF LifecycleInit, ServerFields, ClosingFields
<1>6. LifecycleTypeOK
  BY <1>1, <1>2, <1>3, <1>4, <1>5 DEF LifecycleTypeOK, ServerFields, ClosingFields
<1>7. Generations
  BY <1>1, <1>2, <1>3 DEF Generations
<1>8. QED BY <1>6, <1>7 DEF LifecycleInv

\* Code that follows the facade and begins no close.
LEMMA FollowKeeps ==
  ASSUME LifecycleInv, NEW n, Set(n), Follows(n, Now),
         server' \in ServerFields, closing' \in ClosingFields, closing'.begun = closing.begun
  PROVE  LifecycleInv' /\ Succeeds /\ Cleans
<1>1. n \in Facade /\ vm' = n.vm /\ task' = n.task /\ call' = n.call
  BY DEF Follows, Set
<1>2. LifecycleTypeOK'
  BY <1>1 DEF Facade, LifecycleTypeOK, ServerFields, ClosingFields
<1>3. /\ vm'.gen = vm.gen /\ vm'.timers = vm.timers /\ vm'.flight \in {vm.flight, NoFlight}
      /\ \A t \in Tasks :
           /\ task'[t].gen = task[t].gen /\ task'[t].closes = task[t].closes
           /\ task'[t].pc = "none" <=> task[t].pc = "none"
           /\ task'[t].pc = "ok" => (task[t].pc = "ok" \/ task[t].gen = vm.gen)
  BY <1>1, LifecycleTypes DEF Follows
<1>4. Generations'
  BY <1>3 DEF LifecycleInv, Generations
<1>5. Succeeds
  BY <1>3 DEF LifecycleInv, Generations, Succeeds
<1>6. Cleans
  BY <1>3 DEF Cleans
<1>7. QED BY <1>2, <1>4, <1>5, <1>6 DEF LifecycleInv

\* Nothing of the facade moves.
LEMMA NothingMoves ==
  ASSUME LifecycleInv, UNCHANGED <<vm, task>>, call' \in [Callers -> CallFields],
         server' \in ServerFields, closing' \in ClosingFields, closing'.begun = closing.begun
  PROVE  LifecycleInv' /\ Succeeds /\ Cleans
BY DEF LifecycleInv, LifecycleTypeOK, Generations, Succeeds, Cleans, ServerFields, ClosingFields

LEMMA CallVmKeeps ==
  ASSUME LifecycleInv, NEW c \in Callers, CallVm(c)
  PROVE  LifecycleInv' /\ Succeeds /\ Cleans
<1>1. server' = server /\ server \in ServerFields /\ closing \in ClosingFields
      /\ vm \in VmFields /\ task \in [Tasks -> TaskFields] /\ call \in [Callers -> CallFields]
  BY LifecycleTypes DEF CallVm, LifecycleInv, LifecycleTypeOK
<1>2. CASE vm.flight # NoFlight \/ vm.checkpointed
  <2>1. UNCHANGED <<vm, task, closing>>
    BY <1>2 DEF CallVm
  <2>2. /\ vm.flight \in Nat
        /\ \/ call' = [call EXCEPT ![c] = [st |-> "waiting", task |-> vm.flight]]
           \/ call' = [call EXCEPT ![c].st = "failed"]
    BY <1>1, <1>2 DEF CallVm, VmFields
  <2>3. call' \in [Callers -> CallFields]
    <3>1. [st |-> "waiting", task |-> vm.flight] \in CallFields
      BY <2>2 DEF CallFields
    <3>2. [call[c] EXCEPT !.st = "failed"] \in CallFields
      BY <1>1 DEF CallFields
    <3>3. QED BY <1>1, <2>2, <3>1, <3>2
  <2>4. QED BY <1>1, <2>1, <2>3, NothingMoves
<1>3. CASE vm.flight = NoFlight /\ ~vm.checkpointed
  <2>1. PICK t : t = vm.tasks + 1
    OBVIOUS
  <2> DEFINE new == [NoTask EXCEPT !.pc = "server", !.gen = vm.gen + 1,
                                   !.explicit = setup.kind[c] = "start", !.closes = closing.begun,
                                   !.exits = server.exits]
  <2>2. /\ vm' = [vm EXCEPT !.gen = @ + 1, !.tasks = t, !.flight = t]
        /\ task' = [task EXCEPT ![t] = new]
        /\ call' = [call EXCEPT ![c] = [st |-> "waiting", task |-> t]]
        /\ closing' = closing
    BY <1>3, <2>1 DEF CallVm
  <2>3. t \in Nat /\ vm.gen \in Nat /\ vm.timers \subseteq Nat
    BY <1>1, <2>1 DEF VmFields
  <2>4. /\ vm' \in VmFields /\ vm'.gen = vm.gen + 1 /\ vm'.flight = t /\ vm'.timers = vm.timers
    <3>1. vm'.gen = vm.gen + 1 /\ vm'.flight = t /\ vm'.timers = vm.timers
      BY <1>1, <2>2 DEF VmFields
    <3>2. vm.gen + 1 \in Nat
      BY <2>3
    <3>3. \A x \in Nat : [vm EXCEPT !.gen = x] \in VmFields
      BY <1>1 DEF VmFields
    <3>4. \A w \in VmFields : [w EXCEPT !.tasks = t, !.flight = t] \in VmFields
      BY <2>3 DEF VmFields
    <3>5. PICK x : x = vm.gen + 1
      OBVIOUS
    <3>6. PICK w : w = [vm EXCEPT !.gen = x]
      OBVIOUS
    <3>7. w \in VmFields
      BY <3>2, <3>3, <3>5, <3>6
    <3>8. vm' = [w EXCEPT !.tasks = t, !.flight = t]
      BY <1>1, <2>2, <3>5, <3>6 DEF VmFields
    <3>9. QED BY <3>1, <3>4, <3>7, <3>8
  <2>5. closing.begun \in Nat /\ server.exits \in Nat
    BY <1>1 DEF ClosingFields, ServerFields
  <2>6. new \in TaskFields /\ new.gen = vm.gen + 1 /\ new.closes = closing.begun /\ new.pc = "server"
    <3>1. NoTask \in TaskFields
      BY DEF NoTask, TaskFields, Stages, Saws
    <3>2. \A g, b, x \in Nat, e \in BOOLEAN :
             [NoTask EXCEPT !.pc = "server", !.gen = g, !.explicit = e, !.closes = b, !.exits = x] \in TaskFields
      BY <3>1 DEF TaskFields, Stages
    <3>3. vm.gen + 1 \in Nat /\ (setup.kind[c] = "start") \in BOOLEAN
      BY <2>3
    <3>4. new \in TaskFields
      BY <2>5, <3>2, <3>3
    <3>5. new.gen = vm.gen + 1 /\ new.closes = closing.begun /\ new.pc = "server"
      BY DEF NoTask
    <3>6. QED BY <3>4, <3>5
  <2> HIDE DEF new
  <2>7. /\ task' \in [Tasks -> TaskFields]
        /\ \A u \in Tasks : task'[u] = IF u = t THEN new ELSE task[u]
    BY <1>1, <2>2, <2>6
  <2>8. call' \in [Callers -> CallFields]
    <3>1. [st |-> "waiting", task |-> t] \in CallFields
      BY <2>3 DEF CallFields
    <3>2. QED BY <1>1, <2>2, <3>1
  <2>9. closing' \in ClosingFields /\ closing'.begun = closing.begun
    BY <1>1, <2>2 DEF ClosingFields
  <2>10. LifecycleTypeOK'
    BY <1>1, <2>4, <2>7, <2>8, <2>9 DEF LifecycleTypeOK, ServerFields, ClosingFields
  <2>11. \A u \in Tasks : task[u].gen \in Nat
    BY <1>1 DEF TaskFields
  <2>12. Generations'
    BY <2>3, <2>4, <2>6, <2>7, <2>9, <2>11 DEF LifecycleInv, Generations
  <2>13. Succeeds /\ Cleans
    BY <2>4, <2>6, <2>7 DEF Succeeds, Cleans
  <2>14. QED BY <2>10, <2>12, <2>13 DEF LifecycleInv
<1>4. QED BY <1>2, <1>3

\* A close begins a generation of its own; it takes away timers only when it is
\* the clean-up of one.
LEMMA CloseBeginsKeeps ==
  ASSUME LifecycleInv, NEW n \in Facade, NEW keepIpc \in BOOLEAN, NEW calls \in Nat, CloseBegins(n, keepIpc, calls),
         server' = server,
         n.task = task, n.vm.gen = vm.gen, n.vm.timers \subseteq vm.timers, n.vm.flight = vm.flight
  PROVE  LifecycleInv' /\ Succeeds /\ closing'.begun # closing.begun /\ vm'.timers = n.vm.timers
<1>1. n.vm \in VmFields /\ n.task \in [Tasks -> TaskFields] /\ n.call \in [Callers -> CallFields]
      /\ server \in ServerFields /\ closing \in ClosingFields
  BY LifecycleTypes DEF Facade
<1>2. [n EXCEPT !.vm.gen = @ + 1] = [n EXCEPT !.vm = [n.vm EXCEPT !.gen = @ + 1]]
  BY DEF Facade
<1> DEFINE v == [n.vm EXCEPT !.gen = @ + 1]
<1>3. v \in VmFields /\ v.gen = n.vm.gen + 1 /\ v.timers = n.vm.timers /\ v.flight = n.vm.flight /\ n.vm.gen \in Nat
  BY <1>1 DEF VmFields
<1>4. Set([n EXCEPT !.vm = v])
  BY <1>2 DEF CloseBegins
<1> HIDE DEF v
<1>5. vm' = v /\ task' = n.task /\ call' = n.call
  BY <1>4 DEF Set, Facade
<1>6. closing' \in ClosingFields /\ closing'.begun = closing.begun + 1 /\ closing.begun \in Nat
  <2>1. closing.begun \in Nat /\ closing.begun + 1 \in Nat /\ closing.asked + calls \in Nat
    BY <1>1 DEF ClosingFields
  <2>2. closing' = [closing EXCEPT !.pc = "ipc", !.keepIpc = keepIpc, !.begun = @ + 1, !.asked = @ + calls]
    BY DEF CloseBegins
  <2>3. closing'.begun = closing.begun + 1
    BY <1>1, <2>2 DEF ClosingFields
  <2>4. \A b, a \in Nat :
          [closing EXCEPT !.pc = "ipc", !.keepIpc = keepIpc, !.begun = b, !.asked = a] \in ClosingFields
    BY <1>1 DEF ClosingFields
  <2>5. PICK b, a : b = closing.begun + 1 /\ a = closing.asked + calls
    OBVIOUS
  <2>6. closing' = [closing EXCEPT !.pc = "ipc", !.keepIpc = keepIpc, !.begun = b, !.asked = a]
    BY <1>1, <2>2, <2>5 DEF ClosingFields
  <2>7. QED BY <2>1, <2>3, <2>4, <2>5, <2>6
<1>7. LifecycleTypeOK'
  BY <1>1, <1>3, <1>5, <1>6 DEF LifecycleTypeOK, ServerFields, ClosingFields
<1>8. \A u \in Tasks : task[u].gen \in Nat
  BY <1>1 DEF TaskFields
<1>9. Generations'
  BY <1>3, <1>5, <1>6, <1>8 DEF LifecycleInv, Generations
<1>10. Succeeds
  BY <1>5 DEF Succeeds
<1>11. QED BY <1>3, <1>5, <1>6, <1>7, <1>9, <1>10 DEF LifecycleInv

LEMMA CloseKeeps ==
  ASSUME LifecycleInv, NEW keepIpc \in BOOLEAN, NEW calls \in Nat, CloseBegins(Now, keepIpc, calls), server' = server
  PROVE  LifecycleInv' /\ Succeeds /\ Cleans
<1>1. LifecycleInv' /\ Succeeds /\ vm'.timers = vm.timers
  BY LifecycleTypes, CloseBeginsKeeps
<1>2. QED BY <1>1 DEF Cleans

LEMMA TimerFiresKeeps ==
  ASSUME LifecycleInv, NEW g \in vm.timers, TimerFires(g)
  PROVE  LifecycleInv' /\ Succeeds /\ Cleans
<1>1. server' = server /\ Now \in Facade /\ server \in ServerFields /\ closing \in ClosingFields
      /\ vm \in VmFields /\ task \in [Tasks -> TaskFields] /\ call \in [Callers -> CallFields]
  BY LifecycleTypes DEF TimerFires, LifecycleInv, LifecycleTypeOK
<1> DEFINE v == [vm EXCEPT !.timers = @ \ {g}]
           n == [Now EXCEPT !.vm = v]
<1>2. [Now EXCEPT !.vm.timers = @ \ {g}] = n
  BY <1>1, LifecycleTypes DEF Facade
<1>3. v \in VmFields /\ v.gen = vm.gen /\ v.timers = vm.timers \ {g} /\ v.flight = vm.flight
  BY <1>1 DEF VmFields
<1> HIDE DEF v
<1>4. n \in Facade /\ n.vm = v /\ n.task = task /\ n.call = call
  BY <1>1, <1>3, LifecycleTypes DEF Facade
<1> HIDE DEF n
<1>5. CASE Stale(g) /\ closing.pc = "none"
  <2>1. CloseBegins(n, FALSE, 0)
    BY <1>2, <1>5 DEF TimerFires
  <2>2. LifecycleInv' /\ Succeeds /\ vm'.timers = vm.timers \ {g}
    BY <1>1, <1>3, <1>4, <2>1, CloseBeginsKeeps
  <2>3. vm.gen = g /\ \A t \in Tasks : task[t].gen \in Nat
    BY <1>1, <1>5 DEF Stale, TaskFields
  <2>4. vm.flight = NoFlight /\ \A t \in Tasks : task[t].gen < g
    BY <1>1, <2>3 DEF LifecycleInv, Generations, VmFields
  <2>5. QED BY <2>2, <2>4 DEF Cleans
<1>6. CASE ~(Stale(g) /\ closing.pc = "none")
  <2>1. Set(n) /\ UNCHANGED closing
    BY <1>2, <1>6 DEF TimerFires
  <2>2. vm' = v /\ task' = task /\ call' = call
    BY <1>4, <2>1 DEF Set
  <2>3. LifecycleTypeOK'
    BY <1>1, <1>3, <2>1, <2>2 DEF LifecycleTypeOK, ServerFields, ClosingFields
  <2>4. Generations'
    BY <1>3, <2>1, <2>2 DEF LifecycleInv, Generations
  <2>5. QED BY <2>1, <2>2, <2>3, <2>4 DEF LifecycleInv, Succeeds, Cleans
<1>7. QED BY <1>5, <1>6

\* A step of a task.
LEMMA IfWantedKeeps ==
  ASSUME LifecycleInv, NEW t \in Tasks, NEW n, IfWanted(t, n), task[t].pc # "none", Follows(n, Now),
         server' \in ServerFields, closing' \in ClosingFields, closing'.begun = closing.begun
  PROVE  LifecycleInv' /\ Succeeds /\ Cleans
<1>1. Follows(End(Now, t, FALSE), Now)
  BY LifecycleTypes, EndFollows
<1>2. PICK m : m = IF Wanted(t) THEN n ELSE End(Now, t, FALSE)
  OBVIOUS
<1>3. Follows(m, Now) /\ Set(m)
  BY <1>1, <1>2 DEF IfWanted
<1>4. QED BY <1>3, FollowKeeps

\* The vm of a facade with fields that say nothing of generations.
LEMMA FieldsFollow ==
  ASSUME NEW n \in Facade, NEW s \in States, NEW f \in {"none", "pending", "ready"}, NEW b \in BOOLEAN, NEW d \in BOOLEAN
  PROVE  /\ Follows([n EXCEPT !.vm.state = s, !.vm.bootSent = b, !.vm.vfs = f], n)
         /\ Follows([n EXCEPT !.vm.conn = b], n) /\ [n EXCEPT !.vm.conn = b].task = n.task
         /\ Follows([n EXCEPT !.vm.bootSent = b], n) /\ [n EXCEPT !.vm.bootSent = b].task = n.task
         /\ Follows([n EXCEPT !.vm.vfs = f], n)
         /\ Follows([n EXCEPT !.vm.resized = b], n) /\ [n EXCEPT !.vm.resized = b].task = n.task
         /\ Follows([n EXCEPT !.vm.ipc = b, !.vm.registered = d], n)
<1>1. n.vm \in VmFields
  BY DEF Facade
<1>2. [n EXCEPT !.vm.state = s, !.vm.bootSent = b, !.vm.vfs = f] =
      [n EXCEPT !.vm = [n.vm EXCEPT !.state = s, !.bootSent = b, !.vfs = f]]
  BY DEF Facade
<1>3. [n EXCEPT !.vm.conn = b] = [n EXCEPT !.vm = [n.vm EXCEPT !.conn = b]]
  BY DEF Facade
<1>4. [n EXCEPT !.vm.bootSent = b] = [n EXCEPT !.vm = [n.vm EXCEPT !.bootSent = b]]
  BY DEF Facade
<1>5. [n EXCEPT !.vm.vfs = f] = [n EXCEPT !.vm = [n.vm EXCEPT !.vfs = f]]
  BY DEF Facade
<1>6. [n EXCEPT !.vm.resized = b] = [n EXCEPT !.vm = [n.vm EXCEPT !.resized = b]]
  BY DEF Facade
<1>7. [n EXCEPT !.vm.ipc = b, !.vm.registered = d] = [n EXCEPT !.vm = [n.vm EXCEPT !.ipc = b, !.registered = d]]
  BY DEF Facade
<1> DEFINE Same(v) == v \in VmFields /\ v.gen = n.vm.gen /\ v.timers = n.vm.timers /\ v.flight = n.vm.flight
<1>8. Same([n.vm EXCEPT !.state = s, !.bootSent = b, !.vfs = f])
  BY <1>1 DEF VmFields
<1>9. Same([n.vm EXCEPT !.conn = b]) /\ Same([n.vm EXCEPT !.bootSent = b])
  BY <1>1 DEF VmFields
<1>10. Same([n.vm EXCEPT !.vfs = f]) /\ Same([n.vm EXCEPT !.resized = b])
  BY <1>1 DEF VmFields
<1>11. Same([n.vm EXCEPT !.ipc = b, !.registered = d])
  BY <1>1 DEF VmFields
<1>12. \A v : Same(v) => Follows([n EXCEPT !.vm = v], n) /\ [n EXCEPT !.vm = v].task = n.task
  BY VmFollows
<1> HIDE DEF Same
<1>13. QED BY <1>2, <1>3, <1>4, <1>5, <1>6, <1>7, <1>8, <1>9, <1>10, <1>11, <1>12

LEMMA ToResizeFollows ==
  ASSUME NEW n \in Facade, NEW t \in Tasks, n.task[t].pc # "none"
  PROVE  Follows(ToResize(n, t), n)
BY GoToFollows DEF ToResize, Stages, Saws

LEMMA ToVfsFollows ==
  ASSUME NEW n \in Facade, NEW t \in Tasks, n.task[t].pc # "none"
  PROVE  Follows(ToVfs(n, t), n)
<1>1. \A saw \in Saws : Follows(GoTo(n, t, "vfs", saw), n)
  BY GoToFollows DEF Stages
<1>2. {"yes", "reject", "wait"} \subseteq Saws
  BY DEF Saws
<1>3. PICK m : m = GoTo(n, t, "vfs", "wait")
  OBVIOUS
<1>4. Follows(m, n) /\ m \in Facade
  BY <1>1, <1>2, <1>3 DEF Follows
<1>5. Follows([m EXCEPT !.vm.vfs = "pending"], n)
  BY <1>4, FieldsFollow, FollowsTwice DEF States
<1>6. QED BY <1>1, <1>2, <1>3, <1>5 DEF ToVfs

LEMMA StepKeeps ==
  ASSUME LifecycleInv, NEW t \in Tasks, Step(t)
  PROVE  LifecycleInv' /\ Succeeds /\ Cleans
<1>1. /\ Now \in Facade /\ Now.vm = vm /\ Now.task = task
      /\ server \in ServerFields /\ closing \in ClosingFields /\ server.status \in States
      /\ vm \in VmFields /\ task \in [Tasks -> TaskFields]
  BY LifecycleTypes DEF LifecycleInv, LifecycleTypeOK
<1>2. closing' = closing
  BY DEF Step, AfterServer, AfterConnect, AfterStatus, AfterBoot, AfterRunning, AfterResize, AfterVfs, AfterGc
<1>3. task[t].pc # "none"
  BY DEF Step, AfterServer, AfterConnect, AfterStatus, AfterBoot, AfterRunning, AfterResize, AfterVfs, AfterGc
<1>4. vm.state \in States /\ vm.state \in Saws /\ task[t].saw \in Saws
  BY <1>1 DEF VmFields, TaskFields, Saws
<1>5. Follows(End(Now, t, FALSE), Now)
  BY <1>1, <1>3, EndFollows
<1>6. \A n, stage, saw : (n \in Facade /\ stage \in Stages \ {"none", "ok"} /\ saw \in Saws /\ n.task[t].pc # "none")
        => Follows(GoTo(n, t, stage, saw), n)
  BY GoToFollows
<1>7. {"wait", "yes", "no", "reject", "running"} \subseteq Saws
      /\ {"connect", "status", "boot", "running", "resize", "vfs", "ipc"} \subseteq Stages \ {"none", "ok"}
  BY DEF Saws, States, Stages
<1>8. CASE AfterServer(t)
  <2>1. PICK m : m = GoTo(Now, t, "connect", "wait")
    OBVIOUS
  <2>2. Follows(m, Now) /\ m \in Facade
    BY <1>1, <1>3, <1>6, <1>7, <2>1 DEF Follows
  <2>3. Follows([m EXCEPT !.vm.state = "unknown", !.vm.bootSent = FALSE, !.vm.vfs = "none"], Now)
    BY <2>2, FieldsFollow, FollowsTwice DEF States
  <2>4. PICK n : n = IF vm.conn THEN m
                     ELSE [m EXCEPT !.vm.state = "unknown", !.vm.bootSent = FALSE, !.vm.vfs = "none"]
    OBVIOUS
  <2>5. Follows(n, Now) /\ IfWanted(t, n) /\ server' = server
    BY <1>8, <2>1, <2>2, <2>3, <2>4 DEF AfterServer
  <2>6. QED BY <1>1, <1>2, <1>3, <2>5, IfWantedKeeps
<1>9. CASE AfterConnect(t)
  <2>1. PICK m : m = [Now EXCEPT !.vm.conn = TRUE]
    OBVIOUS
  <2>2. Follows(m, Now) /\ m \in Facade
    <3>1. Follows([Now EXCEPT !.vm.conn = TRUE], Now)
      BY <1>1, FieldsFollow DEF States
    <3>2. QED BY <2>1, <3>1 DEF Follows
  <2>3. PICK n : n = IF vm.conn THEN Now ELSE UpdateState(m, server.status)
    OBVIOUS
  <2>4. Follows(n, Now)
    BY <1>1, <2>2, <2>3, FollowsItself, FollowsTwice, UpdateStateFollows
  <2>5. n \in Facade /\ n.task[t].pc # "none" /\ n.vm.state \in Saws
    BY <1>1, <1>3, <2>4 DEF Follows, Facade, VmFields, Saws
  <2>6. PICK saw : saw = IF n.vm.state = "unknown" THEN "wait" ELSE n.vm.state
    OBVIOUS
  <2>7. Follows(GoTo(n, t, "status", saw), Now)
    BY <1>6, <1>7, <2>4, <2>5, <2>6, FollowsTwice
  <2>8. Follows(End(n, t, FALSE), Now)
    BY <2>4, <2>5, EndFollows, FollowsTwice
  <2>9. PICK k : k = IF Wanted(t) THEN GoTo(n, t, "status", saw) ELSE End(n, t, FALSE)
    OBVIOUS
  <2>10. Follows(k, Now) /\ Set(k) /\ server' = server
    BY <1>9, <2>1, <2>3, <2>6, <2>7, <2>8, <2>9 DEF AfterConnect
  <2>11. QED BY <1>1, <1>2, <2>10, FollowKeeps
<1>10. CASE AfterStatus(t)
  <2>1. CASE task[t].saw = "reject" \/ (task[t].saw = "stopped" /\ ~setup.autoStart /\ ~task[t].explicit)
    <3>1. Set(End(Now, t, FALSE)) /\ UNCHANGED server
      BY <1>10, <2>1 DEF AfterStatus
    <3>2. QED BY <1>1, <1>2, <1>5, <3>1, FollowKeeps
  <2>2. CASE ~(task[t].saw = "reject" \/ (task[t].saw = "stopped" /\ ~setup.autoStart /\ ~task[t].explicit))
    <3>1. PICK status : status = IF ~vm.bootSent /\ server.status = "stopped" THEN "starting" ELSE server.status
      OBVIOUS
    <3>2. status \in States /\ status \in {"stopped", "starting", "running"}
      BY <1>1, <3>1 DEF ServerFields, States
    <3>3. PICK m : m = [Now EXCEPT !.vm.bootSent = TRUE]
      OBVIOUS
    <3>4. Follows(m, Now) /\ m \in Facade
      <4>1. Follows([Now EXCEPT !.vm.bootSent = TRUE], Now)
        BY <1>1, FieldsFollow DEF States
      <4>2. QED BY <3>3, <4>1 DEF Follows
    <3>5. PICK n : n = IF vm.bootSent THEN Now ELSE UpdateState(m, status)
      OBVIOUS
    <3>6. Follows(n, Now)
      BY <1>1, <3>2, <3>4, <3>5, FollowsItself, FollowsTwice, UpdateStateFollows
    <3>7. n \in Facade /\ n.task[t].pc # "none" /\ n.vm.state \in Saws
      BY <1>1, <1>3, <3>6 DEF Follows, Facade, VmFields, Saws
    <3>8. PICK saw : saw = IF n.vm.state = "unknown" THEN "wait" ELSE n.vm.state
      OBVIOUS
    <3>9. Follows(GoTo(n, t, "boot", saw), Now)
      BY <1>6, <1>7, <3>6, <3>7, <3>8, FollowsTwice
    <3>10. server' = [server EXCEPT !.status = status] /\ Set(GoTo(n, t, "boot", saw))
      BY <1>10, <2>2, <3>1, <3>3, <3>5, <3>8 DEF AfterStatus
    <3>11. server' \in ServerFields
      BY <1>1, <3>2, <3>10 DEF ServerFields
    <3>12. QED BY <1>1, <1>2, <3>9, <3>10, <3>11, FollowKeeps
  <2>3. QED BY <2>1, <2>2
<1>11. CASE AfterBoot(t)
  <2>1. PICK saw : saw = IF "running" \in {task[t].saw, vm.state} THEN "running" ELSE "wait"
    OBVIOUS
  <2>2. Follows(GoTo(Now, t, "running", saw), Now)
    BY <1>1, <1>3, <1>6, <1>7, <2>1
  <2>3. PICK k : k = IF task[t].saw = "reject" THEN End(Now, t, FALSE) ELSE GoTo(Now, t, "running", saw)
    OBVIOUS
  <2>4. Follows(k, Now) /\ Set(k) /\ server' = server
    BY <1>5, <1>11, <2>1, <2>2, <2>3 DEF AfterBoot
  <2>5. QED BY <1>1, <1>2, <2>4, FollowKeeps
<1>12. CASE AfterRunning(t)
  <2>1. server' = server /\ (Set(End(Now, t, FALSE)) \/ IfWanted(t, ToResize(Now, t)))
    BY <1>12 DEF AfterRunning
  <2>2. Follows(ToResize(Now, t), Now)
    BY <1>1, <1>3, ToResizeFollows
  <2>3. QED BY <1>1, <1>2, <1>3, <1>5, <2>1, <2>2, FollowKeeps, IfWantedKeeps
<1>13. CASE AfterResize(t)
  <2>1. PICK m : m = [Now EXCEPT !.vm.resized = TRUE]
    OBVIOUS
  <2>2. Follows(m, Now) /\ m \in Facade /\ m.task = task
    <3>1. Follows([Now EXCEPT !.vm.resized = TRUE], Now) /\ [Now EXCEPT !.vm.resized = TRUE].task = Now.task
      BY <1>1, FieldsFollow DEF States
    <3>2. QED BY <1>1, <2>1, <3>1 DEF Follows
  <2>3. Follows(ToVfs(m, t), Now)
    BY <1>3, <2>2, ToVfsFollows, FollowsTwice
  <2>4. server' = server /\ (Set(End(Now, t, FALSE)) \/ IfWanted(t, ToVfs(m, t)))
    BY <1>13, <2>1 DEF AfterResize
  <2>5. QED BY <1>1, <1>2, <1>3, <1>5, <2>3, <2>4, FollowKeeps, IfWantedKeeps
<1>14. CASE AfterVfs(t)
  <2>1. server' = server /\ (Set(End(Now, t, FALSE)) \/ IfWanted(t, GoTo(Now, t, "ipc", "wait")))
    BY <1>14 DEF AfterVfs
  <2>2. Follows(GoTo(Now, t, "ipc", "wait"), Now)
    BY <1>1, <1>3, <1>6, <1>7
  <2>3. QED BY <1>1, <1>2, <1>3, <1>5, <2>1, <2>2, FollowKeeps, IfWantedKeeps
<1>15. CASE AfterGc(t)
  <2>1. Wanted(t) \in BOOLEAN /\ (Wanted(t) => task[t].gen = vm.gen)
    BY DEF Wanted
  <2>2. Follows(End(Now, t, Wanted(t)), Now)
    BY <1>1, <1>3, <2>1, EndFollows
  <2>3. ASSUME Wanted(t) PROVE Follows([End(Now, t, TRUE) EXCEPT !.vm.ipc = TRUE, !.vm.registered = TRUE], Now)
    <3>1. PICK e : e = End(Now, t, TRUE)
      OBVIOUS
    <3>2. Follows(e, Now) /\ e \in Facade
      <4>1. Follows(End(Now, t, TRUE), Now)
        BY <1>1, <1>3, <2>1, <2>3, EndFollows
      <4>2. Follows(e, Now)
        BY <3>1, <4>1
      <4>3. QED BY <4>2 DEF Follows
    <3>3. PICK v : v = [e.vm EXCEPT !.ipc = TRUE, !.registered = TRUE]
      OBVIOUS
    <3>4. v \in VmFields /\ v.gen = e.vm.gen /\ v.timers = e.vm.timers /\ v.flight = e.vm.flight
      <4>1. e.vm \in VmFields
        BY <3>2 DEF Facade
      <4>2. QED BY <3>3, <4>1 DEF VmFields
    <3>5. [e EXCEPT !.vm.ipc = TRUE, !.vm.registered = TRUE] = [e EXCEPT !.vm = v]
      BY <3>2, <3>3 DEF Facade
    <3>6. Follows([e EXCEPT !.vm = v], e)
      BY <3>2, <3>4, VmFollows
    <3>7. Follows([e EXCEPT !.vm.ipc = TRUE, !.vm.registered = TRUE], Now)
      BY <3>2, <3>5, <3>6, FollowsTwice
    <3>8. QED BY <3>1, <3>7
  <2>4. Follows(Register(t), Now)
    BY <1>5, <2>2, <2>3 DEF Register
  <2>5. QED BY <1>1, <1>2, <1>15, <2>4, FollowKeeps DEF AfterGc
<1>16. QED BY <1>8, <1>9, <1>10, <1>11, <1>12, <1>13, <1>14, <1>15 DEF Step

LEMMA TimeoutKeeps ==
  ASSUME LifecycleInv, NEW t \in Tasks, Timeout(t)
  PROVE  LifecycleInv' /\ Succeeds /\ Cleans
<1>1. /\ Now \in Facade /\ Now.vm = vm /\ Now.task = task
      /\ server' = server /\ server \in ServerFields /\ closing' = closing /\ closing \in ClosingFields
  BY LifecycleTypes DEF Timeout
<1>2. PICK n : n = Settle(Now, t, FALSE)
  OBVIOUS
<1>3. Follows(n, Now) /\ n.vm.flight = NoFlight /\ n \in Facade
  <2>1. Follows(Settle(Now, t, FALSE), Now) /\ Settle(Now, t, FALSE).vm.flight = NoFlight
    BY <1>1, SettleFollows
  <2>2. Follows(n, Now) /\ n.vm.flight = NoFlight
    BY <1>2, <2>1
  <2>3. n \in Facade
    BY <2>2 DEF Follows
  <2>4. QED BY <2>2, <2>3
<1>4. Set(IF Wanted(t) THEN [n EXCEPT !.vm.gen = @ + 1, !.vm.timers = @ \cup {vm.gen + 1}] ELSE n)
  BY <1>2 DEF Timeout
<1>5. CASE ~Wanted(t)
  BY <1>1, <1>3, <1>4, <1>5, FollowKeeps
<1>6. CASE Wanted(t)
  <2>1. n.vm \in VmFields /\ n.vm.gen = vm.gen /\ n.vm.timers = vm.timers /\ vm.gen \in Nat /\ vm.timers \subseteq Nat
    BY <1>1, <1>3 DEF Follows, Facade, VmFields
  <2> DEFINE v == [n.vm EXCEPT !.gen = @ + 1, !.timers = @ \cup {vm.gen + 1}]
  <2>2. [n EXCEPT !.vm.gen = @ + 1, !.vm.timers = @ \cup {vm.gen + 1}] = [n EXCEPT !.vm = v]
    BY <1>3 DEF Facade
  <2>3. v.gen = vm.gen + 1 /\ v.timers = vm.timers \cup {vm.gen + 1} /\ v.flight = NoFlight
    BY <1>3, <2>1 DEF VmFields
  <2>4. v \in VmFields
    <3>1. \A g \in Nat, T \in SUBSET Nat : [n.vm EXCEPT !.gen = g, !.timers = T] \in VmFields
      BY <2>1 DEF VmFields
    <3>2. PICK g : g = vm.gen + 1
      OBVIOUS
    <3>3. PICK T : T = vm.timers \cup {vm.gen + 1}
      OBVIOUS
    <3>4. v = [n.vm EXCEPT !.gen = g, !.timers = T]
      BY <2>1, <3>2, <3>3 DEF VmFields
    <3>5. g \in Nat /\ T \in SUBSET Nat
      BY <2>1, <3>2, <3>3
    <3>6. QED BY <3>1, <3>4, <3>5
  <2>5. Set([n EXCEPT !.vm = v])
    BY <1>4, <1>6, <2>2
  <2> HIDE DEF v
  <2>6. vm' = v /\ task' = n.task /\ call' = n.call /\ n.task \in [Tasks -> TaskFields] /\ n.call \in [Callers -> CallFields]
    BY <1>3, <2>5 DEF Set, Facade
  <2>7. LifecycleTypeOK'
    BY <1>1, <2>4, <2>6 DEF LifecycleTypeOK, ServerFields, ClosingFields
  <2>8. \A u \in Tasks : task[u].gen \in Nat /\ task'[u].gen = task[u].gen /\ task'[u].closes = task[u].closes
    BY <1>1, <1>3, <2>6 DEF Follows, LifecycleInv, LifecycleTypeOK, TaskFields
  <2>9. \A u \in Tasks : task'[u].gen <= vm.gen
    BY <2>8 DEF LifecycleInv, Generations
  <2>10. Generations'
    <3>1. vm'.timers \subseteq 1 .. vm'.gen
      BY <2>1, <2>3, <2>6 DEF LifecycleInv, Generations
    <3>2. \A u \in Tasks : task'[u].gen <= vm'.gen /\ task'[u].gen # vm'.gen /\ task'[u].gen \notin vm'.timers
      BY <2>1, <2>3, <2>6, <2>8, <2>9 DEF LifecycleInv, Generations
    <3>3. QED BY <2>3, <2>6, <3>1, <3>2 DEF Generations
  <2>11. Cleans
    BY <2>3, <2>6 DEF Cleans
  <2>12. Succeeds
    <3>1. \A u \in Tasks : task'[u].pc = "ok" => (task[u].pc = "ok" \/ task[u].gen = vm.gen)
      BY <1>1, <1>3, <2>6 DEF Follows
    <3>2. \A u \in Tasks : task'[u].pc = "ok" => task[u].pc # "none"
      BY <1>1, <1>3, <2>6 DEF Follows
    <3>3. QED BY <3>1, <3>2 DEF Succeeds, LifecycleInv, Generations
  <2>13. QED BY <2>7, <2>10, <2>11, <2>12 DEF LifecycleInv
<1>7. QED BY <1>5, <1>6

\* The other steps of a close, and of a checkpoint.
LEMMA ClosingKeeps ==
  ASSUME LifecycleInv, CloseServer \/ CloseController \/ CloseDone
  PROVE  LifecycleInv' /\ Succeeds /\ Cleans
<1>1. /\ Now \in Facade /\ server \in ServerFields /\ closing \in ClosingFields
      /\ vm \in VmFields /\ task \in [Tasks -> TaskFields]
  BY LifecycleTypes DEF LifecycleInv, LifecycleTypeOK
<1>2. CASE CloseServer
  <2>1. PICK b, d : b = (vm.ipc /\ closing.keepIpc) /\ d = (vm.registered /\ closing.keepIpc)
    OBVIOUS
  <2>2. b \in BOOLEAN /\ d \in BOOLEAN
    BY <1>1, <2>1 DEF VmFields, ClosingFields
  <2>3. PICK n : n = [Now EXCEPT !.vm.ipc = b, !.vm.registered = d]
    OBVIOUS
  <2>4. [Now EXCEPT !.vm.ipc = @ /\ closing.keepIpc, !.vm.registered = @ /\ closing.keepIpc] = n
    BY <1>1, <2>1, <2>3, LifecycleTypes DEF Facade, VmFields
  <2>5. Follows(n, Now) /\ n \in Facade
    <3>1. Follows([Now EXCEPT !.vm.ipc = b, !.vm.registered = d], Now)
      BY <1>1, <2>2, FieldsFollow DEF States
    <3>2. QED BY <2>3, <3>1 DEF Follows
  <2>6. Follows(HandleDisconnect(n), Now)
    BY <2>5, HandleDisconnectFollows, FollowsTwice
  <2>7. Set(IF vm.conn THEN HandleDisconnect(n) ELSE n)
    BY <1>2, <2>4 DEF CloseServer
  <2>8. server' \in ServerFields /\ closing' \in ClosingFields /\ closing'.begun = closing.begun
    <3>1. server' = [server EXCEPT !.bridges = FALSE] /\ closing' = [closing EXCEPT !.pc = "controller"]
      BY <1>2 DEF CloseServer
    <3>2. QED BY <1>1, <3>1 DEF ServerFields, ClosingFields
  <2>9. QED BY <2>5, <2>6, <2>7, <2>8, FollowKeeps
<1>3. CASE CloseController
  <2>1. PICK n : n = Broadcast(Now, "stopped")
    OBVIOUS
  <2>2. Follows(n, Now) /\ n \in Facade
    BY <1>1, <2>1, BroadcastFollows DEF States, Follows
  <2>3. Follows(RejectSessions(n), Now) /\ Follows(Now, Now)
    BY <1>1, <2>2, RejectSessionsFollows, FollowsTwice, FollowsItself
  <2>4. Set(IF server.status = "stopped" THEN Now ELSE RejectSessions(n))
    BY <1>3, <2>1 DEF CloseController
  <2>5. server' \in ServerFields /\ closing' \in ClosingFields /\ closing'.begun = closing.begun
    <3>1. /\ server' = [server EXCEPT !.status = "stopped"]
          /\ \E p \in {"none", "disconnect"} : closing' = [closing EXCEPT !.pc = p]
      BY <1>3 DEF CloseController
    <3>2. QED BY <1>1, <3>1 DEF ServerFields, ClosingFields
  <2>6. QED BY <2>3, <2>4, <2>5, FollowKeeps
<1>4. CASE CloseDone
  <2>1. PICK n : n = [Now EXCEPT !.vm.vfs = "none"]
    OBVIOUS
  <2>2. Follows(n, Now) /\ n \in Facade
    <3>1. Follows([Now EXCEPT !.vm.vfs = "none"], Now)
      BY <1>1, FieldsFollow DEF States
    <3>2. QED BY <2>1, <3>1 DEF Follows
  <2>3. Follows(HandleDisconnect(n), Now)
    BY <2>2, HandleDisconnectFollows, FollowsTwice
  <2>4. Set(IF vm.conn THEN HandleDisconnect(n) ELSE n) /\ server' = server
    BY <1>4, <2>1 DEF CloseDone
  <2>5. closing' \in ClosingFields /\ closing'.begun = closing.begun
    <3>1. closing' = [closing EXCEPT !.pc = "none"]
      BY <1>4 DEF CloseDone
    <3>2. QED BY <1>1, <3>1 DEF ClosingFields
  <2>6. QED BY <1>1, <2>2, <2>3, <2>4, <2>5, FollowKeeps
<1>5. QED BY <1>2, <1>3, <1>4

LEMMA CheckpointKeeps ==
  ASSUME LifecycleInv, CheckpointBegin \/ CheckpointMoved \/ CheckpointCloses
  PROVE  LifecycleInv' /\ Succeeds /\ Cleans
<1>1. /\ server' = server /\ server \in ServerFields /\ closing \in ClosingFields
      /\ vm \in VmFields /\ task \in [Tasks -> TaskFields] /\ call \in [Callers -> CallFields]
  BY LifecycleTypes DEF LifecycleInv, LifecycleTypeOK, CheckpointBegin, CheckpointMoved, CheckpointCloses
<1>2. CASE CheckpointMoved
  <2>1. PICK ok \in BOOLEAN : vm' = [vm EXCEPT !.checkpointed = ok]
    BY <1>2 DEF CheckpointMoved
  <2>2. vm' \in VmFields /\ vm'.gen = vm.gen /\ vm'.timers = vm.timers /\ vm'.flight = vm.flight
    BY <1>1, <2>1 DEF VmFields
  <2>3. UNCHANGED <<server, task, call, closing>>
    BY <1>2 DEF CheckpointMoved
  <2>4. LifecycleTypeOK'
    BY <2>2, <2>3 DEF LifecycleInv, LifecycleTypeOK
  <2>5. Generations' /\ Succeeds /\ Cleans
    BY <2>2, <2>3 DEF LifecycleInv, Generations, Succeeds, Cleans
  <2>6. QED BY <2>4, <2>5 DEF LifecycleInv
<1>3. CASE CheckpointBegin \/ CheckpointCloses
  <2>1. (\E keepIpc \in BOOLEAN : CloseBegins(Now, keepIpc, 0)) \/ UNCHANGED <<vm, task, call, closing>>
    BY <1>3 DEF CheckpointBegin, CheckpointCloses
  <2>2. QED BY <1>1, <2>1, CloseKeeps, NothingMoves
<1>4. QED BY <1>2, <1>3

\* The machine and the guest.
LEMMA MachineKeeps ==
  ASSUME LifecycleInv, Spawned \/ Exits \/ VfsError
  PROVE  LifecycleInv' /\ Succeeds /\ Cleans
<1>1. /\ Now \in Facade /\ server \in ServerFields /\ closing \in ClosingFields /\ closing' = closing
  BY LifecycleTypes DEF Spawned, Exits, VfsError
<1>2. /\ server.exits + 1 \in Nat /\ server.drops + 1 \in Nat
  BY <1>1 DEF ServerFields
<1>3. server' \in ServerFields
  BY <1>1, <1>2 DEF Spawned, Exits, VfsError, ServerFields
<1>4. PICK n : n = Broadcast(Now, "stopped")
  OBVIOUS
<1>5. Follows(n, Now) /\ n \in Facade
  BY <1>1, <1>4, BroadcastFollows DEF States, Follows
<1>6. Follows(RejectSessions(n), Now) /\ Follows(HandleDisconnect(Now), Now) /\ Follows(Broadcast(Now, "running"), Now)
  BY <1>1, <1>5, RejectSessionsFollows, HandleDisconnectFollows, BroadcastFollows, FollowsTwice DEF States
<1>7. Set(RejectSessions(n)) \/ Set(HandleDisconnect(Now)) \/ Set(Broadcast(Now, "running"))
  BY <1>4 DEF Spawned, Exits, VfsError
<1>8. QED BY <1>1, <1>3, <1>6, <1>7, FollowKeeps

\* A guest's answers change what tasks and calls have seen.
LEMMA GuestKeeps ==
  ASSUME LifecycleInv, MountsChecked \/ (\E t \in Tasks : Resized(t)) \/ (\E c \in Callers : ExecEnds(c))
  PROVE  LifecycleInv' /\ Succeeds /\ Cleans
<1>1. /\ vm \in VmFields /\ task \in [Tasks -> TaskFields] /\ call \in [Callers -> CallFields]
      /\ UNCHANGED <<server, closing>>
  BY DEF LifecycleInv, LifecycleTypeOK, MountsChecked, Resized, ExecEnds
<1>2. vm' \in VmFields /\ vm'.gen = vm.gen /\ vm'.timers = vm.timers /\ vm'.flight = vm.flight
  <2>1. vm' = vm \/ \E f \in {"ready", "none"} : vm' = [vm EXCEPT !.vfs = f]
    BY DEF MountsChecked, Resized, ExecEnds
  <2>2. QED BY <1>1, <2>1 DEF VmFields
<1>3. \A s \in {"yes", "no"}, u \in Tasks :
        /\ [task[u] EXCEPT !.saw = s] \in TaskFields /\ [task[u] EXCEPT !.saw = s].gen = task[u].gen
        /\ [task[u] EXCEPT !.saw = s].closes = task[u].closes /\ [task[u] EXCEPT !.saw = s].pc = task[u].pc
  BY <1>1 DEF TaskFields, Saws
<1>4. /\ task' \in [Tasks -> TaskFields]
      /\ \A u \in Tasks : task'[u].gen = task[u].gen /\ task'[u].closes = task[u].closes /\ task'[u].pc = task[u].pc
  <2>1. CASE MountsChecked
    <3>1. PICK s \in {"yes", "no"} :
            task' = [u \in Tasks |-> IF task[u].pc = "vfs" /\ task[u].saw = "wait" THEN [task[u] EXCEPT !.saw = s] ELSE task[u]]
      BY <2>1 DEF MountsChecked
    <3>2. \A u \in Tasks : task'[u] \in TaskFields
      BY <1>1, <1>3, <3>1
    <3>3. QED BY <1>1, <1>3, <3>1, <3>2
  <2>2. CASE \E t \in Tasks : Resized(t)
    <3>1. PICK t \in Tasks, s \in {"yes", "no"} : task' = [task EXCEPT ![t].saw = s]
      BY <2>2 DEF Resized
    <3>2. QED BY <1>1, <1>3, <3>1
  <2>3. CASE \E c \in Callers : ExecEnds(c)
    BY <1>1, <2>3 DEF ExecEnds
  <2>4. QED BY <2>1, <2>2, <2>3
<1>5. call' \in [Callers -> CallFields]
  <2>1. call' = call \/ \E c \in Callers : call' = [call EXCEPT ![c].st = "ok"]
    BY DEF MountsChecked, Resized, ExecEnds
  <2>2. \A c \in Callers : [call[c] EXCEPT !.st = "ok"] \in CallFields
    BY <1>1 DEF CallFields
  <2>3. QED BY <1>1, <2>1, <2>2
<1>6. LifecycleTypeOK'
  BY <1>1, <1>2, <1>4, <1>5 DEF LifecycleInv, LifecycleTypeOK
<1>7. Generations' /\ Succeeds /\ Cleans
  BY <1>1, <1>2, <1>4 DEF LifecycleInv, Generations, Succeeds, Cleans
<1>8. QED BY <1>6, <1>7 DEF LifecycleInv

LEMMA LifecycleStep == LifecycleInv /\ [LifecycleNext]_lifecycleVars => LifecycleInv' /\ Succeeds /\ Cleans
<1> SUFFICES ASSUME LifecycleInv, [LifecycleNext]_lifecycleVars PROVE LifecycleInv' /\ Succeeds /\ Cleans
  OBVIOUS
<1>1. CASE UNCHANGED lifecycleVars
  BY <1>1, LifecycleTypes, NothingMoves DEF lifecycleVars, LifecycleInv, LifecycleTypeOK
<1>2. ASSUME NEW c \in Callers, CallVm(c) PROVE LifecycleInv' /\ Succeeds /\ Cleans
  BY <1>2, CallVmKeeps
<1>3. ASSUME NEW t \in Tasks, Step(t) PROVE LifecycleInv' /\ Succeeds /\ Cleans
  BY <1>3, StepKeeps
<1>4. ASSUME NEW t \in Tasks, Timeout(t) PROVE LifecycleInv' /\ Succeeds /\ Cleans
  BY <1>4, TimeoutKeeps
<1>5. ASSUME NEW g \in vm.timers, TimerFires(g) PROVE LifecycleInv' /\ Succeeds /\ Cleans
  BY <1>5, TimerFiresKeeps
<1>6. CASE Close
  BY <1>6, CloseKeeps DEF Close
<1>12. CASE CloseJoins
  <2>1. closing \in ClosingFields /\ closing.asked + 1 \in Nat /\ closing' = [closing EXCEPT !.asked = @ + 1]
    BY <1>12, LifecycleTypes DEF CloseJoins, ClosingFields
  <2>2. closing' \in ClosingFields /\ closing'.begun = closing.begun
    BY <2>1 DEF ClosingFields
  <2>3. UNCHANGED <<vm, server, task, call>>
    BY <1>12 DEF CloseJoins
  <2>4. LifecycleTypeOK' /\ Generations'
    BY <2>2, <2>3 DEF LifecycleInv, LifecycleTypeOK, Generations, ClosingFields
  <2>5. QED BY <2>3, <2>4 DEF LifecycleInv, Succeeds, Cleans
<1>7. CASE CloseServer \/ CloseController \/ CloseDone
  BY <1>7, ClosingKeeps
<1>8. CASE CheckpointBegin \/ CheckpointMoved \/ CheckpointCloses
  BY <1>8, CheckpointKeeps
<1>9. CASE Spawned \/ Exits \/ VfsError
  BY <1>9, MachineKeeps
<1>10. CASE MountsChecked \/ (\E t \in Tasks : Resized(t)) \/ (\E c \in Callers : ExecEnds(c))
  BY <1>10, GuestKeeps
<1>11. QED
  BY <1>1, <1>2, <1>3, <1>4, <1>5, <1>6, <1>7, <1>8, <1>9, <1>10, <1>12 DEF LifecycleNext

\* A start that was under way when a flight of close() began never reports success,
\* and the clean-up of a timed-out start never closes a VM that was started or
\* closed since, for any calls, closes (that begin a flight, join one or fail),
\* checkpoints, exits and timeouts (startInternal of vm/core.ts).
THEOREM ClosesPrevailAlways == LifecycleSpec => ClosesPrevail
<1>1. (LifecycleInv /\ [LifecycleNext]_lifecycleVars) =>
        [\A t \in Tasks : (task'[t].pc = "ok" /\ task[t].pc # "ok") => closing.begun = task[t].closes]_lifecycleVars
  BY LifecycleStep DEF Succeeds
<1>2. (LifecycleInv /\ [LifecycleNext]_lifecycleVars) =>
        [\A g \in vm.timers \ vm'.timers :
           closing'.begun # closing.begun => (vm.flight = NoFlight /\ \A t \in Tasks : task[t].gen < g)]_lifecycleVars
  BY LifecycleStep DEF Cleans
<1>3. LifecycleSpec => []LifecycleInv
  BY LifecycleInitHolds, LifecycleStep, PTL DEF LifecycleSpec
<1>4. QED
  BY <1>1, <1>2, <1>3, PTL DEF LifecycleSpec, ClosesPrevail, NoSuccessAcrossClose, StaleCleanupSparesNewer

-----------------------------------------------------------------------------
(* ImageStore: what refs lead to *)

\* Whatever processes import, pull, tag and are killed at the same time, every
\* ref of the image store leads to an image that loads and is of its
\* architecture (images.ts).
THEOREM StoreUsableAlways == StoreSpec => []StoreStaysUsable
<1>1. StoreInit => StoreStaysUsable
  BY DEF StoreInit, StoreStaysUsable
<1>2. StoreStaysUsable /\ [StoreNext]_storeVars => StoreStaysUsable'
  <2> SUFFICES ASSUME StoreStaysUsable, [StoreNext]_storeVars
               PROVE  StoreStaysUsable'
    OBVIOUS
  <2>1. ASSUME NEW p \in Procs, Finalize(p)
        PROVE  StoreStaysUsable'
    <3>1. CASE Loads(cmd[p].src.claims)
      BY <2>1, <3>1 DEF Finalize, StoreStaysUsable, Loads
    <3>2. CASE ~Loads(cmd[p].src.claims)
      \* What does not load is not there: every object that is there does.
      <4>1. cmd[p].src.claims \notin DOMAIN objects
        BY <3>2 DEF StoreStaysUsable
      <4>2. /\ refs' = refs
            /\ DOMAIN objects' = DOMAIN objects \cup {cmd[p].src.claims}
            /\ \A b \in DOMAIN objects : objects'[b] = objects[b]
            /\ objects'[cmd[p].src.claims].sound
        BY <2>1, <3>2, <4>1 DEF Finalize, Entered
      <4> QED
        BY <4>2 DEF StoreStaysUsable, Loads
    <3> QED
      BY <3>1, <3>2
  <2>2. ASSUME NEW p \in Procs, SetRef(p)
        PROVE  StoreStaysUsable'
    <3>1. CASE Fits(p)
      <4>1. /\ objects' = objects
            /\ DOMAIN refs' = DOMAIN refs \cup {cmd[p].want}
            /\ refs'[cmd[p].want] = cmd[p].src.claims
            /\ \A k \in DOMAIN refs : k # cmd[p].want => refs'[k] = refs[k]
        BY <2>2, <3>1 DEF SetRef, Entered
      <4> QED
        BY <3>1, <4>1 DEF Fits, StoreStaysUsable, Loads
    <3>2. CASE ~Fits(p)
      BY <2>2, <3>2 DEF SetRef, StoreStaysUsable, Loads
    <3> QED
      BY <3>1, <3>2
  <2>3. CASE UNCHANGED <<objects, refs>>
    BY <2>3 DEF StoreStaysUsable, Loads
  <2> QED
    BY <2>1, <2>2, <2>3 DEF StoreNext, storeVars, Import, TagRef, TagDir, Pull, FetchFails, NotModified,
       FetchedNew, Publish, Choose, DownloadFails, Downloaded, Present, Stage, StageAside,
       StageFails, Load, Kill
<1> QED
  BY <1>1, <1>2, PTL DEF StoreSpec
=============================================================================
