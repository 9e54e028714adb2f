------------------------- MODULE GuestLaunch_proofs -------------------------
(***************************************************************************)
(* PayloadConfined, for every set of requests, CPU limit and number of      *)
(* faults.  It says nothing of a child that is not a payload yet nor of a   *)
(* settlement that is not answered yet; IInv does: which confinement steps  *)
(* are still to be taken, in which stages of execWorker there is a child, a *)
(* group and a pinned guard, and what the figures of a settlement in the    *)
(* making are worth.  One lemma per action, with one step per part.         *)
(*                                                                         *)
(* CompleteAnswersAreWhole, for every request through the ingress: what the *)
(* client has got is, at each stage, what the handler has read.             *)
(***************************************************************************)
EXTENDS GuestLaunch, IngressGateway, SequenceTheorems, TLAPS

\* The stages of the worker: no child yet, a child, no live child any more.
Before == {"prepare", "create", "guard", "fork"}
During == {"release", "refuse", "await", "loop", "stdin"}
After  == {"settle", "drain", "final", "close", "send", "done", "crashed"}

AllSteps == {"namespaces", "sealed", "ruleset", "executables", "interpreters", "trees",
             "restricted", "unprivileged", "filter", "noForkFilter"}

Verdicts == {"none", "memory", "cpu", "pids"}

Samples ==
  [exhausted : Verdicts, denied : BOOLEAN, gap : BOOLEAN, cpu : Int, killed : BOOLEAN,
   status : BOOLEAN]

Shapes ==
  /\ todo \in Seq(AllSteps)
  /\ kernel \in [cpu : 0 .. CpuLimit, memory : BOOLEAN, pids : BOOLEAN]
  /\ seen \in Samples
  /\ past \in [missed : BOOLEAN, drained : BOOLEAN, killLost : BOOLEAN]
  /\ \/ usage = <<>>
     \/ \E u \in [cpu : Int, gap : BOOLEAN, exhausted : Verdicts, denied : BOOLEAN,
                  removed : BOOLEAN] : usage = <<u>>

\* The processes live while the worker is between the fork and the settlement.
Lives ==
  /\ worker \in Before => child = "unborn"
  /\ worker \in After => ~Live
  /\ seen.status => child = "reaped"
  /\ desc => child \in {"payload", "zombie", "reaped"}
  /\ "child" \in doomed => Live

\* The group is there from its creation to the settlement.
Grouped ==
  /\ group # "none" => NeedsGroup
  /\ NeedsGroup /\ worker \in During \cup {"guard", "fork"} => group = "made"
  /\ worker \in {"settle", "drain", "final"} => group = "made" /\ usage = <<>>
  /\ usage # <<>> => worker \in {"close", "send", "done", "crashed"}
  /\ NeedsGroup /\ (gate = "open" \/ child \in {"setup", "ready", "payload"}) => member

\* What the child has not taken of its confinement is still to be taken.
Confining ==
  /\ Live => \A step \in Required : \/ step \in confined
                                    \/ \E i \in DOMAIN todo : todo[i] = step
  /\ child \in {"ready", "payload"} => todo = <<>>

\* The guard is pinned as long as there is anyone to be guarded.
Guarded ==
  /\ conf.guarded /\ (worker = "fork" \/ Live \/ desc) => guard = "pinned"
  /\ usage # <<>> /\ usage[1].removed => ~desc
  /\ OnlyAdmittedRun

\* The settlement's figures are the kernel's, unless a read failed.
Accounted ==
  /\ past.missed => seen.gap
  /\ past.drained => worker \in After /\ Members = {}
  /\ usage # <<>> /\ usage[1].cpu # -1 =>
       ~past.missed /\ (conf.limits /\ past.drained => usage[1].cpu = kernel.cpu)
  /\ answers # <<>> => worker = "done" \/ (worker = "close" /\ err = "none")
  /\ answers # <<>> => \E k : \/ answers = <<[kind |-> k, usage |-> <<>>]>>
                              \/ answers = <<[kind |-> k, usage |-> usage]>>

IInv == TypeOK /\ Shapes /\ Lives /\ Grouped /\ Confining /\ Guarded /\ Accounted
-----------------------------------------------------------------------------
(* Lemmas. *)

LEMMA StepsShape == Steps \in Seq(AllSteps)
<1>1. \A b, s : s \in AllSteps => When(b, s) \in Seq(AllSteps)
  BY DEF When
<1>2. QED
  BY <1>1 DEF Steps, Namespaces, SealedRoot, Ruleset, Executables, Interpreters, Trees, Restricted,
              NoPrivileges, Filter, NoForkFilter, AllSteps

\* What a request asks for does not change.
LEMMA Request ==
  ASSUME UNCHANGED conf
  PROVE  /\ Required' = Required /\ Steps' = Steps
         /\ NeedsGroup' = NeedsGroup /\ NeedsSetup' = NeedsSetup
BY DEF Required, Steps, Namespaces, SealedRoot, Ruleset, Executables, Interpreters, Trees,
       Restricted, NoPrivileges, Filter, NoForkFilter, When, NeedsGroup, NeedsSetup

LEMMA ConfiningKept ==
  ASSUME Confining, UNCHANGED <<conf, todo, confined>>, Live' => Live,
         child' \in {"ready", "payload"} => child \in {"ready", "payload"} \/ todo = <<>>
  PROVE  Confining'
BY Request DEF Confining

\* A kill reaches members only, and of the child only a live one.
LEMMA KillFacts ==
  ASSUME TypeOK, Lives, KillsAll
  PROVE  doomed' \subseteq {"child", "desc"} /\ ("child" \in doomed' => Live)
<1>1. Members \subseteq {"child", "desc"} /\ ("child" \in Members => Live)
  BY DEF Members
<1>2. doomed' = doomed \/ doomed' = Members
  BY DEF KillsAll
<1>3. QED BY <1>1, <1>2 DEF TypeOK, Lives

\* A sample that is not whole leaves a gap, which no later one repairs.
LEMMA SampleFacts ==
  ASSUME TypeOK, Shapes, NEW s \in {Observed} \cup {Lost(n) : n \in 0 .. LastRead}
  PROVE  /\ s \in Samples /\ s.status = seen.status
         /\ seen.gap => s.gap
         /\ s # Observed => s.gap
         /\ ~s.gap => s.cpu = IF conf.limits THEN kernel.cpu ELSE 0
<1>1. ASSUME NEW n PROVE Recorded(n) \in Samples /\ Recorded(n).status = seen.status
                         /\ Recorded(n).gap = seen.gap
  <2> DEFINE exhausted == IF seen.exhausted = "none" THEN Verdict(n) ELSE seen.exhausted
             denied == seen.denied \/ (conf.deny /\ "pids" \in Reads(n) /\ kernel.pids)
  <2>1. Verdict(n) \in Verdicts
    BY Zenon DEF Verdict, Verdicts
  <2>2. exhausted \in Verdicts /\ denied \in BOOLEAN
    BY <2>1 DEF Shapes, Samples
  <2>3. Recorded(n) = [seen EXCEPT !.exhausted = exhausted, !.denied = denied]
    BY Zenon DEF Recorded
  <2> HIDE DEF exhausted, denied
  <2>4. QED BY <2>2, <2>3 DEF Shapes, Samples
<1>2. Observed \in Samples /\ Observed.status = seen.status /\ Observed.gap = seen.gap
      /\ Observed.cpu = IF conf.limits THEN kernel.cpu ELSE 0
  <2>1. (IF conf.limits THEN kernel.cpu ELSE 0) \in Int
    BY LaunchAssumption DEF Shapes
  <2>2. QED BY <1>1, <2>1 DEF Observed, Samples
<1>3. ASSUME NEW n PROVE Lost(n) \in Samples /\ Lost(n).status = seen.status /\ Lost(n).gap
  BY <1>1 DEF Lost, Samples
<1>4. QED BY <1>2, <1>3

-----------------------------------------------------------------------------
(* Before the fork. *)

LEMMA PreparesStep ==
  ASSUME IInv, Prepares
  PROVE  IInv'
<1> USE DEF IInv, Prepares, Unwind, Fault, process, observer, fixed
<1>1. TypeOK'
  BY LaunchAssumption DEF TypeOK
<1>2. Shapes'
  BY DEF Shapes
<1>3. Lives'
  BY DEF Lives, Live, Before
<1>4. Grouped'
  BY DEF Grouped, NeedsGroup, During
<1>5. Confining'
  BY ConfiningKept DEF Live
<1>6. Guarded'
  BY DEF Guarded, Live, OnlyAdmittedRun
<1>7. Accounted'
  BY DEF Accounted, After
<1>8. QED BY <1>1, <1>2, <1>3, <1>4, <1>5, <1>6, <1>7

LEMMA CreatesStep ==
  ASSUME IInv, Creates
  PROVE  IInv'
<1> USE DEF IInv, Creates, Unwind, Fault, MayFail, process, observer, fixed
<1>1. TypeOK'
  BY LaunchAssumption DEF TypeOK
<1>2. Shapes'
  BY DEF Shapes
<1>3. Lives'
  BY DEF Lives, Live, Before
<1>4. Grouped'
  BY DEF Grouped, NeedsGroup, During
<1>5. Confining'
  BY ConfiningKept DEF Live
<1>6. Guarded'
  BY DEF Guarded, Live, OnlyAdmittedRun
<1>7. Accounted'
  BY DEF Accounted, After
<1>8. QED BY <1>1, <1>2, <1>3, <1>4, <1>5, <1>6, <1>7

LEMMA InstallsGuardStep ==
  ASSUME IInv, InstallsGuard
  PROVE  IInv'
<1> USE DEF IInv, InstallsGuard, Unwind, Fault, MayFail, process, observer, fixed
<1>1. TypeOK'
  BY LaunchAssumption DEF TypeOK
<1>2. Shapes'
  BY DEF Shapes
<1>3. Lives'
  BY DEF Lives, Live, Before
<1>4. Grouped'
  BY DEF Grouped, NeedsGroup
<1>5. Confining'
  BY ConfiningKept DEF Live
<1>6. Guarded'
  BY DEF Guarded, Live, OnlyAdmittedRun
<1>7. Accounted'
  BY DEF Accounted, After
<1>8. QED BY <1>1, <1>2, <1>3, <1>4, <1>5, <1>6, <1>7

LEMMA ForksStep ==
  ASSUME IInv, Forks
  PROVE  IInv'
<1> USE DEF IInv, Forks, Unwind, Fault, MayFail, observer, fixed
<1>1. TypeOK'
  BY LaunchAssumption DEF TypeOK
<1>2. Shapes'
  BY StepsShape DEF Shapes
<1>3. Lives'
  BY DEF Lives, Live, Before, After
<1>4. Grouped'
  BY DEF Grouped, NeedsGroup
<1>5. Confining'
  <2>1. Required' = Required
    BY Request
  <2>2. CASE todo' = Steps /\ child' \in {"gate", "setup"}
    BY <2>1, <2>2 DEF Confining, Required
  <2>3. CASE UNCHANGED <<child, todo>>
    BY <2>3, ConfiningKept DEF Live
  <2>4. QED BY <2>2, <2>3
<1>6. Guarded'
  BY DEF Guarded, OnlyAdmittedRun
<1>7. Accounted'
  BY DEF Accounted, After
<1>8. QED BY <1>1, <1>2, <1>3, <1>4, <1>5, <1>6, <1>7

-----------------------------------------------------------------------------
(* The gates and what the child does between them. *)

LEMMA ReleasesStep ==
  ASSUME IInv, Releases
  PROVE  IInv'
<1> USE DEF IInv, Releases, Unwind, Fault, MayFail, process, observer, fixed
<1>1. TypeOK'
  <2>1. (desc \in BOOLEAN /\ holds \in BOOLEAN /\ member \in BOOLEAN)'
    BY DEF TypeOK
  <2>2. (doomed \subseteq {"child", "desc"} /\ ran \subseteq Files /\ kernel.cpu \in 0..CpuLimit)'
    BY DEF TypeOK
  <2>3. (worker \in Before \cup During \cup After)'
    BY DEF TypeOK, Before, During, After
  <2>4. QED BY <2>1, <2>2, <2>3, LaunchAssumption DEF TypeOK, Before, During, After
<1>2. Shapes'
  BY DEF Shapes
<1>3. Lives'
  BY DEF Lives, Live, Before, After
<1>4. Grouped'
  BY DEF Grouped, NeedsGroup, During
<1>5. Confining'
  BY ConfiningKept DEF Live
<1>6. Guarded'
  BY DEF Guarded, Live, OnlyAdmittedRun
<1>7. Accounted'
  BY DEF Accounted, After
<1>8. QED BY <1>1, <1>2, <1>3, <1>4, <1>5, <1>6, <1>7

LEMMA RefusesStep ==
  ASSUME IInv, Refuses
  PROVE  IInv'
<1> USE DEF IInv, Refuses, Unwind, KillsChild, observer, fixed
<1>1. TypeOK'
  BY DEF TypeOK
<1>2. Shapes'
  BY DEF Shapes
<1>3. Lives'
  BY DEF Lives, Live, Before
<1>4. Grouped'
  BY DEF Grouped, NeedsGroup, During
<1>5. Confining'
  BY ConfiningKept DEF Live
<1>6. Guarded'
  BY DEF Guarded, Live, OnlyAdmittedRun
<1>7. Accounted'
  BY DEF Accounted, After
<1>8. QED BY <1>1, <1>2, <1>3, <1>4, <1>5, <1>6, <1>7

LEMMA AwaitsSetupStep ==
  ASSUME IInv, AwaitsSetup
  PROVE  IInv'
<1> USE DEF IInv, AwaitsSetup, Unwind, KillsChild, observer, fixed
<1>1. TypeOK'
  <2>1. (desc \in BOOLEAN /\ holds \in BOOLEAN /\ member \in BOOLEAN)'
    BY DEF TypeOK
  <2>2. (doomed \subseteq {"child", "desc"} /\ ran \subseteq Files /\ kernel.cpu \in 0..CpuLimit)'
    BY DEF TypeOK
  <2>3. (worker \in Before \cup During \cup After)'
    BY DEF TypeOK, Before, During, After
  <2>4. QED BY <2>1, <2>2, <2>3, LaunchAssumption DEF TypeOK, Before, During, After
<1>2. Shapes'
  BY DEF Shapes
<1>3. Lives'
  BY DEF Lives, Live, Before, After
<1>4. Grouped'
  BY DEF Grouped, NeedsGroup, During
<1>5. Confining'
  BY ConfiningKept DEF Live
<1>6. Guarded'
  BY DEF Guarded, Live, OnlyAdmittedRun
<1>7. Accounted'
  BY DEF Accounted, After
<1>8. QED BY <1>1, <1>2, <1>3, <1>4, <1>5, <1>6, <1>7

LEMMA PassesGateStep ==
  ASSUME IInv, PassesGate
  PROVE  IInv'
<1> USE DEF IInv, PassesGate, world, observer, fixed
<1>1. TypeOK'
  BY DEF TypeOK
<1>2. Shapes'
  BY DEF Shapes
<1>3. Lives'
  BY DEF Lives, Live
<1>4. Grouped'
  BY DEF Grouped, NeedsGroup
<1>5. Confining'
  BY ConfiningKept DEF Live
<1>6. Guarded'
  BY DEF Guarded, Live, OnlyAdmittedRun
<1>7. Accounted'
  BY DEF Accounted, Live, NeedsGroup, Members
<1>8. QED BY <1>1, <1>2, <1>3, <1>4, <1>5, <1>6, <1>7

LEMMA ConfinesItselfStep ==
  ASSUME IInv, ConfinesItself
  PROVE  IInv'
<1> USE DEF IInv, ConfinesItself, world, Failure, observer, fixed
<1>1. TypeOK'
  BY DEF TypeOK
<1>2. Shapes'
  <2>1. todo' \in Seq(AllSteps)
    BY DEF Shapes
  <2>2. QED BY <2>1 DEF Shapes
<1>3. Lives'
  BY DEF Lives, Live
<1>4. Grouped'
  BY DEF Grouped, NeedsGroup
<1>5. Confining'
  <2>1. CASE child' = "zombie"
    BY <2>1 DEF Confining, Live
  <2>2. CASE confined' = confined \cup {Head(todo)} /\ todo' = Tail(todo) /\ child' = child
    <3>1. \A i \in DOMAIN todo : \/ todo[i] = Head(todo)
                                 \/ i - 1 \in DOMAIN Tail(todo) /\ Tail(todo)[i - 1] = todo[i]
      BY DEF Shapes
    <3>2. child' = "setup" /\ Live
      BY <2>2 DEF Live
    <3>3. QED BY <2>2, <3>1, <3>2, Request DEF Confining
  <2>3. QED BY <2>1, <2>2
<1>6. Guarded'
  BY DEF Guarded, Live, OnlyAdmittedRun
<1>7. Accounted'
  BY DEF Accounted, Live, NeedsGroup, Members
<1>8. QED BY <1>1, <1>2, <1>3, <1>4, <1>5, <1>6, <1>7

LEMMA ReportsReadyStep ==
  ASSUME IInv, ReportsReady
  PROVE  IInv'
<1> USE DEF IInv, ReportsReady, world, observer, fixed
<1>1. TypeOK'
  BY DEF TypeOK
<1>2. Shapes'
  BY DEF Shapes
<1>3. Lives'
  BY DEF Lives, Live
<1>4. Grouped'
  BY DEF Grouped, NeedsGroup
<1>5. Confining'
  BY ConfiningKept DEF Live
<1>6. Guarded'
  BY DEF Guarded, Live, OnlyAdmittedRun
<1>7. Accounted'
  BY DEF Accounted, Live, NeedsGroup, Members
<1>8. QED BY <1>1, <1>2, <1>3, <1>4, <1>5, <1>6, <1>7

LEMMA BecomesPayloadStep ==
  ASSUME IInv, BecomesPayload
  PROVE  IInv'
<1> USE DEF IInv, BecomesPayload, world, Admits, observer, fixed
<1>1. TypeOK'
  BY DEF TypeOK
<1>2. Shapes'
  BY DEF Shapes
<1>3. Lives'
  BY DEF Lives, Live
<1>4. Grouped'
  BY DEF Grouped, NeedsGroup
<1>5. Confining'
  BY ConfiningKept DEF Live
<1>6. Guarded'
  BY DEF Guarded, Live, OnlyAdmittedRun
<1>7. Accounted'
  BY DEF Accounted, Live, NeedsGroup, Members
<1>8. QED BY <1>1, <1>2, <1>3, <1>4, <1>5, <1>6, <1>7

-----------------------------------------------------------------------------
(* The payload, its descendant and the kernel. *)

LEMMA PayloadForksStep ==
  ASSUME IInv, PayloadForks
  PROVE  IInv'
<1> USE DEF IInv, PayloadForks, quiet, observer, fixed
<1>1. TypeOK'
  <2>1. (desc \in BOOLEAN /\ holds \in BOOLEAN /\ member \in BOOLEAN)'
    <3>1. CASE NeedsGroup /\ MaxPids = 1
      BY <3>1 DEF TypeOK
    <3>2. CASE ~(NeedsGroup /\ MaxPids = 1)
      BY <3>2 DEF TypeOK
    <3>3. QED BY <3>1, <3>2
  <2>2. (kernel.cpu \in 0 .. CpuLimit)'
    BY DEF Shapes
  <2>3. QED BY <2>1, <2>2 DEF TypeOK
<1>2. Shapes'
  BY DEF Shapes
<1>3. Lives'
  BY DEF Lives, Live, Launched
<1>4. Grouped'
  BY DEF Grouped, NeedsGroup
<1>5. Confining'
  BY ConfiningKept DEF Live
<1>6. Guarded'
  BY DEF Lives, Grouped, Guarded, Live, Launched, OnlyAdmittedRun, After
<1>7. Accounted'
  BY DEF Grouped, Accounted, Live, Launched, NeedsGroup, Members
<1>8. QED BY <1>1, <1>2, <1>3, <1>4, <1>5, <1>6, <1>7

LEMMA ForksTooManyStep ==
  ASSUME IInv, ForksTooMany
  PROVE  IInv'
<1> USE DEF IInv, ForksTooMany, quiet, observer, fixed
<1>1. TypeOK'
  BY DEF TypeOK
<1>2. Shapes'
  BY DEF Shapes
<1>3. Lives'
  BY DEF Lives, Live
<1>4. Grouped'
  BY DEF Grouped, NeedsGroup
<1>5. Confining'
  BY ConfiningKept DEF Live
<1>6. Guarded'
  BY DEF Guarded, OnlyAdmittedRun
<1>7. Accounted'
  BY DEF Accounted, Members
<1>8. QED BY <1>1, <1>2, <1>3, <1>4, <1>5, <1>6, <1>7

LEMMA UsesCpuStep ==
  ASSUME IInv, UsesCpu
  PROVE  IInv'
<1> USE DEF IInv, UsesCpu, quiet, observer, fixed
<1>1. TypeOK'
  BY LaunchAssumption DEF TypeOK
<1>2. Shapes'
  BY LaunchAssumption DEF Shapes
<1>3. Lives'
  BY DEF Lives, Live
<1>4. Grouped'
  BY DEF Grouped, NeedsGroup
<1>5. Confining'
  BY ConfiningKept DEF Live
<1>6. Guarded'
  BY DEF Guarded, Live, OnlyAdmittedRun
<1>7. Accounted'
  BY DEF Accounted
<1>8. QED BY <1>1, <1>2, <1>3, <1>4, <1>5, <1>6, <1>7

LEMMA HitsMemoryCeilingStep ==
  ASSUME IInv, HitsMemoryCeiling
  PROVE  IInv'
<1> USE DEF IInv, HitsMemoryCeiling, quiet, observer, fixed
<1>1. TypeOK'
  BY DEF TypeOK
<1>2. Shapes'
  BY DEF Shapes
<1>3. Lives'
  BY DEF Lives, Live, Launched
<1>4. Grouped'
  BY DEF Grouped, NeedsGroup
<1>5. Confining'
  BY ConfiningKept DEF Live
<1>6. Guarded'
  BY DEF Guarded, Live, OnlyAdmittedRun
<1>7. Accounted'
  BY DEF Accounted, Live, NeedsGroup, Members
<1>8. QED BY <1>1, <1>2, <1>3, <1>4, <1>5, <1>6, <1>7

LEMMA PayloadExitsStep ==
  ASSUME IInv, PayloadExits
  PROVE  IInv'
<1> USE DEF IInv, PayloadExits, quiet, observer, fixed
<1>1. TypeOK'
  BY DEF TypeOK
<1>2. Shapes'
  BY DEF Shapes
<1>3. Lives'
  BY DEF Lives, Live, Launched
<1>4. Grouped'
  BY DEF Grouped, NeedsGroup
<1>5. Confining'
  BY ConfiningKept DEF Live
<1>6. Guarded'
  BY DEF Guarded, Live, OnlyAdmittedRun
<1>7. Accounted'
  BY DEF Accounted, Live, NeedsGroup, Members
<1>8. QED BY <1>1, <1>2, <1>3, <1>4, <1>5, <1>6, <1>7

LEMMA DescendantExitsStep ==
  ASSUME IInv, DescendantExits
  PROVE  IInv'
<1> USE DEF IInv, DescendantExits, quiet, observer, fixed
<1>1. TypeOK'
  <2>1. (desc \in BOOLEAN /\ holds \in BOOLEAN /\ member \in BOOLEAN)'
    BY DEF TypeOK
  <2>2. (doomed \subseteq {"child", "desc"} /\ ran \subseteq Files /\ kernel.cpu \in 0..CpuLimit)'
    BY DEF TypeOK
  <2>3. (worker \in Before \cup During \cup After)'
    BY DEF TypeOK, Before, During, After
  <2>4. QED BY <2>1, <2>2, <2>3, LaunchAssumption DEF TypeOK, Before, During, After
<1>2. Shapes'
  BY DEF Shapes
<1>3. Lives'
  BY DEF Lives, Live
<1>4. Grouped'
  BY DEF Grouped, NeedsGroup
<1>5. Confining'
  BY ConfiningKept DEF Live
<1>6. Guarded'
  BY DEF Guarded, OnlyAdmittedRun
<1>7. Accounted'
  BY DEF Accounted, Live, Members
<1>8. QED BY <1>1, <1>2, <1>3, <1>4, <1>5, <1>6, <1>7

LEMMA DiesStep ==
  ASSUME IInv, Dies
  PROVE  IInv'
<1> USE DEF IInv, Dies, quiet, observer, fixed
<1>1. TypeOK'
  <2>1. (desc \in BOOLEAN /\ holds \in BOOLEAN /\ member \in BOOLEAN)'
    BY DEF TypeOK
  <2>2. (doomed \subseteq {"child", "desc"} /\ ran \subseteq Files /\ kernel.cpu \in 0..CpuLimit)'
    BY DEF TypeOK
  <2>3. (worker \in Before \cup During \cup After)'
    BY DEF TypeOK, Before, During, After
  <2>4. QED BY <2>1, <2>2, <2>3, LaunchAssumption DEF TypeOK, Before, During, After
<1>2. Shapes'
  BY DEF Shapes
<1>3. Lives'
  BY DEF Lives, Live
<1>4. Grouped'
  BY DEF Grouped, NeedsGroup
<1>5. Confining'
  BY ConfiningKept DEF Live
<1>6. Guarded'
  BY DEF Guarded, Live, OnlyAdmittedRun
<1>7. Accounted'
  BY DEF Accounted, Live, NeedsGroup, Members
<1>8. QED BY <1>1, <1>2, <1>3, <1>4, <1>5, <1>6, <1>7

LEMMA OutOfMemoryStep ==
  ASSUME IInv, OutOfMemory
  PROVE  IInv'
<1> USE DEF IInv, OutOfMemory, quiet, Fault, observer, fixed
<1>1. TypeOK'
  BY LaunchAssumption DEF TypeOK
<1>2. Shapes'
  BY DEF Shapes
<1>3. Lives'
  BY DEF Lives, Live
<1>4. Grouped'
  BY DEF Grouped, NeedsGroup
<1>5. Confining'
  BY ConfiningKept
<1>6. Guarded'
  BY DEF Guarded, OnlyAdmittedRun
<1>7. Accounted'
  BY DEF Accounted, NeedsGroup, Members
<1>8. QED BY <1>1, <1>2, <1>3, <1>4, <1>5, <1>6, <1>7

LEMMA StarvesStep ==
  ASSUME IInv, Starves
  PROVE  IInv'
<1> USE DEF IInv, Starves, Fault, process, observer
<1>1. TypeOK'
  BY LaunchAssumption DEF TypeOK
<1>2. Shapes'
  BY DEF Shapes
<1>3. Lives'
  BY DEF Lives, Live
<1>4. Grouped'
  BY DEF Grouped, NeedsGroup
<1>5. Confining'
  BY ConfiningKept DEF Live
<1>6. Guarded'
  BY DEF Guarded, Live, OnlyAdmittedRun
<1>7. Accounted'
  BY DEF Accounted, Live, NeedsGroup, Members
<1>8. QED BY <1>1, <1>2, <1>3, <1>4, <1>5, <1>6, <1>7

LEMMA StartsProgramStep ==
  ASSUME IInv, NEW f \in Files, StartsProgram(f)
  PROVE  IInv'
<1> USE DEF IInv, StartsProgram, quiet, observer, fixed
<1>1. TypeOK'
  BY DEF TypeOK, Launched
<1>2. Shapes'
  BY DEF Shapes
<1>3. Lives'
  BY DEF Lives, Live
<1>4. Grouped'
  BY DEF Grouped, NeedsGroup
<1>5. Confining'
  BY ConfiningKept DEF Live
<1>6. Guarded'
  BY DEF Guarded, OnlyAdmittedRun, Admits, Launched, Live
<1>7. Accounted'
  BY DEF Accounted, Members, Live, NeedsGroup
<1>8. QED BY <1>1, <1>2, <1>3, <1>4, <1>5, <1>6, <1>7

-----------------------------------------------------------------------------
(* The worker's loop. *)

LEMMA PollsGroupStep ==
  ASSUME IInv, PollsGroup
  PROVE  IInv'
<1> USE DEF IInv, process, fixed
<1>1. PICK s \in {Observed} \cup {Lost(n) : n \in 0 .. LastRead} :
        /\ past' = [past EXCEPT !.missed = @ \/ s # Observed,
                                !.killLost = @ \/ (Triggered(s) /\ KillLost)]
        /\ Polls(s)
        /\ seen' = [s EXCEPT !.killed = Triggered(s)]
        /\ IF Triggered(s) THEN KillsAll ELSE UNCHANGED doomed
  BY Zenon DEF PollsGroup
<1>0. faults' \in 0 .. MaxFaults
  BY <1>1, LaunchAssumption DEF Polls, MayFail, Fault, TypeOK
<1>2. UNCHANGED <<worker, err, process, desc, holds, gate, group, member, guard, ran, kernel,
                  usage, fixed>>
      /\ worker = "loop"
  BY DEF PollsGroup
<1>3. /\ seen' \in Samples /\ seen'.status = seen.status
      /\ seen.gap \/ s # Observed => seen'.gap
  <2>1. Triggered(s) \in BOOLEAN
    BY Zenon DEF Triggered
  <2>2. /\ s \in Samples /\ s.status = seen.status
        /\ seen.gap \/ s # Observed => s.gap
    BY SampleFacts
  <2>3. QED BY <1>1, <2>1, <2>2 DEF Samples
<1>4. /\ past' \in [missed : BOOLEAN, drained : BOOLEAN, killLost : BOOLEAN]
      /\ past'.drained = past.drained /\ (past'.missed => past.missed \/ s # Observed)
  <2> DEFINE missed == past.missed \/ s # Observed
             lost == past.killLost \/ (Triggered(s) /\ KillLost)
  <2>1. missed \in BOOLEAN /\ lost \in BOOLEAN
    BY DEF Shapes
  <2>2. past' = [past EXCEPT !.missed = missed, !.killLost = lost]
    BY <1>1, Zenon
  <2> HIDE DEF lost
  <2>3. QED BY <2>1, <2>2 DEF Shapes
<1>5. doomed' \subseteq {"child", "desc"} /\ ("child" \in doomed' => Live)
  BY <1>1, KillFacts DEF TypeOK, Lives
<1>6. TypeOK'
  BY <1>0, <1>2, <1>5 DEF TypeOK
<1>7. Shapes'
  BY <1>2, <1>3, <1>4 DEF Shapes
<1>8. Lives'
  BY <1>2, <1>3, <1>5 DEF Lives, Live
<1>9. Grouped'
  BY <1>2 DEF Grouped, NeedsGroup
<1>10. Confining'
  BY <1>2, ConfiningKept DEF Live
<1>11. Guarded'
  BY <1>2 DEF Guarded, OnlyAdmittedRun, Live
<1>12. Accounted'
  BY <1>2, <1>3, <1>4 DEF Accounted, Grouped, After
<1>13. QED BY <1>6, <1>7, <1>8, <1>9, <1>10, <1>11, <1>12

LEMMA ReapsChildStep ==
  ASSUME IInv, ReapsChild
  PROVE  IInv'
<1> USE DEF IInv, ReapsChild, fixed
<1>1. TypeOK'
  BY KillFacts DEF TypeOK
<1>2. Shapes'
  <2> DEFINE killed == seen.killed \/ group = "made"
             lost == past.killLost \/ (group = "made" /\ KillLost)
  <2>1. killed \in BOOLEAN /\ lost \in BOOLEAN
    BY DEF Shapes, Samples
  <2>2. /\ seen' = [seen EXCEPT !.status = TRUE, !.killed = killed]
        /\ past' = [past EXCEPT !.killLost = lost]
    BY Zenon
  <2> HIDE DEF killed, lost
  <2>3. seen' \in Samples
    BY <2>1, <2>2 DEF Shapes, Samples
  <2>4. past' \in [missed : BOOLEAN, drained : BOOLEAN, killLost : BOOLEAN]
    BY <2>1, <2>2 DEF Shapes
  <2>5. QED BY <2>3, <2>4 DEF Shapes
<1>3. Lives'
  <2>1. /\ seen'.status /\ child' = "reaped" /\ worker = "loop" /\ ~Live
        /\ UNCHANGED <<worker, desc>>
    BY DEF Shapes, Samples, Live
  <2>2. "child" \notin doomed'
    BY <2>1, KillFacts DEF Lives
  <2>3. QED BY <2>1, <2>2 DEF Lives, Live, Before, After
<1>4. Grouped'
  BY DEF Grouped, NeedsGroup
<1>5. Confining'
  BY ConfiningKept DEF Live
<1>6. Guarded'
  BY DEF Guarded, Live, OnlyAdmittedRun
<1>7. Accounted'
  BY DEF Accounted, Live, NeedsGroup, Members
<1>8. QED BY <1>1, <1>2, <1>3, <1>4, <1>5, <1>6, <1>7

LEMMA StdinStep ==
  ASSUME IInv, FeedsStdin \/ StdinTaken
  PROVE  IInv'
<1> USE DEF IInv, FeedsStdin, StdinTaken, process, observer, fixed
<1>1. TypeOK'
  <2>1. (worker \in {"stdin", "loop"})'
    OBVIOUS
  <2>2. (desc \in BOOLEAN /\ holds \in BOOLEAN /\ member \in BOOLEAN)'
    BY DEF TypeOK
  <2>3. (doomed \subseteq {"child", "desc"} /\ ran \subseteq Files /\ kernel.cpu \in 0..CpuLimit)'
    BY DEF TypeOK
  <2>4. (conf \in Confs /\ faults \in 0..MaxFaults)'
    BY DEF TypeOK
  <2>5. QED BY <2>1, <2>2, <2>3, <2>4 DEF TypeOK
<1>2. Shapes'
  BY DEF Shapes
<1>3. Lives'
  BY DEF Lives, Live, Before, After
<1>4. Grouped'
  BY DEF Grouped, NeedsGroup, During
<1>5. Confining'
  BY ConfiningKept DEF Live
<1>6. Guarded'
  BY DEF Guarded, Live, OnlyAdmittedRun
<1>7. Accounted'
  BY DEF Accounted, After, Members, Live, NeedsGroup
<1>8. QED BY <1>1, <1>2, <1>3, <1>4, <1>5, <1>6, <1>7

LEMMA LoopEndsStep ==
  ASSUME IInv, LoopEnds
  PROVE  IInv'
<1> USE DEF IInv, LoopEnds, process, observer, fixed
<1>1. TypeOK'
  <2>1. (doomed \subseteq {"child", "desc"})'
    BY KillFacts DEF TypeOK
  <2>2. (worker \in {"settle", "send"})'
    OBVIOUS
  <2>3. QED BY <2>1, <2>2 DEF TypeOK
<1>2. Shapes'
  BY DEF Shapes
<1>3. Lives'
  <2>1. child = "reaped" /\ ~Live
    BY DEF Lives, Live
  <2>2. "child" \notin doomed'
    BY <2>1, KillFacts DEF Lives
  <2>3. QED BY <2>1, <2>2 DEF Lives, Live, Before, After
<1>4. Grouped'
  BY DEF Grouped, NeedsGroup, During
<1>5. Confining'
  BY ConfiningKept DEF Live
<1>6. Guarded'
  BY DEF Guarded, Live, OnlyAdmittedRun
<1>7. Accounted'
  BY DEF Accounted, After
<1>8. QED BY <1>1, <1>2, <1>3, <1>4, <1>5, <1>6, <1>7

LEMMA LoopFailsStep ==
  ASSUME IInv, LoopFails
  PROVE  IInv'
<1> USE DEF IInv, LoopFails, Fault, WaitsAgain, KillsChild, Unwind, observer, fixed
<1>1. TypeOK'
  <2>1. (desc \in BOOLEAN /\ holds \in BOOLEAN /\ member \in BOOLEAN)'
    BY DEF TypeOK
  <2>2. (doomed \subseteq {"child", "desc"} /\ ran \subseteq Files /\ kernel.cpu \in 0..CpuLimit)'
    BY DEF TypeOK
  <2>3. (worker \in Before \cup During \cup After)'
    BY DEF TypeOK, Before, During, After
  <2>4. QED BY <2>1, <2>2, <2>3, LaunchAssumption DEF TypeOK, Before, During, After
<1>2. Shapes'
  BY DEF Shapes
<1>3. Lives'
  BY DEF Lives, Live, Before
<1>4. Grouped'
  BY DEF Grouped, NeedsGroup, During
<1>5. Confining'
  BY ConfiningKept DEF Live
<1>6. Guarded'
  BY DEF Guarded, Live, OnlyAdmittedRun
<1>7. Accounted'
  BY DEF Accounted, After
<1>8. QED BY <1>1, <1>2, <1>3, <1>4, <1>5, <1>6, <1>7

-----------------------------------------------------------------------------
(* The settlement, the answer and the guard's end. *)

LEMMA SettleKillsStep ==
  ASSUME IInv, SettleKills
  PROVE  IInv'
<1> USE DEF IInv, process, fixed, after
<1>1. PICK s \in {Observed} \cup {Lost(n) : n \in 0 .. LastRead} :
        /\ past' = [past EXCEPT !.missed = @ \/ s # Observed, !.killLost = @ \/ KillLost]
        /\ Polls(s)
        /\ seen' = s
        /\ KillsAll
  BY Zenon DEF SettleKills
<1>0. faults' \in 0 .. MaxFaults
  BY <1>1, LaunchAssumption DEF Polls, MayFail, Fault, TypeOK
<1>2. /\ UNCHANGED <<after, group, usage, fixed>>
      /\ worker = "settle" /\ worker' = "drain"
  BY DEF SettleKills
<1>3. /\ seen' \in Samples /\ seen'.status = seen.status
      /\ seen.gap \/ s # Observed => seen'.gap
  BY <1>1, SampleFacts
<1>4. /\ past' \in [missed : BOOLEAN, drained : BOOLEAN, killLost : BOOLEAN]
      /\ past'.drained = past.drained /\ (past'.missed => past.missed \/ s # Observed)
  <2> DEFINE missed == past.missed \/ s # Observed
             lost == past.killLost \/ KillLost
  <2>1. missed \in BOOLEAN /\ lost \in BOOLEAN
    BY DEF Shapes
  <2>2. past' = [past EXCEPT !.missed = missed, !.killLost = lost]
    BY <1>1, Zenon
  <2> HIDE DEF lost
  <2>3. QED BY <2>1, <2>2 DEF Shapes
<1>5. doomed' \subseteq {"child", "desc"} /\ ("child" \in doomed' => Live)
  BY <1>1, KillFacts
<1>6. TypeOK'
  BY <1>0, <1>2, <1>5 DEF TypeOK
<1>7. Shapes'
  BY <1>2, <1>3, <1>4 DEF Shapes
<1>8. Lives'
  BY <1>2, <1>3, <1>5 DEF Lives, Live, Before, After
<1>9. Grouped'
  BY <1>2 DEF Grouped, NeedsGroup, During
<1>10. Confining'
  BY <1>2, ConfiningKept DEF Live
<1>11. Guarded'
  BY <1>2 DEF Guarded, OnlyAdmittedRun, Live
<1>12. Accounted'
  BY <1>2, <1>3, <1>4 DEF Accounted, Grouped, Members, NeedsGroup, Live, After
<1>13. QED BY <1>6, <1>7, <1>8, <1>9, <1>10, <1>11, <1>12

LEMMA DrainsStep ==
  ASSUME IInv, Drains
  PROVE  IInv'
<1> USE DEF IInv, Drains, after, process, fixed
<1>1. TypeOK'
  BY DEF TypeOK
<1>2. Shapes'
  BY DEF Shapes
<1>3. Lives'
  BY DEF Lives, Live, Before, After
<1>4. Grouped'
  BY DEF Grouped, NeedsGroup
<1>5. Confining'
  BY ConfiningKept DEF Live
<1>6. Guarded'
  BY DEF Guarded, Live, OnlyAdmittedRun
<1>7. Accounted'
  BY DEF Shapes, Grouped, Accounted, Live, Members, After
<1>8. QED BY <1>1, <1>2, <1>3, <1>4, <1>5, <1>6, <1>7

LEMMA SettleEndsStep ==
  ASSUME IInv, SettleEnds
  PROVE  IInv'
<1> USE DEF IInv, process, fixed, after
<1>1. PICK s \in {Observed} \cup {Lost(n) : n \in 0 .. LastRead}, agrees \in BOOLEAN :
        LET crosscheck == conf.noFork /\ err = "none"
            bad == crosscheck /\ (s.gap \/ ~conf.limits \/ ~agrees)
            t == IF bad THEN [s EXCEPT !.gap = TRUE] ELSE s
        IN  /\ past' = [past EXCEPT !.missed = @ \/ s # Observed]
            /\ Polls(s)
            /\ seen' = t
            /\ usage' = <<Settled(t, Members = {})>>
  BY Zenon DEF SettleEnds
<1> DEFINE bad == (conf.noFork /\ err = "none") /\ (s.gap \/ ~conf.limits \/ ~agrees)
           t == IF bad THEN [s EXCEPT !.gap = TRUE] ELSE s
           u == Settled(seen', Members = {})
<1>0. /\ past' = [past EXCEPT !.missed = @ \/ s # Observed]
      /\ Polls(s) /\ seen' = t /\ usage' = <<u>>
  BY <1>1, Zenon
<1>20. faults' \in 0 .. MaxFaults
  BY <1>0, LaunchAssumption DEF Polls, MayFail, Fault, TypeOK
<1>21. t = s \/ t = [s EXCEPT !.gap = TRUE]
  BY Zenon
<1> HIDE DEF t, bad
<1>2. /\ UNCHANGED <<after, doomed, fixed>>
      /\ worker = "final" /\ worker' \in {"send", "close"}
      /\ group' = IF Members = {} THEN "removed" ELSE group
  BY DEF SettleEnds
<1>3. /\ seen' \in Samples /\ seen'.status = seen.status
      /\ seen.gap \/ s # Observed => seen'.gap
      /\ ~seen'.gap => seen'.cpu = IF conf.limits THEN kernel.cpu ELSE 0
  <2>1. /\ s \in Samples /\ s.status = seen.status
        /\ seen.gap \/ s # Observed => s.gap
        /\ ~s.gap => s.cpu = IF conf.limits THEN kernel.cpu ELSE 0
    BY SampleFacts
  <2>2. QED BY <1>0, <1>21, <2>1 DEF Samples
<1>4. /\ past' \in [missed : BOOLEAN, drained : BOOLEAN, killLost : BOOLEAN]
      /\ past'.drained = past.drained /\ (past'.missed => past.missed \/ s # Observed)
  BY <1>0 DEF Shapes
<1>5. /\ u \in [cpu : Int, gap : BOOLEAN, exhausted : Verdicts, denied : BOOLEAN,
                removed : BOOLEAN]
      /\ u.removed => Members = {}
      /\ u.cpu # -1 => ~seen'.gap /\ u.cpu = seen'.cpu
  <2> DEFINE cpu == IF seen'.gap THEN -1 ELSE seen'.cpu
             empty == Members = {}
  <2>1. /\ cpu \in Int /\ seen'.gap \in BOOLEAN /\ seen'.exhausted \in Verdicts
        /\ seen'.denied \in BOOLEAN
        /\ cpu # -1 => ~seen'.gap /\ cpu = seen'.cpu
    BY <1>3 DEF Samples
  <2>2. empty \in BOOLEAN
    OBVIOUS
  <2>3. u = [cpu |-> cpu, gap |-> seen'.gap, exhausted |-> seen'.exhausted,
             denied |-> seen'.denied, removed |-> empty]
    BY Zenon DEF Settled
  <2> HIDE DEF u, cpu, empty
  <2>4. u \in [cpu : Int, gap : BOOLEAN, exhausted : Verdicts, denied : BOOLEAN,
               removed : BOOLEAN]
    BY <2>1, <2>2, <2>3
  <2>5. u.removed = empty /\ u.cpu = cpu
    BY <2>3
  <2>6. QED BY <2>1, <2>4, <2>5 DEF empty
<1> HIDE DEF u
<1>6. usage' # <<>> /\ usage'[1] = u
  BY <1>0
<1>7. ~Live /\ group = "made" /\ NeedsGroup
  BY <1>2 DEF Lives, Grouped, After
<1>8. TypeOK'
  BY <1>20, <1>2 DEF TypeOK
<1>9. Shapes'
  BY <1>0, <1>2, <1>3, <1>4, <1>5 DEF Shapes
<1>10. Lives'
  BY <1>2, <1>3 DEF Lives, Live, Before, After
<1>11. Grouped'
  BY <1>2 DEF Grouped, NeedsGroup, During
<1>12. Confining'
  BY <1>2, ConfiningKept DEF Live
<1>13. Guarded'
  BY <1>2, <1>5, <1>6, <1>7 DEF Guarded, OnlyAdmittedRun, Live, Members
<1>14. Accounted'
  <2>1. answers = <<>>
    BY <1>2 DEF Accounted
  <2>2. (past.drained => worker \in After /\ Members = {})'
    BY <1>2, <1>4 DEF Accounted, Members, NeedsGroup, Live, After
  <2>3. (past.missed => seen.gap)'
    BY <1>3, <1>4 DEF Accounted
  <2>4. QED BY <1>2, <1>3, <1>5, <1>6, <2>1, <2>2, <2>3 DEF Accounted
<1>15. QED BY <1>8, <1>9, <1>10, <1>11, <1>12, <1>13, <1>14

LEMMA SendsStep ==
  ASSUME IInv, Sends
  PROVE  IInv'
<1> USE DEF IInv, Sends, Fault, WaitsAgain, Unwind, process, observer
<1>1. TypeOK'
  BY LaunchAssumption DEF TypeOK
<1>2. Shapes'
  BY DEF Shapes
<1>3. Lives'
  BY DEF Lives, Live, Before, After
<1>4. Grouped'
  BY DEF Grouped, NeedsGroup, During
<1>5. Confining'
  BY ConfiningKept DEF Live
<1>6. Guarded'
  BY DEF Guarded, Live, OnlyAdmittedRun
<1>7. Accounted'
  <2>1. answers = <<>> /\ UNCHANGED <<past, seen, usage, kernel, member, desc, child, conf>>
    BY DEF Accounted
  <2>2. answers' # <<>> => /\ worker' = "done" \/ (worker' = "close" /\ err' = "none")
                          /\ \E k : \/ answers' = <<[kind |-> k, usage |-> <<>>]>>
                                   \/ answers' = <<[kind |-> k, usage |-> usage]>>
    BY <2>1 DEF Answer
  <2>3. worker' \in After
    BY DEF After
  <2>4. QED BY <2>1, <2>2, <2>3, Request DEF Accounted, Members, Live
<1>8. QED BY <1>1, <1>2, <1>3, <1>4, <1>5, <1>6, <1>7

LEMMA ClosesGuardStep ==
  ASSUME IInv, ClosesGuard
  PROVE  IInv'
<1> USE DEF IInv, ClosesGuard, process, observer, fixed
<1>1. TypeOK'
  BY DEF TypeOK
<1>2. Shapes'
  BY DEF Shapes
<1>3. Lives'
  BY DEF Lives, Live, Before, After
<1>4. Grouped'
  BY DEF Grouped, NeedsGroup, During
<1>5. Confining'
  BY ConfiningKept DEF Live
<1>6. Guarded'
  BY DEF Lives, Guarded, Live, OnlyAdmittedRun, After
<1>7. Accounted'
  BY DEF Accounted, Live, NeedsGroup, Members, After
<1>8. QED BY <1>1, <1>2, <1>3, <1>4, <1>5, <1>6, <1>7

-----------------------------------------------------------------------------
(* The theorems. *)

LEMMA InitIInv == Init => IInv
<1> SUFFICES ASSUME Init PROVE IInv
  OBVIOUS
<1>1. TypeOK
  <2>1. kernel.cpu \in 0 .. CpuLimit /\ faults \in 0 .. MaxFaults
    BY LaunchAssumption DEF Init
  <2>2. /\ desc \in BOOLEAN /\ holds \in BOOLEAN /\ member \in BOOLEAN
        /\ doomed \subseteq {"child", "desc"} /\ ran \subseteq Files
    BY DEF Init
  <2>3. QED BY <2>1, <2>2 DEF Init, TypeOK
<1>2. Shapes
  <2>1. kernel \in [cpu : 0 .. CpuLimit, memory : BOOLEAN, pids : BOOLEAN]
    BY LaunchAssumption DEF Init
  <2>2. seen \in Samples
    BY DEF Init, Samples, Verdicts
  <2>3. past \in [missed : BOOLEAN, drained : BOOLEAN, killLost : BOOLEAN]
    BY DEF Init
  <2>4. todo \in Seq(AllSteps) /\ usage = <<>>
    BY DEF Init
  <2>5. QED BY <2>1, <2>2, <2>3, <2>4 DEF Shapes
<1>3. Lives
  BY DEF Init, Lives, Live, Before, After
<1>4. Grouped
  BY DEF Init, Grouped, During
<1>5. Confining
  BY DEF Init, Confining, Live
<1>6. Guarded
  BY DEF Init, Guarded, Live, OnlyAdmittedRun
<1>7. Accounted
  BY DEF Init, Accounted
<1>8. QED BY <1>1, <1>2, <1>3, <1>4, <1>5, <1>6, <1>7 DEF IInv

LEMMA StutterStep == IInv /\ UNCHANGED vars => IInv'
<1> SUFFICES ASSUME IInv, UNCHANGED vars PROVE IInv'
  OBVIOUS
<1> USE DEF IInv, vars
<1>1. TypeOK'
  BY DEF TypeOK
<1>2. Shapes'
  BY DEF Shapes
<1>3. Lives'
  BY DEF Lives, Live
<1>4. Grouped'
  BY DEF Grouped, NeedsGroup
<1>5. Confining'
  BY ConfiningKept DEF Live
<1>6. Guarded'
  BY DEF Guarded, OnlyAdmittedRun, Live
<1>7. Accounted'
  BY DEF Accounted, Members, Live, NeedsGroup
<1>8. QED BY <1>1, <1>2, <1>3, <1>4, <1>5, <1>6, <1>7

LEMMA NextKeeps == IInv /\ [Next]_vars => IInv'
<1> SUFFICES ASSUME IInv, [Next]_vars PROVE IInv'
  OBVIOUS
<1>1. CASE Prepares \/ Creates \/ InstallsGuard \/ Forks \/ Releases \/ Refuses \/ AwaitsSetup
  BY <1>1, PreparesStep, CreatesStep, InstallsGuardStep, ForksStep, ReleasesStep, RefusesStep,
     AwaitsSetupStep
<1>2. CASE PollsGroup \/ FeedsStdin \/ StdinTaken \/ ReapsChild \/ LoopEnds \/ LoopFails \/ SettleKills \/ Drains
             \/ SettleEnds \/ Sends \/ ClosesGuard
  BY <1>2, PollsGroupStep, StdinStep, ReapsChildStep, LoopEndsStep, LoopFailsStep, SettleKillsStep,
     DrainsStep, SettleEndsStep, SendsStep, ClosesGuardStep
<1>3. CASE PassesGate \/ ConfinesItself \/ ReportsReady \/ BecomesPayload
  BY <1>3, PassesGateStep, ConfinesItselfStep, ReportsReadyStep, BecomesPayloadStep
<1>4. CASE PayloadForks \/ ForksTooMany \/ UsesCpu \/ HitsMemoryCeiling \/ PayloadExits
             \/ DescendantExits \/ Dies \/ OutOfMemory \/ Starves
  BY <1>4, PayloadForksStep, ForksTooManyStep, UsesCpuStep, HitsMemoryCeilingStep,
     PayloadExitsStep, DescendantExitsStep, DiesStep, OutOfMemoryStep, StarvesStep
<1>5. CASE \E f \in Files : StartsProgram(f)
  BY <1>5, StartsProgramStep
<1>6. CASE UNCHANGED vars
  BY <1>6, StutterStep
<1>7. QED BY <1>1, <1>2, <1>3, <1>4, <1>5, <1>6 DEF Next

\* The launch keeps its invariant: the processes, the group, the confinement
\* still to be taken, the guard and the settlement's figures agree with each
\* other wherever execWorker (sandboxd main.zig) is.
THEOREM LaunchInvariant == Spec => []IInv
<1>1. Init => IInv
  BY InitIInv
<1>2. IInv /\ [Next]_vars => IInv'
  BY NextKeeps
<1>3. QED BY <1>1, <1>2, PTL DEF Spec

LEMMA IInvConfines == IInv => ConfinedPayload
<1> SUFFICES ASSUME IInv, child = "payload" PROVE ConfinedPayload
  BY DEF ConfinedPayload
<1>1. worker \in During
  <2>1. worker \in Before \cup During \cup After
    BY DEF IInv, TypeOK, Before, During, After
  <2>2. QED BY <2>1 DEF IInv, Lives, Live
<1>2. Required \subseteq confined
  BY DEF IInv, Confining, Live
<1>3. NeedsGroup => member /\ group = "made"
  BY <1>1 DEF IInv, Grouped
<1>4. conf.guarded => guard = "pinned"
  BY DEF IInv, Guarded, Live
<1>5. QED BY <1>2, <1>3, <1>4 DEF ConfinedPayload

LEMMA IInvAccounts == IInv => UsageCoversTheRun
<1> SUFFICES ASSUME IInv, NEW i \in DOMAIN answers,
                    answers[i].usage # <<>>, answers[i].usage[1].cpu # -1
             PROVE  /\ ~past.missed
                    /\ conf.limits /\ past.drained => answers[i].usage[1].cpu = kernel.cpu
  BY DEF UsageCoversTheRun
<1>1. PICK k : \/ answers = <<[kind |-> k, usage |-> <<>>]>>
               \/ answers = <<[kind |-> k, usage |-> usage]>>
  BY DEF IInv, Accounted
<1>2. answers[i].usage = usage
  BY <1>1
<1>3. QED BY <1>2 DEF IInv, Accounted

\* Whatever was asked, whatever fails and however often: no payload runs outside
\* its group, its guard or its restrictions; nothing an exec leaves behind is
\* started by a name that was not admitted; and the usage its answer reports has
\* no gap behind it and is all the CPU it used (sandboxd main.zig, exec_guard.zig).
THEOREM PayloadConfinedAlways == Spec => []PayloadConfined
<1>1. IInv => PayloadConfined
  BY IInvConfines, IInvAccounts DEF IInv, Guarded, PayloadConfined
<1>2. QED BY <1>1, LaunchInvariant, PTL

-----------------------------------------------------------------------------
(* IngressGateway: what a client gets. *)

Items == {"head", "chunk", "other", "end", "cut", "403", "404", "426", "502"}
Framings == {"fixed", "chunked", "toEnd", "none"}
Phases == {"start", "policy", "opening", "writing", "uploading", "awaiting", "buffering", "hook",
           "answering", "relaying", "unwinding", "tunnel", "over"}
Streams == [st : {"none", "open", "ended", "dead"}, sent : Nat, read : Nat, held : BOOLEAN]

GatewayTypeOK ==
  /\ setup \in Setups
  /\ phase \in Phases
  /\ client \in {"here", "gone"}
  /\ up \in Streams
  /\ memory \in {"none", "buffered", "replaced"}
  /\ body \in Nat
  /\ got \in Seq(Items)

\* The chunks of the body among the first n items of the answer, n > 0, and what
\* a client has of a relayed answer whose first n chunks were read.
Chunks(n) == IF n <= setup.length + 1 THEN n - 1 ELSE setup.length
Relayed(n) == <<"head">> \o [i \in 1 .. n |-> "chunk"]
Unended == got = <<>> \/ got[Len(got)] # "end"

\* Where the handler is: what it has read, and what the client has got by then.
Early == {"start", "policy", "opening", "writing", "uploading", "awaiting"}
Answering ==
  /\ phase \in {"start", "policy", "opening"} => up = NoStream
  /\ phase \in Early => got = <<>> /\ up.read = 0 /\ body = 0 /\ memory = "none"
  /\ phase \in {"buffering", "hook", "answering"} => got = <<>> /\ up.read > 0
  /\ phase = "buffering" => memory = "buffered" /\ body = Chunks(up.read)
  /\ phase \in {"hook", "answering"} =>
       /\ memory = "none" => up.read = 1
       /\ memory = "buffered" => setup.framing = "toEnd" \/ body = setup.length
  /\ phase = "relaying" => up.read > 0 /\ (client = "here" => got = Relayed(Chunks(up.read)))
  /\ phase \in {"relaying", "unwinding"} => Unended
  /\ phase = "over" => CompleteAnswersAreWhole
  /\ phase # "tunnel"

GatewayInv ==
  /\ GatewayTypeOK
  /\ up.read <= up.sent /\ up.sent <= Len(GuestAnswer)
  /\ Plain => Answering

LEMMA SetupTypes ==
  ASSUME GatewayTypeOK
  PROVE  setup.length \in Nat /\ setup.framing \in Framings
BY GatewayAssumption DEF GatewayTypeOK, Framings

\* The items of the guest's answer.
LEMMA AnswerItems ==
  ASSUME GatewayTypeOK
  PROVE  /\ Len(GuestAnswer) \in Nat /\ Len(GuestAnswer) > setup.length
         /\ setup.framing # "chunked" => Len(GuestAnswer) = setup.length + 1
         /\ \A k \in 2 .. Len(GuestAnswer) : GuestAnswer[k] = "chunk" <=> k <= setup.length + 1
<1>1. PICK n \in Nat : n = setup.length
  BY SetupTypes
<1>2. PICK chunks : chunks = [i \in 1 .. n |-> "chunk"]
  OBVIOUS
<1>3. chunks \in Seq({"chunk", "head", "last"}) /\ Len(chunks) = n
  BY <1>2
<1>4. PICK start : start = <<"head">> \o chunks
  OBVIOUS
<1>5. /\ start \in Seq({"chunk", "head", "last"}) /\ Len(start) = n + 1
      /\ \A k \in 2 .. n + 1 : start[k] = "chunk"
  BY <1>2, <1>3, <1>4
<1>6. CASE setup.framing = "chunked"
  <2>1. GuestAnswer = start \o <<"last">>
    BY <1>1, <1>2, <1>4, <1>6 DEF GuestAnswer
  <2>2. Len(GuestAnswer) = n + 2
    BY <1>5, <2>1
  <2>3. \A k \in 1 .. n + 1 : GuestAnswer[k] = start[k]
    BY <1>5, <2>1
  <2>4. GuestAnswer[n + 2] = "last"
    BY <1>5, <2>1
  <2> QED
    BY <1>1, <1>5, <1>6, <2>2, <2>3, <2>4
<1>7. CASE setup.framing # "chunked"
  <2>1. GuestAnswer = start \o <<>>
    BY <1>1, <1>2, <1>4, <1>7 DEF GuestAnswer
  <2>2. GuestAnswer = start
    BY <1>5, <2>1
  <2> QED
    BY <1>1, <1>5, <1>7, <2>2
<1> QED
  BY <1>6, <1>7

\* What is relayed grows by the chunks, and is not ended.
LEMMA RelayedGrows ==
  ASSUME NEW n \in Nat
  PROVE  /\ Relayed(n) \in Seq(Items) /\ Len(Relayed(n)) = n + 1
         /\ Relayed(n)[n + 1] # "end" /\ Relayed(n)[1] = "head"
         /\ Relayed(n) \o <<"chunk">> = Relayed(n + 1)
         /\ Relayed(n) \o <<>> = Relayed(n)
<1>1. \A m \in Nat : /\ Relayed(m) \in Seq(Items) /\ Len(Relayed(m)) = m + 1
                     /\ Relayed(m)[1] = "head"
                     /\ \A k \in 2 .. m + 1 : Relayed(m)[k] = "chunk"
  <2> TAKE m \in Nat
  <2>1. PICK chunks : chunks = [i \in 1 .. m |-> "chunk"]
    OBVIOUS
  <2>2. chunks \in Seq({"chunk"}) /\ Len(chunks) = m
    BY <2>1
  <2>3. Relayed(m) = <<"head">> \o chunks
    BY <2>1 DEF Relayed
  <2> QED
    BY <2>1, <2>2, <2>3 DEF Items
<1>2. PICK s : s = Relayed(n) \o <<"chunk">>
  OBVIOUS
<1>3. PICK t : t = Relayed(n + 1)
  OBVIOUS
<1>4. PICK r : r = Relayed(n)
  OBVIOUS
<1>5. r \in Seq(Items) /\ Len(r) = n + 1 /\ r[1] = "head" /\ \A k \in 2 .. n + 1 : r[k] = "chunk"
  BY <1>1, <1>4
<1>6. t \in Seq(Items) /\ Len(t) = n + 2 /\ t[1] = "head" /\ \A k \in 2 .. n + 2 : t[k] = "chunk"
  <2>1. PICK m \in Nat : m = n + 1
    OBVIOUS
  <2>2. t \in Seq(Items) /\ Len(t) = m + 1 /\ t[1] = "head" /\ \A k \in 2 .. m + 1 : t[k] = "chunk"
    BY <1>1, <1>3, <2>1
  <2> QED
    BY <2>1, <2>2
<1>7. s \in Seq(Items) /\ Len(s) = n + 2 /\ s[1] = "head" /\ \A k \in 2 .. n + 2 : s[k] = "chunk"
  BY <1>2, <1>4, <1>5 DEF Items
<1>8. s = t
  BY <1>6, <1>7
<1>9. r[n + 1] # "end" /\ r \o <<>> = r
  BY <1>5
<1> QED
  BY <1>2, <1>3, <1>4, <1>5, <1>8, <1>9

LEMMA ChunkCounted ==
  ASSUME GatewayInv, Unread > 0, up.read > 0
  PROVE  /\ Chunks(up.read) \in Nat
         /\ up.read + 1 <= up.sent
         /\ Chunks(up.read + 1) =
              IF GuestAnswer[up.read + 1] = "chunk" THEN Chunks(up.read) + 1 ELSE Chunks(up.read)
<1>1. PICK n \in Nat : n = setup.length
  BY SetupTypes DEF GatewayInv
<1>2. PICK k \in Nat : k = up.read
  BY DEF GatewayInv, GatewayTypeOK, Streams
<1>3. up.sent \in Nat /\ k + 1 <= up.sent /\ k > 0
  BY <1>2 DEF GatewayInv, GatewayTypeOK, Streams, Unread
<1>4. k + 1 \in 2 .. Len(GuestAnswer)
  BY <1>2, <1>3, AnswerItems DEF GatewayInv
<1>5. GuestAnswer[k + 1] = "chunk" <=> k <= n
  BY <1>1, <1>4, AnswerItems DEF GatewayInv
<1> QED
  BY <1>1, <1>2, <1>3, <1>5 DEF Chunks

\* An answer that is read to its end has all its chunks.
LEMMA AllChunks ==
  ASSUME GatewayInv, BodyComplete, setup.framing # "toEnd", up.read > 0
  PROVE  Chunks(up.read) = setup.length
<1>1. PICK n \in Nat : n = setup.length
  BY SetupTypes DEF GatewayInv
<1>2. up.read = Len(GuestAnswer)
  BY DEF BodyComplete
<1>3. Len(GuestAnswer) \in Nat /\ (Len(GuestAnswer) = n + 1 \/ Len(GuestAnswer) > n + 1)
  BY <1>1, AnswerItems DEF GatewayInv
<1> QED
  BY <1>1, <1>2, <1>3 DEF Chunks

\* The ends of a handler: what it has not begun to answer gets an answer of the
\* gateway's own, what it has begun is cut.
LEMMA EndsWhole ==
  ASSUME GatewayInv, NEW items \in Seq(Items), End(items), Plain,
         ASSUME client = "here" PROVE CompleteAnswersAreWhole',
         ASSUME client = "gone" PROVE Unended
  PROVE  GatewayInv'
<1>1. /\ phase' = "over" /\ up' = Released
      /\ got' = IF client = "here" THEN got \o items ELSE got
      /\ setup' = setup /\ client' = client /\ upload' = upload /\ memory' = memory /\ body' = body
  BY DEF End, Send
<1>2. /\ up' \in Streams /\ up'.read = up.read /\ up'.sent = up.sent
  BY <1>1 DEF GatewayInv, GatewayTypeOK, Streams, Released
<1>3. got \in Seq(Items) /\ got \o items \in Seq(Items)
  BY DEF GatewayInv, GatewayTypeOK
<1>4. GatewayTypeOK'
  BY <1>1, <1>2, <1>3 DEF GatewayInv, GatewayTypeOK, Phases
<1>5. CompleteAnswersAreWhole'
  <2>1. CASE client = "gone"
    BY <1>1, <2>1 DEF Unended, CompleteAnswersAreWhole
  <2> QED
    BY <2>1 DEF GatewayInv, GatewayTypeOK
<1>6. GuestAnswer' = GuestAnswer
  BY <1>1 DEF GuestAnswer
<1> QED
  BY <1>1, <1>2, <1>4, <1>5, <1>6 DEF GatewayInv, Answering, Early

LEMMA CodeEnds ==
  ASSUME GatewayInv, Plain, NEW code \in {"403", "404", "426", "502"}, got = <<>>, End(<<code, "end">>)
  PROVE  GatewayInv'
<1>1. <<code, "end">> \in Seq(Items) /\ <<code, "end">>[1] # "head"
  BY DEF Items
<1>2. PICK items : items = <<code, "end">>
  OBVIOUS
<1>3. items \in Seq(Items) /\ <<>> \o items = items /\ items[1] # "head" /\ End(items)
  BY <1>1, <1>2
<1>4. client = "here" => got' = items
  BY <1>3 DEF End, Send
<1>5. client = "here" => CompleteAnswersAreWhole'
  BY <1>3, <1>4 DEF CompleteAnswersAreWhole
<1>6. Unended
  BY DEF Unended
<1> QED
  BY <1>3, <1>5, <1>6, EndsWhole

LEMMA FailEnds ==
  ASSUME GatewayInv, Plain, Fail, Unended
  PROVE  GatewayInv'
<1>1. CASE got = <<>>
  BY <1>1, CodeEnds DEF Fail, Catch
<1>2. CASE got # <<>>
  <2>1. PICK items : items = <<"cut">>
    OBVIOUS
  <2>2. items \in Seq(Items) /\ End(items)
    BY <1>2, <2>1 DEF Fail, Catch, Items
  <2>3. client = "here" => got' = got \o items
    BY <2>2 DEF End, Send
  <2>4. got \in Seq(Items)
    BY DEF GatewayInv, GatewayTypeOK
  <2>5. (got \o items)[Len(got \o items)] = "cut"
    BY <2>1, <2>4
  <2>6. client = "here" => CompleteAnswersAreWhole'
    BY <2>3, <2>5 DEF CompleteAnswersAreWhole
  <2> QED
    BY <2>2, <2>6, EndsWhole
<1> QED
  BY <1>1, <1>2

Counted == GatewayTypeOK /\ up.read <= up.sent /\ up.sent <= Len(GuestAnswer)

LEMMA SentItems ==
  ASSUME GatewayInv, NEW items \in Seq(Items), Send(items)
  PROVE  got' \in Seq(Items)
<1>1. got \in Seq(Items) /\ got \o items \in Seq(Items)
  BY DEF GatewayInv, GatewayTypeOK
<1> QED
  BY <1>1 DEF Send

\* A step that keeps the request, and reads and sends no more than there is.
LEMMA StillCounted ==
  ASSUME GatewayInv, setup' = setup, phase' \in Phases, client' \in {"here", "gone"}, up' \in Streams,
         memory' \in {"none", "buffered", "replaced"}, body' \in Nat, got' \in Seq(Items),
         up'.read <= up'.sent, up'.sent <= Len(GuestAnswer)
  PROVE  Counted'
BY DEF GatewayInv, GatewayTypeOK, Counted, GuestAnswer

LEMMA EndCounted ==
  ASSUME GatewayInv, NEW items \in Seq(Items), End(items)
  PROVE  Counted'
<1>1. up' \in Streams /\ up'.read = up.read /\ up'.sent = up.sent
  BY DEF End, GatewayInv, GatewayTypeOK, Streams, Released
<1>2. got' \in Seq(Items)
  BY SentItems DEF End
<1> QED
  BY <1>1, <1>2, StillCounted DEF End, GatewayInv, GatewayTypeOK, Phases

LEMMA CatchItems == Catch \in Seq(Items)
<1>1. <<"cut">> \in Seq(Items) /\ <<"502", "end">> \in Seq(Items)
  BY DEF Items
<1> QED
  BY <1>1 DEF Catch

LEMMA CodeItems ==
  ASSUME NEW code \in {"403", "404", "426"}
  PROVE  <<code, "end">> \in Seq(Items)
BY DEF Items

LEMMA FailCounted ==
  ASSUME GatewayInv, Fail
  PROVE  Counted'
BY CatchItems, EndCounted DEF Fail

LEMMA StepCounted ==
  ASSUME GatewayInv, GatewayNext
  PROVE  Counted'
<1>0. /\ up \in Streams /\ up.read <= up.sent /\ up.sent <= Len(GuestAnswer)
      /\ phase \in Phases /\ client \in {"here", "gone"}
      /\ memory \in {"none", "buffered", "replaced"} /\ body \in Nat /\ got \in Seq(Items)
      /\ setup.length \in Nat /\ Len(GuestAnswer) \in Nat
  BY SetupTypes, AnswerItems DEF GatewayInv, GatewayTypeOK
<1>1. ASSUME NEW code \in {"404", "426"}, Refuse(code)
      PROVE  Counted'
  BY <1>1, CodeItems, EndCounted DEF Refuse
<1>2. CASE Route
  BY <1>0, <1>2, StillCounted DEF Route, Phases
<1>3. ASSUME NEW v \in {"allowed", "blocked", "throws"}, Policy(v)
      PROVE  Counted'
  <2>1. CASE v = "allowed"
    BY <1>0, <1>3, <2>1, StillCounted DEF Policy, Phases
  <2>2. CASE v = "blocked"
    BY <1>3, <2>2, CodeItems, EndCounted DEF Policy
  <2>3. CASE v = "throws"
    BY <1>3, <2>3, FailCounted DEF Policy
  <2> QED
    BY <2>1, <2>2, <2>3
<1>4. CASE Opened \/ HeadWritten
  <2>1. up' \in Streams /\ up'.read = up.read /\ up'.sent = up.sent
    BY <1>0, <1>4 DEF Opened, HeadWritten, Streams
  <2> QED
    BY <1>0, <1>4, <2>1, StillCounted DEF Opened, HeadWritten, Phases
<1>5. CASE ReadHead
  <2>1. up' \in Streams /\ up'.read = 1 /\ up'.sent = up.sent /\ up.sent >= 1
    BY <1>0, <1>5 DEF ReadHead, Unread, Streams
  <2> QED
    BY <1>0, <1>5, <2>1, StillCounted DEF ReadHead, Phases
<1>6. CASE HeaderTimeout
  <2>1. up' \in Streams /\ up'.read = up.read /\ up'.sent = up.sent
    BY <1>0, <1>6 DEF HeaderTimeout, Streams
  <2>2. got' \in Seq(Items)
    BY <1>6, CatchItems, SentItems DEF HeaderTimeout
  <2> QED
    BY <1>0, <1>6, <2>1, <2>2, StillCounted DEF HeaderTimeout, Phases
<1>7. CASE BufferChunk \/ RelayChunk
  <2>1. up' \in Streams /\ up'.read = up.read + 1 /\ up'.sent = up.sent /\ up.sent >= up.read + 1
    <3>1. up.sent \in Nat /\ up.read \in Nat
      BY <1>0 DEF Streams
    <3>2. PICK n \in Nat : n = up.read + 1
      BY <3>1
    <3>3. up.sent >= n
      BY <1>7, <3>1, <3>2 DEF BufferChunk, RelayChunk, Unread
    <3>4. up' = [up EXCEPT !.read = n]
      BY <1>7, <3>2 DEF BufferChunk, RelayChunk
    <3> QED
      BY <1>0, <3>2, <3>3, <3>4 DEF Streams
  <2>2. <<"chunk">> \in Seq(Items) /\ <<>> \in Seq(Items)
    BY DEF Items
  <2>3. got' \in Seq(Items)
    <3>1. CASE BufferChunk
      BY <1>0, <3>1 DEF BufferChunk
    <3>2. CASE RelayChunk
      BY <2>2, <3>2, SentItems DEF RelayChunk
    <3> QED
      BY <1>7, <3>1, <3>2
  <2> QED
    BY <1>0, <1>7, <2>1, <2>3, StillCounted DEF BufferChunk, RelayChunk
<1>8. CASE BufferDone \/ \E b \in BOOLEAN : Hooked(b)
  BY <1>0, <1>8, StillCounted DEF BufferDone, Hooked, Phases
<1>9. CASE AnswerFromMemory
  <2>1. PICK n \in Nat : n = body
    BY <1>0
  <2>2. PICK chunks : chunks = [i \in 1 .. n |-> "chunk"]
    OBVIOUS
  <2>3. chunks \in Seq(Items) /\ <<"other">> \in Seq(Items) /\ <<"head">> \in Seq(Items) /\ <<"end">> \in Seq(Items)
    BY <2>2 DEF Items
  <2>4. PICK middle \in Seq(Items) : End(<<"head">> \o middle \o <<"end">>)
    BY <1>9, <2>1, <2>2, <2>3 DEF AnswerFromMemory
  <2>5. <<"head">> \o middle \o <<"end">> \in Seq(Items)
    BY <2>3
  <2> QED
    BY <2>4, <2>5, EndCounted
<1>10. CASE WriteResponseHead
  <2>1. <<"head">> \in Seq(Items)
    BY DEF Items
  <2>2. got' \in Seq(Items)
    BY <1>10, <2>1, SentItems DEF WriteResponseHead
  <2> QED
    BY <1>0, <1>10, <2>2, StillCounted DEF WriteResponseHead, Phases
<1>11. CASE RelayDone
  <2>1. <<"end">> \in Seq(Items)
    BY DEF Items
  <2> QED
    BY <1>11, <2>1, EndCounted DEF RelayDone
<1>12. CASE BodyTimeout
  <2>1. up' \in Streams /\ up'.read = up.read /\ up'.sent = up.sent
    BY <1>0, <1>12 DEF BodyTimeout, TimeoutStream, Streams
  <2> QED
    BY <1>0, <1>12, <2>1, StillCounted DEF BodyTimeout, Phases
<1>13. ASSUME NEW b \in BOOLEAN, Upgraded(b)
       PROVE  Counted'
  <2>1. up' \in Streams /\ up'.read = up.read /\ up'.sent = up.sent
    BY <1>0, <1>13 DEF Upgraded, Streams
  <2>2. <<"head">> \in Seq(Items) /\ <<"head", "end">> \in Seq(Items)
    BY DEF Items
  <2>3. got' \in Seq(Items)
    BY <1>13, <2>2, SentItems DEF Upgraded
  <2> QED
    BY <1>0, <1>13, <2>1, <2>3, StillCounted DEF Upgraded, Phases
<1>14. CASE TunnelEnds \/ UploadChunk
  BY <1>0, <1>14, StillCounted DEF TunnelEnds, UploadChunk, Phases
<1>15. CASE ClientLeaves \/ GuestEnds \/ GuestCloses
  <2>1. up' \in Streams /\ up'.read = up.read /\ up'.sent = up.sent
    BY <1>0, <1>15 DEF ClientLeaves, GuestEnds, GuestCloses, Streams
  <2> QED
    BY <1>0, <1>15, <2>1, StillCounted DEF ClientLeaves, GuestEnds, GuestCloses
<1>16. CASE GuestSends
  <2>1. up' \in Streams /\ up'.read = up.read /\ up'.sent = up.sent + 1
    BY <1>0, <1>16 DEF GuestSends, Streams
  <2>2. up.sent \in Nat /\ up.read \in Nat
    BY <1>0 DEF Streams
  <2> QED
    BY <1>0, <1>16, <2>1, <2>2, StillCounted DEF GuestSends
<1>17. CASE OpenFails \/ HeadMissing \/ BufferOverflows \/ HookFails \/ AnswerFails \/ Unwound \/ WriteFails
  BY <1>17, FailCounted DEF OpenFails, HeadMissing, BufferOverflows, HookFails, AnswerFails, Unwound, WriteFails
<1> QED
  BY <1>1, <1>2, <1>3, <1>4, <1>5, <1>6, <1>7, <1>8, <1>9, <1>10, <1>11, <1>12, <1>13, <1>14, <1>15, <1>16, <1>17
     DEF GatewayNext, Handler, Writes

\* A relayed answer that is ended is whole.
LEMMA RelayedIsWhole ==
  ASSUME GatewayInv, NEW n \in Nat, n = setup.length
  PROVE  Whole = Relayed(n) \o <<"end">>
BY DEF Whole, Relayed

LEMMA AnsweringKept ==
  ASSUME GatewayInv, GatewayNext, Plain
  PROVE  Answering'
<1>0. /\ up \in Streams /\ phase \in Phases /\ client \in {"here", "gone"} /\ body \in Nat /\ got \in Seq(Items)
      /\ memory \in {"none", "buffered", "replaced"} /\ setup.length \in Nat /\ Answering
  BY SetupTypes DEF GatewayInv, GatewayTypeOK
<1>1. CASE phase \in Early
  <2>0. got = <<>> /\ up.read = 0 /\ body = 0 /\ memory = "none" /\ Unended
    BY <1>0, <1>1 DEF Answering, Early, Unended
  <2>1. ASSUME NEW code \in {"404", "426"}, Refuse(code)
        PROVE  Answering'
    BY <2>0, <2>1, CodeEnds DEF Refuse, GatewayInv, Plain, End
  <2>2. CASE Route
    BY <1>0, <2>0, <2>2 DEF Route, Answering, Early
  <2>3. ASSUME NEW v \in {"allowed", "blocked", "throws"}, Policy(v)
        PROVE  Answering'
    <3>1. CASE v = "allowed"
      BY <1>0, <2>0, <2>3, <3>1 DEF Policy, Answering, Early
    <3>2. CASE v = "blocked"
      BY <2>0, <2>3, <3>2, CodeEnds DEF Policy, GatewayInv, Plain, End
    <3>3. CASE v = "throws"
      BY <2>0, <2>3, <3>3, FailEnds DEF Policy, GatewayInv, Plain, End, Fail
    <3> QED
      BY <3>1, <3>2, <3>3
  <2>4. CASE Opened \/ HeadWritten \/ UploadChunk
    BY <1>0, <2>0, <2>4 DEF Opened, HeadWritten, UploadChunk, Answering, Early, Streams
  <2>5. CASE ReadHead
    BY <1>0, <2>0, <2>5 DEF ReadHead, Answering, Early, Streams, Chunks
  <2>6. CASE HeaderTimeout
    <3>1. got' = IF client = "here" THEN <<"502", "end">> ELSE <<>>
      BY <2>0, <2>6 DEF HeaderTimeout, Send, Catch
    <3>2. CompleteAnswersAreWhole'
      BY <3>1 DEF CompleteAnswersAreWhole
    <3> QED
      BY <2>6, <3>2 DEF HeaderTimeout, Answering, Early
  <2>7. CASE OpenFails \/ HeadMissing \/ WriteFails
    BY <2>0, <2>7, FailEnds DEF OpenFails, HeadMissing, WriteFails, GatewayInv, Plain, End, Fail
  <2>8. CASE ClientLeaves \/ GuestSends \/ GuestEnds \/ GuestCloses
    BY <1>0, <1>1, <2>0, <2>8 DEF ClientLeaves, GuestSends, GuestEnds, GuestCloses, Answering, Early, Streams, NoStream
  <2> QED
    BY <1>1, <2>1, <2>2, <2>3, <2>4, <2>5, <2>6, <2>7, <2>8
       DEF GatewayNext, Handler, Writes, Early, BufferChunk, BufferOverflows, BufferDone, Hooked, HookFails,
           AnswerFromMemory, WriteResponseHead, RelayChunk, RelayDone, AnswerFails, BodyTimeout, Unwound,
           Upgraded, TunnelEnds
<1>2. CASE phase \in {"buffering", "hook", "answering"}
  <2>0. got = <<>> /\ up.read > 0 /\ Unended
    BY <1>0, <1>2 DEF Answering, Unended
  <2>1. CASE BufferChunk
    <3>1. body' = Chunks(up.read + 1)
      <4>1. body = Chunks(up.read)
        BY <1>0, <2>1 DEF BufferChunk, Answering
      <4> QED
        BY <2>0, <2>1, <4>1, ChunkCounted DEF BufferChunk
    <3>2. up'.read = up.read + 1
      BY <1>0, <2>1 DEF BufferChunk, Streams
    <3>3. body' = Chunks(up.read)'
      BY <2>1, <3>1, <3>2 DEF BufferChunk, Chunks
    <3> QED
      BY <1>0, <2>0, <2>1, <3>2, <3>3 DEF BufferChunk, Answering, Early, Streams
  <2>2. CASE BufferDone
    <3>1. setup.framing = "toEnd" \/ body = setup.length
      BY <1>0, <2>0, <2>2, AllChunks DEF BufferDone, Answering
    <3> QED
      BY <1>0, <2>0, <2>2, <3>1 DEF BufferDone, Answering, Early
  <2>3. CASE \E b \in BOOLEAN : Hooked(b)
    BY <1>0, <2>0, <2>3 DEF Hooked, Answering, Early
  <2>4. CASE AnswerFromMemory
    <3>1. client = "here" /\ phase' = "over" /\ setup' = setup /\ memory # "none"
      BY <2>4 DEF AnswerFromMemory, End
    <3>2. CASE memory = "replaced"
      <4>1. got' = <<>> \o (<<"head">> \o <<"other">> \o <<"end">>)
        BY <2>0, <2>4, <3>1, <3>2 DEF AnswerFromMemory, End, Send
      <4>2. PICK items : items = <<"head", "other", "end">>
        OBVIOUS
      <4>3. <<"head">> \o <<"other">> \o <<"end">> = items /\ items \in Seq(Items)
        <5>1. PICK h : h = <<"head">>
          OBVIOUS
        <5>2. PICK o : o = <<"other">>
          OBVIOUS
        <5>3. PICK e : e = <<"end">>
          OBVIOUS
        <5>4. h \in Seq(Items) /\ o \in Seq(Items) /\ e \in Seq(Items)
          BY <5>1, <5>2, <5>3 DEF Items
        <5>5. PICK s : s = h \o o \o e
          OBVIOUS
        <5>6. s \in Seq(Items) /\ Len(s) = 3 /\ s[1] = "head" /\ s[2] = "other" /\ s[3] = "end"
          BY <5>1, <5>2, <5>3, <5>4, <5>5
        <5>7. items \in Seq(Items) /\ Len(items) = 3 /\ items[1] = "head" /\ items[2] = "other" /\ items[3] = "end"
          BY <4>2 DEF Items
        <5>8. s = items
          BY <5>6, <5>7
        <5> QED
          BY <5>1, <5>2, <5>3, <5>5, <5>7, <5>8
      <4>4. <<>> \o items = items
        BY <4>3
      <4>5. got' = <<"head", "other", "end">>
        BY <4>1, <4>2, <4>3, <4>4, Zenon
      <4> QED
        BY <3>1, <4>5 DEF Answering, Early, CompleteAnswersAreWhole
    <3>3. CASE memory = "buffered"
      <4>1. PICK n \in Nat : n = body
        BY <1>0
      <4>2. PICK items : items = Relayed(n) \o <<"end">>
        OBVIOUS
      <4>3. got' = <<>> \o items
        BY <2>0, <2>4, <3>1, <3>3, <4>1, <4>2 DEF AnswerFromMemory, End, Send, Relayed
      <4>4. items \in Seq(Items)
        BY <4>2, RelayedGrows DEF Items
      <4>5. got' = items
        BY <4>3, <4>4
      <4>6. setup.framing = "toEnd" \/ items = Whole
        BY <1>0, <2>4, <3>3, <4>1, <4>2, RelayedIsWhole DEF Answering, AnswerFromMemory
      <4> QED
        BY <3>1, <4>5, <4>6 DEF Answering, Early, CompleteAnswersAreWhole, Whole
    <3> QED
      BY <1>0, <3>1, <3>2, <3>3
  <2>5. CASE WriteResponseHead
    <3>1. up.read = 1 /\ up' = up /\ setup' = setup /\ client' = client
      BY <1>0, <2>5 DEF WriteResponseHead, Answering
    <3>2. Relayed(0) = <<"head">>
      <4>1. PICK chunks : chunks = [i \in 1 .. 0 |-> "chunk"]
        OBVIOUS
      <4>2. chunks = <<>>
        BY <4>1
      <4> QED
        BY <4>1, <4>2 DEF Relayed
    <3>3. Chunks(1) = 0
      BY <1>0 DEF Chunks
    <3>4. (Relayed(Chunks(up.read)))' = <<"head">>
      BY <3>1, <3>2, <3>3 DEF Chunks, Relayed
    <3>5. got' = IF client = "here" THEN <<"head">> ELSE <<>>
      BY <2>0, <2>5 DEF WriteResponseHead, Send
    <3>6. Unended'
      BY <3>5 DEF Unended
    <3> QED
      BY <1>0, <2>5, <3>1, <3>4, <3>5, <3>6 DEF WriteResponseHead, Answering, Early
  <2>6. CASE BodyTimeout
    BY <2>0, <2>6 DEF BodyTimeout, Answering, Early, Unended
  <2>7. CASE BufferOverflows \/ HookFails \/ AnswerFails
    BY <2>0, <2>7, FailEnds DEF BufferOverflows, HookFails, AnswerFails, GatewayInv, Plain, End, Fail
  <2>8. CASE ClientLeaves \/ GuestSends \/ GuestEnds \/ GuestCloses
    <3>1. up'.read = up.read /\ phase' = phase /\ got' = got /\ body' = body /\ memory' = memory /\ setup' = setup
      BY <1>0, <2>8 DEF ClientLeaves, GuestSends, GuestEnds, GuestCloses, Streams
    <3> QED
      BY <1>0, <1>2, <3>1 DEF Answering, Early, Chunks
  <2> QED
    BY <1>2, <2>1, <2>2, <2>3, <2>4, <2>5, <2>6, <2>7, <2>8
       DEF GatewayNext, Handler, Writes, Refuse, Route, Policy, Opened, OpenFails, ReadHead, HeadMissing,
           HeaderTimeout, RelayChunk, RelayDone, Unwound, Upgraded, TunnelEnds, HeadWritten, UploadChunk, WriteFails
<1>3. CASE phase \in {"relaying", "unwinding"}
  <2>0. Unended
    BY <1>0, <1>3 DEF Answering
  <2>1. CASE RelayChunk
    <3>1. up.read > 0 /\ client = "here" /\ got = Relayed(Chunks(up.read))
      BY <1>0, <2>1 DEF RelayChunk, Answering
    <3>2. PICK n \in Nat : n = Chunks(up.read)
      BY <2>1, <3>1, ChunkCounted DEF RelayChunk
    <3>3. got' = IF GuestAnswer[up.read + 1] = "chunk" THEN Relayed(n) \o <<"chunk">> ELSE Relayed(n) \o <<>>
      BY <2>1, <3>1, <3>2 DEF RelayChunk, Send
    <3>4. PICK m \in Nat : m = IF GuestAnswer[up.read + 1] = "chunk" THEN n + 1 ELSE n
      BY <3>2
    <3>5. got' = Relayed(m)
      BY <3>2, <3>3, <3>4, RelayedGrows
    <3>6. m = Chunks(up.read + 1)
      BY <2>1, <3>1, <3>2, <3>4, ChunkCounted DEF RelayChunk
    <3>7. up'.read = up.read + 1 /\ setup' = setup /\ phase' = "relaying" /\ client' = client
      BY <1>0, <2>1 DEF RelayChunk, Streams
    <3>8. got' = (Relayed(Chunks(up.read)))'
      BY <3>5, <3>6, <3>7 DEF Relayed, Chunks
    <3>9. Unended'
      <4>1. Relayed(m)[Len(Relayed(m))] # "end"
        BY <3>4, RelayedGrows
      <4> QED
        BY <3>5, <4>1 DEF Unended
    <3>10. up'.read > 0
      BY <1>0, <3>1, <3>7 DEF Streams
    <3> QED
      BY <3>7, <3>8, <3>9, <3>10 DEF Answering, Early
  <2>2. CASE RelayDone
    <3>1. client = "gone" => Unended
      BY <2>0
    <3>2. ASSUME client = "here"
          PROVE  CompleteAnswersAreWhole'
      <4>1. PICK n \in Nat : n = setup.length
        BY <1>0
      <4>2. up.read > 0 /\ got = Relayed(Chunks(up.read)) /\ got' = got \o <<"end">> /\ setup' = setup
        BY <1>0, <2>2, <3>2 DEF RelayDone, Answering, End, Send
      <4>3. setup.framing = "toEnd" \/ got' = Whole
        BY <2>2, <4>1, <4>2, AllChunks, RelayedIsWhole DEF RelayDone
      <4> QED
        BY <4>2, <4>3 DEF CompleteAnswersAreWhole, Whole
    <3>3. <<"end">> \in Seq(Items) /\ End(<<"end">>)
      BY <2>2 DEF RelayDone, Items
    <3>4. GatewayInv'
      BY <3>1, <3>2, <3>3, EndsWhole
    <3> QED
      BY <2>2, <3>4 DEF GatewayInv, Plain, RelayDone, End
  <2>3. CASE BodyTimeout
    BY <2>0, <2>3 DEF BodyTimeout, Answering, Early, Unended
  <2>4. CASE AnswerFails \/ Unwound
    BY <2>0, <2>4, FailEnds DEF AnswerFails, Unwound, GatewayInv, Plain, End, Fail
  <2>5. CASE ClientLeaves \/ GuestSends \/ GuestEnds \/ GuestCloses
    <3>1. /\ up'.read = up.read /\ phase' = phase /\ got' = got /\ body' = body /\ memory' = memory /\ setup' = setup
          /\ client' = "here" => client = "here"
      BY <1>0, <2>5 DEF ClientLeaves, GuestSends, GuestEnds, GuestCloses, Streams
    <3>2. (Relayed(Chunks(up.read)))' = Relayed(Chunks(up.read)) /\ Unended'
      BY <2>0, <3>1 DEF Relayed, Chunks, Unended
    <3> QED
      BY <1>0, <1>3, <3>1, <3>2 DEF Answering, Early
  <2> QED
    BY <1>3, <2>1, <2>2, <2>3, <2>4, <2>5
       DEF GatewayNext, Handler, Writes, Refuse, Route, Policy, Opened, OpenFails, ReadHead, HeadMissing,
           HeaderTimeout, BufferChunk, BufferOverflows, BufferDone, Hooked, HookFails, AnswerFromMemory,
           WriteResponseHead, Upgraded, TunnelEnds, HeadWritten, UploadChunk, WriteFails
<1>4. CASE phase = "over"
  <2>1. setup' = setup /\ phase' = "over" /\ got' = got
    BY <1>4 DEF GatewayNext, Handler, Writes, Refuse, Route, Policy, Opened, OpenFails, ReadHead, HeadMissing,
           HeaderTimeout, BufferChunk, BufferOverflows, BufferDone, Hooked, HookFails, AnswerFromMemory,
           WriteResponseHead, RelayChunk, RelayDone, AnswerFails, BodyTimeout, Unwound, Upgraded, TunnelEnds,
           HeadWritten, UploadChunk, WriteFails, ClientLeaves, GuestSends, GuestEnds, GuestCloses
  <2> QED
    BY <1>0, <1>4, <2>1 DEF Answering, Early, CompleteAnswersAreWhole, Whole
<1> QED
  BY <1>0, <1>1, <1>2, <1>3, <1>4 DEF Phases, Early, Answering

\* A client that sees a complete answer has the guest's whole body, the hook's or
\* the gateway's own, whatever breaks off, times out or leaves, and when
\* (ingress.ts).
THEOREM AnswersWholeAlways == GatewaySpec => []CompleteAnswersAreWhole
<1>1. GatewayInit => GatewayInv
  <2> SUFFICES ASSUME GatewayInit PROVE GatewayInv
    OBVIOUS
  <2>1. GatewayTypeOK
    BY DEF GatewayInit, GatewayTypeOK, Phases, Streams, NoStream
  <2>2. Len(GuestAnswer) \in Nat
    BY <2>1, AnswerItems
  <2> QED
    BY <2>1, <2>2 DEF GatewayInit, GatewayInv, Answering, Early, NoStream
<1>2. GatewayInv /\ [GatewayNext]_gatewayVars => GatewayInv'
  <2> SUFFICES ASSUME GatewayInv, [GatewayNext]_gatewayVars
               PROVE  GatewayInv'
    OBVIOUS
  <2>1. CASE GatewayNext
    <3>1. Counted'
      BY <2>1, StepCounted
    <3>2. setup' = setup
      BY <2>1 DEF GatewayNext, Handler, Writes, Refuse, Route, Policy, Opened, OpenFails, ReadHead, HeadMissing,
           HeaderTimeout, BufferChunk, BufferOverflows, BufferDone, Hooked, HookFails, AnswerFromMemory,
           WriteResponseHead, RelayChunk, RelayDone, AnswerFails, BodyTimeout, Unwound, Upgraded, TunnelEnds,
           HeadWritten, UploadChunk, WriteFails, ClientLeaves, GuestSends, GuestEnds, GuestCloses, End, Fail
    <3>3. Plain' = Plain
      BY <3>2 DEF Plain
    <3> QED
      BY <2>1, <3>1, <3>3, AnsweringKept DEF GatewayInv, Counted
  <2>2. CASE UNCHANGED gatewayVars
    BY <2>2 DEF gatewayVars, GatewayInv, GatewayTypeOK, Answering, CompleteAnswersAreWhole, Whole, GuestAnswer,
       Plain, Unended, Relayed, Chunks
  <2> QED
    BY <2>1, <2>2
<1>3. GatewayInv => CompleteAnswersAreWhole
  BY DEF GatewayInv, GatewayTypeOK, Phases, Answering, CompleteAnswersAreWhole, Unended, Early
<1> QED
  BY <1>1, <1>2, <1>3, PTL DEF GatewaySpec
=============================================================================
