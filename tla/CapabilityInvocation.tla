------------------------ MODULE CapabilityInvocation ------------------------
(***************************************************************************)
(* One-shot invocations of an exact-reader or exact-writer capability      *)
(* (capability-invocation.ts), each in a VM of its own, and the            *)
(* publication of a writer's private output to its host file               *)
(* (capability-filesystem.ts), with the evidence that is sealed for it and *)
(* the checks a verifier makes of it (invocation-evidence.ts).             *)
(*                                                                         *)
(* All contexts select the same host file.  Their code is JavaScript: a    *)
(* settlement runs to its end without an await, so its steps interleave    *)
(* only with other programs of the host, which may change the file, link   *)
(* it or replace its directory at any time, and with the death of VMs.     *)
(***************************************************************************)
EXTENDS Naturals, Sequences

CONSTANTS
  Invocations,
  Contexts,
  Setups,        \* what the callers ask for, see SetupType
  MaxExternal,   \* changes by other programs (bounds the model)
  MaxInode       \* inode numbers; a freed one is used again

Mutations == {"create", "write", "truncate"}
Nothing   == [len |-> 0, by |-> "nothing"]
Data(n, w) == [len |-> n, by |-> IF n = 0 THEN "nobody" ELSE w]

\* the context an invocation is submitted to, its request.invocationId and the
\* operations it requests, the profile of a context, and whether the file exists
\* when the contexts are created
SetupType ==
  [contextOf : [Invocations -> Contexts], id : [Invocations -> Nat],
   operations : [Invocations -> SUBSET Mutations \ {{}}],
   profileOf : [Contexts -> {"exact-reader", "exact-writer"}], exists : BOOLEAN]

ASSUME InvocationAssumption ==
  /\ \A s \in Setups : /\ DOMAIN s = {"contextOf", "id", "operations", "profileOf", "exists"}
                       /\ s.contextOf \in [Invocations -> Contexts]
                       /\ \A i \in Invocations : s.operations[i] \subseteq Mutations
  /\ MaxExternal \in Nat /\ MaxInode \in Nat
  /\ Invocations \cap {"nothing", "nobody", "host", "another program"} = {}

VARIABLES
  setup,         \* the element of Setups that this behaviour is about
  host,          \* the file: [ino, links, data], inode 0 when it is absent
  parent,        \* identity of the directory at its parent path
  external,      \* changes made by other programs so far
  pins,          \* sourceIdentities and targetIdentities: [parent, ino] or NoPin
  usedIds,       \* usedInvocationIds of a context
  identity,      \* status in the execution registry
  inv            \* the locals of executeReader or executeWriter

vars == <<setup, host, parent, external, pins, usedIds, identity, inv>>

Absent == [ino |-> 0, links |-> 0, data |-> Nothing]
NoPin  == [parent |-> 0, ino |-> 0]

ContextOf(i) == setup.contextOf[i]
Granted(i)   == setup.operations[i]
Writer(i)    == setup.profileOf[ContextOf(i)] = "exact-writer"

Unpublished == [len |-> 0, by |-> "none replaced"]

NoPublication ==
  [state |-> "not_published", phase |-> "not_attempted", check |-> "unknown",
   cleanup |-> "verified"]

Unused ==
  [pc |-> "idle", pin |-> NoPin, initial |-> Nothing,
   snapshot |-> Nothing, created |-> FALSE, written |-> FALSE,
   attempted |-> {}, denied |-> {}, observed |-> {}, limit |-> "none",
   vm |-> FALSE, runner |-> "none", dispatched |-> FALSE, admission |-> FALSE,
   exit |-> "none", outcome |-> "transport_failure", torn |-> FALSE,
   staged |-> 0, publication |-> NoPublication, ambiguous |-> FALSE,
   failed |-> FALSE, next |-> NoPin, output |-> "initial", ephemeral |-> FALSE,
   replaced |-> Unpublished, raced |-> FALSE]

Init ==
  /\ setup \in Setups
  /\ host = IF setup.exists THEN [ino |-> 1, links |-> 1, data |-> Data(2, "host")]
            ELSE Absent
  /\ parent = 1 /\ external = 0
  /\ pins = [c \in Contexts |-> [parent |-> 1, ino |-> host.ino]]
  /\ usedIds = [c \in Contexts |-> {}]
  /\ identity = [i \in Invocations |-> "none"]
  /\ inv = [i \in Invocations |-> Unused]

Settling(i) == inv[i].pc \in {"prepare", "compare", "reread", "publish", "verify", "cleanup", "sealed"}
\* the event loop is not in the middle of a settlement
LoopFree == \A i \in Invocations : ~Settling(i)

\* A file stays until it has neither a name nor a descriptor.
InUse(ino) ==
  \/ ino = host.ino
  \/ \E i \in Invocations : Settling(i) /\ inv[i].staged = ino
  \/ \E i \in Invocations : inv[i].pc = "reread" /\ inv[i].pin.ino = ino
FreeInodes == {ino \in 1 .. MaxInode : ~InUse(ino)}

-----------------------------------------------------------------------------
(* Admission and the reservation of the target *)

\* admit(): the pin of a writer's target is there and the grant fits it
Admitted(i) ==
  Writer(i) =>
    /\ pins[ContextOf(i)] # NoPin
    /\ pins[ContextOf(i)].ino = 0 => "create" \in Granted(i)
    /\ pins[ContextOf(i)].ino # 0 => Granted(i) # {"create"}

\* readExactHostFile and readExactWriterTarget accept what is at the path
Matches(i, pin) ==
  /\ pin.ino = host.ino
  /\ Writer(i) => parent = pin.parent /\ (host.ino # 0 => host.links = 1)

\* the target's pin is taken out of the map before the first await
Reserves(i) == Writer(i)

Invoke(i) ==
  LET c == ContextOf(i)
      pin == pins[c] IN
  /\ inv[i].pc = "idle" /\ LoopFree
  /\ \/ /\ ~Admitted(i) \/ setup.id[i] \in usedIds[c]
        /\ inv' = [inv EXCEPT ![i].pc = "refused"]
        /\ UNCHANGED <<pins, usedIds, identity>>
     \/ /\ Admitted(i) /\ setup.id[i] \notin usedIds[c]
        /\ usedIds' = [usedIds EXCEPT ![c] = @ \cup {setup.id[i]}]
        /\ identity' = [identity EXCEPT ![i] = "active"]
        /\ pins' = IF Reserves(i) THEN [pins EXCEPT ![c] = NoPin] ELSE pins
        /\ inv' = [inv EXCEPT ![i] =
             IF Matches(i, pin)
             THEN [@ EXCEPT !.pc = "creating", !.pin = pin, !.next = pin,
                            !.initial = host.data,
                            !.snapshot = IF pin.ino = 0 THEN Data(0, "host")
                                         ELSE host.data,
                            !.created = pin.ino # 0]
             ELSE [@ EXCEPT !.pc = "thrown"]]
  /\ UNCHANGED <<setup, host, parent, external>>

-----------------------------------------------------------------------------
(* Execution in the VM *)

\* The command is over; what only its hooks read is forgotten.
Over(r, outcome) ==
  [r EXCEPT !.pc = "closing", !.outcome = outcome, !.created = FALSE, !.written = FALSE,
            !.snapshot = IF outcome = "success" THEN @ ELSE Nothing]

\* the catch clause; causes other than "error" are turned into an admission error
Caught(r, cause) ==
  LET outcome == IF cause # "error"       THEN "transport_failure"
                 ELSE IF r.limit # "none" THEN r.limit
                 ELSE IF ~r.dispatched    THEN "host_controller_failure"
                 ELSE IF r.runner = "dead" THEN "guest_crash"
                 ELSE "transport_failure" IN
  [Over(r, outcome) EXCEPT !.admission = cause # "error"]

\* a local step of an invocation that is at pc
At(i, pc) == inv[i].pc = pc /\ LoopFree
Becomes(i, r) ==
  inv' = [inv EXCEPT ![i] = r] /\ UNCHANGED <<setup, host, parent, external, pins, usedIds, identity>>

\* VM.create and the check of its guest features
CreateVm(i) ==
  LET r == inv[i] IN
  /\ At(i, "creating")
  /\ \/ Becomes(i, Caught(r, "error"))
     \/ Becomes(i, Caught([r EXCEPT !.vm = TRUE], "unsupported"))
     \/ Becomes(i, [r EXCEPT !.vm = TRUE, !.pc = "starting"])

\* vm.start(); once it is up the timer is set and the command sent
StartVm(i) ==
  LET r == inv[i] IN
  /\ At(i, "starting")
  /\ \/ Becomes(i, [r EXCEPT !.pc = "running", !.runner = "alive", !.dispatched = TRUE])
     \/ \E p \in {"none", "alive", "dead"} :
          Becomes(i, Caught([r EXCEPT !.runner = p], "error"))

\* what a program does to its exact path; n is a size.  Lookups, which are
\* always permitted, are left out.
GuestOps ==
  {[op |-> o, n |-> 0] : o \in {"read", "open", "open_trunc"}}
    \cup [op : {"truncate"}, n : {0, 1}] \cup [op : {"write"}, n : {1, 2}]

\* effects() of createWriterEvidenceHooks
WriterEffects(r, g) ==
  LET fresh == IF r.created THEN <<>> ELSE <<"create">>
      existed == r.initial # Nothing IN
  CASE g.op \in {"read", "write"} -> <<g.op>>
    [] g.op = "open" -> fresh
    [] g.op = "open_trunc" ->
         IF existed \/ r.written THEN fresh \o <<"truncate">> ELSE fresh
    [] g.op = "truncate" ->
         IF ~existed /\ ~r.written /\ g.n = 0 THEN fresh ELSE fresh \o <<"truncate">>

\* classifyOperation, for a reader
ReaderEffects(g) == IF g.op = "read" THEN <<"read">> ELSE <<"write">>

Effects(i, r, g) == IF Writer(i) THEN WriterEffects(r, g) ELSE ReaderEffects(g)

Permitted(i, e) == IF Writer(i) THEN e \in Granted(i) ELSE e = "read"

Written(i, data, g) ==
  CASE g.op = "open_trunc" -> Data(0, i)
    [] g.op = "truncate" -> IF g.n <= data.len THEN Data(g.n, data.by) ELSE Data(g.n, i)
    [] g.op = "write" -> Data(IF g.n > data.len THEN g.n ELSE data.len, i)
    [] OTHER -> data

\* a file operation with the before and after hooks around it
GuestOp(i) ==
  /\ At(i, "running") /\ inv[i].runner = "alive"
  /\ \E g \in GuestOps :
       LET r == inv[i]
           es == Effects(i, r, g)
           tried == {k \in DOMAIN es : \A j \in 1 .. k - 1 : Permitted(i, es[j])}
           attempts == r.attempted \cup {es[k] : k \in tried}
           refused == {es[k] : k \in {j \in tried : ~Permitted(i, es[j])}}
           done == {es[k] : k \in tried} IN
       Becomes(i,
         IF refused # {}
         THEN [r EXCEPT !.attempted = attempts, !.denied = @ \cup refused]
         ELSE [r EXCEPT !.attempted = attempts, !.observed = @ \cup done,
                        !.created = @ \/ "create" \in done,
                        !.written = @ \/ done \cap {"write", "truncate"} # {},
                        !.snapshot = IF Writer(i) THEN Written(i, @, g) ELSE @])

Limits == {"timeout", "output_overflow"}

\* The exec is answered.  An abort that comes between its response and the code
\* behind the await rejects nothing any more: only the limit's flag is left of it,
\* which executeReader does not look at again.
ExecAnswered(i) ==
  /\ At(i, "running") /\ inv[i].runner = "alive"
  /\ \E exit \in {"zero", "nonzero"}, descendantDenied \in BOOLEAN,
        late \in {"none"} \cup (IF Writer(i) THEN Limits ELSE {}) :
       LET r == inv[i] IN
       Becomes(i, [Over(r, IF r.denied # {} \/ descendantDenied THEN "policy_denied"
                           ELSE IF exit = "zero" THEN "success"
                           ELSE "command_failed") EXCEPT !.exit = exit, !.limit = late])

\* the wall-time timer or BoundedOutput aborts the exec, which rejects it
LimitHit(i) ==
  /\ At(i, "running")
  /\ \E limit \in Limits : Becomes(i, Caught([inv[i] EXCEPT !.limit = limit], "error"))

\* the exec is refused for want of a policy, or the connection is lost
ExecRejected(i) ==
  /\ At(i, "running")
  /\ \E cause \in {"policy_unavailable", "error"} : Becomes(i, Caught(inv[i], cause))

\* the VMM dies under the command
VmDies(i) ==
  /\ inv[i].pc = "running" /\ inv[i].runner = "alive"
  /\ Becomes(i, [inv[i] EXCEPT !.runner = "dead"])

-----------------------------------------------------------------------------
(* Teardown, settlement and the sealed result *)

Sealed(r) ==
  LET all == r.torn /\ r.publication.cleanup = "verified" IN
  [r EXCEPT !.pc = "sealed", !.ephemeral = all,
            !.outcome = IF all THEN @ ELSE "teardown_failure"]

\* a bug: an identity that was published is trusted whatever came after
RestoresPublished(r) == r.next # NoPin /\ r.publication.state # "indeterminate"

RestoresPin(r) ==
  r.next # NoPin /\ r.ephemeral /\ r.publication.state # "indeterminate"

\* evidence is sealed and the target may be pinned again
Return(i, sealed) ==
  /\ inv' = [inv EXCEPT ![i] = sealed]
  /\ identity' = [identity EXCEPT ![i] = IF sealed.ephemeral THEN "completed" ELSE "revoked"]
  /\ pins' = IF Writer(i) /\ RestoresPin(sealed)
             THEN [pins EXCEPT ![ContextOf(i)] = sealed.next] ELSE pins
  /\ UNCHANGED <<setup, parent, external, usedIds>>

Publishes(r) == r.outcome = "success" /\ r.torn /\ r.observed \cap Mutations # {}

\* a bug: a response that came counts, whatever limit was exceeded by then
TrustsResponse(i, r) == r

\* a limit that was hit has the last word on a writer's outcome
Overruled(i, r) ==
  IF Writer(i) /\ ~r.admission /\ r.limit # "none" THEN [r EXCEPT !.outcome = r.limit] ELSE r

\* vm.close() and what follows it up to the next await
CloseVm(i) ==
  /\ At(i, "closing")
  /\ \E closeError \in IF inv[i].vm THEN BOOLEAN ELSE {FALSE},
        runner \in IF inv[i].vm /\ inv[i].runner = "alive" THEN {"alive", "dead"}
                   ELSE {inv[i].runner} :
       LET r == Overruled(i, [inv[i] EXCEPT !.runner = runner,
                                            !.torn = inv[i].vm /\ ~closeError /\ runner # "alive"]) IN
       IF r.admission /\ r.torn
       THEN /\ inv' = [inv EXCEPT ![i] = [Unused EXCEPT !.pc = "thrown"]]
            /\ identity' = [identity EXCEPT ![i] = "revoked"]
            /\ UNCHANGED <<setup, host, parent, external, pins, usedIds>>
       ELSE IF Writer(i) /\ Publishes(r) THEN Becomes(i, [r EXCEPT !.pc = "reading"])
       ELSE Return(i, Sealed(r)) /\ UNCHANGED host

CommitFailed(r) ==
  [r EXCEPT !.outcome = "commit_failure", !.output = "null", !.next = NoPin]

\* readProviderFile, and the start of settleExactWriterTarget
ReadSnapshot(i) ==
  /\ At(i, "reading")
  /\ \/ Return(i, Sealed(CommitFailed(inv[i]))) /\ UNCHANGED host
     \/ Becomes(i, [inv[i] EXCEPT !.pc = "prepare", !.publication.phase = "preparing"])

\* an exception; an open that threw leaves ambiguousOpen set
Fails(r, ambiguous) ==
  [r EXCEPT !.pc = "cleanup", !.failed = TRUE, !.ambiguous = ambiguous,
            !.publication.check = IF r.publication.state = "published" THEN "failed" ELSE @]

IoError(i) == \E ambiguous \in BOOLEAN : Becomes(i, Fails(inv[i], ambiguous))

Authorized(r) ==
  /\ r.pin.ino = 0 => "create" \in r.observed
  /\ r.snapshot.len < r.initial.len => "truncate" \in r.observed

\* the prepared bytes are written to a private file beside the target
Prepare(i) ==
  LET r == inv[i] IN
  /\ r.pc = "prepare"
  /\ \/ IoError(i)
     \/ (parent # r.pin.parent \/ ~Authorized(r)) /\ Becomes(i, Fails(r, FALSE))
     \/ /\ parent = r.pin.parent /\ Authorized(r)
        /\ \E ino \in FreeInodes :
             Becomes(i, [r EXCEPT !.pc = "compare", !.staged = ino,
                                  !.publication.phase = "prepared"])

\* the target is opened again; what is open must be the pinned file
OpenTarget(i) ==
  LET r == inv[i] IN
  /\ r.pc = "compare"
  /\ \/ IoError(i)
     \/ parent # r.pin.parent /\ Becomes(i, Fails(r, FALSE))
     \/ /\ parent = r.pin.parent
        /\ IF r.pin.ino = 0 THEN Becomes(i, [r EXCEPT !.pc = "publish"])
           ELSE IF host.ino = r.pin.ino THEN Becomes(i, [r EXCEPT !.pc = "reread"])
           ELSE Becomes(i, Fails(r, host.ino = 0))

\* What is open is still at the path with other contents than the program was
\* given.  Once its name is gone it reads as whoever else has it open left it.
Changed(r) == host.ino = r.pin.ino /\ host.data # r.initial
Unlinked(r) == host.ino # r.pin.ino

\* it is read, and must hold what the program was given
Compare(i) ==
  LET r == inv[i] IN
  /\ r.pc = "reread"
  /\ \/ IoError(i)
     \/ (Changed(r) \/ Unlinked(r)) /\ Becomes(i, Fails(r, FALSE))
     \/ ~Changed(r) /\ Becomes(i, [r EXCEPT !.pc = "publish"])

\* link for a new file, which fails if there is one by now, or rename
Publish(i) ==
  LET r == [inv[i] EXCEPT !.publication.state = "indeterminate",
                          !.publication.phase = "publishing"]
      shown == [r EXCEPT !.replaced = host.data]
      published == [shown EXCEPT !.publication.state = "published",
                                 !.publication.phase = "published"]
      possible == parent = r.pin.parent /\ (r.pin.ino = 0 => host.ino = 0) IN
  /\ r.pc = "publish"
  /\ \/ inv' = [inv EXCEPT ![i] = Fails(r, FALSE)] /\ UNCHANGED host
     \/ /\ possible
        /\ host' = [ino |-> r.staged, links |-> 1, data |-> r.snapshot]
        /\ \E next \in {[published EXCEPT !.pc = "verify"],
                        Fails(published, FALSE), Fails(shown, FALSE)} :
             inv' = [inv EXCEPT ![i] = next]
  /\ UNCHANGED <<setup, parent, external, pins, usedIds, identity>>

\* the target is read back
Verify(i) ==
  LET r == inv[i] IN
  /\ r.pc = "verify"
  /\ \/ IoError(i)
     \/ IF parent = r.pin.parent /\ host = [ino |-> r.staged, links |-> 1, data |-> r.snapshot]
        THEN Becomes(i, [r EXCEPT !.pc = "cleanup", !.publication.check = "verified",
                                  !.publication.phase = "verified", !.output = "prepared",
                                  !.next = [parent |-> r.pin.parent, ino |-> r.staged]])
        ELSE Becomes(i, Fails(r, FALSE))

\* descriptors are closed, the staging directory is removed, the result sealed
Cleanup(i) ==
  LET r == inv[i] IN
  /\ r.pc = "cleanup"
  /\ \E fails \in BOOLEAN :
       LET c == [r EXCEPT !.publication.cleanup = IF fails THEN "failed"
                                                 ELSE IF r.ambiguous THEN "unknown"
                                                 ELSE "verified"] IN
       Return(i, Sealed(IF fails \/ r.failed THEN CommitFailed(c) ELSE c))
  /\ UNCHANGED host

\* the caller has the result, the locals are gone
Deliver(i) ==
  /\ inv[i].pc = "sealed"
  /\ Becomes(i, [Unused EXCEPT !.pc = "returned", !.torn = inv[i].torn,
                               !.publication = inv[i].publication])

-----------------------------------------------------------------------------
\* The change comes too late for the comparison to see it: the file is open and
\* another takes its name, or it has been read.
Overtakes(i) ==
  inv[i].pc = "publish" \/ (inv[i].pc = "reread" /\ host'.ino # host.ino)

\* Another program of the host changes the file, its links or its directory.
OtherProgram ==
  /\ external < MaxExternal /\ external' = external + 1
  /\ LET data == Data(2, "another program") IN
     \/ /\ host.ino # 0 /\ host' \in {[host EXCEPT !.data = data], [host EXCEPT !.links = 2],
                                      Absent}
        /\ UNCHANGED parent
     \/ /\ \E ino \in FreeInodes : host' = [ino |-> ino, links |-> 1, data |-> data]
        /\ UNCHANGED parent
     \/ host' = Absent /\ parent' = parent + 1
  /\ inv' = [i \in Invocations |->
               IF Overtakes(i) THEN [inv[i] EXCEPT !.raced = TRUE] ELSE inv[i]]
  /\ UNCHANGED <<setup, pins, usedIds, identity>>

Step(i) ==
  \/ Invoke(i) \/ CreateVm(i) \/ StartVm(i) \/ GuestOp(i)
  \/ ExecAnswered(i) \/ LimitHit(i) \/ ExecRejected(i) \/ VmDies(i)
  \/ CloseVm(i) \/ ReadSnapshot(i)
  \/ Prepare(i) \/ OpenTarget(i) \/ Compare(i) \/ Publish(i) \/ Verify(i) \/ Cleanup(i) \/ Deliver(i)

Next == OtherProgram \/ \E i \in Invocations : Step(i)

Spec == Init /\ [][Next]_vars

-----------------------------------------------------------------------------
(* Properties *)

\* A publication replaces only what the program was given: a change another
\* program makes during the invocation is lost only if it comes too late for the
\* last comparison: between its read and the rename, or, another file under the
\* target's name, already between its open and the rename (settleExactWriterTarget).
NoLostUpdate ==
  \A i \in Invocations :
    inv[i].replaced # Unpublished => inv[i].replaced = inv[i].initial \/ inv[i].raced

\* The host file is changed only for a command that ended well and within its
\* limits, a limit hit beside its response included, in a VM that is gone, and only in ways its operations grant (executeWriter,
\* createWriterEvidenceHooks, settleExactWriterTarget).
PublishedWithinAuthority ==
  \A i \in Invocations :
    LET r == inv[i] IN
    r.replaced # Unpublished =>
      /\ r.exit = "zero" /\ r.limit = "none" /\ r.denied = {} /\ r.runner # "alive"
      /\ r.initial = Nothing => "create" \in Granted(i)
      /\ r.snapshot.len < r.initial.len => "truncate" \in Granted(i)
      /\ r.snapshot.by = i => "write" \in Granted(i) \/ "truncate" \in Granted(i)

\* After a publication whose outcome or clean-up is in doubt a context never
\* accepts its target again ("Never restore a pin after ambiguous publication").
DoubtRevokesPin ==
  \A i \in Invocations :
    LET r == inv[i] IN
    /\ Writer(i) /\ r.pc = "returned"
    /\ \/ r.publication.state = "indeterminate" \/ r.publication.check = "failed"
       \/ r.publication.cleanup # "verified" \/ ~r.torn
    => pins[ContextOf(i)] = NoPin

\* verifyPublication, of a writer's evidence
PublicationVerifies(i, r) ==
  LET p == r.publication
      prepared == p.phase # "not_attempted"
      mutated == r.observed \cap Mutations # {} IN
  Writer(i) =>
    /\ p.state = "published" <=> p.phase \in {"published", "verified"}
    /\ p.state = "indeterminate" <=> p.phase = "publishing"
    /\ p.check = "verified" <=> p.phase = "verified"
    /\ ~prepared => r.staged = 0 /\ p.cleanup = "verified"
    /\ p.phase \in {"prepared", "publishing", "published", "verified"} => r.staged # 0
    /\ p.state # "published" => p.check = "unknown"
    /\ p.cleanup # "verified" => ~r.ephemeral
    /\ r.outcome = "success" =>
         /\ IF mutated THEN p.state = "published" ELSE ~prepared
         /\ p.cleanup = "verified"
         /\ p.state = "published" => p.check = "verified" /\ r.output = "prepared"
    /\ r.output = "prepared" => p.state = "published" /\ p.check = "verified"
    /\ r.output = "initial" => p.state = "not_published"

\* verifyEffectRelations
EffectsVerify(r) == r.denied \subseteq r.attempted /\ r.observed \subseteq r.attempted

\* verifyTeardown
TeardownVerifies(r) == (r.torn /\ r.ephemeral) <=> r.outcome # "teardown_failure"

\* verifyCapabilityInvocationResult: an exit code fits the outcome
ResultVerifies(r) ==
  /\ r.outcome = "success" => r.exit = "zero"
  /\ r.outcome = "command_failed" => r.exit # "zero"

\* The evidence an invocation seals passes the checks of the verifier that is
\* handed it, whatever failed on the way.
EvidenceVerifies ==
  \A i \in Invocations :
    LET r == inv[i] IN
    r.pc = "sealed" =>
      PublicationVerifies(i, r) /\ EffectsVerify(r) /\ TeardownVerifies(r) /\ ResultVerifies(r)

\* What is published on the host was allowed, and loses nobody's change.
PublicationIsJustified == NoLostUpdate /\ PublishedWithinAuthority

\* What an invocation says of itself can be relied on: a doubtful publication
\* ends its context's trust, and its evidence passes its verifier.
EvidenceStands == DoubtRevokesPin /\ EvidenceVerifies
=============================================================================
