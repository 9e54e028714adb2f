-------------------- MODULE CapabilityInvocation_proofs --------------------
(***************************************************************************)
(* What is published on the host was allowed and loses nobody's change,    *)
(* and what an invocation says of itself can be relied on, for any number  *)
(* of invocations and contexts, any grants and any interference.           *)
(*                                                                         *)
(* The invariant follows one invocation through its stages (RecordInv) and *)
(* relates invocations in three ways: one settlement at a time holds the   *)
(* event loop (OneSettles), one invocation at a time holds the pin of its  *)
(* writer context (Holders), and data is written by who has published      *)
(* (Authorship).  The last part is about the runners that the invocations  *)
(* stand on (ScopedRunner), with an invariant of its own (RunInv).         *)
(***************************************************************************)
EXTENDS CapabilityInvocation, ScopedRunner, TLAPS

Fields == DOMAIN Unused

Authors == Invocations \cup {"nobody", "host", "another program"}
Datum == [len : Nat, by : Authors]

Unsettled == {"idle", "refused", "thrown", "creating", "starting", "running",
              "closing", "reading"}
Settlement == {"prepare", "compare", "reread", "publish", "verify", "cleanup"}
Succeeded == {"reading"} \cup Settlement

\* from admission to the sealed result
InProgress == {"creating", "starting", "running", "closing"} \cup Succeeded

Mutated(r) == r.observed \cap Mutations # {}

\* A command that ended well within its limits, in a VM that is gone.
Cleared(i, r) ==
  /\ Writer(i) /\ r.exit = "zero" /\ r.limit = "none" /\ r.denied = {}
  /\ r.runner # "alive" /\ r.torn /\ Mutated(r) /\ r.snapshot \in Datum

-----------------------------------------------------------------------------
(* One invocation. *)

Shape(r) ==
  /\ r = [f \in Fields |-> r[f]]
  /\ r.initial \in Datum \cup {Nothing} /\ r.snapshot \in Datum \cup {Nothing}
  /\ r.raced \in BOOLEAN /\ r.torn \in BOOLEAN /\ r.ephemeral \in BOOLEAN
  /\ r.admission \in BOOLEAN /\ r.failed \in BOOLEAN /\ r.ambiguous \in BOOLEAN
  /\ r.limit \in {"none", "timeout", "output_overflow"}

EffectsKept(i, r) ==
  /\ r.denied \subseteq r.attempted /\ r.observed \subseteq r.attempted
  /\ Writer(i) => r.observed \subseteq Granted(i)
  /\ r.snapshot.by = i => r.observed \cap {"write", "truncate"} # {}

\* What a stage of the execution has.
Execution(i, r) ==
  /\ r.pc \in InProgress => (r.pin.ino = 0 <=> r.initial = Nothing)
  /\ r.pc \in {"creating", "starting", "running"} =>
       /\ r.limit = "none" /\ ~r.admission
       /\ Writer(i) => r.snapshot \in Datum
  /\ r.pc = "closing" =>
       /\ r.outcome # "teardown_failure"
       /\ r.admission => r.outcome = "transport_failure"
       /\ r.outcome = "command_failed" => r.exit # "zero"
       /\ r.outcome = "success" =>
            /\ r.exit = "zero" /\ r.denied = {}
            /\ Writer(i) => r.snapshot \in Datum
  /\ r.pc \in Succeeded => Cleared(i, r) /\ r.outcome = "success"

\* What a stage of the settlement leaves in the publication record.
Settled(r) ==
  LET p(state, phase, check) ==
        r.publication = [state |-> state, phase |-> phase, check |-> check,
                         cleanup |-> "verified"]
      clean == ~r.failed /\ ~r.ambiguous /\ r.output = "initial"
  IN
  /\ r.pc \in Unsettled => p("not_published", "not_attempted", "unknown")
                             /\ clean /\ r.staged = 0
  /\ r.pc = "prepare" => p("not_published", "preparing", "unknown")
                           /\ clean /\ r.staged = 0
  /\ r.pc \in {"compare", "reread", "publish"} =>
       p("not_published", "prepared", "unknown") /\ clean /\ r.staged # 0
  /\ r.pc = "verify" => p("published", "published", "unknown")
                          /\ clean /\ r.staged # 0
  /\ r.pc = "cleanup" =>
       \/ /\ p("published", "verified", "verified") /\ ~r.failed /\ ~r.ambiguous
          /\ r.output = "prepared" /\ r.staged # 0
       \/ /\ r.failed
          /\ \/ p("not_published", "preparing", "unknown")
             \/ p("not_published", "prepared", "unknown") /\ r.staged # 0
             \/ p("indeterminate", "publishing", "unknown") /\ r.staged # 0
             \/ p("published", "published", "failed") /\ r.staged # 0

\* A replaced file was replaced by right.
Replaced(i, r) ==
  /\ r.pc \in {"compare", "reread", "publish", "verify"} => Authorized(r)
  /\ r.pc \in Unsettled \cup {"returned", "prepare", "compare", "reread", "publish"} =>
       r.replaced = Unpublished
  /\ r.replaced # Unpublished =>
       /\ Cleared(i, r) /\ Authorized(r)
       /\ r.pin.ino = 0 <=> r.initial = Nothing
       /\ r.replaced = r.initial \/ r.raced

\* A sealed result passes the verifier, and names no pin after a doubt.
Evidence(i, r) ==
  r.pc = "sealed" =>
    /\ PublicationVerifies(i, r) /\ EffectsVerify(r)
    /\ TeardownVerifies(r) /\ ResultVerifies(r)

RecordInv(i, r) ==
  /\ Shape(r) /\ EffectsKept(i, r) /\ Execution(i, r) /\ Settled(r)
  /\ Replaced(i, r) /\ Evidence(i, r)

-----------------------------------------------------------------------------
(* Invocations, the file and the pins. *)

HostThere ==
  /\ host = [ino |-> host.ino, links |-> host.links, data |-> host.data]
  /\ host.ino # 0 => host.data \in Datum
  /\ host.ino = 0 => host.data = Nothing

OneSettles == \A i, j \in Invocations : Settling(i) /\ Settling(j) => i = j

\* What is open is the pinned file, and what is about to be replaced is what the
\* program was given, unless another program came in between.
TargetKept(r, file) ==
  /\ r.pc = "reread" => file.ino = r.pin.ino \/ r.raced
  /\ r.pc = "publish" => r.pin.ino = 0 \/ file.data = r.initial \/ r.raced

NothingLost == \A i \in Invocations : TargetKept(inv[i], host)

Published(i) == inv[i].pc \in {"verify", "cleanup", "sealed", "returned"}

Authorship ==
  \A i \in Invocations :
    /\ host.data.by = i => Published(i)
    /\ \A j \in Invocations \ {i} : inv[j].snapshot.by = i => Published(i)

Doubted(r) ==
  /\ r.pc \in {"sealed", "returned"}
  /\ \/ r.publication.state = "indeterminate" \/ r.publication.check = "failed"
     \/ r.publication.cleanup # "verified" \/ ~r.torn

\* The pin of a writer context is in the map or with the one invocation that
\* took it, and with nobody after a doubt.
Holders ==
  \A i, j \in Invocations :
    ContextOf(i) = ContextOf(j) /\ Writer(i) =>
      /\ inv[i].pc \in InProgress => pins[ContextOf(i)] = NoPin
      /\ inv[i].pc \in InProgress /\ inv[j].pc \in InProgress => i = j
      /\ Doubted(inv[i]) => pins[ContextOf(i)] = NoPin /\ inv[j].pc \notin InProgress

\* A call that was not made has left nothing.
Untouched == \A i \in Invocations : inv[i].pc = "idle" => inv[i] = Unused

Maps == /\ setup \in Setups
        /\ inv = [i \in Invocations |-> inv[i]]
        /\ pins = [c \in Contexts |-> pins[c]]

IInv ==
  /\ Maps /\ HostThere /\ OneSettles /\ NothingLost /\ Authorship /\ Holders /\ Untouched
  /\ \A i \in Invocations : RecordInv(i, inv[i])

-----------------------------------------------------------------------------
(* What updates of the record of an invocation leave. *)

LEMMA FieldsKnown ==
  Fields = {"pc", "pin", "initial", "snapshot", "created", "written", "attempted",
            "denied", "observed", "limit", "vm", "runner", "dispatched", "admission",
            "exit", "outcome", "torn", "staged", "publication", "ambiguous", "failed",
            "next", "output", "ephemeral", "replaced", "raced"}
BY DEF Fields, Unused

\* The catch clause.
LEMMA CaughtFields ==
  ASSUME NEW r, r = [f \in Fields |-> r[f]], NEW cause,
         r.limit \in {"none", "timeout", "output_overflow"}
  PROVE  LET q == Caught(r, cause) IN
         /\ q = [f \in Fields |-> q[f]]
         /\ q.pc = "closing" /\ q.snapshot = Nothing
         /\ q.outcome \in {"transport_failure", "host_controller_failure", "guest_crash",
                          "timeout", "output_overflow"}
         /\ q.admission = (cause # "error")
         /\ q.admission => q.outcome = "transport_failure"
         /\ \A f \in Fields \ {"pc", "outcome", "created", "written", "snapshot", "admission"} :
               q[f] = r[f]
<1> DEFINE o == IF cause # "error"       THEN "transport_failure"
                ELSE IF r.limit # "none" THEN r.limit
                ELSE IF ~r.dispatched    THEN "host_controller_failure"
                ELSE IF r.runner = "dead" THEN "guest_crash"
                ELSE "transport_failure"
           q == Caught(r, cause)
           v == Over(r, o)
<1>1. /\ o \in {"transport_failure", "host_controller_failure", "guest_crash",
                "timeout", "output_overflow"}
      /\ cause # "error" => o = "transport_failure"
  OBVIOUS
<1>2. q = [v EXCEPT !.admission = (cause # "error")]
  BY DEF Caught
<1> HIDE DEF o, q
<1>3. /\ v = [f \in Fields |-> v[f]]
      /\ v.pc = "closing" /\ v.snapshot = Nothing /\ v.outcome = o
      /\ \A f \in Fields \ {"pc", "outcome", "created", "written", "snapshot"} : v[f] = r[f]
  BY <1>1, FieldsKnown DEF Over
<1> HIDE DEF v
<1>4. QED BY <1>1, <1>2, <1>3, FieldsKnown DEF q

LEMMA NamesApart ==
  \A i \in Invocations :
    i # "nothing" /\ i # "nobody" /\ i # "host" /\ i # "another program"
BY InvocationAssumption

LEMMA NobodysData ==
  /\ \A i \in Invocations : Nothing.by # i
  /\ \A i, w \in Invocations, n \in Nat : Data(n, w).by = i => w = i /\ n # 0
  /\ \A i \in Invocations, n \in Nat :
       Data(n, "host").by # i /\ Data(n, "another program").by # i
BY NamesApart DEF Nothing, Data

\* What the invariant of one record needs when the publication has not begun.
LEMMA StillUnsettled ==
  ASSUME NEW i, NEW r, NEW q, RecordInv(i, r), r.pc \in Unsettled, q.pc \in Unsettled,
         Shape(q), EffectsKept(i, q), Execution(i, q),
         \A f \in {"publication", "failed", "ambiguous", "output", "staged", "replaced"} :
           q[f] = r[f]
  PROVE  RecordInv(i, q)
<1>1. /\ q.publication = r.publication /\ q.failed = r.failed
      /\ q.ambiguous = r.ambiguous /\ q.output = r.output /\ q.staged = r.staged
      /\ q.replaced = r.replaced
  OBVIOUS
<1>2. Settled(q)
  BY <1>1 DEF RecordInv, Settled, Unsettled
<1>3. Replaced(i, q)
  BY <1>1 DEF RecordInv, Replaced, Unsettled
<1>4. Evidence(i, q)
  BY DEF Evidence, Unsettled
<1>5. QED BY <1>2, <1>3, <1>4 DEF RecordInv

\* The catch clause of the execution.
LEMMA CaughtRecord ==
  ASSUME NEW i \in Invocations, NEW r, NEW v, NEW cause, RecordInv(i, r),
         r.pc \in {"creating", "starting", "running"},
         v = [f \in Fields |-> v[f]],
         v.limit \in {"none", "timeout", "output_overflow"},
         \A f \in Fields \ {"vm", "runner", "limit"} : v[f] = r[f]
  PROVE  RecordInv(i, Caught(v, cause))
<1> DEFINE q == Caught(v, cause)
<1>1. /\ q = [f \in Fields |-> q[f]]
      /\ q.pc = "closing" /\ q.snapshot = Nothing
      /\ q.outcome \in {"transport_failure", "host_controller_failure", "guest_crash",
                       "timeout", "output_overflow"}
      /\ q.admission = (cause # "error")
      /\ q.admission => q.outcome = "transport_failure"
      /\ q.limit = v.limit
      /\ \A f \in Fields \ {"pc", "outcome", "created", "written", "snapshot", "admission",
                            "vm", "runner", "limit"} : q[f] = r[f]
  <2>1. /\ q = [f \in Fields |-> q[f]]
        /\ q.pc = "closing" /\ q.snapshot = Nothing
        /\ q.outcome \in {"transport_failure", "host_controller_failure", "guest_crash",
                         "timeout", "output_overflow"}
        /\ q.admission = (cause # "error")
        /\ q.admission => q.outcome = "transport_failure"
        /\ \A f \in Fields \ {"pc", "outcome", "created", "written", "snapshot", "admission"} :
              q[f] = v[f]
    BY CaughtFields
  <2> HIDE DEF q
  <2>2. QED BY <2>1, FieldsKnown
<1> HIDE DEF q
<1>2. /\ q.pin = r.pin /\ q.initial = r.initial /\ q.raced = r.raced /\ q.torn = r.torn
      /\ q.ephemeral = r.ephemeral /\ q.failed = r.failed /\ q.ambiguous = r.ambiguous
      /\ q.denied = r.denied /\ q.attempted = r.attempted /\ q.observed = r.observed
      /\ q.exit = r.exit
      /\ \A f \in {"publication", "failed", "ambiguous", "output", "staged", "replaced"} :
           q[f] = r[f]
  BY <1>1, FieldsKnown
<1>3. Shape(q)
  BY <1>1, <1>2 DEF RecordInv, Shape
<1>4. EffectsKept(i, q)
  <2>1. q.snapshot.by # i
    BY <1>1, NobodysData
  <2>2. QED BY <1>2, <2>1 DEF RecordInv, EffectsKept
<1>5. Execution(i, q)
  BY <1>1, <1>2 DEF RecordInv, Execution, InProgress, Succeeded, Settlement
<1>6. QED BY <1>1, <1>2, <1>3, <1>4, <1>5, StillUnsettled DEF q, Unsettled

\* The program runs, or its VM dies under it.
LEMMA InGuestRecord ==
  ASSUME NEW i \in Invocations, NEW r, NEW q, RecordInv(i, r),
         r.pc \in {"creating", "starting", "running"},
         q.pc \in {"creating", "starting", "running"},
         q = [f \in Fields |-> q[f]],
         \A f \in Fields \ {"pc", "vm", "runner", "dispatched", "attempted", "denied",
                            "observed", "created", "written", "snapshot"} : q[f] = r[f],
         EffectsKept(i, q), q.snapshot \in Datum \cup {Nothing},
         Writer(i) => q.snapshot \in Datum
  PROVE  RecordInv(i, q)
<1>1. /\ q.pin = r.pin /\ q.initial = r.initial /\ q.raced = r.raced /\ q.torn = r.torn
      /\ q.ephemeral = r.ephemeral /\ q.failed = r.failed /\ q.ambiguous = r.ambiguous
      /\ q.admission = r.admission /\ q.limit = r.limit
      /\ \A f \in {"publication", "failed", "ambiguous", "output", "staged", "replaced"} :
           q[f] = r[f]
  BY FieldsKnown
<1>2. Shape(q)
  BY <1>1 DEF RecordInv, Shape
<1>3. Execution(i, q)
  BY <1>1 DEF RecordInv, Execution, InProgress, Succeeded, Settlement
<1>4. QED BY <1>1, <1>2, <1>3, StillUnsettled DEF Unsettled

\* The exec is answered.
LEMMA AnsweredRecord ==
  ASSUME NEW i \in Invocations, NEW r, RecordInv(i, r), r.pc = "running",
         NEW exit \in {"zero", "nonzero"}, NEW late \in {"none", "timeout", "output_overflow"},
         NEW outcome,
         outcome = "policy_denied" \/
         (r.denied = {} /\ outcome = (IF exit = "zero" THEN "success" ELSE "command_failed"))
  PROVE  RecordInv(i, [Over(r, outcome) EXCEPT !.exit = exit, !.limit = late])
<1> DEFINE v == Over(r, outcome)
           q == [v EXCEPT !.exit = exit, !.limit = late]
<1>1. /\ v = [f \in Fields |-> v[f]] /\ v.pc = "closing" /\ v.outcome = outcome
      /\ v.snapshot = IF outcome = "success" THEN r.snapshot ELSE Nothing
      /\ \A f \in Fields \ {"pc", "outcome", "created", "written", "snapshot"} : v[f] = r[f]
  BY FieldsKnown DEF Over, RecordInv, Shape
<1> HIDE DEF v
<1>2. /\ q = [f \in Fields |-> q[f]] /\ q.exit = exit /\ q.limit = late
      /\ \A f \in Fields \ {"exit", "limit"} : q[f] = v[f]
  BY <1>1, FieldsKnown
<1> HIDE DEF q
<1>3. /\ q.pc = "closing" /\ q.outcome = outcome
      /\ q.snapshot = IF outcome = "success" THEN r.snapshot ELSE Nothing
      /\ q.pin = r.pin /\ q.initial = r.initial /\ q.raced = r.raced /\ q.torn = r.torn
      /\ q.ephemeral = r.ephemeral /\ q.failed = r.failed /\ q.ambiguous = r.ambiguous
      /\ q.admission = r.admission
      /\ q.denied = r.denied /\ q.attempted = r.attempted /\ q.observed = r.observed
      /\ \A f \in {"publication", "failed", "ambiguous", "output", "staged", "replaced"} :
           q[f] = r[f]
  BY <1>1, <1>2, FieldsKnown
<1>4. Shape(q)
  BY <1>2, <1>3 DEF RecordInv, Shape
<1>5. EffectsKept(i, q)
  <2>1. q.snapshot = r.snapshot \/ q.snapshot.by # i
    BY <1>3, NobodysData
  <2>2. QED BY <1>3, <2>1 DEF RecordInv, EffectsKept
<1>6. Execution(i, q)
  BY <1>2, <1>3 DEF RecordInv, Execution, InProgress, Succeeded, Settlement
<1>7. QED BY <1>3, <1>4, <1>5, <1>6, StillUnsettled DEF q, v, Unsettled

\* A result without a publication is sealed.
LEMMA SealUnpublished ==
  ASSUME NEW i \in Invocations, NEW r, Shape(r), EffectsKept(i, r), ResultVerifies(r),
         r.publication = NoPublication, r.staged = 0, r.output \in {"initial", "null"},
         r.replaced = Unpublished, r.outcome # "teardown_failure",
         Writer(i) /\ r.outcome = "success" /\ r.torn => ~Mutated(r)
  PROVE  RecordInv(i, Sealed(r))
<1> DEFINE q == Sealed(r)
           all == r.torn /\ r.publication.cleanup = "verified"
<1>1. /\ q = [f \in Fields |-> q[f]]
      /\ q.pc = "sealed" /\ q.ephemeral = all
      /\ q.outcome = IF all THEN r.outcome ELSE "teardown_failure"
      /\ \A f \in Fields \ {"pc", "ephemeral", "outcome"} : q[f] = r[f]
  BY FieldsKnown DEF Sealed, Shape
<1>2. all = r.torn
  BY DEF NoPublication, Shape
<1> HIDE DEF q, all
<1>3. /\ q.pin = r.pin /\ q.initial = r.initial /\ q.raced = r.raced /\ q.torn = r.torn
      /\ q.failed = r.failed /\ q.ambiguous = r.ambiguous /\ q.snapshot = r.snapshot
      /\ q.admission = r.admission /\ q.limit = r.limit /\ q.exit = r.exit
      /\ q.denied = r.denied /\ q.attempted = r.attempted /\ q.observed = r.observed
      /\ q.publication = NoPublication /\ q.staged = 0 /\ q.output = r.output
      /\ q.replaced = Unpublished
  BY <1>1, FieldsKnown
<1>4. Shape(q)
  BY <1>1, <1>2, <1>3 DEF Shape
<1>5. EffectsKept(i, q)
  BY <1>3 DEF EffectsKept
<1>6. Execution(i, q) /\ Settled(q) /\ Replaced(i, q)
  BY <1>1, <1>3 DEF Execution, Settled, Replaced, InProgress, Succeeded, Settlement, Unsettled
<1>7. Evidence(i, q)
  <2>1. PublicationVerifies(i, q)
    BY <1>1, <1>2, <1>3 DEF PublicationVerifies, NoPublication, Mutated
  <2>2. EffectsVerify(q) /\ ResultVerifies(q)
    BY <1>1, <1>3 DEF EffectsVerify, EffectsKept, ResultVerifies
  <2>3. TeardownVerifies(q)
    BY <1>1, <1>2, <1>3 DEF TeardownVerifies, Shape
  <2>4. QED BY <2>1, <2>2, <2>3 DEF Evidence
<1>8. QED BY <1>4, <1>5, <1>6, <1>7 DEF RecordInv, q

\* vm.close() gives a limit that was hit the last word on a writer's outcome.
Closed(i, r, runner, torn) == Overruled(i, [r EXCEPT !.runner = runner, !.torn = torn])

LEMMA ClosedFields ==
  ASSUME NEW i, NEW r, r = [f \in Fields |-> r[f]], NEW runner, NEW torn
  PROVE  LET d == Closed(i, r, runner, torn)
         IN  /\ d = [f \in Fields |-> d[f]] /\ d.runner = runner /\ d.torn = torn
             /\ d.outcome = IF Writer(i) /\ ~r.admission /\ r.limit # "none"
                            THEN r.limit ELSE r.outcome
             /\ \A f \in Fields \ {"runner", "torn", "outcome"} : d[f] = r[f]
<1> DEFINE c == [r EXCEPT !.runner = runner, !.torn = torn]
           w == [c EXCEPT !.outcome = c.limit]
<1>1. /\ c = [f \in Fields |-> c[f]] /\ c.runner = runner /\ c.torn = torn
      /\ \A f \in Fields \ {"runner", "torn"} : c[f] = r[f]
  BY FieldsKnown
<1> HIDE DEF c
<1>2. c.admission = r.admission /\ c.limit = r.limit /\ c.outcome = r.outcome
  BY <1>1, FieldsKnown
<1>3. /\ w = [f \in Fields |-> w[f]] /\ w.outcome = c.limit
      /\ \A f \in Fields \ {"outcome"} : w[f] = c[f]
  BY <1>1, FieldsKnown
<1> HIDE DEF w
<1>4. w.runner = runner /\ w.torn = torn
  BY <1>1, <1>3, FieldsKnown
<1>5. CASE Writer(i) /\ ~c.admission /\ c.limit # "none"
  BY <1>1, <1>2, <1>3, <1>4, <1>5 DEF w, c, Closed, Overruled
<1>6. CASE ~(Writer(i) /\ ~c.admission /\ c.limit # "none")
  BY <1>1, <1>2, <1>6 DEF c, Closed, Overruled
<1>7. QED BY <1>5, <1>6

\* vm.close(): the outcome is final, and a writer that succeeded may publish.
LEMMA ClosedRecord ==
  ASSUME NEW i \in Invocations, NEW r, RecordInv(i, r), r.pc = "closing",
         NEW runner, NEW torn \in BOOLEAN, torn => runner # "alive",
         NEW d, d = [f \in Fields |-> d[f]], d.runner = runner, d.torn = torn,
         d.outcome = (IF Writer(i) /\ ~r.admission /\ r.limit # "none"
                      THEN r.limit ELSE r.outcome),
         \A f \in Fields \ {"runner", "torn", "outcome"} : d[f] = r[f]
  PROVE  /\ Writer(i) /\ Publishes(d) => RecordInv(i, [d EXCEPT !.pc = "reading"])
         /\ ~(Writer(i) /\ Publishes(d)) => RecordInv(i, Sealed(d))
<1>3. /\ d.runner = runner /\ d.torn = torn /\ d.pc = "closing"
      /\ d.pin = r.pin /\ d.initial = r.initial /\ d.raced = r.raced
      /\ d.ephemeral = r.ephemeral /\ d.failed = r.failed /\ d.ambiguous = r.ambiguous
      /\ d.admission = r.admission /\ d.limit = r.limit /\ d.exit = r.exit
      /\ d.denied = r.denied /\ d.attempted = r.attempted /\ d.observed = r.observed
      /\ d.snapshot = r.snapshot
      /\ \A f \in {"publication", "failed", "ambiguous", "output", "staged", "replaced"} :
           d[f] = r[f]
  BY FieldsKnown
<1>4. Shape(d)
  BY <1>3 DEF RecordInv, Shape
<1>5. EffectsKept(i, d)
  BY <1>3 DEF RecordInv, EffectsKept
<1>6. /\ d.outcome = "success" => /\ r.outcome = "success" /\ d.exit = "zero" /\ d.denied = {}
                                  /\ Writer(i) => d.snapshot \in Datum /\ d.limit = "none"
      /\ d.outcome # "teardown_failure" /\ ResultVerifies(d)
  <2>1. /\ r.outcome # "teardown_failure"
        /\ r.admission => r.outcome = "transport_failure"
        /\ r.outcome = "command_failed" => r.exit # "zero"
        /\ r.outcome = "success" =>
             /\ r.exit = "zero" /\ r.denied = {}
             /\ Writer(i) => r.snapshot \in Datum
    BY DEF RecordInv, Execution
  <2>2. r.limit \in {"none", "timeout", "output_overflow"}
    BY DEF RecordInv, Shape
  <2>3. QED BY <1>3, <2>1, <2>2 DEF ResultVerifies
<1>7. ASSUME Writer(i), Publishes(d) PROVE RecordInv(i, [d EXCEPT !.pc = "reading"])
  <2> DEFINE q == [d EXCEPT !.pc = "reading"]
  <2>1. /\ q = [f \in Fields |-> q[f]] /\ q.pc = "reading"
        /\ \A f \in Fields \ {"pc"} : q[f] = d[f]
    BY FieldsKnown
  <2> HIDE DEF q
  <2>2. /\ q.pin = d.pin /\ q.initial = d.initial /\ q.raced = d.raced /\ q.torn = d.torn
        /\ q.ephemeral = d.ephemeral /\ q.failed = d.failed /\ q.ambiguous = d.ambiguous
        /\ q.admission = d.admission /\ q.limit = d.limit /\ q.exit = d.exit
        /\ q.denied = d.denied /\ q.attempted = d.attempted /\ q.observed = d.observed
        /\ q.snapshot = d.snapshot /\ q.outcome = d.outcome /\ q.runner = d.runner
        /\ \A f \in {"publication", "failed", "ambiguous", "output", "staged", "replaced"} :
             q[f] = d[f]
    BY <2>1, FieldsKnown
  <2>3. Shape(q)
    BY <1>4, <2>1, <2>2 DEF Shape
  <2>4. EffectsKept(i, q)
    BY <1>5, <2>2 DEF EffectsKept
  <2>5. Cleared(i, q) /\ q.outcome = "success"
    BY <1>3, <1>6, <1>7, <2>2 DEF Publishes, Cleared, Mutated
  <2>6. Execution(i, q)
    BY <1>3, <2>1, <2>2, <2>5 DEF RecordInv, Execution, InProgress, Succeeded, Settlement
  <2>7. \A f \in {"publication", "failed", "ambiguous", "output", "staged", "replaced"} :
          q[f] = r[f]
    BY <1>3, <2>2
  <2>8. QED BY <2>1, <2>3, <2>4, <2>6, <2>7, StillUnsettled DEF q, Unsettled
<1>8. ASSUME ~(Writer(i) /\ Publishes(d)) PROVE RecordInv(i, Sealed(d))
  <2>1. /\ d.publication = NoPublication /\ d.staged = 0 /\ d.output \in {"initial", "null"}
        /\ d.replaced = Unpublished
    BY <1>3 DEF RecordInv, Settled, Replaced, Unsettled, NoPublication
  <2>2. Writer(i) /\ d.outcome = "success" /\ d.torn => ~Mutated(d)
    BY <1>8 DEF Publishes, Mutated
  <2>3. QED BY <1>4, <1>5, <1>6, <2>1, <2>2, SealUnpublished
<1>9. QED BY <1>7, <1>8

\* The output cannot be read, or its settlement begins.
LEMMA ReadRecord ==
  ASSUME NEW i \in Invocations, NEW r, RecordInv(i, r), r.pc = "reading"
  PROVE  /\ RecordInv(i, Sealed(CommitFailed(r)))
         /\ RecordInv(i, [r EXCEPT !.pc = "prepare", !.publication.phase = "preparing"])
<1>1. /\ r.publication = NoPublication /\ r.staged = 0 /\ r.replaced = Unpublished
      /\ Cleared(i, r) /\ r.outcome = "success"
  BY DEF RecordInv, Settled, Replaced, Execution, Succeeded, Unsettled, NoPublication
<1>2. RecordInv(i, Sealed(CommitFailed(r)))
  <2> DEFINE d == CommitFailed(r)
  <2>1. /\ d = [f \in Fields |-> d[f]] /\ d.outcome = "commit_failure" /\ d.output = "null"
        /\ \A f \in Fields \ {"outcome", "output", "next"} : d[f] = r[f]
    BY FieldsKnown DEF CommitFailed, RecordInv, Shape
  <2> HIDE DEF d
  <2>2. /\ d.pin = r.pin /\ d.initial = r.initial /\ d.raced = r.raced /\ d.torn = r.torn
        /\ d.ephemeral = r.ephemeral /\ d.failed = r.failed /\ d.ambiguous = r.ambiguous
        /\ d.admission = r.admission /\ d.limit = r.limit /\ d.exit = r.exit
        /\ d.denied = r.denied /\ d.attempted = r.attempted /\ d.observed = r.observed
        /\ d.snapshot = r.snapshot /\ d.publication = NoPublication /\ d.staged = 0
        /\ d.replaced = Unpublished
    BY <1>1, <2>1, FieldsKnown
  <2>3. Shape(d)
    BY <2>1, <2>2 DEF RecordInv, Shape
  <2>4. EffectsKept(i, d) /\ ResultVerifies(d)
    BY <2>1, <2>2 DEF RecordInv, EffectsKept, ResultVerifies
  <2>5. QED BY <2>1, <2>2, <2>3, <2>4, SealUnpublished DEF d
<1>3. RecordInv(i, [r EXCEPT !.pc = "prepare", !.publication.phase = "preparing"])
  <2> DEFINE q == [r EXCEPT !.pc = "prepare", !.publication.phase = "preparing"]
  <2>1. /\ q = [f \in Fields |-> q[f]] /\ q.pc = "prepare"
        /\ q.publication = [NoPublication EXCEPT !.phase = "preparing"]
        /\ \A f \in Fields \ {"pc", "publication"} : q[f] = r[f]
    BY <1>1, FieldsKnown DEF RecordInv, Shape
  <2> HIDE DEF q
  <2>2. /\ q.pin = r.pin /\ q.initial = r.initial /\ q.raced = r.raced /\ q.torn = r.torn
        /\ q.ephemeral = r.ephemeral /\ q.failed = r.failed /\ q.ambiguous = r.ambiguous
        /\ q.admission = r.admission /\ q.limit = r.limit /\ q.exit = r.exit
        /\ q.denied = r.denied /\ q.attempted = r.attempted /\ q.observed = r.observed
        /\ q.snapshot = r.snapshot /\ q.outcome = r.outcome /\ q.runner = r.runner
        /\ q.output = r.output /\ q.staged = 0 /\ q.replaced = Unpublished
    BY <1>1, <2>1, FieldsKnown
  <2>3. Shape(q)
    BY <2>1, <2>2 DEF RecordInv, Shape
  <2>4. EffectsKept(i, q)
    BY <2>2 DEF RecordInv, EffectsKept
  <2>5. Cleared(i, q) /\ q.outcome = "success"
    BY <1>1, <2>2 DEF Cleared, Mutated
  <2>6. Execution(i, q)
    BY <2>1, <2>2, <2>5 DEF RecordInv, Execution, InProgress, Succeeded, Settlement
  <2>7. Settled(q)
    BY <2>1, <2>2 DEF RecordInv, Settled, Unsettled, NoPublication
  <2>8. Replaced(i, q) /\ Evidence(i, q)
    BY <2>1, <2>2 DEF Replaced, Evidence
  <2>9. QED BY <2>3, <2>4, <2>6, <2>7, <2>8 DEF RecordInv, q
<1>4. QED BY <1>2, <1>3

Note(state, phase, check) ==
  [state |-> state, phase |-> phase, check |-> check, cleanup |-> "verified"]

\* A step of the settlement.
LEMMA SettlementRecord ==
  ASSUME NEW i \in Invocations, NEW r, NEW q, RecordInv(i, r), r.pc \in Succeeded,
         q.pc \in Settlement, q = [f \in Fields |-> q[f]],
         \A f \in Fields \ {"pc", "publication", "staged", "failed", "ambiguous", "output",
                            "next", "replaced"} : q[f] = r[f],
         q.failed \in BOOLEAN, q.ambiguous \in BOOLEAN, Settled(q),
         q.pc \in {"compare", "reread", "publish", "verify"} => Authorized(q),
         q.pc \in {"prepare", "compare", "reread", "publish"} => q.replaced = Unpublished,
         q.replaced # Unpublished => Authorized(q) /\ (q.replaced = q.initial \/ q.raced)
  PROVE  RecordInv(i, q)
<1>1. /\ q.pin = r.pin /\ q.initial = r.initial /\ q.raced = r.raced /\ q.torn = r.torn
      /\ q.ephemeral = r.ephemeral /\ q.admission = r.admission /\ q.limit = r.limit
      /\ q.exit = r.exit /\ q.denied = r.denied /\ q.attempted = r.attempted
      /\ q.observed = r.observed /\ q.snapshot = r.snapshot /\ q.outcome = r.outcome
      /\ q.runner = r.runner
  BY FieldsKnown
<1>2. Shape(q)
  BY <1>1 DEF RecordInv, Shape
<1>3. EffectsKept(i, q)
  BY <1>1 DEF RecordInv, EffectsKept
<1>4. Cleared(i, r) /\ r.outcome = "success" /\ (r.pin.ino = 0 <=> r.initial = Nothing)
  BY DEF RecordInv, Execution, InProgress
<1>5. Cleared(i, q) /\ q.outcome = "success" /\ (q.pin.ino = 0 <=> q.initial = Nothing)
  BY <1>1, <1>4 DEF Cleared, Mutated
<1>6. Execution(i, q)
  BY <1>5 DEF Execution, Succeeded, Settlement
<1>7. Replaced(i, q)
  BY <1>5 DEF Replaced, Settlement, Unsettled
<1>8. Evidence(i, q)
  BY DEF Evidence, Settlement
<1>9. QED BY <1>2, <1>3, <1>6, <1>7, <1>8 DEF RecordInv

FailedCheck(state) == IF state = "published" THEN "failed" ELSE "unknown"

\* An update of r that leaves the settlement at its clean-up.
Ended(r, q, ambiguous, state, phase) ==
  /\ q = [f \in Fields |-> q[f]] /\ q.pc = "cleanup" /\ q.failed = TRUE
  /\ q.ambiguous = ambiguous
  /\ q.publication = Note(state, phase, FailedCheck(state))
  /\ \A f \in Fields \ {"pc", "failed", "ambiguous", "publication"} : q[f] = r[f]

\* An exception ends the settlement.
LEMMA FailsFields ==
  ASSUME NEW r, r = [f \in Fields |-> r[f]], NEW ambiguous, NEW state, NEW phase,
         r.publication = Note(state, phase, "unknown")
  PROVE  Ended(r, Fails(r, ambiguous), ambiguous, state, phase)
<1> DEFINE p == r.publication
           check == IF p.state = "published" THEN "failed" ELSE p.check
           n == [p EXCEPT !.check = check]
           q == [r EXCEPT !.pc = "cleanup", !.failed = TRUE, !.ambiguous = ambiguous,
                          !.publication = n]
<1>1. n = Note(state, phase, FailedCheck(state))
  BY DEF Note, FailedCheck
<1>2. q = Fails(r, ambiguous)
  BY FieldsKnown DEF Fails
<1> HIDE DEF n
<1>3. /\ q = [f \in Fields |-> q[f]] /\ q.pc = "cleanup" /\ q.failed = TRUE
      /\ q.ambiguous = ambiguous /\ q.publication = n
      /\ \A f \in Fields \ {"pc", "failed", "ambiguous", "publication"} : q[f] = r[f]
  BY FieldsKnown
<1> HIDE DEF q
<1>4. QED BY <1>1, <1>2, <1>3 DEF Ended

\* After an exception at any stage the settlement is at its clean-up.
LEMMA FailsRecord ==
  ASSUME NEW i \in Invocations, NEW r, RecordInv(i, r), r.pc \in Settlement \ {"cleanup"},
         NEW v, v = [f \in Fields |-> v[f]],
         \A f \in Fields \ {"publication", "replaced"} : v[f] = r[f],
         v.replaced # Unpublished =>
           Authorized(r) /\ (v.replaced = r.initial \/ r.raced),
         \/ v.publication = r.publication
         \/ /\ r.pc = "publish"
            /\ v.publication \in {Note("indeterminate", "publishing", "unknown"),
                                  Note("published", "published", "unknown")},
         NEW ambiguous \in BOOLEAN
  PROVE  RecordInv(i, Fails(v, ambiguous))
<1> DEFINE q == Fails(v, ambiguous)
<1>1. PICK state, phase :
        /\ v.publication = Note(state, phase, "unknown")
        /\ \/ state = "not_published" /\ phase = "preparing"
           \/ state = "not_published" /\ phase = "prepared" /\ r.staged # 0
           \/ state = "indeterminate" /\ phase = "publishing" /\ r.staged # 0
           \/ state = "published" /\ phase = "published" /\ r.staged # 0
  BY DEF RecordInv, Settled, Settlement, Note
<1>2. Ended(v, q, ambiguous, state, phase)
  BY <1>1, FailsFields
<1> HIDE DEF q
<1>3. /\ q = [f \in Fields |-> q[f]] /\ q.pc = "cleanup" /\ q.failed = TRUE
      /\ q.ambiguous = ambiguous
      /\ q.publication = Note(state, phase, FailedCheck(state))
      /\ \A f \in Fields \ {"pc", "failed", "ambiguous", "publication"} : q[f] = v[f]
  BY <1>2 DEF Ended
<1>4. \A f \in Fields \ {"pc", "publication", "staged", "failed", "ambiguous", "output",
                         "next", "replaced"} : q[f] = r[f]
  BY <1>3
<1>5. /\ q.pin = r.pin /\ q.initial = r.initial /\ q.raced = r.raced
      /\ q.observed = r.observed /\ q.snapshot = r.snapshot /\ q.staged = r.staged
      /\ q.replaced = v.replaced
  BY <1>3, FieldsKnown
<1>6. Settled(q)
  BY <1>1, <1>3, <1>5 DEF Settled, Unsettled, Note, FailedCheck
<1>7. q.replaced # Unpublished => Authorized(q) /\ (q.replaced = q.initial \/ q.raced)
  BY <1>5 DEF Authorized
<1>8. QED BY <1>3, <1>4, <1>6, <1>7, SettlementRecord DEF q, Succeeded, Settlement

\* The bytes are staged.
LEMMA PreparedRecord ==
  ASSUME NEW i \in Invocations, NEW r, RecordInv(i, r), r.pc = "prepare", Authorized(r),
         NEW ino, ino # 0
  PROVE  RecordInv(i, [r EXCEPT !.pc = "compare", !.staged = ino,
                                !.publication.phase = "prepared"])
<1> DEFINE n == [r.publication EXCEPT !.phase = "prepared"]
           q == [r EXCEPT !.pc = "compare", !.staged = ino, !.publication = n]
<1>1. /\ r = [f \in Fields |-> r[f]] /\ r.replaced = Unpublished
      /\ r.publication = Note("not_published", "preparing", "unknown")
      /\ r.failed = FALSE /\ r.ambiguous = FALSE /\ r.output = "initial"
  BY DEF RecordInv, Shape, Settled, Replaced, Note
<1>2. n = Note("not_published", "prepared", "unknown")
  BY <1>1 DEF Note
<1>3. q = [r EXCEPT !.pc = "compare", !.staged = ino, !.publication.phase = "prepared"]
  BY <1>1, FieldsKnown
<1> HIDE DEF n
<1>4. /\ q = [f \in Fields |-> q[f]] /\ q.pc = "compare" /\ q.staged = ino
      /\ q.publication = n
      /\ \A f \in Fields \ {"pc", "staged", "publication"} : q[f] = r[f]
  BY <1>1, FieldsKnown
<1> HIDE DEF q
<1>5. /\ q.failed = r.failed /\ q.ambiguous = r.ambiguous /\ q.output = r.output
      /\ q.replaced = Unpublished
  BY <1>1, <1>4, FieldsKnown
<1>6. Settled(q)
  BY <1>1, <1>2, <1>4, <1>5 DEF Settled, Unsettled, Note
<1>7. Authorized(q)
  <2>1. /\ q.pin = r.pin /\ q.observed = r.observed /\ q.snapshot = r.snapshot
        /\ q.initial = r.initial
    BY <1>4, FieldsKnown
  <2>2. QED BY <2>1 DEF Authorized
<1>8. RecordInv(i, q)
  BY <1>1, <1>4, <1>5, <1>6, <1>7, SettlementRecord DEF Succeeded, Settlement
<1>9. QED BY <1>3, <1>8

\* The target is the pinned file, or holds what the program was given.
LEMMA ComparedRecord ==
  ASSUME NEW i \in Invocations, NEW r, RecordInv(i, r), r.pc \in {"compare", "reread"},
         NEW at \in {"reread", "publish"}
  PROVE  RecordInv(i, [r EXCEPT !.pc = at])
<1> DEFINE q == [r EXCEPT !.pc = at]
<1>1. /\ r = [f \in Fields |-> r[f]] /\ r.replaced = Unpublished /\ Authorized(r)
      /\ r.publication = Note("not_published", "prepared", "unknown") /\ r.staged # 0
      /\ r.failed = FALSE /\ r.ambiguous = FALSE /\ r.output = "initial"
  BY DEF RecordInv, Shape, Settled, Replaced, Note
<1>2. /\ q = [f \in Fields |-> q[f]] /\ q.pc = at
      /\ \A f \in Fields \ {"pc"} : q[f] = r[f]
  BY <1>1, FieldsKnown
<1> HIDE DEF q
<1>3. /\ q.failed = r.failed /\ q.ambiguous = r.ambiguous /\ q.output = r.output
      /\ q.replaced = Unpublished /\ q.publication = r.publication /\ q.staged = r.staged
      /\ q.pin = r.pin /\ q.observed = r.observed /\ q.snapshot = r.snapshot
      /\ q.initial = r.initial
  BY <1>1, <1>2, FieldsKnown
<1>4. Settled(q)
  BY <1>1, <1>2, <1>3 DEF Settled, Unsettled, Note
<1>5. Authorized(q)
  BY <1>1, <1>3 DEF Authorized
<1>6. QED
  BY <1>1, <1>2, <1>3, <1>4, <1>5, SettlementRecord DEF q, Succeeded, Settlement

\* The records that Publish passes through.
Publishing(r) == [r EXCEPT !.publication.state = "indeterminate",
                           !.publication.phase = "publishing"]
Shown(r, data) == [Publishing(r) EXCEPT !.replaced = data]
Announced(r, data) == [Shown(r, data) EXCEPT !.publication.state = "published",
                                             !.publication.phase = "published"]

Renote(n, state, phase) == [n EXCEPT !.state = state, !.phase = phase]

LEMMA Renoted ==
  ASSUME NEW state, NEW phase, NEW check, NEW other, NEW later
  PROVE  Renote(Note(state, phase, check), other, later) = Note(other, later, check)
<1> DEFINE n == Note(state, phase, check)
           v == [n EXCEPT !.state = other]
           w == [v EXCEPT !.phase = later]
<1>1. v = Note(other, phase, check)
  BY DEF Note
<1>2. w = Renote(n, other, later)
  BY DEF Renote, Note
<1> HIDE DEF v
<1>3. w = Note(other, later, check)
  BY <1>1 DEF Note
<1>4. QED BY <1>2, <1>3

LEMMA PublishFields ==
  ASSUME NEW r, r = [f \in Fields |-> r[f]], NEW data,
         r.publication = Note("not_published", "prepared", "unknown")
  PROVE  /\ \A q \in {Publishing(r), Shown(r, data), Announced(r, data)} :
              /\ q = [f \in Fields |-> q[f]]
              /\ \A f \in Fields \ {"publication", "replaced"} : q[f] = r[f]
         /\ Publishing(r).publication = Note("indeterminate", "publishing", "unknown")
         /\ Shown(r, data).publication = Note("indeterminate", "publishing", "unknown")
         /\ Announced(r, data).publication = Note("published", "published", "unknown")
         /\ Publishing(r).replaced = r.replaced
         /\ Shown(r, data).replaced = data /\ Announced(r, data).replaced = data
<1> DEFINE p == r.publication
           n == [p EXCEPT !.state = "indeterminate", !.phase = "publishing"]
           a == Publishing(r)
           b == Shown(r, data)
           p1 == b.publication
           m == [p1 EXCEPT !.state = "published", !.phase = "published"]
           c == Announced(r, data)
<1>1. n = Note("indeterminate", "publishing", "unknown")
  <2>1. n = Renote(p, "indeterminate", "publishing")
    BY DEF Renote
  <2> HIDE DEF n
  <2>2. QED BY <2>1, Renoted
<1>2. a = [r EXCEPT !.publication = n]
  BY FieldsKnown DEF Publishing
<1> HIDE DEF n
<1>3. /\ a = [f \in Fields |-> a[f]] /\ a.publication = n
      /\ \A f \in Fields \ {"publication"} : a[f] = r[f]
  <2> HIDE DEF a
  <2>1. QED BY <1>2, FieldsKnown
<1>4. b = [a EXCEPT !.replaced = data]
  BY DEF Shown
<1> HIDE DEF a
<1>5. /\ b = [f \in Fields |-> b[f]] /\ b.replaced = data
      /\ \A f \in Fields \ {"replaced"} : b[f] = a[f]
  <2> HIDE DEF b
  <2>1. QED BY <1>3, <1>4, FieldsKnown
<1>6. p1 = n /\ a.replaced = r.replaced
  BY <1>3, <1>5, FieldsKnown
<1>7. m = Note("published", "published", "unknown")
  <2>1. m = Renote(p1, "published", "published")
    BY DEF Renote
  <2>2. p1 = Note("indeterminate", "publishing", "unknown")
    BY <1>1, <1>6
  <2> HIDE DEF m, p1
  <2>3. QED BY <2>1, <2>2, Renoted
<1>8. c = [b EXCEPT !.publication = m]
  BY <1>5, FieldsKnown DEF Announced
<1> HIDE DEF m, b
<1>9. /\ c = [f \in Fields |-> c[f]] /\ c.publication = m
      /\ \A f \in Fields \ {"publication"} : c[f] = b[f]
  <2> HIDE DEF c
  <2>1. QED BY <1>5, <1>8, FieldsKnown
<1> HIDE DEF c
<1>10. /\ c.replaced = data
       /\ \A f \in Fields \ {"publication", "replaced"} :
            a[f] = r[f] /\ b[f] = r[f] /\ c[f] = r[f]
  BY <1>3, <1>5, <1>9, FieldsKnown
<1>11. /\ a.publication = Note("indeterminate", "publishing", "unknown")
       /\ b.publication = Note("indeterminate", "publishing", "unknown")
       /\ c.publication = Note("published", "published", "unknown")
  BY <1>1, <1>3, <1>6, <1>7, <1>9
<1>12. \A q \in {a, b, c} :
         /\ q = [f \in Fields |-> q[f]]
         /\ \A f \in Fields \ {"publication", "replaced"} : q[f] = r[f]
  BY <1>3, <1>5, <1>9, <1>10
<1>13. QED BY <1>5, <1>6, <1>10, <1>11, <1>12 DEF a, b, c

\* The output is shown at the host's path, or an exception hides what happened.
LEMMA PublishedRecord ==
  ASSUME NEW i \in Invocations, NEW r, RecordInv(i, r), r.pc = "publish",
         NEW data, data = r.initial \/ r.raced
  PROVE  /\ RecordInv(i, Fails(Publishing(r), FALSE))
         /\ RecordInv(i, Fails(Shown(r, data), FALSE))
         /\ RecordInv(i, Fails(Announced(r, data), FALSE))
         /\ RecordInv(i, [Announced(r, data) EXCEPT !.pc = "verify"])
<1>1. /\ r = [f \in Fields |-> r[f]] /\ r.replaced = Unpublished /\ Authorized(r)
      /\ r.publication = Note("not_published", "prepared", "unknown") /\ r.staged # 0
      /\ r.failed = FALSE /\ r.ambiguous = FALSE /\ r.output = "initial"
  BY DEF RecordInv, Shape, Settled, Replaced, Note
<1>2. /\ \A q \in {Publishing(r), Shown(r, data), Announced(r, data)} :
              /\ q = [f \in Fields |-> q[f]]
              /\ \A f \in Fields \ {"publication", "replaced"} : q[f] = r[f]
      /\ Publishing(r).publication = Note("indeterminate", "publishing", "unknown")
      /\ Shown(r, data).publication = Note("indeterminate", "publishing", "unknown")
      /\ Announced(r, data).publication = Note("published", "published", "unknown")
      /\ Publishing(r).replaced = r.replaced
      /\ Shown(r, data).replaced = data /\ Announced(r, data).replaced = data
  BY <1>1, PublishFields
<1>3. ASSUME NEW q \in {Publishing(r), Shown(r, data), Announced(r, data)}
      PROVE  RecordInv(i, Fails(q, FALSE))
  <2>1. /\ q = [f \in Fields |-> q[f]]
        /\ \A f \in Fields \ {"publication", "replaced"} : q[f] = r[f]
        /\ q.publication \in {Note("indeterminate", "publishing", "unknown"),
                              Note("published", "published", "unknown")}
        /\ q.replaced # Unpublished =>
             Authorized(r) /\ (q.replaced = r.initial \/ r.raced)
    BY <1>1, <1>2, <1>3
  <2>2. r.pc \in Settlement \ {"cleanup"}
    BY DEF Settlement
  <2>3. QED BY <2>1, <2>2, FailsRecord
<1>4. RecordInv(i, [Announced(r, data) EXCEPT !.pc = "verify"])
  <2> DEFINE c == Announced(r, data)
             q == [c EXCEPT !.pc = "verify"]
  <2>1. /\ c = [f \in Fields |-> c[f]] /\ c.replaced = data
        /\ \A f \in Fields \ {"publication", "replaced"} : c[f] = r[f]
        /\ c.publication = Note("published", "published", "unknown")
    BY <1>2
  <2> HIDE DEF c
  <2>2. /\ q = [f \in Fields |-> q[f]] /\ q.pc = "verify"
        /\ \A f \in Fields \ {"pc"} : q[f] = c[f]
    BY <2>1, FieldsKnown
  <2> HIDE DEF q
  <2>3. /\ q.failed = FALSE /\ q.ambiguous = FALSE /\ q.output = "initial"
        /\ q.replaced = data /\ q.publication = Note("published", "published", "unknown")
        /\ q.staged = r.staged /\ q.pin = r.pin /\ q.observed = r.observed
        /\ q.snapshot = r.snapshot /\ q.initial = r.initial /\ q.raced = r.raced
        /\ \A f \in Fields \ {"pc", "publication", "replaced"} : q[f] = r[f]
    BY <1>1, <2>1, <2>2, FieldsKnown
  <2>4. Settled(q)
    BY <1>1, <2>2, <2>3 DEF Settled, Unsettled, Note
  <2>5. Authorized(q)
    BY <1>1, <2>3 DEF Authorized
  <2>6. RecordInv(i, q)
    BY <1>1, <2>2, <2>3, <2>4, <2>5, SettlementRecord DEF Succeeded, Settlement
  <2>7. QED BY <2>6 DEF q, c
<1>5. QED BY <1>3, <1>4

\* The target holds what was published.
LEMMA VerifiedRecord ==
  ASSUME NEW i \in Invocations, NEW r, RecordInv(i, r), r.pc = "verify", NEW pin
  PROVE  RecordInv(i, [r EXCEPT !.pc = "cleanup", !.publication.check = "verified",
                                !.publication.phase = "verified", !.output = "prepared",
                                !.next = pin])
<1> DEFINE p == r.publication
           p1 == [p EXCEPT !.check = "verified"]
           n == [p1 EXCEPT !.phase = "verified"]
           q == [r EXCEPT !.pc = "cleanup", !.publication = n, !.output = "prepared",
                          !.next = pin]
<1>1. /\ r = [f \in Fields |-> r[f]] /\ Authorized(r)
      /\ r.publication = Note("published", "published", "unknown") /\ r.staged # 0
      /\ r.failed = FALSE /\ r.ambiguous = FALSE
      /\ r.replaced # Unpublished => r.replaced = r.initial \/ r.raced
  BY DEF RecordInv, Shape, Settled, Replaced, Note
<1>2. n = Note("published", "verified", "verified")
  <2>1. p1 = Note("published", "published", "verified")
    BY <1>1 DEF Note
  <2> HIDE DEF p1
  <2>2. QED BY <2>1 DEF Note
<1>3. q = [r EXCEPT !.pc = "cleanup", !.publication.check = "verified",
                    !.publication.phase = "verified", !.output = "prepared",
                    !.next = pin]
  BY <1>1, FieldsKnown
<1> HIDE DEF n
<1>4. /\ q = [f \in Fields |-> q[f]] /\ q.pc = "cleanup" /\ q.output = "prepared"
      /\ q.publication = n
      /\ \A f \in Fields \ {"pc", "publication", "output", "next"} : q[f] = r[f]
  BY <1>1, FieldsKnown
<1> HIDE DEF q
<1>5. /\ q.failed = FALSE /\ q.ambiguous = FALSE /\ q.staged = r.staged
      /\ q.replaced = r.replaced /\ q.pin = r.pin /\ q.observed = r.observed
      /\ q.snapshot = r.snapshot /\ q.initial = r.initial /\ q.raced = r.raced
  BY <1>1, <1>4, FieldsKnown
<1>6. Settled(q)
  BY <1>1, <1>2, <1>4, <1>5 DEF Settled, Unsettled, Note
<1>7. Authorized(q)
  BY <1>1, <1>5 DEF Authorized
<1>8. RecordInv(i, q)
  BY <1>1, <1>4, <1>5, <1>6, <1>7, SettlementRecord DEF Succeeded, Settlement
<1>9. QED BY <1>3, <1>8

\* The settlement is cleaned up and its result sealed.
Cleaned(r, cleanup) == [r EXCEPT !.publication.cleanup = cleanup]

LEMMA CleanedFields ==
  ASSUME NEW r, r = [f \in Fields |-> r[f]], NEW cleanup, NEW state, NEW phase, NEW check,
         r.publication = Note(state, phase, check)
  PROVE  LET c == Cleaned(r, cleanup)
         IN  /\ c = [f \in Fields |-> c[f]]
             /\ c.publication.state = state /\ c.publication.phase = phase
             /\ c.publication.check = check /\ c.publication.cleanup = cleanup
             /\ \A f \in Fields \ {"publication"} : c[f] = r[f]
<1> DEFINE p == r.publication
           n == [p EXCEPT !.cleanup = cleanup]
           c == Cleaned(r, cleanup)
<1>1. n.state = state /\ n.phase = phase /\ n.check = check /\ n.cleanup = cleanup
  BY DEF Note
<1>2. c = [r EXCEPT !.publication = n]
  BY FieldsKnown DEF Cleaned
<1> HIDE DEF c, n
<1>3. /\ c = [f \in Fields |-> c[f]] /\ c.publication = n
      /\ \A f \in Fields \ {"publication"} : c[f] = r[f]
  BY <1>2, FieldsKnown
<1>4. QED BY <1>1, <1>3 DEF c

LEMMA SealedFields ==
  ASSUME NEW r, r = [f \in Fields |-> r[f]], NEW failed \in BOOLEAN, r.torn = TRUE
  PROVE  LET d == IF failed THEN CommitFailed(r) ELSE r
             q == Sealed(d)
             all == r.publication.cleanup = "verified"
         IN  /\ q = [f \in Fields |-> q[f]] /\ q.pc = "sealed" /\ q.ephemeral = all
             /\ q.outcome = IF ~all THEN "teardown_failure"
                            ELSE IF failed THEN "commit_failure" ELSE r.outcome
             /\ q.output = IF failed THEN "null" ELSE r.output
             /\ q.next = IF failed THEN NoPin ELSE r.next
             /\ \A f \in Fields \ {"pc", "ephemeral", "outcome", "output", "next"} : q[f] = r[f]
<1> DEFINE d == IF failed THEN CommitFailed(r) ELSE r
           q == Sealed(d)
           all == r.publication.cleanup = "verified"
<1>1. /\ d = [f \in Fields |-> d[f]]
      /\ d.outcome = IF failed THEN "commit_failure" ELSE r.outcome
      /\ d.output = IF failed THEN "null" ELSE r.output
      /\ d.next = IF failed THEN NoPin ELSE r.next
      /\ \A f \in Fields \ {"outcome", "output", "next"} : d[f] = r[f]
  BY FieldsKnown DEF CommitFailed
<1> HIDE DEF d
<1>2. d.torn = TRUE /\ d.publication = r.publication
  BY <1>1, FieldsKnown
<1>3. /\ q = [f \in Fields |-> q[f]] /\ q.pc = "sealed" /\ q.ephemeral = all
      /\ q.outcome = IF all THEN d.outcome ELSE "teardown_failure"
      /\ \A f \in Fields \ {"pc", "ephemeral", "outcome"} : q[f] = d[f]
  BY <1>1, <1>2, FieldsKnown DEF Sealed
<1> HIDE DEF q
<1>4. q.output = d.output /\ q.next = d.next
  BY <1>3, FieldsKnown
<1>5. \A f \in Fields \ {"pc", "ephemeral", "outcome", "output", "next"} : q[f] = r[f]
  BY <1>1, <1>3
<1>6. QED BY <1>1, <1>3, <1>4, <1>5 DEF q, d

LEMMA CleanedRecord ==
  ASSUME NEW i \in Invocations, NEW r, RecordInv(i, r), r.pc = "cleanup",
         NEW fails \in BOOLEAN
  PROVE  LET c == Cleaned(r, IF fails THEN "failed"
                             ELSE IF r.ambiguous THEN "unknown" ELSE "verified")
             q == Sealed(IF fails \/ r.failed THEN CommitFailed(c) ELSE c)
         IN  /\ RecordInv(i, q) /\ q.pc = "sealed" /\ q.torn = TRUE /\ q.snapshot = r.snapshot
             /\ q.publication.state = "indeterminate" \/ q.publication.check = "failed"
                \/ q.publication.cleanup # "verified" => ~RestoresPin(q)
<1> DEFINE cleanup == IF fails THEN "failed"
                      ELSE IF r.ambiguous THEN "unknown" ELSE "verified"
           c == Cleaned(r, cleanup)
           failed == fails \/ r.failed
           q == Sealed(IF failed THEN CommitFailed(c) ELSE c)
           all == cleanup = "verified"
<1>1. /\ Shape(r) /\ EffectsKept(i, r) /\ Cleared(i, r) /\ r.outcome = "success"
      /\ r.pin.ino = 0 <=> r.initial = Nothing
  BY DEF RecordInv, Execution, Succeeded, Settlement, InProgress
<1>2. PICK state, phase, check :
        /\ r.publication = Note(state, phase, check)
        /\ \/ /\ state = "published" /\ phase = "verified" /\ check = "verified"
              /\ ~r.failed /\ ~r.ambiguous /\ r.output = "prepared" /\ r.staged # 0
           \/ /\ r.failed
              /\ \/ state = "not_published" /\ phase = "preparing" /\ check = "unknown"
                 \/ /\ state = "not_published" /\ phase = "prepared" /\ check = "unknown"
                    /\ r.staged # 0
                 \/ /\ state = "indeterminate" /\ phase = "publishing" /\ check = "unknown"
                    /\ r.staged # 0
                 \/ /\ state = "published" /\ phase = "published" /\ check = "failed"
                    /\ r.staged # 0
  BY DEF RecordInv, Settled, Unsettled, Note
<1>3. /\ failed \in BOOLEAN /\ cleanup \in {"failed", "unknown", "verified"}
      /\ fails => cleanup = "failed"
  BY <1>1 DEF Shape
<1>4. /\ c = [f \in Fields |-> c[f]]
      /\ c.publication.state = state /\ c.publication.phase = phase
      /\ c.publication.check = check /\ c.publication.cleanup = cleanup
      /\ \A f \in Fields \ {"publication"} : c[f] = r[f]
  <2> HIDE DEF cleanup, c
  <2>1. r = [f \in Fields |-> r[f]]
    BY <1>1 DEF Shape
  <2>2. QED BY <1>2, <2>1, CleanedFields DEF c
<1>5. c.torn = TRUE /\ c.outcome = "success" /\ c.output = r.output
  <2> HIDE DEF c
  <2>1. c.torn = r.torn /\ c.outcome = r.outcome /\ c.output = r.output
    BY <1>4, FieldsKnown
  <2>2. QED BY <1>1, <2>1 DEF Shape, Cleared
<1>6. /\ q = [f \in Fields |-> q[f]] /\ q.pc = "sealed" /\ q.ephemeral = all
      /\ q.outcome = IF ~all THEN "teardown_failure"
                     ELSE IF failed THEN "commit_failure" ELSE c.outcome
      /\ q.output = IF failed THEN "null" ELSE c.output
      /\ q.next = IF failed THEN NoPin ELSE c.next
      /\ \A f \in Fields \ {"pc", "ephemeral", "outcome", "output", "next"} : q[f] = c[f]
  <2> HIDE DEF c, failed
  <2>1. /\ q = [f \in Fields |-> q[f]] /\ q.pc = "sealed"
        /\ q.ephemeral = (c.publication.cleanup = "verified")
        /\ q.outcome = IF ~(c.publication.cleanup = "verified") THEN "teardown_failure"
                       ELSE IF failed THEN "commit_failure" ELSE c.outcome
        /\ q.output = IF failed THEN "null" ELSE c.output
        /\ q.next = IF failed THEN NoPin ELSE c.next
        /\ \A f \in Fields \ {"pc", "ephemeral", "outcome", "output", "next"} : q[f] = c[f]
    BY <1>3, <1>4, <1>5, SealedFields
  <2> HIDE DEF q, cleanup
  <2>2. QED BY <1>4, <2>1
<1> HIDE DEF c, q
<1>7. /\ q.pin = r.pin /\ q.initial = r.initial /\ q.raced = r.raced /\ q.torn = TRUE
      /\ q.failed = r.failed /\ q.ambiguous = r.ambiguous /\ q.snapshot = r.snapshot
      /\ q.admission = r.admission /\ q.limit = r.limit /\ q.exit = r.exit
      /\ q.denied = r.denied /\ q.attempted = r.attempted /\ q.observed = r.observed
      /\ q.staged = r.staged /\ q.replaced = r.replaced /\ q.runner = r.runner
      /\ q.publication = c.publication
  BY <1>4, <1>5, <1>6, FieldsKnown
<1>8. Shape(q)
  BY <1>1, <1>6, <1>7 DEF Shape
<1>9. EffectsKept(i, q)
  BY <1>1, <1>7 DEF EffectsKept
<1>10. Execution(i, q) /\ Settled(q)
  BY <1>6 DEF Execution, Settled, InProgress, Succeeded, Settlement, Unsettled
<1>11. Replaced(i, q)
  <2>1. r.replaced # Unpublished => Authorized(r) /\ (r.replaced = r.initial \/ r.raced)
    BY DEF RecordInv, Replaced
  <2>2. Authorized(r) => Authorized(q)
    BY <1>7 DEF Authorized
  <2>3. Cleared(i, q)
    BY <1>1, <1>7 DEF Cleared, Mutated
  <2>4. QED BY <1>1, <1>6, <1>7, <2>1, <2>2, <2>3 DEF Replaced, Unsettled
<1>12. Evidence(i, q)
  <2>1. PublicationVerifies(i, q)
    <3>1. /\ q.publication.state = state /\ q.publication.phase = phase
          /\ q.publication.check = check /\ q.publication.cleanup = cleanup
          /\ q.staged = r.staged /\ q.observed \cap Mutations # {}
          /\ q.ephemeral = (cleanup = "verified")
          /\ q.output = IF failed THEN "null" ELSE r.output
          /\ q.outcome = IF cleanup # "verified" THEN "teardown_failure"
                         ELSE IF failed THEN "commit_failure" ELSE "success"
      BY <1>1, <1>4, <1>5, <1>6, <1>7 DEF Cleared, Mutated
    <3> HIDE DEF cleanup
    <3>2. CASE r.failed
      BY <1>2, <1>3, <3>1, <3>2 DEF PublicationVerifies
    <3>3. CASE ~r.failed
      <4>1. /\ state = "published" /\ phase = "verified" /\ check = "verified"
            /\ r.output = "prepared" /\ r.staged # 0 /\ failed = fails
        BY <1>2, <3>3
      <4>2. QED BY <1>3, <3>1, <4>1 DEF PublicationVerifies
    <3>4. QED BY <3>2, <3>3
  <2>2. EffectsVerify(q)
    BY <1>1, <1>7 DEF EffectsVerify, EffectsKept
  <2>3. ResultVerifies(q) /\ TeardownVerifies(q)
    BY <1>1, <1>5, <1>6, <1>7 DEF ResultVerifies, TeardownVerifies, Cleared
  <2>4. QED BY <2>1, <2>2, <2>3 DEF Evidence
<1>13. RecordInv(i, q)
  BY <1>8, <1>9, <1>10, <1>11, <1>12 DEF RecordInv
<1>14. q.publication.state = "indeterminate" \/ q.publication.check = "failed"
       \/ q.publication.cleanup # "verified" => ~RestoresPin(q)
  BY <1>2, <1>4, <1>6, <1>7 DEF RestoresPin
<1>15. QED BY <1>6, <1>7, <1>13, <1>14 DEF q, c

\* The caller has the result; another program writes between the last look and
\* the publication; a call is refused.
LEMMA DeliveredRecord ==
  ASSUME NEW i \in Invocations, NEW r, RecordInv(i, r)
  PROVE  LET q == [Unused EXCEPT !.pc = "returned", !.torn = r.torn,
                                 !.publication = r.publication]
         IN  /\ RecordInv(i, q) /\ q.pc = "returned" /\ q.torn = r.torn
             /\ q.publication = r.publication /\ q.snapshot = Nothing
<1> DEFINE q == [Unused EXCEPT !.pc = "returned", !.torn = r.torn,
                               !.publication = r.publication]
<1>1. /\ q = [f \in Fields |-> q[f]] /\ q.pc = "returned" /\ q.torn = r.torn
      /\ q.publication = r.publication
      /\ q.initial = Nothing /\ q.snapshot = Nothing /\ q.raced = FALSE
      /\ q.ephemeral = FALSE /\ q.admission = FALSE /\ q.failed = FALSE
      /\ q.ambiguous = FALSE /\ q.limit = "none" /\ q.denied = {} /\ q.attempted = {}
      /\ q.observed = {} /\ q.replaced = Unpublished
  <2>1. Unused = [f \in Fields |-> Unused[f]]
    BY DEF Unused, Fields
  <2>2. /\ q = [f \in Fields |-> q[f]] /\ q.pc = "returned" /\ q.torn = r.torn
        /\ q.publication = r.publication
        /\ \A f \in Fields \ {"pc", "torn", "publication"} : q[f] = Unused[f]
    BY <2>1, FieldsKnown
  <2> HIDE DEF q
  <2>3. QED BY <2>2, FieldsKnown DEF Unused
<1> HIDE DEF q
<1>2. Shape(q)
  BY <1>1 DEF Shape, RecordInv
<1>3. EffectsKept(i, q)
  BY <1>1, NobodysData DEF EffectsKept
<1>4. Execution(i, q) /\ Settled(q) /\ Replaced(i, q) /\ Evidence(i, q)
  BY <1>1 DEF Execution, Settled, Replaced, Evidence, InProgress, Succeeded, Settlement,
              Unsettled
<1>5. QED BY <1>1, <1>2, <1>3, <1>4 DEF RecordInv, q

LEMMA UnusedRecord ==
  ASSUME NEW i \in Invocations
  PROVE  /\ Unused.pc = "idle" /\ Unused.snapshot = Nothing
         /\ RecordInv(i, Unused)
         /\ \A at \in {"refused", "thrown"} :
              LET q == [Unused EXCEPT !.pc = at]
              IN  RecordInv(i, q) /\ q.pc = at /\ q.snapshot = Nothing
<1>1. ASSUME NEW at \in {"idle", "refused", "thrown"}, NEW q,
             q = [f \in Fields |-> q[f]], q.pc = at,
             \A f \in Fields \ {"pc"} : q[f] = Unused[f]
      PROVE  RecordInv(i, q) /\ q.snapshot = Nothing
  <2>1. /\ q.torn = FALSE /\ q.publication = NoPublication /\ q.staged = 0
        /\ q.initial = Nothing /\ q.snapshot = Nothing /\ q.raced = FALSE
        /\ q.ephemeral = FALSE /\ q.admission = FALSE /\ q.failed = FALSE
        /\ q.ambiguous = FALSE /\ q.limit = "none" /\ q.denied = {} /\ q.attempted = {}
        /\ q.observed = {} /\ q.replaced = Unpublished /\ q.output = "initial"
    BY <1>1, FieldsKnown DEF Unused
  <2>2. Shape(q)
    BY <1>1, <2>1 DEF Shape
  <2>3. EffectsKept(i, q)
    BY <2>1, NobodysData DEF EffectsKept
  <2>4. Execution(i, q) /\ Settled(q) /\ Replaced(i, q) /\ Evidence(i, q)
    BY <1>1, <2>1 DEF Execution, Settled, Replaced, Evidence, InProgress, Succeeded,
                      Settlement, Unsettled, NoPublication
  <2>5. QED BY <2>1, <2>2, <2>3, <2>4 DEF RecordInv
<1>2. Unused = [f \in Fields |-> Unused[f]] /\ Unused.pc = "idle"
  BY DEF Unused, Fields
<1>3. RecordInv(i, Unused) /\ Unused.snapshot = Nothing
  BY <1>1, <1>2
<1>4. ASSUME NEW at \in {"refused", "thrown"}
      PROVE  LET q == [Unused EXCEPT !.pc = at]
             IN  RecordInv(i, q) /\ q.pc = at /\ q.snapshot = Nothing
  <2> DEFINE q == [Unused EXCEPT !.pc = at]
  <2>1. /\ q = [f \in Fields |-> q[f]] /\ q.pc = at
        /\ \A f \in Fields \ {"pc"} : q[f] = Unused[f]
    BY <1>2, FieldsKnown
  <2> HIDE DEF q
  <2>2. RecordInv(i, q) /\ q.snapshot = Nothing
    BY <1>1, <2>1
  <2>3. QED BY <2>1, <2>2 DEF q
<1>5. QED BY <1>2, <1>3, <1>4

\* Another program comes in the way of a settlement.
LEMMA RacedRecord ==
  ASSUME NEW i \in Invocations, NEW r, RecordInv(i, r), r.pc \in {"reread", "publish"}
  PROVE  LET q == [r EXCEPT !.raced = TRUE]
         IN  /\ RecordInv(i, q) /\ q.raced = TRUE
             /\ \A f \in Fields \ {"raced"} : q[f] = r[f]
<1> DEFINE q == [r EXCEPT !.raced = TRUE]
<1>1. r = [f \in Fields |-> r[f]] /\ r.raced \in BOOLEAN
  BY DEF RecordInv, Shape
<1>2. /\ q = [f \in Fields |-> q[f]] /\ q.raced = TRUE
      /\ \A f \in Fields \ {"raced"} : q[f] = r[f]
  BY <1>1, FieldsKnown
<1> HIDE DEF q
<1>3. /\ q.pc = r.pc /\ q.pin = r.pin /\ q.initial = r.initial
      /\ q.torn = r.torn /\ q.failed = r.failed /\ q.ambiguous = r.ambiguous
      /\ q.snapshot = r.snapshot /\ q.ephemeral = r.ephemeral
      /\ q.admission = r.admission /\ q.limit = r.limit /\ q.exit = r.exit
      /\ q.denied = r.denied /\ q.attempted = r.attempted /\ q.observed = r.observed
      /\ q.staged = r.staged /\ q.replaced = r.replaced /\ q.runner = r.runner
      /\ q.publication = r.publication /\ q.output = r.output /\ q.outcome = r.outcome
  BY <1>2, FieldsKnown
<1>4. Shape(q)
  BY <1>2, <1>3 DEF RecordInv, Shape
<1>5. EffectsKept(i, q)
  BY <1>3 DEF RecordInv, EffectsKept
<1>6. /\ Cleared(i, r) /\ r.outcome = "success" /\ (r.pin.ino = 0 <=> r.initial = Nothing)
      /\ r.replaced = Unpublished /\ Authorized(r)
  BY DEF RecordInv, Execution, InProgress, Succeeded, Settlement, Replaced
<1>7. Execution(i, q)
  <2>1. Cleared(i, q)
    BY <1>3, <1>6 DEF Cleared, Mutated
  <2>2. QED BY <1>3, <1>6, <2>1 DEF Execution
<1>8. Settled(q)
  BY <1>3 DEF RecordInv, Settled, Unsettled
<1>9. Replaced(i, q)
  <2>1. Authorized(q)
    BY <1>3, <1>6 DEF Authorized
  <2>2. QED BY <1>3, <1>6, <2>1 DEF Replaced
<1>10. Evidence(i, q)
  BY <1>3 DEF Evidence
<1>11. QED BY <1>2, <1>4, <1>5, <1>7, <1>8, <1>9, <1>10 DEF RecordInv, q

\* A call is admitted, and data is at the path.
Begun(pin, data, created) ==
  [Unused EXCEPT !.pc = "creating", !.pin = pin, !.next = pin, !.initial = data,
                 !.snapshot = IF pin.ino = 0 THEN Data(0, "host") ELSE data,
                 !.created = created]

LEMMA AdmittedRecord ==
  ASSUME NEW i \in Invocations, NEW pin, NEW data, NEW created,
         data \in Datum \cup {Nothing}, pin.ino = 0 <=> data = Nothing,
         pin.ino # 0 => data \in Datum, data.by # i
  PROVE  /\ RecordInv(i, Begun(pin, data, created))
         /\ Begun(pin, data, created).pc = "creating"
         /\ Begun(pin, data, created).snapshot \in {data, Data(0, "host")}
<1> DEFINE s == IF pin.ino = 0 THEN Data(0, "host") ELSE data
           q == [Unused EXCEPT !.pc = "creating", !.pin = pin, !.next = pin,
                               !.initial = data, !.snapshot = s, !.created = created]
<1>1. s \in Datum /\ s.by # i /\ s \in {data, Data(0, "host")}
  <2>1. Data(0, "host") \in Datum
    BY DEF Data, Datum, Authors
  <2>2. Data(0, "host").by # i
    BY NobodysData
  <2>3. QED BY <2>1, <2>2
<1> HIDE DEF s
<1>2. /\ q = [f \in Fields |-> q[f]] /\ q.pc = "creating" /\ q.pin = pin
      /\ q.initial = data /\ q.snapshot = s
      /\ q.torn = FALSE /\ q.publication = NoPublication /\ q.staged = 0
      /\ q.raced = FALSE
      /\ q.ephemeral = FALSE /\ q.admission = FALSE /\ q.failed = FALSE
      /\ q.ambiguous = FALSE /\ q.limit = "none" /\ q.denied = {} /\ q.attempted = {}
      /\ q.observed = {} /\ q.replaced = Unpublished /\ q.output = "initial"
  <2>1. Unused = [f \in Fields |-> Unused[f]]
    BY DEF Unused, Fields
  <2>2. /\ q = [f \in Fields |-> q[f]] /\ q.pc = "creating" /\ q.pin = pin
        /\ q.initial = data /\ q.snapshot = s
        /\ \A f \in Fields \ {"pc", "pin", "next", "initial", "snapshot", "created"} :
             q[f] = Unused[f]
    BY <2>1, FieldsKnown
  <2> HIDE DEF q
  <2>3. /\ Unused.torn = FALSE /\ Unused.publication = NoPublication /\ Unused.staged = 0
        /\ Unused.raced = FALSE
        /\ Unused.ephemeral = FALSE /\ Unused.admission = FALSE /\ Unused.failed = FALSE
        /\ Unused.ambiguous = FALSE /\ Unused.limit = "none" /\ Unused.denied = {}
        /\ Unused.attempted = {} /\ Unused.observed = {}
        /\ Unused.replaced = Unpublished /\ Unused.output = "initial"
    BY DEF Unused
  <2>4. QED BY <2>2, <2>3, FieldsKnown
<1> HIDE DEF q
<1>3. Shape(q)
  BY <1>1, <1>2 DEF Shape
<1>4. EffectsKept(i, q)
  BY <1>1, <1>2 DEF EffectsKept
<1>5. Execution(i, q)
  BY <1>1, <1>2 DEF Execution, InProgress, Succeeded, Settlement
<1>6. Settled(q) /\ Replaced(i, q) /\ Evidence(i, q)
  BY <1>2 DEF Settled, Replaced, Evidence, Unsettled, NoPublication
<1>7. q = Begun(pin, data, created)
  BY DEF q, s, Begun
<1>8. QED BY <1>1, <1>2, <1>3, <1>4, <1>5, <1>6, <1>7 DEF RecordInv

\* What a file operation leaves in the private output.
LEMMA WrittenData ==
  ASSUME NEW i \in Invocations, NEW data \in Datum, NEW g \in GuestOps
  PROVE  /\ Written(i, data, g) \in Datum
         /\ \A k \in Invocations \ {i} : Written(i, data, g).by = k => data.by = k
         /\ Written(i, data, g).by = i =>
              data.by = i \/ g.op = "write" \/ (g.op = "truncate" /\ g.n # 0)
<1>1. /\ g.op \in {"read", "open", "open_trunc", "truncate", "write"} /\ g.n \in Nat
      /\ g.op = "write" => g.n # 0
  BY DEF GuestOps
<1>2. data.len \in Nat /\ data.by \in Authors /\ data = [len |-> data.len, by |-> data.by]
  BY DEF Datum
<1>3. \A n \in Nat, w \in Authors : Data(n, w) \in Datum
  BY DEF Data, Datum, Authors
<1>4. /\ i \in Authors
      /\ \A n \in Nat, k \in Invocations : Data(n, i).by = k => k = i /\ n # 0
  BY NamesApart DEF Data, Authors
<1>5. CASE g.op \in {"read", "open"}
  BY <1>5 DEF Written
<1>6. CASE g.op = "open_trunc"
  <2>1. Written(i, data, g) = Data(0, i)
    BY <1>6 DEF Written
  <2>2. QED BY <1>3, <1>4, <2>1
<1>7. CASE g.op = "truncate"
  <2>1. Written(i, data, g) = IF g.n <= data.len THEN Data(g.n, data.by) ELSE Data(g.n, i)
    BY <1>7 DEF Written
  <2>2. CASE g.n <= data.len
    <3>1. \A k \in Invocations : Data(g.n, data.by).by = k => data.by = k
      BY <1>1, NamesApart DEF Data
    <3>2. QED BY <1>1, <1>2, <1>3, <2>1, <2>2, <3>1
  <2>3. CASE ~(g.n <= data.len)
    BY <1>1, <1>2, <1>3, <1>4, <1>7, <2>1, <2>3
  <2>4. QED BY <2>2, <2>3
<1>8. CASE g.op = "write"
  <2> DEFINE n == IF g.n > data.len THEN g.n ELSE data.len
  <2>1. Written(i, data, g) = Data(n, i) /\ n \in Nat
    BY <1>1, <1>2, <1>8 DEF Written
  <2> HIDE DEF n
  <2>2. QED BY <1>3, <1>4, <1>8, <2>1
<1>9. QED BY <1>1, <1>5, <1>6, <1>7, <1>8

\* A file operation of the program.
LEMMA GuestOpEffects ==
  ASSUME NEW i \in Invocations, NEW r, NEW g \in GuestOps, Writer(i)
  PROVE  LET es == Effects(i, r, g)
             tried == {k \in DOMAIN es : \A j \in 1 .. k - 1 : Permitted(i, es[j])}
             refused == {es[k] : k \in {j \in tried : ~Permitted(i, es[j])}}
             done == {es[k] : k \in tried}
         IN  refused = {} =>
               /\ done \subseteq Granted(i)
               /\ g.op = "write" => "write" \in done
               /\ g.op = "truncate" /\ g.n # 0 => "truncate" \in done
<1> DEFINE es == Effects(i, r, g)
           tried == {k \in DOMAIN es : \A j \in 1 .. k - 1 : Permitted(i, es[j])}
           refused == {es[k] : k \in {j \in tried : ~Permitted(i, es[j])}}
           done == {es[k] : k \in tried}
<1> SUFFICES ASSUME refused = {}
             PROVE  /\ done \subseteq Granted(i)
                    /\ g.op = "write" => "write" \in done
                    /\ g.op = "truncate" /\ g.n # 0 => "truncate" \in done
  OBVIOUS
<1>1. es = WriterEffects(r, g)
  BY DEF Effects
<1> HIDE DEF es
<1>2. \A k \in tried : Permitted(i, es[k])
  OBVIOUS
<1>3. done \subseteq Granted(i)
  BY <1>2 DEF Permitted
<1>4. ASSUME g.op = "write" PROVE "write" \in done
  <2>1. es = <<"write">>
    BY <1>1, <1>4 DEF WriterEffects
  <2>2. 1 \in tried
    BY <2>1
  <2>3. QED BY <2>1, <2>2
<1>5. ASSUME g.op = "truncate", g.n # 0 PROVE "truncate" \in done
  <2>1. \/ DOMAIN es = 1 .. 1 /\ es[1] = "truncate"
        \/ DOMAIN es = 1 .. 2 /\ es[2] = "truncate"
    <3>1. es = (IF r.created THEN <<>> ELSE <<"create">>) \o <<"truncate">>
      BY <1>1, <1>5 DEF WriterEffects
    <3> DEFINE s == <<>> \o <<"truncate">>
               t == <<"create">> \o <<"truncate">>
    <3>2. /\ DOMAIN s = 1 .. 1 /\ s[1] = "truncate"
          /\ DOMAIN t = 1 .. 2 /\ t[2] = "truncate"
      OBVIOUS
    <3>3. es = s \/ es = t
      BY <3>1
    <3> HIDE DEF s, t
    <3>4. QED BY <3>2, <3>3
  <2>2. 1 \in tried
    BY <2>1
  <2>3. CASE es[1] = "truncate"
    BY <2>2, <2>3
  <2>4. CASE DOMAIN es = 1 .. 2 /\ es[2] = "truncate"
    <3>1. Permitted(i, es[1])
      BY <1>2, <2>2
    <3>2. 2 \in tried
      BY <2>4, <3>1
    <3>3. QED BY <2>4, <3>2
  <2>5. QED BY <2>1, <2>3, <2>4
<1>6. QED BY <1>3, <1>4, <1>5

\* The record after a file operation and its hooks.
AfterOp(i, r, g) ==
  LET es == Effects(i, r, g)
      tried == {k \in DOMAIN es : \A j \in 1 .. k - 1 : Permitted(i, es[j])}
      attempts == r.attempted \cup {es[k] : k \in tried}
      refused == {es[k] : k \in {j \in tried : ~Permitted(i, es[j])}}
      done == {es[k] : k \in tried}
  IN  IF refused # {}
      THEN [r EXCEPT !.attempted = attempts, !.denied = @ \cup refused]
      ELSE [r EXCEPT !.attempted = attempts, !.observed = @ \cup done,
                     !.created = @ \/ "create" \in done,
                     !.written = @ \/ done \cap {"write", "truncate"} # {},
                     !.snapshot = IF Writer(i) THEN Written(i, @, g) ELSE @]

LEMMA GuestOpRecord ==
  ASSUME NEW i \in Invocations, NEW r, RecordInv(i, r), r.pc = "running", NEW g \in GuestOps
  PROVE  /\ RecordInv(i, AfterOp(i, r, g)) /\ AfterOp(i, r, g).pc = "running"
         /\ \A k \in Invocations \ {i} : AfterOp(i, r, g).snapshot.by = k => r.snapshot.by = k
<1> DEFINE es == Effects(i, r, g)
           tried == {k \in DOMAIN es : \A j \in 1 .. k - 1 : Permitted(i, es[j])}
           attempts == r.attempted \cup {es[k] : k \in tried}
           refused == {es[k] : k \in {j \in tried : ~Permitted(i, es[j])}}
           done == {es[k] : k \in tried}
           created == r.created \/ "create" \in done
           written == r.written \/ done \cap {"write", "truncate"} # {}
           s == IF Writer(i) THEN Written(i, r.snapshot, g) ELSE r.snapshot
           d == r.denied \cup refused
           o == r.observed \cup done
           q1 == [r EXCEPT !.attempted = attempts, !.denied = d]
           q2 == [r EXCEPT !.attempted = attempts, !.observed = o, !.created = created,
                           !.written = written, !.snapshot = s]
<1>1. /\ Shape(r) /\ EffectsKept(i, r) /\ r = [f \in Fields |-> r[f]]
      /\ Writer(i) => r.snapshot \in Datum
  BY DEF RecordInv, Shape, Execution
<1>2. refused \subseteq attempts /\ done \subseteq attempts /\ r.attempted \subseteq attempts
  OBVIOUS
<1>3. Writer(i) /\ refused = {} =>
        /\ done \subseteq Granted(i)
        /\ g.op = "write" => "write" \in done
        /\ g.op = "truncate" /\ g.n # 0 => "truncate" \in done
  BY GuestOpEffects
<1> HIDE DEF es, tried, attempts, refused, done, created, written
<1>4. /\ s \in Datum \cup {Nothing}
      /\ Writer(i) => s \in Datum
      /\ \A k \in Invocations \ {i} : s.by = k => r.snapshot.by = k
      /\ s.by = i => \/ r.snapshot.by = i
                     \/ Writer(i) /\ (g.op = "write" \/ (g.op = "truncate" /\ g.n # 0))
  <2>1. CASE Writer(i)
    BY <1>1, <2>1, WrittenData
  <2>2. CASE ~Writer(i)
    BY <1>1, <2>2 DEF Shape
  <2>3. QED BY <2>1, <2>2
<1>5. CASE refused # {}
  <2>1. /\ q1 = [f \in Fields |-> q1[f]] /\ q1.attempted = attempts
        /\ q1.denied = d
        /\ \A f \in Fields \ {"attempted", "denied"} : q1[f] = r[f]
    BY <1>1, FieldsKnown
  <2> HIDE DEF q1
  <2>2. q1.pc = "running" /\ q1.snapshot = r.snapshot /\ q1.observed = r.observed
    BY <2>1, FieldsKnown
  <2>3. EffectsKept(i, q1)
    BY <1>1, <1>2, <2>1, <2>2 DEF EffectsKept
  <2>4. RecordInv(i, q1)
    BY <1>1, <2>1, <2>2, <2>3, InGuestRecord DEF Shape
  <2>5. q1 = AfterOp(i, r, g)
    BY <1>5 DEF AfterOp, q1, es, tried, attempts, refused, done, created, written
  <2>6. QED BY <2>2, <2>4, <2>5
<1>6. CASE refused = {}
  <2> HIDE DEF s, d, o
  <2>1. /\ q2 = [f \in Fields |-> q2[f]] /\ q2.attempted = attempts
        /\ q2.observed = o /\ q2.snapshot = s
        /\ \A f \in Fields \ {"attempted", "observed", "created", "written", "snapshot"} :
             q2[f] = r[f]
    BY <1>1, FieldsKnown
  <2> HIDE DEF q2
  <2>2. q2.pc = "running" /\ q2.denied = r.denied
    BY <2>1, FieldsKnown
  <2>3. EffectsKept(i, q2)
    <3>1. q2.denied \subseteq q2.attempted /\ q2.observed \subseteq q2.attempted
      BY <1>1, <1>2, <2>1, <2>2 DEF EffectsKept, o
    <3>2. Writer(i) => q2.observed \subseteq Granted(i)
      BY <1>1, <1>3, <1>6, <2>1 DEF EffectsKept, o
    <3>3. q2.snapshot.by = i => q2.observed \cap {"write", "truncate"} # {}
      BY <1>1, <1>3, <1>4, <1>6, <2>1 DEF EffectsKept, o
    <3>4. QED BY <3>1, <3>2, <3>3 DEF EffectsKept
  <2>4. RecordInv(i, q2)
    BY <1>4, <2>1, <2>2, <2>3, InGuestRecord
  <2>5. \A k \in Invocations \ {i} : q2.snapshot.by = k => r.snapshot.by = k
    BY <1>4, <2>1
  <2>6. q2 = AfterOp(i, r, g)
    BY <1>6 DEF AfterOp, q2, es, tried, attempts, refused, done, created, written, s, o
  <2>7. QED BY <2>2, <2>4, <2>5, <2>6
<1>7. QED BY <1>5, <1>6

\* What a step of one invocation leaves of the invariant.

ShownPcs == {"verify", "cleanup", "sealed", "returned"}

LEMMA WriterKnown ==
  ASSUME Maps
  PROVE  \A i \in Invocations : ContextOf(i) \in Contexts
BY InvocationAssumption DEF Maps, ContextOf

LEMMA OthersStay ==
  ASSUME Maps, NEW i \in Invocations, NEW q, inv' = [inv EXCEPT ![i] = q]
  PROVE  /\ inv'[i] = q
         /\ \A j \in Invocations \ {i} : inv'[j] = inv[j]
         /\ inv' = [j \in Invocations |-> inv'[j]]
BY DEF Maps

LEMMA RecordsKept ==
  ASSUME IInv, NEW i \in Invocations, NEW q, inv' = [inv EXCEPT ![i] = q],
         setup' = setup, RecordInv(i, q)
  PROVE  (\A j \in Invocations : RecordInv(j, inv[j]))'
<1>1. /\ inv'[i] = q
      /\ \A j \in Invocations \ {i} : inv'[j] = inv[j]
  BY OthersStay DEF IInv
<1> SUFFICES ASSUME NEW j \in Invocations PROVE RecordInv(j, inv[j])'
  OBVIOUS
<1>2. RecordInv(j, inv'[j])
  BY <1>1 DEF IInv
<1>3. /\ Shape(inv'[j]) /\ EffectsKept(j, inv'[j]) /\ Execution(j, inv'[j])
      /\ Settled(inv'[j]) /\ Replaced(j, inv'[j]) /\ Evidence(j, inv'[j])
  BY <1>2 DEF RecordInv
<1>4. Shape(inv[j])'
  BY <1>3 DEF Shape
<1>5. EffectsKept(j, inv[j])'
  BY <1>3 DEF EffectsKept, Writer, Granted, ContextOf
<1>6. Execution(j, inv[j])'
  BY <1>3 DEF Execution, Cleared, Mutated, Writer, ContextOf
<1>7. Settled(inv[j])'
  BY <1>3 DEF Settled
<1>8. Replaced(j, inv[j])'
  BY <1>3 DEF Replaced, Cleared, Mutated, Authorized, Writer, ContextOf
<1>9. Evidence(j, inv[j])'
  BY <1>3 DEF Evidence, PublicationVerifies, EffectsVerify, TeardownVerifies,
              ResultVerifies, Writer, ContextOf
<1>10. QED BY <1>4, <1>5, <1>6, <1>7, <1>8, <1>9 DEF RecordInv

LEMMA SettlingKept ==
  ASSUME IInv, NEW i \in Invocations, NEW q, inv' = [inv EXCEPT ![i] = q],
         q.pc # "idle",
         q.pc \in Settlement \cup {"sealed"} => LoopFree \/ Settling(i)
  PROVE  OneSettles' /\ Untouched'
<1>1. /\ inv'[i] = q
      /\ \A j \in Invocations \ {i} : inv'[j] = inv[j]
  BY OthersStay DEF IInv
<1>2. OneSettles'
  BY <1>1 DEF OneSettles, Settling, LoopFree, Settlement, IInv
<1>3. Untouched'
  BY <1>1 DEF Untouched, IInv
<1>4. QED BY <1>2, <1>3

LEMMA NothingIsLost ==
  ASSUME IInv, NEW i \in Invocations, NEW q, inv' = [inv EXCEPT ![i] = q],
         host' = host \/ Settling(i),
         TargetKept(q, host')
  PROVE  NothingLost'
<1>1. /\ inv'[i] = q
      /\ \A j \in Invocations \ {i} : inv'[j] = inv[j]
  BY OthersStay DEF IInv
<1>2. ASSUME NEW j \in Invocations \ {i}, inv[j].pc \in {"reread", "publish"}
      PROVE  host' = host
  BY <1>2 DEF IInv, OneSettles, Settling
<1>3. QED BY <1>1, <1>2 DEF IInv, NothingLost, TargetKept

LEMMA AuthorsKept ==
  ASSUME IInv, NEW i \in Invocations, NEW q, inv' = [inv EXCEPT ![i] = q],
         Published(i) => q.pc \in ShownPcs,
         \A k \in Invocations \ {i} :
           q.snapshot.by = k => inv[i].snapshot.by = k \/ host.data.by = k,
         \/ host' = host
         \/ host'.data = inv[i].snapshot /\ q.pc \in ShownPcs
  PROVE  Authorship'
<1>1. /\ inv'[i] = q
      /\ \A j \in Invocations \ {i} : inv'[j] = inv[j]
  BY OthersStay DEF IInv
<1>2. \A k \in Invocations : Published(k) => Published(k)'
  BY <1>1 DEF Published, ShownPcs
<1>3. q.pc \in ShownPcs => Published(i)'
  BY <1>1 DEF Published, ShownPcs
<1>4. Authorship
  BY DEF IInv
<1>5. ASSUME NEW k \in Invocations, host'.data.by = k PROVE Published(k)'
  BY <1>2, <1>3, <1>4, <1>5 DEF Authorship
<1>6. ASSUME NEW k \in Invocations, NEW j \in Invocations \ {k}, inv'[j].snapshot.by = k
      PROVE  Published(k)'
  BY <1>1, <1>2, <1>4, <1>6 DEF Authorship
<1>7. QED BY <1>5, <1>6 DEF Authorship

\* A step of an invocation that leaves the pins alone.
LEMMA HoldersKept ==
  ASSUME IInv, NEW i \in Invocations, NEW q, inv' = [inv EXCEPT ![i] = q],
         setup' = setup, pins' = pins,
         q.pc \in InProgress => inv[i].pc \in InProgress,
         Doubted(q) => Doubted(inv[i]) \/ inv[i].pc \in InProgress
  PROVE  Holders'
<1>1. /\ inv'[i] = q
      /\ \A j \in Invocations \ {i} : inv'[j] = inv[j]
  BY OthersStay DEF IInv
<1>2. Holders
  BY DEF IInv
<1>3. /\ \A j \in Invocations : /\ inv'[j].pc \in InProgress => inv[j].pc \in InProgress
                                /\ Doubted(inv'[j]) => Doubted(inv[j]) \/ inv[j].pc \in InProgress
      /\ \A j \in Invocations : ~(Doubted(inv'[j]) /\ inv'[j].pc \in InProgress)
  <2>1. \A r : ~(Doubted(r) /\ r.pc \in InProgress)
    BY DEF Doubted, InProgress, Succeeded, Settlement
  <2>2. QED BY <1>1, <2>1
<1>4. ASSUME NEW j \in Invocations, NEW k \in Invocations, ContextOf(j)' = ContextOf(k)',
             Writer(j)'
      PROVE  /\ inv'[j].pc \in InProgress => pins'[ContextOf(j)'] = NoPin
             /\ inv'[j].pc \in InProgress /\ inv'[k].pc \in InProgress => j = k
             /\ Doubted(inv'[j]) => pins'[ContextOf(j)'] = NoPin /\ inv'[k].pc \notin InProgress
  <2>1. ContextOf(j) = ContextOf(k) /\ Writer(j) /\ ContextOf(j)' = ContextOf(j)
    BY <1>4 DEF ContextOf, Writer
  <2>2. /\ inv[j].pc \in InProgress => pins[ContextOf(j)] = NoPin
        /\ inv[j].pc \in InProgress /\ inv[k].pc \in InProgress => j = k
        /\ Doubted(inv[j]) => pins[ContextOf(j)] = NoPin /\ inv[k].pc \notin InProgress
    BY <1>2, <2>1 DEF Holders
  <2>3. QED BY <1>3, <2>1, <2>2
<1>5. QED BY <1>4 DEF Holders, Doubted

\* An admitted invocation takes the pin of its context.
LEMMA HoldersTaken ==
  ASSUME IInv, NEW i \in Invocations, NEW q, inv' = [inv EXCEPT ![i] = q],
         setup' = setup, Writer(i) => pins[ContextOf(i)] # NoPin,
         pins' = (IF Writer(i) THEN [pins EXCEPT ![ContextOf(i)] = NoPin] ELSE pins),
         q.pc \notin {"sealed", "returned"}
  PROVE  Holders'
<1>1. /\ inv'[i] = q
      /\ \A j \in Invocations \ {i} : inv'[j] = inv[j]
  BY OthersStay DEF IInv
<1>2. Holders
  BY DEF IInv
<1>3. ~Doubted(q)
  BY DEF Doubted
<1>4. ASSUME NEW j \in Invocations, NEW k \in Invocations, ContextOf(j)' = ContextOf(k)',
             Writer(j)'
      PROVE  /\ inv'[j].pc \in InProgress => pins'[ContextOf(j)'] = NoPin
             /\ inv'[j].pc \in InProgress /\ inv'[k].pc \in InProgress => j = k
             /\ Doubted(inv'[j]) => pins'[ContextOf(j)'] = NoPin /\ inv'[k].pc \notin InProgress
  <2>1. ContextOf(j) = ContextOf(k) /\ Writer(j) /\ ContextOf(j)' = ContextOf(j)
    BY <1>4 DEF ContextOf, Writer
  <2>2. /\ inv[j].pc \in InProgress => pins[ContextOf(j)] = NoPin
        /\ inv[j].pc \in InProgress /\ inv[k].pc \in InProgress => j = k
        /\ Doubted(inv[j]) => pins[ContextOf(j)] = NoPin /\ inv[k].pc \notin InProgress
        /\ inv[k].pc \in InProgress => pins[ContextOf(j)] = NoPin
    <3>1. Writer(k)
      BY <2>1 DEF Writer
    <3>2. QED BY <1>2, <2>1, <3>1 DEF Holders
  <2>3. CASE ContextOf(j) = ContextOf(i)
    <3>1. Writer(i) /\ pins[ContextOf(j)] # NoPin
      BY <2>1, <2>3 DEF Writer
    <3>2. pins'[ContextOf(j)] = NoPin
      BY <2>1, <2>3, <3>1, WriterKnown DEF IInv, Maps
    <3>3. /\ inv[j].pc \notin InProgress /\ inv[k].pc \notin InProgress
          /\ ~Doubted(inv[j])
      BY <2>2, <3>1
    <3>4. inv'[j].pc \in InProgress => j = i
      BY <1>1, <3>3
    <3>5. inv'[k].pc \in InProgress => k = i
      BY <1>1, <3>3
    <3>6. ~Doubted(inv'[j])
      BY <1>1, <1>3, <3>3
    <3>7. QED BY <2>1, <3>2, <3>4, <3>5, <3>6
  <2>4. CASE ContextOf(j) # ContextOf(i)
    <3>1. inv'[j] = inv[j] /\ inv'[k] = inv[k]
      BY <1>1, <2>1, <2>4
    <3>2. pins'[ContextOf(j)] = pins[ContextOf(j)]
      BY <2>1, <2>4, WriterKnown DEF IInv, Maps
    <3>3. QED BY <2>1, <2>2, <3>1, <3>2
  <2>5. QED BY <2>3, <2>4
<1>5. QED BY <1>4 DEF Holders, Doubted

\* A sealed result gives the pin back, or drops it.
LEMMA HoldersReturned ==
  ASSUME IInv, NEW i \in Invocations, NEW q, inv' = [inv EXCEPT ![i] = q],
         setup' = setup, inv[i].pc \in InProgress, q.pc \notin InProgress,
         Doubted(q) => ~RestoresPin(q),
         pins' = (IF Writer(i) /\ RestoresPin(q)
                  THEN [pins EXCEPT ![ContextOf(i)] = q.next] ELSE pins)
  PROVE  Holders'
<1>1. /\ inv'[i] = q
      /\ \A j \in Invocations \ {i} : inv'[j] = inv[j]
  BY OthersStay DEF IInv
<1>2. Holders
  BY DEF IInv
<1>3. CASE ~(Writer(i) /\ RestoresPin(q))
  BY <1>3, HoldersKept
<1>4. CASE Writer(i) /\ RestoresPin(q)
  <2>1. ~Doubted(q)
    BY <1>4
  <2>2. ASSUME NEW j \in Invocations, NEW k \in Invocations, ContextOf(j)' = ContextOf(k)',
               Writer(j)'
        PROVE  /\ inv'[j].pc \in InProgress => pins'[ContextOf(j)'] = NoPin
               /\ inv'[j].pc \in InProgress /\ inv'[k].pc \in InProgress => j = k
               /\ Doubted(inv'[j]) => pins'[ContextOf(j)'] = NoPin /\ inv'[k].pc \notin InProgress
    <3>1. ContextOf(j) = ContextOf(k) /\ Writer(j) /\ ContextOf(j)' = ContextOf(j)
      BY <2>2 DEF ContextOf, Writer
    <3>2. /\ inv[j].pc \in InProgress => pins[ContextOf(j)] = NoPin
          /\ inv[j].pc \in InProgress /\ inv[k].pc \in InProgress => j = k
          /\ Doubted(inv[j]) => pins[ContextOf(j)] = NoPin /\ inv[k].pc \notin InProgress
      BY <1>2, <3>1 DEF Holders
    <3>3. CASE ContextOf(j) = ContextOf(i)
      <4>1. /\ inv[j].pc \in InProgress => j = i
            /\ inv[k].pc \in InProgress => k = i
            /\ ~Doubted(inv[j])
        <5>1. Writer(k)
          BY <3>1 DEF Writer
        <5>2. inv[j].pc \in InProgress => j = i
          BY <1>2, <3>1, <3>3 DEF Holders
        <5>3. inv[k].pc \in InProgress => k = i
          BY <1>2, <3>1, <3>3, <5>1 DEF Holders
        <5>4. ~Doubted(inv[j])
          BY <1>2, <3>1, <3>3 DEF Holders
        <5>5. QED BY <5>2, <5>3, <5>4
      <4>2. inv'[j].pc \notin InProgress /\ inv'[k].pc \notin InProgress
        BY <1>1, <4>1
      <4>3. ~Doubted(inv'[j])
        BY <1>1, <2>1, <4>1
      <4>4. QED BY <4>2, <4>3
    <3>4. CASE ContextOf(j) # ContextOf(i)
      <4>1. inv'[j] = inv[j] /\ inv'[k] = inv[k]
        BY <1>1, <3>1, <3>4
      <4>2. pins'[ContextOf(j)] = pins[ContextOf(j)]
        BY <1>4, <3>1, <3>4, WriterKnown DEF IInv, Maps
      <4>3. QED BY <3>1, <3>2, <4>1, <4>2
    <3>5. QED BY <3>3, <3>4
  <2>3. QED BY <2>2 DEF Holders, Doubted
<1>5. QED BY <1>3, <1>4

\* A step that changes neither the file nor a pin.
LEMMA LocalKept ==
  ASSUME IInv, NEW i \in Invocations, NEW q, inv' = [inv EXCEPT ![i] = q],
         setup' = setup, host' = host, pins' = pins, RecordInv(i, q),
         q.pc # "idle",
         q.pc \in Settlement \cup {"sealed"} => LoopFree \/ Settling(i),
         TargetKept(q, host),
         Published(i) => q.pc \in ShownPcs,
         \A k \in Invocations \ {i} :
           q.snapshot.by = k => inv[i].snapshot.by = k \/ host.data.by = k,
         q.pc \in InProgress => inv[i].pc \in InProgress,
         Doubted(q) => Doubted(inv[i]) \/ inv[i].pc \in InProgress
  PROVE  IInv'
<1>1. (\A j \in Invocations : RecordInv(j, inv[j]))'
  BY RecordsKept
<1>2. OneSettles' /\ Untouched'
  BY SettlingKept
<1>3. NothingLost'
  BY NothingIsLost
<1>4. Authorship'
  BY AuthorsKept
<1>5. Holders'
  BY HoldersKept
<1>6. Maps' /\ HostThere'
  BY OthersStay DEF IInv, Maps, HostThere
<1>7. QED BY <1>1, <1>2, <1>3, <1>4, <1>5, <1>6 DEF IInv

\* A step of the execution.
LEMMA ExecutionKept ==
  ASSUME IInv, NEW i \in Invocations, NEW q, Becomes(i, q), RecordInv(i, q),
         inv[i].pc \in {"creating", "starting", "running"},
         q.pc \in {"creating", "starting", "running", "closing"},
         \A k \in Invocations \ {i} : q.snapshot.by = k => inv[i].snapshot.by = k
  PROVE  IInv'
<1>1. /\ q.pc \notin Settlement \cup {"sealed", "idle", "returned"}
      /\ q.pc \in InProgress /\ inv[i].pc \in InProgress /\ ~Published(i)
      /\ TargetKept(q, host)
  BY DEF Settlement, InProgress, Published, TargetKept
<1>2. ~Doubted(q)
  BY <1>1 DEF Doubted
<1>3. /\ inv' = [inv EXCEPT ![i] = q] /\ setup' = setup /\ host' = host /\ pins' = pins
  BY DEF Becomes
<1>4. QED BY <1>1, <1>2, <1>3, LocalKept

\* The catch clause.
LEMMA CaughtKept ==
  ASSUME IInv, NEW i \in Invocations, NEW v, NEW cause, Becomes(i, Caught(v, cause)),
         inv[i].pc \in {"creating", "starting", "running"},
         v = [f \in Fields |-> v[f]],
         v.limit \in {"none", "timeout", "output_overflow"},
         \A f \in Fields \ {"vm", "runner", "limit"} : v[f] = inv[i][f]
  PROVE  IInv'
<1>1. PICK q : q = Caught(v, cause)
  OBVIOUS
<1>2. PICK r : r = inv[i]
  OBVIOUS
<1>3. Becomes(i, q) /\ RecordInv(i, r) /\ r.pc \in {"creating", "starting", "running"}
      /\ \A f \in Fields \ {"vm", "runner", "limit"} : v[f] = r[f]
  BY <1>1, <1>2 DEF IInv, Becomes
<1>4. RecordInv(i, q)
  BY <1>1, <1>3, CaughtRecord
<1>5. q.pc = "closing" /\ q.snapshot = Nothing
  BY <1>1, CaughtFields
<1>6. \A k \in Invocations \ {i} : q.snapshot.by # k
  BY <1>5, NobodysData
<1>7. QED BY <1>3, <1>4, <1>5, <1>6, ExecutionKept

LEMMA CreateVmKeeps ==
  ASSUME IInv, NEW i \in Invocations, CreateVm(i)
  PROVE  IInv'
<1>1. PICK r : r = inv[i]
  OBVIOUS
<1>2. /\ r.pc = "creating" /\ RecordInv(i, r) /\ r = [f \in Fields |-> r[f]]
      /\ r.limit \in {"none", "timeout", "output_overflow"}
  BY <1>1 DEF CreateVm, At, IInv, RecordInv, Shape
<1>3. CASE Becomes(i, Caught(r, "error"))
  BY <1>1, <1>2, <1>3, CaughtKept
<1>4. CASE Becomes(i, Caught([r EXCEPT !.vm = TRUE], "unsupported"))
  <2>1. PICK v : v = [r EXCEPT !.vm = TRUE]
    OBVIOUS
  <2>2. /\ v = [f \in Fields |-> v[f]] /\ v.limit = r.limit
        /\ \A f \in Fields \ {"vm"} : v[f] = r[f]
    BY <1>2, <2>1, FieldsKnown
  <2>3. Becomes(i, Caught(v, "unsupported"))
    BY <1>4, <2>1
  <2>4. QED BY <1>1, <1>2, <2>2, <2>3, CaughtKept
<1>5. CASE Becomes(i, [r EXCEPT !.vm = TRUE, !.pc = "starting"])
  <2>1. PICK q : q = [r EXCEPT !.vm = TRUE, !.pc = "starting"]
    OBVIOUS
  <2>2. /\ q = [f \in Fields |-> q[f]] /\ q.pc = "starting"
        /\ \A f \in Fields \ {"vm", "pc"} : q[f] = r[f]
    BY <1>2, <2>1, FieldsKnown
  <2>3. /\ q.denied = r.denied /\ q.attempted = r.attempted /\ q.observed = r.observed
        /\ q.snapshot = r.snapshot
    BY <2>2, FieldsKnown
  <2>4. EffectsKept(i, q)
    BY <1>2, <2>3 DEF RecordInv, EffectsKept
  <2>5. /\ q.snapshot \in Datum \cup {Nothing}
        /\ Writer(i) => q.snapshot \in Datum
    BY <1>2, <2>3 DEF RecordInv, Shape, Execution
  <2>6. RecordInv(i, q)
    BY <1>2, <2>2, <2>4, <2>5, InGuestRecord
  <2>7. Becomes(i, q)
    BY <1>5, <2>1
  <2>8. QED BY <1>1, <1>2, <2>2, <2>3, <2>6, <2>7, ExecutionKept
<1>6. QED BY <1>1, <1>3, <1>4, <1>5 DEF CreateVm

LEMMA StartVmKeeps ==
  ASSUME IInv, NEW i \in Invocations, StartVm(i)
  PROVE  IInv'
<1>1. PICK r : r = inv[i]
  OBVIOUS
<1>2. /\ r.pc = "starting" /\ RecordInv(i, r) /\ r = [f \in Fields |-> r[f]]
      /\ r.limit \in {"none", "timeout", "output_overflow"}
  BY <1>1 DEF StartVm, At, IInv, RecordInv, Shape
<1>3. ASSUME NEW p \in {"none", "alive", "dead"},
             Becomes(i, Caught([r EXCEPT !.runner = p], "error"))
      PROVE  IInv'
  <2>1. PICK v : v = [r EXCEPT !.runner = p]
    OBVIOUS
  <2>2. /\ v = [f \in Fields |-> v[f]] /\ v.limit = r.limit
        /\ \A f \in Fields \ {"runner"} : v[f] = r[f]
    BY <1>2, <2>1, FieldsKnown
  <2>3. Becomes(i, Caught(v, "error"))
    BY <1>3, <2>1
  <2>4. QED BY <1>1, <1>2, <2>2, <2>3, CaughtKept
<1>4. CASE Becomes(i, [r EXCEPT !.pc = "running", !.runner = "alive", !.dispatched = TRUE])
  <2>1. PICK q : q = [r EXCEPT !.pc = "running", !.runner = "alive", !.dispatched = TRUE]
    OBVIOUS
  <2>2. /\ q = [f \in Fields |-> q[f]] /\ q.pc = "running"
        /\ \A f \in Fields \ {"pc", "runner", "dispatched"} : q[f] = r[f]
    BY <1>2, <2>1, FieldsKnown
  <2>3. /\ q.denied = r.denied /\ q.attempted = r.attempted /\ q.observed = r.observed
        /\ q.snapshot = r.snapshot
    BY <2>2, FieldsKnown
  <2>4. EffectsKept(i, q)
    BY <1>2, <2>3 DEF RecordInv, EffectsKept
  <2>5. /\ q.snapshot \in Datum \cup {Nothing}
        /\ Writer(i) => q.snapshot \in Datum
    BY <1>2, <2>3 DEF RecordInv, Shape, Execution
  <2>6. RecordInv(i, q)
    BY <1>2, <2>2, <2>4, <2>5, InGuestRecord
  <2>7. Becomes(i, q)
    BY <1>4, <2>1
  <2>8. QED BY <1>1, <1>2, <2>2, <2>3, <2>6, <2>7, ExecutionKept
<1>5. QED BY <1>1, <1>3, <1>4 DEF StartVm

LEMMA VmDiesKeeps ==
  ASSUME IInv, NEW i \in Invocations, VmDies(i)
  PROVE  IInv'
<1>1. PICK r : r = inv[i]
  OBVIOUS
<1>2. /\ r.pc = "running" /\ RecordInv(i, r) /\ r = [f \in Fields |-> r[f]]
  BY <1>1 DEF VmDies, IInv, RecordInv, Shape
<1>3. PICK q : q = [r EXCEPT !.runner = "dead"]
  OBVIOUS
<1>4. /\ q = [f \in Fields |-> q[f]]
      /\ \A f \in Fields \ {"runner"} : q[f] = r[f]
  BY <1>2, <1>3, FieldsKnown
<1>5. /\ q.denied = r.denied /\ q.attempted = r.attempted /\ q.observed = r.observed
      /\ q.snapshot = r.snapshot /\ q.pc = "running"
  BY <1>2, <1>4, FieldsKnown
<1>6. EffectsKept(i, q)
  BY <1>2, <1>5 DEF RecordInv, EffectsKept
<1>7. /\ q.snapshot \in Datum \cup {Nothing}
      /\ Writer(i) => q.snapshot \in Datum
  BY <1>2, <1>5 DEF RecordInv, Shape, Execution
<1>8. RecordInv(i, q)
  BY <1>2, <1>4, <1>5, <1>6, <1>7, InGuestRecord
<1>9. Becomes(i, q)
  BY <1>1, <1>3 DEF VmDies
<1>10. QED BY <1>1, <1>2, <1>5, <1>8, <1>9, ExecutionKept

LEMMA GuestOpKeeps ==
  ASSUME IInv, NEW i \in Invocations, GuestOp(i)
  PROVE  IInv'
<1>1. PICK r : r = inv[i]
  OBVIOUS
<1>2. r.pc = "running" /\ RecordInv(i, r)
  BY <1>1 DEF GuestOp, At, IInv
<1>3. PICK g \in GuestOps : Becomes(i, AfterOp(i, r, g))
  <2>1. \E g \in GuestOps : Becomes(i, AfterOp(i, inv[i], g))
    BY DEF GuestOp, AfterOp
  <2>2. QED BY <1>1, <2>1
<1>4. PICK q : q = AfterOp(i, r, g)
  OBVIOUS
<1>5. Becomes(i, q)
  BY <1>3, <1>4
<1>6. /\ RecordInv(i, q) /\ q.pc = "running"
      /\ \A k \in Invocations \ {i} : q.snapshot.by = k => r.snapshot.by = k
  BY <1>2, <1>4, GuestOpRecord
<1>7. QED BY <1>1, <1>2, <1>5, <1>6, ExecutionKept

LEMMA ExecAnsweredKeeps ==
  ASSUME IInv, NEW i \in Invocations, ExecAnswered(i)
  PROVE  IInv'
<1>1. PICK r : r = inv[i]
  OBVIOUS
<1>2. r.pc = "running" /\ RecordInv(i, r) /\ r = [f \in Fields |-> r[f]]
  BY <1>1 DEF ExecAnswered, At, IInv, RecordInv, Shape
<1>3. PICK exit \in {"zero", "nonzero"}, descendantDenied \in BOOLEAN,
           late \in {"none", "timeout", "output_overflow"} :
        Becomes(i, [Over(r, IF r.denied # {} \/ descendantDenied THEN "policy_denied"
                            ELSE IF exit = "zero" THEN "success"
                            ELSE "command_failed") EXCEPT !.exit = exit, !.limit = late])
  BY <1>1 DEF ExecAnswered, Limits
<1>4. PICK outcome : outcome = IF r.denied # {} \/ descendantDenied THEN "policy_denied"
                               ELSE IF exit = "zero" THEN "success" ELSE "command_failed"
  OBVIOUS
<1>5. PICK v : v = Over(r, outcome)
  OBVIOUS
<1>6. PICK q : q = [v EXCEPT !.exit = exit, !.limit = late]
  OBVIOUS
<1>7. Becomes(i, q)
  BY <1>3, <1>4, <1>5, <1>6
<1>8. RecordInv(i, q)
  BY <1>2, <1>4, <1>5, <1>6, AnsweredRecord
<1>9. q.pc = "closing" /\ q.snapshot \in {r.snapshot, Nothing}
  <2>1. /\ v = [f \in Fields |-> v[f]] /\ v.pc = "closing"
        /\ v.snapshot \in {r.snapshot, Nothing}
    BY <1>2, <1>5, FieldsKnown DEF Over
  <2>2. QED BY <1>6, <2>1, FieldsKnown
<1>10. \A k \in Invocations \ {i} : q.snapshot.by = k => r.snapshot.by = k
  BY <1>9, NobodysData
<1>11. QED BY <1>1, <1>2, <1>7, <1>8, <1>9, <1>10, ExecutionKept

LEMMA LimitHitKeeps ==
  ASSUME IInv, NEW i \in Invocations, LimitHit(i)
  PROVE  IInv'
<1>1. PICK r : r = inv[i]
  OBVIOUS
<1>2. r.pc = "running" /\ r = [f \in Fields |-> r[f]]
  BY <1>1 DEF LimitHit, At, IInv, RecordInv, Shape
<1>3. PICK limit \in {"timeout", "output_overflow"} :
        Becomes(i, Caught([r EXCEPT !.limit = limit], "error"))
  BY <1>1 DEF LimitHit, Limits
<1>4. PICK v : v = [r EXCEPT !.limit = limit]
  OBVIOUS
<1>5. /\ v = [f \in Fields |-> v[f]] /\ v.limit = limit
      /\ \A f \in Fields \ {"limit"} : v[f] = r[f]
  BY <1>2, <1>4, FieldsKnown
<1>6. Becomes(i, Caught(v, "error"))
  BY <1>3, <1>4
<1>7. QED BY <1>1, <1>2, <1>5, <1>6, CaughtKept

LEMMA ExecRejectedKeeps ==
  ASSUME IInv, NEW i \in Invocations, ExecRejected(i)
  PROVE  IInv'
<1>1. PICK r : r = inv[i]
  OBVIOUS
<1>2. /\ r.pc = "running" /\ r = [f \in Fields |-> r[f]]
      /\ r.limit \in {"none", "timeout", "output_overflow"}
  BY <1>1 DEF ExecRejected, At, IInv, RecordInv, Shape
<1>3. PICK cause \in {"policy_unavailable", "error"} : Becomes(i, Caught(r, cause))
  BY <1>1 DEF ExecRejected
<1>4. QED BY <1>1, <1>2, <1>3, CaughtKept

\* A settlement goes on.
LEMMA SettlementKept ==
  ASSUME IInv, NEW i \in Invocations, NEW q, Becomes(i, q), RecordInv(i, q),
         q.pc \in Settlement, inv[i].pc \in Succeeded, LoopFree \/ Settling(i),
         TargetKept(q, host),
         inv[i].pc \in {"verify", "cleanup"} => q.pc = "cleanup",
         q.snapshot = inv[i].snapshot
  PROVE  IInv'
<1>1. /\ q.pc # "idle" /\ q.pc \in InProgress /\ inv[i].pc \in InProgress
      /\ q.pc \notin {"sealed", "returned"}
  BY DEF Settlement, Succeeded, InProgress
<1>2. Published(i) => q.pc \in ShownPcs
  BY DEF Published, ShownPcs, Succeeded, Settlement
<1>3. ~Doubted(q)
  BY <1>1 DEF Doubted
<1>4. /\ inv' = [inv EXCEPT ![i] = q] /\ setup' = setup /\ host' = host /\ pins' = pins
  BY DEF Becomes
<1>5. QED BY <1>1, <1>2, <1>3, <1>4, LocalKept

\* The result is sealed.
LEMMA ReturnKept ==
  ASSUME IInv, NEW i \in Invocations, NEW q, Return(i, q), host' = host, RecordInv(i, q),
         q.pc = "sealed", inv[i].pc \in InProgress, LoopFree \/ Settling(i),
         \A k \in Invocations \ {i} : q.snapshot.by = k => inv[i].snapshot.by = k,
         Doubted(q) => ~RestoresPin(q)
  PROVE  IInv'
<1>1. /\ inv' = [inv EXCEPT ![i] = q] /\ setup' = setup
      /\ pins' = IF Writer(i) /\ RestoresPin(q)
                 THEN [pins EXCEPT ![ContextOf(i)] = q.next] ELSE pins
  BY DEF Return
<1>2. /\ q.pc \in ShownPcs /\ q.pc # "idle" /\ q.pc \notin InProgress
      /\ TargetKept(q, host')
  BY DEF ShownPcs, InProgress, Succeeded, Settlement, TargetKept
<1>3. (\A j \in Invocations : RecordInv(j, inv[j]))'
  BY <1>1, RecordsKept
<1>4. OneSettles' /\ Untouched'
  BY <1>1, <1>2, SettlingKept
<1>5. NothingLost'
  BY <1>1, <1>2, NothingIsLost
<1>6. Authorship'
  BY <1>1, <1>2, AuthorsKept
<1>7. Holders'
  BY <1>1, <1>2, HoldersReturned
<1>8. Maps'
  <2>1. pins' = [c \in Contexts |-> pins'[c]]
    BY <1>1 DEF IInv, Maps
  <2>2. QED BY <1>1, <2>1, OthersStay DEF IInv, Maps
<1>9. HostThere'
  BY DEF IInv, HostThere
<1>10. QED BY <1>3, <1>4, <1>5, <1>6, <1>7, <1>8, <1>9 DEF IInv

\* An exception in the settlement.
LEMMA FailsKept ==
  ASSUME IInv, NEW i \in Invocations, inv[i].pc \in Settlement \ {"cleanup"},
         NEW ambiguous \in BOOLEAN, Becomes(i, Fails(inv[i], ambiguous))
  PROVE  IInv'
<1>1. PICK r : r = inv[i]
  OBVIOUS
<1>2. PICK q : q = Fails(r, ambiguous)
  OBVIOUS
<1>3. Becomes(i, q)
  BY <1>1, <1>2
<1>4. /\ RecordInv(i, r) /\ r.pc \in Settlement \ {"cleanup"} /\ r = [f \in Fields |-> r[f]]
      /\ r.pc \in Succeeded /\ Settling(i)
      /\ r.replaced # Unpublished => Authorized(r) /\ (r.replaced = r.initial \/ r.raced)
  BY <1>1 DEF IInv, RecordInv, Shape, Replaced, Settlement, Succeeded, Settling
<1>5. RecordInv(i, q)
  BY <1>2, <1>4, FailsRecord
<1>6. q.pc = "cleanup" /\ q.snapshot = r.snapshot
  BY <1>2, <1>4, FieldsKnown DEF Fails
<1>7. QED BY <1>1, <1>3, <1>4, <1>5, <1>6, SettlementKept DEF Settlement, TargetKept

LEMMA PrepareKeeps ==
  ASSUME IInv, NEW i \in Invocations, Prepare(i)
  PROVE  IInv'
<1>1. PICK r : r = inv[i]
  OBVIOUS
<1>2. /\ r.pc = "prepare" /\ RecordInv(i, r) /\ r = [f \in Fields |-> r[f]]
      /\ r.pc \in Succeeded /\ r.pc \in Settlement \ {"cleanup"} /\ Settling(i)
  BY <1>1 DEF Prepare, IInv, RecordInv, Shape, Settlement, Succeeded, Settling
<1>3. ASSUME NEW ambiguous \in BOOLEAN, Becomes(i, Fails(r, ambiguous)) PROVE IInv'
  BY <1>1, <1>2, <1>3, FailsKept
<1>4. ASSUME NEW ino \in FreeInodes, Authorized(r),
             Becomes(i, [r EXCEPT !.pc = "compare", !.staged = ino,
                                  !.publication.phase = "prepared"])
      PROVE  IInv'
  <2>1. ino # 0
    <3>1. ino \in 1 .. MaxInode /\ MaxInode \in Nat
      BY InvocationAssumption DEF FreeInodes
    <3>2. QED BY <3>1
  <2>2. PICK q : q = [r EXCEPT !.pc = "compare", !.staged = ino,
                               !.publication.phase = "prepared"]
    OBVIOUS
  <2>3. Becomes(i, q)
    BY <1>4, <2>2
  <2>4. RecordInv(i, q)
    BY <1>2, <1>4, <2>1, <2>2, PreparedRecord
  <2>5. q.pc = "compare" /\ q.snapshot = r.snapshot
    BY <1>2, <2>2, FieldsKnown
  <2>6. QED BY <1>1, <1>2, <2>3, <2>4, <2>5, SettlementKept DEF Settlement, TargetKept
<1>5. QED BY <1>1, <1>3, <1>4 DEF Prepare, IoError

\* The settlement goes on with what is open.
LEMMA ComparedKept ==
  ASSUME IInv, NEW i \in Invocations, inv[i].pc \in {"compare", "reread"},
         NEW at \in {"reread", "publish"}, Becomes(i, [inv[i] EXCEPT !.pc = at]),
         at = "reread" => host.ino = inv[i].pin.ino,
         at = "publish" => inv[i].pin.ino = 0 \/ host.data = inv[i].initial \/ inv[i].raced
  PROVE  IInv'
<1>1. PICK r : r = inv[i]
  OBVIOUS
<1>2. /\ RecordInv(i, r) /\ r = [f \in Fields |-> r[f]] /\ r.pc \in {"compare", "reread"}
      /\ r.pc \in Succeeded /\ Settling(i)
  BY <1>1 DEF IInv, RecordInv, Shape, Settlement, Succeeded, Settling
<1>3. PICK q : q = [r EXCEPT !.pc = at]
  OBVIOUS
<1>4. Becomes(i, q)
  BY <1>1, <1>3
<1>5. RecordInv(i, q)
  BY <1>2, <1>3, ComparedRecord
<1>6. /\ q.pc = at /\ q.snapshot = r.snapshot /\ q.pin = r.pin /\ q.initial = r.initial
      /\ q.raced = r.raced
  BY <1>2, <1>3, FieldsKnown
<1>7. TargetKept(q, host)
  BY <1>1, <1>6 DEF TargetKept
<1>8. QED BY <1>1, <1>2, <1>4, <1>5, <1>6, <1>7, SettlementKept DEF Settlement

LEMMA OpenTargetKeeps ==
  ASSUME IInv, NEW i \in Invocations, OpenTarget(i)
  PROVE  IInv'
<1>1. inv[i].pc = "compare" /\ inv[i].pc \in Settlement \ {"cleanup"}
  BY DEF OpenTarget, Settlement
<1>2. (host.ino = 0) \in BOOLEAN
  OBVIOUS
<1>3. ASSUME NEW ambiguous \in BOOLEAN, Becomes(i, Fails(inv[i], ambiguous)) PROVE IInv'
  BY <1>1, <1>3, FailsKept
<1>4. ASSUME NEW at \in {"reread", "publish"}, Becomes(i, [inv[i] EXCEPT !.pc = at]),
             at = "reread" => host.ino = inv[i].pin.ino,
             at = "publish" => inv[i].pin.ino = 0
      PROVE  IInv'
  BY <1>1, <1>4, ComparedKept
<1>5. QED BY <1>2, <1>3, <1>4 DEF OpenTarget, IoError

LEMMA CompareKeeps ==
  ASSUME IInv, NEW i \in Invocations, Compare(i)
  PROVE  IInv'
<1>1. inv[i].pc = "reread" /\ inv[i].pc \in Settlement \ {"cleanup"}
  BY DEF Compare, Settlement
<1>2. ASSUME NEW ambiguous \in BOOLEAN, Becomes(i, Fails(inv[i], ambiguous)) PROVE IInv'
  BY <1>1, <1>2, FailsKept
<1>3. ASSUME ~Changed(inv[i]), Becomes(i, [inv[i] EXCEPT !.pc = "publish"]) PROVE IInv'
  <2>1. host.ino = inv[i].pin.ino \/ inv[i].raced
    BY <1>1 DEF IInv, NothingLost, TargetKept
  <2>2. host.data = inv[i].initial \/ inv[i].raced
    BY <1>3, <2>1 DEF Changed
  <2>3. QED BY <1>1, <1>3, <2>2, ComparedKept
<1>4. QED BY <1>2, <1>3 DEF Compare, IoError

LEMMA VerifyKeeps ==
  ASSUME IInv, NEW i \in Invocations, Verify(i)
  PROVE  IInv'
<1>1. PICK r : r = inv[i]
  OBVIOUS
<1>2. /\ r.pc = "verify" /\ RecordInv(i, r) /\ r = [f \in Fields |-> r[f]]
      /\ r.pc \in Succeeded /\ r.pc \in Settlement \ {"cleanup"} /\ Settling(i)
  BY <1>1 DEF Verify, IInv, RecordInv, Shape, Settlement, Succeeded, Settling
<1>3. ASSUME NEW ambiguous \in BOOLEAN, Becomes(i, Fails(r, ambiguous)) PROVE IInv'
  BY <1>1, <1>2, <1>3, FailsKept
<1>4. ASSUME NEW pin,
             Becomes(i, [r EXCEPT !.pc = "cleanup", !.publication.check = "verified",
                                  !.publication.phase = "verified", !.output = "prepared",
                                  !.next = pin])
      PROVE  IInv'
  <2>1. PICK q : q = [r EXCEPT !.pc = "cleanup", !.publication.check = "verified",
                               !.publication.phase = "verified", !.output = "prepared",
                               !.next = pin]
    OBVIOUS
  <2>2. Becomes(i, q)
    BY <1>4, <2>1
  <2>3. RecordInv(i, q)
    BY <1>2, <2>1, VerifiedRecord
  <2>4. q.pc = "cleanup" /\ q.snapshot = r.snapshot
    BY <1>2, <2>1, FieldsKnown
  <2>5. QED BY <1>1, <1>2, <2>2, <2>3, <2>4, SettlementKept DEF Settlement, TargetKept
<1>5. QED BY <1>1, <1>3, <1>4 DEF Verify, IoError

\* The file is replaced.
LEMMA ReplacedKept ==
  ASSUME IInv, NEW i \in Invocations, NEW q, inv[i].pc = "publish",
         inv' = [inv EXCEPT ![i] = q], setup' = setup, pins' = pins,
         host' = [ino |-> inv[i].staged, links |-> 1, data |-> inv[i].snapshot],
         RecordInv(i, q), q.pc \in {"verify", "cleanup"}, q.snapshot = inv[i].snapshot
  PROVE  IInv'
<1>1. /\ q.pc # "idle" /\ TargetKept(q, host') /\ q.pc \in ShownPcs /\ Settling(i)
      /\ q.pc \in InProgress /\ inv[i].pc \in InProgress /\ q.pc \notin {"sealed", "returned"}
  BY DEF Settlement, Succeeded, InProgress, ShownPcs, Settling, TargetKept
<1>2. ~Doubted(q)
  BY <1>1 DEF Doubted
<1>3. (\A j \in Invocations : RecordInv(j, inv[j]))'
  BY RecordsKept
<1>4. OneSettles' /\ Untouched'
  BY <1>1, SettlingKept
<1>5. NothingLost'
  BY <1>1, NothingIsLost
<1>6. Authorship'
  BY <1>1, AuthorsKept
<1>7. Holders'
  BY <1>1, <1>2, HoldersKept
<1>8. Maps'
  BY OthersStay DEF IInv, Maps
<1>9. HostThere'
  <2>1. RecordInv(i, inv[i])
    BY DEF IInv
  <2>2. inv[i].staged # 0 /\ inv[i].snapshot \in Datum
    BY <2>1 DEF RecordInv, Settled, Execution, Succeeded, Settlement, Cleared
  <2>3. QED BY <2>2 DEF HostThere
<1>10. QED BY <1>3, <1>4, <1>5, <1>6, <1>7, <1>8, <1>9 DEF IInv

LEMMA PublishKeeps ==
  ASSUME IInv, NEW i \in Invocations, Publish(i)
  PROVE  IInv'
<1>1. PICK r : r = inv[i]
  OBVIOUS
<1>2. PICK data : data = host.data
  OBVIOUS
<1>3. /\ UNCHANGED <<setup, parent, external, pins, usedIds, identity>>
      /\ \/ inv' = [inv EXCEPT ![i] = Fails(Publishing(r), FALSE)] /\ host' = host
         \/ /\ r.pin.ino = 0 => host.ino = 0
            /\ host' = [ino |-> Publishing(r).staged, links |-> 1,
                        data |-> Publishing(r).snapshot]
            /\ \E next \in {[Announced(r, data) EXCEPT !.pc = "verify"],
                            Fails(Announced(r, data), FALSE), Fails(Shown(r, data), FALSE)} :
                 inv' = [inv EXCEPT ![i] = next]
  <2>1. /\ UNCHANGED <<setup, parent, external, pins, usedIds, identity>>
        /\ \/ /\ inv' = [inv EXCEPT ![i] = Fails(Publishing(inv[i]), FALSE)]
              /\ UNCHANGED host
           \/ /\ inv[i].pin.ino = 0 => host.ino = 0
              /\ host' = [ino |-> Publishing(inv[i]).staged, links |-> 1,
                          data |-> Publishing(inv[i]).snapshot]
              /\ \E next \in {[Announced(inv[i], host.data) EXCEPT !.pc = "verify"],
                              Fails(Announced(inv[i], host.data), FALSE),
                              Fails(Shown(inv[i], host.data), FALSE)} :
                   inv' = [inv EXCEPT ![i] = next]
    <3> DEFINE r1 == Publishing(inv[i])
    <3>1. r1.pin = inv[i].pin
      <4>1. inv[i] = [f \in Fields |-> inv[i][f]]
        BY DEF IInv, RecordInv, Shape
      <4>2. QED BY <4>1, FieldsKnown DEF Publishing
    <3>2. QED BY <3>1 DEF Publish, Publishing, Shown, Announced
  <2>2. QED BY <1>1, <1>2, <2>1
<1>4. /\ r.pc = "publish" /\ RecordInv(i, r) /\ r = [f \in Fields |-> r[f]]
      /\ r.pc \in Succeeded /\ r.pc \in Settlement \ {"cleanup"} /\ Settling(i)
      /\ r.publication = Note("not_published", "prepared", "unknown")
  BY <1>1 DEF Publish, IInv, RecordInv, Shape, Settled, Note, Settlement, Succeeded, Settling
<1>5. \A q \in {Publishing(r), Shown(r, data), Announced(r, data)} :
        /\ q = [f \in Fields |-> q[f]]
        /\ \A f \in Fields \ {"publication", "replaced"} : q[f] = r[f]
  BY <1>4, PublishFields
<1>6. \A q \in {Publishing(r), Shown(r, data), Announced(r, data)} :
        Fails(q, FALSE).pc = "cleanup" /\ Fails(q, FALSE).snapshot = r.snapshot
  BY <1>5, FieldsKnown DEF Fails
<1>7. CASE inv' = [inv EXCEPT ![i] = Fails(Publishing(r), FALSE)] /\ host' = host
  <2>1. PICK q : q = Fails(Publishing(r), FALSE)
    OBVIOUS
  <2>2. Becomes(i, q)
    BY <1>3, <1>7, <2>1 DEF Becomes
  <2>3. RecordInv(i, q)
    BY <1>4, <2>1, PublishedRecord
  <2>4. q.pc = "cleanup" /\ q.snapshot = r.snapshot
    BY <1>6, <2>1
  <2>5. QED BY <1>1, <1>4, <2>2, <2>3, <2>4, SettlementKept DEF Settlement, TargetKept
<1>8. ASSUME r.pin.ino = 0 => host.ino = 0,
             host' = [ino |-> Publishing(r).staged, links |-> 1,
                      data |-> Publishing(r).snapshot],
             NEW next \in {[Announced(r, data) EXCEPT !.pc = "verify"],
                           Fails(Announced(r, data), FALSE), Fails(Shown(r, data), FALSE)},
             inv' = [inv EXCEPT ![i] = next]
      PROVE  IInv'
  <2>1. data = r.initial \/ r.raced
    <3>1. r.pin.ino = 0 \/ host.data = r.initial \/ r.raced
      BY <1>1, <1>4 DEF IInv, NothingLost, TargetKept
    <3>2. r.pin.ino = 0 => r.initial = Nothing
      BY <1>4 DEF RecordInv, Execution, InProgress
    <3>3. host.ino = 0 => host.data = Nothing
      BY DEF IInv, HostThere
    <3>4. QED BY <1>2, <1>8, <3>1, <3>2, <3>3
  <2>2. PICK q : q = next
    OBVIOUS
  <2>3. RecordInv(i, q)
    <3>1. /\ RecordInv(i, Fails(Shown(r, data), FALSE))
          /\ RecordInv(i, Fails(Announced(r, data), FALSE))
          /\ RecordInv(i, [Announced(r, data) EXCEPT !.pc = "verify"])
      BY <1>4, <2>1, PublishedRecord
    <3>2. QED BY <2>2, <3>1
  <2>4. q.pc \in {"verify", "cleanup"} /\ q.snapshot = r.snapshot
    <3> DEFINE c == Announced(r, data)
               v == [c EXCEPT !.pc = "verify"]
    <3>1. c = [f \in Fields |-> c[f]] /\ c.snapshot = r.snapshot
      BY <1>5, FieldsKnown
    <3> HIDE DEF c
    <3>2. v.pc = "verify" /\ v.snapshot = r.snapshot
      BY <3>1, FieldsKnown
    <3>3. QED BY <1>6, <2>2, <3>2 DEF c
  <2>5. Publishing(r).staged = r.staged /\ Publishing(r).snapshot = r.snapshot
    BY <1>5, FieldsKnown
  <2>6. host' = [ino |-> inv[i].staged, links |-> 1, data |-> inv[i].snapshot]
    BY <1>1, <1>8, <2>5
  <2>7. QED BY <1>1, <1>3, <1>4, <1>8, <2>2, <2>3, <2>4, <2>6, ReplacedKept
<1>9. QED BY <1>3, <1>7, <1>8

LEMMA CleanupKeeps ==
  ASSUME IInv, NEW i \in Invocations, Cleanup(i)
  PROVE  IInv'
<1>1. PICK r : r = inv[i]
  OBVIOUS
<1>2. /\ r.pc = "cleanup" /\ RecordInv(i, r) /\ r.pc \in InProgress /\ Settling(i)
      /\ host' = host
  BY <1>1 DEF Cleanup, IInv, InProgress, Succeeded, Settlement, Settling
<1>3. PICK fails \in BOOLEAN :
        LET c == Cleaned(r, IF fails THEN "failed"
                            ELSE IF r.ambiguous THEN "unknown" ELSE "verified")
        IN  Return(i, Sealed(IF fails \/ r.failed THEN CommitFailed(c) ELSE c))
  <2>1. \E fails \in BOOLEAN :
          LET c == Cleaned(inv[i], IF fails THEN "failed"
                                   ELSE IF inv[i].ambiguous THEN "unknown" ELSE "verified")
          IN  Return(i, Sealed(IF fails \/ inv[i].failed THEN CommitFailed(c) ELSE c))
    BY DEF Cleanup, Cleaned
  <2>2. QED BY <1>1, <2>1
<1>4. PICK c : c = Cleaned(r, IF fails THEN "failed"
                              ELSE IF r.ambiguous THEN "unknown" ELSE "verified")
  OBVIOUS
<1>5. PICK q : q = Sealed(IF fails \/ r.failed THEN CommitFailed(c) ELSE c)
  OBVIOUS
<1>6. Return(i, q)
  BY <1>3, <1>4, <1>5
<1>7. /\ RecordInv(i, q) /\ q.pc = "sealed" /\ q.torn = TRUE /\ q.snapshot = r.snapshot
      /\ q.publication.state = "indeterminate" \/ q.publication.check = "failed"
         \/ q.publication.cleanup # "verified" => ~RestoresPin(q)
  BY <1>2, <1>4, <1>5, CleanedRecord
<1>8. Doubted(q) => ~RestoresPin(q)
  BY <1>7 DEF Doubted
<1>9. QED BY <1>1, <1>2, <1>6, <1>7, <1>8, ReturnKept

\* What a result without a publication says.
LEMMA SealedUnpublished ==
  ASSUME NEW d, d = [f \in Fields |-> d[f]], d.publication = NoPublication
  PROVE  /\ Sealed(d).pc = "sealed" /\ Sealed(d).snapshot = d.snapshot
         /\ Sealed(d).next = d.next
         /\ Doubted(Sealed(d)) => ~RestoresPin(Sealed(d))
<1> DEFINE q == Sealed(d)
           all == d.torn /\ d.publication.cleanup = "verified"
<1>1. /\ q = [f \in Fields |-> q[f]] /\ q.pc = "sealed" /\ q.ephemeral = all
      /\ \A f \in Fields \ {"pc", "ephemeral", "outcome"} : q[f] = d[f]
  BY FieldsKnown DEF Sealed
<1> HIDE DEF q
<1>2. /\ q.snapshot = d.snapshot /\ q.next = d.next /\ q.torn = d.torn
      /\ q.publication = NoPublication
  BY <1>1, FieldsKnown
<1>3. Doubted(q) => ~RestoresPin(q)
  <2>1. Doubted(q) => ~d.torn
    BY <1>2 DEF Doubted, NoPublication
  <2>2. ~d.torn => q.ephemeral = FALSE
    BY <1>1
  <2>3. QED BY <2>1, <2>2 DEF RestoresPin
<1>4. QED BY <1>1, <1>2, <1>3 DEF q

LEMMA ReadSnapshotKeeps ==
  ASSUME IInv, NEW i \in Invocations, ReadSnapshot(i)
  PROVE  IInv'
<1>1. PICK r : r = inv[i]
  OBVIOUS
<1>2. /\ r.pc = "reading" /\ RecordInv(i, r) /\ r.pc \in InProgress /\ r.pc \in Succeeded
      /\ LoopFree /\ r = [f \in Fields |-> r[f]] /\ r.publication = NoPublication
  BY <1>1 DEF ReadSnapshot, At, IInv, InProgress, Succeeded, RecordInv, Shape, Settled,
              Unsettled, NoPublication
<1>3. ASSUME Return(i, Sealed(CommitFailed(r))), host' = host PROVE IInv'
  <2>1. PICK d : d = CommitFailed(r)
    OBVIOUS
  <2>2. /\ d = [f \in Fields |-> d[f]] /\ d.publication = NoPublication
        /\ d.snapshot = r.snapshot
    BY <1>2, <2>1, FieldsKnown DEF CommitFailed
  <2>3. PICK q : q = Sealed(d)
    OBVIOUS
  <2>4. Return(i, q) /\ RecordInv(i, q)
    BY <1>2, <1>3, <2>1, <2>3, ReadRecord
  <2>5. /\ q.pc = "sealed" /\ q.snapshot = r.snapshot
        /\ Doubted(q) => ~RestoresPin(q)
    BY <2>2, <2>3, SealedUnpublished
  <2>6. QED BY <1>1, <1>2, <1>3, <2>4, <2>5, ReturnKept
<1>4. ASSUME Becomes(i, [r EXCEPT !.pc = "prepare", !.publication.phase = "preparing"])
      PROVE  IInv'
  <2>1. PICK q : q = [r EXCEPT !.pc = "prepare", !.publication.phase = "preparing"]
    OBVIOUS
  <2>2. Becomes(i, q) /\ RecordInv(i, q)
    BY <1>2, <1>4, <2>1, ReadRecord
  <2>3. q.pc = "prepare" /\ q.snapshot = r.snapshot
    BY <1>2, <2>1, FieldsKnown
  <2>4. QED BY <1>1, <1>2, <2>2, <2>3, SettlementKept DEF Settlement, TargetKept
<1>5. QED BY <1>1, <1>3, <1>4 DEF ReadSnapshot

LEMMA DeliverKeeps ==
  ASSUME IInv, NEW i \in Invocations, Deliver(i)
  PROVE  IInv'
<1>1. PICK r : r = inv[i]
  OBVIOUS
<1>2. PICK q : q = [Unused EXCEPT !.pc = "returned", !.torn = r.torn,
                                  !.publication = r.publication]
  OBVIOUS
<1>3. r.pc = "sealed" /\ RecordInv(i, r) /\ Becomes(i, q)
  BY <1>1, <1>2 DEF Deliver, IInv
<1>4. /\ RecordInv(i, q) /\ q.pc = "returned" /\ q.torn = r.torn
      /\ q.publication = r.publication /\ q.snapshot = Nothing
  BY <1>2, <1>3, DeliveredRecord
<1>5. Doubted(q) => Doubted(r)
  BY <1>3, <1>4 DEF Doubted
<1>6. q.pc \notin Settlement \cup {"sealed"} /\ q.pc \notin InProgress /\ q.pc \in ShownPcs
  BY <1>4 DEF Settlement, InProgress, Succeeded, ShownPcs
<1>7. \A k \in Invocations : q.snapshot.by # k
  BY <1>4, NobodysData
<1>8. /\ inv' = [inv EXCEPT ![i] = q] /\ setup' = setup /\ host' = host /\ pins' = pins
  BY <1>3 DEF Becomes
<1>9. QED BY <1>1, <1>4, <1>5, <1>6, <1>7, <1>8, LocalKept DEF TargetKept

LEMMA CloseVmKeeps ==
  ASSUME IInv, NEW i \in Invocations, CloseVm(i)
  PROVE  IInv'
<1>1. PICK r : r = inv[i]
  OBVIOUS
<1>2. /\ r.pc = "closing" /\ RecordInv(i, r) /\ r = [f \in Fields |-> r[f]] /\ LoopFree
      /\ r.pc \in InProgress
  BY <1>1 DEF CloseVm, At, IInv, RecordInv, Shape, InProgress
<1>3. PICK closeError \in IF inv[i].vm THEN BOOLEAN ELSE {FALSE},
           runner \in IF inv[i].vm /\ inv[i].runner = "alive" THEN {"alive", "dead"}
                      ELSE {inv[i].runner} :
        LET d == Closed(i, inv[i], runner, inv[i].vm /\ ~closeError /\ runner # "alive")
        IN  IF d.admission /\ d.torn
            THEN /\ inv' = [inv EXCEPT ![i] = [Unused EXCEPT !.pc = "thrown"]]
                 /\ identity' = [identity EXCEPT ![i] = "revoked"]
                 /\ UNCHANGED <<setup, host, parent, external, pins, usedIds>>
            ELSE IF Writer(i) /\ Publishes(d) THEN Becomes(i, [d EXCEPT !.pc = "reading"])
            ELSE Return(i, Sealed(d)) /\ UNCHANGED host
  BY DEF CloseVm, Closed
<1>4. PICK torn : torn = (inv[i].vm /\ ~closeError /\ runner # "alive")
  OBVIOUS
<1>5. torn \in BOOLEAN /\ (torn => runner # "alive")
  BY <1>4
<1>6. PICK d : d = Closed(i, r, runner, torn)
  OBVIOUS
<1>8. \/ /\ inv' = [inv EXCEPT ![i] = [Unused EXCEPT !.pc = "thrown"]]
         /\ UNCHANGED <<setup, host, parent, external, pins, usedIds>>
      \/ Writer(i) /\ Publishes(d) /\ Becomes(i, [d EXCEPT !.pc = "reading"])
      \/ ~(Writer(i) /\ Publishes(d)) /\ Return(i, Sealed(d)) /\ UNCHANGED host
  BY <1>1, <1>3, <1>4, <1>6
<1>9. /\ d = [f \in Fields |-> d[f]] /\ d.runner = runner /\ d.torn = torn
      /\ d.outcome = IF Writer(i) /\ ~r.admission /\ r.limit # "none"
                     THEN r.limit ELSE r.outcome
      /\ \A f \in Fields \ {"runner", "torn", "outcome"} : d[f] = r[f]
  <2>1. LET e == Closed(i, r, runner, torn)
        IN  /\ e = [f \in Fields |-> e[f]] /\ e.runner = runner /\ e.torn = torn
            /\ e.outcome = IF Writer(i) /\ ~r.admission /\ r.limit # "none"
                           THEN r.limit ELSE r.outcome
            /\ \A f \in Fields \ {"runner", "torn", "outcome"} : e[f] = r[f]
    BY <1>2, ClosedFields
  <2>2. QED BY <1>6, <2>1
<1>10. /\ Writer(i) /\ Publishes(d) => RecordInv(i, [d EXCEPT !.pc = "reading"])
       /\ ~(Writer(i) /\ Publishes(d)) => RecordInv(i, Sealed(d))
  BY <1>2, <1>5, <1>9, ClosedRecord
<1>11. d.snapshot = r.snapshot /\ d.publication = NoPublication
  BY <1>2, <1>9, FieldsKnown DEF RecordInv, Settled, Unsettled, NoPublication
<1>12. CASE /\ inv' = [inv EXCEPT ![i] = [Unused EXCEPT !.pc = "thrown"]]
            /\ UNCHANGED <<setup, host, parent, external, pins, usedIds>>
  <2>1. PICK q : q = [Unused EXCEPT !.pc = "thrown"]
    OBVIOUS
  <2>2. RecordInv(i, q) /\ q.pc = "thrown" /\ q.snapshot = Nothing
    BY <2>1, UnusedRecord
  <2>3. /\ q.pc \notin Settlement \cup {"sealed"} /\ q.pc \notin InProgress /\ ~Doubted(q)
        /\ ~Published(i)
    BY <1>1, <1>2, <2>2 DEF Settlement, InProgress, Succeeded, Doubted, Published
  <2>4. \A k \in Invocations : q.snapshot.by # k
    BY <2>2, NobodysData
  <2>5. QED BY <1>12, <2>1, <2>2, <2>3, <2>4, LocalKept DEF TargetKept
<1>13. CASE Writer(i) /\ Publishes(d) /\ Becomes(i, [d EXCEPT !.pc = "reading"])
  <2>1. PICK q : q = [d EXCEPT !.pc = "reading"]
    OBVIOUS
  <2>2. RecordInv(i, q) /\ Becomes(i, q)
    BY <1>10, <1>13, <2>1
  <2>3. q.pc = "reading" /\ q.snapshot = r.snapshot
    BY <1>9, <1>11, <2>1, FieldsKnown
  <2>4. /\ q.pc \notin Settlement \cup {"sealed"} /\ ~Doubted(q) /\ ~Published(i)
    BY <1>1, <1>2, <2>3 DEF Settlement, Doubted, Published
  <2>5. /\ inv' = [inv EXCEPT ![i] = q] /\ setup' = setup /\ host' = host /\ pins' = pins
    BY <2>2 DEF Becomes
  <2>6. QED BY <1>1, <1>2, <2>2, <2>3, <2>4, <2>5, LocalKept DEF TargetKept
<1>14. CASE ~(Writer(i) /\ Publishes(d)) /\ Return(i, Sealed(d)) /\ UNCHANGED host
  <2>1. PICK q : q = Sealed(d)
    OBVIOUS
  <2>2. RecordInv(i, q) /\ Return(i, q)
    BY <1>10, <1>14, <2>1
  <2>3. /\ q.pc = "sealed" /\ q.snapshot = r.snapshot
        /\ Doubted(q) => ~RestoresPin(q)
    BY <1>9, <1>11, <2>1, SealedUnpublished
  <2>4. QED BY <1>1, <1>2, <1>14, <2>2, <2>3, ReturnKept
<1>15. QED BY <1>8, <1>12, <1>13, <1>14

LEMMA InvokeKeeps ==
  ASSUME IInv, NEW i \in Invocations, Invoke(i)
  PROVE  IInv'
<1>1. inv[i].pc = "idle" /\ inv[i] = Unused /\ LoopFree /\ ~Published(i)
  BY DEF Invoke, IInv, Untouched, Published
<1>2. PICK pin : pin = pins[ContextOf(i)]
  OBVIOUS
<1>3. PICK data : data = host.data
  OBVIOUS
<1>4. UNCHANGED <<setup, host>>
  BY DEF Invoke
<1>5. CASE inv' = [inv EXCEPT ![i].pc = "refused"] /\ pins' = pins
  <2>1. PICK q : q = [Unused EXCEPT !.pc = "refused"]
    OBVIOUS
  <2>2. RecordInv(i, q) /\ q.pc = "refused" /\ q.snapshot = Nothing
    BY <2>1, UnusedRecord
  <2>3. /\ q.pc \notin Settlement \cup {"sealed"} /\ q.pc \notin InProgress /\ ~Doubted(q)
    BY <2>2 DEF Settlement, InProgress, Succeeded, Doubted
  <2>4. \A k \in Invocations : q.snapshot.by # k
    BY <2>2, NobodysData
  <2>5. inv' = [inv EXCEPT ![i] = q]
    BY <1>1, <1>5, <2>1
  <2>6. QED BY <1>1, <1>4, <1>5, <2>2, <2>3, <2>4, <2>5, LocalKept DEF TargetKept
<1>6. ASSUME Admitted(i),
             pins' = IF Reserves(i) THEN [pins EXCEPT ![ContextOf(i)] = NoPin] ELSE pins,
             NEW q, inv' = [inv EXCEPT ![i] = q], RecordInv(i, q),
             q.pc \in {"thrown", "creating"},
             q.snapshot \in {Nothing, data, Data(0, "host")}
      PROVE  IInv'
  <2>1. /\ q.pc \notin Settlement \cup {"sealed"} /\ q.pc # "idle"
        /\ q.pc \notin {"sealed", "returned"} /\ TargetKept(q, host')
    BY <1>6 DEF Settlement, TargetKept
  <2>2. (\A j \in Invocations : RecordInv(j, inv[j]))'
    BY <1>4, <1>6, RecordsKept
  <2>3. OneSettles' /\ Untouched'
    BY <1>6, <2>1, SettlingKept
  <2>4. NothingLost'
    BY <1>4, <1>6, <2>1, NothingIsLost
  <2>5. Authorship'
    <3>1. \A k \in Invocations \ {i} : q.snapshot.by = k => host.data.by = k
      <4>1. \A k \in Invocations : Nothing.by # k /\ Data(0, "host").by # k
        BY NobodysData
      <4>2. QED BY <1>3, <1>6, <4>1
    <3>2. QED BY <1>1, <1>4, <1>6, <3>1, AuthorsKept
  <2>6. Holders'
    BY <1>4, <1>6, <2>1, HoldersTaken DEF Admitted, Reserves
  <2>7. Maps'
    <3>1. pins' = [c \in Contexts |-> pins'[c]]
      BY <1>6 DEF IInv, Maps
    <3>2. QED BY <1>4, <1>6, <3>1, OthersStay DEF IInv, Maps
  <2>8. HostThere'
    BY <1>4 DEF IInv, HostThere
  <2>9. QED BY <2>2, <2>3, <2>4, <2>5, <2>6, <2>7, <2>8 DEF IInv
<1>7. /\ data \in Datum \cup {Nothing} /\ (host.ino = 0 <=> data = Nothing)
      /\ host.ino # 0 => data \in Datum
      /\ data.by # i
  <2>1. Nothing \notin Datum
    BY NamesApart DEF Nothing, Datum, Authors
  <2>2. /\ host.ino # 0 => data \in Datum
        /\ host.ino = 0 => data = Nothing
    BY <1>3 DEF IInv, HostThere
  <2>3. data.by # i
    BY <1>1, <1>3 DEF IInv, Authorship
  <2>4. QED BY <2>1, <2>2, <2>3
<1>8. ASSUME Admitted(i),
             pins' = IF Reserves(i) THEN [pins EXCEPT ![ContextOf(i)] = NoPin] ELSE pins,
             Matches(i, pin),
             inv' = [inv EXCEPT ![i] =
               [@ EXCEPT !.pc = "creating", !.pin = pin, !.next = pin, !.initial = data,
                         !.snapshot = IF pin.ino = 0 THEN Data(0, "host") ELSE data,
                         !.created = pin.ino # 0]]
      PROVE  IInv'
  <2>1. PICK created : created = (pin.ino # 0)
    OBVIOUS
  <2>2. PICK q : q = Begun(pin, data, created)
    OBVIOUS
  <2>3. pin.ino = host.ino
    BY <1>8 DEF Matches
  <2>4. RecordInv(i, q) /\ q.pc = "creating" /\ q.snapshot \in {data, Data(0, "host")}
    BY <1>7, <2>2, <2>3, AdmittedRecord
  <2>5. inv' = [inv EXCEPT ![i] = q]
    BY <1>1, <1>8, <2>1, <2>2 DEF Begun
  <2>6. QED BY <1>6, <1>8, <2>4, <2>5
<1>9. ASSUME Admitted(i),
             pins' = IF Reserves(i) THEN [pins EXCEPT ![ContextOf(i)] = NoPin] ELSE pins,
             inv' = [inv EXCEPT ![i] = [@ EXCEPT !.pc = "thrown"]]
      PROVE  IInv'
  <2>1. PICK q : q = [Unused EXCEPT !.pc = "thrown"]
    OBVIOUS
  <2>2. RecordInv(i, q) /\ q.pc = "thrown" /\ q.snapshot = Nothing
    BY <2>1, UnusedRecord
  <2>3. inv' = [inv EXCEPT ![i] = q]
    BY <1>1, <1>9, <2>1
  <2>4. QED BY <1>6, <1>9, <2>2, <2>3
<1>10. QED BY <1>2, <1>3, <1>5, <1>8, <1>9 DEF Invoke

LEMMA OtherProgramKeeps ==
  ASSUME IInv, OtherProgram
  PROVE  IInv'
<1>1. UNCHANGED <<setup, pins>>
  BY DEF OtherProgram
<1>2. ASSUME NEW j \in Invocations
      PROVE  /\ RecordInv(j, inv'[j]) /\ (Overtakes(j) => inv'[j].raced = TRUE)
             /\ \A f \in Fields \ {"raced"} : inv'[j][f] = inv[j][f]
             /\ ~Overtakes(j) => inv'[j] = inv[j]
  <2>1. /\ inv'[j] = IF Overtakes(j) THEN [inv[j] EXCEPT !.raced = TRUE] ELSE inv[j]
        /\ RecordInv(j, inv[j])
    BY DEF OtherProgram, IInv
  <2>2. CASE Overtakes(j)
    <3>1. PICK r : r = inv[j]
      OBVIOUS
    <3>2. RecordInv(j, r) /\ r.pc \in {"reread", "publish"}
      BY <2>1, <2>2, <3>1 DEF Overtakes
    <3>3. PICK q : q = [r EXCEPT !.raced = TRUE]
      OBVIOUS
    <3>4. RecordInv(j, q) /\ q.raced = TRUE /\ \A f \in Fields \ {"raced"} : q[f] = r[f]
      BY <3>2, <3>3, RacedRecord
    <3>5. QED BY <2>1, <2>2, <3>1, <3>3, <3>4
  <2>3. CASE ~Overtakes(j)
    BY <2>1, <2>3
  <2>4. QED BY <2>2, <2>3
<1>3. ASSUME NEW j \in Invocations
      PROVE  /\ inv'[j].pc = inv[j].pc /\ inv'[j].pin = inv[j].pin
             /\ inv'[j].initial = inv[j].initial /\ inv'[j].snapshot = inv[j].snapshot
             /\ inv'[j].publication = inv[j].publication /\ inv'[j].torn = inv[j].torn
             /\ RecordInv(j, inv'[j])
             /\ Overtakes(j) => inv'[j].raced = TRUE
             /\ ~Overtakes(j) => inv'[j] = inv[j]
  BY <1>2, FieldsKnown
<1>4. (\A j \in Invocations : RecordInv(j, inv[j]))'
  <2> SUFFICES ASSUME NEW j \in Invocations PROVE RecordInv(j, inv[j])'
    OBVIOUS
  <2>1. /\ Shape(inv'[j]) /\ EffectsKept(j, inv'[j]) /\ Execution(j, inv'[j])
        /\ Settled(inv'[j]) /\ Replaced(j, inv'[j]) /\ Evidence(j, inv'[j])
    BY <1>3 DEF RecordInv
  <2>2. Shape(inv[j])'
    BY <2>1 DEF Shape
  <2>3. EffectsKept(j, inv[j])'
    BY <1>1, <2>1 DEF EffectsKept, Writer, Granted, ContextOf
  <2>4. Execution(j, inv[j])'
    BY <1>1, <2>1 DEF Execution, Cleared, Mutated, Writer, ContextOf
  <2>5. Settled(inv[j])'
    BY <2>1 DEF Settled
  <2>6. Replaced(j, inv[j])'
    BY <1>1, <2>1 DEF Replaced, Cleared, Mutated, Authorized, Writer, ContextOf
  <2>7. Evidence(j, inv[j])'
    BY <1>1, <2>1 DEF Evidence, PublicationVerifies, EffectsVerify, TeardownVerifies,
                      ResultVerifies, Writer, ContextOf
  <2>8. QED BY <2>2, <2>3, <2>4, <2>5, <2>6, <2>7 DEF RecordInv
<1>5. OneSettles'
  BY <1>3 DEF IInv, OneSettles, Settling
<1>6. NothingLost'
  <2> SUFFICES ASSUME NEW j \in Invocations PROVE TargetKept(inv'[j], host')
    BY DEF NothingLost, TargetKept
  <2>1. TargetKept(inv[j], host) /\ inv[j].raced \in BOOLEAN /\ inv'[j].raced \in BOOLEAN
    BY <1>3 DEF IInv, NothingLost, RecordInv, Shape
  <2>2. QED BY <1>3, <2>1 DEF TargetKept, Overtakes
<1>7. Untouched'
  BY <1>3 DEF IInv, Untouched, Overtakes
<1>8. /\ HostThere'
      /\ \A i \in Invocations : host'.data.by = i => host.data.by = i
  <2> DEFINE data == Data(2, "another program")
  <2>1. data \in Datum /\ \A i \in Invocations : data.by # i
    BY NamesApart DEF Data, Datum, Authors
  <2>2. Nothing \in {Absent.data} /\ Absent.ino = 0 /\ \A i \in Invocations : Nothing.by # i
    BY NobodysData DEF Absent
  <2>3. Absent = [ino |-> Absent.ino, links |-> Absent.links, data |-> Absent.data]
    BY DEF Absent
  <2>4. /\ host = [ino |-> host.ino, links |-> host.links, data |-> host.data]
        /\ host.ino # 0 => host.data \in Datum
        /\ host.ino = 0 => host.data = Nothing
    BY DEF IInv, HostThere
  <2> HIDE DEF data
  <2>5. CASE host.ino # 0 /\ host' = [host EXCEPT !.data = data]
    BY <2>1, <2>4, <2>5 DEF HostThere
  <2>6. CASE host.ino # 0 /\ host' = [host EXCEPT !.links = 2]
    BY <2>4, <2>6 DEF HostThere
  <2>7. CASE host' = Absent
    BY <2>2, <2>3, <2>7 DEF HostThere
  <2>8. ASSUME NEW ino \in FreeInodes, host' = [ino |-> ino, links |-> 1, data |-> data]
        PROVE  /\ HostThere'
               /\ \A i \in Invocations : host'.data.by = i => host.data.by = i
    <3>1. ino \in 1 .. MaxInode /\ MaxInode \in Nat
      BY InvocationAssumption DEF FreeInodes
    <3>2. ino # 0
      BY <3>1
    <3>3. QED BY <2>1, <2>8, <3>2 DEF HostThere
  <2>9. QED BY <2>5, <2>6, <2>7, <2>8 DEF OtherProgram, data
<1>9. Authorship'
  <2>1. \A i \in Invocations : Published(i)' <=> Published(i)
    BY <1>3 DEF Published
  <2>2. Authorship
    BY DEF IInv
  <2>3. ASSUME NEW i \in Invocations, host'.data.by = i PROVE Published(i)'
    BY <1>8, <2>1, <2>2, <2>3 DEF Authorship
  <2>4. ASSUME NEW i \in Invocations, NEW j \in Invocations \ {i}, inv'[j].snapshot.by = i
        PROVE  Published(i)'
    BY <1>3, <2>1, <2>2, <2>4 DEF Authorship
  <2>5. QED BY <2>3, <2>4 DEF Authorship
<1>10. Holders'
  <2>1. \A j \in Invocations : Doubted(inv'[j]) <=> Doubted(inv[j])
    BY <1>3 DEF Doubted
  <2>2. ASSUME NEW j \in Invocations, NEW k \in Invocations, ContextOf(j)' = ContextOf(k)',
               Writer(j)'
        PROVE  /\ inv'[j].pc \in InProgress => pins'[ContextOf(j)'] = NoPin
               /\ inv'[j].pc \in InProgress /\ inv'[k].pc \in InProgress => j = k
               /\ Doubted(inv'[j]) => pins'[ContextOf(j)'] = NoPin /\ inv'[k].pc \notin InProgress
    <3>1. ContextOf(j) = ContextOf(k) /\ Writer(j) /\ ContextOf(j)' = ContextOf(j)
      BY <1>1, <2>2 DEF ContextOf, Writer
    <3>2. /\ inv[j].pc \in InProgress => pins[ContextOf(j)] = NoPin
          /\ inv[j].pc \in InProgress /\ inv[k].pc \in InProgress => j = k
          /\ Doubted(inv[j]) => pins[ContextOf(j)] = NoPin /\ inv[k].pc \notin InProgress
      BY <3>1 DEF IInv, Holders
    <3>3. QED BY <1>1, <1>3, <2>1, <3>1, <3>2
  <2>3. QED BY <2>2 DEF Holders, Doubted
<1>11. Maps'
  BY <1>1 DEF IInv, Maps, OtherProgram
<1>12. QED BY <1>4, <1>5, <1>6, <1>7, <1>8, <1>9, <1>10, <1>11 DEF IInv

-----------------------------------------------------------------------------
(* The theorems. *)

LEMMA InitHolds ==
  ASSUME Init
  PROVE  IInv
<1>1. \A i \in Invocations : inv[i] = Unused
  BY DEF Init
<1>2. \A i \in Invocations : RecordInv(i, inv[i])
  BY <1>1, UnusedRecord
<1>3. \A i \in Invocations : inv[i].pc = "idle" /\ inv[i].snapshot = Nothing
  BY <1>1, UnusedRecord
<1>4. OneSettles /\ NothingLost /\ Untouched
  BY <1>1, <1>3 DEF OneSettles, NothingLost, TargetKept, Untouched, Settling
<1>5. HostThere /\ \A i \in Invocations : host.data.by # i
  <2>1. host = [ino |-> 1, links |-> 1, data |-> Data(2, "host")] \/ host = Absent
    BY DEF Init
  <2>2. Data(2, "host") \in Datum /\ \A i \in Invocations : Data(2, "host").by # i
    BY NamesApart DEF Data, Datum, Authors
  <2>3. CASE host = Absent
    BY <2>3, NobodysData DEF HostThere, Absent
  <2>4. CASE host = [ino |-> 1, links |-> 1, data |-> Data(2, "host")]
    BY <2>2, <2>4 DEF HostThere
  <2>5. QED BY <2>1, <2>3, <2>4
<1>6. Authorship
  BY <1>3, <1>5, NobodysData DEF Authorship
<1>7. Holders
  BY <1>3 DEF Holders, InProgress, Succeeded, Settlement, Doubted
<1>8. Maps
  BY DEF Init, Maps
<1>9. QED BY <1>2, <1>4, <1>5, <1>6, <1>7, <1>8 DEF IInv

LEMMA StepKeeps ==
  ASSUME IInv, [Next]_vars
  PROVE  IInv'
<1>1. CASE UNCHANGED vars
  <2> USE <1>1 DEF vars
  <2>1. ASSUME NEW i \in Invocations PROVE RecordInv(i, inv[i])'
    <3>1. RecordInv(i, inv[i])
      BY DEF IInv
    <3>2. (Shape(inv[i]) /\ EffectsKept(i, inv[i]))'
      BY <3>1 DEF RecordInv, Shape, EffectsKept, Granted, ContextOf, Writer
    <3>3. Execution(i, inv[i])'
      BY <3>1 DEF RecordInv, Execution, Cleared, Granted, ContextOf, Writer
    <3>4. Settled(inv[i])'
      BY <3>1 DEF RecordInv, Settled
    <3>5. Replaced(i, inv[i])'
      BY <3>1 DEF RecordInv, Replaced, Cleared, Mutated, Authorized, Granted, ContextOf, Writer
    <3>6. Evidence(i, inv[i])'
      BY <3>1 DEF RecordInv, Evidence, Mutated, Authorized, Granted, ContextOf, Writer,
                  PublicationVerifies, EffectsVerify, TeardownVerifies, ResultVerifies
    <3>7. QED BY <3>2, <3>3, <3>4, <3>5, <3>6 DEF RecordInv
  <2>2. (OneSettles /\ NothingLost /\ Untouched /\ HostThere /\ Maps)'
    BY DEF IInv, OneSettles, Settling, NothingLost, TargetKept, Untouched, HostThere, Maps,
           ContextOf, Writer
  <2>3. (Authorship /\ Holders)'
    BY DEF IInv, Authorship, Published, Holders, Doubted, ContextOf, Writer
  <2>4. QED BY <2>1, <2>2, <2>3 DEF IInv
<1>2. CASE OtherProgram
  BY <1>2, OtherProgramKeeps
<1>3. ASSUME NEW i \in Invocations, Step(i) PROVE IInv'
  BY <1>3, InvokeKeeps, CreateVmKeeps, StartVmKeeps, GuestOpKeeps, ExecAnsweredKeeps,
     LimitHitKeeps, ExecRejectedKeeps, VmDiesKeeps, CloseVmKeeps, ReadSnapshotKeeps,
     PrepareKeeps, OpenTargetKeeps, CompareKeeps, PublishKeeps, VerifyKeeps, CleanupKeeps, DeliverKeeps
  DEF Step
<1>4. QED BY <1>1, <1>2, <1>3 DEF Next

THEOREM Invariance == Spec => []IInv
<1>1. Init => IInv
  BY InitHolds
<1>2. IInv /\ [Next]_vars => IInv'
  BY StepKeeps
<1>3. QED BY <1>1, <1>2, PTL DEF Spec

\* What an invocation publishes its program was allowed to write, within its limits
\* (one that was hit beside the response of the exec included) and in a VM that is
\* gone, and it replaces nothing but what the program was given, unless another
\* program wrote after the last read of the target, or put another file under its
\* name after it was opened for that read.
THEOREM PublishesByRight == Spec => []PublicationIsJustified
<1>1. IInv => PublicationIsJustified
  <2> SUFFICES ASSUME IInv, NEW i \in Invocations, inv[i].replaced # Unpublished
               PROVE  /\ inv[i].replaced = inv[i].initial \/ inv[i].raced
                      /\ inv[i].exit = "zero" /\ inv[i].limit = "none"
                      /\ inv[i].denied = {} /\ inv[i].runner # "alive"
                      /\ inv[i].initial = Nothing => "create" \in Granted(i)
                      /\ inv[i].snapshot.len < inv[i].initial.len =>
                           "truncate" \in Granted(i)
                      /\ inv[i].snapshot.by = i =>
                           "write" \in Granted(i) \/ "truncate" \in Granted(i)
    BY DEF PublicationIsJustified, NoLostUpdate, PublishedWithinAuthority
  <2>1. RecordInv(i, inv[i])
    BY DEF IInv
  <2>2. /\ Cleared(i, inv[i]) /\ Authorized(inv[i])
        /\ inv[i].pin.ino = 0 <=> inv[i].initial = Nothing
        /\ inv[i].replaced = inv[i].initial \/ inv[i].raced
    BY <2>1 DEF RecordInv, Replaced
  <2>3. /\ inv[i].observed \subseteq Granted(i)
        /\ inv[i].snapshot.by = i => inv[i].observed \cap {"write", "truncate"} # {}
    BY <2>1, <2>2 DEF RecordInv, EffectsKept, Cleared
  <2>4. QED BY <2>2, <2>3 DEF Cleared, Authorized
<1>2. QED BY <1>1, Invariance, PTL

\* After a publication in doubt a context never accepts its target again, and the
\* evidence an invocation seals passes the checks of its verifier.
THEOREM EvidenceIsSound == Spec => []EvidenceStands
<1>1. IInv => DoubtRevokesPin
  BY DEF IInv, DoubtRevokesPin, Holders, Doubted
<1>2. IInv => EvidenceVerifies
  BY DEF IInv, EvidenceVerifies, RecordInv, Evidence
<1>3. IInv => EvidenceStands
  BY <1>1, <1>2 DEF EvidenceStands
<1>4. QED BY <1>3, Invariance, PTL

-----------------------------------------------------------------------------
(* The run of a command (ScopedRunner).  The invariant says how far a run  *)
(* has come (Stages), what the hook has booked (Booked), which outcome is  *)
(* concluded (Outcomes), and that registry and seal come last (Registered).*)

RunOutcomes == CapabilityOutcomes \cup {"children_exhausted", "rejected", "thrown"}

\* The locals of execute().
RunRecord ==
  [cancelled : BOOLEAN, timedOut : BOOLEAN, aborted : BOOLEAN, armed : BOOLEAN,
   hostCpu : BOOLEAN, sampled : Nat, cpuLost : BOOLEAN, observing : BOOLEAN,
   pid : BOOLEAN, dispatched : BOOLEAN, exit : {"none", "zero", "nonzero"},
   usage : Usages \cup {"none"}, removed : BOOLEAN, admission : BOOLEAN, error : BOOLEAN,
   closeError : BOOLEAN, outcome : RunOutcomes]

\* A descriptor by which the guest appends.
Descriptor == [at : Nat, cut : BOOLEAN]

\* The types of the variables.
RunTypeOK ==
  /\ job \in Jobs
  /\ pc \in {"invoke", "create", "start", "dispatch", "running", "finally", "close",
             "settle", "done", "crashed"}
  /\ vmm \in {"none", "down", "up"} /\ guest \in {"none", "running", "ended"}
  /\ run \in RunRecord
  /\ lease \in [status : {"none", "active", "revoked", "completed"}, verified : BOOLEAN]
  /\ output \in [accepted : Nat, overflowed : BOOLEAN]
  /\ storage \in [sizes : [Writes -> Nat], exhausted : BOOLEAN]
  /\ files \in [Writes -> Nat]
  /\ appender \in [Writes -> Descriptor]
  /\ tree \in [bound : BOOLEAN, open : BOOLEAN, private : BOOLEAN]
  /\ effects \in [attempted : BOOLEAN, denied : BOOLEAN, observed : BOOLEAN]
  /\ cpu \in Nat

\* Before the command's end, after it, and when execute() is over.
Underway == {"create", "start", "dispatch", "running"}
Ending   == {"finally", "close", "settle"}

\* Who gets how far: nothing is started for a refused request, a VM is there
\* when its close is awaited, and nothing is pinned beyond the finally clause.
Stages ==
  /\ pc \in Underway \cup Ending \cup {"crashed"} => Accepted
  /\ ~Accepted => vmm = "none" /\ lease.status = "none"
  /\ pc \in {"invoke", "create"} => vmm = "none"
  /\ pc = "invoke" => lease.status = "none"
  /\ pc \in {"start", "dispatch", "running", "close"} => vmm # "none"
  /\ tree.open => Tree /\ pc \notin {"invoke", "close", "settle", "done"}
  /\ pc = "close" /\ vmm = "up" => run.pid
  /\ pc = "settle" /\ ~run.closeError => vmm # "up"
  /\ guest # "ended" => ~run.removed
  /\ pc \in Underway \cup {"invoke"} => guest # "ended"

\* What is booked for a file covers its length and where the guest may append to
\* it, unless it was cut; then the length is covered by the two together.
Covers(size, length, d) ==
  /\ ~d.cut => length <= size /\ d.at <= size
  /\ length <= Longer(size, d.at)

\* What the hook has booked covers what the provider holds, on granted files only.
Booked ==
  /\ Accepted => output.accepted <= Limit("output")
  /\ Tree => ~storage.exhausted
  /\ Files /\ Accepted =>
       /\ Total(storage.sizes) <= Limit("storage")
       /\ \A f \in Writes : /\ files[f] > 0 => Writable(f)
                           /\ Covers(storage.sizes[f], files[f], appender[f])
       /\ (effects.denied \/ effects.observed => effects.attempted)

\* While the command runs there is no outcome; afterwards there is the one that
\* its exit or an error gave, and a success was clean when it was concluded.
Concluded(r) ==
  /\ r.outcome \in (CapabilityOutcomes \cup {"children_exhausted"}) \ {"teardown_failure"}
  /\ Files => r.outcome # "children_exhausted"
  /\ r.outcome \in {"success", "command_failed"} => ~r.error /\ ~r.admission
  /\ r.outcome = "command_failed" => r.exit = "nonzero"
  /\ r.outcome = "success" =>
       /\ r.exit = "zero" /\ r.usage \in {"fine", "failed"} \cup (IF Files THEN {} ELSE {"descendant"})
       /\ ~output.overflowed
       /\ r.removed => ~effects.denied /\ ~storage.exhausted

Outcomes ==
  /\ pc \in Underway \cup {"invoke"} =>
       run.outcome = "transport_failure" /\ ~run.error /\ ~run.admission
  /\ pc \in Ending => Concluded(run)
  /\ Files /\ Accepted /\ ~run.hostCpu => run.sampled < Limit("cpu")

\* The registry and the seal agree, and both come last.
Registered ==
  /\ lease.status = "active" => ~lease.verified /\ ~evidence.sealed
  /\ pc \notin {"invoke", "done"} => lease.status # "none"
  /\ pc = "done" /\ vmm = "up" => lease.status \in {"revoked", "completed"}
  /\ pc # "done" => ~evidence.sealed /\ ~lease.verified /\ lease.status # "completed"

\* The inductive invariant of a run.
RunInv == RunTypeOK /\ Stages /\ Booked /\ Outcomes /\ Registered /\ RunContained

\* A job has one profile, and a files job asks only for the modelled files.
LEMMA JobFacts ==
  ASSUME job \in Jobs
  PROVE  /\ job.profile \in {"files", "tree"} /\ job.aborted \in BOOLEAN
         /\ Files <=> ~Tree
         /\ Files => \A path : Writable(path) => path \in Writes
BY RunnerAssumption DEF JobType, Files, Tree, Writable, Declared

\* The limits of an admitted request are numbers within its ceiling, and so are
\* the files it may write.
LEMMA GrantedLimits ==
  ASSUME job \in Jobs, Accepted
  PROVE  /\ Limit("output") \in Nat
         /\ Files => /\ Limit("storage") \in Nat /\ Limit("cpu") \in Nat /\ Limit("cpu") > 0
                     /\ Limit("storage") <= job.ceiling.limits["storage"]
                     /\ \A path : Writable(path) => path \in {p.name : p \in job.ceiling.writes}
<1>1. CASE Files
  <2>1. AdmitsFiles(job.request, job.ceiling) /\ FilesRequest(job.request)
    BY <1>1, JobFacts DEF Accepted, AdmitsJob, Files
  <2>2. /\ DOMAIN job.request.limits = FilesLimits
        /\ \A l \in FilesLimits : Limit(l) \in Nat \ {0}
    BY <2>1 DEF FilesRequest, FilesLimit, Limit
  <2>3. Limit("storage") <= job.ceiling.limits["storage"]
    BY <2>1, <2>2 DEF AdmitsFiles, AdmitsLimits, Limit, FilesLimits
  <2>4. \A path : Writable(path) => path \in {p.name : p \in job.ceiling.writes}
    BY <2>1 DEF AdmitsFiles, Writable, Declared
  <2>5. QED BY <2>2, <2>3, <2>4 DEF FilesLimits
<1>2. CASE Tree
  <2>1. TreeRequest(job.request)
    BY <1>2 DEF Accepted, AdmitsJob, Tree
  <2>2. Limit("output") \in Nat
    BY <2>1 DEF TreeRequest, TreeLimit, TreeLimits, Limit
  <2>3. QED BY <1>2, <2>2, JobFacts
<1>3. QED BY <1>1, <1>2, JobFacts

\* The types hold at first.
LEMMA RunTypeInit == RunnerInit => RunTypeOK
BY DEF RunnerInit, RunTypeOK, Descriptor, RunRecord, RunOutcomes, CapabilityOutcomes, Usages, Exhaustions

\* A local of execute() may be assigned without the others.
LEMMA RunUpdate ==
  ASSUME NEW r \in RunRecord
  PROVE  /\ \A b \in BOOLEAN :
              /\ [r EXCEPT !.cancelled = b] \in RunRecord
              /\ [r EXCEPT !.timedOut = b] \in RunRecord
              /\ [r EXCEPT !.aborted = b] \in RunRecord
              /\ [r EXCEPT !.armed = b] \in RunRecord
              /\ [r EXCEPT !.hostCpu = b] \in RunRecord
              /\ [r EXCEPT !.cpuLost = b] \in RunRecord
              /\ [r EXCEPT !.observing = b] \in RunRecord
              /\ [r EXCEPT !.pid = b] \in RunRecord
              /\ [r EXCEPT !.dispatched = b] \in RunRecord
              /\ [r EXCEPT !.removed = b] \in RunRecord
              /\ [r EXCEPT !.admission = b] \in RunRecord
              /\ [r EXCEPT !.error = b] \in RunRecord
              /\ [r EXCEPT !.closeError = b] \in RunRecord
         /\ \A n \in Nat : [r EXCEPT !.sampled = n] \in RunRecord
         /\ \A e \in {"none", "zero", "nonzero"} : [r EXCEPT !.exit = e] \in RunRecord
         /\ \A u \in Usages : [r EXCEPT !.usage = u] \in RunRecord
         /\ \A o \in RunOutcomes : [r EXCEPT !.outcome = o] \in RunRecord
<1>1. ASSUME NEW b \in BOOLEAN
      PROVE  /\ [r EXCEPT !.cancelled = b] \in RunRecord
             /\ [r EXCEPT !.timedOut = b] \in RunRecord
             /\ [r EXCEPT !.aborted = b] \in RunRecord
             /\ [r EXCEPT !.armed = b] \in RunRecord
             /\ [r EXCEPT !.hostCpu = b] \in RunRecord
             /\ [r EXCEPT !.cpuLost = b] \in RunRecord
             /\ [r EXCEPT !.observing = b] \in RunRecord
             /\ [r EXCEPT !.pid = b] \in RunRecord
             /\ [r EXCEPT !.dispatched = b] \in RunRecord
             /\ [r EXCEPT !.removed = b] \in RunRecord
             /\ [r EXCEPT !.admission = b] \in RunRecord
             /\ [r EXCEPT !.error = b] \in RunRecord
             /\ [r EXCEPT !.closeError = b] \in RunRecord
  BY <1>1 DEF RunRecord
<1>2. ASSUME NEW n \in Nat PROVE [r EXCEPT !.sampled = n] \in RunRecord
  BY <1>2 DEF RunRecord
<1>3. /\ \A e \in {"none", "zero", "nonzero"} : [r EXCEPT !.exit = e] \in RunRecord
      /\ \A u \in Usages : [r EXCEPT !.usage = u] \in RunRecord
  BY DEF RunRecord
<1>4. ASSUME NEW o \in RunOutcomes PROVE [r EXCEPT !.outcome = o] \in RunRecord
  BY <1>4 DEF RunRecord
<1>5. QED
  <2>1. \A n \in Nat : [r EXCEPT !.sampled = n] \in RunRecord
    BY <1>2
  <2>2. \A o \in RunOutcomes : [r EXCEPT !.outcome = o] \in RunRecord
    BY <1>4
  <2>3. QED BY <1>1, <1>3, <2>1, <2>2, Zenon

\* An error leaves a record of locals, with an outcome of the catch clause.
LEMMA ThrownType ==
  ASSUME NEW r \in RunRecord, NEW kind
  PROVE  /\ Thrown(kind, r) \in RunRecord
         /\ kind \in {"admission", "isolation"} => Thrown(kind, r).outcome = r.outcome
         /\ Thrown(kind, r).error
<1>1. PICK o \in RunOutcomes :
         Thrown(kind, r) = IF kind \in {"admission", "isolation"}
                           THEN [r EXCEPT !.admission = TRUE, !.error = TRUE]
                           ELSE [r EXCEPT !.error = TRUE, !.outcome = o]
  BY DEF Thrown, RunOutcomes, CapabilityOutcomes
<1>2. /\ [r EXCEPT !.admission = TRUE, !.error = TRUE] \in RunRecord
      /\ [r EXCEPT !.error = TRUE, !.outcome = o] \in RunRecord
  BY RunUpdate
<1>3. [r EXCEPT !.admission = TRUE, !.error = TRUE].outcome = r.outcome
  BY DEF RunRecord
<1>4. [r EXCEPT !.admission = TRUE, !.error = TRUE].error /\ [r EXCEPT !.error = TRUE, !.outcome = o].error
  BY DEF RunRecord
<1>5. QED BY <1>1, <1>2, <1>3, <1>4

\* A command that returned has one of the outcomes.
LEMMA OutcomeType ==
  ASSUME NEW exit \in {"zero", "nonzero"}, NEW usage \in Usages, job \in Jobs
  PROVE  /\ FilesOutcome(exit, usage) \in RunOutcomes
         /\ TreeOutcome(exit, usage) \in RunOutcomes
BY DEF FilesOutcome, TreeOutcome, Exhausted, ExitOutcome, Exhaustions, RunOutcomes, CapabilityOutcomes

\* A sample leaves a record of locals.
LEMMA SampledType ==
  ASSUME NEW r \in RunRecord, cpu \in Nat
  PROVE  Sampled(r) \in RunRecord
BY DEF Sampled, RunRecord

\* A request that is admitted leaves a file covered by what is booked: an append
\* books as many bytes more as the descriptor moves, wherever it stands.
LEMMA ChangeCovered ==
  ASSUME NEW size \in Nat, NEW length \in Nat, NEW d \in Descriptor, NEW n \in Nat, NEW op \in Changes
  PROVE  /\ BookedLength(size, op, n) \in Nat /\ StoredLength(length, op, n, d.at) \in Nat
         /\ Appending(d, length, op, n) \in Descriptor
         /\ Covers(size, length, d) =>
              Covers(BookedLength(size, op, n), StoredLength(length, op, n, d.at), Appending(d, length, op, n))
<1> DEFINE booked == BookedLength(size, op, n)
           stored == StoredLength(length, op, n, d.at)
           moved  == Appending(d, length, op, n)
<1>1. d.at \in Nat /\ d.cut \in BOOLEAN
  BY DEF Descriptor
<1>2. CASE op \in {"create", "truncate"}
  <2>1. booked = stored /\ booked \in Nat
    BY <1>2 DEF BookedLength, StoredLength
  <2>2. moved = [d EXCEPT !.cut = @ \/ stored < d.at]
    BY <1>2 DEF Appending
  <2>3. PICK c \in BOOLEAN : c = (d.cut \/ stored < d.at)
    BY Zenon
  <2>4. moved = [d EXCEPT !.cut = c]
    BY <2>2, <2>3, Zenon
  <2>5. moved \in Descriptor /\ moved.at = d.at /\ moved.cut = c
    <3> HIDE DEF moved
    <3>1. QED BY <2>4 DEF Descriptor
  <2>6. ~moved.cut => ~(stored < d.at)
    BY <2>3, <2>5, Zenon
  <2>7. Covers(booked, stored, moved)
    <3> HIDE DEF moved, stored, booked
    <3>1. QED BY <1>1, <2>1, <2>5, <2>6 DEF Covers, Longer
  <2>8. QED BY <2>1, <2>5, <2>7, Zenon
<1>3. CASE op = "open"
  <2>1. booked = size /\ stored = length /\ moved = [d EXCEPT !.at = length]
    BY <1>3 DEF BookedLength, StoredLength, Appending
  <2>2. moved \in Descriptor /\ moved.at = length /\ moved.cut = d.cut
    BY <1>1, <2>1 DEF Descriptor
  <2>3. QED BY <1>1, <2>1, <2>2 DEF Covers, Longer
<1>4. CASE op = "append"
  <2>1. booked = size + 1 /\ stored = Longer(length, d.at + 1) /\ moved = [d EXCEPT !.at = @ + 1]
    BY <1>4 DEF BookedLength, StoredLength, Appending
  <2>2. moved \in Descriptor /\ moved.at = d.at + 1 /\ moved.cut = d.cut
    BY <1>1, <2>1 DEF Descriptor
  <2>3. QED BY <1>1, <2>1, <2>2 DEF Covers, Longer
<1>5. CASE op = "write"
  <2>1. booked = Longer(size, n + 1) /\ stored = Longer(length, n + 1) /\ moved = d
    BY <1>5 DEF BookedLength, StoredLength, Appending
  <2>2. QED BY <1>1, <2>1 DEF Covers, Longer
<1>6. QED BY <1>2, <1>3, <1>4, <1>5 DEF Changes

\* What a request does to the storage: nothing, the end of the budget, or a change.
LEMMA RequestCases ==
  ASSUME NEW path, NEW op, NEW n, FileRequest(path, op, n)
  PROVE  \/ UNCHANGED <<storage, files, appender>>
         \/ storage' = [storage EXCEPT !.exhausted = TRUE] /\ UNCHANGED <<files, appender>>
         \/ /\ Files /\ Writable(path) /\ op \in Changes
            /\ ~(Projected(path, BookedLength(storage.sizes[path], op, n)) > Limit("storage"))
            /\ storage' = [storage EXCEPT !.sizes[path] = BookedLength(storage.sizes[path], op, n)]
            /\ files' = [files EXCEPT ![path] = StoredLength(@, op, n, appender[path].at)]
            /\ appender' = [appender EXCEPT ![path] = Appending(@, files[path], op, n)]
BY Zenon DEF FileRequest

\* Every step keeps the types.
LEMMA RunTypeStep ==
  ASSUME RunTypeOK, Stages, Booked, RunnerNext
  PROVE  RunTypeOK'
<1> USE DEF RunTypeOK
<1>1. CASE Refuse
  BY <1>1 DEF Refuse, RunRecord, RunOutcomes
<1>2. CASE Begin
  <2>1. run' \in RunRecord
    <3>1. /\ [run EXCEPT !.outcome = "rejected"] \in RunRecord
          /\ [run EXCEPT !.cancelled = job.aborted, !.aborted = job.aborted] \in RunRecord
      BY RunUpdate, JobFacts DEF RunOutcomes
    <3>2. QED BY <1>2, <3>1 DEF Begin
  <2>2. tree' \in [bound : BOOLEAN, open : BOOLEAN, private : BOOLEAN]
    BY <1>2 DEF Begin
  <2>3. lease' \in [status : {"none", "active", "revoked", "completed"}, verified : BOOLEAN]
    BY <1>2 DEF Begin
  <2>4. QED BY <1>2, <2>1, <2>2, <2>3 DEF Begin
<1>3. CASE Expire
  BY <1>3 DEF Expire
<1>4. CASE Create
  BY <1>4, ThrownType DEF Create, Throw
<1>5. CASE Start
  <2>1. run' \in RunRecord
    <3>1. [run EXCEPT !.pid = TRUE, !.armed = TRUE, !.observing = Files] \in RunRecord
      BY RunUpdate DEF Files
    <3>2. QED BY <1>5, <3>1, ThrownType DEF Start, Throw
  <2>2. QED BY <1>5, <2>1 DEF Start, Throw
<1>6. CASE Dispatch
  <2>1. [run EXCEPT !.dispatched = TRUE] \in RunRecord
    BY RunUpdate
  <2>2. run' \in RunRecord
    <3>1. /\ Thrown("failure", run) \in RunRecord
          /\ Thrown("failure", [run EXCEPT !.dispatched = TRUE]) \in RunRecord
      BY <2>1, ThrownType
    <3>2. QED BY <1>6, <2>1, <3>1, Zenon DEF Dispatch, Throw
  <2>3. QED BY <1>6, <2>2 DEF Dispatch, Throw
<1>7. ASSUME NEW path \in Paths, NEW op \in FileOps, NEW n \in 0..1, FileRequest(path, op, n)
      PROVE  RunTypeOK'
  <2>1. effects' \in [attempted : BOOLEAN, denied : BOOLEAN, observed : BOOLEAN]
    BY <1>7 DEF FileRequest
  <2>2. run' \in RunRecord
    <3>1. [run EXCEPT !.aborted = TRUE] \in RunRecord
      BY RunUpdate
    <3>2. QED BY <1>7, <3>1 DEF FileRequest
  <2>3. /\ storage' \in [sizes : [Writes -> Nat], exhausted : BOOLEAN] /\ files' \in [Writes -> Nat]
        /\ appender' \in [Writes -> Descriptor]
    <3>1. CASE UNCHANGED <<storage, files, appender>>
      BY <3>1
    <3>2. CASE storage' = [storage EXCEPT !.exhausted = TRUE] /\ UNCHANGED <<files, appender>>
      BY <3>2
    <3>3. ASSUME Files, Writable(path), op \in Changes,
                 storage' = [storage EXCEPT !.sizes[path] = BookedLength(storage.sizes[path], op, n)],
                 files' = [files EXCEPT ![path] = StoredLength(@, op, n, appender[path].at)],
                 appender' = [appender EXCEPT ![path] = Appending(@, files[path], op, n)]
          PROVE  /\ storage' \in [sizes : [Writes -> Nat], exhausted : BOOLEAN]
                 /\ files' \in [Writes -> Nat] /\ appender' \in [Writes -> Descriptor]
      <4>1. path \in Writes /\ n \in Nat
        BY <3>3, JobFacts
      <4>2. /\ storage.sizes[path] \in Nat /\ files[path] \in Nat /\ appender[path] \in Descriptor
        BY <4>1
      <4>3. /\ BookedLength(storage.sizes[path], op, n) \in Nat
            /\ StoredLength(files[path], op, n, appender[path].at) \in Nat
            /\ Appending(appender[path], files[path], op, n) \in Descriptor
        BY <3>3, <4>1, <4>2, ChangeCovered
      <4>4. QED BY <3>3, <4>1, <4>3
    <3>4. QED BY <1>7, <3>1, <3>2, <3>3, RequestCases
  <2>4. QED BY <1>7, <2>1, <2>2, <2>3 DEF FileRequest
<1>8. ASSUME NEW path \in Paths, NEW op \in TreeOps, TreeOperation(path, op)
      PROVE  RunTypeOK'
  <2>1. effects' \in [attempted : BOOLEAN, denied : BOOLEAN, observed : BOOLEAN]
    BY <1>8 DEF TreeOperation
  <2>2. QED BY <1>8, <2>1 DEF TreeOperation
<1>9. ASSUME NEW n \in 1..2, WriteOutput(n)
      PROVE  RunTypeOK'
  <2>1. Accepted /\ output.accepted <= Limit("output") /\ Limit("output") \in Nat
    BY <1>9, GrantedLimits DEF WriteOutput, Stages, Booked, Underway
  <2>2. output' \in [accepted : Nat, overflowed : BOOLEAN]
    BY <1>9, <2>1 DEF WriteOutput
  <2>3. run' \in RunRecord
    BY <1>9, <2>1 DEF WriteOutput, RunRecord
  <2>4. QED BY <1>9, <2>2, <2>3 DEF WriteOutput
<1>10. CASE CancelRun
  <2>1. [run EXCEPT !.cancelled = TRUE, !.aborted = TRUE] \in RunRecord
    BY RunUpdate
  <2>2. QED BY <1>10, <2>1 DEF CancelRun
<1>11. CASE WallTimeExpires
  <2>1. /\ [run EXCEPT !.timedOut = TRUE, !.aborted = TRUE] \in RunRecord
        /\ [run EXCEPT !.timedOut = TRUE] \in RunRecord
    BY RunUpdate
  <2>2. run' \in RunRecord
    BY <1>11, <2>1, Zenon DEF WallTimeExpires
  <2>3. QED BY <1>11, <2>2 DEF WallTimeExpires
<1>12. CASE Burn
  BY <1>12 DEF Burn
<1>13. CASE SampleCpu
  <2>1. Sampled(run) \in RunRecord
    BY SampledType
  <2>2. PICK r \in RunRecord : r = Sampled(run)
    BY <2>1
  <2>3. run' = [r EXCEPT !.aborted = @ \/ r.cpuLost \/ r.hostCpu]
    BY <1>13, <2>2 DEF SampleCpu
  <2>4. run' \in RunRecord
    BY <2>2, <2>3 DEF RunRecord
  <2>5. QED BY <1>13, <2>4 DEF SampleCpu
<1>14. CASE RunnerDies
  BY <1>14 DEF RunnerDies
<1>15. ASSUME NEW exit \in {"zero", "nonzero"}, NEW usage \in Usages, NEW removed \in BOOLEAN,
              ExecReturns(exit, usage, removed)
       PROVE  RunTypeOK'
  <2>1. PICK r : r = [run EXCEPT !.exit = exit, !.usage = usage, !.removed = removed]
    OBVIOUS
  <2>2. r \in RunRecord
    BY <2>1 DEF RunRecord
  <2>3. run' \in RunRecord
    <3>1. CASE ~Authenticated
      BY <1>15, <2>1, <2>2, <3>1, ThrownType DEF ExecReturns
    <3>2. CASE Authenticated
      <4>1. PICK o \in RunOutcomes : run' = [r EXCEPT !.outcome = o]
        BY <1>15, <2>1, <3>2, OutcomeType DEF ExecReturns
      <4>2. QED BY <2>2, <4>1 DEF RunRecord
    <3>3. QED BY <3>1, <3>2
  <2>4. QED BY <1>15, <2>3 DEF ExecReturns
<1>16. ASSUME NEW kind \in {"isolation", "failure"}, ExecRejects(kind)
       PROVE  RunTypeOK'
  BY <1>16, ThrownType DEF ExecRejects, Throw
<1>17. ASSUME NEW destroyed \in BOOLEAN, Finally(destroyed)
       PROVE  RunTypeOK'
  <2>1. PICK r : r = [run EXCEPT !.armed = FALSE, !.pid = @ \/ vmm = "up"]
    OBVIOUS
  <2>2. r \in RunRecord
    <3>1. PICK p \in BOOLEAN : p = (run.pid \/ vmm = "up")
      BY Zenon DEF RunRecord
    <3>2. r = [run EXCEPT !.armed = FALSE, !.pid = p]
      BY <2>1, <3>1, Zenon
    <3>3. QED BY <3>2 DEF RunRecord
  <2>3. run' \in RunRecord
    BY <1>17, <2>1, <2>2, SampledType DEF Finally
  <2>4. tree' \in [bound : BOOLEAN, open : BOOLEAN, private : BOOLEAN]
    BY <1>17 DEF Finally, Disposed
  <2>5. QED BY <1>17, <2>3, <2>4 DEF Finally
<1>18. ASSUME NEW fails \in BOOLEAN, CloseRunner(fails)
       PROVE  RunTypeOK'
  BY <1>18 DEF CloseRunner, RunRecord
<1>19. CASE Settle
  <2>1. PICK o \in RunOutcomes : run' = [run EXCEPT !.outcome = o]
    <3>1. Observed \in RunOutcomes /\ FinalOutcome \in RunOutcomes
      BY DEF Observed, FinalOutcome, RunRecord, RunOutcomes, CapabilityOutcomes
    <3>2. QED BY <1>19, <3>1 DEF Settle, RunOutcomes
  <2>2. run' \in RunRecord
    BY <2>1 DEF RunRecord
  <2>3. lease' \in [status : {"none", "active", "revoked", "completed"}, verified : BOOLEAN]
    <3>1. Contained \in BOOLEAN /\ TeardownComplete \in BOOLEAN /\ run.admission \in BOOLEAN
      BY DEF Contained, TeardownComplete, VmStopped, TreeTornDown, RunRecord
    <3>2. QED BY <1>19, <3>1 DEF Settle
  <2>4. QED BY <1>19, <2>2, <2>3 DEF Settle
<1>20. QED
  BY <1>1, <1>2, <1>3, <1>4, <1>5, <1>6, <1>7, <1>8, <1>9, <1>10, <1>11, <1>12, <1>13, <1>14,
     <1>15, <1>16, <1>17, <1>18, <1>19 DEF RunnerNext


\* Nothing changes what was asked.
LEMMA SameJob ==
  ASSUME RunnerNext
  PROVE  /\ job' = job /\ (Files' <=> Files) /\ (Tree' <=> Tree) /\ (Accepted' <=> Accepted)
         /\ \A l : Limit(l)' = Limit(l)
         /\ \A p : Writable(p)' <=> Writable(p)
<1>1. job' = job
  BY Zenon DEF RunnerNext, Refuse, Begin, Expire, Create, Start, Dispatch, FileRequest, TreeOperation,
     WriteOutput, CancelRun, WallTimeExpires, Burn, SampleCpu, RunnerDies, ExecReturns, ExecRejects,
     Finally, CloseRunner, Settle
<1>2. QED BY <1>1 DEF Files, Tree, Accepted, Limit, Writable, Declared

\* What an error leaves alone, and what a sample does.
LEMMA ThrownKeeps ==
  ASSUME NEW r \in RunRecord, NEW kind
  PROVE  /\ Thrown(kind, r).pid = r.pid /\ Thrown(kind, r).removed = r.removed
         /\ Thrown(kind, r).closeError = r.closeError /\ Thrown(kind, r).exit = r.exit
         /\ Thrown(kind, r).usage = r.usage /\ Thrown(kind, r).cpuLost = r.cpuLost
         /\ Thrown(kind, r).sampled = r.sampled /\ Thrown(kind, r).hostCpu = r.hostCpu
BY DEF Thrown, RunRecord

LEMMA SampledKeeps ==
  ASSUME NEW r \in RunRecord
  PROVE  /\ Sampled(r).pid = r.pid /\ Sampled(r).removed = r.removed
         /\ Sampled(r).closeError = r.closeError /\ Sampled(r).exit = r.exit
         /\ Sampled(r).usage = r.usage /\ Sampled(r).outcome = r.outcome
         /\ Sampled(r).error = r.error /\ Sampled(r).admission = r.admission
BY DEF Sampled, RunRecord

\* Every step keeps the stages.
LEMMA StagesStep ==
  ASSUME RunTypeOK, Stages, RunnerNext
  PROVE  Stages'
<1> USE DEF Stages, Underway, Ending
<1>0. /\ job \in Jobs /\ run \in RunRecord /\ (Files <=> ~Tree)
      /\ (Tree' <=> Tree) /\ (Accepted' <=> Accepted)
  BY SameJob, JobFacts DEF RunTypeOK
<1>1. CASE Refuse
  BY <1>0, <1>1 DEF Refuse, RunRecord, RunTypeOK
<1>2. CASE Begin
  <2>1. run'.removed = run.removed
    BY <1>0, <1>2 DEF Begin, RunRecord
  <2>2. pc' \in {"done", "create"} /\ (tree'.open => (Tree /\ pc' = "create") \/ tree.open)
    BY <1>0, <1>2 DEF Begin, RunTypeOK
  <2>3. QED BY <1>0, <1>2, <2>1, <2>2 DEF Begin, RunTypeOK
<1>3. CASE Expire
  BY <1>0, <1>3 DEF Expire, Authenticated, RunTypeOK
<1>4. CASE Create
  <2>1. run'.removed = run.removed
    BY <1>0, <1>4, ThrownKeeps DEF Create, Throw
  <2>2. QED BY <1>0, <1>4, <2>1 DEF Create, Throw, RunTypeOK
<1>5. CASE Start
  <2>1. run'.removed = run.removed
    <3>1. [run EXCEPT !.pid = TRUE, !.armed = TRUE, !.observing = Files].removed = run.removed
      BY <1>0 DEF RunRecord
    <3>2. \A kind : Thrown(kind, run).removed = run.removed
      BY <1>0, ThrownKeeps
    <3>3. QED BY <1>5, <3>1, <3>2, Zenon DEF Start, Throw
  <2>2. vmm' \in {"down", "up"} /\ pc' \in {"finally", "dispatch"}
    BY <1>0, <1>5 DEF Start, Throw, RunTypeOK
  <2>3. QED BY <1>0, <1>5, <2>1, <2>2 DEF Start, RunTypeOK
<1>6. CASE Dispatch
  <2>1. run'.removed = run.removed
    <3>1. [run EXCEPT !.dispatched = TRUE] \in RunRecord /\ [run EXCEPT !.dispatched = TRUE].removed = run.removed
      <4>1. [run EXCEPT !.dispatched = TRUE] \in RunRecord
        BY <1>0, RunUpdate
      <4>2. [run EXCEPT !.dispatched = TRUE].removed = run.removed
        BY <1>0 DEF RunRecord
      <4>3. QED BY <4>1, <4>2
    <3>2. /\ Thrown("failure", run).removed = run.removed
          /\ Thrown("failure", [run EXCEPT !.dispatched = TRUE]).removed = run.removed
      BY <1>0, <3>1, ThrownKeeps
    <3>3. QED BY <1>6, <3>1, <3>2, Zenon DEF Dispatch, Throw
  <2>2. pc' \in {"finally", "running"} /\ guest' \in {guest, "running"}
    BY <1>6, Zenon DEF Dispatch, Throw
  <2>3. QED BY <1>0, <1>6, <2>1, <2>2 DEF Dispatch, RunTypeOK
<1>7. ASSUME NEW path \in Paths, NEW op \in FileOps, NEW n \in 0..1, FileRequest(path, op, n)
      PROVE  Stages'
  <2>1. run'.removed = run.removed /\ run'.pid = run.pid /\ run'.closeError = run.closeError
    BY <1>0, <1>7 DEF FileRequest, RunRecord
  <2>2. QED BY <1>0, <1>7, <2>1 DEF FileRequest, RunTypeOK
<1>8. ASSUME NEW path \in Paths, NEW op \in TreeOps, TreeOperation(path, op)
      PROVE  Stages'
  BY <1>0, <1>8 DEF TreeOperation
<1>9. ASSUME NEW n \in 1..2, WriteOutput(n)
      PROVE  Stages'
  <2>1. run'.removed = run.removed /\ run'.pid = run.pid /\ run'.closeError = run.closeError
    BY <1>0, <1>9 DEF WriteOutput, RunRecord
  <2>2. QED BY <1>0, <1>9, <2>1 DEF WriteOutput
<1>10. CASE CancelRun
  <2>1. run'.removed = run.removed /\ run'.pid = run.pid /\ run'.closeError = run.closeError
    BY <1>0, <1>10 DEF CancelRun, RunRecord
  <2>2. QED BY <1>0, <1>10, <2>1 DEF CancelRun
<1>11. CASE WallTimeExpires
  <2>1. run'.removed = run.removed /\ run'.pid = run.pid /\ run'.closeError = run.closeError
    BY <1>0, <1>11 DEF WallTimeExpires, RunRecord
  <2>2. QED BY <1>0, <1>11, <2>1 DEF WallTimeExpires
<1>12. CASE Burn
  BY <1>0, <1>12 DEF Burn
<1>13. CASE SampleCpu
  <2>1. Sampled(run) \in RunRecord /\ Sampled(run).removed = run.removed
    BY <1>0, SampledType, SampledKeeps DEF RunTypeOK
  <2>2. PICK r \in RunRecord : r = Sampled(run)
    BY <2>1
  <2>3. run'.removed = run.removed
    BY <1>13, <2>1, <2>2 DEF SampleCpu, RunRecord
  <2>4. QED BY <1>0, <1>13, <2>3 DEF SampleCpu
<1>14. CASE RunnerDies
  BY <1>0, <1>14 DEF RunnerDies
<1>15. ASSUME NEW exit \in {"zero", "nonzero"}, NEW usage \in Usages, NEW removed \in BOOLEAN,
              ExecReturns(exit, usage, removed)
       PROVE  Stages'
  BY <1>0, <1>15 DEF ExecReturns, RunTypeOK
<1>16. ASSUME NEW kind \in {"isolation", "failure"}, ExecRejects(kind)
       PROVE  Stages'
  <2>1. run'.removed = run.removed
    BY <1>0, <1>16, ThrownKeeps DEF ExecRejects, Throw
  <2>2. guest # "ended" /\ guest' \in {"none", guest}
    BY <1>16 DEF ExecRejects
  <2>3. QED BY <1>0, <1>16, <2>1, <2>2 DEF ExecRejects, Throw, RunTypeOK
<1>17. ASSUME NEW destroyed \in BOOLEAN, Finally(destroyed)
       PROVE  Stages'
  <2>1. PICK r : r = [run EXCEPT !.armed = FALSE, !.pid = @ \/ vmm = "up"]
    OBVIOUS
  <2>2. r \in RunRecord /\ r.removed = run.removed /\ (vmm = "up" => r.pid)
    <3>1. PICK p \in BOOLEAN : p = (run.pid \/ vmm = "up")
      BY <1>0, Zenon
    <3>2. r = [run EXCEPT !.armed = FALSE, !.pid = p]
      BY <2>1, <3>1, Zenon
    <3>3. r \in RunRecord /\ r.removed = run.removed /\ r.pid = p
      BY <1>0, <3>2 DEF RunRecord
    <3>4. QED BY <3>1, <3>3
  <2>3. run'.removed = run.removed /\ (vmm = "up" => run'.pid)
    BY <1>17, <2>1, <2>2, SampledKeeps DEF Finally
  <2>4. ~tree'.open
    BY <1>0, <1>17 DEF Finally, Disposed, RunTypeOK
  <2>5. vmm' = vmm /\ ((pc' = "close" /\ vmm # "none") \/ (pc' = "settle" /\ vmm = "none"))
    BY <1>17, Zenon DEF Finally, Vm
  <2>6. QED BY <1>0, <1>17, <2>3, <2>4, <2>5 DEF Finally, RunTypeOK
<1>18. ASSUME NEW fails \in BOOLEAN, CloseRunner(fails)
       PROVE  Stages'
  <2>1. run'.closeError = fails /\ run'.removed = run.removed
    BY <1>0, <1>18 DEF CloseRunner, RunRecord
  <2>2. QED BY <1>0, <1>18, <2>1 DEF CloseRunner, RunTypeOK
<1>19. CASE Settle
  <2>1. run'.removed = run.removed
    BY <1>0, <1>19 DEF Settle, RunRecord
  <2>2. QED BY <1>0, <1>19, <2>1 DEF Settle, RunTypeOK
<1>20. QED
  BY <1>1, <1>2, <1>3, <1>4, <1>5, <1>6, <1>7, <1>8, <1>9, <1>10, <1>11, <1>12, <1>13, <1>14,
     <1>15, <1>16, <1>17, <1>18, <1>19 DEF RunnerNext


\* Every step keeps bookings and files together, below the limit.
LEMMA BookedStep ==
  ASSUME RunTypeOK, Stages, Booked, RunnerNext
  PROVE  Booked'
<1>0. /\ job \in Jobs /\ (Files <=> ~Tree)
      /\ job' = job /\ (Files' <=> Files) /\ (Tree' <=> Tree) /\ (Accepted' <=> Accepted)
      /\ (\A l : Limit(l)' = Limit(l)) /\ (\A p : Writable(p)' <=> Writable(p))
  BY SameJob, JobFacts DEF RunTypeOK
<1>1. CASE UNCHANGED <<output, storage, files, appender, effects>>
  BY <1>0, <1>1 DEF Booked, Total
<1>2. ASSUME NEW path \in Paths, NEW op \in FileOps, NEW n \in 0..1, FileRequest(path, op, n)
      PROVE  Booked'
  <2>0. Files /\ Accepted /\ output' = output /\ n \in Nat
    BY <1>2 DEF FileRequest, Reaches, Stages
  <2>1. effects'.denied \/ effects'.observed => effects'.attempted
    BY <1>2, <2>0 DEF FileRequest, Booked, RunTypeOK
  <2>2. CASE storage'.sizes = storage.sizes /\ UNCHANGED <<files, appender>>
    BY <1>0, <2>0, <2>1, <2>2 DEF Booked, Total
  <2>3. ASSUME NEW next, next = BookedLength(storage.sizes[path], op, n), Writable(path), op \in Changes,
               ~(Projected(path, next) > Limit("storage")),
               storage' = [storage EXCEPT !.sizes[path] = next],
               files' = [files EXCEPT ![path] = StoredLength(@, op, n, appender[path].at)],
               appender' = [appender EXCEPT ![path] = Appending(@, files[path], op, n)]
        PROVE  Booked'
    <3>1. path \in Writes /\ Limit("storage") \in Nat
      BY <1>0, <2>0, <2>3, JobFacts, GrantedLimits
    <3>2. storage.sizes[path] \in Nat /\ files[path] \in Nat /\ appender[path] \in Descriptor
      BY <3>1 DEF RunTypeOK
    <3>3. /\ next \in Nat
          /\ Covers(storage.sizes[path], files[path], appender[path]) =>
               Covers(next, StoredLength(files[path], op, n, appender[path].at),
                      Appending(appender[path], files[path], op, n))
      BY <2>0, <2>3, <3>2, ChangeCovered
    <3>4. /\ storage'.sizes = [storage.sizes EXCEPT ![path] = next]
          /\ files'[path] = StoredLength(files[path], op, n, appender[path].at)
          /\ appender'[path] = Appending(appender[path], files[path], op, n)
      BY <2>3, <3>1 DEF RunTypeOK
    <3>5. Total(storage'.sizes) <= Limit("storage")
      <4>1. Projected(path, next) \in Nat
        BY <3>1, <3>3 DEF Projected, Total, RunTypeOK, Writes
      <4>2. QED BY <2>3, <3>1, <3>4, <4>1 DEF Projected
    <3>6. ASSUME NEW f \in Writes
          PROVE  /\ files'[f] > 0 => Writable(f)
                 /\ Covers(storage'.sizes[f], files'[f], appender'[f])
      <4>1. CASE f = path
        <5>1. Covers(storage.sizes[path], files[path], appender[path])
          BY <2>0, <3>1 DEF Booked
        <5>2. storage'.sizes[path] = next
          BY <3>1, <3>4 DEF RunTypeOK
        <5>3. QED BY <2>3, <3>3, <3>4, <4>1, <5>1, <5>2
      <4>2. CASE f # path
        <5>1. storage'.sizes[f] = storage.sizes[f] /\ files'[f] = files[f] /\ appender'[f] = appender[f]
          BY <2>3, <3>4, <4>2 DEF RunTypeOK
        <5>2. QED BY <2>0, <5>1 DEF Booked
      <4>3. QED BY <4>1, <4>2
    <3>7. QED BY <1>0, <2>0, <2>1, <3>5, <3>6 DEF Booked, Total
  <2>4. QED
    <3>1. CASE storage' = [storage EXCEPT !.exhausted = TRUE] /\ UNCHANGED <<files, appender>>
      BY <2>2, <3>1 DEF RunTypeOK
    <3>2. QED BY <1>2, <2>2, <2>3, <3>1, RequestCases
<1>3. ASSUME NEW path \in Paths, NEW op \in TreeOps, TreeOperation(path, op)
      PROVE  Booked'
  BY <1>0, <1>3 DEF TreeOperation, Booked
<1>4. ASSUME NEW n \in 1..2, WriteOutput(n)
      PROVE  Booked'
  <2>1. Limit("output") \in Nat /\ output.accepted <= Limit("output") /\ output.accepted \in Nat
    BY <1>0, <1>4, GrantedLimits DEF WriteOutput, Stages, Booked, Underway, RunTypeOK
  <2>2. output'.accepted <= Limit("output")
    BY <1>4, <2>1 DEF WriteOutput
  <2>3. UNCHANGED <<storage, files, appender, effects>>
    BY <1>4 DEF WriteOutput
  <2>4. QED BY <1>0, <2>2, <2>3 DEF Booked, Total
<1>5. QED
  <2>1. \/ \E path \in Paths, op \in FileOps, n \in 0..1 : FileRequest(path, op, n)
        \/ \E path \in Paths, op \in TreeOps : TreeOperation(path, op)
        \/ \E n \in 1..2 : WriteOutput(n)
        \/ UNCHANGED <<output, storage, files, appender, effects>>
    BY Zenon DEF RunnerNext, Refuse, Begin, Expire, Create, Start, Dispatch, CancelRun,
       WallTimeExpires, Burn, SampleCpu, RunnerDies, ExecReturns, ExecRejects, Finally, CloseRunner,
       Settle
  <2>2. QED BY <1>1, <1>2, <1>3, <1>4, <2>1

\* Every step keeps the registry and the seal in agreement.
LEMMA RegisteredStep ==
  ASSUME RunTypeOK, Stages, Registered, RunnerNext
  PROVE  Registered'
<1>1. CASE UNCHANGED <<lease, evidence>> /\ pc # "invoke" /\ (pc' = "done" <=> pc = "done")
           /\ (pc' # "invoke") /\ (vmm' = "up" => vmm = "up" \/ pc # "done")
  BY <1>1 DEF Registered
<1>2. CASE Refuse
  BY <1>2, SameJob DEF Refuse, Registered, Stages
<1>3. CASE Begin
  BY <1>3 DEF Begin, Registered, Stages, RunTypeOK
<1>4. CASE Expire
  BY <1>4 DEF Expire, Authenticated, Registered, RunTypeOK
<1>5. CASE Settle
  <2>1. pc = "settle" /\ pc' = "done" /\ vmm' = vmm
    BY <1>5 DEF Settle
  <2>2. CASE Authenticated
    <3>1. lease'.status \in {"completed", "revoked"}
      BY <1>5, <2>2 DEF Settle
    <3>2. QED BY <2>1, <3>1 DEF Registered
  <2>3. CASE ~Authenticated
    <3>1. lease' = lease /\ evidence' = evidence
      BY <1>5, <2>3 DEF Settle
    <3>2. QED BY <2>1, <2>3, <3>1 DEF Registered, Authenticated, RunTypeOK
  <2>4. QED BY <2>2, <2>3
<1>6. QED
  <2>1. \/ Refuse \/ Begin \/ Expire \/ Settle
        \/ /\ UNCHANGED <<lease, evidence, vmm>> /\ pc # "invoke" /\ pc' = pc
        \/ /\ UNCHANGED <<lease, evidence>> /\ pc \in Underway \cup {"finally", "close"}
           /\ pc' \notin {"invoke", "done"}
        \/ /\ UNCHANGED <<lease, evidence>> /\ pc' = pc /\ vmm = "up"
    <3>1. pc = "invoke" => vmm = "none" 
      BY DEF Stages
    <3>2. CASE Create \/ Start \/ Dispatch
      BY <3>1, <3>2 DEF Underway, Create, Start, Dispatch, Throw, Reaches
    <3>3. CASE \/ \E path \in Paths, op \in FileOps, n \in 0..1 : FileRequest(path, op, n)
               \/ \E path \in Paths, op \in TreeOps : TreeOperation(path, op)
               \/ \E n \in 1..2 : WriteOutput(n)
      <4>1. ASSUME NEW path, NEW op, NEW n, FileRequest(path, op, n)
            PROVE  UNCHANGED <<lease, evidence, vmm>> /\ pc # "invoke" /\ pc' = pc
        BY <3>1, <4>1, Zenon DEF FileRequest, Reaches
      <4>2. ASSUME NEW path, NEW op, TreeOperation(path, op)
            PROVE  UNCHANGED <<lease, evidence, vmm>> /\ pc # "invoke" /\ pc' = pc
        BY <3>1, <4>2, Zenon DEF TreeOperation, Reaches
      <4>3. ASSUME NEW n, WriteOutput(n)
            PROVE  UNCHANGED <<lease, evidence, vmm>> /\ pc # "invoke" /\ pc' = pc
        BY <4>3, Zenon DEF WriteOutput
      <4>4. UNCHANGED <<lease, evidence, vmm>> /\ pc # "invoke" /\ pc' = pc
        BY <3>3, <4>1, <4>2, <4>3, Zenon
      <4>5. QED BY <4>4
    <3>4. CASE CancelRun \/ WallTimeExpires \/ Burn \/ SampleCpu \/ RunnerDies
      BY <3>4 DEF Underway, Waiting, CancelRun, WallTimeExpires, Burn, SampleCpu, RunnerDies
    <3>5. ASSUME NEW exit \in {"zero", "nonzero"}, NEW usage \in Usages, NEW removed \in BOOLEAN,
                 ExecReturns(exit, usage, removed)
          PROVE  UNCHANGED <<lease, evidence>> /\ pc \in Underway /\ pc' \notin {"invoke", "done"}
      BY <3>5 DEF Underway, ExecReturns
    <3>6. ASSUME NEW kind \in {"isolation", "failure"}, ExecRejects(kind)
          PROVE  UNCHANGED <<lease, evidence>> /\ pc \in Underway /\ pc' \notin {"invoke", "done"}
      BY <3>6 DEF Underway, ExecRejects, Throw
    <3>7. ASSUME NEW destroyed \in BOOLEAN, Finally(destroyed)
          PROVE  UNCHANGED <<lease, evidence>> /\ pc = "finally" /\ pc' \notin {"invoke", "done"}
      BY <3>7 DEF Finally
    <3>8. ASSUME NEW fails \in BOOLEAN, CloseRunner(fails)
          PROVE  UNCHANGED <<lease, evidence>> /\ pc = "close" /\ pc' \notin {"invoke", "done"}
      BY <3>8 DEF CloseRunner
    <3>9. QED BY <3>2, <3>3, <3>4, <3>5, <3>6, <3>7, <3>8, Zenon DEF RunnerNext
  <2>2. pc = "invoke" => vmm = "none"
    BY DEF Stages
  <2>3. QED BY <1>1, <1>2, <1>3, <1>4, <1>5, <2>1, <2>2 DEF Underway


\* An error before the end concludes the run, and is no success.
LEMMA ThrownConcludes ==
  ASSUME NEW r \in RunRecord, NEW kind, r.outcome = "transport_failure", job \in Jobs
  PROVE  Concluded(Thrown(kind, r))
<1>1. /\ Thrown(kind, r).outcome \in CapabilityOutcomes
      /\ Thrown(kind, r).outcome \notin {"teardown_failure", "children_exhausted", "success", "command_failed"}
  BY DEF Thrown, RunRecord, CapabilityOutcomes
<1>2. QED BY <1>1 DEF Concluded

\* Every step keeps the outcome: none before the end, the concluded one after it.
LEMMA OutcomesStep ==
  ASSUME RunTypeOK, Stages, Booked, Outcomes, RunnerNext
  PROVE  Outcomes'
<1> USE DEF Underway, Ending
<1>0. /\ job \in Jobs /\ run \in RunRecord /\ cpu \in Nat /\ (Files <=> ~Tree)
      /\ job' = job /\ (Files' <=> Files) /\ (Accepted' <=> Accepted)
      /\ (\A l : Limit(l)' = Limit(l)) /\ (Files /\ Accepted => Limit("cpu") \in Nat)
  BY SameJob, JobFacts, GrantedLimits DEF RunTypeOK
\* Nothing but the run's stage and flags that no outcome depends on.
<1>1. ASSUME run'.outcome = run.outcome, run'.error = run.error, run'.admission = run.admission,
             run'.exit = run.exit, run'.usage = run.usage, run'.removed = run.removed,
             run'.hostCpu = run.hostCpu, run'.sampled = run.sampled,
             UNCHANGED <<output, storage, effects>>,
             (pc' \in Ending => pc \in Ending),
             (pc' \in Underway \cup {"invoke"} => pc \in Underway \cup {"invoke"})
      PROVE  Outcomes'
  BY <1>0, <1>1 DEF Outcomes, Concluded
\* An error.
<1>2. ASSUME NEW kind, NEW r \in RunRecord, run' = Thrown(kind, r), pc' = "finally",
             r.outcome = "transport_failure", r.hostCpu = run.hostCpu, r.sampled = run.sampled,
             UNCHANGED <<output, storage, effects>>
      PROVE  Outcomes'
  <2>1. Concluded(Thrown(kind, r))
    BY <1>0, <1>2, ThrownConcludes
  <2>2. run'.hostCpu = run.hostCpu /\ run'.sampled = run.sampled
    BY <1>2, ThrownKeeps
  <2>3. Concluded(run)'
    BY <1>0, <1>2, <2>1 DEF Concluded
  <2>4. QED BY <1>0, <1>2, <2>2, <2>3 DEF Outcomes
\* Requests of the guest.
<1>3. ASSUME Reaches, UNCHANGED <<pc, output>>,
             run' = run \/ run' = [run EXCEPT !.aborted = TRUE],
             storage'.exhausted \in BOOLEAN, effects'.denied \in BOOLEAN
      PROVE  Outcomes'
  <2>1. /\ run'.outcome = run.outcome /\ run'.error = run.error /\ run'.admission = run.admission
        /\ run'.exit = run.exit /\ run'.usage = run.usage /\ run'.removed = run.removed
        /\ run'.hostCpu = run.hostCpu /\ run'.sampled = run.sampled
    BY <1>0, <1>3 DEF RunRecord
  <2>2. ~run.removed
    BY <1>3 DEF Reaches, Stages
  <2>3. QED BY <1>0, <1>3, <2>1, <2>2 DEF Outcomes, Concluded
<1>4. CASE Refuse
  BY <1>0, <1>4 DEF Refuse, Outcomes, RunRecord
<1>5. CASE Begin
  <2>1. CASE pc' = "done"
    <3>1. run'.hostCpu = run.hostCpu /\ run'.sampled = run.sampled
      BY <1>0, <1>5, <2>1 DEF Begin, RunRecord
    <3>2. QED BY <1>0, <2>1, <3>1 DEF Outcomes
  <2>2. CASE pc' # "done"
    <3>1. pc = "invoke" /\ pc' = "create" /\ run' = [run EXCEPT !.cancelled = job.aborted, !.aborted = job.aborted]
      BY <1>5, <2>2 DEF Begin
    <3>2. QED BY <1>0, <1>1, <1>5, <3>1 DEF Begin, RunRecord
  <2>3. QED BY <2>1, <2>2
<1>6. CASE Expire
  BY <1>1, <1>6 DEF Expire
<1>7. CASE Create
  <2>1. CASE pc' = "start"
    BY <1>1, <1>7, <2>1 DEF Create, Throw
  <2>2. ASSUME NEW kind, Throw(kind) PROVE Outcomes'
    BY <1>0, <1>2, <1>7, <2>2 DEF Create, Throw, Outcomes
  <2>3. QED BY <1>7, <2>1, <2>2 DEF Create
<1>8. CASE Start
  <2>1. CASE run' = [run EXCEPT !.pid = TRUE, !.armed = TRUE, !.observing = Files] /\ pc' = "dispatch"
    <3>1. PICK b : b = Files
      OBVIOUS
    <3>2. run' = [run EXCEPT !.pid = TRUE, !.armed = TRUE, !.observing = b]
      BY <2>1, <3>1
    <3>3. /\ run'.outcome = run.outcome /\ run'.error = run.error /\ run'.admission = run.admission
          /\ run'.exit = run.exit /\ run'.usage = run.usage /\ run'.removed = run.removed
          /\ run'.hostCpu = run.hostCpu /\ run'.sampled = run.sampled
      BY <1>0, <3>2 DEF RunRecord
    <3>4. QED BY <1>1, <1>8, <2>1, <3>3 DEF Start
  <2>2. ASSUME NEW kind, Throw(kind) PROVE Outcomes'
    BY <1>0, <1>2, <1>8, <2>2 DEF Start, Throw, Outcomes
  <2>3. QED BY <1>8, <2>1, <2>2, Zenon DEF Start
<1>9. CASE Dispatch
  <2>0. [run EXCEPT !.dispatched = TRUE] \in RunRecord
    BY <1>0, RunUpdate
  <2>1. /\ [run EXCEPT !.dispatched = TRUE].outcome = run.outcome
        /\ [run EXCEPT !.dispatched = TRUE].error = run.error
        /\ [run EXCEPT !.dispatched = TRUE].admission = run.admission
        /\ [run EXCEPT !.dispatched = TRUE].exit = run.exit
        /\ [run EXCEPT !.dispatched = TRUE].usage = run.usage
        /\ [run EXCEPT !.dispatched = TRUE].removed = run.removed
        /\ [run EXCEPT !.dispatched = TRUE].hostCpu = run.hostCpu
        /\ [run EXCEPT !.dispatched = TRUE].sampled = run.sampled
    BY <1>0 DEF RunRecord
  <2>2. pc = "dispatch" /\ run.outcome = "transport_failure" /\ UNCHANGED <<output, storage, effects>>
    BY <1>9 DEF Dispatch, Outcomes
  <2>3. \/ Throw("failure")
        \/ pc' = "finally" /\ run' = Thrown("failure", [run EXCEPT !.dispatched = TRUE])
        \/ pc' = "running" /\ run' = [run EXCEPT !.dispatched = TRUE]
    BY <1>9, Zenon DEF Dispatch
  <2>4. CASE Throw("failure")
    BY <1>0, <1>2, <2>2, <2>4 DEF Throw
  <2>5. CASE pc' = "finally" /\ run' = Thrown("failure", [run EXCEPT !.dispatched = TRUE])
    <3>1. PICK r : r = [run EXCEPT !.dispatched = TRUE]
      OBVIOUS
    <3>2. r \in RunRecord /\ r.outcome = "transport_failure" /\ r.hostCpu = run.hostCpu /\ r.sampled = run.sampled
      BY <2>0, <2>1, <2>2, <3>1
    <3>3. QED BY <1>2, <2>2, <2>5, <3>1, <3>2
  <2>6. CASE pc' = "running" /\ run' = [run EXCEPT !.dispatched = TRUE]
    BY <1>1, <2>1, <2>2, <2>6
  <2>7. QED BY <2>3, <2>4, <2>5, <2>6
<1>10. ASSUME NEW path \in Paths, NEW op \in FileOps, NEW n \in 0..1, FileRequest(path, op, n)
       PROVE  Outcomes'
  <2>1. storage'.exhausted \in BOOLEAN /\ effects'.denied \in BOOLEAN
    BY <1>10, RunTypeStep DEF RunTypeOK
  <2>2. run' = run \/ run' = [run EXCEPT !.aborted = TRUE]
    BY <1>10, Zenon DEF FileRequest
  <2>3. QED BY <1>3, <1>10, <2>1, <2>2 DEF FileRequest
<1>11. ASSUME NEW path \in Paths, NEW op \in TreeOps, TreeOperation(path, op)
       PROVE  Outcomes'
  <2>1. storage'.exhausted \in BOOLEAN /\ effects'.denied \in BOOLEAN
    BY <1>11, RunTypeStep DEF RunTypeOK
  <2>2. QED BY <1>3, <1>11, <2>1 DEF TreeOperation
<1>12. ASSUME NEW n \in 1..2, WriteOutput(n)
       PROVE  Outcomes'
  <2>1. /\ run'.outcome = run.outcome /\ run'.error = run.error /\ run'.admission = run.admission
        /\ run'.hostCpu = run.hostCpu /\ run'.sampled = run.sampled
    BY <1>0, <1>12 DEF WriteOutput, RunRecord
  <2>2. pc' = "running" /\ pc = "running"
    BY <1>12 DEF WriteOutput
  <2>3. QED BY <1>0, <2>1, <2>2 DEF Outcomes
<1>13. CASE CancelRun
  BY <1>0, <1>1, <1>13 DEF CancelRun, RunRecord
<1>14. CASE WallTimeExpires
  <2>1. /\ run'.outcome = run.outcome /\ run'.error = run.error /\ run'.admission = run.admission
        /\ run'.exit = run.exit /\ run'.usage = run.usage /\ run'.removed = run.removed
        /\ run'.hostCpu = run.hostCpu /\ run'.sampled = run.sampled
    BY <1>0, <1>14 DEF WallTimeExpires, RunRecord
  <2>2. pc = "running" /\ pc' \in {"running", "crashed"}
    BY <1>14 DEF WallTimeExpires
  <2>3. QED BY <1>1, <1>14, <2>1, <2>2 DEF WallTimeExpires
<1>15. CASE Burn
  BY <1>1, <1>15 DEF Burn
\* A sample keeps the outcome and what it depends on.
<1>16. ASSUME NEW r \in RunRecord, r.hostCpu = run.hostCpu, r.sampled = run.sampled, Files /\ Accepted
       PROVE  ~Sampled(r).hostCpu => Sampled(r).sampled < Limit("cpu")
  <2>1. CASE vmm # "up"
    <3>1. Sampled(r).hostCpu = run.hostCpu /\ Sampled(r).sampled = run.sampled
      BY <1>16, <2>1 DEF Sampled, RunRecord
    <3>2. QED BY <1>16, <3>1 DEF Outcomes
  <2>2. CASE vmm = "up"
    <3>1. PICK b : b = ([r EXCEPT !.sampled = cpu].hostCpu \/ cpu >= Limit("cpu"))
      OBVIOUS
    <3>2. Sampled(r) = [r EXCEPT !.sampled = cpu, !.hostCpu = b]
      BY <2>2, <3>1, Zenon DEF Sampled
    <3>3. Sampled(r).hostCpu = b /\ Sampled(r).sampled = cpu
      BY <3>2 DEF RunRecord
    <3>4. ~Sampled(r).hostCpu => ~(cpu >= Limit("cpu"))
      BY <3>1, <3>3, Zenon
    <3>5. QED BY <1>0, <1>16, <3>3, <3>4
  <2>3. QED BY <2>1, <2>2
<1>17. CASE SampleCpu
  <2>1. PICK r \in RunRecord : r = Sampled(run)
    BY <1>0, SampledType
  <2>2. /\ r.outcome = run.outcome /\ r.error = run.error /\ r.admission = run.admission
        /\ (Files /\ Accepted /\ ~r.hostCpu => r.sampled < Limit("cpu"))
    BY <1>0, <1>16, <2>1, SampledKeeps
  <2>3. /\ run'.outcome = r.outcome /\ run'.error = r.error /\ run'.admission = r.admission
        /\ run'.hostCpu = r.hostCpu /\ run'.sampled = r.sampled
    BY <1>17, <2>1 DEF SampleCpu, RunRecord
  <2>4. pc = "running" /\ pc' = "running"
    BY <1>17 DEF SampleCpu
  <2>5. QED BY <1>0, <2>2, <2>3, <2>4 DEF Outcomes
<1>18. CASE RunnerDies
  BY <1>1, <1>18 DEF RunnerDies
<1>19. ASSUME NEW exit \in {"zero", "nonzero"}, NEW usage \in Usages, NEW removed \in BOOLEAN,
              ExecReturns(exit, usage, removed)
       PROVE  Outcomes'
  <2>1. PICK r : r = [run EXCEPT !.exit = exit, !.usage = usage, !.removed = removed]
    OBVIOUS
  <2>2. /\ pc = "running" /\ pc' = "finally" /\ Accepted /\ UNCHANGED <<output, storage, effects>>
        /\ run.outcome = "transport_failure" /\ ~run.error /\ ~run.admission
    BY <1>19 DEF ExecReturns, Outcomes, Stages
  <2>3. /\ r \in RunRecord /\ r.outcome = "transport_failure" /\ r.hostCpu = run.hostCpu
        /\ r.sampled = run.sampled /\ ~r.error /\ ~r.admission /\ r.exit = exit /\ r.usage = usage
        /\ r.removed = removed
    BY <1>0, <2>1, <2>2 DEF RunRecord
  <2>4. CASE ~Authenticated
    BY <1>2, <1>19, <2>1, <2>2, <2>3, <2>4 DEF ExecReturns
  <2>5. CASE Authenticated
    <3>1. PICK o : o = IF Files THEN FilesOutcome(exit, usage) ELSE TreeOutcome(exit, usage)
      OBVIOUS
    <3>2. run' = [r EXCEPT !.outcome = o]
      BY <1>19, <2>1, <2>5, <3>1 DEF ExecReturns
    <3>3. /\ run'.outcome = o /\ ~run'.error /\ ~run'.admission /\ run'.exit = exit
          /\ run'.usage = usage /\ run'.hostCpu = run.hostCpu /\ run'.sampled = run.sampled
      BY <2>3, <3>2 DEF RunRecord
    <3>4. /\ o \in (CapabilityOutcomes \cup {"children_exhausted"}) \ {"teardown_failure"}
          /\ Files => o # "children_exhausted"
          /\ o = "command_failed" => exit = "nonzero"
      BY <3>1 DEF FilesOutcome, TreeOutcome, Exhausted, ExitOutcome, Exhaustions, CapabilityOutcomes
    <3>5. o = "success" =>
            /\ exit = "zero" /\ usage \in {"fine", "failed"} \cup (IF Files THEN {} ELSE {"descendant"})
            /\ ~output.overflowed /\ ~effects.denied /\ ~storage.exhausted
      BY <1>0, <3>1 DEF FilesOutcome, TreeOutcome, Exhausted, ExitOutcome, Exhaustions, Usages, Booked
    <3>6. Concluded(run)'
      BY <1>0, <2>2, <3>3, <3>4, <3>5 DEF Concluded
    <3>7. QED BY <1>0, <2>2, <3>3, <3>6 DEF Outcomes
  <2>6. QED BY <2>4, <2>5
<1>20. ASSUME NEW kind \in {"isolation", "failure"}, ExecRejects(kind)
       PROVE  Outcomes'
  BY <1>0, <1>2, <1>20 DEF ExecRejects, Throw, Outcomes
<1>21. ASSUME NEW destroyed \in BOOLEAN, Finally(destroyed)
       PROVE  Outcomes'
  <2>1. PICK r : r = [run EXCEPT !.armed = FALSE, !.pid = @ \/ vmm = "up"]
    OBVIOUS
  <2>2. /\ r \in RunRecord /\ r.hostCpu = run.hostCpu /\ r.sampled = run.sampled
        /\ r.outcome = run.outcome /\ r.error = run.error /\ r.admission = run.admission
        /\ r.exit = run.exit /\ r.usage = run.usage /\ r.removed = run.removed
    BY <1>0, <2>1 DEF RunRecord
  <2>3. run' = r \/ run' = Sampled(r)
    BY <1>21, <2>1 DEF Finally
  <2>4. /\ pc = "finally" /\ pc' \in {"close", "settle"} /\ UNCHANGED <<output, storage, effects>>
    BY <1>21, Zenon DEF Finally
  <2>5. CASE run' = r
    BY <1>1, <2>2, <2>4, <2>5
  <2>6. CASE run' = Sampled(r)
    <3>1. /\ run'.outcome = run.outcome /\ run'.error = run.error /\ run'.admission = run.admission
          /\ run'.exit = run.exit /\ run'.usage = run.usage /\ run'.removed = run.removed
      BY <2>2, <2>6, SampledKeeps
    <3>2. Concluded(run)'
      BY <1>0, <2>4, <3>1 DEF Concluded, Outcomes
    <3>3. Files /\ Accepted /\ ~run'.hostCpu => run'.sampled < Limit("cpu")
      BY <1>16, <2>2, <2>6
    <3>4. QED BY <1>0, <2>4, <3>2, <3>3 DEF Outcomes
  <2>7. QED BY <2>3, <2>5, <2>6
<1>22. ASSUME NEW fails \in BOOLEAN, CloseRunner(fails)
       PROVE  Outcomes'
  <2>1. /\ run'.outcome = run.outcome /\ run'.error = run.error /\ run'.admission = run.admission
        /\ run'.exit = run.exit /\ run'.usage = run.usage /\ run'.removed = run.removed
        /\ run'.hostCpu = run.hostCpu /\ run'.sampled = run.sampled
    BY <1>0, <1>22 DEF CloseRunner, RunRecord
  <2>2. QED BY <1>1, <1>22, <2>1 DEF CloseRunner
<1>23. CASE Settle
  <2>1. run'.hostCpu = run.hostCpu /\ run'.sampled = run.sampled
    BY <1>0, <1>23 DEF Settle, RunRecord
  <2>2. pc' = "done"
    BY <1>23 DEF Settle
  <2>3. QED BY <1>0, <2>1, <2>2 DEF Outcomes
<1>24. QED
  BY <1>4, <1>5, <1>6, <1>7, <1>8, <1>9, <1>10, <1>11, <1>12, <1>13, <1>14, <1>15, <1>17, <1>18,
     <1>19, <1>20, <1>21, <1>22, <1>23 DEF RunnerNext


\* After the end nothing that a result was made of changes, also when the VM
\* could not be stopped: its requests are refused before they have an effect.
LEMMA DoneStays ==
  ASSUME RunTypeOK, Registered, RunnerNext, pc = "done"
  PROVE  /\ UNCHANGED <<job, pc, run, output, storage, files, appender, tree, effects, evidence>>
         /\ (vmm' = "up" => vmm = "up")
         /\ lease'.verified = lease.verified
         /\ lease'.status = "completed" => lease.status = "completed"
<1>1. vmm = "up" => ~Authenticated
  BY DEF Registered, Authenticated
<1>2. CASE Expire
  BY <1>2 DEF Expire, RunTypeOK
<1>3. CASE RunnerDies
  BY <1>3 DEF RunnerDies
<1>4. ASSUME NEW path \in Paths, NEW op \in FileOps, NEW n \in 0..1, FileRequest(path, op, n)
      PROVE  UNCHANGED <<job, pc, run, output, storage, files, appender, tree, effects, evidence, vmm, lease>>
  BY <1>1, <1>4 DEF FileRequest, Reaches
<1>5. ASSUME NEW path \in Paths, NEW op \in TreeOps, TreeOperation(path, op)
      PROVE  UNCHANGED <<job, pc, run, output, storage, files, appender, tree, effects, evidence, vmm, lease>>
  BY <1>1, <1>5 DEF TreeOperation, Reaches
<1>6. QED
  <2>1. \/ Expire \/ RunnerDies
        \/ \E path \in Paths, op \in FileOps, n \in 0..1 : FileRequest(path, op, n)
        \/ \E path \in Paths, op \in TreeOps : TreeOperation(path, op)
    BY DEF RunnerNext, Refuse, Begin, Create, Start, Dispatch, WriteOutput, CancelRun, Waiting,
       WallTimeExpires, Burn, SampleCpu, ExecReturns, ExecRejects, Finally, CloseRunner, Settle
  <2>2. QED BY <1>2, <1>3, <1>4, <1>5, <2>1

\* What is booked keeps the storage within its limit.
LEMMA StorageBounded ==
  ASSUME RunTypeOK, Booked
  PROVE  StorageWithinLimit
<1>1. SUFFICES ASSUME Files, Accepted, NEW f \in Writes
               PROVE  /\ Total(storage.sizes) <= Limit("storage")
                      /\ Limit("storage") <= job.ceiling.limits["storage"]
                      /\ files[f] > 0 => f \in {p.name : p \in job.ceiling.writes}
                      /\ files[f] <= IF appender[f].cut THEN Longer(storage.sizes[f], appender[f].at)
                                                        ELSE storage.sizes[f]
  BY DEF StorageWithinLimit, Writes
<1>2. Covers(storage.sizes[f], files[f], appender[f]) /\ (files[f] > 0 => Writable(f))
  BY <1>1 DEF Booked
<1>3. QED BY <1>1, <1>2, GrantedLimits DEF Booked, Covers, RunTypeOK

\* What Settle makes of a run that was ended.
LEMMA SettleContained ==
  ASSUME RunTypeOK, Stages, Booked, Outcomes, Registered, RunContained, Settle
  PROVE  SuccessIsClean' /\ RefusedLeavesNothing' /\ ProbeIsTrue' /\ EvidenceHolds'
<1> DEFINE refused == run.admission /\ Contained
           outcome == IF ~Authenticated THEN "thrown" ELSE IF refused THEN "rejected" ELSE FinalOutcome
<1>1. /\ pc = "settle" /\ pc' = "done" /\ Accepted /\ (Files <=> ~Tree) /\ run \in RunRecord
      /\ UNCHANGED <<job, vmm, output, storage, files, appender, tree, effects>>
      /\ run' = [run EXCEPT !.outcome = outcome]
      /\ (Files' <=> Files) /\ (Tree' <=> Tree) /\ Limit("cpu")' = Limit("cpu")
  BY JobFacts DEF Settle, Stages, Ending, RunTypeOK, Files, Tree, Limit
<1>2. /\ Concluded(run) /\ ~evidence.sealed /\ ~lease.verified /\ lease.status # "completed"
      /\ ~tree.open /\ (~run.closeError => vmm # "up")
      /\ (Files /\ ~run.hostCpu => run.sampled < Limit("cpu"))
      /\ (Files => (effects.denied => effects.attempted) /\ (effects.observed => effects.attempted))
  BY <1>1 DEF Outcomes, Ending, Registered, Stages, Booked
<1>3. /\ TeardownComplete => ~run.closeError /\ (Tree => ~tree.private)
      /\ Contained => ~run.closeError /\ (Tree => ~tree.private)
  BY <1>1 DEF TeardownComplete, Contained, VmStopped, TreeTornDown
<1>4. /\ run'.outcome = outcome /\ run'.exit = run.exit /\ run'.usage = run.usage
      /\ run'.cpuLost = run.cpuLost /\ run'.sampled = run.sampled /\ run'.removed = run.removed
  BY <1>1 DEF RunRecord
<1>5. /\ FinalOutcome = "success" =>
           TeardownComplete /\ Observed = "success" /\ run.usage # "failed"
      /\ FinalOutcome = "command_failed" => Observed = "command_failed"
      /\ Observed = "success" => run.outcome = "success" /\ ~run.cpuLost /\ ~run.hostCpu
      /\ Observed = "command_failed" => run.outcome = "command_failed"
      /\ TeardownComplete <=> FinalOutcome # "teardown_failure"
      /\ FinalOutcome # "rejected" /\ FinalOutcome # "thrown"
      /\ Files => FinalOutcome \in CapabilityOutcomes
  BY <1>2 DEF FinalOutcome, Observed, Concluded, CapabilityOutcomes
<1>6. SuccessIsClean'
  <2>1. SUFFICES ASSUME run'.outcome = "success" PROVE SuccessIsClean'
    BY DEF SuccessIsClean
  <2>2. FinalOutcome = "success"
    BY <1>4, <2>1
  <2>3. /\ run.exit = "zero" /\ run.usage \in {"fine"} \cup (IF Files THEN {} ELSE {"descendant"})
        /\ ~output.overflowed /\ ~run.cpuLost /\ ~run.hostCpu
        /\ (run.removed => ~effects.denied /\ ~storage.exhausted)
        /\ ~run.closeError /\ (Tree => ~tree.private)
    BY <1>2, <1>3, <1>5, <2>2 DEF Concluded
  <2>4. QED BY <1>1, <1>2, <1>4, <2>3 DEF SuccessIsClean
<1>7. RefusedLeavesNothing'
  <2>1. SUFFICES ASSUME run'.outcome = "rejected" PROVE RefusedLeavesNothing'
    BY DEF RefusedLeavesNothing
  <2>2. refused /\ Authenticated
    BY <1>4, <1>5, <2>1
  <2>3. evidence' = evidence
    BY <2>2 DEF Settle
  <2>4. QED BY <1>1, <1>2, <1>3, <2>2, <2>3 DEF RefusedLeavesNothing
<1>8. ProbeIsTrue'
  <2>1. CASE ~Authenticated
    <3>1. lease' = lease
      BY <2>1 DEF Settle
    <3>2. QED BY <1>2, <3>1 DEF ProbeIsTrue
  <2>2. CASE Authenticated
    <3>1. /\ lease'.status = IF TeardownComplete /\ ~refused THEN "completed" ELSE "revoked"
          /\ lease'.verified = (TeardownComplete \/ refused)
      BY <2>2 DEF Settle
    <3>2. lease'.status = "completed" => lease'.verified /\ evidence'.sealed
      <4>1. SUFFICES ASSUME TeardownComplete, ~refused PROVE lease'.verified /\ evidence'.sealed
        BY <3>1
      <4>2. evidence' = SealedRun(outcome)
        BY <2>2, <4>1 DEF Settle
      <4>3. QED BY <3>1, <4>1, <4>2 DEF SealedRun
    <3>3. lease'.verified => vmm # "up" /\ (Tree => ~tree.private)
      BY <1>2, <1>3, <3>1
    <3>4. QED BY <1>1, <1>2, <3>2, <3>3 DEF ProbeIsTrue
  <2>3. QED BY <2>1, <2>2
<1>9. EvidenceHolds'
  <2>1. SUFFICES ASSUME Files, evidence'.sealed PROVE EvidenceHolds'
    BY <1>1 DEF EvidenceHolds
  <2>2. Authenticated /\ ~refused
    BY <1>2, <2>1 DEF Settle
  <2>3. evidence' = SealedRun(outcome) /\ outcome = FinalOutcome
    BY <2>2 DEF Settle
  <2>4. PICK o : o = outcome
    OBVIOUS
  <2> HIDE DEF outcome
  <2>5. Verifies(SealedRun(o))
    <3>1. /\ SealedRun(o).outcome = o /\ SealedRun(o).exit = run.exit
          /\ SealedRun(o).error = (run.error \/ o # Observed \/ (Observed # run.outcome /\ run.cpuLost))
          /\ SealedRun(o).measured = (run.usage \notin {"none", "failed"})
          /\ SealedRun(o).gates = TeardownComplete
          /\ SealedRun(o).attempted = effects.attempted /\ SealedRun(o).denied = effects.denied
          /\ SealedRun(o).observed = effects.observed
      BY DEF SealedRun
    <3>2. o = FinalOutcome
      BY <2>3, <2>4
    <3>3. o = "success" => run.usage = "fine" /\ run.exit = "zero" /\ ~run.error /\ Observed = "success"
                            /\ run.outcome = "success"
      BY <1>2, <1>5, <2>1, <3>2 DEF Concluded
    <3>4. o = "command_failed" => run.exit = "nonzero"
      BY <1>2, <1>5, <3>2 DEF Concluded
    <3>5. QED BY <1>2, <1>5, <2>1, <3>1, <3>2, <3>3, <3>4 DEF Verifies
  <2>6. SealedRun(o).outcome = o /\ SealedRun(o).digests = files
    BY DEF SealedRun
  <2>7. QED BY <1>1, <1>4, <2>3, <2>4, <2>5, <2>6 DEF EvidenceHolds, Verifies
<1>10. QED BY <1>6, <1>7, <1>8, <1>9

\* Every step keeps a run contained: nothing is settled before Settle, and what
\* is settled stays.
LEMMA ContainedStep ==
  ASSUME RunInv, RunnerNext, RunTypeOK', Booked', Registered'
  PROVE  RunContained'
<1> USE DEF RunInv
<1>1. StorageWithinLimit'
  BY StorageBounded, PTL
<1>2. CASE pc = "done"
  <2>1. /\ UNCHANGED <<job, pc, run, output, storage, files, appender, tree, effects, evidence>>
        /\ (vmm' = "up" => vmm = "up") /\ lease'.verified = lease.verified
        /\ lease'.status = "completed" => lease.status = "completed"
    BY <1>2, DoneStays
  <2>2. /\ (Files' <=> Files) /\ (Tree' <=> Tree) /\ (Accepted' <=> Accepted) /\ Limit("cpu")' = Limit("cpu")
    BY SameJob
  <2>3. SuccessIsClean'
    BY <2>1, <2>2 DEF RunContained, SuccessIsClean
  <2>4. RefusedLeavesNothing'
    BY <2>1, <2>2 DEF RunContained, RefusedLeavesNothing
  <2>5. ProbeIsTrue'
    BY <2>1, <2>2 DEF RunContained, ProbeIsTrue
  <2>6. EvidenceHolds'
    BY <2>1, <2>2 DEF RunContained, EvidenceHolds, Verifies
  <2>7. QED BY <1>1, <2>3, <2>4, <2>5, <2>6 DEF RunContained
<1>3. CASE pc' # "done"
  BY <1>1, <1>3 DEF RunContained, SuccessIsClean, RefusedLeavesNothing, ProbeIsTrue, EvidenceHolds, Registered
<1>4. CASE Settle
  BY <1>1, <1>4, SettleContained DEF RunContained
<1>5. ASSUME Refuse \/ Begin, pc' = "done"
      PROVE  RunContained'
  <2>1. /\ pc = "invoke" /\ vmm' = "none" /\ evidence' = evidence /\ tree' = tree /\ ~tree.open
        /\ run'.outcome = "rejected" /\ (Accepted' /\ Tree' => FALSE)
        /\ lease'.verified = lease.verified /\ lease'.status # "completed"
    <3>1. CASE Refuse
      BY <1>5, <3>1, SameJob DEF Refuse, Stages, Registered, RunTypeOK, RunRecord
    <3>2. CASE Begin
      <4>1. Files /\ vmm = "none" /\ ~tree.open /\ ~Tree
        BY <1>5, <3>2, JobFacts DEF Begin, Stages, RunTypeOK
      <4>2. QED BY <1>5, <3>2, <4>1, SameJob DEF Begin, RunTypeOK, RunRecord
    <3>3. QED BY <1>5, <3>1, <3>2
  <2>2. ~evidence'.sealed /\ ~lease'.verified
    BY <2>1 DEF Registered
  <2>3. QED
    BY <1>1, <2>1, <2>2 DEF RunContained, SuccessIsClean, RefusedLeavesNothing, ProbeIsTrue, EvidenceHolds
<1>6. QED
  <2>1. pc = "done" \/ pc' # "done" \/ Settle \/ ((Refuse \/ Begin) /\ pc' = "done")
    BY Zenon DEF RunnerNext, Expire, Create, Start, Dispatch, FileRequest, TreeOperation, WriteOutput, CancelRun,
       WallTimeExpires, Burn, SampleCpu, RunnerDies, ExecReturns, ExecRejects, Finally, CloseRunner, Throw
  <2>2. QED BY <1>2, <1>3, <1>4, <1>5, <2>1


\* The invariant holds at first.
LEMMA RunInvInit == RunnerInit => RunInv
<1> SUFFICES ASSUME RunnerInit PROVE RunInv
  OBVIOUS
<1>1. RunTypeOK
  BY RunTypeInit
<1>2. job \in Jobs
  BY DEF RunnerInit
<1>3. Stages
  BY DEF RunnerInit, Stages, Underway, Ending
<1>4. Booked
  <2>1. /\ output.accepted = 0 /\ ~storage.exhausted /\ Total(storage.sizes) = 0
        /\ (\A f \in Writes : files[f] = 0 /\ Covers(storage.sizes[f], files[f], appender[f]))
        /\ ~effects.denied /\ ~effects.observed
    BY DEF RunnerInit, Total, Writes, Covers, Longer
  <2>2. Accepted => Limit("output") \in Nat /\ (Files => Limit("storage") \in Nat)
    BY <1>2, GrantedLimits
  <2>3. QED BY <2>1, <2>2 DEF Booked
<1>5. Outcomes
  BY <1>2, GrantedLimits DEF RunnerInit, Outcomes, Underway, Ending
<1>6. Registered
  BY DEF RunnerInit, Registered, NoEvidence
<1>7. RunContained
  <2>1. StorageWithinLimit
    BY <1>1, <1>4, StorageBounded
  <2>2. pc = "invoke" /\ ~lease.verified /\ lease.status = "none" /\ ~evidence.sealed
    BY DEF RunnerInit, NoEvidence
  <2>3. QED
    BY <2>1, <2>2 DEF RunContained, SuccessIsClean, RefusedLeavesNothing, ProbeIsTrue, EvidenceHolds
<1>8. QED BY <1>1, <1>3, <1>4, <1>5, <1>6, <1>7 DEF RunInv

\* Every step keeps the invariant.
LEMMA RunInvStep == RunInv /\ [RunnerNext]_runnerVars => RunInv'
<1>1. ASSUME RunInv, RunnerNext PROVE RunInv'
  <2>1. RunTypeOK /\ Stages /\ Booked /\ Outcomes /\ Registered /\ RunContained
    BY <1>1 DEF RunInv
  <2>2. RunTypeOK' /\ Stages' /\ Booked' /\ Outcomes' /\ Registered'
    BY <1>1, <2>1, RunTypeStep, StagesStep, BookedStep, OutcomesStep, RegisteredStep
  <2>3. RunContained'
    BY <1>1, <2>2, ContainedStep
  <2>4. QED BY <2>2, <2>3 DEF RunInv
<1>2. ASSUME RunInv, UNCHANGED runnerVars PROVE RunInv'
  <2> USE <1>2 DEF runnerVars
  <2>1. /\ (Files' <=> Files) /\ (Tree' <=> Tree) /\ (Accepted' <=> Accepted)
        /\ (\A l : Limit(l)' = Limit(l)) /\ (\A p : Writable(p)' <=> Writable(p))
    BY DEF Files, Tree, Accepted, Limit, Writable, Declared
  <2>2. RunTypeOK' /\ Registered'
    BY DEF RunInv, RunTypeOK, Registered
  <2>3. Stages' /\ Booked' /\ Outcomes'
    BY <2>1 DEF RunInv, Stages, Booked, Outcomes, Concluded, Total
  <2>4. StorageWithinLimit' /\ SuccessIsClean' /\ RefusedLeavesNothing'
    BY <2>1 DEF RunInv, RunContained, StorageWithinLimit, SuccessIsClean, RefusedLeavesNothing, Total
  <2>5. ProbeIsTrue' /\ EvidenceHolds'
    BY <2>1 DEF RunInv, RunContained, ProbeIsTrue, EvidenceHolds, Verifies
  <2>6. QED BY <2>2, <2>3, <2>4, <2>5 DEF RunInv, RunContained
<1>3. QED BY <1>1, <1>2

\* Whatever the guest, the caller, the clocks and the VM's death do, a command is
\* booked no more bytes than it was granted, and its files hold no more than is
\* booked unless one was cut below a descriptor that appends; "success" is settled only
\* for a clean command in a VM that is gone; a refusal leaves nothing behind; and
\* the registry and the sealed evidence say what happened.
THEOREM RunIsContained == RunnerSpec => []RunContained
<1>1. RunInv => RunContained
  BY DEF RunInv
<1>2. QED BY RunInvInit, RunInvStep, <1>1, PTL DEF RunnerSpec
=============================================================================
