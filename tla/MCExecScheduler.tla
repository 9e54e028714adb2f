--------------------------- MODULE MCExecScheduler ---------------------------
(* Small instances of ExecScheduler for TLC. *)
EXTENDS ExecScheduler, TLC

CONSTANTS a, b, c1, c2, c3, f1, f2

\* every call has an id of its own, as VM.allocateId (vm/core.ts) hands them out
UniqueIds == (c1 :> 1) @@ (c2 :> 2)

\* two calls, of any clients, compete for id 1
SharedId == (c1 :> 1) @@ (c2 :> 1) @@ (c3 :> 2)

\* the two clients behave alike
ClientSymmetry == Permutations({a, b})

\* one call
OneId == c1 :> 1

==============================================================================
