---------------------------- MODULE BoundedBuffer ----------------------------
(***************************************************************************)
(* What a credit window promises: between a producer and a consumer there  *)
(* are never more than Capacity bytes of a stream.  OutputFlow implements  *)
(* it for the output of an exec.                                           *)
(***************************************************************************)
EXTENDS Naturals

CONSTANTS Streams, Capacity

VARIABLE held  \* bytes accepted from the producer and not yet let go

Init == held = [s \in Streams |-> 0]

Accept(s) ==
  \E n \in 1 .. Capacity :
    /\ held[s] + n <= Capacity
    /\ held' = [held EXCEPT ![s] = @ + n]

Release(s) ==
  \E n \in 1 .. held[s] : held' = [held EXCEPT ![s] = @ - n]

Next == \E s \in Streams : Accept(s) \/ Release(s)

Spec == Init /\ [][Next]_held

==============================================================================
