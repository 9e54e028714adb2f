----------------------------- MODULE MCStdinFlow -----------------------------
(* Instances of StdinFlow for TLC.                                         *)
EXTENDS StdinFlow, TLC

CONSTANTS e1, e2

\* a process that copies its input and one that never reads
EchoAndDeaf == (e1 :> "echo") @@ (e2 :> "deaf")
OneAndThree == (e1 :> 1) @@ (e2 :> 3)
=============================================================================
