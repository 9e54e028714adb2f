----------------------------- MODULE MCOutputFlow -----------------------------
(* Small instances of OutputFlow for TLC. *)
EXTENDS OutputFlow

\* pipes, sinks, and one beside the other
MCModePairs ==
  {<<"pipe", "pipe">>, <<"pipe", "buffer">>, <<"writable", "writable">>,
   <<"writable", "ignore">>, <<"pipe", "writable">>}

\* one busy stream beside a quiet one
Uneven == {[stdout |-> 6, stderr |-> 1], [stdout |-> 1, stderr |-> 5]}

==============================================================================
