----------------------------- MODULE Filtering ------------------------------
(***************************************************************************)
(* What is left of a list or an insertion-ordered map when entries are     *)
(* deleted or filtered out: the others, in their order.                    *)
(***************************************************************************)
EXTENDS Naturals, Sequences, FiniteSets

\* The positions P from the first to the last.
InOrder(P) == {at \in [1 .. Cardinality(P) -> P] :
                 \A i, j \in DOMAIN at : i < j => at[i] < at[j]}

\* What filter() leaves of a queue: the entries at the positions P, in order
\* (one sequence, written as the set of it).
Filtered(q, P) == {[i \in DOMAIN at |-> q[at[i]]] : at \in InOrder(P)}
=============================================================================
