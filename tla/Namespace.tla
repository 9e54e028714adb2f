------------------------------ MODULE Namespace ------------------------------
(***************************************************************************)
(* What a program expects of a tree of names, whatever layers store it:    *)
(* a call makes an entry, removes one that has nothing below it, or moves  *)
(* one with all that is below it, and leaves every other name alone.       *)
(***************************************************************************)
EXTENDS SequencesExt

CONSTANTS Paths, Dir

VARIABLE tree   \* what is at a path: a set of at most one node

Alone(p) == \A q \in Paths : IsStrictPrefix(p, q) => tree[q] = {}
Takes(p) == tree[p] = {} \/ Alone(p)

\* missing parents are made on the way
Make(p) ==
  /\ tree[p] = {} /\ tree'[p] # {}
  /\ \A q \in Paths \ {p} :
       tree'[q] = IF IsStrictPrefix(q, p) /\ tree[q] = {} THEN {Dir} ELSE tree[q]
  /\ \A q \in Paths : IsStrictPrefix(q, p) => tree'[q] = {Dir}

Delete(p) ==
  /\ tree[p] # {} /\ Alone(p)
  /\ tree' = [tree EXCEPT ![p] = {}]

\* what was at x is at its new place, under to instead of under from
Move(from, to) ==
  /\ tree[from] # {} /\ Takes(to) /\ ~IsPrefix(from, to) /\ ~IsPrefix(to, from)
  /\ \A x \in Paths :
       tree'[x] =
         IF IsPrefix(to, x)
         THEN LET y == from \o SubSeq(x, Len(to) + 1, Len(x)) IN
              IF y \in Paths THEN tree[y] ELSE {}
         ELSE IF IsPrefix(from, x) THEN {}
         ELSE IF IsStrictPrefix(x, to) /\ tree[x] = {} THEN {Dir}
         ELSE tree[x]

Next == \E p \in Paths : Make(p) \/ Delete(p) \/ \E q \in Paths : Move(p, q)
=============================================================================
