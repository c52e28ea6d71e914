------------------------------- MODULE Walks --------------------------------
(***************************************************************************)
(* Walks over something that refers to itself: a graph is a function from  *)
(* each place to the places a walk goes on to.                             *)
(***************************************************************************)
EXTENDS Naturals, FiniteSets

\* The places a walk from S is at after each number of steps.
Levels(S, G) ==
    LET level[n \in Nat] == IF n = 0 THEN S ELSE UNION {G[p] : p \in level[n - 1]}
    IN level

\* The places a walk from S meets in at most n steps.
Within(S, G, n) == UNION {Levels(S, G)[k] : k \in 0..n}

\* All the places it meets, in a graph of finitely many.
Reached(S, G) == Within(S, G, Cardinality(DOMAIN G))

\* Where n steps of a function F lead from x.
After(x, F, n) == CHOOSE y \in Levels({x}, [p \in DOMAIN F |-> {F[p]}])[n] : TRUE
=============================================================================
