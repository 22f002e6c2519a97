---------------------------- MODULE MCBoundedQueue ----------------------------
(* BoundedQueue for TLC: producers, consumers and items are interchangeable *)
(* model values.  Safety runs only: symmetry is unsound for liveness.      *)
EXTENDS BoundedQueue, TLC

Symmetry ==
  Permutations(Producers) \cup Permutations(Consumers) \cup Permutations(Items)
=============================================================================
