----------------------------- MODULE MCTestCache -----------------------------
(* TestCache on a small instance, whose test files are interchangeable, and *)
(* so are the versions whose tests perform no effect.                       *)
EXTENDS TestCache, TLC

CacheSymmetry == Permutations(Tests) \cup Permutations(Versions \ Effectful)
=============================================================================
