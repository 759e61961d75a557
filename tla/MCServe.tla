------------------------------- MODULE MCServe -------------------------------
(* Serve on small instances.  Requests are interchangeable where no run asks *)
(* for liveness; workers are not, since requests are striped over them.      *)
EXTENDS Serve, TLC

RequestSymmetry == Permutations(Requests)
=============================================================================
