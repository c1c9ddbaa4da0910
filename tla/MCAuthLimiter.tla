---------------------------- MODULE MCAuthLimiter ----------------------------
(* Threads and keys are interchangeable. *)
EXTENDS AuthLimiter, TLC

Symmetry == Permutations(Thread) \cup Permutations(Key)
=============================================================================
