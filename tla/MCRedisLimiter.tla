--------------------------- MODULE MCRedisLimiter ---------------------------
(* Workers and keys are interchangeable. *)
EXTENDS RedisLimiter, TLC

Symmetry == Permutations(Worker) \cup Permutations(Key)
=============================================================================
