---------------------------- MODULE MCEngineCache ----------------------------
(* Threads, keys and engines are interchangeable. *)
EXTENDS EngineCache, TLC

Symmetry == Permutations(Thread) \cup Permutations(Key) \cup Permutations(Engine)
=============================================================================
