----------------------------- MODULE MCCacheRuntime -----------------------------
(* Instances of CacheRuntime for TLC. *)
EXTENDS CacheRuntime, TLC

CONSTANTS k1, k2, c1, c2, c3, c4

Symmetric == Permutations(Calls) \cup Permutations(Key)
================================================================================
