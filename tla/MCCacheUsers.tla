---------------------------- MODULE MCCacheUsers ----------------------------
(* The cache with a few keys, checked by TLC. *)
EXTENDS CacheUsers, TLC

Symmetry == Permutations(Key)
============================================================================
