----------------------------- MODULE MCLruCache -----------------------------
(* The containers with a few keys, checked by TLC. *)
EXTENDS LruCache

Symmetry == Permutations(Key)
============================================================================
