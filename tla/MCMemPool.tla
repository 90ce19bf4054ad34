----------------------------- MODULE MCMemPool -----------------------------
(* Two threads, a stack of two blocks, two of malloc's; counters wrap at 5. *)
EXTENDS MemPool, TLC

Symmetry == Permutations(Threads)
=============================================================================
