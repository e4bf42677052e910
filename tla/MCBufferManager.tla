-------------------------- MODULE MCBufferManager --------------------------
(* Small instances of BufferManager for TLC. *)
EXTENDS BufferManager, TLC

Symmetry == Permutations(Threads) \cup Permutations(Pages)
=============================================================================
