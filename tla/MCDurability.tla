---------------------------- MODULE MCDurability ----------------------------
(* Durability for TLC: pages are interchangeable.                          *)
EXTENDS Durability, TLC

Symmetry == Permutations(Pages)
=============================================================================
