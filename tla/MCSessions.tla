----------------------------- MODULE MCSessions -----------------------------
(* Sessions on small instances.                                             *)
EXTENDS Sessions, TLC

MCSymmetry == Permutations(Conns) \union Permutations(Workers) \union Permutations(Syncers)
=============================================================================
