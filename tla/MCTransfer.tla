----------------------------- MODULE MCTransfer -----------------------------
(* Small instances of Transfer for TLC: two attempts and one backup.          *)
EXTENDS Transfer, TLC

CONSTANTS a1, a2

Symmetric == Permutations({a1, a2})
=============================================================================
