---------------------------- MODULE MCLifecycle ----------------------------
(* Small instances of Lifecycle for TLC.                                      *)
EXTENDS Lifecycle, TLC

CONSTANTS
  s1,     \* server
  j1, j2  \* goroutines of requests

\* The requests' goroutines are interchangeable.
MCSymmetry == Permutations({j1, j2})
=============================================================================
