----------------------------- MODULE MCDiskQuota -----------------------------
(* DiskQuota on small instances.                                            *)
EXTENDS DiskQuota, TLC

MCLimits == {-1, 1}

MCSymmetry == Permutations(Files) \union Permutations(Workers)
=============================================================================
