----------------------------- MODULE MCBackups -----------------------------
(* Small instances of Backups for TLC.                                        *)
EXTENDS Backups, TLC

CONSTANTS
  u1, u2, u3,  \* backups
  f1,          \* file
  r1, r2       \* restores

\* Two local backups, and one of either kind.
MCAdapters == u1 :> {"wings"} @@ u2 :> {"wings"} @@ u3 :> {"wings", "s3"}

\* The two local backups; or the third with two restores.
MCCasts == {{u1, u2}, {u3, r1, r2}}

\* The local backups are interchangeable, and so are the restores.
MCSymmetry == Permutations({u1, u2}) \union Permutations({r1, r2})
=============================================================================
