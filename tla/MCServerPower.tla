---------------------------- MODULE MCServerPower ----------------------------
(* Small instances of ServerPower for TLC: the goroutines are model values    *)
(* the configurations hand out to the roles.                                  *)
EXTENDS ServerPower

CONSTANTS
  u1, u2,  \* users
  k1,      \* crash handler
  d1,      \* disk limiter or suspension
  i1,      \* reinstall
  h1, h2   \* state-change events
=============================================================================
