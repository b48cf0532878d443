------------------------------ MODULE OneBoot ------------------------------
(***************************************************************************)
(* What the power lock promises about one server: at most one goroutine is  *)
(* booting it, only that goroutine brings the process up, and only when no  *)
(* process is up.  The process may end at any time, and a booter may give   *)
(* up at any time.                                                          *)
(***************************************************************************)
CONSTANT Booters   \* goroutines that may boot the server

VARIABLES
  booter,   \* the goroutines that are booting the server
  up        \* the server's process runs

vars == <<booter, up>>

Init == booter = {} /\ up = FALSE

Begin(a) == booter = {} /\ booter' = {a} /\ UNCHANGED up

End(a) == booter = {a} /\ booter' = {} /\ UNCHANGED up

\* The process comes up; the booter is done or still has something to undo.
Launch(a) ==
  /\ booter = {a} /\ ~up
  /\ up' = TRUE
  /\ booter' \in {{}, {a}}

Exit == up /\ up' = FALSE /\ UNCHANGED booter

Next == Exit \/ \E a \in Booters : Begin(a) \/ End(a) \/ Launch(a)

Spec == Init /\ [][Next]_vars
=============================================================================
