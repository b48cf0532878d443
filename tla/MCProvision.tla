---------------------------- MODULE MCProvision ----------------------------
(* Small instances of Provision for TLC.                                      *)
EXTENDS Provision, TLC

CONSTANTS r1, m1, m2  \* a request; mounts

MCStartups == {<<Hole("a"), Guard("b"), Hole("SERVER_PORT"), Hole("SERVER_IP")>>,
               <<Hole("SERVER_MEMORY"), Hole("b")>>}
MCBuilds == {[memory |-> 2, swap |-> 1, disk |-> 3, cpu |-> 0],
             [memory |-> 5, swap |-> -1, disk |-> 0, cpu |-> 2]}
\* A public address, the loopback, and a port out of range.
MCAllocationAt == 1 :> [ip |-> "pub", port |-> 5] @@ 2 :> [ip |-> "lo", port |-> 6]
                  @@ 3 :> [ip |-> "pub", port |-> 9]
MCMountAt == m1 :> [exists |-> TRUE, home |-> FALSE, allowed |-> TRUE]
             @@ m2 :> [exists |-> TRUE, home |-> TRUE, allowed |-> TRUE]
\* The value of one variable is a placeholder of the other; the server's allocation
\* is the loopback, or one it no longer has.
MCRow(b, s, p, as, ms) ==
  [suspended |-> FALSE, image |-> "i1", startup |-> s, values |-> "a" :> Hole("b") @@ "b" :> Lit(7),
   build |-> b, primary |-> p, allocs |-> as, mounts |-> ms]
MCRows ==
  LET b1 == [memory |-> 2, swap |-> 1, disk |-> 3, cpu |-> 0]
      b2 == [memory |-> 5, swap |-> -1, disk |-> 0, cpu |-> 2]
      s  == CHOOSE x \in MCStartups : Len(x) = 4
  IN {MCRow(b1, s, 2, {1, 2, 3}, {m1, m2}), MCRow(b2, s, 3, {1}, {m2})}

MCMultipliers == 8 :> 115 @@ 16 :> 110
=============================================================================
