---------------------------- MODULE MCSubAgents -----------------------------
(* Constants for TLC: two engines with a sub-agent each.                    *)
EXTENDS SubAgents, TLC

CONSTANTS e1, e2, t1, t2

OneEach == (t1 :> e1) @@ (t2 :> e2)

=============================================================================
