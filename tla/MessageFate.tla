----------------------------- MODULE MessageFate -----------------------------
(***************************************************************************)
(* What the desktop promises about a message, whatever happens inside: an  *)
(* accepted message is kept until an engine acts on it or it is accounted  *)
(* for (the person dropped it, or was told it would not be sent again), it *)
(* is never acted on twice, and it is never lost.                          *)
(***************************************************************************)
CONSTANT Msg
VARIABLE fate

Fates == {"unsaved", "kept", "acted", "accounted"}

(* A message dropped after it was handed over may still be acted on.        *)
Successors(f) ==
    CASE f = "unsaved"   -> Fates
      [] f = "kept"      -> {"kept", "acted", "accounted"}
      [] f = "accounted" -> {"accounted", "acted"}
      [] f = "acted"     -> {"acted"}

Init == fate = [m \in Msg |-> "unsaved"]

Next == \E f \in [Msg -> Fates] :
            /\ \A m \in Msg : f[m] \in Successors(fate[m])
            /\ fate' = f

Spec == Init /\ [][Next]_fate
=============================================================================
