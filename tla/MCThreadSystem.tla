--------------------------- MODULE MCThreadSystem ---------------------------
(* Small instances of ThreadSystem: two threads whose folders overlap (or   *)
(* do not), or one thread where only its own messages matter.               *)
EXTENDS ThreadSystem, TLC

CONSTANTS a, b

OneFolder == {{a, b}}
NoOverlap == {}
RankA == (a :> 1)
RankAB == (a :> 2 @@ b :> 1)

SymmetricSlots == Permutations(Slot)
=============================================================================
