---------------------------- MODULE MCSiliconFuse ----------------------------
(* SiliconFuse on two callers and two bodies. *)
EXTENDS SiliconFuse, TLC

AllCalls == DOMAIN Script

OnlyBind == {"bind"}

CONSTANTS c1, c2, b1, b2

TwoCallers == {c1, c2}
TwoBodies == {b1, b2}

Sym == Permutations(TwoCallers) \cup Permutations(TwoBodies)
=============================================================================
