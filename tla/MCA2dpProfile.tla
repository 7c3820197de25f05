----------------------------- MODULE MCA2dpProfile -----------------------------
(* Instances of A2dpProfile for TLC.                                         *)
EXTENDS A2dpProfile

CONSTANTS a1, a2, a3, h1, h2

Same == Permutations({a1, a2, a3} \cap Addr) \cup Permutations({h1, h2} \cap ConnHandle)
=============================================================================
