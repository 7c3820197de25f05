--------------------------- MODULE MCL2capSignaling ---------------------------
(* Instances of L2capSignaling for TLC.                                     *)
EXTENDS L2capSignaling

CONSTANTS h1, h2, r1, r2

Same == Permutations({h1, h2} \cap Handle) \cup Permutations({r1, r2} \cap RemoteCid)
=============================================================================
