----------------------------- MODULE MCAclManager -----------------------------
(* Instances of AclManager for TLC.  With DynamicStart = 3 and buffers of 8  *)
(* octets the shapes are: signalling PDUs of 5 and 8 octets, a PDU for a     *)
(* channel without a handler, PDUs for dynamic channel 3 that are shorter    *)
(* than, longer than and too long for what the code expects of them, and one *)
(* for a channel id whose expected length overflows 16 bits.                 *)
EXTENDS AclManager, TLC

CONSTANTS h1, h2

Handles == Permutations({h1, h2} \cap Handle)

Shapes == {[cid |-> 1, length |-> 1], [cid |-> 1, length |-> 4],
           [cid |-> 2, length |-> 1],
           [cid |-> 3, length |-> 1], [cid |-> 3, length |-> 4],
           [cid |-> 3, length |-> 6],
           [cid |-> 65533, length |-> 4]}
=============================================================================
