--------------------------------- MODULE Octets --------------------------------
(* What the readers and writers of octets share: the widths of the code's    *)
(* integers, the two byte orders and the vectors of fixed capacity.          *)
EXTENDS Integers, Sequences, SequencesExt

CONSTANT Failed   \* an Err of any kind

Octet == {n \in Nat : n < 256}
Word == {n \in Nat : n < 65536}

\* to_le_bytes of a u16, and from_le_bytes of the octets i and i + 1.
LittleEndian(w) == <<w % 256, w \div 256>>
WordAt(s, i) == s[i] + 256 * s[i + 1]

\* to_be_bytes of a u16, and from_be_bytes of any number of octets.
BigEndian(w) == <<w \div 256, w % 256>>
Value(octets) ==
  LET value[n \in 0 .. Len(octets)] == IF n = 0 THEN 0 ELSE 256 * value[n - 1] + octets[n]
  IN value[Len(octets)]

\* extend_from_slice into an empty heapless::Vec.
Bounded(s, capacity) == IF Len(s) <= capacity THEN s ELSE Failed
=============================================================================
