------------------------------ MODULE DeviceData -------------------------------
(***************************************************************************)
(* What identifies a device: its address as text (src/src/address.rs) and  *)
(* its class as the three octets of an inquiry result                      *)
(* (src/src/class_of_device.rs, read by BluetoothDevice in lib.rs).        *)
(*                                                                         *)
(* A character is a number: 0 to 15 is a digit as format_hex writes it, 16 *)
(* to 21 a small letter a to f, 22 the colon; any other number is another  *)
(* character.                                                              *)
(***************************************************************************)
EXTENDS Octets, Positions

CONSTANT None   \* no class of device

-----------------------------------------------------------------------------
(* Addresses.                                                              *)

Digit == 0 .. 15
Colon == 22

\* The digit that from_str_radix and is_ascii_hexdigit see.
DigitOf(c) == IF c \in 16 .. 21 THEN c - 6 ELSE c

FormatHex(addr) ==
  FlattenSeq([i \in 1 .. 6 |->
    (IF i > 1 THEN <<Colon>> ELSE <<>>) \o <<addr[i] \div 16, addr[i] % 16>>])

\* str::split(':'): what lies between the colons.
Parts(text) ==
  LET ends == {0, Len(text) + 1} \cup {i \in DOMAIN text : text[i] = Colon}
  IN [k \in 1 .. Cardinality(ends) - 1 |-> SubSeq(text, Nth(ends, k) + 1, Nth(ends, k + 1) - 1)]

WellFormed(text) ==
  /\ Len(text) = 17 /\ \A i \in DOMAIN text : text[i] \in 0 .. Colon
  /\ Len(Parts(text)) <= 6 /\ \A part \in Range(Parts(text)) : Len(part) = 2

\* An octet without a part stays zero.
FromHex(text) ==
  LET parts == Parts(text)
  IN IF ~WellFormed(text) THEN Failed
     ELSE [i \in 1 .. 6 |-> IF i > Len(parts) THEN 0
                            ELSE 16 * DigitOf(parts[i][1]) + DigitOf(parts[i][2])]

-----------------------------------------------------------------------------
(* Class of device.                                                        *)

\* MajorDeviceClass, by its value; any other value is kept as Reserved.
Major == [value \in (0 .. 9) \cup {31} |->
  CASE value = 0 -> "Miscellaneous" [] value = 1 -> "Computer" [] value = 2 -> "Phone"
    [] value = 3 -> "LanNetworkAccessPoint" [] value = 4 -> "AudioVideo"
    [] value = 5 -> "Peripheral" [] value = 6 -> "Imaging" [] value = 7 -> "Wearable"
    [] value = 8 -> "Toy" [] value = 9 -> "Health" [] value = 31 -> "Uncategorized"]

MajorDeviceClass(value) ==
  IF value \in DOMAIN Major THEN [name |-> Major[value], reserved |-> 0]
  ELSE [name |-> "Reserved", reserved |-> value]

MajorValue(major) ==
  IF major.name = "Reserved" THEN major.reserved
  ELSE CHOOSE value \in DOMAIN Major : Major[value] = major.name

\* Two bits of format, six of minor class, five of major class, eleven of services.
Fields(raw) ==
  [format_type |-> raw % 4, minor |-> (raw \div 4) % 64,
   major |-> MajorDeviceClass((raw \div 256) % 32), services |-> (raw \div 8192) % 2048]

\* parse_class_of_device: little-endian octets, none if they are all zero.
ParseClassOfDevice(s) ==
  IF s = <<0, 0, 0>> THEN None ELSE Fields(s[1] + 256 * s[2] + 65536 * s[3])
=============================================================================
