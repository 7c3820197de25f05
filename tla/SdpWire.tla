-------------------------------- MODULE SdpWire --------------------------------
(***************************************************************************)
(* The octets of SDP: the PDU header and the messages of                   *)
(* src/src/sdp/protocol.rs, and the data elements of sdp/record.rs as the  *)
(* AttributeListParser of sdp/attribute.rs reads them.                     *)
(*                                                                         *)
(* The value of a data element is kept as its octets: the code's           *)
(* conversion to an integer loses none of them.  A UuidList holds the      *)
(* octets of its UUIDs, one after the other.                               *)
(***************************************************************************)
EXTENDS Octets, FiniteSetsExt

CONSTANTS
  TextSize,   \* octets of a text string, MAX_SERVICE_NAME_LENGTH
  UuidCount,  \* UUIDs of a list
  Panicked    \* a slice out of bounds

ASSUME SdpWireAssumption == TextSize \in Nat /\ UuidCount \in Nat

-----------------------------------------------------------------------------
(* Messages.                                                               *)

SdpPduId == 1 .. 7
ErrorPdu == 1
Readable == {2, 4}       \* ServiceSearchRequest and ServiceAttributeRequest
SdpErrorCode == 1 .. 6

HeaderEncode(h) == <<h.pdu_id>> \o BigEndian(h.transaction_id) \o BigEndian(h.parameter_length)

HeaderDecode(s) ==
  IF Len(s) < 5 \/ s[1] \notin SdpPduId THEN Failed
  ELSE [pdu_id |-> s[1], transaction_id |-> Value(SubSeq(s, 2, 3)),
        parameter_length |-> Value(SubSeq(s, 4, 5))]

ErrorMessage(id, code) ==
  [header |-> [pdu_id |-> ErrorPdu, transaction_id |-> id, parameter_length |-> 2],
   error_code |-> code]

\* Only an error has its parameters written: room is that of the buffer.
MessageEncode(m, room) ==
  LET octets == HeaderEncode(m.header) \o
                  (IF m.header.pdu_id = ErrorPdu THEN BigEndian(m.error_code) ELSE <<>>)
  IN IF Len(octets) > room THEN Failed ELSE octets

\* The parameters of a request are not read, the other messages are refused.
ParseMessage(s) ==
  LET h == HeaderDecode(s)
      code == Value(SubSeq(s, 6, 7))
  IN IF h = Failed \/ Len(s) < 5 + h.parameter_length THEN Failed
     ELSE CASE h.pdu_id \in Readable -> [header |-> h, error_code |-> 0]
            [] h.pdu_id = ErrorPdu ->
                 IF h.parameter_length < 2 \/ code \notin SdpErrorCode THEN Failed
                 ELSE [header |-> h, error_code |-> code]
            [] OTHER -> Failed

-----------------------------------------------------------------------------
(* Data elements.                                                          *)

UuidSize == 16

\* The octets of each type of one size, and the descriptor of each that the parser knows.
Width == [Nil |-> 0, UnsignedInt8 |-> 1, UnsignedInt16 |-> 2, UnsignedInt32 |-> 4,
          Uuid16 |-> 2, Uuid32 |-> 4, Uuid128 |-> UuidSize]

Descriptor == [Nil |-> 0, UnsignedInt8 |-> 8, UnsignedInt16 |-> 9, UnsignedInt32 |-> 10,
               Uuid16 |-> 25, Uuid32 |-> 26, Uuid128 |-> 28]

TextType == 4
SequenceType == 6
LengthWidth == [index \in 5 .. 7 |-> CASE index = 5 -> 1 [] index = 6 -> 2 [] index = 7 -> 4]

Element(type, value) == [type |-> type, value |-> value]

\* Mutant of EncodedSize: the octet of the length is left out.
EncodedSizeNoLength(e) ==
  IF e.type \in DOMAIN Width THEN 1 + Width[e.type] ELSE 1 + Len(e.value)

EncodedSize(e) ==
  IF e.type \in DOMAIN Width THEN 1 + Width[e.type]
  ELSE LET n == Len(e.value) IN 1 + (IF n < 256 THEN 1 ELSE 2) + n

\* AttributeEntry::size
EntrySize(a) == 3 + EncodedSize(a.value)

-----------------------------------------------------------------------------
(* AttributeListParser.  Positions count from 0; an octet that was looked  *)
(* at and accepted is passed even if what follows it is refused.           *)

Read(value, position) == [value |-> value, position |-> position]
Slice(data, p, n) == SubSeq(data, p + 1, p + n)
Available(data, p) == Len(data) - p

ReadFixed(data, p, type) ==
  IF Available(data, p) < Width[type] THEN Read(Failed, p)
  ELSE Read(Element(type, Slice(data, p, Width[type])), p + Width[type])

\* Mutant of ReadText: the end of the data is not looked for.
ReadTextUnchecked(data, p, length) ==
  LET text == Slice(data, p, Min({length, Available(data, p)}))
  IN IF length > TextSize THEN Read(Failed, p) ELSE Read(Element("TextString", text), p + length)

ReadText(data, p, length) ==
  IF length > Available(data, p) \/ length > TextSize THEN Read(Failed, p)
  ELSE Read(Element("TextString", Slice(data, p, length)), p + length)

\* Every sequence is read as a list of UUIDs, each of 16 octets, while data is left; an
\* odd rest is left where it is, a UUID that data ends within is out of bounds.
ReadUuids(data, p, length) ==
  LET wanted == Min({length \div UuidSize, (Available(data, p) + UuidSize - 1) \div UuidSize})
      whole == Available(data, p) \div UuidSize
  IN CASE Min({wanted, whole}) > UuidCount -> Read(Failed, p + UuidSize * UuidCount)
       [] Min({wanted, whole}) <= UuidCount /\ wanted > whole ->
            Read(Panicked, p + UuidSize * whole)
       [] OTHER -> Read(Element("UuidList", Slice(data, p, UuidSize * wanted)), p + UuidSize * wanted)

\* parse_length and what it is the length of.
ReadVariable(data, p, type, index) ==
  IF index \notin DOMAIN LengthWidth THEN Read(Failed, p)
  ELSE LET k == LengthWidth[index]
           length == Value(Slice(data, p, k))
       IN CASE Available(data, p) < k -> Read(Failed, p)
            [] Available(data, p) >= k /\ type = TextType -> ReadText(data, p + k, length)
            [] Available(data, p) >= k /\ type = SequenceType -> ReadUuids(data, p + k, length)

\* parse_data_element
ReadElement(data, p) ==
  IF Available(data, p) < 1 THEN Read(Failed, p)
  ELSE LET d == data[p + 1]
           known == {t \in DOMAIN Descriptor : Descriptor[t] = (IF d < 8 THEN 0 ELSE d)}
       IN CASE known # {} -> ReadFixed(data, p + 1, CHOOSE t \in known : TRUE)
            [] known = {} /\ d \div 8 \in {TextType, SequenceType} ->
                 ReadVariable(data, p + 1, d \div 8, d % 8)
            [] OTHER -> Read(Failed, p + 1)

\* parse_next, where there is something left.
ReadAttribute(data, p) ==
  IF Available(data, p) < 2 THEN Read(Failed, p)
  ELSE LET e == ReadElement(data, p + 2)
       IN IF e.value \in {Failed, Panicked} THEN e
          ELSE Read([id |-> Value(Slice(data, p, 2)), value |-> e.value], e.position)
=============================================================================
