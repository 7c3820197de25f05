-------------------------------- MODULE Formats --------------------------------
(***************************************************************************)
(* Octets on their way between two devices.  What is sent is written by    *)
(* the operators of SignalingWire, SdpWire and DeviceData, put into an     *)
(* L2CAP packet and an ACL packet or handed over as it is, carried whole,  *)
(* cut short, with octets after its end or with one octet damaged, and     *)
(* read again layer by layer by the code of this host.                     *)
(*                                                                         *)
(* Attribute lists, and the class of a device, only come from the peer,    *)
(* which writes them as the Bluetooth specification says; the parser is    *)
(* told the length of the list before the octets are carried.              *)
(***************************************************************************)
EXTENDS SignalingWire, SdpWire, DeviceData

CONSTANTS
  Commands,        \* what may be sent
  Messages,
  AttributeLists,
  Addresses,
  DeviceClasses,   \* as the three octets
  AclHeaders,      \* headers of ACL packets, with a data length of 0
  SdpCid,          \* the channel for SDP
  Padding,         \* octets after the end
  DamagedOctets    \* values an octet may turn into

\* The commands that SignalingProcessor builds.
BuiltCommand ==
  {c \in [code : Range(SignalingCode), identifier : Octet, length : Nat,
          payload : [words : Seq(Word), options : Seq(Octet)]] :
     /\ c.length = Len(PayloadToBytes(c.payload))
     /\ Len(c.payload.words) = Len(Words(c.code)) /\ ResultKnown(c.code, c.payload.words)
     /\ c.payload.options # <<>> => HasOptions(c.code)}

\* An error, or a message without its parameters.
BuiltMessage ==
  {m \in [header : [pdu_id : SdpPduId, transaction_id : Word, parameter_length : {0, 2}],
          error_code : {0} \cup SdpErrorCode] :
     IF m.header.pdu_id = ErrorPdu THEN m.header.parameter_length = 2 /\ m.error_code # 0
                                   ELSE m.header.parameter_length = 0 /\ m.error_code = 0}

\* The attributes for which the host has room, their lengths in one octet.
Room(type) ==
  CASE type = "TextString" -> 0 .. TextSize
    [] type = "UuidList" -> {UuidSize * n : n \in 0 .. UuidCount}
    [] OTHER -> {Width[type]}

HeldElement ==
  {e \in [type : DOMAIN Width \cup {"TextString", "UuidList"}, value : Seq(Octet)] :
     Len(e.value) \in Octet \cap Room(e.type)}

HeldAttribute == [id : Word, value : HeldElement]

ASSUME FormatsAssumption ==
  /\ Commands \subseteq BuiltCommand
  /\ Messages \subseteq BuiltMessage
  /\ AttributeLists \subseteq Seq(HeldAttribute)
  /\ Addresses \subseteq [1 .. 6 -> Octet] /\ DeviceClasses \subseteq [1 .. 3 -> Octet]
  /\ AclHeaders \subseteq [connection_handle : 0 .. 4095, packet_boundary : 0 .. 3,
                           broadcast_flag : 0 .. 3, data_length : {0}]
  /\ SdpCid \in Word \ {1}
  /\ Padding \in Seq(Octet) \ {<<>>} /\ DamagedOctets \subseteq Octet

\* An error is none of the values that the readers and writers hand on.
ASSUME ErrorsAreNoValues ==
  \A error \in {Failed, Panicked} :
    /\ error \notin Seq(Octet) \cup HeldElement \cup HeldAttribute
    /\ error \notin [words : Seq(Word), options : Seq(Octet)]
    /\ error \notin [pdu_id : SdpPduId, transaction_id : Word, parameter_length : Word]
    /\ error \notin [length : Word, channel_id : Word, payload : Seq(Octet)]
    /\ error \notin [header : [connection_handle : Nat, packet_boundary : Nat, broadcast_flag : Nat,
                              data_length : Word],
                    data : Seq(Octet)]

VARIABLES
  sent,       \* a kind and a value, how its lengths are written, how many packets are around it
  header,     \* header of the ACL packet
  status,     \* "ready", "refused", "carried", "reading", "done" or "stopped"
  layer,      \* what the octets are read as
  fault,      \* what happened to them
  data,       \* the octets of this layer
  got,        \* what was read; for attributes the sequence so far
  position,   \* AttributeListParser
  length

vars == <<sent, header, status, layer, fault, data, got, position, length>>

-----------------------------------------------------------------------------
(* Writing.                                                                *)

\* A peer's data element and attribute; form is the descriptor's size index for a length.
LengthOctets(n, form) ==
  CASE form = 5 -> <<n>> [] form = 6 -> BigEndian(n) [] form = 7 -> <<0, 0>> \o BigEndian(n)

ElementOctets(e, form) ==
  IF e.type \in DOMAIN Width THEN <<Descriptor[e.type]>> \o e.value
  ELSE <<8 * (IF e.type = "UuidList" THEN SequenceType ELSE TextType) + form>>
         \o LengthOctets(Len(e.value), form) \o e.value

ListOctets(list, form) ==
  FlattenSeq([i \in DOMAIN list |-> BigEndian(list[i].id) \o ElementOctets(list[i].value, form)])

Written(s) ==
  CASE s.kind = "command" -> CommandToBytes(s.value)
    [] s.kind = "message" -> MessageEncode(s.value, 7)
    [] s.kind = "attributes" -> ListOctets(s.value, s.form)
    [] s.kind = "address" -> FormatHex(s.value)
    [] s.kind = "class" -> s.value

Signaling == 1   \* cid::SIGNALING

InL2cap(octets, cid) == IF octets = Failed THEN Failed ELSE L2capToBytes(L2capPacket(cid, octets))

InAcl(octets) ==
  IF octets = Failed THEN Failed
  ELSE AclToBytes(AclPacket([header EXCEPT !.data_length = Len(octets)], octets))

Framed(s) ==
  LET packet == InL2cap(Written(s), IF s.kind = "command" THEN Signaling ELSE SdpCid)
  IN CASE s.depth = 0 -> Written(s) [] s.depth = 1 -> packet [] s.depth = 2 -> InAcl(packet)

Outermost(s) == CASE s.depth = 0 -> s.kind [] s.depth = 1 -> "l2cap" [] s.depth = 2 -> "acl"

-----------------------------------------------------------------------------
(* Carrying.                                                               *)

Sent(kind, value, form, depth) ==
  sent = [kind |-> kind, value |-> value, form |-> form, depth |-> depth]

Init ==
  /\ \/ \E c \in Commands, depth \in 0 .. 2 : Sent("command", c, 0, depth)
     \/ \E m \in Messages, depth \in 0 .. 2 : Sent("message", m, 0, depth)
     \/ \E list \in AttributeLists, form \in DOMAIN LengthWidth : Sent("attributes", list, form, 0)
     \/ \E a \in Addresses : Sent("address", a, 0, 0)
     \/ \E c \in DeviceClasses : Sent("class", c, 0, 0)
  /\ header \in AclHeaders
  /\ status = "ready" /\ layer = Outermost(sent) /\ fault = "none"
  /\ data = <<>> /\ got = <<>> /\ position = 0 /\ length = 0

\* What does not fit is not sent.
Write ==
  /\ status = "ready"
  /\ IF Framed(sent) = Failed
       THEN status' = "refused" /\ UNCHANGED <<data, length>>
       ELSE /\ status' = "carried" /\ data' = Framed(sent)
            /\ length' = IF sent.kind = "attributes" THEN Len(Written(sent)) ELSE 0
  /\ UNCHANGED <<sent, header, layer, fault, got, position>>

Arrive(what, octets) ==
  /\ status = "carried"
  /\ status' = "reading" /\ fault' = what /\ data' = octets
  /\ UNCHANGED <<sent, header, layer, got, position, length>>

\* The class of a device is an array of three octets in the event.
Whole == Arrive("none", data)
Padded == sent.kind # "class" /\ Arrive("padded", data \o Padding)
Cut(n) == sent.kind # "class" /\ Arrive("cut", SubSeq(data, 1, n))
Damaged(i, octet) == Arrive("damaged", [data EXCEPT ![i] = octet])

-----------------------------------------------------------------------------
(* Reading.                                                                *)

Reading(what) == status = "reading" /\ layer = what

Finish(value) ==
  /\ status' = "done" /\ got' = value
  /\ UNCHANGED <<sent, header, layer, fault, data, position, length>>

Enter(next, octets) ==
  /\ layer' = next /\ data' = octets
  /\ UNCHANGED <<sent, header, status, fault, got, position, length>>

ReceiveAcl ==
  /\ Reading("acl")
  /\ LET p == AclFromBytes(data) IN IF p = Failed THEN Finish(Failed) ELSE Enter("l2cap", p.data)

\* The signalling channel or that of SDP; packets for any other are not routed.
ReceiveL2cap ==
  /\ Reading("l2cap")
  /\ LET p == L2capFromBytes(data)
     IN CASE p # Failed /\ p.channel_id = Signaling -> Enter("command", p.payload)
          [] p # Failed /\ p.channel_id = SdpCid /\ sent.kind # "command" ->
               Enter(sent.kind, p.payload)
          [] OTHER -> Finish(Failed)

ReceiveCommand == Reading("command") /\ Finish(CommandFromBytes(data))

ReceiveMessage == Reading("message") /\ Finish(ParseMessage(data))

ReceiveAddress == Reading("address") /\ Finish(FromHex(data))

ReceiveClass == Reading("class") /\ Finish(ParseClassOfDevice(data))

\* parse_next: nothing more, once the list or its octets are at their end.
AtEnd == position >= length \/ position >= Len(data)

NextAttribute ==
  /\ Reading("attributes")
  /\ IF AtEnd THEN Finish(got)
     ELSE LET r == ReadAttribute(data, position)
              stopped == r.value \in {Failed, Panicked}
          IN /\ position' = r.position
             /\ status' = IF stopped THEN "stopped" ELSE "reading"
             /\ got' = IF stopped THEN got ELSE Append(got, r.value)
             /\ UNCHANGED <<sent, header, layer, fault, data, length>>

Next ==
  \/ Write
  \/ Whole \/ Padded
  \/ \E n \in 0 .. Len(data) - 1 : Cut(n)
  \/ \E i \in DOMAIN data, octet \in DamagedOctets : Damaged(i, octet)
  \/ ReceiveAcl \/ ReceiveL2cap
  \/ ReceiveCommand \/ ReceiveMessage \/ ReceiveAddress \/ ReceiveClass \/ NextAttribute

Spec == Init /\ [][Next]_vars

-----------------------------------------------------------------------------
(* Properties.                                                             *)

CommandTyped(c) ==
  /\ c.code \in Range(SignalingCode)
  /\ c.payload.words \in [DOMAIN Words(c.code) -> Word]
  /\ c.code = "ConnectionResponse" => c.payload.words[3] \in ConnectionResult
  /\ c.code = "ConfigurationResponse" => c.payload.words[3] \in ConfigurationResult
  /\ Len(c.payload.options) <= CommandSize

MessageTyped(m) == m.header.pdu_id \in Readable \cup {ErrorPdu}

ElementTyped(e) ==
  CASE e.type = "UuidList" -> Len(e.value) <= UuidSize * UuidCount
    [] e.type = "TextString" -> Len(e.value) <= TextSize
    [] OTHER -> Len(e.value) = Width[e.type]

ClassTyped(c) == c.services < 2048 /\ c.minor < 64

\* What was read is a value the types of the code admit, whatever the octets were: known
\* codes and results, vectors within their capacity, the parser not behind its data.
TypeOK ==
  /\ position \in 0 .. Len(data)
  /\ status = "done" /\ got \notin {Failed, None} =>
       CASE layer = "command" -> CommandTyped(got)
         [] layer = "message" -> MessageTyped(got)
         [] layer = "attributes" -> \A i \in DOMAIN got : ElementTyped(got[i].value)
         [] layer = "address" -> got \in [1 .. 6 -> Octet]
         [] layer = "class" -> ClassTyped(got)

\* What the host is to read: a response is a message it does not read yet.
Expected(s) ==
  CASE s.kind = "class" -> ParseClassOfDevice(s.value)
    [] s.kind = "message" /\ s.value.header.pdu_id \notin Readable \cup {ErrorPdu} -> Failed
    [] OTHER -> s.value

\* What arrives whole is what was sent, through every packet around it, and octets after
\* the end change nothing; only a text is as long as it is.
WholeIsRead ==
  /\ status = "reading" /\ layer = "acl" /\ fault = "none" =>
       AclFromBytes(data).header = [header EXCEPT !.data_length = Len(data) - 4]
  /\ status \in {"done", "stopped"} =>
       /\ fault = "none" => got = Expected(sent)
       /\ fault = "padded" => got = IF sent.kind = "address" THEN Failed ELSE Expected(sent)

\* What arrives cut short is never taken for the whole: it is refused, or, for a list of
\* attributes, the parser is not at the end of it, and what it has read is the beginning
\* of what was sent, but for a list of UUIDs at the cut.
CutIsNoticed ==
  fault = "cut" /\ status \in {"done", "stopped"} =>
    \/ layer # "attributes" /\ got = Failed
    \/ /\ layer = "attributes" /\ position < length
       /\ got # <<>> => IsPrefix(Front(got), sent.value)
       /\ got # <<>> => \/ IsPrefix(got, sent.value)
                        \/ Last(got).value.type = "UuidList" /\ position = Len(data)

\* The fields of a class, put together again.
ClassOctets(c) ==
  LET raw == c.format_type + 4 * c.minor + 256 * MajorValue(c.major) + 8192 * c.services
  IN <<raw % 256, (raw \div 256) % 256, raw \div 65536>>

There(octets, s) == octets = Failed \/ IsPrefix(octets, s)

\* Nothing is made up: what a reader accepts is written again as the octets that were
\* there, damaged or not, unless it no longer fits.
WhatIsReadIsThere ==
  status = "reading" =>
    CASE layer = "acl" ->
           LET p == AclFromBytes(data) IN p # Failed => There(AclToBytes(p), data)
      [] layer = "l2cap" ->
           LET p == L2capFromBytes(data) IN p # Failed => There(L2capToBytes(p), data)
      [] layer = "command" ->
           LET c == CommandFromBytes(data) IN c # Failed => There(CommandToBytes(c), data)
      [] layer = "message" ->
           LET m == ParseMessage(data) IN m # Failed => There(MessageEncode(m, 7), data)
      [] layer = "address" ->
           LET a == FromHex(data)
           IN a # Failed => FormatHex(a) = [i \in DOMAIN data |-> DigitOf(data[i])]
      [] layer = "class" ->
           LET c == ParseClassOfDevice(data) IN c # None => data = ClassOctets(c)
      [] OTHER -> TRUE

\* What the parser does to an attribute list that arrives undamaged, in the shortest lengths.
ListRead == layer = "attributes" /\ fault' \in {"none", "padded"} /\ sent.form = 5

\* encoded_size is the octets of a value, its descriptor and length among them: the parser
\* passes the two of the id and as many as encoded_size gives for what it returns, and none
\* when it returns nothing.  AttributeEntry::size (attribute.rs:174) counts the descriptor
\* a second time: it is one more than the attribute has, and does not lead to the next one.
SizesAddUp ==
  [][ListRead => IF got' = got THEN position' = position
                 ELSE /\ position' = position + 2 + EncodedSize(Last(got').value)
                      /\ EntrySize(Last(got')) = position' - position + 1]_vars
=============================================================================
