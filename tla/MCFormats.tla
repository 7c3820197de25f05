------------------------------- MODULE MCFormats -------------------------------
(* An instance of Formats for TLC: every kind of command, message and element *)
(* with words that have both octets set, a header of each flag, capacities    *)
(* that one value of each kind just meets and another exceeds.                *)
EXTENDS Formats

W == 513    \* both octets are set, and differ
V == 65280

AllCommands == {
  Command("ConnectionRequest", 1, <<25, W>>, <<>>),
  Command("ConnectionResponse", 2, <<W, V, 4, 1>>, <<>>),
  Command("ConfigurationRequest", 3, <<W, 0>>, <<1, 2, 0>>),
  Command("ConfigurationResponse", 255, <<W, 1, 5>>, <<>>),
  Command("ConfigurationResponse", 5, <<W, 1, 0>>, <<1, 2>>),
  Command("ConfigurationRequest", 6, <<W, 0>>, <<1, 2, 3, 4, 5>>),
  Command("DisconnectionRequest", 7, <<W, V>>, <<>>),
  Command("DisconnectionResponse", 8, <<V, W>>, <<>>),
  Command("EchoRequest", 9, <<>>, <<7, 8>>)}

Header(pdu) == [pdu_id |-> pdu, transaction_id |-> W, parameter_length |-> 0]

AllMessages == {ErrorMessage(V, code) : code \in {1, 6}} \cup
            {[header |-> Header(pdu), error_code |-> 0] : pdu \in 2 .. 7}

Uuid(x) == [i \in 1 .. 16 |-> IF i = x THEN 1 ELSE 0]

Elements == {
  Element("Nil", <<>>), Element("UnsignedInt8", <<7>>), Element("UnsignedInt16", <<1, 2>>),
  Element("UnsignedInt32", <<1, 2, 3, 4>>), Element("Uuid16", <<17, 10>>),
  Element("Uuid32", <<0, 0, 17, 11>>), Element("Uuid128", Uuid(3)),
  Element("TextString", <<>>), Element("TextString", <<65, 66, 67>>),
  Element("UuidList", Uuid(4)), Element("UuidList", Uuid(1) \o Uuid(2))}

\* The element alone, after a text, and before a word.
Lists == {<<[id |-> W, value |-> e]>> : e \in Elements} \cup
         {<<[id |-> 256, value |-> Element("TextString", <<65>>)], [id |-> 1, value |-> e],
            [id |-> 2, value |-> Element("UnsignedInt16", <<V \div 256, 1>>)]>> : e \in Elements}

TwoAddresses == {<<18, 52, 86, 120, 154, 188>>, <<0, 255, 0, 160, 15, 1>>}

\* Octets 0x04, 0x04, 0x24 and the like: a headset, a reserved major class, the format bits.
Classes == {<<4, 4, 36>>, <<0, 10, 0>>, <<255, 31, 128>>, <<0, 0, 0>>}

Headers == {AclHeader(4660, 2, 1, 0), AclHeader(11, 0, 0, 0)}
PaddingOctets == <<3, 0>>
Damage == {0, 1, 5, 11, 20, 22, 23}
=============================================================================
