----------------------------- MODULE SignalingWire -----------------------------
(***************************************************************************)
(* The octets of a signalling command, and of the L2CAP and ACL packets    *)
(* around it: from_bytes and to_bytes of src/src/l2cap/signaling.rs,       *)
(* l2cap/packet.rs and acl.rs.                                             *)
(*                                                                         *)
(* The payloads differ only in their words and in whether options follow,  *)
(* so they share one reader and one writer; a command of a kind without a  *)
(* payload type keeps its data as options.                                 *)
(***************************************************************************)
EXTENDS Octets

CONSTANTS
  CommandSize,   \* octets a command, or its options, may have: N = 64
  PacketSize,    \* octets of an L2CAP packet, 1024
  DataSize       \* MAX_ACL_DATA_SIZE

ASSUME SignalingWireAssumption ==
  CommandSize \in Word /\ PacketSize \in Word /\ DataSize \in Word

-----------------------------------------------------------------------------
(* Payloads of signalling commands.                                        *)

\* SignalingCode, in the order of the values 1, 2, ...
SignalingCode == <<"CommandReject", "ConnectionRequest", "ConnectionResponse",
  "ConfigurationRequest", "ConfigurationResponse", "DisconnectionRequest",
  "DisconnectionResponse", "EchoRequest", "EchoResponse", "InformationRequest",
  "InformationResponse">>

\* The words each payload starts with, in order.
Words(code) ==
  CASE code = "ConnectionRequest" -> <<"psm", "source_cid">>
    [] code = "ConnectionResponse" -> <<"destination_cid", "source_cid", "result", "status">>
    [] code = "ConfigurationRequest" -> <<"destination_cid", "flags">>
    [] code = "ConfigurationResponse" -> <<"source_cid", "flags", "result">>
    [] code \in {"DisconnectionRequest", "DisconnectionResponse"} ->
         <<"destination_cid", "source_cid">>
    [] OTHER -> <<>>

\* Everything but the fixed structures keeps the octets after them.
HasOptions(code) == Words(code) = <<>> \/ code \in {"ConfigurationRequest", "ConfigurationResponse"}

ConnectionResult == (0 .. 4) \cup {6, 7}
ConfigurationResult == 0 .. 5

\* Mutant of ResultKnown: the reserved value 5 is taken for a connection result.
ResultKnownLoose(code, words) ==
  code \in {"ConnectionResponse", "ConfigurationResponse"} => words[3] \in 0 .. 7

\* The result code is the third word of both responses.
ResultKnown(code, words) ==
  /\ code = "ConnectionResponse" => words[3] \in ConnectionResult
  /\ code = "ConfigurationResponse" => words[3] \in ConfigurationResult

\* Mutant of PayloadFromBytes: the options start a word early.
PayloadFromBytesEarly(code, s) ==
  LET n == Len(Words(code))
      words == [i \in 1 .. n |-> WordAt(s, 2 * i - 1)]
  IN IF Len(s) < 2 * n THEN Failed
     ELSE [words |-> words, options |-> IF HasOptions(code) /\ n > 0 THEN SubSeq(s, 2 * n - 1, Len(s)) ELSE <<>>]

PayloadFromBytes(code, s) ==
  LET n == Len(Words(code))
      words == [i \in 1 .. n |-> WordAt(s, 2 * i - 1)]
      options == IF HasOptions(code) THEN SubSeq(s, 2 * n + 1, Len(s)) ELSE <<>>
  IN IF Len(s) < 2 * n \/ ~ResultKnown(code, words) \/ Bounded(options, CommandSize) = Failed
       THEN Failed
       ELSE [words |-> words, options |-> options]

PayloadToBytes(p) == FlattenSeq([i \in DOMAIN p.words |-> LittleEndian(p.words[i])]) \o p.options

-----------------------------------------------------------------------------
(* Commands.                                                               *)

\* A command as SignalingProcessor builds it: the header's length is that of the payload.
Command(code, identifier, words, options) ==
  LET payload == [words |-> words, options |-> options]
  IN [code |-> code, identifier |-> identifier, length |-> Len(PayloadToBytes(payload)),
      payload |-> payload]

\* Octets after the declared length are not looked at.
CommandFromBytes(s) ==
  IF Len(s) < 4 \/ s[1] \notin DOMAIN SignalingCode THEN Failed
  ELSE LET code == SignalingCode[s[1]]
           length == WordAt(s, 3)
           payload == PayloadFromBytes(code, SubSeq(s, 5, 4 + length))
       IN IF Len(s) < 4 + length \/ payload = Failed THEN Failed
          ELSE [code |-> code, identifier |-> s[2], length |-> length, payload |-> payload]

CommandToBytes(c) ==
  LET code == CHOOSE i \in DOMAIN SignalingCode : SignalingCode[i] = c.code
  IN Bounded(<<code, c.identifier>> \o LittleEndian(c.length) \o PayloadToBytes(c.payload),
             CommandSize)

-----------------------------------------------------------------------------
(* L2CAP packets.                                                          *)

L2capPacket(cid, payload) == [length |-> Len(payload), channel_id |-> cid, payload |-> payload]

L2capFromBytes(s) ==
  IF Len(s) < 4 \/ Len(s) < 4 + WordAt(s, 1) THEN Failed
  ELSE LET payload == Bounded(SubSeq(s, 5, 4 + WordAt(s, 1)), PacketSize)
       IN IF payload = Failed THEN Failed
          ELSE [length |-> WordAt(s, 1), channel_id |-> WordAt(s, 3), payload |-> payload]

L2capToBytes(p) ==
  Bounded(LittleEndian(p.length) \o LittleEndian(p.channel_id) \o p.payload, PacketSize)

-----------------------------------------------------------------------------
(* ACL packets.                                                            *)

\* Twelve bits of handle, then two of boundary and two of broadcast flag.
AclHeader(handle, boundary, broadcast, length) ==
  [connection_handle |-> handle % 4096, packet_boundary |-> boundary,
   broadcast_flag |-> broadcast, data_length |-> length]

AclPacket(header, data) == [header |-> header, data |-> data]

AclFromBytes(s) ==
  IF Len(s) < 4 \/ Len(s) < 4 + WordAt(s, 3) \/ WordAt(s, 3) > DataSize THEN Failed
  ELSE LET flags == WordAt(s, 1)
       IN AclPacket(AclHeader(flags % 4096, (flags \div 4096) % 4, flags \div 16384, WordAt(s, 3)),
                    SubSeq(s, 5, 4 + WordAt(s, 3)))

\* Mutant of AclToBytes: the flags are swapped.
AclToBytesSwapped(p) ==
  Bounded(LittleEndian(p.header.connection_handle + 4096 * p.header.broadcast_flag
                         + 16384 * p.header.packet_boundary)
            \o LittleEndian(p.header.data_length) \o p.data, DataSize)

AclToBytes(p) ==
  Bounded(LittleEndian(p.header.connection_handle + 4096 * p.header.packet_boundary
                         + 16384 * p.header.broadcast_flag)
            \o LittleEndian(p.header.data_length) \o p.data, DataSize)
=============================================================================
