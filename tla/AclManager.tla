------------------------------ MODULE AclManager ------------------------------
(***************************************************************************)
(* AclManager (src/src/acl.rs): the ACL connections of the host, each with *)
(* a buffer in which fragmented L2CAP PDUs are put together again, and the *)
(* routing of complete PDUs by channel id.                                 *)
(*                                                                         *)
(* The commands AddAclConnection, RemoveAclConnection and ProcessAclData   *)
(* reach it in the order in which the controller reported the events and   *)
(* the data (HostPipeline), so the environment here is a controller that   *)
(* calls it directly: links come and go, and the peer of a link sends PDUs *)
(* that arrive whole or cut into fragments of any size.  A PDU whose       *)
(* fragments are flushed is given up, and the next one starts.             *)
(*                                                                         *)
(* An octet names the PDU it was sent in and its place in it, so that what *)
(* is routed can be compared with what was sent; only the octets of the    *)
(* header have a value.                                                    *)
(***************************************************************************)
EXTENDS Naturals, Sequences, FiniteSets

CONSTANTS
  Handle,              \* connection handles
  Addr,                \* addresses of peers
  NoAddr,              \* no link
  Shape,               \* channel ids and payload lengths of the PDUs peers send
  DynamicStart,        \* the first dynamic channel id, 0x0040
  MaxAclConnections,   \* MAX_ACL_CONNECTIONS
  MaxAclDataSize,      \* MAX_ACL_DATA_SIZE: a buffer, and one ACL packet
  MaxPdus              \* bound: PDUs sent in a behaviour

ASSUME AclManagerAssumption ==
  /\ NoAddr \notin Addr
  /\ \A s \in Shape : /\ s.cid \in Nat \ {0} /\ s.cid < 65536
                      /\ s.length \in Nat /\ s.length < 65536
  /\ DynamicStart \in Nat /\ DynamicStart > 1
  /\ MaxAclConnections \in Nat \ {0}
  /\ MaxAclDataSize \in Nat \ {0}
  /\ MaxPdus \in Nat

VARIABLES
  connections,   \* FnvIndexMap<u16, AclConnection>
  routed,        \* history: the packets handed on
  link,          \* the controller's links: the peer, its PDU under way, and
                 \* the number of its octets delivered
  sent           \* the number of PDUs peers started to send

vars == <<connections, routed, link, sent>>

-----------------------------------------------------------------------------
(* Octets.                                                                 *)

HeaderSize == 4
Signaling == 1

Pdu == {[id |-> i, cid |-> s.cid, length |-> s.length] : i \in 1 .. MaxPdus, s \in Shape}

Total(pdu) == HeaderSize + pdu.length

Octets(pdu, from, to) == [i \in 1 .. to + 1 - from |-> <<pdu, from + i - 1>>]

\* The header of a PDU, little-endian: payload length, channel id.
Value(octet) ==
  LET pdu == octet[1]
      at == octet[2]
  IN CASE at = 1 -> pdu.length % 256
       [] at = 2 -> pdu.length \div 256
       [] at = 3 -> pdu.cid % 256
       [] at = 4 -> pdu.cid \div 256
       [] OTHER -> 0

U16(data, i) == Value(data[i]) + 256 * Value(data[i + 1])

-----------------------------------------------------------------------------
(* Reassembly and routing.                                                 *)

NoLength == 65536

NewConnection(a) ==
  [remote_addr |-> a, fragment_buffer |-> <<>>, expected_length |-> NoLength]

\* L2capPacket::from_bytes succeeds: octets after the payload are ignored.
Parses(data) ==
  /\ Len(data) >= HeaderSize
  /\ Len(data) >= HeaderSize + U16(data, 1)

\* Channels with a handler; PDUs for any other are refused with an error.
Routable(cid) == cid = Signaling \/ cid >= DynamicStart

\* process_l2cap_data: complete data of connection h, refused or handed on.
Route(h, data) ==
  IF Parses(data) /\ Routable(U16(data, 3))
  THEN routed' = Append(routed, [handle  |-> h,
                                 addr    |-> connections[h].remote_addr,
                                 cid     |-> U16(data, 3),
                                 payload |-> SubSeq(data, HeaderSize + 1,
                                                    HeaderSize + U16(data, 1))])
  ELSE UNCHANGED routed

Keep(h, buffer, expected) ==
  connections' = [connections EXCEPT ![h].fragment_buffer = buffer,
                                     ![h].expected_length = expected]

\* Mutant: the fragment is copied without regard to the capacity.
CollectUnbounded(h, buffer, expected, data) ==
  LET all == buffer \o data IN
    IF expected # NoLength /\ Len(all) >= expected
    THEN Keep(h, <<>>, NoLength) /\ Route(h, all)
    ELSE Keep(h, all, expected) /\ UNCHANGED routed

\* add_fragment, and what follows when the PDU counts as complete.  A fragment
\* that does not fit is an error that leaves the buffer as it was.
Collect(h, buffer, expected, data) ==
  LET all == buffer \o data IN
  \/ /\ Len(all) > MaxAclDataSize
     /\ Keep(h, buffer, expected)
     /\ UNCHANGED routed
  \/ /\ Len(all) <= MaxAclDataSize
     /\ expected = NoLength \/ Len(all) < expected
     /\ Keep(h, all, expected)
     /\ UNCHANGED routed
  \/ /\ Len(all) <= MaxAclDataSize
     /\ expected # NoLength /\ Len(all) >= expected
     /\ Keep(h, <<>>, NoLength)
     /\ Route(h, all)

\* The length a first fragment promises: the code reads it from the third and
\* fourth octet.
ExpectedLength(data) ==
  IF Len(data) >= HeaderSize THEN (U16(data, 3) + HeaderSize) % 65536 ELSE NoLength

\* Mutant: a first fragment is appended to what is left of the last PDU.
ProcessNoReset(h, boundary, data) ==
  IF h \notin DOMAIN connections
  THEN UNCHANGED <<connections, routed>>
  ELSE LET c == connections[h] IN
       CASE boundary = "Complete" -> Route(h, data) /\ UNCHANGED connections
         [] boundary = "First" ->
              Collect(h, c.fragment_buffer, ExpectedLength(data), data)
         [] OTHER -> Collect(h, c.fragment_buffer, c.expected_length, data)

\* process_acl_packet.  The two kinds of first fragment are treated alike.
Process(h, boundary, data) ==
  IF h \notin DOMAIN connections
  THEN UNCHANGED <<connections, routed>>
  ELSE LET c == connections[h] IN
       CASE boundary = "Complete" -> Route(h, data) /\ UNCHANGED connections
         [] boundary = "First" -> Collect(h, <<>>, ExpectedLength(data), data)
         [] OTHER -> Collect(h, c.fragment_buffer, c.expected_length, data)

-----------------------------------------------------------------------------
(* The controller and the peers.                                           *)

NoPdu == [id |-> 0, cid |-> 0, length |-> 0]
NoLink == [addr |-> NoAddr, pdu |-> NoPdu, at |-> 0]

\* A link is up: add_connection, which a full map refuses.
AddConnection(h, a) ==
  /\ link[h] = NoLink
  /\ link' = [link EXCEPT ![h].addr = a]
  /\ connections' =
       IF h \in DOMAIN connections \/ Cardinality(DOMAIN connections) < MaxAclConnections
       THEN [k \in DOMAIN connections \cup {h} |->
               IF k = h THEN NewConnection(a) ELSE connections[k]]
       ELSE connections
  /\ UNCHANGED <<routed, sent>>

\* Mutant: the connection of a link that is gone stays in the map.
RemoveConnectionForgets(h) ==
  /\ link[h] # NoLink
  /\ link' = [link EXCEPT ![h] = NoLink]
  /\ UNCHANGED <<connections, routed, sent>>

\* The link is gone: remove_connection.
RemoveConnection(h) ==
  /\ link[h] # NoLink
  /\ link' = [link EXCEPT ![h] = NoLink]
  /\ connections' = [k \in DOMAIN connections \ {h} |-> connections[k]]
  /\ UNCHANGED <<routed, sent>>

\* The first n octets of a new PDU arrive on h, all of them in a "Complete"
\* packet; one that was under way there is given up.
Begin(h, boundary, pdu, n) ==
  /\ link[h] # NoLink
  /\ sent < MaxPdus
  /\ pdu.id = sent + 1
  /\ boundary = "Complete" => n = Total(pdu)
  /\ n <= MaxAclDataSize
  /\ sent' = sent + 1
  /\ link' = [link EXCEPT ![h].pdu = pdu, ![h].at = n]
  /\ Process(h, boundary, Octets(pdu, 1, n))

\* The next n octets of the PDU under way arrive.
Continue(h, n) ==
  LET pdu == link[h].pdu
      at == link[h].at
  IN /\ link[h] # NoLink
     /\ at + n <= Total(pdu)
     /\ pdu # NoPdu
     /\ n <= MaxAclDataSize
     /\ link' = [link EXCEPT ![h].at = at + n]
     /\ Process(h, "Continuing", Octets(pdu, at + 1, at + n))
     /\ UNCHANGED sent

-----------------------------------------------------------------------------
Init ==
  /\ connections = [h \in {} |-> NewConnection(NoAddr)]
  /\ routed = <<>>
  /\ link = [h \in Handle |-> NoLink]
  /\ sent = 0

\* A packet with the next octets of link h arrives.
Packet(h) ==
  \/ \E boundary \in {"First", "Complete"}, pdu \in Pdu :
       \E n \in 1 .. Total(pdu) : Begin(h, boundary, pdu, n)
  \/ \E n \in 1 .. Total(link[h].pdu) : Continue(h, n)

Next == \E h \in Handle :
  \/ \E a \in Addr : AddConnection(h, a)
  \/ RemoveConnection(h)
  \/ Packet(h)

Spec == Init /\ [][Next]_vars

-----------------------------------------------------------------------------
(* Properties.                                                             *)

Octet == Pdu \X Nat

Connection == [remote_addr     : Addr,
               fragment_buffer : Seq(Octet),
               expected_length : Nat]

RoutedPacket == [handle : Handle, addr : Addr, cid : Nat, payload : Seq(Octet)]

\* The type of every variable, with the map and the buffers within capacity.
TypeOK ==
  /\ DOMAIN connections \subseteq Handle
  /\ Cardinality(DOMAIN connections) <= MaxAclConnections
  /\ connections \in [DOMAIN connections -> Connection]
  /\ \A h \in DOMAIN connections :
       Len(connections[h].fragment_buffer) <= MaxAclDataSize
  /\ routed \in Seq(RoutedPacket)
  /\ link \in [Handle -> [addr : Addr \cup {NoAddr}, pdu : Pdu \cup {NoPdu}, at : Nat]]
  /\ sent \in 0 .. MaxPdus

\* A connection is that of the link its handle stands for now, and not of an
\* earlier one with the same handle.
ConnectionCurrent ==
  \A h \in DOMAIN connections : /\ link[h] # NoLink
                                 /\ connections[h].remote_addr = link[h].addr

\* A buffer of which a length is expected holds the first `at` octets of pdu.
\* Only a PDU that no buffer can hold may have gaps, and then its header, which
\* tells its length, is there.
Genuine(buffer, expected, pdu, at) ==
  expected # NoLength =>
    /\ Len(buffer) >= HeaderSize
    /\ \/ buffer = Octets(pdu, 1, at)
       \/ /\ Total(pdu) > MaxAclDataSize
          /\ SubSeq(buffer, 1, HeaderSize) = Octets(pdu, 1, HeaderSize)

\* While a PDU is being put together, the buffer is what has arrived of it: no
\* octet of an earlier PDU or an earlier link is before it, and none is missing.
BufferGenuine ==
  \A h \in DOMAIN connections :
    link[h].at < Total(link[h].pdu) =>
      Genuine(connections[h].fragment_buffer, connections[h].expected_length,
              link[h].pdu, link[h].at)

\* The last octet of the PDU under way on h arrives.
Completes(h) == /\ link'[h].at # link[h].at \/ link'[h].pdu # link[h].pdu
                /\ link'[h].pdu # NoPdu
                /\ link'[h].at = Total(link'[h].pdu)

\* What a connection hands on of a PDU.
AsSent(h, pdu) == [handle  |-> h,
                   addr    |-> link[h].addr,
                   cid     |-> pdu.cid,
                   payload |-> Octets(pdu, HeaderSize + 1, Total(pdu))]

\* What is handed on is a PDU that the peer at the other end of the link sent
\* on it, whole and unmixed, and it is handed on when its last octet arrives:
\* never twice, never out of order, whatever is flushed, does not fit, or is
\* left from an earlier link with the same handle.
RoutedIsSent ==
  [][routed' # routed => \E h \in Handle :
       Completes(h) /\ routed' = Append(routed, AsSent(h, link'[h].pdu))]_vars

\* Every PDU that arrives completely on a known connection, fits the buffer and
\* has a handler is handed on (acl.rs: "Handles fragmentation/reassembly and
\* routes complete L2CAP packets to the signaling processor").
CompleteIsRouted ==
  [][\A h \in DOMAIN connections :
       /\ Completes(h)
       /\ Total(link'[h].pdu) <= MaxAclDataSize
       /\ Routable(link'[h].pdu.cid)
       => routed' # routed]_vars
=============================================================================
