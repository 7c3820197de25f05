--------------------------- MODULE AclManagerProofs ---------------------------
(***************************************************************************)
(* Proofs about AclManager: what it hands on is what was sent, for every   *)
(* number of links, every buffer size, and PDUs of every shape cut in      *)
(* every way.                                                              *)
(*                                                                         *)
(* BufferGenuine is what makes RoutedIsSent true: relative to the types it *)
(* is inductive, and a buffer that is genuine and parses is the whole PDU. *)
(***************************************************************************)
EXTENDS AclManager, SequenceTheorems, FiniteSetTheorems, TLAPS

\* A link delivers octets of its current PDU only, and that PDU was started.
LinkSane ==
  \A h \in Handle : /\ link[h].at <= Total(link[h].pdu)
                    /\ link[h].pdu.id <= sent

IndInv ==
  /\ TypeOK
  /\ IsFiniteSet(DOMAIN connections)
  /\ LinkSane
  /\ ConnectionCurrent
  /\ BufferGenuine

-----------------------------------------------------------------------------
(* Octets.                                                                 *)

\* A PDU is a record of numbers, those of the header 16 bits wide.
LEMMA PduType ==
  ASSUME NEW pdu \in Pdu \cup {NoPdu}
  PROVE  /\ pdu.id \in Nat
         /\ pdu.cid \in Nat /\ pdu.cid < 65536
         /\ pdu.length \in Nat /\ pdu.length < 65536
         /\ Total(pdu) \in Nat /\ Total(pdu) >= HeaderSize
         /\ pdu \in Pdu => pdu.id \in 1 .. MaxPdus
<1>1. CASE pdu \in Pdu
  <2>1. PICK i \in 1 .. MaxPdus, s \in Shape : pdu = [id |-> i, cid |-> s.cid, length |-> s.length]
    BY <1>1 DEF Pdu
  <2>2. /\ s.cid \in Nat /\ s.cid < 65536
        /\ s.length \in Nat /\ s.length < 65536
    BY AclManagerAssumption
  <2>3. MaxPdus \in Nat
    BY AclManagerAssumption
  <2>4. pdu.id = i /\ pdu.cid = s.cid /\ pdu.length = s.length
    BY <2>1
  <2> QED
    BY <2>2, <2>3, <2>4 DEF Total, HeaderSize
<1>2. CASE pdu = NoPdu /\ pdu \notin Pdu
  BY <1>2 DEF NoPdu, Total, HeaderSize
<1> QED
  BY <1>1, <1>2

\* A range of octets is a sequence of its length.
LEMMA OctetsType ==
  ASSUME NEW pdu \in Pdu, NEW from \in Nat \ {0}, NEW to \in Nat, from <= to + 1
  PROVE  /\ Octets(pdu, from, to) \in Seq(Octet)
         /\ Len(Octets(pdu, from, to)) = to + 1 - from
         /\ \A i \in 1 .. to + 1 - from : Octets(pdu, from, to)[i] = <<pdu, from + i - 1>>
<1> DEFINE n == to + 1 - from
<1>1. n \in Nat
  OBVIOUS
<1>2. \A i \in 1 .. n : <<pdu, from + i - 1>> \in Octet
  BY DEF Octet
<1>3. Octets(pdu, from, to) = [i \in 1 .. n |-> <<pdu, from + i - 1>>]
  BY DEF Octets
<1>4. Octets(pdu, from, to) \in [1 .. n -> Octet]
  BY <1>2, <1>3
<1>5. Octets(pdu, from, to) \in Seq(Octet)
  BY <1>1, <1>4, SeqDef
<1>6. Len(Octets(pdu, from, to)) = n
  BY <1>1, <1>4, <1>5, LenProperties
<1> QED
  BY <1>3, <1>5, <1>6

\* The first octets of a PDU.
LEMMA PrefixType ==
  ASSUME NEW pdu \in Pdu, NEW to \in Nat
  PROVE  /\ Octets(pdu, 1, to) \in Seq(Octet)
         /\ Len(Octets(pdu, 1, to)) = to
         /\ \A i \in 1 .. to : Octets(pdu, 1, to)[i] = <<pdu, i>>
<1> DEFINE s == Octets(pdu, 1, to)
<1>1. 1 \in Nat \ {0} /\ 1 <= to + 1
  OBVIOUS
<1>2. /\ s \in Seq(Octet) /\ Len(s) = to + 1 - 1
      /\ \A i \in 1 .. to + 1 - 1 : s[i] = <<pdu, 1 + i - 1>>
  BY <1>1, OctetsType
<1> HIDE DEF s
<1>3. to + 1 - 1 = to /\ \A i \in 1 .. to : 1 + i - 1 = i
  OBVIOUS
<1>4. s \in Seq(Octet) /\ Len(s) = to /\ \A i \in 1 .. to : s[i] = <<pdu, i>>
  BY <1>2, <1>3
<1> QED
  BY <1>4 DEF s

\* Two sequences of equal length and elements are equal.
LEMMA SameOctets ==
  ASSUME NEW s \in Seq(Octet), NEW t \in Seq(Octet), Len(s) = Len(t),
         \A i \in 1 .. Len(s) : s[i] = t[i]
  PROVE  s = t
BY SeqEqual

\* Consecutive ranges join.
LEMMA OctetsJoin ==
  ASSUME NEW pdu \in Pdu, NEW at \in Nat, NEW to \in Nat, at <= to
  PROVE  Octets(pdu, 1, at) \o Octets(pdu, at + 1, to) = Octets(pdu, 1, to)
<1> DEFINE s == Octets(pdu, 1, at)
           t == Octets(pdu, at + 1, to)
           all == Octets(pdu, 1, to)
<1>1. /\ s \in Seq(Octet) /\ Len(s) = at
      /\ \A i \in 1 .. at : s[i] = <<pdu, i>>
  BY PrefixType
<1>2. /\ t \in Seq(Octet) /\ Len(t) = to - at
      /\ \A i \in 1 .. to - at : t[i] = <<pdu, at + i>>
  <2>0. at + 1 \in Nat \ {0} /\ at + 1 <= to + 1
    OBVIOUS
  <2>1. /\ t \in Seq(Octet) /\ Len(t) = to + 1 - (at + 1)
        /\ \A i \in 1 .. to + 1 - (at + 1) : t[i] = <<pdu, (at + 1) + i - 1>>
    BY <2>0, OctetsType
  <2> QED
    BY <2>1
<1>3. /\ all \in Seq(Octet) /\ Len(all) = to
      /\ \A i \in 1 .. to : all[i] = <<pdu, i>>
  BY PrefixType
<1> HIDE DEF s, t, all
<1>4. /\ s \o t \in Seq(Octet) /\ Len(s \o t) = to
      /\ \A i \in 1 .. to : (s \o t)[i] = IF i <= at THEN s[i] ELSE t[i - at]
  <2>1. /\ s \o t \in Seq(Octet)
        /\ Len(s \o t) = Len(s) + Len(t)
        /\ \A i \in 1 .. Len(s) + Len(t) : (s \o t)[i] = IF i <= Len(s) THEN s[i] ELSE t[i - Len(s)]
    BY <1>1, <1>2, ConcatProperties
  <2>2. Len(s) = at /\ Len(s) + Len(t) = to
    BY <1>1, <1>2
  <2> QED
    BY <2>1, <2>2
<1>5. \A i \in 1 .. to : (s \o t)[i] = <<pdu, i>>
  BY <1>1, <1>2, <1>4
<1>6. s \o t = all
  BY <1>3, <1>4, <1>5, SameOctets
<1> QED
  BY <1>6 DEF s, t, all

\* A part of a range is a range.
LEMMA OctetsPart ==
  ASSUME NEW pdu \in Pdu, NEW to \in Nat, NEW i \in Nat \ {0}, NEW j \in Nat,
         i <= j + 1, j <= to
  PROVE  SubSeq(Octets(pdu, 1, to), i, j) = Octets(pdu, i, j)
<1> DEFINE s == Octets(pdu, 1, to)
           t == Octets(pdu, i, j)
<1>1. s \in Seq(Octet) /\ Len(s) = to /\ \A k \in 1 .. to : s[k] = <<pdu, k>>
  BY PrefixType
<1>2. /\ t \in Seq(Octet) /\ Len(t) = j + 1 - i
      /\ \A k \in 1 .. j + 1 - i : t[k] = <<pdu, i + k - 1>>
  BY OctetsType
<1> HIDE DEF s, t
<1>3. /\ SubSeq(s, i, j) \in Seq(Octet)
      /\ Len(SubSeq(s, i, j)) = j + 1 - i
      /\ \A k \in 1 .. j + 1 - i : SubSeq(s, i, j)[k] = s[i + k - 1]
  <2>1. \A k \in i .. j : s[k] \in Octet
    <3>1. \A k \in 1 .. Len(s) : s[k] \in Octet
      BY <1>1, LenProperties
    <3> QED
      BY <1>1, <3>1
  <2>2. i \in Int /\ j \in Int
    OBVIOUS
  <2>3. /\ SubSeq(s, i, j) \in Seq(Octet)
        /\ Len(SubSeq(s, i, j)) = IF i <= j THEN j - i + 1 ELSE 0
        /\ \A k \in 1 .. j - i + 1 : SubSeq(s, i, j)[k] = s[i + k - 1]
    BY <2>1, <2>2, SubSeqProperties
  <2> QED
    BY <2>3
<1>4. \A k \in 1 .. j + 1 - i : i + k - 1 \in 1 .. to
  OBVIOUS
<1>5. \A k \in 1 .. j + 1 - i : SubSeq(s, i, j)[k] = t[k]
  BY <1>1, <1>2, <1>3, <1>4
<1>6. SubSeq(s, i, j) = t
  BY <1>2, <1>3, <1>5, SameOctets
<1> QED
  BY <1>6 DEF s, t

\* The header is read back as it was written.
LEMMA HeaderRead ==
  ASSUME NEW pdu \in Pdu, NEW data, \A i \in 1 .. HeaderSize : data[i] = <<pdu, i>>
  PROVE  U16(data, 1) = pdu.length /\ U16(data, 3) = pdu.cid
<1>1. /\ data[1] = <<pdu, 1>> /\ data[2] = <<pdu, 2>>
      /\ data[3] = <<pdu, 3>> /\ data[4] = <<pdu, 4>>
  BY DEF HeaderSize
<1>2. /\ Value(data[1]) = pdu.length % 256 /\ Value(data[2]) = pdu.length \div 256
      /\ Value(data[3]) = pdu.cid % 256 /\ Value(data[4]) = pdu.cid \div 256
  BY <1>1 DEF Value
<1>3. \A x \in Nat : (x % 256) + 256 * (x \div 256) = x
  OBVIOUS
<1>4. 1 + 1 = 2 /\ 3 + 1 = 4
  OBVIOUS
<1>5. /\ U16(data, 1) = (pdu.length % 256) + 256 * (pdu.length \div 256)
      /\ U16(data, 3) = (pdu.cid % 256) + 256 * (pdu.cid \div 256)
  BY <1>2, <1>4 DEF U16
<1>6. pdu.length \in Nat /\ pdu.cid \in Nat
  BY PduType
<1> QED
  BY <1>3, <1>5, <1>6

\* A sequence that starts with the header of pdu has its octets there.
LEMMA HeaderThere ==
  ASSUME NEW pdu \in Pdu, NEW s \in Seq(Octet), Len(s) >= HeaderSize,
         SubSeq(s, 1, HeaderSize) = Octets(pdu, 1, HeaderSize)
  PROVE  \A i \in 1 .. HeaderSize : s[i] = <<pdu, i>>
<1> DEFINE t == SubSeq(s, 1, 4)
<1>1. \A i \in 1 .. 4 : s[i] \in Octet
  BY LenProperties DEF HeaderSize
<1>2. \A i \in 1 .. 4 - 1 + 1 : t[i] = s[1 + i - 1]
  BY <1>1, SubSeqProperties
<1>3. \A i \in 1 .. 4 : t[i] = <<pdu, i>>
  BY PrefixType DEF HeaderSize
<1> HIDE DEF t
<1>4. \A i \in 1 .. 4 : i \in 1 .. 4 - 1 + 1 /\ 1 + i - 1 = i
  OBVIOUS
<1>5. \A i \in 1 .. 4 : s[i] = <<pdu, i>>
  BY <1>2, <1>3, <1>4
<1> QED
  BY <1>5 DEF HeaderSize

\* Appending leaves the header of a sequence that has one.
LEMMA HeaderKept ==
  ASSUME NEW s \in Seq(Octet), NEW t \in Seq(Octet), Len(s) >= HeaderSize
  PROVE  SubSeq(s \o t, 1, HeaderSize) = SubSeq(s, 1, HeaderSize)
<1>1. /\ 1 \in 1 .. Len(s) + 1 /\ 4 \in 1 - 1 .. Len(s)
  BY LenProperties DEF HeaderSize
<1> QED
  BY <1>1, SubSeqOfConcat1 DEF HeaderSize

-----------------------------------------------------------------------------
(* Buffers.                                                                *)

\* The first fragment is genuine.
LEMMA FirstGenuine ==
  ASSUME NEW pdu \in Pdu, NEW n \in Nat
  PROVE  LET data == Octets(pdu, 1, n) IN
         /\ Genuine(data, ExpectedLength(data), pdu, n)
         /\ ExpectedLength(data) \in Nat
<1> DEFINE data == Octets(pdu, 1, n)
<1>1. Len(data) = n /\ \A i \in 1 .. n : data[i] = <<pdu, i>>
  BY PrefixType
<1>2. Genuine(data, ExpectedLength(data), pdu, n)
  BY <1>1 DEF Genuine, ExpectedLength
<1>3. ExpectedLength(data) \in Nat
  <2>1. CASE n >= HeaderSize
    <3>1. \A i \in 1 .. HeaderSize : data[i] = <<pdu, i>>
      BY <1>1, <2>1 DEF HeaderSize
    <3> HIDE DEF data
    <3>2. U16(data, 3) = pdu.cid /\ pdu.cid \in Nat
      BY <3>1, HeaderRead, PduType
    <3>3. ExpectedLength(data) = (pdu.cid + 4) % 65536
      BY <1>1, <2>1, <3>2 DEF ExpectedLength, HeaderSize
    <3> QED
      BY <3>2, <3>3 DEF data
  <2>2. CASE ~(n >= HeaderSize)
    BY <1>1, <2>2 DEF ExpectedLength, NoLength
  <2> QED
    BY <2>1, <2>2
<1> QED
  BY <1>2, <1>3

\* So is a genuine buffer with the next octets appended.
LEMMA AppendGenuine ==
  ASSUME NEW pdu \in Pdu, NEW at \in Nat, NEW n \in Nat,
         NEW buffer \in Seq(Octet), NEW expected,
         Genuine(buffer, expected, pdu, at)
  PROVE  Genuine(buffer \o Octets(pdu, at + 1, at + n), expected, pdu, at + n)
<1> SUFFICES ASSUME expected # NoLength
             PROVE  LET all == buffer \o Octets(pdu, at + 1, at + n) IN
                    /\ Len(all) >= HeaderSize
                    /\ \/ all = Octets(pdu, 1, at + n)
                       \/ /\ Total(pdu) > MaxAclDataSize
                          /\ SubSeq(all, 1, HeaderSize) = Octets(pdu, 1, HeaderSize)
  BY DEF Genuine
<1> DEFINE data == Octets(pdu, at + 1, at + n)
<1>1. Len(buffer) >= HeaderSize
  BY DEF Genuine
<1>2. data \in Seq(Octet)
  <2>1. /\ at + 1 \in Nat \ {0} /\ at + n \in Nat
        /\ at + 1 <= (at + n) + 1
    OBVIOUS
  <2> QED
    BY <2>1, OctetsType
<1>3. Octets(pdu, 1, at) \o data = Octets(pdu, 1, at + n)
  <2>1. at + n \in Nat /\ at <= at + n
    OBVIOUS
  <2> QED
    BY <2>1, OctetsJoin
<1> HIDE DEF data
<1>4. Len(buffer \o data) >= HeaderSize
  BY <1>1, <1>2, ConcatProperties, LenProperties DEF HeaderSize
<1>5. CASE buffer = Octets(pdu, 1, at)
  BY <1>3, <1>4, <1>5 DEF data
<1>6. CASE /\ Total(pdu) > MaxAclDataSize
           /\ SubSeq(buffer, 1, HeaderSize) = Octets(pdu, 1, HeaderSize)
  BY <1>1, <1>2, <1>4, <1>6, HeaderKept DEF data
<1> QED
  BY <1>5, <1>6 DEF Genuine

\* Before the overflow a genuine buffer holds all that came: a fragment that
\* does not fit belongs to a PDU that no buffer can hold.
LEMMA OverflowGenuine ==
  ASSUME NEW pdu \in Pdu, NEW at \in Nat, NEW n \in Nat,
         NEW buffer \in Seq(Octet), NEW expected,
         Genuine(buffer, expected, pdu, at),
         at + n <= Total(pdu),
         Len(buffer) + n > MaxAclDataSize
  PROVE  Genuine(buffer, expected, pdu, at + n)
<1> SUFFICES ASSUME expected # NoLength
             PROVE  /\ Len(buffer) >= HeaderSize
                    /\ Total(pdu) > MaxAclDataSize
                    /\ SubSeq(buffer, 1, HeaderSize) = Octets(pdu, 1, HeaderSize)
  BY DEF Genuine
<1>1. Len(buffer) >= HeaderSize
  BY DEF Genuine
<1>2. CASE buffer = Octets(pdu, 1, at)
  <2>1. Len(buffer) = at
    BY <1>2, PrefixType
  <2>2. Total(pdu) > MaxAclDataSize
    BY <2>1, PduType, AclManagerAssumption
  <2>3. SubSeq(Octets(pdu, 1, at), 1, 4) = Octets(pdu, 1, 4)
    <3>1. 4 <= at
      BY <1>1, <2>1 DEF HeaderSize
    <3>2. /\ 1 \in Nat \ {0} /\ 4 \in Nat /\ 1 <= 4 + 1
      OBVIOUS
    <3> QED
      BY <3>1, <3>2, OctetsPart
  <2> QED
    BY <1>1, <1>2, <2>2, <2>3 DEF HeaderSize
<1>3. CASE /\ Total(pdu) > MaxAclDataSize
           /\ SubSeq(buffer, 1, HeaderSize) = Octets(pdu, 1, HeaderSize)
  BY <1>1, <1>3
<1> QED
  BY <1>2, <1>3 DEF Genuine

\* Genuine data that fits a buffer and parses is the whole of its PDU.
LEMMA ParsesWhole ==
  ASSUME NEW pdu \in Pdu, NEW at \in Nat, at <= Total(pdu),
         NEW all \in Seq(Octet), NEW expected, expected # NoLength,
         Genuine(all, expected, pdu, at),
         Len(all) <= MaxAclDataSize,
         Parses(all)
  PROVE  at = Total(pdu) /\ all = Octets(pdu, 1, at)
<1>1. Len(all) >= HeaderSize /\ Len(all) \in Nat
  BY LenProperties DEF Genuine
<1>2. \A i \in 1 .. HeaderSize : all[i] = <<pdu, i>>
  <2>1. CASE all = Octets(pdu, 1, at)
    <3>1. Len(all) = at /\ \A i \in 1 .. at : all[i] = <<pdu, i>>
      BY <2>1, PrefixType
    <3>2. 1 .. HeaderSize \subseteq 1 .. at
      BY <1>1, <3>1 DEF HeaderSize
    <3> QED
      BY <3>1, <3>2
  <2>2. CASE SubSeq(all, 1, HeaderSize) = Octets(pdu, 1, HeaderSize)
    BY <1>1, <2>2, HeaderThere
  <2> QED
    BY <2>1, <2>2 DEF Genuine
<1>3. Len(all) >= Total(pdu)
  BY <1>2, HeaderRead DEF Parses, Total
<1>4. all = Octets(pdu, 1, at)
  BY <1>1, <1>3, PduType, AclManagerAssumption DEF Genuine
<1>5. Len(all) = at
  BY <1>4, PrefixType
<1> QED
  BY <1>3, <1>4, <1>5, PduType

-----------------------------------------------------------------------------
(* Steps.                                                                  *)

\* What a packet may do to connection h when it brings the PDU under way to
\* `at` octets: leave a genuine buffer, and hand on the PDU when it is whole.
Buffered(h, pdu, at) ==
  \/ /\ h \notin DOMAIN connections \/ at = Total(pdu)
     /\ UNCHANGED connections
  \/ /\ h \in DOMAIN connections
     /\ \E buffer \in Seq(Octet), expected \in Nat :
          /\ Len(buffer) <= MaxAclDataSize
          /\ Keep(h, buffer, expected)
          /\ at < Total(pdu) => Genuine(buffer, expected, pdu, at)

HandedOn(h, pdu, at) ==
  \/ UNCHANGED routed
  \/ /\ h \in DOMAIN connections
     /\ at = Total(pdu)
     /\ routed' = Append(routed, AsSent(h, pdu))

\* A whole PDU that is routed is routed as it was sent.
LEMMA RouteWhole ==
  ASSUME IndInv, NEW h \in DOMAIN connections, NEW pdu \in Pdu,
         Route(h, Octets(pdu, 1, Total(pdu)))
  PROVE  HandedOn(h, pdu, Total(pdu))
<1> DEFINE data == Octets(pdu, 1, Total(pdu))
<1>1. Total(pdu) \in Nat /\ Total(pdu) >= 4 /\ Total(pdu) = 4 + pdu.length
  BY PduType DEF HeaderSize, Total
<1>2. \A i \in 1 .. Total(pdu) : data[i] = <<pdu, i>>
  BY <1>1, PrefixType
<1>3. \A i \in 1 .. HeaderSize : data[i] = <<pdu, i>>
  BY <1>1, <1>2 DEF HeaderSize
<1>4. SubSeq(data, 5, Total(pdu)) = Octets(pdu, 5, Total(pdu))
  <2>1. /\ 5 \in Nat \ {0} /\ 5 <= Total(pdu) + 1 /\ Total(pdu) <= Total(pdu)
    BY <1>1
  <2> QED
    BY <1>1, <2>1, OctetsPart
<1> HIDE DEF data
<1>5. U16(data, 1) = pdu.length /\ U16(data, 3) = pdu.cid
  BY <1>3, HeaderRead
<1>6. connections[h].remote_addr = link[h].addr
  BY DEF IndInv, ConnectionCurrent
<1>7. \/ UNCHANGED routed
      \/ routed' = Append(routed, [handle  |-> h,
                                   addr    |-> link[h].addr,
                                   cid     |-> pdu.cid,
                                   payload |-> SubSeq(data, 4 + 1, 4 + pdu.length)])
  BY <1>5, <1>6 DEF Route, data, HeaderSize
<1>8. 4 + 1 = 5 /\ 4 + pdu.length = Total(pdu)
  BY <1>1
<1>9. \/ UNCHANGED routed
      \/ routed' = Append(routed, AsSent(h, pdu))
  BY <1>4, <1>7, <1>8 DEF AsSent, HeaderSize
<1> QED
  BY <1>9 DEF HandedOn

\* Route changes nothing unless the data parses.
LEMMA CollectStep ==
  ASSUME IndInv, NEW h \in DOMAIN connections, NEW pdu \in Pdu,
         NEW at \in Nat, at <= Total(pdu),
         NEW buffer \in Seq(Octet), Len(buffer) <= MaxAclDataSize,
         NEW expected \in Nat, NEW data \in Seq(Octet),
         Genuine(buffer \o data, expected, pdu, at),
         Len(buffer \o data) > MaxAclDataSize => Genuine(buffer, expected, pdu, at),
         Collect(h, buffer, expected, data)
  PROVE  Buffered(h, pdu, at) /\ HandedOn(h, pdu, at)
<1> DEFINE all == buffer \o data
<1>1. all \in Seq(Octet) /\ Len(all) \in Nat
  BY ConcatProperties, LenProperties
<1>2. MaxAclDataSize \in Nat
  BY AclManagerAssumption
<1>3. CASE /\ Len(all) > MaxAclDataSize
           /\ Keep(h, buffer, expected)
           /\ UNCHANGED routed
  BY <1>3 DEF Buffered, HandedOn
<1>4. CASE /\ Len(all) <= MaxAclDataSize
           /\ Keep(h, all, expected)
           /\ UNCHANGED routed
  BY <1>1, <1>4 DEF Buffered, HandedOn
<1>5. CASE /\ Len(all) <= MaxAclDataSize
           /\ expected # NoLength
           /\ Keep(h, <<>>, NoLength)
           /\ Route(h, all)
  <2>1. Buffered(h, pdu, at)
    <3>1. <<>> \in Seq(Octet) /\ Len(<<>>) <= MaxAclDataSize /\ NoLength \in Nat
      BY <1>2, EmptySeq DEF NoLength
    <3>2. Genuine(<<>>, NoLength, pdu, at)
      BY DEF Genuine
    <3> QED
      BY <1>5, <3>1, <3>2 DEF Buffered
  <2>2. CASE ~Parses(all)
    BY <1>5, <2>1, <2>2 DEF Route, HandedOn
  <2>3. CASE Parses(all)
    <3>1. at = Total(pdu) /\ all = Octets(pdu, 1, at)
      BY <1>1, <1>5, <2>3, ParsesWhole
    <3> QED
      BY <1>5, <2>1, <3>1, RouteWhole
  <2> QED
    BY <2>2, <2>3
<1> QED
  BY <1>3, <1>4, <1>5 DEF Collect

\* A packet that begins a PDU.
LEMMA BeginStep ==
  ASSUME IndInv, NEW h \in Handle, NEW boundary \in {"First", "Complete"},
         NEW pdu \in Pdu, NEW n \in 1 .. Total(pdu),
         Begin(h, boundary, pdu, n)
  PROVE  Buffered(h, pdu, n) /\ HandedOn(h, pdu, n)
<1> DEFINE data == Octets(pdu, 1, n)
<1>1. n \in Nat /\ n <= Total(pdu) /\ n <= MaxAclDataSize
  BY PduType DEF Begin
<1>2. data \in Seq(Octet) /\ Len(data) = n
  BY <1>1, PrefixType
<1>3. CASE h \notin DOMAIN connections
  BY <1>3 DEF Begin, Process, Buffered, HandedOn
<1>4. CASE h \in DOMAIN connections /\ boundary = "Complete"
  <2>1. n = Total(pdu) /\ Route(h, data) /\ UNCHANGED connections
    BY <1>4 DEF Begin, Process
  <2> QED
    BY <1>4, <2>1, RouteWhole DEF Buffered
<1>5. CASE h \in DOMAIN connections /\ boundary = "First"
  <2>1. Collect(h, <<>>, ExpectedLength(data), data)
    BY <1>5 DEF Begin, Process
  <2>2. /\ Genuine(data, ExpectedLength(data), pdu, n)
        /\ ExpectedLength(data) \in Nat
    BY <1>1, FirstGenuine
  <2>3. <<>> \o data = data /\ <<>> \in Seq(Octet)
    BY <1>2, ConcatEmptySeq, EmptySeq
  <2>4. Len(<<>>) <= MaxAclDataSize /\ ~(Len(data) > MaxAclDataSize)
    BY <1>1, <1>2, AclManagerAssumption
  <2> HIDE DEF data
  <2> QED
    BY <1>1, <1>2, <1>5, <2>1, <2>2, <2>3, <2>4, CollectStep
<1> QED
  BY <1>3, <1>4, <1>5

\* A packet that continues one.
LEMMA ContinueStep ==
  ASSUME IndInv, NEW h \in Handle,
         NEW n \in 1 .. Total(link[h].pdu),
         Continue(h, n)
  PROVE  LET pdu == link[h].pdu
             at == link[h].at + n
         IN /\ pdu \in Pdu /\ at \in Nat /\ at <= Total(pdu)
            /\ Buffered(h, pdu, at) /\ HandedOn(h, pdu, at)
<1> DEFINE pdu == link[h].pdu
           was == link[h].at
           data == Octets(pdu, was + 1, was + n)
           c == connections[h]
<1>1. pdu \in Pdu /\ was \in Nat
  BY DEF IndInv, TypeOK, Continue
<1>2. n \in Nat \ {0} /\ was + n \in Nat /\ was + n <= Total(pdu) /\ was < Total(pdu)
  BY <1>1, PduType DEF Continue
<1>3. data \in Seq(Octet) /\ Len(data) = n
  <2>1. was + 1 \in Nat \ {0} /\ was + 1 <= (was + n) + 1 /\ (was + n) + 1 - (was + 1) = n
    BY <1>1, <1>2
  <2> QED
    BY <1>1, <1>2, <2>1, OctetsType
<1>4. CASE h \notin DOMAIN connections
  BY <1>1, <1>2, <1>4 DEF Continue, Process, Buffered, HandedOn
<1>5. CASE h \in DOMAIN connections
  <2>1. Collect(h, c.fragment_buffer, c.expected_length, data)
    BY <1>5 DEF Continue, Process
  <2>2. /\ c.fragment_buffer \in Seq(Octet)
        /\ Len(c.fragment_buffer) <= MaxAclDataSize
        /\ c.expected_length \in Nat
    BY <1>5 DEF IndInv, TypeOK, Connection
  <2>3. Genuine(c.fragment_buffer, c.expected_length, pdu, was)
    BY <1>2, <1>5 DEF IndInv, BufferGenuine
  <2>4. Genuine(c.fragment_buffer \o data, c.expected_length, pdu, was + n)
    BY <1>1, <1>2, <2>2, <2>3, AppendGenuine
  <2>5. Len(c.fragment_buffer \o data) > MaxAclDataSize
          => Genuine(c.fragment_buffer, c.expected_length, pdu, was + n)
    <3>1. Len(c.fragment_buffer \o data) = Len(c.fragment_buffer) + n
      BY <1>3, <2>2, ConcatProperties
    <3> QED
      BY <1>1, <1>2, <2>2, <2>3, <3>1, OverflowGenuine
  <2>6. pdu \in Pdu /\ was + n \in Nat /\ was + n <= Total(pdu) /\ data \in Seq(Octet)
    BY <1>1, <1>2, <1>3
  <2> HIDE DEF pdu, was, data, c
  <2>7. Buffered(h, pdu, was + n) /\ HandedOn(h, pdu, was + n)
    BY <1>5, <2>1, <2>2, <2>4, <2>5, <2>6, CollectStep
  <2> QED
    BY <2>6, <2>7 DEF pdu, was
<1> QED
  BY <1>4, <1>5

\* The invariant after a packet that left what Buffered and HandedOn allow.
LEMMA PacketKeeps ==
  ASSUME IndInv, NEW h \in Handle, NEW pdu \in Pdu,
         NEW at \in Nat, at <= Total(pdu),
         link[h] # NoLink,
         link' = [link EXCEPT ![h].pdu = pdu, ![h].at = at],
         sent' \in 0 .. MaxPdus, sent <= sent', pdu.id <= sent',
         Buffered(h, pdu, at), HandedOn(h, pdu, at)
  PROVE  IndInv'
<1> USE DEF IndInv
<1>1. /\ link' \in [Handle -> [addr : Addr \cup {NoAddr}, pdu : Pdu \cup {NoPdu}, at : Nat]]
      /\ \A k \in Handle \ {h} : link'[k] = link[k]
      /\ link'[h].pdu = pdu /\ link'[h].at = at /\ link'[h].addr = link[h].addr
  BY DEF TypeOK
<1>2. LinkSane'
  <2>1. \A k \in Handle : link[k].pdu.id \in Nat
    BY PduType DEF TypeOK
  <2>2. \A k \in Handle \ {h} : link[k].at <= Total(link[k].pdu) /\ link[k].pdu.id <= sent
    BY DEF LinkSane
  <2>3. sent \in Nat /\ sent' \in Nat
    BY AclManagerAssumption DEF TypeOK
  <2>4. \A k \in Handle \ {h} : link'[k].at <= Total(link'[k].pdu) /\ link'[k].pdu.id <= sent'
    BY <1>1, <2>1, <2>2, <2>3
  <2> QED
    BY <1>1, <2>4 DEF LinkSane, Total
<1>3. /\ DOMAIN connections' = DOMAIN connections
      /\ connections' \in [DOMAIN connections -> Connection]
      /\ \A k \in DOMAIN connections : k # h => connections'[k] = connections[k]
      /\ \A k \in DOMAIN connections : connections'[k].remote_addr = connections[k].remote_addr
      /\ \A k \in DOMAIN connections : Len(connections'[k].fragment_buffer) <= MaxAclDataSize
      /\ h \in DOMAIN connections /\ at < Total(pdu) =>
           Genuine(connections'[h].fragment_buffer, connections'[h].expected_length, pdu, at)
  <2>1. CASE /\ h \notin DOMAIN connections \/ at = Total(pdu)
             /\ UNCHANGED connections
    BY <2>1, PduType DEF TypeOK
  <2>2. CASE /\ h \in DOMAIN connections
             /\ \E buffer \in Seq(Octet), expected \in Nat :
                  /\ Len(buffer) <= MaxAclDataSize
                  /\ Keep(h, buffer, expected)
                  /\ at < Total(pdu) => Genuine(buffer, expected, pdu, at)
    <3>1. PICK buffer \in Seq(Octet), expected \in Nat :
                  /\ Len(buffer) <= MaxAclDataSize
                  /\ Keep(h, buffer, expected)
                  /\ at < Total(pdu) => Genuine(buffer, expected, pdu, at)
      BY <2>2
    <3>2. connections' = [connections EXCEPT ![h].fragment_buffer = buffer,
                                             ![h].expected_length = expected]
      BY <3>1 DEF Keep
    <3>3. connections \in [DOMAIN connections -> Connection]
      BY DEF TypeOK
    <3>4. /\ DOMAIN connections' = DOMAIN connections
          /\ connections' \in [DOMAIN connections -> Connection]
          /\ \A k \in DOMAIN connections : k # h => connections'[k] = connections[k]
          /\ \A k \in DOMAIN connections : connections'[k].remote_addr = connections[k].remote_addr
          /\ connections'[h].fragment_buffer = buffer
          /\ connections'[h].expected_length = expected
      BY <2>2, <3>2, <3>3 DEF Connection
    <3> QED
      BY <3>1, <3>4 DEF TypeOK
  <2> QED
    BY <2>1, <2>2 DEF Buffered
<1>4. routed' \in Seq(RoutedPacket)
  <2>1. CASE UNCHANGED routed
    BY <2>1 DEF TypeOK
  <2>2. CASE h \in DOMAIN connections /\ routed' = Append(routed, AsSent(h, pdu))
    <3>1. link[h].addr \in Addr
      BY <2>2 DEF TypeOK, ConnectionCurrent, Connection
    <3>2. pdu.cid \in Nat /\ Total(pdu) \in Nat /\ 5 <= Total(pdu) + 1
      BY PduType DEF HeaderSize
    <3>3. Octets(pdu, 5, Total(pdu)) \in Seq(Octet)
      <4>1. 5 \in Nat \ {0}
        OBVIOUS
      <4> QED
        BY <3>2, <4>1, OctetsType
    <3>4. AsSent(h, pdu) \in RoutedPacket
      BY <3>1, <3>2, <3>3 DEF AsSent, RoutedPacket, HeaderSize
    <3>5. routed \in Seq(RoutedPacket)
      BY DEF TypeOK
    <3> QED
      BY <2>2, <3>4, <3>5, AppendProperties
  <2> QED
    BY <2>1, <2>2 DEF HandedOn
<1>5. TypeOK'
  BY <1>1, <1>3, <1>4 DEF TypeOK
<1>6. ConnectionCurrent'
  <2>1. pdu # NoPdu
    BY PduType DEF NoPdu
  <2>2. link'[h] # NoLink
    BY <1>1, <2>1 DEF NoLink
  <2>3. DOMAIN connections \subseteq Handle
    BY DEF TypeOK
  <2>4. \A k \in DOMAIN connections :
          link[k] # NoLink /\ connections[k].remote_addr = link[k].addr
    BY DEF ConnectionCurrent
  <2>5. \A k \in DOMAIN connections : link'[k] # NoLink /\ link'[k].addr = link[k].addr
    BY <1>1, <2>2, <2>3, <2>4
  <2> QED
    BY <1>3, <2>4, <2>5 DEF ConnectionCurrent
<1>7. BufferGenuine'
  <2>1. \A k \in DOMAIN connections \ {h} : link'[k] = link[k] /\ connections'[k] = connections[k]
    BY <1>1, <1>3 DEF TypeOK
  <2>2. ASSUME NEW k \in DOMAIN connections', link'[k].at < Total(link'[k].pdu)
        PROVE  Genuine(connections'[k].fragment_buffer, connections'[k].expected_length,
                       link'[k].pdu, link'[k].at)
    <3>1. CASE k = h
      BY <1>1, <1>3, <2>2, <3>1
    <3>2. CASE k # h
      BY <1>3, <2>1, <2>2, <3>2 DEF BufferGenuine
    <3> QED
      BY <3>1, <3>2
  <2> QED
    BY <2>2 DEF BufferGenuine, Genuine, Total
<1> QED
  BY <1>2, <1>3, <1>5, <1>6, <1>7

\* Initially there are no connections.
LEMMA InitInv == Init => IndInv
<1> SUFFICES ASSUME Init PROVE IndInv
  OBVIOUS
<1>1. DOMAIN connections = {}
  BY DEF Init
<1>2. IsFiniteSet(DOMAIN connections) /\ Cardinality(DOMAIN connections) = 0
  BY <1>1, FS_EmptySet
<1>3. link \in [Handle -> [addr : Addr \cup {NoAddr}, pdu : Pdu \cup {NoPdu}, at : Nat]]
  BY DEF Init, NoLink
<1>4. TypeOK
  BY <1>1, <1>2, <1>3, EmptySeq, AclManagerAssumption DEF Init, TypeOK
<1>5. LinkSane
  BY DEF Init, LinkSane, NoLink, NoPdu, Total, HeaderSize
<1>6. ConnectionCurrent /\ BufferGenuine
  BY <1>1 DEF ConnectionCurrent, BufferGenuine
<1> QED
  BY <1>2, <1>4, <1>5, <1>6 DEF IndInv

\* A link comes up: its connection starts with an empty buffer.
LEMMA AddKeeps ==
  ASSUME IndInv, NEW h \in Handle, NEW a \in Addr, AddConnection(h, a)
  PROVE  IndInv'
<1> USE DEF IndInv
<1>1. /\ link' = [link EXCEPT ![h].addr = a]
      /\ link' \in [Handle -> [addr : Addr \cup {NoAddr}, pdu : Pdu \cup {NoPdu}, at : Nat]]
      /\ \A k \in Handle \ {h} : link'[k] = link[k]
      /\ link'[h].addr = a /\ link'[h].pdu = NoPdu /\ link'[h].at = 0
      /\ routed' = routed /\ sent' = sent
  BY DEF TypeOK, AddConnection, NoLink
<1>2. h \notin DOMAIN connections
  BY DEF AddConnection, ConnectionCurrent
<1>3. LinkSane'
  BY <1>1, AclManagerAssumption DEF LinkSane, Total, HeaderSize, NoPdu, TypeOK
<1>4. link'[h] # NoLink
  BY <1>1, AclManagerAssumption DEF NoLink
<1>5. CASE connections' = connections
  <2>1. TypeOK'
    BY <1>1, <1>5 DEF TypeOK
  <2>2. \A k \in DOMAIN connections : link'[k] = link[k]
    BY <1>1, <1>2 DEF TypeOK
  <2>3. ConnectionCurrent' /\ BufferGenuine'
    BY <1>5, <2>2 DEF ConnectionCurrent, BufferGenuine, Genuine, Total
  <2> QED
    BY <1>3, <1>5, <2>1, <2>3
<1>6. CASE /\ Cardinality(DOMAIN connections) < MaxAclConnections
           /\ connections' = [k \in DOMAIN connections \cup {h} |->
                                IF k = h THEN NewConnection(a) ELSE connections[k]]
  <2>1. /\ DOMAIN connections' = DOMAIN connections \cup {h}
        /\ connections'[h] = NewConnection(a)
        /\ \A k \in DOMAIN connections : connections'[k] = connections[k]
    BY <1>2, <1>6
  <2>2. NewConnection(a) \in Connection
    BY EmptySeq DEF NewConnection, Connection, NoLength
  <2>3. /\ IsFiniteSet(DOMAIN connections')
        /\ Cardinality(DOMAIN connections') <= MaxAclConnections
    <3>1. /\ IsFiniteSet(DOMAIN connections \cup {h})
          /\ Cardinality(DOMAIN connections \cup {h}) = Cardinality(DOMAIN connections) + 1
      BY <1>2, FS_AddElement
    <3>2. Cardinality(DOMAIN connections) \in Nat /\ MaxAclConnections \in Nat
      BY FS_CardinalityType, AclManagerAssumption
    <3> QED
      BY <1>6, <2>1, <3>1, <3>2
  <2>4. connections' \in [DOMAIN connections' -> Connection]
    BY <1>6, <2>1, <2>2 DEF TypeOK
  <2>5. TypeOK'
    BY <1>1, <2>1, <2>3, <2>4, AclManagerAssumption DEF TypeOK, NewConnection
  <2>6. \A k \in DOMAIN connections : link'[k] = link[k]
    BY <1>1, <1>2 DEF TypeOK
  <2>7. ConnectionCurrent'
    BY <1>1, <1>4, <2>1, <2>6 DEF ConnectionCurrent, NewConnection
  <2>8. BufferGenuine'
    BY <2>1, <2>6 DEF BufferGenuine, Genuine, Total, NewConnection
  <2> QED
    BY <1>3, <2>3, <2>5, <2>7, <2>8
<1> QED
  BY <1>2, <1>5, <1>6 DEF AddConnection

\* A link goes down, and its buffer with it.
LEMMA RemoveKeeps ==
  ASSUME IndInv, NEW h \in Handle, RemoveConnection(h)
  PROVE  IndInv'
<1> USE DEF IndInv
<1>1. /\ link' = [link EXCEPT ![h] = NoLink]
      /\ link' \in [Handle -> [addr : Addr \cup {NoAddr}, pdu : Pdu \cup {NoPdu}, at : Nat]]
      /\ \A k \in Handle \ {h} : link'[k] = link[k]
      /\ link'[h] = NoLink
      /\ routed' = routed /\ sent' = sent
  BY DEF TypeOK, RemoveConnection, NoLink
<1>2. /\ DOMAIN connections' = DOMAIN connections \ {h}
      /\ \A k \in DOMAIN connections \ {h} : connections'[k] = connections[k]
  BY DEF RemoveConnection
<1>3. /\ IsFiniteSet(DOMAIN connections')
      /\ Cardinality(DOMAIN connections') <= MaxAclConnections
  <2>1. DOMAIN connections' \subseteq DOMAIN connections
    BY <1>2
  <2>2. /\ IsFiniteSet(DOMAIN connections')
        /\ Cardinality(DOMAIN connections') <= Cardinality(DOMAIN connections)
    BY <2>1, FS_Subset
  <2> QED
    BY <2>2, FS_CardinalityType, AclManagerAssumption DEF TypeOK
<1>4. connections' \in [DOMAIN connections' -> Connection]
  BY <1>2 DEF RemoveConnection, TypeOK
<1>5. TypeOK'
  BY <1>1, <1>2, <1>3, <1>4 DEF TypeOK
<1>6. LinkSane'
  BY <1>1, AclManagerAssumption DEF LinkSane, Total, HeaderSize, NoLink, NoPdu, TypeOK
<1>7. \A k \in DOMAIN connections' : link'[k] = link[k]
  BY <1>1, <1>2 DEF TypeOK
<1>8. ConnectionCurrent'
  BY <1>2, <1>7 DEF ConnectionCurrent
<1>9. BufferGenuine'
  BY <1>2, <1>7 DEF BufferGenuine, Genuine, Total
<1> QED
  BY <1>3, <1>5, <1>6, <1>8, <1>9

\* A packet with the next octets of a PDU, old or new.
LEMMA ArrivalKeeps ==
  ASSUME IndInv, NEW h \in Handle, Packet(h)
  PROVE  /\ IndInv'
         /\ routed' # routed =>
              Completes(h) /\ routed' = Append(routed, AsSent(h, link'[h].pdu))
<1> USE DEF IndInv
<1>1. ASSUME NEW boundary \in {"First", "Complete"}, NEW pdu \in Pdu,
             NEW n \in 1 .. Total(pdu), Begin(h, boundary, pdu, n)
      PROVE  /\ IndInv'
             /\ routed' # routed =>
                  Completes(h) /\ routed' = Append(routed, AsSent(h, link'[h].pdu))
  <2>1. n \in Nat /\ n <= Total(pdu)
    BY PduType
  <2>2. /\ link' = [link EXCEPT ![h].pdu = pdu, ![h].at = n]
        /\ link[h] # NoLink
        /\ sent' \in 0 .. MaxPdus /\ sent <= sent' /\ pdu.id <= sent'
        /\ pdu.id = sent + 1
    BY <1>1, AclManagerAssumption DEF Begin, TypeOK
  <2>3. Buffered(h, pdu, n) /\ HandedOn(h, pdu, n)
    BY <1>1, BeginStep
  <2>4. IndInv'
    BY <2>1, <2>2, <2>3, PacketKeeps
  <2>5. link'[h].pdu = pdu /\ link'[h].at = n
    BY <2>2 DEF TypeOK
  <2>6. link[h].pdu # pdu
    BY <2>2, PduType DEF LinkSane, TypeOK
  <2>7. pdu # NoPdu
    BY PduType DEF NoPdu
  <2> QED
    BY <2>3, <2>4, <2>5, <2>6, <2>7 DEF HandedOn, Completes
<1>2. ASSUME NEW n \in 1 .. Total(link[h].pdu), Continue(h, n)
      PROVE  /\ IndInv'
             /\ routed' # routed =>
                  Completes(h) /\ routed' = Append(routed, AsSent(h, link'[h].pdu))
  <2> DEFINE pdu == link[h].pdu
             at == link[h].at + n
  <2>1. /\ pdu \in Pdu /\ at \in Nat /\ at <= Total(pdu)
        /\ Buffered(h, pdu, at) /\ HandedOn(h, pdu, at)
    BY <1>2, ContinueStep
  <2>2. link[h] # NoLink /\ link' = [link EXCEPT ![h].at = at] /\ sent' = sent
    BY <1>2 DEF Continue
  <2>3. link[h] \in [addr : Addr \cup {NoAddr}, pdu : Pdu \cup {NoPdu}, at : Nat]
    BY DEF TypeOK
  <2>4. link' = [link EXCEPT ![h].pdu = pdu, ![h].at = at]
    BY <2>2, <2>3
  <2>5. sent' \in 0 .. MaxPdus /\ sent <= sent' /\ pdu.id <= sent'
    BY <2>2, AclManagerAssumption DEF TypeOK, LinkSane
  <2>6. IndInv'
    BY <2>1, <2>2, <2>4, <2>5, PacketKeeps
  <2>7. link'[h].pdu = pdu /\ link'[h].at = at
    BY <2>2, <2>3 DEF TypeOK
  <2>8. link[h].at # at
    <3>1. n \in Nat \ {0}
      BY <2>1, PduType
    <3> QED
      BY <2>3, <3>1
  <2>9. pdu # NoPdu
    BY <2>1, PduType DEF NoPdu
  <2> QED
    BY <2>1, <2>6, <2>7, <2>8, <2>9 DEF HandedOn, Completes
<1> QED
  BY <1>1, <1>2 DEF Packet

\* The invariant holds in every state.
LEMMA Invariance == Spec => []IndInv
<1>1. Init => IndInv
  BY InitInv
<1>2. IndInv /\ [Next]_vars => IndInv'
  <2> SUFFICES ASSUME IndInv, [Next]_vars PROVE IndInv'
    OBVIOUS
  <2>1. CASE UNCHANGED vars
    BY <2>1 DEF vars, IndInv, TypeOK, LinkSane, ConnectionCurrent, BufferGenuine,
                Genuine, Total
  <2>2. ASSUME NEW h \in Handle, NEW a \in Addr, AddConnection(h, a)
        PROVE  IndInv'
    BY <2>2, AddKeeps
  <2>3. ASSUME NEW h \in Handle, RemoveConnection(h)
        PROVE  IndInv'
    BY <2>3, RemoveKeeps
  <2>4. ASSUME NEW h \in Handle, Packet(h)
        PROVE  IndInv'
    BY <2>4, ArrivalKeeps
  <2> QED
    BY <2>1, <2>2, <2>3, <2>4 DEF Next
<1> QED
  BY <1>1, <1>2, PTL DEF Spec

-----------------------------------------------------------------------------
(* The theorems.                                                           *)

\* Every variable keeps its type, the map and every buffer their capacity.
THEOREM TypeCorrect == Spec => []TypeOK
<1>1. IndInv => TypeOK
  BY DEF IndInv
<1> QED
  BY <1>1, Invariance, PTL

\* A buffer that expects a length holds what has arrived of the PDU under way.
THEOREM BuffersAreGenuine == Spec => []BufferGenuine
<1>1. IndInv => BufferGenuine
  BY DEF IndInv
<1> QED
  BY <1>1, Invariance, PTL

\* What is handed on is a PDU that was sent on that link, whole, at the moment
\* at which it is complete.
THEOREM RoutedWasSent == Spec => RoutedIsSent
<1>1. IndInv /\ [Next]_vars =>
        [routed' # routed => \E h \in Handle :
           Completes(h) /\ routed' = Append(routed, AsSent(h, link'[h].pdu))]_vars
  <2> SUFFICES ASSUME IndInv, Next, routed' # routed
               PROVE  \E h \in Handle :
                        Completes(h) /\ routed' = Append(routed, AsSent(h, link'[h].pdu))
    OBVIOUS
  <2>1. PICK h \in Handle : \/ \E a \in Addr : AddConnection(h, a)
                            \/ RemoveConnection(h)
                            \/ Packet(h)
    BY DEF Next
  <2>2. Packet(h)
    BY <2>1 DEF AddConnection, RemoveConnection
  <2> QED
    BY <2>2, ArrivalKeeps
<1> QED
  BY <1>1, Invariance, PTL DEF Spec, RoutedIsSent
=============================================================================
