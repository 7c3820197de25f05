----------------------------- MODULE FormatsProofs -----------------------------
(***************************************************************************)
(* Proofs about Formats: whatever octets arrive, what a reader accepts is  *)
(* a value of its type, and was there to be read.                          *)
(***************************************************************************)
EXTENDS Formats, DataLemmas

-----------------------------------------------------------------------------
(* Prefixes.                                                               *)

LEMMA PrefixByIndex ==
  ASSUME NEW T, NEW r \in Seq(T), NEW s \in Seq(T), Len(r) <= Len(s),
         \A i \in 1 .. Len(r) : r[i] = s[i]
  PROVE  IsPrefix(r, s)
<1>1. Len(r) \in Nat /\ Len(s) \in Nat
  OBVIOUS
<1>2. SubSeq(r, 1, Len(r)) = SubSeq(s, 1, Len(r))
  <2>1. /\ SubSeq(r, 1, Len(r)) \in Seq(T) /\ Len(SubSeq(r, 1, Len(r))) = Len(r)
        /\ \A i \in 1 .. Len(r) : SubSeq(r, 1, Len(r))[i] = r[i]
    OBVIOUS
  <2>2. /\ SubSeq(s, 1, Len(r)) \in Seq(T) /\ Len(SubSeq(s, 1, Len(r))) = Len(r)
        /\ \A i \in 1 .. Len(r) : SubSeq(s, 1, Len(r))[i] = s[i]
    OBVIOUS
  <2>3. \A i \in 1 .. Len(r) : SubSeq(r, 1, Len(r))[i] = SubSeq(s, 1, Len(r))[i]
    BY <2>1, <2>2
  <2> QED
    BY <1>1, <2>1, <2>2, <2>3
<1> QED
  BY <1>2 DEF IsPrefix

-----------------------------------------------------------------------------
(* Words.                                                                  *)

LEMMA WordsAreTwoOctets ==
  ASSUME NEW w \in Word
  PROVE  /\ LittleEndian(w) \in Seq(Octet) /\ Len(LittleEndian(w)) = 2
         /\ LittleEndian(w)[1] = w % 256 /\ LittleEndian(w)[2] = w \div 256
         /\ BigEndian(w) \in Seq(Octet) /\ Len(BigEndian(w)) = 2
         /\ BigEndian(w)[1] = w \div 256 /\ BigEndian(w)[2] = w % 256
<1>1. w % 256 \in Octet /\ w \div 256 \in Octet
  <2>1. w \in Nat /\ w < 65536
    BY DEF Word
  <2>2. w % 256 \in Nat /\ w % 256 < 256
    BY ONLY <2>1, LowHalf
  <2>3. w \div 256 \in Nat /\ w \div 256 < 256
    BY ONLY <2>1, HighHalf
  <2> QED
    BY ONLY <2>2, <2>3 DEF Octet
<1> DEFINE a == w % 256
           b == w \div 256
<1>3. LittleEndian(w) = <<a, b>> /\ BigEndian(w) = <<b, a>>
  BY DEF LittleEndian, BigEndian
<1>4. a \in Octet /\ b \in Octet
  BY <1>1
<1> HIDE DEF a, b
<1>5. /\ LittleEndian(w) \in Seq(Octet) /\ Len(LittleEndian(w)) = 2
      /\ LittleEndian(w)[1] = a /\ LittleEndian(w)[2] = b
      /\ BigEndian(w) \in Seq(Octet) /\ Len(BigEndian(w)) = 2
      /\ BigEndian(w)[1] = b /\ BigEndian(w)[2] = a
  BY <1>3, <1>4
<1> QED
  BY <1>5 DEF a, b

\* Two octets and the word they are.
LEMMA OctetsOfWord ==
  ASSUME NEW a \in Octet, NEW b \in Octet
  PROVE  a + 256 * b \in Word /\ LittleEndian(a + 256 * b) = <<a, b>>
<1>1. a \in Nat /\ b \in Nat /\ a < 256 /\ b < 256
  BY DEF Octet
<1>2. (a + 256 * b) % 256 = a
  BY ONLY <1>1, LowOf
<1>3. (a + 256 * b) \div 256 = b
  BY ONLY <1>1, HighOf
<1>4. a + 256 * b \in Word
  BY ONLY <1>1 DEF Word
<1> QED
  BY <1>2, <1>3, <1>4 DEF LittleEndian

LEMMA WordAtIs ==
  ASSUME NEW s \in Seq(Octet), NEW i \in Nat \ {0}, i + 1 <= Len(s)
  PROVE  /\ WordAt(s, i) \in Word
         /\ LittleEndian(WordAt(s, i)) = <<s[i], s[i + 1]>>
<1>1. s[i] \in Octet /\ s[i + 1] \in Octet
  OBVIOUS
<1> QED
  BY <1>1, OctetsOfWord DEF WordAt

\* Two neighbours, and a prefix with two more.
LEMMA PairIs ==
  ASSUME NEW T, NEW t \in Seq(T), NEW k \in Nat \ {0}, k + 1 <= Len(t)
  PROVE  SubSeq(t, k, k + 1) = <<t[k], t[k + 1]>>
<1>1. t[k] \in T /\ t[k + 1] \in T
  OBVIOUS
<1>2. PICK r : r = <<t[k], t[k + 1]>>
  OBVIOUS
<1>3. r \in Seq(T) /\ Len(r) = 2 /\ r[1] = t[k] /\ r[2] = t[k + 1]
  BY ONLY <1>1, <1>2
<1>4. PICK q : q = SubSeq(t, k, k + 1)
  OBVIOUS
<1>5. q \in Seq(T) /\ Len(q) = 2 /\ \A i \in 1 .. 2 : q[i] = t[k + i - 1]
  <2>1. k \in Int /\ k + 1 \in Int /\ \A i \in k .. k + 1 : t[i] \in T
    OBVIOUS
  <2>2. /\ SubSeq(t, k, k + 1) \in Seq(T)
        /\ Len(SubSeq(t, k, k + 1)) = IF k <= k + 1 THEN k + 1 - k + 1 ELSE 0
        /\ \A i \in 1 .. k + 1 - k + 1 : SubSeq(t, k, k + 1)[i] = t[k + i - 1]
    BY ONLY <2>1, SubSeqProperties
  <2>3. k <= k + 1 /\ k + 1 - k + 1 = 2
    BY ONLY <2>1
  <2> QED
    BY ONLY <1>4, <2>2, <2>3
<1>6. q[1] = t[k] /\ q[2] = t[k + 1]
  <2>1. 1 \in 1 .. 2 /\ 2 \in 1 .. 2 /\ k + 1 - 1 = k /\ k + 2 - 1 = k + 1
    OBVIOUS
  <2> QED
    BY ONLY <1>5, <2>1
<1>7. \A i \in 1 .. Len(q) : q[i] = r[i]
  BY ONLY <1>3, <1>5, <1>6
<1> QED
  BY ONLY <1>2, <1>3, <1>4, <1>5, <1>7, SeqEqual

LEMMA PairMore ==
  ASSUME NEW T, NEW t \in Seq(T), NEW i \in Nat \ {0}, 2 * i <= Len(t)
  PROVE  SubSeq(t, 1, 2 * (i - 1)) \o <<t[2 * i - 1], t[2 * i]>> = SubSeq(t, 1, 2 * i)
<1>1. PICK k \in Nat \ {0} : k = 2 * i - 1
  OBVIOUS
<1>2. k + 1 = 2 * i /\ 2 * (i - 1) = k - 1 /\ k + 1 <= Len(t)
  BY <1>1
<1>3. <<t[2 * i - 1], t[2 * i]>> = SubSeq(t, k, k + 1)
  BY <1>1, <1>2, PairIs
<1>4. SubSeq(t, 1, k - 1) \o SubSeq(t, (k - 1) + 1, k + 1) = SubSeq(t, 1, k + 1)
  <2>1. 1 \in 1 .. Len(t) + 1 /\ k - 1 \in 1 - 1 .. Len(t) /\ k + 1 \in k - 1 .. Len(t)
    BY <1>1, <1>2
  <2> QED
    BY ONLY <2>1, t \in Seq(T), ConcatAdjacentSubSeq
<1>5. (k - 1) + 1 = k
  BY <1>1
<1> QED
  BY ONLY <1>2, <1>3, <1>4, <1>5

\* Four octets of header and what follows them.
LEMMA FourAndMore ==
  ASSUME NEW s \in Seq(Octet), NEW n \in Nat, 4 + n <= Len(s)
  PROVE  IsPrefix(<<s[1], s[2]>> \o <<s[3], s[4]>> \o SubSeq(s, 5, 4 + n), s)
<1>1. s[1] \in Octet /\ s[2] \in Octet /\ s[3] \in Octet /\ s[4] \in Octet
  OBVIOUS
<1> DEFINE t == SubSeq(s, 5, 4 + n)
           h == <<s[1], s[2]>> \o <<s[3], s[4]>>
<1>2. t \in Seq(Octet) /\ Len(t) = n /\ \A i \in 1 .. n : t[i] = s[4 + i]
  OBVIOUS
<1>3. h \in Seq(Octet) /\ Len(h) = 4 /\ \A i \in 1 .. 4 : h[i] = s[i]
  BY <1>1
<1> HIDE DEF t, h
<1>u. PICK u : u = h \o t
  OBVIOUS
<1>4. /\ u \in Seq(Octet) /\ Len(u) = 4 + n
      /\ \A i \in 1 .. 4 + n : u[i] = IF i <= 4 THEN h[i] ELSE t[i - 4]
  <2>1. h \o t \in Seq(Octet)
    BY ONLY <1>2, <1>3, ConcatProperties
  <2>2. Len(h \o t) = Len(h) + Len(t)
    BY ONLY <1>2, <1>3, ConcatProperties
  <2>3. \A i \in 1 .. Len(h) + Len(t) : (h \o t)[i] = IF i <= Len(h) THEN h[i] ELSE t[i - Len(h)]
    BY ONLY <1>2, <1>3, ConcatProperties
  <2> QED
    BY ONLY <1>u, <1>2, <1>3, <2>1, <2>2, <2>3
<1>5. \A i \in 1 .. 4 + n : u[i] = s[i]
  <2> TAKE i \in 1 .. 4 + n
  <2>0. i \in Nat
    BY ONLY i \in 1 .. 4 + n, n \in Nat
  <2>1. CASE i <= 4
    BY <1>3, <1>4, <2>1
  <2>2. CASE i > 4
    <3>1. u[i] = t[i - 4] /\ i - 4 \in 1 .. n /\ 4 + (i - 4) = i
      BY <1>4, <2>2
    <3> QED
      BY <1>2, <3>1
  <2> QED
    BY ONLY <2>0, <2>1, <2>2
<1>6. IsPrefix(u, s)
  BY <1>4, <1>5, PrefixByIndex
<1> QED
  BY <1>u, <1>6 DEF h, t

-----------------------------------------------------------------------------
(* Packets.                                                                *)

LEMMA AclIsThere ==
  ASSUME NEW s \in Seq(Octet), AclFromBytes(s) # Failed
  PROVE  /\ AclFromBytes(s).data \in Seq(Octet)
         /\ There(AclToBytes(AclFromBytes(s)), s)
<1> DEFINE flags == WordAt(s, 1)
           size == WordAt(s, 3)
           body == SubSeq(s, 5, 4 + size)
           p == AclPacket(AclHeader(flags % 4096, (flags \div 4096) % 4, flags \div 16384, size),
                          body)
<1>a. 4 <= Len(s)
  BY DEF AclFromBytes
<1>1. 4 + size <= Len(s) /\ AclFromBytes(s) = p
  <2>1. size \in Nat
    BY <1>a, WordAtIs DEF Word
  <2>2. 4 + size <= Len(s)
    BY <1>a, <2>1 DEF AclFromBytes
  <2> QED
    BY <2>2 DEF AclFromBytes
<1>2. flags \in Word /\ size \in Word /\ LittleEndian(flags) = <<s[1], s[2]>>
      /\ LittleEndian(size) = <<s[3], s[4]>>
  BY <1>a, WordAtIs
<1> HIDE DEF flags, size
<1>3. flags \in Nat /\ flags < 65536 /\ size \in Nat
  BY <1>2 DEF Word
<1>4. /\ p.header.connection_handle = (flags % 4096) % 4096
      /\ p.header.packet_boundary = (flags \div 4096) % 4
      /\ p.header.broadcast_flag = flags \div 16384
      /\ p.header.data_length = size
      /\ p.data = body
  <2>1. \A h, a, b, c : AclPacket(AclHeader(h, a, b, c), body)
                         = [header |-> [connection_handle |-> h % 4096, packet_boundary |-> a,
                                        broadcast_flag |-> b, data_length |-> c],
                            data |-> body]
    BY DEF AclPacket, AclHeader
  <2> HIDE DEF body
  <2>2. PICK h, a, b : h = flags % 4096 /\ a = (flags \div 4096) % 4 /\ b = flags \div 16384
    OBVIOUS
  <2>3. PICK r : r = h % 4096
    OBVIOUS
  <2>4. p = [header |-> [connection_handle |-> r, packet_boundary |-> a,
                         broadcast_flag |-> b, data_length |-> size], data |-> body]
    BY <2>1, <2>2, <2>3
  <2> HIDE DEF p
  <2>5. /\ p.header.connection_handle = r /\ p.header.packet_boundary = a
        /\ p.header.broadcast_flag = b /\ p.header.data_length = size /\ p.data = body
    BY ONLY <2>4
  <2> QED
    BY ONLY <2>2, <2>3, <2>5
<1>5. p.header.connection_handle + 4096 * p.header.packet_boundary
        + 16384 * p.header.broadcast_flag = flags
  <2>1. /\ (flags % 4096) % 4096 = flags % 4096
        /\ flags = (flags % 4096) + 4096 * ((flags \div 4096) % 4) + 16384 * (flags \div 16384)
    BY ONLY <1>3, Flags
  <2> QED
    BY ONLY <1>4, <2>1
<1>6. p.data \in Seq(Octet)
  <2>1. body \in Seq(Octet)
    BY <1>1, <1>3
  <2> HIDE DEF body, p
  <2> QED
    BY ONLY <1>4, <2>1
<1> HIDE DEF p
<1>7. IsPrefix(LittleEndian(flags) \o LittleEndian(size) \o SubSeq(s, 5, 4 + size), s)
  BY <1>a, <1>1, <1>2, <1>3, FourAndMore
<1>8. AclToBytes(p) = Bounded(LittleEndian(flags) \o LittleEndian(size) \o SubSeq(s, 5, 4 + size),
                              DataSize)
  BY <1>4, <1>5 DEF AclToBytes
<1> QED
  BY <1>1, <1>6, <1>7, <1>8 DEF There, Bounded

LEMMA L2capIsThere ==
  ASSUME NEW s \in Seq(Octet), L2capFromBytes(s) # Failed
  PROVE  /\ L2capFromBytes(s).payload \in Seq(Octet)
         /\ There(L2capToBytes(L2capFromBytes(s)), s)
<1> DEFINE size == WordAt(s, 1)
           cid == WordAt(s, 3)
           payload == SubSeq(s, 5, 4 + size)
           p == [length |-> size, channel_id |-> cid, payload |-> payload]
<1>a. 4 <= Len(s)
  BY DEF L2capFromBytes
<1>1. 4 + size <= Len(s)
  <2>1. size \in Nat
    BY <1>a, WordAtIs DEF Word
  <2> QED
    BY <1>a, <2>1 DEF L2capFromBytes
<1>2. L2capFromBytes(s) = p
  BY DEF L2capFromBytes, Bounded
<1>3. size \in Word /\ cid \in Word /\ LittleEndian(size) = <<s[1], s[2]>>
      /\ LittleEndian(cid) = <<s[3], s[4]>>
  BY <1>a, WordAtIs
<1> HIDE DEF size, cid
<1>4. size \in Nat
  BY <1>3 DEF Word
<1>5. payload \in Seq(Octet)
  BY <1>1, <1>4
<1>6. IsPrefix(LittleEndian(size) \o LittleEndian(cid) \o payload, s)
  BY <1>a, <1>1, <1>3, <1>4, FourAndMore
<1> HIDE DEF payload
<1>7. p.payload = payload
      /\ L2capToBytes(p) = Bounded(LittleEndian(size) \o LittleEndian(cid) \o payload, PacketSize)
  BY DEF L2capToBytes
<1> QED
  BY <1>2, <1>5, <1>6, <1>7 DEF There, Bounded

-----------------------------------------------------------------------------
(* Commands.                                                               *)

\* The octets of a sequence, two by two and joined again.
LEMMA PairsJoin ==
  ASSUME NEW t, t \in Seq(Octet), NEW n, n \in Nat, 2 * n <= Len(t),
         NEW l, l = [i \in 1 .. n |-> <<t[2 * i - 1], t[2 * i]>>]
  PROVE  FlattenSeq(l) = SubSeq(t, 1, 2 * n)
<1>1. \A i \in 1 .. n : 2 * i - 1 \in 1 .. Len(t) /\ 2 * i \in 1 .. Len(t)
  OBVIOUS
<1>2. \A i \in 1 .. n : l[i] = <<t[2 * i - 1], t[2 * i]>> /\ l[i] \in Seq(Octet)
  <2> TAKE i \in 1 .. n
  <2>1. t[2 * i - 1] \in Octet /\ t[2 * i] \in Octet
    BY <1>1
  <2>2. l[i] = <<t[2 * i - 1], t[2 * i]>>
    BY ONLY l = [j \in 1 .. n |-> <<t[2 * j - 1], t[2 * j]>>], i \in 1 .. n
  <2> QED
    BY <2>1, <2>2
<1>3. l \in Seq(Seq(Octet)) /\ Len(l) = n
  BY <1>2
<1>4. CASE n = 0
  <2>1. l = <<>>
    BY <1>3, <1>4
  <2>2. FlattenSeq(l) = <<>>
    BY <1>3, <1>4, <2>1, FlattenEmpty
  <2>3. SubSeq(t, 1, 2 * n) = <<>>
    BY <1>4
  <2> QED
    BY ONLY <2>2, <2>3
<1>5. CASE n # 0
  <2>1. PICK f : Folds(Octet, l, n, f)
    <3>1. n = Len(l) /\ n # 0
      BY <1>3, <1>5
    <3> QED
      BY ONLY <1>3, <3>1, FlattenIs
  <2>2. FlattenSeq(l) = f[n] /\ f[1] = l[1] /\ \A i \in 2 .. n : f[i] = f[i - 1] \o l[i]
    BY <2>1 DEF Folds
  <2> DEFINE S == {i \in 0 .. n : i = 0 \/ f[i] = SubSeq(t, 1, 2 * i)}
  <2>3. 0 \in S
    OBVIOUS
  <2>4. ASSUME NEW i \in 1 .. n, i - 1 \in S PROVE i \in S
    <3>1. CASE i = 1
      <4>1. f[1] = <<t[1], t[2]>> /\ 2 <= Len(t)
        BY <1>2, <2>2, <3>1
      <4>2. SubSeq(t, 1, 1 + 1) = <<t[1], t[1 + 1]>>
        BY <4>1, PairIs
      <4> QED
        BY <3>1, <4>1, <4>2
    <3>2. CASE i # 1
      <4>1. i \in 2 .. n /\ f[i - 1] = SubSeq(t, 1, 2 * (i - 1))
        BY <2>4, <3>2
      <4>2. f[i] = SubSeq(t, 1, 2 * (i - 1)) \o <<t[2 * i - 1], t[2 * i]>>
        BY <1>2, <2>2, <4>1
      <4>3. f[i] = SubSeq(t, 1, 2 * i)
        BY <1>1, <4>2, PairMore
      <4> QED
        BY <4>3
    <3> QED
      BY <3>1, <3>2
  <2> HIDE DEF S
  <2>5. \A i \in 0 .. n : i \in S
    BY ONLY n \in Nat, <2>3, <2>4, Induction
  <2>6. n \in S
    BY <2>5
  <2> QED
    BY <1>5, <2>2, <2>6 DEF S
<1> QED
  BY <1>4, <1>5

\* r is the beginning of t.
Starts(r, t) == \E m \in 0 .. Len(t) : r = SubSeq(t, 1, m)

\* What is known of the payload of a command.
PayloadTyped(code, p) ==
  /\ p.words \in [DOMAIN Words(code) -> Word]
  /\ ResultKnown(code, p.words)
  /\ Len(p.options) <= CommandSize

LEMMA WordsIs == \A code : Len(Words(code)) \in Nat /\ DOMAIN Words(code) = 1 .. Len(Words(code))
<1> TAKE code
<1>1. \/ Words(code) = <<>> \/ Words(code) = <<"psm", "source_cid">>
      \/ Words(code) = <<"destination_cid", "source_cid", "result", "status">>
      \/ Words(code) = <<"destination_cid", "flags">>
      \/ Words(code) = <<"source_cid", "flags", "result">>
      \/ Words(code) = <<"destination_cid", "source_cid">>
  BY DEF Words
<1>2. \A a, b, c, d : /\ Len(<<a, b, c, d>>) = 4 /\ DOMAIN <<a, b, c, d>> = 1 .. 4
                     /\ Len(<<a, b, c>>) = 3 /\ DOMAIN <<a, b, c>> = 1 .. 3
                     /\ Len(<<a, b>>) = 2 /\ DOMAIN <<a, b>> = 1 .. 2
  OBVIOUS
<1>3. Len(<<>>) = 0 /\ DOMAIN <<>> = 1 .. 0
  OBVIOUS
<1>4. PICK w : w = Words(code)
  OBVIOUS
<1>5. \/ Len(w) = 0 /\ DOMAIN w = 1 .. 0
      \/ Len(w) = 2 /\ DOMAIN w = 1 .. 2
      \/ Len(w) = 3 /\ DOMAIN w = 1 .. 3
      \/ Len(w) = 4 /\ DOMAIN w = 1 .. 4
  BY ONLY <1>1, <1>2, <1>3, <1>4, Zenon
<1>6. Len(w) \in Nat /\ DOMAIN w = 1 .. Len(w)
  BY ONLY <1>5
<1> QED
  BY ONLY <1>4, <1>6

LEMMA PayloadIsThere ==
  ASSUME NEW code, NEW t, t \in Seq(Octet), PayloadFromBytes(code, t) # Failed
  PROVE  /\ PayloadTyped(code, PayloadFromBytes(code, t))
         /\ Starts(PayloadToBytes(PayloadFromBytes(code, t)), t)
<1>n. PICK n : n = Len(Words(code))
  OBVIOUS
<1>w. PICK words : words = [i \in 1 .. n |-> WordAt(t, 2 * i - 1)]
  OBVIOUS
<1>o. PICK options : options = IF HasOptions(code) THEN SubSeq(t, 2 * n + 1, Len(t)) ELSE <<>>
  OBVIOUS
<1>p. PICK p : p = [words |-> words, options |-> options]
  OBVIOUS
<1>1. /\ ~ (Len(t) < 2 * n) /\ ResultKnown(code, words) /\ Bounded(options, CommandSize) # Failed
      /\ PayloadFromBytes(code, t) = p
  BY <1>n, <1>w, <1>o, <1>p DEF PayloadFromBytes
<1>2. n \in Nat /\ DOMAIN Words(code) = 1 .. n /\ Len(t) \in Nat /\ 2 * n <= Len(t)
  <2>1. n \in Nat /\ DOMAIN Words(code) = 1 .. n
    BY <1>n, WordsIs
  <2>2. Len(t) \in Nat
    BY t \in Seq(Octet)
  <2> QED
    BY <1>1, <2>1, <2>2
<1>3. p.words = words /\ p.options = options
  BY ONLY <1>p
<1>4. \A i \in 1 .. n : /\ WordAt(t, 2 * i - 1) \in Word
                        /\ LittleEndian(WordAt(t, 2 * i - 1)) = <<t[2 * i - 1], t[2 * i]>>
  <2> TAKE i \in 1 .. n
  <2>1. PICK k \in Nat \ {0} : k = 2 * i - 1
    BY <1>2
  <2>2. k + 1 = 2 * i /\ k + 1 <= Len(t)
    BY <1>2, <2>1
  <2>3. WordAt(t, k) \in Word /\ LittleEndian(WordAt(t, k)) = <<t[k], t[k + 1]>>
    BY ONLY t \in Seq(Octet), <2>1, <2>2, WordAtIs
  <2> QED
    BY ONLY <2>1, <2>2, <2>3
<1>5. DOMAIN words = 1 .. n /\ words \in [1 .. n -> Word]
  BY ONLY <1>w, <1>4
<1>6. Len(options) <= CommandSize
  BY <1>1, <1>2, <1>o, SignalingWireAssumption DEF Bounded, Word
<1>7. PayloadTyped(code, p)
  BY ONLY <1>1, <1>2, <1>3, <1>5, <1>6 DEF PayloadTyped
<1>8. FlattenSeq([i \in DOMAIN p.words |-> LittleEndian(p.words[i])]) = SubSeq(t, 1, 2 * n)
  <2>1. PICK l : l = [i \in 1 .. n |-> <<t[2 * i - 1], t[2 * i]>>]
    OBVIOUS
  <2>2. FlattenSeq(l) = SubSeq(t, 1, 2 * n)
    BY ONLY <1>2, <2>1, t \in Seq(Octet), PairsJoin
  <2>3. \A i \in 1 .. n : words[i] = WordAt(t, 2 * i - 1)
    BY ONLY <1>w
  <2>4. [i \in DOMAIN words |-> LittleEndian(words[i])] = l
    BY ONLY <1>4, <1>5, <2>1, <2>3
  <2> QED
    BY ONLY <1>3, <2>2, <2>4
<1>9. Starts(SubSeq(t, 1, 2 * n) \o options, t)
  <2>1. CASE HasOptions(code)
    <3>1. SubSeq(t, 1, 2 * n) \o SubSeq(t, 2 * n + 1, Len(t)) = SubSeq(t, 1, Len(t))
      <4>1. PICK k : k = 2 * n
        OBVIOUS
      <4>2. 1 \in 1 .. Len(t) + 1 /\ k \in 1 - 1 .. Len(t) /\ Len(t) \in k .. Len(t)
        BY <1>2, <4>1
      <4>3. SubSeq(t, 1, k) \o SubSeq(t, k + 1, Len(t)) = SubSeq(t, 1, Len(t))
        BY ONLY t \in Seq(Octet), <4>2, ConcatAdjacentSubSeq
      <4> QED
        BY ONLY <4>1, <4>3
    <3>2. options = SubSeq(t, 2 * n + 1, Len(t)) /\ Len(t) \in 0 .. Len(t)
      BY <1>2, <1>o, <2>1
    <3> QED
      BY ONLY <3>1, <3>2 DEF Starts
  <2>2. CASE ~HasOptions(code)
    <3>1. options = <<>> /\ 2 * n \in 0 .. Len(t)
      BY <1>2, <1>o, <2>2
    <3>2. SubSeq(t, 1, 2 * n) \in Seq(Octet)
      BY <1>2
    <3>3. SubSeq(t, 1, 2 * n) \o <<>> = SubSeq(t, 1, 2 * n)
      BY ONLY <3>2, ConcatEmptySeq
    <3> QED
      BY ONLY <3>1, <3>3 DEF Starts
  <2> QED
    BY <2>1, <2>2
<1>10. PayloadToBytes(p) = SubSeq(t, 1, 2 * n) \o options
  BY ONLY <1>3, <1>8 DEF PayloadToBytes
<1> QED
  BY ONLY <1>1, <1>7, <1>9, <1>10

LEMMA CodesDiffer ==
  /\ DOMAIN SignalingCode = 1 .. 11
  /\ \A i, j \in 1 .. 11 : SignalingCode[i] = SignalingCode[j] => i = j
<1>1. DOMAIN SignalingCode = 1 .. 11
  BY DEF SignalingCode
<1>2. /\ SignalingCode[1] = "CommandReject" /\ SignalingCode[2] = "ConnectionRequest"
      /\ SignalingCode[3] = "ConnectionResponse" /\ SignalingCode[4] = "ConfigurationRequest"
      /\ SignalingCode[5] = "ConfigurationResponse" /\ SignalingCode[6] = "DisconnectionRequest"
      /\ SignalingCode[7] = "DisconnectionResponse" /\ SignalingCode[8] = "EchoRequest"
      /\ SignalingCode[9] = "EchoResponse" /\ SignalingCode[10] = "InformationRequest"
      /\ SignalingCode[11] = "InformationResponse"
  BY DEF SignalingCode
<1>3. \A i \in 1 .. 11 : i = 1 \/ i = 2 \/ i = 3 \/ i = 4 \/ i = 5 \/ i = 6 \/ i = 7
                        \/ i = 8 \/ i = 9 \/ i = 10 \/ i = 11
  OBVIOUS
<1> QED
  BY ONLY <1>1, <1>2, <1>3

LEMMA CommandIsThere ==
  ASSUME NEW s, s \in Seq(Octet), CommandFromBytes(s) # Failed
  PROVE  CommandTyped(CommandFromBytes(s)) /\ There(CommandToBytes(CommandFromBytes(s)), s)
<1>1. Len(s) \in Nat /\ 4 <= Len(s) /\ s[1] \in DOMAIN SignalingCode
  <2>1. Len(s) \in Nat
    BY s \in Seq(Octet)
  <2> QED
    BY <2>1 DEF CommandFromBytes
<1>c. PICK code : code = SignalingCode[s[1]]
  OBVIOUS
<1>n. PICK size : size = WordAt(s, 3)
  OBVIOUS
<1>2. /\ size \in Word /\ size \in Nat /\ LittleEndian(size) = <<s[3], s[4]>>
  <2>1. WordAt(s, 3) \in Word /\ LittleEndian(WordAt(s, 3)) = <<s[3], s[3 + 1]>>
    BY <1>1, WordAtIs
  <2> QED
    BY <1>n, <2>1 DEF Word
<1>t. PICK t : t = SubSeq(s, 5, 4 + size)
  OBVIOUS
<1>p. PICK p : p = PayloadFromBytes(code, t)
  OBVIOUS
<1>k. PICK c : c = [code |-> code, identifier |-> s[2], length |-> size, payload |-> p]
  OBVIOUS
<1>3. 4 + size <= Len(s) /\ p # Failed /\ CommandFromBytes(s) = c
  <2>1. ~ (Len(s) < 4 + size \/ p = Failed) /\ CommandFromBytes(s) = c
    BY <1>1, <1>c, <1>n, <1>t, <1>p, <1>k DEF CommandFromBytes
  <2> QED
    BY ONLY <1>1, <1>2, <2>1
<1>4. t \in Seq(Octet) /\ Len(t) = size
  BY <1>1, <1>2, <1>3, <1>t
<1>5. PayloadTyped(code, p) /\ Starts(PayloadToBytes(p), t)
  BY ONLY <1>3, <1>4, <1>p, PayloadIsThere
<1>6. c.code = code /\ c.identifier = s[2] /\ c.length = size /\ c.payload = p
  BY ONLY <1>k
<1>7. CommandTyped(c)
  <2>1. code \in Range(SignalingCode)
    BY ONLY <1>1, <1>c DEF Range
  <2> QED
    BY ONLY <1>5, <1>6, <2>1 DEF CommandTyped, PayloadTyped, ResultKnown
<1>8. (CHOOSE i \in DOMAIN SignalingCode : SignalingCode[i] = code) = s[1]
  <2>1. \A i \in DOMAIN SignalingCode : SignalingCode[i] = code => i = s[1]
    BY ONLY <1>1, <1>c, CodesDiffer
  <2> QED
    BY ONLY <1>1, <1>c, <2>1
<1>9. PICK m \in 0 .. size : PayloadToBytes(p) = SubSeq(t, 1, m)
  BY ONLY <1>4, <1>5 DEF Starts
<1>10. m \in Nat /\ 4 + m <= Len(s) /\ SubSeq(t, 1, m) = SubSeq(s, 5, 4 + m)
  <2>1. m \in Nat /\ m <= size
    BY ONLY <1>2, <1>9
  <2>2. CASE m = 0
    <3>1. SubSeq(t, 1, m) = <<>>
      BY ONLY <2>2, SubSeqEmpty
    <3>2. SubSeq(s, 5, 4 + m) = <<>>
      <4>1. 5 \in Int /\ 4 + m \in Int /\ 4 + m < 5
        BY ONLY <2>2
      <4> QED
        BY ONLY <4>1, SubSeqEmpty
    <3> QED
      BY ONLY <1>1, <1>2, <1>3, <2>1, <3>1, <3>2
  <2>3. CASE m # 0
    <3>1. /\ 5 \in 1 .. Len(s) /\ 4 + size \in 1 .. Len(s)
          /\ 1 \in 1 .. (4 + size) - 5 + 1 /\ m \in 1 .. (4 + size) - 5 + 1
      BY ONLY <1>1, <1>2, <1>3, <2>1, <2>3
    <3>2. SubSeq(SubSeq(s, 5, 4 + size), 1, m) = SubSeq(s, 5 + 1 - 1, 5 + m - 1)
      BY ONLY <3>1, s \in Seq(Octet), SubSeqOfSubSeq
    <3>3. 5 + 1 - 1 = 5 /\ 5 + m - 1 = 4 + m /\ 4 + m <= Len(s)
      BY ONLY <1>1, <1>2, <1>3, <2>1
    <3> QED
      BY ONLY <1>t, <2>1, <3>2, <3>3
  <2> QED
    BY ONLY <2>2, <2>3
<1>11. IsPrefix(<<s[1], s[2]>> \o <<s[3], s[4]>> \o SubSeq(s, 5, 4 + m), s)
  BY ONLY <1>10, s \in Seq(Octet), FourAndMore
<1>12. CommandToBytes(c) = Bounded(<<s[1], s[2]>> \o <<s[3], s[4]>> \o SubSeq(s, 5, 4 + m), CommandSize)
  BY ONLY <1>2, <1>6, <1>8, <1>9, <1>10 DEF CommandToBytes
<1>13. There(CommandToBytes(c), s)
  BY ONLY <1>11, <1>12 DEF There, Bounded
<1> QED
  BY ONLY <1>3, <1>7, <1>13

-----------------------------------------------------------------------------
(* Messages.                                                               *)

\* f has the values of the beginnings of q.
Valued(q, f) ==
  /\ f \in [0 .. Len(q) -> Nat]
  /\ f[0] = 0 /\ \A n \in 1 .. Len(q) : f[n] = 256 * f[n - 1] + q[n]
  /\ Value(q) = f[Len(q)]

LEMMA ValueIs ==
  ASSUME NEW q, q \in Seq(Octet)
  PROVE  \E f : Valued(q, f)
<1>n. PICK N : N = Len(q)
  OBVIOUS
<1>1. N \in Nat /\ \A n \in 1 .. N : q[n] \in Nat
  BY <1>n DEF Octet
<1> DEFINE value == CHOOSE h : h = [n \in 0 .. N |-> IF n = 0 THEN 0 ELSE 256 * h[n - 1] + q[n]]
<1>2. Value(q) = value[N]
  BY <1>n DEF Value
<1> HIDE DEF value
<1>3. PICK F : /\ F \in [1 .. N -> [Nat -> Nat]]
               /\ \A n \in 1 .. N : \A x \in Nat : F[n][x] = 256 * x + q[n]
  <2> DEFINE F == [n \in 1 .. N |-> [x \in Nat |-> 256 * x + q[n]]]
  <2>1. \A n \in 1 .. N : \A x \in Nat : 256 * x + q[n] \in Nat
    BY ONLY <1>1
  <2>2. F \in [1 .. N -> [Nat -> Nat]]
    BY ONLY <2>1
  <2>3. \A n \in 1 .. N : \A x \in Nat : F[n][x] = 256 * x + q[n]
    OBVIOUS
  <2> HIDE DEF F
  <2> QED
    BY ONLY <2>2, <2>3
<1>4. PICK g : g \in [0 .. N -> Nat] /\ g[0] = 0 /\ \A n \in 1 .. N : g[n] = F[n][g[n - 1]]
  <2>1. PICK V : V = Nat
    OBVIOUS
  <2>2. PICK v : v \in V /\ v = 0
    BY <2>1
  <2>3. v \in V /\ F \in [1 .. N -> [V -> V]] /\ N \in Nat
    BY ONLY <1>1, <1>3, <2>1, <2>2
  <2>4. PICK g : g \in [0 .. N -> V] /\ g[0] = v /\ \A n \in 1 .. N : g[n] = F[n][g[n - 1]]
    BY ONLY <2>3, Recursion
  <2> QED
    BY ONLY <2>1, <2>2, <2>4
<1>5. \A n \in 1 .. N : n - 1 \in 0 .. N /\ n \in 0 .. N /\ n # 0
  BY ONLY <1>1
<1>6. \A n \in 1 .. N : g[n] = 256 * g[n - 1] + q[n]
  BY ONLY <1>3, <1>4, <1>5
<1>7. g = [n \in 0 .. N |-> IF n = 0 THEN 0 ELSE 256 * g[n - 1] + q[n]]
  <2>1. \A n \in 0 .. N : n = 0 \/ n \in 1 .. N
    BY ONLY <1>1
  <2>2. \A n \in 0 .. N : g[n] = IF n = 0 THEN 0 ELSE 256 * g[n - 1] + q[n]
    BY ONLY <1>4, <1>6, <2>1
  <2> QED
    BY ONLY <1>4, <2>2
<1>8. value = [n \in 0 .. N |-> IF n = 0 THEN 0 ELSE 256 * value[n - 1] + q[n]]
  BY ONLY <1>7 DEF value
<1>9. \A n \in 0 .. N : value[n] = IF n = 0 THEN 0 ELSE 256 * value[n - 1] + q[n]
  BY ONLY <1>8
<1>10. \A n \in 0 .. N : value[n] \in Nat
  <2> DEFINE S == {n \in 0 .. N : value[n] \in Nat}
  <2>1. 0 \in S
    BY ONLY <1>1, <1>9 DEF S
  <2>2. ASSUME NEW n \in 1 .. N, n - 1 \in S PROVE n \in S
    <3>1. value[n] = 256 * value[n - 1] + q[n] /\ value[n - 1] \in Nat /\ q[n] \in Nat
      BY ONLY <1>1, <1>5, <1>9, <2>2, n \in 1 .. N DEF S
    <3> QED
      BY ONLY <1>5, <3>1, n \in 1 .. N DEF S
  <2> HIDE DEF S
  <2>3. \A n \in 0 .. N : n \in S
    BY ONLY <1>1, <2>1, <2>2, Induction
  <2> QED
    BY ONLY <2>3 DEF S
<1>11. value \in [0 .. N -> Nat]
  BY ONLY <1>8, <1>10
<1>12. value[0] = 0 /\ \A n \in 1 .. N : value[n] = 256 * value[n - 1] + q[n]
  <2>1. 0 \in 0 .. N
    BY ONLY <1>1
  <2> QED
    BY ONLY <1>5, <1>9, <2>1
<1>13. Valued(q, value)
  BY ONLY <1>n, <1>2, <1>11, <1>12 DEF Valued
<1> QED
  BY ONLY <1>13

LEMMA ValueTyped ==
  ASSUME NEW q, q \in Seq(Octet)
  PROVE  Value(q) \in Nat
<1>1. PICK f : Valued(q, f)
  BY ONLY q \in Seq(Octet), ValueIs
<1>2. Len(q) \in 0 .. Len(q)
  BY ONLY q \in Seq(Octet)
<1> QED
  BY ONLY <1>1, <1>2 DEF Valued

LEMMA ValueOfTwo ==
  ASSUME NEW s, s \in Seq(Octet), NEW k, k \in Nat \ {0}, k + 1 <= Len(s)
  PROVE  /\ Value(SubSeq(s, k, k + 1)) \in Word
         /\ BigEndian(Value(SubSeq(s, k, k + 1))) = <<s[k], s[k + 1]>>
<1>q. PICK q : q = SubSeq(s, k, k + 1)
  OBVIOUS
<1>1. q = <<s[k], s[k + 1]>> /\ s[k] \in Octet /\ s[k + 1] \in Octet
  <2>1. q = <<s[k], s[k + 1]>>
    BY <1>q, PairIs
  <2> QED
    BY <2>1
<1>2. q \in Seq(Octet) /\ Len(q) = 2 /\ q[1] = s[k] /\ q[2] = s[k + 1]
  BY ONLY <1>1
<1>3. PICK f : Valued(q, f)
  BY ONLY <1>2, ValueIs
<1>4. f[0] = 0 /\ (\A n \in 1 .. 2 : f[n] = 256 * f[n - 1] + q[n]) /\ Value(q) = f[2]
  BY ONLY <1>2, <1>3 DEF Valued
<1>5. f[1] = 256 * f[0] + q[1] /\ f[2] = 256 * f[1] + q[2]
  <2>1. 1 \in 1 .. 2 /\ 2 \in 1 .. 2 /\ 1 - 1 = 0 /\ 2 - 1 = 1
    OBVIOUS
  <2> QED
    BY ONLY <1>4, <2>1
<1>6. PICK a \in Octet : a = s[k]
  BY <1>1
<1>7. PICK b \in Octet : b = s[k + 1]
  BY <1>1
<1>8. a \in Nat /\ b \in Nat
  BY ONLY <1>6, <1>7 DEF Octet
<1>9. Value(q) = b + 256 * a
  <2>1. f[1] = a
    BY ONLY <1>2, <1>4, <1>5, <1>6, <1>8
  <2> QED
    BY ONLY <1>2, <1>4, <1>5, <1>7, <1>8, <2>1
<1>10. b + 256 * a \in Word /\ LittleEndian(b + 256 * a) = <<b, a>>
  BY ONLY <1>6, <1>7, OctetsOfWord
<1>11. BigEndian(b + 256 * a) = <<a, b>>
  <2>1. PICK w : w = b + 256 * a
    OBVIOUS
  <2>2. PICK x : x = w % 256
    OBVIOUS
  <2>3. PICK y : y = w \div 256
    OBVIOUS
  <2>4. <<x, y>> = <<b, a>>
    BY ONLY <1>10, <2>1, <2>2, <2>3 DEF LittleEndian
  <2>5. x = b /\ y = a
    BY ONLY <2>4
  <2> QED
    BY ONLY <2>1, <2>2, <2>3, <2>5 DEF BigEndian
<1> QED
  BY ONLY <1>q, <1>6, <1>7, <1>9, <1>10, <1>11

LEMMA EncodedIs ==
  ASSUME NEW m, NEW o,
         o = HeaderEncode(m.header) \o (IF m.header.pdu_id = ErrorPdu THEN BigEndian(m.error_code) ELSE <<>>),
         NEW n \in {5, 7}, Len(o) = n
  PROVE  MessageEncode(m, 7) = o
<1>1. ~ (n > 7)
  BY ONLY n \in {5, 7}
<1> QED
  BY <1>1 DEF MessageEncode

LEMMA MessageIsThere ==
  ASSUME NEW s, s \in Seq(Octet), ParseMessage(s) # Failed
  PROVE  MessageTyped(ParseMessage(s)) /\ There(MessageEncode(ParseMessage(s), 7), s)
<1>l. Len(s) \in Nat
  BY s \in Seq(Octet)
<1>i. PICK id : id = Value(SubSeq(s, 2, 3))
  OBVIOUS
<1>n. PICK size : size = Value(SubSeq(s, 4, 5))
  OBVIOUS
<1>e. PICK code : code = Value(SubSeq(s, 6, 7))
  OBVIOUS
<1>h. PICK h : h = [pdu_id |-> s[1], transaction_id |-> id, parameter_length |-> size]
  OBVIOUS
<1>1. HeaderDecode(s) # Failed
  BY DEF ParseMessage
<1>2. 5 <= Len(s) /\ s[1] \in SdpPduId /\ HeaderDecode(s) = h
  BY ONLY <1>l, <1>i, <1>n, <1>h, <1>1 DEF HeaderDecode
<1>3. h.pdu_id = s[1] /\ h.transaction_id = id /\ h.parameter_length = size
  BY ONLY <1>h
<1>4. BigEndian(id) = <<s[2], s[3]>> /\ size \in Nat /\ BigEndian(size) = <<s[4], s[5]>>
  <2>1. BigEndian(Value(SubSeq(s, 2, 3))) = <<s[2], s[3]>>
    <3>1. PICK k : k = 2
      OBVIOUS
    <3>2. k \in Nat \ {0} /\ k + 1 = 3 /\ k + 1 <= Len(s)
      BY ONLY <1>l, <1>2, <3>1
    <3> QED
      BY ONLY <3>1, <3>2, s \in Seq(Octet), ValueOfTwo
  <2>2. Value(SubSeq(s, 4, 5)) \in Word /\ BigEndian(Value(SubSeq(s, 4, 5))) = <<s[4], s[5]>>
    <3>1. PICK k : k = 4
      OBVIOUS
    <3>2. k \in Nat \ {0} /\ k + 1 = 5 /\ k + 1 <= Len(s)
      BY ONLY <1>l, <1>2, <3>1
    <3> QED
      BY ONLY <3>1, <3>2, s \in Seq(Octet), ValueOfTwo
  <2> QED
    BY ONLY <1>i, <1>n, <2>1, <2>2 DEF Word
<1>5. /\ ParseMessage(s) # Failed /\ HeaderDecode(s) # Failed
      /\ ~ (Len(s) < 5 + h.parameter_length)
      /\ \/ s[1] \in Readable /\ ParseMessage(s) = [header |-> h, error_code |-> 0]
         \/ /\ s[1] \notin Readable /\ s[1] = ErrorPdu
            /\ ~ (size < 2) /\ ParseMessage(s) = [header |-> h, error_code |-> code]
  <2>1. ~ (Len(s) < 5 + h.parameter_length)
    BY ONLY ParseMessage(s) # Failed, <1>1, <1>2 DEF ParseMessage
  <2>3. CASE s[1] \in Readable
    <3>1. ParseMessage(s) = [header |-> h, error_code |-> 0]
      BY ONLY <1>1, <1>2, <1>3, <2>1, <2>3 DEF ParseMessage, Readable, ErrorPdu
    <3> QED
      BY <1>1, <2>1, <2>3, <3>1
  <2>4. CASE s[1] \notin Readable
    <3>1. s[1] = ErrorPdu /\ ~ (size < 2) /\ ParseMessage(s) = [header |-> h, error_code |-> code]
      BY ONLY ParseMessage(s) # Failed, <1>1, <1>2, <1>3, <1>e, <2>1, <2>4 DEF ParseMessage
    <3> QED
      BY <1>1, <2>1, <2>4, <3>1
  <2> QED
    BY ONLY <2>3, <2>4
<1>6. 5 + size <= Len(s)
  BY ONLY <1>l, <1>3, <1>4, <1>5
<1>7. HeaderEncode(h) = SubSeq(s, 1, 5)
  <2>1. HeaderEncode(h) = <<s[1]>> \o <<s[2], s[3]>> \o <<s[4], s[5]>>
    BY ONLY <1>3, <1>4 DEF HeaderEncode
  <2>2. <<s[1]>> = SubSeq(s, 1, 1)
    BY <1>l, <1>2
  <2>3. <<s[2], s[3]>> = SubSeq(s, 2, 3) /\ <<s[4], s[5]>> = SubSeq(s, 4, 5)
    <3>1. PICK k, l : k = 2 /\ l = 4
      OBVIOUS
    <3>2. /\ k \in Nat \ {0} /\ k + 1 = 3 /\ k + 1 <= Len(s)
          /\ l \in Nat \ {0} /\ l + 1 = 5 /\ l + 1 <= Len(s)
      BY ONLY <1>l, <1>2, <3>1
    <3> QED
      BY ONLY <3>1, <3>2, s \in Seq(Octet), PairIs
  <2>4. SubSeq(s, 1, 1) \o SubSeq(s, 2, 3) = SubSeq(s, 1, 3)
    <3>1. 1 \in 1 .. Len(s) + 1 /\ 1 \in 1 - 1 .. Len(s) /\ 3 \in 1 .. Len(s) /\ 1 + 1 = 2
      BY ONLY <1>l, <1>2
    <3> QED
      BY ONLY <3>1, s \in Seq(Octet), ConcatAdjacentSubSeq
  <2>5. SubSeq(s, 1, 3) \o SubSeq(s, 4, 5) = SubSeq(s, 1, 5)
    <3>1. 1 \in 1 .. Len(s) + 1 /\ 3 \in 1 - 1 .. Len(s) /\ 5 \in 3 .. Len(s) /\ 3 + 1 = 4
      BY ONLY <1>l, <1>2
    <3> QED
      BY ONLY <3>1, s \in Seq(Octet), ConcatAdjacentSubSeq
  <2> QED
    BY ONLY <2>1, <2>2, <2>3, <2>4, <2>5
<1>8. \A n \in 0 .. Len(s) : IsPrefix(SubSeq(s, 1, n), s)
  <2> TAKE n \in 0 .. Len(s)
  <2>1. /\ SubSeq(s, 1, n) \in Seq(Octet) /\ Len(SubSeq(s, 1, n)) = n
        /\ \A i \in 1 .. n : SubSeq(s, 1, n)[i] = s[i]
    BY <1>l
  <2>2. Len(SubSeq(s, 1, n)) <= Len(s)
    BY ONLY <1>l, <2>1, n \in 0 .. Len(s)
  <2> QED
    BY ONLY <2>1, <2>2, s \in Seq(Octet), PrefixByIndex
<1>9. CASE s[1] \in Readable
  <2>1. PICK m : m = [header |-> h, error_code |-> 0]
    OBVIOUS
  <2>2. ParseMessage(s) = m /\ m.header = h /\ s[1] # ErrorPdu
    BY ONLY <1>5, <1>9, <2>1 DEF Readable, ErrorPdu
  <2>3. MessageTyped(m)
    BY ONLY <1>3, <1>9, <2>2 DEF MessageTyped
  <2>4. SubSeq(s, 1, 5) \o <<>> = SubSeq(s, 1, 5) /\ Len(SubSeq(s, 1, 5)) = 5
    BY <1>l, <1>2
  <2>5. MessageEncode(m, 7) = SubSeq(s, 1, 5)
    <3>1. SubSeq(s, 1, 5)
            = HeaderEncode(m.header) \o (IF m.header.pdu_id = ErrorPdu THEN BigEndian(m.error_code) ELSE <<>>)
      BY ONLY <1>3, <1>7, <2>2, <2>4
    <3> QED
      BY ONLY <2>4, <3>1, EncodedIs
  <2>6. IsPrefix(SubSeq(s, 1, 5), s)
    BY ONLY <1>l, <1>2, <1>8
  <2> QED
    BY ONLY <2>2, <2>3, <2>5, <2>6 DEF There
<1>10. CASE s[1] \notin Readable
  <2>1. PICK m : m = [header |-> h, error_code |-> code]
    OBVIOUS
  <2>2. ParseMessage(s) = m /\ m.header = h /\ m.error_code = code /\ s[1] = ErrorPdu /\ ~ (size < 2)
    BY ONLY <1>5, <1>10, <2>1
  <2>3. MessageTyped(m)
    BY ONLY <1>3, <2>2 DEF MessageTyped
  <2>4. 7 <= Len(s)
    BY ONLY <1>l, <1>4, <1>6, <2>2
  <2>5. BigEndian(code) = <<s[6], s[7]>> /\ SubSeq(s, 6, 7) = <<s[6], s[7]>>
    <3>1. PICK k : k = 6
      OBVIOUS
    <3>2. k \in Nat \ {0} /\ k + 1 = 7 /\ k + 1 <= Len(s)
      BY ONLY <1>l, <2>4, <3>1
    <3>3. BigEndian(Value(SubSeq(s, k, k + 1))) = <<s[k], s[k + 1]>>
      BY ONLY <3>2, s \in Seq(Octet), ValueOfTwo
    <3>4. SubSeq(s, k, k + 1) = <<s[k], s[k + 1]>>
      BY ONLY <3>2, s \in Seq(Octet), PairIs
    <3> QED
      BY ONLY <1>e, <3>1, <3>2, <3>3, <3>4
  <2>6. SubSeq(s, 1, 5) \o SubSeq(s, 5 + 1, 7) = SubSeq(s, 1, 7) /\ Len(SubSeq(s, 1, 7)) = 7
    <3>1. 1 \in 1 .. Len(s) + 1 /\ 5 \in 1 - 1 .. Len(s) /\ 7 \in 5 .. Len(s)
      BY ONLY <1>l, <2>4
    <3>2. Len(SubSeq(s, 1, 7)) = 7
      BY <1>l, <2>4
    <3> QED
      BY ONLY <3>1, <3>2, s \in Seq(Octet), ConcatAdjacentSubSeq
  <2>7. MessageEncode(m, 7) = SubSeq(s, 1, 7)
    <3>1. 5 + 1 = 6
      OBVIOUS
    <3>2. HeaderEncode(m.header) \o (IF m.header.pdu_id = ErrorPdu THEN BigEndian(m.error_code) ELSE <<>>)
            = SubSeq(s, 1, 7)
      BY ONLY <1>3, <1>7, <2>2, <2>5, <2>6, <3>1
    <3> QED
      BY ONLY <2>6, <3>2, EncodedIs
  <2>8. IsPrefix(SubSeq(s, 1, 7), s)
    BY ONLY <1>l, <2>4, <1>8
  <2> QED
    BY ONLY <2>2, <2>3, <2>7, <2>8 DEF There
<1> QED
  BY <1>9, <1>10

-----------------------------------------------------------------------------
(* Classes.                                                                *)

LEMMA MajorIsKept ==
  ASSUME NEW v
  PROVE  MajorValue(MajorDeviceClass(v)) = v
<1>1. DOMAIN Major = (0 .. 9) \cup {31}
  BY DEF Major
<1>2. CASE v \in DOMAIN Major
  <2>1. \A x \in DOMAIN Major : x = 0 \/ x = 1 \/ x = 2 \/ x = 3 \/ x = 4 \/ x = 5 \/ x = 6
                              \/ x = 7 \/ x = 8 \/ x = 9 \/ x = 31
    BY ONLY <1>1
  <2>2. /\ Major[0] = "Miscellaneous" /\ Major[1] = "Computer" /\ Major[2] = "Phone"
        /\ Major[3] = "LanNetworkAccessPoint" /\ Major[4] = "AudioVideo"
        /\ Major[5] = "Peripheral" /\ Major[6] = "Imaging" /\ Major[7] = "Wearable"
        /\ Major[8] = "Toy" /\ Major[9] = "Health" /\ Major[31] = "Uncategorized"
    BY DEF Major
  <2>3. \A x, y \in DOMAIN Major : Major[x] = Major[y] => x = y
    BY ONLY <2>1, <2>2
  <2>4. Major[v] # "Reserved"
    BY ONLY <1>2, <2>1, <2>2
  <2>5. PICK m : m = [name |-> Major[v], reserved |-> 0]
    OBVIOUS
  <2>6. MajorDeviceClass(v) = m /\ m.name = Major[v]
    BY ONLY <1>2, <2>5 DEF MajorDeviceClass
  <2>7. (CHOOSE x \in DOMAIN Major : Major[x] = m.name) = v
    BY ONLY <1>2, <2>3, <2>6
  <2> QED
    BY ONLY <2>4, <2>6, <2>7 DEF MajorValue
<1>3. CASE v \notin DOMAIN Major
  <2>1. PICK m : m = [name |-> "Reserved", reserved |-> v]
    OBVIOUS
  <2>2. MajorDeviceClass(v) = m /\ m.name = "Reserved" /\ m.reserved = v
    BY ONLY <1>3, <2>1 DEF MajorDeviceClass
  <2> QED
    BY ONLY <2>2 DEF MajorValue
<1> QED
  BY <1>2, <1>3

LEMMA ClassIsThere ==
  ASSUME NEW s, s \in [1 .. 3 -> Octet], ParseClassOfDevice(s) # None
  PROVE  ClassTyped(ParseClassOfDevice(s)) /\ s = ClassOctets(ParseClassOfDevice(s))
<1>1. PICK x, y, z : x = s[1] /\ y = s[2] /\ z = s[3]
  OBVIOUS
<1>2. x \in Nat /\ x < 256 /\ y \in Nat /\ y < 256 /\ z \in Nat /\ z < 256
  <2>1. s[1] \in Octet /\ s[2] \in Octet /\ s[3] \in Octet
    BY s \in [1 .. 3 -> Octet]
  <2> QED
    BY ONLY <1>1, <2>1 DEF Octet
<1>3. PICK raw : raw = x + 256 * y + 65536 * z
  OBVIOUS
<1>4. raw \in Nat /\ raw < 16777216
  BY ONLY <1>2, <1>3
<1>5. PICK f, m, v, n : /\ f = raw % 4 /\ m = (raw \div 4) % 64
                        /\ v = (raw \div 256) % 32 /\ n = (raw \div 8192) % 2048
  OBVIOUS
<1>6. /\ f \in Nat /\ m \in Nat /\ m < 64 /\ v \in Nat /\ n \in Nat /\ n < 2048
      /\ raw = f + 4 * m + 256 * v + 8192 * n
  BY ONLY <1>4, <1>5, Bits
<1>7. PICK d : d = MajorDeviceClass(v)
  OBVIOUS
<1>8. PICK c : c = [format_type |-> f, minor |-> m, major |-> d, services |-> n]
  OBVIOUS
<1>9. ParseClassOfDevice(s) = c
  <2>1. ParseClassOfDevice(s) = Fields(raw)
    BY <1>1, <1>3 DEF ParseClassOfDevice
  <2> QED
    BY ONLY <1>5, <1>7, <1>8, <2>1 DEF Fields
<1>10. c.format_type = f /\ c.minor = m /\ c.major = d /\ c.services = n
  BY ONLY <1>8
<1>11. c.format_type + 4 * c.minor + 256 * MajorValue(c.major) + 8192 * c.services = raw
  <2>1. MajorValue(d) = v
    BY ONLY <1>7, MajorIsKept
  <2> QED
    BY ONLY <1>6, <1>10, <2>1
<1>12. raw % 256 = x /\ raw \div 256 = y + 256 * z
  <2>1. PICK b : b = y + 256 * z
    OBVIOUS
  <2>2. b \in Int /\ raw = 256 * b + x /\ x \in Int /\ 0 <= x /\ x < 256
    BY ONLY <1>2, <1>3, <2>1
  <2> QED
    BY ONLY <1>4, <2>1, <2>2, Divided
<1>13. (y + 256 * z) % 256 = y
  BY ONLY <1>2, LowOf
<1>14. raw \div 65536 = z
  <2>1. PICK b : b = x + 256 * y
    OBVIOUS
  <2>2. b \in Int /\ 0 <= b /\ b < 65536 /\ raw = 65536 * z + b
    BY ONLY <1>2, <1>3, <2>1
  <2> QED
    BY ONLY <1>2, <1>4, <2>2, Divided
<1>15. ClassOctets(c) = <<x, y, z>>
  BY ONLY <1>11, <1>12, <1>13, <1>14 DEF ClassOctets
<1>16. s = <<x, y, z>>
  <2>1. PICK t : t = <<x, y, z>>
    OBVIOUS
  <2>2. t \in Seq(Octet) /\ Len(t) = 3 /\ t[1] = x /\ t[2] = y /\ t[3] = z
    <3>1. x \in Octet /\ y \in Octet /\ z \in Octet
      BY ONLY <1>2 DEF Octet
    <3> QED
      BY ONLY <2>1, <3>1
  <2>3. s \in Seq(Octet) /\ Len(s) = 3
    BY s \in [1 .. 3 -> Octet]
  <2>4. \A i \in 1 .. 3 : s[i] = t[i]
    BY ONLY <1>1, <2>2
  <2>5. s = t
    BY ONLY <2>2, <2>3, <2>4, SeqEqual
  <2> QED
    BY ONLY <2>1, <2>5
<1>17. ClassTyped(c)
  BY ONLY <1>6, <1>10 DEF ClassTyped
<1> QED
  BY ONLY <1>9, <1>15, <1>16, <1>17

-----------------------------------------------------------------------------
(* Addresses.                                                              *)

\* Six pairs of digits with colons between them, and their parts.
SixPairs(text) ==
  /\ Len(Parts(text)) = 6
  /\ \A i \in 1 .. 6 : /\ text[3 * i - 2] \in Octet \ {Colon} /\ text[3 * i - 1] \in Octet \ {Colon}
                       /\ Parts(text)[i][1] = text[3 * i - 2] /\ Parts(text)[i][2] = text[3 * i - 1]
  /\ \A i \in 1 .. 5 : text[3 * i] = Colon

LEMMA WellFormedIs ==
  ASSUME NEW text, text \in Seq(Octet), WellFormed(text)
  PROVE  SixPairs(text)
<1>e. PICK ends : ends = {0, Len(text) + 1} \cup {i \in DOMAIN text : text[i] = Colon}
  OBVIOUS
<1>n. PICK N : N = Cardinality(ends)
  OBVIOUS
<1>l. PICK e : \A k \in 1 .. N : e[k] = Nth(ends, k)
  <2>1. \A k \in 1 .. N : [k1 \in 1 .. N |-> Nth(ends, k1)][k] = Nth(ends, k)
    OBVIOUS
  <2> QED
    BY ONLY <2>1
<1>p. PICK parts : parts = Parts(text)
  OBVIOUS
<1>1. /\ Len(text) = 17 /\ DOMAIN text = 1 .. 17 /\ Len(parts) <= 6
      /\ \A i \in 1 .. 17 : text[i] \in 0 .. Colon
      /\ \A part \in Range(parts) : Len(part) = 2
  <2>1. Len(text) = 17 /\ DOMAIN text = 1 .. 17
    BY DEF WellFormed
  <2> QED
    BY ONLY <1>p, <2>1, WellFormed(text) DEF WellFormed
<1>2. /\ ends \in SUBSET (0 .. 18) /\ 0 \in ends /\ 18 \in ends
      /\ \A i \in 1 .. 17 : i \in ends <=> text[i] = Colon
  BY ONLY <1>e, <1>1
<1>3. /\ IsFiniteSet(ends) /\ N \in Nat
      /\ \A k \in 1 .. N : e[k] \in ends /\ Cardinality({j \in ends : j <= e[k]}) = k
  <2>1. PICK m \in Nat : m = 18
    OBVIOUS
  <2>2. ends \in SUBSET (0 .. m)
    BY <1>2, <2>1
  <2>3. /\ IsFiniteSet(ends) /\ Cardinality(ends) \in Nat
        /\ \A k \in 1 .. Cardinality(ends) :
             Nth(ends, k) \in ends /\ Cardinality({j \in ends : j <= Nth(ends, k)}) = k
    BY ONLY m \in Nat, <2>2, NthIs
  <2> QED
    BY ONLY <1>n, <1>l, <2>3
<1>4. N # 0
  <2>1. Cardinality(ends) = 0 <=> ends = {}
    BY ONLY <1>3, FS_EmptySet
  <2> QED
    BY ONLY <1>n, <1>2, <2>1
<1>m. PICK m \in Nat : m = 18
  OBVIOUS
<1>o. ends \in SUBSET (0 .. m) /\ N = Cardinality(ends)
  BY <1>2, <1>n, <1>m
<1>a. \A j \in ends : e[1] <= j
  <2>1. PICK k \in 1 .. Cardinality(ends) : k = 1
    BY <1>3, <1>4, <1>n
  <2>2. \A j \in ends : Nth(ends, k) <= j
    BY ONLY m \in Nat, <1>o, <2>1, NthOrder
  <2> QED
    BY ONLY <1>l, <1>n, <2>1, <2>2
<1>b. \A j \in ends : j <= e[N]
  <2>1. PICK k \in 1 .. Cardinality(ends) : k = Cardinality(ends)
    BY <1>3, <1>4, <1>n
  <2>2. \A j \in ends : j <= Nth(ends, k)
    BY ONLY m \in Nat, <1>o, <2>1, NthOrder
  <2> QED
    BY ONLY <1>l, <1>n, <2>1, <2>2
<1>5. \A k \in 1 .. N - 1 : \A j \in ends : j <= e[k] \/ e[k + 1] <= j
  <2> TAKE k \in 1 .. N - 1
  <2>1. k \in 1 .. N /\ k + 1 \in 1 .. N
    BY ONLY <1>3, k \in 1 .. N - 1
  <2>2. k \in 1 .. Cardinality(ends) /\ k + 1 \in 1 .. Cardinality(ends)
    BY ONLY <1>o, <2>1
  <2>3. \A j \in ends : j <= Nth(ends, k) \/ Nth(ends, k + 1) <= j
    BY ONLY m \in Nat, <1>o, <2>2, NthOrder
  <2> QED
    BY ONLY <1>l, <2>1, <2>3
<1>6. \A k \in 1 .. N : e[k] \in Nat /\ e[k] <= 18
  <2> TAKE k \in 1 .. N
  <2>1. e[k] \in ends
    BY ONLY <1>3, k \in 1 .. N
  <2>2. e[k] \in 0 .. 18
    BY ONLY <1>2, <2>1
  <2> QED
    BY ONLY <2>2
<1>7. e[1] = 0 /\ e[N] = 18
  <2>1. 1 \in 1 .. N /\ N \in 1 .. N
    BY ONLY <1>3, <1>4
  <2>3. e[1] <= 0 /\ 18 <= e[N]
    BY ONLY <1>2, <1>a, <1>b
  <2> QED
    BY ONLY <1>6, <2>1, <2>3
<1>8. parts = [k \in 1 .. N - 1 |-> SubSeq(text, e[k] + 1, e[k + 1] - 1)] /\ Len(parts) = N - 1
  <2>1. parts = [k \in 1 .. Cardinality(ends) - 1 |->
                  SubSeq(text, Nth(ends, k) + 1, Nth(ends, k + 1) - 1)]
    BY ONLY <1>e, <1>p DEF Parts
  <2>2. \A k \in 1 .. N - 1 : k \in 1 .. N /\ k + 1 \in 1 .. N
    BY ONLY <1>3
  <2>3. \A k \in 1 .. N - 1 : e[k] = Nth(ends, k) /\ e[k + 1] = Nth(ends, k + 1)
    BY ONLY <1>l, <2>2
  <2>4. parts = [k \in 1 .. N - 1 |-> SubSeq(text, e[k] + 1, e[k + 1] - 1)]
    BY ONLY <1>n, <2>1, <2>3
  <2>5. N - 1 \in Nat
    BY ONLY <1>3, <1>4
  <2>6. Len(parts) = N - 1
    BY ONLY <2>4, <2>5
  <2> QED
    BY ONLY <2>4, <2>6
<1>9. \A k \in 1 .. N - 1 : e[k + 1] = e[k] + 3
  <2> TAKE k \in 1 .. N - 1
  <2>1. k \in 1 .. N /\ k + 1 \in 1 .. N
    BY ONLY <1>3, k \in 1 .. N - 1
  <2>2. parts[k] = SubSeq(text, e[k] + 1, e[k + 1] - 1) /\ parts[k] \in Range(parts)
    BY ONLY <1>8, k \in 1 .. N - 1 DEF Range
  <2>3. PICK a, b : a = e[k] + 1 /\ b = e[k + 1] - 1
    OBVIOUS
  <2>4. a \in Int /\ b \in Int /\ 1 <= a /\ b <= 17
    BY ONLY <1>6, <2>1, <2>3
  <2>5. Len(SubSeq(text, a, b)) = IF a <= b THEN b - a + 1 ELSE 0
    <3>1. \A i \in a .. b : text[i] \in Octet
      <4>1. \A i \in a .. b : i \in 1 .. Len(text)
        BY ONLY <1>1, <2>4
      <4> QED
        BY ONLY <4>1, text \in Seq(Octet)
    <3> QED
      BY ONLY <2>4, <3>1, SubSeqProperties
  <2>6. Len(SubSeq(text, a, b)) = 2
    BY ONLY <1>1, <2>2, <2>3
  <2>7. b = a + 1
    BY ONLY <2>4, <2>5, <2>6
  <2> QED
    BY ONLY <1>6, <2>1, <2>3, <2>7
<1>10. \A k \in 1 .. N : e[k] = 3 * (k - 1)
  <2> DEFINE S == {k \in 0 .. N : k = 0 \/ e[k] = 3 * (k - 1)}
  <2>1. 0 \in S
    BY ONLY <1>3 DEF S
  <2>2. ASSUME NEW k \in 1 .. N, k - 1 \in S PROVE k \in S
    <3>1. CASE k = 1
      BY ONLY <1>3, <1>7, <3>1, k \in 1 .. N DEF S
    <3>2. CASE k # 1
      <4>1. PICK below : below = k - 1
        OBVIOUS
      <4>2. below \in 1 .. N - 1 /\ below + 1 = k /\ below \in Nat /\ below # 0
        BY ONLY <1>3, <3>2, <4>1, k \in 1 .. N
      <4>3. e[k] = e[below] + 3 /\ e[below] = 3 * (below - 1)
        BY ONLY <1>9, <2>2, <4>1, <4>2 DEF S
      <4>4. e[k] = 3 * (k - 1)
        <5>1. 3 * (below - 1) + 3 = 3 * below
          BY ONLY <4>2
        <5> QED
          BY ONLY <4>1, <4>3, <5>1
      <4> QED
        BY ONLY <1>3, <4>4, k \in 1 .. N DEF S
    <3> QED
      BY <3>1, <3>2
  <2> HIDE DEF S
  <2>3. \A k \in 0 .. N : k \in S
    BY ONLY <1>3, <2>1, <2>2, Induction
  <2>4. \A k \in 1 .. N : k \in 0 .. N /\ k # 0
    BY ONLY <1>3
  <2> QED
    BY ONLY <2>3, <2>4 DEF S
<1>11. N = 7
  <2>1. N \in 1 .. N
    BY ONLY <1>3, <1>4
  <2> QED
    BY ONLY <1>3, <1>7, <1>10, <2>1
<1>12. ASSUME NEW i \in 1 .. 6
       PROVE  /\ text[3 * i - 2] \in Octet \ {Colon} /\ text[3 * i - 1] \in Octet \ {Colon}
              /\ parts[i][1] = text[3 * i - 2] /\ parts[i][2] = text[3 * i - 1]
  <2>1. PICK k : k = 3 * i - 2
    OBVIOUS
  <2>2. /\ k \in Nat \ {0} /\ k + 1 = 3 * i - 1 /\ k \in 1 .. 17 /\ k + 1 \in 1 .. 17
        /\ k + 1 <= Len(text) /\ i \in 1 .. N - 1 /\ i \in 1 .. N /\ i + 1 \in 1 .. N
    <3>1. i \in Nat /\ 1 <= i /\ i <= 6
      BY ONLY i \in 1 .. 6
    <3>2. k \in Nat \ {0} /\ k + 1 = 3 * i - 1 /\ k >= 1 /\ k + 1 <= 17
      BY ONLY <2>1, <3>1
    <3>3. i \in 1 .. N - 1 /\ i \in 1 .. N /\ i + 1 \in 1 .. N
      BY ONLY <1>11, <3>1
    <3>4. k \in 1 .. 17 /\ k + 1 \in 1 .. 17
      BY ONLY <3>2
    <3> QED
      BY ONLY <1>1, <3>2, <3>3, <3>4
  <2>3. e[i] + 1 = k /\ e[i + 1] - 1 = k + 1
    BY ONLY <1>10, <2>1, <2>2, i \in 1 .. 6
  <2>4. parts[i] = <<text[k], text[k + 1]>>
    <3>1. parts[i] = SubSeq(text, k, k + 1)
      BY ONLY <1>8, <2>2, <2>3
    <3>2. SubSeq(text, k, k + 1) = <<text[k], text[k + 1]>>
      BY ONLY <2>2, text \in Seq(Octet), PairIs
    <3> QED
      BY ONLY <3>1, <3>2
  <2>5. k \notin ends /\ k + 1 \notin ends
    <3>1. \A j \in ends : j <= e[i] \/ e[i + 1] <= j
      BY ONLY <1>5, <2>2
    <3>2. ~ (k <= e[i]) /\ ~ (e[i + 1] <= k) /\ ~ (k + 1 <= e[i]) /\ ~ (e[i + 1] <= k + 1)
      BY ONLY <1>6, <2>2, <2>3
    <3> QED
      BY ONLY <3>1, <3>2
  <2>6. text[k] # Colon /\ text[k + 1] # Colon
    BY ONLY <1>2, <2>2, <2>5
  <2>7. text[k] \in Octet /\ text[k + 1] \in Octet
    BY ONLY <2>2, text \in Seq(Octet)
  <2>8. parts[i][1] = text[k] /\ parts[i][2] = text[k + 1]
    BY ONLY <2>4
  <2> QED
    BY ONLY <2>1, <2>2, <2>6, <2>7, <2>8
<1>13. ASSUME NEW i \in 1 .. 5 PROVE text[3 * i] = Colon
  <2>1. PICK k : k = i + 1
    OBVIOUS
  <2>2. k \in 1 .. N /\ 3 * (k - 1) = 3 * i /\ 3 * i \in 1 .. 17
    BY ONLY <1>11, <2>1, i \in 1 .. 5
  <2>3. 3 * i \in ends
    BY ONLY <1>3, <1>10, <2>2
  <2> QED
    BY ONLY <1>2, <2>2, <2>3
<1>14. Len(parts) = 6
  BY ONLY <1>8, <1>11
<1> QED
  BY ONLY <1>p, <1>12, <1>13, <1>14 DEF SixPairs

LEMMA DigitsAre ==
  ASSUME NEW c \in 0 .. Colon
  PROVE  /\ DigitOf(c) \in Octet
         /\ c # Colon => DigitOf(c) \in Nat /\ DigitOf(c) < 16
         /\ c = Colon => DigitOf(c) = Colon
<1>1. c \in 0 .. 22
  BY DEF Colon
<1>2. CASE c \in 16 .. 21
  BY <1>1, <1>2 DEF DigitOf, Colon, Octet
<1>3. CASE c \notin 16 .. 21
  <2>1. c \in Nat /\ c <= 22 /\ DigitOf(c) = c
    BY <1>1, <1>3 DEF DigitOf
  <2>2. c # 22 => c < 16
    BY <1>1, <1>3
  <2> QED
    BY ONLY <2>1, <2>2 DEF Colon, Octet
<1> QED
  BY <1>2, <1>3

\* A first pair, and then five with a colon before them, are the whole.
LEMMA PairsAndColons ==
  ASSUME NEW u, u \in Seq(Octet), Len(u) = 17,
         NEW l, l = [i \in 1 .. 6 |-> IF i = 1 THEN SubSeq(u, 1, 2) ELSE SubSeq(u, 3 * i - 3, 3 * i - 1)]
  PROVE  FlattenSeq(l) = u
<1>1. \A i \in 1 .. 6 : l[i] \in Seq(Octet)
  <2> TAKE i \in 1 .. 6
  <2>1. PICK a, b : a = (IF i = 1 THEN 1 ELSE 3 * i - 3) /\ b = 3 * i - 1
    OBVIOUS
  <2>2. a \in Int /\ b \in Int /\ 1 <= a /\ b <= 17
    <3>1. i \in Nat /\ 1 <= i /\ i <= 6
      BY ONLY i \in 1 .. 6
    <3> QED
      BY ONLY <2>1, <3>1
  <2>3. \A j \in a .. b : u[j] \in Octet
    <3>1. \A j \in a .. b : j \in 1 .. 17
      BY ONLY <2>2
    <3>2. \A j \in 1 .. Len(u) : u[j] \in Octet
      BY ONLY u \in Seq(Octet), ElementOfSeq
    <3> QED
      BY <3>1, <3>2
  <2>4. SubSeq(u, a, b) \in Seq(Octet)
    BY ONLY <2>2, <2>3, SubSeqProperties
  <2>5. l[i] = SubSeq(u, a, b)
    <3>1. l[i] = IF i = 1 THEN SubSeq(u, 1, 2) ELSE SubSeq(u, 3 * i - 3, 3 * i - 1)
      BY Zenon
    <3>2. 3 * 1 - 1 = 2
      OBVIOUS
    <3> QED
      BY ONLY <2>1, <3>1, <3>2
  <2> QED
    BY ONLY <2>4, <2>5
<1>2. PICK n : n = 6
  OBVIOUS
<1>3. l \in Seq(Seq(Octet)) /\ n = Len(l) /\ n # 0
  <2>1. l \in [1 .. 6 -> Seq(Octet)]
    BY <1>1, Zenon
  <2>2. PICK A : A = Seq(Octet)
    OBVIOUS
  <2>3. l \in [1 .. n -> A] /\ n \in Nat
    BY ONLY <1>2, <2>1, <2>2
  <2>4. l \in Seq(A) /\ Len(l) = n
    BY ONLY <2>3
  <2> QED
    BY ONLY <1>2, <2>2, <2>4
<1>4. PICK f : Folds(Octet, l, n, f)
  BY ONLY <1>3, FlattenIs
<1>5. FlattenSeq(l) = f[6] /\ f[1] = l[1] /\ \A i \in 2 .. 6 : f[i] = f[i - 1] \o l[i]
  BY ONLY <1>2, <1>4 DEF Folds
<1>j. /\ f[2] = f[1] \o l[2] /\ f[3] = f[2] \o l[3] /\ f[4] = f[3] \o l[4]
      /\ f[5] = f[4] \o l[5] /\ f[6] = f[5] \o l[6]
  <2>1. /\ 2 \in 2 .. 6 /\ 3 \in 2 .. 6 /\ 4 \in 2 .. 6 /\ 5 \in 2 .. 6 /\ 6 \in 2 .. 6
        /\ 2 - 1 = 1 /\ 3 - 1 = 2 /\ 4 - 1 = 3 /\ 5 - 1 = 4 /\ 6 - 1 = 5
    OBVIOUS
  <2> QED
    BY ONLY <1>5, <2>1
<1>6. /\ l[1] = SubSeq(u, 1, 2) /\ l[2] = SubSeq(u, 3, 5) /\ l[3] = SubSeq(u, 6, 8)
      /\ l[4] = SubSeq(u, 9, 11) /\ l[5] = SubSeq(u, 12, 14) /\ l[6] = SubSeq(u, 15, 17)
  OBVIOUS
<1>7. \A m, k \in 1 .. 17 : m <= k => SubSeq(u, 1, m) \o SubSeq(u, m + 1, k) = SubSeq(u, 1, k)
  <2> TAKE m, k \in 1 .. 17
  <2> HAVE m <= k
  <2>1. 1 \in 1 .. Len(u) + 1 /\ m \in 1 - 1 .. Len(u) /\ k \in m .. Len(u)
    OBVIOUS
  <2> QED
    BY ONLY <2>1, u \in Seq(Octet), ConcatAdjacentSubSeq
<1>8. f[2] = SubSeq(u, 1, 5)
  <2>1. f[2] = SubSeq(u, 1, 2) \o SubSeq(u, 2 + 1, 5)
    <3>1. 2 + 1 = 3
      OBVIOUS
    <3> QED
      BY ONLY <1>5, <1>6, <1>j, <3>1
  <2> QED
    BY ONLY <1>7, <2>1
<1>9. f[3] = SubSeq(u, 1, 8)
  <2>1. f[3] = SubSeq(u, 1, 5) \o SubSeq(u, 5 + 1, 8)
    <3>1. 5 + 1 = 6
      OBVIOUS
    <3> QED
      BY ONLY <1>5, <1>6, <1>j, <1>8, <3>1
  <2> QED
    BY ONLY <1>7, <2>1
<1>10. f[4] = SubSeq(u, 1, 11)
  <2>1. f[4] = SubSeq(u, 1, 8) \o SubSeq(u, 8 + 1, 11)
    <3>1. 8 + 1 = 9
      OBVIOUS
    <3> QED
      BY ONLY <1>5, <1>6, <1>j, <1>9, <3>1
  <2> QED
    BY ONLY <1>7, <2>1
<1>11. f[5] = SubSeq(u, 1, 14)
  <2>1. f[5] = SubSeq(u, 1, 11) \o SubSeq(u, 11 + 1, 14)
    <3>1. 11 + 1 = 12
      OBVIOUS
    <3> QED
      BY ONLY <1>5, <1>6, <1>j, <1>10, <3>1
  <2> QED
    BY ONLY <1>7, <2>1
<1>12. f[6] = SubSeq(u, 1, 17)
  <2>1. f[6] = SubSeq(u, 1, 14) \o SubSeq(u, 14 + 1, 17)
    <3>1. 14 + 1 = 15
      OBVIOUS
    <3> QED
      BY ONLY <1>5, <1>6, <1>j, <1>11, <3>1
  <2> QED
    BY ONLY <1>7, <2>1
<1>13. SubSeq(u, 1, Len(u)) = u
  BY SubSeqFull
<1> QED
  BY <1>5, <1>12, <1>13

\* The octets of an address whose digits are known.
LEMMA AddressOctets ==
  ASSUME NEW u, u \in Seq(Octet), Len(u) = 17, NEW a,
         \A i \in 1 .. 6 : a[i] \div 16 = u[3 * i - 2] /\ a[i] % 16 = u[3 * i - 1],
         \A i \in 1 .. 5 : u[3 * i] = Colon
  PROVE  FormatHex(a) = u
<1>u. u \in Seq(Octet) /\ Len(u) = 17
  OBVIOUS
<1>a. \A i \in 1 .. 6 : a[i] \div 16 = u[3 * i - 2] /\ a[i] % 16 = u[3 * i - 1]
  OBVIOUS
<1>c. \A i \in 1 .. 5 : u[3 * i] = Colon
  OBVIOUS
<1>l. PICK l : l = [i \in 1 .. 6 |-> (IF i > 1 THEN <<Colon>> ELSE <<>>) \o <<a[i] \div 16, a[i] % 16>>]
  OBVIOUS
<1>1. FormatHex(a) = FlattenSeq(l)
  BY ONLY <1>l DEF FormatHex
<1>2. \A i \in 1 .. 6 : (IF i > 1 THEN <<Colon>> ELSE <<>>) \o <<a[i] \div 16, a[i] % 16>>
                     = IF i = 1 THEN SubSeq(u, 1, 2) ELSE SubSeq(u, 3 * i - 3, 3 * i - 1)
  <2> TAKE i \in 1 .. 6
  <2>1. PICK j, k : j = 3 * i - 2 /\ k = 3 * i - 1
    OBVIOUS
  <2>2. /\ j \in Nat \ {0} /\ k = j + 1 /\ j + 1 <= Len(u) /\ i \in Nat /\ 1 <= i
        /\ k \in 1 .. 17 /\ u[j] \in Octet /\ u[k] \in Octet
    <3>1. i \in Nat /\ 1 <= i /\ i <= 6
      BY ONLY i \in 1 .. 6
    <3>2. j \in Nat \ {0} /\ k = j + 1 /\ j + 1 <= 17 /\ j \in 1 .. 17 /\ k \in 1 .. 17
      BY ONLY <2>1, <3>1
    <3>3. u[j] \in Octet /\ u[k] \in Octet
      BY ONLY <1>u, <3>2, ElementOfSeq
    <3> QED
      BY ONLY <1>u, <3>1, <3>2, <3>3
  <2>3. <<a[i] \div 16, a[i] % 16>> = SubSeq(u, j, k)
    <3>1. SubSeq(u, j, j + 1) = <<u[j], u[j + 1]>>
      BY ONLY <1>u, <2>2, PairIs
    <3>2. a[i] \div 16 = u[j] /\ a[i] % 16 = u[k]
      BY ONLY <1>a, <2>1, i \in 1 .. 6
    <3> QED
      BY ONLY <2>2, <3>1, <3>2
  <2>4. SubSeq(u, j, k) \in Seq(Octet)
    <3>1. SubSeq(u, j, k) = <<u[j], u[k]>>
      BY ONLY <1>u, <2>2, PairIs
    <3> QED
      BY ONLY <2>2, <3>1
  <2>5. CASE i = 1
    <3>1. <<>> \o SubSeq(u, j, k) = SubSeq(u, j, k)
      BY ONLY <2>4, ConcatEmptySeq
    <3>2. ~ (i > 1) /\ j = 1 /\ k = 2
      BY ONLY <2>1, <2>5
    <3> QED
      BY ONLY <2>3, <2>5, <3>1, <3>2
  <2>6. CASE i # 1
    <3>1. PICK m : m = i - 1
      OBVIOUS
    <3>2. m \in 1 .. 5 /\ 3 * m = j - 1 /\ 3 * m = 3 * i - 3 /\ i > 1
      BY ONLY <2>1, <2>2, <2>6, <3>1, i \in 1 .. 6
    <3>3. PICK h : h = j - 1
      OBVIOUS
    <3>4. h \in Nat \ {0} /\ h \in 1 .. 17 /\ h + 1 = j
      BY ONLY <2>2, <3>2, <3>3
    <3>5. u[h] = Colon
      BY ONLY <1>c, <3>2, <3>3
    <3>6. SubSeq(u, h, h) = <<Colon>>
      <4>1. <<Colon>> = SubSeq(u, h, h)
        <5>1. PICK r : r = SubSeq(u, h, h)
          OBVIOUS
        <5>2. \A x \in h .. h : u[x] \in Octet
          <6>1. \A x \in h .. h : x = h
            BY ONLY <3>4
          <6>2. u[h] \in Octet
            BY ONLY <1>u, <3>4, ElementOfSeq
          <6> QED
            BY ONLY <6>1, <6>2
        <5>3. /\ SubSeq(u, h, h) \in Seq(Octet)
              /\ Len(SubSeq(u, h, h)) = IF h <= h THEN h - h + 1 ELSE 0
              /\ \A x \in 1 .. h - h + 1 : SubSeq(u, h, h)[x] = u[h + x - 1]
          <6>1. h \in Int
            BY ONLY <3>4
          <6> QED
            BY ONLY <5>2, <6>1, SubSeqProperties
        <5>4. h <= h /\ h - h + 1 = 1 /\ h + 1 - 1 = h /\ 1 \in 1 .. 1
          BY ONLY <3>4
        <5>5. r \in Seq(Octet) /\ Len(r) = 1 /\ r[1] = Colon
          BY ONLY <3>5, <5>1, <5>3, <5>4
        <5> QED
          BY ONLY <5>1, <5>5
      <4> QED
        BY ONLY <4>1
    <3>7. SubSeq(u, h, h) \o SubSeq(u, h + 1, k) = SubSeq(u, h, k)
      <4>1. h \in 1 .. Len(u) + 1 /\ h \in h - 1 .. Len(u) /\ k \in h .. Len(u)
        BY ONLY <1>u, <2>2, <3>4
      <4> QED
        BY ONLY <1>u, <4>1, ConcatAdjacentSubSeq
    <3> QED
      BY ONLY <2>1, <2>3, <2>6, <3>2, <3>3, <3>4, <3>6, <3>7
  <2> QED
    BY ONLY <2>5, <2>6
<1>3. l = [i \in 1 .. 6 |-> IF i = 1 THEN SubSeq(u, 1, 2) ELSE SubSeq(u, 3 * i - 3, 3 * i - 1)]
  BY ONLY <1>l, <1>2
<1> QED
  BY ONLY <1>u, <1>1, <1>3, PairsAndColons

LEMMA AddressIsThere ==
  ASSUME NEW text, text \in Seq(Octet), FromHex(text) # Failed
  PROVE  /\ FromHex(text) \in [1 .. 6 -> Octet]
         /\ FormatHex(FromHex(text)) = [i \in DOMAIN text |-> DigitOf(text[i])]
<1>1. WellFormed(text)
  BY DEF FromHex
<1>2. SixPairs(text)
  BY ONLY <1>1, text \in Seq(Octet), WellFormedIs
<1>3. Len(text) = 17 /\ DOMAIN text = 1 .. 17 /\ \A i \in 1 .. 17 : text[i] \in 0 .. Colon
  <2>1. Len(text) = 17 /\ DOMAIN text = 1 .. 17
    BY <1>1 DEF WellFormed
  <2> QED
    BY ONLY <1>1, <2>1 DEF WellFormed
<1>u. PICK u : u = [i \in 1 .. 17 |-> DigitOf(text[i])]
  OBVIOUS
<1>4. u \in Seq(Octet) /\ Len(u) = 17 /\ \A i \in 1 .. 17 : u[i] = DigitOf(text[i])
  <2>1. \A i \in 1 .. 17 : DigitOf(text[i]) \in Octet
    BY ONLY <1>3, DigitsAre
  <2>2. PICK n \in Nat : n = 17
    OBVIOUS
  <2>3. u \in [1 .. n -> Octet]
    BY ONLY <1>u, <2>1, <2>2
  <2>4. u \in Seq(Octet) /\ Len(u) = n
    BY ONLY <2>3, n \in Nat
  <2>5. \A i \in 1 .. 17 : u[i] = DigitOf(text[i])
    BY ONLY <1>u
  <2> QED
    BY ONLY <2>2, <2>4, <2>5
<1>a. PICK a : a = [i \in 1 .. 6 |-> 16 * u[3 * i - 2] + u[3 * i - 1]]
  OBVIOUS
<1>5. \A i \in 1 .. 6 : /\ 3 * i - 2 \in 1 .. 17 /\ 3 * i - 1 \in 1 .. 17
                       /\ u[3 * i - 2] \in Nat /\ u[3 * i - 2] < 16
                       /\ u[3 * i - 1] \in Nat /\ u[3 * i - 1] < 16
  <2> TAKE i \in 1 .. 6
  <2>1. i \in Nat /\ 1 <= i /\ i <= 6
    BY ONLY i \in 1 .. 6
  <2>2. PICK j, k : j = 3 * i - 2 /\ k = 3 * i - 1
    OBVIOUS
  <2>3. j \in 1 .. 17 /\ k \in 1 .. 17
    BY ONLY <2>1, <2>2
  <2>4. text[j] # Colon /\ text[k] # Colon
    BY ONLY <1>2, <2>2, i \in 1 .. 6 DEF SixPairs
  <2>5. u[j] \in Nat /\ u[j] < 16 /\ u[k] \in Nat /\ u[k] < 16
    BY ONLY <1>3, <1>4, <2>3, <2>4, DigitsAre
  <2> QED
    BY ONLY <2>2, <2>3, <2>5
<1>6. FromHex(text) = a
  <2>1. PICK parts : parts = Parts(text)
    OBVIOUS
  <2>2. /\ Len(parts) = 6
        /\ \A i \in 1 .. 6 : parts[i][1] = text[3 * i - 2] /\ parts[i][2] = text[3 * i - 1]
    BY ONLY <1>2, <2>1 DEF SixPairs
  <2>3. FromHex(text) = [i \in 1 .. 6 |-> IF i > Len(parts) THEN 0
                                         ELSE 16 * DigitOf(parts[i][1]) + DigitOf(parts[i][2])]
    BY ONLY <1>1, <2>1 DEF FromHex
  <2>4. \A i \in 1 .. 6 : ~ (i > Len(parts))
    BY ONLY <2>2
  <2>5. \A i \in 1 .. 6 : /\ DigitOf(parts[i][1]) = u[3 * i - 2]
                         /\ DigitOf(parts[i][2]) = u[3 * i - 1]
    BY ONLY <1>4, <1>5, <2>2
  <2> QED
    BY ONLY <1>a, <2>3, <2>4, <2>5
<1>7. \A i \in 1 .. 6 : /\ a[i] \in Octet
                       /\ a[i] \div 16 = u[3 * i - 2] /\ a[i] % 16 = u[3 * i - 1]
  <2> TAKE i \in 1 .. 6
  <2>1. PICK x, y : x = u[3 * i - 2] /\ y = u[3 * i - 1]
    OBVIOUS
  <2>2. x \in Nat /\ x < 16 /\ y \in Nat /\ y < 16
    BY ONLY <1>5, <2>1, i \in 1 .. 6
  <2>3. a[i] = 16 * x + y
    BY ONLY <1>a, <2>1, i \in 1 .. 6
  <2>4. a[i] \in Int /\ a[i] \in Octet /\ 16 \in Nat \ {0}
    BY ONLY <2>2, <2>3 DEF Octet
  <2>5. a[i] \div 16 = x /\ a[i] % 16 = y
    BY ONLY <2>2, <2>3, <2>4, Divided
  <2> QED
    BY ONLY <2>1, <2>4, <2>5
<1>8. a \in [1 .. 6 -> Octet]
  BY ONLY <1>a, <1>7
<1>9. FormatHex(a) = u
  <2>1. \A i \in 1 .. 5 : u[3 * i] = Colon
    <3> TAKE i \in 1 .. 5
    <3>1. PICK h : h = 3 * i
      OBVIOUS
    <3>2. h \in 1 .. 17
      BY ONLY <3>1, i \in 1 .. 5
    <3>3. text[h] = Colon
      BY ONLY <1>2, <3>1, i \in 1 .. 5 DEF SixPairs
    <3>4. u[h] = Colon
      BY ONLY <1>3, <1>4, <3>2, <3>3, DigitsAre
    <3> QED
      BY ONLY <3>1, <3>4
  <2> QED
    BY ONLY <1>4, <1>7, <2>1, AddressOctets
<1> QED
  BY ONLY <1>u, <1>3, <1>6, <1>8, <1>9

-----------------------------------------------------------------------------
(* Attributes.                                                             *)

\* r is within data, and what it has is of its type.
Sound(data0, r) ==
  /\ r.position \in 0 .. Len(data0)
  /\ r.value \notin {Failed, Panicked} => ElementTyped(r.value)

LEMMA SliceIs ==
  ASSUME NEW d, d \in Seq(Octet), NEW p \in Nat, NEW n \in Nat, p + n <= Len(d)
  PROVE  Slice(d, p, n) \in Seq(Octet) /\ Len(Slice(d, p, n)) = n
<1>1. PICK a, b : a = p + 1 /\ b = p + n
  OBVIOUS
<1>2. a \in Int /\ b \in Int /\ 1 <= a /\ b <= Len(d) /\ Len(d) \in Nat
  BY <1>1
<1>3. \A i \in a .. b : d[i] \in Octet
  <2>1. \A i \in a .. b : i \in 1 .. Len(d)
    BY ONLY <1>2
  <2> QED
    BY ONLY <2>1, d \in Seq(Octet), ElementOfSeq
<1>4. SubSeq(d, a, b) \in Seq(Octet) /\ Len(SubSeq(d, a, b)) = IF a <= b THEN b - a + 1 ELSE 0
  BY ONLY <1>2, <1>3, SubSeqProperties
<1>5. (IF a <= b THEN b - a + 1 ELSE 0) = n
  BY <1>1
<1> QED
  BY ONLY <1>1, <1>4, <1>5 DEF Slice

LEMMA ElementsAre ==
  ASSUME NEW t, NEW v
  PROVE  /\ Element(t, v).type = t /\ Element(t, v).value = v
         /\ t = "UuidList" /\ Len(v) <= UuidSize * UuidCount => ElementTyped(Element(t, v))
         /\ t = "TextString" /\ Len(v) <= TextSize => ElementTyped(Element(t, v))
         /\ t \in DOMAIN Width /\ Len(v) = Width[t] => ElementTyped(Element(t, v))
<1>1. PICK e : e = Element(t, v)
  OBVIOUS
<1>2. e.type = t /\ e.value = v
  BY ONLY <1>1 DEF Element
<1>3. ASSUME t = "UuidList", Len(v) <= UuidSize * UuidCount PROVE ElementTyped(e)
  BY ONLY <1>2, <1>3 DEF ElementTyped
<1>4. ASSUME t = "TextString", Len(v) <= TextSize PROVE ElementTyped(e)
  BY ONLY <1>2, <1>4 DEF ElementTyped
<1>5. ASSUME t \in DOMAIN Width, Len(v) = Width[t] PROVE ElementTyped(e)
  <2>1. t # "UuidList" /\ t # "TextString"
    BY ONLY <1>5 DEF Width
  <2> QED
    BY ONLY <1>2, <1>5, <2>1 DEF ElementTyped
<1> QED
  BY ONLY <1>1, <1>2, <1>3, <1>4, <1>5

LEMMA MinOfTwo ==
  ASSUME NEW a \in Nat, NEW b \in Nat
  PROVE  /\ Min({a, b}) \in Nat /\ Min({a, b}) <= a /\ Min({a, b}) <= b
         /\ Min({a, b}) = a \/ Min({a, b}) = b
<1>1. \E x \in {a, b} : \A y \in {a, b} : x <= y
  BY DEF Min
<1>2. Min({a, b}) \in {a, b} /\ \A y \in {a, b} : Min({a, b}) <= y
  BY <1>1 DEF Min
<1> QED
  BY <1>2

LEMMA ReadIs == ASSUME NEW v, NEW p PROVE Read(v, p).value = v /\ Read(v, p).position = p
  BY DEF Read

LEMMA FixedSound ==
  ASSUME NEW d, d \in Seq(Octet), NEW p \in Nat, p <= Len(d), NEW t \in DOMAIN Width
  PROVE  Sound(d, ReadFixed(d, p, t))
<1>w. PICK w : w = Width[t]
  OBVIOUS
<1>l. PICK n : n = Len(d)
  OBVIOUS
<1>1. w \in Nat /\ n \in Nat /\ p <= n
  BY <1>w, <1>l DEF Width, UuidSize
<1>2. CASE n - p < w
  <2>1. ReadFixed(d, p, t) = Read(Failed, p)
    BY ONLY <1>w, <1>l, <1>2 DEF ReadFixed, Available
  <2>2. p \in 0 .. n
    BY ONLY <1>1, p \in Nat
  <2> QED
    BY ONLY <1>l, <2>1, <2>2, ReadIs DEF Sound
<1>3. CASE ~ (n - p < w)
  <2>1. ReadFixed(d, p, t) = Read(Element(t, Slice(d, p, w)), p + w)
    BY ONLY <1>w, <1>l, <1>3 DEF ReadFixed, Available
  <2>2. p + w \in 0 .. n /\ p + w <= Len(d)
    BY ONLY <1>l, <1>1, <1>3, p \in Nat
  <2>3. Len(Slice(d, p, w)) = w
    BY ONLY <1>1, <2>2, d \in Seq(Octet), p \in Nat, SliceIs
  <2>4. ElementTyped(Element(t, Slice(d, p, w)))
    BY ONLY <1>w, <2>3, t \in DOMAIN Width, ElementsAre
  <2> QED
    BY ONLY <1>l, <2>1, <2>2, <2>4, ReadIs DEF Sound
<1> QED
  BY <1>2, <1>3

LEMMA TextSound ==
  ASSUME NEW d, d \in Seq(Octet), NEW p \in Nat, p <= Len(d), NEW k \in Nat
  PROVE  Sound(d, ReadText(d, p, k))
<1>l. PICK n : n = Len(d)
  OBVIOUS
<1>1. n \in Nat /\ p <= n /\ TextSize \in Nat
  BY <1>l, SdpWireAssumption
<1>2. CASE k > n - p \/ k > TextSize
  <2>1. ReadText(d, p, k) = Read(Failed, p)
    BY ONLY <1>l, <1>2 DEF ReadText, Available
  <2>2. p \in 0 .. n
    BY ONLY <1>1, p \in Nat
  <2> QED
    BY ONLY <1>l, <2>1, <2>2, ReadIs DEF Sound
<1>3. CASE ~ (k > n - p \/ k > TextSize)
  <2>1. ReadText(d, p, k) = Read(Element("TextString", Slice(d, p, k)), p + k)
    BY ONLY <1>l, <1>3 DEF ReadText, Available
  <2>2. p + k \in 0 .. n /\ p + k <= Len(d) /\ k <= TextSize
    BY ONLY <1>l, <1>1, <1>3, p \in Nat, k \in Nat
  <2>3. Len(Slice(d, p, k)) = k
    BY ONLY <2>2, d \in Seq(Octet), p \in Nat, k \in Nat, SliceIs
  <2>4. ElementTyped(Element("TextString", Slice(d, p, k)))
    BY ONLY <2>2, <2>3, ElementsAre
  <2> QED
    BY ONLY <1>l, <2>1, <2>2, <2>4, ReadIs DEF Sound
<1> QED
  BY <1>2, <1>3

LEMMA UuidsSound ==
  ASSUME NEW d, d \in Seq(Octet), NEW p \in Nat, p <= Len(d), NEW k \in Nat
  PROVE  Sound(d, ReadUuids(d, p, k))
<1>l. PICK n, u : n = Len(d) /\ u = UuidCount
  OBVIOUS
<1>1. n \in Nat /\ p <= n /\ u \in Nat
  BY <1>l, SdpWireAssumption
<1>a. PICK a : a = n - p
  OBVIOUS
<1>2. a \in Nat /\ a + 16 - 1 \in Nat
  BY ONLY <1>1, <1>a, p \in Nat
<1>x. PICK x, y, whole : x = k \div 16 /\ y = (a + 16 - 1) \div 16 /\ whole = a \div 16
  OBVIOUS
<1>3. x \in Nat /\ y \in Nat /\ whole \in Nat /\ 16 * whole <= a
  <2>1. 16 \in Nat \ {0}
    OBVIOUS
  <2>2. x \in Nat /\ y \in Nat
    BY ONLY <1>2, <1>x, <2>1, k \in Nat, Division
  <2>3. PICK r : r = a % 16
    OBVIOUS
  <2>4. a = 16 * whole + r /\ whole \in Nat /\ r \in Nat
    BY ONLY <1>2, <1>x, <2>1, <2>3, Division
  <2> QED
    BY ONLY <1>2, <2>2, <2>4
<1>m. PICK wanted : wanted = Min({x, y})
  OBVIOUS
<1>4. wanted \in Nat
  BY ONLY <1>3, <1>m, MinOfTwo
<1>t. PICK taken : taken = Min({wanted, whole})
  OBVIOUS
<1>5. taken \in Nat /\ taken <= wanted /\ taken <= whole /\ (taken = wanted \/ taken = whole)
  BY ONLY <1>3, <1>4, <1>t, MinOfTwo
<1>6. ReadUuids(d, p, k) =
        CASE taken > u -> Read(Failed, p + 16 * u)
          [] taken <= u /\ wanted > whole -> Read(Panicked, p + 16 * whole)
          [] OTHER -> Read(Element("UuidList", Slice(d, p, 16 * wanted)), p + 16 * wanted)
  BY ONLY <1>l, <1>a, <1>x, <1>m, <1>t DEF ReadUuids, Available, UuidSize
<1>7. CASE taken > u
  <2>1. ReadUuids(d, p, k) = Read(Failed, p + 16 * u)
    BY ONLY <1>1, <1>5, <1>6, <1>7
  <2>2. p + 16 * u \in 0 .. n
    BY ONLY <1>1, <1>2, <1>3, <1>5, <1>7, <1>a, p \in Nat
  <2> QED
    BY ONLY <1>l, <2>1, <2>2, ReadIs DEF Sound
<1>8. CASE taken <= u /\ wanted > whole
  <2>1. ReadUuids(d, p, k) = Read(Panicked, p + 16 * whole)
    BY ONLY <1>1, <1>5, <1>6, <1>8
  <2>2. p + 16 * whole \in 0 .. n
    BY ONLY <1>1, <1>3, <1>a, p \in Nat
  <2> QED
    BY ONLY <1>l, <2>1, <2>2, ReadIs DEF Sound
<1>9. CASE taken <= u /\ wanted <= whole
  <2>1. ReadUuids(d, p, k) = Read(Element("UuidList", Slice(d, p, 16 * wanted)), p + 16 * wanted)
    BY ONLY <1>1, <1>3, <1>4, <1>5, <1>6, <1>9
  <2>2. PICK w : w = 16 * wanted
    OBVIOUS
  <2>3. w \in Nat /\ p + w \in 0 .. n /\ p + w <= Len(d) /\ w <= 16 * u
    <3>1. wanted <= u
      BY ONLY <1>1, <1>3, <1>4, <1>5, <1>9
    <3>2. w \in Nat /\ w <= a /\ w <= 16 * u
      BY ONLY <1>1, <1>2, <1>3, <1>4, <1>9, <2>2, <3>1
    <3> QED
      BY ONLY <1>l, <1>1, <1>a, <3>2, p \in Nat
  <2>4. Len(Slice(d, p, w)) = w
    BY ONLY <2>3, d \in Seq(Octet), p \in Nat, SliceIs
  <2>5. Len(Slice(d, p, w)) <= UuidSize * UuidCount
    BY ONLY <1>l, <2>3, <2>4 DEF UuidSize
  <2>6. ElementTyped(Element("UuidList", Slice(d, p, w)))
    BY ONLY <2>5, ElementsAre
  <2> QED
    BY ONLY <1>l, <2>1, <2>2, <2>3, <2>6, ReadIs DEF Sound
<1>10. taken > u \/ (taken <= u /\ wanted > whole) \/ (taken <= u /\ wanted <= whole)
  BY ONLY <1>1, <1>3, <1>4, <1>5
<1> QED
  BY ONLY <1>7, <1>8, <1>9, <1>10

LEMMA VariableSound ==
  ASSUME NEW d, d \in Seq(Octet), NEW p \in Nat, p <= Len(d),
         NEW t \in {TextType, SequenceType}, NEW index
  PROVE  Sound(d, ReadVariable(d, p, t, index))
<1>l. PICK n : n = Len(d)
  OBVIOUS
<1>1. n \in Nat /\ p <= n /\ p \in 0 .. n
  BY <1>l
<1>2. CASE index \notin DOMAIN LengthWidth
  <2>1. ReadVariable(d, p, t, index) = Read(Failed, p)
    BY ONLY <1>2 DEF ReadVariable
  <2> QED
    BY ONLY <1>l, <1>1, <2>1, ReadIs DEF Sound
<1>3. CASE index \in DOMAIN LengthWidth
  <2>k. PICK k : k = LengthWidth[index]
    OBVIOUS
  <2>1. k \in Nat
    BY ONLY <1>3, <2>k DEF LengthWidth
  <2>2. CASE n - p < k
    <3>1. ReadVariable(d, p, t, index) = Read(Failed, p)
      <4>1. ~ (n - p >= k)
        BY ONLY <1>1, <2>1, <2>2, p \in Nat
      <4> QED
        BY ONLY <1>l, <1>3, <2>k, <2>2, <4>1 DEF ReadVariable, Available
    <3> QED
      BY ONLY <1>l, <1>1, <3>1, ReadIs DEF Sound
  <2>3. CASE n - p >= k
    <3>1. p + k \in Nat /\ p + k <= Len(d) /\ ~ (n - p < k)
      BY ONLY <1>l, <1>1, <2>1, <2>3, p \in Nat
    <3>v. PICK v : v = Value(Slice(d, p, k))
      OBVIOUS
    <3>2. v \in Nat
      <4>1. Slice(d, p, k) \in Seq(Octet)
        BY ONLY <2>1, <3>1, d \in Seq(Octet), p \in Nat, SliceIs
      <4> QED
        BY ONLY <3>v, <4>1, ValueTyped
    <3>3. CASE t = TextType
      <4>1. ReadVariable(d, p, t, index) = ReadText(d, p + k, v)
        BY ONLY <1>l, <1>3, <2>k, <2>3, <3>1, <3>3, <3>v DEF ReadVariable, Available, TextType, SequenceType
      <4> QED
        BY ONLY <3>1, <3>2, <4>1, d \in Seq(Octet), TextSound
    <3>4. CASE t = SequenceType
      <4>1. ReadVariable(d, p, t, index) = ReadUuids(d, p + k, v)
        BY ONLY <1>l, <1>3, <2>k, <2>3, <3>1, <3>4, <3>v DEF ReadVariable, Available, TextType, SequenceType
      <4> QED
        BY ONLY <3>1, <3>2, <4>1, d \in Seq(Octet), UuidsSound
    <3> QED
      BY <3>3, <3>4
  <2> QED
    BY ONLY <1>1, <2>1, <2>2, <2>3, p \in Nat
<1> QED
  BY <1>2, <1>3

LEMMA ElementSound ==
  ASSUME NEW d, d \in Seq(Octet), NEW p \in Nat, p <= Len(d)
  PROVE  Sound(d, ReadElement(d, p))
<1>l. PICK n : n = Len(d)
  OBVIOUS
<1>1. n \in Nat /\ p <= n /\ p \in 0 .. n
  BY <1>l
<1>2. CASE n - p < 1
  <2>1. ReadElement(d, p) = Read(Failed, p)
    BY ONLY <1>l, <1>2 DEF ReadElement, Available
  <2> QED
    BY ONLY <1>l, <1>1, <2>1, ReadIs DEF Sound
<1>3. CASE ~ (n - p < 1)
  <2>1. p + 1 \in Nat /\ p + 1 <= Len(d) /\ p + 1 \in 0 .. n
    BY ONLY <1>l, <1>1, <1>3, p \in Nat
  <2>c. PICK c : c = d[p + 1]
    OBVIOUS
  <2>k. PICK known : known = {t \in DOMAIN Descriptor : Descriptor[t] = (IF c < 8 THEN 0 ELSE c)}
    OBVIOUS
  <2>x. PICK x, y : x = c \div 8 /\ y = c % 8
    OBVIOUS
  <2>2. ReadElement(d, p) =
          CASE known # {} -> ReadFixed(d, p + 1, CHOOSE t \in known : TRUE)
            [] known = {} /\ x \in {TextType, SequenceType} -> ReadVariable(d, p + 1, x, y)
            [] OTHER -> Read(Failed, p + 1)
    BY ONLY <1>l, <1>3, <2>c, <2>k, <2>x DEF ReadElement, Available
  <2>3. CASE known # {}
    <3>1. PICK t : t = (CHOOSE u \in known : TRUE)
      OBVIOUS
    <3>2. t \in DOMAIN Width
      <4>1. t \in known
        BY ONLY <2>3, <3>1
      <4>2. t \in DOMAIN Descriptor
        BY ONLY <2>k, <4>1
      <4> QED
        BY ONLY <4>2 DEF Descriptor, Width
    <3>3. ReadElement(d, p) = ReadFixed(d, p + 1, t)
      BY ONLY <2>2, <2>3, <3>1
    <3> QED
      BY ONLY <2>1, <3>2, <3>3, d \in Seq(Octet), FixedSound
  <2>4. CASE known = {} /\ x \in {TextType, SequenceType}
    <3>1. ReadElement(d, p) = ReadVariable(d, p + 1, x, y)
      BY ONLY <2>2, <2>4
    <3> QED
      BY ONLY <2>1, <2>4, <3>1, d \in Seq(Octet), VariableSound
  <2>5. CASE known = {} /\ x \notin {TextType, SequenceType}
    <3>1. ReadElement(d, p) = Read(Failed, p + 1)
      BY ONLY <2>2, <2>5
    <3> QED
      BY ONLY <1>l, <2>1, <3>1, ReadIs DEF Sound
  <2> QED
    BY ONLY <2>3, <2>4, <2>5
<1> QED
  BY <1>2, <1>3

\* parse_next stays within the data, and what it returns is of its type.
LEMMA AttributeSound ==
  ASSUME NEW d, d \in Seq(Octet), NEW p \in 0 .. Len(d)
  PROVE  /\ ReadAttribute(d, p).position \in 0 .. Len(d)
         /\ ReadAttribute(d, p).value \notin {Failed, Panicked} =>
              ElementTyped(ReadAttribute(d, p).value.value)
<1>l. PICK n : n = Len(d)
  OBVIOUS
<1>1. n \in Nat /\ p \in Nat /\ p <= n /\ p \in 0 .. n
  BY <1>l
<1>2. CASE n - p < 2
  <2>1. ReadAttribute(d, p) = Read(Failed, p)
    BY ONLY <1>l, <1>2 DEF ReadAttribute, Available
  <2> QED
    BY ONLY <1>l, <1>1, <2>1, ReadIs
<1>3. CASE ~ (n - p < 2)
  <2>1. p + 2 \in Nat /\ p + 2 <= Len(d)
    BY ONLY <1>l, <1>1, <1>3
  <2>e. PICK e : e = ReadElement(d, p + 2)
    OBVIOUS
  <2>2. Sound(d, e)
    BY ONLY <2>1, <2>e, d \in Seq(Octet), ElementSound
  <2>i. PICK id : id = Value(Slice(d, p, 2))
    OBVIOUS
  <2>a. PICK a : a = [id |-> id, value |-> e.value]
    OBVIOUS
  <2>3. a.value = e.value
    BY ONLY <2>a
  <2>4. ReadAttribute(d, p) = IF e.value \in {Failed, Panicked} THEN e ELSE Read(a, e.position)
    BY ONLY <1>l, <1>3, <2>e, <2>i, <2>a DEF ReadAttribute, Available
  <2>5. CASE e.value \in {Failed, Panicked}
    BY ONLY <2>2, <2>4, <2>5 DEF Sound
  <2>6. CASE e.value \notin {Failed, Panicked}
    <3>1. ReadAttribute(d, p).position = e.position /\ ReadAttribute(d, p).value = a
      BY ONLY <2>4, <2>6, ReadIs
    <3> QED
      BY ONLY <2>2, <2>3, <2>6, <3>1 DEF Sound
  <2> QED
    BY ONLY <2>5, <2>6
<1> QED
  BY <1>2, <1>3

-----------------------------------------------------------------------------
(* What is written consists of octets.                                     *)

LEMMA Joined ==
  ASSUME NEW a, a \in Seq(Octet), NEW b, b \in Seq(Octet)
  PROVE  a \o b \in Seq(Octet) /\ Len(a \o b) = Len(a) + Len(b)
  BY ONLY a \in Seq(Octet), b \in Seq(Octet), ConcatProperties

LEMMA SizesAreWords ==
  /\ CommandSize \in Nat /\ CommandSize < 65536 /\ PacketSize \in Nat /\ PacketSize < 65536
  /\ DataSize \in Nat /\ DataSize < 65536
  BY SignalingWireAssumption DEF Word

LEMMA PairLength == ASSUME NEW w PROVE Len(LittleEndian(w)) = 2 /\ Len(BigEndian(w)) = 2
<1>1. \A a, b : Len(<<a, b>>) = 2
  OBVIOUS
<1> QED
  BY ONLY <1>1 DEF LittleEndian, BigEndian

LEMMA FourMore ==
  ASSUME NEW w, NEW x, NEW y, NEW z, NEW octets, octets \in Seq(Octet)
  PROVE  Len(<<w, x>> \o <<y, z>> \o octets) = 4 + Len(octets)
<1>n. PICK n : n = Len(octets)
  OBVIOUS
<1>1. PICK T : T = {w, x, y, z} \cup Octet
  BY ONLY <1>n
<1>2. <<w, x>> \in Seq(T) /\ <<y, z>> \in Seq(T) /\ Len(<<w, x>>) = 2 /\ Len(<<y, z>>) = 2
  BY ONLY <1>1
<1>3. octets \in Seq(T)
  <2>1. Octet \subseteq T
    BY ONLY <1>1
  <2> QED
    BY ONLY <2>1, octets \in Seq(Octet), SeqMonotonic
<1>4. <<w, x>> \o <<y, z>> \in Seq(T) /\ Len(<<w, x>> \o <<y, z>>) = 2 + 2
  BY ONLY <1>2, ConcatProperties
<1>5. Len(<<w, x>> \o <<y, z>> \o octets) = 2 + 2 + n
  BY ONLY <1>n, <1>3, <1>4, ConcatProperties
<1>6. n \in Nat
  BY <1>n
<1> QED
  BY ONLY <1>n, <1>5, <1>6

\* Two words and what follows them.
Packet(w, x, octets) == LittleEndian(w) \o LittleEndian(x) \o octets

LEMMA PacketFits ==
  ASSUME NEW room, NEW octets, NEW w, NEW x, Bounded(Packet(w, x, octets), room) # Failed,
         octets \in Seq(Octet), room \in Word
  PROVE  Len(octets) \in Word /\ Bounded(Packet(w, x, octets), room) = Packet(w, x, octets)
<1>n. PICK n, z : n = Len(octets) /\ z = Packet(w, x, octets)
  OBVIOUS
<1>1. n \in Nat
  BY ONLY <1>n, octets \in Seq(Octet)
<1>2. z = LittleEndian(w) \o LittleEndian(x) \o octets
  BY ONLY <1>n DEF Packet
<1>3. Len(z) = 4 + n
  BY ONLY <1>n, <1>2, octets \in Seq(Octet), FourMore DEF LittleEndian
<1>4. Len(z) <= room /\ Bounded(z, room) = z
  BY ONLY <1>n, Bounded(Packet(w, x, octets), room) # Failed DEF Bounded
<1>5. n < 65536
  <2>1. room \in Nat /\ room < 65536
    BY DEF Word
  <2> QED
    BY ONLY <1>1, <1>3, <1>4, <2>1
<1> QED
  BY ONLY <1>n, <1>1, <1>4, <1>5 DEF Word

LEMMA PacketTyped ==
  ASSUME NEW w \in Word, NEW x \in Word, NEW octets, octets \in Seq(Octet)
  PROVE  Packet(w, x, octets) \in Seq(Octet)
<1>1. LittleEndian(w) \in Seq(Octet) /\ LittleEndian(x) \in Seq(Octet)
  BY ONLY w \in Word, x \in Word, WordsAreTwoOctets
<1>2. LittleEndian(w) \o LittleEndian(x) \in Seq(Octet)
  BY ONLY <1>1, Joined
<1> QED
  BY ONLY <1>2, octets \in Seq(Octet), Joined DEF Packet

LEMMA PairTyped == ASSUME NEW a \in Octet, NEW b \in Octet PROVE <<a, b>> \in Seq(Octet)
  OBVIOUS

LEMMA PayloadWritten ==
  ASSUME NEW p, p.words \in Seq(Word), p.options \in Seq(Octet)
  PROVE  PayloadToBytes(p) \in Seq(Octet)
<1>w. PICK words, options : words = p.words /\ options = p.options
  OBVIOUS
<1>1. words \in Seq(Word) /\ options \in Seq(Octet)
  BY <1>w
<1>l. PICK l : l = [i \in DOMAIN words |-> LittleEndian(words[i])]
  OBVIOUS
<1>2. l \in Seq(Seq(Octet))
  <2>1. PICK n : n = Len(words)
    OBVIOUS
  <2>2. n \in Nat /\ DOMAIN words = 1 .. n /\ \A i \in 1 .. n : words[i] \in Word
    BY ONLY <1>1, <2>1
  <2>3. \A i \in 1 .. n : LittleEndian(words[i]) \in Seq(Octet)
    BY ONLY <2>2, WordsAreTwoOctets
  <2>4. PICK A : A = Seq(Octet)
    OBVIOUS
  <2>5. l \in [1 .. n -> A]
    BY ONLY <1>l, <2>2, <2>3, <2>4
  <2> QED
    BY ONLY <2>2, <2>4, <2>5
<1>3. FlattenSeq(l) \in Seq(Octet)
  BY ONLY <1>2, FlattenTyped
<1>4. FlattenSeq(l) \o options \in Seq(Octet)
  BY ONLY <1>1, <1>3, Joined
<1>5. PayloadToBytes(p) = FlattenSeq(l) \o options
  BY ONLY <1>w, <1>l DEF PayloadToBytes
<1> QED
  BY ONLY <1>4, <1>5

LEMMA CommandWritten ==
  ASSUME NEW c \in BuiltCommand, CommandToBytes(c) # Failed
  PROVE  CommandToBytes(c) \in Seq(Octet)
<1>1. /\ c.code \in Range(SignalingCode) /\ c.identifier \in Octet
      /\ c.payload.words \in Seq(Word) /\ c.payload.options \in Seq(Octet)
      /\ c.length = Len(PayloadToBytes(c.payload))
  BY DEF BuiltCommand
<1>p. PICK p, n : p = PayloadToBytes(c.payload) /\ n = Len(p)
  OBVIOUS
<1>2. p \in Seq(Octet) /\ n \in Nat
  <2>1. p \in Seq(Octet)
    BY ONLY <1>1, <1>p, PayloadWritten
  <2> QED
    BY ONLY <1>p, <2>1
<1>k. PICK k : k = CHOOSE i \in DOMAIN SignalingCode : SignalingCode[i] = c.code
  OBVIOUS
<1>3. k \in Octet
  <2>1. \E i \in DOMAIN SignalingCode : SignalingCode[i] = c.code
    BY ONLY <1>1 DEF Range
  <2>2. k \in 1 .. 11
    BY ONLY <1>k, <2>1, CodesDiffer
  <2> QED
    BY ONLY <2>2 DEF Octet
<1>i. PICK id : id = c.identifier
  OBVIOUS
<1>r. PICK r : r = <<k, id>> \o LittleEndian(n) \o p
  OBVIOUS
<1>4. CommandToBytes(c) = Bounded(r, CommandSize)
  BY ONLY <1>1, <1>p, <1>k, <1>i, <1>r DEF CommandToBytes
<1>5. CommandToBytes(c) = r /\ Len(r) <= CommandSize
  BY ONLY <1>4, CommandToBytes(c) # Failed DEF Bounded
<1>6. n < 65536
  <2>1. Len(r) = 4 + n
    BY ONLY <1>p, <1>2, <1>r, FourMore DEF LittleEndian
  <2> QED
    BY ONLY <1>2, <1>5, <2>1, SizesAreWords
<1>7. <<k, id>> \in Seq(Octet) /\ LittleEndian(n) \in Seq(Octet)
  <2>1. n \in Word
    BY ONLY <1>2, <1>6 DEF Word
  <2>2. LittleEndian(n) \in Seq(Octet)
    BY ONLY <2>1, WordsAreTwoOctets
  <2> QED
    BY ONLY <1>1, <1>3, <1>i, <2>2, PairTyped
<1>8. r \in Seq(Octet)
  <2>1. <<k, id>> \o LittleEndian(n) \in Seq(Octet)
    BY ONLY <1>7, Joined
  <2> QED
    BY ONLY <1>2, <1>r, <2>1, Joined
<1> QED
  BY ONLY <1>5, <1>8

LEMMA MessageWritten ==
  ASSUME NEW m \in BuiltMessage, MessageEncode(m, 7) # Failed
  PROVE  MessageEncode(m, 7) \in Seq(Octet)
<1>h. PICK h, code : h = m.header /\ code = m.error_code
  OBVIOUS
<1>1. /\ h.pdu_id \in SdpPduId /\ h.transaction_id \in Word /\ h.parameter_length \in {0, 2}
      /\ code \in {0} \cup SdpErrorCode
  BY <1>h DEF BuiltMessage
<1>2. h.pdu_id \in Octet /\ h.parameter_length \in Word /\ code \in Word
  BY ONLY <1>1 DEF SdpPduId, SdpErrorCode, Octet, Word
<1>3. /\ <<h.pdu_id>> \in Seq(Octet) /\ BigEndian(h.transaction_id) \in Seq(Octet)
      /\ BigEndian(h.parameter_length) \in Seq(Octet) /\ BigEndian(code) \in Seq(Octet)
  <2>1. \A a \in Octet : <<a>> \in Seq(Octet)
    OBVIOUS
  <2> QED
    BY ONLY <1>1, <1>2, <2>1, WordsAreTwoOctets
<1>4. HeaderEncode(h) \in Seq(Octet)
  <2>1. <<h.pdu_id>> \o BigEndian(h.transaction_id) \in Seq(Octet)
    BY ONLY <1>3, Joined
  <2> QED
    BY ONLY <1>3, <2>1, Joined DEF HeaderEncode
<1>e. PICK e : e = IF h.pdu_id = ErrorPdu THEN BigEndian(code) ELSE <<>>
  OBVIOUS
<1>5. e \in Seq(Octet)
  <2>1. <<>> \in Seq(Octet)
    OBVIOUS
  <2> QED
    BY ONLY <1>3, <1>e, <2>1
<1>6. HeaderEncode(h) \o e \in Seq(Octet)
  BY ONLY <1>4, <1>5, Joined
<1>7. MessageEncode(m, 7) = HeaderEncode(h) \o e
  BY ONLY <1>h, <1>e, MessageEncode(m, 7) # Failed DEF MessageEncode
<1> QED
  BY ONLY <1>6, <1>7

LEMMA SingleTyped == ASSUME NEW a \in Octet PROVE <<a>> \in Seq(Octet)
  OBVIOUS

LEMMA AddressWritten ==
  ASSUME NEW addr, addr \in [1 .. 6 -> Octet]
  PROVE  FormatHex(addr) \in Seq(Octet)
<1>l. PICK l : l = [i \in 1 .. 6 |-> (IF i > 1 THEN <<Colon>> ELSE <<>>) \o <<addr[i] \div 16, addr[i] % 16>>]
  OBVIOUS
<1>1. ASSUME NEW i \in 1 .. 6
      PROVE  (IF i > 1 THEN <<Colon>> ELSE <<>>) \o <<addr[i] \div 16, addr[i] % 16>> \in Seq(Octet)
  <2>1. PICK q, r : q = addr[i] \div 16 /\ r = addr[i] % 16
    OBVIOUS
  <2>2. q \in Octet /\ r \in Octet
    <3>1. PICK x : x = addr[i]
      OBVIOUS
    <3>2. x \in Octet
      BY ONLY <3>1, i \in 1 .. 6, addr \in [1 .. 6 -> Octet]
    <3>3. x \in Nat /\ x < 256
      BY ONLY <3>2 DEF Octet
    <3>4. x \div 16 \in Nat /\ x \div 16 < 256 /\ x % 16 \in Nat /\ x % 16 < 256
      BY ONLY <3>3
    <3> QED
      BY ONLY <2>1, <3>1, <3>4 DEF Octet
  <2>3. <<q, r>> \in Seq(Octet)
    BY ONLY <2>2, PairTyped
  <2>4. PICK c : c = IF i > 1 THEN <<Colon>> ELSE <<>>
    OBVIOUS
  <2>5. c \in Seq(Octet)
    <3>1. Colon \in Octet
      BY ONLY DEF Colon, Octet
    <3>2. <<Colon>> \in Seq(Octet)
      BY ONLY <3>1, SingleTyped
    <3>3. <<>> \in Seq(Octet)
      OBVIOUS
    <3> QED
      BY ONLY <2>4, <3>2, <3>3
  <2>6. c \o <<q, r>> \in Seq(Octet)
    BY ONLY <2>3, <2>5, Joined
  <2> QED
    BY ONLY <2>1, <2>4, <2>6
<1>2. l \in Seq(Seq(Octet))
  <2>1. PICK A : A = Seq(Octet)
    OBVIOUS
  <2>2. PICK n \in Nat : n = 6
    OBVIOUS
  <2>3. l \in [1 .. n -> A]
    BY ONLY <1>l, <1>1, <2>1, <2>2
  <2>4. l \in Seq(A)
    BY ONLY n \in Nat, <2>3
  <2> QED
    BY ONLY <2>1, <2>4
<1>3. FlattenSeq(l) \in Seq(Octet)
  BY ONLY <1>2, FlattenTyped
<1>4. FormatHex(addr) = FlattenSeq(l)
  BY ONLY <1>l DEF FormatHex
<1> QED
  BY ONLY <1>3, <1>4

LEMMA LengthWritten ==
  ASSUME NEW n \in Octet, NEW form \in DOMAIN LengthWidth
  PROVE  LengthOctets(n, form) \in Seq(Octet)
<1>1. form = 5 \/ form = 6 \/ form = 7
  BY DEF LengthWidth
<1>2. <<n>> \in Seq(Octet)
  BY ONLY n \in Octet, SingleTyped
<1>3. BigEndian(n) \in Seq(Octet)
  <2>1. n \in Word
    BY ONLY n \in Octet DEF Octet, Word
  <2> QED
    BY ONLY <2>1, WordsAreTwoOctets
<1>4. <<0, 0>> \o BigEndian(n) \in Seq(Octet)
  <2>1. 0 \in Octet
    BY ONLY DEF Octet
  <2>2. <<0, 0>> \in Seq(Octet)
    BY ONLY <2>1, PairTyped
  <2> QED
    BY ONLY <1>3, <2>2, Joined
<1>5. CASE form = 5
  <2>1. LengthOctets(n, form) = <<n>>
    BY ONLY <1>5 DEF LengthOctets
  <2> QED
    BY ONLY <1>2, <2>1
<1>6. CASE form = 6
  <2>1. LengthOctets(n, form) = BigEndian(n)
    BY ONLY <1>6 DEF LengthOctets
  <2> QED
    BY ONLY <1>3, <2>1
<1>7. CASE form = 7
  <2>1. LengthOctets(n, form) = <<0, 0>> \o BigEndian(n)
    BY ONLY <1>7 DEF LengthOctets
  <2> QED
    BY ONLY <1>4, <2>1
<1> QED
  BY ONLY <1>1, <1>5, <1>6, <1>7

LEMMA ElementWritten ==
  ASSUME NEW e \in HeldElement, NEW form \in DOMAIN LengthWidth
  PROVE  ElementOctets(e, form) \in Seq(Octet)
<1>e. PICK v, n : v = e.value /\ n = Len(v)
  OBVIOUS
<1>1. v \in Seq(Octet) /\ n \in Octet /\ e.type \in DOMAIN Width \cup {"TextString", "UuidList"}
  BY <1>e DEF HeldElement
<1>2. CASE e.type \in DOMAIN Width
  <2>1. PICK d : d = Descriptor[e.type]
    OBVIOUS
  <2>2. d \in Octet
    <3>1. \/ e.type = "Nil" \/ e.type = "UnsignedInt8" \/ e.type = "UnsignedInt16"
          \/ e.type = "UnsignedInt32" \/ e.type = "Uuid16" \/ e.type = "Uuid32" \/ e.type = "Uuid128"
      BY ONLY <1>2 DEF Width
    <3>2. d = 0 \/ d = 8 \/ d = 9 \/ d = 10 \/ d = 25 \/ d = 26 \/ d = 28
      BY ONLY <2>1, <3>1 DEF Descriptor
    <3> QED
      BY ONLY <3>2 DEF Octet
  <2>3. <<d>> \in Seq(Octet)
    BY ONLY <2>2, SingleTyped
  <2>4. ElementOctets(e, form) = <<d>> \o v
    BY ONLY <1>e, <1>2, <2>1 DEF ElementOctets
  <2>5. <<d>> \o v \in Seq(Octet)
    BY ONLY <1>1, <2>3, Joined
  <2> QED
    BY ONLY <2>4, <2>5
<1>3. CASE e.type \notin DOMAIN Width
  <2>1. PICK t, d : t = (IF e.type = "UuidList" THEN SequenceType ELSE TextType) /\ d = 8 * t + form
    OBVIOUS
  <2>2. d \in Octet
    <3>1. form = 5 \/ form = 6 \/ form = 7
      BY DEF LengthWidth
    <3>2. t = 6 \/ t = 4
      BY ONLY <2>1 DEF SequenceType, TextType
    <3>3. d = 8 * t + form
      BY ONLY <2>1
    <3> QED
      BY ONLY <3>1, <3>2, <3>3 DEF Octet
  <2>3. PICK l : l = LengthOctets(n, form)
    OBVIOUS
  <2>4. <<d>> \in Seq(Octet) /\ l \in Seq(Octet)
    BY ONLY <1>1, <2>2, <2>3, form \in DOMAIN LengthWidth, SingleTyped, LengthWritten
  <2>5. ElementOctets(e, form) = <<d>> \o l \o v
    BY ONLY <1>e, <1>3, <2>1, <2>3 DEF ElementOctets
  <2>6. <<d>> \o l \in Seq(Octet)
    BY ONLY <2>4, Joined
  <2>7. <<d>> \o l \o v \in Seq(Octet)
    BY ONLY <1>1, <2>6, Joined
  <2> QED
    BY ONLY <2>5, <2>7
<1> QED
  BY ONLY <1>2, <1>3

LEMMA ListWritten ==
  ASSUME NEW list, list \in Seq(HeldAttribute), NEW form \in DOMAIN LengthWidth
  PROVE  ListOctets(list, form) \in Seq(Octet)
<1>l. PICK l : l = [i \in DOMAIN list |-> BigEndian(list[i].id) \o ElementOctets(list[i].value, form)]
  OBVIOUS
<1>n. PICK n : n = Len(list)
  OBVIOUS
<1>1. n \in Nat /\ DOMAIN list = 1 .. n /\ \A i \in 1 .. n : list[i] \in HeldAttribute
  BY ONLY <1>n, list \in Seq(HeldAttribute)
<1>2. ASSUME NEW i \in 1 .. n
      PROVE  BigEndian(list[i].id) \o ElementOctets(list[i].value, form) \in Seq(Octet)
  <2>1. PICK a : a = list[i]
    OBVIOUS
  <2>2. a \in HeldAttribute
    BY ONLY <1>1, <2>1, i \in 1 .. n
  <2>3. a.id \in Word /\ a.value \in HeldElement
    BY ONLY <2>2 DEF HeldAttribute
  <2>4. BigEndian(a.id) \in Seq(Octet) /\ ElementOctets(a.value, form) \in Seq(Octet)
    BY ONLY <2>3, form \in DOMAIN LengthWidth, WordsAreTwoOctets, ElementWritten
  <2>5. BigEndian(a.id) \o ElementOctets(a.value, form) \in Seq(Octet)
    BY ONLY <2>4, Joined
  <2> QED
    BY ONLY <2>1, <2>5
<1>3. l \in Seq(Seq(Octet))
  <2>1. PICK A : A = Seq(Octet)
    OBVIOUS
  <2>2. l \in [1 .. n -> A]
    BY ONLY <1>l, <1>1, <1>2, <2>1
  <2>3. l \in Seq(A)
    BY ONLY <1>1, <2>2
  <2> QED
    BY ONLY <2>1, <2>3
<1>4. FlattenSeq(l) \in Seq(Octet)
  BY ONLY <1>3, FlattenTyped
<1>5. ListOctets(list, form) = FlattenSeq(l)
  BY ONLY <1>l DEF ListOctets
<1> QED
  BY ONLY <1>4, <1>5

\* What Init chooses to send.
Chosen(s) ==
  \/ s.kind = "command" /\ s.value \in BuiltCommand /\ s.depth \in 0 .. 2
  \/ s.kind = "message" /\ s.value \in BuiltMessage /\ s.depth \in 0 .. 2
  \/ /\ s.kind = "attributes" /\ s.value \in Seq(HeldAttribute)
     /\ s.form \in DOMAIN LengthWidth /\ s.depth = 0
  \/ s.kind = "address" /\ s.value \in [1 .. 6 -> Octet] /\ s.depth = 0
  \/ s.kind = "class" /\ s.value \in [1 .. 3 -> Octet] /\ s.depth = 0

HeaderTyped(h) ==
  h \in [connection_handle : 0 .. 4095, packet_boundary : 0 .. 3, broadcast_flag : 0 .. 3,
         data_length : {0}]

LEMMA ThreeOctets ==
  ASSUME NEW s, s \in [1 .. 3 -> Octet]
  PROVE  s \in Seq(Octet) /\ DOMAIN s = 1 .. 3
<1>1. PICK n \in Nat : n = 3
  OBVIOUS
<1>2. s \in [1 .. n -> Octet]
  BY ONLY <1>1, s \in [1 .. 3 -> Octet]
<1>3. s \in Seq(Octet)
  BY ONLY n \in Nat, <1>2
<1>4. DOMAIN s = 1 .. 3
  OBVIOUS
<1> QED
  BY ONLY <1>3, <1>4

LEMMA WrittenTyped ==
  ASSUME NEW s, Chosen(s), Written(s) # Failed
  PROVE  Written(s) \in Seq(Octet) /\ (s.kind = "class" => Written(s) = s.value)
<1>w. PICK w, v : w = Written(s) /\ v = s.value
  OBVIOUS
<1>1. w # Failed
  BY ONLY <1>w, Written(s) # Failed
<1>2. CASE s.kind = "command" /\ s.value \in BuiltCommand
  <2>1. w = CommandToBytes(v)
    BY ONLY <1>w, <1>2 DEF Written
  <2>2. v \in BuiltCommand
    BY ONLY <1>w, <1>2
  <2>3. w \in Seq(Octet)
    BY ONLY <1>1, <2>1, <2>2, CommandWritten
  <2> QED
    BY ONLY <1>w, <1>2, <2>3
<1>3. CASE s.kind = "message" /\ s.value \in BuiltMessage
  <2>1. w = MessageEncode(v, 7)
    BY ONLY <1>w, <1>3 DEF Written
  <2>2. v \in BuiltMessage
    BY ONLY <1>w, <1>3
  <2>3. w \in Seq(Octet)
    BY ONLY <1>1, <2>1, <2>2, MessageWritten
  <2> QED
    BY ONLY <1>w, <1>3, <2>3
<1>4. CASE s.kind = "attributes" /\ s.value \in Seq(HeldAttribute) /\ s.form \in DOMAIN LengthWidth
  <2>1. w = ListOctets(v, s.form)
    BY ONLY <1>w, <1>4 DEF Written
  <2>2. w \in Seq(Octet)
    BY ONLY <1>w, <1>4, <2>1, ListWritten
  <2> QED
    BY ONLY <1>w, <1>4, <2>2
<1>5. CASE s.kind = "address" /\ s.value \in [1 .. 6 -> Octet]
  <2>1. w = FormatHex(v)
    BY ONLY <1>w, <1>5 DEF Written
  <2>2. w \in Seq(Octet)
    BY ONLY <1>w, <1>5, <2>1, AddressWritten
  <2> QED
    BY ONLY <1>w, <1>5, <2>2
<1>6. CASE s.kind = "class" /\ s.value \in [1 .. 3 -> Octet]
  <2>1. w = v
    BY ONLY <1>w, <1>6 DEF Written
  <2>2. w \in Seq(Octet)
    BY ONLY <1>w, <1>6, <2>1, ThreeOctets
  <2> QED
    BY ONLY <1>w, <2>1, <2>2
<1>7. Chosen(s)
  OBVIOUS
<1> QED
  BY ONLY <1>2, <1>3, <1>4, <1>5, <1>6, <1>7 DEF Chosen

LEMMA InL2capTyped ==
  ASSUME NEW octets, octets \in Seq(Octet), octets # Failed, NEW cid \in Word,
         InL2cap(octets, cid) # Failed
  PROVE  InL2cap(octets, cid) \in Seq(Octet)
<1>1. PICK n, p : n = Len(octets) /\ p = L2capPacket(cid, octets)
  OBVIOUS
<1>2. p.length = n /\ p.channel_id = cid /\ p.payload = octets
  BY ONLY <1>1 DEF L2capPacket
<1>3. PICK r : r = InL2cap(octets, cid)
  OBVIOUS
<1>4. r = L2capToBytes(p)
  BY ONLY <1>1, <1>3, octets # Failed DEF InL2cap
<1>5. PICK z : z = Packet(n, cid, octets)
  OBVIOUS
<1>6. r = Bounded(z, PacketSize)
  BY ONLY <1>2, <1>4, <1>5 DEF L2capToBytes, Packet
<1>7. Bounded(z, PacketSize) # Failed
  BY ONLY <1>3, <1>6, InL2cap(octets, cid) # Failed
<1>8. Len(octets) \in Word /\ Bounded(z, PacketSize) = z
  <2>1. PacketSize \in Word
    BY SignalingWireAssumption
  <2> QED
    BY ONLY <1>5, <1>7, <2>1, octets \in Seq(Octet), PacketFits
<1>9. n \in Word
  BY ONLY <1>1, <1>8
<1>10. z \in Seq(Octet)
  BY ONLY <1>5, <1>9, octets \in Seq(Octet), cid \in Word, PacketTyped
<1> QED
  BY ONLY <1>3, <1>6, <1>8, <1>10

LEMMA InAclTyped ==
  ASSUME NEW octets, octets \in Seq(Octet), octets # Failed, HeaderTyped(header),
         InAcl(octets) # Failed
  PROVE  InAcl(octets) \in Seq(Octet)
<1>1. PICK n, g : n = Len(octets) /\ g = [header EXCEPT !.data_length = Len(octets)]
  OBVIOUS
<1>2. PICK a, b, c : a = header.connection_handle /\ b = header.packet_boundary
                       /\ c = header.broadcast_flag
  OBVIOUS
<1>3. g.connection_handle = a /\ g.packet_boundary = b /\ g.broadcast_flag = c /\ g.data_length = n
  BY <1>1, <1>2 DEF HeaderTyped
<1>4. PICK flags : flags = a + 4096 * b + 16384 * c
  OBVIOUS
<1>5. flags \in Word
  <2>1. a \in Nat /\ a < 4096 /\ b \in Nat /\ b < 4 /\ c \in Nat /\ c < 4
    <3>1. a \in 0 .. 4095 /\ b \in 0 .. 3 /\ c \in 0 .. 3
      BY <1>2 DEF HeaderTyped
    <3> QED
      BY ONLY <3>1
  <2>2. flags \in Nat /\ flags < 65536
    BY ONLY <1>4, <2>1
  <2> QED
    BY ONLY <2>2 DEF Word
<1>6. PICK p : p = AclPacket(g, octets)
  OBVIOUS
<1>7. p.header = g /\ p.data = octets
  BY ONLY <1>6 DEF AclPacket
<1>8. PICK r : r = InAcl(octets)
  OBVIOUS
<1>9. r = AclToBytes(p)
  BY ONLY <1>1, <1>6, <1>8, octets # Failed DEF InAcl
<1>10. PICK z : z = Packet(flags, n, octets)
  OBVIOUS
<1>11. r = Bounded(z, DataSize)
  BY ONLY <1>3, <1>4, <1>7, <1>9, <1>10 DEF AclToBytes, Packet
<1>12. Bounded(z, DataSize) # Failed
  BY ONLY <1>8, <1>11, InAcl(octets) # Failed
<1>13. Len(octets) \in Word /\ Bounded(z, DataSize) = z
  <2>1. DataSize \in Word
    BY SignalingWireAssumption
  <2> QED
    BY ONLY <1>10, <1>12, <2>1, octets \in Seq(Octet), PacketFits
<1>14. n \in Word
  BY ONLY <1>1, <1>13
<1>15. z \in Seq(Octet)
  BY ONLY <1>5, <1>10, <1>14, octets \in Seq(Octet), PacketTyped
<1> QED
  BY ONLY <1>8, <1>11, <1>13, <1>15

\* What is sent is octets, and the class of a device is its three.
LEMMA FramedTyped ==
  ASSUME NEW s, Chosen(s), HeaderTyped(header), Framed(s) # Failed
  PROVE  Framed(s) \in Seq(Octet) /\ (s.kind = "class" => Framed(s) \in [1 .. 3 -> Octet])
<1>1. PICK w, cid : w = Written(s) /\ cid = IF s.kind = "command" THEN Signaling ELSE SdpCid
  OBVIOUS
<1>2. cid \in Word
  <2>1. Signaling \in Word
    BY ONLY DEF Signaling, Word
  <2>2. SdpCid \in Word
    BY FormatsAssumption
  <2> QED
    BY ONLY <1>1, <2>1, <2>2
<1>3. PICK p : p = InL2cap(w, cid)
  OBVIOUS
<1>4. PICK q : q = InAcl(p)
  OBVIOUS
<1>5. Framed(s) = CASE s.depth = 0 -> w [] s.depth = 1 -> p [] s.depth = 2 -> q
  BY ONLY <1>1, <1>3, <1>4 DEF Framed
<1>6. w # Failed => w \in Seq(Octet) /\ (s.kind = "class" => w = s.value)
  BY ONLY <1>1, Chosen(s), WrittenTyped
<1>7. p # Failed => w # Failed /\ p \in Seq(Octet)
  <2>1. p # Failed => w # Failed
    BY ONLY <1>3 DEF InL2cap
  <2> QED
    BY ONLY <1>2, <1>3, <1>6, <2>1, InL2capTyped
<1>8. q # Failed => p # Failed /\ q \in Seq(Octet)
  <2>1. q # Failed => p # Failed
    BY ONLY <1>4 DEF InAcl
  <2> QED
    BY ONLY <1>4, <1>7, <2>1, HeaderTyped(header), InAclTyped
<1>9. /\ s.depth = 0 \/ s.depth = 1 \/ s.depth = 2
      /\ s.kind = "class" => s.depth = 0 /\ s.value \in [1 .. 3 -> Octet]
  BY Chosen(s) DEF Chosen
<1>10. CASE s.depth = 0
  <2>1. Framed(s) = w
    BY ONLY <1>5, <1>10
  <2> QED
    BY ONLY <1>6, <1>9, <2>1, Framed(s) # Failed
<1>11. CASE s.depth = 1
  <2>1. Framed(s) = p
    BY ONLY <1>5, <1>11
  <2> QED
    BY ONLY <1>7, <1>9, <1>11, <2>1, Framed(s) # Failed
<1>12. CASE s.depth = 2
  <2>1. Framed(s) = q
    BY ONLY <1>5, <1>12
  <2> QED
    BY ONLY <1>8, <1>9, <1>12, <2>1, Framed(s) # Failed
<1> QED
  BY ONLY <1>9, <1>10, <1>11, <1>12

-----------------------------------------------------------------------------
(* The invariant.                                                          *)

\* Around a command or a message there may be packets; anything else comes as it is.
Layered ==
  \/ layer = sent.kind
  \/ layer \in {"acl", "l2cap", "command"} /\ sent.kind \in {"command", "message"}

\* Octets in every layer, three of them for the class of a device.
Carried ==
  /\ data \in Seq(Octet)
  /\ status \in {"carried", "reading", "done", "stopped"} /\ sent.kind = "class" =>
       data \in [1 .. 3 -> Octet]

\* The parser of attributes starts when the octets have arrived, and keeps what it has read.
Parsed ==
  /\ position \in 0 .. Len(data)
  /\ status \in {"ready", "carried"} \/ layer # "attributes" => position = 0
  /\ layer = "attributes" =>
       got \in Seq(Range(got)) /\ \A i \in DOMAIN got : ElementTyped(got[i].value)

\* Nothing is read of a packet but what is in it.
Refused == status = "done" /\ layer \in {"acl", "l2cap"} => got = Failed

ReadTyped ==
  status = "done" /\ got \notin {Failed, None} =>
    /\ layer = "command" => CommandTyped(got)
    /\ layer = "message" => MessageTyped(got)
    /\ layer = "address" => got \in [1 .. 6 -> Octet]
    /\ layer = "class" => ClassTyped(got)

IndInv ==
  /\ Chosen(sent) /\ HeaderTyped(header)
  /\ Layered /\ Carried /\ Parsed /\ Refused /\ ReadTyped

LEMMA KindIs ==
  ASSUME NEW s, Chosen(s)
  PROVE  s.kind \in {"command", "message", "attributes", "address", "class"}
  BY DEF Chosen

LEMMA KeptByAppend ==
  ASSUME NEW q, NEW x, q \in Seq(Range(q)), \A i \in DOMAIN q : ElementTyped(q[i].value),
         ElementTyped(x.value)
  PROVE  LET r == Append(q, x)
         IN r \in Seq(Range(r)) /\ \A i \in DOMAIN r : ElementTyped(r[i].value)
<1>n. PICK n, r, T : n = Len(q) /\ r = Append(q, x) /\ T = Range(q) \cup {x}
  OBVIOUS
<1>1. q \in Seq(T) /\ x \in T
  <2>1. Range(q) \subseteq T /\ x \in T
    BY ONLY <1>n
  <2> QED
    BY ONLY <2>1, q \in Seq(Range(q)), SeqMonotonic
<1>2. /\ n \in Nat /\ DOMAIN q = 1 .. n /\ DOMAIN r = 1 .. n + 1 /\ Len(r) = n + 1
      /\ r[n + 1] = x /\ \A i \in 1 .. n : r[i] = q[i]
  BY ONLY <1>n, <1>1
<1>3. \A i \in 1 .. n + 1 : i \in 1 .. n \/ i = n + 1
  BY ONLY <1>2
<1>4. \A i \in DOMAIN r : ElementTyped(r[i].value)
  BY ONLY <1>2, <1>3, ElementTyped(x.value), \A i \in DOMAIN q : ElementTyped(q[i].value)
<1>5. r \in Seq(Range(r))
  <2>1. r \in Seq(T)
    BY ONLY <1>n, <1>1
  <2>2. PICK m, U : m = n + 1 /\ U = Range(r)
    OBVIOUS
  <2>3. r \in [1 .. m -> T] /\ m \in Nat
    BY ONLY <1>2, <2>1, <2>2
  <2>4. \A i \in 1 .. m : r[i] \in U
    BY ONLY <1>2, <2>2 DEF Range
  <2>5. r \in [1 .. m -> U]
    BY ONLY <2>3, <2>4
  <2>6. r \in Seq(U)
    BY ONLY <2>3, <2>5
  <2> QED
    BY ONLY <2>2, <2>6
<1> QED
  BY ONLY <1>n, <1>4, <1>5

LEMMA EmptyKept ==
  /\ <<>> \in Seq(Range(<<>>)) /\ \A i \in DOMAIN <<>> : ElementTyped(<<>>[i].value)
  /\ <<>> \in Seq(Octet) /\ 0 \in 0 .. Len(<<>>)
  OBVIOUS

LEMMA InitInv == Init => IndInv
<1> SUFFICES ASSUME Init PROVE IndInv
  OBVIOUS
<1>1. Chosen(sent)
  <2>1. ASSUME NEW c \in Commands, NEW depth \in 0 .. 2, Sent("command", c, 0, depth)
        PROVE  Chosen(sent)
    <3>1. c \in BuiltCommand
      BY FormatsAssumption
    <3> QED
      BY <2>1, <3>1 DEF Sent, Chosen
  <2>2. ASSUME NEW m \in Messages, NEW depth \in 0 .. 2, Sent("message", m, 0, depth)
        PROVE  Chosen(sent)
    <3>1. m \in BuiltMessage
      BY FormatsAssumption
    <3> QED
      BY <2>2, <3>1 DEF Sent, Chosen
  <2>3. ASSUME NEW list \in AttributeLists, NEW form \in DOMAIN LengthWidth,
               Sent("attributes", list, form, 0)
        PROVE  Chosen(sent)
    <3>1. list \in Seq(HeldAttribute)
      BY FormatsAssumption
    <3> QED
      BY <2>3, <3>1 DEF Sent, Chosen
  <2>4. ASSUME NEW a \in Addresses, Sent("address", a, 0, 0)
        PROVE  Chosen(sent)
    <3>1. a \in [1 .. 6 -> Octet]
      BY FormatsAssumption
    <3> QED
      BY <2>4, <3>1 DEF Sent, Chosen
  <2>5. ASSUME NEW c \in DeviceClasses, Sent("class", c, 0, 0)
        PROVE  Chosen(sent)
    <3>1. c \in [1 .. 3 -> Octet]
      BY FormatsAssumption
    <3> QED
      BY <2>5, <3>1 DEF Sent, Chosen
  <2> QED
    BY <2>1, <2>2, <2>3, <2>4, <2>5 DEF Init
<1>2. HeaderTyped(header)
  BY FormatsAssumption DEF Init, HeaderTyped
<1>3. /\ status = "ready" /\ layer = Outermost(sent) /\ data = <<>> /\ got = <<>>
      /\ position = 0
  BY DEF Init
<1>4. Layered
  <2>1. \/ sent.depth = 0
        \/ sent.depth = 1 /\ sent.kind \in {"command", "message"}
        \/ sent.depth = 2 /\ sent.kind \in {"command", "message"}
    BY ONLY <1>1 DEF Chosen
  <2>2. CASE sent.depth = 0
    BY ONLY <1>3, <2>2 DEF Layered, Outermost
  <2>3. CASE sent.depth = 1 /\ sent.kind \in {"command", "message"}
    BY ONLY <1>3, <2>3 DEF Layered, Outermost
  <2>4. CASE sent.depth = 2 /\ sent.kind \in {"command", "message"}
    BY ONLY <1>3, <2>4 DEF Layered, Outermost
  <2> QED
    BY ONLY <2>1, <2>2, <2>3, <2>4
<1>5. Carried
  BY ONLY <1>3, EmptyKept DEF Carried
<1>6. Parsed
  BY ONLY <1>3, EmptyKept DEF Parsed
<1>7. Refused /\ ReadTyped
  BY ONLY <1>3 DEF Refused, ReadTyped
<1> QED
  BY ONLY <1>1, <1>2, <1>4, <1>5, <1>6, <1>7 DEF IndInv

LEMMA WriteInv == IndInv /\ Write => IndInv'
<1> SUFFICES ASSUME IndInv, Write PROVE IndInv'
  OBVIOUS
<1>1. /\ Chosen(sent) /\ HeaderTyped(header)
      /\ Layered /\ Carried /\ Parsed /\ Refused /\ ReadTyped
  BY DEF IndInv
<1>2. /\ status = "ready"
      /\ sent' = sent /\ header' = header /\ layer' = layer /\ got' = got /\ position' = position
  BY DEF Write
<1>3. status' \in {"refused", "carried"}
  BY DEF Write
<1>4. Carried'
  <2>1. CASE Framed(sent) = Failed
    <3>1. status' = "refused" /\ data' = data
      BY <2>1 DEF Write
    <3> QED
      BY ONLY <1>1, <1>2, <3>1 DEF Carried
  <2>2. CASE Framed(sent) # Failed
    <3>1. data' = Framed(sent)
      BY <2>2 DEF Write
    <3>2. Framed(sent) \in Seq(Octet)
          /\ (sent.kind = "class" => Framed(sent) \in [1 .. 3 -> Octet])
      BY ONLY <1>1, <2>2, FramedTyped
    <3> QED
      BY ONLY <1>2, <3>1, <3>2 DEF Carried
  <2> QED
    BY ONLY <2>1, <2>2
<1>5. Parsed'
  <2>1. position' = 0
    BY ONLY <1>1, <1>2 DEF Parsed
  <2>2. 0 \in 0 .. Len(data')
    BY ONLY <1>4 DEF Carried
  <2> QED
    BY ONLY <1>1, <1>2, <2>1, <2>2 DEF Parsed
<1>6. Layered' /\ Chosen(sent') /\ HeaderTyped(header')
  BY ONLY <1>1, <1>2 DEF Layered
<1>7. Refused' /\ ReadTyped'
  BY ONLY <1>3 DEF Refused, ReadTyped
<1> QED
  BY ONLY <1>4, <1>5, <1>6, <1>7 DEF IndInv

\* Whatever happens on the way leaves octets, and three of the class of a device.
LEMMA ArriveInv ==
  ASSUME NEW what, NEW octets, octets \in Seq(Octet),
         sent.kind = "class" => octets \in [1 .. 3 -> Octet],
         IndInv, Arrive(what, octets)
  PROVE  IndInv'
<1>1. /\ Chosen(sent) /\ HeaderTyped(header)
      /\ Layered /\ Carried /\ Parsed /\ Refused /\ ReadTyped
  BY DEF IndInv
<1>2. /\ status = "carried" /\ status' = "reading" /\ data' = octets
      /\ sent' = sent /\ header' = header /\ layer' = layer /\ got' = got /\ position' = position
  BY DEF Arrive
<1>3. Carried'
  BY ONLY <1>2, octets \in Seq(Octet), sent.kind = "class" => octets \in [1 .. 3 -> Octet]
  DEF Carried
<1>4. Parsed'
  <2>1. position' = 0
    BY ONLY <1>1, <1>2 DEF Parsed
  <2>2. 0 \in 0 .. Len(data')
    BY ONLY <1>3 DEF Carried
  <2> QED
    BY ONLY <1>1, <1>2, <2>1, <2>2 DEF Parsed
<1>5. Layered' /\ Chosen(sent') /\ HeaderTyped(header')
  BY ONLY <1>1, <1>2 DEF Layered
<1>6. Refused' /\ ReadTyped'
  BY ONLY <1>2 DEF Refused, ReadTyped
<1> QED
  BY ONLY <1>3, <1>4, <1>5, <1>6 DEF IndInv

LEMMA CarryInv ==
  ASSUME IndInv,
         \/ Whole \/ Padded
         \/ \E n \in 0 .. Len(data) - 1 : Cut(n)
         \/ \E i \in DOMAIN data, octet \in DamagedOctets : Damaged(i, octet)
  PROVE  IndInv'
<1>1. IndInv
  OBVIOUS
<1>2. data \in Seq(Octet) /\ (status = "carried" /\ sent.kind = "class" => data \in [1 .. 3 -> Octet])
  BY ONLY <1>1 DEF IndInv, Carried
<1>3. CASE Whole
  <2>1. Arrive("none", data) /\ status = "carried"
    BY ONLY <1>3 DEF Whole, Arrive
  <2> QED
    BY ONLY <1>1, <1>2, <2>1, ArriveInv
<1>4. CASE Padded
  <2>1. sent.kind # "class" /\ Arrive("padded", data \o Padding)
    BY ONLY <1>4 DEF Padded
  <2>2. Padding \in Seq(Octet)
    BY FormatsAssumption
  <2>3. data \o Padding \in Seq(Octet)
    BY ONLY <1>2, <2>2, Joined
  <2> QED
    BY ONLY <1>1, <2>1, <2>3, ArriveInv
<1>5. ASSUME NEW n \in 0 .. Len(data) - 1, Cut(n)
      PROVE  IndInv'
  <2>1. sent.kind # "class" /\ Arrive("cut", SubSeq(data, 1, n))
    BY ONLY <1>5 DEF Cut
  <2>2. SubSeq(data, 1, n) \in Seq(Octet)
    <3>1. n \in Nat /\ n <= Len(data)
      BY ONLY <1>2, n \in 0 .. Len(data) - 1
    <3> QED
      BY ONLY <1>2, <3>1
  <2> QED
    BY ONLY <1>1, <2>1, <2>2, ArriveInv
<1>6. ASSUME NEW i \in DOMAIN data, NEW octet \in DamagedOctets, Damaged(i, octet)
      PROVE  IndInv'
  <2>1. PICK d : d = [data EXCEPT ![i] = octet]
    OBVIOUS
  <2>2. Arrive("damaged", d) /\ status = "carried"
    BY ONLY <1>6, <2>1 DEF Damaged, Arrive
  <2>3. octet \in Octet
    BY FormatsAssumption
  <2>4. d \in Seq(Octet)
    BY ONLY <1>2, <2>1, <2>3
  <2>5. sent.kind = "class" => d \in [1 .. 3 -> Octet]
    BY ONLY <1>2, <2>1, <2>2, <2>3
  <2> QED
    BY ONLY <1>1, <2>2, <2>4, <2>5, ArriveInv
<1> QED
  BY <1>3, <1>4, <1>5, <1>6

\* The end of the reading, with a value that fits its layer.
LEMMA FinishInv ==
  ASSUME NEW value, IndInv, Finish(value), status = "reading",
         layer \in {"acl", "l2cap"} => value = Failed,
         layer = "attributes" => value = got,
         layer = "command" /\ value # Failed => CommandTyped(value),
         layer = "message" /\ value # Failed => MessageTyped(value),
         layer = "address" /\ value # Failed => value \in [1 .. 6 -> Octet],
         layer = "class" /\ value # None => ClassTyped(value)
  PROVE  IndInv'
<1>1. /\ Chosen(sent) /\ HeaderTyped(header)
      /\ Layered /\ Carried /\ Parsed /\ Refused /\ ReadTyped
  BY DEF IndInv
<1>2. /\ status = "reading" /\ status' = "done" /\ got' = value
      /\ sent' = sent /\ header' = header /\ layer' = layer /\ data' = data
      /\ position' = position
  BY DEF Finish
<1>3. Carried' /\ Layered' /\ Chosen(sent') /\ HeaderTyped(header')
  BY ONLY <1>1, <1>2 DEF Layered, Carried
<1>4. Parsed'
  <2>1. layer = "attributes" => value = got
    OBVIOUS
  <2>2. layer # "attributes" => position = 0
    BY ONLY <1>1 DEF Parsed
  <2> QED
    BY ONLY <1>1, <1>2, <2>1, <2>2 DEF Parsed
<1>5. Refused'
  <2>1. layer \in {"acl", "l2cap"} => value = Failed
    OBVIOUS
  <2> QED
    BY ONLY <1>2, <2>1 DEF Refused
<1>6. ReadTyped'
  <2>1. /\ layer = "command" /\ value # Failed => CommandTyped(value)
        /\ layer = "message" /\ value # Failed => MessageTyped(value)
        /\ layer = "address" /\ value # Failed => value \in [1 .. 6 -> Octet]
        /\ layer = "class" /\ value # None => ClassTyped(value)
    OBVIOUS
  <2> QED
    BY ONLY <1>2, <2>1 DEF ReadTyped
<1> QED
  BY ONLY <1>3, <1>4, <1>5, <1>6 DEF IndInv

LEMMA EnterInv ==
  ASSUME NEW next, NEW octets, octets \in Seq(Octet), IndInv, Enter(next, octets),
         status = "reading", layer \in {"acl", "l2cap"}, sent.kind \in {"command", "message"},
         next \in {"l2cap", "command", sent.kind}
  PROVE  IndInv'
<1>1. /\ Chosen(sent) /\ HeaderTyped(header)
      /\ Layered /\ Carried /\ Parsed /\ Refused /\ ReadTyped
  BY DEF IndInv
<1>2. /\ status = "reading" /\ status' = status /\ layer' = next /\ data' = octets
      /\ sent' = sent /\ header' = header /\ got' = got /\ position' = position
  BY DEF Enter
<1>3. /\ layer \in {"acl", "l2cap"} /\ sent.kind \in {"command", "message"}
      /\ next \in {"l2cap", "command", sent.kind}
  OBVIOUS
<1>4. Carried' /\ Layered' /\ Chosen(sent') /\ HeaderTyped(header')
  BY ONLY <1>1, <1>2, <1>3, octets \in Seq(Octet) DEF Layered, Carried
<1>5. Parsed'
  <2>1. position' = 0
    BY ONLY <1>1, <1>2, <1>3 DEF Parsed
  <2>2. 0 \in 0 .. Len(data')
    BY ONLY <1>4 DEF Carried
  <2>3. layer' # "attributes"
    BY ONLY <1>2, <1>3
  <2> QED
    BY ONLY <1>1, <1>2, <2>1, <2>2, <2>3 DEF Parsed
<1>6. Refused' /\ ReadTyped'
  BY ONLY <1>2 DEF Refused, ReadTyped
<1> QED
  BY ONLY <1>4, <1>5, <1>6 DEF IndInv

LEMMA SignalingIsNotSdp == Signaling # SdpCid
  BY FormatsAssumption DEF Signaling

LEMMA ReceivePacketInv == IndInv /\ (ReceiveAcl \/ ReceiveL2cap) => IndInv'
<1> SUFFICES ASSUME IndInv, ReceiveAcl \/ ReceiveL2cap PROVE IndInv'
  OBVIOUS
<1>1. IndInv
  OBVIOUS
<1>2. data \in Seq(Octet) /\ Layered
  BY ONLY <1>1 DEF IndInv, Carried
<1>3. CASE ReceiveAcl
  <2>1. status = "reading" /\ layer = "acl" /\ sent.kind \in {"command", "message"}
    <3>1. status = "reading" /\ layer = "acl"
      BY ONLY <1>3 DEF ReceiveAcl, Reading
    <3>2. sent.kind \in {"command", "message", "attributes", "address", "class"}
      BY ONLY <1>1, KindIs DEF IndInv
    <3> QED
      BY ONLY <1>2, <3>1, <3>2 DEF Layered
  <2>2. PICK p : p = AclFromBytes(data)
    OBVIOUS
  <2>3. IF p = Failed THEN Finish(Failed) ELSE Enter("l2cap", p.data)
    BY ONLY <1>3, <2>2 DEF ReceiveAcl
  <2>4. CASE p = Failed
    <3>1. Finish(Failed)
      BY ONLY <2>3, <2>4
    <3> QED
      BY ONLY <1>1, <2>1, <3>1, FinishInv
  <2>5. CASE p # Failed
    <3>1. Enter("l2cap", p.data)
      BY ONLY <2>3, <2>5
    <3>2. p.data \in Seq(Octet)
      BY ONLY <1>2, <2>2, <2>5, AclIsThere
    <3> QED
      BY ONLY <1>1, <2>1, <3>1, <3>2, EnterInv
  <2> QED
    BY ONLY <2>4, <2>5
<1>4. CASE ReceiveL2cap
  <2>1. status = "reading" /\ layer = "l2cap" /\ sent.kind \in {"command", "message"}
    <3>1. status = "reading" /\ layer = "l2cap"
      BY ONLY <1>4 DEF ReceiveL2cap, Reading
    <3>2. sent.kind \in {"command", "message", "attributes", "address", "class"}
      BY ONLY <1>1, KindIs DEF IndInv
    <3> QED
      BY ONLY <1>2, <3>1, <3>2 DEF Layered
  <2>2. PICK p : p = L2capFromBytes(data)
    OBVIOUS
  <2>3. \/ p # Failed /\ Enter("command", p.payload)
        \/ p # Failed /\ Enter(sent.kind, p.payload)
        \/ Finish(Failed)
    BY ONLY <1>4, <2>2, SignalingIsNotSdp DEF ReceiveL2cap
  <2>4. p # Failed => p.payload \in Seq(Octet)
    BY ONLY <1>2, <2>2, L2capIsThere
  <2>5. CASE p # Failed /\ Enter("command", p.payload)
    BY ONLY <1>1, <2>1, <2>4, <2>5, EnterInv
  <2>6. CASE p # Failed /\ Enter(sent.kind, p.payload)
    <3>1. PICK next : next = sent.kind
      OBVIOUS
    <3>2. Enter(next, p.payload) /\ next \in {"l2cap", "command", sent.kind}
      BY ONLY <2>6, <3>1
    <3> QED
      BY ONLY <1>1, <2>1, <2>4, <2>6, <3>2, EnterInv
  <2>7. CASE Finish(Failed)
    BY ONLY <1>1, <2>1, <2>7, FinishInv
  <2> QED
    BY ONLY <2>3, <2>5, <2>6, <2>7
<1> QED
  BY ONLY <1>3, <1>4, ReceiveAcl \/ ReceiveL2cap

LEMMA ReceiveValueInv ==
  IndInv /\ (ReceiveCommand \/ ReceiveMessage \/ ReceiveAddress \/ ReceiveClass) => IndInv'
<1> SUFFICES ASSUME IndInv, ReceiveCommand \/ ReceiveMessage \/ ReceiveAddress \/ ReceiveClass
    PROVE  IndInv'
  OBVIOUS
<1>1. IndInv
  OBVIOUS
<1>2. data \in Seq(Octet) /\ Layered
  BY ONLY <1>1 DEF IndInv, Carried
<1>3. CASE ReceiveCommand
  <2>1. PICK v : v = CommandFromBytes(data)
    OBVIOUS
  <2>2. status = "reading" /\ layer = "command" /\ Finish(v)
    BY ONLY <1>3, <2>1 DEF ReceiveCommand, Reading
  <2>3. v # Failed => CommandTyped(v)
    BY ONLY <1>2, <2>1, CommandIsThere
  <2> QED
    BY ONLY <1>1, <2>2, <2>3, FinishInv
<1>4. CASE ReceiveMessage
  <2>1. PICK v : v = ParseMessage(data)
    OBVIOUS
  <2>2. status = "reading" /\ layer = "message" /\ Finish(v)
    BY ONLY <1>4, <2>1 DEF ReceiveMessage, Reading
  <2>3. v # Failed => MessageTyped(v)
    BY ONLY <1>2, <2>1, MessageIsThere
  <2> QED
    BY ONLY <1>1, <2>2, <2>3, FinishInv
<1>5. CASE ReceiveAddress
  <2>1. PICK v : v = FromHex(data)
    OBVIOUS
  <2>2. status = "reading" /\ layer = "address" /\ Finish(v)
    BY ONLY <1>5, <2>1 DEF ReceiveAddress, Reading
  <2>3. v # Failed => v \in [1 .. 6 -> Octet]
    BY ONLY <1>2, <2>1, AddressIsThere
  <2> QED
    BY ONLY <1>1, <2>2, <2>3, FinishInv
<1>6. CASE ReceiveClass
  <2>1. PICK v : v = ParseClassOfDevice(data)
    OBVIOUS
  <2>2. status = "reading" /\ layer = "class" /\ Finish(v)
    BY ONLY <1>6, <2>1 DEF ReceiveClass, Reading
  <2>3. sent.kind = "class"
    BY ONLY <1>2, <2>2 DEF Layered
  <2>4. data \in [1 .. 3 -> Octet]
    BY ONLY <1>1, <2>2, <2>3 DEF IndInv, Carried
  <2>5. v # None => ClassTyped(v)
    BY ONLY <2>1, <2>4, ClassIsThere
  <2> QED
    BY ONLY <1>1, <2>2, <2>5, FinishInv
<1> QED
  BY ONLY <1>3, <1>4, <1>5, <1>6, ReceiveCommand \/ ReceiveMessage \/ ReceiveAddress \/ ReceiveClass

LEMMA NextAttributeInv == IndInv /\ NextAttribute => IndInv'
<1> SUFFICES ASSUME IndInv, NextAttribute PROVE IndInv'
  OBVIOUS
<1>1. IndInv /\ NextAttribute
  OBVIOUS
<1>2. /\ Chosen(sent) /\ HeaderTyped(header)
      /\ Layered /\ Carried /\ Parsed /\ Refused /\ ReadTyped
  BY ONLY <1>1 DEF IndInv
<1>3. status = "reading" /\ layer = "attributes"
  BY ONLY <1>1 DEF NextAttribute, Reading
<1>4. CASE AtEnd
  <2>1. PICK v : v = got
    OBVIOUS
  <2>2. Finish(v)
    BY ONLY <1>1, <1>4, <2>1 DEF NextAttribute
  <2> QED
    BY ONLY <1>1, <1>3, <2>1, <2>2, FinishInv
<1>5. CASE ~AtEnd
  <2>1. PICK r : r = ReadAttribute(data, position)
    OBVIOUS
  <2>2. /\ position' = r.position
        /\ status' = (IF r.value \in {Failed, Panicked} THEN "stopped" ELSE "reading")
        /\ got' = (IF r.value \in {Failed, Panicked} THEN got ELSE Append(got, r.value))
        /\ sent' = sent /\ header' = header /\ layer' = layer /\ data' = data
    BY ONLY <1>1, <1>5, <2>1 DEF NextAttribute
  <2>3. /\ r.position \in 0 .. Len(data)
        /\ r.value \notin {Failed, Panicked} => ElementTyped(r.value.value)
    <3>1. data \in Seq(Octet) /\ position \in 0 .. Len(data)
      BY ONLY <1>2 DEF Carried, Parsed
    <3> QED
      BY ONLY <2>1, <3>1, AttributeSound
  <2>4. status' \in {"reading", "stopped"}
    BY ONLY <2>2
  <2>5. Carried' /\ Layered' /\ Chosen(sent') /\ HeaderTyped(header')
    BY ONLY <1>2, <1>3, <2>2, <2>4 DEF Layered, Carried
  <2>6. got \in Seq(Range(got)) /\ \A i \in DOMAIN got : ElementTyped(got[i].value)
    BY ONLY <1>2, <1>3 DEF Parsed
  <2>7. got' \in Seq(Range(got')) /\ \A i \in DOMAIN got' : ElementTyped(got'[i].value)
    <3>1. CASE r.value \in {Failed, Panicked}
      BY ONLY <2>2, <2>6, <3>1
    <3>2. CASE r.value \notin {Failed, Panicked}
      <4>1. PICK q, x : q = got /\ x = r.value
        OBVIOUS
      <4>2. q \in Seq(Range(q)) /\ (\A i \in DOMAIN q : ElementTyped(q[i].value))
            /\ ElementTyped(x.value)
        BY ONLY <2>3, <2>6, <3>2, <4>1
      <4>3. PICK a : a = Append(q, x)
        OBVIOUS
      <4>4. a \in Seq(Range(a)) /\ \A i \in DOMAIN a : ElementTyped(a[i].value)
        BY ONLY <4>2, <4>3, KeptByAppend
      <4>5. got' = a
        BY ONLY <2>2, <3>2, <4>1, <4>3
      <4> QED
        BY ONLY <4>4, <4>5
    <3> QED
      BY ONLY <3>1, <3>2
  <2>8. Parsed'
    BY ONLY <1>3, <2>2, <2>3, <2>4, <2>7 DEF Parsed
  <2>9. Refused' /\ ReadTyped'
    BY ONLY <2>4 DEF Refused, ReadTyped
  <2> QED
    BY ONLY <2>5, <2>8, <2>9 DEF IndInv
<1> QED
  BY ONLY <1>4, <1>5

LEMMA NextInv == IndInv /\ [Next]_vars => IndInv'
<1> SUFFICES ASSUME IndInv, [Next]_vars PROVE IndInv'
  OBVIOUS
<1>1. IndInv
  OBVIOUS
<1>2. CASE UNCHANGED vars
  <2>1. /\ sent' = sent /\ header' = header /\ status' = status /\ layer' = layer
        /\ data' = data /\ got' = got /\ position' = position
    BY ONLY <1>2 DEF vars
  <2> QED
    BY ONLY <1>1, <2>1 DEF IndInv, Layered, Carried, Parsed, Refused, ReadTyped
<1>3. CASE Write
  BY ONLY <1>1, <1>3, WriteInv
<1>4. CASE \/ Whole \/ Padded
           \/ \E n \in 0 .. Len(data) - 1 : Cut(n)
           \/ \E i \in DOMAIN data, octet \in DamagedOctets : Damaged(i, octet)
  BY ONLY <1>1, <1>4, CarryInv
<1>5. CASE ReceiveAcl \/ ReceiveL2cap
  BY ONLY <1>1, <1>5, ReceivePacketInv
<1>6. CASE ReceiveCommand \/ ReceiveMessage \/ ReceiveAddress \/ ReceiveClass
  BY ONLY <1>1, <1>6, ReceiveValueInv
<1>7. CASE NextAttribute
  BY ONLY <1>1, <1>7, NextAttributeInv
<1>8. [Next]_vars
  OBVIOUS
<1> QED
  BY ONLY <1>2, <1>3, <1>4, <1>5, <1>6, <1>7, <1>8 DEF Next

LEMMA IndInvHolds == Spec => []IndInv
  BY InitInv, NextInv, PTL DEF Spec

\* Every reader of this host returns a value its type admits, and the attribute parser stays
\* within its data, whatever octets arrive.
THEOREM ReadersTyped == Spec => []TypeOK
<1>1. IndInv => TypeOK
  <2> SUFFICES ASSUME IndInv PROVE TypeOK
    OBVIOUS
  <2>1. /\ Chosen(sent) /\ Layered /\ Parsed /\ Refused /\ ReadTyped
    BY DEF IndInv
  <2>2. position \in 0 .. Len(data)
    BY ONLY <2>1 DEF Parsed
  <2>3. ASSUME status = "done", got \notin {Failed, None}
        PROVE  CASE layer = "command" -> CommandTyped(got)
                 [] layer = "message" -> MessageTyped(got)
                 [] layer = "attributes" -> \A i \in DOMAIN got : ElementTyped(got[i].value)
                 [] layer = "address" -> got \in [1 .. 6 -> Octet]
                 [] layer = "class" -> ClassTyped(got)
    <3>1. sent.kind \in {"command", "message", "attributes", "address", "class"}
      BY ONLY <2>1, KindIs
    <3>2. layer \in {"command", "message", "attributes", "address", "class"}
      BY ONLY <2>1, <2>3, <3>1 DEF Layered, Refused
    <3>3. CASE layer = "command"
      BY ONLY <2>1, <2>3, <3>3 DEF ReadTyped
    <3>4. CASE layer = "message"
      BY ONLY <2>1, <2>3, <3>4 DEF ReadTyped
    <3>5. CASE layer = "attributes"
      BY ONLY <2>1, <2>3, <3>5 DEF Parsed
    <3>6. CASE layer = "address"
      BY ONLY <2>1, <2>3, <3>6 DEF ReadTyped
    <3>7. CASE layer = "class"
      BY ONLY <2>1, <2>3, <3>7 DEF ReadTyped
    <3> QED
      BY ONLY <3>2, <3>3, <3>4, <3>5, <3>6, <3>7
  <2> QED
    BY ONLY <2>2, <2>3 DEF TypeOK
<1> QED
  BY <1>1, IndInvHolds, PTL

\* What a reader accepts is written again as the octets that were there, damaged or not:
\* no reader makes anything up.
THEOREM NothingIsMadeUp == Spec => []WhatIsReadIsThere
<1>1. IndInv => WhatIsReadIsThere
  <2> SUFFICES ASSUME IndInv, status = "reading" PROVE WhatIsReadIsThere
    BY DEF WhatIsReadIsThere
  <2>1. /\ IndInv /\ status = "reading"
    OBVIOUS
  <2>2. data \in Seq(Octet) /\ Layered
    BY ONLY <2>1 DEF IndInv, Carried
  <2>3. PICK s : s = data
    OBVIOUS
  <2>4. s \in Seq(Octet)
    BY ONLY <2>2, <2>3
  <2>5. AclFromBytes(s) # Failed => There(AclToBytes(AclFromBytes(s)), s)
    BY ONLY <2>4, AclIsThere
  <2>6. L2capFromBytes(s) # Failed => There(L2capToBytes(L2capFromBytes(s)), s)
    BY ONLY <2>4, L2capIsThere
  <2>7. CommandFromBytes(s) # Failed => There(CommandToBytes(CommandFromBytes(s)), s)
    BY ONLY <2>4, CommandIsThere
  <2>8. ParseMessage(s) # Failed => There(MessageEncode(ParseMessage(s), 7), s)
    BY ONLY <2>4, MessageIsThere
  <2>9. FromHex(s) # Failed => FormatHex(FromHex(s)) = [i \in DOMAIN s |-> DigitOf(s[i])]
    BY ONLY <2>4, AddressIsThere
  <2>10. layer = "class" /\ ParseClassOfDevice(s) # None =>
           s = ClassOctets(ParseClassOfDevice(s))
    <3> SUFFICES ASSUME layer = "class", ParseClassOfDevice(s) # None
        PROVE  s = ClassOctets(ParseClassOfDevice(s))
      OBVIOUS
    <3>1. sent.kind = "class"
      BY ONLY <2>2, layer = "class" DEF Layered
    <3>2. s \in [1 .. 3 -> Octet]
      BY ONLY <2>1, <2>3, <3>1 DEF IndInv, Carried
    <3> QED
      BY ONLY <3>2, ParseClassOfDevice(s) # None, ClassIsThere
  <2>11. WhatIsReadIsThere =
           CASE layer = "acl" -> (AclFromBytes(s) # Failed => There(AclToBytes(AclFromBytes(s)), s))
             [] layer = "l2cap" ->
                  (L2capFromBytes(s) # Failed => There(L2capToBytes(L2capFromBytes(s)), s))
             [] layer = "command" ->
                  (CommandFromBytes(s) # Failed => There(CommandToBytes(CommandFromBytes(s)), s))
             [] layer = "message" ->
                  (ParseMessage(s) # Failed => There(MessageEncode(ParseMessage(s), 7), s))
             [] layer = "address" ->
                  (FromHex(s) # Failed =>
                     FormatHex(FromHex(s)) = [i \in DOMAIN s |-> DigitOf(s[i])])
             [] layer = "class" ->
                  (ParseClassOfDevice(s) # None => s = ClassOctets(ParseClassOfDevice(s)))
             [] OTHER -> TRUE
    BY ONLY <2>1, <2>3 DEF WhatIsReadIsThere
  <2> QED
    BY ONLY <2>5, <2>6, <2>7, <2>8, <2>9, <2>10, <2>11
<1> QED
  BY <1>1, IndInvHolds, PTL
=============================================================================
