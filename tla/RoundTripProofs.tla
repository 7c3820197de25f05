---------------------------- MODULE RoundTripProofs ----------------------------
(***************************************************************************)
(* Proofs about Formats: what arrives whole is read as it was sent, what   *)
(* arrives cut short is never taken for the whole, and the parser of       *)
(* attributes stays on the boundaries that the sizes give.                 *)
(***************************************************************************)
EXTENDS FormatsProofs

-----------------------------------------------------------------------------
(* Octets that agree with a sequence as far as they go.                    *)

\* From p on, d holds x, or the beginning of x that is left before its end.
Agrees(d, p, x) == \A i \in 1 .. Len(x) : p + i <= Len(d) => d[p + i] = x[i]

LEMMA AgreesSplit ==
  ASSUME NEW d, NEW p, p \in Nat, NEW x, x \in Seq(Octet), NEW y, y \in Seq(Octet),
         Agrees(d, p, x \o y)
  PROVE  Agrees(d, p, x) /\ Agrees(d, p + Len(x), y)
<1>1. PICK m, n, z, l : m = Len(x) /\ n = Len(y) /\ z = x \o y /\ l = Len(d)
  OBVIOUS
<1>2. m \in Nat /\ n \in Nat
  BY ONLY <1>1, x \in Seq(Octet), y \in Seq(Octet)
<1>3. Len(z) = m + n /\ \A i \in 1 .. m + n : z[i] = IF i <= m THEN x[i] ELSE y[i - m]
  BY ONLY <1>1, x \in Seq(Octet), y \in Seq(Octet), ConcatProperties
<1>4. \A i \in 1 .. m + n : p + i <= l => d[p + i] = z[i]
  BY ONLY <1>1, <1>3, Agrees(d, p, x \o y) DEF Agrees
<1>5. ASSUME NEW i \in 1 .. m, p + i <= l PROVE d[p + i] = x[i]
  <2>1. i \in 1 .. m + n /\ i <= m
    BY ONLY <1>2
  <2> QED
    BY ONLY <1>3, <1>4, <1>5, <2>1
<1>6. ASSUME NEW i \in 1 .. n, p + m + i <= l PROVE d[p + m + i] = y[i]
  <2>1. PICK j : j = m + i
    OBVIOUS
  <2>2. j \in 1 .. m + n /\ ~(j <= m) /\ j - m = i /\ p + j = p + m + i
    BY ONLY <1>2, <2>1, p \in Nat
  <2>3. z[j] = y[i]
    BY ONLY <1>3, <2>2
  <2> QED
    BY ONLY <1>4, <1>6, <2>2, <2>3
<1> QED
  BY ONLY <1>1, <1>5, <1>6 DEF Agrees

LEMMA AgreesSlice ==
  ASSUME NEW d, d \in Seq(Octet), NEW p, p \in Nat, NEW x, x \in Seq(Octet),
         Agrees(d, p, x), NEW q, q = p + Len(x), q <= Len(d)
  PROVE  SubSeq(d, p + 1, q) = x
<1>1. PICK n, l, r, a : n = Len(x) /\ l = Len(d) /\ a = p + 1 /\ r = SubSeq(d, a, q)
  OBVIOUS
<1>2. n \in Nat /\ l \in Nat
  BY ONLY <1>1, x \in Seq(Octet), d \in Seq(Octet)
<1>3. a \in Int /\ q \in Int /\ q <= l /\ a >= 1 /\ q - a + 1 = n /\ (IF a <= q THEN q - a + 1 ELSE 0) = n
  BY ONLY <1>1, <1>2, p \in Nat, q = p + Len(x), q <= Len(d)
<1>4. \A i \in a .. q : d[i] \in Octet
  <2>1. \A i \in a .. q : i \in 1 .. l
    BY ONLY <1>2, <1>3
  <2> QED
    BY ONLY <1>1, <2>1, d \in Seq(Octet), ElementOfSeq
<1>5. r \in Seq(Octet) /\ Len(r) = n /\ \A i \in 1 .. n : r[i] = d[a + i - 1]
  <2>1. /\ SubSeq(d, a, q) \in Seq(Octet)
        /\ Len(SubSeq(d, a, q)) = IF a <= q THEN q - a + 1 ELSE 0
        /\ \A i \in 1 .. q - a + 1 : SubSeq(d, a, q)[i] = d[a + i - 1]
    BY ONLY <1>3, <1>4, SubSeqProperties
  <2> QED
    BY ONLY <1>1, <1>3, <2>1
<1>6. ASSUME NEW i \in 1 .. n PROVE r[i] = x[i]
  <2>1. a + i - 1 = p + i /\ p + i <= l
    BY ONLY <1>1, <1>2, p \in Nat, q = p + Len(x), q <= Len(d)
  <2>2. d[p + i] = x[i]
    BY ONLY <1>1, <2>1, Agrees(d, p, x) DEF Agrees
  <2> QED
    BY ONLY <1>5, <2>1, <2>2
<1>7. r = x
  BY ONLY <1>1, <1>5, <1>6, x \in Seq(Octet), SeqEqual
<1> QED
  BY ONLY <1>1, <1>7

LEMMA AgreesAll ==
  ASSUME NEW d, d \in Seq(Octet), NEW x, x \in Seq(Octet), Agrees(d, 0, x), Len(d) = Len(x)
  PROVE  d = x
<1>1. Len(d) \in Nat
  BY ONLY d \in Seq(Octet)
<1>2. \A i \in 1 .. Len(d) : d[i] = x[i]
  <2> TAKE i \in 1 .. Len(d)
  <2>1. 0 + i = i /\ i <= Len(d) /\ i \in 1 .. Len(x)
    BY ONLY <1>1, Len(d) = Len(x)
  <2> QED
    BY ONLY <2>1, Agrees(d, 0, x) DEF Agrees
<1> QED
  BY ONLY <1>2, d \in Seq(Octet), x \in Seq(Octet), Len(d) = Len(x), SeqEqual

\* The whole, the whole with octets after it, and its beginning.
LEMMA WholeAgrees ==
  ASSUME NEW x, x \in Seq(Octet)
  PROVE  Agrees(x, 0, x)
<1>1. \A i \in 1 .. Len(x) : 0 + i = i
  OBVIOUS
<1> QED
  BY ONLY <1>1 DEF Agrees

LEMMA PaddedAgrees ==
  ASSUME NEW x, x \in Seq(Octet), NEW t, t \in Seq(Octet)
  PROVE  Agrees(x \o t, 0, x)
<1>1. PICK m, n, z : m = Len(x) /\ n = Len(t) /\ z = x \o t
  OBVIOUS
<1>2. m \in Nat /\ n \in Nat
  BY ONLY <1>1, x \in Seq(Octet), t \in Seq(Octet)
<1>3. \A i \in 1 .. m + n : z[i] = IF i <= m THEN x[i] ELSE t[i - m]
  BY ONLY <1>1, x \in Seq(Octet), t \in Seq(Octet), ConcatProperties
<1>4. \A i \in 1 .. m : 0 + i = i /\ i \in 1 .. m + n /\ i <= m
  BY ONLY <1>2
<1> QED
  BY ONLY <1>1, <1>3, <1>4 DEF Agrees

LEMMA CutAgrees ==
  ASSUME NEW x, x \in Seq(Octet), NEW n, n \in 0 .. Len(x) - 1
  PROVE  /\ SubSeq(x, 1, n) \in Seq(Octet) /\ Len(SubSeq(x, 1, n)) = n /\ n < Len(x)
         /\ Agrees(SubSeq(x, 1, n), 0, x)
<1>1. PICK m, r : m = Len(x) /\ r = SubSeq(x, 1, n)
  OBVIOUS
<1>2. m \in Nat /\ n \in Nat /\ n < m /\ n \in Int /\ 1 \in Int
  BY ONLY <1>1, x \in Seq(Octet), n \in 0 .. Len(x) - 1
<1>3. \A i \in 1 .. n : x[i] \in Octet
  <2>1. \A i \in 1 .. n : i \in 1 .. m
    BY ONLY <1>2
  <2> QED
    BY ONLY <1>1, <2>1, x \in Seq(Octet), ElementOfSeq
<1>4. r \in Seq(Octet) /\ Len(r) = n /\ \A i \in 1 .. n : r[i] = x[i]
  <2>1. /\ SubSeq(x, 1, n) \in Seq(Octet)
        /\ Len(SubSeq(x, 1, n)) = IF 1 <= n THEN n - 1 + 1 ELSE 0
        /\ \A i \in 1 .. n - 1 + 1 : SubSeq(x, 1, n)[i] = x[1 + i - 1]
    BY ONLY <1>2, <1>3, SubSeqProperties
  <2>2. /\ n - 1 + 1 = n /\ (IF 1 <= n THEN n - 1 + 1 ELSE 0) = n
        /\ \A i \in 1 .. n : 1 + i - 1 = i
    BY ONLY <1>2
  <2> QED
    BY ONLY <1>1, <2>1, <2>2
<1>5. Agrees(r, 0, x)
  <2>1. \A i \in 1 .. m : 0 + i <= n => i \in 1 .. n /\ 0 + i = i
    BY ONLY <1>2
  <2> QED
    BY ONLY <1>1, <1>4, <2>1 DEF Agrees
<1> QED
  BY ONLY <1>1, <1>2, <1>4, <1>5

-----------------------------------------------------------------------------
(* Packets and commands.                                                   *)

LEMMA WordAgain ==
  ASSUME NEW w, w \in Word
  PROVE  w % 256 \in Octet /\ w \div 256 \in Octet /\ (w % 256) + 256 * (w \div 256) = w
<1>1. w \in Nat /\ w < 65536
  BY ONLY w \in Word DEF Word
<1>2. w % 256 \in Nat /\ w % 256 < 256 /\ w \div 256 \in Nat /\ w \div 256 < 256
  BY ONLY <1>1, LowHalf, HighHalf
<1>3. PICK q, r : q = w \div 256 /\ r = w % 256
  OBVIOUS
<1>4. w = 256 * q + r
  <2>1. 256 \in Nat \ {0}
    OBVIOUS
  <2>2. w = 256 * (w \div 256) + (w % 256)
    BY ONLY <1>1, <2>1, Division
  <2> QED
    BY ONLY <1>3, <2>2
<1>5. r + 256 * q = w
  BY ONLY <1>2, <1>3, <1>4
<1> QED
  BY ONLY <1>2, <1>3, <1>5 DEF Octet

\* Four octets, and what follows them.
Four(a, b, c, e, octets) == <<a, b>> \o <<c, e>> \o octets

LEMMA FourThen ==
  ASSUME NEW d, d \in Seq(Octet), NEW a \in Octet, NEW b \in Octet, NEW c \in Octet,
         NEW e \in Octet, NEW o, o \in Seq(Octet),
         NEW z, z = Four(a, b, c, e, o), Agrees(d, 0, z)
  PROVE  /\ Len(z) = 4 + Len(o)
         /\ 4 <= Len(d) => d[1] = a /\ d[2] = b /\ d[3] = c /\ d[4] = e
         /\ Len(z) <= Len(d) => SubSeq(d, 5, 4 + Len(o)) = o
<1>1. PICK h : h = <<a, b>> \o <<c, e>>
  OBVIOUS
<1>2. h \in Seq(Octet) /\ Len(h) = 4 /\ h[1] = a /\ h[2] = b /\ h[3] = c /\ h[4] = e
  BY ONLY <1>1, a \in Octet, b \in Octet, c \in Octet, e \in Octet
<1>3. Agrees(d, 0, h \o o)
  BY ONLY <1>1, z = Four(a, b, c, e, o), Agrees(d, 0, z) DEF Four
<1>4. 0 \in Nat /\ 0 + Len(h) = 4
  BY ONLY <1>2
<1>5. Agrees(d, 0, h) /\ Agrees(d, 4, o)
  <2>1. Agrees(d, 0, h) /\ Agrees(d, 0 + Len(h), o)
    BY ONLY <1>2, <1>3, <1>4, o \in Seq(Octet), AgreesSplit
  <2> QED
    BY ONLY <1>4, <2>1
<1>6. Len(z) = 4 + Len(o)
  <2>1. Len(h \o o) = Len(h) + Len(o)
    BY ONLY <1>2, o \in Seq(Octet), Joined
  <2> QED
    BY ONLY <1>1, <1>2, <2>1, z = Four(a, b, c, e, o) DEF Four
<1>7. ASSUME 4 <= Len(d) PROVE d[1] = a /\ d[2] = b /\ d[3] = c /\ d[4] = e
  <2>1. \A i \in 1 .. 4 : 0 + i <= Len(d) => d[0 + i] = h[i]
    BY ONLY <1>2, <1>5 DEF Agrees
  <2>2. Len(d) \in Nat
    BY ONLY d \in Seq(Octet)
  <2>3. \A i \in 1 .. 4 : d[i] = h[i]
    BY ONLY <1>7, <2>1, <2>2
  <2> QED
    BY ONLY <1>2, <2>3
<1>8. ASSUME Len(z) <= Len(d) PROVE SubSeq(d, 5, 4 + Len(o)) = o
  <2>1. PICK q : q = 4 + Len(o)
    OBVIOUS
  <2>2. q <= Len(d) /\ 4 \in Nat /\ 4 + 1 = 5
    BY ONLY <1>6, <1>8, <2>1
  <2>3. SubSeq(d, 4 + 1, q) = o
    BY ONLY <1>5, <2>1, <2>2, d \in Seq(Octet), o \in Seq(Octet), AgreesSlice
  <2> QED
    BY ONLY <2>1, <2>2, <2>3
<1> QED
  BY ONLY <1>6, <1>7, <1>8

LEMMA PacketRead ==
  ASSUME NEW d, d \in Seq(Octet), NEW w, w \in Word, NEW x, x \in Word,
         NEW o, o \in Seq(Octet), NEW z, z = Packet(w, x, o), Agrees(d, 0, z)
  PROVE  /\ Len(z) = 4 + Len(o)
         /\ 4 <= Len(d) => WordAt(d, 1) = w /\ WordAt(d, 3) = x
         /\ Len(z) <= Len(d) => SubSeq(d, 5, 4 + Len(o)) = o
<1>1. PICK a, b, c, e : a = w % 256 /\ b = w \div 256 /\ c = x % 256 /\ e = x \div 256
  OBVIOUS
<1>2. /\ a \in Octet /\ b \in Octet /\ c \in Octet /\ e \in Octet
      /\ a + 256 * b = w /\ c + 256 * e = x
  BY ONLY <1>1, w \in Word, x \in Word, WordAgain
<1>3. z = Four(a, b, c, e, o)
  BY ONLY <1>1, z = Packet(w, x, o) DEF Packet, LittleEndian, Four
<1>4. /\ Len(z) = 4 + Len(o)
      /\ 4 <= Len(d) => d[1] = a /\ d[2] = b /\ d[3] = c /\ d[4] = e
      /\ Len(z) <= Len(d) => SubSeq(d, 5, 4 + Len(o)) = o
  BY ONLY <1>2, <1>3, d \in Seq(Octet), o \in Seq(Octet), Agrees(d, 0, z), FourThen
<1>5. WordAt(d, 1) = d[1] + 256 * d[2] /\ WordAt(d, 3) = d[3] + 256 * d[4]
  <2>1. 1 + 1 = 2 /\ 3 + 1 = 4
    OBVIOUS
  <2> QED
    BY ONLY <2>1 DEF WordAt
<1> QED
  BY ONLY <1>2, <1>4, <1>5

\* Octets around which a packet was put, and the packet cut short.
LEMMA L2capRead ==
  ASSUME NEW d, d \in Seq(Octet), NEW o, o \in Seq(Octet), NEW cid, cid \in Word,
         NEW z, z = InL2cap(o, cid), z # Failed, Agrees(d, 0, z)
  PROVE  IF Len(z) <= Len(d)
         THEN /\ L2capFromBytes(d) # Failed /\ L2capFromBytes(d).channel_id = cid
              /\ L2capFromBytes(d).payload = o
         ELSE L2capFromBytes(d) = Failed
<1>n. PICK n, l : n = Len(o) /\ l = Len(d)
  OBVIOUS
<1>1. n \in Nat /\ l \in Nat
  BY ONLY <1>n, o \in Seq(Octet), d \in Seq(Octet)
<1>2. z = Bounded(Packet(n, cid, o), PacketSize)
  <2>1. PICK p : p = L2capPacket(cid, o)
    OBVIOUS
  <2>2. p.length = n /\ p.channel_id = cid /\ p.payload = o
    BY ONLY <1>n, <2>1 DEF L2capPacket
  <2>3. z = L2capToBytes(p)
    BY ONLY <2>1, z = InL2cap(o, cid), z # Failed DEF InL2cap
  <2> QED
    BY ONLY <2>2, <2>3 DEF L2capToBytes, Packet
<1>3. n \in Word /\ z = Packet(n, cid, o) /\ Len(z) <= PacketSize
  <2>1. PacketSize \in Word
    BY SignalingWireAssumption
  <2>2. n \in Word /\ Bounded(Packet(n, cid, o), PacketSize) = Packet(n, cid, o)
    BY ONLY <1>n, <1>2, <2>1, z # Failed, o \in Seq(Octet), PacketFits
  <2>3. Len(z) <= PacketSize
    BY ONLY <1>2, z # Failed DEF Bounded
  <2> QED
    BY ONLY <1>2, <2>2, <2>3
<1>4. /\ Len(z) = 4 + n
      /\ 4 <= l => WordAt(d, 1) = n /\ WordAt(d, 3) = cid
      /\ Len(z) <= l => SubSeq(d, 5, 4 + n) = o
  BY ONLY <1>n, <1>3, d \in Seq(Octet), cid \in Word, o \in Seq(Octet), Agrees(d, 0, z), PacketRead
<1>5. CASE Len(z) <= l
  <2>1. ~(l < 4) /\ ~(l < 4 + n) /\ 4 <= l
    BY ONLY <1>1, <1>4, <1>5
  <2>2. Bounded(o, PacketSize) = o
    <3>1. n <= PacketSize
      BY ONLY <1>1, <1>3, <1>4, SizesAreWords
    <3> QED
      BY ONLY <1>n, <3>1 DEF Bounded
  <2>3. o # Failed
    BY ErrorsAreNoValues
  <2>4. PICK r : r = [length |-> n, channel_id |-> cid, payload |-> o]
    OBVIOUS
  <2>5. L2capFromBytes(d) = r
    BY ONLY <1>n, <1>4, <1>5, <2>1, <2>2, <2>3, <2>4 DEF L2capFromBytes
  <2>6. r \in [length : Word, channel_id : Word, payload : Seq(Octet)]
    BY ONLY <1>3, <2>4, cid \in Word, o \in Seq(Octet)
  <2>7. r # Failed
    BY <2>6, ErrorsAreNoValues
  <2>8. r.channel_id = cid /\ r.payload = o
    BY ONLY <2>4
  <2> QED
    BY ONLY <1>n, <1>5, <2>5, <2>7, <2>8
<1>6. CASE ~(Len(z) <= l)
  <2>1. l < 4 \/ (4 <= l /\ l < 4 + n)
    BY ONLY <1>1, <1>4, <1>6
  <2>2. L2capFromBytes(d) = Failed
    BY ONLY <1>n, <1>4, <2>1 DEF L2capFromBytes
  <2> QED
    BY ONLY <1>n, <1>6, <2>2
<1> QED
  BY ONLY <1>5, <1>6

\* The packet that InAcl writes, for a header of its own.
AclOf(h, octets) ==
  IF octets = Failed THEN Failed
  ELSE AclToBytes(AclPacket([h EXCEPT !.data_length = Len(octets)], octets))

LEMMA AclRead ==
  ASSUME NEW d, d \in Seq(Octet), NEW o, o \in Seq(Octet), NEW h, HeaderTyped(h),
         NEW z, z = AclOf(h, o), z # Failed, Agrees(d, 0, z)
  PROVE  IF Len(z) <= Len(d)
         THEN /\ AclFromBytes(d) # Failed /\ AclFromBytes(d).data = o
              /\ AclFromBytes(d).header = [h EXCEPT !.data_length = Len(z) - 4]
         ELSE AclFromBytes(d) = Failed
<1>n. PICK n, l : n = Len(o) /\ l = Len(d)
  OBVIOUS
<1>1. n \in Nat /\ l \in Nat
  BY ONLY <1>n, o \in Seq(Octet), d \in Seq(Octet)
<1>h. PICK a, b, c : a = h.connection_handle /\ b = h.packet_boundary /\ c = h.broadcast_flag
  OBVIOUS
<1>2. a \in 0 .. 4095 /\ b \in 0 .. 3 /\ c \in 0 .. 3
  BY ONLY <1>h, HeaderTyped(h) DEF HeaderTyped
<1>3. PICK k : k = [h EXCEPT !.data_length = n]
  OBVIOUS
<1>4. k = [connection_handle |-> a, packet_boundary |-> b, broadcast_flag |-> c, data_length |-> n]
  BY ONLY <1>h, <1>3, HeaderTyped(h) DEF HeaderTyped
<1>f. PICK flags : flags = a + 4096 * b + 16384 * c
  OBVIOUS
<1>5. /\ flags \in Word /\ flags % 4096 = a /\ (flags \div 4096) % 4 = b /\ flags \div 16384 = c
      /\ a % 4096 = a
  <2>1. a \in Nat /\ a < 4096 /\ b \in Nat /\ b < 4 /\ c \in Nat /\ c < 4
    BY ONLY <1>2
  <2>2. PICK m : m = b + 4 * c
    OBVIOUS
  <2>3. m \in Int /\ flags \in Int /\ flags = 4096 * m + a /\ m = 4 * c + b
        /\ flags = 16384 * c + (a + 4096 * b) /\ 0 <= a + 4096 * b /\ a + 4096 * b < 16384
        /\ flags \in Nat /\ flags < 65536
    BY ONLY <1>f, <2>1, <2>2
  <2>4. flags \div 4096 = m /\ flags % 4096 = a
    <3>1. 4096 \in Nat \ {0} /\ a \in Int /\ 0 <= a
      BY ONLY <2>1
    <3> QED
      BY ONLY <2>1, <2>3, <3>1, Divided
  <2>5. m \div 4 = c /\ m % 4 = b
    <3>1. 4 \in Nat \ {0} /\ b \in Int /\ c \in Int /\ 0 <= b
      BY ONLY <2>1
    <3> QED
      BY ONLY <2>1, <2>3, <3>1, Divided
  <2>6. flags \div 16384 = c
    <3>1. PICK x : x = a + 4096 * b
      OBVIOUS
    <3>2. 16384 \in Nat \ {0} /\ c \in Int /\ x \in Int /\ 0 <= x /\ x < 16384 /\ flags = 16384 * c + x
      BY ONLY <2>1, <2>3, <3>1
    <3> QED
      BY ONLY <2>3, <3>2, Divided
  <2>7. a % 4096 = a
    <3>1. 4096 \in Nat \ {0} /\ a \in Int /\ 0 <= a /\ 0 \in Int /\ a = 4096 * 0 + a
      BY ONLY <2>1
    <3> QED
      BY ONLY <2>1, <3>1, Divided
  <2> QED
    BY ONLY <2>3, <2>4, <2>5, <2>6, <2>7 DEF Word
<1>6. z = Bounded(Packet(flags, n, o), DataSize)
  <2>1. PICK p : p = AclPacket(k, o)
    OBVIOUS
  <2>2. p.header = k /\ p.data = o
    BY ONLY <2>1 DEF AclPacket
  <2>3. z = AclToBytes(p)
    BY ONLY <1>n, <1>3, <2>1, z = AclOf(h, o), z # Failed DEF AclOf
  <2>4. /\ p.header.connection_handle = a /\ p.header.packet_boundary = b
        /\ p.header.broadcast_flag = c /\ p.header.data_length = n
    BY ONLY <1>4, <2>2
  <2> QED
    BY ONLY <1>f, <2>2, <2>3, <2>4 DEF AclToBytes, Packet
<1>7. n \in Word /\ z = Packet(flags, n, o) /\ Len(z) <= DataSize
  <2>1. DataSize \in Word
    BY SignalingWireAssumption
  <2>2. n \in Word /\ Bounded(Packet(flags, n, o), DataSize) = Packet(flags, n, o)
    BY ONLY <1>n, <1>6, <2>1, z # Failed, o \in Seq(Octet), PacketFits
  <2>3. Len(z) <= DataSize
    BY ONLY <1>6, z # Failed DEF Bounded
  <2> QED
    BY ONLY <1>6, <2>2, <2>3
<1>8. /\ Len(z) = 4 + n
      /\ 4 <= l => WordAt(d, 1) = flags /\ WordAt(d, 3) = n
      /\ Len(z) <= l => SubSeq(d, 5, 4 + n) = o
  BY ONLY <1>n, <1>5, <1>7, d \in Seq(Octet), o \in Seq(Octet), Agrees(d, 0, z), PacketRead
<1>9. CASE Len(z) <= l
  <2>1. ~(l < 4) /\ ~(l < 4 + n) /\ 4 <= l /\ ~(n > DataSize)
    BY ONLY <1>1, <1>7, <1>8, <1>9, SizesAreWords
  <2>2. PICK r : r = AclPacket(k, o)
    OBVIOUS
  <2>3. AclHeader(a, b, c, n) = k
    BY ONLY <1>4, <1>5 DEF AclHeader
  <2>4. AclFromBytes(d) = r
    <3>1. PICK w, m : w = WordAt(d, 1) /\ m = WordAt(d, 3)
      OBVIOUS
    <3>2. w = flags /\ m = n /\ ~(l < 4 \/ l < 4 + m \/ m > DataSize)
      BY ONLY <1>8, <2>1, <3>1
    <3>3. PICK x, y, t, e : x = w % 4096 /\ y = (w \div 4096) % 4 /\ t = w \div 16384 /\ e = 4 + m
      OBVIOUS
    <3>4. AclFromBytes(d) = AclPacket(AclHeader(x, y, t, m), SubSeq(d, 5, e))
      BY ONLY <1>n, <3>1, <3>2, <3>3 DEF AclFromBytes
    <3>5. x = a /\ y = b /\ t = c /\ e = 4 + n
      BY ONLY <1>5, <3>2, <3>3
    <3>6. SubSeq(d, 5, e) = o
      BY ONLY <1>8, <1>9, <3>5
    <3> QED
      BY ONLY <2>2, <2>3, <3>2, <3>4, <3>5, <3>6
  <2>5. r # Failed
    <3>1. k \in [connection_handle : Nat, packet_boundary : Nat, broadcast_flag : Nat, data_length : Word]
      BY ONLY <1>2, <1>4, <1>7
    <3>2. r \in [header : [connection_handle : Nat, packet_boundary : Nat, broadcast_flag : Nat,
                           data_length : Word], data : Seq(Octet)]
      BY ONLY <2>2, <3>1, o \in Seq(Octet) DEF AclPacket
    <3> QED
      BY <3>2, ErrorsAreNoValues
  <2>6. r.header = k /\ r.data = o
    BY ONLY <2>2 DEF AclPacket
  <2>7. Len(z) - 4 = n
    BY ONLY <1>1, <1>8
  <2> QED
    BY ONLY <1>n, <1>3, <1>9, <2>4, <2>5, <2>6, <2>7
<1>10. CASE ~(Len(z) <= l)
  <2>1. l < 4 \/ (4 <= l /\ l < 4 + n)
    BY ONLY <1>1, <1>8, <1>10
  <2>2. AclFromBytes(d) = Failed
    BY ONLY <1>n, <1>8, <2>1 DEF AclFromBytes
  <2> QED
    BY ONLY <1>n, <1>10, <2>2
<1> QED
  BY ONLY <1>9, <1>10

\* The octets that words are written as.
Halves(words, t) ==
  /\ t \in Seq(Octet) /\ Len(t) = 2 * Len(words)
  /\ \A i \in 1 .. Len(words) :
       t[2 * i - 1] = words[i] % 256 /\ t[2 * i] = words[i] \div 256

LEMMA WordsWritten ==
  ASSUME NEW words, words \in Seq(Word)
  PROVE  \E t : Halves(words, t)
<1>n. PICK n : n = Len(words)
  OBVIOUS
<1>1. n \in Nat /\ \A i \in 1 .. n : words[i] \in Word
  BY ONLY <1>n, words \in Seq(Word)
<1>2. PICK m : m = 2 * n
  OBVIOUS
<1>3. m \in Nat
  BY ONLY <1>1, <1>2
<1>4. PICK low, high : /\ low = [i \in 1 .. n |-> words[i] % 256]
                       /\ high = [i \in 1 .. n |-> words[i] \div 256]
  OBVIOUS
<1>5. \A i \in 1 .. n : /\ low[i] = words[i] % 256 /\ high[i] = words[i] \div 256
                        /\ low[i] \in Octet /\ high[i] \in Octet
  <2> TAKE i \in 1 .. n
  <2>1. words[i] % 256 \in Octet /\ words[i] \div 256 \in Octet
    <3>1. PICK w : w = words[i]
      OBVIOUS
    <3>2. w \in Word
      BY ONLY <1>1, <3>1
    <3>3. w % 256 \in Octet /\ w \div 256 \in Octet
      BY ONLY <3>2, WordAgain
    <3> QED
      BY ONLY <3>1, <3>3
  <2> QED
    BY ONLY <1>4, <2>1
<1>6. PICK t : t = [j \in 1 .. m |-> IF j % 2 = 1 THEN low[(j + 1) \div 2] ELSE high[j \div 2]]
  OBVIOUS
<1>7. \A j \in 1 .. m : t[j] \in Octet
  <2> TAKE j \in 1 .. m
  <2>1. CASE j % 2 = 1
    <3>1. (j + 1) \div 2 \in 1 .. n
      BY ONLY <1>1, <1>2, <2>1
    <3>2. PICK i : i = (j + 1) \div 2
      OBVIOUS
    <3>3. t[j] = low[i] /\ i \in 1 .. n
      BY ONLY <1>6, <2>1, <3>1, <3>2
    <3> QED
      BY ONLY <1>5, <3>3
  <2>2. CASE j % 2 # 1
    <3>1. j \div 2 \in 1 .. n
      BY ONLY <1>1, <1>2, <2>2
    <3>2. PICK i : i = j \div 2
      OBVIOUS
    <3>3. t[j] = high[i] /\ i \in 1 .. n
      BY ONLY <1>6, <2>2, <3>1, <3>2
    <3> QED
      BY ONLY <1>5, <3>3
  <2> QED
    BY ONLY <2>1, <2>2
<1>8. t \in Seq(Octet) /\ Len(t) = m
  <2>1. t \in [1 .. m -> Octet]
    BY ONLY <1>6, <1>7
  <2> QED
    BY ONLY <1>3, <2>1
<1>9. ASSUME NEW i \in 1 .. n
      PROVE  t[2 * i - 1] = words[i] % 256 /\ t[2 * i] = words[i] \div 256
  <2>1. PICK j, k : j = 2 * i - 1 /\ k = 2 * i
    OBVIOUS
  <2>2. j \in 1 .. m /\ k \in 1 .. m /\ j % 2 = 1 /\ k % 2 # 1 /\ (j + 1) \div 2 = i /\ k \div 2 = i
    BY ONLY <1>1, <1>2, <2>1
  <2>3. t[j] = low[i] /\ t[k] = high[i]
    BY ONLY <1>6, <2>2
  <2> QED
    BY ONLY <1>5, <2>1, <2>3
<1> QED
  BY ONLY <1>n, <1>2, <1>8, <1>9 DEF Halves

LEMMA WordsTyped ==
  ASSUME NEW words, words \in Seq(Word)
  PROVE  FlattenSeq([i \in DOMAIN words |-> LittleEndian(words[i])]) \in Seq(Octet)
<1>1. PICK n, A, l : /\ n = Len(words) /\ A = Seq(Octet)
                     /\ l = [i \in DOMAIN words |-> LittleEndian(words[i])]
  OBVIOUS
<1>2. n \in Nat /\ DOMAIN words = 1 .. n /\ \A i \in 1 .. n : words[i] \in Word
  BY ONLY <1>1, words \in Seq(Word)
<1>3. \A i \in 1 .. n : LittleEndian(words[i]) \in A
  BY ONLY <1>1, <1>2, WordsAreTwoOctets
<1>4. l \in [1 .. n -> A]
  BY ONLY <1>1, <1>2, <1>3
<1>5. l \in Seq(Seq(Octet))
  BY ONLY <1>1, <1>2, <1>4
<1> QED
  BY ONLY <1>1, <1>5, FlattenTyped

LEMMA PayloadRead ==
  ASSUME NEW code, NEW words, words \in Seq(Word), NEW options, options \in Seq(Octet),
         Len(words) = Len(Words(code)), ResultKnown(code, words),
         options # <<>> => HasOptions(code), Len(options) <= CommandSize,
         NEW p, p = [words |-> words, options |-> options]
  PROVE  PayloadFromBytes(code, PayloadToBytes(p)) = p
<1>n. PICK n, k : n = Len(words) /\ k = Len(options)
  OBVIOUS
<1>1. /\ n \in Nat /\ k \in Nat /\ DOMAIN words = 1 .. n
      /\ words = [i \in 1 .. n |-> words[i]] /\ \A i \in 1 .. n : words[i] \in Word
  BY ONLY <1>n, words \in Seq(Word), options \in Seq(Octet)
<1>t. PICK t : Halves(words, t)
  BY ONLY words \in Seq(Word), WordsWritten
<1>2. /\ t \in Seq(Octet) /\ Len(t) = 2 * n
      /\ \A i \in 1 .. n : t[2 * i - 1] = words[i] % 256 /\ t[2 * i] = words[i] \div 256
  BY ONLY <1>n, <1>t DEF Halves
<1>m. PICK m : m = 2 * n
  OBVIOUS
<1>3. m \in Nat /\ Len(t) = m
  BY ONLY <1>1, <1>2, <1>m
<1>l. PICK l : l = [i \in 1 .. n |-> <<t[2 * i - 1], t[2 * i]>>]
  OBVIOUS
<1>4. FlattenSeq(l) = t
  <2>1. FlattenSeq(l) = SubSeq(t, 1, 2 * n)
    <3>1. 2 * n <= Len(t)
      BY ONLY <1>1, <1>2
    <3> QED
      BY ONLY <1>1, <1>l, <3>1, <1>2, PairsJoin
  <2>2. SubSeq(t, 1, Len(t)) = t
    BY ONLY <1>2, SubSeqFull
  <2> QED
    BY ONLY <1>2, <2>1, <2>2
<1>5. [i \in DOMAIN words |-> LittleEndian(words[i])] = l
  <2>1. \A i \in 1 .. n : LittleEndian(words[i]) = <<t[2 * i - 1], t[2 * i]>>
    BY ONLY <1>2 DEF LittleEndian
  <2> QED
    BY ONLY <1>1, <1>l, <2>1
<1>s. PICK s : s = t \o options
  OBVIOUS
<1>6. PayloadToBytes(p) = s
  <2>1. p.words = words /\ p.options = options
    BY ONLY p = [words |-> words, options |-> options]
  <2> QED
    BY ONLY <1>4, <1>5, <1>s, <2>1 DEF PayloadToBytes
<1>7. s \in Seq(Octet) /\ Len(s) = m + k /\ \A i \in 1 .. m : s[i] = t[i]
  <2>1. s \in Seq(Octet) /\ Len(s) = m + k
    BY ONLY <1>n, <1>3, <1>s, <1>2, options \in Seq(Octet), Joined
  <2>2. \A i \in 1 .. m + k : s[i] = IF i <= m THEN t[i] ELSE options[i - m]
    BY ONLY <1>n, <1>3, <1>s, <1>2, options \in Seq(Octet), ConcatProperties
  <2>3. \A i \in 1 .. m : i \in 1 .. m + k /\ i <= m
    BY ONLY <1>1, <1>3
  <2> QED
    BY ONLY <2>1, <2>2, <2>3
<1>8. [i \in 1 .. n |-> WordAt(s, 2 * i - 1)] = words
  <2>1. ASSUME NEW i \in 1 .. n PROVE WordAt(s, 2 * i - 1) = words[i]
    <3>1. PICK a, b, w : a = 2 * i - 1 /\ b = 2 * i /\ w = words[i]
      OBVIOUS
    <3>2. a \in 1 .. m /\ b \in 1 .. m /\ a + 1 = b
      BY ONLY <1>1, <1>m, <3>1
    <3>3. s[a] = t[a] /\ s[b] = t[b] /\ t[a] = w % 256 /\ t[b] = w \div 256 /\ w \in Word
      BY ONLY <1>1, <1>2, <1>7, <3>1, <3>2
    <3>4. (w % 256) + 256 * (w \div 256) = w
      BY ONLY <3>3, WordAgain
    <3>5. WordAt(s, a) = s[a] + 256 * s[b]
      BY ONLY <3>2 DEF WordAt
    <3> QED
      BY ONLY <3>1, <3>3, <3>4, <3>5
  <2> QED
    BY ONLY <1>1, <2>1
<1>9. (IF HasOptions(code) THEN SubSeq(s, 2 * n + 1, Len(s)) ELSE <<>>) = options
  <2>1. Agrees(s, m, options)
    <3>1. Agrees(s, 0, t \o options)
      BY ONLY <1>7, <1>s, WholeAgrees
    <3>2. 0 \in Nat
      OBVIOUS
    <3>3. Agrees(s, 0 + Len(t), options)
      BY ONLY <3>1, <3>2, <1>2, options \in Seq(Octet), AgreesSplit
    <3>4. 0 + Len(t) = m
      BY ONLY <1>3
    <3> QED
      BY ONLY <3>3, <3>4
  <2>2. PICK q : q = Len(s)
    OBVIOUS
  <2>3. q = m + Len(options) /\ q <= Len(s)
    <3>1. q \in Nat
      BY ONLY <1>7, <2>2
    <3> QED
      BY ONLY <1>n, <1>7, <2>2, <3>1
  <2>4. SubSeq(s, m + 1, q) = options
    BY ONLY <1>3, <1>7, <2>1, <2>3, options \in Seq(Octet), AgreesSlice
  <2> QED
    BY ONLY <1>m, <2>2, <2>4, options # <<>> => HasOptions(code)
<1>10. Bounded(options, CommandSize) # Failed
  <2>1. options # Failed
    BY ErrorsAreNoValues
  <2> QED
    BY ONLY <2>1, Len(options) <= CommandSize DEF Bounded
<1>11. ~(Len(s) < 2 * n)
  BY ONLY <1>1, <1>7, <1>m
<1>12. PICK o : o = IF HasOptions(code) THEN SubSeq(s, 2 * n + 1, Len(s)) ELSE <<>>
  OBVIOUS
<1>13. PICK v : v = [i \in 1 .. n |-> WordAt(s, 2 * i - 1)]
  OBVIOUS
<1>14. v = words /\ o = options
  BY ONLY <1>8, <1>9, <1>12, <1>13
<1>15. PayloadFromBytes(code, s) = p
  <2>1. ResultKnown(code, v) /\ Bounded(o, CommandSize) # Failed
    BY ONLY <1>10, <1>14, ResultKnown(code, words)
  <2>2. n = Len(Words(code))
    BY ONLY <1>n, Len(words) = Len(Words(code))
  <2>3. PayloadFromBytes(code, s) = [words |-> v, options |-> o]
    BY ONLY <1>11, <1>12, <1>13, <2>1, <2>2 DEF PayloadFromBytes
  <2> QED
    BY ONLY <1>14, <2>3, p = [words |-> words, options |-> options]
<1> QED
  BY ONLY <1>6, <1>15

\* A command is read as it was written, and refused when it is cut short.
LEMMA CommandRead ==
  ASSUME NEW d, d \in Seq(Octet), NEW c, c \in BuiltCommand,
         NEW z, z = CommandToBytes(c), z # Failed, Agrees(d, 0, z)
  PROVE  CommandFromBytes(d) = IF Len(z) <= Len(d) THEN c ELSE Failed
<1>c. PICK code, id, n, p : code = c.code /\ id = c.identifier /\ n = c.length /\ p = c.payload
  OBVIOUS
<1>w. PICK words, options : words = p.words /\ options = p.options
  OBVIOUS
<1>1. /\ code \in Range(SignalingCode) /\ id \in Octet
      /\ words \in Seq(Word) /\ options \in Seq(Octet)
      /\ p = [words |-> words, options |-> options]
      /\ c = [code |-> code, identifier |-> id, length |-> n, payload |-> p]
  BY ONLY <1>c, <1>w, c \in BuiltCommand DEF BuiltCommand
<1>2. /\ n = Len(PayloadToBytes(p))
      /\ Len(words) = Len(Words(code)) /\ ResultKnown(code, words)
      /\ options # <<>> => HasOptions(code)
  BY ONLY <1>c, <1>w, c \in BuiltCommand DEF BuiltCommand
<1>o. PICK o, l : o = PayloadToBytes(p) /\ l = Len(d)
  OBVIOUS
<1>3. o \in Seq(Octet) /\ n = Len(o) /\ n \in Nat /\ l \in Nat
  <2>1. o \in Seq(Octet)
    BY ONLY <1>1, <1>o, <1>w, PayloadWritten
  <2> QED
    BY ONLY <1>2, <1>o, <2>1, d \in Seq(Octet)
<1>k. PICK k : k = CHOOSE i \in DOMAIN SignalingCode : SignalingCode[i] = code
  OBVIOUS
<1>4. k \in 1 .. 11 /\ SignalingCode[k] = code /\ k \in Octet
  <2>1. \E i \in DOMAIN SignalingCode : SignalingCode[i] = code
    BY ONLY <1>1 DEF Range
  <2>2. k \in 1 .. 11 /\ SignalingCode[k] = code
    BY ONLY <1>k, <2>1, CodesDiffer
  <2> QED
    BY ONLY <2>2 DEF Octet
<1>z. PICK y : y = <<k, id>> \o LittleEndian(n) \o o
  OBVIOUS
<1>5. z = Bounded(y, CommandSize)
  BY ONLY <1>c, <1>o, <1>k, <1>z, z = CommandToBytes(c) DEF CommandToBytes
<1>6. z = y /\ Len(z) <= CommandSize
  BY ONLY <1>5, z # Failed DEF Bounded
<1>7. n \in Word
  <2>1. Len(y) = 4 + n
    BY ONLY <1>3, <1>z, FourMore DEF LittleEndian
  <2> QED
    BY ONLY <1>3, <1>6, <2>1, SizesAreWords DEF Word
<1>8. PICK a, b : a = n % 256 /\ b = n \div 256
  OBVIOUS
<1>9. a \in Octet /\ b \in Octet /\ a + 256 * b = n
  BY ONLY <1>7, <1>8, WordAgain
<1>10. z = Four(k, id, a, b, o)
  BY ONLY <1>6, <1>8, <1>z DEF Four, LittleEndian
<1>11. /\ Len(z) = 4 + n
       /\ 4 <= l => d[1] = k /\ d[2] = id /\ d[3] = a /\ d[4] = b
       /\ Len(z) <= l => SubSeq(d, 5, 4 + n) = o
  <2>1. id \in Octet /\ k \in Octet /\ a \in Octet /\ b \in Octet /\ o \in Seq(Octet)
    BY ONLY <1>1, <1>3, <1>4, <1>9
  <2>2. /\ Len(z) = 4 + Len(o)
        /\ 4 <= Len(d) => d[1] = k /\ d[2] = id /\ d[3] = a /\ d[4] = b
        /\ Len(z) <= Len(d) => SubSeq(d, 5, 4 + Len(o)) = o
    BY ONLY <1>10, <2>1, d \in Seq(Octet), Agrees(d, 0, z), FourThen
  <2> QED
    BY ONLY <1>3, <1>o, <2>2
<1>12. 4 <= l => WordAt(d, 3) = n
  <2>1. WordAt(d, 3) = d[3] + 256 * d[4]
    <3>1. 3 + 1 = 4
      OBVIOUS
    <3> QED
      BY ONLY <3>1 DEF WordAt
  <2> QED
    BY ONLY <1>9, <1>11, <2>1
<1>13. CASE Len(z) <= l
  <2>1. 4 <= l /\ ~(l < 4) /\ ~(l < 4 + n)
    BY ONLY <1>3, <1>11, <1>13
  <2>2. d[1] = k /\ d[2] = id /\ WordAt(d, 3) = n /\ SubSeq(d, 5, 4 + n) = o
    BY ONLY <1>11, <1>12, <1>13, <2>1
  <2>3. PayloadFromBytes(code, o) = p
    <3>1. Len(options) <= CommandSize
      <4>1. PICK f : f = FlattenSeq([i \in DOMAIN words |-> LittleEndian(words[i])])
        OBVIOUS
      <4>2. o = f \o options
        BY ONLY <1>o, <1>w, <4>1 DEF PayloadToBytes
      <4>3. f \in Seq(Octet)
        BY ONLY <1>1, <4>1, WordsTyped
      <4>4. n = Len(f) + Len(options) /\ Len(f) \in Nat /\ Len(options) \in Nat
        BY ONLY <1>1, <1>3, <4>2, <4>3, Joined
      <4> QED
        BY ONLY <1>3, <1>6, <1>11, <4>4, SizesAreWords
    <3> QED
      BY ONLY <1>1, <1>2, <1>o, <3>1, PayloadRead
  <2>4. p # Failed
    <3>1. p \in [words : Seq(Word), options : Seq(Octet)]
      BY ONLY <1>1
    <3> QED
      BY <3>1, ErrorsAreNoValues
  <2>5. 1 \in 1 .. l /\ k \in DOMAIN SignalingCode
    BY ONLY <1>3, <1>4, <2>1, CodesDiffer
  <2>6. CommandFromBytes(d) = [code |-> code, identifier |-> id, length |-> n, payload |-> p]
    BY ONLY <1>4, <1>o, <2>1, <2>2, <2>3, <2>4, <2>5 DEF CommandFromBytes
  <2> QED
    BY ONLY <1>1, <1>13, <1>o, <2>6
<1>14. CASE ~(Len(z) <= l)
  <2>1. l < 4 \/ (4 <= l /\ l < 4 + n)
    BY ONLY <1>3, <1>11, <1>14
  <2>2. CommandFromBytes(d) = Failed
    BY ONLY <1>o, <1>12, <2>1 DEF CommandFromBytes
  <2> QED
    BY ONLY <1>o, <1>14, <2>2
<1> QED
  BY ONLY <1>13, <1>14

-----------------------------------------------------------------------------
(* Messages of SDP.                                                        *)

LEMMA ValueAgain ==
  ASSUME NEW w, w \in Word
  PROVE  Value(BigEndian(w)) = w
<1>1. PICK s, a, b : s = BigEndian(w) /\ a = w \div 256 /\ b = w % 256
  OBVIOUS
<1>2. a \in Octet /\ b \in Octet /\ b + 256 * a = w
  BY ONLY <1>1, w \in Word, WordAgain
<1>3. s = <<a, b>>
  BY ONLY <1>1 DEF BigEndian
<1>4. s \in Seq(Octet) /\ Len(s) = 2 /\ s[1] = a /\ s[2] = b
  BY ONLY <1>2, <1>3
<1>5. PICK v : v = Value(s)
  OBVIOUS
<1>6. v \in Word /\ BigEndian(v) = <<a, b>>
  <2>1. 1 \in Nat \ {0} /\ 1 + 1 = 2 /\ 1 + 1 <= Len(s)
    BY ONLY <1>4
  <2>2. Value(SubSeq(s, 1, 1 + 1)) \in Word /\ BigEndian(Value(SubSeq(s, 1, 1 + 1))) = <<s[1], s[1 + 1]>>
    BY ONLY <1>4, <2>1, ValueOfTwo
  <2>3. SubSeq(s, 1, 1 + 1) = s
    BY ONLY <1>4, <2>1, SubSeqFull
  <2> QED
    BY ONLY <1>4, <1>5, <2>1, <2>2, <2>3
<1>7. PICK q, r : q = v \div 256 /\ r = v % 256
  OBVIOUS
<1>8. q \in Octet /\ r \in Octet /\ r + 256 * q = v
  BY ONLY <1>6, <1>7, WordAgain
<1>9. <<q, r>> = <<a, b>>
  BY ONLY <1>6, <1>7 DEF BigEndian
<1>10. q = a /\ r = b
  BY ONLY <1>9
<1> QED
  BY ONLY <1>1, <1>2, <1>5, <1>8, <1>10

\* The five octets of a header.
SdpHeader == [pdu_id : SdpPduId, transaction_id : Word, parameter_length : Word]

LEMMA HeaderWritten ==
  ASSUME NEW h, h \in SdpHeader, NEW e, e = HeaderEncode(h)
  PROVE  /\ e \in Seq(Octet) /\ Len(e) = 5 /\ e[1] = h.pdu_id
         /\ BigEndian(h.transaction_id) = <<e[2], e[3]>>
         /\ BigEndian(h.parameter_length) = <<e[4], e[5]>>
<1>1. PICK k, t, p : k = h.pdu_id /\ t = h.transaction_id /\ p = h.parameter_length
  OBVIOUS
<1>2. k \in Octet /\ t \in Word /\ p \in Word
  <2>1. k \in SdpPduId /\ t \in Word /\ p \in Word
    BY ONLY <1>1, h \in SdpHeader DEF SdpHeader
  <2> QED
    BY ONLY <2>1 DEF SdpPduId, Octet
<1>3. PICK a, b, x, y : a = t \div 256 /\ b = t % 256 /\ x = p \div 256 /\ y = p % 256
  OBVIOUS
<1>4. a \in Octet /\ b \in Octet /\ x \in Octet /\ y \in Octet
  BY ONLY <1>2, <1>3, WordAgain
<1>5. BigEndian(t) = <<a, b>> /\ BigEndian(p) = <<x, y>>
  BY ONLY <1>3 DEF BigEndian
<1>6. e = <<k>> \o <<a, b>> \o <<x, y>>
  BY ONLY <1>1, <1>5, e = HeaderEncode(h) DEF HeaderEncode
<1>7. /\ e \in Seq(Octet) /\ Len(e) = 5
      /\ e[1] = k /\ e[2] = a /\ e[3] = b /\ e[4] = x /\ e[5] = y
  BY ONLY <1>2, <1>4, <1>6
<1> QED
  BY ONLY <1>1, <1>5, <1>7

LEMMA HeaderRead ==
  ASSUME NEW d, d \in Seq(Octet), NEW h, h \in SdpHeader, Agrees(d, 0, HeaderEncode(h))
  PROVE  HeaderDecode(d) = (IF Len(d) < 5 THEN Failed ELSE h) /\ h # Failed
<1>1. PICK e, l : e = HeaderEncode(h) /\ l = Len(d)
  OBVIOUS
<1>2. /\ e \in Seq(Octet) /\ Len(e) = 5 /\ e[1] = h.pdu_id
      /\ BigEndian(h.transaction_id) = <<e[2], e[3]>>
      /\ BigEndian(h.parameter_length) = <<e[4], e[5]>>
  BY ONLY <1>1, h \in SdpHeader, HeaderWritten
<1>3. l \in Nat
  BY ONLY <1>1, d \in Seq(Octet)
<1>4. h # Failed
  BY h \in SdpHeader, ErrorsAreNoValues DEF SdpHeader
<1>5. CASE l < 5
  <2>1. HeaderDecode(d) = Failed
    BY ONLY <1>1, <1>5 DEF HeaderDecode
  <2> QED
    BY ONLY <1>1, <1>4, <1>5, <2>1
<1>6. CASE ~(l < 5)
  <2>1. \A i \in 1 .. 5 : d[i] = e[i]
    <3>1. \A i \in 1 .. 5 : 0 + i = i /\ 0 + i <= l
      BY ONLY <1>3, <1>6
    <3>2. \A i \in 1 .. 5 : 0 + i <= l => d[0 + i] = e[i]
      BY ONLY <1>1, <1>2, Agrees(d, 0, HeaderEncode(h)) DEF Agrees
    <3> QED
      BY ONLY <3>1, <3>2
  <2>2. d[1] = e[1] /\ d[2] = e[2] /\ d[3] = e[3] /\ d[4] = e[4] /\ d[5] = e[5]
    BY ONLY <2>1
  <2>3. /\ SubSeq(d, 2, 3) = BigEndian(h.transaction_id)
        /\ SubSeq(d, 4, 5) = BigEndian(h.parameter_length)
    <3>1. /\ 2 \in Nat \ {0} /\ 4 \in Nat \ {0} /\ 2 + 1 = 3 /\ 4 + 1 = 5
          /\ 2 + 1 <= Len(d) /\ 4 + 1 <= Len(d)
      BY ONLY <1>1, <1>3, <1>6
    <3>2. /\ SubSeq(d, 2, 2 + 1) = <<d[2], d[2 + 1]>>
          /\ SubSeq(d, 4, 4 + 1) = <<d[4], d[4 + 1]>>
      BY ONLY <3>1, d \in Seq(Octet), PairIs
    <3> QED
      BY ONLY <1>2, <2>2, <3>1, <3>2
  <2>4. PICK k, t, p : k = h.pdu_id /\ t = h.transaction_id /\ p = h.parameter_length
    OBVIOUS
  <2>5. /\ k \in SdpPduId /\ t \in Word /\ p \in Word
        /\ h = [pdu_id |-> k, transaction_id |-> t, parameter_length |-> p]
    BY ONLY <2>4, h \in SdpHeader DEF SdpHeader
  <2>6. Value(SubSeq(d, 2, 3)) = t /\ Value(SubSeq(d, 4, 5)) = p
    BY ONLY <2>3, <2>4, <2>5, ValueAgain
  <2>7. HeaderDecode(d) = h
    BY ONLY <1>1, <1>2, <1>6, <2>2, <2>4, <2>5, <2>6 DEF HeaderDecode
  <2> QED
    BY ONLY <1>1, <1>4, <1>6, <2>7
<1> QED
  BY ONLY <1>5, <1>6

\* A message is read as it was written, if this host reads its kind.
MessageExpected(m) == IF m.header.pdu_id \in Readable \cup {ErrorPdu} THEN m ELSE Failed

LEMMA MessageRead ==
  ASSUME NEW d, d \in Seq(Octet), NEW m, m \in BuiltMessage,
         NEW z, z = MessageEncode(m, 7), z # Failed, Agrees(d, 0, z)
  PROVE  ParseMessage(d) = IF Len(z) <= Len(d) THEN MessageExpected(m) ELSE Failed
<1>1. PICK h, code, k, p : h = m.header /\ code = m.error_code /\ k = h.pdu_id /\ p = h.parameter_length
  OBVIOUS
<1>2. /\ m = [header |-> h, error_code |-> code]
      /\ h \in [pdu_id : SdpPduId, transaction_id : Word, parameter_length : {0, 2}]
      /\ code \in {0} \cup SdpErrorCode
      /\ IF k = ErrorPdu THEN p = 2 /\ code # 0 ELSE p = 0 /\ code = 0
  BY ONLY <1>1, m \in BuiltMessage DEF BuiltMessage
<1>3. h \in SdpHeader /\ code \in Word /\ (code # 0 => code \in SdpErrorCode) /\ p \in Nat
  BY ONLY <1>1, <1>2 DEF SdpHeader, SdpErrorCode, Word
<1>4. PICK e, x, l : /\ e = HeaderEncode(h) /\ l = Len(d)
                     /\ x = IF k = ErrorPdu THEN BigEndian(code) ELSE <<>>
  OBVIOUS
<1>5. z = e \o x
  BY ONLY <1>1, <1>4, z = MessageEncode(m, 7), z # Failed DEF MessageEncode
<1>6. x \in Seq(Octet) /\ Len(x) = p
  <2>1. BigEndian(code) \in Seq(Octet) /\ Len(BigEndian(code)) = 2
    BY ONLY <1>3, WordsAreTwoOctets
  <2>2. <<>> \in Seq(Octet) /\ Len(<<>>) = 0
    BY ONLY EmptySeq
  <2> QED
    BY ONLY <1>2, <1>4, <2>1, <2>2
<1>7. e \in Seq(Octet) /\ Len(e) = 5
  BY ONLY <1>3, <1>4, HeaderWritten
<1>8. Len(z) = 5 + p /\ l \in Nat
  <2>1. Len(z) = Len(e) + Len(x)
    BY ONLY <1>5, <1>6, <1>7, Joined
  <2> QED
    BY ONLY <1>4, <1>6, <1>7, <2>1, d \in Seq(Octet)
<1>9. Agrees(d, 0, e) /\ Agrees(d, 5, x)
  <2>1. 0 \in Nat /\ 0 + Len(e) = 5
    BY ONLY <1>7
  <2>2. Agrees(d, 0, e) /\ Agrees(d, 0 + Len(e), x)
    BY ONLY <1>5, <1>6, <1>7, <2>1, Agrees(d, 0, z), AgreesSplit
  <2> QED
    BY ONLY <2>1, <2>2
<1>10. HeaderDecode(d) = (IF l < 5 THEN Failed ELSE h) /\ h # Failed
  BY ONLY <1>3, <1>4, <1>9, d \in Seq(Octet), HeaderRead
<1>11. CASE ~(Len(z) <= l)
  <2>1. HeaderDecode(d) = Failed \/ (HeaderDecode(d) = h /\ l < 5 + p)
    BY ONLY <1>3, <1>8, <1>10, <1>11
  <2>2. ParseMessage(d) = Failed
    BY ONLY <1>1, <1>4, <2>1 DEF ParseMessage
  <2> QED
    BY ONLY <1>4, <1>11, <2>2
<1>12. CASE Len(z) <= l
  <2>1. HeaderDecode(d) = h /\ ~(l < 5 + p)
    BY ONLY <1>3, <1>8, <1>10, <1>12
  <2>2. CASE k \in Readable
    <3>1. k # ErrorPdu
      BY ONLY <2>2 DEF Readable, ErrorPdu
    <3>2. ParseMessage(d) = [header |-> h, error_code |-> 0]
      BY ONLY <1>1, <1>4, <1>10, <2>1, <2>2, <3>1 DEF ParseMessage
    <3>3. MessageExpected(m) = m
      BY ONLY <1>1, <2>2 DEF MessageExpected
    <3> QED
      BY ONLY <1>2, <1>4, <1>12, <3>1, <3>2, <3>3
  <2>3. CASE k = ErrorPdu
    <3>1. k \notin Readable /\ p = 2 /\ ~(p < 2) /\ code \in SdpErrorCode
      BY ONLY <1>2, <1>3, <2>3 DEF Readable, ErrorPdu
    <3>2. Value(SubSeq(d, 6, 7)) = code
      <4>1. PICK q : q = 7
        OBVIOUS
      <4>2. 5 \in Nat /\ 5 + 1 = 6 /\ q = 5 + Len(x) /\ q <= Len(d)
        <5>1. Len(x) = 2 /\ Len(z) = 7
          BY ONLY <1>6, <1>8, <3>1
        <5>2. 5 \in Nat /\ 5 + 1 = 6 /\ q = 5 + 2
          BY ONLY <4>1
        <5>3. q <= l
          BY ONLY <1>12, <4>1, <5>1
        <5>4. l = Len(d)
          BY ONLY <1>4
        <5> QED
          BY ONLY <5>1, <5>2, <5>3, <5>4
      <4>3. SubSeq(d, 5 + 1, q) = x
        BY ONLY <1>6, <1>9, <4>2, d \in Seq(Octet), AgreesSlice
      <4>4. x = BigEndian(code)
        BY ONLY <1>4, <2>3
      <4> QED
        BY ONLY <1>3, <4>1, <4>2, <4>3, <4>4, ValueAgain
    <3>3. ParseMessage(d) = [header |-> h, error_code |-> code]
      BY ONLY <1>1, <1>4, <1>10, <2>1, <2>3, <3>1, <3>2 DEF ParseMessage
    <3>4. MessageExpected(m) = m
      BY ONLY <1>1, <2>3 DEF MessageExpected
    <3> QED
      BY ONLY <1>2, <1>4, <1>12, <3>3, <3>4
  <2>4. CASE k \notin Readable /\ k # ErrorPdu
    <3>1. ParseMessage(d) = Failed
      BY ONLY <1>1, <1>4, <2>1, <2>4 DEF ParseMessage
    <3>2. MessageExpected(m) = Failed
      BY ONLY <1>1, <2>4 DEF MessageExpected
    <3> QED
      BY ONLY <1>4, <1>12, <3>1, <3>2
  <2> QED
    BY ONLY <2>2, <2>3, <2>4
<1> QED
  BY ONLY <1>11, <1>12

-----------------------------------------------------------------------------
(* Addresses.                                                              *)

\* Six pairs of digits, as format_hex writes them.
SixDigits(u) ==
  /\ u \in Seq(Octet) /\ Len(u) = 17
  /\ \A i \in 1 .. 6 : u[3 * i - 2] \in Digit /\ u[3 * i - 1] \in Digit
  /\ \A i \in 1 .. 5 : u[3 * i] = Colon

LEMMA PartsOfSix ==
  ASSUME NEW u, SixDigits(u)
  PROVE  Parts(u) = [k \in 1 .. 6 |-> SubSeq(u, 3 * k - 2, 3 * k - 1)]
<1>u. /\ Len(u) = 17 /\ DOMAIN u = 1 .. 17
      /\ \A i \in 1 .. 6 : u[3 * i - 2] \in Digit /\ u[3 * i - 1] \in Digit
      /\ \A i \in 1 .. 5 : u[3 * i] = Colon
  BY ONLY SixDigits(u) DEF SixDigits
<1>1. \A j \in 1 .. 17 : u[j] = Colon <=> (j = 3 \/ j = 6 \/ j = 9 \/ j = 12 \/ j = 15)
  <2>1. u[3] = Colon /\ u[6] = Colon /\ u[9] = Colon /\ u[12] = Colon /\ u[15] = Colon
    <3>1. 3 * 1 = 3 /\ 3 * 2 = 6 /\ 3 * 3 = 9 /\ 3 * 4 = 12 /\ 3 * 5 = 15
      OBVIOUS
    <3>2. u[3 * 1] = Colon /\ u[3 * 2] = Colon /\ u[3 * 3] = Colon /\ u[3 * 4] = Colon /\ u[3 * 5] = Colon
      BY ONLY <1>u
    <3> QED
      BY ONLY <3>1, <3>2
  <2>2. \A i \in 1 .. 6 : u[3 * i - 2] # Colon /\ u[3 * i - 1] # Colon
    BY ONLY <1>u DEF Digit, Colon
  <2>3. ASSUME NEW j \in 1 .. 17, ~(j = 3 \/ j = 6 \/ j = 9 \/ j = 12 \/ j = 15)
        PROVE  u[j] # Colon
    <3>1. \E i \in 1 .. 6 : j = 3 * i - 2 \/ j = 3 * i - 1
      BY ONLY <2>3
    <3> QED
      BY ONLY <2>2, <3>1
  <2> QED
    BY ONLY <2>1, <2>3
<1>e. PICK ends, N : /\ ends = {0, Len(u) + 1} \cup {i \in DOMAIN u : u[i] = Colon}
                     /\ N = Cardinality(ends)
  OBVIOUS
<1>m. PICK m \in Nat : m = 18
  OBVIOUS
<1>2. \A j : j \in ends <=> (j = 0 \/ j = 3 \/ j = 6 \/ j = 9 \/ j = 12 \/ j = 15 \/ j = 18)
  <2>1. \A j : j \in ends <=> j = 0 \/ j = 18 \/ (j \in 1 .. 17 /\ u[j] = Colon)
    <3>1. ends = {0, 17 + 1} \cup {i \in 1 .. 17 : u[i] = Colon}
      BY ONLY <1>e, <1>u
    <3>2. 17 + 1 = 18
      OBVIOUS
    <3> QED
      BY ONLY <3>1, <3>2
  <2>2. 3 \in 1 .. 17 /\ 6 \in 1 .. 17 /\ 9 \in 1 .. 17 /\ 12 \in 1 .. 17 /\ 15 \in 1 .. 17
    OBVIOUS
  <2> QED
    BY ONLY <1>1, <2>1, <2>2
<1>3. ends \in SUBSET (0 .. m) /\ 0 \in ends /\ m \in ends
  BY ONLY <1>2, <1>m
<1>4. /\ IsFiniteSet(ends) /\ N \in Nat /\ N # 0
      /\ \A k \in 1 .. N : Nth(ends, k) \in ends
  <2>1. /\ IsFiniteSet(ends) /\ Cardinality(ends) \in Nat
        /\ \A k \in 1 .. Cardinality(ends) :
             Nth(ends, k) \in ends /\ Cardinality({j \in ends : j <= Nth(ends, k)}) = k
    BY ONLY m \in Nat, <1>3, NthIs
  <2>2. Cardinality(ends) = 0 <=> ends = {}
    BY ONLY <2>1, FS_EmptySet
  <2> QED
    BY ONLY <1>3, <1>e, <2>1, <2>2
<1>n. PICK e : e = [k \in 1 .. N |-> Nth(ends, k)]
  OBVIOUS
<1>5. \A k \in 1 .. N : /\ e[k] = Nth(ends, k) /\ e[k] \in ends
                        /\ k = 1 => \A j \in ends : e[k] <= j
                        /\ k = N => \A j \in ends : j <= e[k]
  <2> TAKE k \in 1 .. N
  <2>1. e[k] = Nth(ends, k) /\ k \in 1 .. Cardinality(ends)
    BY ONLY <1>e, <1>n
  <2>2. /\ k = 1 => \A j \in ends : Nth(ends, k) <= j
        /\ k = Cardinality(ends) => \A j \in ends : j <= Nth(ends, k)
    BY ONLY m \in Nat, <1>3, <2>1, NthOrder
  <2> QED
    BY ONLY <1>4, <1>e, <2>1, <2>2
<1>6. \A k \in 1 .. N - 1 : e[k] < e[k + 1] /\ \A j \in ends : j <= e[k] \/ e[k + 1] <= j
  <2> TAKE k \in 1 .. N - 1
  <2>1. k \in 1 .. N /\ k + 1 \in 1 .. N
    BY ONLY <1>4, k \in 1 .. N - 1
  <2>2. k \in 1 .. Cardinality(ends) /\ k + 1 \in 1 .. Cardinality(ends)
    BY ONLY <1>e, <2>1
  <2>3. Nth(ends, k) < Nth(ends, k + 1) /\ \A j \in ends : j <= Nth(ends, k) \/ Nth(ends, k + 1) <= j
    BY ONLY m \in Nat, <1>3, <2>2, NthOrder
  <2> QED
    BY ONLY <1>5, <2>1, <2>3
<1>7. \A k \in 1 .. N - 1 : e[k] # 18 /\ e[k + 1] = e[k] + 3
  <2> TAKE k \in 1 .. N - 1
  <2>1. k \in 1 .. N /\ k + 1 \in 1 .. N
    BY ONLY <1>4, k \in 1 .. N - 1
  <2>2. PICK x, y : x = e[k] /\ y = e[k + 1]
    OBVIOUS
  <2>3. x \in ends /\ y \in ends /\ x < y /\ \A j \in ends : j <= x \/ y <= j
    BY ONLY <1>5, <1>6, <2>1, <2>2, k \in 1 .. N - 1
  <2>4. /\ x = 0 \/ x = 3 \/ x = 6 \/ x = 9 \/ x = 12 \/ x = 15 \/ x = 18
        /\ y = 0 \/ y = 3 \/ y = 6 \/ y = 9 \/ y = 12 \/ y = 15 \/ y = 18
    BY ONLY <1>2, <2>3
  <2>5. /\ 0 \in ends /\ 3 \in ends /\ 6 \in ends /\ 9 \in ends /\ 12 \in ends
        /\ 15 \in ends /\ 18 \in ends
    BY ONLY <1>2
  <2>6. x # 18
    BY ONLY <2>3, <2>4
  <2>7. y <= x + 3
    <3>1. x + 3 \in ends /\ ~(x + 3 <= x)
      BY ONLY <2>4, <2>5, <2>6
    <3> QED
      BY ONLY <2>3, <3>1
  <2>8. y = x + 3
    BY ONLY <2>3, <2>4, <2>7
  <2> QED
    BY ONLY <2>2, <2>6, <2>8
<1>8. e[1] = 0 /\ e[N] = 18
  <2>1. 1 \in 1 .. N /\ N \in 1 .. N
    BY ONLY <1>4
  <2>2. 0 \in ends /\ 18 \in ends
    BY ONLY <1>2
  <2>3. e[1] \in ends /\ e[N] \in ends /\ e[1] <= 0 /\ 18 <= e[N]
    BY ONLY <1>5, <2>1, <2>2
  <2>4. e[1] \in 0 .. m /\ e[N] \in 0 .. m
    BY ONLY <1>3, <2>3
  <2> QED
    BY ONLY <1>m, <2>3, <2>4
<1>9. N = 7 /\ \A k \in 1 .. 7 : e[k] = 3 * (k - 1)
  <2>1. \A k \in 1 .. N - 1 : k + 1 \in 1 .. N
    BY ONLY <1>4
  <2>2. N > 1 /\ e[2] = 3
    <3>1. N # 1
      BY ONLY <1>8
    <3>2. 1 \in 1 .. N - 1
      BY ONLY <1>4, <3>1
    <3> QED
      BY ONLY <1>4, <1>7, <1>8, <3>1, <3>2
  <2>3. N > 2 /\ e[3] = 6
    <3>1. N # 2
      BY ONLY <1>8, <2>2
    <3>2. 2 \in 1 .. N - 1
      BY ONLY <1>4, <2>2, <3>1
    <3> QED
      BY ONLY <1>4, <1>7, <2>2, <3>1, <3>2
  <2>4. N > 3 /\ e[4] = 9
    <3>1. N # 3
      BY ONLY <1>8, <2>3
    <3>2. 3 \in 1 .. N - 1
      BY ONLY <1>4, <2>3, <3>1
    <3> QED
      BY ONLY <1>4, <1>7, <2>3, <3>1, <3>2
  <2>5. N > 4 /\ e[5] = 12
    <3>1. N # 4
      BY ONLY <1>8, <2>4
    <3>2. 4 \in 1 .. N - 1
      BY ONLY <1>4, <2>4, <3>1
    <3> QED
      BY ONLY <1>4, <1>7, <2>4, <3>1, <3>2
  <2>6. N > 5 /\ e[6] = 15
    <3>1. N # 5
      BY ONLY <1>8, <2>5
    <3>2. 5 \in 1 .. N - 1
      BY ONLY <1>4, <2>5, <3>1
    <3> QED
      BY ONLY <1>4, <1>7, <2>5, <3>1, <3>2
  <2>7. N > 6 /\ e[7] = 18
    <3>1. N # 6
      BY ONLY <1>8, <2>6
    <3>2. 6 \in 1 .. N - 1
      BY ONLY <1>4, <2>6, <3>1
    <3> QED
      BY ONLY <1>4, <1>7, <2>6, <3>1, <3>2
  <2>8. N = 7
    <3>1. ~(7 \in 1 .. N - 1)
      BY ONLY <1>7, <2>7
    <3> QED
      BY ONLY <1>4, <2>7, <3>1
  <2>9. \A k \in 1 .. 7 : k = 1 \/ k = 2 \/ k = 3 \/ k = 4 \/ k = 5 \/ k = 6 \/ k = 7
    OBVIOUS
  <2> QED
    BY ONLY <1>8, <2>2, <2>3, <2>4, <2>5, <2>6, <2>7, <2>8, <2>9
<1>10. Parts(u) = [k \in 1 .. N - 1 |-> SubSeq(u, Nth(ends, k) + 1, Nth(ends, k + 1) - 1)]
  BY ONLY <1>e DEF Parts
<1>11. \A k \in 1 .. 6 : /\ k \in 1 .. N - 1
                         /\ SubSeq(u, Nth(ends, k) + 1, Nth(ends, k + 1) - 1)
                              = SubSeq(u, 3 * k - 2, 3 * k - 1)
  <2> TAKE k \in 1 .. 6
  <2>1. k \in 1 .. N /\ k + 1 \in 1 .. N /\ k \in 1 .. 7 /\ k + 1 \in 1 .. 7 /\ k \in 1 .. N - 1
    BY ONLY <1>9, k \in 1 .. 6
  <2>2. Nth(ends, k) = 3 * (k - 1) /\ Nth(ends, k + 1) = 3 * (k + 1 - 1)
    BY ONLY <1>5, <1>9, <2>1
  <2>3. PICK a, b, x, y : a = Nth(ends, k) + 1 /\ b = Nth(ends, k + 1) - 1 /\ x = 3 * k - 2 /\ y = 3 * k - 1
    OBVIOUS
  <2>4. a = x /\ b = y
    BY ONLY <2>2, <2>3, k \in 1 .. 6
  <2> QED
    BY ONLY <2>1, <2>3, <2>4
<1>12. N - 1 = 6
  BY ONLY <1>9
<1> QED
  BY ONLY <1>10, <1>11, <1>12

LEMMA DigitsRead ==
  ASSUME NEW u, SixDigits(u)
  PROVE  FromHex(u) = [i \in 1 .. 6 |-> 16 * u[3 * i - 2] + u[3 * i - 1]]
<1>p. PICK parts : parts = Parts(u)
  OBVIOUS
<1>1. parts = [k \in 1 .. 6 |-> SubSeq(u, 3 * k - 2, 3 * k - 1)]
  BY ONLY <1>p, SixDigits(u), PartsOfSix
<1>2. /\ u \in Seq(Octet) /\ Len(u) = 17 /\ DOMAIN u = 1 .. 17
      /\ \A i \in 1 .. 6 : u[3 * i - 2] \in Digit /\ u[3 * i - 1] \in Digit
      /\ \A i \in 1 .. 5 : u[3 * i] = Colon
  BY ONLY SixDigits(u) DEF SixDigits
<1>3. Len(parts) = 6 /\ DOMAIN parts = 1 .. 6
  <2>1. PICK n \in Nat : n = 6
    OBVIOUS
  <2>2. parts = [k \in 1 .. n |-> SubSeq(u, 3 * k - 2, 3 * k - 1)]
    BY ONLY <1>1, <2>1
  <2>3. Len(parts) = n /\ DOMAIN parts = 1 .. n
    BY ONLY n \in Nat, <2>2
  <2> QED
    BY ONLY <2>1, <2>3
<1>4. ASSUME NEW i \in 1 .. 6
      PROVE  Len(parts[i]) = 2 /\ parts[i][1] = u[3 * i - 2] /\ parts[i][2] = u[3 * i - 1]
  <2>1. PICK k : k = 3 * i - 2
    OBVIOUS
  <2>2. k \in Nat \ {0} /\ k + 1 <= Len(u) /\ k + 1 = 3 * i - 1
    BY ONLY <1>2, <2>1, i \in 1 .. 6
  <2>3. parts[i] = <<u[k], u[k + 1]>>
    <3>1. parts[i] = SubSeq(u, k, k + 1)
      BY ONLY <1>1, <2>1, <2>2, i \in 1 .. 6
    <3>2. SubSeq(u, k, k + 1) = <<u[k], u[k + 1]>>
      BY ONLY <1>2, <2>2, PairIs
    <3> QED
      BY ONLY <3>1, <3>2
  <2>4. PICK a, b : a = u[k] /\ b = u[k + 1]
    OBVIOUS
  <2>5. Len(parts[i]) = 2 /\ parts[i][1] = a /\ parts[i][2] = b
    BY ONLY <2>3, <2>4
  <2> QED
    BY ONLY <2>1, <2>2, <2>4, <2>5
<1>5. WellFormed(u)
  <2>1. \A part \in Range(parts) : Len(part) = 2
    BY ONLY <1>3, <1>4 DEF Range
  <2>2. \A j \in 1 .. 17 : u[j] \in 0 .. Colon
    <3> TAKE j \in 1 .. 17
    <3>1. (\E i \in 1 .. 5 : j = 3 * i) \/ (\E i \in 1 .. 6 : j = 3 * i - 2 \/ j = 3 * i - 1)
      BY ONLY j \in 1 .. 17
    <3>2. u[j] = Colon \/ u[j] \in Digit
      BY ONLY <1>2, <3>1
    <3> QED
      BY ONLY <3>2 DEF Digit, Colon
  <2>3. Len(parts) <= 6
    BY ONLY <1>3
  <2> QED
    BY ONLY <1>2, <1>p, <2>1, <2>2, <2>3 DEF WellFormed
<1>6. FromHex(u) = [i \in 1 .. 6 |-> IF i > Len(parts) THEN 0
                                    ELSE 16 * DigitOf(parts[i][1]) + DigitOf(parts[i][2])]
  BY ONLY <1>5, <1>p DEF FromHex
<1>7. ASSUME NEW i \in 1 .. 6
      PROVE  /\ ~(i > Len(parts)) /\ DigitOf(parts[i][1]) = u[3 * i - 2]
             /\ DigitOf(parts[i][2]) = u[3 * i - 1]
  <2>1. \A c \in Digit : DigitOf(c) = c
    BY ONLY DEF Digit, DigitOf
  <2>2. ~(i > Len(parts))
    BY ONLY <1>3, i \in 1 .. 6
  <2> QED
    BY ONLY <1>2, <1>4, <2>1, <2>2, i \in 1 .. 6
<1> QED
  BY ONLY <1>6, <1>7

\* An address is read as it was written, and nothing but the whole of it is.
LEMMA AddressRead ==
  ASSUME NEW addr, addr \in [1 .. 6 -> Octet]
  PROVE  Len(FormatHex(addr)) = 17 /\ FromHex(FormatHex(addr)) = addr
<1>1. PICK high, low : high = [i \in 1 .. 6 |-> addr[i] \div 16] /\ low = [i \in 1 .. 6 |-> addr[i] % 16]
  OBVIOUS
<1>2. \A i \in 1 .. 6 : /\ high[i] = addr[i] \div 16 /\ low[i] = addr[i] % 16
                        /\ high[i] \in Digit /\ low[i] \in Digit /\ 16 * high[i] + low[i] = addr[i]
  <2> TAKE i \in 1 .. 6
  <2>1. PICK x, q, r : x = addr[i] /\ q = x \div 16 /\ r = x % 16
    OBVIOUS
  <2>2. x \in Nat /\ x < 256
    BY ONLY <2>1, i \in 1 .. 6, addr \in [1 .. 6 -> Octet] DEF Octet
  <2>3. x = 16 * q + r /\ q \in Nat /\ r \in Nat /\ r < 16
    <3>1. 16 \in Nat \ {0}
      OBVIOUS
    <3> QED
      BY ONLY <2>1, <2>2, <3>1, Division
  <2>4. high[i] = q /\ low[i] = r
    BY ONLY <1>1, <2>1, i \in 1 .. 6
  <2>5. q \in 0 .. 15 /\ r \in 0 .. 15 /\ 16 * q + r = x
    BY ONLY <2>2, <2>3
  <2> QED
    BY ONLY <2>1, <2>4, <2>5 DEF Digit
<1>3. PICK u : u = [j \in 1 .. 17 |-> IF j % 3 = 0 THEN Colon
                                     ELSE IF j % 3 = 1 THEN high[(j + 2) \div 3] ELSE low[(j + 1) \div 3]]
  OBVIOUS
<1>4. \A i \in 1 .. 6 : u[3 * i - 2] = high[i] /\ u[3 * i - 1] = low[i]
  <2> TAKE i \in 1 .. 6
  <2>1. PICK j, k : j = 3 * i - 2 /\ k = 3 * i - 1
    OBVIOUS
  <2>2. /\ j \in 1 .. 17 /\ k \in 1 .. 17 /\ j % 3 = 1 /\ k % 3 # 1 /\ k % 3 # 0 /\ j % 3 # 0
        /\ (j + 2) \div 3 = i /\ (k + 1) \div 3 = i
    BY ONLY <2>1, i \in 1 .. 6
  <2>3. u[j] = high[i] /\ u[k] = low[i]
    BY ONLY <1>3, <2>2
  <2> QED
    BY ONLY <2>1, <2>3
<1>5. \A i \in 1 .. 5 : u[3 * i] = Colon
  <2> TAKE i \in 1 .. 5
  <2>1. PICK j : j = 3 * i
    OBVIOUS
  <2>2. j \in 1 .. 17 /\ j % 3 = 0
    BY ONLY <2>1, i \in 1 .. 5
  <2>3. u[j] = Colon
    BY ONLY <1>3, <2>2
  <2> QED
    BY ONLY <2>1, <2>3
<1>6. u \in Seq(Octet) /\ Len(u) = 17
  <2>1. \A j \in 1 .. 17 : u[j] \in Octet
    <3> TAKE j \in 1 .. 17
    <3>1. (\E i \in 1 .. 5 : j = 3 * i) \/ (\E i \in 1 .. 6 : j = 3 * i - 2 \/ j = 3 * i - 1)
      BY ONLY j \in 1 .. 17
    <3>2. u[j] = Colon \/ u[j] \in Digit
      BY ONLY <1>2, <1>4, <1>5, <3>1
    <3> QED
      BY ONLY <3>2 DEF Digit, Colon, Octet
  <2>2. PICK n \in Nat : n = 17
    OBVIOUS
  <2>3. u \in [1 .. n -> Octet]
    BY ONLY <1>3, <2>1, <2>2
  <2>4. u \in Seq(Octet) /\ Len(u) = n
    BY ONLY n \in Nat, <2>3
  <2> QED
    BY ONLY <2>2, <2>4
<1>7. FormatHex(addr) = u
  <2>1. \A i \in 1 .. 6 : addr[i] \div 16 = u[3 * i - 2] /\ addr[i] % 16 = u[3 * i - 1]
    BY ONLY <1>2, <1>4
  <2> QED
    BY ONLY <1>5, <1>6, <2>1, AddressOctets
<1>8. SixDigits(u)
  BY ONLY <1>2, <1>4, <1>5, <1>6 DEF SixDigits
<1>9. FromHex(u) = addr
  <2>1. FromHex(u) = [i \in 1 .. 6 |-> 16 * u[3 * i - 2] + u[3 * i - 1]]
    BY ONLY <1>8, DigitsRead
  <2>2. \A i \in 1 .. 6 : 16 * u[3 * i - 2] + u[3 * i - 1] = addr[i]
    BY ONLY <1>2, <1>4
  <2>3. addr = [i \in 1 .. 6 |-> addr[i]]
    BY ONLY addr \in [1 .. 6 -> Octet]
  <2> QED
    BY ONLY <2>1, <2>2, <2>3
<1> QED
  BY ONLY <1>6, <1>7, <1>9

-----------------------------------------------------------------------------
(* Attributes.                                                             *)

\* The reading of v, whose octets end at q: past the end of the data it is refused, or, of
\* a list of UUIDs, there is what the data has.
Outcome(d, r, v, q) ==
  IF q <= Len(d) THEN r = Read(v, q)
  ELSE r.value \in {Failed, Panicked} \/ (r.value.type = "UuidList" /\ r.position = Len(d))

LEMMA FixedRead ==
  ASSUME NEW d, d \in Seq(Octet), NEW p, p \in Nat, NEW t, t \in DOMAIN Width,
         NEW v, v \in Seq(Octet), Len(v) = Width[t], Agrees(d, p, v), NEW q, q = p + Len(v)
  PROVE  Outcome(d, ReadFixed(d, p, t), Element(t, v), q)
<1>w. PICK w, n : w = Width[t] /\ n = Len(d)
  OBVIOUS
<1>1. w \in Nat /\ n \in Nat /\ q = p + w
  BY ONLY <1>w, d \in Seq(Octet), v \in Seq(Octet), Len(v) = Width[t], q = p + Len(v)
<1>2. CASE q <= n
  <2>1. ~(n - p < w)
    BY ONLY <1>1, <1>2, p \in Nat
  <2>2. SubSeq(d, p + 1, q) = v
    BY ONLY <1>w, <1>2, d \in Seq(Octet), p \in Nat, v \in Seq(Octet), Agrees(d, p, v),
       q = p + Len(v), AgreesSlice
  <2>3. ReadFixed(d, p, t) = Read(Element(t, v), q)
    BY ONLY <1>w, <1>1, <2>1, <2>2 DEF ReadFixed, Available, Slice
  <2> QED
    BY ONLY <1>w, <1>2, <2>3 DEF Outcome
<1>3. CASE ~(q <= n)
  <2>1. n - p < w
    BY ONLY <1>1, <1>3, p \in Nat
  <2>2. ReadFixed(d, p, t) = Read(Failed, p)
    BY ONLY <1>w, <2>1 DEF ReadFixed, Available
  <2> QED
    BY ONLY <1>w, <1>3, <2>2, ReadIs DEF Outcome
<1> QED
  BY ONLY <1>2, <1>3

LEMMA TextRead ==
  ASSUME NEW d, d \in Seq(Octet), NEW p, p \in Nat, NEW v, v \in Seq(Octet),
         Len(v) <= TextSize, Agrees(d, p, v), NEW q, q = p + Len(v)
  PROVE  Outcome(d, ReadText(d, p, Len(v)), Element("TextString", v), q)
<1>w. PICK w, n : w = Len(v) /\ n = Len(d)
  OBVIOUS
<1>1. w \in Nat /\ n \in Nat /\ TextSize \in Nat /\ q = p + w
  BY <1>w, SdpWireAssumption
<1>2. CASE q <= n
  <2>1. ~(w > n - p \/ w > TextSize)
    BY ONLY <1>w, <1>1, <1>2, p \in Nat, Len(v) <= TextSize
  <2>2. SubSeq(d, p + 1, q) = v
    BY ONLY <1>w, <1>2, d \in Seq(Octet), p \in Nat, v \in Seq(Octet), Agrees(d, p, v),
       q = p + Len(v), AgreesSlice
  <2>3. ReadText(d, p, w) = Read(Element("TextString", v), q)
    BY ONLY <1>w, <1>1, <2>1, <2>2 DEF ReadText, Available, Slice
  <2> QED
    BY ONLY <1>w, <1>2, <2>3 DEF Outcome
<1>3. CASE ~(q <= n)
  <2>1. w > n - p
    BY ONLY <1>1, <1>3, p \in Nat
  <2>2. ReadText(d, p, w) = Read(Failed, p)
    BY ONLY <1>w, <2>1 DEF ReadText, Available
  <2> QED
    BY ONLY <1>w, <1>3, <2>2, ReadIs DEF Outcome
<1> QED
  BY ONLY <1>2, <1>3

\* Within the UUIDs that are left the code panics, between two of them it ends the list.
LEMMA UuidsRead ==
  ASSUME NEW d, d \in Seq(Octet), NEW p, p \in Nat, p <= Len(d), NEW v, v \in Seq(Octet),
         NEW m, m \in 0 .. UuidCount, Len(v) = 16 * m, Agrees(d, p, v), NEW q, q = p + Len(v)
  PROVE  Outcome(d, ReadUuids(d, p, Len(v)), Element("UuidList", v), q)
<1>l. PICK n, u, w : n = Len(d) /\ u = UuidCount /\ w = Len(v)
  OBVIOUS
<1>1. n \in Nat /\ p <= n /\ u \in Nat /\ m \in Nat /\ m <= u /\ w = 16 * m /\ q = p + w /\ w \in Nat
  BY <1>l, SdpWireAssumption
<1>a. PICK a : a = n - p
  OBVIOUS
<1>2. a \in Nat /\ a + 16 - 1 \in Nat
  BY ONLY <1>1, <1>a, p \in Nat
<1>x. PICK x, y, whole : x = w \div 16 /\ y = (a + 16 - 1) \div 16 /\ whole = a \div 16
  OBVIOUS
<1>3. /\ x = m /\ y \in Nat /\ whole \in Nat
      /\ \E r \in Nat : a = 16 * whole + r /\ r < 16
      /\ \E r \in Nat : a + 15 = 16 * y + r /\ r < 16
  <2>1. 16 \in Nat \ {0}
    OBVIOUS
  <2>2. x = m
    <3>1. w \in Int /\ m \in Int /\ 0 \in Int /\ 0 <= 0 /\ 0 < 16 /\ w = 16 * m + 0
      BY ONLY <1>1
    <3> QED
      BY ONLY <1>x, <2>1, <3>1, Divided
  <2>3. PICK r : r = a % 16
    OBVIOUS
  <2>4. a = 16 * whole + r /\ whole \in Nat /\ r \in Nat /\ r < 16
    BY ONLY <1>2, <1>x, <2>1, <2>3, Division
  <2>5. PICK b, s : b = a + 16 - 1 /\ s = b % 16
    OBVIOUS
  <2>6. b = 16 * y + s /\ y \in Nat /\ s \in Nat /\ s < 16
    BY ONLY <1>2, <1>x, <2>1, <2>5, Division
  <2>7. b = a + 15
    BY ONLY <1>2, <2>5
  <2> QED
    BY ONLY <2>2, <2>4, <2>6, <2>7
<1>m. PICK wanted : wanted = Min({m, y})
  OBVIOUS
<1>4. wanted \in Nat /\ wanted <= m /\ wanted <= y /\ (wanted = m \/ wanted = y)
  BY ONLY <1>1, <1>3, <1>m, MinOfTwo
<1>t. PICK taken : taken = Min({wanted, whole})
  OBVIOUS
<1>5. taken \in Nat /\ taken <= wanted /\ taken <= whole /\ (taken = wanted \/ taken = whole)
  BY ONLY <1>3, <1>4, <1>t, MinOfTwo
<1>6. ReadUuids(d, p, w) =
        CASE taken > u -> Read(Failed, p + 16 * u)
          [] taken <= u /\ wanted > whole -> Read(Panicked, p + 16 * whole)
          [] OTHER -> Read(Element("UuidList", Slice(d, p, 16 * wanted)), p + 16 * wanted)
  BY ONLY <1>l, <1>a, <1>x, <1>3, <1>m, <1>t DEF ReadUuids, Available, UuidSize
<1>7. taken <= u /\ ~(taken > u)
  BY ONLY <1>1, <1>4, <1>5
<1>8. CASE q <= n
  <2>1. w <= a
    BY ONLY <1>1, <1>a, <1>8, p \in Nat
  <2>2. m <= whole /\ m <= y
    BY ONLY <1>1, <1>2, <1>3, <2>1
  <2>3. wanted = m /\ ~(wanted > whole)
    BY ONLY <1>1, <1>3, <1>4, <2>2
  <2>4. ReadUuids(d, p, w) = Read(Element("UuidList", Slice(d, p, 16 * wanted)), p + 16 * wanted)
    BY ONLY <1>6, <1>7, <2>3
  <2>5. 16 * wanted = w /\ p + w = q
    BY ONLY <1>1, <2>3
  <2>6. SubSeq(d, p + 1, q) = v
    BY ONLY <1>l, <1>8, d \in Seq(Octet), p \in Nat, v \in Seq(Octet), Agrees(d, p, v),
       q = p + Len(v), AgreesSlice
  <2>7. ReadUuids(d, p, w) = Read(Element("UuidList", v), q)
    BY ONLY <2>4, <2>5, <2>6 DEF Slice
  <2> QED
    BY ONLY <1>l, <1>8, <2>7 DEF Outcome
<1>9. CASE ~(q <= n)
  <2>1. a < w
    BY ONLY <1>1, <1>a, <1>9, p \in Nat
  <2>2. whole < m /\ whole <= y
    BY ONLY <1>1, <1>2, <1>3, <2>1
  <2>3. CASE wanted > whole
    <3>1. ReadUuids(d, p, w) = Read(Panicked, p + 16 * whole)
      BY ONLY <1>6, <1>7, <2>3
    <3> QED
      BY ONLY <1>l, <1>9, <3>1, ReadIs DEF Outcome
  <2>4. CASE ~(wanted > whole)
    <3>1. ReadUuids(d, p, w) = Read(Element("UuidList", Slice(d, p, 16 * wanted)), p + 16 * wanted)
      BY ONLY <1>6, <1>7, <2>4
    <3>2. p + 16 * wanted = n
      <4>1. y = whole /\ wanted = whole
        BY ONLY <1>1, <1>3, <1>4, <2>2, <2>4
      <4>2. a = 16 * whole
        BY ONLY <1>2, <1>3, <4>1
      <4> QED
        BY ONLY <1>1, <1>3, <1>a, <4>1, <4>2, p \in Nat
    <3>3. PICK r : r = ReadUuids(d, p, w)
      OBVIOUS
    <3>4. r.position = n /\ r.value.type = "UuidList"
      BY ONLY <3>1, <3>2, <3>3, ReadIs, ElementsAre
    <3> QED
      BY ONLY <1>l, <1>9, <3>3, <3>4 DEF Outcome
  <2> QED
    BY ONLY <2>3, <2>4
<1> QED
  BY ONLY <1>8, <1>9

\* A length is read as it was written, in one octet, two or four.
LEMMA LengthRead ==
  ASSUME NEW n, n \in Octet, NEW form, form \in DOMAIN LengthWidth
  PROVE  /\ Value(LengthOctets(n, form)) = n
         /\ Len(LengthOctets(n, form)) = LengthWidth[form]
<1>1. /\ form = 5 \/ form = 6 \/ form = 7
      /\ LengthWidth[5] = 1 /\ LengthWidth[6] = 2 /\ LengthWidth[7] = 4
  BY ONLY form \in DOMAIN LengthWidth DEF LengthWidth
<1>2. n \in Word /\ n \in Nat
  BY ONLY n \in Octet DEF Octet, Word
<1>3. CASE form = 5
  <2>1. LengthOctets(n, form) = <<n>>
    BY ONLY <1>3 DEF LengthOctets
  <2>2. PICK s : s = <<n>>
    OBVIOUS
  <2>3. s \in Seq(Octet) /\ Len(s) = 1 /\ s[1] = n
    BY ONLY <2>2, n \in Octet
  <2>4. PICK f : Valued(s, f)
    BY ONLY <2>3, ValueIs
  <2>5. f[0] = 0 /\ (\A i \in 1 .. 1 : f[i] = 256 * f[i - 1] + s[i]) /\ Value(s) = f[1]
    BY ONLY <2>3, <2>4 DEF Valued
  <2>6. 1 \in 1 .. 1 /\ 1 - 1 = 0
    OBVIOUS
  <2>7. f[1] = 256 * f[0] + s[1]
    BY ONLY <2>5, <2>6
  <2>8. Value(s) = n
    BY ONLY <1>2, <2>3, <2>5, <2>7
  <2> QED
    BY ONLY <1>1, <1>3, <2>1, <2>2, <2>3, <2>8
<1>4. CASE form = 6
  <2>1. LengthOctets(n, form) = BigEndian(n)
    BY ONLY <1>4 DEF LengthOctets
  <2>2. Value(BigEndian(n)) = n /\ Len(BigEndian(n)) = 2
    BY ONLY <1>2, ValueAgain, PairLength
  <2> QED
    BY ONLY <1>1, <1>4, <2>1, <2>2
<1>5. CASE form = 7
  <2>1. LengthOctets(n, form) = <<0, 0>> \o BigEndian(n)
    BY ONLY <1>5 DEF LengthOctets
  <2>2. PICK a, b : a = n \div 256 /\ b = n % 256
    OBVIOUS
  <2>3. a \in Octet /\ b \in Octet /\ b + 256 * a = n
    BY ONLY <1>2, <2>2, WordAgain
  <2>4. PICK s : s = <<0, 0>> \o <<a, b>>
    OBVIOUS
  <2>5. s = LengthOctets(n, form)
    BY ONLY <2>1, <2>2, <2>4 DEF BigEndian
  <2>6. 0 \in Octet
    BY ONLY DEF Octet
  <2>7. s \in Seq(Octet) /\ Len(s) = 4 /\ s[1] = 0 /\ s[2] = 0 /\ s[3] = a /\ s[4] = b
    BY ONLY <2>3, <2>4, <2>6
  <2>8. PICK f : Valued(s, f)
    BY ONLY <2>7, ValueIs
  <2>9. f[0] = 0 /\ (\A i \in 1 .. 4 : f[i] = 256 * f[i - 1] + s[i]) /\ Value(s) = f[4]
    BY ONLY <2>7, <2>8 DEF Valued
  <2>10. /\ 1 \in 1 .. 4 /\ 2 \in 1 .. 4 /\ 3 \in 1 .. 4 /\ 4 \in 1 .. 4
         /\ 1 - 1 = 0 /\ 2 - 1 = 1 /\ 3 - 1 = 2 /\ 4 - 1 = 3
    OBVIOUS
  <2>11. /\ f[1] = 256 * f[0] + s[1] /\ f[2] = 256 * f[1] + s[2]
         /\ f[3] = 256 * f[2] + s[3] /\ f[4] = 256 * f[3] + s[4]
    BY ONLY <2>9, <2>10
  <2>12. f[1] = 0 /\ f[2] = 0
    BY ONLY <2>7, <2>9, <2>11
  <2>13. a \in Nat /\ b \in Nat
    BY ONLY <2>3 DEF Octet
  <2>14. f[3] = a /\ f[4] = 256 * a + b
    BY ONLY <2>7, <2>11, <2>12, <2>13
  <2>15. Value(s) = n
    BY ONLY <2>3, <2>9, <2>13, <2>14
  <2> QED
    BY ONLY <1>1, <1>5, <2>5, <2>7, <2>15
<1> QED
  BY ONLY <1>1, <1>3, <1>4, <1>5

\* A length, and what it is the length of.
WithLength(v, form) == LengthOctets(Len(v), form) \o v

LEMMA VariableRead ==
  ASSUME NEW d, d \in Seq(Octet), NEW p, p \in Nat, p <= Len(d),
         NEW form, form \in DOMAIN LengthWidth, NEW v, v \in Seq(Octet), Len(v) \in Octet,
         NEW type, NEW t,
         \/ type = "TextString" /\ t = TextType /\ Len(v) <= TextSize
         \/ type = "UuidList" /\ t = SequenceType /\ \E m \in 0 .. UuidCount : Len(v) = 16 * m,
         NEW x, x = WithLength(v, form), Agrees(d, p, x), NEW q, q = p + Len(x)
  PROVE  Outcome(d, ReadVariable(d, p, t, form), Element(type, v), q)
<1>n. PICK n, w, k, l : n = Len(d) /\ w = Len(v) /\ k = LengthWidth[form] /\ l = LengthOctets(w, form)
  OBVIOUS
<1>1. l \in Seq(Octet) /\ Value(l) = w /\ Len(l) = k
  BY ONLY <1>n, Len(v) \in Octet, form \in DOMAIN LengthWidth, LengthWritten, LengthRead
<1>2. x = l \o v
  BY ONLY <1>n, x = WithLength(v, form) DEF WithLength
<1>3. Agrees(d, p, l) /\ Agrees(d, p + Len(l), v)
  BY ONLY <1>1, <1>2, p \in Nat, v \in Seq(Octet), Agrees(d, p, x), AgreesSplit
<1>4. n \in Nat /\ w \in Nat /\ k \in Nat /\ q = p + k + w /\ p + k \in Nat
  <2>1. Len(x) = Len(l) + Len(v)
    BY ONLY <1>1, <1>2, v \in Seq(Octet), Joined
  <2>2. n \in Nat /\ w \in Nat /\ k \in Nat
    BY ONLY <1>n, <1>1, d \in Seq(Octet), v \in Seq(Octet)
  <2> QED
    BY ONLY <1>n, <1>1, <2>1, <2>2, p \in Nat, q = p + Len(x)
<1>5. CASE n - p < k
  <2>1. ~(n - p >= k) /\ ~(q <= n)
    BY ONLY <1>4, <1>5, p \in Nat
  <2>2. ReadVariable(d, p, t, form) = Read(Failed, p)
    BY ONLY <1>n, <1>5, <2>1, form \in DOMAIN LengthWidth DEF ReadVariable, Available
  <2> QED
    BY ONLY <1>n, <2>1, <2>2, ReadIs DEF Outcome
<1>6. CASE n - p >= k
  <2>p. PICK s : s = p + k
    OBVIOUS
  <2>1. ~(n - p < k) /\ s <= n /\ s \in Nat /\ q = s + w
    BY ONLY <1>4, <1>6, <2>p, p \in Nat
  <2>2. Slice(d, p, k) = l
    <3>1. SubSeq(d, p + 1, s) = l
      BY ONLY <1>n, <1>1, <1>3, <2>p, <2>1, d \in Seq(Octet), p \in Nat, AgreesSlice
    <3> QED
      BY ONLY <2>p, <3>1 DEF Slice
  <2>3. Value(Slice(d, p, k)) = w
    BY ONLY <1>1, <2>2
  <2>4. Agrees(d, s, v)
    BY ONLY <1>1, <1>3, <2>p
  <2>5. CASE type = "TextString" /\ t = TextType /\ Len(v) <= TextSize
    <3>1. ReadVariable(d, p, t, form) = ReadText(d, s, w)
      BY ONLY <1>n, <1>6, <2>p, <2>1, <2>3, <2>5, form \in DOMAIN LengthWidth
      DEF ReadVariable, Available, TextType, SequenceType
    <3>2. q = s + Len(v)
      BY ONLY <1>n, <2>1
    <3>3. Outcome(d, ReadText(d, s, Len(v)), Element("TextString", v), q)
      BY ONLY <2>1, <2>4, <2>5, <3>2, d \in Seq(Octet), v \in Seq(Octet), TextRead
    <3> QED
      BY ONLY <1>n, <2>5, <3>1, <3>3
  <2>6. CASE type = "UuidList" /\ t = SequenceType /\ \E m \in 0 .. UuidCount : Len(v) = 16 * m
    <3>1. ReadVariable(d, p, t, form) = ReadUuids(d, s, w)
      BY ONLY <1>n, <1>6, <2>p, <2>1, <2>3, <2>6, form \in DOMAIN LengthWidth
      DEF ReadVariable, Available, TextType, SequenceType
    <3>2. q = s + Len(v) /\ s <= Len(d)
      BY ONLY <1>n, <2>1
    <3>3. PICK m : m \in 0 .. UuidCount /\ Len(v) = 16 * m
      BY ONLY <2>6
    <3>4. Outcome(d, ReadUuids(d, s, Len(v)), Element("UuidList", v), q)
      BY ONLY <2>1, <2>4, <3>2, <3>3, d \in Seq(Octet), v \in Seq(Octet), UuidsRead
    <3> QED
      BY ONLY <1>n, <2>6, <3>1, <3>4
  <2>7. \/ type = "TextString" /\ t = TextType /\ Len(v) <= TextSize
        \/ type = "UuidList" /\ t = SequenceType /\ \E m \in 0 .. UuidCount : Len(v) = 16 * m
    OBVIOUS
  <2> QED
    BY ONLY <2>5, <2>6, <2>7
<1> QED
  <2>1. n - p < k \/ n - p >= k
    BY ONLY <1>4, p \in Nat
  <2> QED
    BY ONLY <1>5, <1>6, <2>1

\* The descriptors of one size name their types, those of a length name none of them.
LEMMA DescriptorsDiffer ==
  ASSUME NEW t, t \in DOMAIN Width
  PROVE  /\ Descriptor[t] \in Octet /\ (Descriptor[t] < 8 => Descriptor[t] = 0)
         /\ {u \in DOMAIN Descriptor : Descriptor[u] = Descriptor[t]} = {t}
<1>1. DOMAIN Descriptor = {"Nil", "UnsignedInt8", "UnsignedInt16", "UnsignedInt32",
                           "Uuid16", "Uuid32", "Uuid128"}
      /\ DOMAIN Width = DOMAIN Descriptor
  BY ONLY DEF Descriptor, Width
<1>2. /\ Descriptor["Nil"] = 0 /\ Descriptor["UnsignedInt8"] = 8
      /\ Descriptor["UnsignedInt16"] = 9 /\ Descriptor["UnsignedInt32"] = 10
      /\ Descriptor["Uuid16"] = 25 /\ Descriptor["Uuid32"] = 26 /\ Descriptor["Uuid128"] = 28
  BY ONLY DEF Descriptor
<1>3. \/ t = "Nil" \/ t = "UnsignedInt8" \/ t = "UnsignedInt16" \/ t = "UnsignedInt32"
      \/ t = "Uuid16" \/ t = "Uuid32" \/ t = "Uuid128"
  BY ONLY <1>1, t \in DOMAIN Width
<1>4. Descriptor[t] \in Octet /\ (Descriptor[t] < 8 => Descriptor[t] = 0)
  BY ONLY <1>2, <1>3 DEF Octet
<1>5. ASSUME NEW u \in DOMAIN Descriptor, Descriptor[u] = Descriptor[t] PROVE u = t
  <2>1. \/ u = "Nil" \/ u = "UnsignedInt8" \/ u = "UnsignedInt16" \/ u = "UnsignedInt32"
        \/ u = "Uuid16" \/ u = "Uuid32" \/ u = "Uuid128"
    BY ONLY <1>1, u \in DOMAIN Descriptor
  <2> QED
    BY ONLY <1>2, <1>3, <1>5, <2>1
<1>6. {u \in DOMAIN Descriptor : Descriptor[u] = Descriptor[t]} = {t}
  <2>1. t \in DOMAIN Descriptor
    BY ONLY <1>1, t \in DOMAIN Width
  <2> QED
    BY ONLY <1>5, <2>1
<1> QED
  BY ONLY <1>4, <1>6

LEMMA NoDescriptor ==
  ASSUME NEW c, c \in {37, 38, 39, 53, 54, 55}
  PROVE  {u \in DOMAIN Descriptor : Descriptor[u] = c} = {}
<1>1. \A u \in DOMAIN Descriptor : Descriptor[u] \in {0, 8, 9, 10, 25, 26, 28}
  BY ONLY DEF Descriptor
<1>2. c \notin {0, 8, 9, 10, 25, 26, 28}
  OBVIOUS
<1> QED
  BY ONLY <1>1, <1>2

LEMMA FixedElementRead ==
  ASSUME NEW d, d \in Seq(Octet), NEW p, p \in Nat, p <= Len(d),
         NEW t, t \in DOMAIN Width, NEW v, v \in Seq(Octet), Len(v) = Width[t],
         NEW x, x = <<Descriptor[t]>> \o v, Agrees(d, p, x), NEW q, q = p + Len(x)
  PROVE  Outcome(d, ReadElement(d, p), Element(t, v), q)
<1>n. PICK n, c, h : n = Len(d) /\ c = Descriptor[t] /\ h = <<c>>
  OBVIOUS
<1>1. c \in Octet /\ (c < 8 => c = 0) /\ {u \in DOMAIN Descriptor : Descriptor[u] = c} = {t}
  BY ONLY <1>n, t \in DOMAIN Width, DescriptorsDiffer
<1>2. h \in Seq(Octet) /\ Len(h) = 1 /\ h[1] = c
  BY ONLY <1>n, <1>1
<1>3. x = h \o v
  BY ONLY <1>n, x = <<Descriptor[t]>> \o v
<1>4. Agrees(d, p, h) /\ Agrees(d, p + Len(h), v)
  BY ONLY <1>2, <1>3, p \in Nat, v \in Seq(Octet), Agrees(d, p, x), AgreesSplit
<1>s. PICK s : s = p + 1
  OBVIOUS
<1>5. n \in Nat /\ s \in Nat /\ q = s + Len(v) /\ Len(v) \in Nat
  <2>1. Len(x) = Len(h) + Len(v)
    BY ONLY <1>2, <1>3, v \in Seq(Octet), Joined
  <2>2. n \in Nat /\ Len(v) \in Nat
    BY ONLY <1>n, d \in Seq(Octet), v \in Seq(Octet)
  <2> QED
    BY ONLY <1>2, <1>s, <2>1, <2>2, p \in Nat, q = p + Len(x)
<1>6. CASE n - p < 1
  <2>1. ReadElement(d, p) = Read(Failed, p)
    BY ONLY <1>n, <1>6 DEF ReadElement, Available
  <2>2. ~(q <= n)
    BY ONLY <1>5, <1>6, <1>s, p \in Nat
  <2> QED
    BY ONLY <1>n, <2>1, <2>2, ReadIs DEF Outcome
<1>7. CASE ~(n - p < 1)
  <2>1. s <= n
    BY ONLY <1>5, <1>7, <1>s, p \in Nat
  <2>2. d[s] = c
    <3>1. 1 \in 1 .. Len(h)
      BY ONLY <1>2
    <3>2. p + 1 <= Len(d) => d[p + 1] = h[1]
      BY ONLY <1>4, <3>1 DEF Agrees
    <3> QED
      BY ONLY <1>n, <1>2, <1>s, <2>1, <3>2
  <2>k. PICK known : known = {u \in DOMAIN Descriptor : Descriptor[u] = (IF c < 8 THEN 0 ELSE c)}
    OBVIOUS
  <2>3. known = {t}
    BY ONLY <1>1, <2>k
  <2>4. ReadElement(d, p) =
          CASE known # {} -> ReadFixed(d, s, CHOOSE u \in known : TRUE)
            [] known = {} /\ c \div 8 \in {TextType, SequenceType} -> ReadVariable(d, s, c \div 8, c % 8)
            [] OTHER -> Read(Failed, s)
    BY ONLY <1>n, <1>s, <1>7, <2>2, <2>k DEF ReadElement, Available
  <2>5. known # {} /\ (CHOOSE u \in known : TRUE) = t
    BY ONLY <2>3
  <2>6. ReadElement(d, p) = ReadFixed(d, s, t)
    BY ONLY <2>4, <2>5
  <2>7. Agrees(d, s, v)
    BY ONLY <1>2, <1>4, <1>s
  <2>8. Outcome(d, ReadFixed(d, s, t), Element(t, v), q)
    BY ONLY <1>5, <2>7, d \in Seq(Octet), t \in DOMAIN Width, v \in Seq(Octet), Len(v) = Width[t],
       FixedRead
  <2> QED
    BY ONLY <2>6, <2>8
<1> QED
  BY ONLY <1>6, <1>7

LEMMA VariableElementRead ==
  ASSUME NEW d, d \in Seq(Octet), NEW p, p \in Nat, p <= Len(d),
         NEW form, form \in DOMAIN LengthWidth, NEW v, v \in Seq(Octet), Len(v) \in Octet,
         NEW type, NEW t,
         \/ type = "TextString" /\ t = TextType /\ Len(v) <= TextSize
         \/ type = "UuidList" /\ t = SequenceType /\ \E m \in 0 .. UuidCount : Len(v) = 16 * m,
         NEW x, x = <<8 * t + form>> \o WithLength(v, form), Agrees(d, p, x), NEW q, q = p + Len(x)
  PROVE  Outcome(d, ReadElement(d, p), Element(type, v), q)
<1>n. PICK n, c, h, w : n = Len(d) /\ c = 8 * t + form /\ h = <<c>> /\ w = WithLength(v, form)
  OBVIOUS
<1>1. /\ c \in Octet /\ ~(c < 8) /\ c \div 8 = t /\ c % 8 = form
      /\ {u \in DOMAIN Descriptor : Descriptor[u] = c} = {}
  <2>1. form = 5 \/ form = 6 \/ form = 7
    BY ONLY form \in DOMAIN LengthWidth DEF LengthWidth
  <2>2. t = 4 \/ t = 6
    BY DEF TextType, SequenceType
  <2>3. c = 37 \/ c = 38 \/ c = 39 \/ c = 53 \/ c = 54 \/ c = 55
    BY ONLY <1>n, <2>1, <2>2
  <2>4. c \in {37, 38, 39, 53, 54, 55} /\ c \in Octet /\ ~(c < 8)
    BY ONLY <2>3 DEF Octet
  <2>5. c \div 8 = t /\ c % 8 = form
    <3>1. /\ 8 \in Nat \ {0} /\ c \in Int /\ t \in Int /\ form \in Int /\ 0 <= form /\ form < 8
          /\ c = 8 * t + form
      BY ONLY <1>n, <2>1, <2>2, <2>3
    <3> QED
      BY ONLY <3>1, Divided
  <2> QED
    BY ONLY <2>4, <2>5, NoDescriptor
<1>2. h \in Seq(Octet) /\ Len(h) = 1 /\ h[1] = c
  BY ONLY <1>n, <1>1
<1>3. w \in Seq(Octet)
  <2>1. LengthOctets(Len(v), form) \in Seq(Octet)
    BY ONLY Len(v) \in Octet, form \in DOMAIN LengthWidth, LengthWritten
  <2> QED
    BY ONLY <1>n, <2>1, v \in Seq(Octet), Joined DEF WithLength
<1>4. x = h \o w
  BY ONLY <1>n, x = <<8 * t + form>> \o WithLength(v, form)
<1>5. Agrees(d, p, h) /\ Agrees(d, p + Len(h), w)
  BY ONLY <1>2, <1>3, <1>4, p \in Nat, Agrees(d, p, x), AgreesSplit
<1>s. PICK s : s = p + 1
  OBVIOUS
<1>6. n \in Nat /\ s \in Nat /\ q = s + Len(w) /\ Len(w) \in Nat
  <2>1. Len(x) = Len(h) + Len(w)
    BY ONLY <1>2, <1>3, <1>4, Joined
  <2>2. n \in Nat /\ Len(w) \in Nat
    BY ONLY <1>n, <1>3, d \in Seq(Octet)
  <2> QED
    BY ONLY <1>2, <1>s, <2>1, <2>2, p \in Nat, q = p + Len(x)
<1>7. CASE n - p < 1
  <2>1. ReadElement(d, p) = Read(Failed, p)
    BY ONLY <1>n, <1>7 DEF ReadElement, Available
  <2>2. ~(q <= n)
    BY ONLY <1>6, <1>7, <1>s, p \in Nat
  <2> QED
    BY ONLY <1>n, <2>1, <2>2, ReadIs DEF Outcome
<1>8. CASE ~(n - p < 1)
  <2>1. s <= n
    BY ONLY <1>6, <1>8, <1>s, p \in Nat
  <2>2. d[s] = c
    <3>1. 1 \in 1 .. Len(h)
      BY ONLY <1>2
    <3>2. p + 1 <= Len(d) => d[p + 1] = h[1]
      BY ONLY <1>5, <3>1 DEF Agrees
    <3> QED
      BY ONLY <1>n, <1>2, <1>s, <2>1, <3>2
  <2>k. PICK known : known = {u \in DOMAIN Descriptor : Descriptor[u] = (IF c < 8 THEN 0 ELSE c)}
    OBVIOUS
  <2>3. known = {}
    BY ONLY <1>1, <2>k
  <2>4. ReadElement(d, p) =
          CASE known # {} -> ReadFixed(d, s, CHOOSE u \in known : TRUE)
            [] known = {} /\ c \div 8 \in {TextType, SequenceType} -> ReadVariable(d, s, c \div 8, c % 8)
            [] OTHER -> Read(Failed, s)
    BY ONLY <1>n, <1>s, <1>8, <2>2, <2>k DEF ReadElement, Available
  <2>5. t \in {TextType, SequenceType}
    OBVIOUS
  <2>6. ReadElement(d, p) = ReadVariable(d, s, t, form)
    BY ONLY <1>1, <2>3, <2>4, <2>5
  <2>7. Agrees(d, s, w) /\ s <= Len(d)
    BY ONLY <1>n, <1>2, <1>5, <1>s, <2>1
  <2>8. Outcome(d, ReadVariable(d, s, t, form), Element(type, v), q)
    <3>1. \/ type = "TextString" /\ t = TextType /\ Len(v) <= TextSize
          \/ type = "UuidList" /\ t = SequenceType /\ \E m \in 0 .. UuidCount : Len(v) = 16 * m
      OBVIOUS
    <3> QED
      BY ONLY <1>n, <1>6, <2>7, <3>1, d \in Seq(Octet), form \in DOMAIN LengthWidth, v \in Seq(Octet),
         Len(v) \in Octet, VariableRead
  <2> QED
    BY ONLY <2>6, <2>8
<1> QED
  BY ONLY <1>7, <1>8

LEMMA ElementRead ==
  ASSUME NEW d, d \in Seq(Octet), NEW p, p \in Nat, p <= Len(d), NEW e, e \in HeldElement,
         NEW form, form \in DOMAIN LengthWidth,
         NEW x, x = ElementOctets(e, form), Agrees(d, p, x), NEW q, q = p + Len(x)
  PROVE  Outcome(d, ReadElement(d, p), e, q)
<1>e. PICK type, v : type = e.type /\ v = e.value
  OBVIOUS
<1>1. /\ v \in Seq(Octet) /\ Len(v) \in Octet /\ Len(v) \in Room(type)
      /\ type \in DOMAIN Width \cup {"TextString", "UuidList"} /\ e = Element(type, v)
  BY <1>e DEF HeldElement, Element
<1>2. "TextString" \notin DOMAIN Width /\ "UuidList" \notin DOMAIN Width
  BY ONLY DEF Width
<1>3. CASE type \in DOMAIN Width
  <2>1. x = <<Descriptor[type]>> \o v
    BY ONLY <1>e, <1>3, x = ElementOctets(e, form) DEF ElementOctets
  <2>2. Len(v) = Width[type]
    <3>1. Room(type) = {Width[type]}
      BY ONLY <1>2, <1>3 DEF Room
    <3> QED
      BY ONLY <1>1, <3>1
  <2>3. Outcome(d, ReadElement(d, p), Element(type, v), q)
    BY ONLY <1>1, <1>3, <2>1, <2>2, d \in Seq(Octet), p \in Nat, p <= Len(d), Agrees(d, p, x),
       q = p + Len(x), FixedElementRead
  <2> QED
    BY ONLY <1>1, <2>3
<1>4. CASE type \notin DOMAIN Width
  <2>1. PICK t, l : t = (IF type = "UuidList" THEN SequenceType ELSE TextType)
                    /\ l = LengthOctets(Len(v), form)
    OBVIOUS
  <2>2. PICK h : h = <<8 * t + form>>
    OBVIOUS
  <2>3. x = h \o l \o v
    BY ONLY <1>e, <1>4, <2>1, <2>2, x = ElementOctets(e, form) DEF ElementOctets
  <2>4. x = h \o WithLength(v, form)
    <3>1. l \in Seq(Octet)
      BY ONLY <1>1, <2>1, form \in DOMAIN LengthWidth, LengthWritten
    <3>2. 8 * t + form \in Octet
      <4>1. form = 5 \/ form = 6 \/ form = 7
        BY ONLY form \in DOMAIN LengthWidth DEF LengthWidth
      <4>2. t = 6 \/ t = 4
        BY ONLY <2>1 DEF SequenceType, TextType
      <4> QED
        BY ONLY <4>1, <4>2 DEF Octet
    <3>3. h \in Seq(Octet)
      BY ONLY <2>2, <3>2
    <3>4. (h \o l) \o v = h \o (l \o v)
      BY ONLY <1>1, <3>1, <3>3, ConcatAssociative
    <3> QED
      BY ONLY <2>1, <2>3, <3>4 DEF WithLength
  <2>5. \/ type = "TextString" /\ t = TextType /\ Len(v) <= TextSize
        \/ type = "UuidList" /\ t = SequenceType /\ \E m \in 0 .. UuidCount : Len(v) = 16 * m
    <3>1. CASE type = "TextString"
      <4>1. Room(type) = 0 .. TextSize
        BY ONLY <3>1 DEF Room
      <4>2. PICK n : n = Len(v)
        OBVIOUS
      <4>3. n \in 0 .. TextSize
        BY ONLY <1>1, <4>1, <4>2
      <4>4. TextSize \in Nat
        BY SdpWireAssumption
      <4>5. n <= TextSize
        BY ONLY <4>3, <4>4
      <4>6. type # "UuidList"
        BY ONLY <3>1
      <4> QED
        BY ONLY <2>1, <3>1, <4>2, <4>5, <4>6
    <3>2. CASE type = "UuidList"
      <4>1. Room(type) = {16 * m : m \in 0 .. UuidCount}
        BY ONLY <3>2 DEF Room, UuidSize
      <4> QED
        BY ONLY <1>1, <2>1, <3>2, <4>1
    <3> QED
      BY ONLY <1>1, <1>4, <3>1, <3>2
  <2>6. x = <<8 * t + form>> \o WithLength(v, form)
    BY ONLY <2>2, <2>4
  <2>7. Outcome(d, ReadElement(d, p), Element(type, v), q)
    BY ONLY <1>1, <2>5, <2>6, d \in Seq(Octet), p \in Nat, p <= Len(d), Agrees(d, p, x),
       form \in DOMAIN LengthWidth, q = p + Len(x), VariableElementRead
  <2> QED
    BY ONLY <1>1, <2>7
<1> QED
  BY ONLY <1>3, <1>4

AttributeOctets(a, form) == BigEndian(a.id) \o ElementOctets(a.value, form)

\* An attribute is read as it was sent, and one that is cut is refused or a list of UUIDs.
LEMMA AttributeRead ==
  ASSUME NEW d, d \in Seq(Octet), NEW p, p \in Nat, NEW a, a \in HeldAttribute,
         NEW form, form \in DOMAIN LengthWidth,
         NEW x, x = AttributeOctets(a, form), Agrees(d, p, x), NEW q, q = p + Len(x)
  PROVE  IF q <= Len(d) THEN ReadAttribute(d, p) = Read(a, q) /\ a \notin {Failed, Panicked}
         ELSE \/ ReadAttribute(d, p).value \in {Failed, Panicked}
              \/ /\ ReadAttribute(d, p).value.value.type = "UuidList"
                 /\ ReadAttribute(d, p).position = Len(d)
<1>n. PICK n, i, e, h, o : /\ n = Len(d) /\ i = a.id /\ e = a.value /\ h = BigEndian(i)
                           /\ o = ElementOctets(e, form)
  OBVIOUS
<1>1. i \in Word /\ e \in HeldElement /\ a = [id |-> i, value |-> e]
  BY ONLY <1>n, a \in HeldAttribute DEF HeldAttribute
<1>2. h \in Seq(Octet) /\ Len(h) = 2 /\ Value(h) = i
  BY ONLY <1>n, <1>1, WordsAreTwoOctets, PairLength, ValueAgain
<1>3. o \in Seq(Octet)
  BY ONLY <1>n, <1>1, form \in DOMAIN LengthWidth, ElementWritten
<1>4. x = h \o o
  BY ONLY <1>n, x = AttributeOctets(a, form) DEF AttributeOctets
<1>5. Agrees(d, p, h) /\ Agrees(d, p + Len(h), o)
  BY ONLY <1>2, <1>3, <1>4, p \in Nat, Agrees(d, p, x), AgreesSplit
<1>s. PICK s : s = p + 2
  OBVIOUS
<1>6. n \in Nat /\ s \in Nat /\ q = s + Len(o) /\ Len(o) \in Nat
  <2>1. Len(x) = Len(h) + Len(o)
    BY ONLY <1>2, <1>3, <1>4, Joined
  <2>2. n \in Nat /\ Len(o) \in Nat
    BY ONLY <1>n, <1>3, d \in Seq(Octet)
  <2> QED
    BY ONLY <1>2, <1>s, <2>1, <2>2, p \in Nat, q = p + Len(x)
<1>7. CASE n - p < 2
  <2>1. PICK r : r = ReadAttribute(d, p)
    OBVIOUS
  <2>2. r = Read(Failed, p)
    BY ONLY <1>n, <1>7, <2>1 DEF ReadAttribute, Available
  <2>3. ~(q <= n) /\ r.value = Failed
    BY ONLY <1>6, <1>7, <1>s, <2>2, p \in Nat, ReadIs
  <2> QED
    BY ONLY <1>n, <2>1, <2>3
<1>8. CASE ~(n - p < 2)
  <2>1. s <= Len(d) /\ Agrees(d, s, o)
    BY ONLY <1>n, <1>2, <1>5, <1>6, <1>8, <1>s, p \in Nat
  <2>r. PICK r : r = ReadElement(d, s)
    OBVIOUS
  <2>2. Outcome(d, r, e, q)
    BY ONLY <1>n, <1>1, <1>6, <2>1, <2>r, d \in Seq(Octet), form \in DOMAIN LengthWidth, ElementRead
  <2>3. Slice(d, p, 2) = h
    <3>1. s = p + Len(h)
      BY ONLY <1>2, <1>s
    <3>2. SubSeq(d, p + 1, s) = h
      BY ONLY <1>2, <1>5, <2>1, <3>1, d \in Seq(Octet), p \in Nat, AgreesSlice
    <3> QED
      BY ONLY <1>s, <3>2 DEF Slice
  <2>4. PICK b : b = [id |-> i, value |-> r.value]
    OBVIOUS
  <2>5. ReadAttribute(d, p) = IF r.value \in {Failed, Panicked} THEN r ELSE Read(b, r.position)
    BY ONLY <1>n, <1>2, <1>8, <1>s, <2>r, <2>3, <2>4 DEF ReadAttribute, Available
  <2>6. CASE q <= n
    <3>1. r.value = e /\ r.position = q
      BY ONLY <1>n, <2>2, <2>6, ReadIs DEF Outcome
    <3>2. e \notin {Failed, Panicked} /\ a \notin {Failed, Panicked}
      BY <1>1, ErrorsAreNoValues
    <3>3. b = a
      BY ONLY <1>1, <2>4, <3>1
    <3>4. ReadAttribute(d, p) = Read(a, q)
      BY ONLY <2>5, <3>1, <3>2, <3>3
    <3> QED
      BY ONLY <1>n, <2>6, <3>2, <3>4
  <2>7. CASE ~(q <= n)
    <3>1. r.value \in {Failed, Panicked} \/ (r.value.type = "UuidList" /\ r.position = n)
      BY ONLY <1>n, <2>2, <2>7 DEF Outcome
    <3>2. CASE r.value \in {Failed, Panicked}
      BY ONLY <1>n, <2>5, <2>7, <3>2
    <3>3. CASE r.value \notin {Failed, Panicked} /\ r.value.type = "UuidList" /\ r.position = n
      <4>1. ReadAttribute(d, p) = Read(b, n)
        BY ONLY <2>5, <3>3
      <4>2. PICK y : y = ReadAttribute(d, p)
        OBVIOUS
      <4>3. y.value = b /\ y.position = n
        BY ONLY <4>1, <4>2, ReadIs
      <4>4. y.value.value.type = "UuidList"
        BY ONLY <2>4, <3>3, <4>3
      <4> QED
        BY ONLY <1>n, <2>7, <4>2, <4>3, <4>4
    <3> QED
      BY ONLY <3>1, <3>2, <3>3
  <2> QED
    BY ONLY <2>6, <2>7
<1> QED
  BY ONLY <1>7, <1>8

-----------------------------------------------------------------------------
(* Lists of attributes.                                                    *)

\* The octets of each.
EachWritten(list, form) == [i \in DOMAIN list |-> AttributeOctets(list[i], form)]

LEMMA ListIs ==
  ASSUME NEW list, NEW form
  PROVE  ListOctets(list, form) = FlattenSeq(EachWritten(list, form))
  BY ONLY DEF ListOctets, EachWritten, AttributeOctets

LEMMA AttributeWritten ==
  ASSUME NEW a, a \in HeldAttribute, NEW form, form \in DOMAIN LengthWidth
  PROVE  /\ AttributeOctets(a, form) \in Seq(Octet)
         /\ Len(AttributeOctets(a, form)) = 2 + Len(ElementOctets(a.value, form))
         /\ Len(AttributeOctets(a, form)) > 0
<1>1. a.id \in Word /\ a.value \in HeldElement
  BY ONLY a \in HeldAttribute DEF HeldAttribute
<1>2. PICK h, o : h = BigEndian(a.id) /\ o = ElementOctets(a.value, form)
  OBVIOUS
<1>3. h \in Seq(Octet) /\ Len(h) = 2 /\ o \in Seq(Octet)
  BY ONLY <1>1, <1>2, form \in DOMAIN LengthWidth, WordsAreTwoOctets, PairLength, ElementWritten
<1>4. h \o o \in Seq(Octet) /\ Len(h \o o) = Len(h) + Len(o)
  BY ONLY <1>3, Joined
<1>5. Len(o) \in Nat
  BY ONLY <1>3
<1> QED
  BY ONLY <1>2, <1>3, <1>4, <1>5 DEF AttributeOctets

LEMMA EachTyped ==
  ASSUME NEW list, list \in Seq(HeldAttribute), NEW form, form \in DOMAIN LengthWidth
  PROVE  EachWritten(list, form) \in Seq(Seq(Octet))
<1>1. PICK l, n, A : l = EachWritten(list, form) /\ n = Len(list) /\ A = Seq(Octet)
  OBVIOUS
<1>2. n \in Nat /\ DOMAIN list = 1 .. n /\ \A i \in 1 .. n : list[i] \in HeldAttribute
  BY ONLY <1>1, list \in Seq(HeldAttribute)
<1>3. \A i \in 1 .. n : AttributeOctets(list[i], form) \in A
  BY ONLY <1>1, <1>2, form \in DOMAIN LengthWidth, AttributeWritten
<1>4. l \in [1 .. n -> A]
  BY ONLY <1>1, <1>2, <1>3 DEF EachWritten
<1>5. l \in Seq(A)
  BY ONLY <1>2, <1>4
<1> QED
  BY ONLY <1>1, <1>5

\* The octets of the first k attributes.
Beginning(list, form, k) == ListOctets(SubSeq(list, 1, k), form)

LEMMA BeginningIs ==
  ASSUME NEW list, list \in Seq(HeldAttribute), NEW form, form \in DOMAIN LengthWidth
  PROVE  /\ Beginning(list, form, 0) = <<>>
         /\ Beginning(list, form, Len(list)) = ListOctets(list, form)
         /\ \A k \in 0 .. Len(list) : Beginning(list, form, k) \in Seq(Octet)
         /\ \A k \in 1 .. Len(list) :
              Beginning(list, form, k) = Beginning(list, form, k - 1) \o AttributeOctets(list[k], form)
<1>1. PICK n : n = Len(list)
  OBVIOUS
<1>2. n \in Nat /\ \A i \in 1 .. n : list[i] \in HeldAttribute
  BY ONLY <1>1, list \in Seq(HeldAttribute)
<1>3. Beginning(list, form, 0) = <<>>
  <2>1. SubSeq(list, 1, 0) = <<>>
    <3>1. 1 \in Int /\ 0 \in Int /\ 0 < 1
      OBVIOUS
    <3> QED
      BY ONLY <3>1, SubSeqEmpty
  <2>2. EachWritten(<<>>, form) = <<>> /\ Len(EachWritten(<<>>, form)) = 0
    BY ONLY DEF EachWritten
  <2>3. ListOctets(<<>>, form) = <<>>
    BY ONLY <2>2, ListIs, FlattenEmpty
  <2> QED
    BY ONLY <2>1, <2>3 DEF Beginning
<1>4. Beginning(list, form, n) = ListOctets(list, form)
  <2>1. SubSeq(list, 1, Len(list)) = list
    BY ONLY list \in Seq(HeldAttribute), SubSeqFull
  <2> QED
    BY ONLY <1>1, <2>1 DEF Beginning
<1>5. ASSUME NEW k \in 0 .. n PROVE SubSeq(list, 1, k) \in Seq(HeldAttribute)
                                    /\ Len(SubSeq(list, 1, k)) = k
                                    /\ \A i \in 1 .. k : SubSeq(list, 1, k)[i] = list[i]
  <2>1. 1 \in Int /\ k \in Int /\ k \in Nat /\ \A i \in 1 .. k : i \in 1 .. n
    BY ONLY <1>2, k \in 0 .. n
  <2>2. \A i \in 1 .. k : list[i] \in HeldAttribute
    BY ONLY <1>2, <2>1
  <2>3. /\ SubSeq(list, 1, k) \in Seq(HeldAttribute)
        /\ Len(SubSeq(list, 1, k)) = IF 1 <= k THEN k - 1 + 1 ELSE 0
        /\ \A i \in 1 .. k - 1 + 1 : SubSeq(list, 1, k)[i] = list[1 + i - 1]
    BY ONLY <2>1, <2>2, SubSeqProperties
  <2>4. /\ k - 1 + 1 = k /\ (IF 1 <= k THEN k - 1 + 1 ELSE 0) = k
        /\ \A i \in 1 .. k : 1 + i - 1 = i
    BY ONLY <2>1
  <2> QED
    BY ONLY <2>3, <2>4
<1>6. \A k \in 0 .. n : Beginning(list, form, k) \in Seq(Octet)
  BY ONLY <1>5, form \in DOMAIN LengthWidth, ListWritten DEF Beginning
<1>7. ASSUME NEW k \in 1 .. n
      PROVE  Beginning(list, form, k) = Beginning(list, form, k - 1) \o AttributeOctets(list[k], form)
  <2>1. PICK s, t, a, j : s = SubSeq(list, 1, j) /\ t = SubSeq(list, 1, k) /\ a = list[k] /\ j = k - 1
    OBVIOUS
  <2>2. j \in 0 .. n /\ k \in 0 .. n /\ j \in Nat /\ k = j + 1
    BY ONLY <1>2, <2>1, k \in 1 .. n
  <2>3. /\ s \in Seq(HeldAttribute) /\ Len(s) = j /\ \A i \in 1 .. j : s[i] = list[i]
        /\ t \in Seq(HeldAttribute) /\ Len(t) = k /\ \A i \in 1 .. k : t[i] = list[i]
    BY ONLY <1>5, <2>1, <2>2
  <2>4. a \in HeldAttribute
    BY ONLY <1>2, <2>1, k \in 1 .. n
  <2>5. PICK l, x : l = EachWritten(s, form) /\ x = AttributeOctets(a, form)
    OBVIOUS
  <2>6. l \in Seq(Seq(Octet)) /\ x \in Seq(Octet)
    BY ONLY <2>3, <2>4, <2>5, form \in DOMAIN LengthWidth, EachTyped, AttributeWritten
  <2>7. Len(l) = j /\ \A i \in 1 .. j : l[i] = AttributeOctets(list[i], form)
    <3>1. DOMAIN s = 1 .. j
      BY ONLY <2>3
    <3>2. DOMAIN l = 1 .. j /\ \A i \in 1 .. j : l[i] = AttributeOctets(list[i], form)
      BY ONLY <2>3, <2>5, <3>1 DEF EachWritten
    <3>3. Len(l) = j
      BY ONLY <2>2, <2>6, <3>2
    <3> QED
      BY ONLY <3>2, <3>3
  <2>8. EachWritten(t, form) = Append(l, x)
    <3>1. PICK m, r : m = EachWritten(t, form) /\ r = Append(l, x)
      OBVIOUS
    <3>2. m \in Seq(Seq(Octet))
      BY ONLY <2>3, <3>1, form \in DOMAIN LengthWidth, EachTyped
    <3>3. DOMAIN t = 1 .. k
      BY ONLY <2>3
    <3>4. DOMAIN m = 1 .. k /\ \A i \in 1 .. k : m[i] = AttributeOctets(list[i], form)
      BY ONLY <2>3, <3>1, <3>3 DEF EachWritten
    <3>5. Len(m) = k
      BY ONLY <2>2, <3>2, <3>4
    <3>6. /\ r \in Seq(Seq(Octet)) /\ Len(r) = j + 1 /\ r[j + 1] = x
          /\ \A i \in 1 .. j : r[i] = l[i]
      <4>1. PICK A : A = Seq(Octet)
        OBVIOUS
      <4>2. l \in Seq(A) /\ x \in A
        BY ONLY <2>6, <4>1
      <4>3. r \in Seq(A) /\ Len(r) = Len(l) + 1 /\ r[Len(l) + 1] = x /\ \A i \in 1 .. Len(l) : r[i] = l[i]
        BY ONLY <3>1, <4>2
      <4> QED
        BY ONLY <2>7, <4>1, <4>3
    <3>7. \A i \in 1 .. k : m[i] = r[i]
      <4> TAKE i \in 1 .. k
      <4>1. CASE i = k
        BY ONLY <2>1, <2>2, <2>5, <3>4, <3>6, <4>1, i \in 1 .. k
      <4>2. CASE i # k
        <5>1. i \in 1 .. j
          BY ONLY <2>2, <4>2, i \in 1 .. k
        <5> QED
          BY ONLY <2>7, <3>4, <3>6, <5>1, i \in 1 .. k
      <4> QED
        BY ONLY <4>1, <4>2
    <3>8. Len(m) = Len(r)
      BY ONLY <2>2, <3>5, <3>6
    <3>9. m = r
      BY ONLY <3>2, <3>5, <3>6, <3>7, <3>8, SeqEqual
    <3> QED
      BY ONLY <3>1, <3>9
  <2>9. FlattenSeq(Append(l, x)) = FlattenSeq(l) \o x
    BY ONLY <2>6, FlattenAppend
  <2>10. Beginning(list, form, k) = FlattenSeq(l) \o x
    BY ONLY <2>1, <2>8, <2>9, ListIs DEF Beginning
  <2>11. Beginning(list, form, j) = FlattenSeq(l)
    BY ONLY <2>1, <2>5, ListIs DEF Beginning
  <2> QED
    BY ONLY <2>1, <2>5, <2>10, <2>11
<1> QED
  BY ONLY <1>1, <1>3, <1>4, <1>6, <1>7

\* The attributes of a list are where the ones before them end, and the list is longer than
\* any beginning of it.
LEMMA AlongList ==
  ASSUME NEW list, list \in Seq(HeldAttribute), NEW form, form \in DOMAIN LengthWidth,
         NEW d, d \in Seq(Octet), Agrees(d, 0, ListOctets(list, form))
  PROVE  /\ \A k \in 0 .. Len(list) :
              /\ Len(Beginning(list, form, k)) \in Nat
              /\ Len(Beginning(list, form, k)) <= Len(ListOctets(list, form))
              /\ k # Len(list) => Len(Beginning(list, form, k)) < Len(ListOctets(list, form))
         /\ \A k \in 1 .. Len(list) :
              /\ Len(Beginning(list, form, k)) =
                   Len(Beginning(list, form, k - 1)) + Len(AttributeOctets(list[k], form))
              /\ Agrees(d, Len(Beginning(list, form, k - 1)), AttributeOctets(list[k], form))
<1>1. PICK N, w : N = Len(list) /\ w = ListOctets(list, form)
  OBVIOUS
<1> DEFINE B(k) == Beginning(list, form, k)
           X(k) == AttributeOctets(list[k], form)
           Follows(k) == \E t \in Seq(Octet) : w = B(k) \o t
<1>2. N \in Nat /\ w \in Seq(Octet) /\ \A k \in 1 .. N : list[k] \in HeldAttribute
  BY ONLY <1>1, list \in Seq(HeldAttribute), form \in DOMAIN LengthWidth, ListWritten
<1>3. /\ B(N) = w /\ \A k \in 0 .. N : B(k) \in Seq(Octet)
      /\ \A k \in 1 .. N : B(k) = B(k - 1) \o X(k)
  BY ONLY <1>1, list \in Seq(HeldAttribute), form \in DOMAIN LengthWidth, BeginningIs
<1>4. \A k \in 1 .. N : X(k) \in Seq(Octet) /\ Len(X(k)) > 0
  BY ONLY <1>2, form \in DOMAIN LengthWidth, AttributeWritten
<1> HIDE DEF B, X
<1>5. \A k \in 0 .. N : Follows(k)
  <2> DEFINE S == {j \in 0 .. N : Follows(N - j)}
  <2>1. 0 \in S
    <3>1. <<>> \in Seq(Octet) /\ w \o <<>> = w
      BY ONLY <1>2, ConcatEmptySeq
    <3>2. N - 0 = N /\ 0 \in 0 .. N
      BY ONLY <1>2
    <3> QED
      BY ONLY <1>3, <3>1, <3>2
  <2>2. ASSUME NEW j \in 1 .. N, j - 1 \in S PROVE j \in S
    <3>1. PICK k : k = N - j
      OBVIOUS
    <3>2. PICK m : m = k + 1
      OBVIOUS
    <3>3. k \in 0 .. N /\ m \in 1 .. N /\ m - 1 = k /\ N - (j - 1) = m /\ j \in 0 .. N
      BY ONLY <1>2, <3>1, <3>2, j \in 1 .. N
    <3>4. PICK t \in Seq(Octet) : w = B(m) \o t
      BY ONLY <2>2, <3>3
    <3>5. B(m) = B(k) \o X(m) /\ X(m) \in Seq(Octet) /\ B(k) \in Seq(Octet)
      BY ONLY <1>3, <1>4, <3>3
    <3>6. (B(k) \o X(m)) \o t = B(k) \o (X(m) \o t)
      BY ONLY <3>5, t \in Seq(Octet), ConcatAssociative
    <3>7. X(m) \o t \in Seq(Octet)
      BY ONLY <3>5, t \in Seq(Octet), Joined
    <3>8. Follows(k)
      BY ONLY <3>4, <3>5, <3>6, <3>7
    <3> QED
      BY ONLY <3>1, <3>3, <3>8
  <2> HIDE DEF S
  <2>3. \A j \in 0 .. N : j \in S
    BY ONLY <1>2, <2>1, <2>2, Induction
  <2> SUFFICES ASSUME NEW k \in 0 .. N PROVE Follows(k)
    OBVIOUS
  <2>4. PICK j : j = N - k
    OBVIOUS
  <2>5. j \in 0 .. N /\ N - j = k
    BY ONLY <1>2, <2>4, k \in 0 .. N
  <2>6. j \in S
    BY ONLY <2>3, <2>5
  <2> QED
    BY ONLY <2>5, <2>6 DEF S
<1>6. ASSUME NEW k \in 0 .. N PROVE Len(B(k)) \in Nat /\ Len(B(k)) <= Len(w)
  <2>1. PICK t \in Seq(Octet) : w = B(k) \o t
    BY ONLY <1>5, k \in 0 .. N
  <2>2. B(k) \in Seq(Octet)
    BY ONLY <1>3, k \in 0 .. N
  <2>3. Len(w) = Len(B(k)) + Len(t)
    BY ONLY <2>1, <2>2, t \in Seq(Octet), Joined
  <2>4. Len(B(k)) \in Nat /\ Len(t) \in Nat
    BY ONLY <2>2, t \in Seq(Octet)
  <2> QED
    BY ONLY <2>3, <2>4
<1>7. ASSUME NEW k \in 1 .. N
      PROVE  Len(B(k)) = Len(B(k - 1)) + Len(X(k)) /\ Agrees(d, Len(B(k - 1)), X(k))
  <2>1. PICK j : j = k - 1
    OBVIOUS
  <2>2. j \in 0 .. N /\ k \in 0 .. N
    BY ONLY <1>2, <2>1, k \in 1 .. N
  <2>3. B(k) = B(j) \o X(k) /\ X(k) \in Seq(Octet) /\ B(j) \in Seq(Octet) /\ B(k) \in Seq(Octet)
    BY ONLY <1>3, <1>4, <2>1, <2>2, k \in 1 .. N
  <2>4. PICK t \in Seq(Octet) : w = B(k) \o t
    BY ONLY <1>5, <2>2
  <2>5. 0 \in Nat /\ 0 + Len(B(j)) = Len(B(j))
    BY ONLY <2>3
  <2>6. Agrees(d, 0, B(k) \o t)
    BY ONLY <1>1, <2>4, Agrees(d, 0, ListOctets(list, form))
  <2>7. Agrees(d, 0, B(k))
    BY ONLY <2>3, <2>5, <2>6, t \in Seq(Octet), AgreesSplit
  <2>8. Agrees(d, 0, B(j) \o X(k))
    BY ONLY <2>3, <2>7
  <2>9. Agrees(d, 0 + Len(B(j)), X(k))
    BY ONLY <2>3, <2>5, <2>8, AgreesSplit
  <2>10. Len(B(j) \o X(k)) = Len(B(j)) + Len(X(k))
    BY ONLY <2>3, Joined
  <2> QED
    BY ONLY <2>1, <2>3, <2>5, <2>9, <2>10
<1>8. ASSUME NEW k \in 0 .. N, k # N PROVE Len(B(k)) < Len(w)
  <2>1. PICK m : m = k + 1
    OBVIOUS
  <2>2. m \in 1 .. N /\ m - 1 = k /\ m \in 0 .. N
    BY ONLY <1>2, <1>8, <2>1, k \in 0 .. N
  <2>3. Len(B(m)) = Len(B(k)) + Len(X(m)) /\ Len(B(m)) <= Len(w) /\ Len(B(k)) \in Nat
    BY ONLY <1>6, <1>7, <2>2, k \in 0 .. N
  <2>4. Len(X(m)) \in Nat /\ Len(X(m)) > 0 /\ Len(w) \in Nat
    BY ONLY <1>2, <1>4, <2>2
  <2> QED
    BY ONLY <2>3, <2>4
<1> QED
  BY ONLY <1>1, <1>6, <1>7, <1>8 DEF B, X

\* With its length in one octet an attribute takes the octets of encoded_size.
LEMMA SizeOfAttribute ==
  ASSUME NEW a, a \in HeldAttribute
  PROVE  EncodedSize(a.value) \in Nat /\ Len(AttributeOctets(a, 5)) = 2 + EncodedSize(a.value)
<1>1. PICK e, v, type, n : e = a.value /\ v = e.value /\ type = e.type /\ n = Len(v)
  OBVIOUS
<1>2. e \in HeldElement
  BY ONLY <1>1, a \in HeldAttribute DEF HeldAttribute
<1>3. /\ v \in Seq(Octet) /\ n \in Octet /\ n \in Room(type)
      /\ type \in DOMAIN Width \cup {"TextString", "UuidList"}
  BY ONLY <1>1, <1>2 DEF HeldElement
<1>4. n \in Nat /\ n < 256
  BY ONLY <1>3 DEF Octet
<1>5. 5 \in DOMAIN LengthWidth /\ LengthWidth[5] = 1
  BY ONLY DEF LengthWidth
<1>6. Len(AttributeOctets(a, 5)) = 2 + Len(ElementOctets(e, 5))
  BY ONLY <1>1, <1>5, a \in HeldAttribute, AttributeWritten
<1>7. EncodedSize(e) \in Nat /\ Len(ElementOctets(e, 5)) = EncodedSize(e)
  <2>1. CASE type \in DOMAIN Width
    <3>1. PICK c, h : c = Descriptor[type] /\ h = <<c>>
      OBVIOUS
    <3>2. c \in Octet
      BY ONLY <2>1, <3>1, DescriptorsDiffer
    <3>3. h \in Seq(Octet) /\ Len(h) = 1
      BY ONLY <3>1, <3>2
    <3>4. Len(h \o v) = Len(h) + Len(v)
      BY ONLY <1>3, <3>3, Joined
    <3>5. ElementOctets(e, 5) = h \o v
      BY ONLY <1>1, <2>1, <3>1 DEF ElementOctets
    <3>6. n = Width[type]
      <4>1. type # "TextString" /\ type # "UuidList"
        BY ONLY <2>1 DEF Width
      <4>2. Room(type) = {Width[type]}
        BY ONLY <4>1 DEF Room
      <4> QED
        BY ONLY <1>3, <4>2
    <3>7. EncodedSize(e) = 1 + Width[type]
      BY ONLY <1>1, <2>1 DEF EncodedSize
    <3> QED
      BY ONLY <1>1, <3>3, <3>4, <3>5, <3>6, <3>7
  <2>2. CASE type \notin DOMAIN Width
    <3>1. PICK t, c, h, l : /\ t = (IF type = "UuidList" THEN SequenceType ELSE TextType)
                            /\ c = 8 * t + 5 /\ h = <<c>> /\ l = LengthOctets(n, 5)
      OBVIOUS
    <3>2. c \in Octet
      <4>1. t = 6 \/ t = 4
        BY ONLY <3>1 DEF SequenceType, TextType
      <4>2. c = 8 * t + 5
        BY ONLY <3>1
      <4> QED
        BY ONLY <4>1, <4>2 DEF Octet
    <3>3. h \in Seq(Octet) /\ Len(h) = 1
      BY ONLY <3>1, <3>2
    <3>4. l \in Seq(Octet) /\ Len(l) = 1
      BY ONLY <1>3, <1>5, <3>1, LengthWritten, LengthRead
    <3>5. h \o l \in Seq(Octet) /\ Len(h \o l) = Len(h) + Len(l)
      BY ONLY <3>3, <3>4, Joined
    <3>6. Len((h \o l) \o v) = Len(h \o l) + Len(v)
      BY ONLY <1>3, <3>5, Joined
    <3>7. ElementOctets(e, 5) = (h \o l) \o v
      BY ONLY <1>1, <2>2, <3>1 DEF ElementOctets
    <3>8. EncodedSize(e) = 1 + (IF n < 256 THEN 1 ELSE 2) + n
      BY ONLY <1>1, <2>2 DEF EncodedSize
    <3>9. EncodedSize(e) = 2 + n
      BY ONLY <1>4, <3>8
    <3>10. Len(ElementOctets(e, 5)) = 2 + n
      <4>1. Len(h) = 1 /\ Len(l) = 1 /\ Len(h \o l) = Len(h) + Len(l)
        BY ONLY <3>3, <3>4, <3>5
      <4>2. Len((h \o l) \o v) = Len(h \o l) + n
        BY ONLY <1>1, <3>6
      <4>3. Len((h \o l) \o v) = 2 + n
        BY ONLY <1>4, <4>1, <4>2
      <4> QED
        BY ONLY <3>7, <4>3
    <3> QED
      BY ONLY <1>4, <3>9, <3>10
  <2> QED
    BY ONLY <2>1, <2>2
<1> QED
  BY ONLY <1>1, <1>6, <1>7

-----------------------------------------------------------------------------
(* The invariant of what is carried.                                       *)

Cid(s) == IF s.kind = "command" THEN Signaling ELSE SdpCid

\* The octets that were written at each layer.
Inner(h, s, l) ==
  CASE l = "acl" -> AclOf(h, InL2cap(Written(s), Cid(s)))
    [] l = "l2cap" -> InL2cap(Written(s), Cid(s))
    [] OTHER -> Written(s)

Nested(s, l) ==
  \/ l = "acl" /\ s.depth = 2
  \/ l = "l2cap" /\ s.depth \in {1, 2}
  \/ l = s.kind

Arrived == status \in {"reading", "done", "stopped"}

Waiting ==
  status \in {"ready", "refused", "carried"} =>
    layer = Outermost(sent) /\ fault = "none" /\ got = <<>> /\ position = 0

\* What is carried could be written, and the parser is told how long its list is.
Sendable ==
  status \notin {"ready", "refused"} =>
    /\ Framed(sent) # Failed
    /\ sent.kind = "attributes" => length = Len(Written(sent))
    /\ status = "carried" => data = Framed(sent)

\* The octets of the layer are those that were written there, as far as they came.
Intact ==
  Arrived /\ fault # "damaged" =>
    /\ Nested(sent, layer)
    /\ Agrees(data, 0, Inner(header, sent, layer))
    /\ \/ fault = "none" /\ Len(data) = Len(Inner(header, sent, layer))
       \/ /\ fault = "padded" /\ Len(data) >= Len(Inner(header, sent, layer)) /\ sent.kind # "class"
          /\ sent.kind = "address" => Len(data) > Len(Inner(header, sent, layer))
       \/ fault = "cut" /\ Len(data) < Len(Inner(header, sent, layer)) /\ sent.kind # "class"

Answered ==
  /\ status = "stopped" => layer = "attributes"
  /\ status = "done" /\ fault # "damaged" /\ sent.kind # "attributes" =>
       got = IF fault = "cut" \/ (fault = "padded" /\ sent.kind = "address") THEN Failed
             ELSE Expected(sent)

Before(s, k) == SubSeq(s.value, 1, k)
Start(s, k) == Len(Beginning(s.value, s.form, k))

\* The parser has read the first k attributes and is behind them, or, when the data is cut, it
\* stopped after them, or took what is left of a list of UUIDs and is at the end of the data.
Reached(k) ==
  \/ got = Before(sent, k) /\ position = Start(sent, k) /\ status # "stopped"
  \/ got = Before(sent, k) /\ fault = "cut" /\ status = "stopped"
  \/ /\ fault = "cut" /\ position = Len(data) /\ status # "stopped"
     /\ \E x : got = Append(Before(sent, k), x) /\ x.value.type = "UuidList"

Progress ==
  Arrived /\ fault # "damaged" /\ sent.kind = "attributes" =>
    /\ status = "done" => AtEnd
    /\ \E k \in 0 .. Len(sent.value) : Reached(k)

RoundInv == IndInv /\ Waiting /\ Sendable /\ Intact /\ Answered /\ Progress

\* What was written at the innermost layers, when the whole could be.
LEMMA Layers ==
  ASSUME NEW s, Chosen(s), HeaderTyped(header), Framed(s) # Failed
  PROVE  /\ Written(s) # Failed /\ Written(s) \in Seq(Octet)
         /\ Cid(s) \in Word
         /\ s.depth # 0 => /\ InL2cap(Written(s), Cid(s)) # Failed
                           /\ InL2cap(Written(s), Cid(s)) \in Seq(Octet)
         /\ s.depth = 2 => AclOf(header, InL2cap(Written(s), Cid(s))) # Failed
         /\ Inner(header, s, Outermost(s)) = Framed(s) /\ Nested(s, Outermost(s))
<1>1. PICK w, cid : w = Written(s) /\ cid = Cid(s)
  OBVIOUS
<1>2. cid \in Word /\ cid = (IF s.kind = "command" THEN Signaling ELSE SdpCid)
  <2>1. Signaling \in Word
    BY ONLY DEF Signaling, Word
  <2>2. SdpCid \in Word
    BY FormatsAssumption
  <2> QED
    BY ONLY <1>1, <2>1, <2>2 DEF Cid
<1>3. PICK p, q : p = InL2cap(w, cid) /\ q = InAcl(p)
  OBVIOUS
<1>4. q = AclOf(header, p)
  BY ONLY <1>3 DEF InAcl, AclOf
<1>5. Framed(s) = CASE s.depth = 0 -> w [] s.depth = 1 -> p [] s.depth = 2 -> q
  BY ONLY <1>1, <1>2, <1>3 DEF Framed
<1>6. p # Failed => w # Failed
  BY ONLY <1>3 DEF InL2cap
<1>7. q # Failed => p # Failed
  BY ONLY <1>3 DEF InAcl
<1>8. w # Failed => w \in Seq(Octet)
  BY ONLY <1>1, Chosen(s), WrittenTyped
<1>9. p # Failed => p \in Seq(Octet)
  BY ONLY <1>2, <1>3, <1>6, <1>8, InL2capTyped
<1>10. s.depth = 0 \/ s.depth = 1 \/ s.depth = 2
  BY Chosen(s) DEF Chosen
<1>11. s.kind # "acl" /\ s.kind # "l2cap"
  BY ONLY Chosen(s), KindIs
<1>12. CASE s.depth = 0
  <2>1. Framed(s) = w /\ Outermost(s) = s.kind
    BY ONLY <1>5, <1>12 DEF Outermost
  <2>2. Inner(header, s, Outermost(s)) = Framed(s) /\ Nested(s, Outermost(s))
    BY ONLY <1>1, <1>11, <2>1 DEF Inner, Nested
  <2>3. w # Failed
    BY ONLY <2>1, Framed(s) # Failed
  <2> QED
    BY ONLY <1>1, <1>2, <1>8, <1>12, <2>2, <2>3
<1>13. CASE s.depth = 1
  <2>1. Framed(s) = p /\ Outermost(s) = "l2cap"
    BY ONLY <1>5, <1>13 DEF Outermost
  <2>2. Inner(header, s, Outermost(s)) = Framed(s) /\ Nested(s, Outermost(s))
    BY ONLY <1>1, <1>3, <1>13, <2>1 DEF Inner, Nested
  <2>3. p # Failed
    BY ONLY <2>1, Framed(s) # Failed
  <2> QED
    BY ONLY <1>1, <1>2, <1>3, <1>6, <1>8, <1>9, <1>13, <2>2, <2>3
<1>14. CASE s.depth = 2
  <2>1. Framed(s) = q /\ Outermost(s) = "acl"
    BY ONLY <1>5, <1>14 DEF Outermost
  <2>2. Inner(header, s, Outermost(s)) = Framed(s) /\ Nested(s, Outermost(s))
    BY ONLY <1>1, <1>3, <1>4, <1>14, <2>1 DEF Inner, Nested
  <2>3. q # Failed
    BY ONLY <2>1, Framed(s) # Failed
  <2> QED
    BY ONLY <1>1, <1>2, <1>3, <1>4, <1>6, <1>7, <1>8, <1>9, <1>14, <2>2, <2>3
<1> QED
  BY ONLY <1>10, <1>12, <1>13, <1>14

LEMMA InitRound == Init => RoundInv
<1> SUFFICES ASSUME Init PROVE RoundInv
  OBVIOUS
<1>1. IndInv
  BY InitInv
<1>2. /\ status = "ready" /\ layer = Outermost(sent) /\ fault = "none" /\ got = <<>>
      /\ position = 0
  BY DEF Init
<1> QED
  BY ONLY <1>1, <1>2 DEF RoundInv, Waiting, Sendable, Intact, Answered, Progress, Arrived

LEMMA WriteRound == RoundInv /\ IndInv' /\ Write => RoundInv'
<1> SUFFICES ASSUME RoundInv, IndInv', Write PROVE RoundInv'
  OBVIOUS
<1>1. Waiting /\ IndInv'
  BY DEF RoundInv
<1>2. /\ status = "ready" /\ status' \in {"refused", "carried"}
      /\ sent' = sent /\ layer' = layer /\ fault' = fault /\ got' = got /\ position' = position
  BY DEF Write
<1>3. Waiting'
  BY ONLY <1>1, <1>2 DEF Waiting
<1>4. Sendable'
  <2>f. PICK f : f = Framed(sent)
    OBVIOUS
  <2>1. Framed(sent') = f /\ Framed(sent)' = f
    <3>1. header' = header
      BY DEF Write
    <3>2. Framed(sent)' = Framed(sent)
      BY ONLY <1>2, <3>1 DEF Framed, InAcl
    <3> QED
      BY <1>2, <2>f, <3>2
  <2>2. CASE f = Failed
    <3>1. status' = "refused"
      BY <2>f, <2>2 DEF Write
    <3> QED
      BY ONLY <3>1 DEF Sendable
  <2>3. CASE f # Failed
    <3>1. /\ data' = f
          /\ length' = IF sent.kind = "attributes" THEN Len(Written(sent)) ELSE 0
      BY <2>f, <2>3 DEF Write
    <3> QED
      BY ONLY <1>2, <2>1, <2>3, <3>1 DEF Sendable
  <2> QED
    BY ONLY <2>2, <2>3
<1>5. Intact' /\ Answered' /\ Progress'
  BY ONLY <1>2 DEF Intact, Answered, Progress, Arrived
<1> QED
  BY ONLY <1>1, <1>3, <1>4, <1>5 DEF RoundInv

\* Once the octets are on their way, what was sent and the packets around it stay.
LEMMA StillSendable ==
  ASSUME RoundInv, status \notin {"ready", "refused"}, status' \in {"reading", "done", "stopped"},
         sent' = sent, header' = header, length' = length
  PROVE  Waiting' /\ Sendable'
<1>1. Waiting'
  BY DEF Waiting
<1>2. Framed(sent)' = Framed(sent)
  <2>1. sent' = sent /\ header' = header
    OBVIOUS
  <2> QED
    BY ONLY <2>1 DEF Framed, InAcl
<1>3. Sendable
  BY DEF RoundInv
<1>4. Framed(sent) # Failed /\ (sent.kind = "attributes" => length = Len(Written(sent)))
  BY ONLY <1>3, status \notin {"ready", "refused"} DEF Sendable
<1>5. Sendable'
  <2>1. status' # "carried" /\ sent' = sent /\ length' = length
    OBVIOUS
  <2> QED
    BY ONLY <1>2, <1>4, <2>1 DEF Sendable
<1> QED
  BY ONLY <1>1, <1>5

LEMMA ArriveRound ==
  ASSUME NEW what, NEW octets, RoundInv, IndInv', Arrive(what, octets), Intact'
  PROVE  RoundInv'
<1>1. /\ status = "carried" /\ status' = "reading" /\ fault' = what
      /\ sent' = sent /\ header' = header /\ layer' = layer /\ got' = got
      /\ position' = position /\ length' = length
  BY DEF Arrive
<1>2. Waiting' /\ Sendable'
  <2>1. status \notin {"ready", "refused"} /\ status' \in {"reading", "done", "stopped"}
    BY ONLY <1>1
  <2> QED
    BY ONLY <1>1, <2>1, RoundInv, StillSendable
<1>3. Answered'
  BY ONLY <1>1 DEF Answered
<1>4. Progress'
  <2>1. got = <<>> /\ position = 0
    BY ONLY <1>1, RoundInv DEF RoundInv, Waiting
  <2>2. ASSUME sent.kind = "attributes" PROVE \E k \in 0 .. Len(sent'.value) : Reached(k)'
    <3>1. PICK list, form : list = sent.value /\ form = sent.form
      OBVIOUS
    <3>2. list \in Seq(HeldAttribute) /\ form \in DOMAIN LengthWidth
      BY ONLY <2>2, <3>1, RoundInv DEF RoundInv, IndInv, Chosen
    <3>3. Beginning(list, form, 0) = <<>>
      BY ONLY <3>2, BeginningIs
    <3>4. SubSeq(list, 1, 0) = <<>>
      <4>1. 1 \in Int /\ 0 \in Int /\ 0 < 1
        OBVIOUS
      <4> QED
        BY ONLY <4>1, SubSeqEmpty
    <3>5. Len(<<>>) = 0 /\ 0 \in 0 .. Len(list)
      BY ONLY <3>2
    <3>6. Before(sent, 0) = <<>> /\ Start(sent, 0) = 0
      BY ONLY <3>1, <3>3, <3>4, <3>5 DEF Before, Start
    <3>7. Reached(0)'
      BY ONLY <1>1, <2>1, <3>6 DEF Reached, Before, Start
    <3> QED
      BY ONLY <1>1, <3>1, <3>5, <3>7
  <2> QED
    BY ONLY <1>1, <2>2 DEF Progress
<1> QED
  BY <1>2, <1>3, <1>4 DEF RoundInv

LEMMA CarryRound ==
  ASSUME RoundInv, IndInv',
         \/ Whole \/ Padded
         \/ \E n \in 0 .. Len(data) - 1 : Cut(n)
         \/ \E i \in DOMAIN data, octet \in DamagedOctets : Damaged(i, octet)
  PROVE  RoundInv'
<1>1. RoundInv /\ IndInv'
  OBVIOUS
<1>2. status = "carried"
  BY DEF Whole, Padded, Cut, Damaged, Arrive
<1>z. PICK z : z = Framed(sent)
  OBVIOUS
<1>3. /\ z # Failed /\ data = z /\ layer = Outermost(sent) /\ Chosen(sent) /\ HeaderTyped(header)
      /\ z \in Seq(Octet)
  BY ONLY <1>1, <1>2, <1>z DEF RoundInv, IndInv, Waiting, Sendable, Carried
<1>4. Inner(header, sent, layer) = z /\ Nested(sent, layer)
  <2>1. Framed(sent) # Failed
    BY ONLY <1>3, <1>z
  <2>2. Inner(header, sent, Outermost(sent)) = Framed(sent) /\ Nested(sent, Outermost(sent))
    BY ONLY <1>3, <2>1, Layers
  <2> QED
    BY ONLY <1>3, <1>z, <2>2
<1>5. ASSUME NEW what, NEW octets, Arrive(what, octets), Agrees(octets, 0, z),
             \/ what = "none" /\ Len(octets) = Len(z)
             \/ what = "padded" /\ Len(octets) > Len(z) /\ Len(octets) >= Len(z) /\ sent.kind # "class"
             \/ what = "cut" /\ Len(octets) < Len(z) /\ sent.kind # "class"
      PROVE  RoundInv'
  <2>1. sent' = sent /\ header' = header /\ layer' = layer /\ data' = octets /\ fault' = what
    BY ONLY <1>5 DEF Arrive
  <2>2. Inner(header', sent', layer') = z /\ Nested(sent', layer')
    BY ONLY <1>4, <2>1
  <2>3. Intact'
    BY ONLY <1>5, <2>1, <2>2 DEF Intact
  <2> QED
    BY ONLY <1>1, <1>5, <2>3, ArriveRound
<1>6. CASE Whole
  <2>1. Arrive("none", z)
    BY ONLY <1>3, <1>6 DEF Whole
  <2>2. Agrees(z, 0, z)
    BY ONLY <1>3, WholeAgrees
  <2> QED
    BY ONLY <1>5, <2>1, <2>2
<1>7. CASE Padded
  <2>1. PICK t, y : t = Padding /\ y = z \o t
    OBVIOUS
  <2>2. sent.kind # "class" /\ Arrive("padded", y)
    BY ONLY <1>3, <1>7, <2>1 DEF Padded
  <2>3. t \in Seq(Octet) /\ t # <<>>
    BY <2>1, FormatsAssumption
  <2>4. Agrees(y, 0, z) /\ Len(y) = Len(z) + Len(t)
    BY ONLY <1>3, <2>1, <2>3, PaddedAgrees, Joined
  <2>5. Len(t) \in Nat /\ Len(t) # 0
    BY ONLY <2>3, EmptySeq
  <2>6. Len(y) > Len(z) /\ Len(y) >= Len(z)
    <3>1. Len(z) \in Nat
      BY ONLY <1>3
    <3> QED
      BY ONLY <2>4, <2>5, <3>1
  <2> QED
    BY ONLY <1>5, <2>2, <2>4, <2>6
<1>8. ASSUME NEW n \in 0 .. Len(data) - 1, Cut(n) PROVE RoundInv'
  <2>1. PICK y : y = SubSeq(z, 1, n)
    OBVIOUS
  <2>2. sent.kind # "class" /\ Arrive("cut", y)
    BY ONLY <1>3, <1>8, <2>1 DEF Cut
  <2>3. n \in 0 .. Len(z) - 1
    BY ONLY <1>3, n \in 0 .. Len(data) - 1
  <2>4. Len(SubSeq(z, 1, n)) = n /\ n < Len(z) /\ Agrees(SubSeq(z, 1, n), 0, z)
    BY ONLY <1>3, <2>3, CutAgrees
  <2>5. Agrees(y, 0, z) /\ Len(y) < Len(z)
    BY ONLY <2>1, <2>4
  <2> QED
    BY ONLY <1>5, <2>2, <2>5
<1>9. ASSUME NEW i \in DOMAIN data, NEW octet \in DamagedOctets, Damaged(i, octet) PROVE RoundInv'
  <2>1. PICK y : y = [data EXCEPT ![i] = octet]
    OBVIOUS
  <2>2. Arrive("damaged", y)
    BY ONLY <1>9, <2>1 DEF Damaged
  <2>3. fault' = "damaged"
    BY ONLY <2>2 DEF Arrive
  <2>4. Intact'
    BY ONLY <2>3 DEF Intact
  <2> QED
    BY ONLY <1>1, <2>2, <2>4, ArriveRound
<1> QED
  BY <1>6, <1>7, <1>8, <1>9

\* Nothing is said of octets that were damaged.
LEMMA DamagedRound ==
  ASSUME RoundInv, IndInv', status = "reading", fault = "damaged",
         status' \in {"reading", "done"} \/ (status' = "stopped" /\ layer' = "attributes"),
         sent' = sent, header' = header, length' = length, fault' = fault
  PROVE  RoundInv'
<1>1. Waiting' /\ Sendable'
  BY StillSendable
<1>2. fault' = "damaged" /\ (status' = "stopped" => layer' = "attributes")
  OBVIOUS
<1>3. Intact' /\ Answered' /\ Progress'
  BY ONLY <1>2 DEF Intact, Answered, Progress
<1> QED
  BY <1>1, <1>3 DEF RoundInv

LEMMA EnterRound ==
  ASSUME NEW next, NEW octets, RoundInv, IndInv', status = "reading", Enter(next, octets),
         sent.kind \in {"command", "message"}, fault \in {"none", "padded"},
         Nested(sent, next), octets = Inner(header, sent, next), octets \in Seq(Octet)
  PROVE  RoundInv'
<1>1. /\ status' = "reading" /\ layer' = next /\ data' = octets /\ sent' = sent
      /\ header' = header /\ length' = length /\ fault' = fault
  BY DEF Enter
<1>2. Waiting' /\ Sendable'
  BY <1>1, StillSendable
<1>3. Inner(header', sent', layer') = octets /\ Nested(sent', layer')
  BY <1>1
<1>4. Intact'
  <2>1. Agrees(octets, 0, octets)
    BY ONLY octets \in Seq(Octet), WholeAgrees
  <2>2. Len(octets) >= Len(octets)
    BY ONLY octets \in Seq(Octet)
  <2>3. sent.kind # "class" /\ sent.kind # "address" /\ (fault = "none" \/ fault = "padded")
    OBVIOUS
  <2> QED
    BY ONLY <1>1, <1>3, <2>1, <2>2, <2>3 DEF Intact
<1>5. Answered' /\ Progress'
  <2>1. sent.kind # "attributes"
    OBVIOUS
  <2> QED
    BY ONLY <1>1, <2>1 DEF Answered, Progress
<1> QED
  BY <1>2, <1>4, <1>5 DEF RoundInv

LEMMA FinishRound ==
  ASSUME NEW value, RoundInv, IndInv', status = "reading", Finish(value),
         sent.kind # "attributes",
         fault # "damaged" =>
           value = IF fault = "cut" \/ (fault = "padded" /\ sent.kind = "address") THEN Failed
                   ELSE Expected(sent)
  PROVE  RoundInv'
<1>1. /\ status' = "done" /\ layer' = layer /\ data' = data /\ sent' = sent /\ got' = value
      /\ header' = header /\ length' = length /\ fault' = fault
  BY DEF Finish
<1>2. Waiting' /\ Sendable'
  BY <1>1, StillSendable
<1>3. Intact'
  <2>1. Intact /\ status = "reading"
    BY DEF RoundInv
  <2>2. /\ Inner(header', sent', layer') = Inner(header, sent, layer)
        /\ Nested(sent', layer') = Nested(sent, layer)
    BY ONLY <1>1
  <2> QED
    BY ONLY <1>1, <2>1, <2>2 DEF Intact, Arrived
<1>4. Answered'
  <2>1. /\ sent.kind # "attributes"
        /\ fault # "damaged" =>
             value = IF fault = "cut" \/ (fault = "padded" /\ sent.kind = "address") THEN Failed
                     ELSE Expected(sent)
    OBVIOUS
  <2> QED
    BY ONLY <1>1, <2>1 DEF Answered
<1>5. Progress'
  <2>1. sent.kind # "attributes"
    OBVIOUS
  <2> QED
    BY ONLY <1>1, <2>1 DEF Progress
<1> QED
  BY <1>2, <1>3, <1>4, <1>5 DEF RoundInv

\* What is known while a layer is read that was not damaged.
LEMMA ReadingIntact ==
  ASSUME RoundInv, status = "reading", fault # "damaged"
  PROVE  /\ Chosen(sent) /\ HeaderTyped(header) /\ Framed(sent) # Failed /\ data \in Seq(Octet)
         /\ Nested(sent, layer) /\ Agrees(data, 0, Inner(header, sent, layer))
         /\ \/ fault = "none" /\ Len(data) = Len(Inner(header, sent, layer))
            \/ /\ fault = "padded" /\ Len(data) >= Len(Inner(header, sent, layer))
               /\ sent.kind # "class"
               /\ sent.kind = "address" => Len(data) > Len(Inner(header, sent, layer))
            \/ fault = "cut" /\ Len(data) < Len(Inner(header, sent, layer)) /\ sent.kind # "class"
<1>1. Chosen(sent) /\ HeaderTyped(header) /\ data \in Seq(Octet) /\ Sendable /\ Intact
  BY DEF RoundInv, IndInv, Carried
<1>2. Framed(sent) # Failed
  BY <1>1 DEF Sendable
<1>3. Arrived /\ fault # "damaged"
  BY DEF Arrived
<1> QED
  BY ONLY <1>1, <1>2, <1>3 DEF Intact

LEMMA AclRound == RoundInv /\ IndInv' /\ ReceiveAcl => RoundInv'
<1> SUFFICES ASSUME RoundInv, IndInv', ReceiveAcl PROVE RoundInv'
  OBVIOUS
<1>1. RoundInv /\ IndInv' /\ status = "reading" /\ layer = "acl"
  BY DEF ReceiveAcl, Reading
<1>p. PICK p : p = AclFromBytes(data)
  OBVIOUS
<1>2. IF p = Failed THEN Finish(Failed) ELSE Enter("l2cap", p.data)
  BY <1>p DEF ReceiveAcl
<1>3. CASE fault = "damaged"
  <2>1. /\ status' \in {"reading", "done"}
        /\ sent' = sent /\ header' = header /\ length' = length /\ fault' = fault
    BY ONLY <1>1, <1>2 DEF Finish, Enter
  <2> QED
    BY ONLY <1>1, <1>3, <2>1, DamagedRound
<1>4. CASE fault # "damaged"
  <2>z. PICK z, o : z = Inner(header, sent, layer) /\ o = InL2cap(Written(sent), Cid(sent))
    OBVIOUS
  <2>1. /\ Chosen(sent) /\ HeaderTyped(header) /\ Framed(sent) # Failed /\ data \in Seq(Octet)
        /\ Nested(sent, layer) /\ Agrees(data, 0, z)
        /\ \/ fault = "none" /\ Len(data) = Len(z)
           \/ fault = "padded" /\ Len(data) >= Len(z)
           \/ fault = "cut" /\ Len(data) < Len(z)
    BY ONLY <1>1, <1>4, <2>z, ReadingIntact
  <2>2. z = AclOf(header, o)
    BY ONLY <1>1, <2>z DEF Inner
  <2>3. sent.depth = 2 /\ sent.kind \in {"command", "message"}
    <3>1. sent.kind # "acl"
      BY ONLY <2>1, KindIs
    <3>2. sent.depth = 2
      BY ONLY <1>1, <2>1, <3>1 DEF Nested
    <3> QED
      BY ONLY <2>1, <3>2 DEF Chosen
  <2>4. z # Failed /\ o # Failed /\ o \in Seq(Octet)
    <3>1. sent.depth # 0
      BY ONLY <2>3
    <3> QED
      BY ONLY <2>1, <2>2, <2>3, <2>z, <3>1, Layers
  <2>5. IF Len(z) <= Len(data) THEN p # Failed /\ p.data = o ELSE p = Failed
    BY ONLY <1>p, <2>1, <2>2, <2>4, AclRead
  <2>6. Len(data) \in Nat /\ Len(z) \in Nat
    <3>1. AclOf(header, o) = InAcl(o)
      BY ONLY DEF AclOf, InAcl
    <3>2. z \in Seq(Octet)
      BY ONLY <2>1, <2>2, <2>4, <3>1, InAclTyped
    <3> QED
      BY ONLY <2>1, <3>2
  <2>7. CASE Len(z) <= Len(data)
    <3>1. fault \in {"none", "padded"} /\ Enter("l2cap", o)
      BY ONLY <1>2, <2>1, <2>5, <2>6, <2>7
    <3>2. PICK next : next = "l2cap"
      OBVIOUS
    <3>3. Nested(sent, next) /\ o = Inner(header, sent, next) /\ Enter(next, o)
      BY ONLY <2>3, <2>z, <3>1, <3>2 DEF Nested, Inner
    <3> QED
      BY ONLY <1>1, <2>3, <2>4, <3>1, <3>3, EnterRound
  <2>8. CASE ~(Len(z) <= Len(data))
    <3>1. fault = "cut" /\ Finish(Failed)
      BY ONLY <1>2, <2>1, <2>5, <2>6, <2>8
    <3>2. sent.kind # "attributes"
      BY ONLY <2>3
    <3> QED
      BY ONLY <1>1, <3>1, <3>2, FinishRound
  <2> QED
    BY ONLY <2>7, <2>8
<1> QED
  BY ONLY <1>3, <1>4

LEMMA L2capRound == RoundInv /\ IndInv' /\ ReceiveL2cap => RoundInv'
<1> SUFFICES ASSUME RoundInv, IndInv', ReceiveL2cap PROVE RoundInv'
  OBVIOUS
<1>1. RoundInv /\ IndInv' /\ status = "reading" /\ layer = "l2cap"
  BY DEF ReceiveL2cap, Reading
<1>p. PICK p : p = L2capFromBytes(data)
  OBVIOUS
<1>2. /\ p # Failed /\ p.channel_id = Signaling => Enter("command", p.payload)
      /\ p # Failed /\ p.channel_id = SdpCid /\ sent.kind # "command" =>
           Enter(sent.kind, p.payload)
      /\ p = Failed => Finish(Failed)
      /\ p.channel_id # Signaling /\ (p.channel_id # SdpCid \/ sent.kind = "command") =>
           Finish(Failed)
  BY <1>p, SignalingIsNotSdp DEF ReceiveL2cap
<1>3. CASE fault = "damaged"
  <2>1. \/ Enter("command", p.payload) \/ Enter(sent.kind, p.payload) \/ Finish(Failed)
    BY ONLY <1>2, SignalingIsNotSdp
  <2>2. /\ status' \in {"reading", "done"}
        /\ sent' = sent /\ header' = header /\ length' = length /\ fault' = fault
    BY ONLY <1>1, <2>1 DEF Finish, Enter
  <2> QED
    BY ONLY <1>1, <1>3, <2>2, DamagedRound
<1>4. CASE fault # "damaged"
  <2>z. PICK z, w, cid : z = Inner(header, sent, layer) /\ w = Written(sent) /\ cid = Cid(sent)
    OBVIOUS
  <2>1. /\ Chosen(sent) /\ HeaderTyped(header) /\ Framed(sent) # Failed /\ data \in Seq(Octet)
        /\ Nested(sent, layer) /\ Agrees(data, 0, z)
        /\ \/ fault = "none" /\ Len(data) = Len(z)
           \/ fault = "padded" /\ Len(data) >= Len(z)
           \/ fault = "cut" /\ Len(data) < Len(z)
    BY ONLY <1>1, <1>4, <2>z, ReadingIntact
  <2>2. z = InL2cap(w, cid)
    BY ONLY <1>1, <2>z DEF Inner
  <2>3. sent.depth # 0 /\ sent.kind \in {"command", "message"}
    <3>1. sent.kind # "l2cap"
      BY ONLY <2>1, KindIs
    <3>2. sent.depth \in {1, 2}
      BY ONLY <1>1, <2>1, <3>1 DEF Nested
    <3> QED
      BY ONLY <2>1, <3>2 DEF Chosen
  <2>4. z # Failed /\ z \in Seq(Octet) /\ w # Failed /\ w \in Seq(Octet) /\ cid \in Word
    BY ONLY <2>1, <2>2, <2>3, <2>z, Layers
  <2>5. IF Len(z) <= Len(data) THEN p # Failed /\ p.channel_id = cid /\ p.payload = w
        ELSE p = Failed
    BY ONLY <1>p, <2>1, <2>2, <2>4, L2capRead
  <2>6. Len(data) \in Nat /\ Len(z) \in Nat
    BY ONLY <2>1, <2>4
  <2>7. CASE Len(z) <= Len(data)
    <3>1. fault \in {"none", "padded"}
      BY ONLY <2>1, <2>6, <2>7
    <3>2. PICK next : next = sent.kind
      OBVIOUS
    <3>3. Enter(next, w)
      <4>1. CASE sent.kind = "command"
        <5>1. cid = Signaling
          BY ONLY <2>z, <4>1 DEF Cid
        <5> QED
          BY ONLY <1>2, <2>5, <2>7, <3>2, <4>1, <5>1
      <4>2. CASE sent.kind = "message"
        <5>1. cid = SdpCid /\ sent.kind # "command"
          BY ONLY <2>z, <4>2 DEF Cid
        <5> QED
          BY ONLY <1>2, <2>5, <2>7, <3>2, <5>1, SignalingIsNotSdp
      <4> QED
        BY ONLY <2>3, <4>1, <4>2
    <3>4. Nested(sent, next) /\ w = Inner(header, sent, next)
      <4>1. next # "acl" /\ next # "l2cap"
        BY ONLY <2>3, <3>2
      <4> QED
        BY ONLY <2>z, <3>2, <4>1 DEF Nested, Inner
    <3> QED
      BY ONLY <1>1, <2>3, <2>4, <3>1, <3>3, <3>4, EnterRound
  <2>8. CASE ~(Len(z) <= Len(data))
    <3>1. fault = "cut" /\ p = Failed
      BY ONLY <2>1, <2>5, <2>6, <2>8
    <3>2. sent.kind # "attributes" /\ Finish(Failed)
      BY ONLY <1>2, <2>3, <3>1
    <3> QED
      BY ONLY <1>1, <3>1, <3>2, FinishRound
  <2> QED
    BY ONLY <2>7, <2>8
<1> QED
  BY ONLY <1>3, <1>4

LEMMA ValueRound ==
  RoundInv /\ IndInv' /\ (ReceiveCommand \/ ReceiveMessage \/ ReceiveAddress \/ ReceiveClass)
    => RoundInv'
<1> SUFFICES ASSUME RoundInv, IndInv',
                    ReceiveCommand \/ ReceiveMessage \/ ReceiveAddress \/ ReceiveClass
             PROVE  RoundInv'
  OBVIOUS
<1>1. RoundInv /\ IndInv'
  OBVIOUS
<1>2. PICK value :
        \/ ReceiveCommand /\ layer = "command" /\ value = CommandFromBytes(data)
        \/ ReceiveMessage /\ layer = "message" /\ value = ParseMessage(data)
        \/ ReceiveAddress /\ layer = "address" /\ value = FromHex(data)
        \/ ReceiveClass /\ layer = "class" /\ value = ParseClassOfDevice(data)
  BY DEF ReceiveCommand, ReceiveMessage, ReceiveAddress, ReceiveClass, Reading
<1>3. status = "reading" /\ Finish(value)
  BY ONLY <1>2 DEF ReceiveCommand, ReceiveMessage, ReceiveAddress, ReceiveClass, Reading
<1>4. CASE fault = "damaged"
  <2>1. /\ status' = "done"
        /\ sent' = sent /\ header' = header /\ length' = length /\ fault' = fault
    BY ONLY <1>3 DEF Finish
  <2> QED
    BY ONLY <1>1, <1>3, <1>4, <2>1, DamagedRound
<1>5. CASE fault # "damaged"
  <2>z. PICK w, v : w = Written(sent) /\ v = sent.value
    OBVIOUS
  <2>1. layer # "acl" /\ layer # "l2cap" /\ layer # "attributes"
    BY ONLY <1>2
  <2>2. Inner(header, sent, layer) = w
    BY ONLY <2>1, <2>z DEF Inner
  <2>3. /\ Chosen(sent) /\ HeaderTyped(header) /\ Framed(sent) # Failed /\ data \in Seq(Octet)
        /\ Nested(sent, layer) /\ Agrees(data, 0, w)
        /\ \/ fault = "none" /\ Len(data) = Len(w)
           \/ /\ fault = "padded" /\ Len(data) >= Len(w) /\ sent.kind # "class"
              /\ sent.kind = "address" => Len(data) > Len(w)
           \/ fault = "cut" /\ Len(data) < Len(w) /\ sent.kind # "class"
    BY ONLY <1>1, <1>3, <1>5, <2>2, ReadingIntact
  <2>4. layer = sent.kind
    BY ONLY <2>1, <2>3 DEF Nested
  <2>5. w # Failed /\ w \in Seq(Octet)
    BY ONLY <2>3, <2>z, Layers
  <2>6. Len(data) \in Nat /\ Len(w) \in Nat
    BY ONLY <2>3, <2>5
  <2>7. value = IF fault = "cut" \/ (fault = "padded" /\ sent.kind = "address") THEN Failed
                ELSE Expected(sent)
    <3>1. CASE layer = "command"
      <4>1. v \in BuiltCommand /\ sent.kind = "command"
        BY ONLY <2>3, <2>4, <2>z, <3>1 DEF Chosen
      <4>2. w = CommandToBytes(v) /\ Expected(sent) = v
        BY ONLY <2>z, <4>1 DEF Written, Expected
      <4>3. value = IF Len(w) <= Len(data) THEN v ELSE Failed
        <5>1. value = CommandFromBytes(data)
          BY ONLY <1>2, <3>1
        <5> QED
          BY ONLY <2>3, <2>5, <4>1, <4>2, <5>1, CommandRead
      <4> QED
        BY ONLY <2>3, <2>6, <4>1, <4>2, <4>3
    <3>2. CASE layer = "message"
      <4>1. v \in BuiltMessage /\ sent.kind = "message"
        BY ONLY <2>3, <2>4, <2>z, <3>2 DEF Chosen
      <4>2. w = MessageEncode(v, 7) /\ Expected(sent) = MessageExpected(v)
        BY ONLY <2>z, <4>1 DEF Written, Expected, MessageExpected
      <4>3. value = IF Len(w) <= Len(data) THEN MessageExpected(v) ELSE Failed
        <5>1. value = ParseMessage(data)
          BY ONLY <1>2, <3>2
        <5> QED
          BY ONLY <2>3, <2>5, <4>1, <4>2, <5>1, MessageRead
      <4> QED
        BY ONLY <2>3, <2>6, <4>1, <4>2, <4>3
    <3>3. CASE layer = "address"
      <4>1. v \in [1 .. 6 -> Octet] /\ sent.kind = "address"
        BY ONLY <2>3, <2>4, <2>z, <3>3 DEF Chosen
      <4>2. w = FormatHex(v) /\ Expected(sent) = v
        BY ONLY <2>z, <4>1 DEF Written, Expected
      <4>3. Len(w) = 17 /\ FromHex(w) = v
        BY ONLY <4>1, <4>2, AddressRead
      <4>4. value = FromHex(data)
        BY ONLY <1>2, <3>3
      <4>5. Len(data) # 17 => value = Failed
        <5>1. Len(data) # 17 => ~WellFormed(data)
          BY ONLY DEF WellFormed
        <5> QED
          BY ONLY <4>4, <5>1 DEF FromHex
      <4>6. CASE fault = "none"
        <5>1. data = w
          BY ONLY <2>3, <2>5, <4>6, AgreesAll
        <5> QED
          BY ONLY <4>2, <4>3, <4>4, <4>6, <5>1
      <4>7. CASE fault # "none"
        <5>n. PICK n, m : n = Len(data) /\ m = Len(w)
          OBVIOUS
        <5>1. n \in Nat /\ m = 17 /\ (n > m \/ n < m)
          BY ONLY <2>3, <2>6, <4>1, <4>3, <4>7, <5>n
        <5>2. n # 17
          BY ONLY <5>1
        <5>3. fault = "cut" \/ fault = "padded"
          BY ONLY <2>3, <4>7
        <5>4. Len(data) # 17 /\ (fault = "cut" \/ fault = "padded")
          BY ONLY <5>n, <5>2, <5>3
        <5> QED
          BY ONLY <4>1, <4>5, <5>4
      <4> QED
        BY ONLY <4>6, <4>7
    <3>4. CASE layer = "class"
      <4>1. sent.kind = "class"
        BY ONLY <2>4, <3>4
      <4>2. w = v /\ Expected(sent) = ParseClassOfDevice(v)
        BY ONLY <2>z, <4>1 DEF Written, Expected
      <4>3. fault = "none" /\ Len(data) = Len(w)
        BY ONLY <2>3, <4>1
      <4>4. data = w
        BY ONLY <2>3, <2>5, <4>3, AgreesAll
      <4>5. value = ParseClassOfDevice(data)
        BY ONLY <1>2, <3>4
      <4> QED
        BY ONLY <4>2, <4>3, <4>4, <4>5
    <3> QED
      BY ONLY <1>2, <3>1, <3>2, <3>3, <3>4
  <2>8. sent.kind # "attributes"
    BY ONLY <2>1, <2>4
  <2> QED
    BY ONLY <1>1, <1>3, <2>7, <2>8, FinishRound
<1> QED
  BY ONLY <1>4, <1>5

-----------------------------------------------------------------------------
(* The parser of attributes.                                               *)

\* From the end of the attribute before it, the attribute k is read, or it is not all there.
Moved(k) ==
  /\ got = Before(sent, k - 1) /\ position = Start(sent, k - 1)
  /\ Start(sent, k) = Start(sent, k - 1) + Len(AttributeOctets(sent.value[k], sent.form))
  /\ \/ /\ got' = Append(got, sent.value[k]) /\ position' = Start(sent, k)
        /\ status' = "reading"
     \/ fault = "cut" /\ got' = got /\ status' = "stopped"
     \/ /\ fault = "cut" /\ position' = Len(data) /\ status' = "reading"
        /\ \E x : got' = Append(got, x) /\ x.value.type = "UuidList"

LEMMA AttributeStep ==
  ASSUME RoundInv, NextAttribute, ~AtEnd, fault # "damaged"
  PROVE  /\ sent.kind = "attributes" /\ sent.value \in Seq(HeldAttribute)
         /\ sent.form \in DOMAIN LengthWidth
         /\ \E k \in 1 .. Len(sent.value) : Moved(k)
<1>1. RoundInv /\ status = "reading" /\ layer = "attributes" /\ ~AtEnd
  BY DEF NextAttribute, Reading
<1>z. PICK list, form, w : list = sent.value /\ form = sent.form /\ w = Written(sent)
  OBVIOUS
<1>2. Inner(header, sent, layer) = w
  BY ONLY <1>1, <1>z DEF Inner
<1>3. /\ Chosen(sent) /\ data \in Seq(Octet) /\ Nested(sent, layer) /\ Agrees(data, 0, w)
      /\ \/ fault = "none" /\ Len(data) = Len(w)
         \/ fault = "padded" /\ Len(data) >= Len(w)
         \/ fault = "cut" /\ Len(data) < Len(w)
  BY ONLY <1>1, <1>2, fault # "damaged", ReadingIntact
<1>4. sent.kind = "attributes"
  BY ONLY <1>1, <1>3 DEF Nested
<1>5. /\ list \in Seq(HeldAttribute) /\ form \in DOMAIN LengthWidth /\ w = ListOctets(list, form)
      /\ length = Len(w)
  BY ONLY <1>1, <1>3, <1>4, <1>z DEF Chosen, Written, RoundInv, Sendable
<1>n. PICK N, n : N = Len(list) /\ n = Len(data)
  OBVIOUS
<1>6. N \in Nat /\ n \in Nat /\ Len(w) \in Nat
  BY ONLY <1>3, <1>5, <1>n, ListWritten
<1>7. ~(position >= Len(w)) /\ ~(position >= n)
  BY ONLY <1>1, <1>5, <1>n DEF AtEnd
<1>8. PICK j \in 0 .. N : got = Before(sent, j) /\ position = Start(sent, j)
  <2>1. PICK j \in 0 .. Len(sent.value) : Reached(j)
    BY ONLY <1>1, <1>4, fault # "damaged" DEF RoundInv, Progress, Arrived
  <2>2. position # n
    BY ONLY <1>6, <1>7
  <2>3. got = Before(sent, j) /\ position = Start(sent, j)
    BY ONLY <1>1, <1>n, <2>1, <2>2 DEF Reached
  <2> QED
    BY ONLY <1>n, <1>z, <2>3, j \in 0 .. Len(sent.value)
<1>9. /\ Agrees(data, 0, ListOctets(list, form))
      /\ Beginning(list, form, N) = w
  BY ONLY <1>3, <1>5, <1>n, BeginningIs
<1>10. /\ \A k \in 0 .. N : Len(Beginning(list, form, k)) \in Nat
                            /\ Len(Beginning(list, form, k)) <= Len(w)
       /\ \A k \in 1 .. N :
              /\ Len(Beginning(list, form, k)) =
                   Len(Beginning(list, form, k - 1)) + Len(AttributeOctets(list[k], form))
              /\ Agrees(data, Len(Beginning(list, form, k - 1)), AttributeOctets(list[k], form))
  <2>1. /\ \A k \in 0 .. Len(list) :
              /\ Len(Beginning(list, form, k)) \in Nat
              /\ Len(Beginning(list, form, k)) <= Len(ListOctets(list, form))
              /\ k # Len(list) => Len(Beginning(list, form, k)) < Len(ListOctets(list, form))
        /\ \A k \in 1 .. Len(list) :
             /\ Len(Beginning(list, form, k)) =
                  Len(Beginning(list, form, k - 1)) + Len(AttributeOctets(list[k], form))
             /\ Agrees(data, Len(Beginning(list, form, k - 1)), AttributeOctets(list[k], form))
    BY ONLY <1>3, <1>5, <1>9, AlongList
  <2> QED
    BY ONLY <1>5, <1>n, <2>1
<1>11. \A k : Start(sent, k) = Len(Beginning(list, form, k))
  BY ONLY <1>z DEF Start
<1>12. j # N
  <2>1. Start(sent, N) = Len(w)
    BY ONLY <1>9, <1>11
  <2> QED
    BY ONLY <1>6, <1>7, <1>8, <2>1
<1>k. PICK k : k = j + 1
  OBVIOUS
<1>13. k \in 1 .. N /\ k \in 0 .. N /\ k - 1 = j
  BY ONLY <1>6, <1>12, <1>k, j \in 0 .. N
<1>a. PICK a, x, q : a = list[k] /\ x = AttributeOctets(a, form) /\ q = position + Len(x)
  OBVIOUS
<1>14. /\ a \in HeldAttribute /\ Agrees(data, position, x) /\ position \in Nat
       /\ q = Start(sent, k) /\ q <= Len(w) /\ q \in Nat
  <2>1. a \in HeldAttribute
    BY ONLY <1>5, <1>13, <1>a, <1>n
  <2>2. position = Len(Beginning(list, form, k - 1))
    BY ONLY <1>8, <1>11, <1>13
  <2>3. Agrees(data, position, x) /\ Len(Beginning(list, form, k)) = q
    BY ONLY <1>10, <1>13, <1>a, <2>2
  <2>4. /\ Len(Beginning(list, form, k)) <= Len(w) /\ Len(Beginning(list, form, k)) \in Nat
        /\ position \in Nat
    BY ONLY <1>8, <1>10, <1>11, <1>13, j \in 0 .. N
  <2> QED
    BY ONLY <1>11, <2>1, <2>3, <2>4
<1>r. PICK r : r = ReadAttribute(data, position)
  OBVIOUS
<1>15. IF q <= Len(data) THEN r = Read(a, q) /\ a \notin {Failed, Panicked}
       ELSE \/ r.value \in {Failed, Panicked}
            \/ r.value.value.type = "UuidList" /\ r.position = Len(data)
  BY ONLY <1>3, <1>5, <1>14, <1>a, <1>r, AttributeRead
<1>16. /\ position' = r.position
       /\ status' = (IF r.value \in {Failed, Panicked} THEN "stopped" ELSE "reading")
       /\ got' = (IF r.value \in {Failed, Panicked} THEN got ELSE Append(got, r.value))
  BY <1>1, <1>r DEF NextAttribute
<1>17. /\ got = Before(sent, k - 1) /\ position = Start(sent, k - 1)
       /\ Start(sent, k) = Start(sent, k - 1) + Len(AttributeOctets(sent.value[k], sent.form))
  BY ONLY <1>8, <1>13, <1>14, <1>a, <1>z
<1>18. CASE q <= Len(data)
  <2>1. r.value = a /\ r.position = q /\ a \notin {Failed, Panicked}
    BY ONLY <1>15, <1>18, ReadIs
  <2>2. got' = Append(got, sent.value[k]) /\ position' = Start(sent, k) /\ status' = "reading"
    BY ONLY <1>14, <1>16, <1>a, <1>z, <2>1
  <2>3. Moved(k)
    BY ONLY <1>17, <2>2 DEF Moved
  <2> QED
    BY ONLY <1>4, <1>5, <1>13, <1>n, <1>z, <2>3
<1>19. CASE ~(q <= Len(data))
  <2>1. fault = "cut"
    BY ONLY <1>3, <1>6, <1>14, <1>19, <1>n
  <2>2. CASE r.value \in {Failed, Panicked}
    <3>1. Moved(k)
      BY ONLY <1>16, <1>17, <2>1, <2>2 DEF Moved
    <3> QED
      BY ONLY <1>4, <1>5, <1>13, <1>n, <1>z, <3>1
  <2>3. CASE r.value \notin {Failed, Panicked}
    <3>1. position' = Len(data) /\ status' = "reading" /\ got' = Append(got, r.value)
          /\ r.value.value.type = "UuidList"
      BY ONLY <1>15, <1>16, <1>19, <2>3
    <3>2. Moved(k)
      BY ONLY <1>17, <2>1, <3>1 DEF Moved
    <3> QED
      BY ONLY <1>4, <1>5, <1>13, <1>n, <1>z, <3>2
  <2> QED
    BY ONLY <2>2, <2>3
<1> QED
  BY ONLY <1>18, <1>19

\* A sequence with one more at its end.
LEMMA FrontOfAppend ==
  ASSUME NEW T, NEW b, b \in Seq(T), NEW x, NEW r, r = Append(b, x)
  PROVE  Front(r) = b /\ Last(r) = x /\ r # <<>> /\ r # b
<1>1. PICK U, n : U = T \cup {x} /\ n = Len(b)
  OBVIOUS
<1>2. b \in Seq(U) /\ x \in U /\ n \in Nat
  <2>1. T \subseteq U /\ x \in U
    BY ONLY <1>1
  <2> QED
    BY ONLY <1>1, <2>1, b \in Seq(T), SeqMonotonic
<1>3. /\ r \in Seq(U) /\ Len(r) = n + 1 /\ r[n + 1] = x /\ \A i \in 1 .. n : r[i] = b[i]
  BY ONLY <1>1, <1>2, r = Append(b, x)
<1>4. Last(r) = x
  BY ONLY <1>3 DEF Last
<1>5. r # <<>> /\ r # b
  <2>1. Len(<<>>) = 0 /\ n + 1 # 0 /\ n + 1 # n
    BY ONLY <1>2
  <2> QED
    BY ONLY <1>1, <1>3, <2>1
<1>6. Front(r) = b
  <2>1. PICK s : s = SubSeq(r, 1, n)
    OBVIOUS
  <2>2. 1 \in Int /\ n \in Int /\ \A i \in 1 .. n : r[i] \in U
    BY ONLY <1>1, <1>2, <1>3
  <2>3. /\ SubSeq(r, 1, n) \in Seq(U)
        /\ Len(SubSeq(r, 1, n)) = IF 1 <= n THEN n - 1 + 1 ELSE 0
        /\ \A i \in 1 .. n - 1 + 1 : SubSeq(r, 1, n)[i] = r[1 + i - 1]
    BY ONLY <2>2, SubSeqProperties
  <2>4. /\ n - 1 + 1 = n /\ (IF 1 <= n THEN n - 1 + 1 ELSE 0) = n
        /\ \A i \in 1 .. n : 1 + i - 1 = i
    BY ONLY <1>2
  <2>5. s \in Seq(U) /\ Len(s) = n /\ \A i \in 1 .. n : s[i] = b[i]
    BY ONLY <1>3, <2>1, <2>3, <2>4
  <2>6. s = b
    BY ONLY <1>1, <1>2, <2>5, SeqEqual
  <2>7. Len(r) - 1 = n
    BY ONLY <1>2, <1>3
  <2> QED
    BY ONLY <2>1, <2>6, <2>7 DEF Front
<1> QED
  BY ONLY <1>4, <1>5, <1>6

\* The first k of a list.
LEMMA FirstOf ==
  ASSUME NEW list, list \in Seq(HeldAttribute), NEW k, k \in 0 .. Len(list),
         NEW b, b = SubSeq(list, 1, k)
  PROVE  /\ b \in Seq(HeldAttribute) /\ Len(b) = k /\ IsPrefix(b, list)
         /\ k # 0 => b = Append(SubSeq(list, 1, k - 1), list[k])
<1>1. PICK n : n = Len(list)
  OBVIOUS
<1>2. n \in Nat /\ k \in Nat /\ k \in Int /\ 1 \in Int /\ k <= n
  BY ONLY <1>1, list \in Seq(HeldAttribute), k \in 0 .. Len(list)
<1>3. \A i \in 1 .. k : list[i] \in HeldAttribute
  <2>1. \A i \in 1 .. k : i \in 1 .. n
    BY ONLY <1>2
  <2> QED
    BY ONLY <1>1, <2>1, list \in Seq(HeldAttribute)
<1>4. b \in Seq(HeldAttribute) /\ Len(b) = k
  <2>1. /\ SubSeq(list, 1, k) \in Seq(HeldAttribute)
        /\ Len(SubSeq(list, 1, k)) = IF 1 <= k THEN k - 1 + 1 ELSE 0
    BY ONLY <1>2, <1>3, SubSeqProperties
  <2>2. (IF 1 <= k THEN k - 1 + 1 ELSE 0) = k
    BY ONLY <1>2
  <2> QED
    BY ONLY <2>1, <2>2, b = SubSeq(list, 1, k)
<1>5. IsPrefix(b, list)
  <2>1. SubSeq(b, 1, Len(b)) = b
    BY ONLY <1>4, SubSeqFull
  <2> QED
    BY ONLY <1>1, <1>2, <1>4, <2>1, b = SubSeq(list, 1, k) DEF IsPrefix
<1>6. ASSUME k # 0 PROVE b = Append(SubSeq(list, 1, k - 1), list[k])
  <2>1. PICK j, s : j = k - 1 /\ s = SubSeq(list, 1, j)
    OBVIOUS
  <2>2. j \in Nat /\ j \in Int /\ \A i \in 1 .. j : i \in 1 .. k
    BY ONLY <1>2, <1>6, <2>1
  <2>3. 1 \in 1 .. Len(list) /\ k \in 1 .. Len(list)
    BY ONLY <1>1, <1>2, <1>6
  <2>4. SubSeq(list, 1, k) = SubSeq(list, 1, k - 1) \o <<list[k]>>
    BY ONLY <2>3, list \in Seq(HeldAttribute), SubSeqRecursiveSecond
  <2>5. s \in Seq(HeldAttribute)
    <3>1. \A i \in 1 .. j : list[i] \in HeldAttribute
      BY ONLY <1>3, <2>2
    <3> QED
      BY ONLY <1>2, <2>1, <2>2, <3>1, SubSeqProperties
  <2>6. Append(s, list[k]) = s \o <<list[k]>>
    <3>1. list[k] \in HeldAttribute
      BY ONLY <2>3, list \in Seq(HeldAttribute)
    <3> QED
      BY ONLY <2>5, <3>1, AppendIsConcat
  <2> QED
    BY ONLY <2>1, <2>4, <2>6, b = SubSeq(list, 1, k)
<1> QED
  BY ONLY <1>4, <1>5, <1>6

LEMMA NextAttributeRound == RoundInv /\ IndInv' /\ NextAttribute => RoundInv'
<1> SUFFICES ASSUME RoundInv, IndInv', NextAttribute PROVE RoundInv'
  OBVIOUS
<1>1. RoundInv /\ IndInv' /\ NextAttribute /\ status = "reading" /\ layer = "attributes"
  BY DEF NextAttribute, Reading
<1>2. /\ sent' = sent /\ header' = header /\ layer' = layer /\ data' = data
      /\ length' = length /\ fault' = fault
  BY DEF NextAttribute, Finish
<1>3. status' \in {"done", "reading", "stopped"}
  BY DEF NextAttribute, Finish
<1>4. CASE fault = "damaged"
  BY ONLY <1>1, <1>2, <1>3, <1>4, DamagedRound
<1>5. CASE fault # "damaged"
  <2>1. Waiting' /\ Sendable'
    <3>1. status \notin {"ready", "refused"}
      BY ONLY <1>1
    <3> QED
      BY ONLY <1>1, <1>2, <1>3, <3>1, StillSendable
  <2>2. Intact'
    <3>1. Intact /\ Arrived
      BY ONLY <1>1 DEF RoundInv, Arrived
    <3>2. /\ Inner(header', sent', layer') = Inner(header, sent, layer)
          /\ Nested(sent', layer') = Nested(sent, layer)
      BY ONLY <1>2
    <3> QED
      BY ONLY <1>2, <1>5, <3>1, <3>2 DEF Intact
  <2>3. sent.kind = "attributes"
    <3>1. Nested(sent, layer)
      BY ONLY <1>1, <1>5, ReadingIntact
    <3> QED
      BY ONLY <1>1, <3>1 DEF Nested
  <2>4. Answered'
    BY ONLY <1>1, <1>2, <2>3 DEF Answered
  <2>5. Progress'
    <3>1. CASE AtEnd
      <4>1. status' = "done" /\ got' = got /\ position' = position
        BY ONLY <1>1, <3>1 DEF NextAttribute, Finish
      <4>2. AtEnd'
        BY ONLY <1>2, <3>1, <4>1 DEF AtEnd
      <4>3. PICK k \in 0 .. Len(sent.value) : Reached(k)
        BY ONLY <1>1, <1>5, <2>3 DEF RoundInv, Progress, Arrived
      <4>4. Reached(k)'
        BY ONLY <1>1, <1>2, <4>1, <4>3 DEF Reached, Before, Start
      <4> QED
        BY ONLY <1>2, <4>2, <4>4, k \in 0 .. Len(sent.value) DEF Progress
    <3>2. CASE ~AtEnd
      <4>1. sent.value \in Seq(HeldAttribute) /\ \E k \in 1 .. Len(sent.value) : Moved(k)
        BY ONLY <1>1, <1>5, <3>2, AttributeStep
      <4>2. PICK k \in 1 .. Len(sent.value) : Moved(k)
        BY ONLY <4>1
      <4>j. PICK j : j = k - 1
        OBVIOUS
      <4>3. k \in 0 .. Len(sent.value) /\ j \in 0 .. Len(sent.value) /\ k # 0
        BY ONLY <4>1, <4>j, k \in 1 .. Len(sent.value)
      <4>4. Before(sent, k) = Append(Before(sent, j), sent.value[k])
        BY ONLY <4>1, <4>3, <4>j, FirstOf DEF Before
      <4>5. /\ got = Before(sent, j)
            /\ \/ /\ got' = Append(got, sent.value[k]) /\ position' = Start(sent, k)
                  /\ status' = "reading"
               \/ fault = "cut" /\ got' = got /\ status' = "stopped"
               \/ /\ fault = "cut" /\ position' = Len(data) /\ status' = "reading"
                  /\ \E x : got' = Append(got, x) /\ x.value.type = "UuidList"
        BY ONLY <4>2, <4>j DEF Moved
      <4>6. Before(sent, k)' = Before(sent, k) /\ Before(sent, j)' = Before(sent, j)
            /\ Start(sent, k)' = Start(sent, k)
        BY ONLY <1>2 DEF Before, Start
      <4>7. Reached(k)' \/ Reached(j)'
        <5>1. CASE /\ got' = Append(got, sent.value[k]) /\ position' = Start(sent, k)
                   /\ status' = "reading"
          BY ONLY <4>4, <4>5, <4>6, <5>1 DEF Reached
        <5>2. CASE fault = "cut" /\ got' = got /\ status' = "stopped"
          BY ONLY <1>2, <4>5, <4>6, <5>2 DEF Reached
        <5>3. CASE /\ fault = "cut" /\ position' = Len(data) /\ status' = "reading"
                   /\ \E x : got' = Append(got, x) /\ x.value.type = "UuidList"
          <6>1. PICK x : got' = Append(got, x) /\ x.value.type = "UuidList"
            BY ONLY <5>3
          <6>2. got' = Append(Before(sent, j)', x)
            BY ONLY <4>5, <4>6, <6>1
          <6> QED
            BY ONLY <1>2, <5>3, <6>1, <6>2 DEF Reached
        <5> QED
          BY ONLY <4>5, <5>1, <5>2, <5>3
      <4>8. status' # "done"
        BY ONLY <4>5
      <4> QED
        BY ONLY <1>2, <4>3, <4>7, <4>8 DEF Progress
    <3> QED
      BY ONLY <3>1, <3>2
  <2> QED
    BY ONLY <1>1, <2>1, <2>2, <2>4, <2>5 DEF RoundInv
<1> QED
  BY ONLY <1>4, <1>5

LEMMA NextRound == RoundInv /\ [Next]_vars => RoundInv'
<1> SUFFICES ASSUME RoundInv, [Next]_vars PROVE RoundInv'
  OBVIOUS
<1>1. RoundInv /\ IndInv'
  <2>1. IndInv /\ [Next]_vars
    BY DEF RoundInv
  <2> QED
    BY ONLY <2>1, NextInv, RoundInv
<1>2. CASE UNCHANGED vars
  <2>1. /\ sent' = sent /\ header' = header /\ status' = status /\ layer' = layer
        /\ fault' = fault /\ data' = data /\ got' = got /\ position' = position
        /\ length' = length
    BY ONLY <1>2 DEF vars
  <2>2. /\ Framed(sent)' = Framed(sent)
        /\ Inner(header', sent', layer') = Inner(header, sent, layer)
    BY ONLY <2>1 DEF Framed, InAcl
  <2>3. Waiting' /\ Intact' /\ Answered'
    BY ONLY <1>1, <2>1, <2>2 DEF RoundInv, Waiting, Intact, Answered, Arrived
  <2>4. Sendable'
    BY ONLY <1>1, <2>1, <2>2 DEF RoundInv, Sendable
  <2>5. Progress'
    <3>1. \A k : Reached(k)' <=> Reached(k)
      BY ONLY <2>1 DEF Reached, Before, Start
    <3>2. AtEnd' <=> AtEnd
      BY ONLY <2>1 DEF AtEnd
    <3> QED
      BY ONLY <1>1, <2>1, <3>1, <3>2 DEF RoundInv, Progress, Arrived
  <2> QED
    BY ONLY <1>1, <2>3, <2>4, <2>5 DEF RoundInv
<1>3. CASE Write
  BY ONLY <1>1, <1>3, WriteRound
<1>4. CASE \/ Whole \/ Padded
           \/ \E n \in 0 .. Len(data) - 1 : Cut(n)
           \/ \E i \in DOMAIN data, octet \in DamagedOctets : Damaged(i, octet)
  BY ONLY <1>1, <1>4, CarryRound
<1>5. CASE ReceiveAcl
  BY ONLY <1>1, <1>5, AclRound
<1>6. CASE ReceiveL2cap
  BY ONLY <1>1, <1>6, L2capRound
<1>7. CASE ReceiveCommand \/ ReceiveMessage \/ ReceiveAddress \/ ReceiveClass
  BY ONLY <1>1, <1>7, ValueRound
<1>8. CASE NextAttribute
  BY ONLY <1>1, <1>8, NextAttributeRound
<1>9. [Next]_vars
  OBVIOUS
<1> QED
  BY ONLY <1>2, <1>3, <1>4, <1>5, <1>6, <1>7, <1>8, <1>9 DEF Next

LEMMA RoundInvHolds == Spec => []RoundInv
  BY InitRound, NextRound, PTL DEF Spec

-----------------------------------------------------------------------------
(* What the reader can rely on.                                            *)

\* What is known of the parser of a list that was not damaged.
LEMMA ParserIntact ==
  ASSUME RoundInv, Arrived, fault # "damaged", sent.kind = "attributes"
  PROVE  /\ layer = "attributes" /\ sent.value \in Seq(HeldAttribute)
         /\ sent.form \in DOMAIN LengthWidth /\ Expected(sent) = sent.value
         /\ length = Len(ListOctets(sent.value, sent.form)) /\ length \in Nat
         /\ data \in Seq(Octet) /\ Len(data) \in Nat
         /\ position \in Nat /\ position <= Len(data)
         /\ Agrees(data, 0, ListOctets(sent.value, sent.form))
         /\ fault \in {"none", "padded"} => Len(data) >= length
         /\ fault = "cut" => Len(data) < length
         /\ status = "done" => AtEnd
         /\ \E k \in 0 .. Len(sent.value) : Reached(k)
<1>1. /\ Chosen(sent) /\ data \in Seq(Octet) /\ position \in 0 .. Len(data)
      /\ Sendable /\ Intact /\ Progress
  BY DEF RoundInv, IndInv, Carried, Parsed
<1>2. /\ Arrived /\ fault # "damaged" /\ sent.kind = "attributes"
      /\ status \notin {"ready", "refused"}
  BY DEF Arrived
<1>3. sent.value \in Seq(HeldAttribute) /\ sent.form \in DOMAIN LengthWidth /\ sent.depth = 0
  BY ONLY <1>1, <1>2 DEF Chosen
<1>4. Nested(sent, layer)
  BY ONLY <1>1, <1>2 DEF Intact
<1>5. layer = "attributes"
  <2>1. ~(0 = 2) /\ 0 \notin {1, 2}
    OBVIOUS
  <2> QED
    BY ONLY <1>2, <1>3, <1>4, <2>1 DEF Nested
<1>w. PICK w : w = ListOctets(sent.value, sent.form)
  OBVIOUS
<1>6. Written(sent) = w /\ Inner(header, sent, layer) = w
  BY ONLY <1>2, <1>5, <1>w DEF Written, Inner
<1>7. length = Len(w)
  BY ONLY <1>1, <1>2, <1>6 DEF Sendable
<1>8. /\ Agrees(data, 0, w)
      /\ \/ fault = "none" /\ Len(data) = Len(w)
         \/ fault = "padded" /\ Len(data) >= Len(w)
         \/ fault = "cut" /\ Len(data) < Len(w)
  BY ONLY <1>1, <1>2, <1>6 DEF Intact
<1>9. w \in Seq(Octet)
  BY ONLY <1>3, <1>w, ListWritten
<1>10. Len(w) \in Nat /\ Len(data) \in Nat
  BY ONLY <1>1, <1>9
<1>11. position \in Nat /\ position <= Len(data)
  BY ONLY <1>1, <1>10
<1>12. (status = "done" => AtEnd) /\ \E k \in 0 .. Len(sent.value) : Reached(k)
  BY ONLY <1>1, <1>2 DEF Progress
<1>13. Expected(sent) = sent.value
  BY ONLY <1>2 DEF Expected
<1>14. fault \in {"none", "padded"} => Len(data) >= Len(w)
  <2>1. fault \in {"none", "padded"} => Len(data) = Len(w) \/ Len(data) >= Len(w)
    BY ONLY <1>8
  <2> QED
    BY ONLY <1>10, <2>1
<1>15. fault = "cut" => Len(data) < Len(w)
  BY ONLY <1>8
<1> QED
  BY ONLY <1>1, <1>3, <1>5, <1>7, <1>8, <1>10, <1>11, <1>12, <1>13, <1>14, <1>15, <1>w

\* A parser at the end of a list that is all there has read every attribute of it.
LEMMA AllRead ==
  ASSUME RoundInv, status \in {"done", "stopped"}, fault \in {"none", "padded"},
         sent.kind = "attributes"
  PROVE  got = Expected(sent)
<1>1. Arrived /\ fault # "damaged" /\ fault # "cut" /\ sent.kind = "attributes" /\ RoundInv
  BY DEF Arrived
<1>z. PICK list, form, N : list = sent.value /\ form = sent.form /\ N = Len(list)
  OBVIOUS
<1>w. PICK w, n : w = ListOctets(list, form) /\ n = Len(w)
  OBVIOUS
<1>2. /\ list \in Seq(HeldAttribute) /\ form \in DOMAIN LengthWidth /\ Expected(sent) = list
      /\ length = n /\ n \in Nat /\ data \in Seq(Octet) /\ Len(data) \in Nat /\ position \in Nat
      /\ Agrees(data, 0, ListOctets(list, form)) /\ Len(data) >= n
      /\ status = "done" => AtEnd
      /\ \E k \in 0 .. N : Reached(k)
  BY ONLY <1>1, <1>z, <1>w, fault \in {"none", "padded"}, ParserIntact
<1>3. PICK k \in 0 .. N : Reached(k)
  BY ONLY <1>2
<1>4. got = Before(sent, k) /\ position = Start(sent, k) /\ status = "done"
  BY ONLY <1>1, <1>3, status \in {"done", "stopped"} DEF Reached
<1>5. position >= n
  <2>1. position >= n \/ position >= Len(data)
    BY ONLY <1>2, <1>4 DEF AtEnd
  <2> QED
    BY ONLY <1>2, <2>1
<1>6. N \in Nat /\ \A a \in 0 .. N : a # N => Start(sent, a) < n
  <2>1. \A a \in 0 .. Len(list) :
          a # Len(list) => Len(Beginning(list, form, a)) < Len(ListOctets(list, form))
    BY ONLY <1>2, AlongList
  <2> QED
    BY ONLY <1>2, <1>z, <1>w, <2>1 DEF Start
<1>7. k = N
  <2>1. k # N => Start(sent, k) < n
    BY ONLY <1>6, k \in 0 .. N
  <2> QED
    BY ONLY <1>2, <1>4, <1>5, <2>1
<1>8. SubSeq(list, 1, Len(list)) = list
  BY ONLY <1>2, SubSeqFull
<1> QED
  BY ONLY <1>2, <1>4, <1>7, <1>8, <1>z DEF Before

\* Everything that arrives whole is read as it was sent, whatever the value, the packets around
\* it and the octets behind its end; an address with octets behind it is refused.
THEOREM ArrivesWhole == Spec => []WholeIsRead
<1>1. RoundInv => WholeIsRead
  <2> SUFFICES ASSUME RoundInv PROVE WholeIsRead
    OBVIOUS
  <2>1. ASSUME status = "reading", layer = "acl", fault = "none"
        PROVE  AclFromBytes(data).header = [header EXCEPT !.data_length = Len(data) - 4]
    <3>1. fault # "damaged" /\ fault # "padded" /\ fault # "cut"
      BY ONLY <2>1
    <3>2. /\ Chosen(sent) /\ HeaderTyped(header) /\ Framed(sent) # Failed /\ data \in Seq(Octet)
          /\ Nested(sent, layer) /\ Agrees(data, 0, Inner(header, sent, layer))
          /\ Len(data) = Len(Inner(header, sent, layer))
      BY ONLY RoundInv, <2>1, <3>1, ReadingIntact
    <3>3. sent.kind # layer
      BY ONLY <2>1, <3>2, KindIs
    <3>4. sent.depth = 2
      BY ONLY <2>1, <3>2, <3>3 DEF Nested
    <3>o. PICK o, z : o = InL2cap(Written(sent), Cid(sent)) /\ z = AclOf(header, o)
      OBVIOUS
    <3>5. o \in Seq(Octet) /\ z # Failed
      <4>1. sent.depth # 0
        BY ONLY <3>4
      <4> QED
        BY ONLY <3>2, <3>4, <3>o, <4>1, Layers
    <3>6. Inner(header, sent, layer) = z
      BY ONLY <2>1, <3>o DEF Inner
    <3>7. Agrees(data, 0, z) /\ Len(data) = Len(z) /\ Len(data) \in Nat
      BY ONLY <3>2, <3>6
    <3>8. Len(z) <= Len(data)
      BY ONLY <3>7
    <3>9. AclFromBytes(data).header = [header EXCEPT !.data_length = Len(z) - 4]
      BY ONLY <3>2, <3>5, <3>7, <3>8, <3>o, AclRead
    <3> QED
      BY ONLY <3>7, <3>9
  <2>2. ASSUME status \in {"done", "stopped"}, fault \in {"none", "padded"}
        PROVE  got = IF fault = "padded" /\ sent.kind = "address" THEN Failed ELSE Expected(sent)
    <3>1. CASE sent.kind = "attributes"
      <4>1. got = Expected(sent)
        BY ONLY RoundInv, <2>2, <3>1, AllRead
      <4> QED
        BY ONLY <3>1, <4>1
    <3>2. CASE sent.kind # "attributes"
      <4>1. Arrived /\ fault # "damaged" /\ fault # "cut" /\ RoundInv
        BY ONLY RoundInv, <2>2 DEF Arrived
      <4>2. status # "stopped"
        <5>1. Nested(sent, layer) /\ (status = "stopped" => layer = "attributes")
          BY ONLY <4>1 DEF RoundInv, Intact, Answered
        <5> QED
          BY ONLY <3>2, <5>1 DEF Nested
      <4>3. status = "done"
        BY ONLY <2>2, <4>2
      <4> QED
        BY ONLY <3>2, <4>1, <4>3 DEF RoundInv, Answered
    <3> QED
      BY ONLY <3>1, <3>2
  <2> QED
    BY ONLY <2>1, <2>2 DEF WholeIsRead
<1> QED
  BY <1>1, RoundInvHolds, PTL

\* What a parser of a list cut short has read is the beginning of what was sent, and the parser
\* is not at the end of the list.
LEMMA CutList ==
  ASSUME RoundInv, status \in {"done", "stopped"}, fault = "cut", sent.kind = "attributes"
  PROVE  /\ layer = "attributes" /\ position < length
         /\ got # <<>> => IsPrefix(Front(got), sent.value)
         /\ got # <<>> => \/ IsPrefix(got, sent.value)
                          \/ Last(got).value.type = "UuidList" /\ position = Len(data)
<1>1. Arrived /\ fault # "damaged" /\ fault = "cut" /\ sent.kind = "attributes" /\ RoundInv
  BY DEF Arrived
<1>z. PICK list : list = sent.value
  OBVIOUS
<1>2. /\ layer = "attributes" /\ list \in Seq(HeldAttribute) /\ length \in Nat
      /\ Len(data) \in Nat /\ position \in Nat /\ position <= Len(data) /\ Len(data) < length
      /\ \E k \in 0 .. Len(list) : Reached(k)
  BY ONLY <1>1, <1>z, ParserIntact
<1>3. position < length
  BY ONLY <1>2
<1>4. PICK k \in 0 .. Len(list) : Reached(k)
  BY ONLY <1>2
<1>5. PICK b : b = SubSeq(list, 1, k)
  OBVIOUS
<1>6. /\ b \in Seq(HeldAttribute) /\ Len(b) = k /\ IsPrefix(b, list)
      /\ k # 0 => b = Append(SubSeq(list, 1, k - 1), list[k])
  BY ONLY <1>2, <1>5, k \in 0 .. Len(list), FirstOf
<1>7. \/ got = b
      \/ position = Len(data) /\ \E x : got = Append(b, x) /\ x.value.type = "UuidList"
  BY ONLY <1>4, <1>5, <1>z DEF Reached, Before
<1>8. CASE got = b /\ got # <<>>
  <2>1. k # 0
    BY ONLY <1>6, <1>8, EmptySeq
  <2>j. PICK j, a : j = k - 1 /\ a = SubSeq(list, 1, j)
    OBVIOUS
  <2>2. j \in 0 .. Len(list)
    BY ONLY <1>2, <2>1, <2>j, k \in 0 .. Len(list)
  <2>3. a \in Seq(HeldAttribute) /\ IsPrefix(a, list)
    BY ONLY <1>2, <2>2, <2>j, FirstOf
  <2>4. b = Append(a, list[k])
    BY ONLY <1>6, <2>1, <2>j
  <2>5. Front(b) = a
    BY ONLY <2>3, <2>4, FrontOfAppend
  <2> QED
    BY ONLY <1>2, <1>3, <1>6, <1>8, <1>z, <2>3, <2>5
<1>9. CASE position = Len(data) /\ \E x : got = Append(b, x) /\ x.value.type = "UuidList"
  <2>1. PICK x : got = Append(b, x) /\ x.value.type = "UuidList"
    BY ONLY <1>9
  <2>2. Front(got) = b /\ Last(got) = x
    BY ONLY <1>6, <2>1, FrontOfAppend
  <2> QED
    BY ONLY <1>2, <1>3, <1>6, <1>9, <1>z, <2>1, <2>2
<1> QED
  BY ONLY <1>2, <1>3, <1>7, <1>8, <1>9

\* Nothing that arrives cut short is taken for the whole, wherever it is cut.
THEOREM CutIsSeen == Spec => []CutIsNoticed
<1>1. RoundInv => CutIsNoticed
  <2> SUFFICES ASSUME RoundInv, fault = "cut", status \in {"done", "stopped"}
               PROVE  \/ layer # "attributes" /\ got = Failed
                      \/ /\ layer = "attributes" /\ position < length
                         /\ got # <<>> => IsPrefix(Front(got), sent.value)
                         /\ got # <<>> => \/ IsPrefix(got, sent.value)
                                          \/ /\ Last(got).value.type = "UuidList"
                                             /\ position = Len(data)
    BY DEF CutIsNoticed
  <2>1. CASE sent.kind = "attributes"
    BY ONLY RoundInv, fault = "cut", status \in {"done", "stopped"}, <2>1, CutList
  <2>2. CASE sent.kind # "attributes"
    <3>1. Arrived /\ fault # "damaged" /\ fault = "cut"
      BY DEF Arrived
    <3>2. /\ Nested(sent, layer) /\ (status = "stopped" => layer = "attributes")
          /\ status = "done" => got = Failed
      BY ONLY RoundInv, <2>2, <3>1 DEF RoundInv, Intact, Answered
    <3>3. layer # "attributes"
      BY ONLY <2>2, <3>2 DEF Nested
    <3> QED
      BY ONLY <3>2, <3>3, status \in {"done", "stopped"}
  <2> QED
    BY ONLY <2>1, <2>2
<1> QED
  BY <1>1, RoundInvHolds, PTL

\* Where a step leaves the parser, by either size of the attribute it returned.
SizesHold ==
  IF got' = got THEN position' = position
  ELSE /\ position' = position + 2 + EncodedSize(Last(got').value)
       /\ EntrySize(Last(got')) = position' - position + 1

\* The steps of the parser over a list with the shortest lengths.
LEMMA StepOfSize ==
  ASSUME RoundInv, NextAttribute, fault \in {"none", "padded"}, sent.form = 5
  PROVE  SizesHold
<1>1. RoundInv /\ NextAttribute /\ fault # "damaged" /\ fault # "cut"
      /\ status = "reading" /\ layer = "attributes"
  BY DEF NextAttribute, Reading
<1>2. CASE AtEnd
  <2>1. got' = got /\ position' = position
    BY ONLY <1>1, <1>2 DEF NextAttribute, Finish
  <2> QED
    BY ONLY <2>1 DEF SizesHold
<1>3. CASE ~AtEnd
  <2>z. PICK list : list = sent.value
    OBVIOUS
  <2>1. list \in Seq(HeldAttribute) /\ \E k \in 1 .. Len(list) : Moved(k)
    BY ONLY <1>1, <1>3, <2>z, AttributeStep
  <2>2. PICK k \in 1 .. Len(list) : Moved(k)
    BY ONLY <2>1
  <2>3. /\ got = SubSeq(list, 1, k - 1) /\ got' = Append(got, list[k])
        /\ position' = position + Len(AttributeOctets(list[k], 5))
    BY ONLY <1>1, <2>2, <2>z, sent.form = 5 DEF Moved, Before
  <2>j. PICK j : j = k - 1
    OBVIOUS
  <2>4. j \in 0 .. Len(list) /\ list[k] \in HeldAttribute
    BY ONLY <2>1, <2>j, k \in 1 .. Len(list)
  <2>5. got \in Seq(HeldAttribute)
    BY ONLY <2>1, <2>3, <2>4, <2>j, FirstOf
  <2>6. got' # got /\ Last(got') = list[k]
    <3>1. PICK b, r, x : b = got /\ r = got' /\ x = list[k]
      OBVIOUS
    <3>2. b \in Seq(HeldAttribute) /\ r = Append(b, x)
      BY ONLY <2>3, <2>5, <3>1
    <3>3. r # b /\ Last(r) = x
      BY ONLY <3>2, FrontOfAppend
    <3> QED
      BY ONLY <3>1, <3>3
  <2>7. PICK size, len : size = EncodedSize(list[k].value) /\ len = Len(AttributeOctets(list[k], 5))
    OBVIOUS
  <2>8. size \in Nat /\ len = 2 + size
    BY ONLY <2>4, <2>7, SizeOfAttribute
  <2>9. position \in Nat
    <3>1. position \in 0 .. Len(data) /\ data \in Seq(Octet)
      BY ONLY <1>1 DEF RoundInv, IndInv, Carried, Parsed
    <3> QED
      BY ONLY <3>1
  <2>10. position' = position + 2 + size /\ 3 + size = position' - position + 1
    <3>1. position' = position + len
      BY ONLY <2>3, <2>7
    <3> QED
      BY ONLY <2>8, <2>9, <3>1
  <2>11. EncodedSize(Last(got').value) = size /\ EntrySize(Last(got')) = 3 + size
    BY ONLY <2>6, <2>7 DEF EntrySize
  <2> QED
    BY ONLY <2>6, <2>10, <2>11 DEF SizesHold
<1> QED
  BY ONLY <1>2, <1>3

\* A parser moves by two octets and encoded_size for each attribute that it returns, and by
\* none else, so that adding these up leads to the boundaries of the list; AttributeEntry::size
\* is one more than that.
THEOREM SizesAddUpAlways == Spec => SizesAddUp
<1>1. RoundInv /\ [Next]_vars =>
        [ListRead => SizesHold]_vars
  <2> SUFFICES ASSUME RoundInv, Next, layer = "attributes", fault' \in {"none", "padded"},
                      sent.form = 5
               PROVE  SizesHold
    BY DEF vars, ListRead
  <2>1. CASE NextAttribute
    <3>1. fault \in {"none", "padded"}
      <4>1. fault' = fault
        BY ONLY <2>1 DEF NextAttribute, Finish
      <4> QED
        BY ONLY <4>1, fault' \in {"none", "padded"}
    <3> QED
      BY ONLY RoundInv, <2>1, <3>1, sent.form = 5, StepOfSize
  <2>2. CASE \/ Write \/ Whole \/ Padded
             \/ \E n \in 0 .. Len(data) - 1 : Cut(n)
             \/ \E i \in DOMAIN data, octet \in DamagedOctets : Damaged(i, octet)
    <3>1. got' = got /\ position' = position
      BY ONLY <2>2 DEF Write, Whole, Padded, Cut, Damaged, Arrive
    <3> QED
      BY ONLY <3>1 DEF SizesHold
  <2>3. ~(\/ ReceiveAcl \/ ReceiveL2cap \/ ReceiveCommand \/ ReceiveMessage
          \/ ReceiveAddress \/ ReceiveClass)
    BY ONLY layer = "attributes" DEF ReceiveAcl, ReceiveL2cap, ReceiveCommand, ReceiveMessage,
         ReceiveAddress, ReceiveClass, Reading
  <2> QED
    BY ONLY Next, <2>1, <2>2, <2>3 DEF Next
<1> QED
  BY <1>1, RoundInvHolds, PTL DEF Spec, SizesAddUp, SizesHold
=============================================================================
