-------------------------- MODULE A2dpProfileProofs --------------------------
(***************************************************************************)
(* Proofs about A2dpProfile: its types and capacities, the agreement of    *)
(* the stream table with the lists of the connections, and that a call     *)
(* touches the streams of one device only, for any devices, handles,       *)
(* configurations and sizes of the tables.                                 *)
(*                                                                         *)
(* The agreement is inductive once two things are added: a list names no   *)
(* handle twice, which the invariant of the model says by counting, and    *)
(* the table of connections is finite, so that it can be counted.          *)
(***************************************************************************)
EXTENDS A2dpProfile, SequenceTheorems, FiniteSetTheorems, TLAPS

Types == TypeOK /\ IsFiniteSet(DOMAIN connections)

Once(list) == \A i, j \in DOMAIN list : list[i] = list[j] => i = j

\* Every stream is listed by the connection it was created on.
StreamsHaveLists ==
  \A s \in DOMAIN streams :
    /\ streams[s].remote_addr \in DOMAIN connections
    /\ s \in Listed(streams[s].remote_addr)
    /\ streams[s].conn_handle = connections[streams[s].remote_addr].conn_handle

\* A connection lists only streams of its device, and none twice.
ListsHaveStreams ==
  \A a \in DOMAIN connections :
    /\ \A s \in Listed(a) : s \in DOMAIN streams /\ streams[s].remote_addr = a
    /\ Once(connections[a].streams)

Agreement == ~reused => StreamsHaveLists /\ ListsHaveStreams

IndInv == Types /\ Agreement

-----------------------------------------------------------------------------
(* Tables and lists.                                                       *)

\* An entry that fits keeps the table within its capacity.
LEMMA TableGrows ==
  ASSUME NEW table, NEW key, NEW value, NEW capacity \in Nat,
         IsFiniteSet(DOMAIN table), Cardinality(DOMAIN table) <= capacity,
         Fits(table, key, capacity)
  PROVE  /\ DOMAIN With(table, key, value) = DOMAIN table \cup {key}
         /\ IsFiniteSet(DOMAIN table \cup {key})
         /\ Cardinality(DOMAIN table \cup {key}) <= capacity
<1>1. DOMAIN With(table, key, value) = DOMAIN table \cup {key}
  BY DEF With
<1>2. Cardinality(DOMAIN table) \in Nat
  BY FS_CardinalityType
<1> QED
  BY <1>1, <1>2, FS_AddElement DEF Fits

\* Taking entries out does as well.
LEMMA TableShrinks ==
  ASSUME NEW table, NEW keys, NEW capacity \in Nat,
         IsFiniteSet(DOMAIN table), Cardinality(DOMAIN table) <= capacity
  PROVE  /\ DOMAIN Without(table, keys) = DOMAIN table \ keys
         /\ IsFiniteSet(DOMAIN table \ keys)
         /\ Cardinality(DOMAIN table \ keys) <= capacity
<1>1. DOMAIN Without(table, keys) = DOMAIN table \ keys
  BY DEF Without
<1>2. /\ IsFiniteSet(DOMAIN table \ keys)
      /\ Cardinality(DOMAIN table \ keys) <= Cardinality(DOMAIN table)
  BY FS_Subset, DOMAIN table \ keys \in SUBSET DOMAIN table
<1>3. Cardinality(DOMAIN table) \in Nat /\ Cardinality(DOMAIN table \ keys) \in Nat
  BY <1>2, FS_CardinalityType
<1> QED
  BY <1>1, <1>2, <1>3

\* A list that names nothing twice is as long as the set of what it names.
LEMMA ListCounts ==
  ASSUME NEW S, NEW list \in Seq(S), Once(list)
  PROVE  IsFiniteSet(ToSet(list)) /\ Cardinality(ToSet(list)) = Len(list)
<1>1. list \in Bijection(1 .. Len(list), ToSet(list))
  <2>1. list \in [1 .. Len(list) -> ToSet(list)]
    BY DEF ToSet
  <2>2. \A t \in ToSet(list) : \E i \in 1 .. Len(list) : list[i] = t
    BY DEF ToSet
  <2> QED
    BY <2>1, <2>2 DEF Once, Bijection, Injection, Surjection, IsInjective
<1>2. ExistsBijection(1 .. Len(list), ToSet(list))
  BY <1>1 DEF ExistsBijection
<1>3. Len(list) \in Nat
  OBVIOUS
<1> QED
  BY <1>2, <1>3, FS_CountingElements, FS_NatBijection

\* Appending what is not yet there.
LEMMA Extended ==
  ASSUME NEW S, NEW list \in Seq(S), NEW s \in S
  PROVE  /\ Append(list, s) \in Seq(S)
         /\ Len(Append(list, s)) = Len(list) + 1
         /\ ToSet(Append(list, s)) = ToSet(list) \cup {s}
         /\ Once(list) /\ s \notin ToSet(list) => Once(Append(list, s))
<1>1. /\ Append(list, s) \in Seq(S) /\ Len(Append(list, s)) = Len(list) + 1
      /\ Len(list) \in Nat /\ DOMAIN list = 1 .. Len(list)
      /\ DOMAIN Append(list, s) = 1 .. Len(list) + 1
      /\ \A i \in 1 .. Len(list) : Append(list, s)[i] = list[i]
      /\ Append(list, s)[Len(list) + 1] = s
  OBVIOUS
<1>2. ToSet(Append(list, s)) = ToSet(list) \cup {s}
  BY <1>1 DEF ToSet
<1>3. Once(list) /\ s \notin ToSet(list) => Once(Append(list, s))
  BY <1>1 DEF ToSet, Once
<1> QED
  BY <1>1, <1>2, <1>3

\* RemoveAt closes the gap.
LEMMA Removed ==
  ASSUME NEW S, NEW list \in Seq(S), NEW i \in 1 .. Len(list)
  PROVE  /\ RemoveAt(list, i) \in Seq(S)
         /\ Len(RemoveAt(list, i)) = Len(list) - 1
         /\ \A j \in 1 .. Len(list) - 1 :
              RemoveAt(list, i)[j] = IF j < i THEN list[j] ELSE list[j + 1]
<1> DEFINE before == SubSeq(list, 1, i - 1)
           after == SubSeq(list, i + 1, Len(list))
<1>1. /\ before \in Seq(S) /\ Len(before) = i - 1
      /\ \A j \in 1 .. i - 1 : before[j] = list[j]
  OBVIOUS
<1>2. /\ after \in Seq(S) /\ Len(after) = Len(list) - i
      /\ \A j \in 1 .. Len(list) - i : after[j] = list[j + i]
  OBVIOUS
<1>3. RemoveAt(list, i) = before \o after
  BY DEF RemoveAt
<1> HIDE DEF before, after
<1>4. /\ before \o after \in Seq(S) /\ Len(before \o after) = Len(list) - 1
      /\ \A j \in 1 .. Len(list) - 1 :
           (before \o after)[j] = IF j < i THEN before[j] ELSE after[j - i + 1]
  <2>1. Len(list) \in Nat /\ before \o after \in Seq(S)
    BY <1>1, <1>2, ConcatProperties
  <2>2. Len(before \o after) = Len(before) + Len(after)
    BY <1>1, <1>2, ConcatProperties
  <2>3. \A j \in 1 .. Len(before) + Len(after) :
          (before \o after)[j] = IF j <= Len(before) THEN before[j] ELSE after[j - Len(before)]
    BY <1>1, <1>2, ConcatProperties
  <2>4. (i - 1) + (Len(list) - i) = Len(list) - 1
    BY <2>1
  <2>5. ASSUME NEW j \in 1 .. Len(list) - 1
        PROVE  (before \o after)[j] = IF j < i THEN before[j] ELSE after[j - i + 1]
    <3>1. j - (i - 1) = j - i + 1 /\ (j <= i - 1 <=> j < i) /\ j \in 1 .. (i - 1) + (Len(list) - i)
      BY <2>1, <2>5
    <3> QED
      BY <3>1, <2>3, <1>1, <1>2
  <2> QED
    BY <2>1, <2>2, <2>4, <2>5, <1>1, <1>2
<1> QED
  <2>1. ASSUME NEW j \in 1 .. Len(list) - 1
        PROVE  (before \o after)[j] = IF j < i THEN list[j] ELSE list[j + 1]
    <3>1. CASE j < i
      BY <3>1, <1>1, <1>4
    <3>2. CASE ~(j < i)
      <4>1. j - i + 1 \in 1 .. Len(list) - i /\ (j - i + 1) + i = j + 1
        BY <3>2
      <4> QED
        BY <3>2, <4>1, <1>2, <1>4
    <3> QED
      BY <3>1, <3>2
  <2> QED
    BY <2>1, <1>3, <1>4

\* Taking a handle out of a list that has it once.
LEMMA UnlistedIs ==
  ASSUME NEW S, NEW list \in Seq(S), NEW s
  PROVE  /\ Unlisted(list, s) \in Seq(S)
         /\ Len(Unlisted(list, s)) <= Len(list)
         /\ Once(list) => Once(Unlisted(list, s)) /\ ToSet(Unlisted(list, s)) = ToSet(list) \ {s}
<1> DEFINE at == {i \in DOMAIN list : list[i] = s /\ \A j \in 1 .. i - 1 : list[j] # s}
<1>1. CASE at = {}
  <2>1. Unlisted(list, s) = list
    BY <1>1 DEF Unlisted
  <2>2. Once(list) => s \notin ToSet(list)
    <3>1. SUFFICES ASSUME Once(list), NEW k \in DOMAIN list, list[k] = s PROVE k \in at
      BY <1>1 DEF ToSet
    <3> QED
      BY <3>1 DEF Once
  <2> QED
    BY <2>1, <2>2
<1>2. CASE at # {}
  <2> DEFINE i == CHOOSE k \in at : TRUE
  <2>1. Unlisted(list, s) = RemoveAt(list, i)
    BY <1>2 DEF Unlisted
  <2>2. i \in 1 .. Len(list) /\ list[i] = s
    BY <1>2
  <2> HIDE DEF i
  <2> DEFINE new == RemoveAt(list, i)
  <2>3. /\ new \in Seq(S) /\ Len(new) = Len(list) - 1
        /\ \A j \in 1 .. Len(list) - 1 : new[j] = IF j < i THEN list[j] ELSE list[j + 1]
    BY <2>2, Removed
  <2> HIDE DEF new
  <2>4. ASSUME Once(list) PROVE Once(new)
    <3>1. ASSUME NEW j \in 1 .. Len(list) - 1, NEW k \in 1 .. Len(list) - 1, new[j] = new[k]
          PROVE  j = k
      <4> DEFINE old(n) == IF n < i THEN n ELSE n + 1
      <4>1. old(j) \in DOMAIN list /\ old(k) \in DOMAIN list
        BY <2>2
      <4>2. list[old(j)] = list[old(k)]
        BY <2>3, <3>1
      <4>3. old(j) = old(k)
        BY <4>1, <4>2, <2>4 DEF Once
      <4> QED
        BY <4>3, <2>2
    <3>2. DOMAIN new = 1 .. Len(list) - 1
      BY <2>3
    <3> QED
      BY <3>1, <3>2 DEF Once
  <2>5. ASSUME Once(list) PROVE ToSet(new) = ToSet(list) \ {s}
    <3>1. ASSUME NEW t \in ToSet(new) PROVE t \in ToSet(list) \ {s}
      <4>1. PICK j \in 1 .. Len(list) - 1 : t = new[j]
        BY <2>3 DEF ToSet
      <4>2. PICK k \in 1 .. Len(list) : k # i /\ t = list[k]
        BY <4>1, <2>2, <2>3
      <4> QED
        BY <4>2, <2>2, <2>5 DEF ToSet, Once
    <3>2. ASSUME NEW t \in ToSet(list) \ {s} PROVE t \in ToSet(new)
      <4>1. PICK k \in 1 .. Len(list) : t = list[k] /\ k # i
        BY <3>2, <2>2 DEF ToSet
      <4>2. PICK j \in 1 .. Len(list) - 1 : t = new[j]
        <5>1. CASE k < i
          BY <5>1, <4>1, <2>2, <2>3
        <5>2. CASE k > i
          <6>1. k - 1 \in 1 .. Len(list) - 1 /\ ~(k - 1 < i) /\ (k - 1) + 1 = k
            BY <5>2, <2>2
          <6> QED
            BY <6>1, <4>1, <2>3
        <5> QED
          BY <5>1, <5>2, <4>1, <2>2
      <4> QED
        BY <4>2, <2>3 DEF ToSet
    <3> QED
      BY <3>1, <3>2
  <2> QED
    BY <2>1, <2>3, <2>4, <2>5 DEF new
<1> QED
  BY <1>1, <1>2

-----------------------------------------------------------------------------
(* What the tables' types give.                                            *)

List == [conn_handle : ConnHandle, streams : Seq(StreamHandle)]

\* Configuring or resetting an endpoint keeps the vector of endpoints.
LEMMA EndpointsKept ==
  ASSUME TypeOK, NEW seid, NEW config \in Config
  PROVE  /\ Configured(seid, config) \in Seq(Endpoint) /\ Len(Configured(seid, config)) = Len(endpoints)
         /\ Reset(seid) \in Seq(Endpoint) /\ Len(Reset(seid)) = Len(endpoints)
<1>1. /\ endpoints \in Seq(Endpoint) /\ Len(endpoints) \in Nat
      /\ DOMAIN endpoints = 1 .. Len(endpoints)
      /\ \A i \in DOMAIN endpoints : endpoints[i] \in Endpoint
  BY DEF TypeOK
<1>2. Configured(seid, config) \in [1 .. Len(endpoints) -> Endpoint]
  BY <1>1 DEF Configured, Endpoint
<1>3. Reset(seid) \in [1 .. Len(endpoints) -> Endpoint]
  BY <1>1 DEF Reset, Endpoint
<1>4. \A f \in [1 .. Len(endpoints) -> Endpoint] : f \in Seq(Endpoint) /\ Len(f) = Len(endpoints)
  BY <1>1
<1> QED
  BY <1>2, <1>3, <1>4

\* The numbers wrap around within their range, and the tables can be counted.
LEMMA Bounds ==
  ASSUME Types
  PROVE  /\ (nextHandle + 1) % HandleCount \in StreamHandle
         /\ (nextSeid + 1) % SeidCount \in Seid
         /\ IsFiniteSet(DOMAIN streams)
         /\ \A s \in DOMAIN streams : streams[s] \in Stream
         /\ \A a \in DOMAIN connections : connections[a] \in List
<1>1. /\ nextHandle \in 0 .. HandleCount - 1 /\ HandleCount \in Nat \ {0}
      /\ nextSeid \in 0 .. SeidCount - 1 /\ SeidCount \in Nat \ {0}
  BY A2dpAssumption DEF Types, TypeOK, StreamHandle, Seid
<1>2. /\ (nextHandle + 1) % HandleCount \in StreamHandle
      /\ (nextSeid + 1) % SeidCount \in Seid
  BY <1>1 DEF StreamHandle, Seid
<1>3. IsFiniteSet(StreamHandle)
  BY <1>1, FS_Interval DEF StreamHandle
<1>4. IsFiniteSet(DOMAIN streams)
  BY <1>3, FS_Subset DEF Types, TypeOK
<1>5. /\ \A s \in DOMAIN streams : streams[s] \in Stream
      /\ \A a \in DOMAIN connections : connections[a] \in List
  BY DEF Types, TypeOK, List
<1> QED
  BY <1>2, <1>4, <1>5

-----------------------------------------------------------------------------
(* The calls, one by one.                                                  *)

LEMMA EndpointStep ==
  ASSUME IndInv, AddSbcEndpoint
  PROVE  IndInv'
<1>1. Types'
  <2>1. nextSeid' \in Seid
    BY Bounds DEF IndInv, AddSbcEndpoint
  <2>2. endpoints' \in Seq(Endpoint) /\ Len(endpoints') <= MaxEndpoints
    <3>1. /\ endpoints \in Seq(Endpoint) /\ Len(endpoints) <= MaxEndpoints /\ nextSeid \in Seid
          /\ Len(endpoints) \in Nat /\ MaxEndpoints \in Nat
      BY A2dpAssumption DEF IndInv, Types, TypeOK
    <3> DEFINE e == [seid |-> nextSeid, in_use |-> FALSE, configuration |-> NoConfig]
    <3>2. e \in Endpoint
      BY <3>1 DEF Endpoint
    <3>3. endpoints' = IF Len(endpoints) < MaxEndpoints THEN Append(endpoints, e) ELSE endpoints
      BY DEF AddSbcEndpoint
    <3> HIDE DEF e
    <3> QED
      BY <3>1, <3>2, <3>3
  <2> QED
    BY <2>1, <2>2 DEF IndInv, Types, TypeOK, AddSbcEndpoint
<1>2. Agreement'
  BY DEF IndInv, Agreement, StreamsHaveLists, ListsHaveStreams, Listed, AddSbcEndpoint
<1> QED
  BY <1>1, <1>2 DEF IndInv

LEMMA ConnectStep ==
  ASSUME IndInv, NEW a \in Addr, NEW ch \in ConnHandle, CreateConnection(a, ch)
  PROVE  IndInv'
<1> DEFINE c == [conn_handle |-> ch, streams |-> <<>>]
<1>1. /\ a \notin DOMAIN connections /\ Fits(connections, a, MaxConnections)
      /\ connections' = With(connections, a, c)
      /\ UNCHANGED <<endpoints, streams, nextHandle, nextSeid, reused>>
  BY DEF CreateConnection
<1>2. /\ DOMAIN connections' = DOMAIN connections \cup {a}
      /\ connections'[a] = c
      /\ \A b \in DOMAIN connections : connections'[b] = connections[b]
  BY <1>1 DEF With
<1>3. Types'
  <2>1. /\ IsFiniteSet(DOMAIN connections') /\ Cardinality(DOMAIN connections') <= MaxConnections
    BY <1>1, <1>2, TableGrows, A2dpAssumption DEF IndInv, Types, TypeOK
  <2>2. connections' \in [DOMAIN connections' -> List]
    <3>1. c \in List
      BY DEF List
    <3>2. connections' = [b \in DOMAIN connections' |-> connections'[b]]
      BY <1>1 DEF With
    <3> QED
      BY <1>2, <3>1, <3>2, Bounds DEF IndInv
  <2>3. \A b \in DOMAIN connections' : Len(connections'[b].streams) <= MaxListed
    BY <1>2, A2dpAssumption DEF IndInv, Types, TypeOK
  <2>4. DOMAIN connections' \subseteq Addr
    BY <1>2 DEF IndInv, Types, TypeOK
  <2> QED
    BY <1>1, <2>1, <2>2, <2>3, <2>4 DEF IndInv, Types, TypeOK, List
<1>4. ASSUME ~reused PROVE (StreamsHaveLists /\ ListsHaveStreams)'
  <2>1. StreamsHaveLists /\ ListsHaveStreams
    BY <1>4 DEF IndInv, Agreement
  <2>2. StreamsHaveLists'
    BY <1>1, <1>2, <2>1 DEF StreamsHaveLists, Listed
  <2>3. ListsHaveStreams'
    <3>1. ToSet(c.streams) = {} /\ Once(c.streams)
      BY DEF ToSet, Once
    <3> QED
      BY <1>1, <1>2, <2>1, <3>1 DEF ListsHaveStreams, Listed
  <2> QED
    BY <2>2, <2>3
<1> QED
  BY <1>1, <1>3, <1>4 DEF IndInv, Agreement

LEMMA RemoveStep ==
  ASSUME IndInv, NEW a \in Addr, RemoveConnection(a)
  PROVE  IndInv'
<1>1. /\ a \in DOMAIN connections
      /\ connections' = Without(connections, {a})
      /\ streams' = Without(streams, Listed(a))
      /\ UNCHANGED <<endpoints, nextHandle, nextSeid, reused>>
  BY DEF RemoveConnection
<1>2. /\ DOMAIN connections' = DOMAIN connections \ {a}
      /\ \A b \in DOMAIN connections' : connections'[b] = connections[b]
      /\ DOMAIN streams' = DOMAIN streams \ Listed(a)
      /\ \A s \in DOMAIN streams' : streams'[s] = streams[s]
  BY <1>1 DEF Without
<1>3. Types'
  <2>1. /\ IsFiniteSet(DOMAIN connections') /\ Cardinality(DOMAIN connections') <= MaxConnections
        /\ Cardinality(DOMAIN streams') <= MaxStreams
    <3>1. /\ IsFiniteSet(DOMAIN connections) /\ Cardinality(DOMAIN connections) <= MaxConnections
          /\ IsFiniteSet(DOMAIN streams) /\ Cardinality(DOMAIN streams) <= MaxStreams
          /\ MaxConnections \in Nat /\ MaxStreams \in Nat
      BY Bounds, A2dpAssumption DEF IndInv, Types, TypeOK
    <3>2. /\ IsFiniteSet(DOMAIN connections \ {a})
          /\ Cardinality(DOMAIN connections \ {a}) <= MaxConnections
      BY <3>1, TableShrinks
    <3>3. Cardinality(DOMAIN streams \ Listed(a)) <= MaxStreams
      BY <3>1, TableShrinks
    <3> QED
      BY <1>2, <3>2, <3>3
  <2>2. streams' \in [DOMAIN streams' -> Stream] /\ connections' \in [DOMAIN connections' -> List]
    <3>1. /\ streams' = [s \in DOMAIN streams' |-> streams'[s]]
          /\ connections' = [b \in DOMAIN connections' |-> connections'[b]]
      BY <1>1 DEF Without
    <3> QED
      BY <1>2, <3>1, Bounds DEF IndInv
  <2>3. /\ DOMAIN streams' \subseteq StreamHandle /\ DOMAIN connections' \subseteq Addr
        /\ \A b \in DOMAIN connections' : Len(connections'[b].streams) <= MaxListed
    BY <1>2 DEF IndInv, Types, TypeOK
  <2> QED
    BY <1>1, <2>1, <2>2, <2>3 DEF IndInv, Types, TypeOK, List
<1>4. ASSUME ~reused PROVE (StreamsHaveLists /\ ListsHaveStreams)'
  <2>1. StreamsHaveLists /\ ListsHaveStreams
    BY <1>4 DEF IndInv, Agreement
  <2>2. StreamsHaveLists'
    BY <1>2, <2>1 DEF StreamsHaveLists, Listed
  <2>3. ListsHaveStreams'
    <3>1. SUFFICES ASSUME NEW b \in DOMAIN connections'
                   PROVE  /\ \A s \in Listed(b) : s \in DOMAIN streams' /\ streams'[s].remote_addr = b
                          /\ Once(connections[b].streams)
      BY <1>2 DEF ListsHaveStreams, Listed
    <3>2. b \in DOMAIN connections /\ b # a
      BY <1>2, <3>1
    <3>3. \A s \in Listed(b) : s \in DOMAIN streams /\ streams[s].remote_addr = b /\ s \notin Listed(a)
      BY <1>1, <2>1, <3>2 DEF ListsHaveStreams
    <3> QED
      BY <1>2, <2>1, <3>2, <3>3 DEF ListsHaveStreams
  <2> QED
    BY <2>2, <2>3
<1> QED
  BY <1>1, <1>3, <1>4 DEF IndInv, Agreement

\* A stream that does not get into the table leaves an endpoint configured.
LEMMA RefusedStep ==
  ASSUME IndInv, NEW a \in Addr, NEW seid \in Seid, NEW config \in Config,
         CreateStream(a, seid, config), UNCHANGED <<streams, connections, reused>>
  PROVE  IndInv'
<1>1. /\ endpoints' = Configured(seid, config) /\ nextHandle' = (nextHandle + 1) % HandleCount
      /\ UNCHANGED nextSeid
  BY DEF CreateStream
<1>2. Types'
  BY <1>1, EndpointsKept, Bounds DEF IndInv, Types, TypeOK
<1>3. Agreement'
  BY DEF IndInv, Agreement, StreamsHaveLists, ListsHaveStreams, Listed
<1> QED
  BY <1>2, <1>3 DEF IndInv

\* The list of a connection has room for a stream that the table has room for.
LEMMA ListHasRoom ==
  ASSUME Types, ListsHaveStreams, NEW a \in DOMAIN connections,
         Cardinality(DOMAIN streams) < MaxStreams
  PROVE  Len(connections[a].streams) < MaxListed
<1>1. connections[a].streams \in Seq(StreamHandle) /\ Once(connections[a].streams)
  BY Bounds DEF List, ListsHaveStreams
<1>2. Cardinality(Listed(a)) = Len(connections[a].streams) /\ Len(connections[a].streams) \in Nat
  BY <1>1, ListCounts DEF Listed
<1>3. Listed(a) \in SUBSET DOMAIN streams
  BY DEF ListsHaveStreams
<1>4. Cardinality(Listed(a)) <= Cardinality(DOMAIN streams)
  BY <1>3, Bounds, FS_Subset
<1>5. Cardinality(DOMAIN streams) \in Nat
  BY Bounds, FS_CardinalityType
<1> QED
  BY <1>2, <1>4, <1>5, A2dpAssumption

LEMMA CreateStep ==
  ASSUME IndInv, NEW a \in Addr, NEW seid \in Seid, NEW config \in Config,
         CreateStream(a, seid, config), Fits(streams, nextHandle, MaxStreams)
  PROVE  IndInv'
<1> DEFINE s == nextHandle
           new == [local_seid  |-> seid, remote_addr |-> a,
                   conn_handle |-> connections[a].conn_handle,
                   state       |-> "Configured", codec |-> config]
           longer == [connections EXCEPT ![a].streams = Append(@, s)]
<1>1. /\ a \in DOMAIN connections
      /\ endpoints' = Configured(seid, config) /\ nextHandle' = (nextHandle + 1) % HandleCount
      /\ UNCHANGED nextSeid
      /\ reused' = (reused \/ s \in DOMAIN streams)
      /\ streams' = With(streams, s, new)
      /\ connections' = IF Len(connections[a].streams) < MaxListed THEN longer ELSE connections
  BY DEF CreateStream
<1>2. /\ DOMAIN streams' = DOMAIN streams \cup {s}
      /\ streams'[s] = new
      /\ \A t \in DOMAIN streams \ {s} : streams'[t] = streams[t]
      /\ streams' = [t \in DOMAIN streams' |-> streams'[t]]
  BY <1>1 DEF With
<1>3. s \in StreamHandle /\ connections[a] \in List /\ connections[a].streams \in Seq(StreamHandle)
  BY <1>1, Bounds DEF IndInv, Types, TypeOK, List
<1>4. /\ DOMAIN longer = DOMAIN connections
      /\ longer[a].streams = Append(connections[a].streams, s)
      /\ longer[a].conn_handle = connections[a].conn_handle
      /\ longer[a] \in List
      /\ \A b \in DOMAIN connections \ {a} : longer[b] = connections[b]
      /\ longer = [b \in DOMAIN longer |-> longer[b]]
  <2>1. Append(connections[a].streams, s) \in Seq(StreamHandle)
    BY <1>3
  <2> QED
    BY <1>1, <1>3, <2>1 DEF List
<1> HIDE DEF new, longer
<1>5. Types'
  <2>1. DOMAIN streams' \subseteq StreamHandle /\ Cardinality(DOMAIN streams') <= MaxStreams
    <3>1. /\ IsFiniteSet(DOMAIN streams) /\ Cardinality(DOMAIN streams) <= MaxStreams
          /\ DOMAIN streams \subseteq StreamHandle /\ MaxStreams \in Nat
      BY Bounds, A2dpAssumption DEF IndInv, Types, TypeOK
    <3>2. Cardinality(DOMAIN streams \cup {s}) <= MaxStreams
      BY <3>1, TableGrows
    <3> QED
      BY <1>2, <1>3, <3>1, <3>2
  <2>2. streams' \in [DOMAIN streams' -> Stream]
    <3>1. new \in Stream
      BY <1>3 DEF new, List, Stream
    <3> QED
      BY <1>2, <3>1, Bounds DEF IndInv
  <2>3. /\ DOMAIN connections' = DOMAIN connections
        /\ connections' \in [DOMAIN connections' -> List]
    BY <1>1, <1>4, Bounds DEF IndInv, Types, TypeOK, List
  <2>4. \A b \in DOMAIN connections' : Len(connections'[b].streams) <= MaxListed
    <3>1. \A b \in DOMAIN connections : Len(connections[b].streams) <= MaxListed
      BY DEF IndInv, Types, TypeOK
    <3>2. Len(connections[a].streams) < MaxListed => Len(longer[a].streams) <= MaxListed
      BY <1>3, <1>4, A2dpAssumption
    <3> QED
      BY <1>1, <1>4, <3>1, <3>2
  <2>5. endpoints' \in Seq(Endpoint) /\ Len(endpoints') <= MaxEndpoints
    BY <1>1, EndpointsKept DEF IndInv, Types, TypeOK
  <2>6. nextHandle' \in StreamHandle /\ nextSeid' \in Seid /\ reused' \in BOOLEAN
    BY <1>1, Bounds DEF IndInv, Types, TypeOK
  <2>7. /\ DOMAIN connections' \subseteq Addr /\ IsFiniteSet(DOMAIN connections')
        /\ Cardinality(DOMAIN connections') <= MaxConnections
    BY <2>3 DEF IndInv, Types, TypeOK
  <2> QED
    BY <2>1, <2>2, <2>3, <2>4, <2>5, <2>6, <2>7 DEF Types, TypeOK, List
<1>6. ASSUME ~reused' PROVE (StreamsHaveLists /\ ListsHaveStreams)'
  <2>1. StreamsHaveLists /\ ListsHaveStreams /\ s \notin DOMAIN streams
    BY <1>1, <1>6 DEF IndInv, Agreement
  <2>2. connections' = longer
    <3>1. Cardinality(DOMAIN streams) < MaxStreams
      BY <2>1 DEF Fits
    <3> QED
      BY <1>1, <2>1, <3>1, ListHasRoom DEF IndInv
  <2>3. s \notin Listed(a)
    BY <1>1, <2>1 DEF ListsHaveStreams
  <2>4. /\ Listed(a)' = Listed(a) \cup {s} /\ Once(connections'[a].streams)
        /\ \A b \in DOMAIN connections \ {a} : Listed(b)' = Listed(b)
    <3>1. Once(connections[a].streams) /\ s \notin ToSet(connections[a].streams)
      BY <1>1, <2>1, <2>3 DEF Listed, ListsHaveStreams
    <3>2. /\ ToSet(Append(connections[a].streams, s)) = ToSet(connections[a].streams) \cup {s}
          /\ Once(Append(connections[a].streams, s))
      BY <1>3, <3>1, Extended
    <3> QED
      BY <1>1, <1>4, <2>2, <3>2 DEF Listed
  <2>5. StreamsHaveLists'
    <3>1. SUFFICES ASSUME NEW t \in DOMAIN streams'
                   PROVE  /\ streams'[t].remote_addr \in DOMAIN connections'
                          /\ t \in ToSet(connections'[streams'[t].remote_addr].streams)
                          /\ streams'[t].conn_handle = connections'[streams'[t].remote_addr].conn_handle
      BY DEF StreamsHaveLists, Listed
    <3>2. CASE t = s
      BY <3>2, <1>1, <1>2, <1>4, <2>2, <2>4 DEF new, Listed
    <3>3. CASE t # s
      <4> DEFINE r == streams[t].remote_addr
      <4>1. streams'[t] = streams[t] /\ t \in DOMAIN streams
        BY <3>1, <3>3, <1>2
      <4>2. r \in DOMAIN connections /\ t \in Listed(r) /\ streams[t].conn_handle = connections[r].conn_handle
        BY <4>1, <2>1 DEF StreamsHaveLists
      <4> HIDE DEF r
      <4>3. r \in DOMAIN connections' /\ connections'[r].conn_handle = connections[r].conn_handle
        BY <4>2, <1>4, <2>2
      <4>4. t \in ToSet(connections'[r].streams)
        BY <4>2, <2>4 DEF Listed
      <4> QED
        BY <4>1, <4>2, <4>3, <4>4 DEF r
    <3> QED
      BY <3>2, <3>3
  <2>6. ListsHaveStreams'
    <3>1. SUFFICES ASSUME NEW b \in DOMAIN connections
                   PROVE  /\ \A t \in Listed(b)' : t \in DOMAIN streams' /\ streams'[t].remote_addr = b
                          /\ Once(connections'[b].streams)
      BY <1>4, <2>2 DEF ListsHaveStreams, Listed
    <3>2. CASE b = a
      BY <3>2, <1>1, <1>2, <2>1, <2>4 DEF ListsHaveStreams, new
    <3>3. CASE b # a
      BY <3>1, <3>3, <1>2, <1>4, <2>1, <2>2, <2>4 DEF ListsHaveStreams
    <3> QED
      BY <3>2, <3>3
  <2> QED
    BY <2>5, <2>6
<1> QED
  BY <1>5, <1>6 DEF IndInv, Agreement

\* Starting and suspending.
LEMMA StateStep ==
  ASSUME IndInv, NEW s \in StreamHandle, StartStream(s) \/ SuspendStream(s)
  PROVE  IndInv'
<1>1. PICK st \in {"Streaming", "Suspended"} : streams' = [streams EXCEPT ![s].state = st]
  BY DEF StartStream, SuspendStream
<1>2. s \in DOMAIN streams /\ UNCHANGED <<endpoints, nextHandle, connections, nextSeid, reused>>
  BY DEF StartStream, SuspendStream
<1>3. /\ DOMAIN streams' = DOMAIN streams
      /\ streams' \in [DOMAIN streams -> Stream]
      /\ \A t \in DOMAIN streams : /\ streams'[t].remote_addr = streams[t].remote_addr
                                   /\ streams'[t].conn_handle = streams[t].conn_handle
  <2>1. streams \in [DOMAIN streams -> Stream]
    BY DEF IndInv, Types, TypeOK
  <2> QED
    BY <1>1, <1>2, <2>1 DEF Stream
<1>4. Types'
  BY <1>2, <1>3 DEF IndInv, Types, TypeOK
<1>5. Agreement'
  BY <1>2, <1>3 DEF IndInv, Agreement, StreamsHaveLists, ListsHaveStreams, Listed
<1> QED
  BY <1>4, <1>5 DEF IndInv

LEMMA CloseStep ==
  ASSUME IndInv, NEW s \in StreamHandle, CloseStream(s)
  PROVE  IndInv'
<1> DEFINE a == streams[s].remote_addr
           shorter == [connections EXCEPT ![a].streams = Unlisted(@, s)]
<1>1. /\ s \in DOMAIN streams
      /\ streams' = Without(streams, {s})
      /\ connections' = IF a \in DOMAIN connections THEN shorter ELSE connections
      /\ endpoints' = Reset(streams[s].local_seid)
      /\ UNCHANGED <<nextHandle, nextSeid, reused>>
  BY DEF CloseStream
<1>2. /\ DOMAIN streams' = DOMAIN streams \ {s}
      /\ \A t \in DOMAIN streams' : streams'[t] = streams[t]
      /\ streams' = [t \in DOMAIN streams' |-> streams'[t]]
  BY <1>1 DEF Without
<1> HIDE DEF a, shorter
<1>3. ASSUME a \in DOMAIN connections
      PROVE  /\ DOMAIN shorter = DOMAIN connections
             /\ shorter[a].streams = Unlisted(connections[a].streams, s)
             /\ shorter[a].conn_handle = connections[a].conn_handle
             /\ shorter[a] \in List
             /\ Len(shorter[a].streams) <= MaxListed
             /\ \A b \in DOMAIN connections \ {a} : shorter[b] = connections[b]
             /\ shorter = [b \in DOMAIN shorter |-> shorter[b]]
  <2>1. connections[a] \in List /\ connections[a].streams \in Seq(StreamHandle)
    BY <1>3, Bounds DEF IndInv, List
  <2>2. /\ Unlisted(connections[a].streams, s) \in Seq(StreamHandle)
        /\ Len(Unlisted(connections[a].streams, s)) <= Len(connections[a].streams)
    BY <2>1, UnlistedIs
  <2>3. Len(connections[a].streams) <= MaxListed /\ MaxListed \in Nat
    BY <1>3, A2dpAssumption DEF IndInv, Types, TypeOK
  <2>4. Len(Unlisted(connections[a].streams, s)) <= MaxListed
    BY <2>1, <2>2, <2>3
  <2> QED
    BY <1>3, <2>1, <2>2, <2>4 DEF List, shorter
<1>4. Types'
  <2>1. DOMAIN streams' \subseteq StreamHandle /\ Cardinality(DOMAIN streams') <= MaxStreams
    <3>1. /\ IsFiniteSet(DOMAIN streams) /\ Cardinality(DOMAIN streams) <= MaxStreams
          /\ DOMAIN streams \subseteq StreamHandle /\ MaxStreams \in Nat
      BY Bounds, A2dpAssumption DEF IndInv, Types, TypeOK
    <3>2. Cardinality(DOMAIN streams \ {s}) <= MaxStreams
      BY <3>1, TableShrinks
    <3> QED
      BY <1>2, <3>1, <3>2
  <2>2. streams' \in [DOMAIN streams' -> Stream]
    BY <1>2, Bounds DEF IndInv
  <2>3. /\ DOMAIN connections' = DOMAIN connections
        /\ connections' \in [DOMAIN connections' -> List]
        /\ \A b \in DOMAIN connections' : Len(connections'[b].streams) <= MaxListed
    <3>1. /\ connections \in [DOMAIN connections -> List]
          /\ \A b \in DOMAIN connections : Len(connections[b].streams) <= MaxListed
      BY DEF IndInv, Types, TypeOK, List
    <3>2. CASE a \notin DOMAIN connections
      BY <1>1, <3>1, <3>2
    <3>3. CASE a \in DOMAIN connections
      BY <1>1, <1>3, <3>1, <3>3
    <3> QED
      BY <3>2, <3>3
  <2>4. endpoints' \in Seq(Endpoint) /\ Len(endpoints') <= MaxEndpoints
    <3>1. streams[s].codec \in Config
      BY <1>1, Bounds DEF IndInv, Stream
    <3> QED
      BY <1>1, <3>1, EndpointsKept DEF IndInv, Types, TypeOK
  <2>5. nextHandle' \in StreamHandle /\ nextSeid' \in Seid /\ reused' \in BOOLEAN
    BY <1>1 DEF IndInv, Types, TypeOK
  <2>6. /\ DOMAIN connections' \subseteq Addr /\ IsFiniteSet(DOMAIN connections')
        /\ Cardinality(DOMAIN connections') <= MaxConnections
    BY <2>3 DEF IndInv, Types, TypeOK
  <2> QED
    BY <2>1, <2>2, <2>3, <2>4, <2>5, <2>6 DEF Types, TypeOK, List
<1>5. ASSUME ~reused PROVE (StreamsHaveLists /\ ListsHaveStreams)'
  <2>1. StreamsHaveLists /\ ListsHaveStreams
    BY <1>5 DEF IndInv, Agreement
  <2>2. a \in DOMAIN connections /\ connections' = shorter
    BY <1>1, <2>1 DEF StreamsHaveLists, a
  <2> DEFINE listed(b) == ToSet(connections'[b].streams)
  <2>3. /\ listed(a) = Listed(a) \ {s} /\ Once(connections'[a].streams)
        /\ \A b \in DOMAIN connections \ {a} : listed(b) = Listed(b)
    <3>1. connections[a].streams \in Seq(StreamHandle) /\ Once(connections[a].streams)
      BY <2>1, <2>2, Bounds DEF IndInv, List, ListsHaveStreams
    <3>2. /\ ToSet(Unlisted(connections[a].streams, s)) = ToSet(connections[a].streams) \ {s}
          /\ Once(Unlisted(connections[a].streams, s))
      BY <3>1, UnlistedIs
    <3> QED
      BY <1>3, <2>2, <3>2 DEF Listed
  <2>4. DOMAIN connections' = DOMAIN connections
    BY <1>3, <2>2
  <2>5. StreamsHaveLists'
    <3>1. SUFFICES ASSUME NEW t \in DOMAIN streams', NEW r, r = streams[t].remote_addr
                   PROVE  /\ r \in DOMAIN connections' /\ t \in listed(r)
                          /\ streams[t].conn_handle = connections'[r].conn_handle
      BY <1>2 DEF StreamsHaveLists, Listed
    <3>2. t \in DOMAIN streams /\ t # s
      BY <1>2, <3>1
    <3>3. r \in DOMAIN connections /\ t \in Listed(r) /\ streams[t].conn_handle = connections[r].conn_handle
      BY <2>1, <3>1, <3>2 DEF StreamsHaveLists
    <3>4. connections'[r].conn_handle = connections[r].conn_handle
      BY <1>3, <2>2, <3>3
    <3>5. t \in listed(r)
      BY <2>2, <2>3, <3>2, <3>3
    <3> QED
      BY <2>4, <3>3, <3>4, <3>5
  <2>6. ListsHaveStreams'
    <3>1. SUFFICES ASSUME NEW b \in DOMAIN connections
                   PROVE  /\ \A t \in listed(b) : t \in DOMAIN streams' /\ streams'[t].remote_addr = b
                          /\ Once(connections'[b].streams)
      BY <2>4 DEF ListsHaveStreams, Listed
    <3>2. \A t \in listed(b) : t \in Listed(b) /\ t # s
      <4>1. CASE b = a
        BY <4>1, <2>3
      <4>2. CASE b # a
        BY <4>2, <3>1, <2>1, <2>3 DEF ListsHaveStreams, a
      <4> QED
        BY <4>1, <4>2
    <3>3. Once(connections'[b].streams)
      <4>1. CASE b = a
        BY <4>1, <2>3
      <4>2. CASE b # a
        BY <4>2, <3>1, <1>3, <2>1, <2>2 DEF ListsHaveStreams
      <4> QED
        BY <4>1, <4>2
    <3> QED
      BY <1>2, <2>1, <3>1, <3>2, <3>3 DEF ListsHaveStreams
  <2> QED
    BY <2>5, <2>6
<1> QED
  BY <1>1, <1>4, <1>5 DEF IndInv, Agreement

-----------------------------------------------------------------------------
(* The theorems.                                                           *)

LEMMA Steps ==
  ASSUME IndInv, [Next]_vars
  PROVE  IndInv'
<1>1. CASE UNCHANGED vars
  BY <1>1 DEF IndInv, Types, TypeOK, Agreement, StreamsHaveLists, ListsHaveStreams, Listed, vars
<1>2. CASE AddSbcEndpoint
  BY <1>2, EndpointStep
<1>3. ASSUME NEW a \in Addr, NEW ch \in ConnHandle, CreateConnection(a, ch) PROVE IndInv'
  BY <1>3, ConnectStep
<1>4. ASSUME NEW a \in Addr, RemoveConnection(a) PROVE IndInv'
  BY <1>4, RemoveStep
<1>5. ASSUME NEW a \in Addr, NEW seid \in Seid, NEW config \in Config, CreateStream(a, seid, config)
      PROVE  IndInv'
  <2>1. CASE Fits(streams, nextHandle, MaxStreams)
    BY <1>5, <2>1, CreateStep
  <2>2. CASE ~Fits(streams, nextHandle, MaxStreams)
    <3>1. UNCHANGED <<streams, connections, reused>>
      BY <1>5, <2>2 DEF CreateStream
    <3> QED
      BY <1>5, <3>1, RefusedStep
  <2> QED
    BY <2>1, <2>2
<1>6. ASSUME NEW s \in StreamHandle, StartStream(s) \/ SuspendStream(s) PROVE IndInv'
  BY <1>6, StateStep
<1>7. ASSUME NEW s \in StreamHandle, CloseStream(s) PROVE IndInv'
  BY <1>7, CloseStep
<1> QED
  BY <1>1, <1>2, <1>3, <1>4, <1>5, <1>6, <1>7 DEF Next

LEMMA Invariance == Spec => []IndInv
<1>1. Init => IndInv
  <2> SUFFICES ASSUME Init PROVE IndInv
    OBVIOUS
  <2>1. DOMAIN streams = {} /\ DOMAIN connections = {}
    BY DEF Init
  <2>2. IsFiniteSet({}) /\ Cardinality({}) = 0
    BY FS_EmptySet
  <2>3. 1 \in StreamHandle /\ 1 \in Seid
    BY A2dpAssumption DEF StreamHandle, Seid
  <2>4. Types
    <3>1. /\ streams \in [DOMAIN streams -> Stream]
          /\ connections \in [DOMAIN connections -> List]
      BY DEF Init
    <3>2. endpoints \in Seq(Endpoint) /\ Len(endpoints) <= MaxEndpoints
      BY A2dpAssumption DEF Init
    <3>3. Cardinality(DOMAIN streams) <= MaxStreams /\ Cardinality(DOMAIN connections) <= MaxConnections
      BY <2>1, <2>2, A2dpAssumption
    <3> QED
      BY <2>1, <2>2, <2>3, <3>1, <3>2, <3>3 DEF Init, Types, TypeOK, List
  <2>5. Agreement
    BY <2>1 DEF Agreement, StreamsHaveLists, ListsHaveStreams
  <2> QED
    BY <2>4, <2>5 DEF IndInv
<1> QED
  BY <1>1, Steps, PTL DEF Spec

\* The tables of the A2DP profile and of AVDTP keep their types and capacities, whatever
\* calls are made and however they fail (profile.rs, avdtp.rs).
THEOREM TypeCorrect == Spec => []TypeOK
<1>1. IndInv => TypeOK
  BY DEF IndInv, Types
<1> QED
  BY <1>1, Invariance, PTL

\* The stream table and the lists of the connections say the same, as long as no handle
\* was given out while it was in use: create_stream, close_stream and remove_connection
\* leave neither a stream that no connection lists nor an entry without a stream.
THEOREM TablesAgree == Spec => []StreamsListed
<1>1. IndInv => StreamsListed
  <2> SUFFICES ASSUME IndInv, ~reused PROVE StreamsListed
    BY DEF StreamsListed
  <2>1. StreamsHaveLists /\ ListsHaveStreams
    BY DEF IndInv, Agreement
  <2>2. ASSUME NEW a \in DOMAIN connections
        PROVE  Cardinality(Listed(a)) = Len(connections[a].streams)
    BY <2>1, <2>2, Bounds, ListCounts DEF IndInv, List, ListsHaveStreams, Listed
  <2> QED
    BY <2>1, <2>2 DEF StreamsListed, StreamsHaveLists, ListsHaveStreams
<1> QED
  BY <1>1, Invariance, PTL

\* What a call does for one device leaves the streams of the others as they are: what
\* remove_connection takes away are its own streams, since a list has no others, and a
\* stream once made only changes its state.
THEOREM StreamsOfOthersStay == Spec => OneDeviceTouched
<1>1. ASSUME IndInv, [Next]_vars, ~reused' PROVE TouchesOneDevice
  <2> DEFINE Touched == {s \in DOMAIN streams : s \notin DOMAIN streams' \/ streams'[s] # streams[s]}
  <2> SUFFICES /\ \A s, t \in Touched : streams[s].remote_addr = streams[t].remote_addr
               /\ \A s \in Touched \cap DOMAIN streams' :
                    streams'[s] = [streams[s] EXCEPT !.state = streams'[s].state]
    BY DEF TouchesOneDevice
  <2>1. CASE UNCHANGED streams
    BY <2>1
  <2>2. ASSUME NEW a \in Addr, RemoveConnection(a)
        PROVE  Touched \cap DOMAIN streams' = {} /\ \A s \in Touched : streams[s].remote_addr = a
    <3>1. /\ a \in DOMAIN connections /\ ~reused /\ DOMAIN streams' = DOMAIN streams \ Listed(a)
          /\ \A s \in DOMAIN streams' : streams'[s] = streams[s]
      BY <1>1, <2>2 DEF RemoveConnection, Without
    <3>2. \A s \in Listed(a) : streams[s].remote_addr = a
      BY <1>1, <3>1 DEF IndInv, Agreement, ListsHaveStreams
    <3> QED
      BY <3>1, <3>2
  <2>3. ASSUME NEW a \in Addr, NEW seid \in Seid, NEW config \in Config, CreateStream(a, seid, config)
        PROVE  Touched = {}
    <3>1. CASE UNCHANGED streams
      BY <3>1
    <3>2. CASE ~UNCHANGED streams
      <4>1. nextHandle \notin DOMAIN streams
        BY <1>1, <2>3, <3>2 DEF CreateStream
      <4>2. \A s \in DOMAIN streams : s \in DOMAIN streams' /\ streams'[s] = streams[s]
        BY <2>3, <3>2, <4>1 DEF CreateStream, With
      <4> QED
        BY <4>2
    <3> QED
      BY <3>1, <3>2
  <2>4. ASSUME NEW s \in StreamHandle, StartStream(s) \/ SuspendStream(s)
        PROVE  Touched \subseteq {s} /\ streams'[s] = [streams[s] EXCEPT !.state = streams'[s].state]
    <3>1. PICK st \in {"Streaming", "Suspended"} : streams' = [streams EXCEPT ![s].state = st]
      BY <2>4 DEF StartStream, SuspendStream
    <3>2. s \in DOMAIN streams /\ streams[s] \in Stream
      BY <1>1, <2>4, Bounds DEF StartStream, SuspendStream, IndInv
    <3>3. streams'[s] = [streams[s] EXCEPT !.state = st] /\ streams'[s].state = st
      BY <3>1, <3>2 DEF Stream
    <3>4. \A t \in DOMAIN streams \ {s} : t \in DOMAIN streams' /\ streams'[t] = streams[t]
      BY <3>1
    <3> QED
      BY <3>3, <3>4
  <2>5. ASSUME NEW s \in StreamHandle, CloseStream(s)
        PROVE  Touched \subseteq {s} /\ s \notin DOMAIN streams'
    BY <2>5 DEF CloseStream, Without
  <2>6. CASE AddSbcEndpoint
    BY <2>1, <2>6 DEF AddSbcEndpoint
  <2>7. ASSUME NEW a \in Addr, NEW ch \in ConnHandle, CreateConnection(a, ch) PROVE UNCHANGED streams
    BY <2>7 DEF CreateConnection
  <2>8. CASE UNCHANGED vars
    BY <2>1, <2>8 DEF vars
  <2> HIDE DEF Touched
  <2> QED
    BY <1>1, <2>1, <2>2, <2>3, <2>4, <2>5, <2>6, <2>7, <2>8 DEF Next
<1>2. IndInv /\ [Next]_vars => TouchesOneDevice
  BY <1>1 DEF TouchesOneDevice
<1> QED
  BY <1>2, Invariance, PTL DEF Spec, OneDeviceTouched
=============================================================================
