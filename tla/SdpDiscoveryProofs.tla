-------------------------- MODULE SdpDiscoveryProofs --------------------------
(***************************************************************************)
(* Proofs about SdpDiscovery: an answer finishes the request it is for,    *)
(* and the table holds as pending only what is still to be answered, for   *)
(* any devices, records, patterns and sizes of the tables.                 *)
(*                                                                         *)
(* Both rest on what is on the channels.  Until a transaction id comes     *)
(* back while it is in use, an id is under way at most once, on the        *)
(* channel to the device that was asked, and the request of that id, if    *)
(* the table has it, is still pending.                                     *)
(*                                                                         *)
(* Then the types, that cached handles name what was searched for, which   *)
(* rests on handles being given out in order, and that combined answers    *)
(* fit, which rests on what the recursive functions of the server compute. *)
(***************************************************************************)
EXTENDS SdpDiscovery, DataLemmas

Kind == {"ServiceSearch", "ServiceAttribute"}

Entry == [addr : Device, kind : Kind, state : {"Pending", "Completed", "Failed"}, lost : BOOLEAN]

IsSequence(q) == \E S : q \in Seq(S)

\* What the steps need of the types.
Shapes ==
  /\ DOMAIN toServer = Device /\ \A d \in Device : IsSequence(toServer[d])
  /\ DOMAIN toClient = Device /\ \A d \in Device : IsSequence(toClient[d])
  /\ \A d \in Device : \A i \in DOMAIN toServer[d] : toServer[d][i].kind \in Kind
  /\ \A t \in DOMAIN requests : requests[t] \in Entry
  /\ idReused \in BOOLEAN

\* An id is on the channels of one device only, and there only once.
OnceUnderWay ==
  /\ \A d, e \in Device : d # e => UnderWay(d) \cap UnderWay(e) = {}
  /\ \A d \in Device : \A i, j \in DOMAIN toServer[d] : toServer[d][i].id = toServer[d][j].id => i = j
  /\ \A d \in Device : \A i, j \in DOMAIN toClient[d] : toClient[d][i].id = toClient[d][j].id => i = j
  /\ \A d \in Device : \A i \in DOMAIN toServer[d], j \in DOMAIN toClient[d] :
       toServer[d][i].id # toClient[d][j].id

\* r is a pending request to d, and m of its kind.
Own(r, m, d) == r.addr = d /\ r.state = "Pending" /\ m.kind \in {r.kind, "Error"}

\* A message belongs to the request of its id, if the table has it.
MessagesBelong ==
  \A d \in Device, t \in DOMAIN requests :
    /\ \A i \in DOMAIN toServer[d] : toServer[d][i].id = t => Own(requests[t], toServer[d][i], d)
    /\ \A i \in DOMAIN toClient[d] : toClient[d][i].id = t => Own(requests[t], toClient[d][i], d)

\* PendingIsAwaited, with the device named.
Awaited ==
  \A d \in Device, t \in DOMAIN requests :
    requests[t].addr = d /\ requests[t].state = "Pending" /\ ~requests[t].lost => t \in UnderWay(d)

IndInv ==
  /\ Shapes
  /\ ~idReused => Awaited /\ OnceUnderWay /\ MessagesBelong

-----------------------------------------------------------------------------
(* Sequences and channels.                                                 *)

\* What Append does to a sequence.
LEMMA Appended ==
  ASSUME NEW q, IsSequence(q), NEW x
  PROVE  /\ Len(q) \in Nat /\ DOMAIN q = 1 .. Len(q)
         /\ IsSequence(Append(q, x)) /\ DOMAIN Append(q, x) = 1 .. Len(q) + 1
         /\ \A i \in 1 .. Len(q) : Append(q, x)[i] = q[i]
         /\ Append(q, x)[Len(q) + 1] = x
<1>1. PICK S : q \in Seq(S)
  BY DEF IsSequence
<1>2. q \in Seq(S \cup {x})
  BY <1>1
<1>3. Append(q, x) \in Seq(S \cup {x})
  BY <1>2
<1> QED
  BY <1>2, <1>3 DEF IsSequence

\* What Head and Tail do to one that is not empty.
LEMMA Taken ==
  ASSUME NEW q, IsSequence(q), q # <<>>
  PROVE  /\ Len(q) \in Nat \ {0} /\ DOMAIN q = 1 .. Len(q)
         /\ Head(q) = q[1] /\ 1 \in DOMAIN q
         /\ IsSequence(Tail(q)) /\ DOMAIN Tail(q) = 1 .. Len(q) - 1
         /\ \A i \in 1 .. Len(q) - 1 : Tail(q)[i] = q[i + 1]
<1>1. PICK S : q \in Seq(S)
  BY DEF IsSequence
<1>2. Tail(q) \in Seq(S)
  BY <1>1
<1> QED
  BY <1>1, <1>2 DEF IsSequence

\* An id is under way on either channel.
LEMMA UnderWayIs ==
  ASSUME NEW d, NEW t
  PROVE  t \in UnderWay(d) <=> \/ \E i \in DOMAIN toServer[d] : toServer[d][i].id = t
                               \/ \E i \in DOMAIN toClient[d] : toClient[d][i].id = t
BY DEF UnderWay, Range

-----------------------------------------------------------------------------
(* Steps that leave the requests and the channels alone, or take requests  *)
(* off the table.                                                          *)

\* The applications of the devices and the cache do not reach what is under way.
LEMMA QuietStep ==
  ASSUME IndInv, UNCHANGED <<requests, toServer, toClient, idReused>>
  PROVE  IndInv'
BY DEF IndInv, Shapes, Awaited, OnceUnderWay, MessagesBelong, UnderWay

\* Requests only go from the table.
Removed ==
  /\ DOMAIN requests' \subseteq DOMAIN requests
  /\ \A t \in DOMAIN requests' : requests'[t] = requests[t]
  /\ UNCHANGED <<toServer, toClient, idReused>>

LEMMA RemovedStep ==
  ASSUME IndInv, Removed
  PROVE  IndInv'
<1>1. \A d : UnderWay(d)' = UnderWay(d)
  BY DEF Removed, UnderWay
<1>2. Shapes'
  BY DEF IndInv, Shapes, Removed
<1>3. Awaited => Awaited'
  BY <1>1 DEF Awaited, Removed
<1>4. OnceUnderWay => OnceUnderWay'
  BY <1>1 DEF OnceUnderWay, Removed
<1>5. MessagesBelong => MessagesBelong'
  BY DEF MessagesBelong, Removed
<1> QED
  BY <1>2, <1>3, <1>4, <1>5 DEF IndInv, Removed

-----------------------------------------------------------------------------
(* A call.                                                                 *)

\* A request is entered and sent, or neither; its id is new unless idReused says so.
LEMMA RequestCases ==
  ASSUME Shapes, NEW d \in Device, NEW m, m.id = nextId, m.kind \in Kind, NEW fits \in BOOLEAN,
         Request(d, m, fits)
  PROVE  /\ toClient' = toClient
         /\ \/ requests' = requests /\ toServer' = toServer /\ idReused' = idReused
            \/ /\ DOMAIN requests' = DOMAIN requests \cup {m.id}
               /\ requests'[m.id] = PendingRequest(d, m.kind)
               /\ \A t \in DOMAIN requests \ {m.id} : requests'[t] = requests[t]
               /\ toServer' = [toServer EXCEPT ![d] = Append(toServer[d], m)]
               /\ idReused' \in BOOLEAN
               /\ ~idReused' => ~idReused /\ m.id \notin InUse
<1> DEFINE entry == PendingRequest(d, m.kind)
           accepted == fits /\ nextId \in DOMAIN Entered(d, m.kind, fits)
           entered == Put(requests, nextId, entry)
<1>1. /\ requests' = Entered(d, m.kind, fits)
      /\ toServer' = IF accepted THEN [toServer EXCEPT ![d] = Append(@, m)] ELSE toServer
      /\ idReused' = (idReused \/ (accepted /\ nextId \in InUse))
      /\ toClient' = toClient
  BY DEF Request
<1>2. /\ DOMAIN entered = DOMAIN requests \cup {m.id}
      /\ entered[m.id] = entry
      /\ \A t \in DOMAIN requests \ {m.id} : entered[t] = requests[t]
  BY DEF Put
<1>3. CASE accepted
  <2>1. requests' = entered
    <3>1. Entered(d, m.kind, fits) = Insert(requests, nextId, entry, MaxPending)
      BY <1>3 DEF Entered
    <3>2. nextId \in DOMAIN Insert(requests, nextId, entry, MaxPending)
      BY <1>3, <3>1
    <3> QED
      BY <1>1, <3>1, <3>2 DEF Insert
  <2>2. toServer' = [toServer EXCEPT ![d] = Append(toServer[d], m)]
    BY <1>1, <1>3
  <2>3. idReused' \in BOOLEAN /\ (~idReused' => ~idReused /\ m.id \notin InUse)
    BY <1>1, <1>3 DEF Shapes
  <2> QED
    BY <1>1, <1>2, <2>1, <2>2, <2>3
<1>4. CASE ~accepted
  <2>1. Entered(d, m.kind, fits) = requests
    <3>1. CASE ~fits
      BY <3>1 DEF Entered
    <3>2. CASE fits
      <4>1. Entered(d, m.kind, fits) = Insert(requests, nextId, entry, MaxPending)
        BY <3>2 DEF Entered
      <4>2. nextId \notin DOMAIN Insert(requests, nextId, entry, MaxPending)
        BY <1>4, <3>2, <4>1
      <4>3. nextId \in DOMAIN entered
        BY <1>2
      <4> QED
        BY <4>1, <4>2, <4>3 DEF Insert
    <3> QED
      BY <3>1, <3>2
  <2>2. idReused' = idReused
    BY <1>1, <1>4 DEF Shapes
  <2> QED
    BY <1>1, <1>4, <2>1, <2>2
<1> QED
  BY <1>3, <1>4

LEMMA RequestStep ==
  ASSUME IndInv, NEW d \in Device, NEW m, m.id = nextId, m.kind \in Kind, NEW fits \in BOOLEAN,
         Request(d, m, fits)
  PROVE  IndInv'
<1> DEFINE sent == /\ DOMAIN requests' = DOMAIN requests \cup {m.id}
                   /\ requests'[m.id] = PendingRequest(d, m.kind)
                   /\ \A t \in DOMAIN requests \ {m.id} : requests'[t] = requests[t]
                   /\ toServer' = [toServer EXCEPT ![d] = Append(toServer[d], m)]
                   /\ toClient' = toClient
                   /\ idReused' \in BOOLEAN
                   /\ ~idReused' => ~idReused /\ m.id \notin InUse
<1>1. CASE requests' = requests /\ toServer' = toServer /\ idReused' = idReused
           /\ toClient' = toClient
  BY <1>1, QuietStep
<1>2. CASE sent
  <2> HIDE DEF sent
  <2>s. Shapes
    BY DEF IndInv
  <2>1. /\ DOMAIN toServer' = Device
        /\ IsSequence(toServer[d]) /\ toServer'[d] = Append(toServer[d], m)
        /\ \A e \in Device \ {d} : toServer'[e] = toServer[e]
    BY <1>2, <2>s DEF Shapes, sent
  <2> DEFINE n == Len(toServer[d])
  <2>2. /\ n \in Nat /\ DOMAIN toServer[d] = 1 .. n
        /\ IsSequence(toServer'[d]) /\ DOMAIN toServer'[d] = 1 .. n + 1
        /\ \A i \in 1 .. n : toServer'[d][i] = toServer[d][i]
        /\ toServer'[d][n + 1] = m
    BY <2>1, Appended
  <2> HIDE DEF n
  <2>3. /\ \A e \in Device \ {d} : UnderWay(e)' = UnderWay(e)
        /\ UnderWay(d)' = UnderWay(d) \cup {m.id}
    <3>1. ASSUME NEW e \in Device \ {d} PROVE UnderWay(e)' = UnderWay(e)
      BY <1>2, <2>1 DEF sent, UnderWay
    <3>2. \A t : t \in UnderWay(d)' <=> \/ \E i \in DOMAIN toServer'[d] : toServer'[d][i].id = t
                                        \/ \E i \in DOMAIN toClient[d] : toClient[d][i].id = t
      BY <1>2 DEF sent, UnderWay, Range
    <3>3. \A t : (\E i \in DOMAIN toServer'[d] : toServer'[d][i].id = t) <=>
                   t = m.id \/ \E i \in DOMAIN toServer[d] : toServer[d][i].id = t
      BY <2>2
    <3>4. \A t : t \in UnderWay(d)' <=> t \in UnderWay(d) \cup {m.id}
      BY <3>2, <3>3, UnderWayIs
    <3> QED
      BY <3>1, <3>4
  <2>4. Shapes'
    <3>1. \A e \in Device : IsSequence(toServer'[e])
      BY <2>s, <2>1, <2>2 DEF Shapes
    <3>2. \A e \in Device : \A i \in DOMAIN toServer'[e] : toServer'[e][i].kind \in Kind
      BY <2>s, <2>1, <2>2 DEF Shapes
    <3>3. requests'[m.id] \in Entry
      BY <1>2 DEF sent, PendingRequest, Entry
    <3>4. \A t \in DOMAIN requests' : requests'[t] \in Entry
      BY <1>2, <2>s, <3>3 DEF Shapes, sent
    <3> QED
      BY <1>2, <2>s, <2>1, <3>1, <3>2, <3>4 DEF Shapes, sent
  <2>5. ASSUME ~idReused' PROVE Awaited' /\ OnceUnderWay' /\ MessagesBelong'
    <3>1. Awaited /\ OnceUnderWay /\ MessagesBelong /\ m.id \notin InUse
      BY <1>2, <2>5 DEF sent, IndInv
    <3>2. m.id \notin DOMAIN requests /\ \A e \in Device : m.id \notin UnderWay(e)
      BY <3>1 DEF InUse
    <3>3. \A e \in Device : /\ \A i \in DOMAIN toServer[e] : toServer[e][i].id # m.id
                            /\ \A i \in DOMAIN toClient[e] : toClient[e][i].id # m.id
      BY <3>2, UnderWayIs
    <3>4. Awaited'
      <4> SUFFICES ASSUME NEW e \in Device, NEW t \in DOMAIN requests', requests'[t].addr = e,
                          requests'[t].state = "Pending", ~requests'[t].lost
                   PROVE  t \in UnderWay(e)'
        BY DEF Awaited
      <4>1. CASE t = m.id
        <5>1. e = d
          BY <1>2, <4>1 DEF sent, PendingRequest
        <5> QED
          BY <2>3, <4>1, <5>1
      <4>2. CASE t # m.id
        <5>1. t \in UnderWay(e)
          BY <1>2, <3>1, <4>2 DEF sent, Awaited
        <5> QED
          BY <2>3, <5>1
      <4> QED
        BY <4>1, <4>2
    <3>5. OnceUnderWay'
      <4>1. \A e, f \in Device : e # f => UnderWay(e)' \cap UnderWay(f)' = {}
        BY <2>3, <3>1, <3>2 DEF OnceUnderWay
      <4>2. \A e \in Device : \A i, j \in DOMAIN toServer'[e] :
              toServer'[e][i].id = toServer'[e][j].id => i = j
        <5>1. \A i, j \in DOMAIN toServer'[d] : toServer'[d][i].id = toServer'[d][j].id => i = j
          BY <2>2, <3>1, <3>3 DEF OnceUnderWay
        <5>2. \A e \in Device \ {d} : \A i, j \in DOMAIN toServer[e] :
                toServer[e][i].id = toServer[e][j].id => i = j
          BY <3>1 DEF OnceUnderWay
        <5> QED
          BY <2>1, <5>1, <5>2
      <4>3. \A e \in Device : \A i \in DOMAIN toServer'[e], j \in DOMAIN toClient[e] :
              toServer'[e][i].id # toClient[e][j].id
        <5>1. \A i \in DOMAIN toServer'[d], j \in DOMAIN toClient[d] :
                toServer'[d][i].id # toClient[d][j].id
          BY <2>2, <3>1, <3>3 DEF OnceUnderWay
        <5>2. \A e \in Device \ {d} : \A i \in DOMAIN toServer[e], j \in DOMAIN toClient[e] :
                toServer[e][i].id # toClient[e][j].id
          BY <3>1 DEF OnceUnderWay
        <5> QED
          BY <2>1, <5>1, <5>2
      <4> QED
        BY <1>2, <3>1, <4>1, <4>2, <4>3 DEF OnceUnderWay, sent
    <3>6. MessagesBelong'
      <4> SUFFICES ASSUME NEW e \in Device, NEW t \in DOMAIN requests'
                   PROVE  /\ \A i \in DOMAIN toServer'[e] : toServer'[e][i].id = t =>
                               Own(requests'[t], toServer'[e][i], e)
                          /\ \A i \in DOMAIN toClient[e] : toClient[e][i].id = t =>
                               Own(requests'[t], toClient[e][i], e)
        BY <1>2 DEF MessagesBelong, sent
      <4>1. CASE t = m.id
        <5>1. Own(requests'[t], m, d)
          BY <1>2, <4>1 DEF Own, sent, PendingRequest
        <5> QED
          BY <2>1, <2>2, <3>3, <4>1, <5>1
      <4>2. CASE t # m.id
        <5>1. t \in DOMAIN requests /\ requests'[t] = requests[t]
          BY <1>2, <4>2 DEF sent
        <5>2. /\ \A i \in DOMAIN toServer[e] : toServer[e][i].id = t => Own(requests[t], toServer[e][i], e)
              /\ \A i \in DOMAIN toClient[e] : toClient[e][i].id = t => Own(requests[t], toClient[e][i], e)
          BY <3>1, <5>1 DEF MessagesBelong
        <5> QED
          BY <2>1, <2>2, <4>2, <5>1, <5>2
      <4> QED
        BY <4>1, <4>2
    <3> QED
      BY <3>4, <3>5, <3>6
  <2> QED
    BY <2>4, <2>5 DEF IndInv
<1>3. Shapes
  BY DEF IndInv
<1>4. /\ toClient' = toClient
      /\ \/ requests' = requests /\ toServer' = toServer /\ idReused' = idReused
         \/ /\ DOMAIN requests' = DOMAIN requests \cup {m.id}
            /\ requests'[m.id] = PendingRequest(d, m.kind)
            /\ \A t \in DOMAIN requests \ {m.id} : requests'[t] = requests[t]
            /\ toServer' = [toServer EXCEPT ![d] = Append(toServer[d], m)]
            /\ idReused' \in BOOLEAN
            /\ ~idReused' => ~idReused /\ m.id \notin InUse
  BY <1>3, RequestCases
<1> QED
  BY <1>1, <1>2, <1>4

-----------------------------------------------------------------------------
(* A server answers.                                                       *)

\* The answer has the id of its request, and its kind unless it is an error.
LEMMA ResponseIs ==
  ASSUME NEW s, NEW m, m.kind \in Kind
  PROVE  Response(s, m).id = m.id /\ Response(s, m).kind \in {m.kind, "Error"}
<1>1. CASE m.kind = "ServiceSearch"
  BY <1>1 DEF Response
<1>2. CASE m.kind = "ServiceAttribute"
  BY <1>2 DEF Response, ErrorResponse
<1> QED
  BY <1>1, <1>2 DEF Kind

LEMMA ServeStep ==
  ASSUME IndInv, NEW d \in Device, Serve(d)
  PROVE  IndInv'
<1> DEFINE q == toServer[d]
           p == toClient[d]
           x == q[1]
           y == Response(servers[d], x)
<1>s. Shapes
  BY DEF IndInv
<1>1. /\ IsSequence(q) /\ q # <<>> /\ IsSequence(p)
      /\ DOMAIN toServer' = Device /\ DOMAIN toClient' = Device
      /\ toServer'[d] = Tail(q) /\ toClient'[d] = Append(p, Response(servers[d], Head(q)))
      /\ \A e \in Device \ {d} : toServer'[e] = toServer[e] /\ toClient'[e] = toClient[e]
      /\ requests' = requests /\ idReused' = idReused
  BY <1>s DEF Shapes, Serve
<1>2. /\ Len(q) \in Nat \ {0} /\ DOMAIN q = 1 .. Len(q)
      /\ Head(q) = x /\ 1 \in DOMAIN q
      /\ IsSequence(toServer'[d]) /\ DOMAIN toServer'[d] = 1 .. Len(q) - 1
      /\ \A i \in 1 .. Len(q) - 1 : toServer'[d][i] = q[i + 1]
  BY <1>1, Taken
<1>3. /\ Len(p) \in Nat /\ DOMAIN p = 1 .. Len(p)
      /\ IsSequence(toClient'[d]) /\ DOMAIN toClient'[d] = 1 .. Len(p) + 1
      /\ \A i \in 1 .. Len(p) : toClient'[d][i] = p[i]
      /\ toClient'[d][Len(p) + 1] = y
  BY <1>1, <1>2, Appended
<1>4. x.kind \in Kind /\ y.id = x.id /\ y.kind \in {x.kind, "Error"}
  <2>1. x.kind \in Kind
    BY <1>s, <1>2 DEF Shapes
  <2> QED
    BY <2>1, ResponseIs
<1> HIDE DEF q, p, x, y
<1>5. \A e \in Device : UnderWay(e)' = UnderWay(e)
  <2>1. UnderWay(d)' = UnderWay(d)
    <3>1. \A t : t \in UnderWay(d)' <=> \/ \E i \in DOMAIN toServer'[d] : toServer'[d][i].id = t
                                        \/ \E i \in DOMAIN toClient'[d] : toClient'[d][i].id = t
      BY DEF UnderWay, Range
    <3>2. ASSUME NEW t
          PROVE  (\E i \in DOMAIN toClient'[d] : toClient'[d][i].id = t) <=>
                   t = x.id \/ \E i \in DOMAIN p : p[i].id = t
      BY <1>3, <1>4
    <3>3. ASSUME NEW t
          PROVE  (\E i \in DOMAIN q : q[i].id = t) <=>
                   t = x.id \/ \E i \in DOMAIN toServer'[d] : toServer'[d][i].id = t
      <4>1. ASSUME NEW i \in DOMAIN q, q[i].id = t, t # x.id
            PROVE  \E k \in DOMAIN toServer'[d] : toServer'[d][k].id = t
        <5>1. i # 1
          BY <4>1 DEF x
        <5>2. i - 1 \in 1 .. Len(q) - 1 /\ toServer'[d][i - 1] = q[i]
          BY <1>2, <4>1, <5>1
        <5> QED
          BY <1>2, <4>1, <5>2
      <4>2. ASSUME NEW i \in DOMAIN toServer'[d], toServer'[d][i].id = t
            PROVE  \E k \in DOMAIN q : q[k].id = t
        <5>1. i + 1 \in 1 .. Len(q) /\ toServer'[d][i] = q[i + 1]
          BY <1>2
        <5> QED
          BY <1>2, <4>2, <5>1
      <4> QED
        BY <1>2, <4>1, <4>2 DEF x
    <3> QED
      BY <3>1, <3>2, <3>3, UnderWayIs DEF q, p
  <2>2. \A e \in Device \ {d} : UnderWay(e)' = UnderWay(e)
    BY <1>1 DEF UnderWay
  <2> QED
    BY <2>1, <2>2
<1>6. Shapes'
  <2>1. \A e \in Device : IsSequence(toServer'[e]) /\ IsSequence(toClient'[e])
    BY <1>s, <1>1, <1>2, <1>3 DEF Shapes
  <2>2. \A i \in DOMAIN toServer'[d] : toServer'[d][i].kind \in Kind
    BY <1>s, <1>2 DEF Shapes, q
  <2>3. \A e \in Device : \A i \in DOMAIN toServer'[e] : toServer'[e][i].kind \in Kind
    BY <1>s, <1>1, <2>2 DEF Shapes
  <2> QED
    BY <1>s, <1>1, <2>1, <2>3 DEF Shapes
<1>7. ASSUME ~idReused' PROVE Awaited' /\ OnceUnderWay' /\ MessagesBelong'
  <2>1. Awaited /\ OnceUnderWay /\ MessagesBelong
    BY <1>1, <1>7 DEF IndInv
  <2>2. Awaited'
    BY <1>1, <1>5, <2>1 DEF Awaited
  <2>3. OnceUnderWay'
    <3>1. \A e, f \in Device : e # f => UnderWay(e)' \cap UnderWay(f)' = {}
      BY <1>5, <2>1 DEF OnceUnderWay
    <3>2. \A i, j \in DOMAIN q : q[i].id = q[j].id => i = j
      BY <2>1 DEF OnceUnderWay, q
    <3>3. \A i, j \in DOMAIN toServer'[d] : toServer'[d][i].id = toServer'[d][j].id => i = j
      <4> TAKE i, j \in DOMAIN toServer'[d]
      <4>1. i + 1 \in DOMAIN q /\ j + 1 \in DOMAIN q /\ i \in Int /\ j \in Int
        BY <1>2
      <4> QED
        BY <1>2, <3>2, <4>1
    <3>4. \A i \in DOMAIN p : p[i].id # x.id
      BY <1>2, <2>1 DEF OnceUnderWay, q, p, x
    <3>5. \A i, j \in DOMAIN p : p[i].id = p[j].id => i = j
      BY <2>1 DEF OnceUnderWay, p
    <3>6. \A i, j \in DOMAIN toClient'[d] : toClient'[d][i].id = toClient'[d][j].id => i = j
      BY <1>3, <1>4, <3>4, <3>5
    <3>7. \A i \in DOMAIN toServer'[d], j \in DOMAIN toClient'[d] :
            toServer'[d][i].id # toClient'[d][j].id
      <4> TAKE i \in DOMAIN toServer'[d], j \in DOMAIN toClient'[d]
      <4>1. i + 1 \in DOMAIN q /\ i + 1 # 1 /\ toServer'[d][i] = q[i + 1]
        BY <1>2
      <4>2. q[i + 1].id # x.id
        BY <1>2, <3>2, <4>1 DEF x
      <4>3. j \in DOMAIN p => q[i + 1].id # p[j].id
        BY <2>1, <4>1 DEF OnceUnderWay, q, p
      <4> QED
        BY <1>3, <1>4, <4>1, <4>2, <4>3
    <3>8. \A e \in Device \ {d} :
            /\ \A i, j \in DOMAIN toServer[e] : toServer[e][i].id = toServer[e][j].id => i = j
            /\ \A i, j \in DOMAIN toClient[e] : toClient[e][i].id = toClient[e][j].id => i = j
            /\ \A i \in DOMAIN toServer[e], j \in DOMAIN toClient[e] :
                 toServer[e][i].id # toClient[e][j].id
      BY <2>1 DEF OnceUnderWay
    <3>9. \A e \in Device :
            /\ \A i, j \in DOMAIN toServer'[e] : toServer'[e][i].id = toServer'[e][j].id => i = j
            /\ \A i, j \in DOMAIN toClient'[e] : toClient'[e][i].id = toClient'[e][j].id => i = j
            /\ \A i \in DOMAIN toServer'[e], j \in DOMAIN toClient'[e] :
                 toServer'[e][i].id # toClient'[e][j].id
      <4> TAKE e \in Device
      <4>1. CASE e = d
        BY <3>3, <3>6, <3>7, <4>1
      <4>2. CASE e # d
        BY <1>1, <3>8, <4>2
      <4> QED
        BY <4>1, <4>2
    <3> QED
      BY <3>1, <3>9 DEF OnceUnderWay
  <2>4. MessagesBelong'
    <3> SUFFICES ASSUME NEW e \in Device, NEW t \in DOMAIN requests
                 PROVE  /\ \A i \in DOMAIN toServer'[e] : toServer'[e][i].id = t =>
                             Own(requests[t], toServer'[e][i], e)
                        /\ \A i \in DOMAIN toClient'[e] : toClient'[e][i].id = t =>
                             Own(requests[t], toClient'[e][i], e)
      BY <1>1 DEF MessagesBelong
    <3>1. /\ \A i \in DOMAIN toServer[e] : toServer[e][i].id = t => Own(requests[t], toServer[e][i], e)
          /\ \A i \in DOMAIN toClient[e] : toClient[e][i].id = t => Own(requests[t], toClient[e][i], e)
      BY <2>1 DEF MessagesBelong
    <3>2. CASE e # d
      BY <1>1, <3>1, <3>2
    <3>3. CASE e = d
      <4>1. x.id = t => Own(requests[t], x, d)
        BY <1>2, <3>1, <3>3 DEF q, x
      <4>2. y.id = t => Own(requests[t], y, d)
        <5>1. requests[t].kind \in Kind
          BY <1>s DEF Shapes, Entry
        <5> QED
          BY <1>4, <4>1, <5>1 DEF Own, Kind
      <4>3. \A i \in DOMAIN toClient'[d] : toClient'[d][i].id = t => Own(requests[t], toClient'[d][i], d)
        BY <1>3, <3>1, <3>3, <4>2 DEF p
      <4>4. \A i \in DOMAIN toServer'[d] : toServer'[d][i].id = t => Own(requests[t], toServer'[d][i], d)
        <5> TAKE i \in DOMAIN toServer'[d]
        <5>1. i + 1 \in DOMAIN q /\ toServer'[d][i] = q[i + 1]
          BY <1>2
        <5> QED
          BY <3>1, <3>3, <5>1 DEF q
      <4> QED
        BY <3>3, <4>3, <4>4
    <3> QED
      BY <3>2, <3>3
  <2> QED
    BY <2>2, <2>3, <2>4
<1> QED
  BY <1>6, <1>7 DEF IndInv

-----------------------------------------------------------------------------
(* The client takes an answer.                                             *)

\* The request of its id is finished; no other is touched.
LEMMA AnswerEffect ==
  ASSUME Shapes, NEW d \in Device, ProcessResponse(d)
  PROVE  LET m == toClient[d][1] IN
         /\ DOMAIN requests' = DOMAIN requests
         /\ \A t \in DOMAIN requests \ {m.id} : requests'[t] = requests[t]
         /\ m.id \in DOMAIN requests => requests'[m.id] = [requests[m.id] EXCEPT !.state = Outcome(m)]
         /\ Outcome(m) \in {"Completed", "Failed"}
         /\ \A t \in DOMAIN requests' : requests'[t] \in Entry
<1> DEFINE m == toClient[d][1]
<1>1. Head(toClient[d]) = m
  BY Taken DEF Shapes, ProcessResponse
<1>2. requests' = IF m.id \in DOMAIN requests
                    THEN [requests EXCEPT ![m.id].state = Outcome(m)]
                    ELSE requests
  BY <1>1 DEF ProcessResponse
<1>3. Outcome(m) \in {"Completed", "Failed"}
  BY DEF Outcome
<1> HIDE DEF m
<1>4. /\ DOMAIN requests' = DOMAIN requests
      /\ \A t \in DOMAIN requests \ {m.id} : requests'[t] = requests[t]
      /\ m.id \in DOMAIN requests => requests'[m.id] = [requests[m.id] EXCEPT !.state = Outcome(m)]
  BY <1>2
<1>5. \A t \in DOMAIN requests' : requests'[t] \in Entry
  <2> TAKE t \in DOMAIN requests'
  <2>1. requests[t] \in Entry
    BY <1>4 DEF Shapes
  <2>2. CASE t = m.id
    <3>1. [requests[t] EXCEPT !.state = Outcome(m)] \in Entry
      BY <1>3, <2>1 DEF Entry
    <3> QED
      BY <1>4, <2>2, <3>1
  <2>3. CASE t # m.id
    BY <1>4, <2>1, <2>3
  <2> QED
    BY <2>2, <2>3
<1> QED
  BY <1>3, <1>4, <1>5 DEF m

LEMMA ResponseStep ==
  ASSUME IndInv, NEW d \in Device, ProcessResponse(d)
  PROVE  IndInv'
<1> DEFINE p == toClient[d]
           m == p[1]
<1>s. Shapes
  BY DEF IndInv
<1>1. /\ IsSequence(p) /\ p # <<>>
      /\ DOMAIN toClient' = Device /\ toClient'[d] = Tail(p)
      /\ \A e \in Device \ {d} : toClient'[e] = toClient[e]
      /\ toServer' = toServer /\ idReused' = idReused
  BY <1>s DEF Shapes, ProcessResponse
<1>2. /\ Len(p) \in Nat \ {0} /\ DOMAIN p = 1 .. Len(p) /\ 1 \in DOMAIN p
      /\ IsSequence(toClient'[d]) /\ DOMAIN toClient'[d] = 1 .. Len(p) - 1
      /\ \A i \in 1 .. Len(p) - 1 : toClient'[d][i] = p[i + 1]
  BY <1>1, Taken
<1>3. /\ DOMAIN requests' = DOMAIN requests
      /\ \A t \in DOMAIN requests \ {m.id} : requests'[t] = requests[t]
      /\ m.id \in DOMAIN requests => requests'[m.id] = [requests[m.id] EXCEPT !.state = Outcome(m)]
      /\ Outcome(m) \in {"Completed", "Failed"}
      /\ \A t \in DOMAIN requests' : requests'[t] \in Entry
  BY <1>s, AnswerEffect
<1> HIDE DEF p, m
<1>4. \A i \in DOMAIN toClient'[d] : i + 1 \in DOMAIN p /\ i + 1 # 1 /\ toClient'[d][i] = p[i + 1]
  BY <1>2
<1>5. ASSUME NEW t
      PROVE  /\ t \in UnderWay(d)' => t \in UnderWay(d)
             /\ t \in UnderWay(d) /\ t # m.id => t \in UnderWay(d)'
  <2>1. t \in UnderWay(d)' <=> \/ \E i \in DOMAIN toServer[d] : toServer[d][i].id = t
                               \/ \E i \in DOMAIN toClient'[d] : toClient'[d][i].id = t
    BY <1>1 DEF UnderWay, Range
  <2>2. (\E i \in DOMAIN toClient'[d] : toClient'[d][i].id = t) => \E i \in DOMAIN p : p[i].id = t
    BY <1>4
  <2>3. ASSUME NEW i \in DOMAIN p, p[i].id = t, t # m.id
        PROVE  \E k \in DOMAIN toClient'[d] : toClient'[d][k].id = t
    <3>1. i # 1
      BY <2>3 DEF m
    <3>2. i - 1 \in 1 .. Len(p) - 1 /\ toClient'[d][i - 1] = p[i]
      BY <1>2, <2>3, <3>1
    <3> QED
      BY <1>2, <2>3, <3>2
  <2> QED
    BY <2>1, <2>2, <2>3, UnderWayIs DEF p
<1>6. \A e \in Device \ {d} : UnderWay(e)' = UnderWay(e)
  BY <1>1 DEF UnderWay
<1>7. Shapes'
  <2>1. \A e \in Device : IsSequence(toClient'[e])
    BY <1>s, <1>1, <1>2 DEF Shapes
  <2> QED
    BY <1>s, <1>1, <1>3, <2>1 DEF Shapes
<1>8. ASSUME ~idReused' PROVE Awaited' /\ OnceUnderWay' /\ MessagesBelong'
  <2>1. Awaited /\ OnceUnderWay /\ MessagesBelong
    BY <1>1, <1>8 DEF IndInv
  <2>2. Awaited'
    <3> SUFFICES ASSUME NEW e \in Device, NEW t \in DOMAIN requests', requests'[t].addr = e,
                        requests'[t].state = "Pending", ~requests'[t].lost
                 PROVE  t \in UnderWay(e)'
      BY DEF Awaited
    <3>1. t # m.id
      <4> SUFFICES ASSUME t = m.id PROVE FALSE
        OBVIOUS
      <4>1. requests[t] \in Entry
        BY <1>s, <1>3 DEF Shapes
      <4>2. requests'[t].state = Outcome(m)
        BY <1>3, <4>1 DEF Entry
      <4> QED
        BY <1>3, <4>2
    <3>2. t \in UnderWay(e)
      BY <1>3, <2>1, <3>1 DEF Awaited
    <3> QED
      BY <1>5, <1>6, <3>1, <3>2
  <2>3. OnceUnderWay'
    <3>1. \A e, f \in Device : e # f => UnderWay(e)' \cap UnderWay(f)' = {}
      <4>1. \A e \in Device : \A t : t \in UnderWay(e)' => t \in UnderWay(e)
        BY <1>5, <1>6
      <4> QED
        BY <2>1, <4>1 DEF OnceUnderWay
    <3>2. \A i, j \in DOMAIN toClient'[d] : toClient'[d][i].id = toClient'[d][j].id => i = j
      <4>1. \A i, j \in DOMAIN p : p[i].id = p[j].id => i = j
        BY <2>1 DEF OnceUnderWay, p
      <4> TAKE i, j \in DOMAIN toClient'[d]
      <4>2. i \in Int /\ j \in Int
        BY <1>2
      <4> QED
        BY <1>4, <4>1, <4>2
    <3>3. \A i \in DOMAIN toServer[d], j \in DOMAIN toClient'[d] :
            toServer[d][i].id # toClient'[d][j].id
      BY <1>4, <2>1 DEF OnceUnderWay, p
    <3>4. \A e \in Device :
            /\ \A i, j \in DOMAIN toClient'[e] : toClient'[e][i].id = toClient'[e][j].id => i = j
            /\ \A i \in DOMAIN toServer[e], j \in DOMAIN toClient'[e] :
                 toServer[e][i].id # toClient'[e][j].id
      <4> TAKE e \in Device
      <4>1. CASE e = d
        BY <3>2, <3>3, <4>1
      <4>2. CASE e # d
        BY <1>1, <2>1, <4>2 DEF OnceUnderWay
      <4> QED
        BY <4>1, <4>2
    <3> QED
      BY <1>1, <2>1, <3>1, <3>4 DEF OnceUnderWay
  <2>4. MessagesBelong'
    <3> SUFFICES ASSUME NEW e \in Device, NEW t \in DOMAIN requests
                 PROVE  /\ \A i \in DOMAIN toServer[e] : toServer[e][i].id = t =>
                             Own(requests'[t], toServer[e][i], e)
                        /\ \A i \in DOMAIN toClient'[e] : toClient'[e][i].id = t =>
                             Own(requests'[t], toClient'[e][i], e)
      BY <1>1, <1>3 DEF MessagesBelong
    <3>1. /\ \A i \in DOMAIN toServer[e] : toServer[e][i].id = t => Own(requests[t], toServer[e][i], e)
          /\ \A i \in DOMAIN toClient[e] : toClient[e][i].id = t => Own(requests[t], toClient[e][i], e)
      BY <2>1 DEF MessagesBelong
    <3>2. CASE t # m.id
      <4>1. requests'[t] = requests[t]
        BY <1>3, <3>2
      <4>2. CASE e = d
        BY <1>4, <3>1, <4>1, <4>2 DEF p
      <4>3. CASE e # d
        BY <1>1, <3>1, <4>1, <4>3
      <4> QED
        BY <4>2, <4>3
    <3>3. CASE t = m.id
      <4>1. t \in UnderWay(d)
        BY <1>2, <3>3, UnderWayIs DEF p, m
      <4>2. CASE e # d
        <5>1. t \notin UnderWay(e)'
          BY <1>6, <2>1, <4>1, <4>2 DEF OnceUnderWay
        <5>2. /\ \A i \in DOMAIN toServer[e] : toServer[e][i].id # t
              /\ \A i \in DOMAIN toClient'[e] : toClient'[e][i].id # t
          BY <1>1, <1>6, <4>2, <5>1, UnderWayIs
        <5> QED
          BY <5>2
      <4>3. CASE e = d
        <5>1. \A i \in DOMAIN toServer[d] : toServer[d][i].id # t
          BY <1>2, <2>1, <3>3 DEF OnceUnderWay, p, m
        <5>2. \A i \in DOMAIN toClient'[d] : toClient'[d][i].id # t
          BY <1>2, <1>4, <2>1, <3>3 DEF OnceUnderWay, p, m
        <5> QED
          BY <4>3, <5>1, <5>2
      <4> QED
        BY <4>2, <4>3
    <3> QED
      BY <3>2, <3>3
  <2> QED
    BY <2>2, <2>3, <2>4
<1> QED
  BY <1>7, <1>8 DEF IndInv

-----------------------------------------------------------------------------
(* A link is lost.                                                         *)

LEMMA LinkLostStep ==
  ASSUME IndInv, NEW d \in Device, LinkLost(d)
  PROVE  IndInv'
<1>s. Shapes
  BY DEF IndInv
<1>1. /\ DOMAIN toServer' = Device /\ DOMAIN toClient' = Device
      /\ toServer'[d] = <<>> /\ toClient'[d] = <<>>
      /\ \A e \in Device \ {d} : toServer'[e] = toServer[e] /\ toClient'[e] = toClient[e]
      /\ DOMAIN requests' = DOMAIN requests /\ idReused' = idReused
  BY <1>s DEF Shapes, LinkLost
<1>2. \A t \in DOMAIN requests :
        /\ requests'[t] \in Entry
        /\ requests'[t].addr = requests[t].addr
        /\ requests'[t].kind = requests[t].kind
        /\ requests'[t].state = requests[t].state
        /\ ~requests'[t].lost => ~requests[t].lost /\ requests[t].addr # d
  <2> TAKE t \in DOMAIN requests
  <2>1. requests[t] \in Entry
    BY <1>s DEF Shapes
  <2>2. requests'[t] = [requests[t] EXCEPT !.lost = @ \/ requests[t].addr = d]
    BY DEF LinkLost
  <2> QED
    BY <2>1, <2>2 DEF Entry
<1>3. IsSequence(<<>>) /\ DOMAIN <<>> = {}
  BY DEF IsSequence
<1>4. Shapes'
  BY <1>s, <1>1, <1>2, <1>3 DEF Shapes
<1>5. UnderWay(d)' = {} /\ \A e \in Device \ {d} : UnderWay(e)' = UnderWay(e)
  BY <1>1, <1>3 DEF UnderWay, Range
<1>6. ASSUME ~idReused' PROVE Awaited' /\ OnceUnderWay' /\ MessagesBelong'
  <2>1. Awaited /\ OnceUnderWay /\ MessagesBelong
    BY <1>1, <1>6 DEF IndInv
  <2>2. Awaited'
    BY <1>1, <1>2, <1>5, <2>1 DEF Awaited
  <2>3. \A e \in Device :
          /\ \A i \in DOMAIN toServer'[e] : e # d /\ i \in DOMAIN toServer[e]
          /\ \A i \in DOMAIN toClient'[e] : e # d /\ i \in DOMAIN toClient[e]
    BY <1>1, <1>3
  <2>4. OnceUnderWay'
    BY <1>1, <1>5, <2>1, <2>3 DEF OnceUnderWay
  <2>5. MessagesBelong'
    <3> SUFFICES ASSUME NEW e \in Device, NEW t \in DOMAIN requests
                 PROVE  /\ \A i \in DOMAIN toServer'[e] : toServer'[e][i].id = t =>
                             Own(requests'[t], toServer'[e][i], e)
                        /\ \A i \in DOMAIN toClient'[e] : toClient'[e][i].id = t =>
                             Own(requests'[t], toClient'[e][i], e)
      BY <1>1 DEF MessagesBelong
    <3> QED
      BY <1>1, <1>2, <2>1, <2>3 DEF MessagesBelong, Own
  <2> QED
    BY <2>2, <2>4, <2>5
<1> QED
  BY <1>4, <1>6 DEF IndInv

-----------------------------------------------------------------------------
(* Every step.                                                             *)

\* m asks for something under the next id.
Asks(m) == /\ m.id = nextId /\ m.kind \in Kind
           /\ m.kind = "ServiceSearch" => m.uuids \in Pattern /\ m.max \in MaxCount

\* The application of a device changes its records.
Manages(d) ==
  \/ \E class \in Class \ {DefaultClass} : Register(d, class)
  \/ \E i \in DOMAIN servers[d].records : Withdraw(d, i)
  \/ \E i \in DOMAIN servers[d].records, id \in Attribute \ {"class"} : Amend(d, i, id)
  \/ \E i \in DOMAIN servers[d].records, classes \in ClassList : Reclassify(d, i, classes)

\* The actions, with the two calls as one.
LEMMA Actions ==
  ASSUME Next
  PROVE  \/ \E d \in Device : Manages(d)
         \/ \E d \in Device, fits \in BOOLEAN : \E m : Asks(m) /\ Request(d, m, fits)
         \/ \E d \in Device : Serve(d) \/ ProcessResponse(d) \/ LinkLost(d)
         \/ \E t \in DOMAIN requests : RemoveRequest(t)
         \/ Cleanup
         \/ ClearCache
<1>1. ASSUME NEW d \in Device, NEW uuids \in Pattern, NEW max \in MaxCount,
             DiscoverServices(d, uuids, max)
      PROVE  \E fits \in BOOLEAN : \E m : Asks(m) /\ Request(d, m, fits)
  <2> DEFINE m == [kind |-> "ServiceSearch", id |-> nextId, uuids |-> uuids, max |-> max]
             fits == Len(uuids) <= MaxSearchUuids
  <2>1. Request(d, m, fits)
    BY <1>1 DEF DiscoverServices
  <2>2. Asks(m) /\ fits \in BOOLEAN
    BY DEF Asks, Kind
  <2> HIDE DEF m, fits
  <2> QED
    BY <2>1, <2>2
<1>2. ASSUME NEW d \in Device, NEW ids \in IdList, NEW max \in MaxBytes,
             GetServiceAttributes(d, ids, max)
      PROVE  \E fits \in BOOLEAN : \E m : Asks(m) /\ Request(d, m, fits)
  <2>1. PICK h : Request(d, [kind |-> "ServiceAttribute", id |-> nextId, handle |-> h,
                            ids |-> ids, max |-> max], Len(ids) <= MaxAttributeIds)
    BY <1>2 DEF GetServiceAttributes
  <2> DEFINE m == [kind |-> "ServiceAttribute", id |-> nextId, handle |-> h, ids |-> ids, max |-> max]
             fits == Len(ids) <= MaxAttributeIds
  <2>2. Asks(m) /\ fits \in BOOLEAN
    BY DEF Asks, Kind
  <2>3. Request(d, m, fits)
    BY <2>1
  <2> HIDE DEF m, fits
  <2> QED
    BY <2>2, <2>3
<1> QED
  BY <1>1, <1>2 DEF Next, Manages

\* The steps, by what they do to the requests and the channels.
LEMMA Steps ==
  ASSUME Next
  PROVE  \/ UNCHANGED <<requests, toServer, toClient, idReused>>
         \/ Removed
         \/ \E d \in Device, fits \in BOOLEAN : \E m :
              m.id = nextId /\ m.kind \in Kind /\ Request(d, m, fits)
         \/ \E d \in Device : Serve(d) \/ ProcessResponse(d) \/ LinkLost(d)
<1>1. ASSUME NEW d \in Device, Manages(d)
      PROVE  UNCHANGED <<requests, toServer, toClient, idReused>>
  BY <1>1 DEF Manages, Register, Withdraw, Amend, Reclassify
<1>2. ASSUME NEW t \in DOMAIN requests, RemoveRequest(t)
      PROVE  Removed
  BY <1>2 DEF RemoveRequest, Removed
<1>3. Cleanup => Removed
  BY DEF Cleanup, Removed
<1>4. ClearCache => UNCHANGED <<requests, toServer, toClient, idReused>>
  BY DEF ClearCache
<1> QED
  BY <1>1, <1>2, <1>3, <1>4, Actions DEF Asks

LEMMA Invariance == Spec => []IndInv
<1>1. Init => IndInv
  <2> SUFFICES ASSUME Init PROVE IndInv
    OBVIOUS
  <2>1. /\ requests = <<>> /\ ~idReused /\ idReused \in BOOLEAN
        /\ toServer = [d \in Device |-> <<>>] /\ toClient = [d \in Device |-> <<>>]
    BY DEF Init
  <2>2. IsSequence(<<>>) /\ DOMAIN <<>> = {}
    BY DEF IsSequence
  <2>3. Shapes
    BY <2>1, <2>2 DEF Shapes
  <2>4. \A d \in Device : UnderWay(d) = {}
    BY <2>1, <2>2 DEF UnderWay, Range
  <2>5. Awaited /\ MessagesBelong
    BY <2>1, <2>2 DEF Awaited, MessagesBelong
  <2>6. OnceUnderWay
    BY <2>1, <2>2, <2>4 DEF OnceUnderWay
  <2> QED
    BY <2>3, <2>5, <2>6 DEF IndInv
<1>2. IndInv /\ [Next]_vars => IndInv'
  <2> SUFFICES ASSUME IndInv, [Next]_vars PROVE IndInv'
    OBVIOUS
  <2>1. CASE UNCHANGED vars
    BY <2>1, QuietStep DEF vars
  <2>2. CASE Next
    <3>1. ASSUME NEW d \in Device, Serve(d) \/ ProcessResponse(d) \/ LinkLost(d)
          PROVE  IndInv'
      BY <3>1, ServeStep, ResponseStep, LinkLostStep
    <3>2. ASSUME NEW d \in Device, NEW fits \in BOOLEAN, NEW m,
                 m.id = nextId, m.kind \in Kind, Request(d, m, fits)
          PROVE  IndInv'
      BY <3>2, RequestStep
    <3> QED
      BY <2>2, <3>1, <3>2, Steps, QuietStep, RemovedStep
  <2> QED
    BY <2>1, <2>2
<1> QED
  BY <1>1, <1>2, PTL DEF Spec

-----------------------------------------------------------------------------
(* The theorems.                                                           *)

\* What the table holds as pending is on its way to the device that was asked, or its
\* answer on the way back, unless the link was lost.
THEOREM PendingAreAwaited == Spec => []PendingIsAwaited
<1>1. IndInv => PendingIsAwaited
  BY DEF IndInv, Awaited, PendingIsAwaited, Shapes, Entry
<1> QED
  BY <1>1, Invariance, PTL

\* A request is finished, once, by an answer of the device that was asked to a request of
\* its kind.
THEOREM AnswersAreOwn == Spec => AnswersOwnRequest
<1>1. IndInv /\ [Next]_vars => [FinishedByAnswer]_vars
  <2> SUFFICES ASSUME IndInv, Next PROVE FinishedByAnswer
    OBVIOUS
  <2> SUFFICES ASSUME ~idReused', NEW t \in DOMAIN requests \cap DOMAIN requests',
                      requests'[t].state # requests[t].state
               PROVE  LET d == requests[t].addr
                      IN /\ requests[t].state = "Pending"
                         /\ toClient[d] # <<>> /\ Head(toClient[d]).id = t
                         /\ Head(toClient[d]).kind \in {requests[t].kind, "Error"}
                         /\ requests'[t].state = "Failed" <=> Head(toClient[d]).kind = "Error"
    BY DEF FinishedByAnswer
  <2>s. Shapes
    BY DEF IndInv
  <2>1. PICK d \in Device : ProcessResponse(d)
    <3>1. ~ UNCHANGED <<requests, toServer, toClient, idReused>> /\ ~Removed
      BY DEF Removed
    <3>2. ASSUME NEW d \in Device, NEW fits \in BOOLEAN, NEW m,
                 m.id = nextId, m.kind \in Kind, Request(d, m, fits)
          PROVE  FALSE
      <4>1. \/ requests' = requests
            \/ /\ \A u \in DOMAIN requests \ {m.id} : requests'[u] = requests[u]
               /\ ~idReused' => m.id \notin InUse
        BY <2>s, <3>2, RequestCases
      <4>2. m.id # t \/ requests' = requests
        BY <4>1 DEF InUse
      <4> QED
        BY <4>1, <4>2
    <3>3. ASSUME NEW d \in Device, Serve(d) \/ LinkLost(d)
          PROVE  FALSE
      <4>1. requests[t] \in Entry
        BY <2>s DEF Shapes
      <4> QED
        BY <3>3, <4>1 DEF Serve, LinkLost, Entry
    <3> QED
      BY <3>1, <3>2, <3>3, Steps
  <2> DEFINE m == toClient[d][1]
  <2>2. /\ toClient[d] # <<>> /\ Head(toClient[d]) = m /\ 1 \in DOMAIN toClient[d]
        /\ idReused' = idReused
    BY <2>s, <2>1, Taken DEF Shapes, ProcessResponse
  <2>3. t = m.id /\ requests'[t] = [requests[t] EXCEPT !.state = Outcome(m)]
    BY <2>s, <2>1, AnswerEffect
  <2>4. Own(requests[t], m, d)
    BY <2>2, <2>3 DEF IndInv, MessagesBelong
  <2>5. requests[t] \in Entry
    BY <2>s DEF Shapes
  <2>6. requests'[t].state = "Failed" <=> m.kind = "Error"
    BY <2>3, <2>4, <2>5 DEF Outcome, Own, Entry, Kind
  <2> HIDE DEF m
  <2> QED
    BY <2>2, <2>3, <2>4, <2>6 DEF Own
<1> QED
  BY <1>1, Invariance, PTL DEF Spec, AnswersOwnRequest

-----------------------------------------------------------------------------
(* The first n of a sequence.                                              *)

LEMMA FirstOfIs ==
  ASSUME NEW T, NEW q \in Seq(T), NEW n \in Nat
  PROVE  /\ FirstOf(q, n) \in Seq(T)
         /\ Len(FirstOf(q, n)) = IF n < Len(q) THEN n ELSE Len(q)
         /\ \A i \in DOMAIN FirstOf(q, n) : i \in DOMAIN q /\ FirstOf(q, n)[i] = q[i]
<1> DEFINE k == IF n < Len(q) THEN n ELSE Len(q)
<1>1. Len(q) \in Nat /\ DOMAIN q = 1 .. Len(q) /\ k \in 0 .. Len(q) /\ k \in Int
  OBVIOUS
<1>2. \A i \in 1 .. k : q[i] \in T
  BY <1>1
<1> HIDE DEF k
<1>3. /\ SubSeq(q, 1, k) \in Seq(T)
      /\ Len(SubSeq(q, 1, k)) = IF 1 <= k THEN k - 1 + 1 ELSE 0
      /\ \A i \in 1 .. k - 1 + 1 : SubSeq(q, 1, k)[i] = q[1 + i - 1]
  BY <1>1, <1>2, SubSeqProperties
<1>4. FirstOf(q, n) = SubSeq(q, 1, k)
  BY DEF FirstOf, k
<1>5. Len(SubSeq(q, 1, k)) = k /\ DOMAIN SubSeq(q, 1, k) = 1 .. k
  BY <1>1, <1>3
<1> QED
  BY <1>1, <1>3, <1>4, <1>5 DEF k

-----------------------------------------------------------------------------
(* The servers.                                                            *)

Fields == [handle : Nat, classes : SUBSET Class, attributes : SUBSET Attribute,
           state : Nat, listedAt : Nat]

Record == {r \in Fields : Mandatory \subseteq r.attributes}

Server == [records : Seq(Record), nextHandle : 0 .. LastHandle]

HandlesUnique(s) ==
  \A i, j \in DOMAIN s.records : s.records[i].handle = s.records[j].handle => i = j

Sound(s) == s \in Server /\ Len(s.records) <= MaxRecords /\ HandlesUnique(s)

\* n is r, or r amended: with the classes it had, or others listed since.
AmendedFrom(r, n) ==
  /\ n.handle = r.handle /\ n.state >= r.state
  /\ \/ n.classes = r.classes /\ n.listedAt = r.listedAt
     \/ n.listedAt > r.state

\* The records of t are records of s, amended perhaps, or the one that took the next handle.
Follows(s, t) ==
  /\ Sound(t)
  /\ \/ t.nextHandle = s.nextHandle
     \/ t.nextHandle = Following(s.nextHandle)
  /\ \A j \in DOMAIN t.records :
       \/ \E i \in DOMAIN s.records : AmendedFrom(s.records[i], t.records[j])
       \/ /\ t.records[j].handle = s.nextHandle
          /\ t.nextHandle = Following(s.nextHandle)

\* A record is itself, amended by nothing.
LEMMA SameRecord == \A r \in Record : AmendedFrom(r, r)
  BY DEF Record, Fields, AmendedFrom

LEMMA AddAttributeIs ==
  ASSUME NEW r \in Record, NEW id \in Attribute
  PROVE  /\ AddAttribute(r, id) \in Record
         /\ AmendedFrom(r, AddAttribute(r, id))
         /\ id \in r.attributes => AddAttribute(r, id).state = r.state + 1
<1> DEFINE added == [r EXCEPT !.attributes = @ \cup {id}, !.state = @ + 1]
<1>1. r \in Fields /\ Mandatory \subseteq r.attributes /\ r.state \in Nat
  BY DEF Record, Fields
<1>2. /\ added \in Fields /\ added.attributes = r.attributes \cup {id}
      /\ added.handle = r.handle /\ added.classes = r.classes
      /\ added.listedAt = r.listedAt /\ added.state = r.state + 1
  <2>1. r.attributes \cup {id} \in SUBSET Attribute /\ r.state + 1 \in Nat
    BY <1>1 DEF Fields
  <2> QED
    BY <1>1, <2>1 DEF Fields
<1>3. /\ AddAttribute(r, id) = added \/ AddAttribute(r, id) = r
      /\ id \in r.attributes => AddAttribute(r, id) = added
  BY DEF AddAttribute, CanAdd
<1> HIDE DEF added
<1>4. added \in Record /\ AmendedFrom(r, added)
  BY <1>1, <1>2 DEF Record, AmendedFrom
<1> QED
  BY <1>2, <1>3, <1>4, SameRecord

LEMMA SetClassListIs ==
  ASSUME NEW r \in Record, NEW classes \in SUBSET Class
  PROVE  SetClassList(r, classes) \in Record /\ AmendedFrom(r, SetClassList(r, classes))
<1> DEFINE added == AddAttribute(r, "class")
           new == [added EXCEPT !.classes = classes, !.listedAt = added.state]
<1>1. "class" \in Attribute /\ "class" \in r.attributes
  BY SdpServerAssumption DEF Mandatory, Record
<1>2. /\ added \in Record /\ added.handle = r.handle
      /\ added.state = r.state + 1 /\ r.state \in Nat
  BY <1>1, AddAttributeIs DEF AmendedFrom, Record, Fields
<1> HIDE DEF added
<1>3. /\ new \in Fields /\ Mandatory \subseteq new.attributes
      /\ new.handle = r.handle /\ new.state = added.state /\ new.listedAt = added.state
  BY <1>2 DEF Record, Fields
<1>4. SetClassList(r, classes) = new
  BY DEF SetClassList, added
<1> HIDE DEF new
<1> QED
  BY <1>2, <1>3, <1>4 DEF Record, AmendedFrom

LEMMA FollowingIs ==
  ASSUME NEW h \in 0 .. LastHandle
  PROVE  /\ Following(h) \in 0 .. LastHandle
         /\ h # LastHandle => Following(h) = h + 1
BY SdpServerAssumption DEF Following

\* A record is added, replaces that of its handle, or finds no room.
LEMMA AddServiceIs ==
  ASSUME NEW s, Sound(s), NEW record \in Record
  PROVE  /\ Follows(s, AddServiceRecord(s, record))
         /\ AddServiceRecord(s, record).nextHandle = Following(s.nextHandle)
<1> DEFINE h == s.nextHandle
           named == AddAttribute([record EXCEPT !.handle = h], "handle")
           r == AddAttribute(named, "state")
           counted == [s EXCEPT !.nextHandle = Following(h)]
           t == AddServiceRecord(s, record)
           n == Len(s.records)
<1>1. /\ s = [records |-> s.records, nextHandle |-> h]
      /\ s.records \in Seq(Record) /\ h \in 0 .. LastHandle /\ n \in Nat /\ n <= MaxRecords
      /\ DOMAIN s.records = 1 .. n /\ MaxRecords \in Nat /\ h \in Nat
      /\ HandlesUnique(s)
  BY SdpServerAssumption DEF Sound, Server
<1>2. "handle" \in Attribute /\ "state" \in Attribute
  BY SdpServerAssumption DEF Mandatory
<1>3. r \in Record /\ r.handle = h
  <2>1. /\ [record EXCEPT !.handle = h] \in Record
        /\ [record EXCEPT !.handle = h].handle = h
    BY <1>1 DEF Record, Fields
  <2>2. named \in Record /\ named.handle = h
    BY <1>2, <2>1, AddAttributeIs DEF AmendedFrom
  <2> HIDE DEF named
  <2> QED
    BY <1>2, <2>2, AddAttributeIs DEF AmendedFrom
<1>4. counted = [records |-> s.records, nextHandle |-> Following(h)] /\ Following(h) \in 0 .. LastHandle
  BY <1>1, FollowingIs
<1>5. t = CASE Position(s, h) # {} ->
                 [counted EXCEPT !.records[CHOOSE i \in Position(s, h) : TRUE] = r]
            [] Position(s, h) = {} /\ Len(s.records) < MaxRecords ->
                 [counted EXCEPT !.records = Append(@, r)]
            [] OTHER -> counted
  BY DEF AddServiceRecord
<1> HIDE DEF r, t, counted
<1>6. CASE Position(s, h) # {}
  <2> DEFINE i == CHOOSE i \in Position(s, h) : TRUE
  <2>1. i \in 1 .. n /\ s.records[i].handle = h
    BY <1>1, <1>6 DEF Position
  <2>2. t = [records |-> [s.records EXCEPT ![i] = r], nextHandle |-> Following(h)]
    BY <1>1, <1>4, <1>5, <1>6
  <2> HIDE DEF i, h, n
  <2>3. /\ t.records \in Seq(Record) /\ Len(t.records) = n /\ DOMAIN t.records = 1 .. n
        /\ t.records[i] = r /\ \A j \in 1 .. n \ {i} : t.records[j] = s.records[j]
        /\ t.nextHandle = Following(h)
    BY <1>1, <1>3, <2>1, <2>2
  <2>4. HandlesUnique(t)
    BY <1>1, <1>3, <2>1, <2>3 DEF HandlesUnique
  <2>5. t \in Server
    BY <1>4, <2>2, <2>3 DEF Server
  <2>6. \A j \in 1 .. n \ {i} : AmendedFrom(s.records[j], t.records[j])
    BY <1>1, <2>3, SameRecord DEF n
  <2> QED
    BY <1>1, <1>3, <2>3, <2>4, <2>5, <2>6 DEF Follows, Sound, h, t
<1>7. CASE Position(s, h) = {} /\ n < MaxRecords
  <2>1. t = [records |-> Append(s.records, r), nextHandle |-> Following(h)]
    BY <1>1, <1>4, <1>5, <1>7
  <2>2. \A i \in 1 .. n : s.records[i].handle # h
    BY <1>1, <1>7 DEF Position
  <2> HIDE DEF h, n
  <2>3. /\ t.records \in Seq(Record) /\ Len(t.records) = n + 1 /\ DOMAIN t.records = 1 .. n + 1
        /\ t.records[n + 1] = r /\ \A j \in 1 .. n : t.records[j] = s.records[j]
        /\ t.nextHandle = Following(h)
    BY <1>1, <1>3, <2>1 DEF n
  <2>4. HandlesUnique(t)
    <3>1. ASSUME NEW j \in 1 .. n + 1, NEW k \in 1 .. n + 1, t.records[j].handle = t.records[k].handle
          PROVE  j = k
      <4>1. j \in 1 .. n \/ j = n + 1
        BY <1>1 DEF n
      <4>2. k \in 1 .. n \/ k = n + 1
        BY <1>1 DEF n
      <4> QED
        BY <1>1, <1>3, <2>2, <2>3, <3>1, <4>1, <4>2 DEF HandlesUnique
    <3> QED
      BY <2>3, <3>1 DEF HandlesUnique
  <2>5. t \in Server
    BY <1>4, <2>1, <2>3 DEF Server
  <2>6. n + 1 <= MaxRecords
    BY <1>1, <1>7 DEF n
  <2>7. Sound(t)
    BY <2>3, <2>4, <2>5, <2>6 DEF Sound
  <2>8. \A j \in 1 .. n + 1 : j \in 1 .. n \/ j = n + 1
    BY <1>1 DEF n
  <2>9. \A j \in 1 .. n : AmendedFrom(s.records[j], t.records[j])
    BY <1>1, <2>3, SameRecord DEF n
  <2> QED
    BY <1>1, <1>3, <2>3, <2>7, <2>8, <2>9 DEF Follows, h, t
<1>8. CASE Position(s, h) = {} /\ ~ (n < MaxRecords)
  <2>1. t = counted
    BY <1>5, <1>8
  <2>2. t.records = s.records /\ t.nextHandle = Following(h)
    BY <1>4, <2>1
  <2>3. t \in Server
    BY <1>1, <1>4, <2>1 DEF Server
  <2>4. \A j \in 1 .. n : AmendedFrom(s.records[j], s.records[j])
    BY <1>1, SameRecord
  <2> QED
    BY <1>1, <2>2, <2>3, <2>4 DEF Follows, Sound, HandlesUnique, t
<1> QED
  BY <1>6, <1>7, <1>8

\* The last record goes into the gap.
LEMMA RemoveIs ==
  ASSUME NEW s, Sound(s), NEW i \in DOMAIN s.records
  PROVE  /\ Follows(s, RemoveServiceRecord(s, s.records[i].handle))
         /\ RemoveServiceRecord(s, s.records[i].handle).nextHandle = s.nextHandle
<1> DEFINE h == s.records[i].handle
           t == RemoveServiceRecord(s, h)
           n == Len(s.records)
<1>1. /\ s = [records |-> s.records, nextHandle |-> s.nextHandle]
      /\ s.records \in Seq(Record) /\ s.nextHandle \in 0 .. LastHandle /\ n \in Nat /\ n <= MaxRecords
      /\ DOMAIN s.records = 1 .. n /\ MaxRecords \in Nat
      /\ HandlesUnique(s) /\ i \in 1 .. n
  BY SdpServerAssumption DEF Sound, Server
<1>2. Position(s, h) = {i}
  BY <1>1 DEF Position, HandlesUnique
<1> DEFINE rest == [j \in 1 .. n - 1 |-> IF j = i THEN Last(s.records) ELSE s.records[j]]
<1>3. t = [records |-> rest, nextHandle |-> s.nextHandle]
  <2>1. Position(s, h) # {} /\ \A j : j \in Position(s, h) <=> j = i
    BY <1>2
  <2>2. t = [s EXCEPT !.records =
              [j \in 1 .. Len(s.records) - 1 |->
                 IF j \in Position(s, h) THEN Last(s.records) ELSE s.records[j]]]
    BY <2>1 DEF RemoveServiceRecord
  <2>3. [j \in 1 .. Len(s.records) - 1 |->
           IF j \in Position(s, h) THEN Last(s.records) ELSE s.records[j]] = rest
    BY <2>1
  <2> QED
    BY <1>1, <2>2, <2>3
<1>4. Last(s.records) = s.records[n] /\ n \in 1 .. n /\ n - 1 \in Nat
  BY <1>1 DEF Last
<1>5. rest \in [1 .. n - 1 -> Record]
  BY <1>1, <1>4
<1>6. rest \in Seq(Record) /\ Len(rest) = n - 1 /\ DOMAIN rest = 1 .. n - 1
  BY <1>4, <1>5, SeqDef
<1> HIDE DEF n, h
<1>7. \A j \in 1 .. n - 1 : \E k \in 1 .. n : rest[j] = s.records[k]
  BY <1>1, <1>4
<1>8. HandlesUnique(t)
  <2>1. ASSUME NEW j \in 1 .. n - 1, NEW k \in 1 .. n - 1, rest[j].handle = rest[k].handle
        PROVE  j = k
    <3>1. j # n /\ k # n /\ j \in 1 .. n /\ k \in 1 .. n
      BY <1>1
    <3>2. /\ rest[j] = IF j = i THEN s.records[n] ELSE s.records[j]
          /\ rest[k] = IF k = i THEN s.records[n] ELSE s.records[k]
      BY <1>4
    <3> QED
      BY <1>1, <1>4, <2>1, <3>1, <3>2 DEF HandlesUnique
  <2> HIDE DEF rest
  <2> QED
    BY <1>3, <1>6, <2>1 DEF HandlesUnique
<1> HIDE DEF rest, t
<1>9. t.records = rest /\ t.nextHandle = s.nextHandle
  BY <1>3
<1>10. Sound(t)
  BY <1>1, <1>3, <1>6, <1>8, <1>9 DEF Sound, Server
<1>11. \A k \in 1 .. n : AmendedFrom(s.records[k], s.records[k])
  BY <1>1, SameRecord DEF n
<1> QED
  BY <1>1, <1>6, <1>7, <1>9, <1>10, <1>11 DEF Follows, t, h

\* A record is amended in its place.
LEMMA AmendIs ==
  ASSUME NEW s, Sound(s), NEW i \in DOMAIN s.records, NEW r \in Record, AmendedFrom(s.records[i], r)
  PROVE  /\ Follows(s, [s EXCEPT !.records[i] = r])
         /\ [s EXCEPT !.records[i] = r].nextHandle = s.nextHandle
<1> DEFINE n == Len(s.records)
           t == [s EXCEPT !.records[i] = r]
<1>1. /\ s = [records |-> s.records, nextHandle |-> s.nextHandle]
      /\ s.records \in Seq(Record) /\ s.nextHandle \in 0 .. LastHandle /\ n \in Nat /\ n <= MaxRecords
      /\ DOMAIN s.records = 1 .. n /\ HandlesUnique(s) /\ i \in 1 .. n
  BY DEF Sound, Server
<1>2. r.handle = s.records[i].handle
  BY DEF AmendedFrom
<1>3. t = [records |-> [s.records EXCEPT ![i] = r], nextHandle |-> s.nextHandle]
  BY <1>1
<1> HIDE DEF t
<1>4. /\ t.records \in Seq(Record) /\ Len(t.records) = n /\ DOMAIN t.records = 1 .. n
      /\ t.records[i] = r /\ \A j \in 1 .. n \ {i} : t.records[j] = s.records[j]
      /\ t.nextHandle = s.nextHandle
  BY <1>1, <1>3
<1>5. \A j \in 1 .. n : AmendedFrom(s.records[j], t.records[j])
  BY <1>1, <1>4, SameRecord
<1> HIDE DEF n
<1>6. HandlesUnique(t)
  BY <1>1, <1>2, <1>4 DEF HandlesUnique
<1>7. t \in Server
  BY <1>1, <1>3, <1>4 DEF Server
<1>8. Follows(s, t)
  BY <1>1, <1>4, <1>5, <1>6, <1>7 DEF Follows, Sound
<1> QED
  BY <1>4, <1>8 DEF t

\* A server begins with its own record.
LEMMA NewServerIs ==
  /\ Sound(NewServer)
  /\ \A i \in DOMAIN NewServer.records : NewServer.records[i].handle < NewServer.nextHandle
<1> DEFINE s == [records |-> <<>>, nextHandle |-> FirstHandle]
<1>1. Sound(s)
  BY SdpServerAssumption DEF Sound, Server, HandlesUnique
<1>2. DefaultRecord \in Record
  <2>1. {"name", "psm", "version"} \subseteq Attribute /\ DefaultClass \in Class /\ Mandatory \subseteq Attribute
    BY SdpServerAssumption
  <2>2. ServiceRecord(DefaultClass) \in Record
    BY <2>1 DEF ServiceRecord, Record, Fields
  <2>3. AddAttribute(ServiceRecord(DefaultClass), "name") \in Record
    BY <2>1, <2>2, AddAttributeIs
  <2>4. AddAttribute(AddAttribute(ServiceRecord(DefaultClass), "name"), "psm") \in Record
    BY <2>1, <2>3, AddAttributeIs
  <2> QED
    BY <2>1, <2>4, AddAttributeIs DEF DefaultRecord
<1>3. /\ Follows(s, NewServer)
      /\ NewServer.nextHandle = Following(s.nextHandle)
  BY <1>1, <1>2, AddServiceIs DEF NewServer
<1>4. /\ FirstHandle \in 0 .. LastHandle /\ FirstHandle \in Nat /\ s.nextHandle = FirstHandle
      /\ DOMAIN s.records = {}
  BY SdpServerAssumption
<1>5. Following(FirstHandle) = FirstHandle + 1
  BY <1>4, FollowingIs, SdpServerAssumption
<1> HIDE DEF s
<1> QED
  BY <1>3, <1>4, <1>5 DEF Follows

\* A search finds handles of records that match.
LEMMA SearchServicesIs ==
  ASSUME NEW s \in Server, NEW uuids
  PROVE  LET result == SearchServices(s, uuids)
         IN /\ result.handles \in Seq(Nat) /\ result.total \in Nat
            /\ result = [handles |-> result.handles, total |-> result.total]
            /\ \A n \in DOMAIN result.handles :
                 \E i \in DOMAIN s.records :
                   s.records[i].handle = result.handles[n] /\ Matches(s.records[i], uuids)
<1> DEFINE I == {i \in DOMAIN s.records : Matches(s.records[i], uuids)}
           matching == Selected(s.records, I)
           found == FirstOf(matching, MaxServiceHandles)
           handles == [i \in DOMAIN found |-> found[i].handle]
<1>1. s.records \in Seq(Record) /\ I \in SUBSET DOMAIN s.records /\ MaxServiceHandles \in Nat
  BY SdpServerAssumption DEF Server
<1>2. /\ matching \in Seq(Record)
      /\ \A n \in DOMAIN matching : \E i \in I : matching[n] = s.records[i]
  BY <1>1, SelectedIs
<1> HIDE DEF matching
<1>3. /\ found \in Seq(Record)
      /\ \A n \in DOMAIN found : n \in DOMAIN matching /\ found[n] = matching[n]
  BY <1>1, <1>2, FirstOfIs
<1> HIDE DEF found
<1>4. Len(found) \in Nat /\ DOMAIN found = 1 .. Len(found) /\ \A n \in DOMAIN found : found[n].handle \in Nat
  BY <1>3 DEF Record, Fields
<1>5. handles \in [1 .. Len(found) -> Nat]
  BY <1>4
<1>6. handles \in Seq(Nat) /\ DOMAIN handles = DOMAIN found
  BY <1>4, <1>5, SeqDef
<1>7. \A n \in DOMAIN handles : \E i \in I : s.records[i].handle = handles[n]
  BY <1>2, <1>3
<1>8. SearchServices(s, uuids) = [handles |-> handles, total |-> Len(found)]
  BY DEF SearchServices, handles, found, matching
<1> HIDE DEF handles
<1> QED
  BY <1>4, <1>6, <1>7, <1>8

\* The states of what a search has found.
StatesOf(s, handles) == [n \in DOMAIN handles |-> StateOf(s, handles[n])]

LEMMA SearchIs ==
  ASSUME NEW s, Sound(s), NEW uuids, NEW max \in Nat
  PROVE  LET result == HandleServiceSearch(s, uuids, max)
             states == StatesOf(s, result.handles)
         IN /\ result.handles \in Seq(Nat) /\ result.total \in Nat /\ states \in Seq(Nat)
            /\ \A n \in DOMAIN result.handles :
                 \E i \in DOMAIN s.records :
                   /\ s.records[i].handle = result.handles[n] /\ Matches(s.records[i], uuids)
                   /\ s.records[i].state = states[n]
<1> DEFINE all == SearchServices(s, uuids)
           given == FirstOf(all.handles, max)
           states == StatesOf(s, given)
<1>0. s \in Server /\ HandlesUnique(s) /\ \A i \in DOMAIN s.records : s.records[i].state \in Nat
  BY DEF Sound, Server, Record, Fields
<1>1. /\ all.handles \in Seq(Nat) /\ all.total \in Nat
      /\ all = [handles |-> all.handles, total |-> all.total]
      /\ \A n \in DOMAIN all.handles :
           \E i \in DOMAIN s.records :
             s.records[i].handle = all.handles[n] /\ Matches(s.records[i], uuids)
  BY <1>0, SearchServicesIs
<1>2. HandleServiceSearch(s, uuids, max) = [all EXCEPT !.handles = given]
  BY DEF HandleServiceSearch
<1> HIDE DEF all
<1>3. /\ given \in Seq(Nat)
      /\ \A n \in DOMAIN given : n \in DOMAIN all.handles /\ given[n] = all.handles[n]
  BY <1>1, FirstOfIs
<1> HIDE DEF given
<1>4. /\ HandleServiceSearch(s, uuids, max).handles = given
      /\ HandleServiceSearch(s, uuids, max).total = all.total
  BY <1>1, <1>2
<1>5. ASSUME NEW n \in DOMAIN given
      PROVE  \E i \in DOMAIN s.records :
               /\ s.records[i].handle = given[n] /\ Matches(s.records[i], uuids)
               /\ s.records[i].state = StateOf(s, given[n])
  <2>1. PICK i \in DOMAIN s.records : s.records[i].handle = given[n] /\ Matches(s.records[i], uuids)
    BY <1>1, <1>3
  <2>2. Position(s, given[n]) = {i}
    BY <1>0, <2>1 DEF Position, HandlesUnique
  <2>3. StateOf(s, given[n]) = s.records[i].state
    BY <2>2 DEF StateOf
  <2> QED
    BY <2>1, <2>3
<1>6. DOMAIN states = DOMAIN given /\ \A n \in DOMAIN given : states[n] = StateOf(s, given[n])
  BY DEF StatesOf
<1>7. states \in Seq(Nat)
  <2>1. Len(given) \in Nat /\ DOMAIN given = 1 .. Len(given)
    BY <1>3
  <2>2. \A n \in DOMAIN given : StateOf(s, given[n]) \in Nat
    BY <1>0, <1>5
  <2>3. states \in [1 .. Len(given) -> Nat]
    BY <2>1, <2>2 DEF StatesOf
  <2> QED
    BY <2>1, <2>3, SeqDef
<1> HIDE DEF states
<1> QED
  BY <1>1, <1>3, <1>4, <1>5, <1>6, <1>7 DEF states

\* No record has a handle that is still to be given out.
Known(s) == \A i \in DOMAIN s.records : s.records[i].handle < s.nextHandle

\* The record r, found in that state, matches still, or its class list was replaced since.
Matched(r, state, uuids) ==
  r.state >= state /\ (Matches(r, uuids) \/ state < r.listedAt)

\* Handles that have been given out, and whose records, those that are left, match.
Named(s, handles, states, uuids) ==
  \A n \in DOMAIN handles :
    /\ handles[n] < s.nextHandle /\ states[n] \in Nat
    /\ \A i \in DOMAIN s.records :
         s.records[i].handle = handles[n] => Matched(s.records[i], states[n], uuids)

\* An amendment keeps the classes that matched, or is itself a replacement of them.
LEMMA MatchedKept ==
  ASSUME NEW r \in Record, NEW n \in Record, AmendedFrom(r, n),
         NEW state \in Nat, NEW uuids, Matched(r, state, uuids)
  PROVE  Matched(n, state, uuids)
<1>1. /\ r.state \in Nat /\ n.state \in Nat /\ r.listedAt \in Nat /\ n.listedAt \in Nat
      /\ n.state >= r.state /\ r.state >= state
  BY DEF Record, Fields, AmendedFrom, Matched
<1>2. CASE n.classes = r.classes /\ n.listedAt = r.listedAt
  BY <1>1, <1>2 DEF Matched, Matches
<1>3. CASE n.listedAt > r.state
  BY <1>1, <1>3 DEF Matched
<1> QED
  BY <1>2, <1>3 DEF AmendedFrom

\* Until the handles wrap around a new record cannot take one that was given out.
LEMMA NamedKept ==
  ASSUME NEW s, Sound(s), Known(s), NEW t, Follows(s, t),
         t.nextHandle = s.nextHandle \/ s.nextHandle # LastHandle
  PROVE  /\ Known(t)
         /\ \A handles, states, uuids :
              handles \in Seq(Nat) /\ Named(s, handles, states, uuids) =>
                Named(t, handles, states, uuids)
<1>1. /\ s.nextHandle \in Nat /\ s.nextHandle \in 0 .. LastHandle /\ LastHandle \in Nat \ {0}
      /\ t.nextHandle \in Nat
      /\ \A i \in DOMAIN s.records : s.records[i] \in Record /\ s.records[i].handle \in Nat
      /\ \A i \in DOMAIN t.records : t.records[i] \in Record /\ t.records[i].handle \in Nat
  <2>1. \A r \in Record : r.handle \in Nat
    BY DEF Record, Fields
  <2>2. s \in Server /\ t \in Server
    BY DEF Follows, Sound
  <2> QED
    BY <2>1, <2>2, SdpServerAssumption DEF Server
<1>2. /\ s.nextHandle <= t.nextHandle
      /\ t.nextHandle = Following(s.nextHandle) => s.nextHandle < t.nextHandle
  BY <1>1 DEF Follows, Following
<1>3. Known(t)
  BY <1>1, <1>2 DEF Known, Follows, AmendedFrom
<1>4. ASSUME NEW handles \in Seq(Nat), NEW states, NEW uuids, Named(s, handles, states, uuids),
             NEW n \in DOMAIN handles
      PROVE  /\ handles[n] < t.nextHandle /\ states[n] \in Nat
             /\ \A j \in DOMAIN t.records :
                  t.records[j].handle = handles[n] => Matched(t.records[j], states[n], uuids)
  <2>1. handles[n] \in Nat /\ handles[n] < s.nextHandle /\ states[n] \in Nat
    BY <1>4 DEF Named
  <2>2. ASSUME NEW j \in DOMAIN t.records, t.records[j].handle = handles[n]
        PROVE  Matched(t.records[j], states[n], uuids)
    <3>1. PICK i \in DOMAIN s.records : AmendedFrom(s.records[i], t.records[j])
      BY <1>1, <2>1, <2>2 DEF Follows
    <3>2. Matched(s.records[i], states[n], uuids)
      BY <1>4, <2>2, <3>1 DEF Named, AmendedFrom
    <3> QED
      BY <1>1, <2>1, <3>1, <3>2, MatchedKept
  <2> QED
    BY <1>1, <1>2, <2>1, <2>2
<1> QED
  BY <1>3, <1>4 DEF Named

-----------------------------------------------------------------------------
(* The servers from step to step.                                          *)

ServersSound == DOMAIN servers = Device /\ \A d \in Device : Sound(servers[d])

\* What a step does to the server of d.
ServerMoves(d) ==
  \/ servers'[d] = servers[d]
  \/ /\ Follows(servers[d], servers'[d])
     /\ ~handleReused' => \/ servers'[d].nextHandle = servers[d].nextHandle
                          \/ servers[d].nextHandle # LastHandle

LEMMA ManagesStep ==
  ASSUME ServersSound, handleReused \in BOOLEAN, NEW d \in Device, Manages(d)
  PROVE  /\ ServersSound'
         /\ \A e \in Device : ServerMoves(e)
         /\ handleReused' \in BOOLEAN /\ (handleReused => handleReused')
         /\ UNCHANGED <<requests, nextId, cache, toServer, toClient, idReused>>
         /\ Step
<1> DEFINE s == servers[d]
           moved == /\ DOMAIN servers' = Device
                    /\ \A e \in Device \ {d} : servers'[e] = servers[e]
                    /\ Follows(s, servers'[d])
                    /\ ~handleReused' => servers'[d].nextHandle = s.nextHandle \/ s.nextHandle # LastHandle
                    /\ handleReused' \in BOOLEAN /\ (handleReused => handleReused')
<1>1. Sound(s) /\ DOMAIN servers = Device
  BY DEF ServersSound
<1>2. ASSUME NEW class \in Class \ {DefaultClass}, Register(d, class)
      PROVE  moved
  <2>1. ServiceRecord(class) \in Record
    BY SdpServerAssumption DEF ServiceRecord, Record, Fields
  <2>2. Follows(s, AddServiceRecord(s, ServiceRecord(class)))
    BY <1>1, <2>1, AddServiceIs
  <2>3. /\ servers' = [servers EXCEPT ![d] = AddServiceRecord(s, ServiceRecord(class))]
        /\ handleReused' = (handleReused \/ s.nextHandle = LastHandle)
    BY <1>2 DEF Register
  <2> HIDE DEF s
  <2> QED
    BY <1>1, <2>2, <2>3
<1>3. ASSUME NEW i \in DOMAIN servers[d].records, Withdraw(d, i)
      PROVE  moved
  <2>1. /\ Follows(s, RemoveServiceRecord(s, s.records[i].handle))
        /\ RemoveServiceRecord(s, s.records[i].handle).nextHandle = s.nextHandle
    BY <1>1, RemoveIs
  <2>2. /\ servers' = [servers EXCEPT ![d] = RemoveServiceRecord(s, s.records[i].handle)]
        /\ handleReused' = handleReused
    BY <1>3 DEF Withdraw
  <2> HIDE DEF s
  <2> QED
    BY <1>1, <2>1, <2>2
<1>4. ASSUME NEW i \in DOMAIN s.records, NEW r \in Record, AmendedFrom(s.records[i], r),
             servers' = [servers EXCEPT ![d].records[i] = r], handleReused' = handleReused
      PROVE  moved
  <2> DEFINE t == [s EXCEPT !.records[i] = r]
  <2>1. Follows(s, t) /\ t.nextHandle = s.nextHandle
    BY <1>1, <1>4, AmendIs
  <2>2. servers' = [servers EXCEPT ![d] = t] /\ handleReused' = handleReused
    BY <1>4
  <2> HIDE DEF s, t
  <2> QED
    BY <1>1, <2>1, <2>2
<1>9. \A i \in DOMAIN s.records : s.records[i] \in Record
  BY <1>1 DEF Sound, Server
<1>10. ASSUME NEW i \in DOMAIN s.records, NEW id \in Attribute, Amend(d, i, id)
       PROVE  moved
  <2>1. /\ AddAttribute(s.records[i], id) \in Record
        /\ AmendedFrom(s.records[i], AddAttribute(s.records[i], id))
    BY <1>9, AddAttributeIs
  <2>2. /\ servers' = [servers EXCEPT ![d].records[i] = AddAttribute(s.records[i], id)]
        /\ handleReused' = handleReused
    BY <1>10 DEF Amend
  <2> HIDE DEF s, moved
  <2> QED
    BY <1>4, <2>1, <2>2
<1>11. ASSUME NEW i \in DOMAIN s.records, NEW classes \in ClassList, Reclassify(d, i, classes)
       PROVE  moved
  <2>1. /\ SetClassList(s.records[i], classes) \in Record
        /\ AmendedFrom(s.records[i], SetClassList(s.records[i], classes))
    BY <1>9, SetClassListIs, SdpDiscoveryAssumption
  <2>2. /\ servers' = [servers EXCEPT ![d].records[i] = SetClassList(s.records[i], classes)]
        /\ handleReused' = handleReused
    BY <1>11 DEF Reclassify
  <2> HIDE DEF s, moved
  <2> QED
    BY <1>4, <2>1, <2>2
<1>5. moved
  BY <1>2, <1>3, <1>10, <1>11 DEF Manages
<1>6. ServersSound'
  BY <1>5 DEF ServersSound, Follows
<1>7. \A e \in Device : ServerMoves(e)
  BY <1>5 DEF ServerMoves
<1>8. UNCHANGED <<requests, nextId, cache, toServer, toClient, idReused>> /\ Step
  BY DEF Manages, Register, Withdraw, Amend, Reclassify
<1> QED
  BY <1>5, <1>6, <1>7, <1>8

-----------------------------------------------------------------------------
(* Types.                                                                  *)

TableSound == /\ DOMAIN requests \subseteq TransactionId
              /\ IsFiniteSet(DOMAIN requests) /\ Cardinality(DOMAIN requests) <= MaxPending

CacheSound == /\ DOMAIN cache \subseteq Device
              /\ IsFiniteSet(DOMAIN cache) /\ Cardinality(DOMAIN cache) <= MaxCached
              /\ \A d \in DOMAIN cache : cache[d] \in SearchResult

\* Searches, and what they have found.
Search(m) == m.kind = "ServiceSearch" => m.uuids \in Pattern /\ m.max \in MaxCount

Found(m) == m.kind = "ServiceSearch" =>
              /\ m.handles \in Seq(Nat) /\ m.total \in Nat /\ m.uuids \in Pattern
              /\ m.states \in Seq(Nat)

MessagesSound ==
  \A d \in Device : /\ \A i \in DOMAIN toServer[d] : Search(toServer[d][i])
                    /\ \A i \in DOMAIN toClient[d] : Found(toClient[d][i])

CountersSound == nextId \in TransactionId /\ left \in 0 .. MaxSteps /\ handleReused \in BOOLEAN

TypeInv == ServersSound /\ TableSound /\ CacheSound /\ MessagesSound /\ CountersSound

\* An index map replaces, takes, or has no room.
LEMMA InsertIs ==
  ASSUME NEW map, NEW key, NEW value, NEW capacity \in Nat,
         IsFiniteSet(DOMAIN map), Cardinality(DOMAIN map) <= capacity
  PROVE  LET new == Insert(map, key, value, capacity)
         IN /\ DOMAIN new \subseteq DOMAIN map \cup {key}
            /\ IsFiniteSet(DOMAIN new) /\ Cardinality(DOMAIN new) <= capacity
            /\ \A k \in DOMAIN new : \/ k = key /\ new[k] = value
                                     \/ k \in DOMAIN map /\ new[k] = map[k]
<1> DEFINE put == Put(map, key, value)
           new == Insert(map, key, value, capacity)
<1>1. /\ DOMAIN put = DOMAIN map \cup {key}
      /\ \A k \in DOMAIN put : \/ k = key /\ put[k] = value
                               \/ k \in DOMAIN map /\ put[k] = map[k]
  BY DEF Put
<1>2. /\ Cardinality(DOMAIN map) \in Nat
      /\ IsFiniteSet(DOMAIN map \cup {key})
      /\ Cardinality(DOMAIN map \cup {key}) =
           IF key \in DOMAIN map THEN Cardinality(DOMAIN map) ELSE Cardinality(DOMAIN map) + 1
  BY FS_AddElement, FS_CardinalityType
<1>3. \/ new = map
      \/ new = put /\ (key \in DOMAIN map \/ Cardinality(DOMAIN map) < capacity)
  BY DEF Insert
<1> HIDE DEF put, new
<1>4. new = put /\ (key \in DOMAIN map \/ Cardinality(DOMAIN map) < capacity) =>
        Cardinality(DOMAIN new) <= capacity
  BY <1>1, <1>2
<1> QED
  BY <1>1, <1>2, <1>3, <1>4 DEF new

\* The bound on the steps.
LEMMA StepIs ==
  ASSUME left \in 0 .. MaxSteps, Step
  PROVE  left' \in 0 .. MaxSteps
BY SdpDiscoveryAssumption DEF Step

LEMMA RequestTypes ==
  ASSUME IndInv, TypeInv, NEW d \in Device, NEW fits \in BOOLEAN, NEW m, Asks(m), Request(d, m, fits)
  PROVE  TypeInv'
<1>1. UNCHANGED <<servers, cache, toClient, handleReused>> /\ Step
      /\ nextId' = NextTransactionId(nextId) /\ requests' = Entered(d, m.kind, fits)
  BY DEF Request
<1>2. CountersSound'
  BY <1>1, StepIs, SdpDiscoveryAssumption DEF TypeInv, CountersSound, TransactionId, NextTransactionId
<1>3. TableSound'
  <2>1. CASE requests' = requests
    BY <2>1 DEF TypeInv, TableSound
  <2>2. CASE requests' = Insert(requests, nextId, PendingRequest(d, m.kind), MaxPending)
    <3>1. /\ DOMAIN requests' \subseteq DOMAIN requests \cup {nextId}
          /\ IsFiniteSet(DOMAIN requests') /\ Cardinality(DOMAIN requests') <= MaxPending
      BY <2>2, InsertIs, SdpDiscoveryAssumption DEF TypeInv, TableSound
    <3> QED
      BY <3>1 DEF TypeInv, TableSound, CountersSound
  <2> QED
    BY <1>1, <2>1, <2>2 DEF Entered
<1>4. MessagesSound'
  <2>1. \/ toServer' = toServer
        \/ toServer' = [toServer EXCEPT ![d] = Append(toServer[d], m)]
    BY RequestCases DEF IndInv, Asks
  <2>2. Search(m)
    BY DEF Asks, Search
  <2>3. ASSUME toServer' = [toServer EXCEPT ![d] = Append(toServer[d], m)],
               NEW e \in Device, NEW i \in DOMAIN toServer'[e]
        PROVE  Search(toServer'[e][i])
    <3>1. DOMAIN toServer = Device /\ IsSequence(toServer[d])
      BY DEF IndInv, Shapes
    <3>2. CASE e = d
      <4>1. toServer'[e] = Append(toServer[d], m)
        BY <2>3, <3>1, <3>2
      <4>2. toServer'[e][i] = m \/ (i \in DOMAIN toServer[d] /\ toServer'[e][i] = toServer[d][i])
        BY <3>1, <4>1, Appended
      <4> QED
        BY <2>2, <4>2 DEF TypeInv, MessagesSound
    <3>3. CASE e # d
      BY <2>3, <3>1, <3>3 DEF TypeInv, MessagesSound
    <3> QED
      BY <3>2, <3>3
  <2> QED
    BY <1>1, <2>1, <2>3 DEF TypeInv, MessagesSound
<1> QED
  BY <1>1, <1>2, <1>3, <1>4 DEF TypeInv, ServersSound, CacheSound

\* What is taken off a channel and what stays on it.
LEMMA HeadIs ==
  ASSUME NEW q, IsSequence(q), q # <<>>
  PROVE  /\ 1 \in DOMAIN q /\ Head(q) = q[1]
         /\ \A i \in DOMAIN Tail(q) : i + 1 \in DOMAIN q /\ Tail(q)[i] = q[i + 1]
<1>1. /\ Len(q) \in Nat \ {0} /\ DOMAIN q = 1 .. Len(q) /\ Head(q) = q[1] /\ 1 \in DOMAIN q
      /\ DOMAIN Tail(q) = 1 .. Len(q) - 1
      /\ \A i \in 1 .. Len(q) - 1 : Tail(q)[i] = q[i + 1]
  BY Taken
<1> QED
  BY <1>1

LEMMA ServeTypes ==
  ASSUME IndInv, TypeInv, NEW d \in Device, Serve(d)
  PROVE  TypeInv'
<1> DEFINE m == toServer[d][1]
           answer == Response(servers[d], m)
<1>1. /\ UNCHANGED <<servers, requests, nextId, cache, handleReused, left>>
      /\ toServer[d] # <<>> /\ IsSequence(toServer[d]) /\ IsSequence(toClient[d])
      /\ DOMAIN toServer' = Device /\ DOMAIN toClient' = Device
      /\ toServer'[d] = Tail(toServer[d]) /\ toClient'[d] = Append(toClient[d], Response(servers[d], Head(toServer[d])))
      /\ \A e \in Device \ {d} : toServer'[e] = toServer[e] /\ toClient'[e] = toClient[e]
  BY DEF IndInv, Shapes, Serve
<1>2. /\ 1 \in DOMAIN toServer[d] /\ Head(toServer[d]) = m
      /\ \A i \in DOMAIN toServer'[d] : i + 1 \in DOMAIN toServer[d] /\ toServer'[d][i] = toServer[d][i + 1]
  BY <1>1, HeadIs
<1>3. Search(m) /\ m.kind \in Kind /\ Sound(servers[d])
  BY <1>2 DEF TypeInv, MessagesSound, ServersSound, IndInv, Shapes
<1> HIDE DEF m
<1>4. Found(answer)
  <2>1. CASE m.kind = "ServiceSearch"
    <3> DEFINE result == HandleServiceSearch(servers[d], m.uuids, m.max)
    <3>1. m.uuids \in Pattern /\ m.max \in Nat
      BY <1>3, <2>1, SdpDiscoveryAssumption DEF Search
    <3>2. /\ result.handles \in Seq(Nat) /\ result.total \in Nat
          /\ StatesOf(servers[d], result.handles) \in Seq(Nat)
      BY <1>3, <3>1, SearchIs
    <3>3. answer = [kind |-> "ServiceSearch", id |-> m.id, handles |-> result.handles,
                    total |-> result.total, uuids |-> m.uuids,
                    states |-> StatesOf(servers[d], result.handles)]
      BY <2>1 DEF Response, StatesOf
    <3> HIDE DEF answer, result
    <3> QED
      BY <3>1, <3>2, <3>3 DEF Found
  <2>2. CASE m.kind = "ServiceAttribute"
    <3>1. answer.kind # "ServiceSearch"
      BY <2>2 DEF Response, ErrorResponse
    <3> QED
      BY <3>1 DEF Found
  <2> QED
    BY <1>3, <2>1, <2>2 DEF Kind
<1> HIDE DEF answer
<1>5. MessagesSound'
  <2>1. \A i \in DOMAIN toServer'[d] : Search(toServer'[d][i])
    BY <1>2 DEF TypeInv, MessagesSound
  <2>2. toClient'[d] = Append(toClient[d], answer)
    BY <1>1, <1>2 DEF answer
  <2>3. \A i \in DOMAIN toClient'[d] : \/ toClient'[d][i] = answer
                                       \/ i \in DOMAIN toClient[d] /\ toClient'[d][i] = toClient[d][i]
    BY <1>1, <2>2, Appended
  <2>4. \A i \in DOMAIN toClient'[d] : Found(toClient'[d][i])
    BY <1>4, <2>3 DEF TypeInv, MessagesSound
  <2> QED
    BY <1>1, <2>1, <2>4 DEF TypeInv, MessagesSound
<1> QED
  BY <1>1, <1>5 DEF TypeInv, ServersSound, TableSound, CacheSound, CountersSound

\* What an answer does to the cache.
LEMMA CacheCases ==
  ASSUME IndInv, NEW d \in Device, ProcessResponse(d)
  PROVE  LET m == toClient[d][1]
         IN /\ toClient[d] # <<>> /\ 1 \in DOMAIN toClient[d]
            /\ \/ cache' = cache
               \/ /\ m.id \in DOMAIN requests /\ m.kind = "ServiceSearch"
                  /\ cache' = Insert(cache, requests[m.id].addr,
                                     [handles |-> m.handles, total |-> m.total, uuids |-> m.uuids, states |-> m.states],
                                     MaxCached)
<1>1. toClient[d] # <<>> /\ IsSequence(toClient[d])
  BY DEF IndInv, Shapes, ProcessResponse
<1>2. Head(toClient[d]) = toClient[d][1] /\ 1 \in DOMAIN toClient[d]
  BY <1>1, HeadIs
<1> QED
  BY <1>1, <1>2 DEF ProcessResponse

LEMMA ResponseTypes ==
  ASSUME IndInv, TypeInv, NEW d \in Device, ProcessResponse(d)
  PROVE  TypeInv'
<1> DEFINE m == toClient[d][1]
           result == [handles |-> m.handles, total |-> m.total, uuids |-> m.uuids, states |-> m.states]
<1>1. /\ UNCHANGED <<servers, nextId, toServer, handleReused, left>>
      /\ toClient[d] # <<>> /\ IsSequence(toClient[d])
      /\ DOMAIN toClient' = Device /\ toClient'[d] = Tail(toClient[d])
      /\ \A e \in Device \ {d} : toClient'[e] = toClient[e]
  BY DEF IndInv, Shapes, ProcessResponse
<1>2. /\ 1 \in DOMAIN toClient[d]
      /\ \A i \in DOMAIN toClient'[d] : i + 1 \in DOMAIN toClient[d] /\ toClient'[d][i] = toClient[d][i + 1]
  BY <1>1, HeadIs
<1>3. MessagesSound'
  BY <1>1, <1>2 DEF TypeInv, MessagesSound
<1>4. DOMAIN requests' = DOMAIN requests
  BY AnswerEffect DEF IndInv
<1>5. CacheSound'
  <2>1. CASE cache' = cache
    BY <2>1 DEF TypeInv, CacheSound
  <2>2. CASE /\ m.id \in DOMAIN requests /\ m.kind = "ServiceSearch"
             /\ cache' = Insert(cache, requests[m.id].addr, result, MaxCached)
    <3>1. requests[m.id].addr \in Device
      BY <2>2 DEF IndInv, Shapes, Entry
    <3>2. result \in SearchResult
      BY <1>2, <2>2 DEF TypeInv, MessagesSound, Found, SearchResult
    <3> HIDE DEF result, m
    <3>3. /\ DOMAIN cache' \subseteq DOMAIN cache \cup {requests[m.id].addr}
          /\ IsFiniteSet(DOMAIN cache') /\ Cardinality(DOMAIN cache') <= MaxCached
          /\ \A k \in DOMAIN cache' : \/ cache'[k] = result
                                      \/ k \in DOMAIN cache /\ cache'[k] = cache[k]
      BY <2>2, InsertIs, SdpDiscoveryAssumption DEF TypeInv, CacheSound
    <3> QED
      BY <3>1, <3>2, <3>3 DEF TypeInv, CacheSound
  <2> QED
    BY <2>1, <2>2, CacheCases
<1> QED
  BY <1>1, <1>3, <1>4, <1>5 DEF TypeInv, ServersSound, TableSound, CountersSound

LEMMA TypesKept ==
  ASSUME IndInv, TypeInv, [Next]_vars
  PROVE  TypeInv'
<1>1. CASE UNCHANGED vars
  BY <1>1 DEF vars, TypeInv, ServersSound, TableSound, CacheSound, MessagesSound, CountersSound
<1>2. ASSUME NEW d \in Device, Manages(d)
      PROVE  TypeInv'
  <2>1. /\ ServersSound' /\ handleReused' \in BOOLEAN
        /\ UNCHANGED <<requests, nextId, cache, toServer, toClient>> /\ Step
    BY <1>2, ManagesStep DEF TypeInv, CountersSound
  <2>2. left' \in 0 .. MaxSteps
    BY <2>1, StepIs DEF TypeInv, CountersSound
  <2> QED
    BY <2>1, <2>2 DEF TypeInv, TableSound, CacheSound, MessagesSound, CountersSound
<1>3. ASSUME NEW d \in Device, LinkLost(d)
      PROVE  TypeInv'
  <2>1. /\ UNCHANGED <<servers, nextId, cache, handleReused>> /\ Step
        /\ DOMAIN requests' = DOMAIN requests
        /\ DOMAIN toServer = Device /\ DOMAIN toClient = Device
        /\ toServer' = [toServer EXCEPT ![d] = <<>>] /\ toClient' = [toClient EXCEPT ![d] = <<>>]
    BY <1>3 DEF LinkLost, IndInv, Shapes
  <2>2. left' \in 0 .. MaxSteps
    BY <2>1, StepIs DEF TypeInv, CountersSound
  <2>3. DOMAIN <<>> = {}
    OBVIOUS
  <2>4. MessagesSound'
    BY <2>1, <2>3 DEF TypeInv, MessagesSound
  <2> QED
    BY <2>1, <2>2, <2>4 DEF TypeInv, ServersSound, TableSound, CacheSound, CountersSound
<1>4. ASSUME \/ \E t \in DOMAIN requests : RemoveRequest(t)
             \/ Cleanup
      PROVE  TypeInv'
  <2>1. /\ UNCHANGED <<servers, nextId, cache, toServer, toClient, handleReused>> /\ Step
        /\ DOMAIN requests' \in SUBSET DOMAIN requests
    BY <1>4 DEF RemoveRequest, Cleanup
  <2>2. left' \in 0 .. MaxSteps
    BY <2>1, StepIs DEF TypeInv, CountersSound
  <2>3. /\ IsFiniteSet(DOMAIN requests')
        /\ Cardinality(DOMAIN requests') <= Cardinality(DOMAIN requests)
        /\ Cardinality(DOMAIN requests) \in Nat /\ Cardinality(DOMAIN requests') \in Nat
    BY <2>1, FS_Subset, FS_CardinalityType DEF TypeInv, TableSound
  <2>4. TableSound'
    BY <2>1, <2>3, SdpDiscoveryAssumption DEF TypeInv, TableSound
  <2> QED
    BY <2>1, <2>2, <2>4 DEF TypeInv, ServersSound, CacheSound, MessagesSound, CountersSound
<1>5. ASSUME ClearCache PROVE TypeInv'
  <2>1. UNCHANGED <<servers, requests, nextId, toServer, toClient, handleReused>> /\ Step /\ cache' = <<>>
    BY <1>5 DEF ClearCache
  <2>2. left' \in 0 .. MaxSteps
    BY <2>1, StepIs DEF TypeInv, CountersSound
  <2>3. DOMAIN <<>> = {} /\ IsFiniteSet({}) /\ Cardinality({}) = 0
    BY FS_EmptySet
  <2>4. CacheSound'
    BY <2>1, <2>3, SdpDiscoveryAssumption DEF CacheSound
  <2> QED
    BY <2>1, <2>2, <2>4 DEF TypeInv, ServersSound, TableSound, MessagesSound, CountersSound
<1> QED
  BY <1>1, <1>2, <1>3, <1>4, <1>5, Actions, RequestTypes, ServeTypes, ResponseTypes

LEMMA TypesHold == Spec => [](IndInv /\ TypeInv)
<1>1. Init => TypeInv
  <2> SUFFICES ASSUME Init PROVE TypeInv
    OBVIOUS
  <2>1. DOMAIN <<>> = {} /\ IsFiniteSet({}) /\ Cardinality({}) = 0
    BY FS_EmptySet
  <2>2. ServersSound
    BY NewServerIs DEF Init, ServersSound
  <2>3. TableSound /\ CacheSound
    BY <2>1, SdpDiscoveryAssumption DEF Init, TableSound, CacheSound
  <2>4. MessagesSound
    BY <2>1 DEF Init, MessagesSound
  <2>5. CountersSound
    <3>1. LastTransaction \in Nat /\ LastTransaction >= 1 /\ MaxSteps \in Nat
      BY SdpDiscoveryAssumption
    <3>2. nextId = 1 /\ left = MaxSteps /\ handleReused = FALSE
      BY DEF Init
    <3>3. 1 \in TransactionId /\ MaxSteps \in 0 .. MaxSteps
      BY <3>1 DEF TransactionId
    <3> QED
      BY <3>2, <3>3 DEF CountersSound
  <2> QED
    BY <2>2, <2>3, <2>4, <2>5 DEF TypeInv
<1> QED
  BY <1>1, Invariance, TypesKept, PTL DEF Spec

\* The tables keep their types and capacities, and no two records of a database have one
\* handle, also when the handles have wrapped around.
THEOREM TypeCorrect == Spec => []TypeOK
<1>1. IndInv /\ TypeInv => TypeOK
  <2> SUFFICES ASSUME IndInv, TypeInv PROVE TypeOK
    OBVIOUS
  <2>1. ASSUME NEW d \in Device
        PROVE  /\ Len(servers[d].records) <= MaxRecords
               /\ servers[d].nextHandle \in 0 .. LastHandle
               /\ \A r \in Range(servers[d].records) :
                    r.classes \subseteq Class /\ Mandatory \subseteq r.attributes /\ r.attributes \subseteq Attribute
               /\ HandlesUnique(servers[d])
    <3>1. Sound(servers[d]) /\ servers[d].records \in Seq(Record)
      BY DEF TypeInv, ServersSound, Sound, Server
    <3>2. \A r \in Range(servers[d].records) : r \in Record
      BY <3>1 DEF Range
    <3> QED
      BY <3>1, <3>2 DEF Sound, Server, Record, Fields
  <2>2. \A t \in DOMAIN requests :
          requests[t] \in [addr : Device, kind : {"ServiceSearch", "ServiceAttribute"},
                           state : {"Pending", "Completed", "Failed"}, lost : BOOLEAN]
    BY DEF IndInv, Shapes, Entry, Kind
  <2> QED
    BY <2>1, <2>2 DEF TypeOK, TypeInv, TableSound, CacheSound, CountersSound, HandlesUnique
<1> QED
  BY <1>1, TypesHold, PTL

-----------------------------------------------------------------------------
(* Handles.                                                                *)

\* No handle is given out that a record, an answer or the cache has, and whatever has the
\* handle of a result that is on its way or in the cache is what was searched for, or was
\* given other classes since.
HandlesAreKnown == \A d \in Device : Known(servers[d])

ResultsAreNamed ==
  \A d \in Device : \A i \in DOMAIN toClient[d] :
    toClient[d][i].kind = "ServiceSearch" =>
      Named(servers[d], toClient[d][i].handles, toClient[d][i].states, toClient[d][i].uuids)

CacheIsNamed == \A d \in DOMAIN cache : Named(servers[d], cache[d].handles, cache[d].states, cache[d].uuids)

HandlesInv == ~handleReused => /\ HandlesAreKnown /\ ResultsAreNamed
                               /\ ~idReused => CacheIsNamed

\* What a search finds has been given out.
LEMMA SearchIsNamed ==
  ASSUME NEW s, Sound(s), Known(s), NEW uuids, NEW max \in Nat
  PROVE  LET handles == HandleServiceSearch(s, uuids, max).handles
         IN Named(s, handles, StatesOf(s, handles), uuids)
<1> DEFINE handles == HandleServiceSearch(s, uuids, max).handles
           states == StatesOf(s, handles)
<1>1. \A n \in DOMAIN handles :
        \E i \in DOMAIN s.records : /\ s.records[i].handle = handles[n] /\ Matches(s.records[i], uuids)
                                    /\ s.records[i].state = states[n]
  BY SearchIs
<1> HIDE DEF handles, states
<1>2. ASSUME NEW n \in DOMAIN handles
      PROVE  /\ handles[n] < s.nextHandle /\ states[n] \in Nat
             /\ \A j \in DOMAIN s.records :
                  s.records[j].handle = handles[n] => Matched(s.records[j], states[n], uuids)
  <2>1. PICK i \in DOMAIN s.records : /\ s.records[i].handle = handles[n] /\ Matches(s.records[i], uuids)
                                      /\ s.records[i].state = states[n]
    BY <1>1
  <2>2. \A j \in DOMAIN s.records : s.records[j].handle = handles[n] => j = i
    BY <2>1 DEF Sound, HandlesUnique
  <2>3. s.records[i].state \in Nat
    BY DEF Sound, Server, Record, Fields
  <2>4. Matched(s.records[i], states[n], uuids)
    BY <2>1, <2>3 DEF Matched
  <2> QED
    BY <2>1, <2>2, <2>3, <2>4 DEF Known
<1> QED
  BY <1>2 DEF Named, handles, states

\* Wherever the servers go, what was known and named stays so.
LEMMA MovesKeep ==
  ASSUME IndInv, TypeInv, HandlesInv, ~handleReused', handleReused => handleReused',
         \A d \in Device : ServerMoves(d)
  PROVE  /\ \A d \in Device : Known(servers'[d])
         /\ \A d \in Device : \A i \in DOMAIN toClient[d] :
              toClient[d][i].kind = "ServiceSearch" =>
                Named(servers'[d], toClient[d][i].handles, toClient[d][i].states, toClient[d][i].uuids)
         /\ ~idReused => \A d \in DOMAIN cache :
                           Named(servers'[d], cache[d].handles, cache[d].states, cache[d].uuids)
<1>1. ~handleReused /\ HandlesAreKnown /\ ResultsAreNamed /\ (~idReused => CacheIsNamed)
  BY DEF HandlesInv
<1>2. ASSUME NEW d \in Device
      PROVE  /\ Known(servers'[d])
             /\ \A handles, states, uuids :
                  handles \in Seq(Nat) /\ Named(servers[d], handles, states, uuids) =>
                    Named(servers'[d], handles, states, uuids)
  <2>1. Sound(servers[d]) /\ Known(servers[d]) /\ ServerMoves(d)
    BY <1>1 DEF TypeInv, ServersSound, HandlesAreKnown
  <2>2. CASE servers'[d] = servers[d]
    BY <2>1, <2>2
  <2>3. CASE /\ Follows(servers[d], servers'[d])
             /\ servers'[d].nextHandle = servers[d].nextHandle \/ servers[d].nextHandle # LastHandle
    BY <2>1, <2>3, NamedKept
  <2> QED
    BY <2>1, <2>2, <2>3 DEF ServerMoves
<1>4. ASSUME NEW d \in Device, NEW i \in DOMAIN toClient[d], toClient[d][i].kind = "ServiceSearch"
      PROVE  Named(servers'[d], toClient[d][i].handles, toClient[d][i].states, toClient[d][i].uuids)
  <2>1. toClient[d][i].handles \in Seq(Nat)
    BY <1>4 DEF TypeInv, MessagesSound, Found
  <2> QED
    BY <1>1, <1>2, <1>4, <2>1 DEF ResultsAreNamed
<1>5. ASSUME ~idReused, NEW d \in DOMAIN cache
      PROVE  Named(servers'[d], cache[d].handles, cache[d].states, cache[d].uuids)
  <2>1. d \in Device /\ cache[d].handles \in Seq(Nat)
    BY DEF TypeInv, CacheSound, SearchResult
  <2> QED
    BY <1>1, <1>2, <1>5, <2>1 DEF CacheIsNamed
<1> QED
  BY <1>2, <1>4, <1>5

LEMMA ServeHandles ==
  ASSUME IndInv, TypeInv, HandlesInv, NEW d \in Device, Serve(d)
  PROVE  HandlesInv'
<1> SUFFICES ASSUME ~handleReused'
             PROVE  (HandlesAreKnown /\ ResultsAreNamed /\ (~idReused => CacheIsNamed))'
  BY DEF HandlesInv
<1> DEFINE m == toServer[d][1]
           answer == Response(servers[d], m)
<1>1. /\ UNCHANGED <<servers, cache, handleReused, idReused>>
      /\ toServer[d] # <<>> /\ IsSequence(toServer[d]) /\ IsSequence(toClient[d])
      /\ DOMAIN toClient' = Device
      /\ toClient'[d] = Append(toClient[d], Response(servers[d], Head(toServer[d])))
      /\ \A e \in Device \ {d} : toClient'[e] = toClient[e]
  BY DEF IndInv, Shapes, Serve
<1>2. 1 \in DOMAIN toServer[d] /\ Head(toServer[d]) = m
  BY <1>1, HeadIs
<1>3. Search(m) /\ m.kind \in Kind /\ Sound(servers[d])
  BY <1>2 DEF TypeInv, MessagesSound, ServersSound, IndInv, Shapes
<1>4. HandlesAreKnown /\ ResultsAreNamed /\ (~idReused => CacheIsNamed)
  BY <1>1 DEF HandlesInv
<1> HIDE DEF m
<1>5. answer.kind = "ServiceSearch" =>
        Named(servers[d], answer.handles, answer.states, answer.uuids)
  <2>1. CASE m.kind = "ServiceSearch"
    <3> DEFINE result == HandleServiceSearch(servers[d], m.uuids, m.max)
    <3>1. m.max \in Nat
      BY <1>3, <2>1, SdpDiscoveryAssumption DEF Search
    <3>2. Named(servers[d], result.handles, StatesOf(servers[d], result.handles), m.uuids)
      BY <1>3, <1>4, <3>1, SearchIsNamed DEF HandlesAreKnown
    <3>3. answer = [kind |-> "ServiceSearch", id |-> m.id, handles |-> result.handles,
                    total |-> result.total, uuids |-> m.uuids,
                    states |-> StatesOf(servers[d], result.handles)]
      BY <2>1 DEF Response, StatesOf
    <3> HIDE DEF answer, result
    <3> QED
      BY <3>2, <3>3
  <2>2. CASE m.kind = "ServiceAttribute"
    BY <2>2 DEF Response, ErrorResponse
  <2> QED
    BY <1>3, <2>1, <2>2 DEF Kind
<1> HIDE DEF answer
<1>6. \A i \in DOMAIN toClient'[d] : \/ toClient'[d][i] = answer
                                     \/ i \in DOMAIN toClient[d] /\ toClient'[d][i] = toClient[d][i]
  BY <1>1, <1>2, Appended DEF answer
<1>7. ResultsAreNamed'
  BY <1>1, <1>4, <1>5, <1>6 DEF ResultsAreNamed
<1> QED
  BY <1>1, <1>4, <1>7 DEF HandlesAreKnown, CacheIsNamed

\* The entry that an answer is matched with is of the device it comes from.
LEMMA ResponseHandles ==
  ASSUME IndInv, TypeInv, HandlesInv, NEW d \in Device, ProcessResponse(d)
  PROVE  HandlesInv'
<1> SUFFICES ASSUME ~handleReused'
             PROVE  (HandlesAreKnown /\ ResultsAreNamed /\ (~idReused => CacheIsNamed))'
  BY DEF HandlesInv
<1> DEFINE m == toClient[d][1]
           result == [handles |-> m.handles, total |-> m.total, uuids |-> m.uuids, states |-> m.states]
<1>1. /\ UNCHANGED <<servers, handleReused, idReused>>
      /\ toClient[d] # <<>> /\ IsSequence(toClient[d])
      /\ DOMAIN toClient' = Device /\ toClient'[d] = Tail(toClient[d])
      /\ \A e \in Device \ {d} : toClient'[e] = toClient[e]
  BY DEF IndInv, Shapes, ProcessResponse
<1>2. /\ 1 \in DOMAIN toClient[d]
      /\ \A i \in DOMAIN toClient'[d] : i + 1 \in DOMAIN toClient[d] /\ toClient'[d][i] = toClient[d][i + 1]
  BY <1>1, HeadIs
<1>3. HandlesAreKnown /\ ResultsAreNamed /\ (~idReused => CacheIsNamed)
  BY <1>1 DEF HandlesInv
<1>4. ResultsAreNamed'
  BY <1>1, <1>2, <1>3 DEF ResultsAreNamed
<1>5. ASSUME ~idReused' PROVE CacheIsNamed'
  <2>1. CacheIsNamed /\ MessagesBelong
    BY <1>1, <1>3, <1>5 DEF IndInv
  <2>2. CASE cache' = cache
    BY <1>1, <2>1, <2>2 DEF CacheIsNamed
  <2>3. CASE /\ m.id \in DOMAIN requests /\ m.kind = "ServiceSearch"
             /\ cache' = Insert(cache, requests[m.id].addr, result, MaxCached)
    <3>1. requests[m.id].addr = d
      BY <1>2, <2>1, <2>3 DEF MessagesBelong, Own
    <3>2. Named(servers[d], m.handles, m.states, m.uuids)
      BY <1>2, <1>3, <2>3 DEF ResultsAreNamed
    <3> HIDE DEF m
    <3>3. result.handles = m.handles /\ result.uuids = m.uuids /\ result.states = m.states
      OBVIOUS
    <3> HIDE DEF result
    <3>4. \A k \in DOMAIN cache' : \/ k = d /\ cache'[k] = result
                                   \/ k \in DOMAIN cache /\ cache'[k] = cache[k]
      BY <2>3, <3>1, InsertIs, SdpDiscoveryAssumption DEF TypeInv, CacheSound
    <3> QED
      BY <1>1, <2>1, <3>2, <3>3, <3>4 DEF CacheIsNamed
  <2> QED
    BY <2>2, <2>3, CacheCases
<1> QED
  BY <1>1, <1>3, <1>4, <1>5 DEF HandlesAreKnown

LEMMA HandlesKept ==
  ASSUME IndInv, TypeInv, HandlesInv, [Next]_vars
  PROVE  HandlesInv'
<1>1. CASE UNCHANGED vars
  BY <1>1 DEF vars, HandlesInv, HandlesAreKnown, ResultsAreNamed, CacheIsNamed
<1>2. ASSUME NEW d \in Device, Manages(d)
      PROVE  HandlesInv'
  <2>1. /\ \A e \in Device : ServerMoves(e)
        /\ handleReused => handleReused'
        /\ UNCHANGED <<cache, toClient, idReused>>
    BY <1>2, ManagesStep DEF TypeInv, CountersSound
  <2>2. ASSUME ~handleReused'
        PROVE  /\ \A e \in Device : Known(servers'[e])
               /\ \A e \in Device : \A i \in DOMAIN toClient[e] :
                    toClient[e][i].kind = "ServiceSearch" =>
                      Named(servers'[e], toClient[e][i].handles, toClient[e][i].states, toClient[e][i].uuids)
               /\ ~idReused => \A e \in DOMAIN cache :
                                 Named(servers'[e], cache[e].handles, cache[e].states, cache[e].uuids)
    BY <2>1, <2>2, MovesKeep
  <2> QED
    BY <2>1, <2>2 DEF HandlesInv, HandlesAreKnown, ResultsAreNamed, CacheIsNamed
<1>3. ASSUME NEW d \in Device, NEW fits \in BOOLEAN, NEW m, Request(d, m, fits)
      PROVE  HandlesInv'
  <2>1. UNCHANGED <<servers, cache, toClient, handleReused>> /\ (idReused => idReused')
    BY <1>3 DEF Request
  <2> QED
    BY <2>1 DEF HandlesInv, HandlesAreKnown, ResultsAreNamed, CacheIsNamed
<1>4. ASSUME NEW d \in Device, LinkLost(d)
      PROVE  HandlesInv'
  <2>1. /\ UNCHANGED <<servers, cache, handleReused, idReused>>
        /\ DOMAIN toClient = Device /\ toClient' = [toClient EXCEPT ![d] = <<>>]
    BY <1>4 DEF LinkLost, IndInv, Shapes
  <2>2. DOMAIN <<>> = {}
    OBVIOUS
  <2> QED
    BY <2>1, <2>2 DEF HandlesInv, HandlesAreKnown, ResultsAreNamed, CacheIsNamed
<1>5. ASSUME \/ \E t \in DOMAIN requests : RemoveRequest(t)
             \/ Cleanup
      PROVE  HandlesInv'
  <2>1. UNCHANGED <<servers, cache, toClient, handleReused, idReused>>
    BY <1>5 DEF RemoveRequest, Cleanup
  <2> QED
    BY <2>1 DEF HandlesInv, HandlesAreKnown, ResultsAreNamed, CacheIsNamed
<1>6. ASSUME ClearCache PROVE HandlesInv'
  <2>1. UNCHANGED <<servers, toClient, handleReused, idReused>> /\ cache' = <<>>
    BY <1>6 DEF ClearCache
  <2>2. DOMAIN <<>> = {}
    OBVIOUS
  <2> QED
    BY <2>1, <2>2 DEF HandlesInv, HandlesAreKnown, ResultsAreNamed, CacheIsNamed
<1> QED
  BY <1>1, <1>2, <1>3, <1>4, <1>5, <1>6, Actions, ServeHandles, ResponseHandles

\* However records come and go or are amended, and answers are delayed, a handle in the
\* cache is that of a service that was searched for, or of none any more, until the class
\* list of its record is replaced.
THEOREM CacheNamesServices == Spec => []CachedHandlesMatch
<1>1. Init => HandlesInv
  <2> SUFFICES ASSUME Init PROVE HandlesInv
    OBVIOUS
  <2>1. DOMAIN <<>> = {}
    OBVIOUS
  <2>2. HandlesAreKnown
    BY NewServerIs DEF Init, HandlesAreKnown, Known
  <2>3. ResultsAreNamed /\ CacheIsNamed
    BY <2>1 DEF Init, ResultsAreNamed, CacheIsNamed
  <2> QED
    BY <2>2, <2>3 DEF HandlesInv
<1>2. TypeInv /\ HandlesInv => CachedHandlesMatch
  <2> SUFFICES ASSUME TypeInv, HandlesInv, ~idReused, ~handleReused, NEW d \in DOMAIN cache,
                      NEW n \in DOMAIN cache[d].handles, NEW r \in Range(servers[d].records),
                      r.handle = cache[d].handles[n]
               PROVE  Matches(r, cache[d].uuids) \/ cache[d].states[n] < r.listedAt
    BY DEF CachedHandlesMatch
  <2>1. PICK i \in DOMAIN servers[d].records : servers[d].records[i] = r
    BY DEF Range
  <2> QED
    BY <2>1 DEF HandlesInv, CacheIsNamed, Named, Matched
<1> QED
  BY <1>1, <1>2, TypesHold, HandlesKept, PTL DEF Spec

-----------------------------------------------------------------------------
(* The combined answer.                                                    *)

LEMMA PrefixIs ==
  ASSUME NEW T, NEW q \in Seq(T), NEW n \in Nat
  PROVE  /\ IsPrefix(FirstOf(q, n), q)
         /\ n >= Len(q) => FirstOf(q, n) = q
<1> DEFINE r == FirstOf(q, n)
<1>1. /\ r \in Seq(T) /\ Len(r) = IF n < Len(q) THEN n ELSE Len(q)
      /\ \A i \in DOMAIN r : i \in DOMAIN q /\ r[i] = q[i]
  BY FirstOfIs
<1>2. r = SubSeq(q, 1, Len(r))
  BY <1>1 DEF FirstOf
<1> HIDE DEF r
<1>3. Len(r) \in Nat /\ Len(q) \in Nat /\ Len(r) <= Len(q) /\ (n >= Len(q) => Len(r) = Len(q))
  BY <1>1
<1>4. SubSeq(r, 1, Len(r)) = r /\ SubSeq(q, 1, Len(q)) = q
  BY <1>1
<1>5. IsPrefix(r, q)
  BY <1>2, <1>3, <1>4 DEF IsPrefix
<1>6. n >= Len(q) => r = q
  BY <1>2, <1>3, <1>4
<1> QED
  BY <1>5, <1>6 DEF r

\* What one more record adds: nothing if the octets are used up; its list, and octets
\* are left or just used up; or the beginning of its list, and none are left.
NextIs(T, l, w, max, new) ==
  /\ new \in Seq(Seq(T)) /\ Len(FlattenSeq(new)) <= max
  /\ \/ new = l /\ Len(FlattenSeq(l)) = max
     \/ \E cut : /\ new = Append(l, cut) /\ IsPrefix(cut, w)
                 /\ cut = w \/ Len(FlattenSeq(new)) = max

LEMMA WithNextIs ==
  ASSUME NEW T, NEW l, l \in Seq(Seq(T)), NEW w, w \in Seq(T),
         NEW max \in Nat, Len(FlattenSeq(l)) <= max
  PROVE  NextIs(T, l, w, max, WithNext(l, w, max))
<1> DEFINE taken == Len(FlattenSeq(l))
           cut == FirstOf(w, max - taken)
<1>1. FlattenSeq(l) \in Seq(T)
  <2>1. <<>> \in Seq(T)
    OBVIOUS
  <2> QED
    BY <2>1, FlattenAppend
<1>2. taken \in Nat /\ taken <= max
  BY <1>1
<1>3. CASE taken = max
  BY <1>2, <1>3 DEF WithNext, NextIs
<1>4. CASE taken # max
  <2>1. max - taken \in Nat /\ Len(w) \in Nat /\ ~(taken >= max)
    BY <1>2, <1>4
  <2>2. WithNext(l, w, max) = Append(l, cut)
    BY <2>1 DEF WithNext
  <2>3. /\ cut \in Seq(T) /\ Len(cut) = IF max - taken < Len(w) THEN max - taken ELSE Len(w)
        /\ IsPrefix(cut, w)
        /\ max - taken >= Len(w) => cut = w
    BY <2>1, FirstOfIs, PrefixIs
  <2> HIDE DEF cut
  <2>4. Append(l, cut) \in Seq(Seq(T))
    BY <2>3
  <2>5. FlattenSeq(Append(l, cut)) = FlattenSeq(l) \o cut
    BY <2>3, FlattenAppend
  <2>6. Len(FlattenSeq(Append(l, cut))) = taken + Len(cut)
    <3>1. FlattenSeq(l) \in Seq(T) /\ cut \in Seq(T)
      BY <1>1, <2>3
    <3>2. Len(FlattenSeq(l) \o cut) = Len(FlattenSeq(l)) + Len(cut)
      BY ONLY <3>1
    <3> QED
      BY <2>5, <3>2
  <2> HIDE DEF taken
  <2>7. /\ taken + Len(cut) <= max
        /\ cut = w \/ taken + Len(cut) = max
    BY <1>2, <2>1, <2>3
  <2> QED
    BY <2>2, <2>3, <2>4, <2>6, <2>7 DEF NextIs, taken
<1> QED
  BY <1>3, <1>4

\* What the record of h has of the attributes asked for is a list of octets.
LEMMA ServiceAttributesIs ==
  ASSUME NEW s, NEW h, Position(s, h) # {}, NEW ids, ids \in Seq(Attribute)
  PROVE  ServiceAttributes(s, h, ids) \in Seq(Attribute)
<1> DEFINE r == s.records[CHOOSE i \in Position(s, h) : TRUE]
           I == {i \in DOMAIN ids : ids[i] \in r.attributes}
           held == Selected(ids, I)
           Octets(n) == FlattenSeq([i \in 1 .. n |-> AttributeOctets(held[i])])
           fitting == {n \in 0 .. Len(held) : Len(Octets(n)) <= MaxResponse}
           most == CHOOSE n \in fitting : n + 1 \notin fitting
<1>1. held \in Seq(Attribute)
  <2>1. I \in SUBSET DOMAIN ids
    OBVIOUS
  <2> HIDE DEF I
  <2> QED
    BY <2>1, SelectedIs
<1>2. ServiceAttributes(s, h, ids) = Octets(most)
  BY DEF ServiceAttributes
<1> HIDE DEF held
<1>3. ASSUME NEW n \in 0 .. Len(held) PROVE Octets(n) \in Seq(Attribute)
  <2> DEFINE lists == [i \in 1 .. n |-> AttributeOctets(held[i])]
  <2>1. \A id \in Attribute : AttributeOctets(id) \in Seq(Attribute)
    <3> TAKE id \in Attribute
    <3>1. AttributeSize[id] + 4 \in Nat
      BY SdpServerAssumption
    <3>2. AttributeOctets(id) \in [1 .. AttributeSize[id] + 4 -> Attribute]
      BY DEF AttributeOctets
    <3> QED
      BY <3>1, <3>2, SeqDef
  <2>2. n \in Nat /\ lists \in [1 .. n -> Seq(Attribute)]
    BY <1>1, <2>1
  <2> HIDE DEF lists
  <2>3. lists \in Seq(Seq(Attribute))
    BY <2>2, SeqDef
  <2>4. <<>> \in Seq(Attribute)
    OBVIOUS
  <2>5. FlattenSeq(lists) \in Seq(Attribute)
    BY ONLY <2>3, <2>4, FlattenAppend
  <2> QED
    BY <2>5 DEF lists
<1>4. Octets(0) = <<>>
  <2> DEFINE lists == [i \in 1 .. 0 |-> AttributeOctets(held[i])]
  <2>1. Len(lists) = 0 /\ lists = <<>>
    OBVIOUS
  <2> HIDE DEF lists
  <2>2. FlattenSeq(lists) = <<>>
    BY <2>1, FlattenEmpty
  <2> QED
    BY <2>2 DEF lists
<1>5. 0 \in fitting /\ fitting \in SUBSET (0 .. Len(held)) /\ Len(held) \in Nat
  BY <1>1, <1>4, SdpServerAssumption
<1> HIDE DEF Octets
<1>6. most \in fitting
  <2> HIDE DEF fitting
  <2> DEFINE Beyond == {n \in 0 .. Len(held) + 1 : n \notin fitting}
  <2>1. Beyond \in SUBSET Nat /\ Len(held) + 1 \in Beyond
    BY <1>5
  <2>2. PICK x \in Beyond : \A y \in Beyond : x <= y
    <3> HIDE DEF Beyond
    <3> QED
      BY <2>1, LeastIs
  <2>3. x # 0 /\ x - 1 \in 0 .. Len(held) + 1 /\ x - 1 \notin Beyond /\ x - 1 + 1 = x
    BY <1>5, <2>2
  <2>4. x - 1 \in fitting /\ x - 1 + 1 \notin fitting
    BY <2>3, <2>2
  <2> QED
    BY ONLY <2>4
<1> QED
  BY <1>2, <1>3, <1>5, <1>6

\* What n records with the lists W have been answered with.
CutAt(T, W, max, n, l) ==
  /\ l \in Seq(Seq(T)) /\ Len(FlattenSeq(l)) <= max
  /\ Len(l) <= n
  /\ \A i \in 1 .. Len(l) : IsPrefix(l[i], W[i]) /\ (i < Len(l) => l[i] = W[i])
  /\ \/ Len(FlattenSeq(l)) = max
     \/ Len(l) = n /\ \A i \in 1 .. Len(l) : l[i] = W[i]

LEMMA CutKept ==
  ASSUME NEW T, NEW W, NEW max \in Nat, NEW n \in Nat \ {0}, W[n] \in Seq(T),
         NEW l, CutAt(T, W, max, n - 1, l)
  PROVE  CutAt(T, W, max, n, WithNext(l, W[n], max))
<1> DEFINE new == WithNext(l, W[n], max)
<1>1. /\ l \in Seq(Seq(T)) /\ Len(FlattenSeq(l)) <= max /\ Len(l) <= n - 1
      /\ \A i \in 1 .. Len(l) : IsPrefix(l[i], W[i]) /\ (i < Len(l) => l[i] = W[i])
      /\ \/ Len(FlattenSeq(l)) = max
         \/ Len(l) = n - 1 /\ \A i \in 1 .. Len(l) : l[i] = W[i]
  BY DEF CutAt
<1>2. /\ new \in Seq(Seq(T)) /\ Len(FlattenSeq(new)) <= max
      /\ \/ new = l /\ Len(FlattenSeq(l)) = max
         \/ \E cut : /\ new = Append(l, cut) /\ IsPrefix(cut, W[n])
                     /\ cut = W[n] \/ Len(FlattenSeq(new)) = max
  <2>1. NextIs(T, l, W[n], max, new)
    BY <1>1, WithNextIs
  <2> QED
    BY <2>1 DEF NextIs
<1> HIDE DEF new
<1>3. CASE Len(FlattenSeq(l)) = max
  \* Nothing more is taken, or nothing is left to take.
  <2>1. CASE new = l
    <3>1. Len(l) \in Nat /\ Len(l) <= n
      BY <1>1
    <3>2. CutAt(T, W, max, n, l)
      BY <1>1, <1>3, <3>1 DEF CutAt
    <3> QED
      BY <2>1, <3>2 DEF new
  <2>2. new = l
    BY <1>1, <1>3 DEF new, WithNext
  <2> QED
    BY <2>1, <2>2
<1>4. CASE Len(FlattenSeq(l)) # max
  <2>1. /\ Len(l) = n - 1 /\ Len(l) \in Nat /\ Len(l) + 1 = n
        /\ \A i \in 1 .. Len(l) : l[i] = W[i]
    BY <1>1, <1>4
  <2>2. PICK cut : /\ new = Append(l, cut) /\ IsPrefix(cut, W[n])
                   /\ cut = W[n] \/ Len(FlattenSeq(new)) = max
    BY <1>2, <1>4
  <2>3. /\ Len(new) = n /\ new[n] = cut
        /\ \A i \in 1 .. n : i # n => i \in 1 .. Len(l) /\ new[i] = l[i]
    BY <1>1, <2>1, <2>2
  <2>4. \A i \in 1 .. n : IsPrefix(new[i], W[i]) /\ (i < n => new[i] = W[i])
    <3> TAKE i \in 1 .. n
    <3>1. CASE i = n
      BY <2>2, <2>3, <3>1
    <3>2. CASE i # n
      BY <1>1, <2>1, <2>3, <3>2
    <3> QED
      BY <3>1, <3>2
  <2>5. \/ Len(FlattenSeq(new)) = max
        \/ \A i \in 1 .. n : new[i] = W[i]
    <3>1. CASE cut = W[n]
      BY <2>1, <2>3, <3>1
    <3> QED
      BY <2>2, <3>1
  <2>6. n <= n /\ CutAt(T, W, max, n, new)
    <3>1. n <= n
      OBVIOUS
    <3> QED
      BY <1>2, <2>3, <2>4, <2>5, <3>1 DEF CutAt
  <2> QED
    BY <2>6 DEF new
<1> QED
  BY <1>3, <1>4

\* The answers after each of the N records.
Answers(W, N, max, g) ==
  g = [n \in 0 .. N |-> IF n = 0 THEN <<>> ELSE WithNext(g[n - 1], W[n], max)]

LEMMA AnswersAreCut ==
  ASSUME NEW T, NEW N, N \in Nat, NEW W, W \in [1 .. N -> Seq(T)], NEW max \in Nat,
         NEW g, Answers(W, N, max, g)
  PROVE  CutAt(T, W, max, N, g[N])
<1> DEFINE S == {n \in 0 .. N : CutAt(T, W, max, n, g[n])}
<1>1. g[0] = <<>> /\ \A n \in 1 .. N : g[n] = WithNext(g[n - 1], W[n], max)
  <2>1. 0 \in 0 .. N /\ \A n \in 1 .. N : n \in 0 .. N /\ n # 0
    OBVIOUS
  <2> QED
    BY ONLY <2>1, Answers(W, N, max, g) DEF Answers
<1>2. 0 \in S
  <2>1. <<>> \in Seq(Seq(T)) /\ Len(<<>>) = 0 /\ FlattenSeq(<<>>) = <<>>
    BY FlattenEmpty
  <2>2. CutAt(T, W, max, 0, <<>>)
    BY <2>1 DEF CutAt
  <2> QED
    BY <1>1, <2>2
<1>3. ASSUME NEW n \in 1 .. N, n - 1 \in S PROVE n \in S
  <2>1. n \in Nat \ {0} /\ n \in 0 .. N /\ W[n] \in Seq(T)
    OBVIOUS
  <2>2. CutAt(T, W, max, n - 1, g[n - 1])
    BY <1>3
  <2>3. CutAt(T, W, max, n, g[n])
    BY <1>1, <2>1, <2>2, CutKept
  <2> QED
    BY <2>1, <2>3
<1> HIDE DEF S
<1>4. \A n \in 0 .. N : n \in S
  BY ONLY <1>2, <1>3, Induction, N \in Nat
<1>5. N \in S
  BY <1>4
<1> QED
  BY <1>5 DEF S

LEMMA AnswersExist ==
  ASSUME NEW T, NEW N, N \in Nat, NEW W, W \in [1 .. N -> Seq(T)], NEW max, max \in Nat
  PROVE  \E g : Answers(W, N, max, g)
<1>1. PICK V : V = {l \in Seq(Seq(T)) : Len(FlattenSeq(l)) <= max}
  OBVIOUS
<1>2. PICK v : v \in V /\ v = <<>>
  <2>1. <<>> \in Seq(Seq(T)) /\ Len(<<>>) = 0 /\ FlattenSeq(<<>>) = <<>>
    BY FlattenEmpty
  <2>2. <<>> \in V
    BY <1>1, <2>1
  <2> QED
    BY ONLY <2>2
<1>3. PICK F : /\ F \in [1 .. N -> [V -> V]]
               /\ \A n \in 1 .. N : \A l \in V : F[n][l] = WithNext(l, W[n], max)
  <2> DEFINE F == [n \in 1 .. N |-> [l \in V |-> WithNext(l, W[n], max)]]
  <2>1. \A n \in 1 .. N : \A l \in V : WithNext(l, W[n], max) \in V
    <3> TAKE n \in 1 .. N
    <3> TAKE l \in V
    <3>1. l \in Seq(Seq(T)) /\ W[n] \in Seq(T) /\ Len(FlattenSeq(l)) <= max
      BY <1>1
    <3>2. NextIs(T, l, W[n], max, WithNext(l, W[n], max))
      BY <3>1, WithNextIs
    <3> QED
      BY <1>1, <3>2 DEF NextIs
  <2>2. F \in [1 .. N -> [V -> V]]
    BY ONLY <2>1
  <2>3. \A n \in 1 .. N : \A l \in V : F[n][l] = WithNext(l, W[n], max)
    OBVIOUS
  <2> HIDE DEF F
  <2> QED
    BY ONLY <2>2, <2>3
<1>4. PICK g : g \in [0 .. N -> V] /\ g[0] = v /\ \A n \in 1 .. N : g[n] = F[n][g[n - 1]]
  <2>1. v \in V /\ F \in [1 .. N -> [V -> V]] /\ N \in Nat
    BY <1>2, <1>3
  <2> QED
    BY ONLY <2>1, Recursion
<1>5. \A n \in 1 .. N : n - 1 \in 0 .. N
  OBVIOUS
<1>6. \A n \in 1 .. N : g[n] = WithNext(g[n - 1], W[n], max)
  BY ONLY <1>3, <1>4, <1>5
<1>7. \A n \in 0 .. N : n = 0 \/ n \in 1 .. N
  OBVIOUS
<1>8. \A n \in 0 .. N : g[n] = IF n = 0 THEN <<>> ELSE WithNext(g[n - 1], W[n], max)
  BY ONLY <1>2, <1>4, <1>6, <1>7
<1>9. g = [n \in 0 .. N |-> IF n = 0 THEN <<>> ELSE WithNext(g[n - 1], W[n], max)]
  BY ONLY <1>4, <1>8
<1> QED
  BY ONLY <1>9 DEF Answers

\* CombinedAnswerFits, of one server and one request.
Fits(s, uuids, ids, max) ==
  LET lists == HandleServiceSearchAttribute(s, uuids, ids, max)
      found == SearchServices(s, uuids).handles
  IN /\ Len(FlattenSeq(lists)) <= max
     /\ \A i \in DOMAIN lists :
          LET whole == ServiceAttributes(s, found[i], ids)
          IN /\ IsPrefix(lists[i], whole)
             /\ i < Len(lists) => lists[i] = whole

LEMMA CombinedIs ==
  ASSUME NEW s \in Server, NEW uuids, NEW ids, ids \in Seq(Attribute), NEW max, max \in Nat
  PROVE  Fits(s, uuids, ids, max)
<1> DEFINE found == SearchServices(s, uuids).handles
<1>n. PICK N : N = Len(found)
  OBVIOUS
<1>1. /\ N \in Nat /\ DOMAIN found = 1 .. N
      /\ \A n \in 1 .. N : \E i \in DOMAIN s.records : s.records[i].handle = found[n]
  <2>1. /\ found \in Seq(Nat)
        /\ \A n \in DOMAIN found : \E i \in DOMAIN s.records : s.records[i].handle = found[n]
    BY SearchServicesIs
  <2> HIDE DEF found
  <2> QED
    BY <2>1, <1>n
<1> DEFINE W == [n \in 1 .. N |-> ServiceAttributes(s, found[n], ids)]
           g == CHOOSE h : h = [n \in 0 .. Len(found) |->
                  IF n = 0 THEN <<>>
                  ELSE WithNext(h[n - 1], ServiceAttributes(s, found[n], ids), max)]
<1>2. HandleServiceSearchAttribute(s, uuids, ids, max) = g[N]
  BY <1>n DEF HandleServiceSearchAttribute
<1> HIDE DEF found
<1>3. W \in [1 .. N -> Seq(Attribute)]
  <2>1. ASSUME NEW n \in 1 .. N PROVE ServiceAttributes(s, found[n], ids) \in Seq(Attribute)
    <3>1. Position(s, found[n]) # {}
      BY <1>1 DEF Position
    <3> QED
      BY <3>1, ServiceAttributesIs
  <2> QED
    BY <2>1
<1>4. \A h : Answers(W, N, max, h) <=>
        h = [n \in 0 .. Len(found) |->
               IF n = 0 THEN <<>>
               ELSE WithNext(h[n - 1], ServiceAttributes(s, found[n], ids), max)]
  <2> TAKE h
  <2>1. \A n \in 0 .. N : n # 0 => n \in 1 .. N
    BY <1>1
  <2>2. \A n \in 0 .. N :
          (IF n = 0 THEN <<>> ELSE WithNext(h[n - 1], W[n], max))
          = (IF n = 0 THEN <<>> ELSE WithNext(h[n - 1], ServiceAttributes(s, found[n], ids), max))
    BY <2>1
  <2> QED
    BY <1>n, <2>2 DEF Answers
<1> HIDE DEF W
<1>5. Answers(W, N, max, g)
  <2>1. \E h : Answers(W, N, max, h)
    BY <1>1, <1>3, AnswersExist
  <2> QED
    BY <1>4, <2>1
<1> HIDE DEF g
<1>6. CutAt(Attribute, W, max, N, g[N])
  BY <1>1, <1>3, <1>5, AnswersAreCut
<1>7. PICK lists : lists = g[N]
  OBVIOUS
<1>8. /\ lists \in Seq(Seq(Attribute)) /\ Len(FlattenSeq(lists)) <= max /\ Len(lists) <= N
      /\ \A i \in 1 .. Len(lists) : IsPrefix(lists[i], W[i]) /\ (i < Len(lists) => lists[i] = W[i])
  BY <1>6, <1>7 DEF CutAt
<1>9. ASSUME NEW i \in DOMAIN lists
      PROVE  /\ IsPrefix(lists[i], ServiceAttributes(s, found[i], ids))
             /\ i < Len(lists) => lists[i] = ServiceAttributes(s, found[i], ids)
  <2>1. i \in 1 .. Len(lists) /\ i \in 1 .. N
    BY <1>1, <1>8
  <2>2. W[i] = ServiceAttributes(s, found[i], ids)
    BY <2>1 DEF W
  <2> QED
    BY <1>8, <2>1, <2>2
<1> QED
  BY <1>2, <1>7, <1>8, <1>9 DEF found, Fits

\* The combined answer of any server to any request stays within the octets asked for,
\* and only its last list is cut (CombinedAnswerFits), whatever has been registered,
\* amended and withdrawn.
THEOREM CombinedAnswersFit == Spec => []CombinedAnswerFits
<1>1. TypeInv => CombinedAnswerFits
  <2> SUFFICES ASSUME TypeInv,
                      NEW d \in Device, NEW uuids \in Pattern, NEW ids \in IdList, NEW max \in MaxBytes
               PROVE  Fits(servers[d], uuids, ids, max)
    BY DEF CombinedAnswerFits, Fits
  <2>1. servers[d] \in Server /\ ids \in Seq(Attribute) /\ max \in Nat
    BY SdpDiscoveryAssumption DEF TypeInv, ServersSound, Sound
  <2> QED
    BY <2>1, CombinedIs
<1> QED
  BY <1>1, TypesHold, PTL
=============================================================================
