------------------------- MODULE L2capSignalingProofs -------------------------
(***************************************************************************)
(* Proofs about L2capSignaling: its types and capacities, that no local    *)
(* cid is given twice, that both ends agree on the channels, that every    *)
(* request a peer holds is pending, and that an answer touches its own     *)
(* channel only; for any handles, cids and sizes of the tables.            *)
(*                                                                         *)
(* All but the types hold while the counters have met no pending request,  *)
(* and for peers whose answers are final: a "connection pending" closes    *)
(* the channel and forgets the request it is about.                        *)
(***************************************************************************)
EXTENDS L2capSignaling, SequenceTheorems, FiniteSetTheorems, WellFoundedInduction, TLAPS

\* The request r is pending as entry i.
PendingAs(r, i) == /\ pending[i].identifier = r.identifier
                   /\ pending[i].code = r.code
                   /\ pending[i].local_cid = r.local_cid

\* What the peers were asked and what is pending.
Requests ==
  /\ \A r \in asked : \E i \in DOMAIN pending : PendingAs(r, i)
  /\ \A i, j \in DOMAIN pending : pending[i].identifier = pending[j].identifier => i = j
  /\ \A r, s \in asked : r.identifier = s.identifier => r = s
  /\ lost = {} => IsFiniteSet(asked) /\ Cardinality(asked) = Len(pending)

\* A request names a channel of the link it was sent on.
HandlesMatch ==
  \A r \in asked : \A i \in DOMAIN channels :
    channels[i].local_cid = r.local_cid => channels[i].conn_handle = r.handle

\* A channel that is being connected is in the table, and has no remote cid yet; it
\* is being connected once.
ConnectingAreHere ==
  \A r \in asked :
    r.code = "Connection" =>
      \E i \in DOMAIN channels :
        channels[i].local_cid = r.local_cid /\ channels[i].remote_cid = NoCid

ConnectingOnce ==
  \A r, s \in asked :
    r.code = "Connection" /\ s.code = "Connection" /\ r.local_cid = s.local_cid => r = s

\* A channel that was configured or disconnected has a remote cid.
RemotesAreKnown ==
  \A i \in DOMAIN channels, j \in DOMAIN pending :
    pending[j].code # "Connection" /\ pending[j].local_cid = channels[i].local_cid
      => channels[i].remote_cid # NoCid

RequestsNameChannels ==
  HandlesMatch /\ ConnectingAreHere /\ ConnectingOnce /\ RemotesAreKnown

\* A channel of a peer is known by its handle and its remote cid.
PeersAreKnown ==
  \A p, q \in peers : p.handle = q.handle /\ p.remote = q.remote => p = q

Ends ==
  /\ \A p \in peers : \E i \in DOMAIN channels : Joined(i, p)
  /\ \A i \in DOMAIN channels :
       channels[i].remote_cid # NoCid /\ channels[i].conn_handle \notin lost
         => \E p \in peers : Joined(i, p)

Undisturbed == Requests /\ RequestsNameChannels /\ PeersAreKnown /\ Ends

IndInv == TypeOK /\ (~reused => Undisturbed)

-----------------------------------------------------------------------------
(* The parts of the type invariant.                                        *)

ChannelsType ==
  /\ channels \in Seq(Channel) /\ Len(channels) <= MaxChannels
  /\ \A i, j \in DOMAIN channels :
       channels[i].local_cid = channels[j].local_cid => i = j

Pending == [identifier : Identifier, local_cid : LocalCid, code : Code]
Asked == [handle : Handle, identifier : Identifier, code : Code, local_cid : LocalCid]

RequestsType == /\ pending \in Seq(Pending) /\ Len(pending) <= MaxPending
                /\ nextId \in Identifier
                /\ asked \subseteq Asked

PeersType ==
  /\ peers \subseteq [handle : Handle, remote : RemoteCid, local : LocalCid,
                      configured : BOOLEAN]
  /\ lost \subseteq Handle

-----------------------------------------------------------------------------
(* Least numbers, and counting round.                                      *)

Precedes == {ss \in Nat \X Nat : ss[1] < ss[2]}

\* A set of numbers has a first one.
LEMMA FirstIs ==
  ASSUME NEW S \in SUBSET Nat, S # {}
  PROVE  First(S) \in S /\ \A j \in S : First(S) <= j
<1>1. OpToRel(<, Nat) = Precedes
  BY Zenon DEF OpToRel, Precedes
<1>2. IsWellFoundedOn(Precedes, Nat)
  BY <1>1, NatLessThanWellFounded, Zenon
<1>3. PICK x \in S : \A y \in S : ~ (<<y, x>> \in Precedes)
  BY <1>2, WFMin, Zenon
<1>4. \A y \in S : x <= y
  <2>1. ASSUME NEW y \in S, y < x PROVE FALSE
    <3>1. <<y, x>> \in Precedes
      BY <2>1 DEF Precedes
    <3> QED
      BY <3>1, <1>3
  <2> QED
    BY <2>1
<1> QED
  BY <1>4 DEF First

\* Once round the circle.
LEMMA ModOnce ==
  ASSUME NEW n \in Nat, n > 0, NEW x \in Nat, x < 2 * n
  PROVE  x % n = IF x < n THEN x ELSE x - n
<1>1. x % n \in 0 .. n - 1
  OBVIOUS
<1>2. PICK q \in Int : x = n * q + (x % n)
  <2>1. \E q \in Int : x = n * q + (x % n)
    OBVIOUS
  <2> QED
    BY <2>1
<1> DEFINE r == x % n
<1> HIDE DEF r
<1>3. r \in Nat /\ r < n /\ x = n * q + r
  BY <1>1, <1>2 DEF r
<1>4. q >= 2 => n * q >= 2 * n
  OBVIOUS
<1>5. q < 0 => n * q <= - n
  OBVIOUS
<1>6. q = 0 \/ q = 1
  BY <1>3, <1>4, <1>5
<1> QED
  BY <1>3, <1>6 DEF r

\* As many cids as there are channels, and two more steps, come before the
\* first one is met again.
LEMMA CidAfterIs ==
  ASSUME nextCid \in LocalCid, NEW k \in 0 .. MaxChannels + 1
  PROVE  /\ CidAfter(k) \in LocalCid
         /\ CidAfter(k) = IF nextCid + k <= LastCid THEN nextCid + k
                          ELSE nextCid + k - (LastCid + 1 - FirstCid)
<1> DEFINE n == LastCid + 1 - FirstCid
           x == nextCid - FirstCid + k
<1>1. n \in Nat /\ n > 0 /\ MaxChannels + 1 <= n /\ FirstCid \in Nat /\ LastCid \in Nat
      /\ nextCid \in Nat /\ nextCid <= LastCid /\ FirstCid <= nextCid /\ MaxChannels \in Nat
  BY L2capAssumption DEF LocalCid
<1>2. x \in Nat /\ x < 2 * n
  BY <1>1
<1>3. x % n = IF x < n THEN x ELSE x - n
  <2> HIDE DEF x, n
  <2> QED
    BY <1>1, <1>2, ModOnce
<1>4. CidAfter(k) = FirstCid + (x % n)
  BY DEF CidAfter
<1>5. x < n <=> nextCid + k <= LastCid
  BY <1>1
<1> QED
  BY <1>1, <1>3, <1>4, <1>5, <1>2 DEF LocalCid

LEMMA CidsDiffer ==
  ASSUME nextCid \in LocalCid, NEW j \in 0 .. MaxChannels, NEW k \in 0 .. MaxChannels,
         CidAfter(j) = CidAfter(k)
  PROVE  j = k
<1>1. MaxChannels \in Nat /\ FirstCid \in Nat /\ LastCid \in Nat
      /\ FirstCid + MaxChannels <= LastCid /\ nextCid \in Nat
  BY L2capAssumption DEF LocalCid
<1>2. j \in 0 .. MaxChannels + 1 /\ k \in 0 .. MaxChannels + 1
  BY <1>1
<1> QED
  BY <1>1, <1>2, CidAfterIs

\* allocate_cid finds a cid that no channel has: there are more cids than
\* channels, so that it does not run round for ever.
LEMMA Allocated ==
  ASSUME TypeOK
  PROVE  /\ AllocatedCid \in LocalCid \ InUse
         /\ NextCid \in LocalCid
<1> DEFINE free == {k \in 0 .. MaxChannels : CidAfter(k) \notin InUse}
<1>1. MaxChannels \in Nat /\ nextCid \in LocalCid /\ Len(channels) \in Nat
      /\ Len(channels) <= MaxChannels /\ DOMAIN channels = 1 .. Len(channels)
  BY L2capAssumption DEF TypeOK
<1>2. free # {}
  <2> SUFFICES ASSUME free = {} PROVE FALSE
    OBVIOUS
  <2> DEFINE places == 0 .. MaxChannels
             f == [k \in places |-> CHOOSE i \in DOMAIN channels :
                                      channels[i].local_cid = CidAfter(k)]
  <2>1. \A k \in places : \E i \in DOMAIN channels : channels[i].local_cid = CidAfter(k)
    BY DEF InUse
  <2>2. \A k \in places : f[k] \in DOMAIN channels /\ channels[f[k]].local_cid = CidAfter(k)
    BY <2>1
  <2>3. f \in [places -> 1 .. Len(channels)]
    BY <2>2, <1>1
  <2>4. /\ IsFiniteSet(places) /\ Cardinality(places) = MaxChannels + 1
        /\ IsFiniteSet(1 .. Len(channels)) /\ Cardinality(1 .. Len(channels)) = Len(channels)
    <3>1. /\ IsFiniteSet(0 .. MaxChannels)
          /\ Cardinality(0 .. MaxChannels) = IF 0 > MaxChannels THEN 0 ELSE MaxChannels - 0 + 1
      BY <1>1, FS_Interval
    <3>2. ASSUME NEW n \in Nat
          PROVE  IsFiniteSet(1 .. n) /\ Cardinality(1 .. n) = n
      BY FS_Interval
    <3> QED
      BY <1>1, <3>1, <3>2
  <2> HIDE DEF f
  <2>5. PICK j, k \in places : j # k /\ f[j] = f[k]
    <3>1. Cardinality(1 .. Len(channels)) < Cardinality(places)
      BY <1>1, <2>4
    <3> HIDE DEF places
    <3> QED
      BY <3>1, <2>3, <2>4, FS_PigeonHole
  <2> QED
    BY <2>5, <2>2, CidsDiffer, <1>1
<1>3. Tries \in 0 .. MaxChannels /\ CidAfter(Tries) \notin InUse
  <2>1. free \in SUBSET Nat /\ Tries = First(free)
    BY <1>1 DEF Tries
  <2>2. Tries \in free
    <3> HIDE DEF free
    <3> QED
      BY <2>1, <1>2, FirstIs
  <2> QED
    BY <2>2
<1>4. Tries \in 0 .. MaxChannels + 1 /\ Tries + 1 \in 0 .. MaxChannels + 1
  BY <1>1, <1>3
<1> QED
  BY <1>1, <1>3, <1>4, CidAfterIs DEF AllocatedCid, NextCid

-----------------------------------------------------------------------------
(* The tables.                                                             *)

\* Where entry k was before entry i was taken out of s.
Origin(s, i, k) == IF k = i THEN Len(s) ELSE k

\* Taking an entry out keeps the others, each once.
LEMMA SwapRemoveIs ==
  ASSUME NEW S, NEW s \in Seq(S), NEW i \in DOMAIN s
  PROVE  /\ SwapRemove(s, i) \in Seq(S)
         /\ Len(SwapRemove(s, i)) = Len(s) - 1
         /\ \A k \in DOMAIN SwapRemove(s, i) :
              /\ SwapRemove(s, i)[k] = s[Origin(s, i, k)]
              /\ Origin(s, i, k) \in DOMAIN s \ {i}
         /\ \A j, k \in DOMAIN SwapRemove(s, i) :
              Origin(s, i, j) = Origin(s, i, k) => j = k
         /\ \A j \in DOMAIN s \ {i} : \E k \in DOMAIN SwapRemove(s, i) : Origin(s, i, k) = j
<1>1. /\ Len(s) \in Nat /\ i \in 1 .. Len(s) /\ DOMAIN s = 1 .. Len(s) /\ Len(s) > 0
      /\ Len(s) - 1 \in Nat
  OBVIOUS
<1>2. /\ DOMAIN SwapRemove(s, i) = 1 .. Len(s) - 1
      /\ \A k \in 1 .. Len(s) - 1 : SwapRemove(s, i)[k] = s[Origin(s, i, k)]
  BY DEF SwapRemove, Origin
<1>3. \A k \in 1 .. Len(s) - 1 : Origin(s, i, k) \in 1 .. Len(s) /\ Origin(s, i, k) # i
  BY <1>1 DEF Origin
<1>4. SwapRemove(s, i) \in [1 .. Len(s) - 1 -> S]
  BY <1>1, <1>2, <1>3 DEF SwapRemove, Origin
<1>5. SwapRemove(s, i) \in Seq(S) /\ Len(SwapRemove(s, i)) = Len(s) - 1
  <2> DEFINE t == SwapRemove(s, i)
             n == Len(s) - 1
  <2>1. t \in [1 .. n -> S] /\ n \in Nat
    BY <1>4, <1>1
  <2> HIDE DEF t, n
  <2>2. t \in Seq(S) /\ Len(t) = n
    BY <2>1
  <2> QED
    BY <2>2 DEF t, n
<1>6. \A j, k \in 1 .. Len(s) - 1 : Origin(s, i, j) = Origin(s, i, k) => j = k
  BY <1>1 DEF Origin
<1>7. ASSUME NEW j \in DOMAIN s \ {i}
      PROVE  \E k \in 1 .. Len(s) - 1 : Origin(s, i, k) = j
  <2>1. CASE j = Len(s)
    <3>1. i \in 1 .. Len(s) - 1 /\ Origin(s, i, i) = j
      BY <2>1, <1>1, <1>7 DEF Origin
    <3> QED
      BY <3>1
  <2>2. CASE j # Len(s)
    <3>1. j \in 1 .. Len(s) - 1 /\ Origin(s, i, j) = j
      BY <2>2, <1>1, <1>7 DEF Origin
    <3> QED
      BY <3>1
  <2> QED
    BY <2>1, <2>2
<1> QED
  BY <1>1, <1>2, <1>3, <1>5, <1>6, <1>7

\* A new channel whose cid no other has.
LEMMA ChannelAdded ==
  ASSUME TypeOK, NEW c \in Channel, c.local_cid \notin InUse, Len(channels) < MaxChannels,
         channels' = Append(channels, c)
  PROVE  ChannelsType'
<1>1. /\ channels \in Seq(Channel) /\ Len(channels) \in Nat /\ MaxChannels \in Nat
      /\ DOMAIN channels = 1 .. Len(channels)
  BY L2capAssumption DEF TypeOK
<1>2. /\ channels' \in Seq(Channel) /\ Len(channels') = Len(channels) + 1
      /\ \A k \in DOMAIN channels' :
           \/ k \in DOMAIN channels /\ channels'[k] = channels[k]
           \/ k = Len(channels) + 1 /\ channels'[k] = c
  BY <1>1
<1>3. \A k \in DOMAIN channels : channels[k].local_cid # c.local_cid
  BY DEF InUse
<1> QED
  BY <1>1, <1>2, <1>3 DEF TypeOK, ChannelsType

\* The channels with this cid change, and keep their cid and handle.
UpdatesOnly(cid) ==
  /\ channels' \in Seq(Channel)
  /\ DOMAIN channels' = DOMAIN channels
  /\ \A k \in DOMAIN channels :
       /\ channels'[k].local_cid = channels[k].local_cid
       /\ channels'[k].conn_handle = channels[k].conn_handle
       /\ channels[k].local_cid # cid => channels'[k] = channels[k]

LEMMA ChannelUpdated ==
  ASSUME TypeOK, NEW cid, UpdatesOnly(cid)
  PROVE  ChannelsType'
<1>1. Len(channels') = Len(channels)
  BY DEF TypeOK, UpdatesOnly
<1> QED
  BY <1>1 DEF TypeOK, UpdatesOnly, ChannelsType

LEMMA ChannelRemoved ==
  ASSUME TypeOK, NEW i \in DOMAIN channels, channels' = SwapRemove(channels, i)
  PROVE  ChannelsType'
<1>1. channels \in Seq(Channel) /\ Len(channels) \in Nat /\ MaxChannels \in Nat
  BY L2capAssumption DEF TypeOK
<1>2. channels' \in Seq(Channel) /\ Len(channels') <= MaxChannels
  BY <1>1, SwapRemoveIs DEF TypeOK
<1>3. ASSUME NEW j \in DOMAIN channels', NEW k \in DOMAIN channels',
             channels'[j].local_cid = channels'[k].local_cid
      PROVE  j = k
  <2>1. \A l \in DOMAIN channels' : /\ channels'[l] = channels[Origin(channels, i, l)]
                                    /\ Origin(channels, i, l) \in DOMAIN channels
    BY <1>1, SwapRemoveIs
  <2>2. Origin(channels, i, j) = Origin(channels, i, k)
    BY <1>3, <2>1 DEF TypeOK
  <2> QED
    BY <1>1, <2>2, SwapRemoveIs
<1> QED
  BY <1>2, <1>3 DEF ChannelsType

\* A request that is sent, or finds the list full.
LEMMA RequestSent ==
  ASSUME TypeOK, NEW code \in Code, NEW cid \in LocalCid, NEW h \in Handle,
         Send(code, cid, h)
  PROVE  RequestsType'
<1> DEFINE entry == [identifier |-> nextId, local_cid |-> cid, code |-> code]
<1>1. /\ nextId' \in Identifier /\ nextId \in Identifier
      /\ entry \in Pending /\ Len(pending) \in Nat /\ MaxPending \in Nat
      /\ pending \in Seq(Pending)
  BY L2capAssumption DEF TypeOK, Send, NextIdentifier, Identifier, Pending
<1>2. CASE Len(pending) < MaxPending
  <2>1. pending' = Append(pending, entry)
    BY <1>2 DEF Send
  <2>2. pending' \in Seq(Pending) /\ Len(pending') = Len(pending) + 1
    <3> HIDE DEF entry
    <3> QED
      BY <1>1, <2>1
  <2>3. asked' = asked \cup {[handle |-> h, identifier |-> nextId, code |-> code,
                              local_cid |-> cid]}
    BY <1>2 DEF Send
  <2> QED
    BY <1>1, <1>2, <2>2, <2>3 DEF RequestsType, TypeOK, Asked
<1>3. CASE ~(Len(pending) < MaxPending)
  BY <1>1, <1>3 DEF RequestsType, TypeOK, Send, Asked, Pending
<1> QED
  BY <1>2, <1>3

\* A request that was answered.
LEMMA RequestAnswered ==
  ASSUME TypeOK, NEW i \in DOMAIN pending, pending' = SwapRemove(pending, i),
         asked' \subseteq asked, nextId' = nextId
  PROVE  RequestsType'
<1>1. pending \in Seq(Pending) /\ Len(pending) \in Nat /\ MaxPending \in Nat
  BY L2capAssumption DEF TypeOK, Pending
<1>2. pending' \in Seq(Pending) /\ Len(pending') = Len(pending) - 1
  BY <1>1, SwapRemoveIs
<1> QED
  BY <1>1, <1>2 DEF TypeOK, RequestsType, Asked

-----------------------------------------------------------------------------
(* What the operations do to the tables.                                   *)

\* The channels found by a cid, or by a handle and a remote cid.
LEMMA FoundAre ==
  ASSUME TypeOK, NEW cid, NEW remote, NEW h, NEW r
  PROVE  /\ At(cid) = {i \in DOMAIN channels : channels[i].local_cid = cid}
         /\ Found(remote, h) = {i \in DOMAIN channels : /\ channels[i].remote_cid = remote
                                                        /\ channels[i].conn_handle = h}
         /\ Matching(r) = {i \in DOMAIN pending : /\ pending[i].identifier = r.identifier
                                                  /\ pending[i].code = r.code}
         /\ At(cid) \in SUBSET Nat /\ Found(remote, h) \in SUBSET Nat
         /\ Matching(r) \in SUBSET Nat
<1>1. DOMAIN channels \in SUBSET Nat /\ DOMAIN pending \in SUBSET Nat
  BY DEF TypeOK
<1> QED
  BY <1>1 DEF At, Found, Matching, Where

\* The entry that an answer finds.
AnsweredEntry(r) == First(Matching(r))

LEMMA AnsweredEntryIs ==
  ASSUME TypeOK, NEW r, Matching(r) # {}
  PROVE  /\ AnsweredEntry(r) \in DOMAIN pending
         /\ pending[AnsweredEntry(r)].identifier = r.identifier
         /\ pending[AnsweredEntry(r)].code = r.code
<1>1. Matching(r) \in SUBSET Nat
  BY FoundAre
<1>2. AnsweredEntry(r) \in Matching(r)
  BY <1>1, FirstIs DEF AnsweredEntry
<1> QED
  BY <1>2, FoundAre

\* What every answer but that to a disconnection does: the entry goes, and the
\* channel it names is updated.
Settled(r) ==
  \/ Matching(r) = {} /\ UNCHANGED <<channels, pending>>
  \/ /\ Matching(r) # {}
     /\ pending' = SwapRemove(pending, AnsweredEntry(r))
     /\ UpdatesOnly(pending[AnsweredEntry(r)].local_cid)

RemotesKept == \A k \in DOMAIN channels : channels'[k].remote_cid = channels[k].remote_cid

\* An update of one channel, as a function.
KeepsIdentity(u) ==
  /\ u \in [Channel -> Channel]
  /\ \A c \in Channel : u[c].local_cid = c.local_cid /\ u[c].conn_handle = c.conn_handle

LEMMA UpdateIs ==
  ASSUME TypeOK, NEW cid, NEW u, KeepsIdentity(u),
         channels' = [k \in DOMAIN channels |->
                        IF k \in At(cid) THEN u[channels[k]] ELSE channels[k]]
  PROVE  /\ UpdatesOnly(cid)
         /\ \A k \in DOMAIN channels :
              channels'[k] = IF channels[k].local_cid = cid THEN u[channels[k]]
                             ELSE channels[k]
<1>1. At(cid) = {k \in DOMAIN channels : channels[k].local_cid = cid}
  BY FoundAre
<1>2. channels \in Seq(Channel) /\ \A k \in DOMAIN channels : channels[k] \in Channel
  BY DEF TypeOK
<1>3. channels' \in Seq(Channel) /\ DOMAIN channels' = DOMAIN channels
  <2>1. channels' \in [1 .. Len(channels) -> Channel] /\ Len(channels) \in Nat
    BY <1>2 DEF KeepsIdentity
  <2> QED
    BY <2>1
<1> QED
  BY <1>1, <1>2, <1>3 DEF UpdatesOnly, KeepsIdentity

LEMMA AcceptedIs ==
  ASSUME TypeOK, NEW r \in asked, NEW remote \in RemoteCid, ConnectionAccepted(r, remote)
  PROVE  /\ Settled(r)
         /\ \A k \in DOMAIN channels :
              Matching(r) # {}
                /\ channels[k].local_cid = pending[AnsweredEntry(r)].local_cid
              => channels'[k].remote_cid = remote
<1> DEFINE u == [c \in Channel |-> [c EXCEPT !.remote_cid = remote, !.state = "Config"]]
           cid == pending[AnsweredEntry(r)].local_cid
<1>1. CASE Matching(r) = {}
  BY <1>1 DEF ConnectionAccepted, Settle, Settled
<1>2. CASE Matching(r) # {}
  <2>1. \A k \in DOMAIN channels : channels[k] \in Channel
    BY DEF TypeOK
  <2>2. /\ pending' = SwapRemove(pending, AnsweredEntry(r))
        /\ channels' = [k \in DOMAIN channels |->
                          IF k \in At(cid) THEN u[channels[k]] ELSE channels[k]]
    BY <1>2, <2>1 DEF ConnectionAccepted, Settle, AnsweredEntry
  <2>3. KeepsIdentity(u) /\ \A c \in Channel : u[c].remote_cid = remote
    BY DEF Channel, KeepsIdentity
  <2> HIDE DEF cid, u
  <2>4. /\ UpdatesOnly(cid)
        /\ \A k \in DOMAIN channels :
             channels[k].local_cid = cid => channels'[k].remote_cid = remote
    BY <2>1, <2>2, <2>3, UpdateIs
  <2> QED
    BY <1>2, <2>2, <2>4 DEF Settled, cid
<1> QED
  BY <1>1, <1>2

LEMMA RefusedIs ==
  ASSUME TypeOK, NEW r \in asked, NEW final, ConnectionRefused(r, final)
  PROVE  Settled(r) /\ RemotesKept
<1> DEFINE u == [c \in Channel |-> [c EXCEPT !.state = "Closed"]]
           cid == pending[AnsweredEntry(r)].local_cid
<1>1. CASE Matching(r) = {}
  BY <1>1 DEF ConnectionRefused, Settle, Settled, RemotesKept
<1>2. CASE Matching(r) # {}
  <2>1. \A k \in DOMAIN channels : channels[k] \in Channel
    BY DEF TypeOK
  <2>2. /\ pending' = SwapRemove(pending, AnsweredEntry(r))
        /\ channels' = [k \in DOMAIN channels |->
                          IF k \in At(cid) THEN u[channels[k]] ELSE channels[k]]
    BY <1>2, <2>1 DEF ConnectionRefused, Settle, AnsweredEntry
  <2>3. KeepsIdentity(u) /\ \A c \in Channel : u[c].remote_cid = c.remote_cid
    BY DEF Channel, KeepsIdentity
  <2> HIDE DEF cid, u
  <2>4. UpdatesOnly(cid) /\ RemotesKept
    BY <2>1, <2>2, <2>3, UpdateIs DEF RemotesKept
  <2> QED
    BY <1>2, <2>2, <2>4 DEF Settled, cid
<1> QED
  BY <1>1, <1>2

LEMMA ConfiguredIs ==
  ASSUME TypeOK, NEW r \in asked, ConfigurationAnswered(r)
  PROVE  Settled(r) /\ RemotesKept
<1> DEFINE done == [c \in Channel |-> LocallyConfigured(c)]
           closed == [c \in Channel |-> [c EXCEPT !.state = "Closed"]]
           cid == pending[AnsweredEntry(r)].local_cid
<1>1. CASE Matching(r) = {}
  BY <1>1 DEF ConfigurationAnswered, Settle, Settled, RemotesKept
<1>2. CASE Matching(r) # {}
  <2>1. \A k \in DOMAIN channels : channels[k] \in Channel
    BY DEF TypeOK
  <2>2. /\ pending' = SwapRemove(pending, AnsweredEntry(r))
        /\ \/ channels' = [k \in DOMAIN channels |->
                             IF k \in At(cid) THEN done[channels[k]] ELSE channels[k]]
           \/ channels' = [k \in DOMAIN channels |->
                             IF k \in At(cid) THEN closed[channels[k]] ELSE channels[k]]
    BY <1>2, <2>1 DEF ConfigurationAnswered, Settle, AnsweredEntry
  <2>3. KeepsIdentity(done) /\ \A c \in Channel : done[c].remote_cid = c.remote_cid
    BY DEF Channel, KeepsIdentity, LocallyConfigured, ConfigurationState
  <2>4. KeepsIdentity(closed) /\ \A c \in Channel : closed[c].remote_cid = c.remote_cid
    BY DEF Channel, KeepsIdentity
  <2> HIDE DEF cid, done, closed
  <2>5. UpdatesOnly(cid) /\ RemotesKept
    BY <2>1, <2>2, <2>3, <2>4, UpdateIs DEF RemotesKept
  <2> QED
    BY <1>2, <2>2, <2>5 DEF Settled, cid
<1> QED
  BY <1>1, <1>2

\* What configure_channel and disconnect do to the channel.
LEMMA CalledIs ==
  ASSUME TypeOK, NEW i \in DOMAIN channels, Configure(i) \/ Disconnect(i)
  PROVE  UpdatesOnly(channels[i].local_cid) /\ RemotesKept
<1>1. /\ channels \in Seq(Channel) /\ channels[i] \in Channel
      /\ \A k \in DOMAIN channels : channels[k].local_cid = channels[i].local_cid => k = i
  BY DEF TypeOK
<1>2. \E c \in Channel :
        /\ channels' = [channels EXCEPT ![i] = c]
        /\ c.local_cid = channels[i].local_cid /\ c.conn_handle = channels[i].conn_handle
        /\ c.remote_cid = channels[i].remote_cid
  <2>1. CASE Configure(i)
    <3> DEFINE c == [channels[i] EXCEPT !.local_state = "InProgress"]
    <3>1. /\ c \in Channel /\ c.local_cid = channels[i].local_cid
          /\ c.conn_handle = channels[i].conn_handle /\ c.remote_cid = channels[i].remote_cid
      BY <1>1 DEF Channel, ConfigurationState
    <3>2. channels' = [channels EXCEPT ![i] = c]
      BY <2>1 DEF Configure
    <3> QED
      BY <3>1, <3>2
  <2>2. CASE Disconnect(i)
    <3> DEFINE c == [channels[i] EXCEPT !.state = "WaitDisconnect"]
    <3>1. /\ c \in Channel /\ c.local_cid = channels[i].local_cid
          /\ c.conn_handle = channels[i].conn_handle /\ c.remote_cid = channels[i].remote_cid
      BY <1>1 DEF Channel
    <3>2. channels' = [channels EXCEPT ![i] = c]
      BY <2>2 DEF Disconnect
    <3> QED
      BY <3>1, <3>2
  <2> QED
    BY <2>1, <2>2
<1>3. PICK c \in Channel :
        /\ channels' = [channels EXCEPT ![i] = c]
        /\ c.local_cid = channels[i].local_cid /\ c.conn_handle = channels[i].conn_handle
        /\ c.remote_cid = channels[i].remote_cid
  BY <1>2
<1>4. channels' \in Seq(Channel) /\ DOMAIN channels' = DOMAIN channels
  BY <1>1, <1>3
<1>5. \A k \in DOMAIN channels : channels'[k] = IF k = i THEN c ELSE channels[k]
  BY <1>1, <1>3
<1> QED
  BY <1>1, <1>3, <1>4, <1>5 DEF UpdatesOnly, RemotesKept

\* The answer to a disconnection: the entry goes, and the channel it names, if
\* it is still there.
Removed(r) ==
  \/ Matching(r) = {} /\ UNCHANGED <<channels, pending>>
  \/ /\ Matching(r) # {}
     /\ pending' = SwapRemove(pending, AnsweredEntry(r))
     /\ \/ /\ \A k \in DOMAIN channels :
                channels[k].local_cid # pending[AnsweredEntry(r)].local_cid
           /\ UNCHANGED channels
        \/ \E k \in DOMAIN channels :
             /\ channels[k].local_cid = pending[AnsweredEntry(r)].local_cid
             /\ channels' = SwapRemove(channels, k)

LEMMA RemovedIs ==
  ASSUME TypeOK, NEW r \in asked, DisconnectionAnswered(r)
  PROVE  Removed(r)
<1> DEFINE cid == pending[AnsweredEntry(r)].local_cid
<1>1. CASE Matching(r) = {}
  BY <1>1 DEF DisconnectionAnswered, Removed
<1>2. CASE Matching(r) # {}
  <2>1. /\ pending' = SwapRemove(pending, AnsweredEntry(r))
        /\ channels' = IF At(cid) = {} THEN channels ELSE SwapRemove(channels, First(At(cid)))
    BY <1>2 DEF DisconnectionAnswered, AnsweredEntry
  <2>2. /\ At(cid) = {k \in DOMAIN channels : channels[k].local_cid = cid}
        /\ At(cid) \in SUBSET Nat
    BY FoundAre
  <2>3. At(cid) # {} => First(At(cid)) \in At(cid)
    BY <2>2, FirstIs
  <2> HIDE DEF cid
  <2>4. \/ (\A k \in DOMAIN channels : channels[k].local_cid # cid) /\ UNCHANGED channels
        \/ \E k \in DOMAIN channels :
             channels[k].local_cid = cid /\ channels' = SwapRemove(channels, k)
    BY <2>1, <2>2, <2>3
  <2> QED
    BY <1>2, <2>1, <2>4 DEF Removed, cid
<1> QED
  BY <1>1, <1>2

\* A peer closes a channel: the one found goes.
LEMMA ClosedIs ==
  ASSUME TypeOK, NEW p \in peers, PeerDisconnects(p)
  PROVE  \/ /\ \A k \in DOMAIN channels :
                 ~(channels[k].remote_cid = p.remote /\ channels[k].conn_handle = p.handle)
            /\ UNCHANGED channels
         \/ \E k \in DOMAIN channels :
              /\ channels[k].remote_cid = p.remote /\ channels[k].conn_handle = p.handle
              /\ channels' = SwapRemove(channels, k)
<1> DEFINE found == Found(p.remote, p.handle)
<1>1. /\ found = {k \in DOMAIN channels : /\ channels[k].remote_cid = p.remote
                                          /\ channels[k].conn_handle = p.handle}
      /\ found \in SUBSET Nat
  BY FoundAre
<1>2. channels' = IF found = {} THEN channels ELSE SwapRemove(channels, First(found))
  BY DEF PeerDisconnects
<1> HIDE DEF found
<1>3. found # {} => First(found) \in found
  BY <1>1, FirstIs
<1> QED
  BY <1>1, <1>2, <1>3

-----------------------------------------------------------------------------
(* Types.                                                                  *)

Types == /\ ChannelsType /\ nextCid \in LocalCid /\ RequestsType /\ PeersType
         /\ reused \in BOOLEAN

LEMMA TypesAre == TypeOK <=> Types /\ left \in 0 .. MaxSteps
  BY DEF TypeOK, Types, ChannelsType, RequestsType, PeersType, Pending, Asked

LEMMA TypeInit == Init => TypeOK
<1> SUFFICES ASSUME Init PROVE TypeOK
  OBVIOUS
<1>1. /\ MaxChannels \in Nat /\ MaxPending \in Nat /\ MaxSteps \in Nat
      /\ FirstCid \in LocalCid /\ 1 \in Identifier
  BY L2capAssumption DEF LocalCid, Identifier
<1>2. /\ channels \in Seq(Channel) /\ Len(channels) = 0 /\ DOMAIN channels = {}
      /\ pending \in Seq(Pending) /\ Len(pending) = 0
  BY DEF Init
<1>3. ChannelsType /\ RequestsType
  BY <1>1, <1>2 DEF Init, ChannelsType, RequestsType
<1>4. PeersType
  BY DEF Init, PeersType
<1>5. nextCid \in LocalCid /\ left \in 0 .. MaxSteps
  BY <1>1 DEF Init
<1>6. reused \in BOOLEAN
  BY DEF Init
<1> QED
  BY <1>3, <1>4, <1>5, <1>6, TypesAre DEF Types

\* A channel that a peer has just opened.
LEMMA NewPeerType ==
  ASSUME TypeOK, NEW h \in Handle, NEW remote \in RemoteCid, NEW cid \in LocalCid, UNCHANGED lost,
         peers' = peers \cup {[handle |-> h, remote |-> remote, local |-> cid,
                              configured |-> FALSE]}
  PROVE  PeersType'
<1>1. [handle |-> h, remote |-> remote, local |-> cid, configured |-> FALSE]
        \in [handle : Handle, remote : RemoteCid, local : LocalCid, configured : BOOLEAN]
  OBVIOUS
<1>2. PeersType
  BY DEF TypeOK, PeersType
<1> QED
  BY <1>1, <1>2, Zenon DEF PeersType

LEMMA NewChannelType ==
  ASSUME NEW cid \in LocalCid, NEW remote \in RemoteCid \cup {NoCid}, NEW h \in Handle,
         NEW state \in {"WaitConnect", "WaitConnectRsp"}
  PROVE  NewChannel(cid, remote, h, state) \in Channel
  BY DEF NewChannel, Channel, ConfigurationState

\* A call of the local user.
LEMMA UserTypes ==
  ASSUME TypeOK, User
  PROVE  Types'
<1>1. ASSUME NEW h \in Handle, Connect(h)
      PROVE  Types'
  <2>1. AllocatedCid \in LocalCid \ InUse /\ NextCid \in LocalCid
    BY Allocated
  <2>2. nextCid' \in LocalCid /\ reused' \in BOOLEAN /\ PeersType'
    BY <1>1, <2>1 DEF Connect, NoteReuse, TypeOK, PeersType, IdentifierPending, CidPending
  <2>3. CASE Len(channels) < MaxChannels /\ channels' # channels
    <3> DEFINE c == NewChannel(AllocatedCid, NoCid, h, "WaitConnect")
    <3>1. channels' = Append(channels, c) /\ Send("Connection", AllocatedCid, h)
      BY <1>1, <2>3 DEF Connect
    <3>2. c \in Channel /\ c.local_cid = AllocatedCid
      BY <2>1, NewChannelType DEF NewChannel
    <3>3. ChannelsType'
      <4> HIDE DEF c
      <4> QED
        BY <2>1, <2>3, <3>1, <3>2, ChannelAdded
    <3>4. RequestsType'
      BY <2>1, <3>1, RequestSent DEF Code
    <3> QED
      BY <2>2, <3>3, <3>4 DEF Types
  <2>4. CASE Len(channels) < MaxChannels /\ channels' = channels
    <3>1. RequestsType'
      <4>1. Send("Connection", AllocatedCid, h) \/ UNCHANGED <<pending, nextId, asked>>
        BY <1>1 DEF Connect
      <4> QED
        BY <2>1, <4>1, RequestSent, TypesAre DEF Code, Types, RequestsType
    <3> QED
      BY <2>2, <2>4, <3>1, TypesAre DEF Types, ChannelsType
  <2>5. CASE ~(Len(channels) < MaxChannels)
    BY <1>1, <2>2, <2>5, TypesAre DEF Connect, Types, ChannelsType, RequestsType
  <2> QED
    BY <2>3, <2>4, <2>5
<1>2. ASSUME NEW i \in DOMAIN channels, Configure(i) \/ Disconnect(i)
      PROVE  Types'
  <2>1. channels \in Seq(Channel) /\ channels[i] \in Channel
    BY DEF TypeOK
  <2>2. channels[i].local_cid \in LocalCid /\ channels[i].conn_handle \in Handle
    BY <2>1 DEF Channel
  <2>3. UpdatesOnly(channels[i].local_cid)
    BY <1>2, CalledIs
  <2>4. RequestsType'
    <3>1. \E code \in Code : Send(code, channels[i].local_cid, channels[i].conn_handle)
      BY <1>2 DEF Configure, Disconnect, Code
    <3> QED
      BY <2>2, <3>1, RequestSent
  <2> QED
    BY <1>2, <2>3, <2>4, ChannelUpdated, TypesAre
    DEF Types, Configure, Disconnect, PeersType, NoteReuse, IdentifierPending
<1> QED
  BY <1>1, <1>2 DEF User

\* A request of a peer.
LEMMA PeerRequestTypes ==
  ASSUME TypeOK, PeerRequest
  PROVE  Types'
<1>1. ASSUME NEW h \in Handle, NEW remote \in RemoteCid, PeerConnects(h, remote)
      PROVE  Types'
  <2>1. AllocatedCid \in LocalCid \ InUse /\ NextCid \in LocalCid
    BY Allocated
  <2>2. nextCid' \in LocalCid /\ reused' \in BOOLEAN /\ PeersType' /\ RequestsType'
    <3>1. nextCid' \in LocalCid /\ reused' \in BOOLEAN
      BY <1>1, <2>1 DEF PeerConnects, NoteReuse, TypeOK, CidPending
    <3>2. RequestsType' /\ lost' \subseteq Handle
      BY <1>1, TypesAre DEF PeerConnects, Types, RequestsType, PeersType
    <3>3. \/ peers' = peers
          \/ peers' = peers \cup {[handle |-> h, remote |-> remote, local |-> AllocatedCid,
                                  configured |-> FALSE]}
      BY <1>1 DEF PeerConnects
    <3>4. PeersType'
      BY <1>1, <2>1, <3>3, NewPeerType, TypesAre DEF PeerConnects, Types, PeersType
    <3> QED
      BY <3>1, <3>2, <3>4
  <2>3. CASE UNCHANGED channels
    BY <2>2, <2>3, TypesAre DEF Types, ChannelsType
  <2>4. CASE channels' # channels
    <3> DEFINE c == NewChannel(AllocatedCid, remote, h, "WaitConnectRsp")
    <3>1. channels' = Append(channels, c) /\ Len(channels) < MaxChannels
      BY <1>1, <2>4 DEF PeerConnects
    <3>2. c \in Channel /\ c.local_cid = AllocatedCid
      BY <2>1, NewChannelType DEF NewChannel
    <3>3. ChannelsType'
      <4> HIDE DEF c
      <4> QED
        BY <2>1, <3>1, <3>2, ChannelAdded
    <3> QED
      BY <2>2, <3>3 DEF Types
  <2> QED
    BY <2>3, <2>4
<1>2. ASSUME NEW p \in peers, PeerConfigures(p)
      PROVE  Types'
  BY <1>2, TypesAre DEF PeerConfigures, Types, ChannelsType, RequestsType, PeersType
<1>3. ASSUME NEW p \in peers, PeerDisconnects(p)
      PROVE  Types'
  <2>1. ChannelsType'
    BY <1>3, ClosedIs, ChannelRemoved, TypesAre DEF Types, ChannelsType
  <2> QED
    BY <1>3, <2>1, TypesAre DEF PeerDisconnects, Types, RequestsType, PeersType
<1> QED
  BY <1>1, <1>2, <1>3 DEF PeerRequest

\* An answer of a peer.
LEMMA AnswerTypes ==
  ASSUME TypeOK, NEW r \in asked, Answer(r)
  PROVE  /\ ChannelsType' /\ RequestsType' /\ PeersType' /\ nextCid' = nextCid
<1>1. nextCid' = nextCid /\ nextId' = nextId /\ asked' \subseteq asked /\ lost' = lost
  BY DEF Answer, ConnectionAccepted, ConnectionRefused, ConfigurationAnswered,
         DisconnectionAnswered
<1>2. PeersType'
  <2>1. r.handle \in Handle /\ r.local_cid \in LocalCid
    BY DEF TypeOK
  <2>2. CASE \E remote \in RemoteCid : ConnectionAccepted(r, remote)
    <3>1. PICK remote \in RemoteCid :
            peers' = peers \cup {[handle |-> r.handle, remote |-> remote,
                                 local |-> r.local_cid, configured |-> FALSE]}
      BY <2>2 DEF ConnectionAccepted
    <3> QED
      BY <1>1, <2>1, <3>1, NewPeerType
  <2>3. CASE peers' \subseteq peers
    BY <2>3, <1>1, TypesAre DEF Types, PeersType
  <2> QED
    BY <2>2, <2>3
    DEF Answer, ConnectionRefused, ConfigurationAnswered, DisconnectionAnswered
<1>3. Settled(r) \/ Removed(r)
  BY AcceptedIs, RefusedIs, ConfiguredIs, RemovedIs DEF Answer
<1>4. RequestsType'
  <2>1. CASE Matching(r) = {}
    BY <2>1, <1>1, <1>3, TypesAre DEF Settled, Removed, Types, RequestsType
  <2>2. CASE Matching(r) # {}
    <3>1. pending' = SwapRemove(pending, AnsweredEntry(r))
      BY <2>2, <1>3 DEF Settled, Removed
    <3> QED
      BY <1>1, <2>2, <3>1, AnsweredEntryIs, RequestAnswered
  <2> QED
    BY <2>1, <2>2
<1>5. ChannelsType'
  BY <1>3, ChannelUpdated, ChannelRemoved, TypesAre DEF Settled, Removed, Types, ChannelsType
<1> QED
  BY <1>1, <1>2, <1>4, <1>5

LEMMA TypeNext == TypeOK /\ [Next]_vars => TypeOK'
<1> SUFFICES ASSUME TypeOK, [Next]_vars PROVE TypeOK'
  OBVIOUS
<1>1. CASE left > 0 /\ left' = left - 1 /\ (User \/ PeerRequest \/ \E h \in Handle : LinkLost(h))
  <2>1. left' \in 0 .. MaxSteps
    BY <1>1, L2capAssumption DEF TypeOK
  <2>2. ASSUME NEW h \in Handle, LinkLost(h)
        PROVE  Types'
    BY <2>2, TypesAre DEF LinkLost, Types, ChannelsType, RequestsType, PeersType
  <2>3. Types'
    BY <1>1, <2>2, UserTypes, PeerRequestTypes
  <2> QED
    BY <2>1, <2>3, TypesAre
    DEF TypeOK, Types, ChannelsType, RequestsType, PeersType, Pending, Asked
<1>2. CASE (\E r \in asked : Answer(r)) /\ UNCHANGED <<reused, left>>
  BY <1>2, AnswerTypes
  DEF TypeOK, Types, ChannelsType, RequestsType, PeersType, Pending, Asked
<1>3. CASE UNCHANGED vars
  BY <1>3 DEF vars, TypeOK
<1> QED
  BY <1>1, <1>2, <1>3 DEF Next

\* Every table, request and counter of the signalling processor keeps its type and
\* its capacity, and no two channels have one local cid, whatever the peers do:
\* allocate_cid passes over the cids in use also after it has come round.
THEOREM Typed == Spec => []TypeOK
  BY TypeInit, TypeNext, PTL DEF Spec

-----------------------------------------------------------------------------
(* Requests and what is pending.                                           *)

\* What is left of a table when an entry was taken out of it.
LEMMA OthersStay ==
  ASSUME NEW S, NEW s \in Seq(S), NEW i \in DOMAIN s, NEW t, t = SwapRemove(s, i)
  PROVE  /\ \A k \in DOMAIN t : \E j \in DOMAIN s \ {i} : t[k] = s[j]
         /\ \A j \in DOMAIN s \ {i} : \E k \in DOMAIN t : t[k] = s[j]
<1>1. \A k \in DOMAIN t : t[k] = s[Origin(s, i, k)] /\ Origin(s, i, k) \in DOMAIN s \ {i}
  BY SwapRemoveIs
<1>2. \A j \in DOMAIN s \ {i} : \E k \in DOMAIN t : Origin(s, i, k) = j
  BY SwapRemoveIs
<1> QED
  BY <1>1, <1>2

\* What Send leaves behind.
LEMMA SentIs ==
  ASSUME TypeOK, NEW code \in Code, NEW cid \in LocalCid, NEW h \in Handle,
         Send(code, cid, h)
  PROVE  \/ UNCHANGED <<pending, asked>>
         \/ /\ Len(pending') = Len(pending) + 1
            /\ DOMAIN pending' = DOMAIN pending \cup {Len(pending) + 1}
            /\ Len(pending) + 1 \notin DOMAIN pending
            /\ \A k \in DOMAIN pending : pending'[k] = pending[k]
            /\ pending'[Len(pending) + 1].identifier = nextId
            /\ pending'[Len(pending) + 1].local_cid = cid
            /\ pending'[Len(pending) + 1].code = code
            /\ asked' = asked \cup {[handle |-> h, identifier |-> nextId, code |-> code,
                                     local_cid |-> cid]}
<1> DEFINE entry == [identifier |-> nextId, local_cid |-> cid, code |-> code]
<1>1. CASE Len(pending) < MaxPending
  <2>1. pending' = Append(pending, entry)
    BY <1>1 DEF Send
  <2>2. /\ pending \in Seq(Pending) /\ Len(pending) \in Nat
        /\ DOMAIN pending = 1 .. Len(pending) /\ entry \in Pending
    BY DEF TypeOK, Pending
  <2>3. entry.identifier = nextId /\ entry.local_cid = cid /\ entry.code = code
    OBVIOUS
  <2> HIDE DEF entry
  <2>4. /\ Len(pending') = Len(pending) + 1
        /\ DOMAIN pending' = DOMAIN pending \cup {Len(pending) + 1}
        /\ Len(pending) + 1 \notin DOMAIN pending
        /\ \A k \in DOMAIN pending : pending'[k] = pending[k]
        /\ pending'[Len(pending) + 1] = entry
    BY <2>1, <2>2
  <2> QED
    BY <1>1, <2>3, <2>4 DEF Send
<1>2. CASE ~(Len(pending) < MaxPending)
  BY <1>2 DEF Send
<1> QED
  BY <1>1, <1>2

\* A request with an identifier that nothing pending has.
LEMMA SendKeepsRequests ==
  ASSUME TypeOK, Requests, ~IdentifierPending, UNCHANGED lost,
         NEW code \in Code, NEW cid \in LocalCid, NEW h \in Handle, Send(code, cid, h)
  PROVE  Requests'
<1> DEFINE new == [handle |-> h, identifier |-> nextId, code |-> code, local_cid |-> cid]
           n == Len(pending) + 1
<1>1. CASE UNCHANGED <<pending, asked>>
  BY <1>1 DEF Requests, PendingAs
<1>2. CASE /\ Len(pending') = n /\ DOMAIN pending' = DOMAIN pending \cup {n}
           /\ n \notin DOMAIN pending
           /\ \A k \in DOMAIN pending : pending'[k] = pending[k]
           /\ pending'[n].identifier = nextId /\ pending'[n].local_cid = cid
           /\ pending'[n].code = code /\ asked' = asked \cup {new}
  <2>1. \A k \in DOMAIN pending : pending[k].identifier # nextId
    BY DEF IdentifierPending
  <2>2. \A r \in asked : r.identifier # nextId
    BY <2>1 DEF Requests, PendingAs
  <2>3. \A r \in asked' : \E i \in DOMAIN pending' : PendingAs(r, i)'
    <3>1. ASSUME NEW r \in asked
          PROVE  \E i \in DOMAIN pending' : PendingAs(r, i)'
      <4>1. PICK i \in DOMAIN pending : PendingAs(r, i)
        BY DEF Requests
      <4> QED
        BY <1>2, <4>1 DEF PendingAs
    <3>2. ASSUME NEW r, r = new
          PROVE  \E i \in DOMAIN pending' : PendingAs(r, i)'
      <4>1. n \in DOMAIN pending' /\ pending'[n].identifier = r.identifier
            /\ pending'[n].code = r.code /\ pending'[n].local_cid = r.local_cid
        BY <1>2, <3>2
      <4> HIDE DEF n, new
      <4> QED
        BY <4>1 DEF PendingAs
    <3> QED
      BY <1>2, <3>1, <3>2
  <2>4. \A i, j \in DOMAIN pending' :
          pending'[i].identifier = pending'[j].identifier => i = j
    BY <1>2, <2>1 DEF Requests
  <2>5. \A r, s \in asked' : r.identifier = s.identifier => r = s
    BY <1>2, <2>2 DEF Requests
  <2>6. lost' = {} => IsFiniteSet(asked') /\ Cardinality(asked') = Len(pending')
    <3>1. new \notin asked
      BY <2>2
    <3>2. Len(pending) \in Nat
      BY DEF TypeOK
    <3> HIDE DEF new
    <3> QED
      BY <1>2, <3>1, <3>2, FS_AddElement DEF Requests
  <2> QED
    BY <2>3, <2>4, <2>5, <2>6 DEF Requests
<1> QED
  BY <1>1, <1>2, SentIs

\* The entry that the answer to a request finds is its own.
LEMMA OwnEntry ==
  ASSUME TypeOK, Requests, NEW r \in asked
  PROVE  /\ Matching(r) # {}
         /\ AnsweredEntry(r) \in DOMAIN pending
         /\ PendingAs(r, AnsweredEntry(r))
         /\ \A s \in asked \ {r} : s.identifier # r.identifier
         /\ \A j \in DOMAIN pending \ {AnsweredEntry(r)} : pending[j].identifier # r.identifier
<1>1. PICK i \in DOMAIN pending : PendingAs(r, i)
  BY DEF Requests
<1>2. Matching(r) # {}
  BY <1>1, FoundAre DEF PendingAs
<1>3. AnsweredEntry(r) \in DOMAIN pending /\ pending[AnsweredEntry(r)].identifier = r.identifier
  BY <1>2, AnsweredEntryIs
<1>4. AnsweredEntry(r) = i
  BY <1>1, <1>3 DEF Requests, PendingAs
<1> QED
  BY <1>1, <1>2, <1>3, <1>4 DEF Requests, PendingAs

LEMMA AnswerKeepsRequests ==
  ASSUME TypeOK, Requests, UNCHANGED lost, NEW r \in asked, asked' = asked \ {r},
         pending' = SwapRemove(pending, AnsweredEntry(r))
  PROVE  Requests'
<1> DEFINE e == AnsweredEntry(r)
<1>1. /\ e \in DOMAIN pending /\ PendingAs(r, e)
      /\ \A s \in asked \ {r} : s.identifier # r.identifier
  BY OwnEntry
<1>2. pending \in Seq(Pending) /\ Len(pending) \in Nat
  BY DEF TypeOK, Pending
<1> HIDE DEF e
<1>3. /\ Len(pending') = Len(pending) - 1
      /\ \A k \in DOMAIN pending' : /\ pending'[k] = pending[Origin(pending, e, k)]
                                    /\ Origin(pending, e, k) \in DOMAIN pending
      /\ \A j, k \in DOMAIN pending' :
           Origin(pending, e, j) = Origin(pending, e, k) => j = k
  BY <1>1, <1>2, SwapRemoveIs DEF e
<1>4. \A j \in DOMAIN pending \ {e} : \E k \in DOMAIN pending' : pending'[k] = pending[j]
  BY <1>1, <1>2, OthersStay DEF e
<1>5. \A s \in asked' : \E k \in DOMAIN pending' : PendingAs(s, k)'
  <2>1. ASSUME NEW s \in asked'
        PROVE  \E k \in DOMAIN pending' : PendingAs(s, k)'
    <3>1. PICK j \in DOMAIN pending : PendingAs(s, j)
      BY DEF Requests
    <3>2. j # e
      BY <1>1, <3>1 DEF PendingAs
    <3>3. PICK k \in DOMAIN pending' : pending'[k] = pending[j]
      BY <1>4, <3>2
    <3> QED
      BY <3>1, <3>3 DEF PendingAs
  <2> QED
    BY <2>1
<1>6. \A j, k \in DOMAIN pending' : pending'[j].identifier = pending'[k].identifier => j = k
  BY <1>3 DEF Requests
<1>7. lost' = {} => IsFiniteSet(asked') /\ Cardinality(asked') = Len(pending')
  BY <1>2, <1>3, FS_RemoveElement DEF Requests
<1> QED
  BY <1>5, <1>6, <1>7 DEF Requests

-----------------------------------------------------------------------------
(* The calls of the local user.                                            *)

\* The table with a new channel.
LEMMA AddedIs ==
  ASSUME TypeOK, NEW c \in Channel, channels' = Append(channels, c)
  PROVE  /\ DOMAIN channels' = DOMAIN channels \cup {Len(channels) + 1}
         /\ \A k \in DOMAIN channels : channels'[k] = channels[k]
         /\ channels'[Len(channels) + 1] = c
<1>1. channels \in Seq(Channel) /\ Len(channels) \in Nat /\ DOMAIN channels = 1 .. Len(channels)
  BY DEF TypeOK
<1> QED
  BY <1>1

\* A cid that neither a channel nor a request has.
LEMMA FreshCid ==
  ASSUME TypeOK, Undisturbed, NEW cid, cid \notin InUse,
         \A i \in DOMAIN pending : pending[i].local_cid # cid
  PROVE  /\ \A i \in DOMAIN channels : channels[i].local_cid # cid
         /\ \A r \in asked : r.local_cid # cid
  BY DEF InUse, Undisturbed, Requests, PendingAs

LEMMA ConnectUndisturbed ==
  ASSUME TypeOK, Undisturbed, NEW h \in Handle, Connect(h), ~reused'
  PROVE  Undisturbed'
<1> DEFINE c == NewChannel(AllocatedCid, NoCid, h, "WaitConnect")
           n == Len(channels) + 1
<1>1. CASE Len(channels) = MaxChannels /\ UNCHANGED <<channels, pending, nextId, asked, reused>>
  BY <1>1 DEF Connect, Undisturbed, Requests, PendingAs, RequestsNameChannels, HandlesMatch,
              ConnectingAreHere, ConnectingOnce, RemotesAreKnown, PeersAreKnown, Ends, Joined
<1>2. CASE /\ channels' = Append(channels, c)
           /\ Send("Connection", AllocatedCid, h)
           /\ NoteReuse(IdentifierPending \/ CidPending)
  <2>1. /\ ~IdentifierPending
        /\ \A i \in DOMAIN pending : pending[i].local_cid # AllocatedCid
    BY <1>2 DEF NoteReuse, CidPending
  <2>2. AllocatedCid \in LocalCid \ InUse
    BY Allocated
  <2>3. /\ c \in Channel /\ c.local_cid = AllocatedCid /\ c.remote_cid = NoCid
        /\ c.conn_handle = h
    BY <2>2, NewChannelType DEF NewChannel
  <2>4. /\ \A i \in DOMAIN channels : channels[i].local_cid # AllocatedCid
        /\ \A r \in asked : r.local_cid # AllocatedCid
    BY <2>1, <2>2, FreshCid
  <2> HIDE DEF c, n
  <2>5. /\ DOMAIN channels' = DOMAIN channels \cup {n}
        /\ \A k \in DOMAIN channels : channels'[k] = channels[k]
        /\ channels'[n] = c
    BY <1>2, <2>3, AddedIs DEF n
  <2>6. /\ peers' = peers /\ lost' = lost
    BY DEF Connect
  <2>7. /\ \A r \in asked' :
             \/ r \in asked
             \/ r.local_cid = AllocatedCid /\ r.handle = h /\ asked' = asked \cup {r}
        /\ \A k \in DOMAIN pending' :
             \/ k \in DOMAIN pending /\ pending'[k] = pending[k]
             \/ pending'[k].code = "Connection"
    <3>1. Send("Connection", AllocatedCid, h) /\ "Connection" \in Code
      BY <1>2 DEF Code
    <3> QED
      BY <2>2, <3>1, SentIs
  <2>8. Requests'
    BY <1>2, <2>1, <2>2, <2>6, SendKeepsRequests DEF Undisturbed, Code
  <2>9. HandlesMatch'
    BY <2>3, <2>4, <2>5, <2>7 DEF HandlesMatch, Undisturbed, RequestsNameChannels
  <2>10. ConnectingAreHere'
    BY <2>3, <2>5, <2>7 DEF ConnectingAreHere, Undisturbed, RequestsNameChannels
  <2>11. ConnectingOnce'
    BY <2>4, <2>7 DEF ConnectingOnce, Undisturbed, RequestsNameChannels
  <2>12. RemotesAreKnown'
    BY <2>1, <2>3, <2>5, <2>7 DEF RemotesAreKnown, Undisturbed, RequestsNameChannels
  <2>13. PeersAreKnown'
    BY <2>6 DEF PeersAreKnown, Undisturbed
  <2>14. Ends'
    BY <2>3, <2>5, <2>6 DEF Ends, Joined, Undisturbed
  <2> QED
    BY <2>8, <2>9, <2>10, <2>11, <2>12, <2>13, <2>14 DEF Undisturbed, RequestsNameChannels
<1> QED
  BY <1>1, <1>2 DEF Connect

LEMMA CallUndisturbed ==
  ASSUME TypeOK, Undisturbed, NEW i \in DOMAIN channels, Configure(i) \/ Disconnect(i), ~reused'
  PROVE  Undisturbed'
<1> DEFINE cid == channels[i].local_cid
           h == channels[i].conn_handle
<1>1. /\ cid \in LocalCid /\ h \in Handle
      /\ \A k \in DOMAIN channels : channels[k].local_cid = cid => k = i
  <2>1. channels[i] \in Channel
    BY DEF TypeOK
  <2> QED
    BY <2>1 DEF TypeOK, Channel
<1>2. /\ DOMAIN channels' = DOMAIN channels
      /\ \A k \in DOMAIN channels : /\ channels'[k].local_cid = channels[k].local_cid
                                    /\ channels'[k].conn_handle = channels[k].conn_handle
                                    /\ channels'[k].remote_cid = channels[k].remote_cid
  BY CalledIs DEF UpdatesOnly, RemotesKept
<1>3. /\ channels[i].remote_cid # NoCid /\ ~IdentifierPending
      /\ peers' = peers /\ lost' = lost
  BY DEF Configure, Disconnect, NoteReuse
<1>4. PICK code \in {"Configuration", "Disconnection"} : Send(code, cid, h)
  BY DEF Configure, Disconnect
<1> HIDE DEF cid, h
<1>5. code \in Code /\ code # "Connection"
  BY DEF Code
<1>6. /\ \A r \in asked' : \/ r \in asked
                           \/ r.local_cid = cid /\ r.handle = h /\ r.code # "Connection"
      /\ \A k \in DOMAIN pending' : \/ k \in DOMAIN pending /\ pending'[k] = pending[k]
                                    \/ pending'[k].local_cid = cid
  BY <1>1, <1>4, <1>5, SentIs
<1>7. Requests'
  BY <1>1, <1>3, <1>4, <1>5, SendKeepsRequests DEF Undisturbed
<1>8. HandlesMatch'
  BY <1>1, <1>2, <1>6 DEF HandlesMatch, Undisturbed, RequestsNameChannels, h
<1>9. ConnectingAreHere'
  BY <1>2, <1>6 DEF ConnectingAreHere, Undisturbed, RequestsNameChannels
<1>10. ConnectingOnce'
  BY <1>6 DEF ConnectingOnce, Undisturbed, RequestsNameChannels
<1>11. RemotesAreKnown'
  BY <1>1, <1>2, <1>3, <1>6 DEF RemotesAreKnown, Undisturbed, RequestsNameChannels
<1>12. PeersAreKnown' /\ Ends'
  BY <1>2, <1>3 DEF PeersAreKnown, Ends, Joined, Undisturbed
<1> QED
  BY <1>7, <1>8, <1>9, <1>10, <1>11, <1>12 DEF Undisturbed, RequestsNameChannels

-----------------------------------------------------------------------------
(* The requests of peers, and lost links.                                  *)

LEMMA PeerConnectsUndisturbed ==
  ASSUME TypeOK, Undisturbed, NEW h \in Handle, NEW remote \in RemoteCid,
         PeerConnects(h, remote), ~reused'
  PROVE  Undisturbed'
<1> DEFINE c == NewChannel(AllocatedCid, remote, h, "WaitConnectRsp")
           n == Len(channels) + 1
           p == [handle |-> h, remote |-> remote, local |-> AllocatedCid, configured |-> FALSE]
<1>1. pending' = pending /\ asked' = asked /\ lost' = lost
  BY DEF PeerConnects
<1>2. Requests'
  BY <1>1 DEF Undisturbed, Requests, PendingAs
<1>3. CASE UNCHANGED <<channels, peers>>
  BY <1>1, <1>2, <1>3 DEF Undisturbed, RequestsNameChannels, HandlesMatch,
              ConnectingAreHere, ConnectingOnce, RemotesAreKnown, PeersAreKnown, Ends, Joined
<1>4. CASE /\ channels' = Append(channels, c) /\ peers' = peers \cup {p}
           /\ NoteReuse(CidPending)
  <2>1. \A i \in DOMAIN pending : pending[i].local_cid # AllocatedCid
    BY <1>4 DEF NoteReuse, CidPending
  <2>2. AllocatedCid \in LocalCid \ InUse /\ NoCid \notin RemoteCid
    BY Allocated, L2capAssumption
  <2>3. /\ c \in Channel /\ c.local_cid = AllocatedCid /\ c.remote_cid = remote
        /\ c.conn_handle = h /\ p.handle = h /\ p.remote = remote /\ p.local = AllocatedCid
    BY <2>2, NewChannelType DEF NewChannel
  <2>4. /\ \A i \in DOMAIN channels : channels[i].local_cid # AllocatedCid
        /\ \A r \in asked : r.local_cid # AllocatedCid
    BY <2>1, <2>2, FreshCid
  <2>5. \A q \in peers : ~(q.handle = h /\ q.remote = remote)
    BY DEF PeerConnects, PeerCids
  <2> HIDE DEF c, n, p
  <2>6. /\ DOMAIN channels' = DOMAIN channels \cup {n}
        /\ \A k \in DOMAIN channels : channels'[k] = channels[k]
        /\ channels'[n] = c
    BY <1>4, <2>3, AddedIs DEF n
  <2>7. HandlesMatch'
    BY <1>1, <2>3, <2>4, <2>6 DEF HandlesMatch, Undisturbed, RequestsNameChannels
  <2>8. ConnectingAreHere'
    BY <1>1, <2>6 DEF ConnectingAreHere, Undisturbed, RequestsNameChannels
  <2>9. ConnectingOnce'
    BY <1>1 DEF ConnectingOnce, Undisturbed, RequestsNameChannels
  <2>10. RemotesAreKnown'
    BY <1>1, <2>1, <2>3, <2>6 DEF RemotesAreKnown, Undisturbed, RequestsNameChannels
  <2>11. PeersAreKnown'
    BY <1>4, <2>3, <2>5 DEF PeersAreKnown, Undisturbed
  <2>12. Ends'
    BY <1>1, <1>4, <2>3, <2>6 DEF Ends, Joined, Undisturbed
  <2> QED
    BY <1>2, <2>7, <2>8, <2>9, <2>10, <2>11, <2>12 DEF Undisturbed, RequestsNameChannels
<1> QED
  BY <1>3, <1>4 DEF PeerConnects

LEMMA PeerConfiguresUndisturbed ==
  ASSUME TypeOK, Undisturbed, NEW p \in peers, PeerConfigures(p)
  PROVE  Undisturbed'
<1> DEFINE q == [p EXCEPT !.configured = TRUE]
<1>1. /\ channels' = channels /\ pending' = pending /\ asked' = asked /\ lost' = lost
      /\ peers' = (peers \ {p}) \cup {q}
  BY DEF PeerConfigures
<1>2. q.handle = p.handle /\ q.remote = p.remote /\ q.local = p.local
  BY DEF TypeOK
<1> HIDE DEF q
<1>3. Requests' /\ RequestsNameChannels'
  BY <1>1 DEF Undisturbed, Requests, PendingAs, RequestsNameChannels, HandlesMatch,
              ConnectingAreHere, ConnectingOnce, RemotesAreKnown
<1>4. PeersAreKnown'
  BY <1>1, <1>2 DEF PeersAreKnown, Undisturbed
<1>5. Ends'
  BY <1>1, <1>2 DEF Ends, Joined, Undisturbed
<1> QED
  BY <1>3, <1>4, <1>5 DEF Undisturbed

\* The channel that a peer closes is its own, and no other one of the peer.
LEMMA PeerDisconnectsUndisturbed ==
  ASSUME TypeOK, Undisturbed, NEW p \in peers, PeerDisconnects(p)
  PROVE  Undisturbed'
<1>1. pending' = pending /\ asked' = asked /\ lost' = lost /\ peers' = peers \ {p}
  BY DEF PeerDisconnects
<1>2. p.remote \in RemoteCid /\ NoCid \notin RemoteCid
  BY L2capAssumption DEF TypeOK
<1>3. PICK i \in DOMAIN channels :
        /\ channels[i].remote_cid = p.remote /\ channels[i].conn_handle = p.handle
        /\ channels' = SwapRemove(channels, i)
  BY ClosedIs DEF Undisturbed, Ends, Joined
<1>4. channels \in Seq(Channel)
  BY DEF TypeOK
<1>5. /\ \A k \in DOMAIN channels' : \E j \in DOMAIN channels \ {i} : channels'[k] = channels[j]
      /\ \A j \in DOMAIN channels \ {i} : \E k \in DOMAIN channels' : channels'[k] = channels[j]
  BY <1>3, <1>4, OthersStay
<1>6. Requests'
  BY <1>1 DEF Undisturbed, Requests, PendingAs
<1>7. HandlesMatch' /\ ConnectingOnce' /\ RemotesAreKnown'
  BY <1>1, <1>5
  DEF Undisturbed, RequestsNameChannels, HandlesMatch, ConnectingOnce, RemotesAreKnown
<1>8. ConnectingAreHere'
  BY <1>1, <1>2, <1>3, <1>5 DEF Undisturbed, RequestsNameChannels, ConnectingAreHere
<1>9. PeersAreKnown'
  BY <1>1 DEF PeersAreKnown, Undisturbed
<1>10. \A q \in peers' : \E k \in DOMAIN channels' : Joined(k, q)'
  <2>1. ASSUME NEW q \in peers'
        PROVE  \E k \in DOMAIN channels' : Joined(k, q)'
    <3>1. PICK j \in DOMAIN channels : Joined(j, q)
      BY <1>1 DEF Undisturbed, Ends
    <3>2. j # i
      BY <1>1, <1>3, <3>1 DEF Joined, Undisturbed, PeersAreKnown
    <3>3. PICK k \in DOMAIN channels' : channels'[k] = channels[j]
      BY <1>5, <3>2
    <3> QED
      BY <3>1, <3>3 DEF Joined
  <2> QED
    BY <2>1
<1>11. ASSUME NEW k \in DOMAIN channels', channels'[k].remote_cid # NoCid,
              channels'[k].conn_handle \notin lost'
       PROVE  \E q \in peers' : Joined(k, q)'
  <2>1. PICK j \in DOMAIN channels \ {i} : channels'[k] = channels[j]
    BY <1>5
  <2>2. PICK q \in peers : Joined(j, q)
    BY <1>1, <1>11, <2>1 DEF Undisturbed, Ends
  <2>3. q # p
    <3>1. SUFFICES ASSUME q = p PROVE FALSE
      OBVIOUS
    <3>2. channels[i].conn_handle \notin lost /\ channels[i].remote_cid # NoCid
      BY <1>1, <1>2, <1>3, <1>11, <2>1, <2>2, <3>1 DEF Joined
    <3>3. PICK o \in peers : Joined(i, o)
      BY <3>2 DEF Undisturbed, Ends
    <3>4. o = p
      BY <1>3, <3>3 DEF Joined, Undisturbed, PeersAreKnown
    <3> QED
      BY <2>1, <2>2, <3>1, <3>3, <3>4 DEF Joined, TypeOK
  <2> QED
    BY <1>1, <2>1, <2>2, <2>3 DEF Joined
<1> QED
  BY <1>6, <1>7, <1>8, <1>9, <1>10, <1>11 DEF Undisturbed, RequestsNameChannels, Ends

LEMMA LinkLostUndisturbed ==
  ASSUME TypeOK, Undisturbed, NEW h \in Handle, LinkLost(h)
  PROVE  Undisturbed'
<1>1. /\ channels' = channels /\ pending' = pending
      /\ asked' \subseteq asked /\ lost' = lost \cup {h}
      /\ peers' = {p \in peers : p.handle # h}
  BY DEF LinkLost
<1>2. Requests'
  BY <1>1 DEF Undisturbed, Requests, PendingAs
<1>3. RequestsNameChannels'
  BY <1>1 DEF Undisturbed, RequestsNameChannels, HandlesMatch,
              ConnectingAreHere, ConnectingOnce, RemotesAreKnown
<1>4. PeersAreKnown'
  BY <1>1 DEF Undisturbed, PeersAreKnown
<1>5. Ends'
  BY <1>1 DEF Undisturbed, Ends, Joined
<1> QED
  BY <1>2, <1>3, <1>4, <1>5 DEF Undisturbed

-----------------------------------------------------------------------------
(* The answers of peers.                                                   *)

\* The answer to a connection: the channel gets the remote cid that the peer has.
LEMMA AcceptedUndisturbed ==
  ASSUME TypeOK, Undisturbed, NEW r \in asked, NEW remote \in RemoteCid,
         ConnectionAccepted(r, remote)
  PROVE  Undisturbed'
<1> DEFINE e == AnsweredEntry(r)
           p == [handle |-> r.handle, remote |-> remote, local |-> r.local_cid,
                 configured |-> FALSE]
<1>1. /\ r.code = "Connection" /\ asked' = asked \ {r} /\ lost' = lost
      /\ peers' = peers \cup {p}
      /\ \A q \in peers : ~(q.handle = r.handle /\ q.remote = remote)
  BY DEF ConnectionAccepted, PeerCids
<1>2. p.handle = r.handle /\ p.remote = remote /\ p.local = r.local_cid
  OBVIOUS
<1> HIDE DEF p
<1>3. /\ Matching(r) # {} /\ e \in DOMAIN pending /\ pending[e].local_cid = r.local_cid
  BY OwnEntry DEF Undisturbed, PendingAs
<1>4. /\ pending' = SwapRemove(pending, e)
      /\ DOMAIN channels' = DOMAIN channels
      /\ \A k \in DOMAIN channels :
           /\ channels'[k].local_cid = channels[k].local_cid
           /\ channels'[k].conn_handle = channels[k].conn_handle
           /\ channels[k].local_cid # r.local_cid => channels'[k] = channels[k]
           /\ channels[k].local_cid = r.local_cid => channels'[k].remote_cid = remote
  BY <1>3, AcceptedIs DEF Settled, UpdatesOnly
<1>5. pending \in Seq(Pending) /\ NoCid \notin RemoteCid
  BY L2capAssumption DEF TypeOK, Pending
<1>6. \A k \in DOMAIN pending' : \E j \in DOMAIN pending : pending'[k] = pending[j]
  BY <1>3, <1>4, <1>5, OthersStay
<1>7. PICK i \in DOMAIN channels :
        channels[i].local_cid = r.local_cid /\ channels[i].remote_cid = NoCid
  BY <1>1 DEF Undisturbed, RequestsNameChannels, ConnectingAreHere
<1>8. /\ channels[i].conn_handle = r.handle
      /\ \A k \in DOMAIN channels : channels[k].local_cid = r.local_cid => k = i
  BY <1>7 DEF Undisturbed, RequestsNameChannels, HandlesMatch, TypeOK
<1>9. Requests'
  BY <1>1, <1>4, AnswerKeepsRequests DEF Undisturbed
<1> HIDE DEF e
<1>10. HandlesMatch' /\ ConnectingOnce'
  BY <1>1, <1>4 DEF Undisturbed, RequestsNameChannels, HandlesMatch, ConnectingOnce
<1>11. ConnectingAreHere'
  <2>1. ASSUME NEW s \in asked', s.code = "Connection"
        PROVE  \E k \in DOMAIN channels' :
                 channels'[k].local_cid = s.local_cid /\ channels'[k].remote_cid = NoCid
    <3>1. s \in asked /\ s.local_cid # r.local_cid
      BY <1>1, <2>1 DEF Undisturbed, RequestsNameChannels, ConnectingOnce
    <3>2. PICK k \in DOMAIN channels :
            channels[k].local_cid = s.local_cid /\ channels[k].remote_cid = NoCid
      BY <2>1, <3>1 DEF Undisturbed, RequestsNameChannels, ConnectingAreHere
    <3> QED
      BY <1>4, <3>1, <3>2
  <2> QED
    BY <2>1 DEF ConnectingAreHere
<1>12. RemotesAreKnown'
  <2>1. \A k \in DOMAIN channels :
          channels[k].remote_cid # NoCid => channels'[k].remote_cid # NoCid
    BY <1>4, <1>5
  <2> QED
    BY <1>4, <1>6, <2>1 DEF Undisturbed, RequestsNameChannels, RemotesAreKnown
<1>13. PeersAreKnown'
  BY <1>1, <1>2 DEF Undisturbed, PeersAreKnown
<1>14. \A q \in peers' : \E k \in DOMAIN channels' : Joined(k, q)'
  <2>1. ASSUME NEW q \in peers
        PROVE  \E k \in DOMAIN channels' : Joined(k, q)'
    <3>1. PICK k \in DOMAIN channels : Joined(k, q)
      BY DEF Undisturbed, Ends
    <3>2. q.remote \in RemoteCid
      BY DEF TypeOK
    <3>3. channels[k].local_cid # r.local_cid
      BY <1>5, <1>7, <1>8, <3>1, <3>2 DEF Joined
    <3> QED
      BY <1>4, <3>1, <3>3 DEF Joined
  <2>2. ASSUME NEW q, q = p
        PROVE  \E k \in DOMAIN channels' : Joined(k, q)'
    BY <1>2, <1>4, <1>7, <1>8, <2>2 DEF Joined
  <2> QED
    BY <1>1, <2>1, <2>2
<1>15. ASSUME NEW k \in DOMAIN channels', channels'[k].remote_cid # NoCid,
              channels'[k].conn_handle \notin lost'
       PROVE  \E q \in peers' : Joined(k, q)'
  <2>1. CASE channels[k].local_cid = r.local_cid
    BY <1>1, <1>2, <1>4, <1>8, <2>1 DEF Joined
  <2>2. CASE channels[k].local_cid # r.local_cid
    BY <1>1, <1>4, <1>15, <2>2 DEF Joined, Undisturbed, Ends
  <2> QED
    BY <2>1, <2>2
<1> QED
  BY <1>9, <1>10, <1>11, <1>12, <1>13, <1>14, <1>15 DEF Undisturbed, RequestsNameChannels, Ends

\* A refusal, and the answer to a configuration, leave every remote cid alone.
LEMMA SettledUndisturbed ==
  ASSUME TypeOK, Undisturbed, NEW r \in asked, Settled(r), RemotesKept,
         asked' = asked \ {r}, UNCHANGED <<peers, lost>>
  PROVE  Undisturbed'
<1> DEFINE e == AnsweredEntry(r)
<1>1. Matching(r) # {} /\ e \in DOMAIN pending
  BY OwnEntry DEF Undisturbed
<1>2. /\ pending' = SwapRemove(pending, e)
      /\ DOMAIN channels' = DOMAIN channels
      /\ \A k \in DOMAIN channels :
           /\ channels'[k].local_cid = channels[k].local_cid
           /\ channels'[k].conn_handle = channels[k].conn_handle
           /\ channels'[k].remote_cid = channels[k].remote_cid
  BY <1>1 DEF Settled, UpdatesOnly, RemotesKept
<1>3. pending \in Seq(Pending)
  BY DEF TypeOK, Pending
<1>4. \A k \in DOMAIN pending' : \E j \in DOMAIN pending : pending'[k] = pending[j]
  BY <1>1, <1>2, <1>3, OthersStay
<1>5. Requests'
  BY <1>2, AnswerKeepsRequests DEF Undisturbed
<1>6. RequestsNameChannels'
  BY <1>2, <1>4 DEF Undisturbed, RequestsNameChannels, HandlesMatch,
                    ConnectingAreHere, ConnectingOnce, RemotesAreKnown
<1>7. PeersAreKnown' /\ Ends'
  BY <1>2 DEF Undisturbed, PeersAreKnown, Ends, Joined
<1> QED
  BY <1>5, <1>6, <1>7 DEF Undisturbed

\* The answer to a disconnection takes the channel away at both ends.
LEMMA DisconnectionUndisturbed ==
  ASSUME TypeOK, Undisturbed, NEW r \in asked, DisconnectionAnswered(r)
  PROVE  Undisturbed'
<1> DEFINE e == AnsweredEntry(r)
<1>1. /\ r.code = "Disconnection" /\ asked' = asked \ {r} /\ lost' = lost
      /\ peers' = {p \in peers : ~(p.handle = r.handle /\ p.local = r.local_cid)}
  BY DEF DisconnectionAnswered
<1>2. /\ Matching(r) # {} /\ e \in DOMAIN pending
      /\ pending[e].local_cid = r.local_cid /\ pending[e].code = r.code
  BY OwnEntry DEF Undisturbed, PendingAs
<1>3. /\ pending' = SwapRemove(pending, e)
      /\ \/ (\A k \in DOMAIN channels : channels[k].local_cid # r.local_cid) /\ UNCHANGED channels
         \/ \E k \in DOMAIN channels :
              /\ channels[k].local_cid = r.local_cid
              /\ channels' = SwapRemove(channels, k)
  BY <1>2, RemovedIs DEF Removed
<1>4. channels \in Seq(Channel) /\ pending \in Seq(Pending)
  BY DEF TypeOK, Pending
<1>5. \A k \in DOMAIN pending' : \E j \in DOMAIN pending : pending'[k] = pending[j]
  BY <1>2, <1>3, <1>4, OthersStay
<1>6. /\ \A k \in DOMAIN channels' : \E j \in DOMAIN channels :
           channels'[k] = channels[j] /\ channels[j].local_cid # r.local_cid
      /\ \A j \in DOMAIN channels :
           channels[j].local_cid # r.local_cid =>
             \E k \in DOMAIN channels' : channels'[k] = channels[j]
  <2>1. CASE (\A k \in DOMAIN channels : channels[k].local_cid # r.local_cid)
             /\ UNCHANGED channels
    BY <2>1
  <2>2. ASSUME NEW i \in DOMAIN channels, channels[i].local_cid = r.local_cid,
               channels' = SwapRemove(channels, i)
        PROVE  <1>6!1 /\ <1>6!2
    <3>1. \A j \in DOMAIN channels : channels[j].local_cid = r.local_cid => j = i
      BY <2>2 DEF TypeOK
    <3>2. /\ \A k \in DOMAIN channels' : \E j \in DOMAIN channels \ {i} :
               channels'[k] = channels[j]
          /\ \A j \in DOMAIN channels \ {i} : \E k \in DOMAIN channels' :
               channels'[k] = channels[j]
      BY <1>4, <2>2, OthersStay
    <3> QED
      BY <2>2, <3>1, <3>2
  <2> QED
    BY <1>3, <2>1, <2>2
<1>7. Requests'
  BY <1>1, <1>3, AnswerKeepsRequests DEF Undisturbed
<1> HIDE DEF e
<1>8. HandlesMatch' /\ ConnectingOnce' /\ RemotesAreKnown'
  BY <1>1, <1>5, <1>6
  DEF Undisturbed, RequestsNameChannels, HandlesMatch, ConnectingOnce, RemotesAreKnown
<1>9. ConnectingAreHere'
  <2>1. ASSUME NEW s \in asked', s.code = "Connection"
        PROVE  \E k \in DOMAIN channels' :
                 channels'[k].local_cid = s.local_cid /\ channels'[k].remote_cid = NoCid
    <3>1. PICK j \in DOMAIN channels :
            channels[j].local_cid = s.local_cid /\ channels[j].remote_cid = NoCid
      BY <1>1, <2>1 DEF Undisturbed, RequestsNameChannels, ConnectingAreHere
    <3>2. channels[j].local_cid # r.local_cid
      BY <1>1, <1>2, <3>1 DEF Undisturbed, RequestsNameChannels, RemotesAreKnown
    <3> QED
      BY <1>6, <3>1, <3>2
  <2> QED
    BY <2>1 DEF ConnectingAreHere
<1>10. PeersAreKnown'
  BY <1>1 DEF Undisturbed, PeersAreKnown
<1>11. ASSUME NEW q \in peers'
       PROVE  \E k \in DOMAIN channels' : Joined(k, q)'
  <2>1. PICK j \in DOMAIN channels : Joined(j, q)
    BY <1>1 DEF Undisturbed, Ends
  <2>2. channels[j].local_cid # r.local_cid
    BY <1>1, <2>1 DEF Joined, Undisturbed, RequestsNameChannels, HandlesMatch
  <2>3. PICK k \in DOMAIN channels' : channels'[k] = channels[j]
    BY <1>6, <2>2
  <2> QED
    BY <2>1, <2>3 DEF Joined
<1>12. ASSUME NEW k \in DOMAIN channels', channels'[k].remote_cid # NoCid,
              channels'[k].conn_handle \notin lost'
       PROVE  \E q \in peers' : Joined(k, q)'
  <2>1. PICK j \in DOMAIN channels :
          channels'[k] = channels[j] /\ channels[j].local_cid # r.local_cid
    BY <1>6
  <2>2. PICK q \in peers : Joined(j, q)
    BY <1>1, <1>12, <2>1 DEF Undisturbed, Ends
  <2> QED
    BY <1>1, <2>1, <2>2 DEF Joined
<1> QED
  BY <1>7, <1>8, <1>9, <1>10, <1>11, <1>12 DEF Undisturbed, RequestsNameChannels, Ends

-----------------------------------------------------------------------------
(* The invariants.                                                         *)

LEMMA UndisturbedInit == Init => Undisturbed
<1> SUFFICES ASSUME Init PROVE Undisturbed
  OBVIOUS
<1>1. /\ DOMAIN channels = {} /\ DOMAIN pending = {} /\ Len(pending) = 0
      /\ asked = {} /\ peers = {}
  BY DEF Init
<1> QED
  BY <1>1, FS_EmptySet
  DEF Undisturbed, Requests, RequestsNameChannels, HandlesMatch, ConnectingAreHere,
      ConnectingOnce, RemotesAreKnown, PeersAreKnown, Ends

LEMMA UndisturbedNext ==
  ~Deferring /\ IndInv /\ [Next]_vars /\ ~reused' => Undisturbed'
<1> SUFFICES ASSUME ~Deferring, IndInv, [Next]_vars, ~reused' PROVE Undisturbed'
  OBVIOUS
<1>1. TypeOK /\ (~reused => Undisturbed)
  BY DEF IndInv
<1>2. CASE User
  <2>1. ~reused
    BY <1>2 DEF User, Connect, Configure, Disconnect, NoteReuse
  <2> QED
    BY <1>1, <1>2, <2>1, ConnectUndisturbed, CallUndisturbed DEF User
<1>3. CASE PeerRequest
  <2>1. ~reused
    BY <1>3 DEF PeerRequest, PeerConnects, PeerConfigures, PeerDisconnects, NoteReuse
  <2> QED
    BY <1>1, <1>3, <2>1, PeerConnectsUndisturbed, PeerConfiguresUndisturbed,
       PeerDisconnectsUndisturbed DEF PeerRequest
<1>4. ASSUME NEW h \in Handle, LinkLost(h)
      PROVE  Undisturbed'
  BY <1>1, <1>4, LinkLostUndisturbed DEF LinkLost
<1>5. ASSUME NEW r \in asked, Answer(r), reused' = reused
      PROVE  Undisturbed'
  <2>1. Undisturbed
    BY <1>1, <1>5
  <2>2. ASSUME NEW remote \in RemoteCid, ConnectionAccepted(r, remote)
        PROVE  Undisturbed'
    BY <1>1, <2>1, <2>2, AcceptedUndisturbed
  <2>3. ASSUME ConnectionRefused(r, TRUE)
        PROVE  Undisturbed'
    BY <1>1, <2>1, <2>3, RefusedIs, SettledUndisturbed DEF ConnectionRefused
  <2>4. ASSUME ConfigurationAnswered(r)
        PROVE  Undisturbed'
    BY <1>1, <2>1, <2>4, ConfiguredIs, SettledUndisturbed DEF ConfigurationAnswered
  <2>5. ASSUME DisconnectionAnswered(r)
        PROVE  Undisturbed'
    BY <1>1, <2>1, <2>5, DisconnectionUndisturbed
  <2>6. \A final \in {TRUE, ~Deferring} : final = TRUE
    OBVIOUS
  <2> QED
    BY <1>5, <2>2, <2>3, <2>4, <2>5, <2>6 DEF Answer
<1>6. CASE UNCHANGED vars
  BY <1>1, <1>6
  DEF vars, Undisturbed, Requests, PendingAs, RequestsNameChannels, HandlesMatch,
      ConnectingAreHere, ConnectingOnce, RemotesAreKnown, PeersAreKnown, Ends, Joined
<1> QED
  BY <1>2, <1>3, <1>4, <1>5, <1>6 DEF Next

LEMMA IndInvHolds == ~Deferring /\ Spec => []IndInv
<1>1. Init => IndInv
  BY TypeInit, UndisturbedInit DEF IndInv
<1>2. ~Deferring /\ IndInv /\ [Next]_vars => IndInv'
  BY TypeNext, UndisturbedNext DEF IndInv
<1>3. CASE Deferring
  BY <1>3
<1>4. CASE ~Deferring
  <2>1. IndInv /\ [Next]_vars => IndInv'
    BY <1>2, <1>4
  <2> QED
    BY <1>1, <2>1, PTL DEF Spec
<1> QED
  BY <1>3, <1>4

\* Where peers answer finally and no counter has met a pending request, every channel
\* that a peer has open is in the table with the peer's cid and link, and every one
\* of which the table has the remote cid is open at the peer, unless its link was
\* lost: whatever requests and answers cross.
THEOREM BothEnds == ~Deferring /\ Spec => []EndsAgree
<1>1. IndInv => EndsAgree
  BY DEF IndInv, Undisturbed, Ends, EndsAgree
<1> QED
  BY <1>1, IndInvHolds, PTL

\* Where peers answer finally and no counter has met a pending request, every request
\* that a peer holds is pending for the same channel, no two pending ones share an
\* identifier, and as long as no link was lost none is waited for in vain.
THEOREM PendingAsked == ~Deferring /\ Spec => []AskedIsPending
<1>1. IndInv => AskedIsPending
  BY DEF IndInv, Undisturbed, Requests, PendingAs, AskedIsPending
<1> QED
  BY <1>1, IndInvHolds, PTL

\* Where peers answer finally and no counter has met a pending request, an answer
\* changes or removes the channel its request was sent for and no other one.
THEOREM OwnChannel == ~Deferring /\ Spec => AnswersOwnChannel
<1>1. ASSUME ~Deferring, IndInv, [Next]_vars, ~reused, NEW r \in asked,
             asked' = asked \ {r}, left' = left
      PROVE  \A i \in DOMAIN channels :
               channels[i].local_cid # r.local_cid =>
                 \E j \in DOMAIN channels' : channels'[j] = channels[i]
  <2>1. TypeOK /\ Undisturbed
    BY <1>1 DEF IndInv
  <2>2. Answer(r)
    <3>1. left \in Nat
      BY <2>1 DEF TypeOK
    <3>2. PICK s \in asked : Answer(s)
      <4>1. ~UNCHANGED vars
        BY <1>1 DEF vars
      <4>2. ~(left > 0 /\ left' = left - 1)
        BY <1>1, <3>1
      <4> QED
        BY <1>1, <4>1, <4>2 DEF Next
    <3>3. asked' = asked \ {s}
      <4>1. \A final \in {TRUE, ~Deferring} : final = TRUE
        BY <1>1
      <4> QED
        BY <3>2, <4>1
        DEF Answer, ConnectionAccepted, ConnectionRefused, ConfigurationAnswered,
            DisconnectionAnswered
    <3> QED
      BY <1>1, <3>2, <3>3
  <2>3. pending[AnsweredEntry(r)].local_cid = r.local_cid
    BY <2>1, OwnEntry DEF Undisturbed, PendingAs
  <2>4. CASE Settled(r)
    BY <2>3, <2>4 DEF Settled, UpdatesOnly
  <2>5. CASE Removed(r)
    <3>1. channels \in Seq(Channel)
      BY <2>1 DEF TypeOK
    <3>2. \/ UNCHANGED channels
          \/ \E k \in DOMAIN channels : /\ channels[k].local_cid = r.local_cid
                                        /\ channels' = SwapRemove(channels, k)
      BY <2>3, <2>5 DEF Removed
    <3>3. ASSUME NEW k \in DOMAIN channels, channels[k].local_cid = r.local_cid,
                 channels' = SwapRemove(channels, k)
          PROVE  \A i \in DOMAIN channels :
                   channels[i].local_cid # r.local_cid =>
                     \E j \in DOMAIN channels' : channels'[j] = channels[i]
      <4>1. \A i \in DOMAIN channels \ {k} : \E j \in DOMAIN channels' :
              channels'[j] = channels[i]
        BY <3>1, <3>3, OthersStay
      <4> QED
        BY <3>3, <4>1
    <3> QED
      BY <3>2, <3>3
  <2> QED
    BY <2>1, <2>2, <2>4, <2>5, AcceptedIs, RefusedIs, ConfiguredIs, RemovedIs DEF Answer
<1>2. ~Deferring /\ IndInv /\ [Next]_vars => [TouchesOwnChannel]_vars
  BY <1>1 DEF TouchesOwnChannel
<1>3. CASE Deferring
  BY <1>3
<1>4. CASE ~Deferring
  <2>1. IndInv /\ [Next]_vars => [TouchesOwnChannel]_vars
    BY <1>2, <1>4
  <2> QED
    BY <2>1, <1>4, IndInvHolds, PTL DEF Spec, AnswersOwnChannel
<1> QED
  BY <1>3, <1>4
=============================================================================
