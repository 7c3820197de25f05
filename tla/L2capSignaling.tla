---------------------------- MODULE L2capSignaling ----------------------------
(***************************************************************************)
(* SignalingProcessor and ChannelManager (src/src/l2cap/processor.rs and   *)
(* channel.rs): one table of channels, one list of pending requests and    *)
(* one identifier counter, shared by all ACL links.                        *)
(*                                                                         *)
(* The local user of the processor calls connect, configure_channel and    *)
(* disconnect, and transmits the commands they return.  A peer answers a   *)
(* request it was sent at most once and in any order, or never; it opens,  *)
(* configures and closes channels itself; its link can drop.  A peer's     *)
(* answer and the host's handling of it are one step, which leaves every   *)
(* crossing of requests: what the peer was asked it may leave lying.       *)
(*                                                                         *)
(* Addresses, PSMs and configuration options do not influence the tables   *)
(* (an incoming request for another PSM than AVDTP is refused and changes  *)
(* nothing) and are left out.                                              *)
(***************************************************************************)
EXTENDS Naturals, Sequences, FiniteSets, SequencesExt

CONSTANTS
  Handle,           \* connection handles
  RemoteCid,        \* channel ids of peers
  NoCid,            \* remote_cid: None
  FirstCid,         \* cid::DYNAMIC_START
  LastCid,          \* the largest channel id, 0xFFFF
  MaxChannels,      \* MAX_L2CAP_CHANNELS
  MaxPending,       \* MAX_PENDING_REQUESTS
  MaxIdentifier,    \* the largest identifier, 255
  Deferring,        \* whether peers may answer "connection pending" first
  MaxSteps          \* bound: calls, requests of peers and links lost

ASSUME L2capAssumption ==
  /\ NoCid \notin RemoteCid
  /\ FirstCid \in Nat /\ LastCid \in Nat
  /\ MaxChannels \in Nat \ {0} /\ FirstCid + MaxChannels <= LastCid
  /\ MaxPending \in Nat \ {0}
  /\ MaxIdentifier \in Nat \ {0}
  /\ Deferring \in BOOLEAN
  /\ MaxSteps \in Nat

VARIABLES
  channels,       \* ChannelManager: the channels, in the order of its index map
  nextCid,        \* next_local_cid
  pending,        \* pending_requests
  nextId,         \* the identifier generator
  asked,          \* the requests peers have been sent and not answered
  peers,          \* the channels peers have open
  lost,           \* the handles whose link was lost at some time
  reused,         \* whether a pending request was met by a reused identifier or cid
  left            \* steps left of the bound

vars == <<channels, nextCid, pending, nextId, asked, peers, lost, reused, left>>

-----------------------------------------------------------------------------
(* The tables.                                                             *)

\* FnvIndexMap::remove and Vec::swap_remove: the last element takes the place.
SwapRemove(s, i) == [k \in 1 .. Len(s) - 1 |-> IF k = i THEN s[Len(s)] ELSE s[k]]

Where(s, Test(_)) == {i \in DOMAIN s : Test(s[i])}

First(S) == CHOOSE i \in S : \A j \in S : i <= j

InUse == {channels[i].local_cid : i \in DOMAIN channels}

\* The channel with a local cid, as a set of at most one index.
At(cid) == Where(channels, LAMBDA c : c.local_cid = cid)

\* The cid k places after nextCid, wrapping around.
CidAfter(k) == FirstCid + ((nextCid - FirstCid + k) % (LastCid + 1 - FirstCid))

\* allocate_cid passes over the cids in use: so many are tried in vain.
Tries == First({k \in 0 .. MaxChannels : CidAfter(k) \notin InUse})

\* Mutant: the cids in use are not passed over.
AllocatedUnchecked == CidAfter(0)

AllocatedCid == CidAfter(Tries)
NextCid == CidAfter(Tries + 1)

NewChannel(cid, remote, handle, state) ==
  [local_cid |-> cid, remote_cid |-> remote, conn_handle |-> handle,
   state |-> state, local_state |-> "NotConfigured", remote_state |-> "NotConfigured"]

\* next_identifier counts from 1 to 255 and round again.
NextIdentifier == IF nextId = MaxIdentifier THEN 1 ELSE nextId + 1

\* What a request leaves behind when it is sent: an identifier used, and its
\* entry among the pending ones.  A full list is an error, and the caller gets
\* no command to transmit; what was done before that stays done.
SendUnchecked(code, cid, handle) ==
  /\ nextId' = NextIdentifier
  /\ pending' = IF Len(pending) < MaxPending
                THEN Append(pending, [identifier |-> nextId, local_cid |-> cid, code |-> code])
                ELSE pending
  /\ asked' = asked \cup {[handle |-> handle, identifier |-> nextId, code |-> code,
                           local_cid |-> cid]}

Send(code, cid, handle) ==
  /\ nextId' = NextIdentifier
  /\ IF Len(pending) < MaxPending
     THEN /\ pending' = Append(pending, [identifier |-> nextId, local_cid |-> cid, code |-> code])
          /\ asked' = asked \cup {[handle |-> handle, identifier |-> nextId, code |-> code,
                                   local_cid |-> cid]}
     ELSE UNCHANGED <<pending, asked>>

\* A request that is never answered stays pending for good.  Nothing keeps the
\* counters, once they have come round, from giving a new request its identifier
\* or a new channel its cid; the history says whether that has happened.
IdentifierPending == \E i \in DOMAIN pending : pending[i].identifier = nextId
CidPending == \E i \in DOMAIN pending : pending[i].local_cid = AllocatedCid
NoteReuse(met) == reused' = (reused \/ met)

-----------------------------------------------------------------------------
(* Calls of the local user.                                                *)

Connect(h) ==
  /\ nextCid' = NextCid
  /\ \/ /\ Len(channels) < MaxChannels
        /\ channels' = Append(channels, NewChannel(AllocatedCid, NoCid, h, "WaitConnect"))
        /\ Send("Connection", AllocatedCid, h)
        /\ NoteReuse(IdentifierPending \/ CidPending)
     \/ /\ Len(channels) = MaxChannels
        /\ UNCHANGED <<channels, pending, nextId, asked, reused>>
  /\ UNCHANGED <<peers, lost>>

\* configure_channel, for a channel whose remote cid is known.
Configure(i) ==
  /\ channels[i].remote_cid # NoCid
  /\ NoteReuse(IdentifierPending)
  /\ channels' = [channels EXCEPT ![i].local_state = "InProgress"]
  /\ Send("Configuration", channels[i].local_cid, channels[i].conn_handle)
  /\ UNCHANGED <<nextCid, peers, lost>>

Disconnect(i) ==
  /\ channels[i].remote_cid # NoCid
  /\ NoteReuse(IdentifierPending)
  /\ channels' = [channels EXCEPT ![i].state = "WaitDisconnect"]
  /\ Send("Disconnection", channels[i].local_cid, channels[i].conn_handle)
  /\ UNCHANGED <<nextCid, peers, lost>>

-----------------------------------------------------------------------------
(* Requests of peers.                                                      *)

PeerCids(h) == {p.remote : p \in {q \in peers : q.handle = h}}

\* handle_connection_request: a full table is an error without a response, and
\* then the peer gives up.
PeerConnects(h, remote) ==
  /\ remote \notin PeerCids(h)
  /\ nextCid' = NextCid
  /\ \/ /\ Len(channels) < MaxChannels
        /\ channels' = Append(channels, NewChannel(AllocatedCid, remote, h, "WaitConnectRsp"))
        /\ peers' = peers \cup {[handle |-> h, remote |-> remote, local |-> AllocatedCid,
                                 configured |-> FALSE]}
        /\ NoteReuse(CidPending)
     \/ /\ Len(channels) = MaxChannels
        /\ UNCHANGED <<channels, peers, reused>>
  /\ UNCHANGED <<pending, nextId, asked, lost>>

\* handle_configuration_request: accepted, and nothing is recorded of it.
PeerConfigures(p) ==
  /\ ~p.configured
  /\ peers' = (peers \ {p}) \cup {[p EXCEPT !.configured = TRUE]}
  /\ UNCHANGED <<channels, nextCid, pending, nextId, asked, lost, reused>>

\* Mutant: the channel is looked up by the remote cid alone.
FoundOnAnyLink(remote, h) == Where(channels, LAMBDA c : c.remote_cid = remote)

\* find_by_remote_cid: the first one counts.
Found(remote, h) ==
  Where(channels, LAMBDA c : c.remote_cid = remote /\ c.conn_handle = h)

\* handle_disconnection_request: answered whether or not a channel is found.
PeerDisconnects(p) ==
  /\ channels' = IF Found(p.remote, p.handle) = {} THEN channels
                 ELSE SwapRemove(channels, First(Found(p.remote, p.handle)))
  /\ peers' = peers \ {p}
  /\ UNCHANGED <<nextCid, pending, nextId, asked, lost, reused>>

-----------------------------------------------------------------------------
(* Answers of peers.  A response is matched with the first pending request *)
(* of its identifier and kind; without one it is an error.                 *)

\* Mutant: any pending request of the kind will do.
MatchingKind(r) == Where(pending, LAMBDA q : q.code = r.code)

Matching(r) ==
  Where(pending, LAMBDA q : q.identifier = r.identifier /\ q.code = r.code)

\* The request is taken off the list, and the channel it was for, if it is
\* still there, gets Update.
Settle(r, Update(_)) ==
  IF Matching(r) = {}
  THEN UNCHANGED <<channels, pending>>
  ELSE LET i == First(Matching(r)) IN
       /\ pending' = SwapRemove(pending, i)
       /\ channels' = [k \in DOMAIN channels |->
                         IF k \in At(pending[i].local_cid) THEN Update(channels[k])
                                                           ELSE channels[k]]

\* handle_connection_response.
ConnectionAccepted(r, remote) ==
  /\ r.code = "Connection"
  /\ remote \notin PeerCids(r.handle)
  /\ Settle(r, LAMBDA c : [c EXCEPT !.remote_cid = remote, !.state = "Config"])
  /\ asked' = asked \ {r}
  /\ peers' = peers \cup {[handle |-> r.handle, remote |-> remote, local |-> r.local_cid,
                           configured |-> FALSE]}
  /\ UNCHANGED <<nextCid, nextId, lost>>

\* Every result but success closes the channel: a refusal, and also "connection
\* pending", after which the final answer is still to come.
ConnectionRefused(r, final) ==
  /\ r.code = "Connection"
  /\ Settle(r, LAMBDA c : [c EXCEPT !.state = "Closed"])
  /\ asked' = IF final THEN asked \ {r} ELSE asked
  /\ UNCHANGED <<nextCid, nextId, peers, lost>>

\* handle_configuration_response, with either result.
LocallyConfigured(c) ==
  [c EXCEPT !.local_state = "Complete",
            !.state = IF c.remote_state = "Complete" THEN "Open" ELSE @]

ConfigurationAnswered(r) ==
  /\ r.code = "Configuration"
  /\ \/ Settle(r, LocallyConfigured)
     \/ Settle(r, LAMBDA c : [c EXCEPT !.state = "Closed"])
  /\ asked' = asked \ {r}
  /\ UNCHANGED <<nextCid, nextId, peers, lost>>

\* handle_disconnection_response: the channel is removed if it is still there.
DisconnectionAnswered(r) ==
  /\ r.code = "Disconnection"
  /\ asked' = asked \ {r}
  /\ peers' = {p \in peers : ~(p.handle = r.handle /\ p.local = r.local_cid)}
  /\ IF Matching(r) = {}
     THEN UNCHANGED <<channels, pending>>
     ELSE LET i == First(Matching(r))
              found == At(pending[i].local_cid)
          IN /\ pending' = SwapRemove(pending, i)
             /\ channels' = IF found = {} THEN channels
                            ELSE SwapRemove(channels, First(found))
  /\ UNCHANGED <<nextCid, nextId, lost>>

\* The link is lost, and the handle can come back: AclManager::remove_connection
\* tells the signalling processor nothing.
LinkLost(h) ==
  /\ peers' = {p \in peers : p.handle # h}
  /\ asked' = {r \in asked : r.handle # h}
  /\ lost' = lost \cup {h}
  /\ UNCHANGED <<channels, nextCid, pending, nextId, reused>>

-----------------------------------------------------------------------------
Init ==
  /\ channels = <<>>
  /\ nextCid = FirstCid
  /\ pending = <<>>
  /\ nextId = 1
  /\ asked = {}
  /\ peers = {}
  /\ lost = {}
  /\ reused = FALSE
  /\ left = MaxSteps

User == \/ \E h \in Handle : Connect(h)
        \/ \E i \in DOMAIN channels : Configure(i) \/ Disconnect(i)

PeerRequest == \/ \E h \in Handle, remote \in RemoteCid : PeerConnects(h, remote)
               \/ \E p \in peers : PeerConfigures(p) \/ PeerDisconnects(p)

Answer(r) == \/ \E remote \in RemoteCid : ConnectionAccepted(r, remote)
             \/ \E final \in {TRUE, ~Deferring} : ConnectionRefused(r, final)
             \/ ConfigurationAnswered(r)
             \/ DisconnectionAnswered(r)

Next ==
  \/ /\ left > 0
     /\ left' = left - 1
     /\ User \/ PeerRequest \/ \E h \in Handle : LinkLost(h)
  \/ /\ \E r \in asked : Answer(r)
     /\ UNCHANGED <<reused, left>>

Spec == Init /\ [][Next]_vars

-----------------------------------------------------------------------------
(* Properties.                                                             *)

LocalCid == FirstCid .. LastCid
Code == {"Connection", "Configuration", "Disconnection"}
Identifier == 1 .. MaxIdentifier
ConfigurationState == {"NotConfigured", "InProgress", "Complete"}

Channel == [local_cid : LocalCid, remote_cid : RemoteCid \cup {NoCid}, conn_handle : Handle,
            state : {"Closed", "WaitConnect", "WaitConnectRsp", "Config", "Open",
                     "WaitDisconnect"},
            local_state : ConfigurationState, remote_state : ConfigurationState]

\* The type of every variable, with both tables within capacity, and no local
\* cid given to two channels.
TypeOK ==
  /\ channels \in Seq(Channel) /\ Len(channels) <= MaxChannels
  /\ \A i, j \in DOMAIN channels :
       channels[i].local_cid = channels[j].local_cid => i = j
  /\ nextCid \in LocalCid
  /\ pending \in Seq([identifier : Identifier, local_cid : LocalCid, code : Code])
  /\ Len(pending) <= MaxPending
  /\ nextId \in Identifier
  /\ asked \subseteq [handle : Handle, identifier : Identifier, code : Code,
                      local_cid : LocalCid]
  /\ peers \subseteq [handle : Handle, remote : RemoteCid, local : LocalCid,
                      configured : BOOLEAN]
  /\ lost \subseteq Handle
  /\ reused \in BOOLEAN
  /\ left \in 0 .. MaxSteps

\* Channel i of the table is the peer's open channel p.
Joined(i, p) == /\ channels[i].local_cid = p.local
                /\ channels[i].conn_handle = p.handle
                /\ channels[i].remote_cid = p.remote

\* Both ends agree on the channels between them, as long as the counters meet
\* no pending request: a channel that a peer has open is in the table, with the
\* peer's cid and handle; and one of which the table has the remote cid is open
\* at the peer, unless the link was lost meanwhile.  So no request, answer or
\* crossing of the two removes or joins the wrong channel.
EndsAgree ==
  ~reused =>
    /\ \A p \in peers : \E i \in DOMAIN channels : Joined(i, p)
    /\ \A i \in DOMAIN channels :
         channels[i].remote_cid # NoCid /\ channels[i].conn_handle \notin lost
           => \E p \in peers : Joined(i, p)

\* A peer that holds a request can answer it: the request is pending, for the
\* same channel, and no other one has its identifier.  A request that was not
\* transmitted is not waited for.
AskedIsPending ==
  ~reused =>
    /\ \A r \in asked : \E i \in DOMAIN pending :
         /\ pending[i].identifier = r.identifier
         /\ pending[i].code = r.code
         /\ pending[i].local_cid = r.local_cid
    /\ \A i, j \in DOMAIN pending : pending[i].identifier = pending[j].identifier => i = j
    /\ lost = {} => Cardinality(asked) = Len(pending)

\* The answer to a request touches the channel it was sent for and no other,
\* as long as the counters meet no pending request.
TouchesOwnChannel ==
  ~reused =>
    \A r \in asked :
      asked' = asked \ {r} /\ left' = left =>
        \A i \in DOMAIN channels :
          channels[i].local_cid # r.local_cid =>
            \E j \in DOMAIN channels' : channels'[j] = channels[i]

\* Every step of which that is so: no answer changes or removes another channel.
AnswersOwnChannel == [][TouchesOwnChannel]_vars
=============================================================================
