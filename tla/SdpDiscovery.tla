----------------------------- MODULE SdpDiscovery -----------------------------
(***************************************************************************)
(* Service discovery: SdpClient (src/src/sdp/client.rs) on this host and   *)
(* an SdpServer on each device, joined by L2CAP channels.                  *)
(*                                                                         *)
(* A channel is reliable and in order, and both its directions are lost    *)
(* when the link drops.  The crate has no code yet between the client and  *)
(* the channel or the channel and the server; the model sends the request  *)
(* that a call has built, and answers it with the handler for it and       *)
(* from_search_result, from_attribute_result or create_error_response.     *)
(* Meanwhile the application of a device adds, withdraws and amends its    *)
(* records, and that of the host removes requests and clears the cache.    *)
(***************************************************************************)
EXTENDS SdpServer

CONSTANTS
  Device,            \* remote devices
  Pattern,           \* service search patterns: sequences of classes
  ClassList,         \* class lists that a record may be given: sets of classes
  IdList,            \* attribute id lists: sequences of attributes
  MaxCount,          \* maximum_service_record_count
  MaxBytes,          \* maximum_attribute_byte_count
  MaxSearchUuids,    \* MAX_SEARCH_UUIDS
  MaxAttributeIds,   \* MAX_ATTRIBUTE_IDS
  MaxPending,        \* MAX_PENDING_REQUESTS
  MaxCached,         \* capacity of discovery_cache
  LastTransaction,   \* the largest transaction id, 2^16 - 1
  MaxSteps           \* bound: calls of the applications and links lost

ASSUME SdpDiscoveryAssumption ==
  /\ \A p \in Pattern : p \in Seq(Class)
  /\ ClassList \subseteq SUBSET Class
  /\ \A l \in IdList : l \in Seq(Attribute)
  /\ MaxCount \subseteq Nat /\ MaxBytes \subseteq Nat
  /\ MaxPending \in Nat \ {0} /\ MaxCached \in Nat
  /\ LastTransaction \in Nat \ {0} /\ MaxSteps \in Nat

VARIABLES
  servers,        \* the server of each device
  requests,       \* pending_requests, by transaction id
  nextId,         \* SdpProtocol::transaction_id
  cache,          \* discovery_cache, by device; uuids and states are histories: what was
                  \* searched for, and the state of each record when it was found
  toServer,       \* the requests on the channel to each device
  toClient,       \* the answers on the way back
  idReused,       \* history: a transaction id came back while it was in use
  handleReused,   \* history: the handles of a server have wrapped around
  left            \* steps left of the bound

vars == <<servers, requests, nextId, cache, toServer, toClient, idReused, handleReused, left>>

TransactionId == 0 .. LastTransaction
NextTransactionId(id) == IF id = LastTransaction THEN 0 ELSE id + 1

Init ==
  /\ servers = [d \in Device |-> NewServer]
  /\ requests = <<>> /\ nextId = 1 /\ cache = <<>>
  /\ toServer = [d \in Device |-> <<>>]
  /\ toClient = [d \in Device |-> <<>>]
  /\ idReused = FALSE /\ handleReused = FALSE
  /\ left = MaxSteps

Step == left > 0 /\ left' = left - 1

Put(map, key, value) == [k \in DOMAIN map \cup {key} |-> IF k = key THEN value ELSE map[k]]

\* Mutant of Insert: the map grows.
InsertUnbounded(map, key, value, capacity) == Put(map, key, value)

\* FnvIndexMap::insert: replaces, or needs room.
Insert(map, key, value, capacity) ==
  IF key \in DOMAIN map \/ Cardinality(DOMAIN map) < capacity THEN Put(map, key, value) ELSE map

-----------------------------------------------------------------------------
(* The servers.                                                            *)

Register(d, class) ==
  /\ Step
  /\ servers' = [servers EXCEPT ![d] = AddServiceRecord(@, ServiceRecord(class))]
  /\ handleReused' = (handleReused \/ servers[d].nextHandle = LastHandle)
  /\ UNCHANGED <<requests, nextId, cache, toServer, toClient, idReused>>

Withdraw(d, i) ==
  /\ Step
  /\ servers' = [servers EXCEPT ![d] = RemoveServiceRecord(@, @.records[i].handle)]
  /\ UNCHANGED <<requests, nextId, cache, toServer, toClient, idReused, handleReused>>

\* get_service_record_mut and add_attribute: an attribute added or replaced.
Amend(d, i, id) ==
  /\ Step
  /\ servers' = [servers EXCEPT ![d].records[i] = AddAttribute(@, id)]
  /\ UNCHANGED <<requests, nextId, cache, toServer, toClient, idReused, handleReused>>

\* The same with SERVICE_CLASS_ID_LIST: the record is of other classes from now on.
Reclassify(d, i, classes) ==
  /\ Step
  /\ servers' = [servers EXCEPT ![d].records[i] = SetClassList(@, classes)]
  /\ UNCHANGED <<requests, nextId, cache, toServer, toClient, idReused, handleReused>>

StateOf(s, h) == s.records[CHOOSE i \in Position(s, h) : TRUE].state

ErrorResponse(m) == [kind |-> "Error", id |-> m.id]

Response(s, m) ==
  CASE m.kind = "ServiceSearch" ->
         LET result == HandleServiceSearch(s, m.uuids, m.max)
         IN [kind |-> "ServiceSearch", id |-> m.id, handles |-> result.handles,
             total |-> result.total, uuids |-> m.uuids,
             states |-> [n \in DOMAIN result.handles |-> StateOf(s, result.handles[n])]]
    [] m.kind = "ServiceAttribute" ->
         LET octets == HandleServiceAttribute(s, m.handle, m.ids, m.max)
         IN IF octets = Failed THEN ErrorResponse(m)
            ELSE [kind |-> "ServiceAttribute", id |-> m.id, octets |-> octets]

Serve(d) ==
  /\ toServer[d] # <<>>
  /\ toServer' = [toServer EXCEPT ![d] = Tail(@)]
  /\ toClient' = [toClient EXCEPT ![d] = Append(@, Response(servers[d], Head(toServer[d])))]
  /\ UNCHANGED <<servers, requests, nextId, cache, idReused, handleReused, left>>

-----------------------------------------------------------------------------
(* The client.                                                             *)

UnderWay(d) == {m.id : m \in Range(toServer[d]) \cup Range(toClient[d])}

InUse == DOMAIN requests \cup UNION {UnderWay(d) : d \in Device}

\* lost is a history: the link was lost under the request.
PendingRequest(d, kind) == [addr |-> d, kind |-> kind, state |-> "Pending", lost |-> FALSE]

\* Mutant of Entered: the entry is made before the request is built.
EnteredFirst(d, kind, fits) == Insert(requests, nextId, PendingRequest(d, kind), MaxPending)

Entered(d, kind, fits) ==
  IF fits THEN Insert(requests, nextId, PendingRequest(d, kind), MaxPending) ELSE requests

\* A transaction id is taken first.  The request fits or does not, and so does its
\* entry; only then is it sent.
Request(d, m, fits) ==
  LET accepted == fits /\ nextId \in DOMAIN Entered(d, m.kind, fits)
  IN /\ Step
     /\ nextId' = NextTransactionId(nextId)
     /\ requests' = Entered(d, m.kind, fits)
     /\ toServer' = IF accepted THEN [toServer EXCEPT ![d] = Append(@, m)] ELSE toServer
     /\ idReused' = (idReused \/ (accepted /\ nextId \in InUse))
     /\ UNCHANGED <<servers, cache, toClient, handleReused>>

DiscoverServices(d, uuids, max) ==
  Request(d, [kind |-> "ServiceSearch", id |-> nextId, uuids |-> uuids, max |-> max],
          Len(uuids) <= MaxSearchUuids)

\* A handle comes from an earlier search.
GetServiceAttributes(d, ids, max) ==
  \E h \in IF d \in DOMAIN cache THEN Range(cache[d].handles) ELSE {} :
    Request(d, [kind |-> "ServiceAttribute", id |-> nextId, handle |-> h, ids |-> ids, max |-> max],
            Len(ids) <= MaxAttributeIds)

\* Mutant of Outcome: any answer completes the request.
OutcomeAnyAnswer(m) == "Completed"

Outcome(m) == IF m.kind = requests[m.id].kind THEN "Completed" ELSE "Failed"

\* Matched by the transaction id alone, whatever the state of the request.
ProcessResponse(d) ==
  LET m == Head(toClient[d])
      known == m.id \in DOMAIN requests
      addr == requests[m.id].addr
      result == [handles |-> m.handles, total |-> m.total,
                 uuids |-> m.uuids, states |-> m.states]
  IN /\ toClient[d] # <<>>
     /\ toClient' = [toClient EXCEPT ![d] = Tail(@)]
     /\ requests' =
          IF known
            THEN [requests EXCEPT ![m.id].state = Outcome(m)]
            ELSE requests
     /\ cache' = IF known /\ m.kind = "ServiceSearch" /\ requests[m.id].kind = m.kind
                   THEN Insert(cache, addr, result, MaxCached)
                   ELSE cache
     /\ UNCHANGED <<servers, nextId, toServer, idReused, handleReused, left>>

RemoveRequest(t) ==
  /\ Step
  /\ requests' = [u \in DOMAIN requests \ {t} |-> requests[u]]
  /\ UNCHANGED <<servers, nextId, cache, toServer, toClient, idReused, handleReused>>

\* cleanup_timed_out_requests: the finished ones go, the pending ones stay as they are.
Cleanup ==
  /\ Step
  /\ requests' = [u \in {v \in DOMAIN requests : requests[v].state = "Pending"} |-> requests[u]]
  /\ UNCHANGED <<servers, nextId, cache, toServer, toClient, idReused, handleReused>>

ClearCache ==
  /\ Step
  /\ cache' = <<>>
  /\ UNCHANGED <<servers, requests, nextId, toServer, toClient, idReused, handleReused>>

\* The link drops with something on it; nothing tells the client.
LinkLost(d) ==
  /\ Step /\ UnderWay(d) # {}
  /\ toServer' = [toServer EXCEPT ![d] = <<>>]
  /\ toClient' = [toClient EXCEPT ![d] = <<>>]
  /\ requests' = [t \in DOMAIN requests |->
                    [requests[t] EXCEPT !.lost = @ \/ requests[t].addr = d]]
  /\ UNCHANGED <<servers, nextId, cache, idReused, handleReused>>

-----------------------------------------------------------------------------
(* Specification.                                                          *)

Next ==
  \/ \E d \in Device, class \in Class \ {DefaultClass} : Register(d, class)
  \/ \E d \in Device : \E i \in DOMAIN servers[d].records : Withdraw(d, i)
  \/ \E d \in Device : \E i \in DOMAIN servers[d].records :
       \/ \E id \in Attribute \ {"class"} : Amend(d, i, id)
       \/ \E classes \in ClassList : Reclassify(d, i, classes)
  \/ \E d \in Device, uuids \in Pattern, max \in MaxCount : DiscoverServices(d, uuids, max)
  \/ \E d \in Device, ids \in IdList, max \in MaxBytes : GetServiceAttributes(d, ids, max)
  \/ \E d \in Device : Serve(d) \/ ProcessResponse(d) \/ LinkLost(d)
  \/ \E t \in DOMAIN requests : RemoveRequest(t)
  \/ Cleanup
  \/ ClearCache

Spec == Init /\ [][Next]_vars

-----------------------------------------------------------------------------
(* Properties.                                                             *)

SearchResult == [handles : Seq(Nat), total : Nat, uuids : Pattern, states : Seq(Nat)]

\* Types; no table above its capacity, and handles are unique in a database.
TypeOK ==
  /\ \A d \in Device :
       /\ Len(servers[d].records) <= MaxRecords
       /\ servers[d].nextHandle \in 0 .. LastHandle
       /\ \A r \in Range(servers[d].records) :
            r.classes \subseteq Class /\ Mandatory \subseteq r.attributes /\ r.attributes \subseteq Attribute
       /\ \A i, j \in DOMAIN servers[d].records :
            servers[d].records[i].handle = servers[d].records[j].handle => i = j
  /\ DOMAIN requests \subseteq TransactionId /\ Cardinality(DOMAIN requests) <= MaxPending
  /\ \A t \in DOMAIN requests :
       requests[t] \in [addr : Device, kind : {"ServiceSearch", "ServiceAttribute"},
                        state : {"Pending", "Completed", "Failed"}, lost : BOOLEAN]
  /\ DOMAIN cache \subseteq Device /\ Cardinality(DOMAIN cache) <= MaxCached
  /\ \A d \in DOMAIN cache : cache[d] \in SearchResult
  /\ nextId \in TransactionId /\ left \in 0 .. MaxSteps

\* A request that the table holds as pending is on its way to its device, or its answer
\* on the way back, unless the link was lost: neither a call that is refused nor a
\* handler that fails leaves the client waiting for an answer nobody will give.
PendingIsAwaited ==
  ~idReused =>
    \A t \in DOMAIN requests :
      requests[t].state = "Pending" /\ ~requests[t].lost => t \in UnderWay(requests[t].addr)

\* A handle in the cache is that of a service that was searched for, or of none any more,
\* unless the class list of that record has been replaced since it was found: no other
\* record that is added, withdrawn or amended comes to bear the handle.
CachedHandlesMatch ==
  ~idReused /\ ~handleReused =>
    \A d \in DOMAIN cache : \A n \in DOMAIN cache[d].handles, r \in Range(servers[d].records) :
      r.handle = cache[d].handles[n] =>
        Matches(r, cache[d].uuids) \/ cache[d].states[n] < r.listedAt

\* Whatever the database has become, a combined answer stays within the octets asked
\* for, each of its lists is the beginning of what the record has, and only the last
\* is cut.
CombinedAnswerFits ==
  \A d \in Device, uuids \in Pattern, ids \in IdList, max \in MaxBytes :
    LET lists == HandleServiceSearchAttribute(servers[d], uuids, ids, max)
        found == SearchServices(servers[d], uuids).handles
    IN /\ Len(FlattenSeq(lists)) <= max
       /\ \A i \in DOMAIN lists :
            LET whole == ServiceAttributes(servers[d], found[i], ids)
            IN /\ IsPrefix(lists[i], whole)
               /\ i < Len(lists) => lists[i] = whole

\* What a step may do to the outcome of a request that the table keeps.
FinishedByAnswer ==
  ~idReused' =>
    \A t \in DOMAIN requests \cap DOMAIN requests' :
      requests'[t].state # requests[t].state =>
        LET d == requests[t].addr
        IN /\ requests[t].state = "Pending"
           /\ toClient[d] # <<>> /\ Head(toClient[d]).id = t
           /\ Head(toClient[d]).kind \in {requests[t].kind, "Error"}
           /\ requests'[t].state = "Failed" <=> Head(toClient[d]).kind = "Error"

\* A request is finished by its own device's answer to a request of its kind, and one
\* that is finished keeps its outcome for as long as the table has it.
AnswersOwnRequest == [][FinishedByAnswer]_vars
=============================================================================
