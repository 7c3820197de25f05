------------------------------ MODULE A2dpProfile ------------------------------
(***************************************************************************)
(* A2dpProfile and AvdtpProtocol (src/src/a2dp/profile.rs and avdtp.rs):   *)
(* the stream endpoints of the device, its A2DP connections, and the       *)
(* streams, which are held in one table by handle and listed, by handle,   *)
(* in their connections.                                                   *)
(*                                                                         *)
(* The profile is a data structure that the application calls: any call    *)
(* may come at any time, with any argument.  A call that fails part-way    *)
(* keeps what it did until then.  Of a codec only matters whether the      *)
(* endpoint has it (SBC) or not; remote endpoints, channel ids and the     *)
(* other parts of a configuration are carried along and left out.          *)
(***************************************************************************)
EXTENDS Naturals, Sequences, FiniteSets, SequencesExt

CONSTANTS
  Addr,              \* addresses of devices
  ConnHandle,        \* ACL connection handles
  Config,            \* SBC configurations
  NoConfig,          \* configuration: None
  MaxEndpoints,      \* MAX_STREAM_ENDPOINTS
  MaxStreams,        \* MAX_ACTIVE_STREAMS
  MaxConnections,    \* MAX_A2DP_CONNECTIONS
  MaxListed,         \* streams in the list of a connection
  SeidCount,         \* number of endpoint ids, 2^8
  HandleCount        \* number of stream handles, 2^16

ASSUME A2dpAssumption ==
  /\ NoConfig \notin Config
  /\ MaxEndpoints \in Nat \ {0}
  /\ MaxStreams \in Nat \ {0}
  /\ MaxConnections \in Nat \ {0}
  /\ MaxListed \in Nat \ {0} /\ MaxStreams <= MaxListed
  /\ SeidCount \in Nat /\ MaxEndpoints < SeidCount
  /\ HandleCount \in Nat /\ MaxStreams < HandleCount

VARIABLES
  endpoints,      \* AvdtpProtocol: Vec<StreamEndpoint>
  streams,        \* AvdtpProtocol: FnvIndexMap<StreamHandle, AvdtpStream>
  nextHandle,     \* AvdtpProtocol: next_handle
  connections,    \* FnvIndexMap<BluetoothAddress, A2dpConnection>
  nextSeid,       \* next_seid
  reused          \* history: a new stream got the handle of a live one

vars == <<endpoints, streams, nextHandle, connections, nextSeid, reused>>

Seid == 0 .. SeidCount - 1
StreamHandle == 0 .. HandleCount - 1

-----------------------------------------------------------------------------
(* The tables.                                                             *)

\* get_endpoint: the index of the first endpoint with a seid, as a set.
EndpointAt(seid) ==
  {i \in DOMAIN endpoints : /\ endpoints[i].seid = seid
                            /\ \A j \in 1 .. i - 1 : endpoints[j].seid # seid}

\* StreamEndpoint::configure and reset, on the endpoint with a seid, if any.
Configured(seid, config) ==
  [i \in DOMAIN endpoints |->
     IF i \in EndpointAt(seid)
     THEN [endpoints[i] EXCEPT !.configuration = config, !.in_use = TRUE]
     ELSE endpoints[i]]

Reset(seid) ==
  [i \in DOMAIN endpoints |->
     IF i \in EndpointAt(seid)
     THEN [endpoints[i] EXCEPT !.configuration = NoConfig, !.in_use = FALSE]
     ELSE endpoints[i]]

Without(table, keys) == [k \in DOMAIN table \ keys |-> table[k]]

\* Mutant: the capacity does not matter.
FitsAnyway(table, key, capacity) == TRUE

\* insert fails only for a new key and a full table.
Fits(table, key, capacity) ==
  key \in DOMAIN table \/ Cardinality(DOMAIN table) < capacity

With(table, key, value) ==
  [k \in DOMAIN table \cup {key} |-> IF k = key THEN value ELSE table[k]]

Listed(a) == ToSet(connections[a].streams)

-----------------------------------------------------------------------------
(* Calls.                                                                  *)

\* add_sbc_endpoint: the seid is used up even if there is no room.
AddSbcEndpoint ==
  /\ nextSeid' = (nextSeid + 1) % SeidCount
  /\ endpoints' = IF Len(endpoints) < MaxEndpoints
                  THEN Append(endpoints, [seid |-> nextSeid, in_use |-> FALSE,
                                          configuration |-> NoConfig])
                  ELSE endpoints
  /\ UNCHANGED <<streams, nextHandle, connections, reused>>

\* create_connection, for an address that is not connected.
CreateConnection(a, ch) ==
  /\ a \notin DOMAIN connections
  /\ Fits(connections, a, MaxConnections)
  /\ connections' = With(connections, a, [conn_handle |-> ch, streams |-> <<>>])
  /\ UNCHANGED <<endpoints, streams, nextHandle, nextSeid, reused>>

\* Mutant: the streams of all connections are cleaned up.
RemoveConnectionAndAll(a) ==
  /\ a \in DOMAIN connections
  /\ connections' = Without(connections, {a})
  /\ streams' = Without(streams, DOMAIN streams)
  /\ UNCHANGED <<endpoints, nextHandle, nextSeid, reused>>

\* remove_connection: its streams go with it, their endpoints stay as they are.
RemoveConnection(a) ==
  /\ a \in DOMAIN connections
  /\ connections' = Without(connections, {a})
  /\ streams' = Without(streams, Listed(a))
  /\ UNCHANGED <<endpoints, nextHandle, nextSeid, reused>>

\* create_stream up to the configuration of the endpoint, which it does not ask
\* to be free.  Before that, an unknown address, an unknown endpoint or another
\* codec are errors that change nothing.  What follows can fail twice: the table
\* of streams is full, or the list of the connection is.
CreateStream(a, seid, config) ==
  /\ a \in DOMAIN connections
  /\ EndpointAt(seid) # {}
  /\ endpoints' = Configured(seid, config)
  /\ nextHandle' = (nextHandle + 1) % HandleCount
  /\ \/ /\ ~Fits(streams, nextHandle, MaxStreams)
        /\ UNCHANGED <<streams, connections, reused>>
     \/ /\ Fits(streams, nextHandle, MaxStreams)
        /\ reused' = (reused \/ nextHandle \in DOMAIN streams)
        /\ streams' = With(streams, nextHandle,
                           [local_seid  |-> seid,
                            remote_addr |-> a,
                            conn_handle |-> connections[a].conn_handle,
                            state       |-> "Configured",
                            codec       |-> config])
        /\ connections' =
             IF Len(connections[a].streams) < MaxListed
             THEN [connections EXCEPT ![a].streams = Append(@, nextHandle)]
             ELSE connections
  /\ UNCHANGED nextSeid

\* start_stream and suspend_stream, for a stream that is ready for it.
StartStream(s) ==
  /\ s \in DOMAIN streams
  /\ streams[s].state \in {"Configured", "Suspended"}
  /\ streams' = [streams EXCEPT ![s].state = "Streaming"]
  /\ UNCHANGED <<endpoints, nextHandle, connections, nextSeid, reused>>

SuspendStream(s) ==
  /\ s \in DOMAIN streams
  /\ streams[s].state = "Streaming"
  /\ streams' = [streams EXCEPT ![s].state = "Suspended"]
  /\ UNCHANGED <<endpoints, nextHandle, connections, nextSeid, reused>>

\* A2dpConnection::remove_stream: the first entry of the handle.
Unlisted(list, s) ==
  LET at == {i \in DOMAIN list : list[i] = s /\ \A j \in 1 .. i - 1 : list[j] # s}
  IN IF at = {} THEN list ELSE RemoveAt(list, CHOOSE i \in at : TRUE)

\* Mutant: the stream stays in the list of its connection.
CloseStreamListed(s) ==
  /\ s \in DOMAIN streams
  /\ streams' = Without(streams, {s})
  /\ endpoints' = Reset(streams[s].local_seid)
  /\ UNCHANGED <<nextHandle, connections, nextSeid, reused>>

\* close_stream.
CloseStream(s) ==
  /\ s \in DOMAIN streams
  /\ streams' = Without(streams, {s})
  /\ LET a == streams[s].remote_addr IN
       connections' = IF a \in DOMAIN connections
                      THEN [connections EXCEPT ![a].streams = Unlisted(@, s)]
                      ELSE connections
  /\ endpoints' = Reset(streams[s].local_seid)
  /\ UNCHANGED <<nextHandle, nextSeid, reused>>

-----------------------------------------------------------------------------
Init ==
  /\ endpoints = <<>>
  /\ streams = [s \in {} |-> [local_seid |-> 0]]
  /\ nextHandle = 1
  /\ connections = [a \in {} |-> [streams |-> <<>>]]
  /\ nextSeid = 1
  /\ reused = FALSE

Next ==
  \/ AddSbcEndpoint
  \/ \E a \in Addr :
       \/ \E ch \in ConnHandle : CreateConnection(a, ch)
       \/ RemoveConnection(a)
       \/ \E seid \in Seid, config \in Config : CreateStream(a, seid, config)
  \/ \E s \in StreamHandle : StartStream(s) \/ SuspendStream(s) \/ CloseStream(s)

Spec == Init /\ [][Next]_vars
-----------------------------------------------------------------------------
(* Properties.                                                             *)

Endpoint == [seid : Seid, in_use : BOOLEAN, configuration : Config \cup {NoConfig}]
Stream == [local_seid : Seid, remote_addr : Addr, conn_handle : ConnHandle,
           state : {"Configured", "Streaming", "Suspended"}, codec : Config]

\* The type of every variable, with the tables within capacity.
TypeOK ==
  /\ endpoints \in Seq(Endpoint)
  /\ Len(endpoints) <= MaxEndpoints
  /\ streams \in [DOMAIN streams -> Stream]
  /\ DOMAIN streams \subseteq StreamHandle
  /\ Cardinality(DOMAIN streams) <= MaxStreams
  /\ nextHandle \in StreamHandle
  /\ connections \in [DOMAIN connections -> [conn_handle : ConnHandle,
                                             streams : Seq(StreamHandle)]]
  /\ DOMAIN connections \subseteq Addr
  /\ Cardinality(DOMAIN connections) <= MaxConnections
  /\ \A a \in DOMAIN connections : Len(connections[a].streams) <= MaxListed
  /\ nextSeid \in Seid
  /\ reused \in BOOLEAN

\* The table of streams and the lists of the connections say the same, as long
\* as no handle was given out while it was in use: a stream is listed by the
\* connection of its device, which is still the one it was created on; a
\* connection lists no handle twice, and only streams of its device.
StreamsListed ==
  ~reused =>
    /\ \A s \in DOMAIN streams :
         LET a == streams[s].remote_addr IN
           /\ a \in DOMAIN connections
           /\ s \in Listed(a)
           /\ streams[s].conn_handle = connections[a].conn_handle
    /\ \A a \in DOMAIN connections :
         /\ Listed(a) \subseteq {s \in DOMAIN streams : streams[s].remote_addr = a}
         /\ Cardinality(Listed(a)) = Len(connections[a].streams)

\* What a step may do to the streams it touches, which are those it changes or removes.
TouchesOneDevice ==
  ~reused' =>
    LET Touched == {s \in DOMAIN streams : s \notin DOMAIN streams' \/ streams'[s] # streams[s]}
    IN /\ \A s, t \in Touched : streams[s].remote_addr = streams[t].remote_addr
       /\ \A s \in Touched \cap DOMAIN streams' :
            streams'[s] = [streams[s] EXCEPT !.state = streams'[s].state]

\* What is done for one device leaves the streams of the others as they are: all streams
\* that a step changes or removes are of one device, and what a change leaves is the
\* stream it was, in another state.
OneDeviceTouched == [][TouchesOneDevice]_vars

\* An endpoint is in use exactly if a stream uses it (avdtp.rs: "Whether
\* endpoint is in use").
InUseByStream ==
  \A i \in DOMAIN endpoints :
    endpoints[i].in_use <=>
      \E s \in DOMAIN streams : streams[s].local_seid = endpoints[i].seid
=============================================================================
