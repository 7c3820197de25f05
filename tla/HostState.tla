------------------------------ MODULE HostState ------------------------------
(***************************************************************************)
(* The BluetoothHost record that the processor tasks share behind one      *)
(* mutex, and what a handler does to it: the internal commands that carry  *)
(* the mutations of an HCI event, and the requests of the public API.      *)
(*                                                                         *)
(* An API handler is cut at its only await, controller.exec.  What it does *)
(* before is HciFor (which HCI command it issues, if any), what it does    *)
(* after is Served (the record it leaves) and Answer (the response).       *)
(*                                                                         *)
(* A bounded map (heapless FnvIndexMap) is a total function whose missing  *)
(* keys map to a null value.  A device is abstracted to whether its name   *)
(* is known; a link key to the address it is stored for.                   *)
(***************************************************************************)
EXTENDS Naturals, FiniteSets

CONSTANTS
  Addr,                \* remote device addresses
  Handle,              \* connection handles the controller hands out
  NoAddr,              \* no entry in the ACL connection map
  NoHandle,            \* no entry in the connection map
  MaxChannels,         \* MAX_CHANNELS: connections, link keys, every channel
  MaxDevices,          \* MAX_DISCOVERED_DEVICES
  MaxAclConnections    \* MAX_ACL_CONNECTIONS

ASSUME HostStateAssumption ==
  /\ NoAddr \notin Addr
  /\ NoHandle \notin Handle
  /\ MaxChannels \in Nat \ {0}
  /\ MaxDevices \in Nat \ {0}
  /\ MaxAclConnections \in Nat \ {0}

-----------------------------------------------------------------------------
(* The record.                                                             *)

BluetoothState == {"PoweredOff", "PoweredOn", "Discovering", "Connecting",
                   "Connected", "Idle"}

\* What the device table knows of an address.
DeviceEntry == {"absent", "nameless", "named"}

Host == [state       : BluetoothState,
         discovering : BOOLEAN,
         devices     : [Addr -> DeviceEntry],
         connections : [Addr -> Handle \cup {NoHandle}],
         acl         : [Handle -> Addr \cup {NoAddr}],
         linkKeys    : SUBSET Addr]

InitHost == [state       |-> "PoweredOff",
             discovering |-> FALSE,
             devices     |-> [a \in Addr |-> "absent"],
             connections |-> [a \in Addr |-> NoHandle],
             acl         |-> [h \in Handle |-> NoAddr],
             linkKeys    |-> {}]

\* FnvIndexMap::insert: replaces a present key, and refuses a new one (the
\* callers drop the error) when the map is full.
Put(map, key, value, null, capacity) ==
  IF \/ map[key] # null
     \/ Cardinality({k \in DOMAIN map : map[k] # null}) < capacity
  THEN [map EXCEPT ![key] = value]
  ELSE map

-----------------------------------------------------------------------------
(* Internal commands: the mutations and follow-up HCI commands of events.  *)

\* Those whose handler awaits the controller and changes nothing in the host.
ExecOps == {"AuthenticationRequested", "LinkKeyRequestNegativeReply",
            "IoCapabilityRequestReply", "UserConfirmationRequestReply",
            "PinCodeRequestReply"}

InternalCommand ==
  [op : {"SetState"}, state : BluetoothState]
    \cup [op : {"SetDiscovering"}, on : BOOLEAN]
    \cup [op : {"AddConnection", "AddAclConnection"}, addr : Addr, handle : Handle]
    \cup [op : {"AuthenticationRequested", "RemoveConnection",
                "RemoveAclConnection", "ProcessAclData"}, handle : Handle]
    \cup [op : (ExecOps \ {"AuthenticationRequested"})
                 \cup {"UpsertDevice", "StoreLinkKey"}, addr : Addr]
    \cup [op : {"UpdateDeviceName"}, addr : Addr, utf8 : BOOLEAN]

\* A device is found: what was known of it is replaced, its name included.
UpsertDevice(h, a) ==
  [h EXCEPT !.devices = Put(@, a, "nameless", "absent", MaxDevices)]

\* A name arrives, for a device that need not be in the table.  A name that the
\* 32-byte limit cuts inside a character is not UTF-8 and is dropped.
UpdateDeviceName(h, a, utf8) ==
  IF utf8 THEN [h EXCEPT !.devices = Put(@, a, "named", "absent", MaxDevices)] ELSE h

RemoveConnectionsByHandle(h, handle) ==
  [h EXCEPT !.connections = [a \in Addr |-> IF @[a] = handle THEN NoHandle ELSE @[a]]]

\* The keys, without a link key's value: inserting a present one replaces it.
StoreLinkKey(h, a) ==
  IF a \in h.linkKeys \/ Cardinality(h.linkKeys) < MaxChannels
  THEN [h EXCEPT !.linkKeys = @ \cup {a}]
  ELSE h

AddAclConnection(h, handle, a) ==
  [h EXCEPT !.acl = Put(@, handle, a, NoAddr, MaxAclConnections)]

\* process_internal_command, for the commands it applies without an await.
\* ProcessAclData changes the reassembly buffers only, which are not kept here.
Apply(h, c) ==
  CASE c.op = "SetState" -> [h EXCEPT !.state = c.state]
    [] c.op = "SetDiscovering" -> [h EXCEPT !.discovering = c.on]
    [] c.op = "UpsertDevice" -> UpsertDevice(h, c.addr)
    [] c.op = "UpdateDeviceName" -> UpdateDeviceName(h, c.addr, c.utf8)
    [] c.op = "AddConnection" ->
         [h EXCEPT !.connections = Put(@, c.addr, c.handle, NoHandle, MaxChannels)]
    [] c.op = "RemoveConnection" -> RemoveConnectionsByHandle(h, c.handle)
    [] c.op = "AddAclConnection" -> AddAclConnection(h, c.handle, c.addr)
    [] c.op = "RemoveAclConnection" -> [h EXCEPT !.acl[c.handle] = NoAddr]
    [] c.op = "StoreLinkKey" -> StoreLinkKey(h, c.addr)
    [] OTHER -> h

-----------------------------------------------------------------------------
(* API requests.                                                           *)

\* StopDiscovery is a variant of the enum for which api.rs has no function yet.
Request == [op : {"Discover", "StopDiscovery", "GetDevices", "GetState",
                  "GetLocalInfo", "GetPairedDevices"}]
             \cup [op : {"Pair", "Disconnect", "GetDeviceName"}, addr : Addr]

NoHci == [op |-> "None"]

\* The HCI command a request makes the host issue, NoHci when the handler
\* answers without the controller.
HciFor(h, r) ==
  CASE r.op = "Discover" /\ ~h.discovering -> [op |-> "Inquiry"]
    [] r.op = "StopDiscovery" /\ h.discovering -> [op |-> "InquiryCancel"]
    [] r.op = "Pair" /\ h.devices[r.addr] # "absent" ->
         [op |-> "CreateConnection", addr |-> r.addr]
    [] r.op = "Disconnect" /\ h.connections[r.addr] # NoHandle ->
         [op |-> "Disconnect", handle |-> h.connections[r.addr]]
    [] r.op = "GetDeviceName" -> [op |-> "RemoteNameRequest", addr |-> r.addr]
    [] OTHER -> NoHci

\* Mutant: the state changes although the controller refused.
ServedAnyway(h, r, ok) ==
  CASE r.op = "Discover" -> [h EXCEPT !.discovering = TRUE, !.state = "Discovering"]
    [] r.op = "StopDiscovery" -> [h EXCEPT !.discovering = FALSE, !.state = "PoweredOn"]
    [] r.op = "Pair" -> [h EXCEPT !.state = "Connecting"]
    [] OTHER -> h

\* The record after exec returned; only a success changes it.
Served(h, r, ok) ==
  CASE ok /\ r.op = "Discover" -> [h EXCEPT !.discovering = TRUE, !.state = "Discovering"]
    [] ok /\ r.op = "StopDiscovery" -> [h EXCEPT !.discovering = FALSE, !.state = "PoweredOn"]
    [] ok /\ r.op = "Pair" -> [h EXCEPT !.state = "Connecting"]
    [] OTHER -> h

ResponseTag == {"DiscoverStarted", "DiscoveryStopped", "Devices", "PairComplete",
                "DisconnectComplete", "State", "LocalInfo", "PairedDevices",
                "DeviceName", "Error"}

\* The response variant of a request that needs no controller.
AnswerNow(r) ==
  CASE r.op = "GetDevices" -> "Devices"
    [] r.op = "GetState" -> "State"
    [] r.op = "GetLocalInfo" -> "LocalInfo"
    [] r.op = "GetPairedDevices" -> "PairedDevices"
    [] OTHER -> "Error"

\* The response variant once the controller has accepted (ok) or refused the
\* command.  GetDeviceName answers from the device table, whatever the remote
\* name request will bring.
AnswerAfter(h, r, ok) ==
  CASE ok /\ r.op = "Discover" -> "DiscoverStarted"
    [] ok /\ r.op = "StopDiscovery" -> "DiscoveryStopped"
    [] ok /\ r.op = "Pair" -> "PairComplete"
    [] ok /\ r.op = "Disconnect" -> "DisconnectComplete"
    [] ok /\ r.op = "GetDeviceName" /\ h.devices[r.addr] = "named" -> "DeviceName"
    [] OTHER -> "Error"

\* The HCI commands `initialize` issues, in order.
InitSequence == <<"Reset", "SetEventMask", "ReadLocalVersionInformation", "ReadBdAddr">>

HciCommand ==
  [op : {InitSequence[i] : i \in 1 .. 4} \cup {"Inquiry", "InquiryCancel"}]
    \cup [op : {"CreateConnection", "RemoteNameRequest"}, addr : Addr]
    \cup [op : {"Disconnect"}, handle : Handle]
    \cup {c \in InternalCommand : c.op \in ExecOps}
=============================================================================
