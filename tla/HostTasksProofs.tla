--------------------------- MODULE HostTasksProofs ---------------------------
(***************************************************************************)
(* Proofs about HostTasks, for any sets of addresses, handles, clients and *)
(* requests and any capacities: its types; that the mutex makes            *)
(* controller.exec exclusive; that it implements HostPipeline, which only  *)
(* the mutex makes true, as the record a request was accepted in is the    *)
(* record it changes after its exec; that a lone client gets its own       *)
(* answers; and that the record follows the controller.                    *)
(***************************************************************************)
EXTENDS HostRefinement, SequenceTheorems, FiniteSetTheorems, TLAPS

-----------------------------------------------------------------------------
(* What the operators of the host record return.                           *)

LEMMA PutType ==
  ASSUME NEW S, NEW T, NEW map \in [S -> T], NEW key \in S, NEW value \in T,
         NEW null, NEW capacity
  PROVE  Put(map, key, value, null, capacity) \in [S -> T]
  BY DEF Put

LEMMA ApplyType ==
  ASSUME NEW h \in Host, NEW c \in InternalCommand
  PROVE  Apply(h, c) \in Host
<1>1. CASE c.op = "SetState"
  BY <1>1 DEF Apply, Host, InternalCommand, ExecOps
<1>2. CASE c.op = "SetDiscovering"
  BY <1>2 DEF Apply, Host, InternalCommand, ExecOps
<1>3. CASE c.op \in {"UpsertDevice", "UpdateDeviceName"}
  <2>1. c.addr \in Addr
    BY <1>3 DEF InternalCommand, ExecOps
  <2>2. \A e \in {"nameless", "named"} :
          Put(h.devices, c.addr, e, "absent", MaxDevices) \in [Addr -> DeviceEntry]
    BY <2>1, PutType DEF Host, DeviceEntry
  <2>3. QED
    BY <1>3, <2>2 DEF Apply, Host, UpsertDevice, UpdateDeviceName
<1>4. CASE c.op = "AddConnection"
  <2>1. c.addr \in Addr /\ c.handle \in Handle
    BY <1>4 DEF InternalCommand, ExecOps
  <2>2. Put(h.connections, c.addr, c.handle, NoHandle, MaxChannels)
          \in [Addr -> Handle \cup {NoHandle}]
    BY <2>1, PutType DEF Host
  <2>3. QED
    BY <1>4, <2>2 DEF Apply, Host
<1>5. CASE c.op = "RemoveConnection"
  BY <1>5 DEF Apply, Host, RemoveConnectionsByHandle
<1>6. CASE c.op = "AddAclConnection"
  <2>1. c.addr \in Addr /\ c.handle \in Handle
    BY <1>6 DEF InternalCommand, ExecOps
  <2>2. Put(h.acl, c.handle, c.addr, NoAddr, MaxAclConnections)
          \in [Handle -> Addr \cup {NoAddr}]
    BY <2>1, PutType DEF Host
  <2>3. QED
    BY <1>6, <2>2 DEF Apply, Host, AddAclConnection
<1>7. CASE c.op = "RemoveAclConnection"
  BY <1>7 DEF Apply, Host, InternalCommand, ExecOps
<1>8. CASE c.op = "StoreLinkKey"
  BY <1>8 DEF Apply, Host, InternalCommand, ExecOps, StoreLinkKey
<1>9. CASE c.op \in ExecOps \cup {"ProcessAclData"}
  BY <1>9 DEF Apply, ExecOps
<1>10. QED
  BY <1>1, <1>2, <1>3, <1>4, <1>5, <1>6, <1>7, <1>8, <1>9
     DEF InternalCommand, ExecOps

LEMMA ServedType ==
  ASSUME NEW h \in Host, NEW r, NEW ok
  PROVE  Served(h, r, ok) \in Host
  BY DEF Served, Host, BluetoothState

LEMMA AnswerType ==
  ASSUME NEW h, NEW r, NEW ok
  PROVE  AnswerNow(r) \in ResponseTag /\ AnswerAfter(h, r, ok) \in ResponseTag
  BY DEF AnswerNow, AnswerAfter, ResponseTag

LEMMA HciForType ==
  ASSUME NEW h \in Host, NEW r \in Request
  PROVE  HciFor(h, r) \in HciCommand \cup {NoHci}
<1>1. CASE r.op = "Discover"
  BY <1>1 DEF HciFor, HciCommand
<1>2. CASE r.op = "StopDiscovery"
  BY <1>2 DEF HciFor, HciCommand
<1>3. CASE r.op \in {"Pair", "GetDeviceName"}
  <2>1. r.addr \in Addr
    BY <1>3 DEF Request
  <2>2. QED
    BY <1>3, <2>1 DEF HciFor, HciCommand
<1>4. CASE r.op = "Disconnect"
  <2>1. r.addr \in Addr
    BY <1>4 DEF Request
  <2>2. h.connections[r.addr] \in Handle \cup {NoHandle}
    BY <2>1 DEF Host
  <2>3. QED
    BY <1>4, <2>2 DEF HciFor, HciCommand
<1>5. CASE r.op \in {"GetDevices", "GetState", "GetLocalInfo", "GetPairedDevices"}
  BY <1>5 DEF HciFor
<1>6. QED
  BY <1>1, <1>2, <1>3, <1>4, <1>5 DEF Request

\* A tuple of elements of S is a sequence over S.
LEMMA TupleType ==
  ASSUME NEW S, NEW w \in S, NEW x \in S, NEW y \in S, NEW z \in S
  PROVE  /\ <<>> \in Seq(S) /\ <<w>> \in Seq(S) /\ <<w, x>> \in Seq(S)
         /\ <<w, x, y>> \in Seq(S) /\ <<w, x, y, z>> \in Seq(S)
  OBVIOUS

LEMMA StateCommandType ==
  /\ \A s \in BluetoothState : SetState(s) \in InternalCommand
  /\ [op |-> "SetDiscovering", on |-> FALSE] \in InternalCommand
  BY DEF InternalCommand, SetState

\* An event becomes a sequence of internal commands.
LEMMA BatchType ==
  ASSUME NEW e \in Packet, e.kind # "CommandAnswer"
  PROVE  ProcessHciEvent(e) \in Seq(InternalCommand)
<1>s. SetState("PoweredOn") \in InternalCommand /\ SetState("Connected") \in InternalCommand
  BY StateCommandType DEF BluetoothState
<1>1. CASE e.kind = "InquiryResult"
  <2>1. e.found \in Seq(Addr)
    BY <1>1 DEF Packet, PairingKinds
  <2> DEFINE all == [i \in DOMAIN e.found |-> Upsert(e.found[i])]
             n == IF Len(e.found) < MaxBatch THEN Len(e.found) ELSE MaxBatch
  <2>2. \A i \in DOMAIN e.found : Upsert(e.found[i]) \in InternalCommand
    BY <2>1 DEF Upsert, InternalCommand
  <2>3. all \in Seq(InternalCommand) /\ Len(all) = Len(e.found)
    BY <2>1, <2>2
  <2>4. n \in 0 .. Len(all)
    BY <2>1, <2>3, HostTasksAssumption
  <2>5. SubSeq(all, 1, n) \in Seq(InternalCommand)
    <3> HIDE DEF all, n
    <3>1. \A i \in 1 .. n : all[i] \in InternalCommand
      BY <2>3, <2>4
    <3>2. QED
      BY <2>3, <2>4, <3>1
  <2>6. ProcessHciEvent(e) = SubSeq(all, 1, n)
    BY <1>1 DEF ProcessHciEvent
  <2>7. QED
    BY <2>5, <2>6
<1>2. CASE e.kind \in {"ExtendedInquiryResult"} \cup PairingKinds
  <2>1. e.addr \in Addr
    BY <1>2 DEF Packet, PairingKinds
  <2>2. PICK op \in {"UpsertDevice", "StoreLinkKey", "PinCodeRequestReply",
                     "LinkKeyRequestNegativeReply", "IoCapabilityRequestReply",
                     "UserConfirmationRequestReply"} :
             ProcessHciEvent(e) = <<[op |-> op, addr |-> e.addr]>>
    <3>1. CASE e.kind = "ExtendedInquiryResult"
      BY <3>1 DEF ProcessHciEvent, Upsert
    <3>2. CASE e.kind = "PinCodeRequest"
      BY <3>2 DEF ProcessHciEvent
    <3>3. CASE e.kind = "LinkKeyRequest"
      BY <3>3 DEF ProcessHciEvent
    <3>4. CASE e.kind = "IoCapabilityRequest"
      BY <3>4 DEF ProcessHciEvent
    <3>5. CASE e.kind = "UserConfirmationRequest"
      BY <3>5 DEF ProcessHciEvent
    <3>6. CASE e.kind = "LinkKeyNotification"
      BY <3>6 DEF ProcessHciEvent
    <3>7. QED
      BY <1>2, <3>1, <3>2, <3>3, <3>4, <3>5, <3>6 DEF PairingKinds
  <2>3. [op |-> op, addr |-> e.addr] \in InternalCommand
    BY <2>1 DEF InternalCommand, ExecOps
  <2>4. QED
    BY <2>2, <2>3
<1>3. CASE e.kind = "InquiryComplete"
  BY <1>3, <1>s, StateCommandType DEF ProcessHciEvent
<1>4. CASE e.kind = "ConnectionComplete"
  <2>1. e.addr \in Addr /\ e.handle \in Handle
    BY <1>4 DEF Packet, PairingKinds
  <2> DEFINE add(op) == [op |-> op, addr |-> e.addr, handle |-> e.handle]
             auth == [op |-> "AuthenticationRequested", handle |-> e.handle]
  <2>2. /\ add("AddConnection") \in InternalCommand
        /\ add("AddAclConnection") \in InternalCommand
        /\ auth \in InternalCommand
    BY <2>1 DEF InternalCommand
  <2>3. \/ ProcessHciEvent(e) = <<add("AddConnection"), add("AddAclConnection"),
                                  SetState("Connected"), auth>>
        \/ ProcessHciEvent(e) = <<SetState("PoweredOn")>>
    BY <1>4 DEF ProcessHciEvent
  <2> HIDE DEF add, auth
  <2>4. QED
    BY <1>s, <2>2, <2>3, TupleType
<1>5. CASE e.kind = "DisconnectionComplete"
  <2>1. e.handle \in Handle
    BY <1>5 DEF Packet, PairingKinds
  <2> DEFINE remove(op) == [op |-> op, handle |-> e.handle]
  <2>2. /\ remove("RemoveConnection") \in InternalCommand
        /\ remove("RemoveAclConnection") \in InternalCommand
    BY <2>1 DEF InternalCommand
  <2>3. \/ ProcessHciEvent(e) = <<remove("RemoveConnection"),
                                  remove("RemoveAclConnection"), SetState("PoweredOn")>>
        \/ ProcessHciEvent(e) = <<>>
    BY <1>5 DEF ProcessHciEvent
  <2> HIDE DEF remove
  <2>4. QED
    BY <1>s, <2>2, <2>3, TupleType
<1>6. CASE e.kind = "AuthenticationComplete"
  BY <1>6, <1>s DEF ProcessHciEvent
<1>7. CASE e.kind = "Acl"
  <2>1. e.handle \in Handle
    BY <1>7 DEF Packet, PairingKinds
  <2>2. ProcessHciEvent(e) = <<[op |-> "ProcessAclData", handle |-> e.handle]>>
    BY <1>7 DEF ProcessHciEvent
  <2>3. [op |-> "ProcessAclData", handle |-> e.handle] \in InternalCommand
    BY <2>1 DEF InternalCommand
  <2>4. QED
    BY <2>2, <2>3
<1>8. CASE e.kind = "RemoteNameRequestComplete"
  <2>1. e.addr \in Addr /\ e.utf8 \in BOOLEAN
    BY <1>8 DEF Packet, PairingKinds
  <2> DEFINE name == [op |-> "UpdateDeviceName", addr |-> e.addr, utf8 |-> e.utf8]
  <2>2. name \in InternalCommand
    BY <2>1 DEF InternalCommand
  <2>3. ProcessHciEvent(e) = <<name>> \/ ProcessHciEvent(e) = <<>>
    BY <1>8 DEF ProcessHciEvent
  <2> HIDE DEF name
  <2>4. QED
    BY <2>2, <2>3, TupleType
<1>9. QED
  BY <1>1, <1>2, <1>3, <1>4, <1>5, <1>6, <1>7, <1>8 DEF Packet, PairingKinds

-----------------------------------------------------------------------------
(* Type correctness.                                                       *)

\* What a task or a client has in hand wherever it will use it.
Held ==
  /\ apiPc = "init" => apiStep \in 1 .. 4
  /\ apiPc \in {"lock", "exec", "respond"} => apiReq \in Call
  /\ apiPc = "respond" => apiResp \in Response
  /\ cmdPc # "recv" => cmdCur \in InternalCommand
  /\ \A c \in Client : clients[c].pc # "idle" => clients[c].call \in Call

IndType == TypeOK /\ Held

LEMMA TypeInit == Init => IndType
<1> SUFFICES ASSUME Init PROVE IndType
  OBVIOUS
<1>1. host \in Host
  BY DEF Init, InitHost, Host, BluetoothState, DeviceEntry
<1>2. ctl \in ControllerState /\ sent \in HciCommand \cup {NoHci} /\ wire \in Seq(Packet)
  BY ControllerAssumption DEF Init, InitController, ControllerState
<1>3. clients \in [Client -> ClientState]
  BY HostTasksAssumption DEF Init, ClientState
<1>4. QED
  BY <1>1, <1>2, <1>3, HostStateAssumption DEF Init, IndType, TypeOK, Held, Task

LEMMA HciReadType == IndType /\ HciRead => IndType'
<1> SUFFICES ASSUME IndType, HciRead PROVE IndType'
  OBVIOUS
<1>1. Head(wire) \in Packet /\ Tail(wire) \in Seq(Packet)
  BY DEF IndType, TypeOK, HciRead
<1>2. Head(wire).kind # "CommandAnswer" =>
        ProcessHciEvent(Head(wire)) \in Seq(InternalCommand)
  BY <1>1, BatchType
<1>3. batch' \in Seq(InternalCommand) /\ reply' \in {"none", "ok", "err"}
  BY <1>2 DEF IndType, TypeOK, HciRead
<1>4. QED
  BY <1>1, <1>3 DEF IndType, TypeOK, Held, HciRead, Polled, Task

LEMMA HciSendType == IndType /\ HciSend => IndType'
<1> SUFFICES ASSUME IndType, HciSend PROVE IndType'
  OBVIOUS
<1>1. Head(batch) \in InternalCommand /\ Tail(batch) \in Seq(InternalCommand)
  BY DEF IndType, TypeOK, HciSend
<1>2. commands' \in Seq(InternalCommand) /\ Len(commands') <= MaxChannels
  BY <1>1, HostStateAssumption DEF IndType, TypeOK, HciSend
<1>3. TypeOK'
  BY <1>1, <1>2 DEF IndType, TypeOK, Held, HciSend, Polled, Task, ctlVars
<1>4. Held'
  BY <1>1, <1>2 DEF IndType, Held, HciSend
<1>5. QED
  BY <1>3, <1>4 DEF IndType

LEMMA ApiBootType == IndType /\ ApiBoot => IndType'
<1> SUFFICES ASSUME IndType, ApiBoot PROVE IndType'
  OBVIOUS
<1>1. sent' \in HciCommand
  BY DEF ApiBoot, HciCommand
<1>2. QED
  BY <1>1 DEF IndType, TypeOK, Held, ApiBoot, Polled, Task

LEMMA ApiInitType == IndType /\ ApiInit => IndType'
<1> SUFFICES ASSUME IndType, ApiInit PROVE IndType'
  OBVIOUS
<1>1. CASE reply = "ok" /\ apiStep < 4
  <2>1. apiStep + 1 \in 1 .. 4
    BY <1>1 DEF IndType, TypeOK, Held, ApiInit
  <2>2. sent' \in HciCommand /\ apiStep' = apiStep + 1 /\ UNCHANGED <<host, lock, apiPc>>
    BY <1>1, <2>1 DEF ApiInit, HciCommand
  <2>3. QED
    BY <2>1, <2>2 DEF IndType, TypeOK, Held, ApiInit, Polled, Task
<1>2. CASE reply = "err" \/ apiStep = 4
  <2>1. host' \in Host
    BY <1>2 DEF IndType, TypeOK, ApiInit, Host, BluetoothState
  <2>2. QED
    BY <1>2, <2>1 DEF IndType, TypeOK, Held, ApiInit, Polled, Task
<1>3. QED
  BY <1>1, <1>2 DEF ApiInit

LEMMA ApiReceiveType == IndType /\ ApiReceive => IndType'
<1> SUFFICES ASSUME IndType, ApiReceive PROVE IndType'
  OBVIOUS
<1>1. Head(requests) \in Call /\ Tail(requests) \in Seq(Call) /\ Len(requests') <= MaxChannels
  BY HostStateAssumption DEF IndType, TypeOK, ApiReceive
<1>2. TypeOK'
  BY <1>1 DEF IndType, TypeOK, Held, ApiReceive, Polled, Task, ctlVars
<1>3. Held'
  BY <1>1 DEF IndType, Held, ApiReceive
<1>4. QED
  BY <1>2, <1>3 DEF IndType

LEMMA ApiLockType == IndType /\ ApiLock => IndType'
<1> SUFFICES ASSUME IndType, ApiLock PROVE IndType'
  OBVIOUS
<1>1. apiReq \in Call /\ apiReq.req \in Request
  BY HostTasksAssumption DEF IndType, Held, ApiLock, Call
<1>2. HciFor(host, apiReq.req) \in HciCommand \cup {NoHci}
  BY <1>1, HciForType DEF IndType, TypeOK
<1>3. [tag |-> AnswerNow(apiReq.req), to |-> apiReq] \in Response
  BY <1>1, AnswerType DEF Response
<1>4. /\ sent' \in HciCommand \cup {NoHci}
      /\ apiResp' \in Response \cup {NoResponse}
      /\ apiPc' = "respond" => apiResp' \in Response
      /\ apiPc' \in {"exec", "respond"}
      /\ lock' \in {"free", "api", "cmd"}
  BY <1>2, <1>3 DEF IndType, TypeOK, ApiLock
<1>5. QED
  BY <1>1, <1>4 DEF IndType, TypeOK, Held, ApiLock, Polled, Task

LEMMA ApiExecType == IndType /\ ApiExec => IndType'
<1> SUFFICES ASSUME IndType, ApiExec PROVE IndType'
  OBVIOUS
<1>1. apiReq \in Call
  BY DEF IndType, Held, ApiExec
<1>2. apiResp' \in Response
  BY <1>1, AnswerType DEF Response, ApiExec
<1>3. host' \in Host
  BY ServedType DEF IndType, TypeOK, ApiExec
<1>4. TypeOK'
  BY <1>1, <1>2, <1>3 DEF IndType, TypeOK, Held, ApiExec, Polled, Task, ctlVars
<1>5. Held'
  BY <1>1, <1>2, <1>3 DEF IndType, Held, ApiExec
<1>6. QED
  BY <1>4, <1>5 DEF IndType

LEMMA ApiRespondType == IndType /\ ApiRespond => IndType'
<1> SUFFICES ASSUME IndType, ApiRespond PROVE IndType'
  OBVIOUS
<1>1. responses' \in Seq(Response) /\ Len(responses') <= MaxChannels
  BY HostStateAssumption DEF IndType, TypeOK, Held, ApiRespond
<1>2. TypeOK'
  BY <1>1 DEF IndType, TypeOK, Held, ApiRespond, Polled, Task, ctlVars
<1>3. Held'
  BY <1>1 DEF IndType, Held, ApiRespond
<1>4. QED
  BY <1>2, <1>3 DEF IndType

LEMMA CmdReceiveType == IndType /\ CmdReceive => IndType'
<1> SUFFICES ASSUME IndType, CmdReceive PROVE IndType'
  OBVIOUS
<1>1. /\ Head(commands) \in InternalCommand
      /\ Tail(commands) \in Seq(InternalCommand) /\ Len(commands') <= MaxChannels
  BY HostStateAssumption DEF IndType, TypeOK, CmdReceive
<1>2. TypeOK'
  BY <1>1 DEF IndType, TypeOK, Held, CmdReceive, Polled, Task, ctlVars
<1>3. Held'
  BY <1>1 DEF IndType, Held, CmdReceive
<1>4. QED
  BY <1>2, <1>3 DEF IndType

LEMMA CmdLockType == IndType /\ CmdLock => IndType'
<1> SUFFICES ASSUME IndType, CmdLock PROVE IndType'
  OBVIOUS
<1>1. cmdCur \in InternalCommand
  BY DEF IndType, Held, CmdLock
<1>2. cmdCur.op \in ExecOps => cmdCur \in HciCommand
  BY <1>1 DEF HciCommand
<1>3. Apply(host, cmdCur) \in Host
  BY <1>1, ApplyType DEF IndType, TypeOK
<1>4. QED
  BY <1>1, <1>2, <1>3 DEF IndType, TypeOK, Held, CmdLock, Polled, Task

LEMMA CmdExecType == IndType /\ CmdExec => IndType'
<1> SUFFICES ASSUME IndType, CmdExec PROVE IndType'
  OBVIOUS
<1>1. TypeOK'
  BY DEF IndType, TypeOK, CmdExec, Polled, Task, ctlVars
<1>2. Held'
  BY DEF IndType, Held, CmdExec
<1>3. QED
  BY <1>1, <1>2 DEF IndType

LEMMA AnswerCommandType ==
  ASSUME IndType, AnswerCommand
  PROVE  ctl' \in ControllerState /\ sent' \in HciCommand \cup {NoHci} /\ wire' \in Seq(Packet)
<1>1. sent \in HciCommand
  BY DEF IndType, TypeOK, AnswerCommand
<1>2. Started(sent) \in ControllerState
  <2>1. /\ sent.op \in {"CreateConnection", "RemoteNameRequest"} => sent.addr \in Addr
        /\ sent.op \in {"Disconnect", "AuthenticationRequested"} => sent.handle \in Handle
    BY <1>1 DEF HciCommand, InternalCommand, ExecOps, InitSequence
  <2>2. ctl \in ControllerState
    BY DEF IndType, TypeOK
  <2>3. QED
    BY <2>1, <2>2 DEF Started, ControllerState
<1>3. \A ok \in BOOLEAN : Append(wire, AnswerPacket(ok)) \in Seq(Packet)
  <2>1. \A ok \in BOOLEAN : AnswerPacket(ok) \in Packet
    BY DEF AnswerPacket, Packet
  <2>2. QED
    BY <2>1 DEF IndType, TypeOK
<1>4. QED
  BY <1>2, <1>3 DEF IndType, TypeOK, AnswerCommand

\* The controller puts one event, not an answer, on the wire.
Reported ==
  /\ ctl' \in ControllerState
  /\ sent' = sent
  /\ \E p \in Packet : p.kind # "CommandAnswer" /\ wire' = Append(wire, p)

LEMMA EmitType ==
  ASSUME IndType, NEW e \in Packet, e.kind # "CommandAnswer",
         NEW next \in ControllerState, next.left = ctl.left, Emit(e, next)
  PROVE  Reported
<1>1. next.left - 1 \in Nat
  BY DEF IndType, TypeOK, Emit, ControllerState
<1>2. ctl' = [next EXCEPT !.left = next.left - 1]
  BY DEF Emit
<1>3. ctl' \in ControllerState
  BY <1>1, <1>2 DEF ControllerState
<1>4. QED
  BY <1>3 DEF Emit, Reported

LEMMA EmitEventType ==
  ASSUME IndType, EmitEvent
  PROVE  Reported
<1>c. ctl \in ControllerState
  BY DEF IndType, TypeOK
<1>l. \A a \in Linked : a \in Addr /\ ctl.links[a] \in Handle
  BY <1>c DEF Linked, ControllerState
<1>1. CASE EmitInquiryResult
  <2>1. PICK a \in Addr, b \in Addr, n \in {1, 2} :
          Emit([kind |-> "InquiryResult", found |-> SubSeq(<<a, b>>, 1, n)], ctl)
    BY <1>1 DEF EmitInquiryResult
  <2>2. SubSeq(<<a, b>>, 1, n) \in Seq(Addr)
    OBVIOUS
  <2>3. [kind |-> "InquiryResult", found |-> SubSeq(<<a, b>>, 1, n)] \in Packet
    BY <2>2 DEF Packet
  <2>4. QED
    BY <1>c, <2>1, <2>3, EmitType
<1>2. CASE EmitExtendedInquiryResult
  <2>1. PICK a \in Addr : Emit([kind |-> "ExtendedInquiryResult", addr |-> a], ctl)
    BY <1>2 DEF EmitExtendedInquiryResult
  <2>2. [kind |-> "ExtendedInquiryResult", addr |-> a] \in Packet
    BY DEF Packet
  <2>3. QED
    BY <1>c, <2>1, <2>2, EmitType
<1>3. CASE EmitInquiryComplete
  <2>1. PICK ok \in BOOLEAN : Emit([kind |-> "InquiryComplete", ok |-> ok],
                                   [ctl EXCEPT !.inquiring = FALSE])
    BY <1>3 DEF EmitInquiryComplete
  <2>2. [kind |-> "InquiryComplete", ok |-> ok] \in Packet
    BY DEF Packet
  <2>3. [ctl EXCEPT !.inquiring = FALSE] \in ControllerState
    BY <1>c DEF ControllerState
  <2>4. QED
    BY <1>c, <2>1, <2>2, <2>3, EmitType DEF ControllerState
<1>4. CASE EmitConnectionComplete
  <2>1. PICK a \in ctl.paging, h \in Handle, ok \in BOOLEAN :
          Emit([kind |-> "ConnectionComplete", addr |-> a, handle |-> h, ok |-> ok],
               [ctl EXCEPT !.paging = @ \ {a}, !.links[a] = IF ok THEN h ELSE @])
    BY <1>4 DEF EmitConnectionComplete
  <2> DEFINE next == [ctl EXCEPT !.paging = @ \ {a}, !.links[a] = IF ok THEN h ELSE @]
  <2>2. a \in Addr
    BY <1>c DEF ControllerState
  <2>3. [kind |-> "ConnectionComplete", addr |-> a, handle |-> h, ok |-> ok] \in Packet
    BY <2>2 DEF Packet
  <2>4. next \in ControllerState /\ next.left = ctl.left
    BY <1>c, <2>2 DEF ControllerState
  <2>5. QED
    BY <2>1, <2>3, <2>4, EmitType
<1>5. CASE EmitDisconnectionComplete
  <2>1. PICK a \in Linked, ok \in BOOLEAN :
          Emit([kind |-> "DisconnectionComplete", handle |-> ctl.links[a], ok |-> ok],
               [ctl EXCEPT !.closing = @ \ {ctl.links[a]},
                           !.links[a] = IF ok THEN NoHandle ELSE @,
                           !.pairing = IF ok THEN @ \ {ctl.links[a]} ELSE @])
    BY <1>5 DEF EmitDisconnectionComplete
  <2> DEFINE next == [ctl EXCEPT !.closing = @ \ {ctl.links[a]},
                                 !.links[a] = IF ok THEN NoHandle ELSE @,
                                 !.pairing = IF ok THEN @ \ {ctl.links[a]} ELSE @]
  <2>2. [kind |-> "DisconnectionComplete", handle |-> ctl.links[a], ok |-> ok] \in Packet
    BY <1>l DEF Packet
  <2>3. next \in ControllerState /\ next.left = ctl.left
    BY <1>c, <1>l DEF ControllerState
  <2>4. QED
    BY <2>1, <2>2, <2>3, EmitType
<1>6. CASE EmitRemoteNameRequestComplete
  <2>1. PICK a \in ctl.naming, ok \in BOOLEAN, utf8 \in BOOLEAN :
          Emit([kind |-> "RemoteNameRequestComplete", addr |-> a, ok |-> ok, utf8 |-> utf8],
               [ctl EXCEPT !.naming = @ \ {a}])
    BY <1>6 DEF EmitRemoteNameRequestComplete
  <2>2. a \in Addr
    BY <1>c DEF ControllerState
  <2>3. [kind |-> "RemoteNameRequestComplete", addr |-> a, ok |-> ok, utf8 |-> utf8]
          \in Packet
    BY <2>2 DEF Packet
  <2>4. [ctl EXCEPT !.naming = @ \ {a}] \in ControllerState
    BY <1>c DEF ControllerState
  <2>5. QED
    BY <1>c, <2>1, <2>3, <2>4, EmitType DEF ControllerState
<1>7. CASE EmitAuthenticationComplete
  <2>1. PICK h \in ctl.pairing, ok \in BOOLEAN :
          Emit([kind |-> "AuthenticationComplete", handle |-> h, ok |-> ok],
               [ctl EXCEPT !.pairing = @ \ {h}])
    BY <1>7 DEF EmitAuthenticationComplete
  <2>2. h \in Handle
    BY <1>c DEF ControllerState
  <2>3. [kind |-> "AuthenticationComplete", handle |-> h, ok |-> ok] \in Packet
    BY <2>2 DEF Packet
  <2>4. [ctl EXCEPT !.pairing = @ \ {h}] \in ControllerState
    BY <1>c DEF ControllerState
  <2>5. QED
    BY <1>c, <2>1, <2>3, <2>4, EmitType DEF ControllerState
<1>8. CASE EmitPairing
  <2>1. PICK a \in Linked, k \in PairingKinds : Emit([kind |-> k, addr |-> a], ctl)
    BY <1>8 DEF EmitPairing
  <2>2. [kind |-> k, addr |-> a] \in Packet /\ k # "CommandAnswer"
    BY <1>l DEF Packet, PairingKinds
  <2>3. QED
    BY <1>c, <2>1, <2>2, EmitType
<1>9. CASE EmitAcl
  <2>1. PICK a \in Linked : Emit([kind |-> "Acl", handle |-> ctl.links[a]], ctl)
    BY <1>9 DEF EmitAcl
  <2>2. [kind |-> "Acl", handle |-> ctl.links[a]] \in Packet
    BY <1>l DEF Packet
  <2>3. QED
    BY <1>c, <2>1, <2>2, EmitType
<1>10. QED
  BY <1>1, <1>2, <1>3, <1>4, <1>5, <1>6, <1>7, <1>8, <1>9 DEF EmitEvent

LEMMA UsersType ==
  ASSUME IndType, Users
  PROVE  IndType'
<1>1. PICK c \in Client : ClientCall(c) \/ ClientSend(c) \/ ClientReceive(c) \/ ClientDrop(c)
  BY DEF Users
<1>2. /\ requests' \in Seq(Call) /\ Len(requests') <= MaxChannels
      /\ responses' \in Seq(Response) /\ Len(responses') <= MaxChannels
      /\ clients' \in [Client -> ClientState]
      /\ \A d \in Client : clients'[d].pc # "idle" => clients'[d].call \in Call
  <2>1. CASE ClientCall(c)
    <3>1. PICK r \in Requests :
            clients' = [clients EXCEPT ![c] = [pc |-> "send", call |-> [from |-> c, req |-> r],
                                               left |-> @.left - 1]]
      BY <2>1 DEF ClientCall
    <3>2. [from |-> c, req |-> r] \in Call
      BY DEF Call
    <3>3. clients[c].left - 1 \in Nat
      BY <2>1 DEF ClientCall, IndType, TypeOK, ClientState
    <3>4. clients' \in [Client -> ClientState]
      BY <3>1, <3>2, <3>3 DEF IndType, TypeOK, ClientState
    <3>5. QED
      BY <2>1, <3>1, <3>2, <3>4 DEF ClientCall, IndType, TypeOK, Held
  <2>2. CASE ClientSend(c)
    <3>1. clients[c].call \in Call
      BY <2>2 DEF ClientSend, IndType, Held
    <3>2. requests' \in Seq(Call) /\ Len(requests') <= MaxChannels
      BY <2>2, <3>1, HostStateAssumption DEF ClientSend, IndType, TypeOK
    <3>3. clients' \in [Client -> ClientState]
      BY <2>2 DEF ClientSend, IndType, TypeOK, ClientState
    <3>4. QED
      BY <2>2, <3>1, <3>2, <3>3 DEF ClientSend, IndType, TypeOK, Held
  <2>3. CASE ClientReceive(c)
    <3>1. responses' \in Seq(Response) /\ Len(responses') <= MaxChannels
      BY <2>3, HostStateAssumption DEF ClientReceive, IndType, TypeOK
    <3>2. clients' \in [Client -> ClientState]
      BY <2>3 DEF ClientReceive, IndType, TypeOK, ClientState
    <3>3. QED
      BY <2>3, <3>1, <3>2 DEF ClientReceive, IndType, TypeOK, Held
  <2>4. CASE ClientDrop(c)
    <3>1. clients' \in [Client -> ClientState]
      BY <2>4 DEF ClientDrop, IndType, TypeOK, ClientState
    <3>2. QED
      BY <2>4, <3>1 DEF ClientDrop, IndType, TypeOK, Held
  <2>5. QED
    BY <1>1, <2>1, <2>2, <2>3, <2>4
<1>3. UNCHANGED <<host, taskVars, commands, ctlVars>>
  BY <1>1 DEF ClientCall, ClientSend, ClientReceive, ClientDrop
<1>4. QED
  BY <1>2, <1>3 DEF IndType, TypeOK, Held, taskVars, ctlVars

LEMMA TypeNext == IndType /\ [Next]_vars => IndType'
<1> SUFFICES ASSUME IndType, [Next]_vars PROVE IndType'
  OBVIOUS
<1>1. CASE Executor
  BY <1>1, HciReadType, HciSendType, ApiBootType, ApiInitType, ApiReceiveType, ApiLockType,
     ApiExecType, ApiRespondType, CmdReceiveType, CmdLockType, CmdExecType
     DEF Executor, HciTask, ApiTask, CmdTask
<1>2. CASE Controller
  <2>1. ctl' \in ControllerState /\ sent' \in HciCommand \cup {NoHci} /\ wire' \in Seq(Packet)
    <3>1. CASE AnswerCommand
      BY <3>1, AnswerCommandType
    <3>2. CASE EmitEvent
      <4>1. Reported
        BY <3>2, EmitEventType
      <4>2. QED
        BY <4>1 DEF Reported, IndType, TypeOK
    <3>3. QED
      BY <1>2, <3>1, <3>2 DEF Controller
  <2>2. UNCHANGED <<host, taskVars, requests, responses, commands, clients>>
    BY <1>2 DEF Controller
  <2>3. QED
    BY <2>1, <2>2 DEF IndType, TypeOK, Held, taskVars
<1>3. CASE Users
  BY <1>3, UsersType
<1>4. CASE UNCHANGED vars
  BY <1>4 DEF IndType, TypeOK, Held, vars, taskVars, ctlVars
<1>5. QED
  BY <1>1, <1>2, <1>3, <1>4 DEF Next

\* The types of all variables, and the capacity of the channels.
THEOREM TypeCorrect == Spec => []IndType
<1>1. Init => IndType
  BY TypeInit
<1>2. IndType /\ [Next]_vars => IndType'
  BY TypeNext
<1>3. QED
  BY <1>1, <1>2, PTL DEF Spec

\* Every variable keeps its type and no channel exceeds its capacity.
COROLLARY TypeSafe == Spec => []TypeOK
<1>1. IndType => TypeOK
  BY DEF IndType
<1>2. QED
  BY <1>1, TypeCorrect, PTL

-----------------------------------------------------------------------------
(* The mutex.  Relative to the types ExecExclusive is inductive: an exec   *)
(* starts when no answer is due anywhere, the answer only moves, from the  *)
(* command written to the wire and from there to the waiting task, and the *)
(* mutex is given back in the step that consumes it.                       *)

\* The answers on the wire.
Answers == {i \in DOMAIN wire : wire[i].kind = "CommandAnswer"}

LEMMA InFlightIs ==
  InFlight = Answers \cup (IF sent # NoHci THEN {-1} ELSE {})
                     \cup (IF reply # "none" THEN {0} ELSE {})
  BY DEF InFlight, Answers

LEMMA AnswersPositive == IndType => \A i \in Answers : i \in Nat \ {0}
  BY DEF IndType, TypeOK, Answers

\* A packet appended to the wire.
LEMMA AnswersAppend ==
  ASSUME IndType, NEW p \in Packet, wire' = Append(wire, p)
  PROVE  Answers' = IF p.kind = "CommandAnswer" THEN Answers \cup {Len(wire) + 1} ELSE Answers
<1>1. wire \in Seq(Packet)
  BY DEF IndType, TypeOK
<1>2. /\ DOMAIN wire' = DOMAIN wire \cup {Len(wire) + 1}
      /\ \A i \in DOMAIN wire : wire'[i] = wire[i]
      /\ wire'[Len(wire) + 1] = p
      /\ Len(wire) + 1 \notin DOMAIN wire
  BY <1>1
<1>3. QED
  BY <1>2 DEF Answers

\* The first packet taken off the wire.
LEMMA AnswersTail ==
  ASSUME IndType, wire # <<>>, wire' = Tail(wire)
  PROVE  \A i \in Nat \ {0} : i \in Answers' <=> i + 1 \in Answers
<1>1. wire \in Seq(Packet)
  BY DEF IndType, TypeOK
<1>2. Len(wire') = Len(wire) - 1 /\ \A i \in 1 .. Len(wire') : wire'[i] = wire[i + 1]
  BY <1>1
<1>3. DOMAIN wire = 1 .. Len(wire) /\ DOMAIN wire' = 1 .. Len(wire') /\ Len(wire) \in Nat
  BY <1>1
<1>4. QED
  BY <1>2, <1>3 DEF Answers

-----------------------------------------------------------------------------
(* The four ways in which a step touches an answer that is due.            *)

LEMMA ExecStarts ==
  ASSUME IndType, ExecExclusive, lock = "free",
         sent' # NoHci, UNCHANGED <<wire, reply>>
  PROVE  InFlight' = {-1}
<1>1. InFlight = {}
  BY DEF ExecExclusive
<1>2. Answers' = Answers
  BY DEF Answers
<1>3. Answers = {} /\ reply = "none"
  BY <1>1, InFlightIs
<1>4. InFlight' = Answers' \cup (IF sent' # NoHci THEN {-1} ELSE {})
                           \cup (IF reply' # "none" THEN {0} ELSE {})
  BY DEF InFlight, Answers
<1>5. QED
  BY <1>2, <1>3, <1>4

LEMMA AnswerTaken ==
  ASSUME IndType, ExecExclusive, reply # "none",
         reply' = "none", UNCHANGED wire
  PROVE  /\ sent = NoHci
         /\ InFlight' = IF sent' # NoHci THEN {-1} ELSE {}
<1>1. 0 \in InFlight
  BY InFlightIs
<1>2. Answers = {}
  <2>1. \A i \in Answers : i = 0
    BY <1>1, InFlightIs DEF ExecExclusive
  <2>2. QED
    BY <2>1, AnswersPositive
<1>3. sent = NoHci
  BY <1>1, InFlightIs DEF ExecExclusive
<1>4. InFlight' = Answers' \cup (IF sent' # NoHci THEN {-1} ELSE {})
                           \cup (IF reply' # "none" THEN {0} ELSE {})
  BY DEF InFlight, Answers
<1>5. Answers' = Answers
  BY DEF Answers
<1>6. QED
  BY <1>2, <1>3, <1>4, <1>5

LEMMA ExecReadsAnswer ==
  ASSUME IndType, ExecExclusive, HciRead
  PROVE  /\ (\A i, j \in InFlight' : i = j)
         /\ InFlight' # {} <=> InFlight # {}
<1>w. wire \in Seq(Packet) /\ wire # <<>> /\ wire' = Tail(wire)
  BY DEF IndType, TypeOK, HciRead
<1>p. InFlight' = Answers' \cup (IF sent' # NoHci THEN {-1} ELSE {})
                           \cup (IF reply' # "none" THEN {0} ELSE {})
  BY DEF InFlight, Answers
<1>t. \A i \in Nat \ {0} : i \in Answers' <=> i + 1 \in Answers
  BY <1>w, AnswersTail
<1>n. \A i \in Answers' : i \in Nat \ {0}
  BY <1>w DEF Answers
<1>1. CASE Head(wire).kind = "CommandAnswer"
  <2>1. 1 \in Answers
    BY <1>1, <1>w DEF Answers
  <2>2. Answers = {1} /\ sent = NoHci /\ reply = "none"
    BY <2>1, InFlightIs DEF ExecExclusive
  <2>3. Answers' = {}
    BY <2>2, <1>t, <1>n
  <2>4. sent' = NoHci /\ reply' # "none"
    BY <1>1, <2>2 DEF HciRead
  <2>5. InFlight' = {0}
    BY <1>p, <2>3, <2>4
  <2>6. QED
    BY <2>1, <2>5, InFlightIs
<1>2. CASE Head(wire).kind # "CommandAnswer"
  <2>1. sent' = sent /\ reply' = reply
    BY <1>2 DEF HciRead
  <2>2. 1 \notin Answers
    BY <1>2, <1>w DEF Answers
  <2>3. \A i \in Answers : i - 1 \in Answers'
    BY <2>2, <1>t, AnswersPositive
  <2>4. \A i, j \in InFlight' : i = j
    <3>1. \A i, j \in Answers' : i = j
      <4>1. SUFFICES ASSUME NEW i \in Answers', NEW j \in Answers' PROVE i = j
        OBVIOUS
      <4>2. i + 1 \in InFlight /\ j + 1 \in InFlight
        BY <1>t, <1>n, InFlightIs
      <4>3. i + 1 = j + 1
        BY <4>2 DEF ExecExclusive
      <4>4. QED
        BY <4>3, <1>n
    <3>2. \A i \in Answers' : sent = NoHci /\ reply = "none"
      <4>1. SUFFICES ASSUME NEW i \in Answers' PROVE sent = NoHci /\ reply = "none"
        OBVIOUS
      <4>2. i + 1 \in InFlight /\ i + 1 # 0 /\ i + 1 # -1
        BY <1>t, <1>n, InFlightIs
      <4>3. QED
        BY <4>2, InFlightIs DEF ExecExclusive
    <3>3. ~(sent # NoHci /\ reply # "none")
      <4>1. SUFFICES ASSUME sent # NoHci, reply # "none" PROVE FALSE
        OBVIOUS
      <4>2. -1 \in InFlight /\ 0 \in InFlight
        BY <4>1, InFlightIs
      <4>3. QED
        BY <4>2 DEF ExecExclusive
    <3>4. QED
      BY <1>p, <2>1, <3>1, <3>2, <3>3
  <2>5. InFlight' # {} <=> InFlight # {}
    <3>1. Answers' # {} <=> Answers # {}
      BY <2>3, <1>t, <1>n
    <3>2. QED
      BY <3>1, <2>1, <1>p, InFlightIs
  <2>6. QED
    BY <2>4, <2>5
<1>3. QED
  BY <1>1, <1>2

LEMMA AnswerSent ==
  ASSUME IndType, ExecExclusive, AnswerCommand, UNCHANGED reply
  PROVE  InFlight' = {Len(wire) + 1}
<1>1. -1 \in InFlight
  BY InFlightIs DEF AnswerCommand
<1>2. Answers = {} /\ reply = "none"
  <2>1. \A i \in InFlight : i = -1
    BY <1>1 DEF ExecExclusive
  <2>2. QED
    BY <2>1, AnswersPositive, InFlightIs
<1>3. PICK ok \in BOOLEAN : wire' = Append(wire, AnswerPacket(ok))
  BY DEF AnswerCommand
<1>4. AnswerPacket(ok) \in Packet /\ AnswerPacket(ok).kind = "CommandAnswer"
  BY DEF AnswerPacket, Packet
<1>5. Answers' = {Len(wire) + 1}
  BY <1>2, <1>3, <1>4, AnswersAppend
<1>6. InFlight' = Answers' \cup (IF sent' # NoHci THEN {-1} ELSE {})
                           \cup (IF reply' # "none" THEN {0} ELSE {})
  BY DEF InFlight, Answers
<1>7. QED
  BY <1>2, <1>5, <1>6 DEF AnswerCommand

-----------------------------------------------------------------------------
LEMMA ExclusiveInit == Init => ExecExclusive
  BY DEF Init, InitController, ExecExclusive, InFlight

\* A step that leaves alone the answer, the mutex and who is in exec.
LEMMA ExclusiveUntouched ==
  ASSUME ExecExclusive, UNCHANGED <<wire, sent, reply, lock>>,
         apiPc' \in {"init", "exec"} <=> apiPc \in {"init", "exec"},
         cmdPc' = "exec" <=> cmdPc = "exec"
  PROVE  ExecExclusive'
<1>1. InFlight' = InFlight
  BY DEF InFlight
<1>2. QED
  BY <1>1 DEF ExecExclusive

LEMMA ExclusiveNext == IndType /\ ExecExclusive /\ [Next]_vars => ExecExclusive'
<1> SUFFICES ASSUME IndType, ExecExclusive, [Next]_vars PROVE ExecExclusive'
  OBVIOUS
<1>1. CASE HciRead
  <2>1. UNCHANGED <<lock, apiPc, cmdPc>>
    BY <1>1 DEF HciRead
  <2>2. QED
    BY <1>1, <2>1, ExecReadsAnswer DEF ExecExclusive
<1>2. CASE HciSend
  BY <1>2, ExclusiveUntouched DEF HciSend, ctlVars
<1>3. CASE ApiBoot
  <2>1. lock = "free" /\ sent' # NoHci /\ UNCHANGED <<wire, reply>>
    BY <1>3 DEF ApiBoot, NoHci, InitSequence
  <2>2. InFlight' = {-1}
    BY <2>1, ExecStarts
  <2>3. QED
    BY <1>3, <2>2 DEF ApiBoot, ExecExclusive
<1>4. CASE ApiInit
  <2>1. reply # "none" /\ reply' = "none" /\ UNCHANGED wire
    BY <1>4 DEF ApiInit
  <2>2. sent = NoHci /\ InFlight' = IF sent' # NoHci THEN {-1} ELSE {}
    BY <2>1, AnswerTaken
  <2>3. CASE reply = "ok" /\ apiStep < 4
    <3>1. apiStep + 1 \in 1 .. 4
      BY <1>4, <2>3 DEF IndType, TypeOK, Held, ApiInit
    <3>2. sent' # NoHci /\ UNCHANGED <<lock, apiPc, cmdPc>>
      BY <1>4, <2>3, <3>1 DEF ApiInit, NoHci, InitSequence
    <3>3. QED
      BY <1>4, <2>2, <3>2 DEF ApiInit, ExecExclusive
  <2>4. CASE reply = "err" \/ apiStep = 4
    <3>1. sent' = sent /\ lock' = "free" /\ apiPc' = "recv" /\ cmdPc' = cmdPc
      BY <1>4, <2>4 DEF ApiInit
    <3>2. QED
      BY <1>4, <2>2, <3>1 DEF ApiInit, ExecExclusive
  <2>5. QED
    BY <1>4, <2>3, <2>4 DEF ApiInit
<1>5. CASE ApiReceive
  BY <1>5, ExclusiveUntouched DEF ApiReceive, ctlVars
<1>6. CASE ApiLock
  <2>1. CASE HciFor(host, apiReq.req) = NoHci
    BY <1>6, <2>1, ExclusiveUntouched DEF ApiLock
  <2>2. CASE HciFor(host, apiReq.req) # NoHci
    <3>1. lock = "free" /\ sent' # NoHci /\ UNCHANGED <<wire, reply>>
      BY <1>6, <2>2 DEF ApiLock
    <3>2. InFlight' = {-1}
      BY <3>1, ExecStarts
    <3>3. QED
      BY <1>6, <2>2, <3>2 DEF ApiLock, ExecExclusive
  <2>3. QED
    BY <2>1, <2>2
<1>7. CASE ApiExec
  <2>1. sent = NoHci /\ InFlight' = IF sent' # NoHci THEN {-1} ELSE {}
    BY <1>7, AnswerTaken DEF ApiExec, ctlVars
  <2>2. QED
    BY <1>7, <2>1 DEF ApiExec, ctlVars, ExecExclusive
<1>8. CASE ApiRespond
  BY <1>8, ExclusiveUntouched DEF ApiRespond, ctlVars
<1>9. CASE CmdReceive
  BY <1>9, ExclusiveUntouched DEF CmdReceive, ctlVars
<1>10. CASE CmdLock
  <2>1. CASE cmdCur.op \in ExecOps
    <3>1. lock = "free" /\ sent' # NoHci /\ UNCHANGED <<wire, reply>>
      BY <1>10, <2>1 DEF CmdLock, NoHci, ExecOps
    <3>2. InFlight' = {-1}
      BY <3>1, ExecStarts
    <3>3. QED
      BY <1>10, <2>1, <3>2 DEF CmdLock, ExecExclusive
  <2>2. CASE cmdCur.op \notin ExecOps
    BY <1>10, <2>2, ExclusiveUntouched DEF CmdLock
  <2>3. QED
    BY <2>1, <2>2
<1>11. CASE CmdExec
  <2>1. sent = NoHci /\ InFlight' = IF sent' # NoHci THEN {-1} ELSE {}
    BY <1>11, AnswerTaken DEF CmdExec, ctlVars
  <2>2. QED
    BY <1>11, <2>1 DEF CmdExec, ctlVars, ExecExclusive
<1>12. CASE Controller
  <2>1. UNCHANGED <<lock, apiPc, cmdPc, reply>>
    BY <1>12 DEF Controller, taskVars
  <2>2. CASE AnswerCommand
    <3>1. InFlight' = {Len(wire) + 1}
      BY <2>1, <2>2, AnswerSent
    <3>2. -1 \in InFlight
      BY <2>2, InFlightIs DEF AnswerCommand
    <3>3. QED
      BY <2>1, <3>1, <3>2 DEF ExecExclusive
  <2>3. CASE EmitEvent
    <3>1. Reported
      BY <2>3, EmitEventType
    <3>2. PICK p \in Packet : p.kind # "CommandAnswer" /\ wire' = Append(wire, p)
      BY <3>1 DEF Reported
    <3>3. Answers' = Answers
      BY <3>2, AnswersAppend
    <3>4. InFlight' = Answers' \cup (IF sent' # NoHci THEN {-1} ELSE {})
                               \cup (IF reply' # "none" THEN {0} ELSE {})
      BY DEF InFlight, Answers
    <3>5. InFlight' = InFlight
      BY <2>1, <3>1, <3>3, <3>4, InFlightIs DEF Reported
    <3>6. QED
      BY <2>1, <3>5 DEF ExecExclusive
  <2>4. QED
    BY <1>12, <2>2, <2>3 DEF Controller
<1>13. CASE Users
  BY <1>13, ExclusiveUntouched
     DEF Users, ClientCall, ClientSend, ClientReceive, ClientDrop, taskVars, ctlVars
<1>14. CASE UNCHANGED vars
  BY <1>14, ExclusiveUntouched DEF vars, taskVars, ctlVars
<1>15. QED
  BY <1>1, <1>2, <1>3, <1>4, <1>5, <1>6, <1>7, <1>8, <1>9, <1>10, <1>11, <1>12, <1>13, <1>14
     DEF Next, Executor, HciTask, ApiTask, CmdTask

\* Whatever the number of clients and the capacities: while a task waits in
\* controller.exec it holds the host mutex and exactly one answer is due, to
\* it; otherwise none is.
THEOREM ExecIsExclusive == Spec => []ExecExclusive
<1>1. Init => IndType /\ ExecExclusive
  BY TypeInit, ExclusiveInit
<1>2. (IndType /\ ExecExclusive) /\ [Next]_vars => (IndType /\ ExecExclusive)'
  BY TypeNext, ExclusiveNext
<1>3. QED
  BY <1>1, <1>2, PTL DEF Spec

-----------------------------------------------------------------------------
(* The refinement: its invariant.                                         *)

\* A handler in exec is one whose request calls for a command, in the record as
\* it is; a command in exec is one that leaves the record alone.
Awaiting ==
  /\ apiPc = "exec" => HciFor(host, apiReq.req) # NoHci
  /\ cmdPc = "exec" => cmdCur.op \in ExecOps

RefInv == IndType /\ ExecExclusive /\ Awaiting

LEMMA RefInvInit == Init => RefInv
  BY TypeInit, ExclusiveInit DEF RefInv, Awaiting, Init

LEMMA RefInvNext == RefInv /\ [Next]_vars => RefInv'
<1> SUFFICES ASSUME RefInv, [Next]_vars PROVE Awaiting'
  BY TypeNext, ExclusiveNext DEF RefInv
<1> USE DEF RefInv, Awaiting
<1>1. CASE HciRead
  BY <1>1 DEF HciRead
<1>2. CASE HciSend
  BY <1>2 DEF HciSend
<1>3. CASE ApiBoot
  BY <1>3 DEF ApiBoot
<1>4. CASE ApiInit
  BY <1>4 DEF ApiInit
<1>5. CASE ApiReceive
  BY <1>5 DEF ApiReceive
<1>6. CASE ApiLock
  BY <1>6 DEF ApiLock
<1>7. CASE ApiExec
  BY <1>7 DEF ApiExec
<1>8. CASE ApiRespond
  BY <1>8 DEF ApiRespond
<1>9. CASE CmdReceive
  BY <1>9 DEF CmdReceive
<1>10. CASE CmdLock
  <2>1. apiPc # "exec"
    BY <1>10 DEF CmdLock, ExecExclusive
  <2>2. QED
    BY <1>10, <2>1 DEF CmdLock
<1>11. CASE CmdExec
  BY <1>11 DEF CmdExec
<1>12. CASE Controller \/ Users \/ UNCHANGED vars
  <2>1. UNCHANGED <<host, taskVars>>
    BY <1>12 DEF Controller, Users, ClientCall, ClientSend, ClientReceive, ClientDrop, vars
  <2>2. QED
    BY <2>1 DEF taskVars
<1>13. QED
  BY <1>1, <1>2, <1>3, <1>4, <1>5, <1>6, <1>7, <1>8, <1>9, <1>10, <1>11, <1>12
     DEF Next, Executor, HciTask, ApiTask, CmdTask

-----------------------------------------------------------------------------
(* The mutations on their way.                                             *)

InHand == IF cmdPc = "recv" THEN <<>> ELSE <<cmdCur>>

LEMMA UnappliedType ==
  ASSUME IndType
  PROVE  /\ InHand \in Seq(InternalCommand)
         /\ commands \in Seq(InternalCommand)
         /\ batch \in Seq(InternalCommand)
         /\ Unapplied = InHand \o commands \o batch
         /\ Unapplied = InHand \o (commands \o batch)
         /\ Unapplied \in Seq(InternalCommand)
<1>1. commands \in Seq(InternalCommand) /\ batch \in Seq(InternalCommand)
  BY DEF IndType, TypeOK
<1>2. InHand \in Seq(InternalCommand)
  BY TupleType DEF IndType, Held, InHand
<1>3. Unapplied = InHand \o commands \o batch
  BY DEF InHand, Unapplied
<1>4. InHand \o commands \in Seq(InternalCommand)
  BY <1>1, <1>2, ConcatProperties
<1>5. InHand \o commands \o batch \in Seq(InternalCommand)
  BY <1>1, <1>4, ConcatProperties
<1>6. InHand \o commands \o batch = InHand \o (commands \o batch)
  BY <1>1, <1>2, ConcatAssociative
<1>7. QED
  BY <1>1, <1>2, <1>3, <1>5, <1>6

\* Extending a sequence by a non-empty one makes it a strict prefix.
LEMMA ExtendsPrefix ==
  ASSUME NEW S, NEW s \in Seq(S), NEW t \in Seq(S), t # <<>>
  PROVE  Pipeline!IsStrictPrefix(s, s \o t)
<1>1. Len(s \o t) = Len(s) + Len(t) /\ Len(t) > 0
  BY EmptySeq, LenProperties, ConcatProperties
<1>2. SubSeq(s, 1, Len(s)) = SubSeq(s \o t, 1, Len(s))
  BY SubSeqOfConcat1, SubSeqFull
<1>3. s # s \o t
  BY <1>1, LenProperties
<1>4. QED
  BY <1>1, <1>2, <1>3, LenProperties DEF Pipeline!IsStrictPrefix, Pipeline!IsPrefix

\* hci reads a packet: nothing, or an event's mutations queue up at the end.
LEMMA ReadReports ==
  ASSUME RefInv, HciRead
  PROVE  Pipeline!Report \/ UNCHANGED Pipeline!vars
<1>1. /\ batch = <<>> /\ UNCHANGED <<host, commands, cmdPc, cmdCur, apiPc>>
      /\ batch' \in Seq(InternalCommand)
  BY TypeNext DEF RefInv, HciRead, IndType, TypeOK, Next, Executor, HciTask
<1>2. UNCHANGED <<host, Booted, InHand>>
  BY <1>1 DEF Booted, InHand
<1>3. Unapplied = InHand \o commands /\ Unapplied \in Seq(InternalCommand)
  <2>1. /\ Unapplied = InHand \o (commands \o batch) /\ Unapplied \in Seq(InternalCommand)
        /\ commands \in Seq(InternalCommand)
    BY UnappliedType DEF RefInv
  <2>2. commands \o batch = commands
    BY <1>1, <2>1, ConcatEmptySeq
  <2>3. QED
    BY <2>1, <2>2
<1>4. Unapplied' = Unapplied \o batch'
  BY <1>1, <1>2, <1>3 DEF Unapplied, InHand
<1>5. CASE batch' = <<>>
  BY <1>2, <1>3, <1>4, <1>5, ConcatEmptySeq DEF Pipeline!vars
<1>6. CASE batch' # <<>>
  BY <1>1, <1>2, <1>3, <1>4, <1>6, ExtendsPrefix DEF Pipeline!Report
<1>7. QED
  BY <1>5, <1>6

\* hci moves one of them into the channel.
LEMMA SendKeepsOrder ==
  ASSUME RefInv, HciSend
  PROVE  UNCHANGED Pipeline!vars
<1>1. /\ batch # <<>> /\ UNCHANGED <<host, cmdPc, cmdCur, apiPc>>
      /\ commands' = Append(commands, Head(batch)) /\ batch' = Tail(batch)
  BY DEF HciSend
<1>2. UNCHANGED <<host, Booted, InHand>>
  BY <1>1 DEF Booted, InHand
<1>3. Append(commands, Head(batch)) \o Tail(batch) = commands \o batch
  BY <1>1, UnappliedType DEF RefInv
<1>4. InHand \o (commands' \o batch') = InHand \o (commands \o batch)
  BY <1>1, <1>3
<1>5. Unapplied' = InHand \o commands' \o batch'
  BY <1>2 DEF Unapplied, InHand
<1>6. commands' \in Seq(InternalCommand) /\ batch' \in Seq(InternalCommand)
  BY TypeNext DEF RefInv, IndType, TypeOK, Next, Executor, HciTask
<1>7. InHand \in Seq(InternalCommand) /\ Unapplied = InHand \o (commands \o batch)
  BY UnappliedType DEF RefInv
<1>8. InHand \o commands' \o batch' = InHand \o (commands' \o batch')
  BY <1>6, <1>7, ConcatAssociative
<1>9. Unapplied' = Unapplied
  BY <1>4, <1>5, <1>7, <1>8
<1>10. QED
  BY <1>2, <1>9 DEF Pipeline!vars

\* cmd takes the oldest out of the channel.
LEMMA ReceiveKeepsOrder ==
  ASSUME RefInv, CmdReceive
  PROVE  UNCHANGED Pipeline!vars
<1>1. /\ commands # <<>> /\ UNCHANGED <<host, batch, apiPc>> /\ cmdPc = "recv"
      /\ cmdPc' = "lock" /\ cmdCur' = Head(commands) /\ commands' = Tail(commands)
  BY DEF CmdReceive
<1>2. <<Head(commands)>> \o Tail(commands) = commands
  BY <1>1, UnappliedType DEF RefInv
<1>3. <<>> \o commands = commands
  BY UnappliedType, ConcatEmptySeq DEF RefInv
<1>4. Unapplied' = Unapplied
  BY <1>1, <1>2, <1>3 DEF Unapplied
<1>5. UNCHANGED <<host, Booted>>
  BY <1>1 DEF Booted
<1>6. QED
  BY <1>4, <1>5 DEF Pipeline!vars

\* cmd is done with one: it was the oldest.
LEMMA DoneIsOldest ==
  ASSUME RefInv, cmdPc # "recv", cmdPc' = "recv", UNCHANGED <<commands, batch>>
  PROVE  Unapplied # <<>> /\ Head(Unapplied) = cmdCur /\ Tail(Unapplied) = Unapplied'
<1>1. cmdCur \in InternalCommand /\ InHand = <<cmdCur>>
  BY DEF RefInv, IndType, Held, InHand
<1>2. commands \o batch \in Seq(InternalCommand)
  BY UnappliedType, ConcatProperties DEF RefInv
<1>3. Unapplied = <<cmdCur>> \o (commands \o batch)
  BY <1>1, UnappliedType DEF RefInv
<1>4. Unapplied' = commands \o batch
  BY UnappliedType, ConcatEmptySeq DEF Unapplied, RefInv
<1>5. QED
  BY <1>1, <1>2, <1>3, <1>4

LEMMA SameApply == \A h, c : Pipeline!Apply(h, c) = Apply(h, c)
  BY DEF Pipeline!Apply, Apply, Pipeline!Put, Put, Pipeline!UpsertDevice, UpsertDevice,
         Pipeline!UpdateDeviceName, UpdateDeviceName, Pipeline!AddAclConnection,
         AddAclConnection, Pipeline!RemoveConnectionsByHandle, RemoveConnectionsByHandle,
         Pipeline!StoreLinkKey, StoreLinkKey

LEMMA SameServed == \A h, r, ok : Pipeline!Served(h, r, ok) = Served(h, r, ok)
  BY DEF Pipeline!Served, Served

LEMMA SameHciFor == \A h, r : Pipeline!HciFor(h, r) = HciFor(h, r)
  BY DEF Pipeline!HciFor, HciFor, Pipeline!NoHci, NoHci

LEMMA LockApplies ==
  ASSUME RefInv, CmdLock
  PROVE  Pipeline!ApplyOldest \/ UNCHANGED Pipeline!vars
<1>1. CASE cmdCur.op \in ExecOps
  BY <1>1 DEF CmdLock, Pipeline!vars, Unapplied, Booted
<1>2. CASE cmdCur.op \notin ExecOps
  <2>1. /\ host' = Apply(host, cmdCur) /\ cmdPc # "recv" /\ cmdPc' = "recv"
        /\ UNCHANGED <<commands, batch, apiPc>>
    BY <1>2 DEF CmdLock
  <2>2. QED
    BY <2>1, DoneIsOldest, SameApply DEF Pipeline!ApplyOldest, Booted
<1>3. QED
  BY <1>1, <1>2

LEMMA ExecApplies ==
  ASSUME RefInv, CmdExec
  PROVE  Pipeline!ApplyOldest
<1>1. /\ UNCHANGED <<host, commands, batch, apiPc>> /\ cmdPc # "recv" /\ cmdPc' = "recv"
      /\ cmdCur.op \in ExecOps
  BY DEF CmdExec, RefInv, Awaiting
<1>2. Apply(host, cmdCur) = host
  BY <1>1 DEF Apply, ExecOps
<1>3. QED
  BY <1>1, <1>2, DoneIsOldest, SameApply DEF Pipeline!ApplyOldest, Booted

\* The end of an exec serves the request, in the record that accepted it.
LEMMA ExecServes ==
  ASSUME RefInv, ApiExec
  PROVE  Pipeline!Serve \/ UNCHANGED Pipeline!vars
<1>1. /\ UNCHANGED <<commands, batch, cmdPc, cmdCur>> /\ apiPc = "exec" /\ apiPc' = "respond"
      /\ host' = Served(host, apiReq.req, reply = "ok")
  BY DEF ApiExec
<1>2. UNCHANGED Unapplied /\ Booted /\ Booted'
  BY <1>1 DEF Unapplied, Booted
<1>3. HciFor(host, apiReq.req) # NoHci /\ apiReq.req \in Requests
  BY <1>1 DEF RefInv, Awaiting, IndType, Held, Call
<1>4. CASE reply = "ok"
  BY <1>1, <1>2, <1>3, <1>4, SameServed, SameHciFor DEF Pipeline!Serve, Pipeline!NoHci, NoHci
<1>5. CASE reply # "ok"
  <2>1. host' = host
    BY <1>1, <1>5 DEF Served
  <2>2. QED
    BY <1>2, <2>1 DEF Pipeline!vars
<1>6. QED
  BY <1>4, <1>5

LEMMA InitBoots ==
  ASSUME RefInv, ApiInit
  PROVE  Pipeline!Boot \/ UNCHANGED Pipeline!vars
<1>1. UNCHANGED Unapplied /\ ~Booted
  BY DEF ApiInit, Unapplied, Booted
<1>2. CASE reply = "ok" /\ apiStep < 4
  BY <1>1, <1>2 DEF ApiInit, RefInv, IndType, Held, Booted, Pipeline!vars
<1>3. CASE reply = "err" \/ apiStep = 4
  <2>1. \E s \in {"PoweredOn", "PoweredOff"} : host' = [host EXCEPT !.state = s]
    BY <1>3 DEF ApiInit, RefInv, IndType, Held
  <2>2. Booted'
    BY <1>3 DEF ApiInit, RefInv, IndType, Held, Booted
  <2>3. QED
    BY <1>1, <2>1, <2>2 DEF Pipeline!Boot
<1>4. QED
  BY <1>2, <1>3 DEF ApiInit

-----------------------------------------------------------------------------
LEMMA RefinesInit == Init => Pipeline!Init
  BY ConcatEmptySeq, EmptySeq
     DEF Init, Pipeline!Init, InitHost, Pipeline!InitHost, Unapplied, Booted

LEMMA RefinesNext == RefInv /\ [Next]_vars => [Pipeline!Next]_(Pipeline!vars)
<1> SUFFICES ASSUME RefInv, [Next]_vars PROVE Pipeline!Next \/ UNCHANGED Pipeline!vars
  OBVIOUS
<1>1. CASE HciTask
  BY <1>1, ReadReports, SendKeepsOrder DEF HciTask, Pipeline!Next
<1>2. CASE CmdTask
  BY <1>2, ReceiveKeepsOrder, LockApplies, ExecApplies DEF CmdTask, Pipeline!Next
<1>3. CASE ApiInit \/ ApiExec
  BY <1>3, InitBoots, ExecServes DEF Pipeline!Next
<1>4. CASE ApiBoot \/ ApiReceive \/ ApiLock \/ ApiRespond
  BY <1>4 DEF ApiBoot, ApiReceive, ApiLock, ApiRespond, Unapplied, Booted, Pipeline!vars
<1>5. CASE Controller \/ Users \/ UNCHANGED vars
  <2>1. UNCHANGED <<host, taskVars, commands>>
    BY <1>5 DEF Controller, Users, ClientCall, ClientSend, ClientReceive, ClientDrop, vars
  <2>2. QED
    BY <2>1 DEF taskVars, Unapplied, Booted, Pipeline!vars
<1>6. QED
  BY <1>1, <1>2, <1>3, <1>4, <1>5 DEF Next, Executor, ApiTask

\* For every capacity of the channels, any number of clients and any events,
\* the tasks implement the pipeline.
THEOREM TasksImplementPipeline == Spec => PipelineSpec
<1>1. Init => Pipeline!Init /\ RefInv
  BY RefinesInit, RefInvInit
<1>2. RefInv /\ [Next]_vars => RefInv'
  BY RefInvNext
<1>3. RefInv /\ [Next]_vars => [Pipeline!Next]_(Pipeline!vars)
  BY RefinesNext
<1>4. QED
  BY <1>1, <1>2, <1>3, PTL DEF Spec, PipelineSpec, Pipeline!Spec

-----------------------------------------------------------------------------
(* A lone client that waits for its answers.                               *)

Lone == (\A b, c \in Client : b = c) /\ Impatient = {}

\* Nobody else's call is anywhere: the api task serves none, or the client's own,
\* which is in one place between the request channel and the response channel.
Serving == apiPc \in {"lock", "exec", "respond"}
CallInFlight ==
  \A c \in Client :
    IF clients[c].pc # "wait"
    THEN requests = <<>> /\ responses = <<>> /\ ~Serving
    ELSE \/ requests = <<clients[c].call>> /\ responses = <<>> /\ ~Serving
         \/ /\ requests = <<>> /\ responses = <<>> /\ Serving
            /\ apiReq = clients[c].call
            /\ apiPc = "respond" => apiResp.to = clients[c].call
         \/ /\ requests = <<>> /\ ~Serving
            /\ \E r \in Response : responses = <<r>> /\ r.to = clients[c].call

LoneInv == IndType /\ CallInFlight

LEMMA LoneInit == Init => LoneInv
  BY TypeInit DEF LoneInv, CallInFlight, Init, Serving

LEMMA LoneUsers ==
  ASSUME Lone, LoneInv, Users
  PROVE  CallInFlight'
<1>1. PICK c \in Client : ClientCall(c) \/ ClientSend(c) \/ ClientReceive(c) \/ ClientDrop(c)
  BY DEF Users
<1>2. (\A d \in Client : d = c) /\ clients \in [Client -> ClientState]
  BY DEF Lone, LoneInv, IndType, TypeOK
<1>3. UNCHANGED <<apiPc, apiReq, apiResp>> /\ (Serving' <=> Serving)
  BY <1>1 DEF ClientCall, ClientSend, ClientReceive, ClientDrop, taskVars, Serving
<1>4. CallInFlight
  BY DEF LoneInv
<1>5. CASE ClientCall(c)
  <2>1. /\ clients[c].pc = "idle" /\ clients'[c].pc = "send"
        /\ UNCHANGED <<requests, responses>>
    BY <1>2, <1>5 DEF ClientCall
  <2>2. requests = <<>> /\ responses = <<>> /\ ~Serving
    BY <1>4, <2>1 DEF CallInFlight
  <2> QED
    BY <1>2, <1>3, <2>1, <2>2 DEF CallInFlight
<1>6. CASE ClientSend(c)
  <2>1. /\ clients[c].pc = "send" /\ clients'[c].pc = "wait"
        /\ clients'[c].call = clients[c].call
        /\ requests' = Append(requests, clients[c].call) /\ responses' = responses
    BY <1>2, <1>6 DEF ClientSend, ClientState
  <2>2. requests = <<>> /\ responses = <<>> /\ ~Serving
    BY <1>4, <2>1 DEF CallInFlight
  <2>3. requests' = <<clients[c].call>>
    BY <2>1, <2>2
  <2> QED
    BY <1>2, <1>3, <2>1, <2>2, <2>3 DEF CallInFlight
<1>7. CASE ClientReceive(c)
  <2>1. /\ clients[c].pc = "wait" /\ clients'[c].pc = "idle"
        /\ responses # <<>> /\ responses' = Tail(responses) /\ requests' = requests
    BY <1>2, <1>7 DEF ClientReceive, ClientState
  <2>2. requests = <<>> /\ ~Serving /\ \E r \in Response : responses = <<r>>
    BY <1>4, <2>1 DEF CallInFlight
  <2>3. responses' = <<>>
    BY <2>1, <2>2
  <2> QED
    BY <1>2, <1>3, <2>1, <2>2, <2>3 DEF CallInFlight
<1>8. CASE ClientDrop(c)
  BY <1>8 DEF ClientDrop, Lone
<1> QED
  BY <1>1, <1>5, <1>6, <1>7, <1>8

LEMMA LoneNext == Lone /\ LoneInv /\ [Next]_vars => LoneInv'
<1> SUFFICES ASSUME Lone, LoneInv, [Next]_vars PROVE CallInFlight'
  BY TypeNext DEF LoneInv
<1>1. CallInFlight /\ IndType
  BY DEF LoneInv
<1>2. ASSUME UNCHANGED <<clients, requests, responses, apiReq, apiResp>>,
             Serving' <=> Serving, apiPc' = "respond" => apiPc = "respond"
      PROVE  CallInFlight'
  BY <1>1, <1>2 DEF CallInFlight
<1>3. CASE HciTask \/ CmdTask \/ Controller \/ UNCHANGED vars
  <2>1. UNCHANGED <<clients, requests, responses, apiReq, apiResp, apiPc>>
    BY <1>3 DEF HciTask, HciRead, HciSend, CmdTask, CmdReceive, CmdLock, CmdExec, Controller,
       taskVars, vars
  <2> QED
    BY <1>2, <2>1 DEF Serving
<1>4. CASE ApiBoot \/ ApiInit
  <2>1. /\ UNCHANGED <<clients, requests, responses, apiReq, apiResp>>
        /\ ~Serving /\ ~Serving'
    BY <1>4 DEF ApiBoot, ApiInit, Serving
  <2> QED
    BY <1>2, <2>1 DEF Serving
<1>5. CASE ApiReceive
  <2>1. /\ requests # <<>> /\ apiReq' = Head(requests) /\ requests' = Tail(requests)
        /\ UNCHANGED <<clients, responses>> /\ apiPc' = "lock" /\ Serving'
    BY <1>5 DEF ApiReceive, Serving
  <2>2. ASSUME NEW c \in Client
        PROVE  /\ clients[c].pc = "wait" /\ responses = <<>>
               /\ requests = <<clients[c].call>>
    BY <1>1, <2>1 DEF CallInFlight
  <2>3. ASSUME NEW c \in Client PROVE requests' = <<>> /\ apiReq' = clients[c].call
    BY <2>1, <2>2
  <2> QED
    BY <2>1, <2>2, <2>3 DEF CallInFlight
<1>6. CASE ApiLock \/ ApiExec
  <2>1. /\ Serving /\ Serving' /\ UNCHANGED <<clients, requests, responses, apiReq>>
        /\ apiPc' = "respond" => apiResp'.to = apiReq
    BY <1>6 DEF ApiLock, ApiExec, Serving
  <2> QED
    BY <1>1, <2>1 DEF CallInFlight
<1>7. CASE ApiRespond
  <2>1. /\ Serving /\ ~Serving' /\ apiPc = "respond" /\ UNCHANGED <<clients, requests>>
        /\ responses' = Append(responses, apiResp) /\ apiResp \in Response
    BY <1>1, <1>7 DEF ApiRespond, Serving, IndType, Held
  <2>2. ASSUME NEW c \in Client
        PROVE  /\ clients[c].pc = "wait" /\ responses = <<>> /\ requests = <<>>
               /\ apiResp.to = clients[c].call
    BY <1>1, <2>1 DEF CallInFlight
  <2>3. ASSUME NEW c \in Client PROVE responses' = <<apiResp>>
    <3>1. responses = <<>> /\ responses' = Append(responses, apiResp)
      BY <2>1, <2>2
    <3>2. Append(<<>>, apiResp) = <<apiResp>>
      OBVIOUS
    <3> QED
      BY ONLY <3>1, <3>2
  <2> QED
    BY <2>1, <2>2, <2>3 DEF CallInFlight
<1>8. CASE Users
  BY <1>8, LoneUsers
<1> QED
  BY <1>3, <1>4, <1>5, <1>6, <1>7, <1>8 DEF Next, Executor, ApiTask

\* The api functions promise a caller the response to its own call.  One response
\* channel is enough for that where a single client uses the API and drops none of
\* its calls, whatever the tasks and the controller do.
THEOREM LoneCallsReturn == Lone /\ Spec => OwnAnswer
<1>1. ASSUME LoneInv PROVE TakesOwnAnswer
  <2> SUFFICES ASSUME NEW c \in Client, Returns(c) PROVE Head(responses).to = clients[c].call
    BY DEF TakesOwnAnswer
  <2>1. clients[c].pc = "wait" /\ responses # <<>>
    BY DEF Returns
  <2>2. PICK r \in Response : responses = <<r>> /\ r.to = clients[c].call
    BY <1>1, <2>1 DEF LoneInv, CallInFlight
  <2> QED
    BY <2>2
<1>2. LoneInv => [TakesOwnAnswer]_vars
  BY <1>1
<1>3. CASE ~Lone
  BY <1>3
<1>4. CASE Lone
  <2>1. LoneInv /\ [Next]_vars => LoneInv'
    BY <1>4, LoneNext
  <2> QED
    BY <1>2, <2>1, LoneInit, PTL DEF Spec, OwnAnswer
<1> QED
  BY <1>3, <1>4

-----------------------------------------------------------------------------
(* The host record follows the controller: its inquiry, its links and its  *)
(* activity.                                                               *)
(*                                                                         *)
(* The record lags behind what the controller has done by the packets on   *)
(* the wire, the mutations that hci and cmd hold, and the request that the *)
(* controller has accepted and exec has not returned from.  Seen that way  *)
(* a step of the tasks is one of nine (StepIs), and each invariant says    *)
(* what the record will be once all of that has been applied.              *)

\* The request that the controller has accepted and that is not served yet.
Answered == reply = "ok" \/ \E i \in DOMAIN wire : wire[i].kind = "CommandAnswer" /\ wire[i].ok
Accepted == IF apiPc = "exec" /\ Answered THEN {apiReq.req} ELSE {}

\* What exec has written is the command of the handler that waits in it.
SentIsOwn ==
  /\ apiPc = "init" /\ sent # NoHci => \E i \in 1 .. 4 : sent = [op |-> InitSequence[i]]
  /\ apiPc = "exec" /\ sent # NoHci => sent = HciFor(host, apiReq.req)
  /\ cmdPc = "exec" /\ sent # NoHci => sent = cmdCur

Base == RefInv /\ SentIsOwn

-----------------------------------------------------------------------------
(* The steps, as the record and the controller see them.                   *)

ReadEvent ==
  /\ wire # <<>> /\ Head(wire).kind # "CommandAnswer"
  /\ wire' = Tail(wire)
  /\ Unapplied' = Unapplied \o ProcessHciEvent(Head(wire))
  /\ UNCHANGED <<host, ctl, Accepted>>

ReadAnswer ==
  /\ wire # <<>> /\ Head(wire).kind = "CommandAnswer"
  /\ wire' = Tail(wire)
  /\ UNCHANGED <<host, ctl, Accepted, Unapplied>>

ApplyFirst ==
  /\ Unapplied # <<>>
  /\ host' = Apply(host, Head(Unapplied))
  /\ Unapplied' = Tail(Unapplied)
  /\ Accepted = {} /\ Accepted' = {}
  /\ UNCHANGED <<wire, ctl>>

FinishBoot ==
  /\ \E s \in {"PoweredOn", "PoweredOff"} : host' = [host EXCEPT !.state = s]
  /\ Accepted = {} /\ Accepted' = {}
  /\ UNCHANGED <<wire, ctl, Unapplied>>

ServeAccepted ==
  /\ \E r \in Request : /\ Accepted = {r} /\ HciFor(host, r) # NoHci
                        /\ host' = Served(host, r, TRUE)
  /\ Accepted' = {}
  /\ UNCHANGED <<wire, ctl, Unapplied>>

AcceptRequest ==
  /\ Accepted = {}
  /\ \E r \in Request :
       /\ HciFor(host, r) # NoHci /\ ~Disallowed(HciFor(host, r))
       /\ ctl' = Started(HciFor(host, r))
       /\ Accepted' = {r}
  /\ wire' = Append(wire, AnswerPacket(TRUE))
  /\ UNCHANGED <<host, Unapplied>>

\* A refusal, or the answer to a command of initialize or of cmd.
AnswerOther ==
  /\ Accepted = {} /\ Accepted' = {}
  /\ \E ok \in BOOLEAN : wire' = Append(wire, AnswerPacket(ok))
  /\ ctl'.inquiring = ctl.inquiring /\ ctl'.paging = ctl.paging /\ ctl'.links = ctl.links
  /\ UNCHANGED <<host, Unapplied>>

EmitOne == EmitEvent /\ UNCHANGED <<host, Unapplied, Accepted>>

Quiet == UNCHANGED <<host, Unapplied, wire, ctl, Accepted>>

TrackedStep ==
  \/ ReadEvent \/ ReadAnswer \/ ApplyFirst \/ FinishBoot \/ ServeAccepted
  \/ AcceptRequest \/ AnswerOther \/ EmitOne \/ Quiet

-----------------------------------------------------------------------------
(* What exec has written.                                                  *)

LEMMA SentInit == Init => SentIsOwn
  BY DEF Init, InitController, SentIsOwn

LEMMA SentNext == Base /\ [Next]_vars => SentIsOwn'
<1> SUFFICES ASSUME Base, [Next]_vars PROVE SentIsOwn'
  OBVIOUS
<1> USE DEF Base, SentIsOwn
<1>x. ExecExclusive
  BY DEF RefInv
<1>1. CASE HciTask
  BY <1>1 DEF HciTask, HciRead, HciSend, ctlVars
<1>2. CASE ApiBoot
  BY <1>2, <1>x DEF ApiBoot, ExecExclusive
<1>3. CASE ApiInit
  <2>1. CASE reply = "ok" /\ apiStep < 4
    <3>1. apiStep + 1 \in 1 .. 4 /\ apiPc = "init"
      BY <1>3, <2>1 DEF RefInv, IndType, TypeOK, Held, ApiInit
    <3>2. sent' = [op |-> InitSequence[apiStep + 1]] /\ UNCHANGED <<apiPc, cmdPc, cmdCur>>
      BY <1>3, <2>1 DEF ApiInit, RefInv, IndType, Held
    <3> QED
      BY <1>x, <3>1, <3>2 DEF ExecExclusive
  <2>2. CASE reply = "err" \/ apiStep = 4
    BY <1>3, <1>x, <2>2 DEF ApiInit, ExecExclusive, RefInv, IndType, Held
  <2> QED
    BY <1>3, <2>1, <2>2 DEF ApiInit
<1>4. CASE ApiReceive \/ ApiRespond
  BY <1>4 DEF ApiReceive, ApiRespond, ctlVars
<1>5. CASE ApiLock
  BY <1>5, <1>x DEF ApiLock, ExecExclusive
<1>6. CASE ApiExec
  BY <1>6, <1>x DEF ApiExec, ExecExclusive, ctlVars
<1>7. CASE CmdReceive \/ CmdExec
  BY <1>7 DEF CmdReceive, CmdExec, ctlVars
<1>8. CASE CmdLock
  BY <1>8, <1>x DEF CmdLock, ExecExclusive
<1>9. CASE Controller
  <2>1. UNCHANGED <<host, taskVars>> /\ (sent' = sent \/ sent' = NoHci)
    BY <1>9 DEF Controller, AnswerCommand, EmitEvent, EmitInquiryResult,
       EmitExtendedInquiryResult, EmitInquiryComplete, EmitConnectionComplete,
       EmitDisconnectionComplete, EmitRemoteNameRequestComplete,
       EmitAuthenticationComplete, EmitPairing, EmitAcl, Emit
  <2> QED
    BY <2>1 DEF taskVars
<1>10. CASE Users \/ UNCHANGED vars
  <2>1. UNCHANGED <<host, taskVars, ctlVars>>
    BY <1>10 DEF Users, ClientCall, ClientSend, ClientReceive, ClientDrop, vars
  <2> QED
    BY <2>1 DEF taskVars, ctlVars
<1> QED
  BY <1>1, <1>2, <1>3, <1>4, <1>5, <1>6, <1>7, <1>8, <1>9, <1>10
     DEF Next, Executor, ApiTask, CmdTask

LEMMA BaseInit == Init => Base
  BY RefInvInit, SentInit DEF Base

LEMMA BaseNext == Base /\ [Next]_vars => Base'
  BY RefInvNext, SentNext DEF Base

\* The handler's own return ends its exec, and no other step that changes the
\* record or the request can be taken while the mutex is held.
LEMMA AwaitKept == Base /\ [Next]_vars => AwaitKeepsRecord
<1> SUFFICES ASSUME Base, [Next]_vars, apiPc = "exec"
             PROVE  /\ apiPc' = "exec" => UNCHANGED <<host, apiReq>>
                    /\ sent # NoHci => sent = HciFor(host, apiReq.req)
  BY DEF AwaitKeepsRecord
<1>1. sent # NoHci => sent = HciFor(host, apiReq.req)
  BY DEF Base, SentIsOwn
<1>2. lock # "free"
  BY DEF Base, RefInv, ExecExclusive
<1>3. CASE HciTask
  BY <1>1, <1>3 DEF HciTask, HciRead, HciSend
<1>4. CASE ApiTask
  BY <1>1, <1>4 DEF ApiTask, ApiBoot, ApiInit, ApiReceive, ApiLock, ApiExec, ApiRespond
<1>5. CASE CmdTask
  BY <1>1, <1>2, <1>5 DEF CmdTask, CmdReceive, CmdLock, CmdExec
<1>6. CASE Controller \/ Users \/ UNCHANGED vars
  <2>1. UNCHANGED <<host, taskVars>>
    BY <1>6 DEF Controller, AnswerCommand, EmitEvent, EmitInquiryResult,
       EmitExtendedInquiryResult, EmitInquiryComplete, EmitConnectionComplete,
       EmitDisconnectionComplete, EmitRemoteNameRequestComplete,
       EmitAuthenticationComplete, EmitPairing, EmitAcl, Emit, Users, ClientCall,
       ClientSend, ClientReceive, ClientDrop, vars
  <2> QED
    BY <1>1, <2>1 DEF taskVars
<1> QED
  BY <1>3, <1>4, <1>5, <1>6 DEF Next, Executor

\* While a handler waits in exec no step but its return changes the record it
\* read, and the command that is out is the one that record calls for.
THEOREM ExecIsUndisturbed == Spec => ExecUndisturbed
<1>1. Init => Base
  BY BaseInit
<1>2. Base /\ [Next]_vars => Base'
  BY BaseNext
<1>3. Base /\ [Next]_vars => [AwaitKeepsRecord]_vars
  BY AwaitKept
<1>4. QED
  BY <1>1, <1>2, <1>3, PTL DEF Spec, ExecUndisturbed

-----------------------------------------------------------------------------
(* Every step is one of the nine.                                          *)

\* When the answer to an exec can have arrived.
LEMMA AnsweredIs ==
  ASSUME Base
  PROVE  /\ lock = "free" => ~Answered
         /\ sent # NoHci => ~Answered
         /\ reply # "none" => (Answered <=> reply = "ok")
         /\ apiPc # "exec" => Accepted = {}
<1>1. IndType /\ ExecExclusive
  BY DEF Base, RefInv
<1>2. Answered => \E i \in InFlight : i \in Answers \/ reply = "ok"
  BY InFlightIs DEF Answered, Answers
<1>3. lock = "free" => ~Answered
  BY <1>1, <1>2 DEF ExecExclusive
<1>4. \A i \in Answers : i # -1 /\ i # 0
  BY <1>1, AnswersPositive
<1>5. ASSUME sent # NoHci PROVE ~Answered
  <2>1. -1 \in InFlight
    BY <1>5, InFlightIs
  <2>2. \A i \in InFlight : i = -1
    BY <1>1, <2>1 DEF ExecExclusive
  <2>3. Answers = {} /\ reply = "none"
    BY <1>4, <2>2, InFlightIs
  <2> QED
    BY <2>3 DEF Answered, Answers
<1>6. ASSUME reply # "none" PROVE Answered <=> reply = "ok"
  <2>1. 0 \in InFlight
    BY <1>6, InFlightIs
  <2>2. \A i \in InFlight : i = 0
    BY <1>1, <2>1 DEF ExecExclusive
  <2>3. Answers = {}
    BY <1>4, <2>2, InFlightIs
  <2> QED
    BY <2>3 DEF Answered, Answers
<1> QED
  BY <1>3, <1>5, <1>6 DEF Accepted

\* What a packet does to the answers when it is appended or taken off.
LEMMA WireAppend ==
  ASSUME IndType, NEW p \in Packet, wire' = Append(wire, p)
  PROVE  /\ DOMAIN wire' = DOMAIN wire \cup {Len(wire) + 1}
         /\ Len(wire) + 1 \notin DOMAIN wire
         /\ \A i \in DOMAIN wire : wire'[i] = wire[i] /\ i < Len(wire) + 1
         /\ wire'[Len(wire) + 1] = p
<1>1. wire \in Seq(Packet)
  BY DEF IndType, TypeOK
<1> QED
  BY <1>1

LEMMA WireTail ==
  ASSUME IndType, wire # <<>>, wire' = Tail(wire)
  PROVE  /\ 1 \in DOMAIN wire /\ wire[1] = Head(wire)
         /\ \A i \in DOMAIN wire' : i + 1 \in DOMAIN wire /\ wire'[i] = wire[i + 1]
         /\ \A i \in DOMAIN wire \ {1} : i - 1 \in DOMAIN wire' /\ wire'[i - 1] = wire[i]
         /\ DOMAIN wire \in SUBSET Nat /\ DOMAIN wire' \in SUBSET Nat
         /\ 0 \notin DOMAIN wire' /\ 0 \notin DOMAIN wire
<1>1. wire \in Seq(Packet) /\ Len(wire) \in Nat /\ Len(wire) > 0
  BY DEF IndType, TypeOK
<1>2. /\ DOMAIN wire = 1 .. Len(wire) /\ DOMAIN wire' = 1 .. Len(wire) - 1
      /\ \A i \in 1 .. Len(wire) - 1 : wire'[i] = wire[i + 1]
  BY <1>1
<1> QED
  BY <1>1, <1>2

LEMMA StepOfHci ==
  ASSUME Base, HciTask
  PROVE  TrackedStep
<1>1. IndType /\ ExecExclusive
  BY DEF Base, RefInv
<1>2. CASE HciSend
  <2>1. UNCHANGED <<host, Unapplied>>
    BY <1>2, SendKeepsOrder DEF Base, Pipeline!vars
  <2>2. UNCHANGED <<wire, ctl, reply, apiPc, apiReq>>
    BY <1>2 DEF HciSend, ctlVars
  <2> QED
    BY <2>1, <2>2 DEF Accepted, Answered, TrackedStep, Quiet
<1>3. CASE HciRead
  <2>1. /\ wire # <<>> /\ wire' = Tail(wire) /\ batch = <<>>
        /\ UNCHANGED <<host, ctl, apiPc, apiReq, cmdPc, cmdCur, commands>>
    BY <1>3 DEF HciRead
  <2>2. CASE Head(wire).kind = "CommandAnswer"
    <3>1. batch' = batch /\ reply' = IF Head(wire).ok THEN "ok" ELSE "err"
      BY <1>3, <2>2 DEF HciRead
    <3>2. 1 \in Answers /\ wire[1] = Head(wire)
      BY <1>1, <2>1, <2>2, WireTail DEF Answers
    <3>3. reply = "none" /\ \A i \in Answers : i = 1
      <4>1. \A i \in InFlight : i = 1
        BY <1>1, <3>2, InFlightIs DEF ExecExclusive
      <4> QED
        BY <4>1, InFlightIs
    <3>4. Answered <=> Head(wire).ok
      BY <3>2, <3>3 DEF Answered, Answers
    <3>5. \A i \in DOMAIN wire' : wire'[i].kind # "CommandAnswer"
      <4>1. ASSUME NEW i \in DOMAIN wire', wire'[i].kind = "CommandAnswer" PROVE FALSE
        <5>1. i + 1 \in Answers /\ i \in Nat /\ i # 0
          BY <1>1, <2>1, <4>1, WireTail DEF Answers
        <5> QED
          BY <3>3, <5>1
      <4> QED
        BY <4>1
    <3>6. Answered' <=> Head(wire).ok
      BY <3>1, <3>5 DEF Answered
    <3> QED
      BY <2>1, <2>2, <3>1, <3>4, <3>6 DEF Accepted, Unapplied, TrackedStep, ReadAnswer
  <2>3. CASE Head(wire).kind # "CommandAnswer"
    <3>1. batch' = ProcessHciEvent(Head(wire)) /\ reply' = reply
      BY <1>3, <2>3 DEF HciRead
    <3>2. Answered' <=> Answered
      <4>1. \A i \in DOMAIN wire' : i + 1 \in DOMAIN wire /\ wire'[i] = wire[i + 1]
        BY <1>1, <2>1, WireTail
      <4>2. \A i \in DOMAIN wire : wire[i].kind = "CommandAnswer"
              => i - 1 \in DOMAIN wire' /\ wire'[i - 1] = wire[i]
        BY <1>1, <2>1, <2>3, WireTail
      <4> QED
        BY <3>1, <4>1, <4>2 DEF Answered
    <3>3. Unapplied' = Unapplied \o batch'
      <4>1. /\ Unapplied = InHand \o (commands \o batch)
            /\ commands \in Seq(InternalCommand)
        BY <1>1, UnappliedType
      <4>2. Unapplied = InHand \o commands
        BY <2>1, <4>1, ConcatEmptySeq
      <4> QED
        BY <2>1, <4>2 DEF Unapplied, InHand
    <3> QED
      BY <2>1, <2>3, <3>1, <3>2, <3>3 DEF Accepted, TrackedStep, ReadEvent
  <2> QED
    BY <2>2, <2>3
<1> QED
  BY <1>2, <1>3 DEF HciTask

LEMMA StepOfCmd ==
  ASSUME Base, CmdTask
  PROVE  TrackedStep
<1>1. RefInv /\ IndType /\ ExecExclusive
  BY DEF Base, RefInv
<1>2. CASE CmdReceive
  <2>1. UNCHANGED <<host, Unapplied>>
    BY <1>1, <1>2, ReceiveKeepsOrder DEF Pipeline!vars
  <2>2. UNCHANGED <<wire, ctl, reply, apiPc, apiReq>>
    BY <1>2 DEF CmdReceive, ctlVars
  <2> QED
    BY <2>1, <2>2 DEF Accepted, Answered, TrackedStep, Quiet
<1>3. CASE CmdLock
  <2>1. /\ UNCHANGED <<wire, ctl, apiPc, apiReq, reply, commands, batch>>
        /\ apiPc # "exec" /\ cmdPc = "lock"
    BY <1>1, <1>3 DEF CmdLock, ExecExclusive
  <2>2. Accepted = {} /\ Accepted' = {}
    BY <2>1 DEF Accepted
  <2>3. CASE cmdCur.op \in ExecOps
    <3>1. UNCHANGED <<host, Unapplied>>
      BY <1>3, <2>3 DEF CmdLock, Unapplied
    <3> QED
      BY <2>1, <2>2, <3>1 DEF TrackedStep, Quiet
  <2>4. CASE cmdCur.op \notin ExecOps
    <3>1. host' = Apply(host, cmdCur) /\ cmdPc' = "recv"
      BY <1>3, <2>4 DEF CmdLock
    <3>2. Unapplied # <<>> /\ Head(Unapplied) = cmdCur /\ Tail(Unapplied) = Unapplied'
      BY <1>1, <2>1, <3>1, DoneIsOldest
    <3> QED
      BY <2>1, <2>2, <3>1, <3>2 DEF TrackedStep, ApplyFirst
  <2> QED
    BY <2>3, <2>4
<1>4. CASE CmdExec
  <2>1. /\ UNCHANGED <<host, wire, ctl, apiPc, apiReq, commands, batch>>
        /\ apiPc # "exec" /\ cmdPc = "exec" /\ cmdPc' = "recv" /\ cmdCur.op \in ExecOps
    BY <1>1, <1>4 DEF CmdExec, ctlVars, ExecExclusive, RefInv, Awaiting
  <2>2. Accepted = {} /\ Accepted' = {}
    BY <2>1 DEF Accepted
  <2>3. Unapplied # <<>> /\ Head(Unapplied) = cmdCur /\ Tail(Unapplied) = Unapplied'
    BY <1>1, <2>1, DoneIsOldest
  <2>4. Apply(host, cmdCur) = host
    BY <2>1 DEF Apply, ExecOps
  <2> QED
    BY <2>1, <2>2, <2>3, <2>4 DEF TrackedStep, ApplyFirst
<1> QED
  BY <1>2, <1>3, <1>4 DEF CmdTask

LEMMA StepOfApi ==
  ASSUME Base, ApiTask
  PROVE  TrackedStep
<1>1. RefInv /\ IndType /\ ExecExclusive
  BY DEF Base, RefInv
<1>2. UNCHANGED <<wire, ctl, Unapplied>>
  BY DEF ApiTask, ApiBoot, ApiInit, ApiReceive, ApiLock, ApiExec, ApiRespond, ctlVars, Unapplied
<1>3. CASE ApiBoot \/ ApiReceive \/ ApiRespond
  <2>1. /\ UNCHANGED <<host, reply>>
        /\ apiPc # "exec" /\ apiPc' # "exec"
    BY <1>3 DEF ApiBoot, ApiReceive, ApiRespond
  <2> QED
    BY <1>2, <2>1 DEF Accepted, TrackedStep, Quiet
<1>4. CASE ApiLock
  <2>1. ~Answered /\ UNCHANGED <<host, reply>>
    BY <1>4, AnsweredIs DEF ApiLock
  <2>2. ~Answered'
    BY <1>2, <2>1 DEF Answered
  <2> QED
    BY <1>2, <2>1, <2>2 DEF Accepted, TrackedStep, Quiet
<1>5. CASE ApiInit
  <2>1. apiPc = "init" /\ apiPc' # "exec" /\ reply \in {"ok", "err"}
    BY <1>1, <1>5 DEF ApiInit, IndType, TypeOK
  <2>2. Accepted = {} /\ Accepted' = {}
    BY <2>1 DEF Accepted
  <2>3. \/ host' = host
        \/ \E s \in {"PoweredOn", "PoweredOff"} : host' = [host EXCEPT !.state = s]
    BY <1>5 DEF ApiInit
  <2> QED
    BY <1>2, <2>2, <2>3 DEF TrackedStep, Quiet, FinishBoot
<1>6. CASE ApiExec
  <2>1. /\ apiPc = "exec" /\ apiPc' = "respond" /\ reply # "none"
        /\ host' = Served(host, apiReq.req, reply = "ok")
    BY <1>6 DEF ApiExec
  <2>2. Accepted = (IF reply = "ok" THEN {apiReq.req} ELSE {}) /\ Accepted' = {}
    BY <2>1, AnsweredIs DEF Accepted
  <2>3. apiReq.req \in Request /\ HciFor(host, apiReq.req) # NoHci
    BY <1>1, <2>1, HostTasksAssumption DEF IndType, Held, Call, RefInv, Awaiting
  <2>4. CASE reply = "ok"
    BY <1>2, <2>1, <2>2, <2>3, <2>4 DEF TrackedStep, ServeAccepted
  <2>5. CASE reply # "ok"
    <3>1. host' = host
      BY <2>1, <2>5 DEF Served
    <3> QED
      BY <1>2, <2>2, <2>5, <3>1 DEF TrackedStep, Quiet
  <2> QED
    BY <2>4, <2>5
<1> QED
  BY <1>3, <1>4, <1>5, <1>6 DEF ApiTask

LEMMA StepOfController ==
  ASSUME Base, Controller
  PROVE  TrackedStep
<1>1. RefInv /\ IndType /\ ExecExclusive /\ SentIsOwn
  BY DEF Base, RefInv
<1>2. UNCHANGED <<host, Unapplied, apiPc, apiReq, reply>>
  BY DEF Controller, taskVars, Unapplied
<1>3. CASE AnswerCommand
  <2>1. PICK ok \in BOOLEAN :
          /\ ok => ~Disallowed(sent)
          /\ ctl' = IF ok THEN Started(sent) ELSE ctl
          /\ wire' = Append(wire, AnswerPacket(ok))
    BY <1>3 DEF AnswerCommand
  <2>2. sent # NoHci /\ ~Answered /\ Accepted = {}
    BY <1>3, AnsweredIs DEF AnswerCommand, Accepted
  <2>3. AnswerPacket(ok) \in Packet /\ AnswerPacket(ok).kind = "CommandAnswer"
        /\ AnswerPacket(ok).ok = ok
    BY DEF AnswerPacket, Packet
  <2>4. Answered' <=> ok
    <3>1. /\ DOMAIN wire' = DOMAIN wire \cup {Len(wire) + 1}
          /\ \A i \in DOMAIN wire : wire'[i] = wire[i]
          /\ wire'[Len(wire) + 1] = AnswerPacket(ok)
      BY <1>1, <2>1, <2>3, WireAppend
    <3> QED
      BY <1>2, <2>2, <2>3, <3>1 DEF Answered
  <2>5. CASE ok /\ apiPc = "exec"
    <3>1. sent = HciFor(host, apiReq.req) /\ apiReq.req \in Request
      BY <1>1, <2>2, <2>5, HostTasksAssumption DEF SentIsOwn, IndType, Held, Call
    <3>2. Accepted' = {apiReq.req}
      BY <1>2, <2>4, <2>5 DEF Accepted
    <3> QED
      BY <1>2, <2>1, <2>2, <2>5, <3>1, <3>2 DEF TrackedStep, AcceptRequest
  <2>6. CASE ~ok \/ apiPc # "exec"
    <3>1. Accepted' = {}
      BY <1>2, <2>4, <2>6 DEF Accepted
    <3>2. ctl'.inquiring = ctl.inquiring /\ ctl'.paging = ctl.paging /\ ctl'.links = ctl.links
      <4>1. CASE ~ok
        BY <2>1, <4>1
      <4>2. CASE apiPc # "exec"
        <5>1. -1 \in InFlight
          BY <2>2, InFlightIs
        <5>2. apiPc = "init" \/ cmdPc = "exec"
          BY <1>1, <4>2, <5>1 DEF ExecExclusive, IndType, TypeOK
        <5>3. sent.op \in ExecOps \cup {InitSequence[i] : i \in 1 .. 4}
          <6>1. CASE apiPc = "init"
            BY <1>1, <2>2, <6>1 DEF SentIsOwn
          <6>2. CASE cmdPc = "exec"
            BY <1>1, <2>2, <6>2 DEF SentIsOwn, RefInv, Awaiting
          <6> QED
            BY <5>2, <6>1, <6>2
        <5>4. ctl \in ControllerState
          BY <1>1 DEF IndType, TypeOK
        <5>5. Started(sent) = ctl \/ \E p : Started(sent) = [ctl EXCEPT !.pairing = p]
          <6>1. sent.op \notin {"Inquiry", "InquiryCancel", "CreateConnection", "Disconnect",
                                "RemoteNameRequest"}
            BY <5>3 DEF ExecOps, InitSequence
          <6> QED
            BY <6>1 DEF Started
        <5> QED
          BY <2>1, <5>4, <5>5 DEF ControllerState
      <4> QED
        BY <2>6, <4>1, <4>2
    <3> QED
      BY <1>2, <2>1, <2>2, <3>1, <3>2 DEF TrackedStep, AnswerOther
  <2> QED
    BY <2>5, <2>6
<1>4. CASE EmitEvent
  <2>1. PICK p \in Packet : p.kind # "CommandAnswer" /\ wire' = Append(wire, p)
    BY <1>1, <1>4, EmitEventType DEF Reported
  <2>2. Answered' <=> Answered
    <3>1. /\ DOMAIN wire' = DOMAIN wire \cup {Len(wire) + 1}
          /\ \A i \in DOMAIN wire : wire'[i] = wire[i]
          /\ wire'[Len(wire) + 1] = p
      BY <1>1, <2>1, WireAppend
    <3> QED
      BY <1>2, <2>1, <3>1 DEF Answered
  <2> QED
    BY <1>2, <1>4, <2>2 DEF Accepted, TrackedStep, EmitOne
<1> QED
  BY <1>3, <1>4 DEF Controller

LEMMA StepIs == Base /\ [Next]_vars => TrackedStep
<1> SUFFICES ASSUME Base, [Next]_vars PROVE TrackedStep
  OBVIOUS
<1>1. CASE Users \/ UNCHANGED vars
  <2>1. UNCHANGED <<host, taskVars, commands, ctlVars>>
    BY <1>1 DEF Users, ClientCall, ClientSend, ClientReceive, ClientDrop, vars
  <2> QED
    BY <2>1 DEF taskVars, ctlVars, Unapplied, Accepted, Answered, TrackedStep, Quiet
<1> QED
  BY <1>1, StepOfHci, StepOfCmd, StepOfApi, StepOfController DEF Next, Executor

-----------------------------------------------------------------------------
(* What an event says of the controller.                                   *)

Emitted(p) ==
  /\ p \in Packet /\ p.kind # "CommandAnswer"
  /\ wire' = Append(wire, p)
  /\ IF p.kind = "InquiryComplete" THEN ctl.inquiring /\ ~ctl'.inquiring
                                   ELSE ctl'.inquiring = ctl.inquiring
  /\ IF p.kind = "ConnectionComplete"
     THEN /\ p.addr \in ctl.paging /\ ~HandleInUse(p.handle)
          /\ ctl'.paging = ctl.paging \ {p.addr}
          /\ ctl'.links = IF p.ok THEN [ctl.links EXCEPT ![p.addr] = p.handle] ELSE ctl.links
     ELSE ctl'.paging = ctl.paging
  /\ p.kind = "DisconnectionComplete" =>
       \E a \in Linked :
         /\ ctl.links[a] = p.handle
         /\ ctl'.links = IF p.ok THEN [ctl.links EXCEPT ![a] = NoHandle] ELSE ctl.links
  /\ p.kind \notin {"ConnectionComplete", "DisconnectionComplete"} => ctl'.links = ctl.links

\* Emit leaves next in place, up to the bound.
LEMMA EmitIs ==
  ASSUME NEW e, NEW next \in ControllerState, Emit(e, next)
  PROVE  /\ wire' = Append(wire, e)
         /\ ctl'.inquiring = next.inquiring /\ ctl'.paging = next.paging
         /\ ctl'.links = next.links
<1>1. ctl' = [next EXCEPT !.left = next.left - 1] /\ wire' = Append(wire, e)
  BY DEF Emit
<1> QED
  BY <1>1 DEF ControllerState

LEMMA EmittedIs ==
  ASSUME Base, EmitEvent
  PROVE  \E p : Emitted(p)
<1>1. ctl \in ControllerState /\ ctl.links \in [Addr -> Handle \cup {NoHandle}]
      /\ ctl.paging \subseteq Addr
  BY DEF Base, RefInv, IndType, TypeOK, ControllerState
<1>2. \A a \in Linked : a \in Addr /\ ctl.links[a] \in Handle
  BY <1>1 DEF Linked
<1>3. CASE EmitInquiryResult
  <2>1. PICK a \in Addr, b \in Addr, n \in {1, 2} :
          Emit([kind |-> "InquiryResult", found |-> SubSeq(<<a, b>>, 1, n)], ctl)
    BY <1>3 DEF EmitInquiryResult
  <2> DEFINE p == [kind |-> "InquiryResult", found |-> SubSeq(<<a, b>>, 1, n)]
  <2>2. SubSeq(<<a, b>>, 1, n) \in Seq(Addr)
    OBVIOUS
  <2>3. p \in Packet /\ p.kind = "InquiryResult"
    BY <2>2 DEF Packet
  <2> HIDE DEF p
  <2>4. Emit(p, ctl)
    BY <2>1 DEF p
  <2> QED
    BY <1>1, <2>3, <2>4, EmitIs DEF Emitted
<1>4. CASE EmitExtendedInquiryResult \/ EmitPairing \/ EmitAcl
  <2>1. \E p \in Packet :
          /\ p.kind \notin {"CommandAnswer", "InquiryComplete", "ConnectionComplete",
                            "DisconnectionComplete"}
          /\ Emit(p, ctl)
    <3>1. CASE EmitExtendedInquiryResult
      <4>1. PICK a \in Addr : Emit([kind |-> "ExtendedInquiryResult", addr |-> a], ctl)
        BY <3>1 DEF EmitExtendedInquiryResult
      <4>2. [kind |-> "ExtendedInquiryResult", addr |-> a] \in Packet
        BY DEF Packet
      <4> QED
        BY <4>1, <4>2
    <3>2. CASE EmitPairing
      <4>1. PICK a \in Linked, k \in PairingKinds : Emit([kind |-> k, addr |-> a], ctl)
        BY <3>2 DEF EmitPairing
      <4>2. [kind |-> k, addr |-> a] \in Packet
        BY <1>2 DEF Packet
      <4>3. k \notin {"CommandAnswer", "InquiryComplete", "ConnectionComplete",
                      "DisconnectionComplete"}
        BY DEF PairingKinds
      <4> QED
        BY <4>1, <4>2, <4>3
    <3>3. CASE EmitAcl
      <4>1. PICK a \in Linked : Emit([kind |-> "Acl", handle |-> ctl.links[a]], ctl)
        BY <3>3 DEF EmitAcl
      <4>2. [kind |-> "Acl", handle |-> ctl.links[a]] \in Packet
        BY <1>2 DEF Packet
      <4> QED
        BY <4>1, <4>2
    <3> QED
      BY <1>4, <3>1, <3>2, <3>3
  <2> QED
    BY <1>1, <2>1, EmitIs DEF Emitted
<1>5. CASE EmitInquiryComplete
  <2>1. PICK ok \in BOOLEAN : /\ ctl.inquiring
                              /\ Emit([kind |-> "InquiryComplete", ok |-> ok],
                                      [ctl EXCEPT !.inquiring = FALSE])
    BY <1>5 DEF EmitInquiryComplete
  <2> DEFINE p == [kind |-> "InquiryComplete", ok |-> ok]
             next == [ctl EXCEPT !.inquiring = FALSE]
  <2>2. p \in Packet /\ p.kind = "InquiryComplete"
    BY DEF Packet
  <2>3. /\ next \in ControllerState /\ ~next.inquiring
        /\ next.paging = ctl.paging /\ next.links = ctl.links
    BY <1>1 DEF ControllerState
  <2> HIDE DEF p, next
  <2>4. Emit(p, next)
    BY <2>1 DEF p, next
  <2> QED
    BY <2>1, <2>2, <2>3, <2>4, EmitIs DEF Emitted
<1>6. CASE EmitConnectionComplete
  <2>1. PICK a \in ctl.paging, h \in Handle, ok \in BOOLEAN :
          /\ ~HandleInUse(h)
          /\ Emit([kind |-> "ConnectionComplete", addr |-> a, handle |-> h, ok |-> ok],
                  [ctl EXCEPT !.paging = @ \ {a}, !.links[a] = IF ok THEN h ELSE @])
    BY <1>6 DEF EmitConnectionComplete
  <2> DEFINE p == [kind |-> "ConnectionComplete", addr |-> a, handle |-> h, ok |-> ok]
             next == [ctl EXCEPT !.paging = @ \ {a}, !.links[a] = IF ok THEN h ELSE @]
  <2>2. /\ p \in Packet /\ p.kind = "ConnectionComplete"
        /\ p.addr = a /\ p.handle = h /\ p.ok = ok
    BY <1>1 DEF Packet
  <2>3. /\ next \in ControllerState /\ next.inquiring = ctl.inquiring
        /\ next.paging = ctl.paging \ {a}
        /\ next.links = IF ok THEN [ctl.links EXCEPT ![a] = h] ELSE ctl.links
    <3>1. a \in Addr
      BY <1>1
    <3> QED
      BY <1>1, <3>1 DEF ControllerState
  <2> HIDE DEF p, next
  <2>4. Emit(p, next)
    BY <2>1 DEF p, next
  <2>5. /\ wire' = Append(wire, p) /\ ctl'.inquiring = ctl.inquiring
        /\ ctl'.paging = ctl.paging \ {a}
        /\ ctl'.links = IF ok THEN [ctl.links EXCEPT ![a] = h] ELSE ctl.links
    BY <2>3, <2>4, EmitIs
  <2>6. Emitted(p)
    BY <2>1, <2>2, <2>5 DEF Emitted
  <2> QED
    BY <2>6
<1>7. CASE EmitDisconnectionComplete
  <2>1. PICK a \in Linked, ok \in BOOLEAN :
          Emit([kind |-> "DisconnectionComplete", handle |-> ctl.links[a], ok |-> ok],
               [ctl EXCEPT !.closing = @ \ {ctl.links[a]},
                           !.links[a] = IF ok THEN NoHandle ELSE @,
                           !.pairing = IF ok THEN @ \ {ctl.links[a]} ELSE @])
    BY <1>7 DEF EmitDisconnectionComplete
  <2> DEFINE p == [kind |-> "DisconnectionComplete", handle |-> ctl.links[a], ok |-> ok]
             next == [ctl EXCEPT !.closing = @ \ {ctl.links[a]},
                                 !.links[a] = IF ok THEN NoHandle ELSE @,
                                 !.pairing = IF ok THEN @ \ {ctl.links[a]} ELSE @]
  <2>2. /\ p \in Packet /\ p.kind = "DisconnectionComplete"
        /\ p.handle = ctl.links[a] /\ p.ok = ok
    BY <1>2 DEF Packet
  <2>3. /\ next \in ControllerState /\ next.inquiring = ctl.inquiring
        /\ next.paging = ctl.paging
        /\ next.links = IF ok THEN [ctl.links EXCEPT ![a] = NoHandle] ELSE ctl.links
    <3>1. a \in Addr
      BY <1>2
    <3> QED
      BY <1>1, <3>1 DEF ControllerState
  <2> HIDE DEF p, next
  <2>4. Emit(p, next)
    BY <2>1 DEF p, next
  <2> QED
    BY <2>1, <2>2, <2>3, <2>4, EmitIs DEF Emitted
<1>8. CASE EmitRemoteNameRequestComplete
  <2>1. PICK a \in ctl.naming, ok \in BOOLEAN, utf8 \in BOOLEAN :
          Emit([kind |-> "RemoteNameRequestComplete", addr |-> a, ok |-> ok, utf8 |-> utf8],
               [ctl EXCEPT !.naming = @ \ {a}])
    BY <1>8 DEF EmitRemoteNameRequestComplete
  <2> DEFINE p == [kind |-> "RemoteNameRequestComplete", addr |-> a, ok |-> ok, utf8 |-> utf8]
             next == [ctl EXCEPT !.naming = @ \ {a}]
  <2>2. p \in Packet /\ p.kind = "RemoteNameRequestComplete"
    BY <1>1 DEF Packet, ControllerState
  <2>3. /\ next \in ControllerState /\ next.inquiring = ctl.inquiring
        /\ next.paging = ctl.paging /\ next.links = ctl.links
    BY <1>1 DEF ControllerState
  <2> HIDE DEF p, next
  <2>4. Emit(p, next)
    BY <2>1 DEF p, next
  <2> QED
    BY <2>2, <2>3, <2>4, EmitIs DEF Emitted
<1>9. CASE EmitAuthenticationComplete
  <2>1. PICK h \in ctl.pairing, ok \in BOOLEAN :
          Emit([kind |-> "AuthenticationComplete", handle |-> h, ok |-> ok],
               [ctl EXCEPT !.pairing = @ \ {h}])
    BY <1>9 DEF EmitAuthenticationComplete
  <2> DEFINE p == [kind |-> "AuthenticationComplete", handle |-> h, ok |-> ok]
             next == [ctl EXCEPT !.pairing = @ \ {h}]
  <2>2. p \in Packet /\ p.kind = "AuthenticationComplete"
    BY <1>1 DEF Packet, ControllerState
  <2>3. /\ next \in ControllerState /\ next.inquiring = ctl.inquiring
        /\ next.paging = ctl.paging /\ next.links = ctl.links
    BY <1>1 DEF ControllerState
  <2> HIDE DEF p, next
  <2>4. Emit(p, next)
    BY <2>1 DEF p, next
  <2> QED
    BY <2>2, <2>3, <2>4, EmitIs DEF Emitted
<1> QED
  BY <1>3, <1>4, <1>5, <1>6, <1>7, <1>8, <1>9 DEF EmitEvent

-----------------------------------------------------------------------------
(* What reading an event and applying a mutation does to the queue.        *)

TrackingOps == {"SetDiscovering", "SetState", "AddConnection", "AddAclConnection",
                "RemoveConnection", "RemoveAclConnection"}

\* The mutations of an event that change what is tracked.
LEMMA BatchIs ==
  ASSUME NEW e \in Packet, e.kind # "CommandAnswer", NEW b, b = ProcessHciEvent(e)
  PROVE  /\ e.kind = "InquiryComplete" =>
              b = IF e.ok
                  THEN <<[op |-> "SetDiscovering", on |-> FALSE], SetState("PoweredOn")>>
                  ELSE <<[op |-> "SetDiscovering", on |-> FALSE]>>
         /\ e.kind = "ConnectionComplete" =>
              b = IF e.ok
                  THEN <<[op |-> "AddConnection", addr |-> e.addr, handle |-> e.handle],
                         [op |-> "AddAclConnection", addr |-> e.addr, handle |-> e.handle],
                         SetState("Connected"),
                         [op |-> "AuthenticationRequested", handle |-> e.handle]>>
                  ELSE <<SetState("PoweredOn")>>
         /\ e.kind = "DisconnectionComplete" =>
              b = IF e.ok
                  THEN <<[op |-> "RemoveConnection", handle |-> e.handle],
                         [op |-> "RemoveAclConnection", handle |-> e.handle],
                         SetState("PoweredOn")>>
                  ELSE <<>>
         /\ e.kind \notin {"InquiryComplete", "ConnectionComplete", "DisconnectionComplete"} =>
              \A i \in DOMAIN b : b[i].op \in TrackingOps => b[i] = SetState("PoweredOn")
<1>1. CASE e.kind = "InquiryComplete"
  BY <1>1 DEF ProcessHciEvent
<1>2. CASE e.kind = "ConnectionComplete"
  BY <1>2 DEF ProcessHciEvent
<1>3. CASE e.kind = "DisconnectionComplete"
  BY <1>3 DEF ProcessHciEvent
<1>4. CASE e.kind = "InquiryResult"
  <2>1. e.found \in Seq(Addr)
    BY <1>4 DEF Packet, PairingKinds
  <2> DEFINE all == [i \in DOMAIN e.found |-> Upsert(e.found[i])]
             n == IF Len(e.found) < MaxBatch THEN Len(e.found) ELSE MaxBatch
  <2>2. \A i \in DOMAIN e.found : all[i].op = "UpsertDevice"
    BY DEF Upsert
  <2>3. b = SubSeq(all, 1, n)
    BY <1>4 DEF ProcessHciEvent
  <2>4. all \in Seq({Upsert(e.found[i]) : i \in DOMAIN e.found}) /\ Len(all) = Len(e.found)
    BY <2>1
  <2>5. n \in 0 .. Len(all) /\ DOMAIN e.found = 1 .. Len(all)
    BY <2>1, <2>4, HostTasksAssumption
  <2>6. \A i \in DOMAIN b : i \in DOMAIN e.found /\ b[i] = all[i]
    <3> HIDE DEF all, n
    <3>1. b = [i \in 1 .. n |-> all[i]]
      BY <2>3, <2>4, <2>5
    <3> QED
      BY <2>5, <3>1
  <2> QED
    BY <1>4, <2>2, <2>6 DEF TrackingOps
<1>5. CASE e.kind = "RemoteNameRequestComplete"
  BY <1>5 DEF ProcessHciEvent, TrackingOps
<1>6. CASE e.kind = "AuthenticationComplete"
  BY <1>6 DEF ProcessHciEvent, SetState
<1>7. CASE e.kind = "Acl"
  BY <1>7 DEF ProcessHciEvent, TrackingOps
<1>8. CASE e.kind = "ExtendedInquiryResult"
  BY <1>8 DEF ProcessHciEvent, TrackingOps, Upsert
<1>9. CASE e.kind \in PairingKinds
  <2>1. \E op \in {"StoreLinkKey", "PinCodeRequestReply", "LinkKeyRequestNegativeReply",
                   "IoCapabilityRequestReply", "UserConfirmationRequestReply"} :
          b = <<[op |-> op, addr |-> e.addr]>>
    BY <1>9 DEF ProcessHciEvent, PairingKinds
  <2> QED
    BY <1>9, <2>1 DEF TrackingOps, PairingKinds
<1> QED
  BY <1>1, <1>2, <1>3, <1>4, <1>5, <1>6, <1>7, <1>8, <1>9 DEF Packet

LEMMA QueueTail ==
  ASSUME IndType, Unapplied # <<>>, Unapplied' = Tail(Unapplied)
  PROVE  /\ 1 \in DOMAIN Unapplied /\ Unapplied[1] = Head(Unapplied)
         /\ Head(Unapplied) \in InternalCommand
         /\ \A i \in DOMAIN Unapplied' :
              i + 1 \in DOMAIN Unapplied /\ Unapplied'[i] = Unapplied[i + 1]
         /\ \A i \in DOMAIN Unapplied \ {1} :
              i - 1 \in DOMAIN Unapplied' /\ Unapplied'[i - 1] = Unapplied[i]
         /\ DOMAIN Unapplied \in SUBSET Nat /\ DOMAIN Unapplied' \in SUBSET Nat
         /\ 0 \notin DOMAIN Unapplied' /\ 0 \notin DOMAIN Unapplied
<1>1. Unapplied \in Seq(InternalCommand)
  BY UnappliedType
<1>2. ASSUME NEW q, q = Unapplied, NEW r, r = Unapplied',
             q \in Seq(InternalCommand), q # <<>>, r = Tail(q)
      PROVE  /\ 1 \in DOMAIN q /\ q[1] = Head(q) /\ Head(q) \in InternalCommand
             /\ \A i \in DOMAIN r : i + 1 \in DOMAIN q /\ r[i] = q[i + 1]
             /\ \A i \in DOMAIN q \ {1} : i - 1 \in DOMAIN r /\ r[i - 1] = q[i]
             /\ DOMAIN q \in SUBSET Nat /\ DOMAIN r \in SUBSET Nat
             /\ 0 \notin DOMAIN r /\ 0 \notin DOMAIN q
  <2>1. Len(q) \in Nat /\ Len(q) > 0
    BY <1>2
  <2>2. /\ DOMAIN q = 1 .. Len(q) /\ DOMAIN r = 1 .. Len(q) - 1
        /\ \A i \in 1 .. Len(q) - 1 : r[i] = q[i + 1]
    BY <1>2, <2>1
  <2> QED
    BY <1>2, <2>1, <2>2
<1> QED
  BY <1>1, <1>2

LEMMA QueueGrows ==
  ASSUME IndType, NEW b \in Seq(InternalCommand), Unapplied' = Unapplied \o b
  PROVE  /\ Len(Unapplied) \in Nat /\ DOMAIN Unapplied = 1 .. Len(Unapplied)
         /\ DOMAIN b = 1 .. Len(b) /\ Len(b) \in Nat
         /\ Len(Unapplied') = Len(Unapplied) + Len(b)
         /\ DOMAIN Unapplied' = 1 .. Len(Unapplied) + Len(b)
         /\ \A i \in DOMAIN Unapplied : Unapplied'[i] = Unapplied[i]
         /\ \A i \in DOMAIN b : Unapplied'[Len(Unapplied) + i] = b[i]
<1>1. Unapplied \in Seq(InternalCommand)
  BY UnappliedType
<1>2. ASSUME NEW q \in Seq(InternalCommand), NEW r, r = q \o b
      PROVE  /\ Len(q) \in Nat /\ DOMAIN q = 1 .. Len(q)
             /\ DOMAIN b = 1 .. Len(b) /\ Len(b) \in Nat
             /\ Len(r) = Len(q) + Len(b)
             /\ DOMAIN r = 1 .. Len(q) + Len(b)
             /\ \A i \in DOMAIN q : r[i] = q[i]
             /\ \A i \in DOMAIN b : r[Len(q) + i] = b[i]
  BY <1>2, ConcatProperties
<1> QED
  BY <1>1, <1>2

-----------------------------------------------------------------------------
(* The inquiry.  The host is discovering, or about to be, as long as the   *)
(* controller is inquiring or the end of the inquiry is on its way; there  *)
(* is never more than one such end.                                        *)

Ends == {i \in DOMAIN Unapplied : Unapplied[i].op = "SetDiscovering"}
Reports == {i \in DOMAIN wire : wire[i].kind = "InquiryComplete"}
EndPending == Ends # {} \/ Reports # {}
Discovering == host.discovering \/ \E r \in Accepted : r.op = "Discover"
Stopping == \E r \in Accepted : r.op = "StopDiscovery"

InquiryEnds ==
  /\ \A i \in Ends : Unapplied[i].on = FALSE
  /\ \A i, j \in Ends : i = j
  /\ \A i, j \in Reports : i = j
  /\ Ends = {} \/ Reports = {}

InquiryFollowed ==
  /\ ctl.inquiring => Discovering /\ ~EndPending /\ ~Stopping
  /\ EndPending => Discovering /\ ~Stopping
  /\ Discovering /\ ~Stopping => ctl.inquiring \/ EndPending

InquiryInv == Base /\ InquiryEnds /\ InquiryFollowed

LEMMA InquiryInit == Init => InquiryInv
<1> SUFFICES ASSUME Init PROVE InquiryEnds /\ InquiryFollowed
  BY BaseInit DEF InquiryInv
<1>1. Unapplied = <<>> /\ wire = <<>> /\ ~host.discovering /\ ~ctl.inquiring /\ Accepted = {}
  BY ConcatEmptySeq, EmptySeq DEF Init, InitController, InitHost, Unapplied, Accepted
<1> QED
  BY <1>1 DEF InquiryEnds, InquiryFollowed, Ends, Reports, EndPending, Discovering, Stopping

LEMMA ReportsAppend ==
  ASSUME IndType, NEW p \in Packet, wire' = Append(wire, p)
  PROVE  Reports' = IF p.kind = "InquiryComplete" THEN Reports \cup {Len(wire) + 1} ELSE Reports
<1>1. /\ DOMAIN wire' = DOMAIN wire \cup {Len(wire) + 1}
      /\ \A i \in DOMAIN wire : wire'[i] = wire[i]
      /\ wire'[Len(wire) + 1] = p
  BY WireAppend
<1>2. Len(wire) + 1 \notin DOMAIN wire
  BY WireAppend
<1> QED
  BY <1>1, <1>2 DEF Reports

LEMMA ReportsTail ==
  ASSUME IndType, InquiryEnds, wire # <<>>, wire' = Tail(wire)
  PROVE  /\ Head(wire).kind = "InquiryComplete" => Reports # {} /\ Reports' = {}
         /\ Head(wire).kind # "InquiryComplete" => (Reports' = {} <=> Reports = {})
         /\ \A i, j \in Reports' : i = j
<1>1. 1 \in DOMAIN wire /\ wire[1] = Head(wire)
  BY WireTail
<1>2. \A i \in Reports' : i \in Nat /\ i # 0 /\ i + 1 \in Reports
  BY WireTail DEF Reports
<1>3. \A i \in Reports \ {1} : i - 1 \in Reports'
  BY WireTail DEF Reports
<1>4. \A i, j \in Reports : i = j
  BY DEF InquiryEnds
<1>5. \A i, j \in Reports' : i = j
  <2>1. ASSUME NEW i \in Reports', NEW j \in Reports' PROVE i = j
    <3>1. i + 1 = j + 1 /\ i \in Nat /\ j \in Nat
      BY <1>2, <1>4
    <3> QED
      BY <3>1
  <2> QED
    BY <2>1
<1>6. CASE Head(wire).kind = "InquiryComplete"
  <2>1. 1 \in Reports
    BY <1>1, <1>6 DEF Reports
  <2>2. ASSUME NEW i \in Reports' PROVE FALSE
    <3>1. i + 1 = 1 /\ i \in Nat /\ i # 0
      BY <1>2, <1>4, <2>1
    <3> QED
      BY <3>1
  <2> QED
    BY <1>5, <1>6, <2>1, <2>2
<1>7. CASE Head(wire).kind # "InquiryComplete"
  <2>1. 1 \notin Reports
    BY <1>1, <1>7 DEF Reports
  <2> QED
    BY <1>2, <1>3, <1>5, <1>7, <2>1
<1> QED
  BY <1>6, <1>7

\* Reading an event turns its report into the end that will be applied.
LEMMA InquiryRead ==
  ASSUME InquiryInv, ReadEvent
  PROVE  /\ InquiryEnds' /\ (EndPending' <=> EndPending)
<1>1. IndType
  BY DEF InquiryInv, Base, RefInv
<1> DEFINE e == Head(wire)
           b == ProcessHciEvent(e)
           n == Len(Unapplied)
<1>2. /\ e \in Packet /\ e.kind # "CommandAnswer" /\ wire # <<>> /\ wire' = Tail(wire)
      /\ Unapplied' = Unapplied \o b /\ b \in Seq(InternalCommand)
  <2>1. e \in Packet
    BY <1>1 DEF ReadEvent, IndType, TypeOK
  <2> QED
    BY <2>1, BatchType DEF ReadEvent
<1>3. /\ n \in Nat /\ DOMAIN Unapplied = 1 .. n
      /\ DOMAIN b = 1 .. Len(b) /\ Len(b) \in Nat
      /\ DOMAIN Unapplied' = 1 .. n + Len(b)
      /\ \A i \in DOMAIN Unapplied : Unapplied'[i] = Unapplied[i]
      /\ \A i \in DOMAIN b : Unapplied'[n + i] = b[i]
  BY <1>1, <1>2, QueueGrows
<1>4. \A i \in 1 .. Len(b) : b[i].op = "SetDiscovering" <=> i = 1 /\ e.kind = "InquiryComplete"
  <2>1. CASE e.kind = "InquiryComplete"
    <3>1. b = IF e.ok
              THEN <<[op |-> "SetDiscovering", on |-> FALSE], SetState("PoweredOn")>>
              ELSE <<[op |-> "SetDiscovering", on |-> FALSE]>>
      BY <1>2, <2>1, BatchIs
    <3> QED
      BY <2>1, <3>1 DEF SetState
  <2>2. CASE e.kind = "ConnectionComplete"
    <3>1. b = IF e.ok
              THEN <<[op |-> "AddConnection", addr |-> e.addr, handle |-> e.handle],
                     [op |-> "AddAclConnection", addr |-> e.addr, handle |-> e.handle],
                     SetState("Connected"),
                     [op |-> "AuthenticationRequested", handle |-> e.handle]>>
              ELSE <<SetState("PoweredOn")>>
      BY <1>2, <2>2, BatchIs
    <3> QED
      BY <2>2, <3>1 DEF SetState
  <2>3. CASE e.kind = "DisconnectionComplete"
    <3>1. b = IF e.ok
              THEN <<[op |-> "RemoveConnection", handle |-> e.handle],
                     [op |-> "RemoveAclConnection", handle |-> e.handle],
                     SetState("PoweredOn")>>
              ELSE <<>>
      BY <1>2, <2>3, BatchIs
    <3> QED
      BY <2>3, <3>1 DEF SetState
  <2>4. CASE e.kind \notin {"InquiryComplete", "ConnectionComplete", "DisconnectionComplete"}
    <3>1. \A i \in DOMAIN b : b[i].op \in TrackingOps => b[i] = SetState("PoweredOn")
      BY <1>2, <2>4, BatchIs
    <3> QED
      BY <1>3, <2>4, <3>1 DEF TrackingOps, SetState
  <2> QED
    BY <2>1, <2>2, <2>3, <2>4
<1>5. e.kind = "InquiryComplete" => 1 \in 1 .. Len(b) /\ b[1].on = FALSE
  <2>1. e.kind = "InquiryComplete" =>
          b = IF e.ok
              THEN <<[op |-> "SetDiscovering", on |-> FALSE], SetState("PoweredOn")>>
              ELSE <<[op |-> "SetDiscovering", on |-> FALSE]>>
    BY <1>2, BatchIs
  <2> HIDE DEF b
  <2> QED
    BY <2>1
<1> HIDE DEF b, n
<1>6. Ends' = IF e.kind = "InquiryComplete" THEN Ends \cup {n + 1} ELSE Ends
  <2>1. Ends \subseteq Ends'
    BY <1>3 DEF Ends
  <2>2. ASSUME NEW i \in Ends' PROVE i \in Ends \/ (i = n + 1 /\ e.kind = "InquiryComplete")
    <3>1. i \in 1 .. n + Len(b) /\ Unapplied'[i].op = "SetDiscovering"
      BY <1>3 DEF Ends
    <3>2. CASE i <= n
      BY <1>3, <3>1, <3>2 DEF Ends
    <3>3. CASE i > n
      <4>1. i - n \in 1 .. Len(b) /\ n + (i - n) = i
        BY <1>3, <3>1, <3>3
      <4>2. b[i - n].op = "SetDiscovering"
        BY <1>3, <3>1, <4>1
      <4>3. i - n = 1 /\ e.kind = "InquiryComplete"
        BY <1>4, <4>1, <4>2
      <4> QED
        BY <1>3, <3>1, <4>3
    <3> QED
      BY <1>3, <3>1, <3>2, <3>3
  <2>3. e.kind = "InquiryComplete" => n + 1 \in Ends'
    <3>1. ASSUME e.kind = "InquiryComplete"
          PROVE  n + 1 \in DOMAIN Unapplied' /\ Unapplied'[n + 1].op = "SetDiscovering"
      BY <1>3, <1>4, <1>5, <3>1
    <3> QED
      BY <3>1 DEF Ends
  <2> QED
    BY <2>1, <2>2, <2>3
<1>7. CASE e.kind = "InquiryComplete"
  <2>1. Reports # {} /\ Reports' = {} /\ Ends = {}
    BY <1>1, <1>2, <1>7, ReportsTail DEF InquiryInv, InquiryEnds
  <2>2. Ends' = {n + 1} /\ Unapplied'[n + 1].on = FALSE
    BY <1>3, <1>5, <1>6, <1>7, <2>1
  <2> QED
    BY <2>1, <2>2 DEF InquiryEnds, EndPending
<1>8. CASE e.kind # "InquiryComplete"
  <2>1. (Reports' = {} <=> Reports = {}) /\ (\A i, j \in Reports' : i = j)
    BY <1>1, <1>2, <1>8, ReportsTail DEF InquiryInv
  <2>2. Ends' = Ends /\ \A i \in Ends : Unapplied'[i] = Unapplied[i]
    BY <1>3, <1>6, <1>8 DEF Ends
  <2> QED
    BY <2>1, <2>2 DEF InquiryInv, InquiryEnds, EndPending
<1> QED
  BY <1>7, <1>8

\* What each mutation leaves of the four tracked fields.
LEMMA AppliedIs ==
  ASSUME NEW h \in Host, NEW c \in InternalCommand, NEW n, n = Apply(h, c)
  PROVE  /\ n.discovering = IF c.op = "SetDiscovering" THEN c.on ELSE h.discovering
         /\ n.state = IF c.op = "SetState" THEN c.state ELSE h.state
         /\ n.connections =
              CASE c.op = "AddConnection" ->
                     Put(h.connections, c.addr, c.handle, NoHandle, MaxChannels)
                [] c.op = "RemoveConnection" ->
                     [a \in Addr |-> IF h.connections[a] = c.handle THEN NoHandle
                                                                 ELSE h.connections[a]]
                [] OTHER -> h.connections
         /\ n.acl =
              CASE c.op = "AddAclConnection" ->
                     Put(h.acl, c.handle, c.addr, NoAddr, MaxAclConnections)
                [] c.op = "RemoveAclConnection" -> [h.acl EXCEPT ![c.handle] = NoAddr]
                [] OTHER -> h.acl
<1>1. CASE c.op = "SetState"
  BY <1>1 DEF Apply, Host
<1>2. CASE c.op = "SetDiscovering"
  BY <1>2 DEF Apply, Host
<1>3. CASE c.op = "UpsertDevice"
  BY <1>3 DEF Apply, UpsertDevice, Host
<1>4. CASE c.op = "UpdateDeviceName"
  BY <1>4 DEF Apply, UpdateDeviceName, Host
<1>5. CASE c.op = "AddConnection"
  BY <1>5 DEF Apply, Host
<1>6. CASE c.op = "RemoveConnection"
  BY <1>6 DEF Apply, RemoveConnectionsByHandle, Host
<1>7. CASE c.op = "AddAclConnection"
  BY <1>7 DEF Apply, AddAclConnection, Host
<1>8. CASE c.op = "RemoveAclConnection"
  BY <1>8 DEF Apply, Host
<1>9. CASE c.op = "StoreLinkKey"
  BY <1>9 DEF Apply, StoreLinkKey, Host
<1>10. CASE c.op \in ExecOps \cup {"ProcessAclData"}
  BY <1>10 DEF Apply, ExecOps
<1> QED
  BY <1>1, <1>2, <1>3, <1>4, <1>5, <1>6, <1>7, <1>8, <1>9, <1>10
     DEF InternalCommand, ExecOps

LEMMA InquiryApply ==
  ASSUME InquiryInv, ApplyFirst
  PROVE  InquiryEnds' /\ InquiryFollowed'
<1>1. IndType /\ host \in Host
  BY DEF InquiryInv, Base, RefInv, IndType, TypeOK
<1> DEFINE c == Head(Unapplied)
<1>2. /\ Unapplied # <<>> /\ Unapplied' = Tail(Unapplied) /\ host' = Apply(host, c)
      /\ Accepted = {} /\ Accepted' = {} /\ wire' = wire /\ ctl' = ctl
  BY DEF ApplyFirst
<1>3. /\ 1 \in DOMAIN Unapplied /\ Unapplied[1] = c /\ c \in InternalCommand
      /\ \A i \in DOMAIN Unapplied' :
           i + 1 \in DOMAIN Unapplied /\ Unapplied'[i] = Unapplied[i + 1]
      /\ \A i \in DOMAIN Unapplied \ {1} :
           i - 1 \in DOMAIN Unapplied' /\ Unapplied'[i - 1] = Unapplied[i]
      /\ DOMAIN Unapplied' \in SUBSET Nat /\ 0 \notin DOMAIN Unapplied'
  BY <1>1, <1>2, QueueTail
<1>4. host'.discovering = IF c.op = "SetDiscovering" THEN c.on ELSE host.discovering
  BY <1>1, <1>2, <1>3, AppliedIs
<1> HIDE DEF c
<1>5. InquiryEnds /\ InquiryFollowed
  BY DEF InquiryInv
<1>6. \A i \in Ends' : i \in Nat /\ i # 0 /\ i + 1 \in Ends /\ Unapplied'[i] = Unapplied[i + 1]
  BY <1>3 DEF Ends
<1>7. \A i \in Ends \ {1} : i - 1 \in Ends'
  BY <1>3 DEF Ends
<1>8. \A i, j \in Ends' : i = j
  <2>1. ASSUME NEW i \in Ends', NEW j \in Ends' PROVE i = j
    <3>1. i + 1 = j + 1 /\ i \in Nat /\ j \in Nat
      BY <1>5, <1>6 DEF InquiryEnds
    <3> QED
      BY <3>1
  <2> QED
    BY <2>1
<1>9. Reports' = Reports
  BY <1>2 DEF Reports
<1>10. CASE c.op = "SetDiscovering"
  <2>1. 1 \in Ends
    BY <1>3, <1>10 DEF Ends
  <2>2. Reports = {} /\ c.on = FALSE
    BY <1>3, <1>5, <2>1 DEF InquiryEnds
  <2>3. Ends' = {}
    <3>1. ASSUME NEW i \in Ends' PROVE FALSE
      <4>1. i + 1 = 1 /\ i \in Nat /\ i # 0
        BY <1>5, <1>6, <2>1 DEF InquiryEnds
      <4> QED
        BY <4>1
    <3> QED
      BY <3>1
  <2>4. ~host'.discovering
    BY <1>4, <1>10, <2>2
  <2>5. ~ctl'.inquiring
    BY <1>2, <1>5, <2>1 DEF InquiryFollowed, EndPending
  <2> QED
    BY <1>2, <1>9, <2>2, <2>3, <2>4, <2>5
       DEF InquiryEnds, InquiryFollowed, EndPending, Discovering, Stopping
<1>11. CASE c.op # "SetDiscovering"
  <2>1. 1 \notin Ends
    BY <1>3, <1>11 DEF Ends
  <2>2. Ends' = {} <=> Ends = {}
    BY <1>6, <1>7, <2>1
  <2>3. \A i \in Ends' : Unapplied'[i].on = FALSE
    BY <1>5, <1>6 DEF InquiryEnds
  <2>4. InquiryEnds'
    BY <1>5, <1>8, <1>9, <2>2, <2>3 DEF InquiryEnds
  <2>5. (EndPending' <=> EndPending) /\ (Discovering' <=> Discovering) /\ ~Stopping /\ ~Stopping'
    BY <1>2, <1>4, <1>9, <1>11, <2>2 DEF EndPending, Discovering, Stopping
  <2> QED
    BY <1>2, <1>5, <2>4, <2>5 DEF InquiryFollowed
<1> QED
  BY <1>10, <1>11

LEMMA InquiryNext == InquiryInv /\ [Next]_vars => InquiryInv'
<1> SUFFICES ASSUME InquiryInv, [Next]_vars PROVE InquiryEnds' /\ InquiryFollowed'
  BY BaseNext DEF InquiryInv
<1>1. TrackedStep /\ InquiryEnds /\ InquiryFollowed
  BY StepIs DEF InquiryInv
<1>2. IndType /\ host \in Host /\ ctl \in ControllerState
  BY DEF InquiryInv, Base, RefInv, IndType, TypeOK
<1>q. Unapplied' = Unapplied => Ends' = Ends
  BY DEF Ends
<1>w. ASSUME wire' = wire, Unapplied' = Unapplied PROVE InquiryEnds' /\ (EndPending' <=> EndPending)
  BY <1>1, <1>w DEF InquiryEnds, EndPending, Ends, Reports
<1>a. ASSUME NEW p \in Packet, wire' = Append(wire, p), p.kind # "InquiryComplete",
             Unapplied' = Unapplied
      PROVE  InquiryEnds' /\ (EndPending' <=> EndPending)
  <2>1. Reports' = Reports
    BY <1>2, <1>a, ReportsAppend
  <2> QED
    BY <1>1, <1>a, <1>q, <2>1 DEF InquiryEnds, EndPending
<1>3. CASE ReadEvent
  <2>1. InquiryEnds' /\ (EndPending' <=> EndPending)
    BY <1>3, InquiryRead
  <2>2. (Discovering' <=> Discovering) /\ (Stopping' <=> Stopping) /\ ctl' = ctl
    BY <1>3 DEF ReadEvent, Discovering, Stopping
  <2> QED
    BY <1>1, <2>1, <2>2 DEF InquiryFollowed
<1>4. CASE ReadAnswer
  <2>1. (Reports' = {} <=> Reports = {}) /\ \A i, j \in Reports' : i = j
    BY <1>1, <1>2, <1>4, ReportsTail DEF ReadAnswer
  <2>2. Ends' = Ends /\ Unapplied' = Unapplied
    BY <1>4, <1>q DEF ReadAnswer
  <2>3. InquiryEnds' /\ (EndPending' <=> EndPending)
    BY <1>1, <2>1, <2>2 DEF InquiryEnds, EndPending
  <2>4. (Discovering' <=> Discovering) /\ (Stopping' <=> Stopping) /\ ctl' = ctl
    BY <1>4 DEF ReadAnswer, Discovering, Stopping
  <2> QED
    BY <1>1, <2>3, <2>4 DEF InquiryFollowed
<1>5. CASE ApplyFirst
  BY <1>5, InquiryApply
<1>6. CASE FinishBoot
  <2>1. host'.discovering = host.discovering
    BY <1>2, <1>6 DEF FinishBoot, Host
  <2>2. InquiryEnds' /\ (EndPending' <=> EndPending)
    BY <1>6, <1>w DEF FinishBoot
  <2> QED
    BY <1>1, <1>6, <2>1, <2>2 DEF FinishBoot, InquiryFollowed, Discovering, Stopping
<1>7. CASE ServeAccepted
  <2>1. PICK r \in Request : Accepted = {r} /\ host' = Served(host, r, TRUE)
    BY <1>7 DEF ServeAccepted
  <2>2. InquiryEnds' /\ (EndPending' <=> EndPending) /\ ctl' = ctl /\ Accepted' = {}
    BY <1>7, <1>w DEF ServeAccepted
  <2>3. host'.discovering = IF r.op = "Discover" THEN TRUE
                            ELSE IF r.op = "StopDiscovery" THEN FALSE ELSE host.discovering
    BY <1>2, <2>1 DEF Served, Host
  <2>4. /\ Discovering <=> host.discovering \/ r.op = "Discover"
        /\ Stopping <=> r.op = "StopDiscovery"
        /\ Discovering' <=> host'.discovering
        /\ ~Stopping'
    BY <2>1, <2>2 DEF Discovering, Stopping
  <2> QED
    BY <1>1, <2>2, <2>3, <2>4 DEF InquiryFollowed
<1>8. CASE AcceptRequest
  <2>1. PICK r \in Request :
          /\ HciFor(host, r) # NoHci /\ ~Disallowed(HciFor(host, r))
          /\ ctl' = Started(HciFor(host, r)) /\ Accepted' = {r}
    BY <1>8 DEF AcceptRequest
  <2>2. AnswerPacket(TRUE) \in Packet /\ AnswerPacket(TRUE).kind # "InquiryComplete"
    BY DEF AnswerPacket, Packet
  <2>3. InquiryEnds' /\ (EndPending' <=> EndPending)
    BY <1>8, <1>a, <2>2 DEF AcceptRequest
  <2>4. /\ Discovering <=> host.discovering
        /\ ~Stopping
        /\ Discovering' <=> host.discovering \/ r.op = "Discover"
        /\ Stopping' <=> r.op = "StopDiscovery"
    BY <1>8, <2>1 DEF AcceptRequest, Discovering, Stopping
  <2>5. /\ r.op = "Discover" => ~host.discovering /\ ctl'.inquiring
        /\ r.op = "StopDiscovery" => host.discovering /\ ctl.inquiring /\ ~ctl'.inquiring
        /\ r.op \notin {"Discover", "StopDiscovery"} => ctl'.inquiring = ctl.inquiring
    <3>1. CASE r.op = "Discover"
      <4>1. ~host.discovering /\ HciFor(host, r) = [op |-> "Inquiry"]
        BY <2>1, <3>1 DEF HciFor
      <4> QED
        BY <1>2, <2>1, <3>1, <4>1 DEF Started, ControllerState
    <3>2. CASE r.op = "StopDiscovery"
      <4>1. host.discovering /\ HciFor(host, r) = [op |-> "InquiryCancel"]
        BY <2>1, <3>2 DEF HciFor
      <4> QED
        BY <1>2, <2>1, <3>2, <4>1 DEF Started, Disallowed, ControllerState
    <3>3. CASE r.op \notin {"Discover", "StopDiscovery"}
      <4>1. HciFor(host, r).op \notin {"Inquiry", "InquiryCancel"}
        BY <2>1, <3>3 DEF HciFor, NoHci
      <4>2. Started(HciFor(host, r)).inquiring = ctl.inquiring
        BY <1>2, <4>1 DEF Started, ControllerState
      <4> QED
        BY <2>1, <3>3, <4>2
    <3> QED
      BY <3>1, <3>2, <3>3
  <2> QED
    BY <1>1, <2>3, <2>4, <2>5 DEF InquiryFollowed
<1>9. CASE AnswerOther
  <2>1. PICK ok \in BOOLEAN : wire' = Append(wire, AnswerPacket(ok))
    BY <1>9 DEF AnswerOther
  <2>2. AnswerPacket(ok) \in Packet /\ AnswerPacket(ok).kind # "InquiryComplete"
    BY DEF AnswerPacket, Packet
  <2>3. InquiryEnds' /\ (EndPending' <=> EndPending)
    BY <1>9, <1>a, <2>1, <2>2 DEF AnswerOther
  <2>4. (Discovering' <=> Discovering) /\ (Stopping' <=> Stopping) /\ ctl'.inquiring = ctl.inquiring
    BY <1>9 DEF AnswerOther, Discovering, Stopping
  <2> QED
    BY <1>1, <2>3, <2>4 DEF InquiryFollowed
<1>10. CASE EmitOne
  <2>1. PICK p : Emitted(p)
    BY <1>10, EmittedIs DEF EmitOne, InquiryInv
  <2>2. p \in Packet /\ wire' = Append(wire, p)
    BY <2>1 DEF Emitted
  <2>3. (Discovering' <=> Discovering) /\ (Stopping' <=> Stopping) /\ Unapplied' = Unapplied
    BY <1>10 DEF EmitOne, Discovering, Stopping
  <2>4. CASE p.kind = "InquiryComplete"
    <3>1. ctl.inquiring /\ ~ctl'.inquiring
      BY <2>1, <2>4 DEF Emitted
    <3>2. Reports = {} /\ Ends = {} /\ Ends' = {} /\ Reports' = {Len(wire) + 1}
      BY <1>1, <1>2, <1>q, <2>2, <2>3, <2>4, <3>1, ReportsAppend DEF InquiryFollowed, EndPending
    <3> QED
      BY <1>1, <2>3, <3>1, <3>2 DEF InquiryEnds, InquiryFollowed, EndPending
  <2>5. CASE p.kind # "InquiryComplete"
    <3>1. ctl'.inquiring = ctl.inquiring
      BY <2>1, <2>5 DEF Emitted
    <3>2. InquiryEnds' /\ (EndPending' <=> EndPending)
      BY <1>a, <2>2, <2>3, <2>5
    <3> QED
      BY <1>1, <2>3, <3>1, <3>2 DEF InquiryFollowed
  <2> QED
    BY <2>4, <2>5
<1>11. CASE Quiet
  <2>1. InquiryEnds' /\ (EndPending' <=> EndPending)
    BY <1>11, <1>w DEF Quiet
  <2> QED
    BY <1>1, <1>11, <2>1 DEF Quiet, InquiryFollowed, Discovering, Stopping
<1> QED
  BY <1>1, <1>3, <1>4, <1>5, <1>6, <1>7, <1>8, <1>9, <1>10, <1>11 DEF TrackedStep

\* When all is quiet nothing lies between the controller and the record.
LEMMA SettledIs ==
  ASSUME Base, Settled
  PROVE  Unapplied = <<>> /\ wire = <<>> /\ Accepted = {}
<1>1. Accepted = {}
  BY AnsweredIs DEF Settled, Accepted
<1> QED
  BY <1>1, ConcatEmptySeq, EmptySeq DEF Settled, Unapplied

\* The record and the controller agree about the inquiry once all is quiet, and
\* the controller never inquires while the record, or the handler in exec, does
\* not know of it.
THEOREM InquiryTracked == Spec => []DiscoveryTracked
<1>1. Init => InquiryInv
  BY InquiryInit
<1>2. InquiryInv /\ [Next]_vars => InquiryInv'
  BY InquiryNext
<1>3. InquiryInv => DiscoveryTracked
  <2> SUFFICES ASSUME InquiryInv PROVE DiscoveryTracked
    OBVIOUS
  <2>1. InquiryFollowed /\ Base
    BY DEF InquiryInv
  <2>2. ASSUME ctl.inquiring, ~host.discovering
        PROVE  apiPc = "exec" /\ apiReq.req.op = "Discover"
    BY <2>1, <2>2 DEF InquiryFollowed, Discovering, Accepted
  <2>3. ASSUME Settled PROVE host.discovering = ctl.inquiring
    <3>1. Unapplied = <<>> /\ wire = <<>> /\ Accepted = {}
      BY <2>1, <2>3, SettledIs
    <3>2. ~EndPending /\ ~Stopping /\ (Discovering <=> host.discovering)
      BY <3>1 DEF EndPending, Ends, Reports, Stopping, Discovering
    <3>3. host.discovering \in BOOLEAN /\ ctl.inquiring \in BOOLEAN
      BY <2>1 DEF Base, RefInv, IndType, TypeOK, Host, ControllerState
    <3> QED
      BY <2>1, <3>2, <3>3 DEF InquiryFollowed
  <2> QED
    BY <2>2, <2>3 DEF DiscoveryTracked
<1> QED
  BY <1>1, <1>2, <1>3, PTL DEF Spec

-----------------------------------------------------------------------------
(* The activity.  A record that says Connecting, or will once the request  *)
(* in exec is served, has a page outstanding or its end on the way.  A     *)
(* record that will say Connected once every mutation is applied has a     *)
(* link, or the end of the last link is still on the wire.                 *)

States == {i \in DOMAIN Unapplied : Unapplied[i].op = "SetState"}
PageReported == \E i \in DOMAIN wire : wire[i].kind = "ConnectionComplete"
LinkEnds == {i \in DOMAIN wire : wire[i].kind = "DisconnectionComplete" /\ wire[i].ok}
BecomesConnected ==
  \/ States = {} /\ host.state = "Connected"
  \/ \E i \in States : Unapplied[i].state = "Connected" /\ \A j \in States : j <= i

PageFollowed ==
  host.state = "Connecting" \/ (\E r \in Accepted : r.op = "Pair") =>
    ctl.paging # {} \/ States # {} \/ PageReported

LinkFollowed ==
  /\ BecomesConnected => Linked # {} \/ LinkEnds # {}
  /\ \A i \in DOMAIN wire :
       wire[i].kind = "ConnectionComplete" /\ wire[i].ok
         => Linked # {} \/ \E j \in LinkEnds : i < j

StatesReported == \A i \in States : Unapplied[i].state \in {"PoweredOn", "Connected"}

ActivityInv == Base /\ PageFollowed /\ LinkFollowed /\ StatesReported

LEMMA ActivityInit == Init => ActivityInv
<1> SUFFICES ASSUME Init PROVE PageFollowed /\ LinkFollowed /\ StatesReported
  BY BaseInit DEF ActivityInv
<1>1. Unapplied = <<>> /\ wire = <<>> /\ host.state = "PoweredOff" /\ Accepted = {}
  BY ConcatEmptySeq, EmptySeq DEF Init, InitController, InitHost, Unapplied, Accepted
<1> QED
  BY <1>1 DEF PageFollowed, LinkFollowed, StatesReported, States, BecomesConnected

\* The states that an event sets.
LEMMA BatchStates ==
  ASSUME NEW e \in Packet, e.kind # "CommandAnswer", NEW b, b = ProcessHciEvent(e)
  PROVE  /\ \A i \in DOMAIN b : b[i].op = "SetState" =>
              /\ b[i].state \in {"PoweredOn", "Connected"}
              /\ b[i].state = "Connected" => e.kind = "ConnectionComplete" /\ e.ok
         /\ \/ e.kind = "ConnectionComplete"
            \/ e.kind = "DisconnectionComplete" /\ e.ok
            => \E i \in DOMAIN b : b[i].op = "SetState"
<1> USE DEF SetState
<1>1. CASE e.kind = "InquiryComplete"
  <2>1. b = IF e.ok
            THEN <<[op |-> "SetDiscovering", on |-> FALSE], SetState("PoweredOn")>>
            ELSE <<[op |-> "SetDiscovering", on |-> FALSE]>>
    BY <1>1, BatchIs
  <2> QED
    BY <1>1, <2>1
<1>2. CASE e.kind = "ConnectionComplete" /\ e.ok
  <2>1. b = <<[op |-> "AddConnection", addr |-> e.addr, handle |-> e.handle],
              [op |-> "AddAclConnection", addr |-> e.addr, handle |-> e.handle],
              SetState("Connected"),
              [op |-> "AuthenticationRequested", handle |-> e.handle]>>
    BY <1>2, BatchIs
  <2>2. 3 \in DOMAIN b /\ b[3].op = "SetState"
    BY <2>1
  <2> QED
    BY <1>2, <2>1, <2>2
<1>3. CASE e.kind = "ConnectionComplete" /\ ~e.ok
  <2>1. b = <<SetState("PoweredOn")>>
    BY <1>3, BatchIs
  <2>2. 1 \in DOMAIN b /\ b[1].op = "SetState"
    BY <2>1
  <2> QED
    BY <1>3, <2>1, <2>2
<1>4. CASE e.kind = "DisconnectionComplete" /\ e.ok
  <2>1. b = <<[op |-> "RemoveConnection", handle |-> e.handle],
              [op |-> "RemoveAclConnection", handle |-> e.handle],
              SetState("PoweredOn")>>
    BY <1>4, BatchIs
  <2>2. 3 \in DOMAIN b /\ b[3].op = "SetState"
    BY <2>1
  <2> QED
    BY <1>4, <2>1, <2>2
<1>5. CASE e.kind = "DisconnectionComplete" /\ ~e.ok
  <2>1. b = <<>>
    BY <1>5, BatchIs
  <2> QED
    BY <1>5, <2>1
<1>6. CASE e.kind \notin {"InquiryComplete", "ConnectionComplete", "DisconnectionComplete"}
  <2>1. \A i \in DOMAIN b : b[i].op \in TrackingOps => b[i] = SetState("PoweredOn")
    BY <1>6, BatchIs
  <2> QED
    BY <1>6, <2>1 DEF TrackingOps
<1> QED
  BY <1>1, <1>2, <1>3, <1>4, <1>5, <1>6

LEMMA ActivityRead ==
  ASSUME ActivityInv, ReadEvent
  PROVE  PageFollowed' /\ LinkFollowed' /\ StatesReported'
<1>1. IndType /\ PageFollowed /\ LinkFollowed /\ StatesReported
  BY DEF ActivityInv, Base, RefInv
<1> DEFINE e == Head(wire)
           b == ProcessHciEvent(e)
           n == Len(Unapplied)
           Connects == e.kind = "ConnectionComplete" /\ e.ok
           Ended == e.kind = "DisconnectionComplete" /\ e.ok
<1>2. /\ e \in Packet /\ e.kind # "CommandAnswer" /\ wire # <<>> /\ wire' = Tail(wire)
      /\ Unapplied' = Unapplied \o b /\ b \in Seq(InternalCommand)
  <2>1. e \in Packet
    BY <1>1 DEF ReadEvent, IndType, TypeOK
  <2> QED
    BY <2>1, BatchType DEF ReadEvent
<1>3. /\ n \in Nat /\ DOMAIN Unapplied = 1 .. n
      /\ DOMAIN b = 1 .. Len(b) /\ Len(b) \in Nat
      /\ DOMAIN Unapplied' = 1 .. n + Len(b)
      /\ \A i \in DOMAIN Unapplied : Unapplied'[i] = Unapplied[i]
      /\ \A i \in DOMAIN b : Unapplied'[n + i] = b[i]
  BY <1>1, <1>2, QueueGrows
<1>4. /\ \A i \in DOMAIN b : b[i].op = "SetState" =>
              b[i].state \in {"PoweredOn", "Connected"} /\ (b[i].state = "Connected" => Connects)
      /\ e.kind = "ConnectionComplete" \/ Ended => \E i \in DOMAIN b : b[i].op = "SetState"
  BY <1>2, BatchStates
<1>5. /\ 1 \in DOMAIN wire /\ wire[1] = e
      /\ \A i \in DOMAIN wire' : i \in Nat /\ i + 1 \in DOMAIN wire /\ wire'[i] = wire[i + 1]
      /\ \A i \in DOMAIN wire \ {1} :
           i \in Nat /\ i - 1 \in DOMAIN wire' /\ wire'[i - 1] = wire[i]
  BY <1>1, <1>2, WireTail
<1>6. UNCHANGED <<host, ctl, Accepted, Linked>>
  BY DEF ReadEvent, Linked
<1> HIDE DEF e, b, n
<1>7. /\ States \subseteq States'
      /\ \A i \in States : Unapplied'[i] = Unapplied[i] /\ i \in 1 .. n
      /\ \A i \in DOMAIN b : b[i].op = "SetState" => n + i \in States'
  <2>1. \A i \in DOMAIN b : n + i \in DOMAIN Unapplied'
    BY <1>3
  <2> QED
    BY <1>3, <2>1 DEF States
<1>8. ASSUME NEW i \in States'
      PROVE  \/ i \in States
             \/ i \in Nat /\ i > n /\ i - n \in DOMAIN b /\ b[i - n].op = "SetState"
                /\ Unapplied'[i] = b[i - n]
  <2>1. i \in 1 .. n + Len(b) /\ Unapplied'[i].op = "SetState"
    BY <1>3, <1>8 DEF States
  <2>2. CASE i <= n
    BY <1>3, <2>1, <2>2 DEF States
  <2>3. CASE i > n
    <3>1. i - n \in DOMAIN b /\ n + (i - n) = i
      BY <1>3, <2>1, <2>3
    <3> QED
      BY <1>3, <2>1, <2>3, <3>1
  <2> QED
    BY <1>3, <2>1, <2>2, <2>3
<1>9. StatesReported'
  BY <1>1, <1>4, <1>7, <1>8 DEF StatesReported
<1>10. \A i \in LinkEnds : i # 1 => i - 1 \in LinkEnds'
  BY <1>5 DEF LinkEnds
<1>11. ~Ended => (LinkEnds # {} => LinkEnds' # {})
  <2>1. ~Ended => 1 \notin LinkEnds
    BY <1>5 DEF LinkEnds
  <2> QED
    BY <1>10, <2>1
<1>12. BecomesConnected' => Connects \/ (BecomesConnected /\ ~Ended)
  <2> SUFFICES ASSUME BecomesConnected', ~Connects PROVE BecomesConnected /\ ~Ended
    OBVIOUS
  <2>1. CASE States' = {} /\ host'.state = "Connected"
    BY <1>4, <1>6, <1>7, <2>1 DEF BecomesConnected
  <2>2. CASE \E i \in States' : Unapplied'[i].state = "Connected" /\ \A j \in States' : j <= i
    <3>1. PICK i \in States' : Unapplied'[i].state = "Connected" /\ \A j \in States' : j <= i
      BY <2>2
    <3>2. i \in States
      BY <1>4, <1>8, <3>1
    <3>3. ~Ended
      <4>1. ASSUME Ended PROVE FALSE
        <5>1. PICK k \in DOMAIN b : b[k].op = "SetState"
          BY <1>4, <4>1
        <5>2. n + k <= i /\ i <= n /\ k \in Nat /\ k >= 1 /\ i \in Nat
          BY <1>3, <1>7, <3>1, <3>2, <5>1
        <5> QED
          BY <1>3, <5>2
      <4> QED
        BY <4>1
    <3>4. Unapplied[i].state = "Connected" /\ \A j \in States : j <= i
      BY <1>7, <3>1, <3>2
    <3> QED
      BY <3>2, <3>3, <3>4 DEF BecomesConnected
  <2> QED
    BY <2>1, <2>2 DEF BecomesConnected
<1>13. Connects => Linked # {} \/ \E j \in LinkEnds : 1 < j
  BY <1>1, <1>5 DEF LinkFollowed
<1>14. ASSUME NEW i \in DOMAIN wire', wire'[i].kind = "ConnectionComplete" /\ wire'[i].ok
       PROVE  Linked # {} \/ \E j \in LinkEnds' : i < j
  <2>1. i + 1 \in DOMAIN wire /\ wire'[i] = wire[i + 1] /\ i \in Nat
    BY <1>5, <1>14
  <2>2. Linked # {} \/ \E j \in LinkEnds : i + 1 < j
    BY <1>1, <1>14, <2>1 DEF LinkFollowed
  <2>3. ASSUME NEW j \in LinkEnds, i + 1 < j PROVE j - 1 \in LinkEnds' /\ i < j - 1
    <3>1. j \in Nat
      <4>1. wire \in Seq(Packet)
        BY <1>1 DEF IndType, TypeOK
      <4> QED
        BY <4>1 DEF LinkEnds
    <3> QED
      BY <1>10, <2>1, <2>3, <3>1
  <2> QED
    BY <2>2, <2>3
<1>15. LinkFollowed'
  <2>1. ASSUME BecomesConnected' PROVE Linked # {} \/ LinkEnds' # {}
    <3>1. CASE Connects
      <4>1. (\E j \in LinkEnds : 1 < j) => LinkEnds' # {}
        <5>1. \A j \in LinkEnds : 1 < j => j # 1
          OBVIOUS
        <5> QED
          BY <1>10, <5>1
      <4> QED
        BY <1>13, <3>1, <4>1
    <3>2. CASE BecomesConnected /\ ~Ended
      BY <1>1, <1>11, <3>2 DEF LinkFollowed
    <3> QED
      BY <1>12, <2>1, <3>1, <3>2
  <2> QED
    BY <1>6, <1>14, <2>1 DEF LinkFollowed
<1>16. PageReported => PageReported' \/ States' # {}
  <2>1. ASSUME NEW i \in DOMAIN wire, wire[i].kind = "ConnectionComplete"
        PROVE  PageReported' \/ States' # {}
    <3>1. CASE i = 1
      BY <1>4, <1>5, <1>7, <2>1, <3>1
    <3>2. CASE i # 1
      BY <1>5, <2>1, <3>2 DEF PageReported
    <3> QED
      BY <3>1, <3>2
  <2> QED
    BY <2>1 DEF PageReported
<1>17. PageFollowed'
  BY <1>1, <1>6, <1>7, <1>16 DEF PageFollowed
<1> QED
  BY <1>9, <1>15, <1>17

LEMMA ActivityApply ==
  ASSUME ActivityInv, ApplyFirst
  PROVE  PageFollowed' /\ LinkFollowed' /\ StatesReported'
<1>1. IndType /\ host \in Host /\ PageFollowed /\ LinkFollowed /\ StatesReported
  BY DEF ActivityInv, Base, RefInv, IndType, TypeOK
<1> DEFINE c == Head(Unapplied)
<1>2. /\ Unapplied # <<>> /\ Unapplied' = Tail(Unapplied) /\ host' = Apply(host, c)
      /\ Accepted' = {} /\ wire' = wire /\ ctl' = ctl
  BY DEF ApplyFirst
<1>3. /\ 1 \in DOMAIN Unapplied /\ Unapplied[1] = c /\ c \in InternalCommand
      /\ \A i \in DOMAIN Unapplied' :
           i + 1 \in DOMAIN Unapplied /\ Unapplied'[i] = Unapplied[i + 1]
      /\ \A i \in DOMAIN Unapplied \ {1} :
           i - 1 \in DOMAIN Unapplied' /\ Unapplied'[i - 1] = Unapplied[i]
      /\ DOMAIN Unapplied \in SUBSET Nat /\ DOMAIN Unapplied' \in SUBSET Nat
      /\ 0 \notin DOMAIN Unapplied
  BY <1>1, <1>2, QueueTail
<1>4. host'.state = IF c.op = "SetState" THEN c.state ELSE host.state
  BY <1>1, <1>2, <1>3, AppliedIs
<1> HIDE DEF c
<1>5. \A i \in States' : i \in Nat /\ i + 1 \in States /\ Unapplied'[i] = Unapplied[i + 1]
  BY <1>3 DEF States
<1>6. \A i \in States \ {1} : i \in Nat /\ i - 1 \in States'
  BY <1>3 DEF States
<1>7. 1 \in States <=> c.op = "SetState"
  BY <1>3 DEF States
<1>8. Linked' = Linked /\ LinkEnds' = LinkEnds /\ PageReported' = PageReported
  BY <1>2 DEF Linked, LinkEnds, PageReported
<1>9. StatesReported'
  BY <1>1, <1>5 DEF StatesReported
<1>10. BecomesConnected' => BecomesConnected
  <2>1. CASE States' = {} /\ host'.state = "Connected"
    <3>1. \A i \in States : i = 1
      BY <1>6, <2>1
    <3>2. CASE c.op = "SetState"
      <4>1. 1 \in States /\ Unapplied[1].state = "Connected" /\ \A j \in States : j <= 1
        BY <1>3, <1>4, <1>7, <2>1, <3>1, <3>2
      <4> QED
        BY <4>1 DEF BecomesConnected
    <3>3. CASE c.op # "SetState"
      <4>1. States = {} /\ host.state = "Connected"
        BY <1>4, <1>7, <2>1, <3>1, <3>3
      <4> QED
        BY <4>1 DEF BecomesConnected
    <3> QED
      BY <3>2, <3>3
  <2>2. CASE \E i \in States' : Unapplied'[i].state = "Connected" /\ \A j \in States' : j <= i
    <3>1. PICK i \in States' : Unapplied'[i].state = "Connected" /\ \A j \in States' : j <= i
      BY <2>2
    <3>2. i \in Nat /\ i + 1 \in States /\ Unapplied[i + 1].state = "Connected"
      BY <1>5, <3>1
    <3>3. ASSUME NEW j \in States PROVE j <= i + 1
      <4>1. CASE j = 1
        BY <3>2, <4>1
      <4>2. CASE j # 1
        <5>1. j \in Nat /\ j - 1 \in States'
          BY <1>6, <4>2
        <5>2. j - 1 <= i
          BY <3>1, <5>1
        <5> QED
          BY <3>2, <5>1, <5>2
      <4> QED
        BY <4>1, <4>2
    <3> QED
      BY <3>2, <3>3 DEF BecomesConnected
  <2> QED
    BY <2>1, <2>2 DEF BecomesConnected
<1>11. LinkFollowed'
  BY <1>1, <1>2, <1>8, <1>10 DEF LinkFollowed
<1>12. PageFollowed'
  <2>1. CASE c.op = "SetState"
    <3>1. host'.state # "Connecting"
      BY <1>1, <1>3, <1>4, <1>7, <2>1 DEF StatesReported
    <3> QED
      BY <1>2, <3>1 DEF PageFollowed
  <2>2. CASE c.op # "SetState"
    <3>1. States # {} => States' # {}
      BY <1>6, <1>7, <2>2
    <3> QED
      BY <1>1, <1>2, <1>4, <1>8, <2>2, <3>1 DEF PageFollowed
  <2> QED
    BY <2>1, <2>2
<1> QED
  BY <1>9, <1>11, <1>12

\* What a packet that is not read yet keeps and adds.
LEMMA ActivityWrites ==
  ASSUME ActivityInv, UNCHANGED <<host, Unapplied>>,
         NEW p \in Packet, wire' = Append(wire, p),
         (\E r \in Accepted' : r.op = "Pair") => (\E r \in Accepted : r.op = "Pair")
                                                  \/ ctl'.paging # {},
         ctl.paging # {} => ctl'.paging # {} \/ p.kind = "ConnectionComplete",
         Linked # {} => Linked' # {} \/ (p.kind = "DisconnectionComplete" /\ p.ok),
         p.kind = "ConnectionComplete" /\ p.ok => Linked' # {}
  PROVE  PageFollowed' /\ LinkFollowed' /\ StatesReported'
<1>1. IndType /\ PageFollowed /\ LinkFollowed /\ StatesReported
  BY DEF ActivityInv, Base, RefInv
<1>2. States' = States /\ (BecomesConnected' <=> BecomesConnected)
  BY DEF States, BecomesConnected
<1>3. StatesReported'
  BY <1>1, <1>2 DEF StatesReported
<1> DEFINE n == Len(wire) + 1
<1>4. /\ DOMAIN wire' = DOMAIN wire \cup {n} /\ n \notin DOMAIN wire
      /\ \A i \in DOMAIN wire : wire'[i] = wire[i] /\ i < n
      /\ wire'[n] = p
  BY <1>1, WireAppend
<1> HIDE DEF n
<1>5. LinkEnds \subseteq LinkEnds'
  BY <1>4 DEF LinkEnds
<1>6. p.kind = "DisconnectionComplete" /\ p.ok => n \in LinkEnds'
  BY <1>4 DEF LinkEnds
<1>7. PageReported \/ p.kind = "ConnectionComplete" => PageReported'
  BY <1>4 DEF PageReported
<1>8. PageFollowed'
  BY <1>1, <1>2, <1>7 DEF PageFollowed
<1>9. ASSUME NEW i \in DOMAIN wire', wire'[i].kind = "ConnectionComplete" /\ wire'[i].ok
      PROVE  Linked' # {} \/ \E j \in LinkEnds' : i < j
  <2>1. CASE i = n
    BY <1>4, <1>9, <2>1
  <2>2. CASE i # n
    <3>1. i \in DOMAIN wire /\ i < n /\ (Linked # {} \/ \E j \in LinkEnds : i < j)
      BY <1>1, <1>4, <1>9, <2>2 DEF LinkFollowed
    <3> QED
      BY <1>5, <1>6, <3>1
  <2> QED
    BY <2>1, <2>2
<1>10. LinkFollowed'
  BY <1>1, <1>2, <1>5, <1>6, <1>9 DEF LinkFollowed
<1> QED
  BY <1>3, <1>8, <1>10

LEMMA ActivityNext == ActivityInv /\ [Next]_vars => ActivityInv'
<1> SUFFICES ASSUME ActivityInv, [Next]_vars
             PROVE  PageFollowed' /\ LinkFollowed' /\ StatesReported'
  BY BaseNext DEF ActivityInv
<1>1. TrackedStep /\ Base /\ PageFollowed /\ LinkFollowed /\ StatesReported
  BY StepIs DEF ActivityInv
<1>2. /\ IndType /\ host \in Host /\ ctl \in ControllerState
      /\ ctl.links \in [Addr -> Handle \cup {NoHandle}]
  BY DEF ActivityInv, Base, RefInv, IndType, TypeOK, ControllerState
<1>3. CASE ReadEvent
  BY <1>3, ActivityRead
<1>4. CASE ApplyFirst
  BY <1>4, ActivityApply
<1>5. CASE ReadAnswer
  <2>1. /\ UNCHANGED <<host, ctl, Accepted, Unapplied>> /\ wire # <<>> /\ wire' = Tail(wire)
        /\ Head(wire).kind = "CommandAnswer"
    BY <1>5 DEF ReadAnswer
  <2>2. UNCHANGED <<States, Linked, BecomesConnected>>
    BY <2>1 DEF States, Linked, BecomesConnected
  <2>3. /\ 1 \in DOMAIN wire /\ wire[1] = Head(wire)
        /\ \A i \in DOMAIN wire' : i \in Nat /\ i + 1 \in DOMAIN wire /\ wire'[i] = wire[i + 1]
        /\ \A i \in DOMAIN wire \ {1} :
             i \in Nat /\ i - 1 \in DOMAIN wire' /\ wire'[i - 1] = wire[i]
    BY <1>2, <2>1, WireTail
  <2>4. PageReported => PageReported'
    BY <2>1, <2>3 DEF PageReported
  <2>5. \A j \in LinkEnds : j \in Nat /\ j - 1 \in LinkEnds'
    BY <2>1, <2>3 DEF LinkEnds
  <2>6. ASSUME NEW i \in DOMAIN wire', wire'[i].kind = "ConnectionComplete" /\ wire'[i].ok
        PROVE  Linked # {} \/ \E j \in LinkEnds' : i < j
    <3>1. i \in Nat /\ (Linked # {} \/ \E j \in LinkEnds : i + 1 < j)
      BY <1>1, <2>3, <2>6 DEF LinkFollowed
    <3>2. \A j \in LinkEnds : i + 1 < j => j - 1 \in LinkEnds' /\ i < j - 1
      BY <2>5, <3>1
    <3> QED
      BY <3>1, <3>2
  <2>7. LinkFollowed'
    BY <1>1, <2>2, <2>5, <2>6 DEF LinkFollowed
  <2>8. StatesReported'
    BY <1>1, <2>1, <2>2 DEF StatesReported
  <2>9. PageFollowed'
    BY <1>1, <2>1, <2>2, <2>4 DEF PageFollowed
  <2> QED
    BY <2>7, <2>8, <2>9
<1>6. ASSUME UNCHANGED <<wire, ctl, Unapplied>>,
             host'.state = "Connected" => host.state = "Connected",
             host'.state = "Connecting" \/ (\E r \in Accepted' : r.op = "Pair")
               => host.state = "Connecting" \/ (\E r \in Accepted : r.op = "Pair")
      PROVE  PageFollowed' /\ LinkFollowed' /\ StatesReported'
  <2>1. UNCHANGED <<States, Linked, LinkEnds, PageReported>>
    BY <1>6 DEF States, Linked, LinkEnds, PageReported
  <2>2. BecomesConnected' => BecomesConnected
    BY <1>6, <2>1 DEF BecomesConnected
  <2>3. LinkFollowed'
    BY <1>1, <1>6, <2>1, <2>2 DEF LinkFollowed
  <2>4. PageFollowed' /\ StatesReported'
    BY <1>1, <1>6, <2>1 DEF PageFollowed, StatesReported
  <2> QED
    BY <2>3, <2>4
<1>7. CASE FinishBoot
  <2>1. host'.state \in {"PoweredOn", "PoweredOff"} /\ Accepted' = {}
    BY <1>2, <1>7 DEF FinishBoot, Host
  <2> QED
    BY <1>6, <1>7, <2>1 DEF FinishBoot
<1>8. CASE ServeAccepted
  <2>1. PICK r \in Request : Accepted = {r} /\ host' = Served(host, r, TRUE)
    BY <1>8 DEF ServeAccepted
  <2>2. /\ host'.state \in {host.state, "Discovering", "PoweredOn", "Connecting"}
        /\ host'.state = "Connecting" => host.state = "Connecting" \/ r.op = "Pair"
    BY <1>2, <2>1 DEF Served, Host
  <2> QED
    BY <1>6, <1>8, <2>1, <2>2 DEF ServeAccepted
<1>9. CASE AcceptRequest
  <2>1. PICK r \in Request :
          /\ HciFor(host, r) # NoHci /\ ~Disallowed(HciFor(host, r))
          /\ ctl' = Started(HciFor(host, r)) /\ Accepted' = {r}
    BY <1>9 DEF AcceptRequest
  <2>2. AnswerPacket(TRUE) \in Packet /\ AnswerPacket(TRUE).kind = "CommandAnswer"
    BY DEF AnswerPacket, Packet
  <2>3. ctl'.links = ctl.links /\ (ctl.paging # {} => ctl'.paging # {})
    BY <1>2, <2>1 DEF Started, ControllerState
  <2>4. Linked' = Linked
    BY <2>3 DEF Linked
  <2>5. r.op = "Pair" => ctl'.paging # {}
    <3>1. r.op = "Pair" => HciFor(host, r) = [op |-> "CreateConnection", addr |-> r.addr]
      BY <2>1 DEF HciFor
    <3>2. r.op = "Pair" => r.addr \in ctl'.paging
      BY <1>2, <2>1, <3>1 DEF Started, ControllerState
    <3> QED
      BY <3>2
  <2> QED
    BY <1>9, <2>1, <2>2, <2>3, <2>4, <2>5, ActivityWrites DEF AcceptRequest
<1>10. CASE AnswerOther
  <2>1. PICK ok \in BOOLEAN : wire' = Append(wire, AnswerPacket(ok))
    BY <1>10 DEF AnswerOther
  <2>2. AnswerPacket(ok) \in Packet /\ AnswerPacket(ok).kind = "CommandAnswer"
    BY DEF AnswerPacket, Packet
  <2>3. Linked' = Linked
    BY <1>10 DEF AnswerOther, Linked
  <2> QED
    BY <1>10, <2>1, <2>2, <2>3, ActivityWrites DEF AnswerOther
<1>11. CASE EmitOne
  <2>1. PICK p : Emitted(p)
    BY <1>1, <1>11, EmittedIs DEF EmitOne
  <2>2. /\ p \in Packet /\ wire' = Append(wire, p)
        /\ UNCHANGED <<host, Unapplied, Accepted>>
    BY <1>11, <2>1 DEF Emitted, EmitOne
  <2>3. ctl.paging # {} => ctl'.paging # {} \/ p.kind = "ConnectionComplete"
    BY <2>1 DEF Emitted
  <2>4. CASE p.kind = "ConnectionComplete"
    <3>1. /\ p.addr \in ctl.paging
          /\ ctl'.links = IF p.ok THEN [ctl.links EXCEPT ![p.addr] = p.handle] ELSE ctl.links
      BY <2>1, <2>4 DEF Emitted
    <3>2. p.addr \in Addr /\ p.handle \in Handle /\ p.handle # NoHandle
      BY <2>2, <2>4, HostStateAssumption DEF Packet, PairingKinds
    <3>3. p.ok => p.addr \in Linked'
      BY <1>2, <3>1, <3>2 DEF Linked
    <3>4. ~p.ok => Linked' = Linked
      BY <3>1 DEF Linked
    <3> QED
      BY <2>2, <2>3, <2>4, <3>3, <3>4, ActivityWrites
  <2>5. CASE p.kind = "DisconnectionComplete"
    <3>1. ~p.ok => ctl'.links = ctl.links
      BY <2>1, <2>5 DEF Emitted
    <3>2. ~p.ok => Linked' = Linked
      BY <3>1 DEF Linked
    <3> QED
      BY <2>2, <2>3, <2>5, <3>2, ActivityWrites
  <2>6. CASE p.kind \notin {"ConnectionComplete", "DisconnectionComplete"}
    <3>1. ctl'.links = ctl.links
      BY <2>1, <2>6 DEF Emitted
    <3>2. Linked' = Linked
      BY <3>1 DEF Linked
    <3> QED
      BY <2>2, <2>3, <2>6, <3>2, ActivityWrites
  <2> QED
    BY <2>4, <2>5, <2>6
<1>12. CASE Quiet
  BY <1>6, <1>12 DEF Quiet
<1> QED
  BY <1>1, <1>3, <1>4, <1>5, <1>7, <1>8, <1>9, <1>10, <1>11, <1>12 DEF TrackedStep

\* Once all is quiet a state that names an activity is true of the controller:
\* Connecting only with a page outstanding, Connected only with a link.
THEOREM ActivityTracked == Spec => []StateTracked
<1>1. Init => ActivityInv
  BY ActivityInit
<1>2. ActivityInv /\ [Next]_vars => ActivityInv'
  BY ActivityNext
<1>3. ActivityInv => StateTracked
  <2> SUFFICES ASSUME ActivityInv, Settled
               PROVE  /\ host.state = "Connecting" => ctl.paging # {}
                      /\ host.state = "Connected" => Linked # {}
    BY DEF StateTracked
  <2>1. Unapplied = <<>> /\ wire = <<>>
    BY SettledIs DEF ActivityInv
  <2>2. States = {} /\ LinkEnds = {} /\ ~PageReported
    BY <2>1 DEF States, LinkEnds, PageReported
  <2> QED
    BY <2>2 DEF ActivityInv, PageFollowed, LinkFollowed, BecomesConnected
<1> QED
  BY <1>1, <1>2, <1>3, PTL DEF Spec

-----------------------------------------------------------------------------
(* The links.  Reading the wire leads from the links the record will have, *)
(* once every queued mutation is applied, to the links of the controller.  *)

\* No more links than either map of the record can hold.
Few(links) ==
  LET up == {a \in Addr : links[a] # NoHandle} IN
    /\ IsFiniteSet(up)
    /\ Cardinality(up) <= MaxAclConnections
    /\ Cardinality(up) <= MaxChannels
FewLinks == Few(ctl.links)

LinkMap == [Addr -> Handle \cup {NoHandle}]
Sound(links) ==
  /\ links \in LinkMap /\ Few(links)
  /\ \A a, b \in Addr : links[a] = links[b] /\ links[a] # NoHandle => a = b

\* acl is the inverse of links.
Inverts(acl, links) ==
  /\ acl \in [Handle -> Addr \cup {NoAddr}]
  /\ \A h \in Handle, a \in Addr : acl[h] = a <=> links[a] = h

\* What a packet says of the links, and what must be so for it to be said.
LinksAfter(links, p) ==
  IF p.kind = "ConnectionComplete" /\ p.ok
  THEN [links EXCEPT ![p.addr] = p.handle]
  ELSE IF p.kind = "DisconnectionComplete" /\ p.ok
  THEN [a \in Addr |-> IF links[a] = p.handle THEN NoHandle ELSE links[a]]
  ELSE links

Fits(links, p) ==
  p.kind = "ConnectionComplete" /\ p.ok =>
    links[p.addr] = NoHandle /\ \A a \in Addr : links[a] # p.handle

\* The packets of w, read one after the other, lead from one map of links to
\* another by sound ones.
Reading(g, w, from, to) ==
  /\ DOMAIN g = 1 .. Len(w) + 1
  /\ g[1] = from /\ g[Len(w) + 1] = to
  /\ \A i \in 1 .. Len(w) + 1 : Sound(g[i])
  /\ \A i \in 1 .. Len(w) : Fits(g[i], w[i]) /\ g[i + 1] = LinksAfter(g[i], w[i])
Reads(w, from, to) == \E g : Reading(g, w, from, to)

\* The two maps of the record, and a mutation of them.
Maps(connections, acl) == [connections |-> connections, acl |-> acl]
MapsAfter(m, c) ==
  Maps(CASE c.op = "AddConnection" ->
              Put(m.connections, c.addr, c.handle, NoHandle, MaxChannels)
         [] c.op = "RemoveConnection" ->
              [a \in Addr |-> IF m.connections[a] = c.handle THEN NoHandle
                                                            ELSE m.connections[a]]
         [] OTHER -> m.connections,
       CASE c.op = "AddAclConnection" -> Put(m.acl, c.handle, c.addr, NoAddr, MaxAclConnections)
         [] c.op = "RemoveAclConnection" -> [m.acl EXCEPT ![c.handle] = NoAddr]
         [] OTHER -> m.acl)

\* The mutations of q, applied one after the other, lead from one to another.
Applying(f, q, from, to) ==
  /\ DOMAIN f = 1 .. Len(q) + 1
  /\ f[1] = from /\ f[Len(q) + 1] = to
  /\ \A i \in 1 .. Len(q) : f[i + 1] = MapsAfter(f[i], q[i])
Leads(q, from, to) == \E f : Applying(f, q, from, to)

LinksInv ==
  /\ Base
  /\ ctl.paging \cap Linked = {}
  /\ \E links, acl : /\ Leads(Unapplied, Maps(host.connections, host.acl), Maps(links, acl))
                     /\ Inverts(acl, links)
                     /\ Reads(wire, links, ctl.links)

LEMMA LeadsTail ==
  ASSUME NEW S, NEW q \in Seq(S), q # <<>>, NEW from, NEW to, Leads(q, from, to)
  PROVE  Leads(Tail(q), MapsAfter(from, Head(q)), to)
<1>1. PICK f : Applying(f, q, from, to)
  BY DEF Leads
<1>2. /\ Len(q) \in Nat /\ Len(q) > 0 /\ Head(q) = q[1]
      /\ Len(Tail(q)) = Len(q) - 1 /\ \A i \in 1 .. Len(q) - 1 : Tail(q)[i] = q[i + 1]
  OBVIOUS
<1> DEFINE g == [i \in 1 .. Len(q) |-> f[i + 1]]
           t == Tail(q)
<1>3. f[2] = MapsAfter(from, Head(q))
  BY <1>1, <1>2 DEF Applying
<1>4. DOMAIN g = 1 .. Len(t) + 1 /\ g[1] = f[2] /\ g[Len(t) + 1] = to
  BY <1>1, <1>2 DEF Applying
<1>5. ASSUME NEW i \in 1 .. Len(t) PROVE g[i + 1] = MapsAfter(g[i], t[i])
  <2>1. i \in 1 .. Len(q) /\ i + 1 \in 1 .. Len(q) /\ t[i] = q[i + 1]
    BY <1>2
  <2>2. f[(i + 1) + 1] = MapsAfter(f[i + 1], q[i + 1])
    BY <1>1, <2>1 DEF Applying
  <2>3. g[i + 1] = f[(i + 1) + 1] /\ g[i] = f[i + 1]
    BY <2>1
  <2> QED
    BY <2>1, <2>2, <2>3
<1>6. Applying(g, t, MapsAfter(from, Head(q)), to)
  <2> HIDE DEF g, t
  <2> QED
    BY <1>3, <1>4, <1>5 DEF Applying
<1> QED
  BY <1>6 DEF Leads

LEMMA LeadsConcat ==
  ASSUME NEW S, NEW q \in Seq(S), NEW r \in Seq(S), NEW from, NEW via, NEW to,
         Leads(q, from, via), Leads(r, via, to)
  PROVE  Leads(q \o r, from, to)
<1>1. PICK f : Applying(f, q, from, via)
  BY DEF Leads
<1>2. PICK k : Applying(k, r, via, to)
  BY DEF Leads
<1> DEFINE m == Len(q)
           n == Len(r)
           s == q \o r
           g == [i \in 1 .. m + n + 1 |-> IF i <= m THEN f[i] ELSE k[i - m]]
<1>3. /\ m \in Nat /\ n \in Nat /\ Len(s) = m + n
      /\ \A i \in 1 .. m + n : s[i] = IF i <= m THEN q[i] ELSE r[i - m]
  BY ConcatProperties
<1> HIDE DEF m, n, s
<1>4. /\ f[1] = from /\ f[m + 1] = via /\ \A i \in 1 .. m : f[i + 1] = MapsAfter(f[i], q[i])
      /\ k[1] = via /\ k[n + 1] = to /\ \A i \in 1 .. n : k[i + 1] = MapsAfter(k[i], r[i])
  BY <1>1, <1>2 DEF Applying, m, n
<1>5. DOMAIN g = 1 .. Len(s) + 1 /\ g[1] = from /\ g[Len(s) + 1] = to
  <2>1. 1 \in 1 .. m + n + 1 /\ m + n + 1 \in 1 .. m + n + 1
    BY <1>3
  <2>2. g[1] = from
    BY <1>3, <1>4, <2>1
  <2>3. g[m + n + 1] = to
    <3>1. ~(m + n + 1 <= m) /\ (m + n + 1) - m = n + 1
      BY <1>3
    <3> QED
      BY <1>4, <2>1, <3>1
  <2> QED
    BY <1>3, <2>2, <2>3
<1>6. ASSUME NEW i \in 1 .. Len(s) PROVE g[i + 1] = MapsAfter(g[i], s[i])
  <2>1. i \in 1 .. m + n + 1 /\ i + 1 \in 1 .. m + n + 1 /\ i \in Nat
    BY <1>3
  <2>2. CASE i < m
    <3>1. g[i] = f[i] /\ g[i + 1] = f[i + 1] /\ s[i] = q[i] /\ i \in 1 .. m
      BY <1>3, <2>1, <2>2
    <3> QED
      BY <1>4, <3>1
  <2>3. CASE i = m
    <3>1. g[i] = f[i] /\ g[i + 1] = k[1] /\ s[i] = q[i] /\ i \in 1 .. m
      BY <1>3, <2>1, <2>3
    <3> QED
      BY <1>4, <2>3, <3>1
  <2>4. CASE i > m
    <3>1. i - m \in 1 .. n /\ (i + 1) - m = (i - m) + 1 /\ ~(i <= m) /\ ~(i + 1 <= m)
      BY <1>3, <2>1, <2>4
    <3>2. g[i] = k[i - m] /\ g[i + 1] = k[(i - m) + 1] /\ s[i] = r[i - m]
      BY <1>3, <2>1, <3>1
    <3> QED
      BY <1>4, <3>1, <3>2
  <2> QED
    BY <1>3, <2>1, <2>2, <2>3, <2>4
<1>7. Applying(g, s, from, to)
  <2> HIDE DEF g
  <2> QED
    BY <1>5, <1>6 DEF Applying
<1> QED
  BY <1>7 DEF Leads, s

\* Mutations that touch neither map.
LEMMA LeadsIdle ==
  ASSUME NEW S, NEW q \in Seq(S), NEW m, \A i \in DOMAIN q : MapsAfter(m, q[i]) = m
  PROVE  Leads(q, m, m)
<1> DEFINE f == [i \in 1 .. Len(q) + 1 |-> m]
<1>1. Len(q) \in Nat /\ DOMAIN q = 1 .. Len(q)
  OBVIOUS
<1>2. \A i \in 1 .. Len(q) + 1 : f[i] = m
  OBVIOUS
<1>3. DOMAIN f = 1 .. Len(q) + 1 /\ 1 \in 1 .. Len(q) + 1 /\ Len(q) + 1 \in 1 .. Len(q) + 1
  BY <1>1
<1>4. \A i \in 1 .. Len(q) : i \in 1 .. Len(q) + 1 /\ i + 1 \in 1 .. Len(q) + 1
  BY <1>1
<1>5. Applying(f, q, m, m)
  <2> HIDE DEF f
  <2> QED
    BY <1>1, <1>2, <1>3, <1>4 DEF Applying
<1> QED
  BY <1>5 DEF Leads

LEMMA LeadsNowhere ==
  ASSUME NEW from, NEW to, Leads(<<>>, from, to)
  PROVE  to = from
  BY DEF Leads, Applying

LEMMA ReadsTail ==
  ASSUME NEW S, NEW w \in Seq(S), w # <<>>, NEW from, NEW to, Reads(w, from, to)
  PROVE  /\ Sound(from) /\ Fits(from, Head(w)) /\ Sound(LinksAfter(from, Head(w)))
         /\ Reads(Tail(w), LinksAfter(from, Head(w)), to)
<1>1. PICK f : Reading(f, w, from, to)
  BY DEF Reads
<1>2. /\ Len(w) \in Nat /\ Len(w) > 0 /\ Head(w) = w[1]
      /\ Len(Tail(w)) = Len(w) - 1 /\ \A i \in 1 .. Len(w) - 1 : Tail(w)[i] = w[i + 1]
  OBVIOUS
<1> DEFINE g == [i \in 1 .. Len(w) |-> f[i + 1]]
           t == Tail(w)
<1>3. f[2] = LinksAfter(from, Head(w)) /\ Sound(from) /\ Sound(f[2]) /\ Fits(from, Head(w))
  BY <1>1, <1>2 DEF Reading
<1>4. DOMAIN g = 1 .. Len(t) + 1 /\ g[1] = f[2] /\ g[Len(t) + 1] = to
  BY <1>1, <1>2 DEF Reading
<1>5. ASSUME NEW i \in 1 .. Len(t)
      PROVE  Fits(g[i], t[i]) /\ g[i + 1] = LinksAfter(g[i], t[i])
  <2>1. i \in 1 .. Len(w) /\ i + 1 \in 1 .. Len(w) /\ t[i] = w[i + 1]
    BY <1>2
  <2>2. Fits(f[i + 1], w[i + 1]) /\ f[(i + 1) + 1] = LinksAfter(f[i + 1], w[i + 1])
    BY <1>1, <2>1 DEF Reading
  <2>3. g[i + 1] = f[(i + 1) + 1] /\ g[i] = f[i + 1]
    BY <2>1
  <2> QED
    BY <2>1, <2>2, <2>3
<1>6. ASSUME NEW i \in 1 .. Len(t) + 1 PROVE Sound(g[i])
  <2>1. i \in 1 .. Len(w) /\ i + 1 \in 1 .. Len(w) + 1
    BY <1>2
  <2>2. Sound(f[i + 1]) /\ g[i] = f[i + 1]
    BY <1>1, <2>1 DEF Reading
  <2> QED
    BY <2>2
<1>7. Reading(g, t, LinksAfter(from, Head(w)), to)
  <2> HIDE DEF g, t
  <2> QED
    BY <1>3, <1>4, <1>5, <1>6 DEF Reading
<1> QED
  BY <1>3, <1>7 DEF Reads

LEMMA ReadsAppend ==
  ASSUME NEW S, NEW w \in Seq(S), NEW p \in S, NEW from, NEW via, NEW to,
         Reads(w, from, via), Fits(via, p), to = LinksAfter(via, p), Sound(to)
  PROVE  Reads(Append(w, p), from, to)
<1>1. PICK f : Reading(f, w, from, via)
  BY DEF Reads
<1> DEFINE n == Len(w)
           s == Append(w, p)
           g == [i \in 1 .. n + 2 |-> IF i <= n + 1 THEN f[i] ELSE to]
<1>2. /\ n \in Nat /\ Len(s) = n + 1 /\ s[n + 1] = p
      /\ \A i \in 1 .. n : s[i] = w[i]
  OBVIOUS
<1> HIDE DEF n, s
<1>3. /\ f[1] = from /\ f[n + 1] = via /\ \A i \in 1 .. n + 1 : Sound(f[i])
      /\ \A i \in 1 .. n : Fits(f[i], w[i]) /\ f[i + 1] = LinksAfter(f[i], w[i])
  BY <1>1 DEF Reading, n
<1>4. /\ \A i \in 1 .. n + 1 : g[i] = f[i]
      /\ g[n + 2] = to /\ DOMAIN g = 1 .. n + 2
  BY <1>2
<1> HIDE DEF g
<1>5. (n + 1) + 1 = n + 2 /\ 1 \in 1 .. n + 1 /\ n + 1 \in 1 .. n + 1
  BY <1>2
<1>6. DOMAIN g = 1 .. Len(s) + 1 /\ g[1] = from /\ g[Len(s) + 1] = to
  BY <1>2, <1>3, <1>4, <1>5
<1>7. ASSUME NEW i \in 1 .. Len(s) + 1 PROVE Sound(g[i])
  <2>1. i \in 1 .. n + 1 \/ i = n + 2
    BY <1>2
  <2> QED
    BY <1>3, <1>4, <2>1
<1>8. ASSUME NEW i \in 1 .. Len(s) PROVE Fits(g[i], s[i]) /\ g[i + 1] = LinksAfter(g[i], s[i])
  <2>1. CASE i = n + 1
    BY <1>2, <1>3, <1>4, <1>5, <2>1
  <2>2. CASE i # n + 1
    <3>1. i \in 1 .. n /\ i \in 1 .. n + 1 /\ i + 1 \in 1 .. n + 1
      BY <1>2, <2>2
    <3> QED
      BY <1>2, <1>3, <1>4, <3>1
  <2> QED
    BY <2>1, <2>2
<1>9. Reading(g, s, from, to)
  BY <1>6, <1>7, <1>8 DEF Reading
<1> QED
  BY <1>9 DEF Reads, s

LEMMA ReadsNothing ==
  ASSUME NEW from, NEW to
  PROVE  Reads(<<>>, from, to) <=> to = from /\ Sound(from)
<1>1. ASSUME Reads(<<>>, from, to) PROVE to = from /\ Sound(from)
  BY <1>1 DEF Reads, Reading
<1>2. ASSUME to = from, Sound(from) PROVE Reads(<<>>, from, to)
  <2>1. Reading(<<from>>, <<>>, from, to)
    BY <1>2 DEF Reading
  <2> QED
    BY <2>1 DEF Reads
<1> QED
  BY <1>1, <1>2

\* A new key finds room as long as the map with it is within the capacity.
LEMMA PutRoom ==
  ASSUME NEW K, NEW map, DOMAIN map = K, NEW key \in K, NEW value, NEW null, NEW capacity \in Nat,
         map[key] = null,
         NEW E, E = {k \in K : map[k] # null} \cup {key},
         IsFiniteSet(E), Cardinality(E) <= capacity
  PROVE  Put(map, key, value, null, capacity) = [map EXCEPT ![key] = value]
<1> DEFINE D == {k \in K : map[k] # null}
<1>1. key \notin D /\ D = E \ {key} /\ key \in E
  OBVIOUS
<1>2. IsFiniteSet(E) /\ Cardinality(E) <= capacity
  OBVIOUS
<1>3. IsFiniteSet(D) /\ Cardinality(D) = Cardinality(E) - 1
  BY <1>1, <1>2, FS_RemoveElement
<1>4. Cardinality(E) \in Nat
  BY <1>2, FS_CardinalityType
<1>5. Cardinality(D) < capacity
  BY <1>2, <1>3, <1>4
<1> QED
  BY <1>5 DEF Put

\* A new link fits both maps, and leaves one the inverse of the other.
LEMMA LinkAdded ==
  ASSUME NEW links, NEW acl, NEW a \in Addr, NEW h \in Handle,
         Sound(links), Inverts(acl, links),
         links[a] = NoHandle, \A x \in Addr : links[x] # h,
         NEW more, more = [links EXCEPT ![a] = h], Sound(more)
  PROVE  /\ Put(links, a, h, NoHandle, MaxChannels) = more
         /\ Inverts(Put(acl, h, a, NoAddr, MaxAclConnections), more)
<1> DEFINE up == {x \in Addr : links[x] # NoHandle}
           moreUp == {x \in Addr : more[x] # NoHandle}
           used == {k \in Handle : acl[k] # NoAddr}
           moreUsed == used \cup {h}
<1>1. /\ links \in [Addr -> Handle \cup {NoHandle}]
      /\ acl \in [Handle -> Addr \cup {NoAddr}]
      /\ \A k \in Handle, x \in Addr : acl[k] = x <=> links[x] = k
      /\ NoHandle \notin Handle /\ NoAddr \notin Addr
      /\ MaxChannels \in Nat /\ MaxAclConnections \in Nat
  BY HostStateAssumption DEF Sound, LinkMap, Inverts
<1>2. /\ IsFiniteSet(moreUp)
      /\ Cardinality(moreUp) <= MaxAclConnections /\ Cardinality(moreUp) <= MaxChannels
  BY DEF Sound, Few
<1>3. moreUp = up \cup {a}
  BY <1>1
<1>4. Put(links, a, h, NoHandle, MaxChannels) = more
  <2> HIDE DEF moreUp
  <2>1. DOMAIN links = Addr
    BY <1>1
  <2>2. Put(links, a, h, NoHandle, MaxChannels) = [links EXCEPT ![a] = h]
    BY <1>1, <1>2, <1>3, <2>1, PutRoom
  <2> QED
    BY <2>2
<1>5. acl[h] = NoAddr
  BY <1>1
<1>6. IsFiniteSet(moreUsed) /\ Cardinality(moreUsed) <= Cardinality(moreUp)
  <2> DEFINE f == [x \in moreUp |-> more[x]]
  <2>1. ASSUME NEW x \in moreUp PROVE more[x] \in moreUsed
    <3>1. CASE x = a
      BY <1>1, <3>1
    <3>2. CASE x # a
      <4>1. more[x] = links[x] /\ links[x] \in Handle /\ acl[links[x]] = x
        BY <1>1, <3>2
      <4> QED
        BY <1>1, <4>1
    <3> QED
      BY <3>1, <3>2
  <2>2. ASSUME NEW k \in moreUsed PROVE \E x \in moreUp : more[x] = k
    <3>1. CASE k = h
      BY <1>1, <3>1
    <3>2. CASE k # h
      <4>1. acl[k] \in Addr /\ links[acl[k]] = k /\ acl[k] # a
        BY <1>1, <3>2
      <4>2. more[acl[k]] = k
        BY <1>1, <4>1
      <4> QED
        BY <1>1, <3>2, <4>1, <4>2
    <3> QED
      BY <3>1, <3>2
  <2>3. f \in Surjection(moreUp, moreUsed)
    <3>1. f \in [moreUp -> moreUsed]
      BY <2>1
    <3>2. \A k \in moreUsed : \E x \in moreUp : f[x] = k
      BY <2>2
    <3> HIDE DEF f, moreUp, moreUsed
    <3> QED
      BY <3>1, <3>2 DEF Surjection
  <2> HIDE DEF f, moreUp, moreUsed
  <2> QED
    BY <1>2, <2>3, FS_Surjection
<1>7. Cardinality(moreUsed) <= MaxAclConnections
  <2>1. Cardinality(moreUsed) \in Nat /\ Cardinality(moreUp) \in Nat
    BY <1>2, <1>6, FS_CardinalityType
  <2> HIDE DEF moreUsed, moreUp
  <2> QED
    BY <1>1, <1>2, <1>6, <2>1
<1>8. Put(acl, h, a, NoAddr, MaxAclConnections) = [acl EXCEPT ![h] = a]
  <2>1. DOMAIN acl = Handle /\ moreUsed = {k \in Handle : acl[k] # NoAddr} \cup {h}
    BY <1>1
  <2> HIDE DEF moreUsed, used
  <2>2. MaxAclConnections \in Nat /\ IsFiniteSet(moreUsed)
    BY <1>1, <1>6
  <2> QED
    BY ONLY <1>5, <1>7, <2>1, <2>2, PutRoom
<1>9. Inverts([acl EXCEPT ![h] = a], more)
  <2>1. [acl EXCEPT ![h] = a] \in [Handle -> Addr \cup {NoAddr}]
    BY <1>1
  <2>2. ASSUME NEW k \in Handle, NEW x \in Addr
        PROVE  [acl EXCEPT ![h] = a][k] = x <=> more[x] = k
    <3>1. more[x] = IF x = a THEN h ELSE links[x]
      BY <1>1
    <3>2. [acl EXCEPT ![h] = a][k] = IF k = h THEN a ELSE acl[k]
      BY <1>1
    <3>3. acl[k] = x <=> links[x] = k
      BY <1>1
    <3> QED
      BY <1>1, <3>1, <3>2, <3>3
  <2> QED
    BY <2>1, <2>2 DEF Inverts
<1> QED
  BY <1>4, <1>8, <1>9

LEMMA LinkRemoved ==
  ASSUME NEW links, NEW acl, NEW h \in Handle, Sound(links), Inverts(acl, links),
         NEW less, less = [a \in Addr |-> IF links[a] = h THEN NoHandle ELSE links[a]]
  PROVE  Inverts([acl EXCEPT ![h] = NoAddr], less)
<1>1. /\ acl \in [Handle -> Addr \cup {NoAddr}]
      /\ \A k \in Handle, x \in Addr : acl[k] = x <=> links[x] = k
      /\ NoHandle \notin Handle /\ NoAddr \notin Addr
  BY HostStateAssumption DEF Inverts
<1>2. [acl EXCEPT ![h] = NoAddr] \in [Handle -> Addr \cup {NoAddr}]
  BY <1>1
<1>3. ASSUME NEW k \in Handle, NEW x \in Addr
      PROVE  [acl EXCEPT ![h] = NoAddr][k] = x <=> less[x] = k
  BY <1>1
<1> QED
  BY <1>2, <1>3 DEF Inverts

\* The mutations of an event do to the maps what the event says of the links.
LEMMA BatchTracks ==
  ASSUME NEW e \in Packet, e.kind # "CommandAnswer", NEW links, NEW acl,
         Sound(links), Inverts(acl, links), Fits(links, e),
         NEW next, next = LinksAfter(links, e), Sound(next)
  PROVE  \E nextAcl : /\ Inverts(nextAcl, next)
                      /\ Leads(ProcessHciEvent(e), Maps(links, acl), Maps(next, nextAcl))
<1> DEFINE b == ProcessHciEvent(e)
           m == Maps(links, acl)
<1>1. b \in Seq(InternalCommand)
  BY BatchType
<1> HIDE DEF b
<1>2. \A c : c.op \notin TrackingOps \/ c = SetState("PoweredOn") => MapsAfter(m, c) = m
  BY DEF MapsAfter, Maps, TrackingOps, SetState
<1>3. CASE e.kind = "ConnectionComplete" /\ e.ok
  <2> DEFINE c1 == [op |-> "AddConnection", addr |-> e.addr, handle |-> e.handle]
             c2 == [op |-> "AddAclConnection", addr |-> e.addr, handle |-> e.handle]
             c4 == [op |-> "AuthenticationRequested", handle |-> e.handle]
             nextAcl == Put(acl, e.handle, e.addr, NoAddr, MaxAclConnections)
             m1 == Maps(next, acl)
             m2 == Maps(next, nextAcl)
  <2>1. b = <<c1, c2, SetState("Connected"), c4>>
    BY <1>3, BatchIs DEF b
  <2>2. e.addr \in Addr /\ e.handle \in Handle
    BY <1>3 DEF Packet, PairingKinds
  <2>3. /\ links[e.addr] = NoHandle /\ \A x \in Addr : links[x] # e.handle
        /\ next = [links EXCEPT ![e.addr] = e.handle]
    BY <1>3 DEF Fits, LinksAfter
  <2>4. Put(links, e.addr, e.handle, NoHandle, MaxChannels) = next /\ Inverts(nextAcl, next)
    BY <2>2, <2>3, LinkAdded
  <2> HIDE DEF nextAcl
  <2>5. MapsAfter(m, c1) = m1
    BY <2>4 DEF MapsAfter, Maps
  <2>6. MapsAfter(m1, c2) = m2
    BY DEF MapsAfter, Maps, nextAcl
  <2>7. MapsAfter(m2, SetState("Connected")) = m2 /\ MapsAfter(m2, c4) = m2
    BY DEF MapsAfter, Maps, SetState
  <2> HIDE DEF m, m1, m2, c1, c2, c4
  <2>8. Applying(<<m, m1, m2, m2, m2>>, b, m, m2)
    <3> DEFINE f == <<m, m1, m2, m2, m2>>
    <3>1. DOMAIN f = 1 .. 5 /\ f[1] = m /\ f[2] = m1 /\ f[3] = m2 /\ f[4] = m2 /\ f[5] = m2
      OBVIOUS
    <3>2. Len(b) = 4 /\ b[1] = c1 /\ b[2] = c2 /\ b[3] = SetState("Connected") /\ b[4] = c4
      BY <2>1
    <3>3. /\ f[2] = MapsAfter(f[1], b[1]) /\ f[3] = MapsAfter(f[2], b[2])
          /\ f[4] = MapsAfter(f[3], b[3]) /\ f[5] = MapsAfter(f[4], b[4])
      BY <2>5, <2>6, <2>7, <3>1, <3>2
    <3> HIDE DEF f
    <3>4. \A i \in 1 .. 4 : f[i + 1] = MapsAfter(f[i], b[i])
      <4>1. \A i \in 1 .. 4 : i = 1 \/ i = 2 \/ i = 3 \/ i = 4
        OBVIOUS
      <4> QED
        BY <3>3, <4>1
    <3>5. Applying(f, b, m, m2)
      BY <3>1, <3>2, <3>4 DEF Applying
    <3> QED
      BY <3>5 DEF f
  <2> QED
    BY <2>4, <2>8 DEF Leads, m, m2, b
<1>4. CASE e.kind = "DisconnectionComplete" /\ e.ok
  <2> DEFINE c1 == [op |-> "RemoveConnection", handle |-> e.handle]
             c2 == [op |-> "RemoveAclConnection", handle |-> e.handle]
             nextAcl == [acl EXCEPT ![e.handle] = NoAddr]
             m1 == Maps(next, acl)
             m2 == Maps(next, nextAcl)
  <2>1. b = <<c1, c2, SetState("PoweredOn")>>
    BY <1>4, BatchIs DEF b
  <2>2. e.handle \in Handle
    BY <1>4 DEF Packet, PairingKinds
  <2>3. next = [a \in Addr |-> IF links[a] = e.handle THEN NoHandle ELSE links[a]]
    BY <1>4 DEF LinksAfter
  <2>4. Inverts(nextAcl, next)
    BY <2>2, <2>3, LinkRemoved
  <2> HIDE DEF nextAcl
  <2>5. MapsAfter(m, c1) = m1
    BY <2>3 DEF MapsAfter, Maps
  <2>6. MapsAfter(m1, c2) = m2
    BY DEF MapsAfter, Maps, nextAcl
  <2>7. MapsAfter(m2, SetState("PoweredOn")) = m2
    BY DEF MapsAfter, Maps, SetState
  <2> HIDE DEF m, m1, m2, c1, c2
  <2>8. Applying(<<m, m1, m2, m2>>, b, m, m2)
    <3> DEFINE f == <<m, m1, m2, m2>>
    <3>1. DOMAIN f = 1 .. 4 /\ f[1] = m /\ f[2] = m1 /\ f[3] = m2 /\ f[4] = m2
      OBVIOUS
    <3>2. Len(b) = 3 /\ b[1] = c1 /\ b[2] = c2 /\ b[3] = SetState("PoweredOn")
      BY <2>1
    <3>3. /\ f[2] = MapsAfter(f[1], b[1]) /\ f[3] = MapsAfter(f[2], b[2])
          /\ f[4] = MapsAfter(f[3], b[3])
      BY <2>5, <2>6, <2>7, <3>1, <3>2
    <3> HIDE DEF f
    <3>4. \A i \in 1 .. 3 : f[i + 1] = MapsAfter(f[i], b[i])
      <4>1. \A i \in 1 .. 3 : i = 1 \/ i = 2 \/ i = 3
        OBVIOUS
      <4> QED
        BY <3>3, <4>1
    <3>5. Applying(f, b, m, m2)
      BY <3>1, <3>2, <3>4 DEF Applying
    <3> QED
      BY <3>5 DEF f
  <2> QED
    BY <2>4, <2>8 DEF Leads, m, m2, b
<1>5. ASSUME next = links, \A i \in DOMAIN b : b[i].op \notin TrackingOps
                                              \/ b[i] = SetState("PoweredOn")
      PROVE  \E nextAcl : Inverts(nextAcl, next) /\ Leads(b, m, Maps(next, nextAcl))
  <2>1. \A i \in DOMAIN b : MapsAfter(m, b[i]) = m
    BY <1>2, <1>5
  <2> HIDE DEF m
  <2>2. Leads(b, m, m)
    BY <1>1, <2>1, LeadsIdle
  <2> QED
    BY <1>5, <2>2 DEF m
<1>6. CASE e.kind = "ConnectionComplete" /\ ~e.ok
  <2>1. b = <<SetState("PoweredOn")>> /\ next = links
    BY <1>6, BatchIs DEF b, LinksAfter
  <2>2. \A i \in DOMAIN b : b[i] = SetState("PoweredOn")
    BY <2>1
  <2> QED
    BY <1>5, <2>1, <2>2 DEF b
<1>7. CASE e.kind = "DisconnectionComplete" /\ ~e.ok
  <2>1. b = <<>> /\ next = links
    BY <1>7, BatchIs DEF b, LinksAfter
  <2> QED
    BY <1>5, <2>1 DEF b
<1>8. CASE e.kind = "InquiryComplete"
  <2>1. b = (IF e.ok
             THEN <<[op |-> "SetDiscovering", on |-> FALSE], SetState("PoweredOn")>>
             ELSE <<[op |-> "SetDiscovering", on |-> FALSE]>>)
        /\ next = links
    BY <1>8, BatchIs DEF b, LinksAfter
  <2>2. \A i \in DOMAIN b : b[i] = [op |-> "SetDiscovering", on |-> FALSE]
                            \/ b[i] = SetState("PoweredOn")
    <3> DEFINE c1 == [op |-> "SetDiscovering", on |-> FALSE]
               c2 == SetState("PoweredOn")
    <3>1. b = <<c1, c2>> \/ b = <<c1>>
      BY <2>1
    <3> HIDE DEF c1, c2
    <3>2. \A i \in DOMAIN b : b[i] = c1 \/ b[i] = c2
      BY <3>1
    <3> QED
      BY <3>2 DEF c1, c2
  <2>3. MapsAfter(m, [op |-> "SetDiscovering", on |-> FALSE]) = m
    BY DEF MapsAfter, Maps
  <2>4. \A i \in DOMAIN b : MapsAfter(m, b[i]) = m
    BY <1>2, <2>2, <2>3
  <2> HIDE DEF m
  <2>5. Leads(b, m, m)
    BY <1>1, <2>4, LeadsIdle
  <2> QED
    BY <2>1, <2>5 DEF m, b
<1>9. CASE e.kind \notin {"InquiryComplete", "ConnectionComplete", "DisconnectionComplete"}
  <2>1. next = links
    BY <1>9 DEF LinksAfter
  <2>2. \A i \in DOMAIN b : b[i].op \in TrackingOps => b[i] = SetState("PoweredOn")
    BY <1>9, BatchIs DEF b
  <2> QED
    BY <1>5, <2>1, <2>2 DEF b
<1> QED
  BY <1>3, <1>4, <1>6, <1>7, <1>8, <1>9

LEMMA LinksInit == Init => LinksInv
<1> SUFFICES ASSUME Init PROVE LinksInv
  OBVIOUS
<1> DEFINE none == [a \in Addr |-> NoHandle]
           noAcl == [h \in Handle |-> NoAddr]
<1>1. /\ Unapplied = <<>> /\ wire = <<>> /\ ctl.links = none /\ ctl.paging = {}
      /\ host.connections = none /\ host.acl = noAcl
  BY ConcatEmptySeq, EmptySeq DEF Init, InitController, InitHost, Unapplied
<1>2. Inverts(noAcl, none)
  BY HostStateAssumption DEF Inverts
<1>3. Sound(none)
  <2>1. {a \in Addr : none[a] # NoHandle} = {}
    OBVIOUS
  <2>2. Few(none)
    BY <2>1, FS_EmptySet, HostStateAssumption DEF Few
  <2> QED
    BY <2>2 DEF Sound, LinkMap
<1> HIDE DEF none, noAcl
<1>4. Reads(<<>>, none, none)
  BY <1>3, ReadsNothing
<1>5. Applying(<<Maps(none, noAcl)>>, <<>>, Maps(none, noAcl), Maps(none, noAcl))
  BY DEF Applying
<1>6. Leads(<<>>, Maps(none, noAcl), Maps(none, noAcl))
  BY <1>5 DEF Leads
<1>7. Base /\ ctl.paging \cap Linked = {}
  BY <1>1, BaseInit
<1> QED
  BY <1>1, <1>2, <1>4, <1>6, <1>7 DEF LinksInv

\* What the controller writes says what became of its links.
LEMMA LinksWritten ==
  ASSUME LinksInv, UNCHANGED <<host, Unapplied>>,
         NEW p \in Packet, wire' = Append(wire, p),
         Fits(ctl.links, p), ctl'.links = LinksAfter(ctl.links, p), Sound(ctl'.links)
  PROVE  \E links, acl :
           /\ Leads(Unapplied', Maps(host'.connections, host'.acl), Maps(links, acl))
           /\ Inverts(acl, links)
           /\ Reads(wire', links, ctl'.links)
<1>1. PICK links, acl : /\ Leads(Unapplied, Maps(host.connections, host.acl), Maps(links, acl))
                        /\ Inverts(acl, links)
                        /\ Reads(wire, links, ctl.links)
  BY DEF LinksInv
<1>2. wire \in Seq(Packet)
  BY DEF LinksInv, Base, RefInv, IndType, TypeOK
<1>3. Reads(wire', links, ctl'.links)
  BY <1>1, <1>2, ReadsAppend
<1> QED
  BY <1>1, <1>3

LEMMA ReadsSound ==
  ASSUME NEW w \in Seq(Packet), NEW from, NEW to, Reads(w, from, to)
  PROVE  Sound(to)
<1>1. PICK g : Reading(g, w, from, to)
  BY DEF Reads
<1>2. Len(w) + 1 \in 1 .. Len(w) + 1
  OBVIOUS
<1> QED
  BY <1>1, <1>2 DEF Reading

LEMMA LinksNext == LinksInv /\ [Next]_vars /\ FewLinks' => LinksInv'
<1> SUFFICES ASSUME LinksInv, [Next]_vars, FewLinks'
             PROVE  /\ ctl'.paging \cap Linked' = {}
                    /\ \E links, acl :
                         /\ Leads(Unapplied', Maps(host'.connections, host'.acl), Maps(links, acl))
                         /\ Inverts(acl, links)
                         /\ Reads(wire', links, ctl'.links)
  BY BaseNext DEF LinksInv
<1>1. TrackedStep /\ Base /\ ctl.paging \cap Linked = {}
  BY StepIs DEF LinksInv
<1>2. /\ IndType /\ host \in Host /\ ctl \in ControllerState /\ wire \in Seq(Packet)
      /\ ctl.links \in [Addr -> Handle \cup {NoHandle}] /\ ctl.paging \subseteq Addr
      /\ Unapplied \in Seq(InternalCommand)
  BY UnappliedType DEF LinksInv, Base, RefInv, IndType, TypeOK, ControllerState
<1>3. PICK links, acl : /\ Leads(Unapplied, Maps(host.connections, host.acl), Maps(links, acl))
                        /\ Inverts(acl, links)
                        /\ Reads(wire, links, ctl.links)
  BY DEF LinksInv
<1>4. Sound(ctl.links)
  BY <1>2, <1>3, ReadsSound
<1>5. ctl' = ctl => ctl'.paging \cap Linked' = {}
  BY <1>1 DEF Linked
<1>6. CASE ReadEvent
  <2> DEFINE e == Head(wire)
             next == LinksAfter(links, e)
  <2>1. /\ wire # <<>> /\ wire' = Tail(wire) /\ e.kind # "CommandAnswer" /\ e \in Packet
        /\ Unapplied' = Unapplied \o ProcessHciEvent(e)
        /\ UNCHANGED <<host, ctl>>
    BY <1>2, <1>6 DEF ReadEvent
  <2>2. /\ Sound(links) /\ Fits(links, e) /\ Sound(next)
        /\ Reads(wire', next, ctl.links)
    BY <1>2, <1>3, <2>1, ReadsTail
  <2> HIDE DEF e, next
  <2>3. PICK nextAcl : /\ Inverts(nextAcl, next)
                       /\ Leads(ProcessHciEvent(e), Maps(links, acl), Maps(next, nextAcl))
    BY <1>3, <2>1, <2>2, BatchTracks DEF next
  <2>4. ProcessHciEvent(e) \in Seq(InternalCommand)
    BY <2>1, BatchType
  <2>5. Leads(Unapplied', Maps(host.connections, host.acl), Maps(next, nextAcl))
    BY <1>2, <1>3, <2>1, <2>3, <2>4, LeadsConcat
  <2> QED
    BY <1>5, <2>1, <2>2, <2>3, <2>5
<1>7. CASE ReadAnswer
  <2>1. /\ wire # <<>> /\ wire' = Tail(wire) /\ Head(wire).kind = "CommandAnswer"
        /\ UNCHANGED <<host, ctl, Unapplied>>
    BY <1>7 DEF ReadAnswer
  <2>2. LinksAfter(links, Head(wire)) = links
    BY <2>1 DEF LinksAfter
  <2>3. Reads(wire', links, ctl.links)
    BY <1>2, <1>3, <2>1, <2>2, ReadsTail
  <2> QED
    BY <1>3, <1>5, <2>1, <2>3
<1>8. CASE ApplyFirst
  <2> DEFINE c == Head(Unapplied)
             m == Maps(host.connections, host.acl)
  <2>1. /\ Unapplied # <<>> /\ Unapplied' = Tail(Unapplied) /\ host' = Apply(host, c)
        /\ UNCHANGED <<wire, ctl>>
    BY <1>8 DEF ApplyFirst
  <2>2. c \in InternalCommand
    BY <1>2, <2>1
  <2>3. Leads(Unapplied', MapsAfter(m, c), Maps(links, acl))
    BY <1>2, <1>3, <2>1, LeadsTail
  <2>4. MapsAfter(m, c) = Maps(host'.connections, host'.acl)
    <3>1. /\ host'.connections =
               CASE c.op = "AddConnection" ->
                      Put(host.connections, c.addr, c.handle, NoHandle, MaxChannels)
                 [] c.op = "RemoveConnection" ->
                      [a \in Addr |-> IF host.connections[a] = c.handle THEN NoHandle
                                                                 ELSE host.connections[a]]
                 [] OTHER -> host.connections
          /\ host'.acl =
               CASE c.op = "AddAclConnection" ->
                      Put(host.acl, c.handle, c.addr, NoAddr, MaxAclConnections)
                 [] c.op = "RemoveAclConnection" -> [host.acl EXCEPT ![c.handle] = NoAddr]
                 [] OTHER -> host.acl
      BY <1>2, <2>1, <2>2, AppliedIs
    <3> HIDE DEF c
    <3> QED
      BY <3>1 DEF MapsAfter, Maps
  <2> QED
    BY <1>3, <1>5, <2>1, <2>3, <2>4
<1>9. ASSUME UNCHANGED <<wire, ctl, Unapplied>>,
             host'.connections = host.connections, host'.acl = host.acl
      PROVE  /\ ctl'.paging \cap Linked' = {}
             /\ \E l, m : /\ Leads(Unapplied', Maps(host'.connections, host'.acl), Maps(l, m))
                          /\ Inverts(m, l)
                          /\ Reads(wire', l, ctl'.links)
  BY <1>3, <1>5, <1>9
<1>10. CASE FinishBoot
  <2>1. host'.connections = host.connections /\ host'.acl = host.acl
    BY <1>2, <1>10 DEF FinishBoot, Host
  <2> QED
    BY <1>9, <1>10, <2>1 DEF FinishBoot
<1>11. CASE ServeAccepted
  <2>1. host'.connections = host.connections /\ host'.acl = host.acl
    BY <1>2, <1>11 DEF ServeAccepted, Served, Host
  <2> QED
    BY <1>9, <1>11, <2>1 DEF ServeAccepted
<1>12. CASE Quiet
  BY <1>9, <1>12 DEF Quiet
<1>13. CASE AcceptRequest
  <2>1. PICK r \in Request :
          /\ HciFor(host, r) # NoHci /\ ~Disallowed(HciFor(host, r))
          /\ ctl' = Started(HciFor(host, r))
    BY <1>13 DEF AcceptRequest
  <2> DEFINE p == AnswerPacket(TRUE)
             c == HciFor(host, r)
  <2>2. p \in Packet /\ p.kind = "CommandAnswer"
    BY DEF AnswerPacket, Packet
  <2>3. ctl'.links = ctl.links
    BY <1>2, <2>1 DEF Started, ControllerState
  <2>4. /\ ctl'.paging = IF c.op = "CreateConnection" THEN ctl.paging \cup {c.addr} ELSE ctl.paging
        /\ c.op = "CreateConnection" => c.addr \notin Linked
    <3> HIDE DEF c
    <3>1. ctl'.paging = IF c.op = "CreateConnection" THEN ctl.paging \cup {c.addr} ELSE ctl.paging
      BY <1>2, <2>1 DEF Started, ControllerState, c
    <3>2. c.op = "CreateConnection" => c.addr \notin Linked
      BY <2>1 DEF Disallowed, c
    <3> QED
      BY <3>1, <3>2
  <2>5. ctl'.paging \cap Linked' = {}
    <3>1. Linked' = Linked
      BY <2>3 DEF Linked
    <3> QED
      BY <1>1, <2>4, <3>1
  <2>6. wire' = Append(wire, p) /\ UNCHANGED <<host, Unapplied>>
    BY <1>13 DEF AcceptRequest
  <2> HIDE DEF p
  <2>7. Fits(ctl.links, p) /\ LinksAfter(ctl.links, p) = ctl.links
    BY <2>2 DEF Fits, LinksAfter
  <2> QED
    BY <1>4, <2>2, <2>3, <2>5, <2>6, <2>7, LinksWritten
<1>14. CASE AnswerOther
  <2>1. PICK ok \in BOOLEAN : wire' = Append(wire, AnswerPacket(ok))
    BY <1>14 DEF AnswerOther
  <2> DEFINE p == AnswerPacket(ok)
  <2>2. p \in Packet /\ p.kind = "CommandAnswer"
    BY DEF AnswerPacket, Packet
  <2>3. /\ ctl'.links = ctl.links /\ ctl'.paging = ctl.paging
        /\ UNCHANGED <<host, Unapplied>> /\ wire' = Append(wire, p)
    BY <1>14, <2>1 DEF AnswerOther
  <2> HIDE DEF p
  <2>4. Fits(ctl.links, p) /\ LinksAfter(ctl.links, p) = ctl.links
    BY <2>2 DEF Fits, LinksAfter
  <2>5. ctl'.paging \cap Linked' = {}
    BY <1>1, <2>3 DEF Linked
  <2> QED
    BY <1>4, <2>2, <2>3, <2>4, <2>5, LinksWritten
<1>15. CASE EmitOne
  <2>1. PICK p : Emitted(p)
    BY <1>1, <1>15, EmittedIs DEF EmitOne
  <2>2. p \in Packet /\ wire' = Append(wire, p) /\ UNCHANGED <<host, Unapplied>>
    BY <1>15, <2>1 DEF Emitted, EmitOne
  <2>3. \A a, b \in Addr : ctl.links[a] = ctl.links[b] /\ ctl.links[a] # NoHandle => a = b
    BY <1>4 DEF Sound
  <2>4. /\ Fits(ctl.links, p) /\ ctl'.links = LinksAfter(ctl.links, p)
        /\ ctl'.links \in LinkMap
        /\ \A a, b \in Addr : ctl'.links[a] = ctl'.links[b] /\ ctl'.links[a] # NoHandle => a = b
        /\ ctl'.paging \cap Linked' = {}
    <3>1. CASE p.kind = "ConnectionComplete"
      <4>1. /\ p.addr \in ctl.paging /\ p.addr \in Addr /\ p.handle \in Handle
            /\ p.handle # NoHandle
            /\ \A a \in Addr : ctl.links[a] # p.handle
            /\ ctl'.paging = ctl.paging \ {p.addr}
            /\ ctl'.links = IF p.ok THEN [ctl.links EXCEPT ![p.addr] = p.handle] ELSE ctl.links
        <5>1. /\ p.addr \in ctl.paging /\ ~HandleInUse(p.handle)
              /\ ctl'.paging = ctl.paging \ {p.addr}
              /\ ctl'.links = IF p.ok THEN [ctl.links EXCEPT ![p.addr] = p.handle] ELSE ctl.links
          BY <2>1, <3>1 DEF Emitted
        <5>2. p.addr \in Addr /\ p.handle \in Handle /\ p.handle # NoHandle
          BY <2>2, <3>1, HostStateAssumption DEF Packet, PairingKinds
        <5> QED
          BY <5>1, <5>2 DEF HandleInUse
      <4>2. ctl.links[p.addr] = NoHandle
        BY <1>1, <4>1 DEF Linked
      <4>3. Fits(ctl.links, p) /\ ctl'.links = LinksAfter(ctl.links, p)
        BY <3>1, <4>1, <4>2 DEF Fits, LinksAfter
      <4>4. ctl'.links \in LinkMap
        BY <1>2, <4>1 DEF LinkMap
      <4>5. \A a, b \in Addr : ctl'.links[a] = ctl'.links[b] /\ ctl'.links[a] # NoHandle => a = b
        BY <1>2, <2>3, <4>1
      <4>6. ctl'.paging \cap Linked' = {}
        BY <1>1, <1>2, <4>1 DEF Linked
      <4> QED
        BY <4>3, <4>4, <4>5, <4>6
    <3>2. CASE p.kind = "DisconnectionComplete"
      <4>1. PICK a \in Linked :
              /\ ctl.links[a] = p.handle
              /\ ctl'.links = IF p.ok THEN [ctl.links EXCEPT ![a] = NoHandle] ELSE ctl.links
        BY <2>1, <3>2 DEF Emitted
      <4>2. ctl'.paging = ctl.paging
        BY <2>1, <3>2 DEF Emitted
      <4>3. a \in Addr /\ \A x \in Addr : ctl.links[x] = p.handle <=> x = a
        BY <2>3, <4>1 DEF Linked
      <4>4. [ctl.links EXCEPT ![a] = NoHandle]
              = [x \in Addr |-> IF ctl.links[x] = p.handle THEN NoHandle ELSE ctl.links[x]]
        BY <1>2, <4>3
      <4>5. Fits(ctl.links, p) /\ ctl'.links = LinksAfter(ctl.links, p)
        BY <3>2, <4>1, <4>4 DEF Fits, LinksAfter
      <4>6. /\ ctl'.links \in LinkMap
            /\ \A x \in Addr : ctl'.links[x] \in {NoHandle, ctl.links[x]}
        BY <1>2, <4>1, <4>3 DEF LinkMap
      <4>7. \A x, y \in Addr : ctl'.links[x] = ctl'.links[y] /\ ctl'.links[x] # NoHandle => x = y
        BY <2>3, <4>6
      <4>8. ctl'.paging \cap Linked' = {}
        BY <1>1, <4>2, <4>6 DEF Linked
      <4> QED
        BY <4>5, <4>6, <4>7, <4>8
    <3>3. CASE p.kind \notin {"ConnectionComplete", "DisconnectionComplete"}
      <4>1. ctl'.links = ctl.links /\ ctl'.paging = ctl.paging
        BY <2>1, <3>3 DEF Emitted
      <4>2. Fits(ctl.links, p) /\ LinksAfter(ctl.links, p) = ctl.links
        BY <3>3 DEF Fits, LinksAfter
      <4>3. ctl'.paging \cap Linked' = {}
        BY <1>1, <4>1 DEF Linked
      <4> QED
        BY <1>2, <2>3, <4>1, <4>2, <4>3 DEF LinkMap
    <3> QED
      BY <3>1, <3>2, <3>3
  <2>5. Sound(ctl'.links)
    <3>1. Few(ctl'.links)
      BY DEF FewLinks
    <3> QED
      BY <2>4, <3>1 DEF Sound
  <2> QED
    BY <2>2, <2>4, <2>5, LinksWritten
<1> QED
  BY <1>1, <1>6, <1>7, <1>8, <1>10, <1>11, <1>12, <1>13, <1>14, <1>15 DEF TrackedStep

\* As long as the controller never has more links than either map can hold,
\* the connection map is the links of the controller and the ACL map is its
\* inverse, once all is quiet: whatever links came and went meanwhile, on
\* whatever handles.
THEOREM LinksTracked == Spec /\ []FewLinks => []ConnectionsTracked
<1>1. Init => LinksInv
  BY LinksInit
<1>2. LinksInv /\ [Next]_vars /\ FewLinks' => LinksInv'
  BY LinksNext
<1>3. LinksInv => ConnectionsTracked
  <2> SUFFICES ASSUME LinksInv, Settled
               PROVE  /\ host.connections = ctl.links
                      /\ \A h \in Handle, a \in Addr : host.acl[h] = a <=> ctl.links[a] = h
    BY DEF ConnectionsTracked
  <2>1. Unapplied = <<>> /\ wire = <<>>
    BY SettledIs DEF LinksInv
  <2>2. PICK links, acl : /\ Leads(<<>>, Maps(host.connections, host.acl), Maps(links, acl))
                          /\ Inverts(acl, links)
                          /\ Reads(<<>>, links, ctl.links)
    BY <2>1 DEF LinksInv
  <2>3. Maps(links, acl) = Maps(host.connections, host.acl) /\ ctl.links = links
    BY <2>2, LeadsNowhere, ReadsNothing
  <2>4. links = host.connections /\ acl = host.acl
    BY <2>3 DEF Maps
  <2> QED
    BY <2>2, <2>3, <2>4 DEF Inverts
<1> QED
  BY <1>1, <1>2, <1>3, PTL DEF Spec
=============================================================================
