------------------------------ MODULE HostTasks ------------------------------
(***************************************************************************)
(* The three tasks of processor.rs, the channels and the mutex between     *)
(* them, the clients of the API and the HCI controller.                    *)
(*                                                                         *)
(*   hci  hci_event_processor: reads a packet, turns an event into a batch *)
(*        of internal commands, sends them one by one                      *)
(*   api  api_request_processor: initializes the controller, then serves   *)
(*        requests, holding the host mutex across controller.exec          *)
(*   cmd  internal_command_processor: applies internal commands, holding   *)
(*        the mutex, across controller.exec too                            *)
(*                                                                         *)
(* The answer to exec is delivered by controller.read, that is by hci.     *)
(*                                                                         *)
(* One action is one await segment of a task.  `run` joins the tasks with  *)
(* select3, so a single executor task polls hci, api, cmd in this order    *)
(* and a polled task runs on until it awaits something that is not ready:  *)
(* Polled(t) is the condition for t to be the task that runs.              *)
(***************************************************************************)
EXTENDS HciController, Integers

CONSTANTS
  Client,         \* callers of the public API, each awaiting one call at a time
  Requests,       \* the requests they make
  MaxRequests,    \* bound: requests a client makes in a behaviour
  Impatient,      \* clients that may drop a pending call (a timeout, a select)
  MaxBatch        \* capacity of the command vector of one event, 8

ASSUME HostTasksAssumption ==
  /\ Requests \subseteq Request
  /\ Impatient \subseteq Client
  /\ MaxRequests \in Nat
  /\ MaxBatch \in Nat \ {0}

VARIABLES
  host,       \* the BluetoothHost record behind the mutex
  lock,       \* holder of the mutex: "free", "api" or "cmd"
  turn,       \* the task that ran last
  batch,      \* hci: commands of the last event that are still to be sent
  apiPc,      \* api: "boot", "init", "recv", "lock", "exec", "respond"
  apiStep,    \* api: index of the command of InitSequence being executed
  apiReq,     \* api: the call being served, or NoCall
  apiResp,    \* api: the response to be sent, or NoResponse
  cmdPc,      \* cmd: "recv", "lock", "exec"
  cmdCur,     \* cmd: the command being applied, or NoCommand
  reply,      \* the answer delivered to the waiting exec: "none", "ok", "err"
  requests,   \* REQUEST_CHANNEL
  responses,  \* RESPONSE_CHANNEL
  commands,   \* INTERNAL_COMMAND_CHANNEL
  clients     \* per client: where it is in its call, the call, calls left

taskVars == <<lock, turn, batch, apiPc, apiStep, apiReq, apiResp, cmdPc, cmdCur, reply>>
vars == <<host, taskVars, requests, responses, commands, clients, ctlVars>>

NoCall == [op |-> "None"]
NoResponse == [tag |-> "None"]
NoCommand == [op |-> "None"]

\* A call is a request and the client that made it.  The program has no such
\* tag: it is carried along only so that properties can tell whose answer is
\* whose.
Call == [from : Client, req : Requests]
Response == [tag : ResponseTag, to : Call]

-----------------------------------------------------------------------------
(* process_hci_event: the internal commands of an event, in order.         *)

SetState(s) == [op |-> "SetState", state |-> s]
Upsert(a) == [op |-> "UpsertDevice", addr |-> a]

\* Mutant: a failed inquiry does not clear `discovering`.
ProcessHciEventKeepsDiscovering(e) ==
  CASE e.kind = "InquiryComplete" ->
         IF e.ok
         THEN <<[op |-> "SetDiscovering", on |-> FALSE], SetState("PoweredOn")>>
         ELSE <<SetState("PoweredOn")>>
    [] e.kind = "InquiryResult" -> [i \in DOMAIN e.found |-> Upsert(e.found[i])]
    [] OTHER -> <<>>

\* Mutant: the end of a link leaves its entry in the ACL map.
ProcessHciEventKeepsAcl(e) ==
  CASE e.kind = "ConnectionComplete" /\ e.ok ->
         <<[op |-> "AddConnection", addr |-> e.addr, handle |-> e.handle],
           [op |-> "AddAclConnection", addr |-> e.addr, handle |-> e.handle],
           SetState("Connected"),
           [op |-> "AuthenticationRequested", handle |-> e.handle]>>
    [] e.kind = "DisconnectionComplete" /\ e.ok ->
         <<[op |-> "RemoveConnection", handle |-> e.handle], SetState("PoweredOn")>>
    [] OTHER -> <<SetState("PoweredOn")>>

ProcessHciEvent(e) ==
  CASE e.kind = "InquiryResult" ->
         SubSeq([i \in DOMAIN e.found |-> Upsert(e.found[i])], 1,
                IF Len(e.found) < MaxBatch THEN Len(e.found) ELSE MaxBatch)
    [] e.kind = "ExtendedInquiryResult" -> <<Upsert(e.addr)>>
    [] e.kind = "InquiryComplete" ->
         IF e.ok
         THEN <<[op |-> "SetDiscovering", on |-> FALSE], SetState("PoweredOn")>>
         ELSE <<[op |-> "SetDiscovering", on |-> FALSE]>>
    [] e.kind = "ConnectionComplete" ->
         IF e.ok
         THEN <<[op |-> "AddConnection", addr |-> e.addr, handle |-> e.handle],
                [op |-> "AddAclConnection", addr |-> e.addr, handle |-> e.handle],
                SetState("Connected"),
                [op |-> "AuthenticationRequested", handle |-> e.handle]>>
         ELSE <<SetState("PoweredOn")>>
    [] e.kind = "DisconnectionComplete" ->
         IF e.ok
         THEN <<[op |-> "RemoveConnection", handle |-> e.handle],
                [op |-> "RemoveAclConnection", handle |-> e.handle],
                SetState("PoweredOn")>>
         ELSE <<>>
    [] e.kind = "RemoteNameRequestComplete" ->
         IF e.ok THEN <<[op |-> "UpdateDeviceName", addr |-> e.addr, utf8 |-> e.utf8]>>
                 ELSE <<>>
    [] e.kind = "AuthenticationComplete" -> <<SetState("PoweredOn")>>
    [] e.kind = "PinCodeRequest" -> <<[op |-> "PinCodeRequestReply", addr |-> e.addr]>>
    [] e.kind = "LinkKeyRequest" ->
         <<[op |-> "LinkKeyRequestNegativeReply", addr |-> e.addr]>>
    [] e.kind = "IoCapabilityRequest" ->
         <<[op |-> "IoCapabilityRequestReply", addr |-> e.addr]>>
    [] e.kind = "UserConfirmationRequest" ->
         <<[op |-> "UserConfirmationRequestReply", addr |-> e.addr]>>
    [] e.kind = "LinkKeyNotification" -> <<[op |-> "StoreLinkKey", addr |-> e.addr]>>
    [] e.kind = "Acl" -> <<[op |-> "ProcessAclData", handle |-> e.handle]>>

-----------------------------------------------------------------------------
(* The executor.                                                           *)

Task == {"hci", "api", "cmd"}
After == [hci |-> "api", api |-> "cmd", cmd |-> "hci"]

\* What a task awaits is there.
Ready(t) ==
  CASE t = "hci" -> IF batch = <<>> THEN wire # <<>> ELSE Len(commands) < MaxChannels
    [] t = "api" -> \/ apiPc \in {"boot", "lock"} /\ lock = "free"
                    \/ apiPc \in {"init", "exec"} /\ reply # "none"
                    \/ apiPc = "recv" /\ requests # <<>>
                    \/ apiPc = "respond" /\ Len(responses) < MaxChannels
    [] t = "cmd" -> \/ cmdPc = "lock" /\ lock = "free"
                    \/ cmdPc = "exec" /\ reply # "none"
                    \/ cmdPc = "recv" /\ commands # <<>>

\* t keeps the processor, or every task polled since the last to run is blocked.
Polled(t) ==
  /\ \/ turn = t
     \/ ~Ready(turn) /\ (After[turn] = t \/ ~Ready(After[turn]))
  /\ turn' = t

-----------------------------------------------------------------------------
(* hci_event_processor                                                     *)

\* controller.read: an answer goes to the waiting exec and the read goes on;
\* an event is translated.
HciRead ==
  /\ batch = <<>>
  /\ wire # <<>>
  /\ Polled("hci")
  /\ wire' = Tail(wire)
  /\ LET packet == Head(wire) IN
       IF packet.kind = "CommandAnswer"
       THEN /\ reply' = IF packet.ok THEN "ok" ELSE "err"
            /\ UNCHANGED batch
       ELSE /\ batch' = ProcessHciEvent(packet)
            /\ UNCHANGED reply
  /\ UNCHANGED <<host, lock, apiPc, apiStep, apiReq, apiResp, cmdPc, cmdCur,
                 requests, responses, commands, clients, ctl, sent>>

\* Mutant: the send does not wait for room.
HciSendUnbounded ==
  /\ batch # <<>>
  /\ Polled("hci")
  /\ commands' = Append(commands, Head(batch))
  /\ batch' = Tail(batch)
  /\ UNCHANGED <<host, lock, apiPc, apiStep, apiReq, apiResp, cmdPc, cmdCur, reply,
                 requests, responses, clients, ctlVars>>

\* Mutant: try_send, which loses the command when the channel is full.
HciSendOrDrop ==
  /\ batch # <<>>
  /\ turn' = "hci"
  /\ turn = "hci" \/ Polled("hci")
  /\ commands' = IF Len(commands) < MaxChannels THEN Append(commands, Head(batch)) ELSE commands
  /\ batch' = Tail(batch)
  /\ UNCHANGED <<host, lock, apiPc, apiStep, apiReq, apiResp, cmdPc, cmdCur, reply,
                 requests, responses, clients, ctlVars>>

\* INTERNAL_COMMAND_CHANNEL.sender().send(command).await
HciSend ==
  /\ batch # <<>>
  /\ Len(commands) < MaxChannels
  /\ Polled("hci")
  /\ commands' = Append(commands, Head(batch))
  /\ batch' = Tail(batch)
  /\ UNCHANGED <<host, lock, apiPc, apiStep, apiReq, apiResp, cmdPc, cmdCur, reply,
                 requests, responses, clients, ctlVars>>

-----------------------------------------------------------------------------
(* api_request_processor                                                   *)

\* initialize, up to the await of its first command.
ApiBoot ==
  /\ apiPc = "boot"
  /\ lock = "free"
  /\ Polled("api")
  /\ lock' = "api"
  /\ apiPc' = "init"
  /\ apiStep' = 1
  /\ sent' = [op |-> InitSequence[1]]
  /\ UNCHANGED <<host, batch, apiReq, apiResp, cmdPc, cmdCur, reply,
                 requests, responses, commands, clients, ctl, wire>>

\* A command of initialize was answered: the next one, or the end.
ApiInit ==
  /\ apiPc = "init"
  /\ reply # "none"
  /\ Polled("api")
  /\ reply' = "none"
  /\ \/ /\ reply = "ok" /\ apiStep < 4
        /\ apiStep' = apiStep + 1
        /\ sent' = [op |-> InitSequence[apiStep + 1]]
        /\ UNCHANGED <<host, lock, apiPc>>
     \/ /\ reply = "err" \/ apiStep = 4
        /\ host' = [host EXCEPT !.state = IF reply = "ok" THEN "PoweredOn" ELSE "PoweredOff"]
        /\ lock' = "free"
        /\ apiPc' = "recv"
        /\ UNCHANGED <<apiStep, sent>>
  /\ UNCHANGED <<batch, apiReq, apiResp, cmdPc, cmdCur,
                 requests, responses, commands, clients, ctl, wire>>

\* Mutant: the request is read but stays in the channel.
ApiPeek ==
  /\ apiPc = "recv"
  /\ requests # <<>>
  /\ Polled("api")
  /\ apiReq' = Head(requests)
  /\ apiPc' = "lock"
  /\ UNCHANGED <<host, lock, batch, apiStep, apiResp, cmdPc, cmdCur, reply,
                 requests, responses, commands, clients, ctlVars>>

ApiReceive ==
  /\ apiPc = "recv"
  /\ requests # <<>>
  /\ Polled("api")
  /\ apiReq' = Head(requests)
  /\ requests' = Tail(requests)
  /\ apiPc' = "lock"
  /\ UNCHANGED <<host, lock, batch, apiStep, apiResp, cmdPc, cmdCur, reply,
                 responses, commands, clients, ctlVars>>

\* Mutant: the guard is dropped before exec.
ApiLockUnguarded ==
  /\ apiPc = "lock"
  /\ lock = "free"
  /\ Polled("api")
  /\ LET c == HciFor(host, apiReq.req) IN
       IF c = NoHci
       THEN /\ apiResp' = [tag |-> AnswerNow(apiReq.req), to |-> apiReq]
            /\ apiPc' = "respond"
            /\ UNCHANGED sent
       ELSE /\ sent' = c
            /\ apiPc' = "exec"
            /\ UNCHANGED apiResp
  /\ UNCHANGED <<host, lock, batch, apiStep, apiReq, cmdPc, cmdCur, reply,
                 requests, responses, commands, clients, ctl, wire>>

\* bluetooth_host().await returned the guard: process_api_request up to its
\* exec, or to its end when it needs none (the guard is dropped again).
ApiLock ==
  /\ apiPc = "lock"
  /\ lock = "free"
  /\ Polled("api")
  /\ LET c == HciFor(host, apiReq.req) IN
       IF c = NoHci
       THEN /\ apiResp' = [tag |-> AnswerNow(apiReq.req), to |-> apiReq]
            /\ apiPc' = "respond"
            /\ UNCHANGED <<lock, sent>>
       ELSE /\ sent' = c
            /\ lock' = "api"
            /\ apiPc' = "exec"
            /\ UNCHANGED apiResp
  /\ UNCHANGED <<host, batch, apiStep, apiReq, cmdPc, cmdCur, reply,
                 requests, responses, commands, clients, ctl, wire>>

\* Mutant: a refused command is not answered to the client.
ApiExecSilent ==
  /\ apiPc = "exec"
  /\ reply # "none"
  /\ Polled("api")
  /\ LET ok == reply = "ok" IN
       /\ host' = Served(host, apiReq.req, ok)
       /\ apiResp' = IF ok THEN [tag |-> AnswerAfter(host, apiReq.req, ok), to |-> apiReq]
                           ELSE NoResponse
       /\ apiPc' = IF ok THEN "respond" ELSE "recv"
  /\ reply' = "none"
  /\ lock' = "free"
  /\ UNCHANGED <<batch, apiStep, apiReq, cmdPc, cmdCur,
                 requests, responses, commands, clients, ctlVars>>

\* exec returned: the rest of process_api_request, then the guard is dropped.
ApiExec ==
  /\ apiPc = "exec"
  /\ reply # "none"
  /\ Polled("api")
  /\ LET ok == reply = "ok" IN
       /\ host' = Served(host, apiReq.req, ok)
       /\ apiResp' = [tag |-> AnswerAfter(host, apiReq.req, ok), to |-> apiReq]
  /\ reply' = "none"
  /\ lock' = "free"
  /\ apiPc' = "respond"
  /\ UNCHANGED <<batch, apiStep, apiReq, cmdPc, cmdCur,
                 requests, responses, commands, clients, ctlVars>>

ApiRespond ==
  /\ apiPc = "respond"
  /\ Len(responses) < MaxChannels
  /\ Polled("api")
  /\ responses' = Append(responses, apiResp)
  /\ apiPc' = "recv"
  /\ apiReq' = NoCall
  /\ apiResp' = NoResponse
  /\ UNCHANGED <<host, lock, batch, apiStep, cmdPc, cmdCur, reply,
                 requests, commands, clients, ctlVars>>

-----------------------------------------------------------------------------
(* internal_command_processor                                              *)

CmdReceive ==
  /\ cmdPc = "recv"
  /\ commands # <<>>
  /\ Polled("cmd")
  /\ cmdCur' = Head(commands)
  /\ commands' = Tail(commands)
  /\ cmdPc' = "lock"
  /\ UNCHANGED <<host, lock, batch, apiPc, apiStep, apiReq, apiResp, reply,
                 requests, responses, clients, ctlVars>>

\* The guard is there: apply the command, or execute its HCI command.
CmdLock ==
  /\ cmdPc = "lock"
  /\ lock = "free"
  /\ Polled("cmd")
  /\ IF cmdCur.op \in ExecOps
     THEN /\ sent' = cmdCur
          /\ lock' = "cmd"
          /\ cmdPc' = "exec"
          /\ UNCHANGED <<host, cmdCur>>
     ELSE /\ host' = Apply(host, cmdCur)
          /\ cmdPc' = "recv"
          /\ cmdCur' = NoCommand
          /\ UNCHANGED <<lock, sent>>
  /\ UNCHANGED <<batch, apiPc, apiStep, apiReq, apiResp, reply,
                 requests, responses, commands, clients, ctl, wire>>

\* Mutant: a refused command returns early, with the guard kept.
CmdExecKeepsGuard ==
  /\ cmdPc = "exec"
  /\ reply # "none"
  /\ Polled("cmd")
  /\ reply' = "none"
  /\ lock' = IF reply = "ok" THEN "free" ELSE lock
  /\ cmdPc' = "recv"
  /\ cmdCur' = NoCommand
  /\ UNCHANGED <<host, batch, apiPc, apiStep, apiReq, apiResp,
                 requests, responses, commands, clients, ctlVars>>

\* Accepted or refused, the outcome is only logged.
CmdExec ==
  /\ cmdPc = "exec"
  /\ reply # "none"
  /\ Polled("cmd")
  /\ reply' = "none"
  /\ lock' = "free"
  /\ cmdPc' = "recv"
  /\ cmdCur' = NoCommand
  /\ UNCHANGED <<host, batch, apiPc, apiStep, apiReq, apiResp,
                 requests, responses, commands, clients, ctlVars>>

-----------------------------------------------------------------------------
(* The API functions: send the request, then receive from the one response *)
(* channel all clients share.  They run in tasks of their own.             *)

ClientState == [pc : {"idle", "send", "wait"}, call : Call \cup {NoCall}, left : Nat]

ClientCall(c) ==
  /\ clients[c].pc = "idle"
  /\ clients[c].left > 0
  /\ \E r \in Requests :
       clients' = [clients EXCEPT ![c] = [pc |-> "send", call |-> [from |-> c, req |-> r],
                                          left |-> @.left - 1]]
  /\ UNCHANGED <<host, taskVars, requests, responses, commands, ctlVars>>

ClientSend(c) ==
  /\ clients[c].pc = "send"
  /\ Len(requests) < MaxChannels
  /\ requests' = Append(requests, clients[c].call)
  /\ clients' = [clients EXCEPT ![c].pc = "wait"]
  /\ UNCHANGED <<host, taskVars, responses, commands, ctlVars>>

\* Whatever response is first in the channel: a variant that does not fit the
\* call becomes Err(InvalidState) for the caller.
ClientReceive(c) ==
  /\ clients[c].pc = "wait"
  /\ responses # <<>>
  /\ responses' = Tail(responses)
  /\ clients' = [clients EXCEPT ![c].pc = "idle", ![c].call = NoCall]
  /\ UNCHANGED <<host, taskVars, requests, commands, ctlVars>>

\* The caller drops the future of a pending call.
ClientDrop(c) ==
  /\ c \in Impatient
  /\ clients[c].pc \in {"send", "wait"}
  /\ clients' = [clients EXCEPT ![c].pc = "idle", ![c].call = NoCall]
  /\ UNCHANGED <<host, taskVars, requests, responses, commands, ctlVars>>

-----------------------------------------------------------------------------
Init ==
  /\ InitController
  /\ host = InitHost
  /\ lock = "free"
  /\ turn = "cmd"
  /\ batch = <<>>
  /\ apiPc = "boot"
  /\ apiStep = 0
  /\ apiReq = NoCall
  /\ apiResp = NoResponse
  /\ cmdPc = "recv"
  /\ cmdCur = NoCommand
  /\ reply = "none"
  /\ requests = <<>>
  /\ responses = <<>>
  /\ commands = <<>>
  /\ clients = [c \in Client |-> [pc |-> "idle", call |-> NoCall, left |-> MaxRequests]]

HciTask == HciRead \/ HciSend
ApiTask == ApiBoot \/ ApiInit \/ ApiReceive \/ ApiLock \/ ApiExec \/ ApiRespond
CmdTask == CmdReceive \/ CmdLock \/ CmdExec
Executor == HciTask \/ ApiTask \/ CmdTask

Controller ==
  /\ AnswerCommand \/ EmitEvent
  /\ UNCHANGED <<host, taskVars, requests, responses, commands, clients>>

Users == \E c \in Client : ClientCall(c) \/ ClientSend(c) \/ ClientReceive(c) \/ ClientDrop(c)

Next == Executor \/ Controller \/ Users

Spec == Init /\ [][Next]_vars

\* The executor polls a woken task, the controller answers a command, and the
\* runtime of a client polls it when its channel is ready.  Nobody is obliged
\* to start a call, to drop one, or to emit an event.
Fairness ==
  /\ WF_vars(Executor)
  /\ WF_vars(AnswerCommand /\ UNCHANGED <<host, taskVars, requests, responses, commands, clients>>)
  /\ \A c \in Client : WF_vars(ClientSend(c)) /\ WF_vars(ClientReceive(c))

FairSpec == Spec /\ Fairness

-----------------------------------------------------------------------------
(* Type invariant and safety.                                              *)

Packet == [kind : {"CommandAnswer"}, ok : BOOLEAN]
            \cup [kind : {"InquiryResult"}, found : Seq(Addr)]
            \cup [kind : {"ExtendedInquiryResult"} \cup PairingKinds, addr : Addr]
            \cup [kind : {"InquiryComplete"}, ok : BOOLEAN]
            \cup [kind : {"ConnectionComplete"}, addr : Addr, handle : Handle, ok : BOOLEAN]
            \cup [kind : {"DisconnectionComplete", "AuthenticationComplete"},
                  handle : Handle, ok : BOOLEAN]
            \cup [kind : {"RemoteNameRequestComplete"}, addr : Addr, ok : BOOLEAN,
                  utf8 : BOOLEAN]
            \cup [kind : {"Acl"}, handle : Handle]

ControllerState == [inquiring : BOOLEAN,
                    paging    : SUBSET Addr,
                    links     : [Addr -> Handle \cup {NoHandle}],
                    closing   : SUBSET Handle,
                    naming    : SUBSET Addr,
                    pairing   : SUBSET Handle,
                    left      : Nat]

\* The type of every variable, with the channels within their capacity.
TypeOK ==
  /\ host \in Host
  /\ lock \in {"free", "api", "cmd"}
  /\ turn \in Task
  /\ batch \in Seq(InternalCommand)
  /\ apiPc \in {"boot", "init", "recv", "lock", "exec", "respond"}
  /\ apiStep \in 0 .. 4
  /\ apiReq \in Call \cup {NoCall}
  /\ apiResp \in Response \cup {NoResponse}
  /\ cmdPc \in {"recv", "lock", "exec"}
  /\ cmdCur \in InternalCommand \cup {NoCommand}
  /\ reply \in {"none", "ok", "err"}
  /\ requests \in Seq(Call) /\ Len(requests) <= MaxChannels
  /\ responses \in Seq(Response) /\ Len(responses) <= MaxChannels
  /\ commands \in Seq(InternalCommand) /\ Len(commands) <= MaxChannels
  /\ clients \in [Client -> ClientState]
  /\ ctl \in ControllerState
  /\ sent \in HciCommand \cup {NoHci}
  /\ wire \in Seq(Packet)

\* Places where the answer to an exec can be: not given yet, on its way, or
\* delivered to the waiting task.
InFlight ==
  {i \in DOMAIN wire : wire[i].kind = "CommandAnswer"}
    \cup (IF sent # NoHci THEN {-1} ELSE {})
    \cup (IF reply # "none" THEN {0} ELSE {})

\* The mutex serializes the HCI commands of the two tasks that execute them:
\* while one waits in exec it holds the mutex and exactly one answer is due,
\* to it; at any other time none is.  An answer can thus never be taken by
\* the other task, nor be left over for a later exec.
ExecExclusive ==
  /\ lock = "api" <=> apiPc \in {"init", "exec"}
  /\ lock = "cmd" <=> cmdPc = "exec"
  /\ \A i, j \in InFlight : i = j
  /\ InFlight # {} <=> lock # "free"

\* While a handler waits in exec, from the command it wrote to the answer, no
\* step but its own return changes the record it read before: what exec has
\* written stays the command that this record calls for, and what the handler
\* writes after, it writes to the record it checked.
AwaitKeepsRecord ==
  apiPc = "exec" => /\ apiPc' = "exec" => UNCHANGED <<host, apiReq>>
                    /\ sent # NoHci => sent = HciFor(host, apiReq.req)

\* Each step leaves the record alone that a handler in exec has read
\* (processor.rs:347, where process_api_request awaits with `self` borrowed).
ExecUndisturbed == [][AwaitKeepsRecord]_vars

\* Nothing is on its way from the controller to the host record, or back.
Settled ==
  /\ wire = <<>> /\ batch = <<>> /\ commands = <<>>
  /\ cmdPc = "recv"
  /\ lock = "free"

\* `discovering` follows the controller's inquiry: it is set before the end of
\* the inquiry can be applied (the mutex is held across exec), and every end
\* of an inquiry clears it.  So an inquiry is never started twice, and a host
\* that believes it is discovering when all is quiet really is.
DiscoveryTracked ==
  /\ ctl.inquiring => \/ host.discovering
                      \/ apiPc = "exec" /\ apiReq.req.op = "Discover"
  /\ Settled => host.discovering = ctl.inquiring

\* Once every event has been applied, the connection map of the host is the
\* set of links of the controller, and the ACL map its inverse: no reordering,
\* reuse of a handle or reconnection of an address leaves a stale entry.
\* (For as many links as the ACL map can hold.)
ConnectionsTracked ==
  Settled => /\ host.connections = ctl.links
             /\ \A h \in Handle, a \in Addr :
                  host.acl[h] = a <=> ctl.links[a] = h

\* When all is quiet the states of a connection are true of the controller:
\* Connecting with no page outstanding, or Connected without a link, would be
\* an update applied out of order.
StateTracked ==
  Settled => /\ host.state = "Connecting" => ctl.paging # {}
             /\ host.state = "Connected" => Linked # {}

\* Tasks never wait for each other in a circle: the holder of the mutex waits
\* for an answer that only hci can deliver, hci for room in the command
\* channel, and cmd, which makes that room, for the mutex.  Nothing else frees
\* any of them, so such a state is final.
NoCircularWait ==
  ~ /\ lock # "free" /\ reply = "none"
    /\ batch # <<>> /\ Len(commands) = MaxChannels
    /\ cmdPc \in {"lock", "exec"}

\* Client c's call returns with the response that heads the channel.
Returns(c) ==
  /\ clients[c].pc = "wait" /\ clients'[c].pc = "idle"
  /\ responses # <<>> /\ responses' = Tail(responses)

\* A response that a client takes from the channel is the one to its own call.
TakesOwnAnswer == \A c \in Client : Returns(c) => Head(responses).to = clients[c].call

\* Each step by which a call returns, returns it with the response to that call.
OwnAnswer == [][TakesOwnAnswer]_vars

\* A name returned by get_device_name(address) is the name of that address
\* (api.rs: "Get the name of a specific Bluetooth device by address").
NameOfAddressAsked ==
  [][\A c \in Client :
       Returns(c) /\ clients[c].call.req.op = "GetDeviceName"
                  /\ Head(responses).tag = "DeviceName"
       => Head(responses).to.req.addr = clients[c].call.req.addr]_vars

-----------------------------------------------------------------------------
(* Liveness.                                                               *)

\* Every call is answered.
CallsAnswered ==
  \A c \in Client : clients[c].pc = "wait" ~> clients[c].pc = "idle"

\* Every event the controller emits is eventually applied.
EventsApplied == wire # <<>> ~> Settled
=============================================================================
