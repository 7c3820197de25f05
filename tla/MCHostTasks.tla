----------------------------- MODULE MCHostTasks -----------------------------
(* Instances of HostTasks for TLC. *)
EXTENDS HostRefinement

CONSTANTS a1, a2, c1, c2

DiscoveryRequests ==
  {[op |-> "Discover"], [op |-> "StopDiscovery"], [op |-> "GetDeviceName", addr |-> a1]}
DiscoveryEvents == {"InquiryResult", "InquiryComplete"}

LinkRequests ==
  {[op |-> "Pair", addr |-> a] : a \in Addr} \cup {[op |-> "Disconnect", addr |-> a1]}
LinkEvents == {"ConnectionComplete", "DisconnectionComplete", "AuthenticationComplete"}

PairingEvents == {"ConnectionComplete", "DisconnectionComplete", "AuthenticationComplete",
                  "Acl"} \cup PairingKinds
PairingRequests == {[op |-> "Pair", addr |-> a1], [op |-> "GetPairedDevices"]}

NameRequests == {[op |-> "GetDeviceName", addr |-> a] : a \in Addr}
NameEvents == {"ExtendedInquiryResult", "InquiryComplete", "RemoteNameRequestComplete"}
NameOrInquiryEvents == NameEvents \cup DiscoveryEvents
DiscoverOrName == NameRequests \cup {[op |-> "Discover"], [op |-> "GetState"]}

\* A later start: the controller is initialized, an inquiry, now over, has
\* found every device, and what is known of each is `entry`.
InitLater(entry) ==
  /\ InitController
  /\ host = [InitHost EXCEPT !.state = "PoweredOn", !.devices = [a \in Addr |-> entry]]
  /\ lock = "free"
  /\ turn = "cmd"
  /\ batch = <<>>
  /\ apiPc = "recv"
  /\ apiStep = 4
  /\ apiReq = NoCall
  /\ apiResp = NoResponse
  /\ cmdPc = "recv"
  /\ cmdCur = NoCommand
  /\ reply = "none"
  /\ requests = <<>>
  /\ responses = <<>>
  /\ commands = <<>>
  /\ clients = [c \in Client |-> [pc |-> "idle", call |-> NoCall, left |-> MaxRequests]]

SpecKnown == InitLater("nameless") /\ [][Next]_vars
SpecNamed == InitLater("named") /\ [][Next]_vars
FairSpecKnown == SpecKnown /\ Fairness
=============================================================================
