---------------------------- MODULE HciController ----------------------------
(***************************************************************************)
(* The Bluetooth controller behind bt-hci's ExternalController, as the     *)
(* host in src/ uses it: exec writes one command and waits for its         *)
(* Command Complete or Command Status; everything the controller has to    *)
(* say, those answers included, reaches the host through the one transport *)
(* that controller.read drains, in order.                                  *)
(*                                                                         *)
(* External to the repository: the module fixes what the host may rely on  *)
(* (a command is answered once, an operation is reported only after it was *)
(* accepted, links are reported up before down) and leaves the rest open.  *)
(***************************************************************************)
EXTENDS HostState, Sequences

CONSTANTS
  EventKinds,   \* the kinds of events this instance of the controller emits
  MaxEvents     \* bound: events it emits in a behaviour

ASSUME ControllerAssumption == MaxEvents \in Nat

VARIABLES
  ctl,    \* the controller's own state
  sent,   \* the HCI command written by exec and not yet answered, or NoHci
  wire    \* packets the controller has sent and the host has not read

ctlVars == <<ctl, sent, wire>>

InitController ==
  /\ ctl = [inquiring |-> FALSE,
            paging    |-> {},                             \* Create Connection accepted
            links     |-> [a \in Addr |-> NoHandle],
            closing   |-> {},                             \* Disconnect accepted
            naming    |-> {},                             \* Remote Name Request accepted
            pairing   |-> {},                             \* Authentication accepted
            left      |-> MaxEvents]                      \* events still to be emitted
  /\ sent = NoHci
  /\ wire = <<>>

Linked == {a \in Addr : ctl.links[a] # NoHandle}
HandleInUse(h) == \E a \in Addr : ctl.links[a] = h

-----------------------------------------------------------------------------
(* Answering a command.                                                    *)

\* The commands the controller cannot accept in its present state.
Disallowed(c) ==
  \/ c.op = "Inquiry" /\ ctl.inquiring
  \/ c.op = "InquiryCancel" /\ ~ctl.inquiring
  \/ c.op = "CreateConnection" /\ c.addr \in Linked \cup ctl.paging
  \/ c.op \in {"Disconnect", "AuthenticationRequested"} /\ ~HandleInUse(c.handle)

Started(c) ==
  CASE c.op = "Inquiry" -> [ctl EXCEPT !.inquiring = TRUE]
    [] c.op = "InquiryCancel" -> [ctl EXCEPT !.inquiring = FALSE]
    [] c.op = "CreateConnection" -> [ctl EXCEPT !.paging = @ \cup {c.addr}]
    [] c.op = "Disconnect" -> [ctl EXCEPT !.closing = @ \cup {c.handle}]
    [] c.op = "RemoteNameRequest" -> [ctl EXCEPT !.naming = @ \cup {c.addr}]
    [] c.op = "AuthenticationRequested" -> [ctl EXCEPT !.pairing = @ \cup {c.handle}]
    [] OTHER -> ctl

AnswerPacket(ok) == [kind |-> "CommandAnswer", ok |-> ok]

AnswerCommand ==
  /\ sent # NoHci
  /\ \E ok \in BOOLEAN :
       /\ ok => ~Disallowed(sent)
       /\ ctl' = IF ok THEN Started(sent) ELSE ctl
       /\ wire' = Append(wire, AnswerPacket(ok))
  /\ sent' = NoHci

-----------------------------------------------------------------------------
(* Events the controller emits on its own time.                            *)

Emit(event, next) ==
  /\ event.kind \in EventKinds
  /\ ctl.left > 0
  /\ ctl' = [next EXCEPT !.left = @ - 1]
  /\ wire' = Append(wire, event)
  /\ UNCHANGED sent

\* Inquiry Result, with or without RSSI: one or two devices in one event.
EmitInquiryResult ==
  /\ ctl.inquiring
  /\ \E a, b \in Addr, n \in {1, 2} :
       Emit([kind |-> "InquiryResult", found |-> SubSeq(<<a, b>>, 1, n)], ctl)

EmitExtendedInquiryResult ==
  /\ ctl.inquiring
  /\ \E a \in Addr : Emit([kind |-> "ExtendedInquiryResult", addr |-> a], ctl)

EmitInquiryComplete ==
  /\ ctl.inquiring
  /\ \E ok \in BOOLEAN :
       Emit([kind |-> "InquiryComplete", ok |-> ok], [ctl EXCEPT !.inquiring = FALSE])

EmitConnectionComplete ==
  \E a \in ctl.paging, h \in Handle, ok \in BOOLEAN :
    /\ ~HandleInUse(h)
    /\ Emit([kind |-> "ConnectionComplete", addr |-> a, handle |-> h, ok |-> ok],
            [ctl EXCEPT !.paging = @ \ {a}, !.links[a] = IF ok THEN h ELSE @])

\* A link goes down because the host asked, or because the remote side did.
\* Only the first can fail.
EmitDisconnectionComplete ==
  \E a \in Linked, ok \in BOOLEAN :
    LET h == ctl.links[a] IN
    /\ ok \/ h \in ctl.closing
    /\ Emit([kind |-> "DisconnectionComplete", handle |-> h, ok |-> ok],
            [ctl EXCEPT !.closing = @ \ {h},
                        !.links[a] = IF ok THEN NoHandle ELSE @,
                        !.pairing = IF ok THEN @ \ {h} ELSE @])

EmitRemoteNameRequestComplete ==
  \E a \in ctl.naming, ok, utf8 \in BOOLEAN :
    Emit([kind |-> "RemoteNameRequestComplete", addr |-> a, ok |-> ok, utf8 |-> utf8],
         [ctl EXCEPT !.naming = @ \ {a}])

EmitAuthenticationComplete ==
  \E h \in ctl.pairing, ok \in BOOLEAN :
    Emit([kind |-> "AuthenticationComplete", handle |-> h, ok |-> ok],
         [ctl EXCEPT !.pairing = @ \ {h}])

\* The questions of a pairing in progress, and its outcome.
PairingKinds == {"PinCodeRequest", "LinkKeyRequest", "IoCapabilityRequest",
                 "UserConfirmationRequest", "LinkKeyNotification"}

EmitPairing ==
  \E a \in Linked, k \in PairingKinds :
    /\ ctl.links[a] \in ctl.pairing
    /\ Emit([kind |-> k, addr |-> a], ctl)

EmitAcl ==
  \E a \in Linked : Emit([kind |-> "Acl", handle |-> ctl.links[a]], ctl)

EmitEvent ==
  \/ EmitInquiryResult
  \/ EmitExtendedInquiryResult
  \/ EmitInquiryComplete
  \/ EmitConnectionComplete
  \/ EmitDisconnectionComplete
  \/ EmitRemoteNameRequestComplete
  \/ EmitAuthenticationComplete
  \/ EmitPairing
  \/ EmitAcl
=============================================================================
