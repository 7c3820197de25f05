----------------------------- MODULE HostPipeline -----------------------------
(***************************************************************************)
(* What the processor promises of the host record, without tasks, channels *)
(* or locks: the mutations of HCI events are applied one at a time, each   *)
(* once, in the order in which the controller reported the events, and an  *)
(* API request reads and changes the record in a single step between two   *)
(* of them, although its handler waits for the controller in the middle.   *)
(***************************************************************************)
EXTENDS HostState, SequencesExt

CONSTANT Requests    \* the requests clients make

VARIABLES
  host,       \* the host record
  pending,    \* mutations reported and not yet applied, oldest first
  booted      \* the controller has been initialized, or failed to be

vars == <<host, pending, booted>>

Init == host = InitHost /\ pending = <<>> /\ booted = FALSE

\* Events are reported: their mutations queue up behind the earlier ones.
Report ==
  /\ IsStrictPrefix(pending, pending')
  /\ UNCHANGED <<host, booted>>

\* The oldest mutation is applied.
ApplyOldest ==
  /\ pending # <<>>
  /\ host' = Apply(host, Head(pending))
  /\ pending' = Tail(pending)
  /\ UNCHANGED booted

\* The controller is initialized (initialize), before any request is served.
Boot ==
  /\ ~booted
  /\ booted' = TRUE
  /\ \E s \in {"PoweredOn", "PoweredOff"} : host' = [host EXCEPT !.state = s]
  /\ UNCHANGED pending

\* A request the host accepts in its present state takes effect.
Serve ==
  /\ booted
  /\ \E r \in Requests :
       /\ HciFor(host, r) # NoHci
       /\ host' = Served(host, r, TRUE)
  /\ UNCHANGED <<pending, booted>>

Next == Report \/ ApplyOldest \/ Boot \/ Serve

Spec == Init /\ [][Next]_vars
=============================================================================
