---------------------------- MODULE HostRefinement ----------------------------
(***************************************************************************)
(* The tasks of HostTasks implement HostPipeline.  An event is reported    *)
(* when hci has read it, a mutation is applied when cmd holds the mutex    *)
(* (one that executes an HCI command, when that has returned), a request   *)
(* is served in the step that follows exec.                                *)
(***************************************************************************)
EXTENDS HostTasks

\* The mutations that hci has read and cmd has not applied, oldest first.
Unapplied == (IF cmdPc = "recv" THEN <<>> ELSE <<cmdCur>>) \o commands \o batch

Booted == apiPc \notin {"boot", "init"}

Pipeline == INSTANCE HostPipeline WITH pending <- Unapplied, booted <- Booted

\* Through channels, back-pressure and the mutex, every mutation of an HCI
\* event is applied exactly once and in the order of the events, and each API
\* request acts on the record in one step between two of them.
PipelineSpec == Pipeline!Spec
===============================================================================
