----------------------------- MODULE MCSandbox -------------------------------
(****************************************************************************)
(* A small instance of Sandbox: one run, which two overlapping calls of     *)
(* processBatch() can turn into two workflows.                              *)
(****************************************************************************)
EXTENDS Sandbox, TLC

MCOverlay == [old \in Rev |-> [new \in Rev |-> new]]
=============================================================================
