-------------------------- MODULE MCInMemoryWorker ---------------------------
(****************************************************************************)
(* Small instances of InMemoryWorker: two overlapping calls, batches of two *)
(* and two messages that may time out, be handled and complete in any order.*)
(****************************************************************************)
EXTENDS InMemoryWorker, TLC

MCSymmetry == Permutations(Message) \cup Permutations(Batch)
=============================================================================
