---------------------------- MODULE MCArgoWorker -----------------------------
(****************************************************************************)
(* Small instances of ArgoWorker.  Two overlapping calls of processBatch()  *)
(* are enough for a message to be worked on by one and delivered to the     *)
(* other; batches of two, for a message to time out before its turn comes.  *)
(****************************************************************************)
EXTENDS ArgoWorker, TLC

MCSymmetry == Permutations(Message) \cup Permutations(Batch)
=============================================================================
