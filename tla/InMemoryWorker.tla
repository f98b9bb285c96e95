--------------------------- MODULE InMemoryWorker ----------------------------
(****************************************************************************)
(* A QueueProcessor over an InMemoryQueue, in one process: what             *)
(* packages/sds/test/queue/processor.test.ts runs.  dequeue() and           *)
(* complete() do their work before they return, so a call of processBatch() *)
(* waits for the message handler only.                                      *)
(****************************************************************************)
EXTENDS InMemoryQueue, QueueProcessor, FiniteSets

VARIABLES
    sent,        \* messages that were enqueued
    completed    \* messages whose complete() was called, and resolved

vars == <<data, timer, dequeueCounts,
          interval, immediates, batch, attempts, sent, completed>>

Init ==
    /\ QueueInit
    /\ ProcessorInit
    /\ sent = {}
    /\ completed = {}

Enqueue(m) ==
    /\ m \notin sent
    /\ enqueue(m)
    /\ sent' = sent \cup {m}
    /\ UNCHANGED <<processorVars, completed>>

ProcessorStart == Start /\ UNCHANGED <<queueVars, sent, completed>>
ProcessorStop == Stop /\ UNCHANGED <<queueVars, sent, completed>>

BeginBatch(b) ==
    /\ Fires(b)
    /\ dequeue(b)
    /\ Loop(b, Items)
    /\ UNCHANGED <<sent, completed>>

HandlerSucceeds(b) ==
    /\ Handled(b)
    /\ UNCHANGED <<queueVars, sent, completed>>

HandlerFails(b) ==
    /\ HandlerThrew(b)
    /\ UNCHANGED <<queueVars, sent, completed>>

Complete(b) ==
    /\ CompleteSettled(b)
    /\ complete(b, Current(b))
    /\ completed' = completed \cup {Current(b)}
    /\ UNCHANGED sent

VisibilityTimeout(m) ==
    /\ Timeout(m)
    /\ UNCHANGED <<processorVars, sent, completed>>

Next ==
    \/ \E m \in Message : Enqueue(m) \/ VisibilityTimeout(m)
    \/ \E b \in Batch :
          \/ BeginBatch(b)
          \/ HandlerSucceeds(b) \/ HandlerFails(b)
          \/ Complete(b)
    \/ ProcessorStart \/ ProcessorStop

Spec == Init /\ [][Next]_vars

----------------------------------------------------------------------------
(* Properties.                                                              *)

\* Calls are suspended in the handler or in complete(), with items of their own.
TypeOK ==
    /\ data \in Seq(Message)
    /\ timer \in [Message -> Batch \cup {NoTimer}]
    /\ dequeueCounts \in [Message -> 0 .. CountCap]
    /\ interval \in BOOLEAN
    /\ immediates \in 0 .. MaxImmediates
    /\ \A b \in Batch :
          \/ batch[b] = Free
          \/ /\ batch[b].pc \in {"process", "complete", "drop"}
             /\ batch[b].todo \in UNION {[1 .. n -> Item] : n \in 1 .. BatchSize}
    /\ attempts \in [Message -> 0 .. MaxAttempts + 1]
    /\ sent \subseteq Message
    /\ completed \subseteq sent

\* Copies of a message the queue will still deliver: waiting, or to be put back.
Copies(m) ==
    Cardinality({i \in DOMAIN data : data[i] = m})
        + (IF timer[m] = NoTimer THEN 0 ELSE 1)

\* Timers, overlapping calls and late completions neither lose a message that
\* was not completed nor make two of one.
NeitherLostNorDoubled ==
    \A m \in Message :
        /\ Copies(m) <= 1
        /\ m \in sent \ completed => Copies(m) = 1

\* Until it is completed a message is handed to the handler at most MaxAttempts
\* times: the counts of its deliveries are never repeated.
AttemptsBounded ==
    \A m \in Message \ completed : attempts[m] <= MaxAttempts

\* The comment on dequeue(): complete() removes a message from the queue.
CompleteRemoves == \A m \in completed : Copies(m) = 0
=============================================================================
