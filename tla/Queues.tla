------------------------------- MODULE Queues --------------------------------
(****************************************************************************)
(* What IQueue and QueueMessage (packages/sds/src/queue/index.ts) give a    *)
(* queue and the processor that reads it in common: the messages, and the   *)
(* calls of processBatch() that dequeue them.                               *)
(****************************************************************************)
EXTENDS Naturals, Sequences

CONSTANTS
    Message,     \* the messages that may be sent, each once
    Batch,       \* concurrent calls of processBatch() (bounds their overlap)
    BatchSize,   \* receiveBatchSize: how many messages a call asks for
    CountCap     \* dequeueCount is not followed beyond this value

ASSUME QueuesAssumption ==
    /\ BatchSize \in Nat \ {0}
    /\ CountCap \in Nat \ {0}

\* A QueueMessage: the message and the count of the delivery it came with.
Item == [message : Message, count : 1 .. CountCap]

Bump(count) == IF count < CountCap THEN count + 1 ELSE CountCap
=============================================================================
