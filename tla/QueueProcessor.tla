--------------------------- MODULE QueueProcessor ----------------------------
(****************************************************************************)
(* QueueProcessor (packages/sds/src/queue/processor.ts): a timer starts     *)
(* processBatch() again and again, whether or not earlier calls have ended, *)
(* so that several of them may be suspended at an await at the same time.   *)
(*                                                                          *)
(* A call of processBatch() is described by its continuation batch[b]: the  *)
(* await it is suspended at and the items it has still to go through, the   *)
(* current one first.  What the queue and the message handler do at those   *)
(* awaits is the business of the modules that compose this one with them.   *)
(****************************************************************************)
EXTENDS Queues

CONSTANTS
    MaxAttempts,     \* maxAttemptsPerMessage
    MaxImmediates    \* bounds the setImmediate callbacks waiting

ASSUME ProcessorAssumption ==
    /\ MaxAttempts \in Nat \ {0}
    /\ MaxImmediates \in Nat \ {0}
    /\ CountCap > MaxAttempts

VARIABLES
    interval,      \* this.interval is set: the timer is armed
    immediates,    \* setImmediate callbacks that have not run yet
    batch,         \* the continuation of each call of processBatch()
    attempts       \* how often the handler was called with each message
                   \* (a history variable, followed up to MaxAttempts + 1)

processorVars == <<interval, immediates, batch, attempts>>

Free == [pc |-> "free"]

\* The items a call of processBatch() has not finished with.
Todo(b) == IF batch[b].pc \in {"process", "complete", "drop"}
           THEN batch[b].todo
           ELSE << >>

Current(b) == Head(batch[b].todo).message

ProcessorInit ==
    /\ interval = FALSE
    /\ immediates = 0
    /\ batch = [b \in Batch |-> Free]
    /\ attempts = [m \in Message |-> 0]

Start ==
    /\ ~interval
    /\ immediates < MaxImmediates
    /\ interval' = TRUE
    /\ immediates' = immediates + 1
    /\ UNCHANGED <<batch, attempts>>

\* stop() clears the timer, and only the timer.
Stop ==
    /\ interval
    /\ interval' = FALSE
    /\ UNCHANGED <<immediates, batch, attempts>>

\* A setImmediate callback or the timer calls processBatch().
Fires(b) ==
    /\ batch[b] = Free
    /\ \/ immediates > 0 /\ immediates' = immediates - 1
       \/ interval /\ UNCHANGED immediates
    /\ UNCHANGED interval

\* processBatch() calls dequeue() and waits for it.
Call(b) ==
    /\ Fires(b)
    /\ batch' = [batch EXCEPT ![b] = [pc |-> "dequeue"]]
    /\ UNCHANGED attempts

\* Mutant: one delivery more than the limit still reaches the handler.
LoopMutant(b, todo) ==
    \/ /\ todo = << >>
       /\ batch' = [batch EXCEPT ![b] = Free]
       /\ UNCHANGED attempts
    \/ /\ todo # << >>
       /\ batch' = [batch EXCEPT ![b] =
                      [pc |-> IF Head(todo).count > MaxAttempts + 1
                              THEN "drop" ELSE "process",
                       todo |-> todo]]
       /\ attempts' = [attempts EXCEPT ![Head(todo).message] =
                          IF @ <= MaxAttempts THEN @ + 1 ELSE @]

\* The loop goes on with the items in todo.  An item delivered too often is
\* completed without a call of the handler.
Loop(b, todo) ==
    \/ /\ todo = << >>
       /\ batch' = [batch EXCEPT ![b] = Free]
       /\ UNCHANGED attempts
    \/ /\ todo # << >>
       /\ Head(todo).count > MaxAttempts
       /\ batch' = [batch EXCEPT ![b] = [pc |-> "drop", todo |-> todo]]
       /\ UNCHANGED attempts
    \/ /\ todo # << >>
       /\ Head(todo).count <= MaxAttempts
       /\ batch' = [batch EXCEPT ![b] = [pc |-> "process", todo |-> todo]]
       /\ attempts' = [attempts EXCEPT ![Head(todo).message] =
                                          IF @ <= MaxAttempts THEN @ + 1 ELSE @]

\* dequeue() resolves ...
Received(b, items) ==
    /\ batch[b].pc = "dequeue"
    /\ Loop(b, items)
    /\ UNCHANGED <<interval, immediates>>

\* Mutant: the call is still counted as running after the rejection.
DequeueRejectedMutant(b) ==
    /\ batch[b].pc = "dequeue"
    /\ batch' = [batch EXCEPT ![b] = [pc |-> "rejected"]]
    /\ UNCHANGED <<interval, immediates, attempts>>

\* ... or rejects.  No try block surrounds it: the call of processBatch() ends.
DequeueRejected(b) ==
    /\ batch[b].pc = "dequeue"
    /\ batch' = [batch EXCEPT ![b] = Free]
    /\ UNCHANGED <<interval, immediates, attempts>>

\* The handler's promise resolves: the message is to be completed.
Handled(b) ==
    /\ batch[b].pc = "process"
    /\ batch' = [batch EXCEPT ![b].pc = "complete"]
    /\ UNCHANGED <<interval, immediates, attempts>>

\* Mutant: the message is completed whether the handler throws or not.
HandlerThrewCompletes(b) ==
    /\ batch[b].pc = "process"
    /\ batch' = [batch EXCEPT ![b].pc = "complete"]
    /\ UNCHANGED <<interval, immediates, attempts>>

\* The handler throws: the message is left as it is.
HandlerThrew(b) ==
    /\ batch[b].pc = "process"
    /\ Loop(b, Tail(batch[b].todo))
    /\ UNCHANGED <<interval, immediates>>

\* complete() settles.  When it throws the error is logged, and the loop goes
\* on all the same.
CompleteSettled(b) ==
    /\ batch[b].pc \in {"complete", "drop"}
    /\ Loop(b, Tail(batch[b].todo))
    /\ UNCHANGED <<interval, immediates>>

\* The process dies and main() starts a new one.
Restart ==
    /\ interval' = TRUE
    /\ immediates' = 1
    /\ batch' = [b \in Batch |-> Free]
    /\ UNCHANGED attempts
=============================================================================
