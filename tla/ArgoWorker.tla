----------------------------- MODULE ArgoWorker ------------------------------
(****************************************************************************)
(* The worker: packages/worker/src runs a QueueProcessor over an Azure      *)
(* Storage queue, and for every message creates an Argo workflow through    *)
(* the Kubernetes API.                                                      *)
(*                                                                          *)
(* A workflow is created with generateName, so the API server accepts the   *)
(* same run again under another name: workflows[m] counts them.             *)
(****************************************************************************)
EXTENDS AzureQueue, QueueProcessor

VARIABLE workflows

vars == <<stored, dequeueCount, receipt,
          interval, immediates, batch, attempts, workflows>>

Init ==
    /\ QueueInit
    /\ ProcessorInit
    /\ workflows = [m \in Message |-> 0]

----------------------------------------------------------------------------

\* The laboratory enqueues a run.
Enqueue(m) ==
    /\ Send(m)
    /\ UNCHANGED <<processorVars, workflows>>

WorkerStart == Start /\ UNCHANGED <<queueVars, workflows>>
WorkerStop == Stop /\ UNCHANGED <<queueVars, workflows>>

BeginBatch(b) ==
    /\ Call(b)
    /\ UNCHANGED <<queueVars, workflows>>

Dequeue(b) ==
    /\ \E s \in Deliveries : Deliver(b, s) /\ Received(b, Items(s))
    /\ UNCHANGED workflows

\* The call fails; the service may have hidden and counted messages before the
\* answer was lost.
DequeueFails(b) ==
    /\ DequeueRejected(b)
    /\ \/ UNCHANGED queueVars
       \/ \E s \in Deliveries : Deliver(b, s)
    /\ UNCHANGED workflows

\* createNamespacedCustomObject() resolves.
ProcessRun(b) ==
    /\ Handled(b)
    /\ workflows' = [workflows EXCEPT ![Current(b)] = @ + 1]
    /\ UNCHANGED queueVars

\* It rejects; the workflow may have been created before the answer was lost.
ProcessRunFails(b) ==
    /\ HandlerThrew(b)
    /\ \/ UNCHANGED workflows
       \/ workflows' = [workflows EXCEPT ![Current(b)] = @ + 1]
    /\ UNCHANGED queueVars

\* complete() deletes the message, when its receipt is still the current one.
Complete(b) ==
    /\ CompleteSettled(b)
    /\ Delete(b, Current(b))
    /\ UNCHANGED workflows

\* complete() has no effect: the receipt is stale, the message is gone, or the
\* service cannot be reached.
CompleteFails(b) ==
    /\ CompleteSettled(b)
    /\ UNCHANGED <<queueVars, workflows>>

\* The visibility timeout knows nothing of the worker: a message may be visible
\* again while a call of processBatch() still has it.
Timeout(m) ==
    /\ Reappear(m)
    /\ UNCHANGED <<processorVars, workflows>>

\* The pod is killed, at any await, and started again.
Crash ==
    /\ Restart
    /\ UNCHANGED <<queueVars, workflows>>

Next ==
    \/ \E m \in Message : Enqueue(m) \/ Timeout(m)
    \/ \E b \in Batch :
          \/ BeginBatch(b)
          \/ Dequeue(b) \/ DequeueFails(b)
          \/ ProcessRun(b) \/ ProcessRunFails(b)
          \/ Complete(b) \/ CompleteFails(b)
    \/ WorkerStart \/ WorkerStop \/ Crash

Spec == Init /\ [][Next]_vars

----------------------------------------------------------------------------
(* Properties.                                                              *)

\* What batch[b] may be: at most BatchSize items, the current one among them.
Continuation ==
    [pc : {"free", "dequeue"}]
        \cup [pc : {"process", "complete", "drop"},
              todo : UNION {[1 .. n -> Item] : n \in 1 .. BatchSize}]

\* Every call of processBatch() is at one of its awaits, and at those in its loop
\* it has an item to go on with.
TypeOK ==
    /\ stored \in [Message -> {"absent", "visible", "hidden", "deleted"}]
    /\ dequeueCount \in [Message -> 0 .. CountCap]
    /\ receipt \in [Message -> Batch \cup {NoReceipt}]
    /\ interval \in BOOLEAN
    /\ immediates \in 0 .. MaxImmediates
    /\ batch \in [Batch -> Continuation]
    /\ attempts \in [Message -> 0 .. MaxAttempts + 1]
    /\ workflows \in [Message -> Nat]

\* The handler is called at most MaxAttempts times with a message, however
\* calls overlap, time out or die, and so a run becomes at most that many
\* workflows although creating one is not idempotent.
AttemptsBounded ==
    \A m \in Message :
        /\ attempts[m] <= MaxAttempts
        /\ workflows[m] <= attempts[m]

\* A run leaves the queue because a workflow was created for it or because it
\* was delivered too often; no overlap, late completion or stale receipt
\* removes one that is still to be done.
RemovedOnlyWhenDone ==
    \A m \in Message :
        stored[m] = "deleted" => workflows[m] > 0 \/ dequeueCount[m] > MaxAttempts

\* A completion that is late, after the message was delivered again to another
\* call, leaves that call's message in the queue.
LateCompleteHarmless ==
    [][\A m \in Message :
          stored'[m] = "deleted" /\ stored[m] # "deleted" =>
              \A b \in Batch :
                  (\E i \in DOMAIN Todo(b) :
                       Todo(b)[i] = [message |-> m, count |-> dequeueCount[m]]
                       /\ dequeueCount[m] < CountCap)
                  => batch'[b] # batch[b]]_vars

\* What the telemetry of processBatch() reports as attempts, and the test
\* usesMaxAttemptsPerMessage expects: a message given up without success was
\* tried MaxAttempts times.
GivenUpAfterMaxAttempts ==
    \A m \in Message :
        stored[m] = "deleted" /\ workflows[m] = 0 => attempts[m] = MaxAttempts

\* The comment on stop(): no message is asked for once the processor stopped.
StopStopsReceiving ==
    [][\A b \in Batch :
          batch[b] = Free /\ batch'[b] = [pc |-> "dequeue"] => interval]_vars

\* A call that fails without help of the handler: the worker dies or is
\* stopped, the service fails, or a message times out while it is worked on.
Fault ==
    \/ Crash \/ WorkerStop
    \/ \E b \in Batch : DequeueFails(b) \/ CompleteFails(b)
    \/ \E m \in Message, b \in Batch :
          /\ Timeout(m)
          /\ \E i \in DOMAIN Todo(b) : Todo(b)[i].message = m
=============================================================================
