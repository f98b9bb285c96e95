----------------------------- MODULE AzureQueue ------------------------------
(****************************************************************************)
(* An Azure Storage queue as AzureStorageQueue (packages/sds/src/queue/     *)
(* azure.ts) uses it: sendMessage, receiveMessages, deleteMessage.          *)
(*                                                                          *)
(* Receiving a message does not remove it.  It hides the message, counts    *)
(* the delivery and issues a new pop receipt; only a delete that presents   *)
(* the current receipt removes it.  A message that is not deleted in time   *)
(* is visible again, still under the receipt last issued.                   *)
(****************************************************************************)
EXTENDS Queues

CONSTANT NoReceipt

ASSUME ReceiptAssumption == NoReceipt \notin Batch

VARIABLES
    stored,         \* "absent", "visible", "hidden" or "deleted"
    dequeueCount,   \* deliveries of each message so far
    receipt         \* to whom each message was last delivered

queueVars == <<stored, dequeueCount, receipt>>

QueueInit ==
    /\ stored = [m \in Message |-> "absent"]
    /\ dequeueCount = [m \in Message |-> 0]
    /\ receipt = [m \in Message |-> NoReceipt]

Visible == {m \in Message : stored[m] = "visible"}

\* enqueue()
Send(m) ==
    /\ stored[m] = "absent"
    /\ stored' = [stored EXCEPT ![m] = "visible"]
    /\ UNCHANGED <<dequeueCount, receipt>>

\* What receiveMessages may return: up to BatchSize of the visible messages,
\* in any order, but something when there is something.
Deliveries ==
    IF Visible = {} THEN {<< >>}
    ELSE {s \in UNION {[1 .. n -> Visible] : n \in 1 .. BatchSize} :
             \A i, j \in DOMAIN s : i # j => s[i] # s[j]}

\* The service delivers the messages of s to batch b.
Deliver(b, s) ==
    LET taken == {s[i] : i \in DOMAIN s} IN
    /\ stored' = [m \in Message |-> IF m \in taken THEN "hidden" ELSE stored[m]]
    /\ dequeueCount' = [m \in Message |->
          IF m \in taken THEN Bump(dequeueCount[m]) ELSE dequeueCount[m]]
    /\ receipt' = [m \in Message |-> IF m \in taken THEN b ELSE receipt[m]]

\* Mutant: an item carries the count before its delivery.
ItemsMutant(s) ==
    [i \in DOMAIN s |-> [message |-> s[i], count |-> dequeueCount[s[i]]]]

\* The items dequeue() makes of the messages delivered: each carries the count
\* of the delivery it came with.
Items(s) ==
    [i \in DOMAIN s |-> [message |-> s[i], count |-> Bump(dequeueCount[s[i]])]]

\* Mutant: the message is deleted whatever the receipt.
CanDeleteMutant(b, m) == stored[m] \in {"visible", "hidden"}

\* complete(): deleteMessage(messageId, popReceipt).
CanDelete(b, m) == stored[m] \in {"visible", "hidden"} /\ receipt[m] = b

Delete(b, m) ==
    /\ CanDelete(b, m)
    /\ stored' = [stored EXCEPT ![m] = "deleted"]
    /\ UNCHANGED <<dequeueCount, receipt>>

\* The visibility timeout of a message expires.
Reappear(m) ==
    /\ stored[m] = "hidden"
    /\ stored' = [stored EXCEPT ![m] = "visible"]
    /\ UNCHANGED <<dequeueCount, receipt>>
=============================================================================
