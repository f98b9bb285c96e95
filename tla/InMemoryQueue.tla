---------------------------- MODULE InMemoryQueue ----------------------------
(****************************************************************************)
(* InMemoryQueue (packages/sds/src/queue/inmemory.ts), the queue the tests  *)
(* and QueueMode.InMemory use in place of Azure's.                          *)
(*                                                                          *)
(* dequeue() takes messages off the front of data and arms a timer for each *)
(* that puts it back there; complete() disarms the timer.  Deliveries are   *)
(* counted by the JSON text of a message: a member of Message.              *)
(****************************************************************************)
EXTENDS Queues

CONSTANT NoTimer

ASSUME TimerAssumption == NoTimer \notin Batch

VARIABLES
    data,            \* the messages waiting, first to be delivered first
    timer,           \* the call whose delivery of a message has its timer armed
    dequeueCounts    \* deliveries counted; 0 when the map has no entry

queueVars == <<data, timer, dequeueCounts>>

QueueInit ==
    /\ data = << >>
    /\ timer = [m \in Message |-> NoTimer]
    /\ dequeueCounts = [m \in Message |-> 0]

enqueue(m) ==
    /\ data' = Append(data, m)
    /\ UNCHANGED <<timer, dequeueCounts>>

\* dequeue(): the first BatchSize messages, or all there are.
Taken == SubSeq(data, 1, IF Len(data) < BatchSize THEN Len(data) ELSE BatchSize)

\* Mutant: the messages are looked at, and left where they are.
dequeueMutant(b) ==
    LET taken == {Taken[i] : i \in DOMAIN Taken} IN
    /\ timer' = [m \in Message |-> IF m \in taken THEN b ELSE timer[m]]
    /\ dequeueCounts' = [m \in Message |->
          IF m \in taken THEN Bump(dequeueCounts[m]) ELSE dequeueCounts[m]]
    /\ UNCHANGED data

dequeue(b) ==
    LET taken == {Taken[i] : i \in DOMAIN Taken} IN
    /\ data' = SubSeq(data, Len(Taken) + 1, Len(data))
    /\ timer' = [m \in Message |-> IF m \in taken THEN b ELSE timer[m]]
    /\ dequeueCounts' = [m \in Message |->
          IF m \in taken THEN Bump(dequeueCounts[m]) ELSE dequeueCounts[m]]

\* Mutant: an item carries the count before its delivery.
ItemsMutant == [i \in DOMAIN Taken |->
                  [message |-> Taken[i], count |-> dequeueCounts[Taken[i]]]]

Items == [i \in DOMAIN Taken |->
            [message |-> Taken[i], count |-> Bump(dequeueCounts[Taken[i]])]]

\* complete(): clearTimeout() of a timer that has fired does nothing; the count
\* is deleted in any case.
complete(b, m) ==
    /\ timer' = [timer EXCEPT ![m] = IF @ = b THEN NoTimer ELSE @]
    /\ dequeueCounts' = [dequeueCounts EXCEPT ![m] = 0]
    /\ UNCHANGED data

\* Mutant: a message that is put back is counted anew.
TimeoutMutant(m) ==
    /\ timer[m] # NoTimer
    /\ timer' = [timer EXCEPT ![m] = NoTimer]
    /\ data' = <<m>> \o data
    /\ dequeueCounts' = [dequeueCounts EXCEPT ![m] = 0]

\* The visibility timeout: the message is the next to be delivered.
Timeout(m) ==
    /\ timer[m] # NoTimer
    /\ timer' = [timer EXCEPT ![m] = NoTimer]
    /\ data' = <<m>> \o data
    /\ UNCHANGED dequeueCounts
=============================================================================
