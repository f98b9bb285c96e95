--------------------------- MODULE InMemoryProofs ----------------------------
(****************************************************************************)
(* Theorems about InMemoryWorker, for any number of messages, overlapping   *)
(* calls of processBatch(), items per call and attempts.                    *)
(*                                                                          *)
(* A message that was enqueued is at one place: once in data, or under one  *)
(* timer.  Only complete() takes it away from there, and then it is         *)
(* completed.                                                               *)
(*                                                                          *)
(* complete() also deletes the count of the message, so that what was never *)
(* completed is counted without a gap: its attempts and the deliveries that *)
(* still wait for their turn are no more than its deliveries, nor than      *)
(* MaxAttempts.  Of a completed message, which a late timer may bring back, *)
(* nothing of the kind holds.                                               *)
(****************************************************************************)
EXTENDS InMemoryWorker, ProcessorProofs

InData(m) == \E i \in DOMAIN data : data[i] = m

\* No message is in data twice, or in data and under a timer; only messages that
\* were sent are anywhere; those that were not completed are somewhere.
PlacesOK ==
    /\ \A i, j \in DOMAIN data : data[i] = data[j] => i = j
    /\ \A m \in Message :
          /\ InData(m) => timer[m] = NoTimer /\ m \in sent
          /\ timer[m] # NoTimer => m \in sent
          /\ m \in sent \ completed => InData(m) \/ timer[m] # NoTimer

QueueTypes ==
    /\ data \in Seq(Message)
    /\ timer \in [Message -> Batch \cup {NoTimer}]
    /\ sent \subseteq Message

PInv == QueueTypes /\ PlacesOK

\* A step that leaves data, timers and messages sent alone, and completes none or
\* some, keeps the invariant.
LEMMA QuietKeepsPlaces ==
    ASSUME PInv, UNCHANGED <<data, timer, sent>>, completed \subseteq completed'
    PROVE  PInv'
  BY DEF PInv, QueueTypes, PlacesOK, InData

\* Before anything is sent there is nothing anywhere.
LEMMA PlacesInit == Init => PInv
<1> SUFFICES ASSUME Init PROVE PInv
    OBVIOUS
<1>1. data = << >> /\ timer = [m \in Message |-> NoTimer] /\ sent = {}
    BY DEF Init, QueueInit
<1>2. data \in Seq(Message) /\ DOMAIN data = {}
    BY <1>1
<1> QED
    BY <1>1, <1>2 DEF PInv, QueueTypes, PlacesOK, InData

\* enqueue() puts a message that is nowhere at the end.
LEMMA EnqueueKeepsPlaces ==
    ASSUME PInv, NEW m \in Message, Enqueue(m)
    PROVE  PInv'
<1>1. /\ m \notin sent /\ sent' = sent \cup {m} /\ data' = Append(data, m)
      /\ UNCHANGED <<timer, completed>>
    BY DEF Enqueue, enqueue
<1>2. data \in Seq(Message) /\ ~InData(m) /\ timer[m] = NoTimer
    BY <1>1 DEF PInv, QueueTypes, PlacesOK
<1>3. /\ data' \in Seq(Message)
      /\ DOMAIN data = 1 .. Len(data) /\ Len(data) \in Nat
      /\ DOMAIN data' = 1 .. Len(data) + 1
      /\ data'[Len(data) + 1] = m
      /\ \A i \in DOMAIN data : data'[i] = data[i]
    BY <1>1, <1>2
<1>4. \A i, j \in DOMAIN data' : data'[i] = data'[j] => i = j
    BY <1>2, <1>3 DEF PInv, PlacesOK, InData
<1>5. \A n \in Message : InData(n)' <=> InData(n) \/ n = m
    BY <1>3 DEF InData
<1> QED
    BY <1>1, <1>2, <1>3, <1>4, <1>5 DEF PInv, QueueTypes, PlacesOK

\* A timer that fires puts its message back at the front, and nowhere else.
LEMMA TimeoutKeepsPlaces ==
    ASSUME PInv, NEW m \in Message, VisibilityTimeout(m)
    PROVE  PInv'
<1>1. /\ timer[m] # NoTimer /\ timer' = [timer EXCEPT ![m] = NoTimer]
      /\ data' = <<m>> \o data
      /\ UNCHANGED <<sent, completed>>
    BY DEF VisibilityTimeout, Timeout
<1>2. /\ data \in Seq(Message) /\ ~InData(m) /\ m \in sent
      /\ timer \in [Message -> Batch \cup {NoTimer}]
    BY <1>1 DEF PInv, QueueTypes, PlacesOK
<1>3. /\ data' \in Seq(Message)
      /\ DOMAIN data = 1 .. Len(data) /\ Len(data) \in Nat
      /\ DOMAIN data' = 1 .. Len(data) + 1
      /\ data'[1] = m
      /\ \A i \in 2 .. Len(data) + 1 : data'[i] = data[i - 1]
    BY <1>1, <1>2
<1>4. \A i \in DOMAIN data' \ {1} : i - 1 \in DOMAIN data /\ data'[i] = data[i - 1]
    BY <1>3
<1>5. \A i, j \in DOMAIN data' : data'[i] = data'[j] => i = j
  <2> SUFFICES ASSUME NEW i \in DOMAIN data', NEW j \in DOMAIN data', data'[i] = data'[j]
               PROVE  i = j
      OBVIOUS
  <2>1. CASE i = 1 \/ j = 1
      BY <1>2, <1>3, <1>4, <2>1 DEF InData
  <2>2. CASE i # 1 /\ j # 1
    <3>1. data[i - 1] = data[j - 1] /\ i - 1 \in DOMAIN data /\ j - 1 \in DOMAIN data
        BY <1>4, <2>2
    <3>2. i - 1 = j - 1
        BY <3>1 DEF PInv, PlacesOK
    <3> QED
        BY <1>3, <3>2
  <2> QED
      BY <2>1, <2>2
<1>6. \A n \in Message : InData(n)' <=> InData(n) \/ n = m
  <2> SUFFICES ASSUME NEW n \in Message
               PROVE  InData(n)' <=> InData(n) \/ n = m
      OBVIOUS
  <2>1. InData(n)' => InData(n) \/ n = m
      BY <1>3, <1>4 DEF InData
  <2>2. ASSUME InData(n) PROVE InData(n)'
    <3>1. PICK i \in DOMAIN data : data[i] = n
        BY <2>2 DEF InData
    <3>2. i + 1 \in DOMAIN data' /\ data'[i + 1] = n
        BY <1>3, <3>1
    <3> QED
        BY <3>2 DEF InData
  <2>3. n = m => InData(n)'
      BY <1>3 DEF InData
  <2> QED
      BY <2>1, <2>2, <2>3
<1>7. /\ timer' \in [Message -> Batch \cup {NoTimer}]
      /\ \A n \in Message : timer'[n] = IF n = m THEN NoTimer ELSE timer[n]
    BY <1>1, <1>2
<1> QED
    BY <1>1, <1>2, <1>3, <1>5, <1>6, <1>7 DEF PInv, QueueTypes, PlacesOK

\* What dequeue() takes is the front of data, and what it leaves is the rest.
LEMMA TakenSplitsData ==
    ASSUME data \in Seq(Message)
    PROVE  /\ Taken \in Seq(Message)
           /\ Len(Taken) \in 0 .. Len(data) /\ Len(Taken) <= BatchSize
           /\ DOMAIN Taken = 1 .. Len(Taken)
           /\ \A i \in DOMAIN Taken : i \in DOMAIN data /\ Taken[i] = data[i]
           /\ LET rest == SubSeq(data, Len(Taken) + 1, Len(data))
              IN  /\ rest \in Seq(Message)
                  /\ DOMAIN rest = 1 .. Len(data) - Len(Taken)
                  /\ \A i \in DOMAIN rest :
                        /\ i + Len(Taken) \in DOMAIN data \ DOMAIN Taken
                        /\ rest[i] = data[i + Len(Taken)]
                  /\ \A i \in DOMAIN data \ DOMAIN Taken :
                        i - Len(Taken) \in DOMAIN rest /\ rest[i - Len(Taken)] = data[i]
<1>1. BatchSize \in Nat \ {0}
    BY QueuesAssumption
<1>2. Len(data) \in Nat /\ DOMAIN data = 1 .. Len(data)
      /\ \A i \in DOMAIN data : data[i] \in Message
    OBVIOUS
<1> DEFINE k == IF Len(data) < BatchSize THEN Len(data) ELSE BatchSize
           rest == SubSeq(data, k + 1, Len(data))
<1>3. k \in 0 .. Len(data) /\ k <= BatchSize
    BY <1>1, <1>2
<1> HIDE DEF k
<1>4. /\ SubSeq(data, 1, k) \in Seq(Message) /\ Len(SubSeq(data, 1, k)) = k
      /\ \A i \in 1 .. k : SubSeq(data, 1, k)[i] = data[i]
    BY <1>2, <1>3
<1>5. Taken = SubSeq(data, 1, k)
    BY DEF Taken, k
<1>6. DOMAIN Taken = 1 .. k /\ Len(Taken) = k
    BY <1>4, <1>5
<1>7. /\ rest \in Seq(Message) /\ Len(rest) = Len(data) - k
      /\ DOMAIN rest = 1 .. Len(data) - k
      /\ \A i \in 1 .. Len(data) - k : rest[i] = data[i + k]
  <2>1. k + 1 \in Int /\ Len(data) \in Int /\ k \in Nat /\ k <= Len(data)
      BY <1>2, <1>3
  <2>2. \A i \in k + 1 .. Len(data) : data[i] \in Message
      BY <1>2, <2>1
  <2>3. /\ rest \in Seq(Message)
        /\ Len(rest) = IF k + 1 <= Len(data) THEN Len(data) - (k + 1) + 1 ELSE 0
        /\ \A i \in 1 .. Len(data) - (k + 1) + 1 : rest[i] = data[(k + 1) + i - 1]
      BY <2>1, <2>2, SubSeqProperties
  <2> HIDE DEF rest
  <2>4. Len(rest) = Len(data) - k
      BY <2>1, <2>3
  <2>5. ASSUME NEW i \in 1 .. Len(data) - k PROVE rest[i] = data[i + k]
    <3>1. i \in 1 .. Len(data) - (k + 1) + 1 /\ (k + 1) + i - 1 = i + k
        BY <2>1
    <3>2. rest[i] = data[(k + 1) + i - 1]
        BY <2>3, <3>1
    <3> QED
        BY <3>1, <3>2
  <2>6. DOMAIN rest = 1 .. Len(rest)
      BY <2>3
  <2> QED
      BY <2>3, <2>4, <2>5, <2>6
<1>8. \A i \in DOMAIN data \ DOMAIN Taken :
          i - k \in DOMAIN rest /\ rest[i - k] = data[i]
  <2> SUFFICES ASSUME NEW i \in DOMAIN data \ DOMAIN Taken
               PROVE  i - k \in DOMAIN rest /\ rest[i - k] = data[i]
      OBVIOUS
  <2>1. i \in Nat /\ i > k /\ i <= Len(data) /\ k \in Nat
      BY <1>2, <1>3, <1>6
  <2>2. i - k \in 1 .. Len(data) - k /\ (i - k) + k = i
      BY <1>2, <2>1
  <2>3. rest[i - k] = data[(i - k) + k]
      BY <1>7, <2>2
  <2> HIDE DEF rest
  <2> QED
      BY <1>7, <2>2, <2>3
<1>9. \A i \in DOMAIN rest :
          i + k \in DOMAIN data \ DOMAIN Taken /\ rest[i] = data[i + k]
  <2> HIDE DEF rest
  <2> QED
      BY <1>2, <1>3, <1>6, <1>7
<1>10. \A i \in DOMAIN Taken : i \in DOMAIN data /\ Taken[i] = data[i]
    BY <1>2, <1>3, <1>4, <1>5, <1>6
<1>11. Taken \in Seq(Message)
    BY <1>4, <1>5
<1> HIDE DEF rest
<1>12. rest = SubSeq(data, Len(Taken) + 1, Len(data))
    BY <1>6 DEF rest
<1> QED
    BY <1>3, <1>6, <1>7, <1>8, <1>9, <1>10, <1>11, <1>12

\* dequeue() puts what it takes under the timers of its call.
LEMMA BeginBatchKeepsPlaces ==
    ASSUME PInv, NEW b \in Batch, BeginBatch(b)
    PROVE  PInv'
<1> DEFINE taken == {Taken[i] : i \in DOMAIN Taken}
           rest == SubSeq(data, Len(Taken) + 1, Len(data))
<1>1. /\ data' = rest
      /\ timer' = [m \in Message |-> IF m \in taken THEN b ELSE timer[m]]
      /\ UNCHANGED <<sent, completed>>
    BY DEF BeginBatch, dequeue
<1>2. data \in Seq(Message) /\ timer \in [Message -> Batch \cup {NoTimer}]
    BY DEF PInv, QueueTypes
<1>3. /\ Taken \in Seq(Message)
      /\ Len(Taken) \in Nat
      /\ \A i \in DOMAIN Taken : i \in DOMAIN data /\ Taken[i] = data[i]
      /\ rest \in Seq(Message)
      /\ \A i \in DOMAIN rest :
            /\ i + Len(Taken) \in DOMAIN data \ DOMAIN Taken
            /\ rest[i] = data[i + Len(Taken)]
      /\ \A i \in DOMAIN data \ DOMAIN Taken :
            i - Len(Taken) \in DOMAIN rest /\ rest[i - Len(Taken)] = data[i]
      /\ DOMAIN rest \subseteq Int
    BY <1>2, TakenSplitsData
<1> HIDE DEF rest
<1>4. \A m \in Message : m \in taken => InData(m)
    BY <1>3 DEF InData
<1>5. \A i, j \in DOMAIN rest : rest[i] = rest[j] => i = j
  <2> SUFFICES ASSUME NEW i \in DOMAIN rest, NEW j \in DOMAIN rest, rest[i] = rest[j]
               PROVE  i = j
      OBVIOUS
  <2>1. i + Len(Taken) = j + Len(Taken)
      BY <1>3 DEF PInv, PlacesOK
  <2> QED
      BY <1>3, <2>1
<1>6. \A m \in Message : InData(m)' <=> InData(m) /\ m \notin taken
  <2> SUFFICES ASSUME NEW m \in Message
               PROVE  InData(m)' <=> InData(m) /\ m \notin taken
      OBVIOUS
  <2>1. ASSUME InData(m)' PROVE InData(m) /\ m \notin taken
    <3>1. PICK i \in DOMAIN rest : rest[i] = m
        BY <1>1, <2>1 DEF InData
    <3>2. i + Len(Taken) \in DOMAIN data \ DOMAIN Taken /\ data[i + Len(Taken)] = m
        BY <1>3, <3>1
    <3>3. \A j \in DOMAIN Taken : Taken[j] # m
        BY <1>3, <3>2 DEF PInv, PlacesOK
    <3> QED
        BY <3>2, <3>3 DEF InData
  <2>2. ASSUME InData(m), m \notin taken PROVE InData(m)'
    <3>1. PICK i \in DOMAIN data : data[i] = m
        BY <2>2 DEF InData
    <3>2. i \notin DOMAIN Taken
        BY <1>3, <2>2, <3>1
    <3>3. i - Len(Taken) \in DOMAIN rest /\ rest[i - Len(Taken)] = m
        BY <1>3, <3>1, <3>2
    <3> QED
        BY <1>1, <3>3 DEF InData
  <2> QED
      BY <2>1, <2>2
<1> HIDE DEF taken
<1>7. /\ timer' \in [Message -> Batch \cup {NoTimer}]
      /\ \A m \in Message : timer'[m] = IF m \in taken THEN b ELSE timer[m]
      /\ b # NoTimer
    BY <1>1, <1>2, TimerAssumption
<1>8. QueueTypes'
    BY <1>1, <1>3, <1>7 DEF PInv, QueueTypes
<1>9. \A m \in Message :
          /\ InData(m)' => timer'[m] = NoTimer /\ m \in sent'
          /\ timer'[m] # NoTimer => m \in sent'
          /\ m \in sent' \ completed' => InData(m)' \/ timer'[m] # NoTimer
    BY <1>1, <1>4, <1>6, <1>7 DEF PInv, PlacesOK
<1>10. \A i, j \in DOMAIN data' : data'[i] = data'[j] => i = j
    BY <1>1, <1>5
<1> QED
    BY <1>8, <1>9, <1>10 DEF PInv, PlacesOK

\* complete() disarms at most the timer of the message that is completed with it.
LEMMA CompleteKeepsPlaces ==
    ASSUME PInv, NEW b \in Batch, Complete(b)
    PROVE  PInv'
<1>1. /\ timer' = [timer EXCEPT ![Current(b)] = IF @ = b THEN NoTimer ELSE @]
      /\ UNCHANGED <<data, sent>>
      /\ completed' = completed \cup {Current(b)}
    BY DEF Complete, complete
<1>2. /\ timer' \in [Message -> Batch \cup {NoTimer}]
      /\ \A m \in Message : timer'[m] \in {timer[m], NoTimer}
      /\ \A m \in Message : m # Current(b) => timer'[m] = timer[m]
    BY <1>1 DEF PInv, QueueTypes
<1> QED
    BY <1>1, <1>2 DEF PInv, QueueTypes, PlacesOK, InData

\* Every step keeps each message where it is, or moves it to one other place.
LEMMA PlacesNext == PInv /\ [Next]_vars => PInv'
<1> SUFFICES ASSUME PInv, [Next]_vars PROVE PInv'
    OBVIOUS
<1>1. ASSUME NEW m \in Message, Enqueue(m) \/ VisibilityTimeout(m) PROVE PInv'
    BY <1>1, EnqueueKeepsPlaces, TimeoutKeepsPlaces
<1>2. ASSUME NEW b \in Batch, BeginBatch(b) PROVE PInv'
    BY <1>2, BeginBatchKeepsPlaces
<1>3. ASSUME NEW b \in Batch, HandlerSucceeds(b) \/ HandlerFails(b) PROVE PInv'
  <2>1. UNCHANGED <<data, timer, sent, completed>>
      BY <1>3 DEF HandlerSucceeds, HandlerFails, queueVars
  <2> QED
      BY <2>1, QuietKeepsPlaces
<1>4. ASSUME NEW b \in Batch, Complete(b) PROVE PInv'
    BY <1>4, CompleteKeepsPlaces
<1>5. ASSUME ProcessorStart \/ ProcessorStop \/ UNCHANGED vars PROVE PInv'
  <2>1. UNCHANGED <<data, timer, sent, completed>>
      BY <1>5 DEF ProcessorStart, ProcessorStop, queueVars, vars
  <2> QED
      BY <2>1, QuietKeepsPlaces
<1> QED
    BY <1>1, <1>2, <1>3, <1>4, <1>5 DEF Next

\* Of a message that is at one place there is one copy, of one that is nowhere
\* there is none.
LEMMA PlacesAreCopies == PInv => NeitherLostNorDoubled
<1> SUFFICES ASSUME PInv, NEW m \in Message
             PROVE  /\ Copies(m) <= 1
                    /\ m \in sent \ completed => Copies(m) = 1
    BY DEF NeitherLostNorDoubled
<1> DEFINE at == {i \in DOMAIN data : data[i] = m}
<1>1. CASE InData(m)
  <2>1. PICK i \in DOMAIN data : data[i] = m
      BY <1>1 DEF InData
  <2>2. at = {i}
      BY <2>1 DEF PInv, PlacesOK
  <2>3. Cardinality(at) = 1
      BY <2>2, FS_Singleton
  <2>4. timer[m] = NoTimer
      BY <1>1 DEF PInv, PlacesOK
  <2> QED
      BY <2>3, <2>4 DEF Copies
<1>2. CASE ~InData(m)
  <2>1. at = {}
      BY <1>2 DEF InData
  <2>2. Cardinality(at) = 0
      BY <2>1, FS_EmptySet
  <2>3. Copies(m) = IF timer[m] = NoTimer THEN 0 ELSE 1
      BY <2>2 DEF Copies
  <2>4. m \in sent \ completed => timer[m] # NoTimer
      BY <1>2 DEF PInv, PlacesOK
  <2> QED
      BY <2>3, <2>4
<1> QED
    BY <1>1, <1>2

\* The in-memory queue has one copy of every message that was sent and not
\* completed, and never two of any, however calls overlap, time out and complete
\* late.
THEOREM MessagesAreKeptOnce == Spec => []NeitherLostNorDoubled
<1> QED
    BY PlacesInit, PlacesNext, PlacesAreCopies, PTL DEF Spec

----------------------------------------------------------------------------
(* Calls, and what they hold.                                               *)

\* What batch[b] may be.
Continuation == {Free} \cup [pc : Looping, todo : Todos]

Types ==
    /\ dequeueCounts \in [Message -> 0 .. CountCap]
    /\ interval \in BOOLEAN
    /\ immediates \in 0 .. MaxImmediates
    /\ batch \in [Batch -> Continuation]
    /\ attempts \in [Message -> 0 .. MaxAttempts + 1]
    /\ completed \subseteq sent

\* Only what was sent is delivered.
SentOK == \A b \in Batch : \A i \in DOMAIN Todo(b) : Todo(b)[i].message \in sent

\* An item is not ahead of the count of the queue, until the count is deleted.
CountsOK ==
    \A b \in Batch : \A i \in DOMAIN Todo(b) :
        Todo(b)[i].message \notin completed =>
            Todo(b)[i].count <= dequeueCounts[Todo(b)[i].message]

\* A call holds a message once, and no other call holds the same delivery of it.
OneHolder ==
    \A b, q \in Batch : \A i \in DOMAIN Todo(b), j \in DOMAIN Todo(q) :
        /\ Todo(b)[i].message = Todo(q)[j].message
        /\ b # q => /\ Todo(b)[i].message \notin completed
                    /\ Todo(b)[i].count = Todo(q)[j].count
                    /\ Todo(b)[i].count <= MaxAttempts
        => b = q /\ i = j

BooksOf(m) ==
    /\ attempts[m] + Cardinality(Waiting(m)) <= dequeueCounts[m]
    /\ attempts[m] + Cardinality(Waiting(m)) <= MaxAttempts

BooksOK == \A m \in Message \ completed : BooksOf(m)

Held == SentOK /\ CountsOK /\ OneHolder /\ BooksOK

IInv == PInv /\ Types /\ Held

\* The items of a call, as a sequence.
LEMMA TodoShape ==
    ASSUME Types, NEW b \in Batch
    PROVE  /\ Todo(b) \in Seq(Item) /\ Len(Todo(b)) <= BatchSize
           /\ Len(Todo(b)) \in Nat
           /\ DOMAIN Todo(b) = 1 .. Len(Todo(b))
           /\ batch[b].pc \in Looping => /\ Todo(b) = batch[b].todo
                                         /\ Len(Todo(b)) >= 1
                                         /\ Todo(b)[1] \in Item
                                         /\ Current(b) = Todo(b)[1].message
           /\ batch[b].pc \notin Looping => Todo(b) = << >>
           /\ \A i \in DOMAIN Todo(b) : Todo(b)[i] \in Item
<1>1. batch[b] \in Continuation
    BY DEF Types
<1>2. batch[b].pc \in Looping => batch[b].todo \in Todos
    BY <1>1 DEF Continuation, Free, Looping
<1>3. Todo(b) \in Seq(Item)
    BY <1>2, TodoItems
<1>4. \A i \in DOMAIN Todo(b) : Todo(b)[i] \in Item
    BY <1>3, ElementOfSeq, LenProperties
<1> QED
    BY <1>2, <1>4, TodoItems

\* What the loop does to well-typed calls.
LEMMA LoopEffect ==
    ASSUME Types, NEW b \in Batch, NEW todo \in Seq(Item), Len(todo) <= BatchSize,
           Loop(b, todo)
    PROVE  /\ batch' \in [Batch -> Continuation]
           /\ attempts' \in [Message -> 0 .. MaxAttempts + 1]
           /\ Todo(b)' = todo
           /\ \A q \in Batch : q # b => batch'[q] = batch[q] /\ Todo(q)' = Todo(q)
           /\ batch'[b].pc # "process" => attempts' = attempts
           /\ batch'[b].pc = "process" =>
                 /\ Len(todo) >= 1 /\ todo[1] \in Item /\ todo[1].count <= MaxAttempts
                 /\ attempts' = [attempts EXCEPT ![todo[1].message] =
                                    IF @ <= MaxAttempts THEN @ + 1 ELSE @]
<1>1. /\ batch \in [Batch -> Continuation] /\ Free \in Continuation
      /\ attempts \in [Message -> 0 .. MaxAttempts + 1]
    BY DEF Types, Continuation
<1>2. \A pc \in Looping, s \in Todos : [pc |-> pc, todo |-> s] \in Continuation
    BY DEF Continuation
<1> QED
    BY <1>1, <1>2, LoopGoesOn

\* Leaving the current item, the loop moves the others up by one.
LEMMA TailEffect ==
    ASSUME Types, NEW b \in Batch, batch[b].pc \in Looping,
           Loop(b, Tail(batch[b].todo))
    PROVE  /\ batch' \in [Batch -> Continuation]
           /\ attempts' \in [Message -> 0 .. MaxAttempts + 1]
           /\ \A q \in Batch : \A i \in DOMAIN Todo(q)' :
                 LET was == IF q = b THEN i + 1 ELSE i IN
                 /\ i \in Nat /\ was \in DOMAIN Todo(q)
                 /\ Todo(q)'[i] = Todo(q)[was] /\ Todo(q)'[i] \in Item
                 /\ i # 1 => was # 1
           /\ \/ attempts' = attempts
              \/ /\ 1 \in DOMAIN Todo(b)' /\ 2 \in DOMAIN Todo(b)
                 /\ Todo(b)'[1] = Todo(b)[2] /\ Todo(b)[2] \in Item
                 /\ Todo(b)[2].count <= MaxAttempts
                 /\ attempts' = [attempts EXCEPT ![Todo(b)[2].message] =
                                    IF @ <= MaxAttempts THEN @ + 1 ELSE @]
<1>1. /\ Todo(b) \in Seq(Item) /\ Len(Todo(b)) \in Nat /\ Len(Todo(b)) >= 1
      /\ Len(Todo(b)) <= BatchSize /\ DOMAIN Todo(b) = 1 .. Len(Todo(b))
      /\ Todo(b) = batch[b].todo
      /\ \A i \in DOMAIN Todo(b) : Todo(b)[i] \in Item
    BY TodoShape
<1>2. /\ Tail(Todo(b)) \in Seq(Item) /\ Len(Tail(Todo(b))) = Len(Todo(b)) - 1
      /\ DOMAIN Tail(Todo(b)) = 1 .. (Len(Todo(b)) - 1)
      /\ \A i \in 1 .. (Len(Todo(b)) - 1) : Tail(Todo(b))[i] = Todo(b)[i + 1]
    BY <1>1, TailShape
<1> DEFINE rest == Tail(Todo(b))
<1>3. /\ batch' \in [Batch -> Continuation]
      /\ attempts' \in [Message -> 0 .. MaxAttempts + 1]
      /\ Todo(b)' = rest
      /\ \A q \in Batch : q # b => batch'[q] = batch[q] /\ Todo(q)' = Todo(q)
      /\ batch'[b].pc # "process" => attempts' = attempts
      /\ batch'[b].pc = "process" =>
            /\ Len(rest) >= 1 /\ rest[1] \in Item /\ rest[1].count <= MaxAttempts
            /\ attempts' = [attempts EXCEPT ![rest[1].message] =
                               IF @ <= MaxAttempts THEN @ + 1 ELSE @]
  <2>1. Len(rest) <= BatchSize
      BY <1>1, <1>2, Bounds
  <2>2. Loop(b, rest)
      BY <1>1
  <2> QED
      BY <1>2, <2>1, <2>2, LoopEffect
<1> HIDE DEF rest
<1>4. ASSUME NEW i \in 1 .. Len(Todo(b)) - 1
      PROVE  i \in Nat /\ i + 1 \in DOMAIN Todo(b) /\ rest[i] = Todo(b)[i + 1] /\ i + 1 # 1
    BY <1>1, <1>2 DEF rest
<1>5. ASSUME NEW q \in Batch, NEW i \in DOMAIN Todo(q)'
      PROVE  LET was == IF q = b THEN i + 1 ELSE i IN
             /\ i \in Nat /\ was \in DOMAIN Todo(q)
             /\ Todo(q)'[i] = Todo(q)[was] /\ Todo(q)'[i] \in Item
             /\ i # 1 => was # 1
  <2>1. CASE q = b
    <3>1. i \in 1 .. Len(Todo(b)) - 1
        BY <1>2, <1>3, <1>5, <2>1 DEF rest
    <3> QED
        BY <1>1, <1>3, <1>4, <2>1, <3>1
  <2>2. CASE q # b
    <3>1. Todo(q)' = Todo(q) /\ i \in DOMAIN Todo(q)
        BY <1>3, <1>5, <2>2
    <3>2. i \in Nat /\ Todo(q)[i] \in Item
        BY <3>1, TodoShape
    <3> QED
        BY <2>2, <3>1, <3>2
  <2> QED
      BY <2>1, <2>2
<1>6. CASE batch'[b].pc # "process"
    BY <1>3, <1>5, <1>6
<1>7. CASE batch'[b].pc = "process"
  <2>1. 1 \in 1 .. Len(Todo(b)) - 1 /\ 1 + 1 = 2
      BY <1>1, <1>2, <1>3, <1>7 DEF rest
  <2>2. 2 \in DOMAIN Todo(b) /\ rest[1] = Todo(b)[2] /\ 1 \in DOMAIN rest
      BY <1>2, <1>4, <2>1 DEF rest
  <2> QED
      BY <1>3, <1>5, <1>7, <2>2
<1> QED
    BY <1>6, <1>7

----------------------------------------------------------------------------
(* The books of one message.                                                *)

\* What a step may do to them: nothing but let deliveries go,
Lets(m) ==
    /\ Waiting(m)' \subseteq Waiting(m)
    /\ attempts'[m] = attempts[m]
    /\ dequeueCounts'[m] >= dequeueCounts[m]

\* add a delivery that has to wait for its turn,
Waits(m, c) ==
    /\ Waiting(m)' \subseteq Waiting(m) \cup {c}
    /\ attempts'[m] = attempts[m]
    /\ dequeueCounts'[m] = dequeueCounts[m] + 1 /\ dequeueCounts'[m] <= MaxAttempts

\* or give a delivery to the handler, one that waited or a new one.
Tries(m, c) ==
    /\ attempts'[m] = attempts[m] + 1
    /\ \/ /\ c \in Waiting(m) /\ Waiting(m)' \subseteq Waiting(m) \ {c}
          /\ dequeueCounts'[m] = dequeueCounts[m]
       \/ /\ Waiting(m)' \subseteq Waiting(m)
          /\ dequeueCounts'[m] = dequeueCounts[m] + 1 /\ dequeueCounts'[m] <= MaxAttempts

\* A step that does one of these keeps the books.
LEMMA BooksKept ==
    ASSUME Types, Types', NEW m \in Message, BooksOf(m),
           Lets(m) \/ \E c \in 1 .. MaxAttempts : Waits(m, c) \/ Tries(m, c)
    PROVE  BooksOf(m)'
<1> DEFINE W == Waiting(m)
<1>1. W \in SUBSET (1 .. MaxAttempts) /\ W' \in SUBSET (1 .. MaxAttempts)
    BY DEF Waiting
<1>2. /\ attempts[m] \in Nat /\ attempts'[m] \in Nat
      /\ dequeueCounts[m] \in Nat /\ dequeueCounts'[m] \in Nat
      /\ MaxAttempts \in Nat
    BY Bounds, SMT DEF Types
<1>3. /\ attempts[m] + Cardinality(W) <= dequeueCounts[m]
      /\ attempts[m] + Cardinality(W) <= MaxAttempts
    BY DEF BooksOf
<1> SUFFICES /\ attempts'[m] + Cardinality(W') <= dequeueCounts'[m]
             /\ attempts'[m] + Cardinality(W') <= MaxAttempts
    BY DEF BooksOf
<1>4. CASE Lets(m)
  <2>1. W' \in SUBSET W
      BY <1>4 DEF Lets
  <2>2. /\ Cardinality(W') \in Nat /\ Cardinality(W) \in Nat
        /\ Cardinality(W') <= Cardinality(W)
      BY <1>1, <2>1, NoMore
  <2> HIDE DEF W
  <2> QED
      BY <1>2, <1>3, <1>4, <2>2 DEF Lets
<1>5. ASSUME NEW c \in 1 .. MaxAttempts, Waits(m, c)
      PROVE  /\ attempts'[m] + Cardinality(W') <= dequeueCounts'[m]
             /\ attempts'[m] + Cardinality(W') <= MaxAttempts
  <2>1. W' \in SUBSET (W \cup {c})
      BY <1>5 DEF Waits
  <2>2. /\ Cardinality(W') \in Nat /\ Cardinality(W) \in Nat
        /\ Cardinality(W') <= Cardinality(W) + 1
      BY <1>1, <2>1, OneMore
  <2> HIDE DEF W
  <2> QED
      BY <1>2, <1>3, <1>5, <2>2 DEF Waits
<1>6. ASSUME NEW c \in 1 .. MaxAttempts, Tries(m, c)
      PROVE  /\ attempts'[m] + Cardinality(W') <= dequeueCounts'[m]
             /\ attempts'[m] + Cardinality(W') <= MaxAttempts
  <2>1. attempts'[m] = attempts[m] + 1
      BY <1>6 DEF Tries
  <2>2. CASE /\ c \in W /\ W' \in SUBSET (W \ {c})
             /\ dequeueCounts'[m] = dequeueCounts[m]
    <3>1. /\ Cardinality(W') \in Nat /\ Cardinality(W) \in Nat
          /\ Cardinality(W') + 1 <= Cardinality(W)
        BY <1>1, <2>2, OneLess
    <3> HIDE DEF W
    <3> QED
        BY <1>2, <1>3, <2>1, <2>2, <3>1
  <2>3. CASE /\ W' \in SUBSET W
             /\ dequeueCounts'[m] = dequeueCounts[m] + 1 /\ dequeueCounts'[m] <= MaxAttempts
    <3>1. /\ Cardinality(W') \in Nat /\ Cardinality(W) \in Nat
          /\ Cardinality(W') <= Cardinality(W)
        BY <1>1, <2>3, NoMore
    <3> HIDE DEF W
    <3> QED
        BY <1>2, <1>3, <2>1, <2>3, <3>1
  <2> QED
      BY <1>6, <2>2, <2>3 DEF Tries
<1> QED
    BY <1>4, <1>5, <1>6

\* The handler's calls are counted exactly while they are within the bound.
LEMMA AttemptCounted ==
    ASSUME Types, NEW m \in Message, BooksOf(m)
    PROVE  attempts[m] <= MaxAttempts
<1>1. Waiting(m) \in SUBSET (1 .. MaxAttempts)
    BY DEF Waiting
<1>2. Cardinality(Waiting(m)) \in Nat /\ attempts[m] \in Nat
    BY <1>1, NoMore, Bounds, SMT DEF Types
<1> QED
    BY <1>2, Bounds DEF BooksOf

----------------------------------------------------------------------------
(* The steps.                                                               *)

\* Steps that leave the items of all calls, and the counts, as they are.
LEMMA QuietKeepsHeld ==
    ASSUME Types, Types', Held, UNCHANGED <<attempts, dequeueCounts, completed>>,
           sent \subseteq sent', \A b \in Batch : Todo(b)' = Todo(b)
    PROVE  Held'
<1>1. SentOK' /\ CountsOK' /\ OneHolder'
    BY DEF Held, SentOK, CountsOK, OneHolder
<1>2. ASSUME NEW m \in Message \ completed' PROVE BooksOf(m)'
  <2>1. BooksOf(m)
      BY <1>2 DEF Held, BooksOK
  <2>2. Waiting(m)' \subseteq Waiting(m)
      BY DEF Waiting
  <2>3. dequeueCounts'[m] >= dequeueCounts[m]
      BY Bounds, SMT DEF Types
  <2> QED
      BY <2>1, <2>2, <2>3, BooksKept DEF Lets
<1> QED
    BY <1>1, <1>2 DEF Held, BooksOK

\* The loop leaves the current item and goes on with the next one.
LEMMA TailKeepsHeld ==
    ASSUME Types, Types', Held, NEW b \in Batch, batch[b].pc \in Looping,
           Loop(b, Tail(batch[b].todo)),
           UNCHANGED sent, completed \subseteq completed',
           \A m \in Message \ completed' : dequeueCounts'[m] = dequeueCounts[m]
    PROVE  Held'
<1> DEFINE Was(q, i) == IF q = b THEN i + 1 ELSE i
<1>1. ASSUME NEW q \in Batch, NEW i \in DOMAIN Todo(q)'
      PROVE  /\ i \in Nat /\ Was(q, i) \in DOMAIN Todo(q)
             /\ Todo(q)'[i] = Todo(q)[Was(q, i)]
             /\ Todo(q)'[i] \in Item /\ Todo(q)'[i].message \in Message
             /\ i # 1 => Was(q, i) # 1
  <2>1. Todo(q)'[i] \in Item
      BY <1>1, TailEffect
  <2>2. Todo(q)'[i].message \in Message
      BY <2>1 DEF Item
  <2> QED
      BY <1>1, <2>1, <2>2, TailEffect
<1>2. \/ attempts' = attempts
      \/ /\ 1 \in DOMAIN Todo(b)' /\ 2 \in DOMAIN Todo(b)
         /\ Todo(b)'[1] = Todo(b)[2] /\ Todo(b)[2] \in Item
         /\ Todo(b)[2].count <= MaxAttempts
         /\ attempts' = [attempts EXCEPT ![Todo(b)[2].message] =
                            IF @ <= MaxAttempts THEN @ + 1 ELSE @]
    BY TailEffect
<1>3. ASSUME NEW q \in Batch, NEW i \in DOMAIN Todo(q)'
      PROVE  /\ Todo(q)'[i].message \in sent'
             /\ Todo(q)'[i].message \notin completed' =>
                   Todo(q)'[i].count <= dequeueCounts'[Todo(q)'[i].message]
  <2>1. PICK j \in DOMAIN Todo(q) : Todo(q)'[i] = Todo(q)[j]
      BY <1>1
  <2>2. Todo(q)[j].message \in Message
      BY <1>1, <2>1
  <2> QED
      BY <2>1, <2>2 DEF Held, SentOK, CountsOK
<1>4. OneHolder'
  <2> SUFFICES ASSUME NEW q \in Batch, NEW r \in Batch,
                      NEW i \in DOMAIN Todo(q)', NEW j \in DOMAIN Todo(r)',
                      Todo(q)'[i].message = Todo(r)'[j].message,
                      q # r => /\ Todo(q)'[i].message \notin completed'
                               /\ Todo(q)'[i].count = Todo(r)'[j].count
                               /\ Todo(q)'[i].count <= MaxAttempts
               PROVE  q = r /\ i = j
      BY DEF OneHolder
  <2>1. /\ Was(q, i) \in DOMAIN Todo(q) /\ Todo(q)'[i] = Todo(q)[Was(q, i)]
        /\ Was(r, j) \in DOMAIN Todo(r) /\ Todo(r)'[j] = Todo(r)[Was(r, j)]
        /\ i \in Nat /\ j \in Nat
      BY <1>1
  <2>2. q = r /\ Was(q, i) = Was(r, j)
    <3> HIDE DEF Was
    <3> QED
        BY <2>1 DEF Held, OneHolder
  <2> QED
      BY <2>1, <2>2
<1>5. ASSUME NEW m \in Message \ completed' PROVE BooksOf(m)'
  <2>1. BooksOf(m) /\ m \in Message
      BY <1>5 DEF Held, BooksOK
  <2>2. Waiting(m)' \subseteq Waiting(m)
    <3> SUFFICES ASSUME NEW c \in 1 .. MaxAttempts, NEW q \in Batch,
                        NEW i \in DOMAIN Todo(q)', i # 1, Todo(q)'[i] = Delivery(m, c)
                 PROVE  c \in Waiting(m)
        BY DEF Waiting
    <3> HIDE DEF Was
    <3> QED
        BY <1>1 DEF Waiting
  <2>3. dequeueCounts'[m] = dequeueCounts[m] /\ dequeueCounts'[m] >= dequeueCounts[m]
      BY <1>5, Bounds, SMT DEF Types
  \* The next item, if it goes to the handler.
  <2>4. CASE attempts'[m] # attempts[m]
    <3>1. /\ 1 \in DOMAIN Todo(b)' /\ 2 \in DOMAIN Todo(b)
          /\ Todo(b)'[1] = Todo(b)[2] /\ Todo(b)[2] \in Item
          /\ Todo(b)[2].count <= MaxAttempts /\ Todo(b)[2].message = m
          /\ attempts' = [attempts EXCEPT ![m] =
                             IF @ <= MaxAttempts THEN @ + 1 ELSE @]
        BY <1>2, <2>4 DEF Types
    <3>2. attempts'[m] = attempts[m] + 1
      <4>1. attempts[m] <= MaxAttempts
          BY <2>1, AttemptCounted
      <4> QED
          BY <3>1, <4>1 DEF Types
    <3>3. PICK c \in 1 .. MaxAttempts :
            Todo(b)[2] = Delivery(m, c) /\ Todo(b)[2].count = c
      <4>1. Todo(b)[2].count \in 1 .. MaxAttempts
          BY <3>1, Bounds, SMT DEF Item
      <4>2. Todo(b)[2] = Delivery(m, Todo(b)[2].count)
          BY <3>1, SMT DEF Item, Delivery
      <4> QED
          BY <4>1, <4>2
    <3>4. c \in Waiting(m)
        BY <3>1, <3>3 DEF Waiting
    <3>5. c \notin Waiting(m)'
      <4> SUFFICES ASSUME NEW q \in Batch, NEW i \in DOMAIN Todo(q)', i # 1,
                          Todo(q)'[i] = Delivery(m, c)
                   PROVE  FALSE
          BY DEF Waiting
      <4>1. Todo(q)'[i].message = m /\ Todo(q)'[i].count = c /\ c <= MaxAttempts
          BY Bounds DEF Delivery
      <4>2. Todo(b)'[1].message = m /\ Todo(b)'[1].count = c
          BY <3>1, <3>3
      <4> QED
          BY <1>4, <1>5, <3>1, <4>1, <4>2 DEF OneHolder
    <3>6. Tries(m, c)
        BY <2>2, <2>3, <3>2, <3>4, <3>5 DEF Tries
    <3> QED
        BY <2>1, <3>6, BooksKept
  <2>5. CASE attempts'[m] = attempts[m]
      BY <2>1, <2>2, <2>3, <2>5, BooksKept DEF Lets
  <2> QED
      BY <2>4, <2>5
<1> QED
    BY <1>3, <1>4, <1>5 DEF Held, SentOK, CountsOK, BooksOK

\* What dequeue() returns: distinct messages that were sent, with their new counts.
LEMMA ItemsShape ==
    ASSUME PInv, Types
    PROVE  /\ Items \in Seq(Item) /\ Len(Items) <= BatchSize
           /\ DOMAIN Items = DOMAIN Taken
           /\ \A i \in DOMAIN Taken :
                 /\ Taken[i] \in Message /\ Taken[i] \in sent
                 /\ Items[i] = Delivery(Taken[i], Bump(dequeueCounts[Taken[i]]))
           /\ \A i, j \in DOMAIN Taken : Taken[i] = Taken[j] => i = j
<1>1. data \in Seq(Message)
    BY DEF PInv, QueueTypes
<1>2. /\ Taken \in Seq(Message) /\ Len(Taken) \in Nat /\ Len(Taken) <= BatchSize
      /\ DOMAIN Taken = 1 .. Len(Taken)
      /\ \A i \in DOMAIN Taken : i \in DOMAIN data /\ Taken[i] = data[i]
    BY <1>1, TakenSplitsData
<1>3. \A i \in DOMAIN Taken : Taken[i] \in Message
    BY <1>2, ElementOfSeq
<1>4. \A i \in DOMAIN Taken : Taken[i] \in sent
    BY <1>2, <1>3 DEF PInv, PlacesOK, InData
<1>5. \A i, j \in DOMAIN Taken : Taken[i] = Taken[j] => i = j
    BY <1>2 DEF PInv, PlacesOK
<1>6. \A i \in DOMAIN Taken :
          Items[i] = Delivery(Taken[i], Bump(dequeueCounts[Taken[i]])) /\ Items[i] \in Item
    BY <1>3, BumpCounts, SMT DEF Items, Delivery, Item, Types
<1>7. Items \in [1 .. Len(Taken) -> Item]
    BY <1>2, <1>6 DEF Items
<1>8. Items \in Seq(Item)
    BY <1>2, <1>7, SeqDef
<1>9. Len(Items) = Len(Taken) /\ DOMAIN Items = DOMAIN Taken
    BY <1>2, <1>7, <1>8, LenProperties
<1> QED
    BY <1>2, <1>3, <1>4, <1>5, <1>6, <1>8, <1>9

\* New deliveries arrive, and the loop starts with the first of them.
LEMMA BeginBatchKeepsHeld ==
    ASSUME PInv, Types, Types', Held, NEW b \in Batch, BeginBatch(b)
    PROVE  Held'
<1> DEFINE taken == {Taken[i] : i \in DOMAIN Taken}
<1>1. /\ Loop(b, Items)
      /\ dequeueCounts' = [m \in Message |->
            IF m \in taken THEN Bump(dequeueCounts[m]) ELSE dequeueCounts[m]]
      /\ UNCHANGED <<sent, completed>>
    BY DEF BeginBatch, dequeue
<1>2. /\ Items \in Seq(Item) /\ Len(Items) <= BatchSize
      /\ DOMAIN Items = DOMAIN Taken /\ DOMAIN Items = 1 .. Len(Items)
      /\ \A i \in DOMAIN Taken :
            /\ Taken[i] \in Message /\ Taken[i] \in sent
            /\ Items[i] = Delivery(Taken[i], Bump(dequeueCounts[Taken[i]]))
      /\ \A i, j \in DOMAIN Taken : Taken[i] = Taken[j] => i = j
    BY ItemsShape, LenProperties
<1>3. /\ Todo(b)' = Items
      /\ \A q \in Batch : q # b => batch'[q] = batch[q] /\ Todo(q)' = Todo(q)
      /\ batch'[b].pc # "process" => attempts' = attempts
      /\ batch'[b].pc = "process" =>
            /\ Len(Items) >= 1 /\ Items[1].count <= MaxAttempts
            /\ attempts' = [attempts EXCEPT ![Items[1].message] =
                               IF @ <= MaxAttempts THEN @ + 1 ELSE @]
    BY <1>1, <1>2, LoopEffect
\* What happens to the counts.
<1>4. ASSUME NEW m \in Message
      PROVE  /\ dequeueCounts[m] \in Nat /\ dequeueCounts'[m] \in Nat
             /\ dequeueCounts'[m] >= dequeueCounts[m]
             /\ m \in taken => /\ dequeueCounts'[m] = Bump(dequeueCounts[m])
                               /\ dequeueCounts'[m] >= 1
                               /\ dequeueCounts'[m] <= MaxAttempts =>
                                     dequeueCounts'[m] = dequeueCounts[m] + 1
             /\ m \notin taken => dequeueCounts'[m] = dequeueCounts[m]
  <2>1. dequeueCounts[m] \in 0 .. CountCap /\ dequeueCounts[m] \in Nat
      BY Bounds, SMT DEF Types
  <2>2. /\ m \in taken => dequeueCounts'[m] = Bump(dequeueCounts[m])
        /\ m \notin taken => dequeueCounts'[m] = dequeueCounts[m]
      BY <1>1
  <2>3. /\ Bump(dequeueCounts[m]) \in 1 .. CountCap
        /\ Bump(dequeueCounts[m]) >= dequeueCounts[m]
        /\ Bump(dequeueCounts[m]) <= MaxAttempts =>
              Bump(dequeueCounts[m]) = dequeueCounts[m] + 1
      BY <2>1, BumpCounts
  <2> HIDE DEF taken
  <2> QED
      BY <2>1, <2>2, <2>3, Bounds
\* What the call receives.
<1>5. ASSUME NEW i \in DOMAIN Todo(b)'
      PROVE  /\ i \in DOMAIN Taken /\ Taken[i] \in Message /\ Taken[i] \in taken
             /\ Taken[i] \in sent
             /\ Todo(b)'[i].message = Taken[i]
             /\ Todo(b)'[i].count = dequeueCounts'[Taken[i]]
  <2>1. i \in DOMAIN Taken /\ Taken[i] \in Message /\ Taken[i] \in taken /\ Taken[i] \in sent
      BY <1>2, <1>3, <1>5
  <2>2. Todo(b)'[i] = Delivery(Taken[i], Bump(dequeueCounts[Taken[i]]))
      BY <1>2, <1>3, <2>1
  <2>3. dequeueCounts'[Taken[i]] = Bump(dequeueCounts[Taken[i]])
      BY <1>4, <2>1
  <2> HIDE DEF taken
  <2> QED
      BY <2>1, <2>2, <2>3 DEF Delivery
\* What the others hold.
<1>6. ASSUME NEW q \in Batch, q # b, NEW j \in DOMAIN Todo(q)'
      PROVE  /\ j \in DOMAIN Todo(q) /\ Todo(q)'[j] = Todo(q)[j]
             /\ Todo(q)[j].message \in Message /\ Todo(q)[j].count \in Nat
             /\ Todo(q)[j].message \in sent
             /\ Todo(q)[j].message \notin completed =>
                   Todo(q)[j].count <= dequeueCounts[Todo(q)[j].message]
  <2>1. Todo(q)' = Todo(q) /\ j \in DOMAIN Todo(q)
      BY <1>3, <1>6
  <2>2. Todo(q)[j] \in Item
      BY <2>1, TodoShape
  <2> QED
      BY <2>1, <2>2, Bounds, SMT DEF Item, Held, SentOK, CountsOK
<1> HIDE DEF taken
<1>7. SentOK' /\ CountsOK'
  <2> SUFFICES ASSUME NEW q \in Batch, NEW i \in DOMAIN Todo(q)'
               PROVE  /\ Todo(q)'[i].message \in sent
                      /\ Todo(q)'[i].message \notin completed =>
                            Todo(q)'[i].count <= dequeueCounts'[Todo(q)'[i].message]
      BY <1>1 DEF SentOK, CountsOK
  <2>1. CASE q = b
      BY <1>4, <1>5, <2>1
  <2>2. CASE q # b
      BY <1>4, <1>6, <2>2
  <2> QED
      BY <2>1, <2>2
<1>8. ASSUME NEW i \in DOMAIN Todo(b)', NEW q \in Batch, q # b,
             NEW j \in DOMAIN Todo(q)',
             Todo(b)'[i].message = Todo(q)'[j].message,
             Todo(b)'[i].message \notin completed,
             Todo(b)'[i].count = Todo(q)'[j].count,
             Todo(b)'[i].count <= MaxAttempts
      PROVE  FALSE
  <2>1. Todo(b)'[i].count = dequeueCounts[Taken[i]] + 1 /\ dequeueCounts[Taken[i]] \in Nat
      BY <1>4, <1>5, <1>8
  <2>2. Todo(q)'[j].count <= dequeueCounts[Taken[i]]
      BY <1>5, <1>6, <1>8
  <2> QED
      BY <1>8, <2>1, <2>2
<1>9. OneHolder'
  <2> SUFFICES ASSUME NEW q \in Batch, NEW r \in Batch,
                      NEW i \in DOMAIN Todo(q)', NEW j \in DOMAIN Todo(r)',
                      Todo(q)'[i].message = Todo(r)'[j].message,
                      q # r => /\ Todo(q)'[i].message \notin completed
                               /\ Todo(q)'[i].count = Todo(r)'[j].count
                               /\ Todo(q)'[i].count <= MaxAttempts
               PROVE  q = r /\ i = j
      BY <1>1 DEF OneHolder
  <2>1. CASE q = b /\ r = b
      BY <1>2, <1>5, <2>1
  <2>2. CASE q = b /\ r # b
      BY <1>8, <2>2
  <2>3. CASE q # b /\ r = b
      BY <1>8, <2>3
  <2>4. CASE q # b /\ r # b
      BY <1>6, <2>4 DEF Held, OneHolder
  <2> QED
      BY <2>1, <2>2, <2>3, <2>4
<1>10. ASSUME NEW m \in Message \ completed PROVE BooksOf(m)'
  <2>1. BooksOf(m) /\ m \in Message
      BY <1>10 DEF Held, BooksOK
  <2>2. \A c \in Waiting(m)' :
          \/ c \in Waiting(m)
          \/ \E i \in DOMAIN Todo(b)' :
                i # 1 /\ Todo(b)'[i].message = m /\ Todo(b)'[i].count = c
      BY <1>6 DEF Waiting, Delivery
  <2>3. batch'[b].pc = "process" =>
          /\ 1 \in DOMAIN Todo(b)'
          /\ attempts' = [attempts EXCEPT ![Taken[1]] =
                             IF @ <= MaxAttempts THEN @ + 1 ELSE @]
    <3> SUFFICES ASSUME batch'[b].pc = "process"
                 PROVE  /\ 1 \in DOMAIN Todo(b)'
                        /\ attempts' = [attempts EXCEPT ![Taken[1]] =
                                           IF @ <= MaxAttempts THEN @ + 1 ELSE @]
        OBVIOUS
    <3>1. 1 \in DOMAIN Todo(b)'
      <4>1. Len(Items) \in Nat /\ Len(Items) >= 1
          BY <1>2, <1>3, LenProperties
      <4> QED
          BY <1>2, <1>3, <4>1
    <3>2. Items[1].message = Taken[1]
        BY <1>3, <1>5, <3>1
    <3> QED
        BY <1>3, <3>1, <3>2
  \* The first item goes to the handler.
  <2>4. CASE batch'[b].pc = "process" /\ Taken[1] = m
    <3> DEFINE c == dequeueCounts[m] + 1
    <3>1. m \in taken /\ dequeueCounts'[m] <= MaxAttempts /\ 1 \in DOMAIN Taken
        BY <1>3, <1>5, <2>3, <2>4
    <3>2. dequeueCounts'[m] = c /\ c \in 1 .. MaxAttempts
        BY <1>4, <2>1, <3>1, Bounds
    <3>3. Waiting(m)' \subseteq Waiting(m)
        BY <1>2, <1>5, <2>2, <2>4, <3>1
    <3>4. attempts'[m] = attempts[m] + 1
      <4>1. attempts[m] <= MaxAttempts
          BY <2>1, AttemptCounted
      <4>2. attempts' = [attempts EXCEPT ![m] =
                               IF @ <= MaxAttempts THEN @ + 1 ELSE @]
          BY <2>3, <2>4
      <4> QED
          BY <2>1, <4>1, <4>2 DEF Types
    <3>5. Tries(m, c)
        BY <3>1, <3>2, <3>3, <3>4 DEF Tries
    <3> QED
        BY <2>1, <3>2, <3>5, BooksKept
  <2>5. CASE ~(batch'[b].pc = "process" /\ Taken[1] = m)
    <3>1. attempts'[m] = attempts[m]
        BY <1>3, <2>1, <2>3, <2>5 DEF Types
    \* Another item waits for its turn, if it may still be tried.
    <3>2. CASE m \in taken /\ dequeueCounts'[m] <= MaxAttempts
      <4> DEFINE c == dequeueCounts[m] + 1
      <4>1. dequeueCounts'[m] = c /\ c \in 1 .. MaxAttempts
          BY <1>4, <2>1, <3>2, Bounds
      <4>2. Waiting(m)' \subseteq Waiting(m) \cup {c}
          BY <1>5, <2>2, <4>1
      <4>3. Waits(m, c)
          BY <3>1, <3>2, <4>1, <4>2 DEF Waits
      <4> QED
          BY <2>1, <4>1, <4>3, BooksKept
    <3>3. CASE ~(m \in taken /\ dequeueCounts'[m] <= MaxAttempts)
      <4>1. Waiting(m)' \subseteq Waiting(m)
        <5>1. \A c \in Waiting(m)' : c <= MaxAttempts
            BY Bounds DEF Waiting
        <5> QED
            BY <1>5, <2>2, <3>3, <5>1
      <4>2. Lets(m)
          BY <1>4, <2>1, <3>1, <4>1 DEF Lets
      <4> QED
          BY <2>1, <4>2, BooksKept
    <3> QED
        BY <3>2, <3>3
  <2> QED
      BY <2>4, <2>5
<1> QED
    BY <1>1, <1>7, <1>9, <1>10 DEF Held, BooksOK

----------------------------------------------------------------------------
(* The invariant.                                                           *)

\* At first nothing is sent and no call is running ...
LEMMA InitIInv == Init => IInv
<1> SUFFICES ASSUME Init PROVE IInv
    OBVIOUS
<1>1. /\ dequeueCounts = [m \in Message |-> 0] /\ attempts = [m \in Message |-> 0]
      /\ batch = [b \in Batch |-> Free] /\ immediates = 0 /\ interval = FALSE
      /\ sent = {} /\ completed = {}
    BY DEF Init, QueueInit, ProcessorInit
<1>2. 0 \in 0 .. CountCap /\ 0 \in 0 .. MaxImmediates /\ 0 \in 0 .. MaxAttempts + 1
    BY Bounds
<1>3. Free \in Continuation
    BY DEF Continuation
<1>4. Types
    BY <1>1, <1>2, <1>3 DEF Types
<1>5. \A b \in Batch : DOMAIN Todo(b) = {}
    BY <1>1 DEF Free, Todo
<1>6. SentOK /\ CountsOK /\ OneHolder
    BY <1>5 DEF SentOK, CountsOK, OneHolder
<1>7. ASSUME NEW m \in Message PROVE BooksOf(m)
  <2>1. Waiting(m) = {}
      BY <1>5 DEF Waiting
  <2>2. attempts[m] = 0 /\ dequeueCounts[m] = 0
      BY <1>1
  <2> QED
      BY <2>1, <2>2, FS_EmptySet, Bounds DEF BooksOf
<1> QED
    BY <1>4, <1>6, <1>7, PlacesInit DEF IInv, Held, BooksOK

\* ... and calls, what they hold and what was counted stay within their types.
LEMMA NextTypes == IInv /\ [Next]_vars => Types'
<1> SUFFICES ASSUME IInv, [Next]_vars PROVE Types'
    OBVIOUS
<1>1. PInv /\ Types /\ Held
    BY DEF IInv
<1>2. ASSUME NEW m \in Message, Enqueue(m) \/ VisibilityTimeout(m) PROVE Types'
    BY <1>1, <1>2 DEF Enqueue, enqueue, VisibilityTimeout, Timeout, processorVars, Types
<1>3. ASSUME NEW b \in Batch, BeginBatch(b) PROVE Types'
  <2>1. Items \in Seq(Item) /\ Len(Items) <= BatchSize
      BY <1>1, ItemsShape
  <2>2. /\ batch' \in [Batch -> Continuation]
        /\ attempts' \in [Message -> 0 .. MaxAttempts + 1]
      BY <1>1, <1>3, <2>1, LoopEffect DEF BeginBatch
  <2>3. immediates' \in 0 .. MaxImmediates /\ interval' \in BOOLEAN
      BY <1>1, <1>3, Bounds, SMT DEF BeginBatch, Fires, Types
  <2>4. dequeueCounts' \in [Message -> 0 .. CountCap]
    <3>1. \A m \in Message : Bump(dequeueCounts[m]) \in 0 .. CountCap
        BY <1>1, BumpCounts, Bounds, SMT DEF Types
    <3> QED
        BY <1>1, <1>3, <3>1 DEF BeginBatch, dequeue, Types
  <2> QED
      BY <1>1, <1>3, <2>2, <2>3, <2>4 DEF BeginBatch, Types
<1>4. ASSUME NEW b \in Batch, HandlerSucceeds(b) PROVE Types'
  <2> DEFINE c == [batch[b] EXCEPT !.pc = "complete"]
  <2>1. batch[b] \in Continuation /\ batch[b].pc = "process"
      BY <1>1, <1>4 DEF HandlerSucceeds, Handled, Types
  <2>2. c \in Continuation
      BY <2>1 DEF Continuation, Free, Looping
  <2>3. batch' = [batch EXCEPT ![b] = c]
      BY <1>4 DEF HandlerSucceeds, Handled
  <2>4. batch' \in [Batch -> Continuation]
      BY <1>1, <2>2, <2>3 DEF Types
  <2> QED
      BY <1>1, <1>4, <2>4 DEF HandlerSucceeds, Handled, queueVars, Types
<1>5. ASSUME NEW b \in Batch, HandlerFails(b) PROVE Types'
  <2>1. batch[b].pc \in Looping /\ Loop(b, Tail(batch[b].todo))
      BY <1>5 DEF HandlerFails, HandlerThrew, Looping
  <2>2. /\ batch' \in [Batch -> Continuation]
        /\ attempts' \in [Message -> 0 .. MaxAttempts + 1]
      BY <1>1, <2>1, TailEffect
  <2> QED
      BY <1>1, <1>5, <2>2 DEF HandlerFails, HandlerThrew, queueVars, Types
<1>6. ASSUME NEW b \in Batch, Complete(b) PROVE Types'
  <2>1. batch[b].pc \in Looping /\ Loop(b, Tail(batch[b].todo))
      BY <1>6 DEF Complete, CompleteSettled, Looping
  <2>2. /\ batch' \in [Batch -> Continuation]
        /\ attempts' \in [Message -> 0 .. MaxAttempts + 1]
      BY <1>1, <2>1, TailEffect
  <2>3. Current(b) \in sent
    <3>1. /\ Current(b) = Todo(b)[1].message /\ 1 \in DOMAIN Todo(b)
        BY <1>1, <2>1, TodoShape
    <3> QED
        BY <1>1, <3>1 DEF Held, SentOK
  <2>4. dequeueCounts' \in [Message -> 0 .. CountCap]
    <3>1. 0 \in 0 .. CountCap
        BY Bounds
    <3> QED
        BY <1>1, <1>6, <3>1 DEF Complete, complete, Types
  <2> QED
      BY <1>1, <1>6, <2>2, <2>3, <2>4 DEF Complete, complete, CompleteSettled, Types
<1>7. CASE ProcessorStart
  <2>1. immediates' \in 0 .. MaxImmediates
      BY <1>1, <1>7, Bounds, SMT DEF ProcessorStart, Start, Types
  <2> QED
      BY <1>1, <1>7, <2>1 DEF ProcessorStart, Start, queueVars, Types
<1>8. CASE ProcessorStop
    BY <1>1, <1>8 DEF ProcessorStop, Stop, queueVars, Types
<1>9. CASE UNCHANGED vars
    BY <1>1, <1>9 DEF vars, Types
<1> QED
    BY <1>2, <1>3, <1>4, <1>5, <1>6, <1>7, <1>8, <1>9 DEF Next

\* Every step keeps the books.
LEMMA NextIInv == IInv /\ [Next]_vars => IInv'
<1> SUFFICES ASSUME IInv, [Next]_vars PROVE IInv'
    OBVIOUS
<1>1. PInv /\ Types /\ Held /\ PInv' /\ Types'
    BY PlacesNext, NextTypes DEF IInv
<1>2. ASSUME \/ \E m \in Message : Enqueue(m)
             \/ ProcessorStart \/ ProcessorStop \/ UNCHANGED vars
             \/ \E m \in Message : VisibilityTimeout(m)
      PROVE  Held'
  <2>1. /\ UNCHANGED <<batch, attempts, dequeueCounts, completed>>
        /\ sent \subseteq sent'
      BY <1>2 DEF Enqueue, enqueue, VisibilityTimeout, Timeout, ProcessorStart, Start,
                  ProcessorStop, Stop, processorVars, queueVars, vars
  <2>2. \A b \in Batch : Todo(b)' = Todo(b)
      BY <2>1 DEF Todo
  <2> QED
      BY <1>1, <2>1, <2>2, QuietKeepsHeld
<1>3. ASSUME NEW b \in Batch, BeginBatch(b) PROVE Held'
    BY <1>1, <1>3, BeginBatchKeepsHeld
<1>4. ASSUME NEW b \in Batch, HandlerSucceeds(b) PROVE Held'
  <2>1. /\ batch[b].pc = "process" /\ batch[b] \in Continuation
        /\ batch' = [batch EXCEPT ![b] = [batch[b] EXCEPT !.pc = "complete"]]
        /\ UNCHANGED <<attempts, dequeueCounts, completed, sent>>
      BY <1>1, <1>4 DEF HandlerSucceeds, Handled, queueVars, Types
  <2>2. batch[b] = [pc |-> batch[b].pc, todo |-> batch[b].todo]
      BY <2>1 DEF Continuation, Free
  <2>3. /\ batch'[b].pc = "complete" /\ batch'[b].todo = batch[b].todo
        /\ \A q \in Batch : q # b => batch'[q] = batch[q]
      BY <1>1, <2>1, <2>2 DEF Types
  <2>4. \A q \in Batch : Todo(q)' = Todo(q)
      BY <2>1, <2>3 DEF Todo
  <2> QED
      BY <1>1, <2>1, <2>4, QuietKeepsHeld
<1>5. ASSUME NEW b \in Batch, HandlerFails(b) PROVE Held'
  <2>1. /\ batch[b].pc \in Looping /\ Loop(b, Tail(batch[b].todo))
        /\ UNCHANGED <<sent, completed, dequeueCounts>>
      BY <1>5 DEF HandlerFails, HandlerThrew, Looping, queueVars
  <2> QED
      BY <1>1, <2>1, TailKeepsHeld
<1>6. ASSUME NEW b \in Batch, Complete(b) PROVE Held'
  <2>1. /\ batch[b].pc \in Looping /\ Loop(b, Tail(batch[b].todo))
        /\ UNCHANGED sent /\ completed' = completed \cup {Current(b)}
        /\ dequeueCounts' = [dequeueCounts EXCEPT ![Current(b)] = 0]
      BY <1>6 DEF Complete, complete, CompleteSettled, Looping
  <2>2. \A m \in Message \ completed' : dequeueCounts'[m] = dequeueCounts[m]
      BY <1>1, <2>1 DEF Types
  <2> QED
      BY <1>1, <2>1, <2>2, TailKeepsHeld
<1> QED
    BY <1>1, <1>2, <1>3, <1>4, <1>5, <1>6 DEF Next, IInv

\* The invariant of all reachable states, from which the next theorems follow.
THEOREM InMemoryInductive == Spec => []IInv
<1> QED
    BY InitIInv, NextIInv, PTL DEF Spec

\* Types: a call is idle, or in its loop with items of its own, no more than it
\* asked for.
THEOREM InMemoryTypeCorrect == Spec => []TypeOK
<1>1. IInv => TypeOK
  <2> SUFFICES ASSUME IInv PROVE TypeOK
      OBVIOUS
  <2>1. QueueTypes /\ Types
      BY DEF IInv, PInv
  <2>2. ASSUME NEW b \in Batch
        PROVE  \/ batch[b] = Free
               \/ /\ batch[b].pc \in {"process", "complete", "drop"}
                  /\ batch[b].todo \in UNION {[1 .. n -> Item] : n \in 1 .. BatchSize}
      BY <2>1 DEF Types, Continuation, Looping, Todos
  <2> QED
      BY <2>1, <2>2 DEF TypeOK, QueueTypes, Types
<1> QED
    BY <1>1, InMemoryInductive, PTL

\* However calls overlap and time out, the handler is called at most MaxAttempts
\* times with a message that was not completed.
THEOREM InMemoryAttemptsBounded == Spec => []AttemptsBounded
<1>1. IInv => AttemptsBounded
  <2> SUFFICES ASSUME IInv, NEW m \in Message \ completed
               PROVE  attempts[m] <= MaxAttempts
      BY DEF AttemptsBounded
  <2> QED
      BY AttemptCounted DEF IInv, Held, BooksOK
<1> QED
    BY <1>1, InMemoryInductive, PTL
=============================================================================
