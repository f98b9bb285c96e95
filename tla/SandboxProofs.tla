---------------------------- MODULE SandboxProofs ----------------------------
(****************************************************************************)
(* Theorems about Sandbox and about its Argo worker, for any number of      *)
(* messages or runs, of overlapping calls of processBatch(), of items per   *)
(* batch and of attempts.                                                   *)
(*                                                                          *)
(* The first part is about ArgoWorker alone.  A delivery is a message and   *)
(* its count.  The counts up to MaxAttempts are exact, so that two calls    *)
(* never hold the same delivery of that kind, and each of them accounts for *)
(* at most one attempt and one workflow.  The invariant keeps the books:    *)
(* workflows made and handlers still running are no more than attempts;     *)
(* attempts and deliveries still waiting for their turn are no more than    *)
(* deliveries, and no more than MaxAttempts.                                *)
(*                                                                          *)
(* The second part is about the worker with the laboratory that hears from  *)
(* its workflows, whatever the order in which the workflows of a run report *)
(* and in which late reports are carried out.                               *)
(****************************************************************************)
EXTENDS Sandbox, ProcessorProofs

\* Deliveries of m that the handler is working on.
Trying(m) ==
    {c \in 1 .. MaxAttempts :
        \E b \in Batch : batch[b].pc = "process" /\ Todo(b)[1] = Delivery(m, c)}

\* An item is not ahead of the count of the queue.
CountsOK ==
    \A b \in Batch : \A i \in DOMAIN Todo(b) :
        Todo(b)[i].count <= dequeueCount[Todo(b)[i].message]

\* A call holds a message once, and no other call holds the same delivery of it.
OneHolder ==
    \A b, q \in Batch : \A i \in DOMAIN Todo(b), j \in DOMAIN Todo(q) :
        /\ Todo(b)[i].message = Todo(q)[j].message
        /\ b # q => /\ Todo(b)[i].count = Todo(q)[j].count
                    /\ Todo(b)[i].count <= MaxAttempts
        => b = q /\ i = j

\* What processBatch() has learnt of the current item before it awaits.
CurrentOK ==
    \A b \in Batch :
        /\ batch[b].pc = "process" => Todo(b)[1].count <= MaxAttempts
        /\ batch[b].pc = "complete" => workflows[Todo(b)[1].message] > 0
        /\ batch[b].pc = "drop" => Todo(b)[1].count > MaxAttempts

BooksOf(m) ==
    /\ workflows[m] + Cardinality(Trying(m)) <= attempts[m]
    /\ attempts[m] + Cardinality(Waiting(m)) <= dequeueCount[m]
    /\ attempts[m] + Cardinality(Waiting(m)) <= MaxAttempts

BooksOK == \A m \in Message : BooksOf(m)

Held == CountsOK /\ OneHolder /\ CurrentOK /\ BooksOK

IInv == TypeOK /\ Held /\ RemovedOnlyWhenDone

----------------------------------------------------------------------------
(* Sequences of items.                                                      *)

\* A call in its loop has an item to go on with.
LEMMA ContinuationShape ==
    ASSUME NEW c \in Continuation
    PROVE  /\ c.pc \in {"free", "dequeue"} \cup Looping
           /\ c.pc \in Looping => /\ c = [pc |-> c.pc, todo |-> c.todo]
                                  /\ c.todo \in Seq(Item)
                                  /\ c.todo # << >>
                                  /\ Len(c.todo) <= BatchSize
  BY TodoSequences DEF Continuation, Looping, Todos

\* The items of a call, as a sequence.
LEMMA TodoShape ==
    ASSUME TypeOK, NEW b \in Batch
    PROVE  /\ Todo(b) \in Seq(Item) /\ Len(Todo(b)) <= BatchSize
           /\ Len(Todo(b)) \in Nat
           /\ DOMAIN Todo(b) = 1 .. Len(Todo(b))
           /\ batch[b].pc \in Looping => /\ Todo(b) = batch[b].todo
                                         /\ Len(Todo(b)) >= 1
                                         /\ Todo(b)[1] \in Item
                                         /\ Current(b) = Todo(b)[1].message
           /\ batch[b].pc \notin Looping => Todo(b) = << >>
<1>1. batch[b] \in Continuation
  BY DEF TypeOK
<1>2. batch[b].pc \in Looping => batch[b].todo \in Todos
  BY <1>1 DEF Continuation, Looping, Todos
<1> QED
  BY <1>2, TodoItems

\* What the service may deliver, as items.
LEMMA ItemsShape ==
    ASSUME TypeOK, NEW s \in Deliveries
    PROVE  /\ DOMAIN s = 1 .. Len(s)
           /\ Items(s) \in Seq(Item)
           /\ Len(Items(s)) = Len(s) /\ Len(s) \in Nat /\ Len(s) <= BatchSize
           /\ \A i \in 1 .. Len(s) :
                 /\ s[i] \in Message
                 /\ Items(s)[i] = Delivery(s[i], Bump(dequeueCount[s[i]]))
           /\ \A i, j \in 1 .. Len(s) : s[i] = s[j] => i = j
<1>1. /\ s \in Seq(Message) /\ Len(s) <= BatchSize
      /\ \A i, j \in DOMAIN s : i # j => s[i] # s[j]
  <2>1. CASE Visible = {}
    <3>1. s = << >>
      BY <2>1 DEF Deliveries
    <3> QED
      BY <3>1, EmptySeq, LenProperties, Bounds
  <2>2. CASE Visible # {}
    <3>1. PICK n \in 1 .. BatchSize : s \in [1 .. n -> Visible]
      BY <2>2 DEF Deliveries
    <3>2. n \in Nat /\ n <= BatchSize /\ s \in [1 .. n -> Message]
      BY <3>1, Bounds DEF Visible
    <3>3. s \in Seq(Message)
      BY <3>2, SeqDef
    <3>4. Len(s) = n
      BY <3>2, <3>3, LenProperties
    <3>5. \A i, j \in DOMAIN s : i # j => s[i] # s[j]
      BY <2>2 DEF Deliveries
    <3> QED
      BY <3>2, <3>3, <3>4, <3>5
  <2> QED
    BY <2>1, <2>2
<1>2. /\ Len(s) \in Nat /\ DOMAIN s = 1 .. Len(s)
      /\ \A i \in 1 .. Len(s) : s[i] \in Message
  BY <1>1, LenProperties, ElementOfSeq
<1>3. \A i \in 1 .. Len(s) :
        /\ Items(s)[i] = Delivery(s[i], Bump(dequeueCount[s[i]]))
        /\ Items(s)[i] \in Item
  BY <1>2, BumpCounts, SMT DEF Items, Delivery, Item, TypeOK
<1>4. Items(s) \in [1 .. Len(s) -> Item]
  BY <1>2, <1>3 DEF Items
<1>5. Items(s) \in Seq(Item)
  BY <1>2, <1>4, SeqDef
<1>6. Len(Items(s)) = Len(s)
  BY <1>2, <1>4, <1>5, LenProperties
<1> QED
  BY <1>1, <1>2, <1>3, <1>5, <1>6

\* What the loop of processBatch() does next with the items it has left.
LEMMA LoopEffect ==
    ASSUME TypeOK, NEW b \in Batch, NEW todo \in Seq(Item), Len(todo) <= BatchSize,
           Loop(b, todo)
    PROVE  /\ batch' \in [Batch -> Continuation]
           /\ attempts' \in [Message -> 0 .. MaxAttempts + 1]
           /\ Todo(b)' = todo
           /\ \A q \in Batch : q # b => batch'[q] = batch[q] /\ Todo(q)' = Todo(q)
           /\ batch'[b].pc \in {"free", "process", "drop"}
           /\ batch'[b].pc # "process" => attempts' = attempts
           /\ batch'[b].pc = "process" =>
                 /\ todo # << >> /\ Len(todo) >= 1
                 /\ todo[1] \in Item /\ todo[1].count <= MaxAttempts
                 /\ attempts' = [attempts EXCEPT ![todo[1].message] =
                                    IF @ <= MaxAttempts THEN @ + 1 ELSE @]
           /\ batch'[b].pc = "drop" => todo[1].count > MaxAttempts
<1>1. /\ batch \in [Batch -> Continuation] /\ Free \in Continuation
      /\ attempts \in [Message -> 0 .. MaxAttempts + 1]
  BY DEF TypeOK, Free, Continuation
<1>2. \A pc \in Looping, s \in Todos : [pc |-> pc, todo |-> s] \in Continuation
  BY DEF Continuation, Looping, Todos
<1> QED
  BY <1>1, <1>2, LoopGoesOn

----------------------------------------------------------------------------
(* Types.                                                                   *)

\* The initial state is well typed ...
LEMMA InitTypeOK == Init => TypeOK
<1>1. Free \in Continuation
  BY DEF Free, Continuation
<1>2. 0 \in 0 .. CountCap /\ 0 \in 0 .. MaxImmediates /\ 0 \in 0 .. MaxAttempts + 1
  BY Bounds
<1> SUFFICES ASSUME Init PROVE TypeOK
  OBVIOUS
<1>3. /\ stored \in [Message -> {"absent", "visible", "hidden", "deleted"}]
      /\ receipt \in [Message -> Batch \cup {NoReceipt}]
      /\ batch \in [Batch -> Continuation]
      /\ interval \in BOOLEAN
  BY <1>1 DEF Init, QueueInit, ProcessorInit
<1>4. /\ dequeueCount \in [Message -> 0 .. CountCap]
      /\ immediates \in 0 .. MaxImmediates
      /\ attempts \in [Message -> 0 .. MaxAttempts + 1]
      /\ workflows \in [Message -> Nat]
  BY <1>2, SMT DEF Init, QueueInit, ProcessorInit
<1> QED
  BY <1>3, <1>4 DEF TypeOK

\* What a delivery does to the queue.
LEMMA DeliverTypes ==
    ASSUME TypeOK, NEW b \in Batch, NEW s, Deliver(b, s)
    PROVE  /\ stored' \in [Message -> {"absent", "visible", "hidden", "deleted"}]
           /\ dequeueCount' \in [Message -> 0 .. CountCap]
           /\ receipt' \in [Message -> Batch \cup {NoReceipt}]
<1>1. \A m \in Message : Bump(dequeueCount[m]) \in 0 .. CountCap
  BY BumpCounts, Bounds, SMT DEF TypeOK
<1> QED
  BY <1>1 DEF Deliver, TypeOK

\* The loop goes on, whatever it was that ended the await before.
LEMMA LoopTypes ==
    ASSUME TypeOK, NEW b \in Batch, batch[b].pc \in Looping,
           Loop(b, Tail(batch[b].todo))
    PROVE  /\ batch' \in [Batch -> Continuation]
           /\ attempts' \in [Message -> 0 .. MaxAttempts + 1]
<1>1. /\ Todo(b) = batch[b].todo /\ Todo(b) \in Seq(Item)
      /\ Len(Todo(b)) >= 1 /\ Len(Todo(b)) \in Nat /\ Len(Todo(b)) <= BatchSize
  BY TodoShape
<1>2. Tail(batch[b].todo) \in Seq(Item) /\ Len(Tail(batch[b].todo)) <= BatchSize
  BY <1>1, TailShape, Bounds
<1> QED
  BY <1>2, LoopEffect

\* ... and every step leads to another such state.
LEMMA NextTypeOK == TypeOK /\ [Next]_vars => TypeOK'
<1> SUFFICES ASSUME TypeOK, [Next]_vars PROVE TypeOK'
  OBVIOUS
<1>1. CASE UNCHANGED vars
  BY <1>1 DEF vars, TypeOK
<1>2. ASSUME NEW m \in Message, Enqueue(m) \/ Timeout(m) PROVE TypeOK'
  BY <1>2 DEF Enqueue, Timeout, Send, Reappear, processorVars, TypeOK
<1>3. ASSUME NEW b \in Batch, BeginBatch(b) PROVE TypeOK'
  <2>1. [pc |-> "dequeue"] \in Continuation
    BY DEF Continuation
  <2>2. immediates' \in 0 .. MaxImmediates
    BY <1>3, Bounds, SMT DEF BeginBatch, Call, Fires, TypeOK
  <2> QED
    BY <1>3, <2>1, <2>2 DEF BeginBatch, Call, Fires, queueVars, TypeOK
<1>4. ASSUME NEW b \in Batch, Dequeue(b) PROVE TypeOK'
  <2>1. PICK s \in Deliveries : Deliver(b, s) /\ Received(b, Items(s))
    BY <1>4 DEF Dequeue
  <2>2. Items(s) \in Seq(Item) /\ Len(Items(s)) <= BatchSize
    BY ItemsShape
  <2>3. Loop(b, Items(s)) /\ UNCHANGED <<interval, immediates, workflows>>
    BY <1>4, <2>1 DEF Received, Dequeue
  <2>4. /\ batch' \in [Batch -> Continuation]
        /\ attempts' \in [Message -> 0 .. MaxAttempts + 1]
    BY <2>2, <2>3, LoopEffect
  <2> QED
    BY <2>1, <2>3, <2>4, DeliverTypes DEF TypeOK
<1>5. ASSUME NEW b \in Batch, DequeueFails(b) PROVE TypeOK'
  <2>1. Free \in Continuation
    BY DEF Free, Continuation
  <2>2. batch' \in [Batch -> Continuation]
    BY <1>5, <2>1 DEF DequeueFails, DequeueRejected, TypeOK
  <2>3. CASE UNCHANGED queueVars
    BY <1>5, <2>2, <2>3 DEF DequeueFails, DequeueRejected, queueVars, TypeOK
  <2>4. ASSUME NEW s \in Deliveries, Deliver(b, s) PROVE TypeOK'
    BY <1>5, <2>2, <2>4, DeliverTypes DEF DequeueFails, DequeueRejected, TypeOK
  <2> QED
    BY <1>5, <2>3, <2>4 DEF DequeueFails
<1>6. ASSUME NEW b \in Batch, ProcessRun(b) PROVE TypeOK'
  <2> DEFINE c == [batch[b] EXCEPT !.pc = "complete"]
  <2>1. batch[b] \in Continuation /\ batch[b].pc = "process"
    BY <1>6 DEF ProcessRun, Handled, TypeOK
  <2>2. c \in Continuation
    BY <2>1 DEF Continuation
  <2>3. batch' = [batch EXCEPT ![b] = c]
    BY <1>6 DEF ProcessRun, Handled
  <2>4. batch' \in [Batch -> Continuation]
    BY <2>2, <2>3 DEF TypeOK
  <2>5. workflows' \in [Message -> Nat]
    <3>1. workflows' = [workflows EXCEPT ![Current(b)] = workflows[Current(b)] + 1]
      BY <1>6 DEF ProcessRun
    <3>2. workflows \in [Message -> Nat]
      BY DEF TypeOK
    <3>3. Current(b) \in Message
      BY <2>1, TodoShape DEF Looping, Item
    <3>4. workflows[Current(b)] + 1 \in Nat
      BY <3>2, <3>3
    <3> QED
      BY <3>1, <3>2, <3>4
  <2> QED
    BY <1>6, <2>4, <2>5 DEF ProcessRun, Handled, queueVars, TypeOK
<1>7. ASSUME NEW b \in Batch, ProcessRunFails(b) PROVE TypeOK'
  <2>1. /\ batch' \in [Batch -> Continuation]
        /\ attempts' \in [Message -> 0 .. MaxAttempts + 1]
    BY <1>7, LoopTypes DEF ProcessRunFails, HandlerThrew, Looping
  <2>2. workflows' \in [Message -> Nat]
    BY <1>7, SMT DEF ProcessRunFails, TypeOK
  <2> QED
    BY <1>7, <2>1, <2>2 DEF ProcessRunFails, HandlerThrew, queueVars, TypeOK
<1>8. ASSUME NEW b \in Batch, Complete(b) \/ CompleteFails(b) PROVE TypeOK'
  <2>1. CompleteSettled(b) /\ UNCHANGED <<interval, immediates, workflows>>
    BY <1>8 DEF Complete, CompleteFails, CompleteSettled
  <2>2. /\ batch' \in [Batch -> Continuation]
        /\ attempts' \in [Message -> 0 .. MaxAttempts + 1]
    BY <2>1, LoopTypes DEF CompleteSettled, Looping
  <2>3. /\ stored' \in [Message -> {"absent", "visible", "hidden", "deleted"}]
        /\ UNCHANGED <<dequeueCount, receipt>>
    BY <1>8 DEF Complete, Delete, CompleteFails, queueVars, TypeOK
  <2> QED
    BY <2>1, <2>2, <2>3 DEF TypeOK
<1>9. CASE WorkerStart
  <2>1. immediates' \in 0 .. MaxImmediates
    BY <1>9, Bounds, SMT DEF WorkerStart, Start, TypeOK
  <2> QED
    BY <1>9, <2>1 DEF WorkerStart, Start, queueVars, TypeOK
<1>10. CASE WorkerStop
  BY <1>10 DEF WorkerStop, Stop, queueVars, TypeOK
<1>11. CASE Crash
  <2>1. Free \in Continuation /\ 1 \in 0 .. MaxImmediates
    BY Bounds DEF Free, Continuation
  <2> QED
    BY <1>11, <2>1 DEF Crash, Restart, queueVars, TypeOK
<1> QED
  BY <1>1, <1>2, <1>3, <1>4, <1>5, <1>6, <1>7, <1>8, <1>9, <1>10, <1>11 DEF Next

\* Types: each call of processBatch() is at one of its awaits and holds no more
\* items than it asked for.
THEOREM WorkerTypeCorrect == Spec => []TypeOK
  BY InitTypeOK, NextTypeOK, PTL DEF Spec

----------------------------------------------------------------------------
(* The books of one message.                                                *)

\* What a step may do to the books of a message: nothing but let deliveries go,
Lets(m) ==
    /\ Waiting(m)' \subseteq Waiting(m) /\ Trying(m)' \subseteq Trying(m)
    /\ attempts'[m] = attempts[m] /\ workflows'[m] = workflows[m]
    /\ dequeueCount'[m] >= dequeueCount[m]

\* add a delivery that has to wait for its turn,
Waits(m, c) ==
    /\ Waiting(m)' \subseteq Waiting(m) \cup {c} /\ Trying(m)' \subseteq Trying(m)
    /\ attempts'[m] = attempts[m] /\ workflows'[m] = workflows[m]
    /\ dequeueCount'[m] = dequeueCount[m] + 1 /\ dequeueCount'[m] <= MaxAttempts

\* give a delivery to the handler, one that waited or a new one,
Tries(m, c) ==
    /\ Trying(m)' \subseteq Trying(m) \cup {c}
    /\ attempts'[m] = attempts[m] + 1 /\ workflows'[m] = workflows[m]
    /\ \/ /\ c \in Waiting(m) /\ Waiting(m)' \subseteq Waiting(m) \ {c}
          /\ dequeueCount'[m] = dequeueCount[m]
       \/ /\ Waiting(m)' \subseteq Waiting(m)
          /\ dequeueCount'[m] = dequeueCount[m] + 1 /\ dequeueCount'[m] <= MaxAttempts

\* or end an attempt, with a workflow or without one.
Ends(m, c) ==
    /\ c \in Trying(m) /\ Trying(m)' \subseteq Trying(m) \ {c}
    /\ Waiting(m)' \subseteq Waiting(m)
    /\ attempts'[m] = attempts[m]
    /\ workflows'[m] \in {workflows[m], workflows[m] + 1}
    /\ dequeueCount'[m] = dequeueCount[m]

\* A step that does one of these keeps the books.
LEMMA BooksKept ==
    ASSUME TypeOK, TypeOK', NEW m \in Message, BooksOf(m),
           \/ Lets(m)
           \/ \E c \in 1 .. MaxAttempts : Waits(m, c) \/ Tries(m, c) \/ Ends(m, c)
    PROVE  BooksOf(m)'
<1> DEFINE W == Waiting(m)
           T == Trying(m)
<1>1. /\ W \in SUBSET (1 .. MaxAttempts) /\ T \in SUBSET (1 .. MaxAttempts)
      /\ W' \in SUBSET (1 .. MaxAttempts) /\ T' \in SUBSET (1 .. MaxAttempts)
  BY DEF Waiting, Trying
<1>2. /\ attempts[m] \in Nat /\ attempts'[m] \in Nat
      /\ workflows[m] \in Nat /\ workflows'[m] \in Nat
      /\ dequeueCount[m] \in Nat /\ dequeueCount'[m] \in Nat
      /\ MaxAttempts \in Nat
  BY Bounds, SMT DEF TypeOK
<1>3. /\ workflows[m] + Cardinality(T) <= attempts[m]
      /\ attempts[m] + Cardinality(W) <= dequeueCount[m]
      /\ attempts[m] + Cardinality(W) <= MaxAttempts
  BY DEF BooksOf
<1> SUFFICES /\ workflows'[m] + Cardinality(T') <= attempts'[m]
             /\ attempts'[m] + Cardinality(W') <= dequeueCount'[m]
             /\ attempts'[m] + Cardinality(W') <= MaxAttempts
  BY DEF BooksOf
<1>4. CASE Lets(m)
  <2>1. W' \in SUBSET W /\ T' \in SUBSET T
    BY <1>4 DEF Lets
  <2>2. /\ Cardinality(W') \in Nat /\ Cardinality(W) \in Nat
        /\ Cardinality(T') \in Nat /\ Cardinality(T) \in Nat
        /\ Cardinality(W') <= Cardinality(W) /\ Cardinality(T') <= Cardinality(T)
    BY <1>1, <2>1, NoMore
  <2> HIDE DEF W, T
  <2> QED
    BY <1>2, <1>3, <1>4, <2>2 DEF Lets
<1>5. ASSUME NEW c \in 1 .. MaxAttempts, Waits(m, c)
      PROVE  /\ workflows'[m] + Cardinality(T') <= attempts'[m]
             /\ attempts'[m] + Cardinality(W') <= dequeueCount'[m]
             /\ attempts'[m] + Cardinality(W') <= MaxAttempts
  <2>1. W' \in SUBSET (W \cup {c}) /\ T' \in SUBSET T
    BY <1>5 DEF Waits
  <2>2. /\ Cardinality(W') \in Nat /\ Cardinality(W) \in Nat
        /\ Cardinality(T') \in Nat /\ Cardinality(T) \in Nat
        /\ Cardinality(W') <= Cardinality(W) + 1 /\ Cardinality(T') <= Cardinality(T)
    BY <1>1, <2>1, NoMore, OneMore
  <2> HIDE DEF W, T
  <2> QED
    BY <1>2, <1>3, <1>5, <2>2 DEF Waits
<1>6. ASSUME NEW c \in 1 .. MaxAttempts, Tries(m, c)
      PROVE  /\ workflows'[m] + Cardinality(T') <= attempts'[m]
             /\ attempts'[m] + Cardinality(W') <= dequeueCount'[m]
             /\ attempts'[m] + Cardinality(W') <= MaxAttempts
  <2>1. /\ T' \in SUBSET (T \cup {c})
        /\ attempts'[m] = attempts[m] + 1 /\ workflows'[m] = workflows[m]
    BY <1>6 DEF Tries
  <2>2. /\ Cardinality(T') \in Nat /\ Cardinality(T) \in Nat
        /\ Cardinality(T') <= Cardinality(T) + 1
    BY <1>1, <2>1, OneMore
  <2>3. CASE /\ c \in W /\ W' \in SUBSET (W \ {c})
             /\ dequeueCount'[m] = dequeueCount[m]
    <3>1. /\ Cardinality(W') \in Nat /\ Cardinality(W) \in Nat
          /\ Cardinality(W') + 1 <= Cardinality(W)
      BY <1>1, <2>3, OneLess
    <3> HIDE DEF W, T
    <3> QED
      BY <1>2, <1>3, <2>1, <2>2, <2>3, <3>1
  <2>4. CASE /\ W' \in SUBSET W
             /\ dequeueCount'[m] = dequeueCount[m] + 1 /\ dequeueCount'[m] <= MaxAttempts
    <3>1. /\ Cardinality(W') \in Nat /\ Cardinality(W) \in Nat
          /\ Cardinality(W') <= Cardinality(W)
      BY <1>1, <2>4, NoMore
    <3> HIDE DEF W, T
    <3> QED
      BY <1>2, <1>3, <2>1, <2>2, <2>4, <3>1
  <2> QED
    BY <1>6, <2>3, <2>4 DEF Tries
<1>7. ASSUME NEW c \in 1 .. MaxAttempts, Ends(m, c)
      PROVE  /\ workflows'[m] + Cardinality(T') <= attempts'[m]
             /\ attempts'[m] + Cardinality(W') <= dequeueCount'[m]
             /\ attempts'[m] + Cardinality(W') <= MaxAttempts
  <2>1. W' \in SUBSET W /\ c \in T /\ T' \in SUBSET (T \ {c})
    BY <1>7 DEF Ends
  <2>2. /\ Cardinality(W') \in Nat /\ Cardinality(W) \in Nat
        /\ Cardinality(T') \in Nat /\ Cardinality(T) \in Nat
        /\ Cardinality(W') <= Cardinality(W) /\ Cardinality(T') + 1 <= Cardinality(T)
    BY <1>1, <2>1, NoMore, OneLess
  <2> HIDE DEF W, T
  <2> QED
    BY <1>2, <1>3, <1>7, <2>2 DEF Ends
<1> QED
  BY <1>4, <1>5, <1>6, <1>7

----------------------------------------------------------------------------
(* The steps.                                                               *)

\* Steps that take no item up: some calls may have ended, and deliveries may
\* have been counted that nobody received.
LEMMA QuietKeeps ==
    ASSUME TypeOK, TypeOK', Held, UNCHANGED <<attempts, workflows>>,
           \A m \in Message : dequeueCount'[m] >= dequeueCount[m],
           \A b \in Batch : batch'[b] = batch[b] \/ batch'[b].pc \notin Looping
    PROVE  Held'
<1>1. \A b \in Batch :
        \/ batch'[b] = batch[b] /\ Todo(b)' = Todo(b)
        \/ batch'[b].pc \notin Looping /\ Todo(b)' = << >> /\ DOMAIN Todo(b)' = {}
  BY DEF Todo, Looping
<1>2. \A b \in Batch : \A i \in DOMAIN Todo(b)' :
        /\ i \in DOMAIN Todo(b) /\ Todo(b)'[i] = Todo(b)[i]
        /\ Todo(b)[i] \in Item
  BY <1>1, TodoShape, ElementOfSeq
<1>3. CountsOK'
  <2> SUFFICES ASSUME NEW b \in Batch, NEW i \in DOMAIN Todo(b)'
               PROVE  Todo(b)'[i].count <= dequeueCount'[Todo(b)'[i].message]
    BY DEF CountsOK
  <2>1. /\ i \in DOMAIN Todo(b) /\ Todo(b)'[i] = Todo(b)[i]
        /\ Todo(b)[i].message \in Message /\ Todo(b)[i].count \in Nat
    BY <1>2, Bounds, SMT DEF Item
  <2>2. Todo(b)[i].count <= dequeueCount[Todo(b)[i].message]
    BY <2>1 DEF Held, CountsOK
  <2>3. /\ dequeueCount[Todo(b)[i].message] \in Nat
        /\ dequeueCount'[Todo(b)[i].message] \in Nat
    BY <2>1, Bounds, SMT DEF TypeOK
  <2> QED
    BY <2>1, <2>2, <2>3
<1>4. OneHolder'
  BY <1>2 DEF Held, OneHolder
<1>5. CurrentOK'
  BY <1>1 DEF Held, CurrentOK, Looping
<1>6. ASSUME NEW m \in Message PROVE BooksOf(m)'
  <2>1. Waiting(m)' \subseteq Waiting(m)
    BY <1>2 DEF Waiting
  <2>2. Trying(m)' \subseteq Trying(m)
    BY <1>1 DEF Trying, Looping
  <2>3. Lets(m)
    BY <2>1, <2>2 DEF Lets
  <2> QED
    BY <2>3, BooksKept DEF Held, BooksOK
<1> QED
  BY <1>3, <1>4, <1>5, <1>6 DEF Held, BooksOK

\* The handler is done: an attempt becomes a workflow.
LEMMA ProcessRunKeeps ==
    ASSUME TypeOK, TypeOK', Held, NEW b \in Batch, ProcessRun(b)
    PROVE  Held'
<1>1. /\ batch[b].pc = "process" /\ batch'[b].pc = "complete"
      /\ Todo(b)' = Todo(b)
      /\ \A q \in Batch : q # b => batch'[q] = batch[q]
      /\ UNCHANGED <<dequeueCount, attempts>>
  <2>1. /\ batch[b].pc = "process"
        /\ batch' = [batch EXCEPT ![b] = [batch[b] EXCEPT !.pc = "complete"]]
        /\ UNCHANGED <<dequeueCount, attempts>>
    BY DEF ProcessRun, Handled, queueVars
  <2>2. /\ batch'[b] = [batch[b] EXCEPT !.pc = "complete"]
        /\ \A q \in Batch : q # b => batch'[q] = batch[q]
    BY <2>1 DEF TypeOK
  <2>3. batch[b] = [pc |-> batch[b].pc, todo |-> batch[b].todo]
    BY <2>1, ContinuationShape DEF TypeOK, Looping
  <2>4. batch'[b].pc = "complete" /\ batch'[b].todo = batch[b].todo
    BY <2>2, <2>3
  <2> QED
    BY <2>1, <2>2, <2>4 DEF Todo
<1>2. \A q \in Batch : Todo(q)' = Todo(q)
  BY <1>1 DEF Todo
<1>3. PICK m1 \in Message, c1 \in 1 .. MaxAttempts :
        /\ Todo(b)[1] = Delivery(m1, c1)
        /\ Todo(b)[1].message = m1
        /\ 1 \in DOMAIN Todo(b)
        /\ workflows' = [workflows EXCEPT ![m1] = workflows[m1] + 1]
  <2> DEFINE m == Todo(b)[1].message
             c == Todo(b)[1].count
  <2>1. Todo(b)[1] \in Item /\ Current(b) = m /\ 1 \in DOMAIN Todo(b)
    BY <1>1, TodoShape DEF Looping
  <2>2. Todo(b)[1] = Delivery(m, c) /\ m \in Message /\ c \in 1 .. CountCap
    BY <2>1, SMT DEF Delivery, Item
  <2>3. c <= MaxAttempts
    BY <1>1 DEF Held, CurrentOK
  <2>4. c \in 1 .. MaxAttempts
    BY <2>2, <2>3, Bounds
  <2>5. workflows' = [workflows EXCEPT ![m] = workflows[m] + 1]
    BY <2>1 DEF ProcessRun
  <2> QED
    BY <2>1, <2>2, <2>4, <2>5
<1>4. /\ workflows'[m1] = workflows[m1] + 1 /\ workflows[m1] \in Nat
      /\ \A m \in Message : m # m1 => workflows'[m] = workflows[m]
  BY <1>3 DEF TypeOK
<1>5. CountsOK'
  BY <1>1, <1>2 DEF Held, CountsOK
<1>6. OneHolder'
  BY <1>2 DEF Held, OneHolder
<1>7. CurrentOK'
  <2> SUFFICES ASSUME NEW q \in Batch
               PROVE  /\ batch'[q].pc = "process" => Todo(q)[1].count <= MaxAttempts
                      /\ batch'[q].pc = "complete" => workflows'[Todo(q)[1].message] > 0
                      /\ batch'[q].pc = "drop" => Todo(q)[1].count > MaxAttempts
    BY <1>2 DEF CurrentOK
  <2>1. CASE q = b
    <3>1. workflows'[m1] > 0
      BY <1>4
    <3> QED
      BY <1>1, <1>3, <2>1, <3>1
  <2>2. CASE q # b
    <3>1. batch'[q] = batch[q]
      BY <1>1, <2>2
    <3>2. ASSUME batch[q].pc = "complete" PROVE workflows'[Todo(q)[1].message] > 0
      <4>1. Todo(q)[1].message \in Message /\ workflows[Todo(q)[1].message] > 0
        BY <3>2, TodoShape DEF Looping, Item, Held, CurrentOK
      <4>2. CASE Todo(q)[1].message = m1
        BY <1>4, <4>1, <4>2
      <4>3. CASE Todo(q)[1].message # m1
        BY <1>4, <4>1, <4>3
      <4> QED
        BY <4>2, <4>3
    <3> QED
      BY <3>1, <3>2 DEF Held, CurrentOK
  <2> QED
    BY <2>1, <2>2
<1>8. ASSUME NEW m \in Message PROVE BooksOf(m)'
  <2>1. Waiting(m)' \subseteq Waiting(m)
    BY <1>2 DEF Waiting
  <2>2. Trying(m)' \subseteq Trying(m)
    BY <1>1, <1>2 DEF Trying
  <2>3. CASE m # m1
    <3>1. Lets(m)
      <4>1. dequeueCount'[m] >= dequeueCount[m]
        BY <1>1, Bounds, SMT DEF TypeOK
      <4> QED
        BY <1>1, <1>4, <2>1, <2>2, <2>3, <4>1 DEF Lets
    <3> QED
      BY <3>1, BooksKept DEF Held, BooksOK
  <2>4. CASE m = m1
    <3>1. c1 \in Trying(m1)
      BY <1>1, <1>3 DEF Trying
    <3>2. c1 \notin Trying(m1)'
      <4> SUFFICES ASSUME NEW q \in Batch, batch'[q].pc = "process",
                          Todo(q)[1] = Delivery(m1, c1)
                   PROVE  FALSE
        BY <1>2 DEF Trying
      <4>1. q # b /\ batch[q].pc = "process"
        BY <1>1
      <4>2. 1 \in DOMAIN Todo(q)
        BY <4>1, TodoShape DEF Looping
      <4>3. c1 <= MaxAttempts
        BY <1>3, Bounds
      <4> QED
        BY <1>3, <4>1, <4>2, <4>3 DEF Held, OneHolder, Delivery
    <3>3. Ends(m1, c1)
      BY <1>1, <1>4, <2>1, <2>2, <2>4, <3>1, <3>2 DEF Ends
    <3> QED
      BY <1>3, <2>4, <3>3, BooksKept DEF Held, BooksOK
  <2> QED
    BY <2>3, <2>4
<1> QED
  BY <1>5, <1>6, <1>7, <1>8 DEF Held, BooksOK

\* The loop leaves the current item and goes on with the next one.
LEMMA TailKeeps ==
    ASSUME TypeOK, TypeOK', Held, NEW b \in Batch, batch[b].pc \in Looping,
           Loop(b, Tail(batch[b].todo)), UNCHANGED dequeueCount,
           \/ UNCHANGED workflows
           \/ /\ batch[b].pc = "process"
              /\ workflows' = [workflows EXCEPT ![Current(b)] = @ + 1]
    PROVE  Held'
<1>1. /\ Todo(b) \in Seq(Item) /\ Len(Todo(b)) \in Nat /\ Len(Todo(b)) >= 1
      /\ Len(Todo(b)) <= BatchSize /\ DOMAIN Todo(b) = 1 .. Len(Todo(b))
      /\ Todo(b)[1] \in Item /\ Current(b) = Todo(b)[1].message
      /\ Todo(b) = batch[b].todo
  BY TodoShape
<1>2. /\ Tail(Todo(b)) \in Seq(Item) /\ Len(Tail(Todo(b))) = Len(Todo(b)) - 1
      /\ DOMAIN Tail(Todo(b)) = 1 .. (Len(Todo(b)) - 1)
      /\ \A i \in 1 .. (Len(Todo(b)) - 1) : Tail(Todo(b))[i] = Todo(b)[i + 1]
  BY <1>1, TailShape
<1>3. /\ Todo(b)' = Tail(Todo(b))
      /\ \A q \in Batch : q # b => batch'[q] = batch[q] /\ Todo(q)' = Todo(q)
      /\ batch'[b].pc \in {"free", "process", "drop"}
      /\ batch'[b].pc # "process" => attempts' = attempts
      /\ batch'[b].pc = "process" =>
            LET item == Tail(Todo(b))[1] IN
            /\ Len(Tail(Todo(b))) >= 1
            /\ item \in Item /\ item.count <= MaxAttempts
            /\ attempts' = [attempts EXCEPT ![item.message] =
                               IF @ <= MaxAttempts THEN @ + 1 ELSE @]
      /\ batch'[b].pc = "drop" => Tail(Todo(b))[1].count > MaxAttempts
  <2>1. Len(Tail(Todo(b))) <= BatchSize
    BY <1>1, <1>2, Bounds
  <2>2. Loop(b, Tail(Todo(b)))
    BY <1>1
  <2> QED
    BY <1>2, <2>1, <2>2, LoopEffect
\* Where an item was before the step.
<1> DEFINE Was(q, i) == IF q = b THEN i + 1 ELSE i
<1>4. ASSUME NEW q \in Batch, NEW i \in DOMAIN Todo(q)'
      PROVE  /\ i \in Nat /\ Was(q, i) \in DOMAIN Todo(q)
             /\ Todo(q)'[i] = Todo(q)[Was(q, i)]
             /\ Todo(q)'[i] \in Item
             /\ i # 1 \/ q = b => Was(q, i) # 1
  <2>1. CASE q = b
    <3>1. i \in 1 .. (Len(Todo(b)) - 1)
      BY <1>2, <1>3, <1>4, <2>1
    <3>2. i \in Nat /\ i + 1 \in 1 .. Len(Todo(b)) /\ i + 1 # 1
      BY <1>1, <3>1
    <3>3. Todo(b)'[i] = Todo(b)[i + 1]
      BY <1>2, <1>3, <3>1
    <3>4. Todo(b)[i + 1] \in Item
      BY <1>1, <3>2, ElementOfSeq
    <3> QED
      BY <1>1, <2>1, <3>2, <3>3, <3>4
  <2>2. CASE q # b
    <3>1. Todo(q)' = Todo(q)
      BY <1>3, <2>2
    <3>2. Todo(q) \in Seq(Item) /\ Len(Todo(q)) \in Nat /\ DOMAIN Todo(q) = 1 .. Len(Todo(q))
      BY TodoShape
    <3>3. i \in 1 .. Len(Todo(q)) /\ Todo(q)[i] \in Item
      BY <1>4, <3>1, <3>2, ElementOfSeq
    <3> QED
      BY <2>2, <3>1, <3>2, <3>3
  <2> QED
    BY <2>1, <2>2
<1>5. CountsOK'
  <2> SUFFICES ASSUME NEW q \in Batch, NEW i \in DOMAIN Todo(q)'
               PROVE  Todo(q)'[i].count <= dequeueCount[Todo(q)'[i].message]
    BY DEF CountsOK
  <2>1. PICK j \in DOMAIN Todo(q) : Todo(q)'[i] = Todo(q)[j]
    BY <1>4
  <2> QED
    BY <2>1 DEF Held, CountsOK
<1>6. OneHolder'
  <2> SUFFICES ASSUME NEW q \in Batch, NEW r \in Batch,
                      NEW i \in DOMAIN Todo(q)', NEW j \in DOMAIN Todo(r)',
                      Todo(q)'[i].message = Todo(r)'[j].message,
                      q # r => /\ Todo(q)'[i].count = Todo(r)'[j].count
                               /\ Todo(q)'[i].count <= MaxAttempts
               PROVE  q = r /\ i = j
    BY DEF OneHolder
  <2>1. /\ Was(q, i) \in DOMAIN Todo(q) /\ Todo(q)'[i] = Todo(q)[Was(q, i)]
        /\ Was(r, j) \in DOMAIN Todo(r) /\ Todo(r)'[j] = Todo(r)[Was(r, j)]
        /\ i \in Nat /\ j \in Nat
    BY <1>4
  <2>2. q = r /\ Was(q, i) = Was(r, j)
    <3> HIDE DEF Was
    <3> QED
      BY <2>1 DEF Held, OneHolder
  <2> QED
    BY <2>1, <2>2
<1>7. \A m \in Message :
        /\ workflows[m] \in Nat /\ workflows'[m] \in {workflows[m], workflows[m] + 1}
        /\ workflows'[m] # workflows[m] =>
              batch[b].pc = "process" /\ m = Todo(b)[1].message
  <2>1. workflows \in [Message -> Nat]
    BY DEF TypeOK
  <2>2. CASE UNCHANGED workflows
    BY <2>1, <2>2
  <2>3. ASSUME batch[b].pc = "process", NEW n, n = Todo(b)[1].message,
               workflows' = [workflows EXCEPT ![n] = workflows[n] + 1]
        PROVE  \A m \in Message :
                  /\ workflows[m] \in Nat
                  /\ workflows'[m] \in {workflows[m], workflows[m] + 1}
                  /\ workflows'[m] # workflows[m] => m = n
    BY <2>1, <2>3
  <2> QED
    BY <1>1, <2>2, <2>3
<1>8. CurrentOK'
  <2> SUFFICES ASSUME NEW q \in Batch
               PROVE  /\ batch'[q].pc = "process" => Todo(q)'[1].count <= MaxAttempts
                      /\ batch'[q].pc = "complete" => workflows'[Todo(q)'[1].message] > 0
                      /\ batch'[q].pc = "drop" => Todo(q)'[1].count > MaxAttempts
    BY DEF CurrentOK
  <2>1. CASE q = b
    BY <1>3, <2>1
  <2>2. CASE q # b
    <3>1. batch'[q] = batch[q] /\ Todo(q)' = Todo(q)
      BY <1>3, <2>2
    <3>2. ASSUME batch[q].pc = "complete" PROVE workflows'[Todo(q)[1].message] > 0
      <4>1. Todo(q)[1].message \in Message /\ workflows[Todo(q)[1].message] > 0
        BY <3>2, TodoShape DEF Looping, Item, Held, CurrentOK
      <4> QED
        BY <1>7, <4>1
    <3> QED
      BY <3>1, <3>2 DEF Held, CurrentOK
  <2> QED
    BY <2>1, <2>2
<1>9. ASSUME NEW m \in Message PROVE BooksOf(m)'
  <2>1. Waiting(m)' \subseteq Waiting(m)
    <3> SUFFICES ASSUME NEW c \in 1 .. MaxAttempts, NEW q \in Batch,
                        NEW i \in DOMAIN Todo(q)', i # 1, Todo(q)'[i] = Delivery(m, c)
                 PROVE  c \in Waiting(m)
      BY DEF Waiting
    <3> QED
      BY <1>4 DEF Waiting
  <2>2. dequeueCount'[m] = dequeueCount[m] /\ dequeueCount'[m] >= dequeueCount[m]
    BY Bounds, SMT DEF TypeOK
  <2>3. \A c \in Trying(m)' :
           \/ c \in Trying(m)
           \/ /\ batch'[b].pc = "process"
              /\ Todo(b)'[1].message = m /\ Todo(b)'[1].count = c
    BY <1>3 DEF Trying, Delivery
  \* The next item, if it goes to the handler.
  <2>4. CASE batch'[b].pc = "process" /\ Todo(b)'[1].message = m
    <3>1. /\ 1 \in DOMAIN Todo(b)' /\ 2 \in DOMAIN Todo(b) /\ 1 \in DOMAIN Todo(b)
          /\ Todo(b)'[1] = Todo(b)[2]
          /\ Todo(b)[2] \in Item
      <4>1. Len(Tail(Todo(b))) >= 1 /\ 1 \in 1 .. (Len(Todo(b)) - 1)
        BY <1>1, <1>2, <1>3, <2>4
      <4>2. 1 \in DOMAIN Todo(b)' /\ Todo(b)'[1] = Todo(b)[1 + 1]
        BY <1>2, <1>3, <4>1
      <4>3. 1 \in DOMAIN Todo(b) /\ 2 \in DOMAIN Todo(b)
        BY <1>1, <4>1
      <4>4. Todo(b)[2] \in Item
        BY <1>1, <4>3, ElementOfSeq
      <4> QED
        BY <4>2, <4>3, <4>4
    <3>2. PICK c \in 1 .. MaxAttempts :
            Todo(b)[2] = Delivery(m, c) /\ Todo(b)[2].message = m /\ Todo(b)[2].count = c
      <4>1. Todo(b)[2].count \in 1 .. MaxAttempts
        BY <1>2, <1>3, <2>4, <3>1, Bounds, SMT DEF Item
      <4>2. Todo(b)[2] = Delivery(m, Todo(b)[2].count)
        BY <2>4, <3>1, SMT DEF Item, Delivery
      <4> QED
        BY <2>4, <3>1, <4>1, <4>2
    <3>3. m # Todo(b)[1].message
      BY <3>1, <3>2 DEF Held, OneHolder
    <3>4. workflows'[m] = workflows[m]
      BY <1>7, <3>3
    <3>5. attempts'[m] = attempts[m] + 1
      <4>1. attempts[m] <= MaxAttempts
        <5>1. BooksOf(m)
          BY DEF Held, BooksOK
        <5>2. Waiting(m) \in SUBSET (1 .. MaxAttempts)
          BY DEF Waiting
        <5>3. Cardinality(Waiting(m)) \in Nat /\ attempts[m] \in Nat
          BY <5>2, NoMore, Bounds, SMT DEF TypeOK
        <5> QED
          BY <5>1, <5>3, Bounds DEF BooksOf
      <4>2. attempts' = [attempts EXCEPT ![m] =
                               IF @ <= MaxAttempts THEN @ + 1 ELSE @]
        BY <1>3, <2>4
      <4> QED
        BY <4>1, <4>2 DEF TypeOK
    <3>6. c \in Waiting(m)
      BY <3>1, <3>2 DEF Waiting
    <3>7. c \notin Waiting(m)'
      <4> SUFFICES ASSUME NEW q \in Batch, NEW i \in DOMAIN Todo(q)', i # 1,
                          Todo(q)'[i] = Delivery(m, c)
                   PROVE  FALSE
        BY DEF Waiting
      <4>1. Todo(q)'[i].message = m /\ Todo(q)'[i].count = c /\ c <= MaxAttempts
        BY Bounds DEF Delivery
      <4>2. Todo(b)'[1].message = m /\ Todo(b)'[1].count = c
        BY <3>1, <3>2
      <4> QED
        BY <1>6, <3>1, <4>1, <4>2 DEF OneHolder
    <3>8. Trying(m)' \subseteq Trying(m) \cup {c}
      BY <2>3, <3>1, <3>2
    <3>9. Tries(m, c)
      BY <2>1, <2>2, <3>4, <3>5, <3>6, <3>7, <3>8 DEF Tries
    <3> QED
      BY <3>9, BooksKept DEF Held, BooksOK
  <2>5. CASE ~(batch'[b].pc = "process" /\ Todo(b)'[1].message = m)
    <3>1. Trying(m)' \subseteq Trying(m)
      BY <2>3, <2>5
    <3>2. attempts'[m] = attempts[m]
      <4>1. CASE batch'[b].pc # "process"
        BY <1>3, <4>1
      <4>2. CASE batch'[b].pc = "process"
        BY <1>3, <2>5, <4>2 DEF TypeOK
      <4> QED
        BY <4>1, <4>2
    <3>3. CASE workflows'[m] = workflows[m]
      <4>1. Lets(m)
        BY <2>1, <2>2, <3>1, <3>2, <3>3 DEF Lets
      <4> QED
        BY <4>1, BooksKept DEF Held, BooksOK
    \* The item just left, if the handler made a workflow of it.
    <3>4. CASE workflows'[m] # workflows[m]
      <4>1. batch[b].pc = "process" /\ m = Todo(b)[1].message
        BY <1>7, <3>4
      <4>2. PICK c \in 1 .. MaxAttempts : Todo(b)[1] = Delivery(m, c)
        <5>1. Todo(b)[1].count \in 1 .. MaxAttempts
          BY <1>1, <4>1, Bounds, SMT DEF Item, Held, CurrentOK
        <5>2. Todo(b)[1] = Delivery(m, Todo(b)[1].count)
          BY <1>1, <4>1, SMT DEF Item, Delivery
        <5> QED
          BY <5>1, <5>2
      <4>3. c \in Trying(m)
        BY <4>1, <4>2 DEF Trying
      <4>4. c \notin Trying(m)'
        <5> SUFFICES ASSUME NEW q \in Batch, batch'[q].pc = "process",
                            Todo(q)'[1] = Delivery(m, c)
                     PROVE  FALSE
          BY DEF Trying
        <5>1. q # b
          BY <2>5 DEF Delivery
        <5>2. batch[q].pc = "process" /\ Todo(q)[1] = Delivery(m, c)
          BY <1>3, <5>1
        <5>3. 1 \in DOMAIN Todo(q) /\ 1 \in DOMAIN Todo(b)
          BY <1>1, <5>2, TodoShape DEF Looping
        <5>4. c <= MaxAttempts
          BY Bounds
        <5> QED
          BY <4>2, <5>1, <5>2, <5>3, <5>4 DEF Held, OneHolder, Delivery
      <4>5. Ends(m, c)
        BY <1>7, <2>1, <2>2, <3>1, <3>2, <4>3, <4>4 DEF Ends
      <4> QED
        BY <4>5, BooksKept DEF Held, BooksOK
    <3> QED
      BY <3>3, <3>4
  <2> QED
    BY <2>4, <2>5
<1> QED
  BY <1>5, <1>6, <1>8, <1>9 DEF Held, BooksOK

\* New deliveries arrive, and the loop starts with the first of them.
LEMMA DequeueKeeps ==
    ASSUME TypeOK, TypeOK', Held, NEW b \in Batch, Dequeue(b)
    PROVE  Held'
<1>1. PICK s \in Deliveries : Deliver(b, s) /\ Received(b, Items(s))
  BY DEF Dequeue
<1>2. batch[b].pc = "dequeue" /\ Loop(b, Items(s)) /\ workflows' = workflows
  BY <1>1 DEF Received, Dequeue
<1>3. /\ Items(s) \in Seq(Item) /\ Len(s) \in Nat /\ DOMAIN s = 1 .. Len(s)
      /\ Len(Items(s)) = Len(s) /\ Len(Items(s)) <= BatchSize
      /\ DOMAIN Items(s) = 1 .. Len(s)
      /\ \A i \in 1 .. Len(s) :
            /\ s[i] \in Message
            /\ Items(s)[i] = Delivery(s[i], Bump(dequeueCount[s[i]]))
      /\ \A i, j \in 1 .. Len(s) : s[i] = s[j] => i = j
  BY ItemsShape, LenProperties
<1>4. /\ Todo(b)' = Items(s)
      /\ \A q \in Batch : q # b => batch'[q] = batch[q] /\ Todo(q)' = Todo(q)
      /\ batch'[b].pc \in {"free", "process", "drop"}
      /\ batch'[b].pc # "process" => attempts' = attempts
      /\ batch'[b].pc = "process" =>
            /\ Len(Items(s)) >= 1
            /\ Items(s)[1].count <= MaxAttempts
            /\ attempts' = [attempts EXCEPT ![Items(s)[1].message] =
                               IF @ <= MaxAttempts THEN @ + 1 ELSE @]
      /\ batch'[b].pc = "drop" => Items(s)[1].count > MaxAttempts
  BY <1>2, <1>3, LoopEffect
<1> DEFINE Taken == {s[i] : i \in 1 .. Len(s)}
\* What happens to the counts.
<1>5. ASSUME NEW m \in Message
      PROVE  /\ dequeueCount[m] \in Nat /\ dequeueCount'[m] \in Nat
             /\ dequeueCount'[m] >= dequeueCount[m]
             /\ m \in Taken => /\ dequeueCount'[m] = Bump(dequeueCount[m])
                               /\ Bump(dequeueCount[m]) >= 1
                               /\ Bump(dequeueCount[m]) <= MaxAttempts =>
                                     dequeueCount'[m] = dequeueCount[m] + 1
             /\ m \notin Taken => dequeueCount'[m] = dequeueCount[m]
  <2>1. dequeueCount[m] \in 0 .. CountCap /\ dequeueCount[m] \in Nat
    BY Bounds, SMT DEF TypeOK
  <2>2. /\ m \in Taken => dequeueCount'[m] = Bump(dequeueCount[m])
        /\ m \notin Taken => dequeueCount'[m] = dequeueCount[m]
    BY <1>1, <1>3 DEF Deliver
  <2>3. /\ Bump(dequeueCount[m]) \in 1 .. CountCap
        /\ Bump(dequeueCount[m]) >= dequeueCount[m]
        /\ Bump(dequeueCount[m]) <= MaxAttempts =>
              Bump(dequeueCount[m]) = dequeueCount[m] + 1
    BY <2>1, BumpCounts
  <2> HIDE DEF Taken
  <2> QED
    BY <2>1, <2>2, <2>3, Bounds
\* What the call receives.
<1>6. ASSUME NEW i \in DOMAIN Todo(b)'
      PROVE  /\ i \in 1 .. Len(s) /\ s[i] \in Message /\ s[i] \in Taken
             /\ Todo(b)'[i].message = s[i]
             /\ Todo(b)'[i].count = dequeueCount'[s[i]]
             /\ Todo(b)'[i].count = Bump(dequeueCount[s[i]])
  <2>1. i \in 1 .. Len(s) /\ s[i] \in Message /\ s[i] \in Taken
    BY <1>3, <1>4, <1>6
  <2>2. Todo(b)'[i] = Delivery(s[i], Bump(dequeueCount[s[i]]))
    BY <1>3, <1>4, <2>1
  <2>3. dequeueCount'[s[i]] = Bump(dequeueCount[s[i]])
    BY <1>5, <2>1
  <2> HIDE DEF Taken
  <2> QED
    BY <2>1, <2>2, <2>3 DEF Delivery
\* What the others hold.
<1>7. ASSUME NEW q \in Batch, q # b, NEW j \in DOMAIN Todo(q)'
      PROVE  /\ j \in DOMAIN Todo(q) /\ Todo(q)'[j] = Todo(q)[j]
             /\ Todo(q)[j].message \in Message /\ Todo(q)[j].count \in Nat
             /\ Todo(q)[j].count <= dequeueCount[Todo(q)[j].message]
  <2>1. Todo(q)' = Todo(q) /\ j \in DOMAIN Todo(q)
    BY <1>4, <1>7
  <2>2. Todo(q)[j] \in Item
    BY <2>1, TodoShape, ElementOfSeq
  <2> QED
    BY <2>1, <2>2, Bounds, SMT DEF Item, Held, CountsOK
<1> HIDE DEF Taken
<1>8. CountsOK'
  <2> SUFFICES ASSUME NEW q \in Batch, NEW i \in DOMAIN Todo(q)'
               PROVE  Todo(q)'[i].count <= dequeueCount'[Todo(q)'[i].message]
    BY DEF CountsOK
  <2>1. CASE q = b
    BY <1>5, <1>6, <2>1
  <2>2. CASE q # b
    BY <1>5, <1>7, <2>2
  <2> QED
    BY <2>1, <2>2
<1>9. ASSUME NEW i \in DOMAIN Todo(b)', NEW q \in Batch, q # b,
             NEW j \in DOMAIN Todo(q)',
             Todo(b)'[i].message = Todo(q)'[j].message,
             Todo(b)'[i].count = Todo(q)'[j].count,
             Todo(b)'[i].count <= MaxAttempts
      PROVE  FALSE
  <2>1. Todo(b)'[i].count = dequeueCount[s[i]] + 1 /\ dequeueCount[s[i]] \in Nat
    BY <1>5, <1>6, <1>9
  <2>2. Todo(q)'[j].count <= dequeueCount[s[i]]
    BY <1>6, <1>7, <1>9
  <2> QED
    BY <1>9, <2>1, <2>2
<1>10. OneHolder'
  <2> SUFFICES ASSUME NEW q \in Batch, NEW r \in Batch,
                      NEW i \in DOMAIN Todo(q)', NEW j \in DOMAIN Todo(r)',
                      Todo(q)'[i].message = Todo(r)'[j].message,
                      q # r => /\ Todo(q)'[i].count = Todo(r)'[j].count
                               /\ Todo(q)'[i].count <= MaxAttempts
               PROVE  q = r /\ i = j
    BY DEF OneHolder
  <2>1. CASE q = b /\ r = b
    BY <1>3, <1>6, <2>1
  <2>2. CASE q = b /\ r # b
    BY <1>9, <2>2
  <2>3. CASE q # b /\ r = b
    BY <1>9, <2>3
  <2>4. CASE q # b /\ r # b
    BY <1>7, <2>4 DEF Held, OneHolder
  <2> QED
    BY <2>1, <2>2, <2>3, <2>4
<1>11. CurrentOK'
  <2> SUFFICES ASSUME NEW q \in Batch
               PROVE  /\ batch'[q].pc = "process" => Todo(q)'[1].count <= MaxAttempts
                      /\ batch'[q].pc = "complete" => workflows'[Todo(q)'[1].message] > 0
                      /\ batch'[q].pc = "drop" => Todo(q)'[1].count > MaxAttempts
    BY DEF CurrentOK
  <2>1. CASE q = b
    BY <1>4, <2>1
  <2>2. CASE q # b
    BY <1>2, <1>4, <2>2 DEF Held, CurrentOK
  <2> QED
    BY <2>1, <2>2
<1>12. ASSUME NEW m \in Message PROVE BooksOf(m)'
  <2>1. \A c \in Waiting(m)' :
          \/ c \in Waiting(m)
          \/ \E i \in DOMAIN Todo(b)' :
                i # 1 /\ Todo(b)'[i].message = m /\ Todo(b)'[i].count = c
    BY <1>7 DEF Waiting, Delivery
  <2>2. \A c \in Trying(m)' :
           \/ c \in Trying(m)
           \/ /\ batch'[b].pc = "process"
              /\ Todo(b)'[1].message = m /\ Todo(b)'[1].count = c
    BY <1>4 DEF Trying, Delivery
  <2>3. batch'[b].pc = "process" => 1 \in DOMAIN Todo(b)' /\ 1 \in 1 .. Len(s)
    BY <1>3, <1>4
  <2>4. workflows'[m] = workflows[m]
    BY <1>2
  \* The first item goes to the handler.
  <2>5. CASE batch'[b].pc = "process" /\ s[1] = m
    <3> DEFINE c == dequeueCount[m] + 1
    <3>1. /\ m \in Taken /\ Todo(b)'[1].message = m /\ Todo(b)'[1].count = dequeueCount'[m]
          /\ dequeueCount'[m] <= MaxAttempts
      BY <1>4, <1>6, <2>3, <2>5
    <3>2. dequeueCount'[m] = c /\ c \in 1 .. MaxAttempts
      BY <1>5, <3>1, Bounds
    <3>3. Waiting(m)' \subseteq Waiting(m)
      BY <1>3, <1>6, <2>1, <2>3, <2>5
    <3>4. Trying(m)' \subseteq Trying(m) \cup {c}
      BY <2>2, <3>1, <3>2
    <3>5. attempts'[m] = attempts[m] + 1
      <4>1. attempts[m] <= MaxAttempts
        <5>1. BooksOf(m)
          BY DEF Held, BooksOK
        <5>2. Waiting(m) \in SUBSET (1 .. MaxAttempts)
          BY DEF Waiting
        <5>3. Cardinality(Waiting(m)) \in Nat /\ attempts[m] \in Nat
          BY <5>2, NoMore, Bounds, SMT DEF TypeOK
        <5> QED
          BY <5>1, <5>3, Bounds DEF BooksOf
      <4>2. attempts' = [attempts EXCEPT ![m] =
                               IF @ <= MaxAttempts THEN @ + 1 ELSE @]
        BY <1>4, <2>5, <3>1
      <4> QED
        BY <4>1, <4>2 DEF TypeOK
    <3>6. Tries(m, c)
      BY <2>4, <3>1, <3>2, <3>3, <3>4, <3>5 DEF Tries
    <3> QED
      BY <3>2, <3>6, BooksKept DEF Held, BooksOK
  <2>6. CASE ~(batch'[b].pc = "process" /\ s[1] = m)
    <3>1. Trying(m)' \subseteq Trying(m)
      BY <1>6, <2>2, <2>3, <2>6
    <3>2. attempts'[m] = attempts[m]
      <4>1. CASE batch'[b].pc # "process"
        BY <1>4, <4>1
      <4>2. CASE batch'[b].pc = "process"
        <5>1. Items(s)[1].message = s[1] /\ s[1] # m
          BY <1>4, <1>6, <2>3, <2>6, <4>2
        <5> QED
          BY <1>4, <4>2, <5>1 DEF TypeOK
      <4> QED
        BY <4>1, <4>2
    \* Another item waits for its turn, if it may still be tried.
    <3>3. CASE m \in Taken /\ dequeueCount'[m] <= MaxAttempts
      <4> DEFINE c == dequeueCount[m] + 1
      <4>1. dequeueCount'[m] = c /\ c \in 1 .. MaxAttempts
        BY <1>5, <3>3, Bounds
      <4>2. Waiting(m)' \subseteq Waiting(m) \cup {c}
        BY <1>6, <2>1, <4>1
      <4>3. Waits(m, c)
        BY <2>4, <3>1, <3>2, <3>3, <4>1, <4>2 DEF Waits
      <4> QED
        BY <4>1, <4>3, BooksKept DEF Held, BooksOK
    <3>4. CASE ~(m \in Taken /\ dequeueCount'[m] <= MaxAttempts)
      <4>1. Waiting(m)' \subseteq Waiting(m)
        <5>1. \A c \in Waiting(m)' : c <= MaxAttempts
          BY Bounds DEF Waiting
        <5> QED
          BY <1>6, <2>1, <3>4, <5>1
      <4>2. Lets(m)
        BY <1>5, <2>4, <3>1, <3>2, <4>1 DEF Lets
      <4> QED
        BY <4>2, BooksKept DEF Held, BooksOK
    <3> QED
      BY <3>3, <3>4
  <2> QED
    BY <2>5, <2>6
<1> QED
  BY <1>8, <1>10, <1>11, <1>12 DEF Held, BooksOK

\* Deliveries and workflows are never forgotten.
LEMMA CountsGrow ==
    ASSUME TypeOK, [Next]_vars, NEW m \in Message
    PROVE  /\ dequeueCount[m] \in Nat /\ dequeueCount'[m] >= dequeueCount[m]
           /\ workflows[m] \in Nat /\ workflows'[m] >= workflows[m]
<1>1. /\ dequeueCount[m] \in Nat /\ dequeueCount[m] \in 0 .. CountCap
      /\ workflows[m] \in Nat
  BY Bounds, SMT DEF TypeOK
<1>2. ASSUME NEW b \in Batch, NEW s, Deliver(b, s)
      PROVE  dequeueCount'[m] >= dequeueCount[m]
  <2>1. dequeueCount'[m] \in {dequeueCount[m], Bump(dequeueCount[m])}
    BY <1>2 DEF Deliver
  <2> QED
    BY <1>1, <2>1, BumpCounts
<1>3. ASSUME NEW b \in Batch, Dequeue(b) \/ DequeueFails(b)
      PROVE  dequeueCount'[m] >= dequeueCount[m] /\ UNCHANGED workflows
  BY <1>1, <1>2, <1>3 DEF Dequeue, DequeueFails, queueVars
<1>4. ASSUME NEW b \in Batch, ProcessRun(b) \/ ProcessRunFails(b)
      PROVE  workflows'[m] >= workflows[m] /\ UNCHANGED dequeueCount
  <2>1. \/ workflows' = workflows
        \/ workflows' = [workflows EXCEPT ![Current(b)] = workflows[Current(b)] + 1]
    BY <1>4 DEF ProcessRun, ProcessRunFails
  <2>2. workflows'[m] \in {workflows[m], workflows[m] + 1}
    BY <2>1 DEF TypeOK
  <2> QED
    BY <1>1, <1>4, <2>2 DEF ProcessRun, ProcessRunFails, queueVars
<1>5. ASSUME \/ \E n \in Message : Enqueue(n) \/ Timeout(n)
             \/ \E b \in Batch : BeginBatch(b) \/ Complete(b) \/ CompleteFails(b)
             \/ WorkerStart \/ WorkerStop \/ Crash \/ UNCHANGED vars
      PROVE  UNCHANGED <<dequeueCount, workflows>>
  BY <1>5 DEF Enqueue, Send, Timeout, Reappear, BeginBatch, Complete, Delete,
              CompleteFails, WorkerStart, WorkerStop, Crash, queueVars, vars
<1>6. CASE UNCHANGED <<dequeueCount, workflows>>
  BY <1>1, <1>6
<1> QED
  BY <1>1, <1>3, <1>4, <1>5, <1>6 DEF Next

\* A message leaves the queue when the call that has it completes it.
LEMMA Removal ==
    ASSUME TypeOK, [Next]_vars, NEW m \in Message,
           stored'[m] = "deleted", stored[m] # "deleted"
    PROVE  \E b \in Batch : Complete(b) /\ m = Current(b)
<1>1. ASSUME NEW n \in Message, Enqueue(n) \/ Timeout(n) PROVE FALSE
  BY <1>1 DEF Enqueue, Send, Timeout, Reappear, TypeOK
<1>2. ASSUME NEW b \in Batch, NEW s, Deliver(b, s) PROVE FALSE
  BY <1>2 DEF Deliver
<1>3. ASSUME NEW b \in Batch, Complete(b) PROVE m = Current(b)
  BY <1>3 DEF Complete, Delete, TypeOK
<1>4. ASSUME \/ \E b \in Batch : \/ BeginBatch(b) \/ ProcessRun(b) \/ ProcessRunFails(b)
                                 \/ CompleteFails(b)
             \/ WorkerStart \/ WorkerStop \/ Crash \/ UNCHANGED vars
      PROVE  FALSE
  BY <1>4 DEF BeginBatch, ProcessRun, ProcessRunFails, CompleteFails, WorkerStart,
              WorkerStop, Crash, queueVars, vars
<1>5. ASSUME NEW b \in Batch, DequeueFails(b) PROVE FALSE
  BY <1>2, <1>5 DEF DequeueFails, queueVars
<1>6. ASSUME NEW b \in Batch, Dequeue(b) PROVE FALSE
  BY <1>2, <1>6 DEF Dequeue
<1> QED
  BY <1>1, <1>3, <1>4, <1>5, <1>6 DEF Next

\* A completion removes a message that is done or was delivered too often.
LEMMA RemovedKeeps ==
    ASSUME TypeOK, TypeOK', Held, RemovedOnlyWhenDone, [Next]_vars
    PROVE  RemovedOnlyWhenDone'
<1> SUFFICES ASSUME NEW m \in Message, stored'[m] = "deleted"
             PROVE  workflows'[m] > 0 \/ dequeueCount'[m] > MaxAttempts
  BY DEF RemovedOnlyWhenDone
<1>1. /\ dequeueCount[m] \in Nat /\ dequeueCount'[m] >= dequeueCount[m]
      /\ workflows[m] \in Nat /\ workflows'[m] >= workflows[m]
      /\ dequeueCount'[m] \in Nat /\ workflows'[m] \in Nat
  BY CountsGrow, Bounds, SMT DEF TypeOK
<1>2. workflows[m] > 0 \/ dequeueCount[m] > MaxAttempts
  <2>1. CASE stored[m] = "deleted"
    BY <2>1 DEF RemovedOnlyWhenDone
  <2>2. CASE stored[m] # "deleted"
    <3>1. PICK b \in Batch : Complete(b) /\ m = Current(b)
      BY <2>2, Removal
    <3>2. batch[b].pc \in {"complete", "drop"}
      BY <3>1 DEF Complete, CompleteSettled
    <3>3. /\ m = Todo(b)[1].message /\ Todo(b)[1] \in Item
          /\ 1 \in DOMAIN Todo(b)
      BY <3>1, <3>2, TodoShape DEF Looping
    <3>4. Todo(b)[1].count <= dequeueCount[m] /\ Todo(b)[1].count \in Nat
      BY <3>3, Bounds, SMT DEF Item, Held, CountsOK
    <3>5. CASE batch[b].pc = "complete"
      BY <3>3, <3>5 DEF Held, CurrentOK
    <3>6. CASE batch[b].pc = "drop"
      <4>1. Todo(b)[1].count > MaxAttempts
        BY <3>6 DEF Held, CurrentOK
      <4> QED
        BY <1>1, <3>4, <4>1, Bounds
    <3> QED
      BY <3>2, <3>5, <3>6
  <2> QED
    BY <2>1, <2>2
<1> QED
  BY <1>1, <1>2, Bounds

\* Nothing is delivered at first.
LEMMA InitKeeps == Init => IInv
<1> SUFFICES ASSUME Init PROVE IInv
  OBVIOUS
<1>1. TypeOK
  BY InitTypeOK
<1>2. \A b \in Batch : batch[b].pc = "free" /\ DOMAIN Todo(b) = {}
  BY DEF Init, ProcessorInit, Free, Todo
<1>3. CountsOK /\ OneHolder /\ CurrentOK
  BY <1>2 DEF CountsOK, OneHolder, CurrentOK
<1>4. ASSUME NEW m \in Message PROVE BooksOf(m)
  <2>1. Waiting(m) = {} /\ Trying(m) = {}
    BY <1>2 DEF Waiting, Trying
  <2>2. workflows[m] = 0 /\ attempts[m] = 0 /\ dequeueCount[m] = 0
    BY DEF Init, QueueInit, ProcessorInit
  <2> QED
    BY <2>1, <2>2, FS_EmptySet, Bounds DEF BooksOf
<1>5. RemovedOnlyWhenDone
  BY DEF Init, QueueInit, RemovedOnlyWhenDone
<1> QED
  BY <1>1, <1>3, <1>4, <1>5 DEF IInv, Held, BooksOK

\* Every step keeps the books ...
LEMMA HeldKeeps == TypeOK /\ Held /\ [Next]_vars => TypeOK' /\ Held'
<1> SUFFICES ASSUME TypeOK, Held, [Next]_vars PROVE TypeOK' /\ Held'
  OBVIOUS
<1>1. TypeOK /\ Held /\ TypeOK'
  BY NextTypeOK
<1>2. \A m \in Message : dequeueCount'[m] >= dequeueCount[m]
  BY <1>1, CountsGrow
<1>3. ASSUME UNCHANGED <<attempts, workflows>>,
             \A b \in Batch : batch'[b] = batch[b] \/ batch'[b].pc \notin Looping
      PROVE  Held'
  BY <1>1, <1>2, <1>3, QuietKeeps
<1>4. ASSUME \/ \E m \in Message : Enqueue(m) \/ Timeout(m)
             \/ WorkerStart \/ WorkerStop \/ UNCHANGED vars
      PROVE  Held'
  BY <1>3, <1>4 DEF Enqueue, Timeout, WorkerStart, WorkerStop, Start, Stop,
                    processorVars, vars
<1>5. ASSUME Crash PROVE Held'
  BY <1>3, <1>5 DEF Crash, Restart, Free, Looping
<1>6. ASSUME NEW b \in Batch, BeginBatch(b) \/ DequeueFails(b) PROVE Held'
  <2>1. UNCHANGED <<attempts, workflows>>
    BY <1>6 DEF BeginBatch, Call, DequeueFails, DequeueRejected
  <2>2. ASSUME NEW q \in Batch
        PROVE  batch'[q] = batch[q] \/ batch'[q].pc \notin Looping
    BY <1>1, <1>6 DEF BeginBatch, Call, DequeueFails, DequeueRejected, Free, Looping, TypeOK
  <2> QED
    BY <1>3, <2>1, <2>2
<1>7. ASSUME NEW b \in Batch, Dequeue(b) PROVE Held'
  BY <1>1, <1>7, DequeueKeeps
<1>8. ASSUME NEW b \in Batch, ProcessRun(b) PROVE Held'
  BY <1>1, <1>8, ProcessRunKeeps
<1>9. ASSUME NEW b \in Batch, ProcessRunFails(b) PROVE Held'
  <2>1. batch[b].pc = "process" /\ Loop(b, Tail(batch[b].todo)) /\ UNCHANGED dequeueCount
    BY <1>9 DEF ProcessRunFails, HandlerThrew, queueVars
  <2>2. UNCHANGED workflows \/ workflows' = [workflows EXCEPT ![Current(b)] = @ + 1]
    BY <1>9 DEF ProcessRunFails
  <2> QED
    BY <1>1, <2>1, <2>2, TailKeeps DEF Looping
<1>10. ASSUME NEW b \in Batch, Complete(b) \/ CompleteFails(b) PROVE Held'
  <2>1. /\ batch[b].pc \in Looping /\ Loop(b, Tail(batch[b].todo))
        /\ UNCHANGED <<dequeueCount, workflows>>
    BY <1>10 DEF Complete, Delete, CompleteFails, CompleteSettled, queueVars, Looping
  <2> QED
    BY <1>1, <2>1, TailKeeps
<1>11. Held'
  BY <1>4, <1>5, <1>6, <1>7, <1>8, <1>9, <1>10 DEF Next
<1> QED
  BY <1>1, <1>11

\* ... and the invariant.
LEMMA NextKeeps == IInv /\ [Next]_vars => IInv'
  BY HeldKeeps, RemovedKeeps DEF IInv

\* The invariant of all reachable states, from which the next theorems follow.
THEOREM WorkerInductive == Spec => []IInv
  BY InitKeeps, NextKeeps, PTL DEF Spec

\* However calls overlap, time out, fail or die, the handler is called at most
\* MaxAttempts times with a message, and makes at most that many workflows of it.
THEOREM AttemptsAreBounded == Spec => []AttemptsBounded
<1>1. IInv => AttemptsBounded
  <2> SUFFICES ASSUME IInv, NEW m \in Message
               PROVE  attempts[m] <= MaxAttempts /\ workflows[m] <= attempts[m]
    BY DEF AttemptsBounded
  <2>1. BooksOf(m)
    BY DEF IInv, Held, BooksOK
  <2>2. /\ Waiting(m) \in SUBSET (1 .. MaxAttempts)
        /\ Trying(m) \in SUBSET (1 .. MaxAttempts)
    BY DEF Waiting, Trying
  <2>3. /\ Cardinality(Waiting(m)) \in Nat /\ Cardinality(Trying(m)) \in Nat
        /\ attempts[m] \in Nat /\ workflows[m] \in Nat
    BY <2>2, NoMore, Bounds, SMT DEF IInv, TypeOK
  <2> QED
    BY <2>1, <2>3, Bounds DEF BooksOf
<1> QED
  BY <1>1, WorkerInductive, PTL

\* No run leaves the queue before a workflow was made of it, or it was delivered
\* too often.
THEOREM RunsStayUntilDone == Spec => []RemovedOnlyWhenDone
<1>1. IInv => RemovedOnlyWhenDone
  BY DEF IInv
<1> QED
  BY <1>1, WorkerInductive, PTL

----------------------------------------------------------------------------
(* Late completions.                                                        *)

\* Only the call the last delivery went to holds an item with the count of the
\* queue, as long as counts are exact.
HoldsReceipt ==
    \A b \in Batch : \A i \in DOMAIN Todo(b) :
        LET m == Todo(b)[i].message IN
        Todo(b)[i].count = dequeueCount[m] /\ dequeueCount[m] < CountCap
            => receipt[m] = b

\* Nothing but a delivery brings a call items it did not have.
LEMMA OldItems ==
    ASSUME TypeOK, [Next]_vars, NEW q \in Batch, NEW i \in DOMAIN Todo(q)', ~Dequeue(q)
    PROVE  \E j \in DOMAIN Todo(q) : Todo(q)'[i] = Todo(q)[j]
<1>1. CASE batch'[q] = batch[q]
  BY <1>1 DEF Todo
<1>2. CASE batch'[q].pc \notin Looping
  BY <1>2 DEF Todo, Looping
<1>3. ASSUME batch[q].pc \in Looping, Loop(q, Tail(batch[q].todo))
      PROVE  \E j \in DOMAIN Todo(q) : Todo(q)'[i] = Todo(q)[j]
  <2>1. /\ Todo(q) \in Seq(Item) /\ Len(Todo(q)) \in Nat /\ Len(Todo(q)) >= 1
        /\ Len(Todo(q)) <= BatchSize /\ DOMAIN Todo(q) = 1 .. Len(Todo(q))
        /\ Todo(q) = batch[q].todo
    BY <1>3, TodoShape
  <2>2. /\ Tail(Todo(q)) \in Seq(Item) /\ Len(Tail(Todo(q))) = Len(Todo(q)) - 1
        /\ DOMAIN Tail(Todo(q)) = 1 .. (Len(Todo(q)) - 1)
        /\ \A k \in 1 .. (Len(Todo(q)) - 1) : Tail(Todo(q))[k] = Todo(q)[k + 1]
    BY <2>1, TailShape
  <2>3. Todo(q)' = Tail(Todo(q))
    <3>1. Len(Tail(Todo(q))) <= BatchSize
      BY <2>1, <2>2, Bounds
    <3>2. Loop(q, Tail(Todo(q)))
      BY <1>3, <2>1
    <3> QED
      BY <2>2, <3>1, <3>2, LoopEffect
  <2>4. i \in 1 .. (Len(Todo(q)) - 1) /\ i + 1 \in DOMAIN Todo(q)
    BY <2>1, <2>2, <2>3
  <2> QED
    BY <2>2, <2>3, <2>4
<1>4. ASSUME Handled(q) PROVE \E j \in DOMAIN Todo(q) : Todo(q)'[i] = Todo(q)[j]
  <2>1. batch'[q] = [batch[q] EXCEPT !.pc = "complete"] /\ batch[q].pc = "process"
    BY <1>4 DEF Handled, TypeOK
  <2>2. batch[q] = [pc |-> batch[q].pc, todo |-> batch[q].todo]
    BY <2>1, ContinuationShape DEF TypeOK, Looping
  <2>3. batch'[q].pc = "complete" /\ batch'[q].todo = batch[q].todo
    BY <2>1, <2>2
  <2>4. Todo(q)' = Todo(q)
    BY <2>1, <2>3 DEF Todo
  <2> QED
    BY <2>4
\* A step of the call itself ...
<1>5. CASE BeginBatch(q) \/ DequeueFails(q)
  BY <1>2, <1>5 DEF BeginBatch, Call, DequeueFails, DequeueRejected, Free, Looping, TypeOK
<1>6. CASE ProcessRun(q)
  BY <1>4, <1>6 DEF ProcessRun
<1>7. CASE ProcessRunFails(q) \/ Complete(q) \/ CompleteFails(q)
  BY <1>3, <1>7 DEF ProcessRunFails, HandlerThrew, Complete, CompleteFails,
                    CompleteSettled, Looping
\* ... or of another one.
<1>8. ASSUME NEW b \in Batch, b # q,
             \/ BeginBatch(b) \/ Dequeue(b) \/ DequeueFails(b)
             \/ ProcessRun(b) \/ ProcessRunFails(b) \/ Complete(b) \/ CompleteFails(b)
      PROVE  batch'[q] = batch[q]
  BY <1>8 DEF BeginBatch, Call, Dequeue, Received, DequeueFails, DequeueRejected,
              ProcessRun, Handled, ProcessRunFails, HandlerThrew, Complete,
              CompleteFails, CompleteSettled, Loop, TypeOK
<1>9. ASSUME \/ \E m \in Message : Enqueue(m) \/ Timeout(m)
             \/ WorkerStart \/ WorkerStop \/ UNCHANGED vars
      PROVE  batch'[q] = batch[q]
  BY <1>9 DEF Enqueue, Timeout, WorkerStart, WorkerStop, Start, Stop, processorVars, vars
<1>10. CASE Crash
  BY <1>2, <1>10 DEF Crash, Restart, Free, Looping
<1> QED
  BY <1>1, <1>5, <1>6, <1>7, <1>8, <1>9, <1>10 DEF Next

\* A delivery makes its receipt the current one and outdates the items of others.
LEMMA ReceiptKeeps == IInv /\ HoldsReceipt /\ [Next]_vars => HoldsReceipt'
<1> SUFFICES ASSUME IInv, HoldsReceipt, [Next]_vars,
                    NEW q \in Batch, NEW i \in DOMAIN Todo(q)',
                    NEW m, m = Todo(q)'[i].message,
                    Todo(q)'[i].count = dequeueCount'[m], dequeueCount'[m] < CountCap
             PROVE  receipt'[m] = q
  BY DEF HoldsReceipt
<1>1. TypeOK
  BY DEF IInv
<1>2. CASE Dequeue(q)
  <2>1. PICK s \in Deliveries : Deliver(q, s) /\ Loop(q, Items(s))
    BY <1>2 DEF Dequeue, Received
  <2>2. /\ Items(s) \in Seq(Item) /\ DOMAIN s = 1 .. Len(s) /\ Len(Items(s)) = Len(s)
        /\ Len(Items(s)) <= BatchSize /\ DOMAIN Items(s) = 1 .. Len(s)
        /\ \A k \in 1 .. Len(s) :
              s[k] \in Message /\ Items(s)[k] = Delivery(s[k], Bump(dequeueCount[s[k]]))
    BY <1>1, ItemsShape, LenProperties
  <2>3. Todo(q)' = Items(s)
    BY <1>1, <2>1, <2>2, LoopEffect
  <2>4. i \in DOMAIN s /\ m = s[i] /\ m \in Message
    BY <2>2, <2>3 DEF Delivery
  <2> QED
    BY <2>1, <2>4 DEF Deliver
<1>3. CASE ~Dequeue(q)
  <2>1. PICK j \in DOMAIN Todo(q) : Todo(q)'[i] = Todo(q)[j]
    BY <1>1, <1>3, OldItems
  <2>2. Todo(q)[j] \in Item /\ m \in Message /\ Todo(q)[j].message = m
    <3>1. Todo(q) \in Seq(Item) /\ DOMAIN Todo(q) = 1 .. Len(Todo(q))
      BY <1>1, TodoShape
    <3>2. Todo(q)[j] \in Item
      BY <3>1, ElementOfSeq
    <3>3. Todo(q)[j].message = m
      BY <2>1
    <3> QED
      BY <3>2, <3>3 DEF Item
  <2>3. /\ Todo(q)[j].count <= dequeueCount[m] /\ Todo(q)[j].count \in Nat
        /\ dequeueCount[m] \in 0 .. CountCap
    BY <1>1, <2>2, Bounds, SMT DEF IInv, Held, CountsOK, TypeOK, Item
  <2>4. CASE dequeueCount'[m] = dequeueCount[m] /\ receipt'[m] = receipt[m]
    BY <2>1, <2>2, <2>4 DEF HoldsReceipt
  <2>5. ASSUME NEW b \in Batch, NEW s, Deliver(b, s)
        PROVE  dequeueCount'[m] = dequeueCount[m] /\ receipt'[m] = receipt[m]
    <3>1. CASE dequeueCount'[m] = Bump(dequeueCount[m])
      <4>1. dequeueCount'[m] > dequeueCount[m]
        BY <2>3, <3>1, Bounds, SMT DEF Bump
      <4> QED
        BY <2>1, <2>3, <4>1, Bounds
    <3>2. CASE dequeueCount'[m] # Bump(dequeueCount[m])
      BY <2>2, <2>5, <3>2 DEF Deliver
    <3> QED
      BY <3>1, <3>2
  <2>6. ASSUME NEW b \in Batch, Dequeue(b) \/ DequeueFails(b)
        PROVE  dequeueCount'[m] = dequeueCount[m] /\ receipt'[m] = receipt[m]
    BY <2>5, <2>6 DEF Dequeue, DequeueFails, queueVars
  <2>7. ASSUME \/ \E n \in Message : Enqueue(n) \/ Timeout(n)
               \/ \E b \in Batch : \/ BeginBatch(b) \/ ProcessRun(b) \/ ProcessRunFails(b)
                                   \/ Complete(b) \/ CompleteFails(b)
               \/ WorkerStart \/ WorkerStop \/ Crash \/ UNCHANGED vars
        PROVE  UNCHANGED <<dequeueCount, receipt>>
    BY <2>7 DEF Enqueue, Send, Timeout, Reappear, BeginBatch, ProcessRun,
                ProcessRunFails, Complete, Delete, CompleteFails, WorkerStart,
                WorkerStop, Crash, queueVars, vars
  <2> QED
    BY <2>4, <2>6, <2>7 DEF Next
<1> QED
  BY <1>2, <1>3

\* A completion that comes late does not take a message away from the call it was
\* delivered to again.
THEOREM LateCompletionsAreHarmless == Spec => LateCompleteHarmless
<1> DEFINE Harmless ==
        \A m \in Message :
          stored'[m] = "deleted" /\ stored[m] # "deleted" =>
              \A b \in Batch :
                  (\E i \in DOMAIN Todo(b) :
                       Todo(b)[i] = [message |-> m, count |-> dequeueCount[m]]
                       /\ dequeueCount[m] < CountCap)
                  => batch'[b] # batch[b]
<1>1. Init => HoldsReceipt
  BY DEF Init, ProcessorInit, Free, Todo, HoldsReceipt
<1>2. IInv /\ HoldsReceipt /\ [Next]_vars => [Harmless]_vars
  <2> SUFFICES ASSUME IInv, HoldsReceipt, [Next]_vars, NEW m \in Message,
                      stored'[m] = "deleted", stored[m] # "deleted",
                      NEW b \in Batch, NEW i \in DOMAIN Todo(b),
                      Todo(b)[i] = [message |-> m, count |-> dequeueCount[m]],
                      dequeueCount[m] < CountCap
               PROVE  batch'[b] # batch[b]
    OBVIOUS
  <2>1. TypeOK
    BY DEF IInv
  <2>2. receipt[m] = b
    BY DEF HoldsReceipt
  <2>3. Complete(b)
    <3>1. PICK q \in Batch : Complete(q) /\ m = Current(q)
      BY <2>1, Removal
    <3> QED
      BY <2>2, <3>1 DEF Complete, Delete, CanDelete
  <2>4. batch[b].pc \in Looping /\ Loop(b, Tail(batch[b].todo))
    BY <2>3 DEF Complete, CompleteSettled, Looping
  <2>5. /\ Todo(b) \in Seq(Item) /\ Len(Todo(b)) \in Nat /\ Len(Todo(b)) >= 1
        /\ Len(Todo(b)) <= BatchSize /\ Todo(b) = batch[b].todo
    BY <2>1, <2>4, TodoShape
  <2>6. Tail(Todo(b)) \in Seq(Item) /\ Len(Tail(Todo(b))) = Len(Todo(b)) - 1
    BY <2>5, TailShape
  <2>7. Todo(b)' = Tail(Todo(b))
    <3>1. Len(Tail(Todo(b))) <= BatchSize
      BY <2>5, <2>6, Bounds
    <3>2. Loop(b, Tail(Todo(b)))
      BY <2>4, <2>5
    <3> QED
      BY <2>1, <2>6, <3>1, <3>2, LoopEffect
  <2>8. Todo(b)' # Todo(b)
    <3>1. Len(Tail(Todo(b))) # Len(Todo(b))
      BY <2>5, <2>6
    <3> QED
      BY <2>7, <3>1
  <2> QED
    BY <2>8 DEF Todo
<1> QED
  BY <1>1, <1>2, WorkerInductive, ReceiptKeeps, PTL DEF Spec, LateCompleteHarmless

----------------------------------------------------------------------------
(* The worker with the laboratory.                                          *)

----------------------------------------------------------------------------
(* What the steps do to the laboratory and to the workflows.                *)

Statuses == {"created", "running", "completed"}

\* Workflows that had no answer to report i, that had all, and that go on.
Unanswered(i) == {f \in Flow : f.answered = i /\ f.state = "unanswered"}
Finished == {f \in Flow : f.answered = Done}
Busy == {f \in Flow : f.state = "running" /\ f.answered < Done}

Further(f)  == [f EXCEPT !.answered = @ + 1]
Ended(f, s) == [f EXCEPT !.state = s]

\* A workflow starts in silence.
LEMMA NewFlowFacts == NewFlow \in Flow /\ NewFlow \in Silent /\ NewFlow \notin Finished
  BY DEF NewFlow, Flow, Done, Silent, Finished

\* Where an answer brings a workflow ...
LEMMA FurtherFacts ==
    ASSUME NEW f \in Busy
    PROVE  /\ f \in Flow /\ Further(f) \in Flow /\ f.answered \in 0 .. Done
           /\ f.answered \in {0, 1, 2}
           /\ \A i \in 0 .. Done : f \notin Unanswered(i)
           /\ f \notin SentResults
           /\ f.answered = 0 => Further(f) \in SentRunning
           /\ f.answered \in {1, 2} => Further(f) \in SentComplete
           /\ f.answered = 2 => /\ Further(f) \in SentResults
                                /\ f \notin Silent /\ f \notin SentRunning
           /\ Further(f) \in Finished => f.answered = 2
<1>1. /\ f \in Flow /\ f.state = "running" /\ f.answered < 3
      /\ f.answered \in 0 .. 3
      BY DEF Busy, Flow, Done
<1>2. f.answered \in {0, 1, 2}
      BY <1>1
<1>3. Sent(f) = f.answered
      BY <1>1 DEF Sent
<1>4. /\ Further(f) \in Flow /\ Further(f).answered = f.answered + 1
      /\ Further(f).state = "running"
      BY <1>1 DEF Further, Flow, Done
<1>5. Sent(Further(f)) = f.answered + 1
      BY <1>1, <1>4 DEF Sent
<1> HIDE DEF Further
<1>6. \A i \in 0 .. Done : f \notin Unanswered(i)
      BY <1>1 DEF Unanswered
<1>7. f \notin SentResults
      BY <1>1, <1>3 DEF SentResults, Done
<1>8. /\ f.answered = 0 => Further(f) \in SentRunning
      /\ f.answered \in {1, 2} => Further(f) \in SentComplete
      BY <1>1, <1>4, <1>5 DEF SentRunning, SentComplete
<1>9. f.answered = 2 => /\ Further(f) \in SentResults
                         /\ f \notin Silent /\ f \notin SentRunning
      BY <1>1, <1>4, <1>5 DEF SentResults, Silent, SentRunning, Done
<1>10. Further(f) \in Finished => f.answered = 2
      BY <1>1, <1>4 DEF Finished, Done
<1> QED BY <1>1, <1>2, <1>4, <1>6, <1>7, <1>8, <1>9, <1>10 DEF Done

\* ... and what its end leaves of it.
LEMMA EndedFacts ==
    ASSUME NEW f \in Busy, NEW s \in {"failed", "unanswered"}
    PROVE  /\ f \in Flow /\ Ended(f, s) \in Flow /\ f.answered \in 0 .. Done
           /\ \A i \in 0 .. Done : f \notin Unanswered(i)
           /\ Ended(f, s) \notin Finished
           /\ Ended(f, "unanswered") \in Unanswered(f.answered)
           /\ f \in Silent => Ended(f, s) \in Silent
           /\ f \in SentRunning => Ended(f, s) \in SentRunning
           /\ f \in SentComplete => Ended(f, s) \in SentComplete
           /\ f \in SentResults => Ended(f, s) \in SentResults
<1>1. /\ f \in Flow /\ f.state = "running" /\ f.answered < 3
      /\ f.answered \in 0 .. 3
      BY DEF Busy, Flow, Done
<1>2. Sent(f) = f.answered
      BY <1>1 DEF Sent
<1>3. ASSUME NEW e \in {"failed", "unanswered"}
      PROVE  /\ Ended(f, e) \in Flow /\ Ended(f, e).answered = f.answered
             /\ Ended(f, e).state = e
      BY <1>1 DEF Ended, Flow, Done
<1>4. Sent(Ended(f, s)) \in {f.answered, f.answered + 1}
      BY <1>1, <1>3 DEF Sent
<1>5. \A i \in 0 .. Done : f \notin Unanswered(i)
      BY <1>1 DEF Unanswered
<1>6. Ended(f, s) \notin Finished /\ Ended(f, "unanswered") \in Unanswered(f.answered)
      BY <1>1, <1>3 DEF Finished, Unanswered, Done
<1>7. f \in Silent => Ended(f, s) \in Silent
      BY <1>3 DEF Silent
<1>8. f \in SentRunning => Ended(f, s) \in SentRunning
      BY <1>1, <1>2, <1>3, <1>4 DEF SentRunning
<1>9. f \in SentComplete => Ended(f, s) \in SentComplete
      BY <1>1, <1>2, <1>3, <1>4 DEF SentComplete
<1>10. f \notin SentResults
      BY <1>1, <1>2 DEF SentResults, Done
<1> QED BY <1>1, <1>3, <1>5, <1>6, <1>7, <1>8, <1>9, <1>10 DEF Done

\* A workflow that goes without an answer has sent the report.
LEMMA UnansweredFacts ==
    /\ Unanswered(0) \subseteq SentRunning
    /\ Unanswered(1) \subseteq SentComplete
    /\ Unanswered(2) \subseteq SentResults
  BY DEF Unanswered, SentRunning, SentComplete, SentResults, Sent, Done

\* One workflow moves.
LEMMA FlowMoves ==
    ASSUME flow \in [Message -> Seq(Flow)], NEW m \in Message, NEW k \in DOMAIN flow[m],
           NEW g \in Flow, flow' = [flow EXCEPT ![m][k] = g]
    PROVE  /\ flow' \in [Message -> Seq(Flow)]
           /\ \A n \in Message \ {m} : flow'[n] = flow[n]
           /\ DOMAIN flow'[m] = DOMAIN flow[m]
           /\ \A q \in DOMAIN flow[m] : flow'[m][q] = IF q = k THEN g ELSE flow[m][q]
<1>1. flow[m] \in Seq(Flow)
      OBVIOUS
<1>2. flow' = [n \in Message |-> IF n = m THEN [flow[m] EXCEPT ![k] = g] ELSE flow[n]]
      OBVIOUS
<1>3. [flow[m] EXCEPT ![k] = g] \in Seq(Flow)
      BY <1>1
<1> QED BY <1>1, <1>2, <1>3

\* A workflow that runs is busy.
LEMMA RunningBusy ==
    ASSUME flow \in [Message -> Seq(Flow)], NEW m \in Message, NEW k, Running(m, k)
    PROVE  k \in DOMAIN flow[m] /\ flow[m][k] \in Busy
<1>1. /\ flow[m] \in Seq(Flow) /\ k \in DOMAIN flow[m]
      /\ flow[m][k].state = "running" /\ flow[m][k].answered < Done
      BY DEF Running
<1>2. flow[m][k] \in Flow
      BY <1>1
<1> QED BY <1>1, <1>2 DEF Busy

\* A report is a status or a result of a registered run.
LEMMA ReportEffect ==
    ASSUME ReportsTyped, NEW m \in Message, NEW i \in 0 .. Done, Report(m, i)
    PROVE  /\ registry[m] # NoRow /\ i \in {0, 1, 2}
           /\ UNCHANGED <<used, published>>
           /\ i \in {0, 1} =>
                 /\ UNCHANGED reported
                 /\ registry' \in [Message -> Lab!RunRow \cup {NoRow}]
                 /\ \A n \in Message \ {m} : registry'[n] = registry[n]
                 /\ registry'[m] # NoRow
                 /\ registry'[m].status = IF i = 0 THEN "running" ELSE "completed"
           /\ i = 2 =>
                 /\ UNCHANGED registry
                 /\ reported' \in [Message -> Lab!ResultRow \cup {NoRow}]
                 /\ \A n \in Message \ {m} : reported'[n] = reported[n]
                 /\ reported'[m] # NoRow
<1>1. CASE i = 0 /\ Lab!SetStatus(m, "running")
  <2>1. /\ registry[m] # NoRow /\ UNCHANGED <<used, published, reported>>
        /\ registry' = [registry EXCEPT ![m].status = "running"]
        BY <1>1 DEF Lab!SetStatus
  <2>2. registry[m] \in Lab!RunRow /\ "running" \in Status
        BY <2>1, SandboxAssumption DEF ReportsTyped
  <2>3. [registry[m] EXCEPT !.status = "running"] \in Lab!RunRow
        BY <2>2 DEF Lab!RunRow
  <2>4. registry'[m] = [registry[m] EXCEPT !.status = "running"]
        BY <2>1 DEF ReportsTyped
  <2>5. registry'[m] # NoRow /\ registry'[m].status = "running"
        BY <2>2, <2>3, <2>4, SandboxAssumption DEF Lab!RunRow
  <2> QED BY <1>1, <2>1, <2>3, <2>4, <2>5 DEF ReportsTyped
<1>2. CASE i = 1 /\ Lab!SetStatus(m, "completed")
  <2>1. /\ registry[m] # NoRow /\ UNCHANGED <<used, published, reported>>
        /\ registry' = [registry EXCEPT ![m].status = "completed"]
        BY <1>2 DEF Lab!SetStatus
  <2>2. registry[m] \in Lab!RunRow /\ "completed" \in Status
        BY <2>1, SandboxAssumption DEF ReportsTyped
  <2>3. [registry[m] EXCEPT !.status = "completed"] \in Lab!RunRow
        BY <2>2 DEF Lab!RunRow
  <2>4. registry'[m] = [registry[m] EXCEPT !.status = "completed"]
        BY <2>1 DEF ReportsTyped
  <2>5. registry'[m] # NoRow /\ registry'[m].status = "completed"
        BY <2>2, <2>3, <2>4, SandboxAssumption DEF Lab!RunRow
  <2> QED BY <1>2, <2>1, <2>3, <2>4, <2>5 DEF ReportsTyped
<1>3. CASE i = 2 /\ \E measures \in Measures : Lab!Report(m, measures)
  <2>1. PICK measures \in Measures : Lab!Report(m, measures)
        BY <1>3
  <2>2. /\ registry[m] # NoRow /\ UNCHANGED <<registry, used, published>>
        /\ reported' = [reported EXCEPT ![m] = Lab!ResultOf(registry[m], measures)]
        BY <2>1 DEF Lab!Report
  <2>3. registry[m] \in Lab!RunRow
        BY <2>2 DEF ReportsTyped
  <2>4. Lab!ResultOf(registry[m], measures) \in Lab!ResultRow
        BY <2>3 DEF Lab!RunRow, Lab!ResultRow, Lab!ResultOf, Lab!BenchmarkRow,
                    Lab!CandidateRow, Lab!SuiteRow
  <2>5. /\ reported' \in [Message -> Lab!ResultRow \cup {NoRow}]
        /\ \A n \in Message \ {m} : reported'[n] = reported[n]
        /\ reported'[m] # NoRow
        BY <2>2, <2>4, SandboxAssumption DEF ReportsTyped
  <2> QED BY <1>3, <2>2, <2>5
<1> QED BY <1>1, <1>2, <1>3 DEF Report

\* Reports change nothing a run that is not registered has.
LEMMA Elsewhere ==
    ASSUME ReportsInv, NEW m \in Message, NEW i \in 0 .. Done, Report(m, i)
    PROVE  /\ registry' \in [Message -> Lab!RunRow \cup {NoRow}]
           /\ reported' \in [Message -> Lab!ResultRow \cup {NoRow}]
           /\ \A n \in Message : registry'[n] = NoRow <=> registry[n] = NoRow
           /\ \A n \in Message : reported[n] # NoRow => reported'[n] # NoRow
           /\ \A n \in Message \ {m} : /\ registry'[n] = registry[n]
                                       /\ reported'[n] = reported[n]
           /\ \A n \in Message : registry'[n] # NoRow => registry'[n].status \in Statuses
<1>1. ReportsTyped
      BY DEF ReportsInv
<1>2. CASE i \in {0, 1}
  <2>1. /\ UNCHANGED reported
        /\ registry' \in [Message -> Lab!RunRow \cup {NoRow}]
        /\ \A n \in Message \ {m} : registry'[n] = registry[n]
        /\ registry'[m] # NoRow /\ registry[m] # NoRow
        /\ registry'[m].status = IF i = 0 THEN "running" ELSE "completed"
        BY <1>1, <1>2, ReportEffect
  <2> QED BY <1>1, <2>1 DEF ReportsTyped, Statuses
<1>3. CASE i = 2
  <2>1. /\ UNCHANGED registry
        /\ reported' \in [Message -> Lab!ResultRow \cup {NoRow}]
        /\ \A n \in Message \ {m} : reported'[n] = reported[n]
        /\ reported'[m] # NoRow
        BY <1>1, <1>3, ReportEffect
  <2> QED BY <1>1, <2>1 DEF ReportsTyped, Statuses
<1> QED BY <1>1, <1>2, <1>3, ReportEffect

\* What StatusTellsExecution says of one run.
Told(m) ==
    /\ registry[m].status = "created" =>
          \A k \in DOMAIN flow[m] : flow[m][k] \in Silent
    /\ registry[m].status = "running" => SomeFlow(m, SentRunning)
    /\ registry[m].status = "completed" => SomeFlow(m, SentComplete)
    /\ reported[m] # NoRow => SomeFlow(m, SentResults)

\* A report is made and answered, and the workflow goes on.
LEMMA ContainerReportsKeeps ==
    ASSUME ReportsInv, NEW m \in Message, NEW k \in 1 .. MaxAttempts,
           ContainerReports(m, k)
    PROVE  ReportsInv'
<1>1. flow \in [Message -> Seq(Flow)]
      BY DEF ReportsInv, ReportsTyped
<1>2. PICK f \in Busy : f = flow[m][k]
      BY <1>1, RunningBusy DEF ContainerReports
<1>3. PICK j \in 0 .. Done : j = f.answered
      BY FurtherFacts
<1>4. j \in {0, 1, 2} /\ Report(m, j) /\ UNCHANGED late
      BY <1>2, <1>3, FurtherFacts DEF ContainerReports
<1>5. /\ flow' \in [Message -> Seq(Flow)]
      /\ \A n \in Message \ {m} : flow'[n] = flow[n]
      /\ DOMAIN flow'[m] = DOMAIN flow[m] /\ k \in DOMAIN flow[m]
      /\ \A q \in DOMAIN flow[m] : flow'[m][q] = IF q = k THEN Further(f) ELSE flow[m][q]
  <2>1. k \in DOMAIN flow[m]
        BY DEF ContainerReports, Running
  <2>2. flow' = [flow EXCEPT ![m][k] = Further(f)]
        BY <1>2 DEF ContainerReports, Further
  <2> QED BY <1>1, <2>1, <2>2, FurtherFacts, FlowMoves
<1>6. ReportsTyped'
      BY <1>4, <1>5, Elsewhere DEF ReportsInv, ReportsTyped, Statuses
<1>7. ASSUME NEW n \in Message, NEW S, SomeFlow(n, S), n # m \/ f \notin S
      PROVE  SomeFlow(n, S)'
  <2>1. CASE n # m
        BY <1>5, <1>7, <2>1 DEF SomeFlow
  <2>2. CASE n = m
        BY <1>2, <1>5, <1>7, <2>2 DEF SomeFlow
  <2> QED BY <2>1, <2>2
<1>8. ASSUME NEW S, Further(f) \in S PROVE SomeFlow(m, S)'
      BY <1>5, <1>8 DEF SomeFlow
<1>9. registry[m] # NoRow /\ registry'[m] # NoRow
      BY <1>4, ReportEffect DEF ReportsInv, ReportsTyped
<1>10. ReportsGrounded'
  <2>1. ASSUME NEW n \in Message, registry'[n] = NoRow
        PROVE  reported'[n] = NoRow /\ \A q \in DOMAIN flow'[n] : flow'[n][q] \in Silent
    <3>1. n # m /\ registry[n] = NoRow
          BY <1>4, <1>9, <2>1, Elsewhere
    <3>2. flow'[n] = flow[n] /\ reported'[n] = reported[n]
          BY <1>4, <1>5, <3>1, Elsewhere
    <3> QED BY <3>1, <3>2 DEF ReportsInv, ReportsGrounded
  <2>2. ASSUME NEW n \in Message, NEW i \in 0 .. Done, <<n, i>> \in late'
        PROVE  SomeFlow(n, Unanswered(i))'
    <3>1. SomeFlow(n, Unanswered(i))
          BY <1>4, <2>2 DEF ReportsInv, ReportsGrounded, Unanswered
    <3> QED BY <1>7, <3>1, FurtherFacts
  <2>3. ASSUME NEW n \in Message, SomeFlow(n, Finished)'
        PROVE  reported'[n] # NoRow
    <3>1. CASE SomeFlow(n, Finished)
          BY <1>4, <3>1, Elsewhere DEF ReportsInv, ReportsGrounded, Finished
    <3>2. CASE ~SomeFlow(n, Finished)
      <4>1. n = m
            BY <1>5, <2>3, <3>2 DEF SomeFlow
      <4>2. Further(f) \in Finished
            BY <1>5, <2>3, <3>2, <4>1 DEF SomeFlow
      <4>3. j = 2
            BY <1>3, <4>2, FurtherFacts
      <4> QED BY <1>4, <4>1, <4>3, ReportEffect DEF ReportsInv
    <3> QED BY <3>1, <3>2
  <2> QED BY <2>1, <2>2, <2>3 DEF ReportsGrounded, Unanswered, Finished
<1>11. ASSUME NEW n \in Message, registry'[n] # NoRow
       PROVE  Told(n)'
  <2>1. CASE n # m
    <3>1. registry'[n] = registry[n] /\ reported'[n] = reported[n] /\ flow'[n] = flow[n]
          BY <1>4, <1>5, <2>1, Elsewhere
    <3> QED BY <1>7, <1>11, <2>1, <3>1 DEF ReportsInv, StatusTellsExecution, Told
  <2>2. CASE n = m /\ j \in {0, 1}
    <3>1. /\ registry'[m].status = IF j = 0 THEN "running" ELSE "completed"
          /\ reported'[m] = reported[m]
          BY <1>4, <2>2, ReportEffect DEF ReportsInv
    <3>2. reported[m] # NoRow => SomeFlow(m, SentResults)'
          BY <1>7, <1>9, FurtherFacts DEF ReportsInv, StatusTellsExecution
    <3>3. /\ j = 0 => SomeFlow(m, SentRunning)'
          /\ j = 1 => SomeFlow(m, SentComplete)'
          BY <1>3, <1>8, FurtherFacts
    <3> QED BY <2>2, <3>1, <3>2, <3>3 DEF Told
  <2>3. CASE n = m /\ j = 2
    <3>1. registry'[m] = registry[m]
          BY <1>4, <2>3, ReportEffect DEF ReportsInv
    <3>2. f \notin Silent /\ f \notin SentRunning
          BY <1>3, <2>3, FurtherFacts
    <3>3. registry[m].status # "created"
          BY <1>2, <1>5, <1>9, <3>2 DEF ReportsInv, StatusTellsExecution
    <3>4. registry[m].status = "running" => SomeFlow(m, SentRunning)'
          BY <1>7, <1>9, <3>2 DEF ReportsInv, StatusTellsExecution
    <3>5. SomeFlow(m, SentComplete)' /\ SomeFlow(m, SentResults)'
          BY <1>3, <1>8, <2>3, FurtherFacts
    <3> QED BY <2>3, <3>1, <3>3, <3>4, <3>5 DEF Told
  <2> QED BY <1>4, <2>1, <2>2, <2>3
<1> QED BY <1>6, <1>10, <1>11 DEF ReportsInv, StatusTellsExecution, Told

\* A workflow ends early, where it is.
LEMMA ContainerFailsKeeps ==
    ASSUME ReportsInv, NEW m \in Message, NEW k \in 1 .. MaxAttempts,
           ContainerFails(m, k)
    PROVE  ReportsInv'
<1>1. flow \in [Message -> Seq(Flow)] /\ UNCHANGED <<registry, reported>>
      BY DEF ReportsInv, ReportsTyped, ContainerFails, labVars
<1>2. PICK f \in Busy : f = flow[m][k]
      BY <1>1, RunningBusy DEF ContainerFails
<1>3. PICK s \in {"failed", "unanswered"} :
        /\ flow' = [flow EXCEPT ![m][k] = Ended(f, s)]
        /\ late' = late \/ (s = "unanswered" /\ late' = late \cup {<<m, f.answered>>})
      BY <1>2 DEF ContainerFails, Ended
<1>4. /\ flow' \in [Message -> Seq(Flow)]
      /\ \A n \in Message \ {m} : flow'[n] = flow[n]
      /\ DOMAIN flow'[m] = DOMAIN flow[m] /\ k \in DOMAIN flow[m]
      /\ \A q \in DOMAIN flow[m] : flow'[m][q] = IF q = k THEN Ended(f, s) ELSE flow[m][q]
  <2>1. k \in DOMAIN flow[m]
        BY DEF ContainerFails, Running
  <2> QED BY <1>1, <1>3, <2>1, EndedFacts, FlowMoves
<1>5. ReportsTyped'
  <2>1. late' \subseteq Message \X (0 .. Done)
        BY <1>3, EndedFacts DEF ReportsInv, ReportsTyped
  <2> QED BY <1>1, <1>4, <2>1 DEF ReportsInv, ReportsTyped
<1>6. ASSUME NEW n \in Message, NEW S, SomeFlow(n, S), f \in S => Ended(f, s) \in S
      PROVE  SomeFlow(n, S)'
  <2>1. CASE n # m
        BY <1>4, <1>6, <2>1 DEF SomeFlow
  <2>2. CASE n = m
        BY <1>2, <1>4, <1>6, <2>2 DEF SomeFlow
  <2> QED BY <2>1, <2>2
<1>7. ASSUME NEW n \in Message, \A q \in DOMAIN flow[n] : flow[n][q] \in Silent
      PROVE  \A q \in DOMAIN flow'[n] : flow'[n][q] \in Silent
  <2>1. CASE n # m
        BY <1>4, <1>7, <2>1
  <2>2. CASE n = m
        BY <1>2, <1>4, <1>7, <2>2, EndedFacts
  <2> QED BY <2>1, <2>2
<1>8. ASSUME NEW n \in Message, SomeFlow(n, Finished)' PROVE SomeFlow(n, Finished)
  <2>1. CASE n # m
        BY <1>4, <1>8, <2>1 DEF SomeFlow
  <2>2. CASE n = m
        BY <1>4, <1>8, <2>2, EndedFacts DEF SomeFlow
  <2> QED BY <2>1, <2>2
<1>9. ReportsGrounded'
  <2>1. ASSUME NEW n \in Message, NEW i \in 0 .. Done, <<n, i>> \in late'
        PROVE  SomeFlow(n, Unanswered(i))'
    <3>1. CASE <<n, i>> \in late
      <4>1. SomeFlow(n, Unanswered(i))
            BY <3>1 DEF ReportsInv, ReportsGrounded, Unanswered
      <4> QED BY <1>6, <4>1, EndedFacts
    <3>2. CASE n = m /\ i = f.answered /\ s = "unanswered"
      <4>1. Ended(f, s) \in Unanswered(i)
            BY <3>2, EndedFacts
      <4> QED BY <1>4, <3>2, <4>1 DEF SomeFlow
    <3> QED BY <1>3, <2>1, <3>1, <3>2
  <2> QED BY <1>1, <1>7, <1>8, <2>1 DEF ReportsInv, ReportsGrounded, Unanswered, Finished
<1>10. StatusTellsExecution'
  <2>1. ASSUME NEW n \in Message
        PROVE  /\ SomeFlow(n, SentRunning) => SomeFlow(n, SentRunning)'
               /\ SomeFlow(n, SentComplete) => SomeFlow(n, SentComplete)'
               /\ SomeFlow(n, SentResults) => SomeFlow(n, SentResults)'
        BY <1>6, EndedFacts
  <2> QED BY <1>1, <1>7, <2>1 DEF ReportsInv, StatusTellsExecution
<1> QED BY <1>5, <1>9, <1>10 DEF ReportsInv

\* A late report is one that a workflow of the run has sent.
LEMMA LateReportKeeps ==
    ASSUME ReportsInv, NEW m \in Message, NEW i \in 0 .. Done, LateReport(m, i)
    PROVE  ReportsInv'
<1>1. /\ Report(m, i) /\ UNCHANGED flow /\ late' \subseteq late
      /\ SomeFlow(m, Unanswered(i))
      BY DEF LateReport, ReportsInv, ReportsGrounded, Unanswered
<1>2. registry[m] # NoRow /\ registry'[m] # NoRow /\ i \in {0, 1, 2}
      BY <1>1, Elsewhere, ReportEffect DEF ReportsInv
<1>3. ReportsTyped'
      BY <1>1, Elsewhere DEF ReportsInv, ReportsTyped, Statuses
<1>4. \A n \in Message : \A S : SomeFlow(n, S)' <=> SomeFlow(n, S)
      BY <1>1 DEF SomeFlow
<1>5. ReportsGrounded'
  <2>1. ASSUME NEW n \in Message, registry'[n] = NoRow
        PROVE  reported'[n] = NoRow /\ \A q \in DOMAIN flow'[n] : flow'[n][q] \in Silent
    <3>1. n # m /\ registry[n] = NoRow
          BY <1>1, <1>2, <2>1, Elsewhere
    <3>2. reported'[n] = reported[n]
          BY <1>1, <3>1, Elsewhere
    <3> QED BY <1>1, <3>1, <3>2 DEF ReportsInv, ReportsGrounded
  <2>2. ASSUME NEW n \in Message, NEW q \in 0 .. Done, <<n, q>> \in late'
        PROVE  SomeFlow(n, Unanswered(q))'
        BY <1>1, <1>4, <2>2 DEF ReportsInv, ReportsGrounded, Unanswered
  <2>3. ASSUME NEW n \in Message, SomeFlow(n, Finished)'
        PROVE  reported'[n] # NoRow
        BY <1>1, <1>4, <2>3, Elsewhere DEF ReportsInv, ReportsGrounded, Finished
  <2> QED BY <2>1, <2>2, <2>3 DEF ReportsGrounded, Unanswered, Finished
<1>6. ASSUME NEW n \in Message, registry'[n] # NoRow
      PROVE  Told(n)'
  <2>1. CASE n # m
    <3>1. registry'[n] = registry[n] /\ reported'[n] = reported[n] /\ flow'[n] = flow[n]
          BY <1>1, <2>1, Elsewhere
    <3> QED BY <1>4, <1>6, <3>1 DEF ReportsInv, StatusTellsExecution, Told
  <2>2. CASE n = m /\ i \in {0, 1}
    <3>1. /\ registry'[m].status = IF i = 0 THEN "running" ELSE "completed"
          /\ reported'[m] = reported[m]
          BY <1>1, <2>2, ReportEffect DEF ReportsInv
    <3>2. /\ i = 0 => SomeFlow(m, SentRunning)
          /\ i = 1 => SomeFlow(m, SentComplete)
          BY <1>1, UnansweredFacts DEF SomeFlow
    <3>3. reported[m] # NoRow => SomeFlow(m, SentResults)
          BY <1>2 DEF ReportsInv, StatusTellsExecution
    <3> QED BY <1>4, <2>2, <3>1, <3>2, <3>3 DEF Told
  <2>3. CASE n = m /\ i = 2
    <3>1. registry'[m] = registry[m]
          BY <1>1, <2>3, ReportEffect DEF ReportsInv
    <3>2. SomeFlow(m, SentResults)
          BY <1>1, <2>3, UnansweredFacts DEF SomeFlow
    <3> QED BY <1>1, <1>2, <1>4, <2>3, <3>1, <3>2 DEF ReportsInv, StatusTellsExecution, Told
  <2> QED BY <1>2, <2>1, <2>2, <2>3
<1> QED BY <1>3, <1>5, <1>6 DEF ReportsInv, StatusTellsExecution, Told

\* A new workflow has reported nothing.
LEMMA Launched ==
    ASSUME ReportsTyped, Launch, NEW m \in Message
    PROVE  /\ flow'[m] \in Seq(Flow)
           /\ \/ flow'[m] = flow[m]
              \/ /\ workflows'[m] > workflows[m]
                 /\ flow'[m] = Append(flow[m], NewFlow)
                 /\ DOMAIN flow'[m] = DOMAIN flow[m] \cup {Len(flow[m]) + 1}
                 /\ \A q \in DOMAIN flow[m] : flow'[m][q] = flow[m][q]
                 /\ flow'[m][Len(flow[m]) + 1] = NewFlow
<1>1. flow[m] \in Seq(Flow)
      BY DEF ReportsTyped
<1>2. flow'[m] = IF workflows'[m] > workflows[m] THEN Append(flow[m], NewFlow) ELSE flow[m]
      BY DEF Launch
<1>3. /\ Append(flow[m], NewFlow) \in Seq(Flow)
      /\ DOMAIN Append(flow[m], NewFlow) = DOMAIN flow[m] \cup {Len(flow[m]) + 1}
      /\ \A q \in DOMAIN flow[m] : Append(flow[m], NewFlow)[q] = flow[m][q]
      /\ Append(flow[m], NewFlow)[Len(flow[m]) + 1] = NewFlow
      BY <1>1, NewFlowFacts
<1> QED BY <1>1, <1>2, <1>3

\* New workflows have reported nothing, so that they disturb nothing.
LEMMA LaunchKeeps ==
    ASSUME ReportsInv, Launch
    PROVE  ReportsInv'
<1>1. ReportsTyped /\ UNCHANGED <<registry, reported, late>>
      BY DEF Launch, ReportsInv, labVars
<1>2. flow' \in [Message -> Seq(Flow)]
  <2>1. DOMAIN flow' = Message /\ flow' = [m \in Message |-> flow'[m]]
        BY DEF Launch
  <2> QED BY <1>1, <2>1, Launched
<1>3. ASSUME NEW m \in Message, NEW S, SomeFlow(m, S)
      PROVE  SomeFlow(m, S)'
      BY <1>1, <1>3, Launched DEF SomeFlow
<1>4. ASSUME NEW m \in Message, SomeFlow(m, Finished)' PROVE SomeFlow(m, Finished)
      BY <1>1, <1>4, Launched, NewFlowFacts DEF SomeFlow
<1>5. ASSUME NEW m \in Message, \A q \in DOMAIN flow[m] : flow[m][q] \in Silent
      PROVE  \A q \in DOMAIN flow'[m] : flow'[m][q] \in Silent
      BY <1>1, <1>5, Launched, NewFlowFacts
<1>6. ReportsTyped'
      BY <1>1, <1>2 DEF ReportsTyped
<1>7. ReportsGrounded'
      BY <1>1, <1>3, <1>4, <1>5 DEF ReportsInv, ReportsGrounded, Finished
<1>8. StatusTellsExecution'
      BY <1>1, <1>3, <1>5 DEF ReportsInv, StatusTellsExecution
<1> QED BY <1>6, <1>7, <1>8 DEF ReportsInv

\* A run is registered before anything is reported of it.
LEMMA RegisterKeeps ==
    ASSUME ReportsInv, NEW m \in Message, RegisterRun(m)
    PROVE  ReportsInv'
<1>1. PICK run \in Lab!RunRow : registry' = [registry EXCEPT ![m] = run]
      BY DEF RegisterRun
<1>2. /\ registry[m] = NoRow /\ registry'[m].status = "created"
      /\ UNCHANGED <<reported, flow, late>>
      BY DEF RegisterRun, Lab!Register
<1>3. /\ registry' \in [Message -> Lab!RunRow \cup {NoRow}]
      /\ registry'[m] # NoRow
      /\ \A n \in Message \ {m} : registry'[n] = registry[n]
      BY <1>1, SandboxAssumption DEF ReportsInv, ReportsTyped
<1>4. reported[m] = NoRow /\ \A q \in DOMAIN flow[m] : flow[m][q] \in Silent
      BY <1>2 DEF ReportsInv, ReportsGrounded
<1>5. \A n \in Message : \A S : SomeFlow(n, S)' <=> SomeFlow(n, S)
      BY <1>2 DEF SomeFlow
<1>6. ReportsTyped'
      BY <1>2, <1>3 DEF ReportsInv, ReportsTyped
<1>7. ReportsGrounded'
      BY <1>2, <1>3, <1>5 DEF ReportsInv, ReportsGrounded
<1>8. StatusTellsExecution'
  <2>1. ASSUME NEW n \in Message, registry'[n] # NoRow
        PROVE  Told(n)'
    <3>1. CASE n = m
          BY <1>2, <1>4, <3>1 DEF Told
    <3>2. CASE n # m
          BY <1>2, <1>3, <1>5, <2>1, <3>2 DEF ReportsInv, StatusTellsExecution, Told
    <3> QED BY <3>1, <3>2
  <2> QED BY <2>1 DEF StatusTellsExecution, Told
<1> QED BY <1>6, <1>7, <1>8 DEF ReportsInv

\* Before the first request there is no run, no workflow and no report.
LEMMA ReportsInit == SandboxInit => ReportsInv
<1> SUFFICES ASSUME SandboxInit PROVE ReportsInv
    OBVIOUS
<1>1. /\ registry = [n \in Message |-> NoRow] /\ reported = [n \in Message |-> NoRow]
      /\ flow = [m \in Message |-> << >>] /\ late = {}
      BY DEF SandboxInit, Lab!Init
<1> QED BY <1>1 DEF ReportsInv, ReportsTyped, ReportsGrounded, StatusTellsExecution, SomeFlow

\* The invariant about reports is kept by every step of laboratory, worker and
\* containers.
LEMMA ReportsNext == ReportsInv /\ [SandboxNext]_sandboxVars => ReportsInv'
<1> SUFFICES ASSUME ReportsInv, [SandboxNext]_sandboxVars PROVE ReportsInv'
    OBVIOUS
<1>1. ASSUME UNCHANGED <<registry, reported, flow, late>> PROVE ReportsInv'
      BY <1>1 DEF ReportsInv, ReportsTyped, ReportsGrounded, StatusTellsExecution, SomeFlow
<1>2. CASE UNCHANGED sandboxVars
      BY <1>1, <1>2 DEF sandboxVars, labVars
<1>3. ASSUME NEW m \in Message, ReserveName(m) \/ SendRun(m) \/ Expire(m)
      PROVE  ReportsInv'
      BY <1>1, <1>3 DEF ReserveName, SendRun, Expire, labVars, Lab!Reserve, Lab!Publish
<1> QED
    BY <1>2, <1>3, RegisterKeeps, LaunchKeeps, ContainerReportsKeeps, ContainerFailsKeeps,
       LateReportKeeps DEF SandboxNext, WorkerStep

\* The status and the result of a run tell truly how far its workflows have
\* come, for any number of workflows per run.
THEOREM StatusesTellExecution == SandboxSpec => []StatusTellsExecution
<1>1. ReportsInv => StatusTellsExecution
      BY DEF ReportsInv
<1> QED BY <1>1, ReportsInit, ReportsNext, PTL DEF SandboxSpec

\* A run all of whose workflows had their "completed" answered is completed, and
\* results that were answered are there.
THEOREM SuccessfulRunsAreCompleted == SandboxSpec => []SuccessfulRunsComplete
<1>1. ReportsInv => SuccessfulRunsComplete
  <2> SUFFICES ASSUME ReportsInv, NEW m \in Message
               PROVE  /\ (flow[m] # << >> /\ \A k \in DOMAIN flow[m] : flow[m][k].answered >= 2)
                            => registry[m] # NoRow /\ registry[m].status = "completed"
                      /\ (\E k \in DOMAIN flow[m] : flow[m][k].answered = Done)
                            => registry[m] # NoRow /\ reported[m] # NoRow
      BY DEF SuccessfulRunsComplete
  <2>1. flow[m] \in Seq(Flow) /\ \A k \in DOMAIN flow[m] : flow[m][k] \in Flow
        BY DEF ReportsInv, ReportsTyped
  <2>2. ASSUME NEW k \in DOMAIN flow[m], flow[m][k].answered >= 2
        PROVE  flow[m][k] \notin Silent /\ flow[m][k] \notin SentRunning
        BY <2>1, <2>2 DEF Silent, SentRunning, Flow
  <2>3. ASSUME NEW k \in DOMAIN flow[m], flow[m][k].answered >= 2
        PROVE  registry[m] # NoRow /\ registry[m].status # "created"
        BY <2>2, <2>3 DEF ReportsInv, ReportsGrounded, StatusTellsExecution
  <2>4. ASSUME flow[m] # << >>, \A k \in DOMAIN flow[m] : flow[m][k].answered >= 2
        PROVE  registry[m] # NoRow /\ registry[m].status = "completed"
    <3>1. 1 \in DOMAIN flow[m]
          BY <2>1, <2>4, EmptySeq
    <3>2. ~SomeFlow(m, SentRunning)
          BY <2>2, <2>4 DEF SomeFlow
    <3> QED BY <2>3, <2>4, <3>1, <3>2 DEF ReportsInv, ReportsTyped, StatusTellsExecution
  <2>5. ASSUME NEW k \in DOMAIN flow[m], flow[m][k].answered = Done
        PROVE  registry[m] # NoRow /\ reported[m] # NoRow
    <3>1. flow[m][k].answered >= 2
          BY <2>5 DEF Done
    <3>2. SomeFlow(m, {f \in Flow : f.answered = Done})
          BY <2>1, <2>5 DEF SomeFlow
    <3> QED BY <2>3, <3>1, <3>2 DEF ReportsInv, ReportsGrounded
  <2> QED BY <2>4, <2>5
<1> QED BY <1>1, ReportsInit, ReportsNext, PTL DEF SandboxSpec

----------------------------------------------------------------------------
(* What the worker executes.                                                *)

\* A message that was delivered has been sent, and so is of a registered run.
SentOK ==
    /\ \A m \in Message :
          /\ dequeueCount[m] > 0 => stored[m] # "absent"
          /\ stored[m] # "absent" =>
                /\ registry[m] # NoRow
                /\ Lab!createMessage(registry[m]) \in published
          /\ flow[m] # << >> => workflows[m] > 0
    /\ registry \in [Message -> Lab!RunRow \cup {NoRow}]
    /\ flow \in [Message -> Seq(Flow)]

ExecutionInv == TypeOK /\ Held /\ SentOK

\* The worker only receives what is in the queue.
LEMMA WorkerReceives ==
    ASSUME TypeOK, WorkerStep, NEW m \in Message
    PROVE  /\ [Next]_vars
           /\ stored'[m] = "absent" <=> stored[m] = "absent"
           /\ dequeueCount'[m] > 0 => dequeueCount[m] > 0 \/ stored[m] # "absent"
<1>1. [Next]_vars
      BY DEF WorkerStep, Next
<1>2. stored[m] \in {"absent", "visible", "hidden", "deleted"}
      BY DEF TypeOK
<1>3. ASSUME NEW b \in Batch, NEW s \in Deliveries, Deliver(b, s)
      PROVE  /\ stored'[m] = "absent" <=> stored[m] = "absent"
             /\ dequeueCount'[m] = dequeueCount[m] \/ stored[m] # "absent"
  <2> DEFINE taken == {s[i] : i \in DOMAIN s}
  <2>1. taken \subseteq Visible
    <3>1. CASE s = << >>
          BY <3>1
    <3>2. ASSUME NEW n \in 1 .. BatchSize, s \in [1 .. n -> Visible] PROVE taken \subseteq Visible
          BY <3>2
    <3> QED BY <3>1, <3>2 DEF Deliveries
  <2>2. m \in taken => stored[m] = "visible"
        BY <2>1 DEF Visible
  <2>3. /\ stored'[m] = IF m \in taken THEN "hidden" ELSE stored[m]
        /\ m \notin taken => dequeueCount'[m] = dequeueCount[m]
        BY <1>3 DEF Deliver
  <2> QED BY <2>2, <2>3
<1>4. ASSUME NEW b \in Batch, Dequeue(b) \/ DequeueFails(b)
      PROVE  /\ stored'[m] = "absent" <=> stored[m] = "absent"
             /\ dequeueCount'[m] = dequeueCount[m] \/ stored[m] # "absent"
      BY <1>3, <1>4 DEF Dequeue, DequeueFails, queueVars
<1>5. ASSUME NEW b \in Batch, Complete(b)
      PROVE  /\ stored'[m] = "absent" <=> stored[m] = "absent"
             /\ dequeueCount'[m] = dequeueCount[m]
      BY <1>5 DEF Complete, Delete, CanDelete, TypeOK
<1>6. ASSUME NEW n \in Message, Timeout(n)
      PROVE  /\ stored'[m] = "absent" <=> stored[m] = "absent"
             /\ dequeueCount'[m] = dequeueCount[m]
      BY <1>6 DEF Timeout, Reappear, TypeOK
<1>7. ASSUME \/ \E b \in Batch : \/ BeginBatch(b) \/ CompleteFails(b)
                                 \/ ProcessRun(b) \/ ProcessRunFails(b)
             \/ WorkerStart \/ WorkerStop \/ Crash
      PROVE  UNCHANGED <<stored, dequeueCount>>
      BY <1>7 DEF BeginBatch, CompleteFails, ProcessRun, ProcessRunFails, WorkerStart,
                  WorkerStop, Crash, queueVars
<1> QED BY <1>1, <1>4, <1>5, <1>6, <1>7 DEF WorkerStep

\* The message a run was sent with does not hang on its status.
LEMMA ReportLeavesMessage ==
    ASSUME NEW n \in Message, NEW m \in Message, NEW i \in 0 .. Done, Report(m, i),
           registry \in [Message -> Lab!RunRow \cup {NoRow}], registry[n] # NoRow
    PROVE  /\ UNCHANGED published
           /\ registry' \in [Message -> Lab!RunRow \cup {NoRow}]
           /\ registry'[n] # NoRow
           /\ Lab!createMessage(registry'[n]) = Lab!createMessage(registry[n])
<1>1. ASSUME NEW status \in Status, Lab!SetStatus(m, status)
      PROVE  /\ UNCHANGED published
             /\ registry' \in [Message -> Lab!RunRow \cup {NoRow}]
             /\ registry'[n] # NoRow
             /\ Lab!createMessage(registry'[n]) = Lab!createMessage(registry[n])
  <2>1. /\ registry' = [registry EXCEPT ![m].status = status]
        /\ registry[m] \in Lab!RunRow /\ UNCHANGED published
        BY <1>1 DEF Lab!SetStatus
  <2>2. /\ [registry[m] EXCEPT !.status = status] \in Lab!RunRow
        /\ Lab!createMessage([registry[m] EXCEPT !.status = status]) =
              Lab!createMessage(registry[m])
        BY <2>1 DEF Lab!RunRow, Lab!createMessage
  <2>3. /\ registry' \in [Message -> Lab!RunRow \cup {NoRow}]
        /\ registry'[n] = IF n = m THEN [registry[m] EXCEPT !.status = status]
                                   ELSE registry[n]
        BY <2>1, <2>2
  <2> QED BY <2>1, <2>2, <2>3, SandboxAssumption
<1>2. "running" \in Status /\ "completed" \in Status
      BY SandboxAssumption
<1> QED BY <1>1, <1>2 DEF Report, Lab!Report

\* Before the first request nothing is sent and nothing is held.
LEMMA ExecutionInit == SandboxInit => ExecutionInv
<1> SUFFICES ASSUME SandboxInit PROVE ExecutionInv
    OBVIOUS
<1>1. TypeOK /\ Held
      BY InitKeeps DEF SandboxInit, IInv
<1>2. /\ stored = [m \in Message |-> "absent"] /\ dequeueCount = [m \in Message |-> 0]
      /\ registry = [m \in Message |-> NoRow] /\ flow = [m \in Message |-> << >>]
      BY DEF SandboxInit, Init, QueueInit, Lab!Init
<1> QED BY <1>1, <1>2 DEF ExecutionInv, SentOK

\* Every step keeps what ties messages and workflows to registered runs.
LEMMA ExecutionNext == ExecutionInv /\ [SandboxNext]_sandboxVars => ExecutionInv'
<1> SUFFICES ASSUME ExecutionInv, [SandboxNext]_sandboxVars PROVE ExecutionInv'
    OBVIOUS
<1>0. TypeOK /\ Held /\ SentOK
      BY DEF ExecutionInv
<1>1. ASSUME UNCHANGED workerVars PROVE TypeOK' /\ Held'
  <2>1. UNCHANGED vars
        BY <1>1 DEF workerVars, vars
  <2> QED BY <1>0, <2>1, HeldKeeps
<1>2. CASE UNCHANGED sandboxVars
  <2>1. UNCHANGED workerVars /\ UNCHANGED <<registry, published, flow>>
        BY <1>2 DEF sandboxVars, labVars
  <2> QED BY <1>0, <1>1, <2>1 DEF ExecutionInv, SentOK, workerVars
<1>3. ASSUME NEW m \in Message, ReserveName(m) PROVE ExecutionInv'
  <2>1. UNCHANGED workerVars /\ UNCHANGED <<registry, published, flow>>
        BY <1>3 DEF ReserveName, Lab!Reserve
  <2> QED BY <1>0, <1>1, <2>1 DEF ExecutionInv, SentOK, workerVars
<1>4. ASSUME NEW m \in Message, RegisterRun(m) PROVE ExecutionInv'
  <2>1. PICK run \in Lab!RunRow : registry' = [registry EXCEPT ![m] = run]
        BY <1>4 DEF RegisterRun
  <2>2. registry[m] = NoRow /\ UNCHANGED workerVars /\ UNCHANGED <<published, flow>>
        BY <1>4 DEF RegisterRun, Lab!Register
  <2>3. SentOK'
        BY <1>0, <2>1, <2>2 DEF SentOK, workerVars
  <2> QED BY <1>1, <2>2, <2>3 DEF ExecutionInv
<1>5. ASSUME NEW m \in Message, SendRun(m) PROVE ExecutionInv'
  <2>1. /\ registry[m] # NoRow /\ UNCHANGED <<registry, flow>>
        /\ published' = published \cup {Lab!createMessage(registry[m])}
        BY <1>5 DEF SendRun, Lab!Publish
  <2>2. /\ Enqueue(m) /\ stored' = [stored EXCEPT ![m] = "visible"]
        /\ UNCHANGED <<dequeueCount, workflows>>
        BY <1>5 DEF SendRun, Enqueue, Send
  <2>3. TypeOK' /\ Held'
        BY <1>0, <2>2, HeldKeeps DEF Next
  <2>4. SentOK'
        BY <1>0, <2>1, <2>2 DEF SentOK, TypeOK
  <2> QED BY <2>3, <2>4 DEF ExecutionInv
<1>6. ASSUME NEW m \in Message, Expire(m) PROVE ExecutionInv'
  <2>1. /\ stored' = [stored EXCEPT ![m] = "deleted"]
        /\ UNCHANGED <<dequeueCount, receipt, interval, immediates, batch, attempts,
                       workflows, registry, published, flow>>
        BY <1>6 DEF Expire, processorVars, labVars
  <2>2. TypeOK'
        BY <1>0, <2>1 DEF TypeOK
  <2>3. \A b \in Batch : Todo(b)' = Todo(b)
        BY <2>1 DEF Todo
  <2>4. CountsOK' /\ OneHolder' /\ CurrentOK'
        BY <1>0, <2>1, <2>3 DEF Held, CountsOK, OneHolder, CurrentOK
  <2>5. \A n \in Message : Trying(n)' = Trying(n) /\ Waiting(n)' = Waiting(n)
        BY <2>1, <2>3 DEF Trying, Waiting
  <2>6. BooksOK'
        BY <1>0, <2>1, <2>5 DEF Held, BooksOK, BooksOf
  <2>7. SentOK'
        BY <1>0, <1>6, <2>1 DEF SentOK, TypeOK, Expire
  <2> QED BY <2>2, <2>4, <2>6, <2>7 DEF ExecutionInv, Held
<1>7. ASSUME WorkerStep PROVE ExecutionInv'
  <2>1. TypeOK' /\ Held'
        BY <1>0, <1>7, WorkerReceives, HeldKeeps DEF WorkerStep, Next
  <2>2. UNCHANGED <<registry, published>> /\ Launch
        BY <1>7 DEF WorkerStep, Launch, labVars
  <2>3. ASSUME NEW m \in Message
        PROVE  /\ flow'[m] \in Seq(Flow)
               /\ flow'[m] # << >> => workflows'[m] > 0
    <3>1. /\ workflows[m] \in Nat /\ workflows'[m] \in Nat /\ workflows'[m] >= workflows[m]
          BY <1>0, <1>7, <2>1, WorkerReceives, CountsGrow DEF TypeOK
    <3>2. flow'[m] = IF workflows'[m] > workflows[m] THEN Append(flow[m], NewFlow) ELSE flow[m]
          BY <2>2 DEF Launch
    <3>3. flow[m] \in Seq(Flow) /\ (flow[m] # << >> => workflows[m] > 0)
          BY <1>0 DEF SentOK
    <3>4. Append(flow[m], NewFlow) \in Seq(Flow)
          BY <3>3, NewFlowFacts
    <3> QED BY <3>1, <3>2, <3>3, <3>4
  <2>4. flow' \in [Message -> Seq(Flow)]
        BY <2>2, <2>3 DEF Launch
  <2>5. ASSUME NEW m \in Message
        PROVE  /\ dequeueCount'[m] > 0 => stored'[m] # "absent"
               /\ stored'[m] # "absent" => stored[m] # "absent"
        BY <1>0, <1>7, WorkerReceives DEF SentOK
  <2>6. SentOK'
        BY <1>0, <2>2, <2>3, <2>4, <2>5 DEF SentOK
  <2> QED BY <2>1, <2>6 DEF ExecutionInv
<1>8. ASSUME NEW m \in Message, NEW i \in 0 .. Done, Report(m, i) \/ UNCHANGED labVars,
             UNCHANGED workerVars, flow' \in [Message -> Seq(Flow)],
             \A n \in Message : flow'[n] # << >> => flow[n] # << >>
      PROVE  ExecutionInv'
  <2>1. ASSUME NEW n \in Message, registry[n] # NoRow
        PROVE  /\ UNCHANGED published /\ registry'[n] # NoRow
               /\ Lab!createMessage(registry'[n]) = Lab!createMessage(registry[n])
        BY <1>0, <1>8, <2>1, ReportLeavesMessage DEF SentOK, labVars
  <2>2. registry' \in [Message -> Lab!RunRow \cup {NoRow}]
    <3>1. CASE UNCHANGED labVars
          BY <1>0, <3>1 DEF SentOK, labVars
    <3>2. CASE Report(m, i)
      <4>1. registry[m] # NoRow
            BY <3>2 DEF Report, Lab!SetStatus, Lab!Report
      <4> QED BY <1>0, <3>2, <4>1, ReportLeavesMessage DEF SentOK
    <3> QED BY <1>8, <3>1, <3>2
  <2>3. SentOK'
        BY <1>0, <1>8, <2>1, <2>2 DEF SentOK, workerVars
  <2> QED BY <1>1, <1>8, <2>3 DEF ExecutionInv
<1>9. ASSUME NEW m \in Message, NEW k \in DOMAIN flow[m], NEW g \in Flow,
             flow' = [flow EXCEPT ![m][k] = g]
      PROVE  /\ flow' \in [Message -> Seq(Flow)]
             /\ \A n \in Message : flow'[n] # << >> => flow[n] # << >>
  <2>1. flow[m] \in Seq(Flow) /\ flow[m] # << >>
        BY <1>0, <1>9 DEF SentOK
  <2>2. flow \in [Message -> Seq(Flow)]
        BY <1>0 DEF SentOK
  <2> QED BY <1>9, <2>1, <2>2, FlowMoves
<1>10. ASSUME NEW m \in Message, NEW k \in 1 .. MaxAttempts, ContainerReports(m, k)
       PROVE  ExecutionInv'
  <2>1. k \in DOMAIN flow[m] /\ flow[m][k] \in Busy
        BY <1>0, <1>10, RunningBusy DEF ContainerReports, SentOK
  <2>2. PICK f \in Busy : f = flow[m][k]
        BY <2>1
  <2>3. /\ Report(m, f.answered) /\ UNCHANGED workerVars
        /\ flow' = [flow EXCEPT ![m][k] = Further(f)]
        BY <1>10, <2>2 DEF ContainerReports, Further
  <2>4. f.answered \in 0 .. Done /\ Further(f) \in Flow
        BY FurtherFacts
  <2> QED BY <1>8, <1>9, <2>1, <2>3, <2>4
<1>11. ASSUME NEW m \in Message, NEW k \in 1 .. MaxAttempts, ContainerFails(m, k)
       PROVE  ExecutionInv'
  <2>1. k \in DOMAIN flow[m] /\ flow[m][k] \in Busy
        BY <1>0, <1>11, RunningBusy DEF ContainerFails, SentOK
  <2>2. PICK f \in Busy : f = flow[m][k]
        BY <2>1
  <2>3. PICK s \in {"failed", "unanswered"} : flow' = [flow EXCEPT ![m][k] = Ended(f, s)]
        BY <1>11, <2>2 DEF ContainerFails, Ended
  <2>4. UNCHANGED workerVars /\ UNCHANGED labVars
        BY <1>11 DEF ContainerFails
  <2>5. f.answered \in 0 .. Done /\ Ended(f, s) \in Flow
        BY EndedFacts
  <2> QED BY <1>8, <1>9, <2>1, <2>3, <2>4, <2>5
<1>12. ASSUME NEW m \in Message, NEW i \in 0 .. Done, LateReport(m, i)
       PROVE  ExecutionInv'
       BY <1>0, <1>8, <1>12 DEF LateReport, SentOK
<1> QED BY <1>2, <1>3, <1>4, <1>5, <1>6, <1>7, <1>10, <1>11, <1>12 DEF SandboxNext

\* No worker executes a run the laboratory does not have, or has not sent.
THEOREM ExecutedRunsAlwaysRegistered == SandboxSpec => []ExecutedRunsAreRegistered
<1>1. ExecutionInv => ExecutedRunsAreRegistered
  <2> SUFFICES ASSUME ExecutionInv, NEW m \in Message, flow[m] # << >>
               PROVE  /\ registry[m] # NoRow
                      /\ Lab!createMessage(registry[m]) \in published
      BY DEF ExecutedRunsAreRegistered
  <2>1. workflows[m] > 0 /\ BooksOf(m)
        BY DEF ExecutionInv, SentOK, Held, BooksOK
  <2>2. /\ Waiting(m) \in SUBSET (1 .. MaxAttempts)
        /\ Trying(m) \in SUBSET (1 .. MaxAttempts)
        BY DEF Waiting, Trying
  <2>3. /\ Cardinality(Waiting(m)) \in Nat /\ Cardinality(Trying(m)) \in Nat
        /\ attempts[m] \in Nat /\ workflows[m] \in Nat /\ dequeueCount[m] \in Nat
    <3>1. Cardinality(Waiting(m)) \in Nat /\ Cardinality(Trying(m)) \in Nat
          BY <2>2, NoMore
    <3> QED BY <3>1, Bounds, SMT DEF ExecutionInv, TypeOK
  <2>4. dequeueCount[m] > 0
        BY <2>1, <2>3 DEF BooksOf
  <2> QED BY <2>4 DEF ExecutionInv, SentOK
<1> QED BY <1>1, ExecutionInit, ExecutionNext, PTL DEF SandboxSpec
=============================================================================
