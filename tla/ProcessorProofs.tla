--------------------------- MODULE ProcessorProofs ---------------------------
(****************************************************************************)
(* Lemmas about QueueProcessor that hold over either queue: the items a     *)
(* call of processBatch() holds, what its loop does next with them, and the *)
(* sizes of sets of counts, with which the attempts are reckoned.           *)
(****************************************************************************)
EXTENDS QueueProcessor, FiniteSetTheorems, SequenceTheorems, TLAPS

Delivery(m, c) == [message |-> m, count |-> c]

\* Deliveries of m that the loop of a call has not reached yet, by their counts.
Waiting(m) ==
    {c \in 1 .. MaxAttempts :
        \E b \in Batch : \E i \in DOMAIN Todo(b) :
            i # 1 /\ Todo(b)[i] = Delivery(m, c)}

\* The lists of items a call may have left while it is in its loop.
Todos == UNION {[1 .. n -> Item] : n \in 1 .. BatchSize}

Looping == {"process", "complete", "drop"}

----------------------------------------------------------------------------
(* Bounds, and sequences of items.                                          *)

\* What the assumptions say of the bounds.
LEMMA Bounds ==
    /\ BatchSize \in Nat \ {0} /\ CountCap \in Nat \ {0}
    /\ MaxAttempts \in Nat \ {0} /\ MaxImmediates \in Nat \ {0}
    /\ CountCap > MaxAttempts
  BY QueuesAssumption, ProcessorAssumption

\* The sequences a continuation may hold.
LEMMA TodoSequences ==
    Todos = {s \in Seq(Item) : s # << >> /\ Len(s) <= BatchSize}
<1> DEFINE T == UNION {[1 .. n -> Item] : n \in 1 .. BatchSize}
           U == {s \in Seq(Item) : s # << >> /\ Len(s) <= BatchSize}
<1>1. ASSUME NEW s \in T PROVE s \in U
  <2>1. PICK n \in 1 .. BatchSize : s \in [1 .. n -> Item]
    OBVIOUS
  <2>2. n \in Nat /\ n > 0 /\ n <= BatchSize
    BY Bounds
  <2>3. s \in Seq(Item)
    BY <2>1, <2>2, SeqDef
  <2>4. Len(s) = n
    BY <2>1, <2>2, <2>3, LenProperties
  <2>5. s # << >>
    BY <2>2, <2>3, <2>4, EmptySeq
  <2> QED
    BY <2>2, <2>3, <2>4, <2>5
<1>2. ASSUME NEW s \in U PROVE s \in T
  <2>1. Len(s) \in 1 .. BatchSize
    BY EmptySeq, LenProperties, Bounds
  <2>2. s \in [1 .. Len(s) -> Item]
    BY LenProperties
  <2> QED
    BY <2>1, <2>2
<1>3. Todos = T
  BY DEF Todos
<1> QED
  BY <1>1, <1>2, <1>3

\* What is left without the current item.
LEMMA TailShape ==
    ASSUME NEW s \in Seq(Item), Len(s) >= 1
    PROVE  /\ Tail(s) \in Seq(Item)
           /\ Len(Tail(s)) = Len(s) - 1
           /\ DOMAIN Tail(s) = 1 .. (Len(s) - 1)
           /\ \A i \in 1 .. (Len(s) - 1) : Tail(s)[i] = s[i + 1]
<1>1. s # << >>
  BY EmptySeq
<1> QED
  BY <1>1, HeadTailProperties, LenProperties

\* Counts up to MaxAttempts are exact.
LEMMA BumpCounts ==
    ASSUME NEW n \in 0 .. CountCap
    PROVE  /\ Bump(n) \in 1 .. CountCap
           /\ Bump(n) >= n
           /\ Bump(n) <= MaxAttempts => Bump(n) = n + 1
  BY Bounds, SMT DEF Bump

\* The items of a call, as a sequence.
LEMMA TodoItems ==
    ASSUME NEW b \in Batch, batch[b].pc \in Looping => batch[b].todo \in Todos
    PROVE  /\ Todo(b) \in Seq(Item) /\ Len(Todo(b)) <= BatchSize
           /\ Len(Todo(b)) \in Nat
           /\ DOMAIN Todo(b) = 1 .. Len(Todo(b))
           /\ batch[b].pc \in Looping => /\ Todo(b) = batch[b].todo
                                         /\ Len(Todo(b)) >= 1
                                         /\ Todo(b)[1] \in Item
                                         /\ Current(b) = Todo(b)[1].message
           /\ batch[b].pc \notin Looping => Todo(b) = << >>
<1>1. CASE batch[b].pc \in Looping
  <2>1. Todo(b) = batch[b].todo
    BY <1>1 DEF Todo, Looping
  <2>2. /\ Todo(b) \in Seq(Item) /\ Todo(b) # << >> /\ Len(Todo(b)) <= BatchSize
    BY <1>1, <2>1, TodoSequences
  <2>3. Len(Todo(b)) >= 1 /\ Len(Todo(b)) \in Nat /\ DOMAIN Todo(b) = 1 .. Len(Todo(b))
    BY <2>2, EmptySeq, LenProperties
  <2>4. Todo(b)[1] \in Item
    BY <2>2, <2>3, ElementOfSeq
  <2>5. Current(b) = Todo(b)[1].message
    BY <2>1, <2>2 DEF Current
  <2> QED
    BY <1>1, <2>1, <2>2, <2>3, <2>4, <2>5
<1>2. CASE batch[b].pc \notin Looping
  <2>1. Todo(b) = << >>
    BY <1>2 DEF Todo, Looping
  <2> QED
    BY <1>2, <2>1, EmptySeq, LenProperties, Bounds
<1> QED
  BY <1>1, <1>2

\* What the loop of processBatch() does next with the items it has left, whatever
\* else the calls may be waiting for.
LEMMA LoopGoesOn ==
    ASSUME NEW Calls, batch \in [Batch -> Calls], Free \in Calls,
           \A pc \in Looping, s \in Todos : [pc |-> pc, todo |-> s] \in Calls,
           attempts \in [Message -> 0 .. MaxAttempts + 1],
           NEW b \in Batch, NEW todo \in Seq(Item), Len(todo) <= BatchSize,
           Loop(b, todo)
    PROVE  /\ batch' \in [Batch -> Calls]
           /\ attempts' \in [Message -> 0 .. MaxAttempts + 1]
           /\ Todo(b)' = todo
           /\ \A q \in Batch : q # b => batch'[q] = batch[q] /\ Todo(q)' = Todo(q)
           /\ batch'[b].pc \in {"free", "process", "drop"}
           /\ batch'[b].pc # "process" => attempts' = attempts
           /\ batch'[b].pc = "process" =>
                 /\ todo # << >> /\ Len(todo) >= 1
                 /\ todo[1] \in Item /\ todo[1].count <= MaxAttempts
                 /\ attempts' = [attempts EXCEPT ![todo[1].message] =
                                    IF @ <= MaxAttempts THEN @ + 1 ELSE @]
           /\ batch'[b].pc = "drop" => todo[1].count > MaxAttempts
<1>1. ASSUME NEW c \in Calls, batch' = [batch EXCEPT ![b] = c]
      PROVE  /\ batch' \in [Batch -> Calls]
             /\ batch'[b] = c
             /\ \A q \in Batch : q # b => batch'[q] = batch[q] /\ Todo(q)' = Todo(q)
  <2>1. /\ batch' \in [Batch -> Calls] /\ batch'[b] = c
        /\ \A q \in Batch : q # b => batch'[q] = batch[q]
    BY <1>1
  <2> QED
    BY <2>1 DEF Todo
<1>2. ASSUME todo # << >>
      PROVE  /\ Len(todo) >= 1 /\ todo[1] \in Item /\ Head(todo) = todo[1]
             /\ \A pc \in Looping : [pc |-> pc, todo |-> todo] \in Calls
  <2>1. Len(todo) >= 1
    BY <1>2, EmptySeq
  <2>2. todo[1] \in Item
    BY <2>1, ElementOfSeq, LenProperties
  <2>3. \A pc \in Looping : [pc |-> pc, todo |-> todo] \in Calls
    BY <1>2, TodoSequences
  <2> QED
    BY <2>1, <2>2, <2>3
<1>3. CASE todo = << >>
  <2>1. batch' = [batch EXCEPT ![b] = Free] /\ attempts' = attempts
    BY <1>3 DEF Loop
  <2>2. batch'[b] = Free
    BY <1>1, <2>1
  <2>3. Todo(b)' = todo
    BY <1>3, <2>2 DEF Todo, Free
  <2> QED
    BY <1>1, <2>1, <2>2, <2>3 DEF Free
<1>4. CASE todo # << >> /\ todo[1].count > MaxAttempts
  <2> DEFINE c == [pc |-> "drop", todo |-> todo]
  <2>1. todo[1] \in Item /\ c \in Calls
    BY <1>2, <1>4 DEF Looping
  <2>2. todo[1].count \in Nat
    BY <2>1, Bounds, SMT DEF Item
  <2>3. batch' = [batch EXCEPT ![b] = c] /\ attempts' = attempts
    BY <1>2, <1>4, <2>2, Bounds, SMT DEF Loop
  <2>4. batch'[b] = c
    BY <1>1, <2>1, <2>3
  <2>5. Todo(b)' = todo
    BY <2>4 DEF Todo
  <2> QED
    BY <1>1, <1>4, <2>1, <2>3, <2>4, <2>5
<1>5. CASE todo # << >> /\ ~(todo[1].count > MaxAttempts)
  <2> DEFINE c == [pc |-> "process", todo |-> todo]
  <2>1. todo[1] \in Item /\ c \in Calls /\ Len(todo) >= 1
    BY <1>2, <1>5 DEF Looping
  <2>2. todo[1].count \in Nat /\ todo[1].message \in Message
    BY <2>1, Bounds, SMT DEF Item
  <2>3. /\ batch' = [batch EXCEPT ![b] = c]
        /\ attempts' = [attempts EXCEPT ![todo[1].message] =
                                    IF @ <= MaxAttempts THEN @ + 1 ELSE @]
    BY <1>2, <1>5, <2>2, Bounds, SMT DEF Loop
  <2>4. batch'[b] = c
    BY <1>1, <2>1, <2>3
  <2>5. Todo(b)' = todo
    BY <2>4 DEF Todo
  <2>6. attempts' \in [Message -> 0 .. MaxAttempts + 1]
    <3>1. attempts[todo[1].message] \in 0 .. MaxAttempts + 1
      BY <2>2
    <3>2. (IF attempts[todo[1].message] <= MaxAttempts
           THEN attempts[todo[1].message] + 1
           ELSE attempts[todo[1].message]) \in 0 .. MaxAttempts + 1
      BY <3>1, Bounds
    <3> QED
      BY <2>3, <3>2
  <2>7. todo[1].count <= MaxAttempts
    BY <1>5, <2>2, Bounds
  <2> QED
    BY <1>1, <1>5, <2>1, <2>3, <2>4, <2>5, <2>6, <2>7
<1> QED
  BY <1>3, <1>4, <1>5

----------------------------------------------------------------------------
(* Sizes of sets of counts.                                                 *)

\* A subset is no larger,
LEMMA NoMore ==
    ASSUME NEW T \in SUBSET (1 .. MaxAttempts), NEW S \in SUBSET T
    PROVE  /\ Cardinality(S) \in Nat /\ Cardinality(T) \in Nat
           /\ Cardinality(S) <= Cardinality(T)
<1>1. IsFiniteSet(1 .. MaxAttempts)
  BY Bounds, FS_Interval
<1>2. IsFiniteSet(T) /\ IsFiniteSet(S)
  BY <1>1, FS_Subset
<1> QED
  BY <1>2, FS_Subset, FS_CardinalityType

\* an element makes a set larger by one at most,
LEMMA OneMore ==
    ASSUME NEW T \in SUBSET (1 .. MaxAttempts), NEW c \in 1 .. MaxAttempts,
           NEW S \in SUBSET (T \cup {c})
    PROVE  /\ Cardinality(S) \in Nat /\ Cardinality(T) \in Nat
           /\ Cardinality(S) <= Cardinality(T) + 1
<1>1. IsFiniteSet(1 .. MaxAttempts)
  BY Bounds, FS_Interval
<1>2. IsFiniteSet(T)
  BY <1>1, FS_Subset
<1>3. Cardinality(T \cup {c}) <= Cardinality(T) + 1
  <2>1. Cardinality(T) \in Nat
    BY <1>2, FS_CardinalityType
  <2>2. Cardinality(T \cup {c}) =
            IF c \in T THEN Cardinality(T) ELSE Cardinality(T) + 1
    BY <1>2, FS_AddElement
  <2> QED
    BY <2>1, <2>2
<1>4. /\ Cardinality(S) \in Nat /\ Cardinality(T \cup {c}) \in Nat
      /\ Cardinality(S) <= Cardinality(T \cup {c})
  BY NoMore
<1>5. Cardinality(T) \in Nat
  BY NoMore
<1> QED
  BY <1>3, <1>4, <1>5

\* and its removal makes it smaller by one.
LEMMA OneLess ==
    ASSUME NEW T \in SUBSET (1 .. MaxAttempts), NEW c \in T, NEW S \in SUBSET (T \ {c})
    PROVE  /\ Cardinality(S) \in Nat /\ Cardinality(T) \in Nat
           /\ Cardinality(S) + 1 <= Cardinality(T)
<1>1. IsFiniteSet(1 .. MaxAttempts)
  BY Bounds, FS_Interval
<1>2. IsFiniteSet(T)
  BY <1>1, FS_Subset
<1>3. Cardinality(T \ {c}) = Cardinality(T) - 1 /\ Cardinality(T) \in Nat
  BY <1>2, FS_RemoveElement, FS_CardinalityType
<1>4. T \ {c} \in SUBSET (1 .. MaxAttempts)
  OBVIOUS
<1>5. /\ Cardinality(S) \in Nat /\ Cardinality(T \ {c}) \in Nat
      /\ Cardinality(S) <= Cardinality(T \ {c})
  BY <1>4, NoMore
<1> QED
  BY <1>3, <1>5
=============================================================================
