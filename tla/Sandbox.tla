------------------------------- MODULE Sandbox -------------------------------
(****************************************************************************)
(* The whole life of a run: the laboratory registers it and sends it to the *)
(* queue, the worker creates workflows for it, and the containers of each   *)
(* workflow report to the laboratory, which has no other source for the     *)
(* status and the results of a run.                                         *)
(*                                                                          *)
(* The laboratory is the registry of runs that module Laboratory is shown   *)
(* to implement, the queue and the worker are those of ArgoWorker.  A       *)
(* workflow runs its containers once (it has no retryStrategy).  They are   *)
(* the benchmark author's; of them the model assumes what the repository's  *)
(* example clients do: PATCH "running", PATCH "completed", POST the results.*)
(****************************************************************************)
EXTENDS ArgoWorker

CONSTANTS Name, Rev, Overlay, Status, Measures, NoRow    \* as in RunData

VARIABLES
    registry, reported, used, published,   \* the laboratory: see RunRegistry
    flow,      \* flow[m][k]: how far the kth workflow of run m has come
    late,      \* reports whose callers have given them up, still to be carried out
    expired    \* messages the queue has dropped at the end of their time to live

Lab == INSTANCE RunRegistry WITH RunName <- Message, Volatile <- FALSE

ASSUME SandboxAssumption ==
    /\ {"created", "running", "completed"} \subseteq Status
    /\ NoRow \notin Lab!RunRow \cup Lab!ResultRow

labVars == <<registry, reported, used, published>>
workerVars == <<stored, dequeueCount, receipt,
                interval, immediates, batch, attempts, workflows>>
sandboxVars == <<workerVars, labVars, flow, late, expired>>

\* The reports of a workflow, in their order; it has failed by itself, or for want
\* of an answer to the next of them.
Done == 3
Flow == [answered : 0 .. Done, state : {"running", "failed", "unanswered"}]

SandboxInit ==
    /\ Init
    /\ Lab!Init
    /\ flow = [m \in Message |-> << >>]
    /\ late = {}
    /\ expired = {}

----------------------------------------------------------------------------
(* The laboratory.                                                          *)

\* POST /runs: the row is created ...
RegisterRun(m) ==
    /\ \E run \in Lab!RunRow : registry' = [registry EXCEPT ![m] = run]
    /\ Lab!Register(m)
    /\ UNCHANGED <<workerVars, flow, late, expired>>

ReserveName(m) ==
    /\ Lab!Reserve(m)
    /\ UNCHANGED <<workerVars, flow, late, expired>>

\* Mutant: the message is sent before the row is created.
SendRunFirst(m) ==
    /\ m \in used
    /\ Enqueue(m)
    /\ UNCHANGED <<labVars, flow, late, expired>>

\* ... and then the message is sent.
SendRun(m) ==
    /\ Lab!Publish(m)
    /\ Enqueue(m)
    /\ UNCHANGED <<flow, late, expired>>

----------------------------------------------------------------------------
(* The queue and the worker.                                                *)

NewFlow == [answered |-> 0, state |-> "running"]

\* Beside a step of the worker: every workflow it has created is about to run
\* its containers.
Launch ==
    /\ UNCHANGED <<labVars, late, expired>>
    /\ flow' = [m \in Message |-> IF workflows'[m] > workflows[m]
                                  THEN Append(flow[m], NewFlow) ELSE flow[m]]

WorkerStep ==
    /\ \/ \E b \in Batch :
             \/ BeginBatch(b)
             \/ Dequeue(b) \/ DequeueFails(b)
             \/ ProcessRun(b) \/ ProcessRunFails(b)
             \/ Complete(b) \/ CompleteFails(b)
       \/ \E m \in Message : Timeout(m)
       \/ WorkerStart \/ WorkerStop \/ Crash
    /\ Launch

\* The queue keeps a message for a limited time, received or not.
Expire(m) ==
    /\ stored[m] \in {"visible", "hidden"}
    /\ stored' = [stored EXCEPT ![m] = "deleted"]
    /\ expired' = expired \cup {m}
    /\ UNCHANGED <<dequeueCount, receipt, processorVars, workflows,
                   labVars, flow, late>>

----------------------------------------------------------------------------
(* The containers.                                                          *)

\* Mutant: storing the results of a run touches its status.
ReportTouchesStatus(m, i) ==
    \/ i = 0 /\ Lab!SetStatus(m, "running")
    \/ i = 1 /\ Lab!SetStatus(m, "completed")
    \/ /\ i = 2
       /\ registry[m] # NoRow
       /\ registry' = [registry EXCEPT ![m].status = "running"]
       /\ \E measures \in Measures :
             reported' = [reported EXCEPT ![m] = Lab!ResultOf(registry[m], measures)]
       /\ UNCHANGED <<used, published>>

\* Mutant: the laboratory lets a run only leave the status it was created with.
ReportFromCreatedOnly(m, i) ==
    \/ /\ i \in {0, 1}
       /\ \/ /\ registry[m].status = "created"
             /\ Lab!SetStatus(m, IF i = 0 THEN "running" ELSE "completed")
          \/ registry[m].status # "created" /\ UNCHANGED labVars
    \/ i = 2 /\ \E measures \in Measures : Lab!Report(m, measures)

\* What the laboratory does on the report that follows i others.
Report(m, i) ==
    \/ i = 0 /\ Lab!SetStatus(m, "running")
    \/ i = 1 /\ Lab!SetStatus(m, "completed")
    \/ i = 2 /\ \E measures \in Measures : Lab!Report(m, measures)

Running(m, k) ==
    k \in DOMAIN flow[m] /\ flow[m][k].state = "running" /\ flow[m][k].answered < Done

ContainerReports(m, k) ==
    /\ Running(m, k)
    /\ Report(m, flow[m][k].answered)
    /\ flow' = [flow EXCEPT ![m][k].answered = @ + 1]
    /\ UNCHANGED <<workerVars, late, expired>>

\* A container fails, or gets no answer to its report, which the laboratory may
\* carry out all the same, at any later time.  The workflow ends.
ContainerFails(m, k) ==
    /\ Running(m, k)
    /\ \/ /\ flow' = [flow EXCEPT ![m][k].state = "failed"]
          /\ UNCHANGED late
       \/ /\ flow' = [flow EXCEPT ![m][k].state = "unanswered"]
          /\ late' = late \cup {<<m, flow[m][k].answered>>}
    /\ UNCHANGED <<workerVars, labVars, expired>>

LateReport(m, i) ==
    /\ <<m, i>> \in late
    /\ Report(m, i)
    /\ late' = late \ {<<m, i>>}
    /\ UNCHANGED <<workerVars, flow, expired>>

----------------------------------------------------------------------------

SandboxNext ==
    \/ \E m \in Message : ReserveName(m) \/ RegisterRun(m) \/ SendRun(m) \/ Expire(m)
    \/ WorkerStep
    \/ \E m \in Message, k \in 1 .. MaxAttempts :
          ContainerReports(m, k) \/ ContainerFails(m, k)
    \/ \E m \in Message, i \in 0 .. Done : LateReport(m, i)

SandboxSpec == SandboxInit /\ [][SandboxNext]_sandboxVars

\* The event loop runs timers and continuations, every remote call settles, and the
\* service makes a message that is not deleted visible again; the cluster runs the
\* containers of a workflow, and each of them ends, well or not.
SandboxFairness ==
    /\ \A b \in Batch :
          /\ WF_sandboxVars(BeginBatch(b) /\ Launch)
          /\ WF_sandboxVars((Dequeue(b) \/ DequeueFails(b)) /\ Launch)
          /\ WF_sandboxVars((ProcessRun(b) \/ ProcessRunFails(b)) /\ Launch)
          /\ WF_sandboxVars((Complete(b) \/ CompleteFails(b)) /\ Launch)
    /\ \A m \in Message :
          /\ WF_sandboxVars(Timeout(m) /\ Launch)
          /\ \A k \in 1 .. MaxAttempts :
                WF_sandboxVars(ContainerReports(m, k) \/ ContainerFails(m, k))

SandboxFairSpec == SandboxSpec /\ SandboxFairness

----------------------------------------------------------------------------
(* Properties.                                                              *)

\* The kth workflow of a run is somewhere in S.
SomeFlow(m, S) == \E k \in DOMAIN flow[m] : flow[m][k] \in S

\* Reports a workflow has sent, the one without an answer included.
Sent(f) == f.answered + IF f.state = "unanswered" THEN 1 ELSE 0

\* Workflows none of whose reports was answered; that have sent "running" and had
\* no answer to "completed"; that have sent "completed"; that have sent the results.
Silent       == {f \in Flow : f.answered = 0}
SentRunning  == {f \in Flow : Sent(f) >= 1 /\ f.answered <= 1}
SentComplete == {f \in Flow : Sent(f) >= 2}
SentResults  == {f \in Flow : Sent(f) = Done}

\* The status and the result of a run speak of what its workflows have done,
\* although several workflows of one run report without any order, a report that
\* got no answer is carried out at any later time or never, and the laboratory
\* lets any status follow any other: "created" is gone with the first answer,
\* "running" has been sent by a workflow that is not known to have gone on,
\* "completed" and a result by one that has come that far (run.ts:105-150).
StatusTellsExecution ==
    \A m \in Message :
        registry[m] # NoRow =>
            /\ registry[m].status = "created" =>
                  \A k \in DOMAIN flow[m] : flow[m][k] \in Silent
            /\ registry[m].status = "running" => SomeFlow(m, SentRunning)
            /\ registry[m].status = "completed" => SomeFlow(m, SentComplete)
            /\ reported[m] # NoRow => SomeFlow(m, SentResults)

\* Hence, when "completed" of every workflow of a run was answered, the run ends as
\* completed, whatever became of their results: a workflow that is behind, or a
\* late report, cannot move the run back for good.  Once results were answered they
\* are there.
SuccessfulRunsComplete ==
    \A m \in Message :
        /\ (flow[m] # << >> /\ \A k \in DOMAIN flow[m] : flow[m][k].answered >= 2)
              => registry[m] # NoRow /\ registry[m].status = "completed"
        /\ (\E k \in DOMAIN flow[m] : flow[m][k].answered = Done)
              => registry[m] # NoRow /\ reported[m] # NoRow

\* What the worker executes is a run the laboratory has, and has sent with the
\* contents it has: no container reports on a run that is not there.
ExecutedRunsAreRegistered ==
    \A m \in Message :
        flow[m] # << >> =>
            /\ registry[m] # NoRow
            /\ Lab!createMessage(registry[m]) \in published

\* When the faults of the worker, the queue and its service cease, a run that
\* was sent some day leaves the queue, and all its workflows end.
EveryRunEnds ==
    (<>[][~Fault]_workerVars /\ <>[]interval) =>
        \A m \in Message :
            stored[m] = "visible" ~>
                /\ stored[m] = "deleted"
                /\ \A k \in DOMAIN flow[m] : ~Running(m, k)
----------------------------------------------------------------------------
(* The inductive invariant of StatusTellsExecution and, with it, of         *)
(* SuccessfulRunsComplete.                                                  *)

\* The part of the types that they rest on; no run has another status than
\* those that are reported.
ReportsTyped ==
    /\ registry \in [Message -> Lab!RunRow \cup {NoRow}]
    /\ reported \in [Message -> Lab!ResultRow \cup {NoRow}]
    /\ flow \in [Message -> Seq(Flow)]
    /\ late \subseteq Message \X (0 .. Done)
    /\ \A m \in Message : registry[m] # NoRow =>
          registry[m].status \in {"created", "running", "completed"}

\* Workflows had no answer about a run that is not registered; a report is late
\* because its workflow goes without the answer; answered results are there.
ReportsGrounded ==
    \A m \in Message :
        /\ registry[m] = NoRow =>
              /\ reported[m] = NoRow
              /\ \A k \in DOMAIN flow[m] : flow[m][k] \in Silent
        /\ \A i \in 0 .. Done :
              <<m, i>> \in late =>
                  SomeFlow(m, {f \in Flow : f.answered = i /\ f.state = "unanswered"})
        /\ SomeFlow(m, {f \in Flow : f.answered = Done}) => reported[m] # NoRow

ReportsInv == ReportsTyped /\ ReportsGrounded /\ StatusTellsExecution
=============================================================================
