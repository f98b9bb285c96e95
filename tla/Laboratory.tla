----------------------------- MODULE Laboratory ------------------------------
(****************************************************************************)
(* The laboratory service: the route handlers of                            *)
(* packages/laboratory/src/routes that write, and the SequelizeLaboratory   *)
(* methods they call.                                                       *)
(*                                                                          *)
(* A handler is a JavaScript async function.  It runs without interruption  *)
(* up to an await, so a step of this specification is the code between two  *)
(* awaits: the effect of the database (or queue) operation awaited, and the *)
(* code that follows up to the next one.  Between its steps a handler is    *)
(* described by its continuation, pending[h]: where it waits (pc) and the   *)
(* locals it will still use, with the values they had when it read them.    *)
(* Handlers interleave at every await, whether they run in one process or   *)
(* in several that share one database.  No operation uses a transaction.    *)
(****************************************************************************)
EXTENDS RunData

CONSTANTS
    Handler,         \* slots for requests in progress (bounds concurrency)
    RawName,         \* names as clients write them
    Normal,          \* normalizeName(): what it returns for each raw name
    RawRunName,      \* run names as clients write them
    NormalRun,       \* normalizeRunName(): what it returns for each
    Invalid,         \* stands for "throws IllegalOperationError"
    BenchmarkBody, CandidateBody, SuiteBody, RunRequestBody,
                     \* the request bodies clients send
    DatabaseMode     \* "azuresql" or "inmemory"

ASSUME LaboratoryAssumption ==
    /\ Invalid \notin Name \cup RunName
    /\ Normal \in [RawName -> Name \cup {Invalid}]
    /\ NormalRun \in [RawRunName -> RunName \cup {Invalid}]
    /\ BenchmarkBody \subseteq [name : RawName, rev : Rev]
    /\ CandidateBody \subseteq [name : RawName, benchmark : RawName, rev : Rev]
    /\ SuiteBody \subseteq [name : RawName, benchmark : RawName, rev : Rev]
    /\ RunRequestBody \subseteq [candidate : RawName, suite : RawName]
    /\ DatabaseMode \in {"azuresql", "inmemory"}

VARIABLES
    benchmarks,   \* the five tables: a row or NoRow for each primary key
    candidates,
    suites,
    runs,
    results,
    sent,         \* the run messages the queue has accepted
    issued,       \* names v1() has returned
    stranded,     \* runs whose request ended without a confirmed enqueue
    pending       \* the continuation of each handler

tables == <<benchmarks, candidates, suites, runs, results>>
vars == <<benchmarks, candidates, suites, runs, results,
          sent, issued, stranded, pending>>

----------------------------------------------------------------------------
(* Continuations.                                                           *)

Idle == [pc |-> "idle"]
Reply(code) == [pc |-> "replied", code |-> code]

Codes == {200, 204, 400, 404, 500}

\* A handler that has not answered yet.
Active(h) == pending[h].pc \notin {"idle", "replied"}

Continue(h, continuation) ==
    pending' = [pending EXCEPT ![h] = continuation]

\* A write is confirmed, and the handler goes on; or the database applies it
\* but the answer is lost, and the handler ends with an error.
Confirmed(h, continuation) ==
    Continue(h, continuation) \/ Continue(h, Reply(500))

Init ==
    /\ benchmarks = [n \in Name |-> NoRow]
    /\ candidates = [n \in Name |-> NoRow]
    /\ suites = [n \in Name |-> NoRow]
    /\ runs = [n \in RunName |-> NoRow]
    /\ results = [n \in RunName |-> NoRow]
    /\ sent = {}
    /\ issued = {}
    /\ stranded = {}
    /\ pending = [h \in Handler |-> Idle]

----------------------------------------------------------------------------
(* PUT /benchmarks/:name, PUT /candidates/:name, PUT /suites/:name.         *)
(* The handlers pass the body and never the name in the route.              *)

\* Mutant: the name is validated but stored as the client wrote it.
normalizeBenchmarkMutant(b) ==
    [b EXCEPT !.name = IF Normal[@] = Invalid THEN Invalid ELSE @]

normalizeBenchmark(b) == [b EXCEPT !.name = Normal[@]]
normalizeCandidate(c) ==
    [name |-> Normal[c.name], benchmark |-> Normal[c.benchmark], rev |-> c.rev]
normalizeSuite(s) ==
    [name |-> Normal[s.name], benchmark |-> Normal[s.benchmark], rev |-> s.rev]

PutBenchmark(h, body) ==
    LET benchmark == normalizeBenchmark(body) IN
    /\ pending[h] = Idle
    /\ Continue(h, IF benchmark.name = Invalid
                   THEN Reply(400)
                   ELSE [pc |-> "upsertBenchmark", raw |-> body.name, row |-> benchmark])
    /\ UNCHANGED <<tables, sent, issued, stranded>>

PutCandidate(h, body) ==
    LET candidate == normalizeCandidate(body) IN
    /\ pending[h] = Idle
    /\ Continue(h, IF Invalid \in {candidate.name, candidate.benchmark}
                   THEN Reply(400)
                   ELSE [pc |-> "findCandidateBenchmark",
                         raw |-> body.name, row |-> candidate])
    /\ UNCHANGED <<tables, sent, issued, stranded>>

PutSuite(h, body) ==
    LET suite == normalizeSuite(body) IN
    /\ pending[h] = Idle
    /\ Continue(h, IF Invalid \in {suite.name, suite.benchmark}
                   THEN Reply(400)
                   ELSE [pc |-> "findSuiteBenchmark", raw |-> body.name, row |-> suite])
    /\ UNCHANGED <<tables, sent, issued, stranded>>

\* processBenchmark(): Benchmark.upsert().  The handler then reads the row
\* back by the name in the body, as the client wrote it.
UpsertBenchmark(h) ==
    LET row == pending[h].row IN
    /\ pending[h].pc = "upsertBenchmark"
    /\ benchmarks' = [benchmarks EXCEPT ![row.name] = Upserted(@, row)]
    /\ Confirmed(h, [pc |-> "readBack", kind |-> "benchmark", raw |-> pending[h].raw])
    /\ UNCHANGED <<candidates, suites, runs, results, sent, issued, stranded>>

\* Mutant: the benchmark is looked up and not looked at.
FindCandidateBenchmarkMutant(h) ==
    /\ pending[h].pc = "findCandidateBenchmark"
    /\ Continue(h, [pc |-> "upsertCandidate", raw |-> pending[h].raw, row |-> pending[h].row])
    /\ UNCHANGED <<tables, sent, issued, stranded>>

\* processCandidate(): the benchmark is looked up in one operation ...
FindCandidateBenchmark(h) ==
    LET row == pending[h].row IN
    /\ pending[h].pc = "findCandidateBenchmark"
    /\ Continue(h, IF benchmarks[row.benchmark] = NoRow
                   THEN Reply(400)
                   ELSE [pc |-> "upsertCandidate", raw |-> pending[h].raw, row |-> row])
    /\ UNCHANGED <<tables, sent, issued, stranded>>

\* ... and the candidate that refers to it is written in another.
UpsertCandidate(h) ==
    LET row == pending[h].row IN
    /\ pending[h].pc = "upsertCandidate"
    /\ candidates' = [candidates EXCEPT ![row.name] = Upserted(@, row)]
    /\ Confirmed(h, [pc |-> "readBack", kind |-> "candidate", raw |-> pending[h].raw])
    /\ UNCHANGED <<benchmarks, suites, runs, results, sent, issued, stranded>>

\* processSuite(), likewise.
FindSuiteBenchmark(h) ==
    LET row == pending[h].row IN
    /\ pending[h].pc = "findSuiteBenchmark"
    /\ Continue(h, IF benchmarks[row.benchmark] = NoRow
                   THEN Reply(400)
                   ELSE [pc |-> "upsertSuite", raw |-> pending[h].raw, row |-> row])
    /\ UNCHANGED <<tables, sent, issued, stranded>>

UpsertSuite(h) ==
    LET row == pending[h].row IN
    /\ pending[h].pc = "upsertSuite"
    /\ suites' = [suites EXCEPT ![row.name] = Upserted(@, row)]
    /\ Confirmed(h, [pc |-> "readBack", kind |-> "suite", raw |-> pending[h].raw])
    /\ UNCHANGED <<benchmarks, candidates, runs, results, sent, issued, stranded>>

Stored(kind, name) ==
    CASE kind = "benchmark" -> benchmarks[name]
      [] kind = "candidate" -> candidates[name]
      [] kind = "suite"     -> suites[name]

\* Mutant: the name is looked up as it comes.
ReadBackMutant(h) ==
    /\ pending[h].pc = "readBack"
    /\ Continue(h, IF pending[h].raw \notin Name THEN Reply(404)
                   ELSE IF Stored(pending[h].kind, pending[h].raw) = NoRow THEN Reply(404)
                   ELSE Reply(200))
    /\ UNCHANGED <<tables, sent, issued, stranded>>

\* oneBenchmark(), oneCandidate(), oneSuite(), which normalize the name again: the
\* answer to the PUT.
ReadBack(h) ==
    LET name == Normal[pending[h].raw] IN
    /\ pending[h].pc = "readBack"
    /\ Continue(h, IF name = Invalid THEN Reply(400)
                   ELSE IF Stored(pending[h].kind, name) = NoRow THEN Reply(404)
                   ELSE Reply(200))
    /\ UNCHANGED <<tables, sent, issued, stranded>>

----------------------------------------------------------------------------
(* POST /runs: processRunRequest() reads three rows in three operations,    *)
(* then writes the run, then sends the message.                             *)

PostRun(h, body) ==
    LET candidate == Normal[body.candidate]
        suite == Normal[body.suite]
    IN  /\ pending[h] = Idle
        /\ Continue(h, IF Invalid \in {candidate, suite}
                       THEN Reply(400)
                       ELSE [pc |-> "findCandidate",
                             candidateName |-> candidate, suiteName |-> suite])
        /\ UNCHANGED <<tables, sent, issued, stranded>>

FindCandidate(h) ==
    LET candidate == candidates[pending[h].candidateName] IN
    /\ pending[h].pc = "findCandidate"
    /\ Continue(h, IF candidate = NoRow
                   THEN Reply(400)
                   ELSE [pc |-> "findSuite",
                         candidate |-> candidate,
                         suiteName |-> pending[h].suiteName])
    /\ UNCHANGED <<tables, sent, issued, stranded>>

\* Mutant: candidate and suite are not compared.
FindSuiteMutant(h) ==
    LET suite == suites[pending[h].suiteName] IN
    /\ pending[h].pc = "findSuite"
    /\ Continue(h, IF suite = NoRow
                   THEN Reply(400)
                   ELSE [pc |-> "findBenchmark",
                         candidate |-> pending[h].candidate, suite |-> suite])
    /\ UNCHANGED <<tables, sent, issued, stranded>>

FindSuite(h) ==
    LET candidate == pending[h].candidate
        suite == suites[pending[h].suiteName]
    IN  /\ pending[h].pc = "findSuite"
        /\ Continue(h, IF suite = NoRow
                       THEN Reply(400)
                       ELSE IF candidate.benchmark # suite.benchmark
                       THEN Reply(400)
                       ELSE [pc |-> "findBenchmark",
                             candidate |-> candidate, suite |-> suite])
        /\ UNCHANGED <<tables, sent, issued, stranded>>

\* A run under the name given it, to be stored, or sent, next.
NamedRun(h, name, pc) ==
    LET candidate == pending[h].candidate IN
    [pc |-> pc,
     run |-> [name |-> name, status |-> "created",
              benchmark |-> benchmarks[candidate.benchmark],
              candidate |-> candidate, suite |-> pending[h].suite]]

\* Mutant: the message is sent first.
FindBenchmarkSendsFirst(h) ==
    /\ pending[h].pc = "findBenchmark"
    /\ benchmarks[pending[h].candidate.benchmark] # NoRow
    /\ \E name \in RunName \ issued :
          /\ issued' = issued \cup {name}
          /\ Continue(h, NamedRun(h, name, "enqueue"))
    /\ UNCHANGED <<tables, sent, stranded>>

\* Mutant: the name may be one that is in use.
FindBenchmarkReusesName(h) ==
    /\ pending[h].pc = "findBenchmark"
    /\ benchmarks[pending[h].candidate.benchmark] # NoRow
    /\ \E name \in RunName :
          /\ issued' = issued \cup {name}
          /\ Continue(h, NamedRun(h, name, "createRun"))
    /\ UNCHANGED <<tables, sent, stranded>>

\* The last check; when it passes the run gets its name, a fresh uuid.
FindBenchmark(h) ==
    LET benchmark == benchmarks[pending[h].candidate.benchmark] IN
    /\ pending[h].pc = "findBenchmark"
    /\ \/ /\ benchmark = NoRow
          /\ Continue(h, Reply(400))
          /\ UNCHANGED issued
       \/ /\ benchmark # NoRow
          /\ \E name \in RunName \ issued :
                /\ issued' = issued \cup {name}
                /\ Continue(h, NamedRun(h, name, "createRun"))
    /\ UNCHANGED <<tables, sent, stranded>>

\* Mutant: the client is answered before the message is sent.
CreateRunMutant(h) ==
    LET run == pending[h].run IN
    /\ pending[h].pc = "createRun"
    /\ runs' = [runs EXCEPT ![run.name] = run]
    /\ Continue(h, [pc |-> "replied", code |-> 202, run |-> run.name])
    /\ UNCHANGED <<benchmarks, candidates, suites, results, sent, issued, stranded>>

\* Run.create().  When its confirmation is lost the message is never sent.
CreateRun(h) ==
    LET run == pending[h].run IN
    /\ pending[h].pc = "createRun"
    /\ runs' = [runs EXCEPT ![run.name] = run]
    /\ \/ /\ Continue(h, [pc |-> "enqueue", run |-> run])
          /\ UNCHANGED stranded
       \/ /\ Continue(h, Reply(500))
          /\ stranded' = stranded \cup {run.name}
    /\ UNCHANGED <<benchmarks, candidates, suites, results, sent, issued>>

\* queue.enqueue(createMessage(...)); the answer is the run that was created.
Enqueue(h) ==
    LET run == pending[h].run IN
    /\ pending[h].pc = "enqueue"
    /\ sent' = sent \cup {createMessage(run)}
    /\ \/ /\ Continue(h, [pc |-> "replied", code |-> 202, run |-> run.name])
          /\ UNCHANGED stranded
       \/ /\ Continue(h, Reply(500))
          /\ stranded' = stranded \cup {run.name}
    /\ UNCHANGED <<tables, issued>>

----------------------------------------------------------------------------
(* PATCH /runs/:name: any status may follow any status.                     *)

PatchRun(h, raw, status) ==
    LET name == NormalRun[raw] IN
    /\ pending[h] = Idle
    /\ Continue(h, IF name = Invalid
                   THEN Reply(400)
                   ELSE [pc |-> "findRunForStatus", name |-> name, status |-> status])
    /\ UNCHANGED <<tables, sent, issued, stranded>>

FindRunForStatus(h) ==
    /\ pending[h].pc = "findRunForStatus"
    /\ Continue(h, IF runs[pending[h].name] = NoRow
                   THEN Reply(404)
                   ELSE [pc |-> "updateStatus", name |-> pending[h].name,
                         status |-> pending[h].status])
    /\ UNCHANGED <<tables, sent, issued, stranded>>

\* Run.update({ status }, { where: { name } }): no row, no effect, no error.
UpdateStatus(h) ==
    LET name == pending[h].name IN
    /\ pending[h].pc = "updateStatus"
    /\ runs' = IF runs[name] = NoRow
               THEN runs
               ELSE [runs EXCEPT ![name].status = pending[h].status]
    /\ Confirmed(h, Reply(204))
    /\ UNCHANGED <<benchmarks, candidates, suites, results, sent, issued, stranded>>

----------------------------------------------------------------------------
(* POST /runs/:name/results.                                                *)

PostResults(h, raw, measures) ==
    LET name == NormalRun[raw] IN
    /\ pending[h] = Idle
    /\ Continue(h, IF name = Invalid
                   THEN Reply(400)
                   ELSE [pc |-> "findRunForResults", name |-> name,
                         measures |-> measures])
    /\ UNCHANGED <<tables, sent, issued, stranded>>

\* Mutant: the result is filed under the benchmark the candidate is for now.
FindRunForResultsMutant(h) ==
    LET run == runs[pending[h].name] IN
    /\ pending[h].pc = "findRunForResults"
    /\ Continue(h, IF run = NoRow
                   THEN Reply(404)
                   ELSE [pc |-> "upsertResult",
                         row |-> [ResultOf(run, pending[h].measures) EXCEPT
                                    !.benchmark = candidates[run.candidate.name].benchmark]])
    /\ UNCHANGED <<tables, sent, issued, stranded>>

FindRunForResults(h) ==
    LET run == runs[pending[h].name] IN
    /\ pending[h].pc = "findRunForResults"
    /\ Continue(h, IF run = NoRow
                   THEN Reply(404)
                   ELSE [pc |-> "upsertResult",
                         row |-> ResultOf(run, pending[h].measures)])
    /\ UNCHANGED <<tables, sent, issued, stranded>>

\* Mutant: reporting a result moves the run on as well.
UpsertResultMutant(h) ==
    LET row == pending[h].row IN
    /\ pending[h].pc = "upsertResult"
    /\ results' = [results EXCEPT ![row.name] = row]
    /\ \E status \in Status : runs' = [runs EXCEPT ![row.name].status = status]
    /\ Confirmed(h, Reply(204))
    /\ UNCHANGED <<benchmarks, candidates, suites, sent, issued, stranded>>

UpsertResult(h) ==
    LET row == pending[h].row IN
    /\ pending[h].pc = "upsertResult"
    /\ results' = [results EXCEPT ![row.name] = row]
    /\ Confirmed(h, Reply(204))
    /\ UNCHANGED <<benchmarks, candidates, suites, runs, sent, issued, stranded>>

----------------------------------------------------------------------------
(* The environment.                                                         *)

\* Runs whose handler, in H, stops before their message is confirmed sent.
Cut(H) ==
    {pending[h].run.name : h \in {g \in H : pending[g].pc = "enqueue"}}

\* Mutant: nobody catches what an async handler throws; its request hangs.
FailMutant(h) ==
    /\ Active(h)
    /\ Continue(h, [pc |-> "hangs"])
    /\ UNCHANGED <<tables, sent, issued, stranded>>

\* The operation awaited is not applied and throws: the error reaches
\* setErrorStatus() and the client is answered 500.
Fail(h) ==
    /\ Active(h)
    /\ Continue(h, Reply(500))
    /\ stranded' = stranded \cup Cut({h})
    /\ UNCHANGED <<tables, sent, issued>>

\* The client has its answer, and the slot can serve another request.
Retire(h) ==
    /\ pending[h].pc = "replied"
    /\ Continue(h, Idle)
    /\ UNCHANGED <<tables, sent, issued, stranded>>

\* The process stops and is started again: every handler is gone, and with
\* an in-memory database so is every row (initializeSequelize() creates the
\* tables empty).  The queue is Azure's and keeps its messages.
Crash ==
    /\ pending' = [h \in Handler |-> Idle]
    /\ stranded' = stranded \cup Cut(Handler)
    /\ IF DatabaseMode = "inmemory"
       THEN /\ benchmarks' = [n \in Name |-> NoRow]
            /\ candidates' = [n \in Name |-> NoRow]
            /\ suites' = [n \in Name |-> NoRow]
            /\ runs' = [n \in RunName |-> NoRow]
            /\ results' = [n \in RunName |-> NoRow]
       ELSE UNCHANGED tables
    /\ UNCHANGED <<sent, issued>>

----------------------------------------------------------------------------

Request(h) ==
    \/ \E body \in BenchmarkBody : PutBenchmark(h, body)
    \/ \E body \in CandidateBody : PutCandidate(h, body)
    \/ \E body \in SuiteBody : PutSuite(h, body)
    \/ \E body \in RunRequestBody : PostRun(h, body)
    \/ \E raw \in RawRunName, status \in Status : PatchRun(h, raw, status)
    \/ \E raw \in RawRunName, measures \in Measures : PostResults(h, raw, measures)

\* What an active handler does when its await returns.
Resume(h) ==
    \/ UpsertBenchmark(h)
    \/ FindCandidateBenchmark(h) \/ UpsertCandidate(h)
    \/ FindSuiteBenchmark(h) \/ UpsertSuite(h)
    \/ ReadBack(h)
    \/ FindCandidate(h) \/ FindSuite(h) \/ FindBenchmark(h)
    \/ CreateRun(h) \/ Enqueue(h)
    \/ FindRunForStatus(h) \/ UpdateStatus(h)
    \/ FindRunForResults(h) \/ UpsertResult(h)

Next ==
    \/ \E h \in Handler : Request(h) \/ Resume(h) \/ Fail(h) \/ Retire(h)
    \/ Crash

Spec == Init /\ [][Next]_vars

\* Node runs every continuation whose await has returned, and the database
\* client and the queue client settle every call, with a value or an error.
Fairness == \A h \in Handler : WF_vars(Resume(h) \/ Fail(h))

FairSpec == Spec /\ Fairness

----------------------------------------------------------------------------
(* Properties.                                                              *)

Continuations ==
    {Idle}
    \cup [pc : {"replied"}, code : Codes]
    \cup [pc : {"replied"}, code : {202}, run : RunName]
    \cup [pc : {"upsertBenchmark"}, raw : RawName, row : BenchmarkRow]
    \cup [pc : {"findCandidateBenchmark", "upsertCandidate"}, raw : RawName, row : CandidateRow]
    \cup [pc : {"findSuiteBenchmark", "upsertSuite"}, raw : RawName, row : SuiteRow]
    \cup [pc : {"readBack"}, kind : {"benchmark", "candidate", "suite"}, raw : RawName]
    \cup [pc : {"findCandidate"}, candidateName : Name, suiteName : Name]
    \cup [pc : {"findSuite"}, candidate : CandidateRow, suiteName : Name]
    \cup [pc : {"findBenchmark"}, candidate : CandidateRow, suite : SuiteRow]
    \cup [pc : {"createRun", "enqueue"}, run : RunRow]
    \cup [pc : {"findRunForStatus", "updateStatus"}, name : RunName, status : Status]
    \cup [pc : {"findRunForResults"}, name : RunName, measures : Measures]
    \cup [pc : {"upsertResult"}, row : ResultRow]

\* Rows are stored whole and under their own, normalized, key; continuations
\* hold the locals their next step reads.
TypeOK ==
    /\ benchmarks \in [Name -> BenchmarkRow \cup {NoRow}]
    /\ candidates \in [Name -> CandidateRow \cup {NoRow}]
    /\ suites \in [Name -> SuiteRow \cup {NoRow}]
    /\ runs \in [RunName -> RunRow \cup {NoRow}]
    /\ results \in [RunName -> ResultRow \cup {NoRow}]
    /\ sent \subseteq RunMessage
    /\ issued \subseteq RunName
    /\ stranded \subseteq RunName
    /\ pending \in [Handler -> Continuations]

\* Every candidate and every suite refers to a benchmark that exists, although
\* processCandidate() and processSuite() look it up in an operation of its own,
\* before the upsert, outside any transaction.
ReferencesResolve ==
    \A n \in Name :
        /\ candidates[n] # NoRow => benchmarks[candidates[n].benchmark] # NoRow
        /\ suites[n] # NoRow => benchmarks[suites[n].benchmark] # NoRow

\* The three snapshots of a run, and of the message made from it, belong
\* together, although processRunRequest() reads them in three operations
\* between which candidate and suite may be written for another benchmark.
RunsCoherent ==
    /\ \A n \in RunName : runs[n] # NoRow => Coherent(runs[n])
    /\ \A message \in sent : Coherent(message)

\* With a durable database a worker never receives a run the laboratory does
\* not know, or knows with other contents than the message carries.
MessagesHaveRuns ==
    DatabaseMode = "azuresql" =>
        \A message \in sent :
            /\ runs[message.name] # NoRow
            /\ message = createMessage(runs[message.name])

\* A result is only held for a run that exists, and its keys are that run's,
\* in spite of the race the first TODO of processRunResults() describes.
ResultsMatchRuns ==
    \A n \in RunName : results[n] # NoRow =>
        /\ runs[n] # NoRow
        /\ results[n] = ResultOf(runs[n], results[n].measures)

\* A run row is not enough: only the message makes a worker execute it.  A
\* stored run without a message is one whose POST is still in progress or
\* ended without a confirmed enqueue.  In particular a run answered with 202
\* has both.
NoSilentLoss ==
    /\ \A n \in RunName :
          runs[n] # NoRow =>
              \/ createMessage(runs[n]) \in sent
              \/ n \in stranded
              \/ \E h \in Handler : /\ pending[h].pc = "enqueue"
                                    /\ pending[h].run.name = n
    /\ \A h \in Handler :
          pending[h].pc = "replied" /\ pending[h].code = 202 =>
              /\ runs[pending[h].run] # NoRow
              /\ createMessage(runs[pending[h].run]) \in sent

\* A PUT that has written its row answers with it, or with a failure of the read,
\* and is never told that there is no such row: the handler reads it by the name in
\* the body, which is normalized once more and apart from the row's, and the read is
\* an operation of its own, with other requests and restarts before it.
ReadBackFinds ==
    [][\A h \in Handler : pending[h].pc = "readBack" =>
          pending'[h] \notin {Reply(400), Reply(404)}]_vars

\* The answer to the second TODO of processRunResults(): a later report may
\* replace the measures of a result, never the run, benchmark, suite or
\* candidate they are of.
ResultsKeepKeys ==
    [][\A n \in RunName :
          results[n] # NoRow /\ results'[n] # NoRow =>
              results'[n] = [results[n] EXCEPT !.measures = results'[n].measures]]_vars

Registry ==
    INSTANCE RunRegistry WITH
        registry <- runs, reported <- results, used <- issued,
        published <- sent, Volatile <- (DatabaseMode = "inmemory")

\* The laboratory implements the registry of runs its clients rely on: the
\* handlers' interleavings, failures and restarts show as steps of it.
ImplementsRegistry == Registry!Spec

\* Every request gets an answer, or its process stops; a stored run, therefore, does
\* not stay in between (see NoSilentLoss).
EveryRequestAnswered == \A h \in Handler : Active(h) ~> ~Active(h)

----------------------------------------------------------------------------
(* The inductive invariant.                                                 *)

\* A row's key is the name in the row; a name in use was given out by v1().
KeysOK ==
    /\ \A n \in Name :
          /\ benchmarks[n] # NoRow => benchmarks[n].name = n
          /\ candidates[n] # NoRow => candidates[n].name = n
          /\ suites[n] # NoRow => suites[n].name = n
    /\ \A n \in RunName :
          /\ runs[n] # NoRow => runs[n].name = n /\ n \in issued

\* A run about to be created is coherent and its name is still free ...
CreateRunOK(h) ==
    pending[h].pc = "createRun" =>
        LET run == pending[h].run IN
        /\ Coherent(run)
        /\ run.status = "created"
        /\ run.name \in issued
        /\ runs[run.name] = NoRow
        /\ \A g \in Handler \ {h} :
              pending[g].pc = "createRun" => pending[g].run.name # run.name

\* ... and one about to be enqueued is stored with the same snapshots,
\* whatever has been done to its status in the meantime.
EnqueueOK(h) ==
    pending[h].pc = "enqueue" =>
        LET run == pending[h].run IN
        /\ Coherent(run)
        /\ runs[run.name] # NoRow
        /\ createMessage(runs[run.name]) = createMessage(run)

\* What a handler learnt before an await is still true after it.
ContinuationOK(k) ==
    /\ k.pc \in {"upsertCandidate", "upsertSuite"} =>
          benchmarks[k.row.benchmark] # NoRow
    /\ k.pc \in {"upsertBenchmark", "findCandidateBenchmark", "upsertCandidate",
                "findSuiteBenchmark", "upsertSuite"} => Normal[k.raw] = k.row.name
    /\ k.pc = "readBack" => Normal[k.raw] \in Name /\ Stored(k.kind, Normal[k.raw]) # NoRow
    /\ k.pc = "findBenchmark" => k.candidate.benchmark = k.suite.benchmark
    /\ k.pc = "updateStatus" => runs[k.name] # NoRow
    /\ k.pc = "upsertResult" =>
          /\ runs[k.row.name] # NoRow
          /\ k.row = ResultOf(runs[k.row.name], k.row.measures)

IInv ==
    /\ TypeOK
    /\ KeysOK
    /\ ReferencesResolve
    /\ RunsCoherent
    /\ MessagesHaveRuns
    /\ ResultsMatchRuns
    /\ \A h \in Handler : CreateRunOK(h) /\ EnqueueOK(h) /\ ContinuationOK(pending[h])
=============================================================================
