# A verification of the Secure Data Sandbox

The Secure Data Sandbox (SDS) lets a team benchmark candidate programs over data
that nobody may see. A *laboratory* service keeps benchmarks, candidates, suites,
runs and results; a request for a run makes it store a run and send a message to
a queue; a *worker* receives the message and creates an Argo workflow in a
Kubernetes cluster; the workflow's containers report status and results back to
the laboratory. This directory holds TLA+ models of that system, TLC
configurations that check them, and proofs that TLAPS checks.

## 1. Inventory

| Part | Source | State | Operations | Interacts with |
|---|---|---|---|---|
| Laboratory handlers | `laboratory/src/routes`, `sequelize_laboratory/{laboratory,run,benchmark,candidate,suite}.ts` | none but the suspended calls of async functions | PUT benchmark / candidate / suite, POST run, PATCH run status, POST results; GETs | database and queue, by awaited calls |
| Database | `laboratory/src/database.ts`, `sequelize_laboratory/{sequelize.ts,models}` | five tables | findOne, upsert, create, update, each atomic, no transactions | Azure SQL (durable) or SQLite in memory |
| Run message | `sequelize_laboratory/run.ts` `createMessage`, `sds/src/messages.ts` | none (pure) | from a run row to a `PipelineRun` | laboratory to worker |
| Queue | `sds/src/queue/{index,azure}.ts` | messages, visibility, delivery counts, pop receipts (in the service) | enqueue, dequeue, complete | laboratory, worker |
| In-memory queue | `sds/src/queue/inmemory.ts` | `data`, a timer per delivery, `dequeueCounts` | enqueue, dequeue, complete | tests, `QueueMode.InMemory` |
| Queue processor | `sds/src/queue/processor.ts` | `interval`, overlapping calls of `processBatch()` | start, stop, processBatch | a queue and a message handler |
| Argo worker | `worker/src/{index,argoWorker}.ts` | none of its own | processRun, createWorkflow | processor, Kubernetes API |
| Client | `sds/src/laboratory/client`, `interfaces.ts`, `normalize.ts`, `validate.ts` | none but the connection's token interceptor | one method per route: normalize names, send, decode the answer | laboratory, by HTTP |
| CLI, commands | `cli/src/{index,demo,formatting,decode_error}.ts` | none | connect, create, demo, list, results, run, show | client |
| CLI, connection | `cli/src/conn.ts` | connection file, token cache, shared by all processes of the CLI | connect, other commands, logins | client, file system, AAD |
| Authentication and roles | `laboratory/src/{app,auth}.ts` | none | GET /connect, authentication, `requireRole()` before every other route | laboratory |
| Configuration, credentials | `*/configuration.ts`, `laboratory/src/main.ts`, `worker/src/index.ts` | environment, `AzureCredential.instance` | `main()` of both services: parsing, the retry loop for an identity, creation of the tables | platform, identity service, database |
| Workflow containers | Argo, the benchmark author's images | status they have reached | PATCH status, POST results | laboratory |
| Telemetry | `telemetry.ts` | - | logs | all |
| Deployment | `deploy/` | - | - | - |

What makes the system hard:

* every handler of the laboratory is an async function that awaits up to five
  database and queue calls without a transaction; other handlers run at every
  await, in the same process or in another one over the same database;
* a run is stored in one system and sent through another: either may fail, or
  succeed and lose its answer, and the process may stop in between;
* the queue delivers at least once, hides messages for a time only, and hands out
  a new receipt at each delivery; the processor's timer starts calls that overlap;
  creating a workflow is not idempotent;
* with the in-memory database a restart loses every run and keeps the messages;
* making a run message renders the benchmark's environments in place, while tags in
  later stages refer to them;
* containers of several workflows of one run report without any order, and reports
  may be carried out after their senders have given them up;
* rows are written column by column: what a PUT omits stays, JSON columns are not
  validated when they are read, and a run stores copies of three rows;
* names are normalized by the client, by the server, by both or by neither,
  depending on the method;
* a service starts before its identity is mounted, and a credential object created
  too early never works;
* processes of the CLI hold a configuration for as long as a person takes to log in,
  and then write it back.

What makes the parts correct:

* laboratory: references resolve; a run and its message hold snapshots that
  belong together; a message describes a stored run; results carry the keys of
  their run, always; a run without a message is one whose request is in progress
  or was answered with an error; a request is answered;
* processor and queue: a run is tried at most `maxAttemptsPerMessage` times, leaves
  the queue only when it was done or delivered too often, is not removed under
  another call that holds it, and does leave the queue in the end;
* in-memory queue: no message is lost or doubled;
* message and workflow: each step runs the container of its stage, with the variables
  that stage configures and the volumes the suite declares, one claim each;
* a run's life: its status and result claim no more than its workflows have done, a
  run whose workflows succeed is completed, what is executed is registered, and every
  run that was sent ends;
* client and routes: what the laboratory answers decodes and prints, what a command
  announces is there, a refusal has written nothing, results are found under any
  spelling;
* start-up: a service that is up is usable, an early attempt does not spoil the later
  ones, and the service does come up where it can;
* connection file: it holds what the process that wrote it last asks its laboratory with, and
  no account of another laboratory.

`PROJECT.json` lists the hazards line by line, with the properties about each.

## 2. Modules

| Module | Models |
|---|---|
| `RunData` | the rows of the five tables, the run message, `createMessage`, the result row of a run |
| `RunRegistry` | abstract specification: what clients may rely on about runs and results |
| `Laboratory` | the handlers, one action per awaited operation; properties; inductive invariant |
| `MCLaboratory` | instances of `Laboratory` |
| `LaboratoryProofs` | theorems about `Laboratory` |
| `Queues` | what the two queues and the processor have in common |
| `AzureQueue` | the Azure Storage queue as `azure.ts` uses it |
| `QueueProcessor` | `processBatch()` and the timer |
| `ProcessorProofs` | lemmas about `QueueProcessor` that both of its compositions use |
| `ArgoWorker`, `MCArgoWorker` | processor over Azure queue, creating workflows |
| `InMemoryQueue` | `inmemory.ts` |
| `InMemoryWorker`, `MCInMemoryWorker` | processor over the in-memory queue |
| `InMemoryProofs` | theorems about `InMemoryWorker` |
| `RunMessage` | `createMessage()`: images, volumes, arguments, environments, mustache tags |
| `ArgoWorkflow` | `createWorkflow()` |
| `RunPipeline`, `MCRunPipeline` | a run's way through both, and its properties |
| `PipelineProofs` | theorems about `RunPipeline` |
| `Sandbox`, `MCSandbox` | a run's life: `RunRegistry` for the laboratory, `ArgoWorker`, and workflows that report |
| `SandboxProofs` | theorems about `ArgoWorker` and `Sandbox` |
| `Schema` | the io-ts types of `interfaces.ts` as predicates on JSON values |
| `Service`, `MCService` | commands, client methods, authorization, routes, columns of the tables |
| `ServiceProofs` | theorems about `Service` |
| `Startup`, `MCStartup` | `main()` of laboratory and worker: configuration, credentials, tables |
| `StartupProofs` | theorems about `Startup` |
| `Connection` | `cli/src/conn.ts`: processes over one connection file |
| `ConnectionProofs` | theorems about `Connection` |

How they compose: `Laboratory` implements `RunRegistry` (checked and proved), and
`Sandbox` puts that registry in front of `ArgoWorker` (itself `AzureQueue` under
`QueueProcessor`). `Service` looks at the same handlers from outside: one step per
request, but field by field. A property of contents is stated in `Service`, one
of interleavings within a handler in `Laboratory`.

### Laboratory

The variables `benchmarks`, `candidates`, `suites`, `runs`, `results` are the
tables: functions from every primary key to a row or `NoRow`. `sent` is the set
of messages the queue has accepted. `pending[h]` is the continuation of handler
slot `h`: `pc` names the operation it awaits, the other fields are the locals the
code after the await reads, with the values they had when they were read. A step
is an operation's effect together with the code up to the next await. `issued`
holds the names `v1()` has returned (a uuid is fresh), `stranded` is a history
variable: the runs whose request ended without a confirmed enqueue.

| Action | Code |
|---|---|
| `PutBenchmark`, `PutCandidate`, `PutSuite` | `upsertBenchmark()` ... up to the first await: normalization, or 400 |
| `UpsertBenchmark`; `FindCandidateBenchmark`, `UpsertCandidate`; `FindSuiteBenchmark`, `UpsertSuite` | `processBenchmark()`, `processCandidate()`, `processSuite()` |
| `ReadBack` | the second await of the PUT routes, `oneBenchmark()` ..., by the raw name of the body, normalized again |
| `PostRun`, `FindCandidate`, `FindSuite`, `FindBenchmark`, `CreateRun`, `Enqueue` | `createRunRequest()`, `processRunRequest()` |
| `PatchRun`, `FindRunForStatus`, `UpdateStatus` | `updateRunStatus()`, `processRunStatus()` |
| `PostResults`, `FindRunForResults`, `UpsertResult` | `reportRunResults()`, `processRunResults()` |
| `Fail` | an awaited call throws without effect; `setErrorStatus()`, 500 |
| `Crash` | the process stops and starts again |

A write may be applied and its answer lost (`Confirmed`). Retries inside Sequelize
(`retry.max`) show as one of these outcomes. Everything a row stores apart from its
key and its references is one value `rev`; what an upsert makes of an old and a
new one, `Overlay`, is a parameter (the columns themselves are in `Service`). Names
are members of a small set; `normalizeName()` is a constant function from raw names
to names or `Invalid`.

### Queue processor and worker

`stored`, `dequeueCount`, `receipt` are the service's state of each message. A call
of `processBatch()` is a slot `b` of `Batch`; `batch[b]` holds the await it is
suspended at and the items it has still to go through. A receipt is the identity
of the call that received the message: enough to tell a current receipt from an
old one, since a call dequeues once. `interval` is the timer, `immediates` counts
`setImmediate` callbacks not yet run. `attempts` (history) counts calls of the
handler with each message, `workflows` the workflows created for it. The timeout of
a message is independent of the worker, so that it may pass at any time. Any await
may be the last of a process (`Crash`). A remote call may fail before or after its
effect (`DequeueFails`, `ProcessRunFails`, `CompleteFails`).

`InMemoryWorker` puts the same processor over `InMemoryQueue`, whose `dequeue()`
and `complete()` take effect before they return; only the handler is awaited.

### Run message and workflow

`createMessage()` and `createWorkflow()` change no state outside themselves; `RunPipeline`
applies one after the other to every run of a small set, and stops. Objects with string
keys are sequences of entries, since JavaScript enumerates them in insertion order and
`{...a, ...b}` keeps the places of `a`. A text is a literal or one mustache tag. The loop
over stages is the recursive function of `environments`, which holds `benchmark.stages`'
environments as they are when each stage is reached: `runStage.env = stage.env` makes the message's environment and the
stage's one object, so that "Apply transforms" overwrites what later tags refer to, except
where a candidate's environment was spread into a copy. The rows in the database are not
affected, because the columns' getters parse their text anew at every access. Tags that
reach the same environments through `{run...}` are left out.

### A run's life

`Sandbox` adds `flow[m][k]`, a record of how many reports of the kth workflow of run `m` were
answered, and whether it goes on, has failed, or has given up a report that got no answer; `late`, the
reports given up, which are carried out later or never; and `expired`. `Launch`, a conjunct of every
worker step, starts a workflow's containers when `processRun()` has created it. That
containers PATCH `running`, PATCH `completed` and POST results, in that order and once
each, is the model's assumption about the images, taken from the repository's clients.
`Expire` drops a message at the end of its time to live, at any time.

### Clients and routes

A client process of `Service` carries out one command, call by call: `DemoCall`, `createCall`, ...
make the requests `LaboratoryClient` makes; `Unauthorized`, `GetAll`, `Put`, ... are the routes,
each with its validation, its error classes (`statusCode`) and its answer; `Answer` decodes
and goes on. `db[kind][key]` holds the columns that have a value; `AsJson` is what `res.json()`
makes of a row, with `null` for a column without a value but no field for a JSON column
without one; `Upserted` keeps the columns the entity omits, which is Sequelize's doing and
an assumption here. A request is one step, after which the answer may be lost or be a 500 although the
row is there (`Wrote`); interleavings within a handler are `Laboratory`'s. Restarts empty an in-memory database.
JSON values are records `[is |-> ..., of |-> ...]`, arrays functions from any index set, and the
types of `Schema` mirror those of `interfaces.ts`. `other` sends bodies no LaboratoryClient would.

### Start-up

`Startup` follows `main()` of the service chosen: each stage of `pc` is an await or a parser that
may throw. `New` is a credential object, `early` if the identity was not mounted when it was created,
`locked` once a call has failed for want of it (the lockout the comment at
`sds/src/configuration.ts:33` describes). The worker may fail to read the cluster's credentials
(`ClusterFails`), the laboratory to get its port (`ListenFails`), which ends the process. `Replace` is another process in another container,
with another host name; the tables of Azure SQL stay. `endpoints` (history) collects the URLs
put into messages that are still in the queue. An empty variable counts as not given, as in env-var.

### Connection

Each process is a CLI invocation, with the configuration its client holds. A login
(`DeviceToken`) takes any time; every write is a truncation and a write. Two writes that
overlap leave one text, the other, or a mix of both. What the token cache holds is left open: a
silent login may fail at any time. `connected`, `mixed` (a write met a file that another
had written since its truncation) and `disturbed` (the processes at work while another one touched the
file) are history variables. `FileHoldsConnection` says that a process not disturbed asks its
laboratory with what the file holds; it does not say that the old connection survives a `connect`
whose laboratory refuses or whose login fails, since `conn.ts:59` has replaced it by then.

## 3. Runs

| Run | Question | Bounds |
|---|---|---|
| `laboratory_durable` | Do the safety properties and the refinement hold for two concurrent requests, failures and restarts, with Azure SQL, and is every request answered? | 2 handlers, 1 run, 2 benchmarks, 1 candidate, 1 suite |
| `service` | Do answers decode, are announcements true, do refusals write nothing, whatever three clients do in turn? | the demo's 9 calls, 14 commands, 13 foreign requests, 2 runs, 1 restart |
| `startup` | Is a service that is up usable, and does it come up? | 19 environments, 2 services, 2 hosts, 2 tables, 3 attempts |
| `sandbox` | Do status and results of a run tell what was executed, and does every run end? | 1 run, 2 overlapping calls, 2 workflows |
| `worker_safety` | Is the number of attempts bounded and nothing removed too early, whatever overlaps? | 2 messages, 2 overlapping calls, batches of 2, 2 attempts |
| `worker_attempts` | (violated) Is a message that is given up tried the number of times telemetry reports? | 2 messages, 2 calls |
| `worker_stop` | (violated) Does `stop()` keep the processor from receiving? | 2 messages, 2 calls |
| `inmemory_safety` | Does the in-memory queue keep every message, once? | 2 messages, 2 calls, batches of 2 |
| `inmemory_complete` | (violated) Does `complete()` remove a message? | 2 messages, 2 calls |
| `pipeline` | Do stages, variables, tags and volumes arrive in the right containers? | 1 or 2 stages, environments of up to 2 entries, 2 volumes |
| `connection_safety` | Does the file hold what processes ask their laboratories with, and never another one's account, whoever connects, logs in, fails or is interrupted? | 2 processes, 3 laboratories, 2 with logins, commands of 2 requests |
| `connection_last` | (violated) Does the file name the laboratory last connected to? | 2 processes, 2 laboratories |

Why the bounds are enough to be of use: the races of the laboratory are between a
request that reads and one that writes, and two handlers interleave at every await;
a candidate and a suite that may each be written for either of two benchmarks are what
a fractured read takes, and the read back needs a name whose normal form differs from
what the client wrote (`"B1"`) and one that has none (`"?"`). A message is delivered
again to another call while the first still holds it: two calls; it times out behind
another message of its batch: batches of two. `CountCap` is above `MaxAttempts`, the
only value delivery counts are compared with. For arbitrary numbers of handlers,
names, runs, bodies, clients, stages and variables there are the proofs.

Two stages are what a tag to an earlier stage, a shared volume and a clash of names need;
a clash is where two stages have one name, or one is named like the entry point: the step then finds
both containers, which `StepsRunTheirStages` states rather than excludes. Two processes are what a login
that ends after another connect needs. Two workflows of one
run are what contradicting reports need; two messages at once add nothing to a property
about one run but what `worker_safety` covers. In `service` the entities
that the demo uses may be written in another shape by another client, before, between or
after its own calls; one restart is what a lost table needs. The three attempts of `startup` stand for twelve: a
first one that is locked out, one that succeeds, and the limit.

The in-memory database of the laboratory has no run of `Laboratory`: the proofs hold in both
modes, and `service` restarts with it. Deadlock is checked in every run but `pipeline`,
which stops when the workflow is made, and `service`, whose commands end. Symmetry is used in
`worker_safety` and `inmemory_safety` only, which have no liveness property.

Fairness. `Laboratory`: every active handler goes on or its call fails (`WF` of
`Resume \/ Fail`): Node runs each continuation whose promise has settled, and the
database and queue clients settle every call. Requests are not fair. `Sandbox`: the
timer fires, continuations run, remote calls settle, with success or failure, the
service's visibility timeout passes, and each container of a workflow ends, well or not.
`EveryRunEnds` assumes that faults *other than* the handler's cease and that the timer
is armed; the handler may fail for ever, containers may fail, and calls overlap.
`Startup`: the event loop runs `main()`, and the platform replaces a process that has ended;
`ComesUp` assumes that faults cease, that the identity is mounted some day and that the
environment is complete.

Two liveness properties of the parts follow from those of the runs above and are not stated again:
that every run of the worker leaves the queue is a conjunct of `EveryRunEnds`, and that a stored
run ends as sent or as one whose client was told of an error follows from `NoSilentLoss` and
`EveryRequestAnswered`.

## 4. Findings

* `worker_attempts`: `processBatch()` compares `dequeueCount`, the number of
  deliveries, with `maxAttemptsPerMessage`, and reports it as `attempts`. A message
  whose deliveries did not reach the handler (it timed out behind another one of its
  batch, the answer to `dequeue()` was lost, the worker died) is given up with fewer
  attempts, even without any.
* `worker_stop`: `stop()` does not cancel the `setImmediate` of `start()`.
* `inmemory_complete`: `complete()` after the visibility timeout leaves the message
  in the queue, with its delivery count reset.
* `connection_last`: a login ends with a write of the configuration the process started
  with; it undoes a `connect` that another process has made in the meantime.

Smaller observations, which are modelled as the code has them and are no runs:

* `connect` without a service throws (`cli/src/index.ts:150`), where its description promises
  to print the connection (`:38`).
* `results` prints `---` for a measure of 0 (`:295`), and hides measures that are named like a
  field of the result (`:269`).
* `list` with a type spelled `Run` passes `dispatch()`, which lowers the case, but loses the
  columns of runs (`:220`, `:236`).
* Nothing in a PUT can clear an optional field, since an upsert leaves alone what its entity omits
  (`suite.ts:22`).
* `connect` replaces the connection there was before it knows whether the new laboratory validates
  (`conn.ts:59-61`).
* Without `LABORATORY_ENDPOINT` and `WEBSITE_HOSTNAME`, a laboratory that restarts on another host leaves
  runs in Azure's queue that report to the old one (`configuration.ts:130`).
* `GET /runs/results` does not normalize its parameters (`laboratory.ts:193`); only
  `LaboratoryClient` does.

## 5. Proofs

`LaboratoryProofs` proves, for every value of the constants that satisfies
`RowAssumption` and `LaboratoryAssumption`, in both database modes:

| Theorem | Statement |
|---|---|
| `TypeCorrect` | `Spec => []TypeOK` |
| `Inductive` | `Spec => []IInv` |
| `ReferencesAlwaysResolve`, `RunsAreCoherent`, `MessagesAlwaysHaveRuns`, `ResultsAlwaysMatchRuns` | the safety invariants of the runs |
| `ReadBackAlwaysFinds` | `Spec => ReadBackFinds` |
| `ResultKeysNeverChange` | `Spec => ResultsKeepKeys` |
| `NoRunIsLostSilently` | `Spec => []NoSilentLoss` |
| `LaboratoryImplementsRegistry` | `Spec => Registry!Spec` |

Type correctness is inductive by itself and is proved first, action by action. The
safety invariants are not: that a run is coherent depends on what `processRunRequest()`
learnt three awaits earlier, in the continuation of its handler. `IInv` therefore adds
`KeysOK` (a row is stored under its own name, and a run's name was issued),
`CreateRunOK` (a run about to be created is coherent, and its name is still free and
nobody else's), `EnqueueOK` (a run about to be enqueued is stored with the same
snapshots) and `ContinuationOK` (what a handler learnt before an await is still true
after it). These are the facts a reviewer has to believe when each check in the code
is followed by an await; they hold because nothing ever deletes a row, a run's
snapshots are never updated, and a restart that loses the rows loses the continuations
with them. Steps that read only are handled by one lemma (`QuietStep`), writes to the
catalogue by another (`CatalogueStep`). `NoSilentLoss` and the refinement are proved
on top of `IInv`; the refinement has a lemma per action that changes what the registry
shows, and every other action is a stutter or `SetStatus`, `Reserve`, `Forget`.

`ConnectionProofs` proves, from `ConnectionAssumption` alone, `ConnectionInductive`
(`Spec => []IInv`) and from it `ConnectionTypeCorrect` (`TypeOK`), `AccountsAlwaysFit`
(`AccountFitsLab`) and `ConnectionKept` (`FileHoldsConnection`). What the file
holds is what some process held when it began to write, so the invariant speaks of the
processes too: a process past its read holds a configuration, one that logs in holds
that of a laboratory that wants it (`HolderOK`), and as long as no writes were mixed, every
held configuration fits its account (`HeldOK`). A process that nobody has disturbed finds the file empty
between its truncation and its write, and as it read or wrote it afterwards (`UndisturbedOK`). `StepKeeps` says what a step
must do to its process and to the file; a lemma per kind of step (go on, end, truncate,
write, start, request, login) applies it. `LastConnectStays` has no proof: it is
false (section 4).

The first part of `SandboxProofs` proves, from `QueuesAssumption`, `ReceiptAssumption` and
`ProcessorAssumption`, for any number of messages, overlapping calls, items per batch
and attempts:

| Theorem | Statement |
|---|---|
| `WorkerTypeCorrect` | `Spec => []TypeOK` |
| `WorkerInductive` | `Spec => []IInv` |
| `AttemptsAreBounded` | `Spec => []AttemptsBounded` |
| `RunsStayUntilDone` | `Spec => []RemovedOnlyWhenDone` |
| `LateCompletionsAreHarmless` | `Spec => LateCompleteHarmless` |

That the handler is called at most `MaxAttempts` times is not inductive: the counter is
kept by the queue, the test is made later by a call that may hold an old count, and other
calls hold other deliveries of the same message. `IInv` keeps books per message
(`BooksOf`): workflows made plus handlers still at work are no more than attempts, and
attempts plus deliveries that still wait for their turn are no more than deliveries, and
no more than `MaxAttempts`. A step moves a delivery from one account to the next; that it
cannot be moved twice is `OneHolder` (a call holds a message once, and no other call holds
the same count of it), which rests on counts being exact up to `MaxAttempts`
(`CountCap > MaxAttempts`) and on `CountsOK` (no item is ahead of the queue). `CurrentOK`
records what `processBatch()` decided before it awaits, which is what
`RemovedOnlyWhenDone` needs when the message is deleted at last. Late completions add
`HoldsReceipt`: an item with the current count belongs to the call whose receipt is
current. Lemmas: `QuietKeeps` for steps that take no item up, `ProcessRunKeeps`,
`TailKeeps` for every way to leave an item, `DequeueKeeps`.

The second part proves, from the same assumptions and `SandboxAssumption`, for any number of runs, overlapping calls and workflows per run:

| Theorem | Statement |
|---|---|
| `StatusesTellExecution` | `SandboxSpec => []StatusTellsExecution` |
| `SuccessfulRunsAreCompleted` | `SandboxSpec => []SuccessfulRunsComplete` |
| `ExecutedRunsAlwaysRegistered` | `SandboxSpec => []ExecutedRunsAreRegistered` |

The first two rest on `ReportsInv`: a late report is the one its workflow has sent and given up, and
never the next after it (`ReportsGrounded`), so that a status overwritten out of order always has a
workflow that sent it and has not had a later one answered; when all have had `completed` answered, no
other status is accounted for. The third joins the worker's books (a message that was delivered was
sent) to the registry (what was sent was registered, and a durable registry forgets nothing).

`StartupProofs` proves, from `StartupAssumption`, for any environments, retry limits and
tables: `TypesCorrect`, `UpIsUsable` (`UpMeansUsable`), `EarlierRunsAlwaysReportHere`
(`EarlierRunsReportHere`) and `LaterAttemptsAlwaysSucceed` (`LaterAttemptsSucceed`). `IInv` says, stage
by stage, what `main()` has read by then (`ReadSoFar`), that a cached credential works and
an object in use is not locked out (`IdentitySoFar`), and that the tables there include those this
process has created (`SyncedSoFar`).

`InMemoryProofs` proves, from `QueuesAssumption`, `ProcessorAssumption` and `TimerAssumption`, for any
number of messages, calls, items per call and attempts:

| Theorem | Statement |
|---|---|
| `MessagesAreKeptOnce` | `Spec => []NeitherLostNorDoubled` |
| `InMemoryInductive` | `Spec => []IInv` |
| `InMemoryTypeCorrect` | `Spec => []TypeOK` |
| `InMemoryAttemptsBounded` | `Spec => []AttemptsBounded` |

The first needs `PInv` only. Its `PlacesOK` does not count: no message is in `data` twice or both
in `data` and under a timer, and one that was sent and not completed is at one of the two. The
last keeps the books as for the worker, but of messages that were not completed only:
`complete()` deletes the count, after which a late timer may start it anew (the finding of
`inmemory_complete`). `PlacesOK` is what makes the messages that one call dequeues distinct,
on which `OneHolder` rests; for Azure's queue the service guarantees it. What the two processors have
in common (what the loop does next, what a call holds, sizes of sets of counts) is proved once, over
`QueueProcessor`, in `ProcessorProofs`.

`ServiceProofs` proves, for any clients, commands, tokens, request bodies and benchmark files, in
both database modes, with and without authorization:

| Theorem | Statement |
|---|---|
| `Invariant` | `Spec => []IInv` |
| `TypeCorrect` | `Spec => []ServiceTypeOK` |
| `Decodes` | `Spec => []AnswersDecode` |
| `ResultsBelongToRuns` | `Spec => []ResultsHaveRuns` |
| `AnnouncedIsSo` | `Spec => []AnnouncedRunsAreThere` |
| `RefusalsHarmless` | `Spec => RefusalsWriteNothing` |
| `ResultsFound` | `Spec => ResultsFoundByAnySpelling` |

`IInv` is `Tables /\ Rows /\ Issued /\ ResultsHaveRuns /\ Clients`. That an answer decodes is not
inductive: what is answered was stored by an earlier request, perhaps by several, each of which
wrote some of the columns. `Rows` therefore says of every row that it decodes as its type, is
stored under its own name and refers to others by normal names; `RowOK` survives an upsert that
omits columns: a valid body has every field its type requires, and an optional field it omits
keeps a value that an earlier valid body gave it. `Issued` says that `v1()` repeats no name, so that a new run overwrites nothing
an earlier client was told of. `Clients` describes a command between two calls: it is at its
`k`th call, the request is that call's, and of the runs it has learnt of, the first
`ReportedBefore(k)` have results, unless a restart lost them; this is what the end of `demo`
announces. The assumptions: `ServiceAssumption` (roles are the three of `auth.ts`),
`NamesAssumption` (normalization ends in a normal name, and a name that `v1()` returns is normal
already; `normalize.ts` lowers the case and checks the pattern; the types `dispatch()` takes are
those it lists) and `ClockAssumption` (what the database writes as a time is an ISO date).

`PipelineProofs` proves, from `RunAssumption`, for pipelines of any length, with environments,
arguments and volumes of any length:

| Theorem | Statement |
|---|---|
| `PipelineInductive` | `Spec => []IInv` |
| `StepsAlwaysRunTheirStages` | `Spec => []StepsRunTheirStages` |
| `EnvironmentsAlwaysAsConfigured` | `Spec => []EnvironmentsAsConfigured` |
| `TagsAlwaysFollowEarlierStages` | `Spec => []TagsFollowEarlierStages` |
| `MountsAlwaysHaveClaims` | `Spec => []MountsHaveClaims` |

Here the state is simple (`IInv`: message and workflow are what the two functions make of the
run) and the data are not: the theorems are about loops. The library's induction theorems cannot
be used, so `EachStep` states induction over `0 .. n` for a *set* of numbers, from the
well-foundedness of the natural numbers (`Smallest`), and `Loop` derives from it that a loop whose
body keeps a set of values has a run. The three loops of the code (over the entries of an environment, over the stages,
over the volumes) and the concatenation of lists (`Flattened`) are instances. What is proved of them
by induction: rendering an environment in place leaves the others alone and renders each entry
while the other stages are as they were (`InPlace`); when `i` stages are made the later
environments are still the benchmark's and the earlier ones are as they were left
(`EnvironmentsSoFar`), from which it follows that tags to earlier stages follow them, however many stages lie
between; and the list of claims names every volume so far once (`ClaimsFor`).
`RunAssumption` says that runs are of the types of `interfaces.ts`, that the empty string is a
string and that an absent field is no list.

Only model-checked: liveness under fairness (`EveryRequestAnswered`, `EveryRunEnds`, `ComesUp`), which
is out of TLAPS' reach here. Every invariant and every action property of the passing runs is a theorem.

## 6. Plan

1. (done) `RunData`, `RunRegistry`, `Laboratory`: the core of the service.
2. (done) `Queues`, `AzureQueue`, `QueueProcessor`, `ArgoWorker`; `InMemoryQueue`,
   `InMemoryWorker`.
3. (done) `LaboratoryProofs`: inductive invariant and refinement.
4. (done) `RunMessage`, `ArgoWorkflow`, `RunPipeline`; `Connection`.
5. (done) `ProcessorProofs`, `InMemoryProofs`; `ConnectionProofs`.
6. (done) `Sandbox`, `SandboxProofs`; `Schema`, `Service`; `Startup`, `StartupProofs`.
7. (done) `ServiceProofs`; `PipelineProofs`.
8. What could follow: the actions of `Service` as steps of `RunRegistry`, by refinement, as those of
   `Laboratory` are; and what two processes of the CLI do to the token cache.

## 7. Not modelled

* Telemetry and logging (`InitTelemetry()` included), column widths and wording of the CLI, `deploy`
  and `examples`, which call nothing.
* Generated Argo types (`worker/src/argo.ts`), which are more than half of the lines of the
  implementation and hold no code.
* SQL text and connection pooling; signatures and expiry of tokens, which passport and AAD check.
* What the CLI's token cache holds, and that processes may overwrite it: a lost token costs a
  login.
* `ensureQueue()`, since `ParseQueueConfiguration()` always sets `shouldCreateQueue: false`.
* What the containers of a benchmark do, beyond the reports assumed in `Sandbox`.
* Deployment templates.
