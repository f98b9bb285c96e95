------------------------------ MODULE Service --------------------------------
(****************************************************************************)
(* What travels between the clients of the laboratory and its tables: the   *)
(* commands of the CLI (packages/cli/src/index.ts, demo.ts), the methods of *)
(* LaboratoryClient they call, authorization, routes and validation in the  *)
(* laboratory (app.ts, auth.ts, routes), and the columns its models store.  *)
(*                                                                          *)
(* Module Laboratory has the handlers' interleavings and takes the content  *)
(* of a row for one value.  Here a handler is one step, and its data are    *)
(* told apart field by field.  Several clients take turns, request by       *)
(* request; answers are lost and the laboratory restarts in between.        *)
(****************************************************************************)
EXTENDS Schema, Sequences, Integers, TLC

CONSTANTS
    Client,         \* processes, each of which carries out one command
    Caller,         \* who each process may act for: NoToken, or a token's azp and roles
    NoToken,
    AuthMode,       \* "none" or "aad"
    AllowedApp,     \* allowedApplicationClientIds
    DatabaseMode,   \* "azuresql" or "inmemory"
    Command,        \* the commands each process may be given
    RawRequest,     \* requests of other clients, each under a name of its own
    File,           \* what the specification files hold that there are
    Name,           \* normalized names
    Normal,         \* the names normalizeName() accepts, and what it returns for each
    RunName,        \* the uuids v1() returns
    NormalRun,      \* those normalizeRunName() accepts, and what it returns for each
    KindOf,         \* the <type> arguments dispatch() accepts, and the kind of each
    Invalid,        \* stands for "throws an error"
    None,           \* an argument that is not given
    MaxRestarts     \* bounds the restarts of the laboratory

ASSUME ServiceAssumption ==
    /\ AuthMode \in {"none", "aad"}
    /\ DatabaseMode \in {"azuresql", "inmemory"}
    /\ MaxRestarts \in Nat
    /\ \A c \in Client : \A who \in Caller[c] \ {NoToken} :
          who.roles \subseteq {"user", "admin", "benchmark"}

\* What a name is normalized to is normal, and what v1() returns is so already.
\* dispatch() knows the four types, each by its own name in any case.
ASSUME NamesAssumption ==
    /\ \A raw \in DOMAIN Normal : Normal[raw] \in Name
    /\ \A raw \in DOMAIN NormalRun : NormalRun[raw] \in RunName
    /\ \A run \in RunName : run \in DOMAIN NormalRun /\ NormalRun[run] = run
    /\ \A type \in DOMAIN KindOf : KindOf[type] \in {"benchmark", "candidate", "suite", "run"}
    /\ "run" \in DOMAIN KindOf => KindOf["run"] = "run"

VARIABLES
    db,         \* db[kind][key]: the columns of a row that have a value; none, no row
    sent,       \* runs whose message the queue has accepted
    issued,     \* names v1() has returned
    forgotten,  \* runs a restart has emptied the database of
    restarts,
    client      \* where each client process is

vars == <<db, sent, issued, forgotten, restarts, client>>

Kinds == {"benchmark", "candidate", "suite", "run", "result"}
Key(kind) == IF kind \in {"run", "result"} THEN RunName ELSE Name

Now == "now"    \* the database's clock: createdAt of a new row

\* The ISO text the clock is written as can be read back.
ASSUME ClockAssumption == Now \in IsoDate

normalizeName(raw) == IF raw \in DOMAIN Normal THEN Normal[raw] ELSE Invalid
normalizeRunName(raw) == IF raw \in DOMAIN NormalRun THEN NormalRun[raw] ELSE Invalid

----------------------------------------------------------------------------
(* The models.                                                              *)

StringColumns(kind) ==
    {"name", "author", "apiVersion"} \cup
    CASE kind = "benchmark" -> {}
      [] kind = "candidate" -> {"benchmark", "image"}
      [] kind = "suite"     -> {"benchmark"}
      [] kind = "run"       -> {"status"}
      [] kind = "result"    -> {"benchmark", "suite", "candidate"}

JsonColumns(kind) ==
    CASE kind = "benchmark" -> {"stages"}
      [] kind = "candidate" -> {"cmd", "env"}
      [] kind = "suite"     -> {"properties", "volumes"}
      [] kind = "run"       -> {"benchmark", "candidate", "suite"}
      [] kind = "result"    -> {"measures"}

Columns(kind) == StringColumns(kind) \cup JsonColumns(kind) \cup {"createdAt", "updatedAt"}

\* Mutant: fields without a column are stored as well.
StoredMutant(kind, entity) == entity.of

\* The fields of an entity that its table has columns for.
Stored(kind, entity) ==
    [f \in DOMAIN entity.of \cap Columns(kind) |-> entity.of[f]]

NoRow == [f \in {} |-> Null]
NewRow == [createdAt |-> Str(Now)]
Touched == [updatedAt |-> Str(Now)]    \* every write says when it was made

\* One row's columns with a value over those of another.
Over(new, old) ==
    [f \in DOMAIN new \cup DOMAIN old |-> IF f \in DOMAIN new THEN new[f] ELSE old[f]]

\* Sequelize's Model.upsert() and Model.create(): the columns the entity has a
\* value for, over those of the row there is, or of a new one.
Upserted(kind, old, entity) ==
    Over(Stored(kind, entity), Over(Touched, IF old = NoRow THEN NewRow ELSE old))

\* Mutant: the getter of a JSON column returns null for a column without a value.
AsJsonMutant(kind, row) ==
    Obj([f \in Columns(kind) |-> IF f \in DOMAIN row THEN row[f] ELSE Null])

\* res.json() of a row: a column without a value is null, but the getter of a
\* JSON column returns undefined for it, and the field is omitted.
AsJson(kind, row) ==
    Obj([f \in DOMAIN row \cup StringColumns(kind) |->
            IF f \in DOMAIN row THEN row[f] ELSE Null])

Found(kind, key) == db[kind][key] # NoRow
One(kind, key) == AsJson(kind, db[kind][key])
All(kind, keys) == Arr([k \in {n \in keys : Found(kind, n)} |-> One(kind, k)])

----------------------------------------------------------------------------
(* Requests and where they go.                                              *)

Request(method, of, name, body) ==
    [method |-> method, of |-> of, name |-> name, body |-> body]

\* The role requireRole() asks for on the route, beyond authentication.
RoleOf(request) ==
    CASE request.method = "PUT" /\ request.of \in {"benchmark", "suite"} -> "admin"
      [] request.method = "PATCH" -> "benchmark"
      [] request.method = "POST" /\ request.of = "result" -> "benchmark"
      [] OTHER -> "user"

\* requireRole(): the application is on the list, or one of the roles will do.
HasRole(who, role) ==
    \/ AuthMode = "none"
    \/ who.azp \in AllowedApp
    \/ who.roles \cap {"admin", "benchmark", role} # {}

\* GET /connect comes before authentication, everything else after it, and
\* after requireRole(Role.User).
Refusal(who, request) ==
    IF AuthMode = "none" \/ request.of = "connect" THEN "none"
    ELSE IF who = NoToken THEN "unauthenticated"
    ELSE IF HasRole(who, "user") /\ HasRole(who, RoleOf(request)) THEN "none"
    ELSE "forbidden"

----------------------------------------------------------------------------
(* The demo's data, and the calls configureDemo() makes.                    *)

Volume(name, path) ==
    Obj([name |-> Str(name), path |-> Str(path), readonly |-> Bool(TRUE)])

benchmark1 == Obj(
    [name |-> Str("benchmark1"), author |-> Str("author1"), apiVersion |-> Str("v1alpha1"),
     stages |-> Arr(<<
        Obj([name |-> Str("candidate"), kind |-> Str("candidate"),
             volumes |-> Arr(<<Volume("training", "/input")>>)]),
        Obj([name |-> Str("scoring"), kind |-> Str("container"),
             image |-> Str("benchmark-image"),
             volumes |-> Arr(<<Volume("reference", "/reference")>>)])>>)])

candidate1 == Obj(
    [name |-> Str("candidate1"), author |-> Str("author1"), apiVersion |-> Str("v1alpha1"),
     benchmark |-> Str("benchmark1"), image |-> Str("candidate1-image")])

suite1 == Obj(
    [name |-> Str("suite1"), author |-> Str("author1"), apiVersion |-> Str("v1alpha1"),
     benchmark |-> Str("benchmark1"),
     volumes |-> Arr([v \in {"training", "reference"} |->
        Obj([name |-> Str(v), type |-> Str("AzureBlob"), target |-> Str(v)])])])

RunRequest(candidate, suite) ==
    Request("POST", "run", "", Obj([candidate |-> Str(candidate), suite |-> Str(suite)]))

\* The requests of updateRunStatus() and reportRunResults().
StatusReport(run, status) ==
    Request("PATCH", "run", normalizeRunName(run), Obj([status |-> Str(status)]))
ResultsReport(run, measures) ==
    Request("POST", "result", normalizeRunName(run), Obj([measures |-> measures]))

\* The kth call.  The runs the demo creates are named by the answers: learnt.
DemoCall(k, learnt) ==
    LET run == learnt[Len(learnt)]
    IN CASE k = 1 -> Request("PUT", "benchmark", "benchmark1", benchmark1)
         [] k = 2 -> Request("PUT", "candidate", "candidate1", candidate1)
         [] k = 3 -> Request("PUT", "suite", "suite1", suite1)
         [] k \in {4, 7} -> RunRequest("candidate1", "suite1")
         [] k \in {5, 8} -> StatusReport(run, "completed")
         [] k \in {6, 9} -> ResultsReport(run, Obj([passed |-> Num(k)]))

----------------------------------------------------------------------------
(* The other commands, and the methods of LaboratoryClient they call.       *)

\* How many calls a command makes, one after the answer to the other.
Calls(command) ==
    CASE command.verb = "demo" -> 9 [] command.verb = "connect" -> 2 [] OTHER -> 1

\* The name in the route of a call about an entity.
RouteName(kind, raw) == IF kind = "run" THEN normalizeRunName(raw) ELSE normalizeName(raw)

\* Mutant: allRunResults() passes the names on as they are.
ResultsQueryMutant(benchmark, suite) ==
    Request("ALL", "result", "", Obj([benchmark |-> Str(benchmark), suite |-> Str(suite)]))

\* The request allRunResults() makes.
ResultsQuery(benchmark, suite) ==
    Request("ALL", "result", "",
            Obj([benchmark |-> Str(normalizeName(benchmark)), suite |-> Str(normalizeName(suite))]))

\* The requests of the methods allBenchmarks(), oneBenchmark(), upsertBenchmark()
\* and their like for the other kinds.
EntityRequest(op, kind, arg) ==
    CASE op = "all"    -> Request("ALL", kind, "", Empty)
      [] op = "one"    -> Request("ONE", kind, RouteName(kind, arg), Empty)
      [] op = "upsert" -> Request("PUT", kind, normalizeName(arg.of["name"].of), arg)

\* The calls of each command, as the functions of index.ts make them.
connectCall(k) == Request("ONE", IF k = 1 THEN "connect" ELSE "validate", "", Empty)
createCall(command) == EntityRequest("upsert", KindOf[command.type], File[command.file])
listCall(command) == EntityRequest("all", KindOf[command.type], Empty)
showCall(command) ==
    IF command.name = None THEN EntityRequest("all", KindOf[command.type], Empty)
                         ELSE EntityRequest("one", KindOf[command.type], command.name)
runCall(command) == RunRequest(command.candidate, command.suite)
resultsCall(command) == ResultsQuery(command.benchmark, command.suite)

\* The request of the kth call of a command.
Call(command, k, learnt) ==
    CASE command.verb = "demo"    -> DemoCall(k, learnt)
      [] command.verb = "connect" -> connectCall(k)
      [] command.verb = "create"  -> createCall(command)
      [] command.verb = "list"    -> listCall(command)
      [] command.verb = "show"    -> showCall(command)
      [] command.verb = "run"     -> runCall(command)
      [] command.verb = "results" -> resultsCall(command)
      [] command.verb = "http"    -> [RawRequest[command.request] EXCEPT !.name = command.run]

\* benchmarkOps, candidateOps, suiteOps and runOps have the same operations, but
\* those of runs throw for these two.
Unsupported(kind, op) == kind = "run" /\ op \in {"load", "upsert"}

\* dispatch() does not know the type, or there is no such operation.
DispatchThrows(type, op) == type \notin DOMAIN KindOf \/ Unsupported(KindOf[type], op)

\* load() finds no file, or one that does not validate.
LoadThrows(kind, file) == file \notin DOMAIN File \/ ~EntityType(kind, File[file])

\* A command fails before it sends anything, in dispatch(), in load() or because a
\* name has no normal form.
Throws(command) ==
    CASE command.verb = "connect" -> command.service = None
      [] command.verb = "create" ->
            \/ DispatchThrows(command.type, "load")
            \/ LoadThrows(KindOf[command.type], command.file)
            \/ normalizeName(File[command.file].of["name"].of) = Invalid
      [] command.verb = "list" -> DispatchThrows(command.type, "all")
      [] command.verb = "show" ->
            \/ DispatchThrows(command.type, "one")
            \/ command.name # None /\ RouteName(KindOf[command.type], command.name) = Invalid
      [] command.verb = "results" ->
            Invalid \in {normalizeName(command.benchmark), normalizeName(command.suite)}
      [] OTHER -> FALSE

\* What the client's decoder makes of an answer.  Methods that write do not look
\* at theirs; neither do we at those of other clients.
Accepts(request, body) ==
    CASE request.method = "ONE" /\ request.of = "connect" -> ClientConnectionInfoType(body)
      [] request.method = "ONE" /\ request.of \in Kinds -> EntityType(request.of, body)
      [] request.method = "ALL" -> ArrayOf(LAMBDA e : EntityType(request.of, e), body)
      [] request.method = "POST" /\ request.of = "run" -> RunType(body)
      [] OTHER -> TRUE

----------------------------------------------------------------------------
(* What the commands print.                                                 *)

\* The rows `list' prints, each the values of its cells, but for the date; those
\* of runs are longer, if the type is spelled `run'.
listRows(type, specs) ==
    {LET spec == specs.of[s].of IN
     <<spec["name"], spec["author"]>> \o
        IF type = "run"
        THEN <<spec["candidate"].of["name"], spec["suite"].of["name"], spec["status"]>>
        ELSE << >> : s \in DOMAIN specs.of}

Dashes == [is |-> "---"]    \* printed for a measure without a value, or one that is not truthy
Truthy(v) == CASE v.is = "null" -> FALSE
               [] v.is = "number" -> v.of # 0
               [] v.is = "string" -> v.of # ""
               [] v.is = "boolean" -> v.of
               [] OTHER -> TRUE

\* The table `results' prints: a row for each run, a column for each measure of any
\* of them, but for those named like a field of the result.
resultTable(results) ==
    LET measures(r) == results.of[r].of["measures"].of
        columns == UNION {DOMAIN measures(r) \ DOMAIN results.of[r].of : r \in DOMAIN results.of}
    IN  [r \in DOMAIN results.of |-> [col \in columns |->
            IF col \in DOMAIN measures(r) /\ Truthy(measures(r)[col])
            THEN measures(r)[col] ELSE Dashes]]

\* formatTable() takes the length of every cell, and throws where there is none.
Printable(command, answer) ==
    CASE command.verb = "list" ->
            \A row \in listRows(command.type, answer) : \A i \in DOMAIN row : IsString(row[i])
      [] command.verb = "results" ->
            \A r \in DOMAIN answer.of :
                IsString(answer.of[r].of["name"]) /\ IsString(answer.of[r].of["author"])
      [] OTHER -> TRUE

----------------------------------------------------------------------------
(* Steps of the client processes.                                           *)

Ready == [pc |-> "ready"]

Sends(c, who, command, k, learnt) ==
    client' = [client EXCEPT ![c] =
        [pc |-> "sent", who |-> who, command |-> command, k |-> k, learnt |-> learnt,
         request |-> Call(command, k, learnt)]]

\* The unhandledRejection handler sets the exit code and says what decodeError()
\* tells apart: an answer that is an error, no answer, and what the process has
\* thrown itself.  It has said nothing before.
Fails(c, error) ==
    client' = [client EXCEPT ![c] = [pc |-> "failed", error |-> error]]

\* A process that succeeds has printed its last answer, or the runs it created.
Succeeds(c, verb, learnt, answer) ==
    client' = [client EXCEPT ![c] =
        [pc |-> "succeeded", verb |-> verb, learnt |-> learnt,
         listed |-> IF verb = "results" THEN resultTable(answer) ELSE << >>]]

Start(c, command, who) ==
    /\ client[c] = Ready
    /\ IF Throws(command) THEN Fails(c, "thrown") ELSE Sends(c, who, command, 1, << >>)
    /\ UNCHANGED <<db, sent, issued, forgotten, restarts>>

\* A call is answered.  The answer is lost, or it is an error, or the decoder
\* rejects it, or the command goes on to its next call or to its end.
Answer(c, code, body) ==
    LET self == client[c]
        learnt == IF self.request.method = "POST" /\ self.request.of = "run" /\ code = 202
                  THEN Append(self.learnt, body.of["name"].of) ELSE self.learnt
    IN  \/ Fails(c, "lost")
        \/ code \in 400 .. 499 /\ Fails(c, "refused")
        \/ code = 500 /\ Fails(c, "broken")
        \/ /\ code \in 200 .. 299
           /\ ~Accepts(self.request, body)
           /\ Fails(c, "undecodable")
        \/ /\ code \in 200 .. 299
           /\ Accepts(self.request, body)
           /\ IF self.k = Calls(self.command)
              THEN IF Printable(self.command, body)
                   THEN Succeeds(c, self.command.verb, learnt, body)
                   ELSE Fails(c, "unprintable")
              ELSE Sends(c, self.who, self.command, self.k + 1, learnt)

\* The laboratory cannot be reached.
NoAnswer(c) ==
    /\ client[c].pc = "sent"
    /\ Fails(c, "lost")
    /\ UNCHANGED <<db, sent, issued, forgotten, restarts>>

----------------------------------------------------------------------------
(* The laboratory.                                                          *)

Req(c) == client[c].request

\* The classes of the errors that handlers throw.
KnownErrors ==
    {"EntityNotFoundError", "IllegalOperationError", "ValidationError", "ForbiddenError"}

\* setErrorStatus(): any other error has no status of its own.
statusCode(error) ==
    CASE error = "EntityNotFoundError" -> 404
      [] error \in {"IllegalOperationError", "ValidationError"} -> 400
      [] error = "ForbiddenError" -> 403
      [] error \notin KnownErrors -> 500

\* An error is thrown before anything is written.
Rejects(c, error) ==
    /\ Answer(c, statusCode(error), Empty)
    /\ UNCHANGED <<db, sent, issued, forgotten, restarts>>

Reads(c, body) ==
    /\ Answer(c, 200, body)
    /\ UNCHANGED <<db, sent, issued, forgotten, restarts>>

\* A request passes authentication and requireRole() and reaches its route.
Routed(c, method, of) ==
    /\ client[c].pc = "sent"
    /\ Refusal(client[c].who, Req(c)) = "none"
    /\ Req(c).method = method
    /\ Req(c).of \in of

Unauthorized(c) ==
    /\ client[c].pc = "sent"
    /\ \/ /\ Refusal(client[c].who, Req(c)) = "unauthenticated"
          /\ Answer(c, 401, Empty)
          /\ UNCHANGED <<db, sent, issued, forgotten, restarts>>
       \/ /\ Refusal(client[c].who, Req(c)) = "forbidden"
          /\ Rejects(c, "ForbiddenError")

GetConnect(c) ==
    /\ Routed(c, "ONE", {"connect"})
    /\ Reads(c, IF AuthMode = "none"
                THEN Obj([type |-> Str("unauthenticated")])
                ELSE Obj([type |-> Str("aad"), clientId |-> Str("cli"),
                          authority |-> Str("tenant"), scopes |-> Arr(<<Str("scope")>>)]))

GetValidate(c) == Routed(c, "ONE", {"validate"}) /\ Reads(c, Empty)

GetAll(c, kind) ==
    /\ Routed(c, "ALL", {kind})
    /\ Reads(c, All(kind, Key(kind)))

GetOne(c, kind) ==
    LET name == RouteName(kind, Req(c).name) IN
    /\ Routed(c, "ONE", {kind})
    /\ \/ name = Invalid /\ Rejects(c, "IllegalOperationError")
       \/ name # Invalid /\ ~Found(kind, name) /\ Rejects(c, "EntityNotFoundError")
       \/ name # Invalid /\ Found(kind, name) /\ Reads(c, One(kind, name))

\* GET /runs/results: the two parameters are compared as they come.
GetResults(c) ==
    LET query == Req(c).body IN
    /\ Routed(c, "ALL", {"result"})
    /\ \/ ~(Has(query, "benchmark", IsString) /\ Has(query, "suite", IsString))
          /\ Rejects(c, "ValidationError")
       \/ /\ Has(query, "benchmark", IsString) /\ Has(query, "suite", IsString)
          /\ Reads(c, All("result", {n \in RunName :
                /\ Found("result", n)
                /\ db["result"][n]["benchmark"] = query.of["benchmark"]
                /\ db["result"][n]["suite"] = query.of["suite"]}))

\* normalizeBenchmark(), normalizeCandidate(), normalizeSuite().
Normalized(kind, entity) ==
    Obj([f \in DOMAIN entity.of |->
            IF f = "name" \/ (f = "benchmark" /\ kind # "benchmark")
            THEN Str(normalizeName(entity.of[f].of)) ELSE entity.of[f]])

\* The names of a valid body have normal forms, and the benchmark it refers to
\* exists.
Acceptable(kind, body) ==
    LET entity == Normalized(kind, body).of IN
    /\ entity["name"] # Str(Invalid)
    /\ kind # "benchmark" =>
          /\ entity["benchmark"] # Str(Invalid)
          /\ Found("benchmark", entity["benchmark"].of)

\* Mutant: the row is written before the benchmark it refers to is looked up.
PutWritesFirst(c, kind) ==
    LET body == Req(c).body
        entity == Normalized(kind, body)
        name == entity.of["name"].of
    IN  /\ Routed(c, "PUT", {kind})
        /\ EntityType(kind, body) /\ name # Invalid
        /\ db' = [db EXCEPT ![kind][name] = Upserted(kind, @, entity)]
        /\ Answer(c, IF Acceptable(kind, body) THEN 200 ELSE statusCode("IllegalOperationError"),
                     AsJson(kind, db'[kind][name]))
        /\ UNCHANGED <<sent, issued, forgotten, restarts>>

\* A handler that has written answers; or the write fails after all, or what
\* follows it, and the row is there nevertheless.
Wrote(c, code, body) == Answer(c, code, body) \/ Answer(c, statusCode("Error"), Empty)

\* The handler ignores the name in the route, and answers with the row it reads
\* back.
Put(c, kind) ==
    LET body == Req(c).body
        entity == Normalized(kind, body)
        name == entity.of["name"].of
    IN  /\ Routed(c, "PUT", {kind})
        /\ \/ ~EntityType(kind, body) /\ Rejects(c, "ValidationError")
           \/ /\ EntityType(kind, body) /\ ~Acceptable(kind, body)
              /\ Rejects(c, "IllegalOperationError")
           \/ /\ EntityType(kind, body) /\ Acceptable(kind, body)
              /\ db' = [db EXCEPT ![kind][name] = Upserted(kind, @, entity)]
              /\ Wrote(c, 200, AsJson(kind, db'[kind][name]))
              /\ UNCHANGED <<sent, issued, forgotten, restarts>>

\* The row of a run: its snapshots are the JSON of three rows.
NewRun(name, candidate, suite) ==
    LET benchmark == db["candidate"][candidate]["benchmark"].of IN
    Obj([name |-> Str(name), author |-> Str("unknown"), apiVersion |-> Str("v1alpha1"),
         status |-> Str("created"),
         benchmark |-> One("benchmark", benchmark),
         candidate |-> One("candidate", candidate),
         suite |-> One("suite", suite)])

\* What processRunRequest() verifies, before it writes anything.
Runnable(candidate, suite) ==
    /\ Invalid \notin {candidate, suite}
    /\ Found("candidate", candidate)
    /\ Found("suite", suite)
    /\ db["candidate"][candidate]["benchmark"] = db["suite"][suite]["benchmark"]
    /\ Found("benchmark", db["candidate"][candidate]["benchmark"].of)

\* Mutant: the run is answered whether or not its message is sent.
PostRunMutant(c) ==
    LET body == Req(c).body
        candidate == normalizeName(body.of["candidate"].of)
        suite == normalizeName(body.of["suite"].of)
    IN  /\ Routed(c, "POST", {"run"})
        /\ RunRequestType(body) /\ Runnable(candidate, suite)
        /\ \E name \in RunName \ issued :
              /\ issued' = issued \cup {name}
              /\ db' = [db EXCEPT !["run"][name] =
                          Upserted("run", NoRow, NewRun(name, candidate, suite))]
              /\ sent' = sent \/ sent' = sent \cup {name}
              /\ Answer(c, 202, AsJson("run", db'["run"][name]))
        /\ UNCHANGED <<forgotten, restarts>>

\* When the message cannot be sent, the row of the run stays.
PostRun(c) ==
    LET body == Req(c).body
        candidate == normalizeName(body.of["candidate"].of)
        suite == normalizeName(body.of["suite"].of)
    IN  /\ Routed(c, "POST", {"run"})
        /\ \/ ~RunRequestType(body) /\ Rejects(c, "ValidationError")
           \/ /\ RunRequestType(body) /\ ~Runnable(candidate, suite)
              /\ Rejects(c, "IllegalOperationError")
           \/ /\ RunRequestType(body) /\ Runnable(candidate, suite)
              /\ \E name \in RunName \ issued :
                    /\ issued' = issued \cup {name}
                    /\ db' = [db EXCEPT !["run"][name] =
                                Upserted("run", NoRow, NewRun(name, candidate, suite))]
                    /\ \/ /\ sent' = sent \cup {name}
                          /\ Answer(c, 202, AsJson("run", db'["run"][name]))
                       \/ UNCHANGED sent /\ Answer(c, statusCode("Error"), Empty)
              /\ UNCHANGED <<forgotten, restarts>>

PatchRun(c) ==
    LET body == Req(c).body
        name == normalizeRunName(Req(c).name)
    IN  /\ Routed(c, "PATCH", {"run"})
        /\ \/ ~UpdateRunStatusType(body) /\ Rejects(c, "ValidationError")
           \/ /\ UpdateRunStatusType(body) /\ name = Invalid
              /\ Rejects(c, "IllegalOperationError")
           \/ /\ UpdateRunStatusType(body) /\ name # Invalid
              /\ \/ ~Found("run", name) /\ Rejects(c, "EntityNotFoundError")
                 \/ /\ Found("run", name)
                    /\ db' = [db EXCEPT !["run"][name] =
                                Over([status |-> body.of["status"]], Over(Touched, @))]
                    /\ Wrote(c, 204, Empty)
                    /\ UNCHANGED <<sent, issued, forgotten, restarts>>

\* What processRunResults() upserts.
ResultOf(run, measures) ==
    Obj([name |-> run["name"], author |-> run["author"], apiVersion |-> Str("v1alpha1"),
         benchmark |-> run["benchmark"].of["name"],
         suite |-> run["suite"].of["name"],
         candidate |-> run["candidate"].of["name"],
         measures |-> measures])

PostResults(c) ==
    LET body == Req(c).body
        name == normalizeRunName(Req(c).name)
    IN  /\ Routed(c, "POST", {"result"})
        /\ \/ ~ReportRunResultsType(body) /\ Rejects(c, "ValidationError")
           \/ /\ ReportRunResultsType(body) /\ name = Invalid
              /\ Rejects(c, "IllegalOperationError")
           \/ /\ ReportRunResultsType(body) /\ name # Invalid
              /\ \/ ~Found("run", name) /\ Rejects(c, "EntityNotFoundError")
                 \/ /\ Found("run", name)
                    /\ db' = [db EXCEPT !["result"][name] =
                          Upserted("result", @, ResultOf(db["run"][name], body.of["measures"]))]
                    /\ Wrote(c, 204, Empty)
                    /\ UNCHANGED <<sent, issued, forgotten, restarts>>

\* A read or a write fails; the error has no status of its own.
DatabaseFails(c) ==
    /\ client[c].pc = "sent"
    /\ Refusal(client[c].who, Req(c)) = "none"
    /\ Req(c).of \notin {"connect", "validate"}
    /\ Rejects(c, "Error")

EmptyDb == [kind \in Kinds |-> [key \in Key(kind) |-> NoRow]]

\* Mutant: the restart leaves the results in place.
RestartMutant ==
    /\ restarts < MaxRestarts
    /\ restarts' = restarts + 1
    /\ db' = [EmptyDb EXCEPT !["result"] = db["result"]]
    /\ UNCHANGED <<sent, issued, forgotten, client>>

\* The laboratory stops and starts again: requests in progress are cut off, and
\* an in-memory database is empty.
Restart ==
    /\ restarts < MaxRestarts
    /\ restarts' = restarts + 1
    /\ IF DatabaseMode = "inmemory"
       THEN /\ db' = EmptyDb
            /\ forgotten' = forgotten \cup {n \in RunName : Found("run", n)}
       ELSE UNCHANGED <<db, forgotten>>
    /\ client' = [c \in Client |->
          IF client[c].pc = "sent" THEN [pc |-> "failed", error |-> "lost"] ELSE client[c]]
    /\ UNCHANGED <<sent, issued>>

----------------------------------------------------------------------------

Init ==
    /\ db = EmptyDb
    /\ sent = {}
    /\ issued = {}
    /\ forgotten = {}
    /\ restarts = 0
    /\ client = [c \in Client |-> Ready]

Serve(c) ==
    \/ Unauthorized(c)
    \/ GetConnect(c) \/ GetValidate(c) \/ GetResults(c)
    \/ \E kind \in {"benchmark", "candidate", "suite", "run"} : GetAll(c, kind) \/ GetOne(c, kind)
    \/ \E kind \in {"benchmark", "candidate", "suite"} : Put(c, kind)
    \/ PostRun(c) \/ PatchRun(c) \/ PostResults(c)
    \/ DatabaseFails(c)

Next ==
    \/ \E c \in Client :
          \/ \E command \in Command[c], who \in Caller[c] : Start(c, command, who)
          \/ Serve(c) \/ NoAnswer(c)
    \/ Restart

Spec == Init /\ [][Next]_vars

----------------------------------------------------------------------------
(* Properties.                                                              *)

States ==
    {Ready}
    \cup [pc : {"failed"}, error : {"thrown", "lost", "refused", "broken", "undecodable",
                                       "unprintable"}]

\* A row is stored under the name it has, and under the columns of its table;
\* one that refers to others does so by normal names.
ServiceTypeOK ==
    /\ \A kind \in Kinds : \A key \in Key(kind) :
          Found(kind, key) =>
              /\ DOMAIN db[kind][key] \subseteq Columns(kind)
              /\ db[kind][key]["name"] = Str(key)
              /\ kind \in {"candidate", "suite", "result"} =>
                    db[kind][key]["benchmark"].of \in Name
    /\ sent \subseteq issued
    /\ forgotten \subseteq issued
    /\ \A c \in Client :
          \/ client[c].pc \in {"ready", "failed"} /\ client[c] \in States
          \/ client[c].pc = "sent" /\ client[c].k \in 1 .. Calls(client[c].command)
          \/ client[c].pc = "succeeded"

\* Whatever the laboratory answers passes the decoder of its client, and what has
\* passed it can be printed, although a row may hold columns of several requests
\* and a run holds three such rows, and although the laboratory does not validate
\* what it reads from its tables.
AnswersDecode ==
    \A c \in Client :
        client[c].pc = "failed" => client[c].error \notin {"undecodable", "unprintable"}

\* A request that is refused, for whatever reason and by whomever it is sent, has
\* written nothing: a client told that it failed without a reason cannot say, but
\* one that is told why can repeat its request.
RefusalsWriteNothing ==
    [][\A c \in Client :
          client'[c] # client[c] /\ client'[c].pc = "failed"
          /\ client'[c].error \in {"thrown", "refused", "undecodable", "unprintable"} =>
              UNCHANGED <<db, sent>>]_vars

\* `results' shows the runs of the benchmark and the suite it names, in whatever
\* spelling, that have reported, and of each the measures it has reported and no
\* other's: the two names are normalized by the client only, those in a result were
\* normalized when the run's candidate was written.
ResultsFoundByAnySpelling ==
    [][\A c \in Client :
          client[c].pc = "sent" /\ client'[c].pc = "succeeded"
          /\ client[c].command.verb = "results" =>
              LET table == client'[c].listed
                  measures(n) == db["result"][n]["measures"].of
              IN
              /\ DOMAIN table = {n \in RunName :
                    /\ Found("run", n) /\ Found("result", n)
                    /\ db["run"][n]["benchmark"].of["name"].of
                          = normalizeName(client[c].command.benchmark)
                    /\ db["run"][n]["suite"].of["name"].of
                          = normalizeName(client[c].command.suite)}
              /\ \A n \in DOMAIN table :
                    /\ \A f \in DOMAIN measures(n) :
                          f \in Columns("result") \/ f \in DOMAIN table[n]
                    /\ \A f \in DOMAIN table[n] :
                          \/ f \in DOMAIN measures(n) /\ table[n][f] = measures(n)[f]
                          \/ /\ table[n][f] = Dashes
                             /\ f \in DOMAIN measures(n) => ~Truthy(measures(n)[f])]_vars

\* What a command that succeeded has announced is so, whatever other clients did
\* in between: its runs are registered and sent, and those of the demo have
\* results, unless an in-memory database has been emptied since.
AnnouncedRunsAreThere ==
    \A c \in Client : client[c].pc = "succeeded" =>
        \A i \in DOMAIN client[c].learnt :
            LET n == client[c].learnt[i] IN
            \/ n \in forgotten
            \/ /\ Found("run", n) /\ n \in sent
               /\ client[c].verb = "demo" => Found("result", n)

\* No result without its run: not even a restart leaves one behind, nor does a
\* client that goes on reporting after it bring one back.
ResultsHaveRuns ==
    \A n \in RunName :
        Found("result", n) =>
            /\ Found("run", n)
            /\ db["result"][n]["benchmark"] = db["run"][n]["benchmark"].of["name"]
            /\ db["result"][n]["suite"] = db["run"][n]["suite"].of["name"]
=============================================================================
