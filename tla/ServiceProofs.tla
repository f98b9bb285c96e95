---------------------------- MODULE ServiceProofs ------------------------------
(****************************************************************************)
(* What holds of Service for every set of clients, whatever commands,       *)
(* requests and files they have, for both databases, with and without       *)
(* authorization: the laboratory answers what its clients can decode, a     *)
(* request it refuses has written nothing, results belong to runs, and      *)
(* what a command has announced is so.                                      *)
(****************************************************************************)
EXTENDS Service, TLAPS

----------------------------------------------------------------------------
(* The inductive invariant.                                                 *)

Tables ==
    /\ DOMAIN db = Kinds
    /\ \A kind \in Kinds : DOMAIN db[kind] = Key(kind)

\* A row is stored under its name, its JSON decodes, and the names of others in
\* it are normal.  A run has those in its snapshots.
RowOK(kind, key, row) ==
    /\ DOMAIN row \subseteq Columns(kind)
    /\ row["name"] = Str(key)
    /\ EntityType(kind, AsJson(kind, row))
    /\ kind \in {"candidate", "suite", "result"} => \E b \in Name : row["benchmark"] = Str(b)
    /\ kind = "run" => \E b, s \in Name : /\ row["benchmark"].of["name"] = Str(b)
                                        /\ row["suite"].of["name"] = Str(s)

Rows == \A kind \in Kinds : \A key \in Key(kind) :
            Found(kind, key) => RowOK(kind, key, db[kind][key])

\* Names are issued once.
Issued ==
    /\ sent \subseteq issued
    /\ forgotten \subseteq issued
    /\ \A n \in RunName : Found("run", n) => n \in issued

\* A run is registered and sent, or it has results; but for a restart.
Known(n) == n \in forgotten \/ (Found("run", n) /\ n \in sent)
Done(n) == n \in forgotten \/ Found("result", n)

\* How many runs the demo has created, and has reported the results of, before
\* its kth call.
CreatedBefore(k) == IF k <= 4 THEN 0 ELSE IF k <= 7 THEN 1 ELSE 2
ReportedBefore(k) == IF k <= 6 THEN 0 ELSE IF k <= 9 THEN 1 ELSE 2

Progress(self) ==
    /\ self.k \in 1 .. Calls(self.command)
    /\ self.learnt \in Seq(RunName)
    /\ self.request = Call(self.command, self.k, self.learnt)
    /\ ~Throws(self.command)
    /\ \A i \in DOMAIN self.learnt : Known(self.learnt[i])
    /\ self.command.verb = "demo" =>
          /\ Len(self.learnt) = CreatedBefore(self.k)
          /\ \A i \in 1 .. ReportedBefore(self.k) : Done(self.learnt[i])

Announced(self) ==
    /\ self.learnt \in Seq(RunName)
    /\ \A i \in DOMAIN self.learnt :
          /\ Known(self.learnt[i])
          /\ self.verb = "demo" => Done(self.learnt[i])

ClientOK(self) ==
    \/ self = Ready
    \/ self.pc = "sent" /\ Progress(self)
    \/ self \in [pc : {"failed"}, error : {"thrown", "lost", "refused", "broken"}]
    \/ self.pc = "succeeded" /\ Announced(self)

Clients == DOMAIN client = Client /\ \A c \in Client : ClientOK(client[c])

IInv == Tables /\ Rows /\ Issued /\ ResultsHaveRuns /\ Clients

----------------------------------------------------------------------------
(* Rows.                                                                    *)

\* What becomes of a row is an object, whose fields are the row's and the text
\* columns it has no value for.
LEMMA JsonOfRow ==
    ASSUME NEW kind, NEW row
    PROVE  LET json == AsJson(kind, row) IN
           /\ json.is = "object"
           /\ DOMAIN json.of = DOMAIN row \cup StringColumns(kind)
           /\ \A f \in DOMAIN row : json.of[f] = row[f]
           /\ \A f \in StringColumns(kind) \ DOMAIN row : ~IsString(json.of[f])
  BY DEF AsJson, Obj, Null, IsString

\* The fields of a normalized body.
LEMMA NormalizedBody ==
    ASSUME NEW kind, NEW body
    PROVE  LET entity == Normalized(kind, body)
               named == {"name"} \cup IF kind = "benchmark" THEN {} ELSE {"benchmark"}
           IN  /\ DOMAIN entity.of = DOMAIN body.of
               /\ \A f \in DOMAIN body.of \cap named :
                      entity.of[f] = Str(normalizeName(body.of[f].of))
               /\ \A f \in DOMAIN body.of \ named : entity.of[f] = body.of[f]
  BY DEF Normalized, Obj

\* What every write lays under the columns it is given.
LEMMA OverTouched ==
    ASSUME NEW old
    PROVE  LET before == Over(Touched, IF old = NoRow THEN NewRow ELSE old) IN
           /\ DOMAIN before = {"updatedAt"} \cup IF old = NoRow THEN {"createdAt"} ELSE DOMAIN old
           /\ \A f \in DOMAIN before :
                 \/ f \in {"createdAt", "updatedAt"} /\ before[f] = Str(Now)
                 \/ old # NoRow /\ f \in DOMAIN old /\ before[f] = old[f]
  BY DEF Over, Touched, NewRow

\* A row a PUT writes decodes, if its body does and the row there was before did:
\* a field is the body's, or that row's.
LEMMA PutRow ==
    ASSUME NEW kind \in {"benchmark", "candidate", "suite"}, NEW old, NEW body,
           EntityType(kind, body),
           old # NoRow => DOMAIN old \subseteq Columns(kind) /\ EntityType(kind, AsJson(kind, old))
    PROVE  LET row == Upserted(kind, old, Normalized(kind, body)) IN
           /\ DOMAIN row \subseteq Columns(kind)
           /\ row["name"] = Str(normalizeName(body.of["name"].of))
           /\ kind # "benchmark" =>
                 row["benchmark"] = Str(normalizeName(body.of["benchmark"].of))
           /\ EntityType(kind, AsJson(kind, row))
<1> DEFINE entity == Normalized(kind, body)
           row == Upserted(kind, old, entity)
           json == AsJson(kind, row)
           was == AsJson(kind, old)
           named == {"name"} \cup IF kind = "benchmark" THEN {} ELSE {"benchmark"}
           text == StringColumns(kind)
           all == Columns(kind)
<1>1. /\ DOMAIN entity.of = DOMAIN body.of
      /\ \A f \in DOMAIN body.of \cap named : entity.of[f] = Str(normalizeName(body.of[f].of))
      /\ \A f \in DOMAIN body.of \ named : entity.of[f] = body.of[f]
  BY NormalizedBody
<1>2. text \subseteq all /\ {"createdAt", "updatedAt"} \subseteq all \ text
      /\ named \subseteq text /\ {"name", "author", "apiVersion"} \subseteq text
  BY DEF StringColumns, JsonColumns, Columns
<1>3. text \subseteq DOMAIN body.of
  BY DEF EntityType, BenchmarkType, CandidateType, SuiteType, EntityBaseType, Has, StringColumns
<1>4. /\ DOMAIN row \subseteq all
      /\ \A f \in DOMAIN body.of \cap all : f \in DOMAIN row /\ row[f] = entity.of[f]
      /\ \A f \in DOMAIN row \ DOMAIN body.of :
            \/ f \in {"createdAt", "updatedAt"} /\ row[f] = Str(Now)
            \/ old # NoRow /\ f \in DOMAIN old /\ row[f] = old[f]
  <2> DEFINE before == Over(Touched, IF old = NoRow THEN NewRow ELSE old)
             given == DOMAIN entity.of \cap all
  <2>1. /\ DOMAIN row = given \cup DOMAIN before
        /\ \A f \in given : row[f] = entity.of[f]
        /\ \A f \in DOMAIN before \ given : row[f] = before[f]
    BY DEF Upserted, Over, Stored
  <2>2. /\ DOMAIN before = {"updatedAt"} \cup IF old = NoRow THEN {"createdAt"} ELSE DOMAIN old
        /\ \A f \in DOMAIN before :
              \/ f \in {"createdAt", "updatedAt"} /\ before[f] = Str(Now)
              \/ old # NoRow /\ f \in DOMAIN old /\ before[f] = old[f]
    BY OverTouched
  <2>3. old # NoRow => DOMAIN old \subseteq all
    OBVIOUS
  <2> HIDE DEF entity, row, before, all, named, text
  <2>4. DOMAIN before \subseteq all
    BY <1>2, <2>2, <2>3
  <2>5. QED  BY <2>1, <2>2, <2>4, <1>1
<1>5. /\ json.is = "object"
      /\ DOMAIN json.of = DOMAIN row
      /\ \A f \in DOMAIN row : json.of[f] = row[f]
  <2>1. /\ json.is = "object"
        /\ DOMAIN json.of = DOMAIN row \cup text
        /\ \A f \in DOMAIN row : json.of[f] = row[f]
    BY JsonOfRow
  <2>2. QED  BY <2>1, <1>2, <1>3, <1>4
<1>6. /\ \A f \in text \ named : f \in DOMAIN json.of /\ json.of[f] = body.of[f]
      /\ \A f \in named : f \in DOMAIN json.of /\ IsString(json.of[f])
      /\ \A f \in DOMAIN json.of \ named :
            \/ f \in DOMAIN body.of /\ json.of[f] = body.of[f]
            \/ f \in {"createdAt", "updatedAt"} /\ json.of[f] = Str(Now)
            \/ old # NoRow /\ f \in DOMAIN was.of /\ json.of[f] = was.of[f]
  <2>1. \A f \in DOMAIN old : f \in DOMAIN was.of /\ was.of[f] = old[f]
    BY JsonOfRow
  <2>2. \A x : IsString(Str(x))
    BY DEF IsString, Str
  <2> HIDE DEF text, named, all, entity, row, json, was
  <2>3. QED  BY <2>1, <2>2, <1>1, <1>2, <1>3, <1>4, <1>5
<1>7. DateType(Str(Now))
  BY ClockAssumption DEF DateType, Str
<1>8. EntityBaseType(json)
  <2>1. EntityBaseType(body) /\ (old # NoRow => EntityBaseType(was))
    BY DEF EntityType, BenchmarkType, CandidateType, SuiteType
  <2>2. "author" \in text \ named /\ "apiVersion" \in text \ named /\ "name" \in named
        /\ "createdAt" \notin named /\ "updatedAt" \notin named
    BY DEF StringColumns
  <2> HIDE DEF text, named, all, entity, row, json, was
  <2>3. QED
    BY <2>1, <2>2, <1>5, <1>6, <1>7 DEF EntityBaseType, Has, May
<1>9. EntityType(kind, json)
  <2>1. CASE kind = "benchmark"
    <3>1. BenchmarkType(body)
      BY <2>1 DEF EntityType
    <3>2. "stages" \in DOMAIN body.of \cap all /\ "stages" \notin named
      BY <2>1, <3>1 DEF BenchmarkType, Has, JsonColumns, Columns
    <3>3. "stages" \in DOMAIN json.of /\ json.of["stages"] = body.of["stages"]
      BY <3>2, <1>1, <1>4, <1>5
    <3> HIDE DEF json
    <3>4. BenchmarkType(json)
      BY <3>1, <3>3, <1>5, <1>8 DEF BenchmarkType, Has
    <3>5. QED  BY <3>4, <2>1 DEF EntityType
  <2>2. CASE kind = "candidate"
    <3>1. CandidateType(body) /\ (old # NoRow => CandidateType(was))
      BY <2>2 DEF EntityType
    <3>2. "image" \in text \ named /\ "benchmark" \in named /\ "env" \notin named
      BY <2>2 DEF StringColumns
    <3> HIDE DEF json, text, named, was
    <3>3. CandidateType(json)
      BY <3>1, <3>2, <1>5, <1>6, <1>8 DEF CandidateType, Has, May
    <3>4. QED  BY <3>3, <2>2 DEF EntityType
  <2>3. CASE kind = "suite"
    <3>1. SuiteType(body) /\ (old # NoRow => SuiteType(was))
      BY <2>3 DEF EntityType
    <3>2. "benchmark" \in named /\ "properties" \notin named /\ "volumes" \notin named
      BY <2>3
    <3> HIDE DEF json, text, named, was
    <3>3. SuiteType(json)
      BY <3>1, <3>2, <1>5, <1>6, <1>8 DEF SuiteType, Has, May
    <3>4. QED  BY <3>3, <2>3 DEF EntityType
  <2>4. QED  BY <2>1, <2>2, <2>3
<1>10. /\ row["name"] = Str(normalizeName(body.of["name"].of))
       /\ kind # "benchmark" => row["benchmark"] = Str(normalizeName(body.of["benchmark"].of))
  <2>1. "name" \in named /\ (kind # "benchmark" => "benchmark" \in named)
    OBVIOUS
  <2> HIDE DEF text, named, all, entity, row
  <2>2. QED  BY <2>1, <1>1, <1>2, <1>3, <1>4
<1>11. QED  BY <1>4, <1>9, <1>10

\* A name that is not rejected is normal.
LEMMA NormalNames ==
    /\ \A raw : normalizeName(raw) \in Name \/ normalizeName(raw) = Invalid
    /\ \A raw : normalizeRunName(raw) \in RunName \/ normalizeRunName(raw) = Invalid
    /\ \A run \in RunName : normalizeRunName(run) = run
  BY NamesAssumption DEF normalizeName, normalizeRunName

\* A new run's row: its snapshots are rows that decode.
LEMMA RunRow ==
    ASSUME Rows, NEW candidate \in Name, NEW suite \in Name, NEW name \in RunName,
           Runnable(candidate, suite)
    PROVE  RowOK("run", name, Upserted("run", NoRow, NewRun(name, candidate, suite)))
<1> DEFINE benchmark == db["candidate"][candidate]["benchmark"].of
           entity == NewRun(name, candidate, suite)
           row == Upserted("run", NoRow, entity)
           json == AsJson("run", row)
<1>1. /\ RowOK("candidate", candidate, db["candidate"][candidate])
      /\ RowOK("suite", suite, db["suite"][suite])
  BY DEF Rows, Runnable, Kinds, Key
<1>2. benchmark \in Name /\ RowOK("benchmark", benchmark, db["benchmark"][benchmark])
  <2>1. benchmark \in Name
    <3>1. PICK b \in Name : db["candidate"][candidate]["benchmark"] = Str(b)
      BY <1>1 DEF RowOK
    <3>2. QED  BY <3>1 DEF Str
  <2>2. Found("benchmark", benchmark)
    BY DEF Runnable
  <2>3. QED  BY <2>1, <2>2 DEF Rows, Kinds, Key
<1>3. /\ BenchmarkType(One("benchmark", benchmark))
      /\ CandidateType(One("candidate", candidate))
      /\ SuiteType(One("suite", suite))
  BY <1>1, <1>2, SMTT(20) DEF RowOK, EntityType, One
<1>4. /\ One("benchmark", benchmark).of["name"] = Str(benchmark)
      /\ One("suite", suite).of["name"] = Str(suite)
  <2>1. ASSUME NEW kind, NEW r, EntityBaseType(AsJson(kind, r)), "name" \in StringColumns(kind)
        PROVE  AsJson(kind, r).of["name"] = r["name"]
    <3> DEFINE it == AsJson(kind, r)
    <3>1. IsString(it.of["name"])
      BY <2>1 DEF EntityBaseType, Has
    <3>2. QED  BY <2>1, <3>1, JsonOfRow
  <2>2. "name" \in StringColumns("benchmark") /\ "name" \in StringColumns("suite")
    BY DEF StringColumns
  <2>3. EntityBaseType(One("benchmark", benchmark)) /\ EntityBaseType(One("suite", suite))
    BY <1>3 DEF BenchmarkType, SuiteType
  <2>4. /\ db["benchmark"][benchmark]["name"] = Str(benchmark)
        /\ db["suite"][suite]["name"] = Str(suite)
    BY <1>1, <1>2 DEF RowOK
  <2>5. QED
    BY <2>1, <2>2, <2>3, <2>4 DEF One
<1>5. entity.of = [name |-> Str(name), author |-> Str("unknown"), apiVersion |-> Str("v1alpha1"),
                   status |-> Str("created"), benchmark |-> One("benchmark", benchmark),
                   candidate |-> One("candidate", candidate), suite |-> One("suite", suite)]
  BY DEF NewRun, Obj
<1>6. /\ DOMAIN row = Columns("run")
      /\ row["name"] = Str(name)
      /\ row["author"] = Str("unknown")
      /\ row["apiVersion"] = Str("v1alpha1")
      /\ row["status"] = Str("created")
      /\ row["benchmark"] = One("benchmark", benchmark)
      /\ row["candidate"] = One("candidate", candidate)
      /\ row["suite"] = One("suite", suite)
      /\ row["createdAt"] = Str(Now) /\ row["updatedAt"] = Str(Now)
  <2>1. /\ DOMAIN entity.of \cup {"createdAt", "updatedAt"} = Columns("run")
        /\ {"createdAt", "updatedAt"} \cap DOMAIN entity.of = {}
    BY <1>5 DEF Columns, StringColumns, JsonColumns
  <2> HIDE DEF entity, benchmark
  <2>2. row = Over(Stored("run", entity), Over(Touched, NewRow))
    BY DEF Upserted
  <2>3. DOMAIN Stored("run", entity) = DOMAIN entity.of
        /\ \A f \in DOMAIN entity.of : Stored("run", entity)[f] = entity.of[f]
    BY <2>1 DEF Stored
  <2>4. Over(Touched, NewRow) = [f \in {"createdAt", "updatedAt"} |-> Str(Now)]
    BY DEF NewRow, Touched, Over
  <2>5. DOMAIN row = Columns("run")
        /\ \A f \in DOMAIN entity.of : row[f] = entity.of[f]
        /\ row["createdAt"] = Str(Now) /\ row["updatedAt"] = Str(Now)
    BY <2>1, <2>2, <2>3, <2>4 DEF Over
  <2> HIDE DEF row
  <2>6. QED
    BY <1>5, <2>5
<1>7. /\ json.is = "object"
      /\ DOMAIN json.of = Columns("run")
      /\ \A f \in Columns("run") : json.of[f] = row[f]
  BY <1>6, JsonOfRow DEF Columns
<1>8. RunType(json)
  <2> HIDE DEF json, row, benchmark
  <2>1. \A s : IsString(Str(s)) /\ Str(s).is = "string" /\ Str(s).of = s
    BY DEF IsString, Str
  <2>2. {"name", "author", "apiVersion", "status", "benchmark", "candidate", "suite",
         "createdAt", "updatedAt"} = Columns("run")
    BY DEF Columns, StringColumns, JsonColumns
  <2>3. EntityBaseType(json)
    BY <1>6, <1>7, <2>1, <2>2, ClockAssumption DEF EntityBaseType, Has, May, DateType
  <2>4. RunStatusType(Str("created"))
    BY <2>1 DEF RunStatusType, RunStatus
  <2>5. QED
    BY <1>3, <1>6, <1>7, <2>2, <2>3, <2>4 DEF RunType, Has
<1>9. QED
  BY <1>2, <1>4, <1>6, <1>8 DEF RowOK, EntityType

\* The row of a run whose status is updated.
LEMMA PatchedRow ==
    ASSUME NEW name \in RunName, NEW old, RowOK("run", name, old),
           NEW status, RunStatusType(status)
    PROVE  LET row == Over([status |-> status], Over(Touched, old)) IN
           /\ RowOK("run", name, row)
           /\ row["benchmark"] = old["benchmark"] /\ row["suite"] = old["suite"]
<1> DEFINE row == Over([status |-> status], Over(Touched, old))
           json == AsJson("run", row)
           was == AsJson("run", old)
<1>1. /\ DOMAIN row = DOMAIN old \cup {"status", "updatedAt"}
      /\ \A f \in DOMAIN old \ {"status", "updatedAt"} : row[f] = old[f]
      /\ row["status"] = status /\ row["updatedAt"] = Str(Now)
  BY DEF Over, Touched
<1>2. RunType(was) /\ StringColumns("run") = {"name", "author", "apiVersion", "status"}
  BY DEF RowOK, EntityType, StringColumns
<1>3. {"name", "author", "apiVersion", "status", "benchmark", "candidate", "suite"} \subseteq DOMAIN old
  <2>1. \A f \in StringColumns("run") : f \in DOMAIN was.of /\ (IsString(was.of[f]) => f \in DOMAIN old)
    BY JsonOfRow
  <2>2. DOMAIN was.of = DOMAIN old \cup StringColumns("run")
    BY JsonOfRow
  <2>3. \A v : RunStatusType(v) => IsString(v)
    BY DEF RunStatusType, IsString
  <2> HIDE DEF was
  <2>4. QED
    BY <1>2, <2>1, <2>2, <2>3 DEF RunType, EntityBaseType, Has
<1>4. DOMAIN row \subseteq Columns("run") /\ DateType(Str(Now))
  BY <1>1, ClockAssumption DEF RowOK, Columns, StringColumns, DateType, Str
<1> HIDE DEF row
<1>5. /\ json.is = "object"
      /\ DOMAIN json.of = DOMAIN was.of \cup {"updatedAt"}
      /\ json.of["status"] = status
      /\ json.of["updatedAt"] = Str(Now)
      /\ \A f \in DOMAIN was.of \ {"status", "updatedAt"} : json.of[f] = was.of[f]
  <2>1. /\ json.is = "object"
        /\ DOMAIN json.of = DOMAIN row \cup StringColumns("run")
        /\ \A f \in DOMAIN row : json.of[f] = row[f]
    BY JsonOfRow
  <2>2. /\ DOMAIN was.of = DOMAIN old \cup StringColumns("run")
        /\ \A f \in DOMAIN old : was.of[f] = old[f]
    BY JsonOfRow
  <2>3. StringColumns("run") \subseteq DOMAIN old
    BY <1>2, <1>3
  <2> HIDE DEF json, was
  <2>4. QED  BY <1>1, <1>3, <2>1, <2>2, <2>3
<1> HIDE DEF json, was
<1>6. RunType(json)
  BY <1>2, <1>4, <1>5 DEF RunType, EntityBaseType, Has, May
<1>7. RowOK("run", name, row)
  BY <1>1, <1>3, <1>4, <1>6 DEF RowOK, EntityType, json
<1>8. row["benchmark"] = old["benchmark"] /\ row["suite"] = old["suite"]
  BY <1>1, <1>3
<1>9. QED  BY <1>7, <1>8 DEF row

\* The row of a run's results: what it says of the run is of the run's snapshots.
LEMMA ResultRow ==
    ASSUME Rows, NEW name \in RunName, Found("run", name), NEW measures, IsObject(measures)
    PROVE  LET run == db["run"][name]
               row == Upserted("result", db["result"][name], ResultOf(run, measures))
           IN  /\ RowOK("result", name, row)
               /\ row["benchmark"] = run["benchmark"].of["name"]
               /\ row["suite"] = run["suite"].of["name"]
<1> DEFINE run == db["run"][name]
           old == db["result"][name]
           entity == ResultOf(run, measures)
           row == Upserted("result", old, entity)
           json == AsJson("result", row)
           was == AsJson("result", old)
           given == StringColumns("result") \cup {"measures"}
<1>1. /\ RowOK("run", name, run)
      /\ old # NoRow => RowOK("result", name, old)
  BY DEF Rows, Found, Kinds, Key
<1>2. /\ given = {"name", "author", "apiVersion", "benchmark", "suite", "candidate", "measures"}
      /\ Columns("result") = given \cup {"createdAt", "updatedAt"}
  BY DEF StringColumns, JsonColumns, Columns
<1>3. /\ DOMAIN entity.of = given
      /\ entity.of["name"] = run["name"]
      /\ entity.of["author"] = run["author"]
      /\ entity.of["apiVersion"] = Str("v1alpha1")
      /\ entity.of["benchmark"] = run["benchmark"].of["name"]
      /\ entity.of["suite"] = run["suite"].of["name"]
      /\ entity.of["candidate"] = run["candidate"].of["name"]
      /\ entity.of["measures"] = measures
  BY <1>2 DEF ResultOf, Obj
<1>4. /\ DOMAIN old \subseteq Columns("result") \/ old = NoRow
      /\ run["name"] = Str(name)
      /\ \E b \in Name : run["benchmark"].of["name"] = Str(b)
  BY <1>1 DEF RowOK
<1>5. IsString(run["author"]) /\ IsString(run["suite"].of["name"]) /\ IsString(run["candidate"].of["name"])
  <2> DEFINE it == AsJson("run", run)
  <2>1. RunType(it)
    BY <1>1 DEF RowOK, EntityType
  <2>2. /\ DOMAIN it.of = DOMAIN run \cup StringColumns("run")
        /\ \A f \in DOMAIN run : it.of[f] = run[f]
        /\ \A f \in StringColumns("run") \ DOMAIN run : ~IsString(it.of[f])
    BY JsonOfRow
  <2>3. StringColumns("run") = {"name", "author", "apiVersion", "status"}
    BY DEF StringColumns
  <2> HIDE DEF it
  <2>4. IsString(it.of["author"]) /\ {"suite", "candidate"} \subseteq DOMAIN it.of
        /\ SuiteType(it.of["suite"]) /\ CandidateType(it.of["candidate"])
    BY <2>1 DEF RunType, EntityBaseType, Has
  <2>5. run["author"] = it.of["author"] /\ run["suite"] = it.of["suite"]
        /\ run["candidate"] = it.of["candidate"]
    <3> HIDE DEF run
    <3>1. QED  BY <2>2, <2>3, <2>4
  <2>6. QED
    BY <2>4, <2>5 DEF SuiteType, CandidateType, EntityBaseType, Has
<1>6. /\ DOMAIN row \subseteq Columns("result")
      /\ \A f \in given : f \in DOMAIN row /\ row[f] = entity.of[f]
      /\ \A f \in DOMAIN row \ given :
            \/ row[f] = Str(Now)
            \/ old # NoRow /\ f \in DOMAIN old /\ row[f] = old[f]
  <2> DEFINE before == Over(Touched, IF old = NoRow THEN NewRow ELSE old)
  <2> HIDE DEF entity, old, given
  <2>1. /\ DOMAIN before = {"updatedAt"} \cup IF old = NoRow THEN {"createdAt"} ELSE DOMAIN old
        /\ \A f \in DOMAIN before :
              \/ f \in {"createdAt", "updatedAt"} /\ before[f] = Str(Now)
              \/ old # NoRow /\ f \in DOMAIN old /\ before[f] = old[f]
    BY OverTouched
  <2>2. row = Over(Stored("result", entity), before)
    BY DEF Upserted
  <2>3. DOMAIN Stored("result", entity) = given
        /\ \A f \in given : Stored("result", entity)[f] = entity.of[f]
    BY <1>2, <1>3 DEF Stored
  <2> HIDE DEF row, before
  <2>4. /\ DOMAIN row = given \cup DOMAIN before
        /\ \A f \in given : row[f] = entity.of[f]
        /\ \A f \in DOMAIN before \ given : row[f] = before[f]
    BY <2>2, <2>3 DEF Over
  <2>5. QED
    BY <1>2, <1>4, <2>1, <2>4
<1>7. /\ json.is = "object"
      /\ DOMAIN json.of = DOMAIN row
      /\ \A f \in DOMAIN row : json.of[f] = row[f]
  <2>1. DOMAIN row \cup StringColumns("result") = DOMAIN row
    BY <1>6
  <2>2. /\ json.is = "object"
        /\ DOMAIN json.of = DOMAIN row \cup StringColumns("result")
        /\ \A f \in DOMAIN row : json.of[f] = row[f]
    BY JsonOfRow
  <2>3. QED  BY <2>1, <2>2
<1>8. old # NoRow => \A f \in {"createdAt", "updatedAt"} \cap DOMAIN old : DateType(old[f])
  <2>1. old # NoRow => EntityBaseType(was)
    BY <1>1 DEF RowOK, EntityType, ResultType
  <2>2. \A f \in DOMAIN old : f \in DOMAIN was.of /\ was.of[f] = old[f]
    BY JsonOfRow
  <2> HIDE DEF old, was
  <2>3. QED  BY <2>1, <2>2 DEF EntityBaseType, May
<1>9. ResultType(json)
  <2>1. \A s : IsString(Str(s)) /\ Str(s).is = "string" /\ Str(s).of = s
    BY DEF IsString, Str
  <2>2. IsString(entity.of["benchmark"]) /\ MeasuresType(measures)
    BY <1>3, <1>4, <2>1 DEF MeasuresType
  <2>3. \A f \in {"createdAt", "updatedAt"} \cap DOMAIN json.of : DateType(json.of[f])
    <3>1. DateType(Str(Now))
      BY <2>1, ClockAssumption DEF DateType
    <3> HIDE DEF json, row, old
    <3>2. QED  BY <1>2, <1>6, <1>7, <1>8, <3>1
  <2> HIDE DEF json, row, entity, old, run, given
  <2>4. EntityBaseType(json)
    BY <1>2, <1>3, <1>4, <1>5, <1>6, <1>7, <2>1, <2>3 DEF EntityBaseType, Has, May
  <2>5. QED
    BY <1>2, <1>3, <1>5, <1>6, <1>7, <2>2, <2>4 DEF ResultType, Has
<1>10. /\ row["name"] = Str(name)
       /\ row["benchmark"] = run["benchmark"].of["name"]
       /\ row["suite"] = run["suite"].of["name"]
  <2> HIDE DEF row, entity, run
  <2>1. QED  BY <1>2, <1>3, <1>4, <1>6
<1>11. QED
  BY <1>4, <1>6, <1>9, <1>10 DEF RowOK, EntityType

----------------------------------------------------------------------------
(* Clients.                                                                 *)

\* Known and Done after a step.
KnownAfter(n) == n \in forgotten' \/ (db'["run"][n] # NoRow /\ n \in sent')
DoneAfter(n) == n \in forgotten' \/ db'["result"][n] # NoRow

\* A step takes no run away and no result, but for those it forgets.
Keeps == \A n \in RunName : (Known(n) => KnownAfter(n)) /\ (Done(n) => DoneAfter(n))

Asks(request, method, of) == request.method = method /\ request.of = of

\* What an answer has to be: the client decodes it if it is no error, and what
\* it reads from it is so.
Fits(c, code, body) ==
    code \in 200 .. 299 =>
        /\ Accepts(Req(c), body)
        /\ Asks(Req(c), "POST", "run") =>
              /\ code = 202
              /\ body.of["name"].of \in RunName
              /\ KnownAfter(body.of["name"].of)
        /\ Asks(Req(c), "POST", "result") /\ client[c].command.verb = "demo" =>
              DoneAfter(client[c].learnt[Len(client[c].learnt)])

\* The calls of the demo that create a run, and those that report its results.
LEMMA DemoCalls ==
    ASSUME NEW k \in 1 .. 9, NEW learnt
    PROVE  LET request == DemoCall(k, learnt) IN
           /\ Asks(request, "POST", "run") <=> k \in {4, 7}
           /\ Asks(request, "POST", "result") <=> k \in {6, 9}
           /\ k \in {6, 9} => request.name = normalizeRunName(learnt[Len(learnt)])
<1>1. k \in {1, 2, 3} => ~Asks(DemoCall(k, learnt), "POST", "run")
                         /\ ~Asks(DemoCall(k, learnt), "POST", "result")
  BY DEF DemoCall, Asks, Request
<1>2. k \in {4, 7} => Asks(DemoCall(k, learnt), "POST", "run")
                      /\ ~Asks(DemoCall(k, learnt), "POST", "result")
  BY DEF DemoCall, RunRequest, Asks, Request
<1>3. k \in {5, 8} => ~Asks(DemoCall(k, learnt), "POST", "run")
                      /\ ~Asks(DemoCall(k, learnt), "POST", "result")
  BY DEF DemoCall, StatusReport, Asks, Request
<1>4. k \in {6, 9} => /\ ~Asks(DemoCall(k, learnt), "POST", "run")
                      /\ Asks(DemoCall(k, learnt), "POST", "result")
                      /\ DemoCall(k, learnt).name = normalizeRunName(learnt[Len(learnt)])
  BY DEF DemoCall, ResultsReport, Asks, Request
<1>5. QED  BY <1>1, <1>2, <1>3, <1>4

\* What a command has decoded it can print.
LEMMA DecodedIsPrintable ==
    ASSUME NEW self, Progress(self), NEW body, Accepts(self.request, body)
    PROVE  Printable(self.command, body)
<1> DEFINE command == self.command
           request == Call(command, self.k, self.learnt)
<1>1. Accepts(request, body) /\ ~Throws(command)
  BY DEF Progress
<1>2. CASE command.verb = "list"
  <2> DEFINE kind == KindOf[command.type]
  <2>1. command.type \in DOMAIN KindOf
    BY <1>1, <1>2 DEF Throws, DispatchThrows
  <2>2. kind \in {"benchmark", "candidate", "suite", "run"} /\ (command.type = "run" => kind = "run")
    BY <2>1, NamesAssumption
  <2>3. request = Request("ALL", kind, "", Empty)
    BY <1>2 DEF Call, listCall, EntityRequest
  <2>4. request.method = "ALL" /\ request.of = kind
    <3> HIDE DEF kind, request
    <3>1. QED  BY <2>3 DEF Request
  <2>5. ArrayOf(LAMBDA e : EntityType(kind, e), body)
    <3> HIDE DEF kind, request
    <3>1. QED  BY <1>1, <2>2, <2>4 DEF Accepts
  <2>6. ASSUME NEW i \in DOMAIN body.of
        PROVE  /\ EntityBaseType(body.of[i])
               /\ command.type = "run" => RunType(body.of[i])
    BY <2>2, <2>5 DEF ArrayOf, EntityType, BenchmarkType, CandidateType, SuiteType, RunType
  <2>7. ASSUME NEW row \in listRows(command.type, body), NEW i \in DOMAIN row
        PROVE  IsString(row[i])
    <3> DEFINE spec(s) == body.of[s].of
               more(s) == IF command.type = "run"
                          THEN <<spec(s)["candidate"].of["name"], spec(s)["suite"].of["name"],
                                 spec(s)["status"]>>
                          ELSE << >>
    <3>1. PICK s \in DOMAIN body.of : row = <<spec(s)["name"], spec(s)["author"]>> \o more(s)
      BY <2>7 DEF listRows
    <3>2. IsString(spec(s)["name"]) /\ IsString(spec(s)["author"])
      BY <2>6 DEF EntityBaseType, Has
    <3>3. command.type = "run" => /\ IsString(spec(s)["candidate"].of["name"])
                                  /\ IsString(spec(s)["suite"].of["name"])
                                  /\ IsString(spec(s)["status"])
      <4>1. ASSUME NEW v, RunType(v)
            PROVE  /\ IsString(v.of["candidate"].of["name"])
                   /\ IsString(v.of["suite"].of["name"])
                   /\ IsString(v.of["status"])
        <5>1. CandidateType(v.of["candidate"]) /\ SuiteType(v.of["suite"])
              /\ RunStatusType(v.of["status"])
          BY <4>1 DEF RunType, Has
        <5>2. QED
          BY <5>1 DEF CandidateType, SuiteType, EntityBaseType, Has, RunStatusType, IsString
      <4>2. QED  BY <2>6, <4>1
    <3> HIDE DEF spec
    <3>4. CASE command.type = "run"
      BY <3>1, <3>2, <3>3, <3>4, <2>7
    <3>5. CASE command.type # "run"
      BY <3>1, <3>2, <3>5, <2>7
    <3>6. QED  BY <3>4, <3>5
  <2>8. QED  BY <2>7, <1>2 DEF Printable
<1>3. CASE command.verb = "results"
  <2>1. request.method = "ALL" /\ request.of = "result"
    BY <1>3 DEF Call, resultsCall, ResultsQuery, Request
  <2>2. ArrayOf(LAMBDA e : EntityType("result", e), body)
    <3> HIDE DEF request
    <3>1. QED  BY <1>1, <2>1 DEF Accepts
  <2>3. \A r \in DOMAIN body.of : EntityBaseType(body.of[r])
    BY <2>2 DEF ArrayOf, EntityType, ResultType
  <2>4. QED  BY <2>3, <1>3 DEF Printable, EntityBaseType, Has
<1>4. CASE command.verb \notin {"list", "results"}
  BY <1>4 DEF Printable
<1>5. QED  BY <1>2, <1>3, <1>4

\* A client that is where it was is where it should be, after a step that keeps
\* what it knows.
LEMMA SameClient ==
    ASSUME Keeps, NEW d, ClientOK(client[d]), client'[d] = client[d]
    PROVE  ClientOK(client[d])'
<1> DEFINE other == client[d]
<1>1. CASE other = Ready \/ other \in [pc : {"failed"}, error : {"thrown", "lost", "refused", "broken"}]
  BY <1>1 DEF ClientOK
<1>2. CASE other.pc = "sent" /\ Progress(other)
  <2>1. /\ \A i \in DOMAIN other.learnt : KnownAfter(other.learnt[i])
        /\ other.command.verb = "demo" =>
              \A i \in 1 .. ReportedBefore(other.k) : DoneAfter(other.learnt[i])
    <3>1. \A i \in DOMAIN other.learnt : other.learnt[i] \in RunName
      BY <1>2 DEF Progress
    <3>2. other.command.verb = "demo" =>
             /\ Len(other.learnt) = CreatedBefore(other.k)
             /\ other.k \in 1 .. 9
             /\ DOMAIN other.learnt = 1 .. Len(other.learnt)
      BY <1>2 DEF Progress, Calls
    <3>3. other.command.verb = "demo" =>
             \A i \in 1 .. ReportedBefore(other.k) : i \in DOMAIN other.learnt
      <4>1. \A k \in 1 .. 9 : ReportedBefore(k) <= CreatedBefore(k) /\ ReportedBefore(k) \in Nat
                              /\ CreatedBefore(k) \in Nat
        BY DEF ReportedBefore, CreatedBefore
      <4> HIDE DEF other
      <4>2. SUFFICES ASSUME other.command.verb = "demo", NEW i \in 1 .. ReportedBefore(other.k)
                     PROVE  i \in 1 .. Len(other.learnt)
        BY <3>2
      <4>3. /\ ReportedBefore(other.k) <= Len(other.learnt)
            /\ ReportedBefore(other.k) \in Nat /\ Len(other.learnt) \in Nat
        BY <3>2, <4>1, <4>2
      <4>4. QED  BY <4>2, <4>3
    <3> HIDE DEF other
    <3>4. QED  BY <1>2, <3>1, <3>3 DEF Progress, Keeps
  <2>2. Progress(other)'
    BY <1>2, <2>1 DEF Progress, Known, KnownAfter, Done, DoneAfter, Found
  <2>3. QED  BY <1>2, <2>2 DEF ClientOK
<1>3. CASE other.pc = "succeeded" /\ Announced(other)
  <2>1. \A i \in DOMAIN other.learnt : other.learnt[i] \in RunName
    BY <1>3 DEF Announced
  <2>2. Announced(other)'
    BY <1>3, <2>1 DEF Announced, Keeps, Known, KnownAfter, Done, DoneAfter, Found
  <2>3. QED  BY <1>3, <2>2 DEF ClientOK
<1>4. QED  BY <1>1, <1>2, <1>3 DEF ClientOK

\* A client that is answered what fits is where it should be; the others are where
\* they were.
LEMMA AnsweredClients ==
    ASSUME Clients, NEW c \in Client, client[c].pc = "sent", Keeps,
           NEW code, NEW body, Answer(c, code, body), Fits(c, code, body)
    PROVE  Clients'
<1> DEFINE self == client[c]
           created == Asks(self.request, "POST", "run") /\ code = 202
           learnt == IF created THEN Append(self.learnt, body.of["name"].of) ELSE self.learnt
<1>1. Progress(self)
  BY DEF Clients, ClientOK, Ready
<1>2. /\ self.k \in 1 .. Calls(self.command)
      /\ self.learnt \in Seq(RunName)
      /\ self.request = Call(self.command, self.k, self.learnt)
      /\ ~Throws(self.command)
      /\ \A i \in DOMAIN self.learnt : Known(self.learnt[i])
      /\ self.command.verb = "demo" =>
            /\ Len(self.learnt) = CreatedBefore(self.k)
            /\ \A i \in 1 .. ReportedBefore(self.k) : Done(self.learnt[i])
  BY <1>1 DEF Progress
<1>3. Calls(self.command) \in {1, 2, 9} /\ (self.command.verb = "demo" => Calls(self.command) = 9)
  BY DEF Calls
<1>4. /\ client' = [client EXCEPT ![c] = client'[c]]
      /\ DOMAIN client' = Client
      /\ \A d \in Client \ {c} : client'[d] = client[d]
  BY DEF Clients, Answer, Fails, Succeeds, Sends
<1>5. ASSUME NEW d \in Client, d # c
      PROVE  ClientOK(client[d])'
  BY <1>4, <1>5, SameClient DEF Clients
<1>6. code \in 200 .. 299 =>
         /\ learnt \in Seq(RunName)
         /\ \A i \in DOMAIN learnt : KnownAfter(learnt[i])
  <2>1. \A i \in DOMAIN self.learnt : self.learnt[i] \in RunName /\ KnownAfter(self.learnt[i])
    BY <1>2 DEF Keeps
  <2>2. ASSUME code \in 200 .. 299, created
        PROVE  body.of["name"].of \in RunName /\ KnownAfter(body.of["name"].of)
    BY <2>2 DEF Fits, Req
  <2> HIDE DEF self, created
  <2>3. QED  BY <1>2, <2>1, <2>2
<1>7. code \in 200 .. 299 /\ self.command.verb = "demo" =>
         /\ Len(learnt) = CreatedBefore(self.k + 1)
         /\ \A i \in 1 .. ReportedBefore(self.k + 1) : DoneAfter(learnt[i])
  <2> SUFFICES ASSUME code \in 200 .. 299, self.command.verb = "demo"
               PROVE  /\ Len(learnt) = CreatedBefore(self.k + 1)
                      /\ \A i \in 1 .. ReportedBefore(self.k + 1) : DoneAfter(learnt[i])
    OBVIOUS
  <2>1. self.k \in 1 .. 9 /\ self.request = DemoCall(self.k, self.learnt)
    BY <1>2, <1>3 DEF Call
  <2>2. /\ Asks(self.request, "POST", "run") <=> self.k \in {4, 7}
        /\ Asks(self.request, "POST", "result") <=> self.k \in {6, 9}
    <3> HIDE DEF self
    <3>1. /\ Asks(DemoCall(self.k, self.learnt), "POST", "run") <=> self.k \in {4, 7}
          /\ Asks(DemoCall(self.k, self.learnt), "POST", "result") <=> self.k \in {6, 9}
      BY <2>1, DemoCalls
    <3>2. QED  BY <2>1, <3>1
  <2>3. created <=> self.k \in {4, 7}
    BY <2>2 DEF Fits, Req
  <2>4. self.k \in {6, 9} => DoneAfter(self.learnt[Len(self.learnt)])
    BY <2>2 DEF Fits, Req
  <2>5. \A i \in 1 .. ReportedBefore(self.k) : DoneAfter(self.learnt[i])
    <3>1. ReportedBefore(self.k) <= CreatedBefore(self.k)
          /\ ReportedBefore(self.k) \in Nat /\ CreatedBefore(self.k) \in Nat
      BY <2>1 DEF ReportedBefore, CreatedBefore
    <3> HIDE DEF self
    <3>2. \A i \in 1 .. ReportedBefore(self.k) : self.learnt[i] \in RunName
      BY <1>2, <3>1
    <3>3. QED  BY <1>2, <3>2 DEF Keeps
  <2> HIDE DEF self, created
  <2>6. Len(learnt) = CreatedBefore(self.k + 1)
    BY <1>2, <2>1, <2>3 DEF CreatedBefore
  <2>7. \A i \in 1 .. Len(self.learnt) : learnt[i] = self.learnt[i]
    BY <1>2
  <2>8. ASSUME NEW i \in 1 .. ReportedBefore(self.k + 1)
        PROVE  DoneAfter(learnt[i])
    <3>1. CASE self.k \in {6, 9}
      <4>1. i \in 1 .. Len(self.learnt) /\ (i = Len(self.learnt) \/ i \in 1 .. ReportedBefore(self.k))
        BY <1>2, <2>8, <3>1 DEF CreatedBefore, ReportedBefore
      <4>2. QED  BY <4>1, <2>4, <2>5, <2>7, <3>1
    <3>2. CASE self.k \notin {6, 9}
      <4>1. i \in 1 .. ReportedBefore(self.k) /\ i \in 1 .. Len(self.learnt)
        BY <1>2, <2>1, <2>8, <3>2 DEF CreatedBefore, ReportedBefore
      <4>2. QED  BY <4>1, <2>5, <2>7
    <3>3. QED  BY <3>1, <3>2
  <2>9. QED  BY <2>6, <2>8
<1>8. ClientOK(client[c])'
  <2>1. CASE \E error \in {"lost", "refused", "broken"} : Fails(c, error)
    BY <2>1 DEF Fails, ClientOK, Clients
  <2>2. CASE /\ code \in 200 .. 299
             /\ self.k = Calls(self.command)
             /\ Succeeds(c, self.command.verb, learnt, body)
    <3>1. client'[c].pc = "succeeded" /\ client'[c].learnt = learnt
          /\ client'[c].verb = self.command.verb
      BY <2>2 DEF Succeeds, Clients
    <3>2. self.command.verb = "demo" => \A i \in DOMAIN learnt : DoneAfter(learnt[i])
      <4>1. self.command.verb = "demo" => self.k = 9
        BY <1>3, <2>2
      <4> HIDE DEF self, learnt
      <4>2. QED
        BY <1>6, <1>7, <2>2, <4>1 DEF CreatedBefore, ReportedBefore
    <3> HIDE DEF learnt
    <3>3. Announced(client[c])'
      BY <1>6, <2>2, <3>1, <3>2 DEF Announced, Known, KnownAfter, Done, DoneAfter, Found
    <3>4. QED  BY <3>1, <3>3 DEF ClientOK
  <2>3. CASE /\ code \in 200 .. 299
             /\ self.k # Calls(self.command)
             /\ Sends(c, self.who, self.command, self.k + 1, learnt)
    <3>1. /\ client'[c].pc = "sent" /\ client'[c].learnt = learnt
          /\ client'[c].k = self.k + 1 /\ client'[c].command = self.command
          /\ client'[c].request = Call(self.command, self.k + 1, learnt)
      BY <2>3 DEF Sends, Clients
    <3>2. self.k + 1 \in 1 .. Calls(self.command)
      BY <1>2, <1>3, <2>3
    <3> HIDE DEF learnt, self
    <3>3. Progress(client[c])'
      BY <1>2, <1>6, <1>7, <2>3, <3>1, <3>2
         DEF Progress, Known, KnownAfter, Done, DoneAfter, Found
    <3>4. QED  BY <3>1, <3>3 DEF ClientOK
  <2>4. code \in 200 .. 299 => Accepts(self.request, body) /\ Printable(self.command, body)
    BY <1>1, DecodedIsPrintable DEF Fits, Req
  <2>5. QED  BY <2>1, <2>2, <2>3, <2>4 DEF Answer, Asks
<1>9. QED  BY <1>4, <1>5, <1>8 DEF Clients

----------------------------------------------------------------------------
(* Handlers.                                                                *)

\* A step that writes nothing.
Unwritten == UNCHANGED <<db, sent, issued, forgotten, restarts>>

\* The client is answered what fits.
Answered(c) == \E code, body : Answer(c, code, body) /\ Fits(c, code, body)

\* An error that is thrown before anything is written.
LEMMA Rejected ==
    ASSUME NEW c, NEW error \in KnownErrors \cup {"Error"}, Rejects(c, error)
    PROVE  Answered(c) /\ Unwritten
<1>1. statusCode(error) \in {400, 403, 404, 500}
  BY DEF statusCode, KnownErrors
<1>2. statusCode(error) \notin 200 .. 299
  BY <1>1
<1>3. Fits(c, statusCode(error), Empty)
  BY <1>2 DEF Fits
<1>4. QED  BY <1>3 DEF Rejects, Answered, Unwritten

\* Handlers that read answer what decodes, because every row does.
LEMMA RowsDecode ==
    ASSUME Rows, NEW kind \in Kinds
    PROVE  /\ \A key \in Key(kind) : Found(kind, key) => EntityType(kind, One(kind, key))
           /\ \A keys \in SUBSET Key(kind) :
                 ArrayOf(LAMBDA e : EntityType(kind, e), All(kind, keys))
<1>1. \A key \in Key(kind) : Found(kind, key) => EntityType(kind, One(kind, key))
  BY DEF Rows, RowOK, One
<1>2. ASSUME NEW keys \in SUBSET Key(kind)
      PROVE  ArrayOf(LAMBDA e : EntityType(kind, e), All(kind, keys))
  <2>1. /\ All(kind, keys).is = "array"
        /\ DOMAIN All(kind, keys).of = {n \in keys : Found(kind, n)}
        /\ \A n \in keys : Found(kind, n) => All(kind, keys).of[n] = One(kind, n)
    BY DEF All, Arr
  <2>2. QED  BY <2>1, <1>1 DEF ArrayOf
<1>3. QED  BY <1>1, <1>2

LEMMA ConnectAnswers ==
    ASSUME NEW c, GetConnect(c)
    PROVE  Answered(c) /\ Unwritten
<1> DEFINE info == IF AuthMode = "none"
                   THEN Obj([type |-> Str("unauthenticated")])
                   ELSE Obj([type |-> Str("aad"), clientId |-> Str("cli"),
                             authority |-> Str("tenant"), scopes |-> Arr(<<Str("scope")>>)])
<1>1. Req(c).of = "connect" /\ Req(c).method = "ONE" /\ Reads(c, info)
  BY DEF GetConnect, Routed
<1>2. ClientConnectionInfoType(info)
  <2>1. AuthMode = "none" => info.is = "object" /\ info.of = [type |-> Str("unauthenticated")]
    BY DEF Obj
  <2>2. AuthMode # "none" =>
           /\ info.is = "object"
           /\ info.of = [type |-> Str("aad"), clientId |-> Str("cli"),
                         authority |-> Str("tenant"), scopes |-> Arr(<<Str("scope")>>)]
    BY DEF Obj
  <2>3. Strings(Arr(<<Str("scope")>>))
    BY DEF Strings, ArrayOf, Arr, IsString, Str
  <2>4. \A s : IsString(Str(s)) /\ Literal(Str(s), s)
    BY DEF IsString, Literal, Str
  <2> HIDE DEF info
  <2>5. QED  BY <2>1, <2>2, <2>3, <2>4 DEF ClientConnectionInfoType, Has
<1> HIDE DEF info
<1>3. Fits(c, 200, info)
  <2>1. Accepts(Req(c), info)
    BY <1>1, <1>2 DEF Accepts, Kinds
  <2>2. QED  BY <1>1, <2>1 DEF Fits, Asks
<1>4. QED  BY <1>1, <1>3 DEF Reads, Answered, Unwritten

LEMMA ReadersAnswer ==
    ASSUME Rows, NEW c, 
           \/ Unauthorized(c) \/ GetValidate(c) \/ GetResults(c) \/ DatabaseFails(c)
           \/ \E kind \in {"benchmark", "candidate", "suite", "run"} : GetAll(c, kind) \/ GetOne(c, kind)
    PROVE  Answered(c) /\ Unwritten
<1>1. CASE Unauthorized(c)
  <2>1. CASE Rejects(c, "ForbiddenError")
    BY <2>1, Rejected DEF KnownErrors
  <2>2. CASE Answer(c, 401, Empty) /\ Unwritten
    <3>1. 401 \notin 200 .. 299
      OBVIOUS
    <3>2. Fits(c, 401, Empty)
      BY <3>1 DEF Fits
    <3>3. QED  BY <2>2, <3>2 DEF Answered
  <2>3. QED  BY <1>1, <2>1, <2>2 DEF Unauthorized, Unwritten
<1>2. CASE GetValidate(c)
  <2>1. Req(c).method = "ONE" /\ Req(c).of = "validate" /\ Reads(c, Empty)
    BY <1>2 DEF GetValidate, Routed
  <2>2. Accepts(Req(c), Empty)
    BY <2>1 DEF Accepts, Kinds
  <2>3. Fits(c, 200, Empty)
    BY <2>1, <2>2 DEF Fits, Asks
  <2>4. QED  BY <2>1, <2>3 DEF Reads, Answered, Unwritten
<1>3. CASE DatabaseFails(c)
  BY <1>3, Rejected DEF DatabaseFails
<1>4. CASE GetResults(c)
  <2>1. CASE Rejects(c, "ValidationError")
    BY <2>1, Rejected DEF KnownErrors
  <2>2. ASSUME NEW keys \in SUBSET RunName, Reads(c, All("result", keys))
        PROVE  Answered(c) /\ Unwritten
    <3>1. Req(c).method = "ALL" /\ Req(c).of = "result"
      BY <1>4 DEF GetResults, Routed
    <3>2. ArrayOf(LAMBDA e : EntityType("result", e), All("result", keys))
      BY RowsDecode DEF Kinds, Key
    <3>3. Fits(c, 200, All("result", keys))
      BY <3>1, <3>2 DEF Fits, Accepts, Asks, Kinds
    <3>4. QED  BY <2>2, <3>3 DEF Reads, Answered, Unwritten
  <2>3. QED  BY <1>4, <2>1, <2>2 DEF GetResults
<1>5. ASSUME NEW kind \in {"benchmark", "candidate", "suite", "run"}, GetAll(c, kind)
      PROVE  Answered(c) /\ Unwritten
  <2>1. Req(c).method = "ALL" /\ Req(c).of = kind /\ Reads(c, All(kind, Key(kind)))
    BY <1>5 DEF GetAll, Routed
  <2>2. ArrayOf(LAMBDA e : EntityType(kind, e), All(kind, Key(kind)))
    <3>1. kind \in Kinds /\ Key(kind) \in SUBSET Key(kind)
      BY DEF Kinds
    <3>2. QED  BY <3>1, RowsDecode
  <2>3. Fits(c, 200, All(kind, Key(kind)))
    BY <2>1, <2>2 DEF Fits, Accepts, Asks, Kinds
  <2>4. QED  BY <2>1, <2>3 DEF Reads, Answered, Unwritten
<1>6. ASSUME NEW kind \in {"benchmark", "candidate", "suite", "run"}, GetOne(c, kind)
      PROVE  Answered(c) /\ Unwritten
  <2> DEFINE name == RouteName(kind, Req(c).name)
  <2>1. CASE \E error \in {"IllegalOperationError", "EntityNotFoundError"} : Rejects(c, error)
    BY <2>1, Rejected DEF KnownErrors
  <2>2. CASE name # Invalid /\ Found(kind, name) /\ Reads(c, One(kind, name))
    <3>1. Req(c).method = "ONE" /\ Req(c).of = kind
      BY <1>6 DEF GetOne, Routed
    <3>2. name \in Key(kind)
      BY <2>2, NormalNames DEF RouteName, Key
    <3>3. EntityType(kind, One(kind, name))
      BY <2>2, <3>2, RowsDecode DEF Kinds
    <3>4. Fits(c, 200, One(kind, name))
      BY <3>1, <3>3 DEF Fits, Accepts, Asks, Kinds
    <3>5. QED  BY <2>2, <3>4 DEF Reads, Answered, Unwritten
  <2>3. QED  BY <1>6, <2>1, <2>2 DEF GetOne
<1>7. QED  BY <1>1, <1>2, <1>3, <1>4, <1>5, <1>6

\* A step that has written, and answers with what it wrote or with a failure.
WroteAnswered(c) ==
    \E code, body :
        code \in 200 .. 299 \cup {500} /\ Answer(c, code, body) /\ Fits(c, code, body)

LEMMA WroteFits ==
    ASSUME NEW c, NEW code \in 200 .. 299, NEW body, Wrote(c, code, body), Fits(c, code, body)
    PROVE  WroteAnswered(c)
<1>1. statusCode("Error") = 500 /\ 500 \notin 200 .. 299
  BY DEF statusCode, KnownErrors
<1>2. Fits(c, 500, Empty)
  BY <1>1 DEF Fits
<1>3. QED  BY <1>1, <1>2 DEF Wrote, WroteAnswered

LEMMA RowIsThere ==
    ASSUME NEW kind \in Kinds, NEW key, NEW row, RowOK(kind, key, row)
    PROVE  row # NoRow
<1> DEFINE json == AsJson(kind, row)
<1>1. EntityBaseType(json)
  BY DEF RowOK, EntityType, Kinds, BenchmarkType, CandidateType, SuiteType, RunType, ResultType
<1>2. "author" \in StringColumns(kind)
  BY DEF StringColumns
<1>3. \A f \in StringColumns(kind) \ DOMAIN row : ~IsString(json.of[f])
  BY JsonOfRow
<1> HIDE DEF json
<1>4. "author" \in DOMAIN row
  BY <1>1, <1>2, <1>3 DEF EntityBaseType, Has
<1>5. QED  BY <1>4 DEF NoRow

\* Writing one row.
LEMMA OneRow ==
    ASSUME Tables, Rows, NEW kind \in Kinds, NEW key \in Key(kind), NEW row,
           RowOK(kind, key, row), db' = [db EXCEPT ![kind][key] = row]
    PROVE  /\ Tables' /\ Rows'
           /\ row # NoRow
           /\ db'[kind][key] = row
           /\ \A k \in Kinds : \A n \in Key(k) : k # kind \/ n # key => db'[k][n] = db[k][n]
<1>1. Tables'
  BY DEF Tables
<1>2. /\ db'[kind][key] = row
      /\ \A k \in Kinds : \A n \in Key(k) : k # kind \/ n # key => db'[k][n] = db[k][n]
  BY DEF Tables
<1>3. Rows'
  <2>1. ASSUME NEW k \in Kinds, NEW n \in Key(k), db'[k][n] # NoRow
        PROVE  RowOK(k, n, db'[k][n])
    <3>1. CASE k = kind /\ n = key
      BY <3>1, <1>2
    <3>2. CASE k # kind \/ n # key
      BY <3>2, <1>2, <2>1 DEF Rows, Found
    <3>3. QED  BY <3>1, <3>2
  <2>2. QED  BY <2>1 DEF Rows, Found
<1>4. QED  BY <1>1, <1>2, <1>3, RowIsThere

\* What a PUT writes, if anything.
LEMMA PutWrites ==
    ASSUME Rows, NEW kind \in {"benchmark", "candidate", "suite"}, NEW body,
           EntityType(kind, body), Acceptable(kind, body)
    PROVE  LET name == Normalized(kind, body).of["name"].of IN
           /\ name = normalizeName(body.of["name"].of)
           /\ name \in Name
           /\ RowOK(kind, name, Upserted(kind, db[kind][name], Normalized(kind, body)))
<1> DEFINE entity == Normalized(kind, body)
           name == entity.of["name"].of
           old == db[kind][name]
           row == Upserted(kind, old, entity)
<1>1. "name" \in DOMAIN body.of /\ (kind # "benchmark" => "benchmark" \in DOMAIN body.of)
  BY DEF EntityType, BenchmarkType, CandidateType, SuiteType, EntityBaseType, Has
<1>2. /\ entity.of["name"] = Str(normalizeName(body.of["name"].of))
      /\ kind # "benchmark" =>
            entity.of["benchmark"] = Str(normalizeName(body.of["benchmark"].of))
  BY <1>1, NormalizedBody
<1>3. name = normalizeName(body.of["name"].of)
  BY <1>2 DEF Str
<1>4. name \in Name /\ (kind # "benchmark" => normalizeName(body.of["benchmark"].of) \in Name)
  <2>1. normalizeName(body.of["name"].of) # Invalid
    BY <1>2 DEF Acceptable
  <2>2. kind # "benchmark" => normalizeName(body.of["benchmark"].of) # Invalid
    BY <1>2 DEF Acceptable
  <2>3. QED  BY <1>3, <2>1, <2>2, NormalNames
<1>5. old # NoRow => DOMAIN old \subseteq Columns(kind) /\ EntityType(kind, AsJson(kind, old))
  BY <1>4 DEF Rows, Found, RowOK, Kinds, Key
<1>6. /\ DOMAIN row \subseteq Columns(kind)
      /\ row["name"] = Str(normalizeName(body.of["name"].of))
      /\ kind # "benchmark" => row["benchmark"] = Str(normalizeName(body.of["benchmark"].of))
      /\ EntityType(kind, AsJson(kind, row))
  <2> HIDE DEF old
  <2>1. QED  BY <1>5, PutRow
<1>7. RowOK(kind, name, row)
  <2> HIDE DEF row, name
  <2>1. QED  BY <1>3, <1>4, <1>6 DEF RowOK
<1>8. QED  BY <1>3, <1>4, <1>7

\* The invariant but for the clients, after a step that keeps what they know.
Preserves == Tables' /\ Rows' /\ Issued' /\ ResultsHaveRuns' /\ Keeps

LEMMA NothingWritten ==
    ASSUME Tables, Rows, Issued, ResultsHaveRuns, Unwritten
    PROVE  Preserves
  BY DEF Unwritten, Preserves, Tables, Rows, Issued, ResultsHaveRuns, Keeps, Found,
         Known, KnownAfter, Done, DoneAfter

\* Tables other than those of runs and results do not matter to either.
LEMMA OtherTables ==
    ASSUME Issued, ResultsHaveRuns, Tables', Rows', UNCHANGED <<sent, issued, forgotten>>,
           \A n \in RunName : db'["run"][n] = db["run"][n] /\ db'["result"][n] = db["result"][n]
    PROVE  Preserves
  BY DEF Preserves, Issued, ResultsHaveRuns, Keeps, Found, Known, KnownAfter, Done, DoneAfter

LEMMA PutHandled ==
    ASSUME Tables, Rows, Issued, ResultsHaveRuns, NEW c,
           NEW kind \in {"benchmark", "candidate", "suite"}, Put(c, kind)
    PROVE  \/ Answered(c) /\ Unwritten
           \/ WroteAnswered(c) /\ Preserves
<1> DEFINE body == Req(c).body
           entity == Normalized(kind, body)
           name == entity.of["name"].of
           row == Upserted(kind, db[kind][name], entity)
<1>1. CASE \E error \in {"ValidationError", "IllegalOperationError"} : Rejects(c, error)
  BY <1>1, Rejected DEF KnownErrors
<1>2. CASE /\ EntityType(kind, body) /\ Acceptable(kind, body)
           /\ db' = [db EXCEPT ![kind][name] = Upserted(kind, @, entity)]
           /\ Wrote(c, 200, AsJson(kind, db'[kind][name]))
           /\ UNCHANGED <<sent, issued, forgotten, restarts>>
  <2>1. name \in Name /\ RowOK(kind, name, row)
    BY <1>2, PutWrites
  <2>2. kind \in Kinds /\ name \in Key(kind)
    BY <2>1 DEF Kinds, Key
  <2>3. db' = [db EXCEPT ![kind][name] = row]
    BY <1>2, <2>2 DEF Tables
  <2> HIDE DEF row, name
  <2>4. /\ Tables' /\ Rows'
        /\ \A n \in RunName : db'["run"][n] = db["run"][n] /\ db'["result"][n] = db["result"][n]
    <3>1. /\ Tables' /\ Rows'
          /\ \A k \in Kinds : \A n \in Key(k) : k # kind \/ n # name => db'[k][n] = db[k][n]
      BY <2>1, <2>2, <2>3, OneRow
    <3>2. QED  BY <3>1 DEF Kinds, Key
  <2>5. Preserves
    BY <1>2, <2>4, OtherTables
  <2>6. Req(c).method = "PUT" /\ Req(c).of = kind
    BY DEF Put, Routed
  <2>7. \A answer : Accepts(Req(c), answer)
    BY <2>6 DEF Accepts
  <2>8. \A answer : Fits(c, 200, answer)
    BY <2>6, <2>7 DEF Fits, Asks
  <2>9. QED  BY <1>2, <2>5, <2>8, WroteFits
<1>3. QED  BY <1>1, <1>2 DEF Put

LEMMA PostRunHandled ==
    ASSUME Tables, Rows, Issued, ResultsHaveRuns, NEW c, PostRun(c)
    PROVE  \/ Answered(c) /\ Unwritten
           \/ WroteAnswered(c) /\ Preserves
<1> DEFINE body == Req(c).body
           candidate == normalizeName(body.of["candidate"].of)
           suite == normalizeName(body.of["suite"].of)
           row(n) == Upserted("run", NoRow, NewRun(n, candidate, suite))
<1>1. CASE \E error \in {"ValidationError", "IllegalOperationError"} : Rejects(c, error)
  BY <1>1, Rejected DEF KnownErrors
<1>2. ASSUME Runnable(candidate, suite), NEW name \in RunName \ issued,
             issued' = issued \cup {name},
             db' = [db EXCEPT !["run"][name] = row(name)],
             \/ sent' = sent \cup {name} /\ Answer(c, 202, AsJson("run", db'["run"][name]))
             \/ UNCHANGED sent /\ Answer(c, statusCode("Error"), Empty),
             UNCHANGED forgotten
      PROVE  WroteAnswered(c) /\ Preserves
  <2>1. candidate \in Name /\ suite \in Name
    BY <1>2, NormalNames DEF Runnable
  <2>2. RowOK("run", name, row(name))
    <3> HIDE DEF candidate, suite
    <3>1. QED  BY <1>2, <2>1, RunRow
  <2> HIDE DEF row, candidate, suite
  <2>3. /\ Tables' /\ Rows'
        /\ row(name) # NoRow /\ db'["run"][name] = row(name)
        /\ \A n \in RunName : db'["result"][n] = db["result"][n]
        /\ \A n \in RunName \ {name} : db'["run"][n] = db["run"][n]
    <3>1. "run" \in Kinds /\ name \in Key("run")
      BY DEF Kinds, Key
    <3>2. /\ Tables' /\ Rows'
          /\ row(name) # NoRow /\ db'["run"][name] = row(name)
          /\ \A k \in Kinds : \A n \in Key(k) : k # "run" \/ n # name => db'[k][n] = db[k][n]
      BY <1>2, <2>2, <3>1, OneRow
    <3>3. QED  BY <3>2 DEF Kinds, Key
  <2>4. db["run"][name] = NoRow /\ db["result"][name] = NoRow
    BY DEF Issued, ResultsHaveRuns, Found
  <2>5. Issued' /\ sent \subseteq sent'
    <3>1. \A n \in RunName : db'["run"][n] # NoRow => n \in issued'
      BY <1>2, <2>3 DEF Issued, Found
    <3>2. sent' \subseteq issued' /\ forgotten' \subseteq issued' /\ sent \subseteq sent'
      BY <1>2 DEF Issued
    <3>3. QED  BY <3>1, <3>2 DEF Issued, Found
  <2>6. ResultsHaveRuns'
    BY <2>3, <2>4 DEF ResultsHaveRuns, Found
  <2>7. Keeps
    BY <1>2, <2>3, <2>4, <2>5 DEF Keeps, Known, KnownAfter, Done, DoneAfter, Found
  <2>8. Preserves
    BY <2>3, <2>5, <2>6, <2>7 DEF Preserves
  <2>9. Asks(Req(c), "POST", "run")
    BY DEF PostRun, Routed, Asks
  <2>10. CASE sent' = sent \cup {name} /\ Answer(c, 202, AsJson("run", db'["run"][name]))
    <3> DEFINE answer == AsJson("run", row(name))
    <3>1. RunType(answer) /\ answer.of["name"] = Str(name)
      <4>1. RunType(answer) /\ row(name)["name"] = Str(name)
        BY <2>2 DEF RowOK, EntityType
      <4>2. "name" \in DOMAIN row(name) => answer.of["name"] = row(name)["name"]
        BY JsonOfRow
      <4>3. "name" \in StringColumns("run")
        BY DEF StringColumns
      <4>4. "name" \in StringColumns("run") \ DOMAIN row(name) => ~IsString(answer.of["name"])
        BY JsonOfRow
      <4> HIDE DEF answer
      <4>5. IsString(answer.of["name"])
        BY <4>1 DEF RunType, EntityBaseType, Has
      <4>6. QED  BY <4>1, <4>2, <4>3, <4>4, <4>5
    <3> HIDE DEF answer
    <3>2. Accepts(Req(c), answer)
      BY <2>9, <3>1 DEF Accepts, Asks
    <3>3. KnownAfter(name)
      BY <2>3, <2>10 DEF KnownAfter
    <3>4. answer.of["name"].of = name
      BY <3>1 DEF Str
    <3>5. Fits(c, 202, answer)
      BY <2>9, <3>2, <3>3, <3>4 DEF Fits, Asks
    <3>6. Answer(c, 202, answer)
      BY <2>3, <2>10 DEF answer
    <3>7. WroteAnswered(c)
      BY <3>5, <3>6 DEF WroteAnswered
    <3>8. QED  BY <2>8, <3>7
  <2>11. CASE Answer(c, statusCode("Error"), Empty)
    <3>1. statusCode("Error") = 500
      BY DEF statusCode, KnownErrors
    <3>2. 500 \notin 200 .. 299
      OBVIOUS
    <3>3. Fits(c, 500, Empty)
      BY <3>2 DEF Fits
    <3>4. WroteAnswered(c)
      BY <2>11, <3>1, <3>3 DEF WroteAnswered
    <3>5. QED  BY <2>8, <3>4
  <2>12. QED  BY <1>2, <2>10, <2>11
<1>3. QED  BY <1>1, <1>2 DEF PostRun

LEMMA PatchRunHandled ==
    ASSUME Tables, Rows, Issued, ResultsHaveRuns, NEW c, PatchRun(c)
    PROVE  \/ Answered(c) /\ Unwritten
           \/ WroteAnswered(c) /\ Preserves
<1> DEFINE body == Req(c).body
           name == normalizeRunName(Req(c).name)
           old == db["run"][name]
           row == Over([status |-> body.of["status"]], Over(Touched, old))
<1>1. CASE \E error \in {"ValidationError", "IllegalOperationError", "EntityNotFoundError"} :
              Rejects(c, error)
  BY <1>1, Rejected DEF KnownErrors
<1>2. CASE /\ UpdateRunStatusType(body) /\ name # Invalid /\ Found("run", name)
           /\ db' = [db EXCEPT !["run"][name] =
                        Over([status |-> body.of["status"]], Over(Touched, @))]
           /\ Wrote(c, 204, Empty)
           /\ UNCHANGED <<sent, issued, forgotten, restarts>>
  <2>1. name \in RunName /\ RunStatusType(body.of["status"])
    BY <1>2, NormalNames DEF UpdateRunStatusType, Has
  <2>2. "run" \in Kinds /\ name \in Key("run")
    BY <2>1 DEF Kinds, Key
  <2>3. RowOK("run", name, old)
    BY <1>2, <2>2 DEF Rows
  <2>4. /\ RowOK("run", name, row)
        /\ row["benchmark"] = old["benchmark"] /\ row["suite"] = old["suite"]
    <3> DEFINE status == body.of["status"]
    <3> HIDE DEF old, status, name
    <3>1. QED  BY <2>1, <2>3, PatchedRow DEF status
  <2>5. db' = [db EXCEPT !["run"][name] = row]
    BY <1>2, <2>2 DEF Tables
  <2> HIDE DEF row, name
  <2>6. /\ Tables' /\ Rows'
        /\ row # NoRow /\ db'["run"][name] = row
        /\ \A n \in RunName : db'["result"][n] = db["result"][n]
        /\ \A n \in RunName \ {name} : db'["run"][n] = db["run"][n]
    <3>0. RowOK("run", name, row)
      BY <2>4
    <3> HIDE DEF old
    <3>1. /\ Tables' /\ Rows'
          /\ row # NoRow /\ db'["run"][name] = row
          /\ \A k \in Kinds : \A n \in Key(k) : k # "run" \/ n # name => db'[k][n] = db[k][n]
      BY <2>2, <2>5, <3>0, OneRow
    <3>2. QED  BY <3>1 DEF Kinds, Key
  <2>7. Issued' /\ ResultsHaveRuns'
    BY <1>2, <2>1, <2>4, <2>6 DEF Issued, ResultsHaveRuns, Found
  <2>8. Keeps
    BY <1>2, <2>1, <2>6 DEF Keeps, Known, KnownAfter, Done, DoneAfter, Found
  <2>9. Req(c).method = "PATCH" /\ Req(c).of = "run"
    BY DEF PatchRun, Routed
  <2>10. Accepts(Req(c), Empty)
    BY <2>9 DEF Accepts
  <2>11. Fits(c, 204, Empty)
    BY <2>9, <2>10 DEF Fits, Asks
  <2>12. WroteAnswered(c)
    BY <1>2, <2>11, WroteFits
  <2>13. QED  BY <2>6, <2>7, <2>8, <2>12 DEF Preserves
<1>3. QED  BY <1>1, <1>2 DEF PatchRun

\* The demo's results are of the run it has last created.
LEMMA PostResultsHandled ==
    ASSUME Tables, Rows, Issued, ResultsHaveRuns, Clients, NEW c \in Client, PostResults(c)
    PROVE  \/ Answered(c) /\ Unwritten
           \/ WroteAnswered(c) /\ Preserves
<1> DEFINE body == Req(c).body
           name == normalizeRunName(Req(c).name)
           row == Upserted("result", db["result"][name],
                           ResultOf(db["run"][name], body.of["measures"]))
<1>1. CASE \E error \in {"ValidationError", "IllegalOperationError", "EntityNotFoundError"} :
              Rejects(c, error)
  BY <1>1, Rejected DEF KnownErrors
<1>2. CASE /\ ReportRunResultsType(body) /\ name # Invalid /\ Found("run", name)
           /\ db' = [db EXCEPT !["result"][name] =
                        Upserted("result", @, ResultOf(db["run"][name], body.of["measures"]))]
           /\ Wrote(c, 204, Empty)
           /\ UNCHANGED <<sent, issued, forgotten, restarts>>
  <2>1. name \in RunName /\ IsObject(body.of["measures"])
    BY <1>2, NormalNames DEF ReportRunResultsType, MeasuresType, Has
  <2>2. "result" \in Kinds /\ name \in Key("result")
    BY <2>1 DEF Kinds, Key
  <2>3. /\ RowOK("result", name, row)
        /\ row["benchmark"] = db["run"][name]["benchmark"].of["name"]
        /\ row["suite"] = db["run"][name]["suite"].of["name"]
    <3> HIDE DEF name
    <3>1. QED  BY <1>2, <2>1, ResultRow
  <2>4. db' = [db EXCEPT !["result"][name] = row]
    BY <1>2, <2>2 DEF Tables
  <2> HIDE DEF row, name
  <2>5. /\ Tables' /\ Rows'
        /\ row # NoRow /\ db'["result"][name] = row
        /\ \A n \in RunName : db'["run"][n] = db["run"][n]
        /\ \A n \in RunName \ {name} : db'["result"][n] = db["result"][n]
    <3>1. RowOK("result", name, row)
      BY <2>3
    <3>2. /\ Tables' /\ Rows'
          /\ row # NoRow /\ db'["result"][name] = row
          /\ \A k \in Kinds : \A n \in Key(k) : k # "result" \/ n # name => db'[k][n] = db[k][n]
      BY <2>2, <2>4, <3>1, OneRow
    <3>3. QED  BY <3>2 DEF Kinds, Key
  <2>6. Issued'
    BY <1>2, <2>5 DEF Issued, Found
  <2>7. ResultsHaveRuns'
    BY <1>2, <2>3, <2>5 DEF ResultsHaveRuns, Found
  <2>8. Keeps
    BY <1>2, <2>1, <2>5 DEF Keeps, Known, KnownAfter, Done, DoneAfter, Found
  <2>9. Asks(Req(c), "POST", "result") /\ client[c].pc = "sent"
    BY DEF PostResults, Routed, Asks
  <2>10. Accepts(Req(c), Empty)
    BY <2>9 DEF Accepts, Asks
  <2>11. ASSUME client[c].command.verb = "demo"
         PROVE  DoneAfter(client[c].learnt[Len(client[c].learnt)])
    <3> DEFINE self == client[c]
               last == self.learnt[Len(self.learnt)]
    <3>1. Progress(self)
      BY <2>9 DEF Clients, ClientOK, Ready
    <3>2. /\ self.k \in 1 .. 9
          /\ self.request = DemoCall(self.k, self.learnt)
          /\ self.learnt \in Seq(RunName)
          /\ Len(self.learnt) = CreatedBefore(self.k)
      BY <2>11, <3>1 DEF Progress, Calls, Call
    <3>3. Asks(self.request, "POST", "result")
      BY <2>9 DEF Req
    <3> HIDE DEF self
    <3>4. self.k \in {6, 9} /\ self.request.name = normalizeRunName(last)
      <4>1. /\ Asks(DemoCall(self.k, self.learnt), "POST", "result") <=> self.k \in {6, 9}
            /\ self.k \in {6, 9} =>
                  DemoCall(self.k, self.learnt).name = normalizeRunName(last)
        BY <3>2, DemoCalls
      <4>2. QED  BY <3>2, <3>3, <4>1
    <3>5. last \in RunName
      <4>1. Len(self.learnt) \in {1, 2}
        BY <3>2, <3>4 DEF CreatedBefore
      <4>2. QED  BY <3>2, <4>1
    <3>6. name = last
      BY <3>4, <3>5, NormalNames DEF name, Req, self
    <3>7. QED  BY <2>5, <3>6 DEF DoneAfter, self
  <2>12. Fits(c, 204, Empty)
    BY <2>9, <2>10, <2>11 DEF Fits, Asks
  <2>13. WroteAnswered(c)
    BY <1>2, <2>12, WroteFits
  <2>14. QED  BY <2>5, <2>6, <2>7, <2>8, <2>13 DEF Preserves
<1>3. QED  BY <1>1, <1>2 DEF PostResults

\* Whatever the laboratory does for a request.
LEMMA ServeHandled ==
    ASSUME IInv, NEW c \in Client, Serve(c)
    PROVE  /\ client[c].pc = "sent"
           /\ Preserves
           /\ \/ Answered(c) /\ Unwritten
              \/ WroteAnswered(c)
<1> USE DEF IInv
<1>1. client[c].pc = "sent"
  BY DEF Serve, Unauthorized, GetConnect, GetValidate, GetResults, GetAll, GetOne, Put,
         PostRun, PatchRun, PostResults, DatabaseFails, Routed
<1>2. \/ Answered(c) /\ Unwritten
      \/ WroteAnswered(c) /\ Preserves
  <2>1. CASE GetConnect(c)
    BY <2>1, ConnectAnswers
  <2>2. CASE \/ Unauthorized(c) \/ GetValidate(c) \/ GetResults(c) \/ DatabaseFails(c)
             \/ \E kind \in {"benchmark", "candidate", "suite", "run"} :
                   GetAll(c, kind) \/ GetOne(c, kind)
    BY <2>2, ReadersAnswer
  <2>3. CASE \E kind \in {"benchmark", "candidate", "suite"} : Put(c, kind)
    BY <2>3, PutHandled
  <2>4. CASE PostRun(c)
    BY <2>4, PostRunHandled
  <2>5. CASE PatchRun(c)
    BY <2>5, PatchRunHandled
  <2>6. CASE PostResults(c)
    BY <2>6, PostResultsHandled
  <2>7. QED  BY <2>1, <2>2, <2>3, <2>4, <2>5, <2>6 DEF Serve
<1>3. QED  BY <1>1, <1>2, NothingWritten

----------------------------------------------------------------------------
(* The invariant.                                                           *)

LEMMA InitIInv == Init => IInv
<1> SUFFICES ASSUME Init  PROVE IInv
  OBVIOUS
<1>1. DOMAIN NoRow = {} /\ \A kind \in Kinds : \A key \in Key(kind) : ~Found(kind, key)
  BY DEF Init, EmptyDb, Found, NoRow
<1>2. Tables
  BY DEF Init, EmptyDb, Tables
<1>3. Rows /\ Issued /\ ResultsHaveRuns
  BY <1>1 DEF Init, Rows, Issued, ResultsHaveRuns, Kinds, Key
<1>4. Clients
  BY DEF Init, Clients, ClientOK
<1>5. QED  BY <1>2, <1>3, <1>4 DEF IInv

\* A restart of an in-memory database takes every run and every result, and
\* remembers the runs; that of another takes none.
LEMMA RestartPreserves ==
    ASSUME Tables, Rows, Issued, ResultsHaveRuns, Restart
    PROVE  Preserves
<1>1. CASE DatabaseMode # "inmemory"
  BY <1>1, NothingWritten DEF Restart, Preserves, Tables, Rows, Issued, ResultsHaveRuns, Keeps,
     Found, Known, KnownAfter, Done, DoneAfter
<1>2. CASE DatabaseMode = "inmemory"
  <2>1. /\ db' = EmptyDb
        /\ forgotten' = forgotten \cup {n \in RunName : Found("run", n)}
        /\ UNCHANGED <<sent, issued>>
    BY <1>2 DEF Restart
  <2>2. \A kind \in Kinds : \A key \in Key(kind) : db'[kind][key] = NoRow
    BY <2>1 DEF EmptyDb
  <2>3. Tables' /\ Rows'
    BY <2>1, <2>2 DEF EmptyDb, Tables, Rows, Found
  <2>4. \A n \in RunName : db'["run"][n] = NoRow /\ db'["result"][n] = NoRow
    BY <2>2 DEF Kinds, Key
  <2>5. Issued' /\ ResultsHaveRuns'
    BY <2>1, <2>4 DEF Issued, ResultsHaveRuns, Found
  <2>6. Keeps
    BY <2>1 DEF ResultsHaveRuns, Keeps, Known, KnownAfter, Done, DoneAfter
  <2>7. QED  BY <2>3, <2>5, <2>6 DEF Preserves
<1>3. QED  BY <1>1, <1>2

\* A client that starts has created no run and reported nothing.
LEMMA StartedClient ==
    ASSUME Clients, NEW c \in Client, NEW command, NEW who, Start(c, command, who)
    PROVE  ClientOK(client[c])'
<1>1. CASE Throws(command)
  BY <1>1 DEF Start, Fails, Clients, ClientOK
<1>2. CASE ~Throws(command)
  <2>1. /\ client'[c].pc = "sent" /\ client'[c].learnt = << >>
        /\ client'[c].k = 1 /\ client'[c].command = command
        /\ client'[c].request = Call(command, 1, << >>)
    BY <1>2 DEF Start, Sends, Clients
  <2>2. 1 \in 1 .. Calls(command)
    BY DEF Calls
  <2>3. CreatedBefore(1) = 0 /\ ReportedBefore(1) = 0
    BY DEF CreatedBefore, ReportedBefore
  <2>4. Progress(client[c])'
    BY <1>2, <2>1, <2>2, <2>3 DEF Progress
  <2>5. QED  BY <2>1, <2>4 DEF ClientOK
<1>3. QED  BY <1>1, <1>2

LEMMA NextIInv == IInv /\ [Next]_vars => IInv'
<1> SUFFICES ASSUME IInv, [Next]_vars  PROVE IInv'
  OBVIOUS
<1> USE DEF IInv
<1>1. ASSUME NEW c \in Client, Serve(c)
      PROVE  IInv'
  <2>1. /\ client[c].pc = "sent" /\ Preserves
        /\ Answered(c) \/ WroteAnswered(c)
    BY <1>1, ServeHandled
  <2>2. PICK code, body : Answer(c, code, body) /\ Fits(c, code, body)
    BY <2>1 DEF Answered, WroteAnswered
  <2>3. Clients'
    BY <2>1, <2>2, AnsweredClients DEF Preserves
  <2>4. QED  BY <2>1, <2>3 DEF Preserves
<1>2. ASSUME NEW c \in Client, UNCHANGED <<db, sent, issued, forgotten, restarts>>,
             \A d \in Client \ {c} : client'[d] = client[d],
             DOMAIN client' = Client, ClientOK(client[c])'
      PROVE  IInv'
  <2>1. Preserves
    BY <1>2, NothingWritten DEF Unwritten
  <2>2. \A d \in Client : ClientOK(client[d])'
    BY <1>2, <2>1, SameClient DEF Preserves, Clients
  <2>3. QED  BY <1>2, <2>1, <2>2 DEF Preserves, Clients
<1>3. ASSUME NEW c \in Client, NEW command, NEW who, Start(c, command, who)
      PROVE  IInv'
  <2>1. ClientOK(client[c])'
    BY <1>3, StartedClient
  <2>2. DOMAIN client' = Client /\ \A d \in Client \ {c} : client'[d] = client[d]
    BY <1>3 DEF Start, Fails, Sends, Clients
  <2>3. UNCHANGED <<db, sent, issued, forgotten, restarts>>
    BY <1>3 DEF Start
  <2>4. QED  BY <1>2, <2>1, <2>2, <2>3
<1>4. ASSUME NEW c \in Client, NoAnswer(c)
      PROVE  IInv'
  <2>1. ClientOK(client[c])'
    BY <1>4 DEF NoAnswer, Fails, Clients, ClientOK
  <2>2. DOMAIN client' = Client /\ \A d \in Client \ {c} : client'[d] = client[d]
    BY <1>4 DEF NoAnswer, Fails, Clients
  <2>3. QED  BY <1>2, <1>4, <2>1, <2>2 DEF NoAnswer
<1>5. CASE Restart
  <2>1. Preserves
    BY <1>5, RestartPreserves
  <2>2. DOMAIN client' = Client
    BY <1>5 DEF Restart
  <2>3. ASSUME NEW c \in Client
        PROVE  ClientOK(client[c])'
    <3>1. CASE client[c].pc = "sent"
      BY <1>5, <3>1 DEF Restart, ClientOK
    <3>2. CASE client[c].pc # "sent"
      <4>1. client'[c] = client[c] /\ ClientOK(client[c])
        BY <1>5, <3>2 DEF Restart, Clients
      <4>2. QED  BY <2>1, <4>1, SameClient DEF Preserves
    <3>3. QED  BY <3>1, <3>2
  <2>4. QED  BY <2>1, <2>2, <2>3 DEF Preserves, Clients
<1>6. CASE UNCHANGED vars
  <2>1. Preserves
    BY <1>6, NothingWritten DEF vars, Unwritten
  <2>2. \A c \in Client : ClientOK(client[c])'
    BY <1>6, <2>1, SameClient DEF Preserves, Clients, vars
  <2>3. DOMAIN client' = Client
    BY <1>6 DEF vars, Clients
  <2>4. QED  BY <2>1, <2>2, <2>3 DEF Preserves, Clients
<1>7. QED  BY <1>1, <1>3, <1>4, <1>5, <1>6 DEF Next

\* The invariant holds in every reachable state.
THEOREM Invariant == Spec => []IInv
<1>1. Init => IInv
  BY InitIInv
<1>2. IInv /\ [Next]_vars => IInv'
  BY NextIInv
<1>3. QED  BY <1>1, <1>2, PTL DEF Spec

----------------------------------------------------------------------------
(* What follows from it.                                                    *)

\* Rows are stored under the names they have, in the columns of their table, and
\* refer to others by normal names.
THEOREM TypeCorrect == Spec => []ServiceTypeOK
<1>1. IInv => ServiceTypeOK
  <2> SUFFICES ASSUME IInv  PROVE ServiceTypeOK
    OBVIOUS
  <2>1. ASSUME NEW kind \in Kinds, NEW key \in Key(kind), Found(kind, key)
        PROVE  /\ DOMAIN db[kind][key] \subseteq Columns(kind)
               /\ db[kind][key]["name"] = Str(key)
               /\ kind \in {"candidate", "suite", "result"} =>
                     db[kind][key]["benchmark"].of \in Name
    <3>1. RowOK(kind, key, db[kind][key])
      BY <2>1 DEF IInv, Rows
    <3>2. ASSUME kind \in {"candidate", "suite", "result"}
          PROVE  db[kind][key]["benchmark"].of \in Name
      <4>1. PICK b \in Name : db[kind][key]["benchmark"] = Str(b)
        BY <3>1, <3>2 DEF RowOK
      <4>2. QED  BY <4>1 DEF Str
    <3>3. QED  BY <3>1, <3>2 DEF RowOK
  <2>2. ASSUME NEW c \in Client
        PROVE  \/ client[c].pc \in {"ready", "failed"} /\ client[c] \in States
               \/ client[c].pc = "sent" /\ client[c].k \in 1 .. Calls(client[c].command)
               \/ client[c].pc = "succeeded"
    <3>1. ClientOK(client[c])
      BY DEF IInv, Clients
    <3>2. QED  BY <3>1 DEF ClientOK, Progress, States, Ready
  <2>3. QED  BY <2>1, <2>2 DEF IInv, Issued, ServiceTypeOK
<1>2. QED  BY <1>1, Invariant, PTL

\* Nothing the laboratory answers is rejected by its client's decoder, and
\* nothing that has passed it cannot be printed.
THEOREM Decodes == Spec => []AnswersDecode
<1>1. IInv => AnswersDecode
  BY DEF IInv, Clients, ClientOK, Ready, AnswersDecode
<1>2. QED  BY <1>1, Invariant, PTL

\* A result has its run, and names the benchmark and the suite of its snapshots.
THEOREM ResultsBelongToRuns == Spec => []ResultsHaveRuns
<1>1. IInv => ResultsHaveRuns
  BY DEF IInv
<1>2. QED  BY <1>1, Invariant, PTL

\* The runs a command has announced are registered and sent, and those of the demo
\* have results, unless a restart has forgotten them.
THEOREM AnnouncedIsSo == Spec => []AnnouncedRunsAreThere
<1>1. IInv => AnnouncedRunsAreThere
  <2> SUFFICES ASSUME IInv, NEW c \in Client, client[c].pc = "succeeded"
               PROVE  Announced(client[c])
    BY DEF AnnouncedRunsAreThere, Announced, Known, Done
  <2>1. QED  BY DEF IInv, Clients, ClientOK, Ready
<1>2. QED  BY <1>1, Invariant, PTL

\* An answer moves its client, and no other.
LEMMA AnswerMoves ==
    ASSUME Clients, NEW c \in Client, client[c].pc = "sent", NEW code, NEW body,
           Answer(c, code, body)
    PROVE  /\ client'[c] # client[c]
           /\ \A d \in Client \ {c} : client'[d] = client[d]
<1>1. client[c].k \in Nat
  BY DEF Clients, ClientOK, Ready, Progress
<1>2. CASE \E error : Fails(c, error)
  BY <1>2 DEF Fails, Clients
<1>3. CASE \E verb, learnt, answer : Succeeds(c, verb, learnt, answer)
  BY <1>3 DEF Succeeds, Clients
<1>4. CASE \E who, command, learnt : Sends(c, who, command, client[c].k + 1, learnt)
  <2>1. client'[c].k = client[c].k + 1 /\ \A d \in Client \ {c} : client'[d] = client[d]
    BY <1>4 DEF Sends, Clients
  <2>2. QED  BY <2>1, <1>1
<1>5. QED  BY <1>2, <1>3, <1>4 DEF Answer

\* A client that is told its request was refused, or that cannot make use of the
\* answer, has changed nothing by it: what has written answers what fits, or fails
\* without saying why.
THEOREM RefusalsHarmless == Spec => RefusalsWriteNothing
<1>1. ASSUME IInv, [Next]_vars, NEW c \in Client, client'[c] # client[c],
             client'[c].pc = "failed",
             client'[c].error \in {"thrown", "refused", "undecodable", "unprintable"}
      PROVE  UNCHANGED <<db, sent>>
  <2>1. ASSUME NEW d \in Client, Serve(d)
        PROVE  UNCHANGED <<db, sent>>
    <3>1. client[d].pc = "sent" /\ ((Answered(d) /\ Unwritten) \/ WroteAnswered(d))
      BY <1>1, <2>1, ServeHandled
    <3>2. CASE Unwritten
      BY <3>2 DEF Unwritten
    <3>3. CASE WroteAnswered(d)
      <4>1. PICK code, body : /\ code \in 200 .. 299 \cup {500}
                              /\ Answer(d, code, body) /\ Fits(d, code, body)
        BY <3>3 DEF WroteAnswered
      <4>2. d = c
        BY <1>1, <3>1, <4>1, AnswerMoves DEF IInv
      <4>3. Progress(client[c])
        BY <1>1, <3>1, <4>2 DEF IInv, Clients, ClientOK, Ready
      <4>4. code \in 200 .. 299 =>
               Accepts(client[c].request, body) /\ Printable(client[c].command, body)
        BY <4>1, <4>2, <4>3, DecodedIsPrintable DEF Fits, Req
      <4>5. code \notin 400 .. 499
        BY <4>1
      <4>6. \A error : Fails(c, error) => client'[c].error = error
        BY <1>1 DEF Fails, IInv, Clients
      <4>7. \/ \E error \in {"lost", "broken"} : Fails(c, error)
            \/ \E verb, learnt, answer : Succeeds(c, verb, learnt, answer)
            \/ \E who, command, k, learnt : Sends(c, who, command, k, learnt)
        BY <4>1, <4>2, <4>4, <4>5 DEF Answer
      <4>8. /\ \A verb, learnt, answer : ~Succeeds(c, verb, learnt, answer)
            /\ \A who, command, k, learnt : ~Sends(c, who, command, k, learnt)
        BY <1>1 DEF Succeeds, Sends, IInv, Clients
      <4>9. QED  BY <1>1, <4>6, <4>7, <4>8
    <3>4. QED  BY <3>1, <3>2, <3>3
  <2>2. CASE \E d \in Client : NoAnswer(d) \/ \E command, who : Start(d, command, who)
    BY <2>2 DEF NoAnswer, Start
  <2>3. CASE Restart
    BY <1>1, <2>3 DEF Restart, IInv, Clients
  <2>4. CASE UNCHANGED vars
    BY <2>4 DEF vars
  <2>5. QED  BY <1>1, <2>1, <2>2, <2>3, <2>4 DEF Next
<1>2. IInv /\ [Next]_vars =>
         [\A c \in Client :
             client'[c] # client[c] /\ client'[c].pc = "failed"
             /\ client'[c].error \in {"thrown", "refused", "undecodable", "unprintable"} =>
                 UNCHANGED <<db, sent>>]_vars
  BY <1>1
<1>3. QED  BY <1>2, Invariant, PTL DEF Spec, RefusalsWriteNothing

\* The runs `results' asks for: those that have results under the normal forms of
\* the two names.
Asked(command) ==
    {n \in RunName : /\ Found("result", n)
                     /\ db["result"][n]["benchmark"] = Str(normalizeName(command.benchmark))
                     /\ db["result"][n]["suite"] = Str(normalizeName(command.suite))}

\* `results' succeeds with the table of the runs it asks for.
LEMMA ResultsListed ==
    ASSUME IInv, [Next]_vars, NEW c \in Client,
           client[c].pc = "sent", client'[c].pc = "succeeded",
           client[c].command.verb = "results"
    PROVE  client'[c].listed = resultTable(All("result", Asked(client[c].command)))
<1> DEFINE self == client[c]
           command == self.command
           query == Req(c).body
<1>1. Progress(self) /\ DOMAIN client = Client
  BY DEF IInv, Clients, ClientOK, Ready
<1>2. Req(c) = ResultsQuery(command.benchmark, command.suite)
  BY <1>1 DEF Progress, Req, Call, resultsCall
<1>3. /\ Req(c).method = "ALL" /\ Req(c).of = "result"
      /\ query.is = "object"
      /\ query.of = [benchmark |-> Str(normalizeName(command.benchmark)),
                     suite |-> Str(normalizeName(command.suite))]
  <2> DEFINE names == [benchmark |-> Str(normalizeName(command.benchmark)),
                       suite |-> Str(normalizeName(command.suite))]
  <2>1. Req(c) = Request("ALL", "result", "", Obj(names))
    BY <1>2 DEF ResultsQuery
  <2>2. Obj(names).is = "object" /\ Obj(names).of = names
    BY DEF Obj
  <2> DEFINE o == Obj(names)
  <2> HIDE DEF names, o
  <2> DEFINE request == Request("ALL", "result", "", o)
  <2>3. request.method = "ALL" /\ request.of = "result" /\ request.body = o
    BY DEF Request
  <2>4. Req(c) = request
    BY <2>1 DEF o
  <2> HIDE DEF request
  <2>5. QED  BY <2>2, <2>3, <2>4 DEF names, o
<1>4. Has(query, "benchmark", IsString) /\ Has(query, "suite", IsString)
  <2>1. \A s : IsString(Str(s))
    BY DEF IsString, Str
  <2> HIDE DEF query, command
  <2>2. QED  BY <1>3, <2>1 DEF Has
<1>5. \A code, body : Answer(c, code, body) =>
         code \in 200 .. 299 /\ client'[c].listed = resultTable(body)
  <2> SUFFICES ASSUME NEW code, NEW body, Answer(c, code, body)
               PROVE  code \in 200 .. 299 /\ client'[c].listed = resultTable(body)
    OBVIOUS
  <2>1. \A error : ~Fails(c, error)
    BY <1>1 DEF Fails
  <2>2. \A who, k, learnt : ~Sends(c, who, command, k, learnt)
    BY <1>1 DEF Sends
  <2>3. code \in 200 .. 299 /\ \E learnt : Succeeds(c, "results", learnt, body)
    BY <2>1, <2>2 DEF Answer
  <2>4. QED  BY <1>1, <2>3 DEF Succeeds
<1>6. \A error \in KnownErrors \cup {"Error"} : ~Rejects(c, error)
  <2>1. \A error \in KnownErrors \cup {"Error"} : statusCode(error) \in {400, 403, 404, 500}
    BY DEF statusCode, KnownErrors
  <2>2. \A error \in KnownErrors \cup {"Error"} : statusCode(error) \notin 200 .. 299
    BY <2>1
  <2>3. QED  BY <1>5, <2>2 DEF Rejects
<1>7. Serve(c)
  <2>1. ASSUME NEW d \in Client, d # c, Serve(d)
        PROVE  FALSE
    <3>1. client[d].pc = "sent" /\ (Answered(d) \/ WroteAnswered(d))
      BY <2>1, ServeHandled
    <3>2. PICK code, body : Answer(d, code, body)
      BY <3>1 DEF Answered, WroteAnswered
    <3>3. client'[c] = client[c]
      BY <2>1, <3>1, <3>2, AnswerMoves DEF IInv
    <3>4. QED  BY <3>3
  <2>2. ASSUME NEW d \in Client, \/ NoAnswer(d) \/ \E cmd, who : Start(d, cmd, who)
        PROVE  FALSE
    <3>1. CASE d = c
      BY <1>1, <2>2, <3>1 DEF NoAnswer, Start, Fails, Ready
    <3>2. CASE d # c
      BY <1>1, <2>2, <3>2 DEF NoAnswer, Start, Fails, Sends
    <3>3. QED  BY <3>1, <3>2
  <2>3. ~Restart
    BY DEF Restart
  <2>4. ~UNCHANGED vars
    BY DEF vars
  <2>5. QED  BY <2>1, <2>2, <2>3, <2>4 DEF Next
<1>8. GetResults(c)
  <2>1. ~Unauthorized(c) /\ ~DatabaseFails(c)
    <3>1. 401 \notin 200 .. 299
      OBVIOUS
    <3>2. QED  BY <1>5, <1>6, <3>1 DEF Unauthorized, DatabaseFails, KnownErrors
  <2> HIDE DEF command, query
  <2>2. QED
    BY <1>3, <1>7, <2>1 DEF Serve, GetConnect, GetValidate, GetAll, GetOne, Put, PostRun,
       PatchRun, PostResults, Routed
<1>9. query.of["benchmark"] = Str(normalizeName(command.benchmark))
      /\ query.of["suite"] = Str(normalizeName(command.suite))
  <2> HIDE DEF query, command
  <2>1. QED  BY <1>3
<1>10. Reads(c, All("result", Asked(command)))
  <2> HIDE DEF command
  <2>1. QED  BY <1>4, <1>6, <1>8, <1>9 DEF GetResults, KnownErrors, Asked
<1>11. QED  BY <1>5, <1>10 DEF Reads

\* What the table of results has.
LEMMA TableOf ==
    ASSUME IInv, NEW keys \in SUBSET RunName, \A n \in keys : Found("result", n)
    PROVE  LET table == resultTable(All("result", keys))
               measures(n) == db["result"][n]["measures"].of
           IN  /\ DOMAIN table = keys
               /\ \A n \in keys :
                     /\ \A f \in DOMAIN measures(n) :
                           f \in Columns("result") \/ f \in DOMAIN table[n]
                     /\ \A f \in DOMAIN table[n] :
                           \/ f \in DOMAIN measures(n) /\ table[n][f] = measures(n)[f]
                           \/ /\ table[n][f] = Dashes
                              /\ f \in DOMAIN measures(n) => ~Truthy(measures(n)[f])
<1> DEFINE answer == All("result", keys)
           table == resultTable(answer)
           given(n) == answer.of[n].of["measures"].of
           columns == UNION {DOMAIN given(n) \ DOMAIN answer.of[n].of : n \in DOMAIN answer.of}
           measures(n) == db["result"][n]["measures"].of
<1>1. DOMAIN answer.of = keys /\ \A n \in keys : answer.of[n] = AsJson("result", db["result"][n])
  BY DEF All, Arr, One
<1>2. ASSUME NEW n \in keys
      PROVE  /\ DOMAIN answer.of[n].of \subseteq Columns("result")
             /\ given(n) = measures(n)
  <2> DEFINE row == db["result"][n]
             json == AsJson("result", row)
  <2>1. RowOK("result", n, row)
    BY DEF IInv, Rows, Kinds, Key
  <2>2. DOMAIN row \subseteq Columns("result") /\ ResultType(json)
    BY <2>1 DEF RowOK, EntityType
  <2>3. /\ DOMAIN json.of = DOMAIN row \cup StringColumns("result")
        /\ \A f \in DOMAIN row : json.of[f] = row[f]
    BY JsonOfRow
  <2>4. "measures" \notin StringColumns("result") /\ StringColumns("result") \subseteq Columns("result")
    BY DEF StringColumns, Columns
  <2> HIDE DEF json, row
  <2>5. "measures" \in DOMAIN json.of
    BY <2>2 DEF ResultType, Has
  <2>6. json.of["measures"] = row["measures"] /\ DOMAIN json.of \subseteq Columns("result")
    BY <2>2, <2>3, <2>4, <2>5
  <2>7. QED  BY <1>1, <2>6 DEF json, row
<1>3. table = [n \in DOMAIN answer.of |-> [col \in columns |->
                  IF col \in DOMAIN given(n) /\ Truthy(given(n)[col])
                  THEN given(n)[col] ELSE Dashes]]
  BY DEF resultTable
<1> HIDE DEF answer, table, given, measures
<1>4. DOMAIN table = keys
  BY <1>1, <1>3
<1>5. ASSUME NEW n \in keys
      PROVE  /\ \A f \in DOMAIN measures(n) : f \in Columns("result") \/ f \in DOMAIN table[n]
             /\ \A f \in DOMAIN table[n] :
                   \/ f \in DOMAIN measures(n) /\ table[n][f] = measures(n)[f]
                   \/ /\ table[n][f] = Dashes
                      /\ f \in DOMAIN measures(n) => ~Truthy(measures(n)[f])
  <2>1. DOMAIN table[n] = columns
    BY <1>1, <1>3
  <2>2. \A f \in DOMAIN measures(n) : f \in Columns("result") \/ f \in columns
    BY <1>1, <1>2
  <2> HIDE DEF columns
  <2>3. \A f \in columns :
           table[n][f] = IF f \in DOMAIN measures(n) /\ Truthy(measures(n)[f])
                         THEN measures(n)[f] ELSE Dashes
    BY <1>1, <1>2, <1>3
  <2>4. QED  BY <2>1, <2>2, <2>3
<1>6. QED  BY <1>4, <1>5 DEF table, measures, answer

\* `results' shows exactly the runs of the benchmark and the suite it names in
\* whatever spelling, with the measures each has reported.
THEOREM ResultsFound == Spec => ResultsFoundByAnySpelling
<1> DEFINE Shown(c) ==
              LET table == client'[c].listed
                  measures(n) == db["result"][n]["measures"].of
              IN
              /\ DOMAIN table = {n \in RunName :
                    /\ Found("run", n) /\ Found("result", n)
                    /\ db["run"][n]["benchmark"].of["name"].of
                          = normalizeName(client[c].command.benchmark)
                    /\ db["run"][n]["suite"].of["name"].of
                          = normalizeName(client[c].command.suite)}
              /\ \A n \in DOMAIN table :
                    /\ \A f \in DOMAIN measures(n) :
                          f \in Columns("result") \/ f \in DOMAIN table[n]
                    /\ \A f \in DOMAIN table[n] :
                          \/ f \in DOMAIN measures(n) /\ table[n][f] = measures(n)[f]
                          \/ /\ table[n][f] = Dashes
                             /\ f \in DOMAIN measures(n) => ~Truthy(measures(n)[f])
<1>1. ASSUME IInv, [Next]_vars, NEW c \in Client, client[c].pc = "sent",
             client'[c].pc = "succeeded", client[c].command.verb = "results"
      PROVE  Shown(c)
  <2> DEFINE command == client[c].command
             keys == Asked(command)
  <2>1. client'[c].listed = resultTable(All("result", keys))
    BY <1>1, ResultsListed
  <2>2. keys \in SUBSET RunName /\ \A n \in keys : Found("result", n)
    BY DEF Asked
  <2>3. keys = {n \in RunName :
                  /\ Found("run", n) /\ Found("result", n)
                  /\ db["run"][n]["benchmark"].of["name"].of = normalizeName(command.benchmark)
                  /\ db["run"][n]["suite"].of["name"].of = normalizeName(command.suite)}
    <3>1. ASSUME NEW n \in RunName, Found("result", n)
          PROVE  /\ Found("run", n)
                 /\ \E b, s : /\ db["run"][n]["benchmark"].of["name"] = Str(b)
                              /\ db["run"][n]["suite"].of["name"] = Str(s)
                              /\ db["result"][n]["benchmark"] = Str(b)
                              /\ db["result"][n]["suite"] = Str(s)
      <4>1. /\ Found("run", n)
            /\ db["result"][n]["benchmark"] = db["run"][n]["benchmark"].of["name"]
            /\ db["result"][n]["suite"] = db["run"][n]["suite"].of["name"]
        BY <1>1, <3>1 DEF IInv, ResultsHaveRuns
      <4>2. RowOK("run", n, db["run"][n])
        BY <1>1, <4>1 DEF IInv, Rows, Kinds, Key
      <4>3. QED  BY <4>1, <4>2 DEF RowOK
    <3>2. \A x, y : (Str(x) = Str(y) <=> x = y) /\ Str(x).of = x
      BY DEF Str
    <3> HIDE DEF command
    <3>3. QED  BY <3>1, <3>2 DEF Asked
  <2> HIDE DEF keys, command
  <2>4. /\ DOMAIN client'[c].listed = keys
        /\ \A n \in keys :
              LET table == client'[c].listed
                  measures(m) == db["result"][m]["measures"].of
              IN  /\ \A f \in DOMAIN measures(n) :
                        f \in Columns("result") \/ f \in DOMAIN table[n]
                  /\ \A f \in DOMAIN table[n] :
                        \/ f \in DOMAIN measures(n) /\ table[n][f] = measures(n)[f]
                        \/ /\ table[n][f] = Dashes
                           /\ f \in DOMAIN measures(n) => ~Truthy(measures(n)[f])
    BY <1>1, <2>1, <2>2, TableOf
  <2>5. QED  BY <2>3, <2>4 DEF command
<1>2. IInv /\ [Next]_vars =>
         [\A c \in Client :
            client[c].pc = "sent" /\ client'[c].pc = "succeeded"
            /\ client[c].command.verb = "results" => Shown(c)]_vars
  <2> HIDE DEF Shown
  <2>1. QED  BY <1>1
<1>3. QED  BY <1>2, Invariant, PTL DEF Spec, ResultsFoundByAnySpelling
=============================================================================
