-------------------------- MODULE LaboratoryProofs ---------------------------
(****************************************************************************)
(* Proofs about Laboratory, for any number of concurrent requests, names,   *)
(* runs, rows and either kind of database.                                  *)
(****************************************************************************)
EXTENDS Laboratory, TLAPS

USE DEF Idle, Reply, Continue, Confirmed, NamedRun

----------------------------------------------------------------------------
(* Continuations: the fields each has, and how each is made.                *)

\* The locals a suspended handler holds, by the await it is suspended at.
LEMMA ContinuationFields ==
    ASSUME NEW k \in Continuations
    PROVE  /\ k.pc = "upsertBenchmark" => k.raw \in RawName /\ k.row \in BenchmarkRow
           /\ k.pc \in {"findCandidateBenchmark", "upsertCandidate"}
                 => k.raw \in RawName /\ k.row \in CandidateRow
           /\ k.pc \in {"findSuiteBenchmark", "upsertSuite"}
                 => k.raw \in RawName /\ k.row \in SuiteRow
           /\ k.pc = "readBack"
                 => k.kind \in {"benchmark", "candidate", "suite"} /\ k.raw \in RawName
           /\ k.pc = "findCandidate" => k.candidateName \in Name /\ k.suiteName \in Name
           /\ k.pc = "findSuite" => k.candidate \in CandidateRow /\ k.suiteName \in Name
           /\ k.pc = "findBenchmark" => k.candidate \in CandidateRow /\ k.suite \in SuiteRow
           /\ k.pc \in {"createRun", "enqueue"} => k.run \in RunRow
           /\ k.pc \in {"findRunForStatus", "updateStatus"}
                 => k.name \in RunName /\ k.status \in Status
           /\ k.pc = "findRunForResults" => k.name \in RunName /\ k.measures \in Measures
           /\ k.pc = "upsertResult" => k.row \in ResultRow
           /\ k.pc = "replied" /\ k.code = 202 => k.run \in RunName
  BY DEF Continuations, Codes

----------------------------------------------------------------------------
(* Type correctness.                                                        *)

\* Normalization gives a row to be stored, or a name is invalid.
LEMMA NormalizedCandidate ==
    ASSUME NEW body \in CandidateBody
    PROVE  LET row == normalizeCandidate(body) IN
           Invalid \in {row.name, row.benchmark} \/ row \in CandidateRow
<1>1. body.name \in RawName /\ body.benchmark \in RawName /\ body.rev \in Rev
      BY LaboratoryAssumption
<1>2. Normal[body.name] \in Name \cup {Invalid} /\ Normal[body.benchmark] \in Name \cup {Invalid}
      BY <1>1, LaboratoryAssumption
<1> QED BY <1>1, <1>2 DEF normalizeCandidate, CandidateRow

\* The same for a suite.
LEMMA NormalizedSuite ==
    ASSUME NEW body \in SuiteBody
    PROVE  LET row == normalizeSuite(body) IN
           Invalid \in {row.name, row.benchmark} \/ row \in SuiteRow
<1>1. body.name \in RawName /\ body.benchmark \in RawName /\ body.rev \in Rev
      BY LaboratoryAssumption
<1>2. Normal[body.name] \in Name \cup {Invalid} /\ Normal[body.benchmark] \in Name \cup {Invalid}
      BY <1>1, LaboratoryAssumption
<1> QED BY <1>1, <1>2 DEF normalizeSuite, SuiteRow

\* What an upsert leaves in a table is a row of the table, under the same key and
\* for the same benchmark as the row written.
LEMMA UpsertedBenchmark ==
    ASSUME NEW old \in BenchmarkRow \cup {NoRow}, NEW row \in BenchmarkRow
    PROVE  /\ Upserted(old, row) \in BenchmarkRow
           /\ Upserted(old, row).name = row.name
           /\ Upserted(old, row) # NoRow
<1>1. CASE old = NoRow
      BY <1>1, RowAssumption DEF Upserted
<1>2. CASE old \in BenchmarkRow /\ old # NoRow
  <2>1. Overlay[old.rev][row.rev] \in Rev
        BY <1>2, OverlayAssumption DEF BenchmarkRow
  <2>2. Upserted(old, row) = [row EXCEPT !.rev = Overlay[old.rev][row.rev]]
        BY <1>2 DEF Upserted
  <2>3. Upserted(old, row) \in BenchmarkRow /\ Upserted(old, row).name = row.name
        BY <2>1, <2>2 DEF BenchmarkRow
  <2> QED BY <2>3, RowAssumption
<1> QED BY <1>1, <1>2

\* The same for candidates.
LEMMA UpsertedCandidate ==
    ASSUME NEW old \in CandidateRow \cup {NoRow}, NEW row \in CandidateRow
    PROVE  /\ Upserted(old, row) \in CandidateRow
           /\ Upserted(old, row).name = row.name
           /\ Upserted(old, row).benchmark = row.benchmark
           /\ Upserted(old, row) # NoRow
<1>1. CASE old = NoRow
      BY <1>1, RowAssumption DEF Upserted
<1>2. CASE old \in CandidateRow /\ old # NoRow
  <2>1. Overlay[old.rev][row.rev] \in Rev
        BY <1>2, OverlayAssumption DEF CandidateRow
  <2>2. Upserted(old, row) = [row EXCEPT !.rev = Overlay[old.rev][row.rev]]
        BY <1>2 DEF Upserted
  <2>3. /\ Upserted(old, row) \in CandidateRow
        /\ Upserted(old, row).name = row.name
        /\ Upserted(old, row).benchmark = row.benchmark
        BY <2>1, <2>2 DEF CandidateRow
  <2> QED BY <2>3, RowAssumption
<1> QED BY <1>1, <1>2

\* The same for suites.
LEMMA UpsertedSuite ==
    ASSUME NEW old \in SuiteRow \cup {NoRow}, NEW row \in SuiteRow
    PROVE  /\ Upserted(old, row) \in SuiteRow
           /\ Upserted(old, row).name = row.name
           /\ Upserted(old, row).benchmark = row.benchmark
           /\ Upserted(old, row) # NoRow
<1>1. CASE old = NoRow
      BY <1>1, RowAssumption DEF Upserted
<1>2. CASE old \in SuiteRow /\ old # NoRow
  <2>1. Overlay[old.rev][row.rev] \in Rev
        BY <1>2, OverlayAssumption DEF SuiteRow
  <2>2. Upserted(old, row) = [row EXCEPT !.rev = Overlay[old.rev][row.rev]]
        BY <1>2 DEF Upserted
  <2>3. /\ Upserted(old, row) \in SuiteRow
        /\ Upserted(old, row).name = row.name
        /\ Upserted(old, row).benchmark = row.benchmark
        BY <2>1, <2>2 DEF SuiteRow
  <2> QED BY <2>3, RowAssumption
<1> QED BY <1>1, <1>2

\* The initial state is well typed.
LEMMA InitTypeOK == Init => TypeOK
  BY DEF Init, TypeOK, Continuations

\* One step per request, continuation or event of the environment.
LEMMA NextTypeOK == TypeOK /\ [Next]_vars => TypeOK'
<1> SUFFICES ASSUME TypeOK, [Next]_vars PROVE TypeOK'
    OBVIOUS
<1> USE LaboratoryAssumption, RowAssumption DEF TypeOK, tables, Codes
<1>1. ASSUME NEW h \in Handler, Request(h) PROVE TypeOK'
  <2>1. ASSUME NEW body \in BenchmarkBody, PutBenchmark(h, body) PROVE TypeOK'
        BY <2>1 DEF PutBenchmark, normalizeBenchmark, Continuations, BenchmarkRow
  <2>2. ASSUME NEW body \in CandidateBody, PutCandidate(h, body) PROVE TypeOK'
    <3> DEFINE row == normalizeCandidate(body)
    <3>1. Invalid \in {row.name, row.benchmark} \/ row \in CandidateRow
          BY NormalizedCandidate
    <3> HIDE DEF row
    <3>2. pending' = [pending EXCEPT ![h] =
                        IF Invalid \in {row.name, row.benchmark}
                        THEN Reply(400)
                        ELSE [pc |-> "findCandidateBenchmark", raw |-> body.name, row |-> row]]
          BY <2>2 DEF PutCandidate, row
    <3>3. body.name \in RawName
          OBVIOUS
    <3> QED BY <2>2, <3>1, <3>2, <3>3 DEF PutCandidate, Continuations
  <2>3. ASSUME NEW body \in SuiteBody, PutSuite(h, body) PROVE TypeOK'
    <3> DEFINE row == normalizeSuite(body)
    <3>1. Invalid \in {row.name, row.benchmark} \/ row \in SuiteRow
          BY NormalizedSuite
    <3> HIDE DEF row
    <3>2. pending' = [pending EXCEPT ![h] =
                        IF Invalid \in {row.name, row.benchmark}
                        THEN Reply(400)
                        ELSE [pc |-> "findSuiteBenchmark", raw |-> body.name, row |-> row]]
          BY <2>3 DEF PutSuite, row
    <3>3. body.name \in RawName
          OBVIOUS
    <3> QED BY <2>3, <3>1, <3>2, <3>3 DEF PutSuite, Continuations
  <2>4. ASSUME NEW body \in RunRequestBody, PostRun(h, body) PROVE TypeOK'
        BY <2>4 DEF PostRun, Continuations
  <2>5. ASSUME NEW raw \in RawRunName, NEW status \in Status, PatchRun(h, raw, status)
        PROVE  TypeOK'
        BY <2>5 DEF PatchRun, Continuations
  <2>6. ASSUME NEW raw \in RawRunName, NEW measures \in Measures,
               PostResults(h, raw, measures)
        PROVE  TypeOK'
        BY <2>6 DEF PostResults, Continuations
  <2> QED BY <1>1, <2>1, <2>2, <2>3, <2>4, <2>5, <2>6 DEF Request
<1>2. ASSUME NEW h \in Handler, Resume(h) PROVE TypeOK'
  <2> USE ContinuationFields
  <2>1. CASE UpsertBenchmark(h)
    <3> DEFINE row == pending[h].row
    <3>1. row \in BenchmarkRow /\ row.name \in Name
          BY <2>1 DEF UpsertBenchmark, BenchmarkRow
    <3>2. Upserted(benchmarks[row.name], row) \in BenchmarkRow
          BY <3>1, UpsertedBenchmark
    <3> QED BY <2>1, <3>1, <3>2, SMTT(30) DEF UpsertBenchmark, Continuations
  <2>2. CASE FindCandidateBenchmark(h)
        BY <2>2 DEF FindCandidateBenchmark, Continuations
  <2>3. CASE UpsertCandidate(h)
    <3> DEFINE row == pending[h].row
    <3>1. row \in CandidateRow /\ row.name \in Name /\ row.benchmark \in Name
          BY <2>3 DEF UpsertCandidate, CandidateRow
    <3>2. Upserted(candidates[row.name], row) \in CandidateRow
          BY <3>1, UpsertedCandidate
    <3> QED BY <2>3, <3>1, <3>2, SMTT(30) DEF UpsertCandidate, Continuations
  <2>4. CASE FindSuiteBenchmark(h)
        BY <2>4 DEF FindSuiteBenchmark, Continuations
  <2>5. CASE UpsertSuite(h)
    <3> DEFINE row == pending[h].row
    <3>1. row \in SuiteRow /\ row.name \in Name /\ row.benchmark \in Name
          BY <2>5 DEF UpsertSuite, SuiteRow
    <3>2. Upserted(suites[row.name], row) \in SuiteRow
          BY <3>1, UpsertedSuite
    <3> QED BY <2>5, <3>1, <3>2, SMTT(30) DEF UpsertSuite, Continuations
  <2>6. CASE ReadBack(h)
        BY <2>6 DEF ReadBack, Continuations
  <2>7. CASE FindCandidate(h)
        BY <2>7 DEF FindCandidate, Continuations
  <2>8. CASE FindSuite(h)
        BY <2>8 DEF FindSuite, Continuations
  <2>9. CASE FindBenchmark(h)
    <3> DEFINE candidate == pending[h].candidate
               suite == pending[h].suite
               benchmark == benchmarks[candidate.benchmark]
    <3>1. candidate \in CandidateRow /\ suite \in SuiteRow
          BY <2>9 DEF FindBenchmark
    <3>2. benchmark \in BenchmarkRow \cup {NoRow}
          BY <3>1 DEF CandidateRow
    <3>3. CASE benchmark = NoRow
          BY <2>9, <3>3 DEF FindBenchmark, Continuations
    <3>4. CASE benchmark # NoRow
      <4>1. PICK name \in RunName \ issued :
               /\ issued' = issued \cup {name}
               /\ pending' = [pending EXCEPT ![h] =
                                [pc |-> "createRun",
                                 run |-> [name |-> name, status |-> "created",
                                          benchmark |-> benchmark,
                                          candidate |-> candidate, suite |-> suite]]]
            BY <2>9, <3>4 DEF FindBenchmark
      <4> DEFINE run == [name |-> name, status |-> "created",
                         benchmark |-> benchmark,
                         candidate |-> candidate, suite |-> suite]
      <4>2. run \in RunRow
            BY <3>1, <3>2, <3>4 DEF RunRow
      <4>3. pending' \in [Handler -> Continuations]
            BY <4>1, <4>2 DEF Continuations
      <4> QED BY <2>9, <4>1, <4>3 DEF FindBenchmark
    <3> QED BY <3>3, <3>4
  <2>10. CASE CreateRun(h)
        BY <2>10 DEF CreateRun, Continuations, RunRow
  <2>11. CASE Enqueue(h)
        BY <2>11, SMTT(30) DEF Enqueue, Continuations, RunRow, RunMessage, createMessage
  <2>12. CASE FindRunForStatus(h)
        BY <2>12, SMTT(30) DEF FindRunForStatus, Continuations
  <2>13. CASE UpdateStatus(h)
        BY <2>13, SMTT(30) DEF UpdateStatus, Continuations, RunRow
  <2>14. CASE FindRunForResults(h)
    <3> DEFINE run == runs[pending[h].name]
               row == ResultOf(run, pending[h].measures)
    <3>1. run # NoRow => row \in ResultRow
          BY <2>14 DEF FindRunForResults, ResultOf, RunRow, ResultRow,
                       BenchmarkRow, CandidateRow, SuiteRow
    <3> HIDE DEF row
    <3>2. pending' = [pending EXCEPT ![h] =
                        IF run = NoRow THEN Reply(404)
                        ELSE [pc |-> "upsertResult", row |-> row]]
          BY <2>14 DEF FindRunForResults, row
    <3> QED BY <2>14, <3>1, <3>2 DEF FindRunForResults, Continuations
  <2>15. CASE UpsertResult(h)
        BY <2>15, SMTT(30) DEF UpsertResult, Continuations, ResultRow
  <2> QED BY <1>2, <2>1, <2>2, <2>3, <2>4, <2>5, <2>6, <2>7, <2>8, <2>9, <2>10,
             <2>11, <2>12, <2>13, <2>14, <2>15 DEF Resume
<1>3. ASSUME NEW h \in Handler, Fail(h) PROVE TypeOK'
      BY <1>3, ContinuationFields DEF Fail, Cut, Continuations, RunRow
<1>4. ASSUME NEW h \in Handler, Retire(h) PROVE TypeOK'
      BY <1>4 DEF Retire, Continuations
<1>5. CASE Crash
      BY <1>5, ContinuationFields DEF Crash, Cut, Continuations, RunRow
<1>6. CASE UNCHANGED vars
      BY <1>6 DEF vars
<1> QED BY <1>1, <1>2, <1>3, <1>4, <1>5, <1>6 DEF Next

\* In every reachable state the tables hold whole rows under normalized keys,
\* and a suspended handler holds the locals its next step reads.
THEOREM TypeCorrect == Spec => []TypeOK
  BY InitTypeOK, NextTypeOK, PTL DEF Spec

----------------------------------------------------------------------------
(* The inductive invariant.                                                 *)

\* Nothing is stored at first.
LEMMA InitIInv == Init => IInv
<1> SUFFICES ASSUME Init PROVE IInv
    OBVIOUS
<1>1. TypeOK
      BY InitTypeOK
<1>2. KeysOK /\ ReferencesResolve /\ RunsCoherent /\ MessagesHaveRuns /\ ResultsMatchRuns
      BY DEF Init, KeysOK, ReferencesResolve, RunsCoherent, MessagesHaveRuns,
             ResultsMatchRuns
<1>3. \A h \in Handler : CreateRunOK(h) /\ EnqueueOK(h) /\ ContinuationOK(pending[h])
      BY DEF Init, CreateRunOK, EnqueueOK, ContinuationOK
<1> QED BY <1>1, <1>2, <1>3 DEF IInv

\* A step that reads, or validates, or answers: the tables and the queue are as
\* before and one handler gets a continuation whose facts hold.
LEMMA QuietStep ==
    ASSUME IInv, TypeOK', UNCHANGED <<tables, sent, issued>>,
           NEW h \in Handler, NEW k,
           pending' = [pending EXCEPT ![h] = k],
           k.pc \notin {"createRun", "enqueue"},
           ContinuationOK(k)
    PROVE  IInv'
<1> USE DEF tables
<1>1. KeysOK' /\ ReferencesResolve' /\ RunsCoherent' /\ MessagesHaveRuns' /\ ResultsMatchRuns'
      BY DEF IInv, KeysOK, ReferencesResolve, RunsCoherent, MessagesHaveRuns,
             ResultsMatchRuns
<1>2. ASSUME NEW g \in Handler
      PROVE  CreateRunOK(g)' /\ EnqueueOK(g)' /\ ContinuationOK(pending[g])'
  <2>1. pending'[g] = IF g = h THEN k ELSE pending[g]
        BY DEF IInv, TypeOK
  <2>2. ContinuationOK(pending[g])'
        BY <2>1, ZenonT(30) DEF IInv, ContinuationOK, Stored
  <2>3. CreateRunOK(g)'
        BY <2>1 DEF IInv, TypeOK, CreateRunOK
  <2>4. EnqueueOK(g)'
        BY <2>1 DEF IInv, TypeOK, EnqueueOK
  <2> QED BY <2>2, <2>3, <2>4
<1> QED BY <1>1, <1>2 DEF IInv

\* Accepting a request, or refusing it at once.
LEMMA RequestIInv ==
    ASSUME IInv, TypeOK', NEW h \in Handler, Request(h)
    PROVE  IInv'
<1>1. ASSUME NEW body \in BenchmarkBody, PutBenchmark(h, body) PROVE IInv'
  <2> DEFINE row == normalizeBenchmark(body)
             k == IF row.name = Invalid THEN Reply(400)
                  ELSE [pc |-> "upsertBenchmark", raw |-> body.name, row |-> row]
  <2>1. UNCHANGED <<tables, sent, issued>> /\ pending' = [pending EXCEPT ![h] = k]
        BY <1>1 DEF PutBenchmark
  <2>2. ContinuationOK(k) /\ k.pc \notin {"createRun", "enqueue"}
        BY LaboratoryAssumption DEF ContinuationOK, normalizeBenchmark
  <2> HIDE DEF k
  <2> QED BY <2>1, <2>2, QuietStep
<1>2. ASSUME NEW body \in CandidateBody, PutCandidate(h, body) PROVE IInv'
  <2> DEFINE row == normalizeCandidate(body)
             k == IF Invalid \in {row.name, row.benchmark} THEN Reply(400)
                  ELSE [pc |-> "findCandidateBenchmark", raw |-> body.name, row |-> row]
  <2>1. UNCHANGED <<tables, sent, issued>> /\ pending' = [pending EXCEPT ![h] = k]
        BY <1>2 DEF PutCandidate
  <2>2. ContinuationOK(k) /\ k.pc \notin {"createRun", "enqueue"}
        BY DEF ContinuationOK, normalizeCandidate
  <2> HIDE DEF k
  <2> QED BY <2>1, <2>2, QuietStep
<1>3. ASSUME NEW body \in SuiteBody, PutSuite(h, body) PROVE IInv'
  <2> DEFINE row == normalizeSuite(body)
             k == IF Invalid \in {row.name, row.benchmark} THEN Reply(400)
                  ELSE [pc |-> "findSuiteBenchmark", raw |-> body.name, row |-> row]
  <2>1. UNCHANGED <<tables, sent, issued>> /\ pending' = [pending EXCEPT ![h] = k]
        BY <1>3 DEF PutSuite
  <2>2. ContinuationOK(k) /\ k.pc \notin {"createRun", "enqueue"}
        BY DEF ContinuationOK, normalizeSuite
  <2> HIDE DEF k
  <2> QED BY <2>1, <2>2, QuietStep
<1>4. ASSUME NEW body \in RunRequestBody, PostRun(h, body) PROVE IInv'
  <2> DEFINE candidate == Normal[body.candidate]
             suite == Normal[body.suite]
             k == IF Invalid \in {candidate, suite} THEN Reply(400)
                  ELSE [pc |-> "findCandidate", candidateName |-> candidate,
                        suiteName |-> suite]
  <2>1. UNCHANGED <<tables, sent, issued>> /\ pending' = [pending EXCEPT ![h] = k]
        BY <1>4 DEF PostRun
  <2>2. ContinuationOK(k) /\ k.pc \notin {"createRun", "enqueue"}
        BY DEF ContinuationOK
  <2> HIDE DEF k
  <2> QED BY <2>1, <2>2, QuietStep
<1>5. ASSUME NEW raw \in RawRunName, NEW status \in Status, PatchRun(h, raw, status)
      PROVE  IInv'
  <2> DEFINE name == NormalRun[raw]
             k == IF name = Invalid THEN Reply(400)
                  ELSE [pc |-> "findRunForStatus", name |-> name, status |-> status]
  <2>1. UNCHANGED <<tables, sent, issued>> /\ pending' = [pending EXCEPT ![h] = k]
        BY <1>5 DEF PatchRun
  <2>2. ContinuationOK(k) /\ k.pc \notin {"createRun", "enqueue"}
        BY DEF ContinuationOK
  <2> HIDE DEF k
  <2> QED BY <2>1, <2>2, QuietStep
<1>6. ASSUME NEW raw \in RawRunName, NEW measures \in Measures,
             PostResults(h, raw, measures)
      PROVE  IInv'
  <2> DEFINE name == NormalRun[raw]
             k == IF name = Invalid THEN Reply(400)
                  ELSE [pc |-> "findRunForResults", name |-> name,
                        measures |-> measures]
  <2>1. UNCHANGED <<tables, sent, issued>> /\ pending' = [pending EXCEPT ![h] = k]
        BY <1>6 DEF PostResults
  <2>2. ContinuationOK(k) /\ k.pc \notin {"createRun", "enqueue"}
        BY DEF ContinuationOK
  <2> HIDE DEF k
  <2> QED BY <2>1, <2>2, QuietStep
<1> QED BY <1>1, <1>2, <1>3, <1>4, <1>5, <1>6 DEF Request

\* Looking a row up: what the handler goes on with is true of the table it read.
LEMMA LookupIInv ==
    ASSUME IInv, TypeOK', NEW h \in Handler,
           \/ FindCandidateBenchmark(h) \/ FindSuiteBenchmark(h) \/ ReadBack(h)
           \/ FindCandidate(h) \/ FindSuite(h)
           \/ FindRunForStatus(h) \/ FindRunForResults(h)
    PROVE  IInv'
<1>1. CASE FindCandidateBenchmark(h)
  <2> DEFINE row == pending[h].row
             k == IF benchmarks[row.benchmark] = NoRow THEN Reply(400)
                  ELSE [pc |-> "upsertCandidate", raw |-> pending[h].raw, row |-> row]
  <2>1. UNCHANGED <<tables, sent, issued>> /\ pending' = [pending EXCEPT ![h] = k]
        BY <1>1 DEF FindCandidateBenchmark
  <2>2. ContinuationOK(k) /\ k.pc \notin {"createRun", "enqueue"}
        BY <1>1 DEF FindCandidateBenchmark, IInv, ContinuationOK
  <2> HIDE DEF k
  <2> QED BY <2>1, <2>2, QuietStep
<1>2. CASE FindSuiteBenchmark(h)
  <2> DEFINE row == pending[h].row
             k == IF benchmarks[row.benchmark] = NoRow THEN Reply(400)
                  ELSE [pc |-> "upsertSuite", raw |-> pending[h].raw, row |-> row]
  <2>1. UNCHANGED <<tables, sent, issued>> /\ pending' = [pending EXCEPT ![h] = k]
        BY <1>2 DEF FindSuiteBenchmark
  <2>2. ContinuationOK(k) /\ k.pc \notin {"createRun", "enqueue"}
        BY <1>2 DEF FindSuiteBenchmark, IInv, ContinuationOK
  <2> HIDE DEF k
  <2> QED BY <2>1, <2>2, QuietStep
<1>3. CASE ReadBack(h)
  <2> DEFINE name == Normal[pending[h].raw]
             k == IF name = Invalid THEN Reply(400)
                  ELSE IF Stored(pending[h].kind, name) = NoRow THEN Reply(404)
                  ELSE Reply(200)
  <2>1. UNCHANGED <<tables, sent, issued>> /\ pending' = [pending EXCEPT ![h] = k]
        BY <1>3 DEF ReadBack
  <2>2. ContinuationOK(k) /\ k.pc \notin {"createRun", "enqueue"}
        BY DEF ContinuationOK
  <2> HIDE DEF k
  <2> QED BY <2>1, <2>2, QuietStep
<1>4. CASE FindCandidate(h)
  <2> DEFINE candidate == candidates[pending[h].candidateName]
             k == IF candidate = NoRow THEN Reply(400)
                  ELSE [pc |-> "findSuite", candidate |-> candidate,
                        suiteName |-> pending[h].suiteName]
  <2>1. UNCHANGED <<tables, sent, issued>> /\ pending' = [pending EXCEPT ![h] = k]
        BY <1>4 DEF FindCandidate
  <2>2. ContinuationOK(k) /\ k.pc \notin {"createRun", "enqueue"}
        BY DEF ContinuationOK
  <2> HIDE DEF k
  <2> QED BY <2>1, <2>2, QuietStep
<1>5. CASE FindSuite(h)
  <2> DEFINE candidate == pending[h].candidate
             suite == suites[pending[h].suiteName]
             k == IF suite = NoRow THEN Reply(400)
                  ELSE IF candidate.benchmark # suite.benchmark THEN Reply(400)
                  ELSE [pc |-> "findBenchmark", candidate |-> candidate,
                        suite |-> suite]
  <2>1. UNCHANGED <<tables, sent, issued>> /\ pending' = [pending EXCEPT ![h] = k]
        BY <1>5 DEF FindSuite
  <2>2. ContinuationOK(k) /\ k.pc \notin {"createRun", "enqueue"}
        BY DEF ContinuationOK
  <2> HIDE DEF k
  <2> QED BY <2>1, <2>2, QuietStep
<1>6. CASE FindRunForStatus(h)
  <2> DEFINE k == IF runs[pending[h].name] = NoRow THEN Reply(404)
                  ELSE [pc |-> "updateStatus", name |-> pending[h].name,
                        status |-> pending[h].status]
  <2>1. UNCHANGED <<tables, sent, issued>> /\ pending' = [pending EXCEPT ![h] = k]
        BY <1>6 DEF FindRunForStatus
  <2>2. ContinuationOK(k) /\ k.pc \notin {"createRun", "enqueue"}
        BY DEF ContinuationOK
  <2> HIDE DEF k
  <2> QED BY <2>1, <2>2, QuietStep
<1>7. CASE FindRunForResults(h)
  <2> DEFINE run == runs[pending[h].name]
             k == IF run = NoRow THEN Reply(404)
                  ELSE [pc |-> "upsertResult",
                        row |-> ResultOf(run, pending[h].measures)]
  <2>1. UNCHANGED <<tables, sent, issued>> /\ pending' = [pending EXCEPT ![h] = k]
        BY <1>7 DEF FindRunForResults
  <2>2. ContinuationOK(k) /\ k.pc \notin {"createRun", "enqueue"}
    <3>1. pending[h].name \in RunName
          BY <1>7, ContinuationFields DEF FindRunForResults, IInv, TypeOK
    <3>2. run # NoRow => run.name = pending[h].name
          BY <3>1 DEF IInv, KeysOK
    <3>3. CASE run = NoRow
          BY <3>3 DEF ContinuationOK
    <3>4. CASE run # NoRow
      <4>1. /\ k.pc = "upsertResult"
            /\ k.row = ResultOf(run, pending[h].measures)
            BY <3>4
      <4>2. k.row.name = pending[h].name /\ k.row.measures = pending[h].measures
            BY <3>2, <3>4, <4>1 DEF ResultOf
      <4> HIDE DEF k
      <4> QED BY <3>4, <4>1, <4>2 DEF ContinuationOK
    <3> QED BY <3>3, <3>4
  <2> HIDE DEF k
  <2> QED BY <2>1, <2>2, QuietStep
<1> QED BY <1>1, <1>2, <1>3, <1>4, <1>5, <1>6, <1>7

\* A request that ends, with an error or with its answer delivered.
LEMMA EndIInv ==
    ASSUME IInv, TypeOK', NEW h \in Handler, Fail(h) \/ Retire(h)
    PROVE  IInv'
<1>1. CASE Fail(h)
  <2>1. UNCHANGED <<tables, sent, issued>> /\ pending' = [pending EXCEPT ![h] = Reply(500)]
        BY <1>1 DEF Fail
  <2>2. ContinuationOK(Reply(500)) /\ Reply(500).pc \notin {"createRun", "enqueue"}
        BY DEF ContinuationOK
  <2> HIDE DEF Reply
  <2> QED BY <2>1, <2>2, QuietStep, ZenonT(30)
<1>2. CASE Retire(h)
  <2>1. UNCHANGED <<tables, sent, issued>> /\ pending' = [pending EXCEPT ![h] = Idle]
        BY <1>2 DEF Retire
  <2>2. ContinuationOK(Idle) /\ Idle.pc \notin {"createRun", "enqueue"}
        BY DEF ContinuationOK
  <2> HIDE DEF Idle
  <2> QED BY <2>1, <2>2, QuietStep
<1> QED BY <1>1, <1>2

\* Naming a run: the last look-up of processRunRequest().
LEMMA FindBenchmarkIInv ==
    ASSUME IInv, TypeOK', NEW h \in Handler, FindBenchmark(h)
    PROVE  IInv'
<1> DEFINE candidate == pending[h].candidate
           suite == pending[h].suite
           benchmark == benchmarks[candidate.benchmark]
<1>1. UNCHANGED <<benchmarks, candidates, suites, runs, results, sent>>
      BY DEF FindBenchmark, tables
<1>2. CASE benchmark = NoRow
  <2>1. UNCHANGED <<tables, sent, issued>> /\ pending' = [pending EXCEPT ![h] = Reply(400)]
        BY <1>2 DEF FindBenchmark
  <2>2. ContinuationOK(Reply(400)) /\ Reply(400).pc \notin {"createRun", "enqueue"}
        BY DEF ContinuationOK
  <2> HIDE DEF Reply
  <2> QED BY <2>1, <2>2, QuietStep, ZenonT(30)
<1>3. CASE benchmark # NoRow
  <2> DEFINE Run(name) == [name |-> name, status |-> "created",
                           benchmark |-> benchmark,
                           candidate |-> candidate, suite |-> suite]
  <2>1. PICK name \in RunName \ issued :
           /\ issued' = issued \cup {name}
           /\ pending' = [pending EXCEPT ![h] = [pc |-> "createRun", run |-> Run(name)]]
        BY <1>3 DEF FindBenchmark
  <2>2. Coherent(Run(name))
    <3>1. candidate \in CandidateRow /\ candidate.benchmark \in Name
          BY ContinuationFields DEF FindBenchmark, IInv, TypeOK, CandidateRow
    <3>2. candidate.benchmark = suite.benchmark
          BY DEF FindBenchmark, IInv, ContinuationOK
    <3>3. benchmark.name = candidate.benchmark
          BY <1>3, <3>1 DEF IInv, KeysOK
    <3> QED BY <3>2, <3>3 DEF Coherent
  <2>3. runs[name] = NoRow
        BY <2>1 DEF IInv, KeysOK
  <2>4. ASSUME NEW g \in Handler, pending[g].pc = "createRun"
        PROVE  pending[g].run.name # name
        BY <2>1, <2>4 DEF IInv, CreateRunOK
  <2>5. \A g \in Handler :
           pending'[g] = IF g = h THEN [pc |-> "createRun", run |-> Run(name)]
                                  ELSE pending[g]
        BY <2>1 DEF IInv, TypeOK
  <2> HIDE DEF Run
  <2>6. KeysOK' /\ ReferencesResolve' /\ RunsCoherent' /\ MessagesHaveRuns' /\ ResultsMatchRuns'
        BY <1>1, <2>1 DEF IInv, KeysOK, ReferencesResolve, RunsCoherent,
                          MessagesHaveRuns, ResultsMatchRuns
  <2>7. ASSUME NEW g \in Handler PROVE CreateRunOK(g)'
    <3>1. Run(name).name = name /\ Run(name).status = "created"
          BY DEF Run
    <3> QED BY <1>1, <2>1, <2>2, <2>3, <2>4, <2>5, <3>1 DEF IInv, CreateRunOK, Coherent
  <2>8. ASSUME NEW g \in Handler PROVE EnqueueOK(g)'
        BY <1>1, <2>5 DEF IInv, EnqueueOK
  <2>9. ASSUME NEW g \in Handler PROVE ContinuationOK(pending[g])'
    <3>1. CASE g = h
      <4>1. pending'[g].pc = "createRun"
            BY <2>5, <3>1
      <4> QED BY <4>1 DEF ContinuationOK
    <3>2. CASE g # h
      <4>1. pending'[g] = pending[g]
            BY <2>5, <3>2
      <4> QED BY <1>1, <4>1 DEF IInv, ContinuationOK, Stored
    <3> QED BY <3>1, <3>2
  <2> QED BY <2>6, <2>7, <2>8, <2>9 DEF IInv
<1> QED BY <1>2, <1>3

\* What the writes of the catalogue have in common: rows are replaced by rows,
\* never removed, and no handler's facts but the writer's are at stake.
LEMMA CatalogueStep ==
    ASSUME IInv, TypeOK',
           UNCHANGED <<runs, results, sent, issued>>,
           \A n \in Name :
              /\ benchmarks[n] # NoRow => benchmarks'[n] # NoRow
              /\ candidates[n] # NoRow => candidates'[n] # NoRow
              /\ suites[n] # NoRow => suites'[n] # NoRow,
           NEW h \in Handler, NEW k,
           pending' = [pending EXCEPT ![h] = k],
           k.pc \notin {"createRun", "enqueue"},
           ContinuationOK(k)'
    PROVE  \A g \in Handler :
              CreateRunOK(g)' /\ EnqueueOK(g)' /\ ContinuationOK(pending[g])'
<1> SUFFICES ASSUME NEW g \in Handler
             PROVE  CreateRunOK(g)' /\ EnqueueOK(g)' /\ ContinuationOK(pending[g])'
    OBVIOUS
<1>1. pending'[g] = IF g = h THEN k ELSE pending[g]
      BY DEF IInv, TypeOK
<1>2. CreateRunOK(g)'
      BY <1>1 DEF IInv, TypeOK, CreateRunOK
<1>3. EnqueueOK(g)'
      BY <1>1 DEF IInv, EnqueueOK
<1>4. CASE g = h
      BY <1>1, <1>2, <1>3, <1>4
<1>5. CASE g # h
  <2>1. pending'[g] = pending[g] /\ pending[g] \in Continuations
        BY <1>1, <1>5 DEF IInv, TypeOK
  <2> DEFINE c == pending[g]
  <2>2. c.pc \in {"upsertCandidate", "upsertSuite"} => c.row.benchmark \in Name
        BY <2>1, ContinuationFields DEF CandidateRow, SuiteRow
  <2>3. c.pc = "readBack" => c.kind \in {"benchmark", "candidate", "suite"}
        BY <2>1, ContinuationFields
  <2>4. c.pc = "readBack" =>
           Normal[c.raw] \in Name /\ Stored(c.kind, Normal[c.raw])' # NoRow
        BY <2>1, <2>3 DEF IInv, ContinuationOK, Stored
  <2>5. ContinuationOK(c)
        BY DEF IInv
  <2>6. ContinuationOK(pending[g])'
        BY <2>1, <2>2, <2>4, <2>5 DEF ContinuationOK
  <2> QED BY <1>2, <1>3, <2>6
<1> QED BY <1>4, <1>5

\* Writes of benchmarks keep the invariant ...
LEMMA UpsertBenchmarkIInv ==
    ASSUME IInv, TypeOK', NEW h \in Handler, UpsertBenchmark(h)
    PROVE  IInv'
<1> DEFINE row == pending[h].row
<1> DEFINE stored == Upserted(benchmarks[row.name], row)
<1>0. row \in BenchmarkRow /\ row.name \in Name /\ benchmarks[row.name] \in BenchmarkRow \cup {NoRow}
      BY ContinuationFields DEF UpsertBenchmark, IInv, TypeOK, BenchmarkRow
<1>1. /\ row \in BenchmarkRow /\ row.name \in Name
      /\ stored.name = row.name /\ stored # NoRow
      BY <1>0, UpsertedBenchmark
<1>2. /\ benchmarks' = [benchmarks EXCEPT ![row.name] = stored]
      /\ UNCHANGED <<candidates, suites, runs, results, sent, issued>>
      BY DEF UpsertBenchmark
<1>3. \A n \in Name : benchmarks'[n] = IF n = row.name THEN stored ELSE benchmarks[n]
      BY <1>1, <1>2 DEF IInv, TypeOK
<1> HIDE DEF stored
<1>4. KeysOK'
      BY <1>1, <1>2, <1>3 DEF IInv, KeysOK
<1>5. ReferencesResolve'
      BY <1>1, <1>2, <1>3 DEF IInv, TypeOK, ReferencesResolve, CandidateRow, SuiteRow
<1>6. RunsCoherent' /\ MessagesHaveRuns' /\ ResultsMatchRuns'
      BY <1>2 DEF IInv, RunsCoherent, MessagesHaveRuns, ResultsMatchRuns
<1>7. PICK k \in {[pc |-> "readBack", kind |-> "benchmark", raw |-> pending[h].raw], Reply(500)} :
         pending' = [pending EXCEPT ![h] = k]
      BY DEF UpsertBenchmark
<1>8. ContinuationOK(k)' /\ k.pc \notin {"createRun", "enqueue"}
      BY <1>1, <1>3, <1>7 DEF UpsertBenchmark, IInv, ContinuationOK, Stored
<1>9. \A n \in Name :
         /\ benchmarks[n] # NoRow => benchmarks'[n] # NoRow
         /\ candidates[n] # NoRow => candidates'[n] # NoRow
         /\ suites[n] # NoRow => suites'[n] # NoRow
      BY <1>1, <1>2, <1>3
<1>10. UNCHANGED <<runs, results, sent, issued>>
      BY <1>2
<1>11. \A g \in Handler :
         CreateRunOK(g)' /\ EnqueueOK(g)' /\ ContinuationOK(pending[g])'
      BY <1>7, <1>8, <1>9, <1>10, CatalogueStep, ZenonT(30)
<1> QED BY <1>4, <1>5, <1>6, <1>11 DEF IInv

\* ... of candidates, whose benchmark was found ...
LEMMA UpsertCandidateIInv ==
    ASSUME IInv, TypeOK', NEW h \in Handler, UpsertCandidate(h)
    PROVE  IInv'
<1> DEFINE row == pending[h].row
<1> DEFINE stored == Upserted(candidates[row.name], row)
<1>0. row \in CandidateRow /\ row.name \in Name /\ candidates[row.name] \in CandidateRow \cup {NoRow}
      BY ContinuationFields DEF UpsertCandidate, IInv, TypeOK, CandidateRow
<1>1. /\ row \in CandidateRow /\ row.name \in Name
      /\ stored.name = row.name /\ stored # NoRow
      /\ stored.benchmark = row.benchmark
      BY <1>0, UpsertedCandidate
<1>2. /\ candidates' = [candidates EXCEPT ![row.name] = stored]
      /\ UNCHANGED <<benchmarks, suites, runs, results, sent, issued>>
      BY DEF UpsertCandidate
<1>3. \A n \in Name : candidates'[n] = IF n = row.name THEN stored ELSE candidates[n]
      BY <1>1, <1>2 DEF IInv, TypeOK
<1> HIDE DEF stored
<1>4. KeysOK'
      BY <1>1, <1>2, <1>3 DEF IInv, KeysOK
<1>5. ReferencesResolve'
  <2>1. benchmarks[row.benchmark] # NoRow
        BY DEF UpsertCandidate, IInv, ContinuationOK
  <2> QED BY <1>1, <1>2, <1>3, <2>1 DEF IInv, ReferencesResolve
<1>6. RunsCoherent' /\ MessagesHaveRuns' /\ ResultsMatchRuns'
      BY <1>2 DEF IInv, RunsCoherent, MessagesHaveRuns, ResultsMatchRuns
<1>7. PICK k \in {[pc |-> "readBack", kind |-> "candidate", raw |-> pending[h].raw], Reply(500)} :
         pending' = [pending EXCEPT ![h] = k]
      BY DEF UpsertCandidate
<1>8. ContinuationOK(k)' /\ k.pc \notin {"createRun", "enqueue"}
      BY <1>1, <1>3, <1>7 DEF UpsertCandidate, IInv, ContinuationOK, Stored
<1>9. \A n \in Name :
         /\ benchmarks[n] # NoRow => benchmarks'[n] # NoRow
         /\ candidates[n] # NoRow => candidates'[n] # NoRow
         /\ suites[n] # NoRow => suites'[n] # NoRow
      BY <1>1, <1>2, <1>3
<1>10. UNCHANGED <<runs, results, sent, issued>>
      BY <1>2
<1>11. \A g \in Handler :
         CreateRunOK(g)' /\ EnqueueOK(g)' /\ ContinuationOK(pending[g])'
      BY <1>7, <1>8, <1>9, <1>10, CatalogueStep, ZenonT(30)
<1> QED BY <1>4, <1>5, <1>6, <1>11 DEF IInv

\* ... and of suites.
LEMMA UpsertSuiteIInv ==
    ASSUME IInv, TypeOK', NEW h \in Handler, UpsertSuite(h)
    PROVE  IInv'
<1> DEFINE row == pending[h].row
<1> DEFINE stored == Upserted(suites[row.name], row)
<1>0. row \in SuiteRow /\ row.name \in Name /\ suites[row.name] \in SuiteRow \cup {NoRow}
      BY ContinuationFields DEF UpsertSuite, IInv, TypeOK, SuiteRow
<1>1. /\ row \in SuiteRow /\ row.name \in Name
      /\ stored.name = row.name /\ stored # NoRow
      /\ stored.benchmark = row.benchmark
      BY <1>0, UpsertedSuite
<1>2. /\ suites' = [suites EXCEPT ![row.name] = stored]
      /\ UNCHANGED <<benchmarks, candidates, runs, results, sent, issued>>
      BY DEF UpsertSuite
<1>3. \A n \in Name : suites'[n] = IF n = row.name THEN stored ELSE suites[n]
      BY <1>1, <1>2 DEF IInv, TypeOK
<1> HIDE DEF stored
<1>4. KeysOK'
      BY <1>1, <1>2, <1>3 DEF IInv, KeysOK
<1>5. ReferencesResolve'
  <2>1. benchmarks[row.benchmark] # NoRow
        BY DEF UpsertSuite, IInv, ContinuationOK
  <2> QED BY <1>1, <1>2, <1>3, <2>1 DEF IInv, ReferencesResolve
<1>6. RunsCoherent' /\ MessagesHaveRuns' /\ ResultsMatchRuns'
      BY <1>2 DEF IInv, RunsCoherent, MessagesHaveRuns, ResultsMatchRuns
<1>7. PICK k \in {[pc |-> "readBack", kind |-> "suite", raw |-> pending[h].raw], Reply(500)} :
         pending' = [pending EXCEPT ![h] = k]
      BY DEF UpsertSuite
<1>8. ContinuationOK(k)' /\ k.pc \notin {"createRun", "enqueue"}
      BY <1>1, <1>3, <1>7 DEF UpsertSuite, IInv, ContinuationOK, Stored
<1>9. \A n \in Name :
         /\ benchmarks[n] # NoRow => benchmarks'[n] # NoRow
         /\ candidates[n] # NoRow => candidates'[n] # NoRow
         /\ suites[n] # NoRow => suites'[n] # NoRow
      BY <1>1, <1>2, <1>3
<1>10. UNCHANGED <<runs, results, sent, issued>>
      BY <1>2
<1>11. \A g \in Handler :
         CreateRunOK(g)' /\ EnqueueOK(g)' /\ ContinuationOK(pending[g])'
      BY <1>7, <1>8, <1>9, <1>10, CatalogueStep, ZenonT(30)
<1> QED BY <1>4, <1>5, <1>6, <1>11 DEF IInv

\* A run is stored with the snapshots that were read and checked.
LEMMA CreateRunIInv ==
    ASSUME IInv, TypeOK', NEW h \in Handler, CreateRun(h)
    PROVE  IInv'
<1> DEFINE run == pending[h].run
<1>1. run \in RunRow /\ run.name \in RunName /\ run # NoRow
      BY ContinuationFields, RowAssumption DEF CreateRun, IInv, TypeOK, RunRow
<1>2. /\ runs' = [runs EXCEPT ![run.name] = run]
      /\ UNCHANGED <<benchmarks, candidates, suites, results, sent, issued>>
      BY DEF CreateRun
<1>3. \A n \in RunName : runs'[n] = IF n = run.name THEN run ELSE runs[n]
      BY <1>1, <1>2 DEF IInv, TypeOK
<1>4. /\ Coherent(run)
      /\ run.name \in issued
      /\ runs[run.name] = NoRow
      /\ \A g \in Handler \ {h} :
            pending[g].pc = "createRun" => pending[g].run.name # run.name
      BY DEF CreateRun, IInv, CreateRunOK
<1>5. PICK k \in {[pc |-> "enqueue", run |-> run], Reply(500)} :
         pending' = [pending EXCEPT ![h] = k]
      BY DEF CreateRun
<1>6. \A g \in Handler : pending'[g] = IF g = h THEN k ELSE pending[g]
      BY <1>5 DEF IInv, TypeOK
<1>7. KeysOK' /\ ReferencesResolve' /\ RunsCoherent'
      BY <1>1, <1>2, <1>3, <1>4 DEF IInv, KeysOK, ReferencesResolve, RunsCoherent
<1>8. MessagesHaveRuns'
  <2>1. SUFFICES ASSUME DatabaseMode = "azuresql", NEW message \in sent
                 PROVE  /\ runs'[message.name] # NoRow
                        /\ message = createMessage(runs'[message.name])
        BY <1>2 DEF MessagesHaveRuns, createMessage
  <2>2. message.name \in RunName
        BY DEF IInv, TypeOK, RunMessage
  <2> QED BY <1>3, <1>4, <2>1, <2>2 DEF IInv, MessagesHaveRuns
<1>9. ResultsMatchRuns'
      BY <1>2, <1>3, <1>4 DEF IInv, ResultsMatchRuns
<1>10. ASSUME NEW g \in Handler
       PROVE  CreateRunOK(g)' /\ EnqueueOK(g)' /\ ContinuationOK(pending[g])'
  <2>1. CASE g = h
    <3>1. pending'[g] = k /\ k.pc \in {"enqueue", "replied"}
          BY <1>5, <1>6, <2>1
    <3>2. k.pc = "enqueue" => k.run = run /\ runs'[run.name] = run
          BY <1>1, <1>3, <1>5
    <3>3. EnqueueOK(g)'
          BY <1>1, <1>4, <3>1, <3>2 DEF EnqueueOK
    <3> QED BY <3>1, <3>3 DEF CreateRunOK, ContinuationOK
  <2>2. CASE g # h
    <3>1. pending'[g] = pending[g] /\ pending[g] \in Continuations
          BY <1>6, <2>2 DEF IInv, TypeOK
    <3>2. CreateRunOK(g)'
      <4> SUFFICES ASSUME pending[g].pc = "createRun" PROVE CreateRunOK(g)'
          BY <3>1 DEF CreateRunOK
      <4>1. pending[g].run \in RunRow /\ pending[g].run.name \in RunName
            BY <3>1, ContinuationFields DEF RunRow
      <4>2. runs'[pending[g].run.name] = NoRow
            BY <1>3, <1>4, <2>2, <4>1 DEF IInv, CreateRunOK
      <4>3. \A f \in Handler : pending'[f].pc = "createRun" => pending'[f] = pending[f]
            BY <1>5, <1>6
      <4> QED BY <1>2, <3>1, <4>2, <4>3 DEF IInv, CreateRunOK
    <3>3. EnqueueOK(g)'
      <4> SUFFICES ASSUME pending[g].pc = "enqueue" PROVE EnqueueOK(g)'
          BY <3>1 DEF EnqueueOK
      <4>1. pending[g].run \in RunRow /\ pending[g].run.name \in RunName
            BY <3>1, ContinuationFields DEF RunRow
      <4> QED BY <1>3, <1>4, <3>1, <4>1 DEF IInv, EnqueueOK
    <3>4. ContinuationOK(pending[g])'
      <4>1. pending[g].pc = "updateStatus" => pending[g].name \in RunName
            BY <3>1, ContinuationFields
      <4>2. pending[g].pc = "upsertResult" => pending[g].row.name \in RunName
            BY <3>1, ContinuationFields DEF ResultRow
      <4>3. \A n \in RunName : runs[n] # NoRow => runs'[n] = runs[n]
            BY <1>3, <1>4
      <4>4. ContinuationOK(pending[g])
            BY DEF IInv
      <4>5. \A n : Stored(pending[g].kind, n)' = Stored(pending[g].kind, n)
            BY <1>2, <3>1 DEF Stored
      <4> QED BY <1>2, <3>1, <4>1, <4>2, <4>3, <4>4, <4>5 DEF ContinuationOK
    <3> QED BY <3>2, <3>3, <3>4
  <2> QED BY <2>1, <2>2
<1> QED BY <1>7, <1>8, <1>9, <1>10 DEF IInv

\* A message is made of the run that was stored.
LEMMA EnqueueIInv ==
    ASSUME IInv, TypeOK', NEW h \in Handler, Enqueue(h)
    PROVE  IInv'
<1> DEFINE run == pending[h].run
<1>1. run \in RunRow /\ run.name \in RunName
      BY ContinuationFields DEF Enqueue, IInv, TypeOK, RunRow
<1>2. /\ sent' = sent \cup {createMessage(run)}
      /\ UNCHANGED <<benchmarks, candidates, suites, runs, results, issued>>
      BY DEF Enqueue, tables
<1>3. Coherent(run) /\ runs[run.name] # NoRow /\ createMessage(runs[run.name]) = createMessage(run)
      BY DEF Enqueue, IInv, EnqueueOK
<1>4. PICK k \in {[pc |-> "replied", code |-> 202, run |-> run.name], Reply(500)} :
         pending' = [pending EXCEPT ![h] = k]
      BY DEF Enqueue
<1>5. \A g \in Handler : pending'[g] = IF g = h THEN k ELSE pending[g]
      BY <1>4 DEF IInv, TypeOK
<1>6. KeysOK' /\ ReferencesResolve' /\ ResultsMatchRuns'
      BY <1>2 DEF IInv, KeysOK, ReferencesResolve, ResultsMatchRuns
<1>7. RunsCoherent'
  <2>1. Coherent(createMessage(run))
        BY <1>3 DEF Coherent, createMessage
  <2> QED BY <1>2, <2>1 DEF IInv, RunsCoherent
<1>8. MessagesHaveRuns'
  <2>1. createMessage(run).name = run.name
        BY DEF createMessage
  <2> QED BY <1>2, <1>3, <2>1 DEF IInv, MessagesHaveRuns
<1>9. ASSUME NEW g \in Handler
      PROVE  CreateRunOK(g)' /\ EnqueueOK(g)' /\ ContinuationOK(pending[g])'
  <2>1. CASE g = h
    <3>1. pending'[g].pc = "replied"
          BY <1>4, <1>5, <2>1
    <3> QED BY <3>1 DEF CreateRunOK, EnqueueOK, ContinuationOK
  <2>2. CASE g # h
    <3>1. pending'[g] = pending[g]
          BY <1>5, <2>2
    <3>2. \A f \in Handler : pending'[f].pc = "createRun" => pending'[f] = pending[f]
          BY <1>4, <1>5
    <3>3. CreateRunOK(g)' /\ EnqueueOK(g)'
          BY <1>2, <3>1, <3>2 DEF IInv, CreateRunOK, EnqueueOK
    <3>4. ContinuationOK(pending[g])'
          BY <1>2, <3>1 DEF IInv, ContinuationOK, Stored
    <3> QED BY <3>3, <3>4
  <2> QED BY <2>1, <2>2
<1> QED BY <1>6, <1>7, <1>8, <1>9 DEF IInv

\* Whatever the new status, it is all of the run that changes.
LEMMA UpdateStatusKeeps ==
    ASSUME IInv, NEW h \in Handler, UpdateStatus(h), NEW n \in RunName
    PROVE  /\ runs'[n] = NoRow <=> runs[n] = NoRow
           /\ runs[n] # NoRow =>
                /\ runs'[n].name = runs[n].name
                /\ createMessage(runs'[n]) = createMessage(runs[n])
                /\ \A m : ResultOf(runs'[n], m) = ResultOf(runs[n], m)
                /\ Coherent(runs'[n]) <=> Coherent(runs[n])
<1> DEFINE Same == /\ runs'[n].name = runs[n].name
                   /\ runs'[n].benchmark = runs[n].benchmark
                   /\ runs'[n].candidate = runs[n].candidate
                   /\ runs'[n].suite = runs[n].suite
<1>1. /\ runs'[n] = NoRow <=> runs[n] = NoRow
      /\ runs[n] # NoRow => Same
  <2>1. pending[h].name \in RunName /\ runs[pending[h].name] # NoRow
        BY ContinuationFields DEF UpdateStatus, IInv, TypeOK, ContinuationOK
  <2>2. runs' = [runs EXCEPT ![pending[h].name].status = pending[h].status]
        BY <2>1 DEF UpdateStatus
  <2>3. CASE n = pending[h].name
    <3>1. runs'[n] = [runs[n] EXCEPT !.status = pending[h].status] /\ runs[n] \in RunRow
          BY <2>1, <2>2, <2>3 DEF IInv, TypeOK
    <3>2. Same
          BY <3>1 DEF RunRow
    <3>3. pending[h].status \in Status
          BY ContinuationFields DEF UpdateStatus, IInv, TypeOK
    <3>4. runs'[n] \in RunRow
          BY <3>1, <3>3 DEF RunRow
    <3> QED BY <2>1, <2>3, <3>2, <3>4, RowAssumption
  <2>4. CASE n # pending[h].name
        BY <2>2, <2>4 DEF IInv, TypeOK
  <2> QED BY <2>3, <2>4
<1>2. Same => createMessage(runs'[n]) = createMessage(runs[n])
      BY DEF createMessage
<1>3. ASSUME Same, NEW m PROVE ResultOf(runs'[n], m) = ResultOf(runs[n], m)
      BY <1>3 DEF ResultOf
<1>4. Same => (Coherent(runs'[n]) <=> Coherent(runs[n]))
      BY DEF Coherent
<1> QED BY <1>1, <1>2, <1>3, <1>4

\* A status is written to the run that was found.
LEMMA UpdateStatusIInv ==
    ASSUME IInv, TypeOK', NEW h \in Handler, UpdateStatus(h)
    PROVE  IInv'
<1>1. UNCHANGED <<benchmarks, candidates, suites, results, sent, issued>>
      BY DEF UpdateStatus
<1>2. \A n \in RunName : runs'[n] = NoRow <=> runs[n] = NoRow
      BY UpdateStatusKeeps
<1>3. \A n \in RunName : runs[n] # NoRow =>
         /\ createMessage(runs'[n]) = createMessage(runs[n])
         /\ \A m : ResultOf(runs'[n], m) = ResultOf(runs[n], m)
         /\ Coherent(runs'[n]) <=> Coherent(runs[n])
         /\ runs'[n].name = runs[n].name
      BY UpdateStatusKeeps
<1>4. PICK k \in {Reply(204), Reply(500)} : pending' = [pending EXCEPT ![h] = k]
      BY DEF UpdateStatus
<1>5. \A g \in Handler : pending'[g] = IF g = h THEN k ELSE pending[g]
      BY <1>4 DEF IInv, TypeOK
<1>6. KeysOK' /\ ReferencesResolve' /\ RunsCoherent'
      BY <1>1, <1>2, <1>3 DEF IInv, KeysOK, ReferencesResolve, RunsCoherent
<1>7. MessagesHaveRuns'
  <2>1. \A message \in sent : message.name \in RunName
        BY DEF IInv, TypeOK, RunMessage
  <2> QED BY <1>1, <1>2, <1>3, <2>1 DEF IInv, MessagesHaveRuns
<1>8. ResultsMatchRuns'
      BY <1>1, <1>2, <1>3 DEF IInv, ResultsMatchRuns
<1>9. ASSUME NEW g \in Handler
      PROVE  CreateRunOK(g)' /\ EnqueueOK(g)' /\ ContinuationOK(pending[g])'
  <2>1. CASE g = h
    <3>1. pending'[g].pc = "replied"
          BY <1>4, <1>5, <2>1
    <3> QED BY <3>1 DEF CreateRunOK, EnqueueOK, ContinuationOK
  <2>2. CASE g # h
    <3>1. pending'[g] = pending[g] /\ pending[g] \in Continuations
          BY <1>5, <2>2 DEF IInv, TypeOK
    <3>2. \A f \in Handler : pending'[f].pc = "createRun" => pending'[f] = pending[f]
          BY <1>4, <1>5
    <3>3. pending[g].pc \in {"createRun", "enqueue"} => pending[g].run.name \in RunName
          BY <3>1, ContinuationFields DEF RunRow
    <3>4. CreateRunOK(g)' /\ EnqueueOK(g)'
          BY <1>1, <1>2, <1>3, <3>1, <3>2, <3>3 DEF IInv, CreateRunOK, EnqueueOK
    <3>5. pending[g].pc = "updateStatus" => pending[g].name \in RunName
          BY <3>1, ContinuationFields
    <3>6. pending[g].pc = "upsertResult" => pending[g].row.name \in RunName
          BY <3>1, ContinuationFields DEF ResultRow
    <3>7. ContinuationOK(pending[g])
          BY DEF IInv
    <3>8. \A n : Stored(pending[g].kind, n)' = Stored(pending[g].kind, n)
          BY <1>1, <3>1 DEF Stored
    <3>9. ContinuationOK(pending[g])'
          BY <1>1, <1>2, <1>3, <3>1, <3>5, <3>6, <3>7, <3>8 DEF ContinuationOK
    <3> QED BY <3>4, <3>9
  <2> QED BY <2>1, <2>2
<1> QED BY <1>6, <1>7, <1>8, <1>9 DEF IInv

\* A result takes its keys from the run that was found.
LEMMA UpsertResultIInv ==
    ASSUME IInv, TypeOK', NEW h \in Handler, UpsertResult(h)
    PROVE  IInv'
<1> DEFINE row == pending[h].row
<1>1. row \in ResultRow /\ row.name \in RunName
      BY ContinuationFields DEF UpsertResult, IInv, TypeOK, ResultRow
<1>2. runs[row.name] # NoRow /\ row = ResultOf(runs[row.name], row.measures)
      BY DEF UpsertResult, IInv, ContinuationOK
<1>3. /\ results' = [results EXCEPT ![row.name] = row]
      /\ UNCHANGED <<benchmarks, candidates, suites, runs, sent, issued>>
      BY DEF UpsertResult
<1>4. PICK k \in {Reply(204), Reply(500)} : pending' = [pending EXCEPT ![h] = k]
      BY DEF UpsertResult
<1>5. KeysOK' /\ ReferencesResolve' /\ RunsCoherent' /\ MessagesHaveRuns'
      BY <1>3 DEF IInv, KeysOK, ReferencesResolve, RunsCoherent, MessagesHaveRuns
<1>6. ResultsMatchRuns'
  <2>1. \A n \in RunName : results'[n] = IF n = row.name THEN row ELSE results[n]
        BY <1>3 DEF IInv, TypeOK
  <2> QED BY <1>2, <1>3, <2>1 DEF IInv, ResultsMatchRuns
<1>7. ASSUME NEW g \in Handler
      PROVE  CreateRunOK(g)' /\ EnqueueOK(g)' /\ ContinuationOK(pending[g])'
  <2>1. pending'[g].pc = "replied" \/ pending'[g] = pending[g]
        BY <1>4 DEF IInv, TypeOK
  <2>2. \A f \in Handler : pending'[f].pc = "createRun" => pending'[f] = pending[f]
        BY <1>4 DEF IInv, TypeOK
  <2>3. CreateRunOK(g)'
        BY <1>3, <2>1, <2>2 DEF IInv, CreateRunOK
  <2>4. EnqueueOK(g)'
        BY <1>3, <2>1 DEF IInv, EnqueueOK
  <2>5. ContinuationOK(pending[g])'
        BY <1>3, <2>1 DEF IInv, ContinuationOK, Stored
  <2> QED BY <2>3, <2>4, <2>5
<1> QED BY <1>5, <1>6, <1>7 DEF IInv

\* A restart ends every handler, so no continuation outlives the rows it
\* learnt about, and an in-memory database loses all its tables at once.
LEMMA CrashIInv == ASSUME IInv, TypeOK', Crash PROVE IInv'
<1>1. ASSUME NEW g \in Handler
      PROVE  CreateRunOK(g)' /\ EnqueueOK(g)' /\ ContinuationOK(pending[g])'
      BY DEF Crash, CreateRunOK, EnqueueOK, ContinuationOK
<1>2. CASE DatabaseMode = "inmemory"
  <2>1. KeysOK' /\ ReferencesResolve' /\ ResultsMatchRuns'
        BY <1>2 DEF Crash, KeysOK, ReferencesResolve, ResultsMatchRuns
  <2>2. RunsCoherent' /\ MessagesHaveRuns'
        BY <1>2 DEF Crash, IInv, RunsCoherent, MessagesHaveRuns
  <2> QED BY <1>1, <2>1, <2>2 DEF IInv
<1>3. CASE DatabaseMode # "inmemory"
  <2>1. UNCHANGED <<tables, sent, issued>>
        BY <1>3 DEF Crash
  <2>2. KeysOK' /\ ReferencesResolve' /\ RunsCoherent' /\ MessagesHaveRuns' /\ ResultsMatchRuns'
        BY <2>1 DEF tables, IInv, KeysOK, ReferencesResolve, RunsCoherent,
                    MessagesHaveRuns, ResultsMatchRuns
  <2> QED BY <1>1, <2>2 DEF IInv
<1> QED BY <1>2, <1>3

\* Every step keeps the invariant.
LEMMA NextIInv == IInv /\ [Next]_vars => IInv'
<1> SUFFICES ASSUME IInv, [Next]_vars PROVE IInv'
    OBVIOUS
<1>1. TypeOK'
      BY NextTypeOK DEF IInv
<1>2. ASSUME NEW h \in Handler, Request(h) PROVE IInv'
      BY <1>1, <1>2, RequestIInv
<1>3. ASSUME NEW h \in Handler, Resume(h) PROVE IInv'
      BY <1>1, <1>3, LookupIInv, UpsertBenchmarkIInv, UpsertCandidateIInv,
         UpsertSuiteIInv, FindBenchmarkIInv, CreateRunIInv, EnqueueIInv,
         UpdateStatusIInv, UpsertResultIInv DEF Resume
<1>4. ASSUME NEW h \in Handler, Fail(h) \/ Retire(h) PROVE IInv'
      BY <1>1, <1>4, EndIInv
<1>5. CASE Crash
      BY <1>1, <1>5, CrashIInv
<1>6. CASE UNCHANGED vars
  <2>1. KeysOK' /\ ReferencesResolve' /\ RunsCoherent' /\ MessagesHaveRuns' /\ ResultsMatchRuns'
        BY <1>6 DEF vars, IInv, KeysOK, ReferencesResolve, RunsCoherent,
                    MessagesHaveRuns, ResultsMatchRuns
  <2>2. \A h \in Handler :
           CreateRunOK(h)' /\ EnqueueOK(h)' /\ ContinuationOK(pending[h])'
        BY <1>6, ZenonT(30) DEF vars, IInv, CreateRunOK, EnqueueOK, ContinuationOK, Stored
  <2> QED BY <1>1, <2>1, <2>2 DEF IInv
<1> QED BY <1>2, <1>3, <1>4, <1>5, <1>6 DEF Next

\* The invariant of all reachable states.
LEMMA Inductive == Spec => []IInv
  BY InitIInv, NextIInv, PTL DEF Spec

----------------------------------------------------------------------------
(* What follows from the invariant.                                         *)

\* The races between reading candidate, suite and benchmark of a run request
\* never make a run, or send a message, whose snapshots do not belong together.
THEOREM RunsAreCoherent == Spec => []RunsCoherent
<1>1. IInv => RunsCoherent
      BY DEF IInv
<1> QED BY <1>1, Inductive, PTL

\* A candidate or suite never outlives, or precedes, the benchmark it is for.
THEOREM ReferencesAlwaysResolve == Spec => []ReferencesResolve
<1>1. IInv => ReferencesResolve
      BY DEF IInv
<1> QED BY <1>1, Inductive, PTL

\* With a durable database every message in the queue has its run on record.
THEOREM MessagesAlwaysHaveRuns == Spec => []MessagesHaveRuns
<1>1. IInv => MessagesHaveRuns
      BY DEF IInv
<1> QED BY <1>1, Inductive, PTL

\* The races of processRunResults() never store a result without its run, or
\* with keys that are not its run's.
THEOREM ResultsAlwaysMatchRuns == Spec => []ResultsMatchRuns
<1>1. IInv => ResultsMatchRuns
      BY DEF IInv
<1> QED BY <1>1, Inductive, PTL

\* A PUT that has written its row finds it again, in whatever spelling.
THEOREM ReadBackAlwaysFinds == Spec => ReadBackFinds
<1> DEFINE Finds(h) == pending[h].pc = "readBack" => pending'[h] \notin {Reply(400), Reply(404)}
<1>1. ASSUME IInv, [Next]_vars, NEW h \in Handler PROVE Finds(h) \/ UNCHANGED vars
  <2> SUFFICES ASSUME pending[h].pc = "readBack", ~UNCHANGED vars
               PROVE  pending'[h] \notin {Reply(400), Reply(404)}
      OBVIOUS
  <2>1. CASE ReadBack(h)
    <3>1. Normal[pending[h].raw] # Invalid /\ Stored(pending[h].kind, Normal[pending[h].raw]) # NoRow
          BY <1>1, LaboratoryAssumption DEF IInv, ContinuationOK
    <3>2. pending'[h] = Reply(200)
          BY <1>1, <2>1, <3>1 DEF ReadBack, IInv, TypeOK
    <3> QED BY <3>2
  <2>2. CASE Fail(h) \/ Crash
    <3>1. pending'[h] = Reply(500) \/ pending'[h] = Idle
          BY <1>1, <2>2 DEF Fail, Crash, IInv, TypeOK
    <3> DEFINE next == pending'[h]
    <3>2. next.pc = "replied" => next.code \notin {400, 404}
          BY <3>1
    <3>3. \A code : Reply(code).pc = "replied" /\ Reply(code).code = code
          OBVIOUS
    <3> HIDE DEF next, Reply
    <3>4. next \notin {Reply(400), Reply(404)}
          BY <3>2, <3>3
    <3> QED BY <3>4 DEF next
  <2>3. ASSUME NEW g \in Handler, g # h, Request(g) \/ Resume(g) \/ Fail(g) \/ Retire(g)
        PROVE  pending'[h] = pending[h]
    <3>1. CASE Request(g)
          BY <1>1, <2>3, <3>1 DEF Request, PutBenchmark, PutCandidate, PutSuite, PostRun,
                                  PatchRun, PostResults, IInv, TypeOK
    <3>2. CASE Resume(g)
      <4> USE <1>1, <2>3 DEF IInv, TypeOK
      <4>1. CASE UpsertBenchmark(g) \/ UpsertCandidate(g) \/ UpsertSuite(g)
            BY <4>1 DEF UpsertBenchmark, UpsertCandidate, UpsertSuite
      <4>2. CASE FindCandidateBenchmark(g) \/ FindSuiteBenchmark(g) \/ ReadBack(g)
            BY <4>2 DEF FindCandidateBenchmark, FindSuiteBenchmark, ReadBack
      <4>3. CASE FindCandidate(g) \/ FindSuite(g)
            BY <4>3 DEF FindCandidate, FindSuite
      <4>4. CASE FindBenchmark(g)
            BY <4>4 DEF FindBenchmark
      <4>5. CASE CreateRun(g) \/ Enqueue(g)
            BY <4>5 DEF CreateRun, Enqueue
      <4>6. CASE FindRunForStatus(g) \/ UpdateStatus(g)
            BY <4>6 DEF FindRunForStatus, UpdateStatus
      <4>7. CASE FindRunForResults(g) \/ UpsertResult(g)
            BY <4>7 DEF FindRunForResults, UpsertResult
      <4> QED BY <3>2, <4>1, <4>2, <4>3, <4>4, <4>5, <4>6, <4>7 DEF Resume
    <3>3. CASE Fail(g) \/ Retire(g)
          BY <1>1, <2>3, <3>3 DEF Fail, Retire, IInv, TypeOK
    <3> QED BY <2>3, <3>1, <3>2, <3>3
  <2>4. ~Request(h) /\ ~Retire(h)
        BY DEF Request, PutBenchmark, PutCandidate, PutSuite, PostRun, PatchRun, PostResults, Retire
  <2>5. Resume(h) => ReadBack(h)
        BY DEF Resume, UpsertBenchmark, FindCandidateBenchmark, UpsertCandidate,
               FindSuiteBenchmark, UpsertSuite, FindCandidate, FindSuite, FindBenchmark,
               CreateRun, Enqueue, FindRunForStatus, UpdateStatus, FindRunForResults, UpsertResult
  <2> QED BY <1>1, <2>1, <2>2, <2>3, <2>4, <2>5 DEF Next
<1>2. IInv /\ [Next]_vars => [\A h \in Handler : Finds(h)]_vars
      BY <1>1
<1> QED BY <1>2, Inductive, PTL DEF Spec, ReadBackFinds

\* Of the steps of a handler only these touch a table, the queue or the names.
LEMMA StepFrame ==
    ASSUME NEW h \in Handler, Request(h) \/ Resume(h) \/ Fail(h) \/ Retire(h)
    PROVE  \/ UNCHANGED <<tables, sent, issued>>
           \/ UpsertBenchmark(h) \/ UpsertCandidate(h) \/ UpsertSuite(h)
           \/ FindBenchmark(h) \/ CreateRun(h) \/ Enqueue(h)
           \/ UpdateStatus(h) \/ UpsertResult(h)
<1>1. CASE Request(h)
      BY <1>1 DEF Request, PutBenchmark, PutCandidate, PutSuite, PostRun, PatchRun,
                  PostResults
<1>2. CASE Resume(h)
      BY <1>2 DEF Resume, FindCandidateBenchmark, FindSuiteBenchmark, ReadBack,
                  FindCandidate, FindSuite, FindRunForStatus, FindRunForResults
<1>3. CASE Fail(h) \/ Retire(h)
      BY <1>3 DEF Fail, Retire
<1> QED BY <1>1, <1>2, <1>3

\* A second report of a run can change the measures of its result only.
THEOREM ResultKeysNeverChange == Spec => ResultsKeepKeys
<1> DEFINE Kept == \A n \in RunName :
                      results[n] # NoRow /\ results'[n] # NoRow =>
                         results'[n] = [results[n] EXCEPT !.measures = results'[n].measures]
<1>1. ASSUME IInv, [Next]_vars PROVE [Kept]_vars
  <2>1. CASE UNCHANGED results
    <3>1. \A n \in RunName : results[n] # NoRow =>
             results[n] = [results[n] EXCEPT !.measures = results[n].measures]
          BY <1>1 DEF IInv, TypeOK, ResultRow
    <3> QED BY <2>1, <3>1
  <2>2. CASE \E h \in Handler : UpsertResult(h)
    <3>1. PICK h \in Handler : UpsertResult(h)
          BY <2>2
    <3> DEFINE row == pending[h].row
    <3>2. row \in ResultRow /\ row.name \in RunName
          BY <1>1, <3>1, ContinuationFields DEF UpsertResult, IInv, TypeOK, ResultRow
    <3>3. row = ResultOf(runs[row.name], row.measures)
          BY <1>1, <3>1 DEF UpsertResult, IInv, ContinuationOK
    <3>4. \A n \in RunName : results'[n] = IF n = row.name THEN row ELSE results[n]
          BY <1>1, <3>1, <3>2 DEF UpsertResult, IInv, TypeOK
    <3>5. ASSUME NEW n \in RunName, results[n] # NoRow
          PROVE  results'[n] = [results[n] EXCEPT !.measures = results'[n].measures]
      <4>1. results[n] \in ResultRow
            BY <1>1, <3>5 DEF IInv, TypeOK
      <4>2. CASE n # row.name
            BY <3>4, <4>1, <4>2 DEF ResultRow
      <4>3. CASE n = row.name
        <5>1. results[n] = ResultOf(runs[n], results[n].measures)
              BY <1>1, <3>5 DEF IInv, ResultsMatchRuns
        <5>2. results'[n] = ResultOf(runs[n], results'[n].measures)
              BY <3>3, <3>4, <4>3
        <5> QED BY <5>1, <5>2 DEF ResultOf
      <4> QED BY <4>2, <4>3
    <3> QED BY <3>5
  <2>3. CASE Crash
    <3>1. UNCHANGED results \/ \A n \in RunName : results'[n] = NoRow
          BY <2>3 DEF Crash, tables
    <3> QED BY <2>1, <3>1
  <2>4. UNCHANGED results \/ (\E h \in Handler : UpsertResult(h)) \/ Crash
    <3>1. ASSUME NEW h \in Handler, Request(h) \/ Resume(h) \/ Fail(h) \/ Retire(h)
          PROVE  UNCHANGED results \/ UpsertResult(h)
          BY <3>1, StepFrame DEF UpsertBenchmark, UpsertCandidate, UpsertSuite,
             FindBenchmark, CreateRun, Enqueue, UpdateStatus, tables
    <3>2. UNCHANGED vars => UNCHANGED results
          BY DEF vars
    <3> QED BY <1>1, <3>1, <3>2 DEF Next
  <2> QED BY <2>1, <2>2, <2>3, <2>4
<1> QED BY <1>1, Inductive, PTL DEF Spec, ResultsKeepKeys

\* How a step of a handler moves continuations: no one else's, from the enqueue
\* only by the enqueue or a failure, and to the answer 202 only by the enqueue.
LEMMA StepPending ==
    ASSUME TypeOK, NEW h \in Handler,
           Request(h) \/ Resume(h) \/ Fail(h) \/ Retire(h)
    PROVE  /\ \A g \in Handler \ {h} : pending'[g] = pending[g]
           /\ pending[h].pc = "enqueue" => Enqueue(h) \/ Fail(h)
           /\ pending'[h].pc = "replied" /\ pending'[h].code = 202 => Enqueue(h)
           /\ stranded \subseteq stranded'
<1> USE DEF TypeOK
<1>1. CASE Request(h)
  <2>1. pending[h] = Idle /\ stranded' = stranded
        BY <1>1 DEF Request, PutBenchmark, PutCandidate, PutSuite, PostRun, PatchRun,
                    PostResults
  <2>2. PICK k : /\ pending' = [pending EXCEPT ![h] = k]
                 /\ ~(k.pc = "replied" /\ k.code = 202)
        BY <1>1 DEF Request, PutBenchmark, PutCandidate, PutSuite, PostRun, PatchRun,
                    PostResults
  <2> QED BY <2>1, <2>2
<1>2. CASE Fail(h) \/ Retire(h)
  <2>1. CASE Fail(h)
    <3>1. pending' = [pending EXCEPT ![h] = Reply(500)] /\ stranded \subseteq stranded'
          BY <2>1 DEF Fail
    <3> QED BY <2>1, <3>1
  <2>2. CASE Retire(h)
        BY <2>2 DEF Retire
  <2> QED BY <1>2, <2>1, <2>2
<1>3. CASE UpsertBenchmark(h) \/ UpsertCandidate(h) \/ UpsertSuite(h)
      BY <1>3 DEF UpsertBenchmark, UpsertCandidate, UpsertSuite
<1>4. CASE FindCandidateBenchmark(h) \/ FindSuiteBenchmark(h) \/ ReadBack(h)
      BY <1>4 DEF FindCandidateBenchmark, FindSuiteBenchmark, ReadBack
<1>5. CASE FindCandidate(h) \/ FindSuite(h)
      BY <1>5 DEF FindCandidate, FindSuite
<1>6. CASE FindBenchmark(h)
      BY <1>6 DEF FindBenchmark
<1>7. CASE CreateRun(h) \/ Enqueue(h)
      BY <1>7 DEF CreateRun, Enqueue
<1>8. CASE FindRunForStatus(h) \/ UpdateStatus(h)
      BY <1>8 DEF FindRunForStatus, UpdateStatus
<1>9. CASE FindRunForResults(h) \/ UpsertResult(h)
      BY <1>9 DEF FindRunForResults, UpsertResult
<1> QED BY <1>1, <1>2, <1>3, <1>4, <1>5, <1>6, <1>7, <1>8, <1>9 DEF Resume

\* A run that is stored but not queued is one whose request is still at the
\* enqueue, or is known to have failed; an accepted run is stored and queued.
THEOREM NoRunIsLostSilently == Spec => []NoSilentLoss
<1>1. Init => NoSilentLoss
      BY DEF Init, NoSilentLoss
<1>2. ASSUME IInv, NoSilentLoss, [Next]_vars PROVE NoSilentLoss'
  <2>1. ASSUME NEW h \in Handler, Request(h) \/ Resume(h) \/ Fail(h) \/ Retire(h)
        PROVE  NoSilentLoss'
    <3>1. CASE ~CreateRun(h)
      <4>1. sent \subseteq sent'
            BY <2>1, StepFrame DEF UpsertBenchmark, UpsertCandidate, UpsertSuite,
               FindBenchmark, CreateRun, Enqueue, UpdateStatus, UpsertResult, tables
      <4>2. UNCHANGED runs \/ UpdateStatus(h)
            BY <2>1, <3>1, StepFrame DEF UpsertBenchmark, UpsertCandidate, UpsertSuite,
               FindBenchmark, Enqueue, UpsertResult, tables
      <4>3. \A n \in RunName :
               /\ runs'[n] = NoRow <=> runs[n] = NoRow
               /\ runs[n] # NoRow => createMessage(runs'[n]) = createMessage(runs[n])
            BY <1>2, <4>2, UpdateStatusKeeps
      <4>4. ASSUME NEW n \in RunName, runs'[n] # NoRow
            PROVE  \/ createMessage(runs'[n]) \in sent'
                   \/ n \in stranded'
                   \/ \E g \in Handler : /\ pending'[g].pc = "enqueue"
                                         /\ pending'[g].run.name = n
        <5>1. CASE createMessage(runs[n]) \in sent \/ n \in stranded
              BY <1>2, <2>1, <4>1, <4>3, <4>4, <5>1, StepPending DEF IInv
        <5>2. CASE \E g \in Handler : /\ pending[g].pc = "enqueue"
                                      /\ pending[g].run.name = n
          <6>1. PICK g \in Handler : pending[g].pc = "enqueue" /\ pending[g].run.name = n
                BY <5>2
          <6>2. CASE g # h
                BY <1>2, <2>1, <6>1, <6>2, StepPending DEF IInv
          <6>3. CASE g = h /\ Enqueue(h)
            <7>1. createMessage(runs[n]) = createMessage(pending[h].run)
                  BY <1>2, <6>1, <6>3 DEF IInv, EnqueueOK
            <7> QED BY <4>3, <4>4, <6>3, <7>1 DEF Enqueue
          <6>4. CASE g = h /\ Fail(h)
                BY <6>1, <6>4 DEF Fail, Cut
          <6> QED BY <1>2, <2>1, <6>1, <6>2, <6>3, <6>4, StepPending DEF IInv
        <5> QED BY <1>2, <4>3, <4>4, <5>1, <5>2 DEF NoSilentLoss
      <4>5. ASSUME NEW g \in Handler, pending'[g].pc = "replied", pending'[g].code = 202
            PROVE  /\ runs'[pending'[g].run] # NoRow
                   /\ createMessage(runs'[pending'[g].run]) \in sent'
        <5>1. CASE g = h
          <6>1. Enqueue(h)
                BY <1>2, <2>1, <4>5, <5>1, StepPending DEF IInv
          <6> DEFINE run == pending[h].run
          <6>2. run.name \in RunName /\ runs[run.name] # NoRow
                /\ createMessage(runs[run.name]) = createMessage(run)
                BY <1>2, <6>1, ContinuationFields
                   DEF Enqueue, IInv, TypeOK, EnqueueOK, RunRow
          <6>3. pending'[h].run = run.name
            <7>1. \/ pending'[h] = [pc |-> "replied", code |-> 202, run |-> run.name]
                  \/ pending'[h] = Reply(500)
                  BY <1>2, <6>1 DEF Enqueue, IInv, TypeOK
            <7> QED BY <4>5, <5>1, <7>1
          <6>4. createMessage(run) \in sent'
                BY <6>1 DEF Enqueue
          <6> QED BY <4>3, <5>1, <6>2, <6>3, <6>4
        <5>2. CASE g # h
          <6>1. pending'[g] = pending[g] /\ pending[g].run \in RunName
                BY <1>2, <2>1, <4>5, <5>2, StepPending, ContinuationFields DEF IInv, TypeOK
          <6>2. /\ runs[pending[g].run] # NoRow
                /\ createMessage(runs[pending[g].run]) \in sent
                BY <1>2, <4>5, <6>1 DEF NoSilentLoss
          <6> QED BY <4>1, <4>3, <6>1, <6>2
        <5> QED BY <5>1, <5>2
      <4> QED BY <4>4, <4>5 DEF NoSilentLoss
    <3>2. CASE CreateRun(h)
      <4> DEFINE run == pending[h].run
      <4>1. run \in RunRow /\ run.name \in RunName /\ runs[run.name] = NoRow
            BY <1>2, <3>2, ContinuationFields
               DEF CreateRun, IInv, TypeOK, CreateRunOK, RunRow
      <4>2. \A n \in RunName : runs'[n] = IF n = run.name THEN run ELSE runs[n]
            BY <1>2, <3>2, <4>1 DEF CreateRun, IInv, TypeOK
      <4>3. sent' = sent /\ stranded \subseteq stranded'
            BY <3>2 DEF CreateRun
      <4>4. \/ pending'[h] = [pc |-> "enqueue", run |-> run]
            \/ pending'[h] = Reply(500) /\ run.name \in stranded'
            BY <1>2, <3>2 DEF CreateRun, IInv, TypeOK
      <4>5. \A g \in Handler \ {h} : pending'[g] = pending[g]
            BY <1>2, <2>1, StepPending DEF IInv
      <4>6. ASSUME NEW n \in RunName, runs'[n] # NoRow
            PROVE  \/ createMessage(runs'[n]) \in sent'
                   \/ n \in stranded'
                   \/ \E g \in Handler : /\ pending'[g].pc = "enqueue"
                                         /\ pending'[g].run.name = n
        <5>1. CASE n = run.name
              BY <4>4, <5>1
        <5>2. CASE n # run.name
          <6>1. runs'[n] = runs[n]
                BY <4>2, <5>2
          <6>2. pending[h].pc # "enqueue"
                BY <3>2 DEF CreateRun
          <6> QED BY <1>2, <4>3, <4>5, <4>6, <6>1, <6>2 DEF NoSilentLoss
        <5> QED BY <5>1, <5>2
      <4>7. ASSUME NEW g \in Handler, pending'[g].pc = "replied", pending'[g].code = 202
            PROVE  /\ runs'[pending'[g].run] # NoRow
                   /\ createMessage(runs'[pending'[g].run]) \in sent'
        <5>1. g # h
              BY <4>4, <4>7
        <5>2. pending'[g] = pending[g] /\ pending[g].run \in RunName
              BY <1>2, <4>5, <4>7, <5>1, ContinuationFields DEF IInv, TypeOK
        <5>3. /\ runs[pending[g].run] # NoRow
              /\ createMessage(runs[pending[g].run]) \in sent
              BY <1>2, <4>7, <5>2 DEF NoSilentLoss
        <5> QED BY <4>1, <4>2, <4>3, <5>2, <5>3
      <4> QED BY <4>6, <4>7 DEF NoSilentLoss
    <3> QED BY <3>1, <3>2
  <2>2. CASE Crash
        BY <1>2, <2>2 DEF Crash, tables, NoSilentLoss, Cut
  <2>3. CASE UNCHANGED vars
        BY <1>2, <2>3 DEF vars, NoSilentLoss
  <2> QED BY <1>2, <2>1, <2>2, <2>3 DEF Next
<1> QED BY <1>1, <1>2, Inductive, PTL DEF Spec

----------------------------------------------------------------------------
(* Refinement: every step of the laboratory is a step of the registry of    *)
(* runs, or none of its business.                                           *)

\* The registry is empty at first.
LEMMA RegistryInit == Init => Registry!Init
  BY DEF Init, Registry!Init

\* Run.create() registers a run; the checks made before it are still good.
LEMMA CreateRunRegisters ==
    ASSUME IInv, NEW h \in Handler, CreateRun(h)
    PROVE  Registry!Register(pending[h].run.name)
<1> DEFINE run == pending[h].run
<1>1. run \in RunRow /\ run.name \in RunName
      BY ContinuationFields DEF CreateRun, IInv, TypeOK, RunRow
<1>2. /\ Coherent(run) /\ run.status = "created"
      /\ run.name \in issued /\ runs[run.name] = NoRow
      BY DEF CreateRun, IInv, CreateRunOK
<1>3. runs' = [runs EXCEPT ![run.name] = run] /\ UNCHANGED <<results, issued, sent>>
      BY DEF CreateRun
<1>4. runs'[run.name] = run
      BY <1>1, <1>3 DEF IInv, TypeOK
<1>5. run \in Registry!RunRow
      BY <1>1 DEF RunRow, BenchmarkRow, CandidateRow, SuiteRow, Registry!RunRow,
         Registry!BenchmarkRow, Registry!CandidateRow, Registry!SuiteRow
<1>6. Registry!Coherent(run)
      BY <1>2 DEF Coherent, Registry!Coherent
<1> QED BY <1>2, <1>3, <1>4, <1>5, <1>6 DEF Registry!Register

\* A message that is sent is published.
LEMMA EnqueuePublishes ==
    ASSUME IInv, NEW h \in Handler, Enqueue(h)
    PROVE  Registry!Publish(pending[h].run.name)
<1> DEFINE run == pending[h].run
<1>1. runs[run.name] # NoRow /\ createMessage(runs[run.name]) = createMessage(run)
      BY DEF Enqueue, IInv, EnqueueOK
<1>2. sent' = sent \cup {createMessage(run)} /\ UNCHANGED <<runs, results, issued>>
      BY DEF Enqueue, tables
<1>3. Registry!createMessage(runs[run.name]) = createMessage(run)
      BY <1>1 DEF createMessage, Registry!createMessage
<1> QED BY <1>1, <1>2, <1>3 DEF Registry!Publish

\* A result that is written is reported.
LEMMA UpsertResultReports ==
    ASSUME IInv, NEW h \in Handler, UpsertResult(h)
    PROVE  Registry!Report(pending[h].row.name, pending[h].row.measures)
<1> DEFINE row == pending[h].row
<1>1. runs[row.name] # NoRow /\ row = ResultOf(runs[row.name], row.measures)
      BY DEF UpsertResult, IInv, ContinuationOK
<1>2. results' = [results EXCEPT ![row.name] = row] /\ UNCHANGED <<runs, issued, sent>>
      BY DEF UpsertResult
<1>3. Registry!ResultOf(runs[row.name], row.measures) = row
      BY <1>1 DEF ResultOf, Registry!ResultOf
<1> QED BY <1>1, <1>2, <1>3 DEF Registry!Report

\* Every other step is a small one of the registry, or none.
LEMMA RegistryStep == IInv /\ [Next]_vars => [Registry!Next]_(Registry!registryVars)
<1> SUFFICES ASSUME IInv, [Next]_vars
             PROVE  Registry!Next \/ UNCHANGED <<runs, results, issued, sent>>
    BY DEF Registry!registryVars
<1>1. ASSUME NEW h \in Handler, Request(h) \/ Resume(h) \/ Fail(h) \/ Retire(h)
      PROVE  Registry!Next \/ UNCHANGED <<runs, results, issued, sent>>
  <2>1. CASE UNCHANGED <<tables, sent, issued>>
        BY <2>1 DEF tables
  <2>2. CASE UpsertBenchmark(h) \/ UpsertCandidate(h) \/ UpsertSuite(h)
        BY <2>2 DEF UpsertBenchmark, UpsertCandidate, UpsertSuite
  <2>3. CASE FindBenchmark(h)
    <3>1. UNCHANGED <<runs, results, sent>>
          BY <2>3 DEF FindBenchmark, tables
    <3>2. issued' = issued \/ \E name \in RunName \ issued : issued' = issued \cup {name}
          BY <2>3 DEF FindBenchmark
    <3> QED BY <3>1, <3>2 DEF Registry!Next, Registry!Reserve
  <2>4. CASE CreateRun(h)
    <3>1. pending[h].run.name \in RunName
          BY <2>4, ContinuationFields DEF CreateRun, IInv, TypeOK, RunRow
    <3> QED BY <2>4, <3>1, CreateRunRegisters DEF Registry!Next
  <2>5. CASE Enqueue(h)
    <3>1. pending[h].run.name \in RunName
          BY <2>5, ContinuationFields DEF Enqueue, IInv, TypeOK, RunRow
    <3> QED BY <2>5, <3>1, EnqueuePublishes DEF Registry!Next
  <2>6. CASE UpdateStatus(h)
    <3>1. pending[h].name \in RunName /\ pending[h].status \in Status
          BY <2>6, ContinuationFields DEF UpdateStatus, IInv, TypeOK
    <3>2. runs[pending[h].name] # NoRow
          BY <2>6 DEF UpdateStatus, IInv, ContinuationOK
    <3>3. Registry!SetStatus(pending[h].name, pending[h].status)
          BY <2>6, <3>2 DEF UpdateStatus, Registry!SetStatus
    <3> QED BY <3>1, <3>3 DEF Registry!Next
  <2>7. CASE UpsertResult(h)
    <3>1. pending[h].row.name \in RunName /\ pending[h].row.measures \in Measures
          BY <2>7, ContinuationFields DEF UpsertResult, IInv, TypeOK, ResultRow
    <3> QED BY <2>7, <3>1, UpsertResultReports DEF Registry!Next
  <2> QED BY <1>1, <2>1, <2>2, <2>3, <2>4, <2>5, <2>6, <2>7, StepFrame
<1>2. CASE Crash
      BY <1>2 DEF Crash, tables, Registry!Next, Registry!Forget
<1>3. CASE UNCHANGED vars
      BY <1>3 DEF vars
<1> QED BY <1>1, <1>2, <1>3 DEF Next

\* Whatever the requests, their interleaving, failures and restarts, clients
\* and workers see the registry of runs that module RunRegistry specifies.
THEOREM LaboratoryImplementsRegistry == Spec => ImplementsRegistry
  BY RegistryInit, RegistryStep, Inductive, PTL
     DEF Spec, ImplementsRegistry, Registry!Spec
=============================================================================
