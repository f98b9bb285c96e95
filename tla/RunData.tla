------------------------------- MODULE RunData -------------------------------
(****************************************************************************)
(* The records the laboratory stores and sends: the columns of the tables   *)
(* in packages/laboratory/src/sequelize_laboratory/models and the run       *)
(* message of packages/sds/src/messages.ts.                                 *)
(*                                                                          *)
(* A row keeps its primary key and its references to other rows; everything *)
(* else it stores (pipelines, images, volumes, properties, author) is one   *)
(* value `rev', a member of Rev.  The content of a run message is a         *)
(* function of the run row it is made from, so a message carries that row's *)
(* three snapshots.                                                         *)
(****************************************************************************)

CONSTANTS
    Name,       \* normalized names of benchmarks, candidates and suites
    RunName,    \* run names: the uuids v1() returns
    Rev,        \* contents of a benchmark, a candidate or a suite
    Overlay,    \* contents laid over those a row has: see Upserted
    Status,     \* the RunStatus enumeration
    Measures,   \* what a benchmark reports for a run
    NoRow       \* the result of findOne() when no row has the key

BenchmarkRow == [name : Name, rev : Rev]
CandidateRow == [name : Name, benchmark : Name, rev : Rev]
SuiteRow     == [name : Name, benchmark : Name, rev : Rev]

\* A run row holds copies of the three rows the request named, not references.
RunRow == [name : RunName, status : Status, benchmark : BenchmarkRow,
           candidate : CandidateRow, suite : SuiteRow]

ResultRow == [name : RunName, benchmark : Name, suite : Name,
              candidate : Name, measures : Measures]

RunMessage == [name : RunName, benchmark : BenchmarkRow,
               candidate : CandidateRow, suite : SuiteRow]

ASSUME RowAssumption ==
    /\ "created" \in Status
    /\ NoRow \notin BenchmarkRow \cup CandidateRow \cup SuiteRow
                        \cup RunRow \cup ResultRow

ASSUME OverlayAssumption == Overlay \in [Rev -> [Rev -> Rev]]

----------------------------------------------------------------------------

\* What Model.upsert() makes of the row a table has and the one it is given.  It
\* updates the columns the given row has a value for: where a request leaves an
\* optional field out, the old row's value stays.
Upserted(old, row) ==
    IF old = NoRow THEN row ELSE [row EXCEPT !.rev = Overlay[old.rev][row.rev]]

\* createMessage(): it reads everything of the run but its status.
createMessage(run) ==
    [name |-> run.name, benchmark |-> run.benchmark,
     candidate |-> run.candidate, suite |-> run.suite]

\* The row processRunResults() stores for a run.
ResultOf(run, measures) ==
    [name |-> run.name, benchmark |-> run.benchmark.name,
     suite |-> run.suite.name, candidate |-> run.candidate.name,
     measures |-> measures]

\* The snapshots of a run or of a run message belong together: candidate and
\* suite were both written for the benchmark the run is of.
Coherent(run) ==
    /\ run.candidate.benchmark = run.benchmark.name
    /\ run.suite.benchmark = run.benchmark.name
=============================================================================
