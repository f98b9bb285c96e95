----------------------------- MODULE MCService -------------------------------
(****************************************************************************)
(* A small instance of Service: the demo runs beside commands and requests  *)
(* that write the entities it uses in other shapes, or that are refused.    *)
(****************************************************************************)
EXTENDS Service

CONSTANTS demo, cli, other,    \* the three clients
          r1                   \* the run other clients speak of

MCName == {"benchmark1", "candidate1", "suite1"}
MCNormal == [n \in MCName \cup {"Benchmark1", "Candidate1"} |->
                CASE n = "Benchmark1" -> "benchmark1"
                  [] n = "Candidate1" -> "candidate1"
                  [] OTHER -> n]
MCNormalRun == [n \in RunName |-> n]
MCKindOf == [t \in {"Candidate", "benchmark", "run", "suite"} |->
                IF t = "Candidate" THEN "candidate" ELSE t]

With(entity, fields) == Obj(fields @@ entity.of)
EnvOf(x) == [env |-> Obj([x |-> Str(x)])]

\* The demo's entities under other spellings and with other optional fields, and
\* two files that do not validate.
MCFile ==
    [Benchmark1 |-> With(benchmark1, [name |-> Str("Benchmark1"), createdAt |-> Str("day")]),
     Candidate1 |-> With(candidate1, [name |-> Str("Candidate1"),
                                      benchmark |-> Str("Benchmark1")] @@ EnvOf("x")),
     Suite1 |-> Obj([f \in DOMAIN suite1.of \ {"volumes"} |-> suite1.of[f]]
                       @@ [properties |-> Obj([p |-> Str("q")])]),
     NoImage |-> With(benchmark1,
                      [stages |-> Arr(<<Obj([name |-> Str("s"), kind |-> Str("container")])>>)]),
     NoTarget |-> With(suite1,
                      [volumes |-> Arr(<<Obj([name |-> Str("v"), type |-> Str("blob")])>>)])]

MCRawRequest ==
    [cmd |-> Request("PUT", "candidate", "", With(candidate1, [cmd |-> Null, size |-> Num(1)])),
     env |-> Request("PUT", "candidate", "", With(candidate1, [env |-> Null])),
     date |-> Request("PUT", "suite", "", With(suite1, [createdAt |-> Str("?")])),
     dangling |-> Request("PUT", "suite", "", With(suite1, [benchmark |-> Str("candidate1")])),
     running |-> Request("PATCH", "run", "", Obj([status |-> Str("running")])),
     odd |-> Request("PATCH", "run", "", Obj([status |-> Str("odd")])),
     again |-> Request("POST", "result", "", Obj([measures |-> Obj([failed |-> Num(0), name |-> Str("x")])])),
     list |-> Request("POST", "result", "", Obj([measures |-> Arr(<<Num(1)>>)])),
     one |-> Request("ONE", "run", "", Empty),
     query |-> Request("ALL", "result", "", Obj([benchmark |-> Str("benchmark1")]))]

\* The demo; commands of the CLI; requests of other clients.
MCCommand ==
    demo :> {[verb |-> "demo"], [verb |-> "connect", service |-> "lab"]}
    @@ cli :>
         {[verb |-> "connect", service |-> None],
          [verb |-> "create", type |-> "benchmark", file |-> "Benchmark1"],
          [verb |-> "create", type |-> "Candidate", file |-> "Candidate1"],
          [verb |-> "create", type |-> "suite", file |-> "Suite1"],
          [verb |-> "create", type |-> "benchmark", file |-> "NoImage"],
          [verb |-> "create", type |-> "suite", file |-> "NoTarget"],
          [verb |-> "create", type |-> "run", file |-> "missing"],
          [verb |-> "show", type |-> "Candidate", name |-> "Candidate1"],
          [verb |-> "show", type |-> "run", name |-> "?"],
          [verb |-> "show", type |-> "suite", name |-> None],
          [verb |-> "list", type |-> "run"],
          [verb |-> "list", type |-> "result"],
          [verb |-> "run", candidate |-> "Candidate1", suite |-> "suite1"],
          [verb |-> "results", benchmark |-> "Benchmark1", suite |-> "suite1"]}
    @@ other :> ([verb : {"http"}, request : DOMAIN MCRawRequest, run : {r1}]
                 \cup [verb : {"http"}, request : {"one", "running", "again"}, run : {"?"}])

MCCaller ==
    demo :> {[azp |-> "app", roles |-> {}]}
    @@ cli :> {[azp |-> "cli", roles |-> {"user"}], [azp |-> "cli", roles |-> {"admin"}]}
    @@ other :> {[azp |-> "cli", roles |-> {"benchmark"}], NoToken}
=============================================================================
