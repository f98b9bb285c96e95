------------------------------- MODULE Schema --------------------------------
(****************************************************************************)
(* The schemas of packages/sds/src/laboratory/interfaces.ts: which JSON     *)
(* values their io-ts decoders accept.  The laboratory validates what it    *)
(* receives with them, and its clients what they are answered.              *)
(*                                                                          *)
(* A JSON value is tagged with its kind.  What an array or an object is of  *)
(* is a function, from its indices or from the names of its fields.         *)
(****************************************************************************)

CONSTANT IsoDate    \* the texts DateTime.fromISO() can read

Str(s)  == [is |-> "string", of |-> s]
Num(n)  == [is |-> "number", of |-> n]
Bool(b) == [is |-> "boolean", of |-> b]
Arr(f)  == [is |-> "array", of |-> f]
Obj(f)  == [is |-> "object", of |-> f]
Null    == [is |-> "null", of |-> << >>]
Empty   == Obj(<< >>)

----------------------------------------------------------------------------
(* The combinators of io-ts.  t.type and t.interface ask for a field,       *)
(* t.partial for its type where it is there; fields they do not name pass,  *)
(* and t.intersection is a conjunction.                                     *)

IsString(v)       == v.is = "string"
IsBoolean(v)      == v.is = "boolean"
IsObject(v)       == v.is = "object"
Literal(v, s)     == v.is = "string" /\ v.of = s
ArrayOf(T(_), v)  == v.is = "array" /\ \A i \in DOMAIN v.of : T(v.of[i])
RecordOf(T(_), v) == v.is = "object" /\ \A f \in DOMAIN v.of : T(v.of[f])
Has(v, f, T(_))   == v.is = "object" /\ f \in DOMAIN v.of /\ T(v.of[f])
May(v, f, T(_))   == v.is = "object" /\ (f \in DOMAIN v.of => T(v.of[f]))

Strings(v) == ArrayOf(IsString, v)
StringMap(v) == RecordOf(IsString, v)

----------------------------------------------------------------------------

DateType(v) == v.is = "string" /\ v.of \in IsoDate

ClientConnectionInfoType(v) ==
    \/ /\ Has(v, "type", LAMBDA x : Literal(x, "aad"))
       /\ Has(v, "clientId", IsString)
       /\ Has(v, "authority", IsString)
       /\ Has(v, "scopes", Strings)
    \/ Has(v, "type", LAMBDA x : Literal(x, "unauthenticated"))

EntityBaseType(v) ==
    /\ Has(v, "name", IsString)
    /\ Has(v, "author", IsString)
    /\ Has(v, "apiVersion", IsString)
    /\ May(v, "createdAt", DateType)
    /\ May(v, "updatedAt", DateType)

PipelineStageVolumeMountType(v) ==
    /\ Has(v, "name", IsString)
    /\ Has(v, "path", IsString)
    /\ Has(v, "readonly", IsBoolean)

\* Only a stage of its own container names an image; the rest is common to both
\* members of the union.
PipelineStageType(v) ==
    /\ Has(v, "name", IsString)
    /\ \/ Has(v, "kind", LAMBDA x : Literal(x, "candidate"))
       \/ /\ Has(v, "kind", LAMBDA x : Literal(x, "container"))
          /\ Has(v, "image", IsString)
    /\ May(v, "cmd", Strings)
    /\ May(v, "env", StringMap)
    /\ May(v, "volumes", LAMBDA x : ArrayOf(PipelineStageVolumeMountType, x))

BenchmarkType(v) ==
    /\ EntityBaseType(v)
    /\ Has(v, "stages", LAMBDA x : ArrayOf(PipelineStageType, x))

CandidateType(v) ==
    /\ EntityBaseType(v)
    /\ Has(v, "benchmark", IsString)
    /\ Has(v, "image", IsString)
    /\ May(v, "env", StringMap)

\* A volume has a target, or is ephemeral and has none.
SuiteVolumeType(v) ==
    /\ Has(v, "name", IsString)
    /\ \/ Has(v, "type", IsString) /\ Has(v, "target", IsString)
       \/ /\ Has(v, "type", LAMBDA x : Literal(x, "ephemeral"))
          /\ "target" \notin DOMAIN v.of

SuiteType(v) ==
    /\ EntityBaseType(v)
    /\ Has(v, "benchmark", IsString)
    /\ May(v, "properties", StringMap)
    /\ May(v, "volumes", LAMBDA x : ArrayOf(SuiteVolumeType, x))

RunStatus == {"created", "running", "completed", "failed"}
RunStatusType(v) == v.is = "string" /\ v.of \in RunStatus

RunType(v) ==
    /\ EntityBaseType(v)
    /\ Has(v, "benchmark", BenchmarkType)
    /\ Has(v, "suite", SuiteType)
    /\ Has(v, "candidate", CandidateType)
    /\ Has(v, "status", RunStatusType)

RunRequestType(v) == Has(v, "candidate", IsString) /\ Has(v, "suite", IsString)

UpdateRunStatusType(v) == Has(v, "status", RunStatusType)

MeasuresType(v) == IsObject(v)

ReportRunResultsType(v) == Has(v, "measures", MeasuresType)

ResultType(v) ==
    /\ EntityBaseType(v)
    /\ Has(v, "benchmark", IsString)
    /\ Has(v, "suite", IsString)
    /\ Has(v, "candidate", IsString)
    /\ Has(v, "measures", MeasuresType)

\* The decoder of the entities of each kind.
EntityType(kind, v) ==
    CASE kind = "benchmark" -> BenchmarkType(v)
      [] kind = "candidate" -> CandidateType(v)
      [] kind = "suite"     -> SuiteType(v)
      [] kind = "run"       -> RunType(v)
      [] kind = "result"    -> ResultType(v)
=============================================================================
