---------------------------- MODULE MCLaboratory -----------------------------
(****************************************************************************)
(* Small instances of Laboratory.  One candidate and one suite, each of     *)
(* which may be written for either of two benchmarks, are what it takes for *)
(* a run request to read rows that do not belong together.  A raw name      *)
(* differs from its normal form ("B1" is "b1") or has none ("?").           *)
(****************************************************************************)
EXTENDS Laboratory

MCName == {"b1", "b2", "c", "s"}
MCRawName == MCName \cup {"B1", "?"}
MCNormal == [n \in MCRawName |-> CASE n = "B1" -> "b1"
                                   [] n = "?" -> Invalid
                                   [] OTHER -> n]

MCRawRunName == RunName \cup {"?"}
MCNormalRun == [n \in MCRawRunName |-> IF n = "?" THEN Invalid ELSE n]

MCBenchmarkBody == [name : {"B1", "b2", "?"}, rev : Rev]
MCCandidateBody == [name : {"c"}, benchmark : {"B1", "b2", "?"}, rev : Rev]
MCSuiteBody == [name : {"s"}, benchmark : {"b1", "b2"}, rev : Rev]
MCRunRequestBody == [candidate : {"c", "?"}, suite : {"s"}]

\* Every request has all the fields.
MCOverlay == [old \in Rev |-> [new \in Rev |-> new]]
=============================================================================
