\* A durable database, two requests in progress, restarts; every request is answered.
SPECIFICATION FairSpec
CONSTANTS
    Handler = {h1, h2}
    RunName = {run1}
    Rev = {1}
    Status = {"created", "running"}
    Measures = {pass, fail}
    NoRow = NoRow
    Invalid = Invalid
    DatabaseMode = "azuresql"
    Overlay <- MCOverlay
    Name <- MCName
    RawName <- MCRawName
    Normal <- MCNormal
    RawRunName <- MCRawRunName
    NormalRun <- MCNormalRun
    BenchmarkBody <- MCBenchmarkBody
    CandidateBody <- MCCandidateBody
    SuiteBody <- MCSuiteBody
    RunRequestBody <- MCRunRequestBody
INVARIANTS
    TypeOK
    ReferencesResolve
    RunsCoherent
    MessagesHaveRuns
    ResultsMatchRuns
    NoSilentLoss
PROPERTIES
    ReadBackFinds
    ImplementsRegistry
    ResultsKeepKeys
    EveryRequestAnswered
