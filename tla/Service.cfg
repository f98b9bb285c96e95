\* The demo, a command of the CLI and another client's request, with one restart of
\* a laboratory whose database is in memory.
SPECIFICATION Spec
CONSTANTS
    IsoDate = {"now", "day"}
    demo = demo
    cli = cli
    other = other
    Client = {demo, cli, other}
    r1 = r1
    RunName = {r1, r2}
    NoToken = NoToken
    AuthMode = "aad"
    AllowedApp = {"app"}
    DatabaseMode = "inmemory"
    Invalid = Invalid
    None = None
    MaxRestarts = 1
    Caller <- MCCaller
    Command <- MCCommand
    RawRequest <- MCRawRequest
    File <- MCFile
    Name <- MCName
    Normal <- MCNormal
    NormalRun <- MCNormalRun
    KindOf <- MCKindOf
INVARIANTS
    ServiceTypeOK
    AnswersDecode
    AnnouncedRunsAreThere
    ResultsHaveRuns
PROPERTIES
    RefusalsWriteNothing
    ResultsFoundByAnySpelling
CHECK_DEADLOCK FALSE
