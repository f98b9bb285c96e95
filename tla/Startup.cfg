\* The laboratory and the worker, each in every environment, with late identities,
\* failing calls and crashes.
SPECIFICATION FairSpec
CONSTANTS
    Service = {"laboratory", "worker"}
    Environment <- MCEnvironment
    Malformed = "malformed"
    Host = {"host1", "host2"}
    Table = {"Benchmark", "Run"}
    tokenRetryLimit = 3
    retryMax = 3
    None = None
INVARIANTS
    TypeOK
    UpMeansUsable
    EarlierRunsReportHere
PROPERTIES
    LaterAttemptsSucceed
    ComesUp
