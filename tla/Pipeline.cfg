\* All small pipelines, candidates and suites.
SPECIFICATION Spec
CONSTANTS
    None = None
    Word <- Words
    Run <- SmallRuns
    Key = {None, k}
INVARIANTS
    EnvironmentsAsConfigured
    TagsFollowEarlierStages
    StepsRunTheirStages
    MountsHaveClaims
CHECK_DEADLOCK FALSE
