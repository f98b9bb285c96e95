\* One run, from its POST to the end of its workflows.
SPECIFICATION SandboxFairSpec
CONSTANTS
    Message = {run1}
    Batch = {b1, b2}
    NoReceipt = NoReceipt
    BatchSize = 1
    MaxAttempts = 2
    CountCap = 3
    MaxImmediates = 1
    Name = {n}
    Rev = {1}
    Status = {"created", "running", "completed"}
    Measures = {pass}
    NoRow = NoRow
    Overlay <- MCOverlay
INVARIANTS
    StatusTellsExecution
    SuccessfulRunsComplete
    ExecutedRunsAreRegistered
PROPERTIES
    EveryRunEnds
