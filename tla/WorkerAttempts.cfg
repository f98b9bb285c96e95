\* Are messages that are given up tried maxAttemptsPerMessage times?
SPECIFICATION Spec
CONSTANTS
    Message = {m1, m2}
    Batch = {b1, b2}
    BatchSize = 1
    MaxAttempts = 2
    CountCap = 3
    MaxImmediates = 1
    NoReceipt = NoReceipt
INVARIANTS
    GivenUpAfterMaxAttempts
