\* Does complete() remove a message from the queue?
SPECIFICATION Spec
CONSTANTS
    Message = {m1, m2}
    Batch = {b1, b2}
    BatchSize = 2
    MaxAttempts = 2
    CountCap = 3
    MaxImmediates = 2
    NoTimer = NoTimer
INVARIANTS
    CompleteRemoves
