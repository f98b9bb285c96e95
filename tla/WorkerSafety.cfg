\* Two overlapping calls of processBatch(), batches of two.
SPECIFICATION Spec
CONSTANTS
    Message = {m1, m2}
    Batch = {b1, b2}
    BatchSize = 2
    MaxAttempts = 2
    CountCap = 3
    MaxImmediates = 1
    NoReceipt = NoReceipt
SYMMETRY MCSymmetry
INVARIANTS
    TypeOK
    AttemptsBounded
    RemovedOnlyWhenDone
PROPERTIES
    LateCompleteHarmless
