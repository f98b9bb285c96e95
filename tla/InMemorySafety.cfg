\* Two overlapping calls of processBatch(), batches of two.
SPECIFICATION Spec
CONSTANTS
    Message = {m1, m2}
    Batch = {b1, b2}
    BatchSize = 2
    MaxAttempts = 2
    CountCap = 3
    MaxImmediates = 2
    NoTimer = NoTimer
SYMMETRY MCSymmetry
INVARIANTS
    TypeOK
    NeitherLostNorDoubled
    AttemptsBounded
