\* Does stop() keep the processor from asking for messages?
SPECIFICATION Spec
CONSTANTS
    Message = {m1, m2}
    Batch = {b1, b2}
    BatchSize = 1
    MaxAttempts = 2
    CountCap = 3
    MaxImmediates = 1
    NoReceipt = NoReceipt
PROPERTIES
    StopStopsReceiving
