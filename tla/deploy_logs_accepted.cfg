\* Two batches of the same phase in flight at once.
SPECIFICATION Spec
CONSTANTS
    b1 = b1  b2 = b2  b3 = b3  b4 = b4
    Batch = {b1, b2}
    Numbered = {b1, b2}
    NoStatus = NoStatus
    BatchStatus <- StatusOfBatch
    Req = {r1, r2}
    EffectStatus = {}
    MaxSends = 1
INVARIANT AcceptedBatchIsAppended
CHECK_DEADLOCK FALSE
