\* Three slots, two of them reused.
CONSTANTS
    QueueMax = 3
    MaxPushes = 5
    None = None
SPECIFICATION Spec
INVARIANTS TypeOK BarShowsHead
PROPERTY FifoSpec
