\* The first message of an empty queue.
CONSTANTS
    QueueMax = 3
    MaxPushes = 5
    None = None
SPECIFICATION Spec
INVARIANT CurrentNamesHead
