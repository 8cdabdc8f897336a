SPECIFICATION Spec
CONSTANTS
    Day = 3
    Hour = 2
    KeepFor = 2
    DropsMax = 1
    None = None
    MaxTime = 5
    MaxTrouble = 2
    RecordTTL = 2
INVARIANTS TypeOK DeltaTells DropsTell
PROPERTIES UnseenWarns AckClears
