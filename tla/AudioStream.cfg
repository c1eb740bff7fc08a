SPECIFICATION Spec
CONSTANTS
    Capacity = 3
    BufferCount = 3
    NumSamples = 2
    Batch = 2
    MaxWaits = 2
    MaxAccepted = 4
INVARIANTS TypeOK NoUseAfterFree Quiescent StreamIntact
PROPERTIES DumpQuiet AddReturns PauseEnds StarvationEnds
