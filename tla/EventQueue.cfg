SPECIFICATION Spec
CONSTANTS
    Wrap = 6
    MaxOps = 2
    Periods = {4}
    SpDelay = 3
    Deltas = {0, 1, 2, 5}
    MaxTasks = 2
    MaxEvents = 4
    MaxCycles = 5
INVARIANTS OneOfEach DeltasExact RaisedOrArmed FitsQueue
PROPERTIES BlanksRecur
