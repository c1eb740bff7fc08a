SPECIFICATION Spec
CONSTANTS
    Capacity = 3
    MaxCount = 3
    MaxAccepted = 5
INVARIANTS NoDataRace
PROPERTIES SizeExact IsQueue
