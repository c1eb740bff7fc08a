SPECIFICATION Spec
CONSTANTS
    MaxWrites = 3
INVARIANT CleanIsStored
PROPERTIES NoRegression RetriedUntilStored
