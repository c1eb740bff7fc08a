SPECIFICATION Spec
CONSTANTS
    Sources = {"SP", "SI", "VI", "DP"}
    Saved = {}
INVARIANT CauseAgrees
