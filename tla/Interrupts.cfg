SPECIFICATION Spec
CONSTANTS
    Sources = {"SI", "VI", "DP"}
    Saved <- MCSaved
PROPERTIES OnlyKnownGaps MissedEnds InterruptTaken TimerTaken
