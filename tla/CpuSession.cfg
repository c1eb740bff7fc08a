SPECIFICATION Spec
CONSTANTS
    Games = {g1, g2}
    NoGame = NoGame
INVARIANTS ClosedClean
PROPERTIES OnlyQueuedMisnamed OnlyLoadRunsWithoutRom HaltEnds ExitEnds
