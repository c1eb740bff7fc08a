SPECIFICATION RspSpec
CONSTANTS
    MaxTasks = 3
INVARIANTS OneUcodeOnceReported WaitedForAll RunsOnce
PROPERTIES WaitEnds TasksProcessed CloseCompletes
