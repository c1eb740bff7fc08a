-------------------------------- MODULE RspTask --------------------------------
(***************************************************************************)
(* The tasks the guest gives to the RSP (RSP_HLE_ProcessTask, with the      *)
(* registers through which it is started, stopped and held back), composed *)
(* with AudioTask, which runs one kind of them.                             *)
(*                                                                         *)
(* A task is run when SP_STATUS_HALT is cleared.  A graphics task that      *)
(* finds the RDP frozen is only looked at again when it is unfrozen, and    *)
(* SP_STATUS_HALT alone says whether one waits.  Which interrupts a task    *)
(* raises is part of Interrupts and of EventQueue.                          *)
(***************************************************************************)
EXTENDS AudioTask

VARIABLES
    task,               \* the kind of the task in DMEM
    halt, broke,        \* SP_STATUS_HALT and SP_STATUS_BROKE
    freeze,             \* DPC_STATUS_FREEZE
    begun, runs,        \* history: it was started, and run so often since
    overlap             \* history: an earlier task's event was still to come

registers == <<halt, broke, freeze>>
history == <<begun, runs, overlap>>
rspVars == <<vars, task, registers, history>>

\* "other" are the tasks that run at once, whatever the RDP does: the boot code
\* and the decoders of pictures.  "video" stands for all that cannot be handled.
Kinds == {"graphics", "audio", "video", "other"}

Reset ==
    /\ task' = "none" /\ halt' = TRUE /\ broke' = FALSE /\ freeze' = FALSE
    /\ begun' = FALSE /\ runs' = 0 /\ overlap' = FALSE

RspInit ==
    /\ Init /\ task = "none" /\ halt = TRUE /\ broke = FALSE /\ freeze = FALSE
    /\ begun = FALSE /\ runs = 0 /\ overlap = FALSE
-------------------------------------------------------------------------------
\* RSP_HLE_Finished
Finished == halt' = TRUE /\ broke' = TRUE

\* Mutant: the RSP is not halted while the worker runs the list.
Hand_NotHalted(b) == ProcessAList /\ halt' = FALSE /\ broke' = b

\* CAudioPluginCTR::ProcessAList halts the RSP before anything else.
Hand(b) == ProcessAList /\ halt' = TRUE /\ broke' = b

\* RSP_HLE_ProcessTask, while HALT is clear and BROKE is b, for a task that has
\* run n times.  A display list that begins a frame draws the menu.
ProcessTask(n, b) ==
    \/ /\ task = "video" \/ (task = "graphics" /\ freeze')
       /\ halt' = FALSE /\ broke' = b /\ runs' = n /\ UNCHANGED vars
    \/ /\ task = "graphics" /\ ~freeze'
       /\ Finished /\ runs' = n + 1 /\ ChangeMode
    \/ /\ task = "other"
       /\ Finished /\ runs' = n + 1 /\ UNCHANGED vars
    \/ /\ task = "audio" /\ mode = "disabled"
       /\ Finished /\ runs' = n + 1 /\ UNCHANGED vars
    \/ /\ task = "audio" /\ Hand(b) /\ runs' = n + 1

\* osSpTaskLoad, which the guest uses while the RSP is halted.
Load ==
    /\ at = "run" /\ halt
    /\ task' \in Kinds
    /\ begun' = FALSE /\ runs' = 0 /\ overlap' = FALSE
    /\ UNCHANGED <<vars, registers>>

\* MemoryUpdateSPStatus with HALT and BROKE cleared, as osSpTaskStartGo does.
Start ==
    /\ at = "run" /\ task # "none"
    /\ begun' = TRUE /\ overlap' = (events > 0)
    /\ freeze' = freeze
    /\ ProcessTask(0, FALSE)
    /\ UNCHANGED task

\* ... and with HALT set.
HaltRsp ==
    /\ at = "run"
    /\ halt' = TRUE /\ begun' = FALSE
    /\ UNCHANGED <<vars, task, broke, freeze, runs, overlap>>

\* MemoryUpdateDP
Freeze ==
    /\ at = "run" /\ freeze' = TRUE
    /\ UNCHANGED <<vars, task, halt, broke, history>>

Unfreeze ==
    /\ at = "run" /\ freeze' = FALSE
    /\ IF halt THEN UNCHANGED <<vars, halt, broke, runs>> ELSE ProcessTask(runs, broke)
    /\ UNCHANGED <<task, begun, overlap>>

\* The list has been run on the emulation thread, or the AUDIO event has waited
\* for the worker: the task is reported.
AudioDone == (SyncUcode \/ Report) /\ Finished /\ UNCHANGED <<task, freeze, history>>

\* A ROM is opened: Memory_Reset and ROM_ReBoot.
Open == Create /\ Reset

Background ==
    /\ \/ AudioEvent \/ Capture \/ Captured \/ Close \/ WaitTest \/ WaitWake
       \/ ClearFinished \/ SetBusy \/ Request \/ Release \/ Stop \/ Wakeup \/ Join \/ CloseHandles
       \/ Worker
    /\ UNCHANGED <<task, registers, history>>

RspNext ==
    Load \/ Start \/ HaltRsp \/ Freeze \/ Unfreeze \/ AudioDone \/ Open \/ Background

\* Both threads are scheduled, as in AudioTask.
RspSpec == RspInit /\ [][RspNext]_rspVars /\ WF_vars(Pending) /\ WF_vars(Worker)
-------------------------------------------------------------------------------
\* A task that has been started runs exactly once and then halts the RSP, at the
\* latest when its AUDIO event comes; or nothing handles it; or it is a frozen
\* graphics task, and HALT is clear so that the unfreeze will run it.  Only an
\* event that was still to come when the task was started can break this
\* (RSP_HLE.cpp 291-344, Memory.cpp 744-754, CPU.cpp 715-725).
RunsOnce ==
    at = "run" /\ begun /\ ~overlap =>
        \/ runs = 1 /\ halt /\ (broke \/ (task = "audio" /\ events > 0))
        \/ runs = 0 /\ ~halt /\ ~broke /\ (task = "video" \/ (task = "graphics" /\ freeze))
================================================================================
