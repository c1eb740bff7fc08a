------------------------------ MODULE Interrupts ------------------------------
(***************************************************************************)
(* The interrupts of the MIPS interface, the CPU's CAUSE and STATUS, and    *)
(* the jobs by which they are served (Core/Memory.cpp, Memory_WriteValue,  *)
(* DMA.cpp, RSP_HLE.cpp, Interrupt.h, Interrupts.cpp, R4300.cpp, CPU.cpp    *)
(* and SaveState.cpp).                                                     *)
(*                                                                         *)
(* The CPU executes an operation only when there is no job; at its end the *)
(* counter is updated and an event may be due; then every job is served.   *)
(* CAUSE_IP3 repeats what MI_INTR_REG and MI_INTR_MASK_REG say, but only    *)
(* where somebody thought of updating it.                                  *)
(***************************************************************************)
EXTENDS Integers

CONSTANTS
    Sources,            \* the interrupts of MI_INTR_REG that the guest uses
    Saved               \* the save states that may be loaded

ASSUME SourcesAssumption ==
    Sources \subseteq {"SP", "SI", "AI", "VI", "PI", "DP"} /\ "VI" \in Sources

VARIABLES
    intr, mask,         \* MI_INTR_REG and MI_INTR_MASK_REG
    cause,              \* the pending bits of C0_CAUSE
    sr,                 \* C0_SR: SR_IE, SR_EXL, SR_ERL and the CAUSE bits let through
    jobs,               \* StuffToDo
    exception,          \* gExceptionVector is set
    counting,           \* an operation is over and the counter not updated
    delaysSi            \* g_ROM.GameHacks = BODY_HARVEST, one way or the other

vars == <<intr, mask, cause, sr, jobs, exception, counting, delaysSi>>

Lines == {"IP3", "IP8"}
Jobs == {"INTERRUPTS", "EXCEPTIONS"}
Status == [ie : BOOLEAN, exl : BOOLEAN, erl : BOOLEAN, im : SUBSET Lines]

\* SaveState_SaveToFile is called by a vertical blank that has just raised its
\* interrupt and updated CAUSE; the jobs are not saved.
ASSUME SavedAssumption ==
    \A s \in Saved :
        /\ s.intr \subseteq Sources /\ s.mask \subseteq Sources /\ s.cause \subseteq Lines
        /\ s.sr \in Status
        /\ "VI" \in s.intr /\ ("IP3" \in s.cause <=> s.intr \cap s.mask # {})

\* ROM open: STATUS is 0x70400004.
Init ==
    /\ intr = {} /\ mask = {} /\ cause = {}
    /\ sr = [ie |-> FALSE, exl |-> FALSE, erl |-> TRUE, im |-> {}]
    /\ jobs = {} /\ exception = FALSE /\ counting = FALSE /\ delaysSi \in BOOLEAN
-------------------------------------------------------------------------------
\* What an operation does to the interrupt registers is built from one state
\* of them to the next.
Regs == [intr |-> intr, cause |-> cause, jobs |-> jobs]

Store(r) == intr' = r.intr /\ cause' = r.cause /\ jobs' = r.jobs

\* R4300_Interrupt_UpdateCause3 with the mask m.
UpdateCause3(r, m) ==
    IF r.intr \cap m = {}
    THEN [r EXCEPT !.cause = @ \ {"IP3"}]
    ELSE [r EXCEPT !.cause = @ \cup {"IP3"}, !.jobs = @ \cup {"INTERRUPTS"}]

\* Mutant: the bit is set and CAUSE left as it is.
Raise_NoUpdate(r, source) == [r EXCEPT !.intr = @ \cup ({source} \cap Sources)]

Raise(r, source) ==
    UpdateCause3([r EXCEPT !.intr = @ \cup ({source} \cap Sources)], mask)

\* Mutant: the bit is cleared and CAUSE left as it is.
Clear_NoUpdate(r, source) == [r EXCEPT !.intr = @ \ {source}]

Clear(r, source) == UpdateCause3([r EXCEPT !.intr = @ \ {source}], mask)

\* The display list's FinishRDPJob: the job is added and CAUSE is not updated.
FinishRDPJob(r) ==
    [r EXCEPT !.intr = @ \cup ({"DP"} \cap Sources), !.jobs = @ \cup {"INTERRUPTS"}]

\* RSP_HLE_Finished, with and without SP_STATUS_INTR_BREAK.
Finished(r) == {r, Raise(r, "SP")}

\* RSP_HLE_ProcessTask: nothing now (a frozen or an asynchronous task), a task
\* without a display list, one whose list syncs, or one that is skipped.
ProcessTask(r) ==
    {r} \cup Finished(r) \cup Finished(FinishRDPJob(r)) \cup Finished(Raise(r, "DP"))

Op == jobs = {} /\ ~counting /\ counting' = TRUE /\ UNCHANGED delaysSi
-------------------------------------------------------------------------------
\* The guest's operations.

\* MemoryUpdateSPStatus: the interrupt is set or cleared, then a task may start.
WriteSPStatus ==
    /\ Op
    /\ \E r \in {Regs, Raise(Regs, "SP"), Clear(Regs, "SP")} : \E t \in ProcessTask(r) : Store(t)
    /\ UNCHANGED <<mask, sr, exception>>

\* MemoryUpdateDP clears DPC_STATUS_FREEZE while the RSP is not halted.
WriteDPCStatus ==
    /\ Op
    /\ \E t \in ProcessTask(Regs) : Store(t)
    /\ UNCHANGED <<mask, sr, exception>>

\* DPC_END_REG, DMA_PI_*, DMA_SI_CopyFromDRAM and the PIF control byte.
Transfer ==
    /\ Op
    /\ \E source \in {"DP", "PI", "SI"} : Store(Raise(Regs, source))
    /\ UNCHANGED <<mask, sr, exception>>

\* DMA_SI_CopyToDRAM
ReadPif ==
    /\ Op
    /\ IF delaysSi
       THEN Store([Regs EXCEPT !.intr = @ \cup ({"SI"} \cap Sources)])
       ELSE Store(Raise(Regs, "SI"))
    /\ UNCHANGED <<mask, sr, exception>>

\* MI_INIT_MODE_REG, VI_CURRENT_REG, AI_STATUS_REG, PI_STATUS_REG and SI_STATUS_REG.
Acknowledge ==
    /\ Op
    /\ \E source \in {"DP", "VI", "AI", "PI", "SI"} : Store(Clear(Regs, source))
    /\ UNCHANGED <<mask, sr, exception>>

\* MemoryUpdateMI: CAUSE is updated only if an interrupt is pending and let through.
WriteMask ==
    /\ Op
    /\ mask' \in SUBSET Sources
    /\ Store(IF mask' \cap intr # {} THEN UpdateCause3(Regs, mask') ELSE Regs)
    /\ UNCHANGED <<sr, exception>>

\* Mutant: every line let through has to be pending.
Wanted_All(status) == status.im # {} /\ status.im \subseteq cause

\* The test in R4300_SetSR, Patch___osRestoreInt and R4300_Handle_Interrupt.
Wanted(status) == status.im \cap cause # {}

\* R4300_SetSR
SetSR ==
    /\ Op
    /\ sr' \in Status
    /\ jobs' = IF ~sr.ie /\ sr'.ie /\ Wanted(sr') THEN {"INTERRUPTS"} ELSE {}
    /\ UNCHANGED <<intr, mask, cause, exception>>

\* Patch___osRestoreInt
RestoreInt ==
    /\ Op
    /\ sr' \in {sr, [sr EXCEPT !.ie = TRUE]}
    /\ jobs' = IF Wanted(sr') THEN {"INTERRUPTS"} ELSE {}
    /\ UNCHANGED <<intr, mask, cause, exception>>

\* R4300_TLB_ERET
Eret ==
    /\ Op
    /\ sr' = IF sr.erl THEN [sr EXCEPT !.erl = FALSE] ELSE [sr EXCEPT !.exl = FALSE]
    /\ UNCHANGED <<intr, mask, cause, jobs, exception>>

\* CPU_SetCompare
SetCompare ==
    /\ Op
    /\ cause' = cause \ {"IP8"}
    /\ UNCHANGED <<intr, mask, sr, jobs, exception>>

\* R4300_Exception_Break, _Syscall, _CopUnusuable and _TLB.
RaiseException ==
    /\ Op
    /\ exception' = TRUE
    /\ jobs' = {"EXCEPTIONS"}
    /\ UNCHANGED <<intr, mask, cause, sr>>

Compute == Op /\ UNCHANGED <<intr, mask, cause, sr, jobs, exception>>
-------------------------------------------------------------------------------
\* CPU_UpdateCounter and CPU_HANDLE_COUNT_INTERRUPT.
Count == counting /\ counting' = FALSE /\ UNCHANGED <<exception, delaysSi>>
Due == Count /\ UNCHANGED <<mask, sr>>

NothingDue == Due /\ UNCHANGED <<intr, cause, jobs>>

\* Mutant: the job is added only when the interrupt is new.
VerticalBlank_IfNew ==
    /\ Due
    /\ Store(IF "VI" \in intr THEN Regs ELSE Raise(Regs, "VI"))

VerticalBlank == Due /\ Store(Raise(Regs, "VI"))

CompareDue ==
    /\ Due
    /\ cause' = cause \cup {"IP8"} /\ jobs' = jobs \cup {"INTERRUPTS"}
    /\ UNCHANGED intr

SpInterrupt == Due /\ Store(Raise(Regs, "SP"))

\* SaveState_LoadFromFile, while the registers are r: MI_INTR_REG is restored
\* around writes of VI and AI registers that clear their interrupts and update
\* CAUSE; then R4300_SetSR looks at a CAUSE that is only replaced after it.
Loaded(r, s) ==
    LET vi == UpdateCause3([r EXCEPT !.intr = s.intr \ {"VI"}], s.mask)
        ai == UpdateCause3([vi EXCEPT !.intr = @ \ {"AI"}], s.mask)
        seen == s.sr.im \cap (ai.cause \ {"IP8"})
        checks == IF ~sr.ie /\ s.sr.ie /\ seen # {} THEN {"INTERRUPTS"} ELSE {}
    IN  [intr |-> s.intr, cause |-> s.cause, jobs |-> ai.jobs \cup checks]

\* The vertical blank of a frame in which a load was asked for.
LoadState ==
    /\ Count
    /\ \E s \in Saved :
          Store(Loaded(Raise(Regs, "VI"), s)) /\ mask' = s.mask /\ sr' = s.sr
-------------------------------------------------------------------------------
\* CPU_CheckStuffToDo: one job at a time, interrupts first.
Check == jobs # {} /\ ~counting /\ UNCHANGED <<intr, mask, cause, counting, delaysSi>>

Enabled == sr.ie /\ ~sr.exl /\ ~sr.erl

\* R4300_Handle_Interrupt
HandleInterrupt ==
    /\ Check /\ "INTERRUPTS" \in jobs
    /\ sr' = IF Enabled /\ Wanted(sr) THEN [sr EXCEPT !.exl = TRUE] ELSE sr
    /\ jobs' = jobs \ {"INTERRUPTS"}
    /\ UNCHANGED exception

\* R4300_Handle_Exception
HandleException ==
    /\ Check /\ "INTERRUPTS" \notin jobs /\ "EXCEPTIONS" \in jobs
    /\ sr' = [sr EXCEPT !.exl = TRUE]
    /\ jobs' = jobs \ {"EXCEPTIONS"}
    /\ exception' = FALSE
-------------------------------------------------------------------------------
Guest ==
    \/ WriteSPStatus \/ WriteDPCStatus \/ Transfer \/ ReadPif \/ Acknowledge \/ WriteMask
    \/ SetSR \/ RestoreInt \/ Eret \/ SetCompare \/ RaiseException \/ Compute

Event == VerticalBlank \/ LoadState \/ CompareDue \/ SpInterrupt \/ NothingDue

Next == Guest \/ Event \/ HandleInterrupt \/ HandleException

\* The CPU goes on, and the vertical blank recurs (EventQueue's BlanksRecur).
Spec == Init /\ [][Next]_vars /\ WF_vars(Next) /\ SF_vars(VerticalBlank)
-------------------------------------------------------------------------------
TypeOK ==
    /\ intr \subseteq Sources /\ mask \subseteq Sources
    /\ cause \subseteq Lines /\ jobs \subseteq Jobs
    /\ sr \in Status
    /\ exception \in BOOLEAN /\ counting \in BOOLEAN /\ delaysSi \in BOOLEAN

\* The assertions on the exception vector: it is set when the job is served, and
\* free when the next operation can fault.
VectorSet == exception <=> "EXCEPTIONS" \in jobs

Pending == intr \cap mask # {}
Missed == Pending /\ "IP3" \notin cause
Spurious == ~Pending /\ "IP3" \in cause

\* A pending interrupt is hidden from CAUSE only by a display list or by the
\* delayed SI interrupt, and CAUSE shows one that is not there only because the
\* mask was changed: every other path that touches MI updates CAUSE.
OnlyKnownGaps ==
    [][/\ Missed' /\ ~Missed => \/ "DP" \in intr' \ intr
                                \/ delaysSi /\ "SI" \in intr' \ intr
       /\ Spurious' /\ ~Spurious => intr' = intr /\ mask' # mask]_vars

\* What a display list hid from CAUSE is shown after all, by the next vertical
\* blank if by nothing else.
MissedEnds == Missed ~> ~Missed

Waiting(line) == Enabled /\ line \in sr.im \cap cause

\* An interrupt that CAUSE shows and STATUS lets through is taken or withdrawn,
\* though ERET, and a STATUS that enables one line more, look for none.
InterruptTaken == Waiting("IP3") ~> ~Waiting("IP3")

\* So is the timer's, as long as the vertical blank is not masked.
TimerTaken == Waiting("IP8") ~> ~Waiting("IP8") \/ "VI" \notin mask

\* "CAUSE_IP3 inconsistant with MI_INTR_REG" never happens (Interrupts.cpp).
CauseAgrees == "INTERRUPTS" \in jobs /\ ~counting => (Pending <=> "IP3" \in cause)
===============================================================================
