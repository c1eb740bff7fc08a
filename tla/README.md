# A verification project for DaedalusX64 on the 3DS

DaedalusX64 emulates a Nintendo 64. The port in `src/Source/SysCTR` runs it on
a 3DS, where three threads meet: the emulation thread (guest CPU, event
handlers, menu), a worker that runs the audio microcode, and the thread on
which the DSP service calls back for sound. Around them are files that must
survive failing operations, a queue of timed events on which everything the
guest sees depends, a recompiler whose fragments must do what the interpreter
would, and a session that is started, dumped, saved, loaded and left through
flags that are set in one place and read in another.

This directory holds TLA+ modules for those parts, TLC configurations that
check them on small instances and TLAPS proofs of what can be said for every
instance. The models follow the 3DS build (`DAEDALUS_CTR`, dynamic recompiler
compiled in, asserts off).

- `X.tla` a component; `X.cfg` its run; `X_proofs.tla` its theorems (those of
  `TransactionalFile` and `Save` are in `Persistence_proofs`);
- `MCX.tla` values for constants of `X` that a configuration cannot write down;
- `X_<word>.cfg` a run that shows a disagreement between the code and what a
  comment, an assertion or a document of the repository says;
- `PROJECT.json` the index: components, runs, the mutant of every checked
  property, the source lines of every definition, hazards, findings, theorems.

To check: `tlc -config X.cfg X.tla` (`MCX.tla` where there is one),
`tlapm X_proofs.tla`. Definitions named
`Definition_Word` beside a definition are the mutants: the bug that the named
property must catch.

## 1. Inventory

| Component | State | Operations | Meets | Hard about it | Correct when |
|---|---|---|---|---|---|
| Sample ring (`Utility/SpscRing.h`) | slots, two atomic indices | Write, Read, Size, Reset | audio playback, from two threads | unlocked copies, an index loaded before it moves | it is a bounded FIFO; no slot is copied by both sides at once; Size is exact without a Read between its loads |
| Transactional file (`Utility/TransactionalFile.h`) | path, `.bak`, `.tmp` | Write, OpenForRead | Save | any operation fails, the program ends anywhere | a reader gets a complete version; a call is all or nothing |
| Save and mempak (`Core/Save.cpp`) | two memories, two dirty flags, two files | Save_Reset, MarkDirty, Flush, Fini | CPU (flush every 64 blanks), PIF, flash, System | failing writes while the game goes on writing; unreadable file | no progress is forgotten or replaced by older progress; a failed write is retried |
| Audio task (`SysCTR/HLEAudio/AudioPluginCTR.cpp`) | busy flag, two events, stop flag, mode | ProcessAList, worker, waits, start, stop | RSP tasks, event queue, diagnostics, System | the event is signalled after the flag is cleared; mode changed meanwhile | one microcode at a time once the earlier list is reported; an interrupt only after the task; no wait is for ever |
| Audio playback (`AudioOutput.cpp`, `AudioBufferCTR.cpp`) | wave buffers, DSP, gate, ring | AddBuffer, callback, Stop, Exit, pause | worker, DSP service, diagnostics | the callback arrives at any time; bounded wait; starvation | nothing lost or reordered, no freed buffer touched, quiet while dumped, every wait ends |
| Event queue (`Core/CPU.cpp`) | events with relative counts, COUNT, COMPARE | AddEvent, Set/PopEvent, SetCompare, HandleInterrupt, skip | interrupts, audio task, save states | relative counts, removal in the middle, COMPARE near COUNT | every event is due when a timer of its own would be; the vertical blank is armed once and recurs |
| Interrupts (`Memory*.{cpp,inl}`, `DMA.cpp`, `Interrupt*.{h,cpp}`, `R4300.cpp`) | MI_INTR, MI_MASK, CAUSE, SR, jobs, vector | register writes, events, SetSR, ERET, job handlers | everything of the guest | CAUSE repeats MI and is updated by hand | what is pending and enabled is taken; CAUSE and MI agree where code assumes it |
| Game session (`main.cpp`, `CPU.cpp`, `System.cpp`, `InGameMenu.cpp`) | ROM, jobs, queued save-state operation | select, run, halt, save, load, leave | diagnostics, all subsystems | requests served later, one job at a time, several stop reasons | a halt halts, an exit exits, a state goes under its own game's name |
| Diagnostics (`DiagnosticsCTR.cpp`, `DumpSupport.h`) | chord, requested, stopped, gate | PollInput, RunPending, Cancel | session, audio | a request outliving the cycle it was made for | one dump per chord; nothing left when the session closes |
| RSP tasks (`RSP_HLE.cpp`) | task in DMEM, SP and DPC status | ProcessTask, Finished, freeze | interrupts, audio task | frozen and unfinished tasks | a task that is started runs once and is reported |
| Dynamic recompiler (`Dynamo.cpp`, `DynaRec/`) | fragments, hash of lookups, jump map, trace | Lookup, Insert, Clear, trace | CPU core, memory writes | lookups cached, negative ones too; reset deferred | the guest's control flow is followed; no lookup finds, and no jump leads to, a fragment that is not there; stale code ends |
| Flash memory (`FlashMem.cpp`) | mode, offset, block, status | command, DMA | Save | a protocol of modes | only whole pages inside the save change, and the flag is set |
| PIF (`PIF.cpp`) | controllers, EEPROM, mempak | commands | Save, interrupts | which memory a command dirties | every change marks its memory |
| Save states (`SaveState.cpp`) | none of its own | save, load | event queue, interrupts, session | queued events of the state that is replaced | a load leaves queue and registers consistent |
| ROM cache (`ROMFileCache.cpp`) | chunk map, chunks, use counter | GetChunk | DMA, memory reads | eviction, counter wrap, read errors | map and chunks agree |
| Texture cache (`TextureCache.cpp`) | list, two hash entries per texture | get, purge, drop | renderer | entry of a deleted texture | no entry names a deleted texture |
| Frame limiter (`FramerateLimiter.cpp`) | last time, blanks since flip | Limit, Reset | vertical blank | 32-bit differences of 64-bit times | a delay is never longer than the frames it stands for |
| TLB, interpreter, memory map, HLE graphics, audio microcodes, OS patches, UI, settings, cheats, debug aids, other ports, third-party code | | | | data rather than protocol | see section 8 |

`PROJECT.json` lists the hazards of this code, each at its line with the
properties that would catch it, or the reason why none does yet.

## 2. The plan

Written, in this order, most important state first:

1. `SpscRing` over the abstract `SampleQueue`;
2. `TransactionalFile` over the abstract `SaveStore`, and `Save` on top of it;
3. `AudioTask`, then `AudioStream` on `SampleQueue`;
4. `EventQueue` and `Interrupts`, the guest's sense of time and of events;
5. `CpuSession`, session, save-state requests and diagnostics together;
6. `FragmentCache` and `TraceRecorder`, composed with the two CPU cores in
   `Dynarec`, against `Guest`, the control flow of a program;
7. `RspTask`: tasks of every kind, composed with `AudioTask`;
8. the load of a save state in `Interrupts`.

Left, in this order:

9. `FlashMem` and the EEPROM and mempak part of PIF as the writers of `Save`;
10. what a load of a save state does to `EventQueue`;
11. `FramerateLimiter` with a width W of the ticks, `ROMFileCache`, `TextureCache`,
    TLB lookup as an operator against its definition;
12. `System_Open` and `System_Close` as a stack of subsystems under failing opens.

Theorems left: the same count of steps that `WaitsRunDown` gives for the audio
thread for the other waits (the halt and exit of `CpuSession`, an interrupt that
is pending in `Interrupts`); that the flash writer, once it is modelled, stays
within `Save`'s memory.

## 3. How the modules fit together

    SaveStore <=implements= TransactionalFile      SampleQueue <=implements= SpscRing
        ^                                              ^
        | the file of                                  | the ring of
      Save                                           AudioStream

    EventQueue   the timing of VBL, COMPARE, AUDIO, SPINT
    Interrupts   what those events do to MI, CAUSE and the jobs
    AudioTask    who runs the list between the task and its AUDIO event
    RspTask      every kind of task, over AudioTask
    Dynarec      which core executes the next operation, followed against Guest;
                 made of FragmentCache and TraceRecorder
    CpuSession   when the CPU loop that serves all of this runs and stops

The composition is through abstract specifications: `AudioStream` INSTANCEs
`SampleQueue` and uses its actions as the ring, and `SpscRing` is proved to
implement `SampleQueue` at every capacity; `Save` treats a file as one atomic
store that succeeds or fails, which is what `TransactionalFile` is proved to
implement. Between the others the interface is a set of events: an AUDIO event
of `EventQueue` is `AudioEvent` of `AudioTask`, a due event is `VerticalBlank`,
`CompareDue` or `SpInterrupt` of `Interrupts`, and a vertical blank of
`CpuSession` is the step at which a queued save-state operation is carried out.

## 4. The modules

**SpscRing.** One action per load of the other thread's index (`WriteStart`,
`ReadStart`, `SizeStart`, `SizeFinish`), per copied sample (`WriteCopy`,
`ReadCopy`) and per publishing store (`WritePublish`, `ReadPublish`). The
indices are acquire/release with one writer each, so sequentially consistent
steps lose no behaviour. A sample is its position in the stream, so loss,
duplication and reordering show. `Reset` is only possible when both sides are
idle; that its callers keep to it is `Quiescent` of `AudioStream`.

**TransactionalFile.** One action per file operation, each of which may fail,
`Crash` between any two. A file holds a version, nothing, or `Torn`. The
directory operations of the medium are atomic: the code makes no claim about
power lost in the middle of a rename.

**Save.** Sessions of the emulation thread: `Save_Reset` loads or formats,
`GameWrite` marks dirty, `FlushSave` and `FlushMempack` succeed or fail one
after the other, `Save_Fini` forces both, `Crash` ends the program anywhere. A
content is the number of the write that made it. A file that is there may fail
to open, or be read only in part: `Save_Reset` formats the memory then, or keeps
what a short read left there, and does not tell. `unread` remembers it: the one
way in which old progress is replaced by less.

**AudioTask.** The emulation thread as a small program counter: every
`CTR_WaitForAudioTask` is `wait`/`sleep` followed by what the caller does next
(`next`). The worker clears `audioBusy` and then signals `audioFinished` in a
step of its own, so that the signal can come after the next clear. The mode is
changed by the options page of the menu (`ChangeMode`), at any point of `run`: the
menu is drawn where a display list begins a frame, so that a list may be with the
worker and its AUDIO event still to come. `Capture` is the wait of a dump.

**RspTask.** Extends `AudioTask` by the task in DMEM: loading it, a graphics task
that draws or finds DPC frozen, an audio task with or without a plug-in, tasks
of which nothing is done, the guest's writes that halt, unhalt, freeze and
unfreeze, and the completion of each. `runs` counts how often the task was
processed since it was started, `overlap` says whether the AUDIO event of an
earlier task was then still to come. `ChangeMode` is part of a graphics task here,
and of nothing else.

**AudioStream.** AddSamples with its bounded waits, the callback with its five
states (arrived, refused by the gate, refilling a buffer at a time, drained),
unregistering and freeing, the diagnostic pause. The DSP is external: it plays
the buffer that was queued first, at any moment or never. After
`ndspSetCallback(nullptr)` and `ndspExit` no callback is left running: that is
the service's promise, on which `AudioExit` waits.

**EventQueue.** The loop of `CPU_AddEvent` is walked one event at a time
(`Pass`, `Place`); removal, skipping and the handlers are single steps. A field
`left` in every event is what a timer of its own would show; the code keeps
only `count`.

**Interrupts.** The guest writes SP, MI, SI, VI and SR registers, executes
ERET, starts DMAs and display lists; events fall due; jobs are served. All
paths that set or clear a bit in `MI_INTR_REG` are actions; `CAUSE_IP3` is
updated only where the code does. `delaysSi` is the hack for one game that sets
the SI bit and raises it at a later vertical blank. `LoadState` is the load of
one of the save states `Saved`, in the vertical blank in which it is carried
out, with the order in which the file's registers are written back: VI and AI
registers through their handlers, MI around them, STATUS before CAUSE. A saved
state is one that this program wrote: its vertical blank is pending and its
CAUSE agrees with its MI. The load after a change of the game finds a CPU that
has just been reset, a special case of this one without the pending blank.

**Dynarec.** `Guest` gives a game as a map from address to operation (computation,
branch, likely branch, jump register, store to code, one that may fault) and says
what the guest's program counter may do next. `FragmentCache` is the sorted array
with the pair of the last lookup, the hash of lookups (misses are entries too),
the jump map and the code that was compiled; `TraceRecorder` the trace, with its
start, its branches and the reasons to end it. `Dynarec` has one action per
operation of the interpreter and of the tracing interpreter, the lookup after a
branch, the execution of one operation of a fragment, its exits, linked or by the
dispatcher, counting of hot addresses, the aborted trace, the request to
invalidate and the clearing, jobs and the change of core. Fragments carry the
operations they were made from, so that stale code shows. An
interrupt job goes to the vector; one that finds nothing to take
(`Interrupts.cpp:201`), which a display list can raise, only ends the trace or
leaves the fragment, which is what the change of core does here.

**CpuSession.** `SelectRom`, `Frame` (an operation in which the menu may be
used), vertical blanks with the queued operation, `Serve` with the code's
order of jobs, the stop and what `CPU_Run` and `main` do after it, the
diagnostics' flags, and the exit of the application at any time.

## 5. Runs, bounds and fairness

| Run | Bounds | States | Shows |
|---|---|---|---|
| SpscRing | Capacity 3, counts to 3, stream of 5 | 64 k | both index wraps, full, empty, and counts clipped; `NoDataRace`, `SizeExact`, refinement `IsQueue` |
| TransactionalFile | 3 versions | 1.7 k | old save, backup and new save are all different; `OldKeptAsBackup`, refinement `AtomicSave` |
| Save | 3 writes over two memories | 8.4 k | write, fail, write again, store; a short read; `CleanIsStored`, `NoRegression`, `RetriedUntilStored` |
| RspTask | 3 tasks | 87 k | the late signal of one task meets the next and the one after; a freeze over an audio task; the mode changed beside a list that is not yet reported; `OneUcodeOnceReported`, `WaitedForAll`, `RunsOnce`, `WaitEnds`, `TasksProcessed`, `CloseCompletes` |
| EventQueue | COUNT modulo 6, period 4, delay 3, two tasks, room 4, no event more than 5 cycles away when COMPARE is set | 154 k | all four kinds of event queued at once, COMPARE ahead of COUNT by 1 and 2, equal to it, and one below it (distance 5, which is -1), overdue events; `OneOfEach`, `DeltasExact`, `RaisedOrArmed`, `FitsQueue`, `BlanksRecur` |
| Interrupts | SI, VI, DP; 12 save states | 80 k | a source of each kind: delayed (SI), periodic (VI), set without update (DP); SP is raised as VI is, and AI and PI as an undelayed SI. The save states have the blank masked or not, alone or beside a list's DP, and STATUS enabled, disabled or in a handler. `OnlyKnownGaps`, `MissedEnds`, `InterruptTaken`, `TimerTaken` |
| AudioStream | ring 3, 3 buffers of 2, batch 2, 2 waits, stream of 4 | 528 k | rotation, partly filled buffers, full ring and empty ring, exhaustion of the waits; `TypeOK`, `NoUseAfterFree`, `Quiescent`, `StreamIntact`, `DumpQuiet`, `AddReturns`, `PauseEnds`, `StarvationEnds` |
| CpuSession | 2 games | 12 k | states of one game loaded in the other, also without a file; `ClosedClean`, `OnlyQueuedMisnamed`, `OnlyLoadRunsWithoutRom`, `HaltEnds`, `ExitEnds` |
| Dynarec | 5 games; pages of 4, hash of 2, traces of 4, threshold 1, 4 hot addresses, 2 fragments, 1 reload | 2.7 M | loops, linked fragments, likely branches, a job in a delay slot, code that is overwritten, tables that collide and fill; `FollowsGuest`, `CoreMatches`, `CacheExact`, `CodeFresh` |
| Interrupts_agree | SP, SI, VI, DP | | violated: `CauseAgrees` |
| CpuSession_queued | 2 games | | violated: `NothingQueued` |
| CpuSession_cycle | 2 games | | violated: `OnePerCycle` |

Every bound is a CONSTANT or a guard on a history variable (`MaxAccepted`,
`MaxTasks`, `MaxWrites`, `MaxReloads`, `MaxCycles`); the counters they cap do not exist in the code or
wrap there. `MaxCycles` keeps `EventQueue` finite: a COMPARE below COUNT moves the
blank on, and could be set again and again. One cycle stands for many: the period must exceed
what one update of the counter adds, as in the code.

Fairness, and why the code has it:

- *Threads run.* `WF` of the worker, of the callback and of a thread that is in
  the middle of a call: the system schedules them and none of them loops
  without making progress. What the guest or the user does next has no
  fairness: a game may never start another task.
- *Files.* `Save` has `SF` on a successful write, with weak fairness on
  flushing: a medium that recovers again and again is used in the end. It says
  nothing of one that never works again.
- *Gate.* `SF` on the gate's hold: the callback leaves and enters again, and the
  waiting thread polls for the gap every 50 microseconds, so it sees one.
- *Guest time.* `SF` of the vertical blank and of the counter update: the guest
  executes operations, each of which ends with an update. Strong, because jobs
  and handlers disable it for a while.
- *DSP.* None. What depends on the DSP playing is not claimed.
- *After an exit of the application* the user presses nothing: `aptMainLoop`
  returns false and the loops read no input.

## 6. What is proved

For every value of the constants, from the named assumptions of each module
only, checked by TLAPS:

- **SpscRing_proofs**: `TypeOK`, `NoDataRace`, `InOrder`, `SizeExact`, and that the
  ring implements `SampleQueue`. The inductive invariant ties the indices to the
  history (`write` is `accepted` modulo the capacity, without the modulus),
  fixes the content of each occupied slot and of the part of a copy in progress,
  and says that the reserved part of the writer and the claimed part of the
  reader are disjoint; race freedom is a consequence. Lemmas on stretches of the
  stream (concatenation, subsequences) carry the refinement.
- **Persistence_proofs**, on the file: `NeverTorn`, `NeverLost`,
  `ReplacementReady`, `OldKeptAsBackup`, and that Write and OpenForRead implement
  `SaveStore`. The invariant says, for each program counter, which of the three
  files are complete and which version the temporary file holds. On the memories:
  `CleanIsStored`, `ClosedIsStored`, `NoRegression`; needed besides: what is in
  memory is never older than what is stored unless the file was unread.
- **AudioTask_proofs**: `OneUcodeOnceReported`, `WaitedForAll`, `NoLostRequest`,
  `HandlesOutlive`, and `RunsOnce` of `RspTask`. The invariant counts: submitted
  minus done is exactly what flag, request and worker account for, and a task in
  flight has an AUDIO event. For `RunsOnce` it also says when the halt bit, the
  freeze and an event of an earlier task leave a task still to be processed.
  `WaitsAreServed` and `WaitsRunDown` are the safety half of `WaitEnds` and
  `CloseCompletes`: whenever the emulation thread waits, the worker has a step
  left before it, at most six (`Left`), each of which counts down. What is left
  to TLC is that a thread with a step takes it. `RspIsAudioTask` carries all of
  this, fairness included, to the composition that `RspTask` checks.
- **EventQueue_proofs**: `DeltasExact`, `Ordered`, `OneOfEach`, `RaisedOrArmed`, and
  `FitsQueue` when the queue has room for the blank, COMPARE and one event per
  task in flight. The invariant adds what the loop of AddEvent knows half-way
  (`Loop`) and an account of AUDIO and SPINT events against tasks.
- **Interrupts_proofs**, for every set of sources and of save states: types and
  `VectorSet` (the exception vector is set exactly while an exception waits), and
  `OnlyKnownGaps`. The proof follows the registers through each operation: a part
  of it either ends with CAUSE exact or is one of those that add one bit. A load
  keeps both because a saved state has them, which is `SavedAssumption`.
- **AudioStream_proofs**: `TypeOK`, `NoUseAfterFree`, `Quiescent`, `HeldForDump`,
  `DumpQuiet`, and `StreamIntact`: the samples that have not been heard, cut into
  the pieces that buffers, refill and ring hold, rise from piece to piece and are
  all of those accepted. Playing drops the first piece, returning a buffer inserts
  an empty one, refilling moves a prefix, AddSamples extends the last: one lemma
  for each (`WholePlayed`, `WholeTurned`, `WholeDrained`, `WholeAccepted`). Needed
  besides (`Rotation`): the DSP holds no buffer twice, nor the one being refilled.
  `AddSamplesBounded` and `CallbackBounded` are the safety half of `AddReturns` and
  `PauseEnds`: the steps that AddSamples and a callback have left (`Calls`,
  `Steps`) fall with each step and are raised by nobody.
- **CpuSession_proofs**: types, `ClosedClean`, `OnlyQueuedMisnamed`,
  `OnlyLoadRunsWithoutRom`.
- **Dynarec_proofs**, for every game without a branch in a delay slot or a way to
  address 0, which the code uses for "no address" (`IsGame`), and every size of
  the tables: `CoreMatches`, `CacheExact`, `CodeFresh` (`RecorderMatches`,
  `CacheStaysExact`, `LoadedCodeFresh`), and `FollowsGuest`
  (`FragmentsFollowGuest`). The invariant of the first three
  (`DynInv`) says what each core leaves in the recorder, that a trace goes forward
  from its start, so that the operation that ends it is not its entry, that
  table, jump map and fragments agree, and that the pair of the last lookup may be
  behind them only while the first jump of a new fragment is registered.
  `FollowsGuest` needs a second one (`FlowInv`), in four parts: the operations of
  every fragment, from its entry through each exit, are a path of the guest
  (`FragmentsFlow`); so is the trace being recorded, up to what is ahead of the
  recorder (`TraceFlows`); between an operation and its record the registers still
  tell what it did (`StepFlows`); a slot or a handler that waits has a place to go
  to, and an interrupt waits only while exceptions are allowed (`GuestKept`). One
  lemma per action, one below it per core or kind of exit. With
  `GuestStarts`, `FragmentsFollowGuest` gives `RecompilerIsGuest`: a behaviour without the two steps that `FollowsGuest`
  excepts is a behaviour of `Guest`, for every game and every size of the tables.

Only model-checked: everything that must eventually happen (`WaitEnds`,
`TasksProcessed`, `CloseCompletes`, `BlanksRecur`, `MissedEnds`,
`InterruptTaken`, `TimerTaken`, `AddReturns`, `PauseEnds`, `StarvationEnds`,
`RetriedUntilStored`, `HaltEnds`, `ExitEnds`), since the prover handles neither
liveness under fairness nor ENABLED. For `WaitEnds`, `CloseCompletes`,
`AddReturns` and `PauseEnds` the count of steps they rest on is proved.

## 7. Findings and observations

Findings, each with a run that shows it:

1. `Interrupts_agree`: the assertion of `Core/Interrupts.cpp:198` does not hold.
   A display list sets the DP bit and the job without CAUSE
   (`DLParser.cpp:218`), and a change of the mask updates CAUSE only when
   something stays pending (`Memory.cpp:786`). `OnlyKnownGaps` and `MissedEnds`
   say what is true instead: no other path makes a gap, and a missed interrupt
   is taken later.
2. `CpuSession_queued`: the assertion of `Core/CPU.cpp:554` does not hold. A save
   that is queued when the CPU stops for another reason is still queued at the
   next start, if need be of another game. `OnlyQueuedMisnamed`: that is the only
   way for a state to go under another game's name.
3. `CpuSession_cycle`: a chord whose job a restarting load took away leaves
   `requested` set, and later press/release cycles make no dump, against
   `docs/HARDWARE-TESTING.md:25`.

Observed while modelling, without a run of their own:

- `Core/CPU.h:81` expects at most two events; with AUDIO and SPINT the queue
  reaches four (`FitsQueue` holds with the real limit).
- `Core/CPU.cpp:758` says the distance to COMPARE is treated as unsigned, while the
  counts it goes into are signed (line 197). COMPARE set to COUNT or to just below it
  gives a count of 0 or less, against the assertions `count > 0` (lines 160 and 203).
  Line 174 then moves the event behind it back by a negative count, and when the
  overdue event is popped the cycles by which it was late are dropped for all that
  follow. A game that keeps doing this postpones the vertical blank for ever: `BlanksRecur` is claimed of a guest that
  stops doing so, and fails without that hypothesis (`SetLate`).
- `Core/R4300.cpp:1969` says interrupts are looked at after a status write;
  `R4300_SetSR` (line 576) does so only when interrupts become enabled.
- `Core/CPU.cpp:696` flushes saves every 64 blanks where the comment says 60.

In the recompiler:

- `Delay` and `TargetPC` may be stale. A branch that was compiled does not store
  them, and an operation compiled in its slot leaves `EXEC_DELAY` behind it; a job
  that is raised later makes the exit of the fragment jump to a `TargetPC` of an
  earlier branch, against the assertion of `DynaRec/Fragment.cpp:295`. This is
  `LeavesThroughTarget`, one of the two steps that `FollowsGuest` excepts.
- The exit of a likely branch may be linked into a fragment with `EXEC_DELAY` set
  (`Fragment.cpp:815`), against the comment at line 403 and the assertions at 260
  and 181. This is `EntersInSlot`, the other.
- Fragments that are linked in a loop run overwritten code for as long as the loop
  lasts: the request to clear is read when a lookup fails (`Dynamo.cpp:481`).
- The count of an address passes the threshold once; if that trace is given up the
  address is never traced until the counts are cleared.
- `Dynamo.cpp:484` says that a cache of nothing but OS function stubs is not
  reset; the `>=` below it resets one.
- `Interrupts.cpp:69`: EPC is overwritten even when EXL is set.

In the tasks: the synchronous branch of `ProcessAList` (`AudioPluginCTR.cpp:223-231`)
does not wait for the worker. When the menu goes from the asynchronous mode to it while
a list is with the worker, a list that the guest starts before that one's AUDIO event
runs beside it, on the same globals; `OneUcodeOnceReported` says that nothing else
brings the two together. An AUDIO event that is still outstanding when a frozen graphics
task is started sets HALT, so the unfreeze finds no task to run (`RunsOnce`
excepts that overlap); a video task (`RSP_HLE.cpp:323`) is never reported.

In the load of a save state (`SaveState.cpp`): a COMPARE equal to the present one
adds no event, so the timer of the loaded state is lost; AUDIO and SPINT events of
the replaced state stay and those of the saved one are not restored; an exception
that waits at the load is served in the loaded state; the PC saved is that of the
operation being executed, while `Delay` and `TargetPC` are neither saved nor reset,
and what comes after the load adds to the PC in the interpreter and not in a
fragment; `gRamSize` is overwritten before the file is found to be of another ROM
(line 291); the write of AI_LEN plays from memory that is restored only later;
mode, offset and block of the flash memory are not saved.

## 8. Not modelled, and why

- Arithmetic and pixels: opcodes, microcodes, display lists, rendering, colour
  conversion. They have no protocol for a model checker to explore.
- Formats and parsing: ROM headers, settings, cheats, the byte layout of saves and
  states. Files carry versions here, not bytes; a short read of a save keeps a
  part of it, a truncated save state is not modelled.
- Generated code as instructions: register allocation, the emitters, the native
  replacements of OS functions, speed hacks and the floating-point branches. What
  a fragment does to control flow, `Delay`, jobs and links is in `Dynarec`.
- Flash memory: a table of four modes with a single actor and no failure; the flag
  it sets is `GameWrite` of `Save`. Frame limiter, ROM cache, texture cache and TLB
  are single-actor data structures that the plan keeps for later.
- What a load does to the event queue: it breaks `DeltasExact` and `RaisedOrArmed`
  in the ways listed above, so that neither could be stated of the rest.
- Guest memory as data: that the worker writes guest memory while a state is
  saved (`CPU.cpp:490`) is listed as a hazard.
- Other ports, debug aids that the release build leaves out, third-party code.

The lines that are modelled are a small part of the repository's: most of the
rest is arithmetic of opcodes, code emitters, pixels and the same parts again for
other systems, where a state machine would say nothing that the code does not.
