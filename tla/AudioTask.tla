------------------------------- MODULE AudioTask -------------------------------
(***************************************************************************)
(* The hand-off of audio lists between the emulation thread and the worker *)
(* of SysCTR/HLEAudio/AudioPluginCTR.cpp: a busy flag, a one-shot request  *)
(* event, a sticky finished event and a stop flag, each read and written   *)
(* in a step of its own.                                                   *)
(*                                                                         *)
(* The emulation thread is in "run" while the guest, the event handlers or *)
(* the menu run.  Every call that waits for the worker is one shape: wait, *)
(* then go on with what `next` names.  submitted and done count tasks;     *)
(* they are history.                                                       *)
(***************************************************************************)
EXTENDS Naturals

CONSTANT MaxTasks       \* bound of the tasks submitted, for model checking

ASSUME TasksAssumption == MaxTasks \in Nat

VARIABLES
    mode,               \* gAudioPluginEnabled
    thread,             \* asyncThread # nullptr
    handles,            \* the two event handles are open
    runThread, audioBusy,
    audioRequest, audioFinished,
    at, next,           \* the emulation thread, and why it waits
    worker,             \* the worker thread
    events,             \* CPU_EVENT_AUDIO events in the event queue
    submitted, done     \* history: tasks handed over, tasks processed

flags == <<runThread, audioBusy, audioRequest, audioFinished>>
plugin == <<mode, thread, handles>>
counts == <<submitted, done>>
vars == <<plugin, flags, at, next, worker, events, counts>>

Modes == {"disabled", "async", "sync"}

Init ==
    /\ mode \in Modes /\ thread = FALSE /\ handles = FALSE
    /\ runThread = FALSE /\ audioBusy = FALSE
    /\ audioRequest = FALSE /\ audioFinished = FALSE
    /\ at = "closed" /\ next = "run" /\ worker = "none"
    /\ events = 0 /\ submitted = 0 /\ done = 0

Enter(step) == at' = step /\ UNCHANGED next
-------------------------------------------------------------------------------
\* Mutant: the thread is created but the run flag is not set.
Create_NoRunFlag ==
    /\ at = "closed"
    /\ Enter("run")
    /\ mode' \in Modes
    /\ audioRequest' = FALSE /\ audioFinished' = FALSE
    /\ \/ /\ thread' = TRUE /\ handles' = TRUE /\ worker' = "waiting"
       \/ UNCHANGED <<thread, handles, worker>>
    /\ UNCHANGED <<runThread, audioBusy, events, counts>>

\* The preferences of the ROM are applied, then the constructor.  An old console,
\* an event or a thread that cannot be created leave the synchronous fallback,
\* with the handles closed again.
Create ==
    /\ at = "closed"
    /\ Enter("run")
    /\ mode' \in Modes
    /\ audioRequest' = FALSE /\ audioFinished' = FALSE
    /\ \/ /\ runThread' = TRUE /\ thread' = TRUE /\ handles' = TRUE
          /\ worker' = "waiting"
       \/ /\ runThread' \in {runThread, TRUE}
          /\ UNCHANGED <<thread, handles, worker>>
    /\ UNCHANGED <<audioBusy, events, counts>>

\* The options page of the menu, which is drawn while a display list is processed:
\* the AUDIO event of a list that was handed over may still be to come.
ChangeMode ==
    /\ at = "run"
    /\ mode' \in Modes
    /\ UNCHANGED <<thread, handles, flags, at, next, worker, events, counts>>

WaitFor(step) == at' = "wait" /\ next' = step

\* The guest starts an audio task.
ProcessAList ==
    /\ at = "run" /\ mode # "disabled"
    /\ IF mode = "async" /\ thread
       THEN submitted < MaxTasks /\ WaitFor("clear")
       ELSE Enter("ucode")
    /\ UNCHANGED <<plugin, flags, worker, events, counts>>

\* Audio_Ucode on the emulation thread.
SyncUcode ==
    /\ at = "ucode"
    /\ Enter("run")
    /\ UNCHANGED <<plugin, flags, worker, events, counts>>

\* CTR_WaitForAudioTask: test the flag, sleep on the sticky event, test again.
WaitTest ==
    /\ at = "wait"
    /\ Enter(IF audioBusy THEN "sleep" ELSE next)
    /\ UNCHANGED <<plugin, flags, worker, events, counts>>

WaitWake ==
    /\ at = "sleep" /\ audioFinished
    /\ Enter("wait")
    /\ UNCHANGED <<plugin, flags, worker, events, counts>>

ClearFinished ==
    /\ at = "clear"
    /\ audioFinished' = FALSE
    /\ Enter("busy")
    /\ UNCHANGED <<plugin, runThread, audioBusy, audioRequest, worker, events, counts>>

SetBusy ==
    /\ at = "busy"
    /\ audioBusy' = TRUE
    /\ submitted' = submitted + 1
    /\ Enter("request")
    /\ UNCHANGED <<plugin, runThread, audioRequest, audioFinished, worker, events, done>>

\* The request, and the event that will make the CPU wait for the result.
Request ==
    /\ at = "request"
    /\ audioRequest' = TRUE
    /\ events' = events + 1
    /\ Enter("run")
    /\ UNCHANGED <<plugin, runThread, audioBusy, audioFinished, worker, counts>>

\* Mutant: the event reports without waiting for the worker.
AudioEvent_NoWait ==
    /\ at = "run" /\ events > 0
    /\ events' = events - 1
    /\ Enter("report")
    /\ UNCHANGED <<plugin, flags, worker, counts>>

\* CPU_EVENT_AUDIO: wait, then tell the guest that the task is done.
AudioEvent ==
    /\ at = "run" /\ events > 0
    /\ events' = events - 1
    /\ WaitFor("report")
    /\ UNCHANGED <<plugin, flags, worker, counts>>

Report ==
    /\ at = "report"
    /\ Enter("run")
    /\ UNCHANGED <<plugin, flags, worker, events, counts>>

\* The dump, on the main loop, waits before it copies the guest's memory.
Capture ==
    /\ at = "run"
    /\ WaitFor("capture")
    /\ UNCHANGED <<plugin, flags, worker, events, counts>>

Captured ==
    /\ at = "capture"
    /\ Enter("run")
    /\ UNCHANGED <<plugin, flags, worker, events, counts>>

\* System_Close waits before saves and ROM resources are closed, drops the
\* queue with the session and reaches StopAsyncAudio, which waits once more.
Close ==
    /\ at = "run"
    /\ WaitFor("release")
    /\ UNCHANGED <<plugin, flags, worker, events, counts>>

Release ==
    /\ at = "release"
    /\ events' = 0
    /\ IF thread THEN WaitFor("stop") ELSE Enter("free")
    /\ UNCHANGED <<plugin, flags, worker, counts>>

Stop ==
    /\ at = "stop"
    /\ runThread' = FALSE
    /\ Enter("wakeup")
    /\ UNCHANGED <<plugin, audioBusy, audioRequest, audioFinished, worker, events, counts>>

\* Mutant: the worker is not woken to see that it must stop.
Wakeup_Skipped ==
    /\ at = "wakeup"
    /\ Enter("join")
    /\ UNCHANGED <<plugin, flags, worker, events, counts>>

Wakeup ==
    /\ at = "wakeup"
    /\ audioRequest' = TRUE
    /\ Enter("join")
    /\ UNCHANGED <<plugin, runThread, audioBusy, audioFinished, worker, events, counts>>

Join ==
    /\ at = "join" /\ worker = "exited"
    /\ worker' = "none" /\ thread' = FALSE
    /\ Enter("free")
    /\ UNCHANGED <<mode, handles, flags, events, counts>>

CloseHandles ==
    /\ at = "free"
    /\ handles' = FALSE
    /\ Enter("closed")
    /\ UNCHANGED <<mode, thread, flags, worker, events, counts>>
-------------------------------------------------------------------------------
\* asyncProcess.  The one-shot event is reset by the wait it ends.
Take ==
    /\ worker = "waiting" /\ audioRequest
    /\ audioRequest' = FALSE
    /\ worker' = "test"
    /\ UNCHANGED <<plugin, runThread, audioBusy, audioFinished, at, next, events, counts>>

\* Mutant: the flag is cleared when the task is taken, not when it is done.
TestRun_ClearsBusy ==
    /\ worker = "test"
    /\ audioBusy' = FALSE
    /\ worker' = IF runThread THEN "ucode" ELSE "exited"
    /\ UNCHANGED <<plugin, runThread, audioRequest, audioFinished, at, next, events, counts>>

TestRun ==
    /\ worker = "test"
    /\ worker' = IF runThread THEN "ucode" ELSE "exited"
    /\ UNCHANGED <<plugin, flags, at, next, events, counts>>

AsyncUcode ==
    /\ worker = "ucode"
    /\ worker' = "idle"
    /\ done' = done + 1
    /\ UNCHANGED <<plugin, flags, at, next, events, submitted>>

ClearBusy ==
    /\ worker = "idle"
    /\ audioBusy' = FALSE
    /\ worker' = "signal"
    /\ UNCHANGED <<plugin, runThread, audioRequest, audioFinished, at, next, events, counts>>

\* Mutant: the worker goes back to waiting without the signal.
SignalFinished_Skipped ==
    /\ worker = "signal"
    /\ worker' = "waiting"
    /\ UNCHANGED <<plugin, flags, at, next, events, counts>>

SignalFinished ==
    /\ worker = "signal"
    /\ audioFinished' = TRUE
    /\ worker' = "waiting"
    /\ UNCHANGED <<plugin, runThread, audioBusy, audioRequest, at, next, events, counts>>
-------------------------------------------------------------------------------
\* The calls of the emulation thread that have started; they run on.
Pending ==
    \/ SyncUcode \/ WaitTest \/ WaitWake \/ ClearFinished \/ SetBusy \/ Request
    \/ Report \/ Captured \/ Release \/ Stop \/ Wakeup \/ Join \/ CloseHandles

Emulation == Create \/ ChangeMode \/ ProcessAList \/ AudioEvent \/ Capture \/ Close \/ Pending

Worker == Take \/ TestRun \/ AsyncUcode \/ ClearBusy \/ SignalFinished

Next == Emulation \/ Worker

\* Both threads are scheduled; the guest, the user and the menu may do nothing.
Spec == Init /\ [][Next]_vars /\ WF_vars(Pending) /\ WF_vars(Worker)
-------------------------------------------------------------------------------
Steps == {"closed", "run", "ucode", "wait", "sleep", "clear", "busy", "request",
          "report", "capture", "release", "stop", "wakeup", "join", "free"}

TypeOK ==
    /\ mode \in Modes /\ thread \in BOOLEAN /\ handles \in BOOLEAN
    /\ runThread \in BOOLEAN /\ audioBusy \in BOOLEAN
    /\ audioRequest \in BOOLEAN /\ audioFinished \in BOOLEAN
    /\ at \in Steps /\ next \in {"run", "clear", "report", "capture", "release", "stop"}
    /\ worker \in {"none", "waiting", "test", "ucode", "idle", "signal", "exited"}
    /\ events \in Nat /\ submitted \in Nat /\ done \in Nat

\* The audio microcode, which keeps its state in globals, runs on one thread at a
\* time.  The synchronous mode does not wait for the worker; what keeps the two
\* apart when the mode changes beside a list that runs is that list's AUDIO event.
\* Only a list that the guest starts before that event can meet it.
OneUcodeOnceReported == at = "ucode" /\ worker = "ucode" => mode = "sync" /\ events > 0

\* When an AUDIO event tells the guest that its task is done, when its memory is
\* copied for a dump, when the saves and the ROM are about to be closed and when
\* the thread is asked to stop, every task handed over has been processed: the
\* worker is not writing guest memory.
WaitedForAll == at \in {"report", "capture", "release", "stop", "clear"} => done = submitted

\* A request is never set while one is still unconsumed: none is lost.
NoLostRequest == at \in {"request", "wakeup"} => ~audioRequest

\* The worker uses the events only while their handles are open.
HandlesOutlive == worker \notin {"none", "exited"} => handles

\* The emulation thread never waits for ever, although the signal of one task
\* may arrive after the next task cleared the event.
WaitEnds == at = "wait" ~> at \notin {"wait", "sleep"}

\* Every task handed over is processed, and a close always completes.
TasksProcessed == \A n \in 1..MaxTasks : submitted = n ~> done >= n
CloseCompletes == at = "release" ~> at = "closed"
===============================================================================
