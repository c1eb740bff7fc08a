--------------------------- MODULE AudioTask_proofs ---------------------------
(***************************************************************************)
(* Proofs about AudioTask and RspTask for any number of tasks.  The safety  *)
(* properties of the first speak of the two threads' places; what makes    *)
(* them inductive is an account of where the one task that may be          *)
(* outstanding is: asked for by the emulation thread, waiting in the       *)
(* one-shot event, or with the worker.  RspTask takes AudioTask's steps, so *)
(* the account holds there, and tells when a task of the RSP is reported.  *)
(***************************************************************************)
EXTENDS RspTask, TLAPS

Stopping == at \in {"wakeup", "join"}
Taken == worker \in {"test", "ucode", "idle"}
Resting == worker \in {"waiting", "signal"}

\* The worker exists from the constructor to the join, with its handles.
Lifetime ==
    /\ thread <=> worker # "none"
    /\ thread => handles
    /\ Stopping => thread /\ ~runThread
    /\ thread /\ ~Stopping => runThread
    /\ at \in {"closed", "free"} => ~thread

\* The calls that need a thread were started when there was one.
Called ==
    /\ at \in {"clear", "busy", "request", "stop"} => thread
    /\ at \in {"wait", "sleep"} => next # "run" /\ (next \in {"clear", "stop"} => thread)

\* Where the outstanding task is, and that busy says whether there is one.
Account ==
    /\ ~Stopping =>
          /\ worker # "exited"
          /\ audioBusy <=> at = "request" \/ audioRequest \/ Taken
          /\ at = "request" => ~audioRequest /\ ~Taken
          /\ audioRequest => Resting
          /\ submitted = done + IF audioBusy /\ worker # "idle" THEN 1 ELSE 0
    /\ Stopping =>
          /\ ~audioBusy /\ submitted = done
          /\ at = "wakeup" => ~audioRequest /\ Resting
          /\ audioRequest => Resting
          /\ worker \notin {"ucode", "idle"}

\* The AUDIO event of a busy worker is still to come, unless the CPU waits for the
\* worker already.
Expected ==
    /\ audioBusy =>
          at \in {"request", "wait", "sleep"} \/ (at \in {"run", "ucode"} /\ events > 0)
    /\ at = "ucode" => mode = "sync" \/ ~thread

Inv == TypeOK /\ Lifetime /\ Called /\ Account /\ Expected

LEMMA InitInv == Init => Inv
<1> SUFFICES ASSUME Init PROVE Inv  OBVIOUS
<1>1. /\ mode \in Modes /\ at = "closed" /\ next = "run" /\ worker = "none"
      /\ events = 0 /\ submitted = 0 /\ done = 0
      /\ ~thread /\ ~handles /\ ~runThread /\ ~audioBusy /\ ~audioRequest /\ ~audioFinished
    BY DEF Init
<1>2. /\ thread \in BOOLEAN /\ handles \in BOOLEAN /\ runThread \in BOOLEAN
      /\ audioBusy \in BOOLEAN /\ audioRequest \in BOOLEAN /\ audioFinished \in BOOLEAN
    BY Zenon DEF Init
<1>3. TypeOK  BY <1>1, <1>2 DEF TypeOK, Steps
<1>4. QED
    BY <1>1, <1>3 DEF Inv, Modes, Lifetime, Called, Account, Expected, Stopping, Taken, Resting

\* One step per action: the emulation thread first, then the worker.
LEMMA NextInv == Inv /\ [Next]_vars => Inv'
<1> SUFFICES ASSUME Inv, [Next]_vars PROVE Inv'  OBVIOUS
<1> USE DEF Inv, TypeOK, Modes, Steps, Lifetime, Called, Account, Expected,
            Stopping, Taken, Resting, Enter, WaitFor, flags, plugin, counts
<1>1. CASE Create
    <2>1. /\ at = "closed" /\ at' = "run" /\ next' = next
          /\ ~audioRequest' /\ ~audioFinished'
          /\ mode' \in Modes /\ UNCHANGED <<audioBusy, events, submitted, done>>
        BY <1>1 DEF Create
    <2>2. /\ audioRequest' \in BOOLEAN /\ audioFinished' \in BOOLEAN
          /\ runThread' \in BOOLEAN /\ thread' \in BOOLEAN /\ handles' \in BOOLEAN
        BY <1>1, Zenon DEF Create
    <2>3. \/ runThread' /\ thread' /\ handles' /\ worker' = "waiting"
          \/ UNCHANGED <<thread, handles, worker>>
        BY <1>1 DEF Create
    <2>4. TypeOK'  BY <2>1, <2>2, <2>3
    <2>5. QED  BY <2>1, <2>3, <2>4
<1>2. CASE ChangeMode  BY <1>2 DEF ChangeMode
<1>3. CASE ProcessAList
    <2>1. CASE mode = "async" /\ thread  BY <1>3, <2>1 DEF ProcessAList
    <2>2. CASE ~(mode = "async" /\ thread)
        <3>1. /\ at = "run" /\ at' = "ucode" /\ next' = next /\ mode # "disabled"
              /\ UNCHANGED <<plugin, flags, worker, events, counts>>
            BY <1>3, <2>2 DEF ProcessAList
        <3>2. mode = "sync" \/ ~thread  BY <2>2, <3>1
        <3>3. QED  BY <3>1, <3>2
    <2>3. QED  BY <2>1, <2>2
<1>4. CASE SyncUcode  BY <1>4 DEF SyncUcode
<1>5. CASE WaitTest  BY <1>5 DEF WaitTest
<1>6. CASE WaitWake  BY <1>6 DEF WaitWake
<1>7. CASE ClearFinished  BY <1>7 DEF ClearFinished
<1>8. CASE SetBusy  BY <1>8 DEF SetBusy
<1>9. CASE Request  BY <1>9 DEF Request
<1>10. CASE AudioEvent  BY <1>10 DEF AudioEvent
<1>11. CASE Report  BY <1>11 DEF Report
<1>12. CASE Close  BY <1>12 DEF Close
<1>13. CASE Release  BY <1>13 DEF Release
<1>14. CASE Stop
    <2>1. /\ at = "stop" /\ at' = "wakeup" /\ next' = next /\ ~runThread'
          /\ UNCHANGED <<plugin, audioBusy, audioRequest, audioFinished, worker, events, counts>>
        BY <1>14 DEF Stop
    <2>2. runThread' \in BOOLEAN  BY <1>14, Zenon DEF Stop
    <2>3. QED  BY <2>1, <2>2
<1>15. CASE Wakeup  BY <1>15 DEF Wakeup
<1>16. CASE Join
    <2>1. /\ at = "join" /\ at' = "free" /\ next' = next
          /\ worker = "exited" /\ worker' = "none" /\ ~thread'
          /\ UNCHANGED <<mode, handles, flags, events, counts>>
        BY <1>16 DEF Join
    <2>2. thread' \in BOOLEAN  BY <1>16, Zenon DEF Join
    <2>3. QED  BY <2>1, <2>2
<1>17. CASE CloseHandles  BY <1>17 DEF CloseHandles
<1>18. CASE Take  BY <1>18 DEF Take
<1>19. CASE TestRun  BY <1>19 DEF TestRun
<1>20. CASE AsyncUcode  BY <1>20 DEF AsyncUcode
<1>21. CASE ClearBusy  BY <1>21 DEF ClearBusy
<1>22. CASE SignalFinished  BY <1>22 DEF SignalFinished
<1>23. CASE Capture  BY <1>23 DEF Capture
<1>24. CASE Captured  BY <1>24 DEF Captured
<1>25. CASE UNCHANGED vars  BY <1>25 DEF vars
<1>26. QED
    BY <1>1, <1>2, <1>3, <1>4, <1>5, <1>6, <1>7, <1>8, <1>9, <1>10, <1>11, <1>12,
       <1>13, <1>14, <1>15, <1>16, <1>17, <1>18, <1>19, <1>20, <1>21, <1>22, <1>23,
       <1>24, <1>25
    DEF Next, Emulation, Pending, Worker

\* The invariant holds in every reachable state.
THEOREM Invariant == Spec => []Inv
BY InitInv, NextInv, PTL DEF Spec

\* For any number of tasks and whenever the menu changes the mode, the audio
\* microcode runs on both threads only while the worker's list is not yet reported.
THEOREM UcodesMeetUnreported == Spec => []OneUcodeOnceReported
<1>1. Inv => OneUcodeOnceReported
    BY DEF Inv, TypeOK, Modes, Lifetime, Account, Expected, Stopping, Taken,
        OneUcodeOnceReported
<1>2. QED  BY <1>1, Invariant, PTL

\* A task is reported, and a session closed, only when nothing is outstanding.
THEOREM NothingOutstanding == Spec => []WaitedForAll
<1>1. Inv => WaitedForAll
    BY DEF Inv, TypeOK, Account, Expected, Stopping, Taken, WaitedForAll
<1>2. QED  BY <1>1, Invariant, PTL

\* The one-shot request event never holds two requests.
THEOREM RequestsDistinct == Spec => []NoLostRequest
<1>1. Inv => NoLostRequest
    BY DEF Inv, TypeOK, Account, Expected, Stopping, Taken, NoLostRequest
<1>2. QED  BY <1>1, Invariant, PTL

\* The worker never uses a closed handle.
THEOREM HandlesOpen == Spec => []HandlesOutlive
<1>1. Inv => HandlesOutlive
    BY DEF Inv, Lifetime, HandlesOutlive
<1>2. QED  BY <1>1, Invariant, PTL
-------------------------------------------------------------------------------
(* Why every wait ends, short of fairness and ENABLED: while the emulation      *)
(* thread waits, the worker has a step to take, and each of its steps brings    *)
(* the end of the wait nearer.                                                 *)

\* The steps the worker can take before it waits for a request again, each of
\* which is possible without the emulation thread.
Left ==
    CASE worker = "signal" /\ audioRequest -> 6
      [] worker = "waiting" /\ audioRequest -> 5
      [] worker = "test" -> 4
      [] worker = "ucode" -> 3
      [] worker = "idle" -> 2
      [] worker = "signal" /\ ~audioRequest -> 1
      [] OTHER -> 0

\* The emulation thread waits for nothing that the worker will not do: it sleeps
\* only when the event is set or will be, and joins only a worker that ends.
WaitServed ==
    /\ at = "wait" /\ audioBusy => Left > 0
    /\ at = "sleep" => audioFinished \/ Left > 0
    /\ at = "join" => audioRequest \/ worker \in {"test", "exited"}

\* ... and while it waits nothing gives the worker more to do.
RunsDown ==
    at \in {"wait", "sleep", "join"} =>
        /\ Left' <= Left
        /\ Worker => Left' < Left

\* The count is a small number.
LEMMA LeftRange == Left \in 0..6
BY DEF Left

\* Every step keeps the waits served.
LEMMA ServedNext == Inv /\ Inv' /\ WaitServed /\ [Next]_vars => WaitServed'
<1> SUFFICES ASSUME Inv, Inv', WaitServed, [Next]_vars PROVE WaitServed'  OBVIOUS
<1>1. (at = "wait" /\ audioBusy => Left > 0)'
    BY DEF Inv, TypeOK, Account, Stopping, Taken, Resting, Left
<1>2. ASSUME at' = "sleep" PROVE (audioFinished \/ Left > 0)'
    <2>1. CASE WaitTest
        <3>1. at = "wait" /\ audioBusy /\ UNCHANGED <<worker, audioRequest>>
            BY <1>2, <2>1 DEF WaitTest, Enter, Inv, Called, TypeOK, flags
        <3>2. QED  BY <3>1 DEF WaitServed, Left
    <2>2. CASE Worker
        <3>1. at = "sleep" /\ (audioFinished \/ Left > 0) /\ (worker = "test" => runThread)
            BY <1>2, <2>2
            DEF Worker, Take, TestRun, AsyncUcode, ClearBusy, SignalFinished, WaitServed, Inv,
                Lifetime, Stopping
        <3>2. CASE Take \/ AsyncUcode \/ ClearBusy
            BY <3>2 DEF Take, AsyncUcode, ClearBusy, Left
        <3>3. CASE TestRun
            BY <3>1, <3>3 DEF TestRun, Left
        <3>4. CASE SignalFinished
            BY <3>4 DEF SignalFinished
        <3>5. QED  BY <2>2, <3>2, <3>3, <3>4 DEF Worker
    <2>3. CASE UNCHANGED vars
        BY <1>2, <2>3 DEF vars, flags, WaitServed, Left
    <2>4. WaitTest \/ Worker \/ UNCHANGED vars
        BY <1>2
        DEF Next, Emulation, Pending, Create, ChangeMode, ProcessAList, AudioEvent,
            Capture, Captured, Close,
            SyncUcode, WaitWake, ClearFinished, SetBusy, Request, Report, Release, Stop,
            Wakeup, Join, CloseHandles, Enter, WaitFor
    <2>5. QED  BY <2>1, <2>2, <2>3, <2>4
<1>3. ASSUME at' = "join" PROVE (audioRequest \/ worker \in {"test", "exited"})'
    <2>1. CASE Wakeup
        BY <2>1 DEF Wakeup
    <2>2. CASE Worker
        <3>1. /\ at = "join" /\ ~runThread /\ worker \notin {"ucode", "idle"}
              /\ audioRequest \/ worker \in {"test", "exited"}
            BY <1>3, <2>2
            DEF Worker, Take, TestRun, AsyncUcode, ClearBusy, SignalFinished, Inv, Lifetime,
                Account, Stopping, WaitServed
        <3>2. QED
            BY <2>2, <3>1
            DEF Worker, Take, TestRun, AsyncUcode, ClearBusy, SignalFinished, flags
    <2>3. CASE UNCHANGED vars
        BY <1>3, <2>3 DEF vars, flags, WaitServed
    <2>4. Wakeup \/ Worker \/ UNCHANGED vars
        BY <1>3
        DEF Next, Emulation, Pending, Create, ChangeMode, ProcessAList, AudioEvent,
            Capture, Captured, Close,
            SyncUcode, WaitTest, WaitWake, ClearFinished, SetBusy, Request, Report, Release,
            Stop, Join, CloseHandles, Enter, WaitFor, Inv, TypeOK
    <2>5. QED  BY <2>1, <2>2, <2>3, <2>4
<1>4. QED  BY <1>1, <1>2, <1>3 DEF WaitServed

\* Whoever waits for the worker is served by it: for any number of tasks, while
\* the emulation thread waits the worker is never out of steps (the safety half
\* of WaitEnds and CloseCompletes; AudioPluginCTR.cpp 56-88).
THEOREM WaitsAreServed == Spec => []WaitServed
<1>1. Init => WaitServed
    BY DEF Init, WaitServed
<1>2. QED  BY <1>1, InitInv, NextInv, ServedNext, PTL DEF Spec

\* A wait lasts at most six steps of the worker, each of which counts down.
THEOREM WaitsRunDown == Spec => [][RunsDown]_vars
<1>1. Inv /\ [Next]_vars => [RunsDown]_vars
    <2> SUFFICES ASSUME Inv, Next, at \in {"wait", "sleep", "join"}
                 PROVE  Left' <= Left /\ (Worker => Left' < Left)
        BY DEF RunsDown
    <2>1. CASE Worker
        <3>1. CASE TestRun
            BY <3>1 DEF TestRun, Left
        <3>2. CASE Take \/ AsyncUcode \/ ClearBusy \/ SignalFinished
            BY <3>2 DEF Take, AsyncUcode, ClearBusy, SignalFinished, Left, Inv, TypeOK,
                Account, Stopping, Taken, Resting
        <3>3. QED  BY <2>1, <3>1, <3>2 DEF Worker
    <2>2. CASE WaitTest \/ WaitWake
        <3>1. UNCHANGED <<worker, audioRequest>> /\ ~Worker
            BY <2>2 DEF WaitTest, WaitWake, flags, Worker, Take, TestRun, AsyncUcode,
                ClearBusy, SignalFinished
        <3>2. Left' = Left
            BY <3>1 DEF Left
        <3>3. QED  BY <3>1, <3>2, LeftRange
    <2>3. CASE Join
        <3>1. worker = "exited" /\ worker' = "none" /\ ~Worker
            BY <2>3 DEF Join, Worker, Take, TestRun, AsyncUcode, ClearBusy, SignalFinished
        <3>2. QED  BY <3>1 DEF Left
    <2>4. Worker \/ WaitTest \/ WaitWake \/ Join
        BY DEF Next, Emulation, Pending, Create, ChangeMode, ProcessAList, AudioEvent,
            Capture, Captured, Close,
            SyncUcode, ClearFinished, SetBusy, Request, Report, Release, Stop, Wakeup,
            CloseHandles
    <2>5. QED  BY <2>1, <2>2, <2>3, <2>4
<1>2. QED  BY <1>1, Invariant, PTL DEF Spec
-------------------------------------------------------------------------------
\* A task that has been started and not overtaken: it has run and is reported;
\* or its list is on its way; or it waits, and then nothing of an earlier audio
\* task is still to come that could halt the RSP.
Reported == runs = 1 /\ halt /\ broke
InDump == at = "capture" \/ (at \in {"wait", "sleep"} /\ next = "capture")
OnItsWay == runs = 1 /\ halt /\ task = "audio" /\ (at = "run" \/ InDump => events > 0)

AudioQuiet ==
    \/ at \in {"run", "capture", "release", "stop", "wakeup", "join", "free", "closed"}
    \/ at \in {"wait", "sleep"} /\ next \in {"capture", "release", "stop"}

Waiting ==
    /\ runs = 0 /\ ~halt /\ ~broke /\ events = 0 /\ AudioQuiet
    /\ task = "video" \/ (task = "graphics" /\ freeze)

RspInv ==
    /\ Inv
    /\ task \in Kinds \cup {"none"}
    /\ begun /\ ~overlap => Reported \/ OnItsWay \/ Waiting

\* RspTask's steps are AudioTask's, or leave it alone.
LEMMA AudioSteps == [RspNext]_rspVars => [Next]_vars
<1> SUFFICES ASSUME [RspNext]_rspVars PROVE [Next]_vars  OBVIOUS
<1> USE DEF ProcessTask, Hand
<1>1. CASE Load  BY <1>1 DEF Load
<1>2. CASE Start  BY <1>2 DEF Start, Next, Emulation
<1>3. CASE HaltRsp  BY <1>3 DEF HaltRsp
<1>4. CASE Freeze  BY <1>4 DEF Freeze
<1>5. CASE Unfreeze  BY <1>5 DEF Unfreeze, Next, Emulation
<1>6. CASE AudioDone  BY <1>6 DEF AudioDone, Next, Emulation, Pending
<1>7. CASE Open  BY <1>7 DEF Open, Next, Emulation
<1>8. CASE Background  BY <1>8 DEF Background, Next, Emulation, Pending
<1>9. CASE UNCHANGED rspVars  BY <1>9 DEF rspVars
<1>10. QED
    BY <1>1, <1>2, <1>3, <1>4, <1>5, <1>6, <1>7, <1>8, <1>9 DEF RspNext

LEMMA RspInitInv == RspInit => RspInv
BY InitInv DEF RspInit, RspInv

\* A task that is started, or looked at again.
LEMMA ProcessKeeps ==
    ASSUME Inv, at = "run", events = 0, task \in Kinds, ProcessTask(0, FALSE)
    PROVE  (Reported \/ OnItsWay \/ Waiting)' \/ task' # task
<1> SUFFICES ASSUME UNCHANGED task PROVE (Reported \/ OnItsWay \/ Waiting)'  OBVIOUS
<1>1. CASE UNCHANGED vars
    BY <1>1 DEF ProcessTask, Kinds, Finished, Hand, ProcessAList, Enter, WaitFor, Reported,
        OnItsWay, InDump, Waiting, AudioQuiet, vars
<1>2. CASE task = "graphics" /\ Finished /\ runs' = 0 + 1
    BY <1>2 DEF Finished, Reported
<1>3. CASE task = "audio" /\ Hand(FALSE) /\ runs' = 0 + 1
    BY <1>3 DEF Hand, ProcessAList, Enter, WaitFor, OnItsWay, InDump
<1>4. QED  BY <1>1, <1>2, <1>3 DEF ProcessTask

LEMMA RspNextInv == RspInv /\ [RspNext]_rspVars => RspInv'
<1> SUFFICES ASSUME RspInv, [RspNext]_rspVars PROVE RspInv'  OBVIOUS
<1>1. Inv'  BY AudioSteps, NextInv DEF RspInv
<1>2. CASE Load  BY <1>1, <1>2 DEF Load, RspInv
<1>3. CASE Start
    <2>1. /\ at = "run" /\ task \in Kinds /\ task' = task /\ ProcessTask(0, FALSE)
        BY <1>3 DEF Start, RspInv
    <2>2. ~overlap' => ~(events > 0)  BY <1>3, Zenon DEF Start
    <2>3. ~(events > 0) => events = 0  BY DEF RspInv, Inv, TypeOK
    <2>4. QED  BY <1>1, <2>1, <2>2, <2>3, ProcessKeeps DEF RspInv
<1>4. CASE HaltRsp  BY <1>1, <1>4 DEF HaltRsp, RspInv
<1>5. CASE Freeze
    BY <1>1, <1>5
    DEF Freeze, RspInv, Reported, OnItsWay, InDump, Waiting, AudioQuiet, vars, history
<1>6. CASE Unfreeze
    <2>1. CASE halt
        BY <1>1, <1>6, <2>1
        DEF Unfreeze, RspInv, Reported, OnItsWay, InDump, Waiting, AudioQuiet, vars
    <2>2. CASE ~halt /\ begun /\ ~overlap
        <3>1. Waiting  BY <2>2 DEF RspInv, Reported, OnItsWay, InDump
        <3>2. /\ at = "run" /\ events = 0 /\ task \in Kinds /\ task' = task
              /\ ProcessTask(0, FALSE)
            BY <1>6, <2>2, <3>1 DEF Unfreeze, RspInv, Waiting, Kinds, ProcessTask, Hand
        <3>3. QED  BY <1>1, <3>2, ProcessKeeps DEF RspInv
    <2>3. CASE ~halt /\ ~(begun /\ ~overlap)
        BY <1>1, <1>6, <2>3 DEF Unfreeze, RspInv
    <2>4. QED  BY <2>1, <2>2, <2>3
<1>7. CASE AudioDone
    BY <1>1, <1>7
    DEF AudioDone, SyncUcode, Report, Finished, RspInv, Reported, OnItsWay, InDump, Waiting,
        AudioQuiet, history
<1>8. CASE Open  BY <1>1, <1>8 DEF Open, Reset, RspInv
<1>9. CASE Background
    <2>1. UNCHANGED <<task, halt, broke, freeze, begun, runs, overlap>>
        BY <1>9 DEF Background, registers, history
    <2>2. ASSUME OnItsWay PROVE OnItsWay'
        BY <1>9, <2>1, <2>2
        DEF Background, OnItsWay, InDump, RspInv, Inv, TypeOK, Called, ChangeMode,
            AudioEvent, Capture, Captured, Close,
            WaitTest, WaitWake, ClearFinished, SetBusy, Request, Release, Stop, Wakeup, Join,
            CloseHandles, Worker, Take, TestRun, AsyncUcode, ClearBusy, SignalFinished,
            Enter, WaitFor, counts
    <2>3. ASSUME Waiting PROVE Waiting'
        BY <1>9, <2>1, <2>3
        DEF Background, Waiting, AudioQuiet, RspInv, Inv, TypeOK, ChangeMode,
            AudioEvent, Capture, Captured, Close,
            WaitTest, WaitWake, ClearFinished, SetBusy, Request, Release, Stop, Wakeup, Join,
            CloseHandles, Worker, Take, TestRun, AsyncUcode, ClearBusy, SignalFinished,
            Enter, WaitFor, counts
    <2>4. QED  BY <1>1, <2>1, <2>2, <2>3 DEF RspInv, Reported
<1>10. CASE UNCHANGED rspVars
    BY <1>1, <1>10
    DEF rspVars, vars, registers, history, RspInv, Reported, OnItsWay, InDump, Waiting,
        AudioQuiet
<1>11. QED
    BY <1>2, <1>3, <1>4, <1>5, <1>6, <1>7, <1>8, <1>9, <1>10 DEF RspNext

\* For any number of tasks, one that is started runs once and is reported, unless
\* nothing handles it, it is frozen, or an earlier one's event overtakes it.
THEOREM StartedRunsOnce == RspSpec => []RunsOnce
<1>1. RspInv => RunsOnce  BY DEF RspInv, Reported, OnItsWay, InDump, Waiting, RunsOnce
<1>2. QED  BY <1>1, RspInitInv, RspNextInv, PTL DEF RspSpec

\* RspTask, whose steps are AudioTask's and which schedules the same threads,
\* implements AudioTask: what has been proved of that holds of both together.
THEOREM RspIsAudioTask == RspSpec => Spec
<1>1. RspInit => Init
    BY DEF RspInit
<1>2. QED  BY <1>1, AudioSteps, PTL DEF RspSpec, Spec
================================================================================
