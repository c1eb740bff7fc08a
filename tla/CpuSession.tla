------------------------------- MODULE CpuSession -------------------------------
(***************************************************************************)
(* How a game is started, stopped, dumped, saved, loaded and left: the main *)
(* loop (SysCTR/main.cpp), CPU_Run and its jobs (Core/CPU.cpp), the menu's  *)
(* requests for save states, the diagnostics (DiagnosticsCTR.cpp) and       *)
(* System_Open and System_Close.                                           *)
(*                                                                         *)
(* Requests are made within an operation or a vertical blank and served     *)
(* later, one job at a time, by a CPU loop that several parts stop for     *)
(* reasons of their own.                                                   *)
(***************************************************************************)
EXTENDS FiniteSets

CONSTANTS Games, NoGame         \* the ROMs, and none

ASSUME GamesAssumption == NoGame \notin Games

VARIABLES
    at,                 \* main: selector, cpu, stopped, returned or exited
    rom,                \* the game that System_Open opened
    jobs,               \* StuffToDo, without interrupts and exceptions
    due,                \* an operation is over and the counter not updated
    operation, named,   \* gSaveStateOperation, and the game of its file name
    file,               \* the game whose state each game's file holds, if any
    latched,            \* Chord::latched
    requested, dumping, \* the two flags of the diagnostics: requested, stopped
    appExit, shouldQuit \* aptMainLoop returns false; and main knows

cpu == <<rom, jobs, due>>
state == <<operation, named, file>>
diagnostics == <<latched, requested, dumping>>
quit == <<appExit, shouldQuit>>
vars == <<at, cpu, state, diagnostics, quit>>

Jobs == {"CHANGE_CORE", "STOP_RUNNING", "DIAGNOSTIC_DUMP"}

Init ==
    /\ at = "selector" /\ rom = NoGame /\ jobs = {} /\ due = FALSE
    /\ operation = "NONE" /\ named = NoGame
    /\ file \in [Games -> Games \cup {NoGame}] /\ \A game \in Games : file[game] \in {game, NoGame}
    /\ latched = FALSE /\ requested = FALSE /\ dumping = FALSE
    /\ appExit = FALSE /\ shouldQuit = FALSE

\* The user closes the application.  From then on there is no other input.
ExitApplication ==
    /\ at # "exited" /\ ~appExit /\ appExit' = TRUE
    /\ UNCHANGED <<at, cpu, state, diagnostics, shouldQuit>>
-------------------------------------------------------------------------------
\* System_Open(game): what was open is closed, and CPU_RomOpen resets the jobs;
\* if an entry fails, all are closed again, before or after the CPU's.
SystemOpen(game) ==
    \/ rom' = game /\ jobs' = {"CHANGE_CORE"}
    \/ rom' = NoGame /\ jobs' \in {jobs, {"CHANGE_CORE"}}

\* CPU_Run: only with a ROM.
CpuRun == at' = IF rom' = NoGame THEN "returned" ELSE "cpu"

\* The selector; aptMainLoop ends it as well.
SelectRom ==
    /\ at = "selector" /\ ~appExit
    /\ \E game \in Games : SystemOpen(game)
    /\ at' = IF rom' = NoGame THEN "selector" ELSE "cpu"
    /\ UNCHANGED <<due, state, diagnostics, quit>>

LeaveSelector ==
    /\ at = "selector" /\ at' = "exited"
    /\ shouldQuit' \in {shouldQuit, TRUE}
    /\ UNCHANGED <<cpu, state, diagnostics, appExit>>

\* Chord::Update with none, some or all of its buttons held: recognised once.
Chord(held) ==
    latched' = CASE held = "none" -> FALSE [] held = "all" -> TRUE [] OTHER -> latched

Recognised == ~latched /\ latched'

\* PollMenu: a dump of the selector.
PollMenu ==
    /\ at = "selector" /\ \E held \in {"none", "some", "all"} : Chord(held)
    /\ UNCHANGED <<at, cpu, state, requested, dumping, quit>>
-------------------------------------------------------------------------------
\* What an operation does to the jobs and the requests.
Op == at = "cpu" /\ jobs = {} /\ ~due /\ due' = TRUE

\* Mutant: the exit is passed on only the first time.
EndOfFrame_Once(added) ==
    /\ shouldQuit' = (shouldQuit \/ appExit)
    /\ jobs' = jobs \cup added \cup (IF appExit /\ ~shouldQuit THEN {"STOP_RUNNING"} ELSE {})

\* HandleEndOfFrame, with the jobs added before it in the same handler.
EndOfFrame(added) ==
    /\ shouldQuit' = (shouldQuit \/ appExit)
    /\ jobs' = jobs \cup added \cup (IF appExit THEN {"STOP_RUNNING"} ELSE {})

Queue(kind) ==
    IF operation = "NONE"
    THEN operation' = kind /\ named' = rom
    ELSE UNCHANGED <<operation, named>>

\* A display list draws the menu and ends the frame.  CPU_RequestSaveState and
\* CPU_RequestLoadState are refused while an operation is queued.
Frame ==
    /\ Op /\ rom # NoGame
    /\ \/ EndOfFrame({}) /\ UNCHANGED <<operation, named>>
       \/ ~appExit /\ EndOfFrame({"STOP_RUNNING"}) /\ UNCHANGED <<operation, named>>
       \/ /\ ~appExit
          /\ \E kind \in {"SAVE", "LOAD"} : Queue(kind)
          /\ EndOfFrame(IF operation = "NONE" THEN {"CHANGE_CORE"} ELSE {})
    /\ UNCHANGED <<at, rom, file, diagnostics, appExit>>

\* PollInput: the job it may add.
PollInput(held) ==
    /\ Chord(held) /\ requested' = (requested \/ Recognised)
    /\ UNCHANGED dumping

DumpJob == IF Recognised /\ ~requested THEN {"DIAGNOSTIC_DUMP"} ELSE {}

\* The game reads its controllers.
ReadPad ==
    /\ Op /\ ~appExit
    /\ \E held \in {"none", "some", "all"} : PollInput(held)
    /\ jobs' = DumpJob
    /\ UNCHANGED <<at, rom, state, quit>>

\* Any other operation.  The recompiler may change the core, or find no memory.
Compute ==
    /\ Op
    /\ jobs' \in {{}, {"CHANGE_CORE"}, {"STOP_RUNNING"}}
    /\ UNCHANGED <<at, rom, state, diagnostics, quit>>

NoBlank ==
    /\ at = "cpu" /\ due /\ due' = FALSE
    /\ UNCHANGED <<at, rom, jobs, state, diagnostics, quit>>

\* The state in the file is one of the game that is open.
Loads == operation = "LOAD" /\ file[named] = rom /\ rom # NoGame

\* HandleSaveStateOperationOnVerticalBlank.  Writing may fail, and leave nothing
\* readable; a load that fails stays queued and halts the CPU.
SaveOrLoad ==
    /\ operation' = IF operation = "SAVE" \/ Loads THEN "NONE" ELSE operation
    /\ IF operation = "SAVE"
       THEN file' \in {file} \cup {[file EXCEPT ![named] = game] : game \in {rom, NoGame}}
       ELSE UNCHANGED file
    /\ UNCHANGED named

StateJobs ==
    IF operation # "LOAD" THEN {} ELSE IF Loads THEN {"CHANGE_CORE"} ELSE {"STOP_RUNNING"}

\* The vertical blank: PollApplication, then the save state.
VerticalBlank ==
    /\ at = "cpu" /\ due /\ due' = FALSE
    /\ IF appExit
       THEN EndOfFrame(StateJobs) /\ UNCHANGED diagnostics
       ELSE /\ \E held \in {"none", "some", "all"} : PollInput(held)
            /\ EndOfFrame(StateJobs \cup DumpJob)
    /\ SaveOrLoad
    /\ UNCHANGED <<at, rom, appExit>>
-------------------------------------------------------------------------------
\* CPU_CheckStuffToDo: one job, a change of the core before a stop before a dump.
Serve ==
    /\ at = "cpu" /\ ~due
    /\ \/ "CHANGE_CORE" \in jobs /\ jobs' = jobs \ {"CHANGE_CORE"} /\ UNCHANGED <<at, dumping>>
       \/ /\ "CHANGE_CORE" \notin jobs /\ "STOP_RUNNING" \in jobs
          /\ jobs' = jobs \ {"STOP_RUNNING"} /\ at' = "stopped" /\ UNCHANGED dumping
       \/ /\ jobs = {"DIAGNOSTIC_DUMP"}
          /\ jobs' = {} /\ at' = "stopped" /\ dumping' = TRUE
    /\ UNCHANGED <<rom, due, state, latched, requested, quit>>

\* Mutant: the operation stays queued.
StopRunning_Keeps ==
    /\ at = "stopped" /\ at' = IF operation = "LOAD" THEN "cpu" ELSE "returned"
    /\ IF operation = "LOAD" /\ file[named] # NoGame
       THEN SystemOpen(file[named]) \/ UNCHANGED <<rom, jobs>>
       ELSE UNCHANGED <<rom, jobs>>
    /\ UNCHANGED <<due, state, diagnostics, quit>>

\* HandleSaveStateOperationOnCPUStopRunning: a queued load opens the game of the
\* file, if the file and the ROM database know one, and the CPU runs again.
StopRunning ==
    /\ at = "stopped" /\ at' = IF operation = "LOAD" THEN "cpu" ELSE "returned"
    /\ operation' = IF operation = "LOAD" THEN "NONE" ELSE operation
    /\ IF operation = "LOAD" /\ file[named] # NoGame
       THEN SystemOpen(file[named]) \/ UNCHANGED <<rom, jobs>>
       ELSE UNCHANGED <<rom, jobs>>
    /\ UNCHANGED <<due, named, file, diagnostics, quit>>

\* Mutant: a request is enough, whatever stopped the CPU.
RunPending_AnyStop == requested /\ ~shouldQuit

\* CTRDiagnostics::RunPending
RunPending == requested /\ dumping /\ ~shouldQuit

\* Mutant: the CPU runs again, ROM or not.
Dump_AnyRom ==
    /\ at = "returned" /\ RunPending
    /\ requested' = FALSE /\ dumping' = FALSE /\ shouldQuit' \in {FALSE, appExit}
    /\ UNCHANGED <<cpu, state, latched, appExit>>
    /\ at' = IF shouldQuit' THEN "returned" ELSE "cpu"

\* The dump, which polls aptMainLoop, and the CPU again.
Dump ==
    /\ at = "returned" /\ RunPending
    /\ requested' = FALSE /\ dumping' = FALSE /\ shouldQuit' \in {FALSE, appExit}
    /\ UNCHANGED <<cpu, state, latched, appExit>>
    /\ IF shouldQuit' THEN UNCHANGED at ELSE CpuRun

\* Mutant: a request that another stop overtook is not cancelled.
Close_KeepsRequest ==
    /\ at = "returned" /\ ~RunPending
    /\ dumping' = FALSE
    /\ jobs' = jobs \ {"DIAGNOSTIC_DUMP"} /\ rom' = NoGame
    /\ at' = IF shouldQuit THEN "exited" ELSE "selector"
    /\ UNCHANGED <<due, state, latched, requested, quit>>

\* CTRDiagnostics::Cancel and System_Close.
Close ==
    /\ at = "returned" /\ ~RunPending
    /\ requested' = FALSE /\ dumping' = FALSE
    /\ jobs' = jobs \ {"DIAGNOSTIC_DUMP"} /\ rom' = NoGame
    /\ at' = IF shouldQuit THEN "exited" ELSE "selector"
    /\ UNCHANGED <<due, state, latched, quit>>

Exited == at = "exited" /\ UNCHANGED vars
-------------------------------------------------------------------------------
Running == Frame \/ ReadPad \/ Compute \/ NoBlank \/ VerticalBlank \/ Serve
Main == StopRunning \/ Dump \/ Close

Next ==
    \/ ExitApplication \/ SelectRom \/ LeaveSelector \/ PollMenu
    \/ Running \/ Main \/ Exited

\* The CPU goes on, the vertical blank recurs (EventQueue's BlanksRecur), and
\* the selector ends when the application does.
Spec ==
    /\ Init /\ [][Next]_vars
    /\ WF_vars(Running) /\ SF_vars(VerticalBlank) /\ WF_vars(Main)
    /\ WF_vars(appExit /\ LeaveSelector)
-------------------------------------------------------------------------------
TypeOK ==
    /\ at \in {"selector", "cpu", "stopped", "returned", "exited"}
    /\ rom \in Games \cup {NoGame} /\ jobs \subseteq Jobs /\ due \in BOOLEAN
    /\ operation \in {"NONE", "SAVE", "LOAD"} /\ named \in Games \cup {NoGame}
    /\ file \in [Games -> Games \cup {NoGame}]
    /\ latched \in BOOLEAN /\ requested \in BOOLEAN /\ dumping \in BOOLEAN
    /\ appExit \in BOOLEAN /\ shouldQuit \in BOOLEAN

\* Nothing of a game is left in the selector: no ROM, no dump to take.
ClosedClean == at = "selector" => rom = NoGame /\ ~requested /\ ~dumping

Misnamed == rom # NoGame /\ operation # "NONE" /\ named # rom

\* A save state comes to be taken under the name of another game only if its
\* save was still queued when the last game was left.
OnlyQueuedMisnamed ==
    [][Misnamed' /\ ~Misnamed => at = "selector" /\ operation = "SAVE"]_vars

\* The CPU runs without a ROM only after a load that could not open its game:
\* HandleSaveStateOperationOnCPUStopRunning does not look at what System_Open says.
OnlyLoadRunsWithoutRom ==
    [][at' = "cpu" /\ rom' = NoGame /\ ~(at = "cpu" /\ rom = NoGame)
          => at = "stopped" /\ operation = "LOAD"]_vars

\* A halt leads back to the selector, whatever else is asked for meanwhile, if
\* there is no load queued and no dump left over from an earlier stop.
HaltEnds ==
    "STOP_RUNNING" \in jobs /\ operation # "LOAD" /\ ~dumping ~> at \in {"selector", "exited"}

\* Closing the application ends it, though a load throws the halt away.
ExitEnds == appExit ~> at = "exited"

\* "Shouldn't have a save state operation queued." (CPU_Run)
NothingQueued == [][at # "cpu" /\ at' = "cpu" => operation' = "NONE"]_vars

\* "Verify one directory per complete press/release cycle"
\* (docs/HARDWARE-TESTING.md): no chord meets a request that was never served.
OnePerCycle == [][Recognised /\ at = "cpu" => ~requested]_vars
===============================================================================
