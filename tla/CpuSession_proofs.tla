---------------------------- MODULE CpuSession_proofs ----------------------------
(***************************************************************************)
(* Proofs about CpuSession for every set of games: what is left over when a *)
(* game is closed, and the two ways to mix up games that there are.        *)
(***************************************************************************)
EXTENDS CpuSession, TLAPS

Flags ==
    /\ due \in BOOLEAN /\ latched \in BOOLEAN /\ requested \in BOOLEAN
    /\ dumping \in BOOLEAN /\ appExit \in BOOLEAN /\ shouldQuit \in BOOLEAN

Values ==
    /\ at \in {"selector", "cpu", "stopped", "returned", "exited"}
    /\ rom \in Games \cup {NoGame} /\ jobs \subseteq Jobs
    /\ operation \in {"NONE", "SAVE", "LOAD"} /\ named \in Games \cup {NoGame}
    /\ file \in [Games -> Games \cup {NoGame}]

\* A queued operation names a game, and a load is queued only around the CPU.
Queued ==
    /\ operation # "NONE" => named \in Games
    /\ operation = "LOAD" => at \in {"cpu", "stopped"}

Inv == Flags /\ Values /\ Queued /\ ClosedClean
-------------------------------------------------------------------------------
LEMMA InitInv == Init => Inv
BY DEF Init, Inv, Flags, Values, Jobs, Queued, ClosedClean

LEMMA ChordStep == ASSUME NEW held, Chord(held), latched \in BOOLEAN PROVE latched' \in BOOLEAN
<1>1. CASE held = "none"  BY <1>1 DEF Chord
<1>2. CASE held = "all"  BY <1>2 DEF Chord
<1>3. CASE held \notin {"none", "all"}
    <2>1. latched' = latched  BY <1>3 DEF Chord
    <2>2. QED  BY <2>1
<1>4. QED  BY <1>1, <1>2, <1>3

LEMMA FlagsStep == Inv /\ Next => Flags'
<1> SUFFICES ASSUME Inv, Next PROVE Flags'  OBVIOUS
<1>0. Flags  BY DEF Inv
<1>1. latched' \in BOOLEAN
    <2>1. latched' = latched \/ \E held \in {"none", "some", "all"} : Chord(held)
        BY DEF Next, ExitApplication, SelectRom, LeaveSelector, PollMenu, Running, Main, Exited,
           vars, diagnostics, Frame, ReadPad, Compute, NoBlank, VerticalBlank, PollInput, Serve,
           StopRunning, Dump, Close
    <2>2. QED  BY <1>0, <2>1, ChordStep DEF Flags
<1>2. /\ due' \in {due, TRUE, FALSE}
      /\ requested' \in {requested, FALSE} \/ requested' = (requested \/ Recognised)
      /\ dumping' \in {dumping, TRUE, FALSE} /\ appExit' \in {appExit, TRUE}
      /\ shouldQuit' \in {shouldQuit, FALSE, TRUE, appExit} \/ shouldQuit' = (shouldQuit \/ appExit)
    BY DEF Next, ExitApplication, SelectRom, LeaveSelector, PollMenu, Running, Main, Exited,
       vars, cpu, diagnostics, quit, Op, Frame, EndOfFrame, ReadPad, Compute, NoBlank,
       VerticalBlank, PollInput, Serve, StopRunning, Dump, Close
<1>3. QED  BY <1>0, <1>1, <1>2, Zenon DEF Flags

\* The selector and the main loop.
LEMMA MainStep ==
    ASSUME Inv, ExitApplication \/ SelectRom \/ LeaveSelector \/ PollMenu \/ Main \/ Exited
    PROVE  Values' /\ Queued' /\ ClosedClean'
<1> USE DEF Inv, Values, Queued, ClosedClean
<1>1. CASE ExitApplication
    BY <1>1 DEF ExitApplication, cpu, state, diagnostics
<1>2. CASE SelectRom
    <2>1. PICK game \in Games : SystemOpen(game)  BY <1>2 DEF SelectRom
    <2>2. rom' \in Games \cup {NoGame} /\ jobs' \subseteq Jobs
        BY <2>1 DEF SystemOpen, Jobs
    <2>3. QED  BY <1>2, <2>2 DEF SelectRom, state, diagnostics
<1>3. CASE LeaveSelector
    BY <1>3 DEF LeaveSelector, cpu, state, diagnostics
<1>4. CASE PollMenu
    BY <1>4 DEF PollMenu, cpu, state
<1>5. CASE StopRunning
    <2>1. operation = "LOAD" => file[named] \in Games \cup {NoGame}  OBVIOUS
    <2>2. rom' \in Games \cup {NoGame} /\ jobs' \subseteq Jobs
        BY <1>5, <2>1 DEF StopRunning, SystemOpen, Jobs
    <2>3. QED  BY <1>5, <2>2 DEF StopRunning, diagnostics
<1>6. CASE Dump
    BY <1>6 DEF Dump, CpuRun, cpu, state
<1>7. CASE Close
    BY <1>7 DEF Close, state
<1>8. CASE Exited
    BY <1>8 DEF Exited, vars, cpu, state, diagnostics
<1>9. QED  BY <1>1, <1>2, <1>3, <1>4, <1>5, <1>6, <1>7, <1>8 DEF Main

LEMMA RunningStep ==
    ASSUME Inv, Running
    PROVE  Values' /\ Queued' /\ ClosedClean' /\ rom' = rom
<1> USE DEF Inv, Values, Queued, ClosedClean
<1>1. CASE Frame
    <2>1. jobs' \subseteq Jobs  BY <1>1 DEF Frame, EndOfFrame, Jobs
    <2>2. \/ UNCHANGED <<operation, named>>
          \/ operation' \in {"SAVE", "LOAD"} /\ named' = rom /\ rom # NoGame
        BY <1>1 DEF Frame, Queue
    <2>3. QED  BY <1>1, <2>1, <2>2 DEF Frame, Op, diagnostics
<1>2. CASE ReadPad
    BY <1>2 DEF ReadPad, Op, DumpJob, state, Jobs
<1>3. CASE Compute
    BY <1>3 DEF Compute, Op, state, Jobs
<1>4. CASE NoBlank
    BY <1>4 DEF NoBlank, state
<1>5. CASE VerticalBlank
    <2>1. jobs' \subseteq Jobs
        BY <1>5 DEF VerticalBlank, EndOfFrame, StateJobs, DumpJob, Jobs
    <2>2. operation' \in {operation, "NONE"} /\ named' = named  BY <1>5 DEF VerticalBlank, SaveOrLoad
    <2>3. file' \in [Games -> Games \cup {NoGame}]
        BY <1>5 DEF VerticalBlank, SaveOrLoad
    <2>4. QED  BY <1>5, <2>1, <2>2, <2>3 DEF VerticalBlank
<1>6. CASE Serve
    BY <1>6 DEF Serve, state, Jobs
<1>7. QED  BY <1>1, <1>2, <1>3, <1>4, <1>5, <1>6 DEF Running

LEMMA NextInv == Inv /\ [Next]_vars => Inv'
<1> SUFFICES ASSUME Inv, [Next]_vars PROVE Inv'  OBVIOUS
<1>1. CASE UNCHANGED vars
    BY <1>1 DEF vars, cpu, state, diagnostics, quit, Inv, Flags, Values, Queued, ClosedClean
<1>2. CASE Next
    <2>1. Flags'  BY <1>2, FlagsStep
    <2>2. Values' /\ Queued' /\ ClosedClean'  BY <1>2, MainStep, RunningStep DEF Next
    <2>3. QED  BY <2>1, <2>2 DEF Inv
<1>3. QED  BY <1>1, <1>2

\* The types, for every set of games.
THEOREM TypeCorrect == Spec => []TypeOK
<1>1. Init => Inv  BY InitInv
<1>2. Inv /\ [Next]_vars => Inv'  BY NextInv
<1>3. Inv => TypeOK  BY DEF Inv, Flags, Values, TypeOK
<1>4. QED  BY <1>1, <1>2, <1>3, PTL DEF Spec

\* In the selector no ROM is open and no dump is asked for or under way.
THEOREM NothingLeft == Spec => []ClosedClean
<1>1. Init => Inv  BY InitInv
<1>2. Inv /\ [Next]_vars => Inv'  BY NextInv
<1>3. Inv => ClosedClean  BY DEF Inv
<1>4. QED  BY <1>1, <1>2, <1>3, PTL DEF Spec

\* A save state goes under another game's name only through a save that was
\* still queued when the selector opened that game.
THEOREM MisnamedByQueuedSave == Spec => OnlyQueuedMisnamed
<1>1. Init => Inv  BY InitInv
<1>2. Inv /\ [Next]_vars => Inv'  BY NextInv
<1>3. ASSUME Inv, [Next]_vars
      PROVE  [Misnamed' /\ ~Misnamed => at = "selector" /\ operation = "SAVE"]_vars
    <2> SUFFICES ASSUME Next, Misnamed', ~Misnamed
                 PROVE  at = "selector" /\ operation = "SAVE"
        BY <1>3
    <2>1. CASE SelectRom
        BY <1>3, <2>1 DEF SelectRom, state, Misnamed, Inv, Queued, Values
    <2>2. CASE Frame
        BY <2>2 DEF Frame, Queue, Misnamed
    <2>3. CASE VerticalBlank
        BY <2>3 DEF VerticalBlank, SaveOrLoad, Misnamed
    <2>4. CASE StopRunning
        BY <2>4 DEF StopRunning, Misnamed
    <2>5. CASE Close
        BY <2>5 DEF Close, state, Misnamed
    <2>6. CASE \/ ExitApplication \/ LeaveSelector \/ PollMenu \/ ReadPad \/ Compute
               \/ NoBlank \/ Serve \/ Dump \/ Exited
        BY <2>6 DEF ExitApplication, LeaveSelector, PollMenu, ReadPad, Compute, NoBlank, Serve,
           Dump, Exited, vars, cpu, state, Misnamed
    <2>7. QED  BY <2>1, <2>2, <2>3, <2>4, <2>5, <2>6 DEF Next, Running, Main
<1>4. QED  BY <1>1, <1>2, <1>3, PTL DEF Spec, OnlyQueuedMisnamed

\* The CPU is started without a ROM by nothing but a load that could not open one.
THEOREM NoRomByLoad == Spec => OnlyLoadRunsWithoutRom
<1>1. Init => Inv  BY InitInv
<1>2. Inv /\ [Next]_vars => Inv'  BY NextInv
<1>3. ASSUME Inv, [Next]_vars
      PROVE  [at' = "cpu" /\ rom' = NoGame /\ ~(at = "cpu" /\ rom = NoGame)
                  => at = "stopped" /\ operation = "LOAD"]_vars
    <2> SUFFICES ASSUME Next, at' = "cpu", rom' = NoGame, ~(at = "cpu" /\ rom = NoGame)
                 PROVE  at = "stopped" /\ operation = "LOAD"
        BY <1>3
    <2>1. CASE Running
        <3>1. rom' = rom  BY <1>3, <2>1, RunningStep
        <3>2. at = "cpu"
            BY <2>1 DEF Running, Frame, ReadPad, Compute, Op, NoBlank, VerticalBlank, Serve
        <3>3. QED  BY <3>1, <3>2
    <2>2. CASE Main
        BY <2>2 DEF Main, StopRunning, Dump, CpuRun, Close, cpu
    <2>3. CASE ExitApplication \/ SelectRom \/ LeaveSelector \/ PollMenu \/ Exited
        BY <2>3 DEF ExitApplication, SelectRom, LeaveSelector, PollMenu, Exited, vars, cpu
    <2>4. QED  BY <2>1, <2>2, <2>3 DEF Next
<1>4. QED  BY <1>1, <1>2, <1>3, PTL DEF Spec, OnlyLoadRunsWithoutRom
================================================================================
