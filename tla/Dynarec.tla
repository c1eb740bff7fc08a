-------------------------------- MODULE Dynarec --------------------------------
(***************************************************************************)
(* The dynamic recompiler (Core/Dynamo.cpp with DynaRec/ and the ARM code   *)
(* generator of SysCTR): the interpreter core that counts hot addresses and *)
(* records traces, the fragments made of them, the jumps that lead from one *)
(* fragment to the next, and everything that leaves them: events, jobs,     *)
(* faults, and the invalidation of code that is loaded again.  Whatever     *)
(* runs, the guest's control flow must be that of Guest.                    *)
(*                                                                         *)
(* Data is left out: a branch goes either way, an access takes the fast     *)
(* path or the slow one, and its slow path may raise a job.  A new version  *)
(* of code is a number; its control flow stays.  Generated branches are     *)
(* those the ARM generator translates itself (all but the COP1 and linking  *)
(* ones).  The OS functions' stubs and the speed hacks are not modelled.    *)
(***************************************************************************)
EXTENDS FragmentCache, TraceRecorder

CONSTANTS
    Games,              \* see Guest; each with its preference for loops
    Threshold,          \* gHotTraceThreshold
    MaxHot,             \* gMaxHotTraceMapSize
    MaxFragments,       \* gMaxFragmentCacheSize
    MaxReloads          \* bound: loads of code over code

Straight == {"alu", "nop", "mem", "dma"}
Delayed == {"branch", "likely", "jump", "jr"}       \* followed by a delay slot

\* A program: its ops by address, of which none has a branch in its slot or
\* leads to 0, which is no address.
IsGame(g) ==
    /\ DOMAIN g.code \subseteq Nat \ {0}
    /\ \A a \in DOMAIN g.code :
          /\ g.code[a].kind \in Straight \cup Delayed \cup {"eret"} /\ g.code[a].to \in Nat
          /\ g.code[a].kind \in Delayed /\ a + 1 \in DOMAIN g.code =>
                g.code[a + 1].kind \in Straight
          /\ g.code[a].kind \in {"branch", "likely", "jump"} => g.code[a].to # 0
    /\ g.vector \in Nat /\ \A a \in g.returns : a \in Nat \ {0}
    /\ g.reload.from \in DOMAIN g.code /\ g.reload.len \in Nat

ASSUME DynarecAssumption ==
    /\ \A g \in Games : IsGame(g)
    /\ Threshold \in Nat \ {0} /\ MaxHot \in Nat /\ MaxFragments \in Nat
    /\ MaxReloads \in Nat

VARIABLES
    game, ver,          \* the program, and the version of each op in memory
    pc, target, delay,  \* gCPUState.CurrentPC, TargetPC and Delay
    epc, exl,           \* C0_EPC and SR_EXL
    jobs, exc,          \* gCPUState.StuffToDo; gExceptionPC, gExceptionWasDelay
    core, selected,     \* CPU_Go<true, ...> that runs, and g_pCPUCore
    at, last,           \* where the emulation thread is; the op it executed
    here,               \* the place in a fragment
    sot, change,        \* start_of_trace and change_core
    hot, reset          \* gHotTraceCountMap and gResetFragmentCache

cpu == <<pc, target, delay, epc, exl, jobs, exc>>
cores == <<core, selected>>
branching == <<sot, change>>
heat == <<hot, reset>>
memory == <<game, ver>>
vars == <<cacheVars, trace, cpu, cores, at, last, here, branching, heat, memory>>

Addr == DOMAIN game.code
Kind(a) == game.code[a].kind

NoOp == [addr |-> 0, slot |-> FALSE, ver |-> 0]
Outside == [entry |-> 0, i |-> 0, branch |-> 0]
NoFault == [pc |-> 0, slot |-> FALSE]

Init ==
    /\ CacheInit /\ trace = NoTrace
    /\ game \in Games /\ ver = [a \in Addr |-> 0]
    /\ pc = 1 /\ target = 0 /\ delay = "NO" /\ epc = 0 /\ exl = FALSE
    /\ jobs = {} /\ exc = NoFault
    /\ core = "plain" /\ selected = "plain"
    /\ at = "op" /\ last = NoOp /\ here = Outside
    /\ sot = FALSE /\ change = FALSE
    /\ hot = [a \in Addr |-> 0] /\ reset = FALSE
-------------------------------------------------------------------------------
\* The job an access or an event may raise: AddJob looks at SR before.
Interrupts == IF exl THEN {} ELSE {"INTERRUPTS"}

\* A load over code that is in the cache only sets a flag (DMA.cpp).
Reload ==
    LET r == game.reload
        loads == ver[r.from]
    IN  /\ loads < MaxReloads
        /\ ver' = [a \in Addr |->
                      IF a \in r.from..(r.from + r.len - 1) THEN loads + 1 ELSE ver[a]]
        /\ reset' = (reset \/ ShouldInvalidateOnWrite(r.from, r.len))

\* What an op that is no branch does besides going on: raise a job, fault, or
\* load code.
Effect(a, slot) ==
    \/ /\ jobs' = jobs /\ UNCHANGED <<exc, ver, reset>>
    \/ /\ Kind(a) = "mem" /\ jobs' = jobs \cup Interrupts /\ jobs' # jobs
       /\ UNCHANGED <<exc, ver, reset>>
    \/ /\ Kind(a) = "mem" /\ ~exl /\ jobs' = jobs \cup {"EXCEPTIONS"}
       /\ exc' = [pc |-> a, slot |-> slot]
       /\ UNCHANGED <<ver, reset>>
    \/ /\ Kind(a) = "dma" /\ Reload /\ jobs' \in {jobs, jobs \cup Interrupts}
       /\ UNCHANGED exc

\* The interpreter executes an op (CPU_EXECUTE_OP up to R4300_ExecuteInstruction).
\* A run ends where it leaves the code of its game.
Interpret ==
    /\ at = "op" /\ jobs = {} /\ pc \in Addr
    /\ last' = IF core = "traced"
               THEN [addr |-> pc, slot |-> delay = "EXEC", ver |-> ver[pc]] ELSE NoOp
    /\ at' = IF core = "traced" THEN "trace" ELSE "count"
    /\ UNCHANGED <<cacheVars, trace, cores, here, branching, hot, game>>

ExecuteStraight ==
    /\ Interpret /\ Kind(pc) \in Straight
    /\ Effect(pc, delay = "EXEC")
    /\ UNCHANGED <<pc, target, delay, epc, exl>>

\* CPU_TakeBranch
TakeBranch ==
    /\ Interpret
    /\ \/ Kind(pc) \in {"branch", "likely", "jump"} /\ target' = game.code[pc].to
       \/ Kind(pc) = "jr" /\ target' \in game.returns
    /\ delay' = "DO"
    /\ UNCHANGED <<pc, epc, exl, jobs, exc, ver, reset>>

\* A branch that is not taken; a likely one steps over its slot.
PassBranch ==
    /\ Interpret /\ Kind(pc) \in {"branch", "likely"}
    /\ pc' = IF Kind(pc) = "likely" THEN pc + 1 ELSE pc
    /\ UNCHANGED <<target, delay, epc, exl, jobs, exc, ver, reset>>

ExecuteEret ==
    /\ Interpret /\ Kind(pc) = "eret"
    /\ pc' = epc - 1 /\ exl' = FALSE /\ delay' = "NO"
    /\ UNCHANGED <<target, epc, jobs, exc, ver, reset>>

Execute == ExecuteStraight \/ TakeBranch \/ PassBranch \/ ExecuteEret
-------------------------------------------------------------------------------
\* CPU_SelectCore: g_pCPUCore follows the recorder at the next change of core.
SelectCore(tracing) ==
    /\ selected' = IF tracing THEN "traced" ELSE "plain"
    /\ jobs' = jobs \cup {"CHANGE_CORE"}

\* Code that memory no longer holds.
Stale(ops) == \E i \in DOMAIN ops : ops[i].ver # ver[ops[i].addr]

\* CPU_CreateAndAddFragment: the stopped trace t becomes a fragment.
CreateAndAddFragment(t, seen) ==
    /\ Insert(t.start, FragmentOf(t, game.loop, Stale(t.ops)), seen)
    /\ hot' = [hot EXCEPT ![t.start] = 0]
    /\ trace' = NoTrace

\* CPU_UpdateTrace, for the op the traced core has executed: the trace goes on.
KeepTrace ==
    LET t == Recorded(last, game.code[last.addr], delay = "DO", target)
    IN  /\ ~StopsBefore(Lookup(last.addr) # NoFragment) /\ t.active
        /\ trace' = t
        /\ Remember(last.addr)
        /\ UNCHANGED <<fragments, links, jumps, todo, covered, selected, jobs, hot>>

\* ... or it has ended, and the core is selected again.
EndTrace ==
    LET hit == StopsBefore(Lookup(last.addr) # NoFragment)
        t == IF hit THEN StopTrace(last.addr)
             ELSE Recorded(last, game.code[last.addr], delay = "DO", target)
    IN  /\ ~t.active
        /\ CreateAndAddFragment(t, last.addr)
        /\ SelectCore(FALSE)

UpdateTrace ==
    /\ at = "trace" /\ at' = "count" /\ last' = NoOp
    /\ KeepTrace \/ EndTrace
    /\ UNCHANGED <<pc, target, delay, epc, exl, exc, core, here, branching, reset, memory>>
-------------------------------------------------------------------------------
\* The end of CPU_EXECUTE_OP: COUNT, an event that may raise an interrupt, and
\* the next PC.
Count ==
    /\ at = "count" /\ todo = {}
    /\ jobs' \in {jobs, jobs \cup Interrupts}
    /\ CASE delay = "DO" -> /\ pc' = pc + 1 /\ delay' = "EXEC" /\ at' = "op"
                            /\ UNCHANGED branching
         [] delay = "EXEC" -> /\ pc' = target /\ delay' = "NO" /\ at' = "branch"
                              /\ sot' = (target <= pc) /\ change' = FALSE
         [] OTHER -> /\ pc' = pc + 1 /\ at' = "op"
                     /\ UNCHANGED <<delay, branching>>
    /\ UNCHANGED <<cacheVars, trace, target, epc, exl, exc, cores, last, here, heat, memory>>

\* CPU_HandleDynaRecOnBranch returns.
ReturnFromBranch(tracing, changes) ==
    /\ at' = "op" /\ sot' = FALSE /\ change' = FALSE
    /\ IF changes THEN SelectCore(tracing) ELSE UNCHANGED <<selected, jobs>>

Enter(e) == here' = [entry |-> e, i |-> 1, branch |-> 0] /\ at' = "frag"

\* A job, or a delay slot, is left to the interpreter.
StopDispatching ==
    /\ at = "branch" /\ ~(jobs = {} /\ delay = "NO")
    /\ ReturnFromBranch(trace.active, change)
    /\ UNCHANGED <<cacheVars, trace, pc, target, delay, epc, exl, exc, core, last, here, heat, memory>>

Dispatching == at = "branch" /\ jobs = {} /\ delay = "NO" /\ todo = {}

\* There is a fragment: it runs, and a trace that is active ends in front of it.
Dispatch ==
    /\ Dispatching /\ Lookup(pc) # NoFragment
    /\ Enter(Lookup(pc))
    /\ IF trace.active
       THEN CreateAndAddFragment(StopTrace(pc), pc) /\ change' = TRUE
       ELSE /\ UNCHANGED <<fragments, links, jumps, todo, covered, trace, hot, change>>
            /\ Remember(pc)
    /\ UNCHANGED <<cpu, cores, last, sot, reset, memory>>

\* Nothing starts here: the interpreter goes on.
LeaveAlone ==
    /\ Dispatching /\ Lookup(pc) = NoFragment
    /\ ~sot \/ trace.active
    /\ Remember(pc)
    /\ ReturnFromBranch(trace.active, change)
    /\ UNCHANGED <<fragments, links, jumps, todo, covered, trace, pc, target, delay,
                   epc, exl, exc, core, last, here, heat, memory>>

DropsCache == reset \/ Cardinality(Entries) > MaxFragments

\* An address without a fragment is counted, after the cache is dropped if that
\* was asked for.  A count that has passed the threshold never reaches it again.
CountHeat ==
    LET warm == IF DropsCache THEN [a \in Addr |-> 0] ELSE hot
        count == IF warm[pc] > Threshold THEN warm[pc] ELSE warm[pc] + 1
        hotter == [warm EXCEPT ![pc] = count]
        full == Cardinality({a \in Addr : hotter[a] > 0}) >= MaxHot
        starts == ~full /\ count = Threshold
    IN  /\ Dispatching /\ Lookup(pc) = NoFragment
        /\ sot /\ ~trace.active /\ pc \in Addr
        /\ reset' = FALSE
        /\ hot' = IF full THEN [a \in Addr |-> 0] ELSE hotter
        /\ trace' = IF starts THEN StartTrace(pc) ELSE trace
        /\ IF DropsCache \/ full THEN Clear
           ELSE Remember(pc) /\ UNCHANGED <<fragments, links, jumps, todo, covered>>
        /\ ReturnFromBranch(starts, change \/ (starts /\ core # "traced"))
        /\ UNCHANGED <<pc, target, delay, epc, exl, exc, core, last, here, memory>>
-------------------------------------------------------------------------------
\* CPU_Go with something to do: a traced core gives its trace up unless it is
\* only told to change (AbortTrace), and then serves one job.
Aborts == core = "traced" /\ jobs # {"CHANGE_CORE"}

\* Mutant: the trace is given up, and the core that records stays.
GiveUpTrace_KeepsCore(job) ==
    /\ at = "op" /\ job \in jobs
    /\ trace' = IF Aborts THEN NoTrace ELSE trace
    /\ jobs' = jobs \ {job}
    /\ UNCHANGED <<cacheVars, target, selected, at, last, here, branching, heat, memory>>

GiveUpTrace(job) ==
    /\ at = "op" /\ job \in jobs
    /\ trace' = IF Aborts THEN NoTrace ELSE trace
    /\ selected' = IF Aborts THEN "plain" ELSE selected
    /\ jobs' = (IF Aborts THEN jobs \cup {"CHANGE_CORE"} ELSE jobs) \ {job}
    /\ UNCHANGED <<cacheVars, target, at, last, here, branching, heat, memory>>

JumpToInterruptVector(from, slot) ==
    /\ epc' = IF slot THEN from - 1 ELSE from
    /\ exl' = TRUE /\ pc' = game.vector /\ delay' = "NO"

ServeInterrupt ==
    /\ GiveUpTrace("INTERRUPTS")
    /\ JumpToInterruptVector(pc, delay = "EXEC")
    /\ UNCHANGED <<exc, core>>

ServeException ==
    /\ "INTERRUPTS" \notin jobs
    /\ GiveUpTrace("EXCEPTIONS")
    /\ JumpToInterruptVector(exc.pc, exc.slot)
    /\ exc' = NoFault
    /\ UNCHANGED core

\* CPU_Go returns, and CPU_Run calls the core that is selected.
ChangeCore ==
    /\ jobs \cap {"INTERRUPTS", "EXCEPTIONS"} = {}
    /\ GiveUpTrace("CHANGE_CORE")
    /\ core' = selected
    /\ UNCHANGED <<pc, delay, epc, exl, exc>>

CheckStuffToDo == ServeInterrupt \/ ServeException \/ ChangeCore
-------------------------------------------------------------------------------
\* Inside a fragment.  In its trace `i` counts the ops; in the handler of a
\* branch that left the trace, i = 0 is the delay slot and i = 1 the exit.
Running == at = "frag" /\ todo = {}

Fragment == fragments[here.entry]
Details_ == Fragment.branches[here.branch]

OnTrace == here.branch = 0 /\ here.i \in DOMAIN Fragment.ops
InSlot == here.branch # 0 /\ here.i = 0
AtExit == ~OnTrace /\ ~InSlot

\* The op that runs next, as it was recorded; every op in a handler is a slot.
Op == IF OnTrace THEN Fragment.ops[here.i]
      ELSE [Fragment.ops[Details_.slot] EXCEPT !.slot = TRUE]

\* HandleException_extern: the place to go on after a job.
Leave(from, d) ==
    /\ pc' = IF d = "EXEC" THEN target ELSE from + 1
    /\ delay' = IF d = "DO" THEN "EXEC" ELSE "NO"
    /\ at' = "branch" /\ sot' = TRUE /\ here' = Outside

Unrecorded == <<cacheVars, trace, cores, last, change, hot, game>>

\* GenerateOpCode and the stubs: a slot sets EXEC_DELAY; a NOP does not, and
\* the stub of a slow access resets it, but the code of other ops does not.
DelayAfter(slow) ==
    CASE Op.slot /\ (Kind(Op.addr) = "nop" \/ slow) -> "NO"
      [] Op.slot /\ ~(Kind(Op.addr) = "nop" \/ slow) -> "EXEC"
      [] OTHER -> delay

\* An op that is no branch; only a slow access stores CurrentPC.
RunStraight ==
    /\ Running /\ ~AtExit /\ Kind(Op.addr) \in Straight
    /\ LET d == IF Op.slot THEN "EXEC" ELSE delay
       IN  /\ Effect(Op.addr, d = "EXEC")
           /\ IF jobs' # {} THEN Leave(Op.addr, d)
              ELSE \E slow \in BOOLEAN :
                      /\ Kind(Op.addr) \in {"alu", "nop"} => ~slow
                      /\ Kind(Op.addr) = "dma" => slow
                      /\ pc' = IF slow THEN Op.addr ELSE pc
                      /\ delay' = DelayAfter(slow)
                      /\ here' = [here EXCEPT !.i = @ + 1]
                      /\ UNCHANGED <<at, sot>>
    /\ UNCHANGED <<target, epc, exl, Unrecorded>>

\* The handler of the branch; one without a slot to run starts at its exit.
Handler(b) ==
    LET d == Fragment.branches[b]
    IN  [here EXCEPT !.branch = b,
                     !.i = IF d.kind \in {"likely", "eret"} THEN 1 ELSE 0]

Follow == here' = [here EXCEPT !.i = @ + 1]

\* A branch follows the trace or goes to its handler.  Generated branches leave
\* TargetPC and Delay alone; only a jump through a register stores its target.
RunBranch ==
    /\ Running /\ OnTrace
    /\ LET kind == Kind(Op.addr)
       IN  \/ kind = "jump" /\ Follow /\ UNCHANGED <<pc, target, exl, delay>>
          \/ /\ kind \in {"branch", "likely"}
             /\ Follow \/ here' = Handler(Op.branch)
             /\ UNCHANGED <<pc, target, exl, delay>>
          \/ /\ kind = "jr" /\ target' \in game.returns
             /\ IF target' = Fragment.branches[Op.branch].target
                THEN Follow ELSE here' = Handler(Op.branch)
             /\ UNCHANGED <<pc, exl, delay>>
          \/ /\ kind = "eret" /\ here' = Handler(Op.branch)
             /\ pc' = epc - 1 /\ exl' = FALSE /\ delay' = "NO"
             /\ UNCHANGED target
    /\ UNCHANGED <<epc, jobs, exc, at, sot, ver, reset, Unrecorded>>

Indirect == here.branch # 0 /\ Details_.kind \in {"jr", "eret"}

\* The exit of a likely branch that the trace did not take: to its slot.
ToSlot == here.branch # 0 /\ Details_.kind = "likely" /\ ~Details_.taken

Exit == ExitAddress(Fragment, here.branch)

\* The counter is updated, and an event may raise an interrupt.  A job leaves
\* the fragment; so does an exit that leads nowhere yet.
GoOn(to) ==
    IF jobs' # {} \/ to = NoFragment
    THEN at' = "branch" /\ sot' = TRUE /\ here' = Outside
    ELSE Enter(to) /\ UNCHANGED sot

\* _DirectExitCheckNoDelay and _DirectExitCheckDelay, and the jump behind them.
LeaveDirectly ==
    /\ Running /\ AtExit /\ ~Indirect
    /\ ~Looping(here.entry, Fragment, here.branch)
    /\ pc' = Exit
    /\ IF ToSlot THEN delay' = "EXEC" /\ target' = Details_.target
       ELSE delay' = "NO" /\ UNCHANGED target
    /\ jobs' \in {{}, Interrupts}
    /\ LET linked == {l \in links : l.from = here.entry /\ l.site = here.branch}
       IN  GoOn(IF linked = {} THEN NoFragment ELSE Exit)
    /\ UNCHANGED <<epc, exl, exc, ver, reset, Unrecorded>>

\* A loop to its own top stores nothing until an event is due, and then leaves.
LeaveLoop ==
    /\ Running /\ AtExit /\ ~Indirect
    /\ Looping(here.entry, Fragment, here.branch)
    /\ \/ Enter(here.entry) /\ UNCHANGED <<pc, delay, jobs, sot>>
       \/ /\ pc' = Exit /\ delay' = "NO" /\ jobs' \in {{}, Interrupts}
          /\ at' = "branch" /\ sot' = TRUE /\ here' = Outside
    /\ UNCHANGED <<target, epc, exl, exc, ver, reset, Unrecorded>>

\* _IndirectExitCheck, with a lookup unless there is something to do.
LeaveIndirectly ==
    /\ Running /\ AtExit /\ Indirect
    /\ LET to == IF Details_.kind = "eret" THEN pc + 1 ELSE target
       IN  /\ pc' = to /\ delay' = "NO" /\ jobs' \in {{}, Interrupts}
           /\ GoOn(Lookup(to))
           /\ IF jobs' = {} THEN Remember(to) ELSE UNCHANGED <<cached, hash>>
    /\ UNCHANGED <<fragments, links, jumps, todo, covered, target, epc, exl, exc,
                   trace, cores, last, change, heat, memory>>

RunFragment ==
    RunStraight \/ RunBranch \/ LeaveDirectly \/ LeaveLoop \/ LeaveIndirectly

InsertMore ==
    /\ RegisterPatch
    /\ UNCHANGED <<trace, cpu, cores, at, last, here, branching, heat, memory>>

HandleDynaRecOnBranch == StopDispatching \/ Dispatch \/ LeaveAlone \/ CountHeat

Next ==
    \/ Execute \/ UpdateTrace \/ Count \/ CheckStuffToDo
    \/ HandleDynaRecOnBranch \/ RunFragment \/ InsertMore

Spec == Init /\ [][Next]_vars
-------------------------------------------------------------------------------
\* What the guest has done so far, wherever it is being run.
Faulted == "EXCEPTIONS" \in jobs

NextOnTrace == IF here.i < Len(Fragment.ops) THEN Fragment.ops[here.i + 1].addr
               ELSE Fragment.exit

GuestPC ==
    CASE at \in {"op", "branch"} -> pc
      [] at \in {"trace", "count"} /\ delay = "EXEC" -> target
      [] at \in {"trace", "count"} /\ delay # "EXEC" -> pc + 1
      [] OTHER ->
            CASE ~AtExit -> Op.addr
              [] AtExit /\ ~Indirect -> Exit
              [] OTHER -> IF Details_.kind = "eret" THEN pc + 1 ELSE target

GuestPending ==
    CASE at \in {"op", "branch"} -> IF delay = "EXEC" THEN target ELSE 0
      [] at \in {"trace", "count"} -> IF delay = "DO" THEN target ELSE 0
      [] OTHER ->
            CASE OnTrace /\ Op.slot -> NextOnTrace
              [] InSlot /\ Details_.kind = "jr" -> target
              [] InSlot /\ Details_.kind = "branch" /\ ~Details_.taken -> Details_.target
              [] AtExit /\ ToSlot -> Details_.target
              [] OTHER -> 0

G == INSTANCE Guest WITH
        gpc <- IF Faulted THEN game.vector ELSE GuestPC,
        pending <- IF Faulted THEN 0 ELSE GuestPending,
        gexl <- exl \/ Faulted,
        gepc <- IF Faulted THEN exc.pc - (IF exc.slot THEN 1 ELSE 0) ELSE epc

\* Two ways in which the generated code loses the guest: a job raised by an op
\* whose delay is EXEC_DELAY, since its branch has not stored TargetPC, or is
\* long past; and a likely branch that is taken to a slot with a fragment.
LeavesThroughTarget ==
    at = "frag" /\ ~AtExit /\ jobs' # {} /\ (Op.slot \/ delay = "EXEC")
EntersInSlot == at = "frag" /\ AtExit /\ ToSlot /\ at' = "frag"

\* Recording, fragments, links, jobs, faults, invalidation and the changes of
\* core are invisible to the guest but for the two known departures: each step
\* is one of the guest's or none (Dynamo.cpp, Fragment.cpp, CodeGeneratorARM.cpp).
FollowsGuest ==
    [][G!Next \/ LeavesThroughTarget \/ EntersInSlot]_(G!gvars)

\* The core that interprets an op records it exactly if a trace is active: the
\* assertions of CPU_EXECUTE_OP, over every abort, stop and change of core.
CoreMatches == at = "op" /\ jobs = {} => (core = "traced" <=> trace.active)

\* Code that is loaded again is not run from the cache, or the cache is about to
\* be dropped: except ops a trace has followed forward out of the range that its
\* fragment covers, and ops that changed while the trace was recorded
\* (CPU_InvalidateICacheRange, CFragmentCacheCoverage).
CodeFresh ==
    reset \/ \A e \in Entries : LET f == fragments[e] IN
        \A i \in DOMAIN f.ops :
            \/ f.ops[i].ver = ver[f.ops[i].addr]
            \/ f.ops[i].addr \notin e..(e + Len(f.ops))
            \/ f.late
================================================================================
