---------------------------------- MODULE Save ----------------------------------
(***************************************************************************)
(* The two persistent memories of a session, the cartridge save and the    *)
(* mempak (Core/Save.cpp): loaded when a ROM is opened, marked dirty when  *)
(* the game writes them, flushed every few vertical blanks and, dirty or   *)
(* not, when the ROM is closed.                                            *)
(*                                                                         *)
(* The files are the atomic stores TransactionalFile implements: a write   *)
(* of one succeeds or fails as a whole.  Everything here runs on the       *)
(* emulation thread; what interrupts it is a failing file operation or the *)
(* end of the program, at any point.                                       *)
(*                                                                         *)
(* A content is the number of the game's write that produced it; Blank is  *)
(* what the memory holds before the first, Missing what a missing file has. *)
(***************************************************************************)
EXTENDS Integers

CONSTANT MaxWrites          \* bound of the game's writes, for model checking

ASSUME WritesAssumption == MaxWrites \in Nat

Files == {"save", "mempack"}
Blank == 0
Missing == -1

VARIABLES
    phase,      \* "off", "run", "fini", "closed"; between the two files of a
                \* flush, "runMempack" and "finiMempack"
    hasSave,    \* gSaveSize > 0 and a known save type
    mem,        \* g_pMemoryBuffers[MEM_SAVE] and [MEM_MEMPACK]
    dirty,      \* gSaveDirty and gMempackDirty
    stored,     \* what OpenForRead would read of each file
    writes,     \* the number of writes of the game
    unread,     \* history: the file exists but this session has not read it whole
    failed      \* history: the latest write of the file in this session failed

vars == <<phase, hasSave, mem, dirty, stored, writes, unread, failed>>

Init ==
    /\ phase = "off" /\ hasSave = FALSE
    /\ mem = [f \in Files |-> Blank] /\ dirty = [f \in Files |-> FALSE]
    /\ stored \in [Files -> {Missing, Blank}]
    /\ writes = 0
    /\ unread = [f \in Files |-> FALSE] /\ failed = [f \in Files |-> FALSE]

\* Files that can be opened, those that are, and those that are read to the end.
Loads(opened, whole) ==
    /\ opened \subseteq {f \in Files : stored[f] # Missing /\ (f = "save" => hasSave')}
    /\ whole \subseteq opened

\* Mutant: the mempak is formatted even when its file could be read.
Save_Reset_AlwaysFormats ==
    /\ phase \in {"off", "closed"}
    /\ phase' = "run"
    /\ hasSave' \in BOOLEAN
    /\ \E opened, whole \in SUBSET Files :
          /\ Loads(opened, whole)
          /\ mem' = [f \in Files |-> IF f \in whole /\ f = "save" THEN stored[f] ELSE Blank]
          /\ dirty' = [f \in Files |-> f = "mempack"]
          /\ unread' = [f \in Files |-> stored[f] # Missing /\ f \notin whole]
    /\ failed' = [f \in Files |-> FALSE]
    /\ UNCHANGED <<stored, writes>>

\* Save_Reset, on memory Memory_Reset has just cleared.  Opening a file that
\* exists may fail all the same; the code treats it as a missing file.  A
\* mempak that was not opened is formatted and marked dirty, a save is not.
\* What fread returns is ignored: what was read of a file that ends early, or
\* fails, counts as Blank and is not marked dirty.
Save_Reset ==
    /\ phase \in {"off", "closed"}
    /\ phase' = "run"
    /\ hasSave' \in BOOLEAN
    /\ \E opened, whole \in SUBSET Files :
          /\ Loads(opened, whole)
          /\ mem' = [f \in Files |-> IF f \in whole THEN stored[f] ELSE Blank]
          /\ dirty' = [f \in Files |-> f = "mempack" /\ f \notin opened]
          /\ unread' = [f \in Files |-> stored[f] # Missing /\ f \notin whole]
    /\ failed' = [f \in Files |-> FALSE]
    /\ UNCHANGED <<stored, writes>>

\* Save_MarkSaveDirty or Save_MarkMempackDirty, with the write it goes with.
GameWrite(f) ==
    /\ phase = "run" /\ writes < MaxWrites
    /\ writes' = writes + 1
    /\ mem' = [mem EXCEPT ![f] = writes + 1]
    /\ dirty' = [dirty EXCEPT ![f] = TRUE]
    /\ UNCHANGED <<phase, hasSave, stored, unread, failed>>

Forced == phase \in {"fini", "finiMempack"}

\* SaveFile::Write, and the flag that is cleared only when it returns true.
Succeed(f) ==
    /\ stored' = [stored EXCEPT ![f] = mem[f]]
    /\ dirty' = [dirty EXCEPT ![f] = FALSE]
    /\ failed' = [failed EXCEPT ![f] = FALSE]

\* Mutant: the flag is cleared by the attempt, as the other ports do.
Fail_Forgets(f) ==
    /\ failed' = [failed EXCEPT ![f] = TRUE]
    /\ dirty' = [dirty EXCEPT ![f] = FALSE]
    /\ UNCHANGED stored

Fail(f) == failed' = [failed EXCEPT ![f] = TRUE] /\ UNCHANGED <<stored, dirty>>

\* Mutant: the flag of the other file is tested.
FlushSave_WrongFlag(written) ==
    /\ phase \in {"run", "fini"}
    /\ phase' = IF Forced THEN "finiMempack" ELSE "runMempack"
    /\ IF (dirty["mempack"] \/ Forced) /\ hasSave
       THEN IF written THEN Succeed("save") ELSE Fail("save")
       ELSE UNCHANGED <<stored, dirty, failed>>
    /\ UNCHANGED <<hasSave, mem, writes, unread>>

\* The first half of Save_Flush: the cartridge save.
FlushSave(written) ==
    /\ phase \in {"run", "fini"}
    /\ phase' = IF Forced THEN "finiMempack" ELSE "runMempack"
    /\ IF (dirty["save"] \/ Forced) /\ hasSave
       THEN IF written THEN Succeed("save") ELSE Fail("save")
       ELSE UNCHANGED <<stored, dirty, failed>>
    /\ UNCHANGED <<hasSave, mem, writes, unread>>

\* The second half: the mempak; a forced flush is the end of the session.
FlushMempack(written) ==
    /\ phase \in {"runMempack", "finiMempack"}
    /\ phase' = IF Forced THEN "closed" ELSE "run"
    /\ IF dirty["mempack"] \/ Forced
       THEN IF written THEN Succeed("mempack") ELSE Fail("mempack")
       ELSE UNCHANGED <<stored, dirty, failed>>
    /\ UNCHANGED <<hasSave, mem, writes, unread>>

\* System_Close reaches Save_Fini, which forces a flush.
Save_Fini ==
    /\ phase = "run"
    /\ phase' = "fini"
    /\ UNCHANGED <<hasSave, mem, dirty, stored, writes, unread, failed>>

\* The program ends: only the files are left.
Crash ==
    /\ phase \notin {"off", "closed"}
    /\ phase' = "off"
    /\ mem' = [f \in Files |-> Blank] /\ dirty' = [f \in Files |-> FALSE]
    /\ UNCHANGED <<hasSave, stored, writes, unread, failed>>

Flush(written) == FlushSave(written) \/ FlushMempack(written)

Next ==
    \/ Save_Reset \/ Save_Fini \/ Crash
    \/ \E f \in Files : GameWrite(f)
    \/ \E written \in BOOLEAN : Flush(written)

\* A running session keeps reaching the vertical blank that flushes, and a
\* file that is tried again and again is written at last.
Fairness ==
    /\ WF_vars(\E written \in BOOLEAN : Flush(written))
    /\ SF_vars(FlushSave(TRUE)) /\ SF_vars(FlushMempack(TRUE))

Spec == Init /\ [][Next]_vars /\ Fairness
-------------------------------------------------------------------------------
Contents == Missing..MaxWrites

TypeOK ==
    /\ phase \in {"off", "run", "runMempack", "fini", "finiMempack", "closed"}
    /\ hasSave \in BOOLEAN
    /\ mem \in [Files -> Contents \ {Missing}]
    /\ dirty \in [Files -> BOOLEAN]
    /\ stored \in [Files -> Contents]
    /\ writes \in 0..MaxWrites
    /\ unread \in [Files -> BOOLEAN] /\ failed \in [Files -> BOOLEAN]

Persistent(f) == f = "save" => hasSave

Active == phase \notin {"off", "closed"}

\* A clean memory is on the medium: whatever the game wrote and no flush has
\* stored, in this half of a flush or in an earlier one that failed, is still
\* marked dirty, so a later flush tries again.  A save that could not be read
\* (whole) and was not written since is the exception: it is clean and not stored.
CleanIsStored ==
    \A f \in Files :
        Active /\ Persistent(f) /\ ~dirty[f]
            => \/ stored[f] = mem[f]
               \/ mem[f] = Blank /\ (stored[f] = Missing \/ unread[f])

\* No flush puts older progress over newer, across crashes, failed writes and
\* sessions, unless this session could not read the whole of the file it is replacing.
NoRegression ==
    [][\A f \in Files :
          stored'[f] < stored[f] => unread[f]]_vars

\* Closing the ROM stores both memories, dirty or not, unless that very write
\* failed.
ClosedIsStored ==
    phase = "closed" =>
        \A f \in Files : Persistent(f) => stored[f] = mem[f] \/ failed[f]

\* A write of the game that goes on failing is retried until it is stored.
RetriedUntilStored ==
    \A f \in Files :
        (Active /\ Persistent(f) /\ dirty[f]) ~> (~dirty[f] \/ ~Active)
===============================================================================
