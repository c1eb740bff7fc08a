--------------------------- MODULE Persistence_proofs ---------------------------
(***************************************************************************)
(* Proofs about what is kept on the medium: TransactionalFile for any set  *)
(* of versions, then Save for any number of writes of the game.            *)
(*                                                                         *)
(* The invariant of the first says what each operation of Write may        *)
(* assume: from the probe on the temporary is complete, and where the old  *)
(* save is.  To see in the second that a flush never regresses one must    *)
(* know that the memory is at least as new as the file, which holds from   *)
(* the load on unless the load failed.                                     *)
(***************************************************************************)
EXTENDS TransactionalFile, Save, TLAPS

Steps == {"write", "flush", "close", "abandon", "probe", "erase", "backup",
          "commit", "rollback"}

\* From the probe on, the temporary holds all of the incoming version.
TemporaryComplete ==
    at \in {"probe", "erase", "backup", "commit", "rollback"} => tmp = incoming

\* The old save is in the file until it is moved, then in the backup.
OldSavePlace ==
    /\ at \in {"erase", "backup"} => had_old /\ file # NoFile
    /\ at = "backup" => bak = NoFile
    /\ at \in {"commit", "rollback"} => file = NoFile /\ (had_old => bak # NoFile)
    /\ at = "rollback" => had_old

FileInv ==
    /\ FileTypeOK /\ NeverTorn
    /\ at \in Steps => incoming \in Versions
    /\ at = "idle" => incoming = NoFile
    /\ TemporaryComplete /\ OldSavePlace

LEMMA FileInitInv == FileInit => FileInv
BY ContentAssumption
DEF FileInit, FileInv, FileTypeOK, NeverTorn, Steps, TemporaryComplete, OldSavePlace, FileContents

LEMMA FileNextInv == FileInv /\ [FileNext]_fileVars => FileInv'
<1> SUFFICES ASSUME FileInv, [FileNext]_fileVars PROVE FileInv'  OBVIOUS
<1> USE ContentAssumption
    DEF FileInv, FileTypeOK, NeverTorn, Steps, TemporaryComplete, OldSavePlace, FileContents,
        disk, locals, Goto, Return
<1>1. ASSUME NEW v \in Versions, OpenTemporary(v) PROVE FileInv'
    BY <1>1 DEF OpenTemporary
<1>2. CASE WriteBlocks  BY <1>2 DEF WriteBlocks
<1>3. CASE FlushFile  BY <1>3 DEF FlushFile
<1>4. CASE Close  BY <1>4 DEF Close
<1>5. CASE Abandon  BY <1>5 DEF Abandon
<1>6. CASE Probe  BY <1>6 DEF Probe
<1>7. CASE EraseBackup  BY <1>7 DEF EraseBackup
<1>8. CASE MoveToBackup  BY <1>8 DEF MoveToBackup
<1>9. CASE Commit  BY <1>9 DEF Commit
<1>10. CASE Rollback  BY <1>10 DEF Rollback
<1>11. CASE CrashInWrite  BY <1>11 DEF CrashInWrite
<1>12. CASE UNCHANGED fileVars  BY <1>12 DEF fileVars
<1>13. QED
    BY <1>1, <1>2, <1>3, <1>4, <1>5, <1>6, <1>7, <1>8, <1>9, <1>10, <1>11, <1>12
    DEF FileNext, Write

\* The invariant holds in every reachable state.
THEOREM FileInvariant == FileSpec => []FileInv
BY FileInitInv, FileNextInv, PTL DEF FileSpec

\* No reader ever gets an incomplete save; the variables keep their types.
THEOREM Complete == FileSpec => [](FileTypeOK /\ NeverTorn)
<1>1. FileInv => FileTypeOK /\ NeverTorn  BY DEF FileInv
<1>2. QED  BY <1>1, FileInvariant, PTL
-------------------------------------------------------------------------------
\* To a reader, a call replaces the save in one step or leaves it alone.
LEMMA StepRefines ==
    ASSUME FileInv, [FileNext]_fileVars
    PROVE  [Store!SNext]_(Store!storeVars)
<1> USE ContentAssumption
    DEF FileInv, FileTypeOK, NeverTorn, Steps, TemporaryComplete, OldSavePlace, OpenForRead,
        disk, locals, Goto, Return, Store!storeVars, Store!SNext
<1>1. ASSUME NEW v \in Versions, OpenTemporary(v)
      PROVE  [Store!SNext]_(Store!storeVars)
    BY <1>1 DEF OpenTemporary, Store!Begin, Store!Refuse
<1>2. CASE WriteBlocks  BY <1>2 DEF WriteBlocks
<1>3. CASE FlushFile  BY <1>3 DEF FlushFile
<1>4. CASE Close  BY <1>4 DEF Close
<1>5. CASE Abandon  BY <1>5 DEF Abandon, Store!Refuse
<1>6. CASE Probe  BY <1>6 DEF Probe, Store!Refuse
<1>7. CASE EraseBackup  BY <1>7 DEF EraseBackup, Store!Refuse
<1>8. CASE MoveToBackup  BY <1>8 DEF MoveToBackup, Store!Refuse
<1>9. CASE Commit  BY <1>9 DEF Commit, Store!Refuse, Store!Replace
<1>10. CASE Rollback  BY <1>10 DEF Rollback, Store!Refuse
<1>11. CASE CrashInWrite  BY <1>11 DEF CrashInWrite, Store!Die
<1>12. CASE UNCHANGED fileVars  BY <1>12 DEF fileVars
<1>13. QED
    BY <1>1, <1>2, <1>3, <1>4, <1>5, <1>6, <1>7, <1>8, <1>9, <1>10, <1>11, <1>12
    DEF FileNext, Write

\* Write and OpenForRead implement the atomic save file.
THEOREM WriteIsAtomic == FileSpec => AtomicSave
<1>1. FileInit => Store!SInit  BY DEF FileInit, Store!SInit, OpenForRead
<1>2. FileInv /\ [FileNext]_fileVars => [Store!SNext]_(Store!storeVars)  BY StepRefines
<1>3. QED  BY <1>1, <1>2, FileInvariant, PTL DEF FileSpec, AtomicSave, Store!SSpec

\* Once there is a save there is always one to read.
THEOREM AlwaysReadable == FileSpec => NeverLost
<1>1. ASSUME FileInv, [FileNext]_fileVars
      PROVE  [OpenForRead # NoFile => OpenForRead' # NoFile]_fileVars
    <2>1. [Store!SNext]_(Store!storeVars)  BY <1>1, StepRefines
    <2>2. incoming \in Versions \cup {NoFile}  BY <1>1 DEF FileInv, FileTypeOK
    <2>3. QED
        BY <2>1, <2>2, ContentAssumption
        DEF Store!SNext, Store!storeVars, Store!Begin, Store!Replace, Store!Refuse, Store!Die
<1>2. QED  BY <1>1, FileInvariant, PTL DEF FileSpec, NeverLost

\* Nothing old is erased or moved before the replacement is complete.
THEOREM NothingDiscardedEarly == FileSpec => ReplacementReady
<1>1. ASSUME FileInv, [FileNext]_fileVars
      PROVE  [(file # NoFile /\ file' # file) \/ (bak # NoFile /\ bak' # bak)
                 => tmp \in Versions]_fileVars
    BY <1>1, ContentAssumption
    DEF FileInv, Steps, TemporaryComplete, OldSavePlace, FileNext, Write, OpenTemporary,
        WriteBlocks, FlushFile, Close, Abandon, Probe, EraseBackup, MoveToBackup, Commit,
        Rollback, CrashInWrite, fileVars, disk, Goto, Return
<1>2. QED  BY <1>1, FileInvariant, PTL DEF FileSpec, ReplacementReady

\* The step that shows the new save leaves the old one readable beside it.
THEOREM BackupIsPrevious == FileSpec => OldKeptAsBackup
<1>1. ASSUME FileInv, [FileNext]_fileVars
      PROVE  [at = "commit" /\ file' # file /\ OpenForRead # NoFile
                  => bak' = OpenForRead]_fileVars
    BY <1>1, ContentAssumption
    DEF FileInv, OldSavePlace, OpenForRead, FileNext, Write, OpenTemporary, WriteBlocks, FlushFile,
        Close, Abandon, Probe, EraseBackup, MoveToBackup, Commit, Rollback, CrashInWrite, fileVars,
        disk, Goto, Return
<1>2. QED  BY <1>1, FileInvariant, PTL DEF FileSpec, OldKeptAsBackup
-------------------------------------------------------------------------------
\* No content is newer than the game's latest write.
Bounded == \A f \in Files : mem[f] <= writes /\ stored[f] <= writes

\* In a session that could read its files the memory is never the older one.
MemoryAhead ==
    Active => \A f \in Files : Persistent(f) => stored[f] <= mem[f] \/ unread[f]

\* Between the two files of the last flush the cartridge save is done with.
HalfClosed ==
    phase = "finiMempack" /\ hasSave => stored["save"] = mem["save"] \/ failed["save"]

Inv ==
    /\ TypeOK /\ Bounded /\ MemoryAhead
    /\ CleanIsStored /\ ClosedIsStored /\ HalfClosed

\* What every half of a flush leaves alone, and the three things it may do.
Half(f) ==
    /\ hasSave' = hasSave /\ mem' = mem /\ writes' = writes /\ unread' = unread
    /\ \/ Succeed(f)
       \/ Fail(f)
       \/ UNCHANGED <<stored, dirty, failed>>

LEMMA InitInv == Init => Inv
<1> SUFFICES ASSUME Init PROVE Inv  OBVIOUS
<1> USE WritesAssumption DEF Contents, Missing, Blank
<1>0. /\ mem = [f \in Files |-> 0] /\ stored \in [Files -> {-1, 0}]
      /\ phase = "off" /\ hasSave = FALSE /\ writes = 0
    BY DEF Init
<1>1. /\ mem \in [Files -> Contents \ {Missing}] /\ stored \in [Files -> Contents]
      /\ phase = "off" /\ hasSave \in BOOLEAN /\ writes \in 0..MaxWrites
    <2>1. hasSave \in BOOLEAN  BY <1>0, Zenon
    <2>2. mem \in [Files -> Contents \ {Missing}]  BY <1>0
    <2>3. stored \in [Files -> Contents]
        <3>1. {-1, 0} \subseteq Contents  OBVIOUS
        <3>2. QED  BY <1>0, <3>1, Zenon
    <2>4. QED  BY <1>0, <2>1, <2>2, <2>3
<1>2. /\ dirty \in [Files -> BOOLEAN] /\ unread \in [Files -> BOOLEAN]
      /\ failed \in [Files -> BOOLEAN]
    BY Zenon DEF Init
<1>3. TypeOK  BY <1>1, <1>2 DEF TypeOK
<1>4. Bounded  BY DEF Init, Bounded
<1>5. MemoryAhead /\ CleanIsStored /\ ClosedIsStored /\ HalfClosed
    BY <1>1 DEF MemoryAhead, CleanIsStored, ClosedIsStored, HalfClosed, Active
<1>6. QED  BY <1>3, <1>4, <1>5 DEF Inv

\* Either half of a flush keeps what is said of every file.
LEMMA HalfInv ==
    ASSUME Inv, NEW f \in Files, Half(f), Active,
           phase' \in {"off", "run", "runMempack", "fini", "finiMempack", "closed"}
    PROVE  TypeOK' /\ Bounded' /\ MemoryAhead' /\ CleanIsStored'
<1> USE DEF Contents, Missing, Blank
<1>1. CASE Succeed(f)
    <2>1. /\ stored' = [stored EXCEPT ![f] = mem[f]]
          /\ dirty' = [dirty EXCEPT ![f] = FALSE]
          /\ failed' = [failed EXCEPT ![f] = FALSE]
          /\ hasSave' = hasSave /\ mem' = mem /\ writes' = writes /\ unread' = unread
        BY <1>1 DEF Succeed, Half
    <2>2. dirty' \in [Files -> BOOLEAN] /\ failed' \in [Files -> BOOLEAN]
        BY <2>1, Zenon DEF Inv, TypeOK
    <2>3. \A g \in Files : stored'[g] = IF g = f THEN mem[f] ELSE stored[g]
        BY <2>1 DEF Inv, TypeOK
    <2>4. TypeOK'  BY <2>1, <2>2 DEF Inv, TypeOK
    <2>5. Bounded'  BY <2>1, <2>3 DEF Inv, TypeOK, Bounded
    <2>6. MemoryAhead'  BY <2>1, <2>3 DEF Inv, TypeOK, MemoryAhead, Persistent
    <2>7. \A g \in Files : g # f => dirty'[g] = dirty[g]  BY <2>1 DEF Inv, TypeOK
    <2>8. CleanIsStored'  BY <2>1, <2>3, <2>7 DEF Inv, CleanIsStored, Persistent
    <2>9. QED  BY <2>4, <2>5, <2>6, <2>8
<1>2. CASE Fail(f) \/ UNCHANGED <<stored, dirty, failed>>
    <2>1. /\ stored' = stored /\ dirty' = dirty
          /\ hasSave' = hasSave /\ mem' = mem /\ writes' = writes /\ unread' = unread
        BY <1>2 DEF Fail, Half
    <2>2. failed' \in [Files -> BOOLEAN]
        BY <1>2, Zenon DEF Fail, Inv, TypeOK
    <2>3. QED
        BY <2>1, <2>2
        DEF Inv, TypeOK, Bounded, MemoryAhead, CleanIsStored, Active, Persistent
<1>3. QED  BY <1>1, <1>2 DEF Half

LEMMA NextInv == Inv /\ [Next]_vars => Inv'
<1> SUFFICES ASSUME Inv, [Next]_vars PROVE Inv'  OBVIOUS
<1> USE WritesAssumption DEF Contents, Missing, Blank
<1>1. CASE Save_Reset
    <2>1. PICK opened \in SUBSET Files, whole \in SUBSET Files :
             /\ Loads(opened, whole)
             /\ mem' = [f \in Files |-> IF f \in whole THEN stored[f] ELSE Blank]
             /\ dirty' = [f \in Files |-> f = "mempack" /\ f \notin opened]
             /\ unread' = [f \in Files |-> stored[f] # Missing /\ f \notin whole]
        BY <1>1 DEF Save_Reset
    <2>2. /\ stored' = stored /\ writes' = writes /\ phase' = "run"
          /\ hasSave' \in BOOLEAN /\ failed' = [f \in Files |-> FALSE]
        BY <1>1 DEF Save_Reset
    <2>3. /\ mem' \in [Files -> Contents \ {Missing}]
          /\ \A f \in Files : mem'[f] = IF f \in whole THEN stored[f] ELSE Blank
        BY <2>1 DEF Inv, TypeOK, Loads
    <2>4. /\ dirty' \in [Files -> BOOLEAN] /\ unread' \in [Files -> BOOLEAN]
          /\ failed' \in [Files -> BOOLEAN]
        BY <2>1, <2>2, Zenon
    <2>5. TypeOK'  BY <2>2, <2>3, <2>4 DEF Inv, TypeOK
    <2>6. Bounded'  BY <2>2, <2>3 DEF Inv, TypeOK, Bounded
    <2>7. ASSUME NEW f \in Files, f \notin whole
          PROVE  mem'[f] = Blank /\ (stored[f] = Missing \/ unread'[f])
        BY <2>1, <2>3, <2>7
    <2>8. ASSUME NEW f \in Files, f \in whole PROVE mem'[f] = stored[f]
        BY <2>3, <2>8
    <2>9. MemoryAhead'  BY <2>2, <2>3, <2>7, <2>8 DEF Inv, TypeOK, MemoryAhead
    <2>10. CleanIsStored'  BY <2>2, <2>7, <2>8 DEF CleanIsStored
    <2>11. ClosedIsStored' /\ HalfClosed'  BY <2>2 DEF ClosedIsStored, HalfClosed
    <2>12. QED  BY <2>5, <2>6, <2>9, <2>10, <2>11 DEF Inv
<1>2. ASSUME NEW f \in Files, GameWrite(f) PROVE Inv'
    <2>1. /\ phase = "run" /\ phase' = "run" /\ hasSave' = hasSave /\ stored' = stored
          /\ unread' = unread /\ failed' = failed
          /\ writes' = writes + 1 /\ writes < MaxWrites
          /\ mem' = [mem EXCEPT ![f] = writes + 1]
          /\ dirty' = [dirty EXCEPT ![f] = TRUE]
        BY <1>2 DEF GameWrite
    <2>2. dirty' \in [Files -> BOOLEAN]  BY <2>1, Zenon DEF Inv, TypeOK
    <2>3. TypeOK'  BY <2>1, <2>2 DEF Inv, TypeOK
    <2>4. Bounded'  BY <2>1 DEF Inv, TypeOK, Bounded
    <2>5. MemoryAhead'
        BY <2>1 DEF Inv, TypeOK, Bounded, MemoryAhead, Active, Persistent
    <2>6. ASSUME NEW g \in Files, ~dirty'[g] PROVE g # f /\ ~dirty[g] /\ mem'[g] = mem[g]
        BY <2>1, <2>6 DEF Inv, TypeOK
    <2>7. CleanIsStored'
        BY <2>1, <2>6 DEF Inv, CleanIsStored, Active, Persistent
    <2>8. QED
        BY <2>1, <2>3, <2>4, <2>5, <2>7 DEF Inv, ClosedIsStored, HalfClosed
<1>3. ASSUME NEW written \in BOOLEAN, FlushSave(written) PROVE Inv'
    <2>1. /\ Half("save")
          /\ phase \in {"run", "fini"} /\ phase' \in {"runMempack", "finiMempack"}
          /\ phase' = "finiMempack" /\ hasSave => Succeed("save") \/ Fail("save")
        BY <1>3 DEF FlushSave, Half, Forced
    <2>2. Active /\ Active' /\ phase' # "closed"  BY <2>1 DEF Active
    <2>3. /\ TypeOK' /\ Bounded' /\ MemoryAhead' /\ CleanIsStored'
        BY <2>1, <2>2, HalfInv DEF Files
    <2>4. HalfClosed'
        BY <2>1 DEF Half, Succeed, Fail, HalfClosed, Inv, TypeOK, Files
    <2>5. QED  BY <2>2, <2>3, <2>4 DEF Inv, ClosedIsStored
<1>4. ASSUME NEW written \in BOOLEAN, FlushMempack(written) PROVE Inv'
    <2>1. /\ Half("mempack")
          /\ phase \in {"runMempack", "finiMempack"} /\ phase' \in {"run", "closed"}
          /\ phase' = "closed" =>
                phase = "finiMempack" /\ (Succeed("mempack") \/ Fail("mempack"))
        BY <1>4 DEF FlushMempack, Half, Forced
    <2>2. Active  BY <2>1 DEF Active
    <2>3. /\ TypeOK' /\ Bounded' /\ MemoryAhead' /\ CleanIsStored'
        BY <2>1, <2>2, HalfInv DEF Files
    <2>4. ClosedIsStored'
        BY <2>1
        DEF Half, Succeed, Fail, HalfClosed, ClosedIsStored, Persistent, Inv, TypeOK, Files
    <2>5. QED  BY <2>1, <2>3, <2>4 DEF Inv, HalfClosed
<1>5. CASE Save_Fini
    BY <1>5 DEF Save_Fini, Inv, TypeOK, Bounded, MemoryAhead, CleanIsStored,
        ClosedIsStored, HalfClosed, Active, Persistent
<1>6. CASE Crash
    <2>1. /\ phase' = "off" /\ mem' = [f \in Files |-> Blank]
          /\ dirty' = [f \in Files |-> FALSE]
          /\ UNCHANGED <<hasSave, stored, writes, unread, failed>>
        BY <1>6 DEF Crash
    <2>2. dirty' \in [Files -> BOOLEAN]  BY <2>1, Zenon
    <2>3. TypeOK'  BY <2>1, <2>2 DEF Inv, TypeOK
    <2>4. Bounded'  BY <2>1 DEF Inv, TypeOK, Bounded
    <2>5. QED
        BY <2>1, <2>3, <2>4
        DEF Inv, MemoryAhead, CleanIsStored, ClosedIsStored, HalfClosed, Active
<1>7. CASE UNCHANGED vars
    BY <1>7 DEF vars, Inv, TypeOK, Bounded, MemoryAhead, CleanIsStored,
        ClosedIsStored, HalfClosed, Active, Persistent
<1>8. QED  BY <1>1, <1>2, <1>3, <1>4, <1>5, <1>6, <1>7 DEF Next, Flush
\* The invariant holds in every reachable state.
THEOREM Invariant == Spec => []Inv
BY InitInv, NextInv, PTL DEF Spec

\* A clean memory is on the medium; closing the ROM stores both memories.
THEOREM NothingForgotten == Spec => [](CleanIsStored /\ ClosedIsStored)
<1>1. Inv => CleanIsStored /\ ClosedIsStored  BY DEF Inv
<1>2. QED  BY <1>1, Invariant, PTL

\* No flush puts older progress over newer unless the file could not be read whole.
THEOREM NeverRegresses == Spec => NoRegression
<1>1. ASSUME Inv, [Next]_vars
      PROVE  [\A f \in Files : stored'[f] < stored[f] => unread[f]]_vars
    <2>1. ASSUME NEW g \in Files, Half(g), Active, Persistent(g)
          PROVE  \A f \in Files : stored'[f] < stored[f] => unread[f]
        BY <1>1, <2>1 DEF Half, Succeed, Fail, Inv, TypeOK, MemoryAhead, Contents, Missing
    <2>2. ASSUME NEW written \in BOOLEAN, FlushSave(written)
          PROVE  \A f \in Files : stored'[f] < stored[f] => unread[f]
        <3>1. CASE hasSave
            BY <2>1, <2>2, <3>1 DEF FlushSave, Half, Active, Persistent, Files
        <3>2. CASE ~hasSave
            BY <1>1, <2>2, <3>2 DEF FlushSave, Inv, TypeOK, Contents, Missing
        <3>3. QED  BY <3>1, <3>2
    <2>3. ASSUME NEW written \in BOOLEAN, FlushMempack(written)
          PROVE  \A f \in Files : stored'[f] < stored[f] => unread[f]
        BY <2>1, <2>3 DEF FlushMempack, Half, Active, Persistent, Files
    <2>4. CASE stored' = stored  BY <1>1, <2>4 DEF Inv, TypeOK, Contents, Missing
    <2>5. QED
        BY <1>1, <2>2, <2>3, <2>4
        DEF Next, Flush, Save_Reset, Save_Fini, Crash, GameWrite, vars
<1>2. QED  BY <1>1, Invariant, PTL DEF Spec, NoRegression
================================================================================
