--------------------------- MODULE TransactionalFile ---------------------------
(***************************************************************************)
(* SaveFile::Write and SaveFile::OpenForRead (Utility/TransactionalFile.h) *)
(* on one path: the file itself, its .bak and its .tmp.  One action per    *)
(* file operation, each of which may fail; the program may end between any *)
(* two of them.  The directory operations themselves are atomic: what the  *)
(* medium does when power is lost is not claimed by the code.              *)
(*                                                                         *)
(* A file's content is the version of the save it holds, Torn when it may  *)
(* hold anything else.  The 2048-byte blocks of the copy are one step: in  *)
(* between the file is Torn in any case.                                   *)
(***************************************************************************)
CONSTANTS Versions,     \* the contents a caller saves
          NoFile, Torn  \* no such file; incomplete content

ASSUME ContentAssumption == NoFile \notin Versions /\ Torn \notin Versions /\ NoFile # Torn

VARIABLES file, bak, tmp,   \* contents of path, path.bak, path.tmp
          at,               \* the next operation of Write
          incoming,         \* its source, NoFile when no call is running
          ok,               \* the local ok of Write
          had_old,          \* the local had_old of Write
          result            \* what the latest call returned

disk == <<file, bak, tmp>>
locals == <<incoming, ok, had_old>>
fileVars == <<disk, at, locals, result>>

FileContents == Versions \cup {NoFile, Torn}

\* What OpenForRead opens: the backup only when there is no such file.
OpenForRead == IF file # NoFile THEN file ELSE bak

\* The user may bring a save along; the first run has none.
FileInit ==
    /\ file \in Versions \cup {NoFile}
    /\ bak = NoFile /\ tmp = NoFile
    /\ at = "idle" /\ incoming = NoFile
    /\ ok = TRUE /\ had_old = FALSE /\ result = TRUE

Return(r) ==
    /\ at' = "idle" /\ incoming' = NoFile
    /\ result' = r
    /\ UNCHANGED <<ok, had_old>>

Goto(op) == at' = op /\ UNCHANGED <<incoming, had_old, result>>
-------------------------------------------------------------------------------
\* open(tmp, "wb") truncates an old temporary.
OpenTemporary(v) ==
    /\ at = "idle"
    /\ \/ /\ tmp' = Torn /\ at' = "write" /\ incoming' = v /\ ok' = TRUE
          /\ UNCHANGED <<file, bak, had_old, result>>
       \/ /\ result' = FALSE
          /\ UNCHANGED <<disk, at, locals>>

WriteBlocks ==
    /\ at = "write"
    /\ ok' \in BOOLEAN
    /\ Goto(IF ok' THEN "flush" ELSE "close")
    /\ UNCHANGED disk

FlushFile ==
    /\ at = "flush"
    /\ ok' \in BOOLEAN
    /\ Goto("close")
    /\ UNCHANGED disk

\* Only an error-free write, flush and close make the temporary complete.
Close ==
    /\ at = "close"
    /\ \E closed \in BOOLEAN :
          /\ ok' = (ok /\ closed)
          /\ tmp' = IF ok' THEN incoming ELSE tmp
          /\ Goto(IF ok' THEN "probe" ELSE "abandon")
    /\ UNCHANGED <<file, bak>>

\* The result of removing the bad temporary is not looked at.
Abandon ==
    /\ at = "abandon"
    /\ tmp' \in {tmp, NoFile}
    /\ Return(FALSE)
    /\ UNCHANGED <<file, bak>>

\* Mutant: an old save goes unnoticed.
Probe_FindsNothing ==
    /\ at = "probe"
    /\ \/ /\ had_old' = FALSE
          /\ at' = "commit"
          /\ UNCHANGED <<incoming, ok, result>>
       \/ Return(FALSE)
    /\ UNCHANGED disk

\* open(path, "rb") finds out whether there is an old save; any error but
\* "no such file", and a failing close, give up.
Probe ==
    /\ at = "probe"
    /\ \/ /\ had_old' = (file # NoFile)
          /\ at' = IF had_old' THEN "erase" ELSE "commit"
          /\ UNCHANGED <<incoming, ok, result>>
       \/ Return(FALSE)
    /\ UNCHANGED disk

\* An absent backup is no error; another failure gives up.
EraseBackup ==
    /\ at = "erase"
    /\ \/ bak' = NoFile /\ Goto("backup") /\ UNCHANGED ok
       \/ bak # NoFile /\ Return(FALSE) /\ UNCHANGED bak
    /\ UNCHANGED <<file, tmp>>

MoveToBackup ==
    /\ at = "backup"
    /\ \/ bak' = file /\ file' = NoFile /\ Goto("commit") /\ UNCHANGED <<tmp, ok>>
       \/ Return(FALSE) /\ UNCHANGED disk

Commit ==
    /\ at = "commit"
    /\ \/ file' = tmp /\ tmp' = NoFile /\ Return(TRUE) /\ UNCHANGED bak
       \/ had_old /\ Goto("rollback") /\ UNCHANGED <<disk, ok>>
       \/ ~had_old /\ Return(FALSE) /\ UNCHANGED disk

\* Mutant: a rolled back call reports success.
Rollback_ReportsSuccess ==
    /\ at = "rollback"
    /\ \/ file' = bak /\ bak' = NoFile
       \/ UNCHANGED <<file, bak>>
    /\ Return(TRUE)
    /\ UNCHANGED tmp

Rollback ==
    /\ at = "rollback"
    /\ \/ file' = bak /\ bak' = NoFile
       \/ UNCHANGED <<file, bak>>
    /\ Return(FALSE)
    /\ UNCHANGED tmp

\* The program ends in the middle of a call; the next one starts afresh.
CrashInWrite ==
    /\ at # "idle"
    /\ at' = "idle" /\ incoming' = NoFile
    /\ UNCHANGED <<disk, ok, had_old, result>>
-------------------------------------------------------------------------------
Write == (\E v \in Versions : OpenTemporary(v)) \/ WriteBlocks \/ FlushFile \/ Close
            \/ Abandon \/ Probe \/ EraseBackup \/ MoveToBackup \/ Commit \/ Rollback

FileNext == Write \/ CrashInWrite

FileSpec == FileInit /\ [][FileNext]_fileVars
-------------------------------------------------------------------------------
FileTypeOK ==
    /\ file \in FileContents /\ bak \in FileContents /\ tmp \in FileContents
    /\ at \in {"idle", "write", "flush", "close", "abandon", "probe", "erase",
               "backup", "commit", "rollback"}
    /\ incoming \in Versions \cup {NoFile}
    /\ ok \in BOOLEAN /\ had_old \in BOOLEAN /\ result \in BOOLEAN

\* A reader never gets an incomplete save, and once there is a save there is
\* always one to read: in the file or, between the two moves and after a
\* failed rollback, in the backup.
NeverTorn == file # Torn /\ bak # Torn
NeverLost == [][OpenForRead # NoFile => OpenForRead' # NoFile]_fileVars

\* "Never discard the old save before a complete replacement has been closed":
\* the backup is erased and the old save moved only while the temporary holds
\* all of the new one.
ReplacementReady ==
    [][(file # NoFile /\ file' # file) \/ (bak # NoFile /\ bak' # bak)
            => tmp \in Versions]_fileVars

\* A replaced save is kept as the backup of the new one: the step that makes
\* the new save visible leaves the old one readable beside it.
OldKeptAsBackup ==
    [][at = "commit" /\ file' # file /\ OpenForRead # NoFile
            => bak' = OpenForRead]_fileVars

\* To a reader and to the caller a call is one step or none: a reported
\* failure has changed nothing a reader can see, a reported success has put
\* exactly the source there, and a program that dies leaves one or the other.
Store == INSTANCE SaveStore WITH stored <- OpenForRead, outcome <- result

AtomicSave == Store!SSpec
===============================================================================
