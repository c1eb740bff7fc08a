------------------------------- MODULE SaveStore -------------------------------
(***************************************************************************)
(* What a save file promises: it holds one complete version of the save,   *)
(* and replacing it happens in one step or not at all, whatever operation  *)
(* fails and wherever the program dies.                                    *)
(***************************************************************************)
CONSTANTS Versions, NoFile

VARIABLES stored,       \* the version a reader gets, or NoFile
          incoming,     \* the version being written, or NoFile
          outcome       \* what the latest finished call returned

storeVars == <<stored, incoming, outcome>>

SInit == stored \in Versions \cup {NoFile} /\ incoming = NoFile /\ outcome = TRUE

Begin(v) == incoming = NoFile /\ incoming' = v /\ UNCHANGED <<stored, outcome>>

\* Success: the reader sees the new version, the caller is told so.
Replace ==
    /\ incoming # NoFile
    /\ stored' = incoming /\ outcome' = TRUE /\ incoming' = NoFile

\* Failure: the reader sees what it saw, the caller is told so.
Refuse == outcome' = FALSE /\ incoming' = NoFile /\ UNCHANGED stored

\* The program ends in the middle of the call.
Die == incoming # NoFile /\ incoming' = NoFile /\ UNCHANGED <<stored, outcome>>

SNext == (\E v \in Versions : Begin(v)) \/ Replace \/ Refuse \/ Die

SSpec == SInit /\ [][SNext]_storeVars
================================================================================
