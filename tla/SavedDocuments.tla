--------------------------- MODULE SavedDocuments ---------------------------
(***************************************************************************)
(* What a vector store that saves itself promises: a search finds exactly  *)
(* the documents that were added and not deleted, and a process that       *)
(* starts again finds exactly what was found when a save last ended.       *)
(* Documents that were deleted do not come back but with an older save,    *)
(* and none appears that was not added.                                    *)
(*                                                                         *)
(* Two things end the promise, each until the documents are cleared or     *)
(* saved anew: an update that is refused half way, and a save that stops   *)
(* between two of its files.                                               *)
(***************************************************************************)
CONSTANTS
  Docs,
  Broken   \* nothing is promised

VARIABLES
  found,   \* the documents that a search finds
  saved    \* those that the next process will find

sdVars == <<found, saved>>

SInit == found = {} /\ saved = {}

Add(batch) ==
  /\ found # Broken
  /\ found' = found \cup batch
  /\ UNCHANGED saved

Delete(batch) ==
  /\ found # Broken
  /\ found' = found \ batch
  /\ UNCHANGED saved

DeleteAll ==
  /\ found' = {}
  /\ UNCHANGED saved

Break ==
  /\ found' = Broken
  /\ UNCHANGED saved

\* A save replaces what is there file by file ...
Tear ==
  /\ saved' = Broken
  /\ UNCHANGED found

\* ... and has replaced all of it.
Save ==
  /\ saved' = found
  /\ UNCHANGED found

Reopen ==
  /\ found' = saved
  /\ UNCHANGED saved

SNext ==
  \/ \E batch \in SUBSET Docs : Add(batch) \/ Delete(batch)
  \/ DeleteAll \/ Break
  \/ Tear \/ Save \/ Reopen

SSpec == SInit /\ [][SNext]_sdVars
=============================================================================
