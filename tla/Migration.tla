------------------------------ MODULE Migration ------------------------------
(* What thlibo install does first: it clears away an install of version 0.5  *)
(* and moves its model files to the shared store (internal/install,          *)
(* MigrateFromV05).  Every step may fail and may be the last one of a        *)
(* process that is killed; the next install starts over.                     *)
EXTENDS Integers, FiniteSets

CONSTANTS
  Models,  \* the model files, by name
  Remains  \* the autostart entry, the binaries, the old run directory

\* What a file holds: the model, the beginning of it, another program's file
\* of the same name and another size, or nothing.  There may be no file.
Contents == {"none", "model", "part", "other", "empty"}

VARIABLES
  sameFS,  \* the store is on the file system of ~/.thlibo
  old,     \* ~/.thlibo/models
  store,   \* the shared store
  oldDir,  \* the directory ~/.thlibo/models exists
  remains, \* what is left of 0.5
  at,      \* where the migration stands
  todo,    \* the files it has yet to look at
  file     \* the one it is busy with

migrateVars == <<sameFS, old, store, oldDir, remains, at, todo, file>>

MigrateInit ==
  /\ sameFS \in BOOLEAN
  /\ old \in [Models -> {"model", "empty"}]
  /\ store \in [Models -> {"none", "other", "empty"}]
  /\ oldDir = TRUE
  /\ remains = Remains
  /\ at = "over" /\ todo = {} /\ file = "none"

To(l) == at' = l

\* tryRemove and RemoveAll: each of them is removed, or stays.
Exorcise ==
  /\ at = "over"
  /\ remains' \in SUBSET remains
  /\ todo' = {m \in Models : old[m] # "none"}
  /\ To("next")
  /\ UNCHANGED <<sameFS, old, store, oldDir, file>>

Pick ==
  /\ at = "next"
  /\ \E m \in todo : file' = m /\ todo' = todo \ {m}
  /\ To("compare")
  /\ UNCHANGED <<sameFS, old, store, oldDir, remains>>

Size(content) ==
  CASE content \in {"none", "empty"} -> 0
    [] content = "part"              -> 1
    [] content = "model"             -> 2
    [] content = "other"             -> 3

\* Wrong on purpose: a file in the store is taken for the one that is moved.
AnyAtNew(m) == old[m] # "none" /\ store[m] # "none" /\ Size(store[m]) > 0

\* alreadyAtNew: sizes only; the checksum is left to inferd.
AlreadyAtNew(m) ==
  /\ old[m] # "none" /\ store[m] # "none"
  /\ Size(old[m]) = Size(store[m]) /\ Size(store[m]) > 0

\* An earlier run was stopped between the copy and the removal.
DropOld ==
  /\ at = "compare" /\ AlreadyAtNew(file)
  /\ old' = [old EXCEPT ![file] = "none"] \/ UNCHANGED old
  /\ To("next")
  /\ UNCHANGED <<sameFS, store, oldDir, remains, todo, file>>

\* A rename replaces what is there.
Rename ==
  /\ at = "compare" /\ ~AlreadyAtNew(file) /\ sameFS
  /\ old' = [old EXCEPT ![file] = "none"]
  /\ store' = [store EXCEPT ![file] = old[file]]
  /\ To("next")
  /\ UNCHANGED <<sameFS, oldDir, remains, todo, file>>

\* moveAcrossFS falls back on a copy that must not find a file there.
OpenCopy ==
  /\ at = "compare" /\ ~AlreadyAtNew(file) /\ ~sameFS
  /\ store[file] = "none"
  /\ store' = [store EXCEPT ![file] = IF old[file] = "model" THEN "part" ELSE "empty"]
  /\ To("copy")
  /\ UNCHANGED <<sameFS, old, oldDir, remains, todo, file>>

\* A note, and the next file.
NotMoved ==
  /\ at = "compare" /\ ~AlreadyAtNew(file)
  /\ To("next")
  /\ UNCHANGED <<sameFS, old, store, oldDir, remains, todo, file>>

CopyFile ==
  /\ at = "copy"
  /\ store' = [store EXCEPT ![file] = old[file]]
  /\ To("unlink")
  /\ UNCHANGED <<sameFS, old, oldDir, remains, todo, file>>

\* The disk is full: what was copied is removed, if that can be done.
CopyFileFails ==
  /\ at = "copy"
  /\ store' = [store EXCEPT ![file] = "none"] \/ UNCHANGED store
  /\ To("next")
  /\ UNCHANGED <<sameFS, old, oldDir, remains, todo, file>>

Unlink ==
  /\ at = "unlink"
  /\ old' = [old EXCEPT ![file] = "none"] \/ UNCHANGED old
  /\ To("next")
  /\ UNCHANGED <<sameFS, store, oldDir, remains, todo, file>>

RemoveOldDir ==
  /\ at = "next" /\ todo = {}
  /\ oldDir' \in {oldDir, \E m \in Models : old[m] # "none"}
  /\ To("over") /\ file' = "none"
  /\ UNCHANGED <<sameFS, old, store, remains, todo>>

MigrateKilled ==
  /\ at # "over"
  /\ To("over") /\ todo' = {} /\ file' = "none"
  /\ UNCHANGED <<sameFS, old, store, oldDir, remains>>

MigrateNext ==
  \/ Exorcise \/ Pick \/ DropOld \/ Rename \/ OpenCopy \/ NotMoved
  \/ CopyFile \/ CopyFileFails \/ Unlink \/ RemoveOldDir \/ MigrateKilled

MigrateSpec == MigrateInit /\ [][MigrateNext]_migrateVars

-----------------------------------------------------------------------------
(* What must hold.                                                           *)

\* However often the migration is killed, fails and is repeated, a model that
\* has left the old directory is whole in the store, and the directory goes
\* only when nothing is in it (MigrateFromV05, moveAcrossFS).
ModelNeverLost ==
  /\ \A m \in Models : old[m] = "none" => store[m] \in {"model", "empty"}
  /\ \A m \in Models : old[m] # "none" => oldDir
=============================================================================
