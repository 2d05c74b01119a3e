---------------------------- MODULE LogRotation ----------------------------
(* The activity log of one component (internal/logx): every process of the   *)
(* component has a Logger of its own on the same live file, and the one that *)
(* meets a new day moves the file to a dated archive and sweeps old archives.*)
(* Within a process a mutex makes writes follow each other; between          *)
(* processes nothing does, and each system call is a step.                   *)
(*                                                                           *)
(* A file is known by its name: a handle follows its file through a rename,  *)
(* and a file that lost its name keeps its handles but no reader.            *)
EXTENDS Integers, FiniteSets, Sequences, SequencesExt

CONSTANTS
  Loggers,    \* the processes that log for the component
  RetainDays, \* days an archive is kept
  MaxDay,     \* the calendar ends there: bounds the model
  MaxRecords, \* records ever written: bounds the model
  MaxLength   \* records in an archive, repeated ones included: bounds the model

ASSUME LogAssumption ==
  RetainDays \in Nat \ {0} /\ MaxDay \in Nat \ {0} /\ MaxRecords \in Nat /\ MaxLength \in Nat

Days == 1..MaxDay
Live == 0             \* <component>.ndjson
Names == {Live} \cup Days  \* and <component>-<day>.ndjson

None == -1     \* no file is open
Unlinked == -2 \* the open file has no name any more

Record == [id : 1..MaxRecords, day : Days]

VARIABLES
  day,     \* the calendar
  there,   \* the names that exist
  text,    \* what the file of each name holds
  mday,    \* the day the live file was last written
  pc,      \* where the write of each logger stands
  today,   \* the day each took its write to be on
  open,    \* the file each has open
  openOn,  \* the day each opened the live file for
  label,   \* the day each archives under
  data,    \* what each has read of the live file, to be appended
  written, \* records handed to the system without an error
  swept,   \* records that went with a swept archive
  trouble  \* what happened that may cost or repeat records

files == <<there, text, mday>>
own == <<openOn, label, data>>
vars == <<day, files, pc, today, open, own, written, swept, trouble>>

Init ==
  /\ day = 1
  /\ there = {}
  /\ text = [n \in Names |-> <<>>]
  /\ mday = 1
  /\ pc = [p \in Loggers |-> "idle"]
  /\ today = [p \in Loggers |-> 1]
  /\ open = [p \in Loggers |-> None]
  /\ openOn = [p \in Loggers |-> 1]
  /\ label = [p \in Loggers |-> 1]
  /\ data = [p \in Loggers |-> <<>>]
  /\ written = {}
  /\ swept = {}
  /\ trouble = {}

At(p, l) == pc[p] = l
Goto(p, l) == pc' = [pc EXCEPT ![p] = l]

\* A step of p that changes nothing but where it stands.
Moves(p, from, to) ==
  /\ At(p, from) /\ Goto(p, to)
  /\ UNCHANGED <<day, files, today, open, own, written, swept>>

\* What a finished step leaves in a variable is reset: nobody reads it again.
Reset(f, p) == [f EXCEPT ![p] = 1]

\* A process archives while another has the log open or is in a write.
Archiving(p) == pc[p] \in {"archive", "target", "rename", "read", "reopen", "copy", "remove"}
AtWork(p) == pc[p] # "idle" \/ open[p] # None
Beside == \E p, q \in Loggers : p # q /\ AtWork(p) /\ AtWork(q)
Meeting == \E p, q \in Loggers : p # q /\ Archiving(p) /\ AtWork(q)

Note(what) == trouble' = trouble \cup what \cup (IF Meeting' THEN {"overlap"} ELSE {})

\* Names go: the files keep their handles, without a name.
Unlink(gone) ==
  /\ there' = there \ gone
  /\ text' = [n \in Names |-> IF n \in gone THEN <<>> ELSE text[n]]
  /\ open' = [q \in Loggers |-> IF open[q] \in gone THEN Unlinked ELSE open[q]]

-----------------------------------------------------------------------------
(* write and ensureOpenLocked: is the live file open, and is it today's?     *)

Write(p) ==
  /\ At(p, "idle")
  /\ Cardinality(written) < MaxRecords
  /\ today' = [today EXCEPT ![p] = day]
  /\ UNCHANGED <<day, files, data, written, swept>>

WriteOn(p) ==
  /\ Write(p)
  /\ open[p] # None /\ openOn[p] = day
  /\ Goto(p, "append")
  /\ UNCHANGED <<open, openOn, label>>

\* The file was opened for another day: it is archived under that day.
Rollover(p) ==
  /\ Write(p)
  /\ open[p] # None /\ openOn[p] # day
  /\ open' = [open EXCEPT ![p] = None]
  /\ label' = [label EXCEPT ![p] = openOn[p]]
  /\ openOn' = Reset(openOn, p)
  /\ Goto(p, "archive")

FirstOpen(p) ==
  /\ Write(p)
  /\ open[p] = None
  /\ Goto(p, "stat")
  /\ UNCHANGED <<open, openOn, label>>

\* A live file left by an earlier process is archived under its last day.
StatLive(p) ==
  /\ At(p, "stat")
  /\ IF Live \in there /\ mday # today[p]
     THEN label' = [label EXCEPT ![p] = mday] /\ Goto(p, "archive")
     ELSE UNCHANGED label /\ Goto(p, "open")
  /\ UNCHANGED <<day, files, today, open, openOn, data, written, swept>>

-----------------------------------------------------------------------------
(* archiveLocked.                                                            *)

StatSource(p) == Moves(p, "archive", IF Live \in there THEN "target" ELSE "sweep")

\* Wrong on purpose: an archive of that day is not looked for.
NoTarget(p) == Moves(p, "target", "rename")

StatTarget(p) == Moves(p, "target", IF label[p] \in there THEN "read" ELSE "rename")

\* os.Rename replaces a file of that name, should there be one by now.
Rename(p) ==
  /\ At(p, "rename")
  /\ Live \in there
  /\ there' = (there \ {Live}) \cup {label[p]}
  /\ text' = [text EXCEPT ![label[p]] = text[Live], ![Live] = <<>>]
  /\ open' = [q \in Loggers |-> CASE open[q] = Live     -> label[p]
                                  [] open[q] = label[p] -> Unlinked
                                  [] OTHER              -> open[q]]
  /\ Goto(p, "sweep")
  /\ UNCHANGED <<day, mday, today, own, written, swept>>

ReadLive(p) ==
  /\ At(p, "read")
  /\ Live \in there
  /\ data' = [data EXCEPT ![p] = text[Live]]
  /\ Goto(p, "reopen")
  /\ UNCHANGED <<day, files, today, open, openOn, label, written, swept>>

OpenArchive(p) ==
  /\ At(p, "reopen")
  /\ label[p] \in there
  /\ open' = [open EXCEPT ![p] = label[p]]
  /\ Goto(p, "copy")
  /\ UNCHANGED <<day, files, today, own, written, swept>>

\* The file p has open; what it holds, once nobody can reach it, is lost.
Held(p) == IF open[p] = Unlinked THEN <<>> ELSE text[open[p]]

\* More at the end of the file p has open.
Extend(p, more) ==
  IF open[p] = Unlinked THEN UNCHANGED text
  ELSE text' = [text EXCEPT ![open[p]] = @ \o more]

Copied(p) ==
  /\ At(p, "copy")
  /\ data' = [data EXCEPT ![p] = <<>>]
  /\ open' = [open EXCEPT ![p] = None]
  /\ Goto(p, "remove")
  /\ UNCHANGED <<day, there, mday, today, openOn, label, written, swept>>

Copy(p) ==
  /\ Copied(p)
  /\ Len(Held(p)) + Len(data[p]) <= MaxLength
  /\ Extend(p, data[p])

\* The result of the write is not looked at: the live file goes all the same.
CopyFails(p) ==
  /\ Copied(p)
  /\ UNCHANGED text
  /\ Note({"diskfull"})

\* Wrong on purpose: the copied file stays the live one.
KeepLive(p) == Moves(p, "remove", "sweep")

\* Whatever is the live file by now.
RemoveLive(p) ==
  /\ At(p, "remove")
  /\ Unlink({Live})
  /\ Goto(p, "sweep")
  /\ UNCHANGED <<day, mday, today, own, written, swept>>

\* A call of archiveLocked fails: the file is gone, or the system refuses.
ArchiveGivesUp(p) ==
  /\ pc[p] \in {"rename", "read", "reopen", "remove"}
  /\ data' = [data EXCEPT ![p] = <<>>]
  /\ Goto(p, "sweep")
  /\ UNCHANGED <<day, files, today, open, openOn, label, written, swept>>
  /\ Note(IF At(p, "remove") THEN {"interrupted"} ELSE {})

-----------------------------------------------------------------------------
(* sweepLocked, the open, and the write itself.                              *)

\* Wrong on purpose: the archive of the last day to be kept goes as well.
OldOrLast(p) == {n \in there \ {Live} : n <= today[p] - RetainDays}

Old(p) == {n \in there \ {Live} : n < today[p] - RetainDays}

\* A file that cannot be removed stays.
Sweep(p) ==
  /\ At(p, "sweep")
  /\ \E gone \in SUBSET Old(p) :
       /\ Unlink(gone)
       /\ swept' = swept \cup UNION {ToSet(text[n]) : n \in gone}
  /\ Goto(p, "open")
  /\ label' = Reset(label, p)
  /\ UNCHANGED <<day, mday, today, openOn, data, written>>

\* O_APPEND | O_CREATE.
OpenLive(p) ==
  /\ At(p, "open")
  /\ there' = there \cup {Live}
  /\ mday' = IF Live \in there THEN mday ELSE day
  /\ open' = [open EXCEPT ![p] = Live]
  /\ openOn' = [openOn EXCEPT ![p] = today[p]]
  /\ Goto(p, "append")
  /\ UNCHANGED <<day, text, today, label, data, written, swept>>

AppendRecord(p) ==
  /\ At(p, "append")
  /\ Cardinality(written) < MaxRecords
  /\ LET r == [id |-> Cardinality(written) + 1, day |-> day]
     IN  Extend(p, <<r>>) /\ written' = written \cup {r}
  /\ mday' = IF open[p] = Live THEN day ELSE mday
  /\ Goto(p, "idle")
  /\ today' = Reset(today, p)
  /\ UNCHANGED <<day, there, open, own, swept>>

\* The open or the write fails: the record goes nowhere, and stderr is told.
WriteFails(p) ==
  /\ pc[p] \in {"open", "append"}
  /\ Goto(p, "idle")
  /\ today' = Reset(today, p)
  /\ UNCHANGED <<day, files, open, own, written, swept>>

-----------------------------------------------------------------------------
(* Processes, the calendar, and the whole.                                   *)

\* A process is over: it closed its log, or was killed in the middle of a write.
\* The next one starts with a Logger that has nothing open.
Over(p) ==
  /\ AtWork(p)
  /\ Goto(p, "idle")
  /\ open' = [open EXCEPT ![p] = None]
  /\ data' = [data EXCEPT ![p] = <<>>]
  /\ today' = Reset(today, p)
  /\ openOn' = Reset(openOn, p)
  /\ label' = Reset(label, p)
  /\ UNCHANGED <<day, files, written, swept>>
  /\ Note(IF At(p, "idle") THEN {} ELSE {"interrupted"})

\* Midnight may fall into a write; two midnights do not.  Two processes at work
\* at midnight overlap: each will rotate.
NextDay ==
  /\ day < MaxDay
  /\ \A p \in Loggers : At(p, "idle") \/ today[p] = day
  /\ day' = day + 1
  /\ UNCHANGED <<files, pc, today, open, own, written, swept>>
  /\ trouble' = trouble \cup (IF Beside THEN {"overlap"} ELSE {})

Archive(p) ==
  \/ StatSource(p) \/ StatTarget(p) \/ Rename(p) \/ ReadLive(p) \/ OpenArchive(p)
  \/ Copy(p) \/ RemoveLive(p)

Logging(p) ==
  \/ WriteOn(p) \/ Rollover(p) \/ FirstOpen(p) \/ StatLive(p)
  \/ Archive(p) \/ Sweep(p) \/ OpenLive(p) \/ AppendRecord(p) \/ WriteFails(p)

Next ==
  \/ \E p \in Loggers : Logging(p) /\ Note({})
  \/ \E p \in Loggers : CopyFails(p) \/ ArchiveGivesUp(p) \/ Over(p)
  \/ NextDay

Spec == Init /\ [][Next]_vars

-----------------------------------------------------------------------------
(* What must hold.                                                           *)

Troubles == {"overlap", "diskfull", "interrupted"}

Steps == {"idle", "stat", "archive", "target", "rename", "read", "reopen",
          "copy", "remove", "sweep", "open", "append"}

Stored == UNION {ToSet(text[n]) : n \in there}

Vanished == written \ (Stored \cup swept)

\* What was written can be read, in the live file or in an archive, until the
\* sweep takes it: a process that is killed between any two steps of a rotation
\* costs nothing, and neither does a call that fails, but for a copy to a full
\* disk and for a rotation beside another process at work (archiveLocked).
NothingLostAlone == trouble \cap {"overlap", "diskfull"} = {} => Vanished = {}

\* No record is swept before it is RetainDays old, although an archive is known
\* by the day its file was opened or last written, which for a write across
\* midnight is not the day of all of its records (sweepLocked's cutoff).
SweptInTime == "overlap" \notin trouble => \A r \in swept : day - r.day >= RetainDays

\* Undisturbed, and but for the moment between copy and removal, a record is in
\* one place, and every file tells its records in the order they were written,
\* an archive that was appended to included (archiveLocked's copy).
OnceAndInOrder ==
  trouble = {} /\ (\A p \in Loggers : ~At(p, "remove")) =>
    \A m, n \in there : \A i \in DOMAIN text[m], j \in DOMAIN text[n] :
      /\ text[m][i] = text[n][j] => m = n /\ i = j
      /\ m = n /\ i < j => text[m][i].id < text[n][j].id

\* Two processes may race through the same midnight, and the older record is
\* preserved: what the comment of archiveLocked says of its second branch.
PreservedThroughMidnight == trouble \subseteq {"overlap"} => Vanished = {}
=============================================================================
