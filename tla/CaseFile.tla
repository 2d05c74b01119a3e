------------------------------ MODULE CaseFile ------------------------------
(* Cases: the directories that thlibo case makes for large logs              *)
(* (cmd/thlibo/casecmd, internal/casefile).  Several runs may be under way,  *)
(* and thlibo case --prune beside them; every call that touches the disk is  *)
(* a step, may fail, and may be the last one of a process that is killed.    *)
(*                                                                           *)
(* What the pipeline and the OCR return is up to the environment.  A file is *)
(* known by the run that wrote it.                                           *)
EXTENDS Integers, FiniteSets

CONSTANTS
  Runs,    \* invocations of thlibo case, each for one file
  Sources, \* the files they are given
  Marked,  \* those whose own text holds the low-value sentinel
  MaxAge,  \* what --prune is given, in seconds of the model's clock
  MaxTime  \* the clock stops there: bounds the model

ASSUME CaseAssumption ==
  /\ Marked \subseteq Sources /\ MaxAge \in Nat \ {0} /\ MaxTime \in Nat
  /\ {"nobody", "torn"} \cap Runs = {} \* those who are not runs: see files

Times == 0..MaxTime

\* caseID: the second and a hash of the path; hashes are taken not to collide.
Ids == [second : Times, source : Sources]

Parts == {"compressed.log", "meta.json", "summary.md"}
Texts == {"none", "source", "processed", "marked", "stripped", "ocr"}

Nobody == "nobody"
NoFiles == [part \in Parts |-> Nobody]

Draft == [text : Texts, fallback : BOOLEAN, low : BOOLEAN]
NoDraft == [text |-> "none", fallback |-> FALSE, low |-> FALSE]

NoPrune == [at |-> "idle", cutoff |-> 0, todo |-> {}, doomed |-> {}]

VARIABLES
  now,     \* the clock
  there,   \* the case directories that exist
  files,   \* who wrote what is in them
  touched, \* when an entry of each last came or went: its mtime
  pc,      \* where each run stands, and how it ended
  id,      \* the case each run makes
  draft,   \* what each has made of its source
  prune,   \* the prune under way: its cutoff, what it has yet to look at, its target
  pruned   \* the cases that a prune has laid hands on

disk == <<there, files, touched>>
vars == <<now, disk, pc, id, draft, prune, pruned>>

Over == {"ok", "lowvalue", "missing", "failed", "unscrubbed", "killed"}
Reported == {"ok", "lowvalue"}

Init ==
  /\ now = 0
  /\ there = {}
  /\ files = [i \in Ids |-> NoFiles]
  /\ touched = [i \in Ids |-> 0]
  /\ pc = [p \in Runs |-> "start"]
  /\ id \in [Runs -> [second : {0}, source : Sources]]
  /\ draft = [p \in Runs |-> NoDraft]
  /\ prune = NoPrune
  /\ pruned = {}

At(p, l) == pc[p] = l
Goto(p, l) == pc' = [pc EXCEPT ![p] = l]

\* A step of p that changes nothing but where it stands.
Moves(p, from, to) ==
  /\ At(p, from) /\ Goto(p, to)
  /\ UNCHANGED <<now, disk, id, draft, prune, pruned>>

\* The run is over: nobody reads its draft again.
End(p, how) == Goto(p, how) /\ draft' = [draft EXCEPT ![p] = NoDraft]

\* The file is written, or removed; the directory's mtime changes only if an
\* entry comes or goes, not when a file that is there is written again.
Put(i, part, who) ==
  /\ files' = [files EXCEPT ![i][part] = who]
  /\ touched' = IF files[i][part] = Nobody \/ who = Nobody
                THEN [touched EXCEPT ![i] = now] ELSE touched

-----------------------------------------------------------------------------
(* Create, up to the directory.                                              *)

\* The source is there and a regular file: the second is that of this moment.
Stat(p) ==
  /\ At(p, "start")
  /\ id' = [id EXCEPT ![p].second = now]
  /\ Goto(p, "mkdir")
  /\ UNCHANGED <<now, disk, draft, prune, pruned>>

StatFails(p) == Moves(p, "start", "missing")

\* MkdirAll is content with a directory that is there already.
MakeDir(p) ==
  /\ At(p, "mkdir")
  /\ there' = there \cup {id[p]}
  /\ touched' = IF id[p] \in there THEN touched ELSE [touched EXCEPT ![id[p]] = now]
  /\ Goto(p, "read")
  /\ UNCHANGED <<now, files, id, draft, prune, pruned>>

MakeDirFails(p) == Moves(p, "mkdir", "failed")

-----------------------------------------------------------------------------
(* The text of the case.                                                     *)

\* From here on every way out but the last one scrubs the directory.
ReadFails(p) == Moves(p, "read", "scrub")

\* The source as it is, because there is no pipeline or it wrote nothing; or
\* what the pipeline made of it, which may be the source.
Compressed ==
  {[text |-> t, fallback |-> t = "source", low |-> FALSE] :
     t \in {"source", "processed", "marked"}}

HasSentinel(s, t) == t = "marked" \/ (t = "source" /\ s \in Marked)

Compress(p) ==
  /\ At(p, "read")
  /\ \E d \in Compressed :
       IF HasSentinel(id[p].source, d.text)
       THEN /\ draft' = [draft EXCEPT ![p] = [d EXCEPT !.text = "stripped", !.low = TRUE]]
            /\ Goto(p, "ocr")
       ELSE /\ draft' = [draft EXCEPT ![p] = d]
            /\ Goto(p, "compressed.log")
  /\ UNCHANGED <<now, disk, id, prune, pruned>>

\* A scanned document: its pages are transcribed, or it stays low-value.
Transcribe(p) ==
  /\ At(p, "ocr")
  /\ draft' = [draft EXCEPT ![p].text = "ocr", ![p].low = FALSE]
  /\ Goto(p, "compressed.log")
  /\ UNCHANGED <<now, disk, id, prune, pruned>>

\* Wrong on purpose: the flag is cleared before the answer is looked at.
ClearedTooSoon(p) ==
  /\ At(p, "ocr")
  /\ draft' = [draft EXCEPT ![p].low = FALSE]
  /\ Goto(p, "compressed.log")
  /\ UNCHANGED <<now, disk, id, prune, pruned>>

NoTranscript(p) == Moves(p, "ocr", "compressed.log")

-----------------------------------------------------------------------------
(* The files, and the end.                                                   *)

\* Wrong on purpose: the summary goes first, and nobody waits for the rest.
SummaryFirst ==
  [part \in Parts |-> CASE part = "compressed.log" -> "summary.md"
                        [] OTHER                   -> "report"]

AfterPart ==
  [part \in Parts |-> CASE part = "compressed.log" -> "meta.json"
                        [] part = "meta.json"      -> "summary.md"
                        [] part = "summary.md"     -> "report"]

WritePart(p) ==
  /\ pc[p] \in Parts
  /\ id[p] \in there
  /\ Put(id[p], pc[p], p)
  /\ Goto(p, AfterPart[pc[p]])
  /\ UNCHANGED <<now, there, id, draft, prune, pruned>>

\* Wrong on purpose: success is claimed before the files are written.
NoScrub(p) ==
  /\ pc[p] \in Parts
  /\ End(p, "failed")
  /\ UNCHANGED <<now, disk, id, prune, pruned>>

\* The directory is gone, or the disk is full: a file may have come to be, or
\* lost what it held.
WriteFails(p) ==
  /\ pc[p] \in Parts
  /\ \/ UNCHANGED <<files, touched>>
     \/ id[p] \in there /\ Put(id[p], pc[p], "torn")
  /\ Goto(p, "scrub")
  /\ UNCHANGED <<now, there, id, draft, prune, pruned>>

\* os.RemoveAll, one file after the other and then the directory.
RemoveFile(i) ==
  /\ i \in there
  /\ \E part \in Parts : files[i][part] # Nobody /\ Put(i, part, Nobody)
  /\ UNCHANGED there

RemoveDir(i) ==
  /\ files[i] = NoFiles
  /\ there' = there \ {i}
  /\ touched' = [touched EXCEPT ![i] = 0]
  /\ UNCHANGED files

ScrubFile(p) ==
  /\ At(p, "scrub")
  /\ RemoveFile(id[p])
  /\ UNCHANGED <<now, pc, id, draft, prune, pruned>>

ScrubDir(p) ==
  /\ At(p, "scrub")
  /\ RemoveDir(id[p])
  /\ End(p, "failed")
  /\ UNCHANGED <<now, id, prune, pruned>>

\* The error of RemoveAll is not looked at.
ScrubFails(p) ==
  /\ At(p, "scrub")
  /\ End(p, "unscrubbed")
  /\ UNCHANGED <<now, disk, id, prune, pruned>>

\* The path goes to stdout, and with it to the hook that asked, unless the case
\* is of low value.
Report(p) ==
  /\ At(p, "report")
  /\ End(p, IF draft[p].low THEN "lowvalue" ELSE "ok")
  /\ UNCHANGED <<now, disk, id, prune, pruned>>

Killed(p) ==
  /\ pc[p] \notin Over \cup {"start"}
  /\ End(p, "killed")
  /\ UNCHANGED <<now, disk, id, prune, pruned>>

-----------------------------------------------------------------------------
(* Prune: every directory that has not changed since the cutoff.             *)

RunsStand == UNCHANGED <<now, pc, id, draft>>

\* Earlier than MaxAge there is nothing that it could take.
PruneStarts ==
  /\ prune.at = "idle" /\ now >= MaxAge
  /\ prune' = [at |-> "walk", cutoff |-> now - MaxAge, todo |-> there, doomed |-> {}]
  /\ UNCHANGED <<disk, pruned>> /\ RunsStand

\* Wrong on purpose: the age is not looked at.
AnyAge(i) == i \in there

OldEnough(i) == i \in there /\ touched[i] <= prune.cutoff

PruneSkips ==
  /\ prune.at = "walk"
  /\ \E i \in prune.todo :
       ~OldEnough(i) /\ prune' = [prune EXCEPT !.todo = @ \ {i}]
  /\ UNCHANGED <<disk, pruned>> /\ RunsStand

PrunePicks ==
  /\ prune.at = "walk"
  /\ \E i \in prune.todo :
       /\ OldEnough(i)
       /\ prune' = [prune EXCEPT !.at = "remove", !.todo = @ \ {i}, !.doomed = {i}]
       /\ pruned' = pruned \cup {i}
  /\ UNCHANGED disk /\ RunsStand

PruneFile ==
  /\ \E i \in prune.doomed : RemoveFile(i)
  /\ UNCHANGED <<prune, pruned>> /\ RunsStand

\* RemoveAll is done with a directory, or cannot remove it and gives up.
PruneDir ==
  /\ \E i \in prune.doomed : RemoveDir(i) \/ UNCHANGED disk
  /\ prune' = [prune EXCEPT !.at = "walk", !.doomed = {}]
  /\ UNCHANGED pruned /\ RunsStand

\* It is through, or it is killed.
PruneEnds ==
  /\ prune.at # "idle"
  /\ prune' = NoPrune
  /\ UNCHANGED <<disk, pruned>> /\ RunsStand

-----------------------------------------------------------------------------
(* Time, and the whole.                                                      *)

\* A run may take any time, longer than the age --prune is given too.
Tick ==
  /\ now < MaxTime
  /\ now' = now + 1
  /\ UNCHANGED <<disk, pc, id, draft, prune, pruned>>

Create(p) ==
  \/ Stat(p) \/ StatFails(p) \/ MakeDir(p) \/ MakeDirFails(p)
  \/ ReadFails(p) \/ Compress(p) \/ Transcribe(p) \/ NoTranscript(p)
  \/ WritePart(p) \/ WriteFails(p) \/ ScrubFile(p) \/ ScrubDir(p) \/ ScrubFails(p)
  \/ Report(p)

Prune ==
  PruneStarts \/ PruneSkips \/ PrunePicks \/ PruneFile \/ PruneDir \/ PruneEnds

Next ==
  \/ \E p \in Runs : Create(p) \/ Killed(p)
  \/ Prune
  \/ Tick

Spec == Init /\ [][Next]_vars

-----------------------------------------------------------------------------
(* What must hold.                                                           *)

\* The case has all its files, and all are p's.
WholeBy(p) == id[p] \in there /\ files[id[p]] = [part \in Parts |-> p]

Alone(p) == \A q \in Runs \ {p} : id[q] # id[p]

\* A case that was reported is whole and stays so until a prune takes it,
\* whatever happens to other runs; and no summary stands in a case that is not
\* whole (the order in which Create writes its files).
ReportedIsWhole ==
  \A p \in Runs : Alone(p) /\ id[p] \notin pruned =>
    /\ pc[p] \in Reported => WholeBy(p)
    /\ files[id[p]]["summary.md"] = p => WholeBy(p)

\* A run that reports an error leaves nothing behind, at whichever step it
\* failed and whatever it had written (Create's deferred scrub).
FailureLeavesNothing ==
  \A p \in Runs : At(p, "failed") /\ Alone(p) => id[p] \notin there

\* The prune takes no case that is younger than MaxAge, counted from the second
\* in its name: neither a reported one nor one that is being made, so that a run
\* which takes less than MaxAge keeps its case to the end, though its directory
\* stands still while the model works (Prune judges by mtime, which is never
\* before that second).
PruneSparesTheYoung ==
  \A p \in Runs : id[p] \in pruned /\ ~At(p, "start") => now - id[p].second >= MaxAge

\* "On any IO error the partial directory is removed; callers see an error and
\* never a half-written case" (Create): the case of a run that shares it with no
\* other is whole once the run has written the last of its files.
NeverHalfWritten ==
  [][\A p \in Runs : At(p, "summary.md") /\ pc'[p] = "report" /\ Alone(p)
        => WholeBy(p)']_vars

\* The notes of a case that is about to be reported are true: what is called a
\* verbatim copy of the source is one, but for a source that holds the sentinel
\* itself; and the placeholder of a scanned document is of low value whatever
\* its OCR did, and nothing else is (Create, writeSummary).
NotesAreTrue ==
  \A p \in Runs : At(p, "report") =>
    /\ draft[p].fallback /\ id[p].source \notin Marked => draft[p].text = "source"
    /\ draft[p].low <=> draft[p].text \in {"marked", "stripped"}
=============================================================================
