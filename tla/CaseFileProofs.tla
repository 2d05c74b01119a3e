--------------------------- MODULE CaseFileProofs ---------------------------
(* What holds of cases for any number of runs, sources and ages: what is     *)
(* reported is whole, what fails leaves nothing, the prune spares the young  *)
(* and the notes tell the truth (CaseFile).                                  *)
(*                                                                           *)
(* The inductive invariant says, beside the types, how the clock bounds what *)
(* a prune may take, whose the files of a directory are, which of them a run *)
(* that shares its case with nobody has written where it stands, and what    *)
(* its draft is by then.                                                     *)
EXTENDS CaseFile, TLAPS

Stages == Over \cup Parts \cup {"start", "mkdir", "read", "ocr", "scrub", "report"}

Prunes ==
  [at : {"idle", "walk", "remove"}, cutoff : Times, todo : SUBSET Ids, doomed : SUBSET Ids]

Writers == Runs \cup {Nobody, "torn"}

TypeOK ==
  /\ now \in Times
  /\ there \in SUBSET Ids
  /\ files \in [Ids -> [Parts -> Writers]]
  /\ touched \in [Ids -> Times]
  /\ pc \in [Runs -> Stages]
  /\ id \in [Runs -> Ids]
  /\ draft \in [Runs -> Draft]
  /\ prune \in Prunes
  /\ pruned \in SUBSET Ids

\* A directory is touched in the second it is named for at the earliest; what
\* was pruned is old.
Clock ==
  /\ \A p \in Runs : id[p].second <= now
  /\ \A i \in there : i.second <= touched[i]
  /\ prune.at # "idle" => prune.cutoff + MaxAge <= now
  /\ prune.at = "idle" => prune.doomed = {}
  /\ prune.doomed \subseteq pruned
  /\ \A i \in pruned : i.second + MaxAge <= now

\* p has got as far as a directory of its own.
Begun(p) == pc[p] \notin {"start", "missing", "mkdir"}

Owned ==
  /\ \A i \in Ids \ there : files[i] = NoFiles
  /\ \A i \in there : \E p \in Runs : id[p] = i /\ Begun(p)
  /\ \A i \in Ids, part \in Parts, p \in Runs :
       files[i][part] = p => id[p] = i /\ Begun(p)

\* No other run has come to make the same case.
Apart(p) == \A q \in Runs \ {p} : id[q] = id[p] => pc[q] \in {"start", "missing"}

\* The parts that p has written where it stands.
Before ==
  [l \in {"read", "ocr", "compressed.log", "meta.json", "summary.md",
          "report", "ok", "lowvalue"} |->
     CASE l = "meta.json"                     -> {"compressed.log"}
       [] l = "summary.md"                    -> {"compressed.log", "meta.json"}
       [] l \in {"report", "ok", "lowvalue"}  -> Parts
       [] OTHER                               -> {}]

Written(p, parts) == [part \in Parts |-> IF part \in parts THEN p ELSE Nobody]

Made(p) ==
  /\ pc[p] \in {"mkdir", "failed"} => id[p] \notin there
  /\ id[p] \notin pruned =>
       /\ pc[p] \in DOMAIN Before =>
            id[p] \in there /\ files[id[p]] = Written(p, Before[pc[p]])
       /\ pc[p] \in {"scrub", "unscrubbed"} => files[id[p]]["summary.md"] # p
       /\ files[id[p]]["summary.md"] = p => WholeBy(p)

Cases == \A p \in Runs : pc[p] \notin {"start", "missing"} /\ Apart(p) => Made(p)

\* What is in the draft of p, from the stripping of its sentinel on.
Noted(p) ==
  /\ At(p, "ocr") =>
       /\ draft[p].text = "stripped" /\ draft[p].low
       /\ draft[p].fallback => id[p].source \in Marked
  /\ pc[p] \in Parts \cup {"report"} =>
       /\ draft[p].fallback /\ id[p].source \notin Marked => draft[p].text = "source"
       /\ draft[p].low <=> draft[p].text \in {"marked", "stripped"}

Notes == \A p \in Runs : Noted(p)

Inv == TypeOK /\ Clock /\ Owned /\ Cases /\ Notes

-----------------------------------------------------------------------------
(* What the steps do, as far as the invariant is concerned.                  *)

\* Removing, whoever does it, takes files and the directory they were in.
LEMMA Erases ==
  ASSUME TypeOK, NEW i \in Ids, RemoveFile(i) \/ RemoveDir(i)
  PROVE  /\ there' \in SUBSET there
         /\ files' \in [Ids -> [Parts -> Writers]] /\ touched' \in [Ids -> Times]
         /\ \A j \in Ids \ {i} :
              files'[j] = files[j] /\ touched'[j] = touched[j] /\ (j \in there <=> j \in there')
         /\ \A part \in Parts : files'[i][part] \in {files[i][part], Nobody}
         /\ i \in there' => touched'[i] = now
         /\ i \notin there' => files'[i] = NoFiles
<1>1. CASE RemoveFile(i)
  <2>1. PICK part \in Parts : Put(i, part, Nobody)
    BY <1>1 DEF RemoveFile
  <2>2. Nobody \in Writers
    BY DEF Writers
  <2> QED
    BY <1>1, <2>1, <2>2 DEF RemoveFile, Put, TypeOK
<1>2. CASE RemoveDir(i)
  <2>1. 0 \in Times
    BY CaseAssumption DEF Times
  <2> QED
    BY <1>2, <2>1 DEF RemoveDir, TypeOK
<1> QED
  BY <1>1, <1>2

\* Writing a part puts it, or its ruins, into the directory of the run.
LEMMA Writes ==
  ASSUME TypeOK, NEW p \in Runs, WritePart(p) \/ WriteFails(p)
  PROVE  /\ pc[p] \in Parts /\ there' = there
         /\ files' \in [Ids -> [Parts -> Writers]] /\ touched' \in [Ids -> Times]
         /\ \A j \in Ids \ {id[p]} : files'[j] = files[j] /\ touched'[j] = touched[j]
         /\ touched'[id[p]] \in {touched[id[p]], now}
         /\ id[p] \notin there => files'[id[p]] = files[id[p]]
         /\ \A part \in Parts : files'[id[p]][part] \in {files[id[p]][part], p, "torn"}
<1>1. p \in Writers /\ "torn" \in Writers /\ id[p] \in Ids
  BY DEF Writers, TypeOK
<1>2. CASE WritePart(p)
  BY <1>1, <1>2 DEF WritePart, Put, TypeOK
<1>3. CASE WriteFails(p)
  <2>1. CASE UNCHANGED <<files, touched>>
    BY <1>1, <1>3, <2>1 DEF WriteFails, TypeOK
  <2>2. CASE id[p] \in there /\ Put(id[p], pc[p], "torn")
    BY <1>1, <1>3, <2>2 DEF WriteFails, Put, TypeOK
  <2> QED
    BY <1>3, <2>1, <2>2 DEF WriteFails
<1> QED
  BY <1>2, <1>3

\* How a step of p looks to the other runs.
Local(p) ==
  /\ \A q \in Runs \ {p} : pc'[q] = pc[q] /\ id'[q] = id[q] /\ draft'[q] = draft[q]
  /\ pc[p] # "start" => id'[p] = id[p]
  /\ pc'[p] # "start"
  /\ Begun(p) => Begun(p)'
  /\ pc[p] # "missing" /\ (pc'[p] = "missing" => pc[p] = "start")
  /\ UNCHANGED <<now, prune, pruned>>
  /\ \A j \in Ids :
       pc[p] = "start" \/ j # id[p] =>
         files'[j] = files[j] /\ touched'[j] = touched[j] /\ (j \in there <=> j \in there')

LEMMA StepIsLocal ==
  ASSUME TypeOK, NEW p \in Runs, Create(p) \/ Killed(p)
  PROVE  Local(p)
<1> USE DEF Local, Begun, At, Goto, Over, TypeOK
<1>1. ASSUME Stat(p) \/ StatFails(p) \/ MakeDir(p) \/ MakeDirFails(p) PROVE Local(p)
  BY <1>1 DEF Stat, StatFails, MakeDir, MakeDirFails, Moves, disk
<1>2. ASSUME ReadFails(p) \/ Transcribe(p) \/ NoTranscript(p) PROVE Local(p)
  BY <1>2 DEF ReadFails, Transcribe, NoTranscript, Moves, disk
<1>3. ASSUME Compress(p) PROVE Local(p)
  BY <1>3 DEF Compress, disk
<1>4. ASSUME WritePart(p) \/ WriteFails(p) PROVE Local(p)
  <2>1. pc[p] \in Parts /\ pc'[p] \in Parts \cup {"report", "scrub"}
    BY <1>4 DEF WritePart, WriteFails, AfterPart, Parts
  <2> QED
    BY <1>4, <2>1, Writes DEF WritePart, WriteFails, Parts
<1>5. ASSUME ScrubFile(p) \/ ScrubDir(p) PROVE Local(p)
  BY <1>5, Erases DEF ScrubFile, ScrubDir, End
<1>6. ASSUME ScrubFails(p) \/ Report(p) \/ Killed(p) PROVE Local(p)
  BY <1>6 DEF ScrubFails, Report, Killed, End, disk
<1> QED
  BY <1>1, <1>2, <1>3, <1>4, <1>5, <1>6 DEF Create

-----------------------------------------------------------------------------
(* The types.                                                                *)

LEMMA TypeInit ==
  ASSUME Init
  PROVE  TypeOK
<1>1. 0 \in Times
  BY CaseAssumption DEF Times
<1>2. NoDraft \in Draft
  BY DEF NoDraft, Draft, Texts
<1>3. NoPrune \in Prunes
  BY <1>1 DEF NoPrune, Prunes
<1>4. NoFiles \in [Parts -> Writers]
  BY DEF NoFiles, Writers
<1>5. [second : {0}, source : Sources] \subseteq Ids
  BY <1>1 DEF Ids
<1>6. "start" \in Stages
  BY DEF Stages
<1> QED
  BY <1>1, <1>2, <1>3, <1>4, <1>5, <1>6 DEF Init, TypeOK

LEMMA TypeStep ==
  ASSUME TypeOK, NEW p \in Runs, Create(p) \/ Killed(p)
  PROVE  TypeOK'
<1>1. /\ "missing" \in Stages /\ "mkdir" \in Stages /\ "failed" \in Stages /\ "read" \in Stages
      /\ "scrub" \in Stages /\ "ocr" \in Stages /\ "compressed.log" \in Stages
      /\ "unscrubbed" \in Stages /\ "ok" \in Stages /\ "lowvalue" \in Stages
      /\ "killed" \in Stages
  BY DEF Stages, Over, Parts
<1>2. NoDraft \in Draft
  BY DEF NoDraft, Draft, Texts
<1>3. id[p] \in Ids /\ draft[p] \in Draft
  BY DEF TypeOK
<1>4. ASSUME Stat(p) PROVE TypeOK'
  <2>1. [id[p] EXCEPT !.second = now] \in Ids
    BY <1>3 DEF Ids, TypeOK
  <2>2. id' = [id EXCEPT ![p] = [id[p] EXCEPT !.second = now]]
    BY <1>4 DEF Stat, TypeOK
  <2>3. id' \in [Runs -> Ids]
    BY <2>1, <2>2 DEF TypeOK
  <2> QED
    BY <1>1, <1>4, <2>3 DEF Stat, Goto, TypeOK, disk
<1>5. ASSUME StatFails(p) \/ MakeDirFails(p) \/ ReadFails(p) \/ NoTranscript(p) PROVE TypeOK'
  BY <1>1, <1>5 DEF StatFails, MakeDirFails, ReadFails, NoTranscript, Moves, Goto, TypeOK, disk
<1>6. ASSUME MakeDir(p) PROVE TypeOK'
  BY <1>1, <1>3, <1>6 DEF MakeDir, Goto, TypeOK
<1>7. ASSUME Compress(p) PROVE TypeOK'
  <2>1. PICK d \in Compressed :
          IF HasSentinel(id[p].source, d.text)
          THEN /\ draft' = [draft EXCEPT ![p] = [d EXCEPT !.text = "stripped", !.low = TRUE]]
               /\ Goto(p, "ocr")
          ELSE /\ draft' = [draft EXCEPT ![p] = d]
               /\ Goto(p, "compressed.log")
    BY <1>7 DEF Compress
  <2>2. d \in Draft /\ [d EXCEPT !.text = "stripped", !.low = TRUE] \in Draft
    <3>1. PICK t \in {"source", "processed", "marked"} :
            d = [text |-> t, fallback |-> t = "source", low |-> FALSE]
      BY DEF Compressed
    <3>2. (t = "source") \in BOOLEAN /\ t \in Texts
      BY DEF Texts
    <3>3. d \in Draft
      BY <3>1, <3>2 DEF Draft
    <3> QED
      BY <3>3 DEF Draft, Texts
  <2>3. draft' \in [Runs -> Draft] /\ pc' \in [Runs -> Stages]
    BY <1>1, <2>1, <2>2 DEF Goto, TypeOK
  <2> QED
    BY <1>7, <2>3 DEF Compress, TypeOK, disk
<1>8. ASSUME Transcribe(p) PROVE TypeOK'
  <2>1. [draft[p] EXCEPT !.text = "ocr", !.low = FALSE] \in Draft
    BY <1>3 DEF Draft, Texts
  <2>2. draft' = [draft EXCEPT ![p] = [draft[p] EXCEPT !.text = "ocr", !.low = FALSE]]
    BY <1>8 DEF Transcribe, TypeOK
  <2> QED
    BY <1>1, <1>8, <2>1, <2>2 DEF Transcribe, Goto, TypeOK, disk
<1>9. ASSUME WritePart(p) \/ WriteFails(p) PROVE TypeOK'
  <2>1. pc' \in [Runs -> Stages]
    BY <1>1, <1>9 DEF WritePart, WriteFails, Goto, AfterPart, TypeOK, Stages, Parts
  <2> QED
    BY <1>9, <2>1, Writes DEF WritePart, WriteFails, TypeOK
<1>10. ASSUME ScrubFile(p) PROVE TypeOK'
  BY <1>3, <1>10, Erases DEF ScrubFile, TypeOK
<1>11. ASSUME ScrubDir(p) PROVE TypeOK'
  BY <1>1, <1>2, <1>3, <1>11, Erases DEF ScrubDir, End, Goto, TypeOK
<1>12. ASSUME ScrubFails(p) \/ Report(p) \/ Killed(p) PROVE TypeOK'
  BY <1>1, <1>2, <1>12 DEF ScrubFails, Report, Killed, End, Goto, TypeOK, disk
<1> QED
  BY <1>4, <1>5, <1>6, <1>7, <1>8, <1>9, <1>10, <1>11, <1>12 DEF Create

LEMMA TypePrune ==
  ASSUME TypeOK, Clock, Prune
  PROVE  TypeOK'
<1> USE DEF RunsStand, disk
<1>1. prune.todo \subseteq Ids /\ prune.doomed \subseteq Ids
  BY DEF TypeOK, Prunes
<1>2. CASE PruneStarts
  <2>1. now - MaxAge \in Times
    BY <1>2, CaseAssumption DEF PruneStarts, Times, TypeOK
  <2> QED
    BY <1>2, <2>1 DEF PruneStarts, TypeOK, Prunes
<1>3. CASE PruneSkips
  <2>1. prune' \in Prunes
    BY <1>1, <1>3 DEF PruneSkips, TypeOK, Prunes
  <2> QED
    BY <1>3, <2>1 DEF PruneSkips, TypeOK
<1>4. CASE PrunePicks
  <2>1. prune' \in Prunes /\ pruned' \in SUBSET Ids
    BY <1>1, <1>4 DEF PrunePicks, TypeOK, Prunes
  <2> QED
    BY <1>4, <2>1 DEF PrunePicks, TypeOK
<1>5. CASE PruneFile
  BY <1>1, <1>5, Erases DEF PruneFile, TypeOK
<1>6. CASE PruneDir
  <2>1. prune' \in Prunes
    BY <1>1, <1>6 DEF PruneDir, TypeOK, Prunes
  <2> QED
    BY <1>1, <1>6, <2>1, Erases DEF PruneDir, TypeOK
<1>7. CASE PruneEnds
  <2>1. NoPrune \in Prunes
    BY CaseAssumption DEF NoPrune, Prunes, Times
  <2> QED
    BY <1>7, <2>1 DEF PruneEnds, TypeOK
<1> QED
  BY <1>2, <1>3, <1>4, <1>5, <1>6, <1>7 DEF Prune

LEMMA TypeTick ==
  ASSUME TypeOK, Tick
  PROVE  TypeOK'
<1>1. now' \in Times
  BY CaseAssumption DEF Tick, Times, TypeOK
<1> QED
  BY <1>1 DEF Tick, TypeOK, disk

-----------------------------------------------------------------------------
(* The clock, and what it lets a prune take.                                 *)

LEMMA Numbers ==
  ASSUME TypeOK
  PROVE  /\ now \in Int /\ MaxAge \in Int /\ prune.cutoff \in Int
         /\ prune.doomed \subseteq Ids /\ prune.todo \subseteq Ids
         /\ \A i \in Ids : i.second \in Int /\ touched[i] \in Int
         /\ \A p \in Runs : id[p] \in Ids
<1>1. Times \subseteq Int
  BY CaseAssumption DEF Times
<1>2. now \in Times /\ prune.cutoff \in Times
  BY DEF TypeOK, Prunes
<1>3. \A i \in Ids : i.second \in Times /\ touched[i] \in Times
  BY DEF TypeOK, Ids
<1>4. MaxAge \in Int
  BY CaseAssumption
<1>5. /\ prune.doomed \subseteq Ids /\ prune.todo \subseteq Ids
      /\ \A p \in Runs : id[p] \in Ids
  BY DEF TypeOK, Prunes
<1> QED
  BY <1>1, <1>2, <1>3, <1>4, <1>5

LEMMA ClockStep ==
  ASSUME TypeOK, TypeOK', Clock, NEW p \in Runs, Create(p) \/ Killed(p)
  PROVE  Clock'
<1>1. Local(p)
  BY StepIsLocal
<1>2. \A q \in Runs : id[q].second \in Int /\ now \in Int
  BY Numbers
<1>3. id'[p].second <= now
  <2>1. CASE Stat(p)
    <3>1. id'[p].second = now
      BY <2>1 DEF Stat, TypeOK, Ids
    <3> QED
      BY <1>2, <3>1, CaseAssumption
  <2>2. CASE ~Stat(p)
    <3>1. id'[p] = id[p]
      BY <1>1, <2>2 DEF Create, StatFails, MakeDir, MakeDirFails, Moves, ReadFails, Compress,
         Transcribe, NoTranscript, WritePart, WriteFails, ScrubFile, ScrubDir, ScrubFails, Report,
         Killed, At, Local
    <3> QED
      BY <3>1 DEF Clock
  <2> QED
    BY <2>1, <2>2
<1>4. \A q \in Runs : id'[q].second <= now'
  BY <1>1, <1>3 DEF Local, Clock
<1>5. ASSUME NEW i \in there' PROVE i.second <= touched'[i]
  <2>1. i \in Ids /\ touched[i] \in Int /\ i.second \in Int
    BY Numbers DEF TypeOK
  <2>2. CASE i = id[p] /\ pc[p] # "start"
    <3>1. i.second <= now
      BY <2>2 DEF Clock
    <3>2. (i \in there /\ touched'[i] = touched[i]) \/ touched'[i] = now
      <4>1. ASSUME MakeDir(p) PROVE (i \in there /\ touched'[i] = touched[i]) \/ touched'[i] = now
        BY <2>1, <2>2, <4>1 DEF MakeDir, TypeOK
      <4>2. ASSUME WritePart(p) \/ WriteFails(p) PROVE (i \in there /\ touched'[i] = touched[i]) \/ touched'[i] = now
        BY <1>5, <2>2, <4>2, Writes
      <4>3. ASSUME ScrubFile(p) \/ ScrubDir(p) PROVE touched'[i] = now
        BY <1>5, <2>1, <2>2, <4>3, Erases DEF ScrubFile, ScrubDir
      <4>4. ASSUME ~MakeDir(p), ~WritePart(p), ~WriteFails(p), ~ScrubFile(p), ~ScrubDir(p)
            PROVE  i \in there /\ touched'[i] = touched[i]
        BY <1>5, <4>4 DEF Create, Stat, StatFails, MakeDirFails, Moves, ReadFails, Compress,
         Transcribe, NoTranscript, ScrubFails, Report, Killed, disk
      <4> QED
        BY <4>1, <4>2, <4>3, <4>4
    <3> QED
      BY <2>1, <3>1, <3>2 DEF Clock
  <2>3. CASE ~(i = id[p] /\ pc[p] # "start")
    BY <1>1, <1>5, <2>1, <2>3 DEF Local, Clock
  <2> QED
    BY <2>2, <2>3
<1> QED
  BY <1>1, <1>4, <1>5 DEF Clock, Local

LEMMA ClockPrune ==
  ASSUME TypeOK, TypeOK', Clock, Owned, Prune
  PROVE  Clock'
<1> USE DEF RunsStand, disk
<1>1. /\ now \in Int /\ MaxAge \in Int /\ prune.cutoff \in Int
      /\ prune.doomed \subseteq Ids /\ prune.todo \subseteq Ids
      /\ \A i \in Ids : i.second \in Int /\ touched[i] \in Int
  BY Numbers
<1>2. now' = now /\ id' = id /\ pc' = pc
  BY DEF Prune, PruneStarts, PruneSkips, PrunePicks, PruneFile, PruneDir, PruneEnds
<1>3. \A p \in Runs : id'[p].second <= now'
  BY <1>2 DEF Clock
<1>4. ASSUME NEW i \in there' PROVE i.second <= touched'[i]
  <2>1. i \in Ids
    BY DEF TypeOK
  <2>2. CASE UNCHANGED disk
    BY <1>4, <2>2 DEF Clock
  <2>3. CASE \E j \in prune.doomed : RemoveFile(j) \/ RemoveDir(j)
    <3>1. PICK j \in prune.doomed : RemoveFile(j) \/ RemoveDir(j)
      BY <2>3
    <3>2. i \in there /\ touched'[i] \in {touched[i], now}
      BY <1>1, <1>4, <2>1, <3>1, Erases
    <3>3. i.second <= now
      BY <3>2 DEF Owned, Clock
    <3> QED
      BY <3>2, <3>3 DEF Clock
  <2> QED
    BY <2>2, <2>3 DEF Prune, PruneStarts, PruneSkips, PrunePicks, PruneFile, PruneDir, PruneEnds
<1>5. /\ prune'.at # "idle" => prune'.cutoff + MaxAge <= now
      /\ prune'.at = "idle" => prune'.doomed = {}
      /\ prune'.doomed \subseteq pruned'
      /\ \A i \in pruned' : i.second + MaxAge <= now
  <2>1. CASE PruneStarts
    BY <1>1, <2>1 DEF PruneStarts, Clock
  <2>2. CASE PruneSkips
    BY <2>2 DEF PruneSkips, Clock, TypeOK, Prunes
  <2>3. CASE PrunePicks
    <3>1. PICK i \in prune.todo :
            /\ OldEnough(i) /\ pruned' = pruned \cup {i}
            /\ prune' = [prune EXCEPT !.at = "remove", !.todo = @ \ {i}, !.doomed = {i}]
      BY <2>3 DEF PrunePicks
    <3>2. prune'.at = "remove" /\ prune'.cutoff = prune.cutoff /\ prune'.doomed = {i}
      BY <3>1 DEF TypeOK, Prunes
    <3>3. i.second <= touched[i] /\ touched[i] <= prune.cutoff /\ prune.cutoff + MaxAge <= now
      BY <2>3, <3>1 DEF OldEnough, PrunePicks, Clock
    <3>4. i.second + MaxAge <= now
      BY <1>1, <3>3
    <3> QED
      BY <3>1, <3>2, <3>3, <3>4 DEF Clock
  <2>4. CASE PruneFile
    BY <2>4 DEF PruneFile, Clock
  <2>5. CASE PruneDir
    <3>1. prune'.cutoff = prune.cutoff /\ prune'.doomed = {} /\ prune.doomed # {}
      BY <2>5 DEF PruneDir, TypeOK, Prunes
    <3> QED
      BY <2>5, <3>1 DEF PruneDir, Clock
  <2>6. CASE PruneEnds
    BY <2>6 DEF PruneEnds, NoPrune, Clock
  <2> QED
    BY <2>1, <2>2, <2>3, <2>4, <2>5, <2>6 DEF Prune
<1> QED
  BY <1>2, <1>3, <1>4, <1>5 DEF Clock

LEMMA ClockTick ==
  ASSUME TypeOK, Clock, Tick
  PROVE  Clock'
<1>1. /\ now \in Int /\ MaxAge \in Int /\ prune.cutoff \in Int
      /\ \A i \in Ids : i.second \in Int
      /\ \A p \in Runs : id[p].second \in Int
  BY Numbers
<1>2. now' = now + 1 /\ UNCHANGED <<there, touched, pc, id, prune, pruned>>
  BY DEF Tick, disk
<1>4. \A p \in Runs : id[p].second <= now'
  BY <1>1, <1>2 DEF Clock
<1>5. \A i \in pruned : i.second + MaxAge <= now'
  BY <1>1, <1>2 DEF Clock, TypeOK
<1>6. prune.at # "idle" => prune.cutoff + MaxAge <= now'
  BY <1>1, <1>2 DEF Clock
<1> QED
  BY <1>2, <1>4, <1>5, <1>6 DEF Clock

-----------------------------------------------------------------------------
(* Whose the files are.                                                      *)

\* A run that has got to its directory keeps its case.
LEMMA BegunStays ==
  ASSUME TypeOK, Next, NEW p \in Runs, Begun(p)
  PROVE  Begun(p)' /\ id'[p] = id[p]
<1>1. ASSUME NEW q \in Runs, Create(q) \/ Killed(q) PROVE Begun(p)' /\ id'[p] = id[p]
  <2>1. Local(q)
    BY <1>1, StepIsLocal
  <2> QED
    BY <2>1 DEF Local, Begun
<1>2. ASSUME Prune \/ Tick PROVE Begun(p)' /\ id'[p] = id[p]
  BY <1>2 DEF Prune, PruneStarts, PruneSkips, PrunePicks, PruneFile, PruneDir, PruneEnds, RunsStand,
     Tick, Begun
<1> QED
  BY <1>1, <1>2 DEF Next

LEMMA OwnedQuiet ==
  ASSUME TypeOK, Next, Owned, UNCHANGED <<there, files>>
  PROVE  Owned'
BY BegunStays DEF Owned

LEMMA OwnedErased ==
  ASSUME TypeOK, Next, Owned, NEW i \in Ids, RemoveFile(i) \/ RemoveDir(i)
  PROVE  Owned'
<1>1. \A j \in Ids \ there' : files'[j] = NoFiles
  BY Erases DEF Owned
<1>2. \A j \in there' : \E p \in Runs : id'[p] = j /\ Begun(p)'
  BY Erases, BegunStays DEF Owned
<1>3. ASSUME NEW j \in Ids, NEW part \in Parts, NEW p \in Runs, files'[j][part] = p
      PROVE  id'[p] = j /\ Begun(p)'
  <2>1. files'[j][part] \in {files[j][part], Nobody} /\ p # Nobody
    BY CaseAssumption, Erases DEF Nobody
  <2> QED
    BY <1>3, <2>1, BegunStays DEF Owned
<1> QED
  BY <1>1, <1>2, <1>3 DEF Owned

LEMMA OwnedKept ==
  ASSUME TypeOK, Owned, Next
  PROVE  Owned'
<1>1. ASSUME NEW p \in Runs, MakeDir(p) PROVE Owned'
  <2>1. there' = there \cup {id[p]} /\ files' = files /\ id' = id /\ Begun(p)'
    BY <1>1 DEF MakeDir, Goto, Begun, TypeOK
  <2> QED
    BY <2>1, BegunStays DEF Owned
<1>2. ASSUME NEW p \in Runs, WritePart(p) \/ WriteFails(p) PROVE Owned'
  <2>1. Begun(p) /\ Begun(p)' /\ id'[p] = id[p]
    <3>1. Begun(p)
      BY <1>2, Writes DEF Begun, Parts
    <3> QED
      BY <3>1, BegunStays
  <2>2. there' = there
    BY <1>2, Writes
  <2>3. \A i \in Ids \ there' : files'[i] = NoFiles
    BY <1>2, <2>2, Writes DEF Owned
  <2>4. ASSUME NEW i \in Ids, NEW part \in Parts, NEW q \in Runs, files'[i][part] = q
        PROVE  id'[q] = i /\ Begun(q)'
    <3>1. CASE i = id[p] /\ q = p
      BY <2>1, <3>1
    <3>2. CASE ~(i = id[p] /\ q = p)
      <4>1. files[i][part] = q
        BY <1>2, <2>4, <3>2, Writes, CaseAssumption
      <4> QED
        BY <4>1, BegunStays DEF Owned
    <3> QED
      BY <3>1, <3>2
  <2> QED
    BY <2>2, <2>3, <2>4, BegunStays DEF Owned
<1>3. ASSUME NEW p \in Runs, Create(p) \/ Killed(p) PROVE Owned'
  <2>1. id[p] \in Ids
    BY DEF TypeOK
  <2>2. ASSUME ScrubFile(p) \/ ScrubDir(p) PROVE Owned'
    BY <2>1, <2>2, OwnedErased DEF ScrubFile, ScrubDir
  <2>3. ASSUME ~MakeDir(p), ~WritePart(p), ~WriteFails(p), ~ScrubFile(p), ~ScrubDir(p)
        PROVE  UNCHANGED <<there, files>>
    BY <1>3, <2>3 DEF Create, Stat, StatFails, MakeDirFails, Moves, ReadFails, Compress,
       Transcribe, NoTranscript, ScrubFails, Report, Killed, disk
  <2> QED
    BY <1>1, <1>2, <2>2, <2>3, OwnedQuiet
<1>4. ASSUME Prune PROVE Owned'
  <2>1. ASSUME NEW i \in prune.doomed, RemoveFile(i) \/ RemoveDir(i) PROVE Owned'
    BY <2>1, Numbers, OwnedErased
  <2>2. UNCHANGED disk \/ \E i \in prune.doomed : RemoveFile(i) \/ RemoveDir(i)
    BY <1>4 DEF Prune, PruneStarts, PruneSkips, PrunePicks, PruneFile, PruneDir, PruneEnds, disk
  <2> QED
    BY <2>1, <2>2, OwnedQuiet DEF disk
<1>5. ASSUME Tick PROVE Owned'
  BY <1>5, OwnedQuiet DEF Tick, disk
<1> QED
  BY <1>3, <1>4, <1>5 DEF Next

-----------------------------------------------------------------------------
(* How far each run is with its case.                                        *)

\* A step of p does not touch the case of a run that shares it with nobody.
LEMMA CasesElsewhere ==
  ASSUME TypeOK, Cases, NEW p \in Runs, Create(p) \/ Killed(p),
         NEW q \in Runs \ {p}, pc'[q] \notin {"start", "missing"}, Apart(q)'
  PROVE  Made(q)'
<1>1. Local(p)
  BY StepIsLocal
<1>2. pc'[q] = pc[q] /\ id'[q] = id[q] /\ id[q] \in Ids /\ pruned' = pruned
  BY <1>1 DEF Local, TypeOK
<1>3. pc[p] = "start" \/ id[p] # id[q]
  BY <1>1, <1>2 DEF Local, Apart
<1>4. Apart(q)
  BY <1>1, <1>2, <1>3 DEF Local, Apart
<1>5. files'[id[q]] = files[id[q]] /\ (id[q] \in there <=> id[q] \in there')
  BY <1>1, <1>2, <1>3 DEF Local
<1>6. Made(q)
  BY <1>2, <1>4 DEF Cases
<1> QED
  BY <1>2, <1>5, <1>6 DEF Made, WholeBy

\* Nor does a run begin anew in a case that it did not share.
LEMMA CaseBefore ==
  ASSUME TypeOK, Cases, NEW p \in Runs, Create(p) \/ Killed(p), pc[p] # "start", Apart(p)'
  PROVE  /\ Made(p) /\ id'[p] = id[p] /\ id[p] \in Ids /\ pruned' = pruned
         /\ pc \in [Runs -> Stages] /\ files[id[p]] \in [Parts -> Writers]
<1>1. Local(p)
  BY StepIsLocal
<1>2. Apart(p) /\ pc[p] # "missing"
  BY <1>1 DEF Local, Apart
<1> QED
  BY <1>1, <1>2 DEF Cases, Local, TypeOK

\* The run begins: nobody's directory is in its way.
LEMMA CaseBegins ==
  ASSUME TypeOK, Owned, NEW p \in Runs, Stat(p), Apart(p)'
  PROVE  Made(p)'
<1>1. pc[p] = "start" /\ pc'[p] = "mkdir" /\ UNCHANGED <<there, files>>
  BY DEF Stat, At, Goto, TypeOK, disk
<1>2. Local(p)
  BY StepIsLocal DEF Create
<1>3. id'[p] \in Ids
  BY <1>1, TypeStep DEF TypeOK, Create
<1>4. id'[p] \notin there
  <2>1. ASSUME id'[p] \in there PROVE FALSE
    <3>1. PICK q \in Runs : id[q] = id'[p] /\ Begun(q)
      BY <2>1 DEF Owned
    <3>2. q # p
      BY <1>1, <3>1 DEF Begun
    <3> QED
      BY <1>2, <3>1, <3>2 DEF Apart, Local, Begun
  <2> QED
    BY <2>1
<1>5. files'[id'[p]]["summary.md"] # p
  BY <1>1, <1>3, <1>4, CaseAssumption DEF Owned, NoFiles, Parts, Nobody
<1> QED
  BY <1>1, <1>4, <1>5 DEF Made, Before

\* It writes one part after the other, or what it has written is not the
\* summary when it gives up.
LEMMA CaseWritten ==
  ASSUME TypeOK, Cases, NEW p \in Runs, WritePart(p) \/ WriteFails(p), Apart(p)'
  PROVE  Made(p)'
<1>1. /\ pc[p] \in Parts /\ there' = there
      /\ \A part \in Parts : files'[id[p]][part] \in {files[id[p]][part], p, "torn"}
      /\ files' \in [Ids -> [Parts -> Writers]]
  BY Writes
<1>2. /\ Made(p) /\ id'[p] = id[p] /\ id[p] \in Ids /\ pruned' = pruned
      /\ pc \in [Runs -> Stages] /\ files[id[p]] \in [Parts -> Writers]
  BY <1>1, CaseBefore DEF Create, Parts
<1>3. pc'[p] \notin {"mkdir", "failed"}
  BY <1>1, <1>2 DEF WritePart, WriteFails, Goto, AfterPart, Parts
<1>4. CASE id[p] \in pruned
  BY <1>2, <1>3, <1>4 DEF Made
<1>5. CASE id[p] \notin pruned /\ WritePart(p)
  <2>1. id[p] \in there /\ files[id[p]] = Written(p, Before[pc[p]])
    BY <1>1, <1>2, <1>5 DEF Made, Before, Parts
  <2>2. pc'[p] = AfterPart[pc[p]]
    BY <1>2, <1>5 DEF WritePart, Goto
  <2>3. files'[id[p]] = [files[id[p]] EXCEPT ![pc[p]] = p]
    BY <1>2, <1>5 DEF WritePart, Put, TypeOK
  <2>4. /\ Before[pc'[p]] = Before[pc[p]] \cup {pc[p]}
        /\ pc'[p] \in {"meta.json", "summary.md", "report"}
        /\ pc'[p] # "report" => "summary.md" \notin Before[pc'[p]]
        /\ pc'[p] = "report" => Before[pc'[p]] = Parts
    BY <1>1, <2>2 DEF Before, AfterPart, Parts
  <2>5. files'[id[p]] = Written(p, Before[pc'[p]])
    BY <2>1, <2>3, <2>4 DEF Written
  <2>6. files'[id[p]]["summary.md"] = p => pc'[p] = "report"
    BY <2>4, <2>5, CaseAssumption DEF Written, Parts, Nobody
  <2>7. pc'[p] = "report" => files'[id[p]] = [part \in Parts |-> p]
    BY <2>4, <2>5 DEF Written
  <2> QED
    BY <1>1, <1>2, <1>3, <2>1, <2>4, <2>5, <2>6, <2>7 DEF Made, WholeBy
<1>6. CASE id[p] \notin pruned /\ WriteFails(p)
  <2>1. files[id[p]] = Written(p, Before[pc[p]])
    BY <1>1, <1>2, <1>6 DEF Made, Before, Parts
  <2>2. files[id[p]]["summary.md"] # p
    BY <1>1, <2>1, CaseAssumption DEF Written, Before, Parts, Nobody
  <2>3. files'[id[p]]["summary.md"] # p
    BY <1>2, <1>6, <2>2, CaseAssumption DEF WriteFails, Put, TypeOK, Parts
  <2>4. pc'[p] = "scrub"
    BY <1>2, <1>6 DEF WriteFails, Goto
  <2> QED
    BY <1>2, <2>3, <2>4 DEF Made, Before
<1> QED
  BY <1>4, <1>5, <1>6

LEMMA CaseScrubbed ==
  ASSUME TypeOK, Cases, NEW p \in Runs, ScrubFile(p) \/ ScrubDir(p), Apart(p)'
  PROVE  Made(p)'
<1>1. pc[p] = "scrub"
  BY DEF ScrubFile, ScrubDir, At
<1>2. /\ Made(p) /\ id'[p] = id[p] /\ id[p] \in Ids /\ pruned' = pruned
      /\ pc \in [Runs -> Stages] /\ files[id[p]] \in [Parts -> Writers]
  BY <1>1, CaseBefore DEF Create
<1>3. id[p] \notin pruned => files'[id[p]]["summary.md"] # p
  <2>1. files'[id[p]]["summary.md"] \in {files[id[p]]["summary.md"], Nobody}
    BY <1>2, Erases DEF ScrubFile, ScrubDir, Parts
  <2> QED
    BY <1>1, <1>2, <2>1, CaseAssumption DEF Made, Nobody
<1>4. pc'[p] \in {"scrub", "failed"} /\ (pc'[p] = "failed" => id[p] \notin there')
  BY <1>1, <1>2 DEF ScrubFile, ScrubDir, RemoveDir, End, Goto
<1>5. pc'[p] # "mkdir" /\ pc'[p] \notin DOMAIN Before
  BY <1>4 DEF Before
<1> QED
  BY <1>2, <1>3, <1>4, <1>5 DEF Made

\* The other steps leave the case as it is, or make its directory.
LEMMA CaseOwn ==
  ASSUME TypeOK, Cases, Owned, NEW p \in Runs, Create(p) \/ Killed(p),
         pc'[p] \notin {"start", "missing"}, Apart(p)'
  PROVE  Made(p)'
<1>1. CASE Stat(p)
  BY <1>1, CaseBegins
<1>2. CASE WritePart(p) \/ WriteFails(p)
  BY <1>2, CaseWritten
<1>3. CASE ScrubFile(p) \/ ScrubDir(p)
  BY <1>3, CaseScrubbed
<1>4. CASE ~(Stat(p) \/ WritePart(p) \/ WriteFails(p) \/ ScrubFile(p) \/ ScrubDir(p))
  <2>1. pc[p] # "start"
    BY <1>4 DEF Create, StatFails, MakeDir, MakeDirFails, Moves, ReadFails, Compress,
       Transcribe, NoTranscript, ScrubFails, Report, Killed, At, Goto, TypeOK
  <2>2. /\ Made(p) /\ id'[p] = id[p] /\ id[p] \in Ids /\ pruned' = pruned
        /\ pc \in [Runs -> Stages] /\ files[id[p]] \in [Parts -> Writers]
    BY <2>1, CaseBefore
  <2>3. CASE MakeDir(p)
    <3>1. pc[p] = "mkdir" /\ pc'[p] = "read" /\ files' = files /\ id[p] \in there'
      BY <2>2, <2>3 DEF MakeDir, At, Goto
    <3>2. id[p] \notin there
      BY <2>2, <3>1 DEF Made
    <3>3. files[id[p]] = Written(p, {})
      BY <2>2, <3>2 DEF Owned, NoFiles, Written
    <3>4. files[id[p]]["summary.md"] # p
      BY <3>3, CaseAssumption DEF Written, Parts, Nobody
    <3> QED
      BY <2>2, <3>1, <3>3, <3>4 DEF Made, Before
  <2>4. ASSUME MakeDirFails(p) \/ ReadFails(p) \/ Compress(p) \/ Transcribe(p) \/ NoTranscript(p)
               \/ ScrubFails(p) \/ Report(p) \/ Killed(p)
        PROVE  Made(p)'
    <3>1. UNCHANGED <<there, files>>
      BY <2>4 DEF MakeDirFails, Moves, ReadFails, Compress, Transcribe, NoTranscript, ScrubFails,
         Report, Killed, disk
    <3>2. CASE MakeDirFails(p)
      BY <2>2, <3>1, <3>2 DEF MakeDirFails, Moves, At, Goto, Made, Before, WholeBy
    <3>3. CASE ReadFails(p)
      <4>1. pc[p] = "read" /\ pc'[p] = "scrub"
        BY <2>2, <3>3 DEF ReadFails, Moves, At, Goto
      <4>2. id[p] \notin pruned => files[id[p]]["summary.md"] # p
        BY <2>2, <4>1, CaseAssumption DEF Made, Before, Written, Parts, Nobody
      <4> QED
        BY <2>2, <3>1, <4>1, <4>2 DEF Made, Before
    <3>4. CASE Compress(p) \/ Transcribe(p) \/ NoTranscript(p)
      <4>1. pc[p] \in {"read", "ocr"} /\ pc'[p] \in {"ocr", "compressed.log"}
        BY <2>2, <3>4 DEF Compress, Transcribe, NoTranscript, Moves, At, Goto
      <4>2. Before[pc'[p]] = Before[pc[p]] /\ pc[p] \in DOMAIN Before
        BY <4>1 DEF Before
      <4> QED
        BY <2>2, <3>1, <4>1, <4>2 DEF Made, WholeBy
    <3>5. CASE ScrubFails(p)
      BY <2>2, <3>1, <3>5 DEF ScrubFails, End, At, Goto, Made, Before, WholeBy
    <3>6. CASE Report(p)
      <4>1. pc[p] = "report" /\ pc'[p] \in {"ok", "lowvalue"}
        BY <2>2, <3>6 DEF Report, End, At, Goto
      <4>2. Before[pc'[p]] = Before[pc[p]] /\ pc[p] \in DOMAIN Before
        BY <4>1 DEF Before
      <4> QED
        BY <2>2, <3>1, <4>1, <4>2 DEF Made, WholeBy
    <3>7. CASE Killed(p)
      BY <2>2, <3>1, <3>7 DEF Killed, End, Goto, Made, Before, WholeBy
    <3> QED
      BY <2>4, <3>2, <3>3, <3>4, <3>5, <3>6, <3>7
  <2>5. ~StatFails(p)
    BY <2>1 DEF StatFails, Moves, At
  <2> QED
    BY <1>4, <2>3, <2>4, <2>5 DEF Create
<1> QED
  BY <1>1, <1>2, <1>3, <1>4

\* A prune touches only what it has laid hands on before.
LEMMA CasesPruned ==
  ASSUME TypeOK, Clock, Cases, Prune
  PROVE  Cases'
<1> SUFFICES ASSUME NEW p \in Runs, pc'[p] \notin {"start", "missing"}, Apart(p)'
             PROVE  Made(p)'
  BY DEF Cases
<1>1. pc' = pc /\ id' = id /\ pruned \subseteq pruned'
  BY DEF Prune, PruneStarts, PruneSkips, PrunePicks, PruneFile, PruneDir, PruneEnds, RunsStand
<1>2. Made(p) /\ id[p] \in Ids
  BY <1>1 DEF Cases, Apart, TypeOK
<1>3. CASE UNCHANGED disk
  BY <1>1, <1>2, <1>3 DEF Made, WholeBy, disk
<1>4. ASSUME NEW i \in prune.doomed, RemoveFile(i) \/ RemoveDir(i)
      PROVE  Made(p)'
  <2>1. i \in Ids /\ i \in pruned
    BY Numbers DEF Clock
  <2>2. there' \subseteq there
    BY <1>4, <2>1, Erases
  <2>3. id[p] \notin pruned => files'[id[p]] = files[id[p]] /\ (id[p] \in there <=> id[p] \in there')
    BY <1>2, <1>4, <2>1, Erases
  <2> QED
    BY <1>1, <1>2, <2>2, <2>3 DEF Made, WholeBy
<1>5. UNCHANGED disk \/ \E i \in prune.doomed : RemoveFile(i) \/ RemoveDir(i)
  BY DEF Prune, PruneStarts, PruneSkips, PrunePicks, PruneFile, PruneDir, PruneEnds
<1> QED
  BY <1>3, <1>4, <1>5

-----------------------------------------------------------------------------
(* What the drafts say.                                                      *)

LEMMA NotesStep ==
  ASSUME TypeOK, Notes, NEW p \in Runs, Create(p) \/ Killed(p)
  PROVE  Notes'
<1>1. Local(p)
  BY StepIsLocal
<1>2. \A q \in Runs \ {p} : Noted(q)'
  BY <1>1 DEF Local, Notes, Noted, At
<1>3. Noted(p)
  BY DEF Notes
<1>4. ASSUME Compress(p) PROVE Noted(p)'
  <2>1. PICK t \in {"source", "processed", "marked"}, d \in Draft :
          /\ d = [text |-> t, fallback |-> t = "source", low |-> FALSE]
          /\ IF HasSentinel(id[p].source, t)
             THEN /\ draft' = [draft EXCEPT ![p] = [d EXCEPT !.text = "stripped", !.low = TRUE]]
                  /\ Goto(p, "ocr")
             ELSE /\ draft' = [draft EXCEPT ![p] = d]
                  /\ Goto(p, "compressed.log")
    <3>1. PICK d \in Compressed :
            IF HasSentinel(id[p].source, d.text)
            THEN /\ draft' = [draft EXCEPT ![p] = [d EXCEPT !.text = "stripped", !.low = TRUE]]
                 /\ Goto(p, "ocr")
            ELSE /\ draft' = [draft EXCEPT ![p] = d]
                 /\ Goto(p, "compressed.log")
      BY <1>4 DEF Compress
    <3>2. PICK t \in {"source", "processed", "marked"} :
            d = [text |-> t, fallback |-> t = "source", low |-> FALSE]
      BY DEF Compressed
    <3>3. d \in Draft
      <4>1. (t = "source") \in BOOLEAN /\ t \in Texts
        BY DEF Texts
      <4> QED
        BY <3>2, <4>1 DEF Draft
    <3>4. d.text = t
      BY <3>2
    <3> QED
      BY <3>1, <3>2, <3>3, <3>4
  <2>2. id' = id
    BY <1>4 DEF Compress
  <2>3. CASE HasSentinel(id[p].source, t)
    <3>1. /\ draft'[p] = [d EXCEPT !.text = "stripped", !.low = TRUE]
          /\ pc'[p] = "ocr"
      BY <2>1, <2>3 DEF Goto, TypeOK
    <3>2. draft'[p].text = "stripped" /\ draft'[p].low /\ draft'[p].fallback = d.fallback
      BY <2>1, <3>1 DEF Draft
    <3>3. d.fallback => id[p].source \in Marked
      BY <2>1, <2>3 DEF HasSentinel
    <3> QED
      BY <2>2, <3>1, <3>2, <3>3 DEF Noted, At, Parts
  <2>4. CASE ~HasSentinel(id[p].source, t)
    <3>1. draft'[p] = d /\ pc'[p] = "compressed.log"
      BY <2>1, <2>4 DEF Goto, TypeOK
    <3>2. d.text = t /\ ~d.low /\ (d.fallback => t = "source") /\ t \notin {"marked", "stripped"}
      BY <2>1, <2>4 DEF HasSentinel
    <3> QED
      BY <2>2, <3>1, <3>2 DEF Noted, At, Parts
  <2> QED
    BY <2>3, <2>4
<1>5. ASSUME Transcribe(p) PROVE Noted(p)'
  <2>1. /\ pc[p] = "ocr" /\ pc'[p] = "compressed.log" /\ id' = id
        /\ draft' = [draft EXCEPT ![p] = [draft[p] EXCEPT !.text = "ocr", !.low = FALSE]]
    BY <1>5 DEF Transcribe, At, Goto, TypeOK
  <2>2. draft[p] \in Draft /\ draft'[p] = [draft[p] EXCEPT !.text = "ocr", !.low = FALSE]
    BY <2>1 DEF TypeOK
  <2>3. draft'[p].text = "ocr" /\ ~draft'[p].low /\ draft'[p].fallback = draft[p].fallback
    BY <2>2 DEF Draft
  <2> QED
    BY <1>3, <2>1, <2>3 DEF Noted, At, Parts
<1>6. ASSUME ~Compress(p), ~Transcribe(p) PROVE Noted(p)'
  <2>1. CASE NoTranscript(p) \/ WritePart(p)
    <3>1. /\ draft' = draft /\ id' = id
          /\ pc[p] = "ocr" \/ pc[p] \in Parts \cup {"report"}
          /\ pc'[p] # "ocr"
      BY <2>1 DEF NoTranscript, Moves, WritePart, At, Goto, AfterPart, Parts, TypeOK
    <3> QED
      BY <1>3, <3>1 DEF Noted, At
  <2>2. ASSUME ~NoTranscript(p), ~WritePart(p)
        PROVE  pc'[p] \notin Parts \cup {"ocr", "report"}
    BY <1>6, <2>2 DEF Create, Stat, StatFails, MakeDir, MakeDirFails, Moves, ReadFails, WriteFails,
       ScrubFile, ScrubDir, ScrubFails, Report, Killed, End, At, Goto, Parts, TypeOK
  <2> QED
    BY <2>1, <2>2 DEF Noted, At
<1> QED
  BY <1>2, <1>4, <1>5, <1>6 DEF Notes

-----------------------------------------------------------------------------
(* The invariant.                                                            *)

LEMMA InvInit ==
  ASSUME Init
  PROVE  Inv
<1>1. TypeOK
  BY TypeInit
<1>2. Clock
  <2>1. \A p \in Runs : id[p] \in [second : {0}, source : Sources] /\ pc[p] = "start"
    BY DEF Init
  <2>2. \A p \in Runs : id[p].second = 0
    BY <2>1
  <2> QED
    BY <2>2 DEF Init, Clock, NoPrune
<1>3. Owned
  <2>1. \A i \in Ids, part \in Parts, p \in Runs : files[i][part] # p
    BY CaseAssumption DEF Init, NoFiles, Nobody
  <2> QED
    BY <2>1 DEF Init, Owned
<1>4. Cases
  BY DEF Init, Cases
<1>5. Notes
  BY DEF Init, Notes, Noted, At, Parts
<1> QED
  BY <1>1, <1>2, <1>3, <1>4, <1>5 DEF Inv

LEMMA InvNext ==
  ASSUME Inv, Next
  PROVE  Inv'
<1> USE DEF Inv
<1>1. ASSUME NEW p \in Runs, Create(p) \/ Killed(p) PROVE Inv'
  <2>1. TypeOK'
    BY <1>1, TypeStep
  <2>2. Clock'
    BY <1>1, <2>1, ClockStep
  <2>3. Cases'
    BY <1>1, CasesElsewhere, CaseOwn DEF Cases
  <2> QED
    BY <1>1, <2>1, <2>2, <2>3, OwnedKept, NotesStep
<1>2. ASSUME Prune PROVE Inv'
  <2>1. TypeOK'
    BY <1>2, TypePrune
  <2>2. Clock'
    BY <1>2, <2>1, ClockPrune
  <2>3. Notes'
    BY <1>2 DEF Prune, PruneStarts, PruneSkips, PrunePicks, PruneFile, PruneDir, PruneEnds, RunsStand,
       Notes, Noted, At
  <2> QED
    BY <1>2, <2>1, <2>2, <2>3, OwnedKept, CasesPruned
<1>3. ASSUME Tick PROVE Inv'
  <2>1. UNCHANGED <<there, files, touched, pc, id, draft, pruned>>
    BY <1>3 DEF Tick, disk
  <2>2. Cases' /\ Notes'
    BY <2>1 DEF Cases, Made, WholeBy, Apart, Notes, Noted, At
  <2> QED
    BY <1>3, <2>2, TypeTick, ClockTick, OwnedKept
<1> QED
  BY <1>1, <1>2, <1>3 DEF Next

LEMMA InvStutter ==
  ASSUME Inv, UNCHANGED vars
  PROVE  Inv'
BY DEF Inv, vars, disk, TypeOK, Clock, Owned, Begun, Cases, Made, WholeBy, Apart, Notes,
   Noted, At

\* The state of cases and runs is as it should be at every moment: how old
\* what a prune takes is, whose every file is, which files a run has written
\* where it stands (Create, Prune).
THEOREM CasesInOrder == Spec => []Inv
<1>1. Inv /\ [Next]_vars => Inv'
  BY InvNext, InvStutter
<1> QED
  BY <1>1, InvInit, PTL DEF Spec

\* A case that was reported is whole until a prune takes it, and no summary
\* stands in a case that is not whole, whatever the other runs, the failures
\* and the kills (Create).
THEOREM ReportedAlwaysWhole == Spec => []ReportedIsWhole
<1>1. ASSUME Inv PROVE ReportedIsWhole
  <2> SUFFICES ASSUME NEW p \in Runs, Alone(p), id[p] \notin pruned
               PROVE  /\ pc[p] \in Reported => WholeBy(p)
                      /\ files[id[p]]["summary.md"] = p => WholeBy(p)
    BY DEF ReportedIsWhole
  <2>1. id[p] \in Ids /\ "summary.md" \in Parts
    BY <1>1 DEF Inv, TypeOK, Parts
  <2>2. CASE pc[p] \in {"start", "missing"}
    BY <1>1, <2>1, <2>2 DEF Inv, Owned, Begun, Reported
  <2>3. CASE pc[p] \notin {"start", "missing"}
    <3>1. Made(p)
      BY <1>1, <2>3 DEF Inv, Cases, Apart, Alone
    <3>2. pc[p] \in Reported => pc[p] \in DOMAIN Before /\ Before[pc[p]] = Parts
      BY DEF Reported, Before
    <3>3. pc[p] \in Reported => WholeBy(p)
      BY <3>1, <3>2 DEF Made, Written, WholeBy
    <3> QED
      BY <3>1, <3>3 DEF Made
  <2> QED
    BY <2>2, <2>3
<1> QED
  BY <1>1, CasesInOrder, PTL

\* A run that reports an error leaves no directory behind, at whichever step it
\* failed (the deferred scrub of Create).
THEOREM FailureAlwaysScrubbed == Spec => []FailureLeavesNothing
<1>1. Inv => FailureLeavesNothing
  BY DEF Inv, Cases, Apart, Alone, Made, FailureLeavesNothing, At
<1> QED
  BY <1>1, CasesInOrder, PTL

\* For every age given to the prune, however long runs take: the prune takes no
\* case that is younger, being made or not (Prune and the mtime of a directory).
THEOREM YoungAlwaysSpared == Spec => []PruneSparesTheYoung
<1>1. ASSUME Inv PROVE PruneSparesTheYoung
  <2> SUFFICES ASSUME NEW p \in Runs, id[p] \in pruned
               PROVE  now - id[p].second >= MaxAge
    BY DEF PruneSparesTheYoung
  <2>1. id[p].second + MaxAge <= now
    BY <1>1 DEF Inv, Clock
  <2>2. id[p].second \in Int /\ MaxAge \in Int /\ now \in Int
    BY <1>1, Numbers DEF Inv
  <2> QED
    BY <2>1, <2>2
<1> QED
  BY <1>1, CasesInOrder, PTL

\* The notes of a case that is about to be reported are true: its fallback is
\* the source, and its low value the placeholder (Create, writeSummary).
THEOREM NotesAlwaysTrue == Spec => []NotesAreTrue
<1>1. Inv => NotesAreTrue
  BY DEF Inv, Notes, Noted, NotesAreTrue, At
<1> QED
  BY <1>1, CasesInOrder, PTL
=============================================================================
