-------------------------- MODULE LogRotationProofs --------------------------
(* What holds of the activity log for any number of processes, any calendar, *)
(* retention and number of records: nothing is lost, swept too soon, told    *)
(* twice or out of order, as long as no process rotates beside another one   *)
(* (LogRotation).                                                            *)
(*                                                                           *)
(* None of it is inductive by itself.  What a file may hold follows from     *)
(* where every process stands, and that a process which rotates is alone;    *)
(* Calm says so, Kept and Told what the files hold by then.                  *)
EXTENDS LogRotation, FiniteSetTheorems, SequenceTheorems, TLAPS

Opens == Names \cup {None, Unlinked}

TypeOK ==
  /\ day \in Days
  /\ there \in SUBSET Names
  /\ text \in [Names -> Seq(Record)]
  /\ mday \in Days
  /\ pc \in [Loggers -> Steps]
  /\ today \in [Loggers -> Days]
  /\ open \in [Loggers -> Opens]
  /\ openOn \in [Loggers -> Days]
  /\ label \in [Loggers -> Days]
  /\ data \in [Loggers -> Seq(Record)]
  /\ written \in SUBSET Record /\ IsFiniteSet(written)
  /\ swept \in SUBSET Record
  /\ trouble \in SUBSET Troubles

\* What each process has open where it stands.
Handles ==
  \A p \in Loggers :
    /\ At(p, "idle") => open[p] \in {None, Live}
    /\ At(p, "append") => open[p] = Live
    /\ At(p, "copy") => open[p] = label[p]
    /\ pc[p] \notin {"idle", "append", "copy"} => open[p] = None
    /\ open[p] = Live => Live \in there

\* A write takes in one midnight at most.
Dates ==
  /\ mday <= day
  /\ \A p \in Loggers :
       /\ pc[p] # "idle" => today[p] <= day /\ day <= today[p] + 1
       /\ At(p, "append") => openOn[p] = today[p]

\* The live file was last written on the day it was opened for or on the next,
\* and one that is older is not left open beside another process, unless that
\* has yet to look at the file.
Fresh ==
  \A p \in Loggers : open[p] = Live =>
    /\ mday <= openOn[p] + 1
    /\ \A q \in Loggers \ {p} : AtWork(q) =>
         (At(q, "stat") /\ today[q] = day) \/ day <= openOn[p] + 1

\* So no file holds a record that is much younger than its name says.
Young(s, d) == \A i \in DOMAIN s : s[i].day <= d

Labels ==
  /\ Young(text[Live], mday)
  /\ \A n \in Days : Young(text[n], n + 1)
  /\ \A p \in Loggers : Archiving(p) => mday <= label[p] + 1
  /\ \A p \in Loggers : pc[p] \in {"reopen", "copy"} => Young(data[p], label[p] + 1)

InTime == \A r \in swept : r.day + RetainDays <= day

Calm == ~Meeting /\ Handles /\ Dates /\ Fresh /\ Labels /\ InTime

\* Where the records are that a rotation is about to move.
Carried ==
  \A p \in Loggers :
    /\ At(p, "rename") => label[p] \notin there
    /\ pc[p] \in {"reopen", "copy"} => data[p] = text[Live]
    /\ pc[p] \in {"copy", "remove"} => label[p] \in there
    /\ At(p, "remove") => ToSet(text[Live]) \subseteq ToSet(text[label[p]])

Kept == Carried /\ written \subseteq Stored \cup swept

\* Records are numbered as they are written.
Numbered ==
  /\ \A r \in written : r.id <= Cardinality(written)
  /\ \A n \in Names : \A i \in DOMAIN text[n] : text[n][i].id <= Cardinality(written)

Increasing(s) == \A i, j \in DOMAIN s : i < j => s[i].id < s[j].id
Below(s, t) == \A i \in DOMAIN s, j \in DOMAIN t : s[i].id < t[j].id
Apart(s, t) == \A i \in DOMAIN s, j \in DOMAIN t : s[i] # t[j]

Told ==
  /\ \A n \in Names : Increasing(text[n])
  /\ \A m, n \in Days : m # n => Apart(text[m], text[n])
  /\ (\A p \in Loggers : ~At(p, "remove")) => \A n \in Days : Below(text[n], text[Live])

Inv ==
  /\ TypeOK
  /\ "overlap" \notin trouble => Calm
  /\ trouble \cap {"overlap", "diskfull"} = {} => Kept
  /\ trouble = {} => Numbered /\ Told

-----------------------------------------------------------------------------
(* A file that grows, and a process that is alone.                           *)

LEMMA NameFacts ==
  /\ Live \in Names /\ Days \subseteq Names /\ Live \notin Days
  /\ Days \subseteq Int /\ Names \subseteq Int
  /\ None \notin Names /\ Unlinked \notin Names /\ None # Unlinked
  /\ 1 \in Days
BY LogAssumption DEF Live, Names, Days, None, Unlinked

LEMMA Grown ==
  ASSUME NEW s \in Seq(Record), NEW t \in Seq(Record)
  PROVE  /\ s \o t \in Seq(Record)
         /\ \A i \in DOMAIN (s \o t) :
              \/ i \in DOMAIN s /\ (s \o t)[i] = s[i]
              \/ i > Len(s) /\ i - Len(s) \in DOMAIN t /\ (s \o t)[i] = t[i - Len(s)]
         /\ ToSet(s \o t) = ToSet(s) \cup ToSet(t)
<1> DEFINE u == s \o t
<1>1. u \in Seq(Record) /\ Len(u) = Len(s) + Len(t)
  OBVIOUS
<1>2. \A i \in DOMAIN u :
        \/ i \in DOMAIN s /\ u[i] = s[i]
        \/ i > Len(s) /\ i - Len(s) \in DOMAIN t /\ u[i] = t[i - Len(s)]
  BY <1>1
<1>3. \A i \in DOMAIN s : i \in DOMAIN u /\ u[i] = s[i]
  BY <1>1
<1>4. \A i \in DOMAIN t : Len(s) + i \in DOMAIN u /\ u[Len(s) + i] = t[i]
  BY <1>1
<1> HIDE DEF u
<1>5. ToSet(u) = ToSet(s) \cup ToSet(t)
  <2>1. ASSUME NEW i \in DOMAIN u PROVE u[i] \in ToSet(s) \cup ToSet(t)
    BY <1>2 DEF ToSet
  <2>2. ASSUME NEW i \in DOMAIN s PROVE s[i] \in ToSet(u)
    BY <1>3 DEF ToSet
  <2>3. ASSUME NEW i \in DOMAIN t PROVE t[i] \in ToSet(u)
    BY <1>4 DEF ToSet
  <2>4. ToSet(u) \subseteq ToSet(s) \cup ToSet(t)
    BY <2>1 DEF ToSet
  <2>5. ToSet(s) \subseteq ToSet(u) /\ ToSet(t) \subseteq ToSet(u)
    BY <2>2, <2>3 DEF ToSet
  <2> QED
    BY <2>4, <2>5
<1> QED
  BY <1>1, <1>2, <1>5 DEF u

LEMMA Typed ==
  ASSUME TypeOK, NEW p \in Loggers
  PROVE  /\ pc[p] \in Steps /\ today[p] \in Int /\ open[p] \in Opens
         /\ openOn[p] \in Int /\ label[p] \in Days /\ label[p] \in Int
         /\ data[p] \in Seq(Record) /\ day \in Int /\ mday \in Int
         /\ RetainDays \in Int
<1>1. pc[p] \in Steps /\ open[p] \in Opens /\ data[p] \in Seq(Record)
  BY DEF TypeOK
<1>2. today[p] \in Days /\ openOn[p] \in Days /\ label[p] \in Days /\ day \in Days /\ mday \in Days
  BY DEF TypeOK
<1>3. RetainDays \in Int
  BY LogAssumption
<1> QED
  BY <1>1, <1>2, <1>3, NameFacts

-----------------------------------------------------------------------------
(* The typing.                                                               *)

LEMMA ExtendTyped ==
  ASSUME TypeOK, NEW p \in Loggers, NEW more \in Seq(Record), Extend(p, more)
  PROVE  text' \in [Names -> Seq(Record)]
<1>1. CASE open[p] \in Names
  <2>1. text[open[p]] \in Seq(Record)
    BY <1>1 DEF TypeOK
  <2>2. text[open[p]] \o more \in Seq(Record)
    BY <2>1, Grown
  <2> QED
    BY <1>1, <2>2, NameFacts DEF TypeOK, Extend
<1>2. CASE open[p] \notin Names
  BY <1>2 DEF TypeOK, Extend
<1> QED
  BY <1>1, <1>2

LEMMA UnlinkTyped ==
  ASSUME TypeOK, NEW gone \in SUBSET Names, Unlink(gone)
  PROVE  /\ there' \in SUBSET Names
         /\ text' \in [Names -> Seq(Record)]
         /\ open' \in [Loggers -> Opens]
BY DEF TypeOK, Unlink, Opens

\* The record of a write carries the next number.
LEMMA RecordTyped ==
  ASSUME TypeOK, Cardinality(written) < MaxRecords
  PROVE  /\ Cardinality(written) \in Nat
         /\ [id |-> Cardinality(written) + 1, day |-> day] \in Record
         /\ <<[id |-> Cardinality(written) + 1, day |-> day]>> \in Seq(Record)
<1>1. Cardinality(written) \in Nat
  BY FS_CardinalityType DEF TypeOK
<1>2. Cardinality(written) + 1 \in 1..MaxRecords
  BY <1>1, LogAssumption
<1>3. [id |-> Cardinality(written) + 1, day |-> day] \in Record
  BY <1>2 DEF TypeOK, Record
<1> QED
  BY <1>1, <1>3

LEMMA NoteTyped ==
  ASSUME TypeOK, NEW what \in SUBSET Troubles, Note(what)
  PROVE  trouble' \in SUBSET Troubles
BY DEF TypeOK, Note, Troubles

LEMMA TypeKept ==
  ASSUME TypeOK, [Next]_vars
  PROVE  TypeOK'
<1> USE NameFacts DEF TypeOK, At, Goto, Steps
<1>1. ASSUME NEW p \in Loggers, Logging(p), Note({})
      PROVE  TypeOK'
  <2> trouble' \in SUBSET Troubles
    BY <1>1, NoteTyped DEF Troubles
  <2>1. CASE WriteOn(p)
    BY <2>1 DEF WriteOn, Write, files
  <2>2. CASE Rollover(p)
    BY <2>2 DEF Rollover, Write, files, Reset, Opens
  <2>3. CASE FirstOpen(p)
    BY <2>3 DEF FirstOpen, Write, files
  <2>4. CASE StatLive(p)
    <3>1. label' \in [Loggers -> Days] /\ pc' \in [Loggers -> Steps]
      <4>1. CASE Live \in there /\ mday # today[p]
        <5>1. label' = [label EXCEPT ![p] = mday] /\ pc' = [pc EXCEPT ![p] = "archive"]
          BY <2>4, <4>1 DEF StatLive
        <5>2. mday \in Days /\ "archive" \in Steps
          OBVIOUS
        <5> QED
          BY <5>1, <5>2
      <4>2. CASE ~(Live \in there /\ mday # today[p])
        BY <2>4, <4>2 DEF StatLive
      <4> QED
        BY <4>1, <4>2
    <3> QED
      BY <2>4, <3>1 DEF StatLive, files
  <2>5. CASE StatSource(p) \/ StatTarget(p)
    BY <2>5 DEF StatSource, StatTarget, Moves, files, own
  <2>6. CASE Rename(p)
    <3>1. label[p] \in Days
      OBVIOUS
    <3>2. there' \in SUBSET Names /\ text' \in [Names -> Seq(Record)]
      <4>1. there' = (there \ {Live}) \cup {label[p]}
        BY <2>6 DEF Rename
      <4>2. text' = [text EXCEPT ![label[p]] = text[Live], ![Live] = <<>>]
        BY <2>6 DEF Rename
      <4>3. text[Live] \in Seq(Record) /\ <<>> \in Seq(Record)
        OBVIOUS
      <4>4. [text EXCEPT ![label[p]] = text[Live]] \in [Names -> Seq(Record)]
        BY <4>3, <3>1
      <4>5. text' = [[text EXCEPT ![label[p]] = text[Live]] EXCEPT ![Live] = <<>>]
        BY <4>2
      <4> HIDE DEF TypeOK
      <4>6. text' \in [Names -> Seq(Record)]
        BY <4>3, <4>4, <4>5
      <4> QED
        BY <4>1, <4>6, <3>1 DEF TypeOK
    <3>3. open' \in [Loggers -> Opens]
      BY <2>6, <3>1 DEF Rename, Opens
    <3> QED
      BY <2>6, <3>2, <3>3 DEF Rename, own
  <2>7. CASE ReadLive(p)
    BY <2>7 DEF ReadLive, files
  <2>8. CASE OpenArchive(p)
    BY <2>8 DEF OpenArchive, files, own, Opens
  <2>9. CASE Copy(p)
    <3>1. text' \in [Names -> Seq(Record)]
      BY <2>9, ExtendTyped DEF Copy
    <3> QED
      BY <2>9, <3>1 DEF Copy, Copied, Opens
  <2>10. CASE RemoveLive(p)
    <3>1. there' \in SUBSET Names /\ text' \in [Names -> Seq(Record)] /\ open' \in [Loggers -> Opens]
      BY <2>10, UnlinkTyped DEF RemoveLive
    <3> QED
      BY <2>10, <3>1 DEF RemoveLive, own
  <2>11. CASE Sweep(p)
    <3>1. PICK gone \in SUBSET Old(p) :
            Unlink(gone) /\ swept' = swept \cup UNION {ToSet(text[n]) : n \in gone}
      BY <2>11 DEF Sweep
    <3>2. gone \subseteq Names
      BY <3>1 DEF Old
    <3>3. there' \in SUBSET Names /\ text' \in [Names -> Seq(Record)] /\ open' \in [Loggers -> Opens]
      BY <3>1, <3>2, UnlinkTyped
    <3>4. \A n \in gone : ToSet(text[n]) \subseteq Record
      <4>1. TAKE n \in gone
      <4>2. text[n] \in Seq(Record)
        BY <3>2
      <4>3. \A i \in DOMAIN text[n] : text[n][i] \in Record
        BY <4>2
      <4> QED
        BY <4>3 DEF ToSet
    <3>5. swept' \in SUBSET Record
      BY <3>1, <3>4
    <3> QED
      BY <2>11, <3>3, <3>5 DEF Sweep, Reset
  <2>12. CASE OpenLive(p)
    BY <2>12 DEF OpenLive, Opens
  <2>13. CASE AppendRecord(p)
    <3> DEFINE r == [id |-> Cardinality(written) + 1, day |-> day]
    <3>1. Extend(p, <<r>>) /\ written' = written \cup {r} /\ Cardinality(written) < MaxRecords
      BY <2>13 DEF AppendRecord
    <3>2. r \in Record /\ <<r>> \in Seq(Record)
      BY <3>1, RecordTyped
    <3>3. text' \in [Names -> Seq(Record)]
      BY <3>1, <3>2, ExtendTyped
    <3>4. written' \in SUBSET Record /\ IsFiniteSet(written')
      BY <3>1, <3>2, FS_AddElement
    <3> HIDE DEF r
    <3> QED
      BY <2>13, <3>3, <3>4 DEF AppendRecord, Reset, own
  <2>14. CASE WriteFails(p)
    BY <2>14 DEF WriteFails, files, own, Reset
  <2> QED
    BY <1>1, <2>1, <2>2, <2>3, <2>4, <2>5, <2>6, <2>7, <2>8, <2>9, <2>10, <2>11, <2>12,
       <2>13, <2>14 DEF Logging, Archive
<1>2. ASSUME NEW p \in Loggers, CopyFails(p) \/ ArchiveGivesUp(p) \/ Over(p)
      PROVE  TypeOK'
  <2>1. CASE CopyFails(p)
    <3>1. Note({"diskfull"}) /\ {"diskfull"} \in SUBSET Troubles
      BY <2>1 DEF CopyFails, Troubles
    <3>2. trouble' \in SUBSET Troubles
      BY <3>1, NoteTyped
    <3> QED
      BY <2>1, <3>2 DEF CopyFails, Copied, Opens
  <2>2. CASE ArchiveGivesUp(p)
    <3>1. \E what \in SUBSET Troubles : Note(what)
      <4>1. CASE At(p, "remove")
        BY <2>2, <4>1 DEF ArchiveGivesUp, Troubles
      <4>2. CASE ~At(p, "remove")
        BY <2>2, <4>2 DEF ArchiveGivesUp, Troubles
      <4> QED
        BY <4>1, <4>2
    <3>2. trouble' \in SUBSET Troubles
      BY <3>1, NoteTyped
    <3> QED
      BY <2>2, <3>2 DEF ArchiveGivesUp, files
  <2>3. CASE Over(p)
    <3>1. \E what \in SUBSET Troubles : Note(what)
      <4>1. CASE At(p, "idle")
        BY <2>3, <4>1 DEF Over, Troubles
      <4>2. CASE ~At(p, "idle")
        BY <2>3, <4>2 DEF Over, Troubles
      <4> QED
        BY <4>1, <4>2
    <3>2. trouble' \in SUBSET Troubles
      BY <3>1, NoteTyped
    <3> QED
      BY <2>3, <3>2 DEF Over, files, Reset, Opens
  <2> QED
    BY <1>2, <2>1, <2>2, <2>3
<1>3. CASE NextDay
  <2>1. day' \in Days
    BY <1>3, LogAssumption DEF NextDay, Days
  <2>2. trouble' \in SUBSET Troubles
    BY <1>3 DEF NextDay, Troubles
  <2> QED
    BY <1>3, <2>1, <2>2 DEF NextDay, files, own
<1>4. CASE UNCHANGED vars
  BY <1>4 DEF vars, files, own
<1> QED
  BY <1>1, <1>2, <1>3, <1>4 DEF Next

-----------------------------------------------------------------------------
(* Calm: while nobody rotates beside another, step by step.                  *)

LEMMA Company ==
  ASSUME ~Meeting, ~Meeting', NEW p \in Loggers, AtWork(p) \/ AtWork(p)',
         \A q \in Loggers \ {p} : pc'[q] = pc[q] /\ (open'[q] = None <=> open[q] = None)
  PROVE  \A q \in Loggers \ {p} :
           /\ ~Archiving(q)
           /\ Archiving(p) \/ Archiving(p)' => pc[q] = "idle" /\ open[q] = None
BY DEF Meeting, Archiving, AtWork

LEMMA Younger ==
  ASSUME NEW s \in Seq(Record), NEW d \in Int, NEW e \in Int, Young(s, d), d <= e
  PROVE  Young(s, e)
<1>1. ASSUME NEW i \in DOMAIN s PROVE s[i].day <= e
  <2>1. s[i] \in Record
    OBVIOUS
  <2>2. s[i].day \in Int
    BY <2>1, NameFacts DEF Record
  <2> QED
    BY <2>2 DEF Young
<1> QED
  BY <1>1 DEF Young

LEMMA YoungGrown ==
  ASSUME NEW s \in Seq(Record), NEW t \in Seq(Record), NEW d \in Int, Young(s, d), Young(t, d)
  PROVE  Young(s \o t, d)
<1>1. ASSUME NEW i \in DOMAIN (s \o t) PROVE (s \o t)[i].day <= d
  <2>1. CASE i \in DOMAIN s /\ (s \o t)[i] = s[i]
    BY <2>1 DEF Young
  <2>2. CASE i - Len(s) \in DOMAIN t /\ (s \o t)[i] = t[i - Len(s)]
    BY <2>2 DEF Young
  <2> QED
    BY <2>1, <2>2, Grown
<1> QED
  BY <1>1 DEF Young

LEMMA CalmWriteOn ==
  ASSUME TypeOK, Calm, NEW p \in Loggers, WriteOn(p), ~Meeting'
  PROVE  Calm'
<1> USE DEF At, Goto, Archiving, AtWork
<1> USE Typed, NameFacts
<1>1. \A q \in Loggers \ {p} : ~Archiving(q) /\ (Archiving(p) \/ Archiving(p)' => pc[q] = "idle" /\ open[q] = None)
  BY Company DEF WriteOn, Write, Calm, Handles, own, TypeOK
<1>2. Handles'
  BY <1>1 DEF WriteOn, Write, Calm, Handles, own, files, TypeOK
<1>3. Dates'
  BY <1>1 DEF WriteOn, Write, Calm, Dates, Handles, own, files, TypeOK, Reset
<1>4. Fresh'
  BY <1>1 DEF WriteOn, Write, Calm, Fresh, Dates, Handles, own, files, TypeOK, Reset
<1>5. Labels'
  BY <1>1 DEF WriteOn, Write, Calm, Labels, Fresh, Handles, own, files, TypeOK, Reset, Young
<1>6. InTime'
  BY DEF WriteOn, Write, Calm, InTime
<1> QED
  BY <1>2, <1>3, <1>4, <1>5, <1>6 DEF Calm

LEMMA CalmRollover ==
  ASSUME TypeOK, Calm, NEW p \in Loggers, Rollover(p), ~Meeting'
  PROVE  Calm'
<1> USE DEF At, Goto, Archiving, AtWork
<1> USE Typed, NameFacts
<1>1. \A q \in Loggers \ {p} : ~Archiving(q) /\ (Archiving(p) \/ Archiving(p)' => pc[q] = "idle" /\ open[q] = None)
  BY Company DEF Rollover, Write, Calm, Handles, own, TypeOK
<1>2. Handles'
  BY <1>1 DEF Rollover, Write, Calm, Handles, own, files, TypeOK
<1>3. Dates'
  BY <1>1 DEF Rollover, Write, Calm, Dates, Handles, own, files, TypeOK, Reset
<1>4. Fresh'
  BY <1>1 DEF Rollover, Write, Calm, Fresh, Dates, Handles, own, files, TypeOK, Reset
<1>5. Labels'
  BY <1>1 DEF Rollover, Write, Calm, Labels, Fresh, Handles, own, files, TypeOK, Reset, Young
<1>6. InTime'
  BY DEF Rollover, Write, Calm, InTime
<1> QED
  BY <1>2, <1>3, <1>4, <1>5, <1>6 DEF Calm

LEMMA CalmFirstOpen ==
  ASSUME TypeOK, Calm, NEW p \in Loggers, FirstOpen(p), ~Meeting'
  PROVE  Calm'
<1> USE DEF At, Goto, Archiving, AtWork
<1> USE Typed, NameFacts
<1>1. \A q \in Loggers \ {p} : ~Archiving(q) /\ (Archiving(p) \/ Archiving(p)' => pc[q] = "idle" /\ open[q] = None)
  BY Company DEF FirstOpen, Write, Calm, Handles, own, TypeOK
<1>2. Handles'
  BY <1>1 DEF FirstOpen, Write, Calm, Handles, own, files, TypeOK
<1>3. Dates'
  BY <1>1 DEF FirstOpen, Write, Calm, Dates, Handles, own, files, TypeOK, Reset
<1>4. Fresh'
  BY <1>1 DEF FirstOpen, Write, Calm, Fresh, Dates, Handles, own, files, TypeOK, Reset
<1>5. Labels'
  BY <1>1 DEF FirstOpen, Write, Calm, Labels, Fresh, Handles, own, files, TypeOK, Reset, Young
<1>6. InTime'
  BY DEF FirstOpen, Write, Calm, InTime
<1> QED
  BY <1>2, <1>3, <1>4, <1>5, <1>6 DEF Calm

LEMMA CalmStatLive ==
  ASSUME TypeOK, Calm, NEW p \in Loggers, StatLive(p), ~Meeting'
  PROVE  Calm'
<1> USE DEF At, Goto, Archiving, AtWork
<1> USE Typed, NameFacts
<1>1. \A q \in Loggers \ {p} : ~Archiving(q) /\ (Archiving(p) \/ Archiving(p)' => pc[q] = "idle" /\ open[q] = None)
  BY Company DEF StatLive, Calm, Handles, own, TypeOK
<1>2. Handles'
  BY <1>1 DEF StatLive, Calm, Handles, own, files, TypeOK
<1>3. Dates'
  BY <1>1 DEF StatLive, Calm, Dates, Handles, own, files, TypeOK, Reset
<1>4. Fresh' /\ Labels'
  <2>1. CASE Live \in there /\ mday # today[p]
    <3>1. pc' = [pc EXCEPT ![p] = "archive"] /\ label' = [label EXCEPT ![p] = mday]
      BY <2>1 DEF StatLive
    <3>2. open[p] = None
      BY DEF StatLive, Calm, Handles
    <3>3. \A q \in Loggers : open'[q] = None
      BY <1>1, <3>1, <3>2 DEF StatLive, TypeOK
    <3>4. Fresh'
      BY <3>3, NameFacts DEF Fresh
    <3>5. pc'[p] = "archive" /\ label'[p] = mday /\ \A q \in Loggers \ {p} : pc'[q] = pc[q] /\ ~Archiving(q)
      BY <1>1, <3>1 DEF TypeOK
    <3>6. Labels'
      BY <3>5 DEF StatLive, Calm, Labels, files
    <3> QED
      BY <3>4, <3>6
  <2>2. CASE ~(Live \in there /\ mday # today[p])
    <3>1. pc' = [pc EXCEPT ![p] = "open"] /\ label' = label
      BY <2>2 DEF StatLive
    <3>2. open[p] = None
      BY DEF StatLive, Calm, Handles
    <3>3. ASSUME NEW q \in Loggers, open[q] = Live
          PROVE  day <= openOn[q] + 1 /\ mday <= openOn[q] + 1
      BY <2>2, <3>2, <3>3 DEF StatLive, Calm, Fresh, Handles
    <3>4. Fresh'
      BY <3>3 DEF StatLive, Fresh, files
    <3>5. pc'[p] = "open" /\ \A q \in Loggers \ {p} : pc'[q] = pc[q]
      BY <3>1 DEF TypeOK
    <3>6. Labels'
      BY <3>1, <3>5 DEF StatLive, Calm, Labels, files
    <3> QED
      BY <3>4, <3>6
  <2> QED
    BY <2>1, <2>2
<1>6. InTime'
  BY DEF StatLive, Calm, InTime
<1> QED
  BY <1>2, <1>3, <1>4, <1>6 DEF Calm

LEMMA CalmStatSource ==
  ASSUME TypeOK, Calm, NEW p \in Loggers, StatSource(p), ~Meeting'
  PROVE  Calm'
<1> USE DEF At, Goto, Archiving, AtWork
<1> USE Typed, NameFacts
<1>1. \A q \in Loggers \ {p} : ~Archiving(q) /\ (Archiving(p) \/ Archiving(p)' => pc[q] = "idle" /\ open[q] = None)
  BY Company DEF StatSource, Moves, Calm, Handles, own, TypeOK
<1>2. Handles'
  BY <1>1 DEF StatSource, Moves, Calm, Handles, own, files, TypeOK
<1>3. Dates'
  BY <1>1 DEF StatSource, Moves, Calm, Dates, Handles, own, files, TypeOK, Reset
<1>4. Fresh'
  BY <1>1 DEF StatSource, Moves, Calm, Fresh, Dates, Handles, own, files, TypeOK, Reset
<1>5. Labels'
  BY <1>1 DEF StatSource, Moves, Calm, Labels, Fresh, Handles, own, files, TypeOK, Reset, Young
<1>6. InTime'
  BY DEF StatSource, Moves, Calm, InTime
<1> QED
  BY <1>2, <1>3, <1>4, <1>5, <1>6 DEF Calm

LEMMA CalmStatTarget ==
  ASSUME TypeOK, Calm, NEW p \in Loggers, StatTarget(p), ~Meeting'
  PROVE  Calm'
<1> USE DEF At, Goto, Archiving, AtWork
<1> USE Typed, NameFacts
<1>1. \A q \in Loggers \ {p} : ~Archiving(q) /\ (Archiving(p) \/ Archiving(p)' => pc[q] = "idle" /\ open[q] = None)
  BY Company DEF StatTarget, Moves, Calm, Handles, own, TypeOK
<1>2. Handles'
  BY <1>1 DEF StatTarget, Moves, Calm, Handles, own, files, TypeOK
<1>3. Dates'
  BY <1>1 DEF StatTarget, Moves, Calm, Dates, Handles, own, files, TypeOK, Reset
<1>4. Fresh'
  BY <1>1 DEF StatTarget, Moves, Calm, Fresh, Dates, Handles, own, files, TypeOK, Reset
<1>5. Labels'
  BY <1>1 DEF StatTarget, Moves, Calm, Labels, Fresh, Handles, own, files, TypeOK, Reset, Young
<1>6. InTime'
  BY DEF StatTarget, Moves, Calm, InTime
<1> QED
  BY <1>2, <1>3, <1>4, <1>5, <1>6 DEF Calm

LEMMA CalmReadLive ==
  ASSUME TypeOK, Calm, NEW p \in Loggers, ReadLive(p), ~Meeting'
  PROVE  Calm'
<1> USE DEF At, Goto, Archiving, AtWork
<1> USE Typed, NameFacts
<1>1. \A q \in Loggers \ {p} : ~Archiving(q) /\ (Archiving(p) \/ Archiving(p)' => pc[q] = "idle" /\ open[q] = None)
  BY Company DEF ReadLive, Calm, Handles, own, TypeOK
<1>2. Handles'
  BY <1>1 DEF ReadLive, Calm, Handles, own, files, TypeOK
<1>3. Dates'
  BY <1>1 DEF ReadLive, Calm, Dates, Handles, own, files, TypeOK, Reset
<1>4. Fresh'
  BY <1>1 DEF ReadLive, Calm, Fresh, Dates, Handles, own, files, TypeOK, Reset
<1>5. Labels'
  <2>1. data'[p] = text[Live] /\ mday <= label[p] + 1
    BY DEF ReadLive, Calm, Labels, TypeOK
  <2>2. text[Live] \in Seq(Record) /\ label[p] + 1 \in Int
    BY DEF TypeOK
  <2>3. Young(data'[p], label[p] + 1)
    BY <2>1, <2>2, Younger DEF Calm, Labels
  <2>4. pc'[p] = "reopen" /\ \A q \in Loggers \ {p} : pc'[q] = pc[q] /\ ~Archiving(q)
    BY <1>1 DEF ReadLive, TypeOK
  <2> QED
    BY <2>1, <2>3, <2>4 DEF ReadLive, Calm, Labels, files
<1>6. InTime'
  BY DEF ReadLive, Calm, InTime
<1> QED
  BY <1>2, <1>3, <1>4, <1>5, <1>6 DEF Calm

LEMMA CalmOpenArchive ==
  ASSUME TypeOK, Calm, NEW p \in Loggers, OpenArchive(p), ~Meeting'
  PROVE  Calm'
<1> USE DEF At, Goto, Archiving, AtWork
<1> USE Typed, NameFacts
<1>1. \A q \in Loggers \ {p} : ~Archiving(q) /\ (Archiving(p) \/ Archiving(p)' => pc[q] = "idle" /\ open[q] = None)
  BY Company DEF OpenArchive, Calm, Handles, own, TypeOK
<1>2. Handles'
  BY <1>1 DEF OpenArchive, Calm, Handles, own, files, TypeOK
<1>3. Dates'
  BY <1>1 DEF OpenArchive, Calm, Dates, Handles, own, files, TypeOK, Reset
<1>4. Fresh'
  BY <1>1 DEF OpenArchive, Calm, Fresh, Dates, Handles, own, files, TypeOK, Reset
<1>5. Labels'
  BY <1>1 DEF OpenArchive, Calm, Labels, Fresh, Handles, own, files, TypeOK, Reset, Young
<1>6. InTime'
  BY DEF OpenArchive, Calm, InTime
<1> QED
  BY <1>2, <1>3, <1>4, <1>5, <1>6 DEF Calm

LEMMA CalmRemoveLive ==
  ASSUME TypeOK, Calm, NEW p \in Loggers, RemoveLive(p), ~Meeting'
  PROVE  Calm'
<1> USE DEF At, Goto, Archiving, AtWork
<1> USE Typed, NameFacts
<1>1. \A q \in Loggers \ {p} : ~Archiving(q) /\ (Archiving(p) \/ Archiving(p)' => pc[q] = "idle" /\ open[q] = None)
  <2>1. \A q \in Loggers : open'[q] = None <=> open[q] = None
    BY DEF RemoveLive, Unlink, None, Unlinked, Live
  <2>2. pc[p] = "remove" /\ \A q \in Loggers \ {p} : pc'[q] = pc[q]
    BY DEF RemoveLive, TypeOK
  <2> QED
    BY <2>1, <2>2, Company DEF Calm
<1>2. Handles'
  BY <1>1 DEF RemoveLive, Unlink, Calm, Handles, own, files, TypeOK
<1>3. Dates'
  BY <1>1 DEF RemoveLive, Unlink, Calm, Dates, Handles, own, files, TypeOK, Reset
<1>4. Fresh'
  BY <1>1 DEF RemoveLive, Unlink, Calm, Fresh, Dates, Handles, own, files, TypeOK, Reset
<1>5. Labels'
  BY <1>1 DEF RemoveLive, Unlink, Calm, Labels, Fresh, Handles, own, files, TypeOK, Reset, Young
<1>6. InTime'
  BY DEF RemoveLive, Unlink, Calm, InTime
<1> QED
  BY <1>2, <1>3, <1>4, <1>5, <1>6 DEF Calm

LEMMA CalmArchiveGivesUp ==
  ASSUME TypeOK, Calm, NEW p \in Loggers, ArchiveGivesUp(p), ~Meeting'
  PROVE  Calm'
<1> USE DEF At, Goto, Archiving, AtWork
<1> USE Typed, NameFacts
<1>1. \A q \in Loggers \ {p} : ~Archiving(q) /\ (Archiving(p) \/ Archiving(p)' => pc[q] = "idle" /\ open[q] = None)
  BY Company DEF ArchiveGivesUp, Calm, Handles, own, TypeOK
<1>2. Handles'
  BY <1>1 DEF ArchiveGivesUp, Calm, Handles, own, files, TypeOK
<1>3. Dates'
  BY <1>1 DEF ArchiveGivesUp, Calm, Dates, Handles, own, files, TypeOK, Reset
<1>4. Fresh'
  BY <1>1 DEF ArchiveGivesUp, Calm, Fresh, Dates, Handles, own, files, TypeOK, Reset
<1>5. Labels'
  BY <1>1 DEF ArchiveGivesUp, Calm, Labels, Fresh, Handles, own, files, TypeOK, Reset, Young
<1>6. InTime'
  BY DEF ArchiveGivesUp, Calm, InTime
<1> QED
  BY <1>2, <1>3, <1>4, <1>5, <1>6 DEF Calm

LEMMA CalmOpenLive ==
  ASSUME TypeOK, Calm, NEW p \in Loggers, OpenLive(p), ~Meeting'
  PROVE  Calm'
<1> USE DEF At, Goto, Archiving, AtWork
<1> USE Typed, NameFacts
<1>1. \A q \in Loggers \ {p} : ~Archiving(q) /\ (Archiving(p) \/ Archiving(p)' => pc[q] = "idle" /\ open[q] = None)
  BY Company DEF OpenLive, Calm, Handles, own, TypeOK
<1>2. Handles'
  BY <1>1 DEF OpenLive, Calm, Handles, own, files, TypeOK
<1>3. Dates'
  BY <1>1 DEF OpenLive, Calm, Dates, Handles, own, files, TypeOK, Reset
<1>4. Fresh'
  BY <1>1 DEF OpenLive, Calm, Fresh, Dates, Handles, own, files, TypeOK, Reset
<1>5. Labels'
  <2>1. mday <= mday' /\ text' = text
    BY DEF OpenLive, Calm, Dates
  <2>2. text[Live] \in Seq(Record)
    BY DEF TypeOK
  <2>3. mday' \in Int
    BY DEF OpenLive
  <2>4. Young(text'[Live], mday')
    BY <2>1, <2>2, <2>3, Younger DEF Calm, Labels
  <2>5. pc'[p] = "append" /\ \A q \in Loggers \ {p} : pc'[q] = pc[q] /\ ~Archiving(q)
    BY <1>1 DEF OpenLive, TypeOK
  <2> QED
    BY <2>1, <2>4, <2>5 DEF OpenLive, Calm, Labels
<1>6. InTime'
  BY DEF OpenLive, Calm, InTime
<1> QED
  BY <1>2, <1>3, <1>4, <1>5, <1>6 DEF Calm

LEMMA CalmWriteFails ==
  ASSUME TypeOK, Calm, NEW p \in Loggers, WriteFails(p), ~Meeting'
  PROVE  Calm'
<1> USE DEF At, Goto, Archiving, AtWork
<1> USE Typed, NameFacts
<1>1. \A q \in Loggers \ {p} : ~Archiving(q) /\ (Archiving(p) \/ Archiving(p)' => pc[q] = "idle" /\ open[q] = None)
  BY Company DEF WriteFails, Calm, Handles, own, TypeOK
<1>2. Handles'
  BY <1>1 DEF WriteFails, Calm, Handles, own, files, TypeOK
<1>3. Dates'
  BY <1>1 DEF WriteFails, Calm, Dates, Handles, own, files, TypeOK, Reset
<1>4. Fresh'
  BY <1>1 DEF WriteFails, Calm, Fresh, Dates, Handles, own, files, TypeOK, Reset
<1>5. Labels'
  BY <1>1 DEF WriteFails, Calm, Labels, Fresh, Handles, own, files, TypeOK, Reset, Young
<1>6. InTime'
  BY DEF WriteFails, Calm, InTime
<1> QED
  BY <1>2, <1>3, <1>4, <1>5, <1>6 DEF Calm

LEMMA CalmOver ==
  ASSUME TypeOK, Calm, NEW p \in Loggers, Over(p), ~Meeting'
  PROVE  Calm'
<1> USE DEF At, Goto, Archiving, AtWork
<1> USE Typed, NameFacts
<1>1. \A q \in Loggers \ {p} : ~Archiving(q) /\ (Archiving(p) \/ Archiving(p)' => pc[q] = "idle" /\ open[q] = None)
  BY Company DEF Over, Calm, Handles, own, TypeOK
<1>2. Handles'
  BY <1>1 DEF Over, Calm, Handles, own, files, TypeOK
<1>3. Dates'
  BY <1>1 DEF Over, Calm, Dates, Handles, own, files, TypeOK, Reset
<1>4. Fresh'
  BY <1>1 DEF Over, Calm, Fresh, Dates, Handles, own, files, TypeOK, Reset
<1>5. Labels'
  BY <1>1 DEF Over, Calm, Labels, Fresh, Handles, own, files, TypeOK, Reset, Young
<1>6. InTime'
  BY DEF Over, Calm, InTime
<1> QED
  BY <1>2, <1>3, <1>4, <1>5, <1>6 DEF Calm

LEMMA CalmRename ==
  ASSUME TypeOK, Calm, NEW p \in Loggers, Rename(p), ~Meeting'
  PROVE  Calm'
<1> USE DEF At, Goto, Archiving, AtWork
<1> USE Typed, NameFacts
<1>1. \A q \in Loggers : open'[q] = None <=> open[q] = None
  BY DEF Rename, Opens, TypeOK
<1>2. pc[p] = "rename" /\ pc'[p] = "sweep" /\ \A q \in Loggers \ {p} : pc'[q] = pc[q]
  BY DEF Rename, TypeOK
<1>3. \A q \in Loggers \ {p} : ~Archiving(q) /\ pc[q] = "idle" /\ open[q] = None
  BY <1>1, <1>2, Company DEF Calm
<1>4. \A q \in Loggers : open'[q] = None
  BY <1>1, <1>2, <1>3 DEF Calm, Handles
<1>5. Handles'
  BY <1>2, <1>3, <1>4 DEF Handles
<1>6. Dates'
  BY <1>2, <1>3 DEF Rename, Calm, Dates
<1>7. Fresh'
  BY <1>4 DEF Fresh
<1>8. Labels'
  <2>1. text'[Live] = <<>> /\ text'[label[p]] = text[Live]
        /\ \A n \in Days \ {label[p]} : text'[n] = text[n]
    BY DEF Rename, TypeOK
  <2>2. text[Live] \in Seq(Record) /\ label[p] + 1 \in Int /\ mday <= label[p] + 1
    BY <1>2 DEF TypeOK, Calm, Labels
  <2>3. Young(text[Live], label[p] + 1)
    BY <2>2, Younger DEF Calm, Labels
  <2>4. Young(<<>>, mday')
    BY DEF Young
  <2>5. \A n \in Days : Young(text'[n], n + 1)
    BY <2>1, <2>3 DEF Calm, Labels
  <2> QED
    BY <1>2, <1>3, <2>1, <2>4, <2>5 DEF Labels
<1>9. InTime'
  BY DEF Rename, Calm, InTime
<1> QED
  BY <1>5, <1>6, <1>7, <1>8, <1>9 DEF Calm

\* The copy, whether the file takes it or not.
LEMMA CalmCopied ==
  ASSUME TypeOK, Calm, NEW p \in Loggers, Copied(p), UNCHANGED text \/ Extend(p, data[p]), ~Meeting'
  PROVE  Calm'
<1> USE DEF At, Goto, Archiving, AtWork
<1> USE Typed, NameFacts
<1>1. \A q \in Loggers \ {p} : ~Archiving(q) /\ pc[q] = "idle" /\ open[q] = None
  BY Company DEF Copied, Calm, TypeOK
<1>2. Handles'
  BY <1>1 DEF Copied, Calm, Handles, TypeOK
<1>3. Dates'
  BY <1>1 DEF Copied, Calm, Dates, TypeOK
<1>4. Fresh'
  BY <1>1 DEF Copied, Calm, Fresh, TypeOK
<1>5. Labels'
  <2>1. pc[p] = "copy" /\ pc'[p] = "remove" /\ open[p] = label[p]
        /\ \A q \in Loggers \ {p} : pc'[q] = pc[q]
    BY DEF Copied, Calm, Handles, TypeOK
  <2>2. Young(text'[Live], mday') /\ \A n \in Days : Young(text'[n], n + 1)
    <3>1. CASE UNCHANGED text
      BY <3>1 DEF Copied, Calm, Labels
    <3>2. CASE Extend(p, data[p])
      <4>1. text' = [text EXCEPT ![label[p]] = text[label[p]] \o data[p]]
        BY <2>1, <3>2 DEF Extend
      <4>2. text[label[p]] \in Seq(Record) /\ data[p] \in Seq(Record) /\ label[p] + 1 \in Int
        BY DEF TypeOK
      <4>3. Young(text[label[p]] \o data[p], label[p] + 1)
        BY <2>1, <4>2, YoungGrown DEF Calm, Labels
      <4>4. text'[Live] = text[Live] /\ text'[label[p]] = text[label[p]] \o data[p]
            /\ \A n \in Days \ {label[p]} : text'[n] = text[n]
        BY <4>1 DEF TypeOK
      <4> QED
        BY <4>3, <4>4 DEF Copied, Calm, Labels
    <3> QED
      BY <3>1, <3>2
  <2> QED
    BY <1>1, <2>1, <2>2 DEF Copied, Calm, Labels
<1>6. InTime'
  BY DEF Copied, Calm, InTime
<1> QED
  BY <1>2, <1>3, <1>4, <1>5, <1>6 DEF Calm

\* The sweep takes archives, none of which anybody has open, and no record that
\* is younger than a day more than its archive's name says.
LEMMA CalmSweep ==
  ASSUME TypeOK, Calm, NEW p \in Loggers, Sweep(p), ~Meeting'
  PROVE  Calm'
<1> USE DEF At, Goto, Archiving, AtWork
<1> USE Typed, NameFacts
<1>1. PICK gone \in SUBSET Old(p) :
        Unlink(gone) /\ swept' = swept \cup UNION {ToSet(text[n]) : n \in gone}
  BY DEF Sweep
<1>2. \A n \in gone : n \in Days /\ n < today[p] - RetainDays
  BY <1>1 DEF Old, TypeOK, Names
<1>3. pc[p] = "sweep" /\ pc'[p] = "open" /\ \A q \in Loggers \ {p} : pc'[q] = pc[q]
  BY DEF Sweep, TypeOK
<1>4. \A q \in Loggers : open'[q] = None <=> open[q] = None
  BY <1>1, <1>2 DEF Unlink
<1>5. \A q \in Loggers \ {p} : ~Archiving(q)
  BY <1>3, <1>4, Company DEF Calm
<1>6. \A q \in Loggers : open[q] \in {None, Live}
  BY <1>3, <1>5 DEF Calm, Handles, Steps
<1>7. open' = open
  <2>1. \A q \in Loggers : open[q] \notin gone
    BY <1>2, <1>6
  <2>2. open' = [q \in Loggers |-> open[q]]
    BY <1>1, <2>1 DEF Unlink
  <2> QED
    BY <2>2 DEF TypeOK
<1>8. Handles'
  BY <1>1, <1>2, <1>3, <1>5, <1>7 DEF Unlink, Calm, Handles
<1>9. Dates'
  BY <1>3 DEF Sweep, Calm, Dates
<1>10. Fresh'
  BY <1>3, <1>7 DEF Sweep, Calm, Fresh
<1>11. Labels'
  <2>1. text'[Live] = text[Live]
    BY <1>1, <1>2 DEF Unlink
  <2>2. ASSUME NEW n \in Days PROVE Young(text'[n], n + 1)
    <3>1. CASE n \in gone
      <4>1. text'[n] = <<>>
        BY <1>1, <3>1 DEF Unlink
      <4> QED
        BY <4>1 DEF Young
    <3>2. CASE n \notin gone
      BY <1>1, <3>2 DEF Unlink, Calm, Labels
    <3> QED
      BY <3>1, <3>2
  <2> QED
    BY <1>3, <1>5, <2>1, <2>2 DEF Sweep, Calm, Labels
<1>12. InTime'
  <2>1. ASSUME NEW n \in gone, NEW r \in ToSet(text[n]) PROVE r.day + RetainDays <= day
    <3>1. PICK i \in DOMAIN text[n] : r = text[n][i]
      BY <2>1 DEF ToSet
    <3>2. text[n] \in Seq(Record)
      BY <1>2 DEF TypeOK
    <3>3. r \in Record
      BY <3>1, <3>2
    <3>4. r.day \in Int /\ n \in Int
      BY <1>2, <3>3 DEF Record
    <3>5. r.day <= n + 1
      BY <1>2, <3>1 DEF Calm, Labels, Young
    <3>6. today[p] <= day
      BY <1>3 DEF Calm, Dates
    <3>7. today[p] \in Int /\ day \in Int /\ RetainDays \in Int /\ n < today[p] - RetainDays
      BY <1>2
    <3> QED
      BY <3>4, <3>5, <3>6, <3>7
  <2>2. \A r \in swept' : r \in swept \/ \E n \in gone : r \in ToSet(text[n])
    BY <1>1
  <2> QED
    BY <2>1, <2>2 DEF Sweep, Calm, InTime
<1> QED
  BY <1>8, <1>9, <1>10, <1>11, <1>12 DEF Calm

LEMMA CalmAppendRecord ==
  ASSUME TypeOK, Calm, NEW p \in Loggers, AppendRecord(p), ~Meeting'
  PROVE  Calm'
<1> USE DEF At, Goto, Archiving, AtWork
<1> USE Typed, NameFacts
<1>1. \A q \in Loggers \ {p} : ~Archiving(q)
  BY Company DEF AppendRecord, Calm, TypeOK
<1>2. Handles'
  BY <1>1 DEF AppendRecord, Calm, Handles, own, TypeOK
<1>3. Dates'
  <2>1. mday' <= day
    BY DEF AppendRecord, Calm, Dates
  <2>2. pc'[p] = "idle" /\ \A q \in Loggers \ {p} : pc'[q] = pc[q] /\ today'[q] = today[q]
    BY DEF AppendRecord, TypeOK, Reset
  <2> QED
    BY <2>1, <2>2 DEF AppendRecord, Calm, Dates, own
<1>4. Fresh'
  BY <1>1 DEF AppendRecord, Calm, Fresh, Dates, Handles, own, TypeOK
<1>5. Labels'
  <2> DEFINE r == [id |-> Cardinality(written) + 1, day |-> day]
  <2>1. Extend(p, <<r>>) /\ Cardinality(written) < MaxRecords
    BY DEF AppendRecord
  <2>2. <<r>> \in Seq(Record) /\ Young(<<r>>, day)
    BY <2>1, RecordTyped DEF Young
  <2> HIDE DEF r
  <2>3. open[p] = Live /\ mday' = day /\ mday <= day
    BY DEF AppendRecord, Calm, Handles, Dates
  <2>4. text' = [text EXCEPT ![Live] = text[Live] \o <<r>>]
    BY <2>1, <2>3 DEF Extend
  <2>5. text[Live] \in Seq(Record)
    BY DEF TypeOK
  <2>6. Young(text[Live], day)
    BY <2>3, <2>5, Younger DEF Calm, Labels
  <2>7. Young(text[Live] \o <<r>>, day)
    BY <2>2, <2>5, <2>6, YoungGrown
  <2>8. Young(text'[Live], mday') /\ \A n \in Days : text'[n] = text[n]
    BY <2>3, <2>4, <2>7 DEF TypeOK
  <2>9. pc'[p] = "idle" /\ \A q \in Loggers \ {p} : pc'[q] = pc[q]
    BY DEF AppendRecord, TypeOK
  <2> QED
    BY <1>1, <2>8, <2>9 DEF Calm, Labels
<1>6. InTime'
  BY DEF AppendRecord, Calm, InTime
<1> QED
  BY <1>2, <1>3, <1>4, <1>5, <1>6 DEF Calm

\* Nobody is beside another at midnight, and nobody is in a write two days long.
LEMMA CalmNextDay ==
  ASSUME TypeOK, Calm, NextDay, ~Beside
  PROVE  Calm'
<1> USE DEF At
<1> USE Typed, NameFacts
<1>1. Handles'
  BY DEF NextDay, Calm, Handles, files, own
<1>2. Dates'
  <2>1. day' = day + 1 /\ UNCHANGED <<mday, pc, today, openOn>>
    BY DEF NextDay, files, own
  <2>2. day \in Int /\ mday \in Int /\ mday <= day
    BY DEF TypeOK, Calm, Dates
  <2>3. ASSUME NEW q \in Loggers, pc[q] # "idle" PROVE today[q] = day
    BY <2>3 DEF NextDay
  <2> QED
    BY <2>1, <2>2, <2>3 DEF Calm, Dates
<1>3. Fresh'
  <2>1. ASSUME NEW q \in Loggers, open[q] = Live PROVE \A r \in Loggers \ {q} : ~AtWork(r)
    BY <2>1 DEF Beside, AtWork
  <2> QED
    BY <2>1 DEF NextDay, Calm, Fresh, files, own, AtWork
<1>4. Labels'
  BY DEF NextDay, Calm, Labels, files, own, Archiving
<1>5. InTime'
  <2>1. swept' = swept /\ day' = day + 1
    BY DEF NextDay
  <2>2. ASSUME NEW r \in swept PROVE r.day + RetainDays <= day + 1
    <3>1. r \in Record
      BY DEF TypeOK
    <3>2. r.day \in Int /\ RetainDays \in Int /\ day \in Int
      <4>1. r.day \in Days
        BY <3>1 DEF Record
      <4>2. day \in Days
        BY DEF TypeOK
      <4>3. RetainDays \in Int
        BY LogAssumption
      <4> QED
        BY <4>1, <4>2, <4>3, NameFacts
    <3> QED
      BY <3>2 DEF Calm, InTime
  <2> QED
    BY <2>1, <2>2 DEF InTime
<1>6. ~Meeting'
  BY DEF NextDay, Calm, Meeting, Archiving, AtWork
<1> QED
  BY <1>1, <1>2, <1>3, <1>4, <1>5, <1>6 DEF Calm

\* A step after which nobody has rotated beside another.
LEMMA CalmKept ==
  ASSUME TypeOK, "overlap" \notin trouble => Calm, [Next]_vars, "overlap" \notin trouble'
  PROVE  Calm /\ Calm'
<1>1. ASSUME NEW what, Note(what) PROVE Calm /\ ~Meeting'
  BY <1>1 DEF Note
<1>2. ASSUME NEW p \in Loggers, Logging(p), Note({}) PROVE Calm /\ Calm'
  <2>1. Calm /\ ~Meeting'
    BY <1>1, <1>2
  <2>2. CASE Copy(p)
    BY <2>1, <2>2, CalmCopied DEF Copy
  <2> QED
    BY <1>2, <2>1, <2>2, CalmWriteOn, CalmRollover, CalmFirstOpen, CalmStatLive, CalmStatSource,
       CalmStatTarget, CalmRename, CalmReadLive, CalmOpenArchive, CalmRemoveLive, CalmSweep,
       CalmOpenLive, CalmAppendRecord, CalmWriteFails DEF Logging, Archive
<1>3. ASSUME NEW p \in Loggers, CopyFails(p) \/ ArchiveGivesUp(p) \/ Over(p) PROVE Calm /\ Calm'
  <2>1. Calm /\ ~Meeting'
    BY <1>1, <1>3 DEF CopyFails, ArchiveGivesUp, Over
  <2>2. CASE CopyFails(p)
    BY <2>1, <2>2, CalmCopied DEF CopyFails
  <2> QED
    BY <1>3, <2>1, <2>2, CalmArchiveGivesUp, CalmOver
<1>4. CASE NextDay
  <2>1. Calm /\ ~Beside
    BY <1>4 DEF NextDay
  <2> QED
    BY <1>4, <2>1, CalmNextDay
<1>5. CASE UNCHANGED vars
  <2>1. Calm
    BY <1>5 DEF vars
  <2> QED
    BY <1>5, <2>1 DEF vars, files, own, Calm, Meeting, AtWork, Archiving, At, Handles, Dates,
       Fresh, Labels, Young, InTime
<1> QED
  BY <1>2, <1>3, <1>4, <1>5 DEF Next

-----------------------------------------------------------------------------
(* Nothing is lost.                                                          *)

LEMMA InStored ==
  \A r : r \in Stored <=> \E n \in there : r \in ToSet(text[n])
BY DEF Stored

LEMMA InStoredNext ==
  \A r : r \in Stored' <=> \E n \in there' : r \in ToSet(text'[n])
BY DEF Stored

\* One process writes: no other one rotates, before or behind its step.
LEMMA Others ==
  ASSUME TypeOK, ~Meeting, ~Meeting', NEW p \in Loggers,
         Logging(p) \/ Copied(p) \/ ArchiveGivesUp(p) \/ Over(p)
  PROVE  \A q \in Loggers \ {p} : pc'[q] = pc[q] /\ ~Archiving(q) /\ ~Archiving(q)'
<1>1. \E l \in Steps : pc' = [pc EXCEPT ![p] = l] /\ (pc[p] # "idle" \/ l # "idle" \/ AtWork(p))
  BY DEF Logging, Archive, WriteOn, Rollover, FirstOpen, Write, StatLive, StatSource, StatTarget,
         Moves, Rename, ReadLive, OpenArchive, Copy, Copied, RemoveLive, Sweep, OpenLive,
         AppendRecord, WriteFails, ArchiveGivesUp, Over, At, Goto, Steps
<1>2. PICK l \in Steps : pc' = [pc EXCEPT ![p] = l] /\ (pc[p] # "idle" \/ l # "idle" \/ AtWork(p))
  BY <1>1
<1>3. pc'[p] = l /\ \A q \in Loggers \ {p} : pc'[q] = pc[q]
  BY <1>2 DEF TypeOK
<1>4. AtWork(p) \/ AtWork(p)'
  BY <1>2, <1>3 DEF AtWork
<1>5. ASSUME NEW q \in Loggers \ {p} PROVE ~Archiving(q) /\ ~Archiving(q)'
  BY <1>3, <1>4 DEF Meeting, Archiving
<1> QED
  BY <1>3, <1>5

LEMMA KeptStill ==
  ASSUME TypeOK, Calm, Calm', Kept, NEW p \in Loggers,
         Logging(p) \/ ArchiveGivesUp(p) \/ Over(p), UNCHANGED <<there, text, written, swept>>
  PROVE  Kept'
<1> USE DEF At, Goto
<1>1. \A q \in Loggers \ {p} : ~Archiving(q)'
  BY Others DEF Calm
<1>2. ASSUME /\ pc'[p] = "rename" => label'[p] \notin there
             /\ pc'[p] \in {"reopen", "copy"} => data'[p] = text[Live]
             /\ pc'[p] \in {"copy", "remove"} => label'[p] \in there
             /\ pc'[p] = "remove" => ToSet(text[Live]) \subseteq ToSet(text[label'[p]])
      PROVE  Kept'
  BY <1>1, <1>2 DEF Kept, Carried, Archiving, Stored
<1>3. CASE pc'[p] \notin {"rename", "reopen", "copy", "remove"}
  BY <1>2, <1>3
<1>4. CASE StatTarget(p)
  BY <1>2, <1>4 DEF StatTarget, Moves, own, TypeOK
<1>5. CASE ReadLive(p)
  BY <1>2, <1>5 DEF ReadLive, TypeOK
<1>6. CASE OpenArchive(p)
  BY <1>2, <1>6 DEF OpenArchive, own, TypeOK, Kept, Carried
<1>7. CASE Copy(p)
  <2>1. pc[p] = "copy" /\ pc'[p] = "remove" /\ label' = label /\ open[p] = label[p] /\ label[p] \in Days
    BY <1>7 DEF Copy, Copied, Calm, Handles, TypeOK
  <2>2. text[label[p]] \in Seq(Record) /\ data[p] \in Seq(Record) /\ label[p] # Unlinked
    BY <2>1, NameFacts DEF TypeOK
  <2>3. text[label[p]] = text[label[p]] \o data[p]
    BY <1>7, <2>1, <2>2, NameFacts DEF Copy, Extend, TypeOK
  <2>4. ToSet(data[p]) \subseteq ToSet(text[label[p]])
    BY <2>2, <2>3, Grown
  <2> QED
    BY <1>2, <2>1, <2>4 DEF Kept, Carried
<1> QED
  <2>1. CASE Logging(p)
    BY <2>1, <1>3, <1>4, <1>5, <1>6, <1>7
       DEF Logging, Archive, WriteOn, Rollover, FirstOpen, Write, StatLive, StatSource, Moves,
           Rename, RemoveLive, Sweep, OpenLive, AppendRecord, WriteFails, TypeOK
  <2>2. CASE ArchiveGivesUp(p) \/ Over(p)
    BY <2>2, <1>3 DEF ArchiveGivesUp, Over, TypeOK
  <2> QED
    BY <2>1, <2>2

LEMMA KeptRename ==
  ASSUME TypeOK, Calm, Calm', Kept, NEW p \in Loggers, Rename(p)
  PROVE  Kept'
<1> USE DEF At, Goto
<1>1. \A q \in Loggers \ {p} : ~Archiving(q)'
  BY Others DEF Calm, Logging, Archive
<1>2. pc[p] = "rename" /\ pc'[p] = "sweep"
  BY DEF Rename, TypeOK
<1>3. Carried'
  BY <1>1, <1>2 DEF Carried, Archiving
<1>4. label[p] \in Days /\ label[p] \notin there /\ Live \in there
  BY <1>2 DEF Rename, Kept, Carried, TypeOK
<1>5. there' = (there \ {Live}) \cup {label[p]} /\ written' = written /\ swept' = swept
  BY DEF Rename
<1>6. text'[label[p]] = text[Live] /\ \A n \in Names \ {Live, label[p]} : text'[n] = text[n]
  BY <1>4, NameFacts DEF Rename, TypeOK
<1>7. ASSUME NEW n \in there, NEW r \in ToSet(text[n]) PROVE r \in Stored'
  <2>1. CASE n = Live
    BY <2>1, <1>5, <1>6, <1>7, InStoredNext
  <2>2. CASE n # Live
    BY <2>2, <1>4, <1>5, <1>6, <1>7, InStoredNext DEF TypeOK
  <2> QED
    BY <2>1, <2>2
<1>8. Stored \subseteq Stored'
  BY <1>7, InStored
<1> QED
  BY <1>3, <1>5, <1>8 DEF Kept

LEMMA KeptCopy ==
  ASSUME TypeOK, Calm, Calm', Kept, NEW p \in Loggers, Copy(p)
  PROVE  /\ Kept'
         /\ label[p] \in Days
         /\ text' = [text EXCEPT ![label[p]] = text[label[p]] \o text[Live]]
         /\ pc[p] = "copy" /\ pc'[p] = "remove"
<1> USE DEF At, Goto
<1>1. \A q \in Loggers \ {p} : ~Archiving(q)'
  BY Others DEF Calm, Logging, Archive
<1>2. /\ pc[p] = "copy" /\ pc'[p] = "remove" /\ open[p] = label[p] /\ label[p] \in Days
      /\ UNCHANGED <<there, label, written, swept>>
  BY DEF Copy, Copied, Calm, Handles, TypeOK
<1>3. data[p] = text[Live] /\ label[p] \in there
  BY <1>2 DEF Kept, Carried
<1>4. text' = [text EXCEPT ![label[p]] = text[label[p]] \o text[Live]]
  BY <1>2, <1>3, NameFacts DEF Copy, Extend
<1>5. text[label[p]] \in Seq(Record) /\ text[Live] \in Seq(Record)
  BY <1>2, NameFacts DEF TypeOK
<1>6. /\ text'[Live] = text[Live]
      /\ text'[label[p]] = text[label[p]] \o text[Live]
      /\ \A n \in Names \ {label[p]} : text'[n] = text[n]
  BY <1>2, <1>4, NameFacts DEF TypeOK
<1>7. ToSet(text'[label[p]]) = ToSet(text[label[p]]) \cup ToSet(text[Live])
  BY <1>5, <1>6, Grown
<1>8. Carried'
  BY <1>1, <1>2, <1>3, <1>6, <1>7 DEF Carried, Archiving
<1>9. ASSUME NEW n \in there, NEW r \in ToSet(text[n]) PROVE r \in Stored'
  <2>1. r \in ToSet(text'[n])
    BY <1>6, <1>7, <1>9 DEF TypeOK
  <2> QED
    BY <1>2, <2>1, InStoredNext
<1>10. Stored \subseteq Stored'
  BY <1>9, InStored
<1> QED
  BY <1>2, <1>4, <1>8, <1>10 DEF Kept

LEMMA KeptRemoveLive ==
  ASSUME TypeOK, Calm, Calm', Kept, NEW p \in Loggers, RemoveLive(p)
  PROVE  Kept'
<1> USE DEF At, Goto
<1>1. \A q \in Loggers \ {p} : ~Archiving(q)'
  BY Others DEF Calm, Logging, Archive
<1>2. pc[p] = "remove" /\ pc'[p] = "sweep" /\ UNCHANGED <<written, swept>>
  BY DEF RemoveLive, TypeOK
<1>3. Carried'
  BY <1>1, <1>2 DEF Carried, Archiving
<1>4. label[p] \in there \ {Live} /\ ToSet(text[Live]) \subseteq ToSet(text[label[p]])
  BY <1>2, NameFacts DEF Kept, Carried, TypeOK
<1>5. there' = there \ {Live} /\ \A n \in there \ {Live} : text'[n] = text[n]
  BY DEF RemoveLive, Unlink, TypeOK
<1>6. ASSUME NEW n \in there, NEW r \in ToSet(text[n]) PROVE r \in Stored'
  BY <1>4, <1>5, <1>6, InStoredNext
<1>7. Stored \subseteq Stored'
  BY <1>6, InStored
<1> QED
  BY <1>2, <1>3, <1>7 DEF Kept

LEMMA KeptSweep ==
  ASSUME TypeOK, Calm, Calm', Kept, NEW p \in Loggers, Sweep(p)
  PROVE  Kept'
<1> USE DEF At, Goto
<1>1. \A q \in Loggers \ {p} : ~Archiving(q)'
  BY Others DEF Calm, Logging
<1>2. pc'[p] = "open" /\ written' = written
  BY DEF Sweep, TypeOK
<1>3. Carried'
  BY <1>1, <1>2 DEF Carried, Archiving
<1>4. PICK gone \in SUBSET Old(p) :
        Unlink(gone) /\ swept' = swept \cup UNION {ToSet(text[n]) : n \in gone}
  BY DEF Sweep
<1>5. there' = there \ gone /\ \A n \in there \ gone : text'[n] = text[n]
  BY <1>4 DEF Unlink, TypeOK
<1>6. ASSUME NEW n \in there, NEW r \in ToSet(text[n]) PROVE r \in Stored' \cup swept'
  <2>1. CASE n \in gone
    BY <1>4, <1>6, <2>1
  <2>2. CASE n \notin gone
    BY <1>5, <1>6, <2>2, InStoredNext
  <2> QED
    BY <2>1, <2>2
<1>7. Stored \cup swept \subseteq Stored' \cup swept'
  BY <1>4, <1>6, InStored
<1> QED
  BY <1>2, <1>3, <1>7 DEF Kept

LEMMA KeptOpenLive ==
  ASSUME TypeOK, Calm, Calm', Kept, NEW p \in Loggers, OpenLive(p)
  PROVE  Kept'
<1> USE DEF At, Goto
<1>1. \A q \in Loggers \ {p} : ~Archiving(q)'
  BY Others DEF Calm, Logging
<1>2. pc'[p] = "append" /\ there' = there \cup {Live} /\ UNCHANGED <<text, written, swept>>
  BY DEF OpenLive, TypeOK
<1>3. Carried'
  BY <1>1, <1>2 DEF Carried, Archiving
<1>4. Stored \subseteq Stored'
  BY <1>2, InStored, InStoredNext
<1> QED
  BY <1>2, <1>3, <1>4 DEF Kept

LEMMA AppendsToLive ==
  ASSUME TypeOK, Calm, NEW p \in Loggers, AppendRecord(p)
  PROVE  LET r == [id |-> Cardinality(written) + 1, day |-> day]
         IN  /\ r \in Record /\ <<r>> \in Seq(Record) /\ Cardinality(written) \in Nat
             /\ text' = [text EXCEPT ![Live] = text[Live] \o <<r>>]
             /\ written' = written \cup {r}
             /\ Live \in there
<1> DEFINE r == [id |-> Cardinality(written) + 1, day |-> day]
<1>1. Extend(p, <<r>>) /\ written' = written \cup {r} /\ Cardinality(written) < MaxRecords
  BY DEF AppendRecord
<1>2. r \in Record /\ <<r>> \in Seq(Record) /\ Cardinality(written) \in Nat
  BY <1>1, RecordTyped
<1> HIDE DEF r
<1>3. open[p] = Live /\ Live \in there
  BY DEF AppendRecord, Calm, Handles, At
<1>4. text' = [text EXCEPT ![Live] = text[Live] \o <<r>>]
  BY <1>1, <1>3, NameFacts DEF Extend
<1> QED
  BY <1>1, <1>2, <1>3, <1>4 DEF r

LEMMA KeptAppendRecord ==
  ASSUME TypeOK, Calm, Calm', Kept, NEW p \in Loggers, AppendRecord(p)
  PROVE  Kept'
<1> USE DEF At, Goto
<1> DEFINE r == [id |-> Cardinality(written) + 1, day |-> day]
<1>1. \A q \in Loggers \ {p} : ~Archiving(q)'
  BY Others DEF Calm, Logging
<1>2. pc'[p] = "idle" /\ UNCHANGED <<there, swept>>
  BY DEF AppendRecord, TypeOK
<1>3. Carried'
  BY <1>1, <1>2 DEF Carried, Archiving
<1>4. /\ <<r>> \in Seq(Record) /\ written' = written \cup {r} /\ Live \in there
      /\ text' = [text EXCEPT ![Live] = text[Live] \o <<r>>]
  BY AppendsToLive
<1> HIDE DEF r
<1>5. text'[Live] = text[Live] \o <<r>> /\ \A n \in Names \ {Live} : text'[n] = text[n]
  BY <1>4, NameFacts DEF TypeOK
<1>6. text[Live] \in Seq(Record)
  BY NameFacts DEF TypeOK
<1>7. ToSet(text'[Live]) = ToSet(text[Live]) \cup ToSet(<<r>>)
  BY <1>4, <1>5, <1>6, Grown
<1>8. r \in ToSet(<<r>>)
  BY DEF ToSet
<1>9. r \in Stored'
  BY <1>2, <1>4, <1>7, <1>8, InStoredNext
<1>10. ASSUME NEW n \in there, NEW s \in ToSet(text[n]) PROVE s \in Stored'
  <2>1. s \in ToSet(text'[n])
    BY <1>5, <1>7, <1>10 DEF TypeOK
  <2> QED
    BY <1>2, <2>1, InStoredNext
<1>11. Stored \subseteq Stored'
  BY <1>10, InStored
<1> QED
  BY <1>2, <1>3, <1>4, <1>9, <1>11 DEF Kept

LEMMA KeptKept ==
  ASSUME TypeOK, Calm, Calm', Kept, [Next]_vars, "diskfull" \notin trouble'
  PROVE  Kept'
<1>1. ASSUME NEW p \in Loggers, Logging(p) PROVE Kept'
  <2>1. CASE UNCHANGED <<there, text, written, swept>>
    BY <1>1, <2>1, KeptStill
  <2>2. ASSUME ~(UNCHANGED <<there, text, written, swept>>)
        PROVE  \/ Rename(p) \/ Copy(p) \/ RemoveLive(p) \/ Sweep(p) \/ OpenLive(p) \/ AppendRecord(p)
    BY <1>1, <2>2 DEF Logging, Archive, WriteOn, Rollover, FirstOpen, Write, StatLive, StatSource,
       StatTarget, Moves, ReadLive, OpenArchive, WriteFails, files
  <2> QED
    BY <2>1, <2>2, KeptRename, KeptCopy, KeptRemoveLive, KeptSweep, KeptOpenLive, KeptAppendRecord
<1>2. ASSUME NEW p \in Loggers, CopyFails(p) \/ ArchiveGivesUp(p) \/ Over(p) PROVE Kept'
  <2>1. ~CopyFails(p)
    BY DEF CopyFails, Note
  <2> QED
    BY <1>2, <2>1, KeptStill DEF ArchiveGivesUp, Over, files
<1>3. CASE NextDay
  BY <1>3 DEF NextDay, files, own, Kept, Carried, Stored, At
<1>4. CASE UNCHANGED vars
  BY <1>4 DEF vars, files, own, Kept, Carried, Stored, At
<1> QED
  BY <1>1, <1>2, <1>3, <1>4 DEF Next

-----------------------------------------------------------------------------
(* Nothing is told twice or out of order.                                    *)

LEMMA IncreasingGrown ==
  ASSUME NEW s \in Seq(Record), NEW t \in Seq(Record), Increasing(s), Increasing(t), Below(s, t)
  PROVE  Increasing(s \o t)
<1> SUFFICES ASSUME NEW i \in DOMAIN (s \o t), NEW j \in DOMAIN (s \o t), i < j
             PROVE  (s \o t)[i].id < (s \o t)[j].id
  BY DEF Increasing
<1> DEFINE In(k) == k \in DOMAIN s /\ (s \o t)[k] = s[k]
           Past(k) == k > Len(s) /\ k - Len(s) \in DOMAIN t /\ (s \o t)[k] = t[k - Len(s)]
<1>1. (In(i) \/ Past(i)) /\ (In(j) \/ Past(j))
  BY Grown
<1>2. CASE In(i) /\ In(j)
  BY <1>2 DEF Increasing
<1>3. CASE In(i) /\ Past(j)
  BY <1>3 DEF Below
<1>4. CASE Past(i) /\ Past(j)
  <2>1. i \in Int /\ j \in Int /\ Len(s) \in Int
    BY <1>4
  <2>2. i - Len(s) < j - Len(s)
    BY <2>1
  <2> QED
    BY <1>4, <2>2 DEF Increasing
<1>5. ~(Past(i) /\ In(j))
  OBVIOUS
<1> QED
  BY <1>1, <1>2, <1>3, <1>4, <1>5

LEMMA GrownBelow ==
  ASSUME NEW s \in Seq(Record), NEW t \in Seq(Record), NEW u
  PROVE  /\ Below(s, u) /\ Below(t, u) => Below(s \o t, u)
         /\ Below(u, s) /\ Below(u, t) => Below(u, s \o t)
         /\ Apart(s, u) /\ Apart(t, u) => Apart(s \o t, u)
<1>1. ASSUME NEW i \in DOMAIN (s \o t)
      PROVE  (\E k \in DOMAIN s : (s \o t)[i] = s[k]) \/ (\E k \in DOMAIN t : (s \o t)[i] = t[k])
  BY Grown
<1> DEFINE w == s \o t
<1>2. ASSUME NEW i \in DOMAIN w
      PROVE  (\E k \in DOMAIN s : w[i] = s[k]) \/ (\E k \in DOMAIN t : w[i] = t[k])
  BY <1>1
<1> HIDE DEF w
<1>3. Below(s, u) /\ Below(t, u) => Below(w, u)
  BY <1>2 DEF Below
<1>4. Below(u, s) /\ Below(u, t) => Below(u, w)
  BY <1>2 DEF Below
<1>5. Apart(s, u) /\ Apart(t, u) => Apart(w, u)
  BY <1>2 DEF Apart
<1> QED
  BY <1>3, <1>4, <1>5 DEF w

LEMMA BelowApart ==
  ASSUME NEW s \in Seq(Record), NEW t \in Seq(Record), Below(s, t)
  PROVE  Apart(s, t) /\ Apart(t, s)
<1>1. ASSUME NEW i \in DOMAIN s, NEW j \in DOMAIN t PROVE s[i] # t[j]
  <2>1. s[i] \in Record /\ t[j] \in Record
    OBVIOUS
  <2>2. s[i].id \in Int /\ t[j].id \in Int
    BY <2>1 DEF Record
  <2>3. s[i].id < t[j].id
    BY DEF Below
  <2> QED
    BY <2>2, <2>3
<1> QED
  BY <1>1 DEF Apart

\* No file of another day, and not the live one, tells any more than it did.
LEMMA ToldStill ==
  ASSUME TypeOK, Numbered, Told, UNCHANGED <<written, text>>,
         (\A p \in Loggers : ~At(p, "remove"))' => \A p \in Loggers : ~At(p, "remove")
  PROVE  (Numbered /\ Told)'
BY DEF Numbered, Told, Increasing, Below, Apart, At

\* Files that lost what they told tell nothing wrong.
LEMMA ToldLess ==
  ASSUME TypeOK, Numbered, Told, UNCHANGED written,
         \A n \in Names : text'[n] \in {text[n], <<>>},
         \/ (\A p \in Loggers : ~At(p, "remove"))' => \A p \in Loggers : ~At(p, "remove")
         \/ text'[Live] = <<>>
  PROVE  (Numbered /\ Told)'
<1> USE NameFacts
<1>1. Numbered'
  BY DEF Numbered
<1>2. ASSUME NEW n \in Names PROVE Increasing(text'[n])
  <2>1. CASE text'[n] = text[n]
    BY <2>1 DEF Told
  <2>2. CASE text'[n] = <<>>
    BY <2>2 DEF Increasing
  <2> QED
    BY <2>1, <2>2
<1>3. ASSUME NEW m \in Days, NEW n \in Days, m # n PROVE Apart(text'[m], text'[n])
  <2>1. CASE text'[m] = text[m] /\ text'[n] = text[n]
    BY <1>3, <2>1 DEF Told
  <2>2. CASE text'[m] = <<>> \/ text'[n] = <<>>
    BY <2>2 DEF Apart
  <2> QED
    BY <2>1, <2>2
<1>4. ASSUME (\A p \in Loggers : ~At(p, "remove"))', NEW n \in Days
      PROVE  Below(text'[n], text'[Live])
  <2>1. CASE text'[n] = text[n] /\ text'[Live] = text[Live] /\ \A p \in Loggers : ~At(p, "remove")
    BY <2>1 DEF Told
  <2>2. CASE text'[n] = <<>> \/ text'[Live] = <<>>
    BY <2>2 DEF Below
  <2> QED
    BY <1>4, <2>1, <2>2
<1> QED
  BY <1>1, <1>2, <1>3, <1>4 DEF Told, Increasing, Below, Apart, At

LEMMA ToldRename ==
  ASSUME TypeOK, Calm, Calm', Numbered, Told, NEW p \in Loggers, Rename(p)
  PROVE  (Numbered /\ Told)'
<1> USE NameFacts DEF At, Goto
<1>1. /\ label[p] \in Days /\ pc[p] = "rename" /\ written' = written
      /\ text'[label[p]] = text[Live] /\ text'[Live] = <<>>
      /\ \A n \in Days \ {label[p]} : text'[n] = text[n]
  BY DEF Rename, TypeOK
<1>2. \A q \in Loggers : ~At(q, "remove")
  BY <1>1, Others DEF Calm, Logging, Archive, Archiving
<1>3. \A n \in Names : text[n] \in Seq(Record)
  BY DEF TypeOK
<1>4. Numbered'
  <2>1. \A n \in Names : \A i \in DOMAIN text'[n] : text'[n][i].id <= Cardinality(written)
    BY <1>1 DEF Numbered, Names
  <2> QED
    BY <1>1, <2>1 DEF Numbered
<1>5. \A n \in Names : Increasing(text'[n])
  BY <1>1 DEF Told, Increasing, Names
<1>6. ASSUME NEW m \in Days, NEW n \in Days, m # n PROVE Apart(text'[m], text'[n])
  <2>1. CASE m = label[p]
    <3>1. Below(text[n], text[Live])
      BY <1>2 DEF Told
    <3> QED
      BY <1>1, <1>3, <1>6, <2>1, <3>1, BelowApart
  <2>2. CASE n = label[p]
    <3>1. Below(text[m], text[Live])
      BY <1>2 DEF Told
    <3> QED
      BY <1>1, <1>3, <1>6, <2>2, <3>1, BelowApart
  <2>3. CASE m # label[p] /\ n # label[p]
    BY <1>1, <1>6, <2>3 DEF Told
  <2> QED
    BY <2>1, <2>2, <2>3
<1>7. \A n \in Days : Below(text'[n], text'[Live])
  BY <1>1 DEF Below
<1> QED
  BY <1>4, <1>5, <1>6, <1>7 DEF Told, Increasing, Below, Apart

LEMMA ToldCopy ==
  ASSUME TypeOK, Calm, Calm', Kept, Numbered, Told, NEW p \in Loggers, Copy(p)
  PROVE  (Numbered /\ Told)'
<1> USE NameFacts DEF At, Goto
<1> DEFINE l == label[p]
<1>1. /\ l \in Days /\ pc[p] = "copy" /\ pc'[p] = "remove"
      /\ text' = [text EXCEPT ![l] = text[l] \o text[Live]]
  BY KeptCopy
<1>2. written' = written
  BY DEF Copy, Copied
<1> HIDE DEF l
<1>3. \A n \in Names : text[n] \in Seq(Record)
  BY DEF TypeOK
<1>4. text'[l] = text[l] \o text[Live] /\ \A n \in Names \ {l} : text'[n] = text[n]
  BY <1>1 DEF TypeOK
<1>5. \A q \in Loggers : ~At(q, "remove")
  BY <1>1, Others DEF Calm, Logging, Archive, Archiving
<1>6. \A n \in Days : Below(text[n], text[Live])
  BY <1>5 DEF Told
<1>7. Numbered'
  <2>1. ASSUME NEW n \in Names, NEW i \in DOMAIN text'[n]
        PROVE  text'[n][i].id <= Cardinality(written)
    <3>1. CASE n = l
      <4>1. (\E k \in DOMAIN text[l] : text'[n][i] = text[l][k])
            \/ (\E k \in DOMAIN text[Live] : text'[n][i] = text[Live][k])
        BY <1>1, <1>3, <1>4, <3>1, Grown
      <4> QED
        BY <1>1, <4>1 DEF Numbered
    <3>2. CASE n # l
      BY <1>4, <3>2 DEF Numbered
    <3> QED
      BY <3>1, <3>2
  <2> QED
    BY <1>2, <2>1 DEF Numbered
<1>8. ASSUME NEW n \in Names PROVE Increasing(text'[n])
  <2>1. CASE n = l
    BY <1>1, <1>3, <1>4, <1>6, <2>1, IncreasingGrown DEF Told
  <2>2. CASE n # l
    BY <1>4, <2>2 DEF Told
  <2> QED
    BY <2>1, <2>2
<1>9. ASSUME NEW n \in Days, n # l PROVE Apart(text'[l], text'[n])
  <2>1. Apart(text[l], text[n])
    BY <1>1, <1>9 DEF Told
  <2>2. Apart(text[Live], text[n])
    BY <1>3, <1>6, BelowApart
  <2>3. Apart(text[l] \o text[Live], text[n])
    BY <1>1, <1>3, <2>1, <2>2, GrownBelow
  <2> QED
    BY <1>4, <1>9, <2>3
<1>10. ASSUME NEW m \in Days, NEW n \in Days, m # n PROVE Apart(text'[m], text'[n])
  <2>1. CASE m = l
    BY <1>9, <1>10, <2>1
  <2>2. CASE n = l
    <3>1. Apart(text'[l], text'[m])
      BY <1>9, <1>10, <2>2
    <3> QED
      BY <2>2, <3>1 DEF Apart
  <2>3. CASE m # l /\ n # l
    BY <1>4, <1>10, <2>3 DEF Told
  <2> QED
    BY <2>1, <2>2, <2>3
<1>11. ~(\A q \in Loggers : ~At(q, "remove"))'
  BY <1>1
<1> QED
  BY <1>7, <1>8, <1>10, <1>11 DEF Told, Increasing, Below, Apart

LEMMA ToldAppendRecord ==
  ASSUME TypeOK, Calm, Calm', Numbered, Told, NEW p \in Loggers, AppendRecord(p)
  PROVE  (Numbered /\ Told)'
<1> USE NameFacts DEF At, Goto
<1> DEFINE r == [id |-> Cardinality(written) + 1, day |-> day]
           c == Cardinality(written)
<1>1. /\ r \in Record /\ <<r>> \in Seq(Record) /\ c \in Nat /\ r.id = c + 1
      /\ text' = [text EXCEPT ![Live] = text[Live] \o <<r>>]
      /\ written' = written \cup {r}
  BY AppendsToLive
<1>2. pc[p] = "append"
  BY DEF AppendRecord
<1> HIDE DEF r
<1>3. \A n \in Names : text[n] \in Seq(Record)
  BY DEF TypeOK
<1>4. text'[Live] = text[Live] \o <<r>> /\ \A n \in Days : text'[n] = text[n]
  BY <1>1 DEF TypeOK
<1>5. Cardinality(written') = c + 1
  <2>1. \A s \in written : s.id <= c /\ s.id \in Int
    BY DEF Numbered, TypeOK, Record
  <2>2. r \notin written
    BY <1>1, <2>1
  <2> QED
    BY <1>1, <2>2, FS_AddElement DEF TypeOK
<1>6. ASSUME NEW n \in Names, NEW i \in DOMAIN text[n] PROVE text[n][i].id \in Int /\ text[n][i].id <= c
  <2>1. text[n][i] \in Record
    BY <1>3
  <2> QED
    BY <2>1 DEF Record, Numbered
<1> HIDE DEF c
<1>7. Below(text[Live], <<r>>) /\ \A n \in Days : Below(text[n], <<r>>)
  <2>1. ASSUME NEW n \in Names PROVE Below(text[n], <<r>>)
    BY <1>1, <1>6 DEF Below
  <2> QED
    BY <2>1
<1>8. Numbered'
  <2>1. \A s \in written' : s.id <= c + 1
    <3>1. \A s \in written : s.id <= c /\ s.id \in Int
      BY DEF Numbered, TypeOK, Record, c
    <3> QED
      BY <1>1, <3>1
  <2>2. ASSUME NEW n \in Names, NEW i \in DOMAIN text'[n] PROVE text'[n][i].id <= c + 1
    <3>1. CASE n = Live
      <4>1. (\E k \in DOMAIN text[Live] : text'[n][i] = text[Live][k]) \/ text'[n][i] = r
        BY <1>1, <1>3, <1>4, <3>1, Grown
      <4> QED
        BY <1>1, <1>6, <4>1
    <3>2. CASE n # Live
      BY <1>1, <1>4, <1>6, <3>2 DEF Names
    <3> QED
      BY <3>1, <3>2
  <2> QED
    BY <1>5, <2>1, <2>2 DEF Numbered
<1>9. ASSUME NEW n \in Names PROVE Increasing(text'[n])
  <2>1. CASE n = Live
    <3>1. Increasing(<<r>>)
      BY DEF Increasing
    <3> QED
      BY <1>1, <1>3, <1>4, <1>7, <2>1, <3>1, IncreasingGrown DEF Told
  <2>2. CASE n # Live
    BY <1>4, <2>2 DEF Told, Names
  <2> QED
    BY <2>1, <2>2
<1>10. \A m, n \in Days : m # n => Apart(text'[m], text'[n])
  BY <1>4 DEF Told
<1>11. \A q \in Loggers : ~At(q, "remove")
  BY <1>2, Others DEF Calm, Logging, Archiving
<1>12. ASSUME NEW n \in Days PROVE Below(text'[n], text'[Live])
  <2>1. Below(text[n], text[Live])
    BY <1>11 DEF Told
  <2>2. Below(text[n], text[Live] \o <<r>>)
    BY <1>1, <1>3, <1>7, <2>1, GrownBelow
  <2> QED
    BY <1>4, <2>2
<1> QED
  BY <1>8, <1>9, <1>10, <1>12 DEF Told, Increasing, Below, Apart

LEMMA ToldKept ==
  ASSUME TypeOK, Calm, Calm', Kept, Numbered, Told, [Next]_vars, trouble' = {}
  PROVE  (Numbered /\ Told)'
<1> USE DEF At
<1>1. ASSUME NEW p \in Loggers, Logging(p) PROVE (Numbered /\ Told)'
  <2>1. CASE Rename(p)
    BY <2>1, ToldRename
  <2>2. CASE Copy(p)
    BY <2>2, ToldCopy
  <2>3. CASE RemoveLive(p)
    <3>1. written' = written /\ text'[Live] = <<>> /\ \A n \in Names : text'[n] \in {text[n], <<>>}
      BY <2>3, NameFacts DEF RemoveLive, Unlink
    <3> QED
      BY <3>1, ToldLess
  <2>4. CASE Sweep(p)
    <3>1. written' = written /\ \A n \in Names : text'[n] \in {text[n], <<>>}
      BY <2>4 DEF Sweep, Unlink
    <3>2. pc[p] = "sweep" /\ \A q \in Loggers \ {p} : pc'[q] = pc[q]
      BY <2>4 DEF Sweep, Goto, TypeOK
    <3> QED
      BY <3>1, <3>2, ToldLess
  <2>5. CASE AppendRecord(p)
    BY <2>5, ToldAppendRecord
  <2>6. ASSUME ~Rename(p), ~Copy(p), ~RemoveLive(p), ~Sweep(p), ~AppendRecord(p)
        PROVE  (Numbered /\ Told)'
    <3>1. UNCHANGED <<written, text>> /\ pc[p] # "remove"
      BY <1>1, <2>6 DEF Logging, Archive, WriteOn, Rollover, FirstOpen, Write, StatLive, StatSource,
         StatTarget, Moves, ReadLive, OpenArchive, OpenLive, WriteFails, files
    <3>2. \A q \in Loggers \ {p} : pc'[q] = pc[q]
      BY <1>1, Others DEF Calm
    <3> QED
      BY <3>1, <3>2, ToldStill
  <2> QED
    BY <2>1, <2>2, <2>3, <2>4, <2>5, <2>6
<1>2. ASSUME NEW p \in Loggers, CopyFails(p) \/ ArchiveGivesUp(p) \/ Over(p)
      PROVE  (Numbered /\ Told)'
  <2>1. ~CopyFails(p)
    BY DEF CopyFails, Note
  <2>2. pc[p] # "remove"
    BY <1>2, <2>1 DEF ArchiveGivesUp, Over, Note
  <2>3. \A q \in Loggers \ {p} : pc'[q] = pc[q]
    BY <1>2, <2>1, Others DEF Calm
  <2>4. UNCHANGED <<written, text>>
    BY <1>2, <2>1 DEF ArchiveGivesUp, Over, files
  <2> QED
    BY <2>2, <2>3, <2>4, ToldStill
<1>3. CASE NextDay
  BY <1>3, ToldStill DEF NextDay, files
<1>4. CASE UNCHANGED vars
  BY <1>4, ToldStill DEF vars, files
<1> QED
  BY <1>1, <1>2, <1>3, <1>4 DEF Next

-----------------------------------------------------------------------------
(* The theorems.                                                             *)

LEMMA InitInv == Init => Inv
<1> SUFFICES ASSUME Init PROVE Inv
  OBVIOUS
<1> USE NameFacts DEF Init, At
<1>1. TypeOK
  <2>1. IsFiniteSet(written)
    BY FS_EmptySet
  <2> QED
    BY <2>1 DEF TypeOK, Steps, Opens
<1>2. Calm
  BY DEF Calm, Meeting, AtWork, Archiving, Handles, Dates, Fresh, Labels, Young, InTime, Names
<1>3. Kept
  BY DEF Kept, Carried
<1>4. Numbered /\ Told
  BY DEF Numbered, Told, Increasing, Below, Apart
<1> QED
  BY <1>1, <1>2, <1>3, <1>4 DEF Inv

\* Trouble is never forgotten.
LEMMA TroubleGrows ==
  ASSUME [Next]_vars
  PROVE  trouble \subseteq trouble'
BY DEF Next, Note, CopyFails, ArchiveGivesUp, Over, NextDay, vars

\* Every process keeps to its course, and the files hold what Calm, Kept and
\* Told say as long as nothing happens that may cost or repeat records.
THEOREM LogInOrder == Spec => []Inv
<1>1. Inv /\ [Next]_vars => Inv'
  <2> SUFFICES ASSUME Inv, [Next]_vars PROVE Inv'
    OBVIOUS
  <2>1. TypeOK'
    BY TypeKept DEF Inv
  <2>2. ASSUME "overlap" \notin trouble' PROVE Calm /\ Calm'
    BY <2>2, CalmKept DEF Inv
  <2>3. ASSUME trouble' \cap {"overlap", "diskfull"} = {} PROVE Kept /\ Kept'
    <3>1. Kept
      BY <2>3, TroubleGrows DEF Inv
    <3> QED
      BY <2>2, <2>3, <3>1, KeptKept DEF Inv
  <2>4. ASSUME trouble' = {} PROVE (Numbered /\ Told)'
    <3>1. Numbered /\ Told
      BY <2>4, TroubleGrows DEF Inv
    <3> QED
      BY <2>2, <2>3, <2>4, <3>1, ToldKept DEF Inv
  <2> QED
    BY <2>1, <2>2, <2>3, <2>4 DEF Inv
<1> QED
  BY InitInv, <1>1, PTL DEF Spec

\* A process that dies between two steps of a rotation costs no record, and
\* neither does a call of it that fails (archiveLocked).
THEOREM NothingEverLostAlone == Spec => []NothingLostAlone
<1>1. Inv => NothingLostAlone
  BY DEF Inv, Kept, NothingLostAlone, Vanished
<1> QED
  BY LogInOrder, <1>1, PTL

\* The sweep spares every record that is younger than RetainDays, those of a
\* write across midnight too (sweepLocked).
THEOREM AlwaysSweptInTime == Spec => []SweptInTime
<1>1. Inv => SweptInTime
  <2> SUFFICES ASSUME Inv, "overlap" \notin trouble, NEW r \in swept PROVE day - r.day >= RetainDays
    BY DEF SweptInTime
  <2>1. r.day + RetainDays <= day
    BY DEF Inv, Calm, InTime
  <2>2. r \in Record /\ day \in Days
    BY DEF Inv, TypeOK
  <2>3. r.day \in Days
    BY <2>2 DEF Record
  <2>4. RetainDays \in Int
    BY LogAssumption
  <2> QED
    <3>1. r.day \in Int /\ day \in Int
      BY <2>2, <2>3, NameFacts
    <3> QED
      BY <2>1, <2>4, <3>1
<1> QED
  BY LogInOrder, <1>1, PTL

\* Undisturbed, every record is in one place and every file is in order, an
\* archive that was appended to included (archiveLocked's copy).
THEOREM AlwaysOnceAndInOrder == Spec => []OnceAndInOrder
<1>1. Inv => OnceAndInOrder
  <2> SUFFICES ASSUME Inv, trouble = {}, \A p \in Loggers : ~At(p, "remove"),
                      NEW m \in there, NEW n \in there,
                      NEW i \in DOMAIN text[m], NEW j \in DOMAIN text[n]
               PROVE  /\ text[m][i] = text[n][j] => m = n /\ i = j
                      /\ m = n /\ i < j => text[m][i].id < text[n][j].id
    BY DEF OnceAndInOrder
  <2>1. Told /\ m \in Names /\ n \in Names /\ text[m] \in Seq(Record) /\ text[n] \in Seq(Record)
    BY DEF Inv, TypeOK
  <2>2. Increasing(text[m])
    BY <2>1 DEF Told
  <2>3. ASSUME m # n PROVE Apart(text[m], text[n])
    <3>1. CASE m = Live
      BY <2>1, <2>3, <3>1, BelowApart, NameFacts DEF Told, Names
    <3>2. CASE n = Live
      BY <2>1, <2>3, <3>2, BelowApart, NameFacts DEF Told, Names
    <3>3. CASE m # Live /\ n # Live
      BY <2>1, <2>3, <3>3 DEF Told, Names
    <3> QED
      BY <3>1, <3>2, <3>3
  <2>4. ASSUME m = n, i # j PROVE text[m][i] # text[n][j]
    <3>1. text[m][i] \in Record /\ text[m][j] \in Record /\ i \in Int /\ j \in Int
      BY <2>1, <2>4
    <3>2. text[m][i].id \in Int /\ text[m][j].id \in Int
      BY <3>1 DEF Record
    <3>3. text[m][i].id < text[m][j].id \/ text[m][j].id < text[m][i].id
      BY <2>2, <2>4, <3>1 DEF Increasing
    <3> QED
      BY <2>4, <3>2, <3>3
  <2> QED
    BY <2>2, <2>3, <2>4 DEF Apart, Increasing
<1> QED
  BY LogInOrder, <1>1, PTL
=============================================================================
