------------------------- MODULE UpdateCheckProofs -------------------------
(* Proofs about the update check, for any number of overlapping invocations, *)
(* any number of releases and any interval.                                  *)
EXTENDS UpdateCheck, TLAPS

Stages == {"idle", "load", "remind", "fetch", "open", "write", "rename"}

TypeOK ==
  /\ now \in 1..MaxTime
  /\ release \in [tag : 1..MaxTag, draft : BOOLEAN]
  /\ installed \in 1..MaxTag
  /\ file \in State
  /\ tmp \in State
  /\ tmpThere \in BOOLEAN
  /\ pc \in [Procs -> Stages]
  /\ channel \in [Procs -> Channels]
  /\ current \in [Procs -> Tags]
  /\ mine \in [Procs -> State]
  /\ handle \in [Procs -> {"none", "tmp", "file", "gone"}]
  /\ told \in [Procs -> Tags]
  /\ shown \in [Channels -> [Tags -> 0..Twice]]
  /\ disturbed \in BOOLEAN

\* A state that tells no lies: its release exists, its marks were announced.
Truthful(s) ==
  /\ s.latest <= release.tag
  /\ \A c \in Channels : Mark(s, c) # 0 => shown[c][Mark(s, c)] > 0

\* Every state that can still reach the file, also by a lost or mixed write.
Truth ==
  /\ Truthful(file)
  /\ Truthful(tmp)
  /\ \A p \in Procs : Truthful(mine[p])

\* What is announced, or about to be, is newer than the binary that runs.
Newer ==
  \A p \in Procs :
    /\ At(p, "remind") => /\ mine[p].latest > current[p]
                          /\ Mark(mine[p], channel[p]) # mine[p].latest
    /\ told[p] # 0 => told[p] > current[p] /\ told[p] <= release.tag
    /\ pc[p] \in {"idle", "load", "remind", "fetch"} => told[p] = 0

-----------------------------------------------------------------------------
(* The strengthening of BannerOncePerTag, which speaks of undisturbed checks.*)

\* The banner's marks only move on: a state's mark is not behind any tag whose
\* banner was shown, nor ahead of the release the state names.
UpToDate(s) == \A t \in Tags : shown["interactive"][t] > 0 => t <= s.notified

InStep(s) == s.notified <= release.tag /\ (s.latest # 0 => s.notified <= s.latest)

\* One check at a time, which writes its own temporary file and renames it.
Undisturbed ==
  /\ \A p, q \in Procs : ~At(p, "idle") /\ ~At(q, "idle") => p = q
  /\ \A p \in Procs : At(p, "write") => handle[p] = "tmp" /\ tmpThere /\ tmp = ZeroState
  /\ \A p \in Procs : At(p, "rename") => tmpThere /\ tmp = mine[p]

\* The file is up to date but while a check has announced and not yet saved;
\* then what that check will save is.
Memory ==
  /\ InStep(file)
  /\ (\A p \in Procs : told[p] = 0) => UpToDate(file)
  /\ \A p \in Procs : pc[p] \notin {"idle", "load"} => InStep(mine[p]) /\ UpToDate(mine[p])

Once ==
  ~disturbed => Undisturbed /\ Memory /\ BannerOncePerTag

Inv == TypeOK /\ Truth /\ Newer /\ Once

-----------------------------------------------------------------------------
(* Typing.                                                                   *)

LEMMA ZeroTyped == ZeroState \in State
BY UpdateAssumption DEF ZeroState, State, Tags

\* Numbers that are tags or times by what the clock and the server can say.
LEMMA Ranges ==
  ASSUME TypeOK
  PROVE  /\ 0 \in Tags /\ installed \in Tags /\ release.tag \in Tags
         /\ now \in 0..MaxTime
<1>1. release.tag \in 1..MaxTag
  BY DEF TypeOK
<1> QED
  BY <1>1, UpdateAssumption DEF TypeOK, Tags

LEMMA OverTyped ==
  ASSUME TypeOK, NEW p \in Procs, Over(p)
  PROVE  /\ pc' \in [Procs -> Stages]
         /\ channel' \in [Procs -> Channels]
         /\ current' \in [Procs -> Tags]
         /\ mine' \in [Procs -> State]
         /\ told' \in [Procs -> Tags]
<1>1. 0 \in Tags /\ "interactive" \in Channels
  BY Ranges DEF Channels
<1> QED
  BY <1>1, ZeroTyped DEF TypeOK, Over, Goto, Stages

\* A state as a notice leaves it, and the notice's place in the count.
LEMMA NotifyTyped ==
  ASSUME TypeOK, NEW p \in Procs, NEW s \in State, Notify(p, s)
  PROVE  /\ told' \in [Procs -> Tags]
         /\ shown' \in [Channels -> [Tags -> 0..Twice]]
         /\ mine' \in [Procs -> State]
<1>1. s.latest \in Tags /\ channel[p] \in Channels
  BY DEF State, TypeOK
<1>2. Marked(s, channel[p]) \in State
  BY <1>1 DEF Marked, State
<1>3. told' \in [Procs -> Tags] /\ mine' \in [Procs -> State]
  BY <1>1, <1>2 DEF Notify, TypeOK
<1>4. shown' \in [Channels -> [Tags -> 0..Twice]]
  <2> DEFINE n == shown[channel[p]][s.latest]
             m == IF n < Twice /\ (n = 0 \/ ~disturbed) THEN n + 1 ELSE n
  <2>1. n \in 0..Twice
    BY <1>1 DEF TypeOK
  <2>2. m \in 0..Twice
    BY <2>1 DEF Twice
  <2>3. shown' = [shown EXCEPT ![channel[p]] = [shown[channel[p]] EXCEPT ![s.latest] = m]]
    BY DEF Notify
  <2>4. [shown[channel[p]] EXCEPT ![s.latest] = m] \in [Tags -> 0..Twice]
    BY <1>1, <2>2 DEF TypeOK
  <2> QED
    BY <1>1, <2>3, <2>4 DEF TypeOK
<1> QED
  BY <1>3, <1>4

LEMMA FetchedTyped ==
  ASSUME TypeOK, NEW p \in Procs, NEW t \in Tags
  PROVE  Fetched(p, t) \in State
<1>1. mine[p] \in State /\ now \in 0..MaxTime
  BY Ranges DEF TypeOK
<1> QED
  BY <1>1 DEF Fetched, State

LEMMA WorldKeepsType ==
  ASSUME TypeOK, Tick \/ Publish \/ Upgrade
  PROVE  TypeOK'
<1>1. CASE Tick
  BY <1>1, UpdateAssumption DEF Tick, TypeOK, procVars
<1>2. CASE Publish
  <2>1. release' \in [tag : 1..MaxTag, draft : BOOLEAN]
    <3>1. release \in [tag : 1..MaxTag, draft : BOOLEAN] /\ release.tag \in 1..MaxTag
      BY DEF TypeOK
    <3>2. release.tag < MaxTag => release.tag + 1 \in 1..MaxTag
      BY <3>1, UpdateAssumption
    <3>3. [release EXCEPT !.draft = FALSE] \in [tag : 1..MaxTag, draft : BOOLEAN]
      BY <3>1
    <3>4. ASSUME NEW d \in BOOLEAN, release.tag < MaxTag
          PROVE  [tag |-> release.tag + 1, draft |-> d] \in [tag : 1..MaxTag, draft : BOOLEAN]
      BY <3>2, <3>4
    <3> QED
      BY <1>2, <3>3, <3>4 DEF Publish
  <2> QED
    BY <1>2, <2>1 DEF Publish, TypeOK, procVars
<1>3. CASE Upgrade
  BY <1>3 DEF Upgrade, TypeOK, procVars
<1> QED
  BY <1>1, <1>2, <1>3

LEMMA CheckKeepsType ==
  ASSUME TypeOK, NEW p \in Procs, Check(p)
  PROVE  TypeOK'
<1>1. CASE Load(p)
  <2>1. CASE Over(p)
    BY <1>1, <2>1, OverTyped DEF Load, TypeOK
  <2>2. CASE ~Over(p)
    <3>1. mine' = [mine EXCEPT ![p] = file] /\ \E l \in {"remind", "fetch"} : Goto(p, l)
      BY <1>1, <2>2 DEF Load
    <3> QED
      BY <1>1, <2>2, <3>1 DEF Load, TypeOK, Goto, Stages
  <2> QED
    BY <2>1, <2>2
<1>2. CASE Remind(p)
  <2>1. mine[p] \in State
    BY DEF TypeOK
  <2> QED
    BY <1>2, <2>1, NotifyTyped DEF Remind, TypeOK, Goto, Stages
<1>3. CASE FetchFails(p)
  <2>1. Fetched(p, 0) \in State
    BY FetchedTyped, Ranges
  <2> QED
    BY <1>3, <2>1 DEF FetchFails, TypeOK, Goto, Stages
<1>4. CASE FetchQuiet(p) \/ FetchNotifies(p)
  <2>1. Fetched(p, release.tag) \in State
    BY FetchedTyped, Ranges
  <2>2. CASE FetchQuiet(p)
    BY <2>1, <2>2 DEF FetchQuiet, TypeOK, Goto, Stages
  <2>3. CASE FetchNotifies(p)
    BY <2>1, <2>3, NotifyTyped DEF FetchNotifies, TypeOK, Goto, Stages
  <2> QED
    BY <1>4, <2>2, <2>3
<1>5. CASE OpenTmp(p)
  BY <1>5, ZeroTyped DEF OpenTmp, TypeOK, Goto, Stages
<1>6. CASE WriteTmp(p)
  <2>1. file' \in State /\ tmp' \in State
    BY <1>6, ZeroTyped DEF WriteTmp, TypeOK
  <2> QED
    BY <1>6, <2>1 DEF WriteTmp, TypeOK, Goto, Stages
<1>7. CASE Rename(p)
  <2>1. handle' \in [Procs -> {"none", "tmp", "file", "gone"}]
    BY <1>7 DEF Rename, Moved, TypeOK
  <2> QED
    BY <1>7, <2>1, OverTyped, ZeroTyped DEF Rename, TypeOK
<1>8. CASE RenameFails(p)
  BY <1>8, OverTyped DEF RenameFails, TypeOK
<1> QED
  BY <1>1, <1>2, <1>3, <1>4, <1>5, <1>6, <1>7, <1>8 DEF Check

LEMMA RunKeepsType ==
  ASSUME TypeOK, NEW p \in Procs, Run(p) \/ Gone(p)
  PROVE  TypeOK'
<1>1. CASE Run(p)
  <2>1. installed \in Tags
    BY Ranges
  <2>2. channel' \in [Procs -> Channels]
    BY <1>1 DEF Run, TypeOK
  <2>3. disturbed' \in BOOLEAN
    BY <1>1 DEF Run, TypeOK
  <2> QED
    BY <1>1, <2>1, <2>2, <2>3 DEF Run, TypeOK, Goto, Stages
<1>2. CASE Gone(p)
  BY <1>2, OverTyped DEF Gone, TypeOK
<1> QED
  BY <1>1, <1>2

-----------------------------------------------------------------------------
(* No state that can reach the file tells a lie.                             *)

\* Releases only grow newer, and what was shown stays shown.
Onward ==
  /\ release.tag <= release'.tag
  /\ \A c \in Channels, t \in Tags : shown[c][t] > 0 => shown'[c][t] > 0

LEMMA MarkTyped ==
  ASSUME NEW s \in State, NEW c
  PROVE  Mark(s, c) \in Tags
BY DEF State, Mark

LEMMA StaysTruthful ==
  ASSUME TypeOK, TypeOK', Onward, NEW s \in State, Truthful(s)
  PROVE  Truthful(s)'
<1>1. s.latest \in Nat /\ release.tag \in Nat /\ release'.tag \in Nat
  <2>1. s.latest \in Tags /\ release.tag \in 1..MaxTag /\ release'.tag \in 1..MaxTag
    BY DEF State, TypeOK
  <2> QED
    BY <2>1, UpdateAssumption DEF Tags
<1>2. s.latest <= release'.tag
  BY <1>1 DEF Truthful, Onward
<1>3. \A c \in Channels : Mark(s, c) # 0 => shown'[c][Mark(s, c)] > 0
  BY MarkTyped DEF Truthful, Onward
<1> QED
  BY <1>2, <1>3 DEF Truthful, Mark

LEMMA ZeroTruthful ==
  ASSUME TypeOK
  PROVE  Truthful(ZeroState)
<1>1. release.tag >= 0
  BY UpdateAssumption DEF TypeOK
<1> QED
  BY <1>1 DEF Truthful, ZeroState, Mark

\* A notice moves on, and so does what it makes of a truthful state.
LEMMA NotifyTruthful ==
  ASSUME TypeOK, NEW p \in Procs, NEW s \in State, Notify(p, s),
         Truthful(s), UNCHANGED <<release, channel>>
  PROVE  /\ Onward
         /\ Truthful(mine[p])'
         /\ \A q \in Procs \ {p} : mine'[q] = mine[q]
<1> DEFINE c == channel[p]
           n == shown[c][s.latest]
           m == IF n < Twice /\ (n = 0 \/ ~disturbed) THEN n + 1 ELSE n
<1>1. c \in Channels /\ s.latest \in Tags /\ n \in 0..Twice
  BY DEF State, TypeOK
<1>2. m \in Nat /\ m > 0 /\ m >= n
  BY <1>1 DEF Twice
<1>3. shown' = [shown EXCEPT ![c] = [shown[c] EXCEPT ![s.latest] = m]]
  BY DEF Notify
<1>4. \A d \in Channels, t \in Tags :
        shown'[d][t] = IF d = c /\ t = s.latest THEN m ELSE shown[d][t]
  BY <1>1, <1>3 DEF TypeOK
<1>5. Onward
  <2>1. \A d \in Channels, t \in Tags : shown[d][t] \in Nat
    BY DEF TypeOK
  <2>2. release'.tag = release.tag /\ release.tag \in Nat
    BY DEF TypeOK
  <2> QED
    BY <1>2, <1>4, <2>1, <2>2 DEF Onward
<1>6. mine'[p] = Marked(s, c) /\ \A q \in Procs \ {p} : mine'[q] = mine[q]
  BY DEF Notify, TypeOK
<1>7. Truthful(mine[p])'
  <2>1. mine'[p].latest = s.latest
    BY <1>6 DEF Marked, State
  <2>2. \A d \in Channels :
          Mark(mine'[p], d) = IF d = c THEN s.latest ELSE Mark(s, d)
    BY <1>1, <1>6 DEF Marked, State, Mark, Channels
  <2>3. \A d \in Channels : Mark(mine'[p], d) # 0 => shown'[d][Mark(mine'[p], d)] > 0
    <3> SUFFICES ASSUME NEW d \in Channels, Mark(mine'[p], d) # 0
                 PROVE  shown'[d][Mark(mine'[p], d)] > 0
      OBVIOUS
    <3>1. CASE d = c
      BY <1>1, <1>2, <1>4, <2>2, <3>1
    <3>2. CASE d # c
      BY <1>4, <2>2, <3>2, MarkTyped DEF Truthful
    <3> QED
      BY <3>1, <3>2
  <2> QED
    BY <2>1, <2>3 DEF Truthful
<1> QED
  BY <1>5, <1>6, <1>7

\* A fetch keeps the marks and names a release there is.
LEMMA FetchedTruthful ==
  ASSUME TypeOK, Truth, NEW p \in Procs, NEW t \in Tags, t <= release.tag
  PROVE  Truthful(Fetched(p, t))
<1>1. mine[p] \in State /\ Truthful(mine[p])
  BY DEF TypeOK, Truth
<1> QED
  BY <1>1 DEF Fetched, State, Truthful, Mark

\* A step that moves truthful states around, and itself makes none that lies.
LEMMA TruthCarried ==
  ASSUME TypeOK, TypeOK', Truth, Onward,
         \/ file' \in {file, tmp, ZeroState}
         \/ \E p \in Procs : file' = mine[p],
         \/ tmp' \in {tmp, ZeroState}
         \/ \E p \in Procs : tmp' = mine[p],
         \A p \in Procs : mine'[p] \in {mine[p], file, ZeroState} \/ Truthful(mine[p])'
  PROVE  Truth'
<1> DEFINE Before(s) == s \in State /\ Truthful(s)
           After(s) == s.latest <= release'.tag
                       /\ \A c \in Channels : Mark(s, c) # 0 => shown'[c][Mark(s, c)] > 0
<1>1. \A s : Before(s) => After(s)
  BY StaysTruthful DEF Truthful, Mark
<1>2. Before(file) /\ Before(tmp) /\ Before(ZeroState) /\ \A p \in Procs : Before(mine[p])
  BY ZeroTyped, ZeroTruthful DEF TypeOK, Truth
<1>3. After(file) /\ After(tmp) /\ After(ZeroState) /\ \A p \in Procs : After(mine[p])
  BY <1>1, <1>2
<1> HIDE DEF After
<1>4. After(file') /\ After(tmp')
  BY <1>3
<1>5. \A p \in Procs : After(mine'[p])
  <2> SUFFICES ASSUME NEW p \in Procs PROVE After(mine'[p])
    OBVIOUS
  <2>1. CASE mine'[p] \in {mine[p], file, ZeroState}
    BY <1>3, <2>1
  <2>2. CASE Truthful(mine[p])'
    BY <2>2 DEF After, Truthful, Mark
  <2> QED
    BY <2>1, <2>2
<1> QED
  BY <1>4, <1>5 DEF After, Truth, Truthful, Mark

LEMMA NothingShown ==
  ASSUME TypeOK, UNCHANGED <<release, shown>>
  PROVE  Onward
<1>1. release.tag \in Nat
  BY UpdateAssumption DEF TypeOK
<1> QED
  BY <1>1 DEF Onward

\* The processes other than p keep what is theirs.
Rest(p) ==
  \A q \in Procs \ {p} :
    /\ pc'[q] = pc[q] /\ channel'[q] = channel[q] /\ current'[q] = current[q]
    /\ mine'[q] = mine[q] /\ told'[q] = told[q]

LEMMA OverEffect ==
  ASSUME TypeOK, NEW p \in Procs, Over(p)
  PROVE  /\ pc'[p] = "idle" /\ told'[p] = 0 /\ mine'[p] = ZeroState
         /\ Rest(p)
BY DEF TypeOK, Over, Goto, Rest

LEMMA RestKept ==
  ASSUME TypeOK, NEW p \in Procs, Run(p) \/ Check(p) \/ Gone(p)
  PROVE  Rest(p)
<1>1. CASE Over(p)
  BY <1>1, OverEffect
<1>2. CASE Run(p)
  BY <1>2 DEF Run, TypeOK, Goto, Rest
<1>3. CASE Load(p)
  BY <1>1, <1>3 DEF Load, TypeOK, Goto, Rest
<1>4. CASE Remind(p)
  BY <1>4 DEF Remind, Notify, TypeOK, Goto, Rest
<1>5. CASE FetchFails(p) \/ FetchQuiet(p)
  BY <1>5 DEF FetchFails, FetchQuiet, TypeOK, Goto, Rest
<1>6. CASE FetchNotifies(p)
  BY <1>6 DEF FetchNotifies, Notify, TypeOK, Goto, Rest
<1>7. CASE OpenTmp(p) \/ WriteTmp(p)
  BY <1>7 DEF OpenTmp, WriteTmp, TypeOK, Goto, Rest
<1>8. CASE Rename(p) \/ RenameFails(p) \/ Gone(p)
  BY <1>1, <1>8 DEF Rename, RenameFails, Gone
<1> QED
  BY <1>2, <1>3, <1>4, <1>5, <1>6, <1>7, <1>8 DEF Check

LEMMA TruthKept ==
  ASSUME TypeOK, TypeOK', Truth, NEW p \in Procs, Run(p) \/ Check(p) \/ Gone(p)
  PROVE  Truth' /\ Onward
<1>1. \A q \in Procs \ {p} : mine'[q] = mine[q]
  BY RestKept DEF Rest
<1>2. CASE Run(p) \/ OpenTmp(p)
  <2>1. Onward
    BY <1>2, NothingShown DEF Run, OpenTmp
  <2> QED
    BY <1>2, <2>1, TruthCarried DEF Run, OpenTmp
<1>3. CASE Load(p)
  <2>1. Onward
    BY <1>3, NothingShown DEF Load
  <2>2. mine'[p] \in {file, ZeroState}
    BY <1>3, OverEffect DEF Load, TypeOK
  <2> QED
    BY <1>1, <1>3, <2>1, <2>2, TruthCarried DEF Load
<1>4. CASE Remind(p)
  <2>1. mine[p] \in State /\ Truthful(mine[p])
    BY DEF TypeOK, Truth
  <2>2. Onward /\ Truthful(mine[p])'
    BY <1>4, <2>1, NotifyTruthful DEF Remind
  <2> QED
    BY <1>1, <1>4, <2>2, TruthCarried DEF Remind
<1>5. CASE FetchFails(p)
  <2>1. Onward
    BY <1>5, NothingShown DEF FetchFails
  <2>2. Truthful(Fetched(p, 0))
    BY FetchedTruthful, Ranges, UpdateAssumption DEF TypeOK
  <2>3. mine'[p] = Fetched(p, 0)
    BY <1>5 DEF FetchFails, TypeOK
  <2>4. Truthful(mine[p])'
    BY <1>5, <2>2, <2>3 DEF FetchFails, Truthful, Mark
  <2> QED
    BY <1>1, <1>5, <2>1, <2>4, TruthCarried DEF FetchFails
<1>6. CASE FetchQuiet(p)
  <2>1. Onward
    BY <1>6, NothingShown DEF FetchQuiet
  <2>2. Truthful(Fetched(p, release.tag))
    BY FetchedTruthful, Ranges, UpdateAssumption DEF TypeOK
  <2>3. mine'[p] = Fetched(p, release.tag)
    BY <1>6 DEF FetchQuiet, TypeOK
  <2>4. Truthful(mine[p])'
    BY <1>6, <2>2, <2>3 DEF FetchQuiet, Truthful, Mark
  <2> QED
    BY <1>1, <1>6, <2>1, <2>4, TruthCarried DEF FetchQuiet
<1>7. CASE FetchNotifies(p)
  <2>1. Fetched(p, release.tag) \in State /\ Truthful(Fetched(p, release.tag))
    BY FetchedTyped, FetchedTruthful, Ranges, UpdateAssumption DEF TypeOK
  <2>2. Onward /\ Truthful(mine[p])'
    BY <1>7, <2>1, NotifyTruthful DEF FetchNotifies
  <2> QED
    BY <1>1, <1>7, <2>2, TruthCarried DEF FetchNotifies
<1>8. CASE WriteTmp(p)
  <2>1. Onward
    BY <1>8, NothingShown DEF WriteTmp
  <2>2. \/ file' \in {file, ZeroState} \/ file' = mine[p]
    BY <1>8 DEF WriteTmp
  <2>3. \/ tmp' \in {tmp, ZeroState} \/ tmp' = mine[p]
    BY <1>8 DEF WriteTmp
  <2> QED
    BY <1>8, <2>1, <2>2, <2>3, TruthCarried DEF WriteTmp
<1>9. CASE Rename(p) \/ RenameFails(p) \/ Gone(p)
  <2>1. Onward
    BY <1>9, NothingShown DEF Rename, RenameFails, Gone
  <2>2. mine'[p] = ZeroState
    BY <1>9, OverEffect DEF Rename, RenameFails, Gone
  <2> QED
    BY <1>1, <1>9, <2>1, <2>2, TruthCarried DEF Rename, RenameFails, Gone
<1> QED
  BY <1>2, <1>3, <1>4, <1>5, <1>6, <1>7, <1>8, <1>9 DEF Check

-----------------------------------------------------------------------------
(* Only what is newer than the binary is announced.                          *)

NewerAt(p) ==
  /\ At(p, "remind") => /\ mine[p].latest > current[p]
                        /\ Mark(mine[p], channel[p]) # mine[p].latest
  /\ told[p] # 0 => told[p] > current[p] /\ told[p] <= release.tag
  /\ pc[p] \in {"idle", "load", "remind", "fetch"} => told[p] = 0

LEMMA NewerOthers ==
  ASSUME TypeOK, TypeOK', Newer, Onward, NEW p \in Procs, Rest(p), NewerAt(p)'
  PROVE  Newer'
<1> SUFFICES ASSUME NEW q \in Procs PROVE NewerAt(q)'
  BY DEF Newer, NewerAt, At
<1>1. CASE q = p
  BY <1>1 DEF NewerAt, At
<1>2. CASE q # p
  <2>1. NewerAt(q)
    BY DEF Newer, NewerAt
  <2>2. told[q] \in Nat /\ release.tag \in Nat /\ release'.tag \in Nat
    <3>1. told[q] \in Tags /\ release.tag \in 1..MaxTag /\ release'.tag \in 1..MaxTag
      BY DEF TypeOK
    <3> QED
      BY <3>1, UpdateAssumption DEF Tags
  <2>3. UNCHANGED <<pc[q], channel[q], current[q], mine[q], told[q]>>
    BY <1>2 DEF Rest
  <2> QED
    BY <2>1, <2>2, <2>3 DEF NewerAt, At, Onward, Mark
<1> QED
  BY <1>1, <1>2

LEMMA NewerByNotify ==
  ASSUME TypeOK, TypeOK', NEW p \in Procs, NEW s \in State, Notify(p, s),
         s.latest > current[p], s.latest <= release.tag,
         pc'[p] = "open", UNCHANGED <<release, current>>
  PROVE  NewerAt(p)'
<1>1. told'[p] = s.latest
  BY DEF Notify, TypeOK
<1> QED
  BY <1>1 DEF NewerAt, At

LEMMA NewerKept ==
  ASSUME TypeOK, TypeOK', Truth, Newer, NEW p \in Procs, Run(p) \/ Check(p) \/ Gone(p)
  PROVE  Newer'
<1>1. Rest(p) /\ Onward
  BY RestKept, TruthKept
<1>2. NewerAt(p) /\ mine[p] \in State
  BY DEF Newer, NewerAt, TypeOK
<1> SUFFICES NewerAt(p)'
  BY <1>1, NewerOthers
<1>3. CASE Over(p)
  BY <1>3, OverEffect DEF NewerAt, At
<1>4. CASE Run(p)
  BY <1>2, <1>4 DEF Run, Goto, At, NewerAt, TypeOK
<1>5. CASE Load(p) /\ ~Over(p)
  <2>1. /\ pc[p] = "load" /\ told' = told
        /\ pc'[p] \in {"remind", "fetch"}
        /\ mine'[p] = file /\ UNCHANGED <<channel, current>>
        /\ pc'[p] = "remind" => ReminderDue(p, file)
    BY <1>5 DEF Load, Goto, At, TypeOK
  <2> QED
    BY <1>2, <2>1 DEF NewerAt, At, ReminderDue, NewerThan, Mark
<1>6. CASE Remind(p)
  <2>1. Truthful(mine[p]) /\ mine[p].latest > current[p]
    BY <1>2, <1>6 DEF Truth, Remind, NewerAt
  <2>2. pc'[p] = "open"
    BY <1>6 DEF Remind, Goto, TypeOK
  <2> QED
    BY <1>2, <1>6, <2>1, <2>2, NewerByNotify DEF Remind, Truthful
<1>7. CASE FetchFails(p) \/ FetchQuiet(p)
  <2>1. told'[p] = 0 /\ pc'[p] = "open"
    BY <1>2, <1>7 DEF FetchFails, FetchQuiet, Goto, At, NewerAt, TypeOK
  <2> QED
    BY <2>1 DEF NewerAt, At
<1>8. CASE FetchNotifies(p)
  <2>1. Fetched(p, release.tag) \in State
    BY FetchedTyped, Ranges
  <2>2. Fetched(p, release.tag).latest = release.tag
    BY <1>2 DEF Fetched, State
  <2>3. release.tag > current[p] /\ pc'[p] = "open" /\ release.tag <= release.tag
    BY <1>8, UpdateAssumption DEF FetchNotifies, UpgradeFound, NewerThan, Goto, TypeOK
  <2> QED
    BY <1>8, <2>1, <2>2, <2>3, NewerByNotify DEF FetchNotifies
<1>9. CASE OpenTmp(p) \/ WriteTmp(p)
  <2>1. /\ told' = told /\ UNCHANGED <<current, release>>
        /\ pc'[p] \in {"write", "rename"}
    BY <1>9 DEF OpenTmp, WriteTmp, Goto, TypeOK
  <2> QED
    BY <1>2, <2>1 DEF NewerAt, At
<1> QED
  BY <1>3, <1>4, <1>5, <1>6, <1>7, <1>8, <1>9 DEF Check, Load, Rename, RenameFails, Gone

LEMMA TruthInWorld ==
  ASSUME TypeOK, TypeOK', Truth, Newer, Tick \/ Publish \/ Upgrade
  PROVE  Truth' /\ Newer' /\ Onward
<1>1. UNCHANGED <<file, tmp, procVars, shown>> /\ release.tag <= release'.tag
  BY UpdateAssumption DEF Tick, Publish, Upgrade, TypeOK
<1>2. Onward
  BY <1>1 DEF Onward
<1>3. Truth'
  <2>1. file' = file /\ tmp' = tmp /\ mine' = mine
    BY <1>1 DEF procVars
  <2> QED
    BY <1>2, <2>1, TruthCarried
<1>4. Newer'
  <2> SUFFICES ASSUME NEW p \in Procs PROVE NewerAt(p)'
    BY DEF Newer, NewerAt, At
  <2>1. NewerAt(p)
    BY DEF Newer, NewerAt
  <2>2. told[p] \in Nat /\ release.tag \in Nat /\ release'.tag \in Nat
    <3>1. told[p] \in Tags /\ release.tag \in 1..MaxTag /\ release'.tag \in 1..MaxTag
      BY DEF TypeOK
    <3> QED
      BY <3>1, UpdateAssumption DEF Tags
  <2>3. pc' = pc /\ channel' = channel /\ current' = current /\ mine' = mine /\ told' = told
    BY <1>1 DEF procVars
  <2> QED
    BY <1>1, <2>1, <2>2, <2>3 DEF NewerAt, At, Mark
<1> QED
  BY <1>2, <1>3, <1>4

-----------------------------------------------------------------------------
(* Once per tag, while checks neither overlap nor fail to save.              *)

\* A tag that the banner was shown for is no longer announced: the mark has
\* reached it, so what is announced lies behind all that was shown.
LEMMA NotifyOnce ==
  ASSUME TypeOK, NEW p \in Procs, NEW s \in State, Notify(p, s), ~disturbed,
         BannerOncePerTag, UpToDate(s), InStep(s), s.latest # 0,
         Mark(s, channel[p]) # s.latest, s.latest <= release.tag,
         UNCHANGED <<release, disturbed>>
  PROVE  /\ BannerOncePerTag'
         /\ InStep(mine[p])' /\ UpToDate(mine[p])'
<1>1. s.latest \in Tags /\ s.notified \in Tags /\ channel[p] \in Channels
  BY DEF State, TypeOK
<1>2. s.latest \in Nat /\ s.notified \in Nat /\ release.tag \in Nat
  BY <1>1, UpdateAssumption DEF Tags, TypeOK
<1>3. mine'[p] = Marked(s, channel[p])
  BY DEF Notify, TypeOK
<1> DEFINE c == channel[p]
           n == shown[c][s.latest]
           m == IF n < Twice /\ (n = 0 \/ ~disturbed) THEN n + 1 ELSE n
<1>4. \A t \in Tags : shown'["interactive"][t] =
         IF c = "interactive" /\ t = s.latest THEN m ELSE shown["interactive"][t]
  BY <1>1 DEF Notify, TypeOK, Channels
<1>5. CASE c = "headless"
  <2>1. mine'[p].notified = s.notified /\ mine'[p].latest = s.latest
    BY <1>3, <1>5 DEF Marked, State
  <2>2. \A t \in Tags : shown'["interactive"][t] = shown["interactive"][t]
    BY <1>4, <1>5
  <2> QED
    BY <1>2, <2>1, <2>2 DEF InStep, UpToDate, BannerOncePerTag
<1>6. CASE c = "interactive"
  <2>1. mine'[p].notified = s.latest /\ mine'[p].latest = s.latest
    BY <1>3, <1>6 DEF Marked, State
  <2>2. s.notified # s.latest /\ s.notified < s.latest
    BY <1>2, <1>6 DEF Mark, InStep
  <2>3. n = 0
    BY <1>1, <1>2, <1>6, <2>2 DEF UpToDate, TypeOK, Channels
  <2>4. m = 1
    BY <2>3 DEF Twice
  <2>5. BannerOncePerTag'
    BY <1>4, <1>6, <2>4 DEF BannerOncePerTag
  <2>6. UpToDate(mine[p])'
    <3> SUFFICES ASSUME NEW t \in Tags, shown'["interactive"][t] > 0
                 PROVE  t <= s.latest
      BY <2>1 DEF UpToDate
    <3>1. t \in Nat
      BY UpdateAssumption DEF Tags
    <3>2. CASE t = s.latest
      BY <1>2, <3>2
    <3>3. CASE t # s.latest
      BY <1>2, <1>4, <2>2, <3>1, <3>3 DEF UpToDate
    <3> QED
      BY <3>2, <3>3
  <2>7. InStep(mine[p])'
    BY <1>2, <2>1 DEF InStep
  <2> QED
    BY <2>5, <2>6, <2>7
<1> QED
  BY <1>1, <1>5, <1>6 DEF Channels

\* Alone: the other processes are idle and have announced nothing.
LEMMA OthersIdle ==
  ASSUME TypeOK, Newer, Undisturbed, NEW p \in Procs, pc[p] # "idle"
  PROVE  \A q \in Procs \ {p} : pc[q] = "idle" /\ told[q] = 0
BY DEF Undisturbed, Newer, At

\* What a step of p alone must establish for itself.
OnceAt(p) ==
  /\ At(p, "write") => handle[p] = "tmp" /\ tmpThere /\ tmp = ZeroState
  /\ At(p, "rename") => tmpThere /\ tmp = mine[p]
  /\ pc[p] \notin {"idle", "load"} => InStep(mine[p]) /\ UpToDate(mine[p])
  /\ told[p] = 0 => UpToDate(file)
  /\ InStep(file)
  /\ BannerOncePerTag

LEMMA OnceFromAlone ==
  ASSUME TypeOK, Newer, Undisturbed, NEW p \in Procs, pc[p] # "idle", Rest(p), OnceAt(p)'
  PROVE  (Undisturbed /\ Memory /\ BannerOncePerTag)'
<1>1. \A q \in Procs \ {p} : pc'[q] = "idle" /\ told'[q] = 0
  BY OthersIdle DEF Rest
<1>2. Undisturbed'
  BY <1>1 DEF Undisturbed, OnceAt, At
<1>3. Memory'
  BY <1>1 DEF Memory, OnceAt
<1> QED
  BY <1>2, <1>3 DEF OnceAt

LEMMA OnceBefore ==
  ASSUME TypeOK, Newer, Undisturbed, Memory, BannerOncePerTag,
         NEW p \in Procs, pc[p] # "idle"
  PROVE  OnceAt(p)
<1>1. told[p] = 0 => \A q \in Procs : told[q] = 0
  BY OthersIdle
<1> QED
  BY <1>1 DEF Undisturbed, Memory, OnceAt

\* Nothing is shown and the file stays as it is.
LEMMA OnceQuiet ==
  ASSUME NEW p \in Procs, OnceAt(p), UNCHANGED <<release, file, shown>>, disturbed => disturbed'
  PROVE  /\ InStep(file)' /\ BannerOncePerTag'
         /\ UpToDate(file) => UpToDate(file)'
BY DEF OnceAt, InStep, UpToDate, BannerOncePerTag

LEMMA OnceLoad ==
  ASSUME TypeOK, Newer, NEW p \in Procs, OnceAt(p), Load(p)
  PROVE  OnceAt(p)'
<1>1. /\ InStep(file)' /\ BannerOncePerTag'
      /\ UpToDate(file) => UpToDate(file)'
  BY OnceQuiet DEF Load
<1>2. pc[p] = "load" /\ told[p] = 0 /\ UpToDate(file)
  BY DEF Load, At, Newer, OnceAt
<1>3. CASE Over(p)
  BY <1>1, <1>2, <1>3, OverEffect DEF OnceAt, At
<1>4. CASE ~Over(p)
  <2>1. mine'[p] = file /\ pc'[p] \in {"remind", "fetch"} /\ UNCHANGED <<file, release, shown>>
    BY <1>4 DEF Load, Goto, TypeOK
  <2> QED
    BY <1>1, <1>2, <2>1 DEF OnceAt, At, InStep, UpToDate
<1> QED
  BY <1>3, <1>4

LEMMA OnceRemind ==
  ASSUME TypeOK, Truth, Newer, ~disturbed, NEW p \in Procs, OnceAt(p), Remind(p)
  PROVE  OnceAt(p)'
<1>1. /\ mine[p] \in State /\ Notify(p, mine[p]) /\ pc[p] = "remind" /\ pc'[p] = "open"
      /\ UNCHANGED <<release, file, disturbed>>
  BY DEF Remind, TypeOK, At, Goto
<1>2. /\ mine[p].latest > current[p] /\ Mark(mine[p], channel[p]) # mine[p].latest
      /\ mine[p].latest <= release.tag
  BY <1>1 DEF Newer, Truth, Truthful, At
<1>3. mine[p].latest # 0
  <2>1. current[p] \in Tags
    BY DEF TypeOK
  <2> QED
    BY <1>2, <2>1, UpdateAssumption DEF Tags
<1>4. /\ BannerOncePerTag' /\ InStep(mine[p])' /\ UpToDate(mine[p])'
  BY <1>1, <1>2, <1>3, NotifyOnce DEF OnceAt
<1>5. told'[p] # 0
  BY <1>1, <1>3 DEF Notify, TypeOK
<1>6. InStep(file)'
  BY <1>1 DEF OnceAt, InStep
<1> QED
  BY <1>1, <1>4, <1>5, <1>6 DEF OnceAt, At

LEMMA OnceFetchQuiet ==
  ASSUME TypeOK, Newer, NEW p \in Procs, OnceAt(p), FetchFails(p) \/ FetchQuiet(p)
  PROVE  OnceAt(p)'
<1>1. /\ InStep(file)' /\ BannerOncePerTag'
      /\ UpToDate(file) => UpToDate(file)'
  BY OnceQuiet DEF FetchFails, FetchQuiet
<1>2. pc[p] = "fetch" /\ told'[p] = 0 /\ UpToDate(file) /\ pc'[p] = "open"
  BY DEF FetchFails, FetchQuiet, At, Goto, Newer, OnceAt, TypeOK
<1>3. mine'[p].notified = mine[p].notified /\ mine'[p].latest \in {0, release.tag}
  <2>1. mine[p] \in State
    BY DEF TypeOK
  <2>2. mine'[p] = Fetched(p, 0) \/ mine'[p] = Fetched(p, release.tag)
    BY DEF FetchFails, FetchQuiet, TypeOK
  <2> QED
    BY <2>1, <2>2 DEF Fetched, State
<1>4. InStep(mine[p]) /\ UpToDate(mine[p]) /\ UNCHANGED <<release, shown>>
  BY <1>2 DEF OnceAt, FetchFails, FetchQuiet
<1> QED
  BY <1>1, <1>2, <1>3, <1>4 DEF OnceAt, At, InStep, UpToDate

LEMMA OnceFetchNotifies ==
  ASSUME TypeOK, Truth, ~disturbed, NEW p \in Procs, OnceAt(p), FetchNotifies(p)
  PROVE  OnceAt(p)'
<1> DEFINE s == Fetched(p, release.tag)
<1>1. mine[p] \in State /\ release.tag \in Tags /\ s \in State
  BY Ranges, FetchedTyped DEF TypeOK
<1>2. s.latest = release.tag /\ s.notified = mine[p].notified
  BY <1>1 DEF Fetched, State
<1>3. /\ Notify(p, s) /\ pc[p] = "fetch" /\ pc'[p] = "open"
      /\ UNCHANGED <<release, file, disturbed>>
      /\ release.tag # mine[p].notified
  BY DEF FetchNotifies, UpgradeFound, TypeOK, At, Goto
<1>4. InStep(mine[p]) /\ UpToDate(mine[p]) /\ BannerOncePerTag /\ InStep(file)
  BY <1>3 DEF OnceAt
<1>5. release.tag \in Nat \ {0}
  BY UpdateAssumption DEF TypeOK
<1>6. InStep(s) /\ UpToDate(s) /\ s.latest # 0 /\ s.latest <= release.tag
  BY <1>2, <1>4, <1>5 DEF InStep, UpToDate
<1>7. InStep(file)'
  BY <1>3, <1>4 DEF InStep
<1>8. told'[p] # 0
  BY <1>2, <1>3, <1>5 DEF Notify, TypeOK
<1> HIDE DEF s
<1>9. CASE Mark(s, channel[p]) # s.latest
  BY <1>1, <1>3, <1>4, <1>6, <1>7, <1>8, <1>9, NotifyOnce DEF OnceAt, At
<1>10. CASE Mark(s, channel[p]) = s.latest
  \* On the interactive channel this was asked; the headless mark was not.
  <2>1. channel[p] = "headless"
    BY <1>2, <1>3, <1>10 DEF Mark, TypeOK, Channels
  <2>2. \A t \in Tags : shown'["interactive"][t] = shown["interactive"][t]
    BY <1>1, <1>3, <2>1 DEF Notify, TypeOK, Channels
  <2>3. mine'[p].notified = s.notified /\ mine'[p].latest = s.latest
    BY <1>1, <1>3, <2>1 DEF Notify, Marked, State, TypeOK
  <2>4. BannerOncePerTag' /\ InStep(mine[p])' /\ UpToDate(mine[p])'
    BY <1>3, <1>4, <1>6, <2>2, <2>3 DEF BannerOncePerTag, InStep, UpToDate
  <2> QED
    BY <1>3, <1>7, <1>8, <2>4 DEF OnceAt, At
<1> QED
  BY <1>9, <1>10

LEMMA OnceSave ==
  ASSUME TypeOK, Newer, NEW p \in Procs, OnceAt(p),
         OpenTmp(p) \/ WriteTmp(p) \/ Rename(p) \/ RenameFails(p)
  PROVE  OnceAt(p)'
<1>1. CASE OpenTmp(p)
  <2>1. /\ handle'[p] = "tmp" /\ tmpThere' /\ tmp' = ZeroState
        /\ pc'[p] = "write" /\ pc[p] = "open" /\ mine'[p] = mine[p] /\ told' = told
        /\ UNCHANGED <<release, file, shown, disturbed>>
    BY <1>1 DEF OpenTmp, TypeOK, At, Goto
  <2> QED
    BY <2>1, OnceQuiet DEF OnceAt, At, InStep, UpToDate
<1>2. CASE WriteTmp(p)
  <2>1. handle[p] = "tmp" /\ tmpThere /\ tmp = ZeroState /\ pc[p] = "write"
    BY <1>2 DEF WriteTmp, OnceAt, At
  <2>2. /\ tmp' = mine[p] /\ tmpThere' /\ pc'[p] = "rename" /\ mine'[p] = mine[p]
        /\ told' = told /\ UNCHANGED <<release, file, shown, disturbed>>
    BY <1>2, <2>1 DEF WriteTmp, TypeOK, Goto
  <2> QED
    BY <2>1, <2>2, OnceQuiet DEF OnceAt, At, InStep, UpToDate
<1>3. CASE Rename(p)
  <2>1. /\ file' = mine[p] /\ InStep(mine[p]) /\ UpToDate(mine[p]) /\ BannerOncePerTag
        /\ UNCHANGED <<release, shown, disturbed>>
    BY <1>3 DEF Rename, OnceAt, At
  <2>2. pc'[p] = "idle"
    BY <1>3, OverEffect DEF Rename
  <2> QED
    BY <2>1, <2>2 DEF OnceAt, At, InStep, UpToDate, BannerOncePerTag
<1>4. CASE RenameFails(p)
  BY <1>4 DEF RenameFails, OnceAt, At
<1> QED
  BY <1>1, <1>2, <1>3, <1>4

LEMMA OnceKept ==
  ASSUME TypeOK, Truth, Newer, Once, NEW p \in Procs, Run(p) \/ Check(p) \/ Gone(p)
  PROVE  Once'
<1> SUFFICES ASSUME ~disturbed' PROVE (Undisturbed /\ Memory /\ BannerOncePerTag)'
  BY DEF Once
<1>1. ~disturbed
  BY DEF Run, Check, Load, Remind, FetchFails, FetchQuiet, FetchNotifies, OpenTmp, WriteTmp,
         Rename, RenameFails, Gone
<1>2. Undisturbed /\ Memory /\ BannerOncePerTag /\ Rest(p)
  BY <1>1, RestKept DEF Once
<1>3. CASE Run(p)
  <2>1. \A q \in Procs : pc[q] = "idle" /\ told[q] = 0
    BY <1>3 DEF Run, At, Newer
  <2>2. pc'[p] = "load" /\ told' = told /\ UNCHANGED <<file, tmp, tmpThere, mine, shown, release>>
    BY <1>3 DEF Run, Goto, TypeOK
  <2>3. \A q \in Procs \ {p} : pc'[q] = "idle"
    BY <1>2, <2>1 DEF Rest
  <2>4. Undisturbed'
    BY <2>2, <2>3 DEF Undisturbed, At
  <2>5. Memory'
    BY <1>2, <2>1, <2>2, <2>3 DEF Memory, InStep, UpToDate
  <2> QED
    BY <1>1, <1>2, <2>2, <2>4, <2>5 DEF BannerOncePerTag
<1>4. CASE Check(p) \/ Gone(p)
  <2>1. pc[p] # "idle" /\ OnceAt(p)
    <3>1. pc[p] # "idle"
      BY <1>4 DEF Check, Load, Remind, FetchFails, FetchQuiet, FetchNotifies, OpenTmp,
         WriteTmp, Rename, RenameFails, Gone, At
    <3> QED
      BY <1>2, <3>1, OnceBefore
  <2>2. ASSUME Check(p) PROVE OnceAt(p)'
    BY <1>1, <2>1, <2>2, OnceLoad, OnceRemind, OnceFetchQuiet, OnceFetchNotifies, OnceSave
       DEF Check
  <2>3. ASSUME Gone(p) PROVE OnceAt(p)'
    <3>1. told[p] = 0 /\ UNCHANGED <<release, file, shown>>
      <4>1. disturbed' = (disturbed \/ told[p] # 0)
        BY <2>3 DEF Gone
      <4>2. told[p] = 0
        BY <4>1, Zenon
      <4> QED
        BY <2>3, <4>2 DEF Gone
    <3>2. pc'[p] = "idle"
      BY <2>3, OverEffect DEF Gone
    <3> QED
      BY <1>1, <2>1, <3>1, <3>2, OnceQuiet DEF OnceAt, At
  <2> QED
    BY <1>2, <1>4, <2>1, <2>2, <2>3, OnceFromAlone
<1> QED
  BY <1>3, <1>4

LEMMA OnceInWorld ==
  ASSUME TypeOK, TypeOK', Newer, Once, Tick \/ Publish \/ Upgrade
  PROVE  Once'
<1>1. /\ UNCHANGED <<file, tmp, tmpThere, procVars, shown, disturbed>>
      /\ release.tag <= release'.tag
  BY UpdateAssumption DEF Tick, Publish, Upgrade, TypeOK
<1>2. ASSUME NEW s \in State, s.notified <= release.tag
      PROVE  s.notified <= release'.tag
  <2>1. s.notified \in Tags /\ release.tag \in 1..MaxTag /\ release'.tag \in 1..MaxTag
    BY DEF State, TypeOK
  <2>2. s.notified \in Nat /\ release.tag \in Nat /\ release'.tag \in Nat
    BY <2>1, UpdateAssumption DEF Tags
  <2> QED
    BY <1>1, <1>2, <2>2
<1>3. pc' = pc /\ mine' = mine /\ told' = told /\ handle' = handle
  BY <1>1 DEF procVars
<1>4. Undisturbed => Undisturbed'
  BY <1>1, <1>3 DEF Undisturbed, At
<1>5. Memory => Memory'
  BY <1>1, <1>2, <1>3 DEF Memory, InStep, UpToDate, TypeOK
<1>6. BannerOncePerTag => BannerOncePerTag'
  BY <1>1 DEF BannerOncePerTag
<1> QED
  BY <1>1, <1>4, <1>5, <1>6 DEF Once

-----------------------------------------------------------------------------

LEMMA InvInit ==
  ASSUME Init
  PROVE  Inv
<1>1. 1 \in 1..MaxTime /\ 1 \in 1..MaxTag /\ 0 \in Tags /\ 0 \in 0..Twice
  BY UpdateAssumption DEF Tags, Twice
<1>2. TypeOK
  BY <1>1, ZeroTyped DEF Init, TypeOK, Stages, Channels
<1>3. Truth
  BY <1>2, ZeroTruthful DEF Init, Truth
<1>4. Newer
  BY DEF Init, Newer, At
<1>5. \A t \in Tags : shown["interactive"][t] = 0
  BY DEF Init, Channels
<1>6. InStep(ZeroState) /\ UpToDate(ZeroState)
  BY <1>5 DEF Init, InStep, UpToDate, ZeroState
<1>7. Undisturbed /\ Memory /\ BannerOncePerTag
  BY <1>5, <1>6 DEF Init, Undisturbed, Memory, BannerOncePerTag, At
<1> QED
  BY <1>2, <1>3, <1>4, <1>7 DEF Inv, Once

LEMMA InvStep ==
  ASSUME Inv, [Next]_vars
  PROVE  Inv'
<1>1. CASE Tick \/ Publish \/ Upgrade
  BY <1>1, WorldKeepsType, TruthInWorld, OnceInWorld DEF Inv
<1>2. ASSUME NEW p \in Procs, Run(p) \/ Check(p) \/ Gone(p)
      PROVE  Inv'
  <2>1. TypeOK'
    BY <1>2, CheckKeepsType, RunKeepsType DEF Inv
  <2> QED
    BY <1>2, <2>1, TruthKept, NewerKept, OnceKept DEF Inv
<1>3. CASE UNCHANGED vars
  BY <1>3 DEF vars, procVars, Inv, TypeOK, Truth, Truthful, Newer, Once, Undisturbed, Memory,
     InStep, UpToDate, BannerOncePerTag, At, Mark
<1> QED
  BY <1>1, <1>2, <1>3 DEF Next

\* However many checks overlap, end early or lose what they saved: every state
\* that can still reach the file tells the truth, and an undisturbed check
\* saves what it has announced.
THEOREM ChecksTellTheTruth == Spec => []Inv
<1>1. Init => Inv
  BY InvInit
<1>2. Inv /\ [Next]_vars => Inv'
  BY InvStep
<1> QED
  BY <1>1, <1>2, PTL DEF Spec

\* What is marked as announced was announced, and only newer releases are.
THEOREM MarkedAlwaysShown == Spec => []MarkedMeansShown
<1>1. Inv => MarkedMeansShown
  BY DEF Inv, Truth, Truthful, Newer, MarkedMeansShown
<1> QED
  BY <1>1, ChecksTellTheTruth, PTL

\* For any number of releases and any interval, undisturbed checks show the
\* banner of a tag once.
THEOREM BannerAlwaysOncePerTag == Spec => []BannerOncePerTag
<1>1. Inv => BannerOncePerTag
  BY DEF Inv, Once, BannerOncePerTag
<1> QED
  BY <1>1, ChecksTellTheTruth, PTL
=============================================================================
