---------------------------- MODULE InstallProofs ----------------------------
(* What holds of thlibo install for any versions, pins, releases and models: *)
(* a healthy daemon is left alone, a fresh install is whole and stable       *)
(* (InferdInstall), and no model is lost on its way (Migration).             *)
EXTENDS InferdInstall, Migration, TLAPS

Known == Versions \cup {None}
File == Known \cup {Torn}
Release == [version : Versions, suffix : BOOLEAN, flagged : BOOLEAN, draft : BOOLEAN]
Working == {"probe", "stop", "find", "start", "fetch", "pull", "bin", "libs", "activate", "wait"}
Ways == {"none", "used", "started", "unstarted", "fresh", "manual", "error", "killed"}

TypeOK ==
  /\ os \in Platforms /\ releases \in ReleaseLists
  /\ bin \in [Dirs -> File] /\ bin["path"] # Torn
  /\ libs \in File /\ unit \in BOOLEAN
  /\ live \in [version : Known, dir : Dirs, managed : BOOLEAN]
  /\ pc \in Working \cup {"idle"}
  /\ got \in [bin : File, libs : File]
  /\ r \in [how : Ways, version : Known, pinned : BOOLEAN, reachable : BOOLEAN]

Healthy == live.version >= MinVersion /\ ~VersionIsOlder(bin["path"])

\* A daemon is the binary of its directory, unless it is too old to be kept and
\* macOS has let its binary be overwritten; an install that means to replace a
\* daemon has not met a healthy one.
Spared ==
  /\ Up /\ live.dir = "path" => live.version = bin["path"]
  /\ Healthy =>
       /\ live.dir = "stable" => bin["stable"] = live.version
       /\ pc \notin {"stop", "fetch", "pull", "bin", "libs"}

\* Unless the archive has none, the libraries are those of the version.
LibsDone == r.version \in Bare \/ libs = Extracted(r.version).libs

\* What an install has placed so far, where it stands.
Placed ==
  /\ ~At("idle") => r.how = "none" /\ (r.pinned => r.version # None)
  /\ At("bin") => got = Extracted(r.version)
  /\ At("libs") => got.libs = Extracted(r.version).libs
  /\ At("pull") \/ At("bin") \/ At("libs") => r.version # None
  /\ At("libs") \/ At("activate") \/ At("wait") => bin["stable"] = r.version
  /\ At("activate") \/ At("wait") => LibsDone
  /\ At("wait") => unit
  /\ r.how = "fresh" => bin["stable"] = r.version /\ LibsDone /\ unit

\* The version is that of the newest release that counts as stable.
Newest(v) ==
  \E i \in StableOnes : (\A j \in StableOnes : i <= j) /\ releases[i].version = v

Chosen ==
  ~r.pinned /\ (pc \in {"pull", "bin", "libs", "activate", "wait"} \/ r.how = "fresh") =>
    Newest(r.version)

Inv == TypeOK /\ Spared /\ Placed /\ Chosen

-----------------------------------------------------------------------------
(* The types.                                                                *)

LEMMA Numbers ==
  /\ Known \subseteq Int /\ File \subseteq Int /\ Versions \subseteq Int
  /\ 0 \in Known /\ 0 \notin Versions /\ -1 \notin Known /\ -2 \notin Known
  /\ MinVersion \in Versions /\ MinVersion > 0
BY InferdAssumption DEF Known, File, None, Torn

LEMMA FoundThere ==
  ASSUME TypeOK
  PROVE  Found \in Dirs /\ bin[Found] \in File /\ BinaryVersion(Found) \in Known
BY DEF TypeOK, Found, BinaryVersion, Dirs, File, Known

LEMMA LaunchedType ==
  ASSUME TypeOK, NEW dir \in Dirs, bin[dir] # Torn \/ dir = "stable", NEW m \in BOOLEAN
  PROVE  Launched(dir, m) \in [version : Known, dir : Dirs, managed : BOOLEAN]
<1>1. NoDaemon \in [version : Known, dir : Dirs, managed : BOOLEAN]
  BY DEF NoDaemon, Known, Dirs
<1>2. Comes(dir) => bin[dir] \in Known
  BY DEF Comes, TypeOK, File, Known, Dirs
<1> QED
  BY <1>1, <1>2 DEF Launched, TypeOK

LEMMA FinishType ==
  ASSUME TypeOK, NEW how \in Ways, Finish(how)
  PROVE  /\ pc' = "idle" /\ r'.how = how
         /\ r'.version = r.version /\ r'.pinned = r.pinned
         /\ r' \in [how : Ways, version : Known, pinned : BOOLEAN, reachable : BOOLEAN]
         /\ got' \in [bin : File, libs : File]
BY DEF TypeOK, Finish, Goto, File, Known

LEMMA TypeInit ==
  ASSUME Init
  PROVE  TypeOK
<1>1. NoDaemon \in [version : Known, dir : Dirs, managed : BOOLEAN]
  BY DEF NoDaemon, Known, Dirs
<1>2. bin \in [Dirs -> File] /\ bin["path"] \in Known
  BY DEF Init, Known, File, Dirs
<1>3. bin["path"] # Torn
  BY <1>2, Numbers DEF Torn
<1>4. live \in [version : Known, dir : Dirs, managed : BOOLEAN]
  BY <1>1, <1>2 DEF Init, Dirs
<1>5. r \in [how : Ways, version : Known, pinned : BOOLEAN, reachable : BOOLEAN]
  BY DEF Init, Nothing, Ways, Known
<1>6. got \in [bin : File, libs : File] /\ libs \in File
  BY DEF Init, File, Known
<1> QED
  BY <1>2, <1>3, <1>4, <1>5, <1>6 DEF Init, TypeOK

LEMMA ResolveType ==
  ASSUME TypeOK, Resolve
  PROVE  /\ r' \in [how : Ways, version : Known, pinned : BOOLEAN, reachable : BOOLEAN]
         /\ r'.how = r.how /\ r'.pinned = r.pinned
         /\ ~r'.pinned => Newest(r'.version) /\ r'.version # None
<1>1. CASE r.pinned /\ UNCHANGED r
  BY <1>1 DEF TypeOK
<1>2. ASSUME NEW i \in StableOnes, \A j \in StableOnes : i <= j,
             r' = [r EXCEPT !.version = releases[i].version]
      PROVE  /\ r' \in [how : Ways, version : Known, pinned : BOOLEAN, reachable : BOOLEAN]
             /\ r'.how = r.how /\ r'.pinned = r.pinned
             /\ ~r'.pinned => Newest(r'.version) /\ r'.version # None
  <2>1. releases \in Seq(Release) /\ i \in DOMAIN releases
    BY InferdAssumption DEF TypeOK, StableOnes, Release
  <2>2. releases[i] \in Release
    BY <2>1
  <2>3. releases[i].version \in Versions
    BY <2>2 DEF Release
  <2> QED
    BY <1>2, <2>3, Numbers DEF TypeOK, Known, Newest, None
<1> QED
  BY <1>1, <1>2 DEF Resolve

LEMMA TypeInstall ==
  ASSUME TypeOK, InstallInferd
  PROVE  TypeOK'
<1> USE DEF files, At, Goto, Working
<1>1. ASSUME Begin PROVE TypeOK'
  <2>1. PICK pin \in Pins : r' = [Nothing EXCEPT !.version = pin, !.pinned = pin # None]
    BY <1>1 DEF Begin
  <2>2. (pin # None) \in BOOLEAN /\ pin \in Known
    BY InferdAssumption DEF Known, None
  <2>3. r' \in [how : Ways, version : Known, pinned : BOOLEAN, reachable : BOOLEAN]
    BY <2>1, <2>2 DEF Nothing, Ways
  <2> QED
    BY <1>1, <2>3 DEF Begin, TypeOK
<1>2. ASSUME UsedExisting \/ StartFails \/ ResolveFails \/ PullFails PROVE TypeOK'
  <2>1. \E how \in Ways : Finish(how)
    BY <1>2 DEF UsedExisting, StartFails, ResolveFails, PullFails, Ways
  <2> QED
    BY <1>2, <2>1, FinishType DEF UsedExisting, StartFails, ResolveFails, PullFails, TypeOK
<1>3. ASSUME TooOld \/ Unreachable \/ FindBinary PROVE TypeOK'
  BY <1>3 DEF TooOld, Unreachable, FindBinary, TypeOK
<1>4. ASSUME StopInferd PROVE TypeOK'
  <2>1. NoDaemon \in [version : Known, dir : Dirs, managed : BOOLEAN]
    BY DEF NoDaemon, Known, Dirs
  <2> QED
    BY <1>4, <2>1 DEF StopInferd, TypeOK
<1>5. ASSUME StartService \/ SpawnDetached PROVE TypeOK'
  <2>1. live' \in [version : Known, dir : Dirs, managed : BOOLEAN]
    BY <1>5, LaunchedType, FoundThere DEF StartService, SpawnDetached, TypeOK, Dirs
  <2>2. r' \in [how : Ways, version : Known, pinned : BOOLEAN, reachable : BOOLEAN] /\ pc' = "idle"
    BY <1>5, FoundThere DEF StartService, SpawnDetached, Started, TypeOK, Ways
  <2> QED
    BY <1>5, <2>1, <2>2 DEF StartService, SpawnDetached, TypeOK
<1>6. ASSUME Resolve PROVE TypeOK'
  BY <1>6, ResolveType DEF Resolve, TypeOK
<1>7. ASSUME Pull PROVE TypeOK'
  BY <1>7 DEF Pull, Extracted, TypeOK, File, Known
<1>8. ASSUME CopyBin \/ CopyBackends PROVE TypeOK'
  BY <1>8 DEF CopyBin, CopyBackends, Copied, TypeOK, Dirs
<1>9. ASSUME CopyBinFails PROVE TypeOK'
  <2>1. Finish("error") /\ "error" \in Ways
    BY <1>9 DEF CopyBinFails, Ways
  <2>2. bin' \in [Dirs -> File] /\ bin'["path"] = bin["path"]
    BY <1>9 DEF CopyBinFails, TypeOK, Dirs, File
  <2> QED
    BY <1>9, <2>1, <2>2, FinishType DEF CopyBinFails, TypeOK
<1>10. ASSUME CopyBackendsFails PROVE TypeOK'
  <2>1. Finish("error") /\ "error" \in Ways
    BY <1>10 DEF CopyBackendsFails, Ways
  <2>2. libs' \in File
    BY <1>10 DEF CopyBackendsFails, TypeOK, File
  <2> QED
    BY <1>10, <2>1, <2>2, FinishType DEF CopyBackendsFails, TypeOK
<1>11. ASSUME Activate PROVE TypeOK'
  BY <1>11, LaunchedType DEF Activate, TypeOK, Dirs
<1>12. ASSUME ActivateFails PROVE TypeOK'
  <2>1. \E how \in Ways : Finish(how)
    BY <1>12 DEF ActivateFails, Ways
  <2> QED
    BY <1>12, <2>1, FinishType DEF ActivateFails, TypeOK
<1>13. ASSUME InstalledFresh PROVE TypeOK'
  BY <1>13 DEF InstalledFresh, TypeOK, Ways, File, Known
<1> QED
  BY <1>1, <1>2, <1>3, <1>4, <1>5, <1>6, <1>7, <1>8, <1>9, <1>10, <1>11, <1>12, <1>13
  DEF InstallInferd

LEMMA TypeNext ==
  ASSUME TypeOK, Next
  PROVE  TypeOK'
<1>1. ASSUME Killed PROVE TypeOK'
  <2>1. Finish("killed") /\ "killed" \in Ways
    BY <1>1 DEF Killed, Ways
  <2> QED
    BY <1>1, <2>1, FinishType DEF Killed, TypeOK, files
<1>2. ASSUME DaemonDies PROVE TypeOK'
  BY <1>2 DEF DaemonDies, TypeOK, NoDaemon, Known, Dirs, files
<1>3. ASSUME Login PROVE TypeOK'
  BY <1>3, LaunchedType DEF Login, TypeOK, Dirs, files
<1> QED
  BY <1>1, <1>2, <1>3, TypeInstall DEF Next

-----------------------------------------------------------------------------
(* A healthy daemon is spared.                                               *)

LEMMA NoDaemonFacts ==
  NoDaemon.version = 0 /\ NoDaemon.dir = "stable" /\ ~(NoDaemon.version >= MinVersion)
<1>1. NoDaemon.version = 0 /\ NoDaemon.dir = "stable"
  BY DEF NoDaemon, None
<1>2. MinVersion \in Int /\ MinVersion > 0
  BY Numbers
<1> QED
  BY <1>1, <1>2

LEMMA HealthyUp ==
  ASSUME TypeOK, Healthy
  PROVE  Up /\ live.version \in Versions /\ live.version # Torn /\ ~(live.version < MinVersion)
<1>1. live.version \in Known
  BY DEF TypeOK
<1>2. live.version \in Int /\ MinVersion \in Int /\ MinVersion > 0
  BY <1>1, Numbers
<1>3. live.version > 0 /\ ~(live.version < MinVersion)
  BY <1>2 DEF Healthy
<1> QED
  BY <1>1, <1>2, <1>3 DEF Up, None, Known, Torn

\* While a healthy daemon runs, the binary that would be found is not too old.
LEMMA HealthyFound ==
  ASSUME TypeOK, Spared, Healthy
  PROVE  bin[Found] # None /\ ~VersionIsOlder(BinaryVersion(Found))
<1>1. Up /\ live.version \in Versions /\ live.version # Torn /\ ~(live.version < MinVersion)
  BY HealthyUp
<1>2. CASE bin["path"] # None
  BY <1>2 DEF Found, BinaryVersion, TypeOK, Healthy
<1>3. CASE bin["path"] = None
  <2>1. live.dir = "stable"
    BY <1>1, <1>3 DEF Spared, Up, TypeOK, Dirs
  <2>2. bin["stable"] = live.version
    BY <2>1 DEF Spared
  <2>3. Found = "stable" /\ BinaryVersion("stable") = live.version
    BY <1>1, <1>3, <2>2 DEF Found, BinaryVersion
  <2> QED
    BY <1>1, <2>2, <2>3 DEF VersionIsOlder, Up
<1> QED
  BY <1>2, <1>3

\* What is too old is not healthy, whatever it reports.
LEMMA TooOldIsNot ==
  ASSUME TypeOK, Spared, TooOld
  PROVE  ~Healthy
<1> SUFFICES ASSUME Healthy PROVE FALSE
  OBVIOUS
<1>1. PICK v \in Reported : VersionIsOlder(VersionOf(v))
  BY DEF TooOld
<1>2. Up /\ live.version \in Versions /\ live.version # Torn /\ ~(live.version < MinVersion)
  BY HealthyUp
<1>3. CASE v = live.version
  BY <1>1, <1>2, <1>3 DEF VersionOf, VersionIsOlder, Up
<1>4. CASE v = Garbage
  <2>1. Garbage \notin Versions /\ Garbage # None
    BY Numbers DEF Garbage, Known, None
  <2> QED
    BY <1>1, <1>4, <2>1 DEF VersionOf, VersionIsOlder
<1>5. CASE v = None
  BY <1>1, <1>5, HealthyFound DEF VersionOf
<1> QED
  BY <1>1, <1>3, <1>4, <1>5 DEF Reported

\* A daemon that is launched is the binary of its directory.
LEMMA LaunchSpares ==
  ASSUME TypeOK, Spared, NEW dir \in Dirs, NEW m \in BOOLEAN,
         live' \in {live, Launched(dir, m)}, UNCHANGED bin,
         pc' \notin {"stop", "fetch", "pull", "bin", "libs"}
  PROVE  Spared'
<1>1. CASE live' = live
  BY <1>1 DEF Spared, Healthy, Up, VersionIsOlder
<1>2. CASE ~Up /\ live' = [version |-> bin[dir], dir |-> dir, managed |-> m]
  BY <1>2 DEF Spared, Healthy, Up, VersionIsOlder, Dirs
<1>3. CASE live' = NoDaemon
  BY <1>3, NoDaemonFacts DEF Spared, Healthy, Up, None
<1> QED
  BY <1>1, <1>2, <1>3 DEF Launched

LEMMA StaysSpared ==
  ASSUME TypeOK, Spared, UNCHANGED <<bin, live>>,
         pc' \in {"stop", "fetch", "pull", "bin", "libs"} => ~Healthy
  PROVE  Spared'
BY DEF Spared, Healthy, Up, VersionIsOlder

LEMMA SparedNext ==
  ASSUME TypeOK, TypeOK', Spared, Next
  PROVE  Spared'
<1> USE DEF files, At, Goto
<1>1. ASSUME Begin \/ UsedExisting \/ Unreachable \/ StartFails \/ ResolveFails \/ PullFails
             \/ CopyBackendsFails \/ ActivateFails \/ InstalledFresh \/ Killed
      PROVE  Spared'
  <2>1. pc' \in {"probe", "find", "idle"} /\ UNCHANGED <<bin, live>>
    BY <1>1 DEF Begin, UsedExisting, Unreachable, StartFails, ResolveFails, PullFails,
       CopyBackendsFails, ActivateFails, InstalledFresh, Killed, Finish
  <2> QED
    BY <2>1, StaysSpared
<1>2. ASSUME TooOld PROVE Spared'
  BY <1>2, TooOldIsNot, StaysSpared DEF TooOld
<1>3. ASSUME FindBinary PROVE Spared'
  BY <1>3, HealthyFound, StaysSpared DEF FindBinary
<1>4. ASSUME Resolve \/ Pull \/ CopyBackends PROVE Spared'
  <2>1. pc \in {"fetch", "pull", "libs"} /\ UNCHANGED <<bin, live>>
    BY <1>4 DEF Resolve, Pull, CopyBackends
  <2>2. ~Healthy
    BY <2>1 DEF Spared
  <2> QED
    BY <2>1, <2>2, StaysSpared
<1>5. ASSUME CopyBin \/ CopyBinFails PROVE Spared'
  <2>1. pc = "bin" /\ bin'["path"] = bin["path"] /\ live' = live
    BY <1>5 DEF CopyBin, CopyBinFails, TypeOK, Dirs
  <2>2. ~Healthy
    BY <2>1 DEF Spared
  <2> QED
    BY <2>1, <2>2 DEF Spared, Healthy, Up, VersionIsOlder
<1>6. ASSUME StopInferd PROVE Spared'
  <2>1. pc = "stop" /\ pc' = "find" /\ bin' = bin /\ live' \in {live, NoDaemon}
    BY <1>6 DEF StopInferd
  <2>2. ~Healthy
    BY <2>1 DEF Spared
  <2> QED
    BY <2>1, <2>2, NoDaemonFacts, StaysSpared DEF Spared, Healthy, Up, None
<1>7. ASSUME StartService \/ SpawnDetached \/ Activate \/ Login PROVE Spared'
  <2>1. /\ \E dir \in Dirs, m \in BOOLEAN : live' \in {live, Launched(dir, m)}
        /\ bin' = bin /\ pc' \in {"idle", "wait"}
    BY <1>7, FoundThere DEF StartService, SpawnDetached, Activate, Login, Started, Dirs
  <2> QED
    BY <2>1, LaunchSpares
<1>8. ASSUME DaemonDies PROVE Spared'
  BY <1>8, NoDaemonFacts DEF DaemonDies, Spared, Healthy, Up, None
<1> QED
  BY <1>1, <1>2, <1>3, <1>4, <1>5, <1>6, <1>7, <1>8 DEF Next, InstallInferd

-----------------------------------------------------------------------------
(* What is placed is what was chosen.                                        *)

LEMMA PlacedNext ==
  ASSUME TypeOK, Placed, Next
  PROVE  Placed'
<1> USE DEF files, At, Goto, Placed, LibsDone, Extracted
<1>1. ASSUME Begin PROVE Placed'
  BY <1>1 DEF Begin, Nothing, TypeOK
<1>2. ASSUME UsedExisting \/ StartFails \/ ResolveFails \/ PullFails \/ CopyBinFails
             \/ CopyBackendsFails \/ ActivateFails \/ Killed
      PROVE  Placed'
  <2>1. \E how \in Ways \ {"fresh"} : Finish(how)
    BY <1>2 DEF UsedExisting, StartFails, ResolveFails, PullFails, CopyBinFails,
       CopyBackendsFails, ActivateFails, Killed, Ways
  <2>2. pc' = "idle" /\ r'.how # "fresh"
    BY <2>1, FinishType
  <2> QED
    BY <2>2
<1>3. ASSUME TooOld \/ Unreachable \/ StopInferd \/ FindBinary PROVE Placed'
  BY <1>3 DEF TooOld, Unreachable, StopInferd, FindBinary
<1>4. ASSUME StartService \/ SpawnDetached PROVE Placed'
  BY <1>4 DEF StartService, SpawnDetached, Started, TypeOK
<1>5. ASSUME Resolve PROVE Placed'
  BY <1>5, ResolveType DEF Resolve
<1>6. ASSUME Pull PROVE Placed'
  BY <1>6 DEF Pull
<1>7. ASSUME CopyBin PROVE Placed'
  BY <1>7 DEF CopyBin, TypeOK, Dirs
<1>8. ASSUME CopyBackends PROVE Placed'
  <2>1. At("libs") /\ got.libs = Extracted(r.version).libs /\ r.version # None
    BY <1>8 DEF CopyBackends
  <2>2. r.version \notin Bare => got.libs # None
    BY <2>1, Numbers DEF None, Torn
  <2>3. r.version \notin Bare => libs' = Extracted(r.version).libs
    BY <1>8, <2>1, <2>2 DEF CopyBackends, Copied
  <2>4. LibsDone'
    BY <1>8, <2>3 DEF CopyBackends
  <2>5. pc' = "activate" /\ UNCHANGED <<bin, unit, r>>
    BY <1>8 DEF CopyBackends
  <2> HIDE DEF LibsDone, Extracted
  <2> QED
    BY <1>8, <2>1, <2>4, <2>5
<1>9. ASSUME Activate PROVE Placed'
  BY <1>9 DEF Activate
<1>10. ASSUME InstalledFresh PROVE Placed'
  BY <1>10 DEF InstalledFresh, TypeOK
<1>11. ASSUME DaemonDies \/ Login PROVE Placed'
  BY <1>11 DEF DaemonDies, Login
<1> QED
  BY <1>1, <1>2, <1>3, <1>4, <1>5, <1>6, <1>7, <1>8, <1>9, <1>10, <1>11 DEF Next, InstallInferd

LEMMA ChosenNext ==
  ASSUME TypeOK, Placed, Chosen, Next
  PROVE  Chosen'
<1> USE DEF files, At, Goto
<1>1. releases' = releases
  BY DEF Next, InstallInferd, Begin, UsedExisting, TooOld, Unreachable, StopInferd, FindBinary,
     StartService, SpawnDetached, StartFails, Resolve, ResolveFails, Pull, PullFails, CopyBin,
     CopyBinFails, CopyBackends, CopyBackendsFails, Activate, ActivateFails, InstalledFresh,
     Killed, DaemonDies, Login
<1>2. \A v : Newest(v)' <=> Newest(v)
  BY <1>1 DEF Newest, StableOnes, IsStable
<1>3. ASSUME Begin PROVE Chosen'
  BY <1>3 DEF Begin, Nothing, Chosen
<1>4. ASSUME UsedExisting \/ StartFails \/ ResolveFails \/ PullFails \/ CopyBinFails
             \/ CopyBackendsFails \/ ActivateFails \/ Killed
      PROVE  Chosen'
  <2>1. \E how \in Ways \ {"fresh"} : Finish(how)
    BY <1>4 DEF UsedExisting, StartFails, ResolveFails, PullFails, CopyBinFails,
       CopyBackendsFails, ActivateFails, Killed, Ways
  <2>2. pc' = "idle" /\ r'.how # "fresh"
    BY <2>1, FinishType
  <2> QED
    BY <2>2 DEF Chosen
<1>5. ASSUME StartService \/ SpawnDetached PROVE Chosen'
  BY <1>5 DEF StartService, SpawnDetached, Started, TypeOK, Chosen
<1>6. ASSUME Resolve PROVE Chosen'
  BY <1>2, <1>6, ResolveType DEF Resolve, Chosen
<1>7. ASSUME TooOld \/ Unreachable \/ StopInferd \/ FindBinary PROVE Chosen'
  BY <1>7 DEF TooOld, Unreachable, StopInferd, FindBinary, Chosen, Placed
<1>8. ASSUME Pull \/ CopyBin \/ CopyBackends \/ Activate \/ DaemonDies \/ Login PROVE Chosen'
  BY <1>2, <1>8 DEF Pull, CopyBin, CopyBackends, Activate, DaemonDies, Login, Chosen
<1>9. ASSUME InstalledFresh PROVE Chosen'
  BY <1>2, <1>9 DEF InstalledFresh, Chosen, TypeOK
<1> QED
  BY <1>3, <1>4, <1>5, <1>6, <1>7, <1>8, <1>9 DEF Next, InstallInferd

-----------------------------------------------------------------------------
(* The invariant of the inferd installation.                                 *)

LEMMA InvInit ==
  ASSUME Init
  PROVE  Inv
<1>1. TypeOK
  BY TypeInit
<1>2. Spared
  <2>1. live = NoDaemon \/ (live.version = bin["path"] /\ live.dir = "path")
    BY DEF Init
  <2>2. pc = "idle"
    BY DEF Init
  <2> QED
    BY <2>1, <2>2, NoDaemonFacts DEF Spared, Healthy, Up, None
<1>3. Placed
  BY DEF Init, Placed, At, Nothing
<1>4. Chosen
  BY DEF Init, Chosen, Nothing
<1> QED
  BY <1>1, <1>2, <1>3, <1>4 DEF Inv

LEMMA InvStutter ==
  ASSUME Inv, UNCHANGED vars
  PROVE  Inv'
BY DEF Inv, vars, files, TypeOK, Spared, Healthy, Up, VersionIsOlder, Placed, LibsDone, At,
   Chosen, Newest, StableOnes, IsStable

\* However installs, kills, logins and the deaths of daemons interleave, an
\* install that means to replace a daemon has met one that is too old, and
\* what it has placed is what it chose (InstallInferd).
THEOREM InstallInOrder == Spec => []Inv
<1>1. Inv /\ [Next]_vars => Inv'
  BY TypeNext, SparedNext, PlacedNext, ChosenNext, InvStutter DEF Inv
<1> QED
  BY <1>1, InvInit, PTL DEF Spec

\* No step of an install takes down or overwrites a daemon that is recent
\* enough (InstallInferd, stopInferd, copyFile).
THEOREM HealthyAlwaysLeftAlone == Spec => HealthyLeftAlone
<1> DEFINE Alone == pc' # pc /\ live.version >= MinVersion /\ ~VersionIsOlder(bin["path"])
                      => live' = live /\ (live.dir = "stable" => UNCHANGED bin)
<1>1. Inv /\ [Next]_vars => [Alone]_vars
  <2> SUFFICES ASSUME Inv, Next, pc' # pc, Healthy
               PROVE  live' = live /\ bin' = bin
    BY DEF Healthy
  <2>1. Up /\ pc \notin {"stop", "fetch", "pull", "bin", "libs"}
    BY HealthyUp DEF Inv, Spared
  <2>2. \A dir \in Dirs, m \in BOOLEAN : Launched(dir, m) = live
    BY <2>1 DEF Launched
  <2> QED
    BY <2>1, <2>2, FoundThere DEF Next, InstallInferd, Begin, UsedExisting, TooOld, Unreachable, StopInferd,
     FindBinary, StartService, SpawnDetached, StartFails, Resolve, ResolveFails, Pull, PullFails,
     CopyBin, CopyBinFails, CopyBackends, CopyBackendsFails, Activate, ActivateFails,
     InstalledFresh, Killed, DaemonDies, Login, At, files, Inv, Dirs
<1> QED
  BY <1>1, InstallInOrder, PTL DEF Spec, HealthyLeftAlone

\* After a fresh install everything is there and of one version, whatever was
\* left half done before, but for the backends of a release whose archive has
\* none or one that is larger than what the extraction takes
\* (runInferdInstaller, copyBackends, extractTarGz).
THEOREM FreshAlwaysWhole == Spec => []FreshIsWhole
<1>1. Inv => FreshIsWhole
  BY DEF Inv, Placed, LibsDone, Extracted, FreshIsWhole
<1> QED
  BY <1>1, InstallInOrder, PTL

\* What is installed without a pin is the newest release that is no draft and
\* no prerelease, whichever list GitHub answers with (fetchLatestInferdTag).
THEOREM AlwaysStableUnlessPinned == Spec => []StableUnlessPinned
<1>1. ASSUME Inv PROVE StableUnlessPinned
  <2> SUFFICES ASSUME r.how = "fresh", ~r.pinned
               PROVE  \E i \in DOMAIN releases :
                        /\ releases[i].version = r.version
                        /\ ~releases[i].suffix /\ ~releases[i].flagged /\ ~releases[i].draft
                        /\ \A j \in 1..(i - 1) :
                             releases[j].suffix \/ releases[j].flagged \/ releases[j].draft
    BY DEF StableUnlessPinned
  <2>1. PICK i \in StableOnes : (\A j \in StableOnes : i <= j) /\ releases[i].version = r.version
    BY <1>1 DEF Inv, Chosen, Newest
  <2>2. releases \in Seq(Release)
    BY <1>1, InferdAssumption DEF Inv, TypeOK, Release
  <2>3. DOMAIN releases = 1..Len(releases) /\ Len(releases) \in Nat
    BY <2>2
  <2>4. i \in 1..Len(releases) /\ IsStable(releases[i])
    BY <2>1, <2>3 DEF StableOnes
  <2>5. \A j \in 1..(i - 1) : j \in 1..Len(releases) /\ ~(i <= j)
    BY <2>3, <2>4
  <2>6. \A j \in 1..(i - 1) : ~IsStable(releases[j])
    BY <2>1, <2>3, <2>5 DEF StableOnes
  <2> QED
    BY <2>1, <2>3, <2>4, <2>6 DEF IsStable
<1> QED
  BY <1>1, InstallInOrder, PTL

-----------------------------------------------------------------------------
(* The migration.                                                            *)

Busy == at \in {"compare", "copy", "unlink"}

\* The file that is being moved is still where it was; a copy that is done is
\* the model; what is gone from the old place is in the store.
Moving ==
  /\ old \in [Models -> {"none", "model", "empty"}]
  /\ store \in [Models -> Contents]
  /\ todo \subseteq {m \in Models : old[m] # "none"}
  /\ Busy => file \in Models \ todo /\ old[file] # "none"
  /\ at = "unlink" => store[file] = old[file]
  /\ ModelNeverLost

LEMMA MovingInit ==
  ASSUME MigrateInit
  PROVE  Moving
<1>1. store \in [Models -> Contents] /\ old \in [Models -> {"none", "model", "empty"}]
  BY DEF MigrateInit, Contents
<1> QED
  BY <1>1 DEF MigrateInit, Moving, Busy, ModelNeverLost

LEMMA MovingNext ==
  ASSUME Moving, MigrateNext
  PROVE  Moving'
<1> USE DEF Moving, Busy, ModelNeverLost, To
<1>1. ASSUME Exorcise \/ Pick \/ NotMoved \/ MigrateKilled PROVE Moving'
  BY <1>1 DEF Exorcise, Pick, NotMoved, MigrateKilled
<1>8. ASSUME RemoveOldDir PROVE Moving'
  <2>1. oldDir' = oldDir \/ oldDir' = (\E m \in Models : old[m] # "none")
    BY <1>8 DEF RemoveOldDir
  <2>2. \A m \in Models : old[m] # "none" => oldDir'
    <3>1. \A m \in Models : old[m] # "none" => oldDir
      OBVIOUS
    <3>2. CASE oldDir' = oldDir
      BY <3>1, <3>2
    <3>3. CASE oldDir' = (\E m \in Models : old[m] # "none")
      <4>1. ASSUME \E m \in Models : old[m] # "none" PROVE oldDir'
        BY <3>3, <4>1
      <4> QED
        BY <4>1
    <3> QED
      BY <2>1, <3>2, <3>3
  <2> QED
    BY <1>8, <2>2 DEF RemoveOldDir
<1>2. ASSUME DropOld PROVE Moving'
  <2>1. file \in Models /\ old[file] \in {"model", "empty"} /\ store[file] \in Contents
    BY <1>2 DEF DropOld
  <2>2. store[file] = "model"
    BY <1>2, <2>1 DEF DropOld, AlreadyAtNew, Size, Contents
  <2> QED
    BY <1>2, <2>1, <2>2 DEF DropOld
<1>3. ASSUME Rename PROVE Moving'
  <2>1. file \in Models \ todo /\ old[file] \in {"model", "empty"}
    BY <1>3 DEF Rename
  <2>2. store' \in [Models -> Contents] /\ old' \in [Models -> {"none", "model", "empty"}]
    BY <1>3, <2>1 DEF Rename, Contents
  <2> QED
    BY <1>3, <2>1, <2>2 DEF Rename
<1>4. ASSUME OpenCopy PROVE Moving'
  <2>1. file \in Models \ todo /\ old[file] # "none"
    BY <1>4 DEF OpenCopy
  <2>2. store' \in [Models -> Contents]
    BY <1>4, <2>1 DEF OpenCopy, Contents
  <2> QED
    BY <1>4, <2>1, <2>2 DEF OpenCopy
<1>5. ASSUME CopyFile PROVE Moving'
  <2>1. file \in Models \ todo /\ old[file] \in {"model", "empty"}
    BY <1>5 DEF CopyFile
  <2>2. store' \in [Models -> Contents]
    BY <1>5, <2>1 DEF CopyFile, Contents
  <2> QED
    BY <1>5, <2>1, <2>2 DEF CopyFile
<1>6. ASSUME CopyFileFails PROVE Moving'
  <2>1. file \in Models \ todo /\ old[file] # "none"
    BY <1>6 DEF CopyFileFails
  <2>2. store' \in [Models -> Contents]
    BY <1>6, <2>1 DEF CopyFileFails, Contents
  <2> QED
    BY <1>6, <2>1, <2>2 DEF CopyFileFails
<1>7. ASSUME Unlink PROVE Moving'
  <2>1. file \in Models \ todo /\ store[file] = old[file] /\ old[file] \in {"model", "empty"}
    BY <1>7 DEF Unlink
  <2> QED
    BY <1>7, <2>1 DEF Unlink
<1> QED
  BY <1>1, <1>2, <1>3, <1>4, <1>5, <1>6, <1>7, <1>8 DEF MigrateNext

\* However often the migration fails, is killed and is repeated, a model that
\* has left the old directory is whole in the store (MigrateFromV05).
THEOREM ModelsNeverLost == MigrateSpec => []ModelNeverLost
<1>1. Moving /\ UNCHANGED migrateVars => Moving'
  BY DEF Moving, Busy, ModelNeverLost, migrateVars
<1>2. Moving /\ [MigrateNext]_migrateVars => Moving'
  BY <1>1, MovingNext
<1>3. Moving => ModelNeverLost
  BY DEF Moving
<1> QED
  BY <1>2, <1>3, MovingInit, PTL DEF MigrateSpec
=============================================================================
