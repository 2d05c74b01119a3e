---------------------------- MODULE InferdInstall ----------------------------
(* What thlibo install does about the inferd daemon (internal/install,       *)
(* InstallInferd): use the one that runs, start the one on disk, or download *)
(* a release and place it.  An install may be repeated, may fail at every    *)
(* step and may be killed between any two; daemons come and go by themselves *)
(* and binaries are put on $PATH by others.                                  *)
(*                                                                           *)
(* A version is a number.  0 stands for no file, no daemon or no version in  *)
(* an answer, and a file that is not whole is Torn.                          *)
EXTENDS Integers, Sequences

CONSTANTS
  Platforms,    \* the operating systems considered
  Versions,     \* versions of inferd
  MinVersion,   \* MinInferdVersion
  Pins,         \* what --inferd-version may say; 0: not given
  ReleaseLists, \* what GitHub may answer, newest first
  Oversized,    \* releases with a member larger than the extraction's cap
  Bare          \* releases whose archive has no backends folder

ASSUME InferdAssumption ==
  /\ Platforms \subseteq {"linux", "darwin", "windows"}
  /\ Versions \subseteq Nat \ {0} /\ MinVersion \in Versions
  /\ Pins \subseteq Versions \cup {0}
  /\ Oversized \subseteq Versions /\ Bare \subseteq Versions
  /\ ReleaseLists \subseteq
       Seq([version : Versions, suffix : BOOLEAN, flagged : BOOLEAN, draft : BOOLEAN])

None == 0
Torn == -1    \* a file that was not written to its end
Garbage == -2 \* a version string that is no version

Dirs == {"path", "stable"} \* a directory of $PATH, and the one thlibo installs into

NoDaemon == [version |-> None, dir |-> "stable", managed |-> FALSE]
Nothing == [how |-> "none", version |-> None, pinned |-> FALSE, reachable |-> FALSE]

VARIABLES
  os,       \* the platform
  releases, \* the releases on GitHub
  bin,      \* the inferd-daemon in each directory
  libs,     \* the backends beside the stable one
  unit,     \* the autostart entry exists
  live,     \* the daemon that runs: version, where from, known to the service manager?
  pc,       \* where the install stands
  got,      \* what the extracted archive holds: its binary and its backends
  r         \* the result

files == <<bin, libs, unit>>
vars == <<os, releases, files, live, pc, got, r>>

\* What may be there before the first install: another's daemon, on $PATH or not.
Init ==
  /\ os \in Platforms
  /\ releases \in ReleaseLists
  /\ bin \in [Dirs -> Versions \cup {None}] /\ bin["stable"] = None
  /\ libs = None
  /\ unit = FALSE
  /\ live \in {NoDaemon} \cup
       {[version |-> bin["path"], dir |-> "path", managed |-> m] : m \in BOOLEAN}
  /\ pc = "idle"
  /\ got = [bin |-> None, libs |-> None]
  /\ r = Nothing

Goto(l) == pc' = l
At(l) == pc = l
Up == live.version # None

\* The orchestrator returns.
Finish(how) ==
  /\ Goto("idle")
  /\ r' = [r EXCEPT !.how = how]
  /\ got' = [bin |-> None, libs |-> None]

Begin ==
  /\ At("idle")
  /\ \E pin \in Pins : r' = [Nothing EXCEPT !.version = pin, !.pinned = pin # None]
  /\ Goto("probe")
  /\ UNCHANGED <<os, releases, files, live, got>>

-----------------------------------------------------------------------------
(* 1. Is a daemon reachable?                                                 *)

\* Wrong on purpose: what cannot be parsed counts as 0.0.0.
GarbageIsOldest(v) == v # None /\ v < MinVersion

\* looksLikeVersion and versionIsOlder: what is no version is not old.
VersionIsOlder(v) == v \in Versions /\ v < MinVersion

\* findInstalledInferdBinary: $PATH comes first.
Found == IF bin["path"] # None THEN "path" ELSE "stable"

\* readBinaryVersion: a torn binary does not run.
BinaryVersion(dir) == IF bin[dir] = Torn THEN None ELSE bin[dir]

\* The last version in the frames of the admin snapshot: the daemon's own, a
\* development build's, or none when it was too slow to send one.
Reported == {live.version, Garbage, None}

VersionOf(reported) == IF reported # None THEN reported ELSE BinaryVersion(Found)

UsedExisting ==
  /\ At("probe") /\ Up
  /\ \E v \in Reported :
       ~VersionIsOlder(VersionOf(v)) /\ Finish("used")
  /\ UNCHANGED <<os, releases, files, live>>

TooOld ==
  /\ At("probe") /\ Up
  /\ \E v \in Reported : VersionIsOlder(VersionOf(v))
  /\ Goto("stop")
  /\ UNCHANGED <<os, releases, files, live, got, r>>

\* Nobody listens, or the dial takes more than its two seconds.
Unreachable ==
  /\ At("probe")
  /\ Goto("find")
  /\ UNCHANGED <<os, releases, files, live, got, r>>

\* stopInferd: the service manager stops what it knows; errors are ignored.
StopInferd ==
  /\ At("stop")
  /\ UNCHANGED live \/ (live.managed /\ live' = NoDaemon)
  /\ Goto("find")
  /\ UNCHANGED <<os, releases, files, got, r>>

-----------------------------------------------------------------------------
(* 2. Is a binary on disk?                                                   *)

FindBinary ==
  /\ At("find")
  /\ Goto(IF bin[Found] = None \/ VersionIsOlder(BinaryVersion(Found))
          THEN "fetch" ELSE "start")
  /\ UNCHANGED <<os, releases, files, live, got, r>>

\* The daemon aborts when its backends are not there; two cannot share a socket.
Comes(dir) ==
  dir = "path" \/ (bin["stable"] \in Versions /\ libs = bin["stable"])

Launched(dir, managed) ==
  IF Up THEN live
  ELSE IF Comes(dir) THEN [version |-> bin[dir], dir |-> dir, managed |-> managed]
  ELSE NoDaemon

Started ==
  /\ r' = [r EXCEPT !.how = "started", !.version = BinaryVersion(Found)]
  /\ Goto("idle")

\* systemctl start, launchctl bootstrap or kickstart, sc start: the entry, if
\* it is registered, runs the stable binary.  launchctl's errors are ignored.
StartService ==
  /\ At("start") /\ unit
  /\ live' = Launched("stable", TRUE) \/ (os = "darwin" /\ UNCHANGED live)
  /\ Started
  /\ UNCHANGED <<os, releases, files, got>>

\* Linux without a unit: the binary is spawned, and nobody supervises it.
SpawnDetached ==
  /\ At("start") /\ os = "linux" /\ bin[Found] # Torn
  /\ live' = Launched(Found, FALSE)
  /\ Started
  /\ UNCHANGED <<os, releases, files, got>>

\* No entry, or the spawn fails: two notes and no error.
StartFails ==
  /\ At("start")
  /\ os = "darwin" => ~unit
  /\ Finish("unstarted")
  /\ UNCHANGED <<os, releases, files, live>>

-----------------------------------------------------------------------------
(* 3. A fresh install.                                                       *)

\* Wrong on purpose: GitHub's flag is trusted, which inferd does not set.
FlagDecides(rel) == ~rel.draft /\ ~rel.flagged

\* isPrereleaseTag and GitHub's own flags: the tag's suffix is what counts.
IsStable(rel) == ~rel.draft /\ ~rel.flagged /\ ~rel.suffix

StableOnes == {i \in DOMAIN releases : IsStable(releases[i])}

Resolve ==
  /\ At("fetch")
  /\ \/ r.pinned /\ UNCHANGED r
     \/ /\ ~r.pinned
        /\ \E i \in StableOnes :
             /\ \A j \in StableOnes : i <= j
             /\ r' = [r EXCEPT !.version = releases[i].version]
  /\ Goto("pull")
  /\ UNCHANGED <<os, releases, files, live, got>>

ResolveFails ==
  /\ At("fetch") /\ ~r.pinned
  /\ Finish("error")
  /\ UNCHANGED <<os, releases, files, live>>

\* Download and extraction; what cosign says is a note at most.  A member that
\* is larger than 200 MiB ends there, and nobody is told; of an older release
\* the libraries lie beside the binary, where nobody looks for them.
Extracted(v) ==
  [bin |-> v, libs |-> IF v \in Bare THEN None ELSE IF v \in Oversized THEN Torn ELSE v]

Pull ==
  /\ At("pull")
  /\ got' = Extracted(r.version)
  /\ Goto("bin")
  /\ UNCHANGED <<os, releases, files, live, r>>

\* No such asset, no network, the download's cap, a broken archive.
PullFails ==
  /\ At("pull")
  /\ Finish("error")
  /\ UNCHANGED <<os, releases, files, live>>

\* A running program cannot be written to, but on macOS.
Writable == os = "darwin" \/ ~Up \/ live.dir # "stable"

\* copyFile truncates first and leaves what it has written when it fails.
CopyBin ==
  /\ At("bin") /\ Writable
  /\ bin' = [bin EXCEPT !["stable"] = got.bin]
  /\ Goto("libs")
  /\ UNCHANGED <<os, releases, libs, unit, live, got, r>>

CopyBinFails ==
  /\ At("bin")
  /\ UNCHANGED bin \/ (Writable /\ bin' = [bin EXCEPT !["stable"] = Torn])
  /\ Finish("error")
  /\ UNCHANGED <<os, releases, libs, unit, live>>

\* What the archive has no backends for stays as it was.
Copied == IF got.libs = None THEN libs ELSE got.libs

\* Wrong on purpose: a library that cannot be copied is passed over.
BestEffort ==
  /\ At("libs")
  /\ libs' \in {Copied, Torn}
  /\ Goto("activate")
  /\ UNCHANGED <<os, releases, bin, unit, live, got, r>>

\* copyBackends: every library of the folder, or an error; no folder is none.
CopyBackends ==
  /\ At("libs")
  /\ libs' = Copied
  /\ Goto("activate")
  /\ UNCHANGED <<os, releases, bin, unit, live, got, r>>

CopyBackendsFails ==
  /\ At("libs")
  /\ libs' \in {libs, Torn}
  /\ Finish("error")
  /\ UNCHANGED <<os, releases, bin, unit, live>>

\* The launch agent's script, which wants a library beside the binary,
\* systemctl enable --now, or install.ps1.
Activate ==
  /\ At("activate")
  /\ os = "darwin" => libs # None
  /\ unit' = TRUE
  /\ live' = Launched("stable", TRUE)
  /\ Goto("wait")
  /\ UNCHANGED <<os, releases, bin, libs, got, r>>

\* The unit file is written before systemctl fails; a failed install.ps1 is
\* for the user to repeat, and no error.
ActivateFails ==
  /\ At("activate")
  /\ UNCHANGED unit \/ (os = "linux" /\ unit' = TRUE)
  /\ Finish(IF os = "windows" THEN "manual" ELSE "error")
  /\ UNCHANGED <<os, releases, bin, libs, live>>

\* waitForInferdReady: a daemon answers within fifteen seconds, or it does not.
InstalledFresh ==
  /\ At("wait")
  /\ \E ok \in BOOLEAN :
       /\ ok => Up
       /\ r' = [r EXCEPT !.how = "fresh", !.reachable = ok]
  /\ Goto("idle")
  /\ got' = [bin |-> None, libs |-> None]
  /\ UNCHANGED <<os, releases, files, live>>

-----------------------------------------------------------------------------
(* The rest of the world, and the whole.                                     *)

Killed ==
  /\ ~At("idle")
  /\ Finish("killed")
  /\ UNCHANGED <<os, releases, files, live>>

DaemonDies ==
  /\ Up /\ live' = NoDaemon
  /\ UNCHANGED <<os, releases, files, pc, got, r>>

\* A login starts what is registered; nobody logs in while an install runs.
Login ==
  /\ At("idle") /\ unit
  /\ live' = Launched("stable", TRUE)
  /\ UNCHANGED <<os, releases, files, pc, got, r>>

InstallInferd ==
  \/ Begin \/ UsedExisting \/ TooOld \/ Unreachable \/ StopInferd
  \/ FindBinary \/ StartService \/ SpawnDetached \/ StartFails
  \/ Resolve \/ ResolveFails \/ Pull \/ PullFails
  \/ CopyBin \/ CopyBinFails \/ CopyBackends \/ CopyBackendsFails
  \/ Activate \/ ActivateFails \/ InstalledFresh

Next == InstallInferd \/ Killed \/ DaemonDies \/ Login

Spec == Init /\ [][Next]_vars

-----------------------------------------------------------------------------
(* What must hold.                                                           *)

\* An install neither takes down nor overwrites a daemon that is recent enough,
\* whatever it says of its version and however often the install is repeated,
\* unless an older binary on $PATH is taken for its own (InstallInferd, #132).
HealthyLeftAlone ==
  [][ pc' # pc /\ live.version >= MinVersion /\ ~VersionIsOlder(bin["path"])
        => live' = live /\ (live.dir = "stable" => UNCHANGED bin) ]_vars

\* After a fresh install binary and autostart entry are there and of the version
\* chosen, whatever earlier installs have left half done, and so are the
\* backends, if the archive has the folder and no member of it is too large
\* (runInferdInstaller, copyBackends, extractTarGz).
FreshIsWhole ==
  r.how = "fresh" =>
    /\ bin["stable"] = r.version /\ unit
    /\ r.version \in Bare \cup Oversized \/ libs = r.version

\* Unless the user pins one, the version installed is the newest that is no
\* draft, no prerelease and no candidate by its tag (fetchLatestInferdTag).
StableUnlessPinned ==
  r.how = "fresh" /\ ~r.pinned =>
    \E i \in DOMAIN releases :
      /\ releases[i].version = r.version
      /\ ~releases[i].suffix /\ ~releases[i].flagged /\ ~releases[i].draft
      /\ \A j \in 1..(i - 1) :
           releases[j].suffix \/ releases[j].flagged \/ releases[j].draft
=============================================================================
