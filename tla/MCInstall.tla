------------------------------ MODULE MCInstall ------------------------------
(* The two long steps of thlibo install, which share no state: the migration *)
(* from 0.5 and the inferd daemon.  A behaviour is one of either.            *)
(*                                                                           *)
(* Of inferd there are four versions; the first is too old.  GitHub has no  *)
(* release, a candidate before the release, or a draft and a candidate.      *)
EXTENDS InferdInstall, Migration

Release(v, suffix) ==
  [version |-> v, suffix |-> suffix, flagged |-> FALSE, draft |-> FALSE]

MCReleaseLists ==
  {<<>>, <<Release(3, TRUE), Release(2, FALSE)>>, <<Release(3, FALSE)>>,
   <<[Release(3, FALSE) EXCEPT !.draft = TRUE], [Release(2, TRUE) EXCEPT !.flagged = TRUE]>>}

NoMigration ==
  /\ sameFS = FALSE /\ old = [m \in Models |-> "none"]
  /\ store = [m \in Models |-> "model"] /\ oldDir = FALSE /\ remains = {}
  /\ at = "off" /\ todo = {} /\ file = "none"

NoInferd ==
  /\ os = "linux" /\ releases = <<>> /\ bin = [d \in Dirs |-> None]
  /\ libs = None /\ unit = FALSE /\ live = NoDaemon
  /\ pc = "off" /\ got = [bin |-> None, libs |-> None] /\ r = Nothing

InstallInit == (Init /\ NoMigration) \/ (MigrateInit /\ NoInferd)

InstallNext ==
  \/ pc # "off" /\ Next /\ UNCHANGED migrateVars
  \/ at # "off" /\ MigrateNext /\ UNCHANGED vars

InstallSpec == InstallInit /\ [][InstallNext]_<<vars, migrateVars>>
=============================================================================
