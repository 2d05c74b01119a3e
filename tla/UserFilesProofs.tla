--------------------------- MODULE UserFilesProofs ---------------------------
(* What thlibo does to files that are not its own, for any user, any answers *)
(* of the model and any number of commands: the hook script a user has       *)
(* edited, what others have in the hosts' settings, and what an install and  *)
(* an uninstall leave there (Setup); the instructions that shorthand         *)
(* rewrites (Shorthand).                                                     *)
EXTENDS HookSettingsProofs, Setup, Shorthand

-----------------------------------------------------------------------------
(* Setup: a hook script that the user has edited.                            *)

Scripts == [body : Int, stamp : Nat, runs : BOOLEAN]

\* The steps of the commands: none of an install's takes a script away.
Installing ==
  {"mirror", "claude script", "claude hooks", "codex script", "codex hook", "codex flag",
   "codex stale", "cursor script", "cursor hooks", "copilot script", "copilot hooks"}

Removing ==
  {"remove claude hooks", "remove claude script", "remove copilot hooks",
   "remove copilot script", "remove codex toml", "remove codex json",
   "remove codex script", "remove cursor hooks", "remove cursor script", "purge"}

\* A stamp is that of a version, or none: it never names what an edited or
\* half-written script holds.
SetupInv ==
  /\ version \in Nat \ {0}
  /\ script \in [Hosts -> Scripts]
  /\ todo \in Seq(Installing \cup Removing)
  /\ cmd = "install" => todo \in Seq(Installing)
  /\ cmd = "uninstall" => todo \in Seq(Removing)

\* An install takes only the steps of installs.
LEMMA StepsOfInstall ==
  ASSUME NEW hosts
  PROVE  InstallSteps(hosts) \in Seq(Installing)
<1> DEFINE Of(h) == IF h \in hosts THEN HostSteps(h) ELSE <<>>
           first == <<"mirror", "claude script", "claude hooks">>
<1>1. first \in Seq(Installing)
  BY DEF Installing
<1>2. HostSteps("codex") \in Seq(Installing)
  <2>1. HostSteps("codex") = <<"codex script", "codex hook", "codex flag", "codex stale">>
    BY DEF HostSteps
  <2>2. <<"codex script", "codex hook", "codex flag", "codex stale">> \in Seq(Installing)
    BY DEF Installing
  <2> QED
    BY <2>1, <2>2
<1>3. HostSteps("cursor") \in Seq(Installing)
  <2>1. HostSteps("cursor") = <<"cursor script", "cursor hooks">>
    BY DEF HostSteps
  <2>2. <<"cursor script", "cursor hooks">> \in Seq(Installing)
    BY DEF Installing
  <2> QED
    BY <2>1, <2>2
<1>4. HostSteps("copilot") \in Seq(Installing)
  <2>1. HostSteps("copilot") = <<"copilot script", "copilot hooks">>
    BY DEF HostSteps
  <2>2. <<"copilot script", "copilot hooks">> \in Seq(Installing)
    BY DEF Installing
  <2> QED
    BY <2>1, <2>2
<1>5. Of("codex") \in Seq(Installing) /\ Of("cursor") \in Seq(Installing)
      /\ Of("copilot") \in Seq(Installing)
  BY <1>2, <1>3, <1>4
<1>6. InstallSteps(hosts) = first \o Of("codex") \o Of("cursor") \o Of("copilot")
  BY DEF InstallSteps
<1> HIDE DEF first, Of
<1> QED
  BY <1>1, <1>5, <1>6

\* An uninstall takes only the steps of uninstalls.
LEMMA StepsOfUninstall ==
  ASSUME NEW purge
  PROVE  UninstallSteps(purge) \in Seq(Removing)
<1> DEFINE first == <<"remove claude hooks", "remove claude script", "remove copilot hooks",
                      "remove copilot script", "remove codex toml", "remove codex json",
                      "remove codex script", "remove cursor hooks", "remove cursor script">>
           last == IF purge THEN <<"purge">> ELSE <<>>
<1>1. first \in Seq(Removing)
  BY DEF Removing
<1>2. last \in Seq(Removing)
  <2>1. <<"purge">> \in Seq(Removing) /\ <<>> \in Seq(Removing)
    BY DEF Removing
  <2> QED
    BY <2>1
<1>3. UninstallSteps(purge) = first \o last
  BY DEF UninstallSteps
<1> HIDE DEF first, last
<1> QED
  BY <1>1, <1>2, <1>3

\* The rest of a command has no other steps than the command.
LEMMA StepsLeft ==
  ASSUME SetupInv, todo # <<>>
  PROVE  /\ Tail(todo) \in Seq(Installing \cup Removing)
         /\ cmd = "install" => Tail(todo) \in Seq(Installing) /\ Head(todo) \in Installing
         /\ cmd = "uninstall" => Tail(todo) \in Seq(Removing) /\ Head(todo) \in Removing
BY DEF SetupInv

\* A script that is written in full, or in halves.
LEMMA ScriptsTyped ==
  ASSUME SetupInv, WriteClaudeScript \/ WriteScript \/ DeleteScript \/ Purge \/ TornScript
  PROVE  script' \in [Hosts -> Scripts]
<1> USE DEF SetupInv, Scripts
<1>1. version \in Int /\ \A stamp \in {0, version} : Fresh(stamp) \in Scripts
  BY DEF Fresh
<1>2. NoScript \in Scripts
  BY DEF NoScript
<1>3. CASE WriteClaudeScript
  BY <1>1, <1>3 DEF WriteClaudeScript
<1>4. CASE WriteScript
  BY <1>1, <1>4 DEF WriteScript
<1>5. CASE DeleteScript
  BY <1>2, <1>5 DEF DeleteScript
<1>6. CASE Purge
  BY <1>2, <1>6 DEF Purge
<1>7. CASE TornScript
  <2>1. PICK h \in Hosts, stamp \in {0, version}, body \in {Torn, version} :
          script' = [script EXCEPT ![h] = [body |-> body, stamp |-> stamp, runs |-> script[h].runs]]
    BY <1>7 DEF TornScript
  <2>2. [body |-> body, stamp |-> stamp, runs |-> script[h].runs] \in Scripts
    BY <1>1 DEF Torn
  <2> QED
    BY <2>1, <2>2
<1> QED
  BY <1>3, <1>4, <1>5, <1>6, <1>7

\* Every step keeps that: only versions are stamped.
LEMMA SetupInvKept ==
  ASSUME SetupInv, [Next]_vars
  PROVE  SetupInv'
<1>1. CASE Install
  <2>1. todo' \in Seq(Installing)
    BY <1>1, StepsOfInstall DEF Install
  <2> QED
    BY <1>1, <2>1 DEF Install, SetupInv, others
<1>2. CASE Uninstall
  <2>1. todo' \in Seq(Removing) /\ cmd' = "uninstall"
    BY <1>2, StepsOfUninstall DEF Uninstall
  <2> QED
    BY <1>2, <2>1 DEF Uninstall, SetupInv, others
<1>3. CASE Step
  <2>1. todo # <<>>
    BY <1>3 DEF Step, EditFile, MeetMalformed, WriteClaudeScript, WriteScript, DeleteScript, Mirror,
       Purge, StepFails, Killed, At, Idle
  <2>2. version' = version /\ cmd' = cmd /\ todo' \in {Tail(todo), <<>>}
    <3>1. CASE Done
      BY <3>1 DEF Done, others
    <3>2. CASE GiveUp(Head(todo))
      BY <3>2 DEF GiveUp, others
    <3>3. CASE Killed
      BY <3>3 DEF Killed, others
    <3> QED
      BY <1>3, <3>1, <3>2, <3>3 DEF Step, EditFile, MeetMalformed, WriteClaudeScript, WriteScript,
         DeleteScript, Mirror, Purge, StepFails
  <2>3. /\ todo' \in Seq(Installing \cup Removing)
        /\ cmd = "install" => todo' \in Seq(Installing)
        /\ cmd = "uninstall" => todo' \in Seq(Removing)
    <3>1. CASE todo' = <<>>
      BY <3>1
    <3>2. CASE todo' = Tail(todo)
      BY <2>1, <3>2, StepsLeft
    <3> QED
      BY <2>2, <3>1, <3>2
  <2>4. script' \in [Hosts -> Scripts]
    <3>1. CASE UNCHANGED script
      BY <3>1 DEF SetupInv
    <3>2. CASE WriteClaudeScript \/ WriteScript \/ DeleteScript \/ Purge \/ TornScript
      BY <3>2, ScriptsTyped
    <3> QED
      BY <1>3, <3>1, <3>2 DEF Step, EditFile, MeetMalformed, Mirror, StepFails, Killed, TornFile, Unharmed
  <2> QED
    BY <2>2, <2>3, <2>4 DEF SetupInv
<1>4. CASE UserAdds
  BY <1>4 DEF UserAdds, SetupInv
<1>5. CASE UserEdits
  <2>1. version' = version /\ todo' = todo /\ cmd' = "none"
    BY <1>5 DEF UserEdits, others
  <2>2. script' \in [Hosts -> Scripts]
    <3>1. PICK s \in {script["claude"].stamp, 0} :
            script' = [script EXCEPT !["claude"] = [@ EXCEPT !.body = Edited, !.stamp = s]]
      <4>1. script["claude"] \in Scripts
        BY DEF SetupInv, Hosts
      <4>2. [script["claude"] EXCEPT !.body = Edited]
              = [script["claude"] EXCEPT !.body = Edited, !.stamp = script["claude"].stamp]
        BY <4>1 DEF Scripts
      <4>3. \/ script' = [script EXCEPT !["claude"] = [script["claude"] EXCEPT !.body = Edited]]
            \/ script' = [script EXCEPT !["claude"] = [script["claude"] EXCEPT !.body = Edited, !.stamp = 0]]
        BY <1>5 DEF UserEdits
      <4> QED
        BY <4>2, <4>3
    <3>2. script["claude"] \in Scripts /\ s \in Nat /\ Edited \in Int
      BY DEF SetupInv, Scripts, Edited, Hosts
    <3>3. [script["claude"] EXCEPT !.body = Edited, !.stamp = s] \in Scripts
      BY <3>2 DEF Scripts
    <3> QED
      BY <3>1, <3>3 DEF SetupInv
  <2> QED
    BY <2>1, <2>2 DEF SetupInv
<1>6. CASE Upgrade
  BY <1>6 DEF Upgrade, SetupInv
<1>7. CASE UNCHANGED vars
  BY <1>7 DEF vars, command, others, SetupInv
<1> QED
  BY <1>1, <1>2, <1>3, <1>4, <1>5, <1>6, <1>7 DEF Next

\* It holds at first.
LEMMA SetupInitInv == Init => SetupInv
<1> SUFFICES ASSUME Init PROVE SetupInv
  OBVIOUS
<1>1. PICK old \in {NoScript, [body |-> 1, stamp |-> 0, runs |-> TRUE]} :
        script = [h \in Hosts |-> IF h = "claude" THEN old ELSE NoScript]
  BY DEF Init
<1>2. NoScript \in Scripts
  BY DEF NoScript, Scripts
<1>3. [body |-> 1, stamp |-> 0, runs |-> TRUE] \in Scripts
  BY DEF Scripts
<1>4. script \in [Hosts -> Scripts]
  BY <1>1, <1>2, <1>3
<1> QED
  BY <1>4 DEF Init, SetupInv

\* A script whose body is the user's is a conflict, or is taken for this very
\* version: nothing replaces it.
LEMMA EditedIsKept ==
  ASSUME SetupInv, script["claude"].body = Edited
  PROVE  Verdict(script["claude"]) # "replaced"
<1> DEFINE s == script["claude"]
<1>1. s.stamp \in Nat /\ version \in Nat \ {0} /\ s.body = Edited
  BY DEF SetupInv, Hosts, Scripts
<1>2. s.body # 0 /\ s.body # version /\ s.body # s.stamp
  BY <1>1 DEF Edited
<1> HIDE DEF s
<1>3. Verdict(s) # "replaced"
  BY <1>2 DEF Verdict
<1> QED
  BY <1>3 DEF s

\* Installs, whatever they meet and however they end, leave the user's edit of
\* a hook script alone; it goes with an uninstall only (writeHookBytes).
THEOREM EditsAlwaysSurvive == Spec => EditsSurvive
<1>1. SetupInv /\ [Next]_vars =>
        [cmd = "install" /\ ~Idle /\ script["claude"].body = Edited
           => script'["claude"].body = Edited]_vars
  <2> SUFFICES ASSUME SetupInv, Next, cmd = "install", ~Idle, script["claude"].body = Edited
               PROVE  script'["claude"].body = Edited
    OBVIOUS
  <2>1. Head(todo) \in Installing
    BY StepsLeft DEF SetupInv, Idle
  <2>2. Verdict(script["claude"]) # "replaced"
    BY EditedIsKept
  <2>3. Step
    BY DEF Next, Install, Uninstall, UserAdds, UserEdits, Upgrade
  <2>4. ~DeleteScript /\ ~Purge
    <3>1. \A h \in Hosts : RemovalStep[h] \notin Installing
      <4>1. /\ RemovalStep["claude"] = "remove claude script"
            /\ RemovalStep["codex"] = "remove codex script"
            /\ RemovalStep["cursor"] = "remove cursor script"
            /\ RemovalStep["copilot"] = "remove copilot script"
        BY DEF RemovalStep
      <4> QED
        BY <4>1 DEF Installing, Hosts
    <3>2. "purge" \notin Installing
      BY DEF Installing
    <3> QED
      BY <2>1, <3>1, <3>2 DEF DeleteScript, Purge, At
  <2>5. CASE UNCHANGED script
    BY <2>5
  <2>6. CASE WriteClaudeScript
    BY <2>2, <2>6 DEF WriteClaudeScript
  <2>7. CASE WriteScript
    BY <2>7 DEF WriteScript, SetupInv
  <2>8. CASE TornScript
    BY <2>2, <2>8 DEF TornScript, SetupInv
  <2> QED
    BY <2>3, <2>4, <2>5, <2>6, <2>7, <2>8
       DEF Step, EditFile, MeetMalformed, Mirror, StepFails, Killed, TornFile, Unharmed
<1>2. SetupInv /\ [Next]_vars => SetupInv'
  BY SetupInvKept
<1> QED
  BY SetupInitInv, <1>1, <1>2, PTL DEF Spec, EditsSurvive

-----------------------------------------------------------------------------
(* Setup: what others have in the files.                                     *)

\* The file that is thlibo's own.
CopilotHooks == <<<<"pre", "shell">>, <<"post", "any">>>>

\* What a file may hold.
FileTyped(f, c) ==
  CASE f \in {"claude", "json"} -> c \in Seq(Groups) \cup {Malformed}
    [] f = "cursor"  -> c \in Seq(Hooks) \cup {Malformed}
    [] f = "toml"    -> WellFormed(c)
    [] f = "copilot" -> c \in {<<>>, CopilotHooks, Malformed}

\* What each of the files may hold.
LEMMA FileNames ==
  /\ Files = {"claude", "toml", "json", "cursor", "copilot"}
  /\ \A c : FileTyped("claude", c) <=> c \in Seq(Groups) \cup {Malformed}
  /\ \A c : FileTyped("json", c) <=> c \in Seq(Groups) \cup {Malformed}
  /\ \A c : FileTyped("cursor", c) <=> c \in Seq(Hooks) \cup {Malformed}
  /\ \A c : FileTyped("toml", c) <=> WellFormed(c)
  /\ \A c : FileTyped("copilot", c) <=> c \in {<<>>, CopilotHooks, Malformed}
BY DEF Files, FileTyped

\* A file that cannot be read is none that can.
LEMMA NotMalformed ==
  /\ \A c \in Seq(Groups) : c # Malformed
  /\ \A c \in Seq(Hooks) : c # Malformed
  /\ <<>> # Malformed /\ CopilotHooks # Malformed
<1>1. Len(Malformed) = 1 /\ Malformed[1] = [malformed |-> TRUE] /\ 1 \in 1..1
  BY DEF Malformed
<1>2. [malformed |-> TRUE] \notin Groups
  <2> SUFFICES ASSUME [malformed |-> TRUE] \in Groups PROVE FALSE
    OBVIOUS
  <2>1. DOMAIN [malformed |-> TRUE] = {"malformed"}
    OBVIOUS
  <2>2. \A g \in Groups : DOMAIN g = {"matcher", "hooks"}
    BY DEF Groups
  <2>3. "matcher" \in {"malformed"}
    BY <2>1, <2>2
  <2> QED
    BY <2>3
<1>3. [malformed |-> TRUE] \notin Hooks
  <2> SUFFICES ASSUME [malformed |-> TRUE] \in Hooks PROVE FALSE
    OBVIOUS
  <2>1. DOMAIN [malformed |-> TRUE] = {"malformed"}
    OBVIOUS
  <2>2. \A h \in Hooks : DOMAIN h = 1..2
    BY DEF Hooks
  <2>3. 1 \in {"malformed"} /\ 2 \in {"malformed"}
    BY <2>1, <2>2
  <2> QED
    BY <2>3
<1>4. \A c \in Seq(Groups) : c # Malformed
  <2> SUFFICES ASSUME NEW c \in Seq(Groups), c = Malformed PROVE FALSE
    OBVIOUS
  <2>0. 1 \in DOMAIN c
    <3>1. Len(c) = 1
      BY <1>1
    <3> QED
      BY <3>1
  <2>1. c[1] \in Groups
    BY <2>0
  <2> QED
    BY <1>1, <1>2, <2>1
<1>5. \A c \in Seq(Hooks) : c # Malformed
  <2> SUFFICES ASSUME NEW c \in Seq(Hooks), c = Malformed PROVE FALSE
    OBVIOUS
  <2>0. 1 \in DOMAIN c
    <3>1. Len(c) = 1
      BY <1>1
    <3> QED
      BY <3>1
  <2>1. c[1] \in Hooks
    BY <2>0
  <2> QED
    BY <1>1, <1>3, <2>1
<1>6. Len(<<>>) = 0 /\ Len(CopilotHooks) = 2
  BY DEF CopilotHooks
<1>7. <<>> # Malformed /\ CopilotHooks # Malformed
  BY <1>1, <1>6
<1> QED
  BY <1>4, <1>5, <1>7

\* What is not thlibo's in a file.
LEMMA UsersPartIs ==
  /\ \A f \in {"claude", "json"}, c \in Seq(Groups) :
       UsersPart(f, c) = [matcher \in Matchers |-> UsersOf(c, matcher)]
  /\ \A c \in Seq(Hooks) : UsersPart("cursor", c) = Only(c, UsersHooks)
  /\ \A c : WellFormed(c) => UsersPart("toml", c) = Only(c, UsersLines)
  /\ \A c \in {<<>>, CopilotHooks} : UsersPart("copilot", c) = <<>>
<1>1. ASSUME NEW f \in {"claude", "json"}, NEW c \in Seq(Groups)
      PROVE  UsersPart(f, c) = [matcher \in Matchers |-> UsersOf(c, matcher)]
  <2>1. ASSUME NEW matcher
        PROVE  Select(HooksOf(Select(c, LAMBDA g : g.matcher = matcher)), IsUser) = UsersOf(c, matcher)
    <3>1. Select(c, LAMBDA g : g.matcher = matcher) = Only(c, With(matcher))
      BY GroupsSelected
    <3>2. HooksOf(Only(c, With(matcher))) \in Seq(Hooks)
      BY OnlyType, HooksOfType
    <3> QED
      BY <3>1, <3>2, Selected DEF UsersOf
  <2>2. c # Malformed
    BY NotMalformed
  <2>3. UsersPart(f, c) = [matcher \in Matchers |->
                             Select(HooksOf(Select(c, LAMBDA g : g.matcher = matcher)), IsUser)]
    BY <2>2 DEF UsersPart
  <2> QED
    BY <2>1, <2>3
<1>2. ASSUME NEW c \in Seq(Hooks) PROVE UsersPart("cursor", c) = Only(c, UsersHooks)
  <2>1. c # Malformed
    BY NotMalformed
  <2>2. UsersPart("cursor", c) = Select(c, IsUser)
    BY <2>1 DEF UsersPart
  <2> QED
    BY <2>2, Selected
<1>3. ASSUME NEW c, WellFormed(c) PROVE UsersPart("toml", c) = Only(c, UsersLines)
  <2>0. c \in Seq(Hooks)
    BY <1>3 DEF WellFormed
  <2>1. c # Malformed
    BY <2>0, NotMalformed
  <2>2. UsersPart("toml", c) = Select(c, LAMBDA l : l[2] = "user")
    BY <2>1 DEF UsersPart
  <2> QED
    BY <2>0, <2>2, Selected DEF UsersLines
<1>4. ASSUME NEW c \in {<<>>, CopilotHooks} PROVE UsersPart("copilot", c) = <<>>
  <2>1. c # Malformed
    BY NotMalformed
  <2> QED
    BY <2>1 DEF UsersPart
<1> QED
  BY <1>1, <1>2, <1>3, <1>4

\* A file of groups that has what it had of the user's.
LEMMA GroupsKeep ==
  ASSUME NEW f \in {"claude", "json"}, NEW c \in Seq(Groups), NEW d \in Seq(Groups),
         \A m : UsersOf(d, m) = UsersOf(c, m)
  PROVE  FileTyped(f, d) /\ UsersPart(f, d) = UsersPart(f, c)
<1>1. UsersPart(f, d) = [matcher \in Matchers |-> UsersOf(d, matcher)]
      /\ UsersPart(f, c) = [matcher \in Matchers |-> UsersOf(c, matcher)]
  BY UsersPartIs
<1> QED
  BY <1>1, FileNames

\* Each file holds what it may hold.
FilesTyped == DOMAIN file = Files /\ \A f \in Files : FileTyped(f, file[f])

\* A file after a step: it holds what it may, and what it had of the user's.
Kept(f, old, new) ==
  /\ FileTyped(f, new)
  /\ IF f = "copilot" THEN new \in {<<>>, CopilotHooks} ELSE UsersPart(f, new) = UsersPart(f, old)

\* The file that a step changes.
LEMMA TargetIs ==
  /\ \A s \in {"claude hooks", "remove claude hooks"} : Target(s) = "claude"
  /\ \A s \in {"cursor hooks", "remove cursor hooks"} : Target(s) = "cursor"
  /\ \A s \in {"copilot hooks", "remove copilot hooks"} : Target(s) = "copilot"
  /\ \A s \in {"codex flag", "remove codex toml"} : Target(s) = "toml"
  /\ \A s \in {"codex stale", "remove codex json"} : Target(s) = "json"
  /\ Target("codex hook") \in {"json", "toml"}
BY DEF Target

\* What a step makes of its file.
LEMMA AfterIs ==
  ASSUME NEW c
  PROVE  /\ After("claude hooks", c) = MergeSettingsAll(c, windows)
         /\ After("cursor hooks", c) = MergeHooksJSON(c)
         /\ After("copilot hooks", c) = CopilotHooks
         /\ After("codex hook", c) = IF Target("codex hook") = "json"
                                     THEN MergeHooksJSONHook(c, Variant(windows))
                                     ELSE MergeConfigTOMLHook(c, Variant(windows))
         /\ After("codex flag", c) = EnsureCodexHooksTrue(c)
         /\ After("codex stale", c) \in {WithoutOurs(c), c}
         /\ After("remove claude hooks", c) = WithoutOurs(c)
         /\ After("remove codex json", c) = WithoutOurs(c)
         /\ After("remove codex toml", c) = RemoveInlineHookBlocks(c)
         /\ After("remove cursor hooks", c) = RemoveHooksJSONEntries(c)
         /\ After("remove copilot hooks", c) = <<>>
BY DEF After, CopilotHooks

\* A s leaves what others have in its file.
LEMMA AfterKeeps ==
  ASSUME FilesTyped, NEW s \in EditSteps, ~Unreadable(s)
  PROVE  Target(s) \in Files /\ Kept(Target(s), file[Target(s)], After(s, file[Target(s)]))
<1> DEFINE f == Target(s)
           c == file[f]
           new == After(s, c)
<1>1. f \in Files /\ FileTyped(f, c)
  <2>1. f \in Files
    BY TargetIs, FileNames DEF EditSteps
  <2> HIDE DEF f
  <2> QED
    BY <2>1 DEF FilesTyped
<1>2. s \notin {"copilot hooks", "remove copilot hooks"} => c # Malformed
  BY DEF Unreadable
<1>3. CASE s = "claude hooks"
  <2>1. f = "claude" /\ new = MergeSettingsAll(c, windows)
    BY <1>3, TargetIs, AfterIs
  <2> HIDE DEF f, c, new
  <2>2. c \in Seq(Groups)
    BY <1>1, <1>2, <1>3, <2>1, FileNames
  <2>3. new \in Seq(Groups) /\ \A m : UsersOf(new, m) = UsersOf(c, m)
    BY <2>1, <2>2, MergeSettingsAllKeeps
  <2>4. Kept(f, c, new)
    BY <2>1, <2>2, <2>3, GroupsKeep DEF Kept
  <2> QED
    BY <1>1, <2>4 DEF f, c, new
<1>4. CASE s \in {"remove claude hooks", "remove codex json"}
  <2>1. f \in {"claude", "json"} /\ new = WithoutOurs(c)
    BY <1>4, TargetIs, AfterIs
  <2> HIDE DEF f, c, new
  <2>2. c \in Seq(Groups)
    <3>1. c # Malformed
      BY <1>2, <1>4
    <3>2. CASE f = "claude"
      BY <1>1, <3>1, <3>2, FileNames
    <3>3. CASE f = "json"
      BY <1>1, <3>1, <3>3, FileNames
    <3> QED
      BY <2>1, <3>2, <3>3
  <2>3. new \in Seq(Groups) /\ \A m : UsersOf(new, m) = UsersOf(c, m)
    BY <2>1, <2>2, WithoutOursKeeps
  <2>4. Kept(f, c, new)
    BY <2>1, <2>2, <2>3, GroupsKeep DEF Kept
  <2> QED
    BY <1>1, <2>4 DEF f, c, new
<1>5. CASE s = "codex stale"
  <2>1. f = "json" /\ new \in {WithoutOurs(c), c}
    BY <1>5, TargetIs, AfterIs
  <2> HIDE DEF f, c, new
  <2>2. c \in Seq(Groups)
    BY <1>1, <1>2, <1>5, <2>1, FileNames
  <2>3. new \in Seq(Groups) /\ \A m : UsersOf(new, m) = UsersOf(c, m)
    BY <2>1, <2>2, WithoutOursKeeps
  <2>4. Kept(f, c, new)
    BY <2>1, <2>2, <2>3, GroupsKeep DEF Kept
  <2> QED
    BY <1>1, <2>4 DEF f, c, new
<1>6. CASE s = "codex hook" /\ f = "json"
  <2>1. f = "json" /\ new = MergeHooksJSONHook(c, Variant(windows))
    BY <1>6, AfterIs
  <2> HIDE DEF f, c, new
  <2>2. c \in Seq(Groups)
    BY <1>1, <1>2, <1>6, <2>1, FileNames
  <2>3. new \in Seq(Groups) /\ \A m : UsersOf(new, m) = UsersOf(c, m)
    BY <2>1, <2>2, MergeHooksJSONHookKeeps, VariantType
  <2>4. Kept(f, c, new)
    BY <2>1, <2>2, <2>3, GroupsKeep DEF Kept
  <2> QED
    BY <1>1, <2>4 DEF f, c, new
<1>7. CASE s = "codex hook" /\ f = "toml"
  <2>1. f = "toml" /\ new = MergeConfigTOMLHook(c, Variant(windows))
    BY <1>7, AfterIs
  <2> HIDE DEF f, c, new
  <2>2. WellFormed(c)
    BY <1>1, <2>1, FileNames
  <2>3. WellFormed(new) /\ Only(new, UsersLines) = Only(c, UsersLines)
    BY <2>1, <2>2, MergeConfigTOMLHookKeeps, VariantType
  <2>4. Kept(f, c, new)
    BY <2>1, <2>2, <2>3, UsersPartIs, FileNames DEF Kept
  <2> QED
    BY <1>1, <2>4 DEF f, c, new
<1>8. CASE s = "codex flag"
  <2>1. f = "toml" /\ new = EnsureCodexHooksTrue(c)
    BY <1>8, TargetIs, AfterIs
  <2> HIDE DEF f, c, new
  <2>2. WellFormed(c)
    BY <1>1, <2>1, FileNames
  <2>3. WellFormed(new) /\ Only(new, UsersLines) = Only(c, UsersLines)
    BY <2>1, <2>2, EnsureCodexHooksTrueKeeps
  <2>4. Kept(f, c, new)
    BY <2>1, <2>2, <2>3, UsersPartIs, FileNames DEF Kept
  <2> QED
    BY <1>1, <2>4 DEF f, c, new
<1>9. CASE s = "remove codex toml"
  <2>1. f = "toml" /\ new = RemoveInlineHookBlocks(c)
    BY <1>9, TargetIs, AfterIs
  <2> HIDE DEF f, c, new
  <2>2. WellFormed(c)
    BY <1>1, <2>1, FileNames
  <2>3. WellFormed(new) /\ Only(new, UsersLines) = Only(c, UsersLines)
    BY <2>1, <2>2, RemoveInlineHookBlocksKeeps
  <2>4. Kept(f, c, new)
    BY <2>1, <2>2, <2>3, UsersPartIs, FileNames DEF Kept
  <2> QED
    BY <1>1, <2>4 DEF f, c, new
<1>10. CASE s \in {"cursor hooks", "remove cursor hooks"}
  <2>1. f = "cursor" /\ new \in {MergeHooksJSON(c), RemoveHooksJSONEntries(c)}
    BY <1>10, TargetIs, AfterIs
  <2> HIDE DEF f, c, new
  <2>2. c \in Seq(Hooks)
    BY <1>1, <1>2, <1>10, <2>1, FileNames
  <2>3. new \in Seq(Hooks) /\ Only(new, UsersHooks) = Only(c, UsersHooks)
    BY <2>1, <2>2, MergeHooksJSONKeeps, RemoveHooksJSONEntriesKeeps
  <2>4. Kept(f, c, new)
    BY <2>1, <2>2, <2>3, UsersPartIs, FileNames DEF Kept
  <2> QED
    BY <1>1, <2>4 DEF f, c, new
<1>11. CASE s \in {"copilot hooks", "remove copilot hooks"}
  <2>1. f = "copilot" /\ new \in {<<>>, CopilotHooks}
    BY <1>11, TargetIs, AfterIs
  <2> HIDE DEF f, c, new
  <2>2. Kept(f, c, new)
    BY <2>1, FileNames DEF Kept
  <2> QED
    BY <1>1, <2>2 DEF f, c, new
<1>12. s = "codex hook" => f \in {"json", "toml"}
  BY TargetIs
<1> QED
  BY <1>3, <1>4, <1>5, <1>6, <1>7, <1>8, <1>9, <1>10, <1>11, <1>12 DEF EditSteps

\* The files hold what thlibo or the user has put there, and what is the
\* user's is what it was.
FilesInv ==
  /\ FilesTyped
  /\ DOMAIN mine = Files /\ mine["copilot"] = <<>>
  /\ OthersSurvive

\* What a user may write is among the hooks and groups.
LEMMA AnyTyped == AnyHooks \subseteq Seq(Hooks) /\ AnyGroups \subseteq Seq(Groups)
<1>1. STRING \subseteq Names
  BY DEF Names
<1>2. STRING \X STRING \subseteq Hooks
  BY <1>1 DEF Hooks
<1>3. AnyHooks \subseteq Seq(Hooks)
  BY <1>2, SeqGrows DEF AnyHooks
<1>4. [matcher : STRING, hooks : AnyHooks] \subseteq Groups
  BY <1>1, <1>3 DEF Groups
<1>5. AnyGroups \subseteq Seq(Groups)
  BY <1>4, SeqGrows DEF AnyGroups
<1> QED
  BY <1>3, <1>5

\* What a user may add to config.toml is in order.
LEMMA SectionsWellFormed ==
  ASSUME NEW new, UsersSections(new)
  PROVE  WellFormed(new)
<1>1. new \in Seq(Hooks) /\ DOMAIN new = 1..Len(new) /\ Len(new) \in Nat
  BY AnyTyped DEF UsersSections
<1>2. ASSUME NEW i \in 1..Len(new)
      PROVE  /\ Sound(new[i]) /\ ~IsOurCommand(new[i]) /\ new[i] \notin Owned
             /\ i = 1 => Text(new[1]) \in Headers
  <2>1. /\ ~IsOurCommand(new[i]) /\ Text(new[i]) # TrustedState
        /\ new[i][2] = IF Text(new[i]) \in Flags THEN "flag" ELSE "user"
    BY <1>1 DEF UsersSections
  <2>2. new # <<>>
    BY <1>1
  <2>3. i = 1 => Text(new[1]) \in Headers
    BY <2>2 DEF UsersSections
  <2>4. new[i][2] # "thlibo"
    BY <2>1
  <2> QED
    BY <2>1, <2>3, <2>4, TextsDiffer DEF Sound, Owned
<1>3. ASSUME NEW i \in 1..Len(new) PROVE WellPlaced(new, i)
  <2>1. CASE i = 1
    BY <1>2, <2>1 DEF WellPlaced, Starts, Owned
  <2>2. CASE i > 1
    <3>1. i - 1 \in 1..Len(new)
      BY <1>1, <2>2
    <3>2. /\ ~IsOurCommand(new[i]) /\ new[i] # OurGroupHook
          /\ ~IsOurCommand(new[i - 1]) /\ new[i - 1] \notin Owned
      BY <1>2, <3>1 DEF Owned
    <3> QED
      BY <2>2, <3>2 DEF WellPlaced, Follows
  <2> QED
    BY <2>1, <2>2
<1> QED
  BY <1>1, <1>2, <1>3 DEF WellFormed

\* What a user adds, before or after what there is, leaves a file in order.
LEMMA ForeignTyped ==
  ASSUME NEW f \in Files \ {"copilot"}, NEW new \in Foreign[f], NEW old, FileTyped(f, old), old # Malformed
  PROVE  FileTyped(f, new \o old) /\ FileTyped(f, old \o new)
<1>1. CASE f \in {"claude", "json"}
  <2>1. FileTyped(f, old) <=> old \in Seq(Groups) \cup {Malformed}
    BY <1>1, FileNames
  <2>2. new \in Seq(Groups)
    BY <1>1, AnyTyped, SetupAssumption
  <2>3. new \o old \in Seq(Groups) /\ old \o new \in Seq(Groups)
    BY <2>1, <2>2
  <2> QED
    BY <1>1, <2>3, FileNames
<1>2. CASE f = "cursor"
  <2>1. old \in Seq(Hooks) /\ new \in Seq(Hooks)
    BY <1>2, AnyTyped, FileNames, SetupAssumption
  <2>2. new \o old \in Seq(Hooks) /\ old \o new \in Seq(Hooks)
    BY <2>1
  <2> QED
    BY <1>2, <2>2, FileNames
<1>3. CASE f = "toml"
  <2>1. WellFormed(old)
    BY <1>3, FileNames
  <2>2. WellFormed(new)
    <3>1. UsersSections(new)
      BY <1>3, SetupAssumption
    <3> QED
      BY <3>1, SectionsWellFormed
  <2>3. WellFormed(new \o old) /\ WellFormed(old \o new)
    BY <2>1, <2>2, WellFormedConcat
  <2> QED
    BY <1>3, <2>3, FileNames
<1> QED
  BY <1>1, <1>2, <1>3, FileNames

\* One file after a step of a command.
LEMMA FileChanged ==
  ASSUME FilesInv, NEW f \in Files, NEW new, FileTyped(f, new),
         file' = [file EXCEPT ![f] = new], mine' = mine,
         \/ lost' = lost \cup {f}
         \/ lost' = lost /\ (f \in lost \/ UsersPart(f, new) = mine[f])
  PROVE  FilesInv'
<1>1. DOMAIN file' = Files /\ file'[f] = new /\ \A g \in Files \ {f} : file'[g] = file[g]
  BY DEF FilesInv, FilesTyped
<1>2. FilesTyped'
  BY <1>1 DEF FilesInv, FilesTyped
<1>3. ASSUME NEW g \in Files \ lost' PROVE UsersPart(g, file'[g]) = mine'[g]
  <2>1. g \notin lost
    OBVIOUS
  <2>2. CASE g = f
    BY <1>1, <2>1, <2>2
  <2>3. CASE g # f
    BY <1>1, <2>1, <2>3 DEF FilesInv, OthersSurvive
  <2> QED
    BY <2>2, <2>3
<1> QED
  BY <1>2, <1>3 DEF FilesInv, OthersSurvive

\* A step that comes to its end.
LEMMA EditKeepsFiles ==
  ASSUME FilesInv, EditFile
  PROVE  FilesInv'
<1> DEFINE s == Head(todo)
           f == Target(s)
           new == After(s, file[f])
<1>1. s \in EditSteps /\ ~Unreadable(s) /\ file' = [file EXCEPT ![f] = new] /\ mine' = mine /\ lost' = lost
  BY DEF EditFile, Edits, Done, others
<1>2. f \in Files /\ Kept(f, file[f], new)
  BY <1>1, AfterKeeps DEF FilesInv
<1> HIDE DEF f, new
<1>3. FileTyped(f, new) /\ (f \in lost \/ UsersPart(f, new) = mine[f])
  <2>1. CASE f = "copilot"
    <3>1. UsersPart("copilot", new) = <<>>
      BY <1>2, <2>1, UsersPartIs DEF Kept
    <3> QED
      BY <1>2, <2>1, <3>1 DEF Kept, FilesInv
  <2>2. CASE f # "copilot"
    BY <1>2, <2>2 DEF Kept, FilesInv, OthersSurvive
  <2> QED
    BY <2>1, <2>2
<1> QED
  BY <1>1, <1>2, <1>3, FileChanged

\* A write that is cut short: the file is lost, and still in order.
LEMMA TornKeepsFiles ==
  ASSUME FilesInv, TornFile, mine' = mine
  PROVE  FilesInv'
<1> DEFINE s == Head(todo)
           f == Target(s)
           c == After(s, file[f])
<1>1. s \in EditSteps /\ ~Unreadable(s) /\ lost' = lost \cup {f}
  BY DEF TornFile, Edits
<1>2. PICK rest \in Halves(f, c) : file' = [file EXCEPT ![f] = rest]
  BY DEF TornFile
<1>3. f \in Files /\ Kept(f, file[f], c)
  BY <1>1, AfterKeeps DEF FilesInv
<1> HIDE DEF f, c
<1>4. FileTyped(f, rest)
  <2>1. CASE f = "toml"
    <3>1. WellFormed(c)
      BY <1>3, <2>1, FileNames DEF Kept
    <3>2. PICK k \in 0..(Len(c) - 1) : rest = SubSeq(c, 1, k)
      BY <1>2, <2>1 DEF Halves
    <3>3. Len(c) \in Nat
      BY <3>1 DEF WellFormed
    <3>4. k \in Nat /\ k <= Len(c)
      BY <3>3
    <3> QED
      BY <2>1, <3>1, <3>2, <3>4, WellFormedPrefix, FileNames
  <2>2. CASE f # "toml"
    <3>1. rest \in {Malformed, <<>>}
      BY <1>2, <2>2 DEF Halves
    <3>2. <<>> \in Seq(Groups) /\ <<>> \in Seq(Hooks)
      OBVIOUS
    <3> QED
      BY <1>3, <2>2, <3>1, <3>2, FileNames
  <2> QED
    BY <2>1, <2>2
<1> QED
  BY <1>1, <1>2, <1>3, <1>4, FileChanged

\* The user or another tool adds something.
LEMMA UserKeepsFiles ==
  ASSUME FilesInv, UserAdds
  PROVE  FilesInv'
<1>0. PICK f \in Files \ {"copilot"} : \E new \in Foreign[f] :
        /\ file[f] # Malformed
        /\ \/ file' = [file EXCEPT ![f] = new \o file[f]]
           \/ file' = [file EXCEPT ![f] = file[f] \o new]
        /\ mine' = [mine EXCEPT ![f] = UsersPart(f, file'[f])]
        /\ lost' = lost \ {f}
  BY DEF UserAdds
<1>1. PICK new \in Foreign[f] :
        /\ file[f] # Malformed
        /\ \/ file' = [file EXCEPT ![f] = new \o file[f]]
           \/ file' = [file EXCEPT ![f] = file[f] \o new]
        /\ mine' = [mine EXCEPT ![f] = UsersPart(f, file'[f])]
        /\ lost' = lost \ {f}
  BY <1>0
<1>2. FileTyped(f, new \o file[f]) /\ FileTyped(f, file[f] \o new)
  BY <1>1, ForeignTyped DEF FilesInv, FilesTyped
<1>3. PICK c : FileTyped(f, c) /\ file' = [file EXCEPT ![f] = c]
  BY <1>1, <1>2
<1>4. DOMAIN file' = Files /\ file'[f] = c /\ \A g \in Files \ {f} : file'[g] = file[g]
  BY <1>3 DEF FilesInv, FilesTyped
<1>5. DOMAIN mine' = Files /\ mine'[f] = UsersPart(f, file'[f]) /\ \A g \in Files \ {f} : mine'[g] = mine[g]
  BY <1>1 DEF FilesInv
<1>6. FilesTyped'
  BY <1>3, <1>4 DEF FilesInv, FilesTyped
<1>7. mine'["copilot"] = <<>>
  BY <1>5, FileNames DEF FilesInv
<1>8. ASSUME NEW g \in Files \ lost' PROVE UsersPart(g, file'[g]) = mine'[g]
  <2>1. CASE g = f
    BY <1>5, <2>1
  <2>2. CASE g # f
    <3>1. g \in Files \ lost /\ g \in Files \ {f}
      BY <1>1, <2>2
    <3> QED
      BY <1>4, <1>5, <3>1 DEF FilesInv, OthersSurvive
  <2> QED
    BY <2>1, <2>2
<1> QED
  BY <1>5, <1>6, <1>7, <1>8 DEF FilesInv, OthersSurvive

\* The files at first.
LEMMA FilesInitially == Init => FilesInv
<1> SUFFICES ASSUME Init PROVE FilesInv
  OBVIOUS
<1>1. PICK s \in Settings : file = [f \in Files |-> IF f = "claude" THEN s ELSE <<>>]
  BY DEF Init
<1>2. s \in Seq(Groups) \cup {Malformed} /\ <<>> \in Seq(Groups) /\ <<>> \in Seq(Hooks)
  <2>1. s \in AnyGroups \cup {Malformed}
    BY SetupAssumption
  <2> QED
    BY <2>1, AnyTyped
<1>3. WellFormed(<<>>)
  BY <1>2 DEF WellFormed
<1>4. FilesTyped
  <2>1. DOMAIN file = Files /\ \A f \in Files : file[f] = IF f = "claude" THEN s ELSE <<>>
    BY <1>1
  <2>2. \A f \in Files : FileTyped(f, file[f])
    BY <1>2, <1>3, <2>1, FileNames
  <2> QED
    BY <2>1, <2>2 DEF FilesTyped
<1>5. mine = [f \in Files |-> UsersPart(f, file[f])]
  BY DEF Init
<1>6. mine["copilot"] = <<>>
  <2>1. "copilot" \in Files /\ file["copilot"] = <<>>
    BY <1>1, FileNames
  <2> QED
    BY <1>5, <2>1, UsersPartIs
<1> QED
  BY <1>4, <1>5, <1>6 DEF FilesInv, OthersSurvive

\* No step takes what is the user's.
LEMMA FilesInvKept ==
  ASSUME FilesInv, [Next]_vars
  PROVE  FilesInv'
<1>1. CASE UNCHANGED <<file, mine, lost>>
  BY <1>1 DEF FilesInv, FilesTyped, OthersSurvive
<1>2. CASE EditFile
  BY <1>2, EditKeepsFiles
<1>3. CASE TornFile /\ mine' = mine
  BY <1>3, TornKeepsFiles
<1>4. CASE UserAdds
  BY <1>4, UserKeepsFiles
<1>5. CASE Step
  <2>1. mine' = mine
    BY <1>5 DEF Step, EditFile, MeetMalformed, WriteClaudeScript, WriteScript, DeleteScript, Mirror,
       Purge, StepFails, Killed, Done, GiveUp, others
  <2>2. EditFile \/ TornFile \/ UNCHANGED <<file, lost>>
    BY <1>5 DEF Step, MeetMalformed, WriteClaudeScript, WriteScript, DeleteScript, Mirror,
       Purge, StepFails, Killed, TornScript, Unharmed
  <2> QED
    BY <1>1, <1>2, <1>3, <2>1, <2>2
<1>6. CASE Install \/ Uninstall \/ UserEdits \/ Upgrade \/ UNCHANGED vars
  BY <1>1, <1>6 DEF Install, Uninstall, UserEdits, Upgrade, vars, others
<1> QED
  BY <1>4, <1>5, <1>6 DEF Next

\* Whatever the settings hold at first, whatever the user and other tools add
\* to them, and however often thlibo is installed, upgraded and uninstalled,
\* by commands that fail or are killed as well: what is not thlibo's in a
\* file stays as it was, unless the very write of that file was cut short (the
\* adapters' merges and removals).
THEOREM OthersAlwaysSurvive == Spec => []OthersSurvive
<1>1. FilesInv => OthersSurvive
  BY DEF FilesInv
<1>2. FilesInv /\ [Next]_vars => FilesInv'
  BY FilesInvKept
<1> QED
  BY FilesInitially, <1>1, <1>2, PTL DEF Spec

-----------------------------------------------------------------------------
(* Setup: what an uninstall leaves.                                          *)

\* The steps that take thlibo out of a host.
Removals == Removing \ {"purge"}

\* What a step of an uninstall takes away is not there.
Gone(s) ==
  /\ s = "remove claude hooks" /\ file["claude"] # Malformed => WithoutOurs(file["claude"]) = file["claude"]
  /\ s = "remove codex json" /\ file["json"] # Malformed => WithoutOurs(file["json"]) = file["json"]
  /\ s = "remove codex toml"   => NoCommands(file["toml"])
  /\ s = "remove cursor hooks" /\ file["cursor"] # Malformed =>
       RemoveHooksJSONEntries(file["cursor"]) = file["cursor"]
  /\ s = "remove copilot hooks" => file["copilot"] = <<>>
  /\ \A h \in Hosts : s = RemovalStep[h] => script[h] = NoScript

\* It is yet to be taken.
Pending(s) == \E i \in DOMAIN todo : todo[i] = s

\* What an uninstall has behind it is gone, unless a step of it has failed.
GoneInv ==
  cmd = "uninstall" =>
    /\ clean => \A s \in Removals : Pending(s) \/ Gone(s)
    /\ code = 0 => todo = <<>>

\* The steps that remove the scripts.
LEMMA RemovalSteps ==
  /\ RemovalStep["claude"] = "remove claude script" /\ RemovalStep["codex"] = "remove codex script"
  /\ RemovalStep["cursor"] = "remove cursor script" /\ RemovalStep["copilot"] = "remove copilot script"
  /\ Hosts = {"claude", "codex", "cursor", "copilot"}
BY DEF RemovalStep, Hosts

\* An uninstall has all removals before it.
LEMMA AllAhead ==
  ASSUME NEW purge, NEW s \in Removals
  PROVE  \E i \in DOMAIN UninstallSteps(purge) : UninstallSteps(purge)[i] = s
<1> DEFINE first == <<"remove claude hooks", "remove claude script", "remove copilot hooks",
                      "remove copilot script", "remove codex toml", "remove codex json",
                      "remove codex script", "remove cursor hooks", "remove cursor script">>
           last == IF purge THEN <<"purge">> ELSE <<>>
           all == first \o last
<1>1. UninstallSteps(purge) = all
  BY DEF UninstallSteps
<1>2. \E i \in 1..9 : first[i] = s
  <2>1. /\ first[1] = "remove claude hooks" /\ first[2] = "remove claude script"
        /\ first[3] = "remove copilot hooks" /\ first[4] = "remove copilot script"
        /\ first[5] = "remove codex toml" /\ first[6] = "remove codex json"
        /\ first[7] = "remove codex script" /\ first[8] = "remove cursor hooks"
        /\ first[9] = "remove cursor script"
    OBVIOUS
  <2>2. /\ 1 \in 1..9 /\ 2 \in 1..9 /\ 3 \in 1..9 /\ 4 \in 1..9 /\ 5 \in 1..9 /\ 6 \in 1..9
        /\ 7 \in 1..9 /\ 8 \in 1..9 /\ 9 \in 1..9
    OBVIOUS
  <2>3. s \in {first[1], first[2], first[3], first[4], first[5], first[6], first[7], first[8], first[9]}
    BY <2>1 DEF Removals, Removing
  <2> HIDE DEF first
  <2> QED
    BY <2>2, <2>3
<1>3. first \in Seq(Removing) /\ Len(first) = 9
  BY DEF Removing
<1>4. last \in Seq(Removing)
  <2>1. <<"purge">> \in Seq(Removing) /\ <<>> \in Seq(Removing)
    BY DEF Removing
  <2> QED
    BY <2>1
<1> HIDE DEF first, last
<1>5. Len(last) \in Nat /\ DOMAIN all = 1..(9 + Len(last)) /\ \A i \in 1..9 : all[i] = first[i]
  <2>1. /\ Len(last) \in Nat /\ DOMAIN all = 1..(Len(first) + Len(last))
        /\ \A i \in 1..Len(first) : all[i] = first[i]
    BY <1>3, <1>4, Joined
  <2> QED
    BY <1>3, <2>1
<1> HIDE DEF all
<1>6. PICK i \in 1..9 : first[i] = s
  BY <1>2
<1>7. i \in DOMAIN all /\ all[i] = s
  BY <1>5, <1>6
<1> QED
  BY <1>1, <1>7

\* With its first step done, an uninstall has the others before it.
LEMMA OneLess ==
  ASSUME SetupInv, todo # <<>>, todo' = Tail(todo), NEW s, Pending(s), s # Head(todo)
  PROVE  Pending(s)'
<1>1. todo \in Seq(Installing \cup Removing)
  BY DEF SetupInv
<1>2. PICK i \in DOMAIN todo : todo[i] = s
  BY DEF Pending
<1>3. i \in 2..Len(todo)
  BY <1>1, <1>2
<1>4. i - 1 \in DOMAIN todo' /\ todo'[i - 1] = s
  BY <1>1, <1>2, <1>3
<1> QED
  BY <1>4 DEF Pending

\* A step of an uninstall takes away its own, and brings nothing back.
LEMMA EditIsGone ==
  ASSUME FilesInv, SetupInv, cmd = "uninstall", EditFile
  PROVE  \A r \in Removals : r = Head(todo) \/ Gone(r) => Gone(r)'
<1> DEFINE s == Head(todo)
           f == Target(s)
           c == file[f]
           new == After(s, c)
<1>1. s \in EditSteps \cap Removing /\ ~Unreadable(s)
  BY StepsLeft DEF EditFile, Edits, Idle
<1>2. script' = script /\ file' = [file EXCEPT ![f] = new]
  BY DEF EditFile
<1>3. f \in Files /\ FileTyped(f, c) /\ DOMAIN file = Files
  <2>1. f \in Files
    BY <1>1, TargetIs, FileNames DEF EditSteps
  <2> HIDE DEF f
  <2> QED
    BY <2>1 DEF FilesTyped, FilesInv
<1>4. file'[f] = new /\ \A g \in Files \ {f} : file'[g] = file[g]
  <2> HIDE DEF f, new
  <2> QED
    BY <1>2, <1>3
<1>13. /\ f # "claude" => file'["claude"] = file["claude"]
       /\ f # "json" => file'["json"] = file["json"]
       /\ f # "toml" => file'["toml"] = file["toml"]
       /\ f # "cursor" => file'["cursor"] = file["cursor"]
       /\ f # "copilot" => file'["copilot"] = file["copilot"]
  <2> HIDE DEF f, new
  <2> QED
    BY <1>4 DEF Files
<1>5. s \in {"remove claude hooks", "remove codex json", "remove codex toml",
             "remove cursor hooks", "remove copilot hooks"}
  BY <1>1 DEF EditSteps, Removing
<1>6. s # "remove copilot hooks" => c # Malformed
  BY <1>1, <1>5 DEF Unreadable
<1>7. \A h \in Hosts : s # RemovalStep[h]
  BY <1>5, RemovalSteps
<1>8. CASE s = "remove claude hooks"
  <2>1. f = "claude" /\ new = WithoutOurs(c)
    BY <1>8, TargetIs, AfterIs
  <2> HIDE DEF s, f, c, new
  <2>2. c \in Seq(Groups)
    BY <1>3, <1>6, <1>8, <2>1, FileNames
  <2>3. WithoutOurs(file'["claude"]) = file'["claude"]
    BY <1>4, <2>1, <2>2, WithoutOursTwice
  <2>4. ASSUME NEW r \in Removals, r = s \/ Gone(r) PROVE Gone(r)'
    <3>1. CASE r = s
      BY <1>2, <1>7, <1>8, <2>1, <2>3, <3>1 DEF Gone
    <3>2. CASE Gone(r)
      BY <1>2, <1>13, <2>1, <2>3, <3>2 DEF Gone
    <3> QED
      BY <2>4, <3>1, <3>2
  <2> QED
    BY <2>4 DEF s
<1>9. CASE s = "remove codex json"
  <2>1. f = "json" /\ new = WithoutOurs(c)
    BY <1>9, TargetIs, AfterIs
  <2> HIDE DEF s, f, c, new
  <2>2. c \in Seq(Groups)
    BY <1>3, <1>6, <1>9, <2>1, FileNames
  <2>3. WithoutOurs(file'["json"]) = file'["json"]
    BY <1>4, <2>1, <2>2, WithoutOursTwice
  <2>4. ASSUME NEW r \in Removals, r = s \/ Gone(r) PROVE Gone(r)'
    <3>1. CASE r = s
      BY <1>2, <1>7, <1>9, <2>1, <2>3, <3>1 DEF Gone
    <3>2. CASE Gone(r)
      BY <1>2, <1>13, <2>1, <2>3, <3>2 DEF Gone
    <3> QED
      BY <2>4, <3>1, <3>2
  <2> QED
    BY <2>4 DEF s
<1>10. CASE s = "remove codex toml"
  <2>1. f = "toml" /\ new = RemoveInlineHookBlocks(c)
    BY <1>10, TargetIs, AfterIs
  <2> HIDE DEF s, f, c, new
  <2>2. WellFormed(c)
    BY <1>3, <2>1, FileNames
  <2>3. NoCommands(file'["toml"])
    BY <1>4, <2>1, <2>2, RemoveInlineHookBlocksKeeps
  <2>4. ASSUME NEW r \in Removals, r = s \/ Gone(r) PROVE Gone(r)'
    <3>1. CASE r = s
      BY <1>2, <1>7, <1>10, <2>1, <2>3, <3>1 DEF Gone
    <3>2. CASE Gone(r)
      BY <1>2, <1>13, <2>1, <2>3, <3>2 DEF Gone
    <3> QED
      BY <2>4, <3>1, <3>2
  <2> QED
    BY <2>4 DEF s
<1>11. CASE s = "remove cursor hooks"
  <2>1. f = "cursor" /\ new = RemoveHooksJSONEntries(c)
    BY <1>11, TargetIs, AfterIs
  <2> HIDE DEF s, f, c, new
  <2>2. c \in Seq(Hooks)
    BY <1>3, <1>6, <1>11, <2>1, FileNames
  <2>3. RemoveHooksJSONEntries(file'["cursor"]) = file'["cursor"]
    BY <1>4, <2>1, <2>2, RemoveHooksJSONEntriesTwice
  <2>4. ASSUME NEW r \in Removals, r = s \/ Gone(r) PROVE Gone(r)'
    <3>1. CASE r = s
      BY <1>2, <1>7, <1>11, <2>1, <2>3, <3>1 DEF Gone
    <3>2. CASE Gone(r)
      BY <1>2, <1>13, <2>1, <2>3, <3>2 DEF Gone
    <3> QED
      BY <2>4, <3>1, <3>2
  <2> QED
    BY <2>4 DEF s
<1>12. CASE s = "remove copilot hooks"
  <2>1. f = "copilot" /\ new = <<>>
    BY <1>12, TargetIs, AfterIs
  <2> HIDE DEF s, f, c, new
  <2>2. file'["copilot"] = <<>>
    BY <1>4, <2>1
  <2>3. ASSUME NEW r \in Removals, r = s \/ Gone(r) PROVE Gone(r)'
    <3>1. CASE r = s
      BY <1>2, <1>7, <1>12, <2>1, <2>2, <3>1 DEF Gone
    <3>2. CASE Gone(r)
      BY <1>2, <1>13, <2>1, <2>2, <3>2 DEF Gone
    <3> QED
      BY <2>3, <3>1, <3>2
  <2> QED
    BY <2>3 DEF s
<1> QED
  BY <1>5, <1>8, <1>9, <1>10, <1>11, <1>12

\* A script that is deleted stays so for the rest of the command.
LEMMA ScriptIsGone ==
  ASSUME SetupInv, DeleteScript \/ Purge
  PROVE  \A r \in Removals : r = Head(todo) \/ Gone(r) => Gone(r)'
<1>1. DOMAIN script = Hosts /\ file' = file
  BY DEF SetupInv, DeleteScript, Purge
<1>2. CASE DeleteScript
  <2>1. PICK h \in Hosts : Head(todo) = RemovalStep[h] /\ script' = [script EXCEPT ![h] = NoScript]
    BY <1>2 DEF DeleteScript, At
  <2>2. script'[h] = NoScript /\ \A g \in Hosts : script[g] = NoScript => script'[g] = NoScript
    BY <1>1, <2>1
  <2>3. ASSUME NEW r \in Removals, Gone(r) PROVE Gone(r)'
    BY <1>1, <2>2, <2>3 DEF Gone
  <2>4. ASSUME NEW r \in Removals, r = RemovalStep[h] PROVE Gone(r)'
    <3>1. /\ \A g \in Hosts : r = RemovalStep[g] => g = h
          /\ r \notin {"remove claude hooks", "remove codex json", "remove codex toml",
                       "remove cursor hooks", "remove copilot hooks"}
      BY <2>4, RemovalSteps
    <3> QED
      BY <2>2, <3>1 DEF Gone
  <2> QED
    BY <2>1, <2>3, <2>4
<1>3. CASE Purge
  <2>1. Head(todo) = "purge" /\ \A g \in Hosts : script'[g] = NoScript
    BY <1>3 DEF Purge, At
  <2>2. Head(todo) \notin Removals
    BY <2>1 DEF Removals
  <2>3. ASSUME NEW r \in Removals, Gone(r) PROVE Gone(r)'
    BY <1>1, <2>1, <2>3 DEF Gone
  <2> QED
    BY <2>2, <2>3
<1> QED
  BY <1>2, <1>3

\* A file that cannot be read holds no hook of thlibo's.
LEMMA MalformedIsGone ==
  ASSUME MeetMalformed, clean'
  PROVE  \A r \in Removals : r = Head(todo) \/ Gone(r) => Gone(r)'
<1>1. /\ Head(todo) \in {"codex stale", "remove codex json", "remove cursor hooks"}
      /\ Unreadable(Head(todo)) /\ file' = file /\ script' = script
  BY DEF MeetMalformed
<1>2. ASSUME NEW r \in Removals, Gone(r) PROVE Gone(r)'
  BY <1>1, <1>2 DEF Gone
<1>3. ASSUME NEW r \in Removals, r = Head(todo) PROVE Gone(r)
  <2>1. file[Target(r)] = Malformed
    BY <1>1, <1>3 DEF Unreadable
  <2>2. r \in {"remove codex json", "remove cursor hooks"}
    BY <1>1, <1>3 DEF Removals, Removing
  <2>3. \A h \in Hosts : r # RemovalStep[h]
    BY <2>2, RemovalSteps
  <2>4. CASE r = "remove codex json"
    <3>1. file["json"] = Malformed
      BY <2>1, <2>4, TargetIs
    <3> QED
      BY <2>3, <2>4, <3>1 DEF Gone
  <2>5. CASE r = "remove cursor hooks"
    <3>1. file["cursor"] = Malformed
      BY <2>1, <2>5, TargetIs
    <3> QED
      BY <2>3, <2>5, <3>1 DEF Gone
  <2> QED
    BY <2>2, <2>4, <2>5
<1> QED
  BY <1>2, <1>3

\* An uninstall goes through all its removals, or is not clean.
LEMMA GoneInvKept ==
  ASSUME FilesInv, SetupInv, GoneInv, [Next]_vars
  PROVE  GoneInv'
<1>1. CASE UNCHANGED vars
  <2>1. UNCHANGED <<file, script, todo, cmd, clean, code>>
    BY <1>1 DEF vars, command
  <2>2. \A s : (Pending(s)' <=> Pending(s)) /\ (Gone(s)' <=> Gone(s))
    BY <2>1 DEF Pending, Gone
  <2> QED
    BY <2>1, <2>2 DEF GoneInv
<1>2. CASE Install \/ UserAdds \/ UserEdits \/ Upgrade
  BY <1>2 DEF Install, UserAdds, UserEdits, Upgrade, GoneInv
<1>3. CASE Uninstall
  <2>1. PICK purge \in BOOLEAN : todo' = UninstallSteps(purge)
    BY <1>3 DEF Uninstall
  <2>2. code' = -1
    BY <1>3 DEF Uninstall
  <2>3. \A s \in Removals : Pending(s)'
    BY <2>1, AllAhead DEF Pending
  <2> QED
    BY <2>2, <2>3 DEF GoneInv
<1>4. CASE Step
  <2> SUFFICES ASSUME cmd' = "uninstall" PROVE GoneInv'
    BY DEF GoneInv
  <2>1. cmd = "uninstall"
    BY <1>4 DEF Step, EditFile, MeetMalformed, WriteClaudeScript, WriteScript, DeleteScript, Mirror,
       Purge, StepFails, Killed, Done, GiveUp
  <2>2. todo # <<>>
    BY <1>4 DEF Step, EditFile, MeetMalformed, WriteClaudeScript, WriteScript, DeleteScript, Mirror,
       Purge, StepFails, Killed, At, Idle
  <2>3. Head(todo) \in Removing
    BY <2>1, <2>2, StepsLeft
  <2>4. \/ todo' = <<>>
        \/ todo' = Tail(todo) /\ code' = (IF Tail(todo) = <<>> THEN 0 ELSE code)
    BY <1>4 DEF Step, EditFile, MeetMalformed, WriteClaudeScript, WriteScript, DeleteScript, Mirror,
       Purge, StepFails, Killed, Done, GiveUp
  <2>5. code' = 0 => todo' = <<>>
    BY <2>1, <2>2, <2>4 DEF GoneInv
  <2>6. ASSUME clean', NEW s \in Removals PROVE Pending(s)' \/ Gone(s)'
    <3>1. ~StepFails /\ ~Killed
      BY <2>6 DEF StepFails, Killed
    <3>2. ~WriteClaudeScript /\ ~WriteScript /\ ~Mirror
      <4>1. \A h \in Hosts : ScriptStep[h] \notin Removing
        <5>1. /\ ScriptStep["claude"] = "claude script" /\ ScriptStep["codex"] = "codex script"
              /\ ScriptStep["cursor"] = "cursor script" /\ ScriptStep["copilot"] = "copilot script"
          BY DEF ScriptStep
        <5> QED
          BY <5>1 DEF Hosts, Removing
      <4>2. "mirror" \notin Removing /\ "claude script" \notin Removing
        BY DEF Removing
      <4> QED
        BY <2>3, <4>1, <4>2 DEF WriteClaudeScript, WriteScript, Mirror, At
    <3>3. s = Head(todo) \/ Gone(s) => Gone(s)'
      <4>1. CASE EditFile
        BY <2>1, <4>1, EditIsGone
      <4>2. CASE DeleteScript \/ Purge
        BY <4>2, ScriptIsGone
      <4>3. CASE MeetMalformed
        BY <2>6, <4>3, MalformedIsGone
      <4> QED
        BY <1>4, <3>1, <3>2, <4>1, <4>2, <4>3 DEF Step
    <3>4. clean /\ todo' = Tail(todo)
      <4>1. CASE MeetMalformed
        <5>1. /\ clean' = (clean /\ Head(todo) \in {"codex stale", "remove codex json", "remove cursor hooks"})
              /\ GiveUp(Head(todo))
          BY <4>1 DEF MeetMalformed
        <5>2. clean /\ ExitCode(Head(todo)) = 0
          BY <2>6, <5>1 DEF ExitCode
        <5> QED
          BY <5>1, <5>2 DEF GiveUp
      <4>2. CASE EditFile \/ DeleteScript \/ Purge
        BY <2>6, <4>2 DEF EditFile, DeleteScript, Purge, Done
      <4> QED
        BY <1>4, <3>1, <3>2, <4>1, <4>2 DEF Step
    <3>5. Pending(s) \/ Gone(s)
      BY <2>1, <3>4 DEF GoneInv
    <3> QED
      BY <2>2, <3>3, <3>4, <3>5, OneLess
  <2> QED
    BY <2>5, <2>6 DEF GoneInv
<1> QED
  BY <1>1, <1>2, <1>3, <1>4 DEF Next

\* The invariants together.
LEMMA UninstallInvs == Spec => [](FilesInv /\ SetupInv /\ GoneInv)
<1>1. Init => FilesInv /\ SetupInv /\ GoneInv
  <2>1. Init => GoneInv
    BY DEF Init, GoneInv
  <2> QED
    BY <2>1, FilesInitially, SetupInitInv
<1>2. FilesInv /\ SetupInv /\ GoneInv /\ [Next]_vars => (FilesInv /\ SetupInv /\ GoneInv)'
  BY FilesInvKept, SetupInvKept, GoneInvKept
<1> QED
  BY <1>1, <1>2, PTL DEF Spec

\* After an uninstall that went well, no host calls thlibo and no hook script
\* is left, whatever the files held and whichever installs came before (Run,
\* and the adapters' removals; #137).
THEOREM UninstalledIsAlwaysGone == Spec => []UninstalledIsGone
<1>1. FilesInv /\ SetupInv /\ GoneInv => UninstalledIsGone
  <2> SUFFICES ASSUME SetupInv, GoneInv, cmd = "uninstall", code = 0, clean
               PROVE  /\ \A f \in {"claude", "json"} : file[f] # Malformed => WithoutOurs(file[f]) = file[f]
                      /\ NoCommands(file["toml"])
                      /\ file["cursor"] # Malformed => RemoveHooksJSONEntries(file["cursor"]) = file["cursor"]
                      /\ file["copilot"] = <<>>
                      /\ \A h \in Hosts : script[h] = NoScript
    BY DEF UninstalledIsGone, NoCommands
  <2>1. todo = <<>> /\ \A s : ~Pending(s)
    <3>1. todo = <<>>
      BY DEF GoneInv
    <3> QED
      BY <3>1 DEF Pending
  <2>2. \A s \in Removals : Gone(s)
    BY <2>1 DEF GoneInv
  <2>3. /\ "remove claude hooks" \in Removals /\ "remove codex json" \in Removals
        /\ "remove codex toml" \in Removals /\ "remove cursor hooks" \in Removals
        /\ "remove copilot hooks" \in Removals
        /\ \A h \in Hosts : RemovalStep[h] \in Removals
    BY RemovalSteps DEF Removals, Removing
  <2>4. /\ Gone("remove claude hooks") /\ Gone("remove codex json") /\ Gone("remove codex toml")
        /\ Gone("remove cursor hooks") /\ Gone("remove copilot hooks")
        /\ \A h \in Hosts : Gone(RemovalStep[h])
    BY <2>2, <2>3
  <2>5. /\ file["claude"] # Malformed => WithoutOurs(file["claude"]) = file["claude"]
        /\ file["json"] # Malformed => WithoutOurs(file["json"]) = file["json"]
        /\ NoCommands(file["toml"])
        /\ file["cursor"] # Malformed => RemoveHooksJSONEntries(file["cursor"]) = file["cursor"]
        /\ file["copilot"] = <<>>
    BY <2>4 DEF Gone
  <2>6. \A h \in Hosts : script[h] = NoScript
    BY <2>4 DEF Gone
  <2> QED
    BY <2>5, <2>6
<1> QED
  BY UninstallInvs, <1>1, PTL

-----------------------------------------------------------------------------
(* Setup: what an install leaves.                                            *)

\* A file of Codex' or Cursor's calls thlibo for nothing twice.
HooksOnce(f, c) ==
  /\ f = "toml" => Once(c, Commands)
  /\ f = "json" /\ c # Malformed => OnceIn(c)
  /\ f = "cursor" /\ c # Malformed => CursorOnce(c)

OnceInv == \A f \in Files : HooksOnce(f, file[f])

\* A file without hooks.
LEMMA EmptyOnce == \A f : HooksOnce(f, <<>>)
<1>1. Once(<<>>, Commands) /\ CursorOnce(<<>>) /\ OnceIn(<<>>)
  BY DEF Once, CursorOnce, OnceIn, OursAt
<1> QED
  BY <1>1 DEF HooksOnce

\* The step that removes Codex' leftovers.
LEMMA StaleIs ==
  ASSUME NEW c
  PROVE  After("codex stale", c) = IF ConfigHasInlineHooks(file["toml"]) THEN WithoutOurs(c) ELSE c
BY DEF After

\* No step brings a second hook for the same thing.
LEMMA AfterOnce ==
  ASSUME FilesTyped, OnceInv, NEW s \in EditSteps, ~Unreadable(s)
  PROVE  HooksOnce(Target(s), After(s, file[Target(s)]))
<1> DEFINE f == Target(s)
           c == file[f]
           new == After(s, c)
<1>1. f \in Files /\ FileTyped(f, c) /\ HooksOnce(f, c)
  <2>1. f \in Files
    BY TargetIs, FileNames DEF EditSteps
  <2> HIDE DEF f
  <2> QED
    BY <2>1 DEF FilesTyped, OnceInv
<1>2. s \notin {"copilot hooks", "remove copilot hooks"} => c # Malformed
  BY DEF Unreadable
<1>3. s = "codex hook" => f \in {"json", "toml"}
  BY TargetIs
<1>4. CASE s \in {"claude hooks", "remove claude hooks", "copilot hooks", "remove copilot hooks"}
  <2>1. f \in {"claude", "copilot"}
    BY <1>4, TargetIs
  <2> HIDE DEF f, c, new
  <2>2. HooksOnce(f, new)
    BY <2>1 DEF HooksOnce
  <2> QED
    BY <2>2 DEF f, c, new
<1>5. CASE s = "cursor hooks"
  <2>1. f = "cursor" /\ new = MergeHooksJSON(c)
    BY <1>5, TargetIs, AfterIs
  <2> HIDE DEF f, c, new
  <2>2. c \in Seq(Hooks) /\ CursorOnce(c)
    BY <1>1, <1>2, <1>5, <2>1, FileNames DEF HooksOnce
  <2>3. CursorOnce(new)
    BY <2>1, <2>2, MergeHooksJSONOnce
  <2>4. HooksOnce(f, new)
    BY <2>1, <2>3 DEF HooksOnce
  <2> QED
    BY <2>4 DEF f, c, new
<1>6. CASE s = "remove cursor hooks"
  <2>1. f = "cursor" /\ new = RemoveHooksJSONEntries(c)
    BY <1>6, TargetIs, AfterIs
  <2> HIDE DEF f, c, new
  <2>2. c \in Seq(Hooks)
    BY <1>1, <1>2, <1>6, <2>1, FileNames
  <2>3. CursorOnce(new)
    BY <2>1, <2>2, RemoveHooksJSONEntriesOnce
  <2>4. HooksOnce(f, new)
    BY <2>1, <2>3 DEF HooksOnce
  <2> QED
    BY <2>4 DEF f, c, new
<1>7. CASE s \in {"codex stale", "remove codex json"}
  <2>1. f = "json" /\ new \in {WithoutOurs(c), c}
    BY <1>7, TargetIs, AfterIs
  <2> HIDE DEF f, c, new
  <2>2. c \in Seq(Groups) /\ OnceIn(c)
    BY <1>1, <1>2, <1>7, <2>1, FileNames DEF HooksOnce
  <2>3. OnceIn(WithoutOurs(c))
    BY <2>2, WithoutOursNone, SoleInIsOnce
  <2>4. HooksOnce(f, new)
    BY <2>1, <2>2, <2>3 DEF HooksOnce
  <2> QED
    BY <2>4 DEF f, c, new
<1>8. CASE s = "codex hook" /\ f = "json"
  <2>1. new = MergeHooksJSONHook(c, Variant(windows))
    BY <1>8, AfterIs
  <2> HIDE DEF f, c, new
  <2>2. c \in Seq(Groups) /\ OnceIn(c)
    BY <1>1, <1>2, <1>8, FileNames DEF HooksOnce
  <2>3. Variant(windows) \in Names
    BY VariantType
  <2>4. SoleIn(new, <<"post", Variant(windows)>>)
    BY <2>1, <2>2, <2>3, MergeHooksJSONHookSole
  <2>5. OnceIn(new)
    BY <2>4, SoleInIsOnce
  <2>6. HooksOnce(f, new)
    BY <1>8, <2>5 DEF HooksOnce
  <2> QED
    BY <2>6 DEF f, c, new
<1>9. CASE s = "codex hook" /\ f = "toml"
  <2>1. new = MergeConfigTOMLHook(c, Variant(windows))
    BY <1>9, AfterIs
  <2> HIDE DEF f, c, new
  <2>2. WellFormed(c) /\ Once(c, Commands)
    BY <1>1, <1>9, FileNames DEF HooksOnce
  <2>3. Sole(new, Commands, <<OurCommand[Variant(windows)], "thlibo">>) /\ WellFormed(new)
    BY <2>1, <2>2, MergeConfigTOMLHookSole, MergeConfigTOMLHookKeeps, VariantType
  <2>4. Once(new, Commands)
    BY <2>3, OnceEnough DEF WellFormed
  <2>5. HooksOnce(f, new)
    BY <1>9, <2>4 DEF HooksOnce
  <2> QED
    BY <2>5 DEF f, c, new
<1>10. CASE s = "codex flag"
  <2>1. f = "toml" /\ new = EnsureCodexHooksTrue(c)
    BY <1>10, TargetIs, AfterIs
  <2> HIDE DEF f, c, new
  <2>2. c \in Seq(Hooks) /\ Once(c, Commands)
    BY <1>1, <2>1, FileNames DEF HooksOnce, WellFormed
  <2>3. Once(new, Commands)
    BY <2>1, <2>2, EnsureKeepsHooks
  <2>4. HooksOnce(f, new)
    BY <2>1, <2>3 DEF HooksOnce
  <2> QED
    BY <2>4 DEF f, c, new
<1>11. CASE s = "remove codex toml"
  <2>1. f = "toml" /\ new = RemoveInlineHookBlocks(c)
    BY <1>11, TargetIs, AfterIs
  <2> HIDE DEF f, c, new
  <2>2. WellFormed(c)
    BY <1>1, <2>1, FileNames
  <2>3. WellFormed(new) /\ NoCommands(new)
    BY <2>1, <2>2, RemoveInlineHookBlocksKeeps
  <2>4. Once(new, Commands)
    BY <2>3, CommandsSeen DEF WellFormed
  <2>5. HooksOnce(f, new)
    BY <2>1, <2>4 DEF HooksOnce
  <2> QED
    BY <2>5 DEF f, c, new
<1> QED
  BY <1>3, <1>4, <1>5, <1>6, <1>7, <1>8, <1>9, <1>10, <1>11 DEF EditSteps

\* Nor does a write that is cut short.
LEMMA TornOnce ==
  ASSUME NEW f \in Files, NEW c, FileTyped(f, c), HooksOnce(f, c), NEW rest \in Halves(f, c)
  PROVE  HooksOnce(f, rest)
<1>1. CASE f = "toml"
  <2>1. c \in Seq(Hooks) /\ Once(c, Commands)
    BY <1>1, FileNames DEF WellFormed, HooksOnce
  <2>2. PICK k \in 0..(Len(c) - 1) : rest = SubSeq(c, 1, k)
    BY <1>1 DEF Halves
  <2>3. k \in Nat /\ k <= Len(c)
    <3>1. Len(c) \in Nat
      BY <2>1
    <3> QED
      BY <3>1
  <2>4. Once(rest, Commands)
    BY <2>1, <2>2, <2>3, OncePrefix
  <2> QED
    BY <1>1, <2>4 DEF HooksOnce
<1>2. CASE f # "toml"
  <2>1. rest \in {Malformed, <<>>}
    BY <1>2 DEF Halves
  <2> QED
    BY <1>2, <2>1, EmptyOnce DEF HooksOnce
<1> QED
  BY <1>1, <1>2

\* Nor do other tools, which have hooks of their own.
LEMMA ForeignOnce ==
  ASSUME NEW f \in Files \ {"copilot"}, NEW new \in Foreign[f], NEW old, FileTyped(f, old), old # Malformed,
         HooksOnce(f, old)
  PROVE  HooksOnce(f, new \o old) /\ HooksOnce(f, old \o new)
<1>1. CASE f = "claude"
  BY <1>1 DEF HooksOnce
<1>2. CASE f = "json"
  <2>1. old \in Seq(Groups) /\ new \in Seq(Groups) /\ OnceIn(old)
    <3>1. new \in AnyGroups
      BY <1>2, SetupAssumption
    <3> QED
      BY <1>2, <3>1, AnyTyped, FileNames DEF HooksOnce
  <2>2. NoneIn(new)
    <3>1. \A i \in DOMAIN new : \A j \in DOMAIN new[i].hooks : IsUser(new[i].hooks[j])
      BY <1>2, SetupAssumption
    <3> QED
      BY <3>1 DEF NoneIn, OursAt
  <2>3. OnceIn(new \o old) /\ OnceIn(old \o new)
    BY <2>1, <2>2, OnceInConcat
  <2> QED
    BY <1>2, <2>3 DEF HooksOnce
<1>3. CASE f = "cursor"
  <2>1. old \in Seq(Hooks) /\ new \in Seq(Hooks) /\ CursorOnce(old)
    BY <1>3, AnyTyped, FileNames, SetupAssumption DEF HooksOnce
  <2>2. ASSUME NEW k \in {"shell", "file"} PROVE Only(new, Family(k)) = <<>>
    <3>1. \A i \in DOMAIN new : IsUser(new[i])
      BY <1>3, SetupAssumption
    <3>2. DOMAIN new = 1..Len(new)
      BY <2>1
    <3>3. \A i \in 1..Len(new) : new[i] \notin Family(k)
      BY <3>1, <3>2 DEF IsUser, Family
    <3> QED
      BY <2>1, <3>3, OnlyNowhere
  <2>3. ASSUME NEW k \in {"shell", "file"}
        PROVE  Once(new \o old, Family(k)) /\ Once(old \o new, Family(k))
    <3>1. Once(old, Family(k)) /\ Only(new, Family(k)) = <<>>
      BY <2>1, <2>2 DEF CursorOnce
    <3> QED
      BY <2>1, <3>1, OnceConcat
  <2> QED
    BY <1>3, <2>3 DEF HooksOnce, CursorOnce
<1>4. CASE f = "toml"
  <2>1. old \in Seq(Hooks) /\ new \in Seq(Hooks) /\ Once(old, Commands) /\ NoCommands(new)
    <3>1. UsersSections(new)
      BY <1>4, SetupAssumption
    <3> QED
      BY <1>4, <3>1, AnyTyped, FileNames DEF HooksOnce, UsersSections, WellFormed, NoCommands
  <2>2. Only(new, Commands) = <<>>
    BY <2>1, CommandsSeen
  <2>3. Once(new \o old, Commands) /\ Once(old \o new, Commands)
    BY <2>1, <2>2, OnceConcat
  <2> QED
    BY <1>4, <2>3 DEF HooksOnce
<1> QED
  BY <1>1, <1>2, <1>3, <1>4, FileNames

\* One file that changes.
LEMMA OnceChanged ==
  ASSUME FilesTyped, OnceInv, NEW f \in Files, NEW new, HooksOnce(f, new), file' = [file EXCEPT ![f] = new]
  PROVE  OnceInv'
<1>1. file'[f] = new /\ \A g \in Files \ {f} : file'[g] = file[g]
  BY DEF FilesTyped
<1> QED
  BY <1>1 DEF OnceInv

\* Whatever comes, no file calls thlibo for the same thing twice.
LEMMA OnceInvKept ==
  ASSUME FilesInv, OnceInv, [Next]_vars
  PROVE  OnceInv'
<1>0. FilesTyped
  BY DEF FilesInv
<1>1. CASE file' = file
  BY <1>1 DEF OnceInv
<1>2. CASE EditFile
  <2> DEFINE s == Head(todo)
  <2>1. s \in EditSteps /\ ~Unreadable(s) /\ file' = [file EXCEPT ![Target(s)] = After(s, file[Target(s)])]
    BY <1>2 DEF EditFile, Edits
  <2> HIDE DEF s
  <2>2. Target(s) \in Files /\ HooksOnce(Target(s), After(s, file[Target(s)]))
    BY <1>0, <2>1, AfterKeeps, AfterOnce
  <2> QED
    BY <1>0, <2>1, <2>2, OnceChanged
<1>3. CASE TornFile
  <2> DEFINE s == Head(todo)
             f == Target(s)
             c == After(s, file[f])
  <2>1. s \in EditSteps /\ ~Unreadable(s)
    BY <1>3 DEF TornFile, Edits
  <2>2. PICK rest \in Halves(f, c) : file' = [file EXCEPT ![f] = rest]
    BY <1>3 DEF TornFile
  <2> HIDE DEF s
  <2>3. f \in Files /\ HooksOnce(f, c) /\ Kept(f, file[f], c)
    BY <1>0, <2>1, AfterKeeps, AfterOnce
  <2> HIDE DEF f, c
  <2>4. HooksOnce(f, rest)
    <3>1. FileTyped(f, c)
      BY <2>3 DEF Kept
    <3> QED
      BY <2>3, <3>1, TornOnce
  <2> QED
    BY <1>0, <2>2, <2>3, <2>4, OnceChanged
<1>4. CASE UserAdds
  <2>1. PICK f \in Files \ {"copilot"} : \E new \in Foreign[f] :
          /\ file[f] # Malformed
          /\ \/ file' = [file EXCEPT ![f] = new \o file[f]]
             \/ file' = [file EXCEPT ![f] = file[f] \o new]
    BY <1>4 DEF UserAdds
  <2>2. PICK new \in Foreign[f] :
          /\ file[f] # Malformed
          /\ \/ file' = [file EXCEPT ![f] = new \o file[f]]
             \/ file' = [file EXCEPT ![f] = file[f] \o new]
    BY <2>1
  <2>3. HooksOnce(f, new \o file[f]) /\ HooksOnce(f, file[f] \o new)
    BY <1>0, <2>2, ForeignOnce DEF FilesTyped, OnceInv
  <2> QED
    BY <1>0, <2>2, <2>3, OnceChanged
<1>5. EditFile \/ TornFile \/ UserAdds \/ file' = file
  BY DEF Next, Step, MeetMalformed, WriteClaudeScript, WriteScript, DeleteScript, Mirror, Purge,
     StepFails, Killed, TornScript, Unharmed, Install, Uninstall, UserEdits, Upgrade, vars
<1> QED
  BY <1>1, <1>2, <1>3, <1>4, <1>5

\* It is so at first.
LEMMA OnceInitially == Init => OnceInv
<1> SUFFICES ASSUME Init PROVE OnceInv
  OBVIOUS
<1>1. PICK s \in Settings : file = [f \in Files |-> IF f = "claude" THEN s ELSE <<>>]
  BY DEF Init
<1>2. \A f \in Files : f # "claude" => HooksOnce(f, file[f])
  BY <1>1, EmptyOnce
<1>3. HooksOnce("claude", file["claude"])
  BY DEF HooksOnce
<1> QED
  BY <1>2, <1>3 DEF OnceInv

\* Only others' groups put one of thlibo's behind another of its matcher.
FirstInv == overtaken \/ InFirstGroups(file["claude"])

\* What a step or a torn write makes of Claude Code's groups.
LEMMA StepKeepsFirst ==
  ASSUME FilesTyped, NEW s \in EditSteps, ~Unreadable(s), Target(s) = "claude",
         InFirstGroups(file["claude"])
  PROVE  InFirstGroups(After(s, file["claude"]))
<1> DEFINE c == file["claude"]
<1>1. s \in {"claude hooks", "remove claude hooks"}
  BY TargetIs DEF EditSteps
<1>2. c \in Seq(Groups)
  BY <1>1, FileNames DEF FilesTyped, Unreadable
<1> HIDE DEF c
<1>3. CASE s = "claude hooks"
  <2>1. After(s, c) = MergeSettingsAll(c, windows)
    BY <1>3, AfterIs
  <2> QED
    BY <1>2, <2>1, MergeSettingsAllFirst DEF c
<1>4. CASE s = "remove claude hooks"
  <2>1. After(s, c) = WithoutOurs(c)
    BY <1>4, AfterIs
  <2> QED
    BY <1>2, <2>1, WithoutOursFirst DEF c
<1> QED
  BY <1>1, <1>3, <1>4 DEF c

\* Whatever comes: only others' groups do.
LEMMA FirstInvKept ==
  ASSUME FilesInv, FirstInv, [Next]_vars
  PROVE  FirstInv'
<1>0. FilesTyped
  BY DEF FilesInv
<1>1. CASE UserAdds
  BY <1>1 DEF UserAdds, FirstInv
<1>2. CASE overtaken' = overtaken /\ file'["claude"] = file["claude"]
  BY <1>2 DEF FirstInv
<1>3. CASE Step
  <2> DEFINE s == Head(todo)
             f == Target(s)
             c == After(s, file[f])
  <2>1. overtaken' = overtaken
    BY <1>3 DEF Step, EditFile, MeetMalformed, WriteClaudeScript, WriteScript, DeleteScript, Mirror,
       Purge, StepFails, Killed, Done, GiveUp, others
  <2>2. EditFile \/ TornFile \/ file' = file
    BY <1>3 DEF Step, MeetMalformed, WriteClaudeScript, WriteScript, DeleteScript, Mirror,
       Purge, StepFails, Killed, TornScript, Unharmed
  <2>3. CASE file' = file
    BY <1>2, <2>1, <2>3
  <2>4. CASE EditFile \/ TornFile
    <3>1. s \in EditSteps /\ ~Unreadable(s)
      BY <2>4 DEF EditFile, TornFile, Edits
    <3>2. PICK new \in {c} \cup Halves(f, c) : file' = [file EXCEPT ![f] = new]
      BY <2>4 DEF EditFile, TornFile
    <3>3. CASE f # "claude"
      <4>1. file'["claude"] = file["claude"]
        <5> HIDE DEF f, c
        <5> QED
          BY <1>0, <3>2, <3>3, FileNames DEF FilesTyped
      <4> QED
        BY <1>2, <2>1, <4>1
    <3>4. CASE f = "claude" /\ InFirstGroups(file["claude"])
      <4>1. InFirstGroups(c)
        BY <1>0, <3>1, <3>4, StepKeepsFirst
      <4>2. file'["claude"] = new /\ new \in {c, Malformed, <<>>}
        <5> HIDE DEF f, c
        <5> QED
          BY <1>0, <3>2, <3>4, FileNames DEF FilesTyped, Halves
      <4>3. InFirstGroups(Malformed) /\ InFirstGroups(<<>>)
        <5>1. DOMAIN Malformed = 1..1 /\ DOMAIN <<>> = {}
          BY DEF Malformed
        <5> QED
          BY <5>1 DEF InFirstGroups
      <4> HIDE DEF c
      <4> QED
        BY <4>1, <4>2, <4>3 DEF FirstInv
    <3> QED
      BY <2>1, <3>3, <3>4 DEF FirstInv
  <2> QED
    BY <2>2, <2>3, <2>4
<1>4. CASE Install \/ Uninstall \/ UserEdits \/ Upgrade \/ UNCHANGED vars
  BY <1>2, <1>4 DEF Install, Uninstall, UserEdits, Upgrade, vars, others
<1> QED
  BY <1>1, <1>3, <1>4 DEF Next

\* What a step of an install has put into the hosts' files.
ClaudeMade(c) == c # Malformed /\ ClaudeDone(c, windows)
CursorMade(c) == c # Malformed /\ CursorSole(c)

HookMade(toml, json) ==
  \/ Sole(toml, Commands, <<OurCommand[Variant(windows)], "thlibo">>)
  \/ ~ConfigHasInlineHooks(toml) /\ json # Malformed /\ SoleIn(json, <<"post", Variant(windows)>>)

StaleMade(toml, json) == ConfigHasInlineHooks(toml) => json = Malformed \/ NoneIn(json)

Making == {"claude hooks", "codex hook", "codex flag", "codex stale", "cursor hooks"}

Made(s) ==
  /\ s = "claude hooks" => ClaudeMade(file["claude"])
  /\ s = "codex hook"   => HookMade(file["toml"], file["json"])
  /\ s = "codex flag"   => EnsureCodexHooksTrue(file["toml"]) = file["toml"]
  /\ s = "codex stale"  => StaleMade(file["toml"], file["json"])
  /\ s = "cursor hooks" => CursorMade(file["cursor"])

\* The steps that the hosts asked for need.
Asked ==
  {"claude hooks"}
    \cup (IF "codex" \in with THEN {"codex hook", "codex flag", "codex stale"} ELSE {})
    \cup (IF "cursor" \in with THEN {"cursor hooks"} ELSE {})

\* Behind each place of the one there is one of the other.
Precedes(list, s, t) == \A i \in DOMAIN list : list[i] = s => \E j \in DOMAIN list : i < j /\ list[j] = t

\* In a list of Codex' steps the flag and the leftovers are seen to after the hook.
Ordered(list) == Precedes(list, "codex hook", "codex flag") /\ Precedes(list, "codex hook", "codex stale")
Has(list, s) == \E i \in DOMAIN list : list[i] = s

\* What an install has behind it is in the files, unless a step has failed; and
\* what Codex' hook may undo comes behind it.
InstallInv ==
  cmd = "install" =>
    /\ clean => \A s \in Asked : Pending(s) \/ Made(s)
    /\ code = 0 => todo = <<>>
    /\ Ordered(todo)

\* Two parts of a command.
LEMMA InTurn ==
  ASSUME NEW a \in Seq(Installing), NEW b \in Seq(Installing), NEW s, NEW t
  PROVE  /\ Precedes(a, s, t) /\ Precedes(b, s, t) => Precedes(a \o b, s, t)
         /\ Has(a, s) \/ Has(b, s) => Has(a \o b, s)
<1> DEFINE c == a \o b
           m == Len(a)
           n == Len(b)
<1>1. /\ DOMAIN c = 1..(m + n) /\ m \in Nat /\ n \in Nat
      /\ \A i \in 1..m : c[i] = a[i]
      /\ \A i \in 1..m + n : i > m => c[i] = b[i - m]
  BY JoinedBehind
<1>2. DOMAIN a = 1..m /\ DOMAIN b = 1..n
  OBVIOUS
<1> HIDE DEF c, m, n
<1>3. ASSUME NEW i \in DOMAIN b PROVE m + i \in DOMAIN c /\ c[m + i] = b[i]
  <2>1. m + i \in 1..m + n /\ m + i > m /\ (m + i) - m = i
    BY <1>1, <1>2
  <2> QED
    BY <1>1, <2>1
<1>4. ASSUME NEW i \in DOMAIN a PROVE i \in DOMAIN c /\ c[i] = a[i]
  BY <1>1, <1>2
<1>5. ASSUME Precedes(a, s, t), Precedes(b, s, t), NEW i \in DOMAIN c, c[i] = s
      PROVE  \E j \in DOMAIN c : i < j /\ c[j] = t
  <2>1. CASE i <= m
    <3>1. i \in DOMAIN a /\ a[i] = s
      BY <1>1, <1>2, <1>5, <2>1
    <3>2. PICK j \in DOMAIN a : i < j /\ a[j] = t
      BY <1>5, <3>1 DEF Precedes
    <3> QED
      BY <1>4, <3>2
  <2>2. CASE i > m
    <3>1. i - m \in DOMAIN b /\ b[i - m] = s
      BY <1>1, <1>2, <1>5, <2>2
    <3>2. PICK j \in DOMAIN b : i - m < j /\ b[j] = t
      BY <1>5, <3>1 DEF Precedes
    <3>3. i < m + j
      BY <1>1, <1>2, <3>2
    <3> QED
      BY <1>3, <3>2, <3>3
  <2> QED
    BY <1>1, <2>1, <2>2
<1>6. Precedes(a, s, t) /\ Precedes(b, s, t) => Precedes(c, s, t)
  BY <1>5 DEF Precedes
<1>7. Has(a, s) \/ Has(b, s) => Has(c, s)
  BY <1>3, <1>4 DEF Has
<1> QED
  BY <1>6, <1>7 DEF c

\* The steps that are behind the first.
LEMMA Behind ==
  ASSUME NEW E, NEW list \in Seq(E), list # <<>>, NEW s, NEW t
  PROVE  /\ Precedes(list, s, t) => Precedes(Tail(list), s, t)
         /\ Precedes(list, s, t) /\ Head(list) = s => \E i \in DOMAIN Tail(list) : Tail(list)[i] = t
<1> DEFINE rest == Tail(list)
<1>1. /\ Len(list) \in Nat \ {0} /\ DOMAIN list = 1..Len(list) /\ DOMAIN rest = 1..(Len(list) - 1)
      /\ \A i \in 1..(Len(list) - 1) : rest[i] = list[i + 1]
      /\ Head(list) = list[1]
  OBVIOUS
<1> HIDE DEF rest
<1>2. ASSUME NEW j \in DOMAIN list, j > 1 PROVE j - 1 \in DOMAIN rest /\ rest[j - 1] = list[j]
  <2>1. j - 1 \in 1..(Len(list) - 1) /\ (j - 1) + 1 = j
    BY <1>1, <1>2
  <2> QED
    BY <1>1, <2>1
<1>3. ASSUME Precedes(list, s, t), NEW i \in DOMAIN rest, rest[i] = s
      PROVE  \E j \in DOMAIN rest : i < j /\ rest[j] = t
  <2>1. i + 1 \in DOMAIN list /\ list[i + 1] = s
    BY <1>1, <1>3
  <2>2. PICK j \in DOMAIN list : i + 1 < j /\ list[j] = t
    BY <1>3, <2>1 DEF Precedes
  <2>3. j > 1 /\ i < j - 1
    BY <1>1, <2>2
  <2> QED
    BY <1>2, <2>2, <2>3
<1>4. ASSUME Precedes(list, s, t), Head(list) = s PROVE \E i \in DOMAIN rest : rest[i] = t
  <2>1. 1 \in DOMAIN list /\ list[1] = s
    BY <1>1, <1>4
  <2>2. PICK j \in DOMAIN list : 1 < j /\ list[j] = t
    BY <1>4, <2>1 DEF Precedes
  <2>3. j > 1
    BY <1>1, <2>2
  <2> QED
    BY <1>2, <2>2, <2>3
<1>5. Precedes(list, s, t) => Precedes(rest, s, t)
  BY <1>3 DEF Precedes
<1> QED
  BY <1>4, <1>5 DEF rest

\* An install has all that is asked for before it, in its order.
LEMMA AskedAhead ==
  ASSUME NEW hosts
  PROVE  LET steps == InstallSteps(hosts)
         IN  /\ Has(steps, "claude hooks") /\ Ordered(steps)
             /\ "codex" \in hosts => \A s \in {"codex hook", "codex flag", "codex stale"} : Has(steps, s)
             /\ "cursor" \in hosts => Has(steps, "cursor hooks")
<1> DEFINE Of(h) == IF h \in hosts THEN HostSteps(h) ELSE <<>>
           a == <<"mirror", "claude script", "claude hooks">>
           b == Of("codex")
           c == Of("cursor")
           d == Of("copilot")
           codex == <<"codex script", "codex hook", "codex flag", "codex stale">>
           cursor == <<"cursor script", "cursor hooks">>
           copilot == <<"copilot script", "copilot hooks">>
<1>1. a \in Seq(Installing) /\ Has(a, "claude hooks") /\ Ordered(a)
  <2>1. DOMAIN a = 1..3 /\ a[1] = "mirror" /\ a[2] = "claude script" /\ a[3] = "claude hooks"
    OBVIOUS
  <2>2. a \in Seq(Installing)
    BY DEF Installing
  <2> HIDE DEF a
  <2>3. 3 \in 1..3 /\ \A i \in 1..3 : i = 1 \/ i = 2 \/ i = 3
    OBVIOUS
  <2>4. \A i \in 1..3 : a[i] # "codex hook"
    BY <2>1, <2>3
  <2> QED
    BY <2>1, <2>2, <2>3, <2>4 DEF Precedes, Has, Ordered
<1>2. codex \in Seq(Installing) /\ Ordered(codex)
      /\ \A s \in {"codex hook", "codex flag", "codex stale"} : Has(codex, s)
  <2>1. DOMAIN codex = 1..4 /\ codex[1] = "codex script" /\ codex[2] = "codex hook"
        /\ codex[3] = "codex flag" /\ codex[4] = "codex stale"
    OBVIOUS
  <2>2. codex \in Seq(Installing)
    BY DEF Installing
  <2> HIDE DEF codex
  <2>3. /\ 2 \in 1..4 /\ 3 \in 1..4 /\ 4 \in 1..4 /\ 2 < 3 /\ 2 < 4
        /\ \A i \in 1..4 : i = 1 \/ i = 2 \/ i = 3 \/ i = 4
    OBVIOUS
  <2>4. \A i \in 1..4 : codex[i] = "codex hook" => i = 2
    BY <2>1, <2>3
  <2>5. Ordered(codex)
    BY <2>1, <2>3, <2>4 DEF Precedes, Ordered
  <2> QED
    BY <2>1, <2>2, <2>3, <2>5 DEF Has
<1>3. <<>> \in Seq(Installing) /\ Ordered(<<>>)
  BY DEF Precedes, Ordered
<1>4. cursor \in Seq(Installing) /\ Ordered(cursor) /\ Has(cursor, "cursor hooks")
  <2>1. DOMAIN cursor = 1..2 /\ cursor[1] = "cursor script" /\ cursor[2] = "cursor hooks"
    OBVIOUS
  <2>2. cursor \in Seq(Installing)
    BY DEF Installing
  <2> HIDE DEF cursor
  <2>3. 2 \in 1..2 /\ \A i \in 1..2 : i = 1 \/ i = 2
    OBVIOUS
  <2>4. \A i \in 1..2 : cursor[i] # "codex hook"
    BY <2>1, <2>3
  <2> QED
    BY <2>1, <2>2, <2>3, <2>4 DEF Precedes, Ordered, Has
<1>5. copilot \in Seq(Installing) /\ Ordered(copilot)
  <2>1. DOMAIN copilot = 1..2 /\ copilot[1] = "copilot script" /\ copilot[2] = "copilot hooks"
    OBVIOUS
  <2>2. copilot \in Seq(Installing)
    BY DEF Installing
  <2> HIDE DEF copilot
  <2>3. 2 \in 1..2 /\ \A i \in 1..2 : i = 1 \/ i = 2
    OBVIOUS
  <2>4. \A i \in 1..2 : copilot[i] # "codex hook"
    BY <2>1, <2>3
  <2> QED
    BY <2>1, <2>2, <2>3, <2>4 DEF Precedes, Ordered, Has
<1>6. HostSteps("codex") = codex /\ HostSteps("cursor") = cursor /\ HostSteps("copilot") = copilot
  BY DEF HostSteps
<1> HIDE DEF codex, cursor, copilot
<1>7. /\ b \in Seq(Installing) /\ Ordered(b)
      /\ "codex" \in hosts => \A s \in {"codex hook", "codex flag", "codex stale"} : Has(b, s)
  BY <1>2, <1>3, <1>6
<1>8. c \in Seq(Installing) /\ Ordered(c) /\ ("cursor" \in hosts => Has(c, "cursor hooks"))
  BY <1>3, <1>4, <1>6
<1>9. d \in Seq(Installing) /\ Ordered(d)
  BY <1>3, <1>5, <1>6
<1>10. InstallSteps(hosts) = ((a \o b) \o c) \o d
  BY DEF InstallSteps
<1> HIDE DEF a, b, c, d, Of
<1>11. ASSUME NEW x \in Seq(Installing), NEW y \in Seq(Installing), Ordered(x), Ordered(y)
       PROVE  /\ x \o y \in Seq(Installing) /\ Ordered(x \o y)
              /\ \A s : Has(x, s) \/ Has(y, s) => Has(x \o y, s)
  <2>1. \A s : Has(x, s) \/ Has(y, s) => Has(x \o y, s)
    BY InTurn
  <2>2. x \o y \in Seq(Installing)
    OBVIOUS
  <2>3. /\ Precedes(x, "codex hook", "codex flag") /\ Precedes(y, "codex hook", "codex flag")
        /\ Precedes(x, "codex hook", "codex stale") /\ Precedes(y, "codex hook", "codex stale")
    BY <1>11 DEF Ordered
  <2>4. Precedes(x \o y, "codex hook", "codex flag")
    BY <2>3, InTurn
  <2>5. Precedes(x \o y, "codex hook", "codex stale")
    BY <2>3, InTurn
  <2> QED
    BY <2>1, <2>2, <2>4, <2>5 DEF Ordered
<1> DEFINE ab == a \o b
           abc == ab \o c
<1> HIDE DEF ab, abc
<1>12. ab \in Seq(Installing) /\ Ordered(ab) /\ \A s : Has(a, s) \/ Has(b, s) => Has(ab, s)
  <2>1. a \in Seq(Installing) /\ b \in Seq(Installing) /\ Ordered(a) /\ Ordered(b)
    BY <1>1, <1>7
  <2> QED
    BY <1>11, <2>1, Zenon DEF ab
<1>13. abc \in Seq(Installing) /\ Ordered(abc) /\ \A s : Has(ab, s) \/ Has(c, s) => Has(abc, s)
  <2>1. c \in Seq(Installing) /\ Ordered(c)
    BY <1>8
  <2> QED
    BY <1>11, <1>12, <2>1, Zenon DEF abc
<1>14. Ordered(abc \o d) /\ \A s : Has(abc, s) => Has(abc \o d, s)
  BY <1>9, <1>11, <1>13, Zenon
<1>15. InstallSteps(hosts) = abc \o d
  BY <1>10 DEF ab, abc
<1> DEFINE steps == InstallSteps(hosts)
<1>16. /\ Has(steps, "claude hooks") /\ Ordered(steps)
       /\ "codex" \in hosts => \A s \in {"codex hook", "codex flag", "codex stale"} : Has(steps, s)
       /\ "cursor" \in hosts => Has(steps, "cursor hooks")
  <2>1. steps = abc \o d
    BY <1>15
  <2> HIDE DEF steps
  <2>2. Ordered(steps) /\ \A s : Has(a, s) \/ Has(b, s) \/ Has(c, s) => Has(steps, s)
    BY <1>12, <1>13, <1>14, <2>1, Zenon
  <2>3. Has(steps, "claude hooks")
    BY <1>1, <2>2
  <2>4. "codex" \in hosts => \A s \in {"codex hook", "codex flag", "codex stale"} : Has(steps, s)
    BY <1>7, <2>2
  <2>5. "cursor" \in hosts => Has(steps, "cursor hooks")
    BY <1>8, <2>2
  <2> QED
    BY <2>2, <2>3, <2>4, <2>5
<1> QED
  BY <1>16

\* A step of an install puts its own into its file, and takes nothing of
\* another's away; but the hook comes before Codex' flag and leftovers.
LEMMA EditMakes ==
  ASSUME FilesInv, OnceInv, SetupInv, cmd = "install", EditFile
  PROVE  \A r \in Making : /\ r = Head(todo) \/ Made(r)
                           /\ ~(Head(todo) = "codex hook" /\ r \in {"codex flag", "codex stale"})
                           => Made(r)'
<1> DEFINE s == Head(todo)
           f == Target(s)
           c == file[f]
           new == After(s, c)
<1>1. s \in EditSteps \cap Installing /\ ~Unreadable(s)
  BY StepsLeft DEF EditFile, Edits, Idle
<1>2. windows' = windows /\ file' = [file EXCEPT ![f] = new]
  BY DEF EditFile, Done, others
<1>3. f \in Files /\ FileTyped(f, c) /\ HooksOnce(f, c) /\ DOMAIN file = Files
  <2>1. f \in Files
    BY <1>1, TargetIs, FileNames DEF EditSteps
  <2> HIDE DEF f
  <2> QED
    BY <2>1 DEF FilesTyped, FilesInv, OnceInv
<1>4. file'[f] = new /\ \A g \in Files \ {f} : file'[g] = file[g]
  <2> HIDE DEF f, new
  <2> QED
    BY <1>2, <1>3
<1>5. /\ f # "claude" => file'["claude"] = file["claude"]
      /\ f # "json" => file'["json"] = file["json"]
      /\ f # "toml" => file'["toml"] = file["toml"]
      /\ f # "cursor" => file'["cursor"] = file["cursor"]
  <2> HIDE DEF f, new
  <2> QED
    BY <1>4 DEF Files
<1>6. s \in {"claude hooks", "codex hook", "codex flag", "codex stale", "cursor hooks", "copilot hooks"}
  BY <1>1 DEF EditSteps, Installing
<1>7. s # "copilot hooks" => c # Malformed
  BY <1>1, <1>6 DEF Unreadable
<1>8. WellFormed(file["toml"]) /\ file["toml"] \in Seq(Hooks)
  BY FileNames DEF FilesInv, FilesTyped, WellFormed
\* Of the files that a step leaves, what was in them.
<1>9. ASSUME NEW r \in Making, Made(r),
             /\ r = "claude hooks" => f # "claude"
             /\ r = "cursor hooks" => f # "cursor"
             /\ r = "codex flag" => f # "toml"
             /\ r \in {"codex hook", "codex stale"} => f \notin {"toml", "json"}
      PROVE  Made(r)'
  <2> HIDE DEF f
  <2>1. r \in {"codex hook", "codex stale"} =>
          file'["toml"] = file["toml"] /\ file'["json"] = file["json"]
    BY <1>5, <1>9
  <2> QED
    BY <1>2, <1>5, <1>9, <2>1 DEF Made, ClaudeMade, CursorMade, HookMade, StaleMade
<1>10. CASE s = "claude hooks"
  <2>1. f = "claude" /\ new = MergeSettingsAll(c, windows)
    BY <1>10, TargetIs, AfterIs
  <2>2. c \in Seq(Groups)
    <3> HIDE DEF f, c
    <3> QED
      BY <1>3, <1>7, <1>10, <2>1, FileNames
  <2> HIDE DEF c, new
  <2>3. ClaudeDone(new, windows) /\ new \in Seq(Groups)
    BY <2>1, <2>2, MergeSettingsAllOnce, MergeSettingsAllKeeps
  <2>4. Made("claude hooks")'
    <3>1. file'["claude"] = new /\ new # Malformed
      BY <1>4, <2>1, <2>3, NotMalformed
    <3> QED
      BY <1>2, <2>3, <3>1 DEF Made, ClaudeMade
  <2> HIDE DEF f
  <2> QED
    BY <1>9, <1>10, <2>1, <2>4
<1>11. CASE s = "cursor hooks"
  <2>1. f = "cursor" /\ new = MergeHooksJSON(c)
    BY <1>11, TargetIs, AfterIs
  <2>2. c \in Seq(Hooks) /\ CursorOnce(c)
    <3> HIDE DEF f, c
    <3> QED
      BY <1>3, <1>7, <1>11, <2>1, FileNames DEF HooksOnce
  <2> HIDE DEF c, new
  <2>3. CursorSole(new) /\ new \in Seq(Hooks)
    BY <2>1, <2>2, MergeHooksJSONOnce, MergeHooksJSONKeeps
  <2>4. Made("cursor hooks")'
    <3>1. file'["cursor"] = new /\ new # Malformed
      BY <1>4, <2>1, <2>3, NotMalformed
    <3> QED
      BY <2>3, <3>1 DEF Made, CursorMade
  <2> HIDE DEF f
  <2> QED
    BY <1>9, <1>11, <2>1, <2>4
<1>12. CASE s = "copilot hooks"
  <2>1. f = "copilot"
    BY <1>12, TargetIs
  <2>2. s \notin Making
    BY <1>12 DEF Making
  <2> HIDE DEF f
  <2> QED
    BY <1>9, <2>1, <2>2
<1>13. CASE s = "codex hook" /\ f = "json"
  <2>1. new = MergeHooksJSONHook(c, Variant(windows))
    BY <1>13, AfterIs
  <2>2. c \in Seq(Groups) /\ OnceIn(c)
    <3> HIDE DEF f, c
    <3> QED
      BY <1>3, <1>7, <1>13, FileNames DEF HooksOnce
  <2>3. ~ConfigHasInlineHooks(file["toml"])
    BY <1>13 DEF Target, DetectRepresentation
  <2> HIDE DEF c, new
  <2>4. SoleIn(new, <<"post", Variant(windows)>>) /\ new \in Seq(Groups)
    <3>1. Variant(windows) \in Names
      BY VariantType
    <3> QED
      BY <2>1, <2>2, <3>1, MergeHooksJSONHookSole, MergeHooksJSONHookKeeps
  <2>5. Made("codex hook")'
    <3>1. file'["json"] = new /\ new # Malformed /\ file'["toml"] = file["toml"]
      BY <1>4, <1>5, <1>13, <2>4, NotMalformed
    <3>2. HookMade(file["toml"], file["json"])'
      BY <1>2, <2>3, <2>4, <3>1 DEF HookMade
    <3> QED
      BY <3>1, <3>2 DEF Made
  <2> HIDE DEF f
  <2> QED
    BY <1>9, <1>13, <2>5
<1>14. CASE s = "codex hook" /\ f = "toml"
  <2>1. new = MergeConfigTOMLHook(c, Variant(windows))
    BY <1>14, AfterIs
  <2>2. WellFormed(c) /\ Once(c, Commands)
    <3> HIDE DEF f, c
    <3> QED
      BY <1>3, <1>14, FileNames DEF HooksOnce
  <2> HIDE DEF c, new
  <2>3. Sole(new, Commands, <<OurCommand[Variant(windows)], "thlibo">>)
    BY <2>1, <2>2, MergeConfigTOMLHookSole, VariantType
  <2>4. Made("codex hook")'
    <3>1. file'["toml"] = new
      BY <1>4, <1>14
    <3> QED
      BY <1>2, <2>3, <3>1 DEF Made, HookMade
  <2> HIDE DEF f
  <2> QED
    BY <1>9, <1>14, <2>4
<1>15. CASE s = "codex flag"
  <2>1. f = "toml" /\ new = EnsureCodexHooksTrue(file["toml"])
    BY <1>15, TargetIs, AfterIs
  <2> HIDE DEF c, new
  <2>2. /\ EnsureCodexHooksTrue(new) = new
        /\ \A x : Sole(file["toml"], Commands, x) => Sole(new, Commands, x)
        /\ ConfigHasInlineHooks(new) <=> ConfigHasInlineHooks(file["toml"])
    BY <1>8, <2>1, EnsureCodexHooksTrueTwice, EnsureKeepsHooks
  <2>3. file'["toml"] = new /\ file'["json"] = file["json"]
    BY <1>4, <1>5, <2>1
  <2>4. Made("codex flag")'
    BY <2>2, <2>3 DEF Made
  <2>5. Made("codex hook") => Made("codex hook")'
    BY <1>2, <2>2, <2>3 DEF Made, HookMade
  <2>6. Made("codex stale") => Made("codex stale")'
    BY <2>2, <2>3 DEF Made, StaleMade
  <2> HIDE DEF f
  <2> QED
    BY <1>9, <1>15, <2>1, <2>4, <2>5, <2>6
<1>16. CASE s = "codex stale"
  <2>1. f = "json"
    BY <1>16, TargetIs
  <2>2. c \in Seq(Groups)
    <3> HIDE DEF f, c
    <3> QED
      BY <1>3, <1>7, <1>16, <2>1, FileNames
  <2>3. new = IF ConfigHasInlineHooks(file["toml"]) THEN WithoutOurs(c) ELSE c
    BY <1>16, StaleIs
  <2> HIDE DEF c, new
  <2>4. file'["toml"] = file["toml"] /\ file'["json"] = new
    BY <1>4, <1>5, <2>1
  <2>5. Made("codex stale")'
    <3>1. NoneIn(WithoutOurs(c))
      BY <2>2, WithoutOursNone
    <3> QED
      BY <2>3, <2>4, <3>1 DEF Made, StaleMade
  <2>6. Made("codex hook") => Made("codex hook")'
    <3> SUFFICES ASSUME HookMade(file["toml"], file["json"]) PROVE HookMade(file["toml"], file["json"])'
      BY DEF Made
    <3>1. CASE Sole(file["toml"], Commands, <<OurCommand[Variant(windows)], "thlibo">>)
      BY <1>2, <2>4, <3>1 DEF HookMade
    <3>2. CASE /\ ~ConfigHasInlineHooks(file["toml"]) /\ file["json"] # Malformed
               /\ SoleIn(file["json"], <<"post", Variant(windows)>>)
      <4>1. c = file["json"]
        BY <2>1 DEF c
      <4>2. file'["json"] = file["json"]
        BY <2>3, <2>4, <3>2, <4>1
      <4> QED
        BY <1>2, <2>4, <3>2, <4>2 DEF HookMade
    <3> QED
      BY <3>1, <3>2 DEF HookMade
  <2> HIDE DEF f
  <2> QED
    BY <1>9, <1>16, <2>1, <2>5, <2>6
<1>17. s = "codex hook" => f \in {"json", "toml"}
  BY TargetIs
<1> QED
  BY <1>6, <1>10, <1>11, <1>12, <1>13, <1>14, <1>15, <1>16, <1>17

\* A step that changes no settings, or meets a file that cannot be read and
\* has nothing to remove from it.
LEMMA OthersMake ==
  ASSUME SetupInv, cmd = "install", clean',
         MeetMalformed \/ WriteClaudeScript \/ WriteScript \/ Mirror
  PROVE  \A r \in Making : r = Head(todo) \/ Made(r) => Made(r)'
<1>1. file' = file /\ windows' = windows
  BY DEF MeetMalformed, WriteClaudeScript, WriteScript, Mirror, GiveUp, Done, others
<1>2. ASSUME NEW r \in Making, Made(r) PROVE Made(r)'
  BY <1>1, <1>2 DEF Made, ClaudeMade, CursorMade, HookMade, StaleMade
<1>3. ASSUME NEW r \in Making, r = Head(todo) PROVE Made(r)
  <2>1. CASE MeetMalformed
    <3>1. /\ Head(todo) \in {"codex stale", "remove codex json", "remove cursor hooks"}
          /\ Unreadable(Head(todo))
      BY <2>1 DEF MeetMalformed
    <3>2. r = "codex stale" /\ Unreadable(r)
      BY <1>3, <3>1 DEF Making
    <3>3. file["json"] = Malformed
      BY <3>2, TargetIs DEF Unreadable
    <3> QED
      BY <3>2, <3>3 DEF Made, StaleMade
  <2>2. CASE WriteClaudeScript \/ WriteScript \/ Mirror
    <3>1. /\ ScriptStep["codex"] = "codex script" /\ ScriptStep["cursor"] = "cursor script"
          /\ ScriptStep["copilot"] = "copilot script"
      BY DEF ScriptStep
    <3>2. Head(todo) \in {"mirror", "claude script", "codex script", "cursor script", "copilot script"}
      BY <2>2, <3>1 DEF WriteClaudeScript, WriteScript, Mirror, At, Hosts
    <3> QED
      BY <1>3, <3>2 DEF Making
  <2> QED
    BY <2>1, <2>2
<1> QED
  BY <1>2, <1>3

\* An install goes through all the steps that are asked for, or is not clean.
LEMMA InstallInvKept ==
  ASSUME FilesInv, SetupInv, OnceInv, InstallInv, [Next]_vars
  PROVE  InstallInv'
<1>1. CASE UNCHANGED vars
  <2>1. UNCHANGED <<file, windows, todo, cmd, with, clean, code>>
    BY <1>1 DEF vars, command, others
  <2>2. Asked' = Asked /\ \A s : (Pending(s)' <=> Pending(s)) /\ (Made(s)' <=> Made(s))
    BY <2>1 DEF Asked, Pending, Made, ClaudeMade, CursorMade, HookMade, StaleMade
  <2> QED
    BY <2>1, <2>2 DEF InstallInv
<1>2. CASE Uninstall \/ UserAdds \/ UserEdits \/ Upgrade
  BY <1>2 DEF Uninstall, UserAdds, UserEdits, Upgrade, InstallInv
<1>3. CASE Install
  <2>1. PICK hosts \in Optional : with' = hosts \cup {"claude"} /\ todo' = InstallSteps(hosts)
    BY <1>3 DEF Install
  <2>2. code' = -1
    BY <1>3 DEF Install
  <2>3. /\ Has(todo', "claude hooks") /\ Ordered(todo')
        /\ "codex" \in hosts => \A s \in {"codex hook", "codex flag", "codex stale"} : Has(todo', s)
        /\ "cursor" \in hosts => Has(todo', "cursor hooks")
    BY <2>1, AskedAhead
  <2>4. ("codex" \in with' <=> "codex" \in hosts) /\ ("cursor" \in with' <=> "cursor" \in hosts)
    BY <2>1
  <2>5. \A s \in Asked' : Has(todo', s)
    BY <2>3, <2>4 DEF Asked
  <2>6. \A s \in Asked' : Pending(s)'
    BY <2>5 DEF Has, Pending
  <2>7. Ordered(todo)'
    BY <2>3 DEF Ordered
  <2> QED
    BY <2>2, <2>6, <2>7 DEF InstallInv
<1>4. CASE Step
  <2> SUFFICES ASSUME cmd' = "install" PROVE InstallInv'
    BY DEF InstallInv
  <2>1. cmd = "install" /\ with' = with
    BY <1>4 DEF Step, EditFile, MeetMalformed, WriteClaudeScript, WriteScript, DeleteScript, Mirror,
       Purge, StepFails, Killed, Done, GiveUp
  <2>2. todo # <<>>
    BY <1>4 DEF Step, EditFile, MeetMalformed, WriteClaudeScript, WriteScript, DeleteScript, Mirror,
       Purge, StepFails, Killed, At, Idle
  <2>3. Head(todo) \in Installing /\ todo \in Seq(Installing)
    BY <2>1, <2>2, StepsLeft DEF SetupInv
  <2>4. \/ todo' = <<>>
        \/ todo' = Tail(todo) /\ code' = (IF Tail(todo) = <<>> THEN 0 ELSE code)
    BY <1>4 DEF Step, EditFile, MeetMalformed, WriteClaudeScript, WriteScript, DeleteScript, Mirror,
       Purge, StepFails, Killed, Done, GiveUp
  <2>5. code' = 0 => todo' = <<>>
    BY <2>1, <2>2, <2>4 DEF InstallInv
  <2>6. /\ Precedes(todo, "codex hook", "codex flag") /\ Precedes(todo, "codex hook", "codex stale")
    BY <2>1 DEF InstallInv, Ordered
  <2>7. \A t : /\ Precedes(todo, "codex hook", t) => Precedes(Tail(todo), "codex hook", t)
               /\ Precedes(todo, "codex hook", t) /\ Head(todo) = "codex hook" =>
                    \E i \in DOMAIN Tail(todo) : Tail(todo)[i] = t
    BY <2>2, <2>3, Behind
  <2>8. Ordered(todo)'
    <3>1. CASE todo' = <<>>
      BY <3>1 DEF Ordered, Precedes
    <3>2. CASE todo' = Tail(todo)
      BY <2>6, <2>7, <3>2 DEF Ordered
    <3> QED
      BY <2>4, <3>1, <3>2
  <2>9. ASSUME clean', NEW s \in Asked PROVE Pending(s)' \/ Made(s)'
    <3>1. ~StepFails /\ ~Killed
      BY <2>9 DEF StepFails, Killed
    <3>2. ~DeleteScript /\ ~Purge
      <4>1. \A h \in Hosts : RemovalStep[h] \notin Installing
        BY RemovalSteps DEF Installing
      <4>2. "purge" \notin Installing
        BY DEF Installing
      <4> QED
        BY <2>3, <4>1, <4>2 DEF DeleteScript, Purge, At
    <3>3. s \in Making
      BY DEF Asked, Making
    <3>4. \/ Head(todo) = "codex hook" /\ s \in {"codex flag", "codex stale"}
          \/ s = Head(todo) \/ Made(s) => Made(s)'
      <4>1. CASE EditFile
        BY <2>1, <3>3, <4>1, EditMakes
      <4>2. CASE MeetMalformed \/ WriteClaudeScript \/ WriteScript \/ Mirror
        BY <2>1, <2>9, <3>3, <4>2, OthersMake
      <4> QED
        BY <1>4, <3>1, <3>2, <4>1, <4>2 DEF Step
    <3>5. clean /\ todo' = Tail(todo)
      <4>1. CASE MeetMalformed
        <5>1. /\ clean' = (clean /\ Head(todo) \in {"codex stale", "remove codex json", "remove cursor hooks"})
              /\ GiveUp(Head(todo))
          BY <4>1 DEF MeetMalformed
        <5>2. clean /\ ExitCode(Head(todo)) = 0
          BY <2>9, <5>1 DEF ExitCode
        <5> QED
          BY <5>1, <5>2 DEF GiveUp
      <4>2. CASE EditFile \/ WriteClaudeScript \/ WriteScript \/ Mirror
        BY <2>9, <4>2 DEF EditFile, WriteClaudeScript, WriteScript, Mirror, Done
      <4> QED
        BY <1>4, <3>1, <3>2, <4>1, <4>2 DEF Step
    <3>6. Pending(s) \/ Made(s)
      BY <2>1, <2>9, <3>5 DEF InstallInv
    <3>7. CASE Head(todo) = "codex hook" /\ s \in {"codex flag", "codex stale"}
      <4>1. \E i \in DOMAIN Tail(todo) : Tail(todo)[i] = s
        BY <2>6, <2>7, <3>7
      <4> QED
        BY <3>5, <4>1 DEF Pending
    <3>8. CASE s = Head(todo) \/ Made(s) => Made(s)'
      BY <2>2, <3>5, <3>6, <3>8, OneLess
    <3> QED
      BY <3>4, <3>7, <3>8
  <2>10. Asked' = Asked
    BY <2>1 DEF Asked
  <2>11. clean' => \A s \in Asked' : Pending(s)' \/ Made(s)'
    BY <2>9, <2>10
  <2> QED
    BY <2>5, <2>8, <2>11 DEF InstallInv
<1> QED
  BY <1>1, <1>2, <1>3, <1>4 DEF Next

\* The invariants together.
LEMMA InstallInvs == Spec => [](FilesInv /\ SetupInv /\ OnceInv /\ FirstInv /\ InstallInv)
<1>1. Init => FilesInv /\ SetupInv /\ OnceInv /\ FirstInv /\ InstallInv
  <2>1. Init => InstallInv /\ FirstInv
    BY DEF Init, InstallInv, FirstInv
  <2> QED
    BY <2>1, FilesInitially, SetupInitInv, OnceInitially
<1>2. FilesInv /\ SetupInv /\ OnceInv /\ FirstInv /\ InstallInv /\ [Next]_vars
        => (FilesInv /\ SetupInv /\ OnceInv /\ FirstInv /\ InstallInv)'
  BY FilesInvKept, SetupInvKept, OnceInvKept, FirstInvKept, InstallInvKept
<1> QED
  BY <1>1, <1>2, PTL DEF Spec

\* The calls that are read from a list of hooks.
LEMMA CallsIs ==
  ASSUME NEW hooks \in Seq(Hooks), NEW family, NEW variant
  PROVE  /\ Only(hooks, Family(family)) = <<<<family, variant>>>> => Calls(hooks, family) = <<variant>>
         /\ Only(hooks, Family(family)) = <<>> => Calls(hooks, family) = <<>>
<1> DEFINE ours == Only(hooks, Family(family))
<1>1. Calls(hooks, family) = [i \in DOMAIN ours |-> ours[i][2]]
  BY KindsSelected DEF Calls
<1> HIDE DEF ours
<1>2. ASSUME ours = <<<<family, variant>>>>
      PROVE  [i \in DOMAIN ours |-> ours[i][2]] = <<variant>>
  <2>1. DOMAIN ours = 1..1 /\ ours[1][2] = variant
    BY <1>2
  <2>2. [i \in DOMAIN ours |-> ours[i][2]] = [i \in 1..1 |-> variant]
    <3>1. \A i \in 1..1 : i = 1
      OBVIOUS
    <3> QED
      BY <2>1, <3>1
  <2> QED
    BY <2>2
<1>3. ASSUME ours = <<>> PROVE [i \in DOMAIN ours |-> ours[i][2]] = <<>>
  BY <1>3
<1> QED
  BY <1>1, <1>2, <1>3 DEF ours

\* After an install that went well Claude Code, Codex and Cursor call thlibo once for
\* each thing, by the script this platform can run; Codex does it in one of its two
\* files, with its hooks switched on, whatever the files held, whichever installs
\* and uninstalls came before and wherever they were cut off.  It is the first group
\* of a matcher that calls thlibo in Claude Code, and no other one unless others have
\* put theirs before one with an entry of thlibo's (Run, the adapters' merges and
\* detectRepresentation; #127, #128, #170).
THEOREM InstalledAlwaysOnce == Spec => []InstalledOnce
<1>1. FilesInv /\ SetupInv /\ OnceInv /\ FirstInv /\ InstallInv => InstalledOnce
  <2> SUFFICES ASSUME FilesInv, FirstInv, InstallInv, cmd = "install", code = 0, clean
               PROVE  InstalledOnce
    BY DEF InstalledOnce
  <2>1. \A s \in Asked : Made(s)
    <3>1. \A s : ~Pending(s)
      BY DEF InstallInv, Pending
    <3> QED
      BY <3>1 DEF InstallInv
  <2>2. /\ FileTyped("claude", file["claude"]) /\ FileTyped("json", file["json"])
        /\ FileTyped("toml", file["toml"]) /\ FileTyped("cursor", file["cursor"])
    BY FileNames DEF FilesInv, FilesTyped
  <2> DEFINE claude == file["claude"]
             toml == file["toml"]
             json == file["json"]
             cursor == file["cursor"]
             v == Variant(windows)
             inline == Select(toml, IsOurCommand)
             calls == IF json = Malformed THEN <<>> ELSE Calls(HooksOf(json), "post")
  <2>3. ASSUME NEW i \in DOMAIN Registered
        PROVE  LET first == SelectInSeq(claude, LAMBDA g : g.matcher = Registered[i][1])
               IN  /\ Calls(claude[first].hooks, Registered[i][2]) = <<v>>
                   /\ \A n \in DOMAIN claude \ {first} :
                        ~overtaken /\ claude[n].matcher = Registered[i][1]
                          => Calls(claude[n].hooks, Registered[i][2]) = <<>>
    <3> DEFINE k == FirstWith(claude, Registered[i][1])
    <3>1. ClaudeMade(claude)
      BY <2>1 DEF Asked, Made
    <3>2. claude \in Seq(Groups) /\ ClaudeDone(claude, windows)
      BY <2>2, <3>1, FileNames DEF ClaudeMade
    <3>3. i \in 1..5
      BY RegisteredType
    <3>4. k # 0 /\ Sole(claude[k].hooks, Family(Registered[i][2]), <<Registered[i][2], v>>)
      BY <3>2, <3>3 DEF ClaudeDone, CallsOnce
    <3>5. /\ k \in 1..Len(claude) /\ claude[k].matcher = Registered[i][1]
          /\ \A n \in 1..k - 1 : claude[n].matcher # Registered[i][1]
      BY <3>2, <3>4, FirstHas
    <3>0. overtaken \/ InFirstGroups(claude)
      BY DEF FirstInv
    <3> HIDE DEF k, v, claude
    <3>6. claude[k].hooks \in Seq(Hooks)
      <4>1. claude[k] \in Groups
        BY <3>2, <3>5
      <4> QED
        BY <4>1 DEF Groups
    <3>7. Only(claude[k].hooks, Family(Registered[i][2])) = <<<<Registered[i][2], v>>>>
      BY <3>4, <3>6, OnlySole
    <3>8. Calls(claude[k].hooks, Registered[i][2]) = <<v>>
      BY <3>6, <3>7, CallsIs
    <3>9. ASSUME NEW n \in DOMAIN claude \ {k}, ~overtaken, claude[n].matcher = Registered[i][1]
          PROVE  Calls(claude[n].hooks, Registered[i][2]) = <<>>
      <4>1. n \in DOMAIN claude /\ k \in DOMAIN claude /\ k < n
        BY <3>2, <3>5, <3>9
      <4>2. \A j \in DOMAIN claude[n].hooks : IsUser(claude[n].hooks[j])
        BY <3>0, <3>5, <3>9, <4>1 DEF InFirstGroups
      <4>3. claude[n].hooks \in Seq(Hooks)
        <5>1. claude[n] \in Groups
          BY <3>2, <4>1
        <5> QED
          BY <5>1 DEF Groups
      <4>4. \A j \in 1..Len(claude[n].hooks) : claude[n].hooks[j] \notin Family(Registered[i][2])
        <5>1. Registered[i][2] # "user"
          BY <3>3, RegisteredType
        <5>2. DOMAIN claude[n].hooks = 1..Len(claude[n].hooks)
          BY <4>3
        <5> QED
          BY <4>2, <5>1, <5>2 DEF IsUser, Family
      <4>5. Only(claude[n].hooks, Family(Registered[i][2])) = <<>>
        BY <4>3, <4>4, OnlyNowhere
      <4> QED
        BY <4>3, <4>5, CallsIs
    <3> QED
      BY <3>8, <3>9 DEF k, FirstWith
  <2>4. ASSUME "codex" \in with
        PROVE  /\ inline \in {<<>>, <<<<OurCommand[v], "thlibo">>>>}
               /\ calls = IF inline = <<>> THEN <<v>> ELSE <<>>
               /\ calls # <<>> => ~ConfigHasInlineHooks(toml)
               /\ EnsureCodexHooksTrue(toml) = toml
    <3>1. HookMade(toml, json) /\ StaleMade(toml, json) /\ EnsureCodexHooksTrue(toml) = toml
      BY <2>1, <2>4 DEF Asked, Made
    <3>2. WellFormed(toml) /\ toml \in Seq(Hooks) /\ (json # Malformed => json \in Seq(Groups))
      BY <2>2, FileNames DEF WellFormed
    <3>3. inline = Only(toml, Commands)
      BY <3>2, KindsSelected
    <3>4. json # Malformed => HooksOf(json) \in Seq(Hooks)
      BY <3>2, HooksOfType
    <3> HIDE DEF toml, json, v, inline, calls
    <3>5. CASE Sole(toml, Commands, <<OurCommand[v], "thlibo">>)
      <4>1. inline = <<<<OurCommand[v], "thlibo">>>>
        BY <3>2, <3>3, <3>5, OnlySole
      <4>2. inline # <<>>
        BY <4>1
      <4>3. ConfigHasInlineHooks(toml)
        BY <3>2, <3>3, <4>2, CommandsSeen, CommandsInline
      <4>4. calls = <<>>
        <5>1. CASE json = Malformed
          BY <5>1 DEF calls
        <5>2. CASE json # Malformed
          <6>1. NoneIn(json)
            BY <3>1, <4>3, <5>2 DEF StaleMade
          <6>2. Only(HooksOf(json), Family("post")) = <<>>
            BY <3>2, <5>2, <6>1, NoneInCalls
          <6>3. Calls(HooksOf(json), "post") = <<>>
            BY <3>4, <5>2, <6>2, CallsIs
          <6> QED
            BY <5>2, <6>3 DEF calls
        <5> QED
          BY <5>1, <5>2
      <4> QED
        BY <3>1, <4>1, <4>2, <4>4
    <3>6. CASE ~ConfigHasInlineHooks(toml) /\ json # Malformed /\ SoleIn(json, <<"post", v>>)
      <4>1. inline = <<>>
        BY <3>2, <3>3, <3>6, CommandsSeen, CommandsInline
      <4>2. Only(HooksOf(json), Family("post")) = <<<<"post", v>>>>
        BY <3>2, <3>6, SoleInCalls
      <4>3. Calls(HooksOf(json), "post") = <<v>>
        BY <3>4, <3>6, <4>2, CallsIs
      <4> QED
        BY <3>1, <3>6, <4>1, <4>3 DEF calls
    <3> QED
      BY <3>1, <3>5, <3>6 DEF HookMade, v
  <2>5. ASSUME "cursor" \in with
        PROVE  Calls(cursor, "shell") = <<"Shell">> /\ Calls(cursor, "file") = <<"Read">>
    <3>1. CursorMade(cursor)
      BY <2>1, <2>5 DEF Asked, Made
    <3>2. cursor \in Seq(Hooks) /\ CursorSole(cursor)
      BY <2>2, <3>1, FileNames DEF CursorMade
    <3> HIDE DEF cursor
    <3>3. Only(cursor, Family("shell")) = <<<<"shell", "Shell">>>>
      BY <3>2, OnlySole DEF CursorSole
    <3>4. Only(cursor, Family("file")) = <<<<"file", "Read">>>>
      BY <3>2, OnlySole DEF CursorSole
    <3> QED
      BY <3>2, <3>3, <3>4, CallsIs
  <2> QED
    BY <2>3, <2>4, <2>5 DEF InstalledOnce
<1> QED
  BY InstallInvs, <1>1, PTL

-----------------------------------------------------------------------------
(* Shorthand: the instructions.                                              *)

Stages == {"idle", "backup", "backing up", "file", "writing"}

\* What holds over many runs, and what holds of one: a directive may stand within
\* a longer word after the first, and the second run does not look for it then.
StructureKept(old, new) == Words(old).fences \subseteq Words(new).fences /\ FrontSurvives(old, new)

Carried(old, new) ==
  /\ Words(old).must \subseteq Contained(Words(new))
  /\ Words(new).ticks \subseteq BetweenTicks(Words(old))

\* Some whole file is what it was, and the rewrite that is under way keeps what
\* the user wrote as well as what it rewrites.
ShorthandInv ==
  /\ written \in Shape /\ content \in Shape \cup {Unfinished} /\ step \in Stages
  /\ content # Unfinished => StructureKept(written, content)
  /\ step # "idle" => result \in Shape /\ StructureKept(written, result) /\ Carried(prior, result)
  /\ step \in {"backup", "backing up"} => content = prior
  /\ step \in {"file", "writing"} => orig = prior
  /\ step = "idle" => prior \in {content, orig}

\* Blocks of code and heads that survive two rewritings in a row survive both.
LEMMA KeptTwice ==
  ASSUME NEW a, NEW b, NEW c, StructureKept(a, b), StructureKept(b, c)
  PROVE  StructureKept(a, c)
BY DEF StructureKept, FrontSurvives

\* What passes the checklist.
LEMMA Checked ==
  ASSUME NEW a, NEW b, DocumentSurvives(a, b)
  PROVE  StructureKept(a, b) /\ Carried(a, b)
BY DEF DocumentSurvives, Survives, StructureKept, Carried

\* What is not rewritten passes it.
LEMMA SurvivesItself == \A a : DocumentSurvives(a, a)
BY DEF DocumentSurvives, Survives, FrontSurvives, Contained, BetweenTicks

\* What CompressYAML writes is a file as any other.
LEMMA YAMLShape ==
  ASSUME NEW f \in Shape, NEW answers \in AnswersFor(f, TRUE)
  PROVE  CompressYAML(f, answers).file \in Shape
<1> DEFINE good == Rewritten(f, answers)
           doc == [n \in DOMAIN f.docs[1] |->
                    IF n \in good THEN [f.docs[1][n] EXCEPT !.text = answers[n]] ELSE f.docs[1][n]]
           new == [front |-> FALSE, yaml |-> f.yaml, keyed |-> f.keyed \/ f.front, reads |-> f.reads, docs |-> <<doc>>]
<1>1. /\ f.docs \in Seq(Seq(Scalars)) /\ f.docs # <<>>
      /\ f.yaml \in BOOLEAN /\ f.reads \in BOOLEAN /\ f.keyed \in BOOLEAN /\ f.front \in BOOLEAN
  BY DEF Shape
<1>2. f.docs[1] \in Seq(Scalars)
  BY <1>1
<1>3. ASSUME NEW n \in DOMAIN f.docs[1] PROVE doc[n] \in Scalars
  <2>1. f.docs[1][n] \in Scalars
    BY <1>2
  <2>2. n \in good => answers[n] \in Wording
    <3>1. n \in good => answers[n] \in Answers
      BY DEF AnswersFor, Rewritten
    <3> QED
      BY <3>1, ShorthandAssumption DEF Rewritten, IsText
  <2> QED
    BY <2>1, <2>2 DEF Scalars
<1> HIDE DEF good
<1>4. DOMAIN f.docs[1] = 1..Len(f.docs[1]) /\ Len(f.docs[1]) \in Nat
  BY <1>2
<1>5. doc \in [1..Len(f.docs[1]) -> Scalars]
  BY <1>3, <1>4
<1> HIDE DEF doc
<1>6. doc \in Seq(Scalars)
  BY <1>4, <1>5
<1>7. new \in Shape
  <2> DEFINE docs == <<doc>>
             keyed == f.keyed \/ f.front
  <2>1. docs \in Seq(Seq(Scalars)) \ {<<>>}
    BY <1>6
  <2>2. keyed \in BOOLEAN
    BY <1>1
  <2>3. new = [front |-> FALSE, yaml |-> f.yaml, keyed |-> keyed, reads |-> f.reads, docs |-> docs]
    OBVIOUS
  <2> HIDE DEF docs, keyed, new
  <2> QED
    BY <1>1, <2>1, <2>2, <2>3 DEF Shape
<1>8. \/ CompressYAML(f, answers) = AsItIs(f) \/ CompressYAML(f, answers) = Unchanged(f)
      \/ CompressYAML(f, answers) = [file |-> new, already |-> FALSE, safe |-> TRUE]
  <2> DEFINE C == good = {}
             D == Failed(f, answers) # {} \/ ~DocumentSurvives(f, new)
             done == [file |-> new, already |-> FALSE, safe |-> TRUE]
  <2>1. CompressYAML(f, answers) = IF C THEN AsItIs(f) ELSE IF D THEN Unchanged(f) ELSE done
    BY DEF CompressYAML, good, doc
  <2> HIDE DEF C, D, done
  <2>2. CompressYAML(f, answers) \in {AsItIs(f), Unchanged(f), done}
    BY <2>1
  <2> QED
    BY <2>2 DEF done
<1> HIDE DEF new
<1> QED
  BY <1>7, <1>8 DEF AsItIs, Unchanged

\* Of a rewrite, what is used has passed the checklist; the rest is the file.
LEMMA ResultKeeps ==
  ASSUME NEW f \in Shape, NEW asYAML \in BOOLEAN, NEW answers \in AnswersFor(f, asYAML),
         ~RunFails(f, asYAML, answers)
  PROVE  /\ ResultOf(f, asYAML, answers).file \in Shape
         /\ DocumentSurvives(f, ResultOf(f, asYAML, answers).file)
<1>1. AsItIs(f).file = f /\ Unchanged(f).file = f
  BY DEF AsItIs, Unchanged
<1>2. CASE asYAML
  <2> DEFINE new == CompressYAML(f, answers).file
  <2>1. ResultOf(f, asYAML, answers).file = new
    BY <1>2 DEF ResultOf
  <2>2. new = f \/ DocumentSurvives(f, new)
    BY <1>1 DEF CompressYAML
  <2>3. new \in Shape
    BY <1>2, YAMLShape
  <2> HIDE DEF new
  <2> QED
    BY <2>1, <2>2, <2>3, SurvivesItself
<1>3. CASE ~asYAML
  <2> DEFINE new == [answers EXCEPT !.yaml = f.yaml]
  <2>1. ResultOf(f, asYAML, answers) = Compress(f, answers)
    BY <1>3 DEF ResultOf
  <2>2. \/ Compress(f, answers).file = f
        \/ /\ Compress(f, answers).file = new /\ DocumentSurvives(f, new)
           /\ answers \notin {Already, Nothing}
    BY <1>1 DEF Compress
  <2>3. answers \notin {Already, Nothing} => answers \in Shape
    BY <1>3, ShorthandAssumption DEF AnswersFor, RunFails
  <2>4. answers \in Shape => new \in Shape
    BY DEF Shape
  <2> HIDE DEF new
  <2> QED
    BY <2>1, <2>2, <2>3, <2>4, SurvivesItself
<1> QED
  BY <1>2, <1>3

\* Every step of the rewriting keeps it.
LEMMA ShorthandInvKept ==
  ASSUME ShorthandInv, [ShorthandNext]_shorthandVars
  PROVE  ShorthandInv'
<1> USE DEF ShorthandInv, Stages
<1>1. CASE Rewrite
  <2>1. content \in Shape /\ step = "idle" /\ StructureKept(written, content)
    BY <1>1 DEF Rewrite, AtRest
  <2>2. PICK yaml \in {"auto", "on", "off"} :
          \E answers \in AnswersFor(content, Mode(yaml, content)) :
            IF RunFails(content, Mode(yaml, content), answers) THEN UNCHANGED <<step, result, prior>>
            ELSE /\ step' = "backup"
                 /\ result' = ResultOf(content, Mode(yaml, content), answers).file
                 /\ prior' = content
    BY <1>1 DEF Rewrite
  <2> DEFINE asYAML == Mode(yaml, content)
  <2>3. asYAML \in BOOLEAN
    BY <2>1 DEF Mode, LooksLikeYAML, Shape
  <2> HIDE DEF asYAML
  <2>4. PICK answers \in AnswersFor(content, asYAML) :
          IF RunFails(content, asYAML, answers) THEN UNCHANGED <<step, result, prior>>
          ELSE /\ step' = "backup"
               /\ result' = ResultOf(content, asYAML, answers).file
               /\ prior' = content
    BY <2>2 DEF asYAML
  <2>5. CASE RunFails(content, asYAML, answers)
    BY <1>1, <2>4, <2>5 DEF Rewrite
  <2>6. CASE ~RunFails(content, asYAML, answers)
    <3>1. result' \in Shape /\ DocumentSurvives(content, result')
      BY <2>1, <2>3, <2>4, <2>6, ResultKeeps
    <3>2. StructureKept(content, result') /\ Carried(content, result')
      BY <3>1, Checked
    <3>3. StructureKept(written, result')
      BY <2>1, <3>2, KeptTwice
    <3> QED
      BY <1>1, <2>1, <2>4, <2>6, <3>1, <3>2, <3>3 DEF Rewrite
  <2> QED
    BY <2>5, <2>6
<1>2. CASE Backup
  BY <1>2 DEF Backup
<1>3. CASE WriteFile
  BY <1>3 DEF WriteFile
<1>4. CASE RewriteDies
  BY <1>4 DEF RewriteDies
<1>5. CASE WriteHook
  <2>1. PICK text \in Instructions, yamlProse \in BOOLEAN, kept \in BOOLEAN :
          \E answers \in AnswersFor(text, yamlProse /\ LooksLikeYAML(text)) :
            written' = text /\ HookWrites(text, yamlProse /\ LooksLikeYAML(text), answers, kept)
    BY <1>5 DEF WriteHook
  <2> DEFINE asYAML == yamlProse /\ LooksLikeYAML(text)
  <2>2. text \in Shape /\ asYAML \in BOOLEAN
    BY ShorthandAssumption DEF LooksLikeYAML, Shape
  <2> HIDE DEF asYAML
  <2>3. PICK answers \in AnswersFor(text, asYAML) :
          \/ content' = text
          \/ content' = ResultOf(text, asYAML, answers).file /\ ~RunFails(text, asYAML, answers)
    BY <2>1 DEF HookWrites, asYAML
  <2>4. content' \in Shape /\ DocumentSurvives(text, content')
    BY <2>2, <2>3, ResultKeeps, SurvivesItself
  <2>5. StructureKept(text, content')
    BY <2>4, Checked
  <2> QED
    BY <1>5, <2>1, <2>2, <2>4, <2>5 DEF WriteHook, AtRest
<1>6. CASE UNCHANGED shorthandVars
  BY <1>6 DEF shorthandVars
<1> QED
  BY <1>1, <1>2, <1>3, <1>4, <1>5, <1>6 DEF ShorthandNext, ShorthandDone

\* It holds at first.
LEMMA ShorthandInitInv == ShorthandInit => ShorthandInv
<1>1. \A a : StructureKept(a, a)
  BY SurvivesItself, Checked
<1> QED
  BY <1>1, ShorthandAssumption DEF ShorthandInit, ShorthandInv, Stages

\* Of every run of shorthand, in place or in the write hook, interrupted or not.
THEOREM ShorthandInOrder == ShorthandSpec => []ShorthandInv
BY ShorthandInitInv, ShorthandInvKept, PTL DEF ShorthandSpec

\* However often a file is rewritten, and whatever the model answers, no block of
\* code and no key of a head goes (Evaluate).
THEOREM StructureAlwaysSurvives == ShorthandSpec => []StructureSurvives
<1>1. ShorthandInv => StructureSurvives
  BY DEF ShorthandInv, StructureSurvives, StructureKept
<1> QED
  BY ShorthandInOrder, <1>1, PTL

\* The hook passes on what passed the checklist, or the text itself.
LEMMA HookCarries ==
  ASSUME WriteHook PROVE Carried(written', content')
<1>1. PICK text \in Instructions, yamlProse \in BOOLEAN, kept \in BOOLEAN :
        \E answers \in AnswersFor(text, yamlProse /\ LooksLikeYAML(text)) :
          written' = text /\ HookWrites(text, yamlProse /\ LooksLikeYAML(text), answers, kept)
  BY DEF WriteHook
<1> DEFINE asYAML == yamlProse /\ LooksLikeYAML(text)
<1>2. text \in Shape /\ asYAML \in BOOLEAN
  BY ShorthandAssumption DEF LooksLikeYAML, Shape
<1> HIDE DEF asYAML
<1>3. PICK answers \in AnswersFor(text, asYAML) :
        \/ content' = text
        \/ content' = ResultOf(text, asYAML, answers).file /\ ~RunFails(text, asYAML, answers)
  BY <1>1 DEF HookWrites, asYAML
<1>4. DocumentSurvives(text, content')
  BY <1>2, <1>3, ResultKeeps, SurvivesItself
<1> QED
  BY <1>1, <1>4, Checked

\* Whatever the model answers, what is written has every directive of what it was
\* made from, if only within a longer word, and no new word in backticks, of any
\* run in place or of the write hook; and blocks of code and keys of a head survive
\* any number of them (Evaluate).
THEOREM DirectivesAlwaysSurvive == ShorthandSpec => DirectivesSurvive
<1> DEFINE StepKeeps ==
      content' # content /\ content' # Unfinished =>
        LET from == IF step = "writing" THEN prior ELSE written'
        IN /\ Words(from).must \subseteq Contained(Words(content'))
           /\ Words(content').ticks \subseteq BetweenTicks(Words(from))
<1>1. ShorthandInv /\ [ShorthandNext]_shorthandVars => [StepKeeps]_shorthandVars
  <2> SUFFICES ASSUME ShorthandInv, ShorthandNext, content' # content, content' # Unfinished
               PROVE  Carried(IF step = "writing" THEN prior ELSE written', content')
    BY DEF Carried
  <2>1. CASE WriteFile
    BY <2>1 DEF WriteFile, ShorthandInv
  <2>2. CASE WriteHook
    <3>1. step # "writing"
      BY <2>2 DEF WriteHook, AtRest
    <3> QED
      BY <2>2, <3>1, HookCarries
  <2>3. CASE Rewrite \/ Backup \/ RewriteDies \/ ShorthandDone
    BY <2>3 DEF Rewrite, Backup, RewriteDies, ShorthandDone, shorthandVars
  <2> QED
    BY <2>1, <2>2, <2>3 DEF ShorthandNext
<1>2. DirectivesSurvive <=> [][StepKeeps]_shorthandVars /\ []StructureSurvives
  BY DEF DirectivesSurvive
<1> HIDE DEF StepKeeps
<1> QED
  BY ShorthandInOrder, StructureAlwaysSurvives, <1>1, <1>2, PTL DEF ShorthandSpec

\* Wherever a run in place is cut short, what the file held is there, whole
\* (Run's order of backup and write).
THEOREM PriorAlwaysKept == ShorthandSpec => []PriorIsKept
<1>1. ShorthandInv => PriorIsKept
  BY DEF ShorthandInv, PriorIsKept, Stages
<1> QED
  BY ShorthandInOrder, <1>1, PTL
=============================================================================
