-------------------------------- MODULE Setup --------------------------------
(* thlibo install and thlibo uninstall over the hosts' settings and thlibo's *)
(* own hook scripts (cmd/thlibo/installcmd, cmd/thlibo/uninstallcmd): every  *)
(* file that is written is a step, may fail, and may be the last one of a    *)
(* command that is killed; commands are repeated, thlibo is upgraded, and    *)
(* the user and other tools change the same files in between.                *)
(*                                                                           *)
(* Claude Code's six scripts and its skill are treated alike and one stands  *)
(* for all; so for the other hosts.                                          *)
EXTENDS HookSettings

CONSTANTS
  Optional,  \* the sets of hosts that are asked for besides Claude Code
  Settings,  \* what settings.json may hold at first
  Foreign,   \* what the user and other tools may add to each file
  Matchers,  \* the matchers whose hooks we look at
  Bounds     \* how many commands, faults and changes by others there are

Hosts == {"claude", "codex", "cursor", "copilot"}
Files == {"claude", "toml", "json", "cursor", "copilot"}

Malformed == <<[malformed |-> TRUE]>>

\* What JSON files hold, and lines that a user adds to config.toml: whole
\* sections, none of them with a command of thlibo's.  A flag is nobody's.
AnyHooks == Seq(STRING \X STRING)
AnyGroups == Seq([matcher : STRING, hooks : AnyHooks])

UsersSections(lines) ==
  /\ lines \in AnyHooks
  /\ lines # <<>> => Text(lines[1]) \in Headers
  /\ \A i \in DOMAIN lines :
       /\ ~IsOurCommand(lines[i]) /\ Text(lines[i]) # TrustedState
       /\ lines[i][2] = IF Text(lines[i]) \in Flags THEN "flag" ELSE "user"

ASSUME SetupAssumption ==
  /\ Bounds \in [{"commands", "faults", "changes"} -> Nat]
  /\ Settings \subseteq AnyGroups \cup {Malformed}
  /\ Foreign["claude"] \cup Foreign["json"] \subseteq AnyGroups
  /\ Foreign["cursor"] \subseteq AnyHooks
  /\ \A groups \in Foreign["json"] : \A i \in DOMAIN groups : \A j \in DOMAIN groups[i].hooks :
       IsUser(groups[i].hooks[j])
  /\ \A hooks \in Foreign["cursor"] : \A i \in DOMAIN hooks : IsUser(hooks[i])
  /\ \A lines \in Foreign["toml"] : UsersSections(lines)

\* A script's body, and the body its stamp names, are those of a version or
\* one of these; 0 is no script and no stamp.
Torn == -1
Edited == -2
NoScript == [body |-> 0, stamp |-> 0, runs |-> FALSE]

VARIABLES
  windows, \* the platform
  version, \* of the thlibo that is installed now
  file,    \* the settings files; an absent one is as an empty one
  script,  \* the hook scripts: body, the hash stamped into it, executable?
  beside,  \* a new version was put beside Claude's script
  builtins,\* the version of the processors mirrored to ~/.thlibo
  cmd,     \* the command under way, or the last one if nothing came after it
  todo,    \* the steps it has yet to take
  with,    \* the hosts asked for
  code,    \* its exit code
  clean,   \* no step of it has failed
  mine,    \* what others than thlibo have in the files
  overtaken, \* a group of others has come before one that holds a hook of thlibo's
  lost,    \* the files that a write has destroyed in the middle
  left     \* what the bounds leave

command == <<cmd, todo, with, code, clean>>
others == <<windows, version, mine, overtaken>>
vars == <<file, script, beside, builtins, command, others, lost, left>>

\* One less of a bounded thing.
Spend(what) == left[what] > 0 /\ left' = [left EXCEPT ![what] = @ - 1]

\* What is not thlibo's in a file.
UsersPart(f, content) ==
  IF content = Malformed THEN Malformed
  ELSE CASE f \in {"claude", "json"} ->
              [matcher \in Matchers |->
                 Select(HooksOf(Select(content, LAMBDA g : g.matcher = matcher)), IsUser)]
         [] f = "cursor"  -> Select(content, IsUser)
         [] f = "toml"    -> Select(content, LAMBDA l : l[2] = "user")
         [] f = "copilot" -> <<>>

Init ==
  /\ windows \in BOOLEAN
  /\ version = 1
  /\ \E s \in Settings :
       file = [f \in Files |-> IF f = "claude" THEN s ELSE <<>>]
  /\ \E old \in {NoScript, [body |-> 1, stamp |-> 0, runs |-> TRUE]} :
       script = [h \in Hosts |-> IF h = "claude" THEN old ELSE NoScript]
  /\ beside = FALSE /\ builtins = 0
  /\ cmd = "none" /\ todo = <<>> /\ with = {} /\ code = -1 /\ clean = TRUE
  /\ mine = [f \in Files |-> UsersPart(f, file[f])]
  /\ overtaken = ~InFirstGroups(file["claude"])
  /\ lost = {} /\ left = Bounds

Idle == todo = <<>>

-----------------------------------------------------------------------------
(* The commands and their steps.                                             *)

HostSteps(h) ==
  CASE h = "codex"   -> <<"codex script", "codex hook", "codex flag", "codex stale">>
    [] h = "cursor"  -> <<"cursor script", "cursor hooks">>
    [] h = "copilot" -> <<"copilot script", "copilot hooks">>

\* migrateFromV05 and installInferd have modules of their own; the hosts come
\* in the order of optionalClients.
InstallSteps(hosts) ==
  LET Of(h) == IF h \in hosts THEN HostSteps(h) ELSE <<>>
  IN  <<"mirror", "claude script", "claude hooks">> \o Of("codex") \o Of("cursor") \o Of("copilot")

\* Exit codes of the steps whose failure ends the install.
Fatal == [mirror |-> 4, claude |-> 5, codex |-> 9, cursor |-> 10, copilot |-> 11]

\* Wrong on purpose: Codex' and Cursor's hooks are left alone (#137).
UninstallClaudeOnly(purge) ==
  <<"remove claude hooks", "remove claude script", "remove copilot hooks",
    "remove copilot script">>

\* Every host's hooks go, whether they were asked for or not.
UninstallSteps(purge) ==
  <<"remove claude hooks", "remove claude script", "remove copilot hooks",
    "remove copilot script", "remove codex toml", "remove codex json", "remove codex script",
    "remove cursor hooks", "remove cursor script">>
    \o (IF purge THEN <<"purge">> ELSE <<>>)

Install ==
  /\ Idle /\ Spend("commands")
  /\ \E hosts \in Optional :
       with' = hosts \cup {"claude"} /\ todo' = InstallSteps(hosts)
  /\ cmd' = "install" /\ code' = -1 /\ clean' = TRUE
  /\ UNCHANGED <<file, script, beside, builtins, others, lost>>

Uninstall ==
  /\ Idle /\ Spend("commands")
  /\ \E purge \in BOOLEAN : todo' = UninstallSteps(purge)
  /\ cmd' = "uninstall" /\ with' = Hosts /\ code' = -1 /\ clean' = TRUE
  /\ UNCHANGED <<file, script, beside, builtins, others, lost>>

\* A step is done, and with the last one the command.
Done ==
  /\ todo' = Tail(todo)
  /\ code' = IF Tail(todo) = <<>> THEN 0 ELSE code
  /\ UNCHANGED <<cmd, with, others, left>>

At(step) == todo # <<>> /\ Head(todo) = step

\* The failure of a step ends an install from the mirror on, but for the
\* removal of Codex' leftovers; an uninstall goes on whatever fails.
ExitCode(step) ==
  CASE step = "mirror" -> Fatal.mirror
    [] step = "claude script" -> Fatal.claude
    [] step = "claude hooks" -> Fatal.claude + 1
    [] step \in {"codex script", "codex hook", "codex flag"} -> Fatal.codex
    [] step \in {"cursor script", "cursor hooks"} -> Fatal.cursor
    [] step \in {"copilot script", "copilot hooks"} -> Fatal.copilot
    [] OTHER -> 0

\* The command after a step that did not do its work.
GiveUp(step) ==
  /\ IF ExitCode(step) = 0
     THEN todo' = Tail(todo) /\ code' = IF Tail(todo) = <<>> THEN 0 ELSE code
     ELSE todo' = <<>> /\ code' = ExitCode(step)
  /\ UNCHANGED <<cmd, with, others>>

\* The steps that change the hosts' files, and the file that each changes.
EditSteps ==
  {"claude hooks", "remove claude hooks", "cursor hooks", "remove cursor hooks",
   "copilot hooks", "remove copilot hooks", "codex hook", "codex flag", "codex stale",
   "remove codex toml", "remove codex json"}

Edits(step) == step \in EditSteps

Target(step) ==
  CASE step \in {"claude hooks", "remove claude hooks"}   -> "claude"
    [] step \in {"cursor hooks", "remove cursor hooks"}   -> "cursor"
    [] step \in {"copilot hooks", "remove copilot hooks"} -> "copilot"
    [] step \in {"codex flag", "remove codex toml"}       -> "toml"
    [] step \in {"codex stale", "remove codex json"}      -> "json"
    [] step = "codex hook" ->
         IF file["json"] # Malformed /\ DetectRepresentation(file["toml"], file["json"]) = "hooks.json"
         THEN "json" ELSE "toml"

\* What a step makes of its file.  Codex' leftovers in hooks.json are removed
\* only if the hook went inline.
After(step, content) ==
  CASE step = "claude hooks"        -> MergeSettingsAll(content, windows)
    [] step = "cursor hooks"        -> MergeHooksJSON(content)
    [] step = "copilot hooks"       -> <<<<"pre", "shell">>, <<"post", "any">>>>
    [] step = "codex hook"          -> IF Target(step) = "json"
                                       THEN MergeHooksJSONHook(content, Variant(windows))
                                       ELSE MergeConfigTOMLHook(content, Variant(windows))
    [] step = "codex flag"          -> EnsureCodexHooksTrue(content)
    [] step = "codex stale"         -> IF ConfigHasInlineHooks(file["toml"])
                                       THEN WithoutOurs(content) ELSE content
    [] step = "remove claude hooks" -> WithoutOurs(content)
    [] step = "remove codex json"   -> WithoutOurs(content)
    [] step = "remove codex toml"   -> RemoveInlineHookBlocks(content)
    [] step = "remove cursor hooks" -> RemoveHooksJSONEntries(content)
    [] step = "remove copilot hooks"      -> <<>>

\* Copilot's file is thlibo's own: it is written or deleted, never read.
Unreadable(step) ==
  file[Target(step)] = Malformed /\ step \notin {"copilot hooks", "remove copilot hooks"}

EditFile ==
  /\ ~Idle /\ Edits(Head(todo)) /\ ~Unreadable(Head(todo))
  /\ file' = [file EXCEPT ![Target(Head(todo))] = After(Head(todo), @)]
  /\ Done
  /\ UNCHANGED <<script, beside, builtins, clean, lost>>

\* A file that cannot be parsed is left as it is; for the removals from
\* Codex' and Cursor's files that is no failure.
MeetMalformed ==
  /\ ~Idle /\ Edits(Head(todo)) /\ Unreadable(Head(todo))
  /\ GiveUp(Head(todo))
  /\ clean' = (clean /\ Head(todo) \in {"codex stale", "remove codex json", "remove cursor hooks"})
  /\ UNCHANGED <<file, script, beside, builtins, lost, left>>

-----------------------------------------------------------------------------
(* The scripts.                                                              *)

ScriptStep == [claude |-> "claude script", codex |-> "codex script",
               cursor |-> "cursor script", copilot |-> "copilot script"]

RemovalStep == [claude |-> "remove claude script", codex |-> "remove codex script",
                cursor |-> "remove cursor script", copilot |-> "remove copilot script"]

Fresh(stamp) == [body |-> version, stamp |-> stamp, runs |-> TRUE]

\* Wrong on purpose: what is not the new version is replaced.
AlwaysReplaced(s) == "replaced"

\* writeHookBytes: an unstamped script counts as the user's unless it is the
\* very one; so does a stamped one whose body is not the stamped one.
Verdict(s) ==
  CASE s.body = 0            -> "replaced"
    [] s.stamp = version   -> "unchanged"
    [] s.stamp = 0 /\ s.body = version -> "replaced"
    [] s.stamp \notin {0, version} /\ s.body = s.stamp -> "replaced"
    [] OTHER                      -> "conflict"

WriteClaudeScript ==
  /\ At("claude script")
  /\ IF Verdict(script["claude"]) = "replaced"
     THEN script' = [script EXCEPT !["claude"] = Fresh(version)]
     ELSE UNCHANGED script
  /\ beside' = (beside \/ Verdict(script["claude"]) = "conflict")
  /\ Done
  /\ UNCHANGED <<file, builtins, clean, lost>>

\* The other hosts' scripts carry no stamp and are always written.
WriteScript ==
  /\ \E h \in Hosts \ {"claude"} :
       At(ScriptStep[h]) /\ script' = [script EXCEPT ![h] = Fresh(0)]
  /\ Done
  /\ UNCHANGED <<file, beside, builtins, clean, lost>>

\* With the copies that were put beside Claude's.
DeleteScript ==
  /\ \E h \in Hosts :
       /\ At(RemovalStep[h])
       /\ script' = [script EXCEPT ![h] = NoScript]
       /\ beside' = (beside /\ h # "claude")
  /\ Done
  /\ UNCHANGED <<file, builtins, clean, lost>>

\* MirrorBuiltins: every built-in processor is written anew.
Mirror ==
  /\ At("mirror")
  /\ builtins' = version
  /\ Done
  /\ UNCHANGED <<file, script, beside, clean, lost>>

\* The hook scripts are in ~/.thlibo too, if no other directory was named.
Purge ==
  /\ At("purge")
  /\ builtins' = 0 /\ script' = [h \in Hosts |-> NoScript] /\ beside' = FALSE
  /\ Done
  /\ UNCHANGED <<file, clean, lost>>

-----------------------------------------------------------------------------
(* Failures.                                                                 *)

\* What a write leaves behind that does not come to its end.  Of a JSON file
\* nothing can be read, or it is empty; of config.toml the first lines are there.
Halves(f, content) ==
  IF f = "toml" THEN {SubSeq(content, 1, k) : k \in 0..(Len(content) - 1)}
  ELSE {Malformed, <<>>}

\* A merge into JSON is written out even if it changes nothing.
Writes(step) ==
  \/ After(step, file[Target(step)]) # file[Target(step)]
  \/ step \in {"claude hooks", "cursor hooks", "copilot hooks"}
  \/ step = "codex hook" /\ Target(step) = "json"

TornFile ==
  /\ ~Idle /\ Edits(Head(todo))
  /\ LET f == Target(Head(todo)) IN
       /\ ~Unreadable(Head(todo)) /\ Writes(Head(todo))
       /\ \E rest \in Halves(f, After(Head(todo), file[f])) : file' = [file EXCEPT ![f] = rest]
       /\ lost' = lost \cup {f}
  /\ UNCHANGED <<script, beside, builtins>>

\* The stamp stands on the second line, the body behind it; chmod comes last.
TornScript ==
  \E h \in Hosts :
    /\ At(ScriptStep[h]) /\ (h = "claude" => Verdict(script[h]) = "replaced")
    /\ \E stamp \in {0, version}, body \in {Torn, version} :
         /\ h = "claude" /\ body = version => stamp = version
         /\ h # "claude" => stamp = 0
         /\ script' = [script EXCEPT ![h] = [body |-> body, stamp |-> stamp, runs |-> @.runs]]
    /\ UNCHANGED <<file, beside, builtins, lost>>

Unharmed == UNCHANGED <<file, script, beside, builtins, lost>>

StepFails ==
  /\ ~Idle /\ Spend("faults")
  /\ TornFile \/ TornScript \/ Unharmed
  /\ GiveUp(Head(todo))
  /\ clean' = FALSE

Killed ==
  /\ ~Idle /\ Spend("faults")
  /\ TornFile \/ TornScript \/ Unharmed
  /\ todo' = <<>> /\ clean' = FALSE
  /\ UNCHANGED <<cmd, with, code, others>>

-----------------------------------------------------------------------------
(* The user and other tools, between the commands.                           *)

\* Once for each file something is added, before or after what there is.
UserAdds ==
  /\ Idle /\ Spend("changes") /\ cmd' = "none"
  /\ \E f \in Files \ {"copilot"} : \E new \in Foreign[f] :
       /\ file[f] # Malformed /\ UsersPart(f, file[f]) = UsersPart(f, <<>>)
       /\ file' = [file EXCEPT ![f] = new \o @] \/ file' = [file EXCEPT ![f] = @ \o new]
       /\ mine' = [mine EXCEPT ![f] = UsersPart(f, file'[f])]
       /\ overtaken' = (overtaken \/ ~InFirstGroups(file'["claude"]))
       /\ lost' = lost \ {f}
  /\ UNCHANGED <<script, beside, builtins, todo, with, code, clean, windows, version>>

\* The user edits Claude's script, below the stamp or with it.
UserEdits ==
  /\ Idle /\ Spend("changes") /\ cmd' = "none" /\ script["claude"].body \notin {0, Edited}
  /\ script' = [script EXCEPT !["claude"].body = Edited] \/
     script' = [script EXCEPT !["claude"].body = Edited, !["claude"].stamp = 0]
  /\ UNCHANGED <<file, beside, builtins, todo, with, code, clean, others, lost>>

Upgrade ==
  /\ Idle /\ Spend("changes") /\ cmd' = "none"
  /\ version' = version + 1
  /\ UNCHANGED <<file, script, beside, builtins, todo, with, code, clean, windows, mine, overtaken, lost>>

Step ==
  \/ EditFile \/ MeetMalformed \/ WriteClaudeScript \/ WriteScript \/ DeleteScript \/ Mirror \/ Purge
  \/ StepFails \/ Killed

Next == Install \/ Uninstall \/ Step \/ UserAdds \/ UserEdits \/ Upgrade

Spec == Init /\ [][Next]_vars

-----------------------------------------------------------------------------
(* What must hold.                                                           *)

\* Through every sequence of installs, uninstalls and upgrades, those that
\* fail and are killed included, what the user and other tools have in the
\* settings stays what it was, unless the very write of a file was cut short
\* (the adapters' merges and removals; a malformed file is not touched).
OthersSurvive ==
  \A f \in Files \ lost : UsersPart(f, file[f]) = mine[f]

\* The variants of the hooks of a family, in their order.
Calls(hooks, family) ==
  LET ours == Select(hooks, LAMBDA h : h[1] = family)
  IN  [i \in DOMAIN ours |-> ours[i][2]]

\* After an install that went well Claude Code, Codex and Cursor call thlibo once
\* for each thing, by the script this platform can run, in the one of Codex' two
\* files that holds its other hooks and with its hooks switched on, whatever an
\* earlier install, another platform or another tool has left (#127, #128, #170).
\* Of Claude Code's groups of a matcher it is the first that calls thlibo, and no
\* other one does unless others have put theirs before one with an entry of thlibo's,
\* where an install does not look for it (addPreToolUseHook).
InstalledOnce ==
  cmd = "install" /\ code = 0 /\ clean =>
    /\ \A i \in DOMAIN Registered :
         LET first == SelectInSeq(file["claude"], LAMBDA g : g.matcher = Registered[i][1])
         IN  /\ Calls(file["claude"][first].hooks, Registered[i][2]) = <<Variant(windows)>>
             /\ \A n \in DOMAIN file["claude"] \ {first} :
                  ~overtaken /\ file["claude"][n].matcher = Registered[i][1]
                    => Calls(file["claude"][n].hooks, Registered[i][2]) = <<>>
    /\ "codex" \in with =>
         LET inline == Select(file["toml"], IsOurCommand)
             json == IF file["json"] = Malformed THEN <<>> ELSE Calls(HooksOf(file["json"]), "post")
         IN  /\ inline \in {<<>>, <<<<OurCommand[Variant(windows)], "thlibo">>>>}
             /\ json = IF inline = <<>> THEN <<Variant(windows)>> ELSE <<>>
             /\ json # <<>> => ~ConfigHasInlineHooks(file["toml"])
             /\ EnsureCodexHooksTrue(file["toml"]) = file["toml"]
    /\ "cursor" \in with =>
         Calls(file["cursor"], "shell") = <<"Shell">> /\ Calls(file["cursor"], "file") = <<"Read">>

\* After an uninstall that went well no host calls thlibo, and no script of
\* its hooks is left (#137).
UninstalledIsGone ==
  cmd = "uninstall" /\ code = 0 /\ clean =>
    /\ \A f \in {"claude", "json"} : file[f] # Malformed => WithoutOurs(file[f]) = file[f]
    /\ \A i \in DOMAIN file["toml"] : ~IsOurCommand(file["toml"][i])
    /\ file["cursor"] # Malformed => RemoveHooksJSONEntries(file["cursor"]) = file["cursor"]
    /\ file["copilot"] = <<>>
    /\ \A h \in Hosts : script[h] = NoScript

\* An install does not take the user's edit of a hook script away, whichever
\* versions it comes between (writeHookBytes).
EditsSurvive ==
  [][ cmd = "install" /\ ~Idle /\ script["claude"].body = Edited
        => script'["claude"].body = Edited ]_vars
=============================================================================
