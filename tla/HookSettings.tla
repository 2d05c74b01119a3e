---------------------------- MODULE HookSettings ----------------------------
(* How thlibo's hooks come into, and go out of, the settings files of its    *)
(* hosts, which hold hooks of the user's and of other tools as well          *)
(* (internal/adapters).                                                      *)
(*                                                                           *)
(* A hook is a pair: its family and its variant.  The families are thlibo's, *)
(* recognised by the name of the script in the command, and "user" for       *)
(* everybody else's.  Matcher groups are records of a matcher and hooks.     *)
EXTENDS Places, SequencesExt

IsUser(hook) == hook[1] = "user"
IsThlibo(hook) == hook[1] # "user"

\* The script that this platform can run (pickPlatformHook, HookFileName).
Variant(windows) == IF windows THEN "ps1" ELSE "sh"

-----------------------------------------------------------------------------
(* Claude Code: settings.json, hooks.PreToolUse.                             *)

\* Wrong on purpose: only an entry of the same variant is taken for ours.
PlacedByName(hooks, hook) ==
  IF hook \in Range(hooks) THEN hooks ELSE Append(hooks, hook)

\* In the place of the first hook of the family; further ones are dropped.
Placed(hooks, hook) ==
  LET i == SelectInSeq(hooks, LAMBDA h : h[1] = hook[1])
      others(hs) == Select(hs, LAMBDA h : h[1] # hook[1])
  IN  IF i = 0 THEN Append(hooks, hook)
      ELSE SubSeq(hooks, 1, i - 1) \o <<hook>> \o others(SubSeq(hooks, i + 1, Len(hooks)))

AddPreToolUseHook(groups, matcher, hook) ==
  LET i == SelectInSeq(groups, LAMBDA g : g.matcher = matcher)
  IN  IF i = 0 THEN Append(groups, [matcher |-> matcher, hooks |-> <<hook>>])
      ELSE [groups EXCEPT ![i].hooks = Placed(@, hook)]

\* Of several groups of a matcher only the first holds hooks of thlibo's.
InFirstGroups(groups) ==
  \A i, j \in DOMAIN groups :
    i < j /\ groups[i].matcher = groups[j].matcher
      => \A n \in DOMAIN groups[j].hooks : IsUser(groups[j].hooks[n])

Registered ==
  <<<<"Bash", "exec">>, <<"PowerShell", "exec">>, <<"Read", "read">>,
    <<"Write", "write">>, <<"Edit", "write">>>>

MergeSettingsAll(groups, windows) ==
  LET Add(gs, m) == AddPreToolUseHook(gs, m[1], <<m[2], Variant(windows)>>)
      upTo[n \in 0..Len(Registered)] ==
        IF n = 0 THEN groups ELSE Add(upTo[n - 1], Registered[n])
  IN  upTo[Len(Registered)]

\* Wrong on purpose: a group that holds a hook of ours goes as a whole.
WithoutGroups(groups) ==
  Select(groups, LAMBDA g : \A i \in DOMAIN g.hooks : IsUser(g.hooks[i]))

\* removePreToolUseHooks, and Codex' RemoveStaleHooksJSON: a group that is
\* left without hooks goes too.
WithoutOurs(groups) ==
  Select([i \in DOMAIN groups |-> [groups[i] EXCEPT !.hooks = Select(@, IsUser)]],
         LAMBDA g : g.hooks # <<>>)

HooksOf(groups) ==
  LET upTo[n \in 0..Len(groups)] == IF n = 0 THEN <<>> ELSE upTo[n - 1] \o groups[n].hooks
  IN  upTo[Len(groups)]

-----------------------------------------------------------------------------
(* Codex: hooks.json, or inline tables in config.toml.  Of config.toml we    *)
(* see the lines that matter; each is a pair of its text and whose it is.    *)

MergeHooksJSONHook(groups, variant) ==
  LET ours(g) == \E i \in DOMAIN g.hooks : IsThlibo(g.hooks[i])
      i == SelectInSeq(groups, ours)
  IN  IF i = 0
      THEN Append(groups, [matcher |-> "^Bash$", hooks |-> <<<<"post", variant>>>>])
      ELSE [groups EXCEPT ![i].hooks =
              ReplaceAt(@, SelectInSeq(@, IsThlibo), <<"post", variant>>)]

Group == "[[hooks.PostToolUse]]"
GroupHook == "[[hooks.PostToolUse.hooks]]"
TrustedState == "[hooks.state.thlibo]"
Headers == {Group, GroupHook, "[features]", "[profile]", TrustedState}
Flags == {"hooks = true", "hooks = false"}
OurCommand == [sh |-> "command thlibo.sh", ps1 |-> "command thlibo.ps1"]

Text(line) == line[1]
IsOurCommand(line) == Text(line) \in {OurCommand.sh, OurCommand.ps1}

ConfigHasInlineHooks(lines) == \E i \in DOMAIN lines : Text(lines[i]) \in {Group, GroupHook}

HooksJSONHasForeignHooks(groups) ==
  \E i \in DOMAIN groups : \E j \in DOMAIN groups[i].hooks : IsUser(groups[i].hooks[j])

DetectRepresentation(lines, groups) ==
  IF ~ConfigHasInlineHooks(lines) /\ HooksJSONHasForeignHooks(groups)
  THEN "hooks.json" ELSE "inline"

\* Every command of ours is made this platform's; without one, a block is
\* appended.
MergeConfigTOMLHook(lines, variant) ==
  LET command == <<OurCommand[variant], "thlibo">>
  IN  IF \E i \in DOMAIN lines : IsOurCommand(lines[i])
      THEN [i \in DOMAIN lines |-> IF IsOurCommand(lines[i]) THEN command ELSE lines[i]]
      ELSE lines \o <<<<Group, "thlibo">>, <<GroupHook, "thlibo">>, command>>

\* The header that line i stands under, 0 before the first.
HeaderOf(lines, i) ==
  LET above == {h \in 1..i : Text(lines[h]) \in Headers}
  IN  IF above = {} THEN 0 ELSE CHOOSE h \in above : \A k \in above : k <= h

SectionIsOurs(lines, h) ==
  \/ Text(lines[h]) = TrustedState
  \/ /\ Text(lines[h]) \in {Group, GroupHook}
     /\ \E i \in DOMAIN lines : HeaderOf(lines, i) = h /\ IsOurCommand(lines[i])

\* The hook tables that follow a group directly are its own.
ChildrenOf(lines, h) ==
  {k \in (h + 1)..Len(lines) :
     /\ Text(lines[k]) = GroupHook
     /\ \A j \in (h + 1)..k : Text(lines[j]) \in Headers => Text(lines[j]) = GroupHook}

\* Sections with a command of ours go, then the groups that have lost all.
SectionGoes(lines, h) ==
  \/ SectionIsOurs(lines, h)
  \/ /\ Text(lines[h]) = Group /\ ChildrenOf(lines, h) # {}
     /\ \A k \in ChildrenOf(lines, h) : SectionIsOurs(lines, k)

RemoveInlineHookBlocks(lines) ==
  AtPlaces(lines, {i \in DOMAIN lines :
                     HeaderOf(lines, i) = 0 \/ ~SectionGoes(lines, HeaderOf(lines, i))})

\* ensureCodexHooksTrue: the flag is set where it is, or added.
EnsureCodexHooksTrue(lines) ==
  LET f == SelectInSeq(lines, LAMBDA l : Text(l) = "[features]")
      flags == {i \in DOMAIN lines :
                  HeaderOf(lines, i) = f /\ Text(lines[i]) \in Flags}
      first == Min(flags)
      on == <<"hooks = true", "flag">>
  IN  CASE f = 0     -> lines \o <<<<"[features]", "thlibo">>, on>>
        [] f # 0 /\ flags = {} -> InsertAt(lines, f + 1, on)
        [] OTHER     -> IF Text(lines[first]) = "hooks = true" THEN lines
                        ELSE [lines EXCEPT ![first] = on]

-----------------------------------------------------------------------------
(* Cursor: hooks.json, whose hooks are flat and carry their matcher.         *)

UpsertPreToolUseHook(flat, matcher, family) ==
  LET i == SelectInSeq(flat, LAMBDA h : h[1] = family)
  IN  IF i = 0 THEN Append(flat, <<family, matcher>>)
      ELSE [flat EXCEPT ![i] = <<family, matcher>>]

MergeHooksJSON(flat) ==
  UpsertPreToolUseHook(UpsertPreToolUseHook(flat, "Shell", "shell"), "Read", "file")

RemoveHooksJSONEntries(flat) == Select(flat, IsUser)
=============================================================================
