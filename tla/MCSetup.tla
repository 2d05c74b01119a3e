------------------------------ MODULE MCSetup ------------------------------
(* Instance of Setup for TLC.                                                *)
EXTENDS Setup

MCOptional == {{}, {"codex", "cursor", "copilot"}}

\* Empty; with a hook of the user's beside an old one of thlibo's; malformed.
MCSettings ==
  {<<>>,
   <<[matcher |-> "Bash", hooks |-> <<<<"user", "a">>, <<"exec", "sh">>>>]>>,
   Malformed}

MCBounds == [commands |-> 3, faults |-> 1, changes |-> 2]

\* Hooks of other tools; a table, another tool's inline hook, the features
\* without the flag.
MCForeign ==
  [claude |-> {<<[matcher |-> m, hooks |-> <<<<"user", "later">>>>]>> : m \in {"Bash", "Read"}},
   json   |-> {<<[matcher |-> "^Bash$", hooks |-> <<<<"user", "git-ai">>>>]>>},
   cursor |-> {<<<<"user", "Shell">>>>},
   toml   |-> {<<<<"[profile]", "user">>>>,
               <<<<Group, "user">>, <<GroupHook, "user">>, <<"command git-ai", "user">>>>,
               <<<<"[features]", "user">>, <<"other = true", "user">>>>}]
=============================================================================
