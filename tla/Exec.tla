-------------------------------- MODULE Exec --------------------------------
(* The two commands that hand a tool's output to the middleware: thlibo exec *)
(* (cmd/thlibo/execcmd), which runs the tool itself behind the exec policy   *)
(* (internal/execpolicy), and thlibo compress (cmd/thlibo/compresscmd),      *)
(* which is given the output on its stdin.                                   *)
EXTENDS Pipeline

CONSTANTS
  Policies, \* policy files there may be: [file, deny, allow, default]
  Fates     \* how a child may end: its exit code, or -1 for a signal

\* What a policy's patterns say of the command: one that is malformed matches
\* nothing.
Patterns == {"matches", "differs", "malformed"}

Policy == [file : {"missing", "invalid", "valid"}, deny : SUBSET Patterns,
           allow : SUBSET Patterns, default : {"allow", "deny"}]

ASSUME PolicyAssumption ==
  /\ Policies \subseteq Policy
  /\ \A p \in Policies : p.file = "missing" =>
       p.deny = {} /\ p.allow = {} /\ p.default = "allow"
  /\ Fates \subseteq Nat \cup {-1}

ExitUsage == 64
ExitSpawnFailed == 65
ExitPolicyDenied == 77
ExitChildSignaled == 130

VARIABLES
  cmd,      \* the subcommand: "exec" or "compress"
  argv,     \* what exec was told to run: "none", an "empty" name, a "command"
  policy,   \* the policy file as Load finds it
  stage,    \* where the command stands
  spawned,  \* the child was started
  fate,     \* how the child ended
  captured, \* what the tool printed
  exit,     \* the exit code
  stdout    \* what the command wrote

execVars == <<cmd, argv, policy, stage, spawned, fate, captured, exit, stdout>>

allVars == <<vars, execVars>>

ExecInit ==
  /\ Init
  /\ cmd \in {"exec", "compress"}
  /\ argv \in {"none", "empty", "command"}
  /\ policy \in Policies
  /\ cmd = "compress" => argv = "none" /\ policy.file = "missing"
  /\ stage = "start"
  /\ spawned = FALSE
  /\ fate = 0
  /\ captured = NoInput
  /\ exit = 0
  /\ stdout = NoText

Matches(patterns) == "matches" \in patterns

\* Wrong on purpose: an allow pattern wins over a deny pattern.
AllowFirst ==
  CASE argv = "empty" -> "deny"
    [] OTHER -> IF Matches(policy.allow) THEN "allow"
                ELSE IF Matches(policy.deny) THEN "deny"
                ELSE policy.default

\* Evaluate: deny wins over allow, and both over the default.
Evaluate ==
  CASE argv = "empty"        -> "deny"
    [] OTHER ->
       IF Matches(policy.deny) THEN "deny"
       ELSE IF Matches(policy.allow) THEN "allow"
       ELSE policy.default

\* Wrong on purpose: a child ended by a signal is taken for one that never ran.
SignalAsSpawnFailure(f) == IF f >= 0 THEN f ELSE ExitSpawnFailed

\* childExitCode of a child that was started.
ChildExitCode(f) == IF f >= 0 THEN f ELSE ExitChildSignaled

Exit(code, text) ==
  /\ stage' = "exited"
  /\ exit' = code
  /\ stdout' = text
  /\ UNCHANGED <<vars, cmd, argv, policy, spawned, fate, captured>>

Starting(c) == stage = "start" /\ cmd = c

Usage ==
  /\ Starting("exec")
  /\ argv = "none"
  /\ Exit(ExitUsage, NoText)

\* A policy that cannot be read or parsed denies everything.
PolicyInvalid ==
  /\ Starting("exec")
  /\ argv # "none"
  /\ policy.file = "invalid"
  /\ Exit(ExitPolicyDenied, NoText)

PolicyDenies ==
  /\ Starting("exec")
  /\ argv # "none"
  /\ policy.file # "invalid"
  /\ Evaluate = "deny"
  /\ Exit(ExitPolicyDenied, NoText)

Permitted ==
  /\ Starting("exec")
  /\ argv # "none"
  /\ policy.file # "invalid"
  /\ Evaluate = "allow"

SpawnFails ==
  /\ Permitted
  /\ Exit(ExitSpawnFailed, NoText)

Spawn ==
  /\ Permitted
  /\ stage' = "child"
  /\ spawned' = TRUE
  /\ UNCHANGED <<vars, cmd, argv, policy, fate, captured, exit, stdout>>

\* The child ends one way or the other; what it printed until then is kept.
ChildEnds ==
  /\ stage = "child"
  /\ stage' = "captured"
  /\ fate' \in Fates
  /\ captured' \in Inputs
  /\ UNCHANGED <<vars, cmd, argv, policy, spawned, exit, stdout>>

CompressReads ==
  /\ Starting("compress")
  /\ stage' = "captured"
  /\ captured' \in Inputs
  /\ UNCHANGED <<vars, cmd, argv, policy, spawned, fate, exit, stdout>>

CompressReadFails ==
  /\ Starting("compress")
  /\ Exit(1, NoText)

\* The registry cannot be built: the output goes out as it is, all of it.
NoPipeline ==
  /\ stage = "captured"
  /\ Exit(ChildExitCode(fate), captured.text)

HandOver ==
  /\ stage = "captured"
  /\ Read(captured)
  /\ stage' = "piped"
  /\ UNCHANGED <<cmd, argv, policy, spawned, fate, captured, exit, stdout>>

Piped == stage = "piped" /\ Step /\ UNCHANGED execVars

Emit ==
  /\ stage = "piped"
  /\ pc = "done"
  /\ Exit(ChildExitCode(fate), out)

Exited == stage = "exited" /\ UNCHANGED allVars

ExecNext ==
  \/ Usage \/ PolicyInvalid \/ PolicyDenies \/ SpawnFails \/ Spawn
  \/ ChildEnds
  \/ CompressReads \/ CompressReadFails
  \/ NoPipeline \/ HandOver
  \/ Piped
  \/ Emit
  \/ Exited

\* Fairness: the command's own steps and the middleware's, never the child.
ExecSpec ==
  /\ ExecInit
  /\ [][ExecNext]_allVars
  /\ WF_allVars(stage = "piped" /\ Own /\ UNCHANGED execVars)
  /\ WF_allVars(NoPipeline \/ HandOver)
  /\ WF_allVars(Emit)

-----------------------------------------------------------------------------

\* A command runs only if a policy that could be read lets it: no deny pattern
\* that matches, and a matching allow pattern where the default is to deny;
\* and where none ran, nothing is written (run, Evaluate, Load).
DeniedNeverRuns ==
  /\ spawned =>
       /\ policy.file # "invalid"
       /\ argv = "command"
       /\ "matches" \notin policy.deny
       /\ policy.default = "deny" => "matches" \in policy.allow
  /\ cmd = "exec" /\ ~spawned => stdout = NoText

\* The exit code a child chose reaches the caller whatever the middleware did
\* with its output, and so does its output or an answer the middleware stands
\* for; a failure of the middleware is visible in neither (run,
\* emitCompressedAndReport).
ChildSpeaksThrough ==
  stage = "exited" /\ spawned =>
    /\ exit = (IF fate = -1 THEN 130 ELSE fate)
    /\ err # "none" => stdout = AsRead(captured.text)
    /\ Empty(stdout) => Empty(captured.text)

\* Once the tool's output is there, the command comes to its end, even if
\* inferd, a script or a model never answers.
Exits == (stage = "captured") ~> (stage = "exited")
=============================================================================
