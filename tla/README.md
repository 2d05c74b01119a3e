# thlibo in TLA+

thlibo stands between an AI client and the tools it runs. It takes what a tool
printed, compresses it with a processor (a compiled-in filter, a script, or a
prompt to a local model served by the *inferd* daemon) and hands the result on.
Whatever goes wrong on the way, the client must get the output it would have
got without thlibo: "always succeed, always produce output". This directory
holds TLA+ models of the parts of the program where that promise is made and
could be lost, their TLC configurations, and TLAPS proofs.

Run everything from this directory: `tlc -config X.cfg M` model-checks, `tlapm
M.tla` checks proofs. `PROJECT.json` lists the components, the runs, which
source lines each definition models (`map`), one mutant per checked property (a
plausible bug under which TLC finds the property violated), the disagreements
between code and comments the runs show (`findings`), the hazards of the code
and the theorems.

## The system

| part | source | state it keeps | operations | what makes it correct |
|---|---|---|---|---|
| middleware | `internal/middleware` | none between calls; per call: text, branch, chain, telemetry record | `Process`, `decide`, `cordonFallback` | one answer; the text itself on any failure; deadlines told as timeouts |
| router | `internal/router` | none | `Ask`, `parseRouteResult` | only routable processors of this registry are ever named |
| dispatcher | `internal/processors/dispatch.go`, `native.go` | none | `Run`, `RunChain`, `runScript`, `RunNativeCtx` | bounded calls; native filters never grow a text |
| registry | `internal/processors/registry.go`, `descriptor.go` | descriptors by name, sorted order, entry fingerprints | `BuildFromSources`, `scan`, `MatchFastPath`, `MatchCommandLine`, `RoutableNames` | signatures beat line shapes; binary containers reach signatures only; a broken folder takes nothing away |
| native filters | `internal/processors/filter_*.go` | none; within a call, the lines held back | pure functions of a text | what failed, was found or counted is still told |
| cordon filter | `internal/processors/cordon.go`, `cordon_signature.go` | none | windows, batches of embedding calls, scores | the rare is reported, or the text stays as it is |
| guards of a model's text | `internal/processors/structured.go`, `thinking.go` | none | `StructuredLooking`, `Strip` | configuration reaches no model; the answer is all that is not reasoning |
| inferd client | `internal/inferd` | a connection, a watchdog goroutine, a deadline per call | `Post`, `readResult`, `readFrame`, `Embed` | comes back; names the outcome truthfully; leaks nothing |
| exec, compress | `cmd/thlibo/execcmd`, `compresscmd` | child process, captured stdout | `Run` | the child's exit code and output reach the caller; denied commands never run |
| exec policy | `internal/execpolicy` | policy file | `Load`, `Evaluate` | fails closed on a broken file; deny wins |
| update check | `internal/update`, `cmd/thlibo/main.go` | `update-check.json` and its `.tmp`, shared by all invocations | `Runner.Run`, `Check`, `saveState` | newer releases only, once per tag and channel, never taken for announced when it was not |
| telemetry | `internal/telemetry` | counters to export | `RecordInvocation`, `Shutdown` | fixed label sets, no user names |
| log files | `internal/logx` | live file, daily archives, shared by all processes | `write`, rotate, sweep | no record lost at midnight |
| case files | `internal/casefile`, `cmd/thlibo/casecmd`, `internal/pdfocr` | one directory per case | `Create`, `Prune`, page OCR | a case is whole or not there |
| shorthand | `internal/shorthand`, `cmd/thlibo/shorthandcmd` | the file rewritten in place and its backup | `Run`, the write hook | a rewrite keeps every directive; the original can be had back; the hook never breaks a write |
| adapters | `internal/adapters/{claudecode,codex,cursor,copilot}` | hook scripts, the hosts' settings files | write, merge, remove | the user's own entries survive; ours are there once; an edited hook is not overwritten |
| command rewriting | `internal/shellcmd`, `cmd/thlibo/rewritecmd` | none | argv0 of a command line, the wrapped line | whole commands only, once, and the same process runs |
| install, uninstall, upgrade | `internal/install`, `cmd/thlibo/{install,uninstall,upgrade}cmd` | installed binaries, backends, model files, autostart units | mirror, migrate, install inferd, remove | repeatable; nothing lost half way; a daemon that works is left alone |
| configuration | `internal/config`, `cmd/thlibo/configcmd` | `config.yaml` | `Load`, glob matching | a broken file means defaults |
| PDF reader | `internal/pdf` | none (a parser) | objects, tag tree, text, tables | ends on every input; text once and on its page |

How they interact: `exec` and `compress` (and `case`) call `Process`; `decide`
calls `MatchFastPath`, then `Router.Ask` (which calls `Post`), then the
dispatcher, which runs an in-process filter, starts a script, or calls `Post`
again. Everything is one call stack in a short-lived process, with three
sources of concurrency: child processes with deadlines, `Post`'s watchdog
goroutine, and other invocations of thlibo that share files (update state,
logs, cases, settings). The hard behaviours are therefore the failures and
timeouts of every stage against the fail-open promise; the race of deadline,
watchdog and answer inside `Post`; and overlapping invocations over files.

## What is modelled

Comments in the modules name the functions; `PROJECT.json` has the lines. The
modules fall into five groups, each with an instance for TLC:

| group | modules | instance |
|---|---|---|
| the middleware and its commands | ToolText, FailOpen, Pipeline, Exec | MCExec |
| one call to inferd | InferdCall, InferdPost | MCInferdPost |
| files shared by invocations | UpdateCheck; LogRotation; CaseFile | MCUpdateCheck; MCLogRotation; MCCaseFile |
| what is installed where | HookSettings, Setup; InferdInstall, Migration | MCSetup; MCInstall |
| texts and what becomes of them | LineFilters, ModelText, composed by PrintedText; Rewriting, added by CommandText; TraceFilter, FindingFilters, RecordFilters, CordonFilter, PdfText, added by ToolOutput; Shorthand | MCTools |

Places, with the reading of a list from left to right and what a list holds at
some of its places, serves several of them.
Proofs are in PipelineProofs (Pipeline and Exec), ProcessorProofs (InferdPost
and CommandText: a call to the model, the native filters that read line by
line, the registry and the command line), UpdateCheckProofs, LogRotationProofs, CaseFileProofs, InstallProofs
(InferdInstall and Migration), HookSettingsProofs, and UserFilesProofs (Setup
and Shorthand: the files that thlibo changes and does not own).

**ToolText** - a text is its number of bytes, its number of non-blank lines and
where it comes from: the tool, the first 64 MiB of the tool's text
(`readAll`), a processor, or a processor that was handed a blank text. Nothing
else about a text matters to the branches of `decide`.

**FailOpen** - the promise: *waiting*, *working*, *answered*, one answer, which
is the text handed in or one that is not empty, and is the text if anything
failed.

**Pipeline** - one invocation of the middleware. `pc` walks `idle`, `decide`,
`route` (the routing call is out), `run` (processor `k` of `chain` is out),
`cordon` (the second attempt behind `ndjson-filter`), `done`. There is one
action per early return of `decide` and per way a call may end. What a script
or a model answers is any size of a given set, or the text itself; that it
fails, never answers or is killed at its deadline is up to the environment.
`Answers` puts native filters through `RunNativeCtx`'s guard. `Tier` and
`Before` are the precedence of `MatchFastPath`. `waited` counts units of five
seconds since the outstanding call began.

**Exec** extends Pipeline by the commands around it: argument check, policy,
the child and its fate, the captured output, a registry that cannot be built,
the exit code and what is written. `compress` is the same from the captured
output on.

**InferdCall** - the contract Pipeline relies on when it lets a call end in an
answer, "not ready", "deadline" (only after the deadline) or another fault.

**InferdPost** - `Post` itself: dial, one request frame plus two per
attachment, response frames, with the watchdog, the deadline and the daemon as
independent actors. The deferred calls run in the order of the code (`Unwind`),
and the watchdog may outlive the return.

**UpdateCheck** - the update check of overlapping invocations. Loading, the
fetch, the notice, and the three steps of `saveState` (create, write, rename)
interleave with those of others; a file handle follows its file through a
rename; a process may end at any point. A draft's tag is stored like any other.

**LogRotation** - the loggers of several processes on one live file, over a
few days. A file is known by its name (`Live`, or the day of an archive); a
handle follows its file through a rename, and a file that lost its name is read
by nobody. `write` up to the append, `archiveLocked` with both of its branches
and every call that may fail, `sweepLocked`, the open and the append are steps
of their own, since nothing between processes keeps them together; within a
process the mutex does. `trouble` records what may cost or repeat records: two
processes of which one rotates while the other has the log open, a full disk,
a process that ends in a write.

**CaseFile** - runs of `thlibo case` and a `--prune` beside them. Each run walks
`Create`: stat, directory, text (pipeline, fallback, low-value placeholder,
OCR), the three files in their order, and the report; or it fails and scrubs
the directory, file by file. A file is known by the run that wrote it, or is
`"torn"`; a directory's `touched` moves with the files that come and go. The
prune takes the list of cases once, and the age of each when it gets to it.

**HookSettings** - what the adapters make of the hosts' settings: the merge and
removal in Claude Code's matcher groups, in the two files of Codex (sections
and their headers, the feature switch, the choice between the two
representations), in Cursor's lists and in Copilot's file. A hook is a family
(`exec`, ..., recognised by the script in the command, or `user`) and a variant.

**Setup** - `thlibo install` and `thlibo uninstall` over those files and over
the hook scripts. A command is the list of its steps (`todo`); each file that
is written is a step, may fail, and may be the last one of a command that is
killed, in the middle of the write (`TornFile`, `TornScript`). A script is its
body, the stamp in it and whether it is executable; `Verdict` is what
`writeHookBytes` concludes from them. Between the steps the user and other
tools edit the files, and thlibo is upgraded. `overtaken` notes that others have
put a group of theirs before one that holds a hook of thlibo's.

**InferdInstall** - `InstallInferd`: the daemon that runs and what it says of
its version, the binary on the path or in thlibo's own directory, the service
or a detached start, and a fresh install from the choice of the release to the
activation. Every step may fail, every install be killed and repeated; daemons
die and come with a login. **Migration** - `MigrateFromV05`, by rename where
that works and else by copy and remove.

**LineFilters**, **TraceFilter**, **FindingFilters**, **RecordFilters**,
**CordonFilter**, **ModelText**, **PdfText** - the filters as what they are:
one pass over lines (findings, records, tokens, pages) with a small state, a
fold of one step operator. A line is its kind, which is what the code's regular
expressions tell apart, and the name in it; its text is its number, so the
output says which lines are in it and in what order. In ndjson's grouping the
HTTP method is left out of the signature. CordonFilter's vectors
are the sums of the weights of a window's lines: only nearness matters.
PdfText has the tag tree with elements that contain themselves or are named
twice, pages that are named, inherited or named by a single piece of content,
tables in row groups, running headers and the four kinds of pages.

**Rewriting** - the registry as scanned from folders, and `thlibo rewrite`. A
command line is the sequence of its blank-separated fields with their quotes
and line breaks, so that the three readings of it (`Argv0`'s, `tokensFrom`'s and
the shell's) can differ.

**PrintedText** composes the filters that read line by line, `Strip` and
`tomlDocument`: a tool prints line after line, and in every state the result
for what is there so far is held against properties that do not read from left
to right. Its constant `Outputs` says what each tool may print.
**CommandText** does the same for the registry (a user adds folder after folder)
and the command line (word after word), **ToolOutput** for the other filters.

**Shorthand** - `thlibo shorthand --in-place` step by step with its backup, its
failures and kills, twice over one file, in all modes of `--yaml`, and the write
hook, with and without `auto_shorthand_yaml_prose`: the model is given either
the prose scalars of a YAML file or the whole file, whatever it holds. A text
is what `Evaluate` looks for: the directives, paths and numbers that are words
there, those that only stand within a longer word, its blocks of code, its words
in backticks, what stands between backticks of different words, and who says it.

## What the runs show

| run | configuration | shows |
|---|---|---|
| exec | `MCExec.cfg` | all invariants of Exec and Pipeline, `KeepsPromise` (Pipeline implements FailOpen) and `Exits` (liveness) |
| inferd_post | `MCInferdPost.cfg` | the invariants of Post, `KeepsContract` (Post implements InferdCall) and `ComesBack` (liveness) |
| update | `MCUpdateCheck.cfg` | the invariants of the update check under overlap |
| log | `MCLogRotation.cfg` | the invariants of the log files over midnights, crashes and failing calls |
| case | `MCCaseFile.cfg` | the invariants of case files under failures, kills and a concurrent prune |
| setup | `MCSetup.cfg` | `OthersSurvive`, `InstalledOnce` (in Claude Code no group of a matcher calls thlibo but its first, unless others have put theirs before it), `UninstalledIsGone`, `EditsSurvive` over sequences of installs, uninstalls, upgrades, edits, failures and kills |
| install | `MCInstall.cfg` | `HealthyLeftAlone`, `FreshIsWhole`, `StableUnlessPinned` of the inferd install, `ModelNeverLost` of the migration |
| tools | `MCTools.cfg` | what must survive each filter, the wrapping of commands by what is installed, and `DirectivesSurvive`, `PriorIsKept` of shorthand |
| exec_hang | `MCExecHang.cfg` | *violated*: a killed script's child keeps the call open past its deadline |
| log_midnight | `MCLogMidnight.cfg` | *violated*: a race through midnight moves the new live file over the archive |
| update_draft | `MCUpdateDraft.cfg` | *violated*: a draft that one check has passed over is announced by the next from the state file |
| case_prune | `MCCasePrune.cfg` | *violated*: a prune takes files of a case still being made, which is then reported |

The violated properties state what comments of the code say; the findings in
`PROJECT.json` quote them.

Bounds. `MCExec` has three native filters (one of them `ndjson-filter`, one
`cordon-filter`, one with a format signature), three scripts (a builtin with
the same signature, a user's own, a user's replacement of the cordon filter)
and three prompts; five registries, from empty to full. Inputs lie on both
sides of 2000 bytes, 30 lines and 64 MiB, in all three forms, claimed by
nobody, by one and by several processors. Answers lie on both sides of empty,
blank, three lines, 5% of the lines, and of the text's own size. Chains have up
to two stages: with three nothing new happens, since a stage only sees the text
before it. Deadlines are 15, 30 and 30 seconds, in units of 5. `Overrun` lets a
script whose pipe is held be watched for one unit past its deadline.
`MCInferdPost` has one attachment and up to three response frames: text, more
text and a terminal frame, cut anywhere. `MCUpdateCheck` has two processes,
releases 1 and 2, and time for one cooldown to pass; `shown` is counted up to
`Twice`. `MCLogRotation` has two processes, three days, archives kept for one
day, and three records: one before a rotation, one across it and one behind it,
and a sweep on the third day; archives hold up to three records, repeated ones
included. `MCLogMidnight` needs two days and keeps archives for the default
seven. `MCCaseFile` has two runs and two files, one holding the sentinel, and
two seconds, and a case must be one old to be pruned: a run may take less than
that, or more, and then lose its files to the prune. A prune that starts earlier
finds nothing and is left out. The runs of UpdateCheck, LogRotation, CaseFile
and Setup switch the deadlock check off: clock, releases, records, runs and
commands are bounded, so the system does stop. Process symmetry is sound there, the properties treat
processes alike and none is temporal.

`MCSetup` has three commands, one failure or kill among their steps and two
changes by the user, other tools or an upgrade between or beside them, over
empty, mixed and malformed settings: enough for install, change, reinstall and
uninstall with one interruption. The hosts beside Claude Code come all or none,
since they share no file. `Foreign` has for each file what others add to it, and
`Matchers` the matchers under which their hooks are compared. `MCInstall` has four versions of inferd, of
which the first is too old and its archive without a backends folder (`Bare`), and
that of the fourth has a member beyond the limit (`Oversized`); three platforms, a pin or none, and release lists with a
candidate before the release, a draft, one whose flag and tag disagree, or
none; two models and two remains of version 0.5. An install is begun any number
of times. `MCTools` prints 3 to 8 lines of an alphabet
that has at least one line of each kind that its filter tells apart within a
format; a trace is that long so that frames are left out of it. PDFs have up to
five pages, of which four are rendered, so that running headers (four pages or
more) and the cut both happen; with tags up to three pages and five trees. User
folders come up to three at a time, command lines have up to four words, and
shorthand up to two runs, in place or by the write hook.

Fairness. `ExecSpec` asks it of the program's own steps: compiled-in filters
return, a call whose deadline has passed ends, the clock goes on. It asks
nothing of children, scripts, models or the daemon. `HelpersOutlive = FALSE` in
the runs that need a call to end at its deadline is an assumption about
scripts: `exec_hang` shows what happens without it. InferdPost asks the two
goroutines to run and the clock to go on; it assumes that the timeout is not
switched off (`THLIBO_INFERD_TIMEOUT=0` does that, and then nothing bounds a
call). The other specifications need no fairness: their properties are safety.

## What is proved

`PipelineProofs` proves, for every set of processors, every registry, every
input, every set of answer sizes and every chain length:

- `TypeCorrect`: `Spec => []TypeOK`. `TypeOK` is inductive as it stands. Beyond
  types it holds the facts the next proof needs: a call is outstanding only
  with a chain to run, the text in hand on the cordon detour is not empty, and
  there is neither error nor answer before the end. The proof has one lemma per
  group of actions; the ends of `decide` all go through `Return`, so one lemma
  about it serves them all.
- `PromiseKept`: `Spec => KeepsPromise`, that Pipeline implements FailOpen.
  `Read` maps to `Accept`, every end to `Answer`, everything else stutters. The
  one end that is not immediate is `CordonWins`: its answer is not blank, and a
  text with a line has a byte, which is what `InputAssumption` says of sizes.

It also proves every invariant of Pipeline that the run `exec` checks,
for every value of the constants: `SignatureAlwaysDecides`, `NobodyUninvited`,
`NativeNeverEverGrows`, `CordonNeverEverWorsens` and `DeadlineAlwaysTold`, each
`Spec => []` the invariant it is named after. None of these is inductive: they
speak of the end, of what has run or of what goes out, and an end does not say
which branch led to it. `Course` does: before the first decision nothing has
run and no chain is chosen; a fast-path chain is one processor, the winner of
the tiers, and nothing but the cordon filter runs behind it; a chain that the
router let through holds routable names, for a text that is neither binary nor
structured and that nobody claims; and what is running was started on one of
the two. `OnCourse` proves `Spec => [](TypeOK /\ Course)`, and `MovesOrEnds`
divides the steps into six that move the invocation on and the ends, of which
`Ends` says what they have in common; so each of the invariants needs one lemma
per kind of step that can disturb it. `NativeNeverGrows` needs a second
strengthening, `Shrinks`: while only filters have run, the text in hand is no
larger than what was read. `DeadlineIsTold` is proved end by end, since that is
where the reason is chosen. It claims one direction in full, a used-up deadline
is told as a timeout; of the other it says what the code allows:
`dispatchFailReason` searches the error for "timed out", and a script's error
holds what the script wrote to stderr, so a script (or a prompt's daemon) that
says these words is labelled a timeout without one.

The second half of `PipelineProofs` carries this over to the commands (Exec). Inside them the middleware
takes Pipeline's steps and no others, so `ExecInv` has all of the above as one
part (`Safe`); `Licensed` says that a child was started only if policy and
arguments allow it, and `Passed` what standard output is at the end: the
captured text, or the middleware's answer to what was captured. From it follow
`DeniedNeverEverRuns`, `ChildAlwaysSpeaks`, `ExecPromiseKept` (the refinement
of FailOpen) and `ExecMiddlewareSafe` (the five invariants).

The first part of `ProcessorProofs`: `CallInv` says of every point of a call that what Post is
about to return (`pend`) agrees with what it has read and with the clock, and
that its caller gets that. It is needed because the deferred calls rename the
outcome after the read. `CompleteAnswerAlwaysKept` follows, and `ContractKept`,
that Post implements InferdCall: the return maps to the call's outcome,
everything else stutters.

Its second part is about the filters, the registry and configuration files, for
tools that print any of their lines, users that add any folders and files of any
entries, in any order and number. A filter is a fold of one step operator, and
its property speaks of the whole text, so the invariant is one of the fold: *on
course* after n lines is a state whose output so far tells of the first n lines
what it should, and whose other fields are what these lines make them. The
lemma per filter is that one line more keeps it on course.

- `VerdictsAlwaysKept`. For go test the buffer of an unfinished test holds no
  verdict (`GoTestKeeps`); for cargo the flag for a pointer is set if and only
  if the last line was a problem, and every pointer that was put out follows one
  (`CargoKeeps`); npm's set of notices disturbs nothing it must keep
  (`NpmKeeps`); pytest drops a section's lines only in modes that no verdict
  comes in, for which it must be known that `collected` comes before another
  section does (`PytestKeeps`, and the reason for `Collects`). The -json stream
  is reported test by test and not read from left to right; there the proof
  shows that the reports are of different tests, and their lines disjoint
  (`GoTestJSONTells`).
- `DiffsAlwaysCounted`. On course, git's filter is either outside the diffs,
  all of those so far being summarised, or in one that no line has ended, with
  the counts of its hunks up to here and only the diffs before it summarised
  (`GitTold`, `GitOpen`). The property defines a diff by the line that ends it,
  which lies ahead while the diff is read: `WhereItEnds` joins the two.
- `AnswerAlwaysSurvives`. `Strip` jumps from an opening marker to the closing
  one, so the recursion goes from the end of the text to its beginning:
  `WithoutBlocksIs` says what it leaves of every rest of the text, and
  `OutsideReasoning` that, seen from the first token, this is what lies outside
  the reasoning.
- `WrappedAlwaysAsInstalled`. The registry is a fold too, first of the builtins
  and then of the user's folders. On course (`UserOnCourse`), a name stands for
  the last folder of that name that loads, or for the builtin; a name some
  folder has taken is the user's, so that only its first taker is warned of; and
  there is a warning per broken folder. `RegistryIsTold` follows, and from it
  `MatchedIfClaimed`, that a simple line is matched as the processors say that
  thlibo rewrite sees: the builtins and those in the directory that
  `THLIBO_PROCESSORS_DIR` names (`FirstOfBoth` joins the two). For a line that is wrapped, `OwnLineNotWrapped` shows that the program
  of the new line is the first piece of thlibo's path, whatever the old line
  held: quotes, line breaks, assignments; `StartedAsItStands` and `RestIsLine` that what
  thlibo exec is handed is the line as it was.
- `ConfigsAlwaysKnown`. `tomlDocument` reads lines and the property speaks of
  entries, so the invariant joins the two: after n lines the counts are those of
  the entries begun so far, and the line to go on with is the one behind the last
  of them (`TomlOnCourse`). It rests on where entries lie in the flattened
  text (`ListsFollow`) and on `ValueEndIs`: `tomlValueSpan` stops at the
  entry's last line, neither before it nor in the next entry.

`OutputsAssumption` says that a tool prints its own lines: go test those its
filter's table knows (the last kind is any other text), git headers that name a
file, and that `Strip`'s limit is a number; an entry of a file (`IsTomlEntry`) is
one line, an array up to the line that closes its brackets, or a string up to
the next line with its quotes. `CommandAssumption` says that the
folders and fields are such, that the builtins load, each under its own name,
and that no processor is for a program called like the first piece of thlibo's
path, unless that is `thlibo` (what happens otherwise is told below).

The proofs found two definitions that said less than was meant: a CASE of
pytest's step and one of the page tree had guards that overlap, which in TLA+ is an
arbitrary choice, while TLC takes the first that holds. They now exclude each
other in the order of the code.

`UpdateCheckProofs`: that a mark in the file is of a release that was announced
is not inductive, since a check reads the file, fetches, and writes a temporary
file that another one may rename, truncate or mix with its own. `Truth` says it
of every state that can still reach the file: of the file, the temporary file
and each check's own copy; `Newer` says what is between reading and announcing.
`BannerOncePerTag` holds of undisturbed checks only and needs `Once`: one check
at a time, whose copy is up to date from the load to the rename.

`LogRotationProofs`, for any number of processes: `Calm` holds until an overlap
is noted. It says which file each process has open where it stands, that a
process that rotates is alone, that a write takes in one midnight at most, and
from there how old the records in each file are by its name; without `Fresh`,
which relates the day a handle was opened for to the day the live file was last
written, the sweep could take young records (`AlwaysSweptInTime`). `Kept` says
where the records are that a rotation is about to move (`NothingEverLostAlone`),
`Numbered` and `Told` that archives and live file come one behind the other
(`AlwaysOnceAndInOrder`). Each is conditional on the trouble that breaks it, and
`Inv` is their conjunction: the proof has a lemma per action for `Calm`, and
one per action that touches files for the others.

`CaseFileProofs`, for any number of runs, of which several may make the same
case and each may take any time: `Clock` bounds what a prune may take
(`YoungAlwaysSpared`: nothing before it is old enough, counted from the second in
its name; a run that takes longer than that is not spared), `Owned` says
whose each file is, `Cases` which parts a run that shares its case with nobody
has written where it stands, and `Notes` what its draft is by then.
`ReportedAlwaysWhole`, `FailureAlwaysScrubbed` and `NotesAlwaysTrue` follow.

`InstallProofs`: `Spared` relates the running daemon to the binaries (a daemon
is the binary of its directory, and an install that means to replace one has
met none that is healthy), `Placed` is what an install has put in place at each
of its steps, `Chosen` the choice of the release. `HealthyAlwaysLeftAlone` is an
action property; `FreshAlwaysWhole` promises the backends but for the two kinds
of release of which the code does not bring them, those with a member beyond the
extraction's limit and those without the folder, for which `Placed` keeps what
was there; `AlwaysStableUnlessPinned` is for every list of releases.
`ModelsNeverLost` needs of the migration where the copy of each model stands.

`UserFilesProofs`: `EditsAlwaysSurvive` (an action property) needs that a stamp
is a version's and never names what an edited script holds, and that no step of
an install is one of an uninstall. `ShorthandInv` says where the whole copy is
at each step of a run in place (`PriorAlwaysKept`), what the pending rewrite has
of the text it was made from (`Carried`, from which `DirectivesAlwaysSurvive`
follows for each single rewrite), and what file and rewrite have of the user's
text after any number of them (`StructureKept`, `StructureAlwaysSurvives`). The
two differ because the checklist does: blocks of code and keys are compared
whole, so that keeping them composes (`KeptTwice`), while a word is looked for as
a part of the new text, which does not compose (see below). `DirectivesSurvive` states both.

`HookSettingsProofs` and `UserFilesProofs`, for every content of the hosts'
settings: `OthersAlwaysSurvive` rests on one lemma per merge and removal, that
it keeps what is not thlibo's (`MergeSettingsAllKeeps`, `WithoutOursKeeps`,
`MergeConfigTOMLHookKeeps`, ...). For lists of hooks and groups that holds of
any content. For `config.toml` it does not: a section is removed with all its
lines, so a line of the user's under a header of thlibo's would go with it.
`WellFormed` is what keeps that from happening, and is kept by every step: a
command of thlibo's stands under its hook header, that under its group, and
nothing else does; so what a removal takes is thlibo's (`SectionThatGoes`,
`UsersStay`), what is left is well formed again, and so are the first lines of a
file whose write was cut short. `FilesInv` is this for all files with
`OthersSurvive` itself. `UninstalledIsAlwaysGone` needs in addition that a
removal leaves nothing to remove (`WithoutOursTwice`, `NoCommands`) and that no
later removal brings it back; `GoneInv` says of an uninstall under way that what
is behind it is gone, unless one of its steps has failed.

`InstalledAlwaysOnce` is the counterpart for installs, and the longest argument
of the project. A merge puts one hook into the first group of its matcher whatever
the file of Claude Code held (`MergeSettingsAllOnce`, from `PlacedOne` and `AddOne`: the first of
its family is replaced and the others go); but the merges for Codex and Cursor
change the first hook of thlibo's and would leave a second. That there is none
is `OnceInv`: none of their files calls thlibo twice for the same thing, after every step,
every write that is cut short and everything others add (`AfterOnce`,
`TornOnce`, `ForeignOnce`). `InstallInv` says of an install under way that what
is asked for is still ahead of it or done (`Made`), unless a step has failed.
Codex makes this hard, since its steps disturb each other. The hook may go into
either file, by what the other one holds; therefore `Made` of the hook says
that it is in `config.toml`, or in `hooks.json` with no hook table in
`config.toml`. The flag is set in the file that holds the hook, so
`ensureCodexHooksTrue` has to leave the commands and the hook tables
(`EnsureKeepsHooks`) and to do nothing the second time
(`EnsureCodexHooksTrueTwice`). The leftovers of `hooks.json` go only if the
hook went inline, after it did. A merge may undo the flag and the leftovers of
an earlier install, hence the last part of `InstallInv`: in the steps ahead,
flag and leftovers come behind the hook (`AskedAhead`, `Behind`). `FirstInv`
is about the other groups of a matcher in Claude Code's settings: neither a merge
nor a removal puts a hook of thlibo's behind the first (`MergeSettingsAllFirst`,
`WithoutOursFirst`), so only others' groups may (`overtaken`).

The merges and removals are recursions over lists. The library's induction
theorems take an operator and cannot be used, so `HookSettingsProofs` proves
induction anew as a statement about sets (`Induction`), from every set of
numbers having a least element, and from it that recursive functions exist, are
unique, and what a selection keeps of a list (`OnlyAppend`, `OnlyConcat`,
`OnlyTwice`, ...). The prover treats `SelectSeq` as opaque, therefore the model
selects with `AtPlaces` and `Select`.

The strengthenings were model-checked on the instances of the runs before they
were proved.

The proofs assume what the `ASSUME`s say, and TLC evaluates each in a run: the
kinds of processors are disjoint and the registry's order is total
(`KindAssumption`), inputs and sizes are what their names say and no text has
more lines than bytes (`InputAssumption`), deadlines are positive
(`TimeAssumption`); a missing policy is the permissive default
(`PolicyAssumption`); what stands for no writer in CaseFile is no run's name,
and the prune's age is positive (`CaseAssumption`); versions are positive
numbers and a list of releases is one (`InferdAssumption`); the sets of texts
and answers of Shorthand are that, and prose is one scalar
(`ShorthandAssumption`); the settings are lists of hooks and groups, or cannot be
read, what others add to `config.toml` are whole sections without a command
or the trust entry of thlibo's, and nobody but thlibo puts thlibo's hooks into
Codex' `hooks.json` and Cursor's file, of which the merges change the first one
only; into Claude Code's anybody may (`SetupAssumption`); the others only type the bounds. The bounds on time,
records, tags, frames and commands stay in the specifications, so a theorem is
for every value of a bound.

Model-checked only: liveness (`Exits`, `ComesBack`), which is out of the
prover's reach; and the filters that ToolOutput adds, whose folds are those of the
community modules, whose sequences are compared by other folds, and of which
the JSON and the page tree are RECURSIVE operators, where the
prover has no arithmetic.

## Where code and words disagree

Four disagreements have a run of their own (`findings`). Others were met while
modelling; the model does what the code does, and its properties except these
cases by name:

- an answer of white space stands in for the output (`middleware.go:153` tests
  for the empty string), and what is beyond 64 MiB is lost silently (`:406`);
- a frame cut off between its length and its payload reads as a clean end
  (`protocol.go:303`);
- the headless notice comes again after a cooldown (`update/runner.go:165`), and
  is printed before the output of commands whose output a hook parses (`:205`);
- the error of the copy into an existing archive is not looked at, and the live
  file is removed all the same (`logx.go:351`, the comment at `:346` says not);
- two cases of one file within one second share a directory
  (`casefile.go:295`);
- go-test-filter keeps "every failing test's output" (its `processor.yaml`), but
  not that of a failing test whose subtests or parallel tests print between
  (`filter_gotest.go:156`); pytest-filter drops failures in a text without a
  "collected" line; in git-filter a commit's lines behind a diff without hunks
  go with it;
- of a YAML file of several documents shorthand keeps the first
  (`shorthand/yaml.go:63`); one scalar's failure takes back the whole document;
  an empty answer blanks a scalar without directives; in YAML mode a Markdown
  file that begins with `---` and closes its head is never shortened (it is by
  the write hook's default and with `--yaml off`); the second run in place
  overwrites the backup of the first;
- trivy-filter gives a finding without a library of its own, behind which a row
  with one follows at once, that row's library, and drops
  identifiers of a form it does not know, such as Debian's TEMP-0000000-12AB34
  (`filter_trivy.go:427`); lint-filter ranks gcc's fatal error last
  (`filter_lint.go:50`);
- between the first and the last frames stacktrace-filter drops lines that are no
  frames, too;
- `Strip` applied to its own result may strip more;
- a tagged table loses its caption, and rows and cells that are not in an array;
- a release archive's member beyond the size limit ends the extraction without
  an error; an install that is repeated after the copy of the backends has
  failed starts a binary without them; moving a model within one file system
  replaces a file of that name that somebody else put into the store; hooks of
  both representations may be left in Codex' files by older versions;
- a script's or daemon's error that happens to say "timed out" is labelled a
  timeout (`middleware.go:282`, `dispatch.go:126`);
- a command behind assignments (`CI=1 git`) is wrapped, and thlibo exec then
  starts a program called `CI=1` (`rewrite.go:89`, `exec.go:119`; ADR 0001:34
  says the subprocess runs the real command);
- `~/.thlibo/processors` is where thlibo exec looks for the user's processors by
  default (`exec.go:223`), but thlibo rewrite does not (`rewrite.go:57`): without
  `THLIBO_PROCESSORS_DIR` their commands are not wrapped, while the program's
  `README.md:405` says the hook picks them up from there;
- of a PDF with tags, text on a tagged page that no element claims is in neither
  pass (`filter_pdf.go:238`; the comment at `:152` says it is in the second);
- stacktrace-filter counts the middle frames of a long trace, distinct file and
  line references among them (`filter_stacktrace.go:118`; `:15` says every
  distinct one is kept);
- an error that mypy prints without its code has no row in lint-filter's table
  (`filter_lint.go:148`; `:15` says one row per finding);
- where both the fixed versions and the title of a finding wrap, trivy-filter
  loses the rest of the title (`filter_trivy.go:295`; `:15` says either may wrap);
- Claude Code's merge looks at the first group of a matcher only
  (`claudecode.go:583`): with a group put before the one of thlibo's, the next
  install adds a second hook (the comment at `:557` says an existing entry is updated, not duplicated);
- a release archive without the folder `backends` is installed without any, and
  without an error (`inferd.go:1258`);
- shorthand's checklist looks for words as parts of the new text
  (`shorthand.go:151`, `:195`): a first run may turn `NEVER` into `NEVERTHELESS`,
  and then a second may drop it, though the usage text says that what is
  required survives (`shorthandcmd/shorthand.go:76`);
- a path of thlibo with a space in it is cut at the space when the wrapped line
  is read again, so a first piece whose name some processor claims would be
  wrapped twice.

## Not modelled, and why

The wording of prompts, logs and messages; sizes and durations in telemetry
records; the export of telemetry (a library). `Process`'s own read error: its
callers hand it a buffer, which cannot fail. What a regular expression matches:
a line's kind is given. The PDF lexer, parser, cross references, fonts and the
geometry of tables (`internal/pdf` but for the tag tree), the glyph list, and
mhtml-filter: sequential decoding of data whose content no property here tells
apart. The OCR's page loop, of which CaseFile has the outcomes. Prompt
sanitising, configuration and its path patterns, the version: string functions
without state. `--no-backup` of shorthand, and the host's own edit of a file, of which
the write hook sees the inserted text alone and the model takes it for a file.
Autostart units and the service manager's own files, the
download of an upgrade and the removal of skills. The embedding connection,
which has Post's watchdog; CordonFilter has its outcomes. The window between
the check of a script's fingerprint and its start, and the budget of the host's
hooks, of which a routing call and a prompt may together take more than one
deadline (`Exits` shows that the command ends, not when). Windows' refusal to
rename or remove an open file, under which LogRotation's overlaps end
differently; the contents of log records and cases. A write may be cut short
where that is said (`WriteFails`, `TornFile`, `TornScript`, `CopyFileFails`,
Shorthand's `Unfinished`); `CopyFails` of LogRotation copies nothing. Semantic
versions are numbers.

## Plan

*Done*: the middleware and its commands; the call to inferd; update check, log
files, case files; the installation and the hosts' settings; the filters, the
registry, command rewriting and shorthand. Proved are the typing, safety and
refinement of the middleware, alone and in the commands, the contract of the
call to inferd, and the safety of update check, log files, case files, the
inferd install, the migration, shorthand, the user's edits of hook scripts,
of what install and uninstall do to the hosts' settings, and what the filters
that read line by line keep, the registry, what is wrapped and which files are
configurations. What is left:

1. The filters of ToolOutput, beginning with those that keep a small state
   (lint, trivy), by the same induction over what is printed, once their folds
   are written as recursive functions.
