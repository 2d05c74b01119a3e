------------------------------ MODULE Rewriting ------------------------------
(* thlibo rewrite: whether a command line is wrapped in thlibo exec, and the *)
(* registry of processors that decides it.                                   *)
(*                                                                           *)
(* A processor folder is [yaml, md], its two files.  A file is [file, name,  *)
(* type, entry, body, match, commands, prefixes]: is it "missing", "torn" or *)
(* "read"; a name is "" if it is not in kebab case, a type is "" if none is  *)
(* given, an entry is "none", "plain" or "path", and a match is "broken" if  *)
(* it does not compile.                                                      *)
(*                                                                           *)
(* A command line is a sequence of fields, what strings.Fields makes of it.  *)
(* A field is [text, base, dir, kind, open, close, newline]: its text and    *)
(* its Basename without quotes, whether it has a separator, whether it is a  *)
(* "word", an "assignment" or has a "special" character, whether it begins   *)
(* or ends with a quote, and whether a line break separates it from the one  *)
(* before.                                                                   *)
EXTENDS Places, SequencesExt

NativeFilters ==
  {"git-filter", "npm-filter", "cargo-filter", "pytest-filter", "stacktrace-filter", "ndjson-filter",
   "lint-filter", "trivy-filter", "go-test-filter", "cordon-filter", "har-filter", "mhtml-filter", "pdf-filter"}

\* loadOne, ParseYAML and ParseMarkdown: a yaml file is read without the body
\* that a md file beside it has.
Described(folder) ==
  IF folder.yaml.file # "missing"
  THEN [folder.yaml EXCEPT !.body = FALSE, !.type = IF @ = "" THEN "script" ELSE @]
  ELSE [folder.md EXCEPT !.type = IF @ = "" THEN "prompt" ELSE @]

\* validate.
Valid(d, origin) ==
  /\ d.file = "read" /\ d.name # "" /\ d.match # "broken"
  /\ CASE d.type = "script" -> d.entry = "plain"
       [] d.type = "prompt" -> d.body
       [] d.type = "native" -> origin = "builtin" /\ d.name \in NativeFilters /\ d.entry = "none"
       [] OTHER -> FALSE

IsProcessor(folder) == folder.yaml.file # "missing" \/ folder.md.file # "missing"

\* The hybrid: the md body of a folder with a yaml file is its system prompt.
LoadOne(folder, origin) ==
  LET d == Described(folder)
  IN [name |-> d.name, origin |-> origin, type |-> d.type, prompt |-> folder.md.body,
      commands |-> d.commands, prefixes |-> d.prefixes]

\* The processor takes its name, whoever had it.
Put(byName, d) == [name \in DOMAIN byName \cup {d.name} |-> IF name = d.name THEN d ELSE byName[name]]

\* Wrong on purpose: a folder that is broken ends the scan.
StopsAtBroken(r, folder, origin) ==
  LET d == LoadOne(folder, origin)
  IN IF <<"broken">> \in ToSet(r.warnings) \/ ~IsProcessor(folder) THEN r
     ELSE IF ~Valid(Described(folder), origin) THEN [r EXCEPT !.warnings = Append(@, <<"broken">>)]
     ELSE [r EXCEPT !.byName = Put(@, d)]

\* scan, for one folder: the user's wins, and it is told if it displaces a builtin.
ScanFolder(r, folder, origin) ==
  LET d == LoadOne(folder, origin)
      known == d.name \in DOMAIN r.byName
      shadows == origin = "user" /\ known /\ r.byName[d.name].origin = "builtin"
  IN IF ~IsProcessor(folder) THEN r
     ELSE IF ~Valid(Described(folder), origin) THEN [r EXCEPT !.warnings = Append(@, <<"broken">>)]
     ELSE [byName |-> IF known /\ origin = "builtin" THEN r.byName ELSE Put(r.byName, d),
           warnings |-> IF shadows THEN Append(r.warnings, <<"shadows", d.name>>) ELSE r.warnings]

\* BuildRegistry and BuildFromSources: the builtins, then the user's in the
\* order of their folders.
Registry(builtin, user) ==
  LET Builtin(r, i, folder) == ScanFolder(r, folder, "builtin")
      User(r, i, folder) == ScanFolder(r, folder, "user")
  IN Scan(User, Scan(Builtin, [byName |-> <<>>, warnings |-> <<>>], builtin), user)

\* MatchCommandLine and MatchCommand: which of several processors it is makes
\* no difference to thlibo rewrite.
MatchCommandLine(r, tokens) ==
  \E n \in DOMAIN r.byName :
    \/ \E p \in r.byName[n].prefixes : p # <<>> /\ IsPrefix(p, tokens)
    \/ tokens[1] \in r.byName[n].commands

-----------------------------------------------------------------------------
(* The command line.                                                         *)

\* firstToken cuts at blanks, not at line breaks.
TokenStarts(line) == {i \in DOMAIN line : i = 1 \/ ~line[i].newline}
TokenEnd(line, i) == Min({j \in TokenStarts(line) : j > i} \cup {Len(line) + 1}) - 1

\* Argv0: the token that names the program, 0 if the line is not simple.
Argv0(line) ==
  LET named == {i \in TokenStarts(line) : line[i].kind # "assignment"}
  IN IF named = {} \/ \E i \in DOMAIN line : line[i].kind = "special" THEN 0 ELSE Min(named)

\* Basename: a token of several lines has a name only after a separator.
Program(line, i) ==
  LET last == TokenEnd(line, i)
  IN IF last = i \/ line[last].dir THEN line[last].base ELSE "of two lines"

Unquoted(field) == ~field.open /\ ~field.close

\* tokensFrom: from the first field that is spelt like the program.
TokensFrom(line, i) ==
  LET same == {j \in DOMAIN line : TokenEnd(line, i) = i /\ Unquoted(line[j]) /\ line[j].text = line[i].text}
      Arg(j) == IF Unquoted(line[j]) THEN line[j].text ELSE "quoted"
      rest == IF same = {} THEN Len(line) ELSE Min(same)
  IN <<Program(line, i)>> \o [n \in 1..Len(line) - rest |-> Arg(rest + n)]

\* Run reads the user's folders if THLIBO_PROCESSORS_DIR names the directory they
\* are in; that they are in ~/.thlibo/processors is known to thlibo exec alone.
NamedFolders(named, folders) == IF named THEN folders ELSE <<>>

Word(text) ==
  [text |-> text, base |-> text, dir |-> FALSE, kind |-> "word", open |-> FALSE, close |-> FALSE, newline |-> FALSE]

\* Run: the line to run instead, the same one if it is not wrapped; self is the
\* path of thlibo.
Wrapped(line, r, self) ==
  LET i == Argv0(line)
  IN IF line = <<>> \/ i = 0 THEN line
     ELSE IF Program(line, i) = "thlibo" \/ ~MatchCommandLine(r, TokensFrom(line, i)) THEN line
     ELSE self \o <<Word("exec"), Word("--")>> \o line

\* parseCommand and exec.Command: thlibo exec starts its words as they are.
ExecStarts(argv) ==
  IF argv # <<>> /\ argv[1] = Word("--") THEN Tail(argv) ELSE argv
=============================================================================
