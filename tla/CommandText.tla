----------------------------- MODULE CommandText -----------------------------
(* A user adds processor folder after folder, or types a command line word   *)
(* after word, and after each of them the registry is built and thlibo       *)
(* rewrite is asked.  Here is what the registry promises of the folders, and *)
(* thlibo rewrite of the line.                                               *)
EXTENDS PrintedText, Rewriting

Descriptors ==
  [file : {"missing", "torn", "read"}, name : STRING, type : STRING, entry : {"none", "plain", "path"},
   body : BOOLEAN, match : STRING, commands : SUBSET STRING, prefixes : SUBSET Seq(STRING)]

ProcessorFolders == [yaml : Descriptors, md : Descriptors]

Fields ==
  [text : STRING, base : STRING, dir : BOOLEAN, kind : {"word", "assignment", "special"},
   open : BOOLEAN, close : BOOLEAN, newline : BOOLEAN]

\* The builtin processors, which are part of the program, load, each under a
\* name of its own.
BuiltinsLoad(builtin) ==
  /\ builtin \in Seq(ProcessorFolders)
  /\ \A n \in DOMAIN builtin : /\ IsProcessor(builtin[n]) /\ Valid(Described(builtin[n]), "builtin")
                              /\ \A m \in DOMAIN builtin \ {n} :
                                   Described(builtin[m]).name # Described(builtin[n]).name

\* The path of thlibo is one or more words of one line; if it has blanks in it,
\* no processor is for a program called like its first piece.
PathStandsAlone(self, folders) ==
  /\ self \in Seq(Fields) /\ self # <<>>
  /\ \A n \in DOMAIN self : self[n].kind = "word" /\ ~self[n].newline
  /\ \/ self[1].base = "thlibo"
     \/ \A n \in DOMAIN folders : /\ self[1].base \notin Described(folders[n]).commands
                                 /\ \A p \in Described(folders[n]).prefixes :
                                      p # <<>> => p[1] # self[1].base

\* What is added is a folder, what is typed a field of a line.
CommandAssumption ==
  \A s \in DOMAIN Outputs :
    LET o == Outputs[s]
    IN /\ o.tool = "processors" =>
            o.lines \subseteq ProcessorFolders /\ \A k \in o.knobs : BuiltinsLoad(k.builtin)
       /\ o.tool = "shell" =>
            /\ o.lines \subseteq Fields
            /\ \A k \in o.knobs : /\ BuiltinsLoad(k.builtin) /\ k.user \in Seq(ProcessorFolders)
                                  /\ k.named \in BOOLEAN
                                  /\ PathStandsAlone(k.self, k.builtin \o k.user)

ASSUME CommandAssumption

\* The processor that a name stands for: the user's last one that can be loaded,
\* or the builtin one.
Loads(folder) == IsProcessor(folder) /\ Valid(Described(folder), "user")

Installed(name, users) ==
  LET named == {i \in DOMAIN users : Loads(users[i]) /\ Described(users[i]).name = name}
      builtin == CHOOSE n \in DOMAIN knob.builtin : Described(knob.builtin[n]).name = name
  IN IF named = {} THEN LoadOne(knob.builtin[builtin], "builtin") ELSE LoadOne(users[Max(named)], "user")

BuiltinNames == {Described(knob.builtin[i]).name : i \in DOMAIN knob.builtin}
NamesLoaded(users) == {Described(users[i]).name : i \in {j \in DOMAIN users : Loads(users[j])}}

\* Every processor is the one installed, and of the user's folders each that is
\* broken and each first one to take a builtin's place is told of.
RegistryTold(users) ==
  LET r == Registry(knob.builtin, users)
      Told(what) == Cardinality({n \in DOMAIN r.warnings : r.warnings[n] = what})
  IN /\ DOMAIN r.byName = BuiltinNames \cup NamesLoaded(users)
     /\ \A name \in DOMAIN r.byName : r.byName[name] = Installed(name, users)
     /\ Told(<<"broken">>) = Cardinality({i \in DOMAIN users : IsProcessor(users[i]) /\ ~Loads(users[i])})
     /\ \A name \in BuiltinNames : Told(<<"shadows", name>>) = IF name \in NamesLoaded(users) THEN 1 ELSE 0

\* Some installed processor names this command, or its first words.
Claimed(words, users) ==
  \E name \in BuiltinNames \cup NamesLoaded(users) :
    LET d == Installed(name, users)
    IN \/ words[1].base \in d.commands
       \/ \E p \in d.prefixes : Len(p) \in 1..Len(words) /\ \A n \in DOMAIN p :
                                   p[n] = IF n = 1 THEN words[n].base ELSE words[n].text

\* What the shell starts for a line: leading assignments are the
\* environment of what follows.
Started(line) ==
  LET words == {i \in DOMAIN line : line[i].kind # "assignment" \/ line[i].open}
      from  == Min(words \cup {Len(line) + 1})
  IN [env |-> {line[i].text : i \in 1..from - 1}, argv |-> SubSeq(line, from, Len(line))]

\* The same if it is thlibo exec that the shell starts.
StartedInTheEnd(line) ==
  LET wrapper == knob.self \o <<Word("exec")>>
      process == Started(line)
  IN IF IsPrefix(wrapper, process.argv)
     THEN [process EXCEPT !.argv = ExecStarts(SubSeq(@, Len(wrapper) + 1, Len(@)))]
     ELSE process

\* The user's folders that thlibo rewrite sees.
FoldersSeen == NamedFolders(knob.named, knob.user)

CommandLine == Wrapped(input, Registry(knob.builtin, FoldersSeen), knob.self)

-----------------------------------------------------------------------------
(* Properties.                                                               *)

SeveralLines(line) == \E i \in DOMAIN line : line[i].newline

\* The line is one command without quotes or assignments.
Simple(line) == \A i \in DOMAIN line : Unquoted(line[i]) /\ line[i].kind = "word" /\ ~line[i].newline

\* The registry: neither a broken folder nor a second one of the same name
\* changes what the others are known by, and whatever displaces a builtin is
\* told.  A command is wrapped if and only if a processor names it that is
\* builtin or in the directory that THLIBO_PROCESSORS_DIR names; a wrapped one
\* is not wrapped again, whatever names thlibo; and unless it begins with an
\* assignment or goes on in another line, what thlibo exec starts in the end is what
\* the shell would have started, word for word (scan, MatchCommandLine, Run,
\* parseCommand).
WrappedAsInstalled ==
  CASE tool = "processors" -> RegistryTold(input)
    [] tool = "shell" ->
         /\ Simple(input) /\ input # <<>> =>
              (CommandLine # input <=> Claimed(input, FoldersSeen) /\ input[1].base # "thlibo")
         /\ Wrapped(CommandLine, Registry(knob.builtin, FoldersSeen), knob.self) = CommandLine
         /\ CommandLine # input /\ input[1].kind # "assignment" /\ ~SeveralLines(input) =>
              StartedInTheEnd(CommandLine) = Started(input)
    [] OTHER -> TRUE
=============================================================================
