------------------------------ MODULE MCTools ------------------------------
(* The native filters over short outputs, and thlibo shorthand over small    *)
(* files.  A behaviour is one of either; they share no state.                *)
(*                                                                           *)
(* Each alphabet holds the lines that one tool prints, at least one of each  *)
(* kind its filter tells apart within a format.                              *)
EXTENDS ToolOutput, Shorthand

Printing(name, lines, longest) ==
  [tool |-> name, lines |-> lines, start |-> <<>>, longest |-> longest, knobs |-> {0}]

With(printing, start, knobs) == [printing EXCEPT !.start = start, !.knobs = knobs]

Lines(kinds) == {<<k, "">> : k \in kinds}

GoTest ==
  Printing("go test",
    Lines({"run", "fail", "skip", "ok", "pkgfail", "FAIL", "build", "panic", "text"}), 5)

GoTestJson ==
  Printing("go test -json",
    {<<"output", "A", "p">>, <<"output", "A", "q">>, <<"output", "B", "p">>, <<"fail", "A", "p">>,
     <<"fail", "A", "q">>, <<"skip", "B", "p">>, <<"fail", "", "p">>, <<"pass", "", "q">>}, 5)

GitLog ==
  Printing("git",
    Lines({"odd diff", "hunk", "plus", "minus", "commit", "text"})
      \cup {<<"diff", "a">>, <<"diff", "b">>}, 5)

\* A Go panic and a Python traceback.
Panic ==
  With(Printing("trace", Lines({"start", "text", "blank"}) \cup {<<"frame", "f">>, <<"frame", "g">>}, 6),
       <<<<"start", "">>>>, {1})

Traceback ==
  With(Printing("trace", Lines({"start", "code", "text"}) \cup {<<"pyframe", "f">>, <<"pyframe", "g">>}, 8),
       <<<<"start", "">>, <<"pyframe", "f">>, <<"code", "">>>>, {1})

\* A trace with more than the six frames that are kept.
Dump ==
  With(Printing("trace", {<<"frame", "f">>, <<"frame", "g">>, <<"frame", "h">>}, 9), <<<<"start", "">>>>, {3})

Report(kind, sev, rule) == [kind |-> kind, sev |-> sev, rule |-> rule]

Linter(lines, longest) == With(Printing("lint", lines, longest), <<>>, {0, 1})

Rustc ==
  Linter({Report("opener", "error", 1), Report("opener", "warning", 0), Report("loc", "", 0),
          Report("note", "", 2), Report("help", "", 0)}, 6)

Gcc ==
  Linter({Report("terse", "warning", 1), Report("terse", "error", 1), Report("terse", "error", 2),
          Report("terse", "warning", 0), Report("terse", "note", 0), Report("terse", "fatal", 0),
          Report("help", "", 0), Report("context", "", 0)}, 4)

Mypy ==
  Linter({Report("mypy", "error", 1), Report("mypy", "error", 0), Report("mypy", "note", 0)}, 4)

Ruff ==
  Linter({Report("ruff", "", 1), Report("ruff", "", 2), Report("loc", "", 0), Report("help", "", 0)}, 6)

Eslint ==
  Linter({Report("file", "", 0), Report("row", "error", 1), Report("row", "warning", 2)}, 6)

TableRow(cells, sev) == [kind |-> "row", cells |-> cells, sev |-> sev, known |-> TRUE]
Bar(kind) == [TableRow({}, "") EXCEPT !.kind = kind]

AllCells == ToSet(TrivyColumns) \cup {"title"}
Unknown == [TableRow(AllCells, "HIGH") EXCEPT !.known = FALSE]

\* A finding in full, one that repeats the library, one with an identifier that
\* the filter does not know; a title that goes on, with or without the versions.
Scanner ==
  With(Printing("trivy",
         {TableRow(AllCells, "CRITICAL"), TableRow(AllCells, "LOW"), TableRow({"vuln", "fixed", "title"}, ""),
          Unknown, TableRow({"title"}, ""), TableRow({"fixed", "title"}, ""), Bar("sep"), Bar("close")}, 7),
       <<Bar("open"), [Unknown EXCEPT !.kind = "header"]>>, {0})

Json(level, msg, path) == [kind |-> "json", level |-> level, msg |-> msg, status |-> 200, path |-> path]

Log ==
  Printing("ndjson",
    {Json(<<"name", "error">>, "lost", <<"user", "1007">>), Json(<<"number", 17>>, "lost", <<"user", "1008">>),
     Json(<<"number", 16>>, "lost", <<"user", "1008">>), Json(<<"absent">>, "lost", <<"user", "1007">>),
     Json(<<"name", "info">>, "found", <<>>), Json(<<"name", "odd">>, "lost", <<"user", "1007">>),
     [kind |-> "blank"], [kind |-> "text"]}, 4)

Object(key, value) == <<"object", [k \in {key} |-> value]>>
Hidden == <<"leaf", "hidden">>
Plain == <<"leaf", "plain">>

Request(static, form, json) ==
  [static |-> static, status |-> 200, secrets |-> {"Cookie"}, request |-> form, response |-> json]

Browser ==
  Printing("har",
    {Request(TRUE, <<>>, <<>>), Request(FALSE, <<<<"token", Hidden>>, <<"page", Plain>>>>, <<>>),
     Request(FALSE, <<>>, Object("page", Plain)), Request(FALSE, <<>>, Object("token", Hidden)),
     Request(FALSE, <<>>, Object("page", <<"array", <<Plain, Object("token", <<"array", <<Hidden>>>>)>>>>))}, 3)

Entry(sig, level, weight) == [sig |-> sig, level |-> level, weight |-> weight]

Cordoned(size, stride, percent, max, fault) ==
  [fault |-> fault, order |-> [s \in {"a", "b", "c"} |-> IF s = "a" THEN 1 ELSE IF s = "b" THEN 2 ELSE 3],
   settings |-> [size |-> size, stride |-> stride, k |-> 1, percent |-> percent, max |-> max, batch |-> 2]]

Service ==
  With(Printing("cordon", {Entry("a", "info", 0), Entry("b", "error", 9), Entry("c", "info", 0), Entry("", "unknown", 0)}, 6),
       <<>>,
       {Cordoned(1, 1, 10, 0, f) : f \in {"none", "batch 1", "batch 2", "short", "late"}}
         \cup {Cordoned(2, 2, 10, 0, "none"), Cordoned(2, 1, 50, 2, "none"), Cordoned(2, 1, 50, 2, "batch 2")})

Answer ==
  With(Printing("model", {"<|channel>", "thought", "<channel|>", "space", "word"}, 6), <<>>, {1, 3})

Config ==
  Printing("config",
    {<<"blank">>, <<"table">>, <<"prose">>, <<"bare">>, <<"torn">>, <<"number">>, <<"string">>,
     <<"array", "number", "]">>, <<"array", "array", "]", "]">>, <<"multi", "prose", "table", "quotes">>}, 4)

Session == Printing("pytest", Lines(PytestKinds \ {"section"}), 5)

\* Pages with a running header, marked and unmarked text, a table, a scan, a
\* chart; one that is nothing but the header.
Writing(word, mark) == [word |-> word, mark |-> mark, long |-> FALSE]

PdfPage(lines, images, few) == [lines |-> lines, images |-> images, few |-> few, table |-> FALSE]

MCPages ==
  {PdfPage(<<Writing("header", 0), Writing("prose", 1), Writing("", 0), Writing("more", 2)>>, FALSE, FALSE),
   PdfPage(<<Writing("header", 0), [Writing("legal", 0) EXCEPT !.long = TRUE]>>, FALSE, FALSE),
   PdfPage(<<Writing("header", 0)>>, TRUE, FALSE),
   PdfPage(<<>>, TRUE, FALSE), PdfPage(<<>>, FALSE, FALSE),
   PdfPage(<<Writing("axis", 2)>>, TRUE, TRUE),
   [PdfPage(<<Writing("cells", 1)>>, FALSE, FALSE) EXCEPT !.table = TRUE]}

Element(role, page, kids) == [role |-> role, page |-> page, kids |-> kids, lone |-> FALSE]
Mark(id) == <<"mark", id, 0>>
Child(e) == <<"element", e>>
Tree(elements) == [tagged |-> TRUE, top |-> <<Child(1)>>, elements |-> elements]

\* An inherited page; a table with a caption, row groups and a block in a
\* cell; a block in itself and a part reached twice; content on another page
\* and one that is lone; a tree that is deeper than is read.
MCTrees ==
  {Tree(<<Element("part", 2, <<Child(2), Mark(2), Child(3)>>), Element("block", 0, <<Mark(1)>>),
          Element("block", 1, <<Mark(1), <<"object">>>>)>>),
   Tree(<<Element("Table", 0, <<Child(2), Child(3), Child(6)>>), Element("block", 0, <<Mark(1)>>),
          Element("rows", 2, <<Child(4)>>), Element("TR", 0, <<Child(5)>>),
          Element("cell", 0, <<Mark(1), Child(7)>>), Element("TR", 0, <<Child(8)>>),
          Element("block", 0, <<Mark(2)>>), [Element("cell", 0, <<Mark(2)>>) EXCEPT !.lone = TRUE]>>),
   Tree(<<Element("part", 1, <<Child(2), Child(3), Child(2)>>), Element("block", 1, <<Mark(1), Child(4), Child(1)>>),
          Element("part", 1, <<Mark(2), Child(3)>>), Element("part", 2, <<Mark(2), Child(2)>>)>>),
   Tree(<<Element("block", 1, <<<<"mark", 1, 2>>, Child(2)>>),
          [Element("part", 0, <<Child(3)>>) EXCEPT !.lone = TRUE], Element("Table", 0, <<Mark(2)>>)>>),
   Tree(<<Element("part", 1, <<Child(2)>>), Element("part", 0, <<Child(3), Mark(1)>>),
          Element("part", 0, <<Child(4)>>), Element("block", 0, <<Mark(2)>>)>>)}

Document(file, tree) == [file |-> file, tree |-> tree, depth |-> 2, cap |-> 4]
Untagged == [tagged |-> FALSE, top |-> <<>>, elements |-> <<>>]

Paper ==
  With(Printing("pdf", MCPages, 5), <<>>, {Document(f, Untagged) : f \in {"plain", "encrypted"}})

TaggedPaper == With(Printing("pdf", MCPages, 3), <<>>, {Document("plain", tree) : tree \in MCTrees})

\* Processor folders: those of the builtins, and the user's own.
Descriptor(name, type, entry, commands, prefixes) ==
  [file |-> "read", name |-> name, type |-> type, entry |-> entry, body |-> TRUE, match |-> "none",
   commands |-> commands, prefixes |-> prefixes]

NoFile == [Descriptor("", "", "none", {}, {}) EXCEPT !.file = "missing", !.body = FALSE]
WithYaml(d) == [yaml |-> d, md |-> NoFile]
WithMd(d) == [yaml |-> NoFile, md |-> d]
Folder(name, commands, prefixes) == WithYaml(Descriptor(name, "", "plain", commands, prefixes))

Builtins ==
  <<WithYaml(Descriptor("git-filter", "native", "none", {"git"}, {})),
    WithYaml(Descriptor("go-test-filter", "native", "none", {}, {<<"go", "test">>}))>>

UserFolders ==
  {Folder("git-filter", {"git"}, {}), Folder("git-filter", {}, {}), Folder("mine", {}, {}),
   WithMd(Descriptor("git-filter", "", "none", {"gh"}, {})), WithMd([Descriptor("mine", "", "none", {}, {}) EXCEPT !.body = FALSE]),
   WithYaml([Descriptor("git-filter", "", "plain", {}, {}) EXCEPT !.file = "torn"]),
   WithYaml(Descriptor("git-filter", "native", "none", {}, {})), WithYaml(Descriptor("go-test-filter", "", "path", {}, {})),
   [yaml |-> Descriptor("mine", "", "plain", {}, {}), md |-> Descriptor("", "", "none", {}, {})],
   [yaml |-> Descriptor("mine", "prompt", "none", {}, {}), md |-> Descriptor("", "", "none", {}, {})],
   WithMd(NoFile)}

Folders == With(Printing("processors", UserFolders, 3), <<>>, {[builtin |-> Builtins]})

\* Words of command lines, and where thlibo is.
InDir(text, base) == [Word(text) EXCEPT !.base = base, !.dir = TRUE]
OnNewLine(field) == [field EXCEPT !.newline = TRUE]
Quoted(field) == [field EXCEPT !.open = TRUE, !.close = TRUE]
Thlibo == InDir("/usr/bin/thlibo", "thlibo")

CommandFields ==
  {Word("git"), InDir("/usr/bin/git", "git"), Quoted(Word("git")), Word("go"), Word("test"), Thlibo,
   [Word("CI=1") EXCEPT !.kind = "assignment"], [Word("|") EXCEPT !.kind = "special"],
   OnNewLine(Word("go")), OnNewLine(InDir("/usr/bin/git", "git"))}

Users == <<WithMd(Descriptor("git-filter", "", "none", {"gh"}, {})), Folder("mine", {"go", "thlibo"}, {})>>

Prompt(user, named, self) == [builtin |-> Builtins, user |-> user, named |-> named, self |-> self]

Shell ==
  With(Printing("shell", CommandFields, 4), <<>>,
    {Prompt(user, named, self) :
      user \in {<<>>, Users}, named \in BOOLEAN,
      self \in {<<Thlibo>>,
                <<[InDir("/my", "my") EXCEPT !.open = TRUE], [InDir("bin/thlibo", "thlibo") EXCEPT !.close = TRUE]>>}})

MCOutputs ==
  [gotest |-> GoTest, gojson |-> GoTestJson, git |-> GitLog, panic |-> Panic, traceback |-> Traceback, dump |-> Dump,
   npm |-> Printing("npm", Lines(NpmKinds), 4), cargo |-> Printing("cargo", Lines(CargoKinds), 5),
   pytest |-> Session, rustc |-> Rustc, gcc |-> Gcc, mypy |-> Mypy, ruff |-> Ruff, eslint |-> Eslint, trivy |-> Scanner,
   log |-> Log, browser |-> Browser, service |-> Service, model |-> Answer, config |-> Config,
   paper |-> Paper, tagged |-> TaggedPaper, folders |-> Folders, shell |-> Shell]

-----------------------------------------------------------------------------

Text(must, says) ==
  [must |-> must, within |-> {}, fences |-> {}, ticks |-> {}, between |-> {}, says |-> says]

Value(key, style, size, must) == [key |-> key, style |-> style, size |-> size, text |-> Text(must, "all")]

File(front, yaml, docs) == [front |-> front, yaml |-> yaml, keyed |-> yaml, reads |-> TRUE, docs |-> docs]
Prose(text) ==
  [File(FALSE, FALSE, <<<<[key |-> "", style |-> "plain", size |-> "long", text |-> text]>>>>) EXCEPT !.reads = FALSE]

\* A Markdown file with a head of these keys.
Skill(keys, text) ==
  File(TRUE, FALSE, <<[n \in DOMAIN keys |-> Value(keys[n], "plain", "long", {})],
                      <<[Value("", "block", "long", {}) EXCEPT !.text = text]>>>>)

Directives == [Text({"NEVER", "v1.2"}, "all") EXCEPT !.fences = {"make"}, !.between = {"or"}]
Said(must, within, ticks) ==
  [Text(must, "terse") EXCEPT !.within = within, !.fences = {"make"}, !.ticks = ticks]

\* Plain prose with two directives and a block of code; one YAML document; two; a
\* Markdown file with a head.
MCFiles ==
  {Prose(Directives),
   File(FALSE, TRUE, <<<<Value("name", "plain", "long", {}), Value("description", "plain", "long", {"NEVER"}),
                         Value("note", "block", "medium", {})>>>>),
   File(FALSE, TRUE, <<<<Value("note", "block", "medium", {})>>, <<Value("name", "plain", "short", {})>>>>),
   Skill(<<"name", "description">>, Text({"NEVER"}, "all"))}

\* NEVER may become NEVERTHELESS.
MCAnswers ==
  {Text({"NEVER"}, "terse"), [Text({}, "terse") EXCEPT !.within = {"NEVER"}], [Text({"NEVER"}, "terse") EXCEPT !.ticks = {"new"}],
   Text({}, "nothing"), Already, Down}

MCRewrites ==
  {Prose(Said({"NEVER", "v1.2"}, {}, {"or"})), Prose(Said({"v1.2"}, {"NEVER"}, {})), Prose(Said({"v1.2"}, {}, {})),
   Prose(Text({"NEVER", "v1.2"}, "terse")), Prose(Said({"NEVER", "v1.2"}, {}, {"new"})),
   Skill(<<"name", "description">>, Text({"NEVER"}, "terse")), Skill(<<"name">>, Text({"NEVER"}, "terse"))}

NoTool == source = "gotest" /\ knob = 0 /\ input = <<>>

NoShorthand ==
  /\ written = (CHOOSE file \in MCFiles : file.front) /\ content = written /\ prior = written
  /\ orig = Absent /\ saved = {} /\ step = "off" /\ result = written /\ shorthands = 0

ToolsInit == (OutputInit /\ NoShorthand) \/ (ShorthandInit /\ NoTool)

ToolsNext ==
  \/ step = "off" /\ OutputNext /\ UNCHANGED shorthandVars
  \/ step # "off" /\ ShorthandNext /\ UNCHANGED outputVars

ToolsSpec == ToolsInit /\ [][ToolsNext]_<<outputVars, shorthandVars>>
=============================================================================
