---------------------------- MODULE PrintedText ----------------------------
(* A text grows line by line, or a model's answer token by token, and after  *)
(* each of them a filter is asked what it would make of it.  Here is what    *)
(* the filters that read line by line promise of such a text, what is kept   *)
(* of a model's answer, and what is known for a configuration file;          *)
(* CommandText adds the registry and the command line, ToolOutput the other  *)
(* filters.                                                                  *)
EXTENDS LineFilters, ModelText, Places

CONSTANT
  Outputs  \* for each source of text: [tool, lines, start, longest, knobs], the tool,
           \* the lines it may print, those it begins with, how many there may
           \* be, and the settings of its filter

\* The sources whose texts this module and CommandText are about.
LineTools ==
  {"go test", "go test -json", "pytest", "git", "npm", "cargo", "model", "config", "processors", "shell"}

VARIABLES
  source,  \* where the text comes from
  knob,    \* the filter's setting
  input    \* what was printed so far

\* What the author of a configuration file writes as one entry: a line, an array
\* up to the line that closes it, a string up to the next line with its quotes.
IsTomlEntry(entry) ==
  /\ entry \in Seq(TomlKinds) /\ entry # <<>>
  /\ entry[1] = "array" =>
       /\ Len(entry) > 1 /\ AreClosed(entry)
       /\ \A n \in 1..Len(entry) - 1 : ~AreClosed(SubSeq(entry, 1, n))
  /\ entry[1] = "multi" =>
       /\ Len(entry) > 1 /\ entry[Len(entry)] \in {"quotes", "multi"}
       /\ \A n \in 2..Len(entry) - 1 : entry[n] \notin {"quotes", "multi"}
  /\ entry[1] \notin {"array", "multi"} => Len(entry) = 1

\* A text begins with lines of its tool.  Of go test's every line has one of the
\* kinds its filter's table knows, the last of which is any other text; a header
\* of a diff names a file; a file consists of entries; and Strip's limit is a
\* number.
OutputsAssumption ==
  \A s \in DOMAIN Outputs :
    LET o == Outputs[s]
    IN /\ o.tool \in LineTools => o.start \in Seq(o.lines)
       /\ o.tool = "go test" => \A line \in o.lines : Kind(line) \in GoKinds
       /\ o.tool = "git" => \A line \in o.lines : Kind(line) = "diff" => Name(line) # ""
       /\ o.tool = "config" => \A line \in o.lines : IsTomlEntry(line)
       /\ o.tool = "model" => o.knobs \subseteq Nat

ASSUME OutputsAssumption

outputVars == <<source, knob, input>>

tool == Outputs[source].tool

OutputInit ==
  /\ source \in DOMAIN Outputs
  /\ knob \in Outputs[source].knobs
  /\ input = Outputs[source].start

PrintLine ==
  /\ Len(input) < Outputs[source].longest
  /\ \E line \in Outputs[source].lines : input' = Append(input, line)
  /\ UNCHANGED <<source, knob>>

\* The tool has ended.
OutputDone == Len(input) >= Outputs[source].longest /\ UNCHANGED outputVars

OutputNext == PrintLine \/ OutputDone

OutputSpec == OutputInit /\ [][OutputNext]_outputVars

-----------------------------------------------------------------------------

LinesOf(kinds) == {i \in 1..Len(input) : Kind(input[i]) \in kinds}

\* The lines of these kinds are in the output, each once and in their order.
KeepsAll(kinds, out) ==
  LET Is(entry) == entry[1] = "line" /\ Kind(input[entry[2]]) \in kinds
  IN Select(out, Is) = Select([i \in 1..Len(input) |-> Line(i)], Is)

\* The lines that tell of a failure, an error or a package's result.
GoVerdicts == {"fail", "ok", "pkgfail", "notest", "buildfail", "FAIL", "build", "panic"}

\* Each failing test of a -json stream is reported once, with all its output,
\* what came after the verdict included; each package's result is there.
EventsTold(out) ==
  LET failing == {Name(input[i]) : i \in {j \in LinesOf({"fail"}) : Name(input[j]) # ""}}
  IN /\ \A n \in DOMAIN out : out[n][1] \in {"failed", "line"} =>
          \A m \in DOMAIN out \ {n} : out[m] # out[n]
     /\ {out[n][2] : n \in {m \in DOMAIN out : out[m][1] = "failed"}} = failing
     /\ {out[n][2] : n \in {m \in DOMAIN out : out[m][1] = "line"}}
          = {i \in LinesOf({"output"}) : Name(input[i]) \in failing}
     /\ \A i \in LinesOf({"pass", "fail"}) :
          Name(input[i]) = "" => <<Kind(input[i]), Package(input[i])>> \in ToSet(out)

\* pytest says what it collected before any other section begins.
Collects ==
  \A i \in LinesOf({"session"}) : \E j \in LinesOf({"collected"}) :
    i < j /\ \A k \in i + 1..j - 1 : Kind(input[k]) \notin Sections

\* A pointer to the source stays with the error it belongs to.
PointersKept(out) ==
  \A i \in LinesOf({"pointer"}) :
    (i > 1 /\ Kind(input[i - 1]) = "problem") <=> Line(i) \in ToSet(out)

\* The headers of the diffs, each with the lines up to the next: a header that
\* is not understood or a commit ends a diff too, after its first hunk.
Diffs == LinesOf({"diff"})

\* Line i is in a hunk of the diff that begins in line d.
InHunk(d, i) == \E h \in d..i - 1 : Kind(input[h]) = "hunk"

EndsDiff(d, i) == i \in Diffs \/ (Kind(input[i]) \in {"odd diff", "commit"} /\ InHunk(d, i))

DiffEnd(d) == Min({i \in d + 1..Len(input) : EndsDiff(d, i)} \cup {Len(input) + 1})

Counted(d, kind) ==
  Cardinality({i \in d..DiffEnd(d) - 1 : Kind(input[i]) = kind /\ InHunk(d, i)})

\* What the output has of line i: of a diff its numbers, in the header's place.
Summary(i) ==
  IF i \in Diffs THEN <<"diff", Name(input[i]), Counted(i, "plus"), Counted(i, "minus")>>
  ELSE Line(i)

\* The lines in no diff that say something, and the diffs' headers.
Summarised ==
  Diffs \cup {i \in 1..Len(input) : /\ Kind(input[i]) \notin {"hint", "blank"}
                                    /\ \A d \in Diffs : i < d \/ DiffEnd(d) <= i}

\* The tokens that are part of the model's reasoning.
Reasoning ==
  UNION {i..ClosesAt(input, i, knob) :
    i \in {j \in 1..Len(input) : OpensAt(input, j) /\ ClosesAt(input, j, knob) # 0}}

\* The entries of a file as its author wrote them: of one or more lines each.
Has(entries) == {n \in DOMAIN input : input[n] \in entries}
PlainEntries == {<<"blank">>, <<"table">>}
NoEntries == {<<kind>> : kind \in {"prose", "bare", "torn", "]", "quotes"}}
PairEntries == ToSet(input) \ (PlainEntries \cup NoEntries)

-----------------------------------------------------------------------------
(* Properties.                                                               *)

\* However sections, tests and packages interleave, no filter of a test run
\* loses a line that says what failed or how a package ended (goTestFilter,
\* cargoFilter, npmFilter, pytestFilter).
VerdictsKept ==
  CASE tool = "go test" -> KeepsAll(GoVerdicts, GoTestText(input))
    [] tool = "go test -json" -> EventsTold(GoTestJSON(input))
    [] tool = "cargo" ->
         KeepsAll({"problem", "state", "test"}, Cargo(input)) /\ PointersKept(Cargo(input))
    [] tool = "npm" -> KeepsAll(NpmKnown, Npm(input))
    [] tool = "pytest" -> Collects => KeepsAll({"failed summary", "FAILURES"}, Pytest(input))
    [] OTHER -> TRUE

\* Each diff of a commit is summarised once, in its place, with the lines of its
\* own hunks and of no other; what is in no diff stays, and nothing else but
\* blank lines is there (gitFilter).
DiffsCounted ==
  tool = "git" =>
    LET Says(entry) == ~IsBlank(entry, input)
    IN Select(Git(input), Says) = AtPlaces([i \in 1..Len(input) |-> Summary(i)], Summarised)

\* The answer is what the model said outside its reasoning, all of it and in
\* order, also when blocks are nested, torn or longer than Strip looks (Strip).
AnswerSurvives ==
  tool = "model" =>
    LET left == AtPlaces(input, DOMAIN input \ Reasoning)
        first == SelectInSeq(left, LAMBDA t : t # "space")
    IN Strip(input, knob) =
         IF ~\E i \in 1..Len(input) : OpensAt(input, i) THEN input
         ELSE IF first = 0 THEN <<>> ELSE SubSeq(left, first, Len(left))

\* A configuration file is known by its entries, whatever the values that take
\* several lines look like inside (tomlDocument).
ConfigsKnown ==
  tool = "config" =>
    (TomlDocument(FlattenSeq(input)) <=>
      /\ Has(NoEntries) = {}
      /\ \/ Has({<<"table">>}) # {}
         \/ /\ Cardinality(Has(PairEntries)) >= 2
            /\ Has(PairEntries \ {<<"number">>}) # {})
=============================================================================
