----------------------------- MODULE LineFilters -----------------------------
(* The native filters that read a tool's output line by line and drop what   *)
(* an assistant does not need: go test, pytest, git, npm and cargo.          *)
(*                                                                           *)
(* A line is a pair: its kind, which is what the filter's regular            *)
(* expressions tell apart, and the name in it (a test, a file, a notice).    *)
(* The output is a sequence of                                               *)
(*   <<"line", i>>           line i of the input                             *)
(*   <<"diff", file, p, m>>  git's summary of one file's diff                *)
(*   <<"skipped", n>>        go test's count of skipped tests                *)
EXTENDS Places, SequencesExt

Kind(line) == line[1]
Name(line) == line[2]

Line(i) == <<"line", i>>

IsBlank(entry, input) == entry[1] = "line" /\ Kind(input[entry[2]]) = "blank"

WithoutLastBlanks(out, input) ==
  LET Says(entry) == ~IsBlank(entry, input)
  IN SubSeq(out, 1, SelectLastInSeq(out, Says))

\* A blank line is kept unless the output is empty or ends in one already.
KeepOneBlank(s, i, input) ==
  IF s.out = <<>> \/ IsBlank(Last(s.out), input) THEN s ELSE [s EXCEPT !.out = Append(@, Line(i))]

-----------------------------------------------------------------------------
(* go test, text output.                                                     *)

GoKinds ==
  {"run", "fail", "pass", "skip", "ok", "pkgfail", "notest", "buildfail", "PASS", "FAIL",
   "build", "panic", "blank", "text"}

\* A package's verdict ends whatever was being buffered.
PackageVerdict == {"ok", "pkgfail", "notest", "buildfail"}

\* A compile error or a panic is copied up to a line of one of these kinds.
SectionEnd == [build |-> {"blank", "pkgfail", "buildfail"}, panic |-> {"pkgfail", "buildfail", "ok"}]

GoStart == [section |-> "none", inTest |-> FALSE, buf |-> <<>>, skipped |-> 0, out |-> <<>>]

\* One line outside a section.  What a test printed is buffered from its
\* === RUN on; only --- FAIL or a package's verdict puts it out.
GoLine(s, i, line) ==
  LET k == Kind(line)
      Done == [s EXCEPT !.buf = <<>>, !.inTest = FALSE]
  IN CASE k \in {"build", "panic"} -> [s EXCEPT !.section = k, !.out = Append(@, Line(i))]
       [] k = "run"  -> [s EXCEPT !.inTest = TRUE, !.buf = <<>>]
       [] k = "fail" -> [Done EXCEPT !.out = Append(@ \o s.buf, Line(i))]
       [] k = "pass" -> Done
       [] k = "skip" -> [Done EXCEPT !.skipped = @ + 1]
       [] k \in PackageVerdict -> [Done EXCEPT !.out = Append(@ \o s.buf, Line(i))]
       [] k = "PASS" -> [s EXCEPT !.buf = <<>>]
       [] k = "FAIL" -> [s EXCEPT !.out = Append(@, Line(i))]
       [] k = "blank" -> s
       [] k = "text" -> IF s.inTest THEN [s EXCEPT !.buf = Append(@, Line(i))]
                        ELSE [s EXCEPT !.out = Append(@, Line(i))]

\* Wrong on purpose: the line that ends a section is taken for part of it.
SwallowsTheVerdict(s, i, line) ==
  IF s.section = "none" THEN GoLine(s, i, line)
  ELSE IF Kind(line) \in SectionEnd[s.section] THEN [s EXCEPT !.section = "none"]
       ELSE [s EXCEPT !.out = Append(@, Line(i))]

\* The line that ends a section is read again, as a line outside it.
GoStep(s, i, line) ==
  IF s.section # "none" /\ Kind(line) \notin SectionEnd[s.section]
  THEN [s EXCEPT !.out = Append(@, Line(i))]
  ELSE GoLine([s EXCEPT !.section = "none"], i, line)

GoTestText(input) ==
  LET s == Scan(GoStep, GoStart, input)
      count == IF s.skipped > 0 THEN <<<<"skipped", s.skipped>>>> ELSE <<>>
  IN WithoutLastBlanks(s.out \o s.buf \o count, input)

-----------------------------------------------------------------------------
(* pytest.                                                                   *)

PytestKinds ==
  {"FAILURES", "warnings", "session", "section", "collected", "progress", "failed summary",
   "blank", "text"}

Sections == {"FAILURES", "warnings", "session", "section", "failed summary"}

HasFailures(input) ==
  \E i \in 1..Len(input) :
    \/ i > 1 /\ Kind(input[i]) = "FAILURES"
    \/ Kind(input[i]) = "failed summary"

PytestStart == [mode |-> "outside", progress |-> FALSE, blank |-> FALSE, out |-> <<>>]

\* What a line that opens a section does to the lines after it.  After "test
\* session starts" all is dropped until pytest says what it collected, the
\* sections that may begin before that included.
OpenSection(s, i, k, failed) ==
  CASE k = "session" -> [s EXCEPT !.mode = "starting", !.blank = FALSE, !.out = Append(@, Line(i))]
    [] k = "warnings" /\ ~failed -> [s EXCEPT !.mode = "dropped", !.blank = FALSE]
    [] k = "warnings" /\ failed ->
         [s EXCEPT !.mode = "kept", !.blank = FALSE, !.out = Append(@, Line(i))]
    [] k = "FAILURES" ->
         [s EXCEPT !.mode = "kept", !.progress = FALSE, !.blank = FALSE, !.out = Append(@, Line(i))]
    [] OTHER -> [s EXCEPT !.mode = "kept", !.out = Append(@, Line(i))]

\* A line outside all sections: the dots are dropped, blank lines compacted.
PytestLine(s, i, k) ==
  CASE k = "collected" ->
         [s EXCEPT !.mode = "outside", !.progress = TRUE, !.blank = FALSE, !.out = Append(@, Line(i))]
    [] k = "progress" /\ s.progress -> s
    [] k = "blank" -> [s EXCEPT !.blank = TRUE, !.out = IF s.blank THEN @ ELSE Append(@, Line(i))]
    [] OTHER -> [s EXCEPT !.blank = FALSE, !.out = Append(@, Line(i))]

PytestStep(s, i, k, failed) ==
  CASE s.mode = "starting" /\ k # "collected" -> s
    [] s.mode # "starting" /\ k \in Sections -> OpenSection(s, i, k, failed)
    [] s.mode = "kept" /\ k \notin Sections -> [s EXCEPT !.out = Append(@, Line(i))]
    [] s.mode = "dropped" /\ k \notin Sections -> s
    [] OTHER -> PytestLine(s, i, k)

\* Without a section it is no pytest output and passes through.
Pytest(input) ==
  LET Step(s, i, line) == PytestStep(s, i, Kind(line), HasFailures(input))
  IN IF \E i \in 1..Len(input) : Kind(input[i]) \in Sections
     THEN Scan(Step, PytestStart, input).out
     ELSE [i \in 1..Len(input) |-> Line(i)]

-----------------------------------------------------------------------------
(* go test -json: a line is an event, the name that of its test.  The        *)
(* package is the event's third part; a package's own events have no test.   *)

JsonKinds == {"output", "fail", "pass", "skip"}
Package(event) == event[3]

\* The first failure of a test name puts the test out; a later failure of the
\* same name, in another package, only that package.
FirstFailures(events) ==
  {i \in 1..Len(events) :
    /\ Kind(events[i]) = "fail" /\ Name(events[i]) # ""
    /\ \A j \in 1..i - 1 : ~(Kind(events[j]) = "fail" /\ Name(events[j]) = Name(events[i]))}

\* Wrong on purpose: what a test printed counts only up to its failure.
OutputSoFar(events, i) ==
  {j \in 1..i : Kind(events[j]) = "output" /\ Name(events[j]) = Name(events[i])}

OutputOf(events, i) ==
  {j \in 1..Len(events) : Kind(events[j]) = "output" /\ Name(events[j]) = Name(events[i])}

\* The numbers of these events, in their order.
InOrder(events, numbers) == AtPlaces([i \in 1..Len(events) |-> i], numbers)

GoTestJSON(events) ==
  LET failures == FirstFailures(events)
      Report(i) ==
        LET lines == InOrder(events, OutputOf(events, i))
        IN <<<<"failed", Name(events[i])>>>> \o [n \in DOMAIN lines |-> Line(lines[n])]
      skipped == Cardinality({i \in 1..Len(events) : Kind(events[i]) = "skip" /\ Name(events[i]) # ""})
      IsResult(i) ==
        \/ Kind(events[i]) = "fail" /\ i \notin failures
        \/ Kind(events[i]) = "pass" /\ Name(events[i]) = ""
      results == InOrder(events, {i \in 1..Len(events) : IsResult(i)})
      order == InOrder(events, failures)
  IN FlattenSeq([n \in DOMAIN order |-> Report(order[n])])
     \o (IF skipped > 0 THEN <<<<"skipped", skipped>>>> ELSE <<>>)
     \o [n \in DOMAIN results |-> <<Kind(events[results[n]]), Package(events[results[n]])>>]

-----------------------------------------------------------------------------
(* git.  Of a diff only the number of added and removed lines is put out.    *)

GitKinds ==
  {"hint", "diff", "odd diff", "hunk", "plus", "minus", "commit", "blank", "text"}

GitStart == [file |-> "", hunk |-> FALSE, plus |-> 0, minus |-> 0, out |-> <<>>]

\* flushDiff.
Flush(s) ==
  IF s.file = "" THEN s
  ELSE [GitStart EXCEPT !.out = Append(s.out, <<"diff", s.file, s.plus, s.minus>>)]

GitKeep(s, i, line, input) ==
  IF Kind(line) # "blank" THEN [s EXCEPT !.out = Append(@, Line(i))]
  ELSE IF s.out # <<>> /\ IsBlank(Last(s.out), input) THEN s
  ELSE [s EXCEPT !.out = Append(@, Line(i))]

\* A line while a diff is open.  Before its first hunk everything is dropped,
\* a commit line and a header that is not understood included.
InDiff(s, i, line, input) ==
  LET k == Kind(line)
  IN CASE k = "hunk" -> [s EXCEPT !.hunk = TRUE]
       [] s.hunk /\ k = "plus"  -> [s EXCEPT !.plus = @ + 1]
       [] s.hunk /\ k = "minus" -> [s EXCEPT !.minus = @ + 1]
       [] s.hunk /\ k \in {"odd diff", "commit"} -> GitKeep(Flush(s), i, line, input)
       [] OTHER -> s

GitStep(s, i, line, input) ==
  CASE Kind(line) = "hint" -> s
    [] Kind(line) = "diff" -> [Flush(s) EXCEPT !.file = Name(line)]
    [] Kind(line) \notin {"hint", "diff"} /\ s.file # "" -> InDiff(s, i, line, input)
    [] OTHER -> GitKeep(s, i, line, input)

\* Wrong on purpose: the last diff is not put out at the end of the input.
GitWithoutFlush(input) ==
  LET Step(s, i, line) == GitStep(s, i, line, input)
  IN WithoutLastBlanks(Scan(Step, GitStart, input).out, input)

Git(input) ==
  LET Step(s, i, line) == GitStep(s, i, line, input)
  IN WithoutLastBlanks(Flush(Scan(Step, GitStart, input)).out, input)

-----------------------------------------------------------------------------
(* npm and cargo keep the lines of the kinds they know and drop the rest.    *)

NpmKinds == {"problem", "notice", "counts", "severity", "package", "branch", "comment", "blank", "text"}
NpmKnown == {"problem", "counts", "severity", "package", "branch", "comment"}

NpmStep(s, i, line, input) ==
  LET k == Kind(line)
  IN CASE k = "blank" -> KeepOneBlank(s, i, input)
       [] k = "notice" /\ Name(line) \notin s.seen ->
            [s EXCEPT !.seen = @ \cup {Name(line)}, !.out = Append(@, Line(i))]
       [] k \in NpmKnown -> [s EXCEPT !.out = Append(@, Line(i))]
       [] OTHER -> s

Npm(input) ==
  LET Step(s, i, line) == NpmStep(s, i, line, input)
  IN WithoutLastBlanks(Scan(Step, [seen |-> {}, out |-> <<>>], input).out, input)

CargoKinds == {"compiling", "state", "problem", "pointer", "test", "blank", "text"}

\* A --> line is kept only right after the error or the warning it belongs to.
CargoStep(s, i, line, input) ==
  LET k == Kind(line)
      Keep(pointer) == [s EXCEPT !.pointer = pointer, !.out = Append(@, Line(i))]
  IN CASE k = "problem" -> Keep(TRUE)
       [] k \in {"state", "test"} -> Keep(FALSE)
       [] k = "pointer" /\ s.pointer -> Keep(FALSE)
       [] k = "blank" -> [KeepOneBlank(s, i, input) EXCEPT !.pointer = FALSE]
       [] OTHER -> [s EXCEPT !.pointer = FALSE]

Cargo(input) ==
  LET Step(s, i, line) == CargoStep(s, i, line, input)
  IN WithoutLastBlanks(Scan(Step, [pointer |-> FALSE, out |-> <<>>], input).out, input)
=============================================================================
