----------------------------- MODULE ToolOutput -----------------------------
(* What the native filters promise of whatever a tool prints: those for logs *)
(* with traces, reports, records and documents (PrintedText has those that   *)
(* read line by line, CommandText the registry that picks them).             *)
(*                                                                           *)
(* The filters are defined in the modules this one extends, by reading the   *)
(* lines from left to right as the code does; the properties here say which  *)
(* lines, counts and findings must be in the result, without reading from    *)
(* left to right.                                                            *)
EXTENDS CommandText, TraceFilter, FindingFilters, RecordFilters, CordonFilter, PdfText

\* The frames of the trace that line i is in, and the lines they span.
TraceOf(i) ==
  LET starts == {s \in TraceStarts(input) : s <= i /\ i < TraceEnd(input, s)}
  IN IF starts = {} THEN {}
     ELSE {f \in LinesOf({"frame", "pyframe"}) :
             Max(starts) <= f /\ f < TraceEnd(input, Max(starts))}

AmongFrames(i) ==
  LET last == Max(TraceOf(i))
  IN /\ TraceOf(i) # {} /\ Min(TraceOf(i)) <= i
     /\ i <= last \/ (i = last + 1 /\ Kind(input[last]) = "pyframe" /\ Kind(input[i]) = "code")

\* The lines in the output, those marked as repeated included.
Shown(out) ==
  LET Numbers(ns, e) == IF e[1] = "omitted" THEN ns ELSE Append(ns, e[2])
  IN FoldLeft(Numbers, <<>>, out)

\* Only what stands from the first to the last frame of a trace, or repeats the
\* line above it, can be missing, and not silently; of a trace short enough to
\* be shown whole every frame is there once at least.
MiddleOnly(out) ==
  LET shown == Shown(out)
      Repeated(i) == i > 1 /\ input[i - 1] = input[i]
      Copied(f) == \E g \in TraceOf(f) \cap ToSet(shown) : input[g] = input[f]
      Span(i) == Max(TraceOf(i)) - Min(TraceOf(i)) + 1
  IN /\ \A i \in 1..Len(input) : ~AmongFrames(i) /\ ~Repeated(i) => i \in ToSet(shown)
     /\ \A n \in 1..Len(shown) - 1 : shown[n] < shown[n + 1]
     /\ \A i \in TraceStarts(input) : TraceOf(i) # {} =>
          /\ Min(TraceOf(i)) \in ToSet(shown)
          /\ Copied(Max(TraceOf(i)))
          /\ Span(i) <= 2 * knob + 1 => \A f \in TraceOf(i) : Copied(f)
     /\ (\E i \in 1..Len(input) : i \notin ToSet(shown)) =>
          \E n \in DOMAIN out : out[n][1] \in {"omitted", "times"}

\* The lines at which a linter's finding begins; one linter prints one format.
\* What has no rule counts if gcc calls it a warning or an error.
Heads ==
  {i \in 1..Len(input) :
    \/ input[i].kind \in {"terse", "mypy"} /\ input[i].rule # 0
    \/ input[i].kind = "terse" /\ input[i].sev # "note"
    \/ Opens(input, i, "opener") \/ Opens(input, i, "ruff")
    \/ input[i].kind = "row" /\ \E f \in 1..i - 1 : input[f].kind = "file"}

OfSort(out, sort) == {n \in DOMAIN out : out[n][1] = sort}

\* Every finding has a row or is counted at its rule, and the first rule has a
\* finding as severe as any.
LintTold(out) ==
  LET rows == {out[n][2] : n \in OfSort(out, "row")}
      found == Findings(input)
      Top(sevs) == Max({SevRank[s] : s \in sevs})
      firstRule == {found[n].rule : n \in {m \in DOMAIN found : found[m].at = out[1][2]}}
  IN /\ rows \subseteq Heads
     /\ Cardinality(OfSort(out, "row")) = Cardinality(rows)
     /\ Cardinality(rows) + MapThenSumSet(LAMBDA n : out[n][3], OfSort(out, "more"))
          = Cardinality(Heads)
     /\ Heads # {} =>
          Top({IF input[i].kind = "ruff" THEN "warning" ELSE input[i].sev : i \in Heads})
            = Top({found[n].sev : n \in {m \in DOMAIN found : found[m].rule \in firstRule}})

\* The vulnerabilities of the table, each with the last library and the last
\* severity named at or above it, and the title down to the next one.
TableEnd == Min({i \in 1..Len(input) : input[i].kind = "close"} \cup {Len(input) + 1})
TableRows == {i \in 1..TableEnd - 1 : input[i].kind = "row"}
Filled(column) == {i \in TableRows : column \in input[i].cells}
Vulnerable == Filled("vuln")
NextVulnerable(v) == Min({w \in Vulnerable : w > v} \cup {TableEnd})
LastNamed(lines) == Max(lines \cup {0})

\* The next vulnerability names a library, on a line that no separator parts from
\* this one, which names none: the code takes it for this one's.
TakesNext(v) ==
  LET next == NextVulnerable(v)
  IN next \in Filled("lib") /\ input[next - 1].kind # "sep" /\ Filled("lib") \cap (v..next - 1) = {}

\* A cell other than the title is filled again up to line i: what follows is
\* taken for another finding, one without an identifier.
Broken(v, i) ==
  \E c \in ToSet(TrivyColumns) : \E a, b \in Filled(c) \cap (v..i) : a # b

\* Above v is a separator, or the unbroken finding before it.
Parted(v) ==
  \/ input[v - 1].kind # "row"
  \/ \E w \in Vulnerable : w < v /\ NextVulnerable(w) = v /\ ~Broken(w, v - 1)

TableTold(out) ==
  LET Told == {v \in Vulnerable : input[v].known}
      Library(v) == LastNamed({i \in Filled("lib") : i <= v})
      Graded(v)  == LastNamed({i \in Filled("sev") : i <= v})
  IN /\ (\A v \in Vulnerable : Parted(v)) => Len(out) = Cardinality(Told)
     /\ \A v \in Told : \E n \in DOMAIN out :
          /\ out[n].at.vuln = v
          /\ TakesNext(v) \/ out[n].at.lib = Library(v)
          /\ out[n].at.sev = Graded(v)
          /\ \A i \in Filled("title") :
               v <= i /\ i < NextVulnerable(v) /\ ~Broken(v, i) => i \in ToSet(out[n].titles)

\* The plain values anywhere in a JSON value.
RECURSIVE Leaves(_)
Leaves(v) ==
  CASE v[1] = "leaf" -> {v[2]}
    [] OTHER -> UNION {Leaves(v[2][k]) : k \in DOMAIN v[2]}

\* Every record is in one row of its own level, the error rows first.
LogCounted(out) ==
  LET records == OfKind(input, "json")
      At(n) == Level(input[out.rows[n].at])
      Total(level) == MapThenSumSet(LAMBDA n : out.rows[n].count,
                                    {n \in DOMAIN out.rows : At(n) = level})
  IN /\ \A i \in records :
          Total(Level(input[i])) = Cardinality({j \in records : Level(input[j]) = Level(input[i])})
     /\ \A m, n \in DOMAIN out.rows : m < n => Rank(At(m)) >= Rank(At(n))
     /\ OfKind(input, "text") \subseteq ToSet(out.rest)

\* Every request is listed or counted as dropped, and nothing the input has
\* under a secret name is there; "hidden" stands for such values.
RequestsCounted(out) ==
  ~out.raw =>
    /\ out.kept + out.dropped = Len(input)
    /\ \A n \in DOMAIN out.rows :
         /\ \A f \in DOMAIN out.rows[n].request : "hidden" \notin Leaves(out.rows[n].request[f][2])
         /\ out.rows[n].response # <<>> => "hidden" \notin Leaves(out.rows[n].response)

\* The tag tree: the element or, for the top, 0 that an element is below.
Elements == DOMAIN knob.tree.elements
KidsOf(p) == IF p = 0 THEN knob.tree.top ELSE knob.tree.elements[p].kids
ParentOf(e) == Min({p \in Elements \cup {0} : <<"element", e>> \in ToSet(KidsOf(p))})

\* How an element is read: in the "walk", as part of a "table", "flat" with all
\* that is below it, or, outside the rows and cells of a table, not at all.  Its
\* depth counts from the top or from the cell.  Elements are numbered so that
\* the first to name another has a smaller number.
Reading ==
  LET Named(e, page) == IF knob.tree.elements[e].page > 0 THEN knob.tree.elements[e].page ELSE page
      Below(p, above, e) ==
        LET role == knob.tree.elements[e].role
            parent == knob.tree.elements[p]
            how == IF above.how = "flat" \/ (above.how = "walk" /\ parent.role = "block") THEN "flat"
                   ELSE IF above.how = "walk" /\ parent.role # "Table" THEN "walk"
                   ELSE IF above.how = "lost" \/ parent.lone THEN "lost"
                   ELSE IF parent.role = "TR" THEN IF role = "cell" THEN "flat" ELSE "lost"
                   ELSE IF role \in {"TR", "rows"} THEN "table" ELSE "lost"
            depth == IF above.how = "table" /\ how = "flat" THEN 0 ELSE above.depth + 1
        IN [how   |-> IF depth > knob.depth /\ role # "TR" THEN "lost" ELSE how,
            depth |-> depth,
            page  |-> Named(e, above.page)]
      At[e \in Elements] ==
        IF ParentOf(e) = 0 THEN [how |-> "walk", depth |-> 0, page |-> Named(e, 1)]
        ELSE Below(ParentOf(e), At[ParentOf(e)], e)
  IN At

\* The elements that name this marked content and are read.
Claims(mark) ==
  LET reading == Reading
      Names(e, kid) == kid[1] = "mark" /\ kid[2] = mark[2]
                         /\ mark[1] = (IF kid[3] = 0 THEN reading[e].page ELSE kid[3])
      Speaks(e) == \/ reading[e].how = "flat"
                   \/ reading[e].how = "walk" /\ knob.tree.elements[e].role # "Table"
  IN {<<e, n>> \in Elements \X (1..3) :
       Speaks(e) /\ n \in DOMAIN KidsOf(e) /\ Names(e, KidsOf(e)[n])}

MarkedText ==
  UNION {{<<p, input[p].lines[i].mark>> : i \in {j \in Written(input[p]) : input[p].lines[j].mark # 0}}
          : p \in 1..Len(input)}

\* The marked text that the tree claims is there as often as it does, and no
\* other; a page that says nothing is told of; and where there is no tree every
\* line of a page is there, except, on a page with others, those that three
\* fifths of four or more pages have.
PagesTold(out) ==
  LET shown == 1..Min({Len(input), knob.cap})
      IsEntry(n, e) == e.page = n
      Of(n) == SelectSeq(out.pages, LAMBDA e : IsEntry(n, e))
      Pages(word) == {p \in shown : \E i \in Written(input[p]) : input[p].lines[i].word = word}
      Recurs(line) == ~line.long /\ Cardinality(shown) >= 4
                        /\ 10 * Cardinality(Pages(line.word)) >= 6 * Cardinality(shown)
      claimed == {m \in MarkedText : knob.tree.tagged /\ Claims(m) # {}}
      silent(n) == Written(input[n]) = {} \/ (input[n].few /\ input[n].images)
  IN ~out.verbatim =>
       /\ ToSet(out.structure) = claimed
       /\ \A m \in claimed : Cardinality({n \in DOMAIN out.structure : out.structure[n] = m})
                              = Cardinality(Claims(m))
       /\ \A n \in shown : silent(n) => Len(Of(n)) = 1 /\ Of(n)[1].kind # "text"
       /\ claimed = {} /\ (\A e \in Elements : knob.tree.elements[e].role # "TR") =>
            \A n \in shown : \A i \in Written(input[n]) :
              \/ i \in ToSet(Of(n)[1].lines)
              \/ Recurs(input[n].lines[i]) /\ \E j \in Written(input[n]) : ~Recurs(input[n].lines[j])
       /\ out.cut <=> Len(input) > knob.cap
       /\ out.lowValue => claimed = {} /\ \A n \in shown : silent(n)

-----------------------------------------------------------------------------
(* Properties.                                                               *)

\* Of a log with traces in it nothing is left out but what stands between the
\* first and the last frame of a trace, which are both there, and repeats of the
\* line above; the order stays, and if lines are missing the output says so.  Of
\* a PDF without tags only running headers are left out, and what a tag tree
\* claims is told once, on its own page, even if the tree is cyclic
\* (stacktraceFilter, pdfFilter, StructuredMarkdown).
TextSurvives ==
  CASE tool = "trace" -> MiddleOnly(Trace(input, knob))
    [] tool = "pdf" -> PagesTold(PdfText(input, knob))
    [] OTHER -> TRUE

\* No finding with a rule, or with an identifier the filter knows, disappears:
\* it has its row or it is counted.  In a table of a scan it is given the library
\* and the severity that the table names only once for several of them, but if
\* the next one names its library on the very next line; and it has its title as
\* far as no other cell goes on (lintFilter, trivyFilter).
FindingsTold ==
  CASE tool = "lint" -> LintTold(Lint(input, knob))
    [] tool = "trivy" -> TableTold(Trivy(input))
    [] OTHER -> TRUE

\* Grouped records add up, and the secrets in them are masked at whatever depth
\* they are (ndjsonFilter, harFilter).
RecordsTold ==
  CASE tool = "ndjson" -> LogCounted(Ndjson(input))
    [] tool = "har" -> RequestsCounted(Har(input))
    [] OTHER -> TRUE

\* The one line that is unlike all others is reported if a window covers it;
\* what is reported is in exactly one group; and if any request to the daemon
\* failed the text stays as it is (cordonFilter).
RareIsReported ==
  tool = "cordon" =>
    LET lines == NonBlank(input)
        s == knob.settings
        out == Cordon(input, s, knob.fault, knob.order)
        windows == Len(Sample(WindowStarts(lines, s), s.max))
        Odd(i) == \A j, k \in DOMAIN lines \ {i} :
                    lines[j].weight = lines[k].weight /\ lines[i].weight # lines[j].weight
        Covered(i) == s.stride = s.size /\ windows >= 3 /\ i <= windows * s.size
    IN /\ knob.fault \in {"batch 1", "short", "late"} => out.verbatim
       /\ knob.fault = "batch 2" /\ windows > s.batch => out.verbatim
       /\ ~out.verbatim =>
            /\ out.flagged # {} /\ out.total = Len(lines)
            /\ \A i \in out.flagged : Cardinality({n \in DOMAIN out.groups : i \in out.groups[n].lines}) = 1
            /\ \A n \in DOMAIN out.groups : \A i \in out.groups[n].lines :
                 i \in out.flagged /\ lines[i].sig = out.groups[n].sig
            /\ \A i \in DOMAIN lines : Odd(i) /\ Covered(i) /\ Len(WindowStarts(lines, s)) = windows
                 => i \in out.flagged
=============================================================================
