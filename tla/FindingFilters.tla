--------------------------- MODULE FindingFilters ---------------------------
(* The filters that turn reports into one row per finding: lint-filter, over *)
(* the output of a linter, and trivy-filter, over the tables of a scan.      *)
(* Both leave the output alone if they find nothing, or if their rows take   *)
(* as much room; that is left out here.                                      *)
EXTENDS SequencesExt

-----------------------------------------------------------------------------
(* lint-filter.  A line is a record of its kind, the severity and the rule   *)
(* in it.  Rules are numbers in the order of their names, 0 is no rule.      *)
(*   "terse", "mypy"   a whole finding; the latter is in mypy's format       *)
(*   "opener", "ruff"  the head of a rustc or a ruff finding, if a "loc"     *)
(*                     line follows                                          *)
(*   "help", "note"    a suggestion, the rule of a rustc finding             *)
(*   "file", "row"     eslint's file heading and the findings below it       *)

\* lintSevRank does not know gcc's "fatal error".
SevRank == [error |-> 4, warning |-> 3, info |-> 2, note |-> 1, fatal |-> 0]

\* A rustc or gcc finding without a rule gets one named after its severity.
NoRule(sev) == 100 + SevRank[sev]

\* terseParse: without a rule, gcc's notes and all that mypy says are nothing.
TerseRule(line) ==
  IF line.rule = 0 /\ line.kind = "terse" /\ line.sev # "note" THEN NoRule(line.sev)
  ELSE line.rule

IsTerse(line) == line.kind \in {"terse", "mypy"} /\ TerseRule(line) # 0

Opens(lines, i, kind) ==
  lines[i].kind = kind /\ i < Len(lines) /\ lines[i + 1].kind = "loc"

\* A rustc or ruff block reaches up to the next head or terse finding; a rustc
\* block does not end at a ruff head.
EndsBlock(lines, j, opener) ==
  \/ Opens(lines, j, "opener") \/ IsTerse(lines[j])
  \/ opener = "ruff" /\ Opens(lines, j, "ruff")

BlockEnd(lines, i, opener) ==
  Min({j \in i + 2..Len(lines) : EndsBlock(lines, j, opener)} \cup {Len(lines) + 1})

\* The context of a terse finding: source, carets, blanks and one help line.
TerseEnd(lines, i) ==
  LET Goes(j) ==
        \/ lines[j].kind \in {"context", "blank"}
        \/ lines[j].kind = "help" /\ \A k \in i + 1..j - 1 : lines[k].kind # "help"
  IN Min({j \in i + 1..Len(lines) : ~Goes(j)} \cup {Len(lines) + 1})

Among(lines, from, end, kind) == {j \in from..end - 1 : lines[j].kind = kind}

Finding(i, sev, rule, helps) ==
  [at |-> i, sev |-> sev, rule |-> rule, help |-> helps # {}]

RustcRule(lines, i, end) ==
  LET notes == Among(lines, i + 2, end, "note")
  IN IF lines[i].rule # 0 THEN lines[i].rule
     ELSE IF notes # {} THEN lines[Min(notes)].rule ELSE NoRule(lines[i].sev)

\* parseVerbose: the findings from line i on; ruff names no severity.
Findings(lines) ==
  LET From[i \in 1..Len(lines) + 1] ==
        IF i > Len(lines) THEN <<>>
        ELSE LET end == BlockEnd(lines, i, lines[i].kind)
                 sev == lines[i].sev
                 Block(s, rule) == <<Finding(i, s, rule, Among(lines, i + 2, end, "help"))>>
             IN CASE Opens(lines, i, "opener") -> Block(sev, RustcRule(lines, i, end)) \o From[end]
                  [] Opens(lines, i, "ruff") -> Block("warning", lines[i].rule) \o From[end]
                  [] IsTerse(lines[i]) ->
                       LET after == TerseEnd(lines, i)
                       IN <<Finding(i, sev, TerseRule(lines[i]), Among(lines, i + 1, after, "help"))>>
                          \o From[after]
                  [] lines[i].kind = "row" /\ (\E f \in 1..i - 1 : lines[f].kind = "file") ->
                       <<Finding(i, sev, lines[i].rule, {})>> \o From[i + 1]
                  [] OTHER -> From[i + 1]
  IN From[1]

\* The rules, the most severe first, then the most frequent, then by name.
Rules(findings) ==
  LET With(rule) == {n \in DOMAIN findings : findings[n].rule = rule}
      Severity(rule) == Max({SevRank[findings[n].sev] : n \in With(rule)})
      Before(a, b) ==
        \/ Severity(a) > Severity(b)
        \/ Severity(a) = Severity(b) /\ Cardinality(With(a)) > Cardinality(With(b))
        \/ /\ Severity(a) = Severity(b) /\ Cardinality(With(a)) = Cardinality(With(b))
           /\ a < b
  IN SetToSortSeq({findings[n].rule : n \in DOMAIN findings}, Before)

Row(finding) ==
  IF finding.help THEN <<<<"row", finding.at>>, <<"help", finding.at>>>>
  ELSE <<<<"row", finding.at>>>>

\* Wrong on purpose: one finding left out is too few to be told.
OneMoreIsNone(rule, elided) == IF elided > 1 THEN <<<<"more", rule, elided>>>> ELSE <<>>

More(rule, elided) == IF elided > 0 THEN <<<<"more", rule, elided>>>> ELSE <<>>

\* emitTSV, with LINT_MAX_PER_RULE set to max; 0 is no limit.
EmitRule(findings, rule, max) ==
  LET OfRule(f) == f.rule = rule
      items == SelectSeq(findings, OfRule)
      kept == IF max # 0 /\ Len(items) > max THEN SubSeq(items, 1, max) ELSE items
  IN FlattenSeq([n \in DOMAIN kept |-> Row(kept[n])]) \o More(rule, Len(items) - Len(kept))

Lint(lines, max) ==
  LET findings == Findings(lines)
      order == Rules(findings)
  IN FlattenSeq([k \in DOMAIN order |-> EmitRule(findings, order[k], max)])

-----------------------------------------------------------------------------
(* trivy-filter.  A line of a table is a record of its kind, the columns in  *)
(* which its cells are filled, the severity there and whether its identifier *)
(* is one the filter knows; a finding holds for each column the line that    *)
(* filled it, or 0.  One finding may take several lines, and cells that      *)
(* repeat the line above are left empty.                                     *)
(*   "open", "close"  the first and the last line of a table                 *)
(*   "header"         the row that names the columns; without it the table   *)
(*                    is not one of findings                                 *)
(*   "sep", "row"     a line between rows, a row                             *)

TrivyRank == [CRITICAL |-> 5, HIGH |-> 4, LOW |-> 2]

\* The columns in the order of the header, which ends with the title.
TrivyColumns == <<"lib", "vuln", "sev", "installed", "fixed">>

NoFinding == [at |-> [c \in ToSet(TrivyColumns) |-> 0], titles |-> <<>>]

\* The cells of the first n columns are filled from the row.
MergeCells(cur, i, row, n) ==
  LET filled == ToSet(SubSeq(TrivyColumns, 1, n)) \cap row.cells
  IN [cur EXCEPT !.at = [c \in DOMAIN @ |-> IF c \in filled THEN i ELSE @[c]]]

AddTitle(cur, i, row) ==
  [cur EXCEPT !.titles = IF "title" \in row.cells THEN Append(@, i) ELSE @]

FreshFinding(i, row) ==
  AddTitle(MergeCells(NoFinding, i, row, Len(TrivyColumns)), i, row)

\* A finding without an identifier is forgotten.
FlushFinding(s) ==
  [s EXCEPT !.cur = NoFinding, !.open = FALSE,
            !.found = IF s.open /\ s.cur.at.vuln # 0 THEN Append(@, s.cur) ELSE @]

\* A row below the first of a finding fills, column by column, the cells that
\* are still empty, and its title goes on; at the first cell that is full
\* already the finding is done and the whole row begins another.
UpdateCurrent(s, i, row) ==
  LET IsFull(c) == c \in row.cells /\ s.cur.at[c] # 0
      full == SelectInSeq(TrivyColumns, IsFull)
      Merged(n) == [s EXCEPT !.cur = MergeCells(@, i, row, n)]
      Begun(t) == [FlushFinding(t) EXCEPT !.cur = FreshFinding(i, row), !.open = TRUE]
  IN IF ~s.open THEN Begun(s)
     ELSE IF full # 0 THEN Begun(Merged(full - 1))
     ELSE [Merged(Len(TrivyColumns)) EXCEPT !.cur = AddTitle(@, i, row)]

\* A separator ends the finding if the next row has an identifier.
TrivyStep(lines, s, i) ==
  LET k == lines[i].kind
      NextIsNew == i < Len(lines) /\ lines[i + 1].kind \in {"row", "header"} /\ "vuln" \in lines[i + 1].cells
  IN CASE s.mode = "outside" -> IF k = "open" THEN [s EXCEPT !.mode = "seeking"] ELSE s
       [] s.mode = "seeking" ->
            IF k = "header" THEN [s EXCEPT !.mode = "rows"]
            ELSE IF k = "text" THEN [s EXCEPT !.mode = "outside"] ELSE s
       [] s.mode = "rows" /\ k = "close" -> [FlushFinding(s) EXCEPT !.mode = "outside"]
       [] s.mode = "rows" /\ k \in {"sep", "open"} -> IF NextIsNew THEN FlushFinding(s) ELSE s
       [] s.mode = "rows" /\ k \in {"row", "header"} -> UpdateCurrent(s, i, lines[i])
       [] OTHER -> s

TrivyFindings(lines) ==
  LET Step(s, i) == TrivyStep(lines, s, i)
      start == [mode |-> "outside", cur |-> NoFinding, open |-> FALSE, found |-> <<>>]
  IN FlushFinding(FoldLeft(Step, start, [i \in 1..Len(lines) |-> i])).found

\* An empty library, severity or installed version is that of the finding before.
Inherited(found) ==
  LET Cell(f, last, c) ==
        IF f.at[c] = 0 /\ c \in {"lib", "sev", "installed"} THEN last.at[c] ELSE f.at[c]
      Inherit(rows, f) ==
        LET last == IF rows = <<>> THEN NoFinding ELSE Last(rows)
        IN Append(rows, [f EXCEPT !.at = [c \in DOMAIN @ |-> Cell(f, last, c)]])
  IN FoldLeft(Inherit, <<>>, found)

\* trivyEmitTSV: a finding whose identifier does not look like one is dropped.
\* The texts of the rows are taken to sort as their lines do.
Trivy(lines) ==
  LET IsKnown(f) == lines[f.at.vuln].known
      rows == SelectSeq(Inherited(TrivyFindings(lines)), IsKnown)
      Severity(n) == IF rows[n].at.sev = 0 THEN 0 ELSE TrivyRank[lines[rows[n].at.sev].sev]
      First(m, n) == Severity(m) > Severity(n) \/ (Severity(m) = Severity(n) /\ m < n)
      order == SetToSortSeq(DOMAIN rows, First)
  IN [n \in DOMAIN order |-> rows[order[n]]]
=============================================================================
