----------------------------- MODULE TraceFilter -----------------------------
(* stacktrace-filter: of a long trace the first and the last frames stay, of *)
(* equal frames in a row one.  Everything that is not a frame is untouched.  *)
(*                                                                           *)
(* A line is <<kind, name>>: "start" opens a trace (an exception, a panic, a *)
(* goroutine), "frame" and "pyframe" are frames, the latter followed by a    *)
(* line of "code".  The output holds <<"line", i>>, <<"times", i, n>> and    *)
(* <<"omitted", n>>.                                                         *)
EXTENDS LineFilters

TraceKinds == {"start", "frame", "pyframe", "code", "blank", "text"}

\* The traces are the intervals from a line that opens one to the next such
\* line, cut at the first of two blank lines.
TraceStarts(input) == {i \in 1..Len(input) : Kind(input[i]) = "start"}

TraceEnd(input, start) ==
  LET limit == Min({j \in TraceStarts(input) : j > start} \cup {Len(input) + 1})
      IsGap(e) == Kind(input[e]) = "blank" /\ e + 1 < limit /\ Kind(input[e + 1]) = "blank"
  IN Min({e \in start + 1..limit - 1 : IsGap(e)} \cup {limit})

\* A unit is a line, or a Python frame with its line of code.
Units(input, from, end) ==
  LET Unit(i) ==
        [lines |-> <<Line(i)>>, text |-> <<input[i]>>,
         frame |-> Kind(input[i]) \in {"frame", "pyframe"}]
      Joined(unit, i) ==
        [unit EXCEPT !.lines = Append(@, Line(i)), !.text = Append(@, input[i])]
      Collect(units, i) ==
        IF Kind(input[i]) = "code" /\ i > from /\ Kind(input[i - 1]) = "pyframe"
        THEN Append(Front(units), Joined(Last(units), i))
        ELSE Append(units, Unit(i))
  IN FoldLeft(Collect, <<>>, [k \in 1..end - from |-> from + k - 1])

\* Three or more equal units in a row become one, marked with their number.
Tagged(unit, n) ==
  [unit EXCEPT !.lines = Append(Front(@), <<"times", Last(@)[2], n>>)]

Dedupe(units) ==
  LET Collect(runs, unit) ==
        IF runs # <<>> /\ Last(runs)[1].text = unit.text
        THEN Append(Front(runs), Append(Last(runs), unit))
        ELSE Append(runs, <<unit>>)
      Put(out, run) == IF Len(run) >= 3 THEN Append(out, Tagged(run[1], Len(run))) ELSE out \o run
  IN FoldLeft(Put, <<>>, FoldLeft(Collect, <<>>, units))

Flatten(units) == FoldLeft(LAMBDA out, unit : out \o unit.lines, <<>>, units)

IsFrame(unit) == unit.frame

\* Wrong on purpose: what follows the last frame is taken for frames.
WithoutTrailer(units, keep) ==
  LET first == SelectInSeq(units, IsFrame)
      n == Len(units)
  IN IF first = 0 \/ n - first + 1 <= 2 * keep + 1 THEN Flatten(units)
     ELSE Flatten(SubSeq(units, 1, first + keep - 1))
          \o <<<<"omitted", n - first + 1 - 2 * keep>>>> \o Flatten(SubSeq(units, n - keep + 1, n))

\* compressBlock: between the first and the last frame of the trace, all units
\* but the first keep and the last keep give way to their number.
Shortened(units, keep) ==
  LET first == SelectInSeq(units, IsFrame)
      last  == SelectLastInSeq(units, IsFrame)
      count == last - first + 1
  IN IF first = 0 \/ count <= 2 * keep + 1 THEN Flatten(units)
     ELSE Flatten(SubSeq(units, 1, first + keep - 1))
          \o <<<<"omitted", count - 2 * keep>>>>
          \o Flatten(SubSeq(units, last - keep + 1, Len(units)))

Trace(input, keep) ==
  LET starts == SetToSortSeq(TraceStarts(input), <)
      EndOf(n) == TraceEnd(input, starts[n])
      TextAfter(n) ==
        LET next == IF n = Len(starts) THEN Len(input) + 1 ELSE starts[n + 1]
        IN [k \in 1..next - EndOf(n) |-> Line(EndOf(n) + k - 1)]
      Block(n) == Shortened(Dedupe(Units(input, starts[n], EndOf(n))), keep) \o TextAfter(n)
      before == IF starts = <<>> THEN Len(input) ELSE starts[1] - 1
  IN [k \in 1..before |-> Line(k)] \o FlattenSeq([n \in DOMAIN starts |-> Block(n)])
=============================================================================
