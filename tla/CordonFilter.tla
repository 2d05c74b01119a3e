---------------------------- MODULE CordonFilter ----------------------------
(* cordon-filter: the unusual parts of a log.  The log is cut into           *)
(* overlapping windows, each is turned into a vector by the daemon, and the  *)
(* windows that are far from all others are reported, grouped by signature.  *)
(*                                                                           *)
(* A line is [sig, level, weight]; a blank one has the signature "".  The    *)
(* daemon's vector of a window is the sum of the weights: what matters is    *)
(* only which windows lie near each other.  settings are the CORDON_*        *)
(* variables; fault is what goes wrong with the daemon or the clock:         *)
(*   "none", "batch 1" or "batch 2" (that request fails), "short" (too few   *)
(*   vectors), "late" (the time is over while scoring).                      *)
EXTENDS SequencesExt

Verbatim == [verbatim |-> TRUE]

CordonRank == [error |-> 5, warn |-> 4, info |-> 3, unknown |-> 0]

NonBlank(lines) == LET Says(l) == l.sig # "" IN SelectSeq(lines, Says)

\* The first lines of the windows.
WindowStarts(lines, settings) ==
  LET count == IF Len(lines) < settings.size THEN 0
               ELSE (Len(lines) - settings.size) \div settings.stride + 1
  IN [n \in 1..count |-> (n - 1) * settings.stride + 1]

\* cordonSample: every step-th window when there are too many.
Sample(starts, max) ==
  IF max <= 0 \/ Len(starts) <= max THEN starts
  ELSE [n \in 1..max |-> starts[((n - 1) * Len(starts)) \div max + 1]]

WindowLines(lines, start, settings) == start..Min({start + settings.size - 1, Len(lines)})

Vector(lines, start, settings) ==
  MapThenSumSet(LAMBDA i : lines[i].weight, WindowLines(lines, start, settings))

\* Wrong on purpose: only the first request to the daemon is looked at.
FirstBatch(count, settings, fault) == fault \in {"batch 1", "short"}

\* cordonEmbedAll: one request per batch; if any of them fails, or answers with
\* too few vectors, all do.
EmbedFails(count, settings, fault) ==
  LET batches == (count + settings.batch - 1) \div settings.batch
  IN \/ fault \in {"batch 1", "short"}
     \/ fault = "batch 2" /\ batches >= 2

Distance(a, b) == IF a > b THEN a - b ELSE b - a

\* cordonKNNScores: the distances to the k nearest, which all windows share the
\* divisor of.
Score(vectors, n, k) ==
  LET others == DOMAIN vectors \ {n}
      Nearer(a, b) ==
        LET da == Distance(vectors[a], vectors[n])
            db == Distance(vectors[b], vectors[n])
        IN da < db \/ (da = db /\ a < b)
      near == SetToSortSeq(others, Nearer)
      count == Min({k, Len(near)})
  IN MapThenSumSet(LAMBDA m : Distance(vectors[near[m]], vectors[n]), 1..count)

\* Wrong on purpose: a percentage of few windows may be none at all.
TopWithoutMinimum(count, percent) == (count * percent) \div 100

TopCount(count, percent) == Max({1, Min({count, (count * percent) \div 100})})

\* The windows with the highest scores, the earlier first where scores agree.
Ranked(scores, percent) ==
  LET Higher(a, b) == scores[a] > scores[b] \/ (scores[a] = scores[b] /\ a < b)
      order == SetToSortSeq(DOMAIN scores, Higher)
  IN {order[n] : n \in 1..TopCount(Len(scores), percent)}

\* cordonFormatGroups: one group per signature, with the level of its first
\* line; severity first, then frequency, then the signature.
Groups(lines, flagged, sigRank) ==
  LET sigs == {lines[i].sig : i \in flagged}
      Of(sig) == {i \in flagged : lines[i].sig = sig}
      LevelOf(sig) == lines[Min(Of(sig))].level
      Before(a, b) ==
        LET ra == CordonRank[LevelOf(a)]
            rb == CordonRank[LevelOf(b)]
            ca == Cardinality(Of(a))
            cb == Cardinality(Of(b))
        IN ra > rb \/ (ra = rb /\ (ca > cb \/ (ca = cb /\ sigRank[a] < sigRank[b])))
      order == SetToSortSeq(sigs, Before)
  IN [n \in DOMAIN order |->
       [sig |-> order[n], level |-> LevelOf(order[n]), lines |-> Of(order[n])]]

\* cordonFilter.
Cordon(input, settings, fault, sigRank) ==
  LET lines  == NonBlank(input)
      starts == Sample(WindowStarts(lines, settings), settings.max)
      vectors == [n \in DOMAIN starts |-> Vector(lines, starts[n], settings)]
      scores == [n \in DOMAIN starts |-> Score(vectors, n, settings.k)]
      flagged == UNION {WindowLines(lines, starts[n], settings) : n \in Ranked(scores, settings.percent)}
  IN IF Len(lines) < 2 * settings.size THEN Verbatim
     ELSE IF Len(WindowStarts(lines, settings)) < 2 THEN Verbatim
     ELSE IF EmbedFails(Len(starts), settings, fault) \/ fault = "late" THEN Verbatim
     ELSE [verbatim |-> FALSE, flagged |-> flagged, groups |-> Groups(lines, flagged, sigRank),
           total |-> Len(lines)]
=============================================================================
