------------------------------ MODULE ModelText ------------------------------
(* What surrounds a call of the model: the reasoning that is stripped from   *)
(* its answer, and the configuration files that are kept from it.            *)
EXTENDS SequencesExt, Places

-----------------------------------------------------------------------------
(* Strip.  A text is a sequence of tokens: "<|channel>", "thought",          *)
(* "<channel|>", "space" and words.  A block opens with the first two.       *)

OpensAt(s, i) == i < Len(s) /\ s[i] = "<|channel>" /\ s[i + 1] = "thought"

\* The closing marker of the block at i, if it comes within limit tokens, else 0.
ClosesAt(s, i, limit) ==
  SelectInSubSeq(s, i + 2, Min({Len(s), i + 1 + limit}), LAMBDA t : t = "<channel|>")

\* Wrong on purpose: a block that is never closed takes the rest with it.
UnclosedTakesAll(s, limit) ==
  LET From[i \in 1..Len(s) + 1] ==
        IF i > Len(s) THEN <<>>
        ELSE IF ~OpensAt(s, i) THEN <<s[i]>> \o From[i + 1]
        ELSE IF ClosesAt(s, i, limit) # 0 THEN From[ClosesAt(s, i, limit) + 1]
        ELSE <<>>
  IN From[1]

\* A marker whose block is not closed in time is text like any other.
WithoutBlocks(s, limit) ==
  LET From[i \in 1..Len(s) + 1] ==
        IF i > Len(s) THEN <<>>
        ELSE IF ~OpensAt(s, i) THEN <<s[i]>> \o From[i + 1]
        ELSE IF ClosesAt(s, i, limit) # 0 THEN From[ClosesAt(s, i, limit) + 1]
        ELSE <<s[i], s[i + 1]>> \o From[i + 2]
  IN From[1]

\* Without a marker the text stays as it is, its leading blanks included.
Strip(s, limit) ==
  LET out == WithoutBlocks(s, limit)
      first == SelectInSeq(out, LAMBDA t : t # "space")
  IN IF ~\E i \in 1..Len(s) : OpensAt(s, i) THEN s
     ELSE IF first = 0 THEN <<>> ELSE SubSeq(out, first, Len(out))

-----------------------------------------------------------------------------
(* tomlDocument.  A line is known by what it can be taken for:               *)
(*   "blank"    nothing or a comment      "prose"  no assignment             *)
(*   "table"    a closed table header     "torn"   a header left open        *)
(*   "bare"     a key with a bare word    "number" a key and a number        *)
(*   "string"   a key and a string        "array"  a key, an array left open *)
(*   "multi"    a key, a string of several lines left open                   *)
(*   "]"        closes an array           "quotes" closes such a string      *)
(* Inside a value the lines are only searched for what closes it.            *)

TomlKinds ==
  {"blank", "prose", "table", "torn", "bare", "number", "string", "array", "multi", "]", "quotes"}

\* bracketDepth; a torn header "[a" opens a bracket as an array does.
Depth(line) == CASE line \in {"array", "torn"} -> 1 [] line = "]" -> -1 [] OTHER -> 0

\* Whether these lines close the brackets that they open.
AreClosed(lines) ==
  LET Add(depth, i, line) == depth + Depth(line) IN Scan(Add, 0, lines) <= 0

\* Wrong on purpose: a value's last line is read once more, as an entry.
ShortSpan(lines, i) ==
  LET ends == CASE lines[i] = "array" -> {j \in i + 1..Len(lines) : AreClosed(SubSeq(lines, i, j))}
                [] lines[i] = "multi" -> {j \in i + 1..Len(lines) : lines[j] \in {"quotes", "multi"}}
                [] OTHER -> {i}
  IN IF ends = {} THEN 0 ELSE Max({i, Min(ends) - 1})

\* tomlValueSpan: the last line of the value that begins in line i, 0 if none.
ValueEnd(lines, i) ==
  LET ends == CASE lines[i] = "array" -> {j \in i + 1..Len(lines) : AreClosed(SubSeq(lines, i, j))}
                [] lines[i] = "multi" -> {j \in i + 1..Len(lines) : lines[j] \in {"quotes", "multi"}}
                [] OTHER -> {i}
  IN IF ends = {} THEN 0 ELSE Min(ends)

\* What is known when the line next is to be read: whether every line was an
\* entry, how many were tables and pairs, and how many of these are no number.
NoLines == [ok |-> TRUE, next |-> 1, tables |-> 0, pairs |-> 0, quoted |-> 0]

TomlLine(t, i, lines) ==
  LET line == lines[i]
  IN IF ~t.ok \/ i < t.next THEN t
     ELSE CASE line = "blank" -> t
            [] line = "table" -> [t EXCEPT !.tables = @ + 1]
            [] line \in {"number", "string", "array", "multi"} /\ ValueEnd(lines, i) # 0 ->
                 [t EXCEPT !.next = ValueEnd(lines, i) + 1, !.pairs = @ + 1,
                           !.quoted = IF line = "number" THEN @ ELSE @ + 1]
            [] OTHER -> [t EXCEPT !.ok = FALSE]

Toml(lines) == LET Step(t, i, line) == TomlLine(t, i, lines) IN Scan(Step, NoLines, lines)

\* One table header is enough; without, two pairs, one of them no bare number.
TomlDocument(lines) ==
  LET t == Toml(lines) IN t.ok /\ (t.tables > 0 \/ (t.pairs >= 2 /\ t.quoted > 0))
=============================================================================
