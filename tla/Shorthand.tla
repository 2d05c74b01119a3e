------------------------------ MODULE Shorthand ------------------------------
(* thlibo shorthand: a file of instructions is rewritten by the model, in    *)
(* place or on its way to the disk (the write hook), and a checklist decides *)
(* whether the rewrite is used.                                              *)
(*                                                                           *)
(* A text is known by what the checklist looks for: must, the directives,    *)
(* paths, versions and numbers it finds there as words of their own; within, *)
(* those that only stand inside a longer word, as NEVER does in              *)
(* NEVERTHELESS; fences, the blocks of code; ticks, the words it finds in    *)
(* backticks; between, those that stand between two backticks which belong   *)
(* to other words; says, whose wording it is.  A file is a sequence of       *)
(* documents, each a sequence of scalars [key, style, size, text]; yaml says *)
(* that its name ends so, front that it begins with ---, keyed that it       *)
(* begins with a key, reads that it can be read as YAML.  A file of plain    *)
(* prose is one document of one scalar without a key.                        *)
EXTENDS Integers, SequencesExt

CONSTANTS
  Instructions,   \* the files the user may have written
  Answers,        \* what the model may answer for a scalar: texts, Already or Down
  Rewrites,       \* what it may answer for a whole file: files, besides
  ShorthandRuns   \* how many runs

VARIABLES
  content,   \* the file: a file, or Unfinished while a write is not finished
  orig,      \* the file beside it, <file>.orig: a file, Unfinished or Absent
  saved,     \* what the write hook put aside under cases/shorthand
  written,   \* the last text the user wrote
  prior,     \* what the file held when the last run in place began
  step,      \* "idle", or the step the run in place is at
  result,    \* what the run in place is going to write
  shorthands \* the runs so far

shorthandVars == <<content, orig, saved, written, prior, step, result, shorthands>>

Unfinished == [torn |-> TRUE]
Absent == [absent |-> TRUE]
Already == [already |-> TRUE]
Down == [down |-> TRUE]
Nothing == [nothing |-> TRUE]

-----------------------------------------------------------------------------
(* The checklist, and what it is applied to.                                 *)

Texts(file) == UNION {{file.docs[d][n].text : n \in DOMAIN file.docs[d]} : d \in DOMAIN file.docs}
Keys(file, d) == {file.docs[d][n].key : n \in DOMAIN file.docs[d]}

\* frontmatterKeys: only a block that is closed by a second --- counts.
HasFront(file) == file.front /\ Len(file.docs) >= 2

\* What strings.Contains finds: a word wherever it stands.
Contained(text) == text.must \cup text.within
BetweenTicks(text) == text.ticks \cup text.between

\* Wrong on purpose: the checklist accepts what mentions any of the words.
AnyWordWillDo(old, new) ==
  /\ old.must = {} \/ old.must \cap Contained(new) # {}
  /\ old.fences \subseteq new.fences /\ new.ticks \subseteq BetweenTicks(old)

\* Evaluate, on the words: nothing that must survive is gone, if only as a part of
\* a longer word, no block of code, and no word in backticks is new.
Survives(old, new) ==
  /\ old.must \subseteq Contained(new)
  /\ old.fences \subseteq new.fences
  /\ new.ticks \subseteq BetweenTicks(old)

Words(file) ==
  [must    |-> UNION {t.must : t \in Texts(file)},
   within  |-> UNION {t.within : t \in Texts(file)},
   fences  |-> UNION {t.fences : t \in Texts(file)},
   ticks   |-> UNION {t.ticks : t \in Texts(file)},
   between |-> UNION {t.between : t \in Texts(file)}]

\* The head of a Markdown file has all its keys.
FrontSurvives(old, new) == HasFront(old) => HasFront(new) /\ Keys(old, 1) \subseteq Keys(new, 1)

\* Evaluate, on a whole file.
DocumentSurvives(old, new) == Survives(Words(old), Words(new)) /\ FrontSurvives(old, new)

-----------------------------------------------------------------------------
(* The rewrite.                                                              *)

\* isProseScalar: names and lists of identifiers are never rewritten, nor a text
\* without a key; a block of text from 80 characters on is, a plain scalar of
\* several words from 120 on.
Structural == {"", "name", "match", "commands"}

IsProse(scalar) ==
  /\ scalar.key \notin Structural
  /\ scalar.size = "long" \/ (scalar.style = "block" /\ scalar.size = "medium")

Unchanged(file) == [file |-> file, already |-> FALSE, safe |-> FALSE]
AsItIs(file) == [file |-> file, already |-> TRUE, safe |-> TRUE]

\* Compress: the model is given the whole file, whatever it holds, and answers
\* with a whole file.
Compress(file, answer) ==
  LET new == [answer EXCEPT !.yaml = file.yaml]
  IN IF answer = Already THEN AsItIs(file)
     ELSE IF answer = Nothing \/ ~DocumentSurvives(file, new) THEN Unchanged(file)
     ELSE [file |-> new, already |-> FALSE, safe |-> TRUE]

IsText(answer) == answer \notin {Already, Down}

\* The scalars of the first document that the model rewrote well, an empty answer
\* for a text without words to keep included.  Of a file of several documents,
\* yaml.Unmarshal reads the first.
Rewritten(file, answers) ==
  {n \in DOMAIN file.docs[1] :
    /\ IsProse(file.docs[1][n]) /\ IsText(answers[n])
    /\ Survives(file.docs[1][n].text, answers[n])}

\* A scalar the model failed at, or whose rewrite the checklist refuses.
Failed(file, answers) ==
  {n \in DOMAIN file.docs[1] :
    /\ IsProse(file.docs[1][n]) /\ n \notin Rewritten(file, answers)
    /\ answers[n] # Already}

\* CompressYAML: what was read is written again, with the rewritten scalars in
\* it.  One failure, at a scalar or in the whole, and all rewrites are dropped.
CompressYAML(file, answers) ==
  LET good == Rewritten(file, answers)
      doc == [n \in DOMAIN file.docs[1] |->
               IF n \in good THEN [file.docs[1][n] EXCEPT !.text = answers[n]] ELSE file.docs[1][n]]
      new == [front |-> FALSE, yaml |-> file.yaml, keyed |-> file.keyed \/ file.front,
              reads |-> file.reads, docs |-> <<doc>>]
  IN IF good = {} THEN AsItIs(file)
     ELSE IF Failed(file, answers) # {} \/ ~DocumentSurvives(file, new) THEN Unchanged(file)
     ELSE [file |-> new, already |-> FALSE, safe |-> TRUE]

\* IsYAMLContent, and what goes by the name of the file.
LooksLikeYAML(file) == file.yaml \/ file.front \/ file.keyed

\* The mode of a run in place, --yaml: on, off, or by the looks of the file.
Mode(yaml, file) == CASE yaml = "on" -> TRUE [] yaml = "off" -> FALSE [] yaml = "auto" -> LooksLikeYAML(file)

Wording ==
  [must : SUBSET STRING, within : SUBSET STRING, fences : SUBSET STRING,
   ticks : SUBSET STRING, between : SUBSET STRING, says : STRING]
Scalars == [key : STRING, style : {"plain", "block"}, size : {"short", "medium", "long"}, text : Wording]
Shape ==
  [front : BOOLEAN, yaml : BOOLEAN, keyed : BOOLEAN, reads : BOOLEAN, docs : Seq(Seq(Scalars)) \ {<<>>}]

ASSUME ShorthandAssumption ==
  /\ Instructions \subseteq Shape
  /\ Answers \subseteq Wording \cup {Already, Down}
  /\ Rewrites \subseteq Shape
  /\ ShorthandRuns \in Nat

\* Of YAML the model is given each text that is prose, else the whole file.
AnswersFor(file, asYAML) ==
  IF asYAML THEN [{n \in DOMAIN file.docs[1] : IsProse(file.docs[1][n])} -> Answers]
  ELSE Rewrites \cup {Already, Down, Nothing}

\* What cannot be read as YAML fails the run, and so does the daemon if it is down
\* in the one call for a whole file.
RunFails(file, asYAML, answers) == IF asYAML THEN ~file.reads ELSE answers = Down

ResultOf(file, asYAML, answers) ==
  IF asYAML THEN CompressYAML(file, answers) ELSE Compress(file, answers)

-----------------------------------------------------------------------------

ShorthandInit ==
  /\ written \in Instructions
  /\ content = written /\ orig = Absent /\ saved = {} /\ prior = written
  /\ step = "idle" /\ result = written /\ shorthands = 0

AtRest == step = "idle" /\ content # Unfinished /\ shorthands < ShorthandRuns

\* shorthand --in-place: the model is asked.  If that fails nothing is written.
Rewrite ==
  /\ AtRest
  /\ shorthands' = shorthands + 1
  /\ \E yaml \in {"auto", "on", "off"} :
       LET asYAML == Mode(yaml, content)
       IN \E answers \in AnswersFor(content, asYAML) :
            IF RunFails(content, asYAML, answers) THEN UNCHANGED <<step, result, prior>>
            ELSE /\ step' = "backup"
                 /\ result' = ResultOf(content, asYAML, answers).file
                 /\ prior' = content
  /\ UNCHANGED <<content, orig, saved, written>>

\* Wrong on purpose: the new content is written before the backup.
WriteFileFirst ==
  /\ \/ step = "backup" /\ content' = Unfinished /\ step' = "file" /\ UNCHANGED orig
     \/ step = "backing up" /\ orig' = prior /\ step' = "idle" /\ UNCHANGED content
  /\ UNCHANGED <<saved, written, prior, result, shorthands>>

\* Of what is read, --in-place first makes the backup, also of a text that will
\* not change.
Backup ==
  /\ \/ step = "backup" /\ orig' = Unfinished /\ step' = "backing up"
     \/ step = "backing up" /\ orig' = prior /\ step' = "file"
  /\ UNCHANGED <<content, saved, written, prior, result, shorthands>>

\* Then the file is truncated and written.
WriteFile ==
  /\ \/ step = "file" /\ content' = Unfinished /\ step' = "writing"
     \/ step = "writing" /\ content' = result /\ step' = "idle"
  /\ UNCHANGED <<orig, saved, written, prior, result, shorthands>>

\* The process dies, or a write fails.
RewriteDies ==
  /\ step # "idle" /\ step' = "idle"
  /\ UNCHANGED <<content, orig, saved, written, prior, result, shorthands>>

\* The assistant writes the file and the write hook rewrites what is written, if
\* all went well; the original is put aside, if that works.
HookWrites(text, asYAML, answers, kept) ==
  LET res == ResultOf(text, asYAML, answers)
  IN IF RunFails(text, asYAML, answers) \/ ~res.safe \/ res.already
     THEN content' = text /\ saved' = saved
     ELSE content' = res.file /\ saved' = IF kept THEN saved \cup {text} ELSE saved

\* Unless auto_shorthand_yaml_prose is set, YAML is given to the model as prose is.
WriteHook ==
  /\ AtRest
  /\ shorthands' = shorthands + 1
  /\ \E text \in Instructions, yamlProse \in BOOLEAN, kept \in BOOLEAN :
       LET asYAML == yamlProse /\ LooksLikeYAML(text)
       IN \E answers \in AnswersFor(text, asYAML) :
            written' = text /\ HookWrites(text, asYAML, answers, kept)
  /\ prior' = content'
  /\ UNCHANGED <<orig, step, result>>

\* Nothing more to do: the runs are used up, or a torn file waits for its user.
ShorthandDone ==
  /\ step = "idle" /\ (shorthands = ShorthandRuns \/ content = Unfinished)
  /\ UNCHANGED shorthandVars

ShorthandNext ==
  Rewrite \/ Backup \/ WriteFile \/ RewriteDies \/ WriteHook \/ ShorthandDone

ShorthandSpec == ShorthandInit /\ [][ShorthandNext]_shorthandVars

-----------------------------------------------------------------------------
(* Properties.                                                               *)

\* After however many runs, every block of code the user wrote is in the file, and
\* the head of a Markdown file has every key that it had.
StructureSurvives ==
  content # Unfinished =>
    /\ Words(written).fences \subseteq Words(content).fences
    /\ FrontSurvives(written, content)

\* Whatever is written, by a run in place or by the write hook and whatever the
\* model answers: every directive, path and number of the text it was made from is
\* in it, if only within a longer word, and no word in backticks is new.  Blocks of
\* code and the keys of the head, which are compared whole, survive any number of
\* runs; a directive need not survive two, since what stands within a longer word
\* is no directive to the second (Evaluate, Result.Safe, and CompressYAML's check
\* of the whole where each scalar passed).
DirectivesSurvive ==
  /\ [][content' # content /\ content' # Unfinished =>
          LET from == IF step = "writing" THEN prior ELSE written'
          IN /\ Words(from).must \subseteq Contained(Words(content'))
             /\ Words(content').ticks \subseteq BetweenTicks(Words(from))]_shorthandVars
  /\ []StructureSurvives

\* Wherever a run in place is interrupted, what the file held before is in the
\* file or beside it, whole (Run: "write .orig first, then the new content").
PriorIsKept == prior \in {content, orig}
=============================================================================
