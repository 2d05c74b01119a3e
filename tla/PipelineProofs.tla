--------------------------- MODULE PipelineProofs ---------------------------
(* Proofs about Pipeline for every set of processors, every registry, every  *)
(* input and every chain length: its state is well typed, it implements      *)
(* FailOpen, and its safety invariants hold; and about thlibo exec and       *)
(* thlibo compress for every policy, every child and everything the          *)
(* middleware may do (Exec).  The middleware within the commands is Pipeline,*)
(* step for step; so what is proved of Pipeline carries over, and the rest   *)
(* is about who ran, and who answers.                                        *)
EXTENDS Exec, SequenceTheorems, TLAPS

\* What a processor answers is a text, and either the text it was given or one
\* that says no more than its bytes hold (Answers, for every kind).
LEMMA AnswersAreTexts ==
  ASSUME NEW d, NEW t \in Text, NEW r \in Answers(d, t)
  PROVE  /\ r \in Text
         /\ r # t => r.lines <= r.bytes
<1>1. ASSUME NEW m \in Makes(t)
      PROVE  m \in Text /\ (m # t => m.lines <= m.bytes)
  <2>1. CASE m = t
    BY <2>1
  <2>2. CASE m # t
    <3>1. PICK s \in Sizes :
            m = [src |-> IF Blank(t) THEN "conjured" ELSE "made",
                 bytes |-> s.bytes, lines |-> s.lines]
      BY <2>2 DEF Makes
    <3>2. s \in [bytes : Nat, lines : Nat] /\ s.lines <= s.bytes
      BY InputAssumption
    <3> QED
      BY <3>1, <3>2 DEF Text
  <2> QED
    BY <2>1, <2>2
<1>2. CASE d \in Native
  <2>1. PICK m \in Makes(t) : r = Shorter(m, t)
    BY <1>2 DEF Answers
  <2>2. r = t \/ r = m
    BY <2>1 DEF Shorter
  <2> QED
    BY <1>1, <2>2
<1>3. CASE d \notin Native
  BY <1>1, <1>3 DEF Answers
<1> QED
  BY <1>2, <1>3

\* What is read of a text is a text of at most ReadLimit bytes.
LEMMA AsReadIsText ==
  ASSUME NEW t \in Text
  PROVE  AsRead(t) \in Text /\ AsRead(t).bytes <= ReadLimit
BY DEF AsRead, Text, ReadLimit

\* A chain the router lets through is a sequence of processors.
LEMMA ParsedChain ==
  ASSUME NEW names \in Replies, ParseRouteResult(names) # <<>>, reg \subseteq Processors
  PROVE  /\ ParseRouteResult(names) \in Seq(Processors)
         /\ Len(ParseRouteResult(names)) \in Nat \ {0}
<1>1. PICK n \in 0..MaxChain : names \in [1..n -> Processors \cup Strangers]
  BY DEF Replies
<1>2. /\ ParseRouteResult(names) = names
      /\ \A i \in DOMAIN names : names[i] \in RoutableNames
  BY DEF ParseRouteResult
<1>3. n \in Nat
  BY <1>1, InputAssumption
<1>4. names \in [1..n -> Processors]
  BY <1>1, <1>2 DEF RoutableNames
<1>5. names \in Seq(Processors)
  BY <1>3, <1>4, SeqDef
<1>6. Len(names) # 0
  BY <1>2, <1>5, EmptySeq
<1> QED
  BY <1>2, <1>5, <1>6

\* Behind a processor that is not the last there is another one.
LEMMA NextOfChain ==
  ASSUME NEW S, NEW c \in Seq(S), NEW i \in 1..Len(c), i < Len(c)
  PROVE  i + 1 \in 1..Len(c) /\ i + 1 \in 0..Len(c) /\ c[i + 1] \in S
<1>1. i \in Nat /\ Len(c) \in Nat
  OBVIOUS
<1>2. i + 1 \in 1..Len(c) /\ i + 1 \in 0..Len(c)
  BY <1>1
<1>3. c[i + 1] \in S
  BY <1>2, ElementOfSeq
<1> QED
  BY <1>2, <1>3

-----------------------------------------------------------------------------
(* Typing, action by action.                                                 *)

\* A label never names a user's processor.
LEMMA LabelType ==
  ASSUME TypeOK, pc \in {"run", "cordon"}
  PROVE  ChainLabel \in Builtin \cup {"", "user", "chain", "cordon-filter"}
BY DEF TypeOK, ChainLabel, Label

\* Ending an invocation with a text and a well-formed record keeps the types.
LEMMA ReturnKeepsType ==
  ASSUME TypeOK, NEW t \in Text,
         NEW p \in {"", "short_circuit", "passthrough", "fast_path", "router"},
         NEW o \in {"", "passthrough", "compressed", "fallback"},
         NEW l \in Builtin \cup {"", "user", "chain", "cordon-filter"},
         NEW f \in {"", "timeout", "inferd_unreachable", "empty_output",
                    "script_error", "router_error"},
         Return(t, p, o, l, f), err' \in Errors
  PROVE  TypeOK'
BY DEF Return, TypeOK, Invocations, PCs

LEMMA PassthroughKeepsType ==
  ASSUME TypeOK,
         NEW p \in {"", "short_circuit", "passthrough", "fast_path", "router"},
         Passthrough(p)
  PROVE  TypeOK'
<1>1. raw \in Text /\ err' \in Errors
  BY DEF TypeOK, Passthrough
<1>2. Return(raw, p, "passthrough", "", "")
  BY DEF Passthrough
<1> QED
  BY <1>1, <1>2, ReturnKeepsType

LEMMA FallBackKeepsType ==
  ASSUME TypeOK, NEW e \in Errors,
         NEW p \in {"", "short_circuit", "passthrough", "fast_path", "router"},
         NEW l \in Builtin \cup {"", "user", "chain", "cordon-filter"},
         NEW f \in {"", "timeout", "inferd_unreachable", "empty_output",
                    "script_error", "router_error"},
         FallBack(e, p, l, f)
  PROVE  TypeOK'
<1>1. raw \in Text /\ err' \in Errors
  BY DEF TypeOK, FallBack
<1>2. Return(raw, p, "fallback", l, f)
  BY DEF FallBack
<1> QED
  BY <1>1, <1>2, ReturnKeepsType

\* The steps of decide: a text read, passed through, claimed or routed.
LEMMA DecideKeepsType ==
  ASSUME TypeOK, Decide
  PROVE  TypeOK'
<1>1. CASE ShortCircuit
  BY <1>1, PassthroughKeepsType DEF ShortCircuit
<1>2. CASE NoProcessors
  BY <1>2, PassthroughKeepsType DEF NoProcessors
<1>3. CASE BinaryPassthrough
  BY <1>3, PassthroughKeepsType DEF BinaryPassthrough
<1>4. CASE StructuredPassthrough
  BY <1>4, PassthroughKeepsType DEF StructuredPassthrough
<1>5. CASE NothingRoutable
  BY <1>5, PassthroughKeepsType DEF NothingRoutable
<1>6. CASE FastPath
  <2>1. PICK d \in Hits : chain' = <<d>> /\ ran' = {d}
    BY <1>6 DEF FastPath
  <2>2. d \in Processors
    BY <2>1 DEF Hits, TypeOK
  <2>3. chain' \in Seq(Processors) /\ Len(chain') = 1
    BY <2>1, <2>2
  <2>4. /\ pc = "decide" /\ pc' = "run" /\ k' = 1 /\ cur' = raw /\ waited' = 0
        /\ path' = "fast_path"
        /\ UNCHANGED <<reg, input, raw, asked, err, inv, out>>
    BY <1>6 DEF FastPath, Considered
  <2>5. k' \in 1..Len(chain') /\ k' \in 0..Len(chain') /\ waited' \in Nat
    BY <2>3, <2>4
  <2> QED
    BY <2>1, <2>2, <2>3, <2>4, <2>5 DEF TypeOK, PCs, Empty
<1>7. CASE AskRouter
  BY <1>7 DEF AskRouter, Unclaimed, Considered, TypeOK, PCs
<1> QED
  BY <1>1, <1>2, <1>3, <1>4, <1>5, <1>6, <1>7 DEF Decide

\* The ends of the routing call.
LEMMA RouterKeepsType ==
  ASSUME TypeOK, RouterDeclines \/ RouterNames \/ RouterFails \/ RouterTimesOut
  PROVE  TypeOK'
<1>1. CASE RouterDeclines
  BY <1>1, PassthroughKeepsType DEF RouterDeclines
<1>2. CASE RouterNames
  <2>1. PICK names \in Replies : /\ ParseRouteResult(names) # <<>>
                                 /\ chain' = ParseRouteResult(names)
    BY <1>2 DEF RouterNames
  <2>2. chain' \in Seq(Processors) /\ Len(chain') \in Nat \ {0}
    BY <2>1, ParsedChain DEF TypeOK
  <2>3. chain'[1] \in Processors
    BY <2>2
  <2>4. /\ pc = "route" /\ pc' = "run" /\ k' = 1 /\ cur' = raw /\ waited' = 0
        /\ ran' = {chain'[1]}
        /\ UNCHANGED <<reg, input, raw, path, asked, err, inv, out>>
    BY <1>2 DEF RouterNames
  <2>5. k' \in 1..Len(chain') /\ k' \in 0..Len(chain') /\ waited' \in Nat
    BY <2>2, <2>4
  <2> QED
    BY <2>2, <2>3, <2>4, <2>5 DEF TypeOK, PCs, Empty
<1>3. CASE RouterFails
  <2>1. PICK e \in {"notready", "other"} :
          FallBack(e, "router", "", RouterFailReason(e))
    BY <1>3 DEF RouterFails
  <2>2. RouterFailReason(e) \in {"inferd_unreachable", "router_error"}
    BY <2>1 DEF RouterFailReason
  <2> QED
    BY <2>1, <2>2, FallBackKeepsType DEF Errors
<1>4. CASE RouterTimesOut
  BY <1>4, FallBackKeepsType DEF RouterTimesOut, RouterFailReason, Errors
<1> QED
  BY <1>1, <1>2, <1>3, <1>4

\* The processor that runs is an installed one, its text is a text.
LEMMA Running ==
  ASSUME TypeOK, pc = "run"
  PROVE  chain[k] \in Processors /\ cur \in Text /\ path \in
           {"", "short_circuit", "passthrough", "fast_path", "router"}
<1>1. chain \in Seq(Processors) /\ k \in 1..Len(chain)
  BY DEF TypeOK
<1>2. chain[k] \in Processors
  BY <1>1
<1> QED
  BY <1>2 DEF TypeOK

\* The answers and the failures of the processors that run.
LEMMA StageKeepsType ==
  ASSUME TypeOK, Stage \/ StageFails \/ StageTimesOut
  PROVE  TypeOK'
<1> pc = "run"
  BY DEF Stage, NextStage, AnswerEmpty, AnswerKept, TurnToCordon, StageFails, StageTimesOut
<1> USE Running, LabelType
<1>1. CASE NextStage
  <2>1. cur' \in Text
    BY <1>1, AnswersAreTexts DEF NextStage
  <2>4. chain \in Seq(Processors) /\ k \in 1..Len(chain)
    BY DEF TypeOK
  <2>2. k' = k + 1 /\ k < Len(chain)
    BY <1>1 DEF NextStage
  <2>3. k + 1 \in 1..Len(chain) /\ k + 1 \in 0..Len(chain)
    BY <2>2, <2>4, NextOfChain
  <2>5. chain[k + 1] \in Processors
    BY <2>2, <2>4, NextOfChain
  <2>6. /\ pc' = "run" /\ waited' = 0 /\ ran' = ran \cup {chain[k + 1]}
        /\ UNCHANGED <<reg, input, raw, path, chain, asked, err, inv, out>>
    BY <1>1 DEF NextStage
  <2>7. k' \in 1..Len(chain)' /\ k' \in 0..Len(chain)'
    BY <2>2, <2>3, <2>6
  <2> QED
    BY <2>1, <2>5, <2>6, <2>7 DEF TypeOK, PCs, Empty
<1>2. CASE AnswerEmpty
  BY <1>2, FallBackKeepsType DEF AnswerEmpty, DispatchFailReason, Errors
<1>3. CASE AnswerKept
  <2>1. PICK r \in Answers(chain[k], cur) :
          Return(r, path, "compressed", ChainLabel, "")
    BY <1>3 DEF AnswerKept
  <2>2. r \in Text
    BY <2>1, AnswersAreTexts
  <2>3. err' \in Errors
    BY <1>3 DEF AnswerKept, TypeOK
  <2> QED
    BY <2>1, <2>2, <2>3, ReturnKeepsType
<1>4. CASE TurnToCordon
  <2>1. cur' \in Text
    BY <1>4, AnswersAreTexts DEF TurnToCordon
  <2>2. reg \cap Cordon \subseteq Processors
    BY DEF TypeOK
  <2>3. pc' = "cordon" /\ k' = k /\ chain' = chain /\ ~Empty(cur')
    BY <1>4 DEF TurnToCordon
  <2> QED
    BY <1>4, <2>1, <2>2, <2>3 DEF TurnToCordon, TypeOK, PCs, Empty
<1>5. CASE StageFails
  <2>1. PICK e \in Failures(chain[k]) :
          FallBack(e, path, ChainLabel, DispatchFailReason(e))
    BY <1>5 DEF StageFails
  <2>2. e \in {"notready", "other", "worded"}
    BY <2>1 DEF Failures
  <2>3. DispatchFailReason(e) \in {"timeout", "inferd_unreachable", "script_error"}
    BY <2>2 DEF DispatchFailReason
  <2> QED
    BY <2>1, <2>2, <2>3, FallBackKeepsType DEF Errors
<1>6. CASE StageTimesOut
  <2>1. FallBack(Expiry(chain[k]), path, ChainLabel, DispatchFailReason(Expiry(chain[k])))
    BY <1>6 DEF StageTimesOut
  <2>2. Expiry(chain[k]) \in {"timedout", "deadline"}
    BY DEF Expiry
  <2>3. DispatchFailReason(Expiry(chain[k])) = "timeout"
    BY <2>2 DEF DispatchFailReason
  <2> QED
    BY <2>1, <2>2, <2>3, FallBackKeepsType DEF Errors
<1> QED
  BY <1>1, <1>2, <1>3, <1>4, <1>5, <1>6 DEF Stage

\* The ends of the cordon detour.
LEMMA CordonKeepsType ==
  ASSUME TypeOK, CordonStep \/ CordonFails
  PROVE  TypeOK'
<1> pc = "cordon" /\ cur \in Text /\ raw \in Text /\ err \in Errors
  BY DEF CordonStep, CordonWins, CordonLoses, CordonFails, TypeOK
<1>1. CASE KeepNdjson
  <2>1. Return(cur, "fast_path", "compressed", ChainLabel, "") /\ err' \in Errors
    BY <1>1 DEF KeepNdjson
  <2> QED
    BY <2>1, LabelType, ReturnKeepsType
<1>2. CASE CordonWins
  <2>1. PICK c \in reg \cap Cordon : \E r \in Answers(c, raw) :
          Return(r, "fast_path", "compressed", "cordon-filter", "")
    BY <1>2 DEF CordonWins
  <2>2. PICK r \in Answers(c, raw) :
          Return(r, "fast_path", "compressed", "cordon-filter", "")
    BY <2>1
  <2>3. r \in Text
    BY <2>2, AnswersAreTexts
  <2>4. err' \in Errors
    BY <1>2 DEF CordonWins
  <2> QED
    BY <2>2, <2>3, <2>4, ReturnKeepsType
<1> QED
  BY <1>1, <1>2 DEF CordonStep, CordonLoses, CordonFails

\* Every step keeps the types.
LEMMA StepKeepsType ==
  ASSUME TypeOK, [Next]_vars
  PROVE  TypeOK'
<1>1. ASSUME NEW i \in Inputs, Read(i)
      PROVE  TypeOK'
  <2>1. i \in Input /\ i.text \in Text
    BY InputAssumption DEF Input
  <2>2. raw' \in Text /\ raw'.bytes <= ReadLimit
    BY <1>1, <2>1, AsReadIsText DEF Read
  <2> QED
    BY <1>1, <2>1, <2>2 DEF Read, TypeOK, PCs
<1>2. CASE Tick
  <2>1. waited' = waited + 1 /\ waited \in Nat
    BY <1>2 DEF Tick, TypeOK
  <2>2. waited' \in Nat
    BY <2>1
  <2>3. UNCHANGED <<reg, pc, input, raw, path, chain, k, cur, asked, ran, err, inv, out>>
    BY <1>2 DEF Tick
  <2> QED
    BY <2>2, <2>3 DEF TypeOK, Empty
<1>3. CASE UNCHANGED vars
  BY <1>3 DEF vars, TypeOK, Empty
<1>4. CASE Step
  BY <1>2, <1>4, DecideKeepsType, RouterKeepsType, StageKeepsType, CordonKeepsType
     DEF Step
<1> QED
  BY <1>1, <1>3, <1>4 DEF Next, Terminated

LEMMA InitTyped ==
  ASSUME Init
  PROVE  TypeOK
<1>1. reg \subseteq Processors
  BY InputAssumption DEF Init
<1>2. NoText \in Text /\ NoText.bytes <= ReadLimit
  BY DEF NoText, Text, ReadLimit
<1>3. NoInput \in Input
  BY <1>2 DEF NoInput, Input, Forms
<1>4. NoInvocation \in Invocations
  BY DEF NoInvocation, Invocations
<1>5. <<>> \in Seq(Processors) /\ Len(<<>>) = 0
  OBVIOUS
<1>6. /\ raw = NoText /\ cur = NoText /\ out = NoText /\ input = NoInput
      /\ inv = NoInvocation /\ chain = <<>> /\ k = 0 /\ waited = 0
      /\ pc = "idle" /\ path = "" /\ err = "none" /\ asked = FALSE /\ ran = {}
  BY DEF Init
<1>7. k \in 0..Len(chain) /\ waited \in Nat
  <2>1. Len(chain) = 0
    BY <1>5, <1>6
  <2>2. k = 0 /\ waited = 0
    BY <1>6
  <2> QED
    BY <2>1, <2>2
<1> QED
  BY <1>1, <1>2, <1>3, <1>4, <1>5, <1>6, <1>7 DEF TypeOK, PCs, Errors

\* The state of an invocation is well typed, whatever the processors, the
\* model and the daemon answer.
THEOREM TypeCorrect == Spec => []TypeOK
<1>1. Init => TypeOK
  BY InitTyped
<1>2. TypeOK /\ [Next]_vars => TypeOK'
  BY StepKeepsType
<1> QED
  BY <1>1, <1>2, PTL DEF Spec

-----------------------------------------------------------------------------
(* The middleware implements FailOpen: reading is Accept, the end of an      *)
(* invocation is Answer, everything in between is a stutter.                 *)

\* An invocation at work ends in FailOpen's Answer, if what it returns is the
\* text itself, or says something and no stage failed.
LEMMA ReturnAnswers ==
  ASSUME TypeOK, pc \in {"decide", "route", "run", "cordon"},
         NEW t \in Text, NEW p, NEW o, NEW l, NEW f,
         Return(t, p, o, l, f),
         t # raw => ~Empty(t),
         err' = err \/ t = raw
  PROVE  FO!Answer
<1>1. pc' = "done" /\ out' = t /\ raw' = raw
  BY DEF Return
<1>2. Phase = "working" /\ Phase' = "answered"
  BY <1>1 DEF Phase
<1>3. err = "none"
  BY DEF TypeOK
<1>4. (err' # "none") => t = raw
  BY <1>3
<1> QED
  BY <1>1, <1>2, <1>4 DEF FO!Answer, FO!Empty, FO!Text, Empty, Text

LEMMA PassthroughAnswers ==
  ASSUME TypeOK, pc \in {"decide", "route", "run", "cordon"},
         NEW p, Passthrough(p)
  PROVE  FO!Answer
<1>1. raw \in Text /\ err' = err /\ Return(raw, p, "passthrough", "", "")
  BY DEF TypeOK, Passthrough
<1> QED
  BY <1>1, ReturnAnswers

LEMMA FallBackAnswers ==
  ASSUME TypeOK, pc \in {"decide", "route", "run", "cordon"},
         NEW e, NEW p, NEW l, NEW f, FallBack(e, p, l, f)
  PROVE  FO!Answer
<1>1. raw \in Text /\ Return(raw, p, "fallback", l, f)
  BY DEF TypeOK, FallBack
<1> QED
  BY <1>1, ReturnAnswers

\* Steps that neither read nor return leave the promise's state alone.
LEMMA WorkingStutters ==
  ASSUME pc \in {"decide", "route", "run", "cordon"},
         pc' \in {"decide", "route", "run", "cordon"},
         UNCHANGED <<raw, err, out>>
  PROVE  UNCHANGED FO!vars
BY DEF FO!vars, Phase

LEMMA DecideKeepsPromise ==
  ASSUME TypeOK, Decide
  PROVE  FO!Answer \/ UNCHANGED FO!vars
<1> pc = "decide"
  BY DEF Decide, ShortCircuit, NoProcessors, FastPath, BinaryPassthrough,
         StructuredPassthrough, NothingRoutable, AskRouter, Unclaimed, Considered
<1>1. CASE ShortCircuit
  BY <1>1, PassthroughAnswers DEF ShortCircuit
<1>2. CASE NoProcessors
  BY <1>2, PassthroughAnswers DEF NoProcessors
<1>3. CASE BinaryPassthrough
  BY <1>3, PassthroughAnswers DEF BinaryPassthrough
<1>4. CASE StructuredPassthrough
  BY <1>4, PassthroughAnswers DEF StructuredPassthrough
<1>5. CASE NothingRoutable
  BY <1>5, PassthroughAnswers DEF NothingRoutable
<1>6. CASE FastPath
  BY <1>6, WorkingStutters DEF FastPath
<1>7. CASE AskRouter
  BY <1>7, WorkingStutters DEF AskRouter
<1> QED
  BY <1>1, <1>2, <1>3, <1>4, <1>5, <1>6, <1>7 DEF Decide

LEMMA RouterKeepsPromise ==
  ASSUME TypeOK, RouterDeclines \/ RouterNames \/ RouterFails \/ RouterTimesOut
  PROVE  FO!Answer \/ UNCHANGED FO!vars
<1> pc = "route"
  BY DEF RouterDeclines, RouterNames, RouterFails, RouterTimesOut
<1>1. CASE RouterDeclines
  BY <1>1, PassthroughAnswers DEF RouterDeclines
<1>2. CASE RouterNames
  BY <1>2, WorkingStutters DEF RouterNames
<1>3. CASE RouterFails
  BY <1>3, FallBackAnswers DEF RouterFails
<1>4. CASE RouterTimesOut
  BY <1>4, FallBackAnswers DEF RouterTimesOut
<1> QED
  BY <1>1, <1>2, <1>3, <1>4

LEMMA StageKeepsPromise ==
  ASSUME TypeOK, Stage \/ StageFails \/ StageTimesOut
  PROVE  FO!Answer \/ UNCHANGED FO!vars
<1> pc = "run"
  BY DEF Stage, NextStage, AnswerEmpty, AnswerKept, TurnToCordon, StageFails, StageTimesOut
<1>1. CASE NextStage
  BY <1>1, WorkingStutters DEF NextStage
<1>2. CASE AnswerEmpty
  BY <1>2, FallBackAnswers DEF AnswerEmpty
<1>3. CASE AnswerKept
  <2>1. PICK r \in Answers(chain[k], cur) :
          /\ ~Empty(r)
          /\ Return(r, path, "compressed", ChainLabel, "")
    BY <1>3 DEF AnswerKept
  <2>2. r \in Text
    BY <2>1, AnswersAreTexts DEF TypeOK
  <2>3. err' = err
    BY <1>3 DEF AnswerKept
  <2> QED
    BY <2>1, <2>2, <2>3, ReturnAnswers
<1>4. CASE TurnToCordon
  BY <1>4, WorkingStutters DEF TurnToCordon
<1>5. CASE StageFails
  BY <1>5, FallBackAnswers DEF StageFails
<1>6. CASE StageTimesOut
  BY <1>6, FallBackAnswers DEF StageTimesOut
<1> QED
  BY <1>1, <1>2, <1>3, <1>4, <1>5, <1>6 DEF Stage

\* The detour's answer is ndjson-filter's, which was not empty, or one that
\* has a line that says something.
LEMMA CordonKeepsPromise ==
  ASSUME TypeOK, CordonStep \/ CordonFails
  PROVE  FO!Answer
<1> pc = "cordon" /\ cur \in Text /\ raw \in Text /\ ~Empty(cur)
  BY DEF CordonStep, CordonWins, CordonLoses, CordonFails, TypeOK
<1>1. CASE KeepNdjson
  BY <1>1, ReturnAnswers DEF KeepNdjson
<1>2. CASE CordonWins
  <2>1. PICK c \in reg \cap Cordon : \E r \in Answers(c, raw) :
          Better(r) /\ Return(r, "fast_path", "compressed", "cordon-filter", "")
    BY <1>2 DEF CordonWins
  <2>2. PICK r \in Answers(c, raw) :
          Better(r) /\ Return(r, "fast_path", "compressed", "cordon-filter", "")
    BY <2>1
  <2>3. r \in Text /\ r.lines <= r.bytes
    BY <2>2, AnswersAreTexts DEF Better
  <2>4. ~Empty(r)
    <3>1. r.lines \in Nat /\ r.bytes \in Nat
      BY <2>3 DEF Text
    <3>2. r.lines # 0
      BY <2>2 DEF Better, Blank
    <3>3. r.bytes # 0
      BY <2>3, <3>1, <3>2
    <3> QED
      BY <3>3 DEF Empty
  <2>5. err' = err
    BY <1>2 DEF CordonWins
  <2> QED
    BY <2>2, <2>3, <2>4, <2>5, ReturnAnswers
<1> QED
  BY <1>1, <1>2 DEF CordonStep, CordonLoses, CordonFails

\* Every step of the middleware is a step of FailOpen or changes nothing of it.
LEMMA StepKeepsPromise ==
  ASSUME TypeOK, [Next]_vars
  PROVE  [FO!Next]_FO!vars
<1>1. ASSUME NEW i \in Inputs, Read(i)
      PROVE  FO!Accept
  <2>1. i.text \in Text
    BY InputAssumption DEF Input
  <2>2. raw' \in Text /\ raw'.bytes <= ReadLimit
    BY <1>1, <2>1, AsReadIsText DEF Read
  <2>3. Phase = "waiting" /\ Phase' = "working" /\ UNCHANGED <<err, out>>
    BY <1>1 DEF Read, Phase
  <2>4. raw' \in FO!Text /\ raw'.bytes <= FO!ReadLimit
    BY <2>2 DEF Text, FO!Text, ReadLimit, FO!ReadLimit
  <2>5. (err # "none")' = (err # "none")
    BY <2>3
  <2> QED
    BY <2>3, <2>4, <2>5 DEF FO!Accept
<1>2. CASE Tick
  BY <1>2, WorkingStutters DEF Tick
<1>3. CASE UNCHANGED vars
  BY <1>3 DEF vars, FO!vars, Phase
<1>4. CASE Step
  BY <1>2, <1>4, DecideKeepsPromise, RouterKeepsPromise, StageKeepsPromise,
     CordonKeepsPromise DEF Step, FO!Next
<1> QED
  BY <1>1, <1>3, <1>4 DEF Next, Terminated, FO!Next

LEMMA InitPromised ==
  ASSUME Init
  PROVE  FO!Init
BY DEF Init, FO!Init, Phase, NoText, FO!NoText

\* Whatever the processors, the model and the daemon do: one answer, never an
\* empty one in place of the text, and the text itself whenever a stage failed.
THEOREM PromiseKept == Spec => KeepsPromise
<1>1. Init => FO!Init
  BY InitPromised
<1>2. TypeOK /\ [Next]_vars => [FO!Next]_FO!vars
  BY StepKeepsPromise
<1>3. Spec => []TypeOK
  BY TypeCorrect
<1> QED
  BY <1>1, <1>2, <1>3, PTL DEF Spec, KeepsPromise, FO!Spec

-----------------------------------------------------------------------------
(* The safety invariants.  None of them is inductive by itself: each speaks  *)
(* of what has run or gone out, and a step that ends the invocation says     *)
(* nothing of how it came to that.  Course says it: which branch the         *)
(* invocation is on, and what that branch has established about the chain.   *)

\* Before the first decision nothing has run, and no chain is chosen.
NothingYet ==
  /\ pc \in {"idle", "decide"} => ran = {} /\ ~asked /\ chain = <<>> /\ path = ""
  /\ pc = "route" => ran = {} /\ asked /\ chain = <<>> /\ path = "router"

\* A fast-path chain is the one processor that wins among those that claim the
\* text, and only the cordon filter runs behind it.
OnFastPath ==
  /\ path = "fast_path" =>
       /\ ~asked /\ Len(chain) = 1
       /\ chain[1] \in Hits
       /\ \A e \in Hits : Before(chain[1], e)
       /\ pc = "run" => ran = {chain[1]}
  /\ pc = "cordon" => path = "fast_path" /\ chain[1] \in Ndjson

\* The model was asked about a text that nobody claims, and every processor of
\* the chain it named is routable.
OnRouter ==
  asked => /\ input.form = "text"
           /\ reg \cap input.matched = {}
           /\ \A j \in 1..Len(chain) : chain[j] \in RoutableNames

\* What runs was started, on one branch or the other.
AtWork ==
  pc = "run" => /\ chain[k] \in ran
                /\ \/ path = "fast_path"
                   \/ path = "router" /\ asked

Course == NothingYet /\ OnFastPath /\ OnRouter /\ AtWork

\* Between compiled-in filters the text in hand never exceeds what was read.
Shrinks ==
  pc \in {"run", "cordon"} /\ ran \subseteq Native => cur.bytes <= raw.bytes

-----------------------------------------------------------------------------
(* Every step either moves the invocation on or ends it.                     *)

Moves == FastPath \/ AskRouter \/ RouterNames \/ NextStage \/ TurnToCordon \/ Tick

\* What every end has in common: the answer is the text as it was read, the
\* last stage's, or, behind the cordon filter and without an error, the answer
\* of ndjson-filter or a better one.
Ends ==
  /\ pc \in {"decide", "route", "run", "cordon"}
  /\ pc' = "done"
  /\ UNCHANGED <<reg, input, raw, chain, k, cur, waited, asked, ran>>
  /\ path' = "fast_path" => path = "fast_path"
  /\ \/ pc # "cordon" /\ out' = raw
     \/ pc = "run" /\ k = Len(chain) /\ out' \in Answers(chain[k], cur)
     \/ pc = "cordon" /\ err' = err /\ (out' = cur \/ Better(out'))

LEMMA PassthroughEnds ==
  ASSUME pc \in {"decide", "route"},
         NEW p, p # "fast_path", Passthrough(p)
  PROVE  Ends
BY DEF Passthrough, Return, Ends

LEMMA FallBackEnds ==
  ASSUME pc \in {"route", "run"},
         NEW e, NEW p, NEW l, NEW f, FallBack(e, p, l, f),
         p = "fast_path" => path = "fast_path"
  PROVE  Ends
BY DEF FallBack, Return, Ends

LEMMA MovesOrEnds ==
  ASSUME Course, Step
  PROVE  Moves \/ Ends
<1>1. CASE Decide
  <2>1. pc = "decide"
    BY <1>1 DEF Decide, ShortCircuit, NoProcessors, FastPath, BinaryPassthrough,
       StructuredPassthrough, NothingRoutable, AskRouter, Unclaimed, Considered
  <2>2. ASSUME ShortCircuit \/ NoProcessors \/ BinaryPassthrough
                 \/ StructuredPassthrough \/ NothingRoutable
        PROVE  Ends
    BY <2>1, <2>2, PassthroughEnds DEF ShortCircuit, NoProcessors,
       BinaryPassthrough, StructuredPassthrough, NothingRoutable
  <2> QED
    BY <1>1, <2>2 DEF Decide, Moves
<1>2. CASE RouterDeclines
  BY <1>2, PassthroughEnds DEF RouterDeclines
<1>3. CASE RouterFails
  BY <1>3, FallBackEnds DEF RouterFails
<1>4. CASE RouterTimesOut
  BY <1>4, FallBackEnds DEF RouterTimesOut
<1>5. CASE AnswerEmpty
  BY <1>5, FallBackEnds DEF AnswerEmpty
<1>6. CASE AnswerKept
  BY <1>6 DEF AnswerKept, Return, Ends
<1>7. CASE StageFails
  BY <1>7, FallBackEnds DEF StageFails
<1>8. CASE StageTimesOut
  BY <1>8, FallBackEnds DEF StageTimesOut
<1>9. CASE CordonStep \/ CordonFails
  <2>1. pc = "cordon" /\ path = "fast_path"
    BY <1>9 DEF CordonStep, CordonWins, CordonLoses, CordonFails, Course, OnFastPath
  <2>2. ASSUME KeepNdjson PROVE Ends
    BY <2>1, <2>2 DEF KeepNdjson, Return, Ends
  <2>3. ASSUME CordonWins PROVE Ends
    BY <2>1, <2>3 DEF CordonWins, Return, Ends
  <2> QED
    BY <1>9, <2>2, <2>3 DEF CordonStep, CordonLoses, CordonFails
<1> QED
  BY <1>1, <1>2, <1>3, <1>4, <1>5, <1>6, <1>7, <1>8, <1>9 DEF Step, Stage, Moves

-----------------------------------------------------------------------------
(* Course is inductive.                                                      *)

LEMMA CourseByRead ==
  ASSUME Course, NEW i \in Inputs, Read(i)
  PROVE  Course'
BY DEF Course, NothingYet, OnFastPath, OnRouter, AtWork, Read

LEMMA CourseByFastPath ==
  ASSUME TypeOK, Course, FastPath
  PROVE  Course'
<1>1. PICK d \in Hits : /\ \A e \in Hits : Before(d, e)
                       /\ chain' = <<d>> /\ ran' = {d}
  BY DEF FastPath
<1>2. /\ pc = "decide" /\ pc' = "run" /\ path' = "fast_path" /\ k' = 1
      /\ UNCHANGED <<reg, input, asked>>
  BY DEF FastPath, Considered
<1>3. Hits' = Hits
  BY <1>2 DEF Hits
<1>4. Len(chain') = 1 /\ chain'[1] = d
  BY <1>1
<1>5. ~asked'
  BY <1>2 DEF Course, NothingYet
<1>6. NothingYet'
  BY <1>2 DEF NothingYet
<1>7. OnFastPath'
  BY <1>1, <1>2, <1>3, <1>4, <1>5 DEF OnFastPath
<1>8. OnRouter' /\ AtWork'
  BY <1>1, <1>2, <1>4, <1>5 DEF OnRouter, AtWork
<1> QED
  BY <1>6, <1>7, <1>8 DEF Course

LEMMA CourseByAskRouter ==
  ASSUME TypeOK, Course, AskRouter
  PROVE  Course'
<1>1. /\ pc = "decide" /\ pc' = "route" /\ path' = "router" /\ asked'
      /\ input.form = "text" /\ Hits = {} /\ ran = {} /\ chain = <<>>
      /\ UNCHANGED <<reg, input, chain, ran>>
  BY DEF AskRouter, Unclaimed, Considered, Course, NothingYet
<1>2. reg \cap input.matched = {}
  BY <1>1 DEF Hits
<1>3. Len(chain') = 0
  BY <1>1
<1>4. \A j \in 1..Len(chain') : FALSE
  BY <1>3
<1>5. NothingYet' /\ OnFastPath' /\ AtWork'
  BY <1>1 DEF NothingYet, OnFastPath, AtWork
<1>6. OnRouter'
  BY <1>1, <1>2, <1>4 DEF OnRouter
<1> QED
  BY <1>5, <1>6 DEF Course

LEMMA CourseByRouterNames ==
  ASSUME TypeOK, Course, RouterNames
  PROVE  Course'
<1>1. PICK names \in Replies : /\ ParseRouteResult(names) # <<>>
                              /\ chain' = ParseRouteResult(names)
  BY DEF RouterNames
<1>2. /\ pc = "route" /\ pc' = "run" /\ k' = 1 /\ ran' = {chain'[1]}
      /\ UNCHANGED <<reg, input, path, asked>>
  BY DEF RouterNames
<1>3. chain' = names /\ \A j \in DOMAIN names : names[j] \in RoutableNames
  BY <1>1 DEF ParseRouteResult
<1>4. chain' \in Seq(Processors)
  BY <1>1, ParsedChain DEF TypeOK
<1>5. \A j \in 1..Len(chain') : chain'[j] \in RoutableNames'
  BY <1>2, <1>3, <1>4 DEF RoutableNames
<1>6. path = "router" /\ asked
  BY <1>2 DEF Course, NothingYet
<1>7. NothingYet' /\ OnFastPath' /\ AtWork'
  BY <1>2, <1>6 DEF NothingYet, OnFastPath, AtWork
<1>8. OnRouter'
  BY <1>2, <1>5, <1>6 DEF OnRouter, Course
<1> QED
  BY <1>7, <1>8 DEF Course

\* A chain of more than one stage is the router's.
LEMMA LongChain ==
  ASSUME TypeOK, Course, NextStage
  PROVE  path = "router" /\ asked
<1>1. pc = "run" /\ k < Len(chain) /\ k \in 1..Len(chain) /\ chain \in Seq(Processors)
  BY DEF NextStage, TypeOK
<1>2. Len(chain) \in Nat
  BY <1>1
<1>3. k \in Nat /\ 1 <= k /\ k < Len(chain)
  BY <1>1, <1>2
<1>4. Len(chain) # 1
  <2>1. \A a, b \in Nat : 1 <= a /\ a < b => b # 1
    OBVIOUS
  <2> QED
    BY Zenon, <1>2, <1>3, <2>1
<1>5. path = "fast_path" => Len(chain) = 1
  BY Zenon DEF Course, OnFastPath
<1>6. path # "fast_path"
  BY Zenon, <1>4, <1>5
<1> QED
  BY <1>1, <1>6 DEF Course, AtWork

LEMMA CourseByNextStage ==
  ASSUME TypeOK, Course, NextStage
  PROVE  Course'
<1>1. /\ pc = "run" /\ pc' = "run" /\ k' = k + 1 /\ ran' = ran \cup {chain[k + 1]}
      /\ UNCHANGED <<reg, input, path, chain, asked>>
  BY DEF NextStage
<1>2. path = "router" /\ asked
  BY LongChain
<1>3. NothingYet' /\ OnFastPath'
  BY <1>1, <1>2 DEF NothingYet, OnFastPath
<1>4. chain'[k'] \in ran'
  BY <1>1
<1>5. OnRouter' /\ AtWork'
  BY <1>1, <1>2, <1>4 DEF OnRouter, AtWork, Course, RoutableNames
<1> QED
  BY <1>3, <1>5 DEF Course

LEMMA CourseByTurnToCordon ==
  ASSUME TypeOK, Course, TurnToCordon
  PROVE  Course'
<1>1. /\ pc = "run" /\ pc' = "cordon"
      /\ UNCHANGED <<reg, input, path, chain, k, asked>>
  BY DEF TurnToCordon
<1>2. path = "fast_path" /\ chain[1] \in Ndjson
  BY DEF TurnToCordon, NeedsCordon
<1>3. Hits' = Hits
  BY <1>1 DEF Hits
<1>4. OnFastPath'
  BY <1>1, <1>2, <1>3 DEF Course, OnFastPath
<1>5. NothingYet' /\ OnRouter' /\ AtWork'
  BY <1>1, <1>2 DEF Course, OnFastPath, NothingYet, OnRouter, AtWork
<1> QED
  BY <1>4, <1>5 DEF Course

LEMMA CourseKept ==
  ASSUME TypeOK, Course, [Next]_vars
  PROVE  Course'
<1>1. ASSUME UNCHANGED <<reg, pc, input, path, chain, k, asked, ran>>
      PROVE  Course'
  <2>1. Hits' = Hits /\ RoutableNames' = RoutableNames
    BY <1>1 DEF Hits, RoutableNames
  <2> QED
    BY <1>1, <2>1 DEF Course, NothingYet, OnFastPath, OnRouter, AtWork
<1>2. CASE Ends
  <2>1. Hits' = Hits /\ RoutableNames' = RoutableNames
    BY <1>2 DEF Ends, Hits, RoutableNames
  <2>2. NothingYet' /\ AtWork'
    BY <1>2 DEF Ends, NothingYet, AtWork
  <2>3. OnFastPath' /\ OnRouter'
    BY <1>2, <2>1 DEF Ends, Course, OnFastPath, OnRouter
  <2> QED
    BY <2>2, <2>3 DEF Course
<1>3. CASE Step
  BY <1>1, <1>2, <1>3, MovesOrEnds, CourseByFastPath, CourseByAskRouter,
     CourseByRouterNames, CourseByNextStage, CourseByTurnToCordon DEF Moves, Tick
<1>4. CASE UNCHANGED vars
  BY <1>1, <1>4 DEF vars
<1> QED
  BY <1>3, <1>4, CourseByRead DEF Next, Terminated

LEMMA CourseFromTheStart ==
  ASSUME Init
  PROVE  Course
<1>1. pc = "idle" /\ path = "" /\ chain = <<>> /\ ~asked /\ ran = {}
  BY DEF Init
<1>2. NothingYet /\ AtWork
  BY <1>1 DEF NothingYet, AtWork
<1>3. OnFastPath /\ OnRouter
  BY <1>1 DEF OnFastPath, OnRouter
<1> QED
  BY <1>2, <1>3 DEF Course

\* Every invocation is on one branch, and has what the branch promises.
THEOREM OnCourse == Spec => [](TypeOK /\ Course)
<1>1. Init => TypeOK /\ Course
  BY InitTyped, CourseFromTheStart
<1>2. TypeOK /\ Course /\ [Next]_vars => (TypeOK /\ Course)'
  BY StepKeepsType, CourseKept
<1> QED
  BY <1>1, <1>2, PTL DEF Spec

LEMMA StepKinds ==
  ASSUME Course, [Next]_vars
  PROVE  (\E i \in Inputs : Read(i)) \/ Moves \/ Ends \/ UNCHANGED vars
BY MovesOrEnds DEF Next, Terminated

-----------------------------------------------------------------------------
(* A format signature is decisive.                                           *)

LEMMA TierBefore ==
  ASSUME NEW d, NEW e, Before(d, e)
  PROVE  /\ e \in Signature => d \in Signature
         /\ e \in Signature \cap Native => d \in Native
         /\ e \notin Prompt => d \notin Prompt \ Signature
<1>1. Tier(d) <= Tier(e)
  BY DEF Before, Tier
<1> QED
  BY <1>1 DEF Tier

LEMMA WinnerDecides ==
  ASSUME OnFastPath
  PROVE  SignatureDecides
<1> SUFFICES ASSUME path = "fast_path"
             PROVE  LET claims == reg \cap input.matched
                    IN  /\ claims \cap Signature # {} => chain[1] \in Signature
                        /\ claims \cap Signature \cap Native # {} => chain[1] \in Native
                        /\ input.form # "binary" /\ claims \ Prompt # {}
                             => chain[1] \notin Prompt \ Signature
  BY DEF SignatureDecides
<1>1. \A e \in Hits : /\ e \in Signature => chain[1] \in Signature
                      /\ e \in Signature \cap Native => chain[1] \in Native
                      /\ e \notin Prompt => chain[1] \notin Prompt \ Signature
  BY TierBefore DEF OnFastPath
<1>2. \A e \in reg \cap input.matched :
        e \in Signature \/ input.form # "binary" => e \in Hits
  BY DEF Hits
<1> QED
  BY <1>1, <1>2

\* Whatever is installed and whatever it claims, the order of the tiers decides
\* who gets the text (MatchFastPath).
THEOREM SignatureAlwaysDecides == Spec => []SignatureDecides
<1>1. Course => SignatureDecides
  BY WinnerDecides DEF Course
<1> QED
  BY <1>1, OnCourse, PTL

-----------------------------------------------------------------------------
(* No processor sees a text it was not meant for.                            *)

LEMMA InvitedByFastPath ==
  ASSUME FastPath
  PROVE  NoUninvitedProcessor' \/ asked
<1>1. PICK d \in Hits : ran' = {d}
  BY DEF FastPath
<1>2. UNCHANGED <<input, asked>>
  BY DEF FastPath
<1>3. d \in input.matched /\ (input.form = "binary" => d \in Signature)
  BY <1>1 DEF Hits
<1> QED
  BY <1>1, <1>2, <1>3 DEF NoUninvitedProcessor

\* Nothing but routable names comes from the router.
LEMMA InvitedByRouter ==
  ASSUME TypeOK, Course, RouterNames
  PROVE  NoUninvitedProcessor'
<1>1. Course' /\ pc' = "run" /\ k' = 1 /\ ran' = {chain'[1]} /\ asked'
  BY CourseByRouterNames DEF RouterNames, Course, NothingYet
<1>2. 1 \in 1..Len(chain')
  <2>1. PICK names \in Replies : /\ ParseRouteResult(names) # <<>>
                                /\ chain' = ParseRouteResult(names)
    BY DEF RouterNames
  <2>2. Len(chain') \in Nat \ {0}
    BY <2>1, ParsedChain DEF TypeOK
  <2> QED
    BY <2>2
<1>3. chain'[1] \in Routable
  BY <1>1, <1>2 DEF Course, OnRouter, RoutableNames
<1> QED
  BY <1>1, <1>3 DEF NoUninvitedProcessor, Course, OnRouter

LEMMA InvitedByNextStage ==
  ASSUME TypeOK, Course, NoUninvitedProcessor, NextStage
  PROVE  NoUninvitedProcessor'
<1>1. /\ ran' = ran \cup {chain[k + 1]}
      /\ UNCHANGED <<reg, input, chain, asked>>
  BY DEF NextStage
<1>2. asked /\ input.form = "text"
  BY LongChain DEF Course, OnRouter
<1>3. k + 1 \in 1..Len(chain)
  <2>1. k \in 1..Len(chain) /\ chain \in Seq(Processors) /\ k < Len(chain)
    BY DEF TypeOK, NextStage
  <2> QED
    BY <2>1, NextOfChain
<1>4. chain[k + 1] \in Routable
  BY <1>2, <1>3 DEF Course, OnRouter, RoutableNames
<1> QED
  BY <1>1, <1>2, <1>4 DEF NoUninvitedProcessor

LEMMA InvitedByTurnToCordon ==
  ASSUME NoUninvitedProcessor, TurnToCordon
  PROVE  NoUninvitedProcessor'
<1>1. /\ ran' = ran \cup (reg \cap Cordon) /\ chain[1] \in Ndjson
      /\ UNCHANGED <<reg, input, chain, asked>>
  BY DEF TurnToCordon, NeedsCordon
<1> QED
  BY <1>1 DEF NoUninvitedProcessor

LEMMA InvitedKept ==
  ASSUME TypeOK, Course, NoUninvitedProcessor, [Next]_vars
  PROVE  NoUninvitedProcessor'
<1>1. Course'
  BY CourseKept
<1>2. ASSUME NEW i \in Inputs, Read(i) PROVE NoUninvitedProcessor'
  <2>1. ran' = {} /\ ~asked'
    BY <1>2 DEF Read, Course, NothingYet
  <2> QED
    BY <2>1 DEF NoUninvitedProcessor
<1>3. CASE FastPath
  <2>1. ~asked
    BY <1>3 DEF FastPath, Considered, Course, NothingYet
  <2> QED
    BY <1>3, <2>1, InvitedByFastPath
<1>4. CASE AskRouter
  <2>1. ran' = {} /\ (asked' => input'.form = "text" /\ (reg \cap input.matched)' = {})
    BY <1>1, <1>4 DEF AskRouter, Unclaimed, Considered, Course, NothingYet, OnRouter
  <2> QED
    BY <2>1 DEF NoUninvitedProcessor
<1>5. ASSUME UNCHANGED <<reg, input, chain, asked, ran>> PROVE NoUninvitedProcessor'
  BY <1>5 DEF NoUninvitedProcessor
<1> QED
  BY <1>2, <1>3, <1>4, <1>5, StepKinds, InvitedByRouter, InvitedByNextStage,
     InvitedByTurnToCordon DEF Moves, Ends, Tick, vars

\* Whatever the model answers and whatever is installed, a processor is started
\* only on a text that it claimed, or that it may be named for.
THEOREM NobodyUninvited == Spec => []NoUninvitedProcessor
<1>1. Init => NoUninvitedProcessor
  BY DEF Init, NoUninvitedProcessor
<1>2. TypeOK /\ Course /\ NoUninvitedProcessor /\ [Next]_vars => NoUninvitedProcessor'
  BY InvitedKept
<1> QED
  BY <1>1, <1>2, OnCourse, PTL DEF Spec

-----------------------------------------------------------------------------
(* Compiled-in filters never make a text larger.                             *)

LEMMA NativeAnswers ==
  ASSUME NEW d \in Native, NEW t \in Text, NEW r \in Answers(d, t)
  PROVE  r \in Text /\ r.bytes <= t.bytes
<1>1. r \in Text
  BY AnswersAreTexts
<1>2. PICK m \in Makes(t) : r = Shorter(m, t)
  BY DEF Answers
<1>3. r = t \/ ~(r.bytes >= t.bytes)
  BY <1>2 DEF Shorter
<1>4. r.bytes \in Nat /\ t.bytes \in Nat
  BY <1>1 DEF Text
<1>5. CASE r = t
  BY <1>4, <1>5
<1>6. CASE ~(r.bytes >= t.bytes)
  BY <1>1, <1>4, <1>6
<1> QED
  BY <1>3, <1>5, <1>6

\* What a stage makes of the text in hand, while only filters have run.
LEMMA StageShrinks ==
  ASSUME TypeOK, Course, Shrinks, pc = "run", ran \subseteq Native,
         NEW r \in Answers(chain[k], cur)
  PROVE  r.bytes <= raw.bytes
<1>1. chain[k] \in Native /\ cur \in Text /\ raw \in Text
  BY DEF Course, AtWork, TypeOK
<1>2. r \in Text /\ r.bytes <= cur.bytes
  BY <1>1, NativeAnswers
<1>3. cur.bytes <= raw.bytes
  BY DEF Shrinks
<1>4. r.bytes \in Nat /\ cur.bytes \in Nat /\ raw.bytes \in Nat
  BY <1>1, <1>2 DEF Text
<1> QED
  BY <1>2, <1>3, <1>4

LEMMA EndDoesNotGrow ==
  ASSUME TypeOK, Course, Shrinks, [Next]_vars, Ends, ran \subseteq Native
  PROVE  out'.bytes <= raw.bytes
<1>1. raw.bytes \in Nat
  BY DEF TypeOK, Text
<1>2. CASE out' = raw
  BY <1>1, <1>2
<1>3. CASE pc = "run" /\ out' \in Answers(chain[k], cur)
  BY <1>3, StageShrinks
<1>4. CASE pc = "cordon" /\ out' = cur
  BY <1>4 DEF Shrinks
<1>5. CASE Better(out')
  <2>1. out'.bytes < raw.bytes
    BY <1>5 DEF Better
  <2>2. out'.bytes \in Nat
    BY StepKeepsType DEF TypeOK, Text
  <2> QED
    BY <1>1, <2>1, <2>2
<1> QED
  BY <1>2, <1>3, <1>4, <1>5 DEF Ends

LEMMA ShrinksKept ==
  ASSUME TypeOK, Course, Shrinks, [Next]_vars
  PROVE  Shrinks'
<1>1. CASE FastPath \/ RouterNames
  <2>1. cur' = raw' /\ raw' = raw
    BY <1>1 DEF FastPath, RouterNames
  <2>2. raw.bytes \in Nat
    BY DEF TypeOK, Text
  <2> QED
    BY <2>1, <2>2 DEF Shrinks
<1>2. CASE NextStage \/ TurnToCordon
  <2>1. /\ pc = "run" /\ cur' \in Answers(chain[k], cur)
        /\ raw' = raw /\ ran \subseteq ran'
    BY <1>2 DEF NextStage, TurnToCordon
  <2>2. ran' \subseteq Native => cur'.bytes <= raw.bytes
    BY <2>1, StageShrinks
  <2> QED
    BY <2>1, <2>2 DEF Shrinks
<1>3. ASSUME pc' \notin {"run", "cordon"} PROVE Shrinks'
  BY <1>3 DEF Shrinks
<1>4. ASSUME UNCHANGED <<pc, ran, cur, raw>> PROVE Shrinks'
  BY <1>4 DEF Shrinks
<1> QED
  BY <1>1, <1>2, <1>3, <1>4, StepKinds DEF Moves, Read, AskRouter, Tick, Ends, vars

LEMMA NeverGrowsKept ==
  ASSUME TypeOK, Course, Shrinks, NativeNeverGrows, [Next]_vars
  PROVE  NativeNeverGrows'
<1>1. CASE Ends
  BY <1>1, EndDoesNotGrow DEF NativeNeverGrows, Ends
<1>2. ASSUME pc' # "done" PROVE NativeNeverGrows'
  BY <1>2 DEF NativeNeverGrows
<1>3. CASE UNCHANGED vars
  BY <1>3 DEF NativeNeverGrows, vars
<1>4. CASE Tick
  <2>1. pc' # "done"
    BY <1>4 DEF Tick
  <2> QED
    BY <1>2, <2>1
<1> QED
  BY <1>1, <1>2, <1>3, <1>4, StepKinds
     DEF Moves, Read, FastPath, AskRouter, RouterNames, NextStage, TurnToCordon

\* For every processor output, panic and chain length: as long as only
\* compiled-in filters have worked on a text, it has not grown.
THEOREM NativeNeverEverGrows == Spec => []NativeNeverGrows
<1>1. Init => Shrinks /\ NativeNeverGrows
  BY DEF Init, Shrinks, NativeNeverGrows
<1>2. TypeOK /\ Course /\ Shrinks /\ NativeNeverGrows /\ [Next]_vars
        => (Shrinks /\ NativeNeverGrows)'
  BY ShrinksKept, NeverGrowsKept
<1> QED
  BY <1>1, <1>2, OnCourse, PTL DEF Spec

-----------------------------------------------------------------------------
(* The cordon detour never worsens an answer.                                *)

LEMMA CordonKept ==
  ASSUME TypeOK, Course, CordonNeverWorsens, [Next]_vars
  PROVE  CordonNeverWorsens'
<1>1. ASSUME pc' # "done" PROVE CordonNeverWorsens'
  BY <1>1 DEF CordonNeverWorsens
<1>2. CASE UNCHANGED vars
  BY <1>2 DEF CordonNeverWorsens, vars
<1>3. CASE Tick
  BY <1>1, <1>3 DEF Tick
<1>4. CASE Ends
  <2>1. CASE pc = "cordon"
    <3>1. err' = "none" /\ (out' = cur \/ Better(out'))
      BY <1>4, <2>1 DEF Ends, TypeOK
    <3>2. cur' = cur /\ raw' = raw
      BY <1>4 DEF Ends
    <3> QED
      BY <3>1, <3>2 DEF CordonNeverWorsens, Better
  <2>2. CASE pc = "run" /\ path' = "fast_path" /\ chain[1] \in Ndjson
    <3>1. ran = {chain[1]}
      BY <1>4, <2>2 DEF Ends, Course, OnFastPath
    <3>2. ran' \cap Cordon = {}
      BY <1>4, <2>2, <3>1, KindAssumption DEF Ends
    <3> QED
      BY <3>2 DEF CordonNeverWorsens
  <2>3. CASE pc \in {"decide", "route"}
    <3>1. path' # "fast_path"
      BY <1>4, <2>3 DEF Ends, Course, NothingYet
    <3> QED
      BY <3>1 DEF CordonNeverWorsens
  <2>4. chain' = chain /\ pc \in {"decide", "route", "run", "cordon"}
    BY <1>4 DEF Ends
  <2> QED
    BY <2>1, <2>2, <2>3, <2>4 DEF CordonNeverWorsens
<1> QED
  BY <1>1, <1>2, <1>3, <1>4, StepKinds
     DEF Moves, Read, FastPath, AskRouter, RouterNames, NextStage, TurnToCordon

\* Behind ndjson-filter the answer is its own or one that tells more in fewer
\* bytes, and the detour's failures are nobody's (cordonFallback).
THEOREM CordonNeverEverWorsens == Spec => []CordonNeverWorsens
<1>1. Init => CordonNeverWorsens
  BY DEF Init, CordonNeverWorsens
<1>2. TypeOK /\ Course /\ CordonNeverWorsens /\ [Next]_vars => CordonNeverWorsens'
  BY CordonKept
<1> QED
  BY <1>1, <1>2, OnCourse, PTL DEF Spec

-----------------------------------------------------------------------------
(* The fallback reason tells every deadline.                                 *)

LEMMA ReturnHonest ==
  ASSUME TypeOK, pc \in {"decide", "route", "run", "cordon"},
         NEW t, NEW p, NEW l, NEW o, o # "fallback",
         Return(t, p, o, l, ""), UNCHANGED err
  PROVE  DeadlineIsTold'
<1>1. err' = "none"
  BY DEF TypeOK
<1>2. inv'.fallback = "" /\ inv'.outcome = o
  BY DEF Return
<1> QED
  BY <1>1, <1>2 DEF DeadlineIsTold

LEMMA FallBackHonest ==
  ASSUME NEW e, e # "none", NEW p, NEW l, NEW f, FallBack(e, p, l, f),
         e \in {"deadline", "timedout"} => f = "timeout",
         f = "timeout" => \/ e = "deadline" /\ waited >= InferdTimeout
                          \/ e = "timedout" /\ waited >= ScriptTimeout
                          \/ e = "worded" /\ ran \ Native # {},
         f = "inferd_unreachable" => asked \/ ran \cap Prompt # {}
  PROVE  DeadlineIsTold'
<1>1. err' = e /\ inv'.fallback = f /\ inv'.outcome = "fallback"
  BY DEF FallBack, Return
<1>2. UNCHANGED <<waited, asked, ran>>
  BY DEF FallBack, Return
<1> QED
  BY <1>1, <1>2 DEF DeadlineIsTold

LEMMA PassthroughHonest ==
  ASSUME TypeOK, pc \in {"decide", "route"}, NEW p, Passthrough(p)
  PROVE  DeadlineIsTold'
BY ReturnHonest DEF Passthrough

LEMMA RouterHonest ==
  ASSUME Course, RouterFails \/ RouterTimesOut
  PROVE  DeadlineIsTold'
<1>1. pc = "route" /\ asked
  BY DEF RouterFails, RouterTimesOut, Course, NothingYet
<1>2. ASSUME NEW e \in {"notready", "other"},
             FallBack(e, "router", "", RouterFailReason(e))
      PROVE  DeadlineIsTold'
  <2>1. RouterFailReason(e) # "timeout"
    BY <1>2 DEF RouterFailReason
  <2> QED
    BY <1>1, <1>2, <2>1, FallBackHonest
<1>3. CASE RouterTimesOut
  <2>1. RouterFailReason("deadline") = "timeout"
    BY DEF RouterFailReason
  <2>2. waited >= InferdTimeout
    BY <1>3 DEF RouterTimesOut, Expired
  <2>3. FallBack("deadline", "router", "", "timeout")
    BY <1>3, <2>1 DEF RouterTimesOut
  <2> QED
    BY <2>2, <2>3, FallBackHonest
<1> QED
  BY <1>2, <1>3 DEF RouterFails

LEMMA StageHonest ==
  ASSUME TypeOK, Course, AnswerEmpty \/ StageFails \/ StageTimesOut
  PROVE  DeadlineIsTold'
<1>1. pc = "run" /\ chain[k] \in ran /\ chain[k] \in Processors
  BY Running DEF AnswerEmpty, StageFails, StageTimesOut, Course, AtWork
<1>2. CASE AnswerEmpty
  <2>1. DispatchFailReason("empty") = "empty_output"
    BY DEF DispatchFailReason
  <2> QED
    BY <1>2, <2>1, FallBackHonest DEF AnswerEmpty
<1>3. ASSUME NEW e \in Failures(chain[k]),
             FallBack(e, path, ChainLabel, DispatchFailReason(e))
      PROVE  DeadlineIsTold'
  <2>1. /\ e \in {"notready", "other", "worded"}
        /\ e = "notready" => chain[k] \in Prompt
        /\ chain[k] \notin Native
    BY <1>3, KindAssumption DEF Failures
  <2>2. /\ DispatchFailReason(e) = "timeout" => e = "worded"
        /\ DispatchFailReason(e) = "inferd_unreachable" => e = "notready"
    BY <2>1 DEF DispatchFailReason
  <2> QED
    BY <1>1, <1>3, <2>1, <2>2, FallBackHonest
<1>4. CASE StageTimesOut
  <2>1. /\ FallBack(Expiry(chain[k]), path, ChainLabel,
                    DispatchFailReason(Expiry(chain[k])))
        /\ chain[k] \notin Native /\ waited >= Limit(chain[k])
    BY <1>4 DEF StageTimesOut, Expired
  <2>2. /\ DispatchFailReason("timedout") = "timeout"
        /\ DispatchFailReason("deadline") = "timeout"
    BY DEF DispatchFailReason
  <2>3. CASE chain[k] \in Script
    <3>1. Expiry(chain[k]) = "timedout" /\ Limit(chain[k]) = ScriptTimeout
      BY <2>3, KindAssumption DEF Expiry, Limit
    <3>2. FallBack("timedout", path, ChainLabel, "timeout") /\ waited >= ScriptTimeout
      BY <2>1, <2>2, <3>1
    <3> QED
      BY <3>2, FallBackHonest
  <2>4. CASE chain[k] \in Prompt
    <3>1. Expiry(chain[k]) = "deadline" /\ Limit(chain[k]) = InferdTimeout
      BY <2>4, KindAssumption DEF Expiry, Limit
    <3>2. FallBack("deadline", path, ChainLabel, "timeout") /\ waited >= InferdTimeout
      BY <2>1, <2>2, <3>1
    <3> QED
      BY <3>2, FallBackHonest
  <2> QED
    BY <1>1, <2>1, <2>3, <2>4 DEF Processors
<1> QED
  BY <1>2, <1>3, <1>4 DEF StageFails

LEMMA StepHonest ==
  ASSUME TypeOK, Course, Step
  PROVE  DeadlineIsTold'
<1>1. ASSUME pc' # "done" PROVE DeadlineIsTold'
  BY <1>1 DEF DeadlineIsTold
<1>2. CASE Decide
  <2>1. CASE FastPath \/ AskRouter
    BY <1>1, <2>1 DEF FastPath, AskRouter
  <2>2. CASE ShortCircuit \/ NoProcessors \/ BinaryPassthrough
               \/ StructuredPassthrough \/ NothingRoutable
    BY <2>2, PassthroughHonest DEF ShortCircuit, NoProcessors, BinaryPassthrough,
       StructuredPassthrough, NothingRoutable, Unclaimed, Considered
  <2> QED
    BY <1>2, <2>1, <2>2 DEF Decide
<1>3. CASE RouterDeclines
  BY <1>3, PassthroughHonest DEF RouterDeclines
<1>4. CASE RouterFails \/ RouterTimesOut
  BY <1>4, RouterHonest
<1>5. CASE AnswerEmpty \/ StageFails \/ StageTimesOut
  BY <1>5, StageHonest
<1>6. CASE AnswerKept
  BY <1>6, ReturnHonest DEF AnswerKept
<1>7. CASE CordonStep \/ CordonFails
  <2>1. pc = "cordon"
    BY <1>7 DEF CordonStep, CordonWins, CordonLoses, CordonFails
  <2>2. ASSUME KeepNdjson PROVE DeadlineIsTold'
    BY <2>1, <2>2, ReturnHonest DEF KeepNdjson
  <2>3. ASSUME CordonWins PROVE DeadlineIsTold'
    BY <2>1, <2>3, ReturnHonest DEF CordonWins
  <2> QED
    BY <1>7, <2>2, <2>3 DEF CordonStep, CordonLoses, CordonFails
<1>8. CASE RouterNames \/ NextStage \/ TurnToCordon
  BY <1>1, <1>8 DEF RouterNames, NextStage, TurnToCordon
<1>9. CASE Tick
  BY <1>1, <1>9 DEF Tick
<1> QED
  BY <1>2, <1>3, <1>4, <1>5, <1>6, <1>7, <1>8, <1>9 DEF Step, Stage

LEMMA HonestKept ==
  ASSUME TypeOK, Course, DeadlineIsTold, [Next]_vars
  PROVE  DeadlineIsTold'
<1>1. CASE Step
  BY <1>1, StepHonest
<1>2. CASE UNCHANGED vars
  BY <1>2 DEF DeadlineIsTold, vars
<1>3. ASSUME NEW i \in Inputs, Read(i) PROVE DeadlineIsTold'
  BY <1>3 DEF Read, DeadlineIsTold
<1> QED
  BY <1>1, <1>2, <1>3 DEF Next, Terminated

\* For every timeout and every way a call may fail: a deadline used up is told
\* as one, and nothing else is but an error that uses the words itself
\* (dispatchFailReason, routerFailReason).
THEOREM DeadlineAlwaysTold == Spec => []DeadlineIsTold
<1>1. Init => DeadlineIsTold
  BY DEF Init, DeadlineIsTold
<1>2. TypeOK /\ Course /\ DeadlineIsTold /\ [Next]_vars => DeadlineIsTold'
  BY HonestKept
<1> QED
  BY <1>1, <1>2, OnCourse, PTL DEF Spec

-----------------------------------------------------------------------------
(* What the middleware hands back.                                           *)

\* An answer that says nothing, or that follows a failure, is the text itself.
Answered == pc = "done" => (err # "none" \/ Empty(out) => out = raw)

LEMMA AnsweredKept ==
  ASSUME TypeOK, Answered, [Next]_vars
  PROVE  Answered'
<1>1. [FO!Next]_FO!vars
  BY StepKeepsPromise
<1>2. CASE FO!Accept
  BY <1>2 DEF FO!Accept, Answered, Phase
<1>3. CASE FO!Answer
  <2>1. (err' # "none" => out' = raw') /\ (out' # raw' => ~FO!Empty(out'))
    BY <1>3 DEF FO!Answer
  <2> QED
    BY <2>1 DEF Answered, Empty, FO!Empty
<1>4. CASE UNCHANGED FO!vars
  <2>1. UNCHANGED <<Phase, raw, out>> /\ (err # "none")' = (err # "none")
    BY <1>4 DEF FO!vars
  <2>2. (pc = "done") <=> (Phase = "answered")
    BY DEF Phase
  <2>3. (pc' = "done") <=> (Phase' = "answered")
    BY DEF Phase
  <2>4. (err' # "none") => (err # "none")
    BY <2>1
  <2> QED
    BY <2>1, <2>2, <2>3, <2>4 DEF Answered, Empty
<1> QED
  BY <1>1, <1>2, <1>3, <1>4 DEF FO!Next

\* A step behind the reading leaves what was read.
LEMMA StepKeepsText ==
  ASSUME TypeOK, Next, pc # "idle"
  PROVE  raw' = raw /\ pc' # "idle"
<1>1. [FO!Next]_FO!vars
  BY StepKeepsPromise
<1>2. Phase # "waiting"
  BY DEF Phase, TypeOK, PCs
<1>3. raw' = raw /\ Phase' # "waiting"
  BY <1>1, <1>2 DEF FO!Next, FO!Accept, FO!Answer, FO!vars
<1> QED
  BY <1>3 DEF Phase

\* What is read of a text that says something is not empty.
LEMMA AsReadEmpty ==
  ASSUME NEW t, Empty(AsRead(t))
  PROVE  Empty(t)
<1>1. CASE t.bytes <= ReadLimit
  BY <1>1 DEF AsRead
<1>2. CASE ~(t.bytes <= ReadLimit)
  BY <1>2 DEF AsRead, Empty, ReadLimit
<1> QED
  BY <1>1, <1>2

-----------------------------------------------------------------------------
(* The properties of Pipeline, together.                                     *)

Safe ==
  /\ TypeOK /\ Course /\ Answered /\ Shrinks
  /\ NoUninvitedProcessor /\ NativeNeverGrows /\ CordonNeverWorsens /\ DeadlineIsTold

LEMMA SafeInit ==
  ASSUME Init
  PROVE  Safe
BY InitTyped, CourseFromTheStart DEF Safe, Init, Answered, Shrinks, NoUninvitedProcessor,
   NativeNeverGrows, CordonNeverWorsens, DeadlineIsTold

LEMMA SafeKept ==
  ASSUME Safe, [Next]_vars
  PROVE  Safe'
BY StepKeepsType, CourseKept, AnsweredKept, ShrinksKept, InvitedKept, NeverGrowsKept, CordonKept,
   HonestKept DEF Safe

-----------------------------------------------------------------------------
(* The commands.                                                             *)

ExecTypeOK ==
  /\ cmd \in {"exec", "compress"}
  /\ argv \in {"none", "empty", "command"}
  /\ policy \in Policies
  /\ stage \in {"start", "child", "captured", "piped", "exited"}
  /\ spawned \in BOOLEAN
  /\ fate \in Fates \cup {0}
  /\ captured \in Inputs \cup {NoInput}
  /\ exit \in Int
  /\ stdout \in Text

\* Who may run: what the policy says of a child that was started.
Licensed ==
  /\ spawned => policy.file # "invalid" /\ argv # "none" /\ Evaluate = "allow"
  /\ stage = "start" => ~spawned
  /\ stage = "child" => spawned
  /\ cmd = "exec" /\ stage \in {"captured", "piped"} => spawned
  /\ stage # "exited" => stdout = NoText
  /\ cmd = "exec" /\ ~spawned => stdout = NoText

\* Who speaks: where the tool's output is, and what has become of it.
Passed ==
  /\ stage \in {"start", "child", "captured"} => pc = "idle" /\ err = "none"
  /\ stage = "captured" => captured \in Inputs
  /\ stage = "piped" => pc # "idle" /\ raw = AsRead(captured.text)
  /\ stage = "exited" /\ spawned =>
       /\ exit = ChildExitCode(fate)
       /\ \/ err = "none" /\ stdout = captured.text
          \/ pc = "done" /\ stdout = out /\ raw = AsRead(captured.text)

ExecInv == Safe /\ ExecTypeOK /\ Licensed /\ Passed

LEMMA ExecInvInit ==
  ASSUME ExecInit
  PROVE  ExecInv
<1>1. Safe /\ pc = "idle" /\ err = "none"
  BY SafeInit DEF ExecInit, Init
<1>2. NoText \in Text /\ 0 \in Int
  BY DEF NoText, Text
<1> QED
  BY <1>1, <1>2 DEF ExecInit, ExecInv, ExecTypeOK, Licensed, Passed

LEMMA ChildCode ==
  ASSUME NEW f \in Fates \cup {0}
  PROVE  ChildExitCode(f) \in Int /\ ChildExitCode(f) = (IF f = -1 THEN 130 ELSE f)
<1>1. f \in Nat \cup {-1}
  BY PolicyAssumption
<1> QED
  BY <1>1 DEF ChildExitCode, ExitChildSignaled

\* Every step of a command is one of the middleware, or none of its.
LEMMA ExecIsPipeline ==
  ASSUME ExecInv, [ExecNext]_allVars
  PROVE  [Next]_vars
<1>1. CASE HandOver
  BY <1>1 DEF HandOver, ExecInv, Passed, Next
<1>2. CASE Piped
  BY <1>2 DEF Piped, Next
<1>3. CASE ~HandOver /\ ~Piped
  BY <1>3 DEF ExecNext, Usage, PolicyInvalid, PolicyDenies, SpawnFails, Spawn, ChildEnds,
     CompressReads, CompressReadFails, NoPipeline, Emit, Exited, Exit, allVars
<1> QED
  BY <1>1, <1>2, <1>3

\* A command that exits before it has a child's output.
LEMMA ExitsEarly ==
  ASSUME ExecInv, stage = "start", NEW c \in Int, Exit(c, NoText)
  PROVE  ExecTypeOK' /\ Licensed' /\ Passed'
<1>1. NoText \in Text /\ ~spawned
  BY DEF NoText, Text, ExecInv, Licensed
<1> QED
  BY <1>1 DEF Exit, ExecInv, ExecTypeOK, Licensed, Passed, Evaluate, Matches, vars

\* One that exits with it.
LEMMA ExitsWith ==
  ASSUME ExecInv, stage \in {"captured", "piped"}, NEW t \in Text,
         Exit(ChildExitCode(fate), t),
         \/ err = "none" /\ t = captured.text
         \/ pc = "done" /\ t = out /\ raw = AsRead(captured.text)
  PROVE  ExecTypeOK' /\ Licensed' /\ Passed'
<1>1. ChildExitCode(fate) \in Int
  BY ChildCode DEF ExecInv, ExecTypeOK
<1>2. UNCHANGED <<err, pc, out, raw, cmd, argv, policy, spawned, fate, captured>>
  BY DEF Exit, vars
<1>3. exit' = ChildExitCode(fate) /\ stdout' = t /\ stage' = "exited"
  BY DEF Exit
<1>4. ExecTypeOK'
  BY <1>1, <1>2, <1>3 DEF ExecInv, ExecTypeOK
<1>5. Licensed'
  BY <1>2, <1>3 DEF ExecInv, ExecTypeOK, Licensed, Evaluate, Matches
<1>6. Passed'
  BY <1>2, <1>3 DEF Passed, ChildExitCode
<1> QED
  BY <1>4, <1>5, <1>6

LEMMA ExecInvKept ==
  ASSUME ExecInv, [ExecNext]_allVars
  PROVE  ExecInv'
<1> USE DEF Starting
<1>1. Safe'
  BY ExecIsPipeline, SafeKept DEF ExecInv
<1>2. ASSUME Usage \/ PolicyInvalid \/ PolicyDenies \/ SpawnFails \/ CompressReadFails
      PROVE  ExecTypeOK' /\ Licensed' /\ Passed'
  <2>1. stage = "start" /\ \E c \in Int : Exit(c, NoText)
    BY <1>2 DEF Usage, PolicyInvalid, PolicyDenies, SpawnFails, Permitted, CompressReadFails,
       ExitUsage, ExitPolicyDenied, ExitSpawnFailed
  <2> QED
    BY <2>1, ExitsEarly
<1>3. ASSUME Spawn PROVE ExecTypeOK' /\ Licensed' /\ Passed'
  BY <1>3 DEF Spawn, Permitted, ExecInv, ExecTypeOK, Licensed, Passed, Evaluate, Matches, vars
<1>4. ASSUME ChildEnds \/ CompressReads PROVE ExecTypeOK' /\ Licensed' /\ Passed'
  BY <1>4 DEF ChildEnds, CompressReads, ExecInv, ExecTypeOK, Licensed, Passed, Evaluate, Matches,
     vars
<1>5. ASSUME NoPipeline PROVE ExecTypeOK' /\ Licensed' /\ Passed'
  <2>1. err = "none" /\ captured \in Input
    BY <1>5, InputAssumption DEF NoPipeline, ExecInv, Passed
  <2>2. captured.text \in Text
    BY <2>1 DEF Input
  <2> QED
    BY <1>5, <2>1, <2>2, ExitsWith DEF NoPipeline
<1>6. ASSUME HandOver PROVE ExecTypeOK' /\ Licensed' /\ Passed'
  BY <1>6 DEF HandOver, Read, ExecInv, ExecTypeOK, Licensed, Passed, Evaluate, Matches
<1>7. ASSUME Piped PROVE ExecTypeOK' /\ Licensed' /\ Passed'
  <2>1. raw' = raw /\ pc' # "idle"
    BY <1>7, StepKeepsText DEF Piped, ExecInv, Safe, Passed, Next
  <2> QED
    BY <1>7, <2>1 DEF Piped, execVars, ExecInv, ExecTypeOK, Licensed, Passed, Evaluate, Matches
<1>8. ASSUME Emit PROVE ExecTypeOK' /\ Licensed' /\ Passed'
  <2>1. out \in Text /\ raw = AsRead(captured.text) /\ pc = "done"
    BY <1>8 DEF Emit, ExecInv, Passed, Safe, TypeOK
  <2> QED
    BY <1>8, <2>1, ExitsWith DEF Emit
<1>9. ASSUME UNCHANGED allVars PROVE ExecTypeOK' /\ Licensed' /\ Passed'
  BY <1>9 DEF allVars, execVars, vars, ExecInv, ExecTypeOK, Licensed, Passed, Evaluate, Matches,
     ChildExitCode
<1> QED
  BY <1>1, <1>2, <1>3, <1>4, <1>5, <1>6, <1>7, <1>8, <1>9 DEF ExecNext, Exited, ExecInv

\* In the commands, too, the invariants of the middleware hold, and the types.
THEOREM ExecInOrder == ExecSpec => []ExecInv
<1>1. ExecInit => ExecInv
  BY ExecInvInit
<1>2. ExecInv /\ [ExecNext]_allVars => ExecInv'
  BY ExecInvKept
<1> QED
  BY <1>1, <1>2, PTL DEF ExecSpec

\* No command runs that the policy does not let run, whatever its patterns, and
\* one that did not run writes nothing (run, Evaluate, Load).
THEOREM DeniedNeverEverRuns == ExecSpec => []DeniedNeverRuns
<1>1. ASSUME ExecInv PROVE DeniedNeverRuns
  <2>1. spawned => Evaluate = "allow" /\ argv \in {"empty", "command"}
    BY <1>1 DEF ExecInv, Licensed, ExecTypeOK
  <2> QED
    BY <1>1, <2>1 DEF ExecInv, Licensed, Evaluate, Matches, DeniedNeverRuns
<1> QED
  BY <1>1, ExecInOrder, PTL

\* The child's exit code and its output, or an answer in its place that says
\* something, come through, whatever becomes of the middleware (run,
\* emitCompressedAndReport).
THEOREM ChildAlwaysSpeaks == ExecSpec => []ChildSpeaksThrough
<1>1. ASSUME ExecInv PROVE ChildSpeaksThrough
  <2> SUFFICES ASSUME stage = "exited", spawned
               PROVE  /\ exit = (IF fate = -1 THEN 130 ELSE fate)
                      /\ err # "none" => stdout = AsRead(captured.text)
                      /\ Empty(stdout) => Empty(captured.text)
    BY DEF ChildSpeaksThrough
  <2>1. exit = ChildExitCode(fate) /\ fate \in Fates \cup {0}
    BY <1>1 DEF ExecInv, Passed, ExecTypeOK
  <2>2. CASE err = "none" /\ stdout = captured.text
    BY <2>1, <2>2, ChildCode
  <2>3. CASE pc = "done" /\ stdout = out /\ raw = AsRead(captured.text)
    <3>1. err # "none" \/ Empty(out) => out = raw
      BY <1>1, <2>3 DEF ExecInv, Safe, Answered
    <3> QED
      BY <2>1, <2>3, <3>1, ChildCode, AsReadEmpty
  <2> QED
    BY <1>1, <2>2, <2>3 DEF ExecInv, Passed
<1> QED
  BY <1>1, ExecInOrder, PTL

\* The middleware keeps FailOpen's promise in the commands as it does alone.
THEOREM ExecPromiseKept == ExecSpec => KeepsPromise
<1>1. ExecInit => FO!Init
  BY InitPromised DEF ExecInit
<1>2. ExecInv /\ [ExecNext]_allVars => [FO!Next]_FO!vars
  BY ExecIsPipeline, StepKeepsPromise DEF ExecInv, Safe
<1> QED
  BY <1>1, <1>2, ExecInOrder, PTL DEF ExecSpec, KeepsPromise, FO!Spec

\* And what holds of its processors, its answers and its telemetry alone, holds
\* of it in the commands.
THEOREM ExecMiddlewareSafe ==
  ExecSpec => [](/\ NoUninvitedProcessor /\ SignatureDecides /\ NativeNeverGrows
                 /\ CordonNeverWorsens /\ DeadlineIsTold)
<1>1. ExecInv => /\ NoUninvitedProcessor /\ SignatureDecides /\ NativeNeverGrows
                 /\ CordonNeverWorsens /\ DeadlineIsTold
  BY WinnerDecides DEF ExecInv, Safe, Course
<1> QED
  BY <1>1, ExecInOrder, PTL
=============================================================================
