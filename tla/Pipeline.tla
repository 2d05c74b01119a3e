------------------------------ MODULE Pipeline ------------------------------
(* One invocation of the middleware: internal/middleware (Process, decide),  *)
(* the router's call to the model (internal/router), and the dispatcher that *)
(* runs native, script and prompt processors (internal/processors).          *)
(*                                                                           *)
(* Time passes in clock units of five seconds while a call is outstanding.   *)
(* What a model, a script or the daemon answers, and whether it ever does,   *)
(* is up to the environment.                                                 *)
(*                                                                           *)
(* An operator introduced as "Wrong on purpose" is a plausible mistake in    *)
(* the one that follows it: the properties below must notice it.             *)
EXTENDS ToolText, Integers, Sequences, FiniteSets

CONSTANTS
  Native, Script, Prompt,  \* the processors, by kind
  Signature,     \* those whose match pattern is a format signature
  Routable,      \* those the routing model may name (RouterEligible)
  Builtin,       \* those compiled into the binary; the others are the user's
  Ndjson,        \* the processors named "ndjson-filter"
  Cordon,        \* the processors named "cordon-filter"
  Rank,          \* position of a processor in the registry's order
  Strangers,     \* names a model may answer that no registry knows
  Inputs,        \* what tools print: [text, form, matched]
  Registries,    \* the sets of processors that may be installed
  Sizes,         \* sizes of what processors produce: [bytes, lines]
  MaxChain,      \* longest chain the model names (128 tokens bound it)
  InferdTimeout, \* deadline of one call to inferd
  ScriptTimeout, \* deadline of one script
  CordonTimeout, \* the cordon filter's own bound
  HelpersOutlive \* may a killed script leave a process holding its stdout?

Processors == Native \cup Script \cup Prompt

Forms == {"text", "binary", "structured"}

Input == [text : Text, form : Forms, matched : SUBSET Processors]

ASSUME KindAssumption ==
  /\ Native \cap Script = {} /\ Native \cap Prompt = {} /\ Script \cap Prompt = {}
  /\ Signature \subseteq Processors /\ Routable \subseteq Processors
  /\ Builtin \subseteq Processors /\ Native \subseteq Builtin
  /\ Ndjson \subseteq Processors /\ Cordon \subseteq Processors
  /\ Ndjson \cap Cordon = {}
  /\ Strangers \cap Processors = {}
  /\ "" \notin Processors
  /\ Rank \in [Processors -> Nat]
  /\ \A p, q \in Processors : Rank[p] = Rank[q] => p = q

ASSUME InputAssumption ==
  /\ Inputs \subseteq Input
  /\ \A i \in Inputs : i.text.src = "tool"
  /\ Registries \subseteq SUBSET Processors
  /\ Sizes \subseteq [bytes : Nat, lines : Nat]
  /\ \A s \in Sizes : s.lines <= s.bytes
  /\ MaxChain \in Nat

ASSUME TimeAssumption ==
  /\ InferdTimeout \in Nat \ {0} /\ ScriptTimeout \in Nat \ {0}
  /\ CordonTimeout \in Nat
  /\ HelpersOutlive \in BOOLEAN

MinBytesForRouting == 2000
CordonMinInputLines == 30

\* How long past its deadline a script is watched: a bound of the model only.
Overrun == 1

VARIABLES
  reg,    \* the processors installed: the registry, fixed for the process
  pc,     \* where the invocation stands
  input,  \* what the tool printed
  raw,    \* what Process read of it
  path,   \* telemetry's name for the branch taken
  chain,  \* the processors to run, in order
  k,      \* the one that runs now
  cur,    \* the text it was given
  waited, \* time spent in the outstanding call
  asked,  \* the router has put the text to the model
  ran,    \* the processors started so far
  err,    \* why the invocation fell back, or "none"
  inv,    \* the telemetry record
  out     \* the text written

vars == <<reg, pc, input, raw, path, chain, k, cur, waited, asked, ran, err, inv, out>>

PCs == {"idle", "decide", "route", "run", "cordon", "done"}

\* "worded" is an error of another kind whose text holds the words "timed out".
Errors == {"none", "deadline", "notready", "timedout", "worded", "other", "empty"}

NoInput == [text |-> NoText, form |-> "text", matched |-> {}]

NoInvocation ==
  [path |-> "", outcome |-> "", processor |-> "", fallback |-> ""]

-----------------------------------------------------------------------------
(* The registry: which processor takes a text without asking the model.      *)

\* Line shapes are coincidences in a binary container, so only signatures count.
Hits ==
  {d \in reg \cap input.matched : input.form = "binary" => d \in Signature}

\* Wrong on purpose: signatures compete with line shapes by name (issue #97).
FlatTier(d) == IF d \in Prompt THEN 4 ELSE 3

Tier(d) ==
  IF d \in Signature THEN (IF d \in Native THEN 1 ELSE 2)
  ELSE IF d \in Prompt THEN 4 ELSE 3

Before(d, e) ==
  \/ Tier(d) < Tier(e)
  \/ Tier(d) = Tier(e) /\ Rank[d] <= Rank[e]

RoutableNames == reg \cap Routable

-----------------------------------------------------------------------------
(* The processors: what one may answer to a text, and how its call may fail. *)

\* Whatever a processor makes of t: any of the sizes, or t itself.
Makes(t) ==
  {t} \cup {[src |-> IF Blank(t) THEN "conjured" ELSE "made",
             bytes |-> s.bytes, lines |-> s.lines] : s \in Sizes}

\* Wrong on purpose: a native filter's result is taken whatever its size.
Unguarded(r, t) == r

\* RunNativeCtx keeps a filter's result only if it is shorter, and the text
\* itself if the filter panics.
Shorter(r, t) == IF r.bytes >= t.bytes THEN t ELSE r

Answers(d, t) ==
  IF d \in Native THEN {Shorter(r, t) : r \in Makes(t)} ELSE Makes(t)

\* An entry file missing, rewritten since the scan, or failing; a daemon that
\* is not there, or answers an error.  What the script says on stderr, and what
\* the daemon says of its error, is part of the error's text.
Failures(d) ==
  CASE d \in Script -> {"other", "worded"}
    [] d \in Prompt -> {"notready", "other", "worded"}
    [] OTHER        -> {}

\* Wrong on purpose: a call is given one more unit than its deadline.
ExpiredLate(limit) == waited > limit

\* The deadline of the outstanding call has passed.
Expired(limit) == waited >= limit

\* How the error of a deadline that has passed reads.
Expiry(d) == IF d \in Script THEN "timedout" ELSE "deadline"

Limit(d) ==
  CASE d \in Script               -> ScriptTimeout
    [] d \in Prompt               -> InferdTimeout
    [] d \in Cordon \cap Native   -> CordonTimeout
    [] OTHER                      -> 0

-----------------------------------------------------------------------------
(* How an invocation ends.                                                   *)

Label(d) == IF d \in Builtin THEN d ELSE "user"

ChainLabel == IF Len(chain) = 1 THEN Label(chain[1]) ELSE "chain"

\* Wrong on purpose: a deadline recognised by the words "timed out" alone.
ReasonByWords(e) ==
  CASE e \in {"timedout", "worded"} -> "timeout"
    [] e = "notready"               -> "inferd_unreachable"
    [] e = "empty"                  -> "empty_output"
    [] OTHER                        -> "script_error"

\* A deadline is known by its sentinel or by the words, and the words are
\* looked for in the whole text of the error.
DispatchFailReason(e) ==
  CASE e \in {"deadline", "timedout", "worded"} -> "timeout"
    [] e = "notready"                           -> "inferd_unreachable"
    [] e = "empty"                              -> "empty_output"
    [] OTHER                                    -> "script_error"

RouterFailReason(e) ==
  CASE e = "deadline" -> "timeout"
    [] e = "notready" -> "inferd_unreachable"
    [] OTHER          -> "router_error"

\* decide returns t, and the telemetry record of how it came by it.
Return(t, p, outcome, processor, fallback) ==
  /\ pc' = "done"
  /\ out' = t
  /\ path' = p
  /\ inv' = [path |-> p, outcome |-> outcome,
             processor |-> processor, fallback |-> fallback]
  /\ UNCHANGED <<reg, input, raw, chain, k, cur, waited, asked, ran>>

Passthrough(p) ==
  /\ Return(raw, p, "passthrough", "", "")
  /\ UNCHANGED err

\* Wrong on purpose: a failure gives back what the chain had got to.
FallBackToCurrent(e, p, processor, reason) ==
  /\ Return(cur, p, "fallback", processor, reason)
  /\ err' = e

\* Every failure gives back the text as it was read.
FallBack(e, p, processor, reason) ==
  /\ Return(raw, p, "fallback", processor, reason)
  /\ err' = e

-----------------------------------------------------------------------------
(* decide, up to the first processor or the routing call.                    *)

Init ==
  /\ reg \in Registries
  /\ pc = "idle"
  /\ input = NoInput
  /\ raw = NoText
  /\ path = ""
  /\ chain = <<>>
  /\ k = 0
  /\ cur = NoText
  /\ waited = 0
  /\ asked = FALSE
  /\ ran = {}
  /\ err = "none"
  /\ inv = NoInvocation
  /\ out = NoText

\* Process reads the tool's output, ReadLimit bytes of it at most.
Read(i) ==
  /\ pc = "idle"
  /\ pc' = "decide"
  /\ input' = i
  /\ raw' = AsRead(i.text)
  /\ UNCHANGED <<reg, path, chain, k, cur, waited, asked, ran, err, inv, out>>

ShortCircuit ==
  /\ pc = "decide"
  /\ raw.bytes < MinBytesForRouting
  /\ Passthrough("short_circuit")

Considered == pc = "decide" /\ raw.bytes >= MinBytesForRouting

NoProcessors ==
  /\ Considered
  /\ reg = {}
  /\ Passthrough("passthrough")

\* A processor claims the text by its pattern: the first of the best tier.
FastPath ==
  /\ Considered
  /\ \E d \in Hits :
       /\ \A e \in Hits : Before(d, e)
       /\ chain' = <<d>>
       /\ ran' = {d}
  /\ pc' = "run"
  /\ path' = "fast_path"
  /\ k' = 1
  /\ cur' = raw
  /\ waited' = 0
  /\ UNCHANGED <<reg, input, raw, asked, err, inv, out>>

Unclaimed == Considered /\ reg # {} /\ Hits = {}

BinaryPassthrough ==
  /\ Unclaimed
  /\ input.form = "binary"
  /\ Passthrough("passthrough")

StructuredPassthrough ==
  /\ Unclaimed
  /\ input.form = "structured"
  /\ Passthrough("passthrough")

\* Ask, when no installed processor may be named by the model: no call is made.
NothingRoutable ==
  /\ Unclaimed
  /\ input.form = "text"
  /\ RoutableNames = {}
  /\ Passthrough("router")

AskRouter ==
  /\ Unclaimed
  /\ input.form = "text"
  /\ RoutableNames # {}
  /\ pc' = "route"
  /\ path' = "router"
  /\ waited' = 0
  /\ asked' = TRUE
  /\ UNCHANGED <<reg, input, raw, chain, k, cur, ran, err, inv, out>>

-----------------------------------------------------------------------------
(* The routing call.                                                         *)

\* What the model may answer; an answer that is not the JSON asked for reads
\* as the empty chain.
Replies ==
  UNION {[1..n -> Processors \cup Strangers] : n \in 0..MaxChain}

\* Wrong on purpose: names are checked against the whole registry.
KnownNames(names) ==
  IF \A n \in DOMAIN names : names[n] \in reg THEN names ELSE <<>>

\* One name that is not routable drops the whole chain.
ParseRouteResult(names) ==
  IF \A n \in DOMAIN names : names[n] \in RoutableNames THEN names ELSE <<>>

RouterDeclines ==
  /\ pc = "route"
  /\ \E names \in Replies : ParseRouteResult(names) = <<>>
  /\ Passthrough("router")

RouterNames ==
  /\ pc = "route"
  /\ \E names \in Replies :
       /\ ParseRouteResult(names) # <<>>
       /\ chain' = ParseRouteResult(names)
  /\ pc' = "run"
  /\ k' = 1
  /\ cur' = raw
  /\ waited' = 0
  /\ ran' = {chain'[1]}
  /\ UNCHANGED <<reg, input, raw, path, asked, err, inv, out>>

RouterFails ==
  /\ pc = "route"
  /\ \E e \in {"notready", "other"} :
       FallBack(e, "router", "", RouterFailReason(e))

RouterTimesOut ==
  /\ pc = "route"
  /\ Expired(InferdTimeout)
  /\ FallBack("deadline", "router", "", RouterFailReason("deadline"))

-----------------------------------------------------------------------------
(* Dispatcher.Run on the fast path, RunChain behind the router.              *)

\* The text is smaller than ndjson-filter's input looks like it should be:
\* fewer than three rows, or under 5% of the lines.
OverCollapsed(t, r) ==
  /\ t.lines >= CordonMinInputLines
  /\ r.lines < 3 \/ 20 * r.lines < t.lines

NeedsCordon(r) ==
  /\ path = "fast_path"
  /\ chain[1] \in Ndjson
  /\ OverCollapsed(raw, r)
  /\ reg \cap Cordon # {}

\* A processor in the middle of a chain: its answer, even an empty one, is the
\* next one's input.
NextStage ==
  /\ pc = "run"
  /\ k < Len(chain)
  /\ cur' \in Answers(chain[k], cur)
  /\ k' = k + 1
  /\ ran' = ran \cup {chain[k + 1]}
  /\ waited' = 0
  /\ UNCHANGED <<reg, pc, input, raw, path, chain, asked, err, inv, out>>

AnswerEmpty ==
  /\ pc = "run"
  /\ k = Len(chain)
  /\ \E r \in Answers(chain[k], cur) : Empty(r)
  /\ FallBack("empty", path, ChainLabel, DispatchFailReason("empty"))

AnswerKept ==
  /\ pc = "run"
  /\ k = Len(chain)
  /\ \E r \in Answers(chain[k], cur) :
       /\ ~Empty(r)
       /\ ~NeedsCordon(r)
       /\ Return(r, path, "compressed", ChainLabel, "")
  /\ UNCHANGED err

\* ndjson-filter collapsed too much: the cordon filter gets the same text.
TurnToCordon ==
  /\ pc = "run"
  /\ k = Len(chain)
  /\ cur' \in Answers(chain[k], cur)
  /\ ~Empty(cur')
  /\ NeedsCordon(cur')
  /\ pc' = "cordon"
  /\ ran' = ran \cup (reg \cap Cordon)
  /\ waited' = 0
  /\ UNCHANGED <<reg, input, raw, path, chain, k, asked, err, inv, out>>

StageFails ==
  /\ pc = "run"
  /\ \E e \in Failures(chain[k]) :
       FallBack(e, path, ChainLabel, DispatchFailReason(e))

StageTimesOut ==
  /\ pc = "run"
  /\ chain[k] \notin Native
  /\ Expired(Limit(chain[k]))
  /\ LET e == Expiry(chain[k])
     IN  FallBack(e, path, ChainLabel, DispatchFailReason(e))

-----------------------------------------------------------------------------
(* cordonFallback: cur holds what ndjson-filter made of the text.            *)

\* Wrong on purpose: more lines are better whatever they cost.
BetterByLines(r) == r # raw /\ ~Blank(r) /\ r.lines > cur.lines

Better(r) ==
  /\ r # raw
  /\ ~Blank(r)
  /\ r.lines > cur.lines
  /\ r.bytes < raw.bytes

KeepNdjson ==
  /\ Return(cur, "fast_path", "compressed", ChainLabel, "")
  /\ UNCHANGED err

CordonWins ==
  /\ pc = "cordon"
  /\ \E c \in reg \cap Cordon : \E r \in Answers(c, raw) :
       /\ Better(r)
       /\ Return(r, "fast_path", "compressed", "cordon-filter", "")
  /\ UNCHANGED err

CordonLoses ==
  /\ pc = "cordon"
  /\ \E c \in reg \cap Cordon : \E r \in Answers(c, raw) : ~Better(r)
  /\ KeepNdjson

CordonFails ==
  /\ pc = "cordon"
  /\ \E c \in reg \cap Cordon :
       \/ Failures(c) # {}
       \/ c \notin Native /\ Expired(Limit(c))
  /\ KeepNdjson

-----------------------------------------------------------------------------
(* Time, and the whole.                                                      *)

\* The longest the outstanding call can take.
CallLimit ==
  CASE pc = "route"  -> InferdTimeout
    [] pc = "run"    -> Limit(chain[k])
    [] pc = "cordon" -> Limit(CHOOSE c \in reg \cap Cordon : TRUE)
    [] OTHER         -> 0

\* Killing a script at its deadline does not end the call while a process it
\* started still holds its stdout: cmd.Run waits for the pipe.
PipeHeld == HelpersOutlive /\ pc = "run" /\ chain[k] \in Script

Tick ==
  /\ pc \in {"route", "run", "cordon"}
  /\ waited < CallLimit + (IF PipeHeld THEN Overrun ELSE 0)
  /\ waited' = waited + 1
  /\ UNCHANGED <<reg, pc, input, raw, path, chain, k, cur, asked, ran, err, inv, out>>

Decide ==
  \/ ShortCircuit \/ NoProcessors \/ FastPath
  \/ BinaryPassthrough \/ StructuredPassthrough
  \/ NothingRoutable \/ AskRouter

Stage == NextStage \/ AnswerEmpty \/ AnswerKept \/ TurnToCordon

CordonStep == CordonWins \/ CordonLoses

Step ==
  \/ Decide
  \/ RouterDeclines \/ RouterNames \/ RouterFails \/ RouterTimesOut
  \/ Stage \/ StageFails \/ StageTimesOut
  \/ CordonStep \/ CordonFails
  \/ Tick

Terminated == pc = "done" /\ UNCHANGED vars

Next ==
  \/ \E i \in Inputs : Read(i)
  \/ Step
  \/ Terminated

\* What goes on without the environment's help: the process's own code, its
\* compiled-in filters, its deadlines and the clock.
Own ==
  \/ Decide
  \/ RouterTimesOut \/ StageTimesOut \/ Tick
  \/ pc = "run" /\ chain[k] \in Native /\ Stage
  \/ pc = "cordon" /\ (CordonStep \/ CordonFails)

Spec == Init /\ [][Next]_vars /\ WF_vars(Own)

-----------------------------------------------------------------------------
(* What must hold.                                                           *)

Invocations ==
  [path : {"", "short_circuit", "passthrough", "fast_path", "router"},
   outcome : {"", "passthrough", "compressed", "fallback"},
   processor : Builtin \cup {"", "user", "chain", "cordon-filter"},
   fallback : {"", "timeout", "inferd_unreachable", "empty_output",
               "script_error", "router_error"}]

\* The types of the invocation's state.  A call is outstanding only with a
\* chain to run, the processor that runs belongs to it, the cordon filter is
\* tried only behind an answer, and a failure or an answer is the end.
TypeOK ==
  /\ reg \subseteq Processors
  /\ pc \in PCs
  /\ input \in Input
  /\ raw \in Text /\ raw.bytes <= ReadLimit
  /\ path \in {"", "short_circuit", "passthrough", "fast_path", "router"}
  /\ chain \in Seq(Processors)
  /\ k \in 0..Len(chain)
  /\ pc \in {"run", "cordon"} => k \in 1..Len(chain)
  /\ cur \in Text
  /\ waited \in Nat
  /\ asked \in BOOLEAN
  /\ ran \subseteq Processors
  /\ err \in Errors
  /\ inv \in Invocations
  /\ out \in Text
  /\ pc = "cordon" => ~Empty(cur)
  /\ pc # "done" => err = "none" /\ out = NoText

Phase ==
  CASE pc = "idle" -> "waiting"
    [] pc = "done" -> "answered"
    [] OTHER       -> "working"

FO == INSTANCE FailOpen WITH
  phase    <- Phase,
  given    <- raw,
  troubled <- err # "none",
  answer   <- out

\* The middleware keeps FailOpen's promise, whatever scripts, models and the
\* daemon do at whatever time: one answer, never an empty one in place of the
\* text, and the text as it was read if any stage failed, even when earlier
\* stages of the chain had already replaced it (middleware.go, decide).
KeepsPromise == FO!Spec

\* No processor sees a text it was not meant for: it claimed the text by its
\* pattern, or the model may name it, or it is the cordon filter behind
\* ndjson-filter.  A binary container is put before signatures only, and
\* neither it nor a structured document is put to the routing model
\* (MatchFastPath, parseRouteResult, decide's guards before Router.Ask).
NoUninvitedProcessor ==
  /\ \A p \in ran :
       \/ p \in input.matched
       \/ asked /\ p \in Routable
       \/ p \in Cordon /\ chain[1] \in Ndjson
  /\ input.form = "binary" => ran \subseteq Signature \cup Cordon
  /\ asked => input.form = "text" /\ reg \cap input.matched = {}

\* A format signature is decisive: no line-shape filter runs on a text that an
\* installed processor claims by signature; and no model is asked for a text
\* that a deterministic processor claims (MatchFastPath's tiers, issue #97).
SignatureDecides ==
  path = "fast_path" =>
    LET claims == reg \cap input.matched
    IN  /\ claims \cap Signature # {} => chain[1] \in Signature
        /\ claims \cap Signature \cap Native # {} => chain[1] \in Native
        /\ input.form # "binary" /\ claims \ Prompt # {}
             => chain[1] \notin Prompt \ Signature

\* As long as only compiled-in filters have worked on a text, it has not grown,
\* panics and the cordon detour included (RunNativeCtx's byte-win guard).
NativeNeverGrows ==
  pc = "done" /\ ran \subseteq Native => out.bytes <= raw.bytes

\* The cordon detour never worsens an answer: what goes out is ndjson-filter's
\* answer, or one that tells more in fewer bytes than the text itself, and a
\* failure of the detour is no failure of the invocation (cordonFallback).
CordonNeverWorsens ==
  pc = "done" /\ path = "fast_path" /\ chain[1] \in Ndjson /\ ran \cap Cordon # {} =>
    /\ err = "none"
    /\ out # cur => out.lines > cur.lines /\ out.bytes < raw.bytes

\* A call that used up its deadline is told as a timeout, whichever of the two
\* kinds of error it arrives as.  "timeout" is told of nothing else but a script
\* or prompt processor that failed with the words "timed out" in its own error;
\* inferd is called unreachable only if it was called; and every failure is
\* told as a fallback (dispatchFailReason, routerFailReason).
DeadlineIsTold ==
  pc = "done" =>
    /\ err \in {"deadline", "timedout"} => inv.fallback = "timeout"
    /\ inv.fallback = "timeout" =>
         \/ err = "deadline" /\ waited >= InferdTimeout
         \/ err = "timedout" /\ waited >= ScriptTimeout
         \/ err = "worded" /\ ran \ Native # {}
    /\ inv.fallback = "inferd_unreachable" => asked \/ ran \cap Prompt # {}
    /\ inv.outcome = "fallback" <=> err # "none"

\* Every call ends by its deadline: what "Hang beyond timeout => error (B8e)"
\* says of scripts (dispatch.go, runScript).
HangEndsAtTimeout == pc \in {"route", "run", "cordon"} => waited <= CallLimit
=============================================================================
