------------------------------ MODULE FailOpen ------------------------------
(* What the middleware promises to whoever hands it a tool's output: one     *)
(* answer, and an answer that is either what was handed in or a replacement  *)
(* that is not empty; if anything went wrong on the way to the answer, it is *)
(* what was handed in ("always succeed, always produce output", ADR 0006).   *)
(* Pipeline is shown to implement this module.                               *)
EXTENDS ToolText

VARIABLES
  phase,    \* "waiting" for a text, "working" on it, "answered"
  given,    \* the text handed in, as far as it is read
  troubled, \* a step on the way to the answer failed
  answer    \* the text handed back

vars == <<phase, given, troubled, answer>>

Init ==
  /\ phase = "waiting"
  /\ given = NoText
  /\ troubled = FALSE
  /\ answer = NoText

\* A text of any size is handed in; no more than ReadLimit bytes are taken.
Accept ==
  /\ phase = "waiting"
  /\ phase' = "working"
  /\ given' \in Text
  /\ given'.bytes <= ReadLimit
  /\ UNCHANGED <<troubled, answer>>

\* The one answer: the text itself, or one that says something in its place.
Answer ==
  /\ phase = "working"
  /\ phase' = "answered"
  /\ answer' \in Text
  /\ answer' # given => ~Empty(answer')
  /\ troubled' \in BOOLEAN
  /\ troubled' => answer' = given
  /\ UNCHANGED given

Next == Accept \/ Answer

Spec == Init /\ [][Next]_vars
=============================================================================
