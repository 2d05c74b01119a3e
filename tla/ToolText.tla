------------------------------ MODULE ToolText ------------------------------
(* The texts that flow through the middleware: what a tool printed, and what *)
(* processors make of it.  A text is known by its size in bytes, by the      *)
(* number of its non-blank lines, and by where it comes from:                *)
(*   "tool"      the tool's own bytes, untouched                             *)
(*   "cut"       the first ReadLimit bytes of a longer tool output           *)
(*   "made"      derived by a processor from a text that said something      *)
(*   "conjured"  produced by a processor that was handed a blank text        *)
EXTENDS Naturals

\* maxBytes of readAll: 64 << 20.
ReadLimit == 64 * 1024 * 1024

Text == [src : {"tool", "cut", "made", "conjured"}, bytes : Nat, lines : Nat]

NoText == [src |-> "tool", bytes |-> 0, lines |-> 0]

\* out == "" in decide: not a single byte.
Empty(t) == t.bytes = 0

\* strings.TrimSpace(out) == "": bytes perhaps, but no line that says anything.
Blank(t) == t.lines = 0

\* What readAll keeps of a text: an io.LimitReader drops the rest in silence.
AsRead(t) ==
  IF t.bytes <= ReadLimit THEN t
  ELSE [src |-> "cut", bytes |-> ReadLimit, lines |-> t.lines]
=============================================================================
