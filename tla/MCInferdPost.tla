---------------------------- MODULE MCInferdPost ----------------------------
(* One call with one attachment, and a daemon that sends up to three frames: *)
(* text, more text and a terminal frame, in any order and cut anywhere.      *)
EXTENDS InferdPost
=============================================================================
