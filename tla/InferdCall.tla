----------------------------- MODULE InferdCall -----------------------------
(* What the rest of the program relies on when it calls inferd: the call     *)
(* ends one of a few ways, and the name of the way is true.  This is the     *)
(* contract Pipeline's routing call and prompt processors are modelled with; *)
(* InferdPost is shown to implement it.                                      *)

VARIABLES
  call,    \* "before", "out", or how it ended
  expired  \* the call's deadline has passed

vars == <<call, expired>>

Init == call = "before" /\ expired = FALSE

Begin ==
  /\ call = "before"
  /\ call' = "out"
  /\ UNCHANGED expired

Expire ==
  /\ call = "out"
  /\ ~expired
  /\ expired' = TRUE
  /\ UNCHANGED call

\* An answer or an unreachable daemon may be reported at any time, a blown
\* deadline only after it passed, and any other fault only before.
End ==
  /\ call = "out"
  /\ call' \in {"answer", "notready"} \cup (IF expired THEN {"deadline"} ELSE {"fault"})
  /\ UNCHANGED expired

Next == Begin \/ Expire \/ End

Spec == Init /\ [][Next]_vars
=============================================================================
