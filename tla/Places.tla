------------------------------- MODULE Places -------------------------------
(* Reading a list, and what it holds at some of its places.                  *)
EXTENDS Integers, Sequences

\* Reads a list from left to right: Step(state, place, element).
Scan(Step(_, _, _), start, seq) ==
  LET after[n \in 0..Len(seq)] ==
        IF n = 0 THEN start ELSE Step(after[n - 1], n, seq[n])
  IN  after[Len(seq)]

\* The elements of a sequence at some of its places, or those that pass a
\* test, in their order.
AtPlaces(seq, places) ==
  LET upTo[n \in 0..Len(seq)] ==
        IF n = 0 THEN <<>>
        ELSE IF n \in places THEN Append(upTo[n - 1], seq[n]) ELSE upTo[n - 1]
  IN  upTo[Len(seq)]

Select(seq, Test(_)) == AtPlaces(seq, {i \in DOMAIN seq : Test(seq[i])})
=============================================================================
