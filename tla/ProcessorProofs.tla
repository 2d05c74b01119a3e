-------------------------- MODULE ProcessorProofs --------------------------
(* Proofs about the processors: one call to inferd, for requests with any    *)
(* number of attachments and daemons that send any number of frames; and the *)
(* native filters that read line by line, for tools that print any of their  *)
(* lines in any order and number.                                            *)
(*                                                                           *)
(* Of a filter the inductive invariant says which states it may be in after  *)
(* the first n lines, its output so far related to what these lines are; the *)
(* filter is then said to be on course.                                      *)
EXTENDS InferdPost, CommandText, HookSettingsProofs, FiniteSetTheorems

-----------------------------------------------------------------------------
(* A call to inferd: the typing, its course, that an answer is whole, and   *)
(* the refinement of the contract InferdCall.                                *)

\* Where a call may be.
Stages == {"start", "dial", "write", "read", "unwind", "returned"}

\* The type invariant of a call.
TypeOK ==
  /\ pc \in Stages
  /\ ctx \in {"live", "expired"}
  /\ dog \in {"none", "watching", "gone"}
  /\ conn \in {"none", "open", "closed"}
  /\ unsent \in Nat
  /\ wire \in Seq(Frames)
  /\ sent \in 0..MaxFrames
  /\ daemon \in {"up"} \cup Ends
  /\ texts \in Nat
  /\ ended \in BOOLEAN
  /\ pend \in Outcomes \cup {"none"}
  /\ result \in Outcomes \cup {"none"}

\* A deadline exists from the dial on, a connection and something to write
\* behind it.
Underway ==
  /\ pc = "start" => ctx = "live"
  /\ pc = "write" => unsent > 0

\* What Post is about to return says what it has seen: a terminal frame is an
\* answer and nothing else is one but texts that the daemon broke off; a
\* deadline has passed.
Seen ==
  /\ pc \notin {"unwind", "returned"} => ~ended
  /\ pc \in {"unwind", "returned"} => pend \in Outcomes
  /\ ended => pend = "answer"
  /\ pend = "answer" /\ ~ended => daemon # "up" /\ texts > 0
  /\ pend = "deadline" => ctx = "expired"

\* Its caller gets that, under the name the deferred calls gave it: after the
\* return the deadline is over and nothing of it changes any more.
Passed ==
  /\ pc # "returned" => result = "none"
  /\ pc = "returned" => result = Reported(pend)

\* The inductive invariant of a call.
CallInv == TypeOK /\ Underway /\ Seen /\ Passed

-----------------------------------------------------------------------------

\* What reading one frame leaves of the typing.
LEMMA FrameRead ==
  ASSUME TypeOK, NEW f, ReadFrame(f)
  PROVE  wire' \in Seq(Frames)
BY DEF TypeOK, ReadFrame

\* Of what readResult says of a broken stream, an answer needs texts and a
\* deadline an expired context.
LEMMA ReadErrors ==
  ASSUME NEW e
  PROVE  /\ ReadError(e) \in Outcomes
         /\ ReadError(e) = "answer" => texts > 0 /\ e = "EOF"
         /\ ReadError(e) = "deadline" => ctx = "expired"
BY DEF ReadError, Outcomes

\* A closed connection is no end of the stream.
LEMMA ClosedIsNoAnswer == ReadError("closed") # "answer"
BY DEF ReadError

\* A call begins on course,
LEMMA CallInvInit ==
  ASSUME Init
  PROVE  CallInv
<1>1. wire \in Seq(Frames) /\ sent \in 0..MaxFrames
  BY BoundAssumption DEF Init
<1>2. TypeOK
  BY <1>1 DEF Init, TypeOK, Stages
<1> QED
  BY <1>2 DEF Init, CallInv, Underway, Seen, Passed

\* and stays on it while it dials,
LEMMA DialKeepsInv ==
  ASSUME CallInv, Start \/ DialSucceeds \/ DialFails \/ DialTimesOut
  PROVE  CallInv'
<1> USE DEF CallInv, TypeOK, Stages, Underway, Seen, Passed, Outcomes, Returning
<1>1. CASE Start
  BY <1>1 DEF Start
<1>2. CASE DialSucceeds
  BY <1>2, BoundAssumption DEF DialSucceeds
<1>3. CASE DialFails
  BY <1>3 DEF DialFails
<1>4. CASE DialTimesOut
  BY <1>4 DEF DialTimesOut
<1> QED
  BY <1>1, <1>2, <1>3, <1>4

\* while it writes,
LEMMA WriteKeepsInv ==
  ASSUME CallInv, WriteFrame \/ WriteFails \/ FrameRefused
  PROVE  CallInv'
<1> USE DEF CallInv, TypeOK, Stages, Underway, Seen, Passed, Outcomes, Returning
<1>1. CASE WriteFrame
  BY <1>1 DEF WriteFrame
<1>2. CASE WriteFails
  BY <1>2 DEF WriteFails
<1>3. CASE FrameRefused
  BY <1>3 DEF FrameRefused
<1> QED
  BY <1>1, <1>2, <1>3

\* while it reads,
LEMMA ReadKeepsInv ==
  ASSUME CallInv, ReadText \/ ReadIgnored \/ ReadDone \/ ReadFault \/ ReadEnd \/ ReadClosed
  PROVE  CallInv'
<1> wire' \in Seq(Frames)
  BY FrameRead DEF CallInv, TypeOK, ReadText, ReadIgnored, ReadDone, ReadFault, ReadEnd, ReadClosed
<1> USE DEF CallInv, TypeOK, Stages, Underway, Seen, Passed, Returning
<1>1. CASE ReadText
  BY <1>1 DEF ReadText, ReadFrame
<1>2. CASE ReadIgnored
  BY <1>2 DEF ReadIgnored, ReadFrame
<1>3. CASE ReadDone
  BY <1>3 DEF ReadDone, ReadFrame, Outcomes
<1>4. CASE ReadFault
  BY <1>4 DEF ReadFault, ReadFrame, Outcomes
<1>5. CASE ReadEnd
  <2>1. pend' = ReadError(EndError(daemon)) /\ daemon # "up"
    BY <1>5 DEF ReadEnd
  <2>2. /\ pend' \in Outcomes
        /\ pend' = "answer" => texts > 0
        /\ pend' = "deadline" => ctx = "expired"
    BY <2>1, ReadErrors
  <2> QED
    BY <1>5, <2>1, <2>2 DEF ReadEnd
<1>6. CASE ReadClosed
  <2>1. pend' = ReadError("closed")
    BY <1>6 DEF ReadClosed
  <2>2. /\ pend' \in Outcomes /\ pend' # "answer"
        /\ pend' = "deadline" => ctx = "expired"
    BY <2>1, ReadErrors, ClosedIsNoAnswer
  <2> QED
    BY <1>6, <2>2 DEF ReadClosed
<1> QED
  BY <1>1, <1>2, <1>3, <1>4, <1>5, <1>6

\* What the deferred calls make of an outcome is one again.
LEMMA ReportedOutcome ==
  ASSUME pend \in Outcomes
  PROVE  Reported(pend) \in Outcomes
BY DEF Reported, Outcomes

\* when it returns,
LEMMA UnwindKeepsInv ==
  ASSUME CallInv, Unwind
  PROVE  CallInv'
<1>1. Reported(pend) \in Outcomes
  BY ReportedOutcome DEF CallInv, Seen, Unwind
<1>2. Reported(pend)' = Reported(pend)
  BY DEF Unwind, Reported
<1>3. conn' \in {"none", "open", "closed"}
  BY DEF Unwind, ClosedOnReturn
<1> QED
  BY <1>1, <1>2, <1>3 DEF Unwind, CallInv, TypeOK, Stages, Underway, Seen, Passed

\* The clock, the watchdog and the daemon touch neither Post's outcome nor,
\* once it has returned, anything the outcome depends on.
LEMMA OthersKeepInv ==
  ASSUME CallInv, Expire \/ Watchdog \/ DaemonSends \/ DaemonGoesAway
  PROVE  CallInv'
<1> USE DEF CallInv, TypeOK, Stages, Underway, Seen, Passed
<1>1. CASE Expire
  BY <1>1 DEF Expire
<1>2. CASE Watchdog
  BY <1>2 DEF Watchdog, WatchdogFires, WatchdogStops, DogCloses, Reported
<1>3. CASE DaemonSends
  <2>1. wire' \in Seq(Frames)
    BY <1>3 DEF DaemonSends
  <2>2. sent' \in 0..MaxFrames
    BY <1>3, BoundAssumption DEF DaemonSends
  <2> QED
    BY <1>3, <2>1, <2>2 DEF DaemonSends
<1>4. CASE DaemonGoesAway
  BY <1>4 DEF DaemonGoesAway
<1> QED
  BY <1>1, <1>2, <1>3, <1>4

\* and so in every step.
LEMMA CallInvStep ==
  ASSUME CallInv, [Next]_vars
  PROVE  CallInv'
<1>1. CASE UNCHANGED vars
  BY <1>1 DEF vars, CallInv, TypeOK, Underway, Seen, Passed, Reported
<1> QED
  BY <1>1, DialKeepsInv, WriteKeepsInv, ReadKeepsInv, UnwindKeepsInv, OthersKeepInv
     DEF Next, Client, Daemon, Terminated

\* Every call is well typed and on course, whatever the daemon, the clock and
\* the watchdog do in between.
THEOREM CallOnCourse == Spec => []CallInv
<1>1. Init => CallInv
  BY CallInvInit
<1>2. CallInv /\ [Next]_vars => CallInv'
  BY CallInvStep
<1> QED
  BY <1>1, <1>2, PTL DEF Spec

\* For every request and every daemon: an answer that was read to its end is
\* returned as one, and a part of an answer only if the daemon broke it off.
THEOREM CompleteAnswerAlwaysKept == Spec => []CompleteAnswerKept
<1>1. CallInv => CompleteAnswerKept
  BY DEF CallInv, Seen, Passed, Reported, Outcomes, CompleteAnswerKept
<1> QED
  BY <1>1, CallOnCourse, PTL

-----------------------------------------------------------------------------
(* Post implements InferdCall: Start is Begin, Expire is Expire, Unwind is   *)
(* End, everything in between is a stutter.                                  *)

\* Where Post is neither entered nor left, the call is out before and after.
LEMMA StillOut ==
  ASSUME pc \notin {"start", "returned"}, pc' \notin {"start", "returned"}, UNCHANGED ctx
  PROVE  UNCHANGED Contract!vars
BY DEF Contract!vars

\* The return ends the call, with an outcome that the contract allows.
LEMMA UnwindEnds ==
  ASSUME CallInv, Unwind
  PROVE  Contract!End
<1>1. Reported(pend) \in {"answer", "notready"} \cup
        (IF ctx = "expired" THEN {"deadline"} ELSE {"fault"})
  BY DEF CallInv, Seen, Unwind, Reported, Outcomes
<1>2. pc = "unwind" /\ pc' = "returned" /\ result' = Reported(pend) /\ ctx' = ctx
  BY DEF Unwind
<1> QED
  BY <1>1, <1>2 DEF Contract!End

\* Every step is one of the contract, or a stutter.
LEMMA StepKeepsContract ==
  ASSUME CallInv, [Next]_vars
  PROVE  [Contract!Next]_(Contract!vars)
<1>1. CASE Start
  BY <1>1 DEF Start, CallInv, Underway, Contract!Begin, Contract!Next
<1>2. CASE Expire
  BY <1>2 DEF Expire, Contract!Expire, Contract!Next
<1>3. CASE Unwind
  BY <1>3, UnwindEnds DEF Contract!Next
<1>4. CASE FrameRefused \/ DialTimesOut \/ WriteFails \/ DialSucceeds \/ DialFails
             \/ WriteFrame \/ DaemonSends \/ DaemonGoesAway
  BY <1>4, StillOut DEF FrameRefused, DialTimesOut, WriteFails, DialSucceeds, DialFails,
     WriteFrame, DaemonSends, DaemonGoesAway, Returning
<1>5. CASE ReadText \/ ReadIgnored \/ ReadDone \/ ReadFault \/ ReadEnd \/ ReadClosed
  BY <1>5, StillOut DEF ReadText, ReadIgnored, ReadDone, ReadFault, ReadEnd, ReadClosed,
     ReadFrame, Returning
<1>6. CASE Watchdog \/ Terminated \/ UNCHANGED vars
  BY <1>6 DEF Watchdog, WatchdogFires, WatchdogStops, Terminated, vars, Contract!vars
<1> QED
  BY <1>1, <1>2, <1>3, <1>4, <1>5, <1>6 DEF Next, Client, Daemon

\* For every request and every daemon Post keeps the contract the middleware is
\* written against.
THEOREM ContractKept == Spec => KeepsContract
<1>1. Init => Contract!Init
  BY DEF Init, Contract!Init
<1>2. CallInv /\ [Next]_vars => [Contract!Next]_(Contract!vars)
  BY StepKeepsContract
<1> QED
  BY <1>1, <1>2, CallOnCourse, PTL DEF Spec, KeepsContract, Contract!Spec

-----------------------------------------------------------------------------
(* Strip: what is left of a model's answer.                                  *)

\* Where a block that opens at i closes: at the first closing marker within the
\* limit, if there is one.
LEMMA ClosesWhere ==
  ASSUME NEW E, NEW s \in Seq(E), NEW limit \in Nat, NEW i \in 1..Len(s)
  PROVE  LET c == ClosesAt(s, i, limit)
         IN  /\ c \in Nat
             /\ c # 0 => /\ c \in i + 2..Len(s) /\ c <= i + 1 + limit /\ s[c] = "<channel|>"
                         /\ \A k \in i + 2..c - 1 : s[k] # "<channel|>"
             /\ \A k \in i + 2..Len(s) : k <= i + 1 + limit /\ s[k] = "<channel|>" => c # 0 /\ c <= k
<1> DEFINE top == Min({Len(s), i + 1 + limit})
           I == {k \in i + 2..top : s[k] = "<channel|>"}
           c == ClosesAt(s, i, limit)
<1>1. Len(s) \in Nat /\ i \in Nat
  OBVIOUS
<1>2. top \in {Len(s), i + 1 + limit} /\ top <= Len(s) /\ top <= i + 1 + limit
  <2>1. {Len(s), i + 1 + limit} \subseteq Nat /\ {Len(s), i + 1 + limit} # {}
    BY <1>1
  <2>2. \A S : S \subseteq Nat /\ S # {} => Min(S) \in S /\ \A x \in S : Min(S) <= x
    BY MinOf
  <2> QED
    BY <2>1, <2>2
<1>3. top \in Nat
  BY <1>1, <1>2
<1>4. c = IF I # {} THEN Min(I) ELSE 0
  BY DEF ClosesAt, SelectInSubSeq
<1> HIDE DEF c, top
<1>5. I # {} => Min(I) \in I /\ \A k \in I : Min(I) <= k
  <2>1. I \subseteq Nat
    BY <1>1, <1>3
  <2> HIDE DEF I
  <2> QED
    BY <2>1, MinOf
<1>6. CASE I = {}
  <2>1. c = 0
    BY <1>4, <1>6
  <2>2. ASSUME NEW k \in i + 2..Len(s), k <= i + 1 + limit, s[k] = "<channel|>" PROVE FALSE
    <3>1. k \in i + 2..top
      BY <1>1, <1>2, <2>2
    <3> QED
      BY <1>6, <2>2, <3>1
  <2> QED
    BY <2>1, <2>2 DEF c
<1>7. CASE I # {}
  <2>1. c = Min(I) /\ c \in I /\ \A k \in I : c <= k
    BY <1>4, <1>5, <1>7
  <2>2. c \in i + 2..top /\ s[c] = "<channel|>"
    BY <2>1
  <2>3. c \in i + 2..Len(s) /\ c <= i + 1 + limit /\ c \in Nat /\ c # 0
    BY <1>1, <1>2, <1>3, <2>2
  <2>4. ASSUME NEW k \in i + 2..c - 1 PROVE s[k] # "<channel|>"
    <3>1. k \in i + 2..top /\ ~(c <= k)
      BY <1>1, <1>3, <2>2, <2>3
    <3> QED
      BY <2>1, <3>1
  <2>5. ASSUME NEW k \in i + 2..Len(s), k <= i + 1 + limit, s[k] = "<channel|>" PROVE c <= k
    <3>1. k \in i + 2..top
      BY <1>1, <1>2, <2>5
    <3> QED
      BY <2>1, <2>5, <3>1
  <2> QED
    BY <2>2, <2>3, <2>4, <2>5 DEF c
<1> QED
  BY <1>6, <1>7

\* Token k is in a block that opens at from or later; the tokens from there on
\* that are in none.
Covered(s, limit, from, k) ==
  \E j \in from..Len(s) : /\ OpensAt(s, j) /\ ClosesAt(s, j, limit) # 0
                          /\ j <= k /\ k <= ClosesAt(s, j, limit)

LeftFrom(s, limit, from) == {k \in from..Len(s) : ~Covered(s, limit, from, k)}

\* What is left from a token on, by what is left further on: blocks that open
\* within another end with it, and no block opens at the second token of one.
LEMMA LeftStep ==
  ASSUME NEW E, NEW s \in Seq(E), NEW limit \in Nat, NEW i \in 1..Len(s)
  PROVE  LET c == ClosesAt(s, i, limit)
         IN  /\ ~OpensAt(s, i) => LeftFrom(s, limit, i) = {i} \cup LeftFrom(s, limit, i + 1)
             /\ OpensAt(s, i) /\ c # 0 => LeftFrom(s, limit, i) = LeftFrom(s, limit, c + 1)
             /\ OpensAt(s, i) /\ c = 0 =>
                  LeftFrom(s, limit, i) = {i} \cup ({i + 1} \cup LeftFrom(s, limit, i + 2))
<1> DEFINE m == Len(s)
           C(j) == ClosesAt(s, j, limit)
           c == C(i)
<1>1. m \in Nat /\ i \in Nat /\ i <= m
  OBVIOUS
<1>2. \A j \in 1..m : /\ C(j) \in Nat
                      /\ C(j) # 0 => /\ C(j) \in j + 2..m /\ C(j) <= j + 1 + limit /\ s[C(j)] = "<channel|>"
                                     /\ \A k \in j + 2..C(j) - 1 : s[k] # "<channel|>"
                      /\ \A k \in j + 2..m : k <= j + 1 + limit /\ s[k] = "<channel|>" => C(j) # 0 /\ C(j) <= k
  BY ClosesWhere
<1> HIDE DEF C, m
<1>3. \A j, k : Covered(s, limit, j, k) <=>
        \E b \in j..m : OpensAt(s, b) /\ C(b) # 0 /\ b <= k /\ k <= C(b)
  BY DEF Covered, C, m
<1>4. \A j, k : k \in LeftFrom(s, limit, j) <=> k \in j..m /\ ~Covered(s, limit, j, k)
  BY DEF LeftFrom, m
<1>5. \A j \in 1..m : OpensAt(s, j) => s[j] = "<|channel>" /\ s[j + 1] = "thought" /\ j < m
  BY DEF OpensAt, m
<1>6. ASSUME ~OpensAt(s, i) PROVE LeftFrom(s, limit, i) = {i} \cup LeftFrom(s, limit, i + 1)
  <2>1. \A b \in i..m : OpensAt(s, b) => b \in i + 1..m
    BY <1>1, <1>6
  <2>2. \A k : Covered(s, limit, i, k) <=> Covered(s, limit, i + 1, k)
    <3>1. \A b \in i + 1..m : b \in i..m
      BY <1>1
    <3> QED
      BY <1>3, <2>1, <3>1
  <2>3. ~Covered(s, limit, i + 1, i)
    BY <1>1, <1>3
  <2>4. \A k : k \in i..m <=> k = i \/ k \in i + 1..m
    BY <1>1
  <2> QED
    BY <1>4, <2>2, <2>3, <2>4
<1>7. ASSUME OpensAt(s, i), c # 0 PROVE LeftFrom(s, limit, i) = LeftFrom(s, limit, c + 1)
  <2>1. /\ c \in i + 2..m /\ c <= i + 1 + limit /\ s[c] = "<channel|>" /\ c \in Nat
        /\ \A k \in i + 2..c - 1 : s[k] # "<channel|>"
    BY <1>1, <1>2, <1>7
  <2>2. ASSUME NEW b \in i..m, OpensAt(s, b), b <= c PROVE C(b) <= c
    <3>1. b \in 1..m /\ s[b] = "<|channel>" /\ s[b + 1] = "thought"
      BY <1>1, <1>5, <2>2
    <3>2. CASE b = i
      BY <1>1, <2>1, <3>2
    <3>3. CASE b # i
      <4>1. b # c /\ b + 1 # c
        BY <2>1, <3>1
      <4>2. c \in b + 2..m /\ c <= b + 1 + limit
        BY <1>1, <2>1, <2>2, <3>1, <3>3, <4>1
      <4> QED
        BY <1>2, <2>1, <3>1, <4>2
    <3> QED
      BY <3>2, <3>3
  <2>3. \A k \in i..c : Covered(s, limit, i, k)
    <3>1. i \in i..m /\ C(i) # 0 /\ \A k \in i..c : i <= k /\ k <= C(i)
      BY <1>1, <1>7, <2>1
    <3> QED
      BY <1>3, <1>7, <3>1
  <2>4. ASSUME NEW k \in c + 1..m PROVE Covered(s, limit, i, k) <=> Covered(s, limit, c + 1, k)
    <3>1. ASSUME NEW b \in i..m, OpensAt(s, b), C(b) # 0, b <= k, k <= C(b) PROVE b \in c + 1..m
      <4>1. ~(b <= c)
        <5>1. b \in 1..m
          BY <1>1
        <5>2. C(b) \in Nat
          BY <1>2, <5>1
        <5> QED
          BY <2>1, <2>2, <3>1, <5>2
      <4> QED
        BY <1>1, <2>1, <4>1
    <3>2. \A b \in c + 1..m : b \in i..m
      BY <1>1, <2>1
    <3> QED
      BY <1>3, <3>1, <3>2
  <2>5. \A k : k \in i..m <=> k \in i..c \/ k \in c + 1..m
    BY <1>1, <2>1
  <2> QED
    BY <1>4, <2>3, <2>4, <2>5
<1>8. ASSUME OpensAt(s, i), c = 0
      PROVE  LeftFrom(s, limit, i) = {i} \cup ({i + 1} \cup LeftFrom(s, limit, i + 2))
  <2>1. i < m /\ s[i + 1] = "thought"
    BY <1>1, <1>5, <1>8
  <2>2. ~OpensAt(s, i + 1)
    <3>1. i + 1 \in 1..m
      BY <1>1, <2>1
    <3> QED
      BY <1>5, <2>1, <3>1
  <2>3. \A b \in i..m : OpensAt(s, b) /\ C(b) # 0 => b \in i + 2..m
    <3>1. \A b \in i..m : b = i \/ b = i + 1 \/ b \in i + 2..m
      BY <1>1
    <3> QED
      BY <1>8, <2>2, <3>1
  <2>4. \A k : Covered(s, limit, i, k) <=> Covered(s, limit, i + 2, k)
    <3>1. \A b \in i + 2..m : b \in i..m
      BY <1>1
    <3> QED
      BY <1>3, <2>3, <3>1
  <2>5. ~Covered(s, limit, i + 2, i) /\ ~Covered(s, limit, i + 2, i + 1)
    BY <1>1, <1>3
  <2>6. \A k : k \in i..m <=> k = i \/ k = i + 1 \/ k \in i + 2..m
    BY <1>1, <2>1
  <2> QED
    BY <1>4, <2>4, <2>5, <2>6
<1> QED
  BY <1>6, <1>7, <1>8 DEF C

\* Nothing is left behind the last token.
LEMMA LeftEnd ==
  ASSUME NEW E, NEW s \in Seq(E), NEW limit
  PROVE  LeftFrom(s, limit, Len(s) + 1) = {}
<1>1. Len(s) \in Nat
  OBVIOUS
<1> QED
  BY <1>1 DEF LeftFrom

\* The elements at one place and at places behind it.
LEMMA AtPlacesFrom ==
  ASSUME NEW E, NEW seq \in Seq(E), NEW i \in 1..Len(seq), NEW T, T \subseteq i + 1..Len(seq)
  PROVE  AtPlaces(seq, {i} \cup T) = <<seq[i]>> \o AtPlaces(seq, T)
<1> DEFINE m == Len(seq)
           f == PlacesUpTo(seq, T)
           g == PlacesUpTo(seq, {i} \cup T)
<1>1. m \in Nat /\ i \in 1..m /\ seq[i] \in E
  OBVIOUS
<1>2. /\ AtPlaces(seq, T) = f[m] /\ f[0] = <<>>
      /\ \A n \in 1..m : f[n] = IF n \in T THEN Append(f[n - 1], seq[n]) ELSE f[n - 1]
  BY AtPlacesDef
<1>3. /\ AtPlaces(seq, {i} \cup T) = g[m] /\ g[0] = <<>>
      /\ \A n \in 1..m : g[n] = IF n \in {i} \cup T THEN Append(g[n - 1], seq[n]) ELSE g[n - 1]
  BY AtPlacesDef
<1> HIDE DEF f, g, m
<1> DEFINE S == {n \in Nat : n <= m => f[n] \in Seq(E) /\ IF n < i THEN f[n] = <<>> /\ g[n] = <<>>
                                                                 ELSE g[n] = <<seq[i]>> \o f[n]}
<1>4. 0 \in S
  <2>1. 0 < i /\ <<>> \in Seq(E)
    BY <1>1
  <2>2. f[0] \in Seq(E) /\ f[0] = <<>> /\ g[0] = <<>>
    BY <1>2, <1>3, <2>1
  <2> QED
    BY <2>1, <2>2
<1>5. ASSUME NEW n \in Nat, n \in S PROVE n + 1 \in S
  <2> SUFFICES ASSUME n + 1 <= m
               PROVE  f[n + 1] \in Seq(E) /\ IF n + 1 < i THEN f[n + 1] = <<>> /\ g[n + 1] = <<>>
                                              ELSE g[n + 1] = <<seq[i]>> \o f[n + 1]
    OBVIOUS
  <2>1. n + 1 \in 1..m /\ (n + 1) - 1 = n /\ n <= m
    BY <1>1
  <2>2. /\ f[n + 1] = IF n + 1 \in T THEN Append(f[n], seq[n + 1]) ELSE f[n]
        /\ g[n + 1] = IF n + 1 \in {i} \cup T THEN Append(g[n], seq[n + 1]) ELSE g[n]
    BY <1>2, <1>3, <2>1
  <2>3. f[n] \in Seq(E) /\ seq[n + 1] \in E
    BY <1>5, <2>1 DEF m
  <2>4. f[n + 1] \in Seq(E)
    BY <2>2, <2>3
  <2>5. CASE n + 1 < i
    <3>1. n + 1 \notin T /\ n + 1 # i /\ n < i
      BY <1>1, <2>1, <2>5
    <3> QED
      BY <1>5, <2>1, <2>2, <2>4, <2>5, <3>1
  <2>6. CASE n + 1 = i
    <3>1. n + 1 \notin T /\ n < i
      BY <1>1, <2>1, <2>6
    <3>2. f[n] = <<>> /\ g[n] = <<>>
      BY <1>5, <2>1, <3>1
    <3>3. f[n + 1] = <<>> /\ g[n + 1] = Append(<<>>, seq[i])
      BY <2>2, <2>6, <3>1, <3>2
    <3>4. Append(<<>>, seq[i]) = <<seq[i]>> \o <<>>
      BY <1>1
    <3> QED
      BY <2>4, <2>6, <3>3, <3>4
  <2>7. CASE n + 1 > i
    <3>1. n + 1 # i /\ ~(n < i) /\ ~(n + 1 < i)
      BY <1>1, <2>1, <2>7
    <3>2. g[n] = <<seq[i]>> \o f[n]
      BY <1>5, <2>1, <3>1
    <3>3. Append(<<seq[i]>> \o f[n], seq[n + 1]) = <<seq[i]>> \o Append(f[n], seq[n + 1])
      BY <1>1, <2>3
    <3> QED
      BY <2>2, <2>4, <3>1, <3>2, <3>3
  <2> QED
    BY <1>1, <2>5, <2>6, <2>7
<1>6. m \in S
  <2> HIDE DEF S
  <2> QED
    BY <1>1, <1>4, <1>5, Induction
<1>7. g[m] = <<seq[i]>> \o f[m]
  BY <1>1, <1>6
<1> QED
  BY <1>2, <1>3, <1>7

\* No places, no elements.
LEMMA AtNoPlaces ==
  ASSUME NEW E, NEW seq \in Seq(E)
  PROVE  AtPlaces(seq, {}) = <<>>
<1> DEFINE m == Len(seq)
           f == PlacesUpTo(seq, {})
<1>1. m \in Nat
  OBVIOUS
<1>2. AtPlaces(seq, {}) = f[m] /\ f[0] = <<>> /\ \A n \in 1..m : f[n] = f[n - 1]
  BY AtPlacesDef
<1> HIDE DEF f, m
<1> DEFINE S == {n \in Nat : n <= m => f[n] = <<>>}
<1>3. 0 \in S
  BY <1>2
<1>4. ASSUME NEW n \in Nat, n \in S PROVE n + 1 \in S
  <2> SUFFICES ASSUME n + 1 <= m PROVE f[n + 1] = <<>>
    OBVIOUS
  <2>1. n + 1 \in 1..m /\ (n + 1) - 1 = n /\ n <= m
    BY <1>1
  <2> QED
    BY <1>2, <1>4, <2>1
<1>5. m \in S
  <2> HIDE DEF S
  <2> QED
    BY <1>1, <1>3, <1>4, Induction
<1> QED
  BY <1>1, <1>2, <1>5

\* What is left from token i on, by what is left further on (WithoutBlocks).
FromHere(s, limit, rest, i) ==
  IF i > Len(s) THEN <<>>
  ELSE IF ~OpensAt(s, i) THEN <<s[i]>> \o rest[i + 1]
  ELSE IF ClosesAt(s, i, limit) # 0 THEN rest[ClosesAt(s, i, limit) + 1]
  ELSE <<s[i], s[i + 1]>> \o rest[i + 2]

\* The function within WithoutBlocks.
LeftOver(s, limit) == CHOOSE From : From = [i \in 1..Len(s) + 1 |-> FromHere(s, limit, From, i)]

\* Reading block after block leaves exactly the tokens that are in no block.
LEMMA WithoutBlocksIs ==
  ASSUME NEW E, NEW s \in Seq(E), NEW limit \in Nat
  PROVE  WithoutBlocks(s, limit) = AtPlaces(s, LeftFrom(s, limit, 1))
<1> DEFINE m == Len(s)
           C(j) == ClosesAt(s, j, limit)
           L(j) == LeftFrom(s, limit, j)
           h == [i \in 1..m + 1 |-> AtPlaces(s, L(i))]
           f == LeftOver(s, limit)
<1>1. m \in Nat /\ 1 \in 1..m + 1 /\ m + 1 \in 1..m + 1
  OBVIOUS
<1>2. \A j \in 1..m : C(j) \in Nat /\ (C(j) # 0 => C(j) \in j + 2..m)
  BY ClosesWhere
<1>3. \A j \in 1..m : /\ ~OpensAt(s, j) => L(j) = {j} \cup L(j + 1)
                      /\ OpensAt(s, j) /\ C(j) # 0 => L(j) = L(C(j) + 1)
                      /\ OpensAt(s, j) /\ C(j) = 0 => L(j) = {j} \cup ({j + 1} \cup L(j + 2))
  BY LeftStep
<1>4. L(m + 1) = {}
  BY LeftEnd
<1>5. \A j : L(j) \subseteq j..m
  BY DEF LeftFrom
<1>6. \A i \in 1..m : \A T : T \subseteq i + 1..m => AtPlaces(s, {i} \cup T) = <<s[i]>> \o AtPlaces(s, T)
  BY AtPlacesFrom
<1>7. AtPlaces(s, {}) = <<>>
  BY AtNoPlaces
<1>8. \A j \in 1..m : OpensAt(s, j) => j + 1 \in 1..m /\ j + 2 \in 1..m + 1
  BY <1>1 DEF OpensAt
<1>9. \A places : AtPlaces(s, places) \in Seq(E)
  <2> SUFFICES ASSUME NEW places PROVE AtPlaces(s, places) \in Seq(E)
    OBVIOUS
  <2>1. AtPlaces(s, places) = PlacesUpTo(s, places)[Len(s)] /\ Len(s) \in 0..Len(s)
    BY AtPlacesDef
  <2> QED
    BY <2>1, PlacesType
<1> HIDE DEF m, C, L
<1>10. \A i \in 1..m + 1 : h[i] = AtPlaces(s, L(i))
  OBVIOUS
<1>11. ASSUME NEW i \in 1..m + 1 PROVE h[i] = FromHere(s, limit, h, i)
  <2>1. CASE i > m
    <3>1. i = m + 1
      BY <1>1, <2>1
    <3> QED
      BY <1>4, <1>7, <1>10, <2>1, <3>1 DEF FromHere, m
  <2>2. CASE i <= m /\ ~OpensAt(s, i)
    <3>1. i \in 1..m /\ i + 1 \in 1..m + 1 /\ ~(i > m)
      BY <1>1, <2>2
    <3>2. h[i] = <<s[i]>> \o AtPlaces(s, L(i + 1))
      BY <1>3, <1>5, <1>6, <1>10, <2>2, <3>1
    <3> QED
      BY <1>10, <2>2, <3>1, <3>2 DEF FromHere, m
  <2>3. CASE i <= m /\ OpensAt(s, i) /\ C(i) # 0
    <3>1. i \in 1..m /\ ~(i > m)
      BY <1>1, <2>3
    <3>2. C(i) + 1 \in 1..m + 1
      BY <1>1, <1>2, <2>3, <3>1
    <3>3. h[i] = h[C(i) + 1]
      BY <1>3, <1>10, <2>3, <3>1, <3>2
    <3> QED
      BY <2>3, <3>1, <3>3 DEF FromHere, m, C
  <2>4. CASE i <= m /\ OpensAt(s, i) /\ C(i) = 0
    <3>1. i \in 1..m /\ ~(i > m) /\ i + 1 \in 1..m /\ i + 2 \in 1..m + 1
      BY <1>1, <1>8, <2>4
    <3>2. {i + 1} \cup L(i + 2) \subseteq i + 1..m /\ L(i + 2) \subseteq (i + 1) + 1..m
      <4>1. L(i + 2) \subseteq i + 2..m
        BY <1>5
      <4>2. \A k \in i + 2..m : k \in i + 1..m /\ k \in (i + 1) + 1..m
        BY <1>1, <3>1
      <4>3. i + 1 \in i + 1..m
        BY <1>1, <3>1
      <4> QED
        BY <4>1, <4>2, <4>3
    <3>3. AtPlaces(s, L(i)) = <<s[i]>> \o (<<s[i + 1]>> \o AtPlaces(s, L(i + 2)))
      <4>1. AtPlaces(s, L(i)) = <<s[i]>> \o AtPlaces(s, {i + 1} \cup L(i + 2))
        <5> DEFINE T == {i + 1} \cup L(i + 2)
        <5>1. L(i) = {i} \cup T
          BY <1>3, <2>4, <3>1
        <5>2. T \subseteq i + 1..m
          BY <3>2
        <5> HIDE DEF T
        <5>3. AtPlaces(s, {i} \cup T) = <<s[i]>> \o AtPlaces(s, T)
          BY <1>6, <3>1, <5>2
        <5>4. AtPlaces(s, L(i)) = <<s[i]>> \o AtPlaces(s, T)
          BY <5>1, <5>3
        <5> QED
          BY <5>4 DEF T
      <4>2. AtPlaces(s, {i + 1} \cup L(i + 2)) = <<s[i + 1]>> \o AtPlaces(s, L(i + 2))
        BY <1>6, <3>1, <3>2
      <4> QED
        BY <4>1, <4>2
    <3>4. s[i] \in E /\ s[i + 1] \in E
      BY <3>1 DEF m
    <3>5. \A t \in Seq(E) : <<s[i]>> \o (<<s[i + 1]>> \o t) = <<s[i], s[i + 1]>> \o t
      BY <3>4
    <3>6. h[i] = <<s[i], s[i + 1]>> \o h[i + 2]
      BY <1>9, <1>10, <3>1, <3>3, <3>5
    <3> QED
      BY <2>4, <3>1, <3>6 DEF FromHere, m, C
  <2> QED
    BY <1>1, <2>1, <2>2, <2>3, <2>4
<1>12. h = [i \in 1..m + 1 |-> FromHere(s, limit, h, i)]
  <2>1. \A i \in 1..m + 1 : h[i] = FromHere(s, limit, h, i)
    BY <1>11
  <2> QED
    BY <2>1, Zenon
<1> HIDE DEF h
<1>13. f = [i \in 1..m + 1 |-> FromHere(s, limit, f, i)]
  BY <1>12 DEF LeftOver, m
<1> HIDE DEF f
<1>14. \A i \in 1..m + 1 : f[i] = FromHere(s, limit, f, i)
  <2> HIDE DEF m
  <2> QED
    BY <1>13
<1> DEFINE S == {n \in Nat : \A i \in 1..m + 1 : m + 1 - n <= i => f[i] = h[i]}
<1>15. ASSUME NEW i \in 1..m + 1, \A k \in 1..m + 1 : k > i => f[k] = h[k] PROVE f[i] = h[i]
  <2>1. f[i] = FromHere(s, limit, f, i) /\ h[i] = FromHere(s, limit, h, i)
    BY <1>11, <1>14
  <2>2. CASE i > m
    BY <2>1, <2>2 DEF FromHere, m
  <2>3. CASE i <= m /\ ~OpensAt(s, i)
    <3>1. i + 1 \in 1..m + 1 /\ i + 1 > i /\ ~(i > m)
      BY <1>1, <2>3
    <3> QED
      BY <1>15, <2>1, <2>3, <3>1 DEF FromHere, m
  <2>4. CASE i <= m /\ OpensAt(s, i) /\ C(i) # 0
    <3>1. i \in 1..m /\ ~(i > m)
      BY <1>1, <2>4
    <3>2. C(i) + 1 \in 1..m + 1 /\ C(i) + 1 > i
      BY <1>1, <1>2, <2>4, <3>1
    <3> QED
      BY <1>15, <2>1, <2>4, <3>1, <3>2 DEF FromHere, m, C
  <2>5. CASE i <= m /\ OpensAt(s, i) /\ C(i) = 0
    <3>1. i + 2 \in 1..m + 1 /\ i + 2 > i /\ ~(i > m)
      BY <1>1, <1>8, <2>5
    <3> QED
      BY <1>15, <2>1, <2>5, <3>1 DEF FromHere, m, C
  <2> QED
    BY <1>1, <2>2, <2>3, <2>4, <2>5
<1>16. 0 \in S
  <2> SUFFICES ASSUME NEW i \in 1..m + 1, m + 1 - 0 <= i PROVE f[i] = h[i]
    OBVIOUS
  <2>1. \A k \in 1..m + 1 : ~(k > i)
    BY <1>1
  <2> QED
    BY <1>15, <2>1
<1>17. ASSUME NEW n \in Nat, n \in S PROVE n + 1 \in S
  <2> SUFFICES ASSUME NEW i \in 1..m + 1, m + 1 - (n + 1) <= i PROVE f[i] = h[i]
    OBVIOUS
  <2>1. \A k \in 1..m + 1 : k > i => m + 1 - n <= k
    BY <1>1
  <2>2. \A k \in 1..m + 1 : k > i => f[k] = h[k]
    BY <1>17, <2>1
  <2> QED
    BY <1>15, <2>2
<1>18. m + 1 \in S
  <2> HIDE DEF S
  <2>1. m + 1 \in Nat
    BY <1>1
  <2> QED
    BY <1>16, <1>17, <2>1, Induction
<1>19. f[1] = h[1]
  BY <1>1, <1>18
<1>20. WithoutBlocks(s, limit) = f[1]
  BY DEF WithoutBlocks, LeftOver, FromHere, f
<1> QED
  BY <1>1, <1>10, <1>19, <1>20 DEF L

\* The places that are in no block are those outside the reasoning.
LEMMA OutsideReasoning ==
  ASSUME NEW E, input \in Seq(E)
  PROVE  DOMAIN input \ Reasoning = LeftFrom(input, knob, 1)
<1>1. DOMAIN input = 1..Len(input) /\ Len(input) \in Nat
  OBVIOUS
<1>2. ASSUME NEW k \in 1..Len(input)
      PROVE  k \in Reasoning <=> Covered(input, knob, 1, k)
  <2> DEFINE C(j) == ClosesAt(input, j, knob)
             J == {j \in 1..Len(input) : OpensAt(input, j) /\ C(j) # 0}
  <2>1. k \in Reasoning <=> \E j \in J : k \in j..C(j)
    BY DEF Reasoning
  <2>2. ASSUME NEW j \in J PROVE k \in j..C(j) <=> j <= k /\ k <= C(j)
    OBVIOUS
  <2> QED
    BY <2>1, <2>2 DEF Covered
<1> QED
  BY <1>1, <1>2 DEF LeftFrom

\* Strip keeps of an answer all that is not reasoning.
LEMMA StripIs ==
  ASSUME NEW E, input \in Seq(E), knob \in Nat
  PROVE  AnswerSurvives
<1>1. WithoutBlocks(input, knob) = AtPlaces(input, DOMAIN input \ Reasoning)
  <2>1. \A s \in Seq(E), limit \in Nat : WithoutBlocks(s, limit) = AtPlaces(s, LeftFrom(s, limit, 1))
    BY WithoutBlocksIs
  <2> QED
    BY <2>1, OutsideReasoning
<1> QED
  BY <1>1 DEF AnswerSurvives, Strip

-----------------------------------------------------------------------------
(* What is put out of the first lines, and reading line after line.          *)

\* What the filters put out: lines, counts and names.
Entries == {"line", "skipped"} \X Nat

\* The entries that are lines of these kinds.
Said(kinds) == {e \in Entries : e[1] = "line" /\ Kind(input[e[2]]) \in kinds}

\* The first lines of the input.
FirstLines(n) == [i \in 1..n |-> Line(i)]

\* They are a list that grows by one line.
LEMMA FirstLinesType ==
  ASSUME NEW n \in Nat
  PROVE  /\ FirstLines(n) \in Seq(Entries) /\ Len(FirstLines(n)) = n
         /\ Line(n) \in Entries /\ FirstLines(n + 1) = Append(FirstLines(n), Line(n + 1))
<1>1. \A i \in Nat : Line(i) \in Entries
  BY DEF Line, Entries
<1>2. FirstLines(n) \in Seq(Entries) /\ Len(FirstLines(n)) = n
  BY <1>1 DEF FirstLines
<1>3. FirstLines(n + 1) = Append(FirstLines(n), Line(n + 1))
  <2>1. \A i : Line(i) = <<"line", i>>
    BY DEF Line
  <2>2. \A i \in 1..n : i \in 1..n + 1
    OBVIOUS
  <2> HIDE DEF Line
  <2>3. FirstLines(n + 1) \in Seq(Entries) /\ Len(FirstLines(n + 1)) = n + 1
        /\ \A i \in 1..n + 1 : FirstLines(n + 1)[i] = Line(i)
    BY <1>1 DEF FirstLines
  <2>4. Append(FirstLines(n), Line(n + 1)) \in Seq(Entries) /\ Len(Append(FirstLines(n), Line(n + 1))) = n + 1
        /\ \A i \in 1..n + 1 : Append(FirstLines(n), Line(n + 1))[i] = Line(i)
    <3>1. \A i \in 1..n : FirstLines(n)[i] = Line(i)
      BY DEF FirstLines
    <3> QED
      BY <1>1, <1>2, <3>1
  <2> QED
    BY <2>3, <2>4
<1> QED
  BY <1>1, <1>2, <1>3

\* The lines of these kinds, each once and in their order, as a selection.
LEMMA KeepsAllIs ==
  ASSUME NEW L, input \in Seq(L), NEW kinds, NEW out \in Seq(Entries),
         Only(out, Said(kinds)) = Only(FirstLines(Len(input)), Said(kinds))
  PROVE  KeepsAll(kinds, out)
<1> DEFINE Is(entry) == entry[1] = "line" /\ Kind(input[entry[2]]) \in kinds
<1>1. ASSUME NEW s \in Seq(Entries)
      PROVE  Select(s, Is) = Only(s, Said(kinds))
  <2>1. {i \in DOMAIN s : Is(s[i])} = PlacesOf(s, Said(kinds))
    BY DEF PlacesOf, Said
  <2> QED
    BY <2>1 DEF Select, Only
<1>2. Len(input) \in Nat
  OBVIOUS
<1>3. FirstLines(Len(input)) \in Seq(Entries)
  BY <1>2, FirstLinesType
<1>4. Select(out, Is) = Select(FirstLines(Len(input)), Is)
  BY <1>1, <1>3
<1> QED
  BY <1>4 DEF KeepsAll, FirstLines

\* One line more, which is put out, and one which may be left out.
LEMMA OneMoreLine ==
  ASSUME NEW kinds, NEW out \in Seq(Entries), NEW n \in Nat,
         Only(out, Said(kinds)) = Only(FirstLines(n), Said(kinds))
  PROVE  /\ Append(out, Line(n + 1)) \in Seq(Entries)
         /\ Only(Append(out, Line(n + 1)), Said(kinds)) = Only(FirstLines(n + 1), Said(kinds))
         /\ Kind(input[n + 1]) \notin kinds =>
              Only(out, Said(kinds)) = Only(FirstLines(n + 1), Said(kinds))
<1> DEFINE K == Said(kinds)
           e == Line(n + 1)
<1>1. e \in Entries /\ FirstLines(n) \in Seq(Entries) /\ FirstLines(n + 1) = Append(FirstLines(n), e)
  <2>1. n + 1 \in Nat
    OBVIOUS
  <2> QED
    BY <2>1, FirstLinesType
<1>2. e \in K => Kind(input[n + 1]) \in kinds
  BY DEF Said, Line
<1> HIDE DEF K, e
<1>3. Only(Append(out, e), K) = IF e \in K THEN Append(Only(out, K), e) ELSE Only(out, K)
  BY <1>1, OnlyAppend
<1>4. Only(FirstLines(n + 1), K)
        = IF e \in K THEN Append(Only(FirstLines(n), K), e) ELSE Only(FirstLines(n), K)
  <2> DEFINE first == FirstLines(n)
  <2>1. first \in Seq(Entries)
    BY <1>1
  <2> HIDE DEF first
  <2>2. Only(Append(first, e), K) = IF e \in K THEN Append(Only(first, K), e) ELSE Only(first, K)
    BY <1>1, <2>1, OnlyAppend
  <2> QED
    BY <1>1, <2>2 DEF first
<1>5. Append(out, e) \in Seq(Entries)
  BY <1>1
<1> QED
  BY <1>2, <1>3, <1>4, <1>5 DEF K, e

\* What is put out besides says nothing of these kinds.
LEMMA BesidesSaysNothing ==
  ASSUME NEW kinds, NEW out \in Seq(Entries), NEW more \in Seq(Entries \ Said(kinds))
  PROVE  out \o more \in Seq(Entries) /\ Only(out \o more, Said(kinds)) = Only(out, Said(kinds))
<1> DEFINE K == Said(kinds)
<1> HIDE DEF K
<1>1. more \in Seq(Entries \ K)
  BY DEF K
<1>2. more \in Seq(Entries)
  <2>1. Entries \ K \subseteq Entries
    OBVIOUS
  <2> QED
    BY <1>1, <2>1, SeqGrows
<1>3. Only(out \o more, K) = Only(out, K) \o Only(more, K)
  BY <1>2, OnlyConcat
<1>4. Only(more, K) = <<>>
  <2>1. (Entries \ K) \cap K = {}
    OBVIOUS
  <2> QED
    BY <1>1, <2>1, OnlyNone
<1>5. Only(out, K) \in Seq(Entries)
  BY OnlyType
<1>6. Only(out, K) \o <<>> = Only(out, K)
  BY <1>5
<1>7. out \o more \in Seq(Entries)
  BY <1>2
<1> QED
  BY <1>3, <1>4, <1>6, <1>7 DEF K

\* The largest of some numbers up to a bound.
LEMMA MaxOf ==
  ASSUME NEW n \in Nat, NEW I, I \subseteq 1..n, I # {}
  PROVE  Max(I) \in I /\ \A i \in I : i <= Max(I)
<1> DEFINE J == {n - i : i \in I}
<1>1. J \subseteq Nat /\ J # {}
  <2>1. \A i \in I : n - i \in Nat
    <3>1. \A i \in 1..n : n - i \in Nat
      OBVIOUS
    <3> QED
      BY <3>1
  <2> QED
    BY <2>1
<1>2. Min(J) \in J /\ \A j \in J : Min(J) <= j
  <2> HIDE DEF J
  <2> QED
    BY <1>1, MinOf
<1>3. PICK x \in I : Min(J) = n - x
  BY <1>2
<1>4. \A i \in I : i <= x
  <2> SUFFICES ASSUME NEW i \in I PROVE i <= x
    OBVIOUS
  <2>1. n - i \in J
    OBVIOUS
  <2>2. n - x <= n - i /\ i \in 1..n /\ x \in 1..n
    BY <1>2, <1>3, <2>1
  <2> QED
    BY <2>2
<1>5. \E y \in I : \A i \in I : y >= i
  BY <1>4
<1> QED
  BY <1>5 DEF Max

\* Blank lines at the end are left out: nothing that is said is.
LEMMA LastBlanksTellNothing ==
  ASSUME NEW E, NEW K, \A e \in K : ~IsBlank(e, input), NEW out \in Seq(E)
  PROVE  /\ WithoutLastBlanks(out, input) \in Seq(E)
         /\ Only(WithoutLastBlanks(out, input), K) = Only(out, K)
<1> DEFINE I == {i \in 1..Len(out) : ~IsBlank(out[i], input)}
           k == IF I # {} THEN Max(I) ELSE 0
           short == SubSeq(out, 1, k)
           rest == SubSeq(out, k + 1, Len(out))
<1>1. WithoutLastBlanks(out, input) = short
  BY DEF WithoutLastBlanks, SelectLastInSeq
<1>2. k \in 0..Len(out) /\ \A i \in k + 1..Len(out) : IsBlank(out[i], input)
  <2>1. CASE I = {}
    BY <2>1
  <2>2. CASE I # {}
    <3>1. Len(out) \in Nat /\ I \subseteq 1..Len(out)
      OBVIOUS
    <3>2. Max(I) \in I /\ \A i \in I : i <= Max(I)
      <4> HIDE DEF I
      <4> QED
        BY <2>2, <3>1, MaxOf
    <3>3. Max(I) \in 1..Len(out)
      BY <3>1, <3>2
    <3> HIDE DEF I
    <3>4. \A i \in k + 1..Len(out) : i \notin I /\ i \in 1..Len(out)
      BY <2>2, <3>1, <3>2, <3>3
    <3> QED
      BY <2>2, <3>3, <3>4 DEF I
  <2> QED
    BY <2>1, <2>2
<1> HIDE DEF k
<1>3. short \in Seq(E) /\ rest \in Seq(E) /\ out = short \o rest
      /\ Len(rest) = Len(out) - k /\ \A i \in 1..Len(rest) : rest[i] = out[k + i]
  <2>1. CASE k = 0
    <3>1. short = <<>> /\ rest = out
      BY <2>1
    <3> QED
      BY <2>1, <3>1
  <2>2. CASE k # 0
    <3>1. k \in 1..Len(out)
      BY <1>2, <2>2
    <3>2. /\ short \in Seq(E) /\ rest \in Seq(E) /\ Len(rest) = Len(out) - k
          /\ (\A i \in 1..Len(out) - k : rest[i] = out[k + i]) /\ short \o rest = out
      BY <3>1, Cut
    <3> QED
      BY <3>2
  <2> QED
    BY <2>1, <2>2
<1> HIDE DEF short, rest
<1>4. rest \in Seq(E \ K)
  <2>1. \A i \in 1..Len(rest) : rest[i] \in E
    BY <1>3
  <2>2. \A i \in 1..Len(rest) : k + i \in k + 1..Len(out)
    <3>1. Len(out) \in Nat
      OBVIOUS
    <3> QED
      BY <1>2, <1>3, <3>1
  <2>3. \A i \in 1..Len(rest) : rest[i] \in E \ K
    BY <1>2, <1>3, <2>1, <2>2
  <2> QED
    BY <1>3, <2>3
<1>5. Only(short \o rest, K) = Only(short, K)
  <2>1. rest \in Seq(E)
    BY <1>3
  <2>2. Only(short \o rest, K) = Only(short, K) \o Only(rest, K)
    BY <1>3, OnlyConcat
  <2>3. Only(rest, K) = <<>>
    <3>1. (E \ K) \cap K = {}
      OBVIOUS
    <3> QED
      BY <1>4, <3>1, OnlyNone
  <2>4. Only(short, K) \in Seq(E)
    BY <1>3, OnlyType
  <2> QED
    BY <2>2, <2>3, <2>4
<1> QED
  BY <1>1, <1>3, <1>5

\* So it is for the lines of some kinds.
LEMMA LastBlanksSayNothing ==
  ASSUME NEW kinds, "blank" \notin kinds, NEW out \in Seq(Entries)
  PROVE  /\ WithoutLastBlanks(out, input) \in Seq(Entries)
         /\ Only(WithoutLastBlanks(out, input), Said(kinds)) = Only(out, Said(kinds))
<1> DEFINE K == Said(kinds)
<1>1. \A e \in K : ~IsBlank(e, input)
  BY DEF IsBlank, Said
<1> HIDE DEF K
<1>2. /\ WithoutLastBlanks(out, input) \in Seq(Entries)
      /\ Only(WithoutLastBlanks(out, input), K) = Only(out, K)
  BY <1>1, LastBlanksTellNothing
<1> QED
  BY <1>2 DEF K

\* From a state and its place, H leads to the next state of a course.
Leads(H, m, C) == \A p \in C : p[2] < m => <<H[p], p[2] + 1>> \in C

\* These states follow each other, as long as they are on the course.
Follow(f, m, start, H, C) ==
  f[0] = start /\ \A n \in 1..m : <<f[n - 1], n - 1>> \in C => f[n] = H[<<f[n - 1], n - 1>>]

\* What follows a course stays on it.
LEMMA OnCourse ==
  ASSUME NEW m \in Nat, NEW C, NEW start, <<start, 0>> \in C, NEW H, Leads(H, m, C),
         NEW f, Follow(f, m, start, H, C)
  PROVE  \A n \in 0..m : <<f[n], n>> \in C
<1> DEFINE S == {n \in Nat : n <= m => <<f[n], n>> \in C}
<1>1. 0 \in S
  BY DEF Follow
<1>2. ASSUME NEW n \in Nat, n \in S PROVE n + 1 \in S
  <2> SUFFICES ASSUME n + 1 <= m PROVE <<f[n + 1], n + 1>> \in C
    OBVIOUS
  <2>1. n + 1 \in 1..m /\ (n + 1) - 1 = n /\ n < m
    OBVIOUS
  <2>2. <<f[n], n>> \in C
    BY <1>2, <2>1
  <2>3. f[n + 1] = H[<<f[n], n>>]
    BY <2>1, <2>2 DEF Follow
  <2> QED
    BY <2>1, <2>2, <2>3 DEF Leads
<1>3. \A n \in Nat : n \in S
  <2> HIDE DEF S
  <2> QED
    BY <1>1, <1>2, Induction
<1> QED
  BY <1>3

\* There are states that follow a course.
LEMMA ACourse ==
  ASSUME NEW m \in Nat, NEW T, NEW C, C \subseteq T \X (0..m), NEW start, <<start, 0>> \in C,
         NEW H, Leads(H, m, C)
  PROVE  \E f \in [0..m -> T] : Follow(f, m, start, H, C) /\ \A n \in 0..m : <<f[n], n>> \in C
<1> DEFINE G == [p \in T \X (1..m) |-> IF <<p[1], p[2] - 1>> \in C THEN H[<<p[1], p[2] - 1>>] ELSE p[1]]
<1>1. start \in T
  BY DEF Leads
<1>2. G \in [T \X (1..m) -> T]
  <2>1. ASSUME NEW p \in T \X (1..m)
        PROVE  (IF <<p[1], p[2] - 1>> \in C THEN H[<<p[1], p[2] - 1>>] ELSE p[1]) \in T
    <3>1. p[1] \in T /\ p[2] - 1 \in 0..m - 1 /\ (p[2] - 1) + 1 = p[2]
      BY <2>1
    <3>2. ASSUME <<p[1], p[2] - 1>> \in C PROVE H[<<p[1], p[2] - 1>>] \in T
      <4>1. <<H[<<p[1], p[2] - 1>>], (p[2] - 1) + 1>> \in C
        BY <3>1, <3>2 DEF Leads
      <4> QED
        BY <4>1
    <3> QED
      BY <3>1, <3>2
  <2> QED
    BY <2>1
<1>3. PICK f \in [0..m -> T] : Recurs(f, m, start, G)
  <2> HIDE DEF G
  <2> QED
    BY <1>1, <1>2, Recursion
<1>4. Follow(f, m, start, H, C)
  <2>1. f[0] = start
    BY <1>3 DEF Recurs
  <2>2. ASSUME NEW n \in 1..m, <<f[n - 1], n - 1>> \in C
        PROVE  f[n] = H[<<f[n - 1], n - 1>>]
    <3>1. n - 1 \in 0..m
      OBVIOUS
    <3>2. <<f[n - 1], n>> \in T \X (1..m)
      BY <1>3, <3>1
    <3>3. f[n] = G[<<f[n - 1], n>>]
      BY <1>3 DEF Recurs
    <3> QED
      BY <2>2, <3>2, <3>3
  <2> QED
    BY <2>1, <2>2 DEF Follow
<1>5. \A n \in 0..m : <<f[n], n>> \in C
  BY <1>4, OnCourse
<1> QED
  BY <1>4, <1>5

-----------------------------------------------------------------------------
(* goTestFilter, its text output.                                            *)

\* The states of the go test filter; between tests nothing that tells of a
\* verdict is buffered.
GoStates ==
  [section : {"none", "build", "panic"}, inTest : BOOLEAN, buf : Seq(Entries \ Said(GoVerdicts)),
   skipped : Nat, out : Seq(Entries)]

\* The filter is on course after n lines: it has put out what it must of them.
GoOnCourse(s, n) ==
  s \in GoStates /\ Only(s.out, Said(GoVerdicts)) = Only(FirstLines(n), Said(GoVerdicts))

\* One line outside a section.
LEMMA GoLineOnCourse ==
  ASSUME NEW s, NEW n \in Nat, GoOnCourse(s, n), Kind(input[n + 1]) \in GoKinds
  PROVE  GoOnCourse(GoLine(s, n + 1, input[n + 1]), n + 1)
<1> DEFINE K == Said(GoVerdicts)
           k == Kind(input[n + 1])
           e == Line(n + 1)
           r == GoLine(s, n + 1, input[n + 1])
           Bufs == Seq(Entries \ K)
           Outs == Seq(Entries)
           States == [section : {"none", "build", "panic"}, inTest : BOOLEAN, buf : Bufs,
                      skipped : Nat, out : Outs]
<1>0. ASSUME NEW t \in States, Only(t.out, K) = Only(FirstLines(n + 1), K)
      PROVE  GoOnCourse(t, n + 1)
  BY <1>0 DEF GoOnCourse, GoStates
<1>1. /\ s \in States
      /\ Only(s.out, K) = Only(FirstLines(n), K)
  BY DEF GoOnCourse, GoStates
<1>2. s.out \o s.buf \in Outs /\ Only(s.out \o s.buf, K) = Only(FirstLines(n), K)
  <2>1. s.out \in Seq(Entries) /\ s.buf \in Seq(Entries \ K)
    BY <1>1
  <2> QED
    BY <1>1, <2>1, BesidesSaysNothing
<1>3. /\ Append(s.out, e) \in Outs /\ Only(Append(s.out, e), K) = Only(FirstLines(n + 1), K)
      /\ k \notin GoVerdicts => Only(s.out, K) = Only(FirstLines(n + 1), K)
  BY <1>1, OneMoreLine
<1>4. Append(s.out \o s.buf, e) \in Outs
      /\ Only(Append(s.out \o s.buf, e), K) = Only(FirstLines(n + 1), K)
  BY <1>2, OneMoreLine
<1>5. k = "text" => e \in Entries \ K
  <2>1. n + 1 \in Nat
    OBVIOUS
  <2> QED
    BY <2>1 DEF Line, Entries, Said, GoVerdicts
<1>16. <<>> \in Bufs
  OBVIOUS
<1>18. ASSUME k = "text" PROVE Append(s.buf, e) \in Bufs
  <2>1. s.buf \in Bufs /\ e \in Entries \ K
    BY <1>1, <1>5, <1>18
  <2> HIDE DEF K, e
  <2> QED
    BY <2>1
<1> HIDE DEF K, e, k, r, Bufs, Outs
<1>6. ASSUME k \in {"build", "panic"} PROVE GoOnCourse(r, n + 1)
  <2>1. r = [s EXCEPT !.section = k, !.out = Append(@, e)]
    BY <1>6 DEF GoLine, r, k, e, PackageVerdict
  <2> QED
    BY <1>0, <1>16, <1>1, <1>3, <1>6, <2>1
<1>7. ASSUME k = "run" PROVE GoOnCourse(r, n + 1)
  <2>1. r = [s EXCEPT !.inTest = TRUE, !.buf = <<>>]
    BY <1>7 DEF GoLine, r, k, PackageVerdict
  <2>2. k \notin GoVerdicts
    BY <1>7 DEF GoVerdicts
  <2> QED
    BY <1>0, <1>16, <1>1, <1>3, <2>1, <2>2
<1>8. ASSUME k = "fail" PROVE GoOnCourse(r, n + 1)
  <2>1. r = [s EXCEPT !.buf = <<>>, !.inTest = FALSE, !.out = Append(@ \o s.buf, e)]
    BY <1>1, <1>8 DEF GoLine, r, k, e, PackageVerdict
  <2> QED
    BY <1>0, <1>16, <1>1, <1>4, <2>1
<1>9. ASSUME k = "pass" PROVE GoOnCourse(r, n + 1)
  <2>1. r = [s EXCEPT !.buf = <<>>, !.inTest = FALSE]
    BY <1>9 DEF GoLine, r, k, PackageVerdict
  <2>2. k \notin GoVerdicts
    BY <1>9 DEF GoVerdicts
  <2> QED
    BY <1>0, <1>16, <1>1, <1>3, <2>1, <2>2
<1>10. ASSUME k = "skip" PROVE GoOnCourse(r, n + 1)
  <2>1. r = [s EXCEPT !.buf = <<>>, !.inTest = FALSE, !.skipped = @ + 1]
    BY <1>1, <1>10 DEF GoLine, r, k, PackageVerdict
  <2>2. k \notin GoVerdicts
    BY <1>10 DEF GoVerdicts
  <2>3. s.skipped \in Nat /\ s.skipped + 1 \in Nat
    BY <1>1
  <2> QED
    BY <1>0, <1>16, <1>1, <1>3, <2>1, <2>2, <2>3
<1>11. ASSUME k \in PackageVerdict PROVE GoOnCourse(r, n + 1)
  <2>1. r = [s EXCEPT !.buf = <<>>, !.inTest = FALSE, !.out = Append(@ \o s.buf, e)]
    BY <1>1, <1>11 DEF GoLine, r, k, e, PackageVerdict
  <2> QED
    BY <1>0, <1>16, <1>1, <1>4, <2>1
<1>12. ASSUME k = "PASS" PROVE GoOnCourse(r, n + 1)
  <2>1. r = [s EXCEPT !.buf = <<>>]
    BY <1>12 DEF GoLine, r, k, PackageVerdict
  <2>2. k \notin GoVerdicts
    BY <1>12 DEF GoVerdicts
  <2> QED
    BY <1>0, <1>16, <1>1, <1>3, <2>1, <2>2
<1>13. ASSUME k = "FAIL" PROVE GoOnCourse(r, n + 1)
  <2>1. r = [s EXCEPT !.out = Append(@, e)]
    BY <1>13 DEF GoLine, r, k, e, PackageVerdict
  <2> QED
    BY <1>0, <1>16, <1>1, <1>3, <2>1
<1>14. ASSUME k = "blank" PROVE GoOnCourse(r, n + 1)
  <2>1. r = s
    BY <1>14 DEF GoLine, r, k, PackageVerdict
  <2>2. k \notin GoVerdicts
    BY <1>14 DEF GoVerdicts
  <2> QED
    BY <1>0, <1>16, <1>1, <1>3, <2>1, <2>2
<1>15. ASSUME k = "text" PROVE GoOnCourse(r, n + 1)
  <2>1. r = IF s.inTest THEN [s EXCEPT !.buf = Append(@, e)] ELSE [s EXCEPT !.out = Append(@, e)]
    BY <1>15 DEF GoLine, r, k, e, PackageVerdict
  <2>2. k \notin GoVerdicts
    BY <1>15 DEF GoVerdicts
  <2>3. Append(s.buf, e) \in Bufs
    BY <1>15, <1>18
  <2>4. CASE s.inTest
    BY <1>0, <1>16, <1>1, <1>3, <2>1, <2>2, <2>3, <2>4
  <2>5. CASE ~s.inTest
    BY <1>0, <1>16, <1>1, <1>3, <2>1, <2>5
  <2> QED
    BY <2>4, <2>5
<1> QED
  BY <1>6, <1>7, <1>8, <1>9, <1>10, <1>11, <1>12, <1>13, <1>14, <1>15 DEF k, r, GoKinds, PackageVerdict

\* Any line: in a section all is copied, and the line that ends one is read again.
LEMMA GoStepOnCourse ==
  ASSUME NEW s, NEW n \in Nat, GoOnCourse(s, n), Kind(input[n + 1]) \in GoKinds
  PROVE  GoOnCourse(GoStep(s, n + 1, input[n + 1]), n + 1)
<1> DEFINE K == Said(GoVerdicts)
           e == Line(n + 1)
           Bufs == Seq(Entries \ K)
           Outs == Seq(Entries)
           States == [section : {"none", "build", "panic"}, inTest : BOOLEAN, buf : Bufs,
                      skipped : Nat, out : Outs]
<1>0. ASSUME NEW t \in States, NEW i, Only(t.out, K) = Only(FirstLines(i), K)
      PROVE  GoOnCourse(t, i)
  BY <1>0 DEF GoOnCourse, GoStates
<1>1. /\ s \in States
      /\ Only(s.out, K) = Only(FirstLines(n), K)
  BY DEF GoOnCourse, GoStates
<1>2. CASE s.section # "none" /\ Kind(input[n + 1]) \notin SectionEnd[s.section]
  <2> DEFINE r == GoStep(s, n + 1, input[n + 1])
  <2>1. r = [s EXCEPT !.out = Append(@, e)]
    BY <1>2 DEF GoStep
  <2>2. Append(s.out, e) \in Outs /\ Only(Append(s.out, e), K) = Only(FirstLines(n + 1), K)
    BY <1>1, OneMoreLine
  <2> HIDE DEF e, K, Bufs, Outs, r
  <2>3. r \in States /\ Only(r.out, K) = Only(FirstLines(n + 1), K)
    BY <1>1, <2>1, <2>2
  <2>4. GoOnCourse(r, n + 1)
    BY <1>0, <2>3
  <2> QED
    BY <2>4 DEF r
<1>3. CASE ~(s.section # "none" /\ Kind(input[n + 1]) \notin SectionEnd[s.section])
  <2> DEFINE t == [s EXCEPT !.section = "none"]
  <2>1. GoStep(s, n + 1, input[n + 1]) = GoLine(t, n + 1, input[n + 1])
    BY <1>3 DEF GoStep
  <2>2. GoOnCourse(t, n)
    <3> HIDE DEF K, Bufs, Outs
    <3> QED
      BY <1>0, <1>1
  <2> HIDE DEF t
  <2> QED
    BY <2>1, <2>2, GoLineOnCourse
<1> QED
  BY <1>2, <1>3

\* The states of the go test filter, line after line.
GoAfter ==
  CHOOSE after : after = [n \in 0..Len(input) |->
    IF n = 0 THEN GoStart ELSE GoStep(after[n - 1], n, input[n])]

\* The filter is on course at the end.
LEMMA GoReads ==
  ASSUME NEW L, input \in Seq(L), \A line \in L : Kind(line) \in GoKinds
  PROVE  GoOnCourse(Scan(GoStep, GoStart, input), Len(input))
<1> DEFINE m == Len(input)
           f == GoAfter
           Then(s, n) == GoStep(s, n, input[n])
           C == {p \in GoStates \X (0..m) : GoOnCourse(p[1], p[2])}
           H == [p \in C |-> Then(p[1], p[2] + 1)]
<1>1. m \in Nat /\ \A n \in 1..m : Kind(input[n]) \in GoKinds
  OBVIOUS
<1>2. GoOnCourse(GoStart, 0)
  <2>1. GoStart \in GoStates
    <3> DEFINE Bufs == Seq(Entries \ Said(GoVerdicts))
               Outs == Seq(Entries)
    <3>1. <<>> \in Bufs /\ <<>> \in Outs
      OBVIOUS
    <3> HIDE DEF Bufs, Outs
    <3>2. GoStart \in [section : {"none", "build", "panic"}, inTest : BOOLEAN, buf : Bufs,
                       skipped : Nat, out : Outs]
      BY <3>1 DEF GoStart
    <3> QED
      BY <3>2 DEF GoStates, Bufs, Outs
  <2>2. GoStart.out = FirstLines(0)
    BY FirstLinesType DEF GoStart, FirstLines
  <2> QED
    BY <2>1, <2>2 DEF GoOnCourse
<1>3. \A s, n : <<s, n>> \in C <=> n \in 0..m /\ GoOnCourse(s, n)
  BY DEF GoOnCourse
<1>4. \A s, n : <<s, n>> \in C => H[<<s, n>>] = Then(s, n + 1)
  OBVIOUS
<1>5. Leads(H, m, C)
  <2> SUFFICES ASSUME NEW s, NEW n \in 0..m, <<s, n>> \in C, n < m
               PROVE  <<H[<<s, n>>], n + 1>> \in C
    BY DEF Leads
  <2>1. n \in Nat /\ n + 1 \in 1..m /\ n + 1 \in 0..m
    BY <1>1
  <2>2. GoOnCourse(Then(s, n + 1), n + 1)
    BY <1>1, <1>3, <2>1, GoStepOnCourse
  <2> QED
    BY <1>3, <1>4, <2>1, <2>2
<1>6. <<GoStart, 0>> \in C /\ C \subseteq GoStates \X (0..m)
  BY <1>1, <1>2, <1>3
<1> HIDE DEF Then, m, C, H
<1>7. PICK g \in [0..m -> GoStates] : Follow(g, m, GoStart, H, C) /\ \A n \in 0..m : <<g[n], n>> \in C
  BY <1>1, <1>5, <1>6, ACourse
<1>8. g = [n \in 0..m |-> IF n = 0 THEN GoStart ELSE Then(g[n - 1], n)]
  <2>1. ASSUME NEW n \in 1..m PROVE g[n] = Then(g[n - 1], n)
    <3>1. (n - 1) + 1 = n /\ n - 1 \in 0..m
      BY <1>1
    <3>2. <<g[n - 1], n - 1>> \in C
      BY <1>7, <3>1
    <3>3. g[n] = H[<<g[n - 1], n - 1>>]
      BY <1>7, <3>2 DEF Follow
    <3>4. H[<<g[n - 1], n - 1>>] = Then(g[n - 1], (n - 1) + 1)
      BY <1>4, <3>2
    <3> QED
      BY <3>1, <3>3, <3>4
  <2>2. g[0] = GoStart
    BY <1>7 DEF Follow
  <2> QED
    BY <1>7, <2>1, <2>2
<1>9. f = [n \in 0..m |-> IF n = 0 THEN GoStart ELSE Then(f[n - 1], n)]
  BY <1>8 DEF GoAfter, Then, m
<1> HIDE DEF f
<1>10. Follow(f, m, GoStart, H, C)
  <2>1. f[0] = GoStart /\ \A n \in 1..m : f[n] = Then(f[n - 1], n)
    BY <1>1, <1>9
  <2>2. ASSUME NEW n \in 1..m, <<f[n - 1], n - 1>> \in C PROVE f[n] = H[<<f[n - 1], n - 1>>]
    <3>1. H[<<f[n - 1], n - 1>>] = Then(f[n - 1], (n - 1) + 1) /\ (n - 1) + 1 = n
      BY <1>4, <2>2
    <3> QED
      BY <2>1, <3>1
  <2> QED
    BY <2>1, <2>2 DEF Follow
<1>11. <<f[m], m>> \in C
  <2>1. \A n \in 0..m : <<f[n], n>> \in C
    BY <1>1, <1>5, <1>6, <1>10, OnCourse
  <2> QED
    BY <1>1, <2>1
<1>12. Scan(GoStep, GoStart, input) = f[m]
  BY DEF Scan, GoAfter, f, m
<1> QED
  BY <1>3, <1>11, <1>12 DEF m

\* goTestFilter loses no verdict of a test run's text.
LEMMA GoTestKeeps ==
  ASSUME NEW L, input \in Seq(L), \A line \in L : Kind(line) \in GoKinds
  PROVE  KeepsAll(GoVerdicts, GoTestText(input))
<1> DEFINE K == Said(GoVerdicts)
           s == Scan(GoStep, GoStart, input)
           count == IF s.skipped > 0 THEN <<<<"skipped", s.skipped>>>> ELSE <<>>
           all == s.out \o s.buf \o count
<1>1. GoOnCourse(s, Len(input))
  BY GoReads
<1> HIDE DEF s
<1>2. /\ s.out \in Seq(Entries) /\ s.buf \in Seq(Entries \ K) /\ s.skipped \in Nat
      /\ Only(s.out, K) = Only(FirstLines(Len(input)), K)
  BY <1>1 DEF GoOnCourse, GoStates
<1>3. count \in Seq(Entries \ K)
  <2> DEFINE X == Entries \ K
             e == <<"skipped", s.skipped>>
  <2>1. e \in X
    BY <1>2 DEF Entries, Said
  <2>2. count = IF s.skipped > 0 THEN <<e>> ELSE <<>>
    OBVIOUS
  <2> HIDE DEF X, e, count
  <2>3. <<e>> \in Seq(X) /\ <<>> \in Seq(X)
    BY <2>1
  <2> QED
    BY <2>2, <2>3 DEF X
<1> HIDE DEF count
<1>4. all \in Seq(Entries) /\ Only(all, K) = Only(s.out, K)
  <2> DEFINE a == s.out \o s.buf
  <2>1. a \in Seq(Entries) /\ Only(a, K) = Only(s.out, K)
    BY <1>2, BesidesSaysNothing
  <2> HIDE DEF a
  <2>2. a \o count \in Seq(Entries) /\ Only(a \o count, K) = Only(a, K)
    BY <1>3, <2>1, BesidesSaysNothing
  <2> QED
    BY <2>1, <2>2 DEF a
<1>5. "blank" \notin GoVerdicts
  BY DEF GoVerdicts
<1>6. GoTestText(input) = WithoutLastBlanks(all, input)
  BY DEF GoTestText, s, count
<1> HIDE DEF all
<1>7. WithoutLastBlanks(all, input) \in Seq(Entries) /\ Only(WithoutLastBlanks(all, input), K) = Only(all, K)
  BY <1>4, <1>5, LastBlanksSayNothing
<1> QED
  BY <1>2, <1>4, <1>6, <1>7, KeepsAllIs

-----------------------------------------------------------------------------
(* npmFilter.                                                                *)

\* The states of the npm filter.
NpmStart == [seen |-> {}, out |-> <<>>]
NpmStates == [seen : SUBSET {Name(input[i]) : i \in 1..Len(input)}, out : Seq(Entries)]

\* The filter is on course after n lines.
NpmOnCourse(s, n) ==
  s \in NpmStates /\ Only(s.out, Said(NpmKnown)) = Only(FirstLines(n), Said(NpmKnown))

\* Any line: those of a known kind are put out.
LEMMA NpmStepOnCourse ==
  ASSUME NEW s, NEW n \in Nat, n + 1 \in 1..Len(input), NpmOnCourse(s, n)
  PROVE  NpmOnCourse(NpmStep(s, n + 1, input[n + 1], input), n + 1)
<1> DEFINE K == Said(NpmKnown)
           k == Kind(input[n + 1])
           name == Name(input[n + 1])
           e == Line(n + 1)
           r == NpmStep(s, n + 1, input[n + 1], input)
           Outs == Seq(Entries)
           Seens == SUBSET {Name(input[i]) : i \in 1..Len(input)}
           States == [seen : Seens, out : Outs]
<1>1. ASSUME NEW t \in States, Only(t.out, K) = Only(FirstLines(n + 1), K)
      PROVE  NpmOnCourse(t, n + 1)
  BY <1>1 DEF NpmOnCourse, NpmStates
<1>2. s \in States /\ Only(s.out, K) = Only(FirstLines(n), K)
  BY DEF NpmOnCourse, NpmStates
<1>3. /\ Append(s.out, e) \in Outs /\ Only(Append(s.out, e), K) = Only(FirstLines(n + 1), K)
      /\ k \notin NpmKnown => Only(s.out, K) = Only(FirstLines(n + 1), K)
  BY <1>2, OneMoreLine
<1>4. s.seen \cup {name} \in Seens
  BY <1>2
<1>5. k = "blank" => r = KeepOneBlank(s, n + 1, input)
  BY DEF NpmStep, NpmKnown
<1>6. k = "notice" /\ name \notin s.seen =>
        r = [s EXCEPT !.seen = @ \cup {name}, !.out = Append(@, e)]
  BY DEF NpmStep, NpmKnown
<1>7. k \in NpmKnown => r = [s EXCEPT !.out = Append(@, e)]
  BY DEF NpmStep, NpmKnown
<1>8. k \notin NpmKnown /\ k # "blank" /\ ~(k = "notice" /\ name \notin s.seen) => r = s
  BY DEF NpmStep, NpmKnown
<1>9. k \in {"blank", "notice"} => k \notin NpmKnown
  BY DEF NpmKnown
<1>10. KeepOneBlank(s, n + 1, input) \in {s, [s EXCEPT !.out = Append(@, e)]}
  BY DEF KeepOneBlank
<1> HIDE DEF K, k, name, e, r, Outs, Seens
<1>11. s.seen \in Seens /\ s.out \in Outs
  BY <1>2
<1>12. ASSUME k = "blank"
       PROVE  NpmOnCourse(r, n + 1)
  BY <1>1, <1>2, <1>3, <1>5, <1>9, <1>10, <1>12
<1>13. ASSUME k = "notice" /\ name \notin s.seen
       PROVE  NpmOnCourse(r, n + 1)
  BY <1>1, <1>2, <1>3, <1>4, <1>6, <1>9, <1>13
<1>14. ASSUME k \in NpmKnown
       PROVE  NpmOnCourse(r, n + 1)
  BY <1>1, <1>2, <1>3, <1>7, <1>14
<1>15. ASSUME k \notin NpmKnown /\ k # "blank" /\ ~(k = "notice" /\ name \notin s.seen)
       PROVE  NpmOnCourse(r, n + 1)
  BY <1>1, <1>2, <1>3, <1>8, <1>15
<1>16. NpmOnCourse(r, n + 1)
  BY <1>12, <1>13, <1>14, <1>15
<1> QED
  BY <1>16 DEF r

\* The states of the npm filter, line after line.
NpmAfter ==
  CHOOSE after : after = [n \in 0..Len(input) |->
    IF n = 0 THEN NpmStart ELSE NpmStep(after[n - 1], n, input[n], input)]

\* The state at the end.
NpmScan ==
  LET Step(s, i, line) == NpmStep(s, i, line, input)
  IN  Scan(Step, NpmStart, input)

\* The filter is on course at the end.
LEMMA NpmReads ==
  ASSUME NEW L, input \in Seq(L)
  PROVE  NpmOnCourse(NpmScan, Len(input))
<1> DEFINE m == Len(input)
           f == NpmAfter
           Then(s, n) == NpmStep(s, n, input[n], input)
           C == {p \in NpmStates \X (0..m) : NpmOnCourse(p[1], p[2])}
           H == [p \in C |-> Then(p[1], p[2] + 1)]
<1>1. m \in Nat /\ m = Len(input)
  OBVIOUS
<1>2. NpmOnCourse(NpmStart, 0)
  <2>1. NpmStart \in NpmStates
    <3>1. <<>> \in Seq(Entries)
      OBVIOUS
    <3> QED
      BY <3>1 DEF NpmStart, NpmStates
  <2>2. NpmStart.out = FirstLines(0)
    BY FirstLinesType DEF NpmStart, FirstLines
  <2> QED
    BY <2>1, <2>2 DEF NpmOnCourse
<1>3. \A s, n : <<s, n>> \in C <=> n \in 0..m /\ NpmOnCourse(s, n)
  BY DEF NpmOnCourse
<1>4. \A s, n : <<s, n>> \in C => H[<<s, n>>] = Then(s, n + 1)
  OBVIOUS
<1>5. Leads(H, m, C)
  <2> SUFFICES ASSUME NEW s, NEW n \in 0..m, <<s, n>> \in C, n < m
               PROVE  <<H[<<s, n>>], n + 1>> \in C
    BY DEF Leads
  <2>1. n \in Nat /\ n + 1 \in 1..m /\ n + 1 \in 0..m
    BY <1>1
  <2>2. NpmOnCourse(Then(s, n + 1), n + 1)
    BY <1>1, <1>3, <2>1, NpmStepOnCourse
  <2> QED
    BY <1>3, <1>4, <2>1, <2>2
<1>6. <<NpmStart, 0>> \in C /\ C \subseteq NpmStates \X (0..m)
  BY <1>1, <1>2, <1>3
<1> HIDE DEF Then, m, C, H
<1>7. PICK g \in [0..m -> NpmStates] :
        Follow(g, m, NpmStart, H, C) /\ \A n \in 0..m : <<g[n], n>> \in C
  BY <1>1, <1>5, <1>6, ACourse
<1>8. g = [n \in 0..m |-> IF n = 0 THEN NpmStart ELSE Then(g[n - 1], n)]
  <2>1. ASSUME NEW n \in 1..m PROVE g[n] = Then(g[n - 1], n)
    <3>1. (n - 1) + 1 = n /\ n - 1 \in 0..m
      BY <1>1
    <3>2. <<g[n - 1], n - 1>> \in C
      BY <1>7, <3>1
    <3>3. g[n] = H[<<g[n - 1], n - 1>>]
      BY <1>7, <3>2 DEF Follow
    <3>4. H[<<g[n - 1], n - 1>>] = Then(g[n - 1], (n - 1) + 1)
      BY <1>4, <3>2
    <3> QED
      BY <3>1, <3>3, <3>4
  <2>2. g[0] = NpmStart
    BY <1>7 DEF Follow
  <2> QED
    BY <1>7, <2>1, <2>2
<1>9. f = [n \in 0..m |-> IF n = 0 THEN NpmStart ELSE Then(f[n - 1], n)]
  BY <1>8 DEF NpmAfter, Then, m
<1> HIDE DEF f
<1>10. Follow(f, m, NpmStart, H, C)
  <2>1. f[0] = NpmStart /\ \A n \in 1..m : f[n] = Then(f[n - 1], n)
    BY <1>1, <1>9
  <2>2. ASSUME NEW n \in 1..m, <<f[n - 1], n - 1>> \in C PROVE f[n] = H[<<f[n - 1], n - 1>>]
    <3>1. H[<<f[n - 1], n - 1>>] = Then(f[n - 1], (n - 1) + 1) /\ (n - 1) + 1 = n
      BY <1>4, <2>2
    <3> QED
      BY <2>1, <3>1
  <2> QED
    BY <2>1, <2>2 DEF Follow
<1>11. <<f[m], m>> \in C
  <2>1. \A n \in 0..m : <<f[n], n>> \in C
    BY <1>1, <1>5, <1>6, <1>10, OnCourse
  <2> QED
    BY <1>1, <2>1
<1>12. NpmScan = f[m]
  BY DEF NpmScan, Scan, NpmAfter, f, m
<1> QED
  BY <1>3, <1>11, <1>12 DEF m

\* npmFilter loses none of the lines it knows.
LEMMA NpmKeeps ==
  ASSUME NEW L, input \in Seq(L)
  PROVE  KeepsAll(NpmKnown, Npm(input))
<1> DEFINE K == Said(NpmKnown)
           s == NpmScan
           out == s.out
<1>1. NpmOnCourse(s, Len(input))
  BY NpmReads
<1>2. out \in Seq(Entries) /\ Only(out, K) = Only(FirstLines(Len(input)), K)
  BY <1>1 DEF NpmOnCourse, NpmStates
<1>3. Npm(input) = WithoutLastBlanks(out, input)
  BY DEF Npm, NpmScan, NpmStart
<1>4. "blank" \notin NpmKnown
  BY DEF NpmKnown
<1> HIDE DEF out, s
<1>5. WithoutLastBlanks(out, input) \in Seq(Entries) /\ Only(WithoutLastBlanks(out, input), K) = Only(out, K)
  BY <1>2, <1>4, LastBlanksSayNothing
<1> QED
  BY <1>2, <1>3, <1>5, KeepsAllIs

-----------------------------------------------------------------------------
(* cargoFilter.                                                              *)

\* The states of the cargo filter.
CargoKept == {"problem", "state", "test"}
CargoStart == [pointer |-> FALSE, out |-> <<>>]
CargoStates == [pointer : BOOLEAN, out : Seq(Entries)]

\* Line i comes right after an error or a warning.
AfterProblem(i) == i > 1 /\ Kind(input[i - 1]) = "problem"

\* Of the first lines, the pointers that are put out are those after a problem.
PointersTo(out, n) ==
  /\ ToSet(out) \subseteq {Line(i) : i \in 1..n}
  /\ \A i \in 1..n : Kind(input[i]) = "pointer" => (AfterProblem(i) <=> Line(i) \in ToSet(out))

\* The filter is on course after n lines: it knows whether a pointer may follow.
CargoOnCourse(s, n) ==
  /\ s \in CargoStates
  /\ Only(s.out, Said(CargoKept)) = Only(FirstLines(n), Said(CargoKept))
  /\ s.pointer <=> AfterProblem(n + 1)
  /\ PointersTo(s.out, n)

\* What a list holds that is one longer.
LEMMA OneMoreHeld ==
  ASSUME NEW E, NEW out \in Seq(E), NEW e \in E
  PROVE  ToSet(Append(out, e)) = ToSet(out) \cup {e}
<1> DEFINE long == Append(out, e)
<1>1. Len(out) \in Nat /\ DOMAIN out = 1..Len(out) /\ DOMAIN long = 1..Len(out) + 1
  OBVIOUS
<1>2. long[Len(out) + 1] = e /\ \A i \in 1..Len(out) : long[i] = out[i]
  OBVIOUS
<1> HIDE DEF long
<1>3. \A i \in 1..Len(out) + 1 : i = Len(out) + 1 \/ i \in 1..Len(out)
  BY <1>1
<1>4. \A i \in 1..Len(out) : i \in 1..Len(out) + 1
  BY <1>1
<1>5. Len(out) + 1 \in 1..Len(out) + 1
  BY <1>1
<1>6. ToSet(long) = ToSet(out) \cup {e}
  BY <1>1, <1>2, <1>3, <1>4, <1>5 DEF ToSet
<1> QED
  BY <1>6 DEF long

\* One line more, put out or not.
LEMMA OneMorePointer ==
  ASSUME NEW out \in Seq(Entries), NEW n \in Nat, PointersTo(out, n)
  PROVE  /\ Kind(input[n + 1]) # "pointer" \/ AfterProblem(n + 1) => PointersTo(Append(out, Line(n + 1)), n + 1)
         /\ Kind(input[n + 1]) # "pointer" \/ ~AfterProblem(n + 1) => PointersTo(out, n + 1)
<1> DEFINE e == Line(n + 1)
           Held(o) == ToSet(o)
<1>1. e \in Entries
  <2>1. n + 1 \in Nat
    OBVIOUS
  <2> QED
    BY <2>1, FirstLinesType
<1>2. Held(Append(out, e)) = Held(out) \cup {e}
  BY <1>1, OneMoreHeld
<1>3. \A i \in 1..n + 1 : i = n + 1 \/ i \in 1..n
  OBVIOUS
<1>4. \A i, j : Line(i) = Line(j) => i = j
  BY DEF Line
<1>5. Held(out) \subseteq {Line(i) : i \in 1..n}
  BY DEF PointersTo
<1>6. e \notin Held(out)
  <2>1. n + 1 \notin 1..n
    OBVIOUS
  <2> QED
    BY <1>4, <1>5, <2>1
<1>7. \A i \in 1..n : Line(i) # e
  <2>1. \A i \in 1..n : i # n + 1
    OBVIOUS
  <2> QED
    BY <1>4, <2>1
<1>8. \A i \in 1..n : i \in 1..n + 1
  OBVIOUS
<1>9. n + 1 \in 1..n + 1
  OBVIOUS
<1>10. \A i \in 1..n : Kind(input[i]) = "pointer" => (AfterProblem(i) <=> Line(i) \in Held(out))
  BY DEF PointersTo
<1>11. Line(n + 1) = e
  OBVIOUS
<1> HIDE DEF e, Held
<1>12. ASSUME Kind(input[n + 1]) # "pointer" \/ AfterProblem(n + 1)
       PROVE  PointersTo(Append(out, e), n + 1)
  <2>1. Held(Append(out, e)) \subseteq {Line(i) : i \in 1..n + 1}
    BY <1>2, <1>5, <1>8, <1>9, <1>11
  <2>2. ASSUME NEW i \in 1..n + 1, Kind(input[i]) = "pointer"
        PROVE  AfterProblem(i) <=> Line(i) \in Held(Append(out, e))
    BY <1>2, <1>3, <1>7, <1>10, <1>11, <1>12, <2>2
  <2> QED
    BY <2>1, <2>2 DEF PointersTo, Held
<1>13. ASSUME Kind(input[n + 1]) # "pointer" \/ ~AfterProblem(n + 1)
       PROVE  PointersTo(out, n + 1)
  <2>1. Held(out) \subseteq {Line(i) : i \in 1..n + 1}
    BY <1>5, <1>8
  <2>2. ASSUME NEW i \in 1..n + 1, Kind(input[i]) = "pointer"
        PROVE  AfterProblem(i) <=> Line(i) \in Held(out)
    BY <1>3, <1>6, <1>10, <1>11, <1>13, <2>2
  <2> QED
    BY <2>1, <2>2 DEF PointersTo, Held
<1> QED
  BY <1>12, <1>13 DEF e

\* Any line: a problem is put out and lets a pointer follow, nothing else does.
LEMMA CargoStepOnCourse ==
  ASSUME NEW s, NEW n \in Nat, CargoOnCourse(s, n)
  PROVE  CargoOnCourse(CargoStep(s, n + 1, input[n + 1], input), n + 1)
<1> DEFINE K == Said(CargoKept)
           k == Kind(input[n + 1])
           e == Line(n + 1)
           r == CargoStep(s, n + 1, input[n + 1], input)
           Outs == Seq(Entries)
           States == [pointer : BOOLEAN, out : Outs]
           Good(o) == o \in Outs /\ Only(o, K) = Only(FirstLines(n + 1), K) /\ PointersTo(o, n + 1)
           more == Append(s.out, e)
<1>1. ASSUME NEW t \in States, Good(t.out), t.pointer <=> k = "problem"
      PROVE  CargoOnCourse(t, n + 1)
  <2>1. AfterProblem((n + 1) + 1) <=> k = "problem"
    <3>1. (n + 1) + 1 > 1 /\ ((n + 1) + 1) - 1 = n + 1
      OBVIOUS
    <3> QED
      BY <3>1 DEF AfterProblem
  <2> QED
    BY <1>1, <2>1 DEF CargoOnCourse, CargoStates
<1>2. s \in States /\ s.out \in Outs /\ (s.pointer <=> AfterProblem(n + 1))
  BY DEF CargoOnCourse, CargoStates
<1>3. k # "pointer" \/ s.pointer => Good(more)
  <2>1. more \in Outs /\ Only(more, K) = Only(FirstLines(n + 1), K)
    BY <1>2, OneMoreLine DEF CargoOnCourse
  <2>2. k # "pointer" \/ s.pointer => PointersTo(more, n + 1)
    BY <1>2, OneMorePointer DEF CargoOnCourse
  <2> QED
    BY <2>1, <2>2
<1>4. k \notin CargoKept /\ (k # "pointer" \/ ~s.pointer) => Good(s.out)
  <2>1. k \notin CargoKept => Only(s.out, K) = Only(FirstLines(n + 1), K)
    BY <1>2, OneMoreLine DEF CargoOnCourse
  <2>2. k # "pointer" \/ ~s.pointer => PointersTo(s.out, n + 1)
    BY <1>2, OneMorePointer DEF CargoOnCourse
  <2> QED
    BY <1>2, <2>1, <2>2
<1>5. k = "problem" => r = [s EXCEPT !.pointer = TRUE, !.out = more]
  BY <1>2 DEF CargoStep
<1>6. k \in {"state", "test"} => r = [s EXCEPT !.pointer = FALSE, !.out = more]
  BY <1>2 DEF CargoStep
<1>7. k = "pointer" /\ s.pointer => r = [s EXCEPT !.pointer = FALSE, !.out = more]
  BY <1>2 DEF CargoStep
<1>8. k = "blank" => r \in {[s EXCEPT !.pointer = FALSE], [s EXCEPT !.pointer = FALSE, !.out = more]}
  BY <1>2 DEF CargoStep, KeepOneBlank
<1>9. k \notin {"problem", "state", "test", "blank"} /\ ~(k = "pointer" /\ s.pointer) =>
        r = [s EXCEPT !.pointer = FALSE]
  BY <1>2 DEF CargoStep
<1> HIDE DEF K, k, e, r, Outs, Good, more
<1>10. more \in Outs \/ ~Good(more)
  BY DEF Good
<1>11. ASSUME k = "problem" PROVE CargoOnCourse(r, n + 1)
  BY <1>1, <1>2, <1>3, <1>5, <1>10, <1>11
<1>12. ASSUME k \in {"state", "test"} PROVE CargoOnCourse(r, n + 1)
  BY <1>1, <1>2, <1>3, <1>6, <1>10, <1>12
<1>13. ASSUME k = "pointer", s.pointer PROVE CargoOnCourse(r, n + 1)
  BY <1>1, <1>2, <1>3, <1>7, <1>10, <1>13
<1>14. ASSUME k = "blank" PROVE CargoOnCourse(r, n + 1)
  <2>1. Good(s.out) /\ Good(more) /\ more \in Outs
    BY <1>3, <1>4, <1>10, <1>14 DEF CargoKept
  <2> QED
    BY <1>1, <1>2, <1>8, <1>14, <2>1
<1>15. ASSUME k \notin {"problem", "state", "test", "blank"}, ~(k = "pointer" /\ s.pointer)
       PROVE  CargoOnCourse(r, n + 1)
  <2>1. Good(s.out)
    BY <1>4, <1>15 DEF CargoKept
  <2> QED
    BY <1>1, <1>2, <1>9, <1>15, <2>1
<1>16. CargoOnCourse(r, n + 1)
  BY <1>11, <1>12, <1>13, <1>14, <1>15
<1> QED
  BY <1>16 DEF r

\* The states of the cargo filter, line after line, and the state at the end.
CargoAfter ==
  CHOOSE after : after = [n \in 0..Len(input) |->
    IF n = 0 THEN CargoStart ELSE CargoStep(after[n - 1], n, input[n], input)]

CargoScan ==
  LET Step(s, i, line) == CargoStep(s, i, line, input)
  IN  Scan(Step, CargoStart, input)

\* The filter is on course at the end.
LEMMA CargoReads ==
  ASSUME NEW L, input \in Seq(L)
  PROVE  CargoOnCourse(CargoScan, Len(input))
<1> DEFINE m == Len(input)
           f == CargoAfter
           Then(s, n) == CargoStep(s, n, input[n], input)
           C == {p \in CargoStates \X (0..m) : CargoOnCourse(p[1], p[2])}
           H == [p \in C |-> Then(p[1], p[2] + 1)]
<1>1. m \in Nat /\ m = Len(input)
  OBVIOUS
<1>2. CargoOnCourse(CargoStart, 0)
  <2>1. CargoStart \in CargoStates
    <3>1. <<>> \in Seq(Entries)
      OBVIOUS
    <3> QED
      BY <3>1 DEF CargoStart, CargoStates
  <2>2. CargoStart.out = FirstLines(0)
    BY FirstLinesType DEF CargoStart, FirstLines
  <2>3. PointersTo(CargoStart.out, 0) /\ CargoStart.pointer = FALSE /\ ~AfterProblem(0 + 1)
    BY DEF PointersTo, CargoStart, ToSet, AfterProblem
  <2> QED
    BY <2>1, <2>2, <2>3 DEF CargoOnCourse
<1>3. \A s, n : <<s, n>> \in C <=> n \in 0..m /\ CargoOnCourse(s, n)
  BY DEF CargoOnCourse
<1>4. \A s, n : <<s, n>> \in C => H[<<s, n>>] = Then(s, n + 1)
  OBVIOUS
<1>5. Leads(H, m, C)
  <2> SUFFICES ASSUME NEW s, NEW n \in 0..m, <<s, n>> \in C, n < m
               PROVE  <<H[<<s, n>>], n + 1>> \in C
    BY DEF Leads
  <2>1. n \in Nat /\ n + 1 \in 1..m /\ n + 1 \in 0..m
    BY <1>1
  <2>2. CargoOnCourse(Then(s, n + 1), n + 1)
    BY <1>1, <1>3, <2>1, CargoStepOnCourse
  <2> QED
    BY <1>3, <1>4, <2>1, <2>2
<1>6. <<CargoStart, 0>> \in C /\ C \subseteq CargoStates \X (0..m)
  BY <1>1, <1>2, <1>3
<1> HIDE DEF Then, m, C, H
<1>7. PICK g \in [0..m -> CargoStates] :
        Follow(g, m, CargoStart, H, C) /\ \A n \in 0..m : <<g[n], n>> \in C
  BY <1>1, <1>5, <1>6, ACourse
<1>8. g = [n \in 0..m |-> IF n = 0 THEN CargoStart ELSE Then(g[n - 1], n)]
  <2>1. ASSUME NEW n \in 1..m PROVE g[n] = Then(g[n - 1], n)
    <3>1. (n - 1) + 1 = n /\ n - 1 \in 0..m
      BY <1>1
    <3>2. <<g[n - 1], n - 1>> \in C
      BY <1>7, <3>1
    <3>3. g[n] = H[<<g[n - 1], n - 1>>]
      BY <1>7, <3>2 DEF Follow
    <3>4. H[<<g[n - 1], n - 1>>] = Then(g[n - 1], (n - 1) + 1)
      BY <1>4, <3>2
    <3> QED
      BY <3>1, <3>3, <3>4
  <2>2. g[0] = CargoStart
    BY <1>7 DEF Follow
  <2> QED
    BY <1>7, <2>1, <2>2
<1>9. f = [n \in 0..m |-> IF n = 0 THEN CargoStart ELSE Then(f[n - 1], n)]
  BY <1>8 DEF CargoAfter, Then, m
<1> HIDE DEF f
<1>10. Follow(f, m, CargoStart, H, C)
  <2>1. f[0] = CargoStart /\ \A n \in 1..m : f[n] = Then(f[n - 1], n)
    BY <1>1, <1>9
  <2>2. ASSUME NEW n \in 1..m, <<f[n - 1], n - 1>> \in C PROVE f[n] = H[<<f[n - 1], n - 1>>]
    <3>1. H[<<f[n - 1], n - 1>>] = Then(f[n - 1], (n - 1) + 1) /\ (n - 1) + 1 = n
      BY <1>4, <2>2
    <3> QED
      BY <2>1, <3>1
  <2> QED
    BY <2>1, <2>2 DEF Follow
<1>11. <<f[m], m>> \in C
  <2>1. \A n \in 0..m : <<f[n], n>> \in C
    BY <1>1, <1>5, <1>6, <1>10, OnCourse
  <2> QED
    BY <1>1, <2>1
<1>12. CargoScan = f[m]
  BY DEF CargoScan, Scan, CargoAfter, f, m
<1> QED
  BY <1>3, <1>11, <1>12 DEF m

\* Only blank lines are left out at the end.
LEMMA OnlyBlanksLeftOut ==
  ASSUME NEW out \in Seq(Entries)
  PROVE  /\ ToSet(WithoutLastBlanks(out, input)) \subseteq ToSet(out)
         /\ \A e \in ToSet(out) : ~IsBlank(e, input) => e \in ToSet(WithoutLastBlanks(out, input))
<1> DEFINE I == {i \in 1..Len(out) : ~IsBlank(out[i], input)}
           k == IF I # {} THEN Max(I) ELSE 0
           short == SubSeq(out, 1, k)
<1>1. WithoutLastBlanks(out, input) = short
  BY DEF WithoutLastBlanks, SelectLastInSeq
<1>2. Len(out) \in Nat /\ DOMAIN out = 1..Len(out) /\ I \subseteq 1..Len(out)
  OBVIOUS
<1>3. I # {} => k \in 1..Len(out) /\ \A i \in I : i <= k
  <2> HIDE DEF I
  <2> QED
    BY <1>2, MaxOf
<1>4. k \in 0..Len(out) /\ \A i \in I : i \in 1..k
  BY <1>2, <1>3
<1> HIDE DEF k
<1>5. DOMAIN short = 1..k /\ \A i \in 1..k : short[i] = out[i]
  BY <1>2, <1>4
<1>6. \A i \in 1..k : i \in 1..Len(out)
  BY <1>2, <1>4
<1> HIDE DEF short
<1>7. ToSet(short) \subseteq ToSet(out)
  BY <1>2, <1>5, <1>6 DEF ToSet
<1>8. \A i \in 1..Len(out) : ~IsBlank(out[i], input) => i \in 1..k
  BY <1>4
<1>9. \A i \in 1..Len(out) : ~IsBlank(out[i], input) => out[i] \in ToSet(short)
  BY <1>5, <1>8 DEF ToSet
<1>10. \A e \in ToSet(out) : ~IsBlank(e, input) => e \in ToSet(short)
  BY <1>2, <1>9 DEF ToSet
<1> QED
  BY <1>1, <1>7, <1>10

\* cargoFilter loses no problem, no state and no test, and a pointer stays with
\* its problem.
LEMMA CargoKeeps ==
  ASSUME NEW L, input \in Seq(L)
  PROVE  KeepsAll(CargoKept, Cargo(input)) /\ PointersKept(Cargo(input))
<1> DEFINE K == Said(CargoKept)
           s == CargoScan
           out == s.out
           short == WithoutLastBlanks(out, input)
<1>1. CargoOnCourse(s, Len(input))
  BY CargoReads
<1>2. /\ out \in Seq(Entries) /\ Only(out, K) = Only(FirstLines(Len(input)), K)
      /\ PointersTo(out, Len(input))
  BY <1>1 DEF CargoOnCourse, CargoStates
<1>3. Cargo(input) = short
  BY DEF Cargo, CargoScan, CargoStart
<1>4. "blank" \notin CargoKept
  BY DEF CargoKept
<1> HIDE DEF out, s
<1>5. short \in Seq(Entries) /\ Only(short, K) = Only(out, K)
  BY <1>2, <1>4, LastBlanksSayNothing
<1>6. ToSet(short) \subseteq ToSet(out) /\ \A e \in ToSet(out) : ~IsBlank(e, input) => e \in ToSet(short)
  BY <1>2, OnlyBlanksLeftOut
<1> HIDE DEF short
<1>7. KeepsAll(CargoKept, short)
  BY <1>2, <1>5, KeepsAllIs
<1>8. PointersKept(short)
  <2> SUFFICES ASSUME NEW i \in 1..Len(input), Kind(input[i]) = "pointer"
               PROVE  AfterProblem(i) <=> Line(i) \in ToSet(short)
    BY DEF PointersKept, LinesOf, AfterProblem
  <2>1. AfterProblem(i) <=> Line(i) \in ToSet(out)
    BY <1>2 DEF PointersTo
  <2>2. ~IsBlank(Line(i), input)
    BY DEF IsBlank, Line
  <2> QED
    BY <1>6, <2>1, <2>2
<1> QED
  BY <1>3, <1>7, <1>8

-----------------------------------------------------------------------------
(* pytestFilter.                                                             *)

\* The states of the pytest filter.
PytestKept == {"failed summary", "FAILURES"}
PytestStates ==
  [mode : {"outside", "starting", "kept", "dropped"}, progress : BOOLEAN, blank : BOOLEAN, out : Seq(Entries)]

\* After n lines a session is still to say what it collected.
Awaited(n) ==
  \E i \in LinesOf({"session"}) : i <= n /\ \A j \in i + 1..n : Kind(input[j]) # "collected"

\* The filter is on course after n lines: what it drops at a session's start is
\* what comes before the line it waits for.
PytestOnCourse(s, n) ==
  /\ s \in PytestStates
  /\ Only(s.out, Said(PytestKept)) = Only(FirstLines(n), Said(PytestKept))
  /\ s.mode = "starting" => Awaited(n)

\* While that line is awaited no other section begins.
LEMMA NoneBegins ==
  ASSUME NEW L, input \in Seq(L), NEW n \in Nat, n + 1 \in 1..Len(input), Collects, Awaited(n)
  PROVE  Kind(input[n + 1]) \notin Sections
<1>1. Len(input) \in Nat
  OBVIOUS
<1>2. PICK i \in LinesOf({"session"}) : i <= n /\ \A j \in i + 1..n : Kind(input[j]) # "collected"
  BY DEF Awaited
<1>3. PICK j \in LinesOf({"collected"}) : i < j /\ \A k \in i + 1..j - 1 : Kind(input[k]) \notin Sections
  BY <1>2 DEF Collects
<1>4. i \in 1..Len(input) /\ j \in 1..Len(input) /\ Kind(input[j]) = "collected"
  BY <1>2, <1>3 DEF LinesOf
<1>5. n + 1 <= j
  <2>1. j \notin i + 1..n
    BY <1>2, <1>4
  <2> QED
    BY <1>1, <1>3, <1>4, <2>1
<1>6. CASE n + 1 = j
  BY <1>4, <1>6 DEF Sections
<1>7. CASE n + 1 # j
  <2>1. n + 1 \in i + 1..j - 1
    BY <1>1, <1>2, <1>4, <1>5, <1>7
  <2> QED
    BY <1>3, <2>1
<1> QED
  BY <1>6, <1>7

\* Any line: it is dropped at a session's start, where no section begins, and in
\* the warnings of a run that passed.
LEMMA PytestStepOnCourse ==
  ASSUME NEW L, input \in Seq(L), NEW s, NEW n \in Nat, n + 1 \in 1..Len(input), Collects, PytestOnCourse(s, n)
  PROVE  PytestOnCourse(PytestStep(s, n + 1, Kind(input[n + 1]), HasFailures(input)), n + 1)
<1> DEFINE K == Said(PytestKept)
           k == Kind(input[n + 1])
           failed == HasFailures(input)
           e == Line(n + 1)
           r == PytestStep(s, n + 1, k, failed)
           Outs == Seq(Entries)
           States == [mode : {"outside", "starting", "kept", "dropped"}, progress : BOOLEAN,
                      blank : BOOLEAN, out : Outs]
           Good(o) == o \in Outs /\ Only(o, K) = Only(FirstLines(n + 1), K)
           more == Append(s.out, e)
<1>1. ASSUME NEW t \in States, Good(t.out), t.mode = "starting" => Awaited(n + 1)
      PROVE  PytestOnCourse(t, n + 1)
  BY <1>1 DEF PytestOnCourse, PytestStates
<1>2. s \in States /\ s.out \in Outs
  BY DEF PytestOnCourse, PytestStates
<1>3. Good(more) /\ more \in Outs
  BY <1>2, OneMoreLine DEF PytestOnCourse
<1>4. k \notin Sections => Good(s.out)
  <2>1. k \notin Sections => k \notin PytestKept
    BY DEF Sections, PytestKept
  <2> QED
    BY <1>2, <2>1, OneMoreLine DEF PytestOnCourse
<1>5. k = "warnings" => Good(s.out)
  <2>1. k = "warnings" => k \notin PytestKept
    BY DEF PytestKept
  <2> QED
    BY <1>2, <2>1, OneMoreLine DEF PytestOnCourse
<1>6. s.mode = "starting" => k \notin Sections /\ (k # "collected" => Awaited(n + 1))
  <2> SUFFICES ASSUME s.mode = "starting" PROVE k \notin Sections /\ (k # "collected" => Awaited(n + 1))
    OBVIOUS
  <2>1. Awaited(n)
    BY DEF PytestOnCourse
  <2>2. k \notin Sections
    BY <2>1, NoneBegins
  <2>3. ASSUME k # "collected" PROVE Awaited(n + 1)
    <3>1. PICK i \in LinesOf({"session"}) : i <= n /\ \A j \in i + 1..n : Kind(input[j]) # "collected"
      BY <2>1 DEF Awaited
    <3>2. i \in Nat
      BY <3>1 DEF LinesOf
    <3>3. i <= n + 1 /\ \A j \in i + 1..n + 1 : j = n + 1 \/ j \in i + 1..n
      BY <3>1, <3>2
    <3> QED
      BY <2>3, <3>1, <3>3 DEF Awaited
  <2> QED
    BY <2>2, <2>3
<1>7. k = "session" => Awaited(n + 1)
  <2> SUFFICES ASSUME k = "session" PROVE Awaited(n + 1)
    OBVIOUS
  <2>1. n + 1 \in LinesOf({"session"}) /\ n + 1 <= n + 1
    BY DEF LinesOf
  <2>2. \A j : j \notin (n + 1) + 1..n + 1
    OBVIOUS
  <2> QED
    BY <2>1, <2>2 DEF Awaited
<1> DEFINE Ok(t) == t \in States /\ Good(t.out) /\ (t.mode = "starting" => Awaited(n + 1))
<1>8. ASSUME s.mode = "starting", k # "collected" PROVE Ok(r)
  <2>1. r = s
    BY <1>8 DEF PytestStep
  <2>2. Good(s.out) /\ Awaited(n + 1)
    BY <1>4, <1>6, <1>8
  <2> HIDE DEF Good, r
  <2> QED
    BY <1>2, <2>1, <2>2
<1>9. ASSUME s.mode # "starting", k \in Sections PROVE Ok(r)
  <2>1. r = OpenSection(s, n + 1, k, failed)
    BY <1>9 DEF PytestStep
  <2>2. k = "session" => r = [s EXCEPT !.mode = "starting", !.blank = FALSE, !.out = Append(@, e)]
    BY <2>1 DEF OpenSection
  <2>3. k = "warnings" /\ ~failed => r = [s EXCEPT !.mode = "dropped", !.blank = FALSE]
    BY <2>1 DEF OpenSection
  <2>4. k = "warnings" /\ failed => r = [s EXCEPT !.mode = "kept", !.blank = FALSE, !.out = Append(@, e)]
    BY <2>1 DEF OpenSection
  <2>5. k = "FAILURES" =>
          r = [s EXCEPT !.mode = "kept", !.progress = FALSE, !.blank = FALSE, !.out = Append(@, e)]
    BY <2>1 DEF OpenSection
  <2>6. k \notin {"session", "warnings", "FAILURES"} => r = [s EXCEPT !.mode = "kept", !.out = Append(@, e)]
    BY <2>1 DEF OpenSection
  <2> HIDE DEF Good, r, k, e, failed, Outs
  <2>7. CASE k = "session"
    BY <1>2, <1>3, <1>7, <2>2, <2>7
  <2>8. CASE k = "warnings" /\ ~failed
    BY <1>2, <1>5, <2>3, <2>8
  <2>9. CASE k = "warnings" /\ failed
    BY <1>2, <1>3, <2>4, <2>9
  <2>10. CASE k = "FAILURES"
    BY <1>2, <1>3, <2>5, <2>10
  <2>11. CASE k \notin {"session", "warnings", "FAILURES"}
    BY <1>2, <1>3, <2>6, <2>11
  <2> QED
    BY <2>7, <2>8, <2>9, <2>10, <2>11
<1>10. ASSUME s.mode = "kept", k \notin Sections PROVE Ok(r)
  <2>1. r = [s EXCEPT !.out = Append(@, e)]
    BY <1>10 DEF PytestStep
  <2> HIDE DEF Good, r, e, Outs
  <2> QED
    BY <1>2, <1>3, <1>10, <2>1
<1>11. ASSUME s.mode = "dropped", k \notin Sections PROVE Ok(r)
  <2>1. r = s
    BY <1>11 DEF PytestStep
  <2> HIDE DEF Good, r
  <2> QED
    BY <1>2, <1>4, <1>11, <2>1
<1>12. ASSUME s.mode = "outside" \/ (s.mode = "starting" /\ k = "collected"), k \notin Sections
       PROVE  Ok(r)
  <2>1. r = PytestLine(s, n + 1, k)
    BY <1>12 DEF PytestStep
  <2>2. k = "collected" =>
          r = [s EXCEPT !.mode = "outside", !.progress = TRUE, !.blank = FALSE, !.out = Append(@, e)]
    BY <2>1 DEF PytestLine
  <2>3. k = "progress" /\ s.progress => r = s
    BY <2>1 DEF PytestLine
  <2>4. k = "blank" => r = [s EXCEPT !.blank = TRUE, !.out = IF s.blank THEN @ ELSE Append(@, e)]
    BY <2>1 DEF PytestLine
  <2>5. k \notin {"collected", "blank"} /\ ~(k = "progress" /\ s.progress) =>
          r = [s EXCEPT !.blank = FALSE, !.out = Append(@, e)]
    BY <2>1 DEF PytestLine
  <2> HIDE DEF Good, r, k, e, Outs
  <2>6. CASE k = "collected"
    BY <1>2, <1>3, <2>2, <2>6
  <2>7. CASE k = "progress" /\ s.progress
    BY <1>2, <1>4, <1>12, <2>3, <2>7
  <2>8. CASE k = "blank"
    BY <1>2, <1>3, <1>4, <1>12, <2>4, <2>8
  <2>9. CASE k \notin {"collected", "blank"} /\ ~(k = "progress" /\ s.progress)
    BY <1>2, <1>3, <1>12, <2>5, <2>9
  <2> QED
    BY <2>6, <2>7, <2>8, <2>9
<1>13. s.mode \in {"outside", "starting", "kept", "dropped"}
  BY <1>2
<1>14. k = "collected" => k \notin Sections
  BY DEF Sections
<1> HIDE DEF Good, r, k, Outs, States
<1>15. Ok(r)
  BY <1>6, <1>8, <1>9, <1>10, <1>11, <1>12, <1>13, <1>14
<1>16. PytestOnCourse(r, n + 1)
  BY <1>1, <1>15
<1> QED
  BY <1>16 DEF r, k, failed

\* The states of the pytest filter, line after line, and the state at the end.
PytestAfter ==
  CHOOSE after : after = [n \in 0..Len(input) |->
    IF n = 0 THEN PytestStart ELSE PytestStep(after[n - 1], n, Kind(input[n]), HasFailures(input))]

PytestScan ==
  LET Step(s, i, line) == PytestStep(s, i, Kind(line), HasFailures(input))
  IN  Scan(Step, PytestStart, input)

\* The filter is on course at the end.
LEMMA PytestReads ==
  ASSUME NEW L, input \in Seq(L), Collects
  PROVE  PytestOnCourse(PytestScan, Len(input))
<1> DEFINE m == Len(input)
           f == PytestAfter
           Then(s, n) == PytestStep(s, n, Kind(input[n]), HasFailures(input))
           C == {p \in PytestStates \X (0..m) : PytestOnCourse(p[1], p[2])}
           H == [p \in C |-> Then(p[1], p[2] + 1)]
<1>1. m \in Nat /\ m = Len(input)
  OBVIOUS
<1>2. PytestOnCourse(PytestStart, 0)
  <2>1. PytestStart \in PytestStates
    <3>1. <<>> \in Seq(Entries)
      OBVIOUS
    <3> QED
      BY <3>1 DEF PytestStart, PytestStates
  <2>2. PytestStart.out = FirstLines(0) /\ PytestStart.mode # "starting"
    BY FirstLinesType DEF PytestStart, FirstLines
  <2> QED
    BY <2>1, <2>2 DEF PytestOnCourse
<1>3. \A s, n : <<s, n>> \in C <=> n \in 0..m /\ PytestOnCourse(s, n)
  BY DEF PytestOnCourse
<1>4. \A s, n : <<s, n>> \in C => H[<<s, n>>] = Then(s, n + 1)
  OBVIOUS
<1>5. Leads(H, m, C)
  <2> SUFFICES ASSUME NEW s, NEW n \in 0..m, <<s, n>> \in C, n < m
               PROVE  <<H[<<s, n>>], n + 1>> \in C
    BY DEF Leads
  <2>1. n \in Nat /\ n + 1 \in 1..m /\ n + 1 \in 0..m
    BY <1>1
  <2>2. PytestOnCourse(Then(s, n + 1), n + 1)
    BY <1>1, <1>3, <2>1, PytestStepOnCourse
  <2> QED
    BY <1>3, <1>4, <2>1, <2>2
<1>6. <<PytestStart, 0>> \in C /\ C \subseteq PytestStates \X (0..m)
  BY <1>1, <1>2, <1>3
<1> HIDE DEF Then, m, C, H
<1>7. PICK g \in [0..m -> PytestStates] :
        Follow(g, m, PytestStart, H, C) /\ \A n \in 0..m : <<g[n], n>> \in C
  BY <1>1, <1>5, <1>6, ACourse
<1>8. g = [n \in 0..m |-> IF n = 0 THEN PytestStart ELSE Then(g[n - 1], n)]
  <2>1. ASSUME NEW n \in 1..m PROVE g[n] = Then(g[n - 1], n)
    <3>1. (n - 1) + 1 = n /\ n - 1 \in 0..m
      BY <1>1
    <3>2. <<g[n - 1], n - 1>> \in C
      BY <1>7, <3>1
    <3>3. g[n] = H[<<g[n - 1], n - 1>>]
      BY <1>7, <3>2 DEF Follow
    <3>4. H[<<g[n - 1], n - 1>>] = Then(g[n - 1], (n - 1) + 1)
      BY <1>4, <3>2
    <3> QED
      BY <3>1, <3>3, <3>4
  <2>2. g[0] = PytestStart
    BY <1>7 DEF Follow
  <2> QED
    BY <1>7, <2>1, <2>2
<1>9. f = [n \in 0..m |-> IF n = 0 THEN PytestStart ELSE Then(f[n - 1], n)]
  BY <1>8 DEF PytestAfter, Then, m
<1> HIDE DEF f
<1>10. Follow(f, m, PytestStart, H, C)
  <2>1. f[0] = PytestStart /\ \A n \in 1..m : f[n] = Then(f[n - 1], n)
    BY <1>1, <1>9
  <2>2. ASSUME NEW n \in 1..m, <<f[n - 1], n - 1>> \in C PROVE f[n] = H[<<f[n - 1], n - 1>>]
    <3>1. H[<<f[n - 1], n - 1>>] = Then(f[n - 1], (n - 1) + 1) /\ (n - 1) + 1 = n
      BY <1>4, <2>2
    <3> QED
      BY <2>1, <3>1
  <2> QED
    BY <2>1, <2>2 DEF Follow
<1>11. <<f[m], m>> \in C
  <2>1. \A n \in 0..m : <<f[n], n>> \in C
    BY <1>1, <1>5, <1>6, <1>10, OnCourse
  <2> QED
    BY <1>1, <2>1
<1>12. PytestScan = f[m]
  BY DEF PytestScan, Scan, PytestAfter, f, m
<1> QED
  BY <1>3, <1>11, <1>12 DEF m

\* pytestFilter loses no failure of a run that says what it collected.
LEMMA PytestKeeps ==
  ASSUME NEW L, input \in Seq(L), Collects
  PROVE  KeepsAll(PytestKept, Pytest(input))
<1> DEFINE s == PytestScan
<1>1. CASE \E i \in 1..Len(input) : Kind(input[i]) \in Sections
  <2>1. Pytest(input) = s.out
    BY <1>1 DEF Pytest, PytestScan
  <2>2. PytestOnCourse(s, Len(input))
    BY PytestReads
  <2> HIDE DEF s
  <2>3. s.out \in Seq(Entries) /\ Only(s.out, Said(PytestKept)) = Only(FirstLines(Len(input)), Said(PytestKept))
    BY <2>2 DEF PytestOnCourse, PytestStates
  <2> QED
    BY <2>1, <2>3, KeepsAllIs
<1>2. CASE ~\E i \in 1..Len(input) : Kind(input[i]) \in Sections
  <2>1. Pytest(input) = FirstLines(Len(input))
    BY <1>2 DEF Pytest, FirstLines
  <2>2. FirstLines(Len(input)) \in Seq(Entries)
    BY FirstLinesType
  <2> QED
    BY <2>1, <2>2, KeepsAllIs
<1> QED
  BY <1>1, <1>2

-----------------------------------------------------------------------------
(* What lists hold, once and in all.                                         *)

\* A list that holds nothing twice.
NoTwice(seq) == \A n, m \in DOMAIN seq : seq[n] = seq[m] => n = m

\* One element more, which was not there.
LEMMA NoTwiceAppend ==
  ASSUME NEW E, NEW seq \in Seq(E), NEW e \in E, NoTwice(seq), e \notin ToSet(seq)
  PROVE  NoTwice(Append(seq, e))
<1> DEFINE long == Append(seq, e)
<1>1. Len(seq) \in Nat /\ DOMAIN seq = 1..Len(seq) /\ DOMAIN long = 1..Len(seq) + 1
  OBVIOUS
<1>2. long[Len(seq) + 1] = e /\ \A i \in 1..Len(seq) : long[i] = seq[i]
  OBVIOUS
<1>3. \A i \in 1..Len(seq) + 1 : i = Len(seq) + 1 \/ i \in 1..Len(seq)
  BY <1>1
<1>4. \A i \in 1..Len(seq) : seq[i] # e
  BY <1>1 DEF ToSet
<1> HIDE DEF long
<1>5. \A n, m \in 1..Len(seq) + 1 : long[n] = long[m] => n = m
  BY <1>1, <1>2, <1>3, <1>4 DEF NoTwice
<1> QED
  BY <1>1, <1>5 DEF NoTwice, long

\* What two lists hold together.
LEMMA HeldTogether ==
  ASSUME NEW E, NEW a \in Seq(E), NEW b \in Seq(E)
  PROVE  /\ a \o b \in Seq(E) /\ ToSet(a \o b) = ToSet(a) \cup ToSet(b)
         /\ NoTwice(a) /\ NoTwice(b) /\ ToSet(a) \cap ToSet(b) = {} => NoTwice(a \o b)
<1> DEFINE c == a \o b
           m == Len(a)
           k == Len(b)
<1>1. /\ m \in Nat /\ k \in Nat /\ DOMAIN a = 1..m /\ DOMAIN b = 1..k /\ DOMAIN c = 1..m + k
      /\ c \in Seq(E)
  OBVIOUS
<1>2. /\ \A i \in 1..m : c[i] = a[i]
      /\ \A i \in 1..k : c[m + i] = b[i]
  OBVIOUS
<1> HIDE DEF c, m, k
<1>3. \A i \in 1..m + k : i \in 1..m \/ \E j \in 1..k : i = m + j
  <2> SUFFICES ASSUME NEW i \in 1..m + k, i \notin 1..m PROVE \E j \in 1..k : i = m + j
    OBVIOUS
  <2>1. i - m \in 1..k /\ i = m + (i - m)
    BY <1>1
  <2> QED
    BY <2>1
<1>4. (\A i \in 1..m : i \in 1..m + k) /\ \A j \in 1..k : m + j \in 1..m + k
  BY <1>1
<1>5. ToSet(c) = ToSet(a) \cup ToSet(b)
  <2>1. ToSet(c) = {c[i] : i \in 1..m + k} /\ ToSet(a) = {a[i] : i \in 1..m} /\ ToSet(b) = {b[i] : i \in 1..k}
    BY <1>1 DEF ToSet
  <2>2. \A i \in 1..m + k : c[i] \in {a[j] : j \in 1..m} \cup {b[j] : j \in 1..k}
    <3> SUFFICES ASSUME NEW i \in 1..m + k PROVE c[i] \in {a[j] : j \in 1..m} \cup {b[j] : j \in 1..k}
      OBVIOUS
    <3>1. CASE i \in 1..m
      BY <1>2, <3>1
    <3>2. CASE i \notin 1..m
      <4>1. PICK j \in 1..k : i = m + j
        BY <1>3, <3>2
      <4> QED
        BY <1>2, <4>1
    <3> QED
      BY <3>1, <3>2
  <2>3. (\A j \in 1..m : a[j] \in ToSet(c)) /\ \A j \in 1..k : b[j] \in ToSet(c)
    <3>1. (\A j \in 1..m : c[j] \in ToSet(c)) /\ \A j \in 1..k : c[m + j] \in ToSet(c)
      BY <1>4, <2>1
    <3> QED
      BY <1>2, <3>1
  <2> QED
    BY <2>1, <2>2, <2>3
<1>6. ASSUME NoTwice(a), NoTwice(b), ToSet(a) \cap ToSet(b) = {} PROVE NoTwice(c)
  <2>1. \A i \in 1..m, j \in 1..k : a[i] # b[j]
    BY <1>1, <1>6 DEF ToSet
  <2>2. \A i, j \in 1..m : a[i] = a[j] => i = j
    BY <1>1, <1>6 DEF NoTwice
  <2>3. \A i, j \in 1..k : b[i] = b[j] => i = j
    BY <1>1, <1>6 DEF NoTwice
  <2>4. ASSUME NEW p \in 1..m + k, NEW q \in 1..m + k, c[p] = c[q] PROVE p = q
    <3>1. CASE p \in 1..m /\ q \in 1..m
      BY <1>2, <2>2, <2>4, <3>1
    <3>2. CASE p \in 1..m /\ q \notin 1..m
      BY <1>2, <1>3, <2>1, <2>4, <3>2
    <3>3. CASE p \notin 1..m /\ q \in 1..m
      BY <1>2, <1>3, <2>1, <2>4, <3>3
    <3>4. CASE p \notin 1..m /\ q \notin 1..m
      BY <1>2, <1>3, <2>3, <2>4, <3>4
    <3> QED
      BY <3>1, <3>2, <3>3, <3>4
  <2> QED
    BY <1>1, <2>4 DEF NoTwice
<1> QED
  BY <1>1, <1>5, <1>6 DEF c

\* What is at some places, each element once if it is there once.
LEMMA HeldAtPlaces ==
  ASSUME NEW E, NEW seq \in Seq(E), NEW places
  PROVE  /\ AtPlaces(seq, places) \in Seq(E)
         /\ ToSet(AtPlaces(seq, places)) = {seq[i] : i \in places \cap DOMAIN seq}
         /\ NoTwice(seq) => NoTwice(AtPlaces(seq, places))
<1> DEFINE m == Len(seq)
           f == PlacesUpTo(seq, places)
<1>1. m \in Nat /\ DOMAIN seq = 1..m
  OBVIOUS
<1>2. /\ AtPlaces(seq, places) = f[m] /\ f[0] = <<>>
      /\ \A n \in 1..m : f[n] = IF n \in places THEN Append(f[n - 1], seq[n]) ELSE f[n - 1]
  BY AtPlacesDef
<1>3. \A n \in 1..m : seq[n] \in E
  OBVIOUS
<1> HIDE DEF f, m
<1> DEFINE Good(n) == /\ f[n] \in Seq(E)
                      /\ ToSet(f[n]) = {seq[i] : i \in places \cap 1..n}
                      /\ NoTwice(seq) => NoTwice(f[n])
           S == {n \in Nat : n <= m => Good(n)}
<1>4. 0 \in S
  <2>1. <<>> \in Seq(E) /\ DOMAIN <<>> = {} /\ 1..0 = {}
    OBVIOUS
  <2>2. Good(0)
    BY <1>2, <2>1 DEF ToSet, NoTwice
  <2> QED
    BY <2>2
<1>5. ASSUME NEW n \in Nat, n \in S PROVE n + 1 \in S
  <2> SUFFICES ASSUME n + 1 <= m PROVE Good(n + 1)
    OBVIOUS
  <2>1. n + 1 \in 1..m /\ (n + 1) - 1 = n /\ n <= m /\ n + 1 \notin 1..n
    BY <1>1
  <2>2. Good(n)
    BY <1>5, <2>1
  <2>3. f[n + 1] = IF n + 1 \in places THEN Append(f[n], seq[n + 1]) ELSE f[n]
    BY <1>2, <2>1
  <2>4. \A i : i \in 1..n + 1 <=> i \in 1..n \/ i = n + 1
    OBVIOUS
  <2>5. CASE n + 1 \notin places
    <3>1. places \cap 1..n + 1 = places \cap 1..n
      BY <2>4, <2>5
    <3> QED
      BY <2>2, <2>3, <2>5, <3>1
  <2>6. CASE n + 1 \in places
    <3>1. seq[n + 1] \in E /\ f[n] \in Seq(E)
      BY <1>3, <2>1, <2>2
    <3> DEFINE e == seq[n + 1]
    <3>2. Append(f[n], e) \in Seq(E) /\ ToSet(Append(f[n], e)) = ToSet(f[n]) \cup {e}
      <4> HIDE DEF e
      <4>1. e \in E
        BY <3>1 DEF e
      <4> QED
        BY <3>1, <4>1, OneMoreHeld
    <3>3. {seq[i] : i \in places \cap 1..n + 1} = {seq[i] : i \in places \cap 1..n} \cup {e}
      BY <2>4, <2>6
    <3>4. ASSUME NoTwice(seq) PROVE NoTwice(Append(f[n], e))
      <4>1. e \notin ToSet(f[n])
        <5>1. \A i \in 1..n : i \in 1..m /\ i # n + 1
          BY <1>1, <2>1
        <5>2. \A i \in 1..n : seq[i] # e
          BY <1>1, <2>1, <3>4, <5>1 DEF NoTwice
        <5> QED
          BY <2>2, <5>2
      <4> HIDE DEF e
      <4>2. e \in E
        BY <3>1 DEF e
      <4> QED
        BY <2>2, <3>1, <3>4, <4>1, <4>2, NoTwiceAppend
    <3>5. f[n + 1] = Append(f[n], e)
      BY <2>3, <2>6
    <3> QED
      BY <2>2, <3>2, <3>3, <3>4, <3>5
  <2> QED
    BY <2>5, <2>6
<1>6. m \in S
  <2> HIDE DEF S
  <2> QED
    BY <1>1, <1>4, <1>5, Induction
<1> QED
  BY <1>1, <1>2, <1>6

\* The numbers of some events, each once.
LEMMA InOrderIs ==
  ASSUME NEW L, NEW events \in Seq(L), NEW numbers, numbers \subseteq 1..Len(events)
  PROVE  /\ InOrder(events, numbers) \in Seq(Nat) /\ NoTwice(InOrder(events, numbers))
         /\ ToSet(InOrder(events, numbers)) = numbers
<1> DEFINE id == [i \in 1..Len(events) |-> i]
<1>1. id \in Seq(Nat) /\ DOMAIN id = 1..Len(events) /\ \A i \in 1..Len(events) : id[i] = i
  OBVIOUS
<1>2. InOrder(events, numbers) = AtPlaces(id, numbers)
  BY DEF InOrder
<1> HIDE DEF id
<1>3. NoTwice(id)
  BY <1>1 DEF NoTwice
<1>4. /\ AtPlaces(id, numbers) \in Seq(Nat)
      /\ ToSet(AtPlaces(id, numbers)) = {id[i] : i \in numbers \cap DOMAIN id}
      /\ NoTwice(AtPlaces(id, numbers))
  BY <1>1, <1>3, HeldAtPlaces
<1>5. {id[i] : i \in numbers \cap DOMAIN id} = numbers
  BY <1>1
<1> QED
  BY <1>2, <1>4, <1>5

\* Lists that hold nothing twice and have nothing in common.
Apart(lists) ==
  /\ \A i \in DOMAIN lists : NoTwice(lists[i])
  /\ \A i, j \in DOMAIN lists : i # j => ToSet(lists[i]) \cap ToSet(lists[j]) = {}

\* The function within FlattenSeq.
FlatUpTo(lists) ==
  CHOOSE flatten : flatten = [i \in 1..Len(lists) |->
    IF i = 1 THEN lists[i] ELSE flatten[i - 1] \o lists[i]]

\* The recursion of FlattenSeq, unrolled.
LEMMA FlatDef ==
  ASSUME NEW E, NEW lists \in Seq(Seq(E)), lists # <<>>
  PROVE  LET flat == FlatUpTo(lists)
         IN  /\ FlattenSeq(lists) = flat[Len(lists)]
             /\ flat[1] = lists[1]
             /\ \A n \in 2..Len(lists) : flat[n] = flat[n - 1] \o lists[n]
<1> DEFINE m == Len(lists)
           T == Seq(E)
           G == [p \in T \X (1..m) |-> p[1] \o lists[p[2]]]
           flat == FlatUpTo(lists)
<1>1. m \in Nat /\ m # 0 /\ <<>> \in T /\ \A i \in 1..m : lists[i] \in T
  OBVIOUS
<1>2. G \in [T \X (1..m) -> T]
  <2>1. \A p \in T \X (1..m) : p[1] \o lists[p[2]] \in T
    BY <1>1
  <2> QED
    BY <2>1
<1>3. PICK f \in [0..m -> T] : Recurs(f, m, <<>>, G)
  <2> HIDE DEF m, T, G
  <2> QED
    BY <1>1, <1>2, Recursion
<1> HIDE DEF m, T
<1> DEFINE g == [i \in 1..m |-> f[i]]
<1>4. g = [i \in 1..m |-> IF i = 1 THEN lists[i] ELSE g[i - 1] \o lists[i]]
  <2>1. ASSUME NEW n \in 1..m PROVE g[n] = IF n = 1 THEN lists[n] ELSE g[n - 1] \o lists[n]
    <3>1. n - 1 \in 0..m /\ f[n - 1] \in T
      BY <1>1
    <3>2. f[n] = f[n - 1] \o lists[n]
      BY <1>3, <3>1 DEF Recurs
    <3>3. CASE n = 1
      <4>1. f[n - 1] = <<>> /\ lists[n] \in T
        BY <1>1, <1>3, <3>3 DEF Recurs
      <4>2. <<>> \o lists[n] = lists[n]
        BY <4>1 DEF T
      <4> QED
        BY <3>2, <3>3, <4>1, <4>2
    <3>4. CASE n # 1
      <4>1. n - 1 \in 1..m
        BY <1>1, <3>4
      <4> QED
        BY <3>2, <3>4, <4>1
    <3> QED
      BY <3>3, <3>4
  <2>2. g = [i \in 1..m |-> g[i]]
    OBVIOUS
  <2> HIDE DEF g
  <2> QED
    BY <2>1, <2>2, Zenon
<1>5. flat = [i \in 1..m |-> IF i = 1 THEN lists[i] ELSE flat[i - 1] \o lists[i]]
  BY <1>4 DEF FlatUpTo, m
<1>6. FlattenSeq(lists) = flat[m]
  BY <1>1 DEF FlattenSeq, FlatUpTo, m
<1> HIDE DEF flat
<1>7. flat[1] = lists[1] /\ \A n \in 2..m : flat[n] = flat[n - 1] \o lists[n]
  <2>1. 1 \in 1..m /\ \A n \in 2..m : n \in 1..m /\ n # 1
    BY <1>1
  <2> QED
    BY <1>5, <2>1
<1> QED
  BY <1>6, <1>7 DEF flat, m

\* What lists hold, one behind the other.
LEMMA HeldByAll ==
  ASSUME NEW E, NEW lists \in Seq(Seq(E))
  PROVE  /\ FlattenSeq(lists) \in Seq(E)
         /\ ToSet(FlattenSeq(lists)) = UNION {ToSet(lists[i]) : i \in DOMAIN lists}
         /\ Apart(lists) => NoTwice(FlattenSeq(lists))
<1> DEFINE m == Len(lists)
           f == FlatUpTo(lists)
<1>1. m \in Nat /\ DOMAIN lists = 1..m /\ \A i \in 1..m : lists[i] \in Seq(E)
  OBVIOUS
<1>2. CASE lists = <<>>
  <2>1. FlattenSeq(lists) = <<>> /\ DOMAIN lists = {} /\ <<>> \in Seq(E) /\ DOMAIN <<>> = {}
    BY <1>2 DEF FlattenSeq
  <2> QED
    BY <2>1 DEF ToSet, NoTwice
<1>3. CASE lists # <<>>
  <2>1. m # 0
    BY <1>3
  <2>2. FlattenSeq(lists) = f[m] /\ f[1] = lists[1] /\ \A n \in 2..m : f[n] = f[n - 1] \o lists[n]
    BY <1>3, FlatDef
  <2> HIDE DEF f, m
  <2> DEFINE Good(n) == /\ f[n] \in Seq(E)
                        /\ ToSet(f[n]) = UNION {ToSet(lists[i]) : i \in 1..n}
                        /\ Apart(lists) => NoTwice(f[n])
             S == {n \in Nat : n + 1 <= m => Good(n + 1)}
  <2>3. 0 \in S
    <3>1. 1 \in 1..m /\ 1..1 = {1} /\ 0 + 1 = 1
      BY <1>1, <2>1
    <3>2. Good(1)
      BY <1>1, <2>2, <3>1 DEF Apart
    <3> QED
      BY <3>1, <3>2
  <2>4. ASSUME NEW n \in Nat, n \in S PROVE n + 1 \in S
    <3> SUFFICES ASSUME (n + 1) + 1 <= m PROVE Good((n + 1) + 1)
      OBVIOUS
    <3> DEFINE k == n + 1
    <3>1. k \in Nat /\ k <= m /\ k + 1 \in 2..m /\ (k + 1) - 1 = k /\ k + 1 \in 1..m
      BY <1>1
    <3>2. Good(k)
      BY <2>4, <3>1
    <3> HIDE DEF k
    <3>3. f[k + 1] = f[k] \o lists[k + 1] /\ lists[k + 1] \in Seq(E) /\ f[k] \in Seq(E)
      BY <1>1, <2>2, <3>1, <3>2
    <3> DEFINE b == lists[k + 1]
               a == f[k]
    <3>4. /\ a \o b \in Seq(E) /\ ToSet(a \o b) = ToSet(a) \cup ToSet(b)
          /\ NoTwice(a) /\ NoTwice(b) /\ ToSet(a) \cap ToSet(b) = {} => NoTwice(a \o b)
      <4>1. a \in Seq(E) /\ b \in Seq(E)
        BY <3>3
      <4> HIDE DEF a, b
      <4> QED
        BY <4>1, HeldTogether
    <3>5. \A i : i \in 1..k + 1 <=> i \in 1..k \/ i = k + 1
      BY <3>1
    <3>6. UNION {ToSet(lists[i]) : i \in 1..k + 1}
            = (UNION {ToSet(lists[i]) : i \in 1..k}) \cup ToSet(lists[k + 1])
      BY <3>5
    <3>7. ASSUME Apart(lists) PROVE NoTwice(a \o b)
      <4>1. NoTwice(a) /\ NoTwice(b)
        BY <1>1, <3>1, <3>2, <3>7 DEF Apart
      <4>2. \A i \in 1..k : i \in 1..m /\ i # k + 1
        BY <1>1, <3>1
      <4>3. \A i \in 1..k : ToSet(lists[i]) \cap ToSet(b) = {}
        BY <1>1, <3>1, <3>7, <4>2 DEF Apart
      <4>4. ToSet(a) \cap ToSet(b) = {}
        BY <3>2, <4>3
      <4> QED
        BY <3>4, <4>1, <4>4
    <3>8. Good(k + 1)
      BY <3>2, <3>3, <3>4, <3>6, <3>7
    <3> QED
      BY <3>8 DEF k
  <2>5. \A n \in Nat : n \in S
    <3> HIDE DEF S
    <3> QED
      BY <2>3, <2>4, Induction
  <2>6. Good(m)
    <3>1. m - 1 \in Nat /\ (m - 1) + 1 = m
      BY <1>1, <2>1
    <3>2. m - 1 \in S
      BY <2>5, <3>1
    <3> QED
      BY <1>1, <3>1, <3>2
  <2> QED
    BY <1>1, <2>2, <2>6
<1> QED
  BY <1>2, <1>3

-----------------------------------------------------------------------------
(* goTestFilter, its -json stream.                                           *)

\* What goTestJSON puts out.
JsonEntries ==
  {"failed", "line", "skipped", "fail", "pass"}
    \X (Nat \cup {Name(input[i]) : i \in 1..Len(input)} \cup {Package(input[i]) : i \in 1..Len(input)})

\* The lines of some numbers.
LEMMA LinesHeld ==
  ASSUME NEW s \in Seq(Nat), NoTwice(s)
  PROVE  LET lines == [n \in DOMAIN s |-> Line(s[n])]
         IN  /\ lines \in Seq(JsonEntries)
             /\ ToSet(lines) = {Line(i) : i \in ToSet(s)}
             /\ NoTwice(lines)
<1> DEFINE lines == [n \in DOMAIN s |-> Line(s[n])]
<1>1. DOMAIN s = 1..Len(s) /\ Len(s) \in Nat /\ \A n \in DOMAIN s : s[n] \in Nat
  OBVIOUS
<1>2. \A i \in Nat : Line(i) \in JsonEntries
  BY DEF Line, JsonEntries
<1>3. \A i, j : Line(i) = Line(j) => i = j
  BY DEF Line
<1>4. DOMAIN lines = DOMAIN s /\ \A n \in DOMAIN s : lines[n] = Line(s[n])
  OBVIOUS
<1>5. lines \in Seq(JsonEntries)
  <2>1. lines \in [1..Len(s) -> JsonEntries]
    BY <1>1, <1>2
  <2> HIDE DEF lines
  <2> QED
    BY <1>1, <2>1
<1> HIDE DEF lines
<1>6. ToSet(lines) = {Line(i) : i \in ToSet(s)}
  BY <1>4 DEF ToSet
<1>7. NoTwice(lines)
  BY <1>3, <1>4 DEF NoTwice
<1> QED
  BY <1>5, <1>6, <1>7 DEF lines

\* The report of a failing test (GoTestJSON).
GoReport(i) ==
  LET lines == InOrder(input, OutputOf(input, i))
  IN <<<<"failed", Name(input[i])>>>> \o [n \in DOMAIN lines |-> Line(lines[n])]

\* What such a report holds.
LEMMA ReportHolds ==
  ASSUME NEW L, input \in Seq(L), NEW i \in 1..Len(input)
  PROVE  /\ GoReport(i) \in Seq(JsonEntries) /\ NoTwice(GoReport(i))
         /\ ToSet(GoReport(i)) = {<<"failed", Name(input[i])>>} \cup {Line(j) : j \in OutputOf(input, i)}
<1> DEFINE s == InOrder(input, OutputOf(input, i))
           lines == [n \in DOMAIN s |-> Line(s[n])]
           e == <<"failed", Name(input[i])>>
           head == <<e>>
<1>1. s \in Seq(Nat) /\ NoTwice(s) /\ ToSet(s) = OutputOf(input, i)
  <2> DEFINE J == OutputOf(input, i)
  <2>1. J \subseteq 1..Len(input)
    BY DEF OutputOf
  <2> HIDE DEF J
  <2>2. InOrder(input, J) \in Seq(Nat) /\ NoTwice(InOrder(input, J)) /\ ToSet(InOrder(input, J)) = J
    BY <2>1, InOrderIs
  <2> QED
    BY <2>2 DEF J
<1> HIDE DEF s
<1>2. lines \in Seq(JsonEntries) /\ ToSet(lines) = {Line(j) : j \in ToSet(s)} /\ NoTwice(lines)
  BY <1>1, LinesHeld
<1>3. e \in JsonEntries
  BY DEF JsonEntries
<1>4. e \notin ToSet(lines)
  <2>1. \A j : Line(j) # e
    BY DEF Line
  <2> HIDE DEF e, lines
  <2> QED
    BY <1>2, <2>1
<1>5. GoReport(i) = head \o lines
  BY DEF GoReport, s
<1> HIDE DEF e, lines
<1>6. head \in Seq(JsonEntries) /\ ToSet(head) = {e} /\ NoTwice(head)
  <2>1. head \in Seq(JsonEntries) /\ DOMAIN head = {1} /\ head[1] = e
    BY <1>3
  <2> HIDE DEF head
  <2> QED
    BY <2>1 DEF ToSet, NoTwice
<1> HIDE DEF head
<1>7. ToSet(head) \cap ToSet(lines) = {}
  BY <1>4, <1>6
<1>8. /\ head \o lines \in Seq(JsonEntries) /\ ToSet(head \o lines) = ToSet(head) \cup ToSet(lines)
      /\ NoTwice(head \o lines)
  BY <1>2, <1>6, <1>7, HeldTogether
<1> QED
  BY <1>1, <1>2, <1>5, <1>6, <1>8 DEF e

\* The reports, one behind the other, tell of each failing test once.
LEMMA ReportsHold ==
  ASSUME NEW L, input \in Seq(L)
  PROVE  LET order == InOrder(input, FirstFailures(input))
             told == FlattenSeq([n \in DOMAIN order |-> GoReport(order[n])])
         IN  /\ told \in Seq(JsonEntries) /\ NoTwice(told)
             /\ ToSet(told) = UNION {{<<"failed", Name(input[i])>>} \cup {Line(j) : j \in OutputOf(input, i)} :
                                       i \in FirstFailures(input)}
<1> DEFINE F == FirstFailures(input)
           order == InOrder(input, F)
           lists == [n \in DOMAIN order |-> GoReport(order[n])]
           Holds(i) == {<<"failed", Name(input[i])>>} \cup {Line(j) : j \in OutputOf(input, i)}
<1>1. F \subseteq 1..Len(input)
  BY DEF FirstFailures
<1>2. \A i, j \in F : i # j => Name(input[i]) # Name(input[j])
  <2> SUFFICES ASSUME NEW i \in F, NEW j \in F, i < j PROVE Name(input[i]) # Name(input[j])
    <3>1. \A i, j \in F : i # j => i < j \/ j < i
      BY <1>1
    <3> QED
      BY <3>1
  <2>1. i \in 1..Len(input) /\ j \in 1..Len(input) /\ i \in 1..j - 1
    BY <1>1
  <2>2. Kind(input[i]) = "fail"
    BY DEF FirstFailures
  <2>3. \A k \in 1..j - 1 : ~(Kind(input[k]) = "fail" /\ Name(input[k]) = Name(input[j]))
    BY DEF FirstFailures
  <2> QED
    BY <2>1, <2>2, <2>3
<1>3. order \in Seq(Nat) /\ NoTwice(order) /\ ToSet(order) = F
  <2> HIDE DEF F
  <2> QED
    BY <1>1, InOrderIs
<1>4. \A i \in F : GoReport(i) \in Seq(JsonEntries) /\ NoTwice(GoReport(i)) /\ ToSet(GoReport(i)) = Holds(i)
  BY <1>1, ReportHolds
<1>5. \A i, j \in F : i # j => Holds(i) \cap Holds(j) = {}
  <2> SUFFICES ASSUME NEW i \in F, NEW j \in F, i # j, NEW x, x \in Holds(i), x \in Holds(j) PROVE FALSE
    OBVIOUS
  <2>1. Name(input[i]) # Name(input[j])
    BY <1>2
  <2>2. \A k, name : Line(k) # <<"failed", name>>
    BY DEF Line
  <2>3. \A k, l : Line(k) = Line(l) => k = l
    BY DEF Line
  <2>4. \A k \in OutputOf(input, i) : Name(input[k]) = Name(input[i])
    BY DEF OutputOf
  <2>5. \A k \in OutputOf(input, j) : Name(input[k]) = Name(input[j])
    BY DEF OutputOf
  <2>6. CASE x = <<"failed", Name(input[i])>>
    <3>1. x = <<"failed", Name(input[j])>>
      BY <2>2, <2>6
    <3> QED
      BY <2>1, <2>6, <3>1
  <2>7. CASE x # <<"failed", Name(input[i])>>
    <3>1. PICK k \in OutputOf(input, i) : x = Line(k)
      BY <2>7
    <3>2. PICK l \in OutputOf(input, j) : x = Line(l)
      BY <2>2, <3>1
    <3>3. k = l
      <4>1. Line(k) = Line(l)
        BY <3>1, <3>2
      <4> QED
        BY <2>3, <4>1
    <3>4. Name(input[k]) = Name(input[i]) /\ Name(input[l]) = Name(input[j])
      BY <2>4, <2>5
    <3> QED
      BY <2>1, <3>3, <3>4
  <2> QED
    BY <2>6, <2>7
<1> HIDE DEF order, F, Holds
<1>6. DOMAIN order = 1..Len(order) /\ Len(order) \in Nat /\ \A n \in DOMAIN order : order[n] \in F
  BY <1>3 DEF ToSet
<1>7. DOMAIN lists = DOMAIN order /\ \A n \in DOMAIN order : lists[n] = GoReport(order[n])
  OBVIOUS
<1>8. lists \in Seq(Seq(JsonEntries))
  <2>1. lists \in [1..Len(order) -> Seq(JsonEntries)]
    BY <1>4, <1>6
  <2> HIDE DEF lists
  <2> QED
    BY <1>6, <2>1
<1> HIDE DEF lists
<1>9. Apart(lists)
  <2>1. \A n \in DOMAIN lists : NoTwice(lists[n])
    BY <1>4, <1>6, <1>7
  <2>2. ASSUME NEW n \in DOMAIN lists, NEW m \in DOMAIN lists, n # m
        PROVE  ToSet(lists[n]) \cap ToSet(lists[m]) = {}
    <3>1. order[n] \in F /\ order[m] \in F
      BY <1>6, <1>7
    <3>2. order[n] # order[m]
      BY <1>3, <1>7, <2>2 DEF NoTwice
    <3>3. ToSet(lists[n]) = Holds(order[n]) /\ ToSet(lists[m]) = Holds(order[m])
      BY <1>4, <1>7, <3>1
    <3> QED
      BY <1>5, <3>1, <3>2, <3>3
  <2> QED
    BY <2>1, <2>2 DEF Apart
<1>10. /\ FlattenSeq(lists) \in Seq(JsonEntries) /\ NoTwice(FlattenSeq(lists))
       /\ ToSet(FlattenSeq(lists)) = UNION {ToSet(lists[n]) : n \in DOMAIN lists}
  BY <1>8, <1>9, HeldByAll
<1>11. UNION {ToSet(lists[n]) : n \in DOMAIN lists} = UNION {Holds(i) : i \in F}
  <2>1. \A n \in DOMAIN lists : order[n] \in F /\ ToSet(lists[n]) = Holds(order[n])
    BY <1>4, <1>6, <1>7
  <2>2. \A i \in F : \E n \in DOMAIN lists : order[n] = i
    BY <1>3, <1>7 DEF ToSet
  <2> QED
    BY <2>1, <2>2
<1> QED
  BY <1>10, <1>11 DEF lists, order, F, Holds

\* A list that holds no element of a set twice.
NoTwiceIn(seq, set) == \A n, m \in DOMAIN seq : seq[n] \in set /\ seq[n] = seq[m] => n = m

\* What is behind it has none of them.
LEMMA NoTwiceInBegin ==
  ASSUME NEW E, NEW a \in Seq(E), NEW b \in Seq(E), NEW set, NoTwiceIn(a, set), ToSet(b) \cap set = {}
  PROVE  NoTwiceIn(a \o b, set)
<1> DEFINE c == a \o b
           m == Len(a)
           k == Len(b)
<1>1. m \in Nat /\ k \in Nat /\ DOMAIN a = 1..m /\ DOMAIN b = 1..k /\ DOMAIN c = 1..m + k
  OBVIOUS
<1>2. /\ \A i \in 1..m : c[i] = a[i]
      /\ \A i \in 1..k : c[m + i] = b[i]
  OBVIOUS
<1> HIDE DEF c, m, k
<1>3. \A i \in 1..m + k : c[i] \in set => i \in 1..m
  <2> SUFFICES ASSUME NEW i \in 1..m + k, i \notin 1..m PROVE c[i] \notin set
    OBVIOUS
  <2>1. i - m \in 1..k /\ i = m + (i - m)
    BY <1>1
  <2>2. c[i] = b[i - m]
    BY <1>2, <2>1
  <2>3. b[i - m] \in ToSet(b)
    BY <1>1, <2>1 DEF ToSet
  <2> QED
    BY <2>2, <2>3
<1>4. \A i, j \in 1..m : a[i] \in set /\ a[i] = a[j] => i = j
  BY <1>1 DEF NoTwiceIn
<1>5. ASSUME NEW i \in 1..m + k, NEW j \in 1..m + k, c[i] \in set, c[i] = c[j] PROVE i = j
  <2>1. i \in 1..m /\ j \in 1..m
    BY <1>3, <1>5
  <2> QED
    BY <1>2, <1>4, <1>5, <2>1
<1> QED
  BY <1>1, <1>5 DEF NoTwiceIn, c

\* The tests that fail are those with a first failure.
LEMMA FirstOfEach ==
  ASSUME NEW L, input \in Seq(L)
  PROVE  {Name(input[i]) : i \in {j \in LinesOf({"fail"}) : Name(input[j]) # ""}}
           = {Name(input[i]) : i \in FirstFailures(input)}
<1> DEFINE F == FirstFailures(input)
           J == {j \in LinesOf({"fail"}) : Name(input[j]) # ""}
<1>1. F \subseteq J
  BY DEF FirstFailures, LinesOf
<1>2. \A j : j \in J <=> j \in 1..Len(input) /\ Kind(input[j]) = "fail" /\ Name(input[j]) # ""
  BY DEF LinesOf
<1>3. Len(input) \in Nat
  OBVIOUS
<1>4. \A i : i \in F <=> /\ i \in J
                         /\ \A j \in 1..i - 1 : ~(Kind(input[j]) = "fail" /\ Name(input[j]) = Name(input[i]))
  BY <1>2 DEF FirstFailures
<1> HIDE DEF F, J
<1>5. ASSUME NEW i \in J PROVE \E j \in F : Name(input[j]) = Name(input[i])
  <2> DEFINE I == {j \in J : Name(input[j]) = Name(input[i])}
             first == Min(I)
  <2>1. I \subseteq Nat /\ I # {}
    <3>1. J \subseteq 1..Len(input)
      BY <1>2
    <3>2. I \subseteq J /\ i \in I
      OBVIOUS
    <3>3. \A k \in 1..Len(input) : k \in Nat
      OBVIOUS
    <3> HIDE DEF I
    <3> QED
      BY <3>1, <3>2, <3>3
  <2>2. first \in I /\ \A j \in I : first <= j
    <3> HIDE DEF I
    <3> QED
      BY <2>1, MinOf
  <2> HIDE DEF first
  <2>3. first \in J /\ Name(input[first]) = Name(input[i]) /\ first \in 1..Len(input) /\ Name(input[i]) # ""
    BY <1>2, <2>2
  <2>4. ASSUME NEW j \in 1..first - 1, Kind(input[j]) = "fail", Name(input[j]) = Name(input[first])
        PROVE  FALSE
    <3>1. j \in 1..Len(input) /\ ~(first <= j)
      <4>1. first \in 1..Len(input)
        BY <2>3
      <4> QED
        BY <1>3, <4>1
    <3>2. j \in I
      BY <1>2, <2>3, <2>4, <3>1
    <3> QED
      BY <2>2, <3>1, <3>2
  <2>5. first \in F
    BY <1>4, <2>3, <2>4
  <2> QED
    BY <2>3, <2>5
<1>6. {Name(input[i]) : i \in J} = {Name(input[i]) : i \in F}
  BY <1>1, <1>5
<1> QED
  BY <1>6 DEF F, J

\* Each failing test of the stream is reported, with its output, and each
\* package's result is there (goTestJSONFilter).
LEMMA GoTestJSONTells ==
  ASSUME NEW L, input \in Seq(L)
  PROVE  EventsTold(GoTestJSON(input))
<1> DEFINE F == FirstFailures(input)
           order == InOrder(input, F)
           told == FlattenSeq([n \in DOMAIN order |-> GoReport(order[n])])
           number == Cardinality({i \in 1..Len(input) : Kind(input[i]) = "skip" /\ Name(input[i]) # ""})
           count == IF number > 0 THEN <<<<"skipped", number>>>> ELSE <<>>
           IsResult(i) ==
             \/ Kind(input[i]) = "fail" /\ i \notin F
             \/ Kind(input[i]) = "pass" /\ Name(input[i]) = ""
           R == {i \in 1..Len(input) : IsResult(i)}
           places == InOrder(input, R)
           results == [n \in DOMAIN places |-> <<Kind(input[places[n]]), Package(input[places[n]])>>]
           out == told \o count \o results
           failing == {Name(input[i]) : i \in {j \in LinesOf({"fail"}) : Name(input[j]) # ""}}
           Told(e) == e[1] \in {"failed", "line"}
<1>1. GoTestJSON(input) = out
  BY DEF GoTestJSON, GoReport
<1>2. F \subseteq 1..Len(input)
  BY DEF FirstFailures
<1>3. /\ told \in Seq(JsonEntries) /\ NoTwice(told)
      /\ ToSet(told) = UNION {{<<"failed", Name(input[i])>>} \cup {Line(j) : j \in OutputOf(input, i)} : i \in F}
  BY ReportsHold
<1>4. number \in Nat
  <2>1. IsFiniteSet(1..Len(input))
    BY FS_Interval
  <2>2. IsFiniteSet({i \in 1..Len(input) : Kind(input[i]) = "skip" /\ Name(input[i]) # ""})
    BY <2>1, FS_Subset
  <2> QED
    BY <2>2, FS_CardinalityType
<1> HIDE DEF number
<1>5. count \in Seq(JsonEntries) /\ \A e \in ToSet(count) : ~Told(e)
  <2> DEFINE e == <<"skipped", number>>
  <2>1. e \in JsonEntries /\ ~Told(e)
    BY <1>4 DEF JsonEntries
  <2>2. count = IF number > 0 THEN <<e>> ELSE <<>>
    OBVIOUS
  <2> HIDE DEF e, count
  <2>3. <<e>> \in Seq(JsonEntries) /\ <<>> \in Seq(JsonEntries) /\ DOMAIN <<e>> = {1} /\ <<e>>[1] = e /\ DOMAIN <<>> = {}
    BY <2>1
  <2>4. ToSet(<<e>>) = {e} /\ ToSet(<<>>) = {}
    BY <2>3 DEF ToSet
  <2> QED
    BY <2>1, <2>2, <2>3, <2>4
<1>6. places \in Seq(Nat) /\ ToSet(places) = R
  <2>1. R \subseteq 1..Len(input)
    OBVIOUS
  <2> HIDE DEF R
  <2> QED
    BY <2>1, InOrderIs
<1> DEFINE Result(i) == <<Kind(input[i]), Package(input[i])>>
<1>7. \A i \in R : Result(i) \in JsonEntries /\ ~Told(Result(i))
  BY DEF JsonEntries
<1> HIDE DEF told, count, places, R
<1>8. DOMAIN places = 1..Len(places) /\ Len(places) \in Nat /\ \A n \in DOMAIN places : places[n] \in R
  BY <1>6 DEF ToSet
<1>9. DOMAIN results = DOMAIN places /\ \A n \in DOMAIN places : results[n] = Result(places[n])
  OBVIOUS
<1> HIDE DEF Result
<1>10. results \in Seq(JsonEntries) /\ ToSet(results) = {Result(i) : i \in R}
  <2>1. results \in [1..Len(places) -> JsonEntries]
    BY <1>7, <1>8 DEF Result
  <2> HIDE DEF results
  <2>2. results \in Seq(JsonEntries)
    BY <1>8, <2>1
  <2>3. ToSet(results) = {Result(places[n]) : n \in DOMAIN places}
    BY <1>9 DEF ToSet
  <2>4. ToSet(places) = {places[n] : n \in DOMAIN places}
    BY DEF ToSet
  <2> QED
    BY <1>6, <2>2, <2>3, <2>4
<1> HIDE DEF results
<1> DEFINE begin == told \o count
<1>11. begin \in Seq(JsonEntries) /\ ToSet(begin) = ToSet(told) \cup ToSet(count)
  BY <1>3, <1>5, HeldTogether
<1>12. out = begin \o results
  OBVIOUS
<1> HIDE DEF begin, out
<1>13. out \in Seq(JsonEntries) /\ ToSet(out) = ToSet(told) \cup ToSet(count) \cup ToSet(results)
  BY <1>10, <1>11, <1>12, HeldTogether
<1>14. \A e \in ToSet(out) : Told(e) => e \in ToSet(told)
  <2>1. \A e \in ToSet(results) : ~Told(e)
    BY <1>7, <1>10
  <2> QED
    BY <1>5, <1>13, <2>1
<1>15. failing = {Name(input[i]) : i \in F}
  BY FirstOfEach
<1>16. \A e \in ToSet(out) : \E n \in DOMAIN out : out[n] = e
  BY DEF ToSet
<1>17. \A n \in DOMAIN out : out[n] \in ToSet(out)
  BY DEF ToSet
<1>18. \A e : e \in ToSet(told) <=>
         \E i \in F : e = <<"failed", Name(input[i])>> \/ \E j \in OutputOf(input, i) : e = Line(j)
  BY <1>3
<1>19. \A j : Line(j)[1] = "line" /\ Line(j)[2] = j
  BY DEF Line
<1> HIDE DEF F, failing
<1>20. \A n \in DOMAIN out : Told(out[n]) => \A m \in DOMAIN out \ {n} : out[m] # out[n]
  <2> DEFINE X == {e \in JsonEntries : Told(e)}
  <2>1. NoTwiceIn(told, X)
    BY <1>3 DEF NoTwice, NoTwiceIn
  <2>2. ToSet(count) \cap X = {} /\ ToSet(results) \cap X = {}
    BY <1>5, <1>7, <1>10
  <2> HIDE DEF X
  <2>3. NoTwiceIn(begin, X)
    BY <1>3, <1>5, <2>1, <2>2, NoTwiceInBegin DEF begin
  <2>4. NoTwiceIn(out, X)
    BY <1>10, <1>11, <1>12, <2>2, <2>3, NoTwiceInBegin
  <2>5. \A n \in DOMAIN out : Told(out[n]) => out[n] \in X
    BY <1>13 DEF X
  <2> QED
    BY <2>4, <2>5 DEF NoTwiceIn
<1>21. {out[n][2] : n \in {m \in DOMAIN out : out[m][1] = "failed"}} = failing
  <2>1. ASSUME NEW n \in DOMAIN out, out[n][1] = "failed" PROVE out[n][2] \in failing
    <3>1. out[n] \in ToSet(told)
      BY <1>14, <1>17, <2>1
    <3>2. PICK i \in F : out[n] = <<"failed", Name(input[i])>> \/ \E j \in OutputOf(input, i) : out[n] = Line(j)
      BY <1>18, <3>1
    <3>3. out[n] = <<"failed", Name(input[i])>>
      BY <1>19, <2>1, <3>2
    <3> QED
      BY <1>15, <3>3
  <2>2. ASSUME NEW i \in F PROVE \E n \in DOMAIN out : out[n][1] = "failed" /\ out[n][2] = Name(input[i])
    <3> DEFINE e == <<"failed", Name(input[i])>>
    <3>1. e \in ToSet(out)
      BY <1>13, <1>18
    <3>2. PICK n \in DOMAIN out : out[n] = e
      BY <1>16, <3>1
    <3> QED
      BY <3>2
  <2>3. \A x \in failing : \E i \in F : x = Name(input[i])
    BY <1>15
  <2> QED
    BY <2>1, <2>2, <2>3
<1>22. {out[n][2] : n \in {m \in DOMAIN out : out[m][1] = "line"}}
         = {i \in LinesOf({"output"}) : Name(input[i]) \in failing}
  <2> DEFINE J == {i \in LinesOf({"output"}) : Name(input[i]) \in failing}
  <2>1. \A j : j \in J <=> \E i \in F : j \in OutputOf(input, i)
    BY <1>15 DEF LinesOf, OutputOf
  <2> HIDE DEF J
  <2>2. ASSUME NEW n \in DOMAIN out, out[n][1] = "line" PROVE out[n][2] \in J
    <3>1. out[n] \in ToSet(told)
      BY <1>14, <1>17, <2>2
    <3>2. PICK i \in F : out[n] = <<"failed", Name(input[i])>> \/ \E j \in OutputOf(input, i) : out[n] = Line(j)
      BY <1>18, <3>1
    <3>3. PICK j \in OutputOf(input, i) : out[n] = Line(j)
      BY <2>2, <3>2
    <3> QED
      BY <1>19, <2>1, <3>3
  <2>3. ASSUME NEW j \in J PROVE \E n \in DOMAIN out : out[n][1] = "line" /\ out[n][2] = j
    <3>1. Line(j) \in ToSet(out)
      BY <1>13, <1>18, <2>1
    <3>2. PICK n \in DOMAIN out : out[n] = Line(j)
      BY <1>16, <3>1
    <3> QED
      BY <1>19, <3>2
  <2>4. {out[n][2] : n \in {m \in DOMAIN out : out[m][1] = "line"}} = J
    BY <2>2, <2>3
  <2> QED
    BY <2>4 DEF J
<1>23. ASSUME NEW i \in LinesOf({"pass", "fail"}), Name(input[i]) = ""
       PROVE  Result(i) \in ToSet(out)
  <2>1. i \in R
    <3>1. i \notin F
      BY <1>23 DEF F, FirstFailures
    <3> QED
      BY <1>23, <3>1 DEF R, LinesOf
  <2> QED
    BY <1>10, <1>13, <2>1
<1>24. EventsTold(out)
  <2>1. \A n \in DOMAIN out : out[n][1] \in {"failed", "line"} => \A m \in DOMAIN out \ {n} : out[m] # out[n]
    BY <1>20
  <2>2. \A i \in LinesOf({"pass", "fail"}) :
          Name(input[i]) = "" => <<Kind(input[i]), Package(input[i])>> \in ToSet(out)
    BY <1>23 DEF Result
  <2> HIDE DEF Told
  <2> QED
    BY <1>21, <1>22, <2>1, <2>2 DEF EventsTold, failing
<1> QED
  BY <1>1, <1>24 DEF out, begin

-----------------------------------------------------------------------------
(* gitFilter.                                                                *)

\* What the git filter puts out.
GitEntries ==
  ({"line"} \X Nat) \cup ({"diff"} \X {Name(input[i]) : i \in 1..Len(input)} \X Nat \X Nat)

\* What of it is told.
Telling == {e \in GitEntries : ~IsBlank(e, input)}

\* What the lines up to n are summarised to.
Summaries == [i \in 1..Len(input) |-> Summary(i)]
Summed == PlacesUpTo(Summaries, Summarised)

\* The lines of one kind that a diff has in its hunks, up to line n.
CountedTo(d, n, kind) == Cardinality({i \in d..n : Kind(input[i]) = kind /\ InHunk(d, i)})

\* The lines from a diff's header on are in it, up to line n.
Runs(d, n) == d \in Diffs /\ d <= n /\ \A i \in d + 1..n : ~EndsDiff(d, i)

\* Counts are numbers.
LEMMA CountedType ==
  ASSUME NEW d \in Nat, NEW n \in Int, NEW kind
  PROVE  CountedTo(d, n, kind) \in Nat
<1>1. IsFiniteSet(d..n)
  BY FS_Interval
<1>2. IsFiniteSet({i \in d..n : Kind(input[i]) = kind /\ InHunk(d, i)})
  BY <1>1, FS_Subset
<1> QED
  BY <1>2, FS_CardinalityType DEF CountedTo

\* A hunk lasts as long as its diff.
LEMMA OneMoreInHunk ==
  ASSUME NEW d \in Nat, NEW n \in Nat, d <= n
  PROVE  InHunk(d, n + 1) <=> InHunk(d, n) \/ Kind(input[n]) = "hunk"
<1>1. \A h : h \in d..(n + 1) - 1 <=> h \in d..n - 1 \/ h = n
  OBVIOUS
<1> QED
  BY <1>1 DEF InHunk

\* No hunk has begun in the header itself.
LEMMA NoneInHeader ==
  ASSUME NEW d \in Diffs
  PROVE  ~InHunk(d, d) /\ ~InHunk(d, d + 1)
<1>1. d \in Nat /\ Kind(input[d]) = "diff"
  BY DEF Diffs, LinesOf
<1>2. ~InHunk(d, d)
  <2>1. d..d - 1 = {}
    BY <1>1
  <2> QED
    BY <2>1 DEF InHunk
<1>3. InHunk(d, d + 1) <=> InHunk(d, d) \/ Kind(input[d]) = "hunk"
  BY <1>1, OneMoreInHunk
<1> QED
  BY <1>1, <1>2, <1>3

\* The header counts for nothing.
LEMMA NoneCounted ==
  ASSUME NEW d \in Diffs, NEW kind
  PROVE  CountedTo(d, d, kind) = 0
<1>1. d \in Nat /\ d..d = {d}
  BY DEF Diffs, LinesOf
<1>2. ~InHunk(d, d)
  BY NoneInHeader
<1>3. {i \in d..d : Kind(input[i]) = kind /\ InHunk(d, i)} = {}
  BY <1>1, <1>2
<1>4. Cardinality({}) = 0
  BY FS_EmptySet
<1> QED
  BY <1>3, <1>4 DEF CountedTo

\* One line more.
LEMMA OneMoreCounted ==
  ASSUME NEW d \in Nat, NEW n \in Nat, d <= n, NEW kind
  PROVE  CountedTo(d, n + 1, kind) =
           IF Kind(input[n + 1]) = kind /\ InHunk(d, n + 1) THEN CountedTo(d, n, kind) + 1
           ELSE CountedTo(d, n, kind)
<1> DEFINE Counts(i) == Kind(input[i]) = kind /\ InHunk(d, i)
           A == {i \in d..n : Counts(i)}
           B == {i \in d..n + 1 : Counts(i)}
<1>1. CountedTo(d, n, kind) = Cardinality(A) /\ CountedTo(d, n + 1, kind) = Cardinality(B)
  BY DEF CountedTo
<1>2. \A i : i \in d..n + 1 <=> i \in d..n \/ i = n + 1
  OBVIOUS
<1>3. IsFiniteSet(A)
  <2>1. IsFiniteSet(d..n)
    BY FS_Interval
  <2> QED
    BY <2>1, FS_Subset
<1>4. n + 1 \notin A
  OBVIOUS
<1> HIDE DEF Counts
<1>5. B = IF Counts(n + 1) THEN A \cup {n + 1} ELSE A
  BY <1>2
<1> HIDE DEF A, B
<1>6. Cardinality(A \cup {n + 1}) = Cardinality(A) + 1
  BY <1>3, <1>4, FS_AddElement
<1> QED
  BY <1>1, <1>5, <1>6 DEF Counts

\* Where a diff ends: with the first line that ends it, or with the text.
LEMMA WhereItEnds ==
  ASSUME NEW L, input \in Seq(L), NEW d, NEW n \in Nat, Runs(d, n), n <= Len(input)
  PROVE  /\ n < DiffEnd(d)
         /\ n + 1 <= Len(input) /\ EndsDiff(d, n + 1) => DiffEnd(d) = n + 1
         /\ n = Len(input) => DiffEnd(d) = n + 1
<1> DEFINE m == Len(input)
           I == {i \in d + 1..m : EndsDiff(d, i)} \cup {m + 1}
<1>1. m \in Nat /\ d \in Nat /\ d <= n
  BY DEF Runs, Diffs, LinesOf
<1>2. DiffEnd(d) = Min(I)
  BY DEF DiffEnd
<1>3. Min(I) \in I /\ \A i \in I : Min(I) <= i
  <2>1. I \subseteq Nat /\ I # {}
    BY <1>1
  <2> HIDE DEF I
  <2> QED
    BY <2>1, MinOf
<1> HIDE DEF m
<1>4. \A i \in I : n + 1 <= i /\ i <= m + 1
  <2> SUFFICES ASSUME NEW i \in I PROVE n + 1 <= i /\ i <= m + 1
    OBVIOUS
  <2>1. CASE i = m + 1
    BY <1>1, <2>1 DEF m
  <2>2. CASE i \in d + 1..m /\ EndsDiff(d, i)
    <3>1. i \notin d + 1..n
      BY <2>2 DEF Runs
    <3> QED
      BY <1>1, <2>2, <3>1
  <2> QED
    BY <2>1, <2>2
<1>5. \A i \in I : i \in Int
  BY <1>1
<1>6. n + 1 <= m /\ EndsDiff(d, n + 1) => n + 1 \in I
  <2>1. n + 1 <= m => n + 1 \in d + 1..m
    BY <1>1
  <2> QED
    BY <2>1
<1> DEFINE e == DiffEnd(d)
<1>7. e \in I /\ e \in Int /\ n + 1 <= e /\ e <= m + 1 /\ \A i \in I : e <= i
  BY <1>2, <1>3, <1>4, <1>5
<1> HIDE DEF e, I
<1>8. n < e
  BY <1>7
<1>9. n + 1 <= m /\ EndsDiff(d, n + 1) => e = n + 1
  BY <1>6, <1>7
<1>10. n = m => e = n + 1
  BY <1>7
<1> QED
  BY <1>8, <1>9, <1>10 DEF e, m

\* The summaries, line after line.
LEMMA SummedIs ==
  ASSUME NEW L, input \in Seq(L)
  PROVE  /\ Summaries \in Seq(GitEntries)
         /\ AtPlaces(Summaries, Summarised) = Summed[Len(input)]
         /\ Summed[0] = <<>>
         /\ \A n \in 1..Len(input) :
              Summed[n] = IF n \in Summarised THEN Append(Summed[n - 1], Summary(n)) ELSE Summed[n - 1]
         /\ \A n \in 0..Len(input) : Summed[n] \in Seq(GitEntries)
<1> DEFINE m == Len(input)
<1>1. m \in Nat
  OBVIOUS
<1>2. ASSUME NEW i \in 1..m PROVE Summary(i) \in GitEntries
  <2>1. CASE i \in Diffs
    <3>1. DiffEnd(i) - 1 \in Int
      <4> DEFINE I == {j \in i + 1..Len(input) : EndsDiff(i, j)} \cup {Len(input) + 1}
      <4>1. I \subseteq Nat /\ I # {}
        BY <1>1
      <4> HIDE DEF I
      <4>2. Min(I) \in Nat
        BY <4>1, MinOf
      <4>3. DiffEnd(i) = Min(I)
        BY DEF DiffEnd, I
      <4> QED
        BY <4>2, <4>3
    <3>2. Counted(i, "plus") \in Nat /\ Counted(i, "minus") \in Nat
      <4>1. \A kind : Counted(i, kind) = CountedTo(i, DiffEnd(i) - 1, kind)
        BY DEF Counted, CountedTo
      <4> QED
        BY <3>1, <4>1, CountedType
    <3> QED
      BY <2>1, <3>2 DEF Summary, GitEntries
  <2>2. CASE i \notin Diffs
    BY <2>2 DEF Summary, GitEntries, Line
  <2> QED
    BY <2>1, <2>2
<1>3. Summaries \in Seq(GitEntries) /\ Len(Summaries) = m /\ \A i \in 1..m : Summaries[i] = Summary(i)
  BY <1>2 DEF Summaries
<1> HIDE DEF m
<1>4. /\ AtPlaces(Summaries, Summarised) = Summed[m]
      /\ Summed[0] = <<>>
      /\ \A n \in 1..m : Summed[n] = IF n \in Summarised THEN Append(Summed[n - 1], Summaries[n]) ELSE Summed[n - 1]
  BY <1>3, AtPlacesDef DEF Summed
<1>5. ASSUME NEW n \in 0..m PROVE Summed[n] \in Seq(GitEntries)
  BY <1>3, PlacesType DEF Summed
<1> QED
  BY <1>3, <1>4, <1>5 DEF m

\* The states of the git filter.
GitStates ==
  [file : {""} \cup {Name(input[i]) : i \in 1..Len(input)}, hunk : BOOLEAN, plus : Nat, minus : Nat,
   out : Seq(GitEntries)]

\* A diff is open.
GitBusy(s) == s.file # ""

GitIdle(s) == s.file = "" /\ s.hunk = FALSE /\ s.plus = 0 /\ s.minus = 0

\* What is told so far is what the first lines are summarised to, and the diffs
\* among them have ended by line e.
GitTold(s, n, e) ==
  /\ GitIdle(s)
  /\ Only(s.out, Telling) = Summed[n]
  /\ \A d \in Diffs : d <= n => DiffEnd(d) <= e

\* The diff that began in line d is open: its lines are counted, the lines
\* before it told.
GitOpen(s, n, d) ==
  /\ Runs(d, n)
  /\ s.file = Name(input[d])
  /\ s.hunk = InHunk(d, n + 1)
  /\ s.plus = CountedTo(d, n, "plus") /\ s.minus = CountedTo(d, n, "minus")
  /\ Only(s.out, Telling) = Summed[d - 1]
  /\ Summed[n] = Summed[d]

\* The filter is on course after n lines.
GitOnCourse(s, n) ==
  /\ s \in GitStates
  /\ GitTold(s, n, n) \/ \E d \in Diffs : GitOpen(s, n, d)

\* A diff ends no later than the next one begins.
LEMMA EarlierEnd ==
  ASSUME NEW L, input \in Seq(L), NEW c \in Diffs, NEW d \in Diffs, c < d
  PROVE  DiffEnd(c) <= d
<1> DEFINE m == Len(input)
           I == {i \in c + 1..m : EndsDiff(c, i)} \cup {m + 1}
<1>1. m \in Nat /\ c \in 1..m /\ d \in 1..m
  BY DEF Diffs, LinesOf
<1>2. DiffEnd(c) = Min(I)
  BY DEF DiffEnd
<1>3. I \subseteq Nat
  BY <1>1
<1>4. d \in I
  <2>1. d \in c + 1..m
    BY <1>1
  <2>2. EndsDiff(c, d)
    BY DEF EndsDiff
  <2> QED
    BY <2>1, <2>2
<1> HIDE DEF I, m
<1>5. Min(I) <= d
  BY <1>3, <1>4, MinOf
<1> QED
  BY <1>2, <1>5

\* A diff ends at a place.
LEMMA EndIsPlace ==
  ASSUME NEW L, input \in Seq(L), NEW d \in Diffs
  PROVE  DiffEnd(d) \in Nat
<1> DEFINE I == {j \in d + 1..Len(input) : EndsDiff(d, j)} \cup {Len(input) + 1}
<1>1. d \in 1..Len(input)
  BY DEF Diffs, LinesOf
<1>2. I \subseteq Nat /\ I # {}
  BY <1>1
<1> HIDE DEF I
<1>3. Min(I) \in Nat
  BY <1>2, MinOf
<1>4. DiffEnd(d) = Min(I)
  BY DEF DiffEnd, I
<1> QED
  BY <1>3, <1>4

\* A line within a diff is no summary's place.
LEMMA NoneWithin ==
  ASSUME NEW L, input \in Seq(L), NEW d, NEW n \in Nat, Runs(d, n), n <= Len(input), d < n
  PROVE  n \notin Summarised
<1>1. n < DiffEnd(d) /\ d \in Diffs /\ d \in Nat
  BY WhereItEnds DEF Runs, Diffs, LinesOf
<1>2. n \notin Diffs
  <2>1. n \in d + 1..n
    BY <1>1
  <2> QED
    BY <2>1 DEF Runs, EndsDiff
<1>3. DiffEnd(d) \in Nat
  BY <1>1, EndIsPlace
<1>4. ~(n < d) /\ ~(DiffEnd(d) <= n)
  BY <1>1, <1>3
<1> QED
  BY <1>1, <1>2, <1>4 DEF Summarised

\* A line outside the diffs is told if it says anything.
LEMMA GitKeeps ==
  ASSUME NEW L, input \in Seq(L), NEW s \in GitStates, NEW n \in Nat, n + 1 <= Len(input),
         GitTold(s, n, n + 1), n + 1 \notin Diffs, Kind(input[n + 1]) # "hint"
  PROVE  GitOnCourse(GitKeep(s, n + 1, input[n + 1], input), n + 1)
<1> DEFINE k == Kind(input[n + 1])
           e == Line(n + 1)
           S == Seq(GitEntries)
           r == GitKeep(s, n + 1, input[n + 1], input)
           more == Append(s.out, e)
<1>1. n + 1 \in 1..Len(input) /\ (n + 1) - 1 = n /\ n \in 0..Len(input)
  OBVIOUS
<1>2. \A d \in Diffs : d <= n + 1 => DiffEnd(d) <= n + 1
  <2> SUFFICES ASSUME NEW d \in Diffs, d <= n + 1 PROVE DiffEnd(d) <= n + 1
    OBVIOUS
  <2>1. d \in Nat /\ d # n + 1
    BY DEF Diffs, LinesOf
  <2>2. d <= n
    BY <2>1
  <2> QED
    BY <2>2 DEF GitTold
<1>3. n + 1 \in Summarised <=> k # "blank"
  <2>1. \A d \in Diffs : n + 1 < d \/ DiffEnd(d) <= n + 1
    <3> SUFFICES ASSUME NEW d \in Diffs PROVE n + 1 < d \/ DiffEnd(d) <= n + 1
      OBVIOUS
    <3>1. d \in Nat
      BY DEF Diffs, LinesOf
    <3>2. d <= n + 1 \/ n + 1 < d
      BY <3>1
    <3> QED
      BY <1>2, <3>2
  <2> QED
    BY <1>1, <2>1 DEF Summarised
<1>4. Summary(n + 1) = e
  BY DEF Summary
<1>5. Summed[n + 1] = IF k # "blank" THEN Append(Summed[n], e) ELSE Summed[n]
  <2>1. Summed[n + 1]
          = IF n + 1 \in Summarised THEN Append(Summed[(n + 1) - 1], Summary(n + 1)) ELSE Summed[(n + 1) - 1]
    BY <1>1, SummedIs
  <2> QED
    BY <1>1, <1>3, <1>4, <2>1
<1>6. e \in GitEntries /\ (e \in Telling <=> k # "blank")
  BY DEF GitEntries, Telling, IsBlank, Line
<1>7. s.out \in S
  BY DEF GitStates
<1>8. more \in S /\ Only(more, Telling) = IF k # "blank" THEN Append(Only(s.out, Telling), e) ELSE Only(s.out, Telling)
  <2>1. more \in S
    BY <1>6, <1>7
  <2> DEFINE o == s.out
  <2>2. e \in GitEntries /\ o \in Seq(GitEntries)
    BY <1>6, <1>7
  <2> HIDE DEF e, k, o
  <2>3. Only(Append(o, e), Telling) = IF e \in Telling THEN Append(Only(o, Telling), e) ELSE Only(o, Telling)
    BY <2>2, OnlyAppend
  <2> QED
    BY <1>6, <2>1, <2>3 DEF o
<1>9. Only(s.out, Telling) = Summed[n]
  BY DEF GitTold
<1>10. r = [s EXCEPT !.out = more] \/ (r = s /\ k = "blank")
  BY DEF GitKeep
<1> HIDE DEF k, e, S, r, more
<1>11. ASSUME NEW t \in GitStates, GitIdle(t), Only(t.out, Telling) = Summed[n + 1]
       PROVE  GitOnCourse(t, n + 1)
  BY <1>2, <1>11 DEF GitOnCourse, GitTold
<1>12. CASE r = [s EXCEPT !.out = more]
  <2> DEFINE N == {""} \cup {Name(input[i]) : i \in 1..Len(input)}
  <2> HIDE DEF N
  <2>1. s \in [file : N, hunk : BOOLEAN, plus : Nat, minus : Nat, out : S]
    BY DEF GitStates, S, N
  <2>2. r \in [file : N, hunk : BOOLEAN, plus : Nat, minus : Nat, out : S] /\ r.out = more
        /\ r.file = s.file /\ r.hunk = s.hunk /\ r.plus = s.plus /\ r.minus = s.minus
    BY <1>8, <1>12, <2>1
  <2>3. r \in GitStates
    BY <2>2 DEF GitStates, S, N
  <2>4. GitIdle(r)
    BY <2>2 DEF GitTold, GitIdle
  <2>5. Only(r.out, Telling) = Summed[n + 1]
    BY <1>5, <1>8, <1>9, <2>2
  <2>6. GitOnCourse(r, n + 1)
    BY <1>11, <2>3, <2>4, <2>5
  <2> QED
    BY <2>6 DEF r
<1>13. CASE r = s /\ k = "blank"
  <2>1. Only(s.out, Telling) = Summed[n + 1]
    BY <1>5, <1>9, <1>13
  <2>2. GitOnCourse(s, n + 1)
    BY <1>11, <2>1 DEF GitTold
  <2> QED
    BY <1>13, <2>2 DEF r
<1> QED
  BY <1>10, <1>12, <1>13

\* A hint outside the diffs is dropped.
LEMMA HintsAreNothing ==
  ASSUME NEW L, input \in Seq(L), NEW s \in GitStates, NEW n \in Nat, n + 1 <= Len(input),
         GitTold(s, n, n + 1), n + 1 \notin Diffs, Kind(input[n + 1]) = "hint"
  PROVE  GitOnCourse(s, n + 1)
<1>1. n + 1 \in 1..Len(input) /\ (n + 1) - 1 = n
  OBVIOUS
<1>2. \A d \in Diffs : d <= n + 1 => DiffEnd(d) <= n + 1
  <2> SUFFICES ASSUME NEW d \in Diffs, d <= n + 1 PROVE DiffEnd(d) <= n + 1
    OBVIOUS
  <2>1. d \in Nat /\ d # n + 1
    BY DEF Diffs, LinesOf
  <2>2. d <= n
    BY <2>1
  <2> QED
    BY <2>2 DEF GitTold
<1>3. n + 1 \notin Summarised
  BY DEF Summarised
<1>4. Summed[n + 1] = Summed[n]
  <2>1. Summed[n + 1]
          = IF n + 1 \in Summarised THEN Append(Summed[(n + 1) - 1], Summary(n + 1)) ELSE Summed[(n + 1) - 1]
    BY <1>1, SummedIs
  <2> QED
    BY <1>1, <1>3, <2>1
<1> QED
  BY <1>2, <1>4 DEF GitOnCourse, GitTold

\* The diff that was open is told once it has ended.
LEMMA GitFlushes ==
  ASSUME NEW L, input \in Seq(L), NEW s \in GitStates, NEW n \in Nat, n <= Len(input),
         NEW d \in Diffs, GitOpen(s, n, d), DiffEnd(d) = n + 1, GitBusy(s)
  PROVE  Flush(s) \in GitStates /\ GitTold(Flush(s), n, n + 1)
<1> DEFINE e == <<"diff", s.file, s.plus, s.minus>>
           S == Seq(GitEntries)
           more == Append(s.out, e)
           N == {""} \cup {Name(input[i]) : i \in 1..Len(input)}
           r == Flush(s)
<1>1. d \in 1..Len(input) /\ d \in Nat /\ d <= n
  <2>1. d <= n
    BY DEF GitOpen, Runs
  <2>2. d \in 1..Len(input)
    BY DEF Diffs, LinesOf
  <2> HIDE DEF e, S, more, N, r
  <2> QED
    BY <2>1, <2>2
<1>2. Summary(d) = e
  <2>1. Counted(d, "plus") = CountedTo(d, n, "plus") /\ Counted(d, "minus") = CountedTo(d, n, "minus")
    <3>1. \A kind : Counted(d, kind) = CountedTo(d, DiffEnd(d) - 1, kind)
      BY DEF Counted, CountedTo
    <3>2. DiffEnd(d) - 1 = n
      <4> HIDE DEF e, S, more, N, r
      <4>1. \A x : x = n + 1 => x - 1 = n
        OBVIOUS
      <4> QED
        BY <4>1
    <3> QED
      BY <3>1, <3>2
  <2> QED
    BY <2>1 DEF Summary, GitOpen
<1>3. e \in GitEntries /\ e \in Telling
  <2>1. s.file \in {Name(input[i]) : i \in 1..Len(input)} /\ s.plus \in Nat /\ s.minus \in Nat
    BY <1>1 DEF GitOpen, GitStates
  <2>2. e \in GitEntries
    BY <2>1 DEF GitEntries
  <2>3. ~IsBlank(e, input)
    BY DEF IsBlank
  <2> QED
    BY <2>2, <2>3 DEF Telling
<1>4. s.out \in S
  BY DEF GitStates
<1>5. more \in S /\ Only(more, Telling) = Append(Summed[d - 1], e)
  <2>1. Only(s.out, Telling) = Summed[d - 1]
    BY DEF GitOpen
  <2>2. more \in S
    BY <1>3, <1>4
  <2> DEFINE o == s.out
  <2>3. o \in Seq(GitEntries)
    BY <1>4
  <2> HIDE DEF e, o
  <2>4. Only(Append(o, e), Telling) = IF e \in Telling THEN Append(Only(o, Telling), e) ELSE Only(o, Telling)
    BY <1>3, <2>3, OnlyAppend
  <2> QED
    BY <1>3, <2>1, <2>2, <2>4 DEF o
<1>6. Summed[n] = Append(Summed[d - 1], e)
  <2>1. d \in Summarised
    BY DEF Summarised
  <2>2. Summed[d] = Append(Summed[d - 1], Summary(d))
    BY <1>1, <2>1, SummedIs
  <2> QED
    BY <1>2, <2>2 DEF GitOpen
<1>7. r = [GitStart EXCEPT !.out = more]
  BY DEF Flush, GitBusy
<1> HIDE DEF e, S, more, N, r
<1>8. "" \in N
  BY DEF N
<1>9. /\ r \in [file : N, hunk : BOOLEAN, plus : Nat, minus : Nat, out : S]
      /\ r.out = more /\ r.file = "" /\ r.hunk = FALSE /\ r.plus = 0 /\ r.minus = 0
  BY <1>5, <1>7, <1>8 DEF GitStart
<1>10. r \in GitStates
  BY <1>9 DEF GitStates, N, S
<1>11. \A c \in Diffs : c <= n => DiffEnd(c) <= n + 1
  <2> SUFFICES ASSUME NEW c \in Diffs, c <= n PROVE DiffEnd(c) <= n + 1
    OBVIOUS
  <2>1. c \in Nat
    <3>1. c \in 1..Len(input)
      BY DEF Diffs, LinesOf
    <3> QED
      BY <3>1
  <2>2. CASE c = d
    <3>1. DiffEnd(c) = n + 1
      BY <2>2
    <3> QED
      BY <3>1
  <2>3. CASE d < c
    <3>1. c \in d + 1..n
      <4>1. c <= n
        OBVIOUS
      <4> QED
        BY <1>1, <2>1, <2>3, <4>1
    <3> QED
      BY <3>1 DEF GitOpen, Runs, EndsDiff
  <2>4. CASE c < d
    <3>1. DiffEnd(c) <= d /\ DiffEnd(c) \in Nat
      BY <2>4, EarlierEnd, EndIsPlace
    <3> QED
      BY <1>1, <3>1
  <2> QED
    BY <1>1, <2>1, <2>2, <2>3, <2>4
<1>12. GitTold(r, n, n + 1)
  BY <1>5, <1>6, <1>9, <1>11 DEF GitTold, GitIdle
<1> QED
  BY <1>10, <1>12 DEF r

\* A header opens a diff.
LEMMA GitOpens ==
  ASSUME NEW L, input \in Seq(L), NEW s \in GitStates, NEW n \in Nat, n + 1 <= Len(input),
         GitTold(s, n, n + 1), n + 1 \in Diffs
  PROVE  GitOnCourse([s EXCEPT !.file = Name(input[n + 1])], n + 1)
<1> DEFINE name == Name(input[n + 1])
           d == n + 1
           r == [s EXCEPT !.file = name]
           S == Seq(GitEntries)
           N == {""} \cup {Name(input[i]) : i \in 1..Len(input)}
<1>1. d \in Nat /\ d \in 1..Len(input) /\ d - 1 = n
  OBVIOUS
<1>2. name \in N /\ s \in [file : N, hunk : BOOLEAN, plus : Nat, minus : Nat, out : S]
  BY <1>1 DEF GitStates
<1>3. Runs(d, d)
  <2>1. d + 1..d = {}
    BY <1>1
  <2> QED
    BY <1>1, <2>1 DEF Runs
<1>4. InHunk(d, d + 1) = FALSE
  <2>1. ~InHunk(d, d + 1)
    BY NoneInHeader
  <2>2. InHunk(d, d + 1) \in BOOLEAN
    BY DEF InHunk
  <2> QED
    BY <2>1, <2>2
<1>5. CountedTo(d, d, "plus") = 0 /\ CountedTo(d, d, "minus") = 0
  BY NoneCounted
<1>6. name = Name(input[d])
  OBVIOUS
<1>7. n + 1 = d
  OBVIOUS
<1> HIDE DEF name, S, N
<1>8. /\ r \in [file : N, hunk : BOOLEAN, plus : Nat, minus : Nat, out : S]
      /\ r.file = name /\ r.hunk = s.hunk /\ r.plus = s.plus /\ r.minus = s.minus /\ r.out = s.out
  BY <1>2
<1> HIDE DEF r, d
<1>9. r \in GitStates
  BY <1>8 DEF GitStates, S, N
<1>10. GitOpen(r, d, d)
  BY <1>1, <1>3, <1>4, <1>5, <1>6, <1>8 DEF GitOpen, GitTold, GitIdle
<1>11. d \in Diffs
  BY <1>7
<1>12. GitOnCourse(r, d)
  BY <1>9, <1>10, <1>11 DEF GitOnCourse
<1> QED
  BY <1>12 DEF r, d, name

\* A line within a diff is counted, or dropped.
LEMMA GitCounts ==
  ASSUME NEW L, input \in Seq(L), NEW s \in GitStates, NEW n \in Nat, n + 1 <= Len(input),
         NEW d \in Diffs, GitOpen(s, n, d), ~EndsDiff(d, n + 1),
         NEW r \in GitStates, r.file = s.file, r.out = s.out,
         r.hunk = (s.hunk \/ Kind(input[n + 1]) = "hunk"),
         r.plus = IF Kind(input[n + 1]) = "plus" /\ s.hunk THEN s.plus + 1 ELSE s.plus,
         r.minus = IF Kind(input[n + 1]) = "minus" /\ s.hunk THEN s.minus + 1 ELSE s.minus
  PROVE  GitOnCourse(r, n + 1)
<1>1. d \in Nat /\ d <= n /\ d <= n + 1 /\ d < n + 1 /\ n + 1 \in Nat
  BY DEF GitOpen, Runs, Diffs, LinesOf
<1>2. Runs(d, n + 1)
  <2>1. \A i \in d + 1..n + 1 : i = n + 1 \/ i \in d + 1..n
    BY <1>1
  <2> QED
    BY <1>1, <2>1 DEF Runs, GitOpen
<1>3. s.hunk = InHunk(d, n + 1)
  BY DEF GitOpen
<1>4. r.hunk = InHunk(d, (n + 1) + 1)
  <2>1. InHunk(d, (n + 1) + 1) <=> InHunk(d, n + 1) \/ Kind(input[n + 1]) = "hunk"
    BY <1>1, OneMoreInHunk
  <2>2. InHunk(d, (n + 1) + 1) \in BOOLEAN /\ InHunk(d, n + 1) \in BOOLEAN
    BY DEF InHunk
  <2> QED
    BY <1>3, <2>1, <2>2
<1>5. r.plus = CountedTo(d, n + 1, "plus") /\ r.minus = CountedTo(d, n + 1, "minus")
  <2>1. \A kind : CountedTo(d, n + 1, kind) =
           IF Kind(input[n + 1]) = kind /\ InHunk(d, n + 1) THEN CountedTo(d, n, kind) + 1
           ELSE CountedTo(d, n, kind)
    BY <1>1, OneMoreCounted
  <2> QED
    BY <1>3, <2>1 DEF GitOpen
<1>6. Summed[n + 1] = Summed[d]
  <2>1. n + 1 \notin Summarised
    BY <1>1, <1>2, NoneWithin
  <2>2. n + 1 \in 1..Len(input) /\ (n + 1) - 1 = n
    OBVIOUS
  <2>3. Summed[n + 1] = Summed[(n + 1) - 1]
    BY <2>1, <2>2, SummedIs
  <2> QED
    BY <2>2, <2>3 DEF GitOpen
<1>7. GitOpen(r, n + 1, d)
  BY <1>2, <1>4, <1>5, <1>6 DEF GitOpen
<1> QED
  BY <1>7 DEF GitOnCourse

\* A line outside the diffs.
LEMMA GitOutside ==
  ASSUME NEW L, input \in Seq(L), NEW s \in GitStates, NEW n \in Nat, n + 1 <= Len(input),
         GitTold(s, n, n)
  PROVE  GitOnCourse(GitStep(s, n + 1, input[n + 1], input), n + 1)
<1> DEFINE line == input[n + 1]
           r == GitStep(s, n + 1, line, input)
<1>1. GitTold(s, n, n + 1)
  <2>1. ASSUME NEW d \in Diffs, d <= n PROVE DiffEnd(d) <= n + 1
    <3>1. DiffEnd(d) <= n
      BY <2>1 DEF GitTold
    <3> QED
      BY <3>1, EndIsPlace
  <2> QED
    BY <2>1 DEF GitTold
<1>2. n + 1 \in Diffs <=> Kind(line) = "diff"
  <2>1. n + 1 \in 1..Len(input)
    OBVIOUS
  <2> QED
    BY <2>1 DEF Diffs, LinesOf
<1>3. s.file = ""
  BY DEF GitTold, GitIdle
<1>4. Kind(line) = "hint" => r = s
  BY DEF GitStep
<1>5. Kind(line) = "diff" => r = [s EXCEPT !.file = Name(line)]
  BY <1>3 DEF GitStep, Flush
<1>6. Kind(line) \notin {"hint", "diff"} => r = GitKeep(s, n + 1, line, input)
  BY <1>3 DEF GitStep
<1>7. CASE Kind(line) = "hint"
  <2>1. n + 1 \notin Diffs
    BY <1>2, <1>7
  <2>2. GitOnCourse(s, n + 1)
    BY <1>1, <1>7, <2>1, HintsAreNothing
  <2> QED
    BY <1>4, <1>7, <2>2
<1>8. CASE Kind(line) = "diff"
  BY <1>1, <1>2, <1>5, <1>8, GitOpens
<1>9. CASE Kind(line) \notin {"hint", "diff"}
  BY <1>1, <1>2, <1>6, <1>9, GitKeeps
<1> QED
  BY <1>7, <1>8, <1>9

\* A line while a diff is open.
LEMMA GitInside ==
  ASSUME NEW L, input \in Seq(L), NEW s \in GitStates, NEW n \in Nat, n + 1 <= Len(input),
         NEW d \in Diffs, GitOpen(s, n, d), GitBusy(s)
  PROVE  GitOnCourse(GitStep(s, n + 1, input[n + 1], input), n + 1)
<1> DEFINE line == input[n + 1]
           k == Kind(line)
           r == GitStep(s, n + 1, line, input)
           f == Flush(s)
           counted ==
             [s EXCEPT !.hunk = (s.hunk \/ k = "hunk"),
                       !.plus = IF k = "plus" /\ s.hunk THEN s.plus + 1 ELSE s.plus,
                       !.minus = IF k = "minus" /\ s.hunk THEN s.minus + 1 ELSE s.minus]
<1>1. n + 1 \in 1..Len(input) /\ n <= Len(input)
  OBVIOUS
<1>2. n + 1 \in Diffs <=> k = "diff"
  BY <1>1 DEF Diffs, LinesOf
<1>3. EndsDiff(d, n + 1) <=> k = "diff" \/ (k \in {"odd diff", "commit"} /\ s.hunk)
  <2>1. s.hunk = InHunk(d, n + 1)
    BY DEF GitOpen
  <2> QED
    BY <1>2, <2>1 DEF EndsDiff
<1>4. ASSUME EndsDiff(d, n + 1) PROVE f \in GitStates /\ GitTold(f, n, n + 1)
  <2>1. Runs(d, n)
    BY DEF GitOpen
  <2>2. DiffEnd(d) = n + 1
    BY <1>1, <1>4, <2>1, WhereItEnds
  <2> QED
    BY <1>1, <2>2, GitFlushes
<1>5. s \in [file : {""} \cup {Name(input[i]) : i \in 1..Len(input)}, hunk : BOOLEAN, plus : Nat,
             minus : Nat, out : Seq(GitEntries)]
  BY DEF GitStates
<1>6. k = "diff" => r = [f EXCEPT !.file = Name(line)]
  BY DEF GitStep
<1>7. k \in {"odd diff", "commit"} /\ s.hunk => r = GitKeep(f, n + 1, line, input)
  BY DEF GitStep, InDiff, GitBusy
<1>8. k # "diff" /\ ~(k \in {"odd diff", "commit"} /\ s.hunk) => r = counted
  BY <1>5 DEF GitStep, InDiff, GitBusy
<1>9. CASE k = "diff"
  <2>1. f \in GitStates /\ GitTold(f, n, n + 1) /\ n + 1 \in Diffs
    BY <1>2, <1>3, <1>4, <1>9
  <2> HIDE DEF f
  <2>2. GitOnCourse([f EXCEPT !.file = Name(line)], n + 1)
    BY <2>1, GitOpens
  <2> QED
    BY <1>6, <1>9, <2>2
<1>10. CASE k \in {"odd diff", "commit"} /\ s.hunk
  <2>1. f \in GitStates /\ GitTold(f, n, n + 1) /\ n + 1 \notin Diffs /\ k # "hint"
    BY <1>2, <1>3, <1>4, <1>10
  <2> HIDE DEF f
  <2>2. GitOnCourse(GitKeep(f, n + 1, line, input), n + 1)
    BY <2>1, GitKeeps
  <2> QED
    BY <1>7, <1>10, <2>2
<1>11. CASE k # "diff" /\ ~(k \in {"odd diff", "commit"} /\ s.hunk)
  <2>1. ~EndsDiff(d, n + 1)
    BY <1>3, <1>11
  <2>2. counted \in GitStates
    <3> DEFINE N == {""} \cup {Name(input[i]) : i \in 1..Len(input)}
               O == Seq(GitEntries)
    <3> HIDE DEF N, O, k
    <3>1. s \in [file : N, hunk : BOOLEAN, plus : Nat, minus : Nat, out : O]
      BY <1>5 DEF N, O
    <3> DEFINE h == s.hunk \/ k = "hunk"
               p == IF k = "plus" /\ s.hunk THEN s.plus + 1 ELSE s.plus
               q == IF k = "minus" /\ s.hunk THEN s.minus + 1 ELSE s.minus
    <3>2. h \in BOOLEAN /\ p \in Nat /\ q \in Nat
      BY <3>1
    <3>3. counted = [s EXCEPT !.hunk = h, !.plus = p, !.minus = q]
      OBVIOUS
    <3> HIDE DEF h, p, q, counted
    <3>4. counted \in [file : N, hunk : BOOLEAN, plus : Nat, minus : Nat, out : O]
      BY <3>1, <3>2, <3>3
    <3> QED
      BY <3>4 DEF GitStates, N, O
  <2>3. /\ counted.file = s.file /\ counted.out = s.out
        /\ counted.hunk = (s.hunk \/ k = "hunk")
        /\ counted.plus = IF k = "plus" /\ s.hunk THEN s.plus + 1 ELSE s.plus
        /\ counted.minus = IF k = "minus" /\ s.hunk THEN s.minus + 1 ELSE s.minus
    BY <1>5
  <2> HIDE DEF counted
  <2>4. GitOnCourse(counted, n + 1)
    BY <2>1, <2>2, <2>3, GitCounts
  <2> QED
    BY <1>8, <1>11, <2>4
<1> QED
  BY <1>9, <1>10, <1>11

\* Every diff is of a file with a name.
NamedDiffs == \A i \in Diffs : Name(input[i]) # ""

\* Any line.
LEMMA GitStepOnCourse ==
  ASSUME NEW L, input \in Seq(L), NamedDiffs, NEW s, NEW n \in Nat, n + 1 <= Len(input),
         GitOnCourse(s, n)
  PROVE  GitOnCourse(GitStep(s, n + 1, input[n + 1], input), n + 1)
<1>1. s \in GitStates
  BY DEF GitOnCourse
<1>2. CASE GitTold(s, n, n)
  BY <1>1, <1>2, GitOutside
<1>3. CASE \E d \in Diffs : GitOpen(s, n, d)
  <2>1. PICK d \in Diffs : GitOpen(s, n, d)
    BY <1>3
  <2>2. GitBusy(s)
    BY <2>1 DEF GitOpen, GitBusy, NamedDiffs
  <2> QED
    BY <1>1, <2>1, <2>2, GitInside
<1> QED
  BY <1>2, <1>3 DEF GitOnCourse

\* The states of the git filter, line after line, and the state at the end.
GitAfter ==
  CHOOSE after : after = [n \in 0..Len(input) |->
    IF n = 0 THEN GitStart ELSE GitStep(after[n - 1], n, input[n], input)]

GitScan ==
  LET Step(s, i, line) == GitStep(s, i, line, input)
  IN  Scan(Step, GitStart, input)

\* The filter is on course at the end.
LEMMA GitReads ==
  ASSUME NEW L, input \in Seq(L), NamedDiffs
  PROVE  GitOnCourse(GitScan, Len(input))
<1> DEFINE m == Len(input)
           f == GitAfter
           Then(s, n) == GitStep(s, n, input[n], input)
           C == {p \in GitStates \X (0..m) : GitOnCourse(p[1], p[2])}
           H == [p \in C |-> Then(p[1], p[2] + 1)]
<1>1. m \in Nat /\ m = Len(input)
  OBVIOUS
<1>2. GitOnCourse(GitStart, 0)
  <2>1. GitStart \in GitStates
    <3>1. <<>> \in Seq(GitEntries)
      OBVIOUS
    <3> QED
      BY <3>1 DEF GitStart, GitStates
  <2>2. Only(<<>>, Telling) = <<>> /\ Summed[0] = <<>>
    BY OnlyEmpty, SummedIs
  <2>3. \A d \in Diffs : ~(d <= 0)
    <3>1. \A d \in Diffs : d \in 1..Len(input)
      BY DEF Diffs, LinesOf
    <3> QED
      BY <3>1
  <2> QED
    BY <2>1, <2>2, <2>3 DEF GitOnCourse, GitTold, GitIdle, GitStart
<1>3. \A s, n : <<s, n>> \in C <=> n \in 0..m /\ GitOnCourse(s, n)
  BY DEF GitOnCourse
<1>4. \A s, n : <<s, n>> \in C => H[<<s, n>>] = Then(s, n + 1)
  OBVIOUS
<1>5. Leads(H, m, C)
  <2> SUFFICES ASSUME NEW s, NEW n \in 0..m, <<s, n>> \in C, n < m
               PROVE  <<H[<<s, n>>], n + 1>> \in C
    BY DEF Leads
  <2>1. n \in Nat /\ n + 1 \in 1..m /\ n + 1 \in 0..m
    BY <1>1
  <2>2. GitOnCourse(Then(s, n + 1), n + 1)
    <3>1. n + 1 <= Len(input)
      BY <1>1, <2>1
    <3> QED
      BY <1>3, <2>1, <3>1, GitStepOnCourse
  <2> QED
    BY <1>3, <1>4, <2>1, <2>2
<1>6. <<GitStart, 0>> \in C /\ C \subseteq GitStates \X (0..m)
  BY <1>1, <1>2, <1>3
<1> HIDE DEF Then, m, C, H
<1>7. PICK g \in [0..m -> GitStates] :
        Follow(g, m, GitStart, H, C) /\ \A n \in 0..m : <<g[n], n>> \in C
  BY <1>1, <1>5, <1>6, ACourse
<1>8. g = [n \in 0..m |-> IF n = 0 THEN GitStart ELSE Then(g[n - 1], n)]
  <2>1. ASSUME NEW n \in 1..m PROVE g[n] = Then(g[n - 1], n)
    <3>1. (n - 1) + 1 = n /\ n - 1 \in 0..m
      BY <1>1
    <3>2. <<g[n - 1], n - 1>> \in C
      BY <1>7, <3>1
    <3>3. g[n] = H[<<g[n - 1], n - 1>>]
      BY <1>7, <3>2 DEF Follow
    <3>4. H[<<g[n - 1], n - 1>>] = Then(g[n - 1], (n - 1) + 1)
      BY <1>4, <3>2
    <3> QED
      BY <3>1, <3>3, <3>4
  <2>2. g[0] = GitStart
    BY <1>7 DEF Follow
  <2> QED
    BY <1>7, <2>1, <2>2
<1>9. f = [n \in 0..m |-> IF n = 0 THEN GitStart ELSE Then(f[n - 1], n)]
  BY <1>8 DEF GitAfter, Then, m
<1> HIDE DEF f
<1>10. Follow(f, m, GitStart, H, C)
  <2>1. f[0] = GitStart /\ \A n \in 1..m : f[n] = Then(f[n - 1], n)
    BY <1>1, <1>9
  <2>2. ASSUME NEW n \in 1..m, <<f[n - 1], n - 1>> \in C PROVE f[n] = H[<<f[n - 1], n - 1>>]
    <3>1. H[<<f[n - 1], n - 1>>] = Then(f[n - 1], (n - 1) + 1) /\ (n - 1) + 1 = n
      BY <1>4, <2>2
    <3> QED
      BY <2>1, <3>1
  <2> QED
    BY <2>1, <2>2 DEF Follow
<1>11. <<f[m], m>> \in C
  <2>1. \A n \in 0..m : <<f[n], n>> \in C
    BY <1>1, <1>5, <1>6, <1>10, OnCourse
  <2> QED
    BY <1>1, <2>1
<1>12. GitScan = f[m]
  BY DEF GitScan, Scan, GitAfter, f, m
<1> QED
  BY <1>3, <1>11, <1>12 DEF m

\* gitFilter summarises each diff once, in its place, with its own lines.
LEMMA GitSummarises ==
  ASSUME NEW L, input \in Seq(L), NamedDiffs
  PROVE  LET Says(entry) == ~IsBlank(entry, input)
         IN Select(Git(input), Says) = AtPlaces([i \in 1..Len(input) |-> Summary(i)], Summarised)
<1> DEFINE m == Len(input)
           s == GitScan
           t == Flush(s)
           out == t.out
           short == WithoutLastBlanks(out, input)
           Says(entry) == ~IsBlank(entry, input)
<1>1. m \in Nat /\ m = Len(input)
  OBVIOUS
<1>2. GitOnCourse(s, m)
  BY GitReads
<1> HIDE DEF s
<1>3. t \in GitStates /\ GitTold(t, m, m + 1)
  <2>1. s \in GitStates
    BY <1>2 DEF GitOnCourse
  <2>2. CASE GitTold(s, m, m)
    <3>1. t = s
      BY <2>2 DEF Flush, GitTold, GitIdle
    <3>2. ASSUME NEW d \in Diffs, d <= m PROVE DiffEnd(d) <= m + 1
      <4>1. DiffEnd(d) <= m
        BY <2>2, <3>2 DEF GitTold
      <4> QED
        BY <1>1, <4>1, EndIsPlace
    <3> QED
      BY <2>1, <2>2, <3>1, <3>2 DEF GitTold
  <2>3. CASE \E d \in Diffs : GitOpen(s, m, d)
    <3>1. PICK d \in Diffs : GitOpen(s, m, d)
      BY <2>3
    <3>2. GitBusy(s)
      BY <3>1 DEF GitOpen, GitBusy, NamedDiffs
    <3>3. Runs(d, m)
      BY <3>1 DEF GitOpen
    <3> HIDE DEF m
    <3>4. m <= Len(input)
      BY <1>1
    <3>5. DiffEnd(d) = m + 1
      BY <1>1, <3>3, <3>4, WhereItEnds
    <3> QED
      BY <1>1, <2>1, <3>1, <3>2, <3>4, <3>5, GitFlushes
  <2> QED
    BY <1>2, <2>2, <2>3 DEF GitOnCourse
<1>4. Git(input) = short
  BY DEF Git, GitScan, s
<1>5. out \in Seq(GitEntries) /\ Only(out, Telling) = Summed[m]
  BY <1>3 DEF GitStates, GitTold
<1> HIDE DEF t, out
<1>6. short \in Seq(GitEntries) /\ Only(short, Telling) = Only(out, Telling)
  <2>1. \A e \in Telling : ~IsBlank(e, input)
    BY DEF Telling
  <2> QED
    BY <1>5, <2>1, LastBlanksTellNothing
<1> HIDE DEF short, m
<1>7. Select(short, Says) = Only(short, Telling)
  <2>1. {i \in DOMAIN short : Says(short[i])} = PlacesOf(short, Telling)
    <3>1. \A i \in DOMAIN short : short[i] \in GitEntries
      BY <1>6
    <3> QED
      BY <3>1 DEF PlacesOf, Telling
  <2> QED
    BY <2>1 DEF Select, Only
<1>8. AtPlaces(Summaries, Summarised) = Summed[m]
  BY <1>1, SummedIs
<1> QED
  BY <1>4, <1>5, <1>6, <1>7, <1>8 DEF Summaries

-----------------------------------------------------------------------------
(* The registry and thlibo rewrite: what is known of the folders after some  *)
(* of them, and the command line that is wrapped.                            *)

\* What is known of a processor, and the states of a scan.
Processors == {LoadOne(folder, origin) : folder \in ProcessorFolders, origin \in {"builtin", "user"}}

AllNames == {d.name : d \in Processors}

ByNames == UNION {[names -> Processors] : names \in SUBSET AllNames}

RegistryWarnings == {<<"broken">>} \cup {<<"shadows", name>> : name \in AllNames}

RegistryStates == [byName : ByNames, warnings : Seq(RegistryWarnings)]

EmptyRegistry == [byName |-> <<>>, warnings |-> <<>>]

\* The name a folder's processor has.
NameOf(folder) == Described(folder).name

\* How often a list holds an element.
TimesIn(list, e) == Cardinality({n \in DOMAIN list : list[n] = e})

\* What is loaded from a folder.
LEMMA LoadedIs ==
  ASSUME NEW folder \in ProcessorFolders, NEW origin \in {"builtin", "user"}
  PROVE  /\ LoadOne(folder, origin) \in Processors
         /\ LoadOne(folder, origin).name = NameOf(folder)
         /\ LoadOne(folder, origin).origin = origin
         /\ LoadOne(folder, origin).commands = Described(folder).commands
         /\ LoadOne(folder, origin).prefixes = Described(folder).prefixes
         /\ Described(folder).prefixes \subseteq Seq(STRING)
<1>1. LoadOne(folder, origin) \in Processors
  BY DEF Processors
<1> DEFINE d == Described(folder)
<1>2. LoadOne(folder, origin) = [name |-> d.name, origin |-> origin, type |-> d.type, prompt |-> folder.md.body,
                                 commands |-> d.commands, prefixes |-> d.prefixes]
  BY DEF LoadOne
<1>3. d.prefixes \subseteq Seq(STRING)
  <2> DEFINE S == STRING
             P == SUBSET Seq(STRING)
             D == [file : {"missing", "torn", "read"}, name : S, type : S, entry : {"none", "plain", "path"},
                   body : BOOLEAN, match : S, commands : SUBSET S, prefixes : P]
  <2>1. folder.yaml \in D /\ folder.md \in D
    BY DEF ProcessorFolders, Descriptors
  <2> HIDE DEF S, P
  <2>2. folder.yaml.prefixes \in P /\ folder.md.prefixes \in P
    BY <2>1
  <2>3. d.prefixes \in {folder.yaml.prefixes, folder.md.prefixes}
    BY <2>1 DEF Described
  <2>4. d.prefixes \in P
    BY <2>2, <2>3
  <2> QED
    BY <2>4 DEF P
<1> HIDE DEF d
<1> QED
  BY <1>1, <1>2, <1>3 DEF d, NameOf

\* What is known under one name more.
LEMMA OneMoreName ==
  ASSUME NEW known \in ByNames, NEW d \in Processors
  PROVE  /\ Put(known, d) \in ByNames
         /\ DOMAIN Put(known, d) = DOMAIN known \cup {d.name}
         /\ Put(known, d)[d.name] = d
         /\ \A other \in DOMAIN known : other # d.name => Put(known, d)[other] = known[other]
<1> DEFINE S == AllNames
           P == Processors
           name == d.name
           more == Put(known, d)
<1>1. PICK names \in SUBSET S : known \in [names -> P]
  BY DEF ByNames
<1>2. name \in S
  BY DEF AllNames
<1>3. more = [x \in DOMAIN known \cup {name} |-> IF x = name THEN d ELSE known[x]]
  BY DEF Put
<1>4. d \in P
  OBVIOUS
<1> HIDE DEF S, P, name, more
<1>5. DOMAIN known = names /\ \A x \in names : known[x] \in P
  BY <1>1
<1>6. more \in [names \cup {name} -> P]
  BY <1>3, <1>4, <1>5
<1>7. names \cup {name} \in SUBSET S
  BY <1>1, <1>2
<1>8. more \in ByNames
  BY <1>6, <1>7 DEF ByNames, S, P
<1>9. DOMAIN more = DOMAIN known \cup {name}
  BY <1>3
<1>10. more[name] = d /\ \A other \in DOMAIN known : other # name => more[other] = known[other]
  BY <1>3
<1> QED
  BY <1>8, <1>9, <1>10 DEF more, name

\* How often it holds an element when one is added.
LEMMA OneTimeMore ==
  ASSUME NEW E, NEW list \in Seq(E), NEW e \in E, NEW x
  PROVE  /\ TimesIn(list, x) \in Nat
         /\ TimesIn(Append(list, e), x) = IF e = x THEN TimesIn(list, x) + 1 ELSE TimesIn(list, x)
<1> DEFINE k == Len(list)
           long == Append(list, e)
           A == {n \in DOMAIN list : list[n] = x}
           B == {n \in DOMAIN long : long[n] = x}
<1>1. k \in Nat /\ DOMAIN list = 1..k /\ DOMAIN long = 1..k + 1
  OBVIOUS
<1>2. long[k + 1] = e /\ \A n \in 1..k : long[n] = list[n]
  OBVIOUS
<1>3. \A n : n \in 1..k + 1 <=> n \in 1..k \/ n = k + 1
  BY <1>1
<1>4. IsFiniteSet(A) /\ Cardinality(A) \in Nat
  <2>1. IsFiniteSet(1..k)
    BY <1>1, FS_Interval
  <2>2. A \subseteq 1..k
    BY <1>1
  <2> QED
    BY <2>1, <2>2, FS_Subset, FS_CardinalityType
<1>5. k + 1 \notin A
  BY <1>1
<1> HIDE DEF k, long
<1>6. B = IF e = x THEN A \cup {k + 1} ELSE A
  BY <1>1, <1>2, <1>3
<1> HIDE DEF A, B
<1>7. Cardinality(A \cup {k + 1}) = Cardinality(A) + 1
  BY <1>4, <1>5, FS_AddElement
<1>8. Cardinality(B) = IF e = x THEN Cardinality(A) + 1 ELSE Cardinality(A)
  BY <1>6, <1>7
<1> QED
  BY <1>4, <1>8 DEF A, B, long, TimesIn

\* The builtins are scanned: none is broken, and each is known by its name.
BuiltinsOnCourse(r, n) ==
  /\ r \in RegistryStates
  /\ r.warnings = <<>>
  /\ DOMAIN r.byName = {NameOf(knob.builtin[i]) : i \in 1..n}
  /\ \A i \in 1..n : r.byName[NameOf(knob.builtin[i])] = LoadOne(knob.builtin[i], "builtin")

\* One more.
LEMMA BuiltinsStepOnCourse ==
  ASSUME BuiltinsLoad(knob.builtin), NEW r, NEW n \in Nat, n + 1 \in 1..Len(knob.builtin),
         BuiltinsOnCourse(r, n)
  PROVE  BuiltinsOnCourse(ScanFolder(r, knob.builtin[n + 1], "builtin"), n + 1)
<1> DEFINE b == knob.builtin
           folder == b[n + 1]
           d == LoadOne(folder, "builtin")
           more == Put(r.byName, d)
           t == ScanFolder(r, folder, "builtin")
<1>1. \A i \in 1..n : i \in 1..Len(b) /\ i # n + 1
  OBVIOUS
<1>2. DOMAIN b = 1..Len(b) /\ \A i \in DOMAIN b : b[i] \in ProcessorFolders
  BY DEF BuiltinsLoad
<1>3. folder \in ProcessorFolders /\ IsProcessor(folder) /\ Valid(Described(folder), "builtin")
  BY <1>2 DEF BuiltinsLoad
<1>4. d \in Processors /\ d.name = NameOf(folder)
  BY <1>3, LoadedIs
<1>5. \A i \in 1..n : NameOf(b[i]) # d.name
  BY <1>1, <1>2, <1>4 DEF BuiltinsLoad, NameOf
<1>6. r.byName \in ByNames /\ r.warnings \in Seq(RegistryWarnings)
  BY DEF BuiltinsOnCourse, RegistryStates
<1>7. d.name \notin DOMAIN r.byName
  BY <1>5 DEF BuiltinsOnCourse
<1>8. t = [byName |-> more, warnings |-> r.warnings]
  <2>1. "builtin" # "user"
    OBVIOUS
  <2> HIDE DEF more
  <2> QED
    BY <1>3, <1>7, <2>1 DEF ScanFolder, more
<1> HIDE DEF d, t
<1>9. /\ more \in ByNames /\ DOMAIN more = DOMAIN r.byName \cup {d.name} /\ more[d.name] = d
      /\ \A other \in DOMAIN r.byName : other # d.name => more[other] = r.byName[other]
  BY <1>4, <1>6, OneMoreName
<1> HIDE DEF more
<1>10. t \in RegistryStates /\ t.warnings = r.warnings /\ t.byName = more
  BY <1>6, <1>8, <1>9 DEF RegistryStates
<1>11. \A i : i \in 1..n + 1 <=> i \in 1..n \/ i = n + 1
  OBVIOUS
<1>12. DOMAIN more = {NameOf(b[i]) : i \in 1..n + 1}
  <2>1. DOMAIN r.byName = {NameOf(b[i]) : i \in 1..n}
    BY DEF BuiltinsOnCourse
  <2> HIDE DEF b
  <2>2. {NameOf(b[i]) : i \in 1..n + 1} = {NameOf(b[i]) : i \in 1..n} \cup {NameOf(b[n + 1])}
    BY <1>11
  <2> QED
    BY <1>4, <1>9, <2>1, <2>2
<1>13. ASSUME NEW i \in 1..n + 1 PROVE more[NameOf(b[i])] = LoadOne(b[i], "builtin")
  <2>1. CASE i = n + 1
    BY <1>4, <1>9, <2>1 DEF d
  <2>2. CASE i \in 1..n
    <3>1. NameOf(b[i]) \in DOMAIN r.byName /\ r.byName[NameOf(b[i])] = LoadOne(b[i], "builtin")
      BY <2>2 DEF BuiltinsOnCourse
    <3> QED
      BY <1>5, <1>9, <2>2, <3>1
  <2> QED
    BY <1>11, <2>1, <2>2
<1>14. BuiltinsOnCourse(t, n + 1)
  BY <1>10, <1>12, <1>13 DEF BuiltinsOnCourse
<1> QED
  BY <1>14 DEF t

\* The states of a scan, folder after folder.
FoldersAfter(folders, origin, start) ==
  CHOOSE after : after = [n \in 0..Len(folders) |->
    IF n = 0 THEN start ELSE ScanFolder(after[n - 1], folders[n], origin)]

\* A scan whose every step stays on a course is on it at the end.
LEMMA FoldersRead ==
  ASSUME NEW F, NEW folders \in Seq(F), NEW origin, NEW start,
         NEW C, C \subseteq RegistryStates \X (0..Len(folders)), <<start, 0>> \in C,
         \A r, n : <<r, n>> \in C /\ n < Len(folders) => <<ScanFolder(r, folders[n + 1], origin), n + 1>> \in C
  PROVE  <<FoldersAfter(folders, origin, start)[Len(folders)], Len(folders)>> \in C
<1> DEFINE m == Len(folders)
           f == FoldersAfter(folders, origin, start)
           Then(r, n) == ScanFolder(r, folders[n], origin)
           H == [p \in C |-> Then(p[1], p[2] + 1)]
<1>1. m \in Nat
  OBVIOUS
<1>2. \A r, n : <<r, n>> \in C => n \in 0..m /\ H[<<r, n>>] = Then(r, n + 1)
  OBVIOUS
<1>3. \A r, n : <<r, n>> \in C /\ n < m => <<Then(r, n + 1), n + 1>> \in C
  OBVIOUS
<1>4. C \subseteq RegistryStates \X (0..m) /\ <<start, 0>> \in C
  OBVIOUS
<1> HIDE DEF m, Then, H
<1>5. Leads(H, m, C)
  <2> SUFFICES ASSUME NEW p \in C, p[2] < m PROVE <<H[p], p[2] + 1>> \in C
    BY DEF Leads
  <2>1. p = <<p[1], p[2]>>
    BY <1>4
  <2> QED
    BY <1>2, <1>3, <2>1
<1>7. PICK g \in [0..m -> RegistryStates] :
        Follow(g, m, start, H, C) /\ \A n \in 0..m : <<g[n], n>> \in C
  BY <1>1, <1>4, <1>5, ACourse
<1>8. g = [n \in 0..m |-> IF n = 0 THEN start ELSE Then(g[n - 1], n)]
  <2>1. ASSUME NEW n \in 1..m PROVE g[n] = Then(g[n - 1], n)
    <3>1. (n - 1) + 1 = n /\ n - 1 \in 0..m
      BY <1>1
    <3>2. <<g[n - 1], n - 1>> \in C
      BY <1>7, <3>1
    <3>3. g[n] = H[<<g[n - 1], n - 1>>]
      BY <1>7, <3>2 DEF Follow
    <3>4. H[<<g[n - 1], n - 1>>] = Then(g[n - 1], (n - 1) + 1)
      BY <1>2, <3>2
    <3> QED
      BY <3>1, <3>3, <3>4
  <2>2. g[0] = start
    BY <1>7 DEF Follow
  <2> QED
    BY <1>7, <2>1, <2>2
<1>9. f = [n \in 0..m |-> IF n = 0 THEN start ELSE Then(f[n - 1], n)]
  BY <1>8 DEF FoldersAfter, Then, m
<1> HIDE DEF f
<1>10. Follow(f, m, start, H, C)
  <2>1. f[0] = start /\ \A n \in 1..m : f[n] = Then(f[n - 1], n)
    BY <1>1, <1>9
  <2>2. ASSUME NEW n \in 1..m, <<f[n - 1], n - 1>> \in C PROVE f[n] = H[<<f[n - 1], n - 1>>]
    <3>1. H[<<f[n - 1], n - 1>>] = Then(f[n - 1], (n - 1) + 1) /\ (n - 1) + 1 = n
      BY <1>2, <2>2
    <3> QED
      BY <2>1, <3>1
  <2> QED
    BY <2>1, <2>2 DEF Follow
<1>11. \A n \in 0..m : <<f[n], n>> \in C
  BY <1>1, <1>4, <1>5, <1>10, OnCourse
<1>12. <<f[m], m>> \in C
  BY <1>1, <1>11
<1> QED
  BY <1>12 DEF f, m

\* What the builtins leave.
BuiltinsScan == FoldersAfter(knob.builtin, "builtin", EmptyRegistry)[Len(knob.builtin)]

\* The registry is the scan of the builtins and then of the user's folders.
LEMMA RegistryIs ==
  ASSUME NEW users
  PROVE  Registry(knob.builtin, users) = FoldersAfter(users, "user", BuiltinsScan)[Len(users)]
BY DEF Registry, Scan, FoldersAfter, BuiltinsScan, EmptyRegistry

\* Nothing is known before the first folder.
LEMMA EmptyIsState == EmptyRegistry \in RegistryStates /\ DOMAIN EmptyRegistry.byName = {}
<1>1. <<>> \in [{} -> Processors] /\ DOMAIN <<>> = {}
  OBVIOUS
<1>2. <<>> \in ByNames
  BY <1>1 DEF ByNames
<1>3. <<>> \in Seq(RegistryWarnings)
  OBVIOUS
<1> QED
  BY <1>1, <1>2, <1>3 DEF EmptyRegistry, RegistryStates

\* The builtins are all known by their names.
LEMMA BuiltinsKnown ==
  ASSUME BuiltinsLoad(knob.builtin)
  PROVE  BuiltinsOnCourse(BuiltinsScan, Len(knob.builtin))
<1> DEFINE b == knob.builtin
           m == Len(b)
           C == {p \in RegistryStates \X (0..m) : BuiltinsOnCourse(p[1], p[2])}
<1>1. b \in Seq(ProcessorFolders) /\ m \in Nat
  BY DEF BuiltinsLoad
<1>2. BuiltinsOnCourse(EmptyRegistry, 0)
  <2>1. 1..0 = {}
    OBVIOUS
  <2>2. EmptyRegistry.warnings = <<>>
    BY DEF EmptyRegistry
  <2> QED
    BY <2>1, <2>2, EmptyIsState DEF BuiltinsOnCourse
<1>3. \A r, n : <<r, n>> \in C <=> n \in 0..m /\ BuiltinsOnCourse(r, n)
  BY DEF BuiltinsOnCourse
<1>4. ASSUME NEW r, NEW n, <<r, n>> \in C, n < m PROVE <<ScanFolder(r, b[n + 1], "builtin"), n + 1>> \in C
  <2>1. n \in Nat /\ n + 1 \in 1..Len(b) /\ n + 1 \in 0..m /\ BuiltinsOnCourse(r, n)
    BY <1>1, <1>3, <1>4
  <2>2. BuiltinsOnCourse(ScanFolder(r, b[n + 1], "builtin"), n + 1)
    BY <2>1, BuiltinsStepOnCourse
  <2> QED
    BY <1>3, <2>1, <2>2
<1>5. C \subseteq RegistryStates \X (0..m) /\ <<EmptyRegistry, 0>> \in C
  BY <1>1, <1>2, <1>3
<1> HIDE DEF C
<1>6. <<BuiltinsScan, m>> \in C
  BY <1>1, <1>4, <1>5, FoldersRead DEF BuiltinsScan
<1> QED
  BY <1>3, <1>6

\* The folders of a user, up to a number, that load, and the names they have.
LoadedTo(users, n) == {i \in 1..n : Loads(users[i])}
NamesTo(users, n) == {NameOf(users[i]) : i \in LoadedTo(users, n)}

\* Those that do not.
BrokenTo(users, n) == {i \in 1..n : IsProcessor(users[i]) /\ ~Loads(users[i])}

\* So far each name stands for the last folder of it that loads, or the builtin,
\* and all is told.
UserOnCourse(users, r, n) ==
  /\ r \in RegistryStates
  /\ DOMAIN r.byName = BuiltinNames \cup NamesTo(users, n)
  /\ \A i \in LoadedTo(users, n) :
       (\A j \in LoadedTo(users, n) : NameOf(users[j]) = NameOf(users[i]) => j <= i)
         => r.byName[NameOf(users[i])] = LoadOne(users[i], "user")
  /\ \A i \in DOMAIN knob.builtin : NameOf(knob.builtin[i]) \notin NamesTo(users, n)
       => r.byName[NameOf(knob.builtin[i])] = LoadOne(knob.builtin[i], "builtin")
  /\ \A name \in NamesTo(users, n) : r.byName[name].origin = "user"
  /\ TimesIn(r.warnings, <<"broken">>) = Cardinality(BrokenTo(users, n))
  /\ \A name \in BuiltinNames :
       TimesIn(r.warnings, <<"shadows", name>>) = IF name \in NamesTo(users, n) THEN 1 ELSE 0

\* Before the first of them.
LEMMA UserStartOnCourse ==
  ASSUME BuiltinsLoad(knob.builtin), NEW users
  PROVE  UserOnCourse(users, BuiltinsScan, 0)
<1> DEFINE b == knob.builtin
           r == BuiltinsScan
<1>1. BuiltinsOnCourse(r, Len(b)) /\ DOMAIN b = 1..Len(b)
  BY BuiltinsKnown DEF BuiltinsLoad
<1>2. 1..0 = {}
  OBVIOUS
<1>3. LoadedTo(users, 0) = {} /\ NamesTo(users, 0) = {} /\ BrokenTo(users, 0) = {}
  BY <1>2 DEF LoadedTo, NamesTo, BrokenTo
<1>4. \A e : TimesIn(<<>>, e) = 0
  <2>1. \A e : {n \in DOMAIN <<>> : <<>>[n] = e} = {}
    OBVIOUS
  <2> QED
    BY <2>1, FS_EmptySet DEF TimesIn
<1>5. r.warnings = <<>> /\ r \in RegistryStates
  BY <1>1 DEF BuiltinsOnCourse
<1>6. DOMAIN r.byName = BuiltinNames
  BY <1>1 DEF BuiltinsOnCourse, BuiltinNames, NameOf
<1>7. \A i \in DOMAIN b : r.byName[NameOf(b[i])] = LoadOne(b[i], "builtin")
  BY <1>1 DEF BuiltinsOnCourse
<1>8. Cardinality({}) = 0
  BY FS_EmptySet
<1> HIDE DEF r, b
<1> QED
  BY <1>3, <1>4, <1>5, <1>6, <1>7, <1>8 DEF UserOnCourse, r, b

\* One folder more, of those that load or that do not.
LEMMA OneFolderMore ==
  ASSUME NEW users \in Seq(ProcessorFolders), NEW n \in Nat, n + 1 \in 1..Len(users)
  PROVE  /\ Loads(users[n + 1]) =>
              /\ LoadedTo(users, n + 1) = LoadedTo(users, n) \cup {n + 1}
              /\ NamesTo(users, n + 1) = NamesTo(users, n) \cup {NameOf(users[n + 1])}
              /\ BrokenTo(users, n + 1) = BrokenTo(users, n)
         /\ ~Loads(users[n + 1]) =>
              /\ LoadedTo(users, n + 1) = LoadedTo(users, n)
              /\ NamesTo(users, n + 1) = NamesTo(users, n)
              /\ BrokenTo(users, n + 1) =
                   IF IsProcessor(users[n + 1]) THEN BrokenTo(users, n) \cup {n + 1} ELSE BrokenTo(users, n)
         /\ n + 1 \notin BrokenTo(users, n) /\ IsFiniteSet(BrokenTo(users, n))
<1>1. \A i : i \in 1..n + 1 <=> i \in 1..n \/ i = n + 1
  OBVIOUS
<1>2. n + 1 \notin 1..n
  OBVIOUS
<1>3. IsFiniteSet(BrokenTo(users, n))
  <2>1. IsFiniteSet(1..n)
    BY FS_Interval
  <2>2. BrokenTo(users, n) \subseteq 1..n
    BY DEF BrokenTo
  <2> QED
    BY <2>1, <2>2, FS_Subset
<1>4. LoadedTo(users, n + 1) =
        IF Loads(users[n + 1]) THEN LoadedTo(users, n) \cup {n + 1} ELSE LoadedTo(users, n)
  BY <1>1 DEF LoadedTo
<1>5. BrokenTo(users, n + 1) =
        IF IsProcessor(users[n + 1]) /\ ~Loads(users[n + 1])
        THEN BrokenTo(users, n) \cup {n + 1} ELSE BrokenTo(users, n)
  BY <1>1 DEF BrokenTo
<1>6. n + 1 \notin BrokenTo(users, n)
  BY <1>2 DEF BrokenTo
<1> QED
  BY <1>3, <1>4, <1>5, <1>6 DEF NamesTo

\* A folder without a processor changes nothing.
LEMMA UserStepNothing ==
  ASSUME NEW users \in Seq(ProcessorFolders), NEW r, NEW n \in Nat, n + 1 \in 1..Len(users),
         UserOnCourse(users, r, n), ~IsProcessor(users[n + 1])
  PROVE  UserOnCourse(users, ScanFolder(r, users[n + 1], "user"), n + 1)
<1>1. ScanFolder(r, users[n + 1], "user") = r
  BY DEF ScanFolder
<1>2. ~Loads(users[n + 1])
  BY DEF Loads
<1>3. /\ LoadedTo(users, n + 1) = LoadedTo(users, n) /\ NamesTo(users, n + 1) = NamesTo(users, n)
      /\ BrokenTo(users, n + 1) = BrokenTo(users, n)
  BY <1>2, OneFolderMore
<1> QED
  BY <1>1, <1>3 DEF UserOnCourse

\* A broken one is told, and nothing else.
LEMMA UserStepBroken ==
  ASSUME NEW users \in Seq(ProcessorFolders), NEW r, NEW n \in Nat, n + 1 \in 1..Len(users),
         UserOnCourse(users, r, n), IsProcessor(users[n + 1]), ~Loads(users[n + 1])
  PROVE  UserOnCourse(users, ScanFolder(r, users[n + 1], "user"), n + 1)
<1> DEFINE e == <<"broken">>
           t == ScanFolder(r, users[n + 1], "user")
<1>1. t = [r EXCEPT !.warnings = Append(@, e)]
  BY DEF ScanFolder, Loads
<1>2. r.byName \in ByNames /\ r.warnings \in Seq(RegistryWarnings) /\ r = [byName |-> r.byName, warnings |-> r.warnings]
  BY DEF UserOnCourse, RegistryStates
<1>3. e \in RegistryWarnings /\ \A name : <<"shadows", name>> # e
  BY DEF RegistryWarnings
<1>4. t.byName = r.byName /\ t.warnings = Append(r.warnings, e)
  BY <1>1, <1>2
<1>5. t \in RegistryStates
  <2> DEFINE more == Append(r.warnings, e)
  <2>1. t = [byName |-> r.byName, warnings |-> more]
    BY <1>1, <1>2
  <2>2. more \in Seq(RegistryWarnings)
    BY <1>2, <1>3
  <2> HIDE DEF t, more
  <2>3. r.byName \in ByNames
    BY <1>2
  <2> QED
    BY <2>1, <2>2, <2>3 DEF RegistryStates
<1>6. /\ LoadedTo(users, n + 1) = LoadedTo(users, n) /\ NamesTo(users, n + 1) = NamesTo(users, n)
      /\ BrokenTo(users, n + 1) = BrokenTo(users, n) \cup {n + 1}
      /\ n + 1 \notin BrokenTo(users, n) /\ IsFiniteSet(BrokenTo(users, n))
  BY OneFolderMore
<1>7. Cardinality(BrokenTo(users, n + 1)) = Cardinality(BrokenTo(users, n)) + 1
  BY <1>6, FS_AddElement
<1> HIDE DEF e, t
<1>8. TimesIn(t.warnings, e) = TimesIn(r.warnings, e) + 1
  BY <1>2, <1>3, <1>4, OneTimeMore
<1>9. \A name : TimesIn(t.warnings, <<"shadows", name>>) = TimesIn(r.warnings, <<"shadows", name>>)
  BY <1>2, <1>3, <1>4, OneTimeMore
<1>10. TimesIn(t.warnings, e) = Cardinality(BrokenTo(users, n + 1))
  BY <1>7, <1>8 DEF UserOnCourse, e
<1> QED
  BY <1>4, <1>5, <1>6, <1>9, <1>10 DEF UserOnCourse, e, t

\* One that loads takes its name; a builtin that had it is told of.
LEMMA UserStepLoads ==
  ASSUME BuiltinsLoad(knob.builtin),
         NEW users \in Seq(ProcessorFolders), NEW r, NEW n \in Nat, n + 1 \in 1..Len(users),
         UserOnCourse(users, r, n), Loads(users[n + 1])
  PROVE  UserOnCourse(users, ScanFolder(r, users[n + 1], "user"), n + 1)
<1> DEFINE b == knob.builtin
           folder == users[n + 1]
           name == NameOf(folder)
           d == LoadOne(folder, "user")
           more == Put(r.byName, d)
           e == <<"shadows", name>>
           told == name \in BuiltinNames /\ name \notin NamesTo(users, n)
           t == ScanFolder(r, folder, "user")
<1>1. folder \in ProcessorFolders
  OBVIOUS
<1>2. d \in Processors /\ d.name = name /\ d.origin = "user"
  BY <1>1, LoadedIs
<1>3. r.byName \in ByNames /\ r.warnings \in Seq(RegistryWarnings) /\ r \in RegistryStates
  BY DEF UserOnCourse, RegistryStates
<1>4. DOMAIN r.byName = BuiltinNames \cup NamesTo(users, n)
  BY DEF UserOnCourse
<1>5. ASSUME NEW i \in DOMAIN b PROVE LoadOne(b[i], "builtin").origin = "builtin"
  <2>1. b[i] \in ProcessorFolders
    BY <1>5 DEF BuiltinsLoad
  <2> QED
    BY <2>1, LoadedIs
<1>6. (name \in DOMAIN r.byName /\ r.byName[name].origin = "builtin") <=> told
  <2>1. ASSUME name \in NamesTo(users, n) PROVE r.byName[name].origin = "user"
    BY <2>1 DEF UserOnCourse
  <2>2. ASSUME name \in BuiltinNames, name \notin NamesTo(users, n) PROVE r.byName[name].origin = "builtin"
    <3>1. PICK i \in DOMAIN b : name = NameOf(b[i])
      BY <2>2 DEF BuiltinNames, NameOf
    <3>2. r.byName[name] = LoadOne(b[i], "builtin")
      BY <2>2, <3>1 DEF UserOnCourse
    <3> QED
      BY <1>5, <3>2
  <2>3. "builtin" # "user"
    OBVIOUS
  <2> HIDE DEF name
  <2> QED
    BY <1>4, <2>1, <2>2, <2>3
<1> DEFINE warned == IF told THEN Append(r.warnings, e) ELSE r.warnings
<1>7. t = [byName |-> more, warnings |-> warned]
  <2>1. IsProcessor(folder) /\ Valid(Described(folder), "user") /\ "user" # "builtin"
    BY DEF Loads
  <2>2. (d.name \in DOMAIN r.byName /\ r.byName[d.name].origin = "builtin") <=> told
    BY <1>2, <1>6
  <2> HIDE DEF more, told
  <2>3. t = [byName |-> more,
             warnings |-> IF told THEN Append(r.warnings, <<"shadows", d.name>>) ELSE r.warnings]
    BY <2>1, <2>2 DEF ScanFolder, more
  <2> QED
    BY <1>2, <2>3
<1>8. /\ more \in ByNames /\ DOMAIN more = DOMAIN r.byName \cup {name} /\ more[name] = d
      /\ \A other \in DOMAIN r.byName : other # name => more[other] = r.byName[other]
  <2>1. d \in Processors /\ r.byName \in ByNames /\ d.name = name
    BY <1>2, <1>3
  <2> HIDE DEF d, name
  <2>2. /\ more \in ByNames /\ DOMAIN more = DOMAIN r.byName \cup {d.name} /\ more[d.name] = d
        /\ \A other \in DOMAIN r.byName : other # d.name => more[other] = r.byName[other]
    BY <2>1, OneMoreName
  <2> HIDE DEF more
  <2> QED
    BY <2>1, <2>2
<1>9. /\ LoadedTo(users, n + 1) = LoadedTo(users, n) \cup {n + 1}
      /\ NamesTo(users, n + 1) = NamesTo(users, n) \cup {name}
      /\ BrokenTo(users, n + 1) = BrokenTo(users, n)
  BY OneFolderMore
<1>10. e \in RegistryWarnings /\ e # <<"broken">>
  <2>1. name \in AllNames
    BY <1>2 DEF AllNames
  <2> HIDE DEF name
  <2> QED
    BY <2>1 DEF RegistryWarnings
<1> HIDE DEF d, more, t, told
<1>11. warned \in Seq(RegistryWarnings)
  BY <1>3, <1>10
<1>12. t \in RegistryStates /\ t.byName = more /\ t.warnings = warned
  <2> HIDE DEF warned
  <2> QED
    BY <1>7, <1>8, <1>11 DEF RegistryStates
<1>13. DOMAIN t.byName = BuiltinNames \cup NamesTo(users, n + 1)
  BY <1>4, <1>8, <1>9, <1>12
<1>14. ASSUME NEW i \in LoadedTo(users, n + 1),
              \A j \in LoadedTo(users, n + 1) : NameOf(users[j]) = NameOf(users[i]) => j <= i
       PROVE  t.byName[NameOf(users[i])] = LoadOne(users[i], "user")
  <2>1. CASE i = n + 1
    BY <1>8, <1>12, <2>1 DEF d
  <2>2. CASE i \in LoadedTo(users, n)
    <3>1. i \in 1..n /\ ~(n + 1 <= i)
      BY <2>2 DEF LoadedTo
    <3>2. NameOf(users[i]) # name
      BY <1>9, <1>14, <3>1
    <3>3. r.byName[NameOf(users[i])] = LoadOne(users[i], "user")
      BY <1>9, <1>14, <2>2 DEF UserOnCourse
    <3>4. NameOf(users[i]) \in DOMAIN r.byName
      BY <1>4, <2>2 DEF NamesTo
    <3> QED
      BY <1>8, <1>12, <3>2, <3>3, <3>4
  <2> QED
    BY <1>9, <2>1, <2>2
<1>15. ASSUME NEW i \in DOMAIN b, NameOf(b[i]) \notin NamesTo(users, n + 1)
       PROVE  t.byName[NameOf(b[i])] = LoadOne(b[i], "builtin")
  <2>1. NameOf(b[i]) # name /\ NameOf(b[i]) \notin NamesTo(users, n)
    BY <1>9, <1>15
  <2>2. r.byName[NameOf(b[i])] = LoadOne(b[i], "builtin")
    BY <2>1 DEF UserOnCourse
  <2>3. NameOf(b[i]) \in DOMAIN r.byName
    BY <1>4 DEF BuiltinNames, NameOf
  <2> QED
    BY <1>8, <1>12, <2>1, <2>2, <2>3
<1>16. ASSUME NEW other \in NamesTo(users, n + 1) PROVE t.byName[other].origin = "user"
  <2>1. CASE other = name
    BY <1>2, <1>8, <1>12, <2>1
  <2>2. CASE other # name
    <3>1. other \in NamesTo(users, n)
      BY <1>9, <2>2
    <3>2. r.byName[other].origin = "user" /\ other \in DOMAIN r.byName
      BY <1>4, <3>1 DEF UserOnCourse
    <3> QED
      BY <1>8, <1>12, <2>2, <3>2
  <2> QED
    BY <2>1, <2>2
<1>17. TimesIn(t.warnings, <<"broken">>) = Cardinality(BrokenTo(users, n + 1))
  <2>1. TimesIn(t.warnings, <<"broken">>) = TimesIn(r.warnings, <<"broken">>)
    BY <1>3, <1>10, <1>12, OneTimeMore
  <2> QED
    BY <1>9, <2>1 DEF UserOnCourse
<1>18. ASSUME NEW other \in BuiltinNames
       PROVE  TimesIn(t.warnings, <<"shadows", other>>) = IF other \in NamesTo(users, n + 1) THEN 1 ELSE 0
  <2> DEFINE old == TimesIn(r.warnings, <<"shadows", other>>)
             new == TimesIn(t.warnings, <<"shadows", other>>)
  <2>1. old = IF other \in NamesTo(users, n) THEN 1 ELSE 0
    BY DEF UserOnCourse
  <2>2. new = IF told /\ other = name THEN old + 1 ELSE old
    <3>1. e = <<"shadows", other>> <=> other = name
      OBVIOUS
    <3>2. TimesIn(Append(r.warnings, e), <<"shadows", other>>) =
            IF e = <<"shadows", other>> THEN old + 1 ELSE old
      BY <1>3, <1>10, OneTimeMore
    <3>3. TimesIn(r.warnings, <<"shadows", other>>) = old
      OBVIOUS
    <3> HIDE DEF e, old
    <3> QED
      BY <1>12, <3>1, <3>2, <3>3
  <2> HIDE DEF old, new, name
  <2>3. CASE other = name
    <3>1. other \in NamesTo(users, n + 1)
      BY <1>9, <2>3
    <3> QED
      BY <2>1, <2>2, <2>3, <3>1 DEF told, new
  <2>4. CASE other # name
    <3>1. other \in NamesTo(users, n + 1) <=> other \in NamesTo(users, n)
      BY <1>9, <2>4
    <3> QED
      BY <2>1, <2>2, <2>4, <3>1 DEF new
  <2> QED
    BY <2>3, <2>4
<1>19. t \in RegistryStates
  BY <1>12
<1> HIDE DEF b
<1>20. UserOnCourse(users, t, n + 1)
  BY <1>13, <1>14, <1>15, <1>16, <1>17, <1>18, <1>19 DEF UserOnCourse, b
<1> QED
  BY <1>20 DEF t

\* The user's folders are all known by the last of each name.
LEMMA UserKnown ==
  ASSUME BuiltinsLoad(knob.builtin), NEW users \in Seq(ProcessorFolders)
  PROVE  UserOnCourse(users, Registry(knob.builtin, users), Len(users))
<1> DEFINE m == Len(users)
           C == {p \in RegistryStates \X (0..m) : UserOnCourse(users, p[1], p[2])}
<1>1. m \in Nat
  OBVIOUS
<1>2. UserOnCourse(users, BuiltinsScan, 0)
  BY UserStartOnCourse
<1>3. \A r, n : <<r, n>> \in C <=> n \in 0..m /\ UserOnCourse(users, r, n)
  BY DEF UserOnCourse
<1>4. ASSUME NEW r, NEW n, <<r, n>> \in C, n < m PROVE <<ScanFolder(r, users[n + 1], "user"), n + 1>> \in C
  <2>1. n \in Nat /\ n + 1 \in 1..Len(users) /\ n + 1 \in 0..m /\ UserOnCourse(users, r, n)
    BY <1>1, <1>3, <1>4
  <2>2. IsProcessor(users[n + 1]) \/ ~IsProcessor(users[n + 1])
    OBVIOUS
  <2>3. UserOnCourse(users, ScanFolder(r, users[n + 1], "user"), n + 1)
    BY <2>1, UserStepNothing, UserStepBroken, UserStepLoads
  <2> QED
    BY <1>3, <2>1, <2>3
<1>5. C \subseteq RegistryStates \X (0..m) /\ <<BuiltinsScan, 0>> \in C
  BY <1>1, <1>2, <1>3
<1> HIDE DEF C
<1>6. <<FoldersAfter(users, "user", BuiltinsScan)[m], m>> \in C
  BY <1>1, <1>4, <1>5, FoldersRead
<1> QED
  BY <1>3, <1>6, RegistryIs

\* What a name stands for is the last of the user's folders of that name, or the builtin.
LEMMA InstalledIs ==
  ASSUME BuiltinsLoad(knob.builtin), NEW users \in Seq(ProcessorFolders),
         NEW name \in BuiltinNames \cup NamesTo(users, Len(users))
  PROVE  /\ Registry(knob.builtin, users).byName[name] = Installed(name, users)
         /\ \/ \E i \in DOMAIN users : Installed(name, users) = LoadOne(users[i], "user")
            \/ \E i \in DOMAIN knob.builtin : Installed(name, users) = LoadOne(knob.builtin[i], "builtin")
<1> DEFINE b == knob.builtin
           m == Len(users)
           r == Registry(b, users)
           named == {i \in DOMAIN users : Loads(users[i]) /\ Described(users[i]).name = name}
           home == CHOOSE n \in DOMAIN b : Described(b[n]).name = name
<1>1. UserOnCourse(users, r, m)
  BY UserKnown
<1>2. m \in Nat /\ DOMAIN users = 1..m
  OBVIOUS
<1>3. \A i : i \in named <=> i \in LoadedTo(users, m) /\ NameOf(users[i]) = name
  BY <1>2 DEF LoadedTo, NameOf
<1>4. Installed(name, users) = IF named = {} THEN LoadOne(b[home], "builtin") ELSE LoadOne(users[Max(named)], "user")
  BY DEF Installed
<1> HIDE DEF r
<1>5. CASE named # {}
  <2>1. named \subseteq 1..m
    BY <1>2
  <2> HIDE DEF named
  <2>2. Max(named) \in named /\ \A i \in named : i <= Max(named)
    BY <1>2, <1>5, <2>1, MaxOf
  <2> DEFINE i == Max(named)
  <2>3. i \in LoadedTo(users, m) /\ NameOf(users[i]) = name
    BY <1>3, <2>2
  <2>4. \A j \in LoadedTo(users, m) : NameOf(users[j]) = NameOf(users[i]) => j <= i
    BY <1>3, <2>2, <2>3
  <2> HIDE DEF i
  <2>5. r.byName[name] = LoadOne(users[i], "user")
    BY <1>1, <2>3, <2>4 DEF UserOnCourse
  <2>6. i \in DOMAIN users
    BY <1>2, <2>3 DEF LoadedTo
  <2> QED
    BY <1>4, <1>5, <2>5, <2>6 DEF i, r
<1>6. CASE named = {}
  <2>1. name \notin NamesTo(users, m)
    BY <1>3, <1>6 DEF NamesTo
  <2>2. \E n \in DOMAIN b : Described(b[n]).name = name
    BY <2>1 DEF BuiltinNames
  <2>3. home \in DOMAIN b /\ NameOf(b[home]) = name
    BY <2>2 DEF NameOf
  <2> HIDE DEF home, named, b
  <2>4. r.byName[name] = LoadOne(b[home], "builtin")
    BY <1>1, <2>1, <2>3 DEF UserOnCourse, b
  <2> QED
    BY <1>4, <1>6, <2>3, <2>4 DEF r, b
<1> QED
  BY <1>5, <1>6

\* The registry is as it is told, for every folder a user has.
LEMMA RegistryIsTold ==
  ASSUME BuiltinsLoad(knob.builtin), NEW users \in Seq(ProcessorFolders)
  PROVE  RegistryTold(users)
<1> DEFINE m == Len(users)
           r == Registry(knob.builtin, users)
<1>1. UserOnCourse(users, r, m)
  BY UserKnown
<1>2. m \in Nat /\ DOMAIN users = 1..m
  OBVIOUS
<1>3. NamesLoaded(users) = NamesTo(users, m)
  BY <1>2 DEF NamesLoaded, NamesTo, LoadedTo, NameOf
<1>4. \A name \in BuiltinNames \cup NamesTo(users, m) : r.byName[name] = Installed(name, users)
  BY InstalledIs
<1>5. BrokenTo(users, m) = {i \in DOMAIN users : IsProcessor(users[i]) /\ ~Loads(users[i])}
  BY <1>2 DEF BrokenTo
<1> HIDE DEF r, m
<1>6. DOMAIN r.byName = BuiltinNames \cup NamesLoaded(users)
  BY <1>1, <1>3 DEF UserOnCourse
<1>7. \A name \in DOMAIN r.byName : r.byName[name] = Installed(name, users)
  BY <1>3, <1>4, <1>6
<1>8. Cardinality({n \in DOMAIN r.warnings : r.warnings[n] = <<"broken">>})
        = Cardinality({i \in DOMAIN users : IsProcessor(users[i]) /\ ~Loads(users[i])})
  BY <1>1, <1>5 DEF UserOnCourse, TimesIn
<1>9. \A name \in BuiltinNames :
        Cardinality({n \in DOMAIN r.warnings : r.warnings[n] = <<"shadows", name>>})
          = IF name \in NamesLoaded(users) THEN 1 ELSE 0
  BY <1>1, <1>3 DEF UserOnCourse, TimesIn
<1> QED
  BY <1>6, <1>7, <1>8, <1>9 DEF RegistryTold, r

\* A line whose first field is a word, on a line of its own: the word names the
\* program.
LEMMA WordIsProgram ==
  ASSUME NEW F, NEW line \in Seq(F), line # <<>>, line[1].kind = "word",
         \A i \in DOMAIN line : line[i].kind # "special",
         2 \in DOMAIN line => ~line[2].newline
  PROVE  Argv0(line) = 1 /\ TokenEnd(line, 1) = 1 /\ Program(line, 1) = line[1].base
<1>1. DOMAIN line = 1..Len(line) /\ Len(line) \in Nat /\ Len(line) >= 1 /\ 1 \in DOMAIN line
  OBVIOUS
<1>2. TokenStarts(line) \subseteq 1..Len(line) /\ 1 \in TokenStarts(line)
  BY <1>1 DEF TokenStarts
<1>3. Argv0(line) = 1
  <2> DEFINE named == {i \in TokenStarts(line) : line[i].kind # "assignment"}
  <2>1. named \subseteq Nat /\ 1 \in named /\ \A i \in named : ~(i < 1)
    BY <1>1, <1>2
  <2> HIDE DEF named
  <2>2. Min(named) = 1
    BY <2>1, MinIs
  <2>3. named # {}
    BY <2>1
  <2> QED
    BY <2>2, <2>3 DEF Argv0, named
<1>4. TokenEnd(line, 1) = 1
  <2> DEFINE J == {j \in TokenStarts(line) : j > 1} \cup {Len(line) + 1}
  <2>1. J \subseteq Nat /\ \A j \in J : ~(j < 2)
    BY <1>1, <1>2
  <2>2. 2 \in J
    <3>1. CASE Len(line) = 1
      BY <3>1
    <3>2. CASE Len(line) # 1
      <4>1. 2 \in DOMAIN line
        BY <1>1, <3>2
      <4>2. 2 \in TokenStarts(line)
        BY <4>1 DEF TokenStarts
      <4> QED
        BY <4>2
    <3> QED
      BY <3>1, <3>2
  <2> HIDE DEF J
  <2>3. Min(J) = 2
    BY <2>1, <2>2, MinIs
  <2> QED
    BY <2>3 DEF TokenEnd, J
<1> QED
  BY <1>3, <1>4 DEF Program

\* The fields of a simple line are its words.
LEMMA SimpleTokens ==
  ASSUME NEW line \in Seq(Fields), line # <<>>, Simple(line)
  PROVE  LET tokens == TokensFrom(line, 1)
         IN  /\ Argv0(line) = 1 /\ Program(line, 1) = line[1].base
             /\ tokens \in Seq(STRING) /\ Len(tokens) = Len(line)
             /\ \A n \in 1..Len(line) : tokens[n] = IF n = 1 THEN line[n].base ELSE line[n].text
<1> DEFINE m == Len(line)
           same == {j \in DOMAIN line : TokenEnd(line, 1) = 1 /\ Unquoted(line[j]) /\ line[j].text = line[1].text}
           Arg(j) == IF Unquoted(line[j]) THEN line[j].text ELSE "quoted"
           rest == IF same = {} THEN m ELSE Min(same)
           args == [n \in 1..m - rest |-> Arg(rest + n)]
           tokens == TokensFrom(line, 1)
<1>1. DOMAIN line = 1..m /\ m \in Nat /\ m >= 1 /\ 1 \in DOMAIN line
  OBVIOUS
<1>2. Argv0(line) = 1 /\ TokenEnd(line, 1) = 1 /\ Program(line, 1) = line[1].base
  <2>1. line[1].kind = "word" /\ \A i \in DOMAIN line : line[i].kind # "special" /\ ~line[i].newline
    BY <1>1 DEF Simple
  <2> QED
    BY <2>1, WordIsProgram
<1>3. rest = 1
  <2>1. same \subseteq Nat /\ 1 \in same /\ \A j \in same : ~(j < 1)
    BY <1>1, <1>2 DEF Simple
  <2> HIDE DEF same
  <2>2. Min(same) = 1
    BY <2>1, MinIs
  <2> QED
    BY <2>1, <2>2
<1>4. tokens = <<line[1].base>> \o args
  BY <1>2 DEF TokensFrom
<1>5. \A i \in 1..m : line[i].text \in STRING /\ line[i].base \in STRING
  <2> DEFINE S == STRING
             K == {"word", "assignment", "special"}
             F == [text : S, base : S, dir : BOOLEAN, kind : K, open : BOOLEAN, close : BOOLEAN, newline : BOOLEAN]
  <2>1. Fields = F
    BY DEF Fields
  <2>2. \A i \in 1..m : line[i] \in Fields
    BY <1>1
  <2> HIDE DEF S, K
  <2>3. \A field \in F : field.text \in S /\ field.base \in S
    OBVIOUS
  <2> HIDE DEF F
  <2>4. \A i \in 1..m : line[i].text \in S /\ line[i].base \in S
    BY <2>1, <2>2, <2>3
  <2> QED
    BY <2>4 DEF S
<1>6. args = [n \in 1..m - 1 |-> line[n + 1].text]
  <2>1. \A n \in 1..m - 1 : Arg(1 + n) = line[n + 1].text
    <3> SUFFICES ASSUME NEW n \in 1..m - 1 PROVE Arg(1 + n) = line[n + 1].text
      OBVIOUS
    <3>1. 1 + n = n + 1 /\ n + 1 \in DOMAIN line
      BY <1>1
    <3> QED
      BY <3>1 DEF Simple
  <2> HIDE DEF Arg, rest
  <2> QED
    BY <1>3, <2>1
<1> HIDE DEF args, tokens, rest
<1>7. args \in Seq(STRING) /\ Len(args) = m - 1
  <2>1. \A n \in 1..m - 1 : n + 1 \in 1..m
    BY <1>1
  <2> DEFINE S == STRING
  <2>2. \A n \in 1..m - 1 : line[n + 1].text \in S
    BY <1>5, <2>1
  <2> HIDE DEF S, m
  <2>3. args \in [1..m - 1 -> S] /\ m - 1 \in Nat
    BY <1>1, <1>6, <2>2
  <2>4. args \in Seq(S) /\ Len(args) = m - 1
    BY <2>3
  <2> QED
    BY <2>4 DEF S
<1>8. line[1].base \in STRING
  BY <1>1, <1>5
<1> HIDE DEF m
<1>9. tokens \in Seq(STRING) /\ Len(tokens) = m
  BY <1>1, <1>4, <1>7, <1>8
<1>10. ASSUME NEW n \in 1..m PROVE tokens[n] = IF n = 1 THEN line[n].base ELSE line[n].text
  <2>1. CASE n = 1
    BY <1>4, <1>7, <2>1
  <2>2. CASE n # 1
    <3>1. n - 1 \in 1..m - 1 /\ (n - 1) + 1 = n
      BY <1>1, <2>2
    <3>2. tokens[n] = args[n - 1]
      BY <1>1, <1>4, <1>7, <1>8, <2>2
    <3> QED
      BY <1>6, <2>2, <3>1, <3>2
  <2> QED
    BY <2>1, <2>2
<1> QED
  BY <1>2, <1>9, <1>10 DEF m, tokens

\* A prefix is the beginning of what it is a prefix of.
LEMMA PrefixIs ==
  ASSUME NEW E, NEW p \in Seq(E), NEW t \in Seq(E)
  PROVE  IsPrefix(p, t) <=> Len(p) <= Len(t) /\ \A n \in DOMAIN p : p[n] = t[n]
<1>1. CASE Len(p) <= Len(t)
  <2> DEFINE head == SubSeq(t, 1, Len(p))
             whole == SubSeq(p, 1, Len(p))
  <2>1. head \in Seq(E) /\ Len(head) = Len(p) /\ \A n \in 1..Len(p) : head[n] = t[n]
    BY <1>1
  <2>2. whole = p
    OBVIOUS
  <2> HIDE DEF head, whole
  <2>3. ASSUME \A n \in 1..Len(p) : p[n] = t[n] PROVE whole = head
    <3>1. \A n \in 1..Len(p) : p[n] = head[n]
      BY <2>1, <2>3
    <3>2. p \in Seq(E) /\ head \in Seq(E) /\ Len(p) = Len(head)
      BY <2>1
    <3> QED
      BY <2>2, <3>1, <3>2, SeqEqual
  <2>4. ASSUME whole = head PROVE \A n \in 1..Len(p) : p[n] = t[n]
    BY <2>1, <2>2, <2>4
  <2> QED
    BY <1>1, <2>3, <2>4 DEF IsPrefix, head, whole
<1>2. CASE ~(Len(p) <= Len(t))
  BY <1>2 DEF IsPrefix
<1> QED
  BY <1>1, <1>2

\* The length of two sequences, one after the other, and of three.
LEMMA TwoParts ==
  ASSUME NEW E, NEW a \in Seq(E), NEW b \in Seq(E)
  PROVE  a \o b \in Seq(E) /\ Len(a \o b) = Len(a) + Len(b) /\ Len(a) \in Nat /\ Len(b) \in Nat
OBVIOUS

LEMMA ThreeParts ==
  ASSUME NEW E, NEW a \in Seq(E), NEW b \in Seq(E), NEW c \in Seq(E)
  PROVE  /\ Len(a \o b \o c) = Len(a) + Len(b) + Len(c)
         /\ Len(a) \in Nat /\ Len(b) \in Nat /\ Len(c) \in Nat
<1> DEFINE ab == a \o b
<1>1. ab \in Seq(E) /\ Len(ab) = Len(a) + Len(b) /\ Len(a) \in Nat /\ Len(b) \in Nat
  BY TwoParts
<1> HIDE DEF ab
<1>2. Len(ab \o c) = Len(ab) + Len(c) /\ Len(c) \in Nat
  BY <1>1, TwoParts
<1> QED
  BY <1>1, <1>2 DEF ab

\* A wrapped line is longer than the line.
LEMMA WrappedOrNot ==
  ASSUME NEW line \in Seq(Fields), NEW self \in Seq(Fields), NEW r
  PROVE  LET i == Argv0(line)
         IN  Wrapped(line, r, self) # line <=>
               /\ line # <<>> /\ i # 0
               /\ Program(line, i) # "thlibo" /\ MatchCommandLine(r, TokensFrom(line, i))
<1> DEFINE i == Argv0(line)
           long == self \o <<Word("exec"), Word("--")>> \o line
           claimed == /\ line # <<>> /\ i # 0
                      /\ Program(line, i) # "thlibo" /\ MatchCommandLine(r, TokensFrom(line, i))
<1>1. Len(long) = Len(self) + 2 + Len(line) /\ Len(self) \in Nat /\ Len(line) \in Nat
  <2> DEFINE E == Fields \cup {Word("exec"), Word("--")}
             two == <<Word("exec"), Word("--")>>
  <2>1. self \in Seq(E) /\ line \in Seq(E)
    OBVIOUS
  <2>2. two \in Seq(E) /\ Len(two) = 2
    OBVIOUS
  <2> HIDE DEF two, E
  <2>3. Len(self \o two \o line) = Len(self) + Len(two) + Len(line)
        /\ Len(self) \in Nat /\ Len(line) \in Nat
    <3>1. \A x, y, z \in Seq(E) : /\ Len(x \o y \o z) = Len(x) + Len(y) + Len(z)
                                  /\ Len(x) \in Nat /\ Len(z) \in Nat
      BY ThreeParts
    <3> QED
      BY <2>1, <2>2, <3>1
  <2> QED
    BY <2>2, <2>3 DEF two
<1>2. long # line
  BY <1>1
<1>3. Wrapped(line, r, self) = IF claimed THEN long ELSE line
  BY DEF Wrapped
<1> HIDE DEF long, claimed
<1>4. Wrapped(line, r, self) # line <=> claimed
  BY <1>2, <1>3
<1> QED
  BY <1>4 DEF claimed


\* What is where, in three sequences one after the other.
LEMMA ThreePlaces ==
  ASSUME NEW E, NEW a \in Seq(E), NEW b \in Seq(E), NEW c \in Seq(E)
  PROVE  LET abc == a \o b \o c
             k == Len(a)
             m == Len(a) + Len(b)
         IN  /\ abc \in Seq(E) /\ Len(abc) = m + Len(c) /\ Len(c) \in Nat
             /\ \A n \in 1..k : abc[n] = a[n]
             /\ \A n \in k + 1..m : abc[n] = b[n - k]
             /\ \A n \in m + 1..Len(abc) : abc[n] = c[n - m]
<1> DEFINE ab == a \o b
           k == Len(a)
           m == Len(a) + Len(b)
<1>1. ab \in Seq(E) /\ Len(ab) = m /\ k \in Nat /\ Len(b) \in Nat
  BY TwoParts
<1>2. (\A n \in 1..k : ab[n] = a[n]) /\ \A n \in k + 1..m : ab[n] = b[n - k]
  OBVIOUS
<1> HIDE DEF ab
<1> DEFINE abc == ab \o c
<1>3. abc \in Seq(E) /\ Len(abc) = m + Len(c) /\ Len(c) \in Nat
  <2>1. \A x, y \in Seq(E) : x \o y \in Seq(E) /\ Len(x \o y) = Len(x) + Len(y) /\ Len(y) \in Nat
    BY TwoParts
  <2> HIDE DEF m
  <2> QED
    BY <1>1, <2>1
<1>4. \A x, y \in Seq(E) : /\ \A n \in 1..Len(x) : (x \o y)[n] = x[n]
                           /\ \A n \in Len(x) + 1..Len(x) + Len(y) : (x \o y)[n] = y[n - Len(x)]
  OBVIOUS
<1>5. (\A n \in 1..m : abc[n] = ab[n]) /\ \A n \in m + 1..m + Len(c) : abc[n] = c[n - m]
  BY <1>1, <1>4
<1> HIDE DEF abc
<1>6. \A n : (n \in 1..k => n \in 1..m) /\ (n \in k + 1..m => n \in 1..m)
  BY <1>1
<1>7. (\A n \in 1..k : abc[n] = a[n]) /\ \A n \in k + 1..m : abc[n] = b[n - k]
  BY <1>2, <1>5, <1>6
<1> QED
  BY <1>3, <1>5, <1>7 DEF abc, ab

\* The program comes first among the tokens.
LEMMA HeadOfTokens ==
  ASSUME NEW line, NEW i, Len(line) \in Nat
  PROVE  TokensFrom(line, i)[1] = Program(line, i)
<1> DEFINE same == {j \in DOMAIN line : TokenEnd(line, i) = i /\ Unquoted(line[j]) /\ line[j].text = line[i].text}
           Arg(j) == IF Unquoted(line[j]) THEN line[j].text ELSE "quoted"
           rest == IF same = {} THEN Len(line) ELSE Min(same)
           args == [n \in 1..Len(line) - rest |-> Arg(rest + n)]
<1>1. TokensFrom(line, i) = <<Program(line, i)>> \o args
  BY DEF TokensFrom
<1> QED
  BY <1>1

\* The first element of a prefix is that of the whole.
LEMMA FirstOfPrefix ==
  ASSUME NEW E, NEW p \in Seq(E), NEW t, p # <<>>, IsPrefix(p, t)
  PROVE  p[1] = t[1]
<1>1. SubSeq(p, 1, Len(p))[1] = SubSeq(t, 1, Len(p))[1] /\ 1 \in 1..Len(p)
  BY DEF IsPrefix
<1> QED
  BY <1>1

\* What an installed processor is for, some folder says.
LEMMA InstalledFrom ==
  ASSUME BuiltinsLoad(knob.builtin), NEW users \in Seq(ProcessorFolders),
         NEW name \in BuiltinNames \cup NamesLoaded(users)
  PROVE  LET d == Registry(knob.builtin, users).byName[name]
         IN  /\ d = Installed(name, users) /\ d.prefixes \subseteq Seq(STRING)
             /\ \/ \E i \in DOMAIN users : d.commands = Described(users[i]).commands
                                          /\ d.prefixes = Described(users[i]).prefixes
                \/ \E i \in DOMAIN knob.builtin : d.commands = Described(knob.builtin[i]).commands
                                                 /\ d.prefixes = Described(knob.builtin[i]).prefixes
<1> DEFINE d == Registry(knob.builtin, users).byName[name]
<1>1. NamesLoaded(users) = NamesTo(users, Len(users))
  <2>1. DOMAIN users = 1..Len(users)
    OBVIOUS
  <2> QED
    BY <2>1 DEF NamesLoaded, NamesTo, LoadedTo, NameOf
<1>2. /\ d = Installed(name, users)
      /\ \/ \E i \in DOMAIN users : d = LoadOne(users[i], "user")
         \/ \E i \in DOMAIN knob.builtin : d = LoadOne(knob.builtin[i], "builtin")
  BY <1>1, InstalledIs
<1> HIDE DEF d
<1>3. CASE \E i \in DOMAIN users : d = LoadOne(users[i], "user")
  <2>1. PICK i \in DOMAIN users : d = LoadOne(users[i], "user")
    BY <1>3
  <2>2. users[i] \in ProcessorFolders
    OBVIOUS
  <2>3. /\ d.commands = Described(users[i]).commands /\ d.prefixes = Described(users[i]).prefixes
        /\ Described(users[i]).prefixes \subseteq Seq(STRING)
    BY <2>1, <2>2, LoadedIs
  <2> QED
    BY <1>2, <2>3 DEF d
<1>4. CASE \E i \in DOMAIN knob.builtin : d = LoadOne(knob.builtin[i], "builtin")
  <2>1. PICK i \in DOMAIN knob.builtin : d = LoadOne(knob.builtin[i], "builtin")
    BY <1>4
  <2>2. knob.builtin[i] \in ProcessorFolders
    BY DEF BuiltinsLoad
  <2>3. /\ d.commands = Described(knob.builtin[i]).commands /\ d.prefixes = Described(knob.builtin[i]).prefixes
        /\ Described(knob.builtin[i]).prefixes \subseteq Seq(STRING)
    BY <2>1, <2>2, LoadedIs
  <2> QED
    BY <1>2, <2>3 DEF d
<1> QED
  BY <1>2, <1>3, <1>4

\* A simple line is matched if and only if an installed processor names it.
LEMMA MatchedIfClaimed ==
  ASSUME BuiltinsLoad(knob.builtin), NEW users \in Seq(ProcessorFolders),
         NEW line \in Seq(Fields), line # <<>>, Simple(line)
  PROVE  MatchCommandLine(Registry(knob.builtin, users), TokensFrom(line, 1)) <=> Claimed(line, users)
<1> DEFINE r == Registry(knob.builtin, users)
           tokens == TokensFrom(line, 1)
           names == BuiltinNames \cup NamesLoaded(users)
           Spelt(p) == Len(p) \in 1..Len(line) /\ \A n \in DOMAIN p :
                         p[n] = IF n = 1 THEN line[n].base ELSE line[n].text
<1>1. /\ tokens \in Seq(STRING) /\ Len(tokens) = Len(line)
      /\ \A n \in 1..Len(line) : tokens[n] = IF n = 1 THEN line[n].base ELSE line[n].text
  BY SimpleTokens
<1>2. Len(line) \in Nat /\ 1 \in 1..Len(line)
  OBVIOUS
<1>3. tokens[1] = line[1].base
  BY <1>1, <1>2
<1>4. DOMAIN r.byName = names
  BY RegistryIsTold DEF RegistryTold
<1>5. \A name \in names : r.byName[name] = Installed(name, users) /\ r.byName[name].prefixes \subseteq Seq(STRING)
  BY InstalledFrom
<1> HIDE DEF tokens, r, names
<1>6. ASSUME NEW p \in Seq(STRING) PROVE (p # <<>> /\ IsPrefix(p, tokens)) <=> Spelt(p)
  <2>1. IsPrefix(p, tokens) <=> Len(p) <= Len(tokens) /\ \A n \in DOMAIN p : p[n] = tokens[n]
    BY <1>1, PrefixIs
  <2>2. Len(p) \in Nat /\ DOMAIN p = 1..Len(p) /\ (p # <<>> <=> Len(p) >= 1)
    OBVIOUS
  <2>3. ASSUME Len(p) <= Len(line), NEW n \in DOMAIN p
        PROVE  tokens[n] = IF n = 1 THEN line[n].base ELSE line[n].text
    <3>1. n \in 1..Len(line)
      BY <1>2, <2>2, <2>3
    <3> QED
      BY <1>1, <3>1
  <2>4. Len(p) \in 1..Len(line) <=> Len(p) >= 1 /\ Len(p) <= Len(line)
    BY <1>2, <2>2
  <2> DEFINE starts == \A n \in DOMAIN p : p[n] = IF n = 1 THEN line[n].base ELSE line[n].text
  <2>5. Len(p) <= Len(line) => ((\A n \in DOMAIN p : p[n] = tokens[n]) <=> starts)
    BY <2>3
  <2>6. Spelt(p) <=> Len(p) \in 1..Len(line) /\ starts
    OBVIOUS
  <2> HIDE DEF Spelt, starts
  <2> QED
    BY <1>1, <2>1, <2>2, <2>4, <2>5, <2>6
<1> HIDE DEF Spelt
<1>7. MatchCommandLine(r, tokens) <=>
        \E name \in names : \/ \E p \in r.byName[name].prefixes : p # <<>> /\ IsPrefix(p, tokens)
                            \/ tokens[1] \in r.byName[name].commands
  BY <1>4 DEF MatchCommandLine
<1>8. Claimed(line, users) <=>
        \E name \in names : \/ line[1].base \in Installed(name, users).commands
                            \/ \E p \in Installed(name, users).prefixes : Spelt(p)
  BY DEF Claimed, names, Spelt
<1>9. ASSUME NEW name \in names
      PROVE  (\E p \in r.byName[name].prefixes : p # <<>> /\ IsPrefix(p, tokens))
               <=> \E p \in Installed(name, users).prefixes : Spelt(p)
  <2> DEFINE S == Seq(STRING)
             P == r.byName[name].prefixes
  <2>1. P \subseteq S /\ P = Installed(name, users).prefixes
    BY <1>5
  <2>2. \A p \in S : (p # <<>> /\ IsPrefix(p, tokens)) <=> Spelt(p)
    BY <1>6
  <2> HIDE DEF S, P
  <2>3. (\E p \in P : p # <<>> /\ IsPrefix(p, tokens)) <=> \E p \in P : Spelt(p)
    BY <2>1, <2>2
  <2> QED
    BY <2>1, <2>3 DEF P
<1>10. MatchCommandLine(r, tokens) <=> Claimed(line, users)
  BY <1>3, <1>5, <1>7, <1>8, <1>9
<1> QED
  BY <1>10 DEF r, tokens

\* A line that thlibo begins is not matched, whatever follows.
LEMMA OwnLineNotWrapped ==
  ASSUME BuiltinsLoad(knob.builtin), NEW users \in Seq(ProcessorFolders),
         NEW self, PathStandsAlone(self, knob.builtin \o users),
         NEW line \in Seq(Fields), \A i \in DOMAIN line : line[i].kind # "special"
  PROVE  LET long == self \o <<Word("exec"), Word("--")>> \o line
         IN  Wrapped(long, Registry(knob.builtin, users), self) = long
<1> DEFINE r == Registry(knob.builtin, users)
           E == Fields \cup {Word("exec"), Word("--")}
           two == <<Word("exec"), Word("--")>>
           long == self \o two \o line
           k == Len(self)
<1>1. self \in Seq(Fields) /\ self # <<>> /\ \A n \in 1..k : self[n].kind = "word" /\ ~self[n].newline
  BY DEF PathStandsAlone
<1>2. k \in Nat /\ k >= 1
  BY <1>1
<1>3. \A e \in {Word("exec"), Word("--")} : e.kind = "word" /\ ~e.newline
  BY DEF Word
<1>4. two \in Seq(E) /\ Len(two) = 2 /\ \A n \in 1..2 : two[n] \in {Word("exec"), Word("--")}
  OBVIOUS
<1>5. self \in Seq(E) /\ line \in Seq(E)
  BY <1>1
<1>6. \A n \in 1..Len(line) : line[n].kind # "special"
  OBVIOUS
<1> HIDE DEF two, E, long
<1>7. /\ long \in Seq(E) /\ Len(long) = k + 2 + Len(line) /\ Len(line) \in Nat
      /\ \A n \in 1..k : long[n] = self[n]
      /\ \A n \in k + 1..k + 2 : long[n] = two[n - k]
      /\ \A n \in k + 3..Len(long) : long[n] = line[n - (k + 2)]
  <2> DEFINE m == Len(self) + Len(two)
  <2>1. \A x, y, z \in Seq(E) :
          LET xyz == x \o y \o z
          IN  /\ xyz \in Seq(E) /\ Len(xyz) = Len(x) + Len(y) + Len(z) /\ Len(z) \in Nat
              /\ \A n \in 1..Len(x) : xyz[n] = x[n]
              /\ \A n \in Len(x) + 1..Len(x) + Len(y) : xyz[n] = y[n - Len(x)]
              /\ \A n \in Len(x) + Len(y) + 1..Len(xyz) : xyz[n] = z[n - (Len(x) + Len(y))]
    BY ThreePlaces
  <2>2. /\ long \in Seq(E) /\ Len(long) = m + Len(line) /\ Len(line) \in Nat
        /\ \A n \in 1..k : long[n] = self[n]
        /\ \A n \in k + 1..m : long[n] = two[n - k]
        /\ \A n \in m + 1..Len(long) : long[n] = line[n - m]
    BY <1>4, <1>5, <2>1 DEF long
  <2>3. m = k + 2 /\ m + 1 = k + 3
    BY <1>2, <1>4
  <2> HIDE DEF m
  <2> QED
    BY <2>2, <2>3
<1>8. \A n \in k + 1..k + 2 : long[n].kind = "word" /\ ~long[n].newline
  <2> SUFFICES ASSUME NEW n \in k + 1..k + 2 PROVE long[n].kind = "word" /\ ~long[n].newline
    OBVIOUS
  <2>1. n - k \in 1..2 /\ long[n] = two[n - k]
    BY <1>2, <1>7
  <2> QED
    BY <1>3, <1>4, <2>1
<1>9. \A n \in 1..k + 2 : long[n].kind = "word" /\ ~long[n].newline
  <2>1. \A n \in 1..k + 2 : n \in 1..k \/ n \in k + 1..k + 2
    BY <1>2
  <2> QED
    BY <1>1, <1>7, <1>8, <2>1
<1>10. \A n \in DOMAIN long : long[n].kind # "special"
  <2> SUFFICES ASSUME NEW n \in DOMAIN long PROVE long[n].kind # "special"
    OBVIOUS
  <2>1. n \in 1..k + 2 \/ n \in k + 3..Len(long)
    BY <1>2, <1>7
  <2>2. CASE n \in 1..k + 2
    BY <1>9, <2>2
  <2>3. CASE n \in k + 3..Len(long)
    <3>1. n - (k + 2) \in 1..Len(line) /\ long[n] = line[n - (k + 2)]
      BY <1>2, <1>7, <2>3
    <3> QED
      BY <1>6, <3>1
  <2> QED
    BY <2>1, <2>2, <2>3
<1>11. long # <<>> /\ 1 \in 1..k + 2 /\ 2 \in 1..k + 2 /\ 1 \in 1..k
  BY <1>2, <1>7
<1>12. Argv0(long) = 1 /\ TokenEnd(long, 1) = 1 /\ Program(long, 1) = self[1].base
  BY <1>7, <1>9, <1>10, <1>11, WordIsProgram
<1>13. CASE self[1].base = "thlibo"
  BY <1>12, <1>13 DEF Wrapped, long, two
<1>14. CASE self[1].base # "thlibo"
  <2> DEFINE tokens == TokensFrom(long, 1)
             all == knob.builtin \o users
  <2>1. tokens[1] = self[1].base
    <3>1. Len(long) \in Nat
      BY <1>2, <1>7
    <3> QED
      BY <1>12, <3>1, HeadOfTokens
  <2>2. \A n \in DOMAIN all : /\ self[1].base \notin Described(all[n]).commands
                             /\ \A p \in Described(all[n]).prefixes : p # <<>> => p[1] # self[1].base
    BY <1>14 DEF PathStandsAlone
  <2>3. /\ \A i \in DOMAIN knob.builtin : \E n \in DOMAIN all : all[n] = knob.builtin[i]
        /\ \A i \in DOMAIN users : \E n \in DOMAIN all : all[n] = users[i]
    <3>1. knob.builtin \in Seq(ProcessorFolders)
      BY DEF BuiltinsLoad
    <3>2. ToSet(all) = ToSet(knob.builtin) \cup ToSet(users)
      BY <3>1, HeldTogether
    <3> HIDE DEF all
    <3> QED
      BY <3>2 DEF ToSet
  <2> HIDE DEF all, tokens
  <2>5. ASSUME NEW name \in DOMAIN r.byName
        PROVE  /\ tokens[1] \notin r.byName[name].commands
               /\ \A p \in r.byName[name].prefixes : ~(p # <<>> /\ IsPrefix(p, tokens))
    <3> DEFINE d == r.byName[name]
    <3>1. name \in BuiltinNames \cup NamesLoaded(users)
      BY RegistryIsTold DEF RegistryTold
    <3>2. /\ d.prefixes \subseteq Seq(STRING)
          /\ \/ \E i \in DOMAIN users : d.commands = Described(users[i]).commands
                                       /\ d.prefixes = Described(users[i]).prefixes
             \/ \E i \in DOMAIN knob.builtin : d.commands = Described(knob.builtin[i]).commands
                                              /\ d.prefixes = Described(knob.builtin[i]).prefixes
      BY <3>1, InstalledFrom
    <3> HIDE DEF d, r
    <3>3. \E n \in DOMAIN all : d.commands = Described(all[n]).commands /\ d.prefixes = Described(all[n]).prefixes
      BY <2>3, <3>2
    <3>4. self[1].base \notin d.commands /\ \A p \in d.prefixes : p # <<>> => p[1] # self[1].base
      BY <2>2, <3>3
    <3>5. ASSUME NEW p \in d.prefixes, p # <<>>, IsPrefix(p, tokens) PROVE p[1] = tokens[1]
      <4>1. p \in Seq(STRING)
        BY <3>2
      <4> QED
        BY <3>5, <4>1, <2>1, FirstOfPrefix
    <3> QED
      BY <2>1, <3>4, <3>5 DEF d
  <2>6. ~MatchCommandLine(r, tokens)
    BY <2>5 DEF MatchCommandLine
  <2> HIDE DEF r
  <2>7. Wrapped(long, r, self) = long
    BY <1>12, <2>6 DEF Wrapped, tokens
  <2> QED
    BY <2>7 DEF r, long, two
<1> QED
  BY <1>13, <1>14 DEF long, two

\* What stands in the first of two sequences stands in both of them.
LEMMA FirstOfBoth ==
  ASSUME NEW S, NEW s \in Seq(S), NEW t \in Seq(S)
  PROVE  \A n \in DOMAIN s : n \in DOMAIN (s \o t) /\ (s \o t)[n] = s[n]
OBVIOUS

\* What is said of the user's folders holds of those that thlibo rewrite sees.
LEMMA SeenStandsAlone ==
  ASSUME knob.builtin \in Seq(ProcessorFolders), knob.user \in Seq(ProcessorFolders),
         PathStandsAlone(knob.self, knob.builtin \o knob.user)
  PROVE  FoldersSeen \in Seq(ProcessorFolders) /\ PathStandsAlone(knob.self, knob.builtin \o FoldersSeen)
<1>1. CASE knob.named
  BY <1>1 DEF FoldersSeen, NamedFolders
<1>2. CASE ~knob.named
  <2> DEFINE b == knob.builtin
             all == b \o knob.user
  <2>1. FoldersSeen = <<>> /\ b \o <<>> = b
    BY <1>2 DEF FoldersSeen, NamedFolders
  <2>2. \A n \in DOMAIN b : n \in DOMAIN all /\ all[n] = b[n]
    BY FirstOfBoth
  <2>3. PathStandsAlone(knob.self, all)
    OBVIOUS
  <2> HIDE DEF b, all
  <2>4. PathStandsAlone(knob.self, b)
    BY <2>2, <2>3 DEF PathStandsAlone
  <2> QED
    BY <2>1, <2>4 DEF b
<1> QED
  BY <1>1, <1>2

\* A line of words that does not begin with an assignment is started as it stands.
LEMMA StartedAsItStands ==
  ASSUME NEW E, NEW line \in Seq(E), line # <<>>, line[1].kind # "assignment"
  PROVE  Started(line) = [env |-> {}, argv |-> line]
<1> DEFINE words == {i \in DOMAIN line : line[i].kind # "assignment" \/ line[i].open}
           S == words \cup {Len(line) + 1}
<1>1. S \subseteq Nat /\ 1 \in S /\ \A n \in S : ~(n < 1)
  OBVIOUS
<1> HIDE DEF S
<1>2. Min(S) = 1
  BY <1>1, MinIs
<1>3. SubSeq(line, 1, Len(line)) = line /\ 1..1 - 1 = {}
  OBVIOUS
<1>4. Min(words \cup {Len(line) + 1}) = 1
  BY <1>2 DEF S
<1> HIDE DEF words
<1> QED
  BY <1>3, <1>4 DEF Started, words

\* What thlibo exec is handed of a wrapped line is the line.
LEMMA RestIsLine ==
  ASSUME NEW self \in Seq(Fields), self # <<>>, NEW line \in Seq(Fields)
  PROVE  LET wrapper == self \o <<Word("exec")>>
             long == self \o <<Word("exec"), Word("--")>> \o line
             rest == SubSeq(long, Len(wrapper) + 1, Len(long))
         IN  /\ long \in Seq(Fields \cup {Word("exec"), Word("--")}) /\ long # <<>> /\ long[1] = self[1]
             /\ IsPrefix(wrapper, long)
             /\ rest # <<>> /\ rest[1] = Word("--") /\ Tail(rest) = line
<1> DEFINE a == Word("exec")
           b == Word("--")
           E == Fields \cup {a, b}
           wrapper == self \o <<a>>
           two == <<a, b>>
           long == self \o two \o line
           k == Len(self)
           m == Len(line)
           rest == SubSeq(long, Len(wrapper) + 1, Len(long))
<1> HIDE DEF a, b
<1>1. self \in Seq(E) /\ line \in Seq(E) /\ a \in E /\ b \in E /\ k >= 1
  OBVIOUS
<1>2. two \in Seq(E) /\ Len(two) = 2 /\ two[1] = a /\ two[2] = b /\ k \in Nat /\ m \in Nat
  OBVIOUS
<1> HIDE DEF E
<1>3. /\ wrapper \in Seq(E) /\ Len(wrapper) = k + 1 /\ wrapper[k + 1] = a
      /\ \A n \in 1..k : wrapper[n] = self[n]
  BY <1>1
<1> HIDE DEF two, wrapper, long, rest
<1>4. /\ long \in Seq(E) /\ Len(long) = k + 2 + m
      /\ \A n \in 1..k : long[n] = self[n]
      /\ \A n \in k + 1..k + 2 : long[n] = two[n - k]
      /\ \A n \in k + 2 + 1..Len(long) : long[n] = line[n - (k + 2)]
  <2>1. \A x, y, z \in Seq(E) :
          LET xyz == x \o y \o z
          IN  /\ xyz \in Seq(E) /\ Len(xyz) = Len(x) + Len(y) + Len(z)
              /\ \A n \in 1..Len(x) : xyz[n] = x[n]
              /\ \A n \in Len(x) + 1..Len(x) + Len(y) : xyz[n] = y[n - Len(x)]
              /\ \A n \in Len(x) + Len(y) + 1..Len(xyz) : xyz[n] = z[n - (Len(x) + Len(y))]
    BY ThreePlaces
  <2> DEFINE n2 == k + Len(two)
  <2>2. /\ long \in Seq(E) /\ Len(long) = n2 + m
        /\ \A n \in 1..k : long[n] = self[n]
        /\ \A n \in k + 1..n2 : long[n] = two[n - k]
        /\ \A n \in n2 + 1..Len(long) : long[n] = line[n - n2]
    BY <1>1, <1>2, <2>1 DEF long
  <2>3. n2 = k + 2
    BY <1>2
  <2> HIDE DEF n2
  <2> QED
    BY <2>2, <2>3
<1>5. long[k + 1] = a /\ long[k + 2] = b
  <2>1. k + 1 \in k + 1..k + 2 /\ k + 2 \in k + 1..k + 2 /\ (k + 1) - k = 1 /\ (k + 2) - k = 2
    BY <1>2
  <2>2. long[k + 1] = two[1] /\ long[k + 2] = two[2]
    BY <1>4, <2>1
  <2> QED
    BY <1>2, <2>2
<1>6. IsPrefix(wrapper, long)
  <2>1. \A n \in DOMAIN wrapper : wrapper[n] = long[n]
    <3>1. \A n \in DOMAIN wrapper : n \in 1..k \/ n = k + 1
      BY <1>2, <1>3
    <3> QED
      BY <1>3, <1>4, <1>5, <3>1
  <2>2. Len(wrapper) <= Len(long)
    BY <1>2, <1>3, <1>4
  <2> QED
    BY <1>3, <1>4, <2>1, <2>2, PrefixIs
<1>7. /\ rest \in Seq(E) /\ Len(rest) = m + 1
      /\ \A n \in 1..m + 1 : rest[n] = long[k + 1 + n]
  BY <1>2, <1>3, <1>4 DEF rest
<1>8. rest # <<>> /\ rest[1] = b
  BY <1>2, <1>5, <1>7
<1>9. Tail(rest) = line
  <2> DEFINE t == Tail(rest)
  <2>1. t \in Seq(E) /\ Len(t) = m /\ \A n \in 1..m : t[n] = rest[n + 1]
    BY <1>2, <1>7
  <2> HIDE DEF t
  <2>2. ASSUME NEW n \in 1..m PROVE t[n] = line[n]
    <3>1. /\ n + 1 \in 1..m + 1 /\ k + 1 + (n + 1) = k + 2 + n
          /\ k + 2 + n \in k + 2 + 1..Len(long) /\ (k + 2 + n) - (k + 2) = n
      BY <1>2, <1>4
    <3> QED
      BY <1>4, <1>7, <2>1, <3>1
  <2>3. t = line
    BY <2>1, <2>2, SeqEqual
  <2> QED
    BY <2>3 DEF t
<1>10. long # <<>> /\ long[1] = self[1]
  BY <1>1, <1>2, <1>4
<1> QED
  BY <1>4, <1>6, <1>8, <1>9, <1>10 DEF E, a, b, wrapper, two, long, rest

\* A line is wrapped if and only if it is claimed, once only, and what is started
\* in the end is what stands in it.
LEMMA LineWrappedOnce ==
  ASSUME BuiltinsLoad(knob.builtin), FoldersSeen \in Seq(ProcessorFolders),
         PathStandsAlone(knob.self, knob.builtin \o FoldersSeen), input \in Seq(Fields)
  PROVE  /\ Simple(input) /\ input # <<>> =>
              (CommandLine # input <=> Claimed(input, FoldersSeen) /\ input[1].base # "thlibo")
         /\ Wrapped(CommandLine, Registry(knob.builtin, FoldersSeen), knob.self) = CommandLine
         /\ CommandLine # input /\ input[1].kind # "assignment" =>
              StartedInTheEnd(CommandLine) = Started(input)
<1> DEFINE self == knob.self
           users == FoldersSeen
           r == Registry(knob.builtin, users)
           line == input
           i == Argv0(line)
           long == self \o <<Word("exec"), Word("--")>> \o line
<1>1. self \in Seq(Fields) /\ users \in Seq(ProcessorFolders) /\ line \in Seq(Fields)
  BY DEF PathStandsAlone
<1>2. CommandLine = Wrapped(line, r, self)
  BY DEF CommandLine
<1>3. CommandLine # line <=> /\ line # <<>> /\ i # 0
                             /\ Program(line, i) # "thlibo" /\ MatchCommandLine(r, TokensFrom(line, i))
  BY <1>1, <1>2, WrappedOrNot
<1>4. ASSUME Simple(line), line # <<>>
      PROVE  CommandLine # line <=> Claimed(line, users) /\ line[1].base # "thlibo"
  <2>1. i = 1 /\ Program(line, 1) = line[1].base
    BY <1>1, <1>4, SimpleTokens
  <2>2. MatchCommandLine(r, TokensFrom(line, 1)) <=> Claimed(line, users)
    BY <1>1, <1>4, MatchedIfClaimed
  <2> HIDE DEF i, r, users
  <2> QED
    BY <1>3, <1>4, <2>1, <2>2
<1>5. Wrapped(CommandLine, r, self) = CommandLine
  <2>1. CASE CommandLine = line
    BY <1>2, <2>1
  <2>2. CASE CommandLine # line
    <3>1. \A n \in DOMAIN line : line[n].kind # "special"
      <4>1. i # 0
        BY <1>3, <2>2
      <4> QED
        BY <4>1 DEF Argv0
    <3>2. CommandLine = long
      <4> HIDE DEF r
      <4> QED
        BY <1>2, <2>2 DEF Wrapped
    <3>3. Wrapped(long, r, self) = long
      BY <1>1, <3>1, OwnLineNotWrapped
    <3> HIDE DEF long, r
    <3> QED
      BY <3>2, <3>3
  <2> QED
    BY <2>1, <2>2
<1>6. ASSUME CommandLine # line, line[1].kind # "assignment"
      PROVE  StartedInTheEnd(CommandLine) = Started(line)
  <2> DEFINE wrapper == self \o <<Word("exec")>>
             rest == SubSeq(long, Len(wrapper) + 1, Len(long))
  <2>1. CommandLine = long
    <3> HIDE DEF r
    <3> QED
      BY <1>2, <1>6 DEF Wrapped
  <2>2. line # <<>>
    BY <1>3, <1>6
  <2>3. self # <<>> /\ self[1].kind = "word"
    BY DEF PathStandsAlone
  <2>4. /\ long \in Seq(Fields \cup {Word("exec"), Word("--")}) /\ long # <<>> /\ long[1] = self[1]
        /\ IsPrefix(wrapper, long) /\ rest # <<>> /\ rest[1] = Word("--") /\ Tail(rest) = line
    BY <1>1, <2>3, RestIsLine
  <2> HIDE DEF long, wrapper, rest
  <2>5. Started(long) = [env |-> {}, argv |-> long]
    BY <2>3, <2>4, StartedAsItStands
  <2>6. Started(line) = [env |-> {}, argv |-> line]
    BY <1>1, <1>6, <2>2, StartedAsItStands
  <2>7. ExecStarts(rest) = line
    BY <2>4 DEF ExecStarts
  <2>8. StartedInTheEnd(long) = [env |-> {}, argv |-> ExecStarts(rest)]
    <3> DEFINE process == Started(long)
    <3>1. StartedInTheEnd(long) =
            IF IsPrefix(wrapper, process.argv)
            THEN [process EXCEPT !.argv = ExecStarts(SubSeq(@, Len(wrapper) + 1, Len(@)))]
            ELSE process
      BY DEF StartedInTheEnd, wrapper
    <3> HIDE DEF process
    <3>2. process = [env |-> {}, argv |-> long]
      BY <2>5 DEF process
    <3>3. process.argv = long
      BY <3>2
    <3>4. StartedInTheEnd(long) = [process EXCEPT !.argv = ExecStarts(SubSeq(@, Len(wrapper) + 1, Len(@)))]
      BY <2>4, <3>1, <3>3
    <3>5. StartedInTheEnd(long) = [process EXCEPT !.argv = ExecStarts(rest)]
      BY <3>3, <3>4 DEF rest
    <3> QED
      BY <3>2, <3>5
  <2> QED
    BY <2>1, <2>6, <2>7, <2>8
<1> QED
  BY <1>4, <1>5, <1>6

-----------------------------------------------------------------------------
(* tomlDocument.                                                             *)

\* Where each of the lists ends when they stand one behind the other.
EndWhere(ends, lists, whole) ==
  /\ ends \in [0..Len(lists) -> Nat]
  /\ ends[0] = 0 /\ ends[Len(lists)] = Len(whole)
  /\ \A n \in 1..Len(lists) :
       /\ ends[n] = ends[n - 1] + Len(lists[n])
       /\ \A k \in 1..Len(lists[n]) : whole[ends[n - 1] + k] = lists[n][k]

\* The elements of the n-th list follow where the one before it ends.
LEMMA ListsFollow ==
  ASSUME NEW E, NEW lists \in Seq(Seq(E))
  PROVE  FlattenSeq(lists) \in Seq(E) /\ \E ends : EndWhere(ends, lists, FlattenSeq(lists))
<1> DEFINE m == Len(lists)
           S == Seq(E)
           f == FlatUpTo(lists)
           flat == FlattenSeq(lists)
<1>1. m \in Nat /\ \A n \in 1..m : lists[n] \in S
  OBVIOUS
<1>2. CASE lists = <<>>
  <2>1. flat = <<>> /\ m = 0
    BY <1>2 DEF FlattenSeq
  <2> DEFINE ends == [n \in 0..0 |-> 0]
  <2>2. EndWhere(ends, lists, flat)
    BY <1>2, <2>1 DEF EndWhere
  <2>3. <<>> \in Seq(E)
    OBVIOUS
  <2> HIDE DEF ends
  <2> QED
    BY <2>1, <2>2, <2>3
<1>3. CASE lists # <<>>
  <2>1. m # 0
    BY <1>3
  <2>2. flat = f[m] /\ f[1] = lists[1] /\ \A n \in 2..m : f[n] = f[n - 1] \o lists[n]
    BY <1>3, FlatDef
  <2> HIDE DEF f, m, flat, S
  <2> DEFINE ends == [n \in 0..m |-> IF n = 0 THEN 0 ELSE Len(f[n])]
             Good(n) == /\ f[n] \in S
                        /\ \A p \in 1..n : /\ ends[p - 1] \in Nat /\ ends[p] \in Nat
                                           /\ ends[p] = ends[p - 1] + Len(lists[p])
                                           /\ ends[p] <= Len(f[n])
                                           /\ \A k \in 1..Len(lists[p]) : f[n][ends[p - 1] + k] = lists[p][k]
             T == {n \in Nat : n + 1 <= m => Good(n + 1)}
  <2>3. ends[0] = 0 /\ \A n \in 1..m : ends[n] = Len(f[n])
    BY <1>1
  <2>4. ends \in [0..m -> {ends[n] : n \in 0..m}]
    OBVIOUS
  <2> HIDE DEF ends
  <2>5. 0 \in T
    <3>1. 1 \in 1..m /\ 0 + 1 = 1 /\ 1 - 1 = 0
      BY <1>1, <2>1
    <3>2. f[1] \in S /\ Len(f[1]) \in Nat
      BY <1>1, <2>2, <3>1 DEF S
    <3>3. \A p \in 1..1 : p = 1
      OBVIOUS
    <3>4. Good(1)
      BY <2>2, <2>3, <3>1, <3>2, <3>3
    <3> QED
      BY <3>1, <3>4
  <2>6. ASSUME NEW n \in Nat, n \in T PROVE n + 1 \in T
    <3> SUFFICES ASSUME (n + 1) + 1 <= m PROVE Good((n + 1) + 1)
      OBVIOUS
    <3> DEFINE k == n + 1
    <3>1. k \in 1..m /\ k + 1 \in 2..m /\ (k + 1) - 1 = k /\ k + 1 \in 1..m /\ k \in Nat
      BY <1>1
    <3>2. Good(k)
      BY <2>6, <3>1
    <3> HIDE DEF k
    <3> DEFINE a == f[k]
               b == lists[k + 1]
    <3>3. f[k + 1] = a \o b /\ a \in S /\ b \in S
      BY <1>1, <2>2, <3>1, <3>2
    <3>4. /\ a \o b \in S /\ Len(a \o b) = Len(a) + Len(b) /\ Len(a) \in Nat /\ Len(b) \in Nat
          /\ \A i \in 1..Len(a) : (a \o b)[i] = a[i]
          /\ \A i \in 1..Len(b) : (a \o b)[Len(a) + i] = b[i]
      <4> HIDE DEF a, b
      <4> QED
        BY <3>3 DEF S
    <3> HIDE DEF a, b
    <3>5. ends[k] = Len(a) /\ ends[k + 1] = Len(a) + Len(b)
      BY <2>3, <3>1, <3>3, <3>4 DEF a
    <3>6. ASSUME NEW p \in 1..k + 1
          PROVE  /\ ends[p - 1] \in Nat /\ ends[p] \in Nat
                 /\ ends[p] = ends[p - 1] + Len(lists[p])
                 /\ ends[p] <= Len(a \o b)
                 /\ \A i \in 1..Len(lists[p]) : (a \o b)[ends[p - 1] + i] = lists[p][i]
      <4>1. CASE p = k + 1
        <5>1. p - 1 = k /\ lists[p] = b
          BY <3>1, <4>1 DEF b
        <5>2. ends[p - 1] = Len(a) /\ ends[p] = Len(a) + Len(b)
          BY <3>5, <4>1, <5>1
        <5>3. Len(a) + Len(b) <= Len(a \o b) /\ Len(a) + Len(b) \in Nat
          BY <3>4
        <5> QED
          BY <3>4, <5>1, <5>2, <5>3
      <4>2. CASE p # k + 1
        <5>1. p \in 1..k /\ p \in 1..m
          BY <1>1, <3>1, <4>2
        <5>2. /\ ends[p - 1] \in Nat /\ ends[p] \in Nat /\ ends[p] = ends[p - 1] + Len(lists[p])
              /\ ends[p] <= Len(a)
              /\ \A i \in 1..Len(lists[p]) : a[ends[p - 1] + i] = lists[p][i]
          BY <3>2, <5>1 DEF a
        <5>3. Len(lists[p]) \in Nat
          BY <1>1, <5>1 DEF S
        <5>4. \A i \in 1..Len(lists[p]) : ends[p - 1] + i \in 1..Len(a)
          BY <3>4, <5>2, <5>3
        <5> QED
          BY <3>4, <5>2, <5>4
      <4> QED
        BY <4>1, <4>2
    <3>7. Good(k + 1)
      BY <3>3, <3>4, <3>6
    <3> QED
      BY <3>7 DEF k
  <2>7. \A n \in Nat : n \in T
    <3> HIDE DEF T
    <3> QED
      BY <2>5, <2>6, Induction
  <2>8. Good(m)
    <3>1. m - 1 \in Nat /\ (m - 1) + 1 = m /\ m <= m
      BY <1>1, <2>1
    <3>2. m - 1 \in T
      <4> HIDE DEF T
      <4> QED
        BY <2>7, <3>1
    <3>3. (m - 1) + 1 <= m => Good((m - 1) + 1)
      BY <3>2
    <3> HIDE DEF Good
    <3> QED
      BY <3>1, <3>3
  <2>9. m \in 1..m
    BY <1>1, <2>1
  <2>10. \A n \in 0..m : ends[n] \in Nat
    <3>1. \A n \in 0..m : n = 0 \/ n \in 1..m
      BY <1>1
    <3> QED
      BY <2>3, <2>8, <3>1
  <2>11. EndWhere(ends, lists, flat)
    BY <2>2, <2>3, <2>4, <2>8, <2>9, <2>10 DEF EndWhere, m
  <2> HIDE DEF Good
  <2>12. flat \in Seq(E)
    BY <2>2, <2>8 DEF S, Good
  <2> QED
    BY <2>11, <2>12 DEF flat
<1> QED
  BY <1>2, <1>3

\* Lists with something in them end one after the other.
LEMMA EndsGrow ==
  ASSUME NEW E, NEW lists \in Seq(Seq(E)), \A n \in 1..Len(lists) : lists[n] # <<>>,
         NEW whole, NEW ends, EndWhere(ends, lists, whole)
  PROVE  \A p, q \in 0..Len(lists) : p < q => ends[p] < ends[q]
<1> DEFINE m == Len(lists)
           S == {n \in Nat : n \in 1..m => \A p \in 0..n - 1 : ends[p] < ends[n]}
<1>1. m \in Nat /\ \A n \in 1..m : Len(lists[n]) \in Nat /\ Len(lists[n]) > 0
  OBVIOUS
<1>2. \A n \in 0..m : ends[n] \in Nat
  BY DEF EndWhere
<1>3. \A n \in 1..m : ends[n] = ends[n - 1] + Len(lists[n])
  BY DEF EndWhere
<1> HIDE DEF m
<1>4. 0 \in S
  OBVIOUS
<1>5. ASSUME NEW n \in Nat, n \in S PROVE n + 1 \in S
  <2> SUFFICES ASSUME n + 1 \in 1..m, NEW p \in 0..n PROVE ends[p] < ends[n + 1]
    BY (n + 1) - 1 = n
  <2>1. (n + 1) - 1 = n /\ n \in 0..m /\ p \in 0..m /\ n + 1 \in 0..m
    BY <1>1
  <2>2. ends[n] < ends[n + 1]
    <3>1. ends[n + 1] = ends[n] + Len(lists[n + 1]) /\ ends[n] \in Nat
      BY <1>2, <1>3, <2>1
    <3>2. Len(lists[n + 1]) \in Nat /\ Len(lists[n + 1]) > 0
      BY <1>1
    <3> QED
      BY <3>1, <3>2
  <2>3. CASE p = n
    BY <2>2, <2>3
  <2>4. CASE p # n
    <3>1. p \in 0..n - 1 /\ n \in 1..m
      BY <1>1, <2>1, <2>4
    <3>2. ends[p] < ends[n]
      BY <1>5, <3>1
    <3> QED
      BY <1>2, <2>1, <2>2, <3>2
  <2> QED
    BY <2>3, <2>4
<1>6. \A n \in Nat : n \in S
  <2> HIDE DEF S
  <2> QED
    BY <1>4, <1>5, Induction
<1>7. ASSUME NEW p \in 0..m, NEW q \in 0..m, p < q PROVE ends[p] < ends[q]
  <2>1. q \in Nat /\ q \in 1..m /\ p \in 0..q - 1
    BY <1>1, <1>7
  <2> QED
    BY <1>6, <2>1
<1> QED
  BY <1>7 DEF m

\* The kinds of line that begin an entry with a value.
PairKinds == {"number", "string", "array", "multi"}

\* The value of an entry that stands behind line p ends with the entry.
LEMMA ValueEndIs ==
  ASSUME NEW e, IsTomlEntry(e), e[1] \in PairKinds,
         NEW lines \in Seq(TomlKinds), NEW p \in Nat, p + Len(e) <= Len(lines),
         \A k \in 1..Len(e) : lines[p + k] = e[k]
  PROVE  ValueEnd(lines, p + 1) = p + Len(e)
<1> DEFINE K == TomlKinds
           j == p + Len(e)
           ends == CASE lines[p + 1] = "array" -> {i \in (p + 1) + 1..Len(lines) : AreClosed(SubSeq(lines, p + 1, i))}
                     [] lines[p + 1] = "multi" -> {i \in (p + 1) + 1..Len(lines) : lines[i] \in {"quotes", "multi"}}
                     [] OTHER -> {p + 1}
<1>1. e \in Seq(K) /\ Len(e) \in Nat /\ Len(e) > 0 /\ Len(lines) \in Nat
  BY DEF IsTomlEntry
<1>2. lines[p + 1] = e[1]
  BY <1>1
<1>3. /\ e[1] = "array" => /\ Len(e) > 1 /\ AreClosed(e)
                           /\ \A n \in 1..Len(e) - 1 : ~AreClosed(SubSeq(e, 1, n))
      /\ e[1] = "multi" => /\ Len(e) > 1 /\ e[Len(e)] \in {"quotes", "multi"}
                           /\ \A n \in 2..Len(e) - 1 : e[n] \notin {"quotes", "multi"}
      /\ e[1] \notin {"array", "multi"} => Len(e) = 1
  BY DEF IsTomlEntry
<1> HIDE DEF K
<1>4. ASSUME e[1] = "array" PROVE ends = {i \in p + 2..Len(lines) : AreClosed(SubSeq(lines, p + 1, i))}
  <2>1. (p + 1) + 1 = p + 2
    OBVIOUS
  <2> QED
    BY <1>2, <1>4, <2>1
<1>5. ASSUME e[1] = "multi" PROVE ends = {i \in p + 2..Len(lines) : lines[i] \in {"quotes", "multi"}}
  <2>1. (p + 1) + 1 = p + 2
    OBVIOUS
  <2> QED
    BY <1>2, <1>5, <2>1
<1>6. e[1] \notin {"array", "multi"} => ends = {p + 1} /\ j = p + 1
  BY <1>2, <1>3
<1>7. j \in Nat /\ j <= Len(lines)
  BY <1>1
<1>8. ValueEnd(lines, p + 1) = IF ends = {} THEN 0 ELSE Min(ends)
  BY DEF ValueEnd
<1> HIDE DEF ends
<1>9. ASSUME NEW k \in 1..Len(e) PROVE SubSeq(lines, p + 1, p + k) = SubSeq(e, 1, k)
  <2> DEFINE a == SubSeq(lines, p + 1, p + k)
             b == SubSeq(e, 1, k)
  <2>1. a \in Seq(TomlKinds) /\ Len(a) = k /\ \A i \in 1..k : a[i] = lines[p + i]
    <3>1. p + 1 \in 1..Len(lines) /\ p + k \in 1..Len(lines)
      BY <1>1
    <3>2. a \in Seq(TomlKinds)
      BY <3>1
    <3>3. Len(a) = (p + k) - (p + 1) + 1
      BY <3>1
    <3>4. \A i \in 1..Len(a) : a[i] = lines[(p + 1) + i - 1]
      BY <3>1, <3>3
    <3>5. (p + k) - (p + 1) + 1 = k /\ \A i \in 1..k : (p + 1) + i - 1 = p + i
      OBVIOUS
    <3> HIDE DEF a
    <3> QED
      BY <3>2, <3>3, <3>4, <3>5
  <2>2. b \in Seq(K) /\ Len(b) = k /\ \A i \in 1..k : b[i] = e[i]
    BY <1>1
  <2>3. \A i \in 1..k : lines[p + i] = e[i]
    BY <1>1
  <2>4. Len(a) = Len(b) /\ \A i \in 1..Len(a) : a[i] = b[i]
    BY <2>1, <2>2, <2>3
  <2> HIDE DEF a, b
  <2>5. a \in Seq(K) /\ b \in Seq(K)
    BY <2>1, <2>2 DEF K
  <2>6. a = b
    BY <2>4, <2>5, SeqEqual
  <2> QED
    BY <2>6 DEF a, b
<1>10. SubSeq(e, 1, Len(e)) = e
  BY <1>1
<1>11. CASE e[1] = "array"
  <2>1. j \in ends
    <3>1. j \in p + 2..Len(lines) /\ Len(e) \in 1..Len(e)
      BY <1>1, <1>3, <1>7, <1>11
    <3>2. AreClosed(SubSeq(lines, p + 1, j))
      BY <1>3, <1>9, <1>10, <1>11, <3>1
    <3> QED
      BY <1>4, <1>11, <3>1, <3>2
  <2>2. ASSUME NEW i \in ends PROVE ~(i < j)
    <3> SUFFICES ASSUME i < j PROVE FALSE
      OBVIOUS
    <3>1. i \in p + 2..Len(lines) /\ AreClosed(SubSeq(lines, p + 1, i))
      BY <1>4, <1>11, <2>2
    <3>2. i - p \in 1..Len(e) - 1 /\ i - p \in 1..Len(e) /\ p + (i - p) = i
      BY <1>1, <3>1
    <3> QED
      BY <1>3, <1>9, <1>11, <3>1, <3>2
  <2>3. ends \subseteq Nat
    BY <1>1, <1>4, <1>11
  <2>4. Min(ends) = j
    BY <2>1, <2>2, <2>3, MinIs
  <2> QED
    BY <1>8, <2>1, <2>4
<1>12. CASE e[1] = "multi"
  <2>1. j \in ends
    <3>1. j \in p + 2..Len(lines) /\ Len(e) \in 1..Len(e)
      BY <1>1, <1>3, <1>7, <1>12
    <3>2. lines[j] = e[Len(e)]
      BY <3>1
    <3> QED
      BY <1>3, <1>5, <1>12, <3>1, <3>2
  <2>2. ASSUME NEW i \in ends PROVE ~(i < j)
    <3> SUFFICES ASSUME i < j PROVE FALSE
      OBVIOUS
    <3>1. i \in p + 2..Len(lines) /\ lines[i] \in {"quotes", "multi"}
      BY <1>5, <1>12, <2>2
    <3>2. i - p \in 2..Len(e) - 1 /\ i - p \in 1..Len(e) /\ p + (i - p) = i
      BY <1>1, <3>1
    <3>3. lines[i] = e[i - p]
      BY <3>2
    <3> QED
      BY <1>3, <1>12, <3>1, <3>2, <3>3
  <2>3. ends \subseteq Nat
    BY <1>1, <1>5, <1>12
  <2>4. Min(ends) = j
    BY <2>1, <2>2, <2>3, MinIs
  <2> QED
    BY <1>8, <2>1, <2>4
<1>13. CASE e[1] \notin {"array", "multi"}
  <2>1. ends = {j} /\ j \in {j} /\ {j} \subseteq Nat /\ \A i \in {j} : ~(i < j)
    BY <1>6, <1>7, <1>13
  <2>2. Min({j}) = j
    <3> HIDE DEF j
    <3> QED
      BY <2>1, MinIs
  <2> QED
    BY <1>8, <2>1, <2>2
<1> QED
  BY <1>11, <1>12, <1>13

\* The entries of a file.
TomlEntries == {e \in Seq(TomlKinds) : IsTomlEntry(e)}

\* The first n entries, those that begin with a line of these kinds.
BegunBy(kinds, n) == {k \in 1..n : input[k][1] \in kinds}

\* How many there are when one more is read.
LEMMA OneMoreBegun ==
  ASSUME NEW kinds, NEW n \in Nat
  PROVE  /\ Cardinality(BegunBy(kinds, n)) \in Nat
         /\ Cardinality(BegunBy(kinds, n + 1))
              = IF input[n + 1][1] \in kinds THEN Cardinality(BegunBy(kinds, n)) + 1
                ELSE Cardinality(BegunBy(kinds, n))
<1> DEFINE A == BegunBy(kinds, n)
           B == BegunBy(kinds, n + 1)
<1>1. IsFiniteSet(A) /\ Cardinality(A) \in Nat
  <2>1. IsFiniteSet(1..n) /\ A \subseteq 1..n
    BY FS_Interval DEF BegunBy
  <2> QED
    BY <2>1, FS_Subset, FS_CardinalityType
<1>2. n + 1 \notin A
  BY DEF BegunBy
<1>3. \A k : k \in 1..n + 1 <=> k \in 1..n \/ k = n + 1
  OBVIOUS
<1>4. B = IF input[n + 1][1] \in kinds THEN A \cup {n + 1} ELSE A
  BY <1>3 DEF BegunBy
<1> HIDE DEF A, B
<1>5. Cardinality(A \cup {n + 1}) = Cardinality(A) + 1
  BY <1>1, <1>2, FS_AddElement
<1>6. Cardinality(B) = IF input[n + 1][1] \in kinds THEN Cardinality(A) + 1 ELSE Cardinality(A)
  BY <1>4, <1>5
<1> QED
  BY <1>1, <1>6 DEF A, B

\* What tomlDocument may know.
TomlStates == [ok : BOOLEAN, next : Nat, tables : Nat, pairs : Nat, quoted : Nat]

\* The kinds of line that begin an entry, and the others.
EntryKinds == {"blank", "table"} \cup PairKinds

\* It knows of the first r entries.
Knows(t, r) ==
  /\ t \in TomlStates
  /\ t.ok <=> \A k \in 1..r : input[k][1] \in EntryKinds
  /\ t.ok => /\ t.tables = Cardinality(BegunBy({"table"}, r))
             /\ t.pairs = Cardinality(BegunBy(PairKinds, r))
             /\ t.quoted = Cardinality(BegunBy(PairKinds \ {"number"}, r))

\* It is on course after n lines: it knows of the entries begun so far and goes
\* on behind the last of them.
TomlOnCourse(t, n, ends) ==
  \E r \in 0..Len(input) :
    /\ n <= ends[r] /\ (r > 0 => ends[r - 1] < n)
    /\ Knows(t, r)
    /\ t.ok => t.next <= ends[r] + 1 /\ (n < ends[r] => t.next = ends[r] + 1)

\* A line that begins an entry.
LEMMA EntryBegins ==
  ASSUME input \in Seq(TomlEntries), NEW lines \in Seq(TomlKinds),
         NEW ends, EndWhere(ends, input, lines),
         NEW t, NEW r \in Nat, r < Len(input), Knows(t, r), t.ok => t.next <= ends[r] + 1,
         ends[r + 1] <= Len(lines)
  PROVE  LET u == TomlLine(t, ends[r] + 1, lines)
         IN  Knows(u, r + 1) /\ (u.ok => u.next <= ends[r + 1] + 1
                                         /\ (ends[r] + 1 < ends[r + 1] => u.next = ends[r + 1] + 1))
<1> DEFINE n == ends[r]
           e == input[r + 1]
           kind == e[1]
           u == TomlLine(t, n + 1, lines)
           Count(kinds, k) == Cardinality(BegunBy(kinds, k))
<1>1. e \in Seq(TomlKinds) /\ IsTomlEntry(e) /\ Len(e) \in Nat /\ Len(e) > 0 /\ kind \in TomlKinds
  <2>1. r + 1 \in 1..Len(input)
    OBVIOUS
  <2>2. e \in TomlEntries
    BY <2>1
  <2>3. e \in Seq(TomlKinds) /\ IsTomlEntry(e)
    BY <2>2 DEF TomlEntries
  <2>4. e # <<>>
    BY <2>3 DEF IsTomlEntry
  <2> HIDE DEF e
  <2> QED
    BY <2>3, <2>4
<1>2. n \in Nat /\ ends[r + 1] = n + Len(e) /\ n + Len(e) <= Len(lines) /\ Len(lines) \in Nat
  <2>1. r + 1 \in 1..Len(input) /\ (r + 1) - 1 = r /\ r \in 0..Len(input)
    OBVIOUS
  <2> QED
    BY <2>1 DEF EndWhere
<1>3. \A k \in 1..Len(e) : lines[n + k] = e[k]
  <2>1. r + 1 \in 1..Len(input) /\ (r + 1) - 1 = r
    OBVIOUS
  <2> QED
    BY <2>1 DEF EndWhere
<1>4. lines[n + 1] = kind
  BY <1>1, <1>3
<1>5. kind \in PairKinds => ValueEnd(lines, n + 1) = n + Len(e)
  <2> SUFFICES ASSUME kind \in PairKinds PROVE ValueEnd(lines, n + 1) = n + Len(e)
    OBVIOUS
  <2> HIDE DEF n, e
  <2>1. e[1] \in PairKinds
    OBVIOUS
  <2> QED
    BY <1>1, <1>2, <1>3, <2>1, ValueEndIs
<1>6. kind \notin {"array", "multi"} => Len(e) = 1
  BY <1>1 DEF IsTomlEntry
<1>7. \A kinds : /\ Count(kinds, r) \in Nat
                 /\ Count(kinds, r + 1) = IF kind \in kinds THEN Count(kinds, r) + 1 ELSE Count(kinds, r)
  BY OneMoreBegun
<1>8. (\A k \in 1..r + 1 : input[k][1] \in EntryKinds)
        <=> (\A k \in 1..r : input[k][1] \in EntryKinds) /\ kind \in EntryKinds
  <2>1. \A k : k \in 1..r + 1 <=> k \in 1..r \/ k = r + 1
    OBVIOUS
  <2> QED
    BY <2>1
<1> DEFINE known == \A k \in 1..r : input[k][1] \in EntryKinds
<1>9. /\ t \in TomlStates
      /\ t.ok <=> known
      /\ t.ok => /\ t.tables = Count({"table"}, r) /\ t.pairs = Count(PairKinds, r)
                 /\ t.quoted = Count(PairKinds \ {"number"}, r)
  BY DEF Knows
<1>10. (\A k \in 1..r + 1 : input[k][1] \in EntryKinds) <=> known /\ kind \in EntryKinds
  BY <1>8
<1>11. t.ok => t.next \in Nat /\ ~(n + 1 < t.next)
  BY <1>2, <1>9 DEF TomlStates
<1> HIDE DEF n, e, kind, known
<1> DEFINE Goal == /\ u \in TomlStates
                   /\ u.ok <=> known /\ kind \in EntryKinds
                   /\ u.ok => /\ u.tables = Count({"table"}, r + 1) /\ u.pairs = Count(PairKinds, r + 1)
                              /\ u.quoted = Count(PairKinds \ {"number"}, r + 1)
                              /\ u.next <= n + Len(e) + 1
                              /\ n + 1 < n + Len(e) => u.next = n + Len(e) + 1
<1>12. SUFFICES Goal
  <2>1. Goal => Knows(u, r + 1)
    BY <1>10 DEF Knows
  <2>2. Goal /\ u.ok => u.next <= ends[r + 1] + 1 /\ (n + 1 < ends[r + 1] => u.next = ends[r + 1] + 1)
    <3> HIDE DEF u, Count
    <3> QED
      BY <1>2
  <2> HIDE DEF Goal
  <2> QED
    BY <2>1, <2>2 DEF n
<1>13. CASE ~t.ok
  <2>1. u = t
    BY <1>13 DEF TomlLine
  <2> QED
    BY <1>9, <1>13, <2>1
<1>14. CASE t.ok /\ kind = "blank"
  <2>1. u = t
    BY <1>4, <1>11, <1>14 DEF TomlLine
  <2>2. \A kinds \in {{"table"}, PairKinds, PairKinds \ {"number"}} : kind \notin kinds
    BY <1>14 DEF PairKinds
  <2>3. Len(e) = 1 /\ kind \in EntryKinds
    BY <1>6, <1>14 DEF EntryKinds
  <2> HIDE DEF u, Count
  <2> QED
    BY <1>2, <1>7, <1>9, <1>11, <1>14, <2>1, <2>2, <2>3
<1>15. CASE t.ok /\ kind = "table"
  <2>1. u = [t EXCEPT !.tables = @ + 1]
    BY <1>4, <1>11, <1>15 DEF TomlLine
  <2>2. kind \in {"table"} /\ kind \notin PairKinds
    BY <1>15 DEF PairKinds
  <2>3. Len(e) = 1 /\ kind \in EntryKinds
    BY <1>6, <1>15 DEF EntryKinds
  <2>4. /\ u \in TomlStates /\ u.ok = t.ok /\ u.next = t.next /\ u.tables = t.tables + 1
        /\ u.pairs = t.pairs /\ u.quoted = t.quoted
    BY <1>9, <2>1 DEF TomlStates
  <2> HIDE DEF u, Count
  <2> QED
    BY <1>2, <1>7, <1>9, <1>11, <1>15, <2>2, <2>3, <2>4
<1>16. CASE t.ok /\ kind \in PairKinds
  <2>1. kind \in {"number", "string", "array", "multi"} /\ ValueEnd(lines, n + 1) # 0
    BY <1>1, <1>2, <1>5, <1>16 DEF PairKinds
  <2>2. u = [t EXCEPT !.next = (n + Len(e)) + 1, !.pairs = @ + 1,
                      !.quoted = IF kind = "number" THEN @ ELSE @ + 1]
    <3>1. kind # "blank" /\ kind # "table"
      BY <2>1
    <3> QED
      BY <1>4, <1>5, <1>11, <1>16, <2>1, <3>1 DEF TomlLine
  <2>3. kind \notin {"table"} /\ (kind \in PairKinds \ {"number"} <=> kind # "number")
    BY <1>16, <2>1
  <2>4. kind \in EntryKinds
    BY <1>16 DEF EntryKinds
  <2>5. /\ u \in TomlStates /\ u.ok = t.ok /\ u.next = (n + Len(e)) + 1 /\ u.tables = t.tables
        /\ u.pairs = t.pairs + 1 /\ u.quoted = IF kind = "number" THEN t.quoted ELSE t.quoted + 1
    <3> DEFINE x == (n + Len(e)) + 1
               q == IF kind = "number" THEN t.quoted ELSE t.quoted + 1
    <3>1. x \in Nat /\ q \in Nat /\ t.pairs + 1 \in Nat /\ t \in TomlStates
      BY <1>1, <1>2, <1>9 DEF TomlStates
    <3>2. u = [t EXCEPT !.next = x, !.pairs = t.pairs + 1, !.quoted = q]
      BY <2>2, <3>1 DEF TomlStates
    <3> HIDE DEF x, q, u
    <3>3. /\ u \in TomlStates /\ u.ok = t.ok /\ u.next = x /\ u.tables = t.tables
          /\ u.pairs = t.pairs + 1 /\ u.quoted = q
      BY <3>1, <3>2 DEF TomlStates
    <3> QED
      BY <3>3 DEF x, q
  <2> HIDE DEF u, Count
  <2> QED
    BY <1>1, <1>2, <1>7, <1>9, <1>16, <2>3, <2>4, <2>5
<1>17. CASE t.ok /\ kind \notin EntryKinds
  <2>1. kind # "blank" /\ kind # "table" /\ kind \notin {"number", "string", "array", "multi"}
    BY <1>17 DEF EntryKinds, PairKinds
  <2>2. u = [t EXCEPT !.ok = FALSE]
    BY <1>4, <1>11, <1>17, <2>1 DEF TomlLine
  <2>3. u \in TomlStates /\ u.ok = FALSE
    BY <1>9, <2>2 DEF TomlStates
  <2> HIDE DEF u, Count
  <2> QED
    BY <1>17, <2>3
<1>18. kind \in EntryKinds <=> kind = "blank" \/ kind = "table" \/ kind \in PairKinds
  BY DEF EntryKinds
<1> HIDE DEF Goal
<1> QED
  BY <1>13, <1>14, <1>15, <1>16, <1>17, <1>18

\* One line.
LEMMA TomlLineOnCourse ==
  ASSUME input \in Seq(TomlEntries), NEW lines \in Seq(TomlKinds),
         NEW ends, EndWhere(ends, input, lines),
         NEW t, NEW n \in Nat, n < Len(lines), TomlOnCourse(t, n, ends)
  PROVE  TomlOnCourse(TomlLine(t, n + 1, lines), n + 1, ends)
<1> DEFINE m == Len(input)
           u == TomlLine(t, n + 1, lines)
<1> SUFFICES TomlOnCourse(u, n + 1, ends)
  OBVIOUS
<1>1. PICK r \in 0..m : /\ n <= ends[r] /\ (r > 0 => ends[r - 1] < n)
                        /\ Knows(t, r)
                        /\ t.ok => t.next <= ends[r] + 1 /\ (n < ends[r] => t.next = ends[r] + 1)
  BY DEF TomlOnCourse
<1>2. m \in Nat /\ r \in Nat /\ Len(lines) \in Nat
  OBVIOUS
<1>3. \A p, q \in 0..m : p < q => ends[p] < ends[q]
  <2>1. input \in Seq(Seq(TomlKinds)) /\ \A k \in 1..m : input[k] # <<>>
    <3>1. \A k \in 1..m : input[k] \in TomlEntries
      OBVIOUS
    <3>2. \A e \in TomlEntries : e # <<>> /\ e \in Seq(TomlKinds)
      BY DEF TomlEntries, IsTomlEntry
    <3> QED
      BY <3>1, <3>2
  <2> HIDE DEF m
  <2> QED
    BY <2>1, EndsGrow DEF m
<1>4. (\A p \in 0..m : ends[p] \in Nat) /\ ends[m] = Len(lines)
  BY DEF EndWhere
<1>5. CASE n < ends[r]
  <2>1. u = t
    <3>1. t.ok => n + 1 < t.next
      BY <1>1, <1>4, <1>5
    <3> QED
      BY <3>1 DEF TomlLine
  <2>2. /\ n + 1 <= ends[r] /\ (r > 0 => ends[r - 1] < n + 1)
        /\ n + 1 < ends[r] => n < ends[r]
    <3>1. r > 0 => r - 1 \in 0..m
      BY <1>2
    <3> QED
      BY <1>1, <1>4, <1>5, <3>1
  <2> HIDE DEF u
  <2>3. u.ok => u.next <= ends[r] + 1 /\ (n + 1 < ends[r] => u.next = ends[r] + 1)
    BY <1>1, <2>1, <2>2
  <2> QED
    BY <1>1, <2>1, <2>2, <2>3 DEF TomlOnCourse
<1>6. CASE ~(n < ends[r])
  <2>1. n = ends[r]
    BY <1>1, <1>4, <1>6
  <2>2. r < m /\ r + 1 \in 0..m /\ m \in 0..m
    BY <1>1, <1>2, <1>4, <2>1
  <2>3. ends[r + 1] <= Len(lines) /\ ends[r] < ends[r + 1]
    <3>1. ends[r] < ends[r + 1]
      BY <1>1, <1>3, <2>2
    <3>2. r + 1 = m \/ ends[r + 1] < ends[m]
      BY <1>2, <1>3, <2>2
    <3> QED
      BY <1>2, <1>4, <2>2, <3>1, <3>2
  <2>4. Knows(u, r + 1) /\ (u.ok => u.next <= ends[r + 1] + 1
                                    /\ (n + 1 < ends[r + 1] => u.next = ends[r + 1] + 1))
    <3>1. t.ok => t.next <= ends[r] + 1
      BY <1>1
    <3> QED
      BY <1>1, <1>2, <2>1, <2>2, <2>3, <3>1, EntryBegins
  <2>5. n + 1 <= ends[r + 1] /\ (r + 1) - 1 = r /\ ends[r] < n + 1
    BY <1>2, <1>4, <2>1, <2>2, <2>3
  <2> HIDE DEF u
  <2> QED
    BY <2>2, <2>4, <2>5 DEF TomlOnCourse
<1> QED
  BY <1>5, <1>6

\* The states of tomlDocument, line after line.
TomlAfter(lines) ==
  CHOOSE after : after = [n \in 0..Len(lines) |->
    IF n = 0 THEN NoLines ELSE TomlLine(after[n - 1], n, lines)]

\* tomlDocument is on course at the end.
LEMMA TomlReads ==
  ASSUME input \in Seq(TomlEntries), NEW lines \in Seq(TomlKinds),
         NEW ends, EndWhere(ends, input, lines)
  PROVE  TomlOnCourse(Toml(lines), Len(lines), ends)
<1> DEFINE m == Len(lines)
           f == TomlAfter(lines)
           Then(s, n) == TomlLine(s, n, lines)
           C == {p \in TomlStates \X (0..m) : TomlOnCourse(p[1], p[2], ends)}
           H == [p \in C |-> Then(p[1], p[2] + 1)]
<1>1. m \in Nat /\ m = Len(lines)
  OBVIOUS
<1>2. TomlOnCourse(NoLines, 0, ends)
  <2>1. NoLines \in TomlStates /\ NoLines.ok /\ NoLines.next = 1
        /\ NoLines.tables = 0 /\ NoLines.pairs = 0 /\ NoLines.quoted = 0
    BY DEF NoLines, TomlStates
  <2>2. \A kinds : Cardinality(BegunBy(kinds, 0)) = 0
    <3>1. \A kinds : BegunBy(kinds, 0) = {}
      BY DEF BegunBy
    <3> QED
      BY <3>1, FS_EmptySet
  <2>3. Knows(NoLines, 0)
    BY <2>1, <2>2 DEF Knows
  <2>4. 0 \in 0..Len(input) /\ ends[0] = 0
    BY DEF EndWhere
  <2> QED
    BY <2>1, <2>3, <2>4 DEF TomlOnCourse
<1>3. \A s, n : <<s, n>> \in C <=> n \in 0..m /\ TomlOnCourse(s, n, ends)
  <2>1. \A s, n : TomlOnCourse(s, n, ends) => s \in TomlStates
    BY DEF TomlOnCourse, Knows
  <2> QED
    BY <2>1
<1>4. \A s, n : <<s, n>> \in C => H[<<s, n>>] = Then(s, n + 1)
  OBVIOUS
<1>5. Leads(H, m, C)
  <2> SUFFICES ASSUME NEW s, NEW n \in 0..m, <<s, n>> \in C, n < m
               PROVE  <<H[<<s, n>>], n + 1>> \in C
    BY DEF Leads
  <2>1. n \in Nat /\ n + 1 \in 0..m
    BY <1>1
  <2>2. TomlOnCourse(Then(s, n + 1), n + 1, ends)
    <3>1. TomlOnCourse(s, n, ends) /\ n < Len(lines)
      BY <1>1, <1>3
    <3> QED
      BY <2>1, <3>1, TomlLineOnCourse
  <2> QED
    BY <1>3, <1>4, <2>1, <2>2
<1>6. <<NoLines, 0>> \in C /\ C \subseteq TomlStates \X (0..m)
  BY <1>1, <1>2, <1>3
<1> HIDE DEF Then, m, C, H
<1>7. PICK g \in [0..m -> TomlStates] :
        Follow(g, m, NoLines, H, C) /\ \A n \in 0..m : <<g[n], n>> \in C
  BY <1>1, <1>5, <1>6, ACourse
<1>8. g = [n \in 0..m |-> IF n = 0 THEN NoLines ELSE Then(g[n - 1], n)]
  <2>1. ASSUME NEW n \in 1..m PROVE g[n] = Then(g[n - 1], n)
    <3>1. (n - 1) + 1 = n /\ n - 1 \in 0..m
      BY <1>1
    <3>2. <<g[n - 1], n - 1>> \in C
      BY <1>7, <3>1
    <3>3. g[n] = H[<<g[n - 1], n - 1>>]
      BY <1>7, <3>2 DEF Follow
    <3>4. H[<<g[n - 1], n - 1>>] = Then(g[n - 1], (n - 1) + 1)
      BY <1>4, <3>2
    <3> QED
      BY <3>1, <3>3, <3>4
  <2>2. g[0] = NoLines
    BY <1>7 DEF Follow
  <2> QED
    BY <1>7, <2>1, <2>2
<1>9. f = [n \in 0..m |-> IF n = 0 THEN NoLines ELSE Then(f[n - 1], n)]
  BY <1>8 DEF TomlAfter, Then, m
<1> HIDE DEF f
<1>10. Follow(f, m, NoLines, H, C)
  <2>1. f[0] = NoLines /\ \A n \in 1..m : f[n] = Then(f[n - 1], n)
    BY <1>1, <1>9
  <2>2. ASSUME NEW n \in 1..m, <<f[n - 1], n - 1>> \in C PROVE f[n] = H[<<f[n - 1], n - 1>>]
    <3>1. H[<<f[n - 1], n - 1>>] = Then(f[n - 1], (n - 1) + 1) /\ (n - 1) + 1 = n
      BY <1>4, <2>2
    <3> QED
      BY <2>1, <3>1
  <2> QED
    BY <2>1, <2>2 DEF Follow
<1>11. <<f[m], m>> \in C
  <2>1. \A n \in 0..m : <<f[n], n>> \in C
    BY <1>1, <1>5, <1>6, <1>10, OnCourse
  <2> QED
    BY <1>1, <2>1
<1>12. Toml(lines) = f[m]
  BY DEF Toml, Scan, TomlAfter, f, m
<1> QED
  BY <1>3, <1>11, <1>12 DEF m

\* tomlDocument knows a file by its entries.
LEMMA TomlKnowsFile ==
  ASSUME input \in Seq(TomlEntries)
  PROVE  TomlDocument(FlattenSeq(input)) <=>
           /\ Has(NoEntries) = {}
           /\ \/ Has({<<"table">>}) # {}
              \/ /\ Cardinality(Has(PairEntries)) >= 2
                 /\ Has(PairEntries \ {<<"number">>}) # {}
<1> DEFINE m == Len(input)
           lines == FlattenSeq(input)
           t == Toml(lines)
<1>1. m \in Nat /\ DOMAIN input = 1..m
  OBVIOUS
<1>2. input \in Seq(Seq(TomlKinds)) /\ \A k \in 1..m : input[k] # <<>> /\ IsTomlEntry(input[k])
  <2>1. \A k \in 1..m : input[k] \in TomlEntries
    OBVIOUS
  <2>2. \A e \in TomlEntries : e # <<>> /\ e \in Seq(TomlKinds) /\ IsTomlEntry(e)
    BY DEF TomlEntries, IsTomlEntry
  <2> QED
    BY <2>1, <2>2
<1>3. lines \in Seq(TomlKinds) /\ \E ends : EndWhere(ends, input, lines)
  <2> DEFINE K == TomlKinds
  <2>1. input \in Seq(Seq(K))
    BY <1>2
  <2> HIDE DEF K
  <2> QED
    BY <2>1, ListsFollow DEF K
<1>4. PICK ends : EndWhere(ends, input, lines)
  BY <1>3
<1> HIDE DEF lines
<1>5. TomlOnCourse(t, Len(lines), ends)
  BY <1>3, <1>4, TomlReads
<1>6. PICK r \in 0..m : Len(lines) <= ends[r] /\ Knows(t, r)
  BY <1>5 DEF TomlOnCourse
<1> HIDE DEF t
<1>7. r = m
  <2>1. \A p, q \in 0..m : p < q => ends[p] < ends[q]
    BY <1>2, <1>4, EndsGrow
  <2>2. ends[m] = Len(lines) /\ ends[r] \in Nat /\ ends[m] \in Nat
    BY <1>1, <1>4, <1>6 DEF EndWhere
  <2>3. ~(r < m)
    BY <1>1, <1>6, <2>1, <2>2
  <2>4. r \in 0..m /\ m \in Nat
    BY <1>1
  <2> HIDE DEF m
  <2> QED
    BY <2>3, <2>4
<1>8. ASSUME NEW k \in 1..m
      PROVE  /\ input[k][1] \in TomlKinds
             /\ input[k][1] \notin {"array", "multi"} => input[k] = <<input[k][1]>>
  <2> DEFINE e == input[k]
  <2>1. e \in Seq(TomlKinds) /\ e # <<>> /\ IsTomlEntry(e)
    BY <1>2
  <2> HIDE DEF e
  <2>2. e[1] \in TomlKinds
    <3> DEFINE K == TomlKinds
    <3>1. e \in Seq(K)
      BY <2>1
    <3> HIDE DEF K
    <3>2. e[1] \in K
      BY <2>1, <3>1
    <3> QED
      BY <3>2 DEF K
  <2>3. ASSUME e[1] \notin {"array", "multi"} PROVE e = <<e[1]>>
    <3> DEFINE K == TomlKinds
    <3>1. Len(e) = 1 /\ e \in Seq(K)
      BY <2>1, <2>3 DEF IsTomlEntry
    <3> HIDE DEF K
    <3> QED
      BY <3>1
  <2> QED
    BY <2>2, <2>3 DEF e
<1>9. ASSUME NEW k \in 1..m
      PROVE  /\ input[k] \in NoEntries <=> input[k][1] \notin EntryKinds
             /\ input[k] = <<"table">> <=> input[k][1] = "table"
             /\ input[k] = <<"blank">> <=> input[k][1] = "blank"
             /\ input[k] = <<"number">> <=> input[k][1] = "number"
  <2> DEFINE e == input[k]
  <2>1. e[1] \in TomlKinds /\ (e[1] \notin {"array", "multi"} => e = <<e[1]>>)
    BY <1>8
  <2>2. \A x : e = <<x>> => e[1] = x
    OBVIOUS
  <2> HIDE DEF e
  <2>3. e = <<"table">> <=> e[1] = "table"
    BY <2>1, <2>2
  <2>4. e = <<"blank">> <=> e[1] = "blank"
    BY <2>1, <2>2
  <2>5. e = <<"number">> <=> e[1] = "number"
    BY <2>1, <2>2
  <2>6. e \in NoEntries <=> e[1] \in {"prose", "bare", "torn", "]", "quotes"}
    <3>1. e \in NoEntries <=> \E x \in {"prose", "bare", "torn", "]", "quotes"} : e = <<x>>
      BY DEF NoEntries
    <3> QED
      BY <2>1, <2>2, <3>1
  <2>7. e[1] \in {"prose", "bare", "torn", "]", "quotes"} <=> e[1] \notin EntryKinds
    BY <2>1 DEF TomlKinds, EntryKinds, PairKinds
  <2> QED
    BY <2>3, <2>4, <2>5, <2>6, <2>7 DEF e
<1>10. ASSUME NEW k \in 1..m
       PROVE  /\ input[k] \in PairEntries <=> input[k][1] \in PairKinds
              /\ input[k] \in PairEntries \ {<<"number">>} <=> input[k][1] \in PairKinds \ {"number"}
  <2>1. input[k] \in ToSet(input)
    BY <1>1 DEF ToSet
  <2>2. input[k] \in PairEntries <=>
          input[k] # <<"blank">> /\ input[k] # <<"table">> /\ input[k] \notin NoEntries
    BY <2>1 DEF PairEntries, PlainEntries
  <2>3. input[k][1] \in PairKinds <=>
          input[k][1] # "blank" /\ input[k][1] # "table" /\ input[k][1] \in EntryKinds
    BY DEF PairKinds, EntryKinds
  <2> QED
    BY <1>9, <2>2, <2>3
<1>11. /\ Has(NoEntries) = {} <=> \A k \in 1..m : input[k][1] \in EntryKinds
       /\ Has({<<"table">>}) = BegunBy({"table"}, m)
       /\ Has(PairEntries) = BegunBy(PairKinds, m)
       /\ Has(PairEntries \ {<<"number">>}) = BegunBy(PairKinds \ {"number"}, m)
  <2>1. Has(NoEntries) = {} <=> \A k \in 1..m : input[k][1] \in EntryKinds
    BY <1>1, <1>9 DEF Has
  <2>2. Has({<<"table">>}) = BegunBy({"table"}, m)
    BY <1>1, <1>9 DEF Has, BegunBy
  <2>3. Has(PairEntries) = BegunBy(PairKinds, m)
    BY <1>1, <1>10 DEF Has, BegunBy
  <2>4. Has(PairEntries \ {<<"number">>}) = BegunBy(PairKinds \ {"number"}, m)
    BY <1>1, <1>10 DEF Has, BegunBy
  <2> QED
    BY <2>1, <2>2, <2>3, <2>4
<1>12. \A kinds : /\ Cardinality(BegunBy(kinds, m)) \in Nat
                  /\ Cardinality(BegunBy(kinds, m)) > 0 <=> BegunBy(kinds, m) # {}
  <2> SUFFICES ASSUME NEW kinds
               PROVE  /\ Cardinality(BegunBy(kinds, m)) \in Nat
                      /\ Cardinality(BegunBy(kinds, m)) > 0 <=> BegunBy(kinds, m) # {}
    OBVIOUS
  <2>1. IsFiniteSet(1..m) /\ BegunBy(kinds, m) \subseteq 1..m
    BY <1>1, FS_Interval DEF BegunBy
  <2>2. IsFiniteSet(BegunBy(kinds, m))
    BY <2>1, FS_Subset
  <2> QED
    BY <2>2, FS_CardinalityType, FS_EmptySet
<1> DEFINE Count(kinds) == Cardinality(BegunBy(kinds, m))
<1>13. /\ t.ok <=> \A k \in 1..m : input[k][1] \in EntryKinds
       /\ t.ok => /\ t.tables = Count({"table"}) /\ t.pairs = Count(PairKinds)
                  /\ t.quoted = Count(PairKinds \ {"number"})
  BY <1>6, <1>7 DEF Knows
<1>14. TomlDocument(lines) <=> t.ok /\ (t.tables > 0 \/ (t.pairs >= 2 /\ t.quoted > 0))
  BY DEF TomlDocument, t
<1> QED
  BY <1>11, <1>12, <1>13, <1>14 DEF lines

-----------------------------------------------------------------------------
(* What is printed, and the theorems.                                        *)

\* The text consists of lines that its tool prints.
OutputTyped ==
  /\ source \in DOMAIN Outputs /\ knob \in Outputs[source].knobs
  /\ tool \in LineTools => input \in Seq(Outputs[source].lines)

\* The typing, for every set of tools.
THEOREM OutputStaysTyped == OutputSpec => []OutputTyped
<1>1. OutputInit => OutputTyped
  BY OutputsAssumption DEF OutputsAssumption, OutputInit, OutputTyped, tool
<1>2. ASSUME OutputTyped, [OutputNext]_outputVars PROVE OutputTyped'
  <2> DEFINE L == Outputs[source].lines
  <2>1. CASE PrintLine
    <3>1. PICK line \in L : input' = Append(input, line)
      BY <2>1 DEF PrintLine
    <3>2. source' = source /\ knob' = knob
      BY <2>1 DEF PrintLine
    <3> HIDE DEF L
    <3>3. input \in Seq(L) => input' \in Seq(L)
      BY <3>1
    <3> QED
      BY <1>2, <3>2, <3>3 DEF OutputTyped, tool, L
  <2>2. CASE UNCHANGED outputVars
    BY <1>2, <2>2 DEF outputVars, OutputTyped, tool
  <2> QED
    BY <1>2, <2>1, <2>2 DEF OutputNext, OutputDone
<1> QED
  BY <1>1, <1>2, PTL DEF OutputSpec

\* For every sequence of tokens and every limit: what is left of a model's
\* answer is all that the model said outside its reasoning, in order.
THEOREM AnswerAlwaysSurvives == OutputSpec => []AnswerSurvives
<1>1. OutputTyped => AnswerSurvives
  <2> SUFFICES ASSUME OutputTyped, tool = "model" PROVE AnswerSurvives
    BY DEF AnswerSurvives
  <2>1. input \in Seq(Outputs[source].lines)
    BY DEF OutputTyped, LineTools
  <2>2. knob \in Nat
    BY OutputsAssumption DEF OutputsAssumption, OutputTyped, tool
  <2> QED
    BY <2>1, <2>2, StripIs
<1> QED
  BY <1>1, OutputStaysTyped, PTL

\* For every output of go test, go test -json, cargo, npm and pytest: no line
\* that says what failed or how a package ended is lost or repeated.
THEOREM VerdictsAlwaysKept == OutputSpec => []VerdictsKept
<1>1. OutputTyped => VerdictsKept
  <2> SUFFICES ASSUME OutputTyped PROVE VerdictsKept
    OBVIOUS
  <2> DEFINE L == Outputs[source].lines
  <2>1. tool \in LineTools => input \in Seq(L)
    BY DEF OutputTyped
  <2>2. tool = "go test" => \A line \in L : Kind(line) \in GoKinds
    BY OutputsAssumption DEF OutputsAssumption, OutputTyped, tool
  <2> HIDE DEF L
  <2>3. CASE tool = "go test"
    <3>1. input \in Seq(L)
      BY <2>1, <2>3 DEF LineTools
    <3>2. KeepsAll(GoVerdicts, GoTestText(input))
      BY <2>2, <2>3, <3>1, GoTestKeeps
    <3> QED
      BY <2>3, <3>2 DEF VerdictsKept
  <2>4. CASE tool = "go test -json"
    <3>1. input \in Seq(L)
      BY <2>1, <2>4 DEF LineTools
    <3>2. EventsTold(GoTestJSON(input))
      BY <3>1, GoTestJSONTells
    <3> QED
      BY <2>4, <3>2 DEF VerdictsKept
  <2>5. CASE tool = "cargo"
    <3>1. input \in Seq(L)
      BY <2>1, <2>5 DEF LineTools
    <3>2. KeepsAll(CargoKept, Cargo(input)) /\ PointersKept(Cargo(input))
      BY <3>1, CargoKeeps
    <3> QED
      BY <2>5, <3>2 DEF VerdictsKept, CargoKept
  <2>6. CASE tool = "npm"
    <3>1. input \in Seq(L)
      BY <2>1, <2>6 DEF LineTools
    <3>2. KeepsAll(NpmKnown, Npm(input))
      BY <3>1, NpmKeeps
    <3> QED
      BY <2>6, <3>2 DEF VerdictsKept
  <2>7. CASE tool = "pytest"
    <3>1. input \in Seq(L)
      BY <2>1, <2>7 DEF LineTools
    <3>2. Collects => KeepsAll(PytestKept, Pytest(input))
      BY <3>1, PytestKeeps
    <3> QED
      BY <2>7, <3>2 DEF VerdictsKept, PytestKept
  <2>8. CASE tool \notin {"go test", "go test -json", "cargo", "npm", "pytest"}
    BY <2>8 DEF VerdictsKept
  <2> QED
    BY <2>3, <2>4, <2>5, <2>6, <2>7, <2>8
<1> QED
  BY <1>1, OutputStaysTyped, PTL

\* For every output of git: each diff is summarised once, in its place, with
\* the lines of its own hunks and of no other.
THEOREM DiffsAlwaysCounted == OutputSpec => []DiffsCounted
<1>1. OutputTyped => DiffsCounted
  <2> SUFFICES ASSUME OutputTyped, tool = "git" PROVE DiffsCounted
    BY DEF DiffsCounted
  <2> DEFINE L == Outputs[source].lines
  <2>1. input \in Seq(L)
    BY DEF OutputTyped, LineTools
  <2>2. \A line \in L : Kind(line) = "diff" => Name(line) # ""
    BY OutputsAssumption DEF OutputsAssumption, OutputTyped, tool
  <2> HIDE DEF L
  <2>3. NamedDiffs
    <3>1. \A i \in 1..Len(input) : input[i] \in L
      BY <2>1
    <3> QED
      BY <2>2, <3>1 DEF NamedDiffs, Diffs, LinesOf
  <2> QED
    BY <2>1, <2>3, GitSummarises DEF DiffsCounted
<1> QED
  BY <1>1, OutputStaysTyped, PTL

\* For every set of processor folders and every command line: each processor is
\* the one installed and what displaces a builtin is told; a command is wrapped
\* if and only if a processor names it that thlibo rewrite sees, never twice, and
\* what is started in the end is what the shell would have started.
THEOREM WrappedAlwaysAsInstalled == OutputSpec => []WrappedAsInstalled
<1>1. OutputTyped => WrappedAsInstalled
  <2> SUFFICES ASSUME OutputTyped PROVE WrappedAsInstalled
    OBVIOUS
  <2> DEFINE o == Outputs[source]
             L == o.lines
  <2>1. tool \in LineTools => input \in Seq(L)
    BY DEF OutputTyped
  <2>2. tool = o.tool /\ source \in DOMAIN Outputs /\ knob \in o.knobs
    BY DEF OutputTyped, tool
  <2>3. CASE tool = "processors"
    <3>1. L \subseteq ProcessorFolders /\ BuiltinsLoad(knob.builtin)
      BY <2>2, <2>3, CommandAssumption DEF CommandAssumption
    <3> HIDE DEF L
    <3>2. input \in Seq(ProcessorFolders)
      BY <2>1, <2>3, <3>1 DEF LineTools
    <3>3. RegistryTold(input)
      BY <3>1, <3>2, RegistryIsTold
    <3> QED
      BY <2>3, <3>3 DEF WrappedAsInstalled
  <2>4. CASE tool = "shell"
    <3>1. /\ L \subseteq Fields /\ BuiltinsLoad(knob.builtin) /\ knob.user \in Seq(ProcessorFolders)
          /\ PathStandsAlone(knob.self, knob.builtin \o knob.user)
      BY <2>2, <2>4, CommandAssumption DEF CommandAssumption
    <3>4. FoldersSeen \in Seq(ProcessorFolders) /\ PathStandsAlone(knob.self, knob.builtin \o FoldersSeen)
      BY <3>1, SeenStandsAlone DEF BuiltinsLoad
    <3> HIDE DEF L
    <3>2. input \in Seq(Fields)
      BY <2>1, <2>4, <3>1 DEF LineTools
    <3>3. /\ Simple(input) /\ input # <<>> =>
               (CommandLine # input <=> Claimed(input, FoldersSeen) /\ input[1].base # "thlibo")
          /\ Wrapped(CommandLine, Registry(knob.builtin, FoldersSeen), knob.self) = CommandLine
          /\ CommandLine # input /\ input[1].kind # "assignment" =>
               StartedInTheEnd(CommandLine) = Started(input)
      BY <3>1, <3>2, <3>4, LineWrappedOnce
    <3> QED
      BY <2>4, <3>3 DEF WrappedAsInstalled
  <2>5. CASE tool \notin {"processors", "shell"}
    BY <2>5 DEF WrappedAsInstalled
  <2> QED
    BY <2>3, <2>4, <2>5
<1> QED
  BY <1>1, OutputStaysTyped, PTL

\* For every file of any entries, in any order and number: tomlDocument takes it
\* for TOML if and only if its entries say so, whatever the lines within its
\* values look like.
THEOREM ConfigsAlwaysKnown == OutputSpec => []ConfigsKnown
<1>1. OutputTyped => ConfigsKnown
  <2> SUFFICES ASSUME OutputTyped, tool = "config" PROVE ConfigsKnown
    BY DEF ConfigsKnown
  <2> DEFINE L == Outputs[source].lines
  <2>1. input \in Seq(L)
    BY DEF OutputTyped, LineTools
  <2>2. L \subseteq TomlEntries
    <3>1. \A line \in L : IsTomlEntry(line)
      BY OutputsAssumption DEF OutputsAssumption, OutputTyped, tool
    <3> QED
      BY <3>1 DEF IsTomlEntry, TomlEntries
  <2> HIDE DEF L
  <2>3. input \in Seq(TomlEntries)
    BY <2>1, <2>2
  <2> QED
    BY <2>3, TomlKnowsFile DEF ConfigsKnown
<1> QED
  BY <1>1, OutputStaysTyped, PTL
=============================================================================
