----------------------------- MODULE InferdPost -----------------------------
(* One round-trip to the inferd daemon: Client.Post, its watchdog goroutine, *)
(* its deadline, and readResult and readFrame below it (internal/inferd).    *)
(* The daemon is external: it accepts or refuses, reads or does not, answers *)
(* frame by frame, stalls, and goes away between two frames or within one.   *)
EXTENDS Naturals, Sequences

CONSTANTS
  Attachments, \* how many attachments the request carries
  MaxFrames    \* how many frames the daemon sends at most: bounds the model

ASSUME BoundAssumption == Attachments \in Nat /\ MaxFrames \in Nat

\* What a response frame amounts to for readResult: text (or a tool call) that
\* accumulates, something to ignore (a reasoning trace, an unknown type, a
\* frame without a block), something that is no response (a BLOB frame, text
\* that does not decode), or one of the two terminal frames.
Frames == {"text", "ignored", "bad", "done", "error"}

\* Where the daemon's last byte lies when it goes away: between frames, after
\* a frame's length, after its type, or within its length or its payload.
Ends == {"edge", "length", "type", "within"}

VARIABLES
  pc,      \* where Post stands
  ctx,     \* its context: "live" or "expired"
  dog,     \* the watchdog: "none", "watching", "gone"
  conn,    \* the connection: "none", "open", "closed" by this side
  unsent,  \* request frames still to be written
  wire,    \* response frames sent and not yet read
  sent,    \* how many the daemon has sent
  daemon,  \* "up", or where its stream ended
  texts,   \* text frames accumulated
  ended,   \* the "done" frame has been read
  pend,    \* the outcome with which Post returns, before its deferred calls
  result   \* the outcome its caller sees

vars == <<pc, ctx, dog, conn, unsent, wire, sent, daemon, texts, ended, pend, result>>

Outcomes == {"answer", "deadline", "notready", "fault"}

Init ==
  /\ pc = "start"
  /\ ctx = "live"
  /\ dog = "none"
  /\ conn = "none"
  /\ unsent = 0
  /\ wire = <<>>
  /\ sent = 0
  /\ daemon = "up"
  /\ texts = 0
  /\ ended = FALSE
  /\ pend = "none"
  /\ result = "none"

Start ==
  /\ pc = "start"
  /\ pc' = "dial"
  /\ UNCHANGED <<ctx, dog, conn, unsent, wire, sent, daemon, texts, ended, pend, result>>

\* The deadline passes while the call is out.
Expire ==
  /\ pc \in {"dial", "write", "read", "unwind"}
  /\ ctx = "live"
  /\ ctx' = "expired"
  /\ UNCHANGED <<pc, dog, conn, unsent, wire, sent, daemon, texts, ended, pend, result>>

\* Post is about to return o; its deferred calls follow.
Returning(o) == pc' = "unwind" /\ pend' = o

-----------------------------------------------------------------------------
(* Dialling and writing the request.                                         *)

DialSucceeds ==
  /\ pc = "dial"
  /\ pc' = "write"
  /\ conn' = "open"
  /\ dog' = "watching"
  /\ unsent' = 1 + 2 * Attachments
  /\ UNCHANGED <<ctx, wire, sent, daemon, texts, ended, pend, result>>

\* isTransientConnect tells a daemon that is not there ("connection refused",
\* "no such file", "i/o timeout") from other errors.
DialFails ==
  /\ pc = "dial"
  /\ \E o \in {"notready", "fault"} : Returning(o)
  /\ UNCHANGED <<ctx, dog, conn, unsent, wire, sent, daemon, texts, ended, result>>

\* A dial under an expired context ends: as an i/o timeout on a Unix socket, as
\* the context's own error on a Windows pipe.
DialTimesOut ==
  /\ pc = "dial"
  /\ ctx = "expired"
  /\ \E o \in {"notready", "deadline"} : Returning(o)
  /\ UNCHANGED <<ctx, dog, conn, unsent, wire, sent, daemon, texts, ended, result>>

\* The daemon takes the next frame of the request.
WriteFrame ==
  /\ pc = "write"
  /\ conn = "open"
  /\ daemon = "up"
  /\ unsent' = unsent - 1
  /\ pc' = IF unsent' = 0 THEN "read" ELSE "write"
  /\ UNCHANGED <<ctx, dog, conn, wire, sent, daemon, texts, ended, pend, result>>

\* The peer went away (an EOF counts as not ready, a broken pipe does not), or
\* the watchdog closed the connection under the write.
WriteFails ==
  /\ pc = "write"
  /\ \/ daemon # "up" /\ \E o \in {"notready", "fault"} : Returning(o)
     \/ conn = "closed" /\ Returning("fault")
  /\ UNCHANGED <<ctx, dog, conn, unsent, wire, sent, daemon, texts, ended, result>>

\* A frame over MaxFrameBytes, or a request that does not encode, is refused
\* before a byte of it is written.
FrameRefused ==
  /\ pc = "write"
  /\ Returning("fault")
  /\ UNCHANGED <<ctx, dog, conn, unsent, wire, sent, daemon, texts, ended, result>>

-----------------------------------------------------------------------------
(* readResult.                                                               *)

\* A whole frame is read.  One that was buffered before the watchdog closed
\* the connection is read all the same.
ReadFrame(f) ==
  /\ pc = "read"
  /\ wire # <<>>
  /\ Head(wire) = f
  /\ wire' = Tail(wire)

ReadText ==
  /\ ReadFrame("text")
  /\ texts' = texts + 1
  /\ UNCHANGED <<pc, ctx, dog, conn, unsent, sent, daemon, ended, pend, result>>

ReadIgnored ==
  /\ ReadFrame("ignored")
  /\ UNCHANGED <<pc, ctx, dog, conn, unsent, sent, daemon, texts, ended, pend, result>>

ReadDone ==
  /\ ReadFrame("done")
  /\ Returning("answer")
  /\ ended' = TRUE
  /\ UNCHANGED <<ctx, dog, conn, unsent, sent, daemon, texts, result>>

ReadFault ==
  /\ ReadFrame("error") \/ ReadFrame("bad")
  /\ Returning("fault")
  /\ UNCHANGED <<ctx, dog, conn, unsent, sent, daemon, texts, ended, result>>

\* The error readFrame reports for a stream that ends there.  Only within the
\* length or the payload is it io.ErrUnexpectedEOF: ReadByte for the type and
\* ReadFull for a payload of which nothing came report a plain io.EOF.
EndError(end) == IF end = "within" THEN "unexpected EOF" ELSE "EOF"

\* readResult's verdict on a read error: the context's error first; at an EOF
\* what has been said so far, or an unreachable daemon if nothing was.
ReadError(error) ==
  IF ctx = "expired" THEN "deadline"
  ELSE IF error # "EOF" THEN "fault"
  ELSE IF texts > 0 THEN "answer" ELSE "notready"

ReadEnd ==
  /\ pc = "read"
  /\ wire = <<>>
  /\ conn = "open"
  /\ daemon # "up"
  /\ Returning(ReadError(EndError(daemon)))
  /\ UNCHANGED <<ctx, dog, conn, unsent, wire, sent, daemon, texts, ended, result>>

ReadClosed ==
  /\ pc = "read"
  /\ conn = "closed"
  /\ Returning(ReadError("closed"))
  /\ UNCHANGED <<ctx, dog, conn, unsent, wire, sent, daemon, texts, ended, result>>

-----------------------------------------------------------------------------
(* The deferred calls, the watchdog and the daemon.                          *)

\* Wrong on purpose: whatever was read, an expired context is a deadline.
ExpiredAlways(o) == IF ctx = "expired" /\ o # "notready" THEN "deadline" ELSE o

\* Wrong on purpose: an error keeps the name the broken connection gave it.
AsItBroke(o) == o

\* An error under an expired context is the deadline's, except that of a daemon
\* that is not there; an answer stays an answer.
Reported(o) ==
  IF o \notin {"answer", "notready"} /\ ctx = "expired" THEN "deadline" ELSE o

\* The deferred conn.Close.
ClosedOnReturn == IF conn = "none" THEN "none" ELSE "closed"

\* close(stop), conn.Close, the error's name, cancel: in this order.
Unwind ==
  /\ pc = "unwind"
  /\ pc' = "returned"
  /\ conn' = ClosedOnReturn
  /\ result' = Reported(pend)
  /\ UNCHANGED <<ctx, dog, unsent, wire, sent, daemon, texts, ended, pend>>

\* Wrong on purpose: the watchdog sees the deadline and leaves it at that.
DogLooks == conn

\* What the watchdog does to the connection when the context is done.
DogCloses == "closed"

WatchdogFires ==
  /\ dog = "watching"
  /\ ctx = "expired" \/ pc = "returned"
  /\ dog' = "gone"
  /\ conn' = DogCloses
  /\ UNCHANGED <<pc, ctx, unsent, wire, sent, daemon, texts, ended, pend, result>>

\* stop is closed; of two channels that are ready, select takes either.
WatchdogStops ==
  /\ dog = "watching"
  /\ pc = "returned"
  /\ dog' = "gone"
  /\ UNCHANGED <<pc, ctx, conn, unsent, wire, sent, daemon, texts, ended, pend, result>>

DaemonSends ==
  /\ pc \in {"write", "read"}
  /\ conn = "open"
  /\ daemon = "up"
  /\ sent < MaxFrames
  /\ sent' = sent + 1
  /\ \E f \in Frames : wire' = Append(wire, f)
  /\ UNCHANGED <<pc, ctx, dog, conn, unsent, daemon, texts, ended, pend, result>>

DaemonGoesAway ==
  /\ pc \in {"write", "read"}
  /\ daemon = "up"
  /\ daemon' \in Ends
  /\ UNCHANGED <<pc, ctx, dog, conn, unsent, wire, sent, texts, ended, pend, result>>

Terminated == pc = "returned" /\ dog # "watching" /\ UNCHANGED vars

Client ==
  \/ DialTimesOut \/ WriteFails
  \/ ReadText \/ ReadIgnored \/ ReadDone \/ ReadFault \/ ReadEnd \/ ReadClosed
  \/ Unwind

Daemon ==
  \/ DialSucceeds \/ DialFails \/ WriteFrame
  \/ DaemonSends \/ DaemonGoesAway

Watchdog == WatchdogFires \/ WatchdogStops

Next == Start \/ Expire \/ FrameRefused \/ Client \/ Daemon \/ Watchdog \/ Terminated

\* Fairness: the two goroutines run and the clock goes on; nothing is asked of
\* the daemon.
Spec ==
  /\ Init /\ [][Next]_vars
  /\ WF_vars(Client) /\ WF_vars(Watchdog) /\ WF_vars(Expire)

-----------------------------------------------------------------------------

Contract == INSTANCE InferdCall WITH
  call    <- CASE pc = "start"    -> "before"
               [] pc = "returned" -> result
               [] OTHER           -> "out",
  expired <- ctx = "expired"

\* Post keeps the contract the middleware is written against: a blown deadline
\* and a wire fault are told apart although the watchdog turns the one into the
\* other, and neither hides a daemon that is not there (Post's deferred
\* rewriting, readResult, isTransientConnect).
KeepsContract == Contract!Spec

\* An answer that was read to its end reaches the caller, even if the deadline
\* passes before Post has returned; and a part of an answer is passed on only if
\* the daemon itself broke it off, never because of this side's deadline.
CompleteAnswerKept ==
  pc = "returned" =>
    /\ ended => result = "answer"
    /\ result = "answer" /\ ~ended => daemon # "up" /\ texts > 0

\* A call comes back and its watchdog goes, though the daemon may never say a
\* word ("not fail-open, it is a hang", DefaultTimeout).
ComesBack == (pc = "dial") ~> (pc = "returned" /\ dog # "watching" /\ conn # "open")
=============================================================================
