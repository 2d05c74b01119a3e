---------------------------- MODULE UpdateCheck ----------------------------
(* The update check that runs on every invocation of the CLI: Runner and     *)
(* Check (internal/update) as main starts them.  Invocations may overlap;    *)
(* they share one state file and one temporary file beside it.  An           *)
(* interactive invocation does not wait for its check and may end in the     *)
(* middle of it; the release server and the clock are external.              *)
(*                                                                           *)
(* Tags are numbers, newer ones larger, 0 is no tag; the zero state is also  *)
(* what a missing or an unreadable file is loaded as.                        *)
EXTENDS Naturals, FiniteSets

CONSTANTS
  Procs,    \* invocations that may run at the same time
  Interval, \* how long a check is good for
  MaxTag,   \* the newest release there will be
  MaxTime   \* the clock stops there: bounds the model

ASSUME UpdateAssumption ==
  /\ Interval \in Nat \ {0} /\ MaxTag \in Nat \ {0} /\ MaxTime \in Nat \ {0}

Tags == 0..MaxTag
Channels == {"headless", "interactive"}

State == [checked : 0..MaxTime, latest : Tags, notified : Tags, headlessNotified : Tags]

ZeroState == [checked |-> 0, latest |-> 0, notified |-> 0, headlessNotified |-> 0]

\* A notice is counted up to two: often enough to tell that it came twice; and
\* no further than one when coming twice has an excuse.
Twice == 2

VARIABLES
  now,       \* the clock
  release,   \* the release the server names: [tag, draft]
  installed, \* the tag of the binary on disk
  file,      \* the state file, as it would be loaded
  tmp,       \* the temporary file, as it would be loaded
  tmpThere,  \* the temporary file exists
  pc,        \* where each check stands
  channel,   \* how each invocation runs
  current,   \* the tag of the binary each runs
  mine,      \* the state each has loaded, then the one it is about to save
  handle,    \* which file each has open for writing
  told,      \* the tag each has announced
  shown,     \* how often a tag was announced on a channel
  disturbed  \* checks overlapped, or one that had announced could not save

procVars == <<pc, channel, current, mine, handle, told>>
vars == <<now, release, installed, file, tmp, tmpThere, procVars, shown, disturbed>>

Init ==
  /\ now = 1
  /\ release = [tag |-> 1, draft |-> FALSE]
  /\ installed = 1
  /\ file = ZeroState
  /\ tmp = ZeroState
  /\ tmpThere = FALSE
  /\ pc = [p \in Procs |-> "idle"]
  /\ channel = [p \in Procs |-> "interactive"]
  /\ current = [p \in Procs |-> 0]
  /\ mine = [p \in Procs |-> ZeroState]
  /\ handle = [p \in Procs |-> "none"]
  /\ told = [p \in Procs |-> 0]
  /\ shown = [c \in Channels |-> [t \in Tags |-> 0]]
  /\ disturbed = FALSE

Goto(p, l) == pc' = [pc EXCEPT ![p] = l]
At(p, l) == pc[p] = l

\* The check is over, and with it what the process knew.
Over(p) ==
  /\ Goto(p, "idle")
  /\ channel' = [channel EXCEPT ![p] = "interactive"]
  /\ current' = [current EXCEPT ![p] = 0]
  /\ mine' = [mine EXCEPT ![p] = ZeroState]
  /\ told' = [told EXCEPT ![p] = 0]

-----------------------------------------------------------------------------
(* The world: time, releases, upgrades.                                      *)

Tick ==
  /\ now < MaxTime
  /\ now' = now + 1
  /\ UNCHANGED <<release, installed, file, tmp, tmpThere, procVars, shown, disturbed>>

\* The next release appears, as a draft or at once; a draft is published.
Publish ==
  /\ \/ release.draft /\ release' = [release EXCEPT !.draft = FALSE]
     \/ /\ release.tag < MaxTag
        /\ \E d \in BOOLEAN : release' = [tag |-> release.tag + 1, draft |-> d]
  /\ UNCHANGED <<now, installed, file, tmp, tmpThere, procVars, shown, disturbed>>

\* The user installs the newest release; invocations under way keep their own.
Upgrade ==
  /\ ~release.draft
  /\ installed < release.tag
  /\ installed' = release.tag
  /\ UNCHANGED <<now, release, file, tmp, tmpThere, procVars, shown, disturbed>>

-----------------------------------------------------------------------------
(* Runner.                                                                   *)

\* main starts a check, in a goroutine it waits for in headless mode only.
Run(p) ==
  /\ At(p, "idle")
  /\ Goto(p, "load")
  /\ \E c \in Channels : channel' = [channel EXCEPT ![p] = c]
  /\ current' = [current EXCEPT ![p] = installed]
  /\ disturbed' = (disturbed \/ \E q \in Procs : ~At(q, "idle"))
  /\ UNCHANGED <<now, release, installed, file, tmp, tmpThere, mine, handle, told, shown>>

NewerThan(latest, own) == latest > own

\* The tag last announced on a channel.
Mark(s, c) == IF c = "headless" THEN s.headlessNotified ELSE s.notified

Cooling(s) == s.checked # 0 /\ now - s.checked < Interval

ReminderDue(p, s) ==
  /\ s.latest # 0
  /\ NewerThan(s.latest, current[p])
  /\ Mark(s, channel[p]) # s.latest

\* The state is loaded; a check that is recent enough is not repeated, but the
\* tag it recorded, an upgrade's or a draft's, is announced now if it is newer
\* and was not announced on this channel.
Load(p) ==
  /\ At(p, "load")
  /\ IF Cooling(file) /\ ~ReminderDue(p, file)
     THEN Over(p)
     ELSE /\ mine' = [mine EXCEPT ![p] = file]
          /\ Goto(p, IF Cooling(file) THEN "remind" ELSE "fetch")
          /\ UNCHANGED <<channel, current, told>>
  /\ UNCHANGED <<now, release, installed, file, tmp, tmpThere, handle, shown, disturbed>>

\* Wrong on purpose: announcing on one channel marks both.
MarkBoth(s, c) == [s EXCEPT !.notified = s.latest, !.headlessNotified = s.latest]

\* notify marks the channel it used.
Marked(s, c) ==
  IF c = "headless" THEN [s EXCEPT !.headlessNotified = s.latest]
  ELSE [s EXCEPT !.notified = s.latest]

\* The notice for s.latest goes out on the invocation's channel.
Notify(p, s) ==
  /\ told' = [told EXCEPT ![p] = s.latest]
  /\ shown' = [shown EXCEPT ![channel[p]][s.latest] =
                  IF @ < Twice /\ (@ = 0 \/ ~disturbed) THEN @ + 1 ELSE @]
  /\ mine' = [mine EXCEPT ![p] = Marked(s, channel[p])]

Remind(p) ==
  /\ At(p, "remind")
  /\ Notify(p, mine[p])
  /\ Goto(p, "open")
  /\ UNCHANGED <<now, release, installed, file, tmp, tmpThere,
                 channel, current, handle, disturbed>>

\* Wrong on purpose: a fetch starts from a fresh state.
Forgetful(p, t) == [ZeroState EXCEPT !.checked = now, !.latest = t]

\* What a fetch that names the tag t leads to; the marks are carried over.
Fetched(p, t) == [mine[p] EXCEPT !.checked = now, !.latest = t]

FetchFails(p) ==
  /\ At(p, "fetch")
  /\ mine' = [mine EXCEPT ![p] = Fetched(p, 0)]
  /\ Goto(p, "open")
  /\ UNCHANGED <<now, release, installed, file, tmp, tmpThere,
                 channel, current, handle, told, shown, disturbed>>

\* A draft is recorded like a release, and is no upgrade for the check that
\* fetched it; whether a release was announced is asked of the interactive mark,
\* on both channels.
UpgradeFound(p) ==
  /\ ~release.draft
  /\ NewerThan(release.tag, current[p])
  /\ release.tag # mine[p].notified

FetchQuiet(p) ==
  /\ At(p, "fetch")
  /\ ~UpgradeFound(p)
  /\ mine' = [mine EXCEPT ![p] = Fetched(p, release.tag)]
  /\ Goto(p, "open")
  /\ UNCHANGED <<now, release, installed, file, tmp, tmpThere,
                 channel, current, handle, told, shown, disturbed>>

FetchNotifies(p) ==
  /\ At(p, "fetch")
  /\ UpgradeFound(p)
  /\ Notify(p, Fetched(p, release.tag))
  /\ Goto(p, "open")
  /\ UNCHANGED <<now, release, installed, file, tmp, tmpThere,
                 channel, current, handle, disturbed>>

-----------------------------------------------------------------------------
(* saveState: write path.tmp, rename it to path.  Another invocation may be  *)
(* doing the same with the same two names.                                   *)

\* The temporary file is created or emptied.
OpenTmp(p) ==
  /\ At(p, "open")
  /\ tmp' = ZeroState
  /\ tmpThere' = TRUE
  /\ handle' = [handle EXCEPT ![p] = "tmp"]
  /\ Goto(p, "write")
  /\ UNCHANGED <<now, release, installed, file, channel, current, mine,
                 told, shown, disturbed>>

\* The state is written to whatever file the handle has become: whole, or as
\* the unreadable mix of two states if another invocation's is there already.
WriteTmp(p) ==
  /\ At(p, "write")
  /\ \E mixed \in BOOLEAN :
       LET text == IF mixed THEN ZeroState ELSE mine[p]
       IN  CASE handle[p] = "tmp"  -> /\ mixed => tmp # ZeroState
                                      /\ tmp' = text
                                      /\ UNCHANGED file
             [] handle[p] = "file" -> /\ mixed => file # ZeroState
                                      /\ file' = text
                                      /\ UNCHANGED tmp
             [] OTHER              -> ~mixed /\ UNCHANGED <<file, tmp>>
  /\ handle' = [handle EXCEPT ![p] = "none"]
  /\ Goto(p, "rename")
  /\ UNCHANGED <<now, release, installed, tmpThere, channel, current, mine,
                 told, shown, disturbed>>

\* An open handle follows its file: what was the temporary file is now the
\* state file, and what was the state file is gone.
Moved(h) == CASE h = "tmp" -> "file" [] h = "file" -> "gone" [] OTHER -> h

Rename(p) ==
  /\ At(p, "rename")
  /\ tmpThere
  /\ file' = tmp
  /\ tmp' = ZeroState
  /\ tmpThere' = FALSE
  /\ handle' = [q \in Procs |-> Moved(handle[q])]
  /\ Over(p)
  /\ UNCHANGED <<now, release, installed, shown, disturbed>>

\* Another invocation has renamed the temporary file away.
RenameFails(p) ==
  /\ At(p, "rename")
  /\ ~tmpThere
  /\ Over(p)
  /\ UNCHANGED <<now, release, installed, file, tmp, tmpThere, handle, shown, disturbed>>

\* The invocation ends before its check does, or the check cannot save.
Gone(p) ==
  /\ pc[p] # "idle"
  /\ Over(p)
  /\ handle' = [handle EXCEPT ![p] = "none"]
  /\ disturbed' = (disturbed \/ told[p] # 0)
  /\ UNCHANGED <<now, release, installed, file, tmp, tmpThere, shown>>

Check(p) ==
  \/ Load(p) \/ Remind(p)
  \/ FetchFails(p) \/ FetchQuiet(p) \/ FetchNotifies(p)
  \/ OpenTmp(p) \/ WriteTmp(p) \/ Rename(p) \/ RenameFails(p)

Next ==
  \/ Tick \/ Publish \/ Upgrade
  \/ \E p \in Procs : Run(p) \/ Check(p) \/ Gone(p)

Spec == Init /\ [][Next]_vars

-----------------------------------------------------------------------------

\* A tag that is marked as announced on a channel was announced there, through
\* every overlap of checks, lost save and mixed-up file: a notice may come
\* twice, but none is taken for given that was not; and whoever wrote the cached
\* tag, what is announced is newer than the binary that runs and was named by
\* the server, if only as a draft (notify before saveState, one mark per
\* channel, newerThan).
MarkedMeansShown ==
  /\ \A c \in Channels : Mark(file, c) # 0 => shown[c][Mark(file, c)] > 0
  /\ \A p \in Procs : told[p] # 0 => told[p] > current[p] /\ told[p] <= release.tag

\* The banner comes once per tag as long as checks neither overlap nor end
\* between the banner and the save ("one banner per new tag", runOnce).
BannerOncePerTag ==
  ~disturbed => \A t \in Tags : shown["interactive"][t] <= 1

\* "A draft or otherwise-unnamed release is not a real upgrade target; silently
\* ignore" (Check): no invocation announces a tag that is still a draft.
DraftsAreIgnored ==
  \A p \in Procs : told[p] # 0 /\ told[p] = release.tag => ~release.draft
=============================================================================
