------------------------------ MODULE Capture ------------------------------
(***************************************************************************)
(* Screenshots of one tab: the handler (handlers/screenshot.ts), the lock  *)
(* every capture of the tab passes through with its handoff of badges      *)
(* nobody cleared (capture-locks.ts), and the badge host the page holds    *)
(* (content/image.ts).                                                     *)
(*                                                                         *)
(* Messages to the page are executed in the order they were sent, at any   *)
(* later time or, while the page is frozen, never; a reload or the close   *)
(* of the tab rejects those under way.  A lock object is named by the      *)
(* capture that made the registry create it.                               *)
(***************************************************************************)
EXTENDS Naturals, Sequences

CONSTANTS Captures,   \* screenshot commands, each made once
          Annotating, \* those with --annotate
          None

ASSUME CaptureAssumption == Annotating \subseteq Captures /\ None \notin Captures

VARIABLES
  tabOpen, inbox, badges, \* the tab; messages to its page; whose badges it shows
  entry,                  \* the registry: the lock object of the tab, or None
  queue, handoff,         \* of each lock object: holder and waiters, staleAnnotations
  pc, own,                \* where a capture stands; the lock object it holds on to
  call,                   \* the browser call it awaits: out, or settled ok or bad
  late, stale,            \* captures past their deadline; those evicted
  shot                    \* what was rendered for a capture: whose badges, and done or not

page    == <<tabOpen, inbox, badges>>
locks   == <<entry, queue, handoff>>
command == <<pc, own, call, late, stale, shot>>
vars    == <<page, locks, command>>

Init ==
  /\ tabOpen = TRUE /\ inbox = <<>> /\ badges = None
  /\ entry = None
  /\ queue = [l \in Captures |-> <<>>] /\ handoff = [l \in Captures |-> FALSE]
  /\ pc = [c \in Captures |-> "new"] /\ own = [c \in Captures |-> None]
  /\ call = [c \in Captures |-> "none"] /\ late = {} /\ stale = {}
  /\ shot = [c \in Captures |-> [taken |-> FALSE, of |-> None]]

\* The part of capture() that the lock guards.
Section == {"inherited", "annotate", "capture", "clear"}

Settled(c) == call[c] \in {"ok", "bad"}

At(c, stage) == pc' = [pc EXCEPT ![c] = stage]

NoCall(c) == [call EXCEPT ![c] = "none"]

----------------------------------------------------------------------------
(* The browser and the page *)

\* executeInTab, as far as the sender goes on by itself.
Tell(c, what) ==
  /\ inbox' = IF tabOpen THEN Append(inbox, [what |-> what, by |-> c]) ELSE inbox
  /\ call' = [call EXCEPT ![c] = IF tabOpen THEN "out" ELSE "bad"]

\* The page executes the next message: annotateElements replaces the badge
\* host, removeAnnotations drops it.
PageRuns ==
  /\ inbox # <<>> /\ inbox' = Tail(inbox)
  /\ badges' = IF Head(inbox).what = "annotate" THEN Head(inbox).by ELSE None
  /\ call' = [call EXCEPT ![Head(inbox).by] = "ok"]
  /\ UNCHANGED <<tabOpen, locks, pc, own, late, stale, shot>>

Unanswered == {inbox[i].by : i \in DOMAIN inbox}

PageReloads ==
  /\ tabOpen /\ (inbox # <<>> \/ badges # None)
  /\ inbox' = <<>> /\ badges' = None
  /\ call' = [c \in Captures |-> IF c \in Unanswered THEN "bad" ELSE call[c]]
  /\ UNCHANGED <<tabOpen, locks, pc, own, late, stale, shot>>

\* captureTab renders what the tab shows, or fails.
Render(c) ==
  /\ pc[c] = "capture" /\ call[c] = "out"
  /\ \/ /\ call' = [call EXCEPT ![c] = "ok"]
        /\ shot' = [shot EXCEPT ![c] = [taken |-> TRUE, of |-> badges]]
     \/ call' = [call EXCEPT ![c] = "bad"] /\ shot' = shot
  /\ UNCHANGED <<page, locks, pc, own, late, stale>>

\* Whatever is under way in the tab fails; the registry forgets it.
TabRemoved ==
  /\ tabOpen /\ tabOpen' = FALSE
  /\ inbox' = <<>> /\ badges' = None /\ entry' = None
  /\ call' = [c \in Captures |-> IF call[c] = "out" THEN "bad" ELSE call[c]]
  /\ UNCHANGED <<queue, handoff, pc, own, late, stale, shot>>

----------------------------------------------------------------------------
(* The handler *)

\* resolveTargetTab: the answer may be of a tab that is gone by the next step.
Resolve(c) ==
  /\ pc[c] = "new"
  /\ At(c, IF tabOpen THEN "resolved" ELSE "done")
  /\ UNCHANGED <<page, locks, own, call, late, stale, shot>>

\* CaptureLocks.get, before the first await of the capture.
Begin(c) ==
  /\ pc[c] = "resolved" /\ At(c, "readiness")
  /\ own' = [own EXCEPT ![c] = IF entry = None THEN c ELSE entry]
  /\ entry' = own'[c]
  /\ UNCHANGED <<page, queue, handoff, call, late, stale, shot>>

\* The readiness check is over, in whatever way; acquire() queues.
Ready(c) ==
  /\ pc[c] = "readiness" /\ At(c, "queued")
  /\ queue' = [queue EXCEPT ![own[c]] = Append(@, c)]
  /\ UNCHANGED <<page, entry, handoff, own, call, late, stale, shot>>

\* release(): a second call changes nothing.
Released(c) ==
  IF queue[own[c]] # <<>> /\ Head(queue[own[c]]) = c
  THEN [queue EXCEPT ![own[c]] = Tail(@)] ELSE queue

\* Badges are painted by a capture that asks for them; then the tab is rendered.
Proceed(c) ==
  IF c \in Annotating THEN At(c, "annotate") /\ Tell(c, "annotate")
  ELSE At(c, "capture") /\ inbox' = inbox /\ call' = [call EXCEPT ![c] = IF tabOpen THEN "out" ELSE "bad"]

Holds(c) == pc[c] = "queued" /\ queue[own[c]] # <<>> /\ Head(queue[own[c]]) = c

\* A waiter whose whole budget went by is evicted before it enters.
GiveUp(c) ==
  /\ Holds(c) /\ c \in late
  /\ stale' = stale \cup {c} /\ queue' = Released(c) /\ At(c, "failed")
  /\ UNCHANGED <<page, entry, handoff, own, call, late, shot>>

\* Seeded fault: nobody looks for badges an evicted holder left.
EnterPlain(c) ==
  /\ Holds(c) /\ c \notin late
  /\ Proceed(c) /\ handoff' = handoff
  /\ UNCHANGED <<tabOpen, badges, entry, queue, own, late, stale, shot>>

\* The section starts: badges an evicted holder left are cleared first.
Enter(c) ==
  /\ Holds(c) /\ c \notin late
  /\ IF handoff[own[c]]
     THEN At(c, "inherited") /\ Tell(c, "remove") /\ handoff' = [handoff EXCEPT ![own[c]] = FALSE]
     ELSE Proceed(c) /\ handoff' = handoff
  /\ UNCHANGED <<tabOpen, badges, entry, queue, own, late, stale, shot>>

\* ensureLive after the inherited cleanup, which may have failed.
Inherited(c) ==
  /\ pc[c] = "inherited" /\ Settled(c)
  /\ IF c \in stale THEN At(c, "failed") /\ inbox' = inbox /\ call' = NoCall(c) ELSE Proceed(c)
  /\ UNCHANGED <<tabOpen, badges, locks, own, late, stale, shot>>

\* ensureLive after annotate, which may have failed.
Annotated(c) ==
  /\ pc[c] = "annotate" /\ Settled(c)
  /\ IF c \in stale THEN At(c, "failed") /\ call' = NoCall(c)
     ELSE At(c, "capture") /\ call' = [call EXCEPT ![c] = IF tabOpen THEN "out" ELSE "bad"]
  /\ UNCHANGED <<page, locks, own, late, stale, shot>>

\* The section ends: an image goes on to fit(), a failure to the catch.
Leave(c) ==
  queue' = Released(c) /\ At(c, IF shot[c].taken THEN "fit" ELSE "failed") /\ call' = NoCall(c)

\* The capture settled: a holder that was not evicted clears its own badges.
Captured(c) ==
  /\ pc[c] = "capture" /\ Settled(c)
  /\ IF c \in Annotating \ stale
     THEN At(c, "clear") /\ Tell(c, "remove") /\ queue' = queue
     ELSE Leave(c) /\ inbox' = inbox
  /\ UNCHANGED <<tabOpen, badges, entry, handoff, own, late, stale, shot>>

Cleared(c) ==
  /\ pc[c] = "clear" /\ Settled(c) /\ Leave(c)
  /\ UNCHANGED <<page, entry, handoff, own, late, stale, shot>>

\* The command is over, and with it what it knew.
Over(c) ==
  /\ At(c, "done") /\ own' = [own EXCEPT ![c] = None] /\ call' = NoCall(c)
  /\ late' = late \ {c} /\ stale' = stale \ {c}
  /\ shot' = [shot EXCEPT ![c] = [taken |-> FALSE, of |-> None]]

\* The ladder of re-encodings fits the reply, fails, or runs out of steps.
Fit(c) ==
  /\ pc[c] = "fit"
  /\ Over(c) \/ (At(c, "failed") /\ UNCHANGED <<own, call, late, stale, shot>>)
  /\ UNCHANGED <<page, locks>>

\* Seeded fault: a failed capture drops the entry without asking for the tab.
LookDrops(c) ==
  /\ pc[c] = "failed" /\ At(c, "gone")
  /\ UNCHANGED <<page, locks, own, call, late, stale, shot>>

\* The catch of screenshot() asks whether the tab is still there.
Look(c) ==
  /\ pc[c] = "failed"
  /\ IF tabOpen THEN Over(c) ELSE At(c, "gone") /\ UNCHANGED <<own, call, late, stale, shot>>
  /\ UNCHANGED <<page, locks>>

\* Seeded fault: an entry made after the tab was gone stays.
KeepEntry(c) ==
  /\ pc[c] = "gone" /\ Over(c)
  /\ UNCHANGED <<page, locks>>

\* CaptureLocks.delete: the entry was created after the tab had gone.
DropEntry(c) ==
  /\ pc[c] = "gone" /\ Over(c) /\ entry' = None
  /\ UNCHANGED <<page, queue, handoff>>

\* The deadline passes; before the lock is asked for nothing looks at it.
Deadline(c) ==
  /\ pc[c] \in {"queued"} \cup Section /\ c \notin late /\ late' = late \cup {c}
  /\ UNCHANGED <<page, locks, pc, own, call, stale, shot>>

\* Seeded fault: an evicted holder keeps the lock.
EvictKeeps(c) ==
  /\ pc[c] \in Section /\ c \in late \ stale
  /\ stale' = stale \cup {c}
  /\ UNCHANGED <<page, locks, pc, own, call, late, shot>>

\* Seeded fault: the duty to clear ends with the holder.
EvictSilently(c) ==
  /\ pc[c] \in Section /\ c \in late \ stale
  /\ stale' = stale \cup {c} /\ queue' = Released(c)
  /\ UNCHANGED <<page, entry, handoff, pc, own, call, late, shot>>

\* The holder's timer: the lock moves on, and with it the duty to clear.
Evict(c) ==
  /\ pc[c] \in Section /\ c \in late \ stale
  /\ stale' = stale \cup {c} /\ queue' = Released(c)
  /\ handoff' = [handoff EXCEPT ![own[c]] = @ \/ c \in Annotating \/ pc[c] = "inherited"]
  /\ UNCHANGED <<page, entry, pc, own, call, late, shot>>

\* Every command is done and the page has no message left.
Idle == (\A c \in Captures : pc[c] = "done") /\ inbox = <<>> /\ UNCHANGED vars

Next ==
  \/ PageRuns \/ PageReloads \/ TabRemoved \/ Idle
  \/ \E c \in Captures :
       \/ Resolve(c) \/ Begin(c) \/ Ready(c) \/ GiveUp(c) \/ Enter(c)
       \/ Inherited(c) \/ Annotated(c) \/ Render(c) \/ Captured(c) \/ Cleared(c)
       \/ Fit(c) \/ Look(c) \/ DropEntry(c) \/ Deadline(c) \/ Evict(c)

Spec == Init /\ [][Next]_vars

\* Timers fire and what waits for the lock runs once it has it.  Neither the
\* page nor captureTab is assumed to answer.
FairSpec ==
  /\ Spec
  /\ \A c \in Captures : WF_vars(Deadline(c)) /\ WF_vars(Evict(c)) /\ WF_vars(GiveUp(c) \/ Enter(c))

----------------------------------------------------------------------------
(* Properties *)

\* An image that is answered shows no badges but those its own command asked
\* for (screenshot.ts, "a plain capture can never land mid-annotation"), also
\* when the holder before was evicted while the page was frozen.
OwnImage ==
  \A c \in Captures : pc[c] \in {"clear", "fit"} /\ c \notin stale =>
    shot[c].of \in {None} \cup ({c} \cap Annotating)

\* As long as the tab is open its captures meet in one lock object, the one in
\* the registry; and no entry outlives the tab once the captures are over.
OneRendezvous ==
  /\ tabOpen => \A c \in Captures : pc[c] \in {"readiness", "queued"} \cup Section => own[c] = entry
  /\ ~tabOpen /\ (\A c \in Captures : pc[c] \in {"new", "done"}) => entry = None

\* A page that never answers holds up nobody else's capture for ever.
QueueMoves == \A c \in Captures : pc[c] = "queued" ~> pc[c] # "queued"
=============================================================================
