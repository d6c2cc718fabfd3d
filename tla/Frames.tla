------------------------------- MODULE Frames -------------------------------
(***************************************************************************)
(* Child-frame observation of one tab: the registry of the background page *)
(* (extension/src/frames.ts), the frame side of the content script         *)
(* (page.ts), a command sent into a frame (executeInFrame of               *)
(* handlers/dom.ts) and the waits for a frame (awaitFrame, and waitInFrame *)
(* of handlers/wait.ts).                                                   *)
(*                                                                         *)
(* Documents are numbered in the order the frames load them, and a         *)
(* document opens at most one port, so a port is its document's number.    *)
(* Documents of one url report in order; the port of another url's         *)
(* document may connect late, and the end of a port may come long after.   *)
(***************************************************************************)
EXTENDS Naturals

CONSTANTS ChildFrames, Urls,
          Matching,        \* the urls the pattern of the watch matches
          Waits,           \* waits for a frame, each made once
          Any,             \* the criterion of listFrames: whatever frame connects
          MaxDocs, MaxGen  \* bounds: documents loaded, generations

ASSUME FramesAssumption ==
  /\ ChildFrames # {} /\ Urls # {} /\ Matching \subseteq Urls /\ Any \notin ChildFrames /\ {MaxDocs, MaxGen} \subseteq Nat

Docs == 1 .. MaxDocs

VARIABLES
  tabOpen, loads,      \* the tab; documents loaded so far
  live, doc,           \* live[f]: the document of frame f, or 0; doc[d]: its frame and url
  script, port, bye,   \* of each document: its script, its port; ports whose end is unreported
  quiet,               \* documents whose onDOMContentLoaded is to come
  injection,           \* injection[d]: the executeScript call made when d loaded
  watch, generation,   \* the watch's generation, or 0; this.generation
  seen,                \* seen[d]: the watch that was told of document d, or 0
  pending, entry,      \* of each frame: the document injected and awaited, the port on record
  errors,              \* frames with an injection error
  wait                 \* the waits

documents == <<tabOpen, loads, live, doc, quiet>>
registry  == <<watch, generation, pending, entry, errors>>
vars      == <<documents, script, port, bye, injection, seen, registry, wait>>

Init ==
  /\ tabOpen = TRUE /\ loads = 0 /\ bye = {} /\ quiet = {}
  /\ live = [f \in ChildFrames |-> 0]
  /\ doc = [d \in Docs |-> [frame |-> CHOOSE f \in ChildFrames : TRUE, url |-> CHOOSE u \in Urls : TRUE]]
  /\ script = [d \in Docs |-> "none"] /\ port = [d \in Docs |-> "none"]
  /\ injection = [d \in Docs |-> "none"] /\ seen = [d \in Docs |-> 0]
  /\ watch = 0 /\ generation = 0
  /\ pending = [f \in ChildFrames |-> 0] /\ entry = [f \in ChildFrames |-> 0] /\ errors = {}
  /\ wait = [w \in Waits |-> [at |-> "new", target |-> Any, port |-> 0, watch |-> 0, late |-> FALSE]]

IsLive(d) == d # 0 /\ live[doc[d].frame] = d

----------------------------------------------------------------------------
(* The waits: awaitFrame settles a wait, waitInFrame goes on from there *)

Matches(w, frames) == wait[w].target \in frames \cup (IF frames = {} THEN {} ELSE {Any})

\* What the handler makes of a frame that was found: listFrames answers,
\* waitInFrame sends the action to the frame.
Found(w, entries) ==
  IF wait[w].target = Any THEN [wait[w] EXCEPT !.at = "found"]
  ELSE [wait[w] EXCEPT !.at = "sending", !.port = entries[wait[w].target]]

\* Seeded fault: an admission does not reach the waits.
NotifyNobody(frames, entries) == wait' = wait

\* notifyWaits
NotifyWaits(frames, entries) ==
  wait' = [w \in Waits |-> IF wait[w].at = "waiting" /\ Matches(w, frames)
                           THEN Found(w, entries) ELSE wait[w]]

\* endWaits
EndWaits(outcome) ==
  wait' = [w \in Waits |-> IF wait[w].at = "waiting" THEN [wait[w] EXCEPT !.at = outcome] ELSE wait[w]]

AwaitFrame(w, target) ==
  LET asked  == [wait[w] EXCEPT !.target = target]
      frames == {f \in ChildFrames : entry[f] # 0}
      hit    == IF target = Any THEN frames # {} ELSE target \in frames
  IN wait' = [wait EXCEPT ![w] =
       CASE watch = 0                       -> [asked EXCEPT !.at = "unwatched"]
         [] watch # 0 /\ hit /\ target = Any -> [asked EXCEPT !.at = "found"]
         [] watch # 0 /\ hit /\ target # Any -> [asked EXCEPT !.at = "sending", !.port = entry[target]]
         [] watch # 0 /\ ~hit /\ asked.late  -> [asked EXCEPT !.at = "timeout"]
         [] OTHER                            -> [asked EXCEPT !.at = "waiting", !.watch = watch]]

BeginWait(w) ==
  /\ wait[w].at = "new"
  /\ \E target \in ChildFrames \cup {Any} : AwaitFrame(w, target)
  /\ UNCHANGED <<documents, script, port, bye, injection, seen, registry>>

\* Seeded fault: a wait arms no timer.
DeadlineUnarmed(w) ==
  /\ wait[w].at \in {"waiting", "sending", "asked", "lookup", "delay"} /\ ~wait[w].late
  /\ wait' = [wait EXCEPT ![w].late = TRUE]
  /\ UNCHANGED <<documents, script, port, bye, injection, seen, registry>>

\* The deadline passes: the wait's timer, if it has one, settles it.
Deadline(w) ==
  /\ wait[w].at \in {"waiting", "sending", "asked", "lookup", "delay"} /\ ~wait[w].late
  /\ wait' = [wait EXCEPT ![w].late = TRUE, ![w].at = IF @ = "waiting" THEN "timeout" ELSE @]
  /\ UNCHANGED <<documents, script, port, bye, injection, seen, registry>>

\* executeInFrame: an unobserved frame is refused at once, else the message goes out.
Send(w) ==
  LET d == entry[wait[w].target]
  IN /\ wait[w].at = "sending"
     /\ wait' = [wait EXCEPT
          ![w].at = IF d # 0 THEN "asked" ELSE IF wait[w].late THEN "timeout" ELSE "delay",
          ![w].port = d]
     /\ UNCHANGED <<documents, script, port, bye, injection, seen, registry>>

\* The script the message met answers, be it that it is deactivated, or the browser
\* rejects the call for want of an answer.  Neither need ever happen.
Answer(w) ==
  /\ wait[w].at = "asked"
  /\ wait' = [wait EXCEPT ![w].at = "answered"]
  /\ UNCHANGED <<documents, script, port, bye, injection, seen, registry>>

\* The message meets nobody: the error is looked into before it is classified.
NoReceiver(w) ==
  LET now == live[wait[w].target]
  IN /\ wait[w].at = "asked" /\ (now # 0 => script[now] = "none")
     /\ wait' = [wait EXCEPT ![w].at = "lookup"]
     /\ UNCHANGED <<documents, script, port, bye, injection, seen, registry>>

\* Seeded fault: the send that met nobody drops whatever entry there is now.
ForgetAny(f, d) == entry' = [entry EXCEPT ![f] = 0]

\* forget: only the entry the send was aimed at.
Forget(f, d) == entry' = [entry EXCEPT ![f] = IF @ = d THEN 0 ELSE @]

\* describeTabError: tabs.get answers or rejects.
Missing(w) ==
  /\ wait[w].at = "lookup"
  /\ IF tabOpen THEN Forget(wait[w].target, wait[w].port) ELSE entry' = entry
  /\ wait' = [wait EXCEPT ![w].at =
       IF ~tabOpen THEN "closed" ELSE IF wait[w].late THEN "timeout" ELSE "delay"]
  /\ UNCHANGED <<documents, script, port, bye, injection, seen, watch, generation, pending, errors>>

\* The retry of waitInFrame.
Retry(w) ==
  /\ wait[w].at = "delay"
  /\ AwaitFrame(w, wait[w].target)
  /\ UNCHANGED <<documents, script, port, bye, injection, seen, registry>>

----------------------------------------------------------------------------
(* The frames' side *)

\* A frame loads a document; the one it showed takes its script and port along.
Navigate(f, u) ==
  LET d   == loads + 1
      old == live[f]
  IN /\ tabOpen /\ d \in Docs
     /\ loads' = d /\ live' = [live EXCEPT ![f] = d]
     /\ doc' = [doc EXCEPT ![d] = [frame |-> f, url |-> u]]
     /\ quiet' = quiet \cup {d}
     /\ bye' = IF old # 0 /\ port[old] \in {"connecting", "open"} THEN bye \cup {old} ELSE bye
     /\ UNCHANGED <<tabOpen, script, port, injection, seen, registry, wait>>

\* The script of a call runs in the document its frame has by then.  Once per
\* document: a second run finds STARTED and leaves.
RunScript(d) ==
  LET now == live[doc[d].frame]
  IN /\ injection[d] = "called" /\ now # 0 /\ now \notin quiet \* runAt: document_idle
     /\ injection' = [injection EXCEPT ![d] = "ran"]
     /\ script' = IF script[now] = "none" THEN [script EXCEPT ![now] = "running"] ELSE script
     /\ port' = IF script[now] = "none" THEN [port EXCEPT ![now] = "connecting"] ELSE port
     /\ UNCHANGED <<documents, bye, seen, registry, wait>>

\* The frame hears of the deactivation or of the end of its port: both are final.
Deactivate(d) ==
  /\ IsLive(d) /\ port[d] = "dropped" /\ script[d] = "running"
  /\ script' = [script EXCEPT ![d] = "silent"]
  /\ UNCHANGED <<documents, port, bye, injection, seen, registry, wait>>

----------------------------------------------------------------------------
(* The registry *)

Watch ==
  /\ watch = 0 /\ generation < MaxGen  \* the tab may have closed during the command's await
  /\ generation' = generation + 1 /\ watch' = generation'
  /\ errors' = {}
  /\ UNCHANGED <<documents, script, port, bye, injection, seen, pending, entry, wait>>

\* Seeded fault: the ports stay open.
ReleasedNone == port

\* Every frame script is told to stop, and its port goes.
Released == [d \in Docs |-> IF entry[doc[d].frame] = d THEN "dropped" ELSE port[d]]

Unwatch ==
  /\ watch # 0
  /\ watch' = 0 /\ generation' = generation + 1
  /\ port' = Released
  /\ pending' = [f \in ChildFrames |-> 0] /\ entry' = [f \in ChildFrames |-> 0] /\ errors' = {}
  /\ EndWaits("unwatched")
  /\ UNCHANGED <<documents, script, bye, injection, seen>>

TabRemoved ==
  /\ tabOpen /\ tabOpen' = FALSE
  /\ live' = [f \in ChildFrames |-> 0] /\ quiet' = {}
  /\ watch' = 0
  /\ pending' = [f \in ChildFrames |-> 0] /\ entry' = [f \in ChildFrames |-> 0] /\ errors' = {}
  /\ IF watch # 0 THEN EndWaits("closed") ELSE wait' = wait
  /\ UNCHANGED <<loads, doc, script, port, bye, injection, seen, generation>>

\* The pending record a new document of the frame would repeat.
Awaited(d) == LET p == pending[doc[d].frame] IN p # 0 /\ doc[p].url = doc[d].url

\* frameLoaded: the record is written before the injection is called.
FrameLoaded(d) ==
  LET f == doc[d].frame
  IN /\ d \in quiet /\ quiet' = quiet \ {d}
     /\ \A e \in 1 .. (d - 1) : doc[e].frame = f =>
          e \notin quiet /\ (port[e] = "connecting" => doc[e].url # doc[d].url)
     /\ IF watch = 0 THEN UNCHANGED <<seen, pending, errors, injection>>
        ELSE /\ seen' = [seen EXCEPT ![d] = watch]
             /\ IF doc[d].url \notin Matching
                THEN pending' = [pending EXCEPT ![f] = 0] /\ UNCHANGED <<errors, injection>>
                ELSE IF Awaited(d) THEN UNCHANGED <<pending, errors, injection>>
                ELSE /\ pending' = [pending EXCEPT ![f] = d]
                     /\ errors' = errors \ {f}
                     /\ injection' = [injection EXCEPT ![d] = "called"]
     /\ UNCHANGED <<tabOpen, loads, live, doc, script, port, bye, watch, generation, entry, wait>>

\* executeScript rejects, before the script ran or after it (the document may
\* be gone by the time of the reply): only its own record is dropped.
InjectFails(d) ==
  LET f == doc[d].frame
      p == pending[f]
  IN /\ injection[d] \in {"called", "ran"}
     /\ injection' = [injection EXCEPT ![d] = "over"]
     /\ errors' = IF watch = 0 THEN errors ELSE errors \cup {f}
     /\ pending' = IF watch # 0 /\ p # 0 /\ doc[p].url = doc[d].url /\ seen[p] = seen[d]
                   THEN [pending EXCEPT ![f] = 0] ELSE pending
     /\ UNCHANGED <<documents, script, port, bye, seen, watch, generation, entry, wait>>

InjectReturns(d) ==
  /\ injection[d] = "ran"
  /\ injection' = [injection EXCEPT ![d] = "over"]
  /\ UNCHANGED <<documents, script, port, bye, seen, registry, wait>>

\* Seeded fault: any pending record of the frame admits the port.
AdmitsAny(d) == watch # 0 /\ pending[doc[d].frame] # 0

\* admit: an injection of this watch, made for this url, awaits the frame.
Admits(d) ==
  LET p == pending[doc[d].frame]
  IN watch # 0 /\ p # 0 /\ seen[p] = watch /\ doc[p].url = doc[d].url

Connected(d) ==
  LET f == doc[d].frame
  IN /\ port[d] = "connecting"
     /\ IF Admits(d)
        THEN /\ port' = [port EXCEPT ![d] = "open"]
             /\ pending' = [pending EXCEPT ![f] = 0] /\ errors' = errors \ {f}
             /\ entry' = [entry EXCEPT ![f] = d]
             /\ NotifyWaits({f}, entry')
        ELSE /\ port' = [port EXCEPT ![d] = "dropped"]
             /\ UNCHANGED <<pending, errors, entry, wait>>
     /\ UNCHANGED <<documents, script, bye, injection, seen, watch, generation>>

\* Seeded fault: the end of any port of the frame drops its entry.
DropAny(d) == [entry EXCEPT ![doc[d].frame] = 0]

\* A disconnect only counts for the port still on record.
Drop(d) == [entry EXCEPT ![doc[d].frame] = IF @ = d THEN 0 ELSE @]

FrameDisconnected(d) ==
  /\ d \in bye /\ port[d] # "connecting"
  /\ bye' = bye \ {d}
  /\ entry' = IF port[d] = "open" THEN Drop(d) ELSE entry
  /\ UNCHANGED <<documents, script, port, injection, seen, watch, generation, pending, errors, wait>>

WaitSteps(w) ==
  \/ BeginWait(w) \/ Deadline(w)
  \/ Send(w) \/ Answer(w) \/ NoReceiver(w)
  \/ Missing(w) \/ Retry(w)

Next ==
  \/ Watch \/ Unwatch \/ TabRemoved
  \/ \E f \in ChildFrames, u \in Urls : Navigate(f, u)
  \/ \E d \in Docs : \/ RunScript(d) \/ Deactivate(d) \/ FrameLoaded(d)
                     \/ InjectFails(d) \/ InjectReturns(d)
                     \/ Connected(d) \/ FrameDisconnected(d)
  \/ \E w \in Waits : WaitSteps(w)

Spec == Init /\ [][Next]_vars

\* Timers fire and the extension's own continuations run.  Nothing is asked of a
\* frame or of the browser: a message and a lookup may stay unanswered for ever.
FairSpec == Spec /\ \A w \in Waits : WF_vars(Deadline(w)) /\ WF_vars(Send(w) \/ Retry(w))

----------------------------------------------------------------------------
(* Properties *)

\* A frame is on record for the port of a document this watch was told of
\* (no backfill, and no document injected for an earlier watch), whose url the
\* watch wants; the document is still there or the end of its port is to come.
EntrySound ==
  \A f \in ChildFrames : LET d == entry[f] IN
    d # 0 => /\ watch # 0 /\ seen[d] = watch /\ doc[d].url \in Matching
             /\ port[d] = "open" /\ (IsLive(d) \/ d \in bye)

\* No frame script is left answering behind the registry's back: as long as its
\* document lives, a port that is open is the one on record.  An unwatch, a late
\* end of an older port and a send that met nobody all leave this so.
NoStray == \A d \in Docs : IsLive(d) /\ port[d] = "open" => entry[doc[d].frame] = d

\* The table says of every frame which port answers for it, and nothing else does.
EntriesExact == EntrySound /\ NoStray

\* A wait that is held belongs to the watch there is, and no frame it is after
\* is on record: none is stranded by an unwatch, none missed an admission.
NoneMissed ==
  \A w \in Waits : wait[w].at = "waiting" =>
    /\ watch # 0 /\ wait[w].watch = watch /\ ~wait[w].late
    /\ \A f \in ChildFrames : entry[f] # 0 => wait[w].target \notin {f, Any}

\* A held wait ends by its deadline, however often the frame is admitted, sent to
\* and lost again, unless one call it makes, the message into the frame or the
\* lookup of the tab, is never answered: that await of waitInFrame has no timer.
WaitsEnd ==
  \A w \in Waits : wait[w].at = "waiting" ~>
    \/ wait[w].at \in {"found", "answered", "timeout", "unwatched", "closed"}
    \/ [](wait[w].at = "asked")
    \/ [](wait[w].at = "lookup")
=============================================================================
