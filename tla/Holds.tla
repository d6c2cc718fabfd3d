------------------------------- MODULE Holds -------------------------------
(***************************************************************************)
(* Commands that hold for a tab: the readiness check before a screenshot   *)
(* (readiness.ts), which polls the network tracker, and waitFor            *)
(* (handlers/wait.ts), which watches the tab for a url or for its load and *)
(* then asks its content script (content/wait.ts).                         *)
(*                                                                         *)
(* One command is observed, of a kind chosen at the start; events its kind *)
(* never looks at are left out.  A tick is the step of the clock the       *)
(* thresholds are given in, and a timer fires at its time.                 *)
(***************************************************************************)
EXTENDS Network, FiniteSetsExt

CONSTANTS Critical,            \* requests of a type that blocks rendering
          Poll, Stall,         \* POLL_INTERVAL_MS, three idle thresholds
          MaxWait, VisualMax,  \* of the readiness check
          Reserve, Margin,     \* CAPTURE_RESERVE_MS, WAIT_TIMEOUT_MARGIN_MS
          Budgets, Timeouts,   \* what is left of a command's budget; --timeout
          LastStart, MaxNavs   \* bounds: when the command starts, navigations

ASSUME HoldsAssumption ==
  /\ Critical \subseteq Requests /\ Poll \in Nat \ {0}
  /\ {Stall, MaxWait, VisualMax, Reserve, Margin, LastStart, MaxNavs} \subseteq Nat
  /\ Budgets \subseteq Nat /\ Timeouts \subseteq Nat
  /\ \A b \in Budgets : LastStart + b <= MaxTime

VARIABLES
  kind,      \* what the command is: "ready", "url" or "page"
  hold,      \* where it stands, and its times
  tab,       \* the tab: open, shown ("loading" or "complete"), there (its url matches), script
  navs,      \* navigations so far
  listening, \* the command's listeners are up
  look,      \* its tabs.get: none, asked, or answered with a tab
  news       \* tab events on their way to the listeners

watching == <<tab, navs, listening, look, news>>
holdVars == <<kind, hold, watching>>
allVars  == <<vars, holdVars>>

Tabs   == [open : BOOLEAN, shown : {"loading", "complete"}, there : BOOLEAN, script : BOOLEAN]
NoLook == [at |-> "none", tab |-> CHOOSE t \in Tabs : TRUE]
Asked  == [NoLook EXCEPT !.at = "asked"]

\* A phase the background page's own timer ends.
Timed == {"critical", "visual", "render", "watch", "load", "delay"}

HoldInit ==
  /\ Init
  /\ kind \in {"ready", "url", "page"}
  /\ hold = [at |-> "new", began |-> 0, due |-> 0, until |-> 0, cap |-> 0, wake |-> 0,
             images |-> FALSE]
  /\ tab \in Tabs /\ tab.open
  /\ tab.script => tab.shown = "complete"
  /\ kind = "ready" => tab = [open |-> TRUE, shown |-> "loading", there |-> FALSE, script |-> FALSE]
  /\ navs = 0 /\ listening = FALSE /\ look = NoLook /\ news = <<>>

Least(a, b) == Min({a, b})
Left(due, slack) == IF due < now + slack THEN 0 ELSE due - now - slack

Over(why) == [hold EXCEPT !.at = why, !.wake = 0]

----------------------------------------------------------------------------
(* The readiness check *)

Blocking == {i \in Pending : entries[i].id \in Critical}

\* Seeded fault: activity is measured from the poll that found something pending.
LastPolled == IF IsIdle THEN 0 ELSE now

\* tabStatus().lastActivity
LastActivity == Max({0} \cup {entries[i].at : i \in InWindow})

\* Phase 3 races the tab's own render check against the deadline.
Rendering(h) == [h EXCEPT !.at = "render", !.wake = Max({h.until, now})]

\* One look of phase 2.
Visual(h) ==
  IF now < h.cap /\ ~IsIdle THEN [h EXCEPT !.at = "visual", !.wake = Least(now + Poll, h.cap)]
  ELSE Rendering(h)

\* Seeded fault: images have their own limit, whatever is left of the wait.
VisualOwnCap(h) == IF h.images THEN Visual([h EXCEPT !.cap = now + VisualMax]) ELSE Rendering(h)

\* Phase 1 is over; phase 2 is for a caller that wants the images.
AfterCritical(h) ==
  IF h.images THEN Visual([h EXCEPT !.cap = Least(now + VisualMax, h.until)]) ELSE Rendering(h)

\* One look of phase 1.
CriticalLook(h) ==
  IF now < h.until /\ Blocking # {} /\ now - LastActivity <= Stall
  THEN [h EXCEPT !.at = "critical", !.wake = Least(now + Poll, h.until)]
  ELSE AfterCritical(h)

\* waitForPageReady
StartReady ==
  /\ kind = "ready" /\ hold.at = "new" /\ now <= LastStart
  /\ \E b \in Budgets, wanted \in BOOLEAN :
       LET h == [hold EXCEPT !.began = now, !.due = now + b, !.images = wanted,
                             !.until = now + Least(MaxWait, Left(now + b, Reserve))]
       IN hold' = IF IsIdle THEN Rendering(h) ELSE CriticalLook(h)
  /\ UNCHANGED <<vars, kind, watching>>

LookCritical ==
  /\ hold.at = "critical" /\ now = hold.wake
  /\ hold' = CriticalLook(hold)
  /\ UNCHANGED <<vars, kind, watching>>

LookVisual ==
  /\ hold.at = "visual" /\ now = hold.wake
  /\ hold' = Visual(hold)
  /\ UNCHANGED <<vars, kind, watching>>

\* The render check answers, fails, or is given up.
RenderEnds ==
  /\ hold.at = "render" /\ hold' = Over("over")
  /\ UNCHANGED <<vars, kind, watching>>

----------------------------------------------------------------------------
(* The tab *)

\* An event reaches the listeners that are up when it happens.
Changed(t) ==
  /\ tab' = t
  /\ news' = IF listening THEN Append(news, t) ELSE news
  /\ UNCHANGED <<vars, kind, hold, listening>>

Navigate ==
  /\ tab.open /\ navs < MaxNavs /\ navs' = navs + 1
  /\ \E there \in BOOLEAN :
       Changed([tab EXCEPT !.shown = "loading", !.there = there, !.script = FALSE])
  /\ UNCHANGED look

PageLoads == tab.open /\ tab.shown = "loading" /\ Changed([tab EXCEPT !.shown = "complete"]) /\ UNCHANGED <<navs, look>>

\* The manifest's content script runs at document_idle, also after the load.
ScriptRuns ==
  /\ tab.open /\ ~tab.script /\ tab.shown = "complete" /\ tab' = [tab EXCEPT !.script = TRUE]
  /\ UNCHANGED <<vars, kind, hold, navs, listening, look, news>>

TabCloses == tab.open /\ Changed([tab EXCEPT !.open = FALSE, !.script = FALSE]) /\ UNCHANGED <<navs, look>>

\* The browser answers tabs.get.
LookAnswered ==
  /\ look.at = "asked" /\ look' = [at |-> "answered", tab |-> tab]
  /\ UNCHANGED <<vars, kind, hold, tab, navs, listening, news>>

----------------------------------------------------------------------------
(* waitForUrl, awaitTabComplete *)

\* waitLimit
WaitLimit(due, timeout) == Least(timeout, Left(due, Margin))

\* Seeded fault: the listeners go up once the first look is answered.
ListenLater == listening' = FALSE /\ look' = Asked

\* The listeners go up before the tab is asked for.
ListenFirst == listening' = TRUE /\ look' = Asked

StartWait ==
  /\ kind \in {"url", "page"} /\ hold.at = "new" /\ now <= LastStart
  /\ \E b \in Budgets, timeout \in Timeouts :
       hold' = [hold EXCEPT !.began = now, !.due = now + b,
                            !.at = IF kind = "url" THEN "watch" ELSE "load",
                            !.wake = now + WaitLimit(now + b, timeout),
                            !.until = Least(now + timeout, now + b)]
  /\ ListenFirst
  /\ UNCHANGED <<vars, kind, tab, navs, news>>

Watching == hold.at \in {"watch", "load"}

\* What the wait is after.
Meets(t) == t.open /\ IF kind = "url" THEN t.there ELSE t.shown = "complete"

\* done(): the listeners and the timer go, and nothing is heard any more.
Settle(h) == hold' = h /\ listening' = FALSE /\ look' = NoLook /\ news' = <<>>

\* The url wait answers; the page wait goes on to the content script.
Met == IF kind = "url" THEN Over("found") ELSE [hold EXCEPT !.at = "send", !.wake = 0]

Hear(t) ==
  IF ~t.open THEN Settle(Over("closed"))
  ELSE Meets(t) /\ Settle(Met)

HearNews ==
  /\ Watching /\ news # <<>>
  /\ \/ Hear(Head(news))
     \/ /\ Head(news).open /\ ~Meets(Head(news))
        /\ news' = Tail(news) /\ UNCHANGED <<hold, listening, look>>
  /\ UNCHANGED <<vars, kind, tab, navs>>

\* The first look arrives; a tab that does not meet it leaves the wait to the events.
HearLook ==
  /\ Watching /\ look.at = "answered"
  /\ \/ Hear(look.tab)
     \/ /\ look.tab.open /\ ~Meets(look.tab)
        /\ look' = NoLook /\ listening' = TRUE /\ UNCHANGED <<hold, news>>
  /\ UNCHANGED <<vars, kind, tab, navs>>

WaitExpires ==
  /\ Watching /\ now = hold.wake
  /\ Settle(Over("timeout"))
  /\ UNCHANGED <<vars, kind, tab, navs>>

----------------------------------------------------------------------------
(* waitInPage, once the tab has loaded *)

\* deadline - env.now()
PageLeft == Left(hold.until, Margin)

\* The message reaches a content script, which polls for what is left.
Send ==
  /\ hold.at = "send" /\ tab.script
  /\ hold' = [hold EXCEPT !.at = "page", !.wake = now + PageLeft]
  /\ UNCHANGED <<vars, kind, watching>>

\* It finds nobody: the tab is looked up, and the wait retries or is over.
SendMisses ==
  /\ hold.at = "send" /\ ~tab.script
  /\ hold' = IF ~tab.open THEN Over("closed")
             ELSE IF PageLeft = 0 THEN Over("timeout")
             ELSE [hold EXCEPT !.at = "delay", !.wake = now + Least(Poll, PageLeft)]
  /\ UNCHANGED <<vars, kind, watching>>

Resend ==
  /\ hold.at = "delay" /\ now = hold.wake
  /\ hold' = [hold EXCEPT !.at = "send", !.wake = 0]
  /\ UNCHANGED <<vars, kind, watching>>

\* The page answers in time; what it says dies with the document.
PageAnswers ==
  /\ hold.at = "page"
  /\ \/ now < hold.wake /\ hold' = Over("found")
     \/ now >= hold.wake /\ hold' = Over("timeout")
     \/ ~tab.script /\ hold' = Over("failed")
  /\ UNCHANGED <<vars, kind, watching>>

----------------------------------------------------------------------------

\* What happens once the command is over is not followed.
Going == hold.at \in Timed \cup {"new", "send", "page"}

Elapse == Going /\ Tick /\ (hold.at \in Timed => now < hold.wake) /\ UNCHANGED holdVars

NetworkSteps ==
  /\ kind = "ready" /\ Going
  /\ Clear \/ \E r \in Requests : Begin(r) \/ Redirect(r) \/ Complete(r) \/ Fail(r)
  /\ UNCHANGED holdVars

TabSteps == kind # "ready" /\ Going /\ (Navigate \/ PageLoads \/ ScriptRuns \/ TabCloses \/ LookAnswered)

HoldNext ==
  \/ Elapse \/ NetworkSteps \/ TabSteps
  \/ StartReady \/ LookCritical \/ LookVisual \/ RenderEnds
  \/ StartWait \/ HearNews \/ HearLook \/ WaitExpires
  \/ Send \/ SendMisses \/ Resend \/ PageAnswers

HoldSpec == HoldInit /\ [][HoldNext]_allVars

----------------------------------------------------------------------------
(* Properties *)

\* A request that hangs does not hold a capture until maxWait: phase 1 goes on
\* only while the tab keeps starting requests (readiness.ts, "one hung fetch").
HungGivenUp ==
  hold.at = "critical" => \E r \in Mine : hops[r] > 0 /\ now <= begun[r] + Stall + Poll

\* Every hold leaves the command the time it promises: the readiness check ends
\* with the reserve of the capture unspent, a wait raises its own message before
\* the dispatcher's COMMAND_TIMEOUT; a command with less than that holds nothing.
InTime ==
  hold.at \in Timed =>
    now + (IF kind = "ready" THEN Reserve ELSE Margin) <= hold.due \/ now = hold.began

\* A wait that goes on has missed nothing: what it is after, or the end of the
\* tab, has not happened yet or is on its way to it.
NothingMissed ==
  Watching /\ (Meets(tab) \/ ~tab.open) =>
    \/ look.at = "asked"
    \/ look.at = "answered" /\ (Meets(look.tab) \/ ~look.tab.open)
    \/ \E i \in DOMAIN news : Meets(news[i]) \/ ~news[i].open
=============================================================================
