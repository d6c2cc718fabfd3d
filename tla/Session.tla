------------------------------ MODULE Session ------------------------------
(***************************************************************************)
(* The managed window of the background page (extension/src/session.ts)    *)
(* and the state commands that change it (handlers/window.ts, tabs.ts),    *)
(* for one lifetime of the page: from the storage and the windows that an  *)
(* earlier lifetime left behind to any moment at which this one may end.   *)
(*                                                                         *)
(* An await of a browser call is a step: what the browser does and what    *)
(* the code does with the reply happen at once, because replies and events *)
(* reach the page in order; a call that creates or closes a tab is two     *)
(* steps, so that an event may come between them.  A write to storage      *)
(* takes effect when it is issued, or fails.                               *)
(*                                                                         *)
(* From Dispatcher: one state command at a time, none before the restore   *)
(* in the memo succeeded, and a restore that hangs may be abandoned.       *)
(***************************************************************************)
EXTENDS Integers, Sequences, FiniteSets

CONSTANTS Tabs,        \* tab ids
          UserWindows, \* windows of the user
          OwnWindows,  \* windows that windows.create opens
          MaxTabs,     \* MAX_TABS
          MaxAttempts, \* bound: restores in one lifetime
          QuietFaults, \* bound: whether a write whose failure is only logged may fail
          None         \* no tab, no window, no attempt

Windows == UserWindows \cup OwnWindows

ASSUME SessionAssumption ==
  /\ UserWindows \cap OwnWindows = {} /\ None \notin Windows \cup Tabs \cup Nat
  /\ IsFiniteSet(Tabs)
  /\ MaxTabs \in Nat \ {0} /\ MaxAttempts \in Nat \ {0} /\ QuietFaults \in BOOLEAN

VARIABLES
  (* the browser *)
  place,     \* place[t]: the window of tab t, or None
  incognito, \* the private windows
  users,     \* history: the tabs the user opened in windows of theirs
  (* memory and storage *)
  session,   \* this.state; field object is the identity of the state object
  active,    \* this.activeTabId
  stored,    \* WINDOW_STATE_KEY in storage.local
  behind,    \* history: whether the latest write failed
  (* session.restore *)
  current,   \* the attempt in the memo, or None
  stage,     \* stage[a]: where attempt a stands
  saved,     \* saved[a]: the stored state that attempt a read
  plan,      \* plan[a]: the pool that attempt a is putting together
  (* commands *)
  job,       \* the state command that holds the lock
  reader     \* a concurrent command inside getSession

browser  == <<place, incognito, users>>
memory   == <<session, active>>
storage  == <<stored, behind>>
restores == <<current, stage, saved, plan>>
vars     == <<browser, memory, storage, restores, job, reader>>

Attempts == 1 .. MaxAttempts
Objects  == 0 .. 4

NoSession == [object |-> 0, windowId |-> None, tabs |-> <<>>, isPrivate |-> FALSE, adopted |-> FALSE]
NoJob     == [at |-> "idle", windowId |-> None, tab |-> None, want |-> "any", of |-> 0, tabs |-> <<>>]
NoReader  == [at |-> "idle", windowId |-> None, of |-> 0, tab |-> None]
Elems(s)      == {s[i] : i \in DOMAIN s}
Distinct(s)   == \A i, j \in DOMAIN s : s[i] = s[j] => i = j
LastOf(s)     == IF s = <<>> THEN None ELSE s[Len(s)]
Orders(S)     == {q \in [1 .. Cardinality(S) -> S] : Distinct(q)}

\* What a filter and a splice leave of s: the elements in S, in their order.  There is
\* exactly one when no element occurs twice.
Only(s, S) == {q \in Orders(Elems(s) \cap S) :
                 \A i, j \in DOMAIN q : i < j =>
                    \E k, l \in DOMAIN s : k < l /\ q[i] = s[k] /\ q[j] = s[l]}

TabsOf(w) == {t \in Tabs : place[t] = w}
Open      == {w \in Windows : TabsOf(w) # {}}
IsOpen(t) == place[t] \in Windows

(* The browser never reuses an id.  An id that nothing refers to any more is as good
   as a new one, and so is the name of a state object.  *)
Held == {session.tabs, stored.tabs, job.tabs} \cup {saved[a].tabs : a \in Attempts}
          \cup {plan[a] : a \in Attempts}

IsFreshTab(t) == /\ ~IsOpen(t) /\ t \notin {active, job.tab, reader.tab}
                 /\ \A s \in Held : t \notin Elems(s)

FreshWindows == {w \in OwnWindows \ Open :
                   w \notin {session.windowId, stored.windowId, job.windowId, reader.windowId}
                              \cup {saved[a].windowId : a \in Attempts}}

FreshObject == CHOOSE k \in Objects \ {0} : k \notin {session.object, job.of, reader.of}

----------------------------------------------------------------------------
(* Storage *)

\* Seeded fault: the state of a private window is written too.
PublicAlways(s) == [s EXCEPT !.isPrivate = FALSE, !.object = 0]

\* What persist writes: a private session leaves no key behind.
Public(s) == IF s.isPrivate THEN NoSession ELSE [s EXCEPT !.object = 0]

\* persist()
Write(s) == \/ stored' = Public(s) /\ behind' = FALSE
            \/ behind' = TRUE /\ UNCHANGED stored

Wrote == ~behind'

----------------------------------------------------------------------------
(* Events *)

\* Seeded fault: what an event changes does not reach storage.
QuietlyNever(s) == UNCHANGED storage

\* persistQuietly(), and the persist of execute(): nobody learns of a failure.
Quietly(s) == Write(s) /\ (Wrote \/ QuietFaults)

\* Tabs close, and the windows that are left without one.  onTabRemoved drops pool
\* tabs and re-points the active tab; onWindowRemoved drops the session; both persist.
Closing(S) ==
  LET shut == {w \in Open : TabsOf(w) \subseteq S}
      mine == S \cap Elems(session.tabs)
  IN /\ place' = [t \in Tabs |-> IF t \in S THEN None ELSE place[t]]
     /\ users' = users \ S
     /\ incognito' = incognito \ shut
     /\ IF session.windowId \in shut
          THEN session' = NoSession /\ active' = None /\ Quietly(NoSession)
          ELSE IF mine = {}
          THEN UNCHANGED <<session, active, storage>>
          ELSE /\ \E kept \in Only(session.tabs, Tabs \ S) : session' = [session EXCEPT !.tabs = kept]
               /\ active' = IF active \in mine THEN LastOf(session'.tabs) ELSE active
               /\ Quietly(session')

UserCloses(S) == Closing(S) /\ UNCHANGED <<restores, job, reader>>

UserClosesTab == \E t \in Tabs : IsOpen(t) /\ UserCloses({t})

UserClosesWindow == \E w \in Open : UserCloses(TabsOf(w))

UserOpensTab ==
  \E t \in Tabs, w \in Open :
     /\ IsFreshTab(t)
     /\ place' = [place EXCEPT ![t] = w]
     /\ users' = IF w \in UserWindows THEN users \cup {t} ELSE users
     /\ UNCHANGED <<incognito, memory, storage, restores, job, reader>>

\* onTabActivated: the user, or the browser when the active tab closed.
TabActivated ==
  \E t \in Elems(session.tabs) :
     /\ place[t] = session.windowId
     /\ active' = t
     /\ Quietly(session)
     /\ UNCHANGED <<browser, session, restores, job, reader>>

----------------------------------------------------------------------------
(* restore *)

\* Seeded fault: nothing is fenced.
AlwaysCurrent(a) == TRUE

\* memo.isCurrent: the epoch of a moved on when a left the memo.
IsCurrent(a) == current = a

Settle(a, how) == /\ stage' = [stage EXCEPT ![a] = how]
                  /\ saved' = [saved EXCEPT ![a] = NoSession]
                  /\ plan' = [plan EXCEPT ![a] = <<>>]

\* A rejected attempt is evicted from the memo.
Fails(a) == /\ Settle(a, "failed")
            /\ current' = IF current = a THEN None ELSE current

Succeeds(a) == Settle(a, "ok") /\ UNCHANGED current

\* sweepOnce: module Sweep has its steps.  What it does to the session is what a user
\* does who closes a window.
GoSweep(a) == Settle(a, "sweep")

SweepSettles(a) ==
  /\ stage[a] = "sweep"
  /\ Succeeds(a)
  /\ UNCHANGED <<browser, memory, storage, job, reader>>

\* restore() with no attempt in the memo; readStoredState returns at once when an
\* abandoned attempt came as far as setting the state.
StartRestore(a) ==
  /\ current = None /\ stage[a] = "none" /\ \A b \in Attempts : b < a => stage[b] # "none"
  /\ current' = a
  /\ IF session # NoSession
       THEN GoSweep(a)
       ELSE stage' = [stage EXCEPT ![a] = "read"] /\ UNCHANGED <<saved, plan>>
  /\ UNCHANGED <<browser, memory, storage, job, reader>>

\* Every command that waited for the attempt has given up.
Abandon(a) ==
  /\ current = a /\ stage[a] # "ok"
  /\ current' = None
  /\ UNCHANGED <<browser, memory, storage, stage, saved, plan, job, reader>>

\* storage.local.get
RestoreRead(a) ==
  /\ stage[a] = "read"
  /\ \/ Fails(a)
     \/ /\ IF ~IsCurrent(a) THEN Succeeds(a)
           ELSE IF stored = NoSession THEN GoSweep(a)
           ELSE /\ stage' = [stage EXCEPT ![a] = "window"]
                /\ saved' = [saved EXCEPT ![a] = stored]
                /\ UNCHANGED plan
        /\ UNCHANGED current
  /\ UNCHANGED <<browser, memory, storage, job, reader>>

\* clear() and persist(): the write is issued, and awaited in the next stage.
Saving(a, s) == /\ Write(s)
                /\ stage' = [stage EXCEPT ![a] = IF Wrote THEN "written" ELSE "unwritten"]
                /\ UNCHANGED current

\* Seeded fault: the pool is not trimmed.
NeverTooMany(pool) == FALSE

TooMany(pool) == Len(pool) > MaxTabs

\* The head of the eviction loop, and what follows it.
Trim(a, pool) ==
  \/ /\ TooMany(pool) /\ IsCurrent(a)
     /\ stage' = [stage EXCEPT ![a] = "evict"]
     /\ plan' = [plan EXCEPT ![a] = pool]
     /\ UNCHANGED <<memory, storage, saved, current>>
  \/ /\ ~IsCurrent(a)
     /\ Succeeds(a)
     /\ UNCHANGED <<memory, storage>>
  \/ /\ ~TooMany(pool) /\ IsCurrent(a)
     /\ session' = [saved[a] EXCEPT !.tabs = pool, !.object = FreshObject]
     /\ active' = LastOf(pool)
     /\ plan' = [plan EXCEPT ![a] = <<>>] /\ saved' = [saved EXCEPT ![a] = NoSession]
     /\ Saving(a, session')

\* windows.get: the window is gone, or its live tabs are kept, and the strays of a
\* dedicated window join them.
RestoreWindow(a) ==
  LET live   == TabsOf(saved[a].windowId)
      strays == IF saved[a].adopted THEN {} ELSE live \ Elems(saved[a].tabs)
  IN /\ stage[a] = "window"
     /\ IF ~IsCurrent(a) THEN Succeeds(a) /\ UNCHANGED <<memory, storage>>
        ELSE IF live = {}
        THEN /\ session' = NoSession /\ active' = None
             /\ plan' = [plan EXCEPT ![a] = <<>>] /\ saved' = [saved EXCEPT ![a] = NoSession]
             /\ Saving(a, NoSession)
        ELSE \E kept \in Only(saved[a].tabs, live), q \in Orders(strays) : Trim(a, kept \o q)
     /\ UNCHANGED <<browser, job, reader>>

\* tabs.remove of the tab that the loop shifted takes effect, or fails quietly.
RestoreEvict(a) ==
  LET victim == Head(plan[a])
  IN /\ stage[a] = "evict"
     /\ stage' = [stage EXCEPT ![a] = "evicted"]
     /\ plan' = [plan EXCEPT ![a] = Tail(@)]
     /\ \/ IsOpen(victim) /\ Closing({victim})
        \/ UNCHANGED <<browser, memory, storage>>
     /\ UNCHANGED <<current, saved, job, reader>>

RestoreEvicted(a) ==
  /\ stage[a] = "evicted"
  /\ Trim(a, plan[a])
  /\ UNCHANGED <<browser, job, reader>>

\* The write settles: an abandoned attempt writes the live state again.
RestoreWritten(a) ==
  /\ stage[a] \in {"written", "unwritten"}
  /\ IF stage[a] = "unwritten" THEN Fails(a) /\ UNCHANGED storage
     ELSE IF IsCurrent(a) THEN GoSweep(a) /\ UNCHANGED <<current, storage>>
     ELSE Write(session) /\ Settle(a, "ok") /\ UNCHANGED current
  /\ UNCHANGED <<browser, memory, job, reader>>

----------------------------------------------------------------------------
(* createWindow *)

Ready == current # None /\ stage[current] = "ok"

Go(next) == job' = [job EXCEPT !.at = next]

\* The handler returned or threw; execute() persists.
End == job' = [NoJob EXCEPT !.at = "end"]

\* Seeded fault: a pool that is full to the last place still takes a tab.
FullTooLate(pool) == Len(pool) > MaxTabs

Full(pool) == Len(pool) >= MaxTabs

ModeFits(want) == want \in {"any", IF session.isPrivate THEN "private" ELSE "public"}

\* addPoolTab up to its first call: a full pool loses its oldest tab.
AddPoolTab(want) ==
  LET here == [NoJob EXCEPT !.windowId = session.windowId, !.of = session.object]
  IN \/ ~ModeFits(want) /\ End /\ UNCHANGED session
     \/ /\ ModeFits(want) /\ Full(session.tabs)
        /\ job' = [here EXCEPT !.at = "evict", !.tab = Head(session.tabs)]
        /\ session' = [session EXCEPT !.tabs = Tail(@)]
     \/ /\ ModeFits(want) /\ ~Full(session.tabs)
        /\ job' = [here EXCEPT !.at = "create"]
        /\ UNCHANGED session

\* openSession up to its first call: a public session looks for a window to join.
OpenSession(want) ==
  job' = [NoJob EXCEPT !.at = IF want = "public" THEN "adopt" ELSE "open",
                       !.want = IF want = "public" THEN want ELSE "private"]

CreateWindow(want) ==
  /\ Ready /\ job = NoJob
  /\ IF session = NoSession THEN OpenSession(want)
     ELSE job' = [NoJob EXCEPT !.at = "check", !.windowId = session.windowId, !.want = want]
  /\ UNCHANGED <<browser, memory, storage, restores, reader>>

\* dropStaleState: windows.get of the session's window.
CheckWindow ==
  /\ job.at = "check"
  /\ \/ /\ job.windowId \notin Open
        /\ session' = NoSession /\ active' = None
        /\ Write(NoSession)
        /\ IF Wrote THEN Go("cleared") ELSE End
     \/ /\ job.windowId \in Open
        /\ IF session = NoSession THEN OpenSession(job.want) /\ UNCHANGED session
           ELSE AddPoolTab(job.want)
        /\ UNCHANGED <<active, storage>>
  /\ UNCHANGED <<browser, restores, reader>>

AfterClear ==
  /\ job.at = "cleared"
  /\ IF session = NoSession THEN OpenSession(job.want) /\ UNCHANGED session
     ELSE AddPoolTab(job.want)
  /\ UNCHANGED <<browser, active, storage, restores, reader>>

\* tabs.remove in evictOldest, closeTab and closeWindow: it fails quietly.
RemoveTab(t) == \/ IsOpen(t) /\ Closing({t})
                \/ UNCHANGED <<browser, memory, storage>>

EvictOldest ==
  /\ job.at = "evict"
  /\ RemoveTab(job.tab)
  /\ job' = [job EXCEPT !.at = "create", !.tab = None]
  /\ UNCHANGED <<restores, reader>>

\* tabs.create, for a pool tab or the first tab in an adopted window.
CreateTab ==
  /\ job.at \in {"create", "join"}
  /\ \/ /\ job.windowId \notin Open
        /\ End
        /\ UNCHANGED browser
     \/ \E t \in Tabs :
           /\ job.windowId \in Open /\ IsFreshTab(t)
           /\ place' = [place EXCEPT ![t] = job.windowId]
           /\ job' = [job EXCEPT !.at = IF @ = "create" THEN "created" ELSE "opened", !.tab = t]
           /\ UNCHANGED <<incognito, users>>
  /\ UNCHANGED <<memory, storage, restores, reader>>

\* addPoolTab has its tab.  The state it holds may have been dropped meanwhile.
PoolTabCreated ==
  /\ job.at = "created"
  /\ session' = IF session.object = job.of
                  THEN [session EXCEPT !.tabs = Append(@, job.tab)] ELSE session
  /\ active' = job.tab
  /\ Go("group")
  /\ UNCHANGED <<browser, storage, restores, reader>>

\* adoptable: the window that was focused last, if it is normal and public.
Adopt ==
  /\ job.at = "adopt"
  /\ \/ \E w \in Open \ incognito : job' = [job EXCEPT !.at = "join", !.windowId = w]
     \/ Go("open")
  /\ UNCHANGED <<browser, memory, storage, restores, reader>>

\* windows.create.  Without the permission for private windows a second, public one
\* is asked for.
OpenWindow ==
  /\ job.at = "open"
  /\ \/ job.want = "private" /\ job' = [job EXCEPT !.want = "public"] /\ UNCHANGED browser
     \/ End /\ UNCHANGED browser
     \/ \E w \in FreshWindows, t \in Tabs :
           /\ IsFreshTab(t)
           /\ place' = [place EXCEPT ![t] = w]
           /\ incognito' = IF job.want = "private" THEN incognito \cup {w} ELSE incognito
           /\ job' = [job EXCEPT !.at = "opened", !.windowId = w, !.tab = t,
                                !.want = IF @ = "public" THEN "own" ELSE @]
           /\ UNCHANGED users
  /\ UNCHANGED <<memory, storage, restores, reader>>

\* Seeded fault: an adopted window counts as the extension's own.
NeverAdopted == FALSE

\* openSession joined a window of the user.
Adopted == job.want = "public"

\* openSession has its window and its tab.
SessionOpened ==
  /\ job.at = "opened"
  /\ session' = [object |-> FreshObject, windowId |-> job.windowId, tabs |-> <<job.tab>>, adopted |-> Adopted,
                 isPrivate |-> ~Adopted /\ job.want = "private"]
  /\ active' = job.tab
  /\ job' = [job EXCEPT !.at = "group", !.of = session'.object]
  /\ UNCHANGED <<browser, storage, restores, reader>>

\* tabs.group settles, well or badly: the pool stays as it is.
GroupTab ==
  /\ job.at = "group"
  /\ Go("save")
  /\ UNCHANGED <<browser, memory, storage, restores, reader>>

----------------------------------------------------------------------------
(* closeTab and closeWindow *)

CloseTab(t) ==
  /\ Ready /\ job = NoJob
  /\ t \in Elems(session.tabs)
  /\ \E kept \in Only(session.tabs, Tabs \ {t}) : session' = [session EXCEPT !.tabs = kept]
  /\ job' = [NoJob EXCEPT !.at = "close", !.tab = t, !.of = session.object]
  /\ UNCHANGED <<browser, active, storage, restores, reader>>

RemoveClosed ==
  /\ job.at = "close"
  /\ RemoveTab(job.tab)
  /\ Go("closed")
  /\ UNCHANGED <<restores, reader>>

\* repointActiveTab
Repoint ==
  /\ job.at = "closed"
  /\ active' = IF active = job.tab THEN LastOf(session.tabs) ELSE active
  /\ End
  /\ UNCHANGED <<browser, session, storage, restores, reader>>

\* closeWindow clears and persists before it closes anything.
CloseWindow ==
  /\ Ready /\ job = NoJob /\ session # NoSession
  /\ session' = NoSession /\ active' = None
  /\ Write(NoSession)
  /\ IF ~Wrote THEN End
     ELSE IF session.adopted
     THEN job' = [NoJob EXCEPT !.at = "closeTabs", !.tabs = session.tabs]
     ELSE job' = [NoJob EXCEPT !.at = "closeAll", !.windowId = session.windowId]
  /\ UNCHANGED <<browser, restores, reader>>

\* The next tab of an adopted window that is closed.
CloseNext ==
  /\ job.at = "closeTabs"
  /\ IF job.tabs = <<>> THEN End /\ UNCHANGED <<browser, memory, storage>>
     ELSE RemoveTab(Head(job.tabs)) /\ job' = [job EXCEPT !.tabs = Tail(@)]
  /\ UNCHANGED <<restores, reader>>

\* windows.remove fails quietly.
CloseAll ==
  /\ job.at = "closeAll"
  /\ \/ job.windowId \in Open /\ Closing(TabsOf(job.windowId))
     \/ UNCHANGED <<browser, memory, storage>>
  /\ End
  /\ UNCHANGED <<restores, reader>>

\* createWindow's own persist, and that of execute().
Save ==
  /\ \/ job.at = "save" /\ Write(session) /\ End
     \/ job.at = "end" /\ Quietly(session) /\ job' = NoJob
  /\ UNCHANGED <<browser, memory, restores, reader>>

----------------------------------------------------------------------------
(* getSession, in a command that does not take the lock *)

StartRead ==
  /\ Ready /\ reader = NoReader /\ session # NoSession
  /\ reader' = [NoReader EXCEPT !.at = "window", !.windowId = session.windowId, !.of = session.object]
  /\ UNCHANGED <<browser, memory, storage, restores, job>>

\* Seeded fault: getSession does not look whether the session was replaced.
AnyState == session # NoSession

\* This call's view of the session is this.state.
SameState == session.object = reader.of

\* windows.get fails: only the session this call saw is cleared.
ReadExpired ==
  /\ reader.at = "window" /\ reader.windowId \notin Open
  /\ IF SameState
       THEN session' = NoSession /\ active' = None /\ Write(NoSession)
       ELSE UNCHANGED <<session, active, storage>>
  /\ reader' = NoReader
  /\ UNCHANGED <<browser, restores, job>>

\* An active tab that is unset or not in the pool becomes the last one.
Target == IF active \in Elems(session.tabs) THEN active ELSE LastOf(session.tabs)

\* windows.get succeeds: the session must be the one this call saw, and have a tab.
ReadTarget ==
  /\ reader.at = "window" /\ reader.windowId \in Open
  /\ IF SameState
       THEN /\ active' = Target
            /\ reader' = IF Target = None THEN NoReader
                         ELSE [reader EXCEPT !.at = "tab", !.tab = Target]
       ELSE reader' = NoReader /\ UNCHANGED active
  /\ UNCHANGED <<browser, session, storage, restores, job>>

\* tabs.get
ReadTab ==
  /\ reader.at = "tab"
  /\ active' = IF IsOpen(reader.tab) THEN active ELSE None
  /\ reader' = NoReader
  /\ UNCHANGED <<browser, session, storage, restores, job>>

\* A command without effect on the session ends: execute() persists all the same.
OtherEnds ==
  /\ Ready
  /\ Quietly(session)
  /\ UNCHANGED <<browser, memory, restores, job, reader>>

----------------------------------------------------------------------------

\* What a lifetime leaves in storage: no private session, at most MaxTabs tabs,
\* each still in the window or closed, and none of the user's in an adopted window.
Leftover ==
  stored # NoSession =>
     /\ stored.windowId \in Windows \ incognito /\ ~stored.isPrivate
     /\ stored.windowId \in UserWindows => stored.adopted
     /\ Distinct(stored.tabs) /\ Len(stored.tabs) <= MaxTabs
     /\ \A t \in Elems(stored.tabs) : place[t] \in {stored.windowId, None}
     /\ stored.adopted => Elems(stored.tabs) \cap users = {}

Pools == UNION {{q \in [1 .. n -> Tabs] : Distinct(q)} : n \in 0 .. MaxTabs}

\* start(): the page loads and restores.
Init ==
  /\ stored \in {NoSession} \cup
       [object : {0}, windowId : Windows, tabs : Pools, isPrivate : {FALSE}, adopted : BOOLEAN]
  /\ place \in [Tabs -> UserWindows \cup {None, stored.windowId}]
  /\ UserWindows \subseteq Open
  /\ users = {t \in Tabs : place[t] \in UserWindows} \ Elems(stored.tabs)
  /\ incognito = {}
  /\ Leftover
  /\ session = NoSession /\ active = None /\ behind = FALSE
  /\ current = 1
  /\ stage = [a \in Attempts |-> IF a = 1 THEN "read" ELSE "none"]
  /\ saved = [a \in Attempts |-> NoSession] /\ plan = [a \in Attempts |-> <<>>]
  /\ job = NoJob /\ reader = NoReader

Next ==
  \/ UserClosesTab \/ UserClosesWindow \/ UserOpensTab \/ TabActivated
  \/ \E a \in Attempts : \/ StartRestore(a) \/ Abandon(a) \/ RestoreRead(a) \/ RestoreWindow(a)
                         \/ RestoreEvict(a) \/ RestoreEvicted(a) \/ RestoreWritten(a) \/ SweepSettles(a)
  \/ \E want \in {"any", "private", "public"} : CreateWindow(want)
  \/ CheckWindow \/ AfterClear \/ EvictOldest \/ CreateTab \/ PoolTabCreated
  \/ Adopt \/ OpenWindow \/ SessionOpened \/ GroupTab
  \/ \E t \in Tabs : CloseTab(t)
  \/ RemoveClosed \/ Repoint \/ CloseWindow \/ CloseNext \/ CloseAll \/ Save
  \/ StartRead \/ ReadExpired \/ ReadTarget \/ ReadTab \/ OtherEnds

Spec == Init /\ [][Next]_vars

----------------------------------------------------------------------------
(* Properties *)

Stages == {"none", "read", "window", "evict", "evicted", "written", "unwritten", "sweep", "ok", "failed"}

JobStages == {"idle", "check", "cleared", "evict", "create", "created", "adopt", "join", "open", "opened",
              "group", "save", "end", "close", "closed", "closeTabs", "closeAll"}

States == [object : Objects, windowId : Windows \cup {None}, tabs : Seq(Tabs),
           isPrivate : BOOLEAN, adopted : BOOLEAN]

Jobs == [at : JobStages, windowId : Windows \cup {None}, tab : Tabs \cup {None},
         want : {"any", "private", "public", "own"}, of : Objects, tabs : Seq(Tabs)]

Readers == [at : {"idle", "window", "tab"}, windowId : Windows \cup {None}, of : Objects,
            tab : Tabs \cup {None}]

\* Every variable has its type; no session is the one without a window, and the memo
\* never holds an attempt that was rejected.
TypeOK ==
  /\ place \in [Tabs -> Windows \cup {None}]
  /\ incognito \subseteq OwnWindows \cap Open
  /\ users \subseteq {t \in Tabs : place[t] \in UserWindows}
  /\ {session, stored} \subseteq States /\ saved \in [Attempts -> States]
  /\ \A s \in {session, stored} : s.windowId = None => s = NoSession
  /\ (session.object = 0 <=> session = NoSession) /\ stored.object = 0
  /\ active \in Tabs \cup {None} /\ behind \in BOOLEAN
  /\ current \in Attempts \cup {None} /\ stage \in [Attempts -> Stages]
  /\ current # None => stage[current] \notin {"none", "failed"}
  /\ plan \in [Attempts -> Seq(Tabs)]
  /\ job \in Jobs /\ reader \in Readers

\* The pool never outgrows MaxTabs and never lists a tab twice, whichever events,
\* restores and timed-out commands came in between (architecture.md, MAX_TABS).
PoolBounded == Len(session.tabs) <= MaxTabs /\ Distinct(session.tabs)

\* What is stored is always something the next lifetime can start from, never a private
\* session; and when no command and no restore is under way it is the live session,
\* or nothing if that is private, unless the latest write failed.
StorageSound ==
  /\ Leftover
  /\ Ready /\ job = NoJob /\ ~behind => stored = Public(session)

\* One managed window at a time: a state is only set where there is none, so no
\* restore that was given up replaces the session of a later command.
NeverReplaced == [][session'.object \notin {0, session.object} => session = NoSession]_vars

\* Storage never forgets a managed window that is still open, unless closeWindow gives
\* it up: the next lifetime adopts it instead of opening a sibling.
SurvivorKept ==
  [][~behind /\ stored.windowId \in Open /\ stored'.windowId # stored.windowId =>
        CloseWindow \/ stored.windowId \notin Open']_vars

\* A tab the user opened in a window of theirs is closed by nobody else.
UserTabsKept ==
  [][\A t \in users : place'[t] = None => UserClosesTab \/ UserClosesWindow]_vars

=============================================================================
