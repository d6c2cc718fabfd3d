# Verification of firefox-ctl

`firefox-ctl` drives a Firefox from a shell. A command travels

    CLI process -- unix socket, one JSON line --> host process
                -- native messaging on stdio --> background page
                -- tabs.sendMessage           --> content script

and its answer travels back. Many CLI processes share one host, the host shares one
stdio channel, and the background page shares one browser with its user. This
directory holds TLA+ models of the parts where those interleave, the TLC runs that
check them on small instances, and TLAPS proofs that hold for every instance.

Paths below are relative to `src/`; `host.go` is `cli/internal/host/host.go`, `ipc.go` is
`cli/internal/ipc/ipc.go`, and the TypeScript files are those of `extension/src/`.

## Inventory

| Component | State | Operations and peers | What is hard | What makes it correct |
|---|---|---|---|---|
| Host (`host.go`) | tables of pending requests and connections, per-connection mutex and wait group, accept semaphore, timers | serve, forward, reply, closeClient, pump, timeouts, shutdown; talks to clients and to the extension | every goroutine can run between two critical sections; a request has four possible ends | a request is answered once and on its own connection, nothing outlives its connection, slots come back, `Run` returns |
| Socket path (`ipc.go`) | the file at the path, the lock file, the identity of the socket file | `Listen`, `RemoveStale`, `Close` of several processes | a process may be killed between any two system calls | a listening host stays reachable and no two serve one path |
| Client, CLI (`cli/internal/client`, `cli/cmd`) | one connection with a deadline | one request, one answer | three deadlines that must nest | a CLI never gives up before the host and the extension had their time |
| Framing (`cli/internal/nativemsg`) | none | length-prefixed read, discard, write | an oversized message in the middle of a stream | the stream stays in step |
| NativeLink (`port.ts`) | port, attempt counter, timers, table of requests | connect, send, replies, commands, disconnect, retry | events of a port that was replaced | answers stay on the connection that asked; backoff and giving up |
| Dispatcher (`dispatch.ts`, `lock.ts`, `memo.ts`) | state lock, memoised preamble and restores, one record per command | handle, prepare, run, deadline; calls Session, AttachedTabs and the handlers | any browser call may hang; abandoned work resumes later | state commands exclude each other, nobody inherits a hung attempt, everyone is answered |
| Session, AttachedTabs, window and tab commands (`session.ts`, `attached.ts`, `handlers/window.ts`, `handlers/tabs.ts`, `handlers/attached.ts`) | managed window, pool of at most 12 tabs, active tab, attachments, their copies in `storage.local` | createWindow, closeTab, closeWindow, attachTab, restore, sweep, browser events | the user closes tabs and windows during every await; the background page restarts | the pool is bounded, disjoint from the attachments, stored faithfully; a user's tab is never closed unasked |
| NetworkTracker (`network.ts`) | one ring of 200 entries | webRequest events, query, clear, `tabStatus` | redirects; tabs share the ring | a tab that loads is not idle |
| Readiness (`readiness.ts`) | none of its own | polls NetworkTracker and the page before a screenshot | traffic that never ends, a budget that leaves no time | ends in time, and a request that hangs is given up |
| Capture (`capture-locks.ts`, `handlers/screenshot.ts`, `content/image.ts`) | a lock per tab with a handoff flag; the badges on the page | annotate, capture, clear, re-encode | an evicted holder's badges; a frozen page; tabs close under a capture | no image shows another capture's badges; all captures of a tab meet at one lock |
| FrameRegistry (`frames.ts`, `page.ts`, `frame-port.ts`) | watches, ports, pending connections per tab | watch, inject, connect, disconnect, await | injections and ports of an earlier watch or document | exactly the ports that answer are on record; no wait is missed |
| HarRecorder (`har-recorder.ts`) | recordings, hops, filters, kept HARs | webRequest events, response filters, start, stop, expiry | stop while filters run; a HAR that expires while asked for | every filter is released; a body's flags are true; the kept HAR is the newest |
| HAR log (`har.ts`) | none | build, redact and fit the log to a reply | the counter of dropped bodies is part of what is fitted | a fit is found when there is one, and nothing is dropped without need |
| Waits (`handlers/wait.ts`, `content/wait.ts`) | listeners and timers of a call | waitForUrl, awaitTabComplete, page and frame waits | an event between look and subscription | answers in time, misses nothing |
| Cookies (`cookies.ts`, `handlers/cookies.ts`) | none | export, import, set, delete | some cookies of an import fail | the counts add up |
| Page scripts (`content/`) | console ring of 500 | DOM reads, clicks, typing | live documents | data, no state machine |

Message flow: `host.go` forwards a command under a fresh id and arms a timer; `NativeLink`
hands it to `Dispatcher.handle`, which answers at the command's deadline at the latest;
handlers call the browser and the session; `NativeLink` posts the answer on the port the
command came from; `host.go` matches the id and writes to the connection that asked.

## The models

| Module | Models | Notes |
|---|---|---|
| `Host`, `HostProofs` | `host.go`, `runHost` of `cmd/firefox-ctl/host.go` | one action per critical section of `s.mu` or `c.mu` and per call that may block between two |
| `HostContract` | what the host promises its clients | abstract; `Host` implements it: the run checks `Contract!Spec`, the proof its safety part |
| `Ipc`, `HostProofs` | `ipc.go` | one action per system call on path, lock file or socket |
| `RestoreMemo` | `memo.ts` | operators on the memo record; used three times by `Dispatcher` |
| `Dispatcher`, `DispatcherProofs` | `dispatch.ts`, `lock.ts`, the attempts of `session.ts` and `attached.ts` | a page task per action, microtasks in between |
| `NativeLink`, `NativeLinkProofs` | `port.ts` | ports numbered as the browser grants them |
| `Session`, `SessionProofs` | `session.ts`, `createWindow`, `closeTab`, `closeWindow` of `handlers/` | one background lifetime; the browser and its user are part of the model |
| `Network`, `HoldsProofs` | `network.ts` | the ring and `tabStatus` |
| `Holds`, `HoldsProofs` | `readiness.ts`, `handlers/wait.ts`, `content/wait.ts` | extends `Network`: commands that hold for a tab |
| `Frames`, `FramesProofs` | `frames.ts`, `page.ts`, `executeInFrame`, `waitInFrame` | one tab; documents numbered in loading order |
| `Capture`, `CaptureProofs` | `capture-locks.ts`, `handlers/screenshot.ts`, `content/image.ts` | one tab; every await of the guarded section is a step |
| `HarRecorder`, `HarProofs` | `har-recorder.ts`, `startHar` and `stopHar` | one tab; the browser's requests and filters are part of the model |
| `HarLog`, `HarProofs` | `har.ts` | a pure algorithm, checked against its definition over all small logs and proved for every log |
| `MCHost`, `MCSession`, `MCHar`, `MCHarLog` | | symmetry sets, request bodies and logs of the runs |

**Host.** `serve[c]` is the program counter of `serve(nc)` and of the `forward` it runs,
`step[t]` that of a thread inside `reply` and `closeClient`. A thread is the pump's reply
goroutine of a request, its timer's callback, or `serve` answering a request itself. Blocking writes
are two actions (begin under `c.mu`, end), so a client that stops reading is a write that
does not end before its chunk deadline. What a line contains is reduced to: a request, a line the host
refuses, the end. `lines` and `got` are history variables: they count the answers begun and completed.

**Ipc.** A file at the path is named by the process that created it, which is what the
device and inode comparison of `sameFile` observes. `flock`, `bind`, `connect` and
`unlink` are modelled as the code relies on them. `Crash` may strike anywhere.

**Dispatcher.** JavaScript runs one task to completion, then the microtasks it made
ready. `Quiet` says that no microtask is ready; every task has it as a guard. A
preamble attempt and a restore are named by the command that started them. Restores and
handlers are opaque here: they settle well, badly or never.

**NativeLink.** Delays are left out: a timer is armed or not, and an armed one may
fire. Events of old ports may come at any time: the handlers are closures over
their own port.

**Session.** The module covers one lifetime of the background page, from whatever an
earlier one left in storage and in the browser (`Leftover`, which the invariant
`StorageSound` shows every moment of a lifetime to leave again, so that the argument chains
across restarts) to any moment at which this one may end. Each await of a browser call is
a step; the user closes and opens tabs and windows between any two. `job` is the one command
that holds the state lock, `reader` a command inside `getSession`, `OtherEnds` the `persist`
with which `execute` ends every other command. `stage[a]` is where restore attempt `a` stands, and
`current` the attempt in the memo: `isCurrent(epoch)` is `current = a`. `session.object` stands
for the identity of the state object, which the code compares and keeps references to.
From `Dispatcher` the module takes that state commands exclude each other, that none starts before
the restore succeeded, and that a restore may be abandoned. A failed write is recorded in `behind`;
`QuietFaults` says whether also a write whose failure is only logged may fail. The
duplicate-window sweep is a stage without effect; tab groups, attached tabs and tabs dragged
from one window to another are left out.

**Network and Holds.** A hop of a request is an entry of the ring; `flight` and `begun` are
the browser's side. `Holds` adds one command that holds for the tab: the readiness check with its
three phases (critical requests, visual completeness, render check), or a `waitFor` for a url or for
the page. `lost` are the requests whose latest hop the shared ring dropped: nothing in the code guards against
that, `docs/commands.md` says so of `--clear`, and `IdleSound` exempts them. The clock is explicit. `hold` keeps the times the code computes: the deadline,
the end of the phase, the next poll. The tab's own events are queued in `news`, so that one can be on
its way while `tabs.get` answers. Only the events that the kind of command reads are enabled.

**Frames.** `doc[d]` is a document, `live[f]` the one its frame shows. The browser's side: the report of
a load, the run of an injected script, the connect of its port, and the end of a port, which may be
reported long after the document is gone. The registry's side: `watch`, `pending`, `entry`.
`wait[w]` follows a wait from `awaitFrame` through the sends and retries of `waitInFrame`: "asked" is the
await of `tabs.sendMessage`, "lookup" that of `tabs.get` after a message met nobody. Neither has a timer, and
a frozen frame or a replaced document may leave the first pending for ever; the dispatcher's deadline then
answers the client (`Dispatcher`). A watch may open after its tab has closed, during the command's await.
What the module takes from the browser is in the guard of `FrameLoaded`: the documents of a frame are reported
in order, and a port of the same url that was opened before connects before.

**Capture.** `inbox` holds the messages the page has not run yet; a frozen page runs none of them,
a reload or the close of the tab rejects them. `queue` and `handoff` are the lock and its
flag for badges nobody cleared, per lock object, since the registry may create another one for
the same tab; `Evict` is the deadline of the holder. `badges` is whose labels the page shows, `shot` what
was rendered: `OwnImage` compares the two.

**HarRecorder.** `channel[q]` is where the browser stands with a request. `hops`
is keyed by request and hop, each with the recording it belongs to; the closure of a filter keeps
its hop, so bytes arrive after the recording stopped. `pending` says that the body is not settled,
`budget` what is left for the recording. `kept`, `armed` and `expiry` are the kept HAR and its timers:
`armed` what may still fire, `expiry` what the code can still clear.

**HarLog.** Text is its length. `queue` holds the bodies `fitLog` has not tried, largest first; the
counter `droppedBodies` is part of the text that has to fit, and `Rollovers` are the counts from which it
takes a digit more (10, 100, ... in the code). Bytes are counted as the pairs of an entry and a place in it
(`Chars`) and dropped bodies by their flags, so that no sum needs recursion. The reference is the search
over every set of bodies (`FitSound`). "Without need" means that the bodies of any one entry could not have
stayed with the counter as it stands: between two equally large candidates the code prefers the earlier
one, and when that one has two bodies and the other one, the choice may cost the counter a digit.

Definitions whose comment starts with *Seeded fault* are variants of the definition that
follows them, with one plausible bug. No specification uses them; they exist to check
that the properties can see such a bug.

## Runs

| Run | Instance | Shows |
|---|---|---|
| `host` | 2 connections, 2 requests, 1 slot | safety of the tables, answers, timers, slots and shutdown |
| `host_live` | 2 connections, 1 request, 1 slot | `HostContract` with its liveness; shutdown completes |
| `ipc` | 3 processes, an outsider that deletes the file | no listening host becomes unreachable; `Listen` returns |
| `dispatcher` | 2 state commands, a read or probe | exclusion, no late start, attempts shared and abandoned rightly; everyone is answered; the lock passes |
| `link` | 2 requests, 2 commands, 3 connections, 2 attempts | requests end with their connection, answers stay home, retries are counted right |
| `session` | pool of 2, 3 tabs, a window of the user and one of the extension, 2 restores | pool bound, sound storage, one window at a time that survives, the user's tabs are left alone |
| `holds` | 2 requests of the tab, 1 of another, 2 hops, ring of 3, 7 ticks, 2 navigations | an idle verdict is right, a hung request is given up, every hold ends in time and misses nothing |
| `frames` | 1 frame, 2 documents, 3 urls, 3 generations, 1 wait | exactly the ports that answer are on record; no wait is missed; a wait ends by its deadline unless one call of it is never answered |
| `capture` | 3 captures, 1 annotated | no image with foreign badges; one lock per tab; the queue moves |
| `har` | 1 request with a redirect, cap 1, budget 2, 2 recordings | filters released, bodies honest, the kept HAR is the newest |
| `har_log` | every log of up to 3 hops of 9 kinds, 14 limits | the fit is sound and minimal; the times span the request |
| `network_redirect` | `Network` with a redirected request | violated: see Findings |

Why the bounds are enough.

* `host`: the races are between the ends of *one* request and between requests of the same or of
  different connections; two of each with one slot reach all of these, and the proofs cover the rest.
* `ipc`: a stale check needs one process that left a file, one that decides and one that interferes.
* `dispatcher`: a shared attempt needs two commands, its replacement a third, exclusion two
  holders. The read may also be a probe.
* `link`: three connections give one that was replaced, one that is up and one to come.
* `session`: a pool of two with a third tab evicts in a restore and in `createWindow`; ids that nothing
  refers to are fresh again, so three tabs stand for any number over time; two restores are one
  that was given up and its successor. With `QuietFaults = TRUE` the same properties hold
  on the 4.5 million states of that instance, which takes five minutes.
* `holds`: one tick stands for the poll interval, the stall threshold and the reserve alike, the window
  and the longest wait are three, so every phase can be the one that ends the check; a redirect in a ring of
  three pushes another entry out; budgets of 0 and 1 leave nothing to hold with.
* `frames`: two documents are the old and the new one; urls are two the watch wants, since a record
  admits by url, and one it does not; three generations are an earlier watch, the gap and the next.
* `capture`: an evicted capture that left badges, an heir, and one more that arrives while the heir clears.
* `har`: two hops of one request share the budget; a cap of one is below the largest body and
  a budget of two is exhausted by two bodies; two recordings overlap in their builds and expiries.
* `har_log`: the counter grows a digit at two (`Rollovers`), so three bodies meet the case in which dropping
  a body makes room for less than it should; one kind of hop saves with two bodies what another saves with one.

`CHECK_DEADLOCK FALSE` is set where the bounds let the system stop: the clock and the requests of
`Network` and `Holds`, the documents of `Frames`, the recordings of `HarRecorder`, the one answer of
`HarLog`, the restores of `Session`, in which moreover the browser may be left without a window. The
other runs check for deadlock.

## Fairness

Each fair specification names exactly the steps the runtime guarantees.

* `Host`: runnable goroutines run, timers and write deadlines fire, Firefox drains stdout.
  Nothing of clients, of the extension's answers or of signals.
* `Ipc`: a live process takes its next system call. Nobody must close.
* `Dispatcher`: microtasks run and deadlines fire. No browser call is assumed to settle;
  `LockPasses` assumes it explicitly in its premise.
* `NativeLink`: armed timers fire. The host and the browser owe nothing.
* `Frames`: the deadline of a wait fires and the extension's continuations (`Send`, `Retry`) run. Frames
  need not load, connect or answer, and no browser call need settle: `WaitsEnd` allows a wait that stays
  "asked" or stays "lookup" for ever, and nothing else.
* `Capture`: deadlines fire, evict the holder, and a command at the head of the lock's queue runs. The
  page may stay frozen and `captureTab` may never settle.
* `Holds` needs none: the clock does not pass a timer that is due, so "in time" is an invariant.

## Theorems

All hold for every value of the constants under the named assumptions of the modules.

* `HostTypeOK`, `HostSlotsBounded`, `HostTablesAgree`, `HostAnsweredOnce`,
  `HostTimersAccounted`. `HostInv` is the inductive invariant. `AnsweredOnce` is not
  inductive: that a thread about to answer is the only one needs `TargetInv` (the
  thread holds an id that has left `pending`) and `OwnerInv`
  (an id is in the table of one connection).
* `HostServedIsQuiet`, `HostFlushedIsWritten` from `QuietInv`, which adds to `HostInv` what `c.writes` and
  `s.replies` count (`CountInv`, `FlushInv`) and what `serve` has settled by the place it has
  reached (`LeaveInv`): on its way out its own `closeClient` has emptied the tables before `writes.Wait`, and
  `c.closed` refuses every reply that comes later.
* `HostKeepsContract`, the refinement of `HostContract`: every step of `Host` is, under the mapping of
  `Host`, a step of the contract or a stutter. It needs more than the invariants above say, in `PromiseInv`: a
  timer fires once (`TimerInv`), `serve` answers only requests of its own connection (`RidInv`), and
  whoever closes a connection has cut it first (`CutInv`), so that a request that is dropped is
  dropped with its connection. This is the contract's safety part (`Promise`). Its fairness stays with the
  run `host_live`.
* `IpcReachable`. What each process inside its critical section *knows* about
  the path (`Knowledge`) is the strengthening: between the stale check and the bind no
  reachable host listens, because a new listener needs the lock.
* `DispatcherExclusive`, `DispatcherNoLateStart` from `LockInv` (the command inside is the
  head of the queue; an answered command has expired or is done), `DispatcherFenced` from `FenceInv`
  (an attempt with the current epoch is the one in the memo).
* `DispatcherAttemptShared` from `ShareInv`: the memo of the preamble counts exactly the commands that wait for its
  attempt and still have time (`Counted`), and a session restore under way has one tracked caller, the attempt in
  the memo (`Restoring`). So the last deadline abandons both, and no other does.
* `LinkPendingOnPort`, `LinkBackoffGrows`, `LinkRepliesStayHome`, `LinkRestsExhausted` from
  `LinkInv`, which adds that a connection whose stability timer is not armed has proved stable.
* `SessionTypeOK`, `SessionPoolBounded`, `SessionNeverReplaced` from `Inv`. Two of its parts carry
  the argument. `FenceInv`: only the attempt in the memo, while it loads, or the command
  that opens a window may set the session, and never both: a command starts after the restore
  succeeded, and an attempt that left the memo fails its epoch check. `RoomInv`: from its check
  of the pool to its new tab a command has room, because whatever comes in between
  only takes tabs away (`Fades`). `Only` says declaratively what a filter and a splice leave,
  so its facts need no induction.
* `SessionStorageSound`, `SessionSurvivorKept`, `SessionUserTabsKept` from `Safe`, proved over `Inv`:
  every session, live, stored or being restored, names a window and tabs that are its own or are gone (`FitInv`), and so does what a command
  or a reader carries across its calls (`CarryInv`, `ReaderInv`); unless a write failed
  or no restore has come to writing yet, storage holds the session when no command runs, and while one
  does it lags behind in the tabs or in a session just opened (`SyncInv`).
* `HarFiltersReleased`, `HarKeptSound`. A filter is settled by its own events, whether or
  not its recording is still there, so the invariant ties the status of a filter to the stage of
  its body and says that a stopped hop's filter is released or not started yet. The kept HAR is the
  newest built one because a build that settles late finds a newer one kept.
* `HarBodiesHonest`. The flags of a body are true by an invariant of each hop; that budget and stored
  bytes add up (`BudgetExact`) is a sum over all hops. It is stated as the cardinality of a set of
  pairs of a hop and a number: opening a hop starts from no pairs (`FreshInv`), and a chunk or a request body
  adds as many as it takes from the budget (`SumInv`).
* `LogFitSound` and `LogTimesSpan` from `LogInv`. While `fitLog` drops bodies, the entries are the shown ones
  with the largest candidates stripped, and its estimate is over the limit but never above the size, since
  the digits the counter gains are left out of it (`Fitted`). So the log before the last drop was over the
  limit, and every entry stripped earlier saves at least as much. For `HAR_TOO_LARGE`, a choice that keeps
  a candidate weighs at least a byte more for it, and two bodies cost the counter one digit at most
  (`DigitsGrow`), so no choice is smaller than the one that drops every candidate.
* `FramesEntriesExact`, `FramesNoneMissed` from `IInv`. A port is admitted on the word of a pending record
  that was written for another document of the same url. `Newest` shows that it is nevertheless
  the newest reported document of its frame: `PendingSound` says what was reported since the
  record, `PortsSound` what was reported since the port was opened, and the two exclude each
  other. A message is on its way to a document in which a script has run (`Aimed`), so if it meets nobody that
  document is gone, and `Gone` (what is gone stays gone) is why the send may forget its port later.
* `CaptureOwnImage`, `CaptureOneRendezvous` from `IInv`. Captures of the open tab hold on to one lock
  object (`Meet`), so at most one is *live*: inside the section and not evicted (`OneLive`). The
  message of a live capture is the last in the inbox, so once it is answered the capture knows what the
  page shows (`Page`). An evicted one sends nothing more, and what it leaves behind is what
  `handoff` tells the next one to clear (`Duty`). `Dropped` names, for an entry of a closed tab,
  the capture that will fail and drop it.
* `NetworkIdleSound`, `HoldsIdleSound`, `HoldsHungGivenUp`, `HoldsInTime`, `HoldsNothingMissed`.
  An entry of a request's latest hop carries that hop's time and stays pending while the request is
  in flight (`Ring`), and a request in flight has such an entry unless the ring has lost it (`Seen`). The
  clock never passes the timer a phase has set, and every timer is within the limit that the command's budget gave
  the hold (`ReadyInv`, `WaitInv`); a poll of the critical phase is at most one interval after the
  activity it was allowed for (`HungInv`); and the listeners are up while a wait watches (`MissInv`).

Every safety invariant that a run checks is proved. Only model-checked: liveness, which includes the
fairness of `HostContract` (liveness and ENABLED are outside the prover's reach). `PendingInFlight` is violated.

## Findings

* `network_redirect`: a redirected request has an entry per hop under one id. The end of the
  request is written on the first entry of the id (`network.ts:205`), so the last hop stays
  pending. `docs/architecture.md:70` says `onCompleted` fills in the entry that
  `onBeforeRequest` appended; readiness then waits for a request that is over, until the
  window or the stall threshold ends the wait, as `holds` shows (`InTime`, `HungGivenUp`).
* Found by reading, without a run: `getSession` awaits `tabs.get` of the active tab and on failure sets
  `activeTabId = null` (`session.ts:181`), whatever it is by then. When the tab was closed during
  the await, `onActivated` has made another pool tab the active one, and the reset loses it:
  the next command goes to the last pool tab. `docs/architecture.md:117` says that
  `tabs.onActivated` tracks the active pool tab; for `windows.get` the same function guards
  against this with `this.state === state`. `Session` has the behaviour.

The code also lets a dead tab into the pool: a tab the user closes while a restore evicts others, or
while `tabs.create` is under way, is not in the pool yet when `onRemoved` looks for it. `Session` has
these behaviours; no property claims the contrary, because `getTabs` reports such
a tab as not found.

## Not modelled

* AttachedTabs (`attached.ts`, `handlers/attached.ts`): a map of tab ids mirrored to storage, restored by the
  same memo as the session (which `Dispatcher` models) and changed only under the state lock. `attachTab`
  and `createWindow` hold the same lock, and every restore is over before a handler runs, so
  the pool cannot grow between `attachTab`'s check and its entry.
* The duplicate-window sweep and tab groups (`session.ts:116`): which windows the sweep may close is
  decided by group titles that only Firefox knows; to the session it is a user who closes windows.
* Cookies: shaping of data around `browser.cookies`, without state between commands.
* DOM and devtools handlers, page actions, readers and console capture: they forward or read data of a live
  document. The resend of a message that met no script is in `Holds` and `Frames`.
* Settings, shared types, the options page: wiring and tables. The budgets of `protocol.ts` are
  constants of `Dispatcher` and `Holds`.
* The CLI and its client: argument parsing, one request and one answer; to `Host` a client is a
  connection that may send anything and go at any time. Manifest installation.
* The bytes of the native messaging framing: `Host` models what becomes of a message.
