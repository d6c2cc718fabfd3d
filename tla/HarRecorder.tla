----------------------------- MODULE HarRecorder -----------------------------
(***************************************************************************)
(* HAR recordings of one tab (extension/src/har-recorder.ts, and startHar  *)
(* and stopHar of extension/src/handlers/har.ts): webRequest listeners     *)
(* open a hop per request and redirect, a stream filter copies the bytes   *)
(* of each response within a cap and a budget, stop hands the data over,   *)
(* and the HAR built from it is kept a while for a stopHar asked again.    *)
(*                                                                         *)
(* The browser's side: channel[q] is where request q stands; its events    *)
(* arrive in order.  Filters and getSecurityInfo answer on their own time, *)
(* also after the recording they belong to stopped.  A body is its number  *)
(* of bytes.                                                               *)
(***************************************************************************)
EXTENDS Naturals, FiniteSets, FiniteSetsExt

CONSTANTS Requests,        \* requests of the tab
          Cap,             \* maxBodySize; 0 records metadata only
          Budget,          \* BODY_BUDGET, for request and response bodies alike
          Chunks,          \* byte counts of an ondata event
          Posts,           \* request bodies: size, and the lengths a cut may leave
          MaxRecs, MaxHops, MaxSeen \* bounds: recordings, hops of a request, bytes of a response

ASSUME HarAssumption ==
  /\ {Cap, Budget, MaxRecs, MaxHops, MaxSeen} \subseteq Nat
  /\ Chunks \subseteq Nat \ {0}
  /\ \A p \in Posts : p.size \in Nat /\ p.cuts \subseteq 0 .. p.size /\ {0, p.size} \subseteq p.cuts

Recs   == 1 .. MaxRecs
HopIds == Requests \X (1 .. MaxHops)

VARIABLES
  tabOpen, channel,  \* the browser: the tab, and each request's hop and stage
  recording, made,   \* the recording in `recordings`, or 0; how many were started
  listening,         \* its webRequest listeners are on
  budget, current,   \* of each recording; the hop each request is on, or 0
  hops, filter,      \* the data of each hop; the status of its stream filter
  asked,             \* hops waiting for getSecurityInfo
  kept, built,       \* `stopped`: the kept HAR, or 0; the HARs that settled
  armed, expiry      \* HARs whose expiry timer is armed; the one in `expiries`

tab    == <<tabOpen, channel>>
data   == <<budget, current, hops, filter, asked>>
keeper == <<kept, built, armed, expiry>>
vars   == <<tab, recording, made, listening, data, keeper>>

\* HopRecord; rec = 0 while no recording has seen the hop.
NoHop == [rec |-> 0, end |-> "none", secure |-> FALSE, size |-> 0, post |-> 0, postLost |-> "no",
          body |-> "none", stored |-> 0, seen |-> 0, result |-> {}, pending |-> FALSE]

Init ==
  /\ tabOpen = TRUE /\ channel = [q \in Requests |-> [hop |-> 0, stage |-> "idle"]]
  /\ recording = 0 /\ made = 0 /\ listening = FALSE
  /\ budget = [r \in Recs |-> Budget] /\ current = [q \in Requests |-> 0]
  /\ hops = [h \in HopIds |-> NoHop] /\ filter = [h \in HopIds |-> "none"] /\ asked = {}
  /\ kept = 0 /\ built = {} /\ armed = {} /\ expiry = 0

\* recording.stopped of the recording that holds hop h.
Stopped(h) == hops[h].rec # recording

Least(a, b) == IF a < b THEN a ELSE b

----------------------------------------------------------------------------
(* Recordings and kept HARs *)

\* forget: the tab's kept HAR goes and its expiry is cancelled.
Forget == armed' = armed \ {expiry} /\ expiry' = 0

\* listen: every webRequest listener is added, or start throws; release.
Listen   == listening' = TRUE
Unlisten == listening' = FALSE

Start ==
  /\ made' = made + 1 /\ recording' = made'
  /\ current' = [q \in Requests |-> 0]
  /\ Listen /\ Forget /\ kept' = 0

\* startHar once the target tab is resolved; a tab that records is refused.
StartHar ==
  /\ tabOpen /\ recording = 0 /\ made < MaxRecs
  /\ Start
  /\ UNCHANGED <<tab, budget, hops, filter, asked, built>>

\* The data of a closed tab stays until stopHar asks for it.
TabRemoved ==
  /\ tabOpen /\ tabOpen' = FALSE
  /\ Unlisten
  /\ UNCHANGED <<channel, recording, made, data, keeper>>

\* Seeded fault: a filter that has not started yet is left as it is.
ReleasedStarted(status) ==
  IF status \in {"transferring", "finished"} THEN "disconnected" ELSE status

\* What releaseFilters makes of a filter; "released" has onstart = disconnect
\* and no other handler.
Released(status) ==
  CASE status \in {"transferring", "finished"} -> "disconnected"
    [] status = "uninitialized"                -> "released"
    [] OTHER                                   -> status

\* finish: a hop without an end is pending.
Finish(hop) == [hop EXCEPT !.pending = hop.end = "none"]

Stop ==
  LET mine == {h \in HopIds : hops[h].rec = recording}
  IN /\ recording' = 0 /\ Unlisten
     /\ filter' = [h \in HopIds |-> IF h \in mine THEN Released(filter[h]) ELSE filter[h]]
     /\ hops' = [h \in HopIds |-> IF h \in mine THEN Finish(hops[h]) ELSE hops[h]]

\* stopHar of a tab that records and keeps no HAR: stop and keep, in one step,
\* before the HAR is built.  Any other stopHar changes nothing: it awaits the
\* HAR that is kept, also of a closed tab, or fails.
StopHar ==
  /\ kept = 0 /\ recording # 0
  /\ Stop
  /\ Forget /\ kept' = recording
  /\ UNCHANGED <<tab, made, budget, current, asked, built>>

\* Seeded fault: the expiry of a HAR is set though the map let it go.
ArmAlways(r) == armed' = armed \cup {r} /\ expiry' = r

\* keep's continuation: only the HAR still kept gets an expiry.
Arm(r) == IF kept = r THEN armed' = armed \cup {r} /\ expiry' = r ELSE UNCHANGED <<armed, expiry>>

\* harOf settles, with the log or with HAR_TOO_LARGE.
Build(r) ==
  /\ r \in (1 .. made) \ (built \cup {recording})
  /\ built' = built \cup {r}
  /\ Arm(r)
  /\ UNCHANGED <<tab, recording, made, listening, data, kept>>

\* HAR_KEEP_MS are over; the timer forgets whatever the tab keeps.
Expire(r) ==
  /\ r \in armed
  /\ armed' = armed \ {r, expiry} /\ expiry' = 0 /\ kept' = 0
  /\ UNCHANGED <<tab, recording, made, listening, data, built>>

----------------------------------------------------------------------------
(* webRequest events *)

\* storeBody with cutBody: the longest cut within the limit, or nothing.
KeptPost(post, left) == Max({n \in post.cuts : n <= Least(Cap, left)})

StoreBody(post, left) ==
  IF left = 0 /\ post.size > 0 THEN [stored |-> 0, lost |-> "dropped"]
  ELSE LET n == KeptPost(post, left)
       IN [stored |-> n, lost |-> IF n < post.size THEN "cut" ELSE "no"]

\* captureResponse: what becomes of the response body before its first byte.
Captures(left) ==
  IF Cap = 0 THEN {[body |-> "none", result |-> {}, status |-> "none"]}
  ELSE IF left = 0 THEN {[body |-> "dropped", result |-> {}, status |-> "none"]}
  ELSE {[body |-> "kept", result |-> {}, status |-> "uninitialized"],
        [body |-> "kept", result |-> {"error"}, status |-> "none"]} \* filterResponseData threw

\* Every onBeforeRequest opens a hop, a redirect's too.
OpenHop(h, post) ==
  LET body == IF Cap = 0 THEN [stored |-> 0, lost |-> "no"] ELSE StoreBody(post, budget[recording])
      left == budget[recording] - body.stored
  IN \E c \in Captures(left) :
       /\ hops' = [hops EXCEPT ![h] = [NoHop EXCEPT !.rec = recording, !.size = IF Cap = 0 THEN 0 ELSE post.size,
                     !.post = body.stored, !.postLost = body.lost, !.body = c.body,
                     !.result = c.result]]
       /\ filter' = [filter EXCEPT ![h] = c.status]
       /\ budget' = [budget EXCEPT ![recording] = left]
       /\ current' = [current EXCEPT ![h[1]] = h[2]]

BeforeRequest(q, post) ==
  LET h == <<q, channel[q].hop + 1>>
  IN /\ tabOpen /\ channel[q].stage \in {"idle", "redirected"} /\ h \in HopIds
     /\ channel' = [channel EXCEPT ![q] = [hop |-> h[2], stage |-> "open"]]
     /\ IF listening THEN OpenHop(h, post) ELSE UNCHANGED <<hops, filter, budget, current>>
     /\ UNCHANGED <<tabOpen, recording, made, listening, asked, keeper>>

\* openHop: the event's hop is the request's current one and has not ended.
IsOpenHop(h) == listening /\ current[h[1]] = h[2] /\ hops[h].end = "none"

\* The blocking listener holds a TLS response until getSecurityInfo answers.
HeadersReceived(q, tls) ==
  LET h     == <<q, channel[q].hop>>
      holds == tls /\ IsOpenHop(h)
  IN /\ tabOpen /\ channel[q].stage = "open"
     /\ channel' = [channel EXCEPT ![q].stage = IF holds THEN "held" ELSE "headers"]
     /\ asked' = IF holds THEN asked \cup {h} ELSE asked
     /\ UNCHANGED <<tabOpen, recording, made, listening, budget, current, hops, filter,
                    keeper>>

\* The security info of a recording that stopped is dropped.
Info(h) == hops' = IF Stopped(h) THEN hops ELSE [hops EXCEPT ![h].secure = TRUE]

SecurityInfo(h) ==
  /\ h \in asked /\ asked' = asked \ {h}
  /\ channel' = [channel EXCEPT ![h[1]].stage =
                   IF @ = "held" /\ channel[h[1]].hop = h[2] THEN "headers" ELSE @]
  /\ Info(h)
  /\ UNCHANGED <<tabOpen, recording, made, listening, budget, current, filter, keeper>>

\* ended and failed: the hop closes; the last one leaves `current`.
EndHop(q, from, stage, end) ==
  LET h == <<q, channel[q].hop>>
  IN /\ tabOpen /\ channel[q].stage \in from
     /\ channel' = [channel EXCEPT ![q].stage = stage]
     /\ IF h \in HopIds /\ IsOpenHop(h)
        THEN /\ hops' = [hops EXCEPT ![h].end = end]
             /\ current' = IF end = "redirect" THEN current ELSE [current EXCEPT ![q] = 0]
        ELSE UNCHANGED <<hops, current>>
     /\ UNCHANGED <<tabOpen, recording, made, listening, budget, filter, asked, keeper>>

Redirect(q)  == EndHop(q, {"headers"}, "redirected", "redirect")
Completed(q) == EndHop(q, {"headers"}, "over", "completed")
Failed(q)    == EndHop(q, {"open", "held", "headers", "redirected"}, "over", "error")

----------------------------------------------------------------------------
(* Stream filter events; every chunk is written through to the page first *)

Unrecorded == UNCHANGED <<tab, recording, made, listening, current, asked, keeper>>

FilterStart(h) ==
  /\ filter[h] \in {"uninitialized", "released"}
  /\ filter' = [filter EXCEPT ![h] = IF @ = "released" THEN "disconnected" ELSE "transferring"]
  /\ UNCHANGED <<budget, hops>> /\ Unrecorded

\* Seeded fault: a chunk is cut by the cap alone.
RoomCap(h) == Cap - hops[h].stored

\* Bytes of the response the recording may still store.
Room(h) == Least(Cap - hops[h].stored, budget[hops[h].rec])

\* ondata: past the room the page gets the rest straight from the channel.
FilterData(h, n) ==
  LET take == Least(Room(h), n)
      all  == hops[h].stored + take
  IN /\ filter[h] = "transferring" /\ hops[h].seen + n <= MaxSeen
     /\ budget' = [budget EXCEPT ![hops[h].rec] = @ - take]
     /\ hops' = [hops EXCEPT
          ![h].seen = @ + n, ![h].stored = all,
          ![h].body = IF take < n /\ all = 0 THEN "dropped" ELSE @,
          ![h].result = IF take < n /\ all > 0 THEN @ \cup {"truncated"} ELSE @]
     /\ filter' = [filter EXCEPT ![h] = IF take < n THEN "disconnected" ELSE @]
     /\ Unrecorded

FilterFinish(h) ==
  /\ filter[h] = "transferring"
  /\ filter' = [filter EXCEPT ![h] = "finished"]
  /\ UNCHANGED <<budget, hops>> /\ Unrecorded

\* onstop: the filter closes; the body is complete.
FilterStop(h) ==
  /\ filter[h] = "finished"
  /\ filter' = [filter EXCEPT ![h] = "closed"]
  /\ hops' = IF Stopped(h) THEN hops ELSE [hops EXCEPT ![h].result = @ \cup {"complete"}]
  /\ UNCHANGED budget /\ Unrecorded

\* onerror, of a disconnected filter too; a released one has no handler left.
FilterError(h) ==
  /\ filter[h] \in {"uninitialized", "released", "transferring", "finished", "disconnected"}
  /\ filter' = [filter EXCEPT ![h] = "failed"]
  /\ hops' = IF Stopped(h) THEN hops ELSE [hops EXCEPT ![h].result = @ \cup {"error"}]
  /\ UNCHANGED budget /\ Unrecorded

Next ==
  \/ StartHar \/ StopHar \/ TabRemoved
  \/ \E r \in Recs : Build(r) \/ Expire(r)
  \/ \E q \in Requests : \/ \E p \in Posts : BeforeRequest(q, p)
                         \/ \E tls \in BOOLEAN : HeadersReceived(q, tls)
                         \/ Redirect(q) \/ Completed(q) \/ Failed(q)
  \/ \E h \in HopIds : \/ SecurityInfo(h) \/ FilterStart(h) \/ FilterFinish(h)
                       \/ \E n \in Chunks : FilterData(h, n)
                       \/ FilterStop(h) \/ FilterError(h)

Spec == Init /\ [][Next]_vars

----------------------------------------------------------------------------
(* Properties *)

HopsOf(r) == {h \in HopIds : hops[h].rec = r}

\* No response of the page hangs on a recording that stopped: its filters are
\* over, or will disconnect as soon as they start (releaseFilters).
FiltersReleased ==
  \A h \in HopIds : Stopped(h) => filter[h] \notin {"uninitialized", "transferring", "finished"}

\* The bytes of bodies a recording stored, each by its hop and its number there.
Bytes(r) == UNION {{h} \X (1 .. (hops[h].stored + hops[h].post)) : h \in HopsOf(r)}

\* What a recording stored and what is left of its budget add up.
BudgetExact == \A r \in Recs : budget[r] >= 0 /\ budget[r] + Cardinality(Bytes(r)) = Budget

\* A body fits the cap, and what the HAR will say of it is true: complete means every
\* byte, truncated or cut means some are missing, dropped means nothing is there.
HonestHop(d) ==
  /\ d.stored <= Cap /\ d.post <= Cap
  /\ d.body = "kept" /\ "truncated" \notin d.result => d.stored = d.seen
  /\ "truncated" \in d.result => 0 < d.stored /\ d.stored < d.seen /\ "complete" \notin d.result
  /\ d.body = "dropped" => d.stored = 0
  /\ (d.postLost = "no") = (d.post = d.size)
  /\ d.postLost = "dropped" => d.post = 0

HopsHonest == \A h \in HopIds : HonestHop(hops[h])

\* The bodies of a recording fit its budget and their caps, and are what the HAR will
\* say they are, whichever filters and events of its requests came in between.
BodiesHonest == BudgetExact /\ HopsHonest

\* A kept HAR is the tab's newest and the tab does not record; its expiry is
\* armed exactly once it is built, and no timer of another HAR is left to
\* forget it early.
KeptSound ==
  /\ kept # 0 => kept = made /\ recording = 0
  /\ armed = {kept} \cap built
  /\ expiry = IF armed = {} THEN 0 ELSE kept
=============================================================================
