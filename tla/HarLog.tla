------------------------------- MODULE HarLog -------------------------------
(***************************************************************************)
(* From the hops of a stopped recording to the HAR that stopHar answers    *)
(* (extension/src/har.ts): buildLog, redactEntry, and fitLog, which drops  *)
(* the largest bodies one by one until the reply fits.                     *)
(*                                                                         *)
(* Text is its length.  An entry weighs its frame, its cookie values, the  *)
(* text of its two bodies, and Flag bytes for each body marked dropped.    *)
(* The log weighs its entries and the digits of its droppedBodies counter. *)
(***************************************************************************)
EXTENDS Integers, Sequences, FiniteSets

CONSTANTS Logs,     \* recordings: sequences of hops
          Limits,   \* limitBytes of the reply
          Flag,     \* bytes of "_bodyDropped":true
          Mask,     \* length of REDACTED_HEADER
          Rollovers \* the counts from which droppedBodies takes one digit more

\* A stamp of -1, a status of 0 and a length of -1 are missing.
Stamp == Nat \cup {-1}

\* HopRecord; of the cookies, how many there are and the bytes of their values.
HopRecord ==
  [start : Nat, send : Stamp, received : Stamp, done : Stamp, status : Nat,
   head : BOOLEAN, redirect : BOOLEAN, failed : BOOLEAN, pending : BOOLEAN,
   length : Nat \cup {-1}, body : {"none", "open", "complete", "truncated"},
   bodyDropped : BOOLEAN, text : Nat, cookies : [count : Nat, bytes : Nat],
   post : Nat, postDropped : BOOLEAN]

ASSUME LogAssumption ==
  /\ {Flag, Mask} \subseteq Nat /\ Limits \subseteq Nat
  /\ \A log \in Logs : log \in Seq(HopRecord)
  /\ IsFiniteSet(Rollovers) /\ Rollovers \subseteq Nat \ {0, 1}
  /\ \A m, n \in Rollovers : m < n => m + 2 <= n

VARIABLES phase, record, limit, redact, \* where stopHar stands, and its inputs
          entries, dropped,             \* log.entries, _recording.droppedBodies
          size, queue,                  \* fitLog's estimate, and the candidates left
          shown                         \* history: the entries before any was dropped

logVars == <<phase, record, limit, redact, entries, dropped, size, queue, shown>>

LogInit ==
  /\ phase = "recorded" /\ record \in Logs /\ limit \in Limits /\ redact \in BOOLEAN
  /\ entries = <<>> /\ dropped = 0 /\ size = 0 /\ queue = {} /\ shown = <<>>

Most(a, b) == IF a > b THEN a ELSE b

----------------------------------------------------------------------------
(* buildLog *)

Or(stamp, other) == IF stamp < 0 THEN other ELSE stamp

\* Seeded fault: a missing stamp does not hand the one before it on.
TimingsFromStart(h) ==
  LET send     == Or(h.send, h.start)
      received == Or(h.received, h.start)
      end      == Or(h.done, h.start)
  IN Most(0, send - h.start) + Most(0, received - send) + Most(0, end - received)

\* timings: blocked, wait and receive, and time as their sum.
Timings(h) ==
  LET send     == Or(h.send, h.start)
      received == Or(h.received, send)
      end      == Or(h.done, received)
  IN Most(0, send - h.start) + Most(0, received - send) + Most(0, end - received)

\* bodiless: a HEAD request, 1xx, 204, 304.
Bodiless(h) == h.head \/ h.status \in (100 .. 199) \cup {204, 304}

\* droppedBody: the budget dropped a body that did come.
DroppedBody(h) ==
  h.bodyDropped /\ h.status # 0 /\ ~h.redirect /\ ~Bodiless(h) /\ h.length # 0

\* response: whether Content-Length tells the size of what came.
Complete(h) == h.done >= 0 /\ ~h.failed /\ ~h.pending /\ (h.body = "none" \/ h.body = "complete")

\* responseSizes
BodySize(h) ==
  IF Bodiless(h) THEN 0
  ELSE IF Complete(h) /\ h.body # "truncated" THEN h.length ELSE -1

\* responseContent: no text without a body, and the body's flags.
Content(h) ==
  [text |-> IF h.body = "none" THEN 0 ELSE h.text, dropped |-> DroppedBody(h),
   truncated |-> h.body = "truncated"]

\* entry: the request with its postData, the response with its content.
Entry(h) ==
  LET content == Content(h)
  IN [start |-> h.start, time |-> Timings(h), bodySize |-> BodySize(h), frame |-> 1,
      cookies |-> h.cookies, text |-> content.text, textDropped |-> content.dropped,
      truncated |-> content.truncated, post |-> h.post, postDropped |-> h.postDropped,
      pending |-> h.pending]

Flags(e) == (IF e.textDropped THEN 1 ELSE 0) + (IF e.postDropped THEN 1 ELSE 0)

\* countBodies of "_bodyDropped".
CountDropped(es) == Cardinality({i \in DOMAIN es : es[i].textDropped})
                      + Cardinality({i \in DOMAIN es : es[i].postDropped})

\* The orders of the hops by their start; the sort is stable.
Orders ==
  {p \in [DOMAIN record -> DOMAIN record] :
     /\ \A n \in DOMAIN record : \E i \in DOMAIN record : p[i] = n
     /\ \A i, j \in DOMAIN record :
          i < j => \/ record[p[i]].start < record[p[j]].start
                   \/ record[p[i]].start = record[p[j]].start /\ p[i] < p[j]}

\* Seeded fault: the counter takes every hop the budget hit.
BuildAllDropped ==
  /\ \E p \in Orders : entries' = [i \in DOMAIN record |-> Entry(record[p[i]])]
  /\ dropped' = Cardinality({i \in DOMAIN record : record[i].bodyDropped})

\* buildLog: entries in the order they started, bodies counted by their flags.
BuildLog ==
  /\ \E p \in Orders : entries' = [i \in DOMAIN record |-> Entry(record[p[i]])]
  /\ dropped' = CountDropped(entries')

BuildHar == /\ phase = "recorded" /\ phase' = "built"
            /\ BuildLog
            /\ UNCHANGED <<record, limit, redact, size, queue, shown>>

----------------------------------------------------------------------------
(* redactEntry and fitLog *)

\* redactEntry: every cookie value becomes the mask, which may be longer.
RedactEntry(e) == [e EXCEPT !.cookies.bytes = Mask * e.cookies.count]

EntryBytes(e) == e.frame + e.cookies.bytes + e.text + e.post + Flag * Flags(e)

\* The bytes of the entries, each named by its entry and its place there.
Chars(es) == UNION {{i} \X (1 .. EntryBytes(es[i])) : i \in DOMAIN es}

Digits(count) == 1 + Cardinality({n \in Rollovers : n <= count})

\* replyBytes of the log.
LogBytes(es, count) == Cardinality(Chars(es)) + Digits(count)

HasPayload(e) == e.text > 0 \/ e.post > 0

\* shell: the entry without the payloads it has; an empty text stays.
Shell(e) == [e EXCEPT !.text = 0, !.textDropped = @ \/ e.text > 0,
                      !.post = 0, !.postDropped = @ \/ e.post > 0]

Bodies(e) == Flags(Shell(e)) - Flags(e)
Saving(e) == EntryBytes(e) - EntryBytes(Shell(e))

\* candidates: dropping must save more than the flags cost.
Candidates(es) == {i \in DOMAIN es : HasPayload(es[i]) /\ Saving(es[i]) > 0}

\* The front of the sorted queue; the sort is stable.
Largest(es, left) ==
  CHOOSE i \in left : \A j \in left : \/ Saving(es[i]) > Saving(es[j])
                                      \/ Saving(es[i]) = Saving(es[j]) /\ i <= j

\* harOf: the log is redacted unless the user opted out, then measured.
Measure ==
  LET es    == IF redact THEN [i \in DOMAIN entries |-> RedactEntry(entries[i])] ELSE entries
      bytes == LogBytes(es, dropped)
  IN /\ phase = "built"
     /\ entries' = es /\ shown' = es /\ size' = bytes /\ queue' = Candidates(es)
     /\ phase' = IF bytes <= limit THEN "answered" ELSE "fitting"
     /\ UNCHANGED <<record, limit, redact, dropped>>

\* Seeded fault: the estimate is taken for the size.
Estimate(bytes, es, count) == bytes

\* The whole reply is measured again only to confirm a fit.
Confirm(bytes, es, count) == IF bytes <= limit THEN LogBytes(es, count) ELSE bytes

\* Seeded fault: the smallest body goes first.
NextSmallest == CHOOSE i \in queue : \A j \in queue : Saving(entries[i]) <= Saving(entries[j])

NextCandidate == Largest(entries, queue)

DropNext ==
  LET i     == NextCandidate
      e     == entries[i]
      es    == [entries EXCEPT ![i] = Shell(e)]
      count == dropped + Bodies(e)
      bytes == Confirm(size - Saving(e), es, count)
  IN /\ phase = "fitting" /\ queue # {}
     /\ entries' = es /\ dropped' = count /\ size' = bytes /\ queue' = queue \ {i}
     /\ phase' = IF bytes <= limit THEN "answered" ELSE "fitting"
     /\ UNCHANGED <<record, limit, redact, shown>>

\* HAR_TOO_LARGE
TooLarge ==
  /\ phase = "fitting" /\ queue = {}
  /\ phase' = "too_large"
  /\ UNCHANGED <<record, limit, redact, entries, dropped, size, queue, shown>>

LogNext == BuildHar \/ Measure \/ DropNext \/ TooLarge

LogSpec == LogInit /\ [][LogNext]_logVars

----------------------------------------------------------------------------
(* Properties *)

\* The log with the payloads of the entries in S dropped and all others kept.
Dropping(S) == [i \in DOMAIN shown |-> IF i \in S THEN Shell(shown[i]) ELSE shown[i]]
ReplyBytes(es) == LogBytes(es, CountDropped(es))

\* An answered log fits the limit, counter included; the counter is the number of
\* bodies the log marks as dropped; and no entry is stripped without need: with the
\* bodies of any one of them back, the counter as it stands, the log is over the limit
\* again.  HAR_TOO_LARGE is answered only if no choice of bodies to drop would have
\* made the log fit (fitLog).
FitSound ==
  /\ dropped = CountDropped(entries)
  /\ phase = "answered" =>
       /\ LogBytes(entries, dropped) <= limit
       /\ \A i \in DOMAIN entries :
            entries[i] # shown[i] => LogBytes([entries EXCEPT ![i] = shown[i]], dropped) > limit
  /\ phase = "too_large" => \A S \in SUBSET DOMAIN shown : ReplyBytes(Dropping(S)) > limit

\* An entry's time never understates the request: it spans from the start to
\* the last stamp there is, and exactly that when the stamps are in order (timings).
TimesSpan ==
  phase = "built" =>
    \A n \in DOMAIN record : \E i \in DOMAIN entries :
      LET h      == record[n]
          stamps == <<h.start, h.send, h.received, h.done>>
          there  == {k \in 1 .. 4 : stamps[k] >= 0}
      IN /\ entries[i].start = h.start
         /\ \A k \in there :
              (\A j \in there : j <= k) =>
                /\ entries[i].time >= stamps[k] - h.start
                /\ (\A a, b \in there : a < b => stamps[a] <= stamps[b]) =>
                     entries[i].time = stamps[k] - h.start
=============================================================================
