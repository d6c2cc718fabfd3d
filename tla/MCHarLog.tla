------------------------------ MODULE MCHarLog ------------------------------
(***************************************************************************)
(* Instances of HarLog: up to three hops of the kinds the recorder leaves, *)
(* every limit from nothing to more than the log, a counter in base two.   *)
(***************************************************************************)
EXTENDS HarLog

Plain == [start |-> 1, send |-> 2, received |-> 3, done |-> 5, status |-> 200, head |-> FALSE,
          redirect |-> FALSE, failed |-> FALSE, pending |-> FALSE, length |-> -1,
          body |-> "complete", bodyDropped |-> FALSE, text |-> 4, cookies |-> [count |-> 0, bytes |-> 0],
          post |-> 0, postDropped |-> FALSE]

\* Answered from the cache, so never sent, with a body too short to be worth dropping.
Cached == [Plain EXCEPT !.start = 2, !.send = -1, !.text = 1, !.length = 1, !.cookies = [count |-> 1, bytes |-> 1]]
\* A form posted, both bodies stored; the answer is truncated at the cap.
Posted == [Plain EXCEPT !.start = 3, !.body = "truncated", !.text = 9, !.post = 3, !.length = 9]
\* Cancelled after it was sent, after the budget was spent.
Cancelled == [Plain EXCEPT !.start = 4, !.send = 5, !.received = -1, !.done = 7, !.status = 0,
                 !.failed = TRUE, !.body = "none", !.bodyDropped = TRUE, !.text = 0]
\* Responses after the budget was spent: one with a body, one without.
Spent == [Plain EXCEPT !.start = 2, !.body = "none", !.bodyDropped = TRUE, !.text = 0,
            !.post = 0, !.postDropped = TRUE]
NotModified == [Spent EXCEPT !.status = 304, !.postDropped = FALSE]
\* A redirect hop and one still pending; its stamps come from two clocks.
Redirected == [Plain EXCEPT !.redirect = TRUE, !.status = 302, !.body = "none", !.text = 0,
                 !.bodyDropped = TRUE]
Waiting == [Plain EXCEPT !.start = 3, !.send = 2, !.received = -1, !.done = -1, !.pending = TRUE,
              !.status = 0, !.body = "open", !.text = 0, !.cookies = [count |-> 1, bytes |-> 3], !.post = 2]

\* A form posted and its answer: dropping both saves as much as the one plain body.
Form == [Plain EXCEPT !.text = 3, !.post = 3]

Hops == {Form, Plain, Cached, Posted, Cancelled, Spent, NotModified, Redirected, Waiting}
MCLogs == UNION {[1 .. n -> Hops] : n \in 0 .. 3}
=============================================================================
