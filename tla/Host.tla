-------------------------------- MODULE Host --------------------------------
(***************************************************************************)
(* The native messaging host of firefox-ctl (cli/internal/host/host.go):   *)
(* many CLI connections on a Unix socket share one stdio channel to the    *)
(* extension.  Every critical section of s.mu or c.mu is one action, and   *)
(* so is every call that may block between two of them, because that is    *)
(* where another goroutine runs.                                           *)
(*                                                                         *)
(* Goroutines: one serve() per connection, one timer callback per request, *)
(* one reply goroutine per answered request, the pump (readExtension), the *)
(* accept loop, and Run itself ("main").                                   *)
(***************************************************************************)
EXTENDS Naturals, FiniteSets

CONSTANTS Conns,      \* client connections; each connects once
          Ids,        \* request ids (newID never repeats one)
          MaxConns,   \* s.maxConns, the capacity of the accept semaphore
          BadClients, \* the connections whose client may send a line the host refuses
          None        \* no connection, no request, no thread

ASSUME HostAssumption == /\ None \notin Conns \cup Ids
                         /\ BadClients \subseteq Conns
                         /\ MaxConns \in Nat \ {0}

VARIABLES
  (* s.mu: the tables of the server *)
  pending,    \* s.pending: the ids that await an answer
  owner,      \* owner[i]: request.conn of id i, once i is registered
  stoppable,  \* the pending ids whose request.stop is recorded
  ids,        \* ids[c]: c.ids
  conns,      \* s.conns
  closing,    \* s.closing
  (* per connection *)
  serve,      \* serve[c]: where serve(nc) stands
  cur,        \* cur[c]: the id forward() is handling
  sock,       \* sock[c]: the socket as the host left it
  closed,     \* closed[c]: c.closed
  cmu,        \* cmu[c]: the thread that holds c.mu
  writes,     \* writes[c]: the threads counted by c.writes
  (* threads that reply() or closeClient() *)
  step,       \* step[t]: where thread t stands inside reply and closeClient
  rid,        \* rid[c]: the request serve(c) itself answers, or None
  (* timers and the extension *)
  timers,     \* the requests whose time.AfterFunc timer is live
  sent,       \* pending ids whose command reached the extension
  pump,       \* readExtension: "reading", or how it ended
  replies,    \* s.replies: the ids whose handed-off reply is still running
  fatal,      \* s.fatal holds an error
  (* Run and accept *)
  cancelled,  \* the caller's ctx (a signal) or Run's own cancel()
  main,       \* where Run stands
  victims,    \* the connections closeClients has still to close
  cutting,    \* the connection closeClients is closing
  listening,  \* ln is open
  accept,     \* where the accept loop stands
  sem,        \* tokens taken from the accept semaphore
  (* history *)
  lines,      \* lines[i]: answers to request i whose write was begun
  got         \* the requests whose answer was written to the end

table  == <<pending, owner, stoppable, ids, conns>>
perC   == <<serve, cur, sock>>
lockC  == <<closed, cmu, writes>>
ext    == <<sent, pump, replies, fatal>>
run    == <<cancelled, closing, main, victims, cutting>>
loop   == <<listening, accept, sem>>
history == <<lines, got>>
vars == <<table, perC, lockC, step, rid, timers, ext, run, loop, history>>

----------------------------------------------------------------------------
(* Threads *)

ServeT(c) == <<"serve", c>>
TimerT(i) == <<"timer", i>>
PumpT(i)  == <<"pump", i>>
Main      == <<"main", None>>

ServeThreads == {ServeT(c) : c \in Conns}
TimerThreads == {TimerT(i) : i \in Ids}
PumpThreads  == {PumpT(i) : i \in Ids}
ReplyThreads == ServeThreads \cup TimerThreads \cup PumpThreads
Threads == ReplyThreads \cup {Main}

Steps == {"idle",      \* outside reply and closeClient
          "take",      \* a timer callback that has still to take its request
          "ready",     \* reply: before c.mu
          "writing",   \* reply: in writeLine, holding c.mu
          "drop",      \* closeClient: before its s.mu section
          "shut",      \* closeClient: before nc.Close
          "mark"}      \* closeClient: before its c.mu section

\* The connection a thread's reply or closeClient is about.
Target(t) == IF t \in ServeThreads THEN t[2]
             ELSE IF t = Main THEN cutting ELSE owner[t[2]]

\* The request a thread's reply answers; None for a reply about a bad line.
RequestOf(t) == IF t \in ServeThreads THEN rid[t[2]]
                ELSE IF t = Main THEN None ELSE t[2]

Init ==
  /\ pending = {} /\ stoppable = {} /\ conns = {} /\ closing = FALSE
  /\ owner = [i \in Ids |-> None]
  /\ ids = [c \in Conns |-> {}]
  /\ serve = [c \in Conns |-> "none"]
  /\ cur = [c \in Conns |-> None]
  /\ sock = [c \in Conns |-> "none"]
  /\ closed = [c \in Conns |-> FALSE]
  /\ cmu = [c \in Conns |-> None]
  /\ writes = [c \in Conns |-> {}]
  /\ step = [t \in Threads |-> "idle"]
  /\ rid = [c \in Conns |-> None]
  /\ timers = {}
  /\ sent = {} /\ pump = "reading" /\ replies = {} /\ fatal = FALSE
  /\ cancelled = FALSE /\ main = "select" /\ victims = {} /\ cutting = None
  /\ listening = TRUE /\ accept = "acquire" /\ sem = 0
  /\ lines = [i \in Ids |-> 0] /\ got = {}

----------------------------------------------------------------------------
(* The accept loop *)

\* select { case sem <- struct{}{}: ... case <-ctx.Done(): return }
AcquireSlot ==
  /\ accept = "acquire"
  /\ \/ /\ sem < MaxConns
        /\ sem' = sem + 1
        /\ accept' = "accepting"
     \/ /\ cancelled
        /\ accept' = "exiting"
        /\ UNCHANGED sem
  /\ UNCHANGED <<table, perC, lockC, step, rid, timers, ext, run, listening, history>>

AcceptConn(c) ==
  /\ accept = "accepting" /\ listening /\ serve[c] = "none"
  /\ accept' = "acquire"
  /\ serve' = [serve EXCEPT ![c] = "start"]
  /\ sock' = [sock EXCEPT ![c] = "open"]
  /\ UNCHANGED <<table, cur, lockC, step, rid, timers, ext, run, listening, sem, history>>

\* Seeded fault: the error path keeps the slot.
AcceptErrorKeepsSlot ==
  /\ accept = "accepting"
  /\ accept' = IF cancelled \/ ~listening THEN "exiting" ELSE "acquire"
  /\ UNCHANGED <<table, perC, lockC, step, rid, timers, ext, run, listening, sem, history>>

\* ln.Accept fails: for good once ln is closed, or for a passing reason.
AcceptError ==
  /\ accept = "accepting"
  /\ sem' = sem - 1
  /\ accept' = IF cancelled \/ ~listening THEN "exiting" ELSE "acquire"
  /\ UNCHANGED <<table, perC, lockC, step, rid, timers, ext, run, listening, history>>

----------------------------------------------------------------------------
(* The pending table: the sections that hold s.mu *)

\* Seeded fault: the id stays in the table of its connection.
TakeLeavesId(i) ==
  /\ pending' = pending \ {i}
  /\ stoppable' = stoppable \ {i}
  /\ sent' = sent \ {i}
  /\ timers' = timers \ ({i} \cap stoppable)
  /\ UNCHANGED <<owner, ids, conns>>

\* takeLocked: the entry leaves both tables and its recorded timer is stopped.
TakeLocked(i) ==
  /\ pending' = pending \ {i}
  /\ stoppable' = stoppable \ {i}
  /\ sent' = sent \ {i}
  /\ ids' = [ids EXCEPT ![owner[i]] = @ \ {i}]
  /\ timers' = timers \ ({i} \cap stoppable)
  /\ UNCHANGED <<owner, conns>>

----------------------------------------------------------------------------
(* serve(nc): the read loop of one connection *)

Serving(c, at) == serve[c] \in at /\ step[ServeT(c)] = "idle"

\* Seeded fault: a connection accepted during the shutdown is served.
EnterAnyway(c) ==
  /\ serve[c] = "start"
  /\ conns' = conns \cup {c}
  /\ serve' = [serve EXCEPT ![c] = "reading"]
  /\ UNCHANGED <<pending, owner, stoppable, ids, cur, sock, lockC, step, rid, timers, ext, run,
                 loop, history>>

\* serve registers the connection, unless closeClients ran already.
Enter(c) ==
  /\ serve[c] = "start"
  /\ IF closing
       THEN /\ sock' = [sock EXCEPT ![c] = "closed"]
            /\ serve' = [serve EXCEPT ![c] = "done"]
            /\ sem' = sem - 1
            /\ UNCHANGED conns
       ELSE /\ conns' = conns \cup {c}
            /\ serve' = [serve EXCEPT ![c] = "reading"]
            /\ UNCHANGED <<sock, sem>>
  /\ UNCHANGED <<pending, owner, stoppable, ids, cur, lockC, step, rid, timers, ext, run,
                 listening, accept, history>>

\* A line that is refused before it is forwarded (invalid JSON, no command), or
\* one above the size cap, after which the loop ends.
BadLine(c) ==
  /\ c \in BadClients
  /\ Serving(c, {"reading"})
  /\ \E next \in {"reading", "toolong"} : serve' = [serve EXCEPT ![c] = next]
  /\ step' = [step EXCEPT ![ServeT(c)] = "ready"]
  /\ rid' = [rid EXCEPT ![c] = None]
  /\ UNCHANGED <<table, cur, sock, lockC, timers, ext, run, loop, history>>

\* forward, first section: the request enters both tables.  A line may have been
\* buffered by the scanner before the host closed the socket.
Register(c, i) ==
  /\ Serving(c, {"reading"})
  /\ owner[i] = None
  /\ owner' = [owner EXCEPT ![i] = c]
  /\ pending' = pending \cup {i}
  /\ ids' = [ids EXCEPT ![c] = @ \cup {i}]
  /\ cur' = [cur EXCEPT ![c] = i]
  /\ serve' = [serve EXCEPT ![c] = "arm"]
  /\ UNCHANGED <<stoppable, conns, sock, lockC, step, rid, timers, ext, run, loop, history>>

\* Seeded fault: a request without a timer.
ArmNothing(c) ==
  /\ serve[c] = "arm"
  /\ serve' = [serve EXCEPT ![c] = "record"]
  /\ UNCHANGED <<table, cur, sock, lockC, step, rid, timers, ext, run, loop, history>>

ArmTimer(c) ==
  /\ serve[c] = "arm"
  /\ timers' = timers \cup {cur[c]}
  /\ serve' = [serve EXCEPT ![c] = "record"]
  /\ UNCHANGED <<table, cur, sock, lockC, step, rid, ext, run, loop, history>>

\* Seeded fault: a timer armed for a request that has gone is not stopped.
RecordStopOnly(c) ==
  /\ serve[c] = "record"
  /\ stoppable' = stoppable \cup ({cur[c]} \cap pending)
  /\ serve' = [serve EXCEPT ![c] = "write"]
  /\ UNCHANGED <<pending, owner, ids, conns, cur, sock, lockC, step, rid, timers, ext, run, loop,
                 history>>

\* forward, second section: the stop function is recorded, or called at once
\* when the entry has gone in the meantime.
RecordStop(c) ==
  /\ serve[c] = "record"
  /\ IF cur[c] \in pending
       THEN stoppable' = stoppable \cup {cur[c]} /\ UNCHANGED timers
       ELSE timers' = timers \ {cur[c]} /\ UNCHANGED stoppable
  /\ serve' = [serve EXCEPT ![c] = "write"]
  /\ UNCHANGED <<pending, owner, ids, conns, cur, sock, lockC, step, rid, ext, run, loop, history>>

\* forward returns to the read loop.
Forwarded(c) == /\ serve' = [serve EXCEPT ![c] = "reading"]
                /\ cur' = [cur EXCEPT ![c] = None]

\* fail: s.fatal is buffered, and read by nobody once Run has left its select.
Fail == fatal' = (fatal \/ main = "select")

\* s.out.Write(cmd): the frame goes out, is above the frame limit, or the
\* channel is broken, which is fatal.
WriteCommand(c) ==
  /\ serve[c] = "write"
  /\ \/ /\ sent' = sent \cup ({cur[c]} \cap pending)
        /\ Forwarded(c)
        /\ UNCHANGED fatal
     \/ /\ serve' = [serve EXCEPT ![c] = "refuse"]
        /\ UNCHANGED <<cur, sent, fatal>>
     \/ /\ Fail
        /\ Forwarded(c)
        /\ UNCHANGED sent
  /\ UNCHANGED <<table, sock, lockC, step, rid, timers, pump, replies, run, loop, history>>

Refuse(c) ==
  /\ serve[c] = "refuse"
  /\ Forwarded(c)
  /\ IF cur[c] \in pending
       THEN /\ TakeLocked(cur[c])
            /\ step' = [step EXCEPT ![ServeT(c)] = "ready"]
            /\ rid' = [rid EXCEPT ![c] = cur[c]]
       ELSE UNCHANGED <<table, timers, sent, step, rid>>
  /\ UNCHANGED <<sock, lockC, pump, replies, fatal, run, loop, history>>

\* drain: the write side is shut, then the rest is read away for a bounded time.
Drain(c) ==
  /\ Serving(c, {"toolong"})
  /\ sock' = [sock EXCEPT ![c] = IF @ = "open" THEN "half" ELSE @]
  /\ serve' = [serve EXCEPT ![c] = "draining"]
  /\ UNCHANGED <<table, cur, lockC, step, rid, timers, ext, run, loop, history>>

\* The scan loop ends: the client hung up, the socket is closed under the
\* reader, or the idle deadline of a connection without a request passed.  A
\* client may hang up at any time, so the deadline needs no state of its own.
ScanEnds(c) ==
  /\ Serving(c, {"reading", "draining"})
  /\ serve' = [serve EXCEPT ![c] = "leaving"]
  /\ step' = [step EXCEPT ![ServeT(c)] = "drop"]
  /\ rid' = [rid EXCEPT ![c] = None]
  /\ UNCHANGED <<table, cur, sock, lockC, timers, ext, run, loop, history>>

\* Seeded fault: serve returns without waiting for the writes.
LeaveAtOnce(c) ==
  /\ Serving(c, {"leaving"})
  /\ serve' = [serve EXCEPT ![c] = "done"]
  /\ sem' = sem - 1
  /\ UNCHANGED <<table, cur, sock, lockC, step, rid, timers, ext, run, listening, accept, history>>

\* c.writes.Wait(), wg.Done() and <-sem.
Leave(c) ==
  /\ Serving(c, {"leaving"}) /\ writes[c] = {}
  /\ serve' = [serve EXCEPT ![c] = "done"]
  /\ sem' = sem - 1
  /\ UNCHANGED <<table, cur, sock, lockC, step, rid, timers, ext, run, listening, accept, history>>

----------------------------------------------------------------------------
(* Timers and the extension *)

TimerFires(i) ==
  /\ i \in timers
  /\ timers' = timers \ {i}
  /\ step' = [step EXCEPT ![TimerT(i)] = "take"]
  /\ UNCHANGED <<table, perC, lockC, rid, ext, run, loop, history>>

\* Seeded fault: the callback answers without looking whether the request is
\* still pending.
ExpireBlind(i) ==
  /\ step[TimerT(i)] = "take"
  /\ TakeLocked(i) /\ step' = [step EXCEPT ![TimerT(i)] = "ready"]
  /\ UNCHANGED <<perC, lockC, rid, pump, replies, fatal, run, loop, history>>

Expire(i) ==
  /\ step[TimerT(i)] = "take"
  /\ IF i \in pending
       THEN TakeLocked(i) /\ step' = [step EXCEPT ![TimerT(i)] = "ready"]
       ELSE step' = [step EXCEPT ![TimerT(i)] = "idle"] /\ UNCHANGED <<table, timers, sent>>
  /\ UNCHANGED <<perC, lockC, rid, pump, replies, fatal, run, loop, history>>

\* Seeded fault: the reply goroutine is not counted when it is handed off.
ClaimUncounted(i) ==
  /\ pump = "reading" /\ i \in sent /\ i \in pending
  /\ TakeLocked(i)
  /\ step' = [step EXCEPT ![PumpT(i)] = "ready"]
  /\ UNCHANGED <<perC, lockC, rid, pump, replies, fatal, run, loop, history>>

\* A response frame: claim takes the entry and counts the reply before the
\* goroutine that writes it starts.  A response to an id that is no longer
\* pending changes nothing.
ClaimReply(i) ==
  /\ pump = "reading" /\ i \in sent /\ i \in pending
  /\ TakeLocked(i)
  /\ replies' = replies \cup {i}
  /\ step' = [step EXCEPT ![PumpT(i)] = "ready"]
  /\ UNCHANGED <<perC, lockC, rid, pump, fatal, run, loop, history>>

\* The answer to a ping or a version probe cannot be written.
ProbeFails ==
  /\ pump = "reading"
  /\ Fail
  /\ UNCHANGED <<table, perC, lockC, step, rid, timers, sent, pump, replies, run, loop, history>>

\* stdin ends, or its framing is lost; once Run has left its select nobody asks
\* which of the two it was.
PumpEnds ==
  /\ pump = "reading"
  /\ \/ pump' = "eof"
     \/ pump' = "error" /\ main = "select"
  /\ UNCHANGED <<table, perC, lockC, step, rid, timers, sent, replies, fatal, run, loop, history>>

----------------------------------------------------------------------------
(* reply(c, resp) *)

\* A thread that leaves reply or closeClient: the write it counted is done, and
\* so is the reply it was handed.
Finished(t) ==
  /\ step' = [step EXCEPT ![t] = "idle"]
  /\ rid' = IF t \in ServeThreads THEN [rid EXCEPT ![t[2]] = None] ELSE rid
  /\ replies' = IF t \in PumpThreads THEN replies \ {t[2]} ELSE replies

\* c.mu is taken and c.closed is read; writeLine begins.
BeginReply(t) ==
  /\ step[t] = "ready" /\ cmu[Target(t)] = None
  /\ IF closed[Target(t)]
       THEN Finished(t) /\ UNCHANGED <<cmu, writes, lines>>
       ELSE /\ cmu' = [cmu EXCEPT ![Target(t)] = t]
            /\ writes' = [writes EXCEPT ![Target(t)] = @ \cup {t}]
            /\ step' = [step EXCEPT ![t] = "writing"]
            /\ lines' = IF RequestOf(t) = None THEN lines
                        ELSE [lines EXCEPT ![RequestOf(t)] = @ + 1]
            /\ UNCHANGED <<replies, rid>>
  /\ UNCHANGED <<table, perC, closed, timers, sent, pump, fatal, run, loop, got>>

ReplyWritten(t) ==
  /\ step[t] = "writing" /\ sock[Target(t)] = "open"
  /\ Finished(t)
  /\ cmu' = [cmu EXCEPT ![Target(t)] = None]
  /\ writes' = [writes EXCEPT ![Target(t)] = @ \ {t}]
  /\ got' = got \cup ({RequestOf(t)} \ {None})
  /\ UNCHANGED <<table, perC, closed, timers, sent, pump, fatal, run, loop, lines>>

\* Seeded fault: the failed write leaves c.mu locked.
ReplyFailsLocked(t) ==
  /\ step[t] = "writing"
  /\ step' = [step EXCEPT ![t] = "drop"]
  /\ UNCHANGED <<table, perC, lockC, rid, timers, ext, run, loop, history>>

\* The socket is closed or shut for writing, the client is gone, or it let the
\* deadline of a chunk pass: reply unlocks c.mu and calls closeClient.
ReplyFails(t) ==
  /\ step[t] = "writing"
  /\ cmu' = [cmu EXCEPT ![Target(t)] = None]
  /\ step' = [step EXCEPT ![t] = "drop"]
  /\ UNCHANGED <<table, perC, closed, writes, rid, timers, ext, run, loop, history>>

----------------------------------------------------------------------------
(* closeClient(c) *)

\* The s.mu section: every request the client still owns is dropped.
DropRequests(t) ==
  LET c == Target(t) IN
  /\ step[t] = "drop"
  /\ timers' = timers \ (ids[c] \cap pending \cap stoppable)
  /\ pending' = pending \ ids[c]
  /\ stoppable' = stoppable \ ids[c]
  /\ sent' = sent \ ids[c]
  /\ ids' = [ids EXCEPT ![c] = {}]
  /\ conns' = conns \ {c}
  /\ step' = [step EXCEPT ![t] = "shut"]
  /\ UNCHANGED <<owner, perC, lockC, rid, pump, replies, fatal, run, loop, history>>

CloseSocket(t) ==
  /\ step[t] = "shut"
  /\ sock' = [sock EXCEPT ![Target(t)] = "closed"]
  /\ step' = [step EXCEPT ![t] = "mark"]
  /\ UNCHANGED <<table, serve, cur, lockC, rid, timers, ext, run, loop, history>>

MarkClosed(t) ==
  /\ step[t] = "mark" /\ cmu[Target(t)] = None
  /\ closed' = [closed EXCEPT ![Target(t)] = TRUE]
  /\ writes' = [writes EXCEPT ![Target(t)] = @ \ {t}]
  /\ Finished(t)
  /\ cutting' = IF t = Main THEN None ELSE cutting
  /\ UNCHANGED <<table, perC, cmu, timers, sent, pump, fatal, cancelled, closing, main,
                 victims, loop, history>>

----------------------------------------------------------------------------
(* Run: the select, the shutdown *)

\* A signal cancels the caller's context; later on Run cancels it itself.
Cancel ==
  /\ ~cancelled /\ main \in {"select", "await"}
  /\ cancelled' = TRUE
  /\ UNCHANGED <<table, perC, lockC, step, rid, timers, ext, closing, main, victims, cutting, loop,
                 history>>

\* cancel() and ln.Close(), the statements after the select; no error is read from
\* s.fatal any more.
StopListening(how) ==
  /\ main' = how
  /\ cancelled' = TRUE /\ listening' = FALSE /\ fatal' = FALSE

\* The select takes any case that is ready; only a clean EOF awaits replies.
Select ==
  /\ main = "select"
  /\ \/ /\ pump = "eof"
        /\ main' = "await" /\ fatal' = FALSE
        /\ UNCHANGED <<cancelled, listening>>
     \/ /\ pump = "error" \/ fatal \/ cancelled
        /\ StopListening("stopped")
  /\ UNCHANGED <<table, perC, lockC, step, rid, timers, sent, pump, replies, closing, victims,
                 cutting, accept, sem, history>>

\* awaitReplies: s.replies.Wait returned, or the drain timer or the context cut
\* the wait short.
AwaitReplies ==
  /\ main = "await"
  /\ \/ replies = {} /\ StopListening("flushed")
     \/ StopListening("stopped")
  /\ UNCHANGED <<table, perC, lockC, step, rid, timers, sent, pump, replies, closing, victims,
                 cutting, accept, sem, history>>

\* closeClients, its s.mu section.
Snapshot ==
  /\ main \in {"flushed", "stopped"}
  /\ closing' = TRUE /\ victims' = conns
  /\ main' = "closing"
  /\ UNCHANGED <<table, perC, lockC, step, rid, timers, ext, cancelled, cutting, loop, history>>

CloseNext(c) ==
  /\ main = "closing" /\ step[Main] = "idle" /\ c \in victims
  /\ victims' = victims \ {c} /\ cutting' = c
  /\ step' = [step EXCEPT ![Main] = "drop"]
  /\ UNCHANGED <<table, perC, lockC, rid, timers, ext, cancelled, closing, main, loop, history>>

\* <-acceptDone: the accept loop has left, and wg.Wait returned.
Return ==
  /\ main = "closing" /\ step[Main] = "idle" /\ victims = {}
  /\ accept = "exiting" /\ \A c \in Conns : serve[c] \in {"none", "done"}
  /\ main' = "returned"
  /\ UNCHANGED <<table, perC, lockC, step, rid, timers, ext, cancelled, closing, victims, cutting,
                 loop, history>>

----------------------------------------------------------------------------

\* The process has left Run; what is left of its goroutines dies with it.
Exited == main = "returned" /\ UNCHANGED vars

Next ==
  \/ AcquireSlot \/ AcceptError
  \/ \E c \in Conns : \/ AcceptConn(c) \/ Enter(c) \/ BadLine(c) \/ ArmTimer(c) \/ RecordStop(c)
                      \/ WriteCommand(c) \/ Refuse(c) \/ Drain(c) \/ ScanEnds(c) \/ Leave(c)
                      \/ CloseNext(c)
  \/ \E c \in Conns, i \in Ids : Register(c, i)
  \/ \E i \in Ids : TimerFires(i) \/ Expire(i) \/ ClaimReply(i)
  \/ ProbeFails \/ PumpEnds
  \/ \E t \in ReplyThreads : BeginReply(t) \/ ReplyWritten(t) \/ ReplyFails(t)
  \/ \E t \in Threads : DropRequests(t) \/ CloseSocket(t) \/ MarkClosed(t)
  \/ Cancel \/ Select \/ AwaitReplies \/ Snapshot \/ Return \/ Exited

Spec == Init /\ [][Next]_vars

(***************************************************************************)
(* Fairness.  The Go scheduler runs every goroutine that can run; timers,  *)
(* chunk deadlines and the drain deadline fire; a command written to       *)
(* stdout is consumed by Firefox.  Nothing is assumed of clients, of the   *)
(* extension's replies or of signals, and weak fairness is enough, also    *)
(* for c.mu, as long as a connection sends finitely many lines (Ids is     *)
(* finite and no client in BadClients).                                    *)
(***************************************************************************)
CutOff(c) == sock[c] = "closed" \/ serve[c] = "draining"

\* The steps of serve(c) that do not wait for its client.
ServeRuns(c) == \/ Enter(c) \/ ArmTimer(c) \/ RecordStop(c) \/ WriteCommand(c) \/ Refuse(c)
                \/ Drain(c) \/ Leave(c)

ThreadRuns(t) == \/ t \in ReplyThreads /\ (BeginReply(t) \/ ReplyWritten(t) \/ ReplyFails(t))
                 \/ DropRequests(t) \/ CloseSocket(t) \/ MarkClosed(t)

RunRuns == Select \/ AwaitReplies \/ Snapshot \/ Return \/ \E c \in Conns : CloseNext(c)

FairSpec ==
  /\ Spec
  /\ \A c \in Conns : WF_vars(ServeRuns(c)) /\ WF_vars(CutOff(c) /\ ScanEnds(c))
  /\ \A i \in Ids : WF_vars(TimerFires(i)) /\ WF_vars(Expire(i))
  /\ \A t \in Threads : WF_vars(ThreadRuns(t))
  /\ WF_vars(RunRuns)
  /\ WF_vars(AcquireSlot) /\ WF_vars(~listening /\ AcceptError)

----------------------------------------------------------------------------
(* Invariants *)

ServeStates == {"none", "start", "reading", "arm", "record", "write", "refuse", "toolong",
                "draining", "leaving", "done"}

\* Every variable has its type; the semaphore never holds more than its capacity.
TypeOK ==
  /\ pending \in SUBSET Ids /\ stoppable \in SUBSET Ids /\ sent \in SUBSET Ids
  /\ replies \in SUBSET Ids /\ got \in SUBSET Ids
  /\ owner \in [Ids -> Conns \cup {None}]
  /\ ids \in [Conns -> SUBSET Ids]
  /\ conns \in SUBSET Conns /\ victims \in SUBSET Conns
  /\ serve \in [Conns -> ServeStates]
  /\ cur \in [Conns -> Ids \cup {None}] /\ rid \in [Conns -> Ids \cup {None}]
  /\ sock \in [Conns -> {"none", "open", "half", "closed"}]
  /\ closed \in [Conns -> BOOLEAN]
  /\ cmu \in [Conns -> ReplyThreads \cup {None}]
  /\ writes \in [Conns -> SUBSET ReplyThreads]
  /\ step \in [Threads -> Steps]
  /\ timers \in SUBSET Ids
  /\ pump \in {"reading", "eof", "error"}
  /\ fatal \in BOOLEAN /\ cancelled \in BOOLEAN /\ closing \in BOOLEAN /\ listening \in BOOLEAN
  /\ main \in {"select", "await", "flushed", "stopped", "closing", "returned"}
  /\ cutting \in Conns \cup {None}
  /\ accept \in {"acquire", "accepting", "exiting"}
  /\ sem \in 0..MaxConns
  /\ lines \in [Ids -> Nat]

\* The two tables tell one story: c.ids holds exactly the pending requests of c,
\* whichever of takeLocked and closeClient removed the others, and no stop
\* function is kept for a request that is not pending.
TablesAgree ==
  /\ \A c \in Conns : ids[c] = {i \in pending : owner[i] = c}
  /\ stoppable \subseteq pending

\* A request is answered at most once although the timeout, the extension's
\* reply, the size refusal and the disconnect race for it.
AnsweredOnce == \A i \in Ids : lines[i] <= 1

\* No timer is left behind: a live timer belongs to a pending request that can
\* stop it, or forward() is about to record or call its stop function.
TimersAccounted ==
  \A i \in timers :
     \/ i \in stoppable
     \/ \E c \in Conns : serve[c] = "record" /\ cur[c] = i

\* The threads that write to c, or close it after a write that failed.
Touching(c) == {t \in ReplyThreads : step[t] \in {"writing", "drop", "shut", "mark"} /\ Target(t) = c}

\* Once serve(c) has returned and freed its slot nothing of c is left: no
\* pending request, no live timer, no reply that still writes to it or closes it
\* (deferred closeClient and writes.Wait, in that order).
ServedIsQuiet ==
  \A c \in Conns : serve[c] = "done" =>
     /\ c \notin conns /\ ids[c] = {} /\ Touching(c) = {}
     /\ \A i \in timers : owner[i] # c

\* Connections in service never exceed maxConns: the semaphore counts exactly
\* the served connections and the one the accept loop is about to take.
Served == {c \in Conns : serve[c] \notin {"none", "done"}}
SlotsBounded == sem = Cardinality(Served) + (IF accept = "accepting" THEN 1 ELSE 0)

\* When awaitReplies ends because replies.Wait returned, every reply the pump
\* handed off has reached its client or found its connection cut.
FlushedIsWritten == main = "flushed" => \A i \in Ids : step[PumpT(i)] = "idle"

----------------------------------------------------------------------------
(* Refinement: the host implements HostContract *)

\* Some thread still carries an answer to request i.
Carried(i) == \E t \in ReplyThreads : step[t] \in {"ready", "writing", "drop"} /\ RequestOf(t) = i

PromisedState(i) ==
  IF owner[i] = None THEN "new"
  ELSE IF i \in got THEN "answered"
  ELSE IF i \in pending \/ Carried(i) THEN "open"
  ELSE "dropped"

CutConns == {c \in Conns : serve[c] \notin {"none", "start"} /\ c \notin conns}

Contract == INSTANCE HostContract WITH
              state <- [i \in Ids |-> PromisedState(i)],
              cut   <- CutConns

\* The host keeps its promise to the clients: a request is answered at most
\* once, on its own connection, and dropped only when that connection is cut; and
\* none stays open for ever: its timer, its reply or the end of its connection
\* settles it.
SettlesRequests == Contract!Spec

\* Once stdin has ended, a signal came or the bridge failed, Run returns: the
\* shutdown is not held up by a client, a lock or a reply.
ShutdownCompletes == (cancelled \/ fatal \/ pump # "reading") ~> main = "returned"

=============================================================================
