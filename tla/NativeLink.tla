----------------------------- MODULE NativeLink -----------------------------
(***************************************************************************)
(* The native messaging link of the background page                        *)
(* (extension/src/port.ts): one port to `firefox-ctl host`, requests of    *)
(* the extension matched to replies by id, commands of the host answered   *)
(* on the port they came from, and reconnection with a bounded number of   *)
(* attempts.                                                               *)
(*                                                                         *)
(* Ports are numbered in the order connectNative returns them.  The        *)
(* browser may report a frame or a disconnect of any port it ever opened,  *)
(* also of one the link has replaced: the handlers are closures over their *)
(* port and decide for themselves.  Delays are left out: a timer is armed  *)
(* or not, and an armed one fires at any moment.                           *)
(***************************************************************************)
EXTENDS Naturals

CONSTANTS Requests,    \* calls of send(), each made once
          Commands,    \* host commands, each arriving once
          MaxAttempts, \* RECONNECT.maxAttempts
          MaxPorts     \* bound: connections the browser grants

ASSUME NativeLinkAssumption == MaxAttempts \in Nat /\ MaxPorts \in Nat

None  == 0
Ports == 1 .. MaxPorts

VARIABLES
  opened,         \* how many ports connectNative has returned
  port,           \* this.port, or None
  attempt,        \* this.attempt
  reconnectTimer, \* whether the retry timer is armed
  stableTimer,    \* whether the stability timer is armed
  pending,        \* the ids in this.pending
  timers,         \* the requests whose timer is armed
  outcome,        \* outcome[r]: how the promise of send() stands
  sentOn,         \* sentOn[r]: the port request r was posted to
  origin,         \* origin[c]: the port command c came from, None before it came
  reply,          \* reply[c]: what became of the answer to c
  postedOn,       \* postedOn[c]: the port the answer was posted to
  failures        \* history: failures in a row since a connection proved
                  \* stable or the link gave up

connection == <<opened, port, attempt, reconnectTimer, stableTimer, failures>>
requests   == <<pending, timers, outcome, sentOn>>
commands   == <<origin, reply, postedOn>>
vars       == <<connection, requests, commands>>

Init ==
  /\ opened = 0 /\ port = None /\ attempt = 0
  /\ reconnectTimer = FALSE /\ stableTimer = FALSE /\ failures = 0
  /\ pending = {} /\ timers = {}
  /\ outcome = [r \in Requests |-> "unsent"] /\ sentOn = [r \in Requests |-> None]
  /\ origin = [c \in Commands |-> None] /\ postedOn = [c \in Commands |-> None]
  /\ reply = [c \in Commands |-> "none"]

----------------------------------------------------------------------------
(* Connecting *)

\* Seeded fault: giving up one attempt late.
ScheduleOneMore(before, failed) ==
  IF before > MaxAttempts
    THEN attempt' = 0 /\ reconnectTimer' = FALSE /\ failures' = 0
    ELSE attempt' = before + 1 /\ reconnectTimer' = TRUE /\ failures' = failed

\* scheduleReconnect() where no port and no retry timer is left: arm the timer, or
\* give up and start counting anew.  failed is what the history counts.
ScheduleReconnect(before, failed) ==
  IF before >= MaxAttempts
    THEN attempt' = 0 /\ reconnectTimer' = FALSE /\ failures' = 0
    ELSE attempt' = before + 1 /\ reconnectTimer' = TRUE /\ failures' = failed

\* connectNative returns a port.
Connects ==
  /\ opened < MaxPorts
  /\ opened' = opened + 1
  /\ port' = opened + 1
  /\ reconnectTimer' = FALSE
  /\ stableTimer' = TRUE
  /\ UNCHANGED <<attempt, failures>>

\* connectNative throws.  A retry timer that is armed already stays the only one.
ConnectThrows(armed) ==
  /\ IF armed
       THEN UNCHANGED <<attempt, reconnectTimer, failures>>
       ELSE ScheduleReconnect(attempt, failures + 1)
  /\ UNCHANGED <<opened, port, stableTimer>>

\* connect(): called once by start(), and by whoever wants the link up again.
Connect ==
  /\ port = None
  /\ Connects \/ ConnectThrows(reconnectTimer)
  /\ UNCHANGED <<requests, commands>>

\* The retry timer fires.
ReconnectFires ==
  /\ reconnectTimer
  /\ Connects \/ ConnectThrows(FALSE)
  /\ UNCHANGED <<requests, commands>>

\* The connection has lasted stableAfterMs.
StableFires ==
  /\ stableTimer
  /\ stableTimer' = FALSE
  /\ attempt' = 0
  /\ failures' = IF port # None THEN 0 ELSE failures
  /\ UNCHANGED <<opened, port, reconnectTimer, requests, commands>>

\* Seeded fault: frames of any port prove the current one stable.
MarkStableByAny(p) ==
  /\ IF stableTimer
       THEN stableTimer' = FALSE /\ attempt' = 0
       ELSE UNCHANGED <<stableTimer, attempt>>
  /\ failures' = IF p = port THEN 0 ELSE failures
  /\ UNCHANGED <<opened, port, reconnectTimer>>

\* The first frame of the current port proves it stable.
MarkStable(p) ==
  /\ IF p = port /\ stableTimer
       THEN stableTimer' = FALSE /\ attempt' = 0
       ELSE UNCHANGED <<stableTimer, attempt>>
  /\ failures' = IF p = port THEN 0 ELSE failures
  /\ UNCHANGED <<opened, port, reconnectTimer>>

\* Seeded fault: the stability timer survives its connection.
HandleDisconnectKeepsTimer(p) ==
  /\ p = port
  /\ port' = None
  /\ outcome' = [r \in Requests |-> IF r \in pending THEN "disconnected" ELSE outcome[r]]
  /\ pending' = {} /\ timers' = timers \ pending
  /\ ScheduleReconnect(attempt, failures + 1)
  /\ UNCHANGED <<opened, stableTimer, sentOn, commands>>

\* Seeded fault: any port's disconnect is taken for the current one's.
HandleDisconnectOfAny(p) ==
  /\ port # None
  /\ port' = None
  /\ stableTimer' = FALSE
  /\ outcome' = [r \in Requests |-> IF r \in pending /\ sentOn[r] = p THEN "disconnected" ELSE outcome[r]]
  /\ pending' = {r \in pending : sentOn[r] # p} /\ timers' = timers \ {r \in pending : sentOn[r] = p}
  /\ ScheduleReconnect(attempt, failures + 1)
  /\ UNCHANGED <<opened, sentOn, commands>>

\* Seeded fault: the pending requests are cleared, not rejected.
HandleDisconnectClears(p) ==
  /\ p = port
  /\ port' = None
  /\ stableTimer' = FALSE
  /\ pending' = {} /\ timers' = timers \ pending
  /\ ScheduleReconnect(attempt, failures + 1)
  /\ UNCHANGED <<opened, outcome, sentOn, commands>>

\* handleDisconnect(p): every pending request is rejected, then a retry is due.  A
\* port that is not the current one is ignored.
HandleDisconnect(p) ==
  /\ p = port
  /\ port' = None
  /\ stableTimer' = FALSE
  /\ outcome' = [r \in Requests |-> IF r \in pending THEN "disconnected" ELSE outcome[r]]
  /\ pending' = {} /\ timers' = timers \ pending
  /\ ScheduleReconnect(attempt, failures + 1)
  /\ UNCHANGED <<opened, sentOn, commands>>

----------------------------------------------------------------------------
(* Requests of the extension *)

\* send() without a port rejects at once; a postMessage that throws takes the
\* request and its timer back.
SendFails(r) ==
  /\ outcome[r] = "unsent"
  /\ outcome' = [outcome EXCEPT ![r] = "failed"]
  /\ UNCHANGED <<pending, timers, sentOn, connection, commands>>

Send(r) ==
  /\ outcome[r] = "unsent" /\ port # None
  /\ outcome' = [outcome EXCEPT ![r] = "pending"]
  /\ sentOn' = [sentOn EXCEPT ![r] = port]
  /\ pending' = pending \cup {r} /\ timers' = timers \cup {r}
  /\ UNCHANGED <<connection, commands>>

RequestTimeout(r) ==
  /\ r \in timers
  /\ timers' = timers \ {r}
  /\ IF r \in pending
       THEN /\ pending' = pending \ {r}
            /\ outcome' = [outcome EXCEPT ![r] = "timeout"]
       ELSE UNCHANGED <<pending, outcome>>
  /\ UNCHANGED <<sentOn, connection, commands>>

\* receive(p, reply to r): the host behind port p answers a request it was sent,
\* possibly late or twice.  An id that is not pending is ignored, as is a frame
\* without an id.
ReceiveReply(p, r) ==
  /\ sentOn[r] = p
  /\ MarkStable(p)
  /\ IF r \in pending
       THEN /\ pending' = pending \ {r} /\ timers' = timers \ {r}
            /\ outcome' = [outcome EXCEPT ![r] = "answered"]
       ELSE UNCHANGED <<pending, timers, outcome>>
  /\ UNCHANGED <<sentOn, commands>>

----------------------------------------------------------------------------
(* Commands of the host *)

\* receive(p, command c): handed to the dispatcher with a reply bound to p.
ReceiveCommand(p, c) ==
  /\ origin[c] = None
  /\ MarkStable(p)
  /\ origin' = [origin EXCEPT ![c] = p]
  /\ UNCHANGED <<reply, postedOn, requests>>

\* Seeded fault: the answer goes to whatever port is open.
PostReplyToCurrent(c) ==
  /\ origin[c] # None /\ reply[c] = "none"
  /\ IF port = None
       THEN reply' = [reply EXCEPT ![c] = "dropped"] /\ UNCHANGED postedOn
       ELSE /\ reply' = [reply EXCEPT ![c] = "posted"]
            /\ postedOn' = [postedOn EXCEPT ![c] = port]
  /\ UNCHANGED <<origin, connection, requests>>

\* postReply(): the dispatcher's answer goes to the port of its command, or nowhere
\* when that port is no longer the current one.
PostReply(c) ==
  /\ origin[c] # None /\ reply[c] = "none"
  /\ IF port # origin[c]
       THEN reply' = [reply EXCEPT ![c] = "dropped"] /\ UNCHANGED postedOn
       ELSE /\ reply' = [reply EXCEPT ![c] = "posted"]
            /\ postedOn' = [postedOn EXCEPT ![c] = origin[c]]
  /\ UNCHANGED <<origin, connection, requests>>

----------------------------------------------------------------------------
Next ==
  \/ Connect \/ ReconnectFires \/ StableFires
  \/ \E p \in 1 .. opened :
        \/ HandleDisconnect(p)
        \/ \E r \in Requests : ReceiveReply(p, r)
        \/ \E c \in Commands : ReceiveCommand(p, c)
  \/ \E r \in Requests : Send(r) \/ SendFails(r) \/ RequestTimeout(r)
  \/ \E c \in Commands : PostReply(c)

Spec == Init /\ [][Next]_vars

(***************************************************************************)
(* Armed timers fire.  The host, the browser and the callers owe nothing.  *)
(***************************************************************************)
FairSpec == /\ Spec
            /\ WF_vars(ReconnectFires)
            /\ \A r \in Requests : WF_vars(RequestTimeout(r))

----------------------------------------------------------------------------
(* Properties *)

\* Every variable has its type, the stability timer runs for a live connection
\* only, and the retry timer only without one.
TypeOK ==
  /\ opened \in 0 .. MaxPorts /\ port \in 0 .. opened /\ attempt \in 0 .. MaxAttempts
  /\ reconnectTimer \in BOOLEAN /\ stableTimer \in BOOLEAN
  /\ stableTimer => port # None
  /\ reconnectTimer => port = None
  /\ pending \in SUBSET Requests /\ timers \in SUBSET Requests
  /\ outcome \in [Requests -> {"unsent", "failed", "pending", "answered", "timeout", "disconnected"}]
  /\ sentOn \in [Requests -> 0 .. opened]
  /\ origin \in [Commands -> 0 .. opened]
  /\ reply \in [Commands -> {"none", "posted", "dropped"}]
  /\ postedOn \in [Commands -> 0 .. opened]
  /\ failures \in Nat

\* A request whose caller still waits is in the table, has an armed timer and was
\* sent over the connection that is up now; nothing else is in the table or timed.
\* So no request outlives its connection and no reply of another one reaches it.
PendingOnPort ==
  /\ pending = {r \in Requests : outcome[r] = "pending"} /\ timers = pending
  /\ \A r \in pending : port # None /\ sentOn[r] = port

\* An answer reaches only the host process that asked, and only while it is the one
\* connected (architecture.md, "an answer produced after a reconnect is logged and
\* dropped instead of landing on the new port").
RepliesStayHome ==
  [][\A c \in Commands : postedOn'[c] # postedOn[c] =>
        postedOn'[c] = origin[c] /\ postedOn'[c] = port]_vars

\* The counter of attempts forgets nothing and counts nothing twice: it equals the
\* failures since a connection last proved stable, so the backoff grows with each.
BackoffGrows == attempt = failures

\* A link that was up or waiting to retry comes to rest only after MaxAttempts
\* failures in a row and one more, whatever frames and timers came in between.
Busy == port # None \/ reconnectTimer
RestsExhausted == [][Busy /\ ~Busy' => failures = MaxAttempts]_vars

\* Every request settles, whatever the host does.
RequestsSettle == \A r \in Requests : outcome[r] = "pending" ~> outcome[r] # "pending"
=============================================================================
