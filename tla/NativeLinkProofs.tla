-------------------------- MODULE NativeLinkProofs --------------------------
(***************************************************************************)
(* What NativeLink guarantees for any number of requests, commands,        *)
(* connections and attempts.  The three invariants are inductive once it   *)
(* is added that a connection which has proved stable starts with no       *)
(* attempts on its account: the table of requests is tied to the current   *)
(* port, and the counter of attempts to the history of failures, by the    *)
(* facts of TypeOK about which timer may be armed.                         *)
(***************************************************************************)
EXTENDS NativeLink, TLAPS

\* A connection that proved stable has no attempts on its account.
ProvedStable == port # None /\ ~stableTimer => attempt = 0

LinkInv == TypeOK /\ PendingOnPort /\ BackoffGrows /\ ProvedStable

Outcomes == {"unsent", "failed", "pending", "answered", "timeout", "disconnected"}

USE NativeLinkAssumption

LEMMA InitInv == Init => LinkInv
<1> SUFFICES ASSUME Init PROVE LinkInv OBVIOUS
<1> USE DEF Init, None
<1>1. \A r \in Requests : outcome[r] = "unsent" OBVIOUS
<1>2. PendingOnPort BY <1>1 DEF PendingOnPort
<1>3. outcome \in [Requests -> Outcomes] BY DEF Outcomes
<1>4. sentOn \in [Requests -> 0 .. opened] OBVIOUS
<1>5. origin \in [Commands -> 0 .. opened] /\ postedOn \in [Commands -> 0 .. opened] OBVIOUS
<1>6. reply \in [Commands -> {"none", "posted", "dropped"}] OBVIOUS
<1>7. opened \in 0 .. MaxPorts /\ port \in 0 .. opened /\ attempt \in 0 .. MaxAttempts /\ failures \in Nat
  OBVIOUS
<1>8. /\ reconnectTimer \in BOOLEAN /\ stableTimer \in BOOLEAN
      /\ stableTimer => port # None
      /\ reconnectTimer => port = None
      /\ pending \in SUBSET Requests /\ timers \in SUBSET Requests
  OBVIOUS
<1>9. TypeOK BY <1>3, <1>4, <1>5, <1>6, <1>7, <1>8, Zenon DEF TypeOK, Outcomes
<1>10. BackoffGrows /\ ProvedStable BY DEF BackoffGrows, ProvedStable
<1> QED BY <1>2, <1>9, <1>10 DEF LinkInv

\* A step that leaves requests and commands alone keeps their part of TypeOK, also
\* when it opens a port.
LEMMA TypeFrame ==
  ASSUME TypeOK, UNCHANGED <<requests, commands>>, opened' \in 0 .. MaxPorts, opened' >= opened,
         port' \in 0 .. opened', attempt' \in 0 .. MaxAttempts, failures' \in Nat,
         reconnectTimer' \in BOOLEAN, stableTimer' \in BOOLEAN,
         stableTimer' => port' # None, reconnectTimer' => port' = None
  PROVE  TypeOK'
<1>1. UNCHANGED <<pending, timers, outcome, sentOn, origin, reply, postedOn>>
  BY DEF requests, commands
<1>2. opened \in Nat /\ opened' \in Nat BY DEF TypeOK
<1>3. 0 .. opened \subseteq 0 .. opened' BY <1>2
<1>4. sentOn \in [Requests -> 0 .. opened] /\ origin \in [Commands -> 0 .. opened]
      /\ postedOn \in [Commands -> 0 .. opened]
  BY DEF TypeOK
<1>5. sentOn \in [Requests -> 0 .. opened'] BY <1>3, <1>4
<1>6. origin \in [Commands -> 0 .. opened'] BY <1>3, <1>4
<1>7. postedOn \in [Commands -> 0 .. opened'] BY <1>3, <1>4
<1>8. pending \in SUBSET Requests /\ timers \in SUBSET Requests
      /\ outcome \in [Requests -> Outcomes] /\ reply \in [Commands -> {"none", "posted", "dropped"}]
  BY DEF TypeOK, Outcomes
<1> QED BY <1>1, <1>5, <1>6, <1>7, <1>8 DEF TypeOK, Outcomes

\* What ScheduleReconnect leaves in the counters.
LEMMA Scheduled ==
  ASSUME LinkInv, ScheduleReconnect(attempt, failures + 1)
  PROVE  /\ attempt' \in 0 .. MaxAttempts /\ failures' \in Nat /\ reconnectTimer' \in BOOLEAN
         /\ BackoffGrows'
         /\ ~reconnectTimer' => failures = MaxAttempts
<1>1. attempt \in 0 .. MaxAttempts /\ failures \in Nat /\ attempt = failures
  BY DEF LinkInv, TypeOK, BackoffGrows
<1>2. CASE attempt >= MaxAttempts
  <2>1. attempt' = 0 /\ failures' = 0 /\ reconnectTimer' = FALSE BY <1>2 DEF ScheduleReconnect
  <2>2. attempt' \in 0 .. MaxAttempts /\ failures' \in Nat /\ attempt' = failures' BY <2>1
  <2>3. failures = MaxAttempts BY <1>1, <1>2
  <2> QED BY <2>1, <2>2, <2>3 DEF BackoffGrows
<1>3. CASE ~(attempt >= MaxAttempts)
  <2>1. attempt' = attempt + 1 /\ failures' = failures + 1 /\ reconnectTimer' = TRUE
    BY <1>3 DEF ScheduleReconnect
  <2>2. attempt' \in 0 .. MaxAttempts /\ failures' \in Nat /\ attempt' = failures'
    BY <2>1, <1>1, <1>3
  <2> QED BY <2>1, <2>2 DEF BackoffGrows
<1> QED BY <1>2, <1>3

\* Connecting, retrying and the stability timer leave requests and commands alone.
LEMMA ConnectionSteps ==
  ASSUME LinkInv, Connect \/ ReconnectFires \/ StableFires
  PROVE  LinkInv'
<1>a. /\ opened \in 0 .. MaxPorts /\ port \in 0 .. opened /\ attempt \in 0 .. MaxAttempts
      /\ failures \in Nat /\ reconnectTimer \in BOOLEAN /\ stableTimer \in BOOLEAN
      /\ stableTimer => port # None
      /\ reconnectTimer => port = None
  BY DEF LinkInv, TypeOK
<1>1. CASE Connects /\ port = None /\ UNCHANGED <<requests, commands>>
  <2>1. /\ opened' \in 0 .. MaxPorts /\ opened' >= opened /\ port' \in 0 .. opened' /\ port' # None
        /\ attempt' = attempt /\ failures' = failures /\ reconnectTimer' = FALSE /\ stableTimer' = TRUE
    BY <1>1, <1>a DEF Connects, None
  <2>2. TypeOK' BY <2>1, <1>1, <1>a, TypeFrame DEF LinkInv
  <2>3. pending = {} /\ UNCHANGED <<pending, timers, outcome>>
    BY <1>1 DEF LinkInv, PendingOnPort, requests
  <2>4. PendingOnPort' BY <2>3 DEF LinkInv, PendingOnPort
  <2> QED BY <2>1, <2>2, <2>4 DEF LinkInv, BackoffGrows, ProvedStable
<1>2. ASSUME NEW armed \in BOOLEAN, ConnectThrows(armed), port = None, armed => reconnectTimer,
             UNCHANGED <<requests, commands>>
      PROVE  LinkInv'
  <2>1. UNCHANGED <<opened, port, stableTimer>> BY <1>2 DEF ConnectThrows
  <2>2. /\ attempt' \in 0 .. MaxAttempts /\ failures' \in Nat /\ reconnectTimer' \in BOOLEAN
        /\ BackoffGrows'
    <3>1. CASE armed BY <3>1, <1>2, <1>a DEF ConnectThrows, LinkInv, BackoffGrows
    <3>2. CASE ~armed BY <3>2, <1>2, Scheduled DEF ConnectThrows
    <3> QED BY <3>1, <3>2
  <2>3. opened' >= opened BY <2>1, <1>a
  <2>4. TypeOK' BY <2>1, <2>2, <2>3, <1>2, <1>a, TypeFrame DEF LinkInv
  <2>5. PendingOnPort'
    <3>1. UNCHANGED <<pending, timers, outcome, sentOn>> BY <1>2 DEF requests
    <3> QED BY <3>1, <2>1 DEF LinkInv, PendingOnPort
  <2> QED BY <2>1, <2>2, <2>4, <2>5, <1>2 DEF LinkInv, ProvedStable
<1>3. CASE Connect
  BY <1>1, <1>2, <1>3, <1>a DEF Connect
<1>4. CASE ReconnectFires
  BY <1>1, <1>2, <1>4, <1>a DEF ReconnectFires
<1>5. CASE StableFires
  <2>1. /\ port # None /\ stableTimer' = FALSE /\ attempt' = 0 /\ failures' = 0
        /\ UNCHANGED <<opened, port, reconnectTimer>> /\ UNCHANGED <<requests, commands>>
    BY <1>5, <1>a DEF StableFires
  <2>2. opened' >= opened BY <2>1, <1>a
  <2>3. TypeOK'
    <3>1. opened' \in 0 .. MaxPorts /\ port' \in 0 .. opened' /\ attempt' \in 0 .. MaxAttempts /\ failures' \in Nat
      BY <2>1, <1>a
    <3>2. /\ reconnectTimer' \in BOOLEAN /\ stableTimer' \in BOOLEAN
          /\ stableTimer' => port' # None
          /\ reconnectTimer' => port' = None
      BY <2>1, <1>a, Zenon
    <3> QED BY <2>1, <2>2, <3>1, <3>2, TypeFrame DEF LinkInv
  <2>4. UNCHANGED <<pending, timers, outcome, sentOn>> BY <2>1 DEF requests
  <2>5. PendingOnPort' BY <2>1, <2>4 DEF LinkInv, PendingOnPort
  <2> QED BY <2>1, <2>3, <2>5 DEF LinkInv, BackoffGrows, ProvedStable
<1> QED BY <1>3, <1>4, <1>5

\* The current port goes: its requests go with it, and a retry is due.
LEMMA DisconnectStep ==
  ASSUME LinkInv, NEW p \in 1 .. opened, HandleDisconnect(p)
  PROVE  LinkInv'
<1>1. /\ attempt' \in 0 .. MaxAttempts /\ failures' \in Nat /\ reconnectTimer' \in BOOLEAN
      /\ BackoffGrows'
  BY Scheduled DEF HandleDisconnect
<1>2. /\ outcome' = [r \in Requests |-> IF r \in pending THEN "disconnected" ELSE outcome[r]]
      /\ pending' = {} /\ timers' = timers \ pending
      /\ UNCHANGED <<opened, sentOn, origin, reply, postedOn>> /\ port' = None /\ stableTimer' = FALSE
  BY DEF HandleDisconnect, commands
<1>3. timers = pending /\ \A r \in Requests : outcome[r] = "pending" <=> r \in pending
  BY DEF LinkInv, PendingOnPort
<1>4. \A r \in Requests : outcome'[r] # "pending"
  <2> SUFFICES ASSUME NEW r \in Requests PROVE outcome'[r] # "pending" OBVIOUS
  <2>1. CASE r \in pending BY <2>1, <1>2
  <2>2. CASE r \notin pending BY <2>2, <1>2, <1>3
  <2> QED BY <2>1, <2>2
<1>5. PendingOnPort' BY <1>2, <1>3, <1>4 DEF PendingOnPort
<1>6. outcome' \in [Requests -> Outcomes]
  <2>1. outcome \in [Requests -> Outcomes] BY DEF LinkInv, TypeOK, Outcomes
  <2>2. \A r \in Requests : outcome'[r] \in Outcomes BY <2>1, <1>2 DEF Outcomes
  <2> QED BY <2>2, <1>2
<1>7. TypeOK'
  <2>1. opened \in 0 .. MaxPorts BY DEF LinkInv, TypeOK
  <2>2. port' \in 0 .. opened BY <1>2, <2>1 DEF None
  <2>3. pending' \in SUBSET Requests /\ timers' \in SUBSET Requests BY <1>2, <1>3
  <2>4. stableTimer' \in BOOLEAN /\ ~stableTimer' /\ port' = None BY <1>2, Zenon
  <2>5. sentOn \in [Requests -> 0 .. opened] /\ origin \in [Commands -> 0 .. opened]
        /\ postedOn \in [Commands -> 0 .. opened] /\ reply \in [Commands -> {"none", "posted", "dropped"}]
    BY DEF LinkInv, TypeOK
  <2> QED BY <1>1, <1>2, <1>6, <2>1, <2>2, <2>3, <2>4, <2>5, Zenon DEF TypeOK, Outcomes
<1> QED BY <1>1, <1>2, <1>5, <1>7 DEF LinkInv, ProvedStable

\* A frame of port p disturbs the stability timer and the two counters at most.
LEMMA MarkStableFrame ==
  ASSUME LinkInv, NEW p \in 1 .. opened, MarkStable(p)
  PROVE  /\ attempt' \in 0 .. MaxAttempts /\ failures' \in Nat /\ stableTimer' \in BOOLEAN
         /\ stableTimer' => port # None
         /\ BackoffGrows' /\ ProvedStable'
         /\ UNCHANGED <<opened, port, reconnectTimer>>
<1>a. /\ opened \in 0 .. MaxPorts /\ attempt \in 0 .. MaxAttempts /\ failures \in Nat
      /\ stableTimer \in BOOLEAN /\ (stableTimer => port # None)
      /\ attempt = failures /\ (port # None /\ ~stableTimer => attempt = 0)
  BY DEF LinkInv, TypeOK, BackoffGrows, ProvedStable
<1>1. p # None BY <1>a DEF None
<1>2. /\ opened' = opened /\ port' = port /\ reconnectTimer' = reconnectTimer
      /\ failures' = IF p = port THEN 0 ELSE failures
  BY DEF MarkStable
<1>3. CASE p = port /\ stableTimer
  <2>1. stableTimer' = FALSE /\ attempt' = 0 /\ failures' = 0 BY <1>2, <1>3 DEF MarkStable
  <2>2. attempt' \in 0 .. MaxAttempts /\ failures' \in Nat BY <2>1
  <2>3. stableTimer' \in BOOLEAN /\ ~stableTimer' BY <2>1, Zenon
  <2> QED BY <1>2, <2>1, <2>2, <2>3, Zenon DEF BackoffGrows, ProvedStable
<1>4. CASE p = port /\ ~stableTimer
  <2>1. stableTimer' = stableTimer /\ attempt' = attempt /\ failures' = 0 BY <1>2, <1>4 DEF MarkStable
  <2>2. attempt = 0 BY <1>1, <1>4, <1>a
  <2>3. attempt' \in 0 .. MaxAttempts /\ failures' \in Nat BY <2>1, <2>2
  <2>4. attempt' = failures' /\ attempt' = 0 BY <2>1, <2>2
  <2>5. ProvedStable' /\ BackoffGrows' BY <2>4 DEF BackoffGrows, ProvedStable
  <2>6. stableTimer' \in BOOLEAN /\ ~stableTimer' BY <1>4, <1>a, <2>1
  <2> QED BY <1>2, <2>3, <2>5, <2>6
<1>5. CASE p # port
  <2>1. stableTimer' = stableTimer /\ attempt' = attempt /\ failures' = failures
    BY <1>2, <1>5 DEF MarkStable
  <2>2. ProvedStable' /\ BackoffGrows' BY <1>2, <2>1, <1>a DEF BackoffGrows, ProvedStable
  <2>3. stableTimer' \in BOOLEAN /\ (stableTimer' => port # None) BY <1>a, <2>1
  <2>4. attempt' \in 0 .. MaxAttempts /\ failures' \in Nat BY <1>a, <2>1
  <2> QED BY <1>2, <2>2, <2>3, <2>4
<1> QED BY <1>3, <1>4, <1>5

\* Steps on one request keep the invariant: a table entry of the current port comes
\* or goes together with its timer and its caller's wait.
LEMMA RequestSteps ==
  ASSUME LinkInv, NEW r \in Requests,
         \/ Send(r) \/ SendFails(r) \/ RequestTimeout(r)
         \/ \E p \in 1 .. opened : ReceiveReply(p, r)
  PROVE  LinkInv'
<1>a. /\ pending \in SUBSET Requests /\ timers = pending
      /\ \A q \in Requests : outcome[q] = "pending" <=> q \in pending
      /\ \A q \in pending : port # None /\ sentOn[q] = port
      /\ outcome \in [Requests -> Outcomes] /\ sentOn \in [Requests -> 0 .. opened]
      /\ opened \in 0 .. MaxPorts /\ port \in 0 .. opened
  BY DEF LinkInv, TypeOK, PendingOnPort, Outcomes
<1> DEFINE Tables == /\ pending' \in SUBSET Requests /\ timers' = pending'
                     /\ \A q \in Requests : outcome'[q] = "pending" <=> q \in pending'
                     /\ \A q \in pending' : port # None /\ sentOn'[q] = port
                     /\ outcome' \in [Requests -> Outcomes] /\ sentOn' \in [Requests -> 0 .. opened]
<1> DEFINE Link == /\ attempt' \in 0 .. MaxAttempts /\ failures' \in Nat /\ stableTimer' \in BOOLEAN
                   /\ stableTimer' => port # None
                   /\ BackoffGrows' /\ ProvedStable'
                   /\ UNCHANGED <<opened, port, reconnectTimer>>
<1> SUFFICES Tables /\ Link /\ UNCHANGED commands
  <2>1. ASSUME Tables, Link, UNCHANGED commands PROVE LinkInv'
    <3>1. PendingOnPort'
      <4>1. pending' = {q \in Requests : outcome'[q] = "pending"} BY <2>1
      <4> QED BY <2>1, <4>1 DEF PendingOnPort
    <3>2. UNCHANGED <<origin, reply, postedOn>> BY <2>1 DEF commands
    <3>3. /\ origin' \in [Commands -> 0 .. opened'] /\ postedOn' \in [Commands -> 0 .. opened']
          /\ reply' \in [Commands -> {"none", "posted", "dropped"}]
      BY <2>1, <3>2 DEF LinkInv, TypeOK
    <3>4. /\ opened' \in 0 .. MaxPorts /\ port' \in 0 .. opened' /\ reconnectTimer' \in BOOLEAN
          /\ reconnectTimer' => port' = None
      BY <2>1 DEF LinkInv, TypeOK
    <3>5. timers' \in SUBSET Requests BY <2>1
    <3>6. sentOn' \in [Requests -> 0 .. opened'] BY <2>1
    <3>7. TypeOK' BY <2>1, <3>3, <3>4, <3>5, <3>6, Zenon DEF TypeOK, Outcomes
    <3> QED BY <2>1, <3>1, <3>7 DEF LinkInv
  <2> QED BY <2>1
<1>1. ASSUME UNCHANGED connection PROVE Link
  BY <1>1, Zenon DEF connection, LinkInv, TypeOK, BackoffGrows, ProvedStable
<1>2. ASSUME r \in pending, NEW v \in {"answered", "timeout"},
             pending' = pending \ {r}, timers' = timers \ {r}, outcome' = [outcome EXCEPT ![r] = v],
             UNCHANGED sentOn
      PROVE  Tables
  BY <1>2, <1>a DEF Outcomes
<1>3. CASE Send(r)
  <2>1. /\ pending' = pending \cup {r} /\ timers' = timers \cup {r}
        /\ outcome' = [outcome EXCEPT ![r] = "pending"] /\ sentOn' = [sentOn EXCEPT ![r] = port]
        /\ port # None
    BY <1>3 DEF Send
  <2>2. pending' \in SUBSET Requests /\ timers' = pending' BY <2>1, <1>a
  <2>3. \A q \in Requests : outcome'[q] = "pending" <=> q \in pending' BY <2>1, <1>a
  <2>4. \A q \in pending' : port # None /\ sentOn'[q] = port BY <2>1, <1>a
  <2>5. outcome' \in [Requests -> Outcomes] BY <2>1, <1>a DEF Outcomes
  <2>6. sentOn' \in [Requests -> 0 .. opened] BY <2>1, <1>a
  <2>7. UNCHANGED <<connection, commands>> BY <1>3 DEF Send
  <2> QED BY <2>2, <2>3, <2>4, <2>5, <2>6, <2>7, <1>1
<1>4. CASE SendFails(r)
  <2>1. /\ outcome' = [outcome EXCEPT ![r] = "failed"] /\ outcome[r] = "unsent"
        /\ pending' = pending /\ timers' = timers /\ sentOn' = sentOn
        /\ UNCHANGED <<connection, commands>>
    BY <1>4 DEF SendFails
  <2>2. \A q \in Requests : outcome'[q] = "pending" <=> q \in pending' BY <2>1, <1>a
  <2>3. outcome' \in [Requests -> Outcomes] BY <2>1, <1>a DEF Outcomes
  <2> QED BY <2>1, <2>2, <2>3, <1>1, <1>a
<1>5. CASE RequestTimeout(r)
  <2>1. /\ pending' = pending \ {r} /\ timers' = timers \ {r} /\ r \in pending
        /\ outcome' = [outcome EXCEPT ![r] = "timeout"] /\ UNCHANGED sentOn
        /\ UNCHANGED <<connection, commands>>
    BY <1>5, <1>a DEF RequestTimeout
  <2> QED BY <2>1, <1>1, <1>2
<1>6. ASSUME NEW p \in 1 .. opened, ReceiveReply(p, r) PROVE Tables /\ Link /\ UNCHANGED commands
  <2>1. MarkStable(p) /\ UNCHANGED sentOn /\ UNCHANGED commands BY <1>6 DEF ReceiveReply
  <2>2. Link BY <2>1, MarkStableFrame
  <2>3. Tables
    <3>1. CASE r \in pending BY <3>1, <2>1, <1>2, <1>6 DEF ReceiveReply
    <3>2. CASE r \notin pending
      <4>1. UNCHANGED <<pending, timers, outcome, sentOn>> BY <3>2, <1>6 DEF ReceiveReply
      <4> QED BY <4>1, <1>a
    <3> QED BY <3>1, <3>2
  <2> QED BY <2>1, <2>2, <2>3
<1> QED BY <1>3, <1>4, <1>5, <1>6

\* Receiving a command and answering it touch no request.
LEMMA CommandSteps ==
  ASSUME LinkInv, NEW c \in Commands,
         PostReply(c) \/ \E p \in 1 .. opened : ReceiveCommand(p, c)
  PROVE  LinkInv'
<1>a. /\ pending \in SUBSET Requests /\ timers \in SUBSET Requests
      /\ outcome \in [Requests -> Outcomes] /\ sentOn \in [Requests -> 0 .. opened]
      /\ origin \in [Commands -> 0 .. opened] /\ postedOn \in [Commands -> 0 .. opened]
      /\ reply \in [Commands -> {"none", "posted", "dropped"}]
      /\ opened \in 0 .. MaxPorts /\ port \in 0 .. opened
      /\ reconnectTimer \in BOOLEAN /\ (reconnectTimer => port = None)
  BY DEF LinkInv, TypeOK, Outcomes
<1>1. CASE PostReply(c)
  <2>1. /\ UNCHANGED <<opened, port, attempt, reconnectTimer, stableTimer, failures>>
        /\ UNCHANGED <<pending, timers, outcome, sentOn, origin>>
    BY <1>1 DEF PostReply, connection, requests
  <2>2. reply' \in [Commands -> {"none", "posted", "dropped"}] /\ postedOn' \in [Commands -> 0 .. opened]
    BY <1>1, <1>a DEF PostReply
  <2>3. TypeOK' BY <2>1, <2>2 DEF LinkInv, TypeOK
  <2>4. PendingOnPort' BY <2>1 DEF LinkInv, PendingOnPort
  <2> QED BY <2>1, <2>3, <2>4 DEF LinkInv, BackoffGrows, ProvedStable
<1>2. ASSUME NEW p \in 1 .. opened, ReceiveCommand(p, c) PROVE LinkInv'
  <2>1. MarkStable(p) /\ UNCHANGED <<reply, postedOn, pending, timers, outcome, sentOn>>
        /\ origin' = [origin EXCEPT ![c] = p]
    BY <1>2 DEF ReceiveCommand, requests
  <2>2. /\ attempt' \in 0 .. MaxAttempts /\ failures' \in Nat /\ stableTimer' \in BOOLEAN
        /\ stableTimer' => port # None
        /\ BackoffGrows' /\ ProvedStable'
        /\ opened' = opened /\ port' = port /\ reconnectTimer' = reconnectTimer
    BY <2>1, MarkStableFrame
  <2>3. origin' \in [Commands -> 0 .. opened] BY <2>1, <1>a
  <2>4. TypeOK' BY <2>1, <2>2, <2>3, <1>a, Zenon DEF TypeOK, Outcomes
  <2>5. PendingOnPort' BY <2>1, <2>2 DEF LinkInv, PendingOnPort
  <2> QED BY <2>2, <2>4, <2>5 DEF LinkInv
<1> QED BY <1>1, <1>2

THEOREM LinkInvariant == Spec => []LinkInv
<1>1. LinkInv /\ [Next]_vars => LinkInv'
  <2> SUFFICES ASSUME LinkInv, [Next]_vars PROVE LinkInv' OBVIOUS
  <2>1. CASE Next
    BY <2>1, ConnectionSteps, DisconnectStep, RequestSteps, CommandSteps DEF Next
  <2>2. CASE UNCHANGED vars
    BY <2>2 DEF vars, connection, requests, commands, LinkInv, TypeOK, PendingOnPort, BackoffGrows, ProvedStable
  <2> QED BY <2>1, <2>2
<1> QED BY <1>1, InitInv, PTL DEF Spec

\* No request outlives the connection it was sent over, and its timer lives as long
\* as its caller waits.
THEOREM LinkPendingOnPort == Spec => [](TypeOK /\ PendingOnPort)
<1>1. LinkInv => TypeOK /\ PendingOnPort BY DEF LinkInv
<1> QED BY <1>1, LinkInvariant, PTL

\* The attempts counted are the failures since the last stable connection.
THEOREM LinkBackoffGrows == Spec => []BackoffGrows
<1>1. LinkInv => BackoffGrows BY DEF LinkInv
<1> QED BY <1>1, LinkInvariant, PTL

\* An answer is posted to the port its command came from while that port is the
\* current one, or not at all.
THEOREM LinkRepliesStayHome == Spec => RepliesStayHome
<1> DEFINE Home == \A c \in Commands : postedOn'[c] # postedOn[c] =>
                      postedOn'[c] = origin[c] /\ postedOn'[c] = port
<1>1. LinkInv /\ [Next]_vars => [Home]_vars
  <2> SUFFICES ASSUME LinkInv, Next PROVE Home OBVIOUS
  <2>1. CASE UNCHANGED postedOn BY <2>1
  <2>2. ASSUME NEW d \in Commands, PostReply(d) PROVE Home
    <3>1. postedOn \in [Commands -> 0 .. opened] BY DEF LinkInv, TypeOK
    <3>2. postedOn' = postedOn \/ (port = origin[d] /\ postedOn' = [postedOn EXCEPT ![d] = origin[d]])
      BY <2>2 DEF PostReply
    <3> QED BY <3>1, <3>2
  <2>3. UNCHANGED postedOn \/ \E d \in Commands : PostReply(d)
    BY DEF Next, Connect, ReconnectFires, StableFires, HandleDisconnect, ReceiveReply, ReceiveCommand,
           Send, SendFails, RequestTimeout, commands
  <2> QED BY <2>1, <2>2, <2>3
<1> QED BY <1>1, LinkInvariant, PTL DEF Spec, RepliesStayHome

\* The link comes to rest only when MaxAttempts failures in a row precede this one.
THEOREM LinkRestsExhausted == Spec => RestsExhausted
<1> DEFINE Exhausted == Busy /\ ~Busy' => failures = MaxAttempts
<1>1. LinkInv /\ [Next]_vars => [Exhausted]_vars
  <2> SUFFICES ASSUME LinkInv, Next, Busy, ~Busy' PROVE failures = MaxAttempts OBVIOUS
  <2>1. ScheduleReconnect(attempt, failures + 1) \/ UNCHANGED <<port, reconnectTimer>> \/ port' # None
    <3>1. opened \in Nat BY DEF LinkInv, TypeOK
    <3> QED BY <3>1 DEF Next, Connect, ReconnectFires, StableFires, HandleDisconnect, ReceiveReply,
           ReceiveCommand, Send, SendFails, RequestTimeout, PostReply, connection, Connects,
           ConnectThrows, MarkStable, None
  <2>2. ~reconnectTimer' /\ port' = None BY DEF Busy
  <2>3. ~UNCHANGED <<port, reconnectTimer>> BY DEF Busy
  <2> QED BY <2>1, <2>2, <2>3, Scheduled
<1> QED BY <1>1, LinkInvariant, PTL DEF Spec, RestsExhausted
=============================================================================
