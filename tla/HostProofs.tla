----------------------------- MODULE HostProofs -----------------------------
(***************************************************************************)
(* Theorems about Host for any set of connections, any set of requests and *)
(* any capacity of the accept semaphore, among them that Host implements   *)
(* the safety part of HostContract; and about the socket it serves on      *)
(* (Ipc), for any number of host processes that claim one path, with and   *)
(* without an outsider that deletes the socket file.                       *)
(***************************************************************************)
EXTENDS Host, Ipc, FiniteSetTheorems, TLAPS

(* Threads are pairs of a role and a name: no two of them coincide.  *)
LEMMA ThreadNames ==
  /\ ReplyThreads \subseteq Threads /\ Main \in Threads /\ Main \notin ReplyThreads
  /\ \A c \in Conns : ServeT(c) \in ReplyThreads /\ ServeT(c) \in ServeThreads /\ ServeT(c)[2] = c
  /\ \A i \in Ids : TimerT(i) \in ReplyThreads /\ TimerT(i) \notin ServeThreads /\ TimerT(i)[2] = i
  /\ \A i \in Ids : PumpT(i) \in ReplyThreads /\ PumpT(i) \notin ServeThreads /\ PumpT(i)[2] = i
  /\ \A c \in Conns, i \in Ids : ServeT(c) # TimerT(i) /\ ServeT(c) # PumpT(i)
  /\ \A i, j \in Ids : TimerT(i) # PumpT(j)
  /\ \A t \in ServeThreads : t[2] \in Conns /\ t = ServeT(t[2])
  /\ \A t \in PumpThreads : t[2] \in Ids /\ t = PumpT(t[2])
  /\ \A t \in TimerThreads : t[2] \in Ids /\ t = TimerT(t[2])
  /\ \A t \in Threads : t \in ServeThreads \/ t \in TimerThreads \/ t \in PumpThreads \/ t = Main
  /\ Main \notin ServeThreads
  BY DEF ReplyThreads, Threads, ServeThreads, TimerThreads, PumpThreads, ServeT, TimerT, PumpT, Main

(* A serve goroutine inside forward() handles a request of its own.  *)
CurInv == \A c \in Conns : serve[c] \in {"arm", "record", "write", "refuse"} =>
                             cur[c] \in Ids /\ owner[cur[c]] = c

SlotInv == IsFiniteSet(Served) /\ SlotsBounded

LEMMA TypeInit == Init => TypeOK
<1> SUFFICES ASSUME Init PROVE TypeOK
  OBVIOUS
<1>1. step \in [Threads -> Steps]
  BY DEF Init, Steps
<1>2. sem \in 0..MaxConns
  BY HostAssumption DEF Init
<1>3. QED
  BY <1>1, <1>2 DEF Init, TypeOK, ServeStates

(* The semaphore counts the connection the accept loop is about to take and every
   connection in service.  *)
LEMMA SlotBounds ==
  ASSUME TypeOK, SlotInv
  PROVE  /\ accept = "accepting" => sem - 1 \in 0..MaxConns
         /\ \A c \in Served : sem - 1 \in 0..MaxConns
<1>1. Cardinality(Served) \in Nat
  BY FS_CardinalityType DEF SlotInv
<1>2. ASSUME NEW c \in Served PROVE Cardinality(Served) # 0
  BY <1>2, FS_EmptySet DEF SlotInv
<1>3. sem \in 0..MaxConns /\ sem = Cardinality(Served) + (IF accept = "accepting" THEN 1 ELSE 0)
  BY DEF TypeOK, SlotInv, SlotsBounded
<1>4. QED
  BY <1>1, <1>2, <1>3, HostAssumption

FinishedTyped(t) == /\ step' \in [Threads -> Steps]
                    /\ rid' \in [Conns -> Ids \cup {None}]
                    /\ replies' \in SUBSET Ids

LEMMA FinishedType ==
  ASSUME TypeOK, NEW t \in Threads, Finished(t)
  PROVE  FinishedTyped(t)
  BY DEF TypeOK, Finished, FinishedTyped, Steps

LEMMA RequestType ==
  ASSUME TypeOK, NEW t \in Threads
  PROVE  RequestOf(t) \in Ids \cup {None}
  BY ThreadNames DEF TypeOK, RequestOf

TableTyped == /\ pending' \in SUBSET Ids /\ stoppable' \in SUBSET Ids /\ sent' \in SUBSET Ids
              /\ timers' \in SUBSET Ids /\ ids' \in [Conns -> SUBSET Ids]
              /\ owner' \in [Ids -> Conns \cup {None}] /\ conns' \in SUBSET Conns

LEMMA TakeLockedType ==
  ASSUME TypeOK, NEW i \in Ids, TakeLocked(i)
  PROVE  TableTyped
  BY DEF TypeOK, TakeLocked, TableTyped

LEMMA TypeStep ==
  ASSUME TypeOK, CurInv, SlotInv, [Next]_vars
  PROVE  TypeOK'
<1> USE DEF table, perC, lockC, ext, run, loop, history
<1>1. CASE AcquireSlot
  <2>1. sem' \in 0..MaxConns
    BY <1>1, HostAssumption DEF TypeOK, AcquireSlot
  <2>2. QED
    BY <1>1, <2>1 DEF TypeOK, AcquireSlot
<1>2. CASE AcceptError
  BY <1>2, SlotBounds DEF TypeOK, AcceptError, Steps, ServeStates
<1>3. CASE ProbeFails
  BY <1>3 DEF TypeOK, ProbeFails, Fail, Steps, ServeStates
<1>4. CASE PumpEnds
  BY <1>4 DEF TypeOK, PumpEnds, Steps, ServeStates
<1>5. CASE Cancel
  BY <1>5 DEF TypeOK, Cancel, Steps, ServeStates
<1>6. CASE Select
  BY <1>6 DEF TypeOK, Select, StopListening, Steps, ServeStates
<1>7. CASE AwaitReplies
  BY <1>7 DEF TypeOK, AwaitReplies, StopListening, Steps, ServeStates
<1>8. CASE Snapshot
  BY <1>8 DEF TypeOK, Snapshot, Steps, ServeStates
<1>9. CASE Return
  BY <1>9 DEF TypeOK, Return, Steps, ServeStates
<1>10. CASE Exited
  BY <1>10 DEF TypeOK, Exited, vars
<1>11. ASSUME NEW c \in Conns, AcceptConn(c) PROVE TypeOK'
  BY <1>11 DEF TypeOK, AcceptConn, Steps, ServeStates
<1>12. ASSUME NEW c \in Conns, Enter(c) PROVE TypeOK'
  <2>1. sem' \in 0..MaxConns
    BY <1>12, SlotBounds DEF TypeOK, Enter, Served
  <2>2. QED
    BY <1>12, <2>1 DEF TypeOK, Enter, ServeStates
<1>13. ASSUME NEW c \in Conns, BadLine(c) PROVE TypeOK'
  BY <1>13, ThreadNames DEF TypeOK, BadLine, Serving, Steps, ServeStates
<1>14. ASSUME NEW c \in Conns, ArmTimer(c) PROVE TypeOK'
  BY <1>14 DEF TypeOK, ArmTimer, CurInv, Steps, ServeStates
<1>15. ASSUME NEW c \in Conns, RecordStop(c) PROVE TypeOK'
  BY <1>15 DEF TypeOK, RecordStop, CurInv, Steps, ServeStates
<1>16. ASSUME NEW c \in Conns, WriteCommand(c) PROVE TypeOK'
  <2>1. /\ serve' \in [Conns -> ServeStates]
        /\ cur' \in [Conns -> Ids \cup {None}]
    BY <1>16 DEF TypeOK, WriteCommand, Forwarded, ServeStates
  <2>2. sent' \in SUBSET Ids /\ fatal' \in BOOLEAN
    BY <1>16 DEF TypeOK, WriteCommand, Fail
  <2>3. QED
    BY <1>16, <2>1, <2>2 DEF TypeOK, WriteCommand
<1>17. ASSUME NEW c \in Conns, Refuse(c) PROVE TypeOK'
  <2>1. /\ serve' \in [Conns -> ServeStates]
        /\ cur' \in [Conns -> Ids \cup {None}]
    BY <1>17 DEF TypeOK, Refuse, Forwarded, ServeStates
  <2>2. step' \in [Threads -> Steps] /\ rid' \in [Conns -> Ids \cup {None}]
    BY <1>17 DEF TypeOK, Refuse, Steps
  <2>3. /\ pending' \in SUBSET Ids /\ stoppable' \in SUBSET Ids /\ sent' \in SUBSET Ids
        /\ timers' \in SUBSET Ids /\ ids' \in [Conns -> SUBSET Ids]
        /\ owner' = owner /\ conns' = conns
    BY <1>17 DEF TypeOK, Refuse, TakeLocked
  <2>4. QED
    BY <1>17, <2>1, <2>2, <2>3 DEF TypeOK, Refuse
<1>18. ASSUME NEW c \in Conns, Drain(c) PROVE TypeOK'
  BY <1>18 DEF TypeOK, Drain, Serving, Steps, ServeStates
<1>19. ASSUME NEW c \in Conns, ScanEnds(c) PROVE TypeOK'
  BY <1>19, ThreadNames DEF TypeOK, ScanEnds, Serving, Steps, ServeStates
<1>20. ASSUME NEW c \in Conns, Leave(c) PROVE TypeOK'
  <2>1. sem' \in 0..MaxConns
    BY <1>20, SlotBounds DEF TypeOK, Leave, Serving, Served
  <2>2. QED
    BY <1>20, <2>1 DEF TypeOK, Leave, ServeStates
<1>21. ASSUME NEW c \in Conns, CloseNext(c) PROVE TypeOK'
  BY <1>21, ThreadNames DEF TypeOK, CloseNext, Steps, ServeStates
<1>22. ASSUME NEW c \in Conns, NEW i \in Ids, Register(c, i) PROVE TypeOK'
  BY <1>22 DEF TypeOK, Register, Serving, Steps, ServeStates
<1>23. ASSUME NEW i \in Ids, TimerFires(i) PROVE TypeOK'
  BY <1>23, ThreadNames DEF TypeOK, TimerFires, Steps, ServeStates
<1>24. ASSUME NEW i \in Ids, Expire(i) PROVE TypeOK'
  <2>1. TableTyped
    BY <1>24, TakeLockedType DEF Expire, TypeOK, TableTyped
  <2>2. step' \in [Threads -> Steps]
    BY <1>24 DEF TypeOK, Expire, Steps
  <2>3. QED
    BY <1>24, <2>1, <2>2 DEF TypeOK, TableTyped, Expire
<1>25. ASSUME NEW i \in Ids, ClaimReply(i) PROVE TypeOK'
  <2>1. TableTyped
    BY <1>25, TakeLockedType DEF ClaimReply
  <2>2. step' \in [Threads -> Steps] /\ replies' \in SUBSET Ids
    BY <1>25 DEF TypeOK, ClaimReply, Steps
  <2>3. QED
    BY <1>25, <2>1, <2>2 DEF TypeOK, TableTyped, ClaimReply
<1>26. ASSUME NEW t \in ReplyThreads, BeginReply(t) PROVE TypeOK'
  <2>1. CASE closed[Target(t)]
    <3>1. FinishedTyped(t)
      BY <1>26, <2>1, FinishedType, ThreadNames DEF BeginReply
    <3>2. QED
      BY <1>26, <2>1, <3>1 DEF TypeOK, BeginReply, FinishedTyped
  <2>2. CASE ~closed[Target(t)]
    <3>1. cmu' \in [Conns -> ReplyThreads \cup {None}]
      BY <1>26, <2>2 DEF TypeOK, BeginReply
    <3>2. writes' \in [Conns -> SUBSET ReplyThreads]
      BY <1>26, <2>2 DEF TypeOK, BeginReply
    <3>3. step' \in [Threads -> Steps]
      BY <1>26, <2>2, ThreadNames DEF TypeOK, BeginReply, Steps
    <3>4. lines' \in [Ids -> Nat]
      BY <1>26, <2>2 DEF TypeOK, BeginReply
    <3>5. QED
      BY <1>26, <2>2, <3>1, <3>2, <3>3, <3>4 DEF TypeOK, BeginReply
  <2>3. QED
    BY <2>1, <2>2
<1>27. ASSUME NEW t \in ReplyThreads, ReplyWritten(t) PROVE TypeOK'
  <2>1. FinishedTyped(t)
    BY <1>27, FinishedType, ThreadNames DEF ReplyWritten
  <2>2. /\ cmu' \in [Conns -> ReplyThreads \cup {None}]
        /\ writes' \in [Conns -> SUBSET ReplyThreads]
    BY <1>27 DEF TypeOK, ReplyWritten
  <2>3. RequestOf(t) \in Ids \cup {None}
    BY RequestType, ThreadNames
  <2>4. got' \in SUBSET Ids
    BY <1>27, <2>3 DEF TypeOK, ReplyWritten
  <2>5. QED
    BY <1>27, <2>1, <2>2, <2>4 DEF TypeOK, ReplyWritten, FinishedTyped
<1>28. ASSUME NEW t \in ReplyThreads, ReplyFails(t) PROVE TypeOK'
  <2>1. cmu' \in [Conns -> ReplyThreads \cup {None}] /\ step' \in [Threads -> Steps]
    BY <1>28 DEF TypeOK, ReplyFails, Steps
  <2>2. QED
    BY <1>28, <2>1 DEF TypeOK, ReplyFails
<1>29. ASSUME NEW t \in Threads, DropRequests(t) PROVE TypeOK'
  <2>1. step' \in [Threads -> Steps]
    BY <1>29 DEF TypeOK, DropRequests, Steps
  <2>2. /\ pending' \in SUBSET Ids /\ stoppable' \in SUBSET Ids /\ sent' \in SUBSET Ids
        /\ timers' \in SUBSET Ids /\ ids' \in [Conns -> SUBSET Ids] /\ conns' \in SUBSET Conns
    BY <1>29 DEF TypeOK, DropRequests
  <2>3. QED
    BY <1>29, <2>1, <2>2 DEF TypeOK, DropRequests
<1>30. ASSUME NEW t \in Threads, CloseSocket(t) PROVE TypeOK'
  <2>1. step' \in [Threads -> Steps] /\ sock' \in [Conns -> {"none", "open", "half", "closed"}]
    BY <1>30 DEF TypeOK, CloseSocket, Steps
  <2>2. QED
    BY <1>30, <2>1 DEF TypeOK, CloseSocket
<1>31. ASSUME NEW t \in Threads, MarkClosed(t) PROVE TypeOK'
  <2>1. FinishedTyped(t)
    BY <1>31, FinishedType DEF MarkClosed
  <2>2. closed' \in [Conns -> BOOLEAN] /\ writes' \in [Conns -> SUBSET ReplyThreads]
    BY <1>31 DEF TypeOK, MarkClosed
  <2>3. QED
    BY <1>31, <2>1, <2>2 DEF TypeOK, MarkClosed, FinishedTyped
<1>32. CASE UNCHANGED vars
  BY <1>32 DEF TypeOK, vars
<1>33. QED
  BY <1>1, <1>2, <1>3, <1>4, <1>5, <1>6, <1>7, <1>8, <1>9, <1>10, <1>11, <1>12, <1>13, <1>14, <1>15, <1>16, <1>17, <1>18, <1>19, <1>20, <1>21, <1>22, <1>23, <1>24, <1>25, <1>26, <1>27, <1>28, <1>29, <1>30, <1>31, <1>32 DEF Next

----------------------------------------------------------------------------
(* forward(): which steps touch the request a serve goroutine handles.  *)

Forwarding == {"arm", "record", "write", "refuse"}

(* Every step outside forward() leaves the goroutines inside it alone.  *)
ForwardFrame ==
  /\ UNCHANGED owner
  /\ \A c \in Conns : serve'[c] \in Forwarding =>
        /\ serve[c] \in Forwarding /\ cur'[c] = cur[c]
        /\ serve'[c] = "record" <=> serve[c] = "record"
  /\ \A c \in Conns : serve[c] = "record" => serve'[c] = "record"

LEMMA ForwardSteps ==
  ASSUME TypeOK, [Next]_vars
  PROVE  \/ \E c \in Conns, i \in Ids : Register(c, i)
         \/ \E c \in Conns : ArmTimer(c) \/ RecordStop(c)
         \/ ForwardFrame
<1> USE DEF table, perC, lockC, ext, run, loop, history, Forwarding, ForwardFrame
<1>1. CASE \E c \in Conns : AcceptConn(c) \/ Enter(c) \/ BadLine(c) \/ Drain(c) \/ ScanEnds(c)
                           \/ Leave(c) \/ CloseNext(c)
  BY <1>1 DEF TypeOK, AcceptConn, Enter, BadLine, Drain, ScanEnds, Leave, CloseNext, Serving
<1>2. CASE \E c \in Conns : WriteCommand(c) \/ Refuse(c)
  BY <1>2 DEF TypeOK, WriteCommand, Refuse, Forwarded, TakeLocked
<1>3. CASE \E i \in Ids : TimerFires(i) \/ Expire(i) \/ ClaimReply(i)
  BY <1>3 DEF TimerFires, Expire, ClaimReply, TakeLocked
<1>4. CASE \E t \in ReplyThreads : BeginReply(t) \/ ReplyWritten(t) \/ ReplyFails(t)
  BY <1>4 DEF BeginReply, ReplyWritten, ReplyFails
<1>5. CASE \E t \in Threads : DropRequests(t) \/ CloseSocket(t) \/ MarkClosed(t)
  BY <1>5 DEF DropRequests, CloseSocket, MarkClosed
<1>6. CASE \/ AcquireSlot \/ AcceptError \/ ProbeFails \/ PumpEnds \/ Cancel \/ Select
           \/ AwaitReplies \/ Snapshot \/ Return \/ Exited \/ UNCHANGED vars
  BY <1>6 DEF AcquireSlot, AcceptError, ProbeFails, PumpEnds, Cancel, Select, AwaitReplies,
              Snapshot, Return, Exited, vars
<1>7. QED
  BY <1>1, <1>2, <1>3, <1>4, <1>5, <1>6 DEF Next

LEMMA CurStep ==
  ASSUME TypeOK, CurInv, [Next]_vars
  PROVE  CurInv'
<1>1. ASSUME NEW c \in Conns, NEW i \in Ids, Register(c, i) PROVE CurInv'
  BY <1>1, HostAssumption DEF TypeOK, CurInv, Register, Serving
<1>2. ASSUME NEW c \in Conns, ArmTimer(c) \/ RecordStop(c) PROVE CurInv'
  BY <1>2 DEF TypeOK, CurInv, ArmTimer, RecordStop, table
<1>3. CASE ForwardFrame
  BY <1>3 DEF CurInv, ForwardFrame, Forwarding
<1>4. QED
  BY <1>1, <1>2, <1>3, ForwardSteps

----------------------------------------------------------------------------
(* The semaphore *)

LEMMA SlotSteps ==
  ASSUME TypeOK, [Next]_vars
  PROVE  \/ AcquireSlot \/ AcceptError
         \/ \E c \in Conns : AcceptConn(c) \/ Enter(c) \/ Leave(c)
         \/ UNCHANGED <<Served, sem, accept>>
<1> USE DEF table, perC, lockC, ext, run, loop, history
<1>1. CASE \E c \in Conns : BadLine(c) \/ Drain(c) \/ ScanEnds(c) \/ CloseNext(c)
  BY <1>1 DEF TypeOK, Served, BadLine, Drain, ScanEnds, CloseNext, Serving
<1>2. CASE \E c \in Conns : ArmTimer(c) \/ RecordStop(c) \/ WriteCommand(c) \/ Refuse(c)
  BY <1>2 DEF TypeOK, Served, ArmTimer, RecordStop, WriteCommand, Refuse, Forwarded, TakeLocked
<1>3. CASE \E c \in Conns, i \in Ids : Register(c, i)
  BY <1>3 DEF TypeOK, Served, Register, Serving
<1>4. CASE \E i \in Ids : TimerFires(i) \/ Expire(i) \/ ClaimReply(i)
  BY <1>4 DEF Served, TimerFires, Expire, ClaimReply, TakeLocked
<1>5. CASE \E t \in ReplyThreads : BeginReply(t) \/ ReplyWritten(t) \/ ReplyFails(t)
  BY <1>5 DEF Served, BeginReply, ReplyWritten, ReplyFails
<1>6. CASE \E t \in Threads : DropRequests(t) \/ CloseSocket(t) \/ MarkClosed(t)
  BY <1>6 DEF Served, DropRequests, CloseSocket, MarkClosed
<1>7. CASE \/ ProbeFails \/ PumpEnds \/ Cancel \/ Select \/ AwaitReplies \/ Snapshot \/ Return
           \/ Exited \/ UNCHANGED vars
  BY <1>7 DEF Served, ProbeFails, PumpEnds, Cancel, Select, StopListening, AwaitReplies, Snapshot,
              Return, Exited, vars
<1>8. QED
  BY <1>1, <1>2, <1>3, <1>4, <1>5, <1>6, <1>7 DEF Next

(* A connection that leaves takes one slot with it.  *)
LEMMA SlotFreed ==
  ASSUME TypeOK, SlotInv, NEW c \in Served, Served' = Served \ {c}, sem' = sem - 1,
         accept' = accept
  PROVE  SlotInv'
<1>1. IsFiniteSet(Served') /\ Cardinality(Served') = Cardinality(Served) - 1
  BY FS_RemoveElement DEF SlotInv
<1>2. Cardinality(Served) \in Nat /\ sem \in Int
  BY FS_CardinalityType DEF SlotInv, TypeOK
<1>3. QED
  BY <1>1, <1>2 DEF SlotInv, SlotsBounded

LEMMA SlotStep ==
  ASSUME TypeOK, SlotInv, [Next]_vars
  PROVE  SlotInv'
<1> USE DEF table, perC, lockC, ext, run, loop, history
<1>0. Cardinality(Served) \in Nat /\ sem \in Int
  BY FS_CardinalityType DEF SlotInv, TypeOK
<1>1. CASE AcquireSlot
  <2>1. Served' = Served
    BY <1>1 DEF AcquireSlot, Served
  <2>2. QED
    BY <1>0, <1>1, <2>1 DEF AcquireSlot, SlotInv, SlotsBounded
<1>2. CASE AcceptError
  <2>1. Served' = Served
    BY <1>2 DEF AcceptError, Served
  <2>2. QED
    BY <1>0, <1>2, <2>1 DEF AcceptError, SlotInv, SlotsBounded
<1>3. ASSUME NEW c \in Conns, AcceptConn(c) PROVE SlotInv'
  <2>1. Served' = Served \cup {c} /\ c \notin Served
    BY <1>3 DEF AcceptConn, Served, TypeOK
  <2>2. IsFiniteSet(Served') /\ Cardinality(Served') = Cardinality(Served) + 1
    BY <2>1, FS_AddElement DEF SlotInv
  <2>3. QED
    BY <1>0, <1>3, <2>2 DEF AcceptConn, SlotInv, SlotsBounded
<1>4. ASSUME NEW c \in Conns, Enter(c) PROVE SlotInv'
  <2>1. CASE closing
    <3>1. Served' = Served \ {c} /\ c \in Served
      BY <1>4, <2>1 DEF Enter, Served, TypeOK
    <3>2. QED
      BY <1>4, <2>1, <3>1, SlotFreed DEF Enter
  <2>2. CASE ~closing
    <3>1. Served' = Served
      BY <1>4, <2>2 DEF Enter, Served, TypeOK
    <3>2. QED
      BY <1>4, <2>2, <3>1 DEF Enter, SlotInv, SlotsBounded
  <2>3. QED
    BY <2>1, <2>2
<1>5. ASSUME NEW c \in Conns, Leave(c) PROVE SlotInv'
  <2>1. Served' = Served \ {c} /\ c \in Served
    BY <1>5 DEF Leave, Serving, Served, TypeOK
  <2>2. QED
    BY <1>5, <2>1, SlotFreed DEF Leave
<1>6. CASE UNCHANGED <<Served, sem, accept>>
  BY <1>6 DEF SlotInv, SlotsBounded
<1>7. QED
  BY <1>1, <1>2, <1>3, <1>4, <1>5, <1>6, SlotSteps

(* The invariant under which the types hold: a command that is refused names a
   request, and the semaphore is never released below zero.  *)
TypeInv == TypeOK /\ CurInv /\ SlotInv

LEMMA TypeInvInit == Init => TypeInv
<1> SUFFICES ASSUME Init PROVE CurInv /\ SlotInv
  BY TypeInit DEF TypeInv
<1>1. Served = {}
  BY DEF Init, Served
<1>2. CurInv
  BY DEF Init, CurInv
<1>3. QED
  BY <1>1, <1>2, FS_EmptySet DEF Init, SlotInv, SlotsBounded

LEMMA TypeInvStep == TypeInv /\ [Next]_vars => TypeInv'
  BY TypeStep, CurStep, SlotStep DEF TypeInv

(* Every variable keeps its type, and the semaphore its bounds, for any set of
   connections and requests.  *)
THEOREM HostTypeOK == Spec => []TypeOK
<1>1. TypeInv => TypeOK
  BY DEF TypeInv
<1>2. QED
  BY <1>1, TypeInvInit, TypeInvStep, PTL DEF Spec

(* The accept semaphore counts the served connections exactly, whatever errors
   Accept returns and however the connections end.  *)
THEOREM HostSlotsBounded == Spec => []SlotsBounded
<1>1. TypeInv => SlotsBounded
  BY DEF TypeInv, SlotInv
<1>2. QED
  BY <1>1, TypeInvInit, TypeInvStep, PTL DEF Spec

----------------------------------------------------------------------------
(* The pending table *)

(* A pending request has a connection.  *)
OwnerInv == \A i \in pending : owner[i] \in Conns

TableInv == OwnerInv /\ TablesAgree

(* The tables change in forward(), in takeLocked and in closeClient only.  *)
LEMMA TableSteps ==
  ASSUME TypeOK, [Next]_vars
  PROVE  \/ \E c \in Conns, i \in Ids : Register(c, i)
         \/ \E c \in Conns : RecordStop(c)
         \/ \E i \in pending : TakeLocked(i)
         \/ \E t \in Threads : DropRequests(t)
         \/ UNCHANGED <<pending, owner, stoppable, ids>>
<1> USE DEF table, perC, lockC, ext, run, loop, history
<1>1. CASE \E c \in Conns : \/ AcceptConn(c) \/ Enter(c) \/ BadLine(c) \/ ArmTimer(c) \/ WriteCommand(c)
                           \/ Drain(c) \/ ScanEnds(c) \/ Leave(c) \/ CloseNext(c)
  BY <1>1 DEF AcceptConn, Enter, BadLine, ArmTimer, WriteCommand, Drain, ScanEnds, Leave, CloseNext
<1>2. CASE \E c \in Conns : Refuse(c)
  BY <1>2 DEF Refuse
<1>3. CASE \E i \in Ids : TimerFires(i) \/ Expire(i) \/ ClaimReply(i)
  BY <1>3 DEF TimerFires, Expire, ClaimReply
<1>4. CASE \E t \in ReplyThreads : BeginReply(t) \/ ReplyWritten(t) \/ ReplyFails(t)
  BY <1>4 DEF BeginReply, ReplyWritten, ReplyFails
<1>5. CASE \E t \in Threads : CloseSocket(t) \/ MarkClosed(t)
  BY <1>5 DEF CloseSocket, MarkClosed
<1>6. CASE \/ AcquireSlot \/ AcceptError \/ ProbeFails \/ PumpEnds \/ Cancel \/ Select
           \/ AwaitReplies \/ Snapshot \/ Return \/ Exited \/ UNCHANGED vars
  BY <1>6 DEF AcquireSlot, AcceptError, ProbeFails, PumpEnds, Cancel, Select, AwaitReplies,
              Snapshot, Return, Exited, vars
<1>7. QED
  BY <1>1, <1>2, <1>3, <1>4, <1>5, <1>6 DEF Next

----------------------------------------------------------------------------
(* The connection a thread works on *)

Busy(t) == step[t] \notin {"idle", "take"}

(* A timer callback or a reply goroutine works for a connection that issued the
   request, and closeClients closes a connection.  *)
TargetInv == /\ \A i \in Ids : Busy(TimerT(i)) \/ Busy(PumpT(i)) => owner[i] \in Conns
             /\ Busy(Main) => cutting \in Conns

LEMMA TargetType ==
  ASSUME TargetInv, NEW t \in Threads, Busy(t)
  PROVE  Target(t) \in Conns
<1>1. CASE t \in ServeThreads
  BY <1>1, ThreadNames DEF Target
<1>2. CASE t \in TimerThreads \cup PumpThreads
  BY <1>2, ThreadNames DEF Target, TargetInv
<1>3. CASE t = Main
  BY <1>3, ThreadNames DEF Target, TargetInv
<1>4. QED
  BY <1>1, <1>2, <1>3, ThreadNames

(* A step that hands no work to a timer callback, a reply goroutine or closeClients.  *)
TargetFrame ==
  /\ UNCHANGED <<owner, cutting>>
  /\ \A t \in Threads \ ServeThreads : Busy(t)' => Busy(t)

LEMMA TargetKept == ASSUME TargetInv, TargetFrame PROVE TargetInv'
<1>1. \A i \in Ids : TimerT(i) \in Threads \ ServeThreads /\ PumpT(i) \in Threads \ ServeThreads
  BY ThreadNames
<1>2. Main \in Threads \ ServeThreads
  BY ThreadNames
<1>3. QED
  BY <1>1, <1>2 DEF TargetInv, TargetFrame

LEMMA TargetStep ==
  ASSUME TypeOK, TargetInv, OwnerInv, [Next]_vars
  PROVE  TargetInv'
<1> USE DEF table, perC, lockC, ext, run, loop, history
<1>1. ASSUME NEW c \in Conns, NEW i \in Ids, Register(c, i) PROVE TargetInv'
  BY <1>1 DEF Register, TypeOK, TargetInv, Busy
<1>2. ASSUME NEW c \in Conns, BadLine(c) \/ Refuse(c) \/ ScanEnds(c) PROVE TargetInv'
  <2>1. UNCHANGED <<owner, cutting>>
    BY <1>2 DEF BadLine, Refuse, ScanEnds, TakeLocked
  <2>2. \A t \in Threads : t # ServeT(c) => step'[t] = step[t]
    BY <1>2 DEF BadLine, Refuse, ScanEnds, TypeOK
  <2>3. TargetFrame
    BY <2>1, <2>2, ThreadNames DEF TargetFrame, Busy
  <2>4. QED
    BY <2>3, TargetKept
<1>3. ASSUME NEW i \in Ids, TimerFires(i) PROVE TargetInv'
  <2>1. TargetFrame
    BY <1>3, ThreadNames DEF TimerFires, TypeOK, TargetFrame, Busy
  <2>2. QED
    BY <2>1, TargetKept
<1>4. ASSUME NEW i \in Ids, Expire(i) PROVE TargetInv'
  <2>1. CASE i \in pending
    <3>1. owner' = owner /\ cutting' = cutting /\ owner[i] \in Conns
      BY <1>4, <2>1 DEF Expire, TakeLocked, OwnerInv
    <3>2. \A t \in Threads : t # TimerT(i) => step'[t] = step[t]
      BY <1>4 DEF Expire, TypeOK
    <3>3. \A j \in Ids : PumpT(j) # TimerT(i) /\ (TimerT(j) = TimerT(i) => j = i)
      BY ThreadNames
    <3>4. QED
      BY <3>1, <3>2, <3>3, ThreadNames DEF TargetInv, Busy
  <2>2. CASE i \notin pending
    <3>1. TargetFrame
      BY <1>4, <2>2 DEF Expire, TypeOK, TargetFrame, Busy
    <3>2. QED
      BY <3>1, TargetKept
  <2>3. QED
    BY <2>1, <2>2
<1>5. ASSUME NEW i \in Ids, ClaimReply(i) PROVE TargetInv'
  <2>1. owner' = owner /\ cutting' = cutting /\ owner[i] \in Conns
    BY <1>5 DEF ClaimReply, TakeLocked, OwnerInv
  <2>2. \A t \in Threads : t # PumpT(i) => step'[t] = step[t]
    BY <1>5 DEF ClaimReply, TypeOK
  <2>3. \A j \in Ids : TimerT(j) # PumpT(i) /\ (PumpT(j) = PumpT(i) => j = i)
    BY ThreadNames
  <2>4. QED
    BY <2>1, <2>2, <2>3, ThreadNames DEF TargetInv, Busy
<1>6. ASSUME NEW t \in ReplyThreads, BeginReply(t) \/ ReplyWritten(t) \/ ReplyFails(t)
      PROVE  TargetInv'
  <2>1. UNCHANGED <<owner, cutting>>
    BY <1>6 DEF BeginReply, ReplyWritten, ReplyFails
  <2>2. \A u \in Threads : u # t => step'[u] = step[u]
    BY <1>6 DEF BeginReply, ReplyWritten, ReplyFails, Finished, TypeOK
  <2>3. Busy(t)
    BY <1>6 DEF BeginReply, ReplyWritten, ReplyFails, Busy
  <2>4. TargetFrame
    BY <2>1, <2>2, <2>3 DEF TargetFrame, Busy
  <2>5. QED
    BY <2>4, TargetKept
<1>7. ASSUME NEW t \in Threads, DropRequests(t) \/ CloseSocket(t) PROVE TargetInv'
  <2>1. UNCHANGED <<owner, cutting>>
    BY <1>7 DEF DropRequests, CloseSocket
  <2>2. \A u \in Threads : u # t => step'[u] = step[u]
    BY <1>7 DEF DropRequests, CloseSocket, TypeOK
  <2>3. TargetFrame
    BY <1>7, <2>1, <2>2 DEF DropRequests, CloseSocket, TargetFrame, Busy
  <2>4. QED
    BY <2>3, TargetKept
<1>8. ASSUME NEW t \in Threads, MarkClosed(t) PROVE TargetInv'
  <2>1. owner' = owner /\ (t # Main => cutting' = cutting)
    BY <1>8 DEF MarkClosed
  <2>2. step' = [step EXCEPT ![t] = "idle"]
    BY <1>8 DEF MarkClosed, Finished
  <2>3. \A u \in Threads : Busy(u)' => Busy(u) /\ u # t
    BY <2>2 DEF TypeOK, Busy
  <2>4. QED
    BY <2>1, <2>3, ThreadNames DEF TargetInv
<1>9. ASSUME NEW c \in Conns, CloseNext(c) PROVE TargetInv'
  <2>1. owner' = owner /\ cutting' = c
    BY <1>9 DEF CloseNext
  <2>2. \A t \in Threads : t # Main => step'[t] = step[t]
    BY <1>9 DEF CloseNext, TypeOK
  <2>3. QED
    BY <2>1, <2>2, ThreadNames DEF TargetInv, Busy
<1>10. CASE \E c \in Conns : \/ AcceptConn(c) \/ Enter(c) \/ ArmTimer(c) \/ RecordStop(c)
                            \/ WriteCommand(c) \/ Drain(c) \/ Leave(c)
  <2>1. UNCHANGED <<owner, cutting, step>>
    BY <1>10 DEF AcceptConn, Enter, ArmTimer, RecordStop, WriteCommand, Drain, Leave
  <2>2. QED
    BY <2>1, TargetKept DEF TargetFrame, Busy
<1>11. CASE \/ AcquireSlot \/ AcceptError \/ ProbeFails \/ PumpEnds \/ Cancel \/ Select
            \/ AwaitReplies \/ Snapshot \/ Return \/ Exited \/ UNCHANGED vars
  <2>1. UNCHANGED <<owner, cutting, step>>
    BY <1>11 DEF AcquireSlot, AcceptError, ProbeFails, PumpEnds, Cancel, Select, AwaitReplies,
                 Snapshot, Return, Exited, vars
  <2>2. QED
    BY <2>1, TargetKept DEF TargetFrame, Busy
<1>12. QED
  BY <1>1, <1>2, <1>3, <1>4, <1>5, <1>6, <1>7, <1>8, <1>9, <1>10, <1>11 DEF Next

----------------------------------------------------------------------------
(* The pending table, continued *)

LEMMA TableStep ==
  ASSUME TypeOK, TableInv, TargetInv, [Next]_vars
  PROVE  TableInv'
<1> USE DEF TableInv, OwnerInv, TablesAgree, table
<1>1. ASSUME NEW c \in Conns, NEW i \in Ids, Register(c, i) PROVE TableInv'
  <2>1. i \notin pending
    BY <1>1, HostAssumption DEF Register
  <2>2. \A d \in Conns : ids'[d] = {j \in pending' : owner'[j] = d}
    BY <1>1, <2>1 DEF Register, TypeOK
  <2>3. QED
    BY <1>1, <2>2 DEF Register, TypeOK
<1>2. ASSUME NEW c \in Conns, RecordStop(c) PROVE TableInv'
  BY <1>2 DEF RecordStop
<1>3. ASSUME NEW i \in pending, TakeLocked(i) PROVE TableInv'
  BY <1>3 DEF TakeLocked, TypeOK
<1>4. ASSUME NEW t \in Threads, DropRequests(t) PROVE TableInv'
  <2> DEFINE c == Target(t)
  <2>1. /\ pending' = pending \ ids[c] /\ stoppable' = stoppable \ ids[c]
        /\ ids' = [ids EXCEPT ![c] = {}] /\ owner' = owner
    BY <1>4 DEF DropRequests
  <2>2. c \in Conns
    BY <1>4, TargetType DEF DropRequests, Busy
  <2>3. \A d \in Conns : d # c => ids[d] \cap ids[c] = {}
    BY <2>2
  <2>4. QED
    BY <2>1, <2>2, <2>3 DEF TypeOK
<1>5. CASE UNCHANGED <<pending, owner, stoppable, ids>>
  BY <1>5
<1>6. QED
  BY <1>1, <1>2, <1>3, <1>4, <1>5, TableSteps

----------------------------------------------------------------------------
(* Answers *)

\* ready[i]: the threads about to write the answer to request i.
ready == [i \in Ids |-> {t \in ReplyThreads : step[t] = "ready" /\ RequestOf(t) = i}]

(* Either the request is pending and nobody carries its answer, or one thread took
   it from the table and no line was begun yet, or a line was begun and no other
   will be.  *)
AnswerInv ==
  \A i \in Ids : /\ lines[i] <= 1
                 /\ i \in pending \/ owner[i] = None => lines[i] = 0
                 /\ \A t \in ready[i] : lines[i] = 0 /\ i \notin pending /\ owner[i] # None
                 /\ \A t, u \in ready[i] : t = u

(* A step that gives no answer to a thread and begins no line.  *)
LEMMA AnswerKept ==
  ASSUME AnswerInv, pending' \subseteq pending, owner' = owner, lines' = lines,
         \A i \in Ids : ready'[i] \subseteq ready[i]
  PROVE  AnswerInv'
  BY DEF AnswerInv

(* A step that takes request i from the table and gives its answer to thread t.  *)
LEMMA AnswerTaken ==
  ASSUME AnswerInv, OwnerInv, HostAssumption, NEW i \in Ids, NEW t, i \in pending,
         pending' = pending \ {i}, owner' = owner, lines' = lines,
         ready'[i] \subseteq ready[i] \cup {t},
         \A j \in Ids \ {i} : ready'[j] \subseteq ready[j]
  PROVE  AnswerInv'
<1>1. owner[i] # None
  BY DEF OwnerInv, HostAssumption
<1>2. (\A u \in ready'[i] : u = t) /\ lines[i] = 0
  BY DEF AnswerInv
<1>3. ASSUME NEW j \in Ids
      PROVE  /\ lines'[j] <= 1
             /\ j \in pending' \/ owner'[j] = None => lines'[j] = 0
             /\ \A u \in ready'[j] : lines'[j] = 0 /\ j \notin pending' /\ owner'[j] # None
             /\ \A u, v \in ready'[j] : u = v
  <2>1. CASE j = i
    BY <1>1, <1>2, <2>1
  <2>2. CASE j # i
    BY <2>2 DEF AnswerInv
  <2>3. QED
    BY <2>1, <2>2
<1>4. QED
  BY <1>3 DEF AnswerInv

(* A step that leaves every thread's answer as it is, or ends it.  *)
LEMMA ReadyKept ==
  ASSUME NEW t0 \in Threads, TypeOK, step' \in [Threads -> Steps],
         \A t \in Threads : t # t0 => step'[t] = step[t],
         \A c \in Conns : ServeT(c) # t0 => rid'[c] = rid[c]
  PROVE  /\ \A i \in Ids : ready'[i] \subseteq ready[i] \cup {t0}
         /\ step'[t0] # "ready" => \A i \in Ids : ready'[i] \subseteq ready[i]
<1>1. \A t \in ReplyThreads : t \in Threads
  BY ThreadNames
<1>2. ASSUME NEW t \in ReplyThreads, t # t0 PROVE RequestOf(t)' = RequestOf(t)
  BY <1>2, ThreadNames DEF RequestOf
<1>3. QED
  BY <1>1, <1>2 DEF ready

LEMMA AnswerStep ==
  ASSUME TypeOK, TypeOK', CurInv, OwnerInv, AnswerInv, [Next]_vars
  PROVE  AnswerInv'
<1> USE DEF table, perC, lockC, ext, run, loop, history
<1>0. step' \in [Threads -> Steps]
  BY DEF TypeOK
<1>1. ASSUME NEW c \in Conns, NEW i \in Ids, Register(c, i) PROVE AnswerInv'
  <2>1. /\ owner[i] = None /\ pending' = pending \cup {i} /\ lines' = lines
        /\ owner' = [owner EXCEPT ![i] = c]
        /\ \A j \in Ids : ready'[j] = ready[j]
    BY <1>1 DEF Register, ready, RequestOf
  <2>2. \A j \in Ids : j # i => owner'[j] = owner[j]
    BY <2>1 DEF TypeOK
  <2>3. QED
    BY <2>1, <2>2 DEF AnswerInv
<1>2. ASSUME NEW c \in Conns, BadLine(c) \/ ScanEnds(c) PROVE AnswerInv'
  <2>1. /\ pending' = pending /\ owner' = owner /\ lines' = lines
        /\ \A d \in Conns : d # c => rid'[d] = rid[d]
        /\ rid'[c] = None
        /\ \A t \in Threads : t # ServeT(c) => step'[t] = step[t]
    BY <1>2 DEF BadLine, ScanEnds, TypeOK
  <2>2. \A i \in Ids : ready'[i] \subseteq ready[i] \cup {ServeT(c)}
    BY <1>0, <2>1, ReadyKept, ThreadNames
  <2>3. RequestOf(ServeT(c))' \notin Ids
    BY <2>1, ThreadNames, HostAssumption DEF RequestOf
  <2>4. \A i \in Ids : ready'[i] \subseteq ready[i]
    BY <2>2, <2>3 DEF ready
  <2>5. QED
    BY <2>1, <2>4, AnswerKept
<1>3. ASSUME NEW c \in Conns, Refuse(c) PROVE AnswerInv'
  <2> DEFINE i == cur[c]
  <2>1. i \in Ids
    BY <1>3 DEF Refuse, CurInv
  <2>2. CASE i \in pending
    <3>1. /\ pending' = pending \ {i} /\ owner' = owner /\ lines' = lines
          /\ rid' = [rid EXCEPT ![c] = i]
          /\ \A t \in Threads : t # ServeT(c) => step'[t] = step[t]
      BY <1>3, <2>2 DEF Refuse, TakeLocked, TypeOK
    <3>2. \A j \in Ids : ready'[j] \subseteq ready[j] \cup {ServeT(c)}
      BY <1>0, <3>1, ReadyKept, ThreadNames DEF TypeOK
    <3>3. RequestOf(ServeT(c))' = i
      BY <3>1, ThreadNames DEF RequestOf, TypeOK
    <3>4. \A j \in Ids \ {i} : ready'[j] \subseteq ready[j]
      BY <3>2, <3>3 DEF ready
    <3>5. QED
      BY <2>1, <2>2, <3>1, <3>2, <3>4, AnswerTaken, HostAssumption
  <2>3. CASE i \notin pending
    <3>1. UNCHANGED <<pending, owner, lines, step, rid>>
      BY <1>3, <2>3 DEF Refuse
    <3>2. QED
      BY <3>1, AnswerKept DEF ready, RequestOf
  <2>4. QED
    BY <2>2, <2>3
<1>4. ASSUME NEW i \in Ids, TimerFires(i) PROVE AnswerInv'
  <2>1. /\ UNCHANGED <<pending, owner, lines, rid>>
        /\ \A t \in Threads : t # TimerT(i) => step'[t] = step[t]
        /\ step'[TimerT(i)] # "ready"
    BY <1>4, ThreadNames DEF TimerFires, TypeOK
  <2>2. \A j \in Ids : ready'[j] \subseteq ready[j]
    BY <1>0, <2>1, ReadyKept, ThreadNames
  <2>3. QED
    BY <2>1, <2>2, AnswerKept
<1>5. ASSUME NEW i \in Ids, Expire(i) PROVE AnswerInv'
  <2>1. /\ owner' = owner /\ lines' = lines /\ rid' = rid
        /\ \A t \in Threads : t # TimerT(i) => step'[t] = step[t]
    BY <1>5 DEF Expire, TakeLocked, TypeOK
  <2>2. \A j \in Ids : ready'[j] \subseteq ready[j] \cup {TimerT(i)}
    BY <1>0, <2>1, ReadyKept, ThreadNames
  <2>3. CASE i \in pending
    <3>1. pending' = pending \ {i}
      BY <1>5, <2>3 DEF Expire, TakeLocked
    <3>2. RequestOf(TimerT(i))' = i
      BY ThreadNames DEF RequestOf, TimerT, Main
    <3>3. \A j \in Ids \ {i} : ready'[j] \subseteq ready[j]
      BY <2>2, <3>2 DEF ready
    <3>4. QED
      BY <2>1, <2>2, <2>3, <3>1, <3>3, AnswerTaken, HostAssumption
  <2>4. CASE i \notin pending
    <3>1. pending' = pending /\ step'[TimerT(i)] # "ready"
      BY <1>5, <2>4, ThreadNames DEF Expire, TypeOK
    <3>2. \A j \in Ids : ready'[j] \subseteq ready[j]
      BY <2>2, <3>1 DEF ready
    <3>3. QED
      BY <2>1, <3>1, <3>2, AnswerKept
  <2>5. QED
    BY <2>3, <2>4
<1>6. ASSUME NEW i \in Ids, ClaimReply(i) PROVE AnswerInv'
  <2>1. /\ pending' = pending \ {i} /\ owner' = owner /\ lines' = lines /\ rid' = rid
        /\ i \in pending /\ \A t \in Threads : t # PumpT(i) => step'[t] = step[t]
    BY <1>6 DEF ClaimReply, TakeLocked, TypeOK
  <2>2. \A j \in Ids : ready'[j] \subseteq ready[j] \cup {PumpT(i)}
    BY <1>0, <2>1, ReadyKept, ThreadNames
  <2>3. RequestOf(PumpT(i))' = i
    BY ThreadNames DEF RequestOf, PumpT, Main
  <2>4. \A j \in Ids \ {i} : ready'[j] \subseteq ready[j]
    BY <2>2, <2>3 DEF ready
  <2>5. QED
    BY <2>1, <2>2, <2>4, AnswerTaken, HostAssumption
<1>7. ASSUME NEW t \in ReplyThreads, BeginReply(t) PROVE AnswerInv'
  <2> DEFINE i == RequestOf(t)
  <2>1. /\ pending' = pending /\ owner' = owner /\ step[t] = "ready"
        /\ \A c \in Conns : ServeT(c) # t => rid'[c] = rid[c]
        /\ \A u \in Threads : u # t => step'[u] = step[u]
        /\ step'[t] # "ready"
    BY <1>7, ThreadNames DEF BeginReply, Finished, TypeOK
  <2>2. \A j \in Ids : ready'[j] \subseteq ready[j] \ {t}
    <3>1. \A j \in Ids : ready'[j] \subseteq ready[j]
      BY <1>0, <2>1, ReadyKept, ThreadNames
    <3>2. QED
      BY <2>1, <3>1 DEF ready
  <2>3. CASE lines' = lines
    BY <2>1, <2>2, <2>3, AnswerKept
  <2>4. CASE i \in Ids /\ lines' = [lines EXCEPT ![i] = @ + 1]
    <3>1. t \in ready[i]
      BY <2>1, <2>4 DEF ready
    <3>2. lines[i] = 0 /\ (\A u \in ready[i] : u = t) /\ i \notin pending /\ owner[i] # None
      BY <2>4, <3>1 DEF AnswerInv
    <3>3. (\A u \in ready'[i] : FALSE) /\ lines'[i] = 1
      BY <2>2, <2>4, <3>2 DEF TypeOK, ready
    <3>4. \A j \in Ids \ {i} : lines'[j] = lines[j]
      BY <2>4 DEF TypeOK
    <3>5. ASSUME NEW j \in Ids
          PROVE  /\ lines'[j] <= 1
                 /\ j \in pending' \/ owner'[j] = None => lines'[j] = 0
                 /\ \A u \in ready'[j] : lines'[j] = 0 /\ j \notin pending' /\ owner'[j] # None
                 /\ \A u, v \in ready'[j] : u = v
      <4>1. CASE j = i
        BY <2>1, <3>2, <3>3, <4>1
      <4>2. CASE j # i
        BY <2>1, <2>2, <3>4, <4>2 DEF AnswerInv
      <4>3. QED
        BY <4>1, <4>2
    <3>6. QED
      BY <3>5 DEF AnswerInv
  <2>5. QED
    BY <1>7, <2>3, <2>4, RequestType, ThreadNames DEF BeginReply
<1>8. ASSUME NEW t \in Threads,
             \/ t \in ReplyThreads /\ (ReplyWritten(t) \/ ReplyFails(t))
             \/ DropRequests(t) \/ CloseSocket(t) \/ MarkClosed(t)
      PROVE  AnswerInv'
  <2>1. /\ pending' \subseteq pending /\ owner' = owner /\ lines' = lines
        /\ \A c \in Conns : ServeT(c) # t => rid'[c] = rid[c]
        /\ \A u \in Threads : u # t => step'[u] = step[u]
        /\ step'[t] # "ready"
    BY <1>8, ThreadNames
       DEF ReplyWritten, ReplyFails, DropRequests, CloseSocket, MarkClosed, Finished, TypeOK
  <2>2. \A j \in Ids : ready'[j] \subseteq ready[j]
    BY <1>0, <2>1, ReadyKept
  <2>3. QED
    BY <2>1, <2>2, AnswerKept
<1>9. ASSUME NEW c \in Conns, CloseNext(c) PROVE AnswerInv'
  <2>1. /\ UNCHANGED <<pending, owner, lines, rid>> /\ step'[Main] # "ready"
        /\ \A t \in Threads : t # Main => step'[t] = step[t]
    BY <1>9, ThreadNames DEF CloseNext, TypeOK
  <2>2. \A j \in Ids : ready'[j] \subseteq ready[j]
    BY <1>0, <2>1, ReadyKept, ThreadNames
  <2>3. QED
    BY <2>1, <2>2, AnswerKept
<1>10. CASE \E c \in Conns : \/ AcceptConn(c) \/ Enter(c) \/ ArmTimer(c) \/ RecordStop(c)
                            \/ WriteCommand(c) \/ Drain(c) \/ Leave(c)
  <2>1. UNCHANGED <<pending, owner, lines, step, rid>>
    BY <1>10 DEF AcceptConn, Enter, ArmTimer, RecordStop, WriteCommand, Drain, Leave
  <2>2. QED
    BY <2>1, AnswerKept DEF ready, RequestOf
<1>11. CASE \/ AcquireSlot \/ AcceptError \/ ProbeFails \/ PumpEnds \/ Cancel \/ Select
            \/ AwaitReplies \/ Snapshot \/ Return \/ Exited \/ UNCHANGED vars
  <2>1. UNCHANGED <<pending, owner, lines, step, rid>>
    BY <1>11 DEF AcquireSlot, AcceptError, ProbeFails, PumpEnds, Cancel, Select, AwaitReplies,
                 Snapshot, Return, Exited, vars
  <2>2. QED
    BY <2>1, AnswerKept DEF ready, RequestOf
<1>12. QED
  BY <1>1, <1>2, <1>3, <1>4, <1>5, <1>6, <1>7, <1>8, <1>9, <1>10, <1>11, ThreadNames DEF Next

----------------------------------------------------------------------------
(* Timers *)

(* A step that leaves the timers alone, or stops one with its stop function.  *)
TimerFrame == /\ timers' \subseteq timers
              /\ \A i \in timers' : i \in stoppable => i \in stoppable'

LEMMA TimerSteps ==
  ASSUME TypeOK, TablesAgree, TargetInv, [Next]_vars
  PROVE  (\E c \in Conns : ArmTimer(c) \/ RecordStop(c)) \/ TimerFrame
<1> USE DEF table, perC, lockC, ext, run, loop, history, TimerFrame
<1>1. CASE \E c \in Conns : \/ AcceptConn(c) \/ Enter(c) \/ BadLine(c) \/ WriteCommand(c)
                           \/ Drain(c) \/ ScanEnds(c) \/ Leave(c) \/ CloseNext(c)
  BY <1>1 DEF AcceptConn, Enter, BadLine, WriteCommand, Drain, ScanEnds, Leave, CloseNext
<1>2. CASE \E c \in Conns : Refuse(c)
  BY <1>2 DEF Refuse, TakeLocked
<1>3. CASE \E c \in Conns, i \in Ids : Register(c, i)
  BY <1>3 DEF Register
<1>4. CASE \E i \in Ids : TimerFires(i) \/ Expire(i) \/ ClaimReply(i)
  BY <1>4 DEF TimerFires, Expire, ClaimReply, TakeLocked
<1>5. CASE \E t \in ReplyThreads : BeginReply(t) \/ ReplyWritten(t) \/ ReplyFails(t)
  BY <1>5 DEF BeginReply, ReplyWritten, ReplyFails
<1>6. CASE \E t \in Threads : DropRequests(t)
  <2> SUFFICES ASSUME NEW t \in Threads, DropRequests(t) PROVE TimerFrame
    BY <1>6
  <2> DEFINE c == Target(t)
  <2>1. /\ timers' = timers \ (ids[c] \cap pending \cap stoppable)
        /\ stoppable' = stoppable \ ids[c]
    BY DEF DropRequests
  <2>2. QED
    BY <2>1 DEF TablesAgree
<1>7. CASE \E t \in Threads : CloseSocket(t) \/ MarkClosed(t)
  BY <1>7 DEF CloseSocket, MarkClosed
<1>8. CASE \/ AcquireSlot \/ AcceptError \/ ProbeFails \/ PumpEnds \/ Cancel \/ Select
           \/ AwaitReplies \/ Snapshot \/ Return \/ Exited \/ UNCHANGED vars
  BY <1>8 DEF AcquireSlot, AcceptError, ProbeFails, PumpEnds, Cancel, Select, AwaitReplies,
              Snapshot, Return, Exited, vars
<1>9. QED
  BY <1>1, <1>2, <1>3, <1>4, <1>5, <1>6, <1>7, <1>8 DEF Next

LEMMA TimerStep ==
  ASSUME TypeOK, TablesAgree, TargetInv, TimersAccounted, [Next]_vars
  PROVE  TimersAccounted'
<1>1. ASSUME NEW c \in Conns, ArmTimer(c) PROVE TimersAccounted'
  BY <1>1 DEF TypeOK, TimersAccounted, ArmTimer, table
<1>2. ASSUME NEW c \in Conns, RecordStop(c) PROVE TimersAccounted'
  BY <1>2 DEF TypeOK, TimersAccounted, RecordStop
<1>3. ASSUME NEW c \in Conns, NEW i \in Ids, Register(c, i) PROVE TimersAccounted'
  BY <1>3 DEF TypeOK, TimersAccounted, Register, Serving
<1>4. CASE TimerFrame /\ ForwardFrame
  BY <1>4 DEF TimersAccounted, TimerFrame, ForwardFrame, Forwarding
<1>5. QED
  BY <1>1, <1>2, <1>3, <1>4, ForwardSteps, TimerSteps

----------------------------------------------------------------------------
(* The inductive invariant and its theorems *)

HostInv == /\ TypeInv /\ TargetInv /\ TableInv /\ AnswerInv /\ TimersAccounted

LEMMA HostInvInit == Init => HostInv
<1> SUFFICES ASSUME Init PROVE TargetInv /\ TableInv /\ AnswerInv /\ TimersAccounted
  BY TypeInvInit DEF HostInv
<1>1. \A t \in Threads : step[t] = "idle"
  BY DEF Init
<1>2. TargetInv
  BY <1>1, ThreadNames DEF TargetInv, Busy
<1>3. TableInv
  BY DEF Init, TableInv, OwnerInv, TablesAgree
<1>4. AnswerInv
  BY <1>1, ThreadNames DEF Init, AnswerInv, ready
<1>5. TimersAccounted
  BY DEF Init, TimersAccounted
<1>6. QED
  BY <1>2, <1>3, <1>4, <1>5

LEMMA HostInvStep == HostInv /\ [Next]_vars => HostInv'
<1> SUFFICES ASSUME HostInv, [Next]_vars PROVE HostInv'
  OBVIOUS
<1>1. TypeInv' /\ TypeOK'
  BY TypeInvStep DEF HostInv, TypeInv
<1>2. TargetInv'
  BY TargetStep DEF HostInv, TypeInv, TableInv
<1>3. TableInv'
  BY TableStep DEF HostInv, TypeInv
<1>4. AnswerInv'
  BY <1>1, AnswerStep DEF HostInv, TypeInv, TableInv
<1>5. TimersAccounted'
  BY TimerStep DEF HostInv, TypeInv, TableInv
<1>6. QED
  BY <1>1, <1>2, <1>3, <1>4, <1>5 DEF HostInv

(* s.pending and every c.ids always tell the same story.  *)
THEOREM HostTablesAgree == Spec => []TablesAgree
<1>1. HostInv => TablesAgree
  BY DEF HostInv, TableInv
<1>2. QED
  BY <1>1, HostInvInit, HostInvStep, PTL DEF Spec

(* No request is answered twice, however its timeout, its reply, its refusal and the
   end of its connection interleave.  *)
THEOREM HostAnsweredOnce == Spec => []AnsweredOnce
<1>1. HostInv => AnsweredOnce
  BY DEF HostInv, AnswerInv, AnsweredOnce
<1>2. QED
  BY <1>1, HostInvInit, HostInvStep, PTL DEF Spec

(* No timer outlives its request without the goroutine that will stop it.  *)
THEOREM HostTimersAccounted == Spec => []TimersAccounted
<1>1. HostInv => TimersAccounted
  BY DEF HostInv
<1>2. QED
  BY <1>1, HostInvInit, HostInvStep, PTL DEF Spec

----------------------------------------------------------------------------
(* What is left of a connection that is over *)

Working == {"writing", "drop", "shut", "mark"}

(* A timer callback or a reply goroutine that writes to a connection, or closes
   it, is counted in its writes.  *)
CountInv == \A t \in ReplyThreads \ ServeThreads : step[t] \in Working => t \in writes[Target(t)]

CountFrame ==
  \A t \in ReplyThreads \ ServeThreads : step'[t] \in Working =>
    /\ step[t] \in Working /\ Target(t)' = Target(t)
    /\ t \in writes[Target(t)] => t \in writes'[Target(t)]

LEMMA CountKept == ASSUME CountInv, CountFrame PROVE CountInv'
  BY DEF CountInv, CountFrame

(* A thread keeps its connection for as long as it works for one.  *)
LEMMA TargetSame ==
  ASSUME TypeOK, TargetInv, [Next]_vars, NEW t \in ReplyThreads, Busy(t)
  PROVE  Target(t)' = Target(t)
<1>1. CASE t \in ServeThreads
  BY <1>1 DEF Target
<1>2. CASE t \notin ServeThreads
  <2>1. t[2] \in Ids /\ owner[t[2]] \in Conns /\ t # Main
    BY <1>2, ThreadNames DEF TargetInv, ReplyThreads
  <2>2. ASSUME NEW c \in Conns, NEW i \in Ids, Register(c, i) PROVE owner'[t[2]] = owner[t[2]]
    BY <2>1, <2>2, HostAssumption DEF Register, TypeOK
  <2>3. (\E i \in pending : TakeLocked(i)) \/ (\E c \in Conns : RecordStop(c))
          \/ (\E u \in Threads : DropRequests(u)) => owner' = owner
    BY DEF TakeLocked, RecordStop, DropRequests
  <2>4. owner'[t[2]] = owner[t[2]]
    BY <2>2, <2>3, TableSteps
  <2>5. QED
    BY <1>2, <2>1, <2>4 DEF Target
<1>3. QED
  BY <1>1, <1>2

LEMMA CountStep ==
  ASSUME TypeOK, TargetInv, CountInv, [Next]_vars
  PROVE  CountInv'
<1> USE DEF table, perC, lockC, ext, run, loop, history
<1>1. \A t \in ReplyThreads : step[t] \in Working => Target(t)' = Target(t) /\ Target(t) \in Conns
  BY TargetSame, TargetType, ThreadNames DEF Working, Busy
<1>2. ASSUME NEW t0 \in Threads, \A t \in Threads : t # t0 => step'[t] = step[t],
             step'[t0] \notin Working, \A c \in Conns : writes[c] \subseteq writes'[c] \cup {t0}
      PROVE  CountInv'
  <2>1. \A t \in ReplyThreads \ ServeThreads : t \in Threads
    BY ThreadNames
  <2>2. CountFrame
    BY <1>1, <1>2, <2>1 DEF CountFrame
  <2>3. QED
    BY <2>2, CountKept
<1>3. ASSUME NEW c \in Conns, BadLine(c) \/ Refuse(c) \/ ScanEnds(c) PROVE CountInv'
  <2>1. writes' = writes /\ \A t \in Threads : t # ServeT(c) => step'[t] = step[t]
    BY <1>3 DEF BadLine, Refuse, ScanEnds, TypeOK
  <2>2. CountFrame
    BY <1>1, <2>1, ThreadNames DEF CountFrame
  <2>3. QED
    BY <2>2, CountKept
<1>4. ASSUME NEW i \in Ids, TimerFires(i) \/ Expire(i) PROVE CountInv'
  <2>1. TimerT(i) \in Threads /\ writes' = writes
    BY <1>4, ThreadNames DEF TimerFires, Expire
  <2>2. \A t \in Threads : t # TimerT(i) => step'[t] = step[t]
    BY <1>4 DEF TimerFires, Expire, TypeOK
  <2>3. step'[TimerT(i)] \notin Working
    BY <1>4, <2>1 DEF TimerFires, Expire, TypeOK, Working
  <2>4. QED
    BY <1>2, <2>1, <2>2, <2>3
<1>5. ASSUME NEW i \in Ids, ClaimReply(i) PROVE CountInv'
  <2>1. PumpT(i) \in Threads /\ writes' = writes
    BY <1>5, ThreadNames DEF ClaimReply
  <2>2. /\ \A t \in Threads : t # PumpT(i) => step'[t] = step[t]
        /\ step'[PumpT(i)] \notin Working
    BY <1>5, <2>1 DEF ClaimReply, TypeOK, Working
  <2>3. QED
    BY <1>2, <2>1, <2>2
<1>6. ASSUME NEW t \in ReplyThreads, BeginReply(t) PROVE CountInv'
  <2>1. t \in Threads /\ Target(t) \in Conns
    BY <1>6, TargetType, ThreadNames DEF BeginReply, Busy
  <2>2. CASE closed[Target(t)]
    <3>1. /\ writes' = writes /\ step'[t] \notin Working
          /\ \A u \in Threads : u # t => step'[u] = step[u]
      BY <1>6, <2>1, <2>2 DEF BeginReply, Finished, TypeOK, Working
    <3>2. QED
      BY <1>2, <2>1, <3>1
  <2>3. CASE ~closed[Target(t)]
    <3>1. /\ writes' = [writes EXCEPT ![Target(t)] = @ \cup {t}]
          /\ \A u \in Threads : u # t => step'[u] = step[u]
      BY <1>6, <2>1, <2>3 DEF BeginReply, TypeOK
    <3>2. Target(t)' = Target(t)
      BY <1>6, <2>1, TargetSame DEF BeginReply, Busy
    <3>3. t \in writes'[Target(t)] /\ \A c \in Conns : writes[c] \subseteq writes'[c]
      BY <2>1, <3>1 DEF TypeOK
    <3>4. ASSUME NEW u \in ReplyThreads \ ServeThreads, step'[u] \in Working
          PROVE  u \in (writes')[Target(u)']
      <4>1. CASE u = t
        BY <3>2, <3>3, <4>1
      <4>2. CASE u # t
        BY <1>1, <3>1, <3>3, <3>4, <4>2, ThreadNames DEF CountInv
      <4>3. QED
        BY <4>1, <4>2
    <3>5. QED
      BY <3>4 DEF CountInv
  <2>4. QED
    BY <2>2, <2>3
<1>7. ASSUME NEW t \in ReplyThreads, ReplyWritten(t) PROVE CountInv'
  <2>1. t \in Threads /\ Target(t) \in Conns
    BY <1>7, TargetType, ThreadNames DEF ReplyWritten, Busy
  <2>2. /\ writes' = [writes EXCEPT ![Target(t)] = @ \ {t}] /\ step'[t] \notin Working
        /\ \A u \in Threads : u # t => step'[u] = step[u]
    BY <1>7, <2>1 DEF ReplyWritten, Finished, TypeOK, Working
  <2>3. \A c \in Conns : writes[c] \subseteq writes'[c] \cup {t}
    BY <2>1, <2>2 DEF TypeOK
  <2>4. QED
    BY <1>2, <2>1, <2>2, <2>3
<1>8. ASSUME NEW t \in Threads, (t \in ReplyThreads /\ ReplyFails(t)) \/ DropRequests(t) \/ CloseSocket(t)
      PROVE  CountInv'
  <2>1. writes' = writes /\ step[t] \in Working
    BY <1>8 DEF ReplyFails, DropRequests, CloseSocket, Working
  <2>2. \A u \in Threads : u # t => step'[u] = step[u]
    BY <1>8 DEF ReplyFails, DropRequests, CloseSocket, TypeOK
  <2>3. CountFrame
    BY <1>1, <2>1, <2>2, ThreadNames DEF CountFrame
  <2>4. QED
    BY <2>3, CountKept
<1>9. ASSUME NEW t \in Threads, MarkClosed(t) PROVE CountInv'
  <2>1. Target(t) \in Conns
    BY <1>9, TargetType DEF MarkClosed, Busy
  <2>2. /\ writes' = [writes EXCEPT ![Target(t)] = @ \ {t}] /\ step'[t] \notin Working
        /\ \A u \in Threads : u # t => step'[u] = step[u]
    BY <1>9 DEF MarkClosed, Finished, TypeOK, Working
  <2>3. \A c \in Conns : writes[c] \subseteq writes'[c] \cup {t}
    BY <2>1, <2>2 DEF TypeOK
  <2>4. QED
    BY <1>2, <2>2, <2>3
<1>10. ASSUME NEW c \in Conns, CloseNext(c) PROVE CountInv'
  <2>1. writes' = writes /\ \A t \in Threads : t # Main => step'[t] = step[t]
    BY <1>10 DEF CloseNext, TypeOK
  <2>2. CountFrame
    BY <1>1, <2>1, ThreadNames DEF CountFrame
  <2>3. QED
    BY <2>2, CountKept
<1>11. CASE UNCHANGED <<step, writes>>
  <2>1. CountFrame
    BY <1>1, <1>11 DEF CountFrame
  <2>2. QED
    BY <2>1, CountKept
<1>12. CASE \E c \in Conns : \/ AcceptConn(c) \/ Enter(c) \/ ArmTimer(c) \/ RecordStop(c)
                            \/ WriteCommand(c) \/ Drain(c) \/ Leave(c)
                            \/ \E i \in Ids : Register(c, i)
  BY <1>11, <1>12 DEF AcceptConn, Enter, ArmTimer, RecordStop, WriteCommand, Drain, Leave, Register
<1>13. CASE \/ AcquireSlot \/ AcceptError \/ ProbeFails \/ PumpEnds \/ Cancel \/ Select
            \/ AwaitReplies \/ Snapshot \/ Return \/ Exited \/ UNCHANGED vars
  BY <1>11, <1>13 DEF AcquireSlot, AcceptError, ProbeFails, PumpEnds, Cancel, Select, AwaitReplies,
                      Snapshot, Return, Exited, vars
<1>14. QED
  BY <1>3, <1>4, <1>5, <1>6, <1>7, <1>8, <1>9, <1>10, <1>12, <1>13, ThreadNames DEF Next

(* What serve(c) has settled by the time it stands where it stands: nothing before it
   registered the connection; on its way out, what each part of closeClient does.  *)
LeaveInv ==
  \A c \in Conns :
    /\ serve[c] \in {"none", "start"} =>
         step[ServeT(c)] = "idle" /\ c \notin conns /\ \A i \in Ids : owner[i] # c
    /\ serve[c] = "leaving" =>
         /\ step[ServeT(c)] \in {"drop", "shut", "mark", "idle"}
         /\ step[ServeT(c)] # "drop" => c \notin conns /\ ids[c] = {}
         /\ step[ServeT(c)] = "idle" => closed[c]
    /\ serve[c] = "done" =>
         /\ step[ServeT(c)] = "idle" /\ c \notin conns /\ ids[c] = {} /\ Touching(c) = {}
         /\ closed[c] \/ \A i \in Ids : owner[i] # c

Still(c) ==
  serve'[c] \in {"none", "start", "leaving", "done"} =>
    /\ serve'[c] = serve[c] /\ step'[ServeT(c)] = step[ServeT(c)]
    /\ c \in conns' => c \in conns
    /\ ids'[c] \subseteq ids[c]
    /\ closed[c] => closed'[c]
    /\ \A i \in Ids : owner'[i] = c => owner[i] = c
    /\ serve[c] = "done" => Touching(c)' \subseteq Touching(c)

LEMMA LeaveKept == ASSUME LeaveInv, \A c \in Conns : Still(c) PROVE LeaveInv'
<1> SUFFICES ASSUME NEW c \in Conns, serve'[c] \in {"none", "start", "leaving", "done"}
             PROVE  /\ serve'[c] \in {"none", "start"} =>
                         step'[ServeT(c)] = "idle" /\ c \notin conns' /\ \A i \in Ids : owner'[i] # c
                    /\ serve'[c] = "leaving" =>
                         /\ step'[ServeT(c)] \in {"drop", "shut", "mark", "idle"}
                         /\ step'[ServeT(c)] # "drop" => c \notin conns' /\ ids'[c] = {}
                         /\ step'[ServeT(c)] = "idle" => closed'[c]
                    /\ serve'[c] = "done" =>
                         /\ step'[ServeT(c)] = "idle" /\ c \notin conns' /\ ids'[c] = {}
                         /\ Touching(c)' = {}
                         /\ closed'[c] \/ \A i \in Ids : owner'[i] # c
  BY DEF LeaveInv, ServeT
<1>1. /\ serve'[c] = serve[c] /\ step'[ServeT(c)] = step[ServeT(c)]
      /\ c \in conns' => c \in conns
      /\ ids'[c] \subseteq ids[c]
      /\ closed[c] => closed'[c]
      /\ \A i \in Ids : owner'[i] = c => owner[i] = c
      /\ serve[c] = "done" => Touching(c)' \subseteq Touching(c)
  BY DEF Still
<1>2. QED
  BY <1>1 DEF LeaveInv

(* Nothing new touches a connection whose threads are left alone or were at it before.  *)
LEMMA TouchingKept ==
  ASSUME TypeOK, TargetInv, [Next]_vars, NEW c \in Conns,
         \A t \in ReplyThreads : step'[t] \in Working /\ Target(t)' = c => step[t] \in Working
  PROVE  Touching(c)' \subseteq Touching(c)
<1> SUFFICES ASSUME NEW t \in ReplyThreads, step'[t] \in Working, Target(t)' = c
             PROVE  step[t] \in Working /\ Target(t) = c
  BY DEF Touching, Working
<1>1. step[t] \in Working
  OBVIOUS
<1>2. QED
  BY <1>1, TargetSame DEF Busy, Working

(* A step of one thread that was at it before, or does not get to work.  *)
LEMMA OneThread ==
  ASSUME TypeOK, TargetInv, [Next]_vars, NEW t0 \in Threads, NEW c \in Conns,
         \A t \in Threads : t # t0 => step'[t] = step[t],
         step'[t0] \in Working => step[t0] \in Working
  PROVE  Touching(c)' \subseteq Touching(c)
<1>1. \A t \in ReplyThreads : step'[t] \in Working => step[t] \in Working
  BY ThreadNames
<1>2. QED
  BY <1>1, TouchingKept

LEMMA LeaveStep ==
  ASSUME TypeOK, TargetInv, TableInv, CountInv, LeaveInv, [Next]_vars
  PROVE  LeaveInv'
<1> USE DEF table, perC, lockC, ext, run, loop, history
<1>1. CASE UNCHANGED <<conns, ids, closed, owner, step>>
           /\ \A c \in Conns : serve'[c] \in {"none", "start", "leaving", "done"} => serve'[c] = serve[c]
  <2>1. \A c \in Conns : Touching(c)' \subseteq Touching(c)
    BY <1>1, TouchingKept
  <2>2. QED
    BY <1>1, <2>1, LeaveKept DEF Still
<1>2. CASE \E c \in Conns : ArmTimer(c) \/ RecordStop(c) \/ WriteCommand(c) \/ Drain(c)
  <2>1. UNCHANGED <<conns, ids, closed, owner, step>>
    BY <1>2 DEF ArmTimer, RecordStop, WriteCommand, Drain
  <2>2. \A c \in Conns : serve'[c] \in {"none", "start", "leaving", "done"} => serve'[c] = serve[c]
    BY <1>2 DEF ArmTimer, RecordStop, WriteCommand, Drain, Forwarded, TypeOK
  <2>3. QED
    BY <1>1, <2>1, <2>2
<1>3. CASE \/ AcquireSlot \/ AcceptError \/ ProbeFails \/ PumpEnds \/ Cancel \/ Select
           \/ AwaitReplies \/ Snapshot \/ Return \/ Exited \/ UNCHANGED vars
  <2>1. UNCHANGED <<conns, ids, closed, owner, step, serve>>
    BY <1>3 DEF AcquireSlot, AcceptError, ProbeFails, PumpEnds, Cancel, Select, AwaitReplies,
                Snapshot, Return, Exited, vars
  <2>2. QED
    BY <1>1, <2>1
<1>4. ASSUME NEW c \in Conns, AcceptConn(c) PROVE LeaveInv'
  <2>1. /\ UNCHANGED <<conns, ids, closed, owner, step>>
        /\ serve[c] = "none" /\ serve' = [serve EXCEPT ![c] = "start"]
    BY <1>4 DEF AcceptConn
  <2>2. \A d \in Conns : Touching(d)' \subseteq Touching(d)
    BY <2>1, TouchingKept
  <2>3. QED
    BY <2>1, <2>2 DEF LeaveInv, TypeOK
<1>5. ASSUME NEW c \in Conns, Enter(c) PROVE LeaveInv'
  <2>1. UNCHANGED <<ids, closed, owner, step>> /\ serve[c] = "start"
    BY <1>5 DEF Enter
  <2>2. /\ serve'[c] \in {"reading", "done"}
        /\ serve'[c] = "done" => c \notin conns'
        /\ \A d \in Conns \ {c} : serve'[d] = serve[d] /\ (d \in conns' => d \in conns)
    BY <1>5, <2>1 DEF Enter, TypeOK, LeaveInv
  <2>3. \A d \in Conns : Touching(d)' \subseteq Touching(d)
    BY <2>1, TouchingKept
  <2>4. step[ServeT(c)] = "idle" /\ (\A i \in Ids : owner[i] # c) /\ ids[c] = {}
    BY <2>1 DEF LeaveInv, TableInv, TablesAgree, TypeOK
  <2>5. ASSUME NEW t \in Touching(c) PROVE FALSE
    <3>1. t \in ReplyThreads /\ step[t] \in Working /\ Target(t) = c /\ t # Main
      BY <2>5, ThreadNames DEF Touching, Working
    <3>2. t \notin ServeThreads
      BY <2>4, <3>1, ThreadNames DEF Target, Working
    <3>3. t[2] \in Ids /\ owner[t[2]] = c
      BY <3>1, <3>2, ThreadNames DEF Target, ReplyThreads
    <3>4. QED
      BY <2>4, <3>3
  <2>6. Touching(c)' = {}
    BY <2>3, <2>5
  <2>7. QED
    BY <2>1, <2>2, <2>3, <2>4, <2>6 DEF LeaveInv
<1>6. ASSUME NEW c \in Conns, BadLine(c) \/ Refuse(c) PROVE LeaveInv'
  <2>1. /\ UNCHANGED <<conns, closed, owner>> /\ ServeT(c) \in Threads
        /\ \A d \in Conns : d # c => serve'[d] = serve[d]
        /\ \A t \in Threads : t # ServeT(c) => step'[t] = step[t]
    BY <1>6, ThreadNames DEF BadLine, Refuse, Forwarded, TakeLocked, TypeOK
  <2>2. serve'[c] \notin {"none", "start", "leaving", "done"} /\ \A d \in Conns : ids'[d] \subseteq ids[d]
    BY <1>6 DEF BadLine, Refuse, Forwarded, TakeLocked, TypeOK
  <2>3. step'[ServeT(c)] \in Working => step[ServeT(c)] \in Working
    BY <1>6, <2>1 DEF BadLine, Refuse, TypeOK, Working
  <2>4. \A d \in Conns : Touching(d)' \subseteq Touching(d)
    BY <2>1, <2>3, OneThread
  <2>5. QED
    BY <2>1, <2>2, <2>4, ThreadNames, LeaveKept DEF Still
<1>7. ASSUME NEW c \in Conns, NEW i \in Ids, Register(c, i) PROVE LeaveInv'
  <2>1. UNCHANGED <<conns, closed, step>> /\ serve[c] = "reading" /\ serve' = [serve EXCEPT ![c] = "arm"]
    BY <1>7 DEF Register, Serving
  <2>2. \A d \in Conns : Touching(d)' \subseteq Touching(d)
    BY <2>1, TouchingKept
  <2>3. \A d \in Conns \ {c} : ids'[d] = ids[d] /\ \A j \in Ids : owner'[j] = d => owner[j] = d
    BY <1>7 DEF Register, TypeOK
  <2>4. serve'[c] = "arm" /\ \A d \in Conns \ {c} : serve'[d] = serve[d]
    BY <2>1 DEF TypeOK
  <2>5. QED
    BY <2>1, <2>2, <2>3, <2>4, LeaveKept DEF Still
<1>8. ASSUME NEW c \in Conns, ScanEnds(c) PROVE LeaveInv'
  <2>1. /\ UNCHANGED <<conns, ids, closed, owner>> /\ ServeT(c) \in Threads
        /\ serve'[c] = "leaving" /\ step'[ServeT(c)] = "drop"
        /\ \A d \in Conns : d # c => serve'[d] = serve[d]
        /\ \A t \in Threads : t # ServeT(c) => step'[t] = step[t]
    BY <1>8, ThreadNames DEF ScanEnds, TypeOK
  <2>2. ASSUME NEW d \in Conns, d # c PROVE Touching(d)' \subseteq Touching(d)
    <3>1. \A t \in ReplyThreads : step'[t] \in Working /\ Target(t)' = d => step[t] \in Working
      BY <2>1, <2>2, ThreadNames DEF Target
    <3>2. QED
      BY <3>1, TouchingKept
  <2>3. QED
    BY <2>1, <2>2, ThreadNames DEF LeaveInv
<1>9. ASSUME NEW c \in Conns, Leave(c) PROVE LeaveInv'
  <2>1. /\ UNCHANGED <<conns, ids, closed, owner, step>> /\ writes[c] = {}
        /\ serve[c] = "leaving" /\ step[ServeT(c)] = "idle" /\ serve' = [serve EXCEPT ![c] = "done"]
    BY <1>9 DEF Leave, Serving
  <2>2. \A d \in Conns : Touching(d)' \subseteq Touching(d)
    BY <2>1, TouchingKept
  <2>3. Touching(c) = {}
    BY <2>1, ThreadNames DEF Touching, CountInv, Working, Target
  <2>4. QED
    BY <2>1, <2>2, <2>3 DEF LeaveInv, TypeOK
<1>10. ASSUME NEW c \in Conns, CloseNext(c) PROVE LeaveInv'
  <2>1. /\ UNCHANGED <<conns, ids, closed, owner, serve>>
        /\ \A t \in Threads : t # Main => step'[t] = step[t]
    BY <1>10 DEF CloseNext, TypeOK
  <2>2. \A t \in ReplyThreads : step'[t] = step[t]
    BY <2>1, ThreadNames
  <2>3. \A d \in Conns : Touching(d)' \subseteq Touching(d)
    BY <2>2, TouchingKept
  <2>4. QED
    BY <2>1, <2>2, <2>3, ThreadNames, LeaveKept DEF Still
<1>11. ASSUME NEW i \in Ids, TimerFires(i) \/ Expire(i) \/ ClaimReply(i) PROVE LeaveInv'
  <2>1. /\ UNCHANGED <<conns, closed, owner, serve>>
        /\ \A d \in Conns : ids'[d] \subseteq ids[d]
    BY <1>11 DEF TimerFires, Expire, ClaimReply, TakeLocked, TypeOK
  <2>2. PICK t0 \in {TimerT(i), PumpT(i)} : /\ \A t \in Threads : t # t0 => step'[t] = step[t]
                                            /\ step'[t0] \notin Working
    <3>1. TimerT(i) \in Threads /\ PumpT(i) \in Threads
      BY ThreadNames
    <3>2. QED
      BY <1>11, <3>1 DEF TimerFires, Expire, ClaimReply, TypeOK, Working
  <2>3. t0 \in Threads /\ \A d \in Conns : ServeT(d) # t0 /\ ServeT(d) \in Threads
    BY ThreadNames
  <2>4. \A d \in Conns : Touching(d)' \subseteq Touching(d)
    BY <2>2, <2>3, OneThread
  <2>5. QED
    BY <2>1, <2>2, <2>3, <2>4, LeaveKept DEF Still
<1>12. ASSUME NEW t \in ReplyThreads, BeginReply(t) \/ ReplyWritten(t) \/ ReplyFails(t)
       PROVE  LeaveInv'
  <2>1. /\ UNCHANGED <<conns, ids, closed, owner, serve>> /\ t \in Threads /\ Busy(t)
        /\ step[t] \in {"ready", "writing"}
    BY <1>12, ThreadNames DEF BeginReply, ReplyWritten, ReplyFails, Busy
  <2>2. \A u \in Threads : u # t => step'[u] = step[u]
    BY <1>12 DEF BeginReply, ReplyWritten, ReplyFails, Finished, TypeOK
  <2>3. ASSUME NEW d \in Conns, serve[d] \in {"none", "start", "leaving", "done"}
        PROVE  t # ServeT(d) /\ step'[ServeT(d)] = step[ServeT(d)]
    BY <2>1, <2>2, <2>3, ThreadNames DEF LeaveInv
  <2>4. ASSUME NEW d \in Conns, serve[d] = "done" PROVE Touching(d)' \subseteq Touching(d)
    <3>1. CASE step[t] = "writing"
      BY <2>1, <2>2, <3>1, OneThread DEF Working
    <3>2. CASE step[t] = "ready" /\ Target(t) # d
      <4>1. \A u \in ReplyThreads : step'[u] \in Working /\ Target(u)' = d => step[u] \in Working
        BY <2>1, <2>2, <3>2, TargetSame, ThreadNames
      <4>2. QED
        BY <4>1, TouchingKept
    <3>3. CASE step[t] = "ready" /\ Target(t) = d
      <4>1. t \notin ServeThreads /\ t # Main
        BY <2>3, <2>4, <3>3, ThreadNames DEF Target
      <4>2. t[2] \in Ids /\ owner[t[2]] = d
        BY <3>3, <4>1, ThreadNames DEF Target, ReplyThreads
      <4>3. closed[Target(t)]
        BY <2>4, <3>3, <4>2 DEF LeaveInv
      <4>4. step'[t] \notin Working
        BY <1>12, <2>1, <3>3, <4>3 DEF BeginReply, ReplyWritten, ReplyFails, Finished, TypeOK, Working
      <4>5. QED
        BY <2>1, <2>2, <4>4, OneThread
    <3>4. QED
      BY <2>1, <3>1, <3>2, <3>3
  <2>5. QED
    BY <2>1, <2>3, <2>4, LeaveKept DEF Still
<1>13. ASSUME NEW t \in Threads, DropRequests(t) \/ CloseSocket(t) \/ MarkClosed(t) PROVE LeaveInv'
  <2>1. /\ UNCHANGED <<owner, serve>> /\ step[t] \in {"drop", "shut", "mark"} /\ Busy(t)
        /\ conns' \subseteq conns
    BY <1>13 DEF DropRequests, CloseSocket, MarkClosed, Busy
  <2>2. Target(t) \in Conns
    BY <2>1, TargetType
  <2>3. /\ \A u \in Threads : u # t => step'[u] = step[u]
        /\ \A d \in Conns : ids'[d] \subseteq ids[d] /\ (closed[d] => closed'[d])
    BY <1>13, <2>2 DEF DropRequests, CloseSocket, MarkClosed, Finished, TypeOK
  <2>4. \A d \in Conns : Touching(d)' \subseteq Touching(d)
    BY <2>1, <2>3, OneThread DEF Working
  <2>5. CASE \E c \in Conns : t = ServeT(c) /\ serve[c] = "leaving"
    <3>1. PICK c \in Conns : t = ServeT(c) /\ serve[c] = "leaving"
      BY <2>5
    <3>2. Target(t) = c
      BY <3>1, ThreadNames DEF Target
    <3>3. \A d \in Conns \ {c} : Still(d)
      BY <2>1, <2>3, <2>4, <3>1, ThreadNames DEF Still
    <3>4. CASE DropRequests(t)
      <4>1. step'[t] = "shut" /\ c \notin conns' /\ ids'[c] = {}
        BY <3>2, <3>4 DEF DropRequests, TypeOK
      <4>2. QED
        BY <2>1, <2>3, <2>4, <3>1, <4>1, ThreadNames DEF LeaveInv
    <3>5. CASE CloseSocket(t) \/ MarkClosed(t)
      <4>1. /\ UNCHANGED <<conns, ids>> /\ step[t] # "drop"
            /\ step'[t] = "mark" \/ (step'[t] = "idle" /\ closed'[c])
        BY <3>2, <3>5 DEF CloseSocket, MarkClosed, Finished, TypeOK
      <4>2. QED
        BY <2>1, <2>3, <2>4, <3>1, <4>1, ThreadNames DEF LeaveInv
    <3>6. QED
      BY <1>13, <3>4, <3>5
  <2>6. CASE ~\E c \in Conns : t = ServeT(c) /\ serve[c] = "leaving"
    <3>1. ASSUME NEW d \in Conns, serve[d] \in {"none", "start", "leaving", "done"}
          PROVE  step'[ServeT(d)] = step[ServeT(d)]
      BY <2>1, <2>3, <2>6, <3>1, ThreadNames DEF LeaveInv
    <3>2. QED
      BY <2>1, <2>3, <2>4, <3>1, LeaveKept DEF Still
  <2>7. QED
    BY <2>5, <2>6
<1>14. QED
  BY <1>2, <1>3, <1>4, <1>5, <1>6, <1>7, <1>8, <1>9, <1>10, <1>11, <1>12, <1>13 DEF Next

----------------------------------------------------------------------------
(* Replies that were handed off *)

(* A reply goroutine is counted from its claim to its end, and nothing is claimed any
   more once the pump has ended.  *)
FlushInv ==
  /\ \A i \in Ids : step[PumpT(i)] # "idle" => i \in replies
  /\ main \in {"await", "flushed"} => pump # "reading"
  /\ main = "flushed" => replies = {}

LEMMA FlushStep == ASSUME TypeOK, FlushInv, [Next]_vars PROVE FlushInv'
<1> USE DEF table, perC, lockC, ext, run, loop, history
<1>1. CASE UNCHANGED <<step, replies, main, pump>>
  BY <1>1 DEF FlushInv, PumpT
<1>2. CASE \E c \in Conns : \/ AcceptConn(c) \/ Enter(c) \/ ArmTimer(c) \/ RecordStop(c)
                           \/ WriteCommand(c) \/ Drain(c) \/ Leave(c) \/ \E i \in Ids : Register(c, i)
  BY <1>1, <1>2 DEF AcceptConn, Enter, ArmTimer, RecordStop, WriteCommand, Drain, Leave, Register
<1>3. CASE AcquireSlot \/ AcceptError \/ ProbeFails \/ Cancel \/ Exited \/ UNCHANGED vars
  BY <1>1, <1>3 DEF AcquireSlot, AcceptError, ProbeFails, Cancel, Exited, vars
<1>4. CASE PumpEnds \/ Select \/ AwaitReplies \/ Snapshot \/ Return
  BY <1>4 DEF PumpEnds, Select, AwaitReplies, Snapshot, Return, StopListening, FlushInv, PumpT
<1>5. ASSUME NEW t0 \in Threads \ PumpThreads, \A t \in Threads : t # t0 => step'[t] = step[t],
             UNCHANGED <<replies, main, pump>>
      PROVE  FlushInv'
  <2>1. \A i \in Ids : PumpT(i) \in Threads /\ PumpT(i) # t0
    BY ThreadNames DEF PumpThreads
  <2>2. QED
    BY <1>5, <2>1 DEF FlushInv, PumpT
<1>6. ASSUME NEW c \in Conns, BadLine(c) \/ Refuse(c) \/ ScanEnds(c) PROVE FlushInv'
  <2>1. ServeT(c) \in Threads \ PumpThreads
    BY ThreadNames
  <2>2. UNCHANGED <<replies, main, pump>> /\ \A t \in Threads : t # ServeT(c) => step'[t] = step[t]
    BY <1>6 DEF BadLine, Refuse, ScanEnds, TypeOK
  <2>3. QED
    BY <1>5, <2>1, <2>2
<1>7. ASSUME NEW c \in Conns, CloseNext(c) PROVE FlushInv'
  <2>1. Main \in Threads \ PumpThreads
    BY ThreadNames DEF ReplyThreads
  <2>2. UNCHANGED <<replies, main, pump>> /\ \A t \in Threads : t # Main => step'[t] = step[t]
    BY <1>7 DEF CloseNext, TypeOK
  <2>3. QED
    BY <1>5, <2>1, <2>2
<1>8. ASSUME NEW i \in Ids, TimerFires(i) \/ Expire(i) PROVE FlushInv'
  <2>1. TimerT(i) \in Threads \ PumpThreads
    BY ThreadNames DEF PumpThreads
  <2>2. UNCHANGED <<replies, main, pump>> /\ \A t \in Threads : t # TimerT(i) => step'[t] = step[t]
    BY <1>8 DEF TimerFires, Expire, TypeOK
  <2>3. QED
    BY <1>5, <2>1, <2>2
<1>9. ASSUME NEW i \in Ids, ClaimReply(i) PROVE FlushInv'
  <2>1. /\ replies' = replies \cup {i} /\ UNCHANGED <<main, pump>> /\ pump = "reading"
        /\ \A t \in Threads : t # PumpT(i) => step'[t] = step[t]
    BY <1>9 DEF ClaimReply, TypeOK
  <2>2. QED
    BY <2>1, ThreadNames DEF FlushInv, PumpT
<1>10. ASSUME NEW t \in Threads, step[t] # "idle", UNCHANGED <<main, pump>>,
              \/ Finished(t)
              \/ replies' = replies /\ \A u \in Threads : u # t => step'[u] = step[u]
       PROVE  FlushInv'
  <2>1. \A i \in Ids : PumpT(i) \in Threads /\ PumpT(i) \in PumpThreads /\ PumpT(i)[2] = i
    BY ThreadNames DEF PumpThreads
  <2>2. CASE Finished(t)
    <3>1. step' = [step EXCEPT ![t] = "idle"]
          /\ replies' = IF t \in PumpThreads THEN replies \ {t[2]} ELSE replies
      BY <2>2 DEF Finished
    <3>2. ASSUME NEW i \in Ids, step'[PumpT(i)] # "idle" PROVE i \in replies'
      <4>1. PumpT(i) # t /\ i \in replies
        BY <2>1, <3>1, <3>2 DEF FlushInv, TypeOK
      <4>2. t \in PumpThreads => t[2] # i
        BY <4>1, ThreadNames
      <4>3. QED
        BY <3>1, <4>1, <4>2
    <3>3. QED
      BY <1>10, <3>1, <3>2 DEF FlushInv, PumpT
  <2>3. CASE replies' = replies /\ \A u \in Threads : u # t => step'[u] = step[u]
    <3>1. \A i \in Ids : step'[PumpT(i)] # "idle" => step[PumpT(i)] # "idle"
      BY <1>10, <2>1, <2>3
    <3>2. QED
      BY <1>10, <2>3, <3>1 DEF FlushInv, PumpT
  <2>4. QED
    BY <1>10, <2>2, <2>3
<1>11. ASSUME NEW t \in ReplyThreads, BeginReply(t) \/ ReplyWritten(t) \/ ReplyFails(t) PROVE FlushInv'
  <2>1. t \in Threads /\ step[t] # "idle" /\ UNCHANGED <<main, pump>>
    BY <1>11, ThreadNames DEF BeginReply, ReplyWritten, ReplyFails
  <2>2. Finished(t) \/ (replies' = replies /\ \A u \in Threads : u # t => step'[u] = step[u])
    BY <1>11 DEF BeginReply, ReplyWritten, ReplyFails, TypeOK
  <2>3. QED
    BY <1>10, <2>1, <2>2
<1>12. ASSUME NEW t \in Threads, DropRequests(t) \/ CloseSocket(t) \/ MarkClosed(t) PROVE FlushInv'
  <2>1. step[t] # "idle" /\ UNCHANGED <<main, pump>>
    BY <1>12 DEF DropRequests, CloseSocket, MarkClosed
  <2>2. Finished(t) \/ (replies' = replies /\ \A u \in Threads : u # t => step'[u] = step[u])
    BY <1>12 DEF DropRequests, CloseSocket, MarkClosed, TypeOK
  <2>3. QED
    BY <1>10, <2>1, <2>2
<1>13. QED
  BY <1>2, <1>3, <1>4, <1>6, <1>7, <1>8, <1>9, <1>11, <1>12 DEF Next

----------------------------------------------------------------------------
(* What the end of a connection and of the host leaves *)

QuietInv == HostInv /\ CountInv /\ LeaveInv /\ FlushInv

LEMMA QuietInit == Init => QuietInv
<1> SUFFICES ASSUME Init PROVE QuietInv
  OBVIOUS
<1>1. \A t \in Threads : step[t] = "idle"
  BY DEF Init
<1>2. CountInv
  BY <1>1, ThreadNames DEF CountInv, Working
<1>3. LeaveInv
  BY <1>1, ThreadNames, HostAssumption DEF LeaveInv, Init
<1>4. FlushInv
  BY <1>1, ThreadNames DEF FlushInv, Init
<1>5. QED
  BY <1>2, <1>3, <1>4, HostInvInit DEF QuietInv

LEMMA QuietStep == QuietInv /\ [Next]_vars => QuietInv'
  BY HostInvStep, CountStep, LeaveStep, FlushStep DEF QuietInv, HostInv, TypeInv

(* A connection whose serve() returned has left nothing behind: no request, no timer, no
   reply that still writes to it or closes it.  *)
THEOREM HostServedIsQuiet == Spec => []ServedIsQuiet
<1>1. QuietInv => ServedIsQuiet
  <2> SUFFICES ASSUME QuietInv, NEW c \in Conns, serve[c] = "done"
               PROVE  /\ c \notin conns /\ ids[c] = {} /\ Touching(c) = {}
                      /\ \A i \in timers : owner[i] # c
    BY DEF ServedIsQuiet
  <2>1. c \notin conns /\ ids[c] = {} /\ Touching(c) = {}
    BY DEF QuietInv, LeaveInv
  <2>2. ASSUME NEW i \in timers, owner[i] = c PROVE FALSE
    <3>1. i \notin pending
      BY <2>1, <2>2 DEF QuietInv, HostInv, TableInv, TablesAgree
    <3>2. PICK d \in Conns : serve[d] = "record" /\ cur[d] = i
      BY <3>1 DEF QuietInv, HostInv, TableInv, TablesAgree, TimersAccounted
    <3>3. owner[i] = d
      BY <3>2 DEF QuietInv, HostInv, TypeInv, CurInv
    <3>4. QED
      BY <2>2, <3>2, <3>3
  <2>3. QED
    BY <2>1, <2>2
<1>2. QED
  BY <1>1, QuietInit, QuietStep, PTL DEF Spec

(* When Run stops waiting because every reply is done, every reply it handed off is.  *)
THEOREM HostFlushedIsWritten == Spec => []FlushedIsWritten
<1>1. QuietInv => FlushedIsWritten
  BY DEF QuietInv, FlushInv, FlushedIsWritten
<1>2. QED
  BY <1>1, QuietInit, QuietStep, PTL DEF Spec

----------------------------------------------------------------------------
(* The host keeps its contract *)

Entered(c) == serve[c] \notin {"none", "start"}

(* A timer fires once: it is idle while its request is about to arm it, and a request
   that nobody registered has none.  *)
TimerInv ==
  /\ \A i \in Ids : step[TimerT(i)] # "idle" => owner[i] # None
  /\ \A i \in timers : step[TimerT(i)] = "idle"
  /\ \A c \in Conns : serve[c] = "arm" => cur[c] \notin timers /\ step[TimerT(cur[c])] = "idle"

(* What serve(c) answers itself is a request of c, and forward() answers nothing
   before it returns; only registered requests were answered.  *)
RidInv ==
  /\ \A c \in Conns : /\ serve[c] \in Forwarding => step[ServeT(c)] = "idle"
                      /\ rid[c] # None => owner[rid[c]] = c
  /\ \A i \in got : owner[i] # None

(* Whoever closes a connection has cut it before it closes the socket, and a
   connection that was never registered is closed by nobody.  *)
CutInv ==
  /\ \A c \in victims : Entered(c)
  /\ Busy(Main) => Entered(cutting)
  /\ \A t \in Threads : step[t] \in {"shut", "mark"} => Target(t) \in CutConns
  /\ \A c \in Conns : closed[c] => c \in CutConns

PromiseInv == QuietInv /\ TimerInv /\ RidInv /\ CutInv

LEMMA PromiseInit == Init => PromiseInv
<1> SUFFICES ASSUME Init PROVE TimerInv /\ RidInv /\ CutInv BY QuietInit DEF PromiseInv
<1>1. \A t \in Threads : step[t] = "idle" BY DEF Init
<1>2. TimerInv BY <1>1, ThreadNames, HostAssumption DEF TimerInv, Init, ReplyThreads
<1>3. RidInv BY <1>1, ThreadNames, HostAssumption DEF RidInv, Init, Forwarding
<1>4. CutInv BY <1>1, ThreadNames DEF CutInv, Init, Busy
<1> QED BY <1>2, <1>3, <1>4

(* A request keeps the connection that issued it.  *)
LEMMA OwnerKept ==
  ASSUME TypeOK, [Next]_vars
  PROVE  \A i \in Ids : owner[i] # None => owner'[i] = owner[i]
<1>1. CASE \E c \in Conns, i \in Ids : Register(c, i) BY <1>1 DEF Register, TypeOK
<1>2. CASE \E c \in Conns : RecordStop(c) BY <1>2 DEF RecordStop
<1>3. CASE \E i \in pending : TakeLocked(i) BY <1>3 DEF TakeLocked
<1>4. CASE \E t \in Threads : DropRequests(t) BY <1>4 DEF DropRequests
<1> QED BY <1>1, <1>2, <1>3, <1>4, TableSteps

(* Where the host stands on a connection: the steps that move it.  *)
ServeMoves(c) ==
  \/ AcceptConn(c) \/ Enter(c) \/ BadLine(c) \/ ArmTimer(c) \/ RecordStop(c) \/ WriteCommand(c)
  \/ Refuse(c) \/ Drain(c) \/ ScanEnds(c) \/ Leave(c) \/ \E i \in Ids : Register(c, i)

LEMMA ServeSteps ==
  ASSUME [Next]_vars
  PROVE  UNCHANGED <<serve, cur>> \/ \E c \in Conns : ServeMoves(c)
<1> USE DEF table, perC, lockC, ext, run, loop, history
<1>1. CASE \E c \in Conns : CloseNext(c) BY <1>1 DEF CloseNext
<1>2. CASE \E i \in Ids : TimerFires(i) \/ Expire(i) \/ ClaimReply(i)
  BY <1>2 DEF TimerFires, Expire, ClaimReply
<1>3. CASE \E t \in ReplyThreads : BeginReply(t) \/ ReplyWritten(t) \/ ReplyFails(t)
  BY <1>3 DEF BeginReply, ReplyWritten, ReplyFails
<1>4. CASE \E t \in Threads : DropRequests(t) \/ CloseSocket(t) \/ MarkClosed(t)
  BY <1>4 DEF DropRequests, CloseSocket, MarkClosed
<1>5. CASE \/ AcquireSlot \/ AcceptError \/ ProbeFails \/ PumpEnds \/ Cancel \/ Select
           \/ AwaitReplies \/ Snapshot \/ Return \/ Exited \/ UNCHANGED vars
  BY <1>5 DEF AcquireSlot, AcceptError, ProbeFails, PumpEnds, Cancel, Select, AwaitReplies,
              Snapshot, Return, Exited, vars
<1> QED BY <1>1, <1>2, <1>3, <1>4, <1>5 DEF Next, ServeMoves

(* A registered connection stays registered or cut, and a cut one stays cut.  *)
LEMMA CutGrows ==
  ASSUME TypeOK, [Next]_vars
  PROVE  /\ \A c \in Conns : Entered(c) => Entered(c)'
         /\ CutConns \subseteq CutConns'
<1> USE DEF table, perC, lockC, ext, run, loop, history
<1>1. \A c \in Conns : Entered(c) => Entered(c)'
  <2>1. ASSUME NEW c \in Conns, AcceptConn(c) \/ Enter(c) \/ Leave(c) \/ Drain(c) \/ ScanEnds(c) \/ BadLine(c)
        PROVE  \A d \in Conns : Entered(d) => Entered(d)'
    BY <2>1 DEF AcceptConn, Enter, Leave, Drain, ScanEnds, BadLine, Entered, TypeOK
  <2>2. ASSUME NEW c \in Conns, \/ ArmTimer(c) \/ RecordStop(c) \/ WriteCommand(c) \/ Refuse(c)
                                \/ \E i \in Ids : Register(c, i)
        PROVE  \A d \in Conns : Entered(d) => Entered(d)'
    BY <2>2 DEF ArmTimer, RecordStop, WriteCommand, Refuse, Register, Forwarded, Entered, TypeOK
  <2> QED BY <2>1, <2>2, ServeSteps DEF ServeMoves, Entered
<1>2. ASSUME NEW c \in Conns, Entered(c) PROVE c \in conns' => c \in conns
  <2>1. ASSUME NEW d \in Conns, Enter(d) PROVE c \in conns' => c \in conns
    BY <1>2, <2>1 DEF Enter, Entered
  <2>2. CASE \E d \in Conns : \/ AcceptConn(d) \/ BadLine(d) \/ ArmTimer(d) \/ RecordStop(d)
                              \/ WriteCommand(d) \/ Refuse(d) \/ Drain(d) \/ ScanEnds(d) \/ Leave(d)
                              \/ CloseNext(d) \/ \E i \in Ids : Register(d, i)
    BY <2>2 DEF AcceptConn, BadLine, ArmTimer, RecordStop, WriteCommand, Refuse, TakeLocked, Drain,
                ScanEnds, Leave, CloseNext, Register
  <2>3. CASE \E i \in Ids : TimerFires(i) \/ Expire(i) \/ ClaimReply(i)
    BY <2>3 DEF TimerFires, Expire, ClaimReply, TakeLocked
  <2>4. CASE \E t \in ReplyThreads : BeginReply(t) \/ ReplyWritten(t) \/ ReplyFails(t)
    BY <2>4 DEF BeginReply, ReplyWritten, ReplyFails
  <2>5. CASE \E t \in Threads : DropRequests(t) \/ CloseSocket(t) \/ MarkClosed(t)
    BY <2>5 DEF DropRequests, CloseSocket, MarkClosed
  <2>6. CASE \/ AcquireSlot \/ AcceptError \/ ProbeFails \/ PumpEnds \/ Cancel \/ Select
             \/ AwaitReplies \/ Snapshot \/ Return \/ Exited \/ UNCHANGED vars
    BY <2>6 DEF AcquireSlot, AcceptError, ProbeFails, PumpEnds, Cancel, Select, AwaitReplies,
                Snapshot, Return, Exited, vars
  <2> QED BY <2>1, <2>2, <2>3, <2>4, <2>5, <2>6 DEF Next
<1> QED BY <1>1, <1>2 DEF CutConns, Entered

(* Where a timer callback stands.  *)
LEMMA TimerPlace ==
  ASSUME TypeOK, [Next]_vars, NEW i \in Ids, step'[TimerT(i)] # step[TimerT(i)]
  PROVE  TimerFires(i) \/ step[TimerT(i)] # "idle"
<1> USE DEF table, perC, lockC, ext, run, loop, history
<1>1. TimerT(i) \in ReplyThreads /\ TimerT(i) \in Threads /\ TimerT(i) \notin ServeThreads
      /\ TimerT(i) # Main /\ TimerT(i)[2] = i
  BY ThreadNames
<1>2. ASSUME NEW t \in Threads, t # TimerT(i), step' = step \/ \E s : step' = [step EXCEPT ![t] = s]
      PROVE  FALSE
  BY <1>1, <1>2 DEF TypeOK
<1>3. CASE \E c \in Conns : BadLine(c) \/ Refuse(c) \/ ScanEnds(c)
  <2>1. PICK c \in Conns : BadLine(c) \/ Refuse(c) \/ ScanEnds(c) BY <1>3
  <2>2. ServeT(c) \in Threads /\ ServeT(c) # TimerT(i) BY ThreadNames
  <2>3. step' = step \/ \E s : step' = [step EXCEPT ![ServeT(c)] = s]
    BY <2>1 DEF BadLine, Refuse, ScanEnds
  <2> QED BY <1>2, <2>2, <2>3
<1>4. CASE \E c \in Conns : \/ AcceptConn(c) \/ Enter(c) \/ ArmTimer(c) \/ RecordStop(c)
                            \/ WriteCommand(c) \/ Drain(c) \/ Leave(c) \/ \E j \in Ids : Register(c, j)
  BY <1>4 DEF AcceptConn, Enter, ArmTimer, RecordStop, WriteCommand, Drain, Leave, Register
<1>5. CASE \E c \in Conns : CloseNext(c) BY <1>1, <1>2, <1>5, ThreadNames DEF CloseNext
<1>6. CASE \E j \in Ids : TimerFires(j) \/ Expire(j) \/ ClaimReply(j)
  <2>1. PICK j \in Ids : TimerFires(j) \/ Expire(j) \/ ClaimReply(j) BY <1>6
  <2>2. CASE ClaimReply(j)
    <3>1. PumpT(j) \in Threads /\ PumpT(j) # TimerT(i) BY ThreadNames
    <3>2. \E s : step' = [step EXCEPT ![PumpT(j)] = s] BY <2>2 DEF ClaimReply
    <3> QED BY <1>2, <3>1, <3>2
  <2>3. CASE j # i /\ (TimerFires(j) \/ Expire(j))
    <3>1. TimerT(j) \in Threads /\ TimerT(j) # TimerT(i) BY <2>3, ThreadNames DEF TimerT
    <3>2. \E s : step' = [step EXCEPT ![TimerT(j)] = s] BY <2>3 DEF TimerFires, Expire
    <3> QED BY <1>2, <3>1, <3>2
  <2>4. CASE j = i /\ Expire(j) BY <2>4 DEF Expire
  <2> QED BY <2>1, <2>2, <2>3, <2>4
<1>7. CASE \E t \in ReplyThreads : BeginReply(t) \/ ReplyWritten(t) \/ ReplyFails(t)
  <2>1. PICK t \in ReplyThreads : BeginReply(t) \/ ReplyWritten(t) \/ ReplyFails(t) BY <1>7
  <2>2. step[t] # "idle" /\ t \in Threads
    BY <2>1, ThreadNames DEF BeginReply, ReplyWritten, ReplyFails
  <2>3. \E s : step' = [step EXCEPT ![t] = s]
    BY <2>1 DEF BeginReply, ReplyWritten, ReplyFails, Finished
  <2> QED BY <1>2, <2>2, <2>3
<1>8. CASE \E t \in Threads : DropRequests(t) \/ CloseSocket(t) \/ MarkClosed(t)
  <2>1. PICK t \in Threads : DropRequests(t) \/ CloseSocket(t) \/ MarkClosed(t) BY <1>8
  <2>2. step[t] # "idle"
    BY <2>1 DEF DropRequests, CloseSocket, MarkClosed
  <2>3. \E s : step' = [step EXCEPT ![t] = s]
    BY <2>1 DEF DropRequests, CloseSocket, MarkClosed, Finished
  <2> QED BY <1>2, <2>2, <2>3
<1>9. CASE \/ AcquireSlot \/ AcceptError \/ ProbeFails \/ PumpEnds \/ Cancel \/ Select
           \/ AwaitReplies \/ Snapshot \/ Return \/ Exited \/ UNCHANGED vars
  BY <1>9 DEF AcquireSlot, AcceptError, ProbeFails, PumpEnds, Cancel, Select, AwaitReplies,
              Snapshot, Return, Exited, vars
<1> QED BY <1>3, <1>4, <1>5, <1>6, <1>7, <1>8, <1>9 DEF Next

(* A live timer was armed, and its request is past the point where it is.  *)
LEMMA TimerArmed ==
  ASSUME PromiseInv, NEW i \in timers
  PROVE  i \in Ids /\ owner[i] # None
<1>1. i \in Ids BY DEF PromiseInv, QuietInv, HostInv, TypeInv, TypeOK
<1>2. CASE i \in stoppable
  <2>1. TableInv BY DEF PromiseInv, QuietInv, HostInv
  <2>2. owner[i] \in Conns BY <1>2, <2>1 DEF TableInv, TablesAgree, OwnerInv
  <2> QED BY <1>1, <2>2, HostAssumption
<1>3. CASE \E c \in Conns : serve[c] = "record" /\ cur[c] = i
  BY <1>3, HostAssumption DEF PromiseInv, QuietInv, HostInv, TypeInv, CurInv
<1> QED BY <1>1, <1>2, <1>3 DEF PromiseInv, QuietInv, HostInv, TimersAccounted

LEMMA TimerInvStep == ASSUME PromiseInv, [Next]_vars PROVE TimerInv'
<1> USE DEF table, perC, lockC, ext, run, loop, history
<1>0. TypeOK /\ TimerInv /\ CurInv BY DEF PromiseInv, QuietInv, HostInv, TypeInv
<1>1. \A i \in Ids : owner[i] # None => owner'[i] = owner[i] BY <1>0, OwnerKept
<1>2. ASSUME NEW i \in Ids, TimerFires(i) PROVE TimerInv'
  <2>1. /\ i \in timers /\ timers' = timers \ {i} /\ UNCHANGED <<owner, serve, cur>>
        /\ step' = [step EXCEPT ![TimerT(i)] = "take"]
    BY <1>2 DEF TimerFires
  <2>2. owner[i] # None BY <2>1, TimerArmed
  <2>3. \A j \in Ids : j # i => step'[TimerT(j)] = step[TimerT(j)]
    BY <1>0, <2>1, ThreadNames DEF TypeOK, TimerT
  <2>4. \A c \in Conns : serve[c] = "arm" => cur[c] # i /\ cur[c] \in Ids
    BY <1>0, <2>1 DEF TimerInv, CurInv
  <2>5. timers' \subseteq Ids BY <1>0, <2>1 DEF TypeOK
  <2> QED BY <1>0, <2>1, <2>2, <2>3, <2>4, <2>5 DEF TimerInv, TimerT
<1>3. ASSUME NEW c \in Conns, ArmTimer(c) PROVE TimerInv'
  <2>1. /\ serve[c] = "arm" /\ timers' = timers \cup {cur[c]} /\ UNCHANGED <<owner, cur, step>>
        /\ serve' = [serve EXCEPT ![c] = "record"]
    BY <1>3 DEF ArmTimer
  <2>2. \A d \in Conns : serve'[d] = "arm" => serve[d] = "arm" /\ d # c
    BY <1>0, <2>1 DEF TypeOK
  <2>3. \A d \in Conns : serve'[d] = "arm" => cur[d] # cur[c]
    BY <1>0, <2>1, <2>2 DEF CurInv
  <2> QED BY <1>0, <2>1, <2>2, <2>3 DEF TimerInv, TimerT
<1>4. ASSUME NEW c \in Conns, NEW i \in Ids, Register(c, i) PROVE TimerInv'
  <2>1. /\ owner[i] = None /\ cur' = [cur EXCEPT ![c] = i] /\ UNCHANGED <<timers, step>>
        /\ serve' = [serve EXCEPT ![c] = "arm"]
    BY <1>4 DEF Register
  <2>2. i \notin timers /\ step[TimerT(i)] = "idle" BY <1>0, <2>1, TimerArmed DEF TimerInv
  <2>3. ASSUME NEW d \in Conns, serve'[d] = "arm"
        PROVE  cur'[d] \notin timers /\ step[TimerT(cur'[d])] = "idle"
    <3>1. CASE d = c BY <1>0, <2>1, <2>2, <3>1 DEF TypeOK
    <3>2. CASE d # c BY <1>0, <2>1, <2>3, <3>2 DEF TypeOK, TimerInv
    <3> QED BY <3>1, <3>2
  <2>4. \A j \in Ids : step[TimerT(j)] # "idle" => owner'[j] # None BY <1>0, <1>1 DEF TimerInv
  <2> QED BY <1>0, <2>1, <2>3, <2>4 DEF TimerInv, TimerT
<1>5. ASSUME \A i \in Ids : ~TimerFires(i), \A c \in Conns : ~ArmTimer(c),
             \A c \in Conns, i \in Ids : ~Register(c, i)
      PROVE  TimerInv'
  <2>1. \A i \in Ids : step'[TimerT(i)] # step[TimerT(i)] => step[TimerT(i)] # "idle"
    BY <1>0, <1>5, TimerPlace
  <2>2. timers' \subseteq timers
    <3>1. CASE \E c \in Conns : \/ AcceptConn(c) \/ Enter(c) \/ BadLine(c) \/ RecordStop(c)
                                \/ WriteCommand(c) \/ Refuse(c) \/ Drain(c) \/ ScanEnds(c) \/ Leave(c)
                                \/ CloseNext(c)
      BY <3>1 DEF AcceptConn, Enter, BadLine, RecordStop, WriteCommand, Refuse, TakeLocked, Drain,
                  ScanEnds, Leave, CloseNext
    <3>2. CASE \E i \in Ids : Expire(i) \/ ClaimReply(i) BY <3>2 DEF Expire, ClaimReply, TakeLocked
    <3>3. CASE \E t \in ReplyThreads : BeginReply(t) \/ ReplyWritten(t) \/ ReplyFails(t)
      BY <3>3 DEF BeginReply, ReplyWritten, ReplyFails
    <3>4. CASE \E t \in Threads : DropRequests(t) \/ CloseSocket(t) \/ MarkClosed(t)
      BY <3>4 DEF DropRequests, CloseSocket, MarkClosed
    <3>5. CASE \/ AcquireSlot \/ AcceptError \/ ProbeFails \/ PumpEnds \/ Cancel \/ Select
               \/ AwaitReplies \/ Snapshot \/ Return \/ Exited \/ UNCHANGED vars
      BY <3>5 DEF AcquireSlot, AcceptError, ProbeFails, PumpEnds, Cancel, Select, AwaitReplies,
                  Snapshot, Return, Exited, vars
    <3> QED BY <1>5, <3>1, <3>2, <3>3, <3>4, <3>5 DEF Next
  <2>3. \A c \in Conns : serve'[c] = "arm" => serve[c] = "arm" /\ cur'[c] = cur[c]
    <3>1. ASSUME NEW c \in Conns, \/ AcceptConn(c) \/ Enter(c) \/ BadLine(c) \/ RecordStop(c)
                                  \/ WriteCommand(c) \/ Refuse(c) \/ Drain(c) \/ ScanEnds(c) \/ Leave(c)
          PROVE  \A d \in Conns : serve'[d] = "arm" => serve[d] = "arm" /\ cur'[d] = cur[d]
      BY <1>0, <3>1 DEF AcceptConn, Enter, BadLine, RecordStop, WriteCommand, Refuse, Forwarded,
                        Drain, ScanEnds, Leave, TypeOK
    <3> QED BY <1>5, <3>1, ServeSteps DEF ServeMoves
  <2>4. \A i \in Ids : step[TimerT(i)] = "idle" => step'[TimerT(i)] = "idle" BY <2>1
  <2>5. \A i \in Ids : step'[TimerT(i)] # "idle" => owner'[i] # None
    BY <1>0, <1>1, <2>4 DEF TimerInv
  <2>6. timers \subseteq Ids /\ \A c \in Conns : serve[c] = "arm" => cur[c] \in Ids
    BY <1>0 DEF TypeOK, CurInv
  <2> QED BY <1>0, <2>2, <2>3, <2>4, <2>5, <2>6 DEF TimerInv, TimerT
<1> QED BY <1>2, <1>3, <1>4, <1>5

(* A thread that is busy with a request works on the connection that issued it.  *)
LEMMA RequestOwner ==
  ASSUME PromiseInv, NEW t \in ReplyThreads, Busy(t), RequestOf(t) # None
  PROVE  /\ RequestOf(t) \in Ids /\ Target(t) \in Conns
         /\ owner[RequestOf(t)] = Target(t) /\ owner[RequestOf(t)] # None
<1>1. TypeOK /\ TargetInv /\ RidInv BY DEF PromiseInv, QuietInv, HostInv, TypeInv
<1>2. t \in Threads /\ t # Main BY ThreadNames
<1>3. Target(t) \in Conns BY <1>1, <1>2, TargetType
<1>4. RequestOf(t) \in Ids BY <1>1, <1>2, RequestType
<1>5. owner[RequestOf(t)] = Target(t)
  <2>1. CASE t \in ServeThreads BY <1>1, <2>1, ThreadNames DEF RidInv, RequestOf, Target
  <2>2. CASE t \notin ServeThreads BY <1>2, <2>2 DEF RequestOf, Target
  <2> QED BY <2>1, <2>2
<1> QED BY <1>3, <1>4, <1>5, HostAssumption

RidKept(c) ==
  /\ serve'[c] \in Forwarding => step'[ServeT(c)] = "idle"
  /\ rid'[c] # None => owner'[rid'[c]] = c

(* serve(c) leaves forward() before it replies or closes, and answers its own requests.  *)
LEMMA RidInvStep == ASSUME PromiseInv, [Next]_vars PROVE RidInv'
<1> USE DEF table, perC, lockC, ext, run, loop, history
<1>0. TypeOK /\ RidInv /\ CurInv BY DEF PromiseInv, QuietInv, HostInv, TypeInv
<1>1. \A i \in Ids : owner[i] # None => owner'[i] = owner[i] BY <1>0, OwnerKept
<1>2. \A c \in Conns : ServeT(c) \in Threads /\ \A d \in Conns : ServeT(c) = ServeT(d) => c = d
  BY ThreadNames DEF ServeT
<1>3. got' \subseteq Ids /\ \A i \in got' : owner'[i] # None
  <2>1. ASSUME NEW t \in ReplyThreads, ReplyWritten(t)
        PROVE  got' \subseteq Ids /\ \A i \in got' : owner'[i] # None
    <3>1. got' = got \cup ({RequestOf(t)} \ {None}) /\ owner' = owner /\ Busy(t)
      BY <2>1 DEF ReplyWritten, Busy
    <3>2. RequestOf(t) # None => RequestOf(t) \in Ids /\ owner[RequestOf(t)] # None
      BY <3>1, RequestOwner
    <3> QED BY <1>0, <3>1, <3>2 DEF RidInv, TypeOK
  <2>2. CASE got' = got BY <1>0, <1>1, <2>2 DEF RidInv, TypeOK
  <2>3. CASE \E c \in Conns : ServeMoves(c) \/ CloseNext(c)
    <3>1. got' = got
      BY <2>3 DEF ServeMoves, AcceptConn, Enter, BadLine, ArmTimer, RecordStop, WriteCommand, Refuse,
                  Drain, ScanEnds, Leave, Register, CloseNext
    <3> QED BY <2>2, <3>1
  <2>4. CASE \E i \in Ids : TimerFires(i) \/ Expire(i) \/ ClaimReply(i)
    BY <2>2, <2>4 DEF TimerFires, Expire, ClaimReply
  <2>5. CASE \E t \in ReplyThreads : BeginReply(t) \/ ReplyFails(t)
    BY <2>2, <2>5 DEF BeginReply, ReplyFails
  <2>6. CASE \E t \in Threads : DropRequests(t) \/ CloseSocket(t) \/ MarkClosed(t)
    BY <2>2, <2>6 DEF DropRequests, CloseSocket, MarkClosed
  <2>7. CASE \/ AcquireSlot \/ AcceptError \/ ProbeFails \/ PumpEnds \/ Cancel \/ Select
             \/ AwaitReplies \/ Snapshot \/ Return \/ Exited \/ UNCHANGED vars
    BY <2>2, <2>7 DEF AcquireSlot, AcceptError, ProbeFails, PumpEnds, Cancel, Select, AwaitReplies,
                Snapshot, Return, Exited, vars
  <2> QED BY <2>1, <2>3, <2>4, <2>5, <2>6, <2>7 DEF Next, ServeMoves
<1> SUFFICES \A c \in Conns : RidKept(c) BY <1>3 DEF RidInv, RidKept, ServeT
<1>4. ASSUME NEW c \in Conns, rid'[c] = rid[c] \/ rid'[c] = None,
             serve'[c] \in Forwarding => step'[ServeT(c)] = "idle"
      PROVE  RidKept(c)
  <2>1. CASE rid'[c] = None BY <1>4, <2>1 DEF RidKept
  <2>2. CASE rid'[c] # None
    <3>1. rid[c] \in Ids /\ owner[rid[c]] = c /\ c # None
      BY <1>0, <1>4, <2>2, HostAssumption DEF RidInv, TypeOK
    <3> QED BY <1>1, <1>4, <2>2, <3>1 DEF RidKept
  <2> QED BY <2>1, <2>2
<1>5. ASSUME UNCHANGED <<serve, step, rid>> PROVE \A c \in Conns : RidKept(c)
  <2> SUFFICES ASSUME NEW c \in Conns PROVE RidKept(c) OBVIOUS
  <2>1. serve[c] \in Forwarding => step[ServeT(c)] = "idle" BY <1>0 DEF RidInv
  <2> QED BY <1>4, <1>5, <2>1
<1>6. CASE \E c \in Conns : ServeMoves(c)
  <2>1. PICK c \in Conns : ServeMoves(c) BY <1>6
  <2>2. \A d \in Conns : d # c => /\ serve'[d] = serve[d] /\ rid'[d] = rid[d]
                                 /\ step'[ServeT(d)] = step[ServeT(d)]
    <3>1. CASE \/ AcceptConn(c) \/ Enter(c) \/ ArmTimer(c) \/ RecordStop(c) \/ Drain(c)
               \/ Leave(c) \/ WriteCommand(c) \/ \E i \in Ids : Register(c, i)
      BY <1>0, <3>1 DEF AcceptConn, Enter, ArmTimer, RecordStop, Drain, Leave, WriteCommand, Forwarded,
                        Register, TypeOK
    <3>2. CASE BadLine(c) \/ ScanEnds(c) \/ Refuse(c)
      BY <1>0, <1>2, <3>2 DEF BadLine, ScanEnds, Refuse, Forwarded, TypeOK
    <3> QED BY <2>1, <3>1, <3>2 DEF ServeMoves
  <2>3. \A d \in Conns : d # c => RidKept(d)
    <3>1. \A d \in Conns : serve[d] \in Forwarding => step[ServeT(d)] = "idle" BY <1>0 DEF RidInv
    <3> QED BY <1>4, <2>2, <3>1
  <2>4. RidKept(c)
    <3>1. CASE \/ AcceptConn(c) \/ Enter(c) \/ ArmTimer(c) \/ RecordStop(c) \/ Drain(c)
               \/ Leave(c) \/ WriteCommand(c) \/ \E i \in Ids : Register(c, i)
      <4>1. rid' = rid /\ step' = step
        BY <3>1 DEF AcceptConn, Enter, ArmTimer, RecordStop, Drain, Leave, WriteCommand, Register
      <4>2. serve'[c] \in Forwarding => serve[c] \in Forwarding \/ step[ServeT(c)] = "idle"
        BY <1>0, <3>1 DEF AcceptConn, Enter, ArmTimer, RecordStop, Drain, Leave, WriteCommand, Forwarded,
                          Register, Serving, Forwarding, TypeOK
      <4>3. serve[c] \in Forwarding => step[ServeT(c)] = "idle" BY <1>0 DEF RidInv
      <4> QED BY <1>4, <4>1, <4>2, <4>3
    <3>2. CASE BadLine(c) \/ ScanEnds(c)
      <4>1. rid'[c] = None /\ serve'[c] \notin Forwarding
        BY <1>0, <3>2 DEF BadLine, ScanEnds, TypeOK, Forwarding
      <4> QED BY <1>4, <4>1
    <3>3. CASE Refuse(c)
      <4>1. serve'[c] \notin Forwarding /\ cur[c] \in Ids /\ owner[cur[c]] = c /\ c # None
        BY <1>0, <3>3, HostAssumption DEF Refuse, Forwarded, TypeOK, Forwarding, CurInv
      <4>2. CASE cur[c] \in pending
        <5>1. rid'[c] = cur[c] BY <1>0, <3>3, <4>2 DEF Refuse, TypeOK
        <5> QED BY <1>1, <4>1, <5>1 DEF RidKept
      <4>3. CASE cur[c] \notin pending
        <5>1. rid' = rid BY <3>3, <4>3 DEF Refuse
        <5> QED BY <1>4, <4>1, <5>1
      <4> QED BY <4>2, <4>3
    <3> QED BY <2>1, <3>1, <3>2, <3>3 DEF ServeMoves
  <2> QED BY <2>3, <2>4
<1>7. ASSUME NEW t \in Threads, step[t] # "idle", serve' = serve, Finished(t) \/ rid' = rid,
             Finished(t) \/ \A u \in Threads : u # t => step'[u] = step[u]
      PROVE  \A c \in Conns : RidKept(c)
  <2> SUFFICES ASSUME NEW c \in Conns PROVE RidKept(c) OBVIOUS
  <2>1. rid'[c] = rid[c] \/ rid'[c] = None
    BY <1>0, <1>7, ThreadNames DEF Finished, TypeOK
  <2>2. \A u \in Threads : u # t => step'[u] = step[u] BY <1>0, <1>7 DEF Finished, TypeOK
  <2>3. serve'[c] \in Forwarding => step'[ServeT(c)] = "idle"
    <3> SUFFICES ASSUME serve[c] \in Forwarding PROVE step'[ServeT(c)] = "idle" BY <1>7
    <3>1. step[ServeT(c)] = "idle" BY <1>0 DEF RidInv
    <3> QED BY <1>2, <1>7, <2>2, <3>1
  <2> QED BY <1>4, <2>1, <2>3
<1>8. CASE \E i \in Ids : TimerFires(i) \/ Expire(i) \/ ClaimReply(i)
  <2>1. UNCHANGED <<serve, rid>> BY <1>8 DEF TimerFires, Expire, ClaimReply
  <2>2. \A c \in Conns : step'[ServeT(c)] = step[ServeT(c)]
    BY <1>0, <1>2, <1>8, ThreadNames DEF TimerFires, Expire, ClaimReply, TypeOK
  <2>3. \A c \in Conns : serve[c] \in Forwarding => step[ServeT(c)] = "idle" BY <1>0 DEF RidInv
  <2> QED BY <1>4, <2>1, <2>2, <2>3
<1>9. CASE \E t \in ReplyThreads : BeginReply(t) \/ ReplyWritten(t) \/ ReplyFails(t)
  <2>1. PICK t \in ReplyThreads : BeginReply(t) \/ ReplyWritten(t) \/ ReplyFails(t) BY <1>9
  <2>2. /\ t \in Threads /\ step[t] # "idle" /\ serve' = serve
        /\ Finished(t) \/ (rid' = rid /\ \A u \in Threads : u # t => step'[u] = step[u])
    BY <1>0, <2>1, ThreadNames DEF BeginReply, ReplyWritten, ReplyFails, TypeOK
  <2> QED BY <1>7, <2>2
<1>10. CASE \E t \in Threads : DropRequests(t) \/ CloseSocket(t) \/ MarkClosed(t)
  <2>1. PICK t \in Threads : DropRequests(t) \/ CloseSocket(t) \/ MarkClosed(t) BY <1>10
  <2>2. /\ step[t] # "idle" /\ serve' = serve
        /\ Finished(t) \/ (rid' = rid /\ \A u \in Threads : u # t => step'[u] = step[u])
    BY <1>0, <2>1 DEF DropRequests, CloseSocket, MarkClosed, TypeOK
  <2> QED BY <1>7, <2>2
<1>11. CASE \E c \in Conns : CloseNext(c)
  <2>1. UNCHANGED <<serve, rid>> /\ step' = [step EXCEPT ![Main] = "drop"] BY <1>11 DEF CloseNext
  <2>2. \A c \in Conns : step'[ServeT(c)] = step[ServeT(c)] BY <1>0, <1>2, <2>1, ThreadNames DEF TypeOK
  <2>3. \A c \in Conns : serve[c] \in Forwarding => step[ServeT(c)] = "idle" BY <1>0 DEF RidInv
  <2> QED BY <1>4, <2>1, <2>2, <2>3
<1>12. CASE \/ AcquireSlot \/ AcceptError \/ ProbeFails \/ PumpEnds \/ Cancel \/ Select
            \/ AwaitReplies \/ Snapshot \/ Return \/ Exited \/ UNCHANGED vars
  <2>1. UNCHANGED <<serve, step, rid>>
    BY <1>12 DEF AcquireSlot, AcceptError, ProbeFails, PumpEnds, Cancel, Select, AwaitReplies,
                Snapshot, Return, Exited, vars
  <2> QED BY <1>5, <2>1
<1> QED
  BY <1>6, <1>8, <1>9, <1>10, <1>11, <1>12 DEF Next, ServeMoves

(* A thread gets behind the s.mu section of closeClient through it.  *)
LEMMA ShutPlace ==
  ASSUME TypeOK, [Next]_vars, NEW t \in Threads, step'[t] \in {"shut", "mark"}
  PROVE  step[t] \in {"shut", "mark"} \/ DropRequests(t)
<1> USE DEF table, perC, lockC, ext, run, loop, history
<1>1. ASSUME NEW u \in Threads, NEW s \in {"take", "ready", "writing", "drop", "idle"},
             step' = [step EXCEPT ![u] = s]
      PROVE  step[t] \in {"shut", "mark"}
  BY <1>1 DEF TypeOK
<1>2. CASE \E c \in Conns : BadLine(c) \/ Refuse(c) \/ ScanEnds(c) \/ CloseNext(c)
  <2>1. CASE step' = step BY <2>1
  <2>2. CASE step' # step
    BY <1>1, <1>2, <2>2, ThreadNames DEF BadLine, Refuse, ScanEnds, CloseNext, ReplyThreads
  <2> QED BY <2>1, <2>2
<1>3. CASE \E i \in Ids : TimerFires(i) \/ Expire(i) \/ ClaimReply(i)
  <2>1. \A i \in Ids : TimerT(i) \in Threads /\ PumpT(i) \in Threads BY ThreadNames
  <2> QED BY <1>1, <1>3, <2>1 DEF TimerFires, Expire, ClaimReply
<1>4. CASE \E u \in ReplyThreads : BeginReply(u) \/ ReplyWritten(u) \/ ReplyFails(u)
  <2>1. PICK u \in ReplyThreads : BeginReply(u) \/ ReplyWritten(u) \/ ReplyFails(u) BY <1>4
  <2>2. u \in Threads BY ThreadNames
  <2>3. \E s \in {"idle", "writing", "drop"} : step' = [step EXCEPT ![u] = s]
    BY <2>1 DEF BeginReply, ReplyWritten, ReplyFails, Finished
  <2> QED BY <1>1, <2>2, <2>3
<1>5. CASE \E u \in Threads : DropRequests(u) \/ CloseSocket(u) \/ MarkClosed(u)
  BY <1>5 DEF DropRequests, CloseSocket, MarkClosed, Finished, TypeOK
<1>6. CASE \E c \in Conns : \/ AcceptConn(c) \/ Enter(c) \/ ArmTimer(c) \/ RecordStop(c)
                            \/ WriteCommand(c) \/ Drain(c) \/ Leave(c) \/ \E j \in Ids : Register(c, j)
  BY <1>6 DEF AcceptConn, Enter, ArmTimer, RecordStop, WriteCommand, Drain, Leave, Register
<1>7. CASE \/ AcquireSlot \/ AcceptError \/ ProbeFails \/ PumpEnds \/ Cancel \/ Select
           \/ AwaitReplies \/ Snapshot \/ Return \/ Exited \/ UNCHANGED vars
  BY <1>7 DEF AcquireSlot, AcceptError, ProbeFails, PumpEnds, Cancel, Select, AwaitReplies,
              Snapshot, Return, Exited, vars
<1> QED BY <1>2, <1>3, <1>4, <1>5, <1>6, <1>7 DEF Next

(* What closeClients is about to close and is closing.  *)
LEMMA VictimSteps ==
  ASSUME TypeOK, [Next]_vars
  PROVE  \/ Snapshot
         \/ \E c \in Conns : CloseNext(c)
         \/ MarkClosed(Main) /\ UNCHANGED victims
         \/ UNCHANGED <<victims, cutting>> /\ (Busy(Main)' => Busy(Main))
<1> USE DEF table, perC, lockC, ext, run, loop, history
<1>1. Main \in Threads /\ \A t \in Threads : t \in ReplyThreads \/ t = Main
  BY ThreadNames DEF Threads
<1>2. CASE \E c \in Conns : BadLine(c) \/ Refuse(c) \/ ScanEnds(c)
  <2>1. PICK c \in Conns : BadLine(c) \/ Refuse(c) \/ ScanEnds(c) BY <1>2
  <2>2. ServeT(c) # Main BY ThreadNames
  <2> QED BY <2>1, <2>2, <1>1 DEF BadLine, Refuse, ScanEnds, TypeOK, Busy
<1>3. CASE \E i \in Ids : TimerFires(i) \/ Expire(i) \/ ClaimReply(i)
  <2>1. \A i \in Ids : TimerT(i) # Main /\ PumpT(i) # Main BY ThreadNames
  <2> QED BY <1>1, <1>3, <2>1 DEF TimerFires, Expire, ClaimReply, TypeOK, Busy
<1>4. CASE \E t \in ReplyThreads : BeginReply(t) \/ ReplyWritten(t) \/ ReplyFails(t)
  <2>1. \A t \in ReplyThreads : t # Main BY ThreadNames
  <2> QED BY <1>1, <1>4, <2>1 DEF BeginReply, ReplyWritten, ReplyFails, Finished, TypeOK, Busy
<1>5. CASE \E t \in Threads : DropRequests(t) \/ CloseSocket(t)
  BY <1>1, <1>5 DEF DropRequests, CloseSocket, TypeOK, Busy
<1>6. CASE \E t \in Threads : MarkClosed(t)
  <2>1. PICK t \in Threads : MarkClosed(t) BY <1>6
  <2>2. UNCHANGED victims BY <2>1 DEF MarkClosed
  <2>3. CASE t = Main BY <2>1, <2>2, <2>3
  <2>4. CASE t # Main
    <3>1. cutting' = cutting /\ step' = [step EXCEPT ![t] = "idle"]
      BY <2>1, <2>4 DEF MarkClosed, Finished
    <3>2. step'[Main] = step[Main] BY <1>1, <2>4, <3>1 DEF TypeOK
    <3> QED BY <2>2, <3>1, <3>2 DEF Busy, Main
  <2> QED BY <2>3, <2>4
<1>7. CASE \E c \in Conns : \/ AcceptConn(c) \/ Enter(c) \/ ArmTimer(c) \/ RecordStop(c)
                            \/ WriteCommand(c) \/ Drain(c) \/ Leave(c) \/ \E j \in Ids : Register(c, j)
  BY <1>7 DEF AcceptConn, Enter, ArmTimer, RecordStop, WriteCommand, Drain, Leave, Register, Busy
<1>8. CASE \/ AcquireSlot \/ AcceptError \/ ProbeFails \/ PumpEnds \/ Cancel \/ Select
           \/ AwaitReplies \/ Return \/ Exited \/ UNCHANGED vars
  BY <1>8 DEF AcquireSlot, AcceptError, ProbeFails, PumpEnds, Cancel, Select, AwaitReplies,
              Return, Exited, vars, Busy
<1> QED BY <1>2, <1>3, <1>4, <1>5, <1>6, <1>7, <1>8 DEF Next

(* closed is set by whoever ends a closeClient.  *)
LEMMA ClosedSteps ==
  ASSUME [Next]_vars
  PROVE  closed' = closed \/ \E t \in Threads : MarkClosed(t)
<1> USE DEF table, perC, lockC, ext, run, loop, history
<1>1. CASE \E c \in Conns : ServeMoves(c) \/ CloseNext(c)
  BY <1>1 DEF ServeMoves, AcceptConn, Enter, BadLine, ArmTimer, RecordStop, WriteCommand, Refuse,
              Drain, ScanEnds, Leave, Register, CloseNext
<1>2. CASE \E i \in Ids : TimerFires(i) \/ Expire(i) \/ ClaimReply(i)
  BY <1>2 DEF TimerFires, Expire, ClaimReply
<1>3. CASE \E t \in ReplyThreads : BeginReply(t) \/ ReplyWritten(t) \/ ReplyFails(t)
  BY <1>3 DEF BeginReply, ReplyWritten, ReplyFails
<1>4. CASE \E t \in Threads : DropRequests(t) \/ CloseSocket(t) BY <1>4 DEF DropRequests, CloseSocket
<1>5. CASE \/ AcquireSlot \/ AcceptError \/ ProbeFails \/ PumpEnds \/ Cancel \/ Select
           \/ AwaitReplies \/ Snapshot \/ Return \/ Exited \/ UNCHANGED vars
  BY <1>5 DEF AcquireSlot, AcceptError, ProbeFails, PumpEnds, Cancel, Select, AwaitReplies,
              Snapshot, Return, Exited, vars
<1> QED BY <1>1, <1>2, <1>3, <1>4, <1>5 DEF Next, ServeMoves

(* The connection a closing thread has cut.  *)
LEMMA DropCuts ==
  ASSUME PromiseInv, NEW t \in Threads, DropRequests(t)
  PROVE  /\ Target(t) \in Conns /\ Entered(Target(t))
         /\ CutConns' = CutConns \cup {Target(t)}
<1>1. TypeOK /\ TargetInv /\ CutInv /\ LeaveInv BY DEF PromiseInv, QuietInv, HostInv, TypeInv
<1>2. step[t] = "drop" /\ Busy(t) BY DEF DropRequests, Busy
<1>3. Target(t) \in Conns BY <1>1, <1>2, TargetType
<1>4. Entered(Target(t))
  <2>1. CASE t = Main BY <1>1, <1>2, <2>1, ThreadNames DEF CutInv, Target
  <2>2. CASE t \in ServeThreads
    <3>1. t = ServeT(t[2]) /\ Target(t) = t[2] BY <2>2, ThreadNames DEF Target
    <3> QED BY <1>1, <1>2, <1>3, <3>1 DEF LeaveInv, Entered
  <2>3. CASE t \in TimerThreads \cup PumpThreads
    <3>1. t[2] \in Ids /\ Target(t) = owner[t[2]] BY <2>3, ThreadNames DEF Target, ReplyThreads
    <3> QED BY <1>1, <1>3, <3>1 DEF LeaveInv, Entered
  <2> QED BY <2>1, <2>2, <2>3, ThreadNames
<1>5. serve' = serve /\ conns' = conns \ {Target(t)} BY DEF DropRequests, perC
<1> QED BY <1>3, <1>4, <1>5 DEF CutConns, Entered

LEMMA CutInvStep == ASSUME PromiseInv, [Next]_vars PROVE CutInv'
<1> USE DEF table, perC, lockC, ext, run, loop, history
<1>0. TypeOK /\ CutInv /\ LeaveInv /\ TargetInv BY DEF PromiseInv, QuietInv, HostInv, TypeInv
<1>1. /\ \A c \in Conns : Entered(c) => Entered(c)'
      /\ CutConns \subseteq CutConns'
  BY <1>0, CutGrows
<1>2. conns \subseteq Conns /\ victims \subseteq Conns BY <1>0 DEF TypeOK
<1>3. (\A c \in victims : Entered(c))'
  <2>1. CASE Snapshot
    <3>1. victims' = conns BY <2>1 DEF Snapshot
    <3>2. \A c \in conns : Entered(c) BY <1>0, <1>2 DEF LeaveInv, Entered
    <3> QED BY <1>1, <1>2, <3>1, <3>2
  <2>2. CASE victims' \subseteq victims BY <1>0, <1>1, <1>2, <2>2 DEF CutInv
  <2>3. CASE \E c \in Conns : CloseNext(c) BY <2>2, <2>3 DEF CloseNext
  <2> QED BY <1>0, <2>1, <2>2, <2>3, VictimSteps
<1>4. (Busy(Main) => Entered(cutting))'
  <2>1. CASE Snapshot
    <3>1. UNCHANGED <<step, cutting, serve>> BY <2>1 DEF Snapshot
    <3> QED BY <1>0, <3>1 DEF CutInv, Busy, Entered
  <2>2. CASE \E c \in Conns : CloseNext(c)
    <3>1. cutting' \in victims /\ serve' = serve BY <2>2 DEF CloseNext
    <3> QED BY <1>0, <3>1 DEF CutInv, Entered
  <2>3. CASE MarkClosed(Main)
    <3>1. step'[Main] = "idle" BY <1>0, <2>3, ThreadNames DEF MarkClosed, Finished, TypeOK
    <3> QED BY <3>1 DEF Busy, Main
  <2>4. CASE UNCHANGED cutting /\ (Busy(Main)' => Busy(Main))
    <3> SUFFICES ASSUME Busy(Main)' PROVE Entered(cutting)' OBVIOUS
    <3>1. Busy(Main) /\ Entered(cutting) /\ cutting \in Conns BY <1>0, <2>4 DEF CutInv, TargetInv
    <3> QED BY <1>1, <2>4, <3>1 DEF Entered
  <2> QED BY <1>0, <2>1, <2>2, <2>3, <2>4, VictimSteps
<1>5. ASSUME NEW t \in Threads, step'[t] \in {"shut", "mark"} PROVE Target(t)' \in CutConns'
  <2>1. CASE DropRequests(t)
    <3>1. Target(t) \in CutConns' BY <2>1, DropCuts
    <3>2. UNCHANGED <<owner, cutting>> BY <2>1 DEF DropRequests
    <3> QED BY <3>1, <3>2 DEF Target
  <2>2. CASE step[t] \in {"shut", "mark"}
    <3>1. Target(t) \in CutConns BY <1>0, <2>2 DEF CutInv
    <3>2. Target(t)' = Target(t)
      <4>1. CASE t = Main
        <5>1. ~(\E c \in Conns : CloseNext(c)) BY <2>2, <4>1 DEF CloseNext
        <5>2. ~MarkClosed(Main)
          BY <1>0, <1>5, <4>1, ThreadNames DEF MarkClosed, Finished, TypeOK
        <5>3. cutting' = cutting BY <1>0, <5>1, <5>2, VictimSteps DEF Snapshot
        <5> QED BY <4>1, <5>3 DEF Target
      <4>2. CASE t \in ReplyThreads BY <1>0, <2>2, <4>2, TargetSame DEF Busy
      <4> QED BY <4>1, <4>2 DEF Threads
    <3> QED BY <1>1, <3>1, <3>2
  <2> QED BY <1>0, <1>5, <2>1, <2>2, ShutPlace
<1>6. (\A c \in Conns : closed[c] => c \in CutConns)'
  <2>1. CASE closed' = closed BY <1>0, <1>1, <2>1 DEF CutInv
  <2>2. ASSUME NEW t \in Threads, MarkClosed(t)
        PROVE  (\A c \in Conns : closed[c] => c \in CutConns)'
    <3>1. step[t] = "mark" /\ closed' = [closed EXCEPT ![Target(t)] = TRUE] BY <2>2 DEF MarkClosed
    <3>2. Target(t) \in CutConns BY <1>0, <3>1 DEF CutInv
    <3> QED BY <1>0, <1>1, <3>1, <3>2 DEF CutInv, TypeOK
  <2> QED BY <2>1, <2>2, ClosedSteps
<1> QED BY <1>3, <1>4, <1>5, <1>6 DEF CutInv, Main, Target

LEMMA PromiseStep == PromiseInv /\ [Next]_vars => PromiseInv'
  BY QuietStep, TimerInvStep, RidInvStep, CutInvStep DEF PromiseInv

(* One step of the contract for every way a request moves on.  *)
LEMMA ContractStutter ==
  ASSUME \A i \in Ids : PromisedState(i)' = PromisedState(i), owner' = owner, CutConns' = CutConns
  PROVE  UNCHANGED Contract!vars
  BY DEF Contract!vars

LEMMA ContractIssue ==
  ASSUME NEW i \in Ids, NEW c \in Conns, PromisedState(i) = "new", PromisedState(i)' = "open",
         \A j \in Ids \ {i} : PromisedState(j)' = PromisedState(j),
         owner' = [owner EXCEPT ![i] = c], CutConns' = CutConns
  PROVE  Contract!Next
<1>1. Contract!Issue(i, c) BY DEF Contract!Issue
<1> QED BY <1>1 DEF Contract!Next

LEMMA ContractAnswer ==
  ASSUME NEW i \in Ids, PromisedState(i) = "open", PromisedState(i)' = "answered",
         \A j \in Ids \ {i} : PromisedState(j)' = PromisedState(j),
         owner' = owner, CutConns' = CutConns
  PROVE  Contract!Next
<1>1. Contract!Answer(i) BY DEF Contract!Answer
<1> QED BY <1>1 DEF Contract!Next

LEMMA ContractCut ==
  ASSUME NEW c \in Conns, owner' = owner, CutConns' = CutConns \cup {c},
         \A i \in Ids : \/ PromisedState(i)' = PromisedState(i)
                        \/ /\ PromisedState(i) = "open" /\ owner[i] = c
                           /\ PromisedState(i)' = "dropped"
  PROVE  Contract!Next
<1> DEFINE gone == {i \in Ids : PromisedState(i)' # PromisedState(i)}
<1>1. gone \in SUBSET Contract!OpenOn(c) BY DEF Contract!OpenOn
<1>2. [i \in Ids |-> PromisedState(i)]' =
        [i \in Ids |-> IF i \in gone THEN "dropped" ELSE [j \in Ids |-> PromisedState(j)][i]]
  OBVIOUS
<1>3. Contract!Cut(c) BY <1>1, <1>2 DEF Contract!Cut
<1> QED BY <1>3 DEF Contract!Next

\* A thread that carries the answer to request i.
Carries(t, i) == step[t] \in {"ready", "writing", "drop"} /\ RequestOf(t) = i

LEMMA CarriedFacts == \A i : Carried(i) <=> \E t \in ReplyThreads : Carries(t, i)
  BY DEF Carried, Carries

LEMMA CarriedNext == \A i : Carried(i)' <=> \E t \in ReplyThreads : Carries(t, i)'
  BY DEF Carried, Carries

(* What a step that moves one thread leaves of the others' answers.  *)
LEMMA OthersCarry ==
  ASSUME TypeOK, NEW t0 \in Threads,
         \A t \in Threads : t # t0 => step'[t] = step[t],
         \A c \in Conns : ServeT(c) # t0 => rid'[c] = rid[c]
  PROVE  \A t \in ReplyThreads \ {t0}, i \in Ids : Carries(t, i)' <=> Carries(t, i)
<1> SUFFICES ASSUME NEW t \in ReplyThreads \ {t0}, NEW i \in Ids
             PROVE  Carries(t, i)' <=> Carries(t, i)
  OBVIOUS
<1>1. t \in Threads /\ step'[t] = step[t] BY ThreadNames
<1>2. RequestOf(t)' = RequestOf(t) BY ThreadNames DEF RequestOf
<1> QED BY <1>1, <1>2 DEF Carries

(* A step of one thread that moves no table: whoever it carries for, the others'
   requests stand where they stood.  *)
LEMMA OneCarrier ==
  ASSUME TypeOK, NEW t0 \in Threads,
         \A t \in Threads : t # t0 => step'[t] = step[t],
         \A c \in Conns : ServeT(c) # t0 => rid'[c] = rid[c],
         UNCHANGED <<pending, owner, got>>, NEW i \in Ids,
         t0 \in ReplyThreads => (Carries(t0, i)' <=> Carries(t0, i))
  PROVE  PromisedState(i)' = PromisedState(i)
<1>1. \A t \in ReplyThreads : Carries(t, i)' <=> Carries(t, i) BY OthersCarry
<1>2. Carried(i)' <=> Carried(i) BY <1>1, CarriedFacts, CarriedNext
<1> QED BY <1>2 DEF PromisedState

(* Steps that move no request and cut no connection.  *)
LEMMA QuietSteps ==
  ASSUME UNCHANGED <<pending, owner, got, step, rid>>, CutConns' = CutConns
  PROVE  UNCHANGED Contract!vars
<1>1. \A i \in Ids : Carried(i)' <=> Carried(i) BY DEF Carried, RequestOf
<1>2. \A i \in Ids : PromisedState(i)' = PromisedState(i) BY <1>1 DEF PromisedState
<1> QED BY <1>2, ContractStutter

LEMMA CutKept ==
  ASSUME conns' = conns, \A c \in Conns : Entered(c)' <=> Entered(c)
  PROVE  CutConns' = CutConns
  BY DEF CutConns, Entered

(* Steps of serve(c) that move no request.  *)
LEMMA ServeContract ==
  ASSUME PromiseInv, NEW c \in Conns,
         \/ AcceptConn(c) \/ Enter(c) \/ ArmTimer(c) \/ RecordStop(c) \/ WriteCommand(c)
         \/ Drain(c) \/ Leave(c)
  PROVE  Contract!Next \/ UNCHANGED Contract!vars
<1> USE DEF table, perC, lockC, ext, run, loop, history
<1>0. TypeOK /\ LeaveInv BY DEF PromiseInv, QuietInv, HostInv, TypeInv
<1>1. CASE Enter(c)
  <2>1. /\ UNCHANGED <<pending, owner, got, step, rid>> /\ serve[c] = "start" /\ c \notin conns
    BY <1>0, <1>1 DEF Enter, LeaveInv
  <2>2. \A i \in Ids : PromisedState(i)' = PromisedState(i)
    BY <2>1 DEF PromisedState, Carried, RequestOf
  <2>3. CASE closing
    <3>1. CutConns' = CutConns \cup {c}
      BY <1>0, <1>1, <2>1, <2>3 DEF Enter, CutConns, TypeOK
    <3> QED BY <2>1, <2>2, <3>1, ContractCut
  <2>4. CASE ~closing
    <3>1. CutConns' = CutConns BY <1>0, <1>1, <2>1, <2>4 DEF Enter, CutConns, TypeOK
    <3> QED BY <2>1, <3>1, QuietSteps
  <2> QED BY <2>3, <2>4
<1>2. CASE AcceptConn(c) \/ ArmTimer(c) \/ RecordStop(c) \/ WriteCommand(c) \/ Drain(c) \/ Leave(c)
  <2>1. UNCHANGED <<pending, owner, got, step, rid, conns>>
    BY <1>2 DEF AcceptConn, ArmTimer, RecordStop, WriteCommand, Drain, Leave
  <2>2. \A d \in Conns : Entered(d)' <=> Entered(d)
    BY <1>0, <1>2 DEF AcceptConn, ArmTimer, RecordStop, WriteCommand, Forwarded, Drain, Leave, Serving,
                      Entered, TypeOK
  <2> QED BY <2>1, <2>2, CutKept, QuietSteps
<1> QED BY <1>1, <1>2

(* A request that is forwarded opens.  *)
LEMMA RegisterContract ==
  ASSUME PromiseInv, NEW c \in Conns, NEW i \in Ids, Register(c, i)
  PROVE  Contract!Next
<1> USE DEF table, perC, lockC, ext, run, loop, history
<1>0. TypeOK /\ RidInv BY DEF PromiseInv, QuietInv, HostInv, TypeInv
<1>1. /\ owner[i] = None /\ owner' = [owner EXCEPT ![i] = c] /\ pending' = pending \cup {i}
      /\ UNCHANGED <<got, step, rid, conns>> /\ serve[c] = "reading"
      /\ serve' = [serve EXCEPT ![c] = "arm"]
  BY DEF Register, Serving
<1>2. i \notin got /\ owner'[i] = c /\ c # None
  BY <1>0, <1>1, HostAssumption DEF RidInv, TypeOK
<1>3. \A j \in Ids : Carried(j)' <=> Carried(j) BY <1>1 DEF Carried, RequestOf
<1>4. PromisedState(i) = "new" /\ PromisedState(i)' = "open" BY <1>1, <1>2 DEF PromisedState
<1>5. \A j \in Ids \ {i} : PromisedState(j)' = PromisedState(j)
  BY <1>0, <1>1, <1>3 DEF PromisedState, TypeOK
<1>6. CutConns' = CutConns
  <2>1. \A d \in Conns : Entered(d)' <=> Entered(d) BY <1>0, <1>1 DEF Entered, TypeOK
  <2> QED BY <1>1, <2>1, CutKept
<1> QED BY <1>1, <1>4, <1>5, <1>6, ContractIssue

(* A request that leaves the table with a thread that answers it stays open.  *)
LEMMA TakenContract ==
  ASSUME PromiseInv, NEW t0 \in ReplyThreads, NEW i \in Ids, i \in pending,
         pending' = pending \ {i}, UNCHANGED <<owner, got>>, CutConns' = CutConns,
         \A t \in Threads : t # t0 => step'[t] = step[t],
         \A c \in Conns : ServeT(c) # t0 => rid'[c] = rid[c],
         Carries(t0, i)', \A j \in Ids \ {i} : ~Carries(t0, j) /\ ~Carries(t0, j)'
  PROVE  UNCHANGED Contract!vars
<1>1. TypeOK /\ t0 \in Threads BY ThreadNames DEF PromiseInv, QuietInv, HostInv, TypeInv
<1>2. \A t \in ReplyThreads \ {t0}, j \in Ids : Carries(t, j)' <=> Carries(t, j)
  BY <1>1, OthersCarry
<1>3. PromisedState(i)' = PromisedState(i)
  <2>1. Carried(i)' BY CarriedNext
  <2> QED BY <2>1 DEF PromisedState
<1>4. ASSUME NEW j \in Ids \ {i} PROVE PromisedState(j)' = PromisedState(j)
  <2>1. \A t \in ReplyThreads : Carries(t, j)' <=> Carries(t, j) BY <1>2
  <2>2. Carried(j)' <=> Carried(j) BY <2>1, CarriedFacts, CarriedNext
  <2> QED BY <2>2 DEF PromisedState
<1> QED BY <1>3, <1>4, ContractStutter

(* The size refusal, the timeout and the extension's reply take their request.  *)
LEMMA TakeContract ==
  ASSUME PromiseInv,
         \/ \E c \in Conns : Refuse(c)
         \/ \E i \in Ids : Expire(i) \/ ClaimReply(i)
  PROVE  UNCHANGED Contract!vars
<1> USE DEF table, perC, lockC, ext, run, loop, history
<1>0. TypeOK /\ RidInv /\ CurInv BY DEF PromiseInv, QuietInv, HostInv, TypeInv
<1>1. ASSUME NEW c \in Conns, Refuse(c) PROVE UNCHANGED Contract!vars
  <2>1. /\ serve[c] = "refuse" /\ cur[c] \in Ids /\ step[ServeT(c)] = "idle"
        /\ serve' = [serve EXCEPT ![c] = "reading"] /\ UNCHANGED <<conns, owner, got>>
    BY <1>0, <1>1 DEF Refuse, Forwarded, TakeLocked, CurInv, RidInv, Forwarding
  <2>2. PICK i \in Ids : i = cur[c] BY <2>1
  <2>3. CutConns' = CutConns
    <3>1. \A d \in Conns : Entered(d)' <=> Entered(d) BY <1>0, <2>1 DEF Entered, TypeOK
    <3> QED BY <2>1, <3>1, CutKept
  <2>4. CASE i \in pending
    <3>1. /\ pending' = pending \ {i} /\ step' = [step EXCEPT ![ServeT(c)] = "ready"]
          /\ rid' = [rid EXCEPT ![c] = i]
      BY <1>1, <2>4, <2>2 DEF Refuse, TakeLocked
    <3>2. ServeT(c) \in ReplyThreads /\ ServeT(c) \in Threads /\ ServeT(c) \in ServeThreads
          /\ ServeT(c)[2] = c /\ \A d \in Conns : ServeT(d) # ServeT(c) => d # c
      BY ThreadNames
    <3>3. \A j \in Ids : ~Carries(ServeT(c), j) BY <2>1 DEF Carries
    <3>4. step'[ServeT(c)] = "ready" /\ RequestOf(ServeT(c))' = i
      BY <1>0, <3>1, <3>2 DEF RequestOf, TypeOK
    <3>5. Carries(ServeT(c), i)' /\ \A j \in Ids \ {i} : ~Carries(ServeT(c), j)'
      BY <3>4 DEF Carries
    <3>6. /\ \A t \in Threads : t # ServeT(c) => step'[t] = step[t]
          /\ \A d \in Conns : ServeT(d) # ServeT(c) => rid'[d] = rid[d]
      BY <1>0, <3>1, <3>2 DEF TypeOK
    <3> QED BY <2>1, <2>3, <2>4, <3>1, <3>2, <3>3, <3>5, <3>6, TakenContract
  <2>5. CASE i \notin pending
    <3>1. UNCHANGED <<pending, step, rid>> BY <1>1, <2>5, <2>2 DEF Refuse
    <3> QED BY <2>1, <2>3, <3>1, QuietSteps
  <2> QED BY <2>4, <2>5
<1>2. ASSUME NEW i \in Ids, NEW t0 \in {TimerT(i), PumpT(i)}, i \in pending, TakeLocked(i),
             step' = [step EXCEPT ![t0] = "ready"], UNCHANGED <<rid, serve, got>>
      PROVE  UNCHANGED Contract!vars
  <2>1. t0 \in ReplyThreads /\ t0 \in Threads /\ t0 \notin ServeThreads /\ t0 # Main /\ t0[2] = i
    BY ThreadNames
  <2>2. RequestOf(t0) = i /\ RequestOf(t0)' = i BY <2>1 DEF RequestOf
  <2>3. step'[t0] = "ready" BY <1>0, <1>2, <2>1 DEF TypeOK
  <2>4. Carries(t0, i)' /\ \A j \in Ids \ {i} : ~Carries(t0, j) /\ ~Carries(t0, j)'
    BY <2>2, <2>3 DEF Carries
  <2>5. CutConns' = CutConns BY <1>2 DEF TakeLocked, CutConns
  <2>6. \A t \in Threads : t # t0 => step'[t] = step[t] BY <1>0, <1>2, <2>1 DEF TypeOK
  <2>7. pending' = pending \ {i} /\ owner' = owner BY <1>2 DEF TakeLocked
  <2> QED BY <1>2, <2>1, <2>4, <2>5, <2>6, <2>7, TakenContract
<1>3. ASSUME NEW i \in Ids, Expire(i), i \notin pending PROVE UNCHANGED Contract!vars
  <2>1. /\ step[TimerT(i)] = "take" /\ step' = [step EXCEPT ![TimerT(i)] = "idle"]
        /\ UNCHANGED <<pending, owner, got, rid, serve, conns>>
    BY <1>3 DEF Expire
  <2>2. TimerT(i) \in Threads BY ThreadNames
  <2>3. step'[TimerT(i)] = "idle" /\ \A t \in Threads : t # TimerT(i) => step'[t] = step[t]
    BY <1>0, <2>1, <2>2 DEF TypeOK
  <2>4. \A j \in Ids : ~Carries(TimerT(i), j) /\ ~Carries(TimerT(i), j)'
    BY <2>1, <2>3 DEF Carries, TimerT
  <2>5. \A j \in Ids : PromisedState(j)' = PromisedState(j)
    BY <1>0, <2>1, <2>2, <2>3, <2>4, OneCarrier
  <2>6. CutConns' = CutConns BY <2>1 DEF CutConns
  <2> QED BY <2>1, <2>5, <2>6, ContractStutter
<1>4. ASSUME NEW i \in Ids, Expire(i), i \in pending PROVE UNCHANGED Contract!vars
  BY <1>2, <1>4 DEF Expire
<1>5. ASSUME NEW i \in Ids, ClaimReply(i) PROVE UNCHANGED Contract!vars
  BY <1>2, <1>5 DEF ClaimReply
<1> QED BY <1>1, <1>3, <1>4, <1>5

(* A step of one thread that carries the same answer before and after it.  *)
LEMMA ThreadContract ==
  ASSUME TypeOK, NEW t0 \in Threads, NEW s \in Steps, step' = [step EXCEPT ![t0] = s],
         \A c \in Conns : ServeT(c) # t0 => rid'[c] = rid[c],
         UNCHANGED <<pending, owner, got, serve, conns>>,
         t0 \in ReplyThreads => \A i \in Ids : Carries(t0, i)' <=> Carries(t0, i)
  PROVE  UNCHANGED Contract!vars
<1>1. \A t \in Threads : t # t0 => step'[t] = step[t] BY DEF TypeOK
<1>2. \A i \in Ids : PromisedState(i)' = PromisedState(i) BY <1>1, OneCarrier
<1>3. CutConns' = CutConns BY DEF CutConns
<1> QED BY <1>2, <1>3, ContractStutter

(* Steps of serve(c), a timer and Run that begin or end nothing a request waits for.  *)
LEMMA StartContract ==
  ASSUME PromiseInv,
         \/ \E c \in Conns : BadLine(c) \/ ScanEnds(c) \/ CloseNext(c)
         \/ \E i \in Ids : TimerFires(i)
  PROVE  UNCHANGED Contract!vars
<1> USE DEF table, perC, lockC, ext, run, loop, history
<1>0. TypeOK BY DEF PromiseInv, QuietInv, HostInv, TypeInv
<1>1. ASSUME NEW c \in Conns, BadLine(c) \/ ScanEnds(c) PROVE UNCHANGED Contract!vars
  <2>1. PICK s \in {"ready", "drop"} : step' = [step EXCEPT ![ServeT(c)] = s]
    BY <1>1 DEF BadLine, ScanEnds
  <2>2. /\ step[ServeT(c)] = "idle" /\ rid' = [rid EXCEPT ![c] = None]
        /\ UNCHANGED <<pending, owner, got, conns>>
    BY <1>1 DEF BadLine, ScanEnds, Serving
  <2>3. \A d \in Conns : Entered(d)' <=> Entered(d)
    BY <1>0, <1>1 DEF BadLine, ScanEnds, Serving, Entered, TypeOK
  <2>4. ServeT(c) \in Threads /\ ServeT(c) \in ServeThreads /\ ServeT(c)[2] = c
        /\ \A d \in Conns : ServeT(d) # ServeT(c) => d # c
    BY ThreadNames
  <2>5. \A t \in Threads : t # ServeT(c) => step'[t] = step[t] BY <1>0, <2>1, <2>4 DEF TypeOK
  <2>6. \A d \in Conns : ServeT(d) # ServeT(c) => rid'[d] = rid[d] BY <1>0, <2>2, <2>4 DEF TypeOK
  <2>7. RequestOf(ServeT(c))' = None BY <1>0, <2>2, <2>4 DEF RequestOf, TypeOK
  <2>8. \A i \in Ids : ~Carries(ServeT(c), i)' BY <2>7, HostAssumption DEF Carries
  <2>9. \A i \in Ids : ~Carries(ServeT(c), i) BY <2>2 DEF Carries
  <2>10. \A i \in Ids : PromisedState(i)' = PromisedState(i)
    BY <1>0, <2>2, <2>4, <2>5, <2>6, <2>8, <2>9, OneCarrier
  <2> QED BY <2>2, <2>3, <2>10, CutKept, ContractStutter
<1>2. ASSUME NEW c \in Conns, CloseNext(c) PROVE UNCHANGED Contract!vars
  <2>1. /\ step' = [step EXCEPT ![Main] = "drop"] /\ UNCHANGED <<rid, pending, owner, got, serve, conns>>
        /\ "drop" \in Steps
    BY <1>2 DEF CloseNext, Steps
  <2> QED BY <1>0, <2>1, ThreadNames, ThreadContract
<1>3. ASSUME NEW i \in Ids, TimerFires(i) PROVE UNCHANGED Contract!vars
  <2>1. /\ step' = [step EXCEPT ![TimerT(i)] = "take"] /\ i \in timers
        /\ UNCHANGED <<rid, pending, owner, got, serve, conns>>
    BY <1>3 DEF TimerFires
  <2>2. TimerT(i) \in Threads BY ThreadNames
  <2>3. step[TimerT(i)] = "idle" BY <2>1 DEF PromiseInv, TimerInv
  <2>4. step'[TimerT(i)] = "take" BY <1>0, <2>1, <2>2 DEF TypeOK
  <2>5. \A j \in Ids : ~Carries(TimerT(i), j) /\ ~Carries(TimerT(i), j)'
    BY <2>3, <2>4 DEF Carries, TimerT
  <2> QED BY <1>0, <2>1, <2>2, <2>5, ThreadContract DEF Steps
<1> QED BY <1>1, <1>2, <1>3

(* The end of reply: the answer is out, or the connection is cut and it never will be.  *)
LEMMA ReplyContract ==
  ASSUME PromiseInv, [Next]_vars, NEW t \in ReplyThreads,
         BeginReply(t) \/ ReplyWritten(t) \/ ReplyFails(t)
  PROVE  Contract!Next \/ UNCHANGED Contract!vars
<1> USE DEF table, perC, lockC, ext, run, loop, history
<1>0. TypeOK /\ CutInv /\ t \in Threads BY ThreadNames DEF PromiseInv, QuietInv, HostInv, TypeInv
<1>1. Busy(t) /\ UNCHANGED <<pending, owner, serve, conns>>
  BY DEF BeginReply, ReplyWritten, ReplyFails, Busy
<1>2. CutConns' = CutConns BY <1>1 DEF CutConns
<1>3. PICK r : r = RequestOf(t) OBVIOUS
<1>4. r # None => /\ r \in Ids /\ Target(t) \in Conns
                  /\ owner[r] = Target(t) /\ owner[r] # None
  BY <1>1, <1>3, RequestOwner
<1>5. CASE (BeginReply(t) /\ ~closed[Target(t)]) \/ ReplyFails(t)
  <2>1. PICK s \in {"writing", "drop"} : step' = [step EXCEPT ![t] = s]
    BY <1>5 DEF BeginReply, ReplyFails
  <2>2. step[t] \in {"ready", "writing"} /\ UNCHANGED <<rid, got>> BY <1>5 DEF BeginReply, ReplyFails
  <2>3. RequestOf(t)' = RequestOf(t)
    <3>1. t # Main BY ThreadNames
    <3> QED BY <2>2, <3>1 DEF RequestOf
  <2>4. step'[t] = s /\ s \in Steps BY <1>0, <2>1 DEF TypeOK, Steps
  <2>5. \A i \in Ids : Carries(t, i)' <=> Carries(t, i) BY <2>2, <2>3, <2>4 DEF Carries
  <2> QED BY <1>0, <1>1, <2>1, <2>2, <2>4, <2>5, ThreadContract
<1>6. CASE (BeginReply(t) /\ closed[Target(t)]) \/ ReplyWritten(t)
  <2>1. Finished(t) /\ step[t] \in {"ready", "writing"} BY <1>6 DEF BeginReply, ReplyWritten
  <2>2. step' = [step EXCEPT ![t] = "idle"] /\ step'[t] = "idle"
    BY <1>0, <2>1 DEF Finished, TypeOK
  <2>3. \A c \in Conns : ServeT(c) # t => rid'[c] = rid[c]
    BY <1>0, <2>1, ThreadNames DEF Finished, TypeOK
  <2>4. \A u \in Threads : u # t => step'[u] = step[u] BY <1>0, <2>2 DEF TypeOK
  <2>5. \A i \in Ids : (Carries(t, i) <=> i = r) /\ ~Carries(t, i)'
    BY <1>3, <2>1, <2>2 DEF Carries
  <2>6. \A u \in ReplyThreads \ {t}, i \in Ids : Carries(u, i)' <=> Carries(u, i)
    BY <1>0, <2>3, <2>4, OthersCarry
  <2>7. got' = got \/ (r # None /\ got' = got \cup {r}) BY <1>3, <1>6 DEF BeginReply, ReplyWritten
  <2>8. ASSUME NEW i \in Ids, i # r PROVE PromisedState(i)' = PromisedState(i)
    <3>1. \A u \in ReplyThreads : Carries(u, i)' <=> Carries(u, i) BY <2>5, <2>6, <2>8
    <3>2. Carried(i)' <=> Carried(i) BY <3>1, CarriedFacts, CarriedNext
    <3> QED BY <1>1, <2>7, <2>8, <3>2 DEF PromisedState
  <2>9. CASE r = None
    <3>1. r \notin Ids BY <2>9, HostAssumption
    <3> QED BY <1>1, <1>2, <2>8, <3>1, ContractStutter
  <2>10. CASE r # None /\ r \in got
    <3>1. PromisedState(r)' = PromisedState(r) BY <1>1, <2>7, <2>10 DEF PromisedState
    <3> QED BY <1>1, <1>2, <2>8, <3>1, ContractStutter
  <2>11. CASE r # None /\ r \notin got
    <3>1. Carried(r) BY <1>4, <2>5, <2>11, CarriedFacts
    <3>2. PromisedState(r) = "open" BY <1>4, <2>11, <3>1 DEF PromisedState
    <3>3. CASE ReplyWritten(t)
      <4>1. got' = got \cup {r} BY <1>3, <2>11, <3>3 DEF ReplyWritten
      <4>2. PromisedState(r)' = "answered" BY <1>1, <1>4, <2>11, <4>1 DEF PromisedState
      <4> QED BY <1>1, <1>2, <1>4, <2>8, <2>11, <3>2, <4>2, ContractAnswer
    <3>4. CASE BeginReply(t) /\ closed[Target(t)]
      <4>1. PICK c \in Conns : c = Target(t) BY <1>4, <2>11
      <4>2. CutConns' = CutConns \cup {c} BY <1>0, <1>2, <3>4, <4>1 DEF CutInv
      <4>3. got' = got BY <3>4 DEF BeginReply
      <4>4. PromisedState(r)' \in {"open", "dropped"}
        BY <1>1, <1>4, <2>11, <4>3 DEF PromisedState
      <4> QED BY <1>1, <1>4, <2>8, <2>11, <3>2, <4>1, <4>2, <4>4, ContractCut
    <3> QED BY <1>6, <3>3, <3>4
  <2> QED BY <2>9, <2>10, <2>11
<1> QED BY <1>5, <1>6

(* closeClient drops what its connection still waits for.  *)
LEMMA CloseContract ==
  ASSUME PromiseInv, NEW t \in Threads, DropRequests(t) \/ CloseSocket(t) \/ MarkClosed(t)
  PROVE  Contract!Next \/ UNCHANGED Contract!vars
<1> USE DEF table, perC, lockC, ext, run, loop, history
<1>0. TypeOK /\ TableInv BY DEF PromiseInv, QuietInv, HostInv, TypeInv
<1>1. CASE DropRequests(t)
  <2>1. PICK c \in Conns : c = Target(t) /\ CutConns' = CutConns \cup {c} BY <1>1, DropCuts
  <2>2. /\ step[t] = "drop" /\ step' = [step EXCEPT ![t] = "shut"] /\ pending' = pending \ ids[c]
        /\ UNCHANGED <<owner, got, rid>>
    BY <1>1, <2>1 DEF DropRequests
  <2>3. \A u \in Threads : u # t => step'[u] = step[u] BY <1>0, <2>2 DEF TypeOK
  <2>4. \A u \in ReplyThreads \ {t}, i \in Ids : Carries(u, i)' <=> Carries(u, i)
    BY <1>0, <2>2, <2>3, OthersCarry
  <2>5. step'[t] = "shut" BY <1>0, <2>2 DEF TypeOK
  <2>6. \A i \in Ids : ~Carries(t, i)' BY <2>5 DEF Carries
  <2>7. ASSUME NEW i \in Ids
        PROVE  \/ PromisedState(i)' = PromisedState(i)
               \/ PromisedState(i) = "open" /\ owner[i] = c /\ PromisedState(i)' = "dropped"
    <3>1. Carried(i)' => Carried(i) BY <2>4, <2>6, CarriedFacts, CarriedNext
    <3>2. CASE owner[i] = c BY <2>2, <3>1, <3>2 DEF PromisedState
    <3>3. CASE owner[i] # c
      <4>1. i \notin ids[c] BY <1>0, <3>3 DEF TableInv, TablesAgree
      <4>2. t \in ReplyThreads => ~Carries(t, i)
        <5>1. ASSUME t \in ReplyThreads, Carries(t, i) PROVE FALSE
          <6>1. RequestOf(t) = i /\ Busy(t) /\ i # None
            BY <2>2, <5>1, HostAssumption DEF Carries, Busy
          <6> QED BY <2>1, <3>3, <5>1, <6>1, RequestOwner
        <5> QED BY <5>1
      <4>3. Carried(i)' <=> Carried(i) BY <2>4, <2>6, <4>2, CarriedFacts, CarriedNext
      <4> QED BY <2>2, <4>1, <4>3 DEF PromisedState
    <3> QED BY <3>2, <3>3
  <2> QED BY <2>1, <2>2, <2>7, ContractCut
<1>2. CASE CloseSocket(t)
  <2>1. /\ step[t] = "shut" /\ step' = [step EXCEPT ![t] = "mark"]
        /\ UNCHANGED <<rid, pending, owner, got, serve, conns>>
    BY <1>2 DEF CloseSocket
  <2>2. step'[t] = "mark" /\ "mark" \in Steps BY <1>0, <2>1 DEF TypeOK, Steps
  <2>3. \A i \in Ids : ~Carries(t, i) /\ ~Carries(t, i)' BY <2>1, <2>2 DEF Carries
  <2> QED BY <1>0, <2>1, <2>2, <2>3, ThreadContract
<1>3. CASE MarkClosed(t)
  <2>1. /\ step[t] = "mark" /\ Finished(t) /\ UNCHANGED <<pending, owner, got, serve, conns>>
    BY <1>3 DEF MarkClosed
  <2>2. step' = [step EXCEPT ![t] = "idle"] /\ step'[t] = "idle" /\ "idle" \in Steps
    BY <1>0, <2>1 DEF Finished, TypeOK, Steps
  <2>3. \A c \in Conns : ServeT(c) # t => rid'[c] = rid[c]
    BY <1>0, <2>1, ThreadNames DEF Finished, TypeOK
  <2>4. \A i \in Ids : ~Carries(t, i) /\ ~Carries(t, i)' BY <2>1, <2>2 DEF Carries
  <2> QED BY <1>0, <2>1, <2>2, <2>3, <2>4, ThreadContract
<1> QED BY <1>1, <1>2, <1>3

LEMMA ContractStep ==
  ASSUME PromiseInv, [Next]_vars
  PROVE  [Contract!Next]_(Contract!vars)
<1> USE DEF table, perC, lockC, ext, run, loop, history
<1>1. CASE \E c \in Conns : ServeMoves(c) \/ CloseNext(c)
  BY <1>1, ServeContract, RegisterContract, TakeContract, StartContract DEF ServeMoves
<1>2. CASE \E i \in Ids : TimerFires(i) \/ Expire(i) \/ ClaimReply(i)
  BY <1>2, TakeContract, StartContract
<1>3. CASE \E t \in ReplyThreads : BeginReply(t) \/ ReplyWritten(t) \/ ReplyFails(t)
  BY <1>3, ReplyContract
<1>4. CASE \E t \in Threads : DropRequests(t) \/ CloseSocket(t) \/ MarkClosed(t)
  BY <1>4, CloseContract
<1>5. CASE \/ AcquireSlot \/ AcceptError \/ ProbeFails \/ PumpEnds \/ Cancel \/ Select
           \/ AwaitReplies \/ Snapshot \/ Return \/ Exited \/ UNCHANGED vars
  <2>1. UNCHANGED <<pending, owner, got, step, rid, serve, conns>>
    BY <1>5 DEF AcquireSlot, AcceptError, ProbeFails, PumpEnds, Cancel, Select, AwaitReplies,
                Snapshot, Return, Exited, vars
  <2>2. CutConns' = CutConns BY <2>1 DEF CutConns
  <2> QED BY <2>1, <2>2, QuietSteps
<1> QED BY <1>1, <1>2, <1>3, <1>4, <1>5 DEF Next, ServeMoves

(* The host keeps its promise to its clients, with any number of them: every step is a
   step of the contract or moves no request.  A request is answered at most once, on
   the connection that issued it, and dropped only when that connection is cut.  *)
THEOREM HostKeepsContract == Spec => Contract!Promise
<1>1. Init => Contract!Init BY DEF Init, Contract!Init, PromisedState, CutConns
<1>2. PromiseInv /\ [Next]_vars => [Contract!Next]_(Contract!vars) BY ContractStep
<1> QED BY <1>1, <1>2, PromiseInit, PromiseStep, PTL DEF Spec, Contract!Promise

----------------------------------------------------------------------------
(* The socket path *)

(* What each process inside its critical section knows about the path.  Between the
   stale check and the bind nobody reachable listens, because a new listener needs
   the lock.  *)
Knowledge ==
  \A p \in Procs :
     /\ pc[p] = "remove" => file \notin listeners
     /\ pc[p] \in {"bind", "listen"} => listeners \subseteq orphans
     /\ pc[p] \in {"listen", "identify"} => file = p \/ (file = Nothing /\ p \in orphans)
     /\ pc[p] = "identify" => listeners \subseteq orphans \cup {p}
     /\ pc[p] \in {"serving", "close", "unlink"} => ident[p] = p

(* Only a process past its listen(2) listens.  *)
ListenersAt == \A p \in listeners : pc[p] \in {"identify", "serving", "close"}

(* A deleted file had a creator that is past its bind.  *)
Created == \A p \in Procs : p = file \/ p \in orphans =>
                            pc[p] \notin {"new", "lstat", "probe", "remove", "bind"}

IpcInv == SocketTypeOK /\ Reachable /\ Knowledge /\ ListenersAt /\ Created

LEMMA IpcInit == SocketInit => IpcInv
  BY IpcAssumption DEF SocketInit, IpcInv, SocketTypeOK, Reachable, Knowledge, ListenersAt, Created, Critical, Gone

LEMMA IpcStep == IpcInv /\ [SocketNext]_socketVars => IpcInv'
<1> SUFFICES ASSUME IpcInv, [SocketNext]_socketVars PROVE IpcInv'
  OBVIOUS
<1> USE IpcAssumption DEF IpcInv, SocketTypeOK, Reachable, Knowledge, ListenersAt, Created, Critical, Gone, Goto
<1>1. ASSUME NEW p \in Procs, Acquire(p, "new", "lstat") PROVE IpcInv'
  BY <1>1 DEF Acquire
<1>2. ASSUME NEW p \in Procs, NoLock(p) PROVE IpcInv'
  BY <1>2 DEF NoLock
<1>3. ASSUME NEW p \in Procs, Lstat(p) PROVE IpcInv'
  BY <1>3 DEF Lstat, GiveUp
<1>4. ASSUME NEW p \in Procs, Probe(p) PROVE IpcInv'
  BY <1>4 DEF Probe, GiveUp
<1>5. ASSUME NEW p \in Procs, Remove(p) PROVE IpcInv'
  BY <1>5 DEF Remove, GiveUp
<1>6. ASSUME NEW p \in Procs, Bind(p) PROVE IpcInv'
  BY <1>6 DEF Bind, GiveUp
<1>7. ASSUME NEW p \in Procs, StartListening(p) PROVE IpcInv'
  <2>1. listeners \subseteq orphans /\ (p \in orphans \/ file = p)
    BY <1>7 DEF StartListening
  <2>2. Reachable'
    BY <1>7, <2>1 DEF StartListening
  <2>3. QED
    BY <1>7, <2>1, <2>2 DEF StartListening
<1>8. ASSUME NEW p \in Procs, Identify(p) PROVE IpcInv'
  BY <1>8 DEF Identify, GiveUp
<1>9. ASSUME NEW p \in Procs, Acquire(p, "serving", "close") PROVE IpcInv'
  BY <1>9 DEF Acquire
<1>10. ASSUME NEW p \in Procs, CloseUnlocked(p) PROVE IpcInv'
  BY <1>10 DEF CloseUnlocked
<1>11. ASSUME NEW p \in Procs, CloseListener(p) PROVE IpcInv'
  BY <1>11 DEF CloseListener
<1>12. ASSUME NEW p \in Procs, Unlink(p) PROVE IpcInv'
  BY <1>12 DEF Unlink
<1>13. ASSUME NEW p \in Procs, Crash(p) PROVE IpcInv'
  BY <1>13 DEF Crash
<1>14. CASE DeleteFile
  BY <1>14 DEF DeleteFile
<1>15. CASE UNCHANGED socketVars
  BY <1>15 DEF socketVars
<1>16. QED
  BY <1>1, <1>2, <1>3, <1>4, <1>5, <1>6, <1>7, <1>8, <1>9, <1>10, <1>11, <1>12, <1>13, <1>14,
     <1>15 DEF SocketNext, Setup, Close, AllGone

(* The host that listens is the host clients reach; with the types and the flock
   discipline it rests on.  *)
THEOREM IpcReachable == SocketSpec => [](SocketTypeOK /\ Reachable)
<1>1. IpcInv => SocketTypeOK /\ Reachable
  BY DEF IpcInv
<1>2. QED
  BY <1>1, IpcInit, IpcStep, PTL DEF SocketSpec
=============================================================================
