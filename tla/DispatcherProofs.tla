-------------------------- MODULE DispatcherProofs --------------------------
(***************************************************************************)
(* Four guarantees of the dispatcher for any number of commands: the lock  *)
(* excludes, no handler starts for a command that was answered, only the   *)
(* current preamble attempt moves on, and a deadline abandons an attempt   *)
(* exactly when nobody is left who waits for it.  The first two rest on    *)
(* LockInv, which says who heads the queue and who may have an answer; the *)
(* third on FenceInv, the argument behind the epoch of memo.ts; the last   *)
(* on ShareInv, which says whom the waiters fields count.                  *)
(***************************************************************************)
EXTENDS Dispatcher, FiniteSetTheorems, TLAPS

USE DispatcherAssumption

----------------------------------------------------------------------------
(* The lock *)

Places == {"new", "probing", "prepare", "queued", "running", "persisting", "done"}

LockTypes ==
  /\ pc \in [Cmds -> Places]
  /\ expired \in SUBSET Cmds
  /\ answer \in [Cmds -> {"none", "reply", "timeout"}]
  /\ queue \in Seq(StateCmds)

\* Whoever is between its first and last side effect heads the queue.
HeadHolds == \A c \in Cmds : Inside(c) => queue # <<>> /\ Head(queue) = c

\* An answered command is over, or its deadline gave the answer; no deadline fires
\* before the command arrived.
AnsweredOver == \A c \in Cmds : /\ answer[c] # "none" => c \in expired \/ pc[c] = "done"
                                /\ pc[c] = "new" => c \notin expired

LockInv == LockTypes /\ HeadHolds /\ AnsweredOver

lockVars == <<pc, expired, answer, queue>>

LEMMA LockInit == Init => LockInv
<1> SUFFICES ASSUME Init PROVE LockInv OBVIOUS
<1>1. pc \in [Cmds -> Places] /\ answer \in [Cmds -> {"none", "reply", "timeout"}] BY DEF Init, Places
<1>2. \A c \in Cmds : pc[c] = "new" /\ answer[c] = "none" BY DEF Init
<1>3. expired = {} /\ expired \in SUBSET Cmds /\ queue \in Seq(StateCmds) BY DEF Init
<1>4. HeadHolds BY <1>2 DEF HeadHolds, Inside
<1>5. AnsweredOver BY <1>2, <1>3 DEF AnsweredOver
<1> QED BY <1>1, <1>3, <1>4, <1>5 DEF LockInv, LockTypes

\* The actions that touch the lock, its queue or an answer.
LEMMA LockSteps ==
  ASSUME Next
  PROVE  \/ UNCHANGED lockVars
         \/ \E c \in Cmds : \/ AfterPreamble(c) \/ AfterLock(c) \/ Refuse(c) \/ ArriveProbe(c)
                            \/ Arrive(c) \/ HandlerSettles(c) \/ PersistSettles(c) \/ Deadline(c)
BY DEF Next, AfterSession, AfterAttached, AttachedSettles, DropSettles, SessionSettles, Idle,
       commands, vars, lockVars

\* A command leaves the queue's head, or a place where it did not hold the lock.
LEMMA ReleasedFacts ==
  ASSUME LockInv, NEW c \in Cmds
  PROVE  /\ Released(c) \in Seq(StateCmds)
         /\ \A d \in Cmds \ {c} : Inside(d) => Released(c) = queue
  BY DEF Released, LockInv, LockTypes, HeadHolds, Inside

\* A step of one command that finishes keeps the invariant.
LEMMA FinishStep ==
  ASSUME LockInv, NEW c \in Cmds, Finish(c), queue' \in {queue, Released(c)},
         UNCHANGED expired
  PROVE  LockInv'
<1>1. pc' = [pc EXCEPT ![c] = "done"] /\ answer' = [answer EXCEPT ![c] = IF @ = "none" THEN "reply" ELSE @]
  BY DEF Finish
<1>2. pc \in [Cmds -> Places] /\ answer \in [Cmds -> {"none", "reply", "timeout"}]
  BY DEF LockInv, LockTypes
<1>3. pc' \in [Cmds -> Places] BY <1>1, <1>2 DEF Places
<1>4. answer' \in [Cmds -> {"none", "reply", "timeout"}]
  <2>1. (IF answer[c] = "none" THEN "reply" ELSE answer[c]) \in {"none", "reply", "timeout"} BY <1>2
  <2> QED BY <1>1, <1>2, <2>1
<1>5. queue' \in Seq(StateCmds) BY ReleasedFacts DEF LockInv, LockTypes
<1>6. \A d \in Cmds : Inside(d)' => d # c /\ Inside(d) BY <1>1, <1>2 DEF Inside
<1>7. HeadHolds' BY <1>6, ReleasedFacts DEF HeadHolds, LockInv
<1>8. AnsweredOver' BY <1>1, <1>2 DEF AnsweredOver, LockInv
<1> QED BY <1>3, <1>4, <1>5, <1>7, <1>8 DEF LockInv, LockTypes

\* A step of one command to another place before it is done.
LEMMA MoveStep ==
  ASSUME LockInv, NEW c \in Cmds, NEW place \in Places \ {"new"}, pc' = [pc EXCEPT ![c] = place],
         pc[c] # "done", place \in {"running", "persisting"} /\ c \in StateCmds => queue # <<>> /\ Head(queue) = c,
         queue' = queue \/ (c \in StateCmds /\ queue' = Append(queue, c)),
         UNCHANGED <<expired, answer>>
  PROVE  LockInv'
<1>1. pc \in [Cmds -> Places] /\ queue \in Seq(StateCmds) BY DEF LockInv, LockTypes
<1>2. pc' \in [Cmds -> Places] BY <1>1
<1>3. queue' \in Seq(StateCmds) BY <1>1
<1>4. queue # <<>> => queue' # <<>> /\ Head(queue') = Head(queue) BY <1>1
<1>5. HeadHolds'
  <2> SUFFICES ASSUME NEW d \in Cmds, Inside(d)' PROVE queue' # <<>> /\ Head(queue') = d
    BY DEF HeadHolds
  <2>1. CASE d = c BY <2>1, <1>1, <1>4 DEF Inside
  <2>2. CASE d # c
    <3>1. Inside(d) BY <2>2, <1>1 DEF Inside
    <3> QED BY <3>1, <1>4 DEF LockInv, HeadHolds
  <2> QED BY <2>1, <2>2
<1>6. AnsweredOver' BY <1>1 DEF AnsweredOver, LockInv
<1> QED BY <1>2, <1>3, <1>5, <1>6 DEF LockInv, LockTypes

\* The deadline answers a command and moves nothing.
LEMMA DeadlineStep ==
  ASSUME LockInv, NEW c \in Cmds, Deadline(c)
  PROVE  LockInv'
<1>1. /\ pc' = pc /\ queue' = queue /\ expired' = expired \cup {c}
      /\ answer' = [answer EXCEPT ![c] = "timeout"] /\ pc[c] # "new"
  BY DEF Deadline
<1>2. LockTypes' BY <1>1 DEF LockInv, LockTypes
<1>3. HeadHolds' BY <1>1 DEF LockInv, HeadHolds, Inside
<1>4. AnsweredOver'
  <2>1. answer \in [Cmds -> {"none", "reply", "timeout"}] BY DEF LockInv, LockTypes
  <2> QED BY <1>1, <2>1 DEF LockInv, AnsweredOver
<1> QED BY <1>2, <1>3, <1>4 DEF LockInv

LEMMA LockStep ==
  ASSUME LockInv, Next
  PROVE  LockInv'
<1>1. CASE UNCHANGED lockVars
  <2>1. pc' = pc /\ expired' = expired /\ answer' = answer /\ queue' = queue BY <1>1 DEF lockVars
  <2> QED BY <2>1 DEF LockInv, LockTypes, HeadHolds, AnsweredOver, Inside
<1>2. ASSUME NEW c \in Cmds, AfterPreamble(c) PROVE LockInv'
  <2>1. pc[c] = "prepare" BY <1>2 DEF AfterPreamble, PreambleReady
  <2>2. CASE Finish(c) /\ UNCHANGED queue /\ UNCHANGED expired BY <2>2, FinishStep
  <2>3. CASE /\ UNCHANGED <<expired, answer>> /\ c \in StateCmds
             /\ pc' = [pc EXCEPT ![c] = "queued"] /\ queue' = Append(queue, c)
    BY <2>1, <2>3, MoveStep DEF Places
  <2>4. CASE /\ UNCHANGED <<expired, answer, queue>> /\ c \notin StateCmds
             /\ pc' = [pc EXCEPT ![c] = "running"]
    BY <2>1, <2>4, MoveStep DEF Places
  <2>5. UNCHANGED expired BY <1>2 DEF AfterPreamble
  <2>6. CASE phase[wait[c]] = "failed" \/ c \in expired BY <1>2, <2>2, <2>5, <2>6 DEF AfterPreamble
  <2>7. CASE ~(phase[wait[c]] = "failed" \/ c \in expired)
    <3>1. CASE c \in StateCmds BY <1>2, <2>3, <2>5, <2>7, <3>1 DEF AfterPreamble
    <3>2. CASE c \notin StateCmds BY <1>2, <2>4, <2>5, <2>7, <3>2 DEF AfterPreamble
    <3> QED BY <3>1, <3>2
  <2> QED BY <2>6, <2>7
<1>3. ASSUME NEW c \in Cmds, AfterLock(c) PROVE LockInv'
  <2>1. CASE c \in expired BY <2>1, <1>3, FinishStep DEF AfterLock
  <2>2. CASE c \notin expired
    <3>1. pc[c] = "queued" /\ Head(queue) = c BY <1>3 DEF AfterLock, LockReady
    <3>2. queue # <<>> BY <1>3 DEF AfterLock, LockReady
    <3> QED BY <2>2, <1>3, <3>1, <3>2, MoveStep DEF AfterLock, Places
  <2> QED BY <2>1, <2>2
<1>4. ASSUME NEW c \in Cmds, Refuse(c) PROVE LockInv'
  BY <1>4, FinishStep DEF Refuse
<1>5. ASSUME NEW c \in Cmds, ArriveProbe(c) PROVE LockInv'
  BY <1>5, MoveStep DEF ArriveProbe, Places
<1>6. ASSUME NEW c \in Cmds, Arrive(c) PROVE LockInv'
  BY <1>6, MoveStep DEF Arrive, Places
<1>7. ASSUME NEW c \in Cmds, HandlerSettles(c) PROVE LockInv'
  <2>1. CASE pc[c] = "probing" BY <2>1, <1>7, FinishStep DEF HandlerSettles
  <2>2. CASE pc[c] # "probing"
    <3>1. /\ pc[c] = "running" /\ pc' = [pc EXCEPT ![c] = "persisting"]
          /\ UNCHANGED <<answer, queue, expired>>
      BY <2>2, <1>7 DEF HandlerSettles
    <3>2. c \in StateCmds => queue # <<>> /\ Head(queue) = c
      BY <3>1 DEF LockInv, HeadHolds, Inside
    <3> QED BY <3>1, <3>2, MoveStep DEF Places
  <2> QED BY <2>1, <2>2
<1>8. ASSUME NEW c \in Cmds, PersistSettles(c) PROVE LockInv'
  BY <1>8, FinishStep DEF PersistSettles
<1> QED BY <1>1, <1>2, <1>3, <1>4, <1>5, <1>6, <1>7, <1>8, LockSteps, DeadlineStep

THEOREM LockInvariant == Spec => []LockInv
<1>1. LockInv /\ UNCHANGED vars => LockInv'
  BY DEF vars, commands, LockInv, LockTypes, HeadHolds, AnsweredOver, Inside
<1>2. LockInv /\ [Next]_vars => LockInv' BY <1>1, LockStep
<1> QED BY <1>2, LockInit, PTL DEF Spec

\* At most one state command is between its first and its last side effect, however
\* many wait and whatever their deadlines did.
THEOREM DispatcherExclusive == Spec => []Exclusive
<1>1. LockInv => Exclusive BY DEF LockInv, HeadHolds, Exclusive, Inside
<1> QED BY <1>1, LockInvariant, PTL

\* No handler starts for a command that was answered already.
THEOREM DispatcherNoLateStart == Spec => NoLateStart
<1> DEFINE OnTime == \A c \in Cmds : pc[c] # "running" /\ pc'[c] = "running" => answer'[c] = "none"
<1>1. LockInv /\ [Next]_vars => [OnTime]_vars
  <2> SUFFICES ASSUME LockInv, Next, NEW c \in Cmds, pc[c] # "running", pc'[c] = "running"
               PROVE  answer'[c] = "none"
    OBVIOUS
  <2>1. pc \in [Cmds -> Places] BY DEF LockInv, LockTypes
  <2>2. PICK d \in Cmds : AfterPreamble(d) \/ AfterLock(d) \/ ArriveProbe(d)
    BY LockSteps, <2>1 DEF lockVars, Refuse, Arrive, HandlerSettles, PersistSettles, Deadline, Finish
  <2>3. d = c /\ UNCHANGED answer /\ c \notin expired /\ pc[c] # "done"
    <3>1. CASE AfterPreamble(d)
      BY <3>1, <2>1 DEF AfterPreamble, PreambleReady, Finish
    <3>2. CASE AfterLock(d)
      BY <3>2, <2>1 DEF AfterLock, LockReady, Finish
    <3>3. CASE ArriveProbe(d)
      BY <3>3, <2>1 DEF ArriveProbe, LockInv, AnsweredOver
    <3> QED BY <2>2, <3>1, <3>2, <3>3
  <2> QED BY <2>3 DEF LockInv, AnsweredOver
<1> QED BY <1>1, LockInvariant, PTL DEF Spec, NoLateStart

----------------------------------------------------------------------------
(* The epoch fence *)

Phases == {"none", "session", "attached", "drop", "ok", "failed"}

\* An attempt under way was given a generation that is past, or the current one and
\* then it is the attempt everybody shares.
FenceInv ==
  /\ preamble \in Memos(Cmds)
  /\ phase \in [Cmds -> Phases]
  /\ epoch \in [Cmds -> Nat]
  /\ \A a \in Cmds : phase[a] \in {"session", "attached", "drop"} =>
        /\ epoch[a] <= preamble.generation
        /\ epoch[a] = preamble.generation => preamble.promise = a

LEMMA FenceInit == Init => FenceInv
<1> SUFFICES ASSUME Init PROVE FenceInv OBVIOUS
<1>1. preamble \in Memos(Cmds) BY DEF Init, FreshMemo, Memos
<1>2. phase \in [Cmds -> Phases] /\ epoch \in [Cmds -> Nat] BY DEF Init, Phases
<1>3. \A a \in Cmds : phase[a] = "none" BY DEF Init
<1> QED BY <1>1, <1>2, <1>3 DEF FenceInv

\* Sharing, evicting or abandoning an attempt keeps the memo as it is or lets its
\* generation grow; only sharing keeps both promise and generation for sure.
Advances(m) ==
  /\ m \in Memos(Cmds)
  /\ \/ m.promise = preamble.promise /\ m.generation = preamble.generation
     \/ m.generation = preamble.generation + 1

LEMMA MemoAdvances ==
  ASSUME preamble \in Memos(Cmds), NEW a
  PROVE  Advances(Joined(preamble, TRUE)) /\ Advances(Evicted(preamble, a))
         /\ Advances(Abandoned(preamble, a)) /\ Advances(preamble)
<1>1. Advances(preamble) BY DEF Advances
<1>2. Advances(Joined(preamble, TRUE)) BY DEF Advances, Joined, Memos
<1>3. Advances(Evicted(preamble, a)) BY DEF Advances, Evicted, Memos
<1>4. CASE GivesUp(preamble, a) BY <1>1, <1>2, <1>3, <1>4 DEF Abandoned
<1>5. CASE ~GivesUp(preamble, a) /\ preamble.promise = a
  <2>1. Abandoned(preamble, a) = [preamble EXCEPT !.waiters = @ - 1] BY <1>5 DEF Abandoned
  <2>2. preamble.waiters - 1 \in Int BY DEF Memos
  <2>3. [preamble EXCEPT !.waiters = @ - 1] \in Memos(Cmds) BY <2>2 DEF Memos
  <2>4. Advances([preamble EXCEPT !.waiters = @ - 1]) BY <2>3 DEF Advances, Memos
  <2> QED BY <1>1, <1>2, <1>3, <2>1, <2>4
<1>6. CASE ~GivesUp(preamble, a) /\ preamble.promise # a
  BY <1>1, <1>2, <1>3, <1>6 DEF Abandoned
<1> QED BY <1>4, <1>5, <1>6

\* The actions that touch the memo or an attempt: all but the start of an attempt
\* advance the memo, leave the epochs, and move attempts that were under way.
LEMMA FenceSteps ==
  ASSUME FenceInv, Next
  PROVE  \/ \E c \in Cmds : StartPreamble(c)
         \/ /\ Advances(preamble') /\ UNCHANGED epoch
            /\ \/ UNCHANGED phase
               \/ \E a \in Cmds, p \in Phases : /\ phase' = [phase EXCEPT ![a] = p]
                                             /\ phase[a] \in {"session", "attached", "drop"}
<1>1. preamble \in Memos(Cmds) BY DEF FenceInv
<1>2. ASSUME NEW c \in Cmds, AfterSession(c)
      PROVE  /\ Advances(preamble') /\ UNCHANGED epoch /\ phase[c] = "session"
             /\ \E p \in Phases : phase' = [phase EXCEPT ![c] = p]
  BY <1>1, <1>2, MemoAdvances DEF AfterSession, SessionReady, AttemptFails, Phases
<1>3. ASSUME NEW c \in Cmds, AfterAttached(c)
      PROVE  /\ Advances(preamble') /\ UNCHANGED epoch /\ phase[c] = "attached"
             /\ \E p \in Phases : phase' = [phase EXCEPT ![c] = p]
  BY <1>1, <1>3, MemoAdvances DEF AfterAttached, AttachedReady, AttemptFails, Phases
<1>4. ASSUME NEW c \in Cmds, DropSettles(c)
      PROVE  /\ Advances(preamble') /\ UNCHANGED epoch /\ phase[c] = "drop"
             /\ \E p \in Phases : phase' = [phase EXCEPT ![c] = p]
  BY <1>1, <1>4, MemoAdvances DEF DropSettles, AttemptFails, Phases
<1>5. ASSUME NEW c \in Cmds, Arrive(c)
      PROVE  StartPreamble(c) \/ (Advances(preamble') /\ UNCHANGED <<epoch, phase>>)
  BY <1>1, <1>5, MemoAdvances DEF Arrive, JoinPreamble, attempts
<1>6. ASSUME NEW c \in Cmds, Deadline(c) PROVE Advances(preamble') /\ UNCHANGED <<epoch, phase>>
  BY <1>1, <1>6, MemoAdvances DEF Deadline, attempts, memos
<1>7. CASE UNCHANGED <<preamble, epoch, phase>>
  BY <1>1, <1>7, MemoAdvances
<1>8. \/ UNCHANGED <<preamble, epoch, phase>>
      \/ \E c \in Cmds : \/ AfterSession(c) \/ AfterAttached(c) \/ DropSettles(c)
                         \/ Arrive(c) \/ Deadline(c)
  BY DEF Next, AfterPreamble, AfterLock, Refuse, ArriveProbe, AttachedSettles, HandlerSettles,
         PersistSettles, SessionSettles, Idle, vars, memos, attempts
<1> QED BY <1>2, <1>3, <1>4, <1>5, <1>6, <1>7, <1>8

LEMMA FenceStep ==
  ASSUME FenceInv, Next
  PROVE  FenceInv'
<1>1. /\ preamble \in Memos(Cmds) /\ preamble.generation \in Nat
      /\ phase \in [Cmds -> Phases] /\ epoch \in [Cmds -> Nat]
  BY DEF FenceInv, Memos
<1>2. ASSUME NEW c \in Cmds, StartPreamble(c) PROVE FenceInv'
  <2>1. /\ preamble.promise = Unset /\ preamble' = Started(preamble, c, TRUE)
        /\ phase' = [phase EXCEPT ![c] = "session"]
        /\ epoch' = [epoch EXCEPT ![c] = preamble.generation]
    BY <1>2 DEF StartPreamble
  <2>2. preamble' \in Memos(Cmds) /\ preamble'.promise = c /\ preamble'.generation = preamble.generation
    <3> DEFINE m == [preamble EXCEPT !.promise = c]
    <3>1. preamble' = [m EXCEPT !.waiters = 1] BY <2>1 DEF Started
    <3>2. m \in Memos(Cmds) /\ m.promise = c /\ m.generation = preamble.generation BY <1>1 DEF Memos
    <3> HIDE DEF m
    <3> QED BY <3>1, <3>2 DEF Memos
  <2>3. phase' \in [Cmds -> Phases] /\ epoch' \in [Cmds -> Nat] BY <1>1, <2>1 DEF Phases
  <2>4. ASSUME NEW a \in Cmds, phase'[a] \in {"session", "attached", "drop"}
        PROVE  epoch'[a] <= preamble'.generation /\ (epoch'[a] = preamble'.generation => a = c)
    \* Nobody had the current generation before: the memo was empty.
    <3>1. CASE a = c
      <4>1. epoch'[a] = preamble.generation BY <1>1, <2>1, <3>1
      <4> QED BY <4>1, <1>1, <2>2, <3>1
    <3>2. CASE a # c
      <4>1. phase[a] \in {"session", "attached", "drop"} /\ epoch'[a] = epoch[a]
        BY <1>1, <2>1, <2>4, <3>2
      <4>2. epoch[a] <= preamble.generation /\ epoch[a] # preamble.generation
        BY <4>1, <2>1 DEF FenceInv
      <4> QED BY <4>1, <4>2, <2>2
    <3> QED BY <3>1, <3>2
  <2> QED BY <2>2, <2>3, <2>4 DEF FenceInv
<1>3. ASSUME Advances(preamble'), UNCHANGED epoch,
             \/ UNCHANGED phase
             \/ \E a \in Cmds, p \in Phases : /\ phase' = [phase EXCEPT ![a] = p]
                                           /\ phase[a] \in {"session", "attached", "drop"}
      PROVE  FenceInv'
  <2>1. /\ preamble' \in Memos(Cmds)
        /\ \/ preamble'.promise = preamble.promise /\ preamble'.generation = preamble.generation
           \/ preamble'.generation = preamble.generation + 1
    BY <1>3 DEF Advances
  <2>2. phase' \in [Cmds -> Phases] BY <1>1, <1>3
  <2>3. \A a \in Cmds : phase'[a] \in {"session", "attached", "drop"} =>
                        phase[a] \in {"session", "attached", "drop"}
    BY <1>1, <1>3
  <2>4. ASSUME NEW a \in Cmds, phase'[a] \in {"session", "attached", "drop"}
        PROVE  /\ epoch'[a] <= preamble'.generation
               /\ epoch'[a] = preamble'.generation => preamble'.promise = a
    <3>1. /\ epoch'[a] = epoch[a] /\ epoch[a] \in Nat /\ epoch[a] <= preamble.generation
          /\ epoch[a] = preamble.generation => preamble.promise = a
      BY <1>1, <1>3, <2>3, <2>4 DEF FenceInv
    <3>2. CASE preamble'.promise = preamble.promise /\ preamble'.generation = preamble.generation
      BY <3>1, <3>2
    <3>3. CASE preamble'.generation = preamble.generation + 1
      BY <3>1, <3>3, <1>1
    <3> QED BY <2>1, <3>2, <3>3
  <2> QED BY <1>1, <1>3, <2>1, <2>2, <2>4 DEF FenceInv
<1> QED BY <1>2, <1>3, FenceSteps

THEOREM FenceInvariant == Spec => []FenceInv
<1>1. FenceInv /\ UNCHANGED vars => FenceInv' BY DEF FenceInv, vars, memos, attempts
<1>2. FenceInv /\ [Next]_vars => FenceInv' BY <1>1, FenceStep
<1> QED BY <1>2, FenceInit, PTL DEF Spec

\* Only the attempt in the memo starts the next restore or drops pool tabs: an
\* abandoned one finds its generation gone.
THEOREM DispatcherFenced == Spec => Fenced
<1> DEFINE Moves == \A a \in Cmds : phase'[a] # phase[a] /\ phase'[a] \in {"attached", "drop"} =>
                      preamble.promise = a
<1>1. FenceInv /\ [Next]_vars => [Moves]_vars
  <2> SUFFICES ASSUME FenceInv, Next, NEW a \in Cmds, phase'[a] # phase[a],
                      phase'[a] \in {"attached", "drop"}
               PROVE  preamble.promise = a
    OBVIOUS
  <2>1. phase \in [Cmds -> Phases] BY DEF FenceInv
  <2>2. PICK c \in Cmds : AfterSession(c) \/ AfterAttached(c)
    BY <2>1 DEF Next, AfterPreamble, AfterLock, Refuse, ArriveProbe, AttachedSettles, HandlerSettles,
         PersistSettles, SessionSettles, Idle, vars, memos, attempts, Arrive, JoinPreamble, StartPreamble,
         Deadline, DropSettles, AttemptFails
  <2>3. a = c /\ Current(a) /\ phase[a] \in {"session", "attached"}
    BY <2>1, <2>2 DEF AfterSession, AfterAttached, AttemptFails, SessionReady, AttachedReady
  <2> QED BY <2>3 DEF FenceInv, Current, IsCurrent
<1> QED BY <1>1, FenceInvariant, PTL DEF Spec, Fenced

----------------------------------------------------------------------------
(* Who shares an attempt *)

Active == {"session", "attached", "drop"}

ShareTypes ==
  /\ wait \in [Cmds -> Cmds \cup {Unset}]
  /\ session \in Memos(Starters) /\ attached \in Memos(Cmds)
  /\ on \in [Cmds -> Starters \cup {Unset}] /\ restores \in Cmds \cup {Unset}
  /\ sRun \in [Starters -> {"none", "pending", "ok", "failed"}]
  /\ aRun \in [Cmds -> {"none", "pending", "ok", "failed"}]

\* A command waits for an attempt that was started; one that has not arrived started none.
Shares == \A c \in Cmds : /\ pc[c] = "prepare" => wait[c] \in Cmds /\ phase[wait[c]] # "none"
                          /\ pc[c] = "new" => phase[c] = "none"

\* Only the attempt in the memo is waited for; the memo holds no failed one, and counts
\* exactly those who wait, of whom there is one.
Counted ==
  /\ \A a \in Cmds : phase[a] \in Active /\ Waiters(a) # {} => preamble.promise = a
  /\ preamble.promise # Unset =>
       /\ phase[preamble.promise] \in Active \cup {"ok"}
       /\ epoch[preamble.promise] = preamble.generation /\ restores = preamble.promise
       /\ phase[preamble.promise] \in Active =>
            /\ IsFiniteSet(Waiters(preamble.promise)) /\ Waiters(preamble.promise) # {}
            /\ preamble.waiters = Cardinality(Waiters(preamble.promise))

\* The restore that the attempt in the memo awaits is the one in its memo, until it settles.
Awaits ==
  \A p \in Cmds : preamble.promise = p =>
    /\ phase[p] = "session" =>
         on[p] \in Starters /\ (sRun[on[p]] \in Settled \/ session.promise = on[p])
    /\ phase[p] = "attached" =>
         on[p] \in Cmds /\ (aRun[on[p]] \in Settled \/ attached.promise = on[p])

\* A session restore under way has one tracked caller, the attempt in the memo, or is the
\* one of start() and has none.
Restoring ==
  session.promise # Unset =>
    /\ sRun[session.promise] \in {"pending", "ok"}
    /\ sRun[session.promise] = "pending" =>
         IF preamble.promise = Unset THEN session.promise = Startup /\ session.waiters = 0
         ELSE /\ phase[preamble.promise] = "session"
              /\ on[preamble.promise] = session.promise /\ session.waiters = 1

ShareInv == ShareTypes /\ Shares /\ Counted /\ Awaits /\ Restoring

\* run() by a tracked caller, with no attempt in the memo or with one.
LEMMA MemoStarted ==
  ASSUME NEW S, NEW m \in Memos(S), NEW p
  PROVE  Started(m, p, TRUE) = [promise |-> p, generation |-> m.generation, waiters |-> 1]
<1> DEFINE n == [m EXCEPT !.promise = p]
<1>1. n = [promise |-> p, generation |-> m.generation, waiters |-> m.waiters] BY DEF Memos
<1>2. Started(m, p, TRUE) = [n EXCEPT !.waiters = 1] BY DEF Started
<1> HIDE DEF n
<1> QED BY <1>1, <1>2

LEMMA MemoJoined ==
  ASSUME NEW S, NEW m \in Memos(S)
  PROVE  /\ Joined(m, TRUE) \in Memos(S)
         /\ Joined(m, TRUE).promise = m.promise /\ Joined(m, TRUE).generation = m.generation
         /\ Joined(m, TRUE).waiters = m.waiters + 1
  BY DEF Joined, Memos

LEMMA ShareInit == Init => ShareInv
<1> SUFFICES ASSUME Init PROVE ShareInv OBVIOUS
<1>1. session = [promise |-> Startup, generation |-> 0, waiters |-> 0]
  BY DEF Init, Started, FreshMemo
<1>2. preamble.promise = Unset /\ preamble = FreshMemo /\ attached = FreshMemo BY DEF Init, FreshMemo
<1>3. ShareTypes
  <2>1. session \in Memos(Starters) /\ attached \in Memos(Cmds)
    BY <1>1, <1>2 DEF Memos, FreshMemo, Starters
  <2>2. sRun \in [Starters -> {"none", "pending", "ok", "failed"}] BY DEF Init
  <2> QED BY <2>1, <2>2 DEF Init, ShareTypes
<1>4. Shares BY DEF Init, Shares
<1>5. Counted BY <1>2 DEF Init, Counted, Active
<1>6. Awaits BY <1>2 DEF Awaits
<1>7. Restoring
  <2>1. session.promise = Startup /\ session.waiters = 0 BY <1>1
  <2>2. sRun[Startup] = "pending" BY DEF Init, Starters
  <2> QED BY <1>2, <2>1, <2>2 DEF Restoring
<1> QED BY <1>3, <1>4, <1>5, <1>6, <1>7 DEF ShareInv

\* A step that moves commands and leaves every attempt and those who wait for it.
LEMMA ShareAside ==
  ASSUME ShareInv, UNCHANGED <<memos, attempts, runs>>, wait' \in [Cmds -> Cmds \cup {Unset}],
         \A c \in Cmds : /\ pc'[c] = "prepare" => pc[c] = "prepare" /\ wait'[c] = wait[c]
                         /\ pc'[c] = "new" => pc[c] = "new",
         \A a \in Cmds : phase[a] \in Active => Waiters(a)' = Waiters(a)
  PROVE  ShareInv'
<1> USE DEF memos, attempts, runs
<1>1. ShareTypes' BY DEF ShareInv, ShareTypes
<1>2. Shares' BY DEF ShareInv, Shares
<1>3. Counted'
  <2>1. preamble.promise # Unset /\ phase[preamble.promise] \in Active => preamble.promise \in Cmds
    BY DEF ShareInv, Counted, ShareTypes
  <2> QED BY <2>1 DEF ShareInv, Counted
<1>4. Awaits' /\ Restoring' BY DEF ShareInv, Awaits, Restoring
<1> QED BY <1>1, <1>2, <1>3, <1>4 DEF ShareInv

LEMMA ShareMoves ==
  ASSUME LockInv, ShareInv, NEW c \in Cmds,
         \/ AfterPreamble(c) \/ AfterLock(c) \/ Refuse(c) \/ ArriveProbe(c)
         \/ HandlerSettles(c) \/ PersistSettles(c)
  PROVE  ShareInv'
<1>1. pc \in [Cmds -> Places] /\ wait \in [Cmds -> Cmds \cup {Unset}]
  BY DEF LockInv, LockTypes, ShareInv, ShareTypes
<1>2. PICK place \in Places \ {"prepare", "new"} : pc' = [pc EXCEPT ![c] = place]
  BY DEF AfterPreamble, AfterLock, Refuse, ArriveProbe, HandlerSettles, PersistSettles, Finish, Places
<1>3. UNCHANGED <<expired, memos, attempts, runs>>
  BY DEF AfterPreamble, AfterLock, Refuse, ArriveProbe, HandlerSettles, PersistSettles
<1>4. wait' = wait \/ (wait' = [wait EXCEPT ![c] = Unset] /\ phase[wait[c]] \in Settled)
  BY DEF AfterPreamble, PreambleReady, AfterLock, Refuse, ArriveProbe, HandlerSettles, PersistSettles
<1>5. pc[c] = "prepare" => phase[wait[c]] \in Settled
  BY DEF AfterPreamble, PreambleReady, AfterLock, LockReady, Refuse, ArriveProbe, HandlerSettles, PersistSettles
<1>6. \A d \in Cmds : /\ pc'[d] = "prepare" => pc[d] = "prepare" /\ wait'[d] = wait[d]
                      /\ pc'[d] = "new" => pc[d] = "new"
  BY <1>1, <1>2, <1>4
<1>7. ASSUME NEW a \in Cmds, phase[a] \in Active PROVE Waiters(a)' = Waiters(a)
  <2>1. ~(pc[c] = "prepare" /\ wait[c] = a) BY <1>5, <1>7 DEF Active, Settled
  <2>2. \A d \in Cmds : pc'[d] = "prepare" /\ wait'[d] = a <=> pc[d] = "prepare" /\ wait[d] = a
    BY <1>1, <1>2, <1>4, <1>6, <2>1
  <2> QED BY <1>3, <2>2 DEF Waiters
<1>8. wait' \in [Cmds -> Cmds \cup {Unset}] BY <1>1, <1>4
<1> QED BY <1>3, <1>6, <1>7, <1>8, ShareAside

\* A step of attempts and restores: the waiting commands stay as they are.
LEMMA WaitersStay ==
  ASSUME UNCHANGED commands, NEW a PROVE Waiters(a)' = Waiters(a)
  BY DEF commands, Waiters

\* A session restore settles.
LEMMA ShareSession ==
  ASSUME ShareInv, NEW r \in Starters, SessionSettles(r) PROVE ShareInv'
<1>1. UNCHANGED <<pc, wait, expired, preamble, attached, phase, epoch, on, restores, aRun>> /\ UNCHANGED commands
  BY DEF SessionSettles, commands, attempts
<1>2. /\ sRun[r] = "pending" /\ session \in Memos(Starters)
      /\ \/ sRun' = [sRun EXCEPT ![r] = "ok"] /\ UNCHANGED session
         \/ sRun' = [sRun EXCEPT ![r] = "failed"] /\ session' = Evicted(session, r)
  BY DEF SessionSettles, ShareInv, ShareTypes
<1>3. /\ session' \in Memos(Starters)
      /\ session' = session \/ (session.promise = r /\ session'.promise = Unset)
  BY <1>2 DEF Evicted, Memos
<1>4. sRun' \in [Starters -> {"none", "pending", "ok", "failed"}] /\ sRun'[r] \in Settled
      /\ \A q \in Starters \ {r} : sRun'[q] = sRun[q]
  BY <1>2 DEF ShareInv, ShareTypes, Settled
<1>5. ShareTypes' BY <1>1, <1>3, <1>4 DEF ShareInv, ShareTypes
<1>6. Shares' BY <1>1 DEF ShareInv, Shares
<1>7. Counted' BY <1>1, WaitersStay DEF ShareInv, Counted
<1>8. Awaits' BY <1>1, <1>3, <1>4 DEF ShareInv, Awaits
<1>9. Restoring'
  <2>1. session'.promise # Unset => session' = session /\ session.promise \in Starters BY <1>3 DEF Memos
  <2>2. session'.promise = r => session' = session /\ sRun'[r] = "ok"
    <3>1. r # Unset BY DEF Starters
    <3>2. CASE session' = session /\ sRun' = [sRun EXCEPT ![r] = "ok"] BY <3>2 DEF ShareInv, ShareTypes
    <3>3. CASE session' = Evicted(session, r) BY <1>2, <3>1, <3>3 DEF Evicted, Memos
    <3> QED BY <1>2, <3>2, <3>3
  <2> QED BY <1>1, <1>4, <2>1, <2>2 DEF ShareInv, Restoring
<1> QED BY <1>5, <1>6, <1>7, <1>8, <1>9 DEF ShareInv

LEMMA ShareAttached ==
  ASSUME ShareInv, NEW r \in Cmds, AttachedSettles(r) PROVE ShareInv'
<1>1. UNCHANGED <<pc, wait, expired, preamble, session, phase, epoch, on, restores, sRun>> /\ UNCHANGED commands
  BY DEF AttachedSettles, commands, attempts
<1>2. /\ aRun[r] = "pending" /\ attached \in Memos(Cmds)
      /\ \/ aRun' = [aRun EXCEPT ![r] = "ok"] /\ UNCHANGED attached
         \/ aRun' = [aRun EXCEPT ![r] = "failed"] /\ attached' = Evicted(attached, r)
  BY DEF AttachedSettles, ShareInv, ShareTypes
<1>3. /\ attached' \in Memos(Cmds)
      /\ attached' = attached \/ (attached.promise = r /\ attached'.promise = Unset)
  BY <1>2 DEF Evicted, Memos
<1>4. aRun' \in [Cmds -> {"none", "pending", "ok", "failed"}] /\ aRun'[r] \in Settled
      /\ \A q \in Cmds \ {r} : aRun'[q] = aRun[q]
  BY <1>2 DEF ShareInv, ShareTypes, Settled
<1>5. ShareTypes' BY <1>1, <1>3, <1>4 DEF ShareInv, ShareTypes
<1>6. Shares' BY <1>1 DEF ShareInv, Shares
<1>7. Counted' BY <1>1, WaitersStay DEF ShareInv, Counted
<1>8. Awaits' BY <1>1, <1>3, <1>4 DEF ShareInv, Awaits
<1>9. Restoring' BY <1>1 DEF ShareInv, Restoring
<1> QED BY <1>5, <1>6, <1>7, <1>8, <1>9 DEF ShareInv

\* An attempt under way moves on, or fails and leaves the memo.
LEMMA ShareAttempt ==
  ASSUME ShareInv, NEW c \in Cmds, phase \in [Cmds -> Phases], phase[c] \in Active,
         UNCHANGED <<commands, session, sRun, epoch, restores>>,
         preamble \in Memos(Cmds),
         phase[c] = "session" => sRun[on[c]] \in Settled,
         NEW next \in {"attached", "drop", "ok", "failed"}, phase' = [phase EXCEPT ![c] = next],
         preamble' = IF next = "failed" THEN Evicted(preamble, c) ELSE preamble,
         \/ UNCHANGED <<attached, on, aRun>> /\ next # "attached"
         \/ /\ next = "attached" /\ preamble.promise = c
            /\ attached' \in Memos(Cmds) /\ attached'.promise # Unset
            /\ on' = [on EXCEPT ![c] = attached'.promise]
            /\ aRun' \in [Cmds -> {"none", "pending", "ok", "failed"}]
  PROVE  ShareInv'
<1>1. UNCHANGED <<pc, wait, expired>> BY DEF commands
<1>2. phase'[c] = next /\ \A a \in Cmds \ {c} : phase'[a] = phase[a] OBVIOUS
<1>3. IF next = "failed" /\ preamble.promise = c THEN preamble'.promise = Unset ELSE preamble' = preamble
  BY DEF Evicted, Memos
<1>4. \A a \in Cmds \ {c} : on'[a] = on[a] BY DEF ShareInv, ShareTypes
<1>5. ShareTypes'
  <2>1. next = "attached" => attached'.promise \in Cmds BY DEF Memos
  <2>2. on' \in [Cmds -> Starters \cup {Unset}] BY <2>1 DEF ShareInv, ShareTypes, Starters
  <2>3. /\ attached' \in Memos(Cmds)
        /\ aRun' \in [Cmds -> {"none", "pending", "ok", "failed"}]
    BY DEF ShareInv, ShareTypes
  <2> QED BY <1>1, <2>2, <2>3 DEF ShareInv, ShareTypes
<1>6. Shares' BY <1>1, <1>2 DEF ShareInv, Shares, Active
<1>7. preamble.promise = c \/ preamble.promise # c OBVIOUS
<1>8. \A a \in Cmds : Waiters(a)' = Waiters(a) BY WaitersStay
<1>9. Counted'
  <2>1. ASSUME NEW a \in Cmds, phase'[a] \in Active, Waiters(a)' # {} PROVE preamble'.promise = a
    <3>1. phase[a] \in Active /\ ~(a = c /\ next = "failed") BY <1>2, <2>1 DEF Active
    <3>2. preamble.promise = a BY <1>8, <2>1, <3>1 DEF ShareInv, Counted
    <3> QED BY <1>3, <3>1, <3>2
  <2>2. CASE preamble'.promise = Unset BY <2>1, <2>2 DEF Counted
  <2>3. CASE preamble'.promise # Unset
    <3>1. preamble' = preamble /\ ~(next = "failed" /\ preamble.promise = c) BY <1>3, <2>3
    <3>2. preamble.promise \in Cmds BY <2>3, <3>1 DEF Memos
    <3>3. /\ phase[preamble.promise] \in Active \cup {"ok"}
          /\ epoch[preamble.promise] = preamble.generation /\ restores = preamble.promise
          /\ phase[preamble.promise] \in Active =>
               /\ IsFiniteSet(Waiters(preamble.promise)) /\ Waiters(preamble.promise) # {}
               /\ preamble.waiters = Cardinality(Waiters(preamble.promise))
      BY <2>3, <3>1 DEF ShareInv, Counted
    <3>4. /\ phase'[preamble.promise] \in Active \cup {"ok"}
          /\ phase'[preamble.promise] \in Active => phase[preamble.promise] \in Active
      BY <1>2, <3>1, <3>2, <3>3 DEF Active
    <3> QED BY <1>8, <2>1, <3>1, <3>2, <3>3, <3>4 DEF Counted
  <2> QED BY <2>2, <2>3
<1>10. Awaits'
  <2> SUFFICES ASSUME NEW p \in Cmds, preamble'.promise = p
               PROVE  /\ phase'[p] = "session" =>
                           on'[p] \in Starters /\ (sRun'[on'[p]] \in Settled \/ session'.promise = on'[p])
                      /\ phase'[p] = "attached" =>
                           on'[p] \in Cmds /\ (aRun'[on'[p]] \in Settled \/ attached'.promise = on'[p])
    BY DEF Awaits
  <2>1. preamble' = preamble BY <1>3
  <2>2. CASE p = c
    <3>1. phase'[p] # "session" BY <1>2, <2>2
    <3>2. next = "attached" => on'[c] = attached'.promise /\ on'[c] \in Cmds
      BY DEF ShareInv, ShareTypes, Memos
    <3> QED BY <1>2, <2>2, <3>1, <3>2
  <2>3. CASE p # c
    <3>1. UNCHANGED <<attached, on, aRun>> BY <2>1, <2>3
    <3> QED BY <1>2, <2>1, <2>3, <3>1 DEF ShareInv, Awaits
  <2> QED BY <2>2, <2>3
<1>11. Restoring'
  <2>1. CASE session.promise # Unset /\ sRun[session.promise] = "pending"
    <3>1. preamble.promise # c
      <4>1. preamble.promise = c => phase[c] = "session" /\ on[c] = session.promise
        BY <2>1 DEF ShareInv, Restoring, Starters
      <4> QED BY <2>1, <4>1 DEF Settled
    <3>2. preamble' = preamble BY <1>3, <3>1
    <3>3. preamble.promise # Unset => preamble.promise \in Cmds \ {c} BY <3>1 DEF Memos
    <3> QED BY <1>2, <1>4, <2>1, <3>2, <3>3 DEF ShareInv, Restoring
  <2>2. CASE ~(session.promise # Unset /\ sRun[session.promise] = "pending")
    BY <2>2 DEF ShareInv, Restoring
  <2> QED BY <2>1, <2>2
<1> QED BY <1>5, <1>6, <1>9, <1>10, <1>11 DEF ShareInv

LEMMA ShareAttempts ==
  ASSUME FenceInv, ShareInv, NEW c \in Cmds, AfterSession(c) \/ AfterAttached(c) \/ DropSettles(c)
  PROVE  ShareInv'
<1>1. phase \in [Cmds -> Phases] /\ preamble \in Memos(Cmds) /\ attached \in Memos(Cmds)
  BY DEF FenceInv, ShareInv, ShareTypes
<1>2. CASE DropSettles(c)
  <2>1. phase[c] = "drop" /\ UNCHANGED <<commands, session, attached, epoch, on, restores, sRun, aRun>>
    BY <1>2 DEF DropSettles, runs
  <2>2. CASE phase' = [phase EXCEPT ![c] = "ok"] /\ UNCHANGED preamble
    BY <1>1, <2>1, <2>2, ShareAttempt DEF Active
  <2>3. CASE AttemptFails(c)
    BY <1>1, <2>1, <2>3, ShareAttempt DEF Active, AttemptFails
  <2> QED BY <1>2, <2>2, <2>3 DEF DropSettles
<1>3. CASE AfterAttached(c)
  <2>1. phase[c] = "attached" /\ UNCHANGED <<commands, session, attached, epoch, on, restores, sRun, aRun>>
    BY <1>3 DEF AfterAttached, AttachedReady, runs
  <2>2. ASSUME NEW next \in {"drop", "ok"}, phase' = [phase EXCEPT ![c] = next], UNCHANGED preamble
        PROVE  ShareInv'
    BY <1>1, <2>1, <2>2, ShareAttempt DEF Active
  <2>3. CASE AttemptFails(c)
    BY <1>1, <2>1, <2>3, ShareAttempt DEF Active, AttemptFails
  <2> QED BY <1>3, <2>2, <2>3 DEF AfterAttached
<1>4. CASE AfterSession(c)
  <2>1. /\ phase[c] = "session" /\ sRun[on[c]] \in Settled
        /\ UNCHANGED <<commands, session, epoch, restores, sRun>>
    BY <1>4 DEF AfterSession, SessionReady
  <2>2. CASE AttemptFails(c) /\ UNCHANGED <<attached, on, aRun>>
    BY <1>1, <2>1, <2>2, ShareAttempt DEF Active, AttemptFails
  <2>3. CASE phase' = [phase EXCEPT ![c] = "ok"] /\ UNCHANGED <<preamble, attached, on, aRun>>
    BY <1>1, <2>1, <2>3, ShareAttempt DEF Active
  <2>4. CASE /\ Current(c) /\ phase' = [phase EXCEPT ![c] = "attached"] /\ UNCHANGED preamble
             /\ IF attached.promise = Unset
                THEN /\ attached' = Started(attached, c, TRUE)
                     /\ aRun' = [aRun EXCEPT ![c] = "pending"] /\ on' = [on EXCEPT ![c] = c]
                ELSE /\ attached' = Joined(attached, TRUE)
                     /\ on' = [on EXCEPT ![c] = attached.promise] /\ UNCHANGED aRun
    <3>1. preamble.promise = c BY <2>1, <2>4 DEF FenceInv, Current, IsCurrent
    <3>2. CASE attached.promise = Unset
      <4>1. attached' \in Memos(Cmds) /\ attached'.promise = c
        <5>1. attached' = Started(attached, c, TRUE) BY <2>4, <3>2
        <5>2. attached' = [promise |-> c, generation |-> attached.generation, waiters |-> 1]
          BY <1>1, <5>1, MemoStarted
        <5> QED BY <1>1, <5>2 DEF Memos
      <4>2. aRun' \in [Cmds -> {"none", "pending", "ok", "failed"}]
        BY <2>4, <3>2 DEF ShareInv, ShareTypes
      <4> QED BY <1>1, <2>1, <2>4, <3>1, <3>2, <4>1, <4>2, ShareAttempt DEF Active
    <3>3. CASE attached.promise # Unset
      <4>1. attached' \in Memos(Cmds) /\ attached'.promise = attached.promise
        BY <1>1, <2>4, <3>3 DEF Joined, Memos
      <4>2. aRun' \in [Cmds -> {"none", "pending", "ok", "failed"}]
        BY <2>4, <3>3 DEF ShareInv, ShareTypes
      <4> QED BY <1>1, <2>1, <2>4, <3>1, <3>3, <4>1, <4>2, ShareAttempt DEF Active
    <3> QED BY <3>2, <3>3
  <2> QED BY <1>4, <2>2, <2>3, <2>4 DEF AfterSession
<1> QED BY <1>2, <1>3, <1>4

\* A command arrives and shares the attempt in the memo.
LEMMA ShareJoin ==
  ASSUME LockInv, FenceInv, ShareInv, NEW c \in Cmds, Arrive(c), JoinPreamble(c)
  PROVE  ShareInv'
<1> DEFINE p == preamble.promise
<1>1. /\ pc \in [Cmds -> Places] /\ wait \in [Cmds -> Cmds \cup {Unset}]
      /\ preamble \in Memos(Cmds) /\ pc[c] = "new" /\ c \notin expired
  BY DEF Arrive, LockInv, LockTypes, AnsweredOver, FenceInv, ShareInv, ShareTypes
<1>2. /\ p \in Cmds /\ p # Unset /\ preamble'.promise = p
      /\ preamble'.generation = preamble.generation /\ preamble'.waiters = preamble.waiters + 1
  <2>1. preamble' = Joined(preamble, TRUE) /\ p # Unset BY DEF JoinPreamble
  <2>2. p \in Cmds BY <1>1, <2>1 DEF Memos
  <2> QED BY <1>1, <2>1, <2>2, MemoJoined
<1>3. /\ pc' = [pc EXCEPT ![c] = "prepare"] /\ wait' = [wait EXCEPT ![c] = p]
      /\ UNCHANGED <<expired, session, attached, phase, epoch, on, restores, sRun, aRun>>
  BY DEF Arrive, JoinPreamble, attempts, runs
<1>4. phase[p] \in Active \cup {"ok"} BY <1>2 DEF ShareInv, Counted
<1>5. ShareTypes' BY <1>1, <1>2, <1>3 DEF ShareInv, ShareTypes
<1>6. Shares' BY <1>1, <1>2, <1>3, <1>4 DEF ShareInv, Shares, Active
<1>7. Waiters(p)' = Waiters(p) \cup {c} /\ c \notin Waiters(p) /\ \A a \in Cmds \ {p} : Waiters(a)' = Waiters(a)
  BY <1>1, <1>2, <1>3 DEF Waiters
<1>8. Counted'
  <2>1. \A a \in Cmds : phase[a] \in Active /\ Waiters(a)' # {} => a = p
    BY <1>7 DEF ShareInv, Counted
  <2>2. phase[p] \in Active =>
          IsFiniteSet(Waiters(p)') /\ preamble'.waiters = Cardinality(Waiters(p)')
    <3>1. phase[p] \in Active => IsFiniteSet(Waiters(p)) /\ preamble.waiters = Cardinality(Waiters(p))
      BY <1>2 DEF ShareInv, Counted
    <3> QED
      <4> SUFFICES ASSUME phase[p] \in Active
                   PROVE  IsFiniteSet(Waiters(p)') /\ preamble'.waiters = Cardinality(Waiters(p)')
        OBVIOUS
      <4> HIDE DEF p
      <4>1. IsFiniteSet(Waiters(p)) /\ preamble.waiters = Cardinality(Waiters(p)) BY <3>1
      <4>2. Waiters(p)' = Waiters(p) \cup {c} /\ c \notin Waiters(p) BY <1>7
      <4>3. IsFiniteSet(Waiters(p) \cup {c}) /\ Cardinality(Waiters(p) \cup {c}) = Cardinality(Waiters(p)) + 1
        BY <4>1, <4>2, FS_AddElement
      <4> QED BY <1>2, <4>1, <4>2, <4>3
  <2>3. epoch[p] = preamble.generation /\ restores = p BY <1>2 DEF ShareInv, Counted
  <2> QED BY <1>2, <1>3, <1>4, <1>7, <2>1, <2>2, <2>3 DEF Counted
<1>9. Awaits' BY <1>2, <1>3 DEF ShareInv, Awaits
<1>10. Restoring' BY <1>2, <1>3 DEF ShareInv, Restoring
<1> QED BY <1>5, <1>6, <1>8, <1>9, <1>10 DEF ShareInv

\* A command arrives and starts an attempt.
LEMMA ShareStart ==
  ASSUME LockInv, FenceInv, ShareInv, NEW c \in Cmds, Arrive(c), StartPreamble(c)
  PROVE  ShareInv'
<1>1. /\ pc \in [Cmds -> Places] /\ wait \in [Cmds -> Cmds \cup {Unset}]
      /\ phase \in [Cmds -> Phases] /\ epoch \in [Cmds -> Nat] /\ on \in [Cmds -> Starters \cup {Unset}]
      /\ preamble \in Memos(Cmds) /\ session \in Memos(Starters)
      /\ pc[c] = "new" /\ c \notin expired /\ c \in Starters
  BY DEF Arrive, LockInv, LockTypes, AnsweredOver, FenceInv, ShareInv, ShareTypes, Starters
<1>2. /\ preamble.promise = Unset /\ preamble' = Started(preamble, c, TRUE) /\ restores' = c
      /\ pc' = [pc EXCEPT ![c] = "prepare"] /\ wait' = [wait EXCEPT ![c] = c]
      /\ phase' = [phase EXCEPT ![c] = "session"] /\ epoch' = [epoch EXCEPT ![c] = preamble.generation]
      /\ UNCHANGED <<expired, attached, aRun>>
  BY DEF Arrive, StartPreamble
<1>3. preamble'.promise = c /\ preamble'.generation = preamble.generation /\ preamble'.waiters = 1
  <2>1. preamble' = [promise |-> c, generation |-> preamble.generation, waiters |-> 1]
    BY <1>1, <1>2, MemoStarted
  <2> QED BY <2>1
<1>4. /\ session' \in Memos(Starters) /\ session'.promise # Unset
      /\ on' = [on EXCEPT ![c] = session'.promise]
      /\ sRun' \in [Starters -> {"none", "pending", "ok", "failed"}]
      /\ sRun'[session'.promise] \in {"pending", "ok"}
      /\ sRun'[session'.promise] = "pending" => session'.waiters = 1
  <2>1. CASE session.promise = Unset
    <3>1. session'.promise = c /\ session'.waiters = 1 /\ session' \in Memos(Starters)
      <4>1. session' = Started(session, c, TRUE) BY <2>1 DEF StartPreamble
      <4>2. session' = [promise |-> c, generation |-> session.generation, waiters |-> 1]
        BY <1>1, <4>1, MemoStarted
      <4> QED BY <1>1, <4>2 DEF Memos
    <3>2. sRun' = [sRun EXCEPT ![c] = "pending"] /\ on' = [on EXCEPT ![c] = c]
      BY <2>1 DEF StartPreamble
    <3> QED BY <1>1, <3>1, <3>2 DEF ShareInv, ShareTypes
  <2>2. CASE session.promise # Unset
    <3>1. session' \in Memos(Starters) /\ session'.promise = session.promise
          /\ session'.waiters = session.waiters + 1
      <4>1. session' = Joined(session, TRUE) BY <2>2 DEF StartPreamble
      <4> QED BY <1>1, <4>1, MemoJoined
    <3>2. sRun' = sRun /\ on' = [on EXCEPT ![c] = session.promise]
      BY <2>2 DEF StartPreamble
    <3>3. sRun[session.promise] \in {"pending", "ok"}
          /\ (sRun[session.promise] = "pending" => session.waiters = 0)
      BY <1>2, <2>2 DEF ShareInv, Restoring
    <3> QED BY <2>2, <3>1, <3>2, <3>3 DEF ShareInv, ShareTypes
  <2> QED BY <2>1, <2>2
<1>5. session'.promise \in Starters /\ on'[c] = session'.promise BY <1>1, <1>4 DEF Memos
<1>6. ShareTypes'
  <2>1. on' \in [Cmds -> Starters \cup {Unset}] /\ wait' \in [Cmds -> Cmds \cup {Unset}]
    BY <1>1, <1>2, <1>4, <1>5
  <2> QED BY <1>2, <1>4, <2>1 DEF ShareInv, ShareTypes
<1>7. Shares' BY <1>1, <1>2 DEF ShareInv, Shares
<1>8. Waiters(c)' = {c} /\ \A a \in Cmds \ {c} : Waiters(a)' = Waiters(a)
  <2>1. \A d \in Cmds : pc[d] = "prepare" => wait[d] # c BY <1>1 DEF ShareInv, Shares
  <2> QED BY <1>1, <1>2, <2>1 DEF Waiters
<1>9. Counted'
  <2>1. \A a \in Cmds : phase'[a] \in Active /\ Waiters(a)' # {} => a = c
    BY <1>1, <1>2, <1>8 DEF ShareInv, Counted
  <2>2. IsFiniteSet(Waiters(c)') /\ Cardinality(Waiters(c)') = 1 BY <1>8, FS_Singleton
  <2>3. phase'[c] \in Active /\ epoch'[c] = preamble'.generation /\ restores' = c
    BY <1>1, <1>2, <1>3 DEF Active
  <2> QED BY <1>3, <1>8, <2>1, <2>2, <2>3 DEF Counted
<1>10. phase'[c] = "session" BY <1>1, <1>2
<1>11. Awaits' BY <1>3, <1>5, <1>10 DEF Awaits
<1>12. Restoring' BY <1>3, <1>4, <1>5, <1>10 DEF Restoring
<1> QED BY <1>6, <1>7, <1>9, <1>11, <1>12 DEF ShareInv

\* The deadline of a command: whether it gives up an attempt or not.
LEMMA ShareDeadline ==
  ASSUME LockInv, FenceInv, ShareInv, NEW c \in Cmds, Deadline(c)
  PROVE  ShareInv'
<1> DEFINE a0 == wait[c]
<1>1. /\ UNCHANGED <<pc, wait, phase, epoch, on, restores, sRun, aRun>>
      /\ expired' = expired \cup {c} /\ c \notin expired /\ Quiet
      /\ preamble \in Memos(Cmds) /\ session \in Memos(Starters) /\ attached \in Memos(Cmds)
  BY DEF Deadline, attempts, runs, FenceInv, ShareInv, ShareTypes
<1>2. \A a \in Cmds : Waiters(a)' = Waiters(a) \ {c} BY <1>1 DEF Waiters
<1>3. Shares' BY <1>1 DEF ShareInv, Shares
<1>4. ASSUME UNCHANGED memos, \A a \in Cmds : Waiters(a)' = Waiters(a) \/ preamble.promise # a
      PROVE  ShareInv'
  <2>1. UNCHANGED <<preamble, session, attached>> BY <1>4 DEF memos
  <2>2. ShareTypes' BY <1>1, <2>1 DEF ShareInv, ShareTypes
  <2>3. Counted'
    <3>1. preamble.promise # Unset => preamble.promise \in Cmds /\ Waiters(preamble.promise)' = Waiters(preamble.promise)
      <4> SUFFICES ASSUME preamble.promise # Unset
                   PROVE  preamble.promise \in Cmds /\ Waiters(preamble.promise)' = Waiters(preamble.promise)
        OBVIOUS
      <4>1. preamble.promise \in Cmds BY <1>1 DEF Memos
      <4>2. preamble' = preamble BY <2>1
      <4> QED BY <1>4, <4>1, <4>2
    <3>2. \A a \in Cmds : Waiters(a)' # {} => Waiters(a) # {} BY <1>2
    <3> QED BY <1>1, <2>1, <3>1, <3>2 DEF ShareInv, Counted
  <2>4. Awaits' /\ Restoring' BY <1>1, <2>1 DEF ShareInv, Awaits, Restoring
  <2> QED BY <1>3, <2>2, <2>3, <2>4 DEF ShareInv
<1>5. CASE pc[c] # "prepare"
  <2>1. UNCHANGED memos BY <1>5 DEF Deadline
  <2>2. \A a \in Cmds : Waiters(a)' = Waiters(a) BY <1>1, <1>5 DEF Waiters
  <2> QED BY <1>4, <2>1, <2>2
<1>6. CASE pc[c] = "prepare" /\ preamble.promise # a0
  <2>1. UNCHANGED memos BY <1>6 DEF Deadline, memos, Abandoned, GivesUp
  <2>2. \A a \in Cmds : Waiters(a)' = Waiters(a) \/ preamble.promise # a BY <1>1, <1>6 DEF Waiters
  <2> QED BY <1>4, <2>1, <2>2
<1>7. CASE pc[c] = "prepare" /\ preamble.promise = a0
  <2>1. a0 \in Cmds /\ a0 # Unset /\ phase[a0] \notin Settled
    BY <1>1, <1>7 DEF ShareInv, Shares, Quiet, PreambleReady
  <2>2. /\ phase[a0] \in Active /\ epoch[a0] = preamble.generation /\ restores = a0
        /\ IsFiniteSet(Waiters(a0)) /\ preamble.waiters = Cardinality(Waiters(a0))
    BY <1>7, <2>1 DEF ShareInv, Counted, Settled
  <2>3. c \in Waiters(a0) BY <1>1, <1>7 DEF Waiters
  <2>4. /\ IsFiniteSet(Waiters(a0)') /\ Cardinality(Waiters(a0)') = preamble.waiters - 1
        /\ Cardinality(Waiters(a0)') \in Nat
    <3>1. IsFiniteSet(Waiters(a0) \ {c}) /\ Cardinality(Waiters(a0) \ {c}) = Cardinality(Waiters(a0)) - 1
      BY <2>2, <2>3, FS_RemoveElement
    <3>2. Cardinality(Waiters(a0) \ {c}) \in Nat BY <3>1, FS_CardinalityType
    <3>3. Waiters(a0)' = Waiters(a0) \ {c} BY <1>1, <2>1 DEF Waiters
    <3> QED BY <2>2, <3>1, <3>2, <3>3
  <2>5. \A a \in Cmds : phase[a] \in Active /\ Waiters(a)' # {} => a = a0
    BY <1>2, <1>7 DEF ShareInv, Counted
  <2>6. CASE ~GivesUp(preamble, a0)
    <3>1. /\ preamble' = [preamble EXCEPT !.waiters = @ - 1] /\ UNCHANGED <<session, attached>>
          /\ ~(preamble.waiters - 1 <= 0)
      BY <1>7, <2>6 DEF Deadline, Abandoned, GivesUp
    <3>2. preamble'.promise = a0 /\ preamble'.generation = preamble.generation
          /\ preamble'.waiters = preamble.waiters - 1
      BY <1>1, <1>7, <3>1 DEF Memos
    <3>3. Waiters(a0)' # {} BY <2>4, <3>1, FS_EmptySet
    <3>4. Counted' BY <1>1, <2>2, <2>4, <2>5, <3>2, <3>3 DEF Counted
    <3>5. Awaits' /\ Restoring' BY <1>1, <1>7, <2>1, <3>1, <3>2 DEF ShareInv, Awaits, Restoring
    <3>6. ShareTypes' BY <1>1, <3>1 DEF ShareInv, ShareTypes
    <3> QED BY <1>3, <3>4, <3>5, <3>6 DEF ShareInv
  <2>7. CASE GivesUp(preamble, a0)
    <3>1. /\ preamble' = Evicted(preamble, a0)
          /\ session' = IF phase[a0] = "session" THEN Abandoned(session, on[a0]) ELSE session
          /\ attached' = IF phase[a0] = "attached" THEN Abandoned(attached, on[a0]) ELSE attached
      BY <1>7, <2>2, <2>7 DEF Deadline, Abandoned
    <3>2. preamble'.promise = Unset BY <1>7, <3>1 DEF Evicted
    <3>3. Waiters(a0)' = {}
      BY <2>4, <2>7, FS_EmptySet DEF GivesUp
    <3>4. Counted' BY <1>1, <2>5, <3>2, <3>3 DEF Counted
    <3>5. Awaits' BY <3>2 DEF Awaits
    <3>6. \A S : \A m \in Memos(S) : \A q : Abandoned(m, q) \in Memos(S)
      BY DEF Abandoned, GivesUp, Evicted, Memos
    <3>7. session' \in Memos(Starters) /\ attached' \in Memos(Cmds) BY <1>1, <3>1, <3>6
    <3>8. ShareTypes' BY <1>1, <3>7 DEF ShareInv, ShareTypes
    <3>9. Restoring'
      <4>1. CASE session.promise # Unset /\ sRun[session.promise] = "pending"
        <5>1. phase[a0] = "session" /\ on[a0] = session.promise /\ session.waiters = 1
          BY <1>7, <2>1, <4>1 DEF ShareInv, Restoring
        <5>2. session'.promise = Unset BY <3>1, <5>1 DEF Abandoned, GivesUp, Evicted
        <5> QED BY <5>2 DEF Restoring
      <4>2. CASE session.promise # Unset /\ sRun[session.promise] = "ok"
        <5>1. session'.promise \in {session.promise, Unset}
          BY <1>1, <3>1 DEF Abandoned, GivesUp, Evicted, Memos
        <5> QED BY <1>1, <4>2, <5>1 DEF Restoring
      <4>3. CASE session.promise = Unset
        <5>1. session'.promise = Unset
          BY <1>1, <3>1, <4>3 DEF Abandoned, GivesUp, Evicted, Memos
        <5> QED BY <5>1 DEF Restoring
      <4> QED BY <4>1, <4>2, <4>3 DEF ShareInv, Restoring
    <3> QED BY <1>3, <3>4, <3>5, <3>8, <3>9 DEF ShareInv
  <2> QED BY <2>6, <2>7
<1> QED BY <1>5, <1>6, <1>7

LEMMA ShareStep ==
  ASSUME LockInv, FenceInv, ShareInv, [Next]_vars
  PROVE  ShareInv'
<1>1. CASE UNCHANGED vars
  <2>1. UNCHANGED <<pc, wait, expired, memos, attempts, runs>> BY <1>1 DEF vars, commands
  <2>2. wait' \in [Cmds -> Cmds \cup {Unset}] /\ \A a \in Cmds : Waiters(a)' = Waiters(a)
    BY <2>1 DEF ShareInv, ShareTypes, Waiters
  <2> QED BY <2>1, <2>2, ShareAside
<1>2. ASSUME NEW c \in Cmds, Arrive(c) PROVE ShareInv'
  BY <1>2, ShareJoin, ShareStart DEF Arrive
<1> QED BY <1>1, <1>2, ShareMoves, ShareAttempts, ShareAttached, ShareSession, ShareDeadline DEF Next, Idle

\* A deadline never poisons the attempt another command waits for, and no command
\* inherits a hung one, for any number of commands.
THEOREM DispatcherAttemptShared == Spec => []AttemptShared
<1>1. FenceInv /\ ShareInv => AttemptShared
  <2> SUFFICES ASSUME FenceInv, ShareInv PROVE AttemptShared OBVIOUS
  <2>1. preamble \in Memos(Cmds) /\ session \in Memos(Starters) /\ phase \in [Cmds -> Phases]
    BY DEF FenceInv, ShareInv, ShareTypes
  <2>2. Trusted
    <3> SUFFICES ASSUME NEW a \in Cmds, Waiters(a) # {}, phase[a] \notin Settled
                 PROVE  /\ preamble.promise = a /\ Current(a)
                        /\ SessionReady(a) \/ (phase[a] = "session" => session.promise = on[a])
                        /\ AttachedReady(a) \/ (phase[a] = "attached" => attached.promise = on[a])
      BY DEF Trusted
    <3>1. PICK c \in Waiters(a) : TRUE OBVIOUS
    <3>2. phase[a] \in Active
      BY <2>1, <3>1 DEF Waiters, ShareInv, Shares, Phases, Active, Settled
    <3>3. preamble.promise = a /\ a # Unset BY <3>2 DEF ShareInv, Counted
    <3>4. epoch[a] = preamble.generation BY <3>3 DEF ShareInv, Counted
    <3> QED BY <3>3, <3>4 DEF ShareInv, Awaits, Current, IsCurrent, SessionReady, AttachedReady
  <2>3. NotInherited BY <2>1 DEF ShareInv, Counted, Restoring, NotInherited, Memos
  <2> QED BY <2>2, <2>3 DEF AttemptShared
<1>2. ShareInv /\ LockInv /\ FenceInv /\ [Next]_vars => ShareInv' BY ShareStep
<1> QED BY <1>1, <1>2, ShareInit, LockInvariant, FenceInvariant, PTL DEF Spec
=============================================================================
