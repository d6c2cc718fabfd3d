----------------------------- MODULE Dispatcher -----------------------------
(***************************************************************************)
(* The dispatcher of the background page (extension/src/dispatch.ts) with  *)
(* the state lock (lock.ts) and the three memoised attempts a command      *)
(* waits for before its handler runs: the preamble, the session restore    *)
(* and the attachment restore (memo.ts, session.ts, attached.ts).          *)
(*                                                                         *)
(* The page runs one task at a time: a command arrives, a browser call     *)
(* settles, a timer fires.  What awaits the outcome is resumed by          *)
(* microtasks before the next task, so every task below has the guard      *)
(* Quiet.  A browser call may stay unsettled for ever.                     *)
(***************************************************************************)
EXTENDS RestoreMemo, Sequences

CONSTANTS Cmds,      \* commands; each arrives once.  A preamble attempt or a
                     \* restore is named by the command that started it
          StateCmds, \* the commands in STATE_COMMANDS; the others are reads or
                     \* probes (ping and version), which shows when they arrive
          Startup    \* the restore that start() kicks off

ASSUME DispatcherAssumption ==
  /\ StateCmds \subseteq Cmds
  /\ Startup \notin Cmds /\ Unset \notin Cmds \cup {Startup}

Starters == Cmds \cup {Startup}

VARIABLES
  pc,        \* pc[c]: where handle(c) stands
  wait,      \* wait[c]: the preamble attempt c shares (CommandRun.preamble)
  expired,   \* commands whose CommandRun.expired is set
  answer,    \* answer[c]: what was sent to the host for c
  queue,     \* the state lock: its holder, then the waiting commands
  preamble,  \* the memo of the preamble
  session,   \* the memo of session.restore
  attached,  \* the memo of attached.restore
  phase,     \* phase[a]: where prepareOnce stands in attempt a
  epoch,     \* epoch[a]: the generation attempt a was given
  on,        \* on[a]: the restore that attempt a awaits
  restores,  \* the attempt this.restores belongs to
  sRun,      \* sRun[r]: how far session restore r is
  aRun       \* aRun[r]: how far attachment restore r is

commands == <<pc, wait, expired, answer, queue>>
memos    == <<preamble, session, attached>>
attempts == <<phase, epoch, on, restores>>
runs     == <<sRun, aRun>>
vars     == <<commands, memos, attempts, runs>>

Init ==
  /\ pc = [c \in Cmds |-> "new"]
  /\ wait = [c \in Cmds |-> Unset]
  /\ expired = {} /\ answer = [c \in Cmds |-> "none"] /\ queue = <<>>
  /\ preamble = FreshMemo /\ attached = FreshMemo
  /\ session = Started(FreshMemo, Startup, FALSE)
  /\ phase = [a \in Cmds |-> "none"]
  /\ epoch = [a \in Cmds |-> 0]
  /\ on = [a \in Cmds |-> Unset]
  /\ restores = Unset
  /\ sRun = [r \in Starters |-> IF r = Startup THEN "pending" ELSE "none"]
  /\ aRun = [r \in Cmds |-> "none"]

----------------------------------------------------------------------------
(* Microtasks *)

Settled == {"ok", "failed"}

SessionReady(a)  == phase[a] = "session" /\ sRun[on[a]] \in Settled
AttachedReady(a) == phase[a] = "attached" /\ aRun[on[a]] \in Settled
PreambleReady(c) == pc[c] = "prepare" /\ phase[wait[c]] \in Settled
LockReady(c)     == pc[c] = "queued" /\ queue # <<>> /\ Head(queue) = c

Quiet == \A c \in Cmds : ~SessionReady(c) /\ ~AttachedReady(c) /\ ~PreambleReady(c) /\ ~LockReady(c)

Current(a) == IsCurrent(preamble, epoch[a])

\* An attempt that rejects is evicted from the memo before anyone sees it.
AttemptFails(a) == /\ phase' = [phase EXCEPT ![a] = "failed"]
                   /\ preamble' = Evicted(preamble, a)

\* Seeded fault: prepareOnce goes on without looking whether it was abandoned.
AfterSessionUnfenced(a) ==
  /\ SessionReady(a)
  /\ IF sRun[on[a]] = "failed"
       THEN AttemptFails(a) /\ UNCHANGED <<attached, on, aRun>>
       ELSE /\ UNCHANGED preamble
            /\ phase' = [phase EXCEPT ![a] = "attached"]
            /\ IF attached.promise = Unset
                 THEN /\ attached' = Started(attached, a, TRUE)
                      /\ aRun' = [aRun EXCEPT ![a] = "pending"]
                      /\ on' = [on EXCEPT ![a] = a]
                 ELSE /\ attached' = Joined(attached, TRUE)
                      /\ on' = [on EXCEPT ![a] = attached.promise]
                      /\ UNCHANGED aRun
  /\ UNCHANGED <<commands, session, epoch, restores, sRun>>

\* prepareOnce after session.restore: the fence, then attached.restore.
AfterSession(a) ==
  /\ SessionReady(a)
  /\ IF sRun[on[a]] = "failed"
       THEN AttemptFails(a) /\ UNCHANGED <<attached, on, aRun>>
       ELSE /\ UNCHANGED preamble
            /\ IF ~Current(a)
                 THEN phase' = [phase EXCEPT ![a] = "ok"] /\ UNCHANGED <<attached, on, aRun>>
                 ELSE /\ phase' = [phase EXCEPT ![a] = "attached"]
                      /\ IF attached.promise = Unset
                           THEN /\ attached' = Started(attached, a, TRUE)
                                /\ aRun' = [aRun EXCEPT ![a] = "pending"]
                                /\ on' = [on EXCEPT ![a] = a]
                           ELSE /\ attached' = Joined(attached, TRUE)
                                /\ on' = [on EXCEPT ![a] = attached.promise]
                                /\ UNCHANGED aRun
  /\ UNCHANGED <<commands, session, epoch, restores, sRun>>

\* prepareOnce after attached.restore: the fence, then dropPoolTabs, which awaits
\* a write only when the pool has taken an attached tab over.
AfterAttached(a) ==
  /\ AttachedReady(a)
  /\ IF aRun[on[a]] = "failed"
       THEN AttemptFails(a)
       ELSE /\ \E next \in {"drop", "ok"} :
                  /\ next = "drop" => Current(a)
                  /\ phase' = [phase EXCEPT ![a] = next]
            /\ UNCHANGED preamble
  /\ UNCHANGED <<commands, session, attached, epoch, on, restores, runs>>

\* The promise of handle(c) settles; a command that expired was answered before.
Finish(c) == /\ pc' = [pc EXCEPT ![c] = "done"]
             /\ answer' = [answer EXCEPT ![c] = IF @ = "none" THEN "reply" ELSE @]

\* run() after prepare(): a failure is the answer, an expired command stops here,
\* a state command queues for the lock, any other runs its handler.
AfterPreamble(c) ==
  /\ PreambleReady(c)
  /\ IF phase[wait[c]] = "failed" \/ c \in expired
       THEN Finish(c) /\ UNCHANGED queue
       ELSE /\ UNCHANGED answer
            /\ IF c \in StateCmds
                 THEN /\ pc' = [pc EXCEPT ![c] = "queued"]
                      /\ queue' = Append(queue, c)
                 ELSE /\ pc' = [pc EXCEPT ![c] = "running"]
                      /\ UNCHANGED queue
  /\ wait' = [wait EXCEPT ![c] = Unset]
  /\ UNCHANGED <<expired, memos, attempts, runs>>

\* release(): only the holder was handed it, and a second call changes nothing.
Released(c) == IF queue # <<>> /\ Head(queue) = c THEN Tail(queue) ELSE queue

\* Seeded fault: a command whose deadline has passed enters all the same.
AfterLockAnyway(c) ==
  /\ LockReady(c)
  /\ pc' = [pc EXCEPT ![c] = "running"]
  /\ UNCHANGED <<wait, expired, answer, queue, memos, attempts, runs>>

\* run() once the lock is acquired: an expired command hands it on at once.
AfterLock(c) ==
  /\ LockReady(c)
  /\ IF c \in expired
       THEN Finish(c) /\ queue' = Released(c)
       ELSE pc' = [pc EXCEPT ![c] = "running"] /\ UNCHANGED <<answer, queue>>
  /\ UNCHANGED <<wait, expired, memos, attempts, runs>>

----------------------------------------------------------------------------
(* Tasks *)

\* handle(c) refuses an unknown command or a frameId it does not support.
Refuse(c) ==
  /\ Quiet /\ pc[c] = "new"
  /\ Finish(c)
  /\ UNCHANGED <<wait, expired, queue, memos, attempts, runs>>

\* A probe skips the preamble and the lock, and execute() saves nothing after it.
ArriveProbe(c) ==
  /\ Quiet /\ pc[c] = "new" /\ c \notin StateCmds
  /\ pc' = [pc EXCEPT ![c] = "probing"]
  /\ UNCHANGED <<wait, expired, answer, queue, memos, attempts, runs>>

\* prepare() with an attempt in the memo, settled or not.
JoinPreamble(c) ==
  /\ preamble.promise # Unset
  /\ preamble' = Joined(preamble, TRUE)
  /\ wait' = [wait EXCEPT ![c] = preamble.promise]
  /\ UNCHANGED <<session, attempts, runs>>

\* prepare() starts an attempt, which calls session.restore.
StartPreamble(c) ==
  /\ preamble.promise = Unset
  /\ preamble' = Started(preamble, c, TRUE)
  /\ wait' = [wait EXCEPT ![c] = c]
  /\ phase' = [phase EXCEPT ![c] = "session"]
  /\ epoch' = [epoch EXCEPT ![c] = preamble.generation]
  /\ restores' = c
  /\ IF session.promise = Unset
       THEN /\ session' = Started(session, c, TRUE)
            /\ sRun' = [sRun EXCEPT ![c] = "pending"]
            /\ on' = [on EXCEPT ![c] = c]
       ELSE /\ session' = Joined(session, TRUE)
            /\ on' = [on EXCEPT ![c] = session.promise]
            /\ UNCHANGED sRun
  /\ UNCHANGED aRun

Arrive(c) ==
  /\ Quiet /\ pc[c] = "new"
  /\ pc' = [pc EXCEPT ![c] = "prepare"]
  /\ JoinPreamble(c) \/ StartPreamble(c)
  /\ UNCHANGED <<expired, answer, queue, attached>>

\* A session restore settles; a failed one leaves the memo.
SessionSettles(r) ==
  /\ Quiet /\ sRun[r] = "pending"
  /\ \/ sRun' = [sRun EXCEPT ![r] = "ok"] /\ UNCHANGED session
     \/ sRun' = [sRun EXCEPT ![r] = "failed"] /\ session' = Evicted(session, r)
  /\ UNCHANGED <<commands, preamble, attached, attempts, aRun>>

AttachedSettles(r) ==
  /\ Quiet /\ aRun[r] = "pending"
  /\ \/ aRun' = [aRun EXCEPT ![r] = "ok"] /\ UNCHANGED attached
     \/ aRun' = [aRun EXCEPT ![r] = "failed"] /\ attached' = Evicted(attached, r)
  /\ UNCHANGED <<commands, preamble, session, attempts, sRun>>

\* The write of dropPoolTabs settles; an abandoned attempt writes a second time,
\* which delays it and nothing else.
DropSettles(a) ==
  /\ Quiet /\ phase[a] = "drop"
  /\ \/ phase' = [phase EXCEPT ![a] = "ok"] /\ UNCHANGED preamble
     \/ AttemptFails(a)
  /\ UNCHANGED <<commands, session, attached, epoch, on, restores, runs>>

\* The handler settles; execute() then awaits session.persist.
HandlerSettles(c) ==
  /\ Quiet
  /\ \/ pc[c] = "probing" /\ Finish(c)
     \/ pc[c] = "running" /\ pc' = [pc EXCEPT ![c] = "persisting"] /\ UNCHANGED answer
  /\ UNCHANGED <<wait, expired, queue, memos, attempts, runs>>

\* Seeded fault: a persist that fails skips the release.
PersistKeepsLock(c) ==
  /\ Quiet /\ pc[c] = "persisting"
  /\ Finish(c)
  /\ queue' = Released(c) \/ UNCHANGED queue
  /\ UNCHANGED <<wait, expired, memos, attempts, runs>>

\* The persist settles, well or badly, and the lock is released.
PersistSettles(c) ==
  /\ Quiet /\ pc[c] = "persisting"
  /\ Finish(c)
  /\ queue' = Released(c)
  /\ UNCHANGED <<wait, expired, memos, attempts, runs>>

\* Seeded fault: the deadline frees the lock its command holds.
DeadlineFreesLock(c) ==
  /\ Quiet /\ pc[c] \notin {"new", "done"} /\ c \notin expired
  /\ expired' = expired \cup {c}
  /\ answer' = [answer EXCEPT ![c] = "timeout"]
  /\ queue' = Released(c)
  /\ UNCHANGED <<pc, wait, memos, attempts, runs>>

\* Seeded fault: an expired command forgets the preamble it waits for.
DeadlineForgetsPreamble(c) ==
  /\ Quiet /\ pc[c] \notin {"new", "done"} /\ c \notin expired
  /\ expired' = expired \cup {c}
  /\ answer' = [answer EXCEPT ![c] = "timeout"]
  /\ UNCHANGED <<pc, wait, queue, memos, attempts, runs>>

\* Seeded fault: only the preamble is abandoned, not the restore it awaits.
DeadlineKeepsRestore(c) ==
  /\ Quiet /\ pc[c] \notin {"new", "done"} /\ c \notin expired
  /\ expired' = expired \cup {c}
  /\ answer' = [answer EXCEPT ![c] = "timeout"]
  /\ preamble' = IF pc[c] = "prepare" THEN Abandoned(preamble, wait[c]) ELSE preamble
  /\ UNCHANGED <<pc, wait, queue, session, attached, attempts, runs>>

\* Seeded fault: the deadline is armed when the handler starts.
DeadlineOfHandler(c) ==
  /\ Quiet /\ pc[c] = "running" /\ c \notin expired
  /\ expired' = expired \cup {c}
  /\ answer' = [answer EXCEPT ![c] = "timeout"]
  /\ UNCHANGED <<pc, wait, queue, memos, attempts, runs>>

\* The deadline answers COMMAND_TIMEOUT.  The last command that waited for a
\* preamble attempt abandons it, and the restore that attempt is stuck on.
Deadline(c) ==
  /\ Quiet /\ pc[c] \notin {"new", "done"} /\ c \notin expired
  /\ expired' = expired \cup {c}
  /\ answer' = [answer EXCEPT ![c] = "timeout"]
  /\ IF pc[c] # "prepare"
       THEN UNCHANGED memos
       ELSE /\ preamble' = Abandoned(preamble, wait[c])
            /\ session' = IF GivesUp(preamble, wait[c]) /\ phase[restores] = "session"
                            THEN Abandoned(session, on[restores]) ELSE session
            /\ attached' = IF GivesUp(preamble, wait[c]) /\ phase[restores] = "attached"
                             THEN Abandoned(attached, on[restores]) ELSE attached
  /\ UNCHANGED <<pc, wait, queue, attempts, runs>>

\* Every command is done; an idle page waits.
Idle == (\A c \in Cmds : pc[c] = "done") /\ Quiet /\ UNCHANGED vars

Microtask(c) == AfterSession(c) \/ AfterAttached(c) \/ AfterPreamble(c) \/ AfterLock(c)

Next ==
  \/ \E c \in Cmds :
        \/ AfterSession(c) \/ AfterAttached(c) \/ AfterPreamble(c) \/ AfterLock(c)
        \/ Refuse(c) \/ ArriveProbe(c) \/ Arrive(c) \/ AttachedSettles(c) \/ DropSettles(c)
        \/ HandlerSettles(c) \/ PersistSettles(c) \/ Deadline(c)
  \/ \E r \in Starters : SessionSettles(r)
  \/ Idle

Spec == Init /\ [][Next]_vars

(***************************************************************************)
(* Microtasks run and timers fire.  No browser call is assumed to settle.  *)
(***************************************************************************)
FairSpec == /\ Spec
            /\ \A c \in Cmds : WF_vars(Microtask(c)) /\ WF_vars(Deadline(c))

----------------------------------------------------------------------------
(* Properties *)

Inside(c) == c \in StateCmds /\ pc[c] \in {"running", "persisting"}

\* At most one state command is between its first and its last side effect, also
\* when its deadline has answered for it long ago (lock.ts, "a late tabs.create,
\* tabs.remove or storage write must never interleave with the next owner's").
Exclusive == \A c, d \in Cmds : Inside(c) /\ Inside(d) => c = d

\* A handler never starts for a command that was answered already, wherever the
\* command was stuck when its deadline passed.
NoLateStart == [][\A c \in Cmds : pc[c] # "running" /\ pc'[c] = "running" => answer'[c] = "none"]_vars

Waiters(a) == {c \in Cmds : pc[c] = "prepare" /\ wait[c] = a /\ c \notin expired}

\* One command's deadline never poisons the attempt another still waits for: that
\* attempt is the current one, and so is the restore it awaits.
Trusted ==
  \A a \in Cmds : Waiters(a) # {} /\ phase[a] \notin Settled =>
     /\ preamble.promise = a /\ Current(a)
     /\ SessionReady(a) \/ (phase[a] = "session" => session.promise = on[a])
     /\ AttachedReady(a) \/ (phase[a] = "attached" => attached.promise = on[a])

\* Nobody inherits a hung attempt: what the next command would join has settled,
\* or a command with time left waits for it.
NotInherited ==
  Quiet => /\ preamble.promise # Unset /\ phase[preamble.promise] # "ok" =>
                Waiters(preamble.promise) # {}
           /\ session.promise \in Cmds /\ sRun[session.promise] # "ok" =>
                preamble.promise # Unset /\ on[preamble.promise] = session.promise

\* The preamble and the restores are shared by those, and only by those, who still
\* have time to wait: an attempt is abandoned by its last waiter, with the restore it
\* is stuck on, and not before (RestoreMemo.abandon, abandonPreamble).
AttemptShared == Trusted /\ NotInherited

\* Only the attempt in the memo moves on to the next restore or drops pool tabs.
Fenced ==
  [][\A a \in Cmds : phase'[a] # phase[a] /\ phase'[a] \in {"attached", "drop"} =>
        preamble.promise = a]_vars

\* Every command is answered although restores, handlers, writes and the holder of
\* the lock may all hang.
Answered == \A c \in Cmds : pc[c] # "new" ~> answer[c] # "none"

\* If every handler and every write settles, the lock reaches every waiter.
HoldersSettle == \A c \in StateCmds : Inside(c) ~> ~Inside(c)
LockPasses == HoldersSettle => \A c \in StateCmds : pc[c] = "queued" ~> pc[c] # "queued"
=============================================================================
