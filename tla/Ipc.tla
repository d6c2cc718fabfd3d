-------------------------------- MODULE Ipc --------------------------------
(***************************************************************************)
(* The Unix socket of the host (cli/internal/ipc/ipc.go): processes that   *)
(* race to claim one path, close it, or crash.  An action is one system    *)
(* call on the path, the lock file or the listening socket, because        *)
(* another process may run between any two of them.                        *)
(*                                                                         *)
(* The kernel is modelled as the code relies on it: flock is exclusive and *)
(* released when its holder dies; a bound socket file outlives its socket; *)
(* a dial to a file whose socket no longer listens is refused.             *)
(***************************************************************************)
EXTENDS FiniteSets

CONSTANTS Procs,    \* host processes; each creates at most one socket file
          Nothing,  \* no file, no holder
          Foreign,  \* a file at the path that is not a socket
          Outsider  \* whether something else may delete the socket file

ASSUME IpcAssumption == Nothing \notin Procs /\ Foreign \notin Procs /\ Nothing # Foreign

VARIABLES file,       \* what is at the path: a socket file, by its creator, or Nothing
          lock,       \* the process that holds the flock of the lock file
          listeners,  \* the processes whose socket listens
          ident,      \* ident[p]: the file identity listener p recorded
          pc,         \* pc[p]: where Listen or Close of process p stands
          orphans     \* history: the processes whose file the outsider deleted

socketVars == <<file, lock, listeners, ident, pc, orphans>>

\* Inside Listen or Close, between acquireSetupLock and releaseSetupLock.
Critical == {"lstat", "probe", "remove", "bind", "listen", "identify", "close", "unlink"}

SocketInit ==
  /\ file \in {Nothing, Foreign}
  /\ lock = Nothing /\ listeners = {} /\ orphans = {}
  /\ ident = [p \in Procs |-> Nothing]
  /\ pc = [p \in Procs |-> "new"]

Goto(p, next) == pc' = [pc EXCEPT ![p] = next]

\* acquireSetupLock
Acquire(p, from, next) ==
  /\ pc[p] = from /\ lock = Nothing
  /\ lock' = p /\ Goto(p, next)
  /\ UNCHANGED <<file, listeners, ident, orphans>>

\* Seeded fault: an error path of Listen returns with the lock held.
GiveUpLocked(p) == Goto(p, "failed") /\ UNCHANGED lock

\* Listen returns an error; its deferred releaseSetupLock runs.
GiveUp(p) == Goto(p, "failed") /\ lock' = Nothing

\* The lock file cannot be opened or locked.
NoLock(p) == /\ pc[p] = "new"
             /\ Goto(p, "failed")
             /\ UNCHANGED <<file, lock, listeners, ident, orphans>>

----------------------------------------------------------------------------
(* Listen *)

\* RemoveStale: os.Lstat fails, finds no file, a file that is not a socket (an
\* error too), or a socket.
Lstat(p) ==
  /\ pc[p] = "lstat"
  /\ \/ GiveUp(p)
     \/ file = Nothing /\ Goto(p, "bind") /\ UNCHANGED lock
     \/ file \in Procs /\ Goto(p, "probe") /\ UNCHANGED lock
  /\ UNCHANGED <<file, listeners, ident, orphans>>

\* Seeded fault: a probe that fails for any reason counts as stale.
ProbeAnyError(p) ==
  /\ pc[p] = "probe"
  /\ \/ GiveUp(p)
     \/ Goto(p, "remove") /\ UNCHANGED lock
  /\ UNCHANGED <<file, listeners, ident, orphans>>

\* isServing: only a refused connection proves that nobody listens; a probe that
\* connects, times out or finds no file is not a proof.
Probe(p) ==
  /\ pc[p] = "probe"
  /\ \/ GiveUp(p)
     \/ /\ file \in Procs \ listeners
        /\ Goto(p, "remove") /\ UNCHANGED lock
  /\ UNCHANGED <<file, listeners, ident, orphans>>

\* RemoveStale: os.Remove, which fails when the file has gone.
Remove(p) ==
  /\ pc[p] = "remove"
  /\ \/ file # Nothing /\ file' = Nothing /\ Goto(p, "bind") /\ UNCHANGED lock
     \/ GiveUp(p) /\ UNCHANGED file
  /\ UNCHANGED <<listeners, ident, orphans>>

\* net.Listen: bind creates the file, or fails.
Bind(p) ==
  /\ pc[p] = "bind"
  /\ \/ file = Nothing /\ file' = p /\ Goto(p, "listen") /\ UNCHANGED lock
     \/ GiveUp(p) /\ UNCHANGED file
  /\ UNCHANGED <<listeners, ident, orphans>>

\* net.Listen: listen; from now on a dial is accepted.
StartListening(p) ==
  /\ pc[p] = "listen"
  /\ listeners' = listeners \cup {p}
  /\ Goto(p, "identify")
  /\ UNCHANGED <<file, lock, ident, orphans>>

\* os.Chmod and statIdentity; when one fails the socket is closed and the file stays.
Identify(p) ==
  /\ pc[p] = "identify"
  /\ \/ /\ file # Nothing
        /\ ident' = [ident EXCEPT ![p] = file]
        /\ Goto(p, "serving") /\ lock' = Nothing
        /\ UNCHANGED listeners
     \/ /\ GiveUp(p)
        /\ listeners' = listeners \ {p}
        /\ UNCHANGED ident
  /\ UNCHANGED <<file, orphans>>

----------------------------------------------------------------------------
(* Close *)

\* The lock cannot be had: only the socket is closed.
CloseUnlocked(p) ==
  /\ pc[p] = "serving"
  /\ listeners' = listeners \ {p}
  /\ Goto(p, "abandoned")
  /\ UNCHANGED <<file, lock, ident, orphans>>

CloseListener(p) ==
  /\ pc[p] = "close"
  /\ listeners' = listeners \ {p}
  /\ Goto(p, "unlink")
  /\ UNCHANGED <<file, lock, ident, orphans>>

\* Seeded fault: the file at the path is removed without comparing identities.
UnlinkAny(p) ==
  /\ pc[p] = "unlink"
  /\ file' = Nothing
  /\ Goto(p, "closed") /\ lock' = Nothing
  /\ UNCHANGED <<listeners, ident, orphans>>

\* The file goes only when it is the one this listener created.
Unlink(p) ==
  /\ pc[p] = "unlink"
  /\ file' = IF file = ident[p] THEN Nothing ELSE file
  /\ Goto(p, "closed") /\ lock' = Nothing
  /\ UNCHANGED <<listeners, ident, orphans>>

----------------------------------------------------------------------------
(* The environment *)

\* The process dies: the kernel closes its socket and releases its lock.
Crash(p) ==
  /\ pc[p] \in Critical \cup {"serving"}
  /\ Goto(p, "dead")
  /\ listeners' = listeners \ {p}
  /\ lock' = IF lock = p THEN Nothing ELSE lock
  /\ UNCHANGED <<file, ident, orphans>>

\* Something outside firefox-ctl deletes the socket file.
DeleteFile ==
  /\ Outsider /\ file \in Procs
  /\ orphans' = orphans \cup {file}
  /\ file' = Nothing
  /\ UNCHANGED <<lock, listeners, ident, pc>>

Gone == {"failed", "closed", "abandoned", "dead"}

AllGone == (\A p \in Procs : pc[p] \in Gone) /\ UNCHANGED socketVars

Setup(p) == \/ Acquire(p, "new", "lstat")
            \/ Lstat(p) \/ Probe(p) \/ Remove(p) \/ Bind(p) \/ StartListening(p) \/ Identify(p)

Close(p) == \/ Acquire(p, "serving", "close") \/ CloseUnlocked(p)
            \/ CloseListener(p) \/ Unlink(p)

SocketNext ==
  \/ \E p \in Procs : Setup(p) \/ NoLock(p) \/ Close(p) \/ Crash(p)
  \/ DeleteFile \/ AllGone

SocketSpec == SocketInit /\ [][SocketNext]_socketVars

\* A process that is running takes its next step; a host need never be closed.
FairSocketSpec ==
  SocketSpec /\ \A p \in Procs : WF_socketVars(Setup(p)) /\ WF_socketVars(CloseListener(p) \/ Unlink(p))

----------------------------------------------------------------------------
(* Properties *)

\* Every variable has its type; the flock is held exactly while its holder is
\* inside Listen or Close.
SocketTypeOK ==
  /\ file \in Procs \cup {Nothing, Foreign}
  /\ lock \in Procs \cup {Nothing}
  /\ listeners \in SUBSET Procs /\ orphans \in SUBSET Procs
  /\ ident \in [Procs -> Procs \cup {Nothing, Foreign}]
  /\ pc \in [Procs -> Critical \cup Gone \cup {"new", "serving"}]
  /\ \A p \in Procs : pc[p] \in Critical <=> lock = p

\* A host that listens is the one clients reach: however Listen, Close and crashes
\* of several processes interleave, its file stays at the path until it closes, or
\* something outside firefox-ctl deletes it.  So no two hosts ever serve the path.
Reachable == \A p \in listeners \ orphans : file = p

\* Listen always returns, also when the process it waits for crashed inside its
\* critical section or came back with an error.
ListenReturns == \A p \in Procs : pc[p] = "new" ~> pc[p] \in {"serving"} \cup Gone
=============================================================================
