---------------------------- MODULE RestoreMemo ----------------------------
(***************************************************************************)
(* The memoised one-shot attempt with an epoch fence of                    *)
(* extension/src/memo.ts, as operators on a record: promise is the attempt *)
(* callers share, generation the epoch, waiters the tracked callers.       *)
(***************************************************************************)
EXTENDS Integers

\* No attempt is memoised; attempts are named by values other than this one.
Unset == "unset"

FreshMemo == [promise |-> Unset, generation |-> 0, waiters |-> 0]

Memos(Attempts) == [promise : Attempts \cup {Unset}, generation : Nat, waiters : Int]

\* run() when attempt p has to be started: the attempt gets the generation as
\* its epoch, and the caller is its first waiter if it is tracked.
Started(m, p, tracked) ==
  [m EXCEPT !.promise = p, !.waiters = IF tracked THEN 1 ELSE 0]

\* Seeded fault: a caller that shares an attempt is not counted.
JoinedUncounted(m, tracked) == m

\* run() when an attempt is memoised already, settled or not.
Joined(m, tracked) == [m EXCEPT !.waiters = IF tracked THEN @ + 1 ELSE @]

IsCurrent(m, epoch) == m.generation = epoch

Evicted(m, p) ==
  IF m.promise = p
    THEN [promise |-> Unset, generation |-> m.generation + 1, waiters |-> 0]
    ELSE m

\* abandon(p) returned true: the last tracked caller of p has given up.
GivesUp(m, p) == m.promise = p /\ m.waiters - 1 <= 0

Abandoned(m, p) ==
  IF GivesUp(m, p) THEN Evicted(m, p)
  ELSE IF m.promise = p THEN [m EXCEPT !.waiters = @ - 1] ELSE m
=============================================================================
