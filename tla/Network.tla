------------------------------ MODULE Network ------------------------------
(***************************************************************************)
(* The network tracker of the background page (extension/src/network.ts):  *)
(* one ring of entries for the whole browser, written by webRequest        *)
(* events, emptied by `getNetworkRequests --clear`, read by the readiness  *)
(* check as "what is pending in this tab".                                 *)
(*                                                                         *)
(* A webRequest id survives redirects: each hop of a request raises        *)
(* onBeforeRequest again, and the last one onCompleted or onErrorOccurred. *)
(***************************************************************************)
EXTENDS Naturals, Sequences

CONSTANTS Requests,   \* requests of the browser
          Mine,       \* those of the tab under observation
          MaxEntries, \* MAX_NETWORK_ENTRIES
          Window,     \* RECENT_WINDOW_MS, in ticks
          MaxHops,    \* bound: hops of one request
          MaxTime     \* bound: ticks of the clock

ASSUME NetworkAssumption ==
  Mine \subseteq Requests /\ MaxEntries \in Nat \ {0} /\ {Window, MaxHops, MaxTime} \subseteq Nat

VARIABLES
  now,     \* env.now(), in ticks
  entries, \* this.entries, oldest first
  flight,  \* flight[r]: where the browser stands with request r
  hops,    \* hops[r]: hops that r has started
  begun,   \* begun[r]: when its latest hop started
  lost     \* history: requests whose latest hop left the ring before r was over

vars == <<now, entries, flight, hops, begun, lost>>

Init ==
  /\ now = Window /\ entries = <<>> /\ lost = {}
  /\ flight = [r \in Requests |-> "idle"]
  /\ hops = [r \in Requests |-> 0] /\ begun = [r \in Requests |-> 0]

\* Requests in flight whose latest hop is not among the given entries.
Unseen(kept, open) ==
  {r \in open : \A i \in DOMAIN kept : ~(kept[i].id = r /\ kept[i].hop = hops'[r])}

InFlight == {r \in Requests : flight[r] = "open"}

\* Seeded fault: a hop of a request that is in the ring already is not recorded.
StartedOnce(r) ==
  LET seen  == \E i \in DOMAIN entries : entries[i].id = r
      hop   == [id |-> r, hop |-> hops[r] + 1, at |-> now, status |-> "pending"]
      grown == IF seen THEN entries ELSE Append(entries, hop)
  IN /\ hops' = [hops EXCEPT ![r] = @ + 1]
     /\ begun' = [begun EXCEPT ![r] = now]
     /\ entries' = IF Len(grown) > MaxEntries THEN Tail(grown) ELSE grown
     /\ lost' = lost

\* onStarted: every hop is an entry of its own; the oldest entry makes room.
Started(r) ==
  LET grown == Append(entries, [id |-> r, hop |-> hops[r] + 1, at |-> now, status |-> "pending"])
  IN /\ hops' = [hops EXCEPT ![r] = @ + 1]
     /\ begun' = [begun EXCEPT ![r] = now]
     /\ entries' = IF Len(grown) > MaxEntries THEN Tail(grown) ELSE grown
     /\ lost' = Unseen(entries', InFlight \cup {r})

Begin(r) ==
  /\ flight[r] = "idle"
  /\ flight' = [flight EXCEPT ![r] = "open"]
  /\ Started(r)
  /\ UNCHANGED now

\* The server redirects; the tracker sees the next hop as another start.
Redirect(r) ==
  /\ flight[r] = "open" /\ hops[r] < MaxHops
  /\ Started(r)
  /\ UNCHANGED <<now, flight>>

\* onCompleted, onFailed: the first entry of the id gets the final status.
Finished(r, status) ==
  LET mine == {i \in DOMAIN entries : entries[i].id = r}
  IN entries' = IF mine = {} THEN entries
                ELSE [entries EXCEPT ![CHOOSE i \in mine : \A j \in mine : i <= j].status = status]

Complete(r) ==
  /\ flight[r] = "open"
  /\ flight' = [flight EXCEPT ![r] = "over"]
  /\ Finished(r, "completed")
  /\ lost' = lost \ {r}
  /\ UNCHANGED <<now, hops, begun>>

Fail(r) ==
  /\ flight[r] = "open"
  /\ flight' = [flight EXCEPT ![r] = "over"]
  /\ Finished(r, "error")
  /\ lost' = lost \ {r}
  /\ UNCHANGED <<now, hops, begun>>

\* query() with clear: the ring of every tab is emptied.
Clear ==
  /\ entries # <<>>
  /\ entries' = <<>>
  /\ lost' = InFlight
  /\ UNCHANGED <<now, flight, hops, begun>>

Tick == /\ now < MaxTime
        /\ now' = now + 1
        /\ UNCHANGED <<entries, flight, hops, begun, lost>>

Next == \/ Tick \/ Clear
        \/ \E r \in Requests : Begin(r) \/ Redirect(r) \/ Complete(r) \/ Fail(r)

Spec == Init /\ [][Next]_vars

----------------------------------------------------------------------------
(* tabStatus of the observed tab *)

Recent(at) == at > now - Window

\* Where the tab's entries of the window stand in the ring, and those still pending.
InWindow == {i \in DOMAIN entries : entries[i].id \in Mine /\ Recent(entries[i].at)}
Pending  == {i \in InWindow : entries[i].status = "pending"}

IsIdle == Pending = {}

----------------------------------------------------------------------------
(* Properties *)

\* The readiness check never takes a tab for idle while a hop of it that started
\* within the window is in flight, unless the shared ring has dropped that hop
\* (commands.md documents --clear leaving every tab looking idle).
IdleSound ==
  IsIdle => \A r \in Mine \cap InFlight : Recent(begun[r]) => r \in lost

\* What readiness waits for is under way: every recent pending entry of the tab
\* belongs to a request that is still in flight (architecture.md, "onCompleted
\* fills in the status code, headers and duration").
PendingInFlight ==
  \A i \in Pending : entries[i].id \in InFlight
=============================================================================
