---------------------------- MODULE HostContract ----------------------------
(***************************************************************************)
(* What the native messaging host promises the CLI clients it serves,      *)
(* without its tables, locks and timers: a request a client issues is      *)
(* answered at most once and on the connection that issued it, and it goes *)
(* unanswered only once that connection has been cut.                      *)
(***************************************************************************)
CONSTANTS Conns,   \* the client connections
          Ids,     \* the ids the host gives to the requests it forwards
          None     \* "no connection": not a member of Conns

VARIABLES state,   \* state[i]: how far request i has come
          owner,   \* owner[i]: the connection that issued request i
          cut      \* the connections the host has cut

vars == <<state, owner, cut>>

Init == /\ state = [i \in Ids |-> "new"]
        /\ owner = [i \in Ids |-> None]
        /\ cut = {}

OpenOn(c) == {i \in Ids : state[i] = "open" /\ owner[i] = c}

Issue(i, c) == /\ state[i] = "new"
               /\ state' = [state EXCEPT ![i] = "open"]
               /\ owner' = [owner EXCEPT ![i] = c]
               /\ UNCHANGED cut

Answer(i) == /\ state[i] = "open"
             /\ state' = [state EXCEPT ![i] = "answered"]
             /\ UNCHANGED <<owner, cut>>

\* The connection is cut and some of its open requests go with it; an answer
\* already on its way may still get out, or be dropped later by another Cut.
Cut(c) == /\ \E gone \in SUBSET OpenOn(c) :
                state' = [i \in Ids |-> IF i \in gone THEN "dropped" ELSE state[i]]
          /\ cut' = cut \cup {c}
          /\ UNCHANGED owner

Next == \/ \E i \in Ids, c \in Conns : Issue(i, c)
        \/ \E i \in Ids : Answer(i)
        \/ \E c \in Conns : Cut(c)

Open(i) == state[i] = "open"

Settle(i) == Next /\ Open(i) /\ ~Open(i)'

\* Safety and the promise that no request stays open for ever.
Promise == Init /\ [][Next]_vars
Spec == Promise /\ \A i \in Ids : WF_vars(Settle(i))
=============================================================================
