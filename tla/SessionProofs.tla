--------------------------- MODULE SessionProofs ---------------------------
(***************************************************************************)
(* The pool of the managed window is bounded, no session takes the place   *)
(* of another, storage follows the session, and the user's tabs stay, for  *)
(* any number of tabs, windows and restores.                               *)
(*                                                                         *)
(* Two parts of the invariant carry the argument.  FenceInv: only the      *)
(* attempt in the memo, while it loads, or the command that opens a window *)
(* may set the session, never both, because a command starts after the     *)
(* restore succeeded, and an attempt that left the memo is fenced by its   *)
(* epoch.  RoomInv: from its check of the pool to its new tab, a command   *)
(* has room for the tab, because events and other commands only take tabs  *)
(* away (Fades).                                                           *)
(*                                                                         *)
(* What storage and the user's tabs rest on (Safe) is proved over that:    *)
(* FitInv, every session, live, stored or being restored, names a window   *)
(* and tabs that are its own, or are gone; CarryInv and ReaderInv, so does *)
(* what a command or a reader carries across its calls; SyncInv, storage   *)
(* names the window of the live session unless its latest write failed or  *)
(* no restore of this lifetime came to writing yet.                        *)
(***************************************************************************)
EXTENDS Session, FiniteSetTheorems, FunctionTheorems, TLAPS

USE SessionAssumption

----------------------------------------------------------------------------
(* Sequences of tabs *)

\* An order of a set of tabs lists each of them once.
LEMMA OrdersFacts ==
  ASSUME NEW S \in SUBSET Tabs, NEW q \in Orders(S)
  PROVE  /\ q \in Seq(Tabs) /\ Distinct(q) /\ Elems(q) \subseteq S
         /\ Len(q) = Cardinality(S)
<1>1. IsFiniteSet(S) BY FS_Subset
<1>2. Cardinality(S) \in Nat BY <1>1, FS_CardinalityType
<1>3. q \in [1 .. Cardinality(S) -> S] /\ Distinct(q) BY DEF Orders
<1>4. q \in Seq(Tabs) /\ Len(q) = Cardinality(S) BY <1>2, <1>3
<1> QED BY <1>3, <1>4 DEF Elems

\* A sequence has at least as many places as elements.
LEMMA ElemsBounded ==
  ASSUME NEW s \in Seq(Tabs)
  PROVE  Elems(s) \in SUBSET Tabs /\ IsFiniteSet(Elems(s)) /\ Cardinality(Elems(s)) <= Len(s)
<1>1. Elems(s) \in SUBSET Tabs BY DEF Elems
<1>2. IsFiniteSet(Elems(s)) BY <1>1, FS_Subset
<1>3. s \in Surjection(1 .. Len(s), Elems(s)) BY DEF Surjection, Elems
<1>4. Cardinality(Elems(s)) <= Len(s)
  BY <1>3, FS_SurjCardinalityBound DEF ExistsSurjection
<1> QED BY <1>1, <1>2, <1>4

\* What a pool keeps is no longer than the pool and repeats nothing.
LEMMA OnlyFacts ==
  ASSUME NEW s \in Seq(Tabs), NEW S, NEW q \in Only(s, S)
  PROVE  /\ q \in Seq(Tabs) /\ Distinct(q)
         /\ Elems(q) \subseteq Elems(s) \cap S
         /\ Len(q) <= Len(s)
<1> DEFINE K == Elems(s) \cap S
<1>1. q \in Orders(K) BY DEF Only
<1>2. K \in SUBSET Tabs /\ K \in SUBSET Elems(s) BY ElemsBounded
<1> HIDE DEF K
<1>3. q \in Seq(Tabs) /\ Distinct(q) /\ Elems(q) \subseteq K /\ Len(q) = Cardinality(K)
  BY <1>1, <1>2, OrdersFacts
<1>4. Cardinality(K) <= Cardinality(Elems(s)) BY <1>2, ElemsBounded, FS_Subset
<1>5. Cardinality(K) \in Nat /\ Cardinality(Elems(s)) \in Nat
  BY <1>2, ElemsBounded, FS_Subset, FS_CardinalityType
<1>6. Len(q) <= Len(s) BY <1>3, <1>4, <1>5, ElemsBounded
<1> QED BY <1>3, <1>6 DEF K

LEMMA ConcatDistinct ==
  ASSUME NEW s \in Seq(Tabs), NEW q \in Seq(Tabs), Distinct(s), Distinct(q), Elems(s) \cap Elems(q) = {}
  PROVE  s \o q \in Seq(Tabs) /\ Distinct(s \o q)
<1>1. s \o q \in Seq(Tabs) OBVIOUS
<1>2. ASSUME NEW i \in DOMAIN (s \o q), NEW j \in DOMAIN (s \o q), (s \o q)[i] = (s \o q)[j] PROVE i = j
  <2>1. CASE i <= Len(s) /\ j <= Len(s) BY <1>2, <2>1 DEF Distinct
  <2>2. CASE i > Len(s) /\ j > Len(s)
    <3>1. q[i - Len(s)] = q[j - Len(s)] BY <1>2, <2>2
    <3> QED BY <2>2, <3>1 DEF Distinct
  <2>3. CASE i <= Len(s) /\ j > Len(s)
    <3>1. s[i] = q[j - Len(s)] BY <1>2, <2>3
    <3> QED BY <2>3, <3>1 DEF Elems
  <2>4. CASE i > Len(s) /\ j <= Len(s)
    <3>1. q[i - Len(s)] = s[j] BY <1>2, <2>4
    <3>2. i - Len(s) \in DOMAIN q /\ j \in DOMAIN s BY <2>4
    <3> QED BY <3>1, <3>2 DEF Elems
  <2> QED BY <2>1, <2>2, <2>3, <2>4
<1> QED BY <1>1, <1>2 DEF Distinct

LEMMA TailFacts ==
  ASSUME NEW s \in Seq(Tabs), s # <<>>, Distinct(s)
  PROVE  /\ Tail(s) \in Seq(Tabs) /\ Distinct(Tail(s))
         /\ Len(Tail(s)) = Len(s) - 1 /\ Elems(Tail(s)) \subseteq Elems(s)
  BY DEF Distinct, Elems

LEMMA AppendFacts ==
  ASSUME NEW s \in Seq(Tabs), NEW t \in Tabs, Distinct(s), t \notin Elems(s)
  PROVE  /\ Append(s, t) \in Seq(Tabs) /\ Distinct(Append(s, t))
         /\ Len(Append(s, t)) = Len(s) + 1
  BY DEF Distinct, Elems
----------------------------------------------------------------------------
(* The invariant *)

\* An attempt that has yet to set the session, and a command that is about to.
Loading == {"read", "window", "evict", "evicted"}
Opening == {"adopt", "join", "open", "opened"}

\* A command that is about to add a tab to the pool.
Filling == {"evict", "create", "created"}

BrowserOK ==
  /\ place \in [Tabs -> Windows \cup {None}]
  /\ incognito \subseteq OwnWindows \cap Open
  /\ users \subseteq {t \in Tabs : place[t] \in UserWindows}

SessionOK ==
  /\ session \in States /\ active \in Tabs \cup {None}
  /\ session.windowId = None => session = NoSession
  /\ session.object = 0 <=> session = NoSession
  /\ PoolBounded

Keepable(s) == /\ s \in States /\ s.object = 0 /\ Distinct(s.tabs)
               /\ s.windowId = None => s = NoSession

StoredOK == Keepable(stored) /\ behind \in BOOLEAN

RestoresOK ==
  /\ current \in Attempts \cup {None} /\ stage \in [Attempts -> Stages]
  /\ current # None => stage[current] \notin {"none", "failed"}
  /\ saved \in [Attempts -> States] /\ plan \in [Attempts -> Seq(Tabs)]
  /\ \A a \in Attempts : /\ Distinct(saved[a].tabs) /\ Distinct(plan[a])
                         /\ stage[a] \in {"window", "evict", "evicted"} => saved[a].windowId # None
                         /\ stage[a] = "evict" => plan[a] # <<>>

JobsOK ==
  /\ job \in Jobs /\ reader \in Readers
  /\ job.at \in {"join", "opened"} => job.windowId # None
  /\ job.at \in {"created", "opened"} => job.tab \in Tabs
  /\ job.at \in Filling => job.of # 0

\* Who may set the session: the attempt in the memo while it loads, or the command
\* that opens one; never both, and only where there is none.
FenceInv ==
  /\ \A a \in Attempts : current = a /\ stage[a] \in Loading => session = NoSession
  /\ job # NoJob => Ready
  /\ job.at \in Opening => session = NoSession

\* A command that is about to add a tab has room for it, and its tab is a new one.
RoomInv ==
  /\ job.at \in Filling => Len(session.tabs) < MaxTabs
  /\ job.at = "created" => job.tab \notin Elems(session.tabs)

Inv == BrowserOK /\ SessionOK /\ StoredOK /\ RestoresOK /\ JobsOK /\ FenceInv /\ RoomInv

\* What every step must show: the invariant, and that it replaced no session.
Replaces == session'.object \notin {0, session.object} /\ session # NoSession

\* What events do to the session: nothing, drop it, or take tabs from its pool.
Fades ==
  \/ session' = session
  \/ session' = NoSession
  \/ /\ session # NoSession
     /\ \E q \in Seq(Tabs) :
           /\ session' = [session EXCEPT !.tabs = q]
           /\ Distinct(q) /\ Elems(q) \subseteq Elems(session.tabs) /\ Len(q) <= Len(session.tabs)

LEMMA NoSessionFacts ==
  /\ NoSession \in States /\ NoSession.tabs = <<>> /\ NoSession.object = 0 /\ NoSession.windowId = None
  /\ Distinct(<<>>) /\ Elems(<<>>) = {} /\ Len(<<>>) = 0 /\ Keepable(NoSession)
  BY DEF NoSession, States, Objects, Distinct, Elems, Keepable

LEMMA StateFacts ==
  ASSUME NEW o \in Objects, NEW w \in Windows \cup {None}, NEW q \in Seq(Tabs),
         NEW p \in BOOLEAN, NEW d \in BOOLEAN
  PROVE  [object |-> o, windowId |-> w, tabs |-> q, isPrivate |-> p, adopted |-> d] \in States
  BY DEF States

LEMMA FadesFacts ==
  ASSUME SessionOK, Fades, active' \in Tabs \cup {None}
  PROVE  /\ SessionOK' /\ ~Replaces
         /\ Elems(session'.tabs) \subseteq Elems(session.tabs)
         /\ Len(session'.tabs) <= Len(session.tabs)
         /\ session = NoSession => session' = NoSession
<1>1. CASE session' = session BY <1>1 DEF SessionOK, PoolBounded, Replaces, States
<1>2. CASE session' = NoSession
  BY <1>2, NoSessionFacts DEF SessionOK, PoolBounded, Replaces, States
<1>3. CASE session' # NoSession /\ session' # session
  <2>0. session # NoSession BY <1>3 DEF Fades
  <2>1. PICK q \in Seq(Tabs) :
          /\ session' = [session EXCEPT !.tabs = q]
          /\ Distinct(q) /\ Elems(q) \subseteq Elems(session.tabs) /\ Len(q) <= Len(session.tabs)
    BY <1>3 DEF Fades
  <2>2. /\ session' \in States /\ session'.tabs = q /\ session'.object = session.object
        /\ session'.windowId = session.windowId
    BY <2>1 DEF SessionOK, States
  <2>3. session.tabs \in Seq(Tabs) BY DEF SessionOK, States
  <2> QED BY <1>3, <2>0, <2>1, <2>2, <2>3 DEF SessionOK, PoolBounded, Replaces
<1> QED BY <1>1, <1>2, <1>3

LEMMA WriteFacts ==
  ASSUME StoredOK, NEW s \in States, Distinct(s.tabs), s.windowId = None => s = NoSession, Write(s)
  PROVE  StoredOK'
<1>1. Keepable(Public(s))
  <2>1. CASE s.isPrivate BY <2>1, NoSessionFacts DEF Public
  <2>2. CASE ~s.isPrivate
    <3>1. Public(s) = [s EXCEPT !.object = 0] BY <2>2 DEF Public
    <3>2. /\ [s EXCEPT !.object = 0] \in States /\ [s EXCEPT !.object = 0].tabs = s.tabs
          /\ [s EXCEPT !.object = 0].object = 0 /\ [s EXCEPT !.object = 0].windowId = s.windowId
      BY DEF States, Objects
    <3>3. ASSUME s = NoSession PROVE [s EXCEPT !.object = 0] = s
      <4>1. s.object = 0 BY <3>3, NoSessionFacts
      <4> QED BY <4>1 DEF States
    <3> QED BY <3>1, <3>2, <3>3 DEF Keepable
  <2> QED BY <2>1, <2>2
<1>2. CASE stored' = Public(s) /\ behind' = FALSE
  BY <1>1, <1>2 DEF StoredOK, Keepable
<1>3. CASE behind' = TRUE /\ stored' = stored BY <1>3 DEF StoredOK, Keepable
<1> QED BY <1>2, <1>3 DEF Write

\* The live session can be written, and so can none.
LEMMA SaveFacts ==
  ASSUME StoredOK, SessionOK, Write(session)
  PROVE  StoredOK'
  BY WriteFacts DEF SessionOK, PoolBounded

LEMMA ClearFacts == ASSUME StoredOK, Write(NoSession) PROVE StoredOK'
  BY WriteFacts, NoSessionFacts

----------------------------------------------------------------------------
(* What closing tabs does *)

LEMMA ClosingFacts ==
  ASSUME BrowserOK, SessionOK, StoredOK, NEW S, Closing(S)
  PROVE  BrowserOK' /\ StoredOK' /\ Fades /\ SessionOK'
<1>1. BrowserOK'
  <2> DEFINE shut == {w \in Open : TabsOf(w) \subseteq S}
  <2>1. /\ place' = [t \in Tabs |-> IF t \in S THEN None ELSE place[t]]
        /\ users' = users \ S
        /\ incognito' = incognito \ shut
    BY DEF Closing
  <2>2. place' \in [Tabs -> Windows \cup {None}] BY <2>1 DEF BrowserOK
  <2>3. users' \subseteq {t \in Tabs : place'[t] \in UserWindows} BY <2>1 DEF BrowserOK
  <2>4. ASSUME NEW w \in incognito' PROVE w \in OwnWindows /\ w \in Open'
    <3>1. w \in OwnWindows /\ w \in Open /\ w \notin shut BY <2>1, <2>4 DEF BrowserOK
    <3>2. PICK t \in TabsOf(w) : t \notin S BY <3>1
    <3>3. t \in Tabs /\ place'[t] = w BY <2>1, <3>2 DEF TabsOf
    <3>4. t \in TabsOf(w)' BY <3>3 DEF TabsOf
    <3> QED BY <3>1, <3>4 DEF Open, Windows
  <2> QED BY <2>2, <2>3, <2>4 DEF BrowserOK
<1>2. CASE session' = NoSession /\ active' = None /\ Quietly(NoSession)
  BY <1>1, <1>2, ClearFacts, FadesFacts DEF Fades, Quietly
<1>3. CASE UNCHANGED <<session, active, storage>>
  BY <1>1, <1>3, FadesFacts DEF Fades, storage, StoredOK, SessionOK, Keepable
<1>4. CASE /\ session # NoSession
           /\ \E kept \in Only(session.tabs, Tabs \ S) : session' = [session EXCEPT !.tabs = kept]
           /\ active' \in {active, LastOf(session'.tabs)}
           /\ Quietly(session')
  <2>1. session.tabs \in Seq(Tabs) BY DEF SessionOK, States
  <2>kept. PICK kept \in Only(session.tabs, Tabs \ S) : session' = [session EXCEPT !.tabs = kept] BY <1>4
  <2>only. /\ kept \in Seq(Tabs) /\ Distinct(kept)
        /\ Elems(kept) \subseteq Elems(session.tabs) /\ Len(kept) <= Len(session.tabs)
    BY <2>1, OnlyFacts
  <2>2. Fades BY <1>4, <2>kept, <2>only DEF Fades
  <2>3. session'.tabs \in Seq(Tabs)
    BY <2>kept, <2>only DEF SessionOK, States
  <2>4. LastOf(session'.tabs) \in Tabs \cup {None} BY <2>3 DEF LastOf
  <2>5. active' \in Tabs \cup {None} BY <1>4, <2>4 DEF SessionOK
  <2>6. SessionOK' BY <2>2, <2>5, FadesFacts
  <2>7. Write(session') BY <1>4 DEF Quietly
  <2>8. /\ session' \in States /\ Distinct(session'.tabs)
        /\ session'.windowId = None => session' = NoSession
    BY <2>6 DEF SessionOK, PoolBounded
  <2>9. StoredOK' BY <2>7, <2>8, WriteFacts
  <2> QED BY <1>1, <2>2, <2>6, <2>9
<1>5. S \cap Elems(session.tabs) # {} => session # NoSession BY NoSessionFacts
<1> QED BY <1>2, <1>3, <1>4, <1>5 DEF Closing

----------------------------------------------------------------------------
(* Frames *)

LEMMA Frames ==
  /\ (BrowserOK /\ UNCHANGED browser) => BrowserOK'
  /\ (SessionOK /\ UNCHANGED memory) => (SessionOK' /\ Fades)
  /\ (StoredOK /\ UNCHANGED storage) => StoredOK'
  /\ (RestoresOK /\ UNCHANGED restores) => RestoresOK'
  /\ (JobsOK /\ UNCHANGED <<job, reader>>) => JobsOK'
<1>1. (BrowserOK /\ UNCHANGED browser) => BrowserOK' BY DEF BrowserOK, browser, Open, TabsOf
<1>2. (SessionOK /\ UNCHANGED memory) => (SessionOK' /\ Fades)
  BY DEF SessionOK, memory, Fades, PoolBounded
<1>3. (StoredOK /\ UNCHANGED storage) => StoredOK' BY DEF StoredOK, Keepable, storage
<1>4. (RestoresOK /\ UNCHANGED restores) => RestoresOK' BY DEF RestoresOK, restores
<1>5. (JobsOK /\ UNCHANGED <<job, reader>>) => JobsOK' BY DEF JobsOK
<1> QED BY <1>1, <1>2, <1>3, <1>4, <1>5

\* Events and readers: the session at most fades, restores and the command stand.
LEMMA EventKeeps ==
  ASSUME Inv, Fades, SessionOK', UNCHANGED <<restores, job>>
  PROVE  FenceInv' /\ RoomInv' /\ ~Replaces
<1>1. /\ ~Replaces
      /\ Elems(session'.tabs) \subseteq Elems(session.tabs)
      /\ Len(session'.tabs) <= Len(session.tabs)
      /\ session = NoSession => session' = NoSession
  BY FadesFacts DEF Inv, SessionOK
<1>2. FenceInv' BY <1>1 DEF Inv, FenceInv, Ready, restores
<1>3. Len(session'.tabs) \in Nat /\ Len(session.tabs) \in Nat BY DEF Inv, SessionOK, States
<1>4. RoomInv' BY <1>1, <1>3 DEF Inv, RoomInv
<1> QED BY <1>1, <1>2, <1>4

\* A step of an attempt: while a command holds the lock, an attempt that is not over
\* is not the one in the memo and can only let the session fade.
LEMMA AttemptKeeps ==
  ASSUME Inv, NEW a \in Attempts, job' = job, SessionOK',
         stage[a] # "ok", \A b \in Attempts \ {a} : stage'[b] = stage[b],
         \/ current' = current
         \/ current = a /\ current' = None
         \/ current = None /\ current' = a,
         Fades \/ (current = a /\ session = NoSession),
         (current' = a /\ stage'[a] \in Loading) => session' = NoSession
  PROVE  FenceInv' /\ RoomInv' /\ ~Replaces
<1>0. None \notin Attempts BY DEF Attempts
<1>1. ASSUME Fades
      PROVE  /\ ~Replaces
             /\ Elems(session'.tabs) \subseteq Elems(session.tabs)
             /\ Len(session'.tabs) <= Len(session.tabs)
             /\ session = NoSession => session' = NoSession
  BY <1>1, FadesFacts DEF Inv, SessionOK
<1>2. ~Replaces BY <1>1 DEF Replaces
<1>3. ASSUME job # NoJob PROVE current # a /\ current' = current /\ Ready' /\ Fades
  <2>1. current # None /\ stage[current] = "ok" BY <1>3 DEF Inv, FenceInv, Ready
  <2>2. current \in Attempts BY <2>1 DEF Inv, RestoresOK
  <2> QED BY <2>1, <2>2 DEF Ready
<1>4. ASSUME NEW b \in Attempts, current' = b, stage'[b] \in Loading PROVE session' = NoSession
  <2>1. CASE b = a BY <1>4, <2>1
  <2>2. CASE b # a
    <3>1. current = b /\ stage[b] \in Loading BY <1>0, <1>4, <2>2
    <3>2. session = NoSession BY <3>1 DEF Inv, FenceInv
    <3> QED BY <1>1, <2>2, <3>1, <3>2
  <2> QED BY <2>1, <2>2
<1>5. (job.at \in Opening \/ job.at \in Filling) => job # NoJob BY DEF Opening, Filling, NoJob
<1>6. FenceInv' BY <1>1, <1>3, <1>4, <1>5 DEF Inv, FenceInv
<1>7. Len(session'.tabs) \in Nat /\ Len(session.tabs) \in Nat BY DEF Inv, SessionOK, States
<1>8. job.at = "created" => job.at \in Filling BY DEF Filling
<1>9. RoomInv' BY <1>1, <1>3, <1>5, <1>7, <1>8 DEF Inv, RoomInv
<1> QED BY <1>2, <1>6, <1>9

\* A step of the command: the restore that it waited for is over.
LEMMA CommandKeeps ==
  ASSUME Inv, Ready, UNCHANGED restores,
         job'.at \in Opening => session' = NoSession,
         job'.at \in Filling => Len(session'.tabs) < MaxTabs,
         job'.at = "created" => job'.tab \notin Elems(session'.tabs)
  PROVE  FenceInv' /\ RoomInv'
<1>1. Ready' BY DEF Ready, restores
<1>2. \A a \in Attempts : current' = a => stage'[a] \notin Loading BY DEF Ready, restores, Loading
<1>3. FenceInv' BY <1>1, <1>2 DEF FenceInv
<1> QED BY <1>3 DEF RoomInv

LEMMA FreshObjectFacts ==
  ASSUME SessionOK, JobsOK
  PROVE  FreshObject \in Objects \ {0} /\ FreshObject \notin {session.object, job.of, reader.of}
<1>1. \A x, y, z : \E k \in Objects \ {0} : k \notin {x, y, z}
  <2> SUFFICES ASSUME NEW x, NEW y, NEW z PROVE \E k \in Objects \ {0} : k \notin {x, y, z} OBVIOUS
  <2>1. 1 \notin {x, y, z} \/ 2 \notin {x, y, z} \/ 3 \notin {x, y, z} \/ 4 \notin {x, y, z} OBVIOUS
  <2> QED BY <2>1 DEF Objects
<1> QED BY <1>1 DEF FreshObject

----------------------------------------------------------------------------
(* The initial states *)

LEMMA PoolsFacts == \A q \in Pools : q \in Seq(Tabs) /\ Distinct(q)
<1> SUFFICES ASSUME NEW q \in Pools PROVE q \in Seq(Tabs) /\ Distinct(q) OBVIOUS
<1>1. PICK n \in 0 .. MaxTabs : q \in [1 .. n -> Tabs] /\ Distinct(q) BY DEF Pools
<1> QED BY <1>1

LEMMA InitInv == Init => Inv
<1> SUFFICES ASSUME Init PROVE Inv OBVIOUS
<1>1. StoredOK
  <2>1. CASE stored = NoSession BY <2>1, NoSessionFacts DEF Init, StoredOK
  <2>2. CASE stored # NoSession
    <3>1. stored \in [object : {0}, windowId : Windows, tabs : Pools, isPrivate : {FALSE}, adopted : BOOLEAN]
      BY <2>2 DEF Init
    <3>2. stored.tabs \in Seq(Tabs) /\ Distinct(stored.tabs) BY <3>1, PoolsFacts
    <3>3. stored.object = 0 /\ stored.windowId \in Windows BY <3>1
    <3>record. stored = [object |-> 0, windowId |-> stored.windowId, tabs |-> stored.tabs,
                    isPrivate |-> FALSE, adopted |-> stored.adopted] /\ stored.adopted \in BOOLEAN
      BY <3>1
    <3>4. 0 \in Objects /\ FALSE \in BOOLEAN BY DEF Objects
    <3>5. stored \in States
      <4>1. [object |-> 0, windowId |-> stored.windowId, tabs |-> stored.tabs,
             isPrivate |-> FALSE, adopted |-> stored.adopted] \in States
        BY ONLY <3>record, <3>2, <3>3, <3>4, StateFacts
      <4> QED BY ONLY <4>1, <3>record
    <3> QED BY <3>2, <3>3, <3>5 DEF Init, StoredOK, Keepable
  <2> QED BY <2>1, <2>2
<1>2. BrowserOK
  <2>1. stored.windowId \in Windows \cup {None} BY <1>1 DEF StoredOK, Keepable, States
  <2>2. place \in [Tabs -> Windows \cup {None}] BY <2>1 DEF Init, Windows
  <2> QED BY <2>2 DEF BrowserOK, Init
<1>3. SessionOK BY NoSessionFacts DEF Init, SessionOK, PoolBounded
<1>4. 1 \in Attempts BY DEF Attempts
<1>5. RestoresOK
  <2>1. stage \in [Attempts -> Stages] /\ stage[current] = "read" /\ current \in Attempts
    BY <1>4 DEF Init, Stages
  <2>2. saved \in [Attempts -> States] /\ plan \in [Attempts -> Seq(Tabs)]
    BY NoSessionFacts DEF Init
  <2>3. \A a \in Attempts : /\ Distinct(saved[a].tabs) /\ Distinct(plan[a])
                           /\ stage[a] \notin {"window", "evict", "evicted"}
    BY NoSessionFacts DEF Init
  <2> QED BY <2>1, <2>2, <2>3 DEF RestoresOK
<1>6. JobsOK BY DEF Init, JobsOK, Jobs, Readers, NoJob, NoReader, JobStages, Objects, Filling
<1>7. FenceInv /\ RoomInv BY DEF Init, FenceInv, RoomInv, NoJob, Opening, Filling
<1> QED BY <1>1, <1>2, <1>3, <1>5, <1>6, <1>7 DEF Inv

----------------------------------------------------------------------------
(* The user, and commands that do not take the lock *)

\* A tab that was not open opens in a window.
LEMMA OpensTabFacts ==
  ASSUME BrowserOK, NEW t \in Tabs, NEW w \in Windows, ~IsOpen(t),
         place' = [place EXCEPT ![t] = w],
         users' \subseteq users \/ (w \in UserWindows /\ users' \subseteq users \cup {t}),
         incognito' \subseteq incognito \/ (w \in OwnWindows /\ incognito' \subseteq incognito \cup {w})
  PROVE  BrowserOK'
<1>1. place' \in [Tabs -> Windows \cup {None}] BY DEF BrowserOK
<1>2. w \in Open'
  <2>1. t \in TabsOf(w)' BY DEF TabsOf, BrowserOK
  <2> QED BY <2>1 DEF Open, Windows
<1>3. \A v \in Open : v \in Open'
  <2> SUFFICES ASSUME NEW v \in Open PROVE v \in Open' OBVIOUS
  <2>1. PICK x \in Tabs : place[x] = v /\ v \in Windows BY DEF Open, TabsOf
  <2>2. x # t BY <2>1 DEF IsOpen
  <2>3. x \in TabsOf(v)' BY <2>1, <2>2 DEF BrowserOK, TabsOf
  <2> QED BY <2>1, <2>3 DEF Open, Windows
<1>4. ASSUME NEW x \in users' PROVE x \in Tabs /\ place'[x] \in UserWindows
  <2>1. CASE x = t
    <3>1. t \notin users BY DEF BrowserOK, IsOpen, Windows
    <3> QED BY <1>4, <2>1, <3>1 DEF BrowserOK
  <2>2. CASE x # t BY <1>4, <2>2 DEF BrowserOK
  <2> QED BY <2>1, <2>2
<1> QED BY <1>1, <1>2, <1>3, <1>4 DEF BrowserOK

LEMMA UserSteps ==
  ASSUME Inv, UserClosesTab \/ UserClosesWindow \/ UserOpensTab \/ TabActivated
  PROVE  Inv' /\ ~Replaces
<1>1. ASSUME NEW S, UserCloses(S) PROVE Inv' /\ ~Replaces
  <2>1. BrowserOK' /\ StoredOK' /\ Fades /\ SessionOK' BY <1>1, ClosingFacts DEF Inv, UserCloses
  <2>2. UNCHANGED <<restores, job, reader>> BY <1>1 DEF UserCloses
  <2>3. FenceInv' /\ RoomInv' /\ ~Replaces BY <2>1, <2>2, EventKeeps
  <2> QED BY <2>1, <2>2, <2>3, Frames DEF Inv
<1>2. CASE UserOpensTab
  <2>1. PICK t \in Tabs, w \in Open :
           /\ IsFreshTab(t)
           /\ place' = [place EXCEPT ![t] = w]
           /\ users' = IF w \in UserWindows THEN users \cup {t} ELSE users
           /\ UNCHANGED <<incognito, memory, storage, restores, job, reader>>
    BY <1>2 DEF UserOpensTab
  <2>2. ~IsOpen(t) /\ w \in Windows BY <2>1 DEF IsFreshTab, Open
  <2>6. BrowserOK' BY <2>1, <2>2, OpensTabFacts DEF Inv
  <2>7. SessionOK' /\ Fades /\ StoredOK' BY <2>1, Frames DEF Inv
  <2>8. FenceInv' /\ RoomInv' /\ ~Replaces BY <2>1, <2>7, EventKeeps
  <2> QED BY <2>1, <2>6, <2>7, <2>8, Frames DEF Inv
<1>3. CASE TabActivated
  <2>1. PICK t \in Elems(session.tabs) :
           active' = t /\ Quietly(session) /\ UNCHANGED <<browser, session, restores, job, reader>>
    BY <1>3 DEF TabActivated
  <2>2. t \in Tabs BY <2>1, ElemsBounded DEF Inv, SessionOK, States
  <2>3. Fades /\ SessionOK' BY <2>1, <2>2, FadesFacts DEF Fades, Inv
  <2>4. StoredOK' BY <2>1, SaveFacts DEF Quietly, Inv
  <2>5. FenceInv' /\ RoomInv' /\ ~Replaces BY <2>1, <2>3, EventKeeps
  <2> QED BY <2>1, <2>3, <2>4, <2>5, Frames DEF Inv
<1> QED BY <1>1, <1>2, <1>3 DEF UserClosesTab, UserClosesWindow

LEMMA ReaderSteps ==
  ASSUME Inv, StartRead \/ ReadExpired \/ ReadTarget \/ ReadTab \/ OtherEnds
  PROVE  Inv' /\ ~Replaces
<1>1. UNCHANGED <<browser, restores, job>>
  BY DEF StartRead, ReadExpired, ReadTarget, ReadTab, OtherEnds, memory
<1>2. Fades BY DEF StartRead, ReadExpired, ReadTarget, ReadTab, OtherEnds, memory, Fades
<1>3. LastOf(session.tabs) \in Tabs \cup {None} /\ Target \in Tabs \cup {None}
  BY DEF LastOf, Target, Inv, SessionOK, States
<1>4. active' \in Tabs \cup {None}
  BY <1>3 DEF StartRead, ReadExpired, ReadTarget, ReadTab, OtherEnds, memory, Inv, SessionOK
<1>5. SessionOK' BY <1>2, <1>4, FadesFacts DEF Inv
<1>6. StoredOK'
  <2>1. CASE UNCHANGED storage BY <2>1, Frames DEF Inv
  <2>2. CASE Write(NoSession) BY <2>2, ClearFacts DEF Inv
  <2>3. CASE Write(session) BY <2>3, SaveFacts DEF Inv
  <2> QED BY <2>1, <2>2, <2>3 DEF StartRead, ReadExpired, ReadTarget, ReadTab, OtherEnds, Quietly, storage
<1>7. reader' \in Readers
  <2>1. NoReader \in Readers BY DEF NoReader, Readers, Objects
  <2>2. reader \in Readers BY DEF Inv, JobsOK
  <2>3. [NoReader EXCEPT !.at = "window", !.windowId = session.windowId, !.of = session.object] \in Readers
    BY <2>1 DEF Readers, Inv, SessionOK, States
  <2>4. [reader EXCEPT !.at = "tab", !.tab = Target] \in Readers BY <1>3, <2>2 DEF Readers
  <2> QED BY <2>1, <2>2, <2>3, <2>4 DEF StartRead, ReadExpired, ReadTarget, ReadTab, OtherEnds
<1>8. FenceInv' /\ RoomInv' /\ ~Replaces BY <1>1, <1>2, <1>5, EventKeeps
<1> QED BY <1>1, <1>5, <1>6, <1>7, <1>8, Frames DEF Inv, JobsOK

----------------------------------------------------------------------------
(* Restore attempts *)

\* An attempt that is over holds nothing, whether it leaves the memo or not.
LEMMA SettleFacts ==
  ASSUME RestoresOK, NEW a \in Attempts, NEW how \in {"ok", "sweep", "failed"}, Settle(a, how),
         \/ current' = current /\ (how # "failed" \/ current # a)
         \/ current' = None
  PROVE  /\ RestoresOK' /\ stage'[a] = how
         /\ \A b \in Attempts \ {a} : stage'[b] = stage[b]
<1>0. None \notin Attempts BY DEF Attempts
<1>1. stage' \in [Attempts -> Stages] /\ stage'[a] = how /\ \A b \in Attempts \ {a} : stage'[b] = stage[b]
  BY DEF Settle, RestoresOK, Stages
<1>2. /\ saved' \in [Attempts -> States] /\ saved'[a] = NoSession
      /\ \A b \in Attempts \ {a} : saved'[b] = saved[b]
  BY NoSessionFacts DEF Settle, RestoresOK
<1>3. /\ plan' \in [Attempts -> Seq(Tabs)] /\ plan'[a] = <<>>
      /\ \A b \in Attempts \ {a} : plan'[b] = plan[b]
  BY DEF Settle, RestoresOK
<1>4. current' \in Attempts \cup {None} /\ (current' # None => stage'[current'] \notin {"none", "failed"})
  BY <1>0, <1>1 DEF RestoresOK
<1>5. ASSUME NEW b \in Attempts
      PROVE  /\ Distinct(saved'[b].tabs) /\ Distinct(plan'[b])
             /\ stage'[b] \in {"window", "evict", "evicted"} => saved'[b].windowId # None
             /\ stage'[b] = "evict" => plan'[b] # <<>>
  <2>1. CASE b = a BY <1>1, <1>2, <1>3, <2>1, NoSessionFacts
  <2>2. CASE b # a BY <1>1, <1>2, <1>3, <2>2 DEF RestoresOK
  <2> QED BY <2>1, <2>2
<1> QED BY <1>1, <1>2, <1>3, <1>4, <1>5 DEF RestoresOK

\* Attempts that leave the session alone.
LEMMA QuietAttempts ==
  ASSUME Inv, NEW a \in Attempts,
         StartRestore(a) \/ Abandon(a) \/ RestoreRead(a) \/ RestoreWritten(a) \/ SweepSettles(a)
  PROVE  Inv' /\ ~Replaces
<1>0. None \notin Attempts BY DEF Attempts
<1>1. UNCHANGED <<browser, memory, job, reader>>
  BY DEF StartRestore, Abandon, RestoreRead, RestoreWritten, SweepSettles
<1>2. BrowserOK' /\ SessionOK' /\ Fades /\ JobsOK' BY <1>1, Frames DEF Inv
<1>3. session' = session /\ job' = job BY <1>1 DEF memory
<1>4. StoredOK'
  <2>1. CASE UNCHANGED storage BY <2>1, Frames DEF Inv
  <2>2. CASE Write(session) BY <2>2, SaveFacts DEF Inv
  <2> QED BY <2>1, <2>2 DEF StartRestore, Abandon, RestoreRead, RestoreWritten, SweepSettles
<1> DEFINE Moves == /\ RestoresOK'
                    /\ stage[a] # "ok" /\ \A b \in Attempts \ {a} : stage'[b] = stage[b]
                    /\ \/ current' = current
                       \/ current = a /\ current' = None
                       \/ current = None /\ current' = a
                    /\ (current' = a /\ stage'[a] \in Loading) => session' = NoSession
<1>5. ASSUME NEW how \in {"ok", "sweep", "failed"}, Settle(a, how), stage[a] # "ok",
             \/ current' = current /\ (how # "failed" \/ current # a)
             \/ current = a /\ current' = None
      PROVE  Moves
  <2>1. /\ RestoresOK' /\ stage'[a] = how /\ \A b \in Attempts \ {a} : stage'[b] = stage[b]
    BY <1>5, SettleFacts DEF Inv
  <2> QED BY <1>5, <2>1 DEF Loading
<1>6. ASSUME SweepSettles(a) PROVE Moves BY <1>5, <1>6 DEF SweepSettles, Succeeds
<1>7. ASSUME RestoreWritten(a) PROVE Moves BY <1>5, <1>7 DEF RestoreWritten, Fails, GoSweep
<1>8. ASSUME RestoreRead(a) PROVE Moves
  <2>1. CASE Fails(a) BY <1>5, <1>8, <2>1 DEF RestoreRead, Fails
  <2>2. CASE Succeeds(a) BY <1>5, <1>8, <2>2 DEF RestoreRead, Succeeds
  <2>3. CASE GoSweep(a) /\ current' = current BY <1>5, <1>8, <2>3 DEF RestoreRead, GoSweep
  <2>4. CASE /\ IsCurrent(a) /\ stored # NoSession /\ current' = current
             /\ stage' = [stage EXCEPT ![a] = "window"]
             /\ saved' = [saved EXCEPT ![a] = stored] /\ plan' = plan
    <3>1. stage[a] = "read" /\ current = a BY <1>8, <2>4 DEF RestoreRead, IsCurrent
    <3>2. session' = NoSession BY <1>3, <3>1 DEF Inv, FenceInv, Loading
    <3>3. /\ stage' \in [Attempts -> Stages] /\ stage'[a] = "window"
          /\ \A b \in Attempts \ {a} : stage'[b] = stage[b]
      BY <2>4 DEF Inv, RestoresOK, Stages
    <3>4. stored \in States /\ Distinct(stored.tabs) /\ stored.windowId # None
      BY <2>4 DEF Inv, StoredOK, Keepable
    <3>5. /\ saved' \in [Attempts -> States] /\ saved'[a] = stored
          /\ \A b \in Attempts \ {a} : saved'[b] = saved[b]
      BY <2>4, <3>4 DEF Inv, RestoresOK
    <3>6. ASSUME NEW b \in Attempts
          PROVE  /\ Distinct(saved'[b].tabs) /\ Distinct(plan'[b])
                 /\ stage'[b] \in {"window", "evict", "evicted"} => saved'[b].windowId # None
                 /\ stage'[b] = "evict" => plan'[b] # <<>>
      <4>1. CASE b = a BY <2>4, <3>3, <3>4, <3>5, <4>1 DEF Inv, RestoresOK
      <4>2. CASE b # a BY <2>4, <3>3, <3>5, <4>2 DEF Inv, RestoresOK
      <4> QED BY <4>1, <4>2
    <3>7. RestoresOK' BY <2>4, <3>1, <3>3, <3>5, <3>6 DEF Inv, RestoresOK
    <3> QED BY <2>4, <3>1, <3>2, <3>3, <3>7
  <2> QED BY <1>8, <2>1, <2>2, <2>3, <2>4 DEF RestoreRead
<1>9. ASSUME Abandon(a) PROVE Moves
  <2>1. stage' = stage /\ current = a /\ current' = None /\ stage[a] # "ok" /\ saved' = saved /\ plan' = plan
    BY <1>9 DEF Abandon
  <2>2. RestoresOK' BY <2>1 DEF Inv, RestoresOK
  <2> QED BY <1>0, <2>1, <2>2
<1>10. ASSUME StartRestore(a) PROVE Moves
  <2>1. current = None /\ current' = a /\ stage[a] = "none" BY <1>10 DEF StartRestore
  <2>2. CASE GoSweep(a)
    <3>1. /\ stage' = [stage EXCEPT ![a] = "sweep"]
          /\ saved' = [saved EXCEPT ![a] = NoSession] /\ plan' = [plan EXCEPT ![a] = <<>>]
      BY <2>2 DEF GoSweep, Settle
    <3>2. /\ stage' \in [Attempts -> Stages] /\ stage'[a] = "sweep"
          /\ \A b \in Attempts \ {a} : stage'[b] = stage[b]
      BY <3>1 DEF Inv, RestoresOK, Stages
    <3>3. /\ saved' \in [Attempts -> States] /\ saved'[a] = NoSession
          /\ \A b \in Attempts \ {a} : saved'[b] = saved[b]
          /\ plan' \in [Attempts -> Seq(Tabs)] /\ plan'[a] = <<>>
          /\ \A b \in Attempts \ {a} : plan'[b] = plan[b]
      BY <3>1, NoSessionFacts DEF Inv, RestoresOK
    <3>4. ASSUME NEW b \in Attempts
          PROVE  /\ Distinct(saved'[b].tabs) /\ Distinct(plan'[b])
                 /\ stage'[b] \in {"window", "evict", "evicted"} => saved'[b].windowId # None
                 /\ stage'[b] = "evict" => plan'[b] # <<>>
      <4>1. CASE b = a BY <3>2, <3>3, <4>1, NoSessionFacts
      <4>2. CASE b # a BY <3>2, <3>3, <4>2 DEF Inv, RestoresOK
      <4> QED BY <4>1, <4>2
    <3>5. RestoresOK' BY <2>1, <3>2, <3>3, <3>4 DEF RestoresOK
    <3> QED BY <2>1, <3>2, <3>5 DEF Loading
  <2>3. CASE session = NoSession /\ stage' = [stage EXCEPT ![a] = "read"] /\ UNCHANGED <<saved, plan>>
    <3>2. /\ stage' \in [Attempts -> Stages] /\ stage'[a] = "read"
          /\ \A b \in Attempts \ {a} : stage'[b] = stage[b]
      BY <2>3 DEF Inv, RestoresOK, Stages
    <3>4. ASSUME NEW b \in Attempts
          PROVE  /\ Distinct(saved'[b].tabs) /\ Distinct(plan'[b])
                 /\ stage'[b] \in {"window", "evict", "evicted"} => saved'[b].windowId # None
                 /\ stage'[b] = "evict" => plan'[b] # <<>>
      BY <2>3, <3>2 DEF Inv, RestoresOK
    <3>5. RestoresOK' BY <2>1, <2>3, <3>2, <3>4 DEF Inv, RestoresOK
    <3> QED BY <1>3, <2>1, <2>3, <3>2, <3>5
  <2> QED BY <1>10, <2>2, <2>3 DEF StartRestore
<1>11. Moves BY ONLY <1>6, <1>7, <1>8, <1>9, <1>10,
         StartRestore(a) \/ Abandon(a) \/ RestoreRead(a) \/ RestoreWritten(a) \/ SweepSettles(a)
<1>12. FenceInv' /\ RoomInv' /\ ~Replaces BY <1>2, <1>3, <1>11, AttemptKeeps
<1> QED BY <1>2, <1>4, <1>11, <1>12 DEF Inv

\* The pool that a restore puts together: one more eviction, given up, or the session.
LEMMA TrimStep ==
  ASSUME Inv, NEW a \in Attempts, NEW pool \in Seq(Tabs), Distinct(pool),
         stage[a] \in {"window", "evicted"}, Trim(a, pool), UNCHANGED <<browser, job, reader>>
  PROVE  Inv' /\ ~Replaces
<1>1. BrowserOK' /\ JobsOK' BY Frames DEF Inv
<1>2. saved[a] \in States /\ saved[a].windowId # None BY DEF Inv, RestoresOK
<1>3. CASE Succeeds(a) /\ UNCHANGED <<memory, storage>>
  <2>1. SessionOK' /\ Fades /\ StoredOK' BY <1>3, Frames DEF Inv
  <2>2. /\ RestoresOK' /\ stage'[a] = "ok" /\ current' = current
        /\ \A b \in Attempts \ {a} : stage'[b] = stage[b]
    BY <1>3, SettleFacts DEF Inv, Succeeds
  <2>3. FenceInv' /\ RoomInv' /\ ~Replaces BY <2>1, <2>2, AttemptKeeps DEF Loading
  <2> QED BY <1>1, <2>1, <2>2, <2>3 DEF Inv
<1>4. CASE /\ TooMany(pool) /\ IsCurrent(a)
           /\ stage' = [stage EXCEPT ![a] = "evict"] /\ plan' = [plan EXCEPT ![a] = pool]
           /\ UNCHANGED <<memory, storage, saved, current>>
  <2>1. SessionOK' /\ Fades /\ StoredOK' BY <1>4, Frames DEF Inv
  <2>2. session' = NoSession BY <1>4 DEF memory, IsCurrent, Inv, FenceInv, Loading
  <2>3. pool # <<>> BY <1>4 DEF TooMany
  <2>4. /\ stage' \in [Attempts -> Stages] /\ stage'[a] = "evict"
        /\ \A b \in Attempts \ {a} : stage'[b] = stage[b]
        /\ plan' \in [Attempts -> Seq(Tabs)] /\ plan'[a] = pool
        /\ \A b \in Attempts \ {a} : plan'[b] = plan[b]
    BY <1>4 DEF Inv, RestoresOK, Stages
  <2>5. ASSUME NEW b \in Attempts
        PROVE  /\ Distinct(saved'[b].tabs) /\ Distinct(plan'[b])
               /\ stage'[b] \in {"window", "evict", "evicted"} => saved'[b].windowId # None
               /\ stage'[b] = "evict" => plan'[b] # <<>>
    <3>1. CASE b = a BY <1>2, <1>4, <2>3, <2>4, <3>1 DEF Inv, RestoresOK
    <3>2. CASE b # a BY <1>4, <2>4, <3>2 DEF Inv, RestoresOK
    <3> QED BY <3>1, <3>2
  <2>6. current' = current /\ current = a /\ stage'[current'] = "evict" BY <1>4, <2>4 DEF IsCurrent
  <2>7. RestoresOK' BY <1>4, <2>4, <2>5, <2>6 DEF Inv, RestoresOK
  <2>8. FenceInv' /\ RoomInv' /\ ~Replaces BY <2>1, <2>2, <2>4, <2>6, AttemptKeeps
  <2> QED BY <1>1, <2>1, <2>7, <2>8 DEF Inv
<1>5. CASE /\ ~TooMany(pool) /\ IsCurrent(a)
           /\ session' = [saved[a] EXCEPT !.tabs = pool, !.object = FreshObject]
           /\ active' = LastOf(pool)
           /\ plan' = [plan EXCEPT ![a] = <<>>] /\ saved' = [saved EXCEPT ![a] = NoSession]
           /\ Saving(a, session')
  <2>1. current = a /\ session = NoSession BY <1>5 DEF IsCurrent, Inv, FenceInv, Loading
  <2>2. FreshObject \in Objects /\ FreshObject # 0 BY FreshObjectFacts DEF Inv
  <2>3. /\ session' \in States /\ session'.tabs = pool /\ session'.object = FreshObject
        /\ session'.windowId = saved[a].windowId
    BY <1>2, <1>5, <2>2 DEF States
  <2>4. Len(pool) <= MaxTabs BY <1>5 DEF TooMany
  <2>5. active' \in Tabs \cup {None} BY <1>5 DEF LastOf
  <2>6. SessionOK' BY <1>2, <2>2, <2>3, <2>4, <2>5, NoSessionFacts DEF SessionOK, PoolBounded
  <2>7. Write(session') BY <1>5 DEF Saving
  <2>8. StoredOK' BY <1>2, <2>3, <2>7, WriteFacts DEF Inv
  <2>9. /\ stage' \in [Attempts -> Stages] /\ stage'[a] \in {"written", "unwritten"}
        /\ \A b \in Attempts \ {a} : stage'[b] = stage[b]
        /\ plan' \in [Attempts -> Seq(Tabs)] /\ plan'[a] = <<>>
        /\ \A b \in Attempts \ {a} : plan'[b] = plan[b]
        /\ current' = current
    BY <1>5 DEF Inv, RestoresOK, Stages, Saving
  <2>10. /\ saved' \in [Attempts -> States] /\ saved'[a] = NoSession
         /\ \A b \in Attempts \ {a} : saved'[b] = saved[b]
    BY <1>5, NoSessionFacts DEF Inv, RestoresOK
  <2>11. ASSUME NEW b \in Attempts
         PROVE  /\ Distinct(saved'[b].tabs) /\ Distinct(plan'[b])
                /\ stage'[b] \in {"window", "evict", "evicted"} => saved'[b].windowId # None
                /\ stage'[b] = "evict" => plan'[b] # <<>>
    <3>1. CASE b = a BY <2>9, <2>10, <3>1, NoSessionFacts
    <3>2. CASE b # a BY <2>9, <2>10, <3>2 DEF Inv, RestoresOK
    <3> QED BY <3>1, <3>2
  <2>12. RestoresOK' BY <2>1, <2>9, <2>10, <2>11 DEF Inv, RestoresOK
  <2>13. FenceInv' /\ RoomInv' /\ ~Replaces BY <2>1, <2>6, <2>9, AttemptKeeps DEF Loading
  <2> QED BY <1>1, <2>6, <2>8, <2>12, <2>13 DEF Inv
<1> QED BY <1>3, <1>4, <1>5 DEF Trim

LEMMA LoadingAttempts ==
  ASSUME Inv, NEW a \in Attempts, RestoreWindow(a) \/ RestoreEvict(a) \/ RestoreEvicted(a)
  PROVE  Inv' /\ ~Replaces
<1>1. CASE RestoreEvicted(a)
  <2>1. plan[a] \in Seq(Tabs) /\ Distinct(plan[a]) BY DEF Inv, RestoresOK
  <2> QED BY <1>1, <2>1, TrimStep DEF RestoreEvicted
<1>2. CASE RestoreWindow(a)
  <2> DEFINE live   == TabsOf(saved[a].windowId)
             strays == IF saved[a].adopted THEN {} ELSE live \ Elems(saved[a].tabs)
  <2>0. stage[a] = "window" /\ UNCHANGED <<browser, job, reader>> BY <1>2 DEF RestoreWindow
  <2>1. saved[a] \in States /\ saved[a].tabs \in Seq(Tabs) BY DEF Inv, RestoresOK, States
  <2>2. ASSUME NEW kept \in Only(saved[a].tabs, live), NEW q \in Orders(strays), Trim(a, kept \o q)
        PROVE  Inv' /\ ~Replaces
    <3>1. kept \in Seq(Tabs) /\ Distinct(kept) /\ Elems(kept) \subseteq Elems(saved[a].tabs)
      BY <2>1, <2>2, OnlyFacts
    <3>2. strays \in SUBSET Tabs BY DEF TabsOf
    <3>3. q \in Seq(Tabs) /\ Distinct(q) /\ Elems(q) \subseteq strays
      <4> HIDE DEF strays
      <4> QED BY <2>2, <3>2, OrdersFacts
    <3>4. Elems(kept) \cap Elems(q) = {} BY <3>1, <3>3
    <3>5. kept \o q \in Seq(Tabs) /\ Distinct(kept \o q) BY <3>1, <3>3, <3>4, ConcatDistinct
    <3> QED BY <2>0, <2>2, <3>5, TrimStep
  <2>3. CASE Succeeds(a) /\ UNCHANGED <<memory, storage>>
    <3>1. SessionOK' /\ Fades /\ StoredOK' /\ BrowserOK' /\ JobsOK' BY <2>0, <2>3, Frames DEF Inv
    <3>2. /\ RestoresOK' /\ stage'[a] = "ok" /\ current' = current
          /\ \A b \in Attempts \ {a} : stage'[b] = stage[b]
      BY <2>3, SettleFacts DEF Inv, Succeeds
    <3>3. FenceInv' /\ RoomInv' /\ ~Replaces BY <2>0, <3>1, <3>2, AttemptKeeps DEF Loading
    <3> QED BY <3>1, <3>2, <3>3 DEF Inv
  <2>4. CASE /\ session' = NoSession /\ active' = None
             /\ plan' = [plan EXCEPT ![a] = <<>>] /\ saved' = [saved EXCEPT ![a] = NoSession]
             /\ Saving(a, NoSession)
    <3>1. Fades /\ SessionOK' BY <2>4, FadesFacts DEF Fades, Inv
    <3>2. StoredOK' BY <2>4, ClearFacts DEF Saving, Inv
    <3>3. BrowserOK' /\ JobsOK' BY <2>0, Frames DEF Inv
    <3>4. /\ stage' \in [Attempts -> Stages] /\ stage'[a] \in {"written", "unwritten"}
          /\ \A b \in Attempts \ {a} : stage'[b] = stage[b]
          /\ plan' \in [Attempts -> Seq(Tabs)] /\ plan'[a] = <<>>
          /\ \A b \in Attempts \ {a} : plan'[b] = plan[b]
          /\ current' = current
      BY <2>4 DEF Inv, RestoresOK, Stages, Saving
    <3>5. /\ saved' \in [Attempts -> States] /\ saved'[a] = NoSession
          /\ \A b \in Attempts \ {a} : saved'[b] = saved[b]
      BY <2>4, NoSessionFacts DEF Inv, RestoresOK
    <3>6. ASSUME NEW b \in Attempts
          PROVE  /\ Distinct(saved'[b].tabs) /\ Distinct(plan'[b])
                 /\ stage'[b] \in {"window", "evict", "evicted"} => saved'[b].windowId # None
                 /\ stage'[b] = "evict" => plan'[b] # <<>>
      <4>1. CASE b = a BY <3>4, <3>5, <4>1, NoSessionFacts
      <4>2. CASE b # a BY <3>4, <3>5, <4>2 DEF Inv, RestoresOK
      <4> QED BY <4>1, <4>2
    <3>7. RestoresOK' BY <3>4, <3>5, <3>6 DEF Inv, RestoresOK
    <3>8. FenceInv' /\ RoomInv' /\ ~Replaces BY <2>0, <2>4, <3>1, <3>4, AttemptKeeps
    <3> QED BY <3>1, <3>2, <3>3, <3>7, <3>8 DEF Inv
  <2> HIDE DEF live, strays
  <2> QED BY <1>2, <2>2, <2>3, <2>4 DEF RestoreWindow, live, strays
<1>3. CASE RestoreEvict(a)
  <2>1. /\ stage[a] = "evict" /\ UNCHANGED <<current, saved, job, reader>>
        /\ stage' = [stage EXCEPT ![a] = "evicted"] /\ plan' = [plan EXCEPT ![a] = Tail(plan[a])]
        /\ Closing({Head(plan[a])}) \/ UNCHANGED <<browser, memory, storage>>
    BY <1>3 DEF RestoreEvict
  <2>2. SessionOK' /\ Fades /\ StoredOK' /\ BrowserOK' BY <2>1, ClosingFacts, Frames DEF Inv
  <2>3. Tail(plan[a]) \in Seq(Tabs) /\ Distinct(Tail(plan[a]))
    BY <2>1, TailFacts DEF Inv, RestoresOK
  <2>4. /\ stage' \in [Attempts -> Stages] /\ stage'[a] = "evicted"
        /\ \A b \in Attempts \ {a} : stage'[b] = stage[b]
        /\ plan' \in [Attempts -> Seq(Tabs)] /\ plan'[a] = Tail(plan[a])
        /\ \A b \in Attempts \ {a} : plan'[b] = plan[b]
    BY <2>1, <2>3 DEF Inv, RestoresOK, Stages
  <2>5. ASSUME NEW b \in Attempts
        PROVE  /\ Distinct(saved'[b].tabs) /\ Distinct(plan'[b])
               /\ stage'[b] \in {"window", "evict", "evicted"} => saved'[b].windowId # None
               /\ stage'[b] = "evict" => plan'[b] # <<>>
    <3>1. CASE b = a BY <2>1, <2>3, <2>4, <3>1 DEF Inv, RestoresOK
    <3>2. CASE b # a BY <2>1, <2>4, <3>2 DEF Inv, RestoresOK
    <3> QED BY <3>1, <3>2
  <2>6. RestoresOK' BY <2>1, <2>4, <2>5 DEF Inv, RestoresOK
  <2>7. current = a => session' = NoSession
    BY <2>1, <2>2, FadesFacts DEF Inv, FenceInv, Loading, SessionOK
  <2>8. FenceInv' /\ RoomInv' /\ ~Replaces BY <2>1, <2>2, <2>4, <2>7, AttemptKeeps
  <2>9. JobsOK' BY <2>1, Frames DEF Inv
  <2> QED BY <2>2, <2>6, <2>8, <2>9 DEF Inv
<1> QED BY <1>1, <1>2, <1>3

----------------------------------------------------------------------------
(* createWindow *)

LEMMA NoJobFacts == NoJob \in Jobs /\ NoJob.at = "idle"
<1>1. <<>> \in Seq(Tabs) /\ 0 \in Objects BY DEF Objects
<1> QED BY <1>1 DEF NoJob, Jobs, JobStages

LEMMA AtFacts ==
  ASSUME NEW j \in Jobs, NEW at \in JobStages
  PROVE  LET k == [j EXCEPT !.at = at]
         IN  /\ k \in Jobs /\ k.at = at /\ k.windowId = j.windowId
             /\ k.tab = j.tab /\ k.of = j.of /\ k.want = j.want
  BY DEF Jobs

LEMMA GoFacts ==
  ASSUME Inv, NEW at \in JobStages, Go(at)
  PROVE  job' \in Jobs /\ job'.at = at
  BY AtFacts DEF Go, Inv, JobsOK

LEMMA EndFacts == End => job' \in Jobs /\ job'.at = "end"
<1>1. "end" \in JobStages BY DEF JobStages
<1> QED BY <1>1, NoJobFacts, AtFacts DEF End

\* A command that is past opening and filling only needs its type.
LEMMA CommandDone ==
  ASSUME Inv, Ready, UNCHANGED <<restores, reader>>, BrowserOK', StoredOK', SessionOK', Fades,
         job' \in Jobs, job'.at \notin Opening \cup Filling
  PROVE  Inv' /\ ~Replaces
<1>1. JobsOK' BY DEF JobsOK, Opening, Filling, Inv
<1>2. FenceInv' /\ RoomInv' BY CommandKeeps DEF Filling
<1>3. RestoresOK' BY Frames DEF Inv
<1>4. ~Replaces BY FadesFacts DEF SessionOK, Inv
<1> QED BY <1>1, <1>2, <1>3, <1>4 DEF Inv

LEMMA OpenSessionStep ==
  ASSUME Inv, Ready, NEW want \in {"any", "private", "public", "own"}, OpenSession(want), session = NoSession,
         UNCHANGED <<browser, memory, storage, restores, reader>>
  PROVE  Inv' /\ ~Replaces
<1>1. BrowserOK' /\ SessionOK' /\ Fades /\ StoredOK' /\ RestoresOK' BY Frames DEF Inv
<1>2. job' \in Jobs /\ job'.at \in {"adopt", "open"}
  <2>1. [NoJob EXCEPT !.at = "adopt", !.want = want] \in Jobs BY NoJobFacts DEF Jobs, JobStages
  <2>2. [NoJob EXCEPT !.at = "open", !.want = "private"] \in Jobs BY NoJobFacts DEF Jobs, JobStages
  <2>3. \/ job' = [NoJob EXCEPT !.at = "adopt", !.want = want]
        \/ job' = [NoJob EXCEPT !.at = "open", !.want = "private"]
    BY DEF OpenSession
  <2> QED BY <2>1, <2>2, <2>3, NoJobFacts DEF Jobs
<1>3. JobsOK' BY <1>2 DEF JobsOK, Filling, Inv
<1>4. session' = NoSession BY DEF memory
<1>5. FenceInv' /\ RoomInv' BY <1>2, <1>4, CommandKeeps DEF Filling
<1>6. ~Replaces BY DEF Replaces
<1> QED BY <1>1, <1>3, <1>5, <1>6 DEF Inv

LEMMA AddPoolTabStep ==
  ASSUME Inv, Ready, NEW want, AddPoolTab(want), session # NoSession,
         UNCHANGED <<browser, active, storage, restores, reader>>
  PROVE  Inv' /\ ~Replaces
<1>1. BrowserOK' /\ StoredOK' /\ RestoresOK' BY Frames DEF Inv
<1>2. session \in States /\ session.tabs \in Seq(Tabs) /\ session.object # 0 /\ Distinct(session.tabs)
      /\ Len(session.tabs) <= MaxTabs /\ active' \in Tabs \cup {None}
  BY DEF Inv, SessionOK, States, PoolBounded
<1> DEFINE here == [NoJob EXCEPT !.windowId = session.windowId, !.of = session.object]
<1>3. here \in Jobs /\ here.of = session.object
  BY <1>2, NoJobFacts DEF Jobs, States, NoJob
<1> HIDE DEF here
<1>4. CASE End /\ session' = session
  <2>1. SessionOK' /\ Fades BY <1>2, <1>4, FadesFacts DEF Fades, Inv
  <2>2. job' \in Jobs /\ job'.at = "end" BY <1>4, EndFacts
  <2> QED BY <1>1, <2>1, <2>2, CommandDone DEF Opening, Filling
<1>5. CASE /\ Full(session.tabs) /\ job' = [here EXCEPT !.at = "evict", !.tab = Head(session.tabs)]
           /\ session' = [session EXCEPT !.tabs = Tail(session.tabs)]
  <2>1. session.tabs # <<>> BY <1>2, <1>5 DEF Full
  <2>2. Head(session.tabs) \in Tabs BY <1>2, <2>1
  <2>3. /\ Tail(session.tabs) \in Seq(Tabs) /\ Distinct(Tail(session.tabs))
        /\ Len(Tail(session.tabs)) = Len(session.tabs) - 1 /\ Elems(Tail(session.tabs)) \subseteq Elems(session.tabs)
    BY <1>2, <2>1, TailFacts
  <2>4. Len(Tail(session.tabs)) <= Len(session.tabs) /\ Len(Tail(session.tabs)) < MaxTabs
    BY <1>2, <2>3
  <2>5. Fades BY <1>5, <2>3, <2>4 DEF Fades
  <2>6. SessionOK' /\ ~Replaces BY <1>2, <2>5, FadesFacts DEF Inv
  <2>7. session'.tabs = Tail(session.tabs) BY <1>2, <1>5 DEF States
  <2>8. job' \in Jobs /\ job'.at = "evict" /\ job'.of # 0
    BY <1>2, <1>3, <1>5, <2>2 DEF Jobs, JobStages
  <2>9. JobsOK' BY <2>8 DEF JobsOK, Inv
  <2>10. FenceInv' /\ RoomInv' BY <2>4, <2>7, <2>8, CommandKeeps DEF Opening
  <2> QED BY <1>1, <2>6, <2>9, <2>10 DEF Inv
<1>6. CASE ~Full(session.tabs) /\ job' = [here EXCEPT !.at = "create"] /\ session' = session
  <2>1. SessionOK' /\ ~Replaces BY <1>2, <1>6, FadesFacts DEF Fades, Inv
  <2>2. Len(session'.tabs) < MaxTabs BY <1>2, <1>6 DEF Full
  <2>3. job' \in Jobs /\ job'.at = "create" /\ job'.of # 0
    BY <1>2, <1>3, <1>6 DEF Jobs, JobStages
  <2>4. JobsOK' BY <2>3 DEF JobsOK, Inv
  <2>5. FenceInv' /\ RoomInv' BY <2>2, <2>3, CommandKeeps DEF Opening
  <2> QED BY <1>1, <2>1, <2>4, <2>5 DEF Inv
<1> QED BY <1>4, <1>5, <1>6 DEF AddPoolTab, here

LEMMA CommandReady == ASSUME Inv, job.at # "idle" PROVE Ready
  BY NoJobFacts DEF Inv, FenceInv

LEMMA CreateWindowStep ==
  ASSUME Inv, NEW want \in {"any", "private", "public"}, CreateWindow(want)
  PROVE  Inv' /\ ~Replaces
<1>1. Ready /\ UNCHANGED <<browser, memory, storage, restores, reader>> BY DEF CreateWindow
<1>2. CASE session = NoSession BY <1>1, <1>2, OpenSessionStep DEF CreateWindow
<1>3. CASE session # NoSession
  <2>1. BrowserOK' /\ SessionOK' /\ Fades /\ StoredOK' BY <1>1, Frames DEF Inv
  <2>2. job' = [NoJob EXCEPT !.at = "check", !.windowId = session.windowId, !.want = want]
    BY <1>3 DEF CreateWindow
  <2>3. session.windowId \in Windows \cup {None} BY DEF Inv, SessionOK, States
  <2>4. job' \in Jobs /\ job'.at = "check" BY <2>2, <2>3, NoJobFacts DEF Jobs, JobStages
  <2> QED BY <1>1, <2>1, <2>4, CommandDone DEF Opening, Filling
<1> QED BY <1>2, <1>3

LEMMA CheckSteps ==
  ASSUME Inv, CheckWindow \/ AfterClear
  PROVE  Inv' /\ ~Replaces
<1>1. Ready /\ UNCHANGED <<browser, restores, reader>> BY CommandReady DEF CheckWindow, AfterClear
<1>2. job \in Jobs /\ job.want \in {"any", "private", "public", "own"} BY DEF Inv, JobsOK, Jobs
<1>3. CASE session = NoSession /\ OpenSession(job.want) /\ UNCHANGED <<session, active, storage>>
  BY <1>1, <1>2, <1>3, OpenSessionStep DEF memory
<1>4. CASE session # NoSession /\ AddPoolTab(job.want) /\ UNCHANGED <<active, storage>>
  BY <1>1, <1>4, AddPoolTabStep
<1>5. CASE session' = NoSession /\ active' = None /\ Write(NoSession) /\ (Go("cleared") \/ End)
  <2>1. Fades /\ SessionOK' BY <1>5, FadesFacts DEF Fades, Inv
  <2>2. StoredOK' /\ BrowserOK' BY <1>1, <1>5, ClearFacts, Frames DEF Inv
  <2>3. job' \in Jobs /\ job'.at \in {"cleared", "end"}
    BY <1>5, GoFacts, EndFacts DEF JobStages
  <2> QED BY <1>1, <2>1, <2>2, <2>3, CommandDone DEF Opening, Filling
<1> QED BY <1>3, <1>4, <1>5 DEF CheckWindow, AfterClear

LEMMA RemoveTabFacts ==
  ASSUME Inv, NEW t, RemoveTab(t)
  PROVE  BrowserOK' /\ StoredOK' /\ Fades /\ SessionOK'
  BY ClosingFacts, Frames DEF RemoveTab, Inv

LEMMA EvictOldestStep == ASSUME Inv, EvictOldest PROVE Inv' /\ ~Replaces
<1>1. /\ job.at = "evict" /\ RemoveTab(job.tab) /\ UNCHANGED <<restores, reader>>
      /\ job' = [job EXCEPT !.at = "create", !.tab = None]
  BY DEF EvictOldest
<1>2. BrowserOK' /\ StoredOK' /\ Fades /\ SessionOK' BY <1>1, RemoveTabFacts
<1>3. Len(session'.tabs) <= Len(session.tabs) /\ ~Replaces BY <1>2, FadesFacts DEF Inv, SessionOK
<1>4. Len(session'.tabs) \in Nat /\ Len(session.tabs) \in Nat BY <1>2 DEF Inv, SessionOK, States
<1>5. Len(session.tabs) < MaxTabs /\ job.of # 0 BY <1>1 DEF Inv, RoomInv, JobsOK, Filling
<1>6. Len(session'.tabs) < MaxTabs BY <1>3, <1>4, <1>5
<1>7. job' \in Jobs /\ job'.at = "create" /\ job'.of = job.of BY <1>1 DEF Inv, JobsOK, Jobs, JobStages
<1>8. JobsOK' BY <1>1, <1>5, <1>7 DEF JobsOK, Inv
<1>9. Ready BY <1>1, CommandReady
<1>10. FenceInv' /\ RoomInv' BY <1>1, <1>6, <1>7, <1>9, CommandKeeps DEF Opening
<1> QED BY <1>1, <1>2, <1>3, <1>8, <1>10, Frames DEF Inv

LEMMA CreateTabStep == ASSUME Inv, CreateTab PROVE Inv' /\ ~Replaces
<1>1. Ready /\ job.at \in {"create", "join"} /\ UNCHANGED <<memory, storage, restores, reader>>
  BY CommandReady DEF CreateTab
<1>2. SessionOK' /\ Fades /\ StoredOK' /\ RestoresOK' BY <1>1, Frames DEF Inv
<1>3. CASE End /\ UNCHANGED browser
  <2>1. job' \in Jobs /\ job'.at = "end" BY <1>3, EndFacts
  <2> QED BY <1>1, <1>2, <1>3, <2>1, Frames, CommandDone DEF Inv, Opening, Filling
<1>4. ASSUME NEW t \in Tabs, job.windowId \in Open, IsFreshTab(t),
             place' = [place EXCEPT ![t] = job.windowId],
             job' = [job EXCEPT !.at = IF job.at = "create" THEN "created" ELSE "opened", !.tab = t],
             UNCHANGED <<incognito, users>>
      PROVE  Inv' /\ ~Replaces
  <2>1. ~IsOpen(t) /\ job.windowId \in Windows /\ t \notin Elems(session.tabs)
    BY <1>4 DEF IsFreshTab, Held, Open
  <2>2. BrowserOK' BY <1>4, <2>1, OpensTabFacts DEF Inv
  <2>3. /\ job' \in Jobs /\ job'.tab = t /\ job'.windowId = job.windowId /\ job'.of = job.of
        /\ job'.at = IF job.at = "create" THEN "created" ELSE "opened"
    BY <1>4 DEF Inv, JobsOK, Jobs, JobStages
  <2>4. session' = session BY <1>1 DEF memory
  <2>5. job'.windowId # None BY <2>1, <2>3
  <2>6. JobsOK' BY <1>1, <2>3, <2>5 DEF Inv, JobsOK, Filling
  <2>7. FenceInv' /\ RoomInv'
    BY <1>1, <2>1, <2>3, <2>4, CommandKeeps DEF Inv, FenceInv, RoomInv, Opening, Filling
  <2>8. ~Replaces BY <2>4 DEF Replaces
  <2> QED BY <1>2, <2>2, <2>6, <2>7, <2>8 DEF Inv
<1> QED BY <1>3, <1>4 DEF CreateTab

LEMMA PoolTabCreatedStep == ASSUME Inv, PoolTabCreated PROVE Inv' /\ ~Replaces
<1>1. /\ job.at = "created" /\ active' = job.tab /\ Go("group")
      /\ UNCHANGED <<browser, storage, restores, reader>>
  BY DEF PoolTabCreated
<1>2. job.tab \in Tabs /\ job.of # 0 BY <1>1 DEF Inv, JobsOK, Filling
<1>3. SessionOK' /\ ~Replaces
  <2>1. CASE session.object = job.of
    <3>1. session' = [session EXCEPT !.tabs = Append(session.tabs, job.tab)] BY <2>1 DEF PoolTabCreated
    <3>2. /\ session \in States /\ session.tabs \in Seq(Tabs) /\ Distinct(session.tabs)
          /\ Len(session.tabs) < MaxTabs /\ job.tab \notin Elems(session.tabs) /\ session # NoSession
      BY <1>1, <1>2, <2>1, NoSessionFacts DEF Inv, SessionOK, States, PoolBounded, RoomInv, Filling
    <3>3. /\ Append(session.tabs, job.tab) \in Seq(Tabs) /\ Distinct(Append(session.tabs, job.tab))
          /\ Len(Append(session.tabs, job.tab)) = Len(session.tabs) + 1
      BY <1>2, <3>2, AppendFacts
    <3>4. /\ session' \in States /\ session'.tabs = Append(session.tabs, job.tab)
          /\ session'.object = session.object /\ session'.windowId = session.windowId
      BY <3>1, <3>2, <3>3 DEF States
    <3>5. Len(session'.tabs) <= MaxTabs BY <3>2, <3>3, <3>4
    <3>6. session'.object # 0 /\ session'.windowId # None
      BY <3>2, <3>4 DEF Inv, SessionOK
    <3> QED BY <1>1, <1>2, <3>3, <3>4, <3>5, <3>6, NoSessionFacts DEF SessionOK, PoolBounded, Replaces
  <2>2. CASE session.object # job.of
    <3>1. session' = session BY <2>2 DEF PoolTabCreated
    <3> QED BY <1>1, <1>2, <3>1, FadesFacts DEF Fades, Inv
  <2> QED BY <2>1, <2>2
<1>4. job' \in Jobs /\ job'.at = "group" BY <1>1, GoFacts DEF JobStages
<1>5. JobsOK' BY <1>1, <1>4 DEF JobsOK, Inv, Filling
<1>6. FenceInv' /\ RoomInv' BY <1>1, <1>4, CommandReady, CommandKeeps DEF Opening, Filling
<1> QED BY <1>1, <1>3, <1>5, <1>6, Frames DEF Inv

LEMMA OpeningSteps == ASSUME Inv, Adopt \/ OpenWindow PROVE Inv' /\ ~Replaces
<1>1. Ready /\ job.at \in {"adopt", "open"} /\ UNCHANGED <<memory, storage, restores, reader>>
  BY CommandReady DEF Adopt, OpenWindow
<1>2. SessionOK' /\ Fades /\ StoredOK' /\ RestoresOK' BY <1>1, Frames DEF Inv
<1>3. session' = NoSession /\ ~Replaces BY <1>1 DEF Inv, FenceInv, Opening, memory, Replaces
<1>4. ASSUME job' \in Jobs, job'.at \in {"join", "open", "opened"}, BrowserOK',
             job'.at \in {"join", "opened"} => job'.windowId # None, job'.at = "opened" => job'.tab \in Tabs
      PROVE  Inv' /\ ~Replaces
  <2>1. JobsOK' BY <1>1, <1>4 DEF Inv, JobsOK, Filling
  <2>2. FenceInv' /\ RoomInv' BY <1>1, <1>3, <1>4, CommandKeeps DEF Filling
  <2> QED BY <1>2, <1>3, <1>4, <2>1, <2>2 DEF Inv
<1>5. CASE Adopt
  <2>1. BrowserOK' BY <1>5, Frames DEF Adopt, Inv
  <2>2. CASE Go("open") BY <1>4, <2>1, <2>2, GoFacts DEF JobStages
  <2>3. ASSUME NEW w \in Open \ incognito, job' = [job EXCEPT !.at = "join", !.windowId = w]
        PROVE  Inv' /\ ~Replaces
    <3>1. w \in Windows BY DEF Open
    <3>2. job' \in Jobs /\ job'.at = "join" /\ job'.windowId = w
      BY <2>3, <3>1 DEF Inv, JobsOK, Jobs, JobStages
    <3> QED BY <1>4, <2>1, <3>1, <3>2
  <2> QED BY <1>5, <2>2, <2>3 DEF Adopt
<1>6. CASE OpenWindow
  <2>1. CASE job' = [job EXCEPT !.want = "public"] /\ UNCHANGED browser
    <3>1. job' \in Jobs /\ job'.at = "open" BY <1>6, <2>1 DEF OpenWindow, Inv, JobsOK, Jobs
    <3> QED BY <1>4, <2>1, <3>1, Frames DEF Inv
  <2>2. CASE End /\ UNCHANGED browser
    <3>1. job' \in Jobs /\ job'.at = "end" BY <2>2, EndFacts
    <3> QED BY <1>1, <1>2, <2>2, <3>1, Frames, CommandDone DEF Inv, Opening, Filling
  <2>3. ASSUME NEW w \in FreshWindows, NEW t \in Tabs, IsFreshTab(t),
               place' = [place EXCEPT ![t] = w],
               incognito' = IF job.want = "private" THEN incognito \cup {w} ELSE incognito,
               job' = [job EXCEPT !.at = "opened", !.windowId = w, !.tab = t,
                                  !.want = IF job.want = "public" THEN "own" ELSE job.want],
               UNCHANGED users
        PROVE  Inv' /\ ~Replaces
    <3>1. w \in OwnWindows /\ w \in Windows BY DEF FreshWindows, Windows
    <3>2. BrowserOK' BY <2>3, <3>1, OpensTabFacts DEF IsFreshTab, Inv
    <3>3. job' \in Jobs /\ job'.at = "opened" /\ job'.windowId = w /\ job'.tab = t
      BY <2>3, <3>1 DEF Inv, JobsOK, Jobs, JobStages
    <3> QED BY <1>4, <3>1, <3>2, <3>3
  <2> QED BY <1>6, <2>1, <2>2, <2>3 DEF OpenWindow
<1> QED BY <1>5, <1>6

LEMMA SessionOpenedStep == ASSUME Inv, SessionOpened PROVE Inv' /\ ~Replaces
<1>1. /\ job.at = "opened" /\ active' = job.tab /\ UNCHANGED <<browser, storage, restores, reader>>
      /\ session' = [object |-> FreshObject, windowId |-> job.windowId, tabs |-> <<job.tab>>,
                     isPrivate |-> (~Adopted /\ job.want = "private"), adopted |-> Adopted]
      /\ job' = [job EXCEPT !.at = "group", !.of = session'.object]
  BY DEF SessionOpened
<1>2. session = NoSession BY <1>1 DEF Inv, FenceInv, Opening
<1>3. job.tab \in Tabs /\ job.windowId \in Windows /\ job \in Jobs BY <1>1 DEF Inv, JobsOK, Jobs
<1>4. FreshObject \in Objects /\ FreshObject # 0 BY FreshObjectFacts DEF Inv
<1>5. <<job.tab>> \in Seq(Tabs) /\ Distinct(<<job.tab>>) /\ Len(<<job.tab>>) = 1
  BY <1>3 DEF Distinct
<1>6. Adopted \in BOOLEAN /\ (~Adopted /\ job.want = "private") \in BOOLEAN BY DEF Adopted
<1>7. session' \in States BY <1>1, <1>3, <1>4, <1>5, <1>6, StateFacts
<1>8. /\ session'.object = FreshObject /\ session'.windowId = job.windowId /\ session'.tabs = <<job.tab>>
  BY <1>1
<1>9. SessionOK'
  BY <1>1, <1>3, <1>4, <1>5, <1>7, <1>8, NoSessionFacts DEF SessionOK, PoolBounded
<1>10. job' \in Jobs /\ job'.at = "group" BY <1>1, <1>3, <1>4, <1>8 DEF Jobs, JobStages
<1>11. JobsOK' BY <1>1, <1>10 DEF Inv, JobsOK, Filling
<1>12. FenceInv' /\ RoomInv' BY <1>1, <1>10, CommandReady, CommandKeeps DEF Opening, Filling
<1>13. ~Replaces BY <1>2 DEF Replaces
<1> QED BY <1>1, <1>9, <1>11, <1>12, <1>13, Frames DEF Inv

\* The end of every command.
LEMMA ClosingSteps ==
  ASSUME Inv, GroupTab \/ Save \/ RemoveClosed \/ Repoint \/ CloseWindow \/ CloseNext \/ CloseAll
  PROVE  Inv' /\ ~Replaces
<1>1. Ready /\ UNCHANGED <<restores, reader>>
  BY CommandReady DEF GroupTab, Save, RemoveClosed, Repoint, CloseWindow, CloseNext, CloseAll
<1>2. ASSUME BrowserOK', StoredOK', SessionOK', Fades, job' \in Jobs,
             job'.at \in {"save", "end", "idle", "closed", "closeTabs", "closeAll"}
      PROVE  Inv' /\ ~Replaces
  BY <1>1, <1>2, CommandDone DEF Opening, Filling
<1>3. job \in Jobs BY DEF Inv, JobsOK
<1>4. CASE GroupTab
  <2>1. job' \in Jobs /\ job'.at = "save" BY <1>4, GoFacts DEF GroupTab, JobStages
  <2> QED BY <1>2, <1>4, <2>1, Frames DEF GroupTab, Inv
<1>5. CASE Save
  <2>1. Write(session) /\ UNCHANGED <<browser, memory>> BY <1>5 DEF Save, Quietly
  <2>2. StoredOK' BY <2>1, SaveFacts DEF Inv
  <2>3. job' \in Jobs /\ job'.at \in {"end", "idle"} BY <1>5, EndFacts, NoJobFacts DEF Save
  <2> QED BY <1>2, <2>1, <2>2, <2>3, Frames DEF Inv
<1>6. CASE RemoveClosed
  <2>1. job' \in Jobs /\ job'.at = "closed" BY <1>6, GoFacts DEF RemoveClosed, JobStages
  <2> QED BY <1>2, <1>6, <2>1, RemoveTabFacts DEF RemoveClosed
<1>7. CASE Repoint
  <2>1. session' = session /\ UNCHANGED <<browser, storage>> BY <1>7 DEF Repoint
  <2>2. LastOf(session.tabs) \in Tabs \cup {None} BY DEF LastOf, Inv, SessionOK, States
  <2>3. active' \in Tabs \cup {None} BY <1>7, <2>2 DEF Repoint, Inv, SessionOK
  <2>4. Fades /\ SessionOK' BY <2>1, <2>3, FadesFacts DEF Fades, Inv
  <2>5. job' \in Jobs /\ job'.at = "end" BY <1>7, EndFacts DEF Repoint
  <2> QED BY <1>2, <2>1, <2>4, <2>5, Frames DEF Inv
<1>8. CASE CloseWindow
  <2>1. session' = NoSession /\ active' = None /\ Write(NoSession) /\ UNCHANGED browser
    BY <1>8 DEF CloseWindow
  <2>2. Fades /\ SessionOK' BY <2>1, FadesFacts DEF Fades, Inv
  <2>3. StoredOK' /\ BrowserOK' BY <2>1, ClearFacts, Frames DEF Inv
  <2>4. session.tabs \in Seq(Tabs) /\ session.windowId \in Windows \cup {None}
    BY DEF Inv, SessionOK, States
  <2>5. CASE End BY <1>2, <2>2, <2>3, <2>5, EndFacts
  <2>6. CASE job' = [NoJob EXCEPT !.at = "closeTabs", !.tabs = session.tabs]
    <3>1. job' \in Jobs /\ job'.at = "closeTabs" BY <2>4, <2>6, NoJobFacts DEF Jobs, JobStages
    <3> QED BY <1>2, <2>2, <2>3, <3>1
  <2>7. CASE job' = [NoJob EXCEPT !.at = "closeAll", !.windowId = session.windowId]
    <3>1. job' \in Jobs /\ job'.at = "closeAll" BY <2>4, <2>7, NoJobFacts DEF Jobs, JobStages
    <3> QED BY <1>2, <2>2, <2>3, <3>1
  <2> QED BY <1>8, <2>5, <2>6, <2>7 DEF CloseWindow
<1>9. CASE CloseNext
  <2>1. CASE End /\ UNCHANGED <<browser, memory, storage>>
    BY <1>2, <2>1, EndFacts, Frames DEF Inv
  <2>2. CASE /\ job.at = "closeTabs" /\ job.tabs # <<>>
             /\ RemoveTab(Head(job.tabs)) /\ job' = [job EXCEPT !.tabs = Tail(job.tabs)]
    <3>1. Tail(job.tabs) \in Seq(Tabs) BY <1>3, <2>2 DEF Jobs
    <3>2. job' \in Jobs /\ job'.at = "closeTabs" BY <1>3, <2>2, <3>1 DEF Jobs
    <3> QED BY <1>2, <2>2, <3>2, RemoveTabFacts
  <2> QED BY <1>9, <2>1, <2>2 DEF CloseNext
<1>10. CASE CloseAll
  <2>1. BrowserOK' /\ StoredOK' /\ Fades /\ SessionOK' BY <1>10, ClosingFacts, Frames DEF CloseAll, Inv
  <2>2. job' \in Jobs /\ job'.at = "end" BY <1>10, EndFacts DEF CloseAll
  <2> QED BY <1>2, <2>1, <2>2
<1> QED BY <1>4, <1>5, <1>6, <1>7, <1>8, <1>9, <1>10

LEMMA CloseTabStep == ASSUME Inv, NEW t \in Tabs, CloseTab(t) PROVE Inv' /\ ~Replaces
<1>1. Ready /\ t \in Elems(session.tabs) /\ UNCHANGED <<browser, active, storage, restores, reader>>
  BY DEF CloseTab
<1>2. session.tabs \in Seq(Tabs) /\ session.object \in Objects BY DEF Inv, SessionOK, States
<1>3. session # NoSession BY <1>1, NoSessionFacts
<1>4. PICK kept \in Only(session.tabs, Tabs \ {t}) : session' = [session EXCEPT !.tabs = kept] BY DEF CloseTab
<1>5. /\ kept \in Seq(Tabs) /\ Distinct(kept)
      /\ Elems(kept) \subseteq Elems(session.tabs) /\ Len(kept) <= Len(session.tabs)
  BY <1>2, OnlyFacts
<1>6. Fades BY <1>3, <1>4, <1>5 DEF Fades
<1>7. SessionOK' BY <1>1, <1>6, FadesFacts DEF Inv, SessionOK
<1>8. job' = [NoJob EXCEPT !.at = "close", !.tab = t, !.of = session.object] BY DEF CloseTab
<1>9. job' \in Jobs /\ job'.at = "close" BY <1>2, <1>8, NoJobFacts DEF Jobs, JobStages
<1>10. BrowserOK' /\ StoredOK' BY <1>1, Frames DEF Inv
<1> QED BY <1>1, <1>6, <1>7, <1>9, <1>10, CommandDone DEF Opening, Filling

\* A step keeps the invariant and sets a session only where there is none.
LEMMA NextStep == ASSUME Inv, [Next]_vars PROVE Inv' /\ ~Replaces
<1>1. CASE UNCHANGED vars
  <2>1. UNCHANGED <<browser, memory, storage, restores, job, reader>> BY <1>1 DEF vars
  <2>2. BrowserOK' /\ SessionOK' /\ Fades /\ StoredOK' /\ RestoresOK' /\ JobsOK' BY <2>1, Frames DEF Inv
  <2>3. FenceInv' /\ RoomInv' /\ ~Replaces BY <2>1, <2>2, EventKeeps
  <2> QED BY <2>2, <2>3 DEF Inv
<1>2. CASE Next
  BY <1>2, UserSteps, ReaderSteps, QuietAttempts, LoadingAttempts, CreateWindowStep, CheckSteps,
     EvictOldestStep, CreateTabStep, PoolTabCreatedStep, OpeningSteps, SessionOpenedStep, ClosingSteps,
     CloseTabStep DEF Next
<1> QED BY <1>1, <1>2

LEMMA SpecInv == Spec => []Inv
<1>1. Inv /\ [Next]_vars => Inv' BY NextStep
<1> QED BY InitInv, <1>1, PTL DEF Spec

----------------------------------------------------------------------------
(* Sessions, storage and the browser *)

\* What a session says of its window and its tabs is so, or the tab has closed.
Fits(s) ==
  /\ s.windowId \in UserWindows => s.adopted
  /\ s.isPrivate \/ s.windowId \notin incognito
  /\ \A t \in Elems(s.tabs) : t \notin users /\ place[t] \in {s.windowId, None}

FitInv ==
  /\ Fits(session)
  /\ Fits(stored) /\ ~stored.isPrivate /\ Len(stored.tabs) <= MaxTabs
  /\ \A a \in Attempts :
       /\ Fits(saved[a]) /\ ~saved[a].isPrivate
       /\ \A t \in Elems(plan[a]) : t \notin users /\ place[t] \in {saved[a].windowId, None}
       /\ stage[a] \notin {"evict", "evicted"} => plan[a] = <<>>

\* What a command carries from one call to the next.
CarryInv ==
  /\ job.tab \notin users /\ Elems(job.tabs) \cap users = {}
  /\ job.at \in {"created", "opened"} => place[job.tab] \in {job.windowId, None}
  /\ job.at \in Filling /\ session.object = job.of => session.windowId = job.windowId
  /\ job.at = "check" => session.windowId \in {job.windowId, None}
  /\ job.at \in {"adopt", "join"} => job.want = "public"
  /\ job.at \in {"join", "opened"} => job.want = "private" \/ job.windowId \notin incognito
  /\ job.at = "opened" => job.want = "public" \/ job.windowId \in OwnWindows
  /\ job.at = "closeAll" => job.windowId \in OwnWindows

\* A reader that finds its session finds the window it asked for.
ReaderInv ==
  reader.at = "window" => reader.of # 0 /\ (session.object = reader.of => session.windowId = reader.windowId)

\* No attempt of this lifetime came to writing yet.
Unread ==
  /\ session = NoSession /\ job = NoJob
  /\ current # None => stage[current] \in Loading
  /\ \A a \in Attempts : stage[a] \notin {"written", "unwritten"}

\* While a command runs storage may lag behind in the tabs, or in a session just opened.
Lags == \/ stored.windowId = Public(session).windowId
        \/ stored = NoSession /\ job.at \in {"group", "save"}

SyncInv ==
  ~behind =>
    /\ Unread \/ IF job = NoJob THEN stored = Public(session) ELSE Lags
    /\ \A a \in Attempts : current = a /\ stage[a] \in {"window", "evict", "evicted"} =>
         stored = NoSession \/ stored.windowId = saved[a].windowId

Safe == FitInv /\ CarryInv /\ ReaderInv /\ SyncInv

\* What every step must show of storage and of the user's tabs.
Survives == ~behind /\ stored.windowId \in Open /\ stored'.windowId # stored.windowId =>
              CloseWindow \/ stored.windowId \notin Open'
Spares == \A t \in users : place'[t] = None => UserClosesTab \/ UserClosesWindow

----------------------------------------------------------------------------
(* What a step does to the browser *)

\* Tabs close; a tab that opens, and a window that becomes private, is a new one.
Calm ==
  /\ \A t \in Tabs : \/ IsFreshTab(t)
                     \/ place'[t] \in {place[t], None} /\ (t \in users' => t \in users)
  /\ \A w \in incognito' : w \in incognito \/ w \in FreshWindows

\* Fits, in the browser after the step.
FitsOn(s) ==
  /\ s.windowId \in UserWindows => s.adopted
  /\ s.isPrivate \/ s.windowId \notin incognito'
  /\ \A t \in Elems(s.tabs) : t \notin users' /\ place'[t] \in {s.windowId, None}

LEMMA Steady ==
  ASSUME Inv, FitInv, CarryInv, BrowserOK', Calm
  PROVE  /\ FitsOn(session) /\ FitsOn(stored)
         /\ \A a \in Attempts :
              /\ FitsOn(saved[a])
              /\ \A t \in Elems(plan[a]) : t \notin users' /\ place'[t] \in {saved[a].windowId, None}
         /\ job.tab \notin users' /\ Elems(job.tabs) \cap users' = {}
         /\ job.at \in {"created", "opened"} => place'[job.tab] \in {job.windowId, None}
         /\ job.windowId \notin incognito => job.windowId \notin incognito'
<1>1. ASSUME NEW q \in Held, q \in Seq(Tabs), NEW t \in Elems(q), t \notin users
      PROVE  t \notin users' /\ place'[t] \in {place[t], None}
  <2>1. t \in Tabs BY <1>1, ElemsBounded
  <2>2. ~IsFreshTab(t) BY <1>1 DEF IsFreshTab
  <2> QED BY <1>1, <2>1, <2>2 DEF Calm
<1>2. ASSUME NEW s \in States, Fits(s), s.tabs \in Held, s.windowId \notin FreshWindows
      PROVE  FitsOn(s)
  <2>1. s.tabs \in Seq(Tabs) BY DEF States
  <2>2. s.isPrivate \/ s.windowId \notin incognito' BY <1>2 DEF Fits, Calm
  <2>3. ASSUME NEW t \in Elems(s.tabs) PROVE t \notin users' /\ place'[t] \in {s.windowId, None}
    BY <1>1, <1>2, <2>1, <2>3 DEF Fits
  <2> QED BY <1>2, <2>2, <2>3 DEF Fits, FitsOn
<1>3. FitsOn(session) BY <1>2 DEF Inv, SessionOK, FitInv, Held, FreshWindows
<1>4. FitsOn(stored) BY <1>2 DEF Inv, StoredOK, Keepable, FitInv, Held, FreshWindows
<1>5. ASSUME NEW a \in Attempts
      PROVE  /\ FitsOn(saved[a])
             /\ \A t \in Elems(plan[a]) : t \notin users' /\ place'[t] \in {saved[a].windowId, None}
  <2>1. saved[a] \in States /\ plan[a] \in Seq(Tabs) BY DEF Inv, RestoresOK
  <2>2. saved[a].tabs \in Held /\ plan[a] \in Held /\ saved[a].windowId \notin FreshWindows
    BY DEF Held, FreshWindows
  <2>3. FitsOn(saved[a]) BY <1>2, <2>1, <2>2 DEF FitInv
  <2>4. ASSUME NEW t \in Elems(plan[a]) PROVE t \notin users' /\ place'[t] \in {saved[a].windowId, None}
    BY <1>1, <2>1, <2>2 DEF FitInv
  <2> QED BY <2>3, <2>4
<1>6. job \in Jobs /\ job.tab \in Tabs \cup {None} /\ job.tabs \in Seq(Tabs) BY DEF Inv, JobsOK, Jobs
<1>7. None \notin users' BY DEF BrowserOK
<1>8. job.tab \in Tabs => job.tab \notin users' /\ place'[job.tab] \in {place[job.tab], None}
  BY DEF Calm, CarryInv, IsFreshTab
<1>9. Elems(job.tabs) \cap users' = {} BY <1>1, <1>6 DEF CarryInv, Held
<1>10. job.at \in {"created", "opened"} => place'[job.tab] \in {job.windowId, None}
  BY <1>8 DEF CarryInv, Inv, JobsOK
<1>11. job.windowId \notin incognito => job.windowId \notin incognito' BY DEF Calm, FreshWindows
<1> QED BY <1>3, <1>4, <1>5, <1>6, <1>7, <1>8, <1>9, <1>10, <1>11

\* Nothing opens and nothing closes.
LEMMA Still ==
  ASSUME UNCHANGED browser, Inv
  PROVE  Calm /\ Spares
<1>1. place' = place /\ users' = users /\ incognito' = incognito BY DEF browser
<1>2. \A t \in users : place'[t] # None BY <1>1 DEF Inv, BrowserOK, Windows
<1> QED BY <1>1, <1>2 DEF Calm, Spares

\* A fresh tab opens in a window that is there, or in a new one.
LEMMA OpensTab ==
  ASSUME Inv, NEW t \in Tabs, NEW w \in Windows, IsFreshTab(t), place' = [place EXCEPT ![t] = w],
         users' \subseteq users \cup {t}, \A v \in incognito' : v \in incognito \/ v \in FreshWindows
  PROVE  Calm /\ Spares
<1>1. place \in [Tabs -> Windows \cup {None}] BY DEF Inv, BrowserOK
<1>2. \A x \in Tabs : place'[x] = IF x = t THEN w ELSE place[x] BY <1>1
<1>3. \A x \in users : x \in Tabs /\ place[x] # None BY DEF Inv, BrowserOK, Windows
<1>4. w # None BY DEF Windows
<1>5. Spares BY <1>2, <1>3, <1>4 DEF Spares
<1>6. Calm BY <1>2 DEF Calm
<1> QED BY <1>5, <1>6

\* What a session keeps after events fits as well.
LEMMA FadesFits ==
  ASSUME Inv, BrowserOK', Fades, FitsOn(session)
  PROVE  Fits(session)'
<1>1. CASE session' = session BY <1>1 DEF Fits, FitsOn
<1>2. CASE session' = NoSession
  <2>1. None \notin UserWindows /\ None \notin incognito' BY DEF BrowserOK, Windows
  <2> QED BY <1>2, <2>1, NoSessionFacts DEF Fits
<1>3. CASE \E q \in Seq(Tabs) : session' = [session EXCEPT !.tabs = q] /\ Elems(q) \subseteq Elems(session.tabs)
  <2>1. PICK q \in Seq(Tabs) : session' = [session EXCEPT !.tabs = q] /\ Elems(q) \subseteq Elems(session.tabs)
    BY <1>3
  <2>2. /\ session'.tabs = q /\ session'.windowId = session.windowId
        /\ session'.isPrivate = session.isPrivate /\ session'.adopted = session.adopted
    BY <2>1 DEF Inv, SessionOK, States
  <2> QED BY <2>1, <2>2 DEF Fits, FitsOn
<1> QED BY <1>1, <1>2, <1>3 DEF Fades

LEMMA PublicFacts ==
  ASSUME NEW s \in States
  PROVE  /\ Public(s) \in States /\ ~Public(s).isPrivate
         /\ s.isPrivate => Public(s) = NoSession
         /\ ~s.isPrivate => /\ Public(s).windowId = s.windowId /\ Public(s).tabs = s.tabs
                            /\ Public(s).adopted = s.adopted
         /\ Public(NoSession) = NoSession
<1>1. CASE s.isPrivate BY <1>1, NoSessionFacts DEF Public, NoSession
<1>2. CASE ~s.isPrivate
  <2>1. Public(s) = [s EXCEPT !.object = 0] /\ 0 \in Objects BY <1>2 DEF Public, Objects
  <2>2. /\ [s EXCEPT !.object = 0] \in States /\ [s EXCEPT !.object = 0].tabs = s.tabs
        /\ [s EXCEPT !.object = 0].windowId = s.windowId /\ [s EXCEPT !.object = 0].isPrivate = s.isPrivate
        /\ [s EXCEPT !.object = 0].adopted = s.adopted
    BY <2>1 DEF States
  <2> QED BY <1>2, <2>1, <2>2 DEF Public, NoSession
<1>3. Public(NoSession) = NoSession BY DEF Public, NoSession
<1> QED BY <1>1, <1>2, <1>3

LEMMA StoredFits ==
  ASSUME Inv, Inv', FitInv, FitsOn(stored), Fits(session)', stored' \in {stored, Public(session')}
  PROVE  Fits(stored)' /\ ~stored'.isPrivate /\ Len(stored'.tabs) <= MaxTabs
<1>1. CASE stored' = stored BY <1>1 DEF FitInv, Fits, FitsOn
<1>2. CASE stored' = Public(session') /\ session'.isPrivate
  <2>1. stored' = NoSession BY <1>2, PublicFacts DEF Inv, SessionOK
  <2>2. None \notin UserWindows /\ None \notin incognito' BY DEF Inv, BrowserOK, Windows
  <2>3. ~NoSession.isPrivate BY DEF NoSession
  <2> QED BY <2>1, <2>2, <2>3, NoSessionFacts DEF Fits
<1>3. CASE stored' = Public(session') /\ ~session'.isPrivate
  <2>1. session' \in States /\ Len(session'.tabs) <= MaxTabs BY DEF Inv, SessionOK, PoolBounded
  <2>2. /\ ~stored'.isPrivate /\ stored'.windowId = session'.windowId /\ stored'.tabs = session'.tabs
        /\ stored'.adopted = session'.adopted
    BY <1>3, <2>1, PublicFacts
  <2> QED BY <1>3, <2>1, <2>2 DEF Fits
<1> QED BY <1>1, <1>2, <1>3

----------------------------------------------------------------------------
(* What a step does to storage *)

LEMMA WriteSyncs == ASSUME Inv', Write(session') PROVE SyncInv' /\ stored' \in {stored, Public(session')}
<1>1. stored' \in {stored, Public(session')} /\ (~behind' => stored' = Public(session')) BY DEF Write
<1>2. ASSUME ~behind', NEW a \in Attempts, current' = a, stage'[a] \in {"window", "evict", "evicted"}
      PROVE  stored' = NoSession
  <2>1. session' = NoSession BY <1>2 DEF Inv, FenceInv, Loading
  <2> QED BY <1>1, <1>2, <2>1, NoSessionFacts, PublicFacts
<1>3. ~behind' => (Unread \/ IF job = NoJob THEN stored = Public(session) ELSE Lags)'
  BY <1>1 DEF Lags
<1> QED BY <1>1, <1>2, <1>3 DEF SyncInv

\* A write that keeps the window, or drops one that is gone, forgets no survivor.
LEMMA SurvivesFacts ==
  ASSUME Inv, SyncInv, ~Unread \/ stored' = stored,
         \/ stored' = stored
         \/ /\ stored' = Public(session') /\ session' \in States
            /\ session'.windowId = session.windowId /\ session'.isPrivate = session.isPrivate
         \/ stored' = NoSession /\ session.windowId \notin Open'
  PROVE  Survives
<1> SUFFICES ASSUME ~behind, stored.windowId \in Open, stored'.windowId # stored.windowId, ~Unread
             PROVE  stored.windowId \notin Open'
  BY DEF Survives
<1>1. None \notin Open BY DEF Open, Windows
<1>2. stored # NoSession BY <1>1, NoSessionFacts
<1>3. stored.windowId = Public(session).windowId BY <1>2 DEF SyncInv, Lags
<1>4. session \in States BY DEF Inv, SessionOK
<1>5. ~session.isPrivate /\ stored.windowId = session.windowId
  BY <1>1, <1>3, <1>4, PublicFacts, NoSessionFacts
<1> QED BY <1>4, <1>5, PublicFacts

\* Tabs close: the session fades with them and is written, and nobody else's tab goes.
LEMMA ClosingSafe ==
  ASSUME Inv, Safe, NEW S, Closing(S)
  PROVE  /\ Calm /\ (S \cap users = {} => Spares) /\ Survives
         /\ UNCHANGED <<session, storage>> \/ Write(session')
<1> DEFINE shut == {w \in Open : TabsOf(w) \subseteq S}
<1>1. /\ place' = [t \in Tabs |-> IF t \in S THEN None ELSE place[t]]
      /\ users' = users \ S /\ incognito' = incognito \ shut
  BY DEF Closing
<1>2. Calm BY <1>1 DEF Calm
<1>3. \A t \in users : t \in Tabs /\ place[t] # None BY DEF Inv, BrowserOK, Windows
<1>4. S \cap users = {} => Spares BY <1>1, <1>3 DEF Spares
<1>5. \A w \in shut : w \notin Open' BY <1>1 DEF Open, TabsOf, Windows
<1>6. /\ session # NoSession
      /\ \/ session' = NoSession /\ session.windowId \in shut /\ Write(NoSession)
         \/ session'.windowId = session.windowId /\ session'.isPrivate = session.isPrivate /\ Write(session')
      \/ UNCHANGED <<session, active, storage>>
  <2>1. shut \subseteq Windows /\ None \notin shut BY DEF Open, Windows
  <2>2. CASE session.windowId \in shut BY <2>1, <2>2, NoSessionFacts DEF Closing, Quietly
  <2>3. CASE session.windowId \notin shut /\ S \cap Elems(session.tabs) # {}
    <3>1. session # NoSession BY <2>3, NoSessionFacts
    <3>2. PICK kept \in Only(session.tabs, Tabs \ S) : session' = [session EXCEPT !.tabs = kept]
      BY <2>3 DEF Closing
    <3>3. session'.windowId = session.windowId /\ session'.isPrivate = session.isPrivate
      BY <3>2 DEF Inv, SessionOK, States
    <3> QED BY <2>3, <3>1, <3>3 DEF Closing, Quietly
  <2>4. CASE session.windowId \notin shut /\ S \cap Elems(session.tabs) = {} BY <2>4 DEF Closing
  <2> HIDE DEF shut
  <2> QED BY <2>2, <2>3, <2>4
<1> HIDE DEF shut
<1>7. SessionOK' BY ClosingFacts DEF Inv
<1>8. UNCHANGED <<session, storage>> \/ Write(session') BY <1>6
<1>9. Survives
  <2>1. CASE UNCHANGED <<session, active, storage>> BY <2>1, SurvivesFacts DEF Safe, storage
  <2>2. CASE session # NoSession /\ session' = NoSession /\ session.windowId \in shut /\ Write(NoSession)
    <3>1. stored' = stored \/ stored' = NoSession BY <2>2, NoSessionFacts, PublicFacts DEF Write
    <3>2. ~Unread BY <2>2 DEF Unread
    <3> QED BY <1>5, <2>2, <3>1, <3>2, SurvivesFacts DEF Safe
  <2>3. CASE /\ session # NoSession /\ Write(session')
             /\ session'.windowId = session.windowId /\ session'.isPrivate = session.isPrivate
    <3>1. stored' = stored \/ stored' = Public(session') BY <2>3 DEF Write
    <3>2. ~Unread BY <2>3 DEF Unread
    <3> QED BY <1>7, <2>3, <3>1, <3>2, SurvivesFacts DEF Safe, SessionOK
  <2> QED BY <1>6, <2>1, <2>2, <2>3
<1> QED BY <1>2, <1>4, <1>8, <1>9

\* Restores and the command stand still, and the session at most fades.
LEMMA EventSafe ==
  ASSUME Inv, Inv', Safe, Calm, Fades, UNCHANGED <<restores, job>>,
         UNCHANGED <<session, storage>> \/ Write(session')
  PROVE  /\ FitInv' /\ CarryInv' /\ SyncInv'
         /\ reader' = reader => ReaderInv'
<1> USE DEF Safe
<1>1. stored' \in {stored, Public(session')} BY WriteSyncs DEF storage
<1>2. BrowserOK' BY DEF Inv
<1>3. Fits(session)' BY <1>2, Steady, FadesFits
<1>4. FitInv'
  <2>1. /\ stage' = stage /\ saved' = saved /\ plan' = plan BY DEF restores
  <2> QED BY <1>1, <1>2, <1>3, <2>1, Steady, StoredFits DEF FitInv, Fits, FitsOn
<1>5. session'.object # 0 => session'.object = session.object /\ session'.windowId = session.windowId
  BY NoSessionFacts DEF Fades, Inv, SessionOK, States
<1>6. session'.windowId \in {session.windowId, None} BY NoSessionFacts DEF Fades, Inv, SessionOK, States
<1>7. CarryInv'
  <2>1. job.at \in Filling => job.of # 0 BY DEF Inv, JobsOK
  <2>2. job.at \in {"join", "opened"} => job.want = "private" \/ job.windowId \notin incognito'
    BY <1>2, Steady DEF CarryInv
  <2> QED BY <1>2, <1>5, <1>6, <2>1, <2>2, Steady DEF CarryInv
<1>8. SyncInv'
  <2>1. CASE UNCHANGED <<session, storage>>
    BY <2>1 DEF SyncInv, Unread, Lags, storage, restores
  <2>2. CASE Write(session') BY <2>2, WriteSyncs
  <2> QED BY <2>1, <2>2
<1>9. reader' = reader => ReaderInv' BY <1>5 DEF ReaderInv
<1> QED BY <1>4, <1>7, <1>8, <1>9

LEMMA UserSafe ==
  ASSUME Inv, Inv', Safe, UserClosesTab \/ UserClosesWindow \/ UserOpensTab \/ TabActivated
  PROVE  Safe' /\ Survives /\ Spares
<1>1. ASSUME NEW S, UserCloses(S), UserClosesTab \/ UserClosesWindow PROVE Safe' /\ Survives /\ Spares
  <2>1. Closing(S) /\ UNCHANGED <<restores, job, reader>> BY <1>1 DEF UserCloses
  <2>2. Fades BY <2>1, ClosingFacts DEF Inv
  <2>3. /\ Calm /\ Survives /\ (UNCHANGED <<session, storage>> \/ Write(session'))
    BY <2>1, ClosingSafe
  <2> QED BY <1>1, <2>1, <2>2, <2>3, EventSafe DEF Safe, Spares
<1>2. CASE UserOpensTab
  <2>1. PICK t \in Tabs, w \in Open :
           /\ IsFreshTab(t)
           /\ place' = [place EXCEPT ![t] = w]
           /\ users' = IF w \in UserWindows THEN users \cup {t} ELSE users
           /\ UNCHANGED <<incognito, memory, storage, restores, job, reader>>
    BY <1>2 DEF UserOpensTab
  <2>2. w \in Windows BY DEF Open
  <2>3. Calm /\ Spares BY <2>1, <2>2, OpensTab
  <2>4. Fades /\ session' = session /\ stored' = stored BY <2>1 DEF Fades, memory, storage
  <2>5. Survives BY <2>4 DEF Survives
  <2> QED BY <2>1, <2>3, <2>4, <2>5, EventSafe DEF Safe
<1>3. CASE TabActivated
  <2>1. PICK t \in Elems(session.tabs) :
           Write(session) /\ UNCHANGED <<browser, session, restores, job, reader>>
    BY <1>3 DEF TabActivated, Quietly
  <2>2. Calm /\ Spares /\ Fades BY <2>1, Still DEF Fades
  <2>3. ~Unread BY <2>1, NoSessionFacts DEF Unread
  <2>4. stored' \in {stored, Public(session')} BY <2>1 DEF Write
  <2>5. Survives BY <2>1, <2>3, <2>4, SurvivesFacts DEF Safe, Inv, SessionOK
  <2> QED BY <2>1, <2>2, <2>5, EventSafe DEF Safe
<1> QED BY <1>1, <1>2, <1>3 DEF UserClosesTab, UserClosesWindow

LEMMA ReaderSafe ==
  ASSUME Inv, Inv', Safe, StartRead \/ ReadExpired \/ ReadTarget \/ ReadTab \/ OtherEnds
  PROVE  Safe' /\ Survives /\ Spares
<1>1. UNCHANGED <<browser, restores, job>>
  BY DEF StartRead, ReadExpired, ReadTarget, ReadTab, OtherEnds, memory
<1>2. Fades BY DEF StartRead, ReadExpired, ReadTarget, ReadTab, OtherEnds, memory, Fades
<1>3. Calm /\ Spares BY <1>1, Still
<1>4. session \in States BY DEF Inv, SessionOK
<1>5. \/ UNCHANGED <<session, storage>>
      \/ OtherEnds /\ Write(session) /\ session' = session
      \/ reader.at = "window" /\ reader.windowId \notin Open /\ SameState /\ session' = NoSession /\ Write(NoSession)
  BY DEF StartRead, ReadExpired, ReadTarget, ReadTab, OtherEnds, Quietly, storage, memory
<1>6. Survives
  <2>1. CASE UNCHANGED <<session, storage>> BY <2>1 DEF Survives, storage
  <2>2. CASE OtherEnds /\ Write(session) /\ session' = session
    <3>1. ~Unread BY <2>2 DEF OtherEnds, Ready, Unread, Loading
    <3>2. stored' \in {stored, Public(session')} BY <2>2 DEF Write
    <3> QED BY <1>4, <2>2, <3>1, <3>2, SurvivesFacts DEF Safe
  <2>3. CASE reader.at = "window" /\ reader.windowId \notin Open /\ SameState /\ session' = NoSession /\ Write(NoSession)
    <3>1. session.windowId = reader.windowId /\ session.object # 0
      BY <2>3 DEF Safe, ReaderInv, SameState
    <3>2. ~Unread BY <3>1, NoSessionFacts DEF Unread
    <3>3. stored' \in {stored, NoSession} BY <2>3, PublicFacts, NoSessionFacts DEF Write
    <3>4. session.windowId \notin Open' BY <1>1, <2>3, <3>1 DEF Open, TabsOf, browser
    <3> QED BY <3>2, <3>3, <3>4, SurvivesFacts DEF Safe
  <2> QED BY <1>5, <2>1, <2>2, <2>3
<1>7. UNCHANGED <<session, storage>> \/ Write(session') BY <1>5
<1>8. ReaderInv'
  <2>1. CASE StartRead
    <3>1. /\ session' = session /\ session # NoSession
          /\ reader' = [NoReader EXCEPT !.at = "window", !.windowId = session.windowId, !.of = session.object]
      BY <2>1 DEF StartRead, memory
    <3>2. reader'.windowId = session.windowId /\ reader'.of = session.object BY <3>1 DEF NoReader
    <3> QED BY <3>1, <3>2 DEF ReaderInv, Inv, SessionOK
  <2>2. CASE OtherEnds BY <1>1, <1>2, <1>3, <1>7, <2>2, EventSafe DEF OtherEnds
  <2>3. CASE ReadExpired \/ ReadTarget \/ ReadTab
    <3>1. reader \in Readers BY DEF Inv, JobsOK
    <3>2. NoReader.at = "idle" /\ [reader EXCEPT !.at = "tab", !.tab = Target].at = "tab"
      BY <3>1 DEF NoReader, Readers
    <3>3. reader' = NoReader \/ reader' = [reader EXCEPT !.at = "tab", !.tab = Target]
      BY <2>3 DEF ReadExpired, ReadTarget, ReadTab
    <3> QED BY <3>2, <3>3 DEF ReaderInv
  <2> QED BY <2>1, <2>2, <2>3
<1> QED BY <1>1, <1>2, <1>3, <1>6, <1>7, <1>8, EventSafe DEF Safe

----------------------------------------------------------------------------
(* Attempts *)

LEMMA AttemptCarries ==
  ASSUME Inv, Inv', Safe, Calm, UNCHANGED <<job, reader>>,
         Fades \/ (job = NoJob /\ session'.object # reader.of)
  PROVE  CarryInv' /\ ReaderInv'
<1> USE DEF Safe
<1>1. CASE Fades
  <2>0. BrowserOK' BY DEF Inv
  <2>1. session'.object # 0 => session'.object = session.object /\ session'.windowId = session.windowId
    BY <1>1, NoSessionFacts DEF Fades, Inv, SessionOK, States
  <2>2. session'.windowId \in {session.windowId, None}
    BY <1>1, NoSessionFacts DEF Fades, Inv, SessionOK, States
  <2>3. job.at \in Filling => job.of # 0 BY DEF Inv, JobsOK
  <2>4. job.at \in {"join", "opened"} => job.want = "private" \/ job.windowId \notin incognito'
    BY <2>0, Steady DEF CarryInv
  <2>5. CarryInv' BY <2>0, <2>1, <2>2, <2>3, <2>4, Steady DEF CarryInv
  <2>6. ReaderInv' BY <2>1 DEF ReaderInv
  <2> QED BY <2>5, <2>6
<1>2. CASE job = NoJob /\ session'.object # reader.of
  <2>1. None \notin users' BY DEF Inv, BrowserOK
  <2>2. job'.tab = None /\ job'.tabs = <<>> /\ job'.at = "idle" BY <1>2 DEF NoJob
  <2>3. CarryInv' BY <2>1, <2>2, NoSessionFacts DEF CarryInv, Filling
  <2>4. ReaderInv' BY <1>2 DEF ReaderInv
  <2> QED BY <2>3, <2>4
<1> QED BY <1>1, <1>2

LEMMA AttemptFits ==
  ASSUME Inv, Inv', Safe, Calm, NEW a \in Attempts, Fits(session)', stored' \in {stored, Public(session')},
         \A b \in Attempts \ {a} : stage'[b] = stage[b] /\ saved'[b] = saved[b] /\ plan'[b] = plan[b],
         saved'[a] \in {saved[a], stored, NoSession},
         \A t \in Elems(plan'[a]) : t \notin users' /\ place'[t] \in {saved'[a].windowId, None},
         stage'[a] \notin {"evict", "evicted"} => plan'[a] = <<>>
  PROVE  FitInv'
<1> USE DEF Safe
<1>0. BrowserOK' BY DEF Inv
<1>1. Fits(stored)' /\ ~stored'.isPrivate /\ Len(stored'.tabs) <= MaxTabs BY <1>0, Steady, StoredFits
<1>2. FitsOn(NoSession) /\ ~NoSession.isPrivate
  <2>1. None \notin UserWindows /\ None \notin incognito' BY DEF Inv, BrowserOK, Windows
  <2>2. ~NoSession.isPrivate BY DEF NoSession
  <2> QED BY <2>1, <2>2, NoSessionFacts DEF FitsOn
<1>3. FitsOn(saved'[a]) /\ ~saved'[a].isPrivate BY <1>0, <1>2, Steady DEF FitInv
<1>4. ASSUME NEW b \in Attempts
      PROVE  /\ FitsOn(saved'[b]) /\ ~saved'[b].isPrivate
             /\ \A t \in Elems(plan'[b]) : t \notin users' /\ place'[t] \in {saved'[b].windowId, None}
             /\ stage'[b] \notin {"evict", "evicted"} => plan'[b] = <<>>
  <2>1. CASE b = a BY <1>3, <2>1
  <2>2. CASE b # a BY <1>0, <2>2, Steady DEF FitInv
  <2> QED BY <2>1, <2>2
<1> QED BY <1>1, <1>4 DEF FitInv, Fits, FitsOn

LEMMA AttemptSyncs ==
  ASSUME SyncInv, UNCHANGED <<session, storage, job>>, NEW a \in Attempts,
         \A b \in Attempts \ {a} : /\ stage'[b] = stage[b] /\ saved'[b] = saved[b]
                                   /\ current' = b => current = b,
         Unread => Unread' \/ stored = Public(session),
         current' = a /\ stage'[a] \in {"window", "evict", "evicted"} /\ ~behind =>
           stored = NoSession \/ stored.windowId = saved'[a].windowId
  PROVE  SyncInv' /\ Survives
<1>1. Survives BY DEF Survives, storage
<1> SUFFICES ASSUME ~behind PROVE SyncInv' BY <1>1 DEF SyncInv, storage
<1>2. (Unread \/ IF job = NoJob THEN stored = Public(session) ELSE Lags)'
  <2>1. CASE Unread BY <2>1 DEF Unread, storage
  <2>2. CASE IF job = NoJob THEN stored = Public(session) ELSE Lags BY <2>2 DEF Lags, storage
  <2> QED BY <2>1, <2>2 DEF SyncInv
<1>3. \A b \in Attempts : current' = b /\ stage'[b] \in {"window", "evict", "evicted"} =>
        stored' = NoSession \/ stored'.windowId = saved'[b].windowId
  BY DEF SyncInv, storage
<1> QED BY <1>2, <1>3 DEF SyncInv

LEMMA SettleMoves ==
  ASSUME Inv, NEW a \in Attempts, NEW how, Settle(a, how)
  PROVE  /\ stage'[a] = how /\ saved'[a] = NoSession /\ plan'[a] = <<>>
         /\ \A b \in Attempts \ {a} : stage'[b] = stage[b] /\ saved'[b] = saved[b] /\ plan'[b] = plan[b]
  BY DEF Settle, Inv, RestoresOK

\* An attempt that comes to its end, with the session and storage as they were.
LEMMA SettleSafe ==
  ASSUME Inv, Inv', Safe, NEW a \in Attempts, NEW how \in {"ok", "sweep", "failed"}, Settle(a, how),
         UNCHANGED <<browser, memory, storage, job, reader>>,
         current' = current \/ (current = a /\ current' = None) \/ (current = None /\ current' = a),
         Unread => current' # a \/ stored = Public(session)
  PROVE  Safe' /\ Survives /\ Spares
<1>1. Calm /\ Spares BY Still
<1>2. BrowserOK' /\ Fades BY DEF Inv, Fades, memory
<1>3. Fits(session)' BY <1>1, <1>2, Steady, FadesFits DEF Safe
<1>4. CarryInv' /\ ReaderInv' BY <1>1, <1>2, AttemptCarries
<1>5. /\ stage'[a] = how /\ saved'[a] = NoSession /\ plan'[a] = <<>>
      /\ \A b \in Attempts \ {a} : stage'[b] = stage[b] /\ saved'[b] = saved[b] /\ plan'[b] = plan[b]
  BY SettleMoves
<1>6. FitInv'
  <2>1. stored' = stored BY DEF storage
  <2>2. Elems(plan'[a]) = {} BY <1>5, NoSessionFacts
  <2> QED BY <1>1, <1>3, <1>5, <2>1, <2>2, AttemptFits
<1>7. SyncInv' /\ Survives
  <2>0. None \notin Attempts /\ session' = session BY DEF Attempts, memory
  <2>1. Unread => Unread' \/ stored = Public(session)
    <3> SUFFICES ASSUME Unread, current' # a PROVE Unread' OBVIOUS
    <3>1. current' # None => current' = current /\ current \in Attempts \ {a} BY DEF Inv, RestoresOK
    <3>2. \A b \in Attempts : stage'[b] \notin {"written", "unwritten"} BY <1>5 DEF Unread
    <3> QED BY <1>5, <2>0, <3>1, <3>2 DEF Unread
  <2>2. stage'[a] \notin {"window", "evict", "evicted"} BY <1>5
  <2> QED BY <1>5, <2>0, <2>1, <2>2, AttemptSyncs DEF Safe
<1> QED BY <1>1, <1>4, <1>6, <1>7 DEF Safe

LEMMA QuietAttemptsSafe ==
  ASSUME Inv, Inv', Safe, NEW a \in Attempts,
         StartRestore(a) \/ Abandon(a) \/ RestoreRead(a) \/ RestoreWritten(a) \/ SweepSettles(a)
  PROVE  Safe' /\ Survives /\ Spares
<1>0. None \notin Attempts BY DEF Attempts
<1>1. UNCHANGED <<browser, memory, job, reader>>
  BY DEF StartRestore, Abandon, RestoreRead, RestoreWritten, SweepSettles
<1>2. session' = session /\ Fades /\ BrowserOK' BY <1>1 DEF memory, Fades, Inv
<1>3. Calm /\ Spares BY <1>1, Still
<1>4. Fits(session)' BY <1>2, <1>3, Steady, FadesFits DEF Safe
<1>5. CarryInv' /\ ReaderInv' BY <1>1, <1>2, <1>3, AttemptCarries
<1>6. CASE StartRestore(a)
  <2>1. current = None /\ current' = a /\ UNCHANGED storage BY <1>6 DEF StartRestore
  <2>2. CASE session # NoSession
    <3>1. Settle(a, "sweep") BY <1>6, <2>2 DEF StartRestore, GoSweep
    <3>2. ~Unread BY <2>2 DEF Unread
    <3> QED BY <1>1, <2>1, <3>1, <3>2, SettleSafe
  <2>3. CASE session = NoSession
    <3>1. stage' = [stage EXCEPT ![a] = "read"] /\ UNCHANGED <<saved, plan>> /\ stage[a] = "none"
      BY <1>6, <2>3 DEF StartRestore
    <3>2. stage'[a] = "read" /\ \A b \in Attempts \ {a} : stage'[b] = stage[b]
      BY <3>1 DEF Inv, RestoresOK
    <3>3. plan'[a] = <<>> BY <3>1 DEF Safe, FitInv
    <3>4. FitInv' BY <1>3, <1>4, <2>1, <3>1, <3>2, <3>3, NoSessionFacts, AttemptFits DEF storage
    <3>5. Unread => Unread' BY <1>1, <1>2, <2>1, <3>2 DEF Unread, Loading
    <3>6. SyncInv' /\ Survives BY <1>1, <1>2, <2>1, <3>1, <3>2, <3>5, AttemptSyncs DEF Safe
    <3> QED BY <1>3, <1>5, <3>4, <3>6 DEF Safe
  <2> QED BY <2>2, <2>3
<1>7. CASE Abandon(a)
  <2>1. current = a /\ current' = None /\ UNCHANGED <<storage, stage, saved, plan>> BY <1>7 DEF Abandon
  <2>2. \A t \in Elems(plan'[a]) : t \notin users' /\ place'[t] \in {saved'[a].windowId, None}
    BY <1>2, <1>3, <2>1, Steady DEF Safe
  <2>3. FitInv' BY <1>3, <1>4, <2>1, <2>2, AttemptFits DEF storage, Safe, FitInv
  <2>4. Unread => Unread' BY <1>1, <1>2, <2>1 DEF Unread
  <2>5. SyncInv' /\ Survives BY <1>0, <1>1, <1>2, <2>1, <2>4, AttemptSyncs DEF Safe
  <2> QED BY <1>3, <1>5, <2>3, <2>5 DEF Safe
<1>8. CASE RestoreRead(a)
  <2>1. stage[a] = "read" /\ UNCHANGED storage BY <1>8 DEF RestoreRead
  <2>2. CASE Fails(a)
    <3>1. Settle(a, "failed") /\ current' = IF current = a THEN None ELSE current BY <2>2 DEF Fails
    <3> QED BY <1>0, <1>1, <2>1, <3>1, SettleSafe
  <2>3. CASE ~IsCurrent(a) /\ Succeeds(a)
    <3>1. Settle(a, "ok") /\ current' = current /\ current # a BY <2>3 DEF Succeeds, IsCurrent
    <3> QED BY <1>1, <2>1, <3>1, SettleSafe
  <2>4. CASE IsCurrent(a) /\ stored = NoSession /\ GoSweep(a) /\ current' = current
    <3>1. session = NoSession BY <2>1, <2>4 DEF IsCurrent, Inv, FenceInv, Loading
    <3>2. stored = Public(session) BY <2>4, <3>1, NoSessionFacts, PublicFacts
    <3> QED BY <1>1, <2>1, <2>4, <3>2, SettleSafe DEF GoSweep
  <2>5. CASE /\ IsCurrent(a) /\ current' = current
             /\ stage' = [stage EXCEPT ![a] = "window"]
             /\ saved' = [saved EXCEPT ![a] = stored] /\ plan' = plan
    <3>1. /\ stage'[a] = "window" /\ saved'[a] = stored
          /\ \A b \in Attempts \ {a} : stage'[b] = stage[b] /\ saved'[b] = saved[b]
      BY <2>5 DEF Inv, RestoresOK
    <3>2. plan'[a] = <<>> BY <2>1, <2>5 DEF Safe, FitInv
    <3>3. FitInv' BY <1>3, <1>4, <2>1, <2>5, <3>1, <3>2, NoSessionFacts, AttemptFits DEF storage
    <3>4. Unread => Unread' BY <1>1, <1>2, <2>5, <3>1 DEF Unread, Loading, IsCurrent
    <3>5. SyncInv' /\ Survives BY <1>1, <1>2, <2>1, <2>5, <3>1, <3>4, AttemptSyncs DEF Safe
    <3> QED BY <1>3, <1>5, <3>3, <3>5 DEF Safe
  <2> QED BY <1>8, <2>2, <2>3, <2>4, <2>5 DEF RestoreRead
<1>9. CASE RestoreWritten(a)
  <2>1. stage[a] \in {"written", "unwritten"} BY <1>9 DEF RestoreWritten
  <2>2. ~Unread BY <2>1 DEF Unread
  <2>3. CASE stage[a] = "unwritten" /\ Fails(a) /\ UNCHANGED storage
    <3>1. Settle(a, "failed") /\ current' = IF current = a THEN None ELSE current BY <2>3 DEF Fails
    <3> QED BY <1>0, <1>1, <2>2, <2>3, <3>1, SettleSafe
  <2>4. CASE GoSweep(a) /\ UNCHANGED <<current, storage>>
    BY <1>1, <2>2, <2>4, SettleSafe DEF GoSweep
  <2>5. CASE Write(session) /\ Settle(a, "ok") /\ UNCHANGED current
    <3>1. SyncInv' /\ stored' \in {stored, Public(session')} BY <1>2, <2>5, WriteSyncs
    <3>2. Survives BY <1>2, <2>2, <3>1, SurvivesFacts DEF Safe, Inv, SessionOK
    <3>3. FitInv' BY <1>3, <1>4, <2>5, <3>1, SettleMoves, NoSessionFacts, AttemptFits
    <3> QED BY <1>3, <1>5, <3>1, <3>2, <3>3 DEF Safe
  <2> QED BY <1>9, <2>3, <2>4, <2>5 DEF RestoreWritten
<1>10. CASE SweepSettles(a)
  <2>1. stage[a] = "sweep" /\ Settle(a, "ok") /\ UNCHANGED <<storage, current>>
    BY <1>10 DEF SweepSettles, Succeeds
  <2>2. Unread => current' # a BY <1>0, <2>1 DEF Unread, Loading
  <2> QED BY <1>1, <2>1, <2>2, SettleSafe
<1> QED BY <1>6, <1>7, <1>8, <1>9, <1>10

\* What the restore found is written as what it had read.
LEMMA TrimSafe ==
  ASSUME Inv, Inv', Safe, NEW a \in Attempts, NEW pool \in Seq(Tabs),
         \A t \in Elems(pool) : t \notin users /\ place[t] \in {saved[a].windowId, None},
         stage[a] \in {"window", "evicted"}, Trim(a, pool), UNCHANGED <<browser, job, reader>>
  PROVE  Safe' /\ Survives /\ Spares
<1>1. Calm /\ Spares /\ BrowserOK' BY Still DEF Inv
<1>2. place' = place /\ users' = users /\ incognito' = incognito BY DEF browser
<1>3. CASE ~IsCurrent(a) /\ Succeeds(a) /\ UNCHANGED <<memory, storage>>
  <2>1. Settle(a, "ok") /\ current' = current /\ current # a BY <1>3 DEF Succeeds, IsCurrent
  <2> QED BY <1>3, <2>1, SettleSafe
<1>4. CASE /\ IsCurrent(a)
           /\ stage' = [stage EXCEPT ![a] = "evict"] /\ plan' = [plan EXCEPT ![a] = pool]
           /\ UNCHANGED <<memory, storage, saved, current>>
  <2>1. /\ stage'[a] = "evict" /\ plan'[a] = pool
        /\ \A b \in Attempts \ {a} : stage'[b] = stage[b] /\ plan'[b] = plan[b]
    BY <1>4 DEF Inv, RestoresOK
  <2>2. Fades /\ session' = session /\ current = a BY <1>4 DEF Fades, memory, IsCurrent
  <2>3. Fits(session)' BY <1>1, <2>2, Steady, FadesFits DEF Safe
  <2>4. FitInv' BY <1>1, <1>2, <1>4, <2>1, <2>3, AttemptFits DEF storage
  <2>5. Unread => Unread' BY <1>4, <2>1, <2>2 DEF Unread, Loading
  <2>6. ~behind => stored = NoSession \/ stored.windowId = saved'[a].windowId
    BY <1>4, <2>2 DEF Safe, SyncInv
  <2>7. SyncInv' /\ Survives BY <1>4, <2>1, <2>2, <2>5, <2>6, AttemptSyncs DEF Safe
  <2>8. CarryInv' /\ ReaderInv' BY <1>1, <2>2, AttemptCarries
  <2> QED BY <1>1, <2>4, <2>7, <2>8 DEF Safe
<1>5. CASE /\ IsCurrent(a)
           /\ session' = [saved[a] EXCEPT !.tabs = pool, !.object = FreshObject]
           /\ plan' = [plan EXCEPT ![a] = <<>>] /\ saved' = [saved EXCEPT ![a] = NoSession]
           /\ Saving(a, session')
  <2>1. saved[a] \in States BY DEF Inv, RestoresOK
  <2>2. /\ session'.tabs = pool /\ session'.object = FreshObject /\ session'.windowId = saved[a].windowId
        /\ session'.isPrivate = saved[a].isPrivate /\ session'.adopted = saved[a].adopted
    BY <1>5, <2>1 DEF States
  <2>3. Fits(session)' BY <1>2, <2>2 DEF Fits, Safe, FitInv
  <2>4. /\ stage'[a] \in {"written", "unwritten"} /\ saved'[a] = NoSession /\ plan'[a] = <<>>
        /\ \A b \in Attempts \ {a} : stage'[b] = stage[b] /\ saved'[b] = saved[b] /\ plan'[b] = plan[b]
    BY <1>5 DEF Inv, RestoresOK, Saving
  <2>5. SyncInv' /\ stored' \in {stored, Public(session')} BY <1>5, WriteSyncs DEF Saving
  <2>6. FitInv' BY <1>1, <2>3, <2>4, <2>5, NoSessionFacts, AttemptFits
  <2>7. job = NoJob
    <3>1. current = a /\ stage[current] # "ok" BY <1>5 DEF IsCurrent
    <3> QED BY <3>1 DEF Inv, FenceInv, Ready
  <2>8. CarryInv' /\ ReaderInv' BY <1>1, <2>2, <2>7, FreshObjectFacts, AttemptCarries DEF Inv
  <2>9. Survives
    <3> SUFFICES ASSUME ~behind, stored.windowId \in Open, stored'.windowId # stored.windowId PROVE FALSE
      BY DEF Survives
    <3>1. stored # NoSession BY NoSessionFacts DEF Open, Windows
    <3>2. stored.windowId = session'.windowId BY <1>5, <2>2, <3>1 DEF Safe, SyncInv, IsCurrent
    <3>3. ~session'.isPrivate /\ session' \in States BY <2>2 DEF Safe, FitInv, Inv, SessionOK
    <3> QED BY <2>5, <3>2, <3>3, PublicFacts
  <2> QED BY <1>1, <2>5, <2>6, <2>8, <2>9 DEF Safe
<1> QED BY <1>3, <1>4, <1>5 DEF Trim

LEMMA ElemsFacts ==
  /\ \A s, q \in Seq(Tabs) : Elems(s \o q) = Elems(s) \cup Elems(q)
  /\ \A s \in Seq(Tabs) : s # <<>> => Head(s) \in Elems(s) /\ Elems(Tail(s)) \subseteq Elems(s)
<1>1. ASSUME NEW s \in Seq(Tabs), NEW q \in Seq(Tabs) PROVE Elems(s \o q) = Elems(s) \cup Elems(q)
  <2>1. ASSUME NEW i \in DOMAIN (s \o q) PROVE (s \o q)[i] \in Elems(s) \cup Elems(q)
    <3>1. CASE i <= Len(s) BY <3>1 DEF Elems
    <3>2. CASE i > Len(s)
      <4>1. i - Len(s) \in DOMAIN q /\ (s \o q)[i] = q[i - Len(s)] BY <3>2
      <4> QED BY <4>1 DEF Elems
    <3> QED BY <3>1, <3>2
  <2>2. ASSUME NEW i \in DOMAIN s PROVE s[i] \in Elems(s \o q)
    <3>1. i \in DOMAIN (s \o q) /\ (s \o q)[i] = s[i] OBVIOUS
    <3> QED BY <3>1 DEF Elems
  <2>3. ASSUME NEW i \in DOMAIN q PROVE q[i] \in Elems(s \o q)
    <3>1. Len(s) + i \in DOMAIN (s \o q) /\ (s \o q)[Len(s) + i] = q[i] OBVIOUS
    <3> QED BY <3>1 DEF Elems
  <2>4. Elems(s \o q) \subseteq Elems(s) \cup Elems(q) BY <2>1 DEF Elems
  <2>5. Elems(s) \subseteq Elems(s \o q) BY <2>2 DEF Elems
  <2>6. Elems(q) \subseteq Elems(s \o q) BY <2>3 DEF Elems
  <2> QED BY <2>4, <2>5, <2>6
<1>2. ASSUME NEW s \in Seq(Tabs), s # <<>> PROVE Head(s) \in Elems(s) /\ Elems(Tail(s)) \subseteq Elems(s)
  BY <1>2 DEF Elems
<1> QED BY <1>1, <1>2

LEMMA LoadingSafe ==
  ASSUME Inv, Inv', Safe, NEW a \in Attempts, RestoreWindow(a) \/ RestoreEvict(a) \/ RestoreEvicted(a)
  PROVE  Safe' /\ Survives /\ Spares
<1>1. CASE RestoreEvicted(a)
  <2>1. plan[a] \in Seq(Tabs) BY DEF Inv, RestoresOK
  <2> QED BY <1>1, <2>1, TrimSafe DEF RestoreEvicted, Safe, FitInv
<1>2. CASE RestoreWindow(a)
  <2> DEFINE live   == TabsOf(saved[a].windowId)
             strays == IF saved[a].adopted THEN {} ELSE live \ Elems(saved[a].tabs)
  <2>0. stage[a] = "window" /\ UNCHANGED <<browser, job, reader>> BY <1>2 DEF RestoreWindow
  <2>1. saved[a] \in States /\ saved[a].tabs \in Seq(Tabs) /\ saved[a].windowId # None
    BY <2>0 DEF Inv, RestoresOK, States
  <2>2. Calm /\ Spares /\ BrowserOK' BY <2>0, Still DEF Inv
  <2>3. ASSUME NEW kept \in Only(saved[a].tabs, live), NEW q \in Orders(strays), Trim(a, kept \o q)
        PROVE  Safe' /\ Survives /\ Spares
    <3>1. kept \in Seq(Tabs) /\ Elems(kept) \subseteq Elems(saved[a].tabs) BY <2>1, <2>3, OnlyFacts
    <3>2. q \in Seq(Tabs) /\ Elems(q) \subseteq strays
      <4>1. strays \in SUBSET Tabs BY DEF TabsOf
      <4> HIDE DEF strays
      <4> QED BY <2>3, <4>1, OrdersFacts
    <3>3. ASSUME NEW t \in strays PROVE t \notin users /\ place[t] = saved[a].windowId
      <4>1. place[t] = saved[a].windowId /\ ~saved[a].adopted BY <3>3 DEF TabsOf
      <4>2. saved[a].windowId \notin UserWindows BY <4>1 DEF Safe, FitInv, Fits
      <4> QED BY <4>1, <4>2 DEF Inv, BrowserOK
    <3>4. \A t \in Elems(kept) : t \notin users /\ place[t] \in {saved[a].windowId, None}
      BY <3>1 DEF Safe, FitInv, Fits
    <3>5. \A t \in Elems(kept \o q) : t \notin users /\ place[t] \in {saved[a].windowId, None}
      <4> HIDE DEF strays
      <4> QED BY <3>1, <3>2, <3>3, <3>4, ElemsFacts
    <3>6. kept \o q \in Seq(Tabs) BY <3>1, <3>2
    <3> QED BY <2>0, <2>3, <3>5, <3>6, TrimSafe
  <2>4. CASE ~IsCurrent(a) /\ Succeeds(a) /\ UNCHANGED <<memory, storage>>
    <3>1. Settle(a, "ok") /\ current' = current /\ current # a BY <2>4 DEF Succeeds, IsCurrent
    <3> QED BY <2>0, <2>4, <3>1, SettleSafe
  <2>5. CASE /\ IsCurrent(a) /\ live = {} /\ session' = NoSession
             /\ plan' = [plan EXCEPT ![a] = <<>>] /\ saved' = [saved EXCEPT ![a] = NoSession]
             /\ Saving(a, NoSession)
    <3>1. /\ stage'[a] \in {"written", "unwritten"} /\ saved'[a] = NoSession /\ plan'[a] = <<>>
          /\ \A b \in Attempts \ {a} : stage'[b] = stage[b] /\ saved'[b] = saved[b] /\ plan'[b] = plan[b]
      BY <2>5 DEF Inv, RestoresOK, Saving
    <3>2. Fades /\ Write(session') BY <2>5 DEF Fades, Saving
    <3>3. SyncInv' /\ stored' \in {stored, Public(session')} BY <3>2, WriteSyncs
    <3>4. Fits(session)' BY <2>2, <3>2, Steady, FadesFits DEF Safe
    <3>5. FitInv' BY <2>2, <3>1, <3>3, <3>4, NoSessionFacts, AttemptFits
    <3>6. CarryInv' /\ ReaderInv' BY <2>0, <2>2, <3>2, AttemptCarries
    <3>7. saved[a].windowId \notin Open BY <2>5 DEF Open
    <3>8. Survives
      <4> SUFFICES ASSUME ~behind, stored.windowId \in Open PROVE FALSE BY DEF Survives
      <4>1. stored # NoSession BY NoSessionFacts DEF Open, Windows
      <4> QED BY <2>0, <2>5, <3>7, <4>1 DEF Safe, SyncInv, IsCurrent
    <3> QED BY <2>2, <3>3, <3>5, <3>6, <3>8 DEF Safe
  <2> HIDE DEF live, strays
  <2> QED BY <1>2, <2>3, <2>4, <2>5 DEF RestoreWindow, live, strays
<1>3. CASE RestoreEvict(a)
  <2> DEFINE victim == Head(plan[a])
  <2>1. /\ stage[a] = "evict" /\ UNCHANGED <<current, saved, job, reader>>
        /\ stage' = [stage EXCEPT ![a] = "evicted"] /\ plan' = [plan EXCEPT ![a] = Tail(plan[a])]
        /\ Closing({victim}) \/ UNCHANGED <<browser, memory, storage>>
    BY <1>3 DEF RestoreEvict
  <2>2. plan[a] \in Seq(Tabs) /\ plan[a] # <<>> BY <2>1 DEF Inv, RestoresOK
  <2>3. victim \notin users /\ Elems(Tail(plan[a])) \subseteq Elems(plan[a])
    BY <2>2, ElemsFacts DEF Safe, FitInv
  <2>4. /\ stage'[a] = "evicted" /\ plan'[a] = Tail(plan[a])
        /\ \A b \in Attempts \ {a} : stage'[b] = stage[b] /\ plan'[b] = plan[b]
    BY <2>1 DEF Inv, RestoresOK
  <2>5. Fades /\ Calm /\ Spares /\ Survives /\ (UNCHANGED <<session, storage>> \/ Write(session'))
    <3>1. CASE Closing({victim})
      <4>1. {victim} \cap users = {} BY <2>3
      <4>2. Fades BY <3>1, ClosingFacts DEF Inv
      <4> QED BY <3>1, <4>1, <4>2, ClosingSafe
    <3>2. CASE UNCHANGED <<browser, memory, storage>>
      BY <3>2, Still DEF Fades, memory, storage, Survives
    <3> QED BY <2>1, <3>1, <3>2
  <2>6. BrowserOK' BY DEF Inv
  <2>7. Fits(session)' BY <2>5, <2>6, Steady, FadesFits DEF Safe
  <2>8. stored' \in {stored, Public(session')} BY <2>5, WriteSyncs DEF storage
  <2>9. \A t \in Elems(plan'[a]) : t \notin users' /\ place'[t] \in {saved'[a].windowId, None}
    BY <2>1, <2>3, <2>4, <2>5, <2>6, Steady DEF Safe
  <2>10. FitInv' BY <2>1, <2>4, <2>5, <2>7, <2>8, <2>9, AttemptFits
  <2>11. CarryInv' /\ ReaderInv' BY <2>1, <2>5, AttemptCarries
  <2>12. SyncInv'
    <3>1. CASE UNCHANGED <<session, storage>>
      <4>1. Unread => Unread' BY <2>1, <2>4, <3>1 DEF Unread, Loading
      <4>2. current' = a /\ ~behind => stored = NoSession \/ stored.windowId = saved'[a].windowId
        BY <2>1 DEF Safe, SyncInv
      <4> QED BY <2>1, <2>4, <3>1, <4>1, <4>2, AttemptSyncs DEF Safe
    <3>2. CASE Write(session') BY <3>2, WriteSyncs
    <3> QED BY <2>5, <3>1, <3>2
  <2> QED BY <2>5, <2>10, <2>11, <2>12 DEF Safe
<1> QED BY <1>1, <1>2, <1>3

----------------------------------------------------------------------------
(* Commands *)

LEMMA CommandFits ==
  ASSUME Inv, Inv', Safe, Calm, UNCHANGED restores, Fits(session)', stored' \in {stored, Public(session')}
  PROVE  FitInv'
<1>1. BrowserOK' BY DEF Inv
<1>2. stage' = stage /\ saved' = saved /\ plan' = plan BY DEF restores
<1> QED BY <1>1, <1>2, Steady, StoredFits DEF Safe, FitInv, Fits, FitsOn

\* A command that leaves storage alone goes on, and the window of the session stays.
LEMMA LagSyncs ==
  ASSUME Inv', SyncInv, ~Unread, UNCHANGED <<storage, restores>>, job' # NoJob,
         session' \in States, session \in States,
         session'.windowId = session.windowId /\ session'.isPrivate = session.isPrivate,
         job.at \in {"group", "save"} => job'.at \in {"group", "save"}
  PROVE  SyncInv'
<1> SUFFICES ASSUME ~behind PROVE SyncInv' BY DEF SyncInv, storage
<1>1. Public(session').windowId = Public(session).windowId BY PublicFacts
<1>2. Lags'
  <2>1. CASE job = NoJob BY <1>1, <2>1 DEF SyncInv, Lags, storage
  <2>2. CASE job # NoJob BY <1>1, <2>2 DEF SyncInv, Lags, storage
  <2> QED BY <2>1, <2>2
<1>3. \A a \in Attempts : current' = a => stage'[a] = "ok" BY DEF Inv, FenceInv, Ready
<1> QED BY <1>2, <1>3 DEF SyncInv

LEMMA CommandSafe ==
  ASSUME Inv, Inv', Safe, Calm, UNCHANGED <<restores, reader>>, Fades, CarryInv',
         \/ /\ UNCHANGED storage /\ job' # NoJob /\ Ready
            /\ session'.windowId = session.windowId /\ session'.isPrivate = session.isPrivate
            /\ job.at \in {"group", "save"} => job'.at \in {"group", "save"}
         \/ Write(session')
  PROVE  Safe'
<1> USE DEF Safe
<1>1. BrowserOK' BY DEF Inv
<1>2. Fits(session)' BY <1>1, Steady, FadesFits
<1>3. stored' \in {stored, Public(session')} BY WriteSyncs DEF storage
<1>4. FitInv' BY <1>2, <1>3, CommandFits
<1>5. session'.object # 0 => session'.object = session.object /\ session'.windowId = session.windowId
  BY NoSessionFacts DEF Fades, Inv, SessionOK, States
<1>6. ReaderInv' BY <1>5 DEF ReaderInv
<1>7. SyncInv'
  <2>1. Ready => ~Unread BY DEF Ready, Unread, Loading
  <2> QED BY <2>1, LagSyncs, WriteSyncs DEF Inv, SessionOK
<1> QED BY <1>4, <1>6, <1>7

LEMMA EndFields == ASSUME End PROVE job'.at = "end" /\ job'.tab = None /\ job'.tabs = <<>> /\ job' # NoJob
  BY DEF End, NoJob

LEMMA GoFields ==
  ASSUME Inv, NEW at \in JobStages, Go(at)
  PROVE  /\ job'.at = at /\ job'.windowId = job.windowId /\ job'.tab = job.tab
         /\ job'.tabs = job.tabs /\ job'.want = job.want /\ job'.of = job.of
         /\ at # "idle" => job' # NoJob
  BY DEF Go, Inv, JobsOK, Jobs, NoJob

\* Stages in which a command carries nothing to a call, but maybe tabs to close.
Light == {"idle", "cleared", "adopt", "open", "group", "save", "end", "close", "closed", "closeTabs"}

LEMMA LightCarries ==
  ASSUME job'.at \in Light, job'.at = "adopt" => job'.want = "public",
         job'.tab \notin users', Elems(job'.tabs) \cap users' = {}
  PROVE  CarryInv'
  BY DEF CarryInv, Light, Filling

LEMMA EndCarries == ASSUME Inv', End PROVE CarryInv'
<1>1. None \notin users' BY DEF Inv, BrowserOK
<1> QED BY <1>1, EndFields, LightCarries, NoSessionFacts DEF Light

LEMMA GoCarries ==
  ASSUME Inv, Inv', Safe, Calm, NEW at \in Light \ {"idle", "adopt"}, Go(at)
  PROVE  CarryInv' /\ job' # NoJob /\ job'.at = at
<1>1. at \in JobStages BY DEF Light, JobStages
<1>2. BrowserOK' BY DEF Inv
<1> QED BY <1>1, <1>2, GoFields, Steady, LightCarries DEF Safe

LEMMA OpenSessionSafe ==
  ASSUME Inv, Inv', Safe, Ready, job.at \notin {"group", "save"}, NEW want, OpenSession(want),
         UNCHANGED <<browser, memory, storage, restores, reader>>
  PROVE  Safe' /\ Survives /\ Spares
<1>1. Calm /\ Spares /\ Fades /\ Survives BY Still DEF Fades, memory, Survives, storage
<1>2. /\ job'.at \in {"adopt", "open"} /\ job'.tab = None /\ job'.tabs = <<>> /\ job' # NoJob
      /\ job'.at = "adopt" => job'.want = "public"
  BY DEF OpenSession, NoJob
<1>3. None \notin users' BY DEF Inv, BrowserOK
<1>4. CarryInv' BY <1>2, <1>3, LightCarries, NoSessionFacts DEF Light
<1> QED BY <1>1, <1>2, <1>4, CommandSafe DEF memory

LEMMA AddPoolTabSafe ==
  ASSUME Inv, Inv', Safe, Ready, job.at \notin {"group", "save"}, NEW want, AddPoolTab(want), session # NoSession,
         UNCHANGED <<browser, active, storage, restores, reader>>
  PROVE  Safe' /\ Survives /\ Spares
<1> DEFINE here == [NoJob EXCEPT !.windowId = session.windowId, !.of = session.object]
<1>1. Calm /\ Spares /\ Survives BY Still DEF Survives, storage
<1>2. /\ session \in States /\ session.tabs \in Seq(Tabs) /\ Distinct(session.tabs)
      /\ None \notin users' /\ users' = users
  BY DEF Inv, SessionOK, States, PoolBounded, BrowserOK, browser
<1>3. CASE End /\ session' = session
  BY <1>1, <1>3, EndFields, EndCarries, CommandSafe DEF Fades
<1>4. CASE /\ Full(session.tabs) /\ job' = [here EXCEPT !.at = "evict", !.tab = Head(session.tabs)]
           /\ session' = [session EXCEPT !.tabs = Tail(session.tabs)]
  <2>1. session.tabs # <<>> BY <1>2, <1>4 DEF Full
  <2>2. /\ Head(session.tabs) \in Elems(session.tabs) /\ Elems(Tail(session.tabs)) \subseteq Elems(session.tabs)
        /\ Tail(session.tabs) \in Seq(Tabs) /\ Distinct(Tail(session.tabs))
        /\ Len(Tail(session.tabs)) <= Len(session.tabs)
    BY <1>2, <2>1, ElemsFacts, TailFacts
  <2>3. Fades BY <1>4, <2>2 DEF Fades
  <2>4. /\ session'.windowId = session.windowId /\ session'.isPrivate = session.isPrivate
        /\ session'.object = session.object
    BY <1>2, <1>4 DEF States
  <2>5. /\ job'.at = "evict" /\ job'.tab = Head(session.tabs) /\ job'.tabs = <<>>
        /\ job'.windowId = session.windowId
    BY <1>4 DEF NoJob
  <2>6. Head(session.tabs) \notin users BY <2>2 DEF Safe, FitInv, Fits
  <2>7. CarryInv' BY <1>2, <2>4, <2>5, <2>6, NoSessionFacts DEF CarryInv
  <2>8. job' # NoJob BY <2>5 DEF NoJob
  <2> QED BY <1>1, <2>3, <2>4, <2>7, <2>8, CommandSafe
<1>5. CASE job' = [here EXCEPT !.at = "create"] /\ session' = session
  <2>1. /\ job'.at = "create" /\ job'.tab = None /\ job'.tabs = <<>> /\ job'.windowId = session.windowId
    BY <1>5 DEF NoJob
  <2>2. CarryInv' BY <1>2, <1>5, <2>1, NoSessionFacts DEF CarryInv
  <2>3. job' # NoJob BY <2>1 DEF NoJob
  <2> QED BY <1>1, <1>5, <2>2, <2>3, CommandSafe DEF Fades
<1> HIDE DEF here
<1> QED BY <1>3, <1>4, <1>5 DEF AddPoolTab, here

LEMMA CheckSafe ==
  ASSUME Inv, Inv', Safe, CheckWindow \/ AfterClear
  PROVE  Safe' /\ Survives /\ Spares
<1>1. /\ Ready /\ job.at \notin {"group", "save"} /\ UNCHANGED <<browser, restores, reader>>
  BY CommandReady DEF CheckWindow, AfterClear
<1>2. CASE session = NoSession /\ OpenSession(job.want) /\ UNCHANGED <<session, active, storage>>
  BY <1>1, <1>2, OpenSessionSafe DEF memory
<1>3. CASE session # NoSession /\ AddPoolTab(job.want) /\ UNCHANGED <<active, storage>>
  BY <1>1, <1>3, AddPoolTabSafe
<1>4. CASE /\ job.at = "check" /\ job.windowId \notin Open /\ session' = NoSession /\ Write(NoSession)
           /\ Go("cleared") \/ End
  <2>1. Calm /\ Spares /\ Fades BY <1>1, <1>4, Still DEF Fades
  <2>2. CarryInv' BY <1>4, <2>1, GoCarries, EndCarries DEF Light
  <2>3. Safe' BY <1>1, <1>4, <2>1, <2>2, CommandSafe
  <2>4. session.windowId \notin Open' BY <1>1, <1>4 DEF Safe, CarryInv, Open, TabsOf, browser, Windows
  <2>5. stored' \in {stored, NoSession} BY <1>4, PublicFacts, NoSessionFacts DEF Write
  <2>6. ~Unread BY <1>4, NoJobFacts DEF Unread
  <2> QED BY <2>1, <2>3, <2>4, <2>5, <2>6, SurvivesFacts DEF Safe
<1> QED BY <1>2, <1>3, <1>4 DEF CheckWindow, AfterClear

LEMMA CreateWindowSafe ==
  ASSUME Inv, Inv', Safe, NEW want \in {"any", "private", "public"}, CreateWindow(want)
  PROVE  Safe' /\ Survives /\ Spares
<1>1. Ready /\ job = NoJob /\ UNCHANGED <<browser, memory, storage, restores, reader>> BY DEF CreateWindow
<1>2. CASE session = NoSession
  <2>1. OpenSession(want) BY <1>2 DEF CreateWindow
  <2> QED BY <1>1, <2>1, NoJobFacts, OpenSessionSafe
<1>3. CASE session # NoSession
  <2>1. Calm /\ Spares /\ Fades /\ Survives BY <1>1, Still DEF Fades, memory, Survives, storage
  <2>2. job' = [NoJob EXCEPT !.at = "check", !.windowId = session.windowId, !.want = want]
    BY <1>3 DEF CreateWindow
  <2>3. job'.at = "check" /\ job'.windowId = session.windowId /\ job'.tab = None /\ job'.tabs = <<>>
    BY <2>2 DEF NoJob
  <2>4. None \notin users' BY DEF Inv, BrowserOK
  <2>5. session' = session BY <1>1 DEF memory
  <2>6. CarryInv' BY <2>3, <2>4, <2>5, NoSessionFacts DEF CarryInv, Filling
  <2>7. job' # NoJob BY <2>3 DEF NoJob
  <2> QED BY <1>1, <2>1, <2>5, <2>6, <2>7, NoJobFacts, CommandSafe
<1> QED BY <1>2, <1>3

LEMMA RemoveTabSafe ==
  ASSUME Inv, Safe, NEW t, t \notin users, RemoveTab(t)
  PROVE  /\ Calm /\ Spares /\ Survives /\ Fades
         /\ \/ UNCHANGED storage /\ session' = session
            \/ Write(session')
<1>1. CASE Closing({t})
  <2>1. {t} \cap users = {} OBVIOUS
  <2>2. Fades BY <1>1, ClosingFacts DEF Inv
  <2> QED BY <1>1, <2>1, <2>2, ClosingSafe
<1>2. CASE UNCHANGED <<browser, memory, storage>>
  BY <1>2, Still DEF Fades, memory, storage, Survives
<1> QED BY <1>1, <1>2 DEF RemoveTab

LEMMA EvictOldestSafe == ASSUME Inv, Inv', Safe, EvictOldest PROVE Safe' /\ Survives /\ Spares
<1>1. /\ job.at = "evict" /\ RemoveTab(job.tab) /\ UNCHANGED <<restores, reader>>
      /\ job' = [job EXCEPT !.at = "create", !.tab = None]
  BY DEF EvictOldest
<1>2. /\ Calm /\ Spares /\ Survives /\ Fades
      /\ (UNCHANGED storage /\ session' = session) \/ Write(session')
  BY <1>1, RemoveTabSafe DEF Safe, CarryInv
<1>3. /\ job'.at = "create" /\ job'.tab = None /\ job'.of = job.of /\ job'.tabs = job.tabs
      /\ job'.windowId = job.windowId
  BY <1>1 DEF Inv, JobsOK, Jobs
<1>4. BrowserOK' /\ None \notin users' BY DEF Inv, BrowserOK
<1>5. session'.object # 0 => session'.object = session.object /\ session'.windowId = session.windowId
  BY <1>2, NoSessionFacts DEF Fades, Inv, SessionOK, States
<1>6. job.of # 0 BY <1>1 DEF Inv, JobsOK, Filling
<1>7. CarryInv' BY <1>1, <1>2, <1>3, <1>4, <1>5, <1>6, Steady DEF Safe, CarryInv, Filling
<1>8. Ready /\ job' # NoJob BY <1>1, <1>3, CommandReady DEF NoJob
<1> QED BY <1>1, <1>2, <1>3, <1>7, <1>8, CommandSafe

LEMMA CreateTabSafe == ASSUME Inv, Inv', Safe, CreateTab PROVE Safe' /\ Survives /\ Spares
<1>1. Ready /\ job.at \in {"create", "join"} /\ UNCHANGED <<memory, storage, restores, reader>>
  BY CommandReady DEF CreateTab
<1>2. Fades /\ Survives /\ session' = session BY <1>1 DEF Fades, memory, Survives, storage
<1>3. CASE End /\ UNCHANGED browser
  BY <1>1, <1>2, <1>3, Still, EndFields, EndCarries, CommandSafe
<1>4. ASSUME NEW t \in Tabs, job.windowId \in Open, IsFreshTab(t),
             place' = [place EXCEPT ![t] = job.windowId],
             job' = [job EXCEPT !.at = IF job.at = "create" THEN "created" ELSE "opened", !.tab = t],
             UNCHANGED <<incognito, users>>
      PROVE  Safe' /\ Survives /\ Spares
  <2>1. job.windowId \in Windows BY <1>4 DEF Open
  <2>2. Calm /\ Spares BY <1>4, <2>1, OpensTab
  <2>3. /\ job'.at = (IF job.at = "create" THEN "created" ELSE "opened") /\ job'.tab = t
        /\ job'.windowId = job.windowId /\ job'.want = job.want /\ job'.of = job.of /\ job'.tabs = job.tabs
    BY <1>4 DEF Inv, JobsOK, Jobs
  <2>4. t \notin users BY <1>4 DEF Inv, BrowserOK, IsFreshTab, IsOpen, Windows
  <2>5. place'[t] = job.windowId BY <1>4 DEF Inv, BrowserOK
  <2>6. CarryInv' BY <1>1, <1>2, <1>4, <2>3, <2>4, <2>5 DEF Safe, CarryInv, Filling
  <2>7. job' # NoJob BY <2>3 DEF NoJob
  <2> QED BY <1>1, <1>2, <2>2, <2>6, <2>7, CommandSafe
<1> QED BY <1>3, <1>4 DEF CreateTab

LEMMA OpeningSafe == ASSUME Inv, Inv', Safe, Adopt \/ OpenWindow PROVE Safe' /\ Survives /\ Spares
<1>1. Ready /\ job.at \in {"adopt", "open"} /\ UNCHANGED <<memory, storage, restores, reader>>
  BY CommandReady DEF Adopt, OpenWindow
<1>2. Fades /\ Survives /\ session' = session BY <1>1 DEF Fades, memory, Survives, storage
<1>3. job \in Jobs BY DEF Inv, JobsOK
<1>4. CASE Go("open") /\ UNCHANGED browser
  <2>1. Calm /\ Spares BY <1>4, Still
  <2>2. CarryInv' /\ job' # NoJob BY <1>4, <2>1, GoCarries DEF Light
  <2> QED BY <1>1, <1>2, <2>1, <2>2, CommandSafe
<1>5. ASSUME NEW w \in Open \ incognito, job.at = "adopt", job' = [job EXCEPT !.at = "join", !.windowId = w],
             UNCHANGED browser
      PROVE  Safe' /\ Survives /\ Spares
  <2>1. Calm /\ Spares /\ users' = users /\ incognito' = incognito BY <1>5, Still DEF browser
  <2>2. /\ job'.at = "join" /\ job'.windowId = w /\ job'.tab = job.tab /\ job'.tabs = job.tabs
        /\ job'.want = "public"
    BY <1>3, <1>5 DEF Jobs, Safe, CarryInv
  <2>3. CarryInv' BY <1>5, <2>1, <2>2 DEF Safe, CarryInv, Filling
  <2>4. job' # NoJob BY <2>2 DEF NoJob
  <2> QED BY <1>1, <1>2, <2>1, <2>3, <2>4, CommandSafe
<1>6. CASE job.at = "open" /\ job' = [job EXCEPT !.want = "public"] /\ UNCHANGED browser
  <2>1. Calm /\ Spares /\ users' = users BY <1>6, Still DEF browser
  <2>2. job'.at = "open" /\ job'.tab = job.tab /\ job'.tabs = job.tabs BY <1>3, <1>6 DEF Jobs
  <2>3. CarryInv' BY <2>1, <2>2, LightCarries DEF Light, Safe, CarryInv
  <2>4. job' # NoJob BY <2>2 DEF NoJob
  <2> QED BY <1>1, <1>2, <2>1, <2>3, <2>4, CommandSafe
<1>7. CASE End /\ UNCHANGED browser
  BY <1>1, <1>2, <1>7, Still, EndFields, EndCarries, CommandSafe
<1>8. ASSUME NEW w \in FreshWindows, NEW t \in Tabs, IsFreshTab(t),
             place' = [place EXCEPT ![t] = w],
             incognito' = IF job.want = "private" THEN incognito \cup {w} ELSE incognito,
             job' = [job EXCEPT !.at = "opened", !.windowId = w, !.tab = t,
                                !.want = IF job.want = "public" THEN "own" ELSE job.want],
             UNCHANGED users
      PROVE  Safe' /\ Survives /\ Spares
  <2>1. w \in OwnWindows /\ w \in Windows /\ w \notin Open BY DEF FreshWindows, Windows
  <2>2. Calm /\ Spares BY <1>8, <2>1, OpensTab
  <2>3. /\ job'.at = "opened" /\ job'.windowId = w /\ job'.tab = t /\ job'.tabs = job.tabs
        /\ job'.want = (IF job.want = "public" THEN "own" ELSE job.want)
    BY <1>3, <1>8 DEF Jobs
  <2>4. t \notin users BY <1>8 DEF Inv, BrowserOK, IsFreshTab, IsOpen, Windows
  <2>5. place'[t] = w BY <1>8 DEF Inv, BrowserOK
  <2>6. w \notin incognito BY <2>1 DEF Inv, BrowserOK
  <2>7. job'.want = "private" \/ w \notin incognito' BY <1>8, <2>3, <2>6
  <2>8. CarryInv' BY <1>8, <2>1, <2>3, <2>4, <2>5, <2>7 DEF Safe, CarryInv, Filling
  <2>9. job' # NoJob BY <2>3 DEF NoJob
  <2> QED BY <1>1, <1>2, <2>2, <2>8, <2>9, CommandSafe
<1> QED BY <1>4, <1>5, <1>6, <1>7, <1>8 DEF Adopt, OpenWindow

LEMMA PoolTabSafe == ASSUME Inv, Inv', Safe, PoolTabCreated PROVE Safe' /\ Survives /\ Spares
<1>1. job.at = "created" /\ Go("group") /\ UNCHANGED <<browser, storage, restores, reader>>
  BY DEF PoolTabCreated
<1>2. Calm /\ Spares /\ users' = users /\ incognito' = incognito /\ place' = place BY <1>1, Still DEF browser
<1>3. Survives BY <1>1 DEF Survives, storage
<1>4. CarryInv' /\ job' # NoJob /\ job'.at = "group" BY <1>1, <1>2, GoCarries DEF Light
<1>5. session \in States /\ session.tabs \in Seq(Tabs) BY DEF Inv, SessionOK, States
<1>6. job.tab \in Tabs /\ job.at \in Filling BY <1>1 DEF Inv, JobsOK, Filling
<1>7. /\ session'.object = session.object /\ session'.windowId = session.windowId
      /\ session'.isPrivate = session.isPrivate /\ session'.adopted = session.adopted
      /\ \/ session'.tabs = session.tabs
         \/ session'.tabs = Append(session.tabs, job.tab) /\ session.object = job.of
  <2>1. CASE session' = session BY <2>1
  <2>2. CASE session.object = job.of /\ session' = [session EXCEPT !.tabs = Append(@, job.tab)]
    BY <1>5, <2>2 DEF States
  <2> QED BY <2>1, <2>2 DEF PoolTabCreated
<1>8. Fits(session)'
  <2>1. \A t \in Elems(Append(session.tabs, job.tab)) : t \in Elems(session.tabs) \/ t = job.tab
    BY <1>5, <1>6 DEF Elems
  <2>2. session.object = job.of => job.tab \notin users /\ place[job.tab] \in {session.windowId, None}
    BY <1>1, <1>6 DEF Safe, CarryInv
  <2> QED BY <1>2, <1>7, <2>1, <2>2 DEF Safe, FitInv, Fits
<1>9. FitInv' BY <1>1, <1>2, <1>8, CommandFits DEF storage
<1>10. ReaderInv' BY <1>1, <1>7 DEF Safe, ReaderInv
<1>11. ~Unread BY <1>1, NoJobFacts DEF Unread
<1>12. session' \in States BY DEF Inv, SessionOK
<1>13. SyncInv' BY <1>1, <1>4, <1>5, <1>7, <1>11, <1>12, LagSyncs DEF Safe
<1> QED BY <1>2, <1>3, <1>4, <1>9, <1>10, <1>13 DEF Safe

LEMMA SessionOpenedSafe == ASSUME Inv, Inv', Safe, SessionOpened PROVE Safe' /\ Survives /\ Spares
<1>1. /\ job.at = "opened" /\ UNCHANGED <<browser, storage, restores, reader>>
      /\ session' = [object |-> FreshObject, windowId |-> job.windowId, tabs |-> <<job.tab>>,
                     isPrivate |-> (~Adopted /\ job.want = "private"), adopted |-> Adopted]
      /\ job' = [job EXCEPT !.at = "group", !.of = session'.object]
  BY DEF SessionOpened
<1>2. Calm /\ Spares /\ users' = users /\ incognito' = incognito /\ place' = place BY <1>1, Still DEF browser
<1>3. Survives BY <1>1 DEF Survives, storage
<1>4. /\ session'.object = FreshObject /\ session'.windowId = job.windowId /\ session'.tabs = <<job.tab>>
      /\ session'.isPrivate = (job.want = "private") /\ session'.adopted = (job.want = "public")
  BY <1>1 DEF Adopted
<1>5. /\ job'.at = "group" /\ job'.tab = job.tab /\ job'.tabs = job.tabs
  BY <1>1 DEF Inv, JobsOK, Jobs
<1>6. CarryInv' BY <1>2, <1>5, LightCarries DEF Light, Safe, CarryInv
<1>7. Fits(session)'
  <2>1. Elems(<<job.tab>>) = {job.tab} BY DEF Elems
  <2>2. job.windowId \in UserWindows => job.want = "public" BY <1>1 DEF Safe, CarryInv
  <2> QED BY <1>1, <1>2, <1>4, <2>1, <2>2 DEF Safe, CarryInv, Fits
<1>8. FitInv' BY <1>1, <1>2, <1>7, CommandFits DEF storage
<1>9. ReaderInv' BY <1>1, <1>4, FreshObjectFacts DEF Safe, ReaderInv, Inv
<1>10. SyncInv'
  <2>1. session = NoSession /\ job # NoJob BY <1>1, NoJobFacts DEF Inv, FenceInv, Opening
  <2>2. ~behind => stored = NoSession
    BY <2>1, NoSessionFacts, PublicFacts DEF Safe, SyncInv, Unread, Lags, Inv, StoredOK, Keepable
  <2>3. job' # NoJob BY <1>5 DEF NoJob
  <2>4. \A a \in Attempts : current' = a => stage'[a] = "ok" BY <2>3 DEF Inv, FenceInv, Ready
  <2>5. ~behind' => Lags' BY <1>1, <1>5, <2>2 DEF Lags, storage
  <2> QED BY <2>3, <2>4, <2>5 DEF SyncInv
<1> QED BY <1>2, <1>3, <1>6, <1>8, <1>9, <1>10 DEF Safe

LEMMA CloseTabSafe == ASSUME Inv, Inv', Safe, NEW t \in Tabs, CloseTab(t) PROVE Safe' /\ Survives /\ Spares
<1>1. /\ Ready /\ job = NoJob /\ t \in Elems(session.tabs)
      /\ UNCHANGED <<browser, active, storage, restores, reader>>
  BY DEF CloseTab
<1>2. Calm /\ Spares /\ users' = users BY <1>1, Still DEF browser
<1>3. Survives BY <1>1 DEF Survives, storage
<1>4. session \in States /\ session.tabs \in Seq(Tabs) /\ session # NoSession
  BY <1>1, NoSessionFacts DEF Inv, SessionOK, States
<1>5. PICK kept \in Only(session.tabs, Tabs \ {t}) : session' = [session EXCEPT !.tabs = kept] BY DEF CloseTab
<1>6. /\ kept \in Seq(Tabs) /\ Distinct(kept)
      /\ Elems(kept) \subseteq Elems(session.tabs) /\ Len(kept) <= Len(session.tabs)
  BY <1>4, OnlyFacts
<1>7. Fades BY <1>4, <1>5, <1>6 DEF Fades
<1>8. session'.windowId = session.windowId /\ session'.isPrivate = session.isPrivate
  BY <1>4, <1>5 DEF States
<1>9. job' = [NoJob EXCEPT !.at = "close", !.tab = t, !.of = session.object] BY DEF CloseTab
<1>10. job'.at = "close" /\ job'.tab = t /\ job'.tabs = <<>> /\ job' # NoJob BY <1>9 DEF NoJob
<1>11. t \notin users BY <1>1 DEF Safe, FitInv, Fits
<1>12. CarryInv' BY <1>2, <1>10, <1>11, NoSessionFacts, LightCarries DEF Light
<1> QED BY <1>1, <1>2, <1>3, <1>7, <1>8, <1>10, <1>12, NoJobFacts, CommandSafe

LEMMA EndingSafe ==
  ASSUME Inv, Inv', Safe, GroupTab \/ Save \/ RemoveClosed \/ Repoint
  PROVE  Safe' /\ Survives /\ Spares
<1>1. Ready /\ job.at # "idle" /\ UNCHANGED <<restores, reader>>
  BY CommandReady DEF GroupTab, Save, RemoveClosed, Repoint
<1>2. CASE GroupTab
  <2>1. Go("save") /\ UNCHANGED <<browser, memory, storage>> BY <1>2 DEF GroupTab
  <2>2. Calm /\ Spares /\ Fades /\ Survives /\ session' = session
    BY <2>1, Still DEF Fades, memory, Survives, storage
  <2>3. CarryInv' /\ job' # NoJob /\ job'.at = "save" BY <2>1, <2>2, GoCarries DEF Light
  <2> QED BY <1>1, <2>1, <2>2, <2>3, CommandSafe
<1>3. CASE Save
  <2>1. Write(session) /\ UNCHANGED <<browser, memory>> BY <1>3 DEF Save, Quietly
  <2>2. Calm /\ Spares /\ Fades /\ session' = session /\ users' = users
    BY <2>1, Still DEF Fades, memory, browser
  <2>3. CarryInv'
    <3>1. None \notin users' BY DEF Inv, BrowserOK
    <3>2. NoJob.tab = None /\ NoJob.tabs = <<>> /\ NoJob.at = "idle" BY DEF NoJob
    <3>3. job' = NoJob => CarryInv' BY <3>1, <3>2, NoSessionFacts, LightCarries DEF Light
    <3> QED BY <1>3, <3>3, EndCarries DEF Save
  <2>4. Safe' BY <1>1, <2>1, <2>2, <2>3, CommandSafe
  <2>5. ~Unread BY <1>1, NoJobFacts DEF Unread
  <2>6. stored' \in {stored, Public(session')} BY <2>1, <2>2 DEF Write
  <2>7. Survives BY <2>2, <2>5, <2>6, SurvivesFacts DEF Safe, Inv, SessionOK
  <2> QED BY <2>2, <2>4, <2>7
<1>4. CASE RemoveClosed
  <2>1. job.at = "close" /\ RemoveTab(job.tab) /\ Go("closed") BY <1>4 DEF RemoveClosed
  <2>2. /\ Calm /\ Spares /\ Survives /\ Fades
        /\ (UNCHANGED storage /\ session' = session) \/ Write(session')
    BY <2>1, RemoveTabSafe DEF Safe, CarryInv
  <2>3. CarryInv' /\ job' # NoJob BY <2>1, <2>2, GoCarries DEF Light
  <2> QED BY <1>1, <2>1, <2>2, <2>3, CommandSafe
<1>5. CASE Repoint
  <2>1. job.at = "closed" /\ End /\ session' = session /\ UNCHANGED <<browser, storage>> BY <1>5 DEF Repoint
  <2>2. Calm /\ Spares /\ Fades /\ Survives BY <2>1, Still DEF Fades, Survives, storage
  <2> QED BY <1>1, <2>1, <2>2, EndFields, EndCarries, CommandSafe
<1> QED BY <1>2, <1>3, <1>4, <1>5

LEMMA CloseWindowSafe ==
  ASSUME Inv, Inv', Safe, CloseWindow \/ CloseNext \/ CloseAll
  PROVE  Safe' /\ Survives /\ Spares
<1>1. Ready /\ UNCHANGED <<restores, reader>> /\ job.at \notin {"group", "save"}
  BY CommandReady, NoJobFacts DEF CloseWindow, CloseNext, CloseAll
<1>2. job \in Jobs /\ None \notin users' BY DEF Inv, JobsOK, BrowserOK
<1>3. CASE CloseWindow
  <2>1. session # NoSession /\ session' = NoSession /\ Write(NoSession) /\ UNCHANGED browser
    BY <1>3 DEF CloseWindow
  <2>2. Calm /\ Spares /\ Fades /\ users' = users BY <2>1, Still DEF Fades, browser
  <2>3. Survives BY <1>3 DEF Survives
  <2>4. session.windowId \in Windows BY <2>1 DEF Inv, SessionOK, States
  <2>5. CASE End BY <1>1, <2>1, <2>2, <2>3, <2>5, EndCarries, CommandSafe
  <2>6. CASE job' = [NoJob EXCEPT !.at = "closeTabs", !.tabs = session.tabs]
    <3>1. job'.at = "closeTabs" /\ job'.tab = None /\ job'.tabs = session.tabs BY <2>6 DEF NoJob
    <3>2. Elems(session.tabs) \cap users' = {} BY <2>2 DEF Safe, FitInv, Fits
    <3>3. CarryInv' BY <1>2, <3>1, <3>2, LightCarries DEF Light
    <3> QED BY <1>1, <2>1, <2>2, <2>3, <3>3, CommandSafe
  <2>7. CASE ~session.adopted /\ job' = [NoJob EXCEPT !.at = "closeAll", !.windowId = session.windowId]
    <3>1. /\ job'.at = "closeAll" /\ job'.tab = None /\ job'.tabs = <<>> /\ job'.windowId = session.windowId
      BY <2>7 DEF NoJob
    <3>2. session.windowId \in OwnWindows BY <2>4, <2>7 DEF Safe, FitInv, Fits, Windows
    <3>3. CarryInv' BY <1>2, <3>1, <3>2, NoSessionFacts DEF CarryInv, Filling
    <3> QED BY <1>1, <2>1, <2>2, <2>3, <3>3, CommandSafe
  <2> QED BY <1>3, <2>5, <2>6, <2>7 DEF CloseWindow
<1>4. CASE CloseNext
  <2>1. CASE End /\ UNCHANGED <<browser, memory, storage>>
    <3>1. Calm /\ Spares /\ Fades /\ Survives /\ session' = session
      BY <2>1, Still DEF Fades, memory, Survives, storage
    <3> QED BY <1>1, <2>1, <3>1, EndFields, EndCarries, CommandSafe
  <2>2. CASE /\ job.at = "closeTabs" /\ job.tabs # <<>>
             /\ RemoveTab(Head(job.tabs)) /\ job' = [job EXCEPT !.tabs = Tail(job.tabs)]
    <3>1. /\ Head(job.tabs) \in Elems(job.tabs) /\ Elems(Tail(job.tabs)) \subseteq Elems(job.tabs)
      BY <1>2, <2>2, ElemsFacts DEF Jobs
    <3>2. /\ Calm /\ Spares /\ Survives /\ Fades
          /\ (UNCHANGED storage /\ session' = session) \/ Write(session')
      BY <2>2, <3>1, RemoveTabSafe DEF Safe, CarryInv
    <3>3. job'.at = "closeTabs" /\ job'.tab = job.tab /\ job'.tabs = Tail(job.tabs) BY <1>2, <2>2 DEF Jobs
    <3>4. BrowserOK' BY DEF Inv
    <3>5. CarryInv' BY <3>1, <3>2, <3>3, <3>4, Steady, LightCarries DEF Light, Safe
    <3>6. job' # NoJob BY <3>3 DEF NoJob
    <3> QED BY <1>1, <3>2, <3>5, <3>6, CommandSafe
  <2> QED BY <1>4, <2>1, <2>2 DEF CloseNext
<1>5. CASE CloseAll
  <2>1. job.at = "closeAll" /\ End BY <1>5 DEF CloseAll
  <2>2. TabsOf(job.windowId) \cap users = {}
    BY <2>1 DEF Safe, CarryInv, TabsOf, Inv, BrowserOK
  <2>3. /\ Calm /\ Spares /\ Survives /\ Fades
        /\ (UNCHANGED storage /\ session' = session) \/ Write(session')
    <3>1. CASE Closing(TabsOf(job.windowId))
      <4>1. Fades BY <3>1, ClosingFacts DEF Inv
      <4> QED BY <2>2, <3>1, <4>1, ClosingSafe
    <3>2. CASE UNCHANGED <<browser, memory, storage>>
      BY <3>2, Still DEF Fades, memory, storage, Survives
    <3> QED BY <1>5, <3>1, <3>2 DEF CloseAll
  <2> QED BY <1>1, <2>1, <2>3, EndFields, EndCarries, CommandSafe
<1> QED BY <1>3, <1>4, <1>5

----------------------------------------------------------------------------
(* Every behaviour *)

LEMMA InitSafe == Init => Safe
<1> SUFFICES ASSUME Init PROVE Safe OBVIOUS
<1>1. None \notin UserWindows /\ None \notin incognito /\ incognito = {} /\ ~NoSession.isPrivate
  BY DEF Init, Windows, NoSession
<1>2. Fits(NoSession) BY <1>1, NoSessionFacts DEF Fits
<1>3. Fits(stored) /\ ~stored.isPrivate /\ Len(stored.tabs) <= MaxTabs
  <2>1. CASE stored = NoSession BY <1>1, <1>2, <2>1, NoSessionFacts
  <2>2. CASE stored # NoSession
    <3>1. /\ stored.windowId \notin incognito /\ ~stored.isPrivate
          /\ stored.windowId \in UserWindows => stored.adopted
          /\ Len(stored.tabs) <= MaxTabs
          /\ \A t \in Elems(stored.tabs) : place[t] \in {stored.windowId, None}
      BY <2>2 DEF Init, Leftover
    <3>2. \A t \in Elems(stored.tabs) : t \notin users BY DEF Init
    <3> QED BY <3>1, <3>2 DEF Fits
  <2> QED BY <2>1, <2>2
<1>4. FitInv BY <1>1, <1>2, <1>3, NoSessionFacts DEF Init, FitInv
<1>5. None \notin users /\ NoJob.tab = None /\ NoJob.tabs = <<>> /\ NoJob.at = "idle" BY DEF Init, NoJob
<1>6. CarryInv BY <1>5, NoSessionFacts DEF Init, CarryInv, Filling
<1>7. ReaderInv BY DEF Init, ReaderInv, NoReader
<1>8. SyncInv BY DEF Init, SyncInv, Unread, Loading, Attempts
<1> QED BY <1>4, <1>6, <1>7, <1>8 DEF Safe

LEMMA NextSafe == ASSUME Inv, Safe, [Next]_vars PROVE Safe' /\ ((Survives /\ Spares) \/ UNCHANGED vars)
<1>1. Inv' BY NextStep
<1>2. CASE UNCHANGED vars
  <2>1. UNCHANGED <<browser, memory, storage, restores, job, reader>> BY <1>2 DEF vars
  <2>2. FitInv' BY <2>1 DEF Safe, FitInv, Fits, browser, memory, storage, restores
  <2>3. CarryInv' BY <2>1 DEF Safe, CarryInv, browser, memory
  <2>4. ReaderInv' BY <2>1 DEF Safe, ReaderInv, memory
  <2>5. SyncInv' BY <2>1 DEF Safe, SyncInv, Unread, Lags, memory, storage, restores
  <2> QED BY <1>2, <2>2, <2>3, <2>4, <2>5 DEF Safe
<1>3. CASE Next
  BY <1>1, <1>3, UserSafe, ReaderSafe, QuietAttemptsSafe, LoadingSafe, CreateWindowSafe, CheckSafe,
     EvictOldestSafe, CreateTabSafe, PoolTabSafe, OpeningSafe, SessionOpenedSafe, CloseTabSafe,
     EndingSafe, CloseWindowSafe DEF Next
<1> QED BY <1>2, <1>3

LEMMA SpecSafe == Spec => [](Inv /\ Safe)
<1>1. Inv /\ Safe /\ [Next]_vars => (Inv /\ Safe)' BY NextStep, NextSafe
<1> QED BY InitInv, InitSafe, <1>1, PTL DEF Spec

----------------------------------------------------------------------------
(* Theorems *)

\* The variables keep their types, whatever the user, the browser and the storage do
\* (the state that session.ts and its commands keep).
THEOREM SessionTypeOK == Spec => []TypeOK
<1>1. Inv => TypeOK
  BY DEF Inv, BrowserOK, SessionOK, StoredOK, Keepable, RestoresOK, JobsOK, TypeOK
<1> QED BY SpecInv, <1>1, PTL

\* The pool holds at most MAX_TABS tabs and none twice, for any number of tabs, windows and
\* restores (addPoolTab's check before the await, and the eviction loop of a restore).
THEOREM SessionPoolBounded == Spec => []PoolBounded
<1>1. Inv => PoolBounded BY DEF Inv, SessionOK
<1> QED BY SpecInv, <1>1, PTL

\* No step puts a session in the place of another: neither a restore that was given
\* up nor a command whose session was dropped under it (the epoch checks of session.ts).
THEOREM SessionNeverReplaced == Spec => NeverReplaced
<1>1. Inv /\ [Next]_vars => [session'.object \notin {0, session.object} => session = NoSession]_vars
  BY NextStep DEF Replaces
<1> QED BY SpecInv, <1>1, PTL DEF Spec, NeverReplaced

\* Storage names a session a later lifetime can take up, and what the background page has
\* when no command runs and the last write took (persist, clear and readStoredState of session.ts).
THEOREM SessionStorageSound == Spec => []StorageSound
<1>1. Inv /\ Safe => StorageSound
  <2> SUFFICES ASSUME Inv, Safe PROVE StorageSound OBVIOUS
  <2>1. Leftover
    <3> SUFFICES ASSUME stored # NoSession PROVE Leftover BY DEF Leftover
    <3>1. stored.windowId \in Windows /\ Distinct(stored.tabs) BY DEF Inv, StoredOK, Keepable, States
    <3> QED BY <3>1 DEF Leftover, Safe, FitInv, Fits
  <2>2. Ready /\ job = NoJob /\ ~behind => stored = Public(session)
    BY DEF Safe, SyncInv, Unread, Ready, Loading
  <2> QED BY <2>1, <2>2 DEF StorageSound
<1> QED BY SpecSafe, <1>1, PTL

\* Storage forgets a window that is still open only for the command that closes the
\* session, so the next lifetime finds it again (persist and clear of session.ts).
THEOREM SessionSurvivorKept == Spec => SurvivorKept
<1>1. Inv /\ Safe /\ [Next]_vars =>
        [~behind /\ stored.windowId \in Open /\ stored'.windowId # stored.windowId =>
           CloseWindow \/ stored.windowId \notin Open']_vars
  BY NextSafe DEF Survives
<1> QED BY SpecSafe, <1>1, PTL DEF Spec, SurvivorKept

\* A tab of the user goes only when the user closes it: eviction, close and the sweep of a
\* restore take tabs of the session only (evictOldest, closeWindow, readStoredState).
THEOREM SessionUserTabsKept == Spec => UserTabsKept
<1>1. Inv /\ Safe /\ [Next]_vars =>
        [\A t \in users : place'[t] = None => UserClosesTab \/ UserClosesWindow]_vars
  BY NextSafe DEF Spares
<1> QED BY SpecSafe, <1>1, PTL DEF Spec, UserTabsKept
=============================================================================
