----------------------------- MODULE HoldsProofs -----------------------------
(***************************************************************************)
(* What the network tracker and the commands that hold for a tab promise,  *)
(* for any requests, ring, limits, budgets and timeouts.                   *)
(*                                                                         *)
(* The tracker: an entry of a request's latest hop carries that hop's time *)
(* and stays pending while the request is in flight (Ring), and a request  *)
(* in flight has such an entry unless it is lost (Seen).  The holds: the   *)
(* clock never passes the timer a phase set, and every timer stays within  *)
(* the limit the command's budget gave the hold (ReadyInv, WaitInv); a     *)
(* poll of the critical phase is at most one interval after the activity   *)
(* it was allowed for (HungInv); listeners are up while a wait watches     *)
(* (MissInv).                                                              *)
(***************************************************************************)
EXTENDS Holds, TLAPS, WellFoundedInduction

USE NetworkAssumption, HoldsAssumption

----------------------------------------------------------------------------
(* The network tracker *)

Entries == [id : Requests, hop : Nat, at : Nat, status : {"pending", "completed", "error"}]

NetTypes ==
  /\ now \in Nat /\ entries \in Seq(Entries) /\ lost \in SUBSET Requests
  /\ flight \in [Requests -> {"idle", "open", "over"}]
  /\ hops \in [Requests -> Nat] /\ begun \in [Requests -> Nat]
  /\ \A r \in Requests : begun[r] <= now

\* What an entry says of its request.
Fits(e) ==
  /\ 0 < e.hop /\ e.hop <= hops[e.id] /\ e.at <= begun[e.id]
  /\ e.hop = hops[e.id] => e.at = begun[e.id]
  /\ flight[e.id] # "idle" /\ (flight[e.id] = "open" => e.status = "pending")

Ring == \A i \in DOMAIN entries : Fits(entries[i])

Seen == \A r \in InFlight \ lost : \E i \in DOMAIN entries : entries[i].id = r /\ entries[i].hop = hops[r]

NetInv == NetTypes /\ Ring /\ Seen

\* A set of naturals has a least element.
LEMMA Smallest == ASSUME NEW S, S \subseteq Nat, S # {} PROVE \E i \in S : \A j \in S : i <= j
<1>1. \E i \in S : \A j \in S : ~(<<j, i>> \in OpToRel(<, Nat))
  BY NatLessThanWellFounded, WFMin, Zenon
<1>2. PICK i \in S : \A j \in S : ~(<<j, i>> \in OpToRel(<, Nat)) BY <1>1
<1>3. ASSUME NEW j \in S, j < i PROVE FALSE
  <2>1. <<j, i>> \in OpToRel(<, Nat) BY <1>3 DEF OpToRel
  <2> QED BY <1>2, <2>1
<1>4. \A j \in S : i <= j BY <1>3
<1> QED BY <1>4

LEMMA NetInit == Init => NetInv
<1> SUFFICES ASSUME Init PROVE NetInv OBVIOUS
<1>1. NetTypes BY DEF Init, NetTypes
<1>2. Ring BY DEF Init, Ring
<1>3. Seen BY DEF Init, Seen, InFlight
<1> QED BY <1>1, <1>2, <1>3 DEF NetInv

\* A hop that starts is the last entry; the ring keeps the others but the oldest.
LEMMA StartedFacts ==
  ASSUME NetInv, NEW r \in Requests, Started(r)
  PROVE  /\ entries' \in Seq(Entries)
         /\ \A i \in DOMAIN entries' :
              \/ entries'[i] = [id |-> r, hop |-> hops[r] + 1, at |-> now, status |-> "pending"]
              \/ \E j \in DOMAIN entries : entries'[i] = entries[j]
         /\ hops' \in [Requests -> Nat] /\ begun' \in [Requests -> Nat]
         /\ \A q \in Requests : /\ hops'[q] = IF q = r THEN hops[q] + 1 ELSE hops[q]
                                /\ begun'[q] = IF q = r THEN now ELSE begun[q]
<1> DEFINE hop == [id |-> r, hop |-> hops[r] + 1, at |-> now, status |-> "pending"]
           grown == Append(entries, hop)
<1>1. hop \in Entries /\ entries \in Seq(Entries) BY DEF NetInv, NetTypes, Entries
<1>2. entries' = IF Len(grown) > MaxEntries THEN Tail(grown) ELSE grown BY DEF Started
<1> HIDE DEF hop
<1>3. /\ grown \in Seq(Entries) /\ Len(grown) = Len(entries) + 1
      /\ \A i \in DOMAIN grown : grown[i] = hop \/ \E j \in DOMAIN entries : grown[i] = entries[j]
  BY <1>1
<1> HIDE DEF grown
<1>4. Tail(grown) \in Seq(Entries) /\ \A i \in DOMAIN Tail(grown) : \E j \in DOMAIN grown : Tail(grown)[i] = grown[j]
  <2>1. grown # <<>> BY <1>1, <1>3
  <2>2. Tail(grown) \in Seq(Entries) /\ Len(Tail(grown)) = Len(grown) - 1 BY <1>3, <2>1
  <2>3. ASSUME NEW i \in DOMAIN Tail(grown) PROVE i + 1 \in DOMAIN grown /\ Tail(grown)[i] = grown[i + 1]
    BY <1>3, <2>1, <2>2
  <2> QED BY <2>2, <2>3
<1>5. /\ entries' \in Seq(Entries)
      /\ \A i \in DOMAIN entries' : entries'[i] = hop \/ \E j \in DOMAIN entries : entries'[i] = entries[j]
  BY <1>2, <1>3, <1>4
<1>6. /\ hops' \in [Requests -> Nat] /\ begun' \in [Requests -> Nat]
      /\ \A q \in Requests : /\ hops'[q] = IF q = r THEN hops[q] + 1 ELSE hops[q]
                             /\ begun'[q] = IF q = r THEN now ELSE begun[q]
  <2>1. hops' = [hops EXCEPT ![r] = @ + 1] /\ begun' = [begun EXCEPT ![r] = now] BY DEF Started
  <2>2. hops \in [Requests -> Nat] /\ begun \in [Requests -> Nat] /\ now \in Nat BY DEF NetInv, NetTypes
  <2> QED BY <2>1, <2>2
<1> QED BY <1>5, <1>6 DEF hop

LEMMA StartedStep ==
  ASSUME NetInv, NEW r \in Requests, flight[r] # "over", Started(r), flight' = [flight EXCEPT ![r] = "open"],
         now' = now
  PROVE  NetInv'
<1>1. /\ flight \in [Requests -> {"idle", "open", "over"}] /\ now \in Nat
      /\ \A q \in Requests : begun[q] <= now /\ begun[q] \in Nat /\ hops[q] \in Nat
  BY DEF NetInv, NetTypes
<1>2. /\ flight' \in [Requests -> {"idle", "open", "over"}]
      /\ \A q \in Requests : flight'[q] = IF q = r THEN "open" ELSE flight[q]
  BY <1>1
<1>3. lost' = {q \in InFlight \cup {r} :
                 \A i \in DOMAIN entries' : ~(entries'[i].id = q /\ entries'[i].hop = hops'[q])}
  BY DEF Started, Unseen
<1>4. \A q \in Requests : /\ hops'[q] = IF q = r THEN hops[q] + 1 ELSE hops[q]
                          /\ begun'[q] = IF q = r THEN now ELSE begun[q]
  BY StartedFacts
<1>5. NetTypes'
  <2>1. entries' \in Seq(Entries) /\ hops' \in [Requests -> Nat] /\ begun' \in [Requests -> Nat]
    BY StartedFacts
  <2>2. \A q \in Requests : begun'[q] <= now' BY <1>1, <1>4
  <2>3. lost' \in SUBSET Requests BY <1>3 DEF InFlight
  <2> QED BY <1>1, <1>2, <2>1, <2>2, <2>3 DEF NetTypes
<1>6. Ring'
  <2> SUFFICES ASSUME NEW i \in DOMAIN entries' PROVE Fits(entries[i])' BY DEF Ring
  <2>1. CASE entries'[i] = [id |-> r, hop |-> hops[r] + 1, at |-> now, status |-> "pending"]
    <3>1. /\ entries'[i].id = r /\ entries'[i].hop = hops[r] + 1 /\ entries'[i].at = now
          /\ entries'[i].status = "pending"
      BY <2>1
    <3>2. hops'[r] = hops[r] + 1 /\ begun'[r] = now /\ flight'[r] = "open" BY <1>2, <1>4
    <3> QED BY <1>1, <3>1, <3>2 DEF Fits
  <2>2. ASSUME NEW j \in DOMAIN entries, entries'[i] = entries[j] PROVE Fits(entries[i])'
    <3>1. entries[j] \in Entries
      <4>1. entries \in Seq(Entries) BY DEF NetInv, NetTypes
      <4> QED BY <4>1
    <3>2. Fits(entries[j]) BY DEF NetInv, Ring
    <3>3. /\ entries[j].id \in Requests /\ entries[j].hop \in Nat /\ entries[j].at \in Nat BY <3>1 DEF Entries
    <3>4. entries[j].id = r => entries[j].status = "pending" BY <1>1, <3>2 DEF Fits
    <3> DEFINE q == entries[j].id
    <3>5. /\ hops'[q] = (IF q = r THEN hops[q] + 1 ELSE hops[q]) /\ begun'[q] = (IF q = r THEN now ELSE begun[q])
          /\ flight'[q] = (IF q = r THEN "open" ELSE flight[q])
      BY <1>2, <1>4, <3>3
    <3>6. hops[q] \in Nat /\ begun[q] <= now /\ begun[q] \in Nat BY <1>1, <3>3
    <3> QED BY <1>1, <2>2, <3>2, <3>3, <3>4, <3>5, <3>6 DEF Fits
  <2> QED BY <2>1, <2>2, StartedFacts
<1>7. InFlight' = InFlight \cup {r} BY <1>2 DEF InFlight
<1>8. Seen' BY <1>3, <1>7 DEF Seen
<1> QED BY <1>5, <1>6, <1>8 DEF NetInv

\* A request ends: its entries alone get a status.
LEMMA FinishedStep ==
  ASSUME NetInv, NEW r \in Requests, NEW status \in {"completed", "error"}, Finished(r, status),
         flight' = [flight EXCEPT ![r] = "over"], lost' = lost \ {r}, UNCHANGED <<now, hops, begun>>
  PROVE  NetInv'
<1> DEFINE mine == {i \in DOMAIN entries : entries[i].id = r}
           first == CHOOSE i \in mine : \A j \in mine : i <= j
<1>1. entries \in Seq(Entries) BY DEF NetInv, NetTypes
<1>2. entries' = IF mine = {} THEN entries ELSE [entries EXCEPT ![first].status = status] BY DEF Finished
<1> HIDE DEF first
<1>3. ASSUME NEW i \in DOMAIN entries
      PROVE  /\ entries[i] \in Entries
             /\ [entries[i] EXCEPT !.status = status] \in Entries
             /\ [entries[i] EXCEPT !.status = status].id = entries[i].id
             /\ [entries[i] EXCEPT !.status = status].hop = entries[i].hop
             /\ [entries[i] EXCEPT !.status = status].at = entries[i].at
  <2>1. entries[i] \in Entries BY <1>1
  <2> QED BY <2>1 DEF Entries
<1>4. /\ entries' \in Seq(Entries) /\ DOMAIN entries' = DOMAIN entries
      /\ \A i \in DOMAIN entries : entries'[i] \in {entries[i], [entries[i] EXCEPT !.status = status]}
  <2>1. CASE mine = {} BY <1>1, <1>2, <2>1
  <2>2. CASE mine # {}
    <3>1. entries' = [i \in DOMAIN entries |->
                        IF i = first THEN [entries[i] EXCEPT !.status = status] ELSE entries[i]]
      <4> HIDE DEF mine
      <4> QED BY <1>2, <2>2
    <3>2. \A i \in DOMAIN entries : entries'[i] \in Entries BY <1>3, <3>1
    <3>3. entries' \in Seq(Entries)
      <4>1. DOMAIN entries = 1 .. Len(entries) BY <1>1
      <4> QED BY <1>1, <3>1, <3>2, <4>1
    <3> QED BY <3>1, <3>3
  <2> QED BY <2>1, <2>2
<1>5. \A i \in DOMAIN entries : entries[i].id # r => entries'[i] = entries[i]
  <2>1. CASE mine = {} BY <1>2, <2>1
  <2>2. CASE mine # {}
    <3>1. first \in mine
      <4>1. mine \subseteq Nat BY <1>1
      <4>2. \E i \in mine : \A j \in mine : i <= j
        <5> HIDE DEF mine
        <5> QED BY <2>2, <4>1, Smallest
      <4> QED BY <4>2 DEF first
    <3> QED BY <1>1, <1>2, <2>2, <3>1
  <2> QED BY <2>1, <2>2
<1>6. /\ flight' \in [Requests -> {"idle", "open", "over"}]
      /\ \A q \in Requests : flight'[q] = IF q = r THEN "over" ELSE flight[q]
  BY DEF NetInv, NetTypes
<1>7. NetTypes' BY <1>4, <1>6 DEF NetInv, NetTypes
<1>8. ASSUME NEW i \in DOMAIN entries
      PROVE  /\ entries'[i].id = entries[i].id /\ entries'[i].hop = entries[i].hop /\ entries'[i].at = entries[i].at
             /\ entries[i].id \in Requests
  BY <1>3, <1>4 DEF Entries
<1>9. Ring'
  <2> SUFFICES ASSUME NEW i \in DOMAIN entries' PROVE Fits(entries[i])' BY DEF Ring
  <2>1. i \in DOMAIN entries /\ Fits(entries[i]) BY <1>4 DEF NetInv, Ring
  <2> QED BY <1>5, <1>6, <1>8, <2>1 DEF Fits
<1>10. InFlight' = InFlight \ {r} BY <1>6 DEF InFlight
<1>11. Seen' BY <1>4, <1>8, <1>10 DEF NetInv, Seen
<1> QED BY <1>7, <1>9, <1>11 DEF NetInv

LEMMA NetStep == ASSUME NetInv, [Next]_vars PROVE NetInv'
<1>1. ASSUME NEW r \in Requests, Begin(r) \/ Redirect(r) PROVE NetInv'
  <2>1. flight' = [flight EXCEPT ![r] = "open"] BY <1>1 DEF Begin, Redirect, NetInv, NetTypes
  <2> QED BY <1>1, <2>1, StartedStep DEF Begin, Redirect
<1>2. ASSUME NEW r \in Requests, Complete(r) \/ Fail(r) PROVE NetInv'
  BY <1>2, FinishedStep DEF Complete, Fail
<1>3. CASE Clear
  <2>1. NetTypes' BY <1>3 DEF Clear, NetInv, NetTypes, InFlight
  <2>2. Ring' BY <1>3 DEF Clear, Ring
  <2>3. Seen' BY <1>3 DEF Clear, Seen, InFlight
  <2> QED BY <2>1, <2>2, <2>3 DEF NetInv
<1>4. CASE Tick
  <2>1. now' = now + 1 /\ UNCHANGED <<entries, flight, hops, begun, lost>> BY <1>4 DEF Tick
  <2>2. NetTypes' BY <2>1 DEF NetInv, NetTypes
  <2>3. Ring' /\ Seen' BY <2>1 DEF NetInv, Ring, Fits, Seen, InFlight
  <2> QED BY <2>2, <2>3 DEF NetInv
<1>5. CASE UNCHANGED vars BY <1>5 DEF vars, NetInv, NetTypes, Ring, Fits, Seen, InFlight
<1> QED BY <1>1, <1>2, <1>3, <1>4, <1>5 DEF Next

LEMMA NetIdle == NetInv => IdleSound
<1> SUFFICES ASSUME NetInv, IsIdle, NEW r \in Mine \cap InFlight, Recent(begun[r]), r \notin lost PROVE FALSE
  BY DEF IdleSound
<1>1. PICK i \in DOMAIN entries : entries[i].id = r /\ entries[i].hop = hops[r] BY DEF NetInv, Seen
<1>2. entries[i].at = begun[r] /\ entries[i].status = "pending" BY <1>1 DEF NetInv, Ring, Fits, InFlight
<1>3. i \in Pending BY <1>1, <1>2 DEF Pending, InWindow
<1> QED BY <1>3 DEF IsIdle

----------------------------------------------------------------------------
(* Least, greatest, what is left *)

LEMMA LeastFacts ==
  ASSUME NEW a \in Nat, NEW b \in Nat
  PROVE  Least(a, b) \in Nat /\ Least(a, b) <= a /\ Least(a, b) <= b /\ Least(a, b) \in {a, b}
<1>1. \E x \in {a, b} : \A y \in {a, b} : x <= y BY Smallest
<1>2. Least(a, b) \in {a, b} /\ \A y \in {a, b} : Least(a, b) <= y BY <1>1 DEF Least, Min
<1> QED BY <1>2

LEMMA GreatestFacts ==
  ASSUME NEW b \in Nat, NEW S \in SUBSET (0 .. b), S # {}
  PROVE  Max(S) \in S /\ \A y \in S : Max(S) >= y
<1> DEFINE away == {b - x : x \in S}
<1>1. away \subseteq Nat /\ away # {}
  <2>1. \A x \in S : b - x \in Nat OBVIOUS
  <2> QED BY <2>1
<1>2. PICK d \in away : \A y \in away : d <= y
  <2> HIDE DEF away
  <2> QED BY <1>1, Smallest
<1>3. PICK x \in S : d = b - x BY <1>2
<1>4. \A y \in S : b - y \in away OBVIOUS
<1>5. \A y \in S : x >= y
  <2> SUFFICES ASSUME NEW y \in S PROVE x >= y OBVIOUS
  <2>1. d <= b - y BY <1>2, <1>4
  <2> QED BY <1>3, <2>1
<1> QED BY <1>5 DEF Max

LEMMA LeftFacts ==
  ASSUME NEW due \in Nat, NEW slack \in Nat, now \in Nat
  PROVE  Left(due, slack) \in Nat /\ (Left(due, slack) = 0 \/ now + Left(due, slack) + slack = due)
  BY DEF Left

LEMMA LastActivityFacts ==
  ASSUME NetInv
  PROVE  /\ LastActivity \in Nat /\ LastActivity <= now
         /\ \A i \in InWindow : entries[i].at \in Nat /\ entries[i].at <= LastActivity
         /\ LastActivity = 0 \/ \E i \in InWindow : LastActivity = entries[i].at
<1> DEFINE S == {0} \cup {entries[i].at : i \in InWindow}
<1>1. ASSUME NEW i \in InWindow PROVE entries[i].at \in 0 .. now
  <2>1. i \in DOMAIN entries /\ entries[i] \in Entries BY DEF InWindow, NetInv, NetTypes
  <2>2. entries[i].at \in Nat /\ entries[i].id \in Requests BY <2>1 DEF Entries
  <2>3. entries[i].at <= begun[entries[i].id] BY <2>1 DEF NetInv, Ring, Fits
  <2>4. begun[entries[i].id] <= now /\ begun[entries[i].id] \in Nat /\ now \in Nat BY <2>2 DEF NetInv, NetTypes
  <2> QED BY <2>2, <2>3, <2>4
<1>2. now \in Nat BY DEF NetInv, NetTypes
<1>3. S \in SUBSET (0 .. now) /\ S # {} BY <1>1, <1>2
<1>4. Max(S) \in S /\ \A y \in S : Max(S) >= y
  <2> HIDE DEF S
  <2> QED BY <1>2, <1>3, GreatestFacts
<1>5. LastActivity = Max(S) BY DEF LastActivity
<1> QED BY <1>1, <1>2, <1>3, <1>4, <1>5

----------------------------------------------------------------------------
(* The readiness check *)

Holding == [at : Timed \cup {"new", "send", "page", "over", "found", "closed", "timeout", "failed"},
            began : Nat, due : Nat, until : Nat, cap : Nat, wake : Nat, images : BOOLEAN]

\* A look of a hold h that has until h.until leaves it in a phase that ends by then.
Phase(h, g) ==
  /\ g \in Holding /\ g.at \in {"critical", "visual", "render"}
  /\ g.began = h.began /\ g.due = h.due /\ g.until = h.until
  /\ now <= g.wake /\ g.wake <= g.until
  /\ g.at = "visual" => g.cap <= g.until

\* Some request of the tab started a hop not long before.
Lively(wake) == \E r \in Mine : hops[r] > 0 /\ wake <= begun[r] + Stall + Poll

LEMMA RenderingFacts ==
  ASSUME NEW h \in Holding, now \in Nat, now <= h.until
  PROVE  Phase(h, Rendering(h)) /\ Rendering(h).at = "render"
<1>1. h.until \in Nat BY DEF Holding
<1>2. Max({h.until, now}) = h.until
  <2>1. Max({h.until, now}) \in {h.until, now} /\ \A y \in {h.until, now} : Max({h.until, now}) >= y
    <3>1. {h.until, now} \in SUBSET (0 .. h.until) /\ {h.until, now} # {} BY <1>1
    <3> QED BY <1>1, <3>1, GreatestFacts
  <2> QED BY <1>1, <2>1
<1>3. Rendering(h) = [h EXCEPT !.at = "render", !.wake = h.until] BY <1>2 DEF Rendering
<1>4. /\ Rendering(h) \in Holding /\ Rendering(h).at = "render" /\ Rendering(h).wake = h.until
      /\ Rendering(h).began = h.began /\ Rendering(h).due = h.due /\ Rendering(h).until = h.until
  BY <1>1, <1>3 DEF Holding, Timed
<1> QED BY <1>1, <1>4 DEF Phase

LEMMA VisualFacts ==
  ASSUME NEW h \in Holding, now \in Nat, now <= h.until, h.cap <= h.until
  PROVE  Phase(h, Visual(h)) /\ Visual(h).at # "critical"
<1>1. CASE now < h.cap /\ ~IsIdle
  <2>1. h.cap \in Nat /\ now + Poll \in Nat BY DEF Holding
  <2>2. /\ Least(now + Poll, h.cap) \in Nat /\ Least(now + Poll, h.cap) \in {now + Poll, h.cap}
        /\ Least(now + Poll, h.cap) <= h.cap
    BY <2>1, LeastFacts
  <2>3. Visual(h) = [h EXCEPT !.at = "visual", !.wake = Least(now + Poll, h.cap)] BY <1>1 DEF Visual
  <2>4. h.until \in Nat /\ now <= Least(now + Poll, h.cap) /\ Least(now + Poll, h.cap) <= h.until
    BY <1>1, <2>1, <2>2 DEF Holding
  <2> DEFINE wake == Least(now + Poll, h.cap)
  <2> HIDE DEF wake
  <2>5. /\ Visual(h) \in Holding /\ Visual(h).at = "visual" /\ Visual(h).wake = wake
        /\ Visual(h).began = h.began /\ Visual(h).due = h.due /\ Visual(h).until = h.until
        /\ Visual(h).cap = h.cap
    <3>1. Visual(h) = [h EXCEPT !.at = "visual", !.wake = wake] /\ wake \in Nat BY <2>2, <2>3 DEF wake
    <3> QED BY <3>1 DEF Holding, Timed
  <2>6. now <= wake /\ wake <= h.until BY <2>4 DEF wake
  <2> QED BY <2>5, <2>6 DEF Phase
<1>2. CASE ~(now < h.cap /\ ~IsIdle) BY <1>2, RenderingFacts DEF Visual
<1> QED BY <1>1, <1>2

LEMMA AfterCriticalFacts ==
  ASSUME NEW h \in Holding, now \in Nat, now <= h.until
  PROVE  Phase(h, AfterCritical(h)) /\ AfterCritical(h).at # "critical"
<1>1. CASE h.images
  <2> DEFINE cap == Least(now + VisualMax, h.until)
             g == [h EXCEPT !.cap = cap]
  <2>1. now + VisualMax \in Nat /\ h.until \in Nat BY DEF Holding
  <2>2. cap \in Nat /\ cap <= h.until BY <2>1, LeastFacts
  <2>3. AfterCritical(h) = Visual(g) BY <1>1 DEF AfterCritical
  <2> HIDE DEF cap
  <2>4. /\ g \in Holding /\ g.cap = cap /\ g.until = h.until /\ g.began = h.began /\ g.due = h.due
    BY <2>2 DEF Holding
  <2> HIDE DEF g
  <2>5. Phase(g, Visual(g)) /\ Visual(g).at # "critical" BY <2>2, <2>4, VisualFacts
  <2> QED BY <2>3, <2>4, <2>5 DEF Phase
<1>2. CASE ~h.images BY <1>2, RenderingFacts DEF AfterCritical
<1> QED BY <1>1, <1>2

LEMMA CriticalFacts ==
  ASSUME NetInv, NEW h \in Holding, now <= h.until
  PROVE  /\ Phase(h, CriticalLook(h))
         /\ CriticalLook(h).at = "critical" => Lively(CriticalLook(h).wake)
<1>1. now \in Nat /\ h.until \in Nat BY DEF NetInv, NetTypes, Holding
<1>2. CASE now < h.until /\ Blocking # {} /\ now - LastActivity <= Stall
  <2> DEFINE wake == Least(now + Poll, h.until)
  <2>1. CriticalLook(h) = [h EXCEPT !.at = "critical", !.wake = wake] BY <1>2 DEF CriticalLook
  <2>2. wake \in Nat /\ wake <= now + Poll /\ wake <= h.until /\ wake \in {now + Poll, h.until}
    <3>1. now + Poll \in Nat BY <1>1
    <3> QED BY <1>1, <3>1, LeastFacts
  <2> HIDE DEF wake
  <2>3. now <= wake BY <1>1, <1>2, <2>2
  <2>4. /\ CriticalLook(h) \in Holding /\ CriticalLook(h).at = "critical" /\ CriticalLook(h).wake = wake
        /\ CriticalLook(h).began = h.began /\ CriticalLook(h).due = h.due /\ CriticalLook(h).until = h.until
    BY <2>1, <2>2 DEF Holding, Timed
  <2>5. Phase(h, CriticalLook(h)) BY <2>2, <2>3, <2>4 DEF Phase
  <2>6. PICK i \in InWindow : now <= entries[i].at + Stall
    <3>1. PICK j \in InWindow : TRUE BY <1>2 DEF Blocking, Pending
    <3>2. LastActivity = 0 => entries[j].at = 0 BY <3>1, LastActivityFacts
    <3> QED BY <1>1, <1>2, <3>1, <3>2, LastActivityFacts
  <2>7. i \in DOMAIN entries /\ entries[i] \in Entries /\ entries[i].id \in Mine /\ Fits(entries[i])
    <3>1. i \in DOMAIN entries /\ entries[i].id \in Mine BY DEF InWindow
    <3>2. entries \in Seq(Entries) /\ Fits(entries[i]) BY <3>1 DEF NetInv, NetTypes, Ring
    <3> QED BY <3>1, <3>2
  <2> DEFINE r == entries[i].id
  <2>8. /\ r \in Requests /\ hops[r] \in Nat /\ begun[r] \in Nat /\ entries[i].at \in Nat /\ entries[i].hop \in Nat
    BY <2>7 DEF NetInv, NetTypes, Entries
  <2>9. hops[r] > 0 /\ entries[i].at <= begun[r] BY <2>7, <2>8 DEF Fits
  <2>10. wake <= begun[r] + Stall + Poll BY <1>1, <2>2, <2>6, <2>8, <2>9
  <2>11. Lively(wake) BY <2>7, <2>9, <2>10 DEF Lively
  <2> QED BY <2>4, <2>5, <2>11
<1>3. CASE ~(now < h.until /\ Blocking # {} /\ now - LastActivity <= Stall)
  BY <1>1, <1>3, AfterCriticalFacts DEF CriticalLook
<1> QED BY <1>2, <1>3

----------------------------------------------------------------------------
(* The invariant of a hold *)

HoldTypes ==
  /\ kind \in {"ready", "url", "page"} /\ hold \in Holding /\ hold.began <= now
  /\ tab \in Tabs /\ news \in Seq(Tabs) /\ listening \in BOOLEAN
  /\ look \in [at : {"none", "asked", "answered"}, tab : Tabs]
  /\ kind = "ready" => hold.at \in {"new", "critical", "visual", "render", "over"}
  /\ kind = "url" => hold.at \in {"new", "watch", "found", "closed", "timeout"}
  /\ kind = "page" =>
       hold.at \in {"new", "load", "send", "page", "delay", "found", "closed", "timeout", "failed"}

\* The readiness check ends by a limit that leaves the reserve, or holds nothing.
ReadyInv ==
  kind = "ready" /\ hold.at \in Timed =>
    /\ hold.wake <= hold.until
    /\ hold.until + Reserve <= hold.due \/ hold.until = hold.began
    /\ hold.at = "visual" => hold.cap <= hold.until

\* A wait keeps its timeout within the budget, and its timers the margin below it.
WaitInv ==
  kind # "ready" =>
    /\ hold.until <= hold.due
    /\ hold.at \in Timed => hold.wake + Margin <= hold.due \/ hold.wake = hold.began

HungInv == hold.at = "critical" => Lively(hold.wake)

MissInv == Watching => listening /\ NothingMissed

HoldInv ==
  /\ NetInv /\ HoldTypes /\ ReadyInv /\ WaitInv /\ HungInv /\ MissInv
  /\ hold.at \in Timed => now <= hold.wake

LEMMA HoldInitInv == HoldInit => HoldInv
<1> SUFFICES ASSUME HoldInit PROVE HoldInv OBVIOUS
<1>1. NetInv BY NetInit DEF HoldInit
<1>2. now \in Nat BY <1>1 DEF NetInv, NetTypes
<1>3. tab \in Tabs /\ NoLook.at = "none" /\ NoLook.tab \in Tabs /\ NoLook \in [at : {"none", "asked", "answered"}, tab : Tabs]
  BY DEF HoldInit, NoLook
<1>4. hold \in Holding /\ hold.at = "new" /\ hold.began = 0 /\ hold.until = 0 /\ hold.due = 0
  BY DEF HoldInit, Holding
<1>5. <<>> \in Seq(Tabs) OBVIOUS
<1>6. /\ kind \in {"ready", "url", "page"} /\ news \in Seq(Tabs) /\ listening \in BOOLEAN
      /\ look \in [at : {"none", "asked", "answered"}, tab : Tabs]
  <2>1. listening \in BOOLEAN BY DEF HoldInit
  <2> QED BY <1>3, <1>5, <2>1 DEF HoldInit
<1>7. HoldTypes BY <1>2, <1>3, <1>4, <1>6 DEF HoldTypes
<1> QED BY <1>1, <1>4, <1>7 DEF HoldInit, HoldInv, ReadyInv, WaitInv, HungInv, MissInv, Watching, Timed

LEMMA NetGrows ==
  ASSUME NetInv, [Next]_vars
  PROVE  now' >= now /\ \A r \in Requests : hops'[r] >= hops[r] /\ begun'[r] >= begun[r]
<1>1. now \in Nat /\ \A r \in Requests : begun[r] <= now /\ begun[r] \in Nat /\ hops[r] \in Nat
  BY DEF NetInv, NetTypes
<1>2. ASSUME NEW r \in Requests, Begin(r) \/ Redirect(r) \/ Complete(r) \/ Fail(r)
      PROVE  now' = now /\ \A q \in Requests : hops'[q] >= hops[q] /\ begun'[q] >= begun[q]
  <2>1. CASE Begin(r) \/ Redirect(r)
    <3>1. Started(r) /\ now' = now BY <2>1 DEF Begin, Redirect
    <3>2. \A q \in Requests : /\ hops'[q] = IF q = r THEN hops[q] + 1 ELSE hops[q]
                              /\ begun'[q] = IF q = r THEN now ELSE begun[q]
      BY <3>1, StartedFacts
    <3> QED BY <1>1, <3>1, <3>2
  <2>2. CASE Complete(r) \/ Fail(r) BY <1>1, <2>2 DEF Complete, Fail
  <2> QED BY <1>2, <2>1, <2>2
<1>3. CASE Tick \/ Clear \/ UNCHANGED vars BY <1>1, <1>3 DEF Tick, Clear, vars
<1> QED BY <1>1, <1>2, <1>3 DEF Next

LEMMA LivelyStays ==
  ASSUME NetInv, [Next]_vars, hold \in Holding, HungInv, UNCHANGED hold
  PROVE  HungInv'
<1> SUFFICES ASSUME hold.at = "critical" PROVE Lively(hold.wake)' BY DEF HungInv
<1>1. PICK r \in Mine : hops[r] > 0 /\ hold.wake <= begun[r] + Stall + Poll BY DEF HungInv, Lively
<1>2. r \in Requests /\ hops[r] \in Nat /\ hops'[r] \in Nat /\ begun[r] \in Nat /\ begun'[r] \in Nat
  BY NetStep DEF NetInv, NetTypes
<1>3. hops'[r] >= hops[r] /\ begun'[r] >= begun[r] BY <1>2, NetGrows
<1>4. hold.wake \in Nat BY DEF Holding
<1>5. hops'[r] > 0 /\ hold.wake <= begun'[r] + Stall + Poll BY <1>1, <1>2, <1>3, <1>4
<1> QED BY <1>5 DEF Lively

----------------------------------------------------------------------------
(* Steps of the readiness check *)

\* A look that leaves the check in a phase keeps the invariant.
LEMMA PhaseStep ==
  ASSUME HoldInv, kind = "ready", NEW h, Phase(h, hold'), h.began <= now, h.began \in Nat,
         h.until + Reserve <= h.due \/ h.until = h.began,
         hold'.at = "critical" => Lively(hold'.wake), UNCHANGED <<vars, kind, watching>>
  PROVE  HoldInv'
<1>1. NetInv' BY NetStep DEF HoldInv
<1>2. now' = now /\ kind' = kind BY DEF vars
<1>3. UNCHANGED <<tab, navs, listening, look, news>> BY DEF watching
<1>4. HoldTypes' BY <1>2, <1>3 DEF HoldInv, HoldTypes, Phase
<1>5. ReadyInv' /\ WaitInv' BY <1>2 DEF ReadyInv, WaitInv, Phase
<1>6. HungInv' BY DEF HungInv, Lively, vars
<1>7. ~Watching' BY DEF Phase, Watching
<1>8. now' <= hold'.wake BY <1>2 DEF Phase
<1> QED BY <1>1, <1>4, <1>5, <1>6, <1>7, <1>8 DEF HoldInv, MissInv

LEMMA StartReadyStep == ASSUME HoldInv, StartReady PROVE HoldInv'
<1>1. PICK b \in Budgets, wanted \in BOOLEAN :
         LET h == [hold EXCEPT !.began = now, !.due = now + b, !.images = wanted,
                               !.until = now + Least(MaxWait, Left(now + b, Reserve))]
         IN hold' = IF IsIdle THEN Rendering(h) ELSE CriticalLook(h)
  BY DEF StartReady
<1> DEFINE left == Left(now + b, Reserve)
           limit == Least(MaxWait, left)
           h == [hold EXCEPT !.began = now, !.due = now + b, !.images = wanted, !.until = now + limit]
<1>2. now \in Nat /\ b \in Nat /\ hold \in Holding BY DEF HoldInv, HoldTypes, NetInv, NetTypes
<1>3. left \in Nat /\ (left = 0 \/ now + left + Reserve = now + b) BY <1>2, LeftFacts
<1> HIDE DEF left
<1>4. limit \in Nat /\ limit <= left BY <1>3, LeastFacts
<1> HIDE DEF limit
<1>5. h \in Holding /\ h.began = now /\ h.due = now + b /\ h.until = now + limit
  <2>1. now + b \in Nat /\ now + limit \in Nat BY <1>2, <1>4
  <2> QED BY <1>2, <2>1 DEF Holding
<1>6. hold' = IF IsIdle THEN Rendering(h) ELSE CriticalLook(h) BY <1>1 DEF limit, left
<1> HIDE DEF h
<1>7. now <= h.until /\ (h.until + Reserve <= h.due \/ h.until = h.began) BY <1>2, <1>3, <1>4, <1>5
<1>8. Phase(h, hold') /\ (hold'.at = "critical" => Lively(hold'.wake))
  BY <1>2, <1>5, <1>6, <1>7, RenderingFacts, CriticalFacts DEF HoldInv
<1>9. kind = "ready" /\ UNCHANGED <<vars, kind, watching>> BY DEF StartReady
<1> QED BY <1>2, <1>5, <1>7, <1>8, <1>9, PhaseStep

LEMMA LookStep == ASSUME HoldInv, LookCritical \/ LookVisual PROVE HoldInv'
<1>1. hold \in Holding /\ now \in Nat /\ hold.began \in Nat BY DEF HoldInv, HoldTypes, NetInv, NetTypes, Holding
<1>2. hold.at \in {"critical", "visual"} /\ UNCHANGED <<vars, kind, watching>> BY DEF LookCritical, LookVisual
<1>3. kind = "ready" /\ hold.at \in Timed BY <1>2 DEF HoldInv, HoldTypes, Timed
<1>4. /\ hold.began <= now /\ now <= hold.until
      /\ hold.until + Reserve <= hold.due \/ hold.until = hold.began
      /\ hold.at = "visual" => hold.cap <= hold.until
  <2>1. hold.wake \in Nat /\ hold.until \in Nat BY <1>1 DEF Holding
  <2> QED BY <1>1, <1>3, <2>1 DEF HoldInv, ReadyInv, HoldTypes
<1>5. Phase(hold, hold') /\ (hold'.at = "critical" => Lively(hold'.wake))
  BY <1>1, <1>4, CriticalFacts, VisualFacts DEF LookCritical, LookVisual, HoldInv
<1> QED BY <1>1, <1>2, <1>3, <1>4, <1>5, PhaseStep

----------------------------------------------------------------------------
(* Steps of a wait *)

LEMMA StartWaitStep == ASSUME HoldInv, StartWait PROVE HoldInv'
<1>1. PICK b \in Budgets, timeout \in Timeouts :
         hold' = [hold EXCEPT !.began = now, !.due = now + b,
                              !.at = IF kind = "url" THEN "watch" ELSE "load",
                              !.wake = now + WaitLimit(now + b, timeout),
                              !.until = Least(now + timeout, now + b)]
  BY DEF StartWait
<1>2. /\ now \in Nat /\ b \in Nat /\ timeout \in Nat /\ hold \in Holding
      /\ now + b \in Nat /\ now + timeout \in Nat
  <2>1. now \in Nat /\ hold \in Holding BY DEF HoldInv, HoldTypes, NetInv, NetTypes
  <2> QED BY <2>1
<1> DEFINE left == Left(now + b, Margin)
           limit == WaitLimit(now + b, timeout)
           until == Least(now + timeout, now + b)
<1>3. left \in Nat /\ (left = 0 \/ now + left + Margin = now + b) BY <1>2, LeftFacts
<1>4. limit \in Nat /\ limit <= left BY <1>2, <1>3, LeastFacts DEF WaitLimit
<1>5. until \in Nat /\ until <= now + b BY <1>2, LeastFacts
<1> HIDE DEF left, limit, until
<1>6. hold' = [hold EXCEPT !.began = now, !.due = now + b, !.at = IF kind = "url" THEN "watch" ELSE "load",
                           !.wake = now + limit, !.until = until]
  BY <1>1 DEF limit, until
<1>7. /\ hold' \in Holding /\ hold'.at = IF kind = "url" THEN "watch" ELSE "load"
      /\ hold'.began = now /\ hold'.due = now + b /\ hold'.wake = now + limit /\ hold'.until = until
  <2>1. now + limit \in Nat BY <1>2, <1>4
  <2> QED BY <1>2, <1>5, <1>6, <2>1 DEF Holding, Timed
<1>8. /\ kind \in {"url", "page"} /\ kind' = kind /\ now' = now /\ UNCHANGED <<vars, tab, navs, news>>
      /\ listening' = TRUE /\ look' = Asked
  BY DEF StartWait, ListenFirst, vars
<1>9. look'.at = "asked" /\ look' \in [at : {"none", "asked", "answered"}, tab : Tabs]
  <2>1. tab \in Tabs BY DEF HoldInv, HoldTypes
  <2> QED BY <1>8, <2>1 DEF Asked, NoLook
<1>10. NetInv' BY <1>8, NetStep DEF HoldInv
<1>11. HoldTypes' BY <1>2, <1>7, <1>8, <1>9 DEF HoldInv, HoldTypes
<1>12. hold'.until <= hold'.due /\ now' <= hold'.wake /\ (hold'.wake + Margin <= hold'.due \/ hold'.wake = hold'.began)
  BY <1>2, <1>3, <1>4, <1>5, <1>7, <1>8
<1>13. MissInv' BY <1>8, <1>9 DEF MissInv, NothingMissed
<1> QED BY <1>7, <1>8, <1>10, <1>11, <1>12, <1>13 DEF HoldInv, ReadyInv, WaitInv, HungInv

\* The tab changes: listeners that are up hear of it.
LEMMA TabStep ==
  ASSUME HoldInv, Navigate \/ PageLoads \/ ScriptRuns \/ TabCloses \/ LookAnswered
  PROVE  HoldInv'
<1>1. UNCHANGED vars /\ kind' = kind /\ hold' = hold /\ listening' = listening /\ now' = now
  BY DEF Navigate, PageLoads, ScriptRuns, TabCloses, LookAnswered, Changed, vars
<1>2. NetInv' BY <1>1, NetStep DEF HoldInv
<1>3. tab \in Tabs /\ news \in Seq(Tabs) /\ look \in [at : {"none", "asked", "answered"}, tab : Tabs]
  BY DEF HoldInv, HoldTypes
<1>4. \/ /\ tab' \in Tabs /\ look' = look
         /\ news' = IF listening THEN Append(news, tab') ELSE news
      \/ /\ tab' = [tab EXCEPT !.script = TRUE] /\ look' = look /\ news' = news
      \/ /\ tab' = tab /\ look' = [at |-> "answered", tab |-> tab] /\ news' = news
  <2>1. CASE Navigate BY <1>3, <2>1 DEF Navigate, Changed, Tabs
  <2>2. CASE PageLoads \/ TabCloses BY <1>3, <2>2 DEF PageLoads, TabCloses, Changed, Tabs
  <2>3. CASE ScriptRuns \/ LookAnswered BY <2>3 DEF ScriptRuns, LookAnswered
  <2> QED BY <2>1, <2>2, <2>3
<1>5. HoldTypes'
  <2>1. tab' \in Tabs BY <1>3, <1>4 DEF Tabs
  <2>2. Append(news, tab') \in Seq(Tabs) BY <1>3, <2>1
  <2>3. news' \in Seq(Tabs) BY <1>3, <1>4, <2>2
  <2>4. look' \in [at : {"none", "asked", "answered"}, tab : Tabs] BY <1>3, <1>4
  <2> QED BY <1>1, <2>1, <2>3, <2>4 DEF HoldInv, HoldTypes
<1>6. MissInv'
  <2> SUFFICES ASSUME Watching' PROVE listening' /\ NothingMissed' BY DEF MissInv
  <2>1. Watching /\ listening /\ NothingMissed BY <1>1 DEF HoldInv, MissInv, Watching
  <2>2. CASE tab' \in Tabs /\ look' = look /\ news' = Append(news, tab')
    <3>1. Len(news) + 1 \in DOMAIN news' /\ news'[Len(news) + 1] = tab' BY <1>3, <2>2
    <3> QED BY <1>1, <2>1, <3>1 DEF NothingMissed, Meets
  <2>3. CASE tab' = [tab EXCEPT !.script = TRUE] /\ look' = look /\ news' = news
    <3>1. tab'.open = tab.open /\ tab'.there = tab.there /\ tab'.shown = tab.shown BY <1>3, <2>3 DEF Tabs
    <3> QED BY <1>1, <2>1, <2>3, <3>1 DEF NothingMissed, Meets
  <2>4. CASE tab' = tab /\ look' = [at |-> "answered", tab |-> tab] /\ news' = news
    BY <1>1, <2>1, <2>4 DEF NothingMissed, Meets
  <2> QED BY <1>4, <2>1, <2>2, <2>3, <2>4
<1>7. HungInv' BY <1>1, LivelyStays DEF HoldInv, HoldTypes
<1> QED BY <1>1, <1>2, <1>5, <1>6, <1>7 DEF HoldInv, ReadyInv, WaitInv

\* The hold leaves its watch, or is over.
LEMMA LeavesStep ==
  ASSUME HoldInv, UNCHANGED <<vars, kind, tab>>, HoldTypes', hold'.at \notin Timed,
         hold'.until = hold.until, hold'.due = hold.due
  PROVE  HoldInv'
<1>1. NetInv' BY NetStep DEF HoldInv
<1>2. now' = now BY DEF vars
<1> QED BY <1>1, <1>2 DEF HoldInv, ReadyInv, WaitInv, HungInv, MissInv, Watching, Timed

LEMMA OverFacts ==
  ASSUME hold \in Holding, NEW why \in {"over", "found", "closed", "timeout", "failed", "send"}
  PROVE  LET g == [hold EXCEPT !.at = why, !.wake = 0] IN
         g \in Holding /\ g.at = why /\ g.until = hold.until /\ g.due = hold.due /\ g.began = hold.began
  BY DEF Holding

\* An event or the first look settles the wait or leaves it watching.
LEMMA HearStep == ASSUME HoldInv, HearNews \/ HearLook \/ WaitExpires PROVE HoldInv'
<1>1. Watching /\ hold \in Holding /\ UNCHANGED <<vars, kind, tab>> BY DEF HearNews, HearLook, WaitExpires, HoldInv, HoldTypes
<1>2. kind \in {"url", "page"} BY <1>1 DEF HoldInv, HoldTypes, Watching
<1>3. now' = now /\ kind' = kind /\ tab' = tab BY <1>1 DEF vars
<1>4. tab \in Tabs /\ news \in Seq(Tabs) /\ look \in [at : {"none", "asked", "answered"}, tab : Tabs]
  BY DEF HoldInv, HoldTypes
<1>5. <<>> \in Seq(Tabs) /\ NoLook \in [at : {"none", "asked", "answered"}, tab : Tabs] BY <1>4 DEF NoLook
<1>6. ASSUME NEW g, Settle(g), g \in {Over("closed"), Over("timeout"), Met} PROVE HoldInv'
  <2>1. PICK why \in {"found", "closed", "timeout", "send"} :
           hold' = [hold EXCEPT !.at = why, !.wake = 0] /\ (why = "send" => kind = "page")
    BY <1>2, <1>6 DEF Settle, Over, Met
  <2>2. /\ hold' \in Holding /\ hold'.at = why /\ hold'.until = hold.until /\ hold'.due = hold.due
        /\ hold'.began = hold.began
    BY <1>1, <2>1, OverFacts
  <2>3. HoldTypes' BY <1>2, <1>3, <1>4, <1>5, <1>6, <2>1, <2>2 DEF HoldInv, HoldTypes, Settle
  <2> QED BY <1>1, <2>2, <2>3, LeavesStep DEF Timed
<1>7. CASE /\ HearNews /\ Head(news).open /\ ~Meets(Head(news))
           /\ news' = Tail(news) /\ UNCHANGED <<hold, listening, look>>
  <2>1. news # <<>> BY <1>7 DEF HearNews
  <2>2. /\ Tail(news) \in Seq(Tabs) /\ Len(Tail(news)) = Len(news) - 1
        /\ \A i \in DOMAIN news : i # 1 => i - 1 \in DOMAIN Tail(news) /\ Tail(news)[i - 1] = news[i]
    BY <1>4, <2>1
  <2>3. HoldTypes' BY <1>3, <1>7, <2>2 DEF HoldInv, HoldTypes
  <2>4. NothingMissed'
    <3>1. NothingMissed BY <1>1 DEF HoldInv, MissInv
    <3>2. \A i \in DOMAIN news : Meets(news[i]) \/ ~news[i].open => i # 1 BY <1>4, <1>7, <2>1
    <3> QED BY <1>3, <1>7, <2>2, <3>1, <3>2 DEF NothingMissed, Meets, Watching
  <2>5. MissInv' BY <1>1, <1>7, <2>4 DEF HoldInv, MissInv
  <2>6. NetInv' BY <1>1, NetStep DEF HoldInv
  <2>7. HungInv' BY <1>1, <1>7, LivelyStays DEF HoldInv
  <2> QED BY <1>3, <1>7, <2>3, <2>5, <2>6, <2>7 DEF HoldInv, ReadyInv, WaitInv
<1>8. CASE /\ HearLook /\ look.tab.open /\ ~Meets(look.tab)
           /\ look' = NoLook /\ listening' = TRUE /\ UNCHANGED <<hold, news>>
  <2>1. HoldTypes' BY <1>3, <1>5, <1>8 DEF HoldInv, HoldTypes
  <2>2. NothingMissed'
    <3>1. NothingMissed /\ look.at = "answered" BY <1>1, <1>8 DEF HoldInv, MissInv, HearLook
    <3> QED BY <1>3, <1>8, <3>1 DEF NothingMissed, Meets, Watching
  <2>3. MissInv' BY <1>8, <2>2 DEF MissInv
  <2>4. NetInv' BY <1>1, NetStep DEF HoldInv
  <2>5. HungInv' BY <1>1, <1>8, LivelyStays DEF HoldInv
  <2> QED BY <1>3, <1>8, <2>1, <2>3, <2>4, <2>5 DEF HoldInv, ReadyInv, WaitInv
<1> QED BY <1>6, <1>7, <1>8 DEF HearNews, HearLook, WaitExpires, Hear

\* The wait talks to the content script.
LEMMA PageStep == ASSUME HoldInv, Send \/ SendMisses \/ Resend \/ PageAnswers \/ RenderEnds PROVE HoldInv'
<1>1. /\ UNCHANGED <<vars, kind, watching>> /\ hold \in Holding /\ now \in Nat
      /\ hold.at \in {"send", "delay", "page", "render"}
  BY DEF Send, SendMisses, Resend, PageAnswers, RenderEnds, HoldInv, HoldTypes, NetInv, NetTypes
<1>2. IF hold.at = "render" THEN kind = "ready" ELSE kind = "page" BY <1>1 DEF HoldInv, HoldTypes
<1>3. now' = now /\ kind' = kind /\ UNCHANGED <<tab, navs, listening, look, news>> BY <1>1 DEF vars, watching
<1>4. ASSUME NEW why \in {"over", "found", "closed", "timeout", "failed", "send"}, hold' = [hold EXCEPT !.at = why, !.wake = 0],
             IF kind = "ready" THEN why = "over" ELSE why # "over"
      PROVE  HoldInv'
  <2>1. /\ hold' \in Holding /\ hold'.at = why /\ hold'.until = hold.until /\ hold'.due = hold.due
        /\ hold'.began = hold.began
    BY <1>1, <1>4, OverFacts
  <2>2. HoldTypes' BY <1>2, <1>3, <1>4, <2>1 DEF HoldInv, HoldTypes
  <2> QED BY <1>1, <1>3, <2>1, <2>2, LeavesStep DEF Timed
<1> DEFINE left == PageLeft
<1>5. left \in Nat /\ (left = 0 \/ now + left + Margin = hold.until) /\ hold.until \in Nat
  BY <1>1, LeftFacts DEF PageLeft, Holding
<1> HIDE DEF left
<1>6. CASE Send
  <2>1. hold' = [hold EXCEPT !.at = "page", !.wake = now + left] /\ now + left \in Nat /\ hold.at = "send"
    BY <1>1, <1>5, <1>6 DEF Send, left
  <2>2. /\ hold' \in Holding /\ hold'.at = "page" /\ hold'.until = hold.until /\ hold'.due = hold.due
        /\ hold'.began = hold.began
    BY <1>1, <2>1 DEF Holding
  <2>3. HoldTypes' BY <1>2, <1>3, <2>1, <2>2 DEF HoldInv, HoldTypes
  <2> QED BY <1>1, <1>3, <2>2, <2>3, LeavesStep DEF Timed
<1>7. CASE hold.at = "send" /\ left # 0 /\ hold' = [hold EXCEPT !.at = "delay", !.wake = now + Least(Poll, left)]
  <2> DEFINE step == Least(Poll, left)
  <2>1. step \in Nat /\ step <= left BY <1>5, LeastFacts
  <2> HIDE DEF step
  <2>2. hold' = [hold EXCEPT !.at = "delay", !.wake = now + step] BY <1>7 DEF step
  <2>3. /\ hold' \in Holding /\ hold'.at = "delay" /\ hold'.until = hold.until /\ hold'.due = hold.due
        /\ hold'.began = hold.began /\ hold'.wake = now + step
    <3>1. now + step \in Nat BY <1>1, <2>1
    <3> QED BY <1>1, <2>2, <3>1 DEF Holding, Timed
  <2>4. kind = "page" BY <1>2, <1>7
  <2>5. HoldTypes' BY <1>3, <2>3, <2>4 DEF HoldInv, HoldTypes
  <2>6. hold.until <= hold.due /\ hold.due \in Nat BY <1>1, <2>4 DEF HoldInv, WaitInv, Holding
  <2>7. hold'.wake + Margin <= hold'.due /\ now' <= hold'.wake BY <1>1, <1>3, <1>5, <1>7, <2>1, <2>3, <2>6
  <2>8. NetInv' BY <1>1, NetStep DEF HoldInv
  <2> QED BY <1>3, <2>3, <2>4, <2>5, <2>6, <2>7, <2>8 DEF HoldInv, ReadyInv, WaitInv, HungInv, MissInv, Watching
<1>8. CASE SendMisses
  <2>1. hold.at = "send" /\ kind = "page" BY <1>2, <1>8 DEF SendMisses
  <2>2. \/ \E why \in {"closed", "timeout"} : hold' = [hold EXCEPT !.at = why, !.wake = 0]
        \/ left # 0 /\ hold' = [hold EXCEPT !.at = "delay", !.wake = now + Least(Poll, left)]
    BY <1>8 DEF SendMisses, Over, left
  <2> QED BY <1>4, <1>7, <2>1, <2>2
<1>9. CASE Resend BY <1>2, <1>4, <1>9 DEF Resend
<1>10. CASE PageAnswers \/ RenderEnds
  <2>1. \/ kind = "page" /\ \E why \in {"found", "timeout", "failed"} : hold' = [hold EXCEPT !.at = why, !.wake = 0]
        \/ kind = "ready" /\ hold' = [hold EXCEPT !.at = "over", !.wake = 0]
    BY <1>2, <1>10 DEF PageAnswers, RenderEnds, Over
  <2> QED BY <1>4, <2>1
<1> QED BY <1>6, <1>8, <1>9, <1>10

\* The clock ticks, or the network moves.
LEMMA ElapseStep == ASSUME HoldInv, Elapse \/ NetworkSteps \/ UNCHANGED allVars PROVE HoldInv'
<1>1. [Next]_vars /\ UNCHANGED holdVars BY DEF Elapse, NetworkSteps, Next, allVars
<1>2. UNCHANGED <<kind, hold, tab, navs, listening, look, news>> BY <1>1 DEF holdVars, watching
<1>3. NetInv' BY <1>1, NetStep DEF HoldInv
<1>4. HungInv' BY <1>1, <1>2, LivelyStays DEF HoldInv, HoldTypes
<1>5. now \in Nat /\ hold \in Holding BY DEF HoldInv, HoldTypes, NetInv, NetTypes
<1>6. now' >= now /\ now' \in Nat BY <1>1, <1>3, NetGrows DEF HoldInv, NetInv, NetTypes
<1>7. hold.at \in Timed => now' <= hold.wake
  <2>1. CASE Elapse BY <1>5, <2>1 DEF Elapse, Tick, Holding
  <2>2. CASE NetworkSteps BY <2>2 DEF NetworkSteps, Clear, Begin, Redirect, Complete, Fail, HoldInv
  <2>3. CASE UNCHANGED allVars BY <2>3 DEF allVars, vars, HoldInv
  <2> QED BY <2>1, <2>2, <2>3
<1>8. hold.began <= now'
  <2>1. hold.began \in Nat BY <1>5 DEF Holding
  <2>2. hold.began <= now BY DEF HoldInv, HoldTypes
  <2> QED BY <1>5, <1>6, <2>1, <2>2
<1>9. HoldTypes' BY <1>2, <1>8 DEF HoldInv, HoldTypes
<1>10. MissInv' BY <1>2 DEF HoldInv, MissInv, NothingMissed, Watching, Meets
<1> QED BY <1>2, <1>3, <1>4, <1>7, <1>9, <1>10 DEF HoldInv, ReadyInv, WaitInv

----------------------------------------------------------------------------
(* Theorems *)

LEMMA HoldStep == ASSUME HoldInv, [HoldNext]_allVars PROVE HoldInv'
  BY ElapseStep, TabStep, StartReadyStep, LookStep, StartWaitStep, HearStep, PageStep DEF HoldNext, TabSteps

LEMMA HoldAlways == HoldSpec => []HoldInv
<1>1. HoldInv /\ [HoldNext]_allVars => HoldInv' BY HoldStep
<1> QED BY HoldInitInv, <1>1, PTL DEF HoldSpec

\* The tracker by itself: a tab with a recent hop in flight is not taken for idle, whatever
\* shares the ring, unless the ring dropped the hop (network.ts, onStarted and tabStatus).
THEOREM NetworkIdleSound == Spec => []IdleSound
<1>1. NetInv /\ [Next]_vars => NetInv' BY NetStep
<1> QED BY NetInit, NetIdle, <1>1, PTL DEF Spec

\* The same while a command holds for the tab.
THEOREM HoldsIdleSound == HoldSpec => []IdleSound
<1>1. HoldInv => NetInv BY DEF HoldInv
<1> QED BY HoldAlways, NetIdle, <1>1, PTL

\* A hung request does not hold the readiness check past the stall threshold and one poll:
\* phase 1 goes on only while the tab starts requests (awaitCriticalIdle of readiness.ts).
THEOREM HoldsHungGivenUp == HoldSpec => []HungGivenUp
<1>1. HoldInv => HungGivenUp
  <2> SUFFICES ASSUME HoldInv, hold.at = "critical"
               PROVE  \E r \in Mine : hops[r] > 0 /\ now <= begun[r] + Stall + Poll
    BY DEF HungGivenUp
  <2>1. PICK r \in Mine : hops[r] > 0 /\ hold.wake <= begun[r] + Stall + Poll
    BY DEF HoldInv, HungInv, Lively
  <2>2. now <= hold.wake BY DEF HoldInv, Timed
  <2>3. now \in Nat /\ begun[r] \in Nat /\ hold.wake \in Nat
    BY DEF HoldInv, NetInv, NetTypes, HoldTypes, Holding
  <2> QED BY <2>1, <2>2, <2>3
<1> QED BY HoldAlways, <1>1, PTL

\* Every hold leaves the command its reserve, or its margin, of the budget, or holds
\* nothing (budgetLeft of readiness.ts, waitLimit of handlers/wait.ts).
THEOREM HoldsInTime == HoldSpec => []InTime
<1>1. HoldInv => InTime
  <2> SUFFICES ASSUME HoldInv, hold.at \in Timed
               PROVE  now + (IF kind = "ready" THEN Reserve ELSE Margin) <= hold.due \/ now = hold.began
    BY DEF InTime
  <2>1. /\ now \in Nat /\ hold.wake \in Nat /\ hold.until \in Nat /\ hold.due \in Nat /\ hold.began \in Nat
        /\ hold.began <= now /\ now <= hold.wake
    BY DEF HoldInv, NetInv, NetTypes, HoldTypes, Holding
  <2>2. CASE kind = "ready" BY <2>1, <2>2 DEF HoldInv, ReadyInv
  <2>3. CASE kind # "ready" BY <2>1, <2>3 DEF HoldInv, WaitInv
  <2> QED BY <2>2, <2>3
<1> QED BY HoldAlways, <1>1, PTL

\* A wait that goes on has missed nothing: the listeners go up before the first look
\* (waitForUrl and awaitTabComplete of handlers/wait.ts).
THEOREM HoldsNothingMissed == HoldSpec => []NothingMissed
<1>1. HoldInv => NothingMissed BY DEF HoldInv, MissInv, NothingMissed
<1> QED BY HoldAlways, <1>1, PTL
=============================================================================
