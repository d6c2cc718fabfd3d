----------------------------- MODULE HarProofs ------------------------------
(***************************************************************************)
(* What HarRecorder guarantees for any requests, caps, budgets and numbers *)
(* of recordings, and HarLog for any recording, limit and counter.         *)
(*                                                                         *)
(* KeptSound is inductive once it is added that recordings are numbered in *)
(* the order they start and that only those that stopped have been built.  *)
(* FiltersReleased and HopsHonest hold of every hop by itself: a step of a *)
(* recording touches the hop of its event, and stop all hops of its own.   *)
(* BudgetExact counts the bytes a recording stored, each as a pair of its  *)
(* hop and its number: opening a hop and storing a chunk add as many pairs *)
(* as they take from the budget, and every other step adds none.           *)
(*                                                                         *)
(* FitSound follows from what the loop of fitLog keeps: the largest        *)
(* candidates are stripped, and the estimate is never above the size.      *)
(***************************************************************************)
EXTENDS HarRecorder, HarLog, TLAPS, FiniteSetTheorems, WellFoundedInduction

USE HarAssumption

----------------------------------------------------------------------------
(* The kept HAR *)

\* Recordings in the order they started; what was built is one that stopped.
Numbered ==
  /\ made \in 0 .. MaxRecs /\ recording \in {0, made} /\ kept \in 0 .. made
  /\ built \subseteq 1 .. made /\ recording \notin built
  /\ listening => recording # 0

KeptInv == Numbered /\ KeptSound

LEMMA Bounds == MaxRecs \in Nat /\ Cap \in Nat /\ Budget \in Nat
  OBVIOUS

LEMMA KeptInit == Init => KeptInv
  BY Bounds DEF Init, KeptInv, Numbered, KeptSound

\* What Forget leaves of the timers when no other HAR is kept than the one it cancels.
LEMMA ForgetFacts ==
  ASSUME KeptInv, Forget
  PROVE  armed' = {} /\ expiry' = 0
  BY DEF KeptInv, Numbered, KeptSound, Forget

LEMMA StartHarStep == ASSUME KeptInv, StartHar PROVE KeptInv'
<1>1. armed' = {} /\ expiry' = 0 BY ForgetFacts DEF StartHar, Start
<1>2. /\ made' = made + 1 /\ recording' = made + 1 /\ kept' = 0 /\ built' = built
      /\ made < MaxRecs
  BY DEF StartHar, Start
<1>3. Numbered' BY <1>2, Bounds DEF KeptInv, Numbered
<1>4. KeptSound' BY <1>1, <1>2 DEF KeptInv, Numbered, KeptSound
<1> QED BY <1>3, <1>4 DEF KeptInv

LEMMA StopHarStep == ASSUME KeptInv, StopHar PROVE KeptInv'
<1>1. armed' = {} /\ expiry' = 0 BY ForgetFacts DEF StopHar
<1>2. /\ made' = made /\ recording' = 0 /\ kept' = recording /\ built' = built /\ recording # 0
      /\ ~listening'
  BY DEF StopHar, Stop, Unlisten
<1>3. Numbered' BY <1>2 DEF KeptInv, Numbered
<1>4. KeptSound' BY <1>1, <1>2 DEF KeptInv, Numbered, KeptSound
<1> QED BY <1>3, <1>4 DEF KeptInv

LEMMA BuildStep == ASSUME KeptInv, NEW r \in Recs, Build(r) PROVE KeptInv'
<1>1. /\ r \in 1 .. made /\ r \notin built /\ r # recording
      /\ built' = built \cup {r} /\ UNCHANGED <<made, recording, kept, listening>>
  BY DEF Build
<1>2. Numbered' BY <1>1 DEF KeptInv, Numbered
<1>3. KeptSound'
  <2>1. CASE kept = r
    <3>1. armed = {} BY <1>1, <2>1 DEF KeptInv, KeptSound
    <3>2. armed' = {r} /\ expiry' = r BY <2>1, <3>1 DEF Build, Arm
    <3> QED BY <1>1, <2>1, <3>2 DEF KeptInv, KeptSound
  <2>2. CASE kept # r
    <3>1. UNCHANGED <<armed, expiry>> BY <2>2 DEF Build, Arm
    <3> QED BY <1>1, <2>2, <3>1 DEF KeptInv, KeptSound
  <2> QED BY <2>1, <2>2
<1> QED BY <1>2, <1>3 DEF KeptInv

LEMMA ExpireStep == ASSUME KeptInv, NEW r \in Recs, Expire(r) PROVE KeptInv'
<1>1. /\ r \in armed /\ armed' = armed \ {r, expiry} /\ expiry' = 0 /\ kept' = 0
      /\ UNCHANGED <<made, recording, built, listening>>
  BY DEF Expire
<1>2. armed = {r} BY <1>1 DEF KeptInv, KeptSound
<1> QED BY <1>1, <1>2 DEF KeptInv, Numbered, KeptSound

LEMMA KeptStep == ASSUME KeptInv, [Next]_vars PROVE KeptInv'
<1> DEFINE quiet == <<made, recording, kept, built, armed, expiry>>
<1>1. ASSUME UNCHANGED quiet, listening' => listening PROVE KeptInv'
  BY <1>1 DEF KeptInv, Numbered, KeptSound
<1>2. CASE StartHar BY <1>2, StartHarStep
<1>3. CASE StopHar BY <1>3, StopHarStep
<1>4. CASE \E r \in Recs : Build(r) BY <1>4, BuildStep
<1>5. CASE \E r \in Recs : Expire(r) BY <1>5, ExpireStep
<1>6. CASE TabRemoved BY <1>6, <1>1 DEF TabRemoved, keeper, Unlisten
<1>7. CASE \E q \in Requests : \/ \E p \in Posts : BeforeRequest(q, p)
                               \/ \E tls \in BOOLEAN : HeadersReceived(q, tls)
  BY <1>7, <1>1 DEF BeforeRequest, HeadersReceived, keeper
<1>8. CASE \E q \in Requests : Redirect(q) \/ Completed(q) \/ Failed(q)
  BY <1>8, <1>1 DEF Redirect, Completed, Failed, EndHop, keeper
<1>9. CASE \E h \in HopIds : SecurityInfo(h)
  BY <1>9, <1>1 DEF SecurityInfo, keeper
<1>11. ASSUME \E h \in HopIds : \/ FilterStart(h) \/ FilterFinish(h) \/ \E n \in Chunks : FilterData(h, n)
                                \/ FilterStop(h) \/ FilterError(h)
       PROVE  Unrecorded
  <2>1. CASE \E h \in HopIds : FilterStart(h) \/ FilterFinish(h)
    BY <2>1 DEF FilterStart, FilterFinish
  <2>2. CASE \E h \in HopIds : \E n \in Chunks : FilterData(h, n) BY <2>2 DEF FilterData
  <2>3. CASE \E h \in HopIds : FilterStop(h) \/ FilterError(h) BY <2>3 DEF FilterStop, FilterError
  <2> QED BY <1>11, <2>1, <2>2, <2>3
<1>12. Unrecorded => KeptInv' BY <1>1 DEF Unrecorded, keeper
<1>10. CASE UNCHANGED vars BY <1>10, <1>1 DEF vars, keeper
<1> QED BY <1>2, <1>3, <1>4, <1>5, <1>6, <1>7, <1>8, <1>9, <1>10, <1>11, <1>12 DEF Next

LEMMA KeptInvariant == Spec => []KeptInv
  BY KeptInit, KeptStep, PTL DEF Spec

\* A kept HAR is the tab's newest and its expiry is the only one armed, however
\* recordings, builds and expiries of a tab overlap.
THEOREM HarKeptSound == Spec => []KeptSound
<1>1. KeptInv => KeptSound BY DEF KeptInv
<1> QED BY <1>1, KeptInvariant, PTL

----------------------------------------------------------------------------
(* Hops and their filters *)

BodyStates == {"none", "kept", "dropped"}
Results    == {"complete", "truncated", "error"}
Statuses   == {"none", "uninitialized", "released", "transferring", "finished", "closed",
               "disconnected", "failed"}
Feeding    == {"uninitialized", "transferring", "finished"}

Hops == [rec : 0 .. MaxRecs, end : {"none", "redirect", "completed", "error"}, secure : BOOLEAN,
         size : Nat, post : Nat, postLost : {"no", "cut", "dropped"}, body : BodyStates,
         stored : Nat, seen : Nat, result : SUBSET Results, pending : BOOLEAN]

Typed ==
  /\ budget \in [Recs -> Nat] /\ hops \in [HopIds -> Hops] /\ filter \in [HopIds -> Statuses]

\* A filter that feeds the recording has stored all it saw and has not said what
\* became of the body; a hop no recording has seen has none.
HopOK(d, status) ==
  /\ HonestHop(d)
  /\ status \in Feeding => d.body = "kept" /\ d.result \cap {"truncated", "complete"} = {}
  /\ d.rec = 0 => status = "none"
  /\ status \in Feeding => d.rec = recording

HopsInv == Typed /\ \A h \in HopIds : HopOK(hops[h], filter[h])

LEMMA HopsInit == Init => HopsInv
<1> SUFFICES ASSUME Init PROVE HopsInv OBVIOUS
<1>1. NoHop \in Hops BY Bounds DEF NoHop, Hops, BodyStates, Results
<1>2. Typed BY <1>1, Bounds DEF Init, Typed, Statuses
<1>3. HopOK(NoHop, "none") BY Bounds DEF HopOK, HonestHop, NoHop, Feeding
<1> QED BY <1>2, <1>3 DEF Init, HopsInv

\* A step that moves one hop and its filter.
LEMMA OneHop ==
  ASSUME HopsInv, NEW h \in HopIds, NEW d \in Hops, NEW status \in Statuses,
         hops' = [hops EXCEPT ![h] = d], filter' = [filter EXCEPT ![h] = status],
         budget' \in [Recs -> Nat], recording' = recording, HopOK(d, status)
  PROVE  HopsInv'
<1>1. Typed' BY DEF HopsInv, Typed
<1>2. ASSUME NEW g \in HopIds PROVE HopOK(hops[g], filter[g])'
  <2>1. CASE g = h
    <3>1. hops'[g] = d /\ filter'[g] = status BY <2>1 DEF HopsInv, Typed
    <3> QED BY <3>1 DEF HopOK
  <2>2. CASE g # h
    <3>1. hops'[g] = hops[g] /\ filter'[g] = filter[g] BY <2>2 DEF HopsInv, Typed
    <3> QED BY <3>1 DEF HopOK, HopsInv
  <2> QED BY <2>1, <2>2
<1> QED BY <1>1, <1>2 DEF HopsInv

\* The parts of a hop and what they are.
LEMMA HopFacts ==
  ASSUME HopsInv, NEW h \in HopIds
  PROVE  hops[h] \in Hops /\ filter[h] \in Statuses /\ HopOK(hops[h], filter[h])
  BY DEF HopsInv, Typed

\* Fields that no honesty is about.
LEMMA EndFacts ==
  ASSUME HopsInv, NEW h \in HopIds, NEW e \in {"none", "redirect", "completed", "error"},
         NEW b \in BOOLEAN
  PROVE  LET d == hops[h] IN
         /\ [d EXCEPT !.end = e] \in Hops /\ HopOK([d EXCEPT !.end = e], filter[h])
         /\ [d EXCEPT !.secure = b] \in Hops /\ HopOK([d EXCEPT !.secure = b], filter[h])
         /\ [d EXCEPT !.pending = b] \in Hops
         /\ HonestHop([d EXCEPT !.pending = b])
         /\ [d EXCEPT !.pending = b].rec = d.rec
<1>1. hops[h] \in Hops /\ HopOK(hops[h], filter[h]) BY HopFacts
<1> QED BY <1>1 DEF Hops, HopOK, HonestHop

\* A set of numbers up to a bound has a greatest.
LEMMA MaxFacts ==
  ASSUME NEW b \in Nat, NEW S \in SUBSET (0 .. b), S # {}
  PROVE  Max(S) \in S
<1> DEFINE above == {u \in Nat : \A x \in S : x <= u}
<1>1. above # {} /\ above \subseteq Nat
  <2>1. b \in above OBVIOUS
  <2> QED BY <2>1
<1> HIDE DEF above
<1>2. \E u \in above : \A v \in above : ~(<<v, u>> \in OpToRel(<, Nat))
  BY <1>1, WFMin, NatLessThanWellFounded, Zenon
<1>3. PICK u \in above : \A v \in above : ~(<<v, u>> \in OpToRel(<, Nat)) BY <1>2
<1>5. u \in Nat /\ \A x \in S : x <= u BY DEF above
<1>4. u \in S
  <2> SUFFICES ASSUME u \notin S PROVE FALSE OBVIOUS
  <2>1. \A x \in S : x \in Nat /\ x < u BY <1>5
  <2>2. u - 1 \in Nat /\ \A x \in S : x <= u - 1
    <3>1. PICK x \in S : TRUE OBVIOUS
    <3>2. x \in Nat /\ x < u BY <2>1
    <3>3. u - 1 \in Nat BY <3>2, <1>5
    <3> QED BY <2>1, <3>3, <1>5
  <2>3. u - 1 \in above BY <2>2 DEF above
  <2>4. <<u - 1, u>> \in OpToRel(<, Nat) BY <2>2, <1>5 DEF OpToRel
  <2> QED BY <1>3, <2>3, <2>4
<1>6. \A y \in S : u >= y BY <1>5
<1> QED BY <1>4, <1>6 DEF Max

\* What is stored of a request body.
LEMMA PostFacts ==
  ASSUME NEW p \in Posts, NEW left \in Nat
  PROVE  LET b == StoreBody(p, left) IN
         /\ p.size \in Nat /\ b.stored \in Nat /\ b.stored <= Cap /\ b.stored <= left
         /\ b.lost \in {"no", "cut", "dropped"}
         /\ (b.lost = "no") = (b.stored = p.size)
         /\ b.lost = "dropped" => b.stored = 0
<1>1. /\ p.size \in Nat /\ p.cuts \subseteq 0 .. p.size /\ 0 \in p.cuts
  OBVIOUS
<1> DEFINE fits == {n \in p.cuts : n <= Least(Cap, left)}
<1>2. fits \in SUBSET (0 .. p.size) /\ 0 \in fits BY <1>1, Bounds DEF Least
<1>3. Max(fits) \in fits BY <1>1, <1>2, MaxFacts
<1>4. KeptPost(p, left) \in 0 .. p.size /\ KeptPost(p, left) <= Least(Cap, left)
  BY <1>2, <1>3 DEF KeptPost
<1>5. KeptPost(p, left) <= Cap /\ KeptPost(p, left) <= left /\ KeptPost(p, left) \in Nat
  BY <1>4, <1>1, Bounds DEF Least
<1>6. CASE left = 0 /\ p.size > 0
  BY <1>6, <1>1, Bounds DEF StoreBody
<1>7. CASE ~(left = 0 /\ p.size > 0)
  BY <1>7, <1>1, <1>4, <1>5 DEF StoreBody
<1> QED BY <1>6, <1>7

----------------------------------------------------------------------------
(* Steps of the recorder and the browser *)

HarInv == KeptInv /\ HopsInv

\* A step that leaves hops, filters and the recording as they are.
LEMMA Same ==
  ASSUME HopsInv, UNCHANGED <<hops, filter, budget, recording>>
  PROVE  HopsInv'
  BY DEF HopsInv, Typed, HopOK

LEMMA StartHops == ASSUME HarInv, StartHar PROVE HopsInv'
<1>1. UNCHANGED <<hops, filter, budget>> /\ recording = 0 BY DEF StartHar
<1>2. Typed' BY <1>1 DEF HarInv, HopsInv, Typed
<1>3. ASSUME NEW h \in HopIds PROVE HopOK(hops[h], filter[h])'
  <2>1. HopOK(hops[h], filter[h]) BY DEF HarInv, HopsInv
  <2>2. filter[h] \notin Feeding BY <1>1, <2>1 DEF HopOK, Feeding
  <2> QED BY <1>1, <2>1, <2>2 DEF HopOK
<1> QED BY <1>2, <1>3 DEF HopsInv

\* stop lets every filter of its recording go.
LEMMA StopHops == ASSUME HarInv, StopHar PROVE HopsInv'
<1> DEFINE mine == {h \in HopIds : hops[h].rec = recording}
<1>1. /\ recording # 0 /\ recording' = 0 /\ budget' = budget
      /\ filter' = [h \in HopIds |-> IF h \in mine THEN Released(filter[h]) ELSE filter[h]]
      /\ hops' = [h \in HopIds |-> IF h \in mine THEN Finish(hops[h]) ELSE hops[h]]
  BY DEF StopHar, Stop
<1>2. \A h \in HopIds : hops[h] \in Hops /\ filter[h] \in Statuses /\ HopOK(hops[h], filter[h])
  BY HopFacts DEF HarInv
<1>3. \A x \in Statuses : Released(x) \in Statuses \ Feeding BY DEF Released, Statuses, Feeding
<1>4. ASSUME NEW h \in HopIds
      PROVE  /\ Finish(hops[h]) \in Hops /\ HonestHop(Finish(hops[h]))
             /\ Finish(hops[h]).rec = hops[h].rec
  BY EndFacts DEF HarInv, Finish
<1>5. ASSUME NEW h \in HopIds
      PROVE  hops'[h] \in Hops /\ filter'[h] \in Statuses /\ HopOK(hops[h], filter[h])'
  <2>1. CASE h \in mine
    <3>1. hops'[h] = Finish(hops[h]) /\ filter'[h] = Released(filter[h]) BY <1>1, <2>1
    <3>2. filter'[h] \in Statuses \ Feeding BY <1>2, <1>3, <3>1
    <3> QED BY <1>1, <1>4, <2>1, <3>1, <3>2 DEF HopOK
  <2>2. CASE h \notin mine
    <3>1. hops'[h] = hops[h] /\ filter'[h] = filter[h] BY <1>1, <2>2
    <3>2. filter[h] \notin Feeding BY <1>2, <2>2 DEF HopOK
    <3> QED BY <1>2, <3>1, <3>2 DEF HopOK
  <2> QED BY <2>1, <2>2
<1>6. Typed' BY <1>1, <1>5 DEF Typed, HarInv, HopsInv
<1> QED BY <1>5, <1>6 DEF HopsInv

\* A hop is born honest, and its filter feeds the recording that is on.
LEMMA OpenHopStep ==
  ASSUME HarInv, NEW h \in HopIds, NEW p \in Posts, listening, OpenHop(h, p), UNCHANGED recording
  PROVE  HopsInv'
<1>1. recording \in Recs /\ recording \in 1 .. MaxRecs
  BY Bounds DEF HarInv, KeptInv, Numbered, Recs
<1> DEFINE body == IF Cap = 0 THEN [stored |-> 0, lost |-> "no"] ELSE StoreBody(p, budget[recording])
           left == budget[recording] - body.stored
           sent == IF Cap = 0 THEN 0 ELSE p.size
<1>2. budget[recording] \in Nat BY <1>1 DEF HarInv, HopsInv, Typed
<1>3. /\ sent \in Nat /\ body.stored \in Nat /\ body.stored <= Cap /\ left \in Nat
      /\ body.lost \in {"no", "cut", "dropped"}
      /\ (body.lost = "no") = (body.stored = sent)
      /\ body.lost = "dropped" => body.stored = 0
  <2>1. CASE Cap = 0 BY <2>1, <1>2
  <2>2. CASE Cap # 0 BY <2>2, <1>2, PostFacts
  <2> QED BY <2>1, <2>2
<1>4. PICK c \in Captures(left) :
        /\ hops' = [hops EXCEPT ![h] = [NoHop EXCEPT !.rec = recording, !.size = sent,
                       !.post = body.stored, !.postLost = body.lost, !.body = c.body,
                       !.result = c.result]]
        /\ filter' = [filter EXCEPT ![h] = c.status]
        /\ budget' = [budget EXCEPT ![recording] = left]
  BY DEF OpenHop
<1>5. /\ c.body \in BodyStates /\ c.result \in SUBSET Results /\ c.status \in {"none", "uninitialized"}
      /\ c.status = "uninitialized" => c.body = "kept" /\ c.result = {}
      /\ c.result \cap {"truncated", "complete"} = {}
  BY <1>4 DEF Captures, BodyStates, Results
<1> DEFINE d == [NoHop EXCEPT !.rec = recording, !.size = sent, !.post = body.stored,
                   !.postLost = body.lost, !.body = c.body, !.result = c.result]
<1>6. /\ d.rec = recording /\ d.size = sent /\ d.post = body.stored /\ d.postLost = body.lost
      /\ d.body = c.body /\ d.result = c.result /\ d.stored = 0 /\ d.seen = 0
      /\ d.end = "none" /\ d.secure = FALSE /\ d.pending = FALSE
  BY DEF NoHop
<1>7. d \in Hops
  <2> HIDE DEF body, sent, left
  <2>1. NoHop \in Hops /\ recording \in 0 .. MaxRecs BY <1>1, Bounds DEF NoHop, Hops, BodyStates, Results
  <2> DEFINE d1 == [NoHop EXCEPT !.rec = recording]
             d2 == [d1 EXCEPT !.size = sent]
             d3 == [d2 EXCEPT !.post = body.stored]
             d4 == [d3 EXCEPT !.postLost = body.lost]
             d5 == [d4 EXCEPT !.body = c.body]
  <2>2. d1 \in Hops BY <2>1 DEF Hops
  <2> HIDE DEF d1
  <2>3. d2 \in Hops BY <2>2, <1>3 DEF Hops
  <2> HIDE DEF d2
  <2>4. d3 \in Hops BY <2>3, <1>3 DEF Hops
  <2> HIDE DEF d3
  <2>5. d4 \in Hops BY <2>4, <1>3 DEF Hops
  <2> HIDE DEF d4
  <2>6. d5 \in Hops BY <2>5, <1>5 DEF Hops
  <2> HIDE DEF d5
  <2>7. [d5 EXCEPT !.result = c.result] \in Hops BY <2>6, <1>5 DEF Hops
  <2> QED BY <2>7 DEF d1, d2, d3, d4, d5
<1>8. HopOK(d, c.status)
  <2> HIDE DEF body, sent, left, d
  <2>1. HonestHop(d) BY <1>3, <1>5, <1>6, Bounds DEF HonestHop
  <2> QED BY <1>1, <1>5, <1>6, <2>1 DEF HopOK, Feeding
<1>9. budget' \in [Recs -> Nat] /\ c.status \in Statuses
  BY <1>3, <1>4, <1>5 DEF HarInv, HopsInv, Typed, Statuses
<1> HIDE DEF d, body, sent, left
<1>10. hops' = [hops EXCEPT ![h] = d] BY <1>4 DEF d, body, sent, left
<1> QED BY <1>4, <1>7, <1>8, <1>9, <1>10, OneHop DEF HarInv

\* Rewriting a hop that a step leaves alone.
LEMMA SameHop ==
  ASSUME HopsInv, NEW h \in HopIds
  PROVE  hops = [hops EXCEPT ![h] = hops[h]] /\ filter = [filter EXCEPT ![h] = filter[h]]
  BY DEF HopsInv, Typed

\* The events of a request.
LEMMA RequestSteps ==
  ASSUME HarInv, NEW q \in Requests,
         \/ \E p \in Posts : BeforeRequest(q, p)
         \/ \E tls \in BOOLEAN : HeadersReceived(q, tls)
         \/ Redirect(q) \/ Completed(q) \/ Failed(q)
  PROVE  HopsInv'
<1>1. CASE \E p \in Posts : BeforeRequest(q, p)
  <2>1. PICK p \in Posts : BeforeRequest(q, p) BY <1>1
  <2> DEFINE h == <<q, channel[q].hop + 1>>
  <2>2. h \in HopIds /\ UNCHANGED recording BY <2>1 DEF BeforeRequest
  <2>3. CASE listening
    <3>1. OpenHop(h, p) BY <2>1, <2>3 DEF BeforeRequest
    <3> QED BY <2>2, <2>3, <3>1, OpenHopStep
  <2>4. CASE ~listening BY <2>1, <2>4, Same DEF BeforeRequest, HarInv
  <2> QED BY <2>3, <2>4
<1>2. CASE \E tls \in BOOLEAN : HeadersReceived(q, tls)
  BY <1>2, Same DEF HeadersReceived, HarInv
<1>3. ASSUME NEW from, NEW stage, NEW e \in {"redirect", "completed", "error"}, EndHop(q, from, stage, e)
      PROVE  HopsInv'
  <2> DEFINE h == <<q, channel[q].hop>>
  <2>1. UNCHANGED <<filter, budget, recording>> BY <1>3 DEF EndHop
  <2>2. CASE h \in HopIds /\ IsOpenHop(h)
    <3>1. hops' = [hops EXCEPT ![h].end = e] BY <1>3, <2>2 DEF EndHop
    <3>2. hops' = [hops EXCEPT ![h] = [hops[h] EXCEPT !.end = e]] BY <3>1
    <3>3. [hops[h] EXCEPT !.end = e] \in Hops /\ HopOK([hops[h] EXCEPT !.end = e], filter[h])
      BY <2>2, EndFacts DEF HarInv
    <3>4. filter' = [filter EXCEPT ![h] = filter[h]] BY <2>1, <2>2, SameHop DEF HarInv
    <3>5. filter[h] \in Statuses /\ budget' \in [Recs -> Nat]
      BY <2>1, <2>2 DEF HarInv, HopsInv, Typed
    <3> QED BY <2>1, <2>2, <3>2, <3>3, <3>4, <3>5, OneHop DEF HarInv
  <2>3. CASE ~(h \in HopIds /\ IsOpenHop(h))
    <3>1. UNCHANGED hops BY <1>3, <2>3 DEF EndHop
    <3> QED BY <2>1, <3>1, Same DEF HarInv
  <2> QED BY <2>2, <2>3
<1>4. CASE Redirect(q) \/ Completed(q) \/ Failed(q)
  BY <1>4, <1>3 DEF Redirect, Completed, Failed
<1> QED BY <1>1, <1>2, <1>4

LEMMA SecurityInfoStep == ASSUME HarInv, NEW h \in HopIds, SecurityInfo(h) PROVE HopsInv'
<1>1. UNCHANGED <<filter, budget, recording>> BY DEF SecurityInfo
<1>2. CASE Stopped(h) BY <1>1, <1>2, Same DEF SecurityInfo, Info, HarInv
<1>3. CASE ~Stopped(h)
  <2>1. hops' = [hops EXCEPT ![h] = [hops[h] EXCEPT !.secure = TRUE]]
    BY <1>3 DEF SecurityInfo, Info
  <2>2. [hops[h] EXCEPT !.secure = TRUE] \in Hops /\ HopOK([hops[h] EXCEPT !.secure = TRUE], filter[h])
    BY EndFacts DEF HarInv
  <2>3. filter' = [filter EXCEPT ![h] = filter[h]] BY <1>1, SameHop DEF HarInv
  <2>4. filter[h] \in Statuses /\ budget' \in [Recs -> Nat] BY <1>1 DEF HarInv, HopsInv, Typed
  <2> QED BY <1>1, <2>1, <2>2, <2>3, <2>4, OneHop DEF HarInv
<1> QED BY <1>2, <1>3

\* The events of a filter that store nothing.
LEMMA FilterSteps ==
  ASSUME HarInv, NEW h \in HopIds,
         FilterStart(h) \/ FilterFinish(h) \/ FilterStop(h) \/ FilterError(h)
  PROVE  HopsInv'
<1>1. UNCHANGED <<budget, recording>>
  BY DEF FilterStart, FilterFinish, FilterStop, FilterError, Unrecorded
<1>2. /\ hops[h] \in Hops /\ filter[h] \in Statuses /\ HopOK(hops[h], filter[h])
      /\ budget' \in [Recs -> Nat]
  BY <1>1, HopFacts DEF HarInv, HopsInv, Typed
<1>3. CASE FilterStart(h) \/ FilterFinish(h)
  <2>1. PICK status \in {"transferring", "finished", "disconnected"} :
          /\ filter' = [filter EXCEPT ![h] = status]
          /\ status \in Feeding => filter[h] \in Feeding
    BY <1>3 DEF FilterStart, FilterFinish, Feeding
  <2>2. hops' = [hops EXCEPT ![h] = hops[h]]
    BY <1>3, SameHop DEF FilterStart, FilterFinish, HarInv
  <2>3. filter[h] # "none" BY <1>3 DEF FilterStart, FilterFinish
  <2>4. HopOK(hops[h], status) BY <1>2, <2>1, <2>3 DEF HopOK
  <2>5. status \in Statuses BY DEF Statuses
  <2> QED BY <1>1, <1>2, <2>1, <2>2, <2>4, <2>5, OneHop DEF HarInv
<1>4. ASSUME NEW said \in {"complete", "error"}, NEW status \in {"closed", "failed"},
             filter' = [filter EXCEPT ![h] = status],
             hops' = IF Stopped(h) THEN hops ELSE [hops EXCEPT ![h].result = @ \cup {said}],
             filter[h] # "none", said = "complete" => filter[h] = "finished"
      PROVE  HopsInv'
  <2>1. status \in Statuses \ Feeding /\ status # "none" BY DEF Statuses, Feeding
  <2>2. CASE Stopped(h)
    <3>1. hops' = [hops EXCEPT ![h] = hops[h]] BY <1>4, <2>2, SameHop DEF HarInv
    <3>2. HopOK(hops[h], status) BY <1>2, <1>4, <2>1 DEF HopOK
    <3> QED BY <1>1, <1>2, <1>4, <2>1, <3>1, <3>2, OneHop DEF HarInv
  <2>3. CASE ~Stopped(h)
    <3> DEFINE d == [hops[h] EXCEPT !.result = @ \cup {said}]
    <3>1. hops' = [hops EXCEPT ![h] = d] BY <1>4, <2>3
    <3>2. d \in Hops BY <1>2 DEF Hops, Results
    <3>3. /\ d.stored = hops[h].stored /\ d.post = hops[h].post /\ d.size = hops[h].size
          /\ d.body = hops[h].body /\ d.seen = hops[h].seen /\ d.postLost = hops[h].postLost
          /\ d.rec = hops[h].rec /\ d.result = hops[h].result \cup {said}
      BY <1>2 DEF Hops
    <3>4. "truncated" \in d.result => "truncated" \in hops[h].result /\ said # "complete"
      BY <1>2, <1>4, <3>3 DEF HopOK, Feeding
    <3> HIDE DEF d
    <3>5. HonestHop(d) BY <1>2, <3>3, <3>4 DEF HopOK, HonestHop
    <3>6. HopOK(d, status) BY <1>2, <1>4, <2>1, <3>3, <3>5 DEF HopOK
    <3> QED BY <1>1, <1>2, <1>4, <2>1, <3>1, <3>2, <3>6, OneHop DEF HarInv
  <2> QED BY <2>2, <2>3
<1>5. CASE FilterStop(h) BY <1>4, <1>5 DEF FilterStop
<1>6. CASE FilterError(h) BY <1>4, <1>6 DEF FilterError
<1> QED BY <1>3, <1>5, <1>6

\* A chunk is stored as far as there is room; past it the body ends, truncated
\* or, when nothing of it was stored, dropped.
LEMMA FilterDataStep ==
  ASSUME HarInv, NEW h \in HopIds, NEW n \in Chunks, FilterData(h, n)
  PROVE  HopsInv'
<1> DEFINE e    == hops[h]
           take == Least(Room(h), n)
           all  == e.stored + take
           body == IF take < n /\ all = 0 THEN "dropped" ELSE e.body
           result == IF take < n /\ all > 0 THEN e.result \cup {"truncated"} ELSE e.result
           status == IF take < n THEN "disconnected" ELSE filter[h]
           d1 == [e EXCEPT !.seen = e.seen + n]
           d2 == [d1 EXCEPT !.stored = all]
           d3 == [d2 EXCEPT !.body = body]
           d  == [d3 EXCEPT !.result = result]
<1>1. /\ filter[h] = "transferring" /\ UNCHANGED recording
      /\ e \in Hops /\ HopOK(e, filter[h]) /\ budget \in [Recs -> Nat]
  BY HopFacts DEF FilterData, Unrecorded, HarInv, HopsInv, Typed
<1>2. /\ e.body = "kept" /\ e.result \cap {"truncated", "complete"} = {}
      /\ e.rec = recording /\ e.rec # 0 /\ e.rec \in Recs
      /\ e.stored \in Nat /\ e.seen \in Nat /\ e.stored <= Cap /\ e.stored = e.seen
      /\ e.result \in SUBSET Results /\ e.size \in Nat /\ e.post \in Nat
  BY <1>1, Bounds DEF HopOK, HonestHop, Hops, Feeding, Recs
<1>3. n \in Nat /\ n > 0 OBVIOUS
<1>4. budget[e.rec] \in Nat BY <1>1, <1>2
<1>5. /\ take \in Nat /\ take <= n /\ take <= budget[e.rec]
      /\ all \in Nat /\ all <= Cap
  BY <1>2, <1>3, <1>4, Bounds DEF Least, Room
<1>6. /\ budget' = [budget EXCEPT ![e.rec] = @ - take]
      /\ filter' = [filter EXCEPT ![h] = status]
      /\ hops' = [hops EXCEPT ![h].seen = @ + n, ![h].stored = all, ![h].body = IF take < n /\ all = 0 THEN "dropped" ELSE @,
                     ![h].result = IF take < n /\ all > 0 THEN @ \cup {"truncated"} ELSE @]
  BY DEF FilterData
<1>7. budget' \in [Recs -> Nat]
  <2>1. budget[e.rec] - take \in Nat BY <1>4, <1>5
  <2> HIDE DEF take
  <2> QED BY <1>1, <1>2, <1>6, <2>1
<1>8. hops' = [hops EXCEPT ![h] = d]
  <2> HIDE DEF take, all
  <2>1. hops \in [HopIds -> Hops] BY DEF HarInv, HopsInv, Typed
  <2> QED BY <1>1, <1>6, <2>1 DEF Hops
<1> HIDE DEF take, all, status
<1>9. body \in BodyStates /\ result \in SUBSET Results BY <1>2 DEF BodyStates, Results
<1>10. d \in Hops
  <2> HIDE DEF body, result
  <2>1. d1 \in Hops BY <1>1, <1>2, <1>3 DEF Hops
  <2> HIDE DEF d1
  <2>2. d2 \in Hops BY <2>1, <1>5 DEF Hops
  <2> HIDE DEF d2
  <2>3. d3 \in Hops BY <2>2, <1>9 DEF Hops
  <2> HIDE DEF d3
  <2> QED BY <2>3, <1>9 DEF Hops
<1>11. /\ d.seen = e.seen + n /\ d.stored = all /\ d.body = body /\ d.result = result
       /\ d.rec = e.rec /\ d.post = e.post /\ d.size = e.size /\ d.postLost = e.postLost
  BY <1>1 DEF Hops
<1> HIDE DEF d, d1, d2, d3
<1>12. take < n => status = "disconnected" BY DEF status
<1>13. ~(take < n) => status = "transferring" /\ take = n /\ all = e.stored + n
  BY <1>1, <1>3, <1>5 DEF status, all
<1>14. all = e.stored + take BY DEF all
<1>15. HonestHop(d)
  <2>1. CASE take < n /\ all > 0
    <3>1. body = "kept" /\ result = e.result \cup {"truncated"} BY <1>2, <1>5, <2>1
    <3>2. all < e.seen + n BY <1>2, <1>3, <1>5, <1>14, <2>1
    <3> HIDE DEF body, result
    <3> QED BY <1>1, <1>2, <1>5, <1>11, <2>1, <3>1, <3>2 DEF HopOK, HonestHop
  <2>2. CASE take < n /\ ~(all > 0)
    <3>1. all = 0 /\ body = "dropped" /\ result = e.result BY <1>5, <2>2
    <3> HIDE DEF body, result
    <3> QED BY <1>1, <1>2, <1>5, <1>11, <2>2, <3>1 DEF HopOK, HonestHop
  <2>3. CASE ~(take < n)
    <3>1. body = e.body /\ result = e.result BY <2>3
    <3>2. all = e.seen + n BY <1>2, <1>13, <2>3
    <3> HIDE DEF body, result
    <3> QED BY <1>1, <1>2, <1>5, <1>11, <2>3, <3>1, <3>2 DEF HopOK, HonestHop
  <2> QED BY <2>1, <2>2, <2>3
<1>16. HopOK(d, status)
  <2>1. CASE take < n
    <3>1. status = "disconnected" BY <1>12, <2>1
    <3> QED BY <1>2, <1>11, <1>15, <3>1 DEF HopOK, Feeding
  <2>2. CASE ~(take < n)
    <3>1. body = e.body /\ result = e.result BY <2>2
    <3> HIDE DEF body, result
    <3> QED BY <1>2, <1>11, <1>13, <1>15, <2>2, <3>1 DEF HopOK
  <2> QED BY <2>1, <2>2
<1>17. status \in Statuses BY <1>1 DEF status, Statuses
<1> HIDE DEF e, body, result
<1> QED BY <1>1, <1>6, <1>7, <1>8, <1>10, <1>16, <1>17, OneHop DEF HarInv

LEMMA HopsStep == ASSUME HarInv, [Next]_vars PROVE HopsInv'
<1>1. CASE StartHar BY <1>1, StartHops
<1>2. CASE StopHar BY <1>2, StopHops
<1>3. CASE TabRemoved BY <1>3, Same DEF TabRemoved, data, HarInv
<1>4. CASE \E r \in Recs : Build(r) \/ Expire(r) BY <1>4, Same DEF Build, Expire, data, HarInv
<1>5. CASE \E q \in Requests : \/ \E p \in Posts : BeforeRequest(q, p)
                               \/ \E tls \in BOOLEAN : HeadersReceived(q, tls)
                               \/ Redirect(q) \/ Completed(q) \/ Failed(q)
  BY <1>5, RequestSteps
<1>6. CASE \E h \in HopIds : SecurityInfo(h) BY <1>6, SecurityInfoStep
<1>7. CASE \E h \in HopIds : FilterStart(h) \/ FilterFinish(h) \/ FilterStop(h) \/ FilterError(h)
  BY <1>7, FilterSteps
<1>8. CASE \E h \in HopIds : \E n \in Chunks : FilterData(h, n) BY <1>8, FilterDataStep
<1>9. CASE UNCHANGED vars BY <1>9, Same DEF vars, data, HarInv
<1> QED BY <1>1, <1>2, <1>3, <1>4, <1>5, <1>6, <1>7, <1>8, <1>9 DEF Next

LEMMA HarInvariant == Spec => []HarInv
<1>1. Init => HarInv BY KeptInit, HopsInit DEF HarInv
<1>2. HarInv /\ [Next]_vars => HarInv' BY KeptStep, HopsStep DEF HarInv
<1> QED BY <1>1, <1>2, PTL DEF Spec

\* Whatever moment a recording stops at, none of its stream filters is left to
\* hold a response of the page.
THEOREM HarFiltersReleased == Spec => []FiltersReleased
<1>1. HarInv => FiltersReleased
  BY DEF HarInv, HopsInv, HopOK, FiltersReleased, Stopped, Feeding
<1> QED BY <1>1, HarInvariant, PTL

----------------------------------------------------------------------------
(* The budget *)

Stages == {"idle", "open", "held", "headers", "redirected", "over"}
Ends   == {"none", "redirect", "completed", "error"}

\* A hop past the one its request is at has not been seen by any recording.
FreshInv ==
  /\ channel \in [Requests -> [hop : Nat, stage : Stages]]
  /\ \A h \in HopIds : h[2] > channel[h[1]].hop => hops[h].rec = 0

SumInv == \A r \in Recs : IsFiniteSet(Bytes(r)) /\ budget[r] + Cardinality(Bytes(r)) = Budget

BytesInv == HarInv /\ FreshInv /\ SumInv

\* The bytes that hop d holds for recording r.
Share(d, r) == IF d.rec = r THEN d.stored + d.post ELSE 0

\* A byte of a recording is one of the bytes a hop holds for it.
LEMMA BytesFacts ==
  \A r : Bytes(r) = UNION {{h} \X (1 .. Share(hops[h], r)) : h \in HopIds}
<1> SUFFICES ASSUME NEW r
             PROVE  Bytes(r) = UNION {{h} \X (1 .. Share(hops[h], r)) : h \in HopIds}
  OBVIOUS
<1>1. ASSUME NEW b \in Bytes(r) PROVE b \in UNION {{h} \X (1 .. Share(hops[h], r)) : h \in HopIds}
  <2>1. PICK h \in HopsOf(r) : b \in {h} \X (1 .. (hops[h].stored + hops[h].post)) BY DEF Bytes
  <2>2. h \in HopIds /\ Share(hops[h], r) = hops[h].stored + hops[h].post BY DEF HopsOf, Share
  <2> QED BY <2>1, <2>2
<1>2. ASSUME NEW b \in UNION {{h} \X (1 .. Share(hops[h], r)) : h \in HopIds} PROVE b \in Bytes(r)
  <2>1. PICK h \in HopIds : b \in {h} \X (1 .. Share(hops[h], r)) OBVIOUS
  <2>2. PICK n \in 1 .. Share(hops[h], r) : b = <<h, n>> BY <2>1
  <2>3. hops[h].rec = r BY <2>2 DEF Share
  <2>4. h \in HopsOf(r) /\ Share(hops[h], r) = hops[h].stored + hops[h].post
    BY <2>3 DEF HopsOf, Share
  <2> QED BY <2>1, <2>4 DEF Bytes
<1> QED BY <1>1, <1>2

LEMMA BytesFactsNext ==
  \A r : Bytes(r)' = UNION {{h} \X (1 .. Share(hops'[h], r)) : h \in HopIds}
<1>1. (\A r : Bytes(r) = UNION {{h} \X (1 .. Share(hops[h], r)) : h \in HopIds})'
  BY BytesFacts, PTL
<1> QED BY <1>1

\* The bytes from a + 1 to a + k of a hop are k.
Block(h, a, k) == {h} \X (a + 1 .. a + k)

LEMMA BlockFacts ==
  ASSUME NEW h, NEW a \in Nat, NEW k \in Nat
  PROVE  IsFiniteSet(Block(h, a, k)) /\ Cardinality(Block(h, a, k)) = k
<1> DEFINE S == a + 1 .. a + k
           T == {h} \X S
           f == [n \in S |-> <<h, n>>]
<1>1. IsFiniteSet(S) /\ Cardinality(S) = k
  <2>1. a + 1 \in Int /\ a + k \in Int OBVIOUS
  <2>2. IsFiniteSet(S) /\ Cardinality(S) = IF a + 1 > a + k THEN 0 ELSE (a + k) - (a + 1) + 1
    BY <2>1, FS_Interval
  <2> QED BY <2>2
<1> HIDE DEF S
<1>2. f \in Bijection(S, T)
  <2>1. f \in [S -> T] OBVIOUS
  <2>2. \A m, n \in S : f[m] = f[n] => m = n OBVIOUS
  <2>3. \A t \in T : \E n \in S : f[n] = t OBVIOUS
  <2> QED BY <2>1, <2>2, <2>3 DEF Bijection, Injection, Surjection, IsInjective
<1> HIDE DEF T, f
<1>3. ExistsBijection(S, T) BY <1>2 DEF ExistsBijection
<1>4. IsFiniteSet(T) /\ Cardinality(T) = k BY <1>1, <1>3, FS_Bijection
<1> QED BY <1>4 DEF S, T, Block

\* A hop that goes from a to a + k bytes of a recording adds k to its bytes.
LEMMA Grow ==
  ASSUME NEW r, NEW h \in HopIds, NEW a \in Nat, NEW k \in Nat, IsFiniteSet(Bytes(r)),
         Share(hops[h], r) = a, Share(hops'[h], r) = a + k,
         \A g \in HopIds \ {h} : Share(hops'[g], r) = Share(hops[g], r)
  PROVE  IsFiniteSet(Bytes(r))' /\ Cardinality(Bytes(r))' = Cardinality(Bytes(r)) + k
<1> DEFINE block == Block(h, a, k)
           W(g)  == Share(hops[g], r)
           V(g)  == Share(hops'[g], r)
<1>1. Bytes(r) = UNION {{g} \X (1 .. W(g)) : g \in HopIds} BY BytesFacts
<1>2. Bytes(r)' = UNION {{g} \X (1 .. V(g)) : g \in HopIds} BY BytesFactsNext
<1>3. W(h) = a /\ V(h) = a + k /\ \A g \in HopIds \ {h} : V(g) = W(g) OBVIOUS
<1> HIDE DEF W, V
<1>4. IsFiniteSet(block) /\ Cardinality(block) = k BY BlockFacts
<1>5. 1 .. a + k = (1 .. a) \cup (a + 1 .. a + k) OBVIOUS
<1>6. Bytes(r)' = Bytes(r) \cup block
  <2>1. ASSUME NEW b \in Bytes(r)' PROVE b \in Bytes(r) \cup block
    <3>1. PICK g \in HopIds : b \in {g} \X (1 .. V(g)) BY <1>2
    <3>2. CASE g = h BY <1>1, <1>3, <1>5, <3>1, <3>2 DEF Block
    <3>3. CASE g # h BY <1>1, <1>3, <3>1, <3>3
    <3> QED BY <3>2, <3>3
  <2>2. ASSUME NEW b \in Bytes(r) PROVE b \in Bytes(r)'
    <3>1. PICK g \in HopIds : b \in {g} \X (1 .. W(g)) BY <1>1
    <3>2. CASE g = h BY <1>2, <1>3, <1>5, <3>1, <3>2
    <3>3. CASE g # h BY <1>2, <1>3, <3>1, <3>3
    <3> QED BY <3>2, <3>3
  <2>3. ASSUME NEW b \in block PROVE b \in Bytes(r)'
    BY <1>2, <1>3, <1>5, <2>3 DEF Block
  <2> QED BY <2>1, <2>2, <2>3
<1>7. Bytes(r) \cap block = {}
  <2> SUFFICES ASSUME NEW b \in Bytes(r), b \in block PROVE FALSE OBVIOUS
  <2>1. PICK g \in HopIds : b \in {g} \X (1 .. W(g)) BY <1>1
  <2>2. g = h BY <2>1 DEF Block
  <2>3. \E n \in 1 .. a : b = <<h, n>> BY <1>3, <2>1, <2>2
  <2> QED BY <2>3 DEF Block
<1> HIDE DEF block
<1>8. /\ IsFiniteSet(Bytes(r) \cup block)
      /\ Cardinality(Bytes(r) \cup block) =
           Cardinality(Bytes(r)) + Cardinality(block) - Cardinality(Bytes(r) \cap block)
  BY <1>4, FS_Union
<1>9. Cardinality({}) = 0 BY FS_EmptySet
<1>10. Cardinality(Bytes(r)) \in Nat BY FS_CardinalityType
<1> QED BY <1>4, <1>6, <1>7, <1>8, <1>9, <1>10

LEMMA BytesInit == Init => FreshInv /\ SumInv
<1> SUFFICES ASSUME Init PROVE FreshInv /\ SumInv OBVIOUS
<1>1. \A h \in HopIds : hops[h] = NoHop BY DEF Init
<1>2. FreshInv BY <1>1 DEF Init, FreshInv, NoHop, Stages
<1>3. ASSUME NEW r \in Recs PROVE IsFiniteSet(Bytes(r)) /\ budget[r] + Cardinality(Bytes(r)) = Budget
  <2>1. HopsOf(r) = {} BY <1>1, Bounds DEF HopsOf, NoHop, Recs
  <2>2. Bytes(r) = {} BY <2>1 DEF Bytes
  <2>3. budget[r] = Budget BY DEF Init
  <2> QED BY <2>2, <2>3, FS_EmptySet, Bounds
<1> QED BY <1>2, <1>3 DEF SumInv

\* A step that gives hop h k bytes more of recording r, from its budget.
LEMMA Draw ==
  ASSUME SumInv, HopsInv, NEW r \in Recs, NEW h \in HopIds, NEW k \in Nat,
         budget' = [budget EXCEPT ![r] = @ - k],
         Share(hops[h], r) \in Nat, Share(hops'[h], r) = Share(hops[h], r) + k,
         \A q \in Recs \ {r} : Share(hops'[h], q) = Share(hops[h], q),
         \A g \in HopIds \ {h} : hops'[g] = hops[g]
  PROVE  SumInv'
<1>1. ASSUME NEW q \in Recs
      PROVE  IsFiniteSet(Bytes(q))' /\ (budget[q] + Cardinality(Bytes(q)))' = Budget
  <2>1. /\ IsFiniteSet(Bytes(q)) /\ budget[q] + Cardinality(Bytes(q)) = Budget
        /\ budget \in [Recs -> Nat]
    BY DEF SumInv, HopsInv, Typed
  <2>2. budget[q] \in Nat /\ Cardinality(Bytes(q)) \in Nat BY <2>1, FS_CardinalityType
  <2>3. \A g \in HopIds \ {h} : Share(hops'[g], q) = Share(hops[g], q) BY DEF Share
  <2>4. CASE q = r
    <3>1. IsFiniteSet(Bytes(q))' /\ Cardinality(Bytes(q))' = Cardinality(Bytes(q)) + k
      BY <2>1, <2>3, <2>4, Grow
    <3>2. budget'[q] = budget[q] - k BY <2>1, <2>4
    <3> QED BY <2>1, <2>2, <3>1, <3>2
  <2>5. CASE q # r
    <3>1. Bytes(q)' = Bytes(q)
      <4>1. \A g \in HopIds : Share(hops'[g], q) = Share(hops[g], q) BY <2>3, <2>5
      <4>2. Bytes(q)' = UNION {{g} \X (1 .. Share(hops'[g], q)) : g \in HopIds}
        BY BytesFactsNext
      <4>3. Bytes(q) = UNION {{g} \X (1 .. Share(hops[g], q)) : g \in HopIds} BY BytesFacts
      <4> QED BY <4>1, <4>2, <4>3
    <3>2. budget'[q] = budget[q] BY <2>1, <2>5
    <3> QED BY <2>1, <3>1, <3>2
  <2> QED BY <2>4, <2>5
<1> QED BY <1>1 DEF SumInv

\* A step that stores nothing.
LEMMA StoreNothing ==
  ASSUME SumInv, UNCHANGED budget,
         \A h \in HopIds : /\ hops'[h].rec = hops[h].rec
                           /\ hops'[h].stored = hops[h].stored /\ hops'[h].post = hops[h].post
  PROVE  SumInv'
<1>1. ASSUME NEW r \in Recs PROVE Bytes(r)' = Bytes(r)
  <2>1. HopsOf(r)' = HopsOf(r) BY DEF HopsOf
  <2>2. \A h \in HopsOf(r) : h \in HopIds BY DEF HopsOf
  <2> QED BY <2>1, <2>2 DEF Bytes
<1> QED BY <1>1 DEF SumInv

\* A step that leaves the recordings of hops as they are and opens no hop.
LEMMA NothingOpened ==
  ASSUME FreshInv, \A h \in HopIds : hops'[h].rec = hops[h].rec,
         channel' \in [Requests -> [hop : Nat, stage : Stages]],
         \A q \in Requests : channel'[q].hop >= channel[q].hop
  PROVE  FreshInv'
<1>1. ASSUME NEW h \in HopIds, h[2] > channel'[h[1]].hop PROVE hops'[h].rec = 0
  <2>1. h[1] \in Requests /\ h[2] \in Nat BY DEF HopIds
  <2>2. channel'[h[1]].hop \in Nat /\ channel[h[1]].hop \in Nat BY <2>1 DEF FreshInv
  <2>3. h[2] > channel[h[1]].hop BY <1>1, <2>1, <2>2
  <2> QED BY <2>3 DEF FreshInv
<1> QED BY <1>1 DEF FreshInv

\* Parts of a hop that say what it stored, and for which recording.
SameShares ==
  \A h \in HopIds : /\ hops'[h].rec = hops[h].rec
                    /\ hops'[h].stored = hops[h].stored /\ hops'[h].post = hops[h].post

\* Fields whose change moves no byte.
LEMMA ShareFacts ==
  ASSUME HopsInv, NEW h \in HopIds, NEW d,
         \/ \E e \in Ends : d = [hops[h] EXCEPT !.end = e]
         \/ \E b \in BOOLEAN : d = [hops[h] EXCEPT !.secure = b] \/ d = [hops[h] EXCEPT !.pending = b]
         \/ \E R \in SUBSET Results : d = [hops[h] EXCEPT !.result = R]
  PROVE  d.rec = hops[h].rec /\ d.stored = hops[h].stored /\ d.post = hops[h].post
<1>1. hops[h] \in Hops BY HopFacts
<1> QED BY <1>1 DEF Hops

LEMMA OneSameShare ==
  ASSUME HopsInv, NEW h \in HopIds, NEW d, hops' = [hops EXCEPT ![h] = d],
         d.rec = hops[h].rec, d.stored = hops[h].stored, d.post = hops[h].post
  PROVE  SameShares
<1>1. hops \in [HopIds -> Hops] BY DEF HopsInv, Typed
<1> QED BY <1>1 DEF SameShares

LEMMA StopShares == ASSUME BytesInv, StopHar PROVE SameShares
<1> DEFINE mine == {h \in HopIds : hops[h].rec = recording}
<1>1. hops' = [h \in HopIds |-> IF h \in mine THEN Finish(hops[h]) ELSE hops[h]]
  BY DEF StopHar, Stop
<1>2. ASSUME NEW h \in HopIds
      PROVE  LET d == Finish(hops[h]) IN
             d.rec = hops[h].rec /\ d.stored = hops[h].stored /\ d.post = hops[h].post
  BY ShareFacts DEF Finish, BytesInv, HarInv
<1> QED BY <1>1, <1>2 DEF SameShares

\* The events of a filter that store nothing, and a security info.
LEMMA FilterShares ==
  ASSUME BytesInv, NEW h \in HopIds,
         FilterStart(h) \/ FilterFinish(h) \/ FilterStop(h) \/ FilterError(h) \/ SecurityInfo(h)
  PROVE  SameShares /\ UNCHANGED budget
<1>1. UNCHANGED budget
  BY DEF FilterStart, FilterFinish, FilterStop, FilterError, SecurityInfo
<1>2. CASE UNCHANGED hops BY <1>1, <1>2 DEF SameShares
<1>3. HopsInv /\ hops[h] \in Hops BY HopFacts DEF BytesInv, HarInv
<1>4. CASE SecurityInfo(h) /\ ~Stopped(h)
  <2>1. hops' = [hops EXCEPT ![h] = [hops[h] EXCEPT !.secure = TRUE]]
    BY <1>4 DEF SecurityInfo, Info
  <2> QED BY <1>1, <1>3, <2>1, ShareFacts, OneSameShare
<1>5. CASE (FilterStop(h) \/ FilterError(h)) /\ ~Stopped(h)
  <2>1. PICK said \in {"complete", "error"} :
          hops' = [hops EXCEPT ![h] = [hops[h] EXCEPT !.result = hops[h].result \cup {said}]]
    BY <1>5 DEF FilterStop, FilterError
  <2>2. hops[h].result \cup {said} \in SUBSET Results BY <1>3 DEF Hops, Results
  <2> QED BY <1>1, <1>3, <2>1, <2>2, ShareFacts, OneSameShare
<1> QED BY <1>2, <1>4, <1>5 DEF FilterStart, FilterFinish, FilterStop, FilterError, SecurityInfo, Info

\* A request's next hop is past every hop it was at.
LEMMA BeforeRequestFresh ==
  ASSUME BytesInv, NEW q \in Requests, NEW p \in Posts, BeforeRequest(q, p)
  PROVE  FreshInv'
<1> DEFINE h == <<q, channel[q].hop + 1>>
<1>1. /\ h \in HopIds /\ channel \in [Requests -> [hop : Nat, stage : Stages]]
      /\ channel' = [channel EXCEPT ![q] = [hop |-> h[2], stage |-> "open"]]
  BY DEF BytesInv, FreshInv, BeforeRequest
<1>2. channel[q].hop \in Nat /\ h[1] = q /\ h[2] = channel[q].hop + 1 BY <1>1
<1>3. channel' \in [Requests -> [hop : Nat, stage : Stages]]
  <2>1. [hop |-> h[2], stage |-> "open"] \in [hop : Nat, stage : Stages] BY <1>2 DEF Stages
  <2> HIDE DEF h
  <2> QED BY <1>1, <2>1
<1>4. channel'[q].hop = channel[q].hop + 1 BY <1>1, <1>2
<1>5. \A g \in HopIds \ {h} : hops'[g] = hops[g]
  <2>1. CASE listening
    <3>1. hops \in [HopIds -> Hops] BY DEF BytesInv, HarInv, HopsInv, Typed
    <3>2. PICK d : hops' = [hops EXCEPT ![h] = d] BY <2>1 DEF BeforeRequest, OpenHop
    <3> QED BY <3>1, <3>2
  <2>2. CASE ~listening BY <2>2 DEF BeforeRequest
  <2> QED BY <2>1, <2>2
<1>6. ASSUME NEW g \in HopIds, g[2] > channel'[g[1]].hop PROVE hops'[g].rec = 0
  <2>1. g[1] \in Requests /\ g[2] \in Nat /\ g = <<g[1], g[2]>> BY DEF HopIds
  <2>2. channel[g[1]].hop \in Nat BY <1>1, <2>1
  <2>3. CASE g[1] = q
    <3>1. g[2] > channel[q].hop + 1 BY <1>4, <1>6, <2>3
    <3>2. g # h /\ g[2] > channel[g[1]].hop BY <1>2, <2>1, <2>3, <3>1
    <3> QED BY <1>5, <3>2 DEF BytesInv, FreshInv
  <2>4. CASE g[1] # q
    <3>1. channel'[g[1]] = channel[g[1]] /\ g # h BY <1>1, <2>1, <2>4
    <3> QED BY <1>5, <1>6, <3>1 DEF BytesInv, FreshInv
  <2> QED BY <2>3, <2>4
<1> QED BY <1>3, <1>6 DEF FreshInv

\* A hop is opened with what it keeps of the request body.
LEMMA BeforeRequestSum ==
  ASSUME BytesInv, NEW q \in Requests, NEW p \in Posts, BeforeRequest(q, p)
  PROVE  SumInv'
<1> DEFINE h == <<q, channel[q].hop + 1>>
<1>1. h \in HopIds BY DEF BeforeRequest
<1>2. CASE ~listening
  <2>1. UNCHANGED <<hops, budget>> BY <1>2 DEF BeforeRequest
  <2> QED BY <2>1, StoreNothing DEF BytesInv
<1>3. CASE listening
  <2>1. OpenHop(h, p) BY <1>3 DEF BeforeRequest
  <2>2. recording \in Recs BY <1>3, Bounds DEF BytesInv, HarInv, KeptInv, Numbered, Recs
  <2>3. /\ hops \in [HopIds -> Hops] /\ budget \in [Recs -> Nat]
    BY DEF BytesInv, HarInv, HopsInv, Typed
  <2> DEFINE body == IF Cap = 0 THEN [stored |-> 0, lost |-> "no"] ELSE StoreBody(p, budget[recording])
             k == body.stored
             left == budget[recording] - k
  <2>4. PICK c \in Captures(left) :
          /\ hops' = [hops EXCEPT ![h] = [NoHop EXCEPT !.rec = recording,
                        !.size = IF Cap = 0 THEN 0 ELSE p.size,
                        !.post = k, !.postLost = body.lost, !.body = c.body, !.result = c.result]]
          /\ budget' = [budget EXCEPT ![recording] = left]
    BY <2>1 DEF OpenHop
  <2>5. k \in Nat
    <3>1. CASE Cap = 0 BY <3>1
    <3>2. CASE Cap # 0 BY <2>2, <2>3, <3>2, PostFacts
    <3> QED BY <3>1, <3>2
  <2> HIDE DEF body
  <2>6. hops'[h].rec = recording /\ hops'[h].stored = 0 /\ hops'[h].post = k
    BY <1>1, <2>3, <2>4 DEF NoHop
  <2> HIDE DEF k
  <2>7. budget' = [budget EXCEPT ![recording] = @ - k] BY <2>4
  <2>8. \A g \in HopIds \ {h} : hops'[g] = hops[g] BY <2>3, <2>4
  <2>9. hops[h].rec = 0
    <3>1. channel[q].hop \in Nat /\ h[2] > channel[h[1]].hop BY DEF BytesInv, FreshInv
    <3> QED BY <1>1, <3>1 DEF BytesInv, FreshInv
  <2>10. \A r \in Recs : Share(hops[h], r) = 0 BY <2>9, Bounds DEF Share, Recs
  <2>11. \A r \in Recs : Share(hops'[h], r) = IF r = recording THEN k ELSE 0
    BY <2>5, <2>6 DEF Share
  <2> HIDE DEF h
  <2>12. /\ Share(hops[h], recording) \in Nat
         /\ Share(hops'[h], recording) = Share(hops[h], recording) + k
    BY <2>2, <2>5, <2>10, <2>11
  <2>13. \A r \in Recs \ {recording} : Share(hops'[h], r) = Share(hops[h], r)
    BY <2>10, <2>11
  <2>14. SumInv /\ HopsInv BY DEF BytesInv, HarInv
  <2> QED BY <1>1, <2>2, <2>5, <2>7, <2>8, <2>12, <2>13, <2>14, Draw
<1> QED BY <1>2, <1>3

\* A chunk adds to its hop what it takes from the budget of its recording.
LEMMA FilterDataBytes ==
  ASSUME BytesInv, NEW h \in HopIds, NEW n \in Chunks, FilterData(h, n)
  PROVE  FreshInv' /\ SumInv'
<1> DEFINE r == hops[h].rec
           k == Least(Room(h), n)
<1>1. /\ hops \in [HopIds -> Hops] /\ budget \in [Recs -> Nat] /\ hops[h] \in Hops
      /\ HopOK(hops[h], filter[h]) /\ filter[h] = "transferring"
  BY HopFacts DEF BytesInv, HarInv, HopsInv, Typed, FilterData
<1>2. /\ r \in Recs /\ hops[h].stored \in Nat /\ hops[h].post \in Nat /\ hops[h].stored <= Cap
      /\ budget[r] \in Nat
  <2>1. r # 0 /\ r \in 0 .. MaxRecs /\ hops[h].stored <= Cap
    BY <1>1 DEF HopOK, HonestHop, Hops
  <2>2. r \in Recs BY <2>1, Bounds DEF Recs
  <2> QED BY <1>1, <2>1, <2>2 DEF Hops
<1>3. k \in Nat BY <1>2, Bounds DEF Least, Room
<1>4. /\ budget' = [budget EXCEPT ![r] = @ - k] /\ UNCHANGED channel
      /\ hops' = [hops EXCEPT ![h].seen = @ + n, ![h].stored = hops[h].stored + k,
                    ![h].body = IF k < n /\ hops[h].stored + k = 0 THEN "dropped" ELSE @,
                    ![h].result = IF k < n /\ hops[h].stored + k > 0 THEN @ \cup {"truncated"} ELSE @]
  BY DEF FilterData, Unrecorded, tab
<1> HIDE DEF k
<1>5. /\ hops'[h].rec = r /\ hops'[h].stored = hops[h].stored + k /\ hops'[h].post = hops[h].post
      /\ \A g \in HopIds \ {h} : hops'[g] = hops[g]
  BY <1>1, <1>4 DEF Hops
<1>6. FreshInv'
  <2>1. \A g \in HopIds : hops'[g].rec = hops[g].rec BY <1>5
  <2> QED BY <1>4, <2>1 DEF BytesInv, FreshInv
<1>7. /\ Share(hops[h], r) = hops[h].stored + hops[h].post
      /\ Share(hops'[h], r) = hops[h].stored + k + hops[h].post
      /\ \A q \in Recs \ {r} : Share(hops'[h], q) = Share(hops[h], q)
  BY <1>5 DEF Share
<1> HIDE DEF r
<1>8. /\ Share(hops[h], r) \in Nat /\ Share(hops'[h], r) = Share(hops[h], r) + k
  BY <1>2, <1>3, <1>7
<1>9. SumInv /\ HopsInv BY DEF BytesInv, HarInv
<1>10. SumInv' BY <1>2, <1>3, <1>4, <1>5, <1>7, <1>8, <1>9, Draw
<1> QED BY <1>6, <1>10

LEMMA BytesStep == ASSUME BytesInv, [Next]_vars PROVE FreshInv' /\ SumInv'
<1>1. ASSUME SameShares, UNCHANGED budget, channel' \in [Requests -> [hop : Nat, stage : Stages]],
             \A q \in Requests : channel'[q].hop = channel[q].hop
      PROVE  FreshInv' /\ SumInv'
  <2>1. \A q \in Requests : channel[q].hop \in Nat BY DEF BytesInv, FreshInv
  <2>2. FreshInv' BY <1>1, <2>1, NothingOpened DEF SameShares, BytesInv
  <2> QED BY <1>1, <2>2, StoreNothing DEF SameShares, BytesInv
<1>2. channel \in [Requests -> [hop : Nat, stage : Stages]] BY DEF BytesInv, FreshInv
<1>3. UNCHANGED hops => SameShares BY DEF SameShares
<1>4. CASE StartHar \/ TabRemoved \/ UNCHANGED vars
  BY <1>1, <1>2, <1>3, <1>4 DEF StartHar, TabRemoved, vars, tab, data
<1>5. CASE StopHar BY <1>1, <1>2, <1>5, StopShares DEF StopHar, tab
<1>6. CASE \E r \in Recs : Build(r) \/ Expire(r)
  BY <1>1, <1>2, <1>3, <1>6 DEF Build, Expire, tab, data
<1>7. ASSUME NEW q \in Requests, NEW s \in Stages, channel' = [channel EXCEPT ![q].stage = s]
      PROVE  /\ channel' \in [Requests -> [hop : Nat, stage : Stages]]
             /\ \A u \in Requests : channel'[u].hop = channel[u].hop
  BY <1>2, <1>7
<1>8. CASE \E q \in Requests : \E p \in Posts : BeforeRequest(q, p)
  BY <1>8, BeforeRequestFresh, BeforeRequestSum
<1>9. CASE \E q \in Requests : \E tls \in BOOLEAN : HeadersReceived(q, tls)
  <2>1. PICK q \in Requests, s \in Stages :
          channel' = [channel EXCEPT ![q].stage = s] /\ UNCHANGED <<hops, budget>>
    BY <1>9 DEF HeadersReceived, Stages
  <2> QED BY <1>1, <1>3, <1>7, <2>1
<1>10. ASSUME NEW q \in Requests, NEW from, NEW stage \in Stages, NEW e \in Ends,
              EndHop(q, from, stage, e)
       PROVE  FreshInv' /\ SumInv'
  <2> DEFINE h == <<q, channel[q].hop>>
  <2>1. channel' = [channel EXCEPT ![q].stage = stage] /\ UNCHANGED budget
    BY <1>10 DEF EndHop
  <2>2. CASE h \in HopIds /\ IsOpenHop(h)
    <3>1. hops' = [hops EXCEPT ![h] = [hops[h] EXCEPT !.end = e]] BY <1>10, <2>2 DEF EndHop
    <3>2. SameShares BY <2>2, <3>1, ShareFacts, OneSameShare DEF BytesInv, HarInv
    <3> QED BY <1>1, <1>7, <2>1, <3>2
  <2>3. CASE ~(h \in HopIds /\ IsOpenHop(h))
    <3>1. UNCHANGED hops BY <1>10, <2>3 DEF EndHop
    <3> QED BY <1>1, <1>3, <1>7, <2>1, <3>1
  <2> QED BY <2>2, <2>3
<1>11. CASE \E q \in Requests : Redirect(q) \/ Completed(q) \/ Failed(q)
  BY <1>10, <1>11 DEF Redirect, Completed, Failed, Stages, Ends
<1>12. CASE \E h \in HopIds : SecurityInfo(h)
  <2>1. PICK h \in HopIds : SecurityInfo(h) BY <1>12
  <2>2. h[1] \in Requests BY DEF HopIds
  <2>3. PICK s \in Stages : channel' = [channel EXCEPT ![h[1]].stage = s]
    <3>1. channel[h[1]].stage \in Stages BY <1>2, <2>2
    <3> QED BY <2>1, <3>1 DEF SecurityInfo, Stages
  <2>4. SameShares /\ UNCHANGED budget BY <2>1, FilterShares
  <2> QED BY <1>1, <1>7, <2>2, <2>3, <2>4
<1>13. CASE \E h \in HopIds : FilterStart(h) \/ FilterFinish(h) \/ FilterStop(h) \/ FilterError(h)
  <2>1. UNCHANGED channel
    BY <1>13 DEF FilterStart, FilterFinish, FilterStop, FilterError, Unrecorded, tab
  <2>2. SameShares /\ UNCHANGED budget BY <1>13, FilterShares
  <2> QED BY <1>1, <1>2, <2>1, <2>2
<1>14. CASE \E h \in HopIds : \E n \in Chunks : FilterData(h, n) BY <1>14, FilterDataBytes
<1> QED BY <1>4, <1>5, <1>6, <1>8, <1>9, <1>11, <1>12, <1>13, <1>14 DEF Next

LEMMA BytesInvariant == Spec => []BytesInv
<1>1. Init => BytesInv BY KeptInit, HopsInit, BytesInit DEF BytesInv, HarInv
<1>2. BytesInv /\ [Next]_vars => BytesInv' BY KeptStep, HopsStep, BytesStep DEF BytesInv, HarInv
<1> QED BY <1>1, <1>2, PTL DEF Spec

\* The bodies that a recording stored and what is left of its budget add up to the
\* budget, and each body is what the HAR says of it, for any number of requests,
\* hops and recordings and any order of chunks, events and stops.
THEOREM HarBodiesHonest == Spec => []BodiesHonest
<1>1. BytesInv => BodiesHonest
  <2>1. BytesInv => HopsHonest BY DEF BytesInv, HarInv, HopsInv, HopOK, HopsHonest
  <2>2. BytesInv => BudgetExact
    BY DEF BytesInv, SumInv, BudgetExact, HarInv, HopsInv, Typed
  <2> QED BY <2>1, <2>2 DEF BodiesHonest
<1> QED BY <1>1, BytesInvariant, PTL

----------------------------------------------------------------------------
(* The log: entries, their bytes and the counter *)

HIDE HarAssumption

HarEntry ==
  [start : Nat, time : Int, bodySize : Int, frame : Nat, cookies : [count : Nat, bytes : Nat],
   text : Nat, textDropped : BOOLEAN, truncated : BOOLEAN, post : Nat, postDropped : BOOLEAN,
   pending : BOOLEAN]

LEMMA Masks == ASSUME NEW n \in Nat PROVE Mask * n \in Nat
<1>1. Mask \in Nat BY LogAssumption
<1> QED BY <1>1

LEMMA FlagFacts ==
  ASSUME NEW e \in HarEntry
  PROVE  /\ Flags(e) \in 0 .. 2 /\ EntryBytes(e) \in Nat
         /\ Flag * Flags(e) \in Nat
<1>1. Flags(e) \in 0 .. 2 BY DEF Flags
<1>2. Flag \in Nat /\ Flag * 0 = 0 /\ Flag * 1 = Flag /\ Flag * 2 \in Nat BY LogAssumption
<1>3. Flags(e) = 0 \/ Flags(e) = 1 \/ Flags(e) = 2 BY <1>1
<1>4. Flag * Flags(e) \in Nat BY <1>2, <1>3
<1>5. e.frame \in Nat /\ e.cookies.bytes \in Nat /\ e.text \in Nat /\ e.post \in Nat
  BY DEF HarEntry
<1> QED BY <1>1, <1>4, <1>5 DEF EntryBytes

\* What an entry gains in flags when it is stripped, and that it keeps the rest.
LEMMA ShellFacts ==
  ASSUME NEW e \in HarEntry
  PROVE  /\ Shell(e) \in HarEntry /\ Saving(e) \in Int /\ Bodies(e) \in 0 .. 2
         /\ EntryBytes(Shell(e)) = EntryBytes(e) - Saving(e)
         /\ e.textDropped => Shell(e).textDropped
         /\ e.postDropped => Shell(e).postDropped
         /\ ~HasPayload(e) => Saving(e) = 0
<1>1. Shell(e) \in HarEntry BY DEF Shell, HarEntry
<1>2. EntryBytes(e) \in Nat /\ EntryBytes(Shell(e)) \in Nat BY <1>1, FlagFacts
<1>3. Saving(e) \in Int /\ EntryBytes(Shell(e)) = EntryBytes(e) - Saving(e) BY <1>2 DEF Saving
<1>4. /\ e.textDropped => Shell(e).textDropped
      /\ e.postDropped => Shell(e).postDropped
  BY DEF Shell, HarEntry
<1>5. Bodies(e) \in 0 .. 2
  <2>1. Flags(e) \in 0 .. 2 /\ Flags(Shell(e)) \in 0 .. 2 BY <1>1, FlagFacts
  <2>2. Flags(e) <= Flags(Shell(e)) BY <1>4 DEF Flags
  <2> QED BY <2>1, <2>2 DEF Bodies
<1>6. ~HasPayload(e) => Saving(e) = 0
  <2> SUFFICES ASSUME ~HasPayload(e) PROVE Saving(e) = 0 OBVIOUS
  <2>1. e.text = 0 /\ e.post = 0 BY DEF HasPayload, HarEntry
  <2>2. /\ Shell(e).frame = e.frame /\ Shell(e).cookies = e.cookies
        /\ Shell(e).text = 0 /\ Shell(e).post = 0
    BY DEF Shell, HarEntry
  <2>3. /\ Shell(e).textDropped => e.textDropped
        /\ Shell(e).postDropped => e.postDropped
    BY <2>1 DEF Shell, HarEntry
  <2>4. Flags(Shell(e)) = Flags(e) BY <1>4, <2>3 DEF Flags
  <2>5. EntryBytes(Shell(e)) = EntryBytes(e) BY <2>1, <2>2, <2>4 DEF EntryBytes
  <2> QED BY <1>2, <2>5 DEF Saving
<1> QED BY <1>1, <1>3, <1>4, <1>5, <1>6

LEMMA CharsFacts ==
  ASSUME NEW n \in Nat, NEW es \in [1 .. n -> HarEntry]
  PROVE  /\ IsFiniteSet(Chars(es)) /\ Cardinality(Chars(es)) \in Nat
         /\ \A i, k : <<i, k>> \in Chars(es) <=> i \in 1 .. n /\ k \in 1 .. EntryBytes(es[i])
         /\ \A c \in Chars(es) : c = <<c[1], c[2]>>
<1> DEFINE row[i \in 1 .. n] == {i} \X (1 .. EntryBytes(es[i]))
           rows == {row[i] : i \in 1 .. n}
<1>1. Chars(es) = UNION rows BY DEF Chars
<1>2. row \in Surjection(1 .. n, rows)
  <2>1. row \in [1 .. n -> rows] OBVIOUS
  <2>2. \A T \in rows : \E i \in 1 .. n : row[i] = T OBVIOUS
  <2> QED BY <2>1, <2>2 DEF Surjection
<1>3. IsFiniteSet(1 .. n) BY FS_Interval
<1>4. IsFiniteSet(rows) BY <1>2, <1>3, FS_Surjection
<1>5. ASSUME NEW T \in rows PROVE IsFiniteSet(T)
  <2>1. PICK i \in 1 .. n : T = {i} \X (1 .. EntryBytes(es[i])) OBVIOUS
  <2>2. EntryBytes(es[i]) \in Nat BY FlagFacts
  <2>3. IsFiniteSet(1 .. EntryBytes(es[i])) BY <2>2, FS_Interval
  <2>4. IsFiniteSet({i}) BY FS_Singleton
  <2> QED BY <2>1, <2>3, <2>4, FS_Product
<1>6. IsFiniteSet(Chars(es))
  <2> HIDE DEF rows
  <2> QED BY <1>1, <1>4, <1>5, FS_UNION
<1>7. Cardinality(Chars(es)) \in Nat BY <1>6, FS_CardinalityType
<1>8. \A i, k : <<i, k>> \in Chars(es) <=> i \in 1 .. n /\ k \in 1 .. EntryBytes(es[i])
  BY DEF Chars
<1>9. \A c \in Chars(es) : c = <<c[1], c[2]>> BY DEF Chars
<1> QED BY <1>6, <1>7, <1>8, <1>9

\* An entry that weighs no more than the one it replaces frees the difference.
LEMMA CharsShrink ==
  ASSUME NEW n \in Nat, NEW es \in [1 .. n -> HarEntry], NEW i \in 1 .. n, NEW e \in HarEntry,
         EntryBytes(e) <= EntryBytes(es[i])
  PROVE  Cardinality(Chars([es EXCEPT ![i] = e])) =
           Cardinality(Chars(es)) - (EntryBytes(es[i]) - EntryBytes(e))
<1> DEFINE fs == [es EXCEPT ![i] = e]
           v == EntryBytes(e)
           w == EntryBytes(es[i])
           freed == {i} \X (v + 1 .. w)
<1>1. fs \in [1 .. n -> HarEntry] /\ v \in Nat /\ w \in Nat BY FlagFacts
<1>2. /\ IsFiniteSet(Chars(es)) /\ IsFiniteSet(Chars(fs))
      /\ Cardinality(Chars(es)) \in Nat /\ Cardinality(Chars(fs)) \in Nat
  BY <1>1, CharsFacts
<1>3. IsFiniteSet(freed) /\ Cardinality(freed) = w - v
  <2>1. v + 1 \in Int /\ w \in Int BY <1>1
  <2>2. IsFiniteSet(v + 1 .. w) /\ Cardinality(v + 1 .. w) = w - v
    <3>1. /\ IsFiniteSet(v + 1 .. w)
          /\ Cardinality(v + 1 .. w) = IF v + 1 > w THEN 0 ELSE w - (v + 1) + 1
      BY <2>1, FS_Interval
    <3> HIDE DEF v, w
    <3> QED BY <3>1, <1>1, v <= w DEF v, w
  <2>3. IsFiniteSet({i}) /\ Cardinality({i}) = 1 BY FS_Singleton
  <2>4. /\ IsFiniteSet(freed)
        /\ Cardinality(freed) = 1 * Cardinality(v + 1 .. w)
    BY <2>2, <2>3, FS_Product
  <2> HIDE DEF v, w, freed
  <2> QED BY <1>1, <2>2, <2>4
<1>4. Chars(es) = Chars(fs) \cup freed /\ Chars(fs) \cap freed = {}
  <2>1. \A j, k : <<j, k>> \in Chars(es) <=> j \in 1 .. n /\ k \in 1 .. EntryBytes(es[j])
    BY CharsFacts
  <2>2. \A j, k : <<j, k>> \in Chars(fs) <=> j \in 1 .. n /\ k \in 1 .. EntryBytes(fs[j])
    BY <1>1, CharsFacts
  <2>3. fs[i] = e /\ \A j \in 1 .. n : j # i => fs[j] = es[j] OBVIOUS
  <2>4. \A j, k : <<j, k>> \in freed <=> j = i /\ k \in v + 1 .. w OBVIOUS
  <2>5. /\ \A c \in Chars(es) : c = <<c[1], c[2]>>
        /\ \A c \in Chars(fs) : c = <<c[1], c[2]>>
    BY <1>1, CharsFacts
  <2>6. \A c \in freed : c = <<c[1], c[2]>> OBVIOUS
  <2> HIDE DEF fs, freed, v, w
  <2>10. v <= w /\ EntryBytes(e) = v /\ EntryBytes(es[i]) = w BY DEF v, w
  <2>7. ASSUME NEW j, NEW k
        PROVE  /\ <<j, k>> \in Chars(es) <=> <<j, k>> \in Chars(fs) \/ <<j, k>> \in freed
               /\ ~(<<j, k>> \in Chars(fs) /\ <<j, k>> \in freed)
    <3>1. CASE j = i
      <4>1. /\ <<j, k>> \in Chars(es) <=> k \in 1 .. w
            /\ <<j, k>> \in Chars(fs) <=> k \in 1 .. v
            /\ <<j, k>> \in freed <=> k \in v + 1 .. w
        BY <2>1, <2>2, <2>3, <2>4, <2>10, <3>1
      <4> QED BY <1>1, <2>10, <4>1
    <3>2. CASE j # i BY <2>1, <2>2, <2>3, <2>4, <3>2
    <3> QED BY <3>1, <3>2
  <2>8. \A j, k : ~(<<j, k>> \in Chars(fs) /\ <<j, k>> \in freed) BY <2>7
  <2>9. \A c : c \in Chars(es) <=> c \in Chars(fs) \/ c \in freed BY <2>5, <2>6, <2>7
  <2> QED BY <2>5, <2>8, <2>9
<1> HIDE DEF fs, freed, v, w
<1>5. Cardinality(Chars(es)) =
        Cardinality(Chars(fs)) + Cardinality(freed) - Cardinality(Chars(fs) \cap freed)
  BY <1>2, <1>3, <1>4, FS_Union
<1>6. Cardinality(Chars(fs) \cap freed) = 0 BY <1>4, FS_EmptySet
<1>7. Cardinality(Chars(fs)) = Cardinality(Chars(es)) - (w - v) BY <1>1, <1>2, <1>3, <1>5, <1>6
<1> QED BY <1>7 DEF fs, v, w

\* The same for any other entry.
LEMMA CharsShift ==
  ASSUME NEW n \in Nat, NEW es \in [1 .. n -> HarEntry], NEW i \in 1 .. n, NEW e \in HarEntry
  PROVE  Cardinality(Chars([es EXCEPT ![i] = e])) =
           Cardinality(Chars(es)) + EntryBytes(e) - EntryBytes(es[i])
<1> DEFINE fs == [es EXCEPT ![i] = e]
<1>1. fs \in [1 .. n -> HarEntry] /\ es = [fs EXCEPT ![i] = es[i]] /\ fs[i] = e OBVIOUS
<1>2. /\ EntryBytes(e) \in Nat /\ EntryBytes(es[i]) \in Nat
      /\ Cardinality(Chars(es)) \in Nat /\ Cardinality(Chars(fs)) \in Nat
  BY <1>1, FlagFacts, CharsFacts
<1>3. CASE EntryBytes(e) <= EntryBytes(es[i])
  <2>1. Cardinality(Chars(fs)) = Cardinality(Chars(es)) - (EntryBytes(es[i]) - EntryBytes(e))
    BY <1>3, CharsShrink
  <2> QED BY <1>2, <2>1
<1>4. CASE EntryBytes(es[i]) <= EntryBytes(e)
  <2> HIDE DEF fs
  <2>1. Cardinality(Chars([fs EXCEPT ![i] = es[i]])) =
          Cardinality(Chars(fs)) - (EntryBytes(fs[i]) - EntryBytes(es[i]))
    <3>1. es[i] \in HarEntry /\ EntryBytes(es[i]) <= EntryBytes(fs[i]) BY <1>1, <1>4
    <3> QED BY <1>1, <3>1, CharsShrink, ZenonT(40)
  <2>2. Cardinality(Chars(es)) = Cardinality(Chars(fs)) - (EntryBytes(e) - EntryBytes(es[i]))
    BY <1>1, <2>1
  <2>3. Cardinality(Chars(fs)) = Cardinality(Chars(es)) + EntryBytes(e) - EntryBytes(es[i])
    BY <1>2, <2>2
  <2> QED BY <2>3 DEF fs
<1> QED BY <1>2, <1>3, <1>4

\* Entries that are nowhere lighter, and heavier on K, weigh at least as much more.
LEMMA CharsGrow ==
  ASSUME NEW n \in Nat, NEW es \in [1 .. n -> HarEntry], NEW fs \in [1 .. n -> HarEntry],
         NEW K \in SUBSET (1 .. n),
         \A i \in 1 .. n : EntryBytes(es[i]) <= EntryBytes(fs[i]),
         \A i \in K : EntryBytes(es[i]) < EntryBytes(fs[i])
  PROVE  Cardinality(Chars(es)) + Cardinality(K) <= Cardinality(Chars(fs))
<1> DEFINE top == [i \in K |-> <<i, EntryBytes(es[i]) + 1>>]
           tops == {top[i] : i \in K}
<1>1. IsFiniteSet(K) /\ Cardinality(K) \in Nat
  <2>1. IsFiniteSet(1 .. n) BY FS_Interval
  <2> QED BY <2>1, FS_Subset, FS_CardinalityType
<1>2. IsFiniteSet(tops) /\ Cardinality(tops) = Cardinality(K)
  <2>1. top \in [K -> tops] OBVIOUS
  <2>2. \A i, j \in K : top[i] = top[j] => i = j OBVIOUS
  <2>3. \A t \in tops : \E i \in K : top[i] = t OBVIOUS
  <2>4. top \in Bijection(K, tops)
    BY <2>1, <2>2, <2>3 DEF Bijection, Injection, Surjection, IsInjective
  <2> HIDE DEF top, tops
  <2>5. ExistsBijection(K, tops) BY <2>4 DEF ExistsBijection
  <2> QED BY <1>1, <2>5, FS_Bijection
<1>3. /\ IsFiniteSet(Chars(es)) /\ IsFiniteSet(Chars(fs))
      /\ Cardinality(Chars(es)) \in Nat /\ Cardinality(Chars(fs)) \in Nat
  BY CharsFacts
<1>4. Chars(es) \cap tops = {} /\ Chars(es) \cup tops \subseteq Chars(fs)
  <2>1. /\ \A j, k : <<j, k>> \in Chars(es) <=> j \in 1 .. n /\ k \in 1 .. EntryBytes(es[j])
        /\ \A c \in Chars(es) : c = <<c[1], c[2]>>
    BY CharsFacts
  <2>2. \A j, k : <<j, k>> \in Chars(fs) <=> j \in 1 .. n /\ k \in 1 .. EntryBytes(fs[j])
    BY CharsFacts
  <2>3. \A i \in 1 .. n : EntryBytes(es[i]) \in Nat /\ EntryBytes(fs[i]) \in Nat BY FlagFacts
  <2>4. ASSUME NEW t \in tops PROVE t \notin Chars(es) /\ t \in Chars(fs)
    <3>1. PICK i \in K : t = <<i, EntryBytes(es[i]) + 1>> OBVIOUS
    <3>2. EntryBytes(es[i]) + 1 \notin 1 .. EntryBytes(es[i]) BY <2>3
    <3>3. EntryBytes(es[i]) + 1 \in 1 .. EntryBytes(fs[i]) BY <2>3
    <3> HIDE DEF tops
    <3> QED BY <2>1, <2>2, <3>1, <3>2, <3>3
  <2> HIDE DEF tops
  <2>5. \A c \in Chars(es) : c \in Chars(fs)
    <3> SUFFICES ASSUME NEW c \in Chars(es) PROVE c \in Chars(fs) OBVIOUS
    <3>1. c = <<c[1], c[2]>> /\ c[1] \in 1 .. n /\ c[2] \in 1 .. EntryBytes(es[c[1]]) BY <2>1
    <3>2. c[2] \in 1 .. EntryBytes(fs[c[1]]) BY <2>3, <3>1
    <3> QED BY <2>2, <3>1, <3>2
  <2> QED BY <2>4, <2>5
<1> HIDE DEF tops
<1>5. /\ IsFiniteSet(Chars(es) \cup tops)
      /\ Cardinality(Chars(es) \cup tops) =
           Cardinality(Chars(es)) + Cardinality(tops) - Cardinality(Chars(es) \cap tops)
  BY <1>2, <1>3, FS_Union
<1>6. Cardinality(Chars(es) \cap tops) = 0 BY <1>4, FS_EmptySet
<1>7. Cardinality(Chars(es) \cup tops) <= Cardinality(Chars(fs)) BY <1>3, <1>4, FS_Subset
<1> QED BY <1>1, <1>2, <1>3, <1>5, <1>6, <1>7

TextLost(es) == {i \in DOMAIN es : es[i].textDropped}
PostLost(es) == {i \in DOMAIN es : es[i].postDropped}

LEMMA CountFacts ==
  ASSUME NEW n \in Nat, NEW es \in [1 .. n -> HarEntry]
  PROVE  /\ IsFiniteSet(TextLost(es)) /\ Cardinality(TextLost(es)) \in Nat
         /\ IsFiniteSet(PostLost(es)) /\ Cardinality(PostLost(es)) \in Nat
         /\ TextLost(es) \subseteq 1 .. n /\ PostLost(es) \subseteq 1 .. n
         /\ CountDropped(es) = Cardinality(TextLost(es)) + Cardinality(PostLost(es))
         /\ CountDropped(es) \in Nat
<1>1. IsFiniteSet(1 .. n) BY FS_Interval
<1>2. TextLost(es) \subseteq 1 .. n /\ PostLost(es) \subseteq 1 .. n BY DEF TextLost, PostLost
<1>3. IsFiniteSet(TextLost(es)) /\ IsFiniteSet(PostLost(es)) BY <1>1, <1>2, FS_Subset
<1>4. Cardinality(TextLost(es)) \in Nat /\ Cardinality(PostLost(es)) \in Nat
  BY <1>3, FS_CardinalityType
<1>5. CountDropped(es) = Cardinality(TextLost(es)) + Cardinality(PostLost(es))
  BY DEF CountDropped, TextLost, PostLost
<1> QED BY <1>2, <1>3, <1>4, <1>5

\* The counter takes what one entry loses.
LEMMA CountShell ==
  ASSUME NEW n \in Nat, NEW es \in [1 .. n -> HarEntry], NEW i \in 1 .. n
  PROVE  CountDropped([es EXCEPT ![i] = Shell(es[i])]) = CountDropped(es) + Bodies(es[i])
<1> DEFINE e == es[i]
           fs == [es EXCEPT ![i] = Shell(e)]
           b(on) == IF on THEN 1 ELSE 0
<1>1. e \in HarEntry /\ Shell(e) \in HarEntry BY ShellFacts
<1>2. fs \in [1 .. n -> HarEntry] /\ fs[i] = Shell(e) /\ \A j \in 1 .. n : j # i => fs[j] = es[j]
  BY <1>1
<1>3. /\ e.textDropped => Shell(e).textDropped
      /\ e.postDropped => Shell(e).postDropped
  BY ShellFacts
<1> HIDE DEF e, fs
<1>4. Cardinality(TextLost(fs)) =
        Cardinality(TextLost(es)) + (b(Shell(e).textDropped) - b(e.textDropped))
  <2>1. e.textDropped <=> i \in TextLost(es) BY DEF TextLost, e
  <2>2. CASE ~Shell(e).textDropped \/ e.textDropped
    <3>1. TextLost(fs) = TextLost(es) BY <1>2, <1>3, <2>1, <2>2 DEF TextLost
    <3> QED BY <1>3, <2>2, <3>1, CountFacts
  <2>3. CASE Shell(e).textDropped /\ ~e.textDropped
    <3>1. TextLost(fs) = TextLost(es) \cup {i} BY <1>2, <2>1, <2>3 DEF TextLost
    <3>2. Cardinality(TextLost(es) \cup {i}) = Cardinality(TextLost(es)) + 1
      BY <2>1, <2>3, CountFacts, FS_AddElement
    <3> QED BY <2>3, <3>1, <3>2
  <2> QED BY <2>2, <2>3
<1>5. Cardinality(PostLost(fs)) =
        Cardinality(PostLost(es)) + (b(Shell(e).postDropped) - b(e.postDropped))
  <2>1. e.postDropped <=> i \in PostLost(es) BY DEF PostLost, e
  <2>2. CASE ~Shell(e).postDropped \/ e.postDropped
    <3>1. PostLost(fs) = PostLost(es) BY <1>2, <1>3, <2>1, <2>2 DEF PostLost
    <3> QED BY <1>3, <2>2, <3>1, CountFacts
  <2>3. CASE Shell(e).postDropped /\ ~e.postDropped
    <3>1. PostLost(fs) = PostLost(es) \cup {i} BY <1>2, <2>1, <2>3 DEF PostLost
    <3>2. Cardinality(PostLost(es) \cup {i}) = Cardinality(PostLost(es)) + 1
      BY <2>1, <2>3, CountFacts, FS_AddElement
    <3> QED BY <2>3, <3>1, <3>2
  <2> QED BY <2>2, <2>3
<1>6. Bodies(e) = (b(Shell(e).textDropped) - b(e.textDropped))
                    + (b(Shell(e).postDropped) - b(e.postDropped))
  BY DEF Bodies, Flags
<1>7. /\ CountDropped(es) = Cardinality(TextLost(es)) + Cardinality(PostLost(es))
      /\ CountDropped(fs) = Cardinality(TextLost(fs)) + Cardinality(PostLost(fs))
      /\ Cardinality(TextLost(es)) \in Nat /\ Cardinality(PostLost(es)) \in Nat
  BY <1>2, CountFacts
<1>8. CountDropped(fs) = CountDropped(es) + Bodies(e) BY <1>4, <1>5, <1>6, <1>7
<1> QED BY <1>8 DEF fs, e

\* What is not dropped in es though it is in fs is dropped within K.
LEMMA CountGrow ==
  ASSUME NEW n \in Nat, NEW es \in [1 .. n -> HarEntry], NEW fs \in [1 .. n -> HarEntry],
         NEW K \in SUBSET (1 .. n),
         \A i \in 1 .. n : i \notin K => /\ fs[i].textDropped => es[i].textDropped
                                         /\ fs[i].postDropped => es[i].postDropped
  PROVE  CountDropped(fs) <= CountDropped(es) + 2 * Cardinality(K)
<1>1. IsFiniteSet(K) /\ Cardinality(K) \in Nat
  <2>1. IsFiniteSet(1 .. n) BY FS_Interval
  <2> QED BY <2>1, FS_Subset, FS_CardinalityType
<1>2. Cardinality(TextLost(fs)) <= Cardinality(TextLost(es)) + Cardinality(K)
  <2>1. ASSUME NEW i \in TextLost(fs), i \notin K PROVE i \in TextLost(es)
    <3>1. i \in 1 .. n /\ fs[i].textDropped BY DEF TextLost
    <3>2. es[i].textDropped BY <2>1, <3>1
    <3> QED BY <3>1, <3>2 DEF TextLost
  <2>2. /\ IsFiniteSet(TextLost(es) \cup K)
        /\ Cardinality(TextLost(es) \cup K) =
             Cardinality(TextLost(es)) + Cardinality(K) - Cardinality(TextLost(es) \cap K)
    BY <1>1, CountFacts, FS_Union
  <2>3. Cardinality(TextLost(es) \cap K) \in Nat
    BY <1>1, FS_Intersection, FS_CardinalityType
  <2>4. Cardinality(TextLost(fs)) <= Cardinality(TextLost(es) \cup K) BY <2>1, <2>2, FS_Subset
  <2> QED BY <1>1, <2>2, <2>3, <2>4, CountFacts
<1>3. Cardinality(PostLost(fs)) <= Cardinality(PostLost(es)) + Cardinality(K)
  <2>1. ASSUME NEW i \in PostLost(fs), i \notin K PROVE i \in PostLost(es)
    <3>1. i \in 1 .. n /\ fs[i].postDropped BY DEF PostLost
    <3>2. es[i].postDropped BY <2>1, <3>1
    <3> QED BY <3>1, <3>2 DEF PostLost
  <2>2. /\ IsFiniteSet(PostLost(es) \cup K)
        /\ Cardinality(PostLost(es) \cup K) =
             Cardinality(PostLost(es)) + Cardinality(K) - Cardinality(PostLost(es) \cap K)
    BY <1>1, CountFacts, FS_Union
  <2>3. Cardinality(PostLost(es) \cap K) \in Nat
    BY <1>1, FS_Intersection, FS_CardinalityType
  <2>4. Cardinality(PostLost(fs)) <= Cardinality(PostLost(es) \cup K) BY <2>1, <2>2, FS_Subset
  <2> QED BY <1>1, <2>2, <2>3, <2>4, CountFacts
<1> QED BY <1>1, <1>2, <1>3, CountFacts, SMTT(30)

Reached(count) == {n \in Rollovers : n <= count}

LEMMA DigitFacts ==
  ASSUME NEW m \in Nat, NEW n \in Nat, m <= n
  PROVE  /\ IsFiniteSet(Reached(m)) /\ Reached(m) \subseteq Reached(n)
         /\ Digits(m) \in Nat /\ Digits(m) = 1 + Cardinality(Reached(m))
         /\ Digits(m) <= Digits(n)
<1>1. IsFiniteSet(Rollovers) /\ Rollovers \subseteq Nat BY LogAssumption
<1>2. Reached(m) \subseteq Rollovers /\ Reached(n) \subseteq Rollovers BY DEF Reached
<1>3. ASSUME NEW r \in Reached(m) PROVE r \in Reached(n)
  <2>1. r \in Rollovers /\ r \in Nat /\ r <= m BY <1>1 DEF Reached
  <2>2. r <= n BY <2>1
  <2> QED BY <2>1, <2>2 DEF Reached
<1>4. IsFiniteSet(Reached(m)) /\ IsFiniteSet(Reached(n)) BY <1>1, <1>2, FS_Subset
<1>5. Cardinality(Reached(m)) \in Nat /\ Cardinality(Reached(n)) \in Nat
  BY <1>4, FS_CardinalityType
<1>6. Cardinality(Reached(m)) <= Cardinality(Reached(n)) BY <1>3, <1>4, FS_Subset
<1>7. Digits(m) = 1 + Cardinality(Reached(m)) /\ Digits(n) = 1 + Cardinality(Reached(n))
  BY DEF Digits, Reached
<1> QED BY <1>3, <1>4, <1>5, <1>6, <1>7

\* Two bodies more cost the counter one digit at most.
LEMMA DigitsGrow ==
  ASSUME NEW c \in Nat, NEW k \in Nat
  PROVE  Digits(c + 2 * k) <= Digits(c) + k
<1> DEFINE new == Reached(c + 2 * k) \ Reached(c)
           f == [n \in new |-> (n - c + 1) \div 2]
<1>1. c + 2 * k \in Nat /\ c <= c + 2 * k OBVIOUS
<1>2. /\ IsFiniteSet(Reached(c)) /\ Reached(c) \subseteq Reached(c + 2 * k)
      /\ IsFiniteSet(Reached(c + 2 * k))
      /\ Digits(c) \in Nat /\ Digits(c) = 1 + Cardinality(Reached(c))
      /\ Digits(c + 2 * k) \in Nat /\ Digits(c + 2 * k) = 1 + Cardinality(Reached(c + 2 * k))
  BY <1>1, DigitFacts
<1>3. \A n \in new : n \in Rollovers /\ n \in Nat /\ c < n /\ n <= c + 2 * k
  BY LogAssumption DEF Reached
<1>4. f \in Injection(new, 1 .. k)
  <2>1. \A n \in new : (n - c + 1) \div 2 \in 1 .. k
    <3> HIDE DEF new
    <3> QED BY <1>3
  <2>2. ASSUME NEW m \in new, NEW n \in new, m < n PROVE f[m] # f[n]
    <3> HIDE DEF new
    <3>1. m + 2 <= n BY <1>3, <2>2, LogAssumption
    <3>2. (m - c + 1) \div 2 < (n - c + 1) \div 2 BY <1>3, <3>1
    <3>3. /\ f[m] = (m - c + 1) \div 2 /\ (m - c + 1) \div 2 \in Int
          /\ f[n] = (n - c + 1) \div 2 /\ (n - c + 1) \div 2 \in Int
      BY <1>3
    <3> HIDE DEF f
    <3> QED BY <3>2, <3>3
  <2>3. \A m, n \in new : f[m] = f[n] => m = n
    <3> HIDE DEF f
    <3>1. \A m, n \in new : m < n => f[m] # f[n] BY <2>2
    <3>2. \A m, n \in new : m < n \/ n < m \/ m = n
      <4> HIDE DEF new
      <4> QED BY <1>3
    <3> HIDE DEF new
    <3> QED BY <3>1, <3>2
  <2>4. f \in [new -> 1 .. k] BY <2>1
  <2> QED BY <2>3, <2>4 DEF Injection, IsInjective
<1>5. IsFiniteSet(1 .. k) /\ Cardinality(1 .. k) = k BY FS_Interval
<1> HIDE DEF f, new
<1>6. IsFiniteSet(new) /\ Cardinality(new) <= k
  BY <1>4, <1>5, FS_Injection
<1>7. Cardinality(new) \in Nat /\ Cardinality(Reached(c)) \in Nat
  BY <1>2, <1>6, FS_CardinalityType
<1>8. Reached(c + 2 * k) = Reached(c) \cup new /\ Reached(c) \cap new = {} BY <1>2 DEF new
<1>9. Cardinality(Reached(c + 2 * k)) = Cardinality(Reached(c)) + Cardinality(new)
  <2>1. Cardinality(Reached(c) \cup new) =
          Cardinality(Reached(c)) + Cardinality(new) - Cardinality(Reached(c) \cap new)
    BY <1>2, <1>6, FS_Union
  <2>2. Cardinality(Reached(c) \cap new) = 0 BY <1>8, FS_EmptySet
  <2>3. Cardinality(Reached(c) \cup new) = Cardinality(Reached(c)) + Cardinality(new)
    BY <1>7, <2>1, <2>2
  <2> QED BY <1>8, <2>3, Zenon
<1> QED BY <1>2, <1>6, <1>7, <1>9

----------------------------------------------------------------------------
(* What fitLog keeps true *)

Stripped == Candidates(shown) \ queue

Counted ==
  /\ record \in Logs /\ limit \in Nat
  /\ phase \in {"recorded", "built", "fitting", "answered", "too_large"}
  /\ phase = "recorded" => entries = <<>> /\ dropped = 0
  /\ phase # "recorded" => entries \in [DOMAIN record -> HarEntry]
  /\ dropped = CountDropped(entries)

\* The bodies of the largest candidates are gone and no others.  The estimate is never
\* above the size and stays over the limit until the log fits; then the size without
\* what any one entry lost was over it.
Fitted ==
  /\ shown \in [DOMAIN record -> HarEntry]
  /\ queue \subseteq Candidates(shown)
  /\ entries = Dropping(Stripped)
  /\ \A i \in Stripped, j \in queue : Saving(shown[j]) <= Saving(shown[i])
  /\ phase # "answered" => size \in Int /\ limit < size /\ size <= LogBytes(entries, dropped)
  /\ phase = "too_large" => queue = {}
  /\ phase = "answered" =>
       /\ LogBytes(entries, dropped) <= limit
       /\ \A i \in Stripped : limit < LogBytes(entries, dropped) + Saving(shown[i])

LogInv == Counted /\ (phase \in {"fitting", "answered", "too_large"} => Fitted)

LEMMA RecordFacts ==
  ASSUME record \in Logs
  PROVE  /\ Len(record) \in Nat /\ DOMAIN record = 1 .. Len(record)
         /\ \A i \in DOMAIN record : record[i] \in HopRecord
<1>1. record \in Seq(HopRecord) BY LogAssumption
<1> QED BY <1>1

LEMMA EntryType == ASSUME NEW h \in HopRecord PROVE Entry(h) \in HarEntry
<1>1. /\ h.start \in Nat /\ h.send \in Int /\ h.received \in Int /\ h.done \in Int
      /\ h.length \in Int /\ h.text \in Nat /\ h.post \in Nat
      /\ h.cookies \in [count : Nat, bytes : Nat]
      /\ h.pending \in BOOLEAN /\ h.postDropped \in BOOLEAN
  BY DEF HopRecord, Stamp
<1>2. Timings(h) \in Int BY <1>1 DEF Timings, Or, Most
<1>3. BodySize(h) \in Int BY <1>1 DEF BodySize
<1>4. Content(h) \in [text : Nat, dropped : BOOLEAN, truncated : BOOLEAN]
  <2>1. (IF h.body = "none" THEN 0 ELSE h.text) \in Nat BY <1>1
  <2>2. DroppedBody(h) \in BOOLEAN BY DEF DroppedBody
  <2>3. (h.body = "truncated") \in BOOLEAN OBVIOUS
  <2> QED BY <2>1, <2>2, <2>3 DEF Content
<1>5. /\ Content(h).text \in Nat /\ Content(h).dropped \in BOOLEAN
      /\ Content(h).truncated \in BOOLEAN
  BY <1>4
<1> QED BY <1>1, <1>2, <1>3, <1>5 DEF Entry, HarEntry

LEMMA LogBytesType ==
  ASSUME NEW n \in Nat, NEW es \in [1 .. n -> HarEntry], NEW c \in Nat
  PROVE  LogBytes(es, c) \in Nat
<1>1. Cardinality(Chars(es)) \in Nat BY CharsFacts
<1>2. Digits(c) \in Nat BY DigitFacts
<1> QED BY <1>1, <1>2 DEF LogBytes

LEMMA LogInvInit == LogInit => LogInv
<1> SUFFICES ASSUME LogInit PROVE LogInv OBVIOUS
<1>1. DOMAIN entries = {} BY DEF LogInit
<1>2. TextLost(entries) = {} /\ PostLost(entries) = {} BY <1>1 DEF TextLost, PostLost
<1>3. CountDropped(entries) = Cardinality(TextLost(entries)) + Cardinality(PostLost(entries))
  BY DEF CountDropped, TextLost, PostLost
<1>4. CountDropped(entries) = 0 BY <1>2, <1>3, FS_EmptySet
<1>5. limit \in Nat BY LogAssumption DEF LogInit
<1> QED BY <1>4, <1>5 DEF LogInit, LogInv, Counted

\* Each hop has its entry.
LEMMA BuildFacts ==
  ASSUME Counted, BuildHar
  PROVE  /\ entries' \in [DOMAIN record -> HarEntry]
         /\ \A n \in DOMAIN record : \E i \in DOMAIN record : entries'[i] = Entry(record[n])
<1>1. PICK p \in Orders : entries' = [i \in DOMAIN record |-> Entry(record[p[i]])]
  BY DEF BuildHar, BuildLog
<1>2. /\ p \in [DOMAIN record -> DOMAIN record]
      /\ \A n \in DOMAIN record : \E i \in DOMAIN record : p[i] = n
  BY DEF Orders
<1>3. \A i \in DOMAIN record : Entry(record[p[i]]) \in HarEntry
  BY <1>2, RecordFacts, EntryType DEF Counted
<1> QED BY <1>1, <1>2, <1>3

LEMMA BuildHarStep == ASSUME LogInv, BuildHar PROVE LogInv'
<1>1. entries' \in [DOMAIN record -> HarEntry] BY BuildFacts DEF LogInv
<1>2. /\ dropped' = CountDropped(entries') /\ phase' = "built"
      /\ UNCHANGED <<record, limit>>
  BY DEF BuildHar, BuildLog
<1> QED BY <1>1, <1>2 DEF LogInv, Counted

\* Redaction leaves the bodies and their flags alone.
LEMMA RedactFacts ==
  ASSUME NEW e \in HarEntry
  PROVE  /\ RedactEntry(e) \in HarEntry
         /\ RedactEntry(e).textDropped = e.textDropped
         /\ RedactEntry(e).postDropped = e.postDropped
<1>1. e.cookies \in [count : Nat, bytes : Nat] BY DEF HarEntry
<1>2. Mask * e.cookies.count \in Nat BY <1>1, Masks
<1>3. [e.cookies EXCEPT !.bytes = Mask * e.cookies.count] \in [count : Nat, bytes : Nat]
  BY <1>1, <1>2
<1>4. RedactEntry(e) =
        [e EXCEPT !.cookies = [e.cookies EXCEPT !.bytes = Mask * e.cookies.count]]
  BY DEF RedactEntry
<1> HIDE DEF RedactEntry
<1> QED BY <1>3, <1>4 DEF HarEntry

LEMMA MeasureStep == ASSUME LogInv, Measure PROVE LogInv'
<1> DEFINE D == DOMAIN record
           es == IF redact THEN [i \in DOMAIN entries |-> RedactEntry(entries[i])] ELSE entries
<1>1. /\ phase = "built" /\ phase' \in {"answered", "fitting"}
      /\ entries' = es /\ shown' = es /\ size' = LogBytes(es, dropped)
      /\ queue' = Candidates(es) /\ UNCHANGED <<record, limit, redact, dropped>>
      /\ phase' = "answered" <=> size' <= limit
  BY DEF Measure
<1>2. entries \in [D -> HarEntry] /\ dropped = CountDropped(entries) /\ limit \in Nat
  BY <1>1 DEF LogInv, Counted
<1>3. /\ es \in [D -> HarEntry]
      /\ \A i \in D : /\ es[i].textDropped = entries[i].textDropped
                      /\ es[i].postDropped = entries[i].postDropped
  <2>1. CASE redact BY <1>2, <2>1, RedactFacts
  <2>2. CASE ~redact BY <1>2, <2>2
  <2> QED BY <2>1, <2>2
<1> HIDE DEF es
<1>4. CountDropped(es) = CountDropped(entries)
  <2>1. TextLost(es) = TextLost(entries) /\ PostLost(es) = PostLost(entries)
    BY <1>2, <1>3 DEF TextLost, PostLost
  <2>2. /\ CountDropped(es) = Cardinality(TextLost(es)) + Cardinality(PostLost(es))
        /\ CountDropped(entries) = Cardinality(TextLost(entries)) + Cardinality(PostLost(entries))
    BY DEF CountDropped, TextLost, PostLost
  <2> QED BY <2>1, <2>2
<1>5. Counted' BY <1>1, <1>2, <1>3, <1>4 DEF LogInv, Counted
<1>6. size' \in Nat
  <2>1. Len(record) \in Nat /\ D = 1 .. Len(record) BY RecordFacts DEF LogInv, Counted
  <2>2. dropped \in Nat BY <1>2, <2>1, CountFacts
  <2> QED BY <1>1, <1>3, <2>1, <2>2, LogBytesType
<1>7. Stripped' = {} BY <1>1 DEF Stripped
<1>8. Dropping(Stripped)' = shown'
  <2>1. Dropping(Stripped)' = [i \in DOMAIN shown' |-> shown'[i]] BY <1>7 DEF Dropping
  <2> QED BY <1>1, <1>3, <2>1
<1>9. Fitted'
  <2>1. (phase # "answered" => size \in Int /\ limit < size /\ size <= LogBytes(entries, dropped))'
    BY <1>1, <1>2, <1>6
  <2>2. (phase = "answered" => LogBytes(entries, dropped) <= limit)' BY <1>1
  <2> QED BY <1>1, <1>3, <1>7, <1>8, <2>1, <2>2 DEF Fitted
<1> QED BY <1>5, <1>9 DEF LogInv

\* j is tried before i.
Beats(es, j, i) == \/ Saving(es[j]) > Saving(es[i])
                   \/ Saving(es[j]) = Saving(es[i]) /\ j < i

\* The queue has a front: the candidate that the fewest others beat.
LEMMA LargestFacts ==
  ASSUME NEW n \in Nat, NEW es \in [1 .. n -> HarEntry], NEW left \in SUBSET (1 .. n), left # {}
  PROVE  /\ Largest(es, left) \in left
         /\ \A j \in left : Saving(es[j]) <= Saving(es[Largest(es, left)])
<1> DEFINE ahead(i) == {j \in left : Beats(es, j, i)}
           ranks == {Cardinality(ahead(i)) : i \in left}
<1>1. IsFiniteSet(left)
  <2>1. IsFiniteSet(1 .. n) BY FS_Interval
  <2> QED BY <2>1, FS_Subset
<1>2. \A i \in left : IsFiniteSet(ahead(i)) /\ Cardinality(ahead(i)) \in Nat
  <2>1. \A i \in left : ahead(i) \subseteq left OBVIOUS
  <2> QED BY <1>1, <2>1, FS_Subset, FS_CardinalityType
<1>3. \A i \in left : i \in Nat /\ Saving(es[i]) \in Int BY ShellFacts
<1>4. \E r \in ranks : \A q \in ranks : ~(<<q, r>> \in OpToRel(<, Nat))
  <2>1. ranks # {} /\ ranks \subseteq Nat BY <1>2
  <2> HIDE DEF ranks
  <2> QED BY <2>1, WFMin, NatLessThanWellFounded, Zenon
<1>5. PICK i \in left : \A j \in left : ~(Cardinality(ahead(j)) < Cardinality(ahead(i)))
  <2>1. PICK i \in left : \A q \in ranks : ~(<<q, Cardinality(ahead(i))>> \in OpToRel(<, Nat))
    BY <1>4
  <2>2. \A j \in left : Cardinality(ahead(j)) \in ranks OBVIOUS
  <2>3. \A j \in left : Cardinality(ahead(j)) < Cardinality(ahead(i)) =>
                          <<Cardinality(ahead(j)), Cardinality(ahead(i))>> \in OpToRel(<, Nat)
    BY <1>2 DEF OpToRel
  <2> HIDE DEF ranks, ahead
  <2> QED BY <2>1, <2>2, <2>3
<1>6. \A j \in left : ~Beats(es, j, i)
  <2> SUFFICES ASSUME NEW j \in left, Beats(es, j, i) PROVE FALSE OBVIOUS
  <2>1. ahead(j) \subseteq ahead(i)
    <3> SUFFICES ASSUME NEW k \in left, Beats(es, k, j) PROVE Beats(es, k, i) OBVIOUS
    <3> QED BY <1>3 DEF Beats
  <2>2. j \in ahead(i) /\ j \notin ahead(j) BY <1>3 DEF Beats
  <2> HIDE DEF ahead
  <2>3. /\ Cardinality(ahead(j)) <= Cardinality(ahead(i))
        /\ Cardinality(ahead(i)) # Cardinality(ahead(j))
    BY <1>2, <2>1, <2>2, FS_Subset
  <2> QED BY <1>2, <1>5, <2>3
<1>7. \A j \in left : \/ Saving(es[i]) > Saving(es[j])
                      \/ Saving(es[i]) = Saving(es[j]) /\ i <= j
  BY <1>3, <1>6 DEF Beats
<1> DEFINE front == Largest(es, left)
<1>8. /\ front \in left
      /\ \A j \in left : \/ Saving(es[front]) > Saving(es[j])
                         \/ Saving(es[front]) = Saving(es[j]) /\ front <= j
  BY <1>7 DEF Largest
<1> HIDE DEF front
<1>9. \A j \in left : Saving(es[j]) <= Saving(es[front]) BY <1>3, <1>8
<1> QED BY <1>8, <1>9 DEF front

LEMMA DropNextStep == ASSUME LogInv, DropNext PROVE LogInv'
<1> DEFINE n     == Len(record)
           i     == NextCandidate
           e     == entries[i]
           es    == [entries EXCEPT ![i] = Shell(e)]
           count == dropped + Bodies(e)
           less  == size - Saving(e)
<1>1. /\ phase = "fitting" /\ queue # {} /\ phase' \in {"answered", "fitting"}
      /\ entries' = es /\ dropped' = count /\ size' = Confirm(less, es, count)
      /\ queue' = queue \ {i} /\ UNCHANGED <<record, limit, redact, shown>>
      /\ phase' = "answered" <=> size' <= limit
  BY DEF DropNext
<1>2. Counted /\ Fitted /\ limit \in Nat /\ record \in Logs BY <1>1 DEF LogInv, Counted
<1>3. n \in Nat /\ DOMAIN record = 1 .. n BY <1>2, RecordFacts
<1>4. entries \in [1 .. n -> HarEntry] /\ shown \in [1 .. n -> HarEntry]
  BY <1>1, <1>2, <1>3 DEF Counted, Fitted
<1> HIDE DEF n, es, count, less
<1>5. /\ queue \subseteq Candidates(shown) /\ Candidates(shown) \subseteq 1 .. n
      /\ entries = [j \in 1 .. n |-> IF j \in Stripped THEN Shell(shown[j]) ELSE shown[j]]
  BY <1>2, <1>4 DEF Fitted, Candidates, Dropping
<1>6. \A j \in queue : j \in 1 .. n /\ entries[j] = shown[j] BY <1>5 DEF Stripped
<1>7. i \in queue /\ \A j \in queue : Saving(shown[j]) <= Saving(shown[i])
  <2>1. queue \in SUBSET (1 .. n) BY <1>5
  <2>2. i \in queue /\ \A j \in queue : Saving(entries[j]) <= Saving(entries[i])
    BY <1>1, <1>3, <1>4, <2>1, LargestFacts DEF NextCandidate
  <2> QED BY <1>6, <2>2
<1> HIDE DEF i
<1>8. i \in 1 .. n /\ e = shown[i] /\ e \in HarEntry BY <1>4, <1>6, <1>7
<1> HIDE DEF e
<1>9. /\ Shell(e) \in HarEntry /\ Saving(e) \in Int /\ Bodies(e) \in 0 .. 2
      /\ EntryBytes(Shell(e)) = EntryBytes(e) - Saving(e) /\ EntryBytes(e) \in Nat
  BY <1>8, ShellFacts, FlagFacts
<1>10. es \in [1 .. n -> HarEntry] BY <1>4, <1>9 DEF es
<1>11. /\ CountDropped(es) = CountDropped(entries) + Bodies(e)
       /\ Cardinality(Chars(es)) = Cardinality(Chars(entries)) - Saving(e)
  <2>1. e = entries[i] BY DEF e
  <2>2. CountDropped([entries EXCEPT ![i] = Shell(entries[i])])
          = CountDropped(entries) + Bodies(entries[i])
    BY <1>3, <1>4, <1>8, CountShell
  <2>3. Cardinality(Chars([entries EXCEPT ![i] = Shell(e)]))
          = Cardinality(Chars(entries)) + EntryBytes(Shell(e)) - EntryBytes(entries[i])
    BY <1>3, <1>4, <1>8, <1>9, CharsShift
  <2>4. Cardinality(Chars(entries)) \in Nat BY <1>3, <1>4, CharsFacts
  <2>5. CountDropped(es) = CountDropped(entries) + Bodies(e) BY <2>1, <2>2 DEF es
  <2>6. Cardinality(Chars(es)) = Cardinality(Chars(entries)) + EntryBytes(Shell(e)) - EntryBytes(e)
    BY <2>1, <2>3 DEF es
  <2> QED BY <1>9, <2>4, <2>5, <2>6
<1>12. dropped = CountDropped(entries) /\ dropped \in Nat /\ count \in Nat /\ dropped <= count
  <2>1. dropped = CountDropped(entries) BY <1>2 DEF Counted
  <2>2. dropped \in Nat BY <1>3, <1>4, <2>1, CountFacts
  <2> QED BY <1>9, <2>1, <2>2 DEF count
<1>13. Counted'
  <2>1. count = CountDropped(es) BY <1>11, <1>12 DEF count
  <2> QED BY <1>1, <1>2, <1>3, <1>10, <2>1 DEF Counted
<1>14. /\ LogBytes(es, count) \in Nat /\ LogBytes(entries, dropped) \in Nat
       /\ LogBytes(entries, dropped) - Saving(e) <= LogBytes(es, count)
  <2>1. LogBytes(es, count) \in Nat /\ LogBytes(entries, dropped) \in Nat
    BY <1>3, <1>4, <1>10, <1>12, LogBytesType
  <2>2. Digits(dropped) <= Digits(count) /\ Digits(dropped) \in Nat BY <1>12, DigitFacts
  <2>3. Digits(count) \in Nat BY <1>12, DigitFacts
  <2>4. Cardinality(Chars(entries)) \in Nat BY <1>3, <1>4, CharsFacts
  <2> QED BY <1>9, <1>11, <2>1, <2>2, <2>3, <2>4 DEF LogBytes
<1>15. size \in Int /\ limit < size /\ size <= LogBytes(entries, dropped)
  BY <1>1, <1>2 DEF Fitted
<1>16. /\ size' \in Int /\ size' <= LogBytes(es, count)
       /\ size' <= limit => size' = LogBytes(es, count)
  <2>1. less \in Int /\ less <= LogBytes(es, count) BY <1>9, <1>14, <1>15 DEF less
  <2> QED BY <1>1, <1>2, <1>14, <2>1 DEF Confirm
<1>17. Stripped' = Stripped \cup {i} BY <1>1, <1>5, <1>7 DEF Stripped
<1>18. es = Dropping(Stripped)'
  <2>1. Dropping(Stripped)' =
          [j \in 1 .. n |-> IF j \in Stripped \cup {i} THEN Shell(shown[j]) ELSE shown[j]]
    BY <1>1, <1>4, <1>17 DEF Dropping
  <2>2. \A j \in 1 .. n : es[j] = IF j \in Stripped \cup {i} THEN Shell(shown[j]) ELSE shown[j]
    BY <1>4, <1>5, <1>8, <1>9 DEF es
  <2> QED BY <1>10, <2>1, <2>2
<1>19. \A j \in Stripped \cup {i}, k \in queue : Saving(shown[k]) <= Saving(shown[j])
  BY <1>2, <1>7 DEF Fitted
<1>20. \A j \in Stripped \cup {i} : limit < LogBytes(es, count) + Saving(shown[j])
  <2> SUFFICES ASSUME NEW j \in Stripped \cup {i}
               PROVE  limit < LogBytes(es, count) + Saving(shown[j])
    OBVIOUS
  <2>1. Saving(e) <= Saving(shown[j]) BY <1>7, <1>8, <1>19
  <2>2. j \in 1 .. n BY <1>5, <1>8 DEF Stripped
  <2>3. Saving(shown[j]) \in Int BY <1>4, <2>2, ShellFacts
  <2> QED BY <1>2, <1>9, <1>14, <1>15, <2>1, <2>3
<1>21. Fitted'
  <2>1. (shown \in [DOMAIN record -> HarEntry] /\ queue \subseteq Candidates(shown))'
    BY <1>1, <1>3, <1>4, <1>5
  <2>2. (\A j \in Stripped, k \in queue : Saving(shown[k]) <= Saving(shown[j]))'
    BY <1>1, <1>17, <1>19
  <2>3. (phase # "answered" => size \in Int /\ limit < size /\ size <= LogBytes(entries, dropped))'
    BY <1>1, <1>2, <1>16
  <2>4. (phase = "answered" =>
           /\ LogBytes(entries, dropped) <= limit
           /\ \A j \in Stripped : limit < LogBytes(entries, dropped) + Saving(shown[j]))'
    BY <1>1, <1>16, <1>17, <1>20
  <2> QED BY <1>1, <1>18, <2>1, <2>2, <2>3, <2>4 DEF Fitted
<1> QED BY <1>13, <1>21 DEF LogInv

LEMMA TooLargeStep == ASSUME LogInv, TooLarge PROVE LogInv'
<1>1. /\ phase = "fitting" /\ queue = {} /\ phase' = "too_large"
      /\ UNCHANGED <<record, limit, redact, entries, dropped, size, queue, shown>>
  BY DEF TooLarge
<1>2. Stripped' = Stripped /\ Dropping(Stripped)' = Dropping(Stripped)
  BY <1>1 DEF Stripped, Dropping
<1>3. Counted' BY <1>1 DEF LogInv, Counted
<1>4. Fitted' BY <1>1, <1>2 DEF LogInv, Fitted
<1> QED BY <1>3, <1>4 DEF LogInv

LEMMA LogInvStep == LogInv /\ [LogNext]_logVars => LogInv'
<1> SUFFICES ASSUME LogInv, [LogNext]_logVars PROVE LogInv' OBVIOUS
<1>1. ASSUME UNCHANGED logVars PROVE LogInv'
  <2>1. Stripped' = Stripped /\ Dropping(Stripped)' = Dropping(Stripped)
    BY <1>1 DEF logVars, Stripped, Dropping
  <2> QED BY <1>1, <2>1 DEF logVars, LogInv, Counted, Fitted
<1> QED BY <1>1, BuildHarStep, MeasureStep, DropNextStep, TooLargeStep DEF LogNext

\* An answered log: with the bodies of any stripped entry back it is over the limit.
LEMMA AnsweredSound ==
  ASSUME Counted, Fitted, phase = "answered"
  PROVE  /\ LogBytes(entries, dropped) <= limit
         /\ \A i \in DOMAIN entries :
              entries[i] # shown[i] => LogBytes([entries EXCEPT ![i] = shown[i]], dropped) > limit
<1> DEFINE n == Len(record)
<1>1. n \in Nat /\ DOMAIN record = 1 .. n BY RecordFacts DEF Counted
<1>2. entries \in [1 .. n -> HarEntry] /\ shown \in [1 .. n -> HarEntry]
  BY <1>1 DEF Counted, Fitted
<1> HIDE DEF n
<1>3. ASSUME NEW i \in DOMAIN entries, entries[i] # shown[i]
      PROVE  LogBytes([entries EXCEPT ![i] = shown[i]], dropped) > limit
  <2>1. i \in 1 .. n /\ i \in Stripped /\ entries[i] = Shell(shown[i])
    BY <1>2, <1>3 DEF Fitted, Dropping
  <2>2. /\ EntryBytes(entries[i]) = EntryBytes(shown[i]) - Saving(shown[i])
        /\ EntryBytes(shown[i]) \in Nat /\ Saving(shown[i]) \in Int
    BY <1>2, <2>1, ShellFacts, FlagFacts
  <2>3. Cardinality(Chars([entries EXCEPT ![i] = shown[i]]))
          = Cardinality(Chars(entries)) + EntryBytes(shown[i]) - EntryBytes(entries[i])
    BY <1>1, <1>2, <2>1, CharsShift
  <2>4. Cardinality(Chars(entries)) \in Nat BY <1>1, <1>2, CharsFacts
  <2>5. dropped \in Nat BY <1>1, <1>2, CountFacts DEF Counted
  <2>6. Digits(dropped) \in Nat BY <2>5, DigitFacts
  <2>7. limit \in Nat /\ limit < LogBytes(entries, dropped) + Saving(shown[i])
    BY <2>1 DEF Counted, Fitted
  <2>8. LogBytes([entries EXCEPT ![i] = shown[i]], dropped)
          = LogBytes(entries, dropped) + Saving(shown[i])
    BY <2>2, <2>3, <2>4, <2>6 DEF LogBytes
  <2>9. LogBytes(entries, dropped) \in Nat BY <1>1, <1>2, <2>5, LogBytesType
  <2> QED BY <2>2, <2>7, <2>8, <2>9
<1> QED BY <1>3 DEF Fitted

\* With every candidate dropped the log is no larger than after any other choice: what a
\* candidate that is kept weighs more pays for the digit its bodies may cost the counter.
LEMMA TooLargeSound ==
  ASSUME Counted, Fitted, phase = "too_large", NEW S \in SUBSET DOMAIN shown
  PROVE  ReplyBytes(Dropping(S)) > limit
<1> DEFINE n  == Len(record)
           C  == Candidates(shown)
           fs == Dropping(S)
           K  == C \ S
           k  == Cardinality(K)
           c  == CountDropped(fs)
<1>1. n \in Nat /\ DOMAIN record = 1 .. n BY RecordFacts DEF Counted
<1>2. shown \in [1 .. n -> HarEntry] /\ entries \in [1 .. n -> HarEntry]
  BY <1>1 DEF Counted, Fitted
<1> HIDE DEF n
<1>3. \A i \in 1 .. n : Shell(shown[i]) \in HarEntry BY <1>2, ShellFacts
<1>4. fs \in [1 .. n -> HarEntry] BY <1>2, <1>3 DEF Dropping
<1>5. /\ K \in SUBSET (1 .. n)
      /\ \A i \in 1 .. n : entries[i] = IF i \in C THEN Shell(shown[i]) ELSE shown[i]
      /\ \A i \in 1 .. n : fs[i] = IF i \in S THEN Shell(shown[i]) ELSE shown[i]
  <2>1. Stripped = C BY DEF Fitted, Stripped
  <2>2. C \subseteq 1 .. n BY <1>2 DEF Candidates
  <2> QED BY <1>2, <2>1, <2>2 DEF Fitted, Dropping
<1>6. \A i \in 1 .. n : /\ EntryBytes(Shell(shown[i])) = EntryBytes(shown[i]) - Saving(shown[i])
                        /\ EntryBytes(shown[i]) \in Nat /\ Saving(shown[i]) \in Int
                        /\ i \in C <=> Saving(shown[i]) > 0
  <2> SUFFICES ASSUME NEW i \in 1 .. n
               PROVE  /\ EntryBytes(Shell(shown[i])) = EntryBytes(shown[i]) - Saving(shown[i])
                      /\ EntryBytes(shown[i]) \in Nat /\ Saving(shown[i]) \in Int
                      /\ i \in C <=> Saving(shown[i]) > 0
    OBVIOUS
  <2>1. shown[i] \in HarEntry BY <1>2
  <2>2. /\ EntryBytes(Shell(shown[i])) = EntryBytes(shown[i]) - Saving(shown[i])
        /\ EntryBytes(shown[i]) \in Nat /\ Saving(shown[i]) \in Int
        /\ ~HasPayload(shown[i]) => Saving(shown[i]) = 0
    BY <2>1, ShellFacts, FlagFacts
  <2>3. i \in C <=> HasPayload(shown[i]) /\ Saving(shown[i]) > 0 BY <1>2 DEF Candidates
  <2> QED BY <2>2, <2>3
<1>7. \A i \in 1 .. n : i \notin K => /\ entries[i].textDropped => fs[i].textDropped
                                      /\ entries[i].postDropped => fs[i].postDropped
  <2> SUFFICES ASSUME NEW i \in 1 .. n, i \notin K
               PROVE  /\ entries[i].textDropped => fs[i].textDropped
                      /\ entries[i].postDropped => fs[i].postDropped
    OBVIOUS
  <2>1. /\ shown[i].textDropped => Shell(shown[i]).textDropped
        /\ shown[i].postDropped => Shell(shown[i]).postDropped
    BY <1>2, ShellFacts
  <2>2. fs[i] = entries[i] \/ (fs[i] = Shell(shown[i]) /\ entries[i] = shown[i])
    <3>1. i \in C => i \in S OBVIOUS
    <3> HIDE DEF C, fs
    <3>2. CASE i \in S /\ i \notin C BY <1>5, <3>2
    <3>3. CASE i \in S /\ i \in C BY <1>5, <3>3
    <3>4. CASE i \notin S /\ i \notin C BY <1>5, <3>4
    <3> QED BY <3>1, <3>2, <3>3, <3>4
  <2> HIDE DEF fs
  <2> QED BY <2>1, <2>2
<1> HIDE DEF C, fs
<1>8. /\ \A i \in 1 .. n : EntryBytes(entries[i]) <= EntryBytes(fs[i])
      /\ \A i \in K : EntryBytes(entries[i]) < EntryBytes(fs[i])
  BY <1>5, <1>6
<1> HIDE DEF K
<1>9. Cardinality(Chars(entries)) + k <= Cardinality(Chars(fs))
  BY <1>1, <1>2, <1>4, <1>5, <1>8, CharsGrow
<1>10. k \in Nat
  <2>1. IsFiniteSet(1 .. n) BY <1>1, FS_Interval
  <2>2. IsFiniteSet(K) BY <1>5, <2>1, FS_Subset
  <2> QED BY <2>2, FS_CardinalityType
<1>11. dropped \in Nat /\ c \in Nat /\ dropped <= c + 2 * k
  <2>1. dropped = CountDropped(entries) BY DEF Counted
  <2>2. CountDropped(entries) \in Nat /\ c \in Nat BY <1>1, <1>2, <1>4, CountFacts
  <2>3. CountDropped(entries) <= c + 2 * k BY <1>1, <1>2, <1>4, <1>5, <1>7, CountGrow
  <2> QED BY <2>1, <2>2, <2>3
<1> HIDE DEF k, c
<1>12. Digits(dropped) <= Digits(c) + k /\ Digits(c) \in Nat /\ Digits(dropped) \in Nat
  <2>1. Digits(c + 2 * k) <= Digits(c) + k BY <1>10, <1>11, DigitsGrow
  <2>2. c + 2 * k \in Nat BY <1>10, <1>11
  <2>3. Digits(dropped) <= Digits(c + 2 * k) BY <1>11, <2>2, DigitFacts
  <2>4. Digits(c) \in Nat /\ Digits(dropped) \in Nat /\ Digits(c + 2 * k) \in Nat
    BY <1>11, <2>2, DigitFacts
  <2> QED BY <1>10, <2>1, <2>3, <2>4
<1>13. Cardinality(Chars(entries)) \in Nat /\ Cardinality(Chars(fs)) \in Nat
  BY <1>1, <1>2, <1>4, CharsFacts
<1>14. LogBytes(entries, dropped) <= LogBytes(fs, c)
  BY <1>9, <1>10, <1>12, <1>13 DEF LogBytes
<1>15. LogBytes(entries, dropped) \in Nat /\ LogBytes(fs, c) \in Nat
  BY <1>1, <1>2, <1>4, <1>11, LogBytesType
<1>16. size \in Int /\ limit \in Nat /\ limit < size /\ size <= LogBytes(entries, dropped)
  BY DEF Counted, Fitted
<1>17. ReplyBytes(fs) = LogBytes(fs, c) BY DEF ReplyBytes, c
<1> QED BY <1>14, <1>15, <1>16, <1>17 DEF fs

\* For every recording, limit and number of bodies: an answered log fits and no entry of
\* it is stripped without need, and HAR_TOO_LARGE means that nothing would have helped.
THEOREM LogFitSound == LogSpec => []FitSound
<1>1. LogInv => FitSound
  <2> SUFFICES ASSUME LogInv PROVE FitSound OBVIOUS
  <2>1. dropped = CountDropped(entries) BY DEF LogInv, Counted
  <2> QED BY <2>1, AnsweredSound, TooLargeSound DEF LogInv, FitSound
<1> QED BY <1>1, LogInvInit, LogInvStep, PTL DEF LogSpec

\* The time of a hop is what its stamps span, whichever of them are missing.
LEMMA TimingsSpan ==
  ASSUME NEW h \in HopRecord, NEW k \in 1 .. 4
  PROVE  LET stamps == <<h.start, h.send, h.received, h.done>>
             there  == {j \in 1 .. 4 : stamps[j] >= 0}
         IN k \in there /\ (\A j \in there : j <= k) =>
              /\ Timings(h) >= stamps[k] - h.start
              /\ (\A a, b \in there : a < b => stamps[a] <= stamps[b]) =>
                   Timings(h) = stamps[k] - h.start
<1> DEFINE stamps == <<h.start, h.send, h.received, h.done>>
           there  == {j \in 1 .. 4 : stamps[j] >= 0}
<1>1. /\ h.start \in Nat /\ h.send \in Nat \cup {-1} /\ h.received \in Nat \cup {-1}
      /\ h.done \in Nat \cup {-1}
  BY DEF HopRecord, Stamp
<1>2. stamps[1] = h.start /\ stamps[2] = h.send /\ stamps[3] = h.received /\ stamps[4] = h.done
  OBVIOUS
<1> HIDE DEF stamps
<1>3. /\ 1 \in there /\ (2 \in there <=> h.send >= 0)
      /\ (3 \in there <=> h.received >= 0) /\ (4 \in there <=> h.done >= 0)
  BY <1>1, <1>2
<1>4. there \subseteq {1, 2, 3, 4} OBVIOUS
<1> HIDE DEF there
<1> SUFFICES ASSUME k \in there, \A j \in there : j <= k
             PROVE  /\ Timings(h) >= stamps[k] - h.start
                    /\ (\A a, b \in there : a < b => stamps[a] <= stamps[b]) =>
                         Timings(h) = stamps[k] - h.start
  BY DEF stamps, there
<1>5. /\ k = 1 => h.send < 0 /\ h.received < 0 /\ h.done < 0
      /\ k = 2 => h.send >= 0 /\ h.received < 0 /\ h.done < 0
      /\ k = 3 => h.received >= 0 /\ h.done < 0
      /\ k = 4 => h.done >= 0
  BY <1>1, <1>3
<1>6. Timings(h) >= stamps[k] - h.start
  <2>1. CASE k = 1 BY <1>1, <1>2, <1>5, <2>1 DEF Timings, Or, Most
  <2>2. CASE k = 2 BY <1>1, <1>2, <1>5, <2>2 DEF Timings, Or, Most
  <2>3. CASE k = 3 BY <1>1, <1>2, <1>5, <2>3 DEF Timings, Or, Most
  <2>4. CASE k = 4 BY <1>1, <1>2, <1>5, <2>4 DEF Timings, Or, Most
  <2> QED BY <2>1, <2>2, <2>3, <2>4
<1>7. ASSUME \A a, b \in there : a < b => stamps[a] <= stamps[b]
      PROVE  Timings(h) = stamps[k] - h.start
  <2>1. /\ h.send >= 0 => h.start <= h.send
        /\ h.received >= 0 => h.start <= h.received
        /\ h.done >= 0 => h.start <= h.done
        /\ h.send >= 0 /\ h.received >= 0 => h.send <= h.received
        /\ h.send >= 0 /\ h.done >= 0 => h.send <= h.done
        /\ h.received >= 0 /\ h.done >= 0 => h.received <= h.done
    BY <1>2, <1>3, <1>7
  <2> QED BY <1>1, <1>2, <1>5, <2>1 DEF Timings, Or, Most
<1> QED BY <1>6, <1>7

\* When the log is built every hop has its entry, in whatever order they started.
TimesInv == phase = "built" => \A n \in DOMAIN record : \E i \in DOMAIN entries :
                                 entries[i] = Entry(record[n])

LEMMA TimesStep == LogInv /\ TimesInv /\ [LogNext]_logVars => TimesInv'
<1> SUFFICES ASSUME LogInv, TimesInv, [LogNext]_logVars, phase' = "built"
             PROVE  TimesInv'
  BY DEF TimesInv
<1>1. CASE BuildHar
  <2>1. record' = record BY <1>1 DEF BuildHar
  <2>2. /\ entries' \in [DOMAIN record -> HarEntry]
        /\ \A n \in DOMAIN record : \E i \in DOMAIN record : entries'[i] = Entry(record[n])
    BY <1>1, BuildFacts DEF LogInv
  <2> QED BY <2>1, <2>2 DEF TimesInv
<1>2. CASE Measure \/ DropNext \/ TooLarge BY <1>2 DEF Measure, DropNext, TooLarge
<1>3. CASE UNCHANGED logVars BY <1>3 DEF logVars, TimesInv
<1> QED BY <1>1, <1>2, <1>3 DEF LogNext

\* For every recording, also one with stamps that are missing or out of order, no entry
\* understates the time of its request.
THEOREM LogTimesSpan == LogSpec => []TimesSpan
<1>1. LogInit => TimesInv BY DEF LogInit, TimesInv
<1>2. LogInv /\ TimesInv => TimesSpan
  <2> SUFFICES ASSUME LogInv, TimesInv, phase = "built", NEW n \in DOMAIN record
               PROVE  \E i \in DOMAIN entries :
                        LET h      == record[n]
                            stamps == <<h.start, h.send, h.received, h.done>>
                            there  == {k \in 1 .. 4 : stamps[k] >= 0}
                        IN /\ entries[i].start = h.start
                           /\ \A k \in there :
                                (\A j \in there : j <= k) =>
                                  /\ entries[i].time >= stamps[k] - h.start
                                  /\ (\A a, b \in there : a < b => stamps[a] <= stamps[b]) =>
                                       entries[i].time = stamps[k] - h.start
    BY DEF TimesSpan
  <2>1. PICK i \in DOMAIN entries : entries[i] = Entry(record[n]) BY DEF TimesInv
  <2>2. entries[i].start = record[n].start /\ entries[i].time = Timings(record[n])
    BY <2>1 DEF Entry
  <2>3. record[n] \in HopRecord BY RecordFacts DEF LogInv, Counted
  <2>4. \A k \in 1 .. 4 :
          LET h      == record[n]
              stamps == <<h.start, h.send, h.received, h.done>>
              there  == {j \in 1 .. 4 : stamps[j] >= 0}
          IN k \in there /\ (\A j \in there : j <= k) =>
               /\ Timings(h) >= stamps[k] - h.start
               /\ (\A a, b \in there : a < b => stamps[a] <= stamps[b]) =>
                    Timings(h) = stamps[k] - h.start
    BY <2>3, TimingsSpan
  <2> QED BY <2>2, <2>4
<1> QED BY <1>1, <1>2, LogInvInit, LogInvStep, TimesStep, PTL DEF LogSpec
=============================================================================
