---------------------------- MODULE CaptureProofs ----------------------------
(***************************************************************************)
(* What Capture guarantees for any number of captures.                     *)
(*                                                                         *)
(* As long as the tab is open its captures share one lock object, so at    *)
(* most one of them is live: inside the section and not evicted.  Evicted  *)
(* ones may still have a message on its way to the page, but send no more; *)
(* a live one waits for its own message, which is the last, and so knows   *)
(* the page when the answer comes.  What an evicted holder leaves behind   *)
(* is what handoff tells the next one to clear.                            *)
(***************************************************************************)
EXTENDS Capture, TLAPS

USE CaptureAssumption

Waiting == {"readiness", "queued"}
Telling == {"inherited", "annotate", "clear"}
Stages  == {"new", "resolved", "fit", "failed", "gone", "done"} \cup Waiting \cup Section

Message == [what : {"annotate", "remove"}, by : Captures]

Typed ==
  /\ tabOpen \in BOOLEAN /\ inbox \in Seq(Message) /\ badges \in Captures \cup {None}
  /\ entry \in Captures \cup {None}
  /\ queue \in [Captures -> Seq(Captures)] /\ handoff \in [Captures -> BOOLEAN]
  /\ pc \in [Captures -> Stages] /\ own \in [Captures -> Captures \cup {None}]
  /\ call \in [Captures -> {"none", "out", "ok", "bad"}]
  /\ late \subseteq Captures /\ stale \subseteq Captures
  /\ shot \in [Captures -> [taken : BOOLEAN, of : Captures \cup {None}]]

Live(c) == c \in Captures /\ pc[c] \in Section /\ c \notin stale

Own(c) == {None} \cup ({c} \cap Annotating)

\* Nothing happens in a tab that is closed; only then is an entry dropped.
Closed ==
  /\ ~tabOpen => inbox = <<>> /\ badges = None /\ \A c \in Captures : call[c] # "out"
  /\ \A c \in Captures : pc[c] = "gone" => ~tabOpen

\* All captures of the open tab hold on to the lock object in the registry.
Meet ==
  \A c \in Captures : pc[c] \in Waiting \cup Section =>
    own[c] \in Captures /\ (tabOpen => own[c] = entry)

\* An entry of a closed tab is one whose capture will fail and drop it.
Dropped ==
  ~tabOpen /\ entry # None =>
    \E c \in Captures : /\ pc[c] \in Waiting \cup Section \cup {"failed", "gone"}
                        /\ own[c] = entry /\ ~shot[c].taken

\* Where a capture stands and what it awaits go together.
Standing ==
  \A c \in Captures :
    /\ pc[c] \in {"annotate", "clear"} => c \in Annotating
    /\ pc[c] \in Section => call[c] # "none"
    /\ c \in stale => pc[c] \in Section \cup {"fit", "failed", "gone"}
    /\ pc[c] \in {"new", "resolved"} => ~shot[c].taken

\* A live capture is at the head of its lock.
Heads == \A c \in Captures : Live(c) => queue[own[c]] # <<>> /\ Head(queue[own[c]]) = c

\* A message is the one its sender awaits, and its only one.
Mail ==
  /\ \A i \in 1 .. Len(inbox) :
       /\ pc[inbox[i].by] \in Telling /\ call[inbox[i].by] = "out"
       /\ inbox[i].what = "annotate" <=> pc[inbox[i].by] = "annotate"
  /\ \A i, j \in 1 .. Len(inbox) : i # j => inbox[i].by # inbox[j].by

\* What the page has yet to do and what it shows, seen from inside the section.
Page ==
  tabOpen => \A c \in Captures : Live(c) =>
    /\ ~handoff[entry]
    /\ IF pc[c] # "capture" /\ call[c] = "out"
       THEN inbox # <<>> /\ inbox[Len(inbox)].by = c
       ELSE /\ inbox = <<>>
            /\ pc[c] \in {"annotate", "capture"} => badges \in Own(c)
            /\ pc[c] \in {"inherited", "clear"} => badges = None

\* With nobody live, a page that shows or awaits anything is to be cleared by the next.
Duty ==
  tabOpen /\ (\A c \in Captures : ~Live(c)) =>
    \/ entry # None /\ handoff[entry]
    \/ inbox = <<>> /\ badges = None

\* An open tab without an entry has not been captured yet.
Fresh == tabOpen /\ entry = None => \A l \in Captures : ~handoff[l]

Rendered == \A c \in Captures : c \notin stale => shot[c].of \in Own(c)

IInv == /\ Typed /\ Closed /\ Meet /\ Dropped /\ Standing /\ Heads /\ Mail /\ Page /\ Duty /\ Fresh
        /\ Rendered

LEMMA InvInit == Init => IInv
<1> SUFFICES ASSUME Init PROVE IInv OBVIOUS
<1>1. Typed BY DEF Init, Typed, Stages
<1>2. Closed /\ Meet /\ Dropped /\ Standing
  BY DEF Init, Closed, Meet, Dropped, Standing, Waiting, Section
<1>3. Heads /\ Mail /\ Page /\ Duty /\ Fresh /\ Rendered
  BY DEF Init, Heads, Mail, Page, Duty, Fresh, Rendered, Live, Section, Own
<1> QED BY <1>1, <1>2, <1>3 DEF IInv

LEMMA Senders ==
  ASSUME IInv, NEW i \in 1 .. Len(inbox)
  PROVE  inbox[i].by \in Captures /\ inbox[i].what \in {"annotate", "remove"}
<1>1. inbox \in Seq(Message) BY DEF IInv, Typed
<1>2. inbox[i] \in Message BY <1>1
<1> QED BY <1>2 DEF Message

LEMMA OneLive ==
  ASSUME IInv, tabOpen, NEW c, NEW d, Live(c), Live(d) PROVE c = d
  BY DEF IInv, Meet, Heads, Live

\* release() only moves the lock of the capture that has it.
LEMMA ReleasedLock ==
  ASSUME IInv, NEW c \in Captures, pc[c] \in Waiting \cup Section
  PROVE  /\ Released(c) \in [Captures -> Seq(Captures)]
         /\ \A d \in Captures : Live(d) /\ d # c => Released(c)[own[d]] = queue[own[d]]
<1>1. Typed /\ own[c] \in Captures BY DEF IInv, Meet
<1>2. queue[own[c]] # <<>> => Tail(queue[own[c]]) \in Seq(Captures) BY <1>1 DEF Typed
<1>3. Released(c) \in [Captures -> Seq(Captures)] BY <1>1, <1>2 DEF Released, Typed
<1>4. ASSUME NEW d \in Captures, Live(d), d # c PROVE Released(c)[own[d]] = queue[own[d]]
  <2>1. own[d] \in Captures /\ Head(queue[own[d]]) = d BY <1>4 DEF IInv, Meet, Heads, Live
  <2> QED BY <1>1, <1>4, <2>1 DEF Released, Typed
<1> QED BY <1>3, <1>4

\* A step of a capture outside the section says nothing to the page.
LEMMA Aside ==
  ASSUME IInv, NEW c \in Captures, UNCHANGED <<page, handoff>>,
         \A d \in Captures : d # c => /\ pc'[d] = pc[d] /\ call'[d] = call[d]
                                      /\ d \in stale' <=> d \in stale,
         pc[c] \notin Section, pc'[c] \notin Section, tabOpen => entry' = entry
  PROVE  Mail' /\ Page' /\ Duty' /\ Fresh'
<1>1. UNCHANGED <<tabOpen, inbox, badges, handoff>> BY DEF page
<1>2. Typed BY DEF IInv
<1>3. \A i \in 1 .. Len(inbox) : inbox[i].by \in Captures BY Senders
<1>4. \A i \in 1 .. Len(inbox) : inbox[i].by # c BY DEF IInv, Mail, Telling, Section
<1>5. Mail'
  <2>1. \A i \in 1 .. Len(inbox) : /\ pc'[inbox[i].by] = pc[inbox[i].by]
                                   /\ call'[inbox[i].by] = call[inbox[i].by]
    BY <1>3, <1>4
  <2> QED BY <1>1, <2>1 DEF IInv, Mail
<1>6. ASSUME NEW d \in Captures PROVE Live(d)' <=> Live(d)
  <2>1. CASE d = c BY <2>1 DEF Live
  <2>2. CASE d # c BY <2>2 DEF Live
  <2> QED BY <2>1, <2>2
<1>7. \A d \in Captures : Live(d) => d # c BY DEF Live
<1>8. Page' BY <1>1, <1>6, <1>7 DEF IInv, Page, Own
<1>9. Duty' /\ Fresh' BY <1>1, <1>6 DEF IInv, Duty, Fresh
<1> QED BY <1>5, <1>8, <1>9

LEMMA ResolveStep == ASSUME IInv, NEW c \in Captures, Resolve(c) PROVE IInv'
<1>1. /\ pc[c] = "new" /\ pc' = [pc EXCEPT ![c] = IF tabOpen THEN "resolved" ELSE "done"]
      /\ UNCHANGED <<page, locks, own, call, late, stale, shot>>
  BY DEF Resolve, At
<1>2. UNCHANGED <<tabOpen, inbox, badges, entry, queue, handoff>> BY <1>1 DEF page, locks
<1>3. Typed BY DEF IInv
<1>4. Typed' BY <1>1, <1>2, <1>3 DEF Typed, Stages
<1>5. pc'[c] \in {"resolved", "done"} /\ \A d \in Captures : d # c => pc'[d] = pc[d]
  BY <1>1, <1>3 DEF Typed
<1>6. pc[c] \notin Section /\ pc'[c] \notin Waiting \cup Section \cup {"fit", "failed", "gone"}
  BY <1>1, <1>5 DEF Section, Waiting
<1>7. \A d \in Captures : Live(d)' <=> Live(d) BY <1>1, <1>5, <1>6 DEF Live
<1>8. Closed' /\ Meet' BY <1>1, <1>2, <1>5, <1>6 DEF IInv, Closed, Meet
<1>9. Dropped'
  <2>1. \A d \in Captures : pc[d] \in Waiting \cup Section \cup {"failed", "gone"} => d # c
    BY <1>1 DEF Waiting, Section
  <2> QED BY <1>1, <1>2, <1>5, <2>1 DEF IInv, Dropped
<1>10. c \notin stale BY <1>1 DEF IInv, Standing, Section
<1>11. Standing' BY <1>1, <1>5, <1>6, <1>10 DEF IInv, Standing
<1>12. Heads' /\ Rendered' BY <1>1, <1>2, <1>7 DEF IInv, Heads, Rendered, Own
<1>13. Mail' /\ Page' /\ Duty' /\ Fresh' BY <1>1, <1>2, <1>5, <1>6, Aside
<1> QED BY <1>4, <1>8, <1>9, <1>11, <1>12, <1>13 DEF IInv

LEMMA BeginStep == ASSUME IInv, NEW c \in Captures, Begin(c) PROVE IInv'
<1>1. /\ pc[c] = "resolved" /\ pc' = [pc EXCEPT ![c] = "readiness"]
      /\ own' = [own EXCEPT ![c] = IF entry = None THEN c ELSE entry] /\ entry' = own'[c]
      /\ UNCHANGED <<page, queue, handoff, call, late, stale, shot>>
  BY DEF Begin, At
<1>2. UNCHANGED <<tabOpen, inbox, badges>> BY <1>1 DEF page
<1>3. Typed BY DEF IInv
<1>4. entry' \in Captures /\ (entry # None => entry' = entry) /\ own'[c] = entry'
  BY <1>1, <1>3 DEF Typed
<1>5. own' \in [Captures -> Captures \cup {None}] /\ pc' \in [Captures -> Stages]
  BY <1>1, <1>3 DEF Typed, Stages, Waiting
<1>6. Typed' BY <1>1, <1>2, <1>3, <1>4, <1>5 DEF Typed
<1>7. pc'[c] = "readiness" /\ \A d \in Captures : d # c => pc'[d] = pc[d] /\ own'[d] = own[d]
  BY <1>1, <1>3 DEF Typed
<1>8. /\ pc[c] \notin Waiting \cup Section \cup {"failed", "gone"} /\ ~shot[c].taken
      /\ pc'[c] \notin Section /\ c \notin stale
  BY <1>1, <1>7 DEF Section, Waiting, IInv, Standing
<1>9. \A d \in Captures : Live(d)' <=> Live(d) BY <1>1, <1>7, <1>8 DEF Live
<1>10. Closed' /\ Dropped'
  BY <1>1, <1>2, <1>4, <1>7, <1>8 DEF IInv, Closed, Dropped, Waiting
<1>11. Meet'
  <2>1. \A d \in Captures : tabOpen /\ pc[d] \in Waiting \cup Section => entry # None
    BY <1>3 DEF IInv, Meet
  <2> QED BY <1>2, <1>4, <1>7, <1>8, <2>1 DEF IInv, Meet
<1>12. Standing' BY <1>1, <1>7, <1>8 DEF IInv, Standing, Waiting
<1>13. Heads' /\ Rendered'
  BY <1>1, <1>7, <1>8, <1>9 DEF IInv, Heads, Rendered, Own, Live
<1>14. CASE tabOpen /\ entry = None
  <2>1. \A d \in Captures : ~Live(d) BY <1>3, <1>14 DEF IInv, Meet, Live
  <2>2. inbox = <<>> /\ badges = None BY <1>14, <2>1 DEF IInv, Duty
  <2> QED BY <1>2, <1>4, <1>6, <1>9, <1>10, <1>11, <1>12, <1>13, <2>1, <2>2
        DEF IInv, Mail, Page, Duty, Fresh
<1>15. CASE ~(tabOpen /\ entry = None)
  <2>1. Mail' /\ Page' /\ Duty' /\ Fresh' BY <1>1, <1>4, <1>7, <1>8, <1>15, Aside
  <2> QED BY <1>6, <1>10, <1>11, <1>12, <1>13, <2>1 DEF IInv
<1> QED BY <1>14, <1>15

LEMMA ReadyStep == ASSUME IInv, NEW c \in Captures, Ready(c) PROVE IInv'
<1>1. /\ pc[c] = "readiness" /\ pc' = [pc EXCEPT ![c] = "queued"]
      /\ queue' = [queue EXCEPT ![own[c]] = Append(@, c)]
      /\ UNCHANGED <<page, entry, handoff, own, call, late, stale, shot>>
  BY DEF Ready, At
<1>2. UNCHANGED <<tabOpen, inbox, badges>> BY <1>1 DEF page
<1>3. Typed /\ own[c] \in Captures BY <1>1 DEF IInv, Meet, Waiting
<1>4. Typed'
  <2>1. queue' \in [Captures -> Seq(Captures)] BY <1>1, <1>3 DEF Typed
  <2>2. pc' \in [Captures -> Stages] BY <1>1, <1>3 DEF Typed, Stages, Waiting
  <2> QED BY <1>1, <1>2, <1>3, <2>1, <2>2 DEF Typed
<1>5. pc'[c] = "queued" /\ \A d \in Captures : d # c => pc'[d] = pc[d] BY <1>1, <1>3 DEF Typed
<1>6. pc[c] \notin Section /\ pc'[c] \notin Section BY <1>1, <1>5 DEF Section
<1>7. \A d \in Captures : Live(d)' <=> Live(d) BY <1>1, <1>5, <1>6 DEF Live
<1>8. Closed' /\ Meet' /\ Dropped'
  BY <1>1, <1>2, <1>5, <1>6 DEF IInv, Closed, Meet, Dropped, Waiting
<1>9. c \notin stale BY <1>1 DEF IInv, Standing, Section
<1>10. Standing' BY <1>1, <1>5, <1>6, <1>9 DEF IInv, Standing
<1>11. \A l \in Captures : queue[l] # <<>> => queue'[l] # <<>> /\ Head(queue'[l]) = Head(queue[l])
  <2>1. ASSUME NEW s \in Seq(Captures), s # <<>> PROVE Append(s, c) # <<>> /\ Head(Append(s, c)) = Head(s)
    BY <2>1
  <2>2. \A l \in Captures : queue[l] \in Seq(Captures)
          /\ queue'[l] = IF l = own[c] THEN Append(queue[l], c) ELSE queue[l]
    BY <1>1, <1>3 DEF Typed
  <2> QED BY <2>1, <2>2
<1>12. Heads' BY <1>1, <1>7, <1>11 DEF IInv, Heads, Live, Meet
<1>13. Rendered' BY <1>1 DEF IInv, Rendered, Own
<1>14. Mail' /\ Page' /\ Duty' /\ Fresh' BY <1>1, <1>5, <1>6, Aside
<1> QED BY <1>4, <1>8, <1>10, <1>12, <1>13, <1>14 DEF IInv

LEMMA GiveUpStep == ASSUME IInv, NEW c \in Captures, GiveUp(c) PROVE IInv'
<1>1. /\ pc[c] = "queued" /\ pc' = [pc EXCEPT ![c] = "failed"]
      /\ stale' = stale \cup {c} /\ queue' = Released(c)
      /\ UNCHANGED <<page, entry, handoff, own, call, late, shot>>
  BY DEF GiveUp, At, Holds
<1>2. UNCHANGED <<tabOpen, inbox, badges>> BY <1>1 DEF page
<1>3. Typed BY DEF IInv
<1>4. /\ queue' \in [Captures -> Seq(Captures)]
      /\ \A d \in Captures : Live(d) /\ d # c => queue'[own[d]] = queue[own[d]]
  BY <1>1, ReleasedLock DEF Waiting
<1>5. Typed'
  <2>1. pc' \in [Captures -> Stages] BY <1>1, <1>3 DEF Typed, Stages
  <2> QED BY <1>1, <1>2, <1>3, <1>4, <2>1 DEF Typed
<1>6. pc'[c] = "failed" /\ \A d \in Captures : d # c => pc'[d] = pc[d] BY <1>1, <1>3 DEF Typed
<1>7. pc[c] \notin Section /\ pc'[c] \notin Section /\ pc'[c] \notin Waiting
  BY <1>1, <1>6 DEF Section, Waiting
<1>8. \A d \in Captures : Live(d)' <=> Live(d) /\ d # c BY <1>1, <1>6, <1>7 DEF Live
<1>9. Closed' /\ Meet' /\ Dropped'
  BY <1>1, <1>2, <1>6, <1>7 DEF IInv, Closed, Meet, Dropped
<1>10. Standing' /\ Rendered' BY <1>1, <1>6, <1>7 DEF IInv, Standing, Rendered, Own
<1>11. Heads' BY <1>1, <1>4, <1>8 DEF IInv, Heads
<1>12. Mail' /\ Page' /\ Duty' /\ Fresh' BY <1>1, <1>6, <1>7, Aside
<1> QED BY <1>5, <1>9, <1>10, <1>11, <1>12 DEF IInv

\* The end of a command, from outside the section.
LEMMA OverStep ==
  ASSUME IInv, NEW c \in Captures, Over(c), UNCHANGED <<page, queue, handoff>>,
         pc[c] \notin Waiting \cup Section,
         tabOpen => entry' = entry, entry' \in {entry, None},
         ~tabOpen /\ pc[c] \in {"failed", "gone"} => entry' = None
  PROVE  IInv'
<1>1. /\ pc' = [pc EXCEPT ![c] = "done"] /\ own' = [own EXCEPT ![c] = None]
      /\ call' = [call EXCEPT ![c] = "none"] /\ late' = late \ {c} /\ stale' = stale \ {c}
      /\ shot' = [shot EXCEPT ![c] = [taken |-> FALSE, of |-> None]]
  BY DEF Over, At, NoCall
<1>2. UNCHANGED <<tabOpen, inbox, badges, queue, handoff>> BY DEF page
<1>3. Typed BY DEF IInv
<1>4. Typed'
  <2>1. pc' \in [Captures -> Stages] BY <1>1, <1>3 DEF Typed, Stages
  <2>2. own' \in [Captures -> Captures \cup {None}] BY <1>1, <1>3 DEF Typed
  <2>3. call' \in [Captures -> {"none", "out", "ok", "bad"}] BY <1>1, <1>3 DEF Typed
  <2>4. shot' \in [Captures -> [taken : BOOLEAN, of : Captures \cup {None}]] BY <1>1, <1>3 DEF Typed
  <2> QED BY <1>1, <1>2, <1>3, <2>1, <2>2, <2>3, <2>4 DEF Typed
<1>5. /\ pc'[c] = "done" /\ shot'[c].of = None /\ call'[c] = "none"
      /\ \A d \in Captures : d # c => /\ pc'[d] = pc[d] /\ own'[d] = own[d] /\ call'[d] = call[d]
                                      /\ shot'[d] = shot[d]
  BY <1>1, <1>3 DEF Typed
<1>6. pc[c] \notin Section /\ pc'[c] \notin Section /\ pc'[c] \notin Waiting
  BY <1>5 DEF Section, Waiting
<1>7. \A d \in Captures : Live(d)' <=> Live(d) BY <1>1, <1>5, <1>6 DEF Live
<1>8. \A d \in Captures : Live(d) => d # c BY <1>6 DEF Live
<1>9. Closed' BY <1>2, <1>5 DEF IInv, Closed
<1>10. Meet' BY <1>2, <1>5, <1>6 DEF IInv, Meet
<1>11. Dropped' BY <1>2, <1>5 DEF IInv, Dropped
<1>12. Standing' BY <1>1, <1>5, <1>6 DEF IInv, Standing
<1>13. Rendered' BY <1>1, <1>5 DEF IInv, Rendered, Own
<1>14. Heads' BY <1>2, <1>5, <1>7, <1>8 DEF IInv, Heads
<1>15. Mail' /\ Page' /\ Duty' /\ Fresh' BY <1>1, <1>5, <1>6, Aside
<1> QED BY <1>4, <1>9, <1>10, <1>11, <1>12, <1>13, <1>14, <1>15 DEF IInv

\* A command goes on outside the section, from "fit" or "failed".
LEMMA FailStep ==
  ASSUME IInv, NEW c \in Captures, NEW stage \in {"failed", "gone"}, At(c, stage),
         pc[c] \in {"fit", "failed"}, stage = "gone" => ~tabOpen,
         UNCHANGED <<page, locks, own, call, late, stale, shot>>
  PROVE  IInv'
<1>1. UNCHANGED <<tabOpen, inbox, badges, entry, queue, handoff>> BY DEF page, locks
<1>2. pc' = [pc EXCEPT ![c] = stage] BY DEF At
<1>3. Typed BY DEF IInv
<1>4. Typed' BY <1>1, <1>2, <1>3 DEF Typed, Stages
<1>5. pc'[c] = stage /\ \A d \in Captures : d # c => pc'[d] = pc[d] BY <1>2, <1>3 DEF Typed
<1>6. pc[c] \notin Section /\ pc'[c] \notin Section /\ pc'[c] \notin Waiting
  BY <1>5 DEF Section, Waiting
<1>7. \A d \in Captures : Live(d)' <=> Live(d) BY <1>5, <1>6 DEF Live
<1>8. Closed' /\ Meet' /\ Dropped' BY <1>1, <1>5, <1>6 DEF IInv, Closed, Meet, Dropped
<1>9. Standing' /\ Rendered' BY <1>5, <1>6 DEF IInv, Standing, Rendered, Own
<1>10. Heads' BY <1>1, <1>7 DEF IInv, Heads
<1>11. Mail' /\ Page' /\ Duty' /\ Fresh' BY <1>1, <1>5, <1>6, Aside
<1> QED BY <1>4, <1>8, <1>9, <1>10, <1>11 DEF IInv

LEMMA EndStep ==
  ASSUME IInv, NEW c \in Captures, Fit(c) \/ Look(c) \/ DropEntry(c) PROVE IInv'
<1>1. CASE Fit(c)
  <2>1. pc[c] = "fit" /\ UNCHANGED <<page, locks>> BY <1>1 DEF Fit
  <2>2. UNCHANGED <<entry, queue, handoff>> BY <2>1 DEF locks
  <2>3. CASE Over(c) BY <2>1, <2>2, <2>3, OverStep DEF Waiting, Section, IInv, Typed
  <2>4. CASE At(c, "failed") /\ UNCHANGED <<own, call, late, stale, shot>>
    BY <2>1, <2>4, FailStep
  <2> QED BY <1>1, <2>3, <2>4 DEF Fit
<1>2. CASE Look(c)
  <2>1. pc[c] = "failed" /\ UNCHANGED <<page, locks>> BY <1>2 DEF Look
  <2>2. UNCHANGED <<entry, queue, handoff>> BY <2>1 DEF locks
  <2>3. CASE tabOpen
    <3>1. Over(c) BY <1>2, <2>3 DEF Look
    <3> QED BY <2>1, <2>2, <2>3, <3>1, OverStep DEF Waiting, Section
  <2>4. CASE ~tabOpen
    <3>1. At(c, "gone") /\ UNCHANGED <<own, call, late, stale, shot>> BY <1>2, <2>4 DEF Look
    <3> QED BY <2>1, <2>4, <3>1, FailStep
  <2> QED BY <2>3, <2>4
<1>3. CASE DropEntry(c)
  <2>1. pc[c] = "gone" /\ Over(c) /\ entry' = None /\ UNCHANGED <<page, queue, handoff>>
    BY <1>3 DEF DropEntry
  <2>2. ~tabOpen BY <2>1 DEF IInv, Closed
  <2> QED BY <2>1, <2>2, OverStep DEF Waiting, Section
<1> QED BY <1>1, <1>2, <1>3

LEMMA DeadlineStep == ASSUME IInv, NEW c \in Captures, Deadline(c) PROVE IInv'
<1>1. late' = late \cup {c} /\ UNCHANGED <<page, locks, pc, own, call, stale, shot>>
  BY DEF Deadline
<1>2. UNCHANGED <<tabOpen, inbox, badges, entry, queue, handoff>> BY <1>1 DEF page, locks
<1>3. Typed' BY <1>1, <1>2 DEF IInv, Typed
<1>4. \A d \in Captures : Live(d)' <=> Live(d) BY <1>1 DEF Live
<1>5. Closed' /\ Meet' /\ Dropped' /\ Standing' /\ Rendered'
  BY <1>1, <1>2 DEF IInv, Closed, Meet, Dropped, Standing, Rendered
<1>6. Heads' /\ Mail' /\ Page' /\ Duty' /\ Fresh'
  BY <1>1, <1>2, <1>4 DEF IInv, Heads, Mail, Page, Duty, Fresh
<1> QED BY <1>3, <1>5, <1>6 DEF IInv

LEMMA IdleStep == ASSUME IInv, UNCHANGED vars PROVE IInv'
<1>1. UNCHANGED <<tabOpen, inbox, badges, entry, queue, handoff, pc, own, call, late, stale, shot>>
  BY DEF vars, page, locks, command
<1>2. Typed' /\ Closed' /\ Meet' /\ Dropped' /\ Standing' /\ Rendered'
  BY <1>1 DEF IInv, Typed, Closed, Meet, Dropped, Standing, Rendered
<1>3. Heads' /\ Mail' /\ Page' /\ Duty' /\ Fresh'
  BY <1>1 DEF IInv, Heads, Mail, Page, Duty, Fresh, Live
<1> QED BY <1>2, <1>3 DEF IInv

(***************************************************************************)
(* The page                                                                *)
(***************************************************************************)

LEMMA PageRunsStep == ASSUME IInv, PageRuns PROVE IInv'
<1> DEFINE h == inbox[1].by
           n == Len(inbox)
<1>1. /\ inbox # <<>> /\ inbox' = Tail(inbox)
      /\ badges' = (IF inbox[1].what = "annotate" THEN h ELSE None)
      /\ call' = [call EXCEPT ![h] = "ok"]
      /\ UNCHANGED <<tabOpen, locks, pc, own, late, stale, shot>>
  <2>1. inbox \in Seq(Message) BY DEF IInv, Typed
  <2>2. inbox # <<>> => Head(inbox) = inbox[1] BY <2>1
  <2> QED BY <2>2 DEF PageRuns
<1>2. UNCHANGED <<entry, queue, handoff>> /\ tabOpen BY <1>1 DEF locks, IInv, Closed
<1>3. Typed /\ inbox \in Seq(Message) BY DEF IInv, Typed
<1>4. /\ n \in Nat /\ n >= 1 /\ Tail(inbox) \in Seq(Message) /\ Len(Tail(inbox)) = n - 1
      /\ \A i \in 1 .. (n - 1) : Tail(inbox)[i] = inbox[i + 1]
      /\ n = 1 => Tail(inbox) = <<>>
  BY <1>1, <1>3
<1>5. h \in Captures /\ 1 \in 1 .. n BY <1>4, Senders
<1>6. pc[h] \in Telling /\ call[h] = "out" /\ (inbox[1].what = "annotate" <=> pc[h] = "annotate")
  BY <1>5 DEF IInv, Mail
<1>7. Typed' BY <1>1, <1>2, <1>3, <1>4, <1>5 DEF Typed
<1>8. call'[h] = "ok" /\ \A d \in Captures : d # h => call'[d] = call[d]
  BY <1>1, <1>3, <1>5 DEF Typed
<1>9. Closed' /\ Meet' /\ Dropped' /\ Fresh'
  BY <1>1, <1>2 DEF IInv, Closed, Meet, Dropped, Fresh
<1>10. Standing' BY <1>1, <1>8 DEF IInv, Standing
<1>11. \A d \in Captures : Live(d)' <=> Live(d) BY <1>1 DEF Live
<1>12. Heads' /\ Rendered' BY <1>1, <1>2, <1>11 DEF IInv, Heads, Rendered
<1>13. \A i \in 2 .. n : inbox[i].by # h
  <2>1. \A i \in 2 .. n : i \in 1 .. n /\ i # 1 BY <1>4
  <2> QED BY <1>5, <2>1 DEF IInv, Mail
<1>14. Mail'
  <2>1. \A i \in 1 .. (n - 1) : /\ i + 1 \in 1 .. n /\ i + 1 \in 2 .. n /\ inbox'[i] = inbox[i + 1]
                                /\ call'[inbox[i + 1].by] = call[inbox[i + 1].by]
    <3> SUFFICES ASSUME NEW i \in 1 .. (n - 1)
                 PROVE  /\ i + 1 \in 1 .. n /\ i + 1 \in 2 .. n /\ inbox'[i] = inbox[i + 1]
                        /\ call'[inbox[i + 1].by] = call[inbox[i + 1].by]
      OBVIOUS
    <3>1. i + 1 \in 1 .. n /\ i + 1 \in 2 .. n BY <1>4
    <3>2. inbox[i + 1].by \in Captures BY <3>1, Senders
    <3> QED BY <1>1, <1>4, <1>8, <1>13, <3>1, <3>2
  <2>2. Len(inbox') = n - 1 BY <1>1, <1>4
  <2>3. \A i, j \in 1 .. n : i # j => inbox[i].by # inbox[j].by BY DEF IInv, Mail
  <2>4. \A i \in 1 .. (n - 1) :
          /\ pc'[inbox'[i].by] \in Telling /\ call'[inbox'[i].by] = "out"
          /\ inbox'[i].what = "annotate" <=> pc'[inbox'[i].by] = "annotate"
    BY <1>1, <2>1 DEF IInv, Mail
  <2>5. ASSUME NEW i \in 1 .. (n - 1), NEW j \in 1 .. (n - 1), i # j
        PROVE  inbox'[i].by # inbox'[j].by
    <3>1. i + 1 # j + 1 /\ i + 1 \in 1 .. n /\ j + 1 \in 1 .. n BY <1>4, <2>5
    <3> QED BY <2>1, <2>3, <3>1
  <2> QED BY <2>2, <2>4, <2>5 DEF Mail
<1>15. Page'
  <2> SUFFICES ASSUME NEW d \in Captures, Live(d)
               PROVE /\ ~handoff[entry]
                     /\ IF pc[d] # "capture" /\ call'[d] = "out"
                        THEN inbox' # <<>> /\ inbox'[Len(inbox')].by = d
                        ELSE /\ inbox' = <<>>
                             /\ pc[d] \in {"annotate", "capture"} => badges' \in Own(d)
                             /\ pc[d] \in {"inherited", "clear"} => badges' = None
    BY <1>1, <1>2, <1>11 DEF Page, Own
  <2>1. ~handoff[entry] /\ pc[d] # "capture" /\ call[d] = "out" /\ inbox[n].by = d
    BY <1>1, <1>2 DEF IInv, Page
  <2>2. CASE n = 1
    <3>1. inbox' = <<>> /\ call'[d] = "ok" /\ h = d BY <1>1, <1>4, <1>8, <2>1, <2>2
    <3>2. pc[d] = "annotate" => badges' \in Own(d)
      BY <1>1, <1>6, <3>1 DEF IInv, Standing, Own
    <3>3. pc[d] \in {"inherited", "clear"} => badges' = None BY <1>1, <1>6, <3>1
    <3> QED BY <2>1, <3>1, <3>2, <3>3
  <2>3. CASE n # 1
    <3>1. n - 1 \in 1 .. (n - 1) /\ n \in 2 .. n BY <1>4, <2>3
    <3>2. (n - 1) + 1 = n /\ Len(inbox') = n - 1 /\ n - 1 # 0 BY <1>1, <1>4, <2>3
    <3>5. inbox' # <<>> BY <3>2
    <3>4. inbox'[n - 1] = inbox[n] BY <1>1, <1>4, <3>1, <3>2
    <3>3. d # h BY <1>13, <2>1, <3>1
    <3> QED BY <1>8, <2>1, <3>2, <3>3, <3>4, <3>5
  <2> QED BY <2>2, <2>3
<1>16. Duty' BY <1>1, <1>2, <1>11 DEF IInv, Duty
<1> QED BY <1>7, <1>9, <1>10, <1>12, <1>14, <1>15, <1>16 DEF IInv

LEMMA PageReloadsStep == ASSUME IInv, PageReloads PROVE IInv'
<1>1. /\ tabOpen /\ inbox' = <<>> /\ badges' = None
      /\ call' = [c \in Captures |-> IF c \in Unanswered THEN "bad" ELSE call[c]]
      /\ UNCHANGED <<tabOpen, locks, pc, own, late, stale, shot>>
  BY DEF PageReloads
<1>2. UNCHANGED <<entry, queue, handoff>> BY <1>1 DEF locks
<1>3. Typed /\ inbox \in Seq(Message) BY DEF IInv, Typed
<1>4. Typed' BY <1>1, <1>2, <1>3 DEF Typed
<1>5. \A d \in Captures : call'[d] \in {"bad", call[d]} BY <1>1
<1>6. Closed' /\ Meet' /\ Dropped' /\ Fresh'
  BY <1>1, <1>2 DEF IInv, Closed, Meet, Dropped, Fresh
<1>7. Standing' BY <1>1, <1>5 DEF IInv, Standing
<1>8. \A d \in Captures : Live(d)' <=> Live(d) BY <1>1 DEF Live
<1>9. Heads' /\ Rendered' BY <1>1, <1>2, <1>8 DEF IInv, Heads, Rendered
<1>10. Mail' /\ Duty' BY <1>1 DEF Mail, Duty
<1>11. Page'
  <2> SUFFICES ASSUME NEW d \in Captures, Live(d)
               PROVE /\ ~handoff[entry] /\ ~(pc[d] # "capture" /\ call'[d] = "out")
                     /\ badges' \in Own(d)
    BY <1>1, <1>2, <1>8 DEF Page, Own
  <2>1. pc[d] # "capture" /\ call[d] = "out" => inbox # <<>> /\ inbox[Len(inbox)].by = d
    BY <1>1 DEF IInv, Page
  <2>2. inbox # <<>> => Len(inbox) \in DOMAIN inbox BY <1>3
  <2>3. pc[d] # "capture" /\ call[d] = "out" => d \in Unanswered BY <2>1, <2>2 DEF Unanswered
  <2> QED BY <1>1, <1>5, <2>3 DEF IInv, Page, Own
<1> QED BY <1>4, <1>6, <1>7, <1>9, <1>10, <1>11 DEF IInv

LEMMA TabRemovedStep == ASSUME IInv, TabRemoved PROVE IInv'
<1>1. /\ ~tabOpen' /\ inbox' = <<>> /\ badges' = None /\ entry' = None
      /\ call' = [c \in Captures |-> IF call[c] = "out" THEN "bad" ELSE call[c]]
      /\ UNCHANGED <<queue, handoff, pc, own, late, stale, shot>>
  BY DEF TabRemoved
<1>2. Typed BY DEF IInv
<1>3. Typed'
  <2>1. call' \in [Captures -> {"none", "out", "ok", "bad"}] BY <1>1, <1>2 DEF Typed
  <2>2. <<>> \in Seq(Message) OBVIOUS
  <2>3. /\ tabOpen' \in BOOLEAN /\ inbox' \in Seq(Message)
        /\ badges' \in Captures \cup {None} /\ entry' \in Captures \cup {None}
    <3>1. tabOpen' = FALSE BY DEF TabRemoved
    <3> QED BY <1>1, <2>2, <3>1
  <2> QED BY <1>1, <1>2, <2>1, <2>3 DEF Typed
<1>4. \A d \in Captures : call'[d] # "out" /\ (call'[d] = "bad" \/ call'[d] = call[d]) BY <1>1
<1>5. Closed' /\ Meet' /\ Dropped' /\ Fresh' BY <1>1, <1>4 DEF IInv, Closed, Meet, Dropped, Fresh
<1>6. Standing' BY <1>1, <1>4 DEF IInv, Standing
<1>7. Heads' /\ Rendered' BY <1>1 DEF IInv, Heads, Rendered, Live
<1>8. Mail' /\ Page' /\ Duty' BY <1>1 DEF Mail, Page, Duty
<1> QED BY <1>3, <1>5, <1>6, <1>7, <1>8 DEF IInv

LEMMA RenderStep == ASSUME IInv, NEW c \in Captures, Render(c) PROVE IInv'
<1>1. /\ pc[c] = "capture" /\ call[c] = "out"
      /\ \/ call' = [call EXCEPT ![c] = "ok"]
            /\ shot' = [shot EXCEPT ![c] = [taken |-> TRUE, of |-> badges]]
         \/ call' = [call EXCEPT ![c] = "bad"] /\ shot' = shot
      /\ UNCHANGED <<page, locks, pc, own, late, stale>>
  BY DEF Render
<1>2. UNCHANGED <<tabOpen, inbox, badges, entry, queue, handoff>> BY <1>1 DEF page, locks
<1>3. Typed /\ tabOpen BY <1>1 DEF IInv, Closed
<1>4. /\ call'[c] \in {"ok", "bad"} /\ call' \in [Captures -> {"none", "out", "ok", "bad"}]
      /\ \A d \in Captures : d # c => call'[d] = call[d]
  BY <1>1, <1>3 DEF Typed
<1>5. /\ shot' \in [Captures -> [taken : BOOLEAN, of : Captures \cup {None}]]
      /\ shot'[c].of \in {badges, shot[c].of}
      /\ \A d \in Captures : d # c => shot'[d] = shot[d]
  <2>1. CASE shot' = shot BY <1>3, <2>1 DEF Typed
  <2>2. CASE shot' = [shot EXCEPT ![c] = [taken |-> TRUE, of |-> badges]]
    <3> DEFINE image == [taken |-> TRUE, of |-> badges]
    <3>1. image \in [taken : BOOLEAN, of : Captures \cup {None}] BY <1>3 DEF Typed
    <3>2. image.of = badges OBVIOUS
    <3>3. shot' = [shot EXCEPT ![c] = image] BY <2>2
    <3> HIDE DEF image
    <3> QED BY <1>3, <3>1, <3>2, <3>3 DEF Typed
  <2> QED BY <1>1, <2>1, <2>2
<1>6. Typed' BY <1>1, <1>2, <1>3, <1>4, <1>5 DEF Typed
<1>7. Closed' /\ Meet' /\ Dropped' /\ Fresh'
  BY <1>1, <1>2, <1>3 DEF IInv, Closed, Meet, Dropped, Fresh
<1>8. Standing' BY <1>1, <1>4, <1>5 DEF IInv, Standing
<1>9. \A d \in Captures : Live(d)' <=> Live(d) BY <1>1 DEF Live
<1>10. Heads' BY <1>1, <1>2, <1>9 DEF IInv, Heads
<1>11. Rendered'
  <2>1. c \notin stale => badges \in Own(c) BY <1>1, <1>3 DEF IInv, Page, Live, Section
  <2> QED BY <1>1, <1>5, <2>1 DEF IInv, Rendered, Own
<1>12. \A i \in 1 .. Len(inbox) : inbox[i].by # c BY <1>1 DEF IInv, Mail, Telling
<1>13. Mail'
  <2>1. \A i \in 1 .. Len(inbox) : call'[inbox[i].by] = call[inbox[i].by] BY <1>4, <1>12, Senders
  <2> QED BY <1>1, <1>2, <2>1 DEF IInv, Mail
<1>14. Page' BY <1>1, <1>2, <1>4, <1>9 DEF IInv, Page, Own
<1>15. Duty' BY <1>1, <1>2, <1>9 DEF IInv, Duty
<1> QED BY <1>6, <1>7, <1>8, <1>10, <1>11, <1>13, <1>14, <1>15 DEF IInv

(***************************************************************************)
(* The section                                                             *)
(***************************************************************************)

\* What makes c the capture whose turn it is.
Turn(c) ==
  /\ c \in Captures /\ c \notin stale /\ pc[c] \in Waiting \cup Section
  /\ queue[own[c]] # <<>> /\ Head(queue[own[c]]) = c

LEMMA NobodyElse ==
  ASSUME IInv, tabOpen, NEW c, Turn(c), NEW d, Live(d) PROVE d = c
  BY DEF IInv, Meet, Heads, Live, Turn

\* It sends the page a message and awaits the answer.
LEMMA TellStep ==
  ASSUME IInv, NEW c, Turn(c), NEW what \in {"annotate", "remove"}, NEW stage \in Telling,
         At(c, stage), Tell(c, what), what = "annotate" <=> stage = "annotate",
         stage \in {"annotate", "clear"} => c \in Annotating,
         pc[c] \in Telling => call[c] # "out",
         handoff' \in [Captures -> BOOLEAN], tabOpen => ~handoff'[entry],
         UNCHANGED <<tabOpen, badges, entry, queue, own, late, stale, shot>>
  PROVE  IInv'
<1>1. /\ pc' = [pc EXCEPT ![c] = stage]
      /\ inbox' = IF tabOpen THEN Append(inbox, [what |-> what, by |-> c]) ELSE inbox
      /\ call' = [call EXCEPT ![c] = IF tabOpen THEN "out" ELSE "bad"]
  BY DEF At, Tell
<1>2. Typed /\ c \in Captures /\ inbox \in Seq(Message) BY DEF IInv, Typed, Turn
<1> DEFINE m == [what |-> what, by |-> c]
           n == Len(inbox)
<1>3. m \in Message /\ m.by = c /\ m.what = what BY <1>2 DEF Message
<1> HIDE DEF m
<1>4. inbox' = (IF tabOpen THEN Append(inbox, m) ELSE inbox) BY <1>1 DEF m
<1>5. Typed'
  <2>1. inbox' \in Seq(Message) BY <1>2, <1>3, <1>4
  <2>2. pc' \in [Captures -> Stages] BY <1>1, <1>2 DEF Typed, Stages, Telling, Section
  <2>3. call' \in [Captures -> {"none", "out", "ok", "bad"}] BY <1>1, <1>2 DEF Typed
  <2> QED BY <1>2, <2>1, <2>2, <2>3 DEF Typed
<1>6. /\ pc'[c] = stage /\ call'[c] = (IF tabOpen THEN "out" ELSE "bad")
      /\ \A d \in Captures : d # c => pc'[d] = pc[d] /\ call'[d] = call[d]
  BY <1>1, <1>2 DEF Typed
<1>7. stage \in Section /\ stage # "capture" /\ stage \notin {"gone", "new", "resolved"}
  BY DEF Telling, Section
<1>8. \A d \in Captures : Live(d)' <=> d = c \/ Live(d) BY <1>6, <1>7 DEF Live, Turn
<1>9. Closed' BY <1>4, <1>6, <1>7 DEF IInv, Closed
<1>10. Meet' BY <1>6 DEF IInv, Meet, Turn
<1>11. Dropped' BY <1>6, <1>7 DEF IInv, Dropped
<1>12. Standing' BY <1>6, <1>7 DEF IInv, Standing, Turn
<1>13. Heads' BY <1>8 DEF IInv, Heads, Turn
<1>14. Rendered' BY DEF IInv, Rendered, Own
<1>15. CASE ~tabOpen
  <2>1. inbox' = <<>> BY <1>4, <1>15 DEF IInv, Closed
  <2>2. Mail' BY <2>1 DEF Mail
  <2>3. Page' /\ Duty' /\ Fresh' BY <1>15 DEF Page, Duty, Fresh
  <2> QED BY <1>5, <1>9, <1>10, <1>11, <1>12, <1>13, <1>14, <2>2, <2>3 DEF IInv
<1>16. CASE tabOpen
  <2>1. /\ n \in Nat /\ Len(inbox') = n + 1 /\ inbox' # <<>> /\ inbox'[n + 1] = m
        /\ \A i \in 1 .. n : inbox'[i] = inbox[i]
        /\ \A i \in 1 .. (n + 1) : i \in 1 .. n \/ i = n + 1
    BY <1>2, <1>3, <1>4, <1>16
  <2>2. \A i \in 1 .. n : inbox[i].by \in Captures /\ inbox[i].by # c
    BY Senders DEF IInv, Mail
  <2>3. Mail'
    <3>1. ASSUME NEW i \in 1 .. (n + 1)
          PROVE  /\ pc'[inbox'[i].by] \in Telling /\ call'[inbox'[i].by] = "out"
                 /\ inbox'[i].what = "annotate" <=> pc'[inbox'[i].by] = "annotate"
      <4>1. CASE i = n + 1 BY <1>3, <1>6, <1>16, <2>1, <4>1
      <4>2. CASE i \in 1 .. n BY <1>6, <2>1, <2>2, <4>2 DEF IInv, Mail
      <4> QED BY <2>1, <4>1, <4>2
    <3>2. ASSUME NEW i \in 1 .. (n + 1), NEW j \in 1 .. (n + 1), i # j
          PROVE  inbox'[i].by # inbox'[j].by
      <4>1. CASE i \in 1 .. n /\ j \in 1 .. n BY <2>1, <3>2, <4>1 DEF IInv, Mail
      <4>2. CASE i = n + 1 BY <1>3, <2>1, <2>2, <3>2, <4>2
      <4>3. CASE j = n + 1 BY <1>3, <2>1, <2>2, <3>2, <4>3
      <4> QED BY <2>1, <4>1, <4>2, <4>3
    <3> QED BY <2>1, <3>1, <3>2 DEF Mail
  <2>4. \A d \in Captures : Live(d)' <=> d = c BY <1>8, <1>16, NobodyElse
  <2>5. Page' BY <1>3, <1>6, <1>7, <1>16, <2>1, <2>4 DEF Page
  <2>6. Duty' BY <1>2, <2>4 DEF Duty
  <2>7. entry # None BY <1>16 DEF IInv, Meet, Turn
  <2>8. Fresh' BY <2>7 DEF Fresh
  <2> QED BY <1>5, <1>9, <1>10, <1>11, <1>12, <1>13, <1>14, <2>3, <2>5, <2>6, <2>8 DEF IInv
<1> QED BY <1>15, <1>16

\* It asks for the image; it knows what the page shows.
LEMMA ShootStep ==
  ASSUME IInv, NEW c, Turn(c), At(c, "capture"),
         call' = [call EXCEPT ![c] = IF tabOpen THEN "out" ELSE "bad"],
         tabOpen => inbox = <<>> /\ badges \in Own(c) /\ ~handoff[entry],
         UNCHANGED <<page, locks, own, late, stale, shot>>
  PROVE  IInv'
<1>1. pc' = [pc EXCEPT ![c] = "capture"] BY DEF At
<1>2. UNCHANGED <<tabOpen, inbox, badges, entry, queue, handoff>> BY DEF page, locks
<1>3. Typed /\ c \in Captures BY DEF IInv, Turn
<1>4. Typed'
  <2>1. pc' \in [Captures -> Stages] BY <1>1, <1>3 DEF Typed, Stages, Section
  <2>2. call' \in [Captures -> {"none", "out", "ok", "bad"}] BY <1>3 DEF Typed
  <2> QED BY <1>2, <1>3, <2>1, <2>2 DEF Typed
<1>5. /\ pc'[c] = "capture" /\ call'[c] = (IF tabOpen THEN "out" ELSE "bad")
      /\ \A d \in Captures : d # c => pc'[d] = pc[d] /\ call'[d] = call[d]
  BY <1>1, <1>3 DEF Typed
<1>6. \A d \in Captures : Live(d)' <=> d = c \/ Live(d) BY <1>5 DEF Live, Turn, Section
<1>7. Closed' /\ Meet' /\ Dropped'
  BY <1>2, <1>5 DEF IInv, Closed, Meet, Dropped, Turn, Section
<1>8. Standing' BY <1>5 DEF IInv, Standing, Turn, Section
<1>9. Heads' /\ Rendered' BY <1>2, <1>6 DEF IInv, Heads, Turn, Rendered, Own
<1>10. inbox = <<>> BY DEF IInv, Closed
<1>11. Mail' BY <1>2, <1>10 DEF Mail
<1>12. tabOpen => \A d \in Captures : Live(d)' <=> d = c BY <1>6, NobodyElse, <1>3
<1>13. Page' BY <1>2, <1>5, <1>10, <1>12 DEF Page, Own
<1>14. Duty' BY <1>2, <1>3, <1>12 DEF Duty
<1>15. Fresh' BY <1>2 DEF IInv, Fresh
<1> QED BY <1>4, <1>7, <1>8, <1>9, <1>11, <1>13, <1>14, <1>15 DEF IInv

LEMMA ProceedStep ==
  ASSUME IInv, NEW c, Turn(c), Proceed(c), pc[c] \in {"queued", "inherited"},
         pc[c] \in Telling => call[c] # "out",
         tabOpen => inbox = <<>> /\ badges = None /\ ~handoff[entry],
         UNCHANGED <<tabOpen, badges, locks, own, late, stale, shot>>
  PROVE  IInv'
<1>1. UNCHANGED <<entry, queue, handoff>> BY DEF locks
<1>2. handoff \in [Captures -> BOOLEAN] BY DEF IInv, Typed
<1>3. CASE c \in Annotating
  <2>1. At(c, "annotate") /\ Tell(c, "annotate") BY <1>3 DEF Proceed
  <2>2. "annotate" \in Telling BY DEF Telling
  <2> QED BY <1>1, <1>2, <1>3, <2>1, <2>2, TellStep
<1>4. CASE c \notin Annotating
  <2>1. /\ At(c, "capture") /\ inbox' = inbox
        /\ call' = [call EXCEPT ![c] = IF tabOpen THEN "out" ELSE "bad"]
    BY <1>4 DEF Proceed
  <2> QED BY <2>1, ShootStep DEF Own, page
<1> QED BY <1>3, <1>4

LEMMA EnterStep == ASSUME IInv, NEW c \in Captures, Enter(c) PROVE IInv'
<1>1. /\ pc[c] = "queued" /\ queue[own[c]] # <<>> /\ Head(queue[own[c]]) = c
      /\ UNCHANGED <<tabOpen, badges, entry, queue, own, late, stale, shot>>
  BY DEF Enter, Holds
<1>2. Typed /\ own[c] \in Captures /\ (tabOpen => own[c] = entry) /\ c \notin stale
  BY <1>1 DEF IInv, Meet, Waiting, Standing, Section
<1>3. Turn(c) /\ pc[c] \notin Telling BY <1>1, <1>2 DEF Turn, Waiting, Telling
<1>4. CASE handoff[own[c]]
  <2>1. At(c, "inherited") /\ Tell(c, "remove") /\ handoff' = [handoff EXCEPT ![own[c]] = FALSE]
    BY <1>4 DEF Enter
  <2>2. handoff' \in [Captures -> BOOLEAN] /\ handoff'[own[c]] = FALSE BY <1>2, <2>1 DEF Typed
  <2>3. "inherited" \in Telling BY DEF Telling
  <2> QED BY <1>1, <1>2, <1>3, <2>1, <2>2, <2>3, TellStep
<1>5. CASE ~handoff[own[c]]
  <2>1. Proceed(c) /\ handoff' = handoff BY <1>5 DEF Enter
  <2>2. tabOpen => \A d \in Captures : ~Live(d)
    BY <1>1, <1>3, NobodyElse DEF Live, Section
  <2>3. tabOpen => inbox = <<>> /\ badges = None BY <1>2, <1>5, <2>2 DEF IInv, Duty
  <2> QED BY <1>1, <1>2, <1>3, <1>5, <2>1, <2>3, ProceedStep DEF locks
<1> QED BY <1>4, <1>5

\* A capture leaves the section; if it is live it leaves a clean page.
LEMMA ExitStep ==
  ASSUME IInv, NEW c \in Captures, NEW stage \in {"fit", "failed"}, At(c, stage),
         pc[c] \in Section, Settled(c), call' = NoCall(c), stage = "fit" => shot[c].taken,
         queue' \in {queue, Released(c)},
         c \in stale \/ (tabOpen => inbox = <<>> /\ badges = None),
         UNCHANGED <<page, entry, handoff, own, late, stale, shot>>
  PROVE  IInv'
<1>1. pc' = [pc EXCEPT ![c] = stage] /\ call' = [call EXCEPT ![c] = "none"] BY DEF At, NoCall
<1>2. UNCHANGED <<tabOpen, inbox, badges>> BY DEF page
<1>3. Typed BY DEF IInv
<1>4. /\ queue' \in [Captures -> Seq(Captures)]
      /\ \A d \in Captures : Live(d) /\ d # c => queue'[own[d]] = queue[own[d]]
  BY <1>3, ReleasedLock DEF Typed
<1>5. Typed'
  <2>1. pc' \in [Captures -> Stages] BY <1>1, <1>3 DEF Typed, Stages
  <2>2. call' \in [Captures -> {"none", "out", "ok", "bad"}] BY <1>1, <1>3 DEF Typed
  <2> QED BY <1>2, <1>3, <1>4, <2>1, <2>2 DEF Typed
<1>6. /\ pc'[c] = stage /\ call'[c] = "none"
      /\ \A d \in Captures : d # c => pc'[d] = pc[d] /\ call'[d] = call[d]
  BY <1>1, <1>3 DEF Typed
<1>7. stage \notin Section \cup Waiting /\ stage \notin {"gone", "new", "resolved"}
  BY DEF Section, Waiting
<1>8. \A d \in Captures : Live(d)' <=> d # c /\ Live(d) BY <1>6, <1>7 DEF Live
<1>9. Closed' /\ Meet' BY <1>2, <1>6, <1>7 DEF IInv, Closed, Meet
<1>10. Dropped' BY <1>2, <1>6 DEF IInv, Dropped
<1>11. Standing' /\ Rendered' BY <1>6, <1>7 DEF IInv, Standing, Rendered, Own
<1>12. Heads' BY <1>4, <1>8 DEF IInv, Heads
<1>13. \A i \in 1 .. Len(inbox) : inbox[i].by \in Captures /\ inbox[i].by # c
  BY Senders DEF IInv, Mail, Settled
<1>14. Mail'
  <2>1. \A i \in 1 .. Len(inbox) : /\ pc'[inbox[i].by] = pc[inbox[i].by]
                                   /\ call'[inbox[i].by] = call[inbox[i].by]
    BY <1>6, <1>13
  <2> QED BY <1>2, <2>1 DEF IInv, Mail
<1>15. Page' BY <1>2, <1>6, <1>8 DEF IInv, Page, Own
<1>16. Duty'
  <2>1. c \in stale => ~Live(c) BY DEF Live
  <2> QED BY <1>2, <1>8, <2>1 DEF IInv, Duty
<1>17. Fresh' BY <1>2 DEF IInv, Fresh
<1> QED BY <1>5, <1>9, <1>10, <1>11, <1>12, <1>14, <1>15, <1>16, <1>17 DEF IInv

LEMMA InheritedStep == ASSUME IInv, NEW c \in Captures, Inherited(c) PROVE IInv'
<1>1. /\ pc[c] = "inherited" /\ Settled(c)
      /\ UNCHANGED <<tabOpen, badges, locks, own, late, stale, shot>>
  BY DEF Inherited
<1>2. UNCHANGED <<entry, queue, handoff>> /\ pc[c] \in Section BY <1>1 DEF locks, Section
<1>3. CASE c \in stale
  <2>1. At(c, "failed") /\ inbox' = inbox /\ call' = NoCall(c) BY <1>3 DEF Inherited
  <2> QED BY <1>1, <1>2, <1>3, <2>1, ExitStep DEF page
<1>4. CASE c \notin stale
  <2>1. Proceed(c) BY <1>4 DEF Inherited
  <2>2. Live(c) BY <1>2, <1>4 DEF Live
  <2>3. Turn(c) BY <2>2 DEF IInv, Heads, Live, Turn
  <2>4. tabOpen => inbox = <<>> /\ badges = None /\ ~handoff[entry]
    BY <1>1, <2>2 DEF IInv, Page, Settled
  <2> QED BY <1>1, <2>1, <2>3, <2>4, ProceedStep DEF Settled
<1> QED BY <1>3, <1>4

LEMMA AnnotatedStep == ASSUME IInv, NEW c \in Captures, Annotated(c) PROVE IInv'
<1>1. /\ pc[c] = "annotate" /\ Settled(c) /\ UNCHANGED <<page, locks, own, late, stale, shot>>
  BY DEF Annotated
<1>2. UNCHANGED <<entry, queue, handoff>> /\ pc[c] \in Section BY <1>1 DEF locks, Section
<1>3. CASE c \in stale
  <2>1. At(c, "failed") /\ call' = NoCall(c) BY <1>3 DEF Annotated
  <2> QED BY <1>1, <1>2, <1>3, <2>1, ExitStep
<1>4. CASE c \notin stale
  <2>1. At(c, "capture") /\ call' = [call EXCEPT ![c] = IF tabOpen THEN "out" ELSE "bad"]
    BY <1>4 DEF Annotated
  <2>2. Live(c) BY <1>2, <1>4 DEF Live
  <2>3. Turn(c) BY <2>2 DEF IInv, Heads, Live, Turn
  <2>4. tabOpen => inbox = <<>> /\ badges \in Own(c) /\ ~handoff[entry]
    BY <1>1, <2>2 DEF IInv, Page, Settled
  <2> QED BY <1>1, <2>1, <2>3, <2>4, ShootStep
<1> QED BY <1>3, <1>4

LEMMA LeaveStep ==
  ASSUME IInv, NEW c \in Captures, Leave(c), Settled(c),
         pc[c] = "clear" \/ (pc[c] = "capture" /\ c \notin Annotating \ stale),
         UNCHANGED <<page, entry, handoff, own, late, stale, shot>>
  PROVE  IInv'
<1>1. pc[c] \in Section BY DEF Section
<1>2. ASSUME c \notin stale, tabOpen PROVE inbox = <<>> /\ badges = None
  <2>1. Live(c) BY <1>1, <1>2 DEF Live
  <2> QED BY <1>2, <2>1 DEF IInv, Page, Settled, Own
<1> DEFINE stage == IF shot[c].taken THEN "fit" ELSE "failed"
<1>3. At(c, stage) /\ call' = NoCall(c) /\ queue' = Released(c) BY DEF Leave
<1>4. stage \in {"fit", "failed"} /\ (stage = "fit" => shot[c].taken) OBVIOUS
<1> HIDE DEF stage
<1> QED BY <1>1, <1>2, <1>3, <1>4, ExitStep

LEMMA CapturedStep == ASSUME IInv, NEW c \in Captures, Captured(c) PROVE IInv'
<1>1. /\ pc[c] = "capture" /\ Settled(c)
      /\ UNCHANGED <<tabOpen, badges, entry, handoff, own, late, stale, shot>>
  BY DEF Captured
<1>2. CASE c \in Annotating \ stale
  <2>1. At(c, "clear") /\ Tell(c, "remove") /\ queue' = queue BY <1>2 DEF Captured
  <2>2. Live(c) BY <1>1, <1>2 DEF Live, Section
  <2>3. Turn(c) BY <2>2 DEF IInv, Heads, Live, Turn
  <2>4. tabOpen => ~handoff[entry] BY <2>2 DEF IInv, Page
  <2>5. handoff \in [Captures -> BOOLEAN] BY DEF IInv, Typed
  <2>6. "clear" \in Telling /\ pc[c] \notin Telling BY <1>1 DEF Telling
  <2> QED BY <1>1, <1>2, <2>1, <2>3, <2>4, <2>5, <2>6, TellStep
<1>3. CASE c \notin Annotating \ stale
  <2>1. Leave(c) /\ inbox' = inbox BY <1>3 DEF Captured
  <2> QED BY <1>1, <1>3, <2>1, LeaveStep DEF page
<1> QED BY <1>2, <1>3

LEMMA EvictStep == ASSUME IInv, NEW c \in Captures, Evict(c) PROVE IInv'
<1>1. /\ pc[c] \in Section /\ c \notin stale
      /\ stale' = stale \cup {c} /\ queue' = Released(c)
      /\ handoff' = [handoff EXCEPT ![own[c]] = @ \/ c \in Annotating \/ pc[c] = "inherited"]
      /\ UNCHANGED <<page, entry, pc, own, call, late, shot>>
  BY DEF Evict
<1>2. UNCHANGED <<tabOpen, inbox, badges>> BY <1>1 DEF page
<1>3. Typed /\ own[c] \in Captures /\ (tabOpen => own[c] = entry) BY <1>1 DEF IInv, Meet
<1>4. /\ queue' \in [Captures -> Seq(Captures)]
      /\ \A d \in Captures : Live(d) /\ d # c => queue'[own[d]] = queue[own[d]]
  BY <1>1, ReleasedLock
<1>5. handoff' \in [Captures -> BOOLEAN]
  <2>1. (handoff[own[c]] \/ c \in Annotating \/ pc[c] = "inherited") \in BOOLEAN OBVIOUS
  <2> QED BY <1>1, <1>3, <2>1 DEF Typed
<1>6. Typed' BY <1>1, <1>2, <1>3, <1>4, <1>5 DEF Typed
<1>7. Live(c) /\ \A d \in Captures : Live(d)' <=> d # c /\ Live(d) BY <1>1 DEF Live
<1>8. Closed' /\ Meet' /\ Dropped' BY <1>1, <1>2 DEF IInv, Closed, Meet, Dropped
<1>9. Standing' /\ Rendered' BY <1>1 DEF IInv, Standing, Rendered, Own
<1>10. Heads' BY <1>1, <1>4, <1>7 DEF IInv, Heads
<1>11. Mail' BY <1>1, <1>2 DEF IInv, Mail
<1>12. tabOpen => \A d \in Captures : ~Live(d)' BY <1>7, OneLive
<1>13. Page' BY <1>2, <1>12 DEF Page
<1>14. Duty'
  <2> SUFFICES ASSUME tabOpen, ~handoff'[entry], entry # None PROVE inbox = <<>> /\ badges = None
    BY <1>1, <1>2, <1>3 DEF Duty
  <2>1. c \notin Annotating /\ pc[c] # "inherited" BY <1>1, <1>3 DEF Typed
  <2>2. pc[c] = "capture" BY <1>1, <2>1 DEF IInv, Standing, Section
  <2> QED BY <1>7, <2>1, <2>2 DEF IInv, Page, Own
<1>15. Fresh' BY <1>1, <1>2, <1>3 DEF Fresh
<1> QED BY <1>6, <1>8, <1>9, <1>10, <1>11, <1>13, <1>14, <1>15 DEF IInv

LEMMA InvNext == IInv /\ [Next]_vars => IInv'
<1> SUFFICES ASSUME IInv, [Next]_vars PROVE IInv' OBVIOUS
<1>1. CASE UNCHANGED vars \/ Idle BY <1>1, IdleStep DEF Idle
<1>2. CASE PageRuns BY <1>2, PageRunsStep
<1>3. CASE PageReloads BY <1>3, PageReloadsStep
<1>4. CASE TabRemoved BY <1>4, TabRemovedStep
<1>5. ASSUME NEW c \in Captures,
             Resolve(c) \/ Begin(c) \/ Ready(c) \/ GiveUp(c) \/ Fit(c) \/ Look(c) \/ DropEntry(c)
      PROVE  IInv'
  BY <1>5, ResolveStep, BeginStep, ReadyStep, GiveUpStep, EndStep
<1>6. ASSUME NEW c \in Captures, Enter(c) \/ Inherited(c) \/ Annotated(c) \/ Captured(c) PROVE IInv'
  BY <1>6, EnterStep, InheritedStep, AnnotatedStep, CapturedStep
<1>7. ASSUME NEW c \in Captures, Cleared(c) PROVE IInv'
  BY <1>7, LeaveStep DEF Cleared
<1>8. ASSUME NEW c \in Captures, Render(c) \/ Deadline(c) \/ Evict(c) PROVE IInv'
  BY <1>8, RenderStep, DeadlineStep, EvictStep
<1> QED BY <1>1, <1>2, <1>3, <1>4, <1>5, <1>6, <1>7, <1>8 DEF Next

THEOREM InvAlways == Spec => []IInv
  BY InvInit, InvNext, PTL DEF Spec

\* An image that is answered shows no badges but those its own command asked for: for
\* any number of captures, whatever deadlines evict which holder while the page
\* is frozen, reloads or goes.
THEOREM CaptureOwnImage == Spec => []OwnImage
<1>1. IInv => OwnImage BY DEF IInv, Rendered, OwnImage, Own
<1> QED BY <1>1, InvAlways, PTL

\* The captures of an open tab meet in the one lock object of the registry, and once they
\* are over no entry outlives the tab.
THEOREM CaptureOneRendezvous == Spec => []OneRendezvous
<1>1. IInv => OneRendezvous
  BY DEF IInv, Meet, Dropped, OneRendezvous, Waiting, Section
<1> QED BY <1>1, InvAlways, PTL
=============================================================================
