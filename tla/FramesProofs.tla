---------------------------- MODULE FramesProofs ----------------------------
(***************************************************************************)
(* What Frames guarantees for any frames, urls, waits and numbers of       *)
(* documents and watches.                                                  *)
(*                                                                         *)
(* A port is admitted on the word of a pending record that was written for *)
(* another document of the same url.  That the port on record then is the  *)
(* newest there is, of a document this watch was told of, rests on the     *)
(* order of reports: PortsSound and PendingSound say what is known of the       *)
(* documents before and after the one a record was written for.            *)
(***************************************************************************)
EXTENDS Frames, TLAPS

USE FramesAssumption

Stages == {"new", "waiting", "sending", "asked", "lookup", "delay", "found", "answered", "timeout",
           "unwatched", "closed"}

Ports == {"none", "connecting", "open", "dropped"}

Scripts == {"none", "running", "silent"}

\* The registry and the documents have their types.
Typed ==
  /\ loads \in Nat /\ loads <= MaxDocs
  /\ live \in [ChildFrames -> 0 .. loads]
  /\ doc \in [Docs -> [frame : ChildFrames, url : Urls]]
  /\ port \in [Docs -> Ports] /\ script \in [Docs -> Scripts]
  /\ seen \in [Docs -> Nat] /\ watch \in Nat /\ generation \in Nat
  /\ pending \in [ChildFrames -> 0 .. loads] /\ entry \in [ChildFrames -> 0 .. loads]
  /\ quiet \subseteq 1 .. loads /\ bye \subseteq 1 .. loads

\* A frame shows the last document it loaded, until the tab goes; then nothing is
\* reported or awaited any more.
Loaded ==
  /\ ~tabOpen => quiet = {} /\ \A f \in ChildFrames : pending[f] = 0
  /\ \A f \in ChildFrames : live[f] # 0 => doc[live[f]].frame = f
  /\ \A d \in Docs : d > loads => port[d] = "none" /\ script[d] = "none"
  /\ \A d \in 1 .. loads : tabOpen => d <= live[doc[d].frame]

SameFrame(d, e) == doc[d].frame = doc[e].frame

\* The registry was told of document d, or was not there to hear it.
Reported(d) == d \in 1 .. loads /\ d \notin quiet

\* The documents of a frame report in order.
InOrder ==
  \A d, e \in Docs : d < e /\ SameFrame(d, e) /\ Reported(e) => d \notin quiet

\* A port is opened by a script in a document that was reported; while it connects,
\* no later document of its frame and url has been.
PortsSound ==
  \A d \in Docs :
    /\ port[d] # "none" => d \notin quiet /\ script[d] # "none"
    /\ port[d] = "connecting" /\ tabOpen => IsLive(d) \/ d \in bye
    /\ d \in bye => ~IsLive(d)
    /\ port[d] = "connecting" /\ tabOpen =>
         \A e \in Docs : d < e /\ Reported(e) /\ SameFrame(e, d) => doc[e].url # doc[d].url

\* A pending record is of this watch; what the frame loaded before was reported,
\* and what it reported since repeats the record.
PendingSound ==
  \A f \in ChildFrames : pending[f] # 0 =>
     /\ watch # 0 /\ doc[pending[f]].frame = f
     /\ doc[pending[f]].url \in Matching /\ seen[pending[f]] = watch
     /\ \A d \in Docs : d <= pending[f] /\ doc[d].frame = f => d \notin quiet
     /\ \A e \in Docs : pending[f] < e /\ Reported(e) /\ doc[e].frame = f =>
          seen[e] = watch /\ doc[e].url = doc[pending[f]].url

EntryFrames == \A f \in ChildFrames : entry[f] # 0 => doc[entry[f]].frame = f

RegInv == Typed /\ Loaded /\ InOrder /\ PortsSound /\ PendingSound /\ EntryFrames /\ EntriesExact

RegVars == <<documents, script, port, bye, seen, watch, generation, pending, entry>>

LEMMA Bounds == MaxDocs \in Nat /\ Docs = 1 .. MaxDocs
  BY DEF Docs

LEMMA Numbers ==
  ASSUME Typed
  PROVE  /\ \A d \in 1 .. loads : d \in Docs
         /\ \A d \in Docs : d \in 1 .. loads \/ d > loads
         /\ \A f \in ChildFrames : /\ live[f] # 0 => live[f] \in 1 .. loads
                                   /\ pending[f] # 0 => pending[f] \in 1 .. loads
                                   /\ entry[f] # 0 => entry[f] \in 1 .. loads
<1>1. loads \in Nat /\ loads <= MaxDocs BY DEF Typed
<1>2. \A x \in 0 .. loads : x # 0 => x \in 1 .. loads BY <1>1
<1>3. \A f \in ChildFrames : live[f] \in 0 .. loads /\ pending[f] \in 0 .. loads /\ entry[f] \in 0 .. loads
  BY DEF Typed
<1>4. \A d \in Docs : d \in 1 .. loads \/ d > loads BY <1>1, Bounds
<1>5. \A d \in 1 .. loads : d \in Docs BY <1>1, Bounds
<1> QED BY <1>2, <1>3, <1>4, <1>5

LEMMA RegInit == Init => RegInv
<1> SUFFICES ASSUME Init PROVE RegInv OBVIOUS
<1>1. (CHOOSE f \in ChildFrames : TRUE) \in ChildFrames /\ (CHOOSE u \in Urls : TRUE) \in Urls
  OBVIOUS
<1>2. Typed BY <1>1, Bounds DEF Init, Typed, Ports, Scripts
<1>3. Loaded BY Bounds DEF Init, Loaded
<1>4. PortsSound /\ InOrder BY Bounds DEF Init, PortsSound, InOrder, Reported, IsLive
<1>5. PendingSound /\ EntryFrames /\ EntriesExact
  BY Bounds DEF Init, PendingSound, EntryFrames, EntriesExact, EntrySound, NoStray, IsLive
<1> QED BY <1>2, <1>3, <1>4, <1>5 DEF RegInv

LEMMA RegSame == ASSUME RegInv, UNCHANGED RegVars PROVE RegInv'
  BY DEF RegInv, RegVars, documents, Typed, Loaded, InOrder, PortsSound, PendingSound, EntryFrames,
         EntriesExact, EntrySound, NoStray, IsLive, Reported, SameFrame

LEMMA WatchStep == ASSUME RegInv, Watch PROVE RegInv'
<1>1. /\ watch = 0 /\ watch' = generation + 1 /\ generation' = generation + 1
      /\ UNCHANGED <<documents, script, port, bye, seen, pending, entry>>
  BY DEF Watch
<1>2. UNCHANGED <<tabOpen, loads, live, doc, quiet>> BY <1>1 DEF documents
<1>3. \A f \in ChildFrames : entry[f] = 0 /\ pending[f] = 0
  BY <1>1 DEF RegInv, EntriesExact, EntrySound, PendingSound
<1>4. Typed' /\ Loaded' BY <1>1, <1>2 DEF RegInv, Typed, Loaded
<1>5. PortsSound' /\ InOrder'
  BY <1>1, <1>2 DEF RegInv, PortsSound, InOrder, IsLive, Reported, SameFrame
<1>6. PendingSound' /\ EntryFrames' BY <1>1, <1>2, <1>3 DEF PendingSound, EntryFrames
<1>7. EntriesExact' BY <1>1, <1>2, <1>3 DEF RegInv, EntriesExact, EntrySound, NoStray, IsLive
<1> QED BY <1>4, <1>5, <1>6, <1>7 DEF RegInv

LEMMA UnwatchStep == ASSUME RegInv, Unwatch PROVE RegInv'
<1>1. /\ watch' = 0 /\ generation' = generation + 1 /\ port' = Released
      /\ pending' = [f \in ChildFrames |-> 0] /\ entry' = [f \in ChildFrames |-> 0]
      /\ UNCHANGED <<documents, script, bye, seen>>
  BY DEF Unwatch
<1>2. UNCHANGED <<tabOpen, loads, live, doc, quiet>> BY <1>1 DEF documents
<1>3. Typed BY DEF RegInv
<1>4. \A d \in Docs : port'[d] = IF entry[doc[d].frame] = d THEN "dropped" ELSE port[d]
  BY <1>1 DEF Released
<1>5. ASSUME NEW d \in Docs, entry[doc[d].frame] = d PROVE port[d] = "open"
  <2>1. doc[d].frame \in ChildFrames /\ d # 0 BY <1>3, Bounds DEF Typed
  <2> QED BY <2>1, <1>5 DEF RegInv, EntriesExact, EntrySound
<1>6. port' \in [Docs -> Ports] BY <1>1, <1>3 DEF Released, Typed, Ports
<1>7. Typed' BY <1>1, <1>2, <1>3, <1>6 DEF Typed
<1>8. Loaded' BY <1>1, <1>2, <1>4, <1>5 DEF RegInv, Loaded
<1>9. PortsSound' /\ InOrder'
  BY <1>1, <1>2, <1>4, <1>5 DEF RegInv, PortsSound, InOrder, IsLive, Reported, SameFrame
<1>10. PendingSound' /\ EntryFrames' BY <1>1 DEF PendingSound, EntryFrames
<1>11. EntriesExact'
  <2>1. EntrySound' BY <1>1 DEF EntrySound
  <2>2. NoStray' BY <1>2, <1>4 DEF RegInv, EntriesExact, NoStray, IsLive
  <2> QED BY <2>1, <2>2 DEF EntriesExact
<1> QED BY <1>7, <1>8, <1>9, <1>10, <1>11 DEF RegInv

LEMMA TabRemovedStep == ASSUME RegInv, TabRemoved PROVE RegInv'
<1>1. /\ ~tabOpen' /\ live' = [f \in ChildFrames |-> 0] /\ quiet' = {} /\ watch' = 0
      /\ pending' = [f \in ChildFrames |-> 0] /\ entry' = [f \in ChildFrames |-> 0]
      /\ UNCHANGED <<loads, doc, script, port, bye, seen, generation>>
  BY DEF TabRemoved
<1>2. Typed BY DEF RegInv
<1>3. Typed' BY <1>1, <1>2 DEF Typed
<1>4. \A d \in Docs : ~IsLive(d)' BY <1>1, <1>2, Bounds DEF IsLive, Typed
<1>5. Loaded' BY <1>1 DEF RegInv, Loaded
<1>6. PortsSound' /\ InOrder' BY <1>1, <1>4 DEF RegInv, PortsSound, InOrder
<1>7. PendingSound' /\ EntryFrames' BY <1>1 DEF PendingSound, EntryFrames
<1>8. EntriesExact' BY <1>1, <1>4 DEF EntriesExact, EntrySound, NoStray
<1> QED BY <1>3, <1>5, <1>6, <1>7, <1>8 DEF RegInv

LEMMA NavigateStep ==
  ASSUME RegInv, NEW f \in ChildFrames, NEW u \in Urls, Navigate(f, u) PROVE RegInv'
<1> DEFINE n == loads + 1
<1>1. /\ tabOpen /\ n \in Docs /\ loads' = n /\ live' = [live EXCEPT ![f] = n]
      /\ doc' = [doc EXCEPT ![n] = [frame |-> f, url |-> u]] /\ quiet' = quiet \cup {n}
      /\ bye' = IF live[f] # 0 /\ port[live[f]] \in {"connecting", "open"}
                THEN bye \cup {live[f]} ELSE bye
      /\ UNCHANGED <<tabOpen, script, port, seen, watch, generation, pending, entry>>
  BY DEF Navigate, registry
<1>2. Typed BY DEF RegInv
<1>3. \A d \in 1 .. loads : d \in Docs /\ d # n /\ doc'[d] = doc[d]
  BY <1>1, <1>2, Bounds DEF Typed
<1>4. Typed' /\ doc'[n].frame = f
  <2>1. doc' \in [Docs -> [frame : ChildFrames, url : Urls]] /\ doc'[n].frame = f
    BY <1>1, <1>2 DEF Typed
  <2>2. n \in Nat /\ n <= MaxDocs /\ loads < n BY <1>1, <1>2, Bounds DEF Typed
  <2>3. live' \in [ChildFrames -> 0 .. n] BY <1>1, <1>2, <2>2 DEF Typed
  <2>4. pending' \in [ChildFrames -> 0 .. n] /\ entry' \in [ChildFrames -> 0 .. n]
    BY <1>1, <1>2, <2>2 DEF Typed
  <2>5. quiet' \subseteq 1 .. n BY <1>1, <1>2, <2>2 DEF Typed
  <2>6. bye' \subseteq 1 .. n
    <3>1. bye \subseteq 1 .. loads BY <1>2 DEF Typed
    <3>2. live[f] # 0 => live[f] \in 1 .. loads BY <1>2, Numbers
    <3>3. loads \in Nat BY <1>2 DEF Typed
    <3>4. \A x \in 1 .. loads : x \in 1 .. n BY <3>3
    <3> QED BY <1>1, <3>1, <3>2, <3>4
  <2> QED BY <1>1, <1>2, <2>1, <2>2, <2>3, <2>4, <2>5, <2>6 DEF Typed
<1>5. \A d \in 1 .. loads : IsLive(d)' => IsLive(d) /\ doc[d].frame # f
  BY <1>1, <1>2, <1>3, Bounds DEF IsLive, Typed
<1>6. \A d \in Docs : d > n \/ d = n \/ d \in 1 .. loads BY <1>2, Bounds DEF Typed
<1>7. port[n] = "none" /\ script[n] = "none" /\ n \notin bye /\ n \in quiet'
  <2>1. loads \in Nat /\ n > loads /\ bye \subseteq 1 .. loads BY <1>2 DEF Typed
  <2> QED BY <1>1, <2>1 DEF RegInv, Loaded
<1>17. \A d \in Docs : port[d] # "none" => d \in 1 .. loads
  BY <1>2, Numbers DEF RegInv, Loaded
<1>8. \A d \in Docs : Reported(d)' => d \in 1 .. loads /\ Reported(d)
  BY <1>1, <1>2, <1>6, <1>7 DEF Reported, Typed
<1>9. Loaded'
  <2>1. \A g \in ChildFrames : live'[g] # 0 => doc'[live'[g]].frame = g
    BY <1>1, <1>2, <1>3, <1>4 DEF RegInv, Loaded, Typed
  <2>2. \A d \in Docs : d > n => d > loads BY <1>2, Bounds DEF Typed
  <2>3. ASSUME NEW d \in 1 .. n PROVE d <= live'[doc'[d].frame]
    <3>1. loads \in Nat BY <1>2 DEF Typed
    <3>2. CASE d = n BY <1>1, <1>2, <1>4, <3>1, <3>2 DEF Typed
    <3>3. CASE d \in 1 .. loads
      <4>1. /\ d <= live[doc[d].frame] /\ doc'[d] = doc[d] /\ doc[d].frame \in ChildFrames
        BY <1>1, <1>2, <1>3, <3>3 DEF RegInv, Loaded, Typed
      <4>2. live'[doc[d].frame] = IF doc[d].frame = f THEN n ELSE live[doc[d].frame]
        BY <1>1, <1>2, <4>1 DEF Typed
      <4> QED BY <3>1, <3>3, <4>1, <4>2
    <3> QED BY <3>1, <3>2, <3>3
  <2> QED BY <1>1, <2>1, <2>2, <2>3 DEF RegInv, Loaded
<1>10. InOrder'
  <2> SUFFICES ASSUME NEW d \in Docs, NEW e \in Docs, d < e, SameFrame(d, e)', Reported(e)'
               PROVE d \notin quiet'
    BY DEF InOrder
  <2>1. e \in 1 .. loads /\ Reported(e) BY <1>8
  <2>2. d \in 1 .. loads /\ loads \in Nat BY <1>2, <2>1, Bounds DEF Typed
  <2>3. d \notin quiet BY <1>3, <2>1, <2>2 DEF RegInv, InOrder, SameFrame
  <2> QED BY <1>1, <1>3, <2>2, <2>3
<1>11. PortsSound'
  <2> SUFFICES ASSUME NEW d \in Docs, port[d] # "none" \/ d \in bye'
               PROVE /\ port[d] # "none" => d \notin quiet' /\ script[d] # "none"
                     /\ port[d] = "connecting" => IsLive(d)' \/ d \in bye'
                     /\ d \in bye' => ~IsLive(d)'
                     /\ port[d] = "connecting" =>
                          \A e \in Docs : d < e /\ Reported(e)' /\ SameFrame(e, d)' =>
                                         doc'[e].url # doc'[d].url
    BY <1>1 DEF PortsSound
  <2>1. d \in 1 .. loads
    <3>1. live[f] \in 0 .. loads /\ bye \subseteq 1 .. loads BY <1>2 DEF Typed
    <3> QED BY <1>1, <1>17, <3>1
  <2>2. port[d] # "none" => d \notin quiet' /\ script[d] # "none"
    BY <1>1, <1>3, <2>1 DEF RegInv, PortsSound
  <2>3. port[d] = "connecting" => IsLive(d)' \/ d \in bye'
    <3>1. CASE doc[d].frame = f
      BY <1>1, <3>1 DEF RegInv, PortsSound, IsLive
    <3>2. CASE doc[d].frame # f
      BY <1>1, <1>2, <1>3, <2>1, <3>2 DEF RegInv, PortsSound, IsLive, Typed
    <3> QED BY <3>1, <3>2
  <2>4. d \in bye' => ~IsLive(d)'
    <3>1. CASE d \in bye BY <1>5, <2>1, <3>1 DEF RegInv, PortsSound
    <3>2. CASE d \notin bye
      <4>1. d \in bye' => doc[d].frame = f BY <1>1, <3>2 DEF RegInv, Loaded
      <4> QED BY <4>1, <1>5, <2>1
    <3> QED BY <3>1, <3>2
  <2>5. port[d] = "connecting" =>
          \A e \in Docs : d < e /\ Reported(e)' /\ SameFrame(e, d)' => doc'[e].url # doc'[d].url
    BY <1>1, <1>3, <1>8, <2>1 DEF RegInv, PortsSound, SameFrame
  <2> QED BY <2>2, <2>3, <2>4, <2>5
<1>12. PendingSound'
  <2> SUFFICES ASSUME NEW g \in ChildFrames, pending[g] # 0
               PROVE /\ watch # 0 /\ doc'[pending[g]].frame = g
                     /\ doc'[pending[g]].url \in Matching /\ seen[pending[g]] = watch
                     /\ \A d \in Docs : d <= pending[g] /\ doc'[d].frame = g => d \notin quiet'
                     /\ \A e \in Docs : pending[g] < e /\ Reported(e)' /\ doc'[e].frame = g =>
                          seen[e] = watch /\ doc'[e].url = doc'[pending[g]].url
    BY <1>1 DEF PendingSound
  <2>1. pending[g] \in 1 .. loads BY <1>2 DEF Typed
  <2>2. \A d \in Docs : d <= pending[g] => d \in 1 .. loads BY <1>2, <2>1, Bounds DEF Typed
  <2>3. \A d \in Docs : d <= pending[g] /\ doc'[d].frame = g => d \notin quiet'
    BY <1>1, <1>3, <2>2 DEF RegInv, PendingSound
  <2>4. \A e \in Docs : pending[g] < e /\ Reported(e)' /\ doc'[e].frame = g =>
                          seen[e] = watch /\ doc'[e].url = doc'[pending[g]].url
    BY <1>3, <1>8, <2>1 DEF RegInv, PendingSound
  <2> QED BY <1>3, <2>1, <2>3, <2>4 DEF RegInv, PendingSound
<1>13. \A g \in ChildFrames : entry[g] # 0 => entry[g] \in 1 .. loads BY <1>2 DEF Typed
<1>14. EntryFrames' BY <1>1, <1>3, <1>13 DEF RegInv, EntryFrames
<1>15. EntrySound'
  <2> SUFFICES ASSUME NEW g \in ChildFrames, entry[g] # 0
               PROVE /\ watch # 0 /\ seen[entry[g]] = watch /\ doc'[entry[g]].url \in Matching
                     /\ port[entry[g]] = "open" /\ (IsLive(entry[g])' \/ entry[g] \in bye')
    BY <1>1 DEF EntrySound
  <2>1. doc'[entry[g]] = doc[entry[g]] /\ doc[entry[g]].frame = g
    BY <1>3, <1>13 DEF RegInv, EntryFrames
  <2>2. /\ watch # 0 /\ seen[entry[g]] = watch /\ doc[entry[g]].url \in Matching
        /\ port[entry[g]] = "open" /\ (IsLive(entry[g]) \/ entry[g] \in bye)
    BY DEF RegInv, EntriesExact, EntrySound
  <2>3. IsLive(entry[g])' \/ entry[g] \in bye'
    BY <1>1, <1>2, <2>1, <2>2 DEF IsLive, Typed
  <2> QED BY <2>1, <2>2, <2>3
<1>16. NoStray'
  <2> SUFFICES ASSUME NEW d \in Docs, IsLive(d)', port[d] = "open"
               PROVE entry[doc'[d].frame] = d
    BY <1>1 DEF NoStray
  <2>1. d \in 1 .. loads BY <1>17
  <2> QED BY <1>3, <1>5, <2>1 DEF RegInv, EntriesExact, NoStray
<1> QED BY <1>4, <1>9, <1>10, <1>11, <1>12, <1>14, <1>15, <1>16 DEF RegInv, EntriesExact

LEMMA RunScriptStep == ASSUME RegInv, NEW d \in Docs, RunScript(d) PROVE RegInv'
<1> DEFINE now == live[doc[d].frame]
<1>1. /\ now # 0 /\ now \notin quiet
      /\ script' = (IF script[now] = "none" THEN [script EXCEPT ![now] = "running"] ELSE script)
      /\ port' = (IF script[now] = "none" THEN [port EXCEPT ![now] = "connecting"] ELSE port)
      /\ UNCHANGED <<tabOpen, loads, live, doc, quiet, bye, seen, watch, generation, pending, entry>>
  BY DEF RunScript, documents, registry
<1>2. CASE script[now] # "none" BY <1>1, <1>2, RegSame DEF RegVars, documents
<1>3. CASE script[now] = "none"
  <2>1. Typed BY DEF RegInv
  <2>2. /\ doc[d].frame \in ChildFrames /\ now \in 1 .. loads /\ now \in Docs
        /\ doc[now].frame = doc[d].frame
    <3>1. doc[d].frame \in ChildFrames BY <2>1 DEF Typed
    <3> QED BY <1>1, <2>1, <3>1, Numbers DEF RegInv, Loaded
  <2>3. IsLive(now) /\ port[now] = "none"
    BY <1>1, <1>3, <2>2 DEF IsLive, RegInv, PortsSound
  <2>4. /\ script' = [script EXCEPT ![now] = "running"]
        /\ port' = [port EXCEPT ![now] = "connecting"]
    BY <1>1, <1>3
  <2>5. Typed' BY <1>1, <2>1, <2>2, <2>4 DEF Typed, Ports, Scripts
  <2>6. \A c \in Docs : c # now => port'[c] = port[c] /\ script'[c] = script[c]
    BY <2>1, <2>4 DEF Typed
  <2>7. port'[now] = "connecting" /\ script'[now] = "running" BY <2>1, <2>2, <2>4 DEF Typed
  <2>8. ~(now > loads) BY <2>1, <2>2 DEF Typed
  <2>9. Loaded' BY <1>1, <2>6, <2>8 DEF RegInv, Loaded
  <2>10. InOrder' BY <1>1 DEF RegInv, InOrder, SameFrame, Reported
  <2>11. tabOpen => \A e \in Docs : now < e /\ Reported(e) => ~SameFrame(e, now)
    BY <2>1, <2>2, Bounds DEF RegInv, Loaded, Reported, SameFrame, Typed
  <2>12. PortsSound'
    BY <1>1, <2>3, <2>6, <2>7, <2>11 DEF RegInv, PortsSound, IsLive, Reported, SameFrame
  <2>13. PendingSound' /\ EntryFrames'
    BY <1>1 DEF RegInv, PendingSound, EntryFrames, Reported
  <2>14. \A c \in Docs : port[c] = "open" <=> port'[c] = "open" BY <2>3, <2>6, <2>7
  <2>15. \A f \in ChildFrames : entry[f] # 0 => entry[f] \in Docs BY <2>1, Numbers
  <2>16. EntriesExact'
    BY <1>1, <2>14, <2>15 DEF RegInv, EntriesExact, EntrySound, NoStray, IsLive
  <2> QED BY <2>5, <2>9, <2>10, <2>12, <2>13, <2>16 DEF RegInv
<1> QED BY <1>2, <1>3

LEMMA DeactivateStep == ASSUME RegInv, NEW d \in Docs, Deactivate(d) PROVE RegInv'
<1>1. /\ port[d] = "dropped" /\ script[d] = "running" /\ script' = [script EXCEPT ![d] = "silent"]
      /\ UNCHANGED <<tabOpen, loads, live, doc, quiet, port, bye, seen, watch, generation, pending, entry>>
  BY DEF Deactivate, documents, registry
<1>2. Typed BY DEF RegInv
<1>3. script' \in [Docs -> Scripts] BY <1>1, <1>2 DEF Typed, Scripts
<1>4. \A c \in Docs : script'[c] = "none" <=> script[c] = "none" BY <1>1, <1>2 DEF Typed
<1>5. Typed' BY <1>1, <1>2, <1>3 DEF Typed
<1>6. Loaded' BY <1>1, <1>4 DEF RegInv, Loaded
<1>7. PortsSound' /\ InOrder'
  BY <1>1, <1>4 DEF RegInv, PortsSound, InOrder, IsLive, Reported, SameFrame
<1>8. PendingSound' /\ EntryFrames' BY <1>1 DEF RegInv, PendingSound, EntryFrames, Reported
<1>9. EntriesExact' BY <1>1 DEF RegInv, EntriesExact, EntrySound, NoStray, IsLive
<1> QED BY <1>5, <1>6, <1>7, <1>8, <1>9 DEF RegInv

LEMMA FrameLoadedStep == ASSUME RegInv, NEW d \in Docs, FrameLoaded(d) PROVE RegInv'
<1> DEFINE f == doc[d].frame
<1>1. /\ d \in quiet /\ quiet' = quiet \ {d}
      /\ \A e \in 1 .. (d - 1) : doc[e].frame = f =>
           e \notin quiet /\ (port[e] = "connecting" => doc[e].url # doc[d].url)
      /\ UNCHANGED <<tabOpen, loads, live, doc, script, port, bye, watch, generation, entry>>
  BY DEF FrameLoaded
<1>2. \/ watch = 0 /\ UNCHANGED <<seen, pending>>
      \/ watch # 0 /\ seen' = [seen EXCEPT ![d] = watch]
         /\ \/ pending' = [pending EXCEPT ![f] = 0]
            \/ pending' = pending /\ Awaited(d)
            \/ pending' = [pending EXCEPT ![f] = d] /\ doc[d].url \in Matching
  BY DEF FrameLoaded
<1>3. Typed BY DEF RegInv
<1>4. /\ d \in 1 .. loads /\ f \in ChildFrames /\ loads \in Nat /\ port[d] = "none"
      /\ \A e \in Docs : e < d => e \in 1 .. (d - 1)
  <2>1. d \in 1 .. loads /\ f \in ChildFrames /\ loads \in Nat BY <1>1, <1>3 DEF Typed
  <2>2. port[d] = "none" BY <1>1 DEF RegInv, PortsSound
  <2>3. \A e \in Docs : e < d => e \in 1 .. (d - 1) BY Bounds
  <2> QED BY <2>1, <2>2, <2>3
<1>5. \A e \in Docs : Reported(e)' <=> e = d \/ Reported(e) BY <1>1, <1>4 DEF Reported
<1>6. \A e \in Docs : d < e /\ doc[e].frame = f => ~Reported(e)
  BY <1>1 DEF RegInv, InOrder, SameFrame
<1>7. \A e \in Docs : e # d => seen'[e] = seen[e] BY <1>2, <1>3 DEF Typed
<1>8. watch # 0 => seen'[d] = watch BY <1>2, <1>3 DEF Typed
<1>9. \A g \in ChildFrames : g # f => pending'[g] = pending[g] BY <1>2, <1>3, <1>4 DEF Typed
<1>10. Typed'
  <2>1. seen' \in [Docs -> Nat] BY <1>2, <1>3 DEF Typed
  <2>2. pending' \in [ChildFrames -> 0 .. loads] BY <1>2, <1>3, <1>4 DEF Typed
  <2> QED BY <1>1, <1>3, <2>1, <2>2 DEF Typed
<1>11. Loaded' BY <1>1 DEF RegInv, Loaded
<1>12. InOrder' BY <1>1, <1>4, <1>5, <1>6 DEF RegInv, InOrder, SameFrame
<1>13. PortsSound'
  BY <1>1, <1>4, <1>5, Bounds DEF RegInv, PortsSound, IsLive, SameFrame
<1>14. PendingSound'
  <2> SUFFICES ASSUME NEW g \in ChildFrames, pending'[g] # 0
               PROVE /\ watch # 0 /\ doc[pending'[g]].frame = g
                     /\ doc[pending'[g]].url \in Matching /\ seen'[pending'[g]] = watch
                     /\ \A c \in Docs : c <= pending'[g] /\ doc[c].frame = g => c \notin quiet'
                     /\ \A e \in Docs : pending'[g] < e /\ Reported(e)' /\ doc[e].frame = g =>
                          seen'[e] = watch /\ doc[e].url = doc[pending'[g]].url
    BY <1>1 DEF PendingSound
  <2>1. CASE pending'[g] = pending[g]
    <3>1. pending[g] \in Docs BY <1>3, <2>1, Numbers
    <3>2. pending[g] # d BY <1>1, <2>1, <3>1, <1>4 DEF RegInv, PendingSound
    <3>3. /\ watch # 0 /\ doc[pending[g]].frame = g
          /\ doc[pending[g]].url \in Matching /\ seen'[pending[g]] = watch
          /\ \A c \in Docs : c <= pending[g] /\ doc[c].frame = g => c \notin quiet'
      BY <1>1, <1>7, <2>1, <3>1, <3>2 DEF RegInv, PendingSound
    <3>4. g = f => Awaited(d) BY <1>2, <1>3, <1>4, <2>1, <3>2, <3>3 DEF Typed
    <3>5. ASSUME NEW e \in Docs, pending[g] < e, Reported(e)', doc[e].frame = g
          PROVE seen'[e] = watch /\ doc[e].url = doc[pending[g]].url
      <4>1. CASE e = d BY <1>8, <3>3, <3>4, <3>5, <4>1 DEF Awaited
      <4>2. CASE e # d BY <1>5, <1>7, <2>1, <3>5, <4>2 DEF RegInv, PendingSound
      <4> QED BY <4>1, <4>2
    <3> QED BY <2>1, <3>3, <3>5
  <2>2. CASE pending'[g] # pending[g]
    <3>1. g = f BY <1>9, <2>2
    <3>2. pending'[g] = d /\ watch # 0 /\ doc[d].url \in Matching
      BY <1>2, <1>3, <1>4, <2>2, <3>1 DEF Typed
    <3>3. \A c \in Docs : c <= d /\ doc[c].frame = g => c \notin quiet'
      BY <1>1, <1>4, <3>1, Bounds
    <3>4. \A e \in Docs : d < e /\ doc[e].frame = g => ~Reported(e)'
      BY <1>5, <1>6, <3>1, Bounds
    <3> QED BY <1>8, <3>1, <3>2, <3>3, <3>4
  <2> QED BY <2>1, <2>2
<1>15. EntryFrames' BY <1>1 DEF RegInv, EntryFrames
<1>16. \A g \in ChildFrames : entry[g] # 0 => entry[g] \in Docs /\ entry[g] # d
  BY <1>3, <1>4, Numbers DEF RegInv, EntriesExact, EntrySound
<1>17. EntriesExact'
  BY <1>1, <1>7, <1>16 DEF RegInv, EntriesExact, EntrySound, NoStray, IsLive
<1> QED BY <1>10, <1>11, <1>12, <1>13, <1>14, <1>15, <1>17 DEF RegInv

LEMMA InjectFailsStep == ASSUME RegInv, NEW d \in Docs, InjectFails(d) PROVE RegInv'
<1> DEFINE f == doc[d].frame
<1>1. /\ UNCHANGED <<tabOpen, loads, live, doc, quiet, script, port, bye, seen, watch, generation, entry>>
      /\ pending' = [pending EXCEPT ![f] = 0] \/ pending' = pending
  BY DEF InjectFails, documents
<1>2. Typed BY DEF RegInv
<1>3. loads \in Nat /\ f \in ChildFrames BY <1>2 DEF Typed
<1>4. Typed' BY <1>1, <1>2, <1>3 DEF Typed
<1>5. \A g \in ChildFrames : pending'[g] = 0 \/ pending'[g] = pending[g] BY <1>1, <1>2 DEF Typed
<1>6. PendingSound' BY <1>1, <1>5 DEF RegInv, PendingSound, Reported
<1>7. Loaded' /\ EntryFrames' BY <1>1, <1>5 DEF RegInv, Loaded, EntryFrames
<1>8. PortsSound' /\ InOrder' BY <1>1 DEF RegInv, PortsSound, InOrder, IsLive, Reported, SameFrame
<1>9. EntriesExact' BY <1>1 DEF RegInv, EntriesExact, EntrySound, NoStray, IsLive
<1> QED BY <1>4, <1>6, <1>7, <1>8, <1>9 DEF RegInv

\* What is admitted is the newest document of its frame that was reported.
LEMMA Newest ==
  ASSUME RegInv, NEW d \in Docs, port[d] = "connecting", Admits(d)
  PROVE  /\ tabOpen /\ watch # 0 /\ seen[d] = watch /\ doc[d].url \in Matching
         /\ IsLive(d) \/ d \in bye
         /\ \A e \in Docs : e # d /\ SameFrame(e, d) /\ IsLive(e) => port[e] # "open"
<1> DEFINE p == pending[doc[d].frame]
<1>1. /\ watch # 0 /\ tabOpen /\ p # 0 /\ seen[p] = watch /\ doc[p].url = doc[d].url
  BY DEF Admits, RegInv, Loaded, Typed
<1>2. Typed /\ doc[d].frame \in ChildFrames BY DEF RegInv, Typed
<1>3. p \in 1 .. loads /\ p \in Docs BY <1>1, <1>2, Numbers
<1>4. /\ doc[p].frame = doc[d].frame /\ doc[p].url \in Matching
      /\ \A c \in Docs : c <= p /\ doc[c].frame = doc[d].frame => c \notin quiet
      /\ \A e \in Docs : p < e /\ Reported(e) /\ doc[e].frame = doc[d].frame =>
           seen[e] = watch /\ doc[e].url = doc[d].url
  BY <1>1, <1>2 DEF RegInv, PendingSound
<1>5. \A e \in Docs : d < e /\ Reported(e) /\ doc[e].frame = doc[d].frame => doc[e].url # doc[d].url
  BY <1>1 DEF RegInv, PortsSound, SameFrame
<1>6. Reported(p) BY <1>3, <1>4, Bounds DEF Reported
<1>7. p <= d BY <1>1, <1>3, <1>4, <1>5, <1>6, Bounds
<1>8. \A e \in Docs : port[e] # "none" => Reported(e)
  BY <1>2, Numbers DEF RegInv, Loaded, PortsSound, Reported
<1>9. seen[d] = watch BY <1>1, <1>3, <1>4, <1>7, <1>8, Bounds
<1>10. ASSUME NEW e \in Docs, e # d, SameFrame(e, d), IsLive(e), port[e] = "open" PROVE FALSE
  <2>1. Reported(e) /\ Reported(d) /\ e = live[doc[d].frame]
    BY <1>8, <1>10 DEF SameFrame, IsLive
  <2>2. d <= e BY <1>1, <2>1 DEF RegInv, Loaded, Reported
  <2>3. d < e /\ p < e BY <1>3, <1>7, <1>10, <2>2, Bounds
  <2> QED BY <1>4, <1>5, <1>10, <2>1, <2>3 DEF SameFrame
<1>11. IsLive(d) \/ d \in bye BY <1>1 DEF RegInv, PortsSound
<1> QED BY <1>1, <1>4, <1>9, <1>10, <1>11

LEMMA ConnectedStep == ASSUME RegInv, NEW d \in Docs, Connected(d) PROVE RegInv'
<1> DEFINE f == doc[d].frame
<1>1. /\ port[d] = "connecting"
      /\ UNCHANGED <<tabOpen, loads, live, doc, quiet, script, bye, seen, watch, generation>>
  BY DEF Connected, documents
<1>2. Typed BY DEF RegInv
<1>3. loads \in Nat /\ f \in ChildFrames /\ d \in 1 .. loads
  BY <1>1, <1>2, Numbers DEF Typed, RegInv, Loaded
<1>4. \A c \in Docs : c # d => port'[c] = port[c] BY <1>2 DEF Connected, Typed
<1>5. port'[d] \in {"open", "dropped"} /\ port' \in [Docs -> Ports]
  BY <1>2 DEF Connected, Typed, Ports
<1>6. Loaded'
  <2>1. \A g \in ChildFrames : pending'[g] = 0 \/ pending'[g] = pending[g]
    BY <1>2 DEF Connected, Typed
  <2>2. \A c \in Docs : c > loads => c # d BY <1>3
  <2> QED BY <1>1, <1>4, <2>1, <2>2 DEF RegInv, Loaded
<1>7. PortsSound' /\ InOrder'
  <2>1. \A c \in Docs : /\ port'[c] # "none" => port[c] # "none"
                        /\ port'[c] = "connecting" => port[c] = "connecting"
    BY <1>1, <1>4, <1>5
  <2> QED BY <1>1, <2>1 DEF RegInv, PortsSound, InOrder, IsLive, Reported, SameFrame
<1>8. CASE Admits(d)
  <2>1. port'[d] = "open" /\ pending' = [pending EXCEPT ![f] = 0] /\ entry' = [entry EXCEPT ![f] = d]
    BY <1>2, <1>8 DEF Connected, Typed
  <2>2. Typed' BY <1>1, <1>2, <1>3, <1>5, <2>1 DEF Typed
  <2>3. \A g \in ChildFrames : pending'[g] = 0 \/ pending'[g] = pending[g] BY <1>2, <2>1 DEF Typed
  <2>4. PendingSound' BY <1>1, <2>3 DEF RegInv, PendingSound, Reported
  <2>5. entry'[f] = d /\ \A g \in ChildFrames : g # f => entry'[g] = entry[g]
    BY <1>2, <1>3, <2>1 DEF Typed
  <2>6. EntryFrames' BY <1>1, <2>5 DEF RegInv, EntryFrames
  <2>7. \A g \in ChildFrames : g # f /\ entry[g] # 0 => entry[g] \in Docs /\ entry[g] # d
    BY <1>2, Numbers DEF RegInv, EntryFrames
  <2>8. EntrySound'
    BY <1>1, <1>4, <1>8, <2>1, <2>5, <2>7, Newest DEF RegInv, EntriesExact, EntrySound, IsLive
  <2>9. NoStray'
    <3> SUFFICES ASSUME NEW e \in Docs, IsLive(e), port'[e] = "open" PROVE entry'[doc[e].frame] = e
      BY <1>1 DEF NoStray, IsLive
    <3>1. doc[e].frame \in ChildFrames BY <1>2 DEF Typed
    <3>2. CASE e = d BY <2>5, <3>2
    <3>3. CASE e # d
      <4>1. port[e] = "open" BY <1>4, <3>3
      <4>2. doc[e].frame # f BY <1>1, <1>8, <3>3, <4>1, Newest DEF SameFrame
      <4> QED BY <2>5, <3>1, <4>1, <4>2 DEF RegInv, EntriesExact, NoStray
    <3> QED BY <3>2, <3>3
  <2> QED BY <1>6, <1>7, <2>2, <2>4, <2>6, <2>8, <2>9 DEF RegInv, EntriesExact
<1>9. CASE ~Admits(d)
  <2>1. port'[d] = "dropped" /\ UNCHANGED <<pending, entry>> BY <1>2, <1>9 DEF Connected, Typed
  <2>2. Typed' BY <1>1, <1>2, <1>5, <2>1 DEF Typed
  <2>3. PendingSound' /\ EntryFrames' BY <1>1, <2>1 DEF RegInv, PendingSound, EntryFrames, Reported
  <2>4. \A c \in Docs : port[c] = "open" <=> port'[c] = "open" BY <1>1, <1>4, <2>1
  <2>5. \A g \in ChildFrames : entry[g] # 0 => entry[g] \in Docs BY <1>2, Numbers
  <2>6. EntriesExact'
    BY <1>1, <2>1, <2>4, <2>5 DEF RegInv, EntriesExact, EntrySound, NoStray, IsLive
  <2> QED BY <1>6, <1>7, <2>2, <2>3, <2>6 DEF RegInv
<1> QED BY <1>8, <1>9

LEMMA FrameDisconnectedStep == ASSUME RegInv, NEW d \in Docs, FrameDisconnected(d) PROVE RegInv'
<1> DEFINE f == doc[d].frame
<1>1. /\ d \in bye /\ port[d] # "connecting" /\ bye' = bye \ {d}
      /\ entry' = IF port[d] = "open" THEN [entry EXCEPT ![f] = IF @ = d THEN 0 ELSE @] ELSE entry
      /\ UNCHANGED <<tabOpen, loads, live, doc, quiet, script, port, seen, watch, generation, pending>>
  BY DEF FrameDisconnected, Drop, documents
<1>2. Typed BY DEF RegInv
<1>3. loads \in Nat /\ f \in ChildFrames BY <1>2 DEF Typed
<1>4. entry' \in [ChildFrames -> 0 .. loads] BY <1>1, <1>2, <1>3 DEF Typed
<1>5. Typed' BY <1>1, <1>2, <1>4 DEF Typed
<1>6. Loaded' BY <1>1 DEF RegInv, Loaded
<1>7. ~IsLive(d) BY <1>1 DEF RegInv, PortsSound
<1>8. PortsSound' /\ InOrder'
  BY <1>1 DEF RegInv, PortsSound, InOrder, IsLive, Reported, SameFrame
<1>9. PendingSound' BY <1>1 DEF RegInv, PendingSound, Reported
<1>10. \A g \in ChildFrames : /\ entry'[g] = 0 \/ entry'[g] = entry[g]
                              /\ entry[g] # d => entry'[g] = entry[g]
  BY <1>1, <1>2, <1>3 DEF Typed
<1>11. \A g \in ChildFrames : entry'[g] # d
  <2> SUFFICES ASSUME NEW g \in ChildFrames, entry[g] = d PROVE entry'[g] # d BY <1>10, Bounds
  <2>1. d # 0 BY Bounds
  <2>2. g = f /\ port[d] = "open" BY <2>1 DEF RegInv, EntryFrames, EntriesExact, EntrySound
  <2> QED BY <1>1, <1>2, <2>1, <2>2 DEF Typed
<1>12. EntryFrames' BY <1>1, <1>10 DEF RegInv, EntryFrames
<1>13. EntrySound'
  <2> SUFFICES ASSUME NEW g \in ChildFrames, entry'[g] # 0
               PROVE /\ watch # 0 /\ seen[entry[g]] = watch /\ doc[entry[g]].url \in Matching
                     /\ port[entry[g]] = "open" /\ (IsLive(entry[g]) \/ entry[g] \in bye')
    BY <1>1, <1>10 DEF EntrySound, IsLive
  <2>1. entry[g] # 0 /\ entry[g] # d BY <1>10, <1>11
  <2> QED BY <1>1, <2>1 DEF RegInv, EntriesExact, EntrySound
<1>14. NoStray' BY <1>1, <1>2, <1>7, <1>10 DEF RegInv, EntriesExact, NoStray, IsLive, Typed
<1> QED BY <1>5, <1>6, <1>8, <1>9, <1>12, <1>13, <1>14 DEF RegInv, EntriesExact

(***************************************************************************)
(* The waits                                                               *)
(***************************************************************************)

\* Port p is that of a document of frame f in which a script has run.
Aimed(p, f) == p \in 1 .. loads /\ doc[p].frame = f /\ script[p] # "none"

\* A wait has its type; one past its first look names a frame; one whose message is
\* out was aimed at a document in which a script has run; one whose message met
\* nobody holds a port whose document is gone for good.
WaitSound ==
  \A w \in Waits :
    /\ wait[w].at \in {"sending", "asked", "lookup", "delay"} => wait[w].target \in ChildFrames
    /\ wait[w].at = "asked" => Aimed(wait[w].port, wait[w].target)
    /\ wait[w].at = "lookup" => wait[w].port \in 1 .. loads /\ ~IsLive(wait[w].port)

WaitRecord ==
  [at : Stages, target : ChildFrames \cup {Any}, port : Nat, watch : Nat, late : BOOLEAN]

WaitTyped == wait \in [Waits -> WaitRecord]

IInv == RegInv /\ WaitTyped /\ WaitSound /\ NoneMissed

\* A document that is gone stays gone.
LEMMA Gone ==
  ASSUME RegInv, [Next]_vars, NEW d \in 1 .. loads, ~IsLive(d) PROVE d \in 1 .. loads' /\ ~IsLive(d)'
<1>1. Typed /\ d \in Docs BY Numbers DEF RegInv
<1>2. d # 0 /\ d \in Nat /\ loads \in Nat /\ doc[d].frame \in ChildFrames BY <1>1 DEF Typed
<1>3. CASE UNCHANGED <<loads, live, doc>> BY <1>2, <1>3 DEF IsLive
<1>4. ASSUME NEW f \in ChildFrames, NEW u \in Urls, Navigate(f, u) PROVE d \in 1 .. loads' /\ ~IsLive(d)'
  <2>1. /\ loads' = loads + 1 /\ live' = [live EXCEPT ![f] = loads + 1]
        /\ doc' = [doc EXCEPT ![loads + 1] = [frame |-> f, url |-> u]]
    BY <1>4 DEF Navigate
  <2>2. doc'[d] = doc[d] /\ d # loads + 1 BY <1>1, <1>2, <2>1 DEF Typed
  <2> QED BY <1>1, <1>2, <2>1, <2>2 DEF IsLive, Typed
<1>5. CASE TabRemoved BY <1>2, <1>5 DEF TabRemoved, IsLive
<1>6. CASE Watch \/ Unwatch \/ UNCHANGED vars
  BY <1>3, <1>6 DEF Watch, Unwatch, vars, documents
<1>7. ASSUME NEW c \in Docs,
             \/ RunScript(c) \/ Deactivate(c) \/ FrameLoaded(c) \/ InjectFails(c)
             \/ InjectReturns(c) \/ Connected(c) \/ FrameDisconnected(c)
      PROVE  UNCHANGED <<loads, live, doc>>
  BY <1>7 DEF RunScript, Deactivate, FrameLoaded, InjectFails, InjectReturns, Connected,
              FrameDisconnected, documents
<1>8. ASSUME NEW w \in Waits, WaitSteps(w) PROVE UNCHANGED <<loads, live, doc>>
  BY <1>8 DEF WaitSteps, BeginWait, Deadline, Send, Answer, NoReceiver, Missing, Retry, documents
<1> QED BY <1>3, <1>4, <1>5, <1>6, <1>7, <1>8 DEF Next

\* A document in which a script has run stays one.
LEMMA StaysAimed ==
  ASSUME RegInv, [Next]_vars, NEW p, NEW f \in ChildFrames, Aimed(p, f) PROVE Aimed(p, f)'
<1>1. Typed /\ p \in 1 .. loads /\ p \in Docs /\ doc[p].frame = f /\ script[p] # "none"
  BY Numbers DEF RegInv, Aimed
<1>2. p \in Nat /\ loads \in Nat BY <1>1 DEF Typed
<1>3. CASE UNCHANGED <<loads, doc, script>> BY <1>1, <1>3 DEF Aimed
<1>4. ASSUME NEW g \in ChildFrames, NEW u \in Urls, Navigate(g, u) PROVE Aimed(p, f)'
  <2>1. /\ loads' = loads + 1 /\ script' = script
        /\ doc' = [doc EXCEPT ![loads + 1] = [frame |-> g, url |-> u]]
    BY <1>4 DEF Navigate
  <2>2. doc'[p] = doc[p] /\ p \in 1 .. loads' BY <1>1, <1>2, <2>1 DEF Typed
  <2> QED BY <1>1, <2>1, <2>2 DEF Aimed
<1>5. ASSUME NEW c \in Docs, RunScript(c) \/ Deactivate(c) PROVE Aimed(p, f)'
  <2>1. UNCHANGED <<loads, doc>> BY <1>5 DEF RunScript, Deactivate, documents
  <2>2. script' = script \/ \E b : script' = [script EXCEPT ![b] = "running"]
                         \/ script' = [script EXCEPT ![b] = "silent"]
    BY <1>5 DEF RunScript, Deactivate
  <2>3. script'[p] # "none" BY <1>1, <2>2 DEF Typed
  <2> QED BY <1>1, <2>1, <2>3 DEF Aimed
<1>6. CASE Watch \/ Unwatch \/ TabRemoved \/ UNCHANGED vars
  BY <1>3, <1>6 DEF Watch, Unwatch, TabRemoved, vars, documents
<1>7. ASSUME NEW c \in Docs,
             \/ FrameLoaded(c) \/ InjectFails(c) \/ InjectReturns(c)
             \/ Connected(c) \/ FrameDisconnected(c)
      PROVE  UNCHANGED <<loads, doc, script>>
  BY <1>7 DEF FrameLoaded, InjectFails, InjectReturns, Connected, FrameDisconnected, documents
<1>8. ASSUME NEW w \in Waits, WaitSteps(w) PROVE UNCHANGED <<loads, doc, script>>
  BY <1>8 DEF WaitSteps, BeginWait, Deadline, Send, Answer, NoReceiver, Missing, Retry, documents
<1> QED BY <1>3, <1>4, <1>5, <1>6, <1>7, <1>8 DEF Next

LEMMA WaitSame ==
  ASSUME RegInv, [Next]_vars, WaitTyped, WaitSound, UNCHANGED wait PROVE WaitTyped' /\ WaitSound'
<1>1. WaitTyped' BY DEF WaitTyped
<1>2. WaitSound' BY Gone, StaysAimed DEF WaitSound
<1> QED BY <1>1, <1>2

\* A step that ends waits, or lets them stand as they are.
LEMMA WaitsEnded ==
  ASSUME RegInv, [Next]_vars, WaitTyped, WaitSound, NEW outcome \in {"unwatched", "closed"},
         EndWaits(outcome)
  PROVE  WaitTyped' /\ WaitSound' /\ \A w \in Waits : wait'[w].at # "waiting"
<1>1. \A w \in Waits : wait'[w] = IF wait[w].at = "waiting" THEN [wait[w] EXCEPT !.at = outcome] ELSE wait[w]
  BY DEF EndWaits
<1>2. ASSUME NEW w \in Waits PROVE wait'[w] \in WaitRecord
  <2>1. wait[w] \in WaitRecord BY DEF WaitTyped
  <2>2. [wait[w] EXCEPT !.at = outcome] \in WaitRecord BY <2>1 DEF WaitRecord, Stages
  <2> QED BY <1>1, <2>1, <2>2
<1>3. WaitTyped' BY <1>2 DEF EndWaits, WaitTyped, WaitRecord
<1>4. \A w \in Waits : \/ wait[w].at = "waiting" /\ wait'[w].at = outcome
                       \/ wait[w].at # "waiting" /\ wait'[w] = wait[w]
  BY <1>1 DEF WaitTyped, WaitRecord
<1>5. \A w \in Waits : wait'[w].at # "waiting" BY <1>4
<1>6. WaitSound' BY <1>4, Gone, StaysAimed DEF WaitSound
<1> QED BY <1>3, <1>5, <1>6

\* What NoneMissed and WaitSound ask of one wait.
OneSound(r) ==
  /\ r \in WaitRecord
  /\ r.at \in {"sending", "asked", "lookup", "delay"} => r.target \in ChildFrames
  /\ r.at = "asked" => Aimed(r.port, r.target)
  /\ r.at = "lookup" => r.port \in 1 .. loads /\ ~IsLive(r.port)
  /\ r.at = "waiting" =>
       /\ watch # 0 /\ r.watch = watch /\ ~r.late
       /\ \A f \in ChildFrames : entry[f] # 0 => r.target \notin {f, Any}

LEMMA Rephrased == (WaitTyped /\ WaitSound /\ NoneMissed) <=>
                     /\ wait \in [Waits -> WaitRecord] /\ \A w \in Waits : OneSound(wait[w])
  BY DEF WaitTyped, WaitSound, NoneMissed, OneSound, WaitRecord

\* A step of one wait that changes nothing its soundness speaks of.
LEMMA OneWait ==
  ASSUME IInv, NEW w \in Waits, NEW r, OneSound(r), wait' = [wait EXCEPT ![w] = r],
         UNCHANGED <<loads, live, doc, script, watch, entry>>
  PROVE  WaitTyped' /\ WaitSound' /\ NoneMissed'
<1>1. wait \in [Waits -> WaitRecord] /\ \A v \in Waits : OneSound(wait[v])
  BY Rephrased DEF IInv
<1>2. r \in WaitRecord BY DEF OneSound
<1>3. wait' \in [Waits -> WaitRecord] BY <1>1, <1>2
<1>4. \A v \in Waits : wait'[v] = IF v = w THEN r ELSE wait[v] BY <1>1
<1>5. \A v \in Waits : OneSound(wait'[v]) BY <1>1, <1>4
<1>6. \A v \in Waits : OneSound(wait[v])' <=> OneSound(wait'[v])
  BY DEF OneSound, WaitRecord, IsLive, Aimed
<1>7. (\A v \in Waits : OneSound(wait[v]))' BY <1>5, <1>6
<1>8. (wait \in [Waits -> WaitRecord])' BY <1>3 DEF WaitRecord
<1> QED BY <1>7, <1>8 DEF WaitTyped, WaitSound, NoneMissed, OneSound, WaitRecord

\* awaitFrame leaves a wait held only while nothing it is after is on record.
LEMMA Awaiting ==
  ASSUME IInv, NEW w \in Waits, NEW target \in ChildFrames \cup {Any}, AwaitFrame(w, target)
  PROVE  \E r : OneSound(r) /\ wait' = [wait EXCEPT ![w] = r]
<1> DEFINE asked == [wait[w] EXCEPT !.target = target]
<1>1. wait[w] \in WaitRecord BY Rephrased DEF IInv
<1>2. /\ asked \in WaitRecord /\ asked.target = target /\ asked.late = wait[w].late
      /\ wait[w].late \in BOOLEAN
  BY <1>1 DEF WaitRecord
<1>3. watch \in Nat /\ entry \in [ChildFrames -> Nat] BY DEF IInv, RegInv, Typed
<1> DEFINE frames == {f \in ChildFrames : entry[f] # 0}
           hit == IF target = Any THEN frames # {} ELSE target \in frames
<1> HIDE DEF asked
<1>4. ASSUME NEW r, r \in WaitRecord, wait' = [wait EXCEPT ![w] = r],
             r.at \in {"unwatched", "found", "timeout"}
      PROVE  OneSound(r)
  BY <1>4 DEF OneSound
<1>5. CASE watch = 0
  <2> DEFINE r == [asked EXCEPT !.at = "unwatched"]
  <2>1. wait' = [wait EXCEPT ![w] = r] BY <1>5 DEF AwaitFrame, asked
  <2>2. r \in WaitRecord /\ r.at = "unwatched" BY <1>2 DEF WaitRecord, Stages
  <2> QED BY <2>1, <2>2, <1>4
<1>6. CASE watch # 0 /\ hit /\ target = Any
  <2> DEFINE r == [asked EXCEPT !.at = "found"]
  <2>1. wait' = [wait EXCEPT ![w] = r] BY <1>6 DEF AwaitFrame, asked
  <2>2. r \in WaitRecord /\ r.at = "found" BY <1>2 DEF WaitRecord, Stages
  <2> QED BY <2>1, <2>2, <1>4
<1>7. CASE watch # 0 /\ hit /\ target # Any
  <2> DEFINE r == [asked EXCEPT !.at = "sending", !.port = entry[target]]
  <2>1. wait' = [wait EXCEPT ![w] = r] BY <1>7 DEF AwaitFrame, asked
  <2>2. entry[target] \in Nat BY <1>3, <1>7
  <2>3. r \in WaitRecord /\ r.at = "sending" /\ r.target = target
    BY <1>2, <2>2 DEF WaitRecord, Stages
  <2>4. OneSound(r) BY <1>7, <2>3 DEF OneSound
  <2> QED BY <2>1, <2>4
<1>8. CASE watch # 0 /\ ~hit /\ asked.late
  <2> DEFINE r == [asked EXCEPT !.at = "timeout"]
  <2>1. wait' = [wait EXCEPT ![w] = r] BY <1>8 DEF AwaitFrame, asked
  <2>2. r \in WaitRecord /\ r.at = "timeout" BY <1>2 DEF WaitRecord, Stages
  <2> QED BY <2>1, <2>2, <1>4
<1>9. CASE watch # 0 /\ ~hit /\ ~asked.late
  <2> DEFINE r == [asked EXCEPT !.at = "waiting", !.watch = watch]
  <2>1. wait' = [wait EXCEPT ![w] = r] BY <1>9 DEF AwaitFrame, asked
  <2>2. r \in WaitRecord /\ r.at = "waiting" /\ r.target = target /\ r.watch = watch /\ r.late = asked.late
    BY <1>2, <1>3 DEF WaitRecord, Stages
  <2>3. \A f \in ChildFrames : entry[f] # 0 => target \notin {f, Any} BY <1>9
  <2>4. OneSound(r) BY <1>9, <2>2, <2>3 DEF OneSound
  <2> QED BY <2>1, <2>4
<1> QED BY <1>2, <1>5, <1>6, <1>7, <1>8, <1>9

LEMMA WaitStep ==
  ASSUME IInv, NEW w \in Waits, BeginWait(w) \/ Retry(w) \/ Deadline(w) \/ Send(w) \/ Answer(w) \/ NoReceiver(w)
  PROVE  IInv'
<1>1. UNCHANGED <<documents, script, port, bye, injection, seen, registry>>
  BY DEF BeginWait, Retry, Deadline, Send, Answer, NoReceiver
<1>2. UNCHANGED <<loads, live, doc, script, watch, entry>> BY <1>1 DEF documents, registry
<1>3. RegInv' BY <1>1, RegSame DEF IInv, RegVars, registry
<1>4. wait[w] \in WaitRecord /\ OneSound(wait[w]) BY Rephrased DEF IInv
<1>5. \E r : OneSound(r) /\ wait' = [wait EXCEPT ![w] = r]
  <2>1. CASE BeginWait(w) BY <2>1, Awaiting DEF BeginWait
  <2>2. CASE Retry(w)
    <3>1. wait[w].target \in ChildFrames BY <1>4, <2>2 DEF Retry, OneSound
    <3> QED BY <2>2, <3>1, Awaiting DEF Retry
  <2>3. CASE Deadline(w)
    <3> DEFINE r == [wait[w] EXCEPT !.late = TRUE, !.at = IF @ = "waiting" THEN "timeout" ELSE @]
    <3>1. wait' = [wait EXCEPT ![w] = r] /\ wait[w].at \in Stages
      BY <1>4, <2>3 DEF Deadline, WaitRecord
    <3>2. /\ r \in WaitRecord /\ r.target = wait[w].target /\ r.port = wait[w].port
          /\ r.at = (IF wait[w].at = "waiting" THEN "timeout" ELSE wait[w].at)
      BY <1>4 DEF WaitRecord, Stages
    <3>3. OneSound(r) BY <1>4, <3>2 DEF OneSound
    <3> QED BY <3>1, <3>3
  <2>4. CASE Send(w)
    <3> DEFINE f == wait[w].target
               at == IF entry[f] # 0 THEN "asked" ELSE IF wait[w].late THEN "timeout" ELSE "delay"
               r == [wait[w] EXCEPT !.at = at, !.port = entry[f]]
    <3>1. wait' = [wait EXCEPT ![w] = r] BY <2>4 DEF Send
    <3>2. f \in ChildFrames BY <1>4, <2>4 DEF Send, OneSound
    <3>3. Typed BY DEF IInv, RegInv
    <3>4. entry[f] \in Nat BY <3>2, <3>3 DEF Typed
    <3>5. at \in {"timeout", "delay", "asked"} /\ (at = "asked" => entry[f] # 0) OBVIOUS
    <3> HIDE DEF at
    <3>6. r \in WaitRecord /\ r.at = at /\ r.target = f /\ r.port = entry[f]
      BY <1>4, <3>4, <3>5 DEF WaitRecord, Stages
    <3>7. entry[f] # 0 => entry[f] \in 1 .. loads /\ entry[f] \in Docs BY <3>2, <3>3, Numbers
    <3>8. at = "asked" => Aimed(entry[f], f)
      BY <3>2, <3>5, <3>7 DEF Aimed, IInv, RegInv, PortsSound, EntryFrames, EntriesExact, EntrySound
    <3>9. OneSound(r) BY <3>2, <3>5, <3>6, <3>8 DEF OneSound
    <3> QED BY <3>1, <3>9
  <2>5. CASE Answer(w)
    <3> DEFINE r == [wait[w] EXCEPT !.at = "answered"]
    <3>1. wait' = [wait EXCEPT ![w] = r] BY <2>5 DEF Answer
    <3>2. r \in WaitRecord /\ r.at = "answered" BY <1>4 DEF WaitRecord, Stages
    <3> QED BY <3>1, <3>2 DEF OneSound
  <2>6. CASE NoReceiver(w)
    <3> DEFINE r == [wait[w] EXCEPT !.at = "lookup"]
               p == wait[w].port
    <3>1. wait' = [wait EXCEPT ![w] = r] BY <2>6 DEF NoReceiver
    <3>2. /\ r \in WaitRecord /\ r.at = "lookup"
          /\ r.target = wait[w].target /\ r.port = p
      BY <1>4 DEF WaitRecord, Stages
    <3>3. wait[w].target \in ChildFrames /\ Aimed(p, wait[w].target)
      BY <1>4, <2>6 DEF NoReceiver, OneSound
    <3>4. p \in 1 .. loads /\ ~IsLive(p)
      BY <2>6, <3>3 DEF NoReceiver, Aimed, IsLive
    <3> QED BY <3>1, <3>2, <3>3, <3>4 DEF OneSound
  <2> QED BY <2>1, <2>2, <2>3, <2>4, <2>5, <2>6
<1> QED BY <1>2, <1>3, <1>5, OneWait DEF IInv

LEMMA MissingStep == ASSUME IInv, NEW w \in Waits, Missing(w) PROVE IInv'
<1> DEFINE d == wait[w].port
<1>1. UNCHANGED <<tabOpen, loads, live, doc, quiet, script, port, bye, seen, watch, generation, pending>>
  BY DEF Missing, documents
<1>2. Typed BY DEF IInv, RegInv
<1>3. /\ wait[w] \in WaitRecord /\ wait[w].target \in ChildFrames
      /\ d \in 1 .. loads /\ ~IsLive(d)
  BY Rephrased DEF IInv, Missing, OneSound
<1>4. \A g \in ChildFrames : entry'[g] = entry[g] \/ (entry'[g] = 0 /\ entry[g] = d)
  BY <1>2, <1>3 DEF Missing, Forget, Typed
<1>5. entry' \in [ChildFrames -> 0 .. loads]
  <2>1. loads \in Nat BY <1>2 DEF Typed
  <2> QED BY <1>2, <2>1 DEF Missing, Forget, Typed
<1>6. RegInv'
  <2>1. Typed' BY <1>1, <1>2, <1>5 DEF Typed
  <2>2. Loaded' BY <1>1 DEF IInv, RegInv, Loaded
  <2>3. PortsSound' /\ InOrder'
    BY <1>1 DEF IInv, RegInv, PortsSound, InOrder, IsLive, Reported, SameFrame
  <2>4. PendingSound' BY <1>1 DEF IInv, RegInv, PendingSound, Reported
  <2>5. EntryFrames' BY <1>1, <1>4 DEF IInv, RegInv, EntryFrames
  <2>6. EntrySound' BY <1>1, <1>4 DEF IInv, RegInv, EntriesExact, EntrySound, IsLive
  <2>7. NoStray' BY <1>1, <1>2, <1>3, <1>4 DEF IInv, RegInv, EntriesExact, NoStray, IsLive, Typed
  <2> QED BY <2>1, <2>2, <2>3, <2>4, <2>5, <2>6, <2>7 DEF RegInv, EntriesExact
<1> DEFINE at == IF ~tabOpen THEN "closed" ELSE IF wait[w].late THEN "timeout" ELSE "delay"
           r == [wait[w] EXCEPT !.at = at]
<1>7. wait' = [wait EXCEPT ![w] = r] BY DEF Missing
<1>8. at \in {"closed", "timeout", "delay"} OBVIOUS
<1> HIDE DEF at
<1>9. r \in WaitRecord /\ r.at = at /\ r.target = wait[w].target
  BY <1>3, <1>8 DEF WaitRecord, Stages
<1>11. wait \in [Waits -> WaitRecord] /\ \A v \in Waits : OneSound(wait[v])
  BY Rephrased DEF IInv
<1>12. wait' \in [Waits -> WaitRecord] BY <1>7, <1>9, <1>11
<1>13. \A v \in Waits : wait'[v] = IF v = w THEN r ELSE wait[v] BY <1>7, <1>11
<1>15. WaitSound' /\ NoneMissed'
  <2> SUFFICES ASSUME NEW v \in Waits
               PROVE /\ wait'[v].at \in {"sending", "asked", "lookup", "delay"} => wait'[v].target \in ChildFrames
                     /\ wait'[v].at = "asked" => Aimed(wait'[v].port, wait'[v].target)
                     /\ wait'[v].at = "lookup" => wait'[v].port \in 1 .. loads /\ ~IsLive(wait'[v].port)
                     /\ wait'[v].at = "waiting" =>
                          /\ watch # 0 /\ wait'[v].watch = watch /\ ~wait'[v].late
                          /\ \A f \in ChildFrames : entry'[f] # 0 => wait'[v].target \notin {f, Any}
    BY <1>1 DEF WaitSound, NoneMissed, IsLive, Aimed
  <2>1. CASE v = w BY <1>3, <1>8, <1>9, <1>13, <2>1
  <2>2. CASE v # w BY <1>4, <1>11, <1>13, <2>2 DEF OneSound
  <2> QED BY <2>1, <2>2
<1> QED BY <1>6, <1>12, <1>15 DEF IInv, WaitTyped, WaitRecord

LEMMA WaitsNotified == ASSUME IInv, NEW d \in Docs, Connected(d) PROVE NoneMissed' /\ WaitTyped' /\ WaitSound'
<1> DEFINE f == doc[d].frame
<1>1. UNCHANGED <<loads, live, doc, script, watch>> BY DEF Connected, documents
<1>2. Typed /\ f \in ChildFrames BY DEF IInv, RegInv, Typed
<1>3. wait \in [Waits -> WaitRecord] /\ \A v \in Waits : OneSound(wait[v])
  BY Rephrased DEF IInv
<1>4. CASE ~Admits(d)
  <2>1. UNCHANGED <<entry, wait>> BY <1>4 DEF Connected
  <2> QED BY <1>1, <2>1 DEF IInv, NoneMissed, WaitTyped, WaitSound, IsLive, Aimed
<1>5. CASE Admits(d)
  <2>1. entry' = [entry EXCEPT ![f] = d] /\ NotifyWaits({f}, entry') BY <1>5 DEF Connected
  <2>2. \A g \in ChildFrames : entry'[g] \in Nat /\ (g # f => entry'[g] = entry[g])
    BY <1>2, <2>1, Bounds DEF Typed
  <2>3. \A v \in Waits : wait'[v] =
          IF wait[v].at = "waiting" /\ wait[v].target \in {f, Any} THEN Found(v, entry') ELSE wait[v]
    BY <2>1 DEF NotifyWaits, Matches
  <2>4. wait' = [v \in Waits |-> wait'[v]] BY <2>1 DEF NotifyWaits
  <2> SUFFICES ASSUME NEW v \in Waits
               PROVE /\ wait'[v] \in WaitRecord
                     /\ wait'[v].at \in {"sending", "asked", "lookup", "delay"} => wait'[v].target \in ChildFrames
                     /\ wait'[v].at = "asked" => Aimed(wait'[v].port, wait'[v].target)
                     /\ wait'[v].at = "lookup" => wait'[v].port \in 1 .. loads /\ ~IsLive(wait'[v].port)
                     /\ wait'[v].at = "waiting" =>
                          /\ watch # 0 /\ wait'[v].watch = watch /\ ~wait'[v].late
                          /\ \A g \in ChildFrames : entry'[g] # 0 => wait'[v].target \notin {g, Any}
    BY <1>1, <2>4 DEF WaitTyped, WaitRecord, WaitSound, NoneMissed, IsLive, Aimed
  <2>5. CASE wait[v].at = "waiting" /\ wait[v].target = Any
    <3>1. wait'[v] = [wait[v] EXCEPT !.at = "found"] BY <2>3, <2>5 DEF Found
    <3>2. wait'[v] \in WaitRecord /\ wait'[v].at = "found" BY <1>3, <3>1 DEF WaitRecord, Stages
    <3> QED BY <3>2
  <2>6. CASE wait[v].at = "waiting" /\ wait[v].target = f
    <3>1. f # Any BY <1>2
    <3>2. wait'[v] = [wait[v] EXCEPT !.at = "sending", !.port = entry'[f]]
      BY <2>3, <2>6, <3>1 DEF Found
    <3>3. [wait[v] EXCEPT !.at = "sending"] \in WaitRecord BY <1>3 DEF WaitRecord, Stages
    <3>4. entry'[f] \in Nat BY <1>2, <2>2
    <3>5. wait'[v] \in WaitRecord BY <3>2, <3>3, <3>4 DEF WaitRecord
    <3>6. wait'[v].at = "sending" /\ wait'[v].target = wait[v].target
      BY <1>3, <3>2 DEF WaitRecord
    <3> QED BY <1>2, <2>6, <3>5, <3>6
  <2>7. CASE ~(wait[v].at = "waiting" /\ wait[v].target \in {f, Any})
    <3>1. wait'[v] = wait[v] BY <2>3, <2>7
    <3> QED BY <1>3, <2>2, <2>7, <3>1 DEF OneSound
  <2> QED BY <2>5, <2>6, <2>7
<1> QED BY <1>4, <1>5

LEMMA InvInit == Init => IInv
<1> SUFFICES ASSUME Init PROVE IInv OBVIOUS
<1>1. WaitTyped BY DEF Init, WaitTyped, WaitRecord, Stages
<1>2. WaitSound /\ NoneMissed BY DEF Init, WaitSound, NoneMissed
<1> QED BY <1>1, <1>2, RegInit DEF IInv

LEMMA InvNext == IInv /\ [Next]_vars => IInv'
<1> SUFFICES ASSUME IInv, [Next]_vars PROVE IInv' OBVIOUS
<1> USE DEF IInv
<1>1. CASE UNCHANGED vars
  <2>1. RegInv' BY <1>1, RegSame DEF vars, registry, RegVars
  <2>2. NoneMissed' BY <1>1 DEF vars, registry, NoneMissed
  <2> QED BY <1>1, <2>1, <2>2, WaitSame DEF vars
<1>2. CASE Watch
  <2>1. \A w \in Waits : wait[w].at # "waiting" BY <1>2 DEF Watch, NoneMissed
  <2>2. NoneMissed' BY <1>2, <2>1 DEF Watch, NoneMissed
  <2>3. UNCHANGED wait BY <1>2 DEF Watch
  <2> QED BY <1>2, <2>2, <2>3, WatchStep, WaitSame
<1>3. CASE Unwatch
  <2>1. EndWaits("unwatched") BY <1>3 DEF Unwatch
  <2>2. WaitTyped' /\ WaitSound' /\ \A w \in Waits : wait'[w].at # "waiting" BY <2>1, WaitsEnded
  <2> QED BY <1>3, <2>2, UnwatchStep DEF NoneMissed
<1>4. CASE TabRemoved
  <2>1. CASE watch # 0
    <3>1. EndWaits("closed") BY <1>4, <2>1 DEF TabRemoved
    <3>2. WaitTyped' /\ WaitSound' /\ \A w \in Waits : wait'[w].at # "waiting" BY <3>1, WaitsEnded
    <3> QED BY <1>4, <3>2, TabRemovedStep DEF NoneMissed
  <2>2. CASE watch = 0
    <3>1. UNCHANGED wait BY <1>4, <2>2 DEF TabRemoved
    <3>2. NoneMissed' BY <2>2, <3>1 DEF NoneMissed
    <3> QED BY <1>4, <3>1, <3>2, TabRemovedStep, WaitSame
  <2> QED BY <2>1, <2>2
<1>5. ASSUME UNCHANGED <<watch, wait>>, \A f \in ChildFrames : entry'[f] # 0 => entry[f] # 0, RegInv'
      PROVE  IInv'
  <2>1. NoneMissed' BY <1>5 DEF NoneMissed
  <2> QED BY <1>5, <2>1, WaitSame
<1>6. ASSUME NEW f \in ChildFrames, NEW u \in Urls, Navigate(f, u) PROVE IInv'
  <2>1. UNCHANGED <<watch, wait, entry>> BY <1>6 DEF Navigate, registry
  <2> QED BY <1>5, <1>6, <2>1, NavigateStep
<1>7. ASSUME NEW d \in Docs, RunScript(d) \/ Deactivate(d) \/ FrameLoaded(d) \/ InjectFails(d)
      PROVE  IInv'
  <2>1. UNCHANGED <<watch, wait, entry>>
    BY <1>7 DEF RunScript, Deactivate, FrameLoaded, InjectFails, registry
  <2> QED BY <1>5, <1>7, <2>1, RunScriptStep, DeactivateStep, FrameLoadedStep, InjectFailsStep
<1>8. ASSUME NEW d \in Docs, InjectReturns(d) PROVE IInv'
  <2>1. UNCHANGED <<watch, wait, entry>> /\ UNCHANGED RegVars
    BY <1>8 DEF InjectReturns, registry, RegVars
  <2> QED BY <1>5, <2>1, RegSame
<1>9. ASSUME NEW d \in Docs, Connected(d) PROVE IInv'
  BY <1>9, ConnectedStep, WaitsNotified
<1>10. ASSUME NEW d \in Docs, FrameDisconnected(d) PROVE IInv'
  <2>1. UNCHANGED <<watch, wait>> BY <1>10 DEF FrameDisconnected
  <2>2. \A f \in ChildFrames : entry'[f] # 0 => entry[f] # 0
    BY <1>10 DEF FrameDisconnected, Drop, RegInv, Typed
  <2> QED BY <1>5, <1>10, <2>1, <2>2, FrameDisconnectedStep
<1>11. ASSUME NEW w \in Waits, WaitSteps(w) PROVE IInv'
  BY <1>11, WaitStep, MissingStep DEF WaitSteps
<1> QED BY <1>1, <1>2, <1>3, <1>4, <1>6, <1>7, <1>8, <1>9, <1>10, <1>11 DEF Next

THEOREM InvAlways == Spec => []IInv
  BY InvInit, InvNext, PTL DEF Spec

\* The table of frames holds exactly the ports that answer: a frame is on record for
\* the open port of a document this watch was told of, of a url it wants, and a live
\* document's open port is the one on record, in every order of loads, connects and
\* ends of ports that the guard of FrameLoaded allows the browser.
THEOREM FramesEntriesExact == Spec => []EntriesExact
<1>1. IInv => EntriesExact BY DEF IInv, RegInv
<1> QED BY <1>1, InvAlways, PTL

\* A held wait is one of the watch there is, in time, and no frame it is after is on
\* record: notifyWaits and endWaits reach every one.
THEOREM FramesNoneMissed == Spec => []NoneMissed
<1>1. IInv => NoneMissed BY DEF IInv
<1> QED BY <1>1, InvAlways, PTL
=============================================================================
