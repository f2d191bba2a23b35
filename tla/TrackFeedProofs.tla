--------------------------- MODULE TrackFeedProofs ---------------------------
(***************************************************************************)
(* The picture, for any tracks, any time to live and any sequence of       *)
(* reports whatever, however late, repeated or reordered; and the          *)
(* simulated track feed: for any tracks, latencies that differ by less     *)
(* than a tick, restarts of the simulator and any delivery of what it      *)
(* published, its reports are ordered by the picture's rule.               *)
(***************************************************************************)
EXTENDS TrackFeed, TLAPS

----------------------------------------------------------------------------
(* The picture                                                             *)

LEMMA TimeFacts == TimeToLive \in Nat /\ MaxFutureSkew \in Nat
  BY TimeAssumption

LEMMA ReportFields ==
  ASSUME NEW r \in Report
  PROVE  /\ r.track \in Tracks /\ r.observed \in Nat /\ r.updated \in Nat
         /\ r # Absent
  BY AbsentIsNoReport DEF Report

LEMMA EvictedType ==
  ASSUME CopTypeOK
  PROVE  Evicted \in [Tracks -> Report \cup {Absent}]
  BY DEF Evicted, CopTypeOK

\* What a sweep leaves of a track: what was held, or nothing because it expired.
LEMMA EvictedCases ==
  ASSUME NEW t \in Tracks
  PROVE  \/ /\ Evicted[t] = picture[t]
            /\ picture[t] # Absent => ~Stale(picture[t])
         \/ Evicted[t] = Absent /\ picture[t] # Absent /\ Stale(picture[t])
  BY DEF Evicted

\* What becomes of a track when a report is offered.
LEMMA UpsertedCases ==
  ASSUME CopTypeOK, NEW r \in Report, NEW t \in Tracks
  PROVE  /\ Upserted(r) \in [Tracks -> Report \cup {Absent}]
         /\ \/ Upserted(r)[t] = picture[t]
            \/ Upserted(r)[t] = Evicted[t]
            \/ /\ t = r.track /\ Upserted(r)[t] = r /\ ~Stale(r)
               /\ Evicted[t] = Absent \/ Newer(r, Evicted[t])
  <1>1. r.track \in Tracks
    BY ReportFields
  <1>2. Evicted \in [Tracks -> Report \cup {Absent}]
    BY EvictedType
  <1>3. [Evicted EXCEPT ![r.track] = r] \in [Tracks -> Report \cup {Absent}]
    BY <1>1, <1>2
  <1>4. picture \in [Tracks -> Report \cup {Absent}]
    BY DEF CopTypeOK
  <1>5. CASE r.observed > now + MaxFutureSkew \/ Stale(r)
    BY <1>4, <1>5 DEF Upserted
  <1>6. CASE /\ ~(r.observed > now + MaxFutureSkew \/ Stale(r))
             /\ Evicted[r.track] = Absent \/ Newer(r, Evicted[r.track])
    <2>1. Upserted(r) = [Evicted EXCEPT ![r.track] = r]
      BY <1>6 DEF Upserted
    <2> QED
      BY <1>1, <1>2, <1>3, <1>6, <2>1
  <1>7. CASE /\ ~(r.observed > now + MaxFutureSkew \/ Stale(r))
             /\ ~(Evicted[r.track] = Absent \/ Newer(r, Evicted[r.track]))
    BY <1>2, <1>7 DEF Upserted
  <1> QED
    BY <1>5, <1>6, <1>7
----------------------------------------------------------------------------
\* A step of the picture leaves a track as it is, expires it, or enters a live
\* report that is newer than what the sweep left.
TrackStep(t) ==
  \/ picture'[t] = picture[t]
  \/ picture'[t] = Absent /\ picture[t] # Absent /\ Stale(picture[t])
  \/ /\ picture'[t] \in Report /\ ~Stale(picture'[t])
     /\ \/ picture[t] = Absent \/ Stale(picture[t])
        \/ picture[t] # Absent /\ Newer(picture'[t], picture[t])

LEMMA EveryTrackSteps ==
  ASSUME CopTypeOK,
         picture' = Evicted \/ \E r \in Report : picture' = Upserted(r)
  PROVE  /\ picture' \in [Tracks -> Report \cup {Absent}]
         /\ \A t \in Tracks : TrackStep(t)
  <1>1. CASE picture' = Evicted
    BY <1>1, EvictedType, EvictedCases DEF TrackStep
  <1>2. CASE \E r \in Report : picture' = Upserted(r)
    <2>1. PICK r \in Report : picture' = Upserted(r)
      BY <1>2
    <2>2. picture' \in [Tracks -> Report \cup {Absent}]
      BY <2>1, UpsertedCases, ReportFields
    <2>3. ASSUME NEW t \in Tracks PROVE TrackStep(t)
      <3>1. \/ picture'[t] = picture[t]
            \/ picture'[t] = Evicted[t]
            \/ /\ picture'[t] = r /\ ~Stale(r)
               /\ Evicted[t] = Absent \/ Newer(r, Evicted[t])
        BY <2>1, UpsertedCases
      <3>2. \/ Evicted[t] = picture[t]
            \/ Evicted[t] = Absent /\ picture[t] # Absent /\ Stale(picture[t])
        BY EvictedCases
      <3> QED
        BY <3>1, <3>2 DEF TrackStep
    <2> QED
      BY <2>2, <2>3
  <1> QED
    BY <1>1, <1>2

LEMMA CopStepTyped ==
  ASSUME CopTypeOK, [CopNext]_copVars
  PROVE  CopTypeOK'
  <1>1. CASE UNCHANGED copVars
    BY <1>1 DEF copVars, CopTypeOK
  <1>2. CASE PassTime
    BY <1>2 DEF PassTime, CopTypeOK
  <1>3. CASE Sweep \/ \E r \in Report : ReceiveTrack(r)
    <2>1. /\ picture' = Evicted \/ \E r \in Report : picture' = Upserted(r)
          /\ Remember /\ now' = now
      BY <1>3 DEF Sweep, ReceiveTrack
    <2>2. picture' \in [Tracks -> Report \cup {Absent}]
      BY <2>1, EveryTrackSteps
    <2>3. shown' \in [Tracks -> Report \cup {Absent}]
      BY <2>1, <2>2 DEF Remember, CopTypeOK
    <2> QED
      BY <2>1, <2>2, <2>3 DEF CopTypeOK
  <1> QED
    BY <1>1, <1>2, <1>3 DEF CopNext

LEMMA CopInvStep ==
  ASSUME CopInv, [CopNext]_copVars
  PROVE  CopInv'
  <1> USE DEF CopInv
  <1>1. CASE UNCHANGED copVars
    BY <1>1 DEF copVars, CopTypeOK, ShownIsHeldOrExpired, Stale
  <1>2. CASE PassTime
    <2>1. CopTypeOK'
      BY CopStepTyped
    <2>2. ASSUME NEW r \in Report, Stale(r) PROVE now' > r.observed + TimeToLive
      <3>1. r.observed \in Nat /\ now \in Nat /\ now' = now + 1
        BY <1>2, ReportFields DEF PassTime, CopTypeOK
      <3> QED
        BY <2>2, <3>1, TimeFacts DEF Stale
    <2>3. ShownIsHeldOrExpired'
      <3>1. ASSUME NEW t \in Tracks, shown[t] # Absent
            PROVE  \/ picture[t] = shown[t]
                   \/ picture[t] = Absent /\ now' > shown[t].observed + TimeToLive
        <4>1. shown[t] \in Report
          BY <3>1 DEF CopTypeOK
        <4>2. picture[t] = shown[t] \/ (picture[t] = Absent /\ Stale(shown[t]))
          BY <3>1 DEF ShownIsHeldOrExpired
        <4> QED
          BY <2>2, <4>1, <4>2
      <3>2. \A t \in Tracks : picture[t] # Absent => shown[t] = picture[t]
        BY DEF ShownIsHeldOrExpired
      <3>3. picture' = picture /\ shown' = shown
        BY <1>2 DEF PassTime
      <3> QED
        BY <3>1, <3>2, <3>3 DEF ShownIsHeldOrExpired, Stale
    <2> QED
      BY <2>1, <2>3
  <1>3. CASE Sweep \/ \E r \in Report : ReceiveTrack(r)
    <2>1. /\ picture' = Evicted \/ \E r \in Report : picture' = Upserted(r)
          /\ Remember /\ now' = now
      BY <1>3 DEF Sweep, ReceiveTrack
    <2>2. /\ picture' \in [Tracks -> Report \cup {Absent}]
          /\ \A t \in Tracks : TrackStep(t)
      BY <2>1, EveryTrackSteps
    <2>3. \A t \in Tracks : shown'[t] = IF picture'[t] = Absent THEN shown[t]
                                                             ELSE picture'[t]
      BY <2>1 DEF Remember
    <2>4. CopTypeOK'
      BY CopStepTyped
    <2>5. ASSUME NEW t \in Tracks
          PROVE  /\ shown'[t] # Absent =>
                      \/ picture'[t] = shown'[t]
                      \/ picture'[t] = Absent /\ now' > shown'[t].observed + TimeToLive
                 /\ picture'[t] # Absent => shown'[t] = picture'[t]
      <3>1. TrackStep(t)
        BY <2>2
      <3>2. /\ shown[t] # Absent => \/ picture[t] = shown[t]
                                    \/ picture[t] = Absent /\ Stale(shown[t])
            /\ picture[t] # Absent => shown[t] = picture[t]
        BY DEF ShownIsHeldOrExpired
      <3>3. shown'[t] = IF picture'[t] = Absent THEN shown[t] ELSE picture'[t]
        BY <2>3
      <3>4. CASE picture'[t] # Absent
        BY <3>3, <3>4
      <3>5. CASE picture'[t] = Absent
        <4>1. shown'[t] = shown[t]
          BY <3>3, <3>5
        <4>2. picture[t] = Absent \/ (picture[t] # Absent /\ Stale(picture[t]))
          BY <3>1, <3>5, AbsentIsNoReport DEF TrackStep
        <4>3. shown[t] # Absent => Stale(shown[t])
          BY <3>2, <4>2
        <4> QED
          BY <2>1, <3>5, <4>1, <4>3 DEF Stale
      <3> QED
        BY <3>4, <3>5
    <2> QED
      BY <2>4, <2>5 DEF ShownIsHeldOrExpired, Stale
  <1> QED
    BY <1>1, <1>2, <1>3 DEF CopNext

\* For any tracks, times to live and reports, what the picture showed of a track
\* last is what it holds, or expired (cop.py, upsert and _evict_expired_locked).
THEOREM PictureInvariant == CopSpec => []CopInv
  <1>1. CopInit => CopInv
    BY DEF CopInit, CopInv, CopTypeOK, ShownIsHeldOrExpired
  <1>2. CopInv /\ [CopNext]_copVars => CopInv'
    BY CopInvStep
  <1> QED
    BY <1>1, <1>2, PTL DEF CopSpec

LEMMA StepAdvances ==
  ASSUME CopInv, [CopNext]_copVars, NEW t \in Tracks,
         picture'[t] # picture[t], picture'[t] # Absent, shown[t] # Absent
  PROVE  Advances(picture'[t], shown[t])
  <1>1. picture' = Evicted \/ \E r \in Report : picture' = Upserted(r)
    BY DEF CopNext, copVars, PassTime, Sweep, ReceiveTrack
  <1>2. TrackStep(t)
    BY <1>1, EveryTrackSteps DEF CopInv
  <1>3. /\ picture'[t] \in Report /\ ~Stale(picture'[t])
        /\ \/ picture[t] = Absent \/ Stale(picture[t])
           \/ picture[t] # Absent /\ Newer(picture'[t], picture[t])
    BY <1>2 DEF TrackStep
  <1>4. /\ picture[t] = shown[t] \/ (picture[t] = Absent /\ Stale(shown[t]))
        /\ shown[t] \in Report
    BY DEF CopInv, CopTypeOK, ShownIsHeldOrExpired
  <1>5. Stale(shown[t]) \/ Newer(picture'[t], shown[t])
    BY <1>3, <1>4, AbsentIsNoReport
  <1>6. CASE Stale(shown[t])
    <2>1. /\ picture'[t].observed \in Nat /\ shown[t].observed \in Nat
          /\ TimeToLive \in Nat /\ now \in Nat
      BY <1>3, <1>4, ReportFields, TimeFacts DEF CopInv, CopTypeOK
    <2> QED
      BY <1>3, <1>6, <2>1 DEF Stale, Advances
  <1>7. CASE Newer(picture'[t], shown[t])
    BY <1>3, <1>4, <1>7, ReportFields DEF Newer, Advances
  <1> QED
    BY <1>5, <1>6, <1>7

\* Whatever is put on the picture is newer than what it ever showed of the
\* track, eviction included.
THEOREM PictureOnlyAdvances == CopSpec => PictureAdvances
  <1>1. CopInv /\ [CopNext]_copVars =>
          [\A t \in Tracks :
             (picture'[t] # picture[t] /\ picture'[t] # Absent /\ shown[t] # Absent)
               => Advances(picture'[t], shown[t])]_copVars
    BY StepAdvances
  <1> QED
    BY <1>1, PictureInvariant, PTL DEF CopSpec, PictureAdvances

----------------------------------------------------------------------------
(* The feed                                                                *)

\* A track still present, as the newest observation the source has of it.
Seen(t) == targets[t] # Absent /\ targets[t].observed # Absent

LEMMA TickFacts ==
  /\ Tick \in Nat /\ Tick > 0
  /\ \A l \in Latencies : l \in Nat /\ l <= Tick
  /\ \A k, l \in Latencies : l < k + Tick
  BY TickAssumption

LEMMA AbsentFacts == Absent \notin Nat /\ Absent \notin Report /\ Absent \notin Target
  BY AbsentIsNoReport, AbsentIsNoTarget

\* What a tick makes of a track: nothing, the same, or a later observation.
Ticked(k, l) ==
  IF k = Absent THEN Absent
  ELSE Surviving(Observe(k, l, scenarioNow + Tick), scenarioNow + Tick)

LEMMA TickedCases ==
  ASSUME NEW k, NEW l \in Latencies \cup {Absent}
  PROVE  \/ Ticked(k, l) = Absent
         \/ k # Absent /\ Ticked(k, l) = k
         \/ /\ k # Absent /\ l \in Latencies /\ l # Absent
            /\ Ticked(k, l) = Observe(k, l, scenarioNow + Tick)
  <1> DEFINE seen == Observe(k, l, scenarioNow + Tick)
  <1>1. Ticked(k, l) = Absent \/ (k # Absent /\ Ticked(k, l) = seen)
    BY DEF Ticked, Surviving
  <1>2. CASE l = Absent
    BY <1>1, <1>2 DEF Observe
  <1>3. CASE l # Absent
    BY <1>1, <1>3
  <1> QED
    BY <1>2, <1>3

LEMMA TickedTyped ==
  ASSUME SourceInv, NEW t \in Tracks, NEW l \in Latencies \cup {Absent},
         NEW k, k = Ticked(targets[t], l), k # Absent
  PROVE  /\ k \in Target
         /\ k.observed # Absent =>
              /\ k.observed \in Nat
              /\ \A m \in Latencies : k.observed < (scenarioNow + Tick) + Tick - m
         /\ targets[t] # Absent
         /\ targets[t].observed # Absent =>
              /\ k.observed # Absent
              /\ \/ k.sequence = targets[t].sequence /\ k.observed = targets[t].observed
                 \/ k.sequence > targets[t].sequence /\ k.observed > targets[t].observed
  <1>1. /\ targets[t] \in Target \cup {Absent} /\ scenarioNow \in Nat
        /\ targets[t] # Absent => Overtaken(targets[t])
    BY DEF SourceInv, SourceTypeOK
  <1>2. CASE targets[t] # Absent /\ k = targets[t]
    <2>1. k \in Target /\ Overtaken(k)
      BY <1>1, <1>2
    <2>2. k.observed # Absent => k.observed \in Nat
      BY <2>1 DEF Target
    <2>3. ASSUME k.observed # Absent, NEW m \in Latencies
          PROVE  k.observed < (scenarioNow + Tick) + Tick - m
      <3>1. k.observed < scenarioNow + Tick - m
        BY <2>1, <2>3 DEF Overtaken
      <3> QED
        BY <1>1, <2>2, <2>3, <3>1, TickFacts
    <2> QED
      BY <1>2, <2>1, <2>2, <2>3
  <1>3. CASE /\ targets[t] # Absent /\ l \in Latencies /\ l # Absent
             /\ k = Observe(targets[t], l, scenarioNow + Tick)
    <2>1. k = [observed |-> (scenarioNow + Tick) - l,
               sequence |-> targets[t].sequence + 1]
      BY <1>3, Zenon DEF Observe
    <2>2. k.observed = (scenarioNow + Tick) - l /\ k.sequence = targets[t].sequence + 1
      BY <2>1
    <2>3. targets[t].sequence \in Nat /\ targets[t].observed \in Nat \cup {Absent}
      BY <1>1, <1>3 DEF Target
    <2>4. k.observed \in Nat /\ k.sequence \in Nat
      BY <1>1, <1>3, <2>2, <2>3, TickFacts
    <2>5. k \in Target
      BY <2>1, <2>2, <2>4 DEF Target
    <2>6. ASSUME NEW m \in Latencies
          PROVE  k.observed < (scenarioNow + Tick) + Tick - m
      BY <1>1, <1>3, <2>2, TickFacts
    <2>7. ASSUME targets[t].observed # Absent
          PROVE  k.sequence > targets[t].sequence /\ k.observed > targets[t].observed
      <3>1. targets[t].observed < scenarioNow + Tick - l
        BY <1>1, <1>3, <2>7 DEF Overtaken
      <3> QED
        BY <1>1, <1>3, <2>2, <2>3, <2>7, <3>1, TickFacts
    <2>8. k.observed # Absent
      BY <2>4, AbsentFacts
    <2> HIDE DEF Overtaken
    <2> QED
      BY <1>3, <2>4, <2>5, <2>6, <2>7, <2>8
  <1> QED
    BY <1>2, <1>3, TickedCases
----------------------------------------------------------------------------
(* The source's steps.                                                      *)

LEMMA TickKeepsSourceInv ==
  ASSUME SourceInv, now \in Nat, ScenarioTick
  PROVE  SourceInv'
  <1>0. PICK latency \in [Tracks -> Latencies \cup {Absent}] :
          targets' = [t \in Tracks |-> Ticked(targets[t], latency[t])]
    BY DEF ScenarioTick, Ticked
  <1>1. /\ scenarioNow' = scenarioNow + Tick /\ scenarioNow \in Nat
        /\ session' = session /\ reports' = reports
        /\ \A t \in Tracks : /\ latency[t] \in Latencies \cup {Absent}
                             /\ targets'[t] = Ticked(targets[t], latency[t])
    BY <1>0 DEF ScenarioTick, SourceInv, SourceTypeOK
  <1>2. ASSUME NEW t \in Tracks, targets'[t] # Absent
        PROVE  /\ targets'[t] \in Target
               /\ targets'[t].observed # Absent =>
                    \A l \in Latencies : targets'[t].observed < scenarioNow' + Tick - l
    BY <1>1, <1>2, TickedTyped
  <1>3. \A t \in Tracks : targets'[t] \in Target \cup {Absent}
    BY <1>2
  <1>4. targets' \in [Tracks -> Target \cup {Absent}]
    BY <1>0, <1>3
  <1>5. SourceTypeOK'
    BY <1>1, <1>4, TickFacts DEF SourceInv, SourceTypeOK
  <1>6. ASSUME NEW p \in reports, p.session = session PROVE Behind(p)'
    <2> DEFINE t == p.report.track
    <2>1. /\ Behind(p) /\ p.report \in Report /\ p.report.sequence \in Nat
      BY <1>6 DEF SourceInv, SourceTypeOK
    <2>2. /\ t \in Tracks /\ p.report.updated \in Nat /\ p.report.observed \in Nat
      BY <2>1, ReportFields
    <2>3. p.report.updated <= scenarioNow'
      BY <1>1, <2>1, <2>2, TickFacts DEF Behind
    <2>4. ASSUME targets'[t] # Absent
          PROVE  /\ targets'[t].observed # Absent
                 /\ \/ /\ p.report.sequence = targets'[t].sequence
                       /\ p.report.observed = targets'[t].observed
                    \/ /\ p.report.sequence < targets'[t].sequence
                       /\ p.report.observed < targets'[t].observed
      <3>1. targets[t] # Absent
        BY <1>1, <2>2, <2>4, TickedTyped
      <3>2. /\ targets[t].observed # Absent
            /\ \/ /\ p.report.sequence = targets[t].sequence
                  /\ p.report.observed = targets[t].observed
               \/ /\ p.report.sequence < targets[t].sequence
                  /\ p.report.observed < targets[t].observed
        BY <2>1, <3>1 DEF Behind
      <3>3. /\ targets'[t].observed # Absent
            /\ \/ /\ targets'[t].sequence = targets[t].sequence
                  /\ targets'[t].observed = targets[t].observed
               \/ /\ targets'[t].sequence > targets[t].sequence
                  /\ targets'[t].observed > targets[t].observed
        BY <1>1, <2>2, <2>4, <3>2, TickedTyped
      <3>4. /\ targets[t].sequence \in Nat /\ targets'[t].sequence \in Nat
            /\ targets[t].observed \in Nat /\ targets'[t].observed \in Nat
        BY <1>2, <2>2, <2>4, <3>1, <3>2, <3>3 DEF SourceInv, SourceTypeOK, Target
      <3> HIDE DEF t
      <3> QED
        BY <2>1, <2>2, <3>2, <3>3, <3>4
    <2> QED
      BY <2>3, <2>4 DEF Behind
  <1>7. \A t \in Tracks : targets'[t] # Absent => Overtaken(targets[t])'
    BY <1>2 DEF Overtaken
  <1> QED
    BY <1>1, <1>5, <1>6, <1>7 DEF SourceInv

LEMMA RemoveKeepsSourceInv ==
  ASSUME SourceInv, NEW u \in Tracks, Remove(u)
  PROVE  SourceInv'
  <1>1. /\ targets' = [targets EXCEPT ![u] = Absent]
        /\ scenarioNow' = scenarioNow /\ session' = session /\ reports' = reports
        /\ targets \in [Tracks -> Target \cup {Absent}]
    BY DEF Remove, SourceInv, SourceTypeOK
  <1>2. \A t \in Tracks : targets'[t] = Absent \/ targets'[t] = targets[t]
    BY <1>1
  <1>3. SourceTypeOK'
    BY <1>1 DEF SourceInv, SourceTypeOK
  <1>4. \A t \in Tracks : targets'[t] # Absent => Overtaken(targets[t])'
    BY <1>1, <1>2 DEF SourceInv, Overtaken
  <1>5. ASSUME NEW p \in reports, p.session = session PROVE Behind(p)'
    <2>1. Behind(p) /\ p.report.track \in Tracks
      BY <1>5, ReportFields DEF SourceInv, SourceTypeOK
    <2> QED
      BY <1>1, <1>2, <2>1 DEF Behind
  <1> QED
    BY <1>1, <1>3, <1>4, <1>5 DEF SourceInv

\* What Publish(t) adds.
Published(t) ==
  [report |-> [track |-> t, observed |-> targets[t].observed,
               updated |-> scenarioNow, sequence |-> targets[t].sequence],
   session |-> session]

LEMMA PublishedTyped ==
  ASSUME SourceInv, NEW t \in Tracks, Publish(t)
  PROVE  /\ reports' = reports \cup {Published(t)}
         /\ Published(t).report \in Report /\ Published(t).session = session
         /\ Published(t).report.track = t
         /\ Published(t).report.updated = scenarioNow
         /\ Published(t).report.observed = targets[t].observed
         /\ Published(t).report.sequence = targets[t].sequence
         /\ targets[t].sequence \in Nat /\ targets[t].observed \in Nat
         /\ targets[t] # Absent
         /\ scenarioNow' = scenarioNow /\ session' = session /\ targets' = targets
  <1>1. /\ targets[t] # Absent /\ targets[t].observed # Absent
        /\ reports' = reports \cup {Published(t)}
        /\ scenarioNow' = scenarioNow /\ session' = session /\ targets' = targets
    BY DEF Publish, Published
  <1>2. /\ targets[t] \in Target /\ scenarioNow \in Nat
    BY <1>1 DEF SourceInv, SourceTypeOK
  <1>3. targets[t].sequence \in Nat /\ targets[t].observed \in Nat
    BY <1>1, <1>2 DEF Target
  <1>4. Published(t).report \in Report
    BY <1>2, <1>3 DEF Published, Report
  <1> QED
    BY <1>1, <1>3, <1>4 DEF Published

LEMMA PublishKeepsSourceInv ==
  ASSUME SourceInv, NEW t \in Tracks, Publish(t)
  PROVE  SourceInv'
  <1> DEFINE new == Published(t)
  <1>1. /\ reports' = reports \cup {new}
        /\ new.report \in Report /\ new.session = session
        /\ new.report.track = t
        /\ new.report.updated = scenarioNow
        /\ new.report.observed = targets[t].observed
        /\ new.report.sequence = targets[t].sequence
        /\ targets[t].sequence \in Nat /\ targets[t].observed \in Nat
        /\ scenarioNow' = scenarioNow /\ session' = session /\ targets' = targets
        /\ scenarioNow \in Nat /\ session \in Nat
    BY PublishedTyped DEF SourceInv, SourceTypeOK
  <1> HIDE DEF new
  <1>2. SourceTypeOK'
    BY <1>1 DEF SourceInv, SourceTypeOK
  <1>3. \A p \in reports' : p.session <= session' /\ p.report.sequence \in Nat
    BY <1>1 DEF SourceInv
  <1>4. Behind(new)
    BY <1>1, AbsentFacts DEF Behind
  <1>5. \A p \in reports' : p.session = session => Behind(p)
    BY <1>1, <1>4 DEF SourceInv
  <1>6. \A p \in reports' : p.session = session' => Behind(p)'
    BY <1>1, <1>5 DEF Behind
  <1>7. \A u \in Tracks : targets'[u] # Absent => Overtaken(targets[u])'
    BY <1>1 DEF SourceInv, Overtaken
  <1> QED
    BY <1>2, <1>3, <1>6, <1>7 DEF SourceInv

LEMMA RestartKeepsSourceInv ==
  ASSUME SourceInv, now \in Nat, RestartSource
  PROVE  SourceInv'
  <1>1. /\ session' = session + 1 /\ scenarioNow' = now /\ reports' = reports
        /\ targets' = [t \in Tracks |-> Unobserved]
        /\ session \in Nat
    BY DEF RestartSource, SourceInv, SourceTypeOK
  <1>2. Unobserved \in Target /\ Unobserved.observed = Absent
    BY DEF Unobserved, Target
  <1>3. SourceTypeOK'
    BY <1>1, <1>2 DEF SourceInv, SourceTypeOK
  <1>4. \A t \in Tracks : targets'[t] # Absent => Overtaken(targets[t])'
    BY <1>1, <1>2 DEF Overtaken
  <1>5. \A p \in reports : p.session \in Nat /\ p.session <= session
    BY DEF SourceInv, SourceTypeOK
  <1>6. \A p \in reports : p.session <= session' /\ p.session # session'
    BY <1>1, <1>5
  <1> QED
    BY <1>1, <1>3, <1>4, <1>6 DEF SourceInv

LEMMA SourceInvStep ==
  ASSUME SourceInv, now \in Nat, SourceNext
  PROVE  SourceInv'
  BY TickKeepsSourceInv, RemoveKeepsSourceInv, PublishKeepsSourceInv,
     RestartKeepsSourceInv DEF SourceNext
----------------------------------------------------------------------------
(* The order of what was published.                                         *)

\* p was published before q of the same track, and q is news and p is not.
InOrder(p, q) ==
  (/\ p.session = q.session /\ p.report.track = q.report.track
   /\ p.report.updated < q.report.updated)
    => Newer(q.report, p.report) /\ ~Newer(p.report, q.report)

LEMMA PublishKeepsOrder ==
  ASSUME SourceInv, NewsIsTaken, NEW t \in Tracks, Publish(t)
  PROVE  NewsIsTaken'
  <1> DEFINE new == Published(t)
  <1>1. /\ reports' = reports \cup {new}
        /\ new.report \in Report /\ new.session = session
        /\ new.report.track = t
        /\ new.report.updated = scenarioNow
        /\ new.report.observed = targets[t].observed
        /\ new.report.sequence = targets[t].sequence
        /\ targets[t].sequence \in Nat /\ targets[t].observed \in Nat
        /\ targets[t] # Absent
        /\ scenarioNow \in Nat
    BY PublishedTyped DEF SourceInv, SourceTypeOK
  <1> HIDE DEF new
  <1>2. ASSUME NEW p \in reports PROVE InOrder(p, new)
    <2> SUFFICES ASSUME p.session = session, p.report.track = t,
                        p.report.updated < scenarioNow
                 PROVE  Newer(new.report, p.report) /\ ~Newer(p.report, new.report)
      BY <1>1 DEF InOrder
    <2>1. /\ Behind(p) /\ p.report \in Report /\ p.report.sequence \in Nat
      BY DEF SourceInv, SourceTypeOK
    <2>2. p.report.observed \in Nat /\ p.report.updated \in Nat
      BY <2>1, ReportFields
    <2>3. \/ /\ p.report.sequence = new.report.sequence
             /\ p.report.observed = new.report.observed
          \/ /\ p.report.sequence < new.report.sequence
             /\ p.report.observed < new.report.observed
      BY <1>1, <2>1 DEF Behind
    <2>4. Newer(new.report, p.report)
      BY <1>1, <2>1, <2>2, <2>3, AbsentFacts DEF Newer
    <2>5. ~Newer(p.report, new.report)
      BY <1>1, <2>2 DEF Newer
    <2> QED
      BY <2>4, <2>5
  <1>3. ASSUME NEW p \in reports PROVE InOrder(new, p)
    <2> SUFFICES ASSUME p.session = session, scenarioNow < p.report.updated
                 PROVE  FALSE
      BY <1>1 DEF InOrder
    <2>1. Behind(p) /\ p.report \in Report
      BY DEF SourceInv, SourceTypeOK
    <2>2. p.report.updated <= scenarioNow /\ p.report.updated \in Nat
      BY <2>1, ReportFields DEF Behind
    <2> QED
      BY <1>1, <2>2
  <1>4. InOrder(new, new)
    BY <1>1 DEF InOrder
  <1>5. \A p, q \in reports : InOrder(p, q)
    BY DEF NewsIsTaken, InOrder
  <1>6. \A p, q \in reports' : InOrder(p, q)
    BY <1>1, <1>2, <1>3, <1>4, <1>5
  <1> QED
    BY <1>6 DEF NewsIsTaken, InOrder, Newer

LEMMA FeedInvInit == FeedInit => FeedInv
  <1> SUFFICES ASSUME FeedInit PROVE FeedInv
    OBVIOUS
  <1>1. CopTypeOK
    BY DEF FeedInit, CopInit, CopTypeOK
  <1>2. Unobserved \in Target /\ Unobserved.observed = Absent
    BY DEF Unobserved, Target
  <1>3. /\ targets = [t \in Tracks |-> Unobserved] /\ reports = {}
        /\ scenarioNow = 0 /\ session = 1
    BY DEF FeedInit, SourceInit
  <1>4. SourceInv
    BY <1>2, <1>3 DEF SourceInv, SourceTypeOK, Overtaken
  <1> QED
    BY <1>1, <1>3, <1>4 DEF FeedInv, NewsIsTaken

LEMMA UnchangedSource ==
  ASSUME SourceInv, NewsIsTaken, UNCHANGED sourceVars
  PROVE  SourceInv' /\ NewsIsTaken'
  <1>1. /\ scenarioNow' = scenarioNow /\ targets' = targets
        /\ session' = session /\ reports' = reports
    BY DEF sourceVars
  <1>2. SourceInv'
    BY <1>1 DEF SourceInv, SourceTypeOK, Overtaken, Behind
  <1> QED
    BY <1>1, <1>2 DEF NewsIsTaken, Newer

\* Every step of the feed is a step of the picture or leaves it alone: what a
\* simulator publishes is a report, and nothing but its delivery is a receipt.
LEMMA FeedStepIsCopStep ==
  ASSUME FeedInv, [FeedNext]_feedVars
  PROVE  [CopNext]_copVars
  <1>1. \A p \in reports : p.report \in Report
    BY DEF FeedInv, SourceInv, SourceTypeOK
  <1> QED
    BY <1>1 DEF FeedNext, feedVars, SourceStep, Deliver, Clock, CopNext

LEMMA FeedInvStep ==
  ASSUME FeedInv, [FeedNext]_feedVars
  PROVE  FeedInv'
  <1>1. CopTypeOK'
    BY FeedStepIsCopStep, CopStepTyped DEF FeedInv
  <1>2. CASE UNCHANGED sourceVars
    BY <1>1, <1>2, UnchangedSource DEF FeedInv
  <1>3. CASE SourceNext
    <2>1. now \in Nat
      BY DEF FeedInv, CopTypeOK
    <2>2. SourceInv'
      BY <1>3, <2>1, SourceInvStep DEF FeedInv
    <2>3. NewsIsTaken'
      <3>1. CASE \E t \in Tracks : Publish(t)
        BY <3>1, PublishKeepsOrder DEF FeedInv
      <3>2. CASE reports' = reports
        BY <3>2 DEF FeedInv, NewsIsTaken, Newer
      <3> QED
        BY <1>3, <3>1, <3>2 DEF SourceNext, ScenarioTick, Remove, RestartSource
    <2> QED
      BY <1>1, <2>2, <2>3 DEF FeedInv
  <1> QED
    BY <1>2, <1>3 DEF FeedNext, feedVars, SourceStep, Deliver, Clock

\* What the simulator published, has in hand and will publish next stays in
\* order, whatever the bus makes of it.
THEOREM FeedInvariant == FeedSpec => []FeedInv
  <1>1. FeedInv /\ [FeedNext]_feedVars => FeedInv'
    BY FeedInvStep
  <1> QED
    BY <1>1, FeedInvInit, PTL DEF FeedSpec

\* Of two reports one process published of a track, the later is newer by the
\* picture's rule and the earlier is not, for any latencies that differ by less
\* than a tick (simulation.py, Track.observe; cop.py, _is_newer).
THEOREM FeedIsOrdered == FeedSpec => []NewsIsTaken
  <1>1. FeedInv => NewsIsTaken
    BY DEF FeedInv
  <1> QED
    BY <1>1, FeedInvariant, PTL

\* Behind any delivery of what the simulator publishes the picture is the
\* picture of CopStore: its theorems hold of the feed.
THEOREM FeedImplementsCop == FeedSpec => CopSpec
  <1>1. FeedInit => CopInit
    BY DEF FeedInit
  <1>2. FeedInv /\ [FeedNext]_feedVars => [CopNext]_copVars
    BY FeedStepIsCopStep
  <1> QED
    BY <1>1, <1>2, FeedInvariant, PTL DEF FeedSpec, CopSpec
=============================================================================
