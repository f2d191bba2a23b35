----------------------------- MODULE TrackSource -----------------------------
(***************************************************************************)
(* The simulated sensors and their fused track feed (simulation.py,        *)
(* sim.py): a scenario clock advanced tick by tick, tracks observed by     *)
(* sensors of different latency or left to coast, and reports of them      *)
(* published at a pace of their own.                                       *)
(***************************************************************************)
EXTENDS CopStore

CONSTANTS
  Tick,          \* SIM_TICK_SECONDS
  Latencies,     \* of the sensors' weighted measurements
  MaxSessions    \* bound: starts of the simulator process

\* A tick is longer than the latencies differ: 0.5 s against 0.17 s.
ASSUME TickAssumption ==
  /\ Tick \in Nat \ {0} /\ Latencies \subseteq 0..Tick
  /\ \A k, l \in Latencies : l < k + Tick

VARIABLES
  scenarioNow,   \* SimulationClock.now, never ahead of the node's clock
  targets,       \* Scenario.tracks
  session,       \* which start of the simulator process this is
  reports        \* every report ever published, with the session it is from

sourceVars == <<scenarioNow, targets, session, reports>>

Unobserved == [observed |-> Absent, sequence |-> 0]

Target == [observed : Nat \cup {Absent}, sequence : Nat]

ASSUME AbsentIsNoTarget == Absent \notin Target

SourceTypeOK ==
  /\ scenarioNow \in Nat
  /\ targets \in [Tracks -> Target \cup {Absent}]
  /\ session \in Nat
  /\ \A p \in reports : p.report \in Report /\ p.session \in Nat

SourceInit ==
  /\ scenarioNow = 0
  /\ targets = [t \in Tracks |-> Unobserved]
  /\ session = 1
  /\ reports = {}

\* Faulty variant: a coasting track is dated by the tick, not by its observation.
ObserveCoasting(k, l, at) ==
  IF l = Absent
  THEN IF k.observed = Absent THEN k ELSE [k EXCEPT !.observed = at]
  ELSE [observed |-> at - l, sequence |-> k.sequence + 1]

\* Track.observe() at a tick: sensors see the track, with a latency l between
\* theirs, or none does and it coasts with the observation it had.
Observe(k, l, at) ==
  IF l = Absent THEN k ELSE [observed |-> at - l, sequence |-> k.sequence + 1]

\* A track whose observation outlived the time to live leaves the scenario.
Surviving(k, at) ==
  IF k.observed # Absent /\ at > k.observed + TimeToLive THEN Absent ELSE k

\* Scenario.tick(); the loop sleeps a tick between two, so its clock may lag.
ScenarioTick ==
  LET at == scenarioNow + Tick IN
  /\ at <= now
  /\ scenarioNow' = at
  /\ \E latency \in [Tracks -> Latencies \cup {Absent}] :
       targets' = [t \in Tracks |->
                     IF targets[t] = Absent THEN Absent
                     ELSE Surviving(Observe(targets[t], latency[t], at), at)]
  /\ UNCHANGED <<session, reports>>

\* The target is hit, or reaches the asset.
Remove(t) ==
  /\ targets[t] # Absent
  /\ targets' = [targets EXCEPT ![t] = Absent]
  /\ UNCHANGED <<scenarioNow, session, reports>>

\* _publish_tracks(): a track never observed is not reported.
Publish(t) ==
  /\ targets[t] # Absent /\ targets[t].observed # Absent
  /\ LET r == [track |-> t, observed |-> targets[t].observed,
               updated |-> scenarioNow, sequence |-> targets[t].sequence]
     IN reports' = reports \cup {[report |-> r, session |-> session]}
  /\ UNCHANGED <<scenarioNow, targets, session>>

\* A new process starts at wall time, with the same track IDs and sequences
\* that begin again.
RestartSource ==
  /\ session < MaxSessions
  /\ session' = session + 1
  /\ scenarioNow' = now
  /\ targets' = [t \in Tracks |-> Unobserved]
  /\ UNCHANGED reports

SourceNext ==
  \/ ScenarioTick
  \/ \E t \in Tracks : Remove(t) \/ Publish(t)
  \/ RestartSource

----------------------------------------------------------------------------
(* Why reports are in order: the inductive strengthening                   *)

\* Whatever the next tick observes of a track is later than what it has.
Overtaken(k) == k.observed # Absent =>
                  \A l \in Latencies : k.observed < scenarioNow + Tick - l

\* A report of the running process is not newer than its track.
Behind(p) ==
  LET t == p.report.track IN
  /\ p.report.updated <= scenarioNow
  /\ targets[t] # Absent =>
       /\ targets[t].observed # Absent
       /\ \/ p.report.sequence = targets[t].sequence /\ p.report.observed = targets[t].observed
          \/ p.report.sequence < targets[t].sequence /\ p.report.observed < targets[t].observed

SourceInv ==
  /\ SourceTypeOK
  /\ \A t \in Tracks : targets[t] # Absent => Overtaken(targets[t])
  /\ \A p \in reports : p.session <= session /\ p.report.sequence \in Nat
  /\ \A p \in reports : p.session = session => Behind(p)
=============================================================================
