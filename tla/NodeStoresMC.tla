----------------------------- MODULE NodeStoresMC -----------------------------
(***************************************************************************)
(* TLC instance of what the node keeps besides engagements and tasks: the  *)
(* picture with the feed behind it, the materiel, and the audit file.      *)
(* They are disjoint parts of the node's state and meet only inside a      *)
(* request, which takes each as it finds it (Materiel models a failing     *)
(* audit write by sinkWorks); a behaviour here follows one of them.        *)
(***************************************************************************)
EXTENDS TrackFeed, Materiel, AuditChain, TLC

VARIABLE store  \* bound: the part of the node this behaviour follows

MCInit ==
  /\ FeedInit /\ MaterielInit /\ AuditInit
  /\ store \in {"picture", "silence", "stock", "audit"}

\* Registrations, statuses and expiry of all components, while nobody fires.
SilenceNext ==
  /\ MaterielNext
  /\ UNCHANGED <<reserved, ledger, orders, delivered>>

\* The requests for an effector and everything that tells of its magazine, with
\* an audit file that can be written.
StockNext ==
  /\ MaterielNext
  /\ UNCHANGED sinkWorks
  /\ \A s \in Sensors : registry'[s] = None
  /\ \A q \in posts' : q.component \in Effectors
  /\ \A i \in 1..Len(uplink') :
       uplink'[i].kind = "status" => uplink'[i].component \in Effectors

MCNext ==
  /\ \/ store = "picture" /\ FeedNext /\ UNCHANGED <<materielVars, auditVars>>
     \/ store = "silence" /\ SilenceNext /\ UNCHANGED <<feedVars, auditVars>>
     \/ store = "stock" /\ StockNext /\ UNCHANGED <<feedVars, auditVars>>
     \/ store = "audit" /\ AuditNext /\ UNCHANGED <<feedVars, materielVars>>
  /\ UNCHANGED store

MCSpec == MCInit /\ [][MCNext]_<<feedVars, materielVars, auditVars, store>>

\* Requests are interchangeable.
Symmetry == Permutations(Engagements)

----------------------------------------------------------------------------
(* The gates over some requests, effectors and policies: a sanity check of  *)
(* ReleaseGates, whose promises are proved for all of them.                 *)

SomeRequests ==
  [role : {"ENGAGEMENT_OPERATOR", "FIRE_CONTROL_AUTHORITY"},
   identity : {"FRIEND", "SUSPECT", "HOSTILE"}, quality : {7, 8, 12},
   engagementType : {"KINETIC", "EW_DEFEAT"}, range : {2}, altitude : {5},
   overNoFireZone : BOOLEAN, confirmed : BOOLEAN]

SomeEffectors ==
  [type : {"EW_JAMMER", "KINETIC_INTERCEPTOR"}, readiness : {"READY", "WEAPONS_HOLD"},
   limited : {TRUE}, remaining : {0, 1}, located : {TRUE}, minRange : {0, 3},
   maxRange : {3}, minAltitude : {0}, maxAltitude : {0}]

SomePolicies ==
  [weaponsControlStatus : WeaponsControlStatuses, requireHumanInTheLoop : BOOLEAN,
   minTrackQuality : {MinTrackQuality, [t \in {"KINETIC_INTERCEPTOR"} |-> 12]}]

ASSUME GatesAgree ==
  \A x \in SomeRequests, f \in SomeEffectors, roe \in SomePolicies :
    (Decision(x, f, roe, FALSE) = "OK") <=> Warranted(x, f, roe)

SomeFleet == CHOOSE f \in SomeEffectors :
  f.type = "EW_JAMMER" /\ f.readiness = "READY" /\ f.remaining = 1 /\ f.minRange = 0

ASSUME SomePermitted ==
  /\ \E x \in SomeRequests, f \in SomeEffectors, roe \in SomePolicies : Warranted(x, f, roe)
  /\ \A x \in SomeRequests :
       BestEffector(x, <<[SomeFleet EXCEPT !.remaining = 0], SomeFleet, SomeFleet>>) \subseteq {2}
=============================================================================
