---------------------------- MODULE ReleaseGates ----------------------------
(***************************************************************************)
(* The decisions a request is subject to, as functions of what the node    *)
(* knows: app/authority.py, app/pairing.py and the order in which          *)
(* request_engagement asks them.  Nothing in the code changes the policy   *)
(* in force; it is a parameter here as it is there.                        *)
(***************************************************************************)
EXTENDS Integers, Sequences

Roles == {"OBSERVER", "SENSOR_MANAGER", "ENGAGEMENT_OPERATOR", "FIRE_CONTROL_AUTHORITY"}
RolesMayRelease == {"FIRE_CONTROL_AUTHORITY"}
RolesMayTask == Roles \ {"OBSERVER"}

Identities == {"PENDING", "UNKNOWN", "SUSPECT", "FRIEND", "ASSUMED_FRIEND",
               "NEUTRAL", "HOSTILE"}
EngageableIdentities == {"HOSTILE", "SUSPECT"}

EffectorTypes == {"EW_JAMMER", "RF_TAKEOVER", "NET_CAPTURE", "DIRECTED_ENERGY",
                  "KINETIC_GUN", "KINETIC_INTERCEPTOR", "OTHER"}
CollateralProhibited == {"KINETIC_GUN", "KINETIC_INTERCEPTOR", "DIRECTED_ENERGY", "OTHER"}

EngagementTypes == {"EW_DEFEAT", "RF_TAKEOVER", "NET_CAPTURE", "DIRECTED_ENERGY", "KINETIC"}

\* Which effects a class of effector can deliver.
Compatible ==
  [t \in EffectorTypes |->
     {k \in EngagementTypes :
        \/ t = "OTHER" \/ t = k
        \/ t = "EW_JAMMER" /\ k = "EW_DEFEAT"
        \/ t \in {"KINETIC_GUN", "KINETIC_INTERCEPTOR"} /\ k = "KINETIC"}]

MinTrackQuality ==
  [t \in EffectorTypes |->
     IF t \in {"EW_JAMMER", "RF_TAKEOVER"} THEN 8
     ELSE IF t = "NET_CAPTURE" THEN 9
     ELSE IF t = "DIRECTED_ENERGY" THEN 10
     ELSE IF t = "KINETIC_GUN" THEN 11 ELSE 12]

WeaponsControlStatuses == {"WEAPONS_FREE", "WEAPONS_TIGHT", "WEAPONS_HOLD"}

Policy == [weaponsControlStatus : WeaponsControlStatuses,
           requireHumanInTheLoop : BOOLEAN,
           minTrackQuality : UNION {[D -> Int] : D \in SUBSET EffectorTypes}]

ReadinessStates == {"READY", "DEGRADED", "OFFLINE", "MAINTENANCE", "WEAPONS_HOLD"}

\* An effector as far as it is asked: its magazine, if it has one, and the
\* envelope around it, if it declares one.
Effector == [type : EffectorTypes, readiness : ReadinessStates,
             limited : BOOLEAN, remaining : Int,
             located : BOOLEAN, minRange : Int, maxRange : Int,
             minAltitude : Int, maxAltitude : Int]

\* A request, with the range and altitude of its track.
Request == [role : Roles, identity : Identities, quality : 0..15,
            engagementType : EngagementTypes, range : Int, altitude : Int,
            overNoFireZone : BOOLEAN, confirmed : BOOLEAN]

----------------------------------------------------------------------------
Available(readiness) == readiness \in {"READY", "DEGRADED"}

OutsideEnvelope(x, f) ==
  /\ f.located /\ f.maxRange > 0
  /\ \/ x.range > f.maxRange \/ x.range < f.minRange
     \/ /\ f.maxAltitude > 0
        /\ x.altitude < f.minAltitude \/ x.altitude > f.maxAltitude

\* check_feasibility(): gate 2.
Feasibility(x, f) ==
  IF \/ ~Available(f.readiness)
     \/ x.engagementType \notin Compatible[f.type]
     \/ f.limited /\ f.remaining <= 0
  THEN "EFFECTOR_UNAVAILABLE"
  ELSE IF OutsideEnvelope(x, f) THEN "OUT_OF_ENVELOPE" ELSE "OK"

\* A class the policy does not name needs the highest of the default thresholds.
Threshold(roe, t) == IF t \in DOMAIN roe.minTrackQuality THEN roe.minTrackQuality[t] ELSE 12

\* authorize_engagement(): gates 1 and 3, in the order the code asks them.
Authorization(x, f, roe) ==
  IF roe.weaponsControlStatus = "WEAPONS_HOLD" \/ f.readiness = "WEAPONS_HOLD"
  THEN "WEAPONS_HOLD"
  ELSE IF x.role \notin RolesMayRelease THEN "NOT_AUTHORIZED"
  ELSE IF \/ x.identity \notin EngageableIdentities
          \/ roe.weaponsControlStatus = "WEAPONS_TIGHT" /\ x.identity # "HOSTILE"
  THEN "ROE_PROHIBITED"
  ELSE IF x.quality < Threshold(roe, f.type) THEN "TRACK_QUALITY_INSUFFICIENT"
  ELSE IF x.overNoFireZone /\ f.type \in CollateralProhibited THEN "COLLATERAL_HOLD"
  ELSE IF roe.requireHumanInTheLoop /\ ~x.confirmed THEN "NOT_AUTHORIZED" ELSE "OK"

\* request_engagement(): a reserved effector, then gate 2, then gates 1 and 3.
\* docs/04 and the head of authority.py list track quality first; asked later, it
\* is only masked as the reason of a denial (PermitIsWarranted).
Decision(x, f, roe, reserved) ==
  IF reserved THEN "EFFECTOR_UNAVAILABLE"
  ELSE IF Feasibility(x, f) # "OK" THEN Feasibility(x, f)
  ELSE Authorization(x, f, roe)

\* authorize_tasking()
TaskingAuthorization(role, taskable) ==
  IF role \notin RolesMayTask THEN "NOT_AUTHORIZED"
  ELSE IF ~taskable THEN "EFFECTOR_UNAVAILABLE" ELSE "OK"

Score(f) == IF f.limited THEN f.remaining ELSE 0

\* best_effector(): the first feasible one that scores highest; none if this is
\* empty.
BestEffector(x, fleet) ==
  LET feasible == {i \in DOMAIN fleet : Feasibility(x, fleet[i]) = "OK"} IN
  {i \in feasible : \A j \in feasible :
     \/ Score(fleet[j]) < Score(fleet[i])
     \/ Score(fleet[j]) = Score(fleet[i]) /\ i <= j}

----------------------------------------------------------------------------
\* A policy that asks at least as much as another.
AtLeastAsTight(roe, other) ==
  /\ \/ roe.weaponsControlStatus = other.weaponsControlStatus
     \/ roe.weaponsControlStatus = "WEAPONS_HOLD"
     \/ other.weaponsControlStatus = "WEAPONS_FREE"
  /\ other.requireHumanInTheLoop => roe.requireHumanInTheLoop
  /\ \A t \in EffectorTypes : Threshold(other, t) <= Threshold(roe, t)

\* What a permission vouches for, gate by gate, whichever of them was asked first.
Warranted(x, f, roe) ==
  /\ x.role = "FIRE_CONTROL_AUTHORITY"
  /\ x.identity = "HOSTILE" \/ (x.identity = "SUSPECT" /\ roe.weaponsControlStatus = "WEAPONS_FREE")
  /\ roe.weaponsControlStatus # "WEAPONS_HOLD" /\ Available(f.readiness)
  /\ x.quality >= Threshold(roe, f.type)
  /\ x.engagementType \in Compatible[f.type] /\ (f.limited => f.remaining > 0)
  /\ ~OutsideEnvelope(x, f)
  /\ x.overNoFireZone => f.type \notin CollateralProhibited
  /\ roe.requireHumanInTheLoop => x.confirmed
=============================================================================
