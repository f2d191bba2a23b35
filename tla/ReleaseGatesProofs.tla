------------------------- MODULE ReleaseGatesProofs -------------------------
(***************************************************************************)
(* What the gates promise for every request, effector and policy.          *)
(***************************************************************************)
EXTENDS ReleaseGates, TLAPS

LEMMA ThresholdIsInteger ==
  ASSUME NEW roe \in Policy, NEW t \in EffectorTypes
  PROVE  Threshold(roe, t) \in Int
  <1>1. PICK D \in SUBSET EffectorTypes : roe.minTrackQuality \in [D -> Int]
    BY DEF Policy
  <1> QED
    BY <1>1 DEF Threshold

LEMMA FeasibleMeans ==
  ASSUME NEW x \in Request, NEW f \in Effector
  PROVE  Feasibility(x, f) = "OK" <=>
           /\ Available(f.readiness) /\ x.engagementType \in Compatible[f.type]
           /\ f.limited => f.remaining > 0
           /\ ~OutsideEnvelope(x, f)
  <1>1. f.remaining \in Int
    BY DEF Effector
  <1> QED
    BY <1>1 DEF Feasibility

LEMMA AuthorizedMeans ==
  ASSUME NEW x \in Request, NEW f \in Effector, NEW roe \in Policy
  PROVE  Authorization(x, f, roe) = "OK" <=>
           /\ roe.weaponsControlStatus # "WEAPONS_HOLD" /\ f.readiness # "WEAPONS_HOLD"
           /\ x.role = "FIRE_CONTROL_AUTHORITY"
           /\ \/ x.identity = "HOSTILE"
              \/ x.identity = "SUSPECT" /\ roe.weaponsControlStatus = "WEAPONS_FREE"
           /\ x.quality >= Threshold(roe, f.type)
           /\ x.overNoFireZone => f.type \notin CollateralProhibited
           /\ roe.requireHumanInTheLoop => x.confirmed
  <1>1. /\ x.quality \in Int /\ f.type \in EffectorTypes
        /\ roe.weaponsControlStatus \in WeaponsControlStatuses
    BY DEF Request, Effector, Policy
  <1>2. Threshold(roe, f.type) \in Int
    BY <1>1, ThresholdIsInteger
  <1> QED
    BY <1>1, <1>2 DEF Authorization, RolesMayRelease, EngageableIdentities,
                      WeaponsControlStatuses

\* A permission of request_engagement's gates vouches for every one of them: no
\* order is released by the order in which they are asked, and a friend or a
\* neutral is engaged under no policy.
THEOREM PermitIsWarranted ==
  ASSUME NEW x \in Request, NEW f \in Effector, NEW roe \in Policy, NEW reserved \in BOOLEAN
  PROVE  Decision(x, f, roe, reserved) = "OK" <=> ~reserved /\ Warranted(x, f, roe)
  <1>1. f.readiness = "WEAPONS_HOLD" => ~Available(f.readiness)
    BY DEF Available
  <1>2. Decision(x, f, roe, reserved) = "OK" <=>
          /\ ~reserved
          /\ Feasibility(x, f) = "OK" /\ Authorization(x, f, roe) = "OK"
    BY DEF Decision
  <1> QED
    BY <1>1, <1>2, FeasibleMeans, AuthorizedMeans DEF Warranted

\* Tightening the policy never turns a denial into a permission, in whatever of
\* its parts it is tightened, a class it does not name included.
THEOREM TighteningNeverReleases ==
  ASSUME NEW x \in Request, NEW f \in Effector, NEW roe \in Policy, NEW other \in Policy,
         NEW reserved \in BOOLEAN,
         AtLeastAsTight(roe, other), Decision(x, f, roe, reserved) = "OK"
  PROVE  Decision(x, f, other, reserved) = "OK"
  <1>1. ~reserved /\ Warranted(x, f, roe)
    BY PermitIsWarranted
  <1>2. /\ x.quality \in Int /\ f.type \in EffectorTypes
        /\ other.weaponsControlStatus \in WeaponsControlStatuses
    BY DEF Request, Effector, Policy
  <1>3. /\ Threshold(roe, f.type) \in Int /\ Threshold(other, f.type) \in Int
        /\ Threshold(other, f.type) <= Threshold(roe, f.type)
    BY <1>2, ThresholdIsInteger DEF AtLeastAsTight
  <1>4. x.quality >= Threshold(other, f.type)
    BY <1>1, <1>2, <1>3 DEF Warranted
  <1>5. Warranted(x, f, other)
    BY <1>1, <1>4 DEF Warranted, AtLeastAsTight
  <1> QED
    BY <1>1, <1>5, PermitIsWarranted

\* Gate 2 is asked first, so a weapons-hold reported by the effector itself is
\* never the reason a request is given: that answer always means the policy.
THEOREM HoldMeansPolicy ==
  ASSUME NEW x \in Request, NEW f \in Effector, NEW roe \in Policy, NEW reserved \in BOOLEAN,
         Decision(x, f, roe, reserved) = "WEAPONS_HOLD"
  PROVE  roe.weaponsControlStatus = "WEAPONS_HOLD"
  <1>1. /\ ~reserved /\ Feasibility(x, f) = "OK"
        /\ Authorization(x, f, roe) = "WEAPONS_HOLD"
    BY DEF Decision, Feasibility
  <1>2. f.readiness # "WEAPONS_HOLD"
    BY <1>1, FeasibleMeans DEF Available
  <1> QED
    BY <1>1, <1>2 DEF Authorization

\* best_effector() pairs a track with a feasible effector, and with only one: ties
\* are settled by the order of the fleet.
THEOREM BestEffectorIsUnique ==
  ASSUME NEW x \in Request, NEW fleet \in Seq(Effector),
         NEW i \in BestEffector(x, fleet), NEW j \in BestEffector(x, fleet)
  PROVE  i = j /\ Feasibility(x, fleet[i]) = "OK"
  <1>1. i \in 1..Len(fleet) /\ j \in 1..Len(fleet)
    BY DEF BestEffector
  <1>2. Score(fleet[i]) \in Int /\ Score(fleet[j]) \in Int
    <2>1. fleet[i] \in Effector /\ fleet[j] \in Effector
      BY <1>1
    <2>2. \A f \in Effector : f.remaining \in Int /\ Score(f) \in Int
      BY DEF Score, Effector
    <2> QED
      BY <2>1, <2>2
  <1>3. \/ Score(fleet[j]) < Score(fleet[i])
        \/ Score(fleet[j]) = Score(fleet[i]) /\ i <= j
    BY DEF BestEffector
  <1>4. \/ Score(fleet[i]) < Score(fleet[j])
        \/ Score(fleet[i]) = Score(fleet[j]) /\ j <= i
    BY DEF BestEffector
  <1> HIDE DEF BestEffector
  <1>5. i = j
    BY <1>1, <1>2, <1>3, <1>4
  <1> QED
    BY <1>5 DEF BestEffector
=============================================================================
