------------------------------ MODULE CopStore ------------------------------
(***************************************************************************)
(* The common operating picture of the C2 node (app/cop.py): the newest    *)
(* live report of every track, and nothing else.  Reports may be offered   *)
(* late, twice or out of order; the node remembers a bounded number of     *)
(* message IDs, so the picture cannot rely on them to tell repetitions.    *)
(***************************************************************************)
EXTENDS Naturals

CONSTANTS
  Absent,
  Tracks,
  TimeToLive,     \* timeToLiveSeconds, the same in every report of a track
  MaxFutureSkew   \* STATUS_MAX_FUTURE_SKEW_SECONDS

ASSUME TimeAssumption == TimeToLive \in Nat \ {0} /\ MaxFutureSkew \in Nat

VARIABLES
  now,       \* the node's clock
  picture,   \* CommonOperatingPicture._tracks
  shown      \* the last report the picture held of a track, kept after eviction

copVars == <<now, picture, shown>>

Report == [track : Tracks, observed : Nat, updated : Nat,
           sequence : Nat \cup {Absent}]

ASSUME AbsentIsNoReport == Absent \notin Report /\ Absent \notin Nat

CopTypeOK ==
  /\ now \in Nat
  /\ picture \in [Tracks -> Report \cup {Absent}]
  /\ shown \in [Tracks -> Report \cup {Absent}]

CopInit ==
  /\ now = 0
  /\ picture = [t \in Tracks |-> Absent]
  /\ shown = [t \in Tracks |-> Absent]

Stale(r) == now > r.observed + TimeToLive

Evicted == [t \in Tracks |->
              IF picture[t] # Absent /\ Stale(picture[t]) THEN Absent ELSE picture[t]]

\* Faulty variant: reports of one observation are not told apart.
NewerByObservation(r, p) == r.observed >= p.observed

\* Processing time must advance; a report of the same observation may only
\* repeat its time, a report of another one must be later in both.
Newer(r, p) ==
  /\ r.observed >= p.observed
  /\ r.updated > p.updated
  /\ p.sequence # Absent => r.sequence # Absent
  /\ (r.sequence # Absent /\ p.sequence # Absent) =>
       \/ r.sequence = p.sequence /\ r.observed = p.observed
       \/ r.sequence > p.sequence /\ r.observed > p.observed

\* Faulty variant: what was held is taken off the picture before the comparison.
UpsertedTakingOff(r) ==
  IF r.observed > now + MaxFutureSkew \/ Stale(r) THEN picture
  ELSE [Evicted EXCEPT ![r.track] = IF @ = Absent \/ Newer(r, @) THEN r ELSE Absent]

\* The bus handler and upsert(): a report too far in the future is dropped, a
\* stale one refused; otherwise the picture is swept and the report entered if
\* it is the first of its track or newer than what is held.
Upserted(r) ==
  IF r.observed > now + MaxFutureSkew \/ Stale(r) THEN picture
  ELSE IF Evicted[r.track] = Absent \/ Newer(r, Evicted[r.track])
       THEN [Evicted EXCEPT ![r.track] = r]
       ELSE Evicted

\* The last report of a track survives its eviction in shown.
Remember == shown' = [t \in Tracks |->
                        IF picture'[t] = Absent THEN shown[t] ELSE picture'[t]]

ReceiveTrack(r) == picture' = Upserted(r) /\ Remember /\ UNCHANGED now

\* get(), list() and evict_expired() sweep before they read.
Sweep == picture' = Evicted /\ Remember /\ UNCHANGED now

PassTime == now' = now + 1 /\ UNCHANGED <<picture, shown>>

CopNext == Sweep \/ PassTime \/ \E r \in Report : ReceiveTrack(r)

CopSpec == CopInit /\ [][CopNext]_copVars

----------------------------------------------------------------------------
\* What is put on the picture is never older than what it showed before, in
\* observation or, for the same observation, in processing; eviction does not
\* reopen the door to a report that was overtaken before it.
Advances(r, s) == \/ r.observed > s.observed
                  \/ r.observed = s.observed /\ r.updated > s.updated

PictureAdvances ==
  [][\A t \in Tracks :
       (picture'[t] # picture[t] /\ picture'[t] # Absent /\ shown[t] # Absent)
         => Advances(picture'[t], shown[t])]_copVars

\* A report that is no longer held was dropped because it expired, and a report
\* that is held is the last one shown.
ShownIsHeldOrExpired ==
  \A t \in Tracks :
    /\ shown[t] # Absent => picture[t] = shown[t] \/ (picture[t] = Absent /\ Stale(shown[t]))
    /\ picture[t] # Absent => shown[t] = picture[t]

CopInv == CopTypeOK /\ ShownIsHeldOrExpired
=============================================================================
