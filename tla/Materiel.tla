------------------------------- MODULE Materiel -------------------------------
(***************************************************************************)
(* The materiel the C2 node knows: the last status of every sensor and     *)
(* effector, its expiry, and the magazine count that statuses, engagement  *)
(* reports and the handlers of engagement requests all write.  A handler   *)
(* keeps the status object it looked up before it waited for the           *)
(* effector's lock (main.py, request_engagement); a status that arrives    *)
(* meanwhile installs another object, and the handler's copy is detached.  *)
(***************************************************************************)
EXTENDS ReleaseGates, FiniteSets

CONSTANTS
  None,
  Sensors,
  Effectors,
  Engagements,    \* one per request handler
  Capacity,       \* magazine.capacity of every effector
  Lossy,          \* whether the connections may lose messages
  MaxReportTime,  \* bound: scenario clock as statuses are dated
  MaxUplink,      \* bound: messages on the effector's connection
  MaxPosts,       \* bound: registrations under way
  MaxDelivered    \* bound: statuses of which a copy may be delivered again

Components == Sensors \cup Effectors

ASSUME MaterielAssumption ==
  /\ None \notin Components \cup Engagements
  /\ Sensors \cap Effectors = {}
  /\ Capacity \in Nat /\ Lossy \in BOOLEAN

VARIABLES
  registry,      \* State.sensors and State.effectors
  flagged,       \* State.materiel_stale
  lapsed,        \* components whose registered status outlived its TTL
  lapseRecords,  \* MATERIEL_STATUS_EXPIRED records of the registered status
  backdated,     \* history: registered with a body outdated on arrival, nothing
                 \* up to date received since
  sinkWorks,     \* whether the audit file can be written
  reserved,      \* State.effector_reservations
  ledger,        \* lifecycle of an engagement, as far as it bears on stock
  calls,         \* request_engagement, suspended at the lock or in publish
  orders,        \* orders in flight
  uplink,        \* messages from the materiel to the node, in order
  posts,         \* POST /sensors and /effectors sent, and not known to be answered
  delivered,     \* statuses the node was given of which another copy may come
  effector,      \* EffectorModel
  reportTime     \* scenario clock, for timeReported

registryVars == <<registry, flagged, lapsed, lapseRecords, backdated>>
commandVars == <<reserved, ledger, calls, orders>>
linkVars == <<uplink, posts, delivered>>
materielVars == <<registryVars, sinkWorks, commandVars, linkVars, effector, reportTime>>

Readiness == {"READY", "DEGRADED", "OFFLINE", "WEAPONS_HOLD"}

MaterielStatus == [reported : Nat, readiness : Readiness, remaining : 0..Capacity]

ASSUME NoneIsNoStatus == None \notin MaterielStatus

\* What a handler knows of its effector: the registered object itself, or the
\* object that was registered once.
Attached == None
Copy == [readiness : Readiness, remaining : 0..Capacity]

Calls == [pc : {"idle", "waiting", "publishing", "unsent", "done"},
          effector : Effectors \cup {None}, captured : Copy \cup {Attached}]

NoCall == [pc |-> "idle", effector |-> None, captured |-> Attached]

LedgerStates == {"none", "authorized", "consumed", "accepted", "over"}

StatusReport == [component : Components, status : MaterielStatus]

\* REFUSED is FAILED or DENIED, which have the same consequences here.
Message ==
  [kind : {"status"}, component : Components, status : MaterielStatus]
    \cup [kind : {"engagement"}, engagement : Engagements, effector : Effectors,
          state : {"ACCEPTED", "COMPLETE", "ABORTED", "REFUSED"},
          remaining : 0..Capacity]

MaterielTypeOK ==
  /\ registry \in [Components -> MaterielStatus \cup {None}]
  /\ flagged \subseteq Components /\ lapsed \subseteq Components
  /\ lapseRecords \in [Components -> Nat]
  /\ backdated \subseteq Components
  /\ sinkWorks \in BOOLEAN
  /\ reserved \in [Effectors -> Engagements \cup {None}]
  /\ ledger \in [Engagements -> LedgerStates]
  /\ calls \in [Engagements -> Calls]
  /\ orders \subseteq [engagement : Engagements, effector : Effectors]
  /\ uplink \in Seq(Message)
  /\ posts \subseteq StatusReport /\ delivered \subseteq StatusReport
  /\ effector \in [Effectors -> [remaining : 0..Capacity, readiness : Readiness,
                                 active : Engagements \cup {None}]]
  /\ reportTime \in Nat

MaterielInit ==
  /\ registry = [c \in Components |-> None]
  /\ flagged = {} /\ lapsed = {} /\ backdated = {}
  /\ lapseRecords = [c \in Components |-> 0]
  /\ sinkWorks = TRUE
  /\ reserved = [f \in Effectors |-> None]
  /\ ledger = [e \in Engagements |-> "none"]
  /\ calls = [e \in Engagements |-> NoCall]
  /\ orders = {}
  /\ uplink = <<>> /\ posts = {} /\ delivered = {}
  /\ effector = [f \in Effectors |->
                   [remaining |-> Capacity, readiness |-> "READY", active |-> None]]
  /\ reportTime = 0

----------------------------------------------------------------------------
(* The registry                                                            *)

\* Handlers that hold the registered object of f keep its content as a copy.
Detached(f) ==
  [e \in Engagements |->
     IF calls[e].effector = f /\ calls[e].captured = Attached /\ registry[f] # None
     THEN [calls[e] EXCEPT !.captured = [readiness |-> registry[f].readiness,
                                         remaining |-> registry[f].remaining]]
     ELSE calls[e]]

\* A new object replaces the registered one and is not stale.
Install(c, status) ==
  /\ registry' = [registry EXCEPT ![c] = status]
  /\ flagged' = flagged \ {c}
  /\ lapsed' = lapsed \ {c}
  /\ lapseRecords' = [lapseRecords EXCEPT ![c] = 0]
  /\ calls' = Detached(c)

\* Faulty variant: a copy of the registered status counts as later.
NotEarlier(c, status) ==
  registry[c] = None \/ status.reported >= registry[c].reported

Later(c, status) == registry[c] = None \/ status.reported > registry[c].reported

\* EffectorStatus refuses the readiness it lists; SensorStatus does not.
Valid(c, status) == c \in Effectors => status.readiness # "WEAPONS_HOLD"

\* A body the component has fired since, or the node was told something later than.
Outdated(c, status) ==
  \/ c \in Effectors /\ status.remaining > effector[c].remaining
  \/ \E d \in delivered : d.component = c /\ d.status.reported > status.reported

\* _on_sensor_status() and _on_effector_status(): a message that does not
\* validate is dropped, and only a later report counts.
ReceiveMaterielStatus(c, status) ==
  IF Valid(c, status) /\ Later(c, status)
  THEN /\ Install(c, status)
       /\ backdated' = IF Outdated(c, status) THEN backdated ELSE backdated \ {c}
  ELSE UNCHANGED <<registryVars, calls>>

\* POST /sensors and /effectors: an effector must not be reserved; the posted
\* body is installed whatever its date, and its evidence written afterwards.  An
\* answer that is lost may be followed by a retry with the same body.
Register(q) ==
  LET c == q.component IN
  /\ q \in posts /\ posts' \in {posts, posts \ {q}}
  /\ sinkWorks
  /\ c \in Effectors => reserved[c] = None
  /\ Install(c, q.status)
  /\ backdated' = IF Outdated(c, q.status) THEN backdated \cup {c} ELSE backdated \ {c}
  /\ UNCHANGED <<sinkWorks, reserved, ledger, orders, uplink, delivered, effector,
                 reportTime>>

\* MATERIEL_STATUS_TTL_SECONDS pass without a newer report.
Lapse(c) ==
  /\ registry[c] # None
  /\ lapsed' = lapsed \cup {c}
  /\ UNCHANGED <<registry, flagged, lapseRecords, backdated, sinkWorks, commandVars,
                 linkVars, effector, reportTime>>

Unrecorded == lapsed \ flagged

\* Sensors are visited before effectors.
VisitedFirst(c) == c \in Unrecorded /\ (c \in Sensors \/ Unrecorded \cap Sensors = {})

Offline(cs) == [c \in Components |->
                  IF c \in cs THEN [registry[c] EXCEPT !.readiness = "OFFLINE"]
                              ELSE registry[c]]

\* A pass that meets no failure takes every lapsed component OFFLINE and, the
\* first time, records and flags it.
ExpireAll ==
  /\ registry' = Offline(lapsed)
  /\ flagged' = flagged \cup lapsed
  /\ lapseRecords' = [c \in Components |-> IF c \in Unrecorded THEN lapseRecords[c] + 1
                                                              ELSE lapseRecords[c]]

\* Faulty variant: the flag is raised before the record is written.
ExpireMaterielFlagging ==
  \/ sinkWorks /\ ExpireAll
  \/ /\ ~sinkWorks
     /\ \E c \in Unrecorded : /\ VisitedFirst(c)
                              /\ registry' = Offline(flagged \cup {c})
                              /\ flagged' = flagged \cup {c}
     /\ UNCHANGED lapseRecords

\* expire_materiel(): a record that cannot be written raises, and the components
\* after it are not reached in this pass.
ExpireMateriel ==
  \/ (sinkWorks \/ Unrecorded = {}) /\ ExpireAll
  \/ /\ ~sinkWorks
     /\ \E c \in Unrecorded : VisitedFirst(c) /\ registry' = Offline(flagged \cup {c})
     /\ UNCHANGED <<flagged, lapseRecords>>

\* The supervisor and the listing endpoints.
Supervise ==
  /\ lapsed # {}
  /\ ExpireMateriel
  /\ UNCHANGED <<lapsed, backdated, sinkWorks, commandVars, linkVars, effector,
                 reportTime>>

SinkChanges ==
  /\ sinkWorks' = ~sinkWorks
  /\ UNCHANGED <<registryVars, commandVars, linkVars, effector, reportTime>>
----------------------------------------------------------------------------
(* request_engagement() and the reports that answer it                     *)

Taken(f) == \E e \in Engagements :
              calls[e].effector = f /\ calls[e].pc \in {"publishing", "unsent"}

\* The object the handler looked up, as it is now.
Known(e) == IF calls[e].captured = Attached THEN registry[calls[e].effector]
                                            ELSE calls[e].captured

\* The magazine loses one unit, or what is left of it: min(1.0, remaining).
Decremented(status) ==
  IF status.remaining = 0 THEN status ELSE [status EXCEPT !.remaining = @ - 1]

\* The handler returns and its reference to the status object is gone.
Close(e) == calls' = [calls EXCEPT ![e] = [NoCall EXCEPT !.pc = "done"]]

\* The audit probe succeeds, and the materiel is expired, before the effector is
\* looked up.
Submit(e, f) ==
  /\ calls[e].pc = "idle" /\ sinkWorks /\ registry[f] # None
  /\ ExpireAll
  /\ calls' = [calls EXCEPT ![e] = [pc |-> "waiting", effector |-> f,
                                    captured |-> Attached]]
  /\ UNCHANGED <<lapsed, backdated, sinkWorks, reserved, ledger, orders, linkVars,
                 effector, reportTime>>

\* A reservation, a closed gate or a failed record ends the request.
Deny(e) ==
  /\ calls[e].pc = "waiting" /\ ~Taken(calls[e].effector)
  /\ Close(e)
  /\ ledger' = [ledger EXCEPT ![e] = "over"]
  /\ UNCHANGED <<registryVars, sinkWorks, reserved, orders, linkVars, effector, reportTime>>

\* The feasibility gate reads the captured object; authorization, reservation
\* and the hand-over to the bus follow without an await.
Release(e) ==
  LET f == calls[e].effector IN
  /\ calls[e].pc = "waiting" /\ ~Taken(f)
  /\ reserved[f] = None
  /\ Available(Known(e).readiness) /\ Known(e).remaining > 0
  /\ sinkWorks
  /\ ledger' = [ledger EXCEPT ![e] = "authorized"]
  /\ reserved' = [reserved EXCEPT ![f] = e]
  /\ \/ /\ calls' = [calls EXCEPT ![e].pc = "publishing"]
        /\ orders' = orders \cup {[engagement |-> e, effector |-> f]}
     \/ /\ calls' = [calls EXCEPT ![e].pc = "unsent"]
        /\ UNCHANGED orders
  /\ UNCHANGED <<registryVars, sinkWorks, linkVars, effector, reportTime>>

Decrement(e) ==
  /\ registry' = IF calls[e].captured = Attached
                 THEN [registry EXCEPT ![calls[e].effector] = Decremented(@)]
                 ELSE registry
  /\ UNCHANGED <<flagged, lapsed, lapseRecords, backdated>>

\* publish_outcome() returns.  If the effector was heard meanwhile, the count is
\* only taken down when it did not say what is left; an order that was never
\* sent fails; an unknown delivery leaves the count alone.
Finish(e) ==
  LET f == calls[e].effector IN
  /\ calls[e].pc \in {"publishing", "unsent"}
  /\ Close(e)
  /\ \/ /\ ledger[e] = "authorized" /\ calls[e].pc = "unsent"
        /\ ledger' = [ledger EXCEPT ![e] = "over"]
        /\ reserved' = [reserved EXCEPT ![f] = None]
        /\ UNCHANGED registryVars
     \/ /\ ledger[e] \in {"authorized", "consumed"} /\ calls[e].pc = "publishing"
        /\ Decrement(e)
        /\ UNCHANGED <<ledger, reserved>>
     \/ /\ ledger[e] # "consumed" /\ calls[e].pc = "publishing"
        /\ UNCHANGED <<registryVars, ledger, reserved>>
  /\ UNCHANGED <<sinkWorks, orders, linkVars, effector, reportTime>>

\* consume_authority_token(): the effector takes the order over REST, without
\* saying what it has left.
ConsumeToken(e) ==
  /\ ledger[e] = "authorized" /\ sinkWorks /\ calls[e].pc # "unsent"
  /\ ledger' = [ledger EXCEPT ![e] = "consumed"]
  /\ UNCHANGED <<registryVars, sinkWorks, reserved, calls, orders, linkVars, effector,
                 reportTime>>

\* The states transition() accepts; ACTIVE and ASSESSING, which repeat the count
\* of ACCEPTED, are left out, and a COMPLETE they were lost before is invalid.
Acceptable(e, state) ==
  CASE ledger[e] = "authorized" -> state \in {"ACCEPTED", "ABORTED", "REFUSED"}
    [] ledger[e] \in {"consumed", "accepted"} -> state \in {"COMPLETE", "ABORTED"}
    [] OTHER -> FALSE

ApplyReport(m) ==
  /\ ledger' = [ledger EXCEPT ![m.engagement] =
                  IF m.state = "ACCEPTED" THEN "accepted" ELSE "over"]
  /\ reserved' = [reserved EXCEPT ![m.effector] =
                    IF m.state # "ACCEPTED" /\ @ = m.engagement THEN None ELSE @]
  /\ registry' = IF registry[m.effector] = None THEN registry
                 ELSE [registry EXCEPT ![m.effector].remaining = m.remaining]

\* A copy of the status may be delivered again: the memory of message IDs is
\* bounded, and bare payloads carry none.
MayComeAgain(m) ==
  \/ UNCHANGED delivered
  \/ /\ Valid(m.component, m.status) /\ Cardinality(delivered) < MaxDelivered
     /\ delivered' = delivered \cup {[component |-> m.component, status |-> m.status]}

\* The next message of the materiel's connection reaches its handler.
Receive ==
  /\ uplink # <<>>
  /\ uplink' = Tail(uplink)
  /\ LET m == Head(uplink) IN
     \/ /\ m.kind = "status"
        /\ ReceiveMaterielStatus(m.component, m.status)
        /\ MayComeAgain(m)
        /\ UNCHANGED <<reserved, ledger>>
     \/ /\ m.kind = "engagement" /\ Acceptable(m.engagement, m.state)
        /\ ApplyReport(m)
        /\ UNCHANGED <<flagged, lapsed, lapseRecords, backdated, calls, delivered>>
     \/ /\ m.kind = "engagement"
        /\ m.state = "COMPLETE" \/ ~Acceptable(m.engagement, m.state)
        /\ UNCHANGED <<registryVars, reserved, ledger, calls, delivered>>
  /\ UNCHANGED <<sinkWorks, orders, posts, effector, reportTime>>

\* A status that was delivered is delivered again.
Redeliver(d) ==
  /\ d \in delivered
  /\ ReceiveMaterielStatus(d.component, d.status)
  /\ UNCHANGED <<sinkWorks, reserved, ledger, orders, linkVars, effector, reportTime>>

----------------------------------------------------------------------------
(* The materiel                                                            *)

StatusOf(c) ==
  [reported |-> reportTime,
   readiness |-> IF c \in Effectors THEN effector[c].readiness ELSE "READY",
   remaining |-> IF c \in Effectors THEN effector[c].remaining ELSE 0]

StatusMessage(f, at, x) ==
  [kind |-> "status", component |-> f,
   status |-> [reported |-> at, readiness |-> x.readiness, remaining |-> x.remaining]]

\* A client registers the component as it is now.
Post(c) ==
  /\ Cardinality(posts) < MaxPosts
  /\ posts' = posts \cup {[component |-> c, status |-> StatusOf(c)]}
  /\ UNCHANGED <<registryVars, sinkWorks, commandVars, uplink, delivered, effector,
                 reportTime>>

\* _publish_material_status(), by the bound while there is room for a report, and
\* for a sensor, which no other message concerns, while nothing is on its way.
ReportStatus(c) ==
  /\ Len(uplink) + 2 < MaxUplink
  /\ c \in Sensors => uplink = <<>>
  /\ uplink' = Append(uplink, [kind |-> "status", component |-> c,
                               status |-> StatusOf(c)])
  /\ UNCHANGED <<registryVars, sinkWorks, commandVars, posts, delivered, effector,
                 reportTime>>

\* An effector that is held by its own operator may say so
\* (effector.schema.json, readiness); the simulated one never is.  By the bound
\* it does so when idle and nothing else is on its way.
ReportHold(f) ==
  /\ uplink = <<>> /\ effector[f].active = None
  /\ uplink' = Append(uplink, StatusMessage(f, reportTime,
                               [effector[f] EXCEPT !.readiness = "WEAPONS_HOLD"]))
  /\ UNCHANGED <<registryVars, sinkWorks, commandVars, posts, delivered, effector,
                 reportTime>>

\* emit(): the engagement's state with the count, then the effector's status.
Emit(e, f, state, x) ==
  /\ Len(uplink) + 2 <= MaxUplink
  /\ effector' = [effector EXCEPT ![f] = x]
  /\ UNCHANGED <<posts, delivered>>
  /\ uplink' = uplink \o
       <<[kind |-> "engagement", engagement |-> e, effector |-> f, state |-> state,
          remaining |-> x.remaining],
         StatusMessage(f, reportTime, x)>>

\* execute(): a free effector with ammunition may take the order; one that is
\* busy, or whose checks fail, refuses it, and an empty one goes OFFLINE first.
TakeOrder(o) ==
  LET f == o.effector
      x == effector[f]
  IN
  /\ o \in orders
  /\ orders' = orders \ {o}
  /\ \/ /\ x.active = None /\ x.remaining > 0
        /\ Emit(o.engagement, f, "ACCEPTED",
                [remaining |-> x.remaining - 1, readiness |-> "DEGRADED",
                 active |-> o.engagement])
     \/ Emit(o.engagement, f, "REFUSED", x)
     \/ /\ x.active = None /\ x.remaining = 0
        /\ Emit(o.engagement, f, "REFUSED", [x EXCEPT !.readiness = "OFFLINE"])
  /\ UNCHANGED <<registryVars, sinkWorks, reserved, ledger, calls, reportTime>>

End(f) ==
  LET x == effector[f] IN
  /\ x.active # None
  /\ \E state \in {"COMPLETE", "ABORTED"} :
       Emit(x.active, f, state,
            [x EXCEPT !.active = None,
                      !.readiness = IF x.remaining > 0 THEN "READY" ELSE "OFFLINE"])
  /\ UNCHANGED <<registryVars, sinkWorks, commandVars, reportTime>>

\* The scenario clock ticks.
TickReports ==
  /\ reportTime < MaxReportTime
  /\ reportTime' = reportTime + 1
  /\ UNCHANGED <<registryVars, sinkWorks, commandVars, linkVars, effector>>

LoseMessage ==
  /\ Lossy
  /\ \/ /\ uplink # <<>> /\ uplink' = Tail(uplink) /\ UNCHANGED orders
     \/ /\ \E o \in orders : orders' = orders \ {o}
        /\ UNCHANGED uplink
  /\ UNCHANGED <<registryVars, sinkWorks, reserved, ledger, calls, posts, delivered,
                 effector, reportTime>>

MaterielNext ==
  \/ \E c \in Components : Post(c) \/ Lapse(c) \/ ReportStatus(c)
  \/ \E q \in posts : Register(q)
  \/ \E d \in delivered : Redeliver(d)
  \/ Supervise \/ SinkChanges \/ Receive \/ TickReports \/ LoseMessage
  \/ \E e \in Engagements : \/ \E f \in Effectors : Submit(e, f)
                            \/ Deny(e) \/ Release(e) \/ Finish(e) \/ ConsumeToken(e)
  \/ \E o \in orders : TakeOrder(o)
  \/ \E f \in Effectors : End(f) \/ ReportHold(f)

MaterielSpec == MaterielInit /\ [][MaterielNext]_materielVars

----------------------------------------------------------------------------
\* An effector nobody has reserved is not thought to hold more than it does,
\* although the count is written by statuses that may come twice, by engagement
\* reports, by handlers that may hold an object no longer registered, and by
\* registrations, of which only one outdated when it is handled may overstate,
\* until something up to date is received.
NeverOverstatesStock ==
  \A f \in Effectors \ backdated :
    (reserved[f] = None /\ registry[f] # None)
      => registry[f].remaining <= effector[f].remaining

\* A component is flagged as lapsed exactly while its registered status has its
\* one MATERIEL_STATUS_EXPIRED record, and is then OFFLINE, however many passes
\* met an audit file that could not be written.
LapseIsEvidenced ==
  \A c \in Components :
    /\ lapseRecords[c] = IF c \in flagged THEN 1 ELSE 0
    /\ c \in flagged => c \in lapsed /\ registry[c].readiness = "OFFLINE"

\* A hold that reaches the node, later than what it knows of the effector, closes
\* the feasibility gate; on connections that lose nothing, where a message leaves
\* the uplink only by being received.
HoldIsHeeded ==
  [][\A f \in Effectors :
       (/\ ~Lossy /\ uplink # <<>> /\ uplink' = Tail(uplink)
        /\ Head(uplink).kind = "status" /\ Head(uplink).component = f
        /\ Head(uplink).status.readiness = "WEAPONS_HOLD"
        /\ Later(f, Head(uplink).status))
       => registry'[f] = None \/ ~Available(registry'[f].readiness)]_materielVars
----------------------------------------------------------------------------
(* Why they hold: the inductive invariant                                  *)

\* A handler past the look-up knows an effector that is registered, and what
\* lapsed was registered.
RegistryKnown ==
  /\ lapsed \subseteq {c \in Components : registry[c] # None}
  /\ \A e \in Engagements : calls[e].pc \in {"waiting", "publishing", "unsent"} =>
       calls[e].effector \in Effectors /\ registry[calls[e].effector] # None

\* The order of a sent request may have reached its effector.
Sent(e) == calls[e].pc \in {"publishing", "done"}

\* Nobody commands f: it is free, or reserved by a request that was not sent.
Quiet(f) == reserved[f] = None \/ calls[reserved[f]].pc = "unsent"

Tells(m, f) == IF m.kind = "status" THEN m.component = f ELSE m.effector = f
Count(m) == IF m.kind = "status" THEN m.status.remaining ELSE m.remaining
Answers(m, e, f) == m.kind = "engagement" /\ m.engagement = e /\ m.effector = f
LastWord(m) == m.kind = "engagement" /\ m.state # "ACCEPTED"

\* From message i on, nothing tells of more rounds in f than it holds.
HonestFrom(i, f) == \A j \in i..Len(uplink) :
  Tells(uplink[j], f) => Count(uplink[j]) <= effector[f].remaining

CommandsReserved ==
  /\ \A f \in Effectors : effector[f].active # None =>
       reserved[f] = effector[f].active /\ Sent(effector[f].active)
  /\ \A f \in Effectors : reserved[f] # None =>
       calls[reserved[f]].pc \in {"publishing", "unsent", "done"}
  /\ \A e \in Engagements : calls[e].pc = "unsent" => reserved[calls[e].effector] = e

OrdersReserved ==
  \A o \in orders :
    /\ reserved[o.effector] = o.engagement /\ Sent(o.engagement)
    /\ effector[o.effector].active = None
    /\ \A i \in 1..Len(uplink) : ~Answers(uplink[i], o.engagement, o.effector)

\* An effector's last word of an engagement comes while it is still reserved, is
\* the only one, and is not followed by older news of its magazine.
LastWordsHonest ==
  \A i \in 1..Len(uplink) :
    /\ uplink[i].kind = "engagement" => Sent(uplink[i].engagement)
    /\ LastWord(uplink[i]) =>
         /\ reserved[uplink[i].effector] = uplink[i].engagement
         /\ effector[uplink[i].effector].active = None
         /\ HonestFrom(i, uplink[i].effector)
         /\ \A j \in (i + 1)..Len(uplink) :
              ~Answers(uplink[j], uplink[i].engagement, uplink[i].effector)

QuietIsHonest ==
  \A f \in Effectors : Quiet(f) =>
    /\ (f \notin backdated /\ registry[f] # None) =>
         registry[f].remaining <= effector[f].remaining
    /\ HonestFrom(1, f)

\* A copy of a status that was delivered is not taken for news.
CopiesAreOld ==
  \A d \in delivered :
    /\ registry[d.component] # None
    /\ d.component \notin backdated =>
         d.status.reported <= registry[d.component].reported

MaterielInv ==
  /\ MaterielTypeOK /\ RegistryKnown /\ LapseIsEvidenced
  /\ CommandsReserved /\ OrdersReserved /\ LastWordsHonest /\ QuietIsHonest
  /\ CopiesAreOld
=============================================================================
