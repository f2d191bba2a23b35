---------------------------- MODULE MaterielProofs ----------------------------
(***************************************************************************)
(* The materiel and its magazine counts, for any sensors, effectors and    *)
(* requests, any capacity, and connections that may or may not lose        *)
(* messages.  The invariant is MaterielInv: typing and what the handlers   *)
(* know first, then the evidence of expiry, then the commands and the      *)
(* counts on their way.                                                    *)
(***************************************************************************)
EXTENDS Materiel, TLAPS

RegistryTyped ==
  /\ registry \in [Components -> MaterielStatus \cup {None}]
  /\ flagged \subseteq Components /\ lapsed \subseteq Components
  /\ lapseRecords \in [Components -> Nat]
  /\ backdated \subseteq Components
  /\ calls \in [Engagements -> Calls]

RegistryInv == RegistryTyped /\ RegistryKnown /\ LapseIsEvidenced

Typed == MaterielTypeOK /\ RegistryKnown /\ LapseIsEvidenced

StockInv == CommandsReserved /\ OrdersReserved /\ LastWordsHonest /\ QuietIsHonest

----------------------------------------------------------------------------
(* Typing                                                                   *)

LEMMA ConstantFacts ==
  /\ None \notin Components /\ None \notin Engagements /\ None \notin MaterielStatus
  /\ Capacity \in Nat
  /\ Sensors \subseteq Components /\ Effectors \subseteq Components
  /\ \A c \in Sensors : c \notin Effectors
  BY MaterielAssumption, NoneIsNoStatus DEF Components

LEMMA TypedInit == MaterielInit => Typed
  <1> SUFFICES ASSUME MaterielInit PROVE Typed
    OBVIOUS
  <1>1. MaterielTypeOK
    BY ConstantFacts DEF MaterielInit, MaterielTypeOK, NoCall, Calls, Attached,
       LedgerStates, Readiness
  <1>2. RegistryKnown
    BY DEF MaterielInit, RegistryKnown, NoCall
  <1>3. LapseIsEvidenced
    BY DEF MaterielInit, LapseIsEvidenced
  <1> QED
    BY <1>1, <1>2, <1>3 DEF Typed

\* A status object replaced under a handler stays with it as a copy.
LEMMA DetachedType ==
  ASSUME Typed, NEW c \in Components
  PROVE  /\ Detached(c) \in [Engagements -> Calls]
         /\ \A e \in Engagements : /\ Detached(c)[e].pc = calls[e].pc
                                   /\ Detached(c)[e].effector = calls[e].effector
  <1>1. registry[c] # None => [readiness |-> registry[c].readiness,
                               remaining |-> registry[c].remaining] \in Copy
    BY DEF Typed, MaterielTypeOK, MaterielStatus, Copy
  <1>2. ASSUME NEW e \in Engagements
        PROVE  /\ Detached(c)[e] \in Calls
               /\ Detached(c)[e].pc = calls[e].pc
               /\ Detached(c)[e].effector = calls[e].effector
    <2>1. calls[e] \in Calls
      BY DEF Typed, MaterielTypeOK
    <2> QED
      BY <1>1, <2>1 DEF Detached, Calls
  <1> QED
    BY <1>2 DEF Detached

LEMMA InstallStep ==
  ASSUME Typed, NEW c \in Components, NEW status \in MaterielStatus, Install(c, status),
         backdated' \subseteq Components
  PROVE  RegistryInv'
  <1>1. /\ registry' = [registry EXCEPT ![c] = status]
        /\ calls' = Detached(c)
        /\ flagged' = flagged \ {c} /\ lapsed' = lapsed \ {c}
        /\ lapseRecords' = [lapseRecords EXCEPT ![c] = 0]
    BY DEF Install
  <1>2. RegistryTyped'
    BY <1>1, DetachedType DEF Typed, MaterielTypeOK, RegistryTyped
  <1>3. \A d \in Components : registry[d] # None => registry'[d] # None
    BY <1>1, ConstantFacts DEF Typed, MaterielTypeOK
  <1>4. ASSUME NEW e \in Engagements, calls'[e].pc \in {"waiting", "publishing", "unsent"}
        PROVE  calls'[e].effector \in Effectors /\ registry'[calls'[e].effector] # None
    BY <1>1, <1>3, <1>4, DetachedType, ConstantFacts DEF Typed, RegistryKnown
  <1>5. lapsed' \subseteq {d \in Components : registry'[d] # None}
    BY <1>1, <1>3 DEF Typed, RegistryKnown
  <1>6. LapseIsEvidenced'
    BY <1>1 DEF Typed, MaterielTypeOK, LapseIsEvidenced
  <1> QED
    BY <1>2, <1>4, <1>5, <1>6 DEF RegistryKnown, RegistryInv

\* Taking components OFFLINE keeps every status a status.
LEMMA OfflineType ==
  ASSUME Typed, NEW cs, cs \subseteq {c \in Components : registry[c] # None}
  PROVE  /\ Offline(cs) \in [Components -> MaterielStatus \cup {None}]
         /\ \A c \in Components : /\ (Offline(cs)[c] = None) <=> (registry[c] = None)
                                  /\ c \in cs => Offline(cs)[c].readiness = "OFFLINE"
                                  /\ registry[c] # None => Offline(cs)[c].remaining = registry[c].remaining
  <1>1. ASSUME NEW c \in cs
        PROVE  /\ Offline(cs)[c] \in MaterielStatus
               /\ Offline(cs)[c].readiness = "OFFLINE"
               /\ Offline(cs)[c].remaining = registry[c].remaining
    <2>1. registry[c] \in MaterielStatus
      BY DEF Typed, MaterielTypeOK
    <2> QED
      BY <2>1 DEF Offline, MaterielStatus, Readiness
  <1>2. ASSUME NEW c \in Components, c \notin cs PROVE Offline(cs)[c] = registry[c]
    BY <1>2 DEF Offline
  <1>3. Offline(cs) \in [Components -> MaterielStatus \cup {None}]
    BY <1>1, <1>2 DEF Offline, Typed, MaterielTypeOK
  <1> QED
    BY <1>1, <1>2, <1>3, ConstantFacts

LEMMA ExpiryStep ==
  ASSUME Typed, ExpireMateriel \/ ExpireAll, UNCHANGED <<lapsed, backdated, calls>>
  PROVE  /\ RegistryInv'
         /\ \A c \in Components : /\ (registry'[c] = None) <=> (registry[c] = None)
                                  /\ registry[c] # None => registry'[c].remaining = registry[c].remaining
  <1>1. flagged \subseteq lapsed /\ lapsed \subseteq {c \in Components : registry[c] # None}
    BY DEF Typed, RegistryKnown, LapseIsEvidenced, MaterielTypeOK
  <1>2. PICK cs : /\ cs \subseteq lapsed /\ flagged' \subseteq cs
                  /\ registry' = Offline(cs)
                  /\ lapseRecords' = [c \in Components |->
                       IF c \in flagged' \ flagged THEN lapseRecords[c] + 1 ELSE lapseRecords[c]]
                  /\ flagged \subseteq flagged'
    <2>1. CASE ExpireAll
      <3>1. \A c \in Components : c \in Unrecorded <=> c \in flagged' \ flagged
        BY <2>1 DEF ExpireAll, Unrecorded
      <3>2. lapseRecords' = [c \in Components |->
              IF c \in flagged' \ flagged THEN lapseRecords[c] + 1 ELSE lapseRecords[c]]
        BY <2>1, <3>1 DEF ExpireAll
      <3>3. flagged' = lapsed /\ registry' = Offline(lapsed)
        BY <1>1, <2>1 DEF ExpireAll
      <3> QED
        BY <1>1, <3>2, <3>3
    <2>2. CASE ~ExpireAll
      <3>1. PICK c \in Unrecorded : registry' = Offline(flagged \cup {c})
        BY <2>2 DEF ExpireMateriel
      <3>2. flagged' = flagged /\ lapseRecords' = lapseRecords
        BY <2>2 DEF ExpireMateriel
      <3>3. lapseRecords = [d \in Components |-> lapseRecords[d]]
        BY DEF Typed, MaterielTypeOK
      <3>4. flagged \cup {c} \subseteq lapsed
        BY <1>1, <3>1 DEF Unrecorded
      <3> QED
        BY <3>1, <3>2, <3>3, <3>4
    <2> QED
      BY <2>1, <2>2
  <1>3. cs \subseteq {c \in Components : registry[c] # None}
    BY <1>1, <1>2
  <1>4. /\ registry' \in [Components -> MaterielStatus \cup {None}]
        /\ \A c \in Components : /\ (registry'[c] = None) <=> (registry[c] = None)
                                 /\ c \in cs => registry'[c].readiness = "OFFLINE"
                                 /\ registry[c] # None => registry'[c].remaining = registry[c].remaining
    BY <1>2, <1>3, OfflineType
  <1>5. RegistryTyped'
    BY <1>1, <1>2, <1>4 DEF Typed, MaterielTypeOK, RegistryTyped
  <1>6. RegistryKnown'
    BY <1>4, ConstantFacts DEF Typed, RegistryKnown
  <1>7. LapseIsEvidenced'
    BY <1>1, <1>2, <1>4 DEF Typed, MaterielTypeOK, LapseIsEvidenced
  <1> QED
    BY <1>4, <1>5, <1>6, <1>7 DEF RegistryInv

\* What the rest of the node and the materiel keep: everything but the registry.
CommandsTyped ==
  /\ sinkWorks \in BOOLEAN
  /\ reserved \in [Effectors -> Engagements \cup {None}]
  /\ ledger \in [Engagements -> LedgerStates]
  /\ orders \subseteq [engagement : Engagements, effector : Effectors]
  /\ uplink \in Seq(Message)
  /\ posts \subseteq StatusReport /\ delivered \subseteq StatusReport
  /\ effector \in [Effectors -> [remaining : 0..Capacity, readiness : Readiness,
                                 active : Engagements \cup {None}]]
  /\ reportTime \in Nat

LEMMA StatusOfType ==
  ASSUME Typed, NEW c \in Components
  PROVE  /\ StatusOf(c) \in MaterielStatus
         /\ c \in Effectors => StatusOf(c).remaining = effector[c].remaining
  <1>1. CASE c \in Effectors
    BY <1>1, ConstantFacts DEF Typed, MaterielTypeOK, StatusOf, MaterielStatus
  <1>2. CASE c \notin Effectors
    BY <1>2, ConstantFacts DEF Typed, MaterielTypeOK, StatusOf, MaterielStatus, Readiness
  <1> QED
    BY <1>1, <1>2

\* The registry when a handler or a report writes the count and nothing else.
LEMMA CountStep ==
  ASSUME Typed, NEW f \in Effectors, NEW n \in 0..Capacity, registry[f] # None,
         registry' = [registry EXCEPT ![f].remaining = n] \/ UNCHANGED registry,
         calls' \in [Engagements -> Calls],
         \A e \in Engagements :
           calls'[e].pc \in {"waiting", "publishing", "unsent"} =>
             /\ calls[e].pc \in {"waiting", "publishing", "unsent"}
             /\ calls'[e].effector = calls[e].effector,
         UNCHANGED <<flagged, lapsed, lapseRecords, backdated>>
  PROVE  RegistryInv'
  <1>1. f \in Components /\ registry[f] \in MaterielStatus
    BY ConstantFacts DEF Typed, MaterielTypeOK
  <1>2. [registry[f] EXCEPT !.remaining = n] \in MaterielStatus
    BY <1>1 DEF MaterielStatus
  <1>3. /\ registry' \in [Components -> MaterielStatus \cup {None}]
        /\ \A c \in Components : /\ (registry'[c] = None) <=> (registry[c] = None)
                                 /\ registry[c] # None => registry'[c].readiness = registry[c].readiness
    <2>1. CASE UNCHANGED registry
      BY <2>1 DEF Typed, MaterielTypeOK
    <2>2. CASE registry' = [registry EXCEPT ![f].remaining = n]
      <3>1. registry' = [registry EXCEPT ![f] = [registry[f] EXCEPT !.remaining = n]]
        BY <2>2
      <3>2. [registry[f] EXCEPT !.remaining = n].readiness = registry[f].readiness
        BY <1>1 DEF MaterielStatus
      <3> HIDE <2>2
      <3> QED
        BY <1>1, <1>2, <3>1, <3>2, ConstantFacts DEF Typed, MaterielTypeOK
    <2> QED
      BY <2>1, <2>2
  <1>4. RegistryTyped'
    BY <1>3 DEF Typed, MaterielTypeOK, RegistryTyped
  <1>5. RegistryKnown'
    BY <1>3, ConstantFacts DEF Typed, RegistryKnown
  <1>6. LapseIsEvidenced'
    BY <1>3 DEF Typed, LapseIsEvidenced, MaterielTypeOK, RegistryKnown
  <1> QED
    BY <1>4, <1>5, <1>6 DEF RegistryInv

\* The registry when a handler only moves on.
LEMMA HandlerStep ==
  ASSUME Typed, UNCHANGED registryVars, calls' \in [Engagements -> Calls],
         \A e \in Engagements :
           calls'[e].pc \in {"waiting", "publishing", "unsent"} =>
             /\ calls[e].pc \in {"waiting", "publishing", "unsent"}
             /\ calls'[e].effector = calls[e].effector
  PROVE  RegistryInv'
  <1>1. UNCHANGED <<registry, flagged, lapsed, lapseRecords, backdated>>
    BY DEF registryVars
  <1> QED
    BY <1>1 DEF Typed, MaterielTypeOK, RegistryInv, RegistryTyped, RegistryKnown, LapseIsEvidenced

\* A handler that returns, and one that goes on to the next await.
LEMMA CloseFacts ==
  ASSUME Typed, NEW e \in Engagements, Close(e)
  PROVE  /\ calls' \in [Engagements -> Calls]
         /\ calls'[e].pc = "done"
         /\ \A d \in Engagements : d # e => calls'[d] = calls[d]
  <1>1. [NoCall EXCEPT !.pc = "done"] \in Calls /\ [NoCall EXCEPT !.pc = "done"].pc = "done"
    BY DEF NoCall, Calls
  <1> QED
    BY <1>1 DEF Close, Typed, MaterielTypeOK

LEMMA MoveFacts ==
  ASSUME Typed, NEW e \in Engagements, NEW pc \in {"waiting", "publishing", "unsent"},
         calls' = [calls EXCEPT ![e].pc = pc]
  PROVE  /\ calls' \in [Engagements -> Calls]
         /\ calls'[e].pc = pc /\ calls'[e].effector = calls[e].effector
         /\ \A d \in Engagements : d # e => calls'[d] = calls[d]
  BY DEF Typed, MaterielTypeOK, Calls

LEMMA EmitType ==
  ASSUME Typed, NEW e \in Engagements, NEW f \in Effectors,
         NEW state \in {"ACCEPTED", "COMPLETE", "ABORTED", "REFUSED"},
         NEW x \in [remaining : 0..Capacity, readiness : Readiness,
                    active : Engagements \cup {None}],
         Emit(e, f, state, x)
  PROVE  /\ uplink' \in Seq(Message) /\ UNCHANGED <<posts, delivered>>
         /\ effector' = [effector EXCEPT ![f] = x]
         /\ effector' \in [Effectors -> [remaining : 0..Capacity, readiness : Readiness,
                                         active : Engagements \cup {None}]]
  <1>1. [kind |-> "engagement", engagement |-> e, effector |-> f, state |-> state,
         remaining |-> x.remaining] \in Message
    BY DEF Message
  <1>2. StatusMessage(f, reportTime, x) \in Message
    BY ConstantFacts DEF Typed, MaterielTypeOK, Message, StatusMessage, MaterielStatus
  <1>3. uplink \in Seq(Message)
    BY DEF Typed, MaterielTypeOK
  <1>4. uplink' \in Seq(Message)
    BY <1>1, <1>2, <1>3 DEF Emit
  <1> QED
    BY <1>4 DEF Emit, Typed, MaterielTypeOK

LEMMA PostTyped ==
  ASSUME Typed, NEW c \in Components, Post(c) PROVE Typed'
  <1>1. [component |-> c, status |-> StatusOf(c)] \in StatusReport
    BY StatusOfType DEF StatusReport
  <1>2. posts' \subseteq StatusReport
    BY <1>1 DEF Post, Typed, MaterielTypeOK
  <1>3. RegistryInv'
    BY HandlerStep DEF Post, commandVars, Typed, MaterielTypeOK
  <1> QED
    BY <1>2, <1>3 DEF Post, commandVars, Typed, MaterielTypeOK, RegistryInv, RegistryTyped

LEMMA RegisterTyped ==
  ASSUME Typed, NEW q \in posts, Register(q) PROVE Typed'
  <1>1. q.component \in Components /\ q.status \in MaterielStatus
    BY DEF Typed, MaterielTypeOK, StatusReport
  <1>2. /\ Install(q.component, q.status) /\ backdated' \subseteq Components
        /\ posts' \subseteq posts
        /\ UNCHANGED <<sinkWorks, reserved, ledger, orders, uplink, delivered, effector,
                       reportTime>>
    BY <1>1 DEF Register, Typed, MaterielTypeOK
  <1>3. RegistryInv'
    BY <1>1, <1>2, InstallStep
  <1> QED
    BY <1>2, <1>3 DEF Typed, MaterielTypeOK, RegistryInv, RegistryTyped

\* A status that the handlers drop, or install.
LEMMA StatusReceived ==
  ASSUME Typed, NEW c \in Components, NEW status \in MaterielStatus,
         ReceiveMaterielStatus(c, status)
  PROVE  RegistryInv'
  <1>1. CASE Valid(c, status) /\ Later(c, status)
    <2>1. Install(c, status) /\ backdated' \subseteq Components
      BY <1>1 DEF ReceiveMaterielStatus, Typed, MaterielTypeOK
    <2> QED
      BY <2>1, InstallStep
  <1>2. CASE ~(Valid(c, status) /\ Later(c, status))
    <2>1. UNCHANGED <<registryVars, calls>>
      BY <1>2 DEF ReceiveMaterielStatus
    <2> QED
      BY <2>1, HandlerStep DEF Typed, MaterielTypeOK
  <1> QED
    BY <1>1, <1>2

LEMMA RedeliverTyped ==
  ASSUME Typed, NEW d \in delivered, Redeliver(d) PROVE Typed'
  <1>1. d.component \in Components /\ d.status \in MaterielStatus
    BY DEF Typed, MaterielTypeOK, StatusReport
  <1>2. RegistryInv'
    BY <1>1, StatusReceived DEF Redeliver
  <1> QED
    BY <1>2 DEF Redeliver, linkVars, Typed, MaterielTypeOK, RegistryInv, RegistryTyped

LEMMA LapseTyped ==
  ASSUME Typed, NEW c \in Components, Lapse(c) PROVE Typed'
  BY DEF Lapse, commandVars, linkVars, Typed, MaterielTypeOK, RegistryKnown, LapseIsEvidenced

LEMMA ReportStatusTyped ==
  ASSUME Typed, NEW c \in Components, ReportStatus(c) PROVE Typed'
  <1>1. [kind |-> "status", component |-> c, status |-> StatusOf(c)] \in Message
    BY StatusOfType DEF Message
  <1>2. uplink' \in Seq(Message)
    BY <1>1 DEF ReportStatus, Typed, MaterielTypeOK
  <1>3. RegistryInv'
    BY HandlerStep DEF ReportStatus, commandVars, Typed, MaterielTypeOK
  <1>4. CommandsTyped'
    BY <1>2 DEF ReportStatus, commandVars, Typed, MaterielTypeOK, CommandsTyped
  <1> QED
    BY <1>3, <1>4 DEF Typed, MaterielTypeOK, RegistryInv, RegistryTyped, CommandsTyped

LEMMA ReportHoldTyped ==
  ASSUME Typed, NEW f \in Effectors, ReportHold(f) PROVE Typed'
  <1>1. [effector[f] EXCEPT !.readiness = "WEAPONS_HOLD"]
          \in [remaining : 0..Capacity, readiness : Readiness,
               active : Engagements \cup {None}]
    BY DEF Typed, MaterielTypeOK, Readiness
  <1>2. StatusMessage(f, reportTime, [effector[f] EXCEPT !.readiness = "WEAPONS_HOLD"])
          \in Message
    BY <1>1, ConstantFacts DEF Typed, MaterielTypeOK, Message, StatusMessage, MaterielStatus
  <1>3. uplink' \in Seq(Message)
    BY <1>2 DEF ReportHold, Typed, MaterielTypeOK
  <1>4. RegistryInv'
    BY HandlerStep DEF ReportHold, commandVars, Typed, MaterielTypeOK
  <1>5. CommandsTyped'
    BY <1>3 DEF ReportHold, commandVars, Typed, MaterielTypeOK, CommandsTyped
  <1> QED
    BY <1>4, <1>5 DEF Typed, MaterielTypeOK, RegistryInv, RegistryTyped, CommandsTyped

LEMMA SuperviseTyped ==
  ASSUME Typed, Supervise PROVE Typed'
  <1>1. RegistryInv'
    BY ExpiryStep DEF Supervise, commandVars
  <1>2. CommandsTyped'
    BY DEF Supervise, commandVars, linkVars, Typed, MaterielTypeOK, CommandsTyped
  <1> QED
    BY <1>1, <1>2 DEF Typed, MaterielTypeOK, RegistryInv, RegistryTyped, CommandsTyped

\* The clock of the reports, the audit file and the connection.
LEMMA EnvironmentTyped ==
  ASSUME Typed, SinkChanges \/ TickReports \/ LoseMessage PROVE Typed'
  <1>1. RegistryInv'
    <2>1. UNCHANGED <<registryVars, calls>>
      BY DEF SinkChanges, TickReports, LoseMessage, commandVars
    <2> QED
      BY <2>1, HandlerStep DEF Typed, MaterielTypeOK
  <1>2. CASE SinkChanges
    BY <1>1, <1>2 DEF SinkChanges, commandVars, linkVars, Typed, MaterielTypeOK, RegistryInv, RegistryTyped
  <1>3. CASE TickReports
    BY <1>1, <1>3 DEF TickReports, commandVars, linkVars, Typed, MaterielTypeOK, RegistryInv, RegistryTyped
  <1>4. CASE LoseMessage
    <2>1. uplink \in Seq(Message)
      BY DEF Typed, MaterielTypeOK
    <2>2. uplink # <<>> => Tail(uplink) \in Seq(Message)
      BY <2>1
    <2>3. uplink' \in Seq(Message) /\ orders' \subseteq orders
      BY <1>4, <2>1, <2>2 DEF LoseMessage
    <2>4. UNCHANGED <<sinkWorks, reserved, ledger, posts, delivered, effector, reportTime>>
      BY <1>4 DEF LoseMessage
    <2> QED
      BY <1>1, <2>3, <2>4 DEF Typed, MaterielTypeOK, RegistryInv, RegistryTyped
  <1> QED
    BY <1>2, <1>3, <1>4

LEMMA SubmitTyped ==
  ASSUME Typed, NEW e \in Engagements, NEW f \in Effectors, Submit(e, f) PROVE Typed'
  <1> DEFINE held == [pc |-> "waiting", effector |-> f, captured |-> Attached]
  <1>1. held \in Calls /\ held.pc = "waiting" /\ held.effector = f
    BY DEF Calls, Attached
  <1>2. calls' = [calls EXCEPT ![e] = held]
    BY DEF Submit
  <1>3. /\ ExpireAll /\ registry[f] # None
        /\ UNCHANGED <<lapsed, backdated, sinkWorks, reserved, ledger, orders, linkVars,
                       effector, reportTime>>
    BY DEF Submit
  <1> HIDE DEF held
  <1>4. PICK cs : /\ cs \subseteq {c \in Components : registry[c] # None}
                  /\ registry' = Offline(cs) /\ flagged' \subseteq cs
    BY <1>3 DEF ExpireAll, Typed, MaterielTypeOK, RegistryKnown, LapseIsEvidenced
  <1>5. /\ registry' \in [Components -> MaterielStatus \cup {None}]
        /\ \A c \in Components : /\ (registry'[c] = None) <=> (registry[c] = None)
                                 /\ c \in cs => registry'[c].readiness = "OFFLINE"
    BY <1>4, OfflineType
  <1>6. RegistryTyped'
    BY <1>1, <1>2, <1>3, <1>5 DEF ExpireAll, Typed, MaterielTypeOK, RegistryTyped
  <1>7. RegistryKnown'
    BY <1>1, <1>2, <1>3, <1>5, ConstantFacts DEF Typed, MaterielTypeOK, RegistryKnown
  <1>8. LapseIsEvidenced'
    BY <1>3, <1>4, <1>5 DEF ExpireAll, Unrecorded, Typed, MaterielTypeOK, LapseIsEvidenced
  <1> QED
    BY <1>3, <1>6, <1>7, <1>8
    DEF linkVars, Typed, MaterielTypeOK, RegistryTyped

LEMMA DenyTyped ==
  ASSUME Typed, NEW e \in Engagements, Deny(e) PROVE Typed'
  <1>1. Close(e) /\ ledger' = [ledger EXCEPT ![e] = "over"]
        /\ UNCHANGED <<registryVars, sinkWorks, reserved, orders, linkVars, effector, reportTime>>
    BY DEF Deny
  <1>2. RegistryInv'
    BY <1>1, CloseFacts, HandlerStep
  <1> QED
    BY <1>1, <1>2 DEF linkVars, Typed, MaterielTypeOK, RegistryInv, RegistryTyped, LedgerStates

LEMMA ReleaseTyped ==
  ASSUME Typed, NEW e \in Engagements, Release(e) PROVE Typed'
  <1> DEFINE f == calls[e].effector
  <1>1. /\ calls[e].pc = "waiting"
        /\ ledger' = [ledger EXCEPT ![e] = "authorized"]
        /\ reserved' = [reserved EXCEPT ![f] = e]
        /\ UNCHANGED <<registryVars, sinkWorks, linkVars, effector, reportTime>>
    BY DEF Release
  <1>2. f \in Effectors
    BY <1>1 DEF Typed, RegistryKnown
  <1>3. PICK pc \in {"publishing", "unsent"} :
          /\ calls' = [calls EXCEPT ![e].pc = pc]
          /\ orders' \subseteq orders \cup {[engagement |-> e, effector |-> f]}
    BY DEF Release
  <1>4. RegistryInv'
    BY <1>1, <1>3, MoveFacts, HandlerStep
  <1> QED
    BY <1>1, <1>2, <1>3, <1>4 DEF linkVars, Typed, MaterielTypeOK, RegistryInv, RegistryTyped, LedgerStates

LEMMA FinishTyped ==
  ASSUME Typed, NEW e \in Engagements, Finish(e) PROVE Typed'
  <1> DEFINE f == calls[e].effector
  <1>1. /\ calls[e].pc \in {"publishing", "unsent"} /\ Close(e)
        /\ UNCHANGED <<sinkWorks, orders, linkVars, effector, reportTime>>
        /\ UNCHANGED <<flagged, lapsed, lapseRecords, backdated>>
    BY DEF Finish, Decrement, registryVars
  <1>2. f \in Effectors /\ f \in Components /\ registry[f] \in MaterielStatus
    BY <1>1, ConstantFacts DEF Typed, MaterielTypeOK, RegistryKnown
  <1>3. PICK n \in 0..Capacity :
          registry' = [registry EXCEPT ![f].remaining = n] \/ UNCHANGED registry
    <2>1. CASE Decrement(e)
      <3> DEFINE r == registry[f].remaining
      <3>1. r \in 0..Capacity /\ registry \in [Components -> MaterielStatus \cup {None}]
        BY <1>2 DEF MaterielStatus, Typed, MaterielTypeOK
      <3>2. CASE calls[e].captured # Attached
        BY <2>1, <3>1, <3>2 DEF Decrement
      <3>3. CASE calls[e].captured = Attached /\ r = 0
        <4>1. registry' = [registry EXCEPT ![f] = registry[f]]
          BY <2>1, <3>3 DEF Decrement, Decremented
        <4> QED
          BY <3>1, <4>1
      <3>4. CASE calls[e].captured = Attached /\ r # 0
        <4>1. registry' = [registry EXCEPT ![f] = [registry[f] EXCEPT !.remaining = r - 1]]
          BY <2>1, <3>4 DEF Decrement, Decremented
        <4>2. registry' = [registry EXCEPT ![f].remaining = r - 1]
          BY <4>1
        <4>3. r - 1 \in 0..Capacity
          BY <3>1, <3>4, ConstantFacts
        <4> QED
          BY <4>2, <4>3
      <3> QED
        BY <3>2, <3>3, <3>4
    <2>2. CASE ~Decrement(e)
      <3>1. UNCHANGED registry /\ 0 \in 0..Capacity
        BY <2>2, ConstantFacts DEF Finish, registryVars
      <3> QED
        BY <3>1
    <2> QED
      BY <2>1, <2>2
  <1>4. RegistryInv'
    BY <1>1, <1>2, <1>3, CloseFacts, CountStep, ConstantFacts
  <1>5. /\ ledger' \in [Engagements -> LedgerStates]
        /\ reserved' \in [Effectors -> Engagements \cup {None}]
    BY <1>2 DEF Finish, Typed, MaterielTypeOK, LedgerStates
  <1> QED
    BY <1>1, <1>4, <1>5 DEF linkVars, Typed, MaterielTypeOK, RegistryInv, RegistryTyped

LEMMA ConsumeTokenTyped ==
  ASSUME Typed, NEW e \in Engagements, ConsumeToken(e) PROVE Typed'
  <1>1. RegistryInv'
    BY HandlerStep DEF ConsumeToken, Typed, MaterielTypeOK
  <1> QED
    BY <1>1 DEF ConsumeToken, linkVars, Typed, MaterielTypeOK, RegistryInv, RegistryTyped, LedgerStates

LEMMA ReceiveTyped ==
  ASSUME Typed, Receive PROVE Typed'
  <1> DEFINE m == Head(uplink)
  <1>1. /\ uplink # <<>> /\ uplink' = Tail(uplink)
        /\ UNCHANGED <<sinkWorks, orders, posts, effector, reportTime>>
    BY DEF Receive
  <1>2. m \in Message /\ uplink' \in Seq(Message)
    BY <1>1 DEF Typed, MaterielTypeOK
  <1>3. ASSUME m.kind = "status", ReceiveMaterielStatus(m.component, m.status),
               MayComeAgain(m), UNCHANGED <<reserved, ledger>>
        PROVE  RegistryInv' /\ UNCHANGED <<reserved, ledger>> /\ delivered' \subseteq StatusReport
    <2>1. m.component \in Components /\ m.status \in MaterielStatus
      BY <1>2, <1>3 DEF Message
    <2>2. delivered' \subseteq StatusReport
      BY <1>3, <2>1 DEF MayComeAgain, StatusReport, Typed, MaterielTypeOK
    <2> QED
      BY <1>3, <2>1, <2>2, StatusReceived
  <1>4. ASSUME m.kind = "engagement", ApplyReport(m),
               UNCHANGED <<flagged, lapsed, lapseRecords, backdated, calls>>
        PROVE  /\ RegistryInv'
               /\ ledger' \in [Engagements -> LedgerStates]
               /\ reserved' \in [Effectors -> Engagements \cup {None}]
    <2>1. /\ m.effector \in Effectors /\ m.engagement \in Engagements
          /\ m.remaining \in 0..Capacity
      BY <1>2, <1>4 DEF Message
    <2>2. /\ ledger' \in [Engagements -> LedgerStates]
          /\ reserved' \in [Effectors -> Engagements \cup {None}]
      BY <1>4, <2>1 DEF ApplyReport, Typed, MaterielTypeOK, LedgerStates
    <2>3. CASE registry[m.effector] # None
      <3>1. registry' = [registry EXCEPT ![m.effector].remaining = m.remaining]
        BY <1>4, <2>3 DEF ApplyReport
      <3>2. calls' = calls /\ calls \in [Engagements -> Calls]
            /\ UNCHANGED <<flagged, lapsed, lapseRecords, backdated>>
        BY <1>4 DEF Typed, MaterielTypeOK
      <3> HIDE DEF m
      <3>3. RegistryInv'
        BY <2>1, <2>3, <3>1, <3>2, CountStep
      <3> QED
        BY <2>2, <3>3
    <2>4. CASE registry[m.effector] = None
      <3>1. UNCHANGED registryVars
        BY <1>4, <2>4 DEF ApplyReport, registryVars
      <3>2. calls' = calls /\ calls \in [Engagements -> Calls]
        BY <1>4 DEF Typed, MaterielTypeOK
      <3> QED
        BY <2>2, <3>1, <3>2, HandlerStep
    <2> QED
      BY <2>3, <2>4
  <1>5. ASSUME UNCHANGED <<registryVars, reserved, ledger, calls>> PROVE RegistryInv'
    BY <1>5, HandlerStep DEF Typed, MaterielTypeOK
  <1>6. /\ RegistryInv'
        /\ ledger' \in [Engagements -> LedgerStates]
        /\ reserved' \in [Effectors -> Engagements \cup {None}]
        /\ delivered' \subseteq StatusReport
    BY <1>3, <1>4, <1>5 DEF Receive, Typed, MaterielTypeOK
  <1> QED
    BY <1>1, <1>2, <1>6 DEF Typed, MaterielTypeOK, RegistryInv, RegistryTyped

EffectorState == [remaining : 0..Capacity, readiness : Readiness,
                  active : Engagements \cup {None}]

\* The three outcomes of an order at its effector.
LEMMA TakeOrderCases ==
  ASSUME Typed, NEW o \in orders, TakeOrder(o)
  PROVE  /\ o.engagement \in Engagements /\ o.effector \in Effectors
         /\ orders' = orders \ {o}
         /\ UNCHANGED <<registryVars, sinkWorks, reserved, ledger, calls, reportTime>>
         /\ \/ /\ effector[o.effector].active = None
               /\ \E y \in EffectorState :
                    /\ y.active = o.engagement
                    /\ Emit(o.engagement, o.effector, "ACCEPTED", y)
            \/ \E y \in EffectorState :
                 /\ y.remaining = effector[o.effector].remaining
                 /\ y.active = effector[o.effector].active
                 /\ Emit(o.engagement, o.effector, "REFUSED", y)
  <1> DEFINE x == effector[o.effector]
  <1>1. o.engagement \in Engagements /\ o.effector \in Effectors
    BY DEF Typed, MaterielTypeOK
  <1>2. x \in EffectorState
    BY <1>1 DEF Typed, MaterielTypeOK, EffectorState
  <1>3. ASSUME x.active = None, x.remaining > 0,
               Emit(o.engagement, o.effector, "ACCEPTED",
                    [remaining |-> x.remaining - 1, readiness |-> "DEGRADED",
                     active |-> o.engagement])
        PROVE  \E y \in EffectorState :
                 /\ y.active = o.engagement
                 /\ Emit(o.engagement, o.effector, "ACCEPTED", y)
    <2> DEFINE y == [remaining |-> x.remaining - 1, readiness |-> "DEGRADED",
                     active |-> o.engagement]
    <2>1. y \in EffectorState /\ y.active = o.engagement
      BY <1>1, <1>2, <1>3, ConstantFacts DEF EffectorState, Readiness
    <2>2. Emit(o.engagement, o.effector, "ACCEPTED", y)
      BY <1>3
    <2> HIDE DEF y
    <2> QED
      BY <2>1, <2>2
  <1>4. ASSUME Emit(o.engagement, o.effector, "REFUSED", [x EXCEPT !.readiness = "OFFLINE"])
        PROVE  \E y \in EffectorState :
                 /\ y.remaining = x.remaining /\ y.active = x.active
                 /\ Emit(o.engagement, o.effector, "REFUSED", y)
    <2> DEFINE y == [x EXCEPT !.readiness = "OFFLINE"]
    <2>1. y \in EffectorState /\ y.remaining = x.remaining /\ y.active = x.active
      BY <1>2 DEF EffectorState, Readiness
    <2>2. Emit(o.engagement, o.effector, "REFUSED", y)
      BY <1>4
    <2> HIDE DEF y
    <2> QED
      BY <2>1, <2>2
  <1> QED
    BY <1>1, <1>2, <1>3, <1>4 DEF TakeOrder

LEMMA TakeOrderTyped ==
  ASSUME Typed, NEW o \in orders, TakeOrder(o) PROVE Typed'
  <1>1. PICK y \in EffectorState :
          \/ Emit(o.engagement, o.effector, "ACCEPTED", y)
          \/ Emit(o.engagement, o.effector, "REFUSED", y)
    BY TakeOrderCases
  <1>2. uplink' \in Seq(Message) /\ UNCHANGED <<posts, delivered>> /\ effector' \in [Effectors -> EffectorState]
    BY <1>1, TakeOrderCases, EmitType DEF EffectorState
  <1>3. RegistryInv'
    BY TakeOrderCases, HandlerStep DEF Typed, MaterielTypeOK
  <1> QED
    BY <1>2, <1>3, TakeOrderCases DEF EffectorState, Typed, MaterielTypeOK, RegistryInv,
       RegistryTyped

\* The last word of an execution frees its effector.
LEMMA EndCases ==
  ASSUME Typed, NEW f \in Effectors, End(f)
  PROVE  /\ effector[f].active # None /\ effector[f].active \in Engagements
         /\ UNCHANGED <<registryVars, sinkWorks, commandVars, reportTime>>
         /\ \E y \in EffectorState, state \in {"COMPLETE", "ABORTED"} :
              /\ y.active = None /\ y.remaining = effector[f].remaining
              /\ Emit(effector[f].active, f, state, y)
  <1> DEFINE x == effector[f]
             y == [x EXCEPT !.active = None,
                            !.readiness = IF x.remaining > 0 THEN "READY" ELSE "OFFLINE"]
  <1>1. x \in EffectorState /\ x.active # None
    BY DEF Typed, MaterielTypeOK, EffectorState, End
  <1>2. y \in EffectorState /\ y.active = None /\ y.remaining = x.remaining
    BY <1>1 DEF EffectorState, Readiness
  <1>3. \E state \in {"COMPLETE", "ABORTED"} : Emit(x.active, f, state, y)
    BY DEF End
  <1> HIDE DEF y
  <1> QED
    BY <1>1, <1>2, <1>3 DEF End, EffectorState

LEMMA EndTyped ==
  ASSUME Typed, NEW f \in Effectors, End(f) PROVE Typed'
  <1>1. PICK y \in EffectorState, state \in {"COMPLETE", "ABORTED"} :
          Emit(effector[f].active, f, state, y)
    BY EndCases
  <1>2. uplink' \in Seq(Message) /\ UNCHANGED <<posts, delivered>> /\ effector' \in [Effectors -> EffectorState]
    BY <1>1, EndCases, EmitType DEF EffectorState
  <1>3. RegistryInv'
    BY EndCases, HandlerStep DEF commandVars, Typed, MaterielTypeOK
  <1> QED
    BY <1>2, <1>3, EndCases DEF EffectorState, commandVars, Typed, MaterielTypeOK,
       RegistryInv, RegistryTyped

LEMMA TypedStep == Typed /\ [MaterielNext]_materielVars => Typed'
  <1> SUFFICES ASSUME Typed, [MaterielNext]_materielVars PROVE Typed'
    OBVIOUS
  <1>1. CASE UNCHANGED materielVars
    BY <1>1 DEF materielVars, registryVars, commandVars, linkVars, Typed, MaterielTypeOK, RegistryKnown,
       LapseIsEvidenced
  <1>2. CASE MaterielNext
    BY <1>2, PostTyped, RegisterTyped, RedeliverTyped, LapseTyped, ReportStatusTyped, ReportHoldTyped, SuperviseTyped,
       EnvironmentTyped, ReceiveTyped, SubmitTyped, DenyTyped, ReleaseTyped, FinishTyped,
       ConsumeTokenTyped, TakeOrderTyped, EndTyped DEF MaterielNext
  <1> QED
    BY <1>1, <1>2

----------------------------------------------------------------------------
(* The counts                                                               *)

LEMMA StockInit == MaterielInit => StockInv
  <1> SUFFICES ASSUME MaterielInit PROVE StockInv
    OBVIOUS
  <1>1. CommandsReserved /\ OrdersReserved
    BY DEF MaterielInit, NoCall, CommandsReserved, OrdersReserved
  <1>2. uplink = <<>> /\ 1..Len(uplink) = {}
    BY DEF MaterielInit
  <1>3. LastWordsHonest
    BY <1>2 DEF LastWordsHonest
  <1>4. QuietIsHonest
    BY <1>2, ConstantFacts DEF MaterielInit, QuietIsHonest, HonestFrom
  <1> QED
    BY <1>1, <1>3, <1>4 DEF StockInv

\* Messages may leave the connection, handlers move on, and effectors be given
\* back on which nothing of their request is left: no order, no execution, and
\* no message but honest ones.
LEMMA RelaxStep ==
  ASSUME Typed, StockInv,
         NEW freed \in SUBSET Effectors, NEW k \in {0, 1},
         effector' = effector, orders' \subseteq orders,
         reserved' = [f \in Effectors |-> IF f \in freed THEN None ELSE reserved[f]],
         Len(uplink') = Len(uplink) - k /\ Len(uplink') \in Nat,
         \A i \in 1..Len(uplink') : uplink'[i] = uplink[i + k],
         \A e \in Engagements :
           /\ calls[e].pc \in {"publishing", "done"} => calls'[e].pc \in {"publishing", "done"}
           /\ calls[e].pc = "unsent" => calls'[e].pc \in {"unsent", "done"}
           /\ calls'[e].pc = "unsent" => /\ calls[e].pc = "unsent"
                                         /\ calls'[e].effector = calls[e].effector
                                         /\ calls[e].effector \notin freed,
         \A f \in Effectors : (f \in freed \/ Quiet(f)) /\ f \notin backdated' /\ registry'[f] # None
           => registry'[f].remaining <= effector[f].remaining,
         \A f \in freed :
           /\ effector[f].active = None
           /\ \A o \in orders : o.effector # f
           /\ \A i \in 1..Len(uplink') :
                /\ Tells(uplink'[i], f) => Count(uplink'[i]) <= effector[f].remaining
                /\ LastWord(uplink'[i]) => uplink'[i].effector # f
  PROVE  StockInv'
  <1>1. /\ uplink \in Seq(Message) /\ Len(uplink) \in Nat
        /\ reserved \in [Effectors -> Engagements \cup {None}]
        /\ effector \in [Effectors -> EffectorState]
        /\ orders \subseteq [engagement : Engagements, effector : Effectors]
    BY DEF Typed, MaterielTypeOK, EffectorState
  <1>2. \A i \in 1..Len(uplink') : i + k \in 1..Len(uplink) /\ uplink[i + k] \in Message
    BY <1>1
  <1>3. CommandsReserved'
    <2>1. ASSUME NEW f \in Effectors, effector[f].active # None
          PROVE  /\ reserved'[f] = effector[f].active
                 /\ calls'[effector[f].active].pc \in {"publishing", "done"}
      <3>1. /\ f \notin freed /\ reserved[f] = effector[f].active
            /\ effector[f].active \in Engagements
            /\ calls[effector[f].active].pc \in {"publishing", "done"}
        BY <1>1, <2>1 DEF StockInv, CommandsReserved, Sent, EffectorState
      <3> QED
        BY <3>1
    <2>2. ASSUME NEW e \in Engagements, calls'[e].pc = "unsent"
          PROVE  reserved'[calls'[e].effector] = e
      <3>1. /\ reserved[calls[e].effector] = e /\ calls[e].effector \in Effectors
            /\ calls'[e].effector = calls[e].effector /\ calls[e].effector \notin freed
        BY <2>2 DEF StockInv, CommandsReserved, Typed, RegistryKnown
      <3> QED
        BY <3>1
    <2>3. ASSUME NEW f \in Effectors, reserved'[f] # None
          PROVE  calls'[reserved'[f]].pc \in {"publishing", "unsent", "done"}
      <3>1. /\ reserved'[f] = reserved[f] /\ reserved[f] \in Engagements
            /\ calls[reserved[f]].pc \in {"publishing", "unsent", "done"}
        BY <1>1, <2>3 DEF StockInv, CommandsReserved
      <3> QED
        BY <3>1
    <2> QED
      BY <2>1, <2>2, <2>3 DEF CommandsReserved, Sent
  <1>4. OrdersReserved'
    <2> SUFFICES ASSUME NEW o \in orders'
                 PROVE  /\ reserved'[o.effector] = o.engagement
                        /\ calls'[o.engagement].pc \in {"publishing", "done"}
                        /\ effector[o.effector].active = None
                        /\ \A i \in 1..Len(uplink') :
                             ~Answers(uplink'[i], o.engagement, o.effector)
      BY DEF OrdersReserved, Sent
    <2>1. /\ o \in orders /\ o.effector \in Effectors /\ o.engagement \in Engagements
          /\ o.effector \notin freed
      BY <1>1
    <2>2. /\ reserved[o.effector] = o.engagement
          /\ calls[o.engagement].pc \in {"publishing", "done"}
          /\ effector[o.effector].active = None
          /\ \A i \in 1..Len(uplink) : ~Answers(uplink[i], o.engagement, o.effector)
      BY <2>1 DEF StockInv, OrdersReserved, Sent
    <2> QED
      BY <1>2, <2>1, <2>2
  <1>5. LastWordsHonest'
    <2>1. ASSUME NEW i \in 1..Len(uplink'), uplink'[i].kind = "engagement"
          PROVE  calls'[uplink'[i].engagement].pc \in {"publishing", "done"}
      <3>1. uplink[i + k].engagement \in Engagements
        BY <1>2, <2>1 DEF Message
      <3> QED
        BY <1>2, <2>1, <3>1 DEF StockInv, LastWordsHonest, Sent
    <2>2. ASSUME NEW i \in 1..Len(uplink'), LastWord(uplink'[i])
          PROVE  /\ reserved'[uplink'[i].effector] = uplink'[i].engagement
                 /\ effector[uplink'[i].effector].active = None
                 /\ \A j \in i..Len(uplink') :
                      Tells(uplink'[j], uplink'[i].effector)
                        => Count(uplink'[j]) <= effector[uplink'[i].effector].remaining
                 /\ \A j \in (i + 1)..Len(uplink') :
                      ~Answers(uplink'[j], uplink'[i].engagement, uplink'[i].effector)
      <3> DEFINE m == uplink[i + k]
      <3>1. uplink'[i] = m /\ i + k \in 1..Len(uplink) /\ LastWord(m)
        BY <1>2, <2>2
      <3>2. m.effector \in Effectors /\ m.effector \notin freed
        BY <1>2, <2>2, <3>1 DEF Message, LastWord
      <3>3. /\ reserved[m.effector] = m.engagement
            /\ effector[m.effector].active = None
            /\ \A j \in (i + k)..Len(uplink) :
                 Tells(uplink[j], m.effector)
                   => Count(uplink[j]) <= effector[m.effector].remaining
            /\ \A j \in (i + k + 1)..Len(uplink) : ~Answers(uplink[j], m.engagement, m.effector)
        BY <3>1 DEF StockInv, LastWordsHonest, HonestFrom
      <3>4. \A j \in i..Len(uplink') : j + k \in (i + k)..Len(uplink) /\ uplink'[j] = uplink[j + k]
        BY <1>1
      <3>5. \A j \in (i + 1)..Len(uplink') :
              j + k \in (i + k + 1)..Len(uplink) /\ uplink'[j] = uplink[j + k]
        BY <1>1
      <3> HIDE DEF m
      <3>6. reserved'[m.effector] = m.engagement
        BY <3>2, <3>3
      <3>7. \A j \in i..Len(uplink') :
              Tells(uplink'[j], m.effector) => Count(uplink'[j]) <= effector[m.effector].remaining
        BY <3>3, <3>4
      <3>8. \A j \in (i + 1)..Len(uplink') : ~Answers(uplink'[j], m.engagement, m.effector)
        BY <3>3, <3>5
      <3> QED
        BY <3>1, <3>3, <3>6, <3>7, <3>8
    <2> QED
      BY <2>1, <2>2 DEF LastWordsHonest, HonestFrom, Sent
  <1>6. QuietIsHonest'
    <2> SUFFICES ASSUME NEW f \in Effectors,
                        reserved'[f] = None \/ calls'[reserved'[f]].pc = "unsent"
                 PROVE  /\ (f \notin backdated' /\ registry'[f] # None) =>
                             registry'[f].remaining <= effector[f].remaining
                        /\ \A j \in 1..Len(uplink') :
                             Tells(uplink'[j], f) => Count(uplink'[j]) <= effector[f].remaining
      BY DEF QuietIsHonest, Quiet, HonestFrom
    <2>1. CASE f \in freed
      BY <2>1
    <2>2. CASE f \notin freed
      <3>1. Quiet(f)
        <4>1. reserved'[f] = reserved[f]
          BY <2>2
        <4>2. CASE reserved[f] = None
          BY <4>2 DEF Quiet
        <4>3. CASE reserved[f] # None
          <5>1. reserved[f] \in Engagements /\ calls'[reserved[f]].pc = "unsent"
            BY <1>1, <4>1, <4>3
          <5> QED
            BY <5>1 DEF Quiet
        <4> QED
          BY <4>2, <4>3
      <3>2. \A j \in 1..Len(uplink) : Tells(uplink[j], f) => Count(uplink[j]) <= effector[f].remaining
        BY <3>1 DEF StockInv, QuietIsHonest, HonestFrom
      <3> QED
        BY <1>2, <3>1, <3>2
    <2> QED
      BY <2>1, <2>2
  <1> QED
    BY <1>3, <1>4, <1>5, <1>6 DEF StockInv

\* What leaves the connection as its head, or not at all.
LEMMA ShiftFacts ==
  ASSUME Typed, uplink # <<>>, uplink' = Tail(uplink)
  PROVE  /\ Len(uplink') = Len(uplink) - 1 /\ Len(uplink') \in Nat
         /\ \A i \in 1..Len(uplink') : uplink'[i] = uplink[i + 1]
         /\ 1 \in 1..Len(uplink) /\ Head(uplink) = uplink[1] /\ uplink[1] \in Message
  BY DEF Typed, MaterielTypeOK

LEMMA StillFacts ==
  ASSUME Typed, uplink' = uplink
  PROVE  /\ Len(uplink') = Len(uplink) - 0 /\ Len(uplink') \in Nat
         /\ \A i \in 1..Len(uplink') : uplink'[i] = uplink[i + 0]
  BY DEF Typed, MaterielTypeOK

\* Nothing is given back, and no count rises that nobody commands.
LEMMA SlideStep ==
  ASSUME Typed, StockInv,
         effector' = effector, reserved' = reserved, orders' \subseteq orders,
         uplink' = uplink \/ (uplink # <<>> /\ uplink' = Tail(uplink)),
         \A e \in Engagements :
           /\ calls[e].pc \in {"publishing", "done"} => calls'[e].pc \in {"publishing", "done"}
           /\ calls[e].pc = "unsent" => calls'[e].pc \in {"unsent", "done"}
           /\ calls'[e].pc = "unsent" => calls[e].pc = "unsent" /\ calls'[e].effector = calls[e].effector,
         \A f \in Effectors : Quiet(f) /\ f \notin backdated' /\ registry'[f] # None
           => registry'[f].remaining <= effector[f].remaining
  PROVE  StockInv'
  <1>1. reserved' = [f \in Effectors |-> IF f \in {} THEN None ELSE reserved[f]]
    BY DEF Typed, MaterielTypeOK
  <1>2. PICK k \in {0, 1} : /\ Len(uplink') = Len(uplink) - k /\ Len(uplink') \in Nat
                            /\ \A i \in 1..Len(uplink') : uplink'[i] = uplink[i + k]
    BY ShiftFacts, StillFacts
  <1>3. {} \in SUBSET Effectors
    OBVIOUS
  <1> QED
    BY <1>1, <1>2, <1>3, RelaxStep

\* Statuses replaced by what the node already knew to be no more.
LEMMA NoMoreKnown ==
  ASSUME Typed, StockInv,
         \A f \in Effectors : registry'[f] # None =>
           registry[f] # None /\ registry'[f].remaining <= registry[f].remaining,
         \A f \in Effectors : registry'[f] # None => registry'[f].remaining \in Int,
         UNCHANGED backdated
  PROVE  \A f \in Effectors : Quiet(f) /\ f \notin backdated' /\ registry'[f] # None
           => registry'[f].remaining <= effector[f].remaining
  <1> SUFFICES ASSUME NEW f \in Effectors, Quiet(f), f \notin backdated', registry'[f] # None
               PROVE  registry'[f].remaining <= effector[f].remaining
    OBVIOUS
  <1>1. registry[f].remaining <= effector[f].remaining
    BY DEF StockInv, QuietIsHonest
  <1>2. registry[f] \in MaterielStatus
    BY ConstantFacts DEF Typed, MaterielTypeOK
  <1>3. registry[f].remaining \in Int /\ effector[f].remaining \in Int
    BY <1>2, ConstantFacts DEF MaterielStatus, Typed, MaterielTypeOK
  <1> QED
    BY <1>1, <1>3

\* The steps that leave commands, and counts of free effectors, as they are.
LEMMA QuietSteps ==
  ASSUME Typed, StockInv,
         \/ \E c \in Components : Lapse(c) \/ Post(c)
         \/ Supervise \/ SinkChanges \/ TickReports \/ LoseMessage
         \/ \E e \in Engagements : ConsumeToken(e) \/ Deny(e) \/ \E f \in Effectors : Submit(e, f)
  PROVE  StockInv'
  <1>1. /\ effector' = effector /\ reserved' = reserved /\ orders' \subseteq orders
        /\ uplink' = uplink \/ (uplink # <<>> /\ uplink' = Tail(uplink))
        /\ backdated' = backdated
    BY DEF Lapse, Post, Supervise, SinkChanges, TickReports, LoseMessage, ConsumeToken, Deny,
       Submit, registryVars, commandVars, linkVars
  <1>2. ASSUME NEW e \in Engagements
        PROVE  /\ calls[e].pc \in {"publishing", "done"} => calls'[e].pc \in {"publishing", "done"}
               /\ calls[e].pc = "unsent" => calls'[e].pc \in {"unsent", "done"}
               /\ calls'[e].pc = "unsent" => calls[e].pc = "unsent" /\ calls'[e].effector = calls[e].effector
    <2>1. CASE UNCHANGED calls
      BY <2>1
    <2>2. CASE \E d \in Engagements : Deny(d)
      <3>1. PICK d \in Engagements : Close(d)
        BY <2>2 DEF Deny
      <3> QED
        BY <3>1, CloseFacts
    <2>3. CASE \E d \in Engagements, f \in Effectors : Submit(d, f)
      <3>1. PICK d \in Engagements, f \in Effectors : Submit(d, f)
        BY <2>3
      <3>2. calls[d].pc = "idle" /\ calls' = [calls EXCEPT ![d] =
              [pc |-> "waiting", effector |-> f, captured |-> Attached]]
        BY <3>1 DEF Submit
      <3>3. d # e => calls'[e] = calls[e]
        BY <3>2 DEF Typed, MaterielTypeOK
      <3>4. d = e => calls'[e].pc = "waiting"
        BY <3>2 DEF Typed, MaterielTypeOK
      <3> QED
        BY <3>2, <3>3, <3>4
    <2> QED
      BY <2>1, <2>2, <2>3 DEF Lapse, Post, Supervise, SinkChanges, TickReports, LoseMessage,
         ConsumeToken, commandVars
  <1>3. \A c \in Components : /\ (registry'[c] = None) <=> (registry[c] = None)
                              /\ registry[c] # None => registry'[c].remaining = registry[c].remaining
    <2>1. CASE UNCHANGED registry
      BY <2>1
    <2>2. CASE Supervise
      BY <2>2, ExpiryStep DEF Supervise, commandVars
    <2>3. CASE \E d \in Engagements, f \in Effectors : Submit(d, f)
      <3>1. ExpireAll
        BY <2>3 DEF Submit
      <3>2. registry' = Offline(lapsed) /\ lapsed \subseteq {c \in Components : registry[c] # None}
        BY <3>1 DEF ExpireAll, Typed, RegistryKnown
      <3> QED
        BY <3>2, OfflineType
    <2> QED
      BY <2>1, <2>2, <2>3 DEF Lapse, Post, SinkChanges, TickReports, LoseMessage, ConsumeToken, Deny,
         registryVars
  <1>4. ASSUME NEW f \in Effectors, registry'[f] # None
        PROVE  /\ registry[f] # None /\ registry'[f].remaining <= registry[f].remaining
               /\ registry'[f].remaining \in Int
    <2>1. f \in Components /\ registry[f] # None /\ registry'[f].remaining = registry[f].remaining
      BY <1>3, <1>4, ConstantFacts
    <2>2. registry[f] \in MaterielStatus
      BY <2>1 DEF Typed, MaterielTypeOK
    <2> QED
      BY <2>1, <2>2, ConstantFacts DEF MaterielStatus
  <1> QED
    BY <1>1, <1>2, <1>4, NoMoreKnown, SlideStep

\* A status object installed in place of another, whose count is honest where it
\* has to be.
LEMMA InstallStock ==
  ASSUME Typed, StockInv, NEW c \in Components, NEW status \in MaterielStatus,
         Install(c, status), backdated' \ {c} = backdated \ {c},
         c \in Effectors /\ c \notin backdated' /\ Quiet(c) =>
           status.remaining <= effector[c].remaining,
         uplink' = uplink \/ (uplink # <<>> /\ uplink' = Tail(uplink)),
         UNCHANGED <<effector, reserved, orders>>
  PROVE  StockInv'
  <1>1. /\ registry' = [registry EXCEPT ![c] = status] /\ calls' = Detached(c)
    BY DEF Install
  <1>2. \A f \in Effectors : Quiet(f) /\ f \notin backdated' /\ registry'[f] # None
          => registry'[f].remaining <= effector[f].remaining
    <2> SUFFICES ASSUME NEW f \in Effectors, Quiet(f), f \notin backdated', registry'[f] # None
                 PROVE  registry'[f].remaining <= effector[f].remaining
      OBVIOUS
    <2>1. CASE f = c
      BY <1>1, <2>1 DEF Typed, MaterielTypeOK
    <2>2. CASE f # c
      <3>1. registry'[f] = registry[f] /\ f \notin backdated
        BY <1>1, <2>2, ConstantFacts DEF Typed, MaterielTypeOK
      <3> QED
        BY <3>1 DEF StockInv, QuietIsHonest
    <2> QED
      BY <2>1, <2>2
  <1> QED
    BY <1>1, <1>2, DetachedType, SlideStep

\* A registration that is not outdated says no more than the effector holds.
LEMMA RegisterStock ==
  ASSUME Typed, StockInv, NEW q \in posts, Register(q) PROVE StockInv'
  <1>1. q.component \in Components /\ q.status \in MaterielStatus
    BY DEF Typed, MaterielTypeOK, StatusReport
  <1>2. /\ Install(q.component, q.status)
        /\ backdated' \ {q.component} = backdated \ {q.component}
        /\ q.component \notin backdated' => ~Outdated(q.component, q.status)
        /\ UNCHANGED <<effector, reserved, orders, uplink>>
    BY DEF Register
  <1>3. q.component \in Effectors =>
          q.status.remaining \in Int /\ effector[q.component].remaining \in Int
    BY <1>1, ConstantFacts DEF MaterielStatus, Typed, MaterielTypeOK
  <1>4. q.component \in Effectors /\ q.component \notin backdated' =>
          q.status.remaining <= effector[q.component].remaining
    BY <1>2, <1>3 DEF Outdated
  <1> QED
    BY <1>1, <1>2, <1>4, InstallStock

\* A second copy of a status counts as later only after an outdated registration.
LEMMA RedeliverStock ==
  ASSUME Typed, StockInv, CopiesAreOld, NEW d \in delivered, Redeliver(d) PROVE StockInv'
  <1> DEFINE c == d.component
             status == d.status
  <1>1. c \in Components /\ status \in MaterielStatus
    BY DEF Typed, MaterielTypeOK, StatusReport
  <1>2. ReceiveMaterielStatus(c, status) /\ UNCHANGED <<effector, reserved, orders, uplink>>
    BY DEF Redeliver, linkVars
  <1>3. /\ registry[c] # None /\ registry[c] \in MaterielStatus
        /\ c \notin backdated => status.reported <= registry[c].reported
    BY <1>1 DEF CopiesAreOld, Typed, MaterielTypeOK
  <1>4. CASE Valid(c, status) /\ Later(c, status)
    <2>1. /\ Install(c, status)
          /\ backdated' = IF Outdated(c, status) THEN backdated ELSE backdated \ {c}
      BY <1>2, <1>4 DEF ReceiveMaterielStatus
    <2>2. c \in backdated
      BY <1>1, <1>3, <1>4 DEF Later, MaterielStatus
    <2>3. c \in Effectors => status.remaining \in Int /\ effector[c].remaining \in Int
      BY <1>1, ConstantFacts DEF MaterielStatus, Typed, MaterielTypeOK
    <2>4. c \in Effectors /\ c \notin backdated' => status.remaining <= effector[c].remaining
      BY <2>1, <2>2, <2>3 DEF Outdated
    <2> HIDE DEF c, status
    <2>5. backdated' \ {c} = backdated \ {c}
      BY <2>1
    <2> QED
      BY <1>1, <1>2, <2>1, <2>4, <2>5, InstallStock
  <1>5. CASE ~(Valid(c, status) /\ Later(c, status))
    <2>1. UNCHANGED <<registryVars, calls>>
      BY <1>2, <1>5 DEF ReceiveMaterielStatus
    <2> QED
      BY <1>2, <2>1, SlideStep DEF registryVars, StockInv, QuietIsHonest
  <1> QED
    BY <1>4, <1>5

LEMMA ReceiveStock ==
  ASSUME Typed, StockInv, Receive PROVE StockInv'
  <1> DEFINE m == Head(uplink)
  <1>1. /\ uplink # <<>> /\ uplink' = Tail(uplink)
        /\ UNCHANGED <<orders, effector>>
    BY DEF Receive
  <1>2. /\ m = uplink[1] /\ 1 \in 1..Len(uplink) /\ m \in Message
        /\ Len(uplink') = Len(uplink) - 1 /\ Len(uplink') \in Nat
        /\ \A i \in 1..Len(uplink') : uplink'[i] = uplink[i + 1] /\ i + 1 \in 1..Len(uplink)
    BY <1>1, ShiftFacts DEF Typed, MaterielTypeOK
  <1> HIDE DEF m
  \* The head of the connection is honest of an effector nobody commands.
  <1>3. \A f \in Effectors : Quiet(f) =>
          /\ (f \notin backdated /\ registry[f] # None) =>
               registry[f].remaining <= effector[f].remaining
          /\ Tells(m, f) => Count(m) <= effector[f].remaining
    BY <1>2 DEF StockInv, QuietIsHonest, HonestFrom
  <1>4. CASE UNCHANGED <<registryVars, reserved, calls>>
    BY <1>1, <1>3, <1>4, SlideStep DEF registryVars
  <1>5. ASSUME m.kind = "status", ReceiveMaterielStatus(m.component, m.status),
               UNCHANGED reserved
        PROVE  StockInv'
    <2>1. m.component \in Components /\ m.status \in MaterielStatus
      BY <1>2, <1>5 DEF Message
    <2>2. CASE UNCHANGED <<registryVars, calls>>
      BY <1>4, <1>5, <2>2
    <2>3. CASE Valid(m.component, m.status) /\ Later(m.component, m.status)
      <3>1. /\ Install(m.component, m.status)
            /\ backdated' \ {m.component} = backdated \ {m.component}
        BY <1>5, <2>3 DEF ReceiveMaterielStatus
      <3>2. m.component \in Effectors /\ Quiet(m.component) =>
              m.status.remaining <= effector[m.component].remaining
        BY <1>3, <1>5 DEF Tells, Count
      <3> QED
        BY <1>1, <1>5, <2>1, <3>1, <3>2, InstallStock
    <2> QED
      BY <1>5, <2>2, <2>3 DEF ReceiveMaterielStatus
  <1>6. ASSUME m.kind = "engagement", ApplyReport(m), UNCHANGED <<backdated, calls>>
        PROVE  StockInv'
    <2>1. /\ m.effector \in Effectors /\ m.engagement \in Engagements
          /\ m.remaining \in 0..Capacity
          /\ m.state # "ACCEPTED" => LastWord(m)
          /\ Count(m) = m.remaining /\ Tells(m, m.effector)
          /\ Answers(m, m.engagement, m.effector)
      BY <1>2, <1>6 DEF Message, LastWord, Count, Tells, Answers
    <2>2. ASSUME NEW f \in Effectors
          PROVE  /\ registry'[f] # None => registry[f] # None
                 /\ f # m.effector => registry'[f] = registry[f]
                 /\ f = m.effector /\ registry'[f] # None => registry'[f].remaining = Count(m)
      <3>1. f \in Components
        BY ConstantFacts
      <3>2. CASE registry[m.effector] = None
        BY <1>6, <3>2 DEF ApplyReport
      <3>3. CASE registry[m.effector] # None
        <4>1. registry' = [registry EXCEPT ![m.effector].remaining = m.remaining]
          BY <1>6, <3>3 DEF ApplyReport
        <4>2. registry[m.effector] \in MaterielStatus
          BY <2>1, <3>3, ConstantFacts DEF Typed, MaterielTypeOK
        <4> QED
          BY <2>1, <3>1, <3>3, <4>1, <4>2 DEF MaterielStatus, Typed, MaterielTypeOK
      <3> QED
        BY <3>2, <3>3
    <2>3. CASE reserved' = reserved
      <3>1. \A f \in Effectors : Quiet(f) /\ f \notin backdated' /\ registry'[f] # None
              => registry'[f].remaining <= effector[f].remaining
        BY <1>3, <1>6, <2>1, <2>2
      <3> QED
        BY <1>1, <1>6, <2>3, <3>1, SlideStep
    <2>4. CASE reserved' # reserved
      <3> DEFINE f == m.effector
      <3>1. /\ reserved' = [g \in Effectors |-> IF g \in {f} THEN None ELSE reserved[g]]
            /\ LastWord(m)
        <4>1. /\ reserved' = [reserved EXCEPT ![f] =
                   IF m.state # "ACCEPTED" /\ @ = m.engagement THEN None ELSE @]
              /\ reserved \in [Effectors -> Engagements \cup {None}]
          BY <1>6 DEF ApplyReport, Typed, MaterielTypeOK
        <4>2. CASE m.state # "ACCEPTED" /\ reserved[f] = m.engagement
          BY <2>1, <4>1, <4>2
        <4>3. CASE ~(m.state # "ACCEPTED" /\ reserved[f] = m.engagement)
          <5>1. reserved' = [reserved EXCEPT ![f] = reserved[f]]
            BY <4>1, <4>3
          <5>2. reserved' = reserved
            BY <4>1, <5>1
          <5> QED
            BY <2>4, <5>2
        <4> QED
          BY <4>2, <4>3
      <3>2. /\ reserved[f] = m.engagement /\ effector[f].active = None /\ Sent(m.engagement)
            /\ \A j \in 1..Len(uplink) : Tells(uplink[j], f) => Count(uplink[j]) <= effector[f].remaining
            /\ \A j \in 2..Len(uplink) : ~Answers(uplink[j], m.engagement, f)
        BY <1>2, <3>1, <1>6 DEF StockInv, LastWordsHonest, HonestFrom
      <3>3. \A o \in orders : o.effector # f
        BY <1>2, <2>1, <3>2 DEF StockInv, OrdersReserved
      <3>4. ASSUME NEW i \in 1..Len(uplink')
            PROVE  /\ Tells(uplink'[i], f) => Count(uplink'[i]) <= effector[f].remaining
                   /\ LastWord(uplink'[i]) => uplink'[i].effector # f
        <4>1. i + 1 \in 2..Len(uplink) /\ i + 1 \in 1..Len(uplink) /\ uplink'[i] = uplink[i + 1]
          BY <1>2
        <4>2. LastWord(uplink[i + 1]) /\ uplink[i + 1].effector = f
                => reserved[f] = uplink[i + 1].engagement
          BY <4>1 DEF StockInv, LastWordsHonest
        <4>3. ~Answers(uplink[i + 1], m.engagement, f)
          BY <3>2, <4>1
        <4> QED
          BY <3>2, <4>1, <4>2, <4>3 DEF Answers, LastWord
      <3>5. \A e \in Engagements : calls[e].pc = "unsent" => calls[e].effector # f
        BY <2>1, <3>2 DEF StockInv, CommandsReserved, Sent
      <3>6. \A g \in Effectors : (g \in {f} \/ Quiet(g)) /\ g \notin backdated' /\ registry'[g] # None
              => registry'[g].remaining <= effector[g].remaining
        BY <1>2, <1>3, <1>6, <2>1, <2>2, <3>2
      <3>7. {f} \in SUBSET Effectors
        BY <2>1
      <3> HIDE DEF f
      <3> QED
        BY <1>1, <1>2, <1>6, <3>1, <3>2, <3>3, <3>4, <3>5, <3>6, <3>7, RelaxStep
    <2> QED
      BY <2>3, <2>4
  <1> QED
    BY <1>4, <1>5, <1>6 DEF Receive, m

LEMMA FinishStock ==
  ASSUME Typed, StockInv, NEW e \in Engagements, Finish(e) PROVE StockInv'
  <1> DEFINE f == calls[e].effector
  <1>1. /\ calls[e].pc \in {"publishing", "unsent"} /\ Close(e)
        /\ UNCHANGED <<orders, uplink, effector>>
    BY DEF Finish, linkVars
  <1>2. f \in Effectors /\ f \in Components /\ registry[f] \in MaterielStatus
    BY <1>1, ConstantFacts DEF Typed, MaterielTypeOK, RegistryKnown
  <1>3. ASSUME NEW d \in Engagements
        PROVE  /\ calls[d].pc \in {"publishing", "done"} => calls'[d].pc \in {"publishing", "done"}
               /\ calls[d].pc = "unsent" => calls'[d].pc \in {"unsent", "done"}
               /\ calls'[d].pc = "unsent" => /\ d # e /\ calls[d].pc = "unsent"
                                             /\ calls'[d].effector = calls[d].effector
    BY <1>1, CloseFacts
  <1>4. CASE Decrement(e) /\ UNCHANGED <<ledger, reserved>>
    <2>1. ASSUME NEW g \in Effectors, registry'[g] # None
          PROVE  /\ registry[g] # None /\ registry'[g].remaining <= registry[g].remaining
                 /\ registry'[g].remaining \in Int
      <3>1. g \in Components
        BY ConstantFacts
      <3>2. CASE g # f \/ calls[e].captured # Attached
        <4>1. registry'[g] = registry[g]
          BY <1>4, <3>1, <3>2 DEF Decrement, Typed, MaterielTypeOK
        <4>2. registry[g] \in MaterielStatus
          BY <2>1, <3>1, <4>1 DEF Typed, MaterielTypeOK
        <4> QED
          BY <2>1, <4>1, <4>2, ConstantFacts DEF MaterielStatus
      <3>3. CASE g = f /\ calls[e].captured = Attached
        <4>1. registry'[g] = Decremented(registry[g])
          BY <1>4, <3>1, <3>3 DEF Decrement, Typed, MaterielTypeOK
        <4>2. registry[g].remaining \in Int
          BY <1>2, <3>3, ConstantFacts DEF MaterielStatus
        <4>3. CASE registry[g].remaining = 0
          BY <1>2, <3>3, <4>1, <4>2, <4>3, ConstantFacts DEF Decremented
        <4>4. CASE registry[g].remaining # 0
          <5>1. registry'[g].remaining = registry[g].remaining - 1
            BY <1>2, <3>3, <4>1, <4>4 DEF Decremented, MaterielStatus
          <5> QED
            BY <1>2, <3>3, <4>2, <5>1, ConstantFacts
        <4> QED
          BY <4>3, <4>4
      <3> QED
        BY <3>2, <3>3
    <2> QED
      BY <1>1, <1>3, <1>4, <2>1, NoMoreKnown, SlideStep DEF Decrement
  <1>5. CASE UNCHANGED <<registryVars, ledger, reserved>>
    BY <1>1, <1>3, <1>5, SlideStep DEF registryVars, StockInv, QuietIsHonest
  <1>6. CASE /\ calls[e].pc = "unsent" /\ reserved' = [reserved EXCEPT ![f] = None]
             /\ UNCHANGED registryVars
    <2>1. reserved[f] = e /\ Quiet(f)
      BY <1>6 DEF StockInv, CommandsReserved, Quiet
    <2>2. reserved' = [g \in Effectors |-> IF g \in {f} THEN None ELSE reserved[g]]
      BY <1>6 DEF Typed, MaterielTypeOK
    <2>3. ~Sent(e)
      BY <1>6 DEF Sent
    <2>4. effector[f].active = None
      BY <1>2, <2>1, <2>3 DEF StockInv, CommandsReserved
    <2>5. \A o \in orders : o.effector # f
      BY <2>1, <2>3 DEF StockInv, OrdersReserved
    <2>6. \A i \in 1..Len(uplink') :
            /\ Tells(uplink'[i], f) => Count(uplink'[i]) <= effector[f].remaining
            /\ LastWord(uplink'[i]) => uplink'[i].effector # f
      BY <1>1, <1>2, <2>1, <2>3
      DEF StockInv, QuietIsHonest, HonestFrom, LastWordsHonest, LastWord
    <2>7. \A d \in Engagements : d # e /\ calls[d].pc = "unsent" => calls[d].effector # f
      BY <2>1 DEF StockInv, CommandsReserved
    <2>8. \A g \in Effectors : (g \in {f} \/ Quiet(g)) /\ g \notin backdated' /\ registry'[g] # None
            => registry'[g].remaining <= effector[g].remaining
      BY <1>6, <2>1 DEF registryVars, StockInv, QuietIsHonest
    <2>9. {f} \in SUBSET Effectors /\ effector' = effector /\ orders' \subseteq orders
      BY <1>1, <1>2
    <2> HIDE DEF f
    <2> QED
      BY <1>1, <1>3, <2>2, <2>4, <2>5, <2>6, <2>7, <2>8, <2>9, StillFacts, RelaxStep
  <1> QED
    BY <1>4, <1>5, <1>6 DEF Finish

\* A request takes an effector that is free, and on which nothing is left of it.
LEMMA ReleaseStock ==
  ASSUME Typed, StockInv, NEW e \in Engagements, Release(e) PROVE StockInv'
  <1> DEFINE f == calls[e].effector
  <1>1. /\ calls[e].pc = "waiting" /\ reserved[f] = None
        /\ reserved' = [reserved EXCEPT ![f] = e]
        /\ UNCHANGED <<registryVars, uplink, effector>>
    BY DEF Release, linkVars
  <1>2. f \in Effectors
    BY <1>1 DEF Typed, RegistryKnown
  <1>3. PICK pc \in {"publishing", "unsent"} :
          /\ calls' = [calls EXCEPT ![e].pc = pc]
          /\ orders' \subseteq orders \cup {[engagement |-> e, effector |-> f]}
          /\ pc = "unsent" => orders' = orders
    BY DEF Release
  <1>4. /\ calls'[e].pc = pc /\ calls'[e].effector = f
        /\ \A d \in Engagements : d # e => calls'[d] = calls[d]
        /\ reserved'[f] = e /\ \A g \in Effectors : g # f => reserved'[g] = reserved[g]
    BY <1>1, <1>2, <1>3, MoveFacts DEF Typed, MaterielTypeOK
  <1>5. ~Sent(e) /\ Quiet(f)
    BY <1>1 DEF Sent, Quiet
  <1>6. \A d \in Engagements : Sent(d) => d # e /\ calls'[d].pc \in {"publishing", "done"}
    BY <1>4, <1>5 DEF Sent
  <1>7. /\ effector \in [Effectors -> EffectorState]
        /\ orders \subseteq [engagement : Engagements, effector : Effectors]
        /\ \A i \in 1..Len(uplink) : uplink[i] \in Message
        /\ UNCHANGED <<registry, backdated, uplink, effector>>
    BY <1>1 DEF Typed, MaterielTypeOK, EffectorState, registryVars
  <1> HIDE DEF f
  <1>8. effector[f].active = None
    BY <1>1, <1>2, <1>7, ConstantFacts DEF StockInv, CommandsReserved, EffectorState
  <1>9. CommandsReserved'
    <2>1. ASSUME NEW g \in Effectors, effector[g].active # None
          PROVE  /\ reserved'[g] = effector[g].active
                 /\ calls'[effector[g].active].pc \in {"publishing", "done"}
      <3>1. /\ g # f /\ reserved[g] = effector[g].active /\ Sent(effector[g].active)
            /\ effector[g].active \in Engagements
        BY <1>7, <1>8, <2>1 DEF StockInv, CommandsReserved, EffectorState
      <3> QED
        BY <1>4, <1>6, <3>1
    <2>2. ASSUME NEW d \in Engagements, calls'[d].pc = "unsent"
          PROVE  reserved'[calls'[d].effector] = d
      <3>1. CASE d = e
        BY <1>4, <3>1
      <3>2. CASE d # e
        <4>1. /\ calls[d].pc = "unsent" /\ calls'[d].effector = calls[d].effector
              /\ calls[d].effector \in Effectors
              /\ reserved[calls[d].effector] = d
          BY <1>4, <2>2, <3>2 DEF StockInv, CommandsReserved, Typed, RegistryKnown
        <4> QED
          BY <1>1, <1>4, <4>1, ConstantFacts
      <3> QED
        BY <3>1, <3>2
    <2>3. ASSUME NEW g \in Effectors, reserved'[g] # None
          PROVE  calls'[reserved'[g]].pc \in {"publishing", "unsent", "done"}
      <3>1. CASE g = f
        BY <1>3, <1>4, <3>1
      <3>2. CASE g # f
        <4>1. /\ reserved'[g] = reserved[g] /\ reserved[g] \in Engagements
              /\ calls[reserved[g]].pc \in {"publishing", "unsent", "done"}
          BY <1>4, <2>3, <3>2 DEF StockInv, CommandsReserved, Typed, MaterielTypeOK
        <4> QED
          BY <1>1, <1>4, <4>1
      <3> QED
        BY <3>1, <3>2
    <2> QED
      BY <1>7, <2>1, <2>2, <2>3 DEF CommandsReserved, Sent
  <1>10. \A i \in 1..Len(uplink) :
           /\ uplink[i].kind = "engagement" => uplink[i].engagement # e
           /\ LastWord(uplink[i]) => uplink[i].effector # f
    BY <1>1, <1>5, <1>7, ConstantFacts DEF StockInv, LastWordsHonest, LastWord, Message
  <1>11. OrdersReserved'
    <2> SUFFICES ASSUME NEW o \in orders'
                 PROVE  /\ reserved'[o.effector] = o.engagement
                        /\ calls'[o.engagement].pc \in {"publishing", "done"}
                        /\ effector[o.effector].active = None
                        /\ \A i \in 1..Len(uplink) :
                             ~Answers(uplink[i], o.engagement, o.effector)
      BY <1>7 DEF OrdersReserved, Sent
    <2>1. CASE o \in orders
      <3>1. /\ reserved[o.effector] = o.engagement /\ Sent(o.engagement)
            /\ effector[o.effector].active = None
            /\ \A i \in 1..Len(uplink) : ~Answers(uplink[i], o.engagement, o.effector)
            /\ o.engagement \in Engagements /\ o.effector \in Effectors
        BY <1>7, <2>1 DEF StockInv, OrdersReserved
      <3> QED
        BY <1>1, <1>4, <1>6, <3>1, ConstantFacts
    <2>2. CASE o \notin orders
      <3>1. o = [engagement |-> e, effector |-> f] /\ pc = "publishing"
        BY <1>3, <2>2
      <3> QED
        BY <1>4, <1>8, <1>10, <3>1 DEF Answers
    <2> QED
      BY <2>1, <2>2
  <1>12. LastWordsHonest'
    <2>1. ASSUME NEW i \in 1..Len(uplink), uplink[i].kind = "engagement"
          PROVE  calls'[uplink[i].engagement].pc \in {"publishing", "done"}
      BY <1>6, <1>7, <2>1 DEF StockInv, LastWordsHonest, Message
    <2>2. ASSUME NEW i \in 1..Len(uplink), LastWord(uplink[i])
          PROVE  /\ reserved'[uplink[i].effector] = uplink[i].engagement
                 /\ effector[uplink[i].effector].active = None
                 /\ HonestFrom(i, uplink[i].effector)
                 /\ \A j \in (i + 1)..Len(uplink) :
                      ~Answers(uplink[j], uplink[i].engagement, uplink[i].effector)
      <3>1. uplink[i].effector \in Effectors
        BY <1>7, <2>2 DEF LastWord, Message
      <3> QED
        BY <1>4, <1>10, <2>2, <3>1 DEF StockInv, LastWordsHonest
    <2> QED
      BY <1>7, <2>1, <2>2 DEF LastWordsHonest, HonestFrom, Sent
  <1>13. QuietIsHonest'
    <2> SUFFICES ASSUME NEW g \in Effectors
                 PROVE  /\ (g \notin backdated /\ registry[g] # None) =>
                             registry[g].remaining <= effector[g].remaining
                        /\ HonestFrom(1, g)
                        \/ ~(reserved'[g] = None \/ calls'[reserved'[g]].pc = "unsent")
      BY <1>7 DEF QuietIsHonest, Quiet, HonestFrom
    <2>1. CASE Quiet(g)
      BY <2>1 DEF StockInv, QuietIsHonest
    <2>2. CASE ~Quiet(g)
      <3>1. g # f /\ reserved'[g] = reserved[g] /\ reserved[g] \in Engagements \cup {None}
        BY <1>4, <1>5, <2>2 DEF Typed, MaterielTypeOK
      <3>2. reserved[g] # e
        BY <1>1, <2>2, <3>1 DEF Quiet, StockInv, CommandsReserved
      <3> QED
        BY <1>4, <2>2, <3>1, <3>2 DEF Quiet
    <2> QED
      BY <2>1, <2>2
  <1> QED
    BY <1>9, <1>11, <1>12, <1>13 DEF StockInv

\* A status of what the effector holds changes nothing that matters.
LEMMA NewsStep ==
  ASSUME Typed, StockInv, NEW m \in Message, uplink' = Append(uplink, m),
         m.kind = "status",
         m.component \in Effectors => m.status.remaining <= effector[m.component].remaining,
         UNCHANGED <<registry, backdated, reserved, calls, orders, effector>>
  PROVE  StockInv'
  <1> DEFINE n == Len(uplink)
  <1>1. /\ n \in Nat /\ Len(uplink') = n + 1 /\ uplink'[n + 1] = m
        /\ \A i \in 1..n : uplink'[i] = uplink[i]
    BY DEF Typed, MaterielTypeOK
  <1>2. /\ ~LastWord(m) /\ \A e, f : ~Answers(m, e, f)
        /\ \A f \in Effectors : Tells(m, f) => Count(m) <= effector[f].remaining
    BY DEF LastWord, Answers, Tells, Count
  <1> HIDE DEF n
  <1>3. \A i \in 1..Len(uplink') : i \in 1..n \/ i = n + 1
    BY <1>1
  <1>4. CommandsReserved'
    BY DEF StockInv, CommandsReserved, Sent
  <1>5. OrdersReserved'
    <2> SUFFICES ASSUME NEW o \in orders, NEW i \in 1..Len(uplink')
                 PROVE  ~Answers(uplink'[i], o.engagement, o.effector)
      BY DEF StockInv, OrdersReserved, Sent
    <2> QED
      BY <1>1, <1>2, <1>3 DEF StockInv, OrdersReserved, n
  <1>6. LastWordsHonest'
    <2> SUFFICES ASSUME NEW i \in 1..Len(uplink')
                 PROVE  /\ uplink'[i].kind = "engagement" => Sent(uplink'[i].engagement)
                        /\ LastWord(uplink'[i]) =>
                             /\ reserved[uplink'[i].effector] = uplink'[i].engagement
                             /\ effector[uplink'[i].effector].active = None
                             /\ \A j \in i..Len(uplink') : Tells(uplink'[j], uplink'[i].effector)
                                  => Count(uplink'[j]) <= effector[uplink'[i].effector].remaining
                             /\ \A j \in (i + 1)..Len(uplink') :
                                  ~Answers(uplink'[j], uplink'[i].engagement, uplink'[i].effector)
      BY DEF LastWordsHonest, HonestFrom, Sent
    <2>1. CASE i = n + 1
      BY <1>1, <1>2, <2>1
    <2>2. CASE i \in 1..n
      <3> DEFINE f == uplink[i].effector
      <3>1. uplink'[i] = uplink[i]
        BY <1>1, <2>2
      <3>2. /\ uplink[i].kind = "engagement" => Sent(uplink[i].engagement)
            /\ LastWord(uplink[i]) =>
                 /\ reserved[f] = uplink[i].engagement /\ effector[f].active = None
                 /\ f \in Effectors
                 /\ \A j \in i..n : Tells(uplink[j], f) => Count(uplink[j]) <= effector[f].remaining
                 /\ \A j \in (i + 1)..n : ~Answers(uplink[j], uplink[i].engagement, f)
        <4>1. uplink[i] \in Message
          BY <2>2 DEF n, Typed, MaterielTypeOK
        <4>2. LastWord(uplink[i]) => f \in Effectors
          BY <4>1 DEF LastWord, Message
        <4> QED
          BY <2>2, <4>2 DEF n, StockInv, LastWordsHonest, HonestFrom
      <3>3. \A j \in i..Len(uplink') : (j \in i..n /\ uplink'[j] = uplink[j]) \/ uplink'[j] = m
        BY <1>1, <2>2
      <3>4. \A j \in (i + 1)..Len(uplink') : (j \in (i + 1)..n /\ uplink'[j] = uplink[j]) \/ uplink'[j] = m
        BY <1>1, <2>2
      <3> HIDE DEF f
      <3>5. LastWord(uplink[i]) =>
              /\ \A j \in i..Len(uplink') : Tells(uplink'[j], f) => Count(uplink'[j]) <= effector[f].remaining
              /\ \A j \in (i + 1)..Len(uplink') : ~Answers(uplink'[j], uplink[i].engagement, f)
        BY <1>2, <3>2, <3>3, <3>4
      <3> QED
        BY <3>1, <3>2, <3>5 DEF f
    <2> QED
      BY <1>3, <2>1, <2>2
  <1>7. QuietIsHonest'
    <2> SUFFICES ASSUME NEW f \in Effectors, Quiet(f), NEW j \in 1..Len(uplink'),
                        Tells(uplink'[j], f)
                 PROVE  Count(uplink'[j]) <= effector[f].remaining
      BY DEF StockInv, QuietIsHonest, Quiet, HonestFrom
    <2> QED
      BY <1>1, <1>2, <1>3 DEF n, StockInv, QuietIsHonest, HonestFrom
  <1> QED
    BY <1>4, <1>5, <1>6, <1>7 DEF StockInv

LEMMA ReportStatusStock ==
  ASSUME Typed, StockInv, NEW c \in Components, ReportStatus(c) PROVE StockInv'
  <1> DEFINE m == [kind |-> "status", component |-> c, status |-> StatusOf(c)]
  <1>1. /\ m \in Message /\ m.kind = "status" /\ m.component = c
        /\ m.status.remaining = StatusOf(c).remaining
    BY StatusOfType DEF Message
  <1>2. c \in Effectors => effector[c].remaining \in Int
    BY ConstantFacts DEF Typed, MaterielTypeOK
  <1>3. uplink' = Append(uplink, m) /\ UNCHANGED <<registry, backdated, reserved, calls, orders, effector>>
    BY DEF ReportStatus, registryVars, commandVars
  <1> HIDE DEF m
  <1> QED
    BY <1>1, <1>2, <1>3, StatusOfType, NewsStep

LEMMA ReportHoldStock ==
  ASSUME Typed, StockInv, NEW f \in Effectors, ReportHold(f) PROVE StockInv'
  <1> DEFINE x == [effector[f] EXCEPT !.readiness = "WEAPONS_HOLD"]
             m == StatusMessage(f, reportTime, x)
  <1>1. /\ x \in EffectorState /\ x.remaining = effector[f].remaining
        /\ effector[f].remaining \in Int
    <2>1. effector[f] \in EffectorState
      BY DEF Typed, MaterielTypeOK, EffectorState
    <2>2. x \in EffectorState /\ x.remaining = effector[f].remaining
      BY <2>1 DEF EffectorState, Readiness
    <2> QED
      BY <2>1, <2>2, ConstantFacts DEF EffectorState
  <1>2. /\ uplink' = Append(uplink, m)
        /\ UNCHANGED <<registry, backdated, reserved, calls, orders, effector>>
    BY DEF ReportHold, registryVars, commandVars
  <1> HIDE DEF x
  <1>3. /\ m \in Message /\ m.kind = "status" /\ m.component = f
        /\ m.status.remaining = x.remaining
    BY <1>1, ConstantFacts DEF StatusMessage, Message, MaterielStatus, EffectorState, Typed,
       MaterielTypeOK
  <1> HIDE DEF m
  <1> QED
    BY <1>1, <1>2, <1>3, NewsStep

\* What emit() puts behind the messages that are on their way.
LEMMA EmitFacts ==
  ASSUME Typed, NEW e \in Engagements, NEW f \in Effectors, NEW state, NEW y \in EffectorState,
         Emit(e, f, state, y)
  PROVE  /\ effector' = [effector EXCEPT ![f] = y]
         /\ Len(uplink) \in Nat /\ Len(uplink') = Len(uplink) + 2
         /\ \A i \in 1..Len(uplink) : uplink'[i] = uplink[i] /\ uplink[i] \in Message
         /\ uplink'[Len(uplink) + 1] = [kind |-> "engagement", engagement |-> e,
              effector |-> f, state |-> state, remaining |-> y.remaining]
         /\ uplink'[Len(uplink) + 2] = StatusMessage(f, reportTime, y)
  BY DEF Emit, Typed, MaterielTypeOK

\* The commanded effector may report, and by its last word be free to be given
\* back, once none of its orders and no earlier last word is on its way.
LEMMA EmitStock ==
  ASSUME Typed, StockInv, NEW e \in Engagements, NEW f \in Effectors, NEW state,
         NEW y \in EffectorState, Emit(e, f, state, y),
         reserved[f] = e, Sent(e),
         \A i \in 1..Len(uplink) : LastWord(uplink[i]) => uplink[i].effector # f,
         y.active \in {None, e}, state # "ACCEPTED" => y.active = None,
         orders' \subseteq orders, \A o \in orders' : o.effector # f,
         UNCHANGED <<registry, backdated, reserved, calls>>
  PROVE  StockInv'
  <1> DEFINE n == Len(uplink)
             p == uplink'[n + 1]
             q == uplink'[n + 2]
  <1>1. /\ n \in Nat /\ Len(uplink') = n + 2
        /\ \A i \in 1..n : uplink'[i] = uplink[i] /\ uplink[i] \in Message
    BY EmitFacts
  <1>0. /\ effector' = [effector EXCEPT ![f] = y]
        /\ p = [kind |-> "engagement", engagement |-> e, effector |-> f, state |-> state,
                remaining |-> y.remaining]
        /\ q = StatusMessage(f, reportTime, y)
    BY EmitFacts
  <1>2. /\ p.kind = "engagement" /\ p.engagement = e /\ p.effector = f
        /\ p.state = state /\ p.remaining = y.remaining
        /\ q.kind = "status" /\ q.component = f /\ q.status.remaining = y.remaining
    BY <1>0 DEF StatusMessage
  <1>3. /\ effector'[f] = y
        /\ \A g \in Effectors : g # f => effector'[g] = effector[g]
    BY <1>0 DEF Typed, MaterielTypeOK
  <1> HIDE DEF p, q
  <1>4. /\ Tells(p, f) /\ Tells(q, f) /\ Count(p) = y.remaining /\ Count(q) = y.remaining
        /\ \A g \in Effectors : g # f => /\ ~Tells(p, g) /\ ~Tells(q, g)
                                        /\ \A d : ~Answers(p, d, g) /\ ~Answers(q, d, g)
        /\ \A d, g : ~Answers(q, d, g)
        /\ ~LastWord(q) /\ (LastWord(p) => y.active = None)
    BY <1>2 DEF Tells, Count, Answers, LastWord
  <1>5. ~Quiet(f) /\ y.remaining \in Int
    BY ConstantFacts DEF Quiet, Sent, EffectorState
  <1>6. ASSUME NEW i \in 1..Len(uplink')
        PROVE  i \in 1..n \/ i = n + 1 \/ i = n + 2
    BY <1>1
  <1>7. uplink'[n + 1] = p /\ uplink'[n + 2] = q
    BY DEF p, q
  <1>8. n = Len(uplink)
    OBVIOUS
  <1> HIDE DEF n
  <1>9. CommandsReserved'
    <2>1. ASSUME NEW g \in Effectors, effector'[g].active # None
          PROVE  reserved[g] = effector'[g].active /\ Sent(effector'[g].active)
      BY <1>3, <2>1 DEF StockInv, CommandsReserved
    <2> QED
      BY <2>1 DEF StockInv, CommandsReserved, Sent
  <1>10. OrdersReserved'
    <2> SUFFICES ASSUME NEW o \in orders'
                 PROVE  /\ reserved[o.effector] = o.engagement /\ Sent(o.engagement)
                        /\ effector'[o.effector].active = None
                        /\ \A i \in 1..Len(uplink') :
                             ~Answers(uplink'[i], o.engagement, o.effector)
      BY DEF OrdersReserved, Sent
    <2>1. o \in orders /\ o.effector \in Effectors /\ o.effector # f
      BY DEF Typed, MaterielTypeOK
    <2>2. /\ reserved[o.effector] = o.engagement /\ Sent(o.engagement)
          /\ effector[o.effector].active = None
          /\ \A i \in 1..n : ~Answers(uplink[i], o.engagement, o.effector)
      BY <1>8, <2>1 DEF StockInv, OrdersReserved
    <2>3. ASSUME NEW i \in 1..Len(uplink')
          PROVE  ~Answers(uplink'[i], o.engagement, o.effector)
      BY <1>1, <1>4, <1>6, <1>7, <2>1, <2>2
    <2> QED
      BY <1>3, <2>1, <2>2, <2>3
  <1>11. ASSUME NEW i \in 1..n, NEW g \in Effectors, g # f, HonestFrom(i, g)
         PROVE  \A j \in i..Len(uplink') : Tells(uplink'[j], g)
                  => Count(uplink'[j]) <= effector'[g].remaining
    <2> SUFFICES ASSUME NEW j \in i..Len(uplink'), Tells(uplink'[j], g)
                 PROVE  Count(uplink'[j]) <= effector'[g].remaining
      OBVIOUS
    <2>1. j \in 1..Len(uplink')
      BY <1>1
    <2>2. j \in 1..n
      BY <1>4, <1>6, <1>7, <1>11, <2>1
    <2> QED
      BY <1>1, <1>3, <1>8, <1>11, <2>2 DEF HonestFrom
  <1>12. LastWordsHonest'
    <2> SUFFICES ASSUME NEW i \in 1..Len(uplink')
                 PROVE  /\ uplink'[i].kind = "engagement" => Sent(uplink'[i].engagement)
                        /\ LastWord(uplink'[i]) =>
                             /\ reserved[uplink'[i].effector] = uplink'[i].engagement
                             /\ effector'[uplink'[i].effector].active = None
                             /\ \A j \in i..Len(uplink') : Tells(uplink'[j], uplink'[i].effector)
                                  => Count(uplink'[j]) <= effector'[uplink'[i].effector].remaining
                             /\ \A j \in (i + 1)..Len(uplink') :
                                  ~Answers(uplink'[j], uplink'[i].engagement, uplink'[i].effector)
      BY DEF LastWordsHonest, HonestFrom, Sent
    <2>1. CASE i = n + 2
      BY <1>2, <1>4, <1>7, <2>1
    <2>2. CASE i = n + 1
      <3>1. \A j \in i..Len(uplink') : uplink'[j] = p \/ uplink'[j] = q
        BY <1>1, <1>6, <1>7, <2>2
      <3>2. \A j \in (i + 1)..Len(uplink') : uplink'[j] = q
        BY <1>1, <1>7, <2>2
      <3>3. \A j \in i..Len(uplink') : Count(uplink'[j]) <= y.remaining
        BY <1>4, <1>5, <3>1
      <3> QED
        BY <1>2, <1>3, <1>4, <1>7, <2>2, <3>2, <3>3
    <2>3. CASE i \in 1..n
      <3> DEFINE g == uplink[i].effector
      <3>1. uplink'[i] = uplink[i] /\ uplink[i] \in Message
        BY <1>1, <2>3
      <3>2. uplink[i].kind = "engagement" => Sent(uplink[i].engagement)
        BY <1>8, <2>3 DEF StockInv, LastWordsHonest
      <3>3. ASSUME LastWord(uplink[i])
            PROVE  /\ reserved[g] = uplink[i].engagement
                   /\ effector'[g].active = None
                   /\ \A j \in i..Len(uplink') : Tells(uplink'[j], g)
                        => Count(uplink'[j]) <= effector'[g].remaining
                   /\ \A j \in (i + 1)..Len(uplink') : ~Answers(uplink'[j], uplink[i].engagement, g)
        <4>1. g \in Effectors /\ g # f
          BY <1>8, <2>3, <3>1, <3>3 DEF LastWord, Message
        <4>2. /\ reserved[g] = uplink[i].engagement /\ effector[g].active = None
              /\ HonestFrom(i, g)
              /\ \A j \in (i + 1)..n : ~Answers(uplink[j], uplink[i].engagement, g)
          BY <1>8, <2>3, <3>3 DEF StockInv, LastWordsHonest
        <4>3. \A j \in i..Len(uplink') : Tells(uplink'[j], g)
                => Count(uplink'[j]) <= effector'[g].remaining
          BY <1>11, <2>3, <4>1, <4>2
        <4> HIDE DEF g
        <4>4. ASSUME NEW j \in (i + 1)..Len(uplink')
              PROVE  ~Answers(uplink'[j], uplink[i].engagement, g)
          <5>1. j \in 1..Len(uplink')
            BY <1>1, <2>3
          <5>2. CASE j \in 1..n
            BY <1>1, <2>3, <4>2, <5>2
          <5>3. CASE j = n + 1 \/ j = n + 2
            BY <1>4, <1>7, <4>1, <5>3
          <5> QED
            BY <1>6, <5>1, <5>2, <5>3
        <4> QED
          BY <1>3, <4>1, <4>2, <4>3, <4>4
      <3> HIDE DEF g
      <3> QED
        BY <3>1, <3>2, <3>3 DEF g
    <2> QED
      BY <1>6, <2>1, <2>2, <2>3
  <1>13. QuietIsHonest'
    <2> SUFFICES ASSUME NEW g \in Effectors, Quiet(g)
                 PROVE  /\ (g \notin backdated /\ registry[g] # None) =>
                             registry[g].remaining <= effector'[g].remaining
                        /\ \A j \in 1..Len(uplink') : Tells(uplink'[j], g)
                             => Count(uplink'[j]) <= effector'[g].remaining
      BY DEF QuietIsHonest, Quiet, HonestFrom
    <2>1. g # f /\ effector'[g] = effector[g]
      BY <1>3, <1>5
    <2>2. /\ (g \notin backdated /\ registry[g] # None) =>
               registry[g].remaining <= effector[g].remaining
          /\ \A j \in 1..n : Tells(uplink[j], g) => Count(uplink[j]) <= effector[g].remaining
      BY <1>8 DEF StockInv, QuietIsHonest, HonestFrom
    <2>3. ASSUME NEW j \in 1..Len(uplink'), Tells(uplink'[j], g)
          PROVE  Count(uplink'[j]) <= effector'[g].remaining
      <3>1. j \in 1..n
        BY <1>4, <1>6, <1>7, <2>1, <2>3
      <3> QED
        BY <1>1, <2>1, <2>2, <2>3, <3>1
    <2> QED
      BY <2>1, <2>2, <2>3
  <1> QED
    BY <1>9, <1>10, <1>12, <1>13 DEF StockInv

LEMMA TakeOrderStock ==
  ASSUME Typed, StockInv, NEW o \in orders, TakeOrder(o) PROVE StockInv'
  <1> DEFINE e == o.engagement
             f == o.effector
  <1>1. /\ reserved[f] = e /\ Sent(e) /\ effector[f].active = None
        /\ \A i \in 1..Len(uplink) : ~Answers(uplink[i], e, f)
    BY DEF StockInv, OrdersReserved
  <1>2. \A i \in 1..Len(uplink) : LastWord(uplink[i]) => uplink[i].effector # f
    BY <1>1 DEF StockInv, LastWordsHonest, LastWord, Answers
  <1>3. /\ e \in Engagements /\ f \in Effectors /\ orders' = orders \ {o}
        /\ UNCHANGED <<registry, backdated, reserved, calls>>
    BY TakeOrderCases DEF registryVars
  <1>4. \A r \in orders' : r \in orders /\ r.effector # f
    <2> SUFFICES ASSUME NEW r \in orders, r # o PROVE r.effector # f
      BY <1>3
    <2>1. reserved[r.effector] = r.engagement
      BY DEF StockInv, OrdersReserved
    <2>2. r \in [engagement : Engagements, effector : Effectors]
          /\ o \in [engagement : Engagements, effector : Effectors]
      BY DEF Typed, MaterielTypeOK
    <2> QED
      BY <1>1, <2>1, <2>2
  <1>5. \/ \E y \in EffectorState : y.active = e /\ Emit(e, f, "ACCEPTED", y)
        \/ \E y \in EffectorState : y.active = None /\ Emit(e, f, "REFUSED", y)
    BY <1>1, TakeOrderCases
  <1> HIDE DEF e, f
  <1>6. ASSUME NEW y \in EffectorState, y.active = e, Emit(e, f, "ACCEPTED", y)
        PROVE  StockInv'
    BY <1>1, <1>2, <1>3, <1>4, <1>6, EmitStock
  <1>7. ASSUME NEW y \in EffectorState, y.active = None, Emit(e, f, "REFUSED", y)
        PROVE  StockInv'
    BY <1>1, <1>2, <1>3, <1>4, <1>7, EmitStock
  <1> QED
    BY <1>5, <1>6, <1>7

LEMMA EndStock ==
  ASSUME Typed, StockInv, NEW f \in Effectors, End(f) PROVE StockInv'
  <1> DEFINE e == effector[f].active
  <1>1. e # None /\ e \in Engagements /\ reserved[f] = e /\ Sent(e)
    BY EndCases DEF StockInv, CommandsReserved
  <1>2. \A i \in 1..Len(uplink) : LastWord(uplink[i]) => uplink[i].effector # f
    BY <1>1 DEF StockInv, LastWordsHonest
  <1>3. \A o \in orders : o.effector # f
    BY <1>1 DEF StockInv, OrdersReserved
  <1>4. UNCHANGED <<registry, backdated, reserved, calls, orders>>
    BY EndCases DEF registryVars, commandVars
  <1>5. PICK y \in EffectorState, state \in {"COMPLETE", "ABORTED"} :
          y.active = None /\ Emit(e, f, state, y)
    BY EndCases
  <1> HIDE DEF e
  <1> QED
    BY <1>1, <1>2, <1>3, <1>4, <1>5, EmitStock

LEMMA StockStep ==
  Typed /\ StockInv /\ CopiesAreOld /\ [MaterielNext]_materielVars => StockInv'
  <1> SUFFICES ASSUME Typed, StockInv, CopiesAreOld, [MaterielNext]_materielVars PROVE StockInv'
    OBVIOUS
  <1>1. CASE UNCHANGED materielVars
    BY <1>1 DEF materielVars, registryVars, commandVars, linkVars, StockInv, CommandsReserved,
       OrdersReserved, LastWordsHonest, QuietIsHonest, Quiet, HonestFrom, Sent
  <1>2. CASE MaterielNext
    BY <1>2, RegisterStock, RedeliverStock, QuietSteps, ReportStatusStock, ReportHoldStock,
       ReceiveStock, ReleaseStock, FinishStock, TakeOrderStock, EndStock DEF MaterielNext
  <1> QED
    BY <1>1, <1>2

----------------------------------------------------------------------------
(* Copies of statuses                                                       *)

\* A status that is installed is dated no earlier than any delivered one, unless
\* the node knows something outdated.
LEMMA InstallCopies ==
  ASSUME Typed, CopiesAreOld, NEW c \in Components, NEW status \in MaterielStatus,
         Install(c, status), backdated' \ {c} = backdated \ {c},
         ~Outdated(c, status) \/ c \in backdated' \/ (c \notin backdated /\ Later(c, status)),
         delivered' \subseteq delivered \cup {[component |-> c, status |-> status]}
  PROVE  CopiesAreOld'
  <1>1. registry' = [registry EXCEPT ![c] = status]
    BY DEF Install
  <1> SUFFICES ASSUME NEW d \in delivered'
               PROVE  /\ registry'[d.component] # None
                      /\ d.component \notin backdated' =>
                           d.status.reported <= registry'[d.component].reported
    BY DEF CopiesAreOld
  <1>2. /\ registry'[c] = status /\ status # None /\ status.reported \in Nat
        /\ \A b \in Components : b # c => registry'[b] = registry[b]
    BY <1>1, ConstantFacts DEF Typed, MaterielTypeOK, MaterielStatus
  <1>3. CASE d = [component |-> c, status |-> status]
    BY <1>2, <1>3
  <1>4. CASE d \in delivered
    <2>1. /\ d.component \in Components /\ d.status.reported \in Nat
          /\ registry[d.component] # None /\ registry[d.component].reported \in Nat
          /\ d.component \notin backdated => d.status.reported <= registry[d.component].reported
      BY <1>4 DEF CopiesAreOld, Typed, MaterielTypeOK, StatusReport, MaterielStatus
    <2>2. CASE d.component = c
      <3>1. ~Outdated(c, status) => ~(d.status.reported > status.reported)
        BY <1>4, <2>2 DEF Outdated
      <3>2. Later(c, status) => status.reported > registry[c].reported
        BY <2>1, <2>2 DEF Later
      <3> QED
        BY <1>2, <2>1, <2>2, <3>1, <3>2
    <2>3. CASE d.component # c
      BY <1>2, <2>1, <2>3
    <2> QED
      BY <2>2, <2>3
  <1> QED
    BY <1>3, <1>4

\* Nothing is installed: no date changes, and what is new among the delivered
\* statuses is not later than what is registered.
LEMMA DatesStay ==
  ASSUME Typed, CopiesAreOld, UNCHANGED backdated,
         \A c \in Components : registry[c] # None =>
           registry'[c] # None /\ registry'[c].reported = registry[c].reported,
         \A d \in delivered' : d \in delivered
           \/ (d.component \in Components /\ registry[d.component] # None
               /\ d.status.reported <= registry[d.component].reported)
  PROVE  CopiesAreOld'
  BY DEF CopiesAreOld, Typed, MaterielTypeOK, StatusReport

LEMMA CopiesReceive ==
  ASSUME Typed, CopiesAreOld, Receive PROVE CopiesAreOld'
  <1> DEFINE m == Head(uplink)
  <1>1. m \in Message
    BY DEF Receive, Typed, MaterielTypeOK
  <1>2. ASSUME m.kind = "status", ReceiveMaterielStatus(m.component, m.status), MayComeAgain(m)
        PROVE  CopiesAreOld'
    <2>1. m.component \in Components /\ m.status \in MaterielStatus
      BY <1>1, <1>2 DEF Message
    <2> DEFINE d == [component |-> m.component, status |-> m.status]
    <2>2. /\ delivered' \subseteq delivered \cup {d}
          /\ d \in delivered' => d \in delivered \/ Valid(m.component, m.status)
      BY <1>2 DEF MayComeAgain
    <2>3. CASE Valid(m.component, m.status) /\ Later(m.component, m.status)
      <3>1. /\ Install(m.component, m.status)
            /\ backdated' = IF Outdated(m.component, m.status) THEN backdated
                            ELSE backdated \ {m.component}
        BY <1>2, <2>3 DEF ReceiveMaterielStatus
      <3> HIDE DEF m
      <3>2. backdated' \ {m.component} = backdated \ {m.component}
        BY <3>1
      <3> QED
        BY <2>1, <2>2, <2>3, <3>1, <3>2, InstallCopies
    <2>4. CASE ~(Valid(m.component, m.status) /\ Later(m.component, m.status))
      <3>1. UNCHANGED <<registry, backdated>>
        BY <1>2, <2>4 DEF ReceiveMaterielStatus, registryVars
      <3>2. d \in delivered' => d \in delivered \/ ~Later(m.component, m.status)
        BY <2>2, <2>4
      <3>3. ~Later(m.component, m.status) =>
              /\ registry[m.component] # None
              /\ m.status.reported <= registry[m.component].reported
        BY <2>1 DEF Later, Typed, MaterielTypeOK, MaterielStatus
      <3>4. d.component = m.component /\ d.status = m.status
        OBVIOUS
      <3> HIDE DEF d
      <3> QED
        BY <2>1, <2>2, <3>1, <3>2, <3>3, <3>4, DatesStay
    <2> QED
      BY <2>3, <2>4
  <1>3. ASSUME m.kind = "engagement", ApplyReport(m), UNCHANGED <<backdated, delivered>>
        PROVE  CopiesAreOld'
    <2>1. m.effector \in Components /\ m.remaining \in 0..Capacity
      BY <1>1, <1>3, ConstantFacts DEF Message
    <2>2. registry' = registry \/ registry' = [registry EXCEPT ![m.effector].remaining = m.remaining]
      BY <1>3 DEF ApplyReport
    <2> HIDE DEF m
    <2>3. \A c \in Components : registry[c] # None =>
            registry'[c] # None /\ registry'[c].reported = registry[c].reported
      <3> SUFFICES ASSUME NEW c \in Components, registry[c] # None,
                          registry' = [registry EXCEPT ![m.effector].remaining = m.remaining]
                   PROVE  registry'[c] # None /\ registry'[c].reported = registry[c].reported
        BY <2>2
      <3>1. registry[c] \in MaterielStatus
        BY DEF Typed, MaterielTypeOK
      <3>2. registry'[c] = registry[c] \/ registry'[c] = [registry[c] EXCEPT !.remaining = m.remaining]
        BY <2>1 DEF Typed, MaterielTypeOK
      <3>3. [registry[c] EXCEPT !.remaining = m.remaining] \in MaterielStatus
        BY <2>1, <3>1 DEF MaterielStatus
      <3> QED
        BY <3>1, <3>2, <3>3, ConstantFacts DEF MaterielStatus
    <2> QED
      BY <1>3, <2>3, DatesStay
  <1>4. ASSUME UNCHANGED <<registryVars, delivered>>
        PROVE  CopiesAreOld'
    BY <1>4 DEF registryVars, CopiesAreOld
  <1> QED
    BY <1>2, <1>3, <1>4 DEF Receive

LEMMA CopiesRegister ==
  ASSUME Typed, CopiesAreOld, NEW q \in posts, Register(q) PROVE CopiesAreOld'
  <1>1. q.component \in Components /\ q.status \in MaterielStatus
    BY DEF Typed, MaterielTypeOK, StatusReport
  <1>2. /\ Install(q.component, q.status)
        /\ backdated' \ {q.component} = backdated \ {q.component}
        /\ q.component \notin backdated' => ~Outdated(q.component, q.status)
        /\ delivered' = delivered
    BY DEF Register
  <1> QED
    BY <1>1, <1>2, InstallCopies

LEMMA CopiesRedeliver ==
  ASSUME Typed, CopiesAreOld, NEW d \in delivered, Redeliver(d) PROVE CopiesAreOld'
  <1>1. d.component \in Components /\ d.status \in MaterielStatus
    BY DEF Typed, MaterielTypeOK, StatusReport
  <1>2. ReceiveMaterielStatus(d.component, d.status) /\ delivered' = delivered
    BY DEF Redeliver, linkVars
  <1>3. CASE Valid(d.component, d.status) /\ Later(d.component, d.status)
    <2>1. /\ Install(d.component, d.status)
          /\ backdated' = IF Outdated(d.component, d.status) THEN backdated
                          ELSE backdated \ {d.component}
      BY <1>2, <1>3 DEF ReceiveMaterielStatus
    <2>2. backdated' \ {d.component} = backdated \ {d.component}
      BY <2>1
    <2> QED
      BY <1>1, <1>2, <1>3, <2>1, <2>2, InstallCopies
  <1>4. CASE ~(Valid(d.component, d.status) /\ Later(d.component, d.status))
    BY <1>2, <1>4 DEF ReceiveMaterielStatus, registryVars, CopiesAreOld
  <1> QED
    BY <1>3, <1>4

\* Expiry and the counts of returning handlers leave the dates alone.
LEMMA CopiesExpiry ==
  ASSUME Typed, CopiesAreOld, NEW cs, cs \subseteq {c \in Components : registry[c] # None},
         registry' = Offline(cs), UNCHANGED <<backdated, delivered>>
  PROVE  CopiesAreOld'
  <1>1. \A c \in Components : registry[c] # None =>
          registry'[c] # None /\ registry'[c].reported = registry[c].reported
    <2> SUFFICES ASSUME NEW c \in Components, registry[c] # None
                 PROVE  registry'[c] # None /\ registry'[c].reported = registry[c].reported
      OBVIOUS
    <2>1. registry[c] \in MaterielStatus
      BY DEF Typed, MaterielTypeOK
    <2>2. registry'[c] # None
      BY OfflineType
    <2>3. registry'[c] = registry[c] \/ registry'[c] = [registry[c] EXCEPT !.readiness = "OFFLINE"]
      BY DEF Offline
    <2> QED
      BY <2>1, <2>2, <2>3 DEF MaterielStatus
  <1> QED
    BY <1>1, DatesStay

LEMMA CopiesFinish ==
  ASSUME Typed, CopiesAreOld, NEW e \in Engagements, Finish(e) PROVE CopiesAreOld'
  <1> DEFINE f == calls[e].effector
  <1>1. UNCHANGED <<backdated, delivered>>
    BY DEF Finish, Decrement, registryVars, linkVars
  <1>2. registry' = registry \/ registry' = [registry EXCEPT ![f] = Decremented(@)]
    BY DEF Finish, Decrement, registryVars
  <1>3. \A c \in Components : registry[c] # None =>
          registry'[c] # None /\ registry'[c].reported = registry[c].reported
    <2> SUFFICES ASSUME NEW c \in Components, registry[c] # None
                 PROVE  registry'[c] # None /\ registry'[c].reported = registry[c].reported
      OBVIOUS
    <2>1. registry[c] \in MaterielStatus
      BY DEF Typed, MaterielTypeOK
    <2>2. /\ Decremented(registry[c]).reported = registry[c].reported
          /\ Decremented(registry[c]) # None
      <3>1. CASE registry[c].remaining = 0
        BY <2>1, <3>1, ConstantFacts DEF Decremented
      <3>2. CASE registry[c].remaining # 0
        <4> DEFINE r == registry[c].remaining - 1
        <4>1. r \in 0..Capacity
          BY <2>1, <3>2, ConstantFacts DEF MaterielStatus
        <4>2. Decremented(registry[c]) = [registry[c] EXCEPT !.remaining = r]
          BY <3>2 DEF Decremented
        <4> HIDE DEF r
        <4>3. [registry[c] EXCEPT !.remaining = r] \in MaterielStatus
          BY <2>1, <4>1 DEF MaterielStatus
        <4> QED
          BY <2>1, <4>2, <4>3, ConstantFacts DEF MaterielStatus
      <3> QED
        BY <3>1, <3>2
    <2>3. registry'[c] = registry[c] \/ registry'[c] = Decremented(registry[c])
      BY <1>2 DEF Typed, MaterielTypeOK
    <2> QED
      BY <2>2, <2>3
  <1> HIDE DEF f
  <1> QED
    BY <1>1, <1>3, DatesStay

LEMMA CopiesStep ==
  Typed /\ CopiesAreOld /\ [MaterielNext]_materielVars => CopiesAreOld'
  <1> SUFFICES ASSUME Typed, CopiesAreOld, [MaterielNext]_materielVars PROVE CopiesAreOld'
    OBVIOUS
  <1>1. ASSUME UNCHANGED <<registry, backdated, delivered>> PROVE CopiesAreOld'
    BY <1>1 DEF CopiesAreOld
  <1>2. CASE Supervise
    <2>1. PICK cs : cs \subseteq {c \in Components : registry[c] # None} /\ registry' = Offline(cs)
      <3>1. \/ registry' = Offline(lapsed)
            \/ \E c \in Unrecorded : registry' = Offline(flagged \cup {c})
        BY <1>2 DEF Supervise, ExpireMateriel, ExpireAll
      <3>2. /\ lapsed \subseteq {c \in Components : registry[c] # None}
            /\ flagged \subseteq lapsed /\ Unrecorded \subseteq lapsed
        BY DEF Typed, MaterielTypeOK, RegistryKnown, LapseIsEvidenced, Unrecorded
      <3> QED
        BY <3>1, <3>2
    <2> QED
      BY <1>2, <2>1, CopiesExpiry DEF Supervise, linkVars
  <1>3. ASSUME NEW e \in Engagements, NEW f \in Effectors, Submit(e, f) PROVE CopiesAreOld'
    <2>1. registry' = Offline(lapsed) /\ UNCHANGED <<backdated, delivered>>
      BY <1>3 DEF Submit, ExpireAll, linkVars
    <2> QED
      BY <2>1, CopiesExpiry DEF Typed, RegistryKnown
  <1>4. ASSUME NEW o \in orders, TakeOrder(o) PROVE UNCHANGED <<registry, backdated, delivered>>
    BY <1>4 DEF TakeOrder, Emit, registryVars
  <1>5. ASSUME NEW f \in Effectors, End(f) PROVE UNCHANGED <<registry, backdated, delivered>>
    BY <1>5 DEF End, Emit, registryVars
  <1>6. ASSUME \/ \E c \in Components : Post(c) \/ Lapse(c) \/ ReportStatus(c)
               \/ SinkChanges \/ TickReports \/ LoseMessage
               \/ \E e \in Engagements : Deny(e) \/ Release(e) \/ ConsumeToken(e)
               \/ \E f \in Effectors : ReportHold(f)
        PROVE  UNCHANGED <<registry, backdated, delivered>>
    BY <1>6 DEF Post, Lapse, ReportStatus, SinkChanges, TickReports, LoseMessage, Deny, Release,
       ConsumeToken, ReportHold, registryVars, linkVars
  <1>7. CASE UNCHANGED materielVars
    BY <1>1, <1>7 DEF materielVars, registryVars, linkVars
  <1>8. CASE MaterielNext
    BY <1>1, <1>2, <1>3, <1>4, <1>5, <1>6, <1>8, CopiesReceive, CopiesRegister, CopiesRedeliver,
       CopiesFinish DEF MaterielNext
  <1> QED
    BY <1>7, <1>8

----------------------------------------------------------------------------
(* The theorems                                                             *)

\* In every state of the materiel, whoever commands an effector has it reserved,
\* nothing known or on its way overstates the magazine of a free one, unless a
\* registration was outdated when it was handled, and no copy of a status that was
\* delivered is news to the node.
THEOREM MaterielInvariant == MaterielSpec => []MaterielInv
  <1>1. MaterielInit => Typed /\ StockInv /\ CopiesAreOld
    BY TypedInit, StockInit DEF MaterielInit, CopiesAreOld
  <1>2. Typed /\ StockInv /\ CopiesAreOld /\ [MaterielNext]_materielVars
          => (Typed /\ StockInv /\ CopiesAreOld)'
    BY TypedStep, StockStep, CopiesStep
  <1>3. Typed /\ StockInv /\ CopiesAreOld => MaterielInv
    BY DEF Typed, StockInv, MaterielInv
  <1> QED
    BY <1>1, <1>2, <1>3, PTL DEF MaterielSpec

\* The node never believes an effector nobody reserved to hold more rounds than
\* it does, whichever of statuses, their copies, reports and detached handlers
\* wrote the count; only a registration outdated when it is handled makes it, until
\* a later status or an up-to-date registration is received.
THEOREM StockNeverOverstated == MaterielSpec => []NeverOverstatesStock
  <1>1. MaterielInv => NeverOverstatesStock
    BY DEF MaterielInv, QuietIsHonest, Quiet, NeverOverstatesStock
  <1> QED
    BY <1>1, MaterielInvariant, PTL

\* A lapsed status is flagged exactly when its one record was written, however
\* often the audit file failed, and is then taken OFFLINE.
THEOREM LapsesEvidenced == MaterielSpec => []LapseIsEvidenced
  <1>1. MaterielInv => LapseIsEvidenced
    BY DEF MaterielInv
  <1> QED
    BY <1>1, MaterielInvariant, PTL
=============================================================================
