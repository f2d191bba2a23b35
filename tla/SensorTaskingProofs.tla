------------------------ MODULE SensorTaskingProofs ------------------------
(***************************************************************************)
(* Sensor tasking over the bus connection, for any sensors, requests and   *)
(* concurrent handlers, any number of feeds and any number of lost and     *)
(* closed connections and audit failures.                                  *)
(***************************************************************************)
EXTENDS SensorTasking, TLAPS

----------------------------------------------------------------------------
(* The connection.                                                          *)

\* Without a client there is nothing to hear of and no connection; the node's
\* table names feeds of the client it has; an awaited subscription is on it.
ConnectionInv ==
  /\ BusTypeOK
  /\ client = "none" => connected = FALSE /\ news = "nothing"
  /\ subscribed \subseteq onClient
  /\ supervisor = "subscribing" => feed \in onClient

LEMMA ConnectionInvInit == BusInit => ConnectionInv
  <1> SUFFICES ASSUME BusInit PROVE ConnectionInv
    OBVIOUS
  <1>1. 1 \in Feeds
    BY BusBounds DEF Feeds
  <1>2. 0 \in 0..MaxLosses /\ 0 \in 0..MaxCloses
    BY BusBounds
  <1> QED
    BY <1>1, <1>2 DEF BusInit, ConnectionInv, BusTypeOK

\* Going through the feeds only ever adds subscriptions, and awaits one of them.
LEMMA SubscribeAfterAdds ==
  ASSUME NEW k, NEW table, NEW installed \in SUBSET Feeds,
         feed \in Feeds, serving \in BOOLEAN,
         SubscribeAfter(k, table, installed)
  PROVE  /\ installed \subseteq onClient' /\ onClient' \subseteq Feeds
         /\ feed' \in Feeds /\ serving' \in BOOLEAN
         /\ supervisor' \in {"subscribing", "asleep", "ended"}
         /\ supervisor' = "subscribing" => feed' \in onClient'
  BY DEF SubscribeAfter, Remaining

LEMMA LibraryKeepsConnectionInv ==
  ASSUME ConnectionInv, LibraryStep
  PROVE  ConnectionInv'
  <1>1. CASE Lose
    <2>1. losses' \in 0..MaxLosses
      BY <1>1, BusBounds DEF ConnectionInv, BusTypeOK, Lose
    <2> QED
      BY <1>1, <2>1 DEF ConnectionInv, BusTypeOK, Lose
  <1>2. CASE BrokerReturns
    BY <1>2 DEF ConnectionInv, BusTypeOK, BrokerReturns
  <1>3. CASE Reconnect
    BY <1>3 DEF ConnectionInv, BusTypeOK, Reconnect
  <1>4. CASE GiveUpClient
    <2>1. closes' \in 0..MaxCloses
      BY <1>4, BusBounds DEF ConnectionInv, BusTypeOK, GiveUpClient
    <2> QED
      BY <1>4, <2>1 DEF ConnectionInv, BusTypeOK, GiveUpClient
  <1>5. CASE Callback
    <2>1. connected' \in BOOLEAN
      BY <1>5 DEF Callback
    <2> QED
      BY <1>5, <2>1 DEF ConnectionInv, BusTypeOK, Callback
  <1> QED
    BY <1>1, <1>2, <1>3, <1>4, <1>5 DEF LibraryStep

LEMMA LifespanKeepsConnectionInv ==
  ASSUME ConnectionInv, LifespanStep
  PROVE  ConnectionInv'
  <1> USE DEF ConnectionInv, BusTypeOK
  <1>1. CASE Subscribed
    <2>1. SubscribeAfter(feed, subscribed', onClient)
      BY <1>1 DEF Subscribed
    <2>2. /\ onClient \subseteq onClient' /\ onClient' \subseteq Feeds
          /\ feed' \in Feeds /\ serving' \in BOOLEAN
          /\ supervisor' \in {"subscribing", "asleep", "ended"}
          /\ supervisor' = "subscribing" => feed' \in onClient'
      BY <2>1, SubscribeAfterAdds
    <2> QED
      BY <1>1, <2>2 DEF Subscribed
  <1>2. CASE Connected
    <2>1. SubscribeAfter(0, {}, {})
      BY <1>2 DEF Connected
    <2>2. /\ onClient' \subseteq Feeds
          /\ feed' \in Feeds /\ serving' \in BOOLEAN
          /\ supervisor' \in {"subscribing", "asleep", "ended"}
          /\ supervisor' = "subscribing" => feed' \in onClient'
      BY <2>1, SubscribeAfterAdds
    <2> QED
      BY <1>2, <2>2 DEF Connected
  <1>3. CASE ConnectFails
    BY <1>3 DEF ConnectFails
  <1> QED
    BY <1>1, <1>2, <1>3 DEF LifespanStep

LEMMA SuperviseKeepsConnectionInv ==
  ASSUME ConnectionInv, Supervise
  PROVE  ConnectionInv'
  <1> USE DEF ConnectionInv, BusTypeOK, Supervise
  <1>1. CASE connected
    BY <1>1
  <1>2. CASE ~ connected /\ client = "up"
    <2>1. connected' = TRUE /\ SubscribeAfter(0, subscribed, onClient)
      BY <1>2 DEF Connect
    <2>2. /\ onClient \subseteq onClient' /\ onClient' \subseteq Feeds
          /\ feed' \in Feeds /\ serving' \in BOOLEAN
          /\ supervisor' \in {"subscribing", "asleep", "ended"}
          /\ supervisor' = "subscribing" => feed' \in onClient'
      BY <2>1, SubscribeAfterAdds
    <2> QED
      BY <1>2, <2>1, <2>2
  <1>3. CASE ~ connected /\ client # "up"
    BY <1>3 DEF Connect
  <1> QED
    BY <1>1, <1>2, <1>3

\* Neither outcome of a publication disturbs the connection.
LEMMA PublishKeepsConnectionInv ==
  ASSUME ConnectionInv, Accepted \/ DeliveryUnknown
  PROVE  ConnectionInv'
  BY DEF ConnectionInv, BusTypeOK, Accepted, DeliveryUnknown, connectionVars
----------------------------------------------------------------------------
(* Tasking.                                                                 *)

\* A suspended execution holds its request, and no other one does.
CallsHoldRequests ==
  /\ \A c \in TaskCalls : taskCalls[c] # None => taskCalls[c].request \in inFlight
  /\ \A c, d \in TaskCalls :
       taskCalls[c] # None /\ taskCalls[d] # None
         /\ taskCalls[c].request = taskCalls[d].request => c = d

\* Nothing is stored for a request while it is under way.
NoAnswerInFlight == \A r \in inFlight : taskResults[r] = None

\* Every publication of a request that may be tasked again cost an audit record.
OpenRequestsCost ==
  \A r \in TaskRequests :
    r \notin inFlight /\ taskResults[r] = None => sent[r] <= auditFaults

TaskingInv ==
  /\ TypeOK /\ ConnectionInv
  /\ CallsHoldRequests /\ NoAnswerInFlight /\ OpenRequestsCost /\ SentOnce

LEMMA TaskingInvInit == Init => TaskingInv
  <1> SUFFICES ASSUME Init PROVE TaskingInv
    OBVIOUS
  <1>1. ConnectionInv
    BY ConnectionInvInit DEF Init
  <1>2. auditFaults \in 0..MaxAuditFaults
    BY TaskingBounds DEF Init
  <1> QED
    BY <1>1, <1>2 DEF Init, TaskingInv, TypeOK, ConnectionInv, CallsHoldRequests,
                      NoAnswerInFlight, OpenRequestsCost, SentOnce

\* The bookkeeping depends on these variables only.
LEMMA BookkeepingUnchanged ==
  ASSUME TaskingInv, ConnectionInv',
         leases' \in [Sensors -> Lease \cup {None}],
         UNCHANGED <<inFlight, taskResults, taskCalls, sent>>,
         auditFaults' \in 0..MaxAuditFaults, auditFaults' >= auditFaults
  PROVE  TaskingInv'
  <1>1. TypeOK'
    BY DEF TaskingInv, TypeOK, ConnectionInv
  <1>2. CallsHoldRequests' /\ NoAnswerInFlight'
    BY DEF TaskingInv, CallsHoldRequests, NoAnswerInFlight
  <1>3. OpenRequestsCost' /\ SentOnce'
    BY <1>1, TaskingBounds DEF TaskingInv, TypeOK, OpenRequestsCost, SentOnce
  <1> QED
    BY <1>1, <1>2, <1>3 DEF TaskingInv

LEMMA AuditFaultCounts ==
  ASSUME TypeOK, AuditFault
  PROVE  auditFaults' \in 0..MaxAuditFaults /\ auditFaults' = auditFaults + 1
  BY TaskingBounds DEF TypeOK, AuditFault

LEMMA ClaimTyped ==
  ASSUME TypeOK, NEW r \in TaskRequests, NEW t \in Task, Claim(r, t)
  PROVE  leases' \in [Sensors -> Lease \cup {None}]
  BY DEF TypeOK, Claim, Task, Lease

LEMMA ReleaseTyped ==
  ASSUME TypeOK, NEW s \in Sensors, Release(s)
  PROVE  leases' \in [Sensors -> Lease \cup {None}]
  BY DEF TypeOK, Release

\* The connection's invariant reads no variable of tasking.
LEMMA ConnectionUnchanged ==
  ASSUME ConnectionInv, UNCHANGED connectionVars
  PROVE  ConnectionInv'
  BY DEF ConnectionInv, BusTypeOK, connectionVars

LEMMA DenyKeepsInv ==
  ASSUME TaskingInv, NEW r \in TaskRequests, NEW t \in Task, DenyTask(r, t)
  PROVE  TaskingInv'
  <1>0. ConnectionInv'
    BY ConnectionUnchanged DEF TaskingInv, DenyTask
  <1>1. CASE AuditFault /\ UNCHANGED taskResults
    <2>1. auditFaults' \in 0..MaxAuditFaults /\ auditFaults' = auditFaults + 1
      BY <1>1, AuditFaultCounts DEF TaskingInv
    <2>2. auditFaults' >= auditFaults
      BY <2>1 DEF TaskingInv, TypeOK
    <2> QED
      BY <1>0, <1>1, <2>1, <2>2, BookkeepingUnchanged DEF DenyTask, TaskingInv, TypeOK
  <1>2. CASE Store(r, t, "DENIED") /\ UNCHANGED auditFaults
    <2> DEFINE result == [task |-> t, delivery |-> "DENIED"]
    <2>1. result \in Result /\ result # None
      BY NoneIsNeither DEF Result
    <2>2. taskResults' = [taskResults EXCEPT ![r] = result]
      BY <1>2 DEF Store
    <2>3. r \notin inFlight /\ UNCHANGED <<leases, inFlight, taskCalls, sent>>
      BY DEF DenyTask, MayTask
    <2> HIDE DEF result
    <2>4. TypeOK'
      BY <1>0, <1>2, <2>1, <2>2, <2>3 DEF TaskingInv, TypeOK, ConnectionInv
    <2>5. CallsHoldRequests' /\ NoAnswerInFlight'
      BY <2>2, <2>3 DEF TaskingInv, TypeOK, CallsHoldRequests, NoAnswerInFlight
    <2>6. OpenRequestsCost' /\ SentOnce'
      BY <1>2, <2>1, <2>2, <2>3 DEF TaskingInv, TypeOK, OpenRequestsCost, SentOnce
    <2> QED
      BY <1>0, <2>4, <2>5, <2>6 DEF TaskingInv
  <1> QED
    BY <1>1, <1>2 DEF DenyTask

LEMMA GrantUnrecordedKeepsInv ==
  ASSUME TaskingInv, NEW r \in TaskRequests, NEW t \in Task, GrantUnrecorded(r, t)
  PROVE  TaskingInv'
  <1>1. ConnectionInv'
    BY ConnectionUnchanged DEF TaskingInv, GrantUnrecorded
  <1>2. leases' \in [Sensors -> Lease \cup {None}]
    BY ReleaseTyped DEF TaskingInv, GrantUnrecorded, Task
  <1>3. auditFaults' \in 0..MaxAuditFaults /\ auditFaults' = auditFaults + 1
    BY AuditFaultCounts DEF TaskingInv, GrantUnrecorded
  <1>4. auditFaults' >= auditFaults
    BY <1>3 DEF TaskingInv, TypeOK
  <1> QED
    BY <1>1, <1>2, <1>3, <1>4, BookkeepingUnchanged DEF GrantUnrecorded

LEMMA NotSentKeepsInv ==
  ASSUME TaskingInv, NEW r \in TaskRequests, NEW t \in Task, TaskNotSent(r, t)
  PROVE  TaskingInv'
  <1>1. ConnectionInv'
    BY ConnectionUnchanged DEF TaskingInv, TaskNotSent
  <1>2. leases' \in [Sensors -> Lease \cup {None}]
    BY ReleaseTyped, ClaimTyped DEF TaskingInv, TaskNotSent, Task
  <1>3. auditFaults' \in 0..MaxAuditFaults /\ auditFaults' >= auditFaults
    BY AuditFaultCounts, TaskingBounds DEF TaskingInv, TypeOK, TaskNotSent
  <1> QED
    BY <1>1, <1>2, <1>3, BookkeepingUnchanged DEF TaskNotSent

LEMMA PublishKeepsInv ==
  ASSUME TaskingInv, NEW c \in TaskCalls, NEW r \in TaskRequests, NEW t \in Task,
         PublishTask(c, r, t)
  PROVE  TaskingInv'
  <1> DEFINE call == [request |-> r, task |-> t]
  <1>1. ConnectionInv'
    BY ConnectionUnchanged DEF TaskingInv, PublishTask
  <1>2. leases' \in [Sensors -> Lease \cup {None}]
    BY ClaimTyped DEF TaskingInv, PublishTask
  <1>3. call \in [request : TaskRequests, task : Task] /\ call.request = r
    OBVIOUS
  <1>4. /\ inFlight' = inFlight \cup {r}
        /\ taskCalls' = [taskCalls EXCEPT ![c] = call]
        /\ sent' = [sent EXCEPT ![r] = @ + 1]
        /\ UNCHANGED <<taskResults, auditFaults>>
        /\ taskResults[r] = None /\ r \notin inFlight
    BY DEF PublishTask, MayTask
  <1> HIDE DEF call
  <1>5. TypeOK'
    BY <1>1, <1>2, <1>3, <1>4 DEF TaskingInv, TypeOK, ConnectionInv
  <1>6. CallsHoldRequests'
    BY <1>3, <1>4 DEF TaskingInv, TypeOK, CallsHoldRequests
  <1>7. NoAnswerInFlight'
    BY <1>4 DEF TaskingInv, NoAnswerInFlight
  <1>8. sent[r] <= auditFaults
    BY <1>4 DEF TaskingInv, OpenRequestsCost
  <1>9. OpenRequestsCost' /\ SentOnce'
    BY <1>4, <1>8, TaskingBounds
    DEF TaskingInv, TypeOK, OpenRequestsCost, SentOnce
  <1> QED
    BY <1>1, <1>5, <1>6, <1>7, <1>9 DEF TaskingInv

LEMMA FinishKeepsInv ==
  ASSUME TaskingInv, NEW c \in TaskCalls, FinishTask(c)
  PROVE  TaskingInv'
  <1> DEFINE r == taskCalls[c].request
             t == taskCalls[c].task
  <1>1. ConnectionInv'
    BY PublishKeepsConnectionInv DEF TaskingInv, FinishTask
  <1>2. taskCalls[c] # None /\ r \in TaskRequests /\ t \in Task /\ r \in inFlight
    BY DEF FinishTask, TaskingInv, TypeOK, CallsHoldRequests
  <1>3. /\ inFlight' = inFlight \ {r}
        /\ taskCalls' = [taskCalls EXCEPT ![c] = None]
        /\ UNCHANGED <<leases, sent>>
    BY DEF FinishTask
  <1>4. \/ AuditFault /\ UNCHANGED taskResults
        \/ \E delivery \in {"ACCEPTED", "UNKNOWN"} :
             Store(r, t, delivery) /\ UNCHANGED auditFaults
    BY DEF FinishTask
  <1> HIDE DEF r, t
  <1>5. CallsHoldRequests'
    <2>1. \A d \in TaskCalls : taskCalls'[d] # None =>
            d # c /\ taskCalls'[d] = taskCalls[d]
      BY <1>3 DEF TaskingInv, TypeOK
    <2>2. \A d \in TaskCalls : taskCalls'[d] # None => taskCalls[d].request # r
      BY <1>2, <2>1 DEF TaskingInv, CallsHoldRequests, r
    <2> QED
      BY <1>3, <2>1, <2>2 DEF TaskingInv, CallsHoldRequests
  <1>6. CASE AuditFault /\ UNCHANGED taskResults
    <2>1. auditFaults' \in 0..MaxAuditFaults /\ auditFaults' = auditFaults + 1
      BY <1>6, AuditFaultCounts DEF TaskingInv
    <2>2. TypeOK'
      BY <1>1, <1>3, <1>6, <2>1 DEF TaskingInv, TypeOK, ConnectionInv
    <2>3. NoAnswerInFlight'
      BY <1>3, <1>6 DEF TaskingInv, NoAnswerInFlight
    <2>4. OpenRequestsCost' /\ SentOnce'
      BY <1>3, <1>6, <2>1, TaskingBounds
      DEF TaskingInv, TypeOK, OpenRequestsCost, SentOnce
    <2> QED
      BY <1>1, <1>5, <2>2, <2>3, <2>4 DEF TaskingInv
  <1>7. CASE \E delivery \in {"ACCEPTED", "UNKNOWN"} :
               Store(r, t, delivery) /\ UNCHANGED auditFaults
    <2>1. PICK delivery \in {"ACCEPTED", "UNKNOWN"} :
            Store(r, t, delivery) /\ UNCHANGED auditFaults
      BY <1>7
    <2> DEFINE result == [task |-> t, delivery |-> delivery]
    <2>2. result \in Result /\ result # None
      BY <1>2, NoneIsNeither DEF Result
    <2>3. taskResults' = [taskResults EXCEPT ![r] = result]
      BY <2>1 DEF Store
    <2> HIDE DEF result
    <2>4. TypeOK'
      BY <1>1, <1>2, <1>3, <2>1, <2>2, <2>3 DEF TaskingInv, TypeOK, ConnectionInv
    <2>5. NoAnswerInFlight'
      BY <1>3, <2>3 DEF TaskingInv, TypeOK, NoAnswerInFlight
    <2>6. OpenRequestsCost' /\ SentOnce'
      BY <1>2, <1>3, <2>1, <2>2, <2>3
      DEF TaskingInv, TypeOK, OpenRequestsCost, SentOnce
    <2> QED
      BY <1>1, <1>5, <2>4, <2>5, <2>6 DEF TaskingInv
  <1> QED
    BY <1>4, <1>6, <1>7

LEMMA SupervisorKeepsInv ==
  ASSUME TaskingInv, SupervisorTurn
  PROVE  TaskingInv'
  <1>1. ConnectionInv'
    BY SuperviseKeepsConnectionInv DEF TaskingInv, SupervisorTurn
  <1>2. leases' \in [Sensors -> Lease \cup {None}]
    BY DEF TaskingInv, TypeOK, SupervisorTurn, ExpireSensorTaskLeases
  <1>3. auditFaults' \in 0..MaxAuditFaults /\ auditFaults' >= auditFaults
    BY AuditFaultCounts, TaskingBounds DEF TaskingInv, TypeOK, SupervisorTurn
  <1> QED
    BY <1>1, <1>2, <1>3, BookkeepingUnchanged DEF SupervisorTurn

LEMMA LapseKeepsInv ==
  ASSUME TaskingInv, NEW s \in Sensors, Lapse(s)
  PROVE  TaskingInv'
  <1>1. ConnectionInv'
    BY ConnectionUnchanged DEF TaskingInv, Lapse
  <1>2. leases' \in [Sensors -> Lease \cup {None}]
    BY DEF TaskingInv, TypeOK, Lapse, Live, Lease
  <1>3. auditFaults' \in 0..MaxAuditFaults /\ auditFaults' >= auditFaults
    BY TaskingBounds DEF TaskingInv, TypeOK, Lapse
  <1> QED
    BY <1>1, <1>2, <1>3, BookkeepingUnchanged DEF Lapse

LEMMA TaskingInvStep == TaskingInv /\ [Next]_vars => TaskingInv'
  <1> SUFFICES ASSUME TaskingInv, [Next]_vars PROVE TaskingInv'
    OBVIOUS
  <1>1. ASSUME UNCHANGED taskVars, ConnectionInv'
        PROVE  TaskingInv'
    <2>1. leases' \in [Sensors -> Lease \cup {None}]
      BY <1>1 DEF TaskingInv, TypeOK, taskVars
    <2>2. auditFaults' \in 0..MaxAuditFaults /\ auditFaults' >= auditFaults
      BY <1>1, TaskingBounds DEF TaskingInv, TypeOK, taskVars
    <2> QED
      BY <1>1, <2>1, <2>2, BookkeepingUnchanged DEF taskVars
  <1>2. CASE \E r \in TaskRequests, t \in Task : TaskSensor(r, t)
    BY <1>2, DenyKeepsInv, GrantUnrecordedKeepsInv, NotSentKeepsInv, PublishKeepsInv
    DEF TaskSensor
  <1>3. CASE \E c \in TaskCalls : FinishTask(c)
    BY <1>3, FinishKeepsInv
  <1>4. CASE \E s \in Sensors : Lapse(s)
    BY <1>4, LapseKeepsInv
  <1>5. CASE SupervisorTurn
    BY <1>5, SupervisorKeepsInv
  <1>6. CASE LibraryStep /\ UNCHANGED taskVars
    BY <1>1, <1>6, LibraryKeepsConnectionInv DEF TaskingInv
  <1>7. CASE LifespanStep /\ UNCHANGED taskVars
    BY <1>1, <1>7, LifespanKeepsConnectionInv DEF TaskingInv
  <1>8. CASE UNCHANGED vars
    BY <1>1, <1>8, ConnectionUnchanged DEF TaskingInv, vars
  <1> QED
    BY <1>2, <1>3, <1>4, <1>5, <1>6, <1>7, <1>8 DEF Next

----------------------------------------------------------------------------
(* Theorems.                                                                *)

\* The inductive invariant holds in every reachable state.
THEOREM TaskingInvariant == Spec => []TaskingInv
  BY TaskingInvInit, TaskingInvStep, PTL DEF Spec

\* Every variable of sensor tasking and of the connection keeps its type.
THEOREM TaskingTypeCorrect == Spec => []TypeOK
  <1>1. TaskingInv => TypeOK
    BY DEF TaskingInv
  <1> QED
    BY <1>1, TaskingInvariant, PTL

\* A request is sent once, plus once for each audit record that failed.
THEOREM RequestsSentOnce == Spec => []SentOnce
  <1>1. TaskingInv => SentOnce
    BY DEF TaskingInv
  <1> QED
    BY <1>1, TaskingInvariant, PTL

\* The table of subscriptions never names a feed the client does not have.
THEOREM SubscriptionsInstalled == Spec => []SubscribedIsInstalled
  <1>1. TaskingInv => SubscribedIsInstalled
    BY DEF TaskingInv, ConnectionInv, SubscribedIsInstalled
  <1> QED
    BY <1>1, TaskingInvariant, PTL

\* A stored answer never changes and its request is not sent again.
THEOREM AnswersAreFinal == Spec => AnswersStand
  <1> DEFINE Stands == \A r \in TaskRequests :
               taskResults[r] # None => /\ taskResults'[r] = taskResults[r]
                                        /\ sent'[r] = sent[r]
  <1>1. ASSUME TaskingInv, [Next]_vars PROVE [Stands]_vars
    <2>1. ASSUME UNCHANGED <<taskResults, sent>> PROVE Stands
      BY <2>1
    <2>2. ASSUME NEW r \in TaskRequests, NEW t \in Task, TaskSensor(r, t)
          PROVE  Stands
      <3>1. taskResults[r] = None
        BY <2>2 DEF TaskSensor, DenyTask, GrantUnrecorded, TaskNotSent, PublishTask,
                    MayTask
      <3>2. \A q \in TaskRequests \ {r} :
              taskResults'[q] = taskResults[q] /\ sent'[q] = sent[q]
        BY <1>1, <2>2 DEF TaskSensor, DenyTask, GrantUnrecorded, TaskNotSent,
                          PublishTask, Store, TaskingInv, TypeOK
      <3> QED
        BY <3>1, <3>2
    <2>3. ASSUME NEW c \in TaskCalls, FinishTask(c) PROVE Stands
      <3>1. taskResults[taskCalls[c].request] = None
        BY <1>1, <2>3 DEF FinishTask, TaskingInv, CallsHoldRequests, NoAnswerInFlight
      <3>2. \A q \in TaskRequests \ {taskCalls[c].request} :
              taskResults'[q] = taskResults[q]
        BY <1>1, <2>3 DEF FinishTask, Store, TaskingInv, TypeOK
      <3>3. sent' = sent
        BY <2>3 DEF FinishTask
      <3> QED
        BY <3>1, <3>2, <3>3
    <2>4. CASE UNCHANGED vars
      BY <2>4
    <2>5. CASE \/ \E s \in Sensors : Lapse(s)
               \/ SupervisorTurn
               \/ LibraryStep /\ UNCHANGED taskVars
               \/ LifespanStep /\ UNCHANGED taskVars
      BY <2>1, <2>5 DEF Lapse, SupervisorTurn, taskVars
    <2> QED
      BY <1>1, <2>2, <2>3, <2>4, <2>5 DEF Next
  <1> QED
    BY <1>1, TaskingInvariant, PTL DEF Spec, AnswersStand

\* Connected and with its evidence written, the node gives a sensor that has a
\* task away only to a higher priority.
THEOREM LeasesYieldUpward == Spec => YieldsOnlyUpward
  <1> DEFINE Kept(s) == /\ leases'[s] # None
                        /\ \/ leases'[s].request = leases[s].request
                           \/ leases'[s].priority > leases[s].priority
             Yields == connected /\ auditFaults' = auditFaults =>
                         \A s \in Sensors :
                           Live(s) /\ sent[leases[s].request] > 0 => Kept(s)
  <1>1. ASSUME TaskingInv, Next PROVE Yields
    <2> SUFFICES ASSUME connected, auditFaults' = auditFaults,
                        NEW s \in Sensors, Live(s)
                 PROVE  Kept(s)
      OBVIOUS
    <2> USE <1>1
    <2>1. leases[s] \in Lease /\ leases[s] # None
      BY DEF TaskingInv, TypeOK, Live
    <2>2. ~ AuditFault
      BY TaskingBounds DEF AuditFault, TaskingInv, TypeOK
    <2>3. CanPublish
      BY DEF CanPublish, TaskingInv, ConnectionInv
    <2>4. ASSUME leases'[s] = leases[s] PROVE Kept(s)
      BY <2>1, <2>4
    <2>5. ASSUME NEW r \in TaskRequests, NEW t \in Task, TaskSensor(r, t)
          PROVE  Kept(s)
      <3>1. CASE DenyTask(r, t)
        BY <2>4, <3>1 DEF DenyTask
      <3>2. CASE GrantUnrecorded(r, t) \/ TaskNotSent(r, t)
        BY <2>2, <2>3, <3>2 DEF GrantUnrecorded, TaskNotSent
      <3>3. CASE \E c \in TaskCalls : PublishTask(c, r, t)
        <4>1. Claim(r, t) /\ ~ Held(r, t)
          BY <3>3 DEF PublishTask
        <4>2. CASE t.sensor # s
          BY <2>4, <4>1, <4>2 DEF Claim, TaskingInv, TypeOK
        <4>3. CASE t.sensor = s
          <5> DEFINE mine == [request |-> r, priority |-> t.priority, live |-> TRUE]
          <5>1. mine \in Lease
            BY DEF Lease, Task
          <5>2. leases'[s] = mine
            BY <4>1, <4>3 DEF Claim, TaskingInv, TypeOK
          <5>3. mine # None
            BY <5>1, NoneIsNeither
          <5>4. leases[s].request = r \/ t.priority > leases[s].priority
            BY <2>1, <4>1, <4>3 DEF Held, Lease, Task
          <5> QED
            BY <5>2, <5>3, <5>4
        <4> QED
          BY <4>2, <4>3
      <3> QED
        BY <2>5, <3>1, <3>2, <3>3 DEF TaskSensor
    <2>6. ASSUME NEW c \in TaskCalls, FinishTask(c) PROVE Kept(s)
      BY <2>4, <2>6 DEF FinishTask
    <2>7. ASSUME NEW q \in Sensors, Lapse(q) PROVE Kept(s)
      <3>1. leases' = [leases EXCEPT ![q].live = FALSE]
        BY <2>7 DEF Lapse
      <3>2. leases'[s] \in Lease /\ leases'[s].request = leases[s].request
        BY <2>1, <3>1 DEF TaskingInv, TypeOK, Lease
      <3> QED
        BY <3>2, NoneIsNeither
    <2>8. CASE SupervisorTurn
      BY <2>2, <2>4, <2>8 DEF SupervisorTurn, ExpireSensorTaskLeases
    <2>9. CASE (LibraryStep \/ LifespanStep) /\ UNCHANGED taskVars
      BY <2>4, <2>9 DEF taskVars
    <2> QED
      BY <2>5, <2>6, <2>7, <2>8, <2>9 DEF Next
  <1> QED
    BY <1>1, TaskingInvariant, PTL DEF Spec, YieldsOnlyUpward
=============================================================================
