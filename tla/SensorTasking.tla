--------------------------- MODULE SensorTasking ---------------------------
(***************************************************************************)
(* Remote sensor tasking: task_sensor of main.py, the lease table it       *)
(* arbitrates sensors with, and the supervisor that reaps it, over the     *)
(* node's bus connection.                                                  *)
(*                                                                         *)
(* task_sensor has one await, the publication.  What precedes it is one    *)
(* action (refused, not sent, or published and suspended), what follows it *)
(* another.  A request is identified by its request ID; its task ID is the *)
(* one the node derives from it.  The lookups and range checks refuse a    *)
(* call without changing anything and are left out, as is a repeat that    *)
(* is answered from the stored results.                                    *)
(***************************************************************************)
EXTENDS BusConnection

CONSTANTS
  None,
  Sensors, TaskRequests,
  TaskCalls,       \* executions of task_sensor that can be suspended at once
  MaxPriority,
  MaxAuditFaults   \* bound: times record() raises

ASSUME TaskingBounds == {MaxPriority, MaxAuditFaults} \subseteq Nat

VARIABLES
  leases,       \* State.sensor_task_leases
  inFlight,     \* State.task_inflight
  taskResults,  \* State.task_results
  taskCalls,    \* the suspended executions
  sent,         \* publications of each request (history)
  auditFaults

taskVars == <<leases, inFlight, taskResults, taskCalls, sent, auditFaults>>
vars == <<connectionVars, taskVars>>

Task   == [sensor : Sensors, priority : 1..MaxPriority]
Lease  == [request : TaskRequests, priority : 1..MaxPriority, live : BOOLEAN]
Result == [task : Task, delivery : {"DENIED", "ACCEPTED", "UNKNOWN"}]

ASSUME NoneIsNeither == None \notin Lease \cup Result

TypeOK ==
  /\ BusTypeOK
  /\ leases \in [Sensors -> Lease \cup {None}]
  /\ inFlight \subseteq TaskRequests
  /\ taskResults \in [TaskRequests -> Result \cup {None}]
  /\ taskCalls \in [TaskCalls -> [request : TaskRequests, task : Task] \cup {None}]
  /\ sent \in [TaskRequests -> Nat]
  /\ auditFaults \in 0..MaxAuditFaults

Init ==
  /\ BusInit
  /\ leases = [s \in Sensors |-> None]
  /\ inFlight = {}
  /\ taskResults = [r \in TaskRequests |-> None]
  /\ taskCalls = [c \in TaskCalls |-> None]
  /\ sent = [r \in TaskRequests |-> 0]
  /\ auditFaults = 0

-----------------------------------------------------------------------------
(* task_sensor, up to the publication.                                      *)

Live(s) == leases[s] # None /\ leases[s].live

\* SENSOR_PRIORITY_HELD.
Held(r, t) ==
  /\ Live(t.sensor)
  /\ leases[t.sensor].request # r
  /\ t.priority <= leases[t.sensor].priority

\* Faulty variant: a task that names no expiry leaves its lease without one.
ClaimUnstamped(r, t) ==
  leases' = [leases EXCEPT ![t.sensor] =
               [request |-> r, priority |-> t.priority, live |-> None]]

Claim(r, t) ==
  leases' = [leases EXCEPT ![t.sensor] =
               [request |-> r, priority |-> t.priority, live |-> TRUE]]

Release(s) == leases' = [leases EXCEPT ![s] = None]

Store(r, t, delivery) ==
  taskResults' = [taskResults EXCEPT ![r] = [task |-> t, delivery |-> delivery]]

AuditFault == auditFaults < MaxAuditFaults /\ auditFaults' = auditFaults + 1

\* Faulty variant: a request that is being published may be tasked again.
MayTaskAgain(r) == serving /\ taskResults[r] = None

MayTask(r) == serving /\ taskResults[r] = None /\ r \notin inFlight

\* The role, the sensor or the lease refuses; the denial is recorded and kept.
DenyTask(r, t) ==
  /\ MayTask(r)
  /\ \/ Store(r, t, "DENIED") /\ UNCHANGED auditFaults
     \/ AuditFault /\ UNCHANGED taskResults
  /\ UNCHANGED <<connectionVars, leases, inFlight, taskCalls, sent>>

\* The lease is claimed, the record of the grant raises, the lease is released:
\* an overridden lease does not come back.
GrantUnrecorded(r, t) ==
  /\ MayTask(r) /\ ~ Held(r, t)
  /\ AuditFault /\ Release(t.sensor)
  /\ UNCHANGED <<connectionVars, inFlight, taskResults, taskCalls, sent>>

\* NOT_SENT: nothing is stored, so the request may be tried again.
TaskNotSent(r, t) ==
  /\ MayTask(r) /\ ~ Held(r, t) /\ ~ CanPublish
  /\ \/ Release(t.sensor) /\ UNCHANGED auditFaults
     \/ AuditFault /\ Claim(r, t)
  /\ UNCHANGED <<connectionVars, inFlight, taskResults, taskCalls, sent>>

PublishTask(c, r, t) ==
  /\ MayTask(r) /\ ~ Held(r, t) /\ CanPublish
  /\ taskCalls[c] = None
  /\ Claim(r, t)
  /\ inFlight' = inFlight \cup {r}
  /\ taskCalls' = [taskCalls EXCEPT ![c] = [request |-> r, task |-> t]]
  /\ sent' = [sent EXCEPT ![r] = @ + 1]
  /\ UNCHANGED <<connectionVars, taskResults, auditFaults>>

-----------------------------------------------------------------------------
(* task_sensor, from the publication on.                                    *)

\* Faulty variant: an ambiguous delivery is treated like a failed one.
FinishAsUnsent(c) ==
  /\ taskCalls[c] # None
  /\ LET r == taskCalls[c].request
         t == taskCalls[c].task
     IN \/ Accepted /\ Store(r, t, "ACCEPTED") /\ UNCHANGED leases
        \/ DeliveryUnknown /\ Release(t.sensor) /\ UNCHANGED taskResults
  /\ inFlight' = inFlight \ {taskCalls[c].request}
  /\ taskCalls' = [taskCalls EXCEPT ![c] = None]
  /\ UNCHANGED <<sent, auditFaults>>

\* The outcome is recorded and stored; if the record raises it is not stored.
\* Either way the lease stays.
FinishTask(c) ==
  /\ taskCalls[c] # None
  /\ LET r == taskCalls[c].request
         t == taskCalls[c].task
         Outcome(delivery) == \/ Store(r, t, delivery) /\ UNCHANGED auditFaults
                              \/ AuditFault /\ UNCHANGED taskResults
     IN /\ \/ Accepted /\ Outcome("ACCEPTED")
           \/ DeliveryUnknown /\ Outcome("UNKNOWN")
        /\ inFlight' = inFlight \ {r}
  /\ taskCalls' = [taskCalls EXCEPT ![c] = None]
  /\ UNCHANGED <<leases, sent>>

-----------------------------------------------------------------------------
(* Time, and the supervisor.                                                *)

\* A lease's expiresAt passes.
Lapse(s) ==
  /\ Live(s)
  /\ leases' = [leases EXCEPT ![s].live = FALSE]
  /\ UNCHANGED <<connectionVars, inFlight, taskResults, taskCalls, sent, auditFaults>>

\* Faulty variant: the leases are dropped whatever their expiry.
ExpireAllLeases == leases' = [s \in Sensors |-> None]

ExpireSensorTaskLeases ==
  leases' = [s \in Sensors |-> IF Live(s) THEN leases[s] ELSE None]

\* The supervisor's turn: an evidence fault in the expiries before it leaves
\* the leases alone; the connection is looked after in any case.
SupervisorTurn ==
  /\ Supervise
  /\ \/ ExpireSensorTaskLeases /\ UNCHANGED auditFaults
     \/ AuditFault /\ UNCHANGED leases
  /\ UNCHANGED <<inFlight, taskResults, taskCalls, sent>>

-----------------------------------------------------------------------------
TaskSensor(r, t) ==
  \/ DenyTask(r, t)
  \/ GrantUnrecorded(r, t)
  \/ TaskNotSent(r, t)
  \/ \E c \in TaskCalls : PublishTask(c, r, t)

Next ==
  \/ \E r \in TaskRequests, t \in Task : TaskSensor(r, t)
  \/ \E c \in TaskCalls : FinishTask(c)
  \/ \E s \in Sensors : Lapse(s)
  \/ SupervisorTurn
  \/ LibraryStep /\ UNCHANGED taskVars
  \/ LifespanStep /\ UNCHANGED taskVars

Spec == Init /\ [][Next]_vars

\* What runs by itself: the library, the event loop and the supervisor.
Fairness ==
  /\ WF_vars((Reconnect \/ Callback) /\ UNCHANGED taskVars)
  /\ WF_vars(LifespanStep /\ UNCHANGED taskVars)
  /\ WF_vars(SupervisorTurn)

FairSpec == Spec /\ Fairness

-----------------------------------------------------------------------------
(* Properties.                                                              *)

\* A feed the node believes subscribed is subscribed on the client it uses,
\* through reconnections and new clients (bus.py:92, 137-148).
SubscribedIsInstalled == client # "none" => subscribed \subseteq onClient

\* Once the broker stays up and the supervisor has not been ended by an
\* exception, the node ends up connected, whatever callbacks and ambiguous
\* publications did to its flag before (main.py:960-963).
ConnectionRecovers ==
  <>[](broker /\ supervisor # "ended") => <>[] connected

\* A request leaves the node at most once, except that a result the audit could
\* not record is not remembered: the repeat of a request whose delivery is
\* unknown is answered, not sent (main.py:1525-1528).
SentOnce == \A r \in TaskRequests : sent[r] <= 1 + auditFaults

\* A stored answer is final, also while another call of the same request was
\* under way when it was stored (main.py:1354-1370).
AnswersStand ==
  [][\A r \in TaskRequests :
       taskResults[r] # None => /\ taskResults'[r] = taskResults[r]
                                /\ sent'[r] = sent[r]]_vars

\* While the node is connected and its evidence is written, an unexpired lease
\* of a task that was sent yields to a higher priority only: no outcome, repeat,
\* lower task or supervisor turn frees the sensor (main.py:1387-1421, 621-628).
YieldsOnlyUpward ==
  [][connected /\ auditFaults' = auditFaults =>
       \A s \in Sensors :
         Live(s) /\ sent[leases[s].request] > 0 =>
           /\ leases'[s] # None
           /\ \/ leases'[s].request = leases[s].request
              \/ leases'[s].priority > leases[s].priority]_vars

\* "sensor_priority_lease_blocks_lower" (tests/test_api.py:990-1017), taken
\* without the restriction above: a sensor whose task was sent is not given to a
\* lower or equal priority before the lease expires.  Not so: a higher task that
\* could not be sent takes the lease and drops it.
SentTaskKeepsSensor ==
  [][\A s \in Sensors :
       Live(s) /\ sent[leases[s].request] > 0 =>
         leases'[s] # None /\ leases'[s].priority >= leases[s].priority]_vars
=============================================================================
