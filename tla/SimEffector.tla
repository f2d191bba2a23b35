---------------------------- MODULE SimEffector ----------------------------
(***************************************************************************)
(* The reference effector (services/sensor-sim/simulation.py, sim.py):     *)
(* EngagementSimulator.execute and request_abort.  One subscription        *)
(* callback runs orders one after another; the control callback runs       *)
(* between the sleep quanta of the order in execution.                     *)
(*                                                                         *)
(* The token and local safety checks are inputs: any of them may refuse.   *)
(***************************************************************************)
EXTENDS FireBus

CONSTANT MaxEffectorRestarts

ASSUME EffectorParameter == MaxEffectorRestarts \in Nat

VARIABLES
  active,           \* EffectorModel.active_engagement_id
  execution,        \* per engagement: last state reported and its sequence
  abortRequests,    \* EngagementSimulator._abort_requests
  consumed,         \* per effector, engagements whose order token it consumed
  effectorRestarts

effectorVars == <<active, execution, abortRequests, consumed, effectorRestarts>>

Executing == {"ACCEPTED", "ACTIVE", "ASSESSING"}

\* "none": no order of it was ever accepted or refused after verification;
\* "interrupted": the simulator was restarted while executing it.
Phases == Executing \cup TerminalStates \cup {"none", "interrupted"}

EffectorTypeOK ==
  /\ active \in [Effectors -> Engagements \cup {None}]
  /\ execution \in [Engagements -> [phase : Phases, sequence : Nat]]
  /\ abortRequests \in [Engagements -> Nat]
  /\ consumed \in [Effectors -> SUBSET Engagements]
  /\ effectorRestarts \in 0..MaxEffectorRestarts

EffectorInit ==
  /\ active = [f \in Effectors |-> None]
  /\ execution = [e \in Engagements |-> [phase |-> "none", sequence |-> 0]]
  /\ abortRequests = [e \in Engagements |-> 0]   \* 0: none queued
  /\ consumed = [f \in Effectors |-> {}]
  /\ effectorRestarts = 0

\* Faulty variant: the effector numbers its reports from the proposal.
proposalSequence == 1

\* Of the AUTHORIZED status the order carries.
orderSequence == 2

Emit(e, f, state, sequence) ==
  statuses' = statuses \cup {[engagement |-> e, effector |-> f, state |-> state,
                              sequence |-> sequence]}

----------------------------------------------------------------------------
(* execute(): the checks on a delivered order                              *)

\* The order callback is free, and o is delivered to it.
TakeOrder(o) ==
  /\ o \in orders
  /\ active[o.effector] = None
  /\ orders' = OrdersAfterDelivery(o)
  /\ UNCHANGED <<controls, abortRequests, effectorRestarts>>

Consume(o) ==
  consumed' = [consumed EXCEPT ![o.effector] = @ \cup {o.engagement}]

\* Verification fails (signature, scope, expiry, replay): nothing is consumed.
RefuseUnverified(o) ==
  /\ TakeOrder(o)
  /\ Emit(o.engagement, o.effector, "DENIED", orderSequence + 1)
  /\ UNCHANGED <<active, execution, consumed>>

\* A local safety, applicability or inventory check fails after verification.
RefuseLocally(o) ==
  /\ TakeOrder(o)
  /\ o.engagement \notin consumed[o.effector]
  /\ Consume(o)
  /\ \E state \in {"DENIED", "FAILED"} :
       /\ Emit(o.engagement, o.effector, state, orderSequence + 1)
       /\ execution' = [execution EXCEPT ![o.engagement] =
                          [phase |-> state, sequence |-> orderSequence + 1]]
  /\ UNCHANGED active

\* Faulty variant: the replay check on the order's token is missing.
AcceptReplayed(o) ==
  /\ TakeOrder(o)
  /\ Consume(o)
  /\ active' = [active EXCEPT ![o.effector] = o.engagement]
  /\ execution' = [execution EXCEPT ![o.engagement] =
                     [phase |-> "ACCEPTED", sequence |-> orderSequence + 1]]
  /\ Emit(o.engagement, o.effector, "ACCEPTED", orderSequence + 1)

Accept(o) ==
  /\ TakeOrder(o)
  /\ o.engagement \notin consumed[o.effector]
  /\ Consume(o)
  /\ active' = [active EXCEPT ![o.effector] = o.engagement]
  /\ execution' = [execution EXCEPT ![o.engagement] =
                     [phase |-> "ACCEPTED", sequence |-> orderSequence + 1]]
  /\ Emit(o.engagement, o.effector, "ACCEPTED", orderSequence + 1)

----------------------------------------------------------------------------
(* execute(): delivery and assessment, interruptible between sleep quanta  *)

Following == [ACCEPTED |-> "ACTIVE", ACTIVE |-> "ASSESSING",
              ASSESSING |-> "COMPLETE"]

\* Faulty variant: the wait is not interrupted by a queued abort request.
AdvanceUninterrupted(f) ==
  LET e == active[f]
      state == Following[execution[e].phase]
      sequence == execution[e].sequence + 1
  IN
  /\ e # None
  /\ execution' = [execution EXCEPT ![e] = [phase |-> state, sequence |-> sequence]]
  /\ active' = IF state = "COMPLETE" THEN [active EXCEPT ![f] = None] ELSE active
  /\ Emit(e, f, state, sequence)
  /\ UNCHANGED <<abortRequests, consumed, effectorRestarts, orders, controls>>

\* A wait ended with no abort request found.
Advance(f) ==
  LET e == active[f] IN
  /\ e # None
  /\ abortRequests[e] = 0
  /\ LET state == Following[execution[e].phase]
         sequence == execution[e].sequence + 1
     IN /\ execution' = [execution EXCEPT ![e] =
                           [phase |-> state, sequence |-> sequence]]
        /\ active' = IF state = "COMPLETE" THEN [active EXCEPT ![f] = None]
                                           ELSE active
        /\ Emit(e, f, state, sequence)
  /\ UNCHANGED <<abortRequests, consumed, effectorRestarts, orders, controls>>

\* finish_abort(): the queued request is popped and answered with ABORTED.
Stop(f) ==
  LET e == active[f] IN
  /\ e # None
  /\ abortRequests[e] # 0
  /\ LET last == execution[e].sequence
         sequence == (IF abortRequests[e] > last THEN abortRequests[e]
                                                 ELSE last) + 1
     IN /\ execution' = [execution EXCEPT ![e] =
                           [phase |-> "ABORTED", sequence |-> sequence]]
        /\ Emit(e, f, "ABORTED", sequence)
  /\ active' = [active EXCEPT ![f] = None]
  /\ abortRequests' = [abortRequests EXCEPT ![e] = 0]
  /\ UNCHANGED <<consumed, effectorRestarts, orders, controls>>

----------------------------------------------------------------------------
\* request_abort(): a valid directive for the engagement being executed is
\* queued; one for another engagement, or whose token fails, is dropped.
ReceiveControl(d) ==
  /\ d \in controls /\ ControlInOrder(d)
  /\ controls' = controls \ {d}
  /\ \/ /\ active[d.effector] = d.engagement
        /\ abortRequests' = [abortRequests EXCEPT ![d.engagement] = d.sequence]
     \/ UNCHANGED abortRequests
  /\ UNCHANGED <<active, execution, consumed, effectorRestarts, orders, statuses>>

\* The simulator process is restarted: its inventory, replay cache and the
\* order it was executing are gone.
RestartEffector(f) ==
  /\ effectorRestarts < MaxEffectorRestarts
  /\ effectorRestarts' = effectorRestarts + 1
  /\ active' = [active EXCEPT ![f] = None]
  /\ execution' = [e \in Engagements |->
                     IF e = active[f] THEN [execution[e] EXCEPT !.phase = "interrupted"]
                                      ELSE execution[e]]
  /\ abortRequests' = [e \in Engagements |->
                         IF e = active[f] THEN 0 ELSE abortRequests[e]]
  /\ consumed' = [consumed EXCEPT ![f] = {}]
  /\ UNCHANGED busVars

ExecuteStep(f) ==
  \/ \E o \in orders : /\ o.effector = f
                       /\ RefuseUnverified(o) \/ RefuseLocally(o) \/ Accept(o)
  \/ Advance(f)
  \/ Stop(f)

EffectorNext ==
  \/ \E f \in Effectors : ExecuteStep(f) \/ RestartEffector(f)
  \/ \E d \in controls : ReceiveControl(d)
=============================================================================
