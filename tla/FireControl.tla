---------------------------- MODULE FireControl ----------------------------
(***************************************************************************)
(* The C2 node, the effectors and the bus between them, and what they      *)
(* promise together about an engagement.                                   *)
(***************************************************************************)
EXTENDS C2FireControl, SimEffector

CONSTANT RestConsume  \* TRUE: an effector may call the token-consume endpoint

ASSUME RestConsumeFlag == RestConsume \in BOOLEAN

vars == <<c2Vars, busVars, effectorVars>>

Init == C2Init /\ BusInit /\ EffectorInit

\* The order, and the token in it, has left the node.
HoldsToken(e) == \/ \E o \in orders : o.engagement = e
                 \/ execution[e].phase # "none"

C2Step == C2Next /\ UNCHANGED effectorVars

EffectorStep == EffectorNext /\ UNCHANGED c2Vars

TokenStep ==
  /\ RestConsume
  /\ \E e \in Engagements : HoldsToken(e) /\ ConsumeAuthorityToken(e)
  /\ UNCHANGED effectorVars

BusStep == Lose /\ UNCHANGED <<c2Vars, effectorVars>>

Next == C2Step \/ EffectorStep \/ TokenStep \/ BusStep

Spec == Init /\ [][Next]_vars

TypeOK == C2TypeOK /\ BusTypeOK /\ EffectorTypeOK

----------------------------------------------------------------------------
(* Safety                                                                  *)

\* The reservation table is exactly the set of live engagements: an effector
\* is reserved by an engagement iff that engagement was released to it and is
\* not terminal, whatever was denied, timed out or left unacknowledged meanwhile.
ReservationExact ==
  \A f \in Effectors, e \in Engagements :
    (reservations[f] = e) <=> (Live(e) /\ engagements[e].effector = f)

\* While an order is on its way to an effector, or being executed by it, the
\* node keeps that effector reserved by that engagement: no timeout, refusal or
\* abort answer frees it early ("positive reconciliation", main.py).  A restart
\* of the node forgets reservations, and an order delivered twice can be refused
\* first and executed later; the promise is made without either.
InhibitCoversOrders ==
  (c2Restarts = 0 /\ ~Redelivery) =>
    /\ \A o \in orders : reservations[o.effector] = o.engagement
    /\ \A f \in Effectors : active[f] # None => reservations[f] = active[f]

\* What a report, or the ledger, says of e by `state` is what its effector did.
Happened(e, state) ==
  /\ state = "COMPLETE" => execution[e].phase = "COMPLETE"
  /\ state = "ABORTED" => execution[e].phase = "ABORTED"
  /\ state \in {"DENIED", "FAILED"} =>
       execution[e].phase \in {"none", "DENIED", "FAILED"}

\* A terminal state in the ledger is what happened at the effector: ABORTED and
\* COMPLETE are never declared by the node alone, and nothing was or will be
\* executed for a DENIED or FAILED engagement.
TerminalIsTruthful == \A e \in Engagements : Happened(e, engagements[e].state)

\* No order leaves the node before its authorization is in the audit file.
EvidenceBeforeOrder ==
  /\ orders \subseteq evidence
  /\ \A e \in Engagements : execution[e].phase # "none" =>
       \E r \in evidence : r.engagement = e

\* One request ID is authorized at most once, however often it is submitted
\* and whichever of its executions fail.
OneEngagementPerRequest ==
  c2Restarts = 0 =>
    \A r, s \in evidence : r.request = s.request => r = s

Awaiting == {"DELIVERY_UNKNOWN", "AWAITING_ACK"}

Settled == {"NOT_SENT", "EFFECTOR_ACKNOWLEDGED", "TERMINAL_WITHOUT_ABORT_ACK"}

\* The reconciled receipt of an abort directive agrees with the ledger.
ReceiptIsTruthful ==
  \A a \in AbortRequests :
    LET state == engagements[receipts[a].engagement].state IN
    /\ receipts[a].delivery = "EFFECTOR_ACKNOWLEDGED" => state = "ABORTED"
    /\ receipts[a].delivery = "TERMINAL_WITHOUT_ABORT_ACK" =>
         state \in TerminalStates \ {"ABORTED"}

\* A terminal engagement carries no live annotation: nothing is pending, timed
\* out or of unknown delivery once the outcome is known.
NoStaleAnnotation ==
  /\ \A e \in deliveryUnknown : engagements[e].state = "AUTHORIZED"
  /\ \A e \in ackTimeouts \cup abortAckTimeouts : Live(e)
  /\ \A e \in Engagements : abortPending[e] # None => Live(e)

\* A receipt that says an acknowledgement is awaited, for an engagement not yet
\* terminal, is backed by the pending marker that will reconcile it.
PendingMarkerRetained ==
  \A a \in AbortRequests :
    LET e == receipts[a].engagement IN
    (receipts[a].delivery \in Awaiting /\ Live(e))
      => abortPending[e] = a

----------------------------------------------------------------------------
(* The inductive strengthening of the invariants above                     *)

\* A suspended request handler knows its request, its effector and, once it
\* publishes, its engagement.
CallsWellFormed ==
  \A c \in Calls :
    /\ calls[c].pc # "idle" =>
         calls[c].request \in Requests /\ calls[c].effector \in Effectors
    /\ calls[c].pc \in {"publishing", "auditing"} =>
         calls[c].engagement \in Engagements

\* An engagement has one authorization record, naming its one effector.
EvidenceUnique ==
  /\ \A r \in evidence : r.engagement \in used
  /\ \A r, s \in evidence : r.engagement = s.engagement => r = s

\* The effector executes what it was authorized to, and is between phases.
ActiveEvidenced ==
  \A f \in Effectors : active[f] # None =>
    /\ execution[active[f]].phase \in Executing
    /\ \E r \in evidence : r.engagement = active[f] /\ r.effector = f

\* The ledger knows only drawn IDs; PROPOSED never survives to an await.
LedgerKnown ==
  \A e \in Engagements : Known(e) =>
    /\ e \in used
    /\ engagements[e].effector \in Effectors
    /\ engagements[e].state # "PROPOSED"

\* A terminal report is the effector's last word: its order is not in flight
\* and it is not executing.
ReportsAreLastWords ==
  \A m \in statuses :
    /\ m.engagement \in used
    /\ (c2Restarts = 0 /\ ~Redelivery /\ m.state \in TerminalStates) =>
         /\ \A o \in orders : o.engagement # m.engagement
         /\ \A f \in Effectors : active[f] # m.engagement

\* Without redelivery an order is not in flight once it is being executed.
OrderTakenOnce ==
  ~Redelivery =>
    \A o \in orders, f \in Effectors : active[f] # o.engagement

FireInv ==
  /\ TypeOK
  /\ CallsWellFormed /\ EvidenceUnique /\ EvidenceBeforeOrder /\ ActiveEvidenced
  /\ LedgerKnown /\ ReservationExact
  /\ InhibitCoversOrders /\ ReportsAreLastWords /\ OrderTakenOnce

----------------------------------------------------------------------------
(* The same for requests, abort directives and outcomes                    *)

\* A waiting handler has claimed its request alone, and the request table leads
\* to the engagement that was authorized for a request.
RequestsClaimed ==
  /\ \A c \in Calls : calls[c].pc = "waiting" =>
       /\ requests[calls[c].request] = InProgress
       /\ \A d \in Calls :
            (calls[d].pc = "waiting" /\ calls[d].request = calls[c].request) => d = c
  /\ c2Restarts = 0 => \A r \in evidence : requests[r.request] = r.engagement

\* While its order is published an engagement is as released or was answered.
PublishingIsCurrent ==
  /\ \A e \in Engagements : Known(e) => engagements[e].sequence >= 2
  /\ \A c \in Calls : calls[c].pc = "publishing" =>
       LET s == engagements[calls[c].engagement] IN
       /\ s.state # "ABSENT"
       /\ s.sequence <= 2 => s.state = "AUTHORIZED"

\* A stored receipt names an engagement; a pending marker belongs to the
\* directive being published, or to one whose receipt for it is not settled.
MarkersBacked ==
  /\ \A a \in AbortRequests :
       /\ receipts[a] # NoReceipt => receipts[a].engagement \in Engagements
       /\ aborts[a] # None => receipts[a] = NoReceipt
  /\ \A e \in Engagements, a \in AbortRequests : abortPending[e] = a =>
       \/ aborts[a] = e
       \/ receipts[a].engagement = e /\ receipts[a].delivery \notin Settled

NotOrdered(e) == \A o \in orders : o.engagement # e

\* Unless an order can come twice, an outcome that is known, or on its way to
\* the node, stands: the order is spent.
OutcomesStand ==
  ~Redelivery =>
    /\ \A e \in Engagements :
         execution[e].phase # "none" \/ Terminal(e) => NotOrdered(e)
    /\ \A m \in statuses :
         /\ Happened(m.engagement, m.state)
         /\ m.state \in TerminalStates => NotOrdered(m.engagement)
    /\ TerminalIsTruthful

AbortsQueuedInTime ==
  \A e \in Engagements : abortRequests[e] # 0 => \E f \in Effectors : active[f] = e

TokensSpent ==
  effectorRestarts = 0 =>
    \A r \in evidence :
      execution[r.engagement].phase # "none" => r.engagement \in consumed[r.effector]

OutcomeInv ==
  /\ RequestsClaimed /\ PublishingIsCurrent /\ NoStaleAnnotation /\ MarkersBacked
  /\ ReceiptIsTruthful /\ OutcomesStand /\ AbortsQueuedInTime /\ TokensSpent

\* What the effector's reports need in order to reach the ledger: a bus that
\* neither loses, reorders nor repeats, comparable clocks, and an effector that
\* reports by status only.
Reliable == ~(Lossy \/ Reorder \/ Redelivery \/ ClockSkew \/ RestConsume)

\* Sequence number of the status that is not a refusal or an abort.
Stage == [AUTHORIZED |-> 2, ACCEPTED |-> 3, ACTIVE |-> 4, ASSESSING |-> 5,
          COMPLETE |-> 6]

\* Among the reports R of one engagement, m is the next of ledger entry s or of
\* another report, and no later than execution x.
Follows(m, s, x, R) ==
  /\ m.effector = s.effector /\ m.sequence > s.sequence
  /\ x.phase # "none" => m.sequence <= x.sequence
  /\ \/ /\ m.state \in DOMAIN Stage \ {"AUTHORIZED"} /\ m.sequence = Stage[m.state]
        /\ \/ m.sequence = s.sequence + 1
           \/ \E n \in R : n.sequence = m.sequence - 1
     \/ m.state \in {"DENIED", "FAILED"} /\ m.sequence = 3
     \/ m.state = "ABORTED"
  /\ m.state \in TerminalStates => \A n \in R : n.sequence <= m.sequence
  /\ \A n \in R : n.sequence = m.sequence => n = m

\* Ledger entry s, reports in flight R and execution x are one unbroken history.
History(s, x, R) ==
  /\ s.state \in LiveStates => s.sequence = Stage[s.state]
  /\ x.phase \in Executing => x.sequence = Stage[x.phase]
  /\ x.phase \notin {"none", "interrupted"} =>
       s.state = x.phase \/ \E m \in R : m.state = x.phase
  /\ R # {} => s.state \in LiveStates
  /\ \A m \in R : Follows(m, s, x, R)

ReportsOf(e) == {m \in statuses : m.engagement = e}

InStep(e) ==
  /\ History(engagements[e], execution[e], ReportsOf(e))
  /\ ~NotOrdered(e) => engagements[e].state = "AUTHORIZED" /\ ReportsOf(e) = {}

ReportsInStep ==
  (Reliable /\ c2Restarts = 0) => \A e \in Engagements : InStep(e)

----------------------------------------------------------------------------
(* Actions                                                                 *)

\* A settled abort receipt is never rewritten by a later callback or timeout.
ReceiptsSettle ==
  [][c2Restarts' = c2Restarts =>
       \A a \in AbortRequests :
         receipts[a].delivery \in Settled => receipts'[a] = receipts[a]]_vars

\* Once an effector has accepted, refused or finished an order it never starts
\* executing it again, even when the order is delivered twice.
NeverExecutedTwice ==
  [][\A e \in Engagements :
       execution[e].phase # "none" =>
         execution'[e].phase # "ACCEPTED" \/ execution'[e] = execution[e]]_vars

\* An abort request the effector has taken is answered by ABORTED: the
\* execution never runs on to its next phase.
AbortPreemptsEffect ==
  [][\A e \in Engagements :
       (/\ abortRequests[e] # 0
        /\ execution'[e] # execution[e])
         => execution'[e].phase \in {"ABORTED", "interrupted"}]_vars

----------------------------------------------------------------------------
(* Refinement                                                              *)

\* An order in flight is a command, an execution is an effect under way, and
\* the node's reservation table is the holder.
Effect(e) ==
  IF e \notin used THEN "none"
  ELSE IF \E o \in orders : o.engagement = e THEN "commanded"
  ELSE IF \E f \in Effectors : active[f] = e THEN "underway"
  ELSE "over"

Interlock == INSTANCE EffectInterlock
               WITH holder <- reservations,
                    effect <- [e \in Engagements |-> Effect(e)]

\* Fire control implements the effect interlock: the effector is never given to
\* a second engagement while the first one's order or effect is outstanding.
ImplementsInterlock == Interlock!InterlockSpec

----------------------------------------------------------------------------
(* Liveness                                                                *)

\* The event loop runs every ready coroutine; the effector's timers fire; a
\* message that is never lost is eventually delivered; deadlines pass.
Fairness ==
  /\ \A c \in Calls : WF_vars(/\ FinishRequest(c) \/ ReturnAccepted(c)
                              /\ UNCHANGED effectorVars)
  /\ \A a \in AbortRequests : WF_vars(FinishAbort(a) /\ UNCHANGED effectorVars)
  /\ WF_vars((\E m \in statuses : ReceiveStatus(m)) /\ UNCHANGED effectorVars)
  /\ WF_vars(Expire(Overdue, Orphaned, AwaitedAborts) /\ UNCHANGED effectorVars)
  /\ \A f \in Effectors : WF_vars(ExecuteStep(f) /\ UNCHANGED c2Vars)
  /\ WF_vars((\E d \in controls : ReceiveControl(d)) /\ UNCHANGED c2Vars)

FairSpec == Spec /\ Fairness

\* With a bus that loses nothing, every released engagement becomes terminal
\* and its effector is free for the next one.
ReleasedEventuallyTerminal ==
  \A e \in Engagements : Live(e) ~> Terminal(e)

\* An abort directive whose pending marker outlived its publication is answered
\* by the effector, overtaken by another terminal state or timed out, even if
\* every message is lost.
AbortEventuallyAnswered ==
  \A a \in AbortRequests, e \in Engagements :
    (abortPending[e] = a /\ receipts[a].delivery \in Awaiting)
      ~> (receipts[a].delivery \notin Awaiting)

\* An engagement no status ever arrives for does not stay silently AUTHORIZED.
SilenceIsFlagged ==
  \A e \in Engagements : Live(e) ~> (Terminal(e) \/ e \in ackTimeouts)

\* With a bus that loses nothing, what the effector decided and reported is
\* what the ledger says, rejections after C2 authorization included.
EffectorVerdictIsFinal ==
  \A e \in Engagements :
    (/\ execution[e].phase \in TerminalStates
     /\ ~ \E m \in statuses : m.engagement = e)
      => engagements[e].state = execution[e].phase
=============================================================================
