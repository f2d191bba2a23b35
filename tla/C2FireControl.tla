--------------------------- MODULE C2FireControl ---------------------------
(***************************************************************************)
(* The fire-control part of the C2 node (services/c2-core/app/main.py):    *)
(* the engagement request handler, the abort handler, the engagement       *)
(* status callback, the token-consume endpoint and the command-expiry half *)
(* of the supervisor.  The node is one asyncio process: a handler runs     *)
(* without interruption between two awaits, so each action below is the    *)
(* code from one await (or the start) to the next.  The awaits that matter *)
(* are the acquisition of the effector's engagement lock and the           *)
(* publication of an order, of a control directive and of the audit copy.  *)
(*                                                                         *)
(* Elapsed time and the four release gates are inputs: a timeout may have  *)
(* expired, and a gate may refuse, whenever the code asks.                 *)
(***************************************************************************)
EXTENDS FireBus

CONSTANTS
  Calls,          \* concurrent executions of POST /engagements
  ClockSkew,      \* TRUE: a status may fail transition()'s timestamp check
  AuditMayFail,   \* TRUE: record() may raise (the evidence sink is down)
  MaxC2Restarts   \* bound on restarts of the node

ASSUME C2Flags == {ClockSkew, AuditMayFail} \subseteq BOOLEAN

ASSUME C2Bound == MaxC2Restarts \in Nat

ASSUME InProgressIsFresh == "in progress" \notin Engagements \cup {None}

VARIABLES
  engagements,        \* state.engagements
  requests,           \* state.engagement_requests, without the fingerprint
  reservations,       \* state.effector_reservations
  deliveryUnknown,    \* state.delivery_unknown
  ackTimeouts,        \* state.ack_timeouts
  abortPending,       \* state.abort_pending
  abortAckTimeouts,   \* state.abort_ack_timeouts
  receipts,           \* state.control_requests
  consumedTokens,     \* engagements whose order token state.tokens consumed
  calls,              \* suspended executions of request_engagement
  aborts,             \* executions of abort_engagement awaiting publication
  evidence,           \* ENGAGEMENT_AUTHORIZED records in the audit file
  used,               \* engagement IDs ever drawn
  c2Restarts

ledgerVars == <<engagements, reservations, deliveryUnknown, ackTimeouts>>
abortVars  == <<abortPending, abortAckTimeouts, receipts, aborts>>
callVars   == <<requests, calls, used>>
logVars    == <<evidence, consumedTokens, c2Restarts>>
c2Vars     == <<ledgerVars, abortVars, callVars, logVars>>

----------------------------------------------------------------------------
InProgress == "in progress"

Call == [pc : {"idle", "waiting", "publishing", "auditing"},
         request : Requests \cup {None}, effector : Effectors \cup {None},
         engagement : Engagements \cup {None}]

IdleCall == [pc |-> "idle", request |-> None, effector |-> None,
             engagement |-> None]

\* EngagementControlReceipt; its http status is a function of `delivery`.
Receipt == [engagement : Engagements \cup {None},
            delivery : {"NONE", "NOT_SENT", "DELIVERY_UNKNOWN", "AWAITING_ACK",
                        "EFFECTOR_ACKNOWLEDGED", "TERMINAL_WITHOUT_ABORT_ACK",
                        "ACK_TIMEOUT"},
            accepted : BOOLEAN]

NoReceipt == [engagement |-> None, delivery |-> "NONE", accepted |-> FALSE]

ReceiptFor(e, delivery) ==
  [engagement |-> e, delivery |-> delivery,
   accepted |-> delivery \in {"AWAITING_ACK", "EFFECTOR_ACKNOWLEDGED"}]

Evidence == [engagement : Engagements, request : Requests, effector : Effectors]

C2TypeOK ==
  /\ engagements \in [Engagements -> Status]
  /\ requests \in [Requests -> Engagements \cup {None, InProgress}]
  /\ reservations \in [Effectors -> Engagements \cup {None}]
  /\ deliveryUnknown \subseteq Engagements /\ ackTimeouts \subseteq Engagements
  /\ abortAckTimeouts \subseteq Engagements
  /\ consumedTokens \subseteq Engagements /\ used \subseteq Engagements
  /\ abortPending \in [Engagements -> AbortRequests \cup {None}]
  /\ receipts \in [AbortRequests -> Receipt]
  /\ calls \in [Calls -> Call]
  /\ aborts \in [AbortRequests -> Engagements \cup {None}]
  /\ evidence \subseteq Evidence
  /\ c2Restarts \in 0..MaxC2Restarts

C2Init ==
  /\ engagements = [e \in Engagements |-> NoStatus]
  /\ requests = [r \in Requests |-> None]
  /\ reservations = [f \in Effectors |-> None]
  /\ deliveryUnknown = {} /\ ackTimeouts = {}
  /\ abortPending = [e \in Engagements |-> None]
  /\ abortAckTimeouts = {}
  /\ receipts = [a \in AbortRequests |-> NoReceipt]
  /\ aborts = [a \in AbortRequests |-> None]
  /\ calls = [c \in Calls |-> IdleCall]
  /\ consumedTokens = {} /\ evidence = {} /\ used = {} /\ c2Restarts = 0

----------------------------------------------------------------------------
(* State.transition                                                        *)

Known(e) == engagements[e].state # "ABSENT"
Terminal(e) == engagements[e].state \in TerminalStates
Live(e) == engagements[e].state \in LiveStates

EngagementStatus(e, state, sequence) ==
  [state |-> state, sequence |-> sequence, effector |-> engagements[e].effector]

\* Faulty variant: any terminal status counts as the effector's abort answer.
ReceiptsAlwaysAcknowledged(e, state) ==
  [a \in AbortRequests |->
     IF /\ state \in TerminalStates
        /\ abortPending[e] = a
        /\ receipts[a] # NoReceipt
     THEN ReceiptFor(e, "EFFECTOR_ACKNOWLEDGED")
     ELSE receipts[a]]

\* The pending abort directive's receipt, answered by a terminal status.
ReceiptsAfter(e, state) ==
  [a \in AbortRequests |->
     IF /\ state \in TerminalStates
        /\ abortPending[e] = a
        /\ receipts[a] # NoReceipt
     THEN ReceiptFor(e, IF state = "ABORTED" THEN "EFFECTOR_ACKNOWLEDGED"
                                             ELSE "TERMINAL_WITHOUT_ABORT_ACK")
     ELSE receipts[a]]

\* Faulty variant: a terminal status leaves the pending abort marker behind.
TransitionKeepingMarker(e, s) ==
  LET ends == s.state \in TerminalStates IN
  /\ engagements' = [engagements EXCEPT ![e] = s]
  /\ deliveryUnknown' = deliveryUnknown \ {e}
  /\ ackTimeouts' = ackTimeouts \ {e}
  /\ receipts' = ReceiptsAfter(e, s.state)
  /\ reservations' = IF ends /\ reservations[s.effector] = e
                       THEN [reservations EXCEPT ![s.effector] = None]
                       ELSE reservations
  /\ UNCHANGED <<abortPending, abortAckTimeouts, aborts>>

\* The APPLIED branch, for a status s that Applies to engagement e.
Transition(e, s) ==
  LET ends == s.state \in TerminalStates IN
  /\ engagements' = [engagements EXCEPT ![e] = s]
  /\ deliveryUnknown' = IF s.sequence > 2 \/ ends THEN deliveryUnknown \ {e}
                                                  ELSE deliveryUnknown
  /\ ackTimeouts' = ackTimeouts \ {e}
  /\ receipts' = ReceiptsAfter(e, s.state)
  /\ reservations' = IF ends /\ reservations[s.effector] = e
                       THEN [reservations EXCEPT ![s.effector] = None]
                       ELSE reservations
  /\ abortPending' = IF ends THEN [abortPending EXCEPT ![e] = None]
                             ELSE abortPending
  /\ abortAckTimeouts' = IF ends THEN abortAckTimeouts \ {e}
                                 ELSE abortAckTimeouts
  /\ UNCHANGED aborts

----------------------------------------------------------------------------
(* POST /engagements                                                       *)

\* Faulty variant: the request ID is claimed only once the lock is held.
SubmitUnclaimed(c, r, f) ==
  /\ calls[c].pc = "idle"
  /\ requests[r] = None
  /\ calls' = [calls EXCEPT ![c] = [pc |-> "waiting", request |-> r,
                                    effector |-> f, engagement |-> None]]
  /\ UNCHANGED <<requests, ledgerVars, abortVars, used, logVars, busVars>>

\* Up to the engagement lock: a request ID is claimed before the first await.
\* A known ID is answered from the ledger (or with 409) and changes nothing.
SubmitRequest(c, r, f) ==
  /\ calls[c].pc = "idle"
  /\ requests[r] = None
  /\ requests' = [requests EXCEPT ![r] = InProgress]
  /\ calls' = [calls EXCEPT ![c] = [pc |-> "waiting", request |-> r,
                                    effector |-> f, engagement |-> None]]
  /\ UNCHANGED <<ledgerVars, abortVars, used, logVars, busVars>>

\* state.engagement_locks[f]; asyncio.Lock is held across the handler's awaits.
LockFree(f) ==
  \A c \in Calls : calls[c].effector = f => calls[c].pc \in {"idle", "waiting"}

\* The lock is taken, a fresh engagement ID drawn and PROPOSED recorded; the
\* rest of the handler, up to its next await, leaves the engagement in `state`.
Open(c, e, state, sequence) ==
  /\ calls[c].pc = "waiting"
  /\ LockFree(calls[c].effector)
  /\ e \notin used
  /\ used' = used \cup {e}
  /\ requests' = [requests EXCEPT ![calls[c].request] = e]
  /\ engagements' = [engagements EXCEPT ![e] =
       [state |-> state, sequence |-> sequence, effector |-> calls[c].effector]]
  /\ UNCHANGED <<deliveryUnknown, ackTimeouts, abortVars, consumedTokens,
                 c2Restarts, controls, statuses>>

Return(c) == calls' = [calls EXCEPT ![c] = IdleCall]

AuthorizedRecord(c, e) ==
  [engagement |-> e, request |-> calls[c].request, effector |-> calls[c].effector]

\* A reservation or a gate refuses.  Without the guard on `reservations` the
\* same action covers the gates, whose answer is an input of this model.
Deny(c, e) ==
  /\ Open(c, e, "DENIED", 2)
  /\ Return(c)
  /\ UNCHANGED <<reservations, evidence, orders>>

\* record() raises at PROPOSED (FAILED 2) or at AUTHORIZED (FAILED 3).
InhibitForAudit(c, e) ==
  /\ AuditMayFail
  /\ \/ Open(c, e, "FAILED", 2)
     \/ Open(c, e, "FAILED", 3) /\ reservations[calls[c].effector] = None
  /\ Return(c)
  /\ UNCHANGED <<reservations, evidence, orders>>

\* The bus is down: publish_outcome returns NOT_SENT without suspending.
FailUnsent(c, e) ==
  /\ Open(c, e, "FAILED", 3)
  /\ reservations[calls[c].effector] = None
  /\ evidence' = evidence \cup {AuthorizedRecord(c, e)}
  /\ Return(c)
  /\ UNCHANGED <<reservations, orders>>

\* AUTHORIZED is recorded, the effector reserved and the order handed to the
\* client library; the handler suspends in flush().
Release(c, e) ==
  /\ Open(c, e, "AUTHORIZED", 2)
  /\ reservations[calls[c].effector] = None
  /\ evidence' = evidence \cup {AuthorizedRecord(c, e)}
  /\ reservations' = [reservations EXCEPT ![calls[c].effector] = e]
  /\ orders' = orders \cup {AuthorizedRecord(c, e)}
  /\ calls' = [calls EXCEPT ![c].pc = "publishing", ![c].engagement = e]

\* Faulty variant: an ambiguous delivery is annotated without looking whether
\* the effector has answered meanwhile.
FinishUnchecked(c) ==
  LET e == calls[c].engagement IN
  /\ calls[c].pc = "publishing"
  /\ deliveryUnknown' = deliveryUnknown \cup {e}
  /\ Return(c)
  /\ UNCHANGED <<engagements, reservations, ackTimeouts, abortVars, requests,
                 used, logVars, busVars>>

\* Faulty variant: an ambiguous delivery is taken for a failed one.
FinishReleasing(c) ==
  LET e == calls[c].engagement IN
  /\ calls[c].pc = "publishing"
  /\ Return(c)
  /\ IF engagements[e].sequence > 2
       THEN UNCHANGED <<ledgerVars, abortVars>>
       ELSE Transition(e, EngagementStatus(e, "FAILED", 3))
  /\ UNCHANGED <<requests, used, logVars, busVars>>

\* After flush().  An acknowledgement that overtook it wins; otherwise an
\* ambiguous delivery is remembered and an accepted one is copied to the audit
\* subject (one more await under the lock).
FinishRequest(c) ==
  LET e == calls[c].engagement IN
  /\ calls[c].pc = "publishing"
  /\ \/ /\ engagements[e].sequence > 2
        /\ Return(c)
        /\ UNCHANGED deliveryUnknown
     \/ /\ engagements[e].sequence <= 2
        /\ deliveryUnknown' = deliveryUnknown \cup {e}
        /\ Return(c)
     \/ /\ engagements[e].sequence <= 2
        /\ calls' = [calls EXCEPT ![c].pc = "auditing"]
        /\ UNCHANGED deliveryUnknown
  /\ UNCHANGED <<engagements, reservations, ackTimeouts, abortVars, requests,
                 used, logVars, busVars>>

ReturnAccepted(c) ==
  /\ calls[c].pc = "auditing"
  /\ Return(c)
  /\ UNCHANGED <<ledgerVars, abortVars, requests, used, logVars, busVars>>

----------------------------------------------------------------------------
(* POST /engagements/{id}/abort                                            *)

\* The checks under the per-engagement abort lock, up to the publication.
MayAbort(a, e) ==
  /\ receipts[a] = NoReceipt /\ aborts[a] = None
  /\ Known(e) /\ ~Terminal(e)
  /\ abortPending[e] = None
  /\ \A b \in AbortRequests : aborts[b] # e

AbortUnsent(a, e) ==
  /\ MayAbort(a, e)
  /\ receipts' = [receipts EXCEPT ![a] = ReceiptFor(e, "NOT_SENT")]
  /\ abortAckTimeouts' = abortAckTimeouts \ {e}
  /\ UNCHANGED <<ledgerVars, abortPending, aborts, callVars, logVars, busVars>>

\* Faulty variant: a directive handed to the bus is taken for an abort.
SendAbortAssumed(a, e) ==
  /\ MayAbort(a, e)
  /\ Transition(e, EngagementStatus(e, "ABORTED", engagements[e].sequence + 1))
  /\ controls' = controls \cup
       {[engagement |-> e, request |-> a, effector |-> engagements[e].effector,
         sequence |-> engagements[e].sequence + 1]}
  /\ UNCHANGED <<callVars, logVars, orders, statuses>>

SendAbort(a, e) ==
  /\ MayAbort(a, e)
  /\ abortPending' = [abortPending EXCEPT ![e] = a]
  /\ abortAckTimeouts' = abortAckTimeouts \ {e}
  /\ aborts' = [aborts EXCEPT ![a] = e]
  /\ controls' = controls \cup
       {[engagement |-> e, request |-> a, effector |-> engagements[e].effector,
         sequence |-> engagements[e].sequence + 1]}
  /\ UNCHANGED <<ledgerVars, receipts, callVars, logVars, orders, statuses>>

\* After flush(): the stored receipt tells what became of the directive.
FinishAbort(a) ==
  LET e == aborts[a] IN
  /\ e # None
  /\ aborts' = [aborts EXCEPT ![a] = None]
  /\ \E delivery \in
          IF Terminal(e)
          THEN {IF engagements[e].state = "ABORTED"
                  THEN "EFFECTOR_ACKNOWLEDGED" ELSE "TERMINAL_WITHOUT_ABORT_ACK"}
          ELSE {"DELIVERY_UNKNOWN", "AWAITING_ACK"} :
       receipts' = [receipts EXCEPT ![a] = ReceiptFor(e, delivery)]
  /\ UNCHANGED <<ledgerVars, abortPending, abortAckTimeouts, callVars, logVars,
                 busVars>>

----------------------------------------------------------------------------
(* _on_engagement_status                                                   *)

ReceiveStatus(m) ==
  LET e == m.engagement
      s == [state |-> m.state, sequence |-> m.sequence, effector |-> m.effector]
  IN
  /\ m \in statuses /\ ReportInOrder(m)
  /\ statuses' = statuses \ {m}
  /\ \E timely \in IF ClockSkew THEN BOOLEAN ELSE {TRUE} :
       IF Known(e) /\ Verdict(engagements[e], s, timely) = "APPLIED"
         THEN Transition(e, s)
         ELSE UNCHANGED <<ledgerVars, abortVars>>
  /\ UNCHANGED <<callVars, logVars, orders, controls>>

\* Faulty variant: a consumed token revives whatever state the ledger is in.
ConsumeInAnyState(e) ==
  /\ Known(e)
  /\ e \notin consumedTokens
  /\ consumedTokens' = consumedTokens \cup {e}
  /\ Transition(e, EngagementStatus(e, "ACCEPTED", engagements[e].sequence + 1))
  /\ UNCHANGED <<callVars, evidence, c2Restarts, busVars>>

(* POST /authority/tokens/consume, by the effector that holds the order.   *)
\* The token is spent even when the engagement is no longer AUTHORIZED; a
\* restarted node does not know the tokens it issued before.
ConsumeAuthorityToken(e) ==
  /\ Known(e)
  /\ e \notin consumedTokens
  /\ consumedTokens' = consumedTokens \cup {e}
  /\ IF engagements[e].state = "AUTHORIZED"
       THEN Transition(e, EngagementStatus(e, "ACCEPTED",
                                           engagements[e].sequence + 1))
       ELSE UNCHANGED <<ledgerVars, abortVars>>
  /\ UNCHANGED <<callVars, evidence, c2Restarts, busVars>>

----------------------------------------------------------------------------
(* expire_stale_commands, every two seconds                                *)

\* Markers whose directive has no stored receipt are dropped.
Orphaned == {e \in Engagements : /\ abortPending[e] # None
                                 /\ receipts[abortPending[e]] = NoReceipt}

\* Faulty variant: only directives the broker accepted are given a deadline.
AcceptedAborts == {e \in Engagements \ abortAckTimeouts :
                     /\ abortPending[e] # None
                     /\ receipts[abortPending[e]].delivery = "AWAITING_ACK"}

AwaitedAborts == {e \in Engagements \ abortAckTimeouts :
                    /\ abortPending[e] # None
                    /\ receipts[abortPending[e]] # NoReceipt}

\* Faulty variant: a command without an answer is failed and its effector freed.
ExpireAsFailed(late, dropped, lateAborts) ==
  /\ engagements' = [e \in Engagements |->
                       IF e \in late THEN [engagements[e] EXCEPT !.state = "FAILED"]
                                    ELSE engagements[e]]
  /\ reservations' = [f \in Effectors |->
                        IF reservations[f] \in late THEN None ELSE reservations[f]]
  /\ UNCHANGED <<deliveryUnknown, ackTimeouts, abortVars, callVars, logVars,
                 busVars>>

\* One pass over the commands in `late` and `lateAborts`, whose deadline passed.
Expire(late, dropped, lateAborts) ==
  /\ ackTimeouts' = ackTimeouts \cup late
  /\ abortPending' = [e \in Engagements |->
                        IF e \in dropped THEN None ELSE abortPending[e]]
  /\ receipts' = [a \in AbortRequests |->
                    IF \E e \in lateAborts : abortPending[e] = a
                    THEN ReceiptFor(receipts[a].engagement, "ACK_TIMEOUT")
                    ELSE receipts[a]]
  /\ abortAckTimeouts' = abortAckTimeouts \cup lateAborts
  /\ UNCHANGED <<engagements, reservations, deliveryUnknown, aborts,
                 callVars, logVars, busVars>>

\* Faulty variant: an engagement flagged DELIVERY_UNKNOWN is not watched.
OverdueIfDelivered == {e \in Engagements \ (ackTimeouts \cup deliveryUnknown) :
                         Live(e)}

Overdue == {e \in Engagements \ ackTimeouts : Live(e)}

\* A record() that raises ends the pass part-way.
ExpireStaleCommands ==
  \E late \in SUBSET Overdue, dropped \in SUBSET Orphaned,
     lateAborts \in SUBSET AwaitedAborts :
    /\ AuditMayFail \/ dropped = Orphaned
    /\ Expire(late, dropped, lateAborts)

Forget ==
  /\ engagements' = [e \in Engagements |-> NoStatus]
  /\ requests' = [r \in Requests |-> None]
  /\ deliveryUnknown' = {} /\ ackTimeouts' = {}
  /\ abortPending' = [e \in Engagements |-> None]
  /\ abortAckTimeouts' = {}
  /\ receipts' = [a \in AbortRequests |-> NoReceipt]
  /\ aborts' = [a \in AbortRequests |-> None]
  /\ calls' = [c \in Calls |-> IdleCall]
  /\ consumedTokens' = {}

\* Faulty variant: reservations survive a restart, the ledger does not.
RestartReserved ==
  /\ c2Restarts < MaxC2Restarts
  /\ c2Restarts' = c2Restarts + 1
  /\ Forget
  /\ UNCHANGED <<reservations, evidence, used, busVars>>

\* Faulty variant: the audit file is truncated when the node starts.
RestartTruncating ==
  /\ c2Restarts < MaxC2Restarts
  /\ c2Restarts' = c2Restarts + 1
  /\ Forget
  /\ reservations' = [f \in Effectors |-> None]
  /\ evidence' = {}
  /\ UNCHANGED <<used, busVars>>

\* The process dies and is started again: everything but the audit file, and
\* the fact that an engagement ID was drawn, is lost.
RestartC2 ==
  /\ c2Restarts < MaxC2Restarts
  /\ c2Restarts' = c2Restarts + 1
  /\ Forget
  /\ reservations' = [f \in Effectors |-> None]
  /\ UNCHANGED <<evidence, used, busVars>>

----------------------------------------------------------------------------
RequestStep(c) ==
  \/ \E r \in Requests, f \in Effectors : SubmitRequest(c, r, f)
  \/ \E e \in Engagements : \/ Deny(c, e)
                            \/ InhibitForAudit(c, e)
                            \/ FailUnsent(c, e)
                            \/ Release(c, e)
  \/ FinishRequest(c)
  \/ ReturnAccepted(c)

AbortStep(a) ==
  \/ \E e \in Engagements : AbortUnsent(a, e) \/ SendAbort(a, e)
  \/ FinishAbort(a)

C2Next ==
  \/ \E c \in Calls : RequestStep(c)
  \/ \E a \in AbortRequests : AbortStep(a)
  \/ \E m \in statuses : ReceiveStatus(m)
  \/ ExpireStaleCommands
  \/ RestartC2
=============================================================================
