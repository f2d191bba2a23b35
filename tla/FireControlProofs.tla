------------------------- MODULE FireControlProofs -------------------------
(***************************************************************************)
(* The inductive invariant of fire control, for any number of effectors,   *)
(* engagements, requests, abort directives and concurrent handlers, and    *)
(* every combination of the bus, clock, audit and restart constants.       *)
(***************************************************************************)
EXTENDS FireControl, TLAPS

----------------------------------------------------------------------------
(* The lifecycle table and the effector's phases                           *)

\* A released, unfinished engagement moves to a later live state or ends.
LEMMA SuccessorStates ==
  ASSUME NEW x \in LiveStates, NEW y \in AllowedTransitions[x]
  PROVE  y \in LiveStates \cup TerminalStates
  <1>1. CASE x = "AUTHORIZED"
    BY <1>1 DEF LiveStates, TerminalStates, AllowedTransitions
  <1>2. CASE x = "ACCEPTED"
    BY <1>2 DEF LiveStates, TerminalStates, AllowedTransitions
  <1>3. CASE x = "ACTIVE"
    BY <1>3 DEF LiveStates, TerminalStates, AllowedTransitions
  <1>4. CASE x = "ASSESSING"
    BY <1>4 DEF LiveStates, TerminalStates, AllowedTransitions
  <1> QED
    BY <1>1, <1>2, <1>3, <1>4 DEF LiveStates

\* An executing effector's next phase is a phase and a reportable state.
LEMMA FollowingPhase ==
  ASSUME NEW p \in Executing
  PROVE  /\ Following[p] \in Executing \cup {"COMPLETE"}
         /\ Following[p] \in Phases \cap States
  BY DEF Executing, Following, Phases, States, LiveStates, TerminalStates

----------------------------------------------------------------------------
(* Typing and evidence                                                     *)

\* The values a fresh node holds are of their types.
LEMMA BlankRecords ==
  NoStatus \in Status /\ NoReceipt \in Receipt /\ IdleCall \in Call
  <1>1. NoStatus \in Status
    BY DEF NoStatus, Status, States
  <1>2. NoReceipt \in Receipt
    BY DEF NoReceipt, Receipt
  <1>3. IdleCall \in Call
    BY DEF IdleCall, Call
  <1> QED
    BY <1>1, <1>2, <1>3

TypeInv ==
  /\ TypeOK
  /\ CallsWellFormed /\ EvidenceUnique /\ EvidenceBeforeOrder /\ ActiveEvidenced
  /\ LedgerKnown

\* The initial state satisfies the typing and evidence part.
LEMMA TypeInvInit == Init => TypeInv
  <1> SUFFICES ASSUME Init PROVE TypeInv
    OBVIOUS
  <1> USE DEF Init, C2Init, BusInit, EffectorInit
  <1>1. C2TypeOK
    <2>1. engagements \in [Engagements -> Status]
      BY BlankRecords
    <2>2. receipts \in [AbortRequests -> Receipt] /\ calls \in [Calls -> Call]
      BY BlankRecords
    <2>3. requests \in [Requests -> Engagements \cup {None, InProgress}]
      OBVIOUS
    <2>4. c2Restarts \in 0..MaxC2Restarts
      BY C2Bound
    <2> QED
      BY <2>1, <2>2, <2>3, <2>4 DEF C2TypeOK
  <1>2. BusTypeOK /\ EffectorTypeOK
    BY EffectorParameter DEF BusTypeOK, EffectorTypeOK, Phases
  <1>3. CallsWellFormed
    BY DEF CallsWellFormed, IdleCall
  <1>4. EvidenceUnique /\ EvidenceBeforeOrder /\ ActiveEvidenced
    BY DEF EvidenceUnique, EvidenceBeforeOrder, ActiveEvidenced
  <1>5. LedgerKnown
    BY DEF LedgerKnown, Known, NoStatus
  <1> QED
    BY <1>1, <1>2, <1>3, <1>4, <1>5 DEF TypeInv, TypeOK

\* A receipt made for a delivery outcome is a receipt.
LEMMA ReceiptForType ==
  ASSUME NEW e \in Engagements \cup {None},
         NEW d \in {"NOT_SENT", "DELIVERY_UNKNOWN", "AWAITING_ACK",
                    "EFFECTOR_ACKNOWLEDGED", "TERMINAL_WITHOUT_ABORT_ACK",
                    "ACK_TIMEOUT"}
  PROVE  ReceiptFor(e, d) \in Receipt
  BY DEF ReceiptFor, Receipt

\* The handler that takes the lock has a request and an effector, and leaves a
\* well-typed ledger that knows only drawn IDs.
LEMMA OpenTypes ==
  ASSUME TypeInv, NEW c \in Calls, NEW e \in Engagements,
         NEW state \in States \ {"PROPOSED"}, NEW sequence \in Nat,
         Open(c, e, state, sequence)
  PROVE  /\ calls[c].request \in Requests /\ calls[c].effector \in Effectors
         /\ engagements' \in [Engagements -> Status]
         /\ requests' \in [Requests -> Engagements \cup {None, InProgress}]
         /\ used' \subseteq Engagements
         /\ LedgerKnown'
  <1> USE DEF Open, TypeInv, TypeOK, C2TypeOK
  <1>1. calls[c].request \in Requests /\ calls[c].effector \in Effectors
    BY DEF CallsWellFormed
  <1>2. [state |-> state, sequence |-> sequence, effector |-> calls[c].effector]
          \in Status
    BY <1>1 DEF Status
  <1>3. engagements' \in [Engagements -> Status]
    BY <1>2
  <1>4. LedgerKnown'
    BY <1>1, <1>2 DEF LedgerKnown, Known, Status, States, LiveStates, TerminalStates
  <1> QED
    BY <1>1, <1>3, <1>4

\* Applying a status other than PROPOSED keeps the ledger well typed.
LEMMA TransitionTypes ==
  ASSUME TypeInv, NEW e \in Engagements, NEW s \in Status, Known(e),
         s.state \in States \ {"PROPOSED"}, s.effector \in Effectors,
         Transition(e, s), UNCHANGED used
  PROVE  /\ engagements' \in [Engagements -> Status]
         /\ reservations' \in [Effectors -> Engagements \cup {None}]
         /\ deliveryUnknown' \subseteq Engagements
         /\ ackTimeouts' \subseteq Engagements
         /\ abortAckTimeouts' \subseteq Engagements
         /\ abortPending' \in [Engagements -> AbortRequests \cup {None}]
         /\ receipts' \in [AbortRequests -> Receipt]
         /\ aborts' = aborts
         /\ LedgerKnown'
  <1> USE DEF Transition, TypeInv, TypeOK, C2TypeOK
  <1>1. receipts' \in [AbortRequests -> Receipt]
    <2>1. ReceiptFor(e, IF s.state = "ABORTED" THEN "EFFECTOR_ACKNOWLEDGED"
                        ELSE "TERMINAL_WITHOUT_ABORT_ACK") \in Receipt
      BY ReceiptForType
    <2> QED
      BY <2>1 DEF ReceiptsAfter
  <1>2. reservations' \in [Effectors -> Engagements \cup {None}]
    OBVIOUS
  <1>3. abortPending' \in [Engagements -> AbortRequests \cup {None}]
    OBVIOUS
  <1>4. LedgerKnown'
    BY DEF LedgerKnown, Known
  <1> QED
    BY <1>1, <1>2, <1>3, <1>4

\* The request handler's steps preserve the typing and evidence part.
LEMMA RequestTypes ==
  ASSUME TypeInv, NEW c \in Calls, RequestStep(c), UNCHANGED effectorVars
  PROVE  TypeInv'
  <1> USE DEF TypeInv, TypeOK, effectorVars
  <1>2. ASSUME NEW r \in Requests, NEW f \in Effectors, SubmitRequest(c, r, f)
        PROVE  TypeInv'
    <2> USE <1>2 DEF SubmitRequest, ledgerVars, abortVars, logVars, busVars
    <2>1. C2TypeOK'
      BY DEF C2TypeOK, Call
    <2>2. BusTypeOK' /\ EffectorTypeOK'
      BY DEF BusTypeOK, EffectorTypeOK
    <2>3. CallsWellFormed'
      BY DEF CallsWellFormed, C2TypeOK, Call
    <2>4. EvidenceUnique' /\ EvidenceBeforeOrder' /\ ActiveEvidenced'
      BY DEF EvidenceUnique, EvidenceBeforeOrder, ActiveEvidenced
    <2>5. LedgerKnown'
      BY DEF LedgerKnown, Known
    <2> QED
      BY <2>1, <2>2, <2>3, <2>4, <2>5
  <1>3. ASSUME NEW e \in Engagements, NEW state \in States \ {"PROPOSED"},
               NEW sequence \in Nat, Open(c, e, state, sequence),
               \/ calls' = [calls EXCEPT ![c] = IdleCall]
               \/ calls' = [calls EXCEPT ![c].pc = "publishing",
                                         ![c].engagement = e],
               \/ evidence' = evidence
               \/ evidence' = evidence \cup {AuthorizedRecord(c, e)},
               \/ orders' = orders
               \/ /\ orders' = orders \cup {AuthorizedRecord(c, e)}
                  /\ evidence' = evidence \cup {AuthorizedRecord(c, e)},
               \/ reservations' = reservations
               \/ reservations' = [reservations EXCEPT ![calls[c].effector] = e]
        PROVE  TypeInv'
    <2> USE <1>3
    <2>1. /\ calls[c].request \in Requests /\ calls[c].effector \in Effectors
          /\ engagements' \in [Engagements -> Status]
          /\ requests' \in [Requests -> Engagements \cup {None, InProgress}]
          /\ used' \subseteq Engagements
          /\ LedgerKnown'
      BY OpenTypes
    <2>2. AuthorizedRecord(c, e) \in Evidence
      BY <2>1 DEF AuthorizedRecord, Evidence
    <2>3. calls' \in [Calls -> Call]
      BY BlankRecords DEF C2TypeOK, Call
    <2>4. reservations' \in [Effectors -> Engagements \cup {None}]
      BY <2>1 DEF C2TypeOK
    <2>5. C2TypeOK'
      BY <2>1, <2>2, <2>3, <2>4 DEF C2TypeOK, Open, abortVars
    <2>6. BusTypeOK' /\ EffectorTypeOK'
      BY <2>2 DEF BusTypeOK, EffectorTypeOK, Open, Order, Evidence
    <2>7. CallsWellFormed'
      BY <2>1 DEF CallsWellFormed, IdleCall, C2TypeOK, Call
    <2>8. EvidenceUnique'
      BY DEF EvidenceUnique, Open, AuthorizedRecord
    <2>9. EvidenceBeforeOrder' /\ ActiveEvidenced'
      BY DEF EvidenceBeforeOrder, ActiveEvidenced
    <2> QED
      BY <2>1, <2>5, <2>6, <2>7, <2>8, <2>9
  <1>4. ASSUME NEW e \in Engagements,
               Deny(c, e) \/ InhibitForAudit(c, e) \/ FailUnsent(c, e)
                 \/ Release(c, e)
        PROVE  TypeInv'
    <2>1. /\ {"DENIED", "FAILED", "AUTHORIZED"} \subseteq States \ {"PROPOSED"}
          /\ 2 \in Nat /\ 3 \in Nat
      BY DEF States, LiveStates, TerminalStates
    <2>2. CASE Deny(c, e)
      BY <2>1, <2>2, <1>3 DEF Deny, Return
    <2>3. CASE InhibitForAudit(c, e)
      BY <2>1, <2>3, <1>3 DEF InhibitForAudit, Return
    <2>4. CASE FailUnsent(c, e)
      BY <2>1, <2>4, <1>3 DEF FailUnsent, Return
    <2>5. CASE Release(c, e)
      BY <2>1, <2>5, <1>3 DEF Release
    <2> QED
      BY <1>4, <2>2, <2>3, <2>4, <2>5
  <1>5. CASE FinishRequest(c) \/ ReturnAccepted(c)
    <2> USE <1>5 DEF FinishRequest, ReturnAccepted, Return, ledgerVars,
                     abortVars, logVars, busVars
    <2>1. calls' \in [Calls -> Call]
      BY BlankRecords DEF C2TypeOK, Call
    <2>2. deliveryUnknown' \subseteq Engagements
      BY DEF C2TypeOK, CallsWellFormed
    <2>3. C2TypeOK'
      BY <2>1, <2>2 DEF C2TypeOK
    <2>4. BusTypeOK' /\ EffectorTypeOK'
      BY DEF BusTypeOK, EffectorTypeOK
    <2>5. CallsWellFormed'
      BY DEF CallsWellFormed, IdleCall, C2TypeOK, Call
    <2>6. EvidenceUnique' /\ EvidenceBeforeOrder' /\ ActiveEvidenced'
      BY DEF EvidenceUnique, EvidenceBeforeOrder, ActiveEvidenced
    <2>7. LedgerKnown'
      BY DEF LedgerKnown, Known
    <2> QED
      BY <2>3, <2>4, <2>5, <2>6, <2>7
  <1> QED
    BY <1>2, <1>4, <1>5 DEF RequestStep

\* The abort handler's steps preserve the typing and evidence part.
LEMMA AbortTypes ==
  ASSUME TypeInv, NEW a \in AbortRequests, AbortStep(a), UNCHANGED effectorVars
  PROVE  TypeInv'
  <1> USE DEF TypeInv, TypeOK, effectorVars, ledgerVars, callVars, logVars
  <1>1. ASSUME UNCHANGED <<ledgerVars, callVars, logVars, orders, statuses>>,
               C2TypeOK', controls' \subseteq Control
        PROVE  TypeInv'
    <2>1. BusTypeOK' /\ EffectorTypeOK'
      BY <1>1 DEF BusTypeOK, EffectorTypeOK
    <2>2. CallsWellFormed' /\ LedgerKnown'
      BY <1>1 DEF CallsWellFormed, LedgerKnown, Known
    <2>3. EvidenceUnique' /\ EvidenceBeforeOrder' /\ ActiveEvidenced'
      BY <1>1 DEF EvidenceUnique, EvidenceBeforeOrder, ActiveEvidenced
    <2> QED
      BY <1>1, <2>1, <2>2, <2>3
  <1>2. ASSUME NEW e \in Engagements, AbortUnsent(a, e)
        PROVE  TypeInv'
    <2>1. ReceiptFor(e, "NOT_SENT") \in Receipt
      BY ReceiptForType
    <2>2. C2TypeOK'
      BY <1>2, <2>1 DEF AbortUnsent, C2TypeOK
    <2> QED
      BY <1>1, <1>2, <2>2 DEF AbortUnsent, busVars, BusTypeOK
  <1>3. ASSUME NEW e \in Engagements, SendAbort(a, e)
        PROVE  TypeInv'
    <2>1. C2TypeOK'
      BY <1>3 DEF SendAbort, C2TypeOK
    <2>2. engagements[e].effector \in Effectors /\ engagements[e].sequence \in Nat
      BY <1>3 DEF SendAbort, MayAbort, LedgerKnown, C2TypeOK, Status
    <2>3. controls' \subseteq Control
      BY <1>3, <2>2 DEF SendAbort, BusTypeOK, Control
    <2> QED
      BY <1>1, <1>3, <2>1, <2>3 DEF SendAbort
  <1>4. CASE FinishAbort(a)
    <2>1. aborts[a] \in Engagements
      BY <1>4 DEF FinishAbort, C2TypeOK
    <2>2. \A d \in {"DELIVERY_UNKNOWN", "AWAITING_ACK", "EFFECTOR_ACKNOWLEDGED",
                    "TERMINAL_WITHOUT_ABORT_ACK"} : ReceiptFor(aborts[a], d) \in Receipt
      BY <2>1, ReceiptForType
    <2>3. receipts' \in [AbortRequests -> Receipt]
      BY <1>4, <2>2 DEF FinishAbort, C2TypeOK
    <2>4. C2TypeOK'
      BY <1>4, <2>3 DEF FinishAbort, C2TypeOK
    <2> QED
      BY <1>1, <1>4, <2>4 DEF FinishAbort, busVars, BusTypeOK
  <1> QED
    BY <1>2, <1>3, <1>4 DEF AbortStep

\* A reported status, and the consumption of a token, preserve it.
LEMMA StatusTypes ==
  ASSUME TypeInv, UNCHANGED effectorVars,
         \/ \E m \in statuses : ReceiveStatus(m)
         \/ \E e \in Engagements : ConsumeAuthorityToken(e)
  PROVE  TypeInv'
  <1> USE DEF TypeInv, TypeOK, effectorVars, callVars, logVars
  <1>1. ASSUME UNCHANGED <<calls, requests, used, evidence, c2Restarts,
                           orders, controls>>,
               statuses' \subseteq statuses, consumedTokens' \subseteq Engagements,
               \/ UNCHANGED <<ledgerVars, abortVars>>
               \/ \E e \in Engagements, s \in Status :
                    /\ Known(e) /\ s.effector \in Effectors
                    /\ s.state \in States \ {"PROPOSED"}
                    /\ Transition(e, s)
        PROVE  TypeInv'
    <2>1. C2TypeOK' /\ LedgerKnown'
      <3>1. CASE UNCHANGED <<ledgerVars, abortVars>>
        BY <1>1, <3>1 DEF ledgerVars, abortVars, C2TypeOK, LedgerKnown, Known
      <3>2. ASSUME NEW e \in Engagements, NEW s \in Status, Known(e),
                   s.effector \in Effectors, s.state \in States \ {"PROPOSED"},
                   Transition(e, s)
            PROVE  C2TypeOK' /\ LedgerKnown'
        BY <1>1, <3>2, TransitionTypes DEF C2TypeOK
      <3> QED
        BY <1>1, <3>1, <3>2
    <2>2. BusTypeOK' /\ EffectorTypeOK'
      BY <1>1 DEF BusTypeOK, EffectorTypeOK
    <2>3. CallsWellFormed'
      BY <1>1 DEF CallsWellFormed
    <2>4. EvidenceUnique' /\ EvidenceBeforeOrder' /\ ActiveEvidenced'
      BY <1>1 DEF EvidenceUnique, EvidenceBeforeOrder, ActiveEvidenced
    <2> QED
      BY <2>1, <2>2, <2>3, <2>4
  <1>2. ASSUME NEW m \in statuses, ReceiveStatus(m)
        PROVE  TypeInv'
    <2> DEFINE e == m.engagement
               s == [state |-> m.state, sequence |-> m.sequence,
                     effector |-> m.effector]
    <2>1. e \in Engagements /\ s \in Status /\ s.effector \in Effectors
      BY DEF BusTypeOK, Report, Status
    <2>2. ASSUME NEW timely \in BOOLEAN, Known(e),
                 Verdict(engagements[e], s, timely) = "APPLIED"
          PROVE  s.state \in States \ {"PROPOSED"}
      <3>1. Applies(engagements[e], s, timely)
        BY <2>2, Zenon DEF Verdict
      <3>2. engagements[e].state \in LiveStates
        BY <2>1, <2>2, <3>1 DEF Applies, Known, LedgerKnown, C2TypeOK, Status, States
      <3>3. s.state \in AllowedTransitions[engagements[e].state]
        BY <2>2, <3>1 DEF Applies, Known
      <3> QED
        BY <3>2, <3>3, SuccessorStates DEF States, LiveStates, TerminalStates
    <2>3. \/ UNCHANGED <<ledgerVars, abortVars>>
          \/ /\ Known(e) /\ s.state \in States \ {"PROPOSED"}
             /\ Transition(e, s)
      BY <1>2, <2>2 DEF ReceiveStatus
    <2> QED
      BY <1>1, <1>2, <2>1, <2>3 DEF ReceiveStatus, C2TypeOK
  <1>3. ASSUME NEW e \in Engagements, ConsumeAuthorityToken(e)
        PROVE  TypeInv'
    <2> DEFINE s == EngagementStatus(e, "ACCEPTED", engagements[e].sequence + 1)
    <2>1. /\ Known(e) /\ s \in Status /\ s.effector \in Effectors
          /\ s.state \in States \ {"PROPOSED"}
      BY <1>3 DEF ConsumeAuthorityToken, EngagementStatus, C2TypeOK, LedgerKnown,
                  Status, States, LiveStates
    <2> QED
      BY <1>1, <1>3, <2>1 DEF ConsumeAuthorityToken, busVars, C2TypeOK
  <1> QED
    BY <1>2, <1>3

\* The supervisor's pass and a restart of the node preserve it.
LEMMA SupervisorTypes ==
  ASSUME TypeInv, ExpireStaleCommands \/ RestartC2, UNCHANGED effectorVars
  PROVE  TypeInv'
  <1> USE DEF TypeInv, TypeOK, effectorVars
  <1>1. ASSUME NEW late \in SUBSET Overdue, NEW dropped \in SUBSET Orphaned,
               NEW lateAborts \in SUBSET AwaitedAborts,
               Expire(late, dropped, lateAborts)
        PROVE  TypeInv'
    <2> USE <1>1 DEF Expire, callVars, logVars, busVars
    <2>1. \A a \in AbortRequests :
            ReceiptFor(receipts[a].engagement, "ACK_TIMEOUT") \in Receipt
      BY ReceiptForType DEF C2TypeOK, Receipt
    <2>2. receipts' \in [AbortRequests -> Receipt]
      BY <2>1 DEF C2TypeOK
    <2>3. /\ ackTimeouts' \subseteq Engagements
          /\ abortAckTimeouts' \subseteq Engagements
      BY DEF C2TypeOK, Overdue, AwaitedAborts
    <2>4. abortPending' \in [Engagements -> AbortRequests \cup {None}]
      BY DEF C2TypeOK
    <2>5. C2TypeOK'
      BY <2>2, <2>3, <2>4 DEF C2TypeOK
    <2>6. BusTypeOK' /\ EffectorTypeOK'
      BY DEF BusTypeOK, EffectorTypeOK
    <2>7. CallsWellFormed' /\ LedgerKnown'
      BY DEF CallsWellFormed, LedgerKnown, Known
    <2>8. EvidenceUnique' /\ EvidenceBeforeOrder' /\ ActiveEvidenced'
      BY DEF EvidenceUnique, EvidenceBeforeOrder, ActiveEvidenced
    <2> QED
      BY <2>5, <2>6, <2>7, <2>8
  <1>2. CASE RestartC2
    <2> USE <1>2 DEF RestartC2, Forget, busVars
    <2>1. C2TypeOK'
      <3>1. engagements' \in [Engagements -> Status]
        BY BlankRecords
      <3>2. receipts' \in [AbortRequests -> Receipt] /\ calls' \in [Calls -> Call]
        BY BlankRecords
      <3>3. requests' \in [Requests -> Engagements \cup {None, InProgress}]
        OBVIOUS
      <3>4. c2Restarts' \in 0..MaxC2Restarts
        BY C2Bound DEF C2TypeOK
      <3> QED
        BY <3>1, <3>2, <3>3, <3>4 DEF C2TypeOK
    <2>2. BusTypeOK' /\ EffectorTypeOK'
      BY DEF BusTypeOK, EffectorTypeOK
    <2>3. CallsWellFormed' /\ LedgerKnown'
      BY DEF CallsWellFormed, IdleCall, LedgerKnown, Known, NoStatus
    <2>4. EvidenceUnique' /\ EvidenceBeforeOrder' /\ ActiveEvidenced'
      BY DEF EvidenceUnique, EvidenceBeforeOrder, ActiveEvidenced
    <2> QED
      BY <2>1, <2>2, <2>3, <2>4
  <1> QED
    BY <1>1, <1>2 DEF ExpireStaleCommands

\* The bus dropping a message preserves it.
LEMMA LoseTypes ==
  ASSUME TypeInv, Lose, UNCHANGED <<c2Vars, effectorVars>>
  PROVE  TypeInv'
  <1> USE DEF TypeInv, TypeOK, Lose, c2Vars, ledgerVars, abortVars, callVars,
              logVars, effectorVars
  <1>1. C2TypeOK' /\ EffectorTypeOK'
    BY DEF C2TypeOK, EffectorTypeOK
  <1>2. BusTypeOK'
    BY DEF BusTypeOK
  <1>3. CallsWellFormed' /\ LedgerKnown'
    BY DEF CallsWellFormed, LedgerKnown, Known
  <1>4. EvidenceUnique' /\ EvidenceBeforeOrder' /\ ActiveEvidenced'
    BY DEF EvidenceUnique, EvidenceBeforeOrder, ActiveEvidenced
  <1> QED
    BY <1>1, <1>2, <1>3, <1>4

\* The effector's steps preserve it.
LEMMA EffectorTypes ==
  ASSUME TypeInv, EffectorNext, UNCHANGED c2Vars
  PROVE  TypeInv'
  <1> USE DEF TypeInv, TypeOK, c2Vars, ledgerVars, abortVars, callVars, logVars
  <1>1. C2TypeOK' /\ CallsWellFormed' /\ LedgerKnown' /\ EvidenceUnique'
    BY DEF C2TypeOK, CallsWellFormed, LedgerKnown, Known, EvidenceUnique
  <1>2. ASSUME NEW o \in orders,
               RefuseUnverified(o) \/ RefuseLocally(o) \/ Accept(o)
        PROVE  TypeInv'
    <2> USE <1>2 DEF TakeOrder, OrdersAfterDelivery, Consume, Emit, orderSequence
    <2>1. /\ o.engagement \in Engagements /\ o.effector \in Effectors
          /\ o \in evidence
      BY DEF BusTypeOK, Order, EvidenceBeforeOrder
    <2>2. \A g \in Effectors : active[g] # o.engagement
      BY <2>1, NoneIsFresh
      DEF RefuseUnverified, RefuseLocally, Accept, ActiveEvidenced, EvidenceUnique
    <2>3. CASE RefuseUnverified(o)
      <3> USE <2>3 DEF RefuseUnverified
      <3>1. BusTypeOK'
        BY <2>1 DEF BusTypeOK, Report, States, TerminalStates
      <3>2. EffectorTypeOK'
        BY DEF EffectorTypeOK
      <3>3. EvidenceBeforeOrder' /\ ActiveEvidenced'
        BY DEF EvidenceBeforeOrder, ActiveEvidenced
      <3> QED
        BY <1>1, <3>1, <3>2, <3>3
    <2>4. CASE RefuseLocally(o)
      <3> USE <2>4 DEF RefuseLocally
      <3>1. BusTypeOK'
        BY <2>1 DEF BusTypeOK, Report, States, TerminalStates
      <3>2. EffectorTypeOK'
        BY <2>1 DEF EffectorTypeOK, Phases, TerminalStates
      <3>3. EvidenceBeforeOrder'
        BY <2>1 DEF EvidenceBeforeOrder, EffectorTypeOK
      <3>4. ActiveEvidenced'
        BY <2>1, <2>2 DEF ActiveEvidenced, EffectorTypeOK
      <3> QED
        BY <1>1, <3>1, <3>2, <3>3, <3>4
    <2>5. CASE Accept(o)
      <3> USE <2>5 DEF Accept
      <3>1. BusTypeOK'
        BY <2>1 DEF BusTypeOK, Report, States, LiveStates
      <3>2. EffectorTypeOK'
        BY <2>1 DEF EffectorTypeOK, Phases, Executing
      <3>3. EvidenceBeforeOrder'
        BY <2>1 DEF EvidenceBeforeOrder, EffectorTypeOK
      <3>4. ActiveEvidenced'
        BY <2>1 DEF ActiveEvidenced, EffectorTypeOK, Executing
      <3> QED
        BY <1>1, <3>1, <3>2, <3>3, <3>4
    <2> QED
      BY <1>2, <2>3, <2>4, <2>5
  <1>3. ASSUME NEW f \in Effectors, Advance(f) \/ Stop(f)
        PROVE  TypeInv'
    <2> DEFINE e == active[f]
    <2>1. /\ e \in Engagements /\ e # None
          /\ execution[e].phase \in Executing /\ execution[e].sequence \in Nat
          /\ \E r \in evidence : r.engagement = e
          /\ \A g \in Effectors \ {f} : active[g] # e
      BY <1>3 DEF Advance, Stop, EffectorTypeOK, ActiveEvidenced, EvidenceUnique
    <2>2. CASE Advance(f)
      <3> USE <2>2 DEF Advance, Emit
      <3>1. /\ Following[execution[e].phase] \in Executing \cup {"COMPLETE"}
            /\ Following[execution[e].phase] \in Phases \cap States
        BY <2>1, FollowingPhase
      <3>2. BusTypeOK'
        BY <2>1, <3>1 DEF BusTypeOK, Report
      <3>3. EffectorTypeOK'
        BY <2>1, <3>1 DEF EffectorTypeOK
      <3>4. EvidenceBeforeOrder'
        BY <2>1 DEF EvidenceBeforeOrder, EffectorTypeOK
      <3>5. ActiveEvidenced'
        BY <2>1, <3>1 DEF ActiveEvidenced, EffectorTypeOK
      <3> QED
        BY <1>1, <3>2, <3>3, <3>4, <3>5
    <2>3. CASE Stop(f)
      <3> USE <2>3 DEF Stop, Emit
      <3>1. abortRequests[e] \in Nat
        BY <2>1 DEF EffectorTypeOK
      <3>2. BusTypeOK'
        BY <2>1, <3>1 DEF BusTypeOK, Report, States, TerminalStates
      <3>3. EffectorTypeOK'
        BY <2>1, <3>1 DEF EffectorTypeOK, Phases, TerminalStates
      <3>4. EvidenceBeforeOrder'
        BY <2>1 DEF EvidenceBeforeOrder, EffectorTypeOK
      <3>5. ActiveEvidenced'
        BY <2>1 DEF ActiveEvidenced, EffectorTypeOK
      <3> QED
        BY <1>1, <3>2, <3>3, <3>4, <3>5
    <2> QED
      BY <1>3, <2>2, <2>3
  <1>4. ASSUME NEW f \in Effectors, RestartEffector(f)
        PROVE  TypeInv'
    <2> USE <1>4 DEF RestartEffector, busVars
    <2>1. BusTypeOK'
      BY DEF BusTypeOK
    <2>2. execution' \in [Engagements -> [phase : Phases, sequence : Nat]]
      BY DEF EffectorTypeOK, Phases
    <2>3. EffectorTypeOK'
      BY <2>2, EffectorParameter DEF EffectorTypeOK
    <2>4. \A g \in Effectors \ {f} : active[g] # None => active[g] # active[f]
      BY DEF ActiveEvidenced, EvidenceUnique
    <2>5. EvidenceBeforeOrder'
      BY NoneIsFresh DEF EvidenceBeforeOrder, ActiveEvidenced, EffectorTypeOK
    <2>6. ActiveEvidenced'
      BY <2>4 DEF ActiveEvidenced, EffectorTypeOK
    <2> QED
      BY <1>1, <2>1, <2>3, <2>5, <2>6
  <1>5. ASSUME NEW d \in controls, ReceiveControl(d)
        PROVE  TypeInv'
    <2> USE <1>5 DEF ReceiveControl
    <2>1. BusTypeOK'
      BY DEF BusTypeOK
    <2>2. EffectorTypeOK'
      BY DEF EffectorTypeOK, BusTypeOK, Control
    <2>3. EvidenceBeforeOrder' /\ ActiveEvidenced'
      BY DEF EvidenceBeforeOrder, ActiveEvidenced
    <2> QED
      BY <1>1, <2>1, <2>2, <2>3
  <1> QED
    BY <1>2, <1>3, <1>4, <1>5 DEF EffectorNext, ExecuteStep

\* Every step preserves the typing and evidence part.
LEMMA TypeInvStep == TypeInv /\ [Next]_vars => TypeInv'
  <1> SUFFICES ASSUME TypeInv, [Next]_vars PROVE TypeInv'
    OBVIOUS
  <1>1. CASE C2Step
    BY <1>1, RequestTypes, AbortTypes, StatusTypes, SupervisorTypes
    DEF C2Step, C2Next
  <1>2. CASE EffectorStep
    BY <1>2, EffectorTypes DEF EffectorStep
  <1>3. CASE TokenStep
    BY <1>3, StatusTypes DEF TokenStep
  <1>4. CASE BusStep
    BY <1>4, LoseTypes DEF BusStep
  <1>5. CASE UNCHANGED vars
    <2> USE <1>5 DEF vars, c2Vars, ledgerVars, abortVars, callVars, logVars,
                     busVars, effectorVars, TypeInv, TypeOK
    <2>1. TypeOK'
      BY DEF C2TypeOK, BusTypeOK, EffectorTypeOK
    <2>2. CallsWellFormed' /\ LedgerKnown'
      BY DEF CallsWellFormed, LedgerKnown, Known
    <2>3. EvidenceUnique' /\ EvidenceBeforeOrder' /\ ActiveEvidenced'
      BY DEF EvidenceUnique, EvidenceBeforeOrder, ActiveEvidenced
    <2> QED
      BY <2>1, <2>2, <2>3
  <1> QED
    BY <1>1, <1>2, <1>3, <1>4, <1>5 DEF Next

----------------------------------------------------------------------------
(* Reservations                                                            *)

\* An applied status keeps the reservation while the engagement is live and
\* gives it back when it ends.
LEMMA TransitionReservation ==
  ASSUME TypeInv, ReservationExact, NEW e \in Engagements, NEW s \in Status,
         Live(e), s.effector = engagements[e].effector,
         s.state \in LiveStates \cup TerminalStates, Transition(e, s)
  PROVE  ReservationExact'
  <1> USE DEF TypeInv, TypeOK, C2TypeOK, Live, ReservationExact
  <1>1. s.effector \in Effectors
    BY DEF LedgerKnown, Known, LiveStates
  <1>2. reservations[s.effector] = e
    BY <1>1
  <1>3. CASE s.state \in TerminalStates
    BY <1>1, <1>2, <1>3, NoneIsFresh DEF Transition, LiveStates, TerminalStates
  <1>4. CASE s.state \in LiveStates
    BY <1>1, <1>2, <1>4 DEF Transition, LiveStates, TerminalStates
  <1> QED
    BY <1>3, <1>4

\* A status the callback applies comes from a live engagement, to the same
\* effector, and moves it on or ends it.
LEMMA AppliedIsLive ==
  ASSUME TypeInv, NEW e \in Engagements, Known(e), NEW s, NEW timely,
         Verdict(engagements[e], s, timely) = "APPLIED"
  PROVE  /\ Live(e) /\ s.effector = engagements[e].effector
         /\ s.state \in LiveStates \cup TerminalStates
  <1>1. Applies(engagements[e], s, timely)
    BY Zenon DEF Verdict
  <1>2. /\ engagements[e].state \notin TerminalStates
        /\ s.state \in AllowedTransitions[engagements[e].state]
        /\ s.effector = engagements[e].effector
    BY <1>1 DEF Applies, Known
  <1>3. engagements[e].state \in LiveStates
    BY <1>2 DEF TypeInv, TypeOK, C2TypeOK, LedgerKnown, Known, Status, States
  <1> QED
    BY <1>2, <1>3, SuccessorStates DEF Live

\* Every step preserves the exactness of the reservation table.
LEMMA ReservationStep ==
  TypeInv /\ ReservationExact /\ [Next]_vars => ReservationExact'
  <1> SUFFICES ASSUME TypeInv, ReservationExact, [Next]_vars
               PROVE  ReservationExact'
    OBVIOUS
  <1>1. ASSUME UNCHANGED <<engagements, reservations>>
        PROVE  ReservationExact'
    BY <1>1 DEF ReservationExact, Live
  <1>2. ASSUME NEW c \in Calls, RequestStep(c)
        PROVE  ReservationExact'
    <2>1. ASSUME NEW e \in Engagements, NEW state \in States \ {"PROPOSED"},
                 NEW sequence \in Nat, Open(c, e, state, sequence),
                 \/ state \in TerminalStates /\ reservations' = reservations
                 \/ /\ state \in LiveStates
                    /\ reservations[calls[c].effector] = None
                    /\ reservations' = [reservations EXCEPT ![calls[c].effector] = e]
          PROVE  ReservationExact'
      <3>1. calls[c].effector \in Effectors
        BY <2>1, OpenTypes
      <3>2. ~Live(e) /\ \A f \in Effectors : reservations[f] # e
        BY <2>1 DEF Open, TypeInv, LedgerKnown, Known, Live, LiveStates,
                    ReservationExact
      <3> QED
        BY <2>1, <3>1, <3>2, NoneIsFresh
        DEF Open, ReservationExact, Live, TypeInv, TypeOK, C2TypeOK, LiveStates,
            TerminalStates
    <2>2. ASSUME NEW e \in Engagements,
                 Deny(c, e) \/ InhibitForAudit(c, e) \/ FailUnsent(c, e)
                   \/ Release(c, e)
          PROVE  ReservationExact'
      <3>1. /\ {"DENIED", "FAILED"} \subseteq TerminalStates
            /\ "AUTHORIZED" \in LiveStates
            /\ {"DENIED", "FAILED", "AUTHORIZED"} \subseteq States \ {"PROPOSED"}
            /\ 2 \in Nat /\ 3 \in Nat
        BY DEF States, LiveStates, TerminalStates
      <3>2. CASE Deny(c, e)
        BY <2>1, <3>1, <3>2 DEF Deny
      <3>3. CASE InhibitForAudit(c, e)
        BY <2>1, <3>1, <3>3 DEF InhibitForAudit
      <3>4. CASE FailUnsent(c, e)
        BY <2>1, <3>1, <3>4 DEF FailUnsent
      <3>5. CASE Release(c, e)
        BY <2>1, <3>1, <3>5 DEF Release
      <3> QED
        BY <2>2, <3>2, <3>3, <3>4, <3>5
    <2>3. ASSUME \/ \E r \in Requests, f \in Effectors : SubmitRequest(c, r, f)
                 \/ FinishRequest(c) \/ ReturnAccepted(c)
          PROVE  ReservationExact'
      BY <1>1, <2>3 DEF SubmitRequest, FinishRequest, ReturnAccepted, ledgerVars
    <2> QED
      BY <1>2, <2>2, <2>3 DEF RequestStep
  <1>3. ASSUME NEW a \in AbortRequests, AbortStep(a)
        PROVE  ReservationExact'
    BY <1>1, <1>3 DEF AbortStep, AbortUnsent, SendAbort, FinishAbort, ledgerVars
  <1>4. ASSUME NEW m \in statuses, ReceiveStatus(m)
        PROVE  ReservationExact'
    <2> DEFINE e == m.engagement
               s == [state |-> m.state, sequence |-> m.sequence,
                     effector |-> m.effector]
    <2>1. e \in Engagements /\ s \in Status
      BY DEF TypeInv, TypeOK, BusTypeOK, Report, Status
    <2>2. \/ UNCHANGED <<engagements, reservations>>
          \/ \E timely \in BOOLEAN :
               /\ Known(e) /\ Verdict(engagements[e], s, timely) = "APPLIED"
               /\ Transition(e, s)
      BY <1>4 DEF ReceiveStatus, ledgerVars
    <2> QED
      BY <1>1, <2>1, <2>2, AppliedIsLive, TransitionReservation
  <1>5. ASSUME NEW e \in Engagements, ConsumeAuthorityToken(e)
        PROVE  ReservationExact'
    <2> DEFINE s == EngagementStatus(e, "ACCEPTED", engagements[e].sequence + 1)
    <2>1. CASE engagements[e].state = "AUTHORIZED"
      <3>1. /\ s \in Status /\ s.effector = engagements[e].effector
            /\ s.state \in LiveStates /\ Live(e)
        BY <2>1 DEF EngagementStatus, TypeInv, TypeOK, C2TypeOK, LedgerKnown,
                    Known, Status, States, LiveStates, Live
      <3> QED
        BY <1>5, <2>1, <3>1, TransitionReservation DEF ConsumeAuthorityToken
    <2>2. CASE engagements[e].state # "AUTHORIZED"
      BY <1>1, <1>5, <2>2 DEF ConsumeAuthorityToken, ledgerVars
    <2> QED
      BY <2>1, <2>2
  <1>6. CASE ExpireStaleCommands
    BY <1>1, <1>6 DEF ExpireStaleCommands, Expire
  <1>7. CASE RestartC2
    BY <1>7, NoneIsFresh DEF RestartC2, Forget, ReservationExact, Live, NoStatus,
                             LiveStates
  <1>8. CASE EffectorStep \/ BusStep \/ UNCHANGED vars
    BY <1>1, <1>8 DEF EffectorStep, BusStep, vars, c2Vars, ledgerVars
  <1> QED
    BY <1>2, <1>3, <1>4, <1>5, <1>6, <1>7, <1>8
    DEF Next, C2Step, C2Next, TokenStep

----------------------------------------------------------------------------
(* Orders, executions and the inhibit that covers them                     *)

EffectInv == InhibitCoversOrders /\ ReportsAreLastWords /\ OrderTakenOnce

\* The order that leaves the node is the only one to an unreserved effector.
LEMMA ReleaseEffects ==
  ASSUME TypeInv, EffectInv, NEW c \in Calls, NEW e \in Engagements,
         Release(c, e), UNCHANGED effectorVars
  PROVE  EffectInv'
  <1> DEFINE o == AuthorizedRecord(c, e)
             f == calls[c].effector
  <1> USE DEF Release, Open, effectorVars
  <1>1. "AUTHORIZED" \in States \ {"PROPOSED"} /\ 2 \in Nat
    BY DEF States, LiveStates
  <1>2. f \in Effectors /\ o.engagement = e /\ o.effector = f
    BY <1>1, OpenTypes DEF AuthorizedRecord
  <1>3. \A g \in Effectors : active[g] # e
    BY NoneIsFresh DEF TypeInv, ActiveEvidenced, EvidenceUnique
  <1>4. \A p \in orders : p.engagement # e
    BY DEF TypeInv, EvidenceBeforeOrder, EvidenceUnique
  <1>5. \A m \in statuses : m.engagement # e
    BY DEF EffectInv, ReportsAreLastWords
  <1>6. InhibitCoversOrders'
    <2>1. SUFFICES ASSUME c2Restarts = 0, ~Redelivery
                   PROVE  InhibitCoversOrders'
      BY DEF InhibitCoversOrders
    <2>2. /\ \A p \in orders : p.effector \in Effectors /\ p.engagement \in Engagements
          /\ \A p \in orders : reservations[p.effector] = p.engagement
          /\ \A g \in Effectors : active[g] # None => reservations[g] = active[g]
      BY <2>1 DEF EffectInv, InhibitCoversOrders, TypeInv, TypeOK, BusTypeOK, Order
    <2>3. \A p \in orders : p.effector # f
      BY <2>2, NoneIsFresh
    <2>4. active[f] = None
      BY <1>2, <2>2
    <2>5. reservations' = [reservations EXCEPT ![f] = e] /\ orders' = orders \cup {o}
      OBVIOUS
    <2> QED
      BY <1>2, <2>2, <2>3, <2>4, <2>5
      DEF InhibitCoversOrders, TypeInv, TypeOK, C2TypeOK
  <1>7. ReportsAreLastWords'
    BY <1>2, <1>5 DEF EffectInv, ReportsAreLastWords
  <1>8. OrderTakenOnce'
    BY <1>2, <1>3 DEF EffectInv, OrderTakenOnce
  <1> QED
    BY <1>6, <1>7, <1>8 DEF EffectInv

\* A status that ends an engagement frees an effector no order is bound for.
LEMMA StatusEffects ==
  ASSUME TypeInv, ReservationExact, EffectInv, NEW m \in statuses,
         ReceiveStatus(m), UNCHANGED effectorVars
  PROVE  EffectInv'
  <1> DEFINE e == m.engagement
             s == [state |-> m.state, sequence |-> m.sequence,
                   effector |-> m.effector]
  <1> USE DEF ReceiveStatus, effectorVars, callVars, logVars
  <1>1. e \in Engagements /\ s \in Status /\ s.effector \in Effectors
    BY DEF TypeInv, TypeOK, BusTypeOK, Report, Status
  <1>2. \/ reservations' = reservations
        \/ /\ s.state \in TerminalStates /\ reservations[s.effector] = e
           /\ reservations' = [reservations EXCEPT ![s.effector] = None]
    BY DEF Transition, ledgerVars
  <1>3. InhibitCoversOrders'
    <2>1. SUFFICES ASSUME c2Restarts = 0, ~Redelivery
                   PROVE  InhibitCoversOrders'
      BY DEF InhibitCoversOrders
    <2>2. /\ \A p \in orders : p.effector \in Effectors
          /\ \A p \in orders : reservations[p.effector] = p.engagement
          /\ \A g \in Effectors : active[g] # None => reservations[g] = active[g]
      BY <2>1 DEF EffectInv, InhibitCoversOrders, TypeInv, TypeOK, BusTypeOK, Order
    <2>3. s.state \in TerminalStates =>
            /\ \A p \in orders : p.engagement # e
            /\ \A g \in Effectors : active[g] # e
      BY <2>1 DEF EffectInv, ReportsAreLastWords
    <2> QED
      BY <1>1, <1>2, <2>2, <2>3
      DEF InhibitCoversOrders, TypeInv, TypeOK, C2TypeOK
  <1>4. ReportsAreLastWords' /\ OrderTakenOnce'
    BY DEF EffectInv, ReportsAreLastWords, OrderTakenOnce
  <1> QED
    BY <1>3, <1>4 DEF EffectInv

\* A delivered order is refused for good or becomes the execution its
\* reservation covers.
LEMMA OrderEffects ==
  ASSUME TypeInv, EffectInv, NEW o \in orders,
         RefuseUnverified(o) \/ RefuseLocally(o) \/ Accept(o), UNCHANGED c2Vars
  PROVE  EffectInv'
  <1> USE DEF c2Vars, ledgerVars, callVars, logVars, TakeOrder, OrdersAfterDelivery,
              RefuseUnverified, RefuseLocally, Accept, Emit
  <1>1. /\ o.engagement \in Engagements /\ o.effector \in Effectors
        /\ o \in evidence /\ o.engagement \in used
        /\ \A p \in orders \ {o} : p.engagement # o.engagement
    BY DEF TypeInv, TypeOK, BusTypeOK, Order, EvidenceBeforeOrder, EvidenceUnique
  <1>2. \/ active' = active
        \/ active' = [active EXCEPT ![o.effector] = o.engagement]
    OBVIOUS
  <1>3. \E state \in States :
          /\ statuses' = statuses \cup
               {[engagement |-> o.engagement, effector |-> o.effector,
                 state |-> state, sequence |-> orderSequence + 1]}
          /\ state \in TerminalStates => active' = active
    <2>1. {"DENIED", "FAILED"} \subseteq States /\ "ACCEPTED" \in States \ TerminalStates
      BY DEF States, LiveStates, TerminalStates
    <2>2. CASE RefuseUnverified(o)
      BY <2>1, <2>2
    <2>3. CASE RefuseLocally(o)
      BY <2>1, <2>3
    <2>4. CASE Accept(o)
      BY <2>1, <2>4
    <2> QED
      BY <2>2, <2>3, <2>4
  <1>4. CASE Redelivery
    BY <1>1, <1>3, <1>4 DEF EffectInv, InhibitCoversOrders, ReportsAreLastWords,
                            OrderTakenOnce
  <1>5. CASE ~Redelivery
    <2>1. orders' = orders \ {o}
      BY <1>5
    <2>2. \A p \in orders, g \in Effectors : active[g] # p.engagement
      BY <1>5 DEF EffectInv, OrderTakenOnce
    <2>3. InhibitCoversOrders'
      BY <1>1, <1>2, <2>1, <1>5
      DEF EffectInv, InhibitCoversOrders, TypeInv, TypeOK, EffectorTypeOK
    <2>4. OrderTakenOnce'
      BY <1>1, <1>2, <2>1, <2>2 DEF OrderTakenOnce, TypeInv, TypeOK, EffectorTypeOK
    <2>5. ReportsAreLastWords'
      <3>1. ASSUME NEW m \in statuses
            PROVE  /\ m.engagement \in used
                   /\ (c2Restarts = 0 /\ m.state \in TerminalStates) =>
                        /\ \A p \in orders : p.engagement # m.engagement
                        /\ \A g \in Effectors : active[g] # m.engagement
        BY <1>5 DEF EffectInv, ReportsAreLastWords
      <3>2. ASSUME NEW m \in statuses, c2Restarts = 0, m.state \in TerminalStates
            PROVE  \A g \in Effectors : active'[g] # m.engagement
        BY <1>1, <1>2, <3>1, <3>2 DEF TypeInv, TypeOK, EffectorTypeOK
      <3> QED
        BY <1>1, <1>3, <2>1, <2>2, <3>1, <3>2 DEF ReportsAreLastWords
    <2> QED
      BY <2>3, <2>4, <2>5 DEF EffectInv
  <1> QED
    BY <1>4, <1>5, BusFlags

\* An execution that advances or stops stays covered until it reports its end.
LEMMA ExecutionEffects ==
  ASSUME TypeInv, EffectInv, NEW f \in Effectors,
         Advance(f) \/ Stop(f) \/ RestartEffector(f), UNCHANGED c2Vars
  PROVE  EffectInv'
  <1> DEFINE e == active[f]
  <1> USE DEF c2Vars, ledgerVars, callVars, logVars
  <1>1. /\ active' \in {active, [active EXCEPT ![f] = None]}
        /\ orders' = orders
    BY DEF Advance, Stop, RestartEffector, busVars
  <1>2. \/ statuses' = statuses
        \/ /\ e # None
           /\ \E n : /\ statuses' = statuses \cup {n}
                     /\ n.engagement = e
                     /\ n.state \in TerminalStates =>
                          active' = [active EXCEPT ![f] = None]
    <2>1. CASE Advance(f)
      <3>1. e # None /\ execution[e].phase \in Executing
        BY <2>1 DEF Advance, TypeInv, ActiveEvidenced
      <3>2. Following[execution[e].phase] \in TerminalStates =>
              Following[execution[e].phase] = "COMPLETE"
        BY <3>1, FollowingPhase DEF Executing, TerminalStates
      <3> QED
        BY <2>1, <3>1, <3>2 DEF Advance, Emit
    <2>2. CASE Stop(f)
      BY <2>2 DEF Stop, Emit
    <2>3. CASE RestartEffector(f)
      BY <2>3 DEF RestartEffector, busVars
    <2> QED
      BY <2>1, <2>2, <2>3
  <1>3. e # None => e \in used
    BY DEF TypeInv, ActiveEvidenced, EvidenceUnique
  <1>4. \A g \in Effectors \ {f} : active[g] # None => active[g] # e
    BY DEF TypeInv, ActiveEvidenced, EvidenceUnique
  <1>5. \A g \in Effectors : active'[g] = active[g] \/ active'[g] = None
    BY <1>1 DEF TypeInv, TypeOK, EffectorTypeOK
  <1>6. InhibitCoversOrders'
    BY <1>1, <1>5 DEF EffectInv, InhibitCoversOrders
  <1>7. OrderTakenOnce'
    BY <1>1, <1>5, NoneIsFresh DEF EffectInv, OrderTakenOnce, TypeInv, TypeOK,
                                   BusTypeOK, Order
  <1>8. ReportsAreLastWords'
    <2>1. ASSUME NEW m \in statuses
          PROVE  m.engagement # None
      BY NoneIsFresh DEF TypeInv, TypeOK, BusTypeOK, Report
    <2>2. CASE statuses' = statuses
      BY <1>1, <1>5, <2>1, <2>2 DEF EffectInv, ReportsAreLastWords
    <2>3. ASSUME e # None, NEW n, statuses' = statuses \cup {n}, n.engagement = e,
                 n.state \in TerminalStates => active' = [active EXCEPT ![f] = None]
          PROVE  ReportsAreLastWords'
      <3>1. ~Redelivery => \A o \in orders : o.engagement # e
        BY <2>3 DEF EffectInv, OrderTakenOnce
      <3>2. n.state \in TerminalStates => \A g \in Effectors : active'[g] # e
        BY <1>4, <2>3 DEF TypeInv, TypeOK, EffectorTypeOK
      <3> QED
        BY <1>1, <1>3, <1>5, <2>1, <2>3, <3>1, <3>2
        DEF EffectInv, ReportsAreLastWords
    <2> QED
      BY <1>2, <2>2, <2>3
  <1> QED
    BY <1>6, <1>7, <1>8 DEF EffectInv

\* Every step preserves the coverage of orders and executions by reservations.
LEMMA EffectStep ==
  TypeInv /\ ReservationExact /\ EffectInv /\ [Next]_vars => EffectInv'
  <1> SUFFICES ASSUME TypeInv, ReservationExact, EffectInv, [Next]_vars
               PROVE  EffectInv'
    OBVIOUS
  <1>1. ASSUME UNCHANGED <<active, reservations, c2Restarts>>,
               used \subseteq used', orders' \subseteq orders,
               statuses' \subseteq statuses
        PROVE  EffectInv'
    BY <1>1 DEF EffectInv, InhibitCoversOrders, ReportsAreLastWords, OrderTakenOnce
  <1>2. ASSUME NEW c \in Calls, RequestStep(c), UNCHANGED effectorVars
        PROVE  EffectInv'
    <2> USE DEF effectorVars, ledgerVars, logVars, busVars
    <2>1. ASSUME NEW e \in Engagements, Release(c, e)
          PROVE  EffectInv'
      BY <1>2, <2>1, ReleaseEffects
    <2>2. ASSUME NEW e \in Engagements,
                 Deny(c, e) \/ InhibitForAudit(c, e) \/ FailUnsent(c, e)
          PROVE  EffectInv'
      BY <1>1, <1>2, <2>2 DEF Deny, InhibitForAudit, FailUnsent, Open
    <2>3. ASSUME \/ \E r \in Requests, f \in Effectors : SubmitRequest(c, r, f)
                 \/ FinishRequest(c) \/ ReturnAccepted(c)
          PROVE  EffectInv'
      BY <1>1, <1>2, <2>3 DEF SubmitRequest, FinishRequest, ReturnAccepted
    <2> QED
      BY <1>2, <2>1, <2>2, <2>3 DEF RequestStep
  <1>3. ASSUME NEW a \in AbortRequests, AbortStep(a), UNCHANGED effectorVars
        PROVE  EffectInv'
    BY <1>1, <1>3 DEF AbortStep, AbortUnsent, SendAbort, FinishAbort, ledgerVars,
                      callVars, logVars, busVars, effectorVars
  <1>4. ASSUME NEW e \in Engagements, ConsumeAuthorityToken(e),
               UNCHANGED effectorVars
        PROVE  EffectInv'
    <2>1. reservations' = reservations
      BY <1>4 DEF ConsumeAuthorityToken, Transition, EngagementStatus,
                  TerminalStates, ledgerVars
    <2> QED
      BY <1>1, <1>4, <2>1 DEF ConsumeAuthorityToken, callVars, busVars, effectorVars
  <1>5. CASE ExpireStaleCommands /\ UNCHANGED effectorVars
    BY <1>1, <1>5 DEF ExpireStaleCommands, Expire, callVars, logVars, busVars,
                      effectorVars
  <1>6. CASE RestartC2 /\ UNCHANGED effectorVars
    <2>1. c2Restarts' # 0
      BY <1>6, C2Bound DEF RestartC2, TypeInv, TypeOK, C2TypeOK
    <2>2. UNCHANGED <<orders, statuses, active, used>>
      BY <1>6 DEF RestartC2, busVars, effectorVars
    <2> QED
      BY <2>1, <2>2 DEF EffectInv, InhibitCoversOrders, ReportsAreLastWords,
                        OrderTakenOnce
  <1>7. CASE EffectorStep
    <2>1. ASSUME NEW d \in controls, ReceiveControl(d)
          PROVE  EffectInv'
      BY <1>1, <1>7, <2>1 DEF EffectorStep, ReceiveControl, c2Vars, ledgerVars,
                              callVars, logVars
    <2> QED
      BY <1>7, <2>1, OrderEffects, ExecutionEffects
      DEF EffectorStep, EffectorNext, ExecuteStep
  <1>8. CASE BusStep \/ UNCHANGED vars
    BY <1>1, <1>8 DEF BusStep, Lose, vars, c2Vars, ledgerVars, callVars, logVars,
                      busVars, effectorVars
  <1> QED
    BY <1>2, <1>3, <1>4, <1>5, <1>6, <1>7, <1>8, StatusEffects
    DEF Next, C2Step, C2Next, TokenStep

----------------------------------------------------------------------------
(* The theorems                                                            *)

\* FireInv, in the three parts above, holds initially and is preserved.
THEOREM FireInvariant == Spec => []FireInv
  <1>1. FireInv <=> TypeInv /\ ReservationExact /\ EffectInv
    BY DEF FireInv, TypeInv, EffectInv
  <1>2. Init => FireInv
    <2> SUFFICES ASSUME Init PROVE FireInv
      OBVIOUS
    <2>1. TypeInv
      BY TypeInvInit
    <2>2. ReservationExact
      BY NoneIsFresh DEF Init, C2Init, ReservationExact, Live, NoStatus, LiveStates
    <2>3. EffectInv
      BY DEF Init, C2Init, BusInit, EffectorInit, EffectInv, InhibitCoversOrders,
             ReportsAreLastWords, OrderTakenOnce
    <2> QED
      BY <1>1, <2>1, <2>2, <2>3
  <1>3. FireInv /\ [Next]_vars => FireInv'
    <2> SUFFICES ASSUME FireInv, [Next]_vars PROVE FireInv'
      OBVIOUS
    <2>1. TypeInv' /\ ReservationExact' /\ EffectInv'
      BY <1>1, TypeInvStep, ReservationStep, EffectStep
    <2> QED
      BY <2>1 DEF FireInv, TypeInv, EffectInv
  <1> QED
    BY <1>2, <1>3, PTL DEF Spec

\* Every variable keeps its type.
THEOREM TypeCorrect == Spec => []TypeOK
  BY FireInvariant, PTL DEF FireInv

\* The reservation table is at all times exactly the set of live engagements.
THEOREM ReservationsAreExact == Spec => []ReservationExact
  BY FireInvariant, PTL DEF FireInv

\* No order is in flight, and nothing is executed, without its audit record.
THEOREM EvidencePrecedesOrder == Spec => []EvidenceBeforeOrder
  BY FireInvariant, PTL DEF FireInv

\* An order in flight or in execution keeps its effector reserved.
THEOREM InhibitHolds == Spec => []InhibitCoversOrders
  BY FireInvariant, PTL DEF FireInv
=============================================================================
