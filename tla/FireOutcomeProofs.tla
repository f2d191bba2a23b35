------------------------- MODULE FireOutcomeProofs -------------------------
(***************************************************************************)
(* What the ledger, the receipts and the effectors agree on in the end:    *)
(* further invariants, the action properties and the refinement of the     *)
(* effect interlock.  They rest on FireInv; every theorem says which of    *)
(* the bus, clock and restart constants it restricts.                      *)
(***************************************************************************)
EXTENDS FireControlProofs

\* A status of a live engagement's own effector moves it on, or ends it.
Applied(e, s) ==
  /\ Live(e)
  /\ s \in Status /\ s.effector = engagements[e].effector
  /\ s.state \in LiveStates \cup TerminalStates
  /\ s.sequence > engagements[e].sequence
  /\ Transition(e, s)

\* A fresh engagement is entered in the ledger by a handler that held a request.
Opened(c, e, state, sequence) ==
  /\ calls[c].pc = "waiting" /\ e \notin used
  /\ calls[c].request \in Requests /\ calls[c].effector \in Effectors
  /\ used' = used \cup {e}
  /\ requests' = [requests EXCEPT ![calls[c].request] = e]
  /\ engagements' = [engagements EXCEPT ![e] =
       [state |-> state, sequence |-> sequence, effector |-> calls[c].effector]]
  /\ UNCHANGED <<deliveryUnknown, ackTimeouts, abortVars, c2Restarts, statuses>>

\* The two ways a request handler leaves the ledger: refused, or released.
Refused(c, e) ==
  /\ \E state \in {"DENIED", "FAILED"}, sequence \in {2, 3} :
       Opened(c, e, state, sequence)
  /\ Return(c)
  /\ UNCHANGED <<reservations, orders>>
  /\ evidence' \in {evidence, evidence \cup {AuthorizedRecord(c, e)}}

----------------------------------------------------------------------------
(* What a step of fire control is                                          *)

LEMMA StepKinds ==
  ASSUME Next
  PROVE  \/ /\ UNCHANGED effectorVars
            /\ \/ \E c \in Calls : RequestStep(c)
               \/ \E a \in AbortRequests : AbortStep(a)
               \/ \E m \in statuses : ReceiveStatus(m)
               \/ RestConsume /\ \E e \in Engagements : ConsumeAuthorityToken(e)
               \/ ExpireStaleCommands
               \/ RestartC2
         \/ EffectorStep
         \/ BusStep
  BY DEF Next, C2Step, C2Next, TokenStep

LEMMA RequestKinds ==
  ASSUME TypeInv, NEW c \in Calls, RequestStep(c)
  PROVE  \/ \E r \in Requests, f \in Effectors : SubmitRequest(c, r, f)
         \/ \E e \in Engagements : Refused(c, e) \/ Release(c, e)
         \/ FinishRequest(c)
         \/ ReturnAccepted(c)
  <1>1. {"DENIED", "FAILED"} \subseteq States \ {"PROPOSED"} /\ {2, 3} \subseteq Nat
    BY DEF States, LiveStates, TerminalStates
  <1>2. ASSUME NEW e \in Engagements, NEW state \in {"DENIED", "FAILED"},
               NEW sequence \in {2, 3}, Open(c, e, state, sequence)
        PROVE  Opened(c, e, state, sequence)
    BY <1>1, <1>2, OpenTypes DEF Open, Opened
  <1>3. ASSUME NEW e \in Engagements, Deny(c, e)
        PROVE  Refused(c, e)
    BY <1>2, <1>3 DEF Deny, Refused
  <1>4. ASSUME NEW e \in Engagements, InhibitForAudit(c, e)
        PROVE  Refused(c, e)
    BY <1>2, <1>4 DEF InhibitForAudit, Refused
  <1>5. ASSUME NEW e \in Engagements, FailUnsent(c, e)
        PROVE  Refused(c, e)
    BY <1>2, <1>5 DEF FailUnsent, Refused
  <1> QED
    BY <1>3, <1>4, <1>5 DEF RequestStep

\* A released order is the engagement's first, for the reserved effector.
LEMMA ReleaseFacts ==
  ASSUME TypeInv, NEW c \in Calls, NEW e \in Engagements, Release(c, e)
  PROVE  /\ Opened(c, e, "AUTHORIZED", 2)
         /\ reservations[calls[c].effector] = None
         /\ reservations' = [reservations EXCEPT ![calls[c].effector] = e]
         /\ evidence' = evidence \cup {AuthorizedRecord(c, e)}
         /\ orders' = orders \cup {AuthorizedRecord(c, e)}
         /\ calls' = [calls EXCEPT ![c].pc = "publishing", ![c].engagement = e]
  <1>1. "AUTHORIZED" \in States \ {"PROPOSED"} /\ 2 \in Nat
    BY DEF States, LiveStates
  <1>2. Open(c, e, "AUTHORIZED", 2)
    BY DEF Release
  <1>3. calls[c].request \in Requests /\ calls[c].effector \in Effectors
    BY <1>1, <1>2, OpenTypes
  <1> QED
    BY <1>2, <1>3 DEF Open, Opened, Release

LEMMA StatusKinds ==
  ASSUME TypeInv, NEW m \in statuses, ReceiveStatus(m)
  PROVE  \/ UNCHANGED <<ledgerVars, abortVars>>
         \/ Applied(m.engagement, [state |-> m.state, sequence |-> m.sequence,
                                   effector |-> m.effector])
  <1> DEFINE e == m.engagement
             s == [state |-> m.state, sequence |-> m.sequence,
                   effector |-> m.effector]
  <1>1. e \in Engagements /\ s \in Status
    BY DEF TypeInv, TypeOK, BusTypeOK, Report, Status
  <1>2. \/ UNCHANGED <<ledgerVars, abortVars>>
        \/ \E timely \in BOOLEAN :
             /\ Known(e) /\ Verdict(engagements[e], s, timely) = "APPLIED"
             /\ Transition(e, s)
    BY DEF ReceiveStatus
  <1>3. ASSUME NEW timely \in BOOLEAN, Known(e), Transition(e, s),
               Verdict(engagements[e], s, timely) = "APPLIED"
        PROVE  Applied(e, s)
    <2>1. Applies(engagements[e], s, timely)
      BY <1>3, Zenon DEF Verdict
    <2>2. s.sequence > engagements[e].sequence
      BY <1>3, <2>1 DEF Applies, Known
    <2>3. /\ Live(e) /\ s.effector = engagements[e].effector
          /\ s.state \in LiveStates \cup TerminalStates
      BY <1>1, <1>3, AppliedIsLive
    <2> QED
      BY <1>1, <1>3, <2>2, <2>3 DEF Applied
  <1> QED
    BY <1>2, <1>3

LEMMA TokenKinds ==
  ASSUME TypeInv, NEW e \in Engagements, ConsumeAuthorityToken(e)
  PROVE  \/ UNCHANGED <<ledgerVars, abortVars>>
         \/ \E s \in Status : s.state = "ACCEPTED" /\ Applied(e, s)
  <1> DEFINE s == EngagementStatus(e, "ACCEPTED", engagements[e].sequence + 1)
  <1>1. CASE engagements[e].state = "AUTHORIZED"
    <2>1. engagements[e] \in Status
      BY DEF TypeInv, TypeOK, C2TypeOK
    <2>2. /\ s \in Status /\ s.effector = engagements[e].effector
          /\ s.state = "ACCEPTED" /\ s.sequence > engagements[e].sequence
      BY <1>1, <2>1 DEF EngagementStatus, Status, States, LiveStates
    <2>3. Live(e) /\ "ACCEPTED" \in LiveStates
      BY <1>1 DEF Live, LiveStates
    <2>4. Transition(e, s)
      BY <1>1 DEF ConsumeAuthorityToken
    <2> QED
      BY <2>2, <2>3, <2>4 DEF Applied
  <1>2. CASE engagements[e].state # "AUTHORIZED"
    BY <1>2 DEF ConsumeAuthorityToken
  <1> QED
    BY <1>1, <1>2

\* The tables after an applied status, entry by entry.
LEMMA AppliedFacts ==
  ASSUME TypeInv, NEW e \in Engagements, NEW s, Applied(e, s)
  PROVE  /\ \A x \in Engagements : engagements'[x] = IF x = e THEN s ELSE engagements[x]
         /\ deliveryUnknown' \subseteq deliveryUnknown
         /\ (s.sequence > 2 \/ s.state \in TerminalStates) => e \notin deliveryUnknown'
         /\ ackTimeouts' = ackTimeouts \ {e}
         /\ abortAckTimeouts' \subseteq abortAckTimeouts
         /\ s.state \in TerminalStates => e \notin abortAckTimeouts'
         /\ \A x \in Engagements :
              abortPending'[x] = IF x = e /\ s.state \in TerminalStates THEN None
                                                                       ELSE abortPending[x]
         /\ \A a \in AbortRequests :
              receipts'[a] = IF /\ s.state \in TerminalStates /\ abortPending[e] = a
                                /\ receipts[a] # NoReceipt
                             THEN ReceiptFor(e, IF s.state = "ABORTED"
                                                THEN "EFFECTOR_ACKNOWLEDGED"
                                                ELSE "TERMINAL_WITHOUT_ABORT_ACK")
                             ELSE receipts[a]
         /\ aborts' = aborts
  BY DEF Applied, Transition, ReceiptsAfter, TypeInv, TypeOK, C2TypeOK

\* A fresh engagement is in no table of the node.
LEMMA OpenedFacts ==
  ASSUME TypeInv, NEW c \in Calls, NEW e \in Engagements, NEW state, NEW sequence,
         Opened(c, e, state, sequence)
  PROVE  /\ engagements[e].state = "ABSENT"
         /\ engagements'[e] = [state |-> state, sequence |-> sequence,
                               effector |-> calls[c].effector]
         /\ \A x \in Engagements : x # e => engagements'[x] = engagements[x]
  BY DEF Opened, TypeInv, TypeOK, C2TypeOK, LedgerKnown, Known

----------------------------------------------------------------------------
(* Annotations, markers and receipts                                       *)

DirectiveInv ==
  PublishingIsCurrent /\ NoStaleAnnotation /\ MarkersBacked /\ ReceiptIsTruthful

\* What a receipt for delivery outcome d says.
LEMMA ReceiptForFacts ==
  ASSUME NEW e, NEW d
  PROVE  ReceiptFor(e, d).engagement = e /\ ReceiptFor(e, d).delivery = d
  BY DEF ReceiptFor

LEMMA OpenedDirectives ==
  ASSUME TypeInv, DirectiveInv, NEW c \in Calls, NEW e \in Engagements,
         NEW state, NEW sequence \in {2, 3}, Opened(c, e, state, sequence),
         state # "ABSENT",
         \/ calls' = [calls EXCEPT ![c] = IdleCall]
         \/ /\ calls' = [calls EXCEPT ![c].pc = "publishing", ![c].engagement = e]
            /\ state = "AUTHORIZED"
  PROVE  DirectiveInv'
  <1>1. /\ engagements[e].state = "ABSENT"
        /\ engagements'[e] = [state |-> state, sequence |-> sequence,
                              effector |-> calls[c].effector]
        /\ \A x \in Engagements : x # e => engagements'[x] = engagements[x]
    BY OpenedFacts
  <1>2. /\ engagements'[e].state = state /\ engagements'[e].sequence = sequence
        /\ UNCHANGED <<deliveryUnknown, ackTimeouts, abortPending, abortAckTimeouts,
                       receipts, aborts>>
    BY <1>1 DEF Opened, abortVars
  <1>3. "ABSENT" \notin LiveStates /\ "ABSENT" # "AUTHORIZED" /\ "ABSENT" \notin TerminalStates
    BY DEF LiveStates, TerminalStates
  <1>4. PublishingIsCurrent'
    <2>1. \A x \in Engagements :
            engagements'[x].state # "ABSENT" => engagements'[x].sequence >= 2
      BY <1>1, <1>2 DEF DirectiveInv, PublishingIsCurrent, Known
    <2>2. \A d \in Calls : calls[d].pc = "publishing" =>
            /\ calls[d].engagement \in Engagements /\ calls[d].engagement # e
      BY <1>1 DEF DirectiveInv, PublishingIsCurrent, TypeInv, CallsWellFormed
    <2>3. ASSUME NEW d \in Calls, calls'[d].pc = "publishing"
          PROVE  LET s == engagements'[calls'[d].engagement] IN
                 s.state # "ABSENT" /\ (s.sequence <= 2 => s.state = "AUTHORIZED")
      <3>1. calls \in [Calls -> Call] /\ calls[c] \in Call
        BY DEF TypeInv, TypeOK, C2TypeOK
      <3>2. CASE d # c
        <4>1. calls'[d] = calls[d]
          BY <3>1, <3>2
        <4> QED
          BY <1>1, <2>2, <2>3, <4>1 DEF DirectiveInv, PublishingIsCurrent
      <3>3. CASE d = c
        <4>1. state = "AUTHORIZED" /\ calls'[d].engagement = e
          BY <2>3, <3>1, <3>3 DEF IdleCall, Call
        <4> QED
          BY <1>2, <4>1
      <3> QED
        BY <3>2, <3>3
    <2> QED
      BY <2>1, <2>3 DEF PublishingIsCurrent, Known
  <1>5. NoStaleAnnotation'
    BY <1>1, <1>2, <1>3
    DEF DirectiveInv, NoStaleAnnotation, Live, TypeInv, TypeOK, C2TypeOK
  <1>6. MarkersBacked'
    BY <1>2 DEF DirectiveInv, MarkersBacked
  <1>7. ReceiptIsTruthful'
    <2> SUFFICES ASSUME NEW a \in AbortRequests
                 PROVE  LET state2 == engagements'[receipts[a].engagement].state IN
                        /\ receipts[a].delivery = "EFFECTOR_ACKNOWLEDGED" => state2 = "ABORTED"
                        /\ receipts[a].delivery = "TERMINAL_WITHOUT_ABORT_ACK" =>
                             state2 \in TerminalStates \ {"ABORTED"}
      BY <1>2 DEF ReceiptIsTruthful
    <2>2. CASE receipts[a].delivery \in {"EFFECTOR_ACKNOWLEDGED", "TERMINAL_WITHOUT_ABORT_ACK"}
      <3>1. engagements[receipts[a].engagement].state \in TerminalStates
        BY <2>2 DEF DirectiveInv, ReceiptIsTruthful, TerminalStates
      <3>2. receipts[a].engagement # e
        BY <1>1, <1>3, <3>1
      <3>3. receipts[a].engagement \in Engagements
        BY <2>2 DEF DirectiveInv, MarkersBacked, NoReceipt
      <3> QED
        BY <1>1, <3>2, <3>3 DEF DirectiveInv, ReceiptIsTruthful
    <2> QED
      BY <2>2
  <1> QED
    BY <1>4, <1>5, <1>6, <1>7 DEF DirectiveInv

\* The parts of a request handler that only move it along.
LEMMA HandlerDirectives ==
  ASSUME TypeInv, DirectiveInv, NEW c \in Calls,
         \/ \E r \in Requests, f \in Effectors : SubmitRequest(c, r, f)
         \/ FinishRequest(c) \/ ReturnAccepted(c)
  PROVE  DirectiveInv'
  <1>1. /\ UNCHANGED <<engagements, ackTimeouts, abortVars>>
        /\ \/ deliveryUnknown' = deliveryUnknown
           \/ /\ calls[c].pc = "publishing"
              /\ engagements[calls[c].engagement].sequence <= 2
              /\ deliveryUnknown' = deliveryUnknown \cup {calls[c].engagement}
    BY DEF SubmitRequest, FinishRequest, ReturnAccepted, ledgerVars
  <1> DEFINE Ends == /\ \A d \in Calls : d # c => calls'[d] = calls[d]
                     /\ calls'[c].pc # "publishing"
  <1>2. Ends
    <2>1. calls \in [Calls -> Call] /\ calls[c] \in Call
      BY DEF TypeInv, TypeOK, C2TypeOK
    <2>2. ASSUME NEW r \in Requests, NEW f \in Effectors, SubmitRequest(c, r, f)
          PROVE  Ends
      BY <2>1, <2>2 DEF SubmitRequest
    <2>3. CASE FinishRequest(c)
      BY <2>1, <2>3 DEF FinishRequest, Return, IdleCall, Call
    <2>4. CASE ReturnAccepted(c)
      BY <2>1, <2>4 DEF ReturnAccepted, Return, IdleCall
    <2> QED
      BY <2>2, <2>3, <2>4
  <1>3. PublishingIsCurrent'
    BY <1>1, <1>2 DEF DirectiveInv, PublishingIsCurrent, Known
  <1>4. \A e \in deliveryUnknown' : engagements[e].state = "AUTHORIZED"
    BY <1>1 DEF DirectiveInv, PublishingIsCurrent, NoStaleAnnotation
  <1>5. NoStaleAnnotation'
    BY <1>1, <1>4 DEF DirectiveInv, NoStaleAnnotation, Live, abortVars
  <1>6. MarkersBacked' /\ ReceiptIsTruthful'
    BY <1>1 DEF DirectiveInv, MarkersBacked, ReceiptIsTruthful, abortVars
  <1> QED
    BY <1>3, <1>5, <1>6 DEF DirectiveInv

LEMMA AppliedDirectives ==
  ASSUME TypeInv, DirectiveInv, NEW e \in Engagements, NEW s, Applied(e, s),
         calls' = calls
  PROVE  DirectiveInv'
  <1>0. /\ Live(e) /\ s \in Status /\ s.state \in LiveStates \cup TerminalStates
        /\ s.sequence > engagements[e].sequence /\ engagements[e].sequence >= 2
    BY DEF Applied, DirectiveInv, PublishingIsCurrent, Known, Live, LiveStates
  <1>1. /\ \A x \in Engagements : engagements'[x] = IF x = e THEN s ELSE engagements[x]
        /\ deliveryUnknown' \subseteq deliveryUnknown
        /\ e \notin deliveryUnknown'
        /\ ackTimeouts' = ackTimeouts \ {e}
        /\ abortAckTimeouts' \subseteq abortAckTimeouts
        /\ s.state \in TerminalStates => e \notin abortAckTimeouts'
        /\ \A x \in Engagements :
             abortPending'[x] = IF x = e /\ s.state \in TerminalStates THEN None
                                                                      ELSE abortPending[x]
        /\ aborts' = aborts
    <2>1. engagements[e].sequence \in Nat /\ s.sequence \in Nat
      BY <1>0 DEF TypeInv, TypeOK, C2TypeOK, Status
    <2>2. s.sequence > 2
      BY <1>0, <2>1
    <2> QED
      BY <2>2, AppliedFacts
  <1>2. \A a \in AbortRequests :
          \/ receipts'[a] = receipts[a]
          \/ /\ s.state \in TerminalStates /\ abortPending[e] = a
             /\ receipts[a] # NoReceipt /\ receipts'[a].engagement = e
             /\ receipts'[a].delivery = IF s.state = "ABORTED"
                                        THEN "EFFECTOR_ACKNOWLEDGED"
                                        ELSE "TERMINAL_WITHOUT_ABORT_ACK"
    BY AppliedFacts, ReceiptForFacts
  <1>3. "ABSENT" \notin LiveStates \cup TerminalStates /\ LiveStates \cap TerminalStates = {}
    BY DEF LiveStates, TerminalStates
  <1>4. PublishingIsCurrent'
    <2>1. s.sequence \in Nat /\ s.sequence > 2 /\ s.state # "ABSENT"
      BY <1>0, <1>3 DEF TypeInv, TypeOK, C2TypeOK, Status
    <2>2. \A c \in Calls : calls[c].pc = "publishing" => calls[c].engagement \in Engagements
      BY DEF TypeInv, CallsWellFormed
    <2> QED
      BY <1>1, <2>1, <2>2 DEF DirectiveInv, PublishingIsCurrent, Known
  <1>5. NoStaleAnnotation'
    BY <1>0, <1>1, <1>3
    DEF DirectiveInv, NoStaleAnnotation, Live, TypeInv, TypeOK, C2TypeOK
  <1>6. MarkersBacked'
    <2>1. ASSUME NEW a \in AbortRequests
          PROVE  /\ receipts'[a] # NoReceipt => receipts'[a].engagement \in Engagements
                 /\ aborts[a] # None => receipts'[a] = NoReceipt
      BY <1>2 DEF DirectiveInv, MarkersBacked
    <2>2. ASSUME NEW x \in Engagements, NEW a \in AbortRequests, abortPending'[x] = a
          PROVE  \/ aborts[a] = x
                 \/ receipts'[a].engagement = x /\ receipts'[a].delivery \notin Settled
      <3>1. abortPending[x] = a /\ ~(x = e /\ s.state \in TerminalStates)
        BY <1>1, <2>2, NoneIsFresh
      <3>2. \/ aborts[a] = x
            \/ receipts[a].engagement = x /\ receipts[a].delivery \notin Settled
        BY <3>1 DEF DirectiveInv, MarkersBacked
      <3>3. CASE receipts'[a] = receipts[a]
        BY <3>2, <3>3
      <3>4. CASE /\ s.state \in TerminalStates /\ abortPending[e] = a
                 /\ receipts[a] # NoReceipt
        <4>1. aborts[a] = None
          BY <3>4 DEF DirectiveInv, MarkersBacked
        <4>2. receipts[a].engagement = e /\ receipts[a].engagement = x
          BY <3>2, <3>4, <4>1, NoneIsFresh DEF DirectiveInv, MarkersBacked
        <4> QED
          BY <3>1, <3>4, <4>2
      <3> QED
        BY <1>2, <3>3, <3>4
    <2> QED
      BY <1>1, <2>1, <2>2 DEF MarkersBacked
  <1>7. ReceiptIsTruthful'
    <2> SUFFICES ASSUME NEW a \in AbortRequests
                 PROVE  LET state2 == engagements'[receipts'[a].engagement].state IN
                        /\ receipts'[a].delivery = "EFFECTOR_ACKNOWLEDGED" => state2 = "ABORTED"
                        /\ receipts'[a].delivery = "TERMINAL_WITHOUT_ABORT_ACK" =>
                             state2 \in TerminalStates \ {"ABORTED"}
      BY DEF ReceiptIsTruthful
    <2>1. CASE receipts'[a] = receipts[a] /\ receipts[a] # NoReceipt
      <3>1. receipts[a].engagement \in Engagements
        BY <2>1 DEF DirectiveInv, MarkersBacked
      <3>2. CASE receipts[a].engagement = e
        BY <1>0, <1>3, <2>1, <3>2 DEF DirectiveInv, ReceiptIsTruthful, Live, TerminalStates
      <3>3. CASE receipts[a].engagement # e
        BY <1>1, <2>1, <3>1, <3>3 DEF DirectiveInv, ReceiptIsTruthful
      <3> QED
        BY <3>2, <3>3
    <2>2. CASE receipts'[a] = NoReceipt
      BY <2>2 DEF NoReceipt
    <2>3. CASE receipts'[a] # receipts[a]
      BY <1>1, <1>2, <2>3
    <2> QED
      BY <2>1, <2>2, <2>3
  <1> QED
    BY <1>4, <1>5, <1>6, <1>7 DEF DirectiveInv

LEMMA AbortDirectives ==
  ASSUME TypeInv, DirectiveInv, NEW a \in AbortRequests, AbortStep(a)
  PROVE  DirectiveInv'
  <1>1. UNCHANGED <<engagements, deliveryUnknown, ackTimeouts, calls>>
    BY DEF AbortStep, AbortUnsent, SendAbort, FinishAbort, ledgerVars, callVars
  <1>2. PublishingIsCurrent'
    BY <1>1 DEF DirectiveInv, PublishingIsCurrent, Known
  <1>3. /\ receipts \in [AbortRequests -> Receipt]
        /\ aborts \in [AbortRequests -> Engagements \cup {None}]
        /\ abortPending \in [Engagements -> AbortRequests \cup {None}]
        /\ a # None /\ None \notin Engagements
    BY NoneIsFresh DEF TypeInv, TypeOK, C2TypeOK
  <1>4. ASSUME NEW e \in Engagements, MayAbort(a, e)
        PROVE  /\ Live(e) /\ receipts[a] = NoReceipt /\ aborts[a] = None
               /\ \A x \in Engagements : abortPending[x] # a
    <2>1. receipts[a] = NoReceipt /\ aborts[a] = None /\ Known(e) /\ ~Terminal(e)
      BY <1>4 DEF MayAbort
    <2>2. Live(e)
      BY <2>1 DEF TypeInv, TypeOK, C2TypeOK, LedgerKnown, Known, Terminal, Live, Status,
                  States
    <2>3. \A x \in Engagements : abortPending[x] # a
      BY <1>3, <2>1 DEF DirectiveInv, MarkersBacked, NoReceipt
    <2> QED
      BY <2>1, <2>2, <2>3
  <1>5. ASSUME NEW e \in Engagements, AbortUnsent(a, e)
        PROVE  DirectiveInv'
    <2>1. /\ receipts' = [receipts EXCEPT ![a] = ReceiptFor(e, "NOT_SENT")]
          /\ abortAckTimeouts' \subseteq abortAckTimeouts
          /\ UNCHANGED <<abortPending, aborts>> /\ MayAbort(a, e)
      BY <1>5 DEF AbortUnsent
    <2>2. /\ receipts'[a].engagement = e /\ receipts'[a].delivery = "NOT_SENT"
          /\ \A b \in AbortRequests : b # a => receipts'[b] = receipts[b]
      BY <1>3, <2>1, ReceiptForFacts
    <2>3. NoStaleAnnotation'
      BY <1>1, <2>1 DEF DirectiveInv, NoStaleAnnotation, Live
    <2>4. MarkersBacked'
      BY <1>4, <2>1, <2>2 DEF DirectiveInv, MarkersBacked
    <2>5. ReceiptIsTruthful'
      BY <1>1, <2>2 DEF DirectiveInv, ReceiptIsTruthful
    <2> QED
      BY <1>2, <2>3, <2>4, <2>5 DEF DirectiveInv
  <1>6. ASSUME NEW e \in Engagements, SendAbort(a, e)
        PROVE  DirectiveInv'
    <2>1. /\ abortPending' = [abortPending EXCEPT ![e] = a]
          /\ abortAckTimeouts' \subseteq abortAckTimeouts
          /\ aborts' = [aborts EXCEPT ![a] = e]
          /\ UNCHANGED receipts /\ MayAbort(a, e)
      BY <1>6 DEF SendAbort
    <2>2. /\ abortPending'[e] = a
          /\ \A x \in Engagements : x # e => abortPending'[x] = abortPending[x]
          /\ aborts'[a] = e
          /\ \A b \in AbortRequests : b # a => aborts'[b] = aborts[b]
      BY <1>3, <2>1
    <2>3. NoStaleAnnotation'
      BY <1>1, <1>4, <2>1, <2>2 DEF DirectiveInv, NoStaleAnnotation, Live
    <2>4. MarkersBacked'
      BY <1>4, <2>1, <2>2 DEF DirectiveInv, MarkersBacked
    <2>5. ReceiptIsTruthful'
      BY <1>1, <2>1 DEF DirectiveInv, ReceiptIsTruthful
    <2> QED
      BY <1>2, <2>3, <2>4, <2>5 DEF DirectiveInv
  <1>7. ASSUME FinishAbort(a)
        PROVE  DirectiveInv'
    <2> DEFINE e == aborts[a]
    <2>1. /\ e \in Engagements /\ e # None
          /\ aborts' = [aborts EXCEPT ![a] = None]
          /\ UNCHANGED <<abortPending, abortAckTimeouts>>
      BY <1>3, <1>7 DEF FinishAbort
    <2>2. PICK delivery \in
              IF Terminal(e)
              THEN {IF engagements[e].state = "ABORTED"
                      THEN "EFFECTOR_ACKNOWLEDGED" ELSE "TERMINAL_WITHOUT_ABORT_ACK"}
              ELSE {"DELIVERY_UNKNOWN", "AWAITING_ACK"} :
            receipts' = [receipts EXCEPT ![a] = ReceiptFor(e, delivery)]
      BY <1>7 DEF FinishAbort
    <2>3. /\ aborts'[a] = None
          /\ \A b \in AbortRequests : b # a => aborts'[b] = aborts[b]
          /\ receipts'[a].engagement = e /\ receipts'[a].delivery = delivery
          /\ \A b \in AbortRequests : b # a => receipts'[b] = receipts[b]
      BY <1>3, <2>1, <2>2, ReceiptForFacts
    <2>4. receipts[a] = NoReceipt /\ NoReceipt.engagement = None
      BY <2>1 DEF DirectiveInv, MarkersBacked, NoReceipt
    <2> HIDE DEF e
    <2>5. \A x \in Engagements : abortPending[x] = a => x = e /\ ~Terminal(e)
      <3>1. \A x \in Engagements : abortPending[x] = a => x = e
        BY <1>3, <2>4 DEF DirectiveInv, MarkersBacked, e
      <3>2. abortPending[e] = a => Live(e)
        BY <1>3, <2>1 DEF DirectiveInv, NoStaleAnnotation
      <3> QED
        BY <3>1, <3>2 DEF Live, Terminal, LiveStates, TerminalStates
    <2>6. NoStaleAnnotation'
      BY <1>1, <2>1 DEF DirectiveInv, NoStaleAnnotation, Live
    <2>7. MarkersBacked'
      BY <2>1, <2>2, <2>3, <2>5 DEF DirectiveInv, MarkersBacked, Settled
    <2>8. ReceiptIsTruthful'
      <3>1. /\ delivery = "EFFECTOR_ACKNOWLEDGED" => engagements[e].state = "ABORTED"
            /\ delivery = "TERMINAL_WITHOUT_ABORT_ACK" =>
                 engagements[e].state \in TerminalStates \ {"ABORTED"}
        BY <2>2 DEF Terminal
      <3> QED
        BY <1>1, <2>3, <3>1 DEF DirectiveInv, ReceiptIsTruthful
    <2> QED
      BY <1>2, <2>6, <2>7, <2>8 DEF DirectiveInv
  <1> QED
    BY <1>5, <1>6, <1>7 DEF AbortStep

LEMMA ExpiryDirectives ==
  ASSUME TypeInv, DirectiveInv, ExpireStaleCommands
  PROVE  DirectiveInv'
  <1>1. PICK late \in SUBSET Overdue, dropped \in SUBSET Orphaned,
             lateAborts \in SUBSET AwaitedAborts : Expire(late, dropped, lateAborts)
    BY DEF ExpireStaleCommands
  <1>2. /\ UNCHANGED <<engagements, deliveryUnknown, aborts, calls>>
        /\ ackTimeouts' = ackTimeouts \cup late
        /\ abortAckTimeouts' = abortAckTimeouts \cup lateAborts
        /\ \A x \in Engagements : abortPending'[x] = abortPending[x] \/ abortPending'[x] = None
    BY <1>1 DEF Expire, callVars
  <1>3. \A a \in AbortRequests :
          \/ receipts'[a] = receipts[a]
          \/ /\ receipts'[a].delivery = "ACK_TIMEOUT" /\ receipts[a] # NoReceipt
             /\ receipts'[a].engagement = receipts[a].engagement
    BY <1>1, ReceiptForFacts DEF Expire, AwaitedAborts
  <1>4. PublishingIsCurrent'
    BY <1>2 DEF DirectiveInv, PublishingIsCurrent, Known
  <1>5. NoStaleAnnotation'
    BY <1>2 DEF DirectiveInv, NoStaleAnnotation, Live, Overdue, AwaitedAborts
  <1>6. MarkersBacked'
    BY <1>2, <1>3, NoneIsFresh DEF DirectiveInv, MarkersBacked, Settled
  <1>7. ReceiptIsTruthful'
    BY <1>2, <1>3 DEF DirectiveInv, ReceiptIsTruthful
  <1> QED
    BY <1>4, <1>5, <1>6, <1>7 DEF DirectiveInv

LEMMA BlankDirectives ==
  ASSUME engagements = [e \in Engagements |-> NoStatus],
         deliveryUnknown = {}, ackTimeouts = {}, abortAckTimeouts = {},
         abortPending = [e \in Engagements |-> None],
         receipts = [a \in AbortRequests |-> NoReceipt],
         aborts = [a \in AbortRequests |-> None],
         calls = [c \in Calls |-> IdleCall]
  PROVE  DirectiveInv
  <1>1. PublishingIsCurrent /\ NoStaleAnnotation
    BY DEF PublishingIsCurrent, NoStaleAnnotation, Known, NoStatus, IdleCall
  <1>2. MarkersBacked /\ ReceiptIsTruthful
    BY NoneIsFresh DEF MarkersBacked, ReceiptIsTruthful, NoReceipt
  <1> QED
    BY <1>1, <1>2 DEF DirectiveInv

LEMMA DirectiveStep ==
  TypeInv /\ DirectiveInv /\ [Next]_vars => DirectiveInv'
  <1> SUFFICES ASSUME TypeInv, DirectiveInv, [Next]_vars PROVE DirectiveInv'
    OBVIOUS
  <1>1. ASSUME UNCHANGED <<ledgerVars, abortVars, calls>>
        PROVE  DirectiveInv'
    BY <1>1 DEF ledgerVars, abortVars, DirectiveInv, PublishingIsCurrent, Known,
                NoStaleAnnotation, Live, MarkersBacked, ReceiptIsTruthful
  <1>2. ASSUME NEW c \in Calls, RequestStep(c)
        PROVE  DirectiveInv'
    <2>0. {"DENIED", "FAILED", "AUTHORIZED"} \cap {"ABSENT"} = {}
      OBVIOUS
    <2>1. ASSUME NEW e \in Engagements, Refused(c, e)
          PROVE  DirectiveInv'
      BY <2>1, OpenedDirectives DEF Refused, Return
    <2>2. ASSUME NEW e \in Engagements, Release(c, e)
          PROVE  DirectiveInv'
      BY <2>2, ReleaseFacts, OpenedDirectives
    <2> QED
      BY <1>2, <2>1, <2>2, RequestKinds, HandlerDirectives
  <1>3. ASSUME NEW m \in statuses, ReceiveStatus(m)
        PROVE  DirectiveInv'
    <2>1. m.engagement \in Engagements
      BY DEF TypeInv, TypeOK, BusTypeOK, Report
    <2>2. calls' = calls
      BY <1>3 DEF ReceiveStatus, callVars
    <2> QED
      BY <1>1, <1>3, <2>1, <2>2, StatusKinds, AppliedDirectives
  <1>4. ASSUME NEW e \in Engagements, ConsumeAuthorityToken(e)
        PROVE  DirectiveInv'
    <2>1. calls' = calls
      BY <1>4 DEF ConsumeAuthorityToken, callVars
    <2> QED
      BY <1>1, <1>4, <2>1, TokenKinds, AppliedDirectives
  <1>5. CASE RestartC2
    <2>1. /\ engagements' = [e \in Engagements |-> NoStatus]
          /\ deliveryUnknown' = {} /\ ackTimeouts' = {} /\ abortAckTimeouts' = {}
          /\ abortPending' = [e \in Engagements |-> None]
          /\ receipts' = [a \in AbortRequests |-> NoReceipt]
          /\ aborts' = [a \in AbortRequests |-> None]
          /\ calls' = [c \in Calls |-> IdleCall]
      BY <1>5 DEF RestartC2, Forget
    <2>2. PublishingIsCurrent' /\ NoStaleAnnotation'
      BY <2>1 DEF PublishingIsCurrent, NoStaleAnnotation, Known, NoStatus, IdleCall
    <2>3. MarkersBacked' /\ ReceiptIsTruthful'
      BY <2>1, NoneIsFresh DEF MarkersBacked, ReceiptIsTruthful, NoReceipt
    <2> QED
      BY <2>2, <2>3 DEF DirectiveInv
  <1>6. CASE EffectorStep \/ BusStep \/ UNCHANGED vars
    BY <1>1, <1>6 DEF EffectorStep, BusStep, vars, c2Vars, callVars
  <1> QED
    BY <1>2, <1>3, <1>4, <1>5, <1>6, StepKinds, AbortDirectives, ExpiryDirectives

----------------------------------------------------------------------------
(* Requests                                                                *)

\* Once a handler has its engagement, its request leads there and nowhere else.
LEMMA OpenedRequests ==
  ASSUME TypeInv, RequestsClaimed, NEW c \in Calls, NEW e \in Engagements,
         NEW state, NEW sequence, Opened(c, e, state, sequence),
         evidence' \in {evidence, evidence \cup {AuthorizedRecord(c, e)}},
         \/ calls' = [calls EXCEPT ![c] = IdleCall]
         \/ calls' = [calls EXCEPT ![c].pc = "publishing", ![c].engagement = e]
  PROVE  RequestsClaimed'
  <1> DEFINE q == calls[c].request
  <1>1. /\ q \in Requests /\ calls[c].pc = "waiting" /\ c2Restarts' = c2Restarts
        /\ requests' = [requests EXCEPT ![q] = e]
    BY DEF Opened
  <1>2. /\ requests \in [Requests -> Engagements \cup {None, InProgress}]
        /\ calls \in [Calls -> Call] /\ calls[c] \in Call
        /\ \A r \in evidence : r.request \in Requests /\ r.engagement \in Engagements
    BY DEF TypeInv, TypeOK, C2TypeOK, Evidence
  <1>3. /\ requests'[q] = e
        /\ \A r \in Requests : r # q => requests'[r] = requests[r]
    BY <1>1, <1>2
  <1>4. /\ calls'[c].pc # "waiting"
        /\ \A d \in Calls : d # c => calls'[d] = calls[d]
    BY <1>2 DEF IdleCall, Call
  <1>5. requests[q] = InProgress
    BY <1>1 DEF RequestsClaimed
  <1>6. \A d \in Calls : d # c /\ calls[d].pc = "waiting" =>
          calls[d].request # q /\ calls[d].request \in Requests
    BY <1>1 DEF RequestsClaimed, TypeInv, CallsWellFormed
  <1>7. AuthorizedRecord(c, e).request = q /\ AuthorizedRecord(c, e).engagement = e
    BY DEF AuthorizedRecord
  <1> HIDE DEF q
  <1>8. ASSUME c2Restarts = 0, NEW r \in evidence'
        PROVE  requests'[r.request] = r.engagement
    <2>1. CASE r \in evidence
      <3>1. requests[r.request] = r.engagement /\ r.engagement # InProgress
        BY <1>2, <1>8, <2>1, InProgressIsFresh DEF RequestsClaimed, InProgress
      <3> QED
        BY <1>2, <1>3, <1>5, <2>1, <3>1
    <2>2. CASE r \notin evidence
      BY <1>3, <1>7, <1>8, <2>2
    <2> QED
      BY <2>1, <2>2
  <1> QED
    BY <1>1, <1>3, <1>4, <1>6, <1>8 DEF RequestsClaimed

LEMMA RequestsStep ==
  TypeInv /\ RequestsClaimed /\ [Next]_vars => RequestsClaimed'
  <1> SUFFICES ASSUME TypeInv, RequestsClaimed, [Next]_vars PROVE RequestsClaimed'
    OBVIOUS
  <1>0. calls \in [Calls -> Call]
    BY DEF TypeInv, TypeOK, C2TypeOK
  <1>1. ASSUME UNCHANGED <<requests, evidence, c2Restarts>>,
               \A d \in Calls : calls'[d].pc = "waiting" => calls'[d] = calls[d]
        PROVE  RequestsClaimed'
    BY <1>1 DEF RequestsClaimed
  <1>2. ASSUME NEW c \in Calls, NEW r \in Requests, NEW f \in Effectors,
               SubmitRequest(c, r, f)
        PROVE  RequestsClaimed'
    <2>1. /\ calls'[c].pc = "waiting" /\ calls'[c].request = r
          /\ \A d \in Calls : d # c => calls'[d] = calls[d]
          /\ requests[r] = None /\ UNCHANGED <<evidence, c2Restarts>>
          /\ requests' = [requests EXCEPT ![r] = InProgress]
      BY <1>0, <1>2 DEF SubmitRequest, logVars
    <2>2. /\ requests'[r] = InProgress
          /\ \A x \in Requests : x # r => requests'[x] = requests[x]
      BY <2>1 DEF TypeInv, TypeOK, C2TypeOK
    <2>3. \A d \in Calls : calls[d].pc = "waiting" =>
            calls[d].request \in Requests /\ calls[d].request # r
      BY <2>1, InProgressIsFresh
      DEF TypeInv, CallsWellFormed, RequestsClaimed, InProgress
    <2>4. c2Restarts = 0 => \A x \in evidence : x.request \in Requests /\ x.request # r
      BY <2>1, NoneIsFresh DEF TypeInv, TypeOK, C2TypeOK, Evidence, RequestsClaimed
    <2> QED
      BY <2>1, <2>2, <2>3, <2>4 DEF RequestsClaimed
  <1>3. ASSUME NEW c \in Calls, FinishRequest(c) \/ ReturnAccepted(c)
        PROVE  RequestsClaimed'
    <2>1. UNCHANGED <<requests, evidence, c2Restarts>>
      BY <1>3 DEF FinishRequest, ReturnAccepted, logVars
    <2>2. /\ calls'[c].pc # "waiting"
          /\ \A d \in Calls : d # c => calls'[d] = calls[d]
      <3>1. calls[c] \in Call
        BY <1>0
      <3>2. CASE FinishRequest(c)
        BY <1>0, <3>1, <3>2 DEF FinishRequest, Return, IdleCall, Call
      <3>3. CASE ReturnAccepted(c)
        BY <1>0, <3>1, <3>3 DEF ReturnAccepted, Return, IdleCall
      <3> QED
        BY <1>3, <3>2, <3>3
    <2> QED
      BY <1>1, <2>1, <2>2
  <1>4. ASSUME NEW c \in Calls, RequestStep(c)
        PROVE  RequestsClaimed'
    <2>1. ASSUME NEW e \in Engagements, Refused(c, e)
          PROVE  RequestsClaimed'
      BY <2>1, OpenedRequests DEF Refused, Return
    <2>2. ASSUME NEW e \in Engagements, Release(c, e)
          PROVE  RequestsClaimed'
      BY <2>2, ReleaseFacts, OpenedRequests
    <2> QED
      BY <1>2, <1>3, <1>4, <2>1, <2>2, RequestKinds
  <1>5. CASE RestartC2
    <2>1. c2Restarts' # 0
      BY <1>5, C2Bound DEF RestartC2, TypeInv, TypeOK, C2TypeOK
    <2> QED
      BY <1>5, <2>1 DEF RestartC2, Forget, IdleCall, RequestsClaimed
  <1>6. ASSUME UNCHANGED <<callVars, evidence, c2Restarts>>
        PROVE  RequestsClaimed'
    BY <1>1, <1>6 DEF callVars
  <1>7. ASSUME NEW a \in AbortRequests, AbortStep(a)
        PROVE  RequestsClaimed'
    BY <1>6, <1>7 DEF AbortStep, AbortUnsent, SendAbort, FinishAbort, logVars
  <1>8. ASSUME NEW m \in statuses, ReceiveStatus(m)
        PROVE  RequestsClaimed'
    BY <1>6, <1>8 DEF ReceiveStatus, logVars
  <1>9. ASSUME NEW e \in Engagements, ConsumeAuthorityToken(e)
        PROVE  RequestsClaimed'
    BY <1>6, <1>9 DEF ConsumeAuthorityToken
  <1>10. CASE ExpireStaleCommands
    BY <1>6, <1>10 DEF ExpireStaleCommands, Expire, logVars
  <1>11. CASE EffectorStep \/ BusStep \/ UNCHANGED vars
    BY <1>6, <1>11 DEF EffectorStep, BusStep, vars, c2Vars, logVars
  <1> QED
    BY <1>4, <1>5, <1>7, <1>8, <1>9, <1>10, <1>11, StepKinds

----------------------------------------------------------------------------
(* The effector's queue of abort requests and its spent tokens             *)

\* What a step of the node or of the bus leaves alone.
LEMMA EffectorFrame ==
  ASSUME [Next]_vars
  PROVE  EffectorStep \/ UNCHANGED effectorVars
  BY StepKinds DEF BusStep, vars

\* The execution of the order an effector takes, and of no other engagement.
LEMMA OrderTaken ==
  ASSUME TypeInv, NEW o \in orders,
         RefuseUnverified(o) \/ RefuseLocally(o) \/ Accept(o)
  PROVE  /\ o.engagement \in Engagements /\ o.effector \in Effectors /\ o \in evidence
         /\ active[o.effector] = None
         /\ UNCHANGED <<abortRequests, effectorRestarts, controls>>
         /\ \A e \in Engagements : e # o.engagement => execution'[e] = execution[e]
         /\ \/ /\ UNCHANGED <<active, execution, consumed>>
               /\ Emit(o.engagement, o.effector, "DENIED", 3)
            \/ /\ o.engagement \notin consumed[o.effector]
               /\ consumed' = [consumed EXCEPT ![o.effector] = @ \cup {o.engagement}]
               /\ \E state \in {"DENIED", "FAILED", "ACCEPTED"} :
                    /\ Emit(o.engagement, o.effector, state, 3)
                    /\ execution'[o.engagement] = [phase |-> state, sequence |-> 3]
                    /\ active' = IF state = "ACCEPTED"
                                 THEN [active EXCEPT ![o.effector] = o.engagement]
                                 ELSE active
         /\ orders' = OrdersAfterDelivery(o)
  <1> USE DEF TypeInv, TypeOK, EffectorTypeOK, TakeOrder, Consume, orderSequence
  <1>1. /\ o.engagement \in Engagements /\ o.effector \in Effectors /\ o \in evidence
        /\ execution \in [Engagements -> [phase : Phases, sequence : Nat]]
    BY DEF BusTypeOK, Order, EvidenceBeforeOrder
  <1>2. CASE RefuseUnverified(o)
    BY <1>1, <1>2 DEF RefuseUnverified
  <1>3. CASE RefuseLocally(o)
    BY <1>1, <1>3 DEF RefuseLocally
  <1>4. CASE Accept(o)
    BY <1>1, <1>4 DEF Accept
  <1> QED
    BY <1>2, <1>3, <1>4

\* An execution that moves on or stops is the active one.
LEMMA ExecutionMoves ==
  ASSUME TypeInv, NEW f \in Effectors, Advance(f) \/ Stop(f)
  PROVE  LET e == active[f] IN
         /\ e \in Engagements /\ execution[e].phase \in Executing
         /\ \A x \in Engagements : x # e => execution'[x] = execution[x]
         /\ \E r \in evidence : r.engagement = e /\ r.effector = f
         /\ UNCHANGED <<consumed, effectorRestarts, orders, controls>>
         /\ \/ /\ abortRequests[e] = 0 /\ UNCHANGED abortRequests
               /\ execution'[e] = [phase |-> Following[execution[e].phase],
                                   sequence |-> execution[e].sequence + 1]
               /\ Emit(e, f, Following[execution[e].phase], execution[e].sequence + 1)
               /\ active' = IF Following[execution[e].phase] = "COMPLETE"
                            THEN [active EXCEPT ![f] = None] ELSE active
            \/ /\ abortRequests[e] # 0
               /\ abortRequests' = [abortRequests EXCEPT ![e] = 0]
               /\ active' = [active EXCEPT ![f] = None]
               /\ \E sequence \in Nat :
                    /\ sequence > execution[e].sequence
                    /\ execution'[e] = [phase |-> "ABORTED", sequence |-> sequence]
                    /\ Emit(e, f, "ABORTED", sequence)
  <1> DEFINE e == active[f]
  <1>1. /\ e \in Engagements /\ execution[e].phase \in Executing
        /\ \E r \in evidence : r.engagement = e /\ r.effector = f
    BY DEF Advance, Stop, TypeInv, TypeOK, EffectorTypeOK, ActiveEvidenced
  <1>2. /\ execution \in [Engagements -> [phase : Phases, sequence : Nat]]
        /\ execution[e].sequence \in Nat /\ abortRequests[e] \in Nat
    BY <1>1 DEF TypeInv, TypeOK, EffectorTypeOK
  <1> HIDE DEF e
  <1>3. CASE Advance(f)
    BY <1>1, <1>2, <1>3 DEF Advance, e
  <1>4. CASE Stop(f)
    <2> DEFINE sequence == (IF abortRequests[e] > execution[e].sequence
                            THEN abortRequests[e] ELSE execution[e].sequence) + 1
    <2>1. sequence \in Nat /\ sequence > execution[e].sequence
      BY <1>2
    <2>2. /\ execution' = [execution EXCEPT ![e] = [phase |-> "ABORTED",
                                                    sequence |-> sequence]]
          /\ Emit(e, f, "ABORTED", sequence)
          /\ abortRequests[e] # 0
          /\ abortRequests' = [abortRequests EXCEPT ![e] = 0]
          /\ active' = [active EXCEPT ![f] = None]
          /\ UNCHANGED <<consumed, effectorRestarts, orders, controls>>
      BY <1>4 DEF Stop, e
    <2> HIDE DEF sequence
    <2> QED
      BY <1>1, <1>2, <2>1, <2>2 DEF e
  <1> QED
    BY <1>3, <1>4

LEMMA EffectorKinds ==
  ASSUME TypeInv, EffectorStep
  PROVE  /\ UNCHANGED c2Vars
         /\ \/ \E o \in orders : RefuseUnverified(o) \/ RefuseLocally(o) \/ Accept(o)
            \/ \E f \in Effectors : Advance(f) \/ Stop(f)
            \/ \E f \in Effectors : RestartEffector(f)
            \/ \E d \in controls : ReceiveControl(d)
  BY DEF EffectorStep, EffectorNext, ExecuteStep

\* A restart of the simulator breaks off one execution and nothing else.
LEMMA RestartFacts ==
  ASSUME TypeInv, NEW f \in Effectors, RestartEffector(f)
  PROVE  /\ UNCHANGED busVars /\ effectorRestarts' # 0
         /\ active' = [active EXCEPT ![f] = None]
         /\ \A e \in Engagements :
              IF e = active[f]
              THEN /\ execution'[e].phase = "interrupted" /\ abortRequests'[e] = 0
                   /\ execution'[e].sequence = execution[e].sequence
              ELSE execution'[e] = execution[e] /\ abortRequests'[e] = abortRequests[e]
  <1>1. /\ execution \in [Engagements -> [phase : Phases, sequence : Nat]]
        /\ effectorRestarts \in Nat
    BY EffectorParameter DEF TypeInv, TypeOK, EffectorTypeOK
  <1>2. \A e \in Engagements :
          /\ [execution[e] EXCEPT !.phase = "interrupted"].phase = "interrupted"
          /\ [execution[e] EXCEPT !.phase = "interrupted"].sequence = execution[e].sequence
    BY <1>1
  <1> QED
    BY <1>1, <1>2 DEF RestartEffector

\* A directive is queued for the engagement being executed or dropped.
LEMMA ControlFacts ==
  ASSUME TypeInv, NEW d \in controls, ReceiveControl(d)
  PROVE  /\ UNCHANGED <<active, execution, consumed, effectorRestarts, orders, statuses>>
         /\ \/ UNCHANGED abortRequests
            \/ /\ \E f \in Effectors : active[f] = d.engagement
               /\ abortRequests' = [abortRequests EXCEPT ![d.engagement] = d.sequence]
  BY DEF ReceiveControl, TypeInv, TypeOK, BusTypeOK, Control

LEMMA QueueStep ==
  TypeInv /\ AbortsQueuedInTime /\ [Next]_vars => AbortsQueuedInTime'
  <1> SUFFICES ASSUME TypeInv, AbortsQueuedInTime, [Next]_vars
               PROVE  AbortsQueuedInTime'
    OBVIOUS
  <1>0. /\ active \in [Effectors -> Engagements \cup {None}]
        /\ abortRequests \in [Engagements -> Nat] /\ None \notin Engagements
        /\ \A f, g \in Effectors : active[f] # None /\ active[f] = active[g] => f = g
    BY NoneIsFresh DEF TypeInv, TypeOK, EffectorTypeOK, ActiveEvidenced, EvidenceUnique
  <1>1. CASE UNCHANGED effectorVars
    BY <1>1 DEF effectorVars, AbortsQueuedInTime
  <1>2. ASSUME NEW o \in orders, RefuseUnverified(o) \/ RefuseLocally(o) \/ Accept(o)
        PROVE  AbortsQueuedInTime'
    <2>1. /\ o.effector \in Effectors /\ active[o.effector] = None
          /\ UNCHANGED abortRequests
          /\ \/ active' = active
             \/ active' = [active EXCEPT ![o.effector] = o.engagement]
      BY <1>2, OrderTaken
    <2> QED
      BY <1>0, <2>1 DEF AbortsQueuedInTime
  <1>3. ASSUME NEW f \in Effectors, Advance(f) \/ Stop(f)
        PROVE  AbortsQueuedInTime'
    <2>1. /\ active[f] \in Engagements
          /\ \/ abortRequests[active[f]] = 0 /\ UNCHANGED abortRequests
             \/ abortRequests' = [abortRequests EXCEPT ![active[f]] = 0]
          /\ active' = active \/ active' = [active EXCEPT ![f] = None]
      BY <1>3, ExecutionMoves
    <2>2. abortRequests'[active[f]] = 0
      BY <1>0, <2>1
    <2>3. \A e \in Engagements : e # active[f] => abortRequests'[e] = abortRequests[e]
      BY <1>0, <2>1
    <2> QED
      BY <1>0, <2>1, <2>2, <2>3 DEF AbortsQueuedInTime
  <1>4. ASSUME NEW f \in Effectors, RestartEffector(f)
        PROVE  AbortsQueuedInTime'
    <2>1. /\ active' = [active EXCEPT ![f] = None]
          /\ \A e \in Engagements : IF e = active[f] THEN abortRequests'[e] = 0
                                    ELSE abortRequests'[e] = abortRequests[e]
      BY <1>4, RestartFacts
    <2> QED
      BY <1>0, <2>1 DEF AbortsQueuedInTime
  <1>5. ASSUME NEW d \in controls, ReceiveControl(d)
        PROVE  AbortsQueuedInTime'
    BY <1>0, <1>5, ControlFacts DEF AbortsQueuedInTime
  <1> QED
    BY <1>1, <1>2, <1>3, <1>4, <1>5, EffectorFrame, EffectorKinds

\* New evidence is of an engagement nothing was ever executed for.
LEMMA EvidenceFrame ==
  ASSUME TypeInv, [Next]_vars
  PROVE  \/ evidence' = evidence
         \/ /\ UNCHANGED effectorVars
            /\ \E e \in Engagements : \E r :
                 /\ e \notin used /\ r.engagement = e /\ evidence' = evidence \cup {r}
                 /\ execution[e].phase = "none"
  <1>1. ASSUME NEW e \in Engagements, e \notin used
        PROVE  execution[e].phase = "none"
    BY <1>1 DEF TypeInv, EvidenceBeforeOrder, EvidenceUnique
  <1>2. ASSUME NEW c \in Calls, RequestStep(c)
        PROVE  \/ evidence' = evidence
               \/ \E e \in Engagements : \E r :
                    /\ e \notin used /\ r.engagement = e /\ evidence' = evidence \cup {r}
    <2>1. ASSUME NEW e \in Engagements, Refused(c, e) \/ Release(c, e)
          PROVE  /\ e \notin used
                 /\ evidence' \in {evidence, evidence \cup {AuthorizedRecord(c, e)}}
                 /\ AuthorizedRecord(c, e).engagement = e
      BY <2>1, ReleaseFacts DEF Refused, Opened, AuthorizedRecord
    <2>2. ASSUME \/ \E r \in Requests, f \in Effectors : SubmitRequest(c, r, f)
                 \/ FinishRequest(c) \/ ReturnAccepted(c)
          PROVE  evidence' = evidence
      BY <2>2 DEF SubmitRequest, FinishRequest, ReturnAccepted, logVars
    <2> QED
      BY <1>2, <2>1, <2>2, RequestKinds
  <1>3. ASSUME NEW a \in AbortRequests, AbortStep(a)
        PROVE  evidence' = evidence
    BY <1>3 DEF AbortStep, AbortUnsent, SendAbort, FinishAbort, logVars
  <1>4. ASSUME NEW m \in statuses, ReceiveStatus(m)
        PROVE  evidence' = evidence
    BY <1>4 DEF ReceiveStatus, logVars
  <1>5. ASSUME NEW e \in Engagements, ConsumeAuthorityToken(e)
        PROVE  evidence' = evidence
    BY <1>5 DEF ConsumeAuthorityToken
  <1>6. ASSUME ExpireStaleCommands \/ RestartC2
        PROVE  evidence' = evidence
    BY <1>6 DEF ExpireStaleCommands, Expire, RestartC2, logVars
  <1>7. CASE EffectorStep \/ BusStep \/ UNCHANGED vars
    BY <1>7 DEF EffectorStep, BusStep, vars, c2Vars, logVars
  <1> QED
    BY <1>1, <1>2, <1>3, <1>4, <1>5, <1>6, <1>7, StepKinds

LEMMA TokensStep ==
  TypeInv /\ TokensSpent /\ [Next]_vars => TokensSpent'
  <1> SUFFICES ASSUME TypeInv, TokensSpent, [Next]_vars PROVE TokensSpent'
    OBVIOUS
  <1>0. /\ consumed \in [Effectors -> SUBSET Engagements]
        /\ \A r \in evidence : r.engagement \in Engagements /\ r.effector \in Effectors
        /\ \A r, s \in evidence : r.engagement = s.engagement => r = s
    BY DEF TypeInv, TypeOK, C2TypeOK, Evidence, EffectorTypeOK, EvidenceUnique
  <1>1. CASE UNCHANGED effectorVars
    <2>1. CASE evidence' = evidence
      BY <1>1, <2>1 DEF effectorVars, TokensSpent
    <2>2. ASSUME NEW e \in Engagements, NEW r, r.engagement = e,
                 evidence' = evidence \cup {r}, execution[e].phase = "none"
          PROVE  TokensSpent'
      BY <1>1, <2>2 DEF effectorVars, TokensSpent
    <2> QED
      BY <2>1, <2>2, EvidenceFrame
  <1>2. ASSUME EffectorStep
        PROVE  evidence' = evidence
    BY <1>2 DEF EffectorStep, c2Vars, logVars
  <1>3. ASSUME NEW o \in orders, RefuseUnverified(o) \/ RefuseLocally(o) \/ Accept(o),
               evidence' = evidence
        PROVE  TokensSpent'
    <2>1. /\ o \in evidence /\ UNCHANGED effectorRestarts
          /\ \A e \in Engagements : e # o.engagement => execution'[e] = execution[e]
          /\ \/ UNCHANGED <<execution, consumed>>
             \/ consumed' = [consumed EXCEPT ![o.effector] = @ \cup {o.engagement}]
      BY <1>3, OrderTaken
    <2> QED
      BY <1>0, <1>3, <2>1 DEF TokensSpent
  <1>4. ASSUME NEW f \in Effectors, Advance(f) \/ Stop(f), evidence' = evidence
        PROVE  TokensSpent'
    <2>1. /\ active[f] \in Engagements /\ execution[active[f]].phase \in Executing
          /\ \A x \in Engagements : x # active[f] => execution'[x] = execution[x]
          /\ UNCHANGED <<consumed, effectorRestarts>>
      BY <1>4, ExecutionMoves
    <2> QED
      BY <1>0, <1>4, <2>1 DEF TokensSpent, Executing
  <1>5. ASSUME NEW f \in Effectors, RestartEffector(f)
        PROVE  TokensSpent'
    BY <1>5, RestartFacts DEF TokensSpent
  <1>6. ASSUME NEW d \in controls, ReceiveControl(d), evidence' = evidence
        PROVE  TokensSpent'
    BY <1>6, ControlFacts DEF TokensSpent
  <1> QED
    BY <1>1, <1>2, <1>3, <1>4, <1>5, <1>6, EffectorFrame, EffectorKinds

----------------------------------------------------------------------------
(* Outcomes                                                                *)

Stand ==
  /\ \A e \in Engagements :
       execution[e].phase # "none" \/ Terminal(e) => NotOrdered(e)
  /\ \A m \in statuses :
       /\ Happened(m.engagement, m.state)
       /\ m.state \in TerminalStates => NotOrdered(m.engagement)
  /\ TerminalIsTruthful

\* Only an outcome can be untrue of an effector, and what is being executed has
\* none yet, neither in the ledger nor on its way.
LEMMA OnlyOutcomesTell ==
  ASSUME NEW e, NEW state, state \notin TerminalStates PROVE Happened(e, state)
  BY DEF Happened, TerminalStates

LEMMA UndecidedWhileExecuting ==
  ASSUME Stand, NEW e \in Engagements, execution[e].phase \in Executing
  PROVE  /\ ~Terminal(e) /\ NotOrdered(e)
         /\ \A m \in statuses : m.engagement = e => m.state \notin TerminalStates
  BY DEF Happened, TerminalStates, Stand, Executing, TerminalIsTruthful, Terminal

\* Nothing was ever ordered, executed or reported for an ID not drawn yet.
LEMMA FreshFacts ==
  ASSUME FireInv, NEW e \in Engagements, e \notin used
  PROVE  /\ execution[e].phase = "none" /\ NotOrdered(e)
         /\ \A m \in statuses : m.engagement # e
         /\ \A f \in Effectors : active[f] # e
         /\ \A f \in Effectors : reservations[f] # e
         /\ ~Known(e)
  <1>1. execution[e].phase = "none" /\ NotOrdered(e)
    BY DEF FireInv, EvidenceBeforeOrder, EvidenceUnique, NotOrdered
  <1>2. \A m \in statuses : m.engagement # e
    BY DEF FireInv, ReportsAreLastWords
  <1>3. \A f \in Effectors : active[f] # e
    <2> SUFFICES ASSUME NEW f \in Effectors, active[f] = e PROVE FALSE
      OBVIOUS
    <2>1. \E r \in evidence : r.engagement = e
      BY NoneIsFresh DEF FireInv, ActiveEvidenced
    <2> QED
      BY <2>1 DEF FireInv, EvidenceUnique
  <1>4. ~Known(e)
    BY DEF FireInv, LedgerKnown
  <1>5. \A f \in Effectors : reservations[f] # e
    BY <1>4 DEF FireInv, ReservationExact, Known, Live, LiveStates
  <1> QED
    BY <1>1, <1>2, <1>3, <1>4, <1>5

LEMMA OpenedOutcomes ==
  ASSUME FireInv, Stand, NEW c \in Calls, NEW e \in Engagements,
         UNCHANGED effectorVars, Refused(c, e) \/ Release(c, e)
  PROVE  Stand'
  <1>0. TypeInv
    BY DEF FireInv, TypeInv
  <1>1. PICK state \in {"DENIED", "FAILED", "AUTHORIZED"}, sequence \in {2, 3} :
          /\ Opened(c, e, state, sequence)
          /\ \/ state \in TerminalStates /\ orders' = orders
             \/ state = "AUTHORIZED" /\ orders' = orders \cup {AuthorizedRecord(c, e)}
    BY <1>0, ReleaseFacts DEF Refused, TerminalStates
  <1>2. /\ engagements'[e].state = state
        /\ \A x \in Engagements : x # e => engagements'[x] = engagements[x]
        /\ UNCHANGED <<statuses, execution>>
    BY <1>0, <1>1 DEF Opened, effectorVars, TypeInv, TypeOK, C2TypeOK
  <1>3. /\ execution[e].phase = "none" /\ NotOrdered(e)
        /\ \A m \in statuses : m.engagement # e
    BY <1>1, FreshFacts DEF Opened
  <1>4. AuthorizedRecord(c, e).engagement = e
    BY DEF AuthorizedRecord
  <1>5. \A x : x # e /\ NotOrdered(x) => NotOrdered(x)'
    BY <1>1, <1>4 DEF NotOrdered
  <1>6. "AUTHORIZED" \notin TerminalStates
    BY DEF TerminalStates
  <1>7. (state \in TerminalStates) => NotOrdered(e)'
    BY <1>1, <1>3, <1>6 DEF NotOrdered
  <1>8. \A x \in Engagements : execution'[x].phase # "none" \/ Terminal(x)' => NotOrdered(x)'
    BY <1>2, <1>3, <1>5, <1>7 DEF Stand, Terminal
  <1>9. TerminalIsTruthful'
    BY <1>2, <1>3 DEF Stand, TerminalIsTruthful, Happened
  <1>10. \A m \in statuses' :
           /\ Happened(m.engagement, m.state)'
           /\ m.state \in TerminalStates => NotOrdered(m.engagement)'
    BY <1>2, <1>3, <1>5 DEF Stand, Happened
  <1> QED
    BY <1>8, <1>9, <1>10 DEF Stand

LEMMA AppliedOutcomes ==
  ASSUME TypeInv, Stand, NEW e \in Engagements, NEW s, Applied(e, s),
         UNCHANGED <<execution, orders>>, statuses' \subseteq statuses,
         \/ s.state \notin TerminalStates
         \/ \E m \in statuses : m.engagement = e /\ m.state = s.state
  PROVE  Stand'
  <1>1. \A x \in Engagements : engagements'[x] = IF x = e THEN s ELSE engagements[x]
    BY AppliedFacts
  <1>2. Happened(e, s.state) /\ (s.state \in TerminalStates => NotOrdered(e))
    BY OnlyOutcomesTell DEF Stand
  <1> QED
    BY <1>1, <1>2 DEF Stand, Terminal, NotOrdered, TerminalIsTruthful, Happened

LEMMA TakenOutcomes ==
  ASSUME TypeInv, Stand, ~Redelivery, UNCHANGED c2Vars, NEW o \in orders,
         RefuseUnverified(o) \/ RefuseLocally(o) \/ Accept(o)
  PROVE  Stand'
  <1> DEFINE e == o.engagement
  <1>1. /\ e \in Engagements /\ o \in evidence
        /\ \A x \in Engagements : x # e => execution'[x] = execution[x]
        /\ orders' = orders \ {o} /\ engagements' = engagements
    BY OrderTaken DEF OrdersAfterDelivery, c2Vars, ledgerVars
  <1>2. PICK state \in {"DENIED", "FAILED", "ACCEPTED"} :
          /\ Emit(e, o.effector, state, 3)
          /\ \/ execution' = execution /\ state = "DENIED"
             \/ execution'[e] = [phase |-> state, sequence |-> 3]
    BY OrderTaken
  <1>3. NotOrdered(e)' /\ \A x : NotOrdered(x) => NotOrdered(x)'
    BY <1>1 DEF NotOrdered, TypeInv, EvidenceBeforeOrder, EvidenceUnique
  <1>4. /\ ~NotOrdered(e) /\ ~Terminal(e) /\ execution[e].phase = "none"
        /\ \A m \in statuses : m.engagement = e => m.state \notin TerminalStates
    BY <1>1 DEF Stand, NotOrdered
  <1>5. Happened(e, state)'
    BY <1>2, <1>4 DEF Happened
  <1>6. /\ statuses' = statuses \cup {[engagement |-> e, effector |-> o.effector,
                                        state |-> state, sequence |-> 3]}
        /\ \A m \in statuses' : m \in statuses \/ (m.engagement = e /\ m.state = state)
    BY <1>2 DEF Emit
  <1> HIDE DEF e
  <1>7. \A m \in statuses : m.engagement \in Engagements
    BY DEF TypeInv, TypeOK, BusTypeOK, Report
  <1>8. \A m \in statuses' :
          /\ Happened(m.engagement, m.state)'
          /\ m.state \in TerminalStates => NotOrdered(m.engagement)'
    <2> SUFFICES ASSUME NEW m \in statuses'
                 PROVE  /\ Happened(m.engagement, m.state)'
                        /\ m.state \in TerminalStates => NotOrdered(m.engagement)'
      OBVIOUS
    <2>1. CASE m \in statuses /\ m.engagement = e
      BY <1>3, <1>4, <2>1 DEF Happened, TerminalStates
    <2>2. CASE m \in statuses /\ m.engagement # e
      BY <1>1, <1>3, <1>7, <2>2 DEF Stand, Happened
    <2>3. CASE m \notin statuses
      BY <1>3, <1>5, <1>6, <2>3 DEF Happened
    <2> QED
      BY <2>1, <2>2, <2>3
  <1>9. TerminalIsTruthful'
    BY <1>1, <1>4 DEF Stand, TerminalIsTruthful, Happened, Terminal, TerminalStates
  <1>10. \A x \in Engagements : execution'[x].phase # "none" \/ Terminal(x)' => NotOrdered(x)'
    BY <1>1, <1>3 DEF Stand, Terminal
  <1> QED
    BY <1>8, <1>9, <1>10 DEF Stand

\* An execution that goes on, stops or is broken off had no outcome before.
LEMMA ExecutionOutcomes ==
  ASSUME TypeInv, Stand, UNCHANGED <<engagements, orders>>,
         NEW e \in Engagements, execution[e].phase \in Executing,
         \A x \in Engagements : x # e => execution'[x] = execution[x],
         \/ statuses' = statuses
         \/ \E n : /\ statuses' = statuses \cup {n}
                   /\ n.engagement = e /\ n.state = execution'[e].phase
  PROVE  Stand'
  <1>1. /\ ~Terminal(e) /\ NotOrdered(e)
        /\ \A m \in statuses : m.engagement = e => m.state \notin TerminalStates
    BY UndecidedWhileExecuting
  <1>2. \A m \in statuses : m.engagement \in Engagements
    BY DEF TypeInv, TypeOK, BusTypeOK, Report
  <1>3. \A x : NotOrdered(x)' <=> NotOrdered(x)
    BY DEF NotOrdered
  <1>4. \A m \in statuses : Happened(m.engagement, m.state)'
    <2>1. ASSUME NEW m \in statuses, m.engagement = e
          PROVE  Happened(m.engagement, m.state)'
      BY <1>1, <2>1 DEF Happened, TerminalStates
    <2>2. ASSUME NEW m \in statuses, m.engagement # e
          PROVE  Happened(m.engagement, m.state)'
      BY <1>2, <2>2 DEF Stand, Happened
    <2> QED
      BY <2>1, <2>2
  <1>5. \A m \in statuses' :
          /\ Happened(m.engagement, m.state)'
          /\ m.state \in TerminalStates => NotOrdered(m.engagement)'
    <2>1. ASSUME NEW n, n.engagement = e, n.state = execution'[e].phase
          PROVE  Happened(n.engagement, n.state)' /\ NotOrdered(n.engagement)'
      BY <1>1, <1>3, <2>1 DEF Happened
    <2> QED
      BY <1>3, <1>4, <2>1 DEF Stand
  <1>6. TerminalIsTruthful'
    BY <1>1 DEF Stand, TerminalIsTruthful, Happened, Terminal, TerminalStates
  <1>7. \A x \in Engagements : execution'[x].phase # "none" \/ Terminal(x)' => NotOrdered(x)'
    BY <1>1, <1>3 DEF Stand, Terminal
  <1> QED
    BY <1>5, <1>6, <1>7 DEF Stand

LEMMA StandStep ==
  ~Redelivery /\ FireInv /\ Stand /\ [Next]_vars => Stand'
  <1> SUFFICES ASSUME ~Redelivery, FireInv, Stand, [Next]_vars PROVE Stand'
    OBVIOUS
  <1>0. TypeInv
    BY DEF FireInv, TypeInv
  <1>1. ASSUME UNCHANGED <<engagements, execution>>,
               orders' \subseteq orders, statuses' \subseteq statuses
        PROVE  Stand'
    BY <1>1 DEF Stand, Terminal, NotOrdered, TerminalIsTruthful, Happened
  <1>2. ASSUME NEW c \in Calls, RequestStep(c), UNCHANGED effectorVars
        PROVE  Stand'
    <2>1. ASSUME \/ \E r \in Requests, f \in Effectors : SubmitRequest(c, r, f)
                 \/ FinishRequest(c) \/ ReturnAccepted(c)
          PROVE  Stand'
      BY <1>1, <1>2, <2>1
      DEF SubmitRequest, FinishRequest, ReturnAccepted, ledgerVars, busVars, effectorVars
    <2> QED
      BY <1>0, <1>2, <2>1, RequestKinds, OpenedOutcomes
  <1>3. ASSUME NEW a \in AbortRequests, AbortStep(a), UNCHANGED effectorVars
        PROVE  Stand'
    BY <1>1, <1>3 DEF AbortStep, AbortUnsent, SendAbort, FinishAbort, ledgerVars,
                      busVars, effectorVars
  <1>4. ASSUME NEW m \in statuses, ReceiveStatus(m), UNCHANGED effectorVars
        PROVE  Stand'
    <2>1. /\ m.engagement \in Engagements
          /\ UNCHANGED <<execution, orders>> /\ statuses' \subseteq statuses
      BY <1>0, <1>4 DEF ReceiveStatus, effectorVars, TypeInv, TypeOK, BusTypeOK, Report
    <2>2. CASE UNCHANGED <<ledgerVars, abortVars>>
      BY <1>1, <2>1, <2>2 DEF ledgerVars
    <2> QED
      BY <1>0, <1>4, <2>1, <2>2, StatusKinds, AppliedOutcomes
  <1>5. ASSUME NEW e \in Engagements, ConsumeAuthorityToken(e), UNCHANGED effectorVars
        PROVE  Stand'
    <2>1. UNCHANGED <<execution, orders>> /\ statuses' \subseteq statuses
      BY <1>5 DEF ConsumeAuthorityToken, effectorVars, busVars
    <2>2. CASE UNCHANGED <<ledgerVars, abortVars>>
      BY <1>1, <2>1, <2>2 DEF ledgerVars
    <2>3. "ACCEPTED" \notin TerminalStates
      BY DEF TerminalStates
    <2> QED
      BY <1>0, <1>5, <2>1, <2>2, <2>3, TokenKinds, AppliedOutcomes
  <1>6. CASE ExpireStaleCommands /\ UNCHANGED effectorVars
    BY <1>1, <1>6 DEF ExpireStaleCommands, Expire, busVars, effectorVars
  <1>7. CASE RestartC2 /\ UNCHANGED effectorVars
    <2>1. /\ UNCHANGED <<execution, orders, statuses>>
          /\ \A e \in Engagements : engagements'[e].state = "ABSENT"
      BY <1>7 DEF RestartC2, Forget, NoStatus, busVars, effectorVars
    <2> QED
      BY <2>1 DEF Stand, Terminal, NotOrdered, TerminalIsTruthful, Happened, TerminalStates
  <1>8. CASE EffectorStep
    <2>0. UNCHANGED c2Vars /\ engagements' = engagements
      BY <1>8 DEF EffectorStep, c2Vars, ledgerVars
    <2>1. ASSUME NEW f \in Effectors, Advance(f) \/ Stop(f)
          PROVE  Stand'
      <3> DEFINE e == active[f]
      <3>1. /\ e \in Engagements /\ execution[e].phase \in Executing
            /\ \A x \in Engagements : x # e => execution'[x] = execution[x]
            /\ orders' = orders
        BY <1>0, <2>1, ExecutionMoves
      <3>2. PICK state, sequence :
              /\ execution'[e] = [phase |-> state, sequence |-> sequence]
              /\ Emit(e, f, state, sequence)
        BY <1>0, <2>1, ExecutionMoves
      <3> DEFINE n == [engagement |-> e, effector |-> f, state |-> state,
                       sequence |-> sequence]
      <3>3. /\ statuses' = statuses \cup {n}
            /\ n.engagement = e /\ n.state = execution'[e].phase
        BY <3>2 DEF Emit
      <3> HIDE DEF n, e
      <3> QED
        BY <1>0, <2>0, <3>1, <3>3, ExecutionOutcomes DEF e
    <2>2. ASSUME NEW f \in Effectors, RestartEffector(f)
          PROVE  Stand'
      <3> DEFINE e == active[f]
      <3>1. /\ \A x \in Engagements : x # e => execution'[x] = execution[x]
            /\ UNCHANGED <<orders, statuses>>
        BY <1>0, <2>2, RestartFacts DEF busVars
      <3>2. CASE e \in Engagements
        <4>1. execution[e].phase \in Executing
          BY <1>0, <3>2, NoneIsFresh DEF TypeInv, ActiveEvidenced
        <4> QED
          BY <1>0, <2>0, <3>1, <3>2, <4>1, ExecutionOutcomes
      <3>3. CASE e \notin Engagements
        BY <2>0, <3>1, <3>3 DEF Stand, Terminal, NotOrdered, TerminalIsTruthful, Happened,
                                FireInv, TypeOK, BusTypeOK, Report
      <3> QED
        BY <3>2, <3>3
    <2>3. ASSUME NEW d \in controls, ReceiveControl(d)
          PROVE  Stand'
      BY <1>0, <1>1, <2>0, <2>3, ControlFacts
    <2> QED
      BY <1>0, <1>8, <2>0, <2>1, <2>2, <2>3, EffectorKinds, TakenOutcomes
  <1>9. CASE BusStep \/ UNCHANGED vars
    BY <1>1, <1>9 DEF BusStep, Lose, vars, c2Vars, ledgerVars, busVars, effectorVars
  <1> QED
    BY <1>2, <1>3, <1>4, <1>5, <1>6, <1>7, <1>8, <1>9, StepKinds

----------------------------------------------------------------------------
(* The second inductive invariant and the invariants it carries            *)

LEMMA OutcomeInit == Init => OutcomeInv
  <1> SUFFICES ASSUME Init PROVE OutcomeInv
    OBVIOUS
  <1>1. DirectiveInv
    BY BlankDirectives DEF Init, C2Init
  <1>2. RequestsClaimed /\ AbortsQueuedInTime /\ TokensSpent
    BY DEF Init, C2Init, EffectorInit, RequestsClaimed, AbortsQueuedInTime,
           TokensSpent, IdleCall
  <1>3. Stand
    BY DEF Init, C2Init, BusInit, EffectorInit, Stand, NotOrdered, TerminalIsTruthful,
           Happened, Terminal, NoStatus, TerminalStates
  <1> QED
    BY <1>1, <1>2, <1>3 DEF OutcomeInv, DirectiveInv, OutcomesStand, Stand

LEMMA OutcomeStep ==
  FireInv /\ OutcomeInv /\ [Next]_vars => OutcomeInv'
  <1> SUFFICES ASSUME FireInv, OutcomeInv, [Next]_vars PROVE OutcomeInv'
    OBVIOUS
  <1>0. TypeInv
    BY DEF FireInv, TypeInv
  <1>1. DirectiveInv'
    BY <1>0, DirectiveStep DEF OutcomeInv, DirectiveInv
  <1>2. RequestsClaimed' /\ AbortsQueuedInTime' /\ TokensSpent'
    BY <1>0, RequestsStep, QueueStep, TokensStep DEF OutcomeInv
  <1>3. ~Redelivery => Stand'
    BY StandStep DEF OutcomeInv, OutcomesStand, Stand
  <1> QED
    BY <1>1, <1>2, <1>3 DEF OutcomeInv, DirectiveInv, OutcomesStand, Stand

\* Requests, annotations, receipts, outcomes and tokens stay consistent with
\* each other, whatever is lost, reordered, repeated or restarted.
THEOREM OutcomeInvariant == Spec => []OutcomeInv
  BY FireInvariant, OutcomeInit, OutcomeStep, PTL DEF Spec

\* Nothing terminal is pending, timed out or of unknown delivery.
THEOREM NothingStale == Spec => []NoStaleAnnotation
  BY OutcomeInvariant, PTL DEF OutcomeInv

\* An abort receipt that claims an outcome agrees with the ledger.
THEOREM ReceiptsTruthful == Spec => []ReceiptIsTruthful
  BY OutcomeInvariant, PTL DEF OutcomeInv

\* However often a request is submitted, it authorizes one engagement.
THEOREM AuthorizedOnce == Spec => []OneEngagementPerRequest
  <1>1. FireInv /\ OutcomeInv => OneEngagementPerRequest
    BY DEF FireInv, EvidenceUnique, OutcomeInv, RequestsClaimed,
           OneEngagementPerRequest
  <1> QED
    BY <1>1, FireInvariant, OutcomeInvariant, PTL

\* If no order can come twice, the ledger's outcomes are the effectors'.
THEOREM OutcomesTruthful ==
  ASSUME ~Redelivery PROVE Spec => []TerminalIsTruthful
  <1>1. OutcomeInv => TerminalIsTruthful
    BY DEF OutcomeInv, OutcomesStand
  <1> QED
    BY <1>1, OutcomeInvariant, PTL

----------------------------------------------------------------------------
(* What a step may never do                                                *)

\* A settled receipt is out of reach of every callback and timeout: no marker
\* leads to it, and its directive is not being published.
LEMMA SettledStays ==
  ASSUME TypeInv, OutcomeInv, [Next]_vars, c2Restarts' = c2Restarts,
         NEW a \in AbortRequests, receipts[a].delivery \in Settled
  PROVE  receipts'[a] = receipts[a]
  <1>0. /\ receipts \in [AbortRequests -> Receipt] /\ receipts[a] # NoReceipt
        /\ c2Restarts \in Nat
    BY C2Bound DEF TypeInv, TypeOK, C2TypeOK, NoReceipt, Settled
  <1>1. /\ aborts[a] = None /\ None \notin Engagements
        /\ \A e \in Engagements : abortPending[e] # a
    BY <1>0, NoneIsFresh DEF OutcomeInv, MarkersBacked
  <1>2. ASSUME NEW c \in Calls, RequestStep(c)
        PROVE  receipts' = receipts
    BY <1>2 DEF RequestStep, SubmitRequest, Deny, InhibitForAudit, FailUnsent, Release,
                Open, FinishRequest, ReturnAccepted, abortVars
  <1>3. ASSUME NEW b \in AbortRequests, AbortStep(b)
        PROVE  receipts'[a] = receipts[a]
    BY <1>0, <1>1, <1>3 DEF AbortStep, AbortUnsent, SendAbort, FinishAbort, MayAbort
  <1>4. ASSUME NEW e \in Engagements, NEW s, Transition(e, s)
        PROVE  receipts'[a] = receipts[a]
    BY <1>1, <1>4 DEF Transition, ReceiptsAfter
  <1>5. ASSUME NEW m \in statuses, ReceiveStatus(m)
        PROVE  receipts'[a] = receipts[a]
    <2>1. m.engagement \in Engagements
      BY DEF TypeInv, TypeOK, BusTypeOK, Report
    <2> QED
      BY <1>4, <1>5, <2>1 DEF ReceiveStatus, abortVars
  <1>6. ASSUME NEW e \in Engagements, ConsumeAuthorityToken(e)
        PROVE  receipts'[a] = receipts[a]
    BY <1>4, <1>6 DEF ConsumeAuthorityToken, abortVars
  <1>7. ASSUME ExpireStaleCommands
        PROVE  receipts'[a] = receipts[a]
    BY <1>1, <1>7 DEF ExpireStaleCommands, Expire, AwaitedAborts
  <1>8. ASSUME EffectorStep \/ BusStep \/ UNCHANGED vars
        PROVE  receipts' = receipts
    BY <1>8 DEF EffectorStep, BusStep, vars, c2Vars, abortVars
  <1>9. ~RestartC2
    BY <1>0 DEF RestartC2
  <1> QED
    BY <1>2, <1>3, <1>5, <1>6, <1>7, <1>8, <1>9, StepKinds

\* Until the node restarts, a settled abort receipt is never rewritten.
THEOREM SettledForGood == Spec => ReceiptsSettle
  <1>1. FireInv /\ OutcomeInv /\ [Next]_vars =>
          [c2Restarts' = c2Restarts =>
             \A a \in AbortRequests :
               receipts[a].delivery \in Settled => receipts'[a] = receipts[a]]_vars
    BY SettledStays DEF FireInv, TypeInv
  <1> QED
    BY <1>1, FireInvariant, OutcomeInvariant, PTL DEF Spec, ReceiptsSettle

\* The phase an execution goes to: the following one, or ABORTED.
LEMMA MovesTo ==
  ASSUME TypeInv, NEW f \in Effectors, Advance(f) \/ Stop(f)
  PROVE  LET e == active[f] IN
         /\ e \in Engagements /\ execution[e].phase \in Executing
         /\ \A x \in Engagements : x # e => execution'[x] = execution[x]
         /\ \/ execution'[e].phase = "ABORTED"
            \/ /\ abortRequests[e] = 0
               /\ execution'[e].phase = Following[execution[e].phase]
  <1> DEFINE e == active[f]
  <1>1. /\ e \in Engagements /\ execution[e].phase \in Executing
        /\ \A x \in Engagements : x # e => execution'[x] = execution[x]
    BY ExecutionMoves
  <1>2. CASE /\ abortRequests[e] = 0
             /\ execution'[e] = [phase |-> Following[execution[e].phase],
                                 sequence |-> execution[e].sequence + 1]
    BY <1>1, <1>2
  <1>3. CASE \E sequence \in Nat :
               execution'[e] = [phase |-> "ABORTED", sequence |-> sequence]
    <2>1. execution'[e].phase = "ABORTED"
      BY <1>3
    <2> QED
      BY <1>1, <2>1
  <1> QED
    BY <1>2, <1>3, ExecutionMoves

LEMMA AbortGoesFirst ==
  ASSUME TypeInv, OutcomeInv, [Next]_vars, NEW e \in Engagements,
         abortRequests[e] # 0, execution'[e] # execution[e]
  PROVE  execution'[e].phase \in {"ABORTED", "interrupted"}
  <1>1. PICK g \in Effectors : active[g] = e
    BY DEF OutcomeInv, AbortsQueuedInTime
  <1>2. /\ e # None
        /\ \A f \in Effectors : active[f] = e => f = g
    BY <1>1, NoneIsFresh DEF TypeInv, ActiveEvidenced, EvidenceUnique
  <1>3. ASSUME NEW o \in orders, RefuseUnverified(o) \/ RefuseLocally(o) \/ Accept(o)
        PROVE  FALSE
    <2>1. /\ o.effector \in Effectors /\ active[o.effector] = None /\ o \in evidence
          /\ o.engagement = e
      BY <1>3, OrderTaken
    <2>2. o.effector = g
      BY <1>1, <1>2, <2>1 DEF TypeInv, ActiveEvidenced, EvidenceUnique
    <2> QED
      BY <1>1, <1>2, <2>1, <2>2
  <1>4. ASSUME NEW f \in Effectors, Advance(f) \/ Stop(f)
        PROVE  execution'[e].phase = "ABORTED"
    BY <1>4, MovesTo
  <1>5. ASSUME NEW f \in Effectors, RestartEffector(f)
        PROVE  execution'[e].phase = "interrupted"
    BY <1>5, RestartFacts
  <1>6. ASSUME NEW d \in controls, ReceiveControl(d)
        PROVE  FALSE
    BY <1>6, ControlFacts
  <1>7. EffectorStep
    BY EffectorFrame DEF effectorVars
  <1> QED
    BY <1>3, <1>4, <1>5, <1>6, <1>7, EffectorKinds

\* A queued abort is what the effector does next to that engagement.
THEOREM AbortsPreempt == Spec => AbortPreemptsEffect
  <1>1. FireInv /\ OutcomeInv /\ [Next]_vars =>
          [\A e \in Engagements :
             (/\ abortRequests[e] # 0
              /\ execution'[e] # execution[e])
               => execution'[e].phase \in {"ABORTED", "interrupted"}]_vars
    BY AbortGoesFirst DEF FireInv, TypeInv
  <1> QED
    BY <1>1, FireInvariant, OutcomeInvariant, PTL DEF Spec, AbortPreemptsEffect

LEMMA ExecutedOnce ==
  ASSUME MaxEffectorRestarts = 0 \/ ~Redelivery,
         TypeInv, OutcomeInv, [Next]_vars,
         NEW e \in Engagements, execution[e].phase # "none"
  PROVE  execution'[e].phase # "ACCEPTED" \/ execution'[e] = execution[e]
  <1>1. ASSUME NEW o \in orders, RefuseUnverified(o) \/ RefuseLocally(o) \/ Accept(o)
        PROVE  execution'[e] = execution[e]
    <2>1. /\ o.effector \in Effectors /\ o \in evidence
          /\ \/ o.engagement # e => execution'[e] = execution[e]
          /\ \/ UNCHANGED execution
             \/ o.engagement \notin consumed[o.effector]
      BY <1>1, OrderTaken
    <2>2. CASE ~Redelivery
      BY <2>1, <2>2 DEF OutcomeInv, OutcomesStand, NotOrdered
    <2>3. CASE MaxEffectorRestarts = 0
      <3>1. effectorRestarts = 0
        BY <2>3 DEF TypeInv, TypeOK, EffectorTypeOK
      <3> QED
        BY <2>1, <3>1 DEF OutcomeInv, TokensSpent
    <2> QED
      BY <2>2, <2>3
  <1>2. ASSUME NEW f \in Effectors, Advance(f) \/ Stop(f)
        PROVE  execution'[e].phase # "ACCEPTED" \/ execution'[e] = execution[e]
    <2>1. \A p \in Executing : Following[p] # "ACCEPTED"
      BY DEF Following, Executing
    <2> QED
      BY <1>2, <2>1, MovesTo
  <1>3. ASSUME NEW f \in Effectors, RestartEffector(f)
        PROVE  execution'[e].phase # "ACCEPTED" \/ execution'[e] = execution[e]
    BY <1>3, RestartFacts
  <1>4. ASSUME NEW d \in controls, ReceiveControl(d)
        PROVE  execution'[e] = execution[e]
    BY <1>4, ControlFacts
  <1>5. CASE UNCHANGED effectorVars
    BY <1>5 DEF effectorVars
  <1> QED
    BY <1>1, <1>2, <1>3, <1>4, <1>5, EffectorFrame, EffectorKinds

\* If orders cannot come twice, or no effector forgets the tokens it consumed,
\* what was once answered is never executed again.
THEOREM NothingExecutedTwice ==
  ASSUME MaxEffectorRestarts = 0 \/ ~Redelivery
  PROVE  Spec => NeverExecutedTwice
  <1>1. FireInv /\ OutcomeInv /\ [Next]_vars =>
          [\A e \in Engagements :
             execution[e].phase # "none" =>
               execution'[e].phase # "ACCEPTED" \/ execution'[e] = execution[e]]_vars
    BY ExecutedOnce DEF FireInv, TypeInv
  <1> QED
    BY <1>1, FireInvariant, OutcomeInvariant, PTL DEF Spec, NeverExecutedTwice

----------------------------------------------------------------------------
(* The refinement of the effect interlock                                  *)

Underway(e) == \E f \in Effectors : active[f] = e

\* Where an engagement stands, without looking at the rest of the state.
LEMMA EffectValues ==
  ASSUME NEW e, e \in used
  PROVE  /\ ~NotOrdered(e) => Effect(e) = "commanded"
         /\ NotOrdered(e) /\ Underway(e) => Effect(e) = "underway"
         /\ NotOrdered(e) /\ ~Underway(e) => Effect(e) = "over"
  BY DEF Effect, NotOrdered, Underway

LEMMA EffectValuesAfter ==
  ASSUME NEW CONSTANT e, e \in used'
  PROVE  /\ ~NotOrdered(e)' => Effect(e)' = "commanded"
         /\ NotOrdered(e)' /\ Underway(e)' => Effect(e)' = "underway"
         /\ NotOrdered(e)' /\ ~Underway(e)' => Effect(e)' = "over"
  BY DEF Effect, NotOrdered, Underway

LEMMA EffectFrame ==
  ASSUME NEW CONSTANT e, e \in used' <=> e \in used,
         NotOrdered(e)' <=> NotOrdered(e), Underway(e)' <=> Underway(e)
  PROVE  Effect(e)' = Effect(e)
  BY DEF Effect, NotOrdered, Underway

LEMMA SameEffects ==
  ASSUME UNCHANGED <<used, orders, active>>
  PROVE  [e \in Engagements |-> Effect(e)]' = [e \in Engagements |-> Effect(e)]
  BY DEF Effect

LEMMA OneEffect ==
  ASSUME NEW CONSTANT e \in Engagements, NEW CONSTANT v, Effect(e)' = v,
         \A x \in Engagements : x # e => Effect(x)' = Effect(x)
  PROVE  [x \in Engagements |-> Effect(x)]'
           = [[x \in Engagements |-> Effect(x)] EXCEPT ![e] = v]
  OBVIOUS

\* The holder's command is answered, lost or carried out to its end.
LEMMA EndsEffect ==
  ASSUME NEW CONSTANT f \in Effectors, NEW CONSTANT e \in Engagements,
         reservations[f] = e, UNCHANGED <<reservations, used>>,
         e \in used, ~NotOrdered(e) \/ Underway(e),
         NotOrdered(e)', ~Underway(e)',
         \A x \in Engagements : x # e =>
           (NotOrdered(x)' <=> NotOrdered(x)) /\ (Underway(x)' <=> Underway(x))
  PROVE  Interlock!End(f)
  <1>1. Effect(e) \in {"commanded", "underway"} /\ Effect(e)' = "over"
    BY EffectValues, EffectValuesAfter
  <1>2. \A x \in Engagements : x # e => Effect(x)' = Effect(x)
    BY EffectFrame
  <1>3. [x \in Engagements |-> Effect(x)]'
          = [[x \in Engagements |-> Effect(x)] EXCEPT ![e] = "over"]
    BY <1>1, <1>2, OneEffect
  <1>4. e # None
    BY NoneIsFresh
  <1> QED
    BY <1>1, <1>3, <1>4 DEF Interlock!End

\* What the invariants say of an order and of an execution, for the mapping.
LEMMA Covered ==
  ASSUME FireInv, ~Redelivery, c2Restarts = 0
  PROVE  /\ \A o \in orders : /\ o.engagement \in Engagements \cap used
                              /\ o.effector \in Effectors
                              /\ reservations[o.effector] = o.engagement
                              /\ ~Underway(o.engagement)
                              /\ \A p \in orders : p.engagement = o.engagement => p = o
         /\ \A f \in Effectors : active[f] # None =>
              /\ active[f] \in Engagements \cap used
              /\ reservations[f] = active[f] /\ NotOrdered(active[f])
              /\ \A g \in Effectors : active[g] = active[f] => g = f
  <1>1. \A o \in orders : /\ o.engagement \in Engagements \cap used
                          /\ o.effector \in Effectors
                          /\ reservations[o.effector] = o.engagement
                          /\ ~Underway(o.engagement)
                          /\ \A p \in orders : p.engagement = o.engagement => p = o
    BY DEF FireInv, TypeOK, BusTypeOK, Order, EvidenceBeforeOrder, EvidenceUnique,
           InhibitCoversOrders, OrderTakenOnce, Underway
  <1>2. \A f \in Effectors : active[f] # None =>
          /\ active[f] \in Engagements \cap used
          /\ reservations[f] = active[f] /\ NotOrdered(active[f])
          /\ \A g \in Effectors : active[g] = active[f] => g = f
    BY DEF FireInv, TypeOK, EffectorTypeOK, ActiveEvidenced, EvidenceUnique,
           InhibitCoversOrders, OrderTakenOnce, NotOrdered
  <1> QED
    BY <1>1, <1>2

\* An order leaves the bus without being accepted.
LEMMA OrderEnds ==
  ASSUME FireInv, ~Redelivery, c2Restarts = 0, NEW o \in orders,
         orders' = orders \ {o}, UNCHANGED <<active, reservations, used>>
  PROVE  Interlock!End(o.effector)
  <1>1. /\ o.engagement \in Engagements \cap used /\ o.effector \in Effectors
        /\ reservations[o.effector] = o.engagement
        /\ \A p \in orders : p.engagement = o.engagement => p = o
    BY Covered
  <1>2. ~Underway(o.engagement)
    BY Covered
  <1>3. \A x : Underway(x)' <=> Underway(x)
    BY DEF Underway
  <1>4. /\ ~NotOrdered(o.engagement) /\ NotOrdered(o.engagement)'
        /\ \A x : x # o.engagement => (NotOrdered(x)' <=> NotOrdered(x))
    BY <1>1 DEF NotOrdered
  <1>5. ~Underway(o.engagement)'
    BY <1>2 DEF Underway
  <1> QED
    BY <1>1, <1>3, <1>4, <1>5, EndsEffect

\* An execution ends.
LEMMA ExecutionEnds ==
  ASSUME FireInv, ~Redelivery, c2Restarts = 0,
         NEW CONSTANT f \in Effectors, active[f] # None,
         active' = [active EXCEPT ![f] = None], UNCHANGED <<orders, reservations, used>>
  PROVE  Interlock!End(f)
  <1>1. /\ active[f] \in Engagements \cap used
        /\ reservations[f] = active[f] /\ NotOrdered(active[f])
        /\ \A g \in Effectors : active[g] = active[f] => g = f
    BY Covered
  <1>2. active \in [Effectors -> Engagements \cup {None}]
    BY DEF FireInv, TypeOK, EffectorTypeOK
  <1>3. \A x : NotOrdered(x)' <=> NotOrdered(x)
    BY DEF NotOrdered
  <1>4. ASSUME NEW CONSTANT e \in Engagements, e = active[f]
        PROVE  Interlock!End(f)
    <2>1. NotOrdered(e)'
      BY <1>1, <1>3, <1>4
    <2>2. ~Underway(e)' /\ Underway(e)
      BY <1>1, <1>2, <1>4 DEF Underway
    <2>3. \A x \in Engagements : x # e => (Underway(x)' <=> Underway(x))
      BY <1>2, <1>4, NoneIsFresh DEF Underway
    <2> QED
      BY <1>1, <1>3, <1>4, <2>1, <2>2, <2>3, EndsEffect
  <1> QED
    BY <1>1, <1>4

\* An accepted order is the effect its holder was commanded.
LEMMA AcceptanceBegins ==
  ASSUME FireInv, ~Redelivery, c2Restarts = 0, NEW o \in orders,
         orders' = orders \ {o}, UNCHANGED <<reservations, used>>,
         active[o.effector] = None,
         active' = [active EXCEPT ![o.effector] = o.engagement]
  PROVE  Interlock!Begin(o.effector)
  <1>1. /\ o.engagement \in Engagements \cap used /\ o.effector \in Effectors
        /\ reservations[o.effector] = o.engagement
        /\ \A p \in orders : p.engagement = o.engagement => p = o
    BY Covered
  <1>2. active \in [Effectors -> Engagements \cup {None}]
    BY DEF FireInv, TypeOK, EffectorTypeOK
  <1>3. ASSUME NEW CONSTANT e \in Engagements, e = o.engagement,
               NEW CONSTANT f \in Effectors, f = o.effector
        PROVE  Interlock!Begin(f)
    <2>1. /\ ~NotOrdered(e) /\ NotOrdered(e)' /\ Underway(e)'
          /\ \A x \in Engagements : x # e =>
               (NotOrdered(x)' <=> NotOrdered(x)) /\ (Underway(x)' <=> Underway(x))
      BY <1>1, <1>2, <1>3, NoneIsFresh DEF NotOrdered, Underway
    <2>2. Effect(e) = "commanded" /\ Effect(e)' = "underway"
      BY <1>1, <1>3, <2>1, EffectValues, EffectValuesAfter
    <2>3. \A x \in Engagements : x # e => Effect(x)' = Effect(x)
      BY <2>1, EffectFrame
    <2>4. [x \in Engagements |-> Effect(x)]'
            = [[x \in Engagements |-> Effect(x)] EXCEPT ![e] = "underway"]
      BY <2>2, <2>3, OneEffect
    <2> QED
      BY <1>1, <1>3, <2>2, <2>4, NoneIsFresh DEF Interlock!Begin
  <1> QED
    BY <1>1, <1>3

\* A request is refused, or its order handed to the bus.
LEMMA HandlerDecides ==
  ASSUME FireInv, NEW c \in Calls, NEW CONSTANT e \in Engagements,
         Refused(c, e) \/ Release(c, e), UNCHANGED effectorVars
  PROVE  Interlock!InterlockNext
  <1>0. TypeInv
    BY DEF FireInv, TypeInv
  <1>1. /\ e \notin used /\ used' = used \cup {e} /\ calls[c].effector \in Effectors
        /\ active' = active
    BY <1>0, ReleaseFacts DEF Refused, Opened, effectorVars
  <1>2. NotOrdered(e) /\ ~Underway(e) /\ Effect(e) = "none"
    BY <1>1, FreshFacts DEF Underway, Effect
  <1>3. \A x \in Engagements : Underway(x)' <=> Underway(x)
    BY <1>1 DEF Underway
  <1>4. CASE Refused(c, e)
    <2>1. UNCHANGED <<reservations, orders>>
      BY <1>4 DEF Refused
    <2>2. \A x : NotOrdered(x)' <=> NotOrdered(x)
      BY <2>1 DEF NotOrdered
    <2>3. Effect(e)' = "over"
      BY <1>1, <1>2, <1>3, <2>2, EffectValuesAfter
    <2>4. \A x \in Engagements : x # e => Effect(x)' = Effect(x)
      BY <1>1, <1>3, <2>2, EffectFrame
    <2>5. [x \in Engagements |-> Effect(x)]'
            = [[x \in Engagements |-> Effect(x)] EXCEPT ![e] = "over"]
      BY <2>3, <2>4, OneEffect
    <2>6. Interlock!Withhold(e)
      BY <1>2, <2>1, <2>5 DEF Interlock!Withhold
    <2> QED
      BY <2>6 DEF Interlock!InterlockNext
  <1>5. CASE Release(c, e)
    <2>1. /\ reservations[calls[c].effector] = None
          /\ reservations' = [reservations EXCEPT ![calls[c].effector] = e]
          /\ orders' = orders \cup {AuthorizedRecord(c, e)}
          /\ AuthorizedRecord(c, e).engagement = e
      BY <1>0, <1>5, ReleaseFacts DEF AuthorizedRecord
    <2>2. ~NotOrdered(e)' /\ \A x : x # e => (NotOrdered(x)' <=> NotOrdered(x))
      BY <2>1 DEF NotOrdered
    <2>3. Effect(e)' = "commanded"
      BY <1>1, <2>2, EffectValuesAfter
    <2>4. \A x \in Engagements : x # e => Effect(x)' = Effect(x)
      BY <1>1, <1>3, <2>2, EffectFrame
    <2>5. [x \in Engagements |-> Effect(x)]'
            = [[x \in Engagements |-> Effect(x)] EXCEPT ![e] = "commanded"]
      BY <2>3, <2>4, OneEffect
    <2>6. Interlock!Command(calls[c].effector, e)
      BY <1>2, <2>1, <2>5 DEF Interlock!Command
    <2> QED
      BY <1>1, <2>6 DEF Interlock!InterlockNext
  <1> QED
    BY <1>4, <1>5

\* A reported outcome frees the effector: the effect is over by then.
LEMMA StatusFrees ==
  ASSUME FireInv, ~Redelivery, c2Restarts = 0, NEW m \in statuses, ReceiveStatus(m),
         UNCHANGED effectorVars
  PROVE  \/ \E f \in Effectors : Interlock!Free(f)
         \/ UNCHANGED <<reservations, [e \in Engagements |-> Effect(e)]>>
  <1> DEFINE s == [state |-> m.state, sequence |-> m.sequence, effector |-> m.effector]
  <1>0. TypeInv
    BY DEF FireInv, TypeInv
  <1>1. UNCHANGED <<used, orders, active>>
    BY DEF ReceiveStatus, effectorVars, callVars
  <1>2. [e \in Engagements |-> Effect(e)]' = [e \in Engagements |-> Effect(e)]
    BY <1>1, SameEffects
  <1>3. CASE reservations' = reservations
    BY <1>2, <1>3
  <1>4. CASE reservations' # reservations
    <2>1. Applied(m.engagement, s)
      BY <1>0, <1>4, StatusKinds DEF ledgerVars
    <2>2. /\ m.state \in TerminalStates /\ reservations[m.effector] = m.engagement
          /\ reservations' = [reservations EXCEPT ![m.effector] = None]
      BY <1>4, <2>1 DEF Applied, Transition
    <2>3. m.engagement \in Engagements /\ m.effector \in Effectors
      BY <1>0 DEF TypeInv, TypeOK, BusTypeOK, Report
    <2>4. /\ m.engagement \in used
          /\ NotOrdered(m.engagement) /\ ~Underway(m.engagement)
      BY <2>2 DEF FireInv, ReportsAreLastWords, NotOrdered, Underway
    <2>5. Effect(m.engagement) = "over"
      BY <2>4, EffectValues
    <2>6. Interlock!Free(m.effector)
      BY <1>2, <2>2, <2>3, <2>5, NoneIsFresh DEF Interlock!Free
    <2> QED
      BY <2>3, <2>6
  <1> QED
    BY <1>3, <1>4

LEMMA InterlockStep ==
  ASSUME ~Redelivery, MaxC2Restarts = 0, FireInv, [Next]_vars
  PROVE  [Interlock!InterlockNext]_<<reservations, [e \in Engagements |-> Effect(e)]>>
  <1> DEFINE Stutters == UNCHANGED <<reservations, [e \in Engagements |-> Effect(e)]>>
  <1>0. TypeInv /\ c2Restarts = 0
    BY DEF FireInv, TypeInv, TypeOK, C2TypeOK
  <1>1. ASSUME UNCHANGED <<used, orders, active, reservations>>
        PROVE  Stutters
    BY <1>1, SameEffects
  <1>2. ASSUME NEW f \in Effectors, Interlock!Begin(f) \/ Interlock!End(f) \/ Interlock!Free(f)
        PROVE  Interlock!InterlockNext
    BY <1>2 DEF Interlock!InterlockNext
  <1> SUFFICES Stutters \/ Interlock!InterlockNext
    OBVIOUS
  <1> HIDE DEF Stutters
  <1>3. ASSUME NEW c \in Calls, RequestStep(c), UNCHANGED effectorVars
        PROVE  Stutters \/ Interlock!InterlockNext
    <2>1. ASSUME \/ \E r \in Requests, f \in Effectors : SubmitRequest(c, r, f)
                 \/ FinishRequest(c) \/ ReturnAccepted(c)
          PROVE  Stutters
      BY <1>1, <1>3, <2>1
      DEF SubmitRequest, FinishRequest, ReturnAccepted, ledgerVars, busVars, effectorVars
    <2> QED
      BY <1>0, <1>3, <2>1, RequestKinds, HandlerDecides
  <1>4. ASSUME NEW a \in AbortRequests, AbortStep(a), UNCHANGED effectorVars
        PROVE  Stutters
    BY <1>1, <1>4 DEF AbortStep, AbortUnsent, SendAbort, FinishAbort, ledgerVars,
                      callVars, busVars, effectorVars
  <1>5. ASSUME NEW m \in statuses, ReceiveStatus(m), UNCHANGED effectorVars
        PROVE  Stutters \/ Interlock!InterlockNext
    BY <1>0, <1>2, <1>5, StatusFrees DEF Stutters
  <1>6. ASSUME NEW e \in Engagements, ConsumeAuthorityToken(e), UNCHANGED effectorVars
        PROVE  Stutters
    <2>1. reservations' = reservations
      BY <1>6 DEF ConsumeAuthorityToken, Transition, EngagementStatus, TerminalStates,
                  ledgerVars
    <2> QED
      BY <1>1, <1>6, <2>1 DEF ConsumeAuthorityToken, callVars, busVars, effectorVars
  <1>7. CASE ExpireStaleCommands /\ UNCHANGED effectorVars
    BY <1>1, <1>7 DEF ExpireStaleCommands, Expire, callVars, busVars, effectorVars
  <1>8. ~RestartC2
    BY <1>0 DEF RestartC2
  <1>9. CASE EffectorStep
    <2>0. UNCHANGED <<used, reservations>>
      BY <1>9 DEF EffectorStep, c2Vars, ledgerVars, callVars
    <2>1. ASSUME NEW o \in orders, RefuseUnverified(o) \/ RefuseLocally(o) \/ Accept(o)
          PROVE  Interlock!InterlockNext
      <3>1. /\ orders' = orders \ {o} /\ o.effector \in Effectors
            /\ active[o.effector] = None
            /\ \/ active' = active
               \/ active' = [active EXCEPT ![o.effector] = o.engagement]
        BY <1>0, <2>1, OrderTaken DEF OrdersAfterDelivery
      <3> QED
        BY <1>0, <1>2, <2>0, <3>1, OrderEnds, AcceptanceBegins
    <2>2. ASSUME NEW f \in Effectors, Advance(f) \/ Stop(f)
          PROVE  Stutters \/ Interlock!InterlockNext
      <3>1. /\ orders' = orders /\ active[f] # None
            /\ active' = active \/ active' = [active EXCEPT ![f] = None]
        BY <1>0, <2>2, ExecutionMoves, NoneIsFresh
      <3> QED
        BY <1>0, <1>1, <1>2, <2>0, <3>1, ExecutionEnds
    <2>3. ASSUME NEW f \in Effectors, RestartEffector(f)
          PROVE  Stutters \/ Interlock!InterlockNext
      <3>1. orders' = orders /\ active' = [active EXCEPT ![f] = None]
        BY <1>0, <2>3, RestartFacts DEF busVars
      <3>2. CASE active[f] = None
        <4>1. active' = active
          BY <1>0, <3>1, <3>2 DEF TypeInv, TypeOK, EffectorTypeOK
        <4> QED
          BY <1>1, <2>0, <3>1, <4>1
      <3>3. CASE active[f] # None
        BY <1>0, <1>2, <2>0, <3>1, <3>3, ExecutionEnds
      <3> QED
        BY <3>2, <3>3
    <2>4. ASSUME NEW d \in controls, ReceiveControl(d)
          PROVE  Stutters
      BY <1>0, <1>1, <2>0, <2>4, ControlFacts
    <2> QED
      BY <1>0, <1>9, <2>1, <2>2, <2>3, <2>4, EffectorKinds
  <1>10. CASE BusStep
    <2>1. UNCHANGED <<used, reservations, active>>
      BY <1>10 DEF BusStep, c2Vars, ledgerVars, callVars, effectorVars
    <2>2. orders' = orders \/ \E o \in orders : orders' = orders \ {o}
      BY <1>10 DEF BusStep, Lose
    <2>3. ASSUME NEW o \in orders, orders' = orders \ {o}
          PROVE  Interlock!InterlockNext
      <3>1. o.effector \in Effectors
        BY <1>0, Covered
      <3> QED
        BY <1>0, <1>2, <2>1, <2>3, <3>1, OrderEnds
    <2> QED
      BY <1>1, <2>1, <2>2, <2>3
  <1>11. CASE UNCHANGED vars
    BY <1>1, <1>11 DEF vars, c2Vars, ledgerVars, callVars, busVars, effectorVars
  <1> QED
    BY <1>3, <1>4, <1>5, <1>6, <1>7, <1>8, <1>9, <1>10, <1>11, StepKinds

\* Unless orders can come twice or the node forgets its ledger, fire control
\* implements the effect interlock: only the holder of an effector is commanded
\* or takes effect, and the effector is freed only when that effect is over.
THEOREM InterlockImplemented ==
  ASSUME ~Redelivery, MaxC2Restarts = 0
  PROVE  Spec => ImplementsInterlock
  <1>1. Init => Interlock!InterlockInit
    BY DEF Init, C2Init, Interlock!InterlockInit, Effect
  <1>2. FireInv /\ [Next]_vars => [Interlock!InterlockNext]_(Interlock!interlockVars)
    BY InterlockStep DEF Interlock!interlockVars
  <1> QED
    BY <1>1, <1>2, FireInvariant, PTL DEF Spec, ImplementsInterlock,
                                          Interlock!InterlockSpec

----------------------------------------------------------------------------
(* The effector's reports reach the ledger                                 *)

Staged == {"ACCEPTED", "ACTIVE", "ASSESSING", "COMPLETE"}

LEMMA Stages ==
  /\ DOMAIN Stage \ {"AUTHORIZED"} = Staged
  /\ \A p \in LiveStates \cup Staged : Stage[p] \in Nat /\ Stage[p] >= 2
  /\ \A p \in LiveStates, q \in Staged :
       Stage[q] = Stage[p] + 1 => q \in AllowedTransitions[p]
  /\ \A p \in LiveStates : Stage[p] < 3 => p = "AUTHORIZED"
  /\ Stage["AUTHORIZED"] = 2 /\ Stage["ACCEPTED"] = 3
  /\ \A p \in Executing : /\ p \in Staged \cap LiveStates
                          /\ Following[p] \in Staged
                          /\ Stage[Following[p]] = Stage[p] + 1
  BY DEF Stage, Staged, LiveStates, Executing, Following, AllowedTransitions

\* A report that arrives in order applies, and what is left continues from it.
LEMMA HistoryReceived ==
  ASSUME NEW s \in Status, NEW x \in [phase : Phases, sequence : Nat],
         NEW R, R \subseteq Report, History(s, x, R), NEW m \in R, \A n \in R : n.sequence >= m.sequence,
         NEW t \in Status, t.state = m.state, t.sequence = m.sequence,
         t.effector = m.effector
  PROVE  Applies(s, t, TRUE) /\ History(t, x, R \ {m})
  <1> USE DEF History
  <1>0. /\ s.state \in LiveStates /\ Follows(m, s, x, R)
        /\ s.sequence = Stage[s.state] /\ s.sequence \in Nat /\ s.sequence >= 2
        /\ \A n \in R : n.sequence \in Nat
        /\ m.sequence > s.sequence /\ m.effector = s.effector
    BY Stages DEF Follows, Status, Report
  <1>1. \/ m.state \in Staged /\ m.sequence = Stage[m.state] /\ m.sequence = s.sequence + 1
        \/ m.state \in {"DENIED", "FAILED"} /\ m.sequence = 3
        \/ m.state = "ABORTED"
    <2>1. ~ \E n \in R : n.sequence = m.sequence - 1
      BY <1>0
    <2> QED
      BY <1>0, <2>1, Stages DEF Follows
  <1>2. /\ s.state \notin TerminalStates /\ s.state # "ABSENT"
        /\ m.state \in AllowedTransitions[s.state]
    <2>1. s.state \notin TerminalStates /\ s.state # "ABSENT"
      BY <1>0 DEF LiveStates, TerminalStates
    <2>2. CASE m.state \in Staged /\ m.sequence = Stage[m.state] /\ m.sequence = s.sequence + 1
      BY <1>0, <2>1, <2>2, Stages
    <2>3. CASE m.state \in {"DENIED", "FAILED"} /\ m.sequence = 3
      <3>1. s.state = "AUTHORIZED"
        BY <1>0, <2>3, Stages
      <3> QED
        BY <2>1, <2>3, <3>1 DEF AllowedTransitions
    <2>4. CASE m.state = "ABORTED"
      BY <1>0, <2>1, <2>4 DEF AllowedTransitions, LiveStates
    <2> QED
      BY <1>1, <2>2, <2>3, <2>4
  <1>3. Applies(s, t, TRUE)
    BY <1>0, <1>2 DEF Applies
  <1>4. \A n \in R \ {m} : n.sequence > m.sequence
    BY <1>0 DEF Follows
  <1>5. R \ {m} # {} => m.state \in LiveStates
    <2>1. R \ {m} # {} => m.state \notin TerminalStates
      BY <1>0, <1>4 DEF Follows
    <2> QED
      BY <1>1, <2>1 DEF Staged, LiveStates, TerminalStates
  <1>6. t.state \in LiveStates => t.sequence = Stage[t.state]
    BY <1>1 DEF LiveStates
  <1>7. x.phase \notin {"none", "interrupted"} =>
          t.state = x.phase \/ \E n \in R \ {m} : n.state = x.phase
    <2> SUFFICES ASSUME x.phase \notin {"none", "interrupted"}, s.state = x.phase
                 PROVE  FALSE
      BY <1>0
    <2>1. x.phase \in Executing
      BY <1>0 DEF LiveStates, Phases, TerminalStates
    <2> QED
      BY <1>0, <2>1 DEF Follows
  <1>8. ASSUME NEW n \in R \ {m}
        PROVE  Follows(n, t, x, R \ {m})
    <2>1. /\ Follows(n, s, x, R) /\ n.sequence > m.sequence
          /\ n.sequence \in Nat /\ m.sequence \in Nat
      BY <1>0, <1>4
    <2>2. n.effector = t.effector
      BY <1>0, <2>1 DEF Follows
    <2>3. ASSUME n.state \in DOMAIN Stage \ {"AUTHORIZED"}, n.sequence = Stage[n.state],
                 \/ n.sequence = s.sequence + 1
                 \/ \E k \in R : k.sequence = n.sequence - 1
          PROVE  \/ n.sequence = t.sequence + 1
                 \/ \E k \in R \ {m} : k.sequence = n.sequence - 1
      BY <1>0, <2>1, <2>3
    <2> QED
      BY <1>0, <2>1, <2>2, <2>3 DEF Follows
  <1> QED
    BY <1>3, <1>5, <1>6, <1>7, <1>8

\* The answer to an order opens the history of its execution.
LEMMA HistoryOpened ==
  ASSUME NEW s, s.state = "AUTHORIZED", s.sequence = 2, NEW x, NEW n,
         n.state \in {"DENIED", "FAILED", "ACCEPTED"}, n.sequence = 3,
         n.effector = s.effector,
         x.phase = "none" \/ (x.phase = n.state /\ x.sequence = 3)
  PROVE  History(s, x, {n})
  <1>1. /\ n.state \in Staged => n.sequence = Stage[n.state]
        /\ x.phase \in Executing => x.sequence = Stage[x.phase]
        /\ "AUTHORIZED" \in LiveStates /\ s.sequence = Stage["AUTHORIZED"]
        /\ n.state \in Staged \cup {"DENIED", "FAILED"}
    BY Stages DEF Staged, Executing, LiveStates
  <1>2. Follows(n, s, x, {n})
    BY <1>1, Stages DEF Follows
  <1> QED
    BY <1>1, <1>2 DEF History

\* The next report of an execution, of its following phase or of its abort,
\* continues the history.
LEMMA HistoryContinued ==
  ASSUME NEW s \in Status, NEW x, x.sequence \in Nat, NEW R, R \subseteq Report,
         History(s, x, R), s.state \in LiveStates, x.phase \in Executing,
         \A m \in R : m.state \notin TerminalStates,
         NEW y, NEW n \in Report, n.effector = s.effector,
         y.phase = n.state, y.sequence = n.sequence, n.sequence > x.sequence,
         \/ n.state = "ABORTED"
         \/ n.state = Following[x.phase] /\ n.sequence = x.sequence + 1
  PROVE  History(s, y, R \cup {n})
  <1> USE DEF History
  <1>0. /\ s.sequence \in Nat /\ n.sequence \in Nat
        /\ \A m \in R : m.sequence \in Nat /\ Follows(m, s, x, R)
        /\ x.phase \notin {"none", "interrupted"}
        /\ s.sequence = Stage[s.state] /\ x.sequence = Stage[x.phase]
    BY DEF Status, Report, Executing
  <1>1. \A m \in R : m.sequence <= x.sequence /\ m.sequence > s.sequence
    BY <1>0 DEF Follows
  <1>2. ASSUME NEW m \in R, m.state = x.phase
        PROVE  m.sequence = x.sequence
    BY <1>0, <1>2 DEF Follows, Executing
  <1>3. \/ s.sequence = x.sequence
        \/ \E m \in R : m.sequence = x.sequence /\ s.sequence < x.sequence
    BY <1>0, <1>1, <1>2
  <1>4. n.sequence > s.sequence /\ \A m \in R : m.sequence < n.sequence
    BY <1>0, <1>1, <1>3
  <1>5. ASSUME n.state # "ABORTED"
        PROVE  /\ n.state \in Staged /\ n.sequence = Stage[n.state]
               /\ \/ n.sequence = s.sequence + 1
                  \/ \E m \in R \cup {n} : m.sequence = n.sequence - 1
    <2>1. n.state = Following[x.phase] /\ n.sequence = x.sequence + 1
      BY <1>5
    <2>2. n.state \in Staged /\ n.sequence = Stage[n.state]
      BY <1>0, <2>1, Stages
    <2>3. x.sequence = n.sequence - 1
      BY <2>1
    <2> QED
      BY <1>0, <1>3, <2>1, <2>2, <2>3
  <1>6. Follows(n, s, y, R \cup {n})
    BY <1>0, <1>4, <1>5, Stages DEF Follows
  <1>7. ASSUME NEW m \in R
        PROVE  Follows(m, s, y, R \cup {n})
    <2>1. Follows(m, s, x, R) /\ m.sequence < n.sequence /\ m.sequence \in Nat
      BY <1>0, <1>4
    <2>2. m.state \notin TerminalStates
      OBVIOUS
    <2> QED
      BY <1>0, <2>1, <2>2 DEF Follows
  <1>8. y.phase \in Executing => y.sequence = Stage[y.phase]
    BY <1>5 DEF Executing
  <1> QED
    BY <1>6, <1>7, <1>8

\* An engagement's history depends on nothing but its own entries.
LEMMA InStepFrame ==
  ASSUME NEW CONSTANT e, InStep(e), engagements'[e] = engagements[e],
         execution'[e] = execution[e], ReportsOf(e)' = ReportsOf(e),
         NotOrdered(e) => NotOrdered(e)'
  PROVE  InStep(e)'
  BY DEF InStep, History, Follows

LEMMA InStepAfter ==
  ASSUME NEW CONSTANT e, History(engagements'[e], execution'[e], ReportsOf(e)'),
         NotOrdered(e)' \/ (engagements'[e].state = "AUTHORIZED" /\ ReportsOf(e)' = {})
  PROVE  InStep(e)'
  BY DEF InStep, History, Follows

LEMMA ReportTypes ==
  ASSUME TypeInv, NEW e \in Engagements
  PROVE  /\ ReportsOf(e) \subseteq Report
         /\ engagements[e] \in Status
         /\ execution[e] \in [phase : Phases, sequence : Nat]
  BY DEF TypeInv, TypeOK, BusTypeOK, C2TypeOK, EffectorTypeOK, ReportsOf

\* Opening an engagement starts an empty history.
LEMMA OpenedInStep ==
  ASSUME FireInv, NEW c \in Calls, NEW CONSTANT e \in Engagements,
         Refused(c, e) \/ Release(c, e), UNCHANGED effectorVars, InStep(e)
  PROVE  /\ InStep(e)'
         /\ \A x \in Engagements : x # e /\ InStep(x) => InStep(x)'
  <1>0. TypeInv
    BY DEF FireInv, TypeInv
  <1>1. PICK state \in {"DENIED", "FAILED", "AUTHORIZED"}, sequence \in {2, 3} :
          /\ Opened(c, e, state, sequence)
          /\ state = "AUTHORIZED" => sequence = 2
          /\ \/ state # "AUTHORIZED" /\ orders' = orders
             \/ state = "AUTHORIZED" /\ orders' = orders \cup {AuthorizedRecord(c, e)}
    BY <1>0, ReleaseFacts DEF Refused
  <1>2. /\ engagements'[e] = [state |-> state, sequence |-> sequence,
                              effector |-> calls[c].effector]
        /\ \A x \in Engagements : x # e => engagements'[x] = engagements[x]
        /\ UNCHANGED <<statuses, execution>>
    <2>1. /\ engagements'[e] = [state |-> state, sequence |-> sequence,
                                effector |-> calls[c].effector]
          /\ \A x \in Engagements : x # e => engagements'[x] = engagements[x]
      BY <1>0, <1>1, OpenedFacts
    <2> QED
      BY <1>1, <2>1 DEF Opened, effectorVars
  <1>3. engagements'[e].state = state /\ engagements'[e].sequence = sequence
    BY <1>2
  <1>4. /\ execution[e].phase = "none" /\ NotOrdered(e) /\ ReportsOf(e) = {}
    BY <1>1, FreshFacts DEF Opened, ReportsOf
  <1>5. \A x : ReportsOf(x)' = ReportsOf(x)
    BY <1>2 DEF ReportsOf
  <1>6. AuthorizedRecord(c, e).engagement = e
    BY DEF AuthorizedRecord
  <1>7. /\ \A x : x # e /\ NotOrdered(x) => NotOrdered(x)'
        /\ state # "AUTHORIZED" => NotOrdered(e)'
    BY <1>1, <1>4, <1>6 DEF NotOrdered
  <1>8. History(engagements'[e], execution'[e], ReportsOf(e)')
    <2>1. state \in LiveStates => state = "AUTHORIZED"
      BY DEF LiveStates
    <2>2. "none" \notin Executing
      BY DEF Executing
    <2>3. execution'[e].phase = "none" /\ ReportsOf(e)' = {}
      BY <1>2, <1>4, <1>5
    <2>4. state \in LiveStates => sequence = Stage[state]
      BY <1>1, <2>1, Stages
    <2> QED
      BY <1>3, <2>2, <2>3, <2>4 DEF History
  <1>9. InStep(e)'
    BY <1>3, <1>4, <1>5, <1>7, <1>8, InStepAfter
  <1>10. \A x \in Engagements : x # e /\ InStep(x) => InStep(x)'
    BY <1>2, <1>5, <1>7, InStepFrame
  <1> QED
    BY <1>9, <1>10

\* A status that arrives in order is applied, and its history goes on.
LEMMA ReceivedInStep ==
  ASSUME FireInv, ~Reorder, ~ClockSkew, NEW CONSTANT m \in statuses, ReceiveStatus(m),
         UNCHANGED effectorVars, InStep(m.engagement)
  PROVE  /\ InStep(m.engagement)'
         /\ \A x \in Engagements : x # m.engagement /\ InStep(x) => InStep(x)'
  <1> DEFINE e == m.engagement
             t == [state |-> m.state, sequence |-> m.sequence, effector |-> m.effector]
  <1>0. TypeInv
    BY DEF FireInv, TypeInv
  <1>1. /\ e \in Engagements /\ m \in ReportsOf(e) /\ t \in Status
        /\ t.state = m.state /\ t.sequence = m.sequence /\ t.effector = m.effector
    BY <1>0 DEF TypeInv, TypeOK, BusTypeOK, Report, Status, ReportsOf
  <1>2. \A n \in ReportsOf(e) : n.sequence >= m.sequence
    BY <1>0 DEF ReceiveStatus, ReportInOrder, ReportsOf, TypeInv, TypeOK, BusTypeOK, Report
  <1>3. /\ Applies(engagements[e], t, TRUE)
        /\ History(t, execution[e], ReportsOf(e) \ {m})
    BY <1>0, <1>1, <1>2, ReportTypes, HistoryReceived DEF InStep
  <1>4. Known(e) /\ NotOrdered(e)
    <2>1. engagements[e].state \in LiveStates /\ NotOrdered(e)
      BY <1>1 DEF InStep, History
    <2> QED
      BY <2>1 DEF Known, LiveStates
  <1>5. Transition(e, t)
    BY <1>3, <1>4, Zenon DEF ReceiveStatus, Verdict
  <1>6. \A x \in Engagements : engagements'[x] = IF x = e THEN t ELSE engagements[x]
    BY <1>0, <1>5 DEF Transition, TypeInv, TypeOK, C2TypeOK
  <1>7. /\ UNCHANGED <<execution, orders>> /\ statuses' = statuses \ {m}
    BY DEF ReceiveStatus, effectorVars
  <1>8. /\ ReportsOf(e)' = ReportsOf(e) \ {m}
        /\ \A x : x # e => ReportsOf(x)' = ReportsOf(x)
        /\ \A x : NotOrdered(x) => NotOrdered(x)'
    BY <1>7 DEF ReportsOf, NotOrdered
  <1>9. InStep(e)'
    <2>1. History(engagements'[e], execution'[e], ReportsOf(e)')
      BY <1>1, <1>3, <1>6, <1>7, <1>8
    <2> QED
      BY <1>4, <1>8, <2>1, InStepAfter
  <1>10. \A x \in Engagements : x # e /\ InStep(x) => InStep(x)'
    BY <1>6, <1>7, <1>8, InStepFrame
  <1> QED
    BY <1>9, <1>10

\* What an effector reports of e leaves every other history as it was.
LEMMA OthersInStep ==
  ASSUME NEW CONSTANT e, NEW n, n.engagement = e, statuses' = statuses \cup {n},
         orders' \subseteq orders, engagements' = engagements,
         \A x \in Engagements : x # e => execution'[x] = execution[x]
  PROVE  /\ ReportsOf(e)' = ReportsOf(e) \cup {n}
         /\ \A x \in Engagements : x # e /\ InStep(x) => InStep(x)'
  <1>1. /\ ReportsOf(e)' = ReportsOf(e) \cup {n}
        /\ \A x : x # e => ReportsOf(x)' = ReportsOf(x)
        /\ \A x : NotOrdered(x) => NotOrdered(x)'
    BY DEF ReportsOf, NotOrdered
  <1> QED
    BY <1>1, InStepFrame

\* The effector that is reserved by an engagement is the one it was released to.
LEMMA HolderIsLive ==
  ASSUME FireInv, NEW f \in Effectors, NEW e \in Engagements, reservations[f] = e
  PROVE  engagements[e].state \in LiveStates /\ engagements[e].effector = f
  BY DEF FireInv, ReservationExact, Live

LEMMA TakenInStep ==
  ASSUME FireInv, Stand, ~Redelivery, c2Restarts = 0, engagements' = engagements,
         NEW CONSTANT o \in orders,
         RefuseUnverified(o) \/ RefuseLocally(o) \/ Accept(o), InStep(o.engagement)
  PROVE  /\ InStep(o.engagement)'
         /\ \A x \in Engagements : x # o.engagement /\ InStep(x) => InStep(x)'
  <1> DEFINE e == o.engagement
  <1>0. TypeInv
    BY DEF FireInv, TypeInv
  <1>1. /\ e \in Engagements /\ o.effector \in Effectors
        /\ \A x \in Engagements : x # e => execution'[x] = execution[x]
        /\ orders' = orders \ {o} /\ ~NotOrdered(e)
    BY <1>0, OrderTaken DEF OrdersAfterDelivery, NotOrdered
  <1>2. PICK state \in {"DENIED", "FAILED", "ACCEPTED"} :
          /\ Emit(e, o.effector, state, 3)
          /\ \/ execution' = execution
             \/ execution'[e] = [phase |-> state, sequence |-> 3]
    BY <1>0, OrderTaken
  <1> DEFINE n == [engagement |-> e, effector |-> o.effector, state |-> state,
                   sequence |-> 3]
  <1>3. /\ statuses' = statuses \cup {n} /\ n.engagement = e
        /\ n.effector = o.effector /\ n.state = state /\ n.sequence = 3
    BY <1>2 DEF Emit
  <1>4. /\ engagements[e].effector = o.effector /\ NotOrdered(e)'
    <2>1. reservations[o.effector] = e
      BY Covered
    <2>2. NotOrdered(e)'
      BY <1>1, Covered DEF NotOrdered
    <2> QED
      BY <1>1, <2>1, <2>2, HolderIsLive
  <1>5. engagements[e].state = "AUTHORIZED" /\ ReportsOf(e) = {}
    BY <1>1 DEF InStep
  <1>6. engagements[e].sequence = 2
    <2>1. "AUTHORIZED" \in LiveStates
      BY DEF LiveStates
    <2> QED
      BY <1>5, <2>1, Stages DEF InStep, History
  <1>7. execution[e].phase = "none"
    BY <1>1 DEF Stand
  <1>8. execution'[e].phase = "none"
          \/ (execution'[e].phase = state /\ execution'[e].sequence = 3)
    BY <1>2, <1>7
  <1> HIDE DEF n, e
  <1>9. /\ ReportsOf(e)' = ReportsOf(e) \cup {n}
        /\ \A x \in Engagements : x # e /\ InStep(x) => InStep(x)'
    BY <1>1, <1>3, OthersInStep
  <1>10. History(engagements[e], execution'[e], {n})
    BY <1>3, <1>4, <1>5, <1>6, <1>8, HistoryOpened
  <1>11. InStep(e)'
    BY <1>4, <1>5, <1>9, <1>10, InStepAfter
  <1> QED
    BY <1>9, <1>11 DEF e

LEMMA MovedInStep ==
  ASSUME FireInv, Stand, ~Redelivery, c2Restarts = 0, engagements' = engagements,
         NEW f \in Effectors, Advance(f) \/ Stop(f), InStep(active[f])
  PROVE  \A x \in Engagements : InStep(x) => InStep(x)'
  <1>0. TypeInv
    BY DEF FireInv, TypeInv
  <1>1. /\ active[f] \in Engagements
        /\ execution[active[f]].phase \in Executing
        /\ \A x \in Engagements : x # active[f] => execution'[x] = execution[x]
        /\ orders' = orders
    BY <1>0, ExecutionMoves
  <1>2. PICK state \in States, sequence \in Nat :
          /\ Emit(active[f], f, state, sequence)
          /\ execution'[active[f]] = [phase |-> state, sequence |-> sequence]
          /\ sequence > execution[active[f]].sequence
          /\ \/ state = "ABORTED"
             \/ /\ state = Following[execution[active[f]].phase]
                /\ sequence = execution[active[f]].sequence + 1
    <2>1. execution[active[f]].sequence \in Nat
      BY <1>0, <1>1, ReportTypes
    <2>2. "ABORTED" \in States /\ \A p \in Executing : Following[p] \in States
      BY DEF States, LiveStates, TerminalStates, Following, Executing
    <2>3. CASE /\ Emit(active[f], f, Following[execution[active[f]].phase],
                        execution[active[f]].sequence + 1)
               /\ execution'[active[f]] = [phase |-> Following[execution[active[f]].phase],
                                           sequence |-> execution[active[f]].sequence + 1]
      BY <1>1, <2>1, <2>2, <2>3
    <2>4. CASE \E sequence \in Nat :
                 /\ sequence > execution[active[f]].sequence
                 /\ execution'[active[f]] = [phase |-> "ABORTED", sequence |-> sequence]
                 /\ Emit(active[f], f, "ABORTED", sequence)
      BY <2>2, <2>4
    <2> QED
      BY <1>0, <2>3, <2>4, ExecutionMoves
  <1>3. ASSUME NEW CONSTANT e \in Engagements, e = active[f]
        PROVE  InStep(e)' /\ \A x \in Engagements : x # e /\ InStep(x) => InStep(x)'
    <2> DEFINE n == [engagement |-> e, effector |-> f, state |-> state,
                     sequence |-> sequence]
    <2>1. /\ statuses' = statuses \cup {n} /\ n.engagement = e /\ n \in Report
          /\ n.effector = f /\ n.state = state /\ n.sequence = sequence
      BY <1>1, <1>2, <1>3 DEF Emit, Report
    <2>2. execution'[e].phase = state /\ execution'[e].sequence = sequence
      BY <1>2, <1>3
    <2>3. engagements[e].state \in LiveStates /\ engagements[e].effector = f
      BY <1>3, Covered, NoneIsFresh, HolderIsLive
    <2>4. /\ NotOrdered(e) /\ NotOrdered(e)'
          /\ \A m \in ReportsOf(e) : m.state \notin TerminalStates
      BY <1>1, <1>3, UndecidedWhileExecuting DEF ReportsOf, NotOrdered
    <2> HIDE DEF n
    <2>5. /\ ReportsOf(e)' = ReportsOf(e) \cup {n}
          /\ \A x \in Engagements : x # e /\ InStep(x) => InStep(x)'
      BY <1>1, <1>3, <2>1, OthersInStep
    <2>6. /\ engagements[e] \in Status /\ ReportsOf(e) \subseteq Report
          /\ execution[e].sequence \in Nat
          /\ History(engagements[e], execution[e], ReportsOf(e))
      BY <1>0, <1>3, ReportTypes DEF InStep
    <2>7. History(engagements[e], execution'[e], ReportsOf(e) \cup {n})
      BY <1>1, <1>2, <1>3, <2>1, <2>2, <2>3, <2>4, <2>6, HistoryContinued
    <2>8. InStep(e)'
      BY <2>4, <2>5, <2>7, InStepAfter
    <2> QED
      BY <2>5, <2>8
  <1> QED
    BY <1>1, <1>3

LEMMA RestartInStep ==
  ASSUME FireInv, engagements' = engagements, NEW f \in Effectors, RestartEffector(f)
  PROVE  \A x \in Engagements : InStep(x) => InStep(x)'
  <1>0. TypeInv
    BY DEF FireInv, TypeInv
  <1>1. UNCHANGED <<orders, statuses>>
    BY <1>0, RestartFacts DEF busVars
  <1>2. \A x : ReportsOf(x)' = ReportsOf(x) /\ (NotOrdered(x)' <=> NotOrdered(x))
    BY <1>1 DEF ReportsOf, NotOrdered
  <1>3. ASSUME NEW CONSTANT e \in Engagements, InStep(e)
        PROVE  InStep(e)'
    <2>1. CASE e # active[f]
      BY <1>0, <1>2, <1>3, <2>1, RestartFacts, InStepFrame
    <2>2. CASE e = active[f]
      <3>1. /\ execution'[e].phase = "interrupted"
            /\ execution'[e].sequence = execution[e].sequence
        BY <1>0, <2>2, RestartFacts
      <3>2. execution[e].phase \in Executing
        BY <1>0, <2>2, NoneIsFresh DEF TypeInv, ActiveEvidenced
      <3>3. History(engagements[e], execution'[e], ReportsOf(e))
        BY <1>3, <3>1, <3>2 DEF InStep, History, Follows, Executing
      <3> QED
        BY <1>2, <1>3, <3>3, InStepAfter DEF InStep
    <2> QED
      BY <2>1, <2>2
  <1> QED
    BY <1>3

LEMMA ReportsStep ==
  ASSUME Reliable, FireInv, OutcomeInv, ReportsInStep, [Next]_vars
  PROVE  ReportsInStep'
  <1> SUFFICES ASSUME c2Restarts' = 0 PROVE \A e \in Engagements : InStep(e)'
    BY DEF ReportsInStep
  <1>0. TypeInv /\ c2Restarts \in Nat /\ Stand
        /\ ~Lossy /\ ~Reorder /\ ~Redelivery /\ ~ClockSkew /\ ~RestConsume
    BY C2Bound DEF FireInv, TypeInv, TypeOK, C2TypeOK, Reliable, OutcomeInv, OutcomesStand, Stand
  <1>1. ~RestartC2
    BY <1>0 DEF RestartC2
  <1>2. c2Restarts = 0
    <2>1. ASSUME NEW c \in Calls, RequestStep(c)
          PROVE  c2Restarts' = c2Restarts
      BY <2>1 DEF RequestStep, SubmitRequest, Deny, InhibitForAudit, FailUnsent, Release,
                  Open, FinishRequest, ReturnAccepted, logVars
    <2>2. ASSUME NEW a \in AbortRequests, AbortStep(a)
          PROVE  c2Restarts' = c2Restarts
      BY <2>2 DEF AbortStep, AbortUnsent, SendAbort, FinishAbort, logVars
    <2>3. ASSUME \/ \E m \in statuses : ReceiveStatus(m)
                 \/ \E e \in Engagements : ConsumeAuthorityToken(e)
                 \/ ExpireStaleCommands \/ EffectorStep \/ BusStep \/ UNCHANGED vars
          PROVE  c2Restarts' = c2Restarts
      BY <2>3 DEF ReceiveStatus, ConsumeAuthorityToken, ExpireStaleCommands, Expire,
                  EffectorStep, BusStep, vars, c2Vars, logVars
    <2> QED
      BY <1>1, <2>1, <2>2, <2>3, StepKinds
  <1>3. \A e \in Engagements : InStep(e)
    BY <1>0, <1>2 DEF ReportsInStep
  <1>4. ASSUME UNCHANGED <<engagements, execution, statuses>>, orders' \subseteq orders
        PROVE  \A e \in Engagements : InStep(e)'
    <2>1. \A x : ReportsOf(x)' = ReportsOf(x) /\ (NotOrdered(x) => NotOrdered(x)')
      BY <1>4 DEF ReportsOf, NotOrdered
    <2> QED
      BY <1>3, <1>4, <2>1, InStepFrame
  <1>5. ASSUME NEW c \in Calls, RequestStep(c), UNCHANGED effectorVars
        PROVE  \A e \in Engagements : InStep(e)'
    <2>1. ASSUME \/ \E r \in Requests, f \in Effectors : SubmitRequest(c, r, f)
                 \/ FinishRequest(c) \/ ReturnAccepted(c)
          PROVE  \A e \in Engagements : InStep(e)'
      BY <1>4, <1>5, <2>1
      DEF SubmitRequest, FinishRequest, ReturnAccepted, ledgerVars, busVars, effectorVars
    <2> QED
      BY <1>0, <1>3, <1>5, <2>1, RequestKinds, OpenedInStep
  <1>6. ASSUME NEW a \in AbortRequests, AbortStep(a), UNCHANGED effectorVars
        PROVE  \A e \in Engagements : InStep(e)'
    BY <1>4, <1>6 DEF AbortStep, AbortUnsent, SendAbort, FinishAbort, ledgerVars,
                      busVars, effectorVars
  <1>7. ASSUME NEW m \in statuses, ReceiveStatus(m), UNCHANGED effectorVars
        PROVE  \A e \in Engagements : InStep(e)'
    <2>1. m.engagement \in Engagements
      BY <1>0 DEF TypeInv, TypeOK, BusTypeOK, Report
    <2> QED
      BY <1>0, <1>3, <1>7, <2>1, ReceivedInStep
  <1>8. CASE ExpireStaleCommands /\ UNCHANGED effectorVars
    BY <1>4, <1>8 DEF ExpireStaleCommands, Expire, busVars, effectorVars
  <1>9. CASE EffectorStep
    <2>0. engagements' = engagements
      BY <1>9 DEF EffectorStep, c2Vars, ledgerVars
    <2>1. ASSUME NEW o \in orders, RefuseUnverified(o) \/ RefuseLocally(o) \/ Accept(o)
          PROVE  \A e \in Engagements : InStep(e)'
      <3>1. o.engagement \in Engagements
        BY <1>0, <2>1, OrderTaken
      <3> QED
        BY <1>0, <1>2, <1>3, <2>0, <2>1, <3>1, TakenInStep
    <2>2. ASSUME NEW f \in Effectors, Advance(f) \/ Stop(f)
          PROVE  \A e \in Engagements : InStep(e)'
      <3>1. active[f] \in Engagements
        BY <1>0, <2>2, ExecutionMoves
      <3> QED
        BY <1>0, <1>2, <1>3, <2>0, <2>2, <3>1, MovedInStep
    <2>3. ASSUME NEW d \in controls, ReceiveControl(d)
          PROVE  \A e \in Engagements : InStep(e)'
      BY <1>0, <1>4, <2>0, <2>3, ControlFacts
    <2> QED
      BY <1>0, <1>3, <1>9, <2>0, <2>1, <2>2, <2>3, EffectorKinds, RestartInStep
  <1>10. CASE UNCHANGED vars
    BY <1>4, <1>10 DEF vars, c2Vars, ledgerVars, busVars, effectorVars
  <1>11. ~BusStep
    BY <1>0 DEF BusStep, Lose
  <1> QED
    BY <1>0, <1>1, <1>5, <1>6, <1>7, <1>8, <1>9, <1>10, <1>11, StepKinds

\* With a bus that loses, reorders and repeats nothing, comparable clocks and an
\* effector that answers by status, ledger, reports and executions stay in step.
THEOREM ReportsKeepStep ==
  ASSUME Reliable PROVE Spec => []ReportsInStep
  <1>1. Init => ReportsInStep
    BY DEF Init, C2Init, BusInit, EffectorInit, ReportsInStep, InStep, History,
           ReportsOf, NotOrdered, NoStatus, LiveStates, Executing
  <1>2. FireInv /\ OutcomeInv /\ ReportsInStep /\ [Next]_vars => ReportsInStep'
    BY ReportsStep
  <1> QED
    BY <1>1, <1>2, FireInvariant, OutcomeInvariant, PTL DEF Spec

\* Then what an effector decided is what the ledger says once its reports have
\* arrived, refusals after the authorization included.
THEOREM VerdictFinal ==
  ASSUME Reliable, MaxC2Restarts = 0
  PROVE  Spec => []EffectorVerdictIsFinal
  <1>1. ASSUME FireInv, ReportsInStep
        PROVE  EffectorVerdictIsFinal
    <2>1. \A e \in Engagements : InStep(e)
      BY <1>1 DEF FireInv, TypeOK, C2TypeOK, ReportsInStep
    <2>2. "none" \notin TerminalStates /\ "interrupted" \notin TerminalStates
      BY DEF TerminalStates
    <2> QED
      BY <2>1, <2>2 DEF EffectorVerdictIsFinal, InStep, History, ReportsOf
  <1> QED
    BY <1>1, FireInvariant, ReportsKeepStep, PTL
=============================================================================
