------------------------ MODULE EngagementLifecycle ------------------------
(***************************************************************************)
(* The engagement lifecycle of the C2 node (services/c2-core/app/main.py): *)
(* its states, the transition table, and the verdict State.transition      *)
(* gives on a status record.  Everything here is a constant-level          *)
(* operator; the state that uses it is in C2FireControl.                   *)
(***************************************************************************)
EXTENDS Integers

CONSTANTS
  Effectors,      \* effectorId values
  Engagements,    \* engagementId values (uuid4 in the code: never reused)
  Requests,       \* X-Request-ID values of engagement requests
  AbortRequests,  \* X-Request-ID values of abort directives
  None            \* "no such entry" in a dict

ASSUME NoneIsFresh ==
  None \notin Effectors \cup Engagements \cup Requests \cup AbortRequests

TerminalStates == {"COMPLETE", "ABORTED", "FAILED", "DENIED"}

\* Released to an effector and not yet terminal.
LiveStates == {"AUTHORIZED", "ACCEPTED", "ACTIVE", "ASSESSING"}

States == {"PROPOSED"} \cup LiveStates \cup TerminalStates

\* Faulty variant: an authorized order can no longer be refused by the effector.
TransitionsWithoutRefusal ==
  [ PROPOSED   |-> {"AUTHORIZED", "DENIED", "FAILED", "ABORTED"},
    AUTHORIZED |-> {"ACCEPTED", "FAILED", "ABORTED"},
    ACCEPTED   |-> {"ACTIVE", "FAILED", "ABORTED"},
    ACTIVE     |-> {"ASSESSING", "COMPLETE", "FAILED", "ABORTED"},
    ASSESSING  |-> {"COMPLETE", "FAILED", "ABORTED"} ]

AllowedTransitions ==
  [ PROPOSED   |-> {"AUTHORIZED", "DENIED", "FAILED", "ABORTED"},
    AUTHORIZED |-> {"ACCEPTED", "DENIED", "FAILED", "ABORTED"},
    ACCEPTED   |-> {"ACTIVE", "FAILED", "ABORTED"},
    ACTIVE     |-> {"ASSESSING", "COMPLETE", "FAILED", "ABORTED"},
    ASSESSING  |-> {"COMPLETE", "FAILED", "ABORTED"} ]

\* "ABSENT" with sequence 0 stands for an engagementId the node does not know.
Status == [state : States \cup {"ABSENT"}, sequence : Nat,
           effector : Effectors \cup {None}]

NoStatus == [state |-> "ABSENT", sequence |-> 0, effector |-> None]

\* transition() accepts s after previous.  `timely` is the outcome of its
\* timestamp comparison (5 s of skew after AUTHORIZED, none later).
Applies(previous, s, timely) ==
  IF previous.state = "ABSENT"
    THEN s.state = "PROPOSED" /\ s.sequence = 1
    ELSE /\ s.effector = previous.effector
         /\ s.sequence > previous.sequence
         /\ previous.state \notin TerminalStates
         /\ s.state \in AllowedTransitions[previous.state]
         /\ timely

\* transition() calls s an idempotent repeat of previous.
Repeats(previous, s) ==
  /\ previous.state # "ABSENT"
  /\ s.effector = previous.effector
  /\ s.sequence >= previous.sequence
  /\ s.state = previous.state

Verdict(previous, s, timely) ==
  IF Applies(previous, s, timely) THEN "APPLIED"
  ELSE IF Repeats(previous, s) THEN "DUPLICATE" ELSE "INVALID"
=============================================================================
