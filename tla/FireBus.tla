------------------------------ MODULE FireBus ------------------------------
(***************************************************************************)
(* The pub/sub subjects fire control uses, as the C2 node and the          *)
(* effector use them:                                                      *)
(*   orders    cuas.engagement.order.<effector>     C2 -> effector         *)
(*   controls  cuas.engagement.control.<effector>   C2 -> effector         *)
(*   statuses  cuas.engagement.status.<engagement>  effector -> C2         *)
(* The broker is outside the repository.  bus.py calls core NATS           *)
(* at-most-once transport; each of its possible misbehaviours is a         *)
(* constant, so that a run says which it assumes.                          *)
(***************************************************************************)
EXTENDS EngagementLifecycle

CONSTANTS
  Lossy,       \* TRUE: an in-flight message may vanish
  Reorder,     \* TRUE: messages of one publisher may overtake each other
  Redelivery   \* TRUE: an order may be delivered again, past the envelope
               \* verifier's memory of its messageId

ASSUME BusFlags == {Lossy, Reorder, Redelivery} \subseteq BOOLEAN

VARIABLES orders, controls, statuses

busVars == <<orders, controls, statuses>>

Order   == [engagement : Engagements, request : Requests, effector : Effectors]
Control == [engagement : Engagements, request : AbortRequests,
            effector : Effectors, sequence : Nat]
Report  == [engagement : Engagements, effector : Effectors,
            state : States, sequence : Nat]

BusTypeOK ==
  /\ orders \subseteq Order
  /\ controls \subseteq Control
  /\ statuses \subseteq Report

BusInit == orders = {} /\ controls = {} /\ statuses = {}

\* A control of an engagement is published after its order, on one connection.
ControlInOrder(d) ==
  Reorder \/ ~ \E o \in orders : o.engagement = d.engagement

\* An effector numbers the reports of one engagement in publication order.
ReportInOrder(m) ==
  Reorder \/ ~ \E n \in statuses : /\ n.engagement = m.engagement
                                   /\ n.sequence < m.sequence

OrdersAfterDelivery(o) == IF Redelivery THEN orders ELSE orders \ {o}

Lose ==
  /\ Lossy
  /\ \/ /\ \E o \in orders : orders' = orders \ {o}
        /\ UNCHANGED <<controls, statuses>>
     \/ /\ \E d \in controls : controls' = controls \ {d}
        /\ UNCHANGED <<orders, statuses>>
     \/ /\ \E m \in statuses : statuses' = statuses \ {m}
        /\ UNCHANGED <<orders, controls>>
=============================================================================
