-------------------------- MODULE EffectInterlock --------------------------
(***************************************************************************)
(* What fire control promises about effects, with no messages, handlers or *)
(* lifecycle states: an effector is held by one engagement at a time, only *)
(* the holder is commanded or takes effect, and the effector is freed only *)
(* when the holder's effect is over.                                       *)
(***************************************************************************)
CONSTANTS Effectors, Engagements, None

VARIABLES
  holder,  \* the engagement each effector is reserved for
  effect   \* "none", "commanded", "underway" or "over", per engagement

interlockVars == <<holder, effect>>

InterlockInit ==
  /\ holder = [f \in Effectors |-> None]
  /\ effect = [e \in Engagements |-> "none"]

\* An engagement ends without ever being commanded.
Withhold(e) ==
  /\ effect[e] = "none"
  /\ effect' = [effect EXCEPT ![e] = "over"]
  /\ UNCHANGED holder

Command(f, e) ==
  /\ holder[f] = None
  /\ effect[e] = "none"
  /\ holder' = [holder EXCEPT ![f] = e]
  /\ effect' = [effect EXCEPT ![e] = "commanded"]

Begin(f) ==
  /\ holder[f] # None
  /\ effect[holder[f]] = "commanded"
  /\ effect' = [effect EXCEPT ![holder[f]] = "underway"]
  /\ UNCHANGED holder

\* The command is refused or lost, or the effect stops or completes.
End(f) ==
  /\ holder[f] # None
  /\ effect[holder[f]] \in {"commanded", "underway"}
  /\ effect' = [effect EXCEPT ![holder[f]] = "over"]
  /\ UNCHANGED holder

Free(f) ==
  /\ holder[f] # None
  /\ effect[holder[f]] = "over"
  /\ holder' = [holder EXCEPT ![f] = None]
  /\ UNCHANGED effect

InterlockNext ==
  \/ \E e \in Engagements : Withhold(e)
  \/ \E f \in Effectors : \/ \E e \in Engagements : Command(f, e)
                          \/ Begin(f) \/ End(f) \/ Free(f)

InterlockSpec == InterlockInit /\ [][InterlockNext]_interlockVars
=============================================================================
