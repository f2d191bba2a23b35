-------------------------------- MODULE RoomMC --------------------------------
(***************************************************************************)
(* TLC instance of TakTransfer for what needs more of one part of the room *)
(* than can be had of all its parts at once: the scenario, the correction  *)
(* dialog, or the clock.  A behaviour has room for one of them.            *)
(***************************************************************************)
EXTENDS TakTransfer

VARIABLE part  \* bound: the part of the room this behaviour has room for

MCInit == Init /\ part \in {"script", "corrections", "clock"}

\* The founder alone, who may end the room but not run its clock, two versions of
\* a report, one correction of the first two under way, and no draft kept after a
\* conflict.
ScriptOnly ==
  /\ part = "script"
  /\ UNCHANGED <<now, runs, invitation>>
  /\ draft'[Founder].offered = 0 /\ draft'[Founder].report <= 2
  /\ Cardinality(posts') <= 1
  /\ \A r \in Reports : report'[r].version <= 2

\* One report, which nobody transfers.
CorrectionsOnly ==
  /\ part = "corrections"
  /\ UNCHANGED now
  /\ \A r \in Reports \ {1} : report'[r] = report[r]

ClockOnly ==
  /\ part = "clock"
  /\ UNCHANGED <<peopleVars, reportVars, pageVars>>

MCNext ==
  /\ Next
  /\ ScriptOnly \/ CorrectionsOnly \/ ClockOnly
  /\ UNCHANGED part

MCSpec == MCInit /\ [][MCNext]_<<vars, part>>
=============================================================================
