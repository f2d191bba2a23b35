------------------------------ MODULE TrackFeed ------------------------------
(***************************************************************************)
(* The simulated track feed, the bus and the picture together.  A report   *)
(* once published may reach the node at any later time, any number of      *)
(* times and in any order: what the bus, several publishers and a bounded  *)
(* memory of message IDs can do at worst.                                  *)
(***************************************************************************)
EXTENDS TrackSource, FiniteSets

CONSTANTS
  MaxNow,      \* bound: the node's clock
  MaxReports   \* bound: distinct reports published

feedVars == <<copVars, sourceVars>>

FeedInit == CopInit /\ SourceInit

SourceStep ==
  /\ SourceNext
  /\ Cardinality(reports') <= MaxReports
  /\ UNCHANGED copVars

Deliver == (\E p \in reports : ReceiveTrack(p.report)) /\ UNCHANGED sourceVars

Clock == now < MaxNow /\ PassTime /\ UNCHANGED sourceVars

FeedNext ==
  \/ SourceStep \/ Deliver \/ Clock
  \/ Sweep /\ UNCHANGED sourceVars

FeedSpec == FeedInit /\ [][FeedNext]_feedVars

----------------------------------------------------------------------------
\* Of two reports a start of the simulator published of one track, the later
\* one is newer by the picture's rule and the earlier one is not: whatever the
\* sensors' latencies, whether the track was observed again or coasted between
\* them, and in whichever order they arrive, the picture ends at the later one.
NewsIsTaken ==
  \A p, q \in reports :
    (/\ p.session = q.session /\ p.report.track = q.report.track
     /\ p.report.updated < q.report.updated)
      => Newer(q.report, p.report) /\ ~Newer(p.report, q.report)

\* The inductive invariant of the feed: the source is in order and so is all it
\* ever published.
FeedInv == CopTypeOK /\ SourceInv /\ NewsIsTaken
=============================================================================
