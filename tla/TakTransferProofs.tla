------------------------- MODULE TakTransferProofs -------------------------
(***************************************************************************)
(* Proofs about the shared exercise room and its TAK transfer, for any     *)
(* participants, limits and number of restarts.  RoomInv is the inductive  *)
(* invariant; the variables fall into groups that few actions change, so   *)
(* the frame lemmas come first and every group is then proved on its own.  *)
(***************************************************************************)
EXTENDS TakTransfer, FiniteSetTheorems, TLAPS

ClockTypes ==
  /\ status \in {"ready", "running", "paused", "ended"}
  /\ now \in 0..MaxNow /\ elapsed \in Nat /\ ran \in Nat
  /\ adjusted \in Nat /\ runs \in Nat
  /\ clockStartedAt \in {Stopped} \cup 0..MaxNow

PeopleTypes ==
  /\ role \in [Persons -> Roles \cup {"none"}]
  /\ invitation \in [Invitations -> [status : {"none", "open", "used"},
                                     role : Roles \cup {"none"}]]
  /\ handover \in [Handovers -> [status : {"none", "pending", "accepted"},
                                 from : Persons \cup {None},
                                 to : Persons \cup {None}]]

ReportTypes ==
  /\ step \in -1..LastCheckpoint
  /\ report \in [Reports -> [version : 0..MaxRevisions, located : BOOLEAN,
                             checkpoint : ByHand..LastCheckpoint]]

LineageTypes == lineage \in [Reports -> [1..MaxRevisions -> Origins]]

PageTypes ==
  /\ view \in [Persons -> Versions]
  /\ draft \in [Persons -> Drafts] /\ posts \subseteq Corrections

TaskTypes ==
  task \in [Tasks -> [status : {"none", "open", "acknowledged", "resolved"},
                      assignee : Persons \cup {None}]]

Entries ==
  [status : {"none", "pending", "completed"}, by : Persons \cup {None},
   versions : Versions,
   outcome : {"none", "not_sent", "delivery_unknown", "written_to_tls_socket"}]

Executions ==
  [pc : {"idle", "reserved", "writing", "returned"},
   transportStatus : {"not_sent", "delivery_unknown", "written_to_tls_socket"},
   payload : Versions]

TransferTypes ==
  /\ transfer \in [Transfers -> Entries]
  /\ send \in [Transfers -> Executions]
  /\ socket \in [Transfers ->
       [taken : {"nothing", "part", "all"}, versions : Versions]]

\* The type invariant, group by group.
LEMMA TypeGroups ==
  TypeOK <=> /\ ClockTypes /\ PeopleTypes /\ ReportTypes /\ TaskTypes /\ TransferTypes
             /\ LineageTypes /\ PageTypes /\ events \in 1..MaxEvents
             /\ crashes \in 0..MaxCrashes
  BY DEF TypeOK, RoomTypeOK, ClockTypes, PeopleTypes, ReportTypes, LineageTypes,
         PageTypes, TaskTypes, TransferTypes, Entries, Executions

LEMMA TypeGroupsNext ==
  TypeOK' <=> /\ ClockTypes' /\ PeopleTypes' /\ ReportTypes' /\ TaskTypes'
              /\ TransferTypes'
              /\ LineageTypes' /\ PageTypes' /\ events' \in 1..MaxEvents
              /\ crashes' \in 0..MaxCrashes
  BY DEF TypeOK, RoomTypeOK, ClockTypes, PeopleTypes, ReportTypes, LineageTypes,
         PageTypes, TaskTypes, TransferTypes, Entries, Executions

----------------------------------------------------------------------------
(* Frames: which actions change which variables                            *)

\* What a step of the room is.
LEMMA StepKinds ==
  ASSUME Next
  PROVE  \/ Tick /\ UNCHANGED transferVars
         \/ (\E t \in 0..MaxNow : SetClock(t)) /\ UNCHANGED transferVars
         \/ \E p \in Persons : MemberStep(p) /\ UNCHANGED transferVars
         \/ \E p \in Persons, t \in Transfers, selected \in SUBSET Reports :
              Reserve(p, t, selected)
         \/ \E t \in Transfers : TransferStep(t)
         \/ Crash
  BY DEF Next, RoomNext

\* The wall clock belongs to nobody.
LEMMA WallClockFrame ==
  ASSUME Tick \/ \E t \in 0..MaxNow : SetClock(t)
  PROVE  UNCHANGED <<peopleVars, reportVars, transfer, events, pageVars>>
  BY DEF Tick, SetClock

\* What happens on a page changes nothing in the room.
LEMMA PageFrame ==
  ASSUME NEW p \in Persons, PageStep(p)
  PROVE  UNCHANGED <<clockVars, peopleVars, reportVars, transfer, events>>
  BY DEF PageStep, Read, CloseRevision, PostRevision, Rebase, OpenRevision, RefuseRevision

LEMMA ReserveFrame ==
  ASSUME NEW p, NEW t, NEW selected, Reserve(p, t, selected)
  PROVE  UNCHANGED <<clockVars, peopleVars, reportVars, pageVars, socket, crashes>> /\ Append
  BY DEF Reserve, ReserveTak

\* Only the end of a handler's execution writes to the room.
LEMMA TransferStepFrame ==
  ASSUME NEW t \in Transfers, TransferStep(t)
  PROVE  /\ UNCHANGED <<clockVars, peopleVars, reportVars, pageVars, crashes>>
         /\ (UNCHANGED <<transfer, events>> \/ Append)
  BY DEF TransferStep, GiveUp, BeginWrite, Transmit, WriteFails, WriteCompletes,
         Finish, FinishTak, roomVars

LEMMA ClockFrame ==
  ASSUME Next
  PROVE  \/ UNCHANGED clockVars
         \/ Tick \/ \E t \in 0..MaxNow : SetClock(t)
         \/ \E p \in Persons, action \in DOMAIN ClockActions : Clock(p, action)
  <1>1. ASSUME NEW p \in Persons, MemberStep(p)
        PROVE  \/ UNCHANGED clockVars
               \/ \E action \in DOMAIN ClockActions : Clock(p, action)
    BY <1>1, PageFrame
    DEF MemberStep, Invite, Join, OfferHandover, AcceptHandover, AddReport,
        ReviseReport, AddRequest, TransitionRequest, AdvanceScenario
  <1> QED
    BY <1>1, StepKinds, ReserveFrame, TransferStepFrame DEF Crash, roomVars

LEMMA PeopleFrame ==
  ASSUME Next
  PROVE  \/ UNCHANGED peopleVars
         \/ \E p \in Persons :
              \/ \E i \in Invitations, r \in Roles : Invite(p, i, r)
              \/ \E i \in Invitations : Join(p, i)
              \/ \E h \in Handovers, q \in Persons : OfferHandover(p, h, q)
              \/ \E h \in Handovers : AcceptHandover(p, h)
  <1>1. ASSUME NEW p \in Persons, MemberStep(p)
        PROVE  \/ UNCHANGED peopleVars
               \/ \E i \in Invitations, r \in Roles : Invite(p, i, r)
               \/ \E i \in Invitations : Join(p, i)
               \/ \E h \in Handovers, q \in Persons : OfferHandover(p, h, q)
               \/ \E h \in Handovers : AcceptHandover(p, h)
    BY <1>1, PageFrame
    DEF MemberStep, AddReport, ReviseReport, AddRequest, TransitionRequest,
        AdvanceScenario, Clock
  <1> QED
    BY <1>1, StepKinds, WallClockFrame, ReserveFrame, TransferStepFrame
    DEF Crash, roomVars

LEMMA ScriptFrame ==
  ASSUME Next
  PROVE  \/ UNCHANGED <<step, report, lineage>>
         \/ \E p \in Persons :
              \/ \E r \in Reports, located \in BOOLEAN : AddReport(p, r, located)
              \/ \E q \in posts : ReviseReport(p, q)
              \/ AdvanceScenario(p)
  <1>1. ASSUME NEW p \in Persons, MemberStep(p)
        PROVE  \/ UNCHANGED <<step, report, lineage>>
               \/ \E r \in Reports, located \in BOOLEAN : AddReport(p, r, located)
               \/ \E q \in posts : ReviseReport(p, q)
               \/ AdvanceScenario(p)
    BY <1>1, PageFrame
    DEF MemberStep, Invite, Join, OfferHandover, AcceptHandover, AddRequest,
        TransitionRequest, Clock, reportVars
  <1> QED
    BY <1>1, StepKinds, WallClockFrame, ReserveFrame, TransferStepFrame
    DEF Crash, roomVars, reportVars

LEMMA TaskFrame ==
  ASSUME Next
  PROVE  \/ UNCHANGED task
         \/ /\ UNCHANGED role
            /\ \E p \in Persons, t \in Tasks :
                 (\E q \in Persons : AddRequest(p, t, q)) \/ TransitionRequest(p, t)
  <1>1. ASSUME NEW p \in Persons, MemberStep(p)
        PROVE  \/ UNCHANGED task
               \/ /\ UNCHANGED role
                  /\ \E t \in Tasks :
                       (\E q \in Persons : AddRequest(p, t, q)) \/ TransitionRequest(p, t)
    BY <1>1, PageFrame
    DEF MemberStep, Invite, Join, OfferHandover, AcceptHandover, AddReport,
        ReviseReport, AddRequest, TransitionRequest, AdvanceScenario, Clock,
        reportVars, peopleVars
  <1> QED
    BY <1>1, StepKinds, WallClockFrame, ReserveFrame, TransferStepFrame
    DEF Crash, roomVars, reportVars

\* Nothing but a transfer's own steps, and a crash, touches a transfer.
LEMMA TransferFrame ==
  ASSUME Next
  PROVE  \/ UNCHANGED <<transfer, send, socket>>
         \/ \E p \in Persons, t \in Transfers, selected \in SUBSET Reports :
              Reserve(p, t, selected)
         \/ \E t \in Transfers : TransferStep(t)
         \/ Crash
  <1>1. ASSUME NEW p \in Persons, MemberStep(p)
        PROVE  UNCHANGED transfer
    BY <1>1, PageFrame
    DEF MemberStep, Invite, Join, OfferHandover, AcceptHandover, AddReport,
        ReviseReport, AddRequest, TransitionRequest, AdvanceScenario, Clock
  <1> QED
    BY <1>1, StepKinds, WallClockFrame DEF transferVars

\* Every change of the room that counts as one adds its row to the event table.
LEMMA EventsFrame ==
  ASSUME Next
  PROVE  UNCHANGED <<transfer, events>> \/ Append
  <1>1. ASSUME NEW p \in Persons, MemberStep(p)
        PROVE  UNCHANGED <<transfer, events>> \/ Append
    BY <1>1, PageFrame
    DEF MemberStep, Invite, Join, OfferHandover, AcceptHandover, AddReport,
        ReviseReport, AddRequest, TransitionRequest, AdvanceScenario, Clock
  <1> QED
    BY <1>1, StepKinds, WallClockFrame, ReserveFrame, TransferStepFrame
    DEF Crash, roomVars

\* Pages change by what is done on them and by the answer to a correction.
LEMMA PagesFrame ==
  ASSUME Next
  PROVE  \/ UNCHANGED pageVars
         \/ \E p \in Persons : PageStep(p) \/ \E q \in posts : ReviseReport(p, q)
  <1>1. ASSUME NEW p \in Persons, MemberStep(p)
        PROVE  UNCHANGED pageVars \/ PageStep(p) \/ \E q \in posts : ReviseReport(p, q)
    BY <1>1 DEF MemberStep, Invite, Join, OfferHandover, AcceptHandover, AddReport,
                AddRequest, TransitionRequest, AdvanceScenario, Clock
  <1> QED
    BY <1>1, StepKinds, WallClockFrame, ReserveFrame, TransferStepFrame
    DEF Crash, roomVars

----------------------------------------------------------------------------
(* The room clock                                                          *)

ClockInv == ClockTypes /\ ClockAccounts

\* A shown time is a tenth, half a tenth from the exact one at most.
LEMMA RoundedFacts ==
  ASSUME NEW x \in Nat, NEW y \in Rounded(x)
  PROVE  /\ y \in Nat /\ \E k \in 0..y : y = Tenth * k
         /\ 2 * (y - x) <= Tenth /\ 2 * (x - y) <= Tenth
  <1>1. PICK k \in 0..(x + 1) : y = Tenth * k
    BY DEF Rounded
  <1>2. y \in Nat /\ k <= y
    BY <1>1, RoomClock
  <1> QED
    BY <1>1, <1>2 DEF Rounded

\* Rounding a time that was rounded before changes nothing.
LEMMA RoundedTwice ==
  ASSUME NEW x \in Nat, NEW j \in Nat, x = Tenth * j, NEW y \in Rounded(x)
  PROVE  y = x
  <1>1. PICK k \in 0..y : y = Tenth * k
    BY RoundedFacts
  <1>2. 2 * (y - x) <= Tenth /\ 2 * (x - y) <= Tenth /\ y \in Nat
    BY RoundedFacts
  <1>3. Tenth * (k - j) = y - x /\ k - j \in Int
    BY <1>1, <1>2, RoomClock
  <1>4. ~ (k - j >= 1)
    BY <1>2, <1>3, RoomClock
  <1>5. ~ (k - j <= -1)
    BY <1>2, <1>3, RoomClock
  <1> QED
    BY <1>1, <1>3, <1>4, <1>5, RoomClock

\* The allowances are whole numbers and grow with each run and each adjustment.
LEMMA Allowances ==
  ASSUME ClockTypes
  PROVE  /\ MayLose \in Nat /\ MayGain \in Nat
         /\ ClockTypes' =>
              /\ MayLose' \in Nat /\ MayGain' \in Nat
              /\ runs' = runs =>
                   /\ MayLose' = MayLose + 2 * (adjusted' - adjusted)
                   /\ MayGain' = MayGain + 2 * (adjusted' - adjusted)
              /\ (runs' = runs + 1 /\ adjusted' = adjusted) =>
                   /\ MayLose' = MayLose + Tenth
                   /\ MayGain' = MayGain + Tenth + 2 * (Millisecond - 1)
  <1> DEFINE slack == Tenth + 2 * (Millisecond - 1)
  <1>1. slack \in Nat /\ Tenth \in Nat /\ runs \in Nat /\ adjusted \in Nat
    BY RoomClock DEF ClockTypes
  <1>2. MayLose = Tenth * runs + 2 * adjusted /\ MayGain = slack * runs + 2 * adjusted
    BY DEF MayLose, MayGain
  <1>3. MayLose' = Tenth * runs' + 2 * adjusted' /\ MayGain' = slack * runs' + 2 * adjusted'
    BY DEF MayLose, MayGain
  <1>4. Tenth * (runs + 1) = Tenth * runs + Tenth /\ slack * (runs + 1) = slack * runs + slack
    <2> HIDE DEF slack
    <2> QED
      BY <1>1
  <1>5. \A a, b \in Nat : a * b \in Nat
    OBVIOUS
  <1>6. slack = Tenth + 2 * (Millisecond - 1)
    OBVIOUS
  <1> HIDE DEF slack
  <1>7. Tenth * runs \in Nat /\ slack * runs \in Nat
    BY <1>1, <1>5
  <1>8. MayLose \in Nat /\ MayGain \in Nat
    BY <1>1, <1>2, <1>7
  <1> SUFFICES ASSUME ClockTypes'
               PROVE  /\ MayLose' \in Nat /\ MayGain' \in Nat
                      /\ runs' = runs =>
                           /\ MayLose' = MayLose + 2 * (adjusted' - adjusted)
                           /\ MayGain' = MayGain + 2 * (adjusted' - adjusted)
                      /\ (runs' = runs + 1 /\ adjusted' = adjusted) =>
                           /\ MayLose' = MayLose + Tenth
                           /\ MayGain' = MayGain + Tenth + 2 * (Millisecond - 1)
    BY <1>8
  <1>9. runs' \in Nat /\ adjusted' \in Nat
    BY DEF ClockTypes
  <1>10. Tenth * runs' \in Nat /\ slack * runs' \in Nat
    BY <1>1, <1>5, <1>9
  <1>11. MayLose' \in Nat /\ MayGain' \in Nat
    BY <1>3, <1>9, <1>10
  <1>12. ASSUME runs' = runs
         PROVE  /\ MayLose' = MayLose + 2 * (adjusted' - adjusted)
                /\ MayGain' = MayGain + 2 * (adjusted' - adjusted)
    <2>1. Tenth * runs' = Tenth * runs /\ slack * runs' = slack * runs
      BY <1>12
    <2>2. \A a, x, y \in Nat : a + 2 * y = (a + 2 * x) + 2 * (y - x)
      OBVIOUS
    <2>3. Tenth * runs + 2 * adjusted' = (Tenth * runs + 2 * adjusted) + 2 * (adjusted' - adjusted)
      BY <1>1, <1>7, <1>9, <2>2
    <2>4. slack * runs + 2 * adjusted' = (slack * runs + 2 * adjusted) + 2 * (adjusted' - adjusted)
      BY <1>1, <1>7, <1>9, <2>2
    <2> QED
      BY <1>2, <1>3, <2>1, <2>3, <2>4
  <1>13. ASSUME runs' = runs + 1, adjusted' = adjusted
         PROVE  /\ MayLose' = MayLose + Tenth
                /\ MayGain' = MayGain + Tenth + 2 * (Millisecond - 1)
    <2>1. Tenth * runs' = Tenth * runs + Tenth /\ slack * runs' = slack * runs + slack
      BY <1>4, <1>13
    <2> QED
      BY <1>1, <1>2, <1>3, <1>6, <1>7, <1>9, <1>13, <2>1, RoomClock
  <1> QED
    BY <1>11, <1>12, <1>13

\* The time saved by a pause or an end is half a tenth more off than before.
LEMMA ShownTracks ==
  ASSUME ClockInv, NEW shown \in Rounded(Elapsed)
  PROVE  /\ shown \in Nat /\ \E k \in 0..shown : shown = Tenth * k
         /\ 2 * (ran - shown) <= MayLose /\ 2 * (shown - ran) <= MayGain
         /\ status # "running" => shown = elapsed
  <1>1. /\ elapsed \in Nat /\ ran \in Nat /\ now \in Nat
        /\ MayLose \in Nat /\ MayGain \in Nat /\ Tenth \in Nat
        /\ status = "running" => clockStartedAt \in Nat
    BY Allowances, RoomLimits, RoomClock DEF ClockInv, ClockTypes, ClockAccounts, Stopped
  <1>2. Elapsed \in Nat
    BY <1>1 DEF Elapsed
  <1>3. /\ shown \in Nat /\ \E k \in 0..shown : shown = Tenth * k
        /\ 2 * (shown - Elapsed) <= Tenth /\ 2 * (Elapsed - shown) <= Tenth
    BY <1>2, RoundedFacts
  <1>4. CASE status = "running"
    <2>1. /\ 2 * (ran - Elapsed) + Tenth <= MayLose
          /\ 2 * (Elapsed - ran) + Tenth <= MayGain
      BY <1>1, <1>4 DEF ClockInv, ClockAccounts, Elapsed
    <2> QED
      BY <1>1, <1>2, <1>3, <1>4, <2>1
  <1>5. CASE status # "running"
    <2>1. Elapsed = elapsed /\ \E k \in 0..elapsed : elapsed = Tenth * k
      BY <1>5 DEF Elapsed, ClockInv, ClockAccounts
    <2>2. shown = elapsed
      BY <1>1, <2>1, RoundedTwice
    <2> QED
      BY <1>3, <1>5, <2>2 DEF ClockInv, ClockAccounts
  <1> QED
    BY <1>4, <1>5

LEMMA TruncatedFacts ==
  ASSUME NEW t \in 0..MaxNow
  PROVE  Truncated(t) \in 0..MaxNow /\ t - Truncated(t) \in 0..(Millisecond - 1)
  <1>1. t % Millisecond \in 0..(Millisecond - 1)
    BY RoomLimits, RoomClock
  <1>2. t % Millisecond <= t
    BY RoomLimits, RoomClock
  <1> QED
    BY <1>1, <1>2, RoomLimits, RoomClock DEF Truncated

LEMMA SwitchStep ==
  ASSUME ClockInv, NEW p \in Persons, NEW action \in DOMAIN ClockActions,
         Clock(p, action)
  PROVE  ClockInv'
  <1>1. /\ now' = now /\ ran' = ran /\ adjusted' = adjusted
        /\ elapsed' \in Rounded(Elapsed)
        /\ status' \in {"running", "paused", "ended"}
        /\ clockStartedAt' = IF status' = "running" THEN Truncated(now) ELSE Stopped
        /\ runs' = IF status' = "running" THEN runs + 1 ELSE runs
        /\ status' = "running" => status # "running"
    BY DEF Clock, Switch, ClockActions
  <1>2. /\ elapsed' \in Nat /\ \E k \in 0..elapsed' : elapsed' = Tenth * k
        /\ 2 * (ran - elapsed') <= MayLose /\ 2 * (elapsed' - ran) <= MayGain
    BY <1>1, ShownTracks
  <1>3. now \in 0..MaxNow /\ ran \in Nat /\ runs \in Nat /\ adjusted \in Nat
    BY DEF ClockInv, ClockTypes
  <1>4. Truncated(now) \in 0..MaxNow /\ now - Truncated(now) \in 0..(Millisecond - 1)
    BY <1>3, TruncatedFacts
  <1>5. ClockTypes'
    BY <1>1, <1>2, <1>3, <1>4 DEF ClockTypes
  <1>6. MayLose \in Nat /\ MayGain \in Nat
    BY Allowances DEF ClockInv
  <1>7. CASE status' = "running"
    <2>1. MayLose' = MayLose + Tenth /\ MayGain' = MayGain + Tenth + 2 * (Millisecond - 1)
      BY <1>1, <1>5, <1>7, Allowances DEF ClockInv
    <2>2. clockStartedAt' = Truncated(now) /\ clockStartedAt' # Stopped
      BY <1>1, <1>4, <1>7, RoomLimits DEF Stopped
    <2> QED
      BY <1>1, <1>2, <1>3, <1>4, <1>5, <1>6, <1>7, <2>1, <2>2, RoomClock, RoomLimits
      DEF ClockInv, ClockAccounts
  <1>8. CASE status' # "running"
    <2>1. MayLose' = MayLose /\ MayGain' = MayGain
      BY <1>1, <1>3, <1>5, <1>6, <1>8, Allowances DEF ClockInv
    <2> QED
      BY <1>1, <1>2, <1>5, <1>8, <2>1 DEF ClockInv, ClockAccounts
  <1> QED
    BY <1>7, <1>8

\* Time passes, or the wall clock is set: a running clock counts the difference,
\* and the second is one of the adjustments.
LEMMA WallClockStep ==
  ASSUME ClockInv, Tick \/ \E t \in 0..MaxNow : SetClock(t)
  PROVE  ClockInv'
  <1>1. /\ elapsed \in Nat /\ ran \in Nat /\ now \in 0..MaxNow /\ runs \in Nat
        /\ adjusted \in Nat /\ MayLose \in Nat /\ MayGain \in Nat
        /\ status = "running" => clockStartedAt \in Nat
    BY Allowances, RoomLimits DEF ClockInv, ClockTypes, ClockAccounts, Stopped
  <1>2. CASE Tick
    <2>1. /\ UNCHANGED <<status, elapsed, clockStartedAt, adjusted, runs>>
          /\ now' = now + 1 /\ now < MaxNow
          /\ ran' = IF status = "running" THEN ran + 1 ELSE ran
      BY <1>2 DEF Tick
    <2>2. ClockTypes'
      BY <1>1, <2>1, RoomLimits DEF ClockInv, ClockTypes
    <2>3. MayLose' = MayLose /\ MayGain' = MayGain
      BY <1>1, <2>1, <2>2, Allowances DEF ClockInv
    <2> QED
      BY <1>1, <2>1, <2>2, <2>3, RoomClock, RoomLimits DEF ClockInv, ClockAccounts
  <1>3. ASSUME NEW t \in 0..MaxNow, SetClock(t)
        PROVE  ClockInv'
    <2>1. /\ UNCHANGED <<status, elapsed, clockStartedAt, ran, runs>>
          /\ now' = t
          /\ adjusted' = IF status = "running" THEN adjusted + Distance(now, t)
                                              ELSE adjusted
      BY <1>3 DEF SetClock
    <2>2. /\ Distance(now, t) \in Nat
          /\ now - t <= Distance(now, t) /\ t - now <= Distance(now, t)
      BY <1>1, RoomLimits DEF Distance
    <2>3. ClockTypes'
      BY <1>1, <2>1, <2>2 DEF ClockInv, ClockTypes
    <2>4. /\ MayLose' = MayLose + 2 * (adjusted' - adjusted)
          /\ MayGain' = MayGain + 2 * (adjusted' - adjusted)
      BY <2>1, <2>3, Allowances DEF ClockInv
    <2>5. CASE status = "running"
      <3> DEFINE d == Distance(now, t)
      <3>1. /\ d \in Nat /\ now - t <= d /\ t - now <= d /\ t \in Nat /\ now \in Nat
            /\ MayLose' = MayLose + 2 * d /\ MayGain' = MayGain + 2 * d
            /\ now' = t /\ clockStartedAt \in Nat /\ Tenth \in Nat
        BY <1>1, <2>1, <2>2, <2>4, <2>5, RoomClock, RoomLimits
      <3> HIDE DEF d
      <3>2. /\ 2 * (ran - (elapsed + now - clockStartedAt)) + Tenth <= MayLose
            /\ 2 * (elapsed + now - clockStartedAt - ran) + Tenth <= MayGain
            /\ 2 * (elapsed - ran) + Tenth <= MayGain
        BY <2>5 DEF ClockInv, ClockAccounts
      <3>3. /\ 2 * (ran - (elapsed + t - clockStartedAt)) + Tenth <= MayLose + 2 * d
            /\ 2 * (elapsed + t - clockStartedAt - ran) + Tenth <= MayGain + 2 * d
            /\ 2 * (elapsed - ran) + Tenth <= MayGain + 2 * d
        BY <1>1, <3>1, <3>2
      <3> QED
        BY <2>1, <2>3, <2>5, <3>1, <3>3 DEF ClockInv, ClockAccounts
    <2>6. CASE status # "running"
      BY <1>1, <2>1, <2>3, <2>4, <2>6 DEF ClockInv, ClockAccounts
    <2> QED
      BY <2>5, <2>6
  <1> QED
    BY <1>2, <1>3

LEMMA ClockStep ==
  ASSUME ClockInv, Next
  PROVE  ClockInv'
  <1>1. CASE UNCHANGED clockVars
    BY <1>1 DEF clockVars, ClockInv, ClockTypes, ClockAccounts, MayLose, MayGain
  <1> QED
    BY <1>1, ClockFrame, SwitchStep, WallClockStep

----------------------------------------------------------------------------
(* Membership, handovers and who may finish what was begun                 *)

OfferedByControllers ==
  \A h \in Handovers : handover[h].status = "pending" =>
    /\ handover[h].from \in Persons /\ handover[h].to \in Persons
    /\ role[handover[h].from] = "controller" /\ role[handover[h].to] \in Workers

InvitationsNamed ==
  \A i \in Invitations : invitation[i].status = "open" => invitation[i].role \in Roles

PeopleInv ==
  /\ PeopleTypes /\ InvitationsNamed /\ OneOfferEach
  /\ AlwaysAController /\ OfferedByControllers

\* An offer that can be accepted is one of a controller to somebody else who may
\* act, so accepting it leaves a controller, and no role falls below reviewer.
LEMMA AcceptStep ==
  ASSUME PeopleInv, NEW q \in Persons, NEW h \in Handovers, AcceptHandover(q, h)
  PROVE  PeopleInv'
  <1> DEFINE from == handover[h].from
  <1>1. /\ from \in Persons /\ role[from] = "controller"
        /\ handover[h].status = "pending" /\ handover[h].to = q
        /\ role' = [role EXCEPT ![from] = "reviewer", ![q] = "controller"]
        /\ handover' = [handover EXCEPT ![h].status = "accepted"]
        /\ invitation' = invitation
    BY DEF AcceptHandover, PeopleInv, OfferedByControllers
  <1>2. /\ role' \in [Persons -> Roles \cup {"none"}]
        /\ \A p \in Persons :
             role'[p] = IF p = q THEN "controller"
                        ELSE IF p = from THEN "reviewer" ELSE role[p]
    BY <1>1 DEF PeopleInv, PeopleTypes, Roles
  <1>3. /\ handover'[h].status = "accepted"
        /\ \A g \in Handovers : g # h => handover'[g] = handover[g]
        /\ handover' \in [Handovers -> [status : {"none", "pending", "accepted"},
                                        from : Persons \cup {None},
                                        to : Persons \cup {None}]]
    BY <1>1 DEF PeopleInv, PeopleTypes
  <1> HIDE DEF from
  <1>4. PeopleTypes' /\ InvitationsNamed'
    BY <1>1, <1>2, <1>3 DEF PeopleInv, PeopleTypes, InvitationsNamed
  <1>5. OneOfferEach'
    BY <1>3 DEF PeopleInv, OneOfferEach
  <1>6. AlwaysAController'
    BY <1>2 DEF AlwaysAController
  <1>7. OfferedByControllers'
    <2> SUFFICES ASSUME NEW g \in Handovers, handover'[g].status = "pending"
                 PROVE  /\ handover'[g].from \in Persons /\ handover'[g].to \in Persons
                        /\ role'[handover'[g].from] = "controller"
                        /\ role'[handover'[g].to] \in Workers
      BY DEF OfferedByControllers
    <2>1. g # h /\ handover'[g] = handover[g]
      BY <1>3
    <2>2. handover[g].from # from
      BY <1>1, <2>1 DEF PeopleInv, OneOfferEach, from
    <2> QED
      BY <1>2, <2>1, <2>2 DEF PeopleInv, OfferedByControllers, Workers
  <1> QED
    BY <1>4, <1>5, <1>6, <1>7 DEF PeopleInv

LEMMA OfferStep ==
  ASSUME PeopleInv, NEW p \in Persons, NEW h \in Handovers, NEW q \in Persons,
         OfferHandover(p, h, q)
  PROVE  PeopleInv'
  <1>1. /\ role[p] = "controller" /\ role[q] \in Workers
        /\ \A g \in Handovers : handover[g].status = "pending" => handover[g].from # p
        /\ handover' = [handover EXCEPT ![h] = [status |-> "pending", from |-> p, to |-> q]]
        /\ role' = role /\ invitation' = invitation
    BY DEF OfferHandover, May
  <1>2. /\ handover'[h] = [status |-> "pending", from |-> p, to |-> q]
        /\ \A g \in Handovers : g # h => handover'[g] = handover[g]
        /\ handover' \in [Handovers -> [status : {"none", "pending", "accepted"},
                                        from : Persons \cup {None},
                                        to : Persons \cup {None}]]
    BY <1>1 DEF PeopleInv, PeopleTypes
  <1>3. PeopleTypes' /\ InvitationsNamed' /\ AlwaysAController'
    BY <1>1, <1>2 DEF PeopleInv, PeopleTypes, InvitationsNamed, AlwaysAController
  <1>4. OneOfferEach'
    BY <1>1, <1>2 DEF PeopleInv, OneOfferEach
  <1>5. OfferedByControllers'
    BY <1>1, <1>2 DEF PeopleInv, OfferedByControllers
  <1> QED
    BY <1>3, <1>4, <1>5 DEF PeopleInv

LEMMA InviteStep ==
  ASSUME PeopleInv, NEW p \in Persons, NEW i \in Invitations, NEW r \in Roles,
         Invite(p, i, r)
  PROVE  PeopleInv'
  <1>1. /\ invitation' = [invitation EXCEPT ![i] = [status |-> "open", role |-> r]]
        /\ role' = role /\ handover' = handover
    BY DEF Invite
  <1>2. PeopleTypes' /\ InvitationsNamed'
    BY <1>1 DEF PeopleInv, PeopleTypes, InvitationsNamed
  <1> QED
    BY <1>1, <1>2
    DEF PeopleInv, OneOfferEach, AlwaysAController, OfferedByControllers

LEMMA JoinStep ==
  ASSUME PeopleInv, NEW q \in Persons, NEW i \in Invitations, Join(q, i)
  PROVE  PeopleInv'
  <1>1. /\ invitation[i].status = "open" /\ role[q] = "none"
        /\ role' = [role EXCEPT ![q] = invitation[i].role]
        /\ invitation' = [invitation EXCEPT ![i].status = "used"]
        /\ handover' = handover
    BY DEF Join
  <1>2. /\ role' \in [Persons -> Roles \cup {"none"}]
        /\ \A p \in Persons : p # q => role'[p] = role[p]
    BY <1>1 DEF PeopleInv, PeopleTypes, InvitationsNamed
  <1>3. PeopleTypes' /\ InvitationsNamed'
    BY <1>1, <1>2 DEF PeopleInv, PeopleTypes, InvitationsNamed
  <1>4. AlwaysAController'
    BY <1>1, <1>2 DEF PeopleInv, AlwaysAController
  <1>5. OfferedByControllers'
    BY <1>1, <1>2 DEF PeopleInv, OfferedByControllers, Workers
  <1> QED
    BY <1>1, <1>3, <1>4, <1>5 DEF PeopleInv, OneOfferEach

LEMMA PeopleStep ==
  ASSUME PeopleInv, Next
  PROVE  PeopleInv'
  <1>1. CASE UNCHANGED peopleVars
    BY <1>1 DEF peopleVars, PeopleInv, PeopleTypes, InvitationsNamed, OneOfferEach,
                AlwaysAController, OfferedByControllers
  <1> QED
    BY <1>1, PeopleFrame, InviteStep, JoinStep, OfferStep, AcceptStep

\* Nobody leaves a room, and nobody who may act loses the right to.
LEMMA RolesOnlyGrow ==
  ASSUME PeopleInv, Next
  PROVE  \A p \in Persons :
           /\ role[p] # "none" => role'[p] # "none"
           /\ role[p] \in Workers => role'[p] \in Workers
  <1>1. ASSUME NEW q \in Persons, NEW h \in Handovers, AcceptHandover(q, h)
        PROVE  \A p \in Persons : role'[p] = role[p] \/ role'[p] \in Workers
    BY <1>1 DEF AcceptHandover, PeopleInv, PeopleTypes, Workers
  <1>2. ASSUME NEW q \in Persons, NEW i \in Invitations, Join(q, i)
        PROVE  \A p \in Persons : role'[p] = role[p] \/ role[p] = "none"
    BY <1>2 DEF Join, PeopleInv, PeopleTypes
  <1>3. ASSUME NEW p \in Persons,
               \/ \E i \in Invitations, r \in Roles : Invite(p, i, r)
               \/ \E h \in Handovers, q \in Persons : OfferHandover(p, h, q)
        PROVE  role' = role
    BY <1>3 DEF Invite, OfferHandover
  <1> QED
    BY <1>1, <1>2, <1>3, PeopleFrame DEF Workers, peopleVars

TaskInv ==
  /\ TaskTypes
  /\ \A t \in Tasks : task[t].status # "none" =>
       task[t].assignee \in Persons /\ role[task[t].assignee] \in Workers

LEMMA TaskStep ==
  ASSUME PeopleInv, TaskInv, Next
  PROVE  TaskInv'
  <1>1. CASE UNCHANGED task
    BY <1>1, RolesOnlyGrow DEF TaskInv, TaskTypes
  <1>2. ASSUME NEW p \in Persons, NEW t \in Tasks, NEW q \in Persons, AddRequest(p, t, q),
               UNCHANGED role
        PROVE  TaskInv'
    BY <1>2 DEF AddRequest, TaskInv, TaskTypes
  <1>3. ASSUME NEW q \in Persons, NEW t \in Tasks, TransitionRequest(q, t),
               UNCHANGED role
        PROVE  TaskInv'
    <2>1. PICK s \in {"acknowledged", "resolved"} :
            task[t].status # "none" /\ task' = [task EXCEPT ![t].status = s]
      BY <1>3 DEF TransitionRequest
    <2> QED
      BY <1>3, <2>1 DEF TaskInv, TaskTypes
  <1> QED
    BY <1>1, <1>2, <1>3, TaskFrame

----------------------------------------------------------------------------
(* The event table                                                         *)

LEMMA PendingCounted ==
  ASSUME NEW transfers
  PROVE  IsFiniteSet(Pending(transfers)) /\ Cardinality(Pending(transfers)) \in Nat
  <1>1. Pending(transfers) \subseteq Transfers
    BY DEF Pending
  <1> QED
    BY <1>1, RoomTransfers, FS_Subset, FS_CardinalityType

LEMMA EventsStep ==
  ASSUME events \in 1..MaxEvents, SpaceKept, Next
  PROVE  events' \in 1..MaxEvents /\ SpaceKept'
  <1>1. Cardinality(Pending(transfer')) \in Nat
    BY PendingCounted
  <1>2. CASE UNCHANGED <<transfer, events>>
    BY <1>2 DEF SpaceKept, Pending
  <1>3. CASE Append
    BY <1>1, <1>3, RoomLimits DEF Append, SpaceKept
  <1> QED
    BY <1>2, <1>3, EventsFrame

----------------------------------------------------------------------------
(* Reports and the scenario                                                *)

ScriptInv == ReportTypes /\ LineageTypes /\ CheckpointsDistinct

LEMMA NewReportFacts ==
  ASSUME ReportTypes, NEW r \in Reports, NEW located \in BOOLEAN,
         NEW checkpoint \in ByHand..LastCheckpoint, NewReport(r, located, checkpoint)
  PROVE  /\ report[r].version = 0
         /\ report'[r] = [version |-> 1, located |-> located, checkpoint |-> checkpoint]
         /\ \A s \in Reports : s # r => report'[s] = report[s]
         /\ report' \in [Reports -> [version : 0..MaxRevisions, located : BOOLEAN,
                                     checkpoint : ByHand..LastCheckpoint]]
  BY RoomLimits DEF NewReport, Exists, ReportTypes

LEMMA NewRevisionFacts ==
  ASSUME ReportTypes, LineageTypes, NEW r \in Reports, NEW basis \in 0..MaxRevisions,
         NEW byHand \in BOOLEAN, NewRevision(r, basis, byHand)
  PROVE  /\ report'[r].version = report[r].version + 1
         /\ \A s \in Reports : report'[s].checkpoint = report[s].checkpoint
         /\ \A s \in Reports : s # r => report'[s] = report[s]
         /\ lineage'[r][report[r].version + 1] = [basis |-> basis, byHand |-> byHand]
         /\ \A s \in Reports : \A v \in 2..report[s].version :
              lineage'[s][v] = lineage[s][v]
         /\ LineageTypes' /\ (step' = step => ReportTypes')
  <1>1. /\ report \in [Reports -> [version : 0..MaxRevisions, located : BOOLEAN,
                                    checkpoint : ByHand..LastCheckpoint]]
        /\ report[r].version \in 0..MaxRevisions /\ report[r].version < MaxRevisions
        /\ \A s \in Reports : report[s].version \in 0..MaxRevisions
        /\ lineage \in [Reports -> [1..MaxRevisions -> Origins]]
        /\ report' = [report EXCEPT ![r].version = @ + 1]
    BY DEF ReportTypes, LineageTypes, NewRevision
  <1>2. /\ report'[r].version = report[r].version + 1
        /\ \A s \in Reports : report'[s].checkpoint = report[s].checkpoint
        /\ \A s \in Reports : s # r => report'[s] = report[s]
        /\ report' \in [Reports -> [version : 0..MaxRevisions, located : BOOLEAN,
                                     checkpoint : ByHand..LastCheckpoint]]
    <2>1. report' = [report EXCEPT ![r] = [report[r] EXCEPT !.version = @ + 1]]
      BY <1>1
    <2>2. report[r].version + 1 \in 0..MaxRevisions
      BY <1>1, RoomLimits
    <2>3. report[r] \in [version : 0..MaxRevisions, located : BOOLEAN,
                         checkpoint : ByHand..LastCheckpoint]
      BY <1>1
    <2>4. [report[r] EXCEPT !.version = @ + 1] \in
            [version : 0..MaxRevisions, located : BOOLEAN, checkpoint : ByHand..LastCheckpoint]
      BY <2>2, <2>3
    <2>5. report'[r] = [report[r] EXCEPT !.version = @ + 1]
      BY <1>1, <2>1
    <2>6. /\ report'[r].version = report[r].version + 1
          /\ report'[r].checkpoint = report[r].checkpoint
      BY <2>3, <2>5
    <2>7. \A s \in Reports : s # r => report'[s] = report[s]
      BY <1>1, <2>1
    <2>8. report' \in [Reports -> [version : 0..MaxRevisions, located : BOOLEAN,
                                   checkpoint : ByHand..LastCheckpoint]]
      BY <1>1, <2>1, <2>4
    <2> QED
      BY <2>6, <2>7, <2>8
  <1> DEFINE next == report[r].version + 1
             origin == [basis |-> basis, byHand |-> byHand]
             line == [lineage[r] EXCEPT ![next] = origin]
  <1>3. next \in 1..MaxRevisions /\ origin \in Origins
    BY <1>1, RoomLimits DEF Origins
  <1>4. lineage' = [lineage EXCEPT ![r] = line]
    BY DEF NewRevision
  <1>5. /\ line \in [1..MaxRevisions -> Origins] /\ line[next] = origin
        /\ \A v \in 1..MaxRevisions : v # next => line[v] = lineage[r][v]
    BY <1>1, <1>3
  <1> HIDE DEF line
  <1>6. /\ lineage' \in [Reports -> [1..MaxRevisions -> Origins]]
        /\ lineage'[r] = line
        /\ \A s \in Reports : s # r => lineage'[s] = lineage[s]
    BY <1>1, <1>4, <1>5
  <1>7. \A s \in Reports : \A v \in 2..report[s].version : lineage'[s][v] = lineage[s][v]
    <2> SUFFICES ASSUME NEW s \in Reports, NEW v \in 2..report[s].version
                 PROVE  lineage'[s][v] = lineage[s][v]
      OBVIOUS
    <2>1. CASE s = r
      <3>1. v \in 1..MaxRevisions /\ v # next
        BY <1>1, <2>1, RoomLimits
      <3> QED
        BY <1>5, <1>6, <2>1, <3>1
    <2> QED
      BY <1>6, <2>1
  <1> QED
    BY <1>2, <1>5, <1>6, <1>7 DEF ReportTypes, LineageTypes

\* A version keeps its origin, so what the script corrected stays corrected by it.
LEMMA ScriptedStays ==
  ASSUME ReportTypes, ReportTypes', NEW s \in Reports,
         report'[s].version >= report[s].version,
         \A v \in 2..report[s].version : lineage'[s][v] = lineage[s][v]
  PROVE  CorrectedByScript(s) => CorrectedByScript(s)'
  <1>1. report[s].version \in 0..MaxRevisions /\ report'[s].version \in 0..MaxRevisions
    BY DEF ReportTypes
  <1>2. \A v \in 2..report[s].version : v \in 2..report'[s].version
    BY <1>1, RoomLimits
  <1> QED
    BY <1>2 DEF CorrectedByScript

\* A report entered by hand, or a correction, leaves the script's reports alone.
LEMMA ByHandStep ==
  ASSUME ScriptInv, NEW r \in Reports, step' = step,
         \/ (\E located \in BOOLEAN : NewReport(r, located, ByHand)) /\ lineage' = lineage
         \/ /\ Exists(r)
            /\ \E basis \in 0..MaxRevisions : NewRevision(r, basis, TRUE)
  PROVE  ScriptInv'
  <1>0. ReportTypes /\ LineageTypes /\ ByHand \in ByHand..LastCheckpoint
    BY DEF ScriptInv, ByHand, LastCheckpoint
  <1>1. CASE (\E located \in BOOLEAN : NewReport(r, located, ByHand)) /\ lineage' = lineage
    <2>1. PICK located \in BOOLEAN : NewReport(r, located, ByHand)
      BY <1>1
    <2>2. /\ report[r].version = 0
          /\ report'[r] = [version |-> 1, located |-> located, checkpoint |-> ByHand]
          /\ \A s \in Reports : s # r => report'[s] = report[s]
          /\ ReportTypes' /\ LineageTypes'
      BY <1>0, <1>1, <2>1, NewReportFacts DEF ReportTypes, LineageTypes
    <2>3. \A s \in Reports : report[s].version \in Nat /\ report'[s].version >= report[s].version
      BY <1>0, <2>2, RoomLimits DEF ReportTypes
    <2>4. \A s \in Reports : CorrectedByScript(s) => CorrectedByScript(s)'
      BY <1>0, <1>1, <2>2, <2>3, ScriptedStays
    <2>5. CheckpointsDistinct'
      BY <2>2, <2>4 DEF ScriptInv, ReportTypes, CheckpointsDistinct, Exists, Correction,
                        Corrected, ByHand, LastCheckpoint
    <2> QED
      BY <2>2, <2>5 DEF ScriptInv
  <1>2. CASE Exists(r) /\ \E basis \in 0..MaxRevisions : NewRevision(r, basis, TRUE)
    <2>0. PICK basis \in 0..MaxRevisions : NewRevision(r, basis, TRUE)
      BY <1>2
    <2>1. /\ report'[r].version = report[r].version + 1
          /\ \A s \in Reports : report'[s].checkpoint = report[s].checkpoint
          /\ \A s \in Reports : s # r => report'[s] = report[s]
          /\ \A s \in Reports : \A v \in 2..report[s].version :
               lineage'[s][v] = lineage[s][v]
          /\ ReportTypes' /\ LineageTypes'
      BY <1>0, <2>0, NewRevisionFacts
    <2>2. \A s \in Reports : report[s].version \in Nat /\ report'[s].version >= report[s].version
      BY <1>0, <2>1, RoomLimits DEF ReportTypes
    <2>3. \A s \in Reports : CorrectedByScript(s) => CorrectedByScript(s)'
      BY <1>0, <2>1, <2>2, ScriptedStays
    <2>4. CheckpointsDistinct'
      BY <1>0, <2>1, <2>2, <2>3, RoomLimits
      DEF ScriptInv, ReportTypes, CheckpointsDistinct, Exists, Correction, Corrected,
          ByHand, LastCheckpoint
    <2> QED
      BY <2>1, <2>4 DEF ScriptInv
  <1> QED
    BY <1>1, <1>2

LEMMA AdvanceStep ==
  ASSUME ScriptInv, NEW p \in Persons, AdvanceScenario(p)
  PROVE  ScriptInv'
  <1> USE DEF ByHand, LastCheckpoint, Correction, Corrected
  <1>1. ReportTypes /\ LineageTypes /\ step' = step + 1 /\ step \in -1..4
    BY DEF ScriptInv, AdvanceScenario, ReportTypes
  <1>2. ASSUME step' # Correction, NEW r \in Reports, NewReport(r, TRUE, step'),
               lineage' = lineage
        PROVE  ScriptInv'
    <2>0. step' \in -1..5
      BY <1>1
    <2>1. /\ report[r].version = 0
          /\ report'[r] = [version |-> 1, located |-> TRUE, checkpoint |-> step']
          /\ \A s \in Reports : s # r => report'[s] = report[s]
          /\ ReportTypes'
      BY <1>1, <1>2, <2>0, RoomLimits DEF NewReport, Exists, ReportTypes
    <2>1a. \A s \in Reports : report[s].version \in Nat /\ report'[s].version >= report[s].version
      BY <1>1, <2>1, RoomLimits DEF ReportTypes
    <2>1b. \A s \in Reports : CorrectedByScript(s) => CorrectedByScript(s)'
      BY <1>1, <1>2, <2>1, <2>1a, ScriptedStays
    <2>2. \A s \in Reports : report[s].checkpoint # ByHand =>
            s # r /\ report[s].checkpoint \in (0..step) \ {Correction}
      BY <1>1, <2>1 DEF ScriptInv, CheckpointsDistinct, Exists
    <2>3. \A s \in Reports : report'[s].checkpoint # ByHand =>
            /\ report'[s].version > 0
            /\ report'[s].checkpoint \in (0..step') \ {Correction}
            /\ \A s2 \in Reports : report'[s2].checkpoint = report'[s].checkpoint => s2 = s
      BY <1>1, <1>2, <2>1, <2>2 DEF ScriptInv, CheckpointsDistinct, Exists
    <2>4. \A k \in (0..step') \ {Correction} : \E s \in Reports : report'[s].checkpoint = k
      <3> SUFFICES ASSUME NEW k \in (0..step') \ {Correction}
                   PROVE  \E s \in Reports : report'[s].checkpoint = k
        OBVIOUS
      <3>1. CASE k = step'
        BY <2>1, <3>1
      <3>2. CASE k # step'
        <4>1. k \in (0..step) \ {Correction}
          BY <1>1, <3>2
        <4>2. PICK s \in Reports : report[s].checkpoint = k
          BY <4>1 DEF ScriptInv, CheckpointsDistinct
        <4> QED
          BY <1>1, <2>1, <2>2, <4>1, <4>2
      <3> QED
        BY <3>1, <3>2
    <2>5. step' >= Correction =>
            \E s \in Reports : report'[s].checkpoint = Corrected /\ CorrectedByScript(s)'
      BY <1>1, <1>2, <2>1, <2>1b, <2>2 DEF ScriptInv, CheckpointsDistinct
    <2>6. LineageTypes'
      BY <1>1, <1>2 DEF LineageTypes
    <2> QED
      BY <2>1, <2>3, <2>4, <2>5, <2>6 DEF ScriptInv, CheckpointsDistinct, Exists
  <1>3. ASSUME step' = Correction, NEW r \in Reports, report[r].checkpoint = Corrected,
               NewRevision(r, report[r].version, FALSE)
        PROVE  ScriptInv'
    <2>0. report[r].version \in 0..MaxRevisions
      BY <1>1 DEF ReportTypes
    <2>1. /\ report'[r].version = report[r].version + 1
          /\ \A s \in Reports : report'[s].checkpoint = report[s].checkpoint
          /\ \A s \in Reports : s # r => report'[s] = report[s]
          /\ ~lineage'[r][report[r].version + 1].byHand
          /\ \A s \in Reports : \A v \in 2..report[s].version :
               lineage'[s][v] = lineage[s][v]
          /\ report' \in [Reports -> [version : 0..MaxRevisions, located : BOOLEAN,
                                       checkpoint : ByHand..LastCheckpoint]]
          /\ LineageTypes'
      <3>1. NewRevision(r, report[r].version, FALSE)
        BY <1>3
      <3>2. /\ lineage'[r][report[r].version + 1] = [basis |-> report[r].version, byHand |-> FALSE]
            /\ LineageTypes'
            /\ \A s \in Reports : \A v \in 2..report[s].version :
                 lineage'[s][v] = lineage[s][v]
        BY <1>1, <2>0, <3>1, NewRevisionFacts
      <3>3. report' = [report EXCEPT ![r].version = @ + 1] /\ report[r].version < MaxRevisions
        BY <3>1 DEF NewRevision
      <3> QED
        BY <1>1, <3>2, <3>3, RoomLimits DEF ReportTypes
    <2>1a. ReportTypes' /\ LineageTypes'
      BY <1>1, <2>1 DEF ReportTypes
    <2>2. \A s \in Reports : report[s].version \in Nat /\ report'[s].version >= report[s].version
      BY <1>1, <2>1, RoomLimits DEF ReportTypes
    <2>3. report'[r].version \in 2..report'[r].version /\ CorrectedByScript(r)'
      BY <1>3, <2>1, <2>2 DEF ScriptInv, CheckpointsDistinct, Exists, CorrectedByScript,
                              ByHand, Corrected
    <2>4. \A k : k \in (0..step') \ {Correction} => k \in (0..step) \ {Correction}
      BY <1>1, <1>3
    <2>5. CheckpointsDistinct'
      BY <1>1, <1>3, <2>1, <2>2, <2>3, <2>4 DEF ScriptInv, CheckpointsDistinct, Exists
    <2> QED
      BY <2>1a, <2>5 DEF ScriptInv
  <1>4. ~ (step' = Correction /\ \A r \in Reports : report[r].checkpoint # Corrected)
    BY <1>1 DEF ScriptInv, CheckpointsDistinct
  <1> QED
    BY <1>2, <1>3, <1>4 DEF AdvanceScenario

LEMMA ScriptStep ==
  ASSUME ScriptInv, posts \subseteq Corrections, Next
  PROVE  ScriptInv'
  <1>1. CASE UNCHANGED <<step, report, lineage>>
    BY <1>1 DEF ScriptInv, ReportTypes, LineageTypes, CheckpointsDistinct,
                CorrectedByScript, Exists
  <1>2. ASSUME NEW p \in Persons, NEW r \in Reports, NEW located \in BOOLEAN,
               AddReport(p, r, located)
        PROVE  ScriptInv'
    BY <1>2, ByHandStep DEF AddReport
  <1>3. ASSUME NEW p \in Persons, NEW q \in posts, ReviseReport(p, q)
        PROVE  ScriptInv'
    BY <1>3, ByHandStep DEF ReviseReport, Corrections
  <1> QED
    BY <1>1, <1>2, <1>3, ScriptFrame, AdvanceStep

----------------------------------------------------------------------------
(* Corrections                                                             *)

PageInv == PageTypes /\ PostsHonest

\* What pages show and post are versions, and a posted correction is based on the
\* version it tells the service to expect.
LEMMA PageStepKeeps ==
  ASSUME PageInv, ReportTypes, NEW p \in Persons, PageStep(p)
  PROVE  PageInv'
  <1>1. /\ view \in [Persons -> Versions] /\ draft \in [Persons -> Drafts]
        /\ posts \subseteq Corrections /\ PostsHonest
        /\ Shown \in Versions /\ view[p] \in Versions
        /\ \A r \in Reports : view[p][r] \in 0..MaxRevisions
        /\ draft[p] \in Drafts
    BY DEF PageInv, PageTypes, ReportTypes, Shown, Versions
  <1>2. CASE Read(p)
    BY <1>1, <1>2 DEF Read, PageInv, PageTypes, PostsHonest
  <1>3. NoDraft \in Drafts
    BY RoomLimits DEF NoDraft, Drafts
  <1>4. CASE CloseRevision(p)
    BY <1>1, <1>3, <1>4 DEF CloseRevision, PageInv, PageTypes, PostsHonest
  <1>5. CASE PostRevision(p)
    <2> DEFINE q == [by |-> p, report |-> draft[p].report,
                     basis |-> draft[p].baseline,
                     expectedVersion |-> draft[p].baseline]
    <2>1. posts' = posts \cup {q} /\ draft[p].report \in Reports /\ UNCHANGED <<view, draft>>
      BY <1>5 DEF PostRevision
    <2>2. q \in Corrections /\ q.basis = q.expectedVersion
      BY <1>1, <2>1 DEF Corrections, Drafts
    <2> HIDE DEF q
    <2> QED
      BY <1>1, <2>1, <2>2 DEF PageInv, PageTypes, PostsHonest
  <1>6. CASE Rebase(p)
    <2>1. [report |-> draft[p].report, baseline |-> draft[p].offered, offered |-> 0]
            \in Drafts
      BY <1>1, RoomLimits DEF Drafts
    <2> QED
      BY <1>1, <1>6, <2>1 DEF Rebase, PageInv, PageTypes, PostsHonest
  <1>7. ASSUME NEW r \in Reports, OpenRevision(p, r)
        PROVE  PageInv'
    <2>1. [report |-> r, baseline |-> view[p][r], offered |-> 0] \in Drafts
      BY <1>1, RoomLimits DEF Drafts, Reports
    <2> QED
      BY <1>1, <1>7, <2>1 DEF OpenRevision, PageInv, PageTypes, PostsHonest
  <1>8. ASSUME NEW q \in posts, RefuseRevision(p, q)
        PROVE  PageInv'
    <2>1. /\ q.report \in Reports /\ posts' = posts \ {q}
          /\ \/ UNCHANGED <<view, draft>>
             \/ /\ \E shown \in {view[p], Shown} : view' = [view EXCEPT ![p] = shown]
                /\ draft' = [draft EXCEPT ![p].offered = view'[p][q.report]]
      BY <1>1, <1>8 DEF RefuseRevision, Corrections
    <2>2. view' \in [Persons -> Versions] /\ view'[p][q.report] \in 0..MaxRevisions
      BY <1>1, <2>1 DEF Versions
    <2>3. [draft[p] EXCEPT !.offered = view'[p][q.report]] \in Drafts
      BY <1>1, <2>2 DEF Drafts
    <2>4. draft' \in [Persons -> Drafts]
      BY <1>1, <2>1, <2>3
    <2> QED
      BY <1>1, <2>1, <2>2, <2>4 DEF PageInv, PageTypes, PostsHonest
  <1> QED
    BY <1>2, <1>4, <1>5, <1>6, <1>7, <1>8 DEF PageStep

LEMMA PagesStep ==
  ASSUME PageInv, ReportTypes, ReportTypes', Next
  PROVE  PageInv'
  <1>1. CASE UNCHANGED pageVars
    BY <1>1 DEF pageVars, PageInv, PageTypes, PostsHonest
  <1>2. ASSUME NEW p \in Persons, NEW q \in posts, ReviseReport(p, q)
        PROVE  PageInv'
    <2>1. posts' = posts \ {q} /\ Accepted(p)
      BY <1>2 DEF ReviseReport
    <2>2. [r \in Reports |-> report'[r].version] \in Versions
      BY DEF ReportTypes, Versions
    <2>3. NoDraft \in Drafts
      BY RoomLimits DEF NoDraft, Drafts
    <2> QED
      BY <2>1, <2>2, <2>3 DEF Accepted, PageInv, PageTypes, PostsHonest
  <1> QED
    BY <1>1, <1>2, PagesFrame, PageStepKeeps

\* A correction is based on the version before it, and versions keep their origins.
LEMMA RevisionFollows ==
  ASSUME ReportTypes, LineageTypes, CorrectionsFollowOn, NEW r \in Reports, NEW byHand \in BOOLEAN,
         NewRevision(r, report[r].version, byHand)
  PROVE  CorrectionsFollowOn'
  <1>1. \A s \in Reports : report[s].version \in 0..MaxRevisions
    BY DEF ReportTypes
  <1>2. /\ report'[r].version = report[r].version + 1
        /\ \A s \in Reports : s # r => report'[s] = report[s]
        /\ lineage'[r][report[r].version + 1].basis = report[r].version
        /\ \A s \in Reports : \A v \in 2..report[s].version :
             lineage'[s][v] = lineage[s][v]
    <2>1. report[r].version \in 0..MaxRevisions
      BY <1>1
    <2>2. lineage'[r][report[r].version + 1] = [basis |-> report[r].version, byHand |-> byHand]
      BY <2>1, NewRevisionFacts
    <2> QED
      BY <2>1, <2>2, NewRevisionFacts
  <1> SUFFICES ASSUME NEW s \in Reports, NEW v \in 2..report'[s].version
               PROVE  lineage'[s][v].basis = v - 1
    BY DEF CorrectionsFollowOn
  <1>3. CASE v \in 2..report[s].version
    BY <1>2, <1>3 DEF CorrectionsFollowOn
  <1>4. CASE v \notin 2..report[s].version
    <2>1. s = r /\ v = report[r].version + 1
      BY <1>1, <1>2, <1>4, RoomLimits
    <2> QED
      BY <1>1, <1>2, <2>1, RoomLimits
  <1> QED
    BY <1>3, <1>4

LEMMA LineageStep ==
  ASSUME ReportTypes, LineageTypes, CorrectionsFollowOn, PageInv, Next
  PROVE  CorrectionsFollowOn'
  <1>0. \A s \in Reports : report[s].version \in 0..MaxRevisions
    BY DEF ReportTypes
  <1>1. CASE UNCHANGED <<step, report, lineage>>
    BY <1>1 DEF CorrectionsFollowOn
  <1>2. ASSUME NEW r \in Reports, lineage' = lineage,
               \E located \in BOOLEAN, k \in Int : NewReport(r, located, k)
        PROVE  CorrectionsFollowOn'
    <2>1. report'[r].version = 1 /\ \A s \in Reports : s # r => report'[s] = report[s]
      BY <1>2 DEF NewReport, ReportTypes
    <2> QED
      BY <1>2, <2>1 DEF CorrectionsFollowOn
  <1>3. ASSUME NEW p \in Persons, NEW q \in posts, ReviseReport(p, q)
        PROVE  CorrectionsFollowOn'
    <2>1. /\ q.report \in Reports /\ q.basis = report[q.report].version
          /\ NewRevision(q.report, q.basis, TRUE)
      BY <1>3 DEF ReviseReport, PageInv, PageTypes, PostsHonest, Corrections
    <2> QED
      BY <2>1, RevisionFollows
  <1>4. ASSUME NEW p \in Persons, AdvanceScenario(p)
        PROVE  CorrectionsFollowOn'
    <2>1. step' \in Int
      BY <1>4 DEF ReportTypes, AdvanceScenario
    <2>2. ASSUME NEW r \in Reports, NewRevision(r, report[r].version, FALSE)
          PROVE  CorrectionsFollowOn'
      BY <2>2, RevisionFollows
    <2>3. \/ \E r \in Reports : NewReport(r, TRUE, step') /\ lineage' = lineage
          \/ \E r \in Reports : NewRevision(r, report[r].version, FALSE)
          \/ UNCHANGED <<report, lineage>>
      BY <1>4 DEF AdvanceScenario
    <2>4. CASE UNCHANGED <<report, lineage>>
      BY <2>4 DEF CorrectionsFollowOn
    <2> QED
      BY <1>2, <2>1, <2>2, <2>3, <2>4
  <1>5. ASSUME NEW p \in Persons, NEW r \in Reports, NEW located \in BOOLEAN,
               AddReport(p, r, located)
        PROVE  CorrectionsFollowOn'
    <2>1. NewReport(r, located, ByHand) /\ lineage' = lineage /\ ByHand \in Int
      BY <1>5 DEF AddReport, ByHand
    <2> QED
      BY <1>2, <2>1
  <1> QED
    BY <1>1, <1>3, <1>4, <1>5, ScriptFrame

----------------------------------------------------------------------------
(* The transfer                                                            *)

TransferInv == TransferTypes /\ OnePending /\ HandlersKnow /\ RecordIsTruthful

ByKnown ==
  \A t \in Pending(transfer) :
    transfer[t].by \in Persons /\ role[transfer[t].by] # "none"

\* A transfer starts while none is pending, so no handler is executing, and with
\* the versions the room has just recorded.
LEMMA ReserveStep ==
  ASSUME TransferInv, ReportTypes, NEW p \in Persons, NEW t \in Transfers,
         NEW selected \in SUBSET Reports, Reserve(p, t, selected)
  PROVE  /\ TransferInv'
         /\ \A u \in Pending(transfer)' : u = t /\ transfer'[u].by = p /\ role[p] # "none"
  <1> DEFINE versions == [r \in Reports |-> IF r \in selected THEN report[r].version ELSE 0]
             entry == [status |-> "pending", by |-> p, outcome |-> "none",
                       versions |-> versions]
             handler == [pc |-> "reserved", transportStatus |-> "not_sent",
                         payload |-> versions]
  <1>0. versions \in Versions
    BY RoomLimits DEF ReportTypes, Versions
  <1>1. entry \in Entries /\ handler \in Executions
    BY <1>0 DEF Entries, Executions
  <1>2. /\ transfer' = [transfer EXCEPT ![t] = entry]
        /\ transfer'[t] = entry
        /\ \A u \in Transfers : u # t => transfer'[u] = transfer[u]
        /\ Pending(transfer) = {} /\ transfer[t].status = "none"
        /\ role[p] = "controller" /\ socket' = socket
    BY DEF Reserve, ReserveTak, May, TransferInv, TransferTypes
  <1>3. /\ send' = [send EXCEPT ![t] = handler]
        /\ send'[t] = handler
        /\ \A u \in Transfers : u # t => send'[u] = send[u]
    BY <1>2 DEF Reserve, TransferInv, TransferTypes
  <1>3a. /\ entry.status = "pending" /\ entry.by = p /\ entry.versions = versions
         /\ handler.pc = "reserved" /\ handler.transportStatus = "not_sent"
         /\ handler.payload = versions
    OBVIOUS
  <1> HIDE DEF versions, entry, handler
  <1>4. TransferTypes'
    BY <1>1, <1>2, <1>3 DEF TransferInv, TransferTypes
  <1>5. \A u \in Transfers : send[u].pc = "idle" /\ transfer[u].status # "pending"
    BY <1>2 DEF Pending, TransferInv, TransferTypes, HandlersKnow
  <1>6. \A u \in Pending(transfer)' : u = t
    BY <1>2, <1>5 DEF Pending
  <1>7. socket[t].taken = "nothing"
    BY <1>2 DEF TransferInv, RecordIsTruthful, SentAsRecorded
  <1>8. HandlersKnow'
    BY <1>2, <1>3, <1>3a, <1>5, <1>7 DEF HandlersKnow
  <1>9. RecordIsTruthful'
    BY <1>2, <1>3a, <1>7 DEF TransferInv, RecordIsTruthful, SentAsRecorded, Reported
  <1> QED
    BY <1>2, <1>3a, <1>4, <1>6, <1>8, <1>9 DEF TransferInv, OnePending

\* The steps of the handler itself.
LEMMA HandlerStep ==
  ASSUME TransferInv, NEW t \in Transfers, TransferStep(t)
  PROVE  /\ TransferInv'
         /\ Pending(transfer)' \subseteq Pending(transfer)
         /\ \A u \in Transfers : transfer'[u].by = transfer[u].by
  <1>1. ASSUME GiveUp(t) \/ BeginWrite(t) \/ WriteFails(t) \/ WriteCompletes(t)
        PROVE  TransferInv' /\ UNCHANGED transfer
    <2> DEFINE Moved ==
            /\ transfer' = transfer /\ socket' = socket
            /\ send[t].pc \in {"reserved", "writing"}
            /\ send' \in [Transfers -> Executions]
            /\ \A u \in Transfers : u # t => send'[u] = send[u]
            /\ send'[t].payload = send[t].payload
            /\ send'[t].pc \in {"returned", "writing"}
            /\ \/ /\ send'[t].pc = "writing"
                  /\ send'[t].transportStatus = "delivery_unknown"
               \/ /\ send'[t].pc = "returned"
                  /\ send'[t].transportStatus = send[t].transportStatus
               \/ /\ send'[t].pc = "returned" /\ socket[t].taken = "all"
                  /\ send'[t].transportStatus = "written_to_tls_socket"
    <2>1. Moved
      <3>1. send \in [Transfers -> Executions] /\ send[t] \in Executions
        BY DEF TransferInv, TransferTypes
      <3>2. ASSUME GiveUp(t) \/ WriteFails(t)
            PROVE  Moved
        BY <3>1, <3>2 DEF GiveUp, WriteFails, Executions, roomVars
      <3>3. ASSUME BeginWrite(t)
            PROVE  Moved
        BY <3>1, <3>3 DEF BeginWrite, Executions, roomVars
      <3>4. ASSUME WriteCompletes(t)
            PROVE  Moved
        BY <3>1, <3>4 DEF WriteCompletes, Executions, roomVars
      <3> QED
        BY <1>1, <3>2, <3>3, <3>4
    <2>2. TransferTypes' /\ OnePending' /\ RecordIsTruthful'
      BY <2>1 DEF TransferInv, TransferTypes, OnePending, Pending, RecordIsTruthful,
                  SentAsRecorded, Reported
    <2>3. HandlersKnow'
      BY <2>1 DEF TransferInv, HandlersKnow
    <2> QED
      BY <2>1, <2>2, <2>3 DEF TransferInv
  <1>2. ASSUME Transmit(t)
        PROVE  TransferInv' /\ UNCHANGED transfer
    <2>1. /\ transfer' = transfer /\ send' = send /\ send[t].pc = "writing"
          /\ socket' \in [Transfers ->
               [taken : {"nothing", "part", "all"}, versions : Versions]]
          /\ \A u \in Transfers : u # t => socket'[u] = socket[u]
          /\ socket'[t].versions = send[t].payload
      <3>1. send[t].payload \in Versions
        BY DEF TransferInv, TransferTypes, Executions
      <3>2. PICK taken \in {"part", "all"} :
              socket' = [socket EXCEPT ![t] = [taken |-> taken, versions |-> send[t].payload]]
        BY <1>2 DEF Transmit
      <3>3. transfer' = transfer /\ send' = send /\ send[t].pc = "writing"
        BY <1>2 DEF Transmit, roomVars
      <3> QED
        BY <3>1, <3>2, <3>3 DEF TransferInv, TransferTypes
    <2>2. /\ transfer[t].status = "pending" /\ send[t].payload = transfer[t].versions
          /\ send[t].transportStatus = "delivery_unknown"
      BY <2>1 DEF TransferInv, HandlersKnow
    <2>3. TransferTypes' /\ OnePending'
      BY <2>1 DEF TransferInv, TransferTypes, OnePending, Pending
    <2>4. HandlersKnow'
      BY <2>1, <2>2 DEF TransferInv, HandlersKnow
    <2>5. RecordIsTruthful'
      BY <2>1, <2>2 DEF TransferInv, RecordIsTruthful, SentAsRecorded, Reported
    <2> QED
      BY <2>1, <2>3, <2>4, <2>5 DEF TransferInv
  <1>3. ASSUME Finish(t)
        PROVE  /\ TransferInv' /\ Pending(transfer)' \subseteq Pending(transfer)
               /\ \A u \in Transfers : transfer'[u].by = transfer[u].by
    <2>1. /\ send[t].pc = "returned" /\ transfer[t].status = "pending"
          /\ transfer' = [transfer EXCEPT ![t].status = "completed",
                                          ![t].outcome = send[t].transportStatus]
          /\ send' = [send EXCEPT ![t] = Idle] /\ socket' = socket
      BY <1>3 DEF Finish, FinishTak
    <2>1a. transfer[t] \in Entries /\ send[t] \in Executions
      BY DEF TransferInv, TransferTypes
    <2>2. /\ transfer' \in [Transfers -> Entries]
          /\ transfer'[t].status = "completed"
          /\ transfer'[t].outcome = send[t].transportStatus
          /\ transfer'[t].versions = transfer[t].versions
          /\ transfer'[t].by = transfer[t].by
          /\ \A u \in Transfers : u # t => transfer'[u] = transfer[u]
      BY <2>1, <2>1a DEF TransferInv, TransferTypes, Entries, Executions
    <2>3. NoVersions \in Versions
      BY RoomLimits DEF NoVersions, Versions
    <2>4. /\ TransferTypes' /\ send'[t].pc = "idle"
          /\ \A u \in Transfers : u # t => send'[u] = send[u]
      BY <2>1, <2>2, <2>3 DEF TransferInv, TransferTypes, Idle, Executions
    <2>5. Pending(transfer)' \subseteq Pending(transfer)
      BY <2>2 DEF Pending
    <2>6. OnePending'
      BY <2>5 DEF TransferInv, OnePending
    <2>7. HandlersKnow'
      BY <2>1, <2>2, <2>4 DEF TransferInv, HandlersKnow
    <2>8. RecordIsTruthful'
      BY <2>1, <2>2 DEF TransferInv, HandlersKnow, RecordIsTruthful, SentAsRecorded,
                        Reported
    <2> QED
      BY <2>2, <2>4, <2>5, <2>6, <2>7, <2>8 DEF TransferInv
  <1> QED
    BY <1>1, <1>2, <1>3 DEF TransferStep, Pending

LEMMA TransferInvStep ==
  ASSUME TransferInv, ReportTypes, Next
  PROVE  TransferInv'
  <1>1. CASE UNCHANGED <<transfer, send, socket>>
    BY <1>1 DEF TransferInv, TransferTypes, OnePending, Pending, HandlersKnow,
                RecordIsTruthful, SentAsRecorded, Reported
  <1>2. CASE Crash
    <2>1. /\ transfer' = transfer /\ socket' = socket
          /\ send' = [u \in Transfers |-> Idle]
      BY <1>2 DEF Crash, roomVars
    <2>2. NoVersions \in Versions
      BY RoomLimits DEF NoVersions, Versions
    <2>3. TransferTypes' /\ HandlersKnow'
      BY <2>1, <2>2 DEF TransferInv, TransferTypes, HandlersKnow, Idle, Executions
    <2>4. OnePending' /\ RecordIsTruthful'
      BY <2>1 DEF TransferInv, OnePending, Pending, RecordIsTruthful, SentAsRecorded,
                  Reported
    <2> QED
      BY <2>3, <2>4 DEF TransferInv
  <1> QED
    BY <1>1, <1>2, TransferFrame, ReserveStep, HandlerStep

\* Whoever began a transfer is still in the room to finish it.
LEMMA ByKnownStep ==
  ASSUME TransferInv, ReportTypes, PeopleInv, ByKnown, Next
  PROVE  ByKnown'
  <1>1. \A p \in Persons : role[p] # "none" => role'[p] # "none"
    BY RolesOnlyGrow
  <1>2. ASSUME NEW p \in Persons, NEW t \in Transfers, NEW selected \in SUBSET Reports,
               Reserve(p, t, selected)
        PROVE  ByKnown'
    BY <1>1, <1>2, ReserveStep DEF ByKnown
  <1>3. ASSUME NEW t \in Transfers, TransferStep(t)
        PROVE  ByKnown'
    BY <1>1, <1>3, HandlerStep DEF ByKnown, Pending
  <1>4. CASE UNCHANGED transfer
    BY <1>1, <1>4 DEF ByKnown, Pending
  <1>5. Crash => UNCHANGED transfer
    BY DEF Crash, roomVars
  <1> QED
    BY <1>2, <1>3, <1>4, <1>5, TransferFrame

----------------------------------------------------------------------------
(* The room                                                                *)

Groups ==
  /\ ClockInv /\ PeopleInv /\ TaskInv /\ ScriptInv /\ TransferInv /\ ByKnown
  /\ events \in 1..MaxEvents /\ SpaceKept
  /\ PageInv /\ CorrectionsFollowOn /\ crashes \in 0..MaxCrashes

\* The invariant the runs check, put together from the groups.
LEMMA InvIsGroups == RoomInv <=> Groups
  <1>1. RoomInv => Groups
    BY TypeGroups
    DEF RoomInv, Groups, ClockInv, PeopleInv, TaskInv, ScriptInv, PageInv, TransferInv,
        ByKnown,
        NamesKnown, OfferedByControllers, InvitationsNamed, HandoverStaysAcceptable,
        WorkStaysWithAWorker
  <1>2. Groups => RoomInv
    BY TypeGroups
    DEF RoomInv, Groups, ClockInv, PeopleInv, TaskInv, ScriptInv, PageInv, TransferInv,
        ByKnown,
        NamesKnown, OfferedByControllers, InvitationsNamed, HandoverStaysAcceptable,
        WorkStaysWithAWorker
  <1> QED
    BY <1>1, <1>2

LEMMA CrashesStep ==
  ASSUME crashes \in 0..MaxCrashes, Next
  PROVE  crashes' \in 0..MaxCrashes
  <1>1. ASSUME NEW t \in Transfers, TransferStep(t)
        PROVE  crashes' = crashes
    BY <1>1, TransferStepFrame
  <1> QED
    BY <1>1, StepKinds, ReserveFrame, TransferBound DEF Crash, transferVars

LEMMA InitGroups == Init => Groups
  <1> SUFFICES ASSUME Init PROVE Groups
    OBVIOUS
  <1> USE DEF Init, RoomInit
  <1>1. ClockInv
    BY RoomLimits, RoomClock DEF ClockInv, ClockTypes, ClockAccounts, MayLose, MayGain
  <1>2. PeopleInv
    BY RoomPeople
    DEF PeopleInv, PeopleTypes, InvitationsNamed, OneOfferEach, AlwaysAController,
        OfferedByControllers, Roles
  <1>3. TaskInv
    BY DEF TaskInv, TaskTypes
  <1>4. ScriptInv
    BY RoomLimits
    DEF ScriptInv, ReportTypes, LineageTypes, CheckpointsDistinct, ByHand,
        LastCheckpoint, Correction, Origins
  <1>5. NoVersions \in Versions
    BY RoomLimits DEF NoVersions, Versions
  <1>6. Pending(transfer) = {}
    BY DEF Pending
  <1>7. TransferInv
    <2>1. TransferTypes
      BY <1>5 DEF TransferTypes, Entries, Executions, Idle
    <2>2. HandlersKnow /\ RecordIsTruthful
      BY DEF HandlersKnow, RecordIsTruthful, SentAsRecorded, Idle
    <2> QED
      BY <1>6, <2>1, <2>2 DEF TransferInv, OnePending
  <1>8. ByKnown /\ events \in 1..MaxEvents /\ SpaceKept
    <2>1. ByKnown
      BY <1>6 DEF ByKnown
    <2>2. Cardinality(Pending(transfer)) = 0
      BY <1>6, FS_EmptySet, Zenon
    <2>3. events = 1
      OBVIOUS
    <2> QED
      BY <2>1, <2>2, <2>3, RoomLimits DEF SpaceKept
  <1>9. PageInv /\ CorrectionsFollowOn /\ crashes \in 0..MaxCrashes
    <2>1. NoDraft \in Drafts
      BY RoomLimits DEF NoDraft, Drafts
    <2> QED
      BY <1>5, <2>1, TransferBound DEF PageInv, PageTypes, PostsHonest, CorrectionsFollowOn
  <1> QED
    BY <1>1, <1>2, <1>3, <1>4, <1>7, <1>8, <1>9 DEF Groups

\* The room's invariant: what the service keeps true of roles, offers, review
\* work, reports, the scenario, the clock, the event table and the transfer, over
\* every interleaving of participants with a transfer and with restarts.
THEOREM RoomInvariant == Spec => []RoomInv
  <1>1. Init => Groups
    BY InitGroups
  <1>2. Groups /\ [Next]_vars => Groups'
    <2> SUFFICES ASSUME Groups, [Next]_vars PROVE Groups'
      OBVIOUS
    <2>1. CASE Next
      <3>1. ClockInv' /\ PeopleInv' /\ TaskInv' /\ ScriptInv'
        BY <2>1, ClockStep, PeopleStep, TaskStep, ScriptStep DEF Groups, PageInv, PageTypes
      <3>2. TransferInv' /\ ByKnown'
        BY <2>1, TransferInvStep, ByKnownStep DEF Groups, ScriptInv
      <3>3. /\ events' \in 1..MaxEvents /\ SpaceKept' /\ crashes' \in 0..MaxCrashes
            /\ PageInv' /\ CorrectionsFollowOn'
        BY <2>1, <3>1, EventsStep, PagesStep, LineageStep, CrashesStep DEF Groups, ScriptInv
      <3> QED
        BY <3>1, <3>2, <3>3 DEF Groups
    <2>2. CASE UNCHANGED vars
      <3>0. UNCHANGED <<clockVars, peopleVars, reportVars, transfer, events, pageVars,
                        send, socket, crashes>>
        BY <2>2 DEF vars, roomVars, transferVars
      <3>1. ClockInv' /\ PageInv'
        BY <3>0 DEF Groups, clockVars, ClockInv, ClockTypes, ClockAccounts, MayLose,
                    MayGain, pageVars, PageInv, PageTypes, PostsHonest
      <3>2. PeopleInv' /\ TaskInv' /\ ByKnown'
        BY <3>0 DEF Groups, peopleVars, PeopleInv, PeopleTypes, InvitationsNamed,
                    OneOfferEach, AlwaysAController, OfferedByControllers, reportVars,
                    TaskInv, TaskTypes, ByKnown, Pending
      <3>3. ScriptInv' /\ CorrectionsFollowOn'
        BY <3>0 DEF Groups, reportVars, ScriptInv, ReportTypes, LineageTypes,
                    CheckpointsDistinct, CorrectedByScript, Exists, CorrectionsFollowOn
      <3>4. TransferInv' /\ SpaceKept'
        BY <3>0 DEF Groups, TransferInv, TransferTypes, OnePending, HandlersKnow,
                    RecordIsTruthful, SentAsRecorded, Reported, Pending, SpaceKept
      <3> QED
        BY <3>0, <3>1, <3>2, <3>3, <3>4 DEF Groups
    <2> QED
      BY <2>1, <2>2
  <1>3. Groups => RoomInv
    BY InvIsGroups
  <1> QED
    BY <1>1, <1>2, <1>3, PTL DEF Spec

----------------------------------------------------------------------------
(* What it says                                                            *)

\* Whatever handovers are offered, crossed and accepted, a controller remains.
THEOREM ControllerRemains == Spec => []AlwaysAController
  <1>1. RoomInv => AlwaysAController
    BY DEF RoomInv
  <1> QED
    BY <1>1, RoomInvariant, PTL

\* An offered handover can be accepted for as long as it is pending.
THEOREM HandoverAcceptable == Spec => []HandoverStaysAcceptable
  <1>1. RoomInv => HandoverStaysAcceptable
    BY DEF RoomInv
  <1> QED
    BY <1>1, RoomInvariant, PTL

\* Review work never ends up with somebody who may not do it.
THEOREM WorkAssigned == Spec => []WorkStaysWithAWorker
  <1>1. RoomInv => WorkStaysWithAWorker
    BY DEF RoomInv
  <1> QED
    BY <1>1, RoomInvariant, PTL

\* finish_tak() is never refused for want of an event row or of a participant.
THEOREM OutcomeRecordable == Spec => []OutcomeAlwaysRecordable
  <1>1. RoomInv => OutcomeAlwaysRecordable
    BY DEF RoomInv, SpaceKept, NamesKnown, OutcomeAlwaysRecordable
  <1> QED
    BY <1>1, RoomInvariant, PTL

\* One transfer of a room at a time is on its way, and the room knows of it.
THEOREM SingleTransfer == Spec => []OneTransferAtATime
  <1>1. RoomInv => OneTransferAtATime
    <2> SUFFICES ASSUME RoomInv PROVE OneTransferAtATime
      OBVIOUS
    <2> DEFINE busy == {t \in Transfers : send[t].pc # "idle"}
    <2>1. \A t \in busy : t \in Pending(transfer)
      BY DEF RoomInv, HandlersKnow, Pending
    <2>2. \A t, u \in busy : t = u
      BY <2>1 DEF RoomInv, OnePending
    <2>3. Cardinality(busy) <= 1
      <3>1. CASE busy = {}
        BY <3>1, FS_EmptySet
      <3>2. CASE busy # {}
        <4>1. PICK t \in busy : busy = {t}
          BY <2>2, <3>2
        <4> QED
          BY <4>1, FS_Singleton
      <3> QED
        BY <3>1, <3>2
    <2> QED
      BY <2>1, <2>3 DEF OneTransferAtATime, Pending
  <1> QED
    BY <1>1, RoomInvariant, PTL

\* What the room tells about a transfer is what its socket took, and what left is
\* what was recorded, over corrections, crashes and the end of the room.
THEOREM RecordTruthful == Spec => []RecordIsTruthful
  <1>1. RoomInv => RecordIsTruthful
    BY DEF RoomInv
  <1> QED
    BY <1>1, RoomInvariant, PTL

\* Every checkpoint passed has exactly one report, and the correction was made.
THEOREM ScriptOnRecord == Spec => []CheckpointsOnRecord
  <1>1. RoomInv => CheckpointsOnRecord
    <2> SUFFICES ASSUME RoomInv, NEW k \in (0..step) \ {Correction}
                 PROVE  Cardinality({r \in Reports : report[r].checkpoint = k}) = 1
      BY DEF RoomInv, CheckpointsDistinct, CheckpointsOnRecord
    <2>1. k # ByHand
      BY DEF ByHand
    <2>2. PICK r \in Reports : report[r].checkpoint = k
      BY DEF RoomInv, CheckpointsDistinct
    <2>3. {s \in Reports : report[s].checkpoint = k} = {r}
      BY <2>1, <2>2 DEF RoomInv, CheckpointsDistinct
    <2> QED
      BY <2>3, FS_Singleton
  <1> QED
    BY <1>1, RoomInvariant, PTL

\* Over any number of pauses, the elapsed time shown is off by what rounding and
\* the adjustments of the wall clock explain, and by nothing else.
THEOREM ClockTracksTime == Spec => []ElapsedTracksRunningTime
  <1>1. RoomInv => ElapsedTracksRunningTime
    BY InvIsGroups, ShownTracks DEF Groups, ElapsedTracksRunningTime
  <1> QED
    BY <1>1, RoomInvariant, PTL

\* The revisions of every report are one line: whoever writes them, from whatever
\* page and however late, none replaces a wording its author's dialog did not show.
THEOREM CorrectionsInLine == Spec => []CorrectionsFollowOn
  <1>1. RoomInv => CorrectionsFollowOn
    BY DEF RoomInv
  <1> QED
    BY <1>1, RoomInvariant, PTL

\* A payload of which anything may have left is never written a second time.
THEOREM NothingResent == Spec => NeverResent
  <1> DEFINE Quiet ==
        \A t \in Transfers :
          (socket[t].taken # "nothing" /\ send[t].pc # "writing")
            => send'[t].pc # "writing"
  <1>1. RoomInv /\ [Next]_vars => [Quiet]_vars
    <2> SUFFICES ASSUME RoomInv, Next, NEW u \in Transfers,
                        socket[u].taken # "nothing", send[u].pc # "writing"
                 PROVE  send'[u].pc # "writing"
      OBVIOUS
    <2>0. TransferTypes /\ HandlersKnow
      BY TypeGroups DEF RoomInv
    <2>1. send[u].pc # "reserved"
      BY <2>0 DEF HandlersKnow
    <2>2. ASSUME NEW p \in Persons, NEW t \in Transfers, NEW selected \in SUBSET Reports,
                 Reserve(p, t, selected)
          PROVE  send'[u].pc # "writing"
      <3>1. PICK e : e.pc = "reserved" /\ send' = [send EXCEPT ![t] = e]
        BY <2>2 DEF Reserve
      <3> QED
        BY <2>0, <3>1 DEF TransferTypes
    <2>3. ASSUME NEW t \in Transfers, TransferStep(t)
          PROVE  send'[u].pc # "writing"
      <3>1. /\ send \in [Transfers -> Executions] /\ send[t] \in Executions
            /\ send[u] \in Executions
        BY <2>0 DEF TransferTypes
      <3>2. CASE GiveUp(t) \/ WriteFails(t)
        BY <3>1, <3>2 DEF GiveUp, WriteFails, Executions
      <3>3. CASE BeginWrite(t)
        BY <2>1, <3>1, <3>3 DEF BeginWrite, Executions
      <3>4. CASE WriteCompletes(t)
        BY <3>1, <3>4 DEF WriteCompletes, Executions
      <3>5. CASE Transmit(t) \/ Finish(t)
        BY <3>1, <3>5 DEF Transmit, Finish, Idle
      <3> QED
        BY <2>3, <3>2, <3>3, <3>4, <3>5 DEF TransferStep
    <2>4. Crash => send'[u].pc # "writing"
      BY DEF Crash, Idle
    <2> QED
      BY <2>2, <2>3, <2>4, TransferFrame
  <1> HIDE DEF Quiet
  <1>2. Spec => [][Quiet]_vars
    BY <1>1, RoomInvariant, PTL DEF Spec
  <1> QED
    BY <1>2 DEF NeverResent, Quiet
=============================================================================
