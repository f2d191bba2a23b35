---------------------------- MODULE ExerciseRoom ----------------------------
(***************************************************************************)
(* One shared exercise room (services/exercise_service/store.py).  Every   *)
(* operation is one SQLite transaction under the store's lock, so one      *)
(* action; what interleaves is people working from states they read        *)
(* earlier, correcting reports in a dialog of the exercise page            *)
(* (site/exercise.js), and the TAK transfer, whose network part runs       *)
(* between two transactions (module TakTransfer).                          *)
(*                                                                         *)
(* A participant whose session expired simply acts no more.  The limits on *)
(* participants, requests and transfers are the sizes of the sets below.   *)
(***************************************************************************)
EXTENDS Integers, FiniteSets

CONSTANTS
  None,
  Persons, Founder,   \* participants, and the one who creates the room
  Invitations, Tasks, Handovers, Transfers,
  MaxReports,         \* reports a room may hold (100)
  MaxEvents,          \* events a room may hold (2000)
  MaxRevisions,       \* revisions a report may hold (200)
  Editors,            \* bound: the participants whose pages are followed
  MaxPosts,           \* bound on corrections posted and not handled yet
  Tenth, Millisecond, \* ticks of the clock in 0.1 s and in 1 ms
  MaxNow,             \* bound on the wall clock and on the time that passes
  MaxAdjusted         \* bound on the adjustments made to a clock in use

ASSUME RoomPeople == Founder \in Persons /\ None \notin Persons

ASSUME RoomLimits == /\ MaxEvents \in Nat \ {0} /\ MaxRevisions \in Nat \ {0}
                     /\ MaxReports \in Nat /\ MaxPosts \in Nat
                     /\ MaxNow \in Nat /\ MaxAdjusted \in Nat

ASSUME RoomClock == Tenth \in Nat \ {0} /\ Millisecond \in Nat \ {0}

ASSUME RoomEditors == Editors \subseteq Persons

ASSUME RoomTransfers == IsFiniteSet(Transfers)

VARIABLES
  status, elapsed, clockStartedAt, step,  \* state["room"]
  role,         \* state["participants"]
  invitation,   \* table invitations
  handover, report, task, transfer,       \* the other lists of the state
  events,       \* rows of table events
  view,         \* page: report versions each participant is shown
  draft,        \* page: the correction each participant is writing
  posts,        \* corrections on their way to the service
  lineage,      \* history: what the revisions of a report were based on
  now,          \* wall clock
  ran,          \* history: how long the room was running
  adjusted,     \* history: how far the clock was set while it was running
  runs          \* history: how often the clock was started or resumed

clockVars  == <<status, elapsed, clockStartedAt, now, ran, adjusted, runs>>
peopleVars == <<role, invitation, handover>>
reportVars == <<step, report, lineage, task>>
pageVars   == <<view, draft, posts>>
roomVars   == <<clockVars, peopleVars, reportVars, transfer, events, pageVars>>

----------------------------------------------------------------------------
Roles == {"controller", "reviewer", "observer"}
Workers == {"controller", "reviewer"}     \* the default `roles` of record()

Stopped == -1                             \* clockStartedAt is None
LastCheckpoint == 5
Correction == 3        \* this checkpoint revises the report of the next line
Corrected == 1
ByHand == -1           \* checkpoint of a report a participant entered

Reports == 1..MaxReports    \* positions in the list of reports
Versions == [Reports -> 0..MaxRevisions]
NoVersions == [r \in Reports |-> 0]

\* A correction: of which report, from which version, posted as based on which.
Corrections == [by : Persons, report : Reports, basis : 0..MaxRevisions,
                expectedVersion : 0..MaxRevisions]

\* No dialog is open; no conflicting version is offered in it.
NoDraft == [report |-> 0, baseline |-> 0, offered |-> 0]
Drafts == [report : 0..MaxReports, baseline : 0..MaxRevisions,
           offered : 0..MaxRevisions]

\* What the correction that made a version replaced, and whether a participant
\* wrote it or the script.
Origins == [basis : 0..MaxRevisions, byHand : BOOLEAN]

RoomTypeOK ==
  /\ status \in {"ready", "running", "paused", "ended"}
  /\ now \in 0..MaxNow /\ {elapsed, ran, adjusted, runs} \subseteq Nat
  /\ clockStartedAt \in {Stopped} \cup 0..MaxNow
  /\ step \in -1..LastCheckpoint
  /\ role \in [Persons -> Roles \cup {"none"}]
  /\ invitation \in [Invitations -> [status : {"none", "open", "used"},
                                     role : Roles \cup {"none"}]]
  /\ handover \in [Handovers -> [status : {"none", "pending", "accepted"},
                                 from : Persons \cup {None},
                                 to : Persons \cup {None}]]
  /\ report \in [Reports -> [version : 0..MaxRevisions, located : BOOLEAN,
                             checkpoint : ByHand..LastCheckpoint]]
  /\ task \in [Tasks -> [status : {"none", "open", "acknowledged", "resolved"},
                         assignee : Persons \cup {None}]]
  /\ transfer \in [Transfers ->
       [status : {"none", "pending", "completed"}, by : Persons \cup {None},
        versions : Versions,
        outcome : {"none", "not_sent", "delivery_unknown",
                   "written_to_tls_socket"}]]
  /\ events \in 1..MaxEvents
  /\ view \in [Persons -> Versions]
  /\ draft \in [Persons -> Drafts] /\ posts \subseteq Corrections
  /\ lineage \in [Reports -> [1..MaxRevisions -> Origins]]

\* create_room(): the founder is its controller, room.created its first event.
RoomInit ==
  /\ status = "ready" /\ elapsed = 0 /\ clockStartedAt = Stopped /\ step = -1
  /\ role = [p \in Persons |-> IF p = Founder THEN "controller" ELSE "none"]
  /\ invitation = [i \in Invitations |-> [status |-> "none", role |-> "none"]]
  /\ handover = [h \in Handovers |-> [status |-> "none", from |-> None, to |-> None]]
  /\ report = [r \in Reports |->
                 [version |-> 0, located |-> FALSE, checkpoint |-> ByHand]]
  /\ task = [t \in Tasks |-> [status |-> "none", assignee |-> None]]
  /\ transfer = [t \in Transfers |->
                   [status |-> "none", by |-> None, versions |-> NoVersions,
                    outcome |-> "none"]]
  /\ events = 1
  /\ view = [p \in Persons |-> NoVersions]
  /\ draft = [p \in Persons |-> NoDraft] /\ posts = {}
  /\ lineage = [r \in Reports |-> [v \in 1..MaxRevisions |->
                                    [basis |-> 0, byHand |-> TRUE]]]
  /\ now = 0 /\ ran = 0 /\ adjusted = 0 /\ runs = 0

----------------------------------------------------------------------------
Exists(r) == report[r].version > 0
Pending(transfers) == {t \in Transfers : transfers[t].status = "pending"}

\* _authorize(roles, writable=True)
May(p, roles) == role[p] \in roles /\ status # "ended"

\* Faulty variant: the completions still owed are counted before the change.
AppendUnreserved ==
  /\ events + 1 + Cardinality(Pending(transfer)) <= MaxEvents
  /\ events' = events + 1

\* _append(): the limit keeps room for the completion of every pending transfer
\* of the state being saved.
Append ==
  /\ events + 1 + Cardinality(Pending(transfer')) <= MaxEvents
  /\ events' = events + 1

----------------------------------------------------------------------------
(* Membership                                                              *)

Invite(p, i, r) ==
  /\ May(p, {"controller"})
  /\ invitation[i].status = "none"
  /\ invitation' = [invitation EXCEPT ![i] = [status |-> "open", role |-> r]]
  /\ UNCHANGED <<clockVars, reportVars, role, handover, transfer, pageVars>>
  /\ Append

\* q is the participant the service creates for an unused, unexpired invitation.
Join(q, i) ==
  /\ status # "ended"
  /\ invitation[i].status = "open"
  /\ role[q] = "none"
  /\ role' = [role EXCEPT ![q] = invitation[i].role]
  /\ invitation' = [invitation EXCEPT ![i].status = "used"]
  /\ UNCHANGED <<clockVars, reportVars, handover, transfer, pageVars>>
  /\ Append

\* Faulty variant: a participant may have several offers outstanding.
OfferAgain(p, h, q) ==
  /\ May(p, {"controller"})
  /\ handover[h].status = "none"
  /\ q # p /\ role[q] \in Workers
  /\ handover' = [handover EXCEPT ![h] = [status |-> "pending", from |-> p, to |-> q]]
  /\ UNCHANGED <<clockVars, reportVars, role, invitation, transfer, pageVars>>
  /\ Append

OfferHandover(p, h, q) ==
  /\ May(p, {"controller"})
  /\ handover[h].status = "none"
  /\ q # p /\ role[q] \in Workers
  /\ ~ \E g \in Handovers : handover[g].status = "pending" /\ handover[g].from = p
  /\ handover' = [handover EXCEPT ![h] = [status |-> "pending", from |-> p, to |-> q]]
  /\ UNCHANGED <<clockVars, reportVars, role, invitation, transfer, pageVars>>
  /\ Append

\* Faulty variant: the outgoing controller is made an observer.
AcceptRetiring(q, h) ==
  LET from == handover[h].from IN
  /\ May(q, Workers)
  /\ handover[h].status = "pending" /\ handover[h].to = q
  /\ role[from] = "controller"
  /\ role' = [role EXCEPT ![from] = "observer", ![q] = "controller"]
  /\ handover' = [handover EXCEPT ![h].status = "accepted"]
  /\ UNCHANGED <<clockVars, reportVars, invitation, transfer, pageVars>>
  /\ Append

\* Faulty variant: the outgoing controller steps down, nobody takes over.
AcceptDemoting(q, h) ==
  LET from == handover[h].from IN
  /\ May(q, Workers)
  /\ handover[h].status = "pending" /\ handover[h].to = q
  /\ role' = [role EXCEPT ![from] = "reviewer"]
  /\ handover' = [handover EXCEPT ![h].status = "accepted"]
  /\ UNCHANGED <<clockVars, reportVars, invitation, transfer, pageVars>>
  /\ Append

AcceptHandover(q, h) ==
  LET from == handover[h].from IN
  /\ May(q, Workers)
  /\ handover[h].status = "pending" /\ handover[h].to = q
  /\ role[from] = "controller"
  /\ role' = [role EXCEPT ![from] = "reviewer", ![q] = "controller"]
  /\ handover' = [handover EXCEPT ![h].status = "accepted"]
  /\ UNCHANGED <<clockVars, reportVars, invitation, transfer, pageVars>>
  /\ Append

----------------------------------------------------------------------------
(* Reports, review requests and the scenario                               *)

\* Appended to the list of reports.
NewReport(r, located, checkpoint) ==
  /\ ~Exists(r) /\ (r > 1 => Exists(r - 1))
  /\ report' = [report EXCEPT ![r] = [version |-> 1, located |-> located,
                                      checkpoint |-> checkpoint]]

\* Refused once the report holds MaxRevisions revisions.
NewRevision(r, basis, byHand) ==
  /\ report[r].version < MaxRevisions
  /\ report' = [report EXCEPT ![r].version = @ + 1]
  /\ lineage' = [lineage EXCEPT ![r][report[r].version + 1] =
                   [basis |-> basis, byHand |-> byHand]]

AddReport(p, r, located) ==
  /\ May(p, Workers)
  /\ NewReport(r, located, ByHand)
  /\ UNCHANGED <<clockVars, peopleVars, step, lineage, task, transfer, pageVars>>
  /\ Append

AddRequest(p, t, q) ==
  /\ May(p, Workers)
  /\ task[t].status = "none"
  /\ \E r \in Reports : Exists(r)
  /\ role[q] \in Workers
  /\ task' = [task EXCEPT ![t] = [status |-> "open", assignee |-> q]]
  /\ UNCHANGED <<clockVars, peopleVars, step, report, lineage, transfer, pageVars>>
  /\ Append

TransitionRequest(q, t) ==
  /\ May(q, Workers)
  /\ task[t].assignee = q
  /\ \/ /\ task[t].status = "open"
        /\ task' = [task EXCEPT ![t].status = "acknowledged"]
     \/ /\ task[t].status = "acknowledged"
        /\ task' = [task EXCEPT ![t].status = "resolved"]
  /\ UNCHANGED <<clockVars, peopleVars, step, report, lineage, transfer, pageVars>>
  /\ Append

\* Faulty variant: a checkpoint whose report cannot be added is skipped.
AdvanceSkipping(p) ==
  /\ May(p, {"controller"})
  /\ step < LastCheckpoint
  /\ step' = step + 1
  /\ IF step' = Correction
       THEN UNCHANGED <<report, lineage>>
       ELSE (\E r \in Reports : NewReport(r, TRUE, step')) /\ UNCHANGED lineage
  /\ UNCHANGED <<clockVars, peopleVars, task, transfer, pageVars>>
  /\ Append

\* The whole step is refused when its report, or the correction, is.
AdvanceScenario(p) ==
  /\ May(p, {"controller"})
  /\ step < LastCheckpoint
  /\ step' = step + 1
  /\ \/ /\ step' # Correction
        /\ \E r \in Reports : NewReport(r, TRUE, step')
        /\ UNCHANGED lineage
     \/ /\ step' = Correction
        /\ \E r \in Reports : /\ report[r].checkpoint = Corrected
                             /\ NewRevision(r, report[r].version, FALSE)
     \/ /\ step' = Correction
        /\ \A r \in Reports : report[r].checkpoint # Corrected
        /\ UNCHANGED <<report, lineage>>
  /\ UNCHANGED <<clockVars, peopleVars, task, transfer, pageVars>>
  /\ Append

----------------------------------------------------------------------------
(* Correcting a report: the dialog of the page, and the transaction        *)

Shown == [r \in Reports |-> report[r].version]

\* GET /state: the page shows the current versions; an open dialog is left alone.
Read(p) ==
  /\ p \in Editors /\ role[p] # "none"
  /\ view' = [view EXCEPT ![p] = Shown]
  /\ UNCHANGED <<clockVars, peopleVars, reportVars, transfer, events, draft, posts>>

\* The dialog starts from the wording and the version that the page shows.
OpenRevision(p, r) ==
  /\ p \in Editors /\ role[p] \in Workers
  /\ draft[p] = NoDraft /\ view[p][r] > 0
  /\ draft' = [draft EXCEPT ![p] = [report |-> r, baseline |-> view[p][r],
                                    offered |-> 0]]
  /\ UNCHANGED <<clockVars, peopleVars, reportVars, transfer, events, view, posts>>

CloseRevision(p) ==
  /\ draft[p] # NoDraft
  /\ draft' = [draft EXCEPT ![p] = NoDraft]
  /\ UNCHANGED <<clockVars, peopleVars, reportVars, transfer, events, view, posts>>

\* Faulty variant: the page posts the version it shows by now.
PostRevisionRefreshed(p) ==
  /\ draft[p].report \in Reports /\ Cardinality(posts) < MaxPosts
  /\ posts' = posts \cup {[by |-> p, report |-> draft[p].report,
                           basis |-> draft[p].baseline,
                           expectedVersion |-> view[p][draft[p].report]]}
  /\ UNCHANGED <<clockVars, peopleVars, reportVars, transfer, events, view, draft>>

\* The request may be handled long after the page has given up waiting for it,
\* and the dialog submitted again.
PostRevision(p) ==
  /\ draft[p].report \in Reports /\ Cardinality(posts) < MaxPosts
  /\ posts' = posts \cup {[by |-> p, report |-> draft[p].report,
                           basis |-> draft[p].baseline,
                           expectedVersion |-> draft[p].baseline]}
  /\ UNCHANGED <<clockVars, peopleVars, reportVars, transfer, events, view, draft>>

\* The answer is lost, or the page refreshes and closes its dialog.
Accepted(p) ==
  \/ UNCHANGED <<view, draft>>
  \/ /\ view' = [view EXCEPT ![p] = [r \in Reports |-> report'[r].version]]
     /\ draft' = [draft EXCEPT ![p] = NoDraft]

\* The correction is based on the latest version and becomes the next.
ReviseReport(p, q) ==
  /\ May(p, Workers) /\ q.by = p
  /\ Exists(q.report) /\ report[q.report].version = q.expectedVersion
  /\ NewRevision(q.report, q.basis, TRUE)
  /\ posts' = posts \ {q} /\ Accepted(p)
  /\ UNCHANGED <<clockVars, peopleVars, step, task, transfer>>
  /\ Append

\* Refused with a conflict.  Unless the answer is lost the page refreshes, which
\* may fail, and the dialog shows the version it now knows of.
RefuseRevision(p, q) ==
  /\ q.by = p
  /\ \/ status = "ended" \/ report[q.report].version # q.expectedVersion
     \/ report[q.report].version = MaxRevisions
     \/ events + 1 + Cardinality(Pending(transfer)) > MaxEvents
  /\ posts' = posts \ {q}
  /\ \/ UNCHANGED <<view, draft>>
     \/ /\ \E shown \in {view[p], Shown} : view' = [view EXCEPT ![p] = shown]
        /\ draft[p].report = q.report
        /\ draft' = [draft EXCEPT ![p].offered = view'[p][q.report]]
  /\ UNCHANGED <<clockVars, peopleVars, reportVars, transfer, events>>

\* "Use current version as baseline; keep my draft"
Rebase(p) ==
  /\ draft[p].offered > 0
  /\ draft' = [draft EXCEPT ![p] = [report |-> draft[p].report,
                                    baseline |-> draft[p].offered, offered |-> 0]]
  /\ UNCHANGED <<clockVars, peopleVars, reportVars, transfer, events, view, posts>>

----------------------------------------------------------------------------
(* The room clock                                                          *)

\* Saved times have milliseconds: iso() drops what is finer.
Truncated(t) == t - (t % Millisecond)

\* round(x, 1): the nearest tenths; either of two that are equally near.
Rounded(x) == {y \in {Tenth * k : k \in 0..(x + 1)} :
                 2 * (y - x) <= Tenth /\ 2 * (x - y) <= Tenth}

\* _project_state() shows this, rounded; a clock that was set back counts nothing.
Elapsed ==
  IF status = "running" /\ now > clockStartedAt
    THEN elapsed + (now - clockStartedAt) ELSE elapsed

ClockActions ==
  [start  |-> [from |-> {"ready"}, to |-> "running"],
   pause  |-> [from |-> {"running"}, to |-> "paused"],
   resume |-> [from |-> {"paused"}, to |-> "running"],
   end    |-> [from |-> {"ready", "running", "paused"}, to |-> "ended"]]

\* The clock changes its status; running, it has a start time.
Switch(action) ==
  /\ status \in ClockActions[action].from
  /\ status' = ClockActions[action].to
  /\ clockStartedAt' = IF status' = "running" THEN Truncated(now) ELSE Stopped
  /\ runs' = IF status' = "running" THEN runs + 1 ELSE runs

\* Faulty variant: only a pause saves the time that ran.
ClockForgetting(p, action) ==
  /\ May(p, {"controller"})
  /\ Switch(action)
  /\ elapsed' \in IF action = "pause" THEN Rounded(Elapsed) ELSE {elapsed}
  /\ UNCHANGED <<now, ran, adjusted, peopleVars, reportVars, transfer, pageVars>>
  /\ Append

\* Every action saves the elapsed time as it is shown.
Clock(p, action) ==
  /\ May(p, {"controller"})
  /\ Switch(action)
  /\ elapsed' \in Rounded(Elapsed)
  /\ UNCHANGED <<now, ran, adjusted, peopleVars, reportVars, transfer, pageVars>>
  /\ Append

Tick ==
  /\ now < MaxNow /\ ran < MaxNow
  /\ now' = now + 1
  /\ ran' = IF status = "running" THEN ran + 1 ELSE ran
  /\ UNCHANGED <<status, elapsed, clockStartedAt, adjusted, runs, peopleVars,
                 reportVars, transfer, events, pageVars>>

Distance(t, u) == IF t < u THEN u - t ELSE t - u

\* The wall clock is set, by an operator or by its synchronisation.
SetClock(t) ==
  /\ t # now
  /\ now' = t
  /\ adjusted' = IF status = "running" THEN adjusted + Distance(now, t) ELSE adjusted
  /\ adjusted' <= MaxAdjusted
  /\ UNCHANGED <<status, elapsed, clockStartedAt, ran, runs, peopleVars, reportVars,
                 transfer, events, pageVars>>

----------------------------------------------------------------------------
(* The two transactions of a TAK transfer                                  *)

\* Faulty variant: an earlier transfer without an outcome is no obstacle.
ReserveConcurrently(p, t, selected) ==
  /\ May(p, {"controller"})
  /\ transfer[t].status = "none"
  /\ selected # {} /\ \A r \in selected : Exists(r) /\ report[r].located
  /\ transfer' = [transfer EXCEPT ![t] =
       [status |-> "pending", by |-> p, outcome |-> "none",
        versions |-> [r \in Reports |->
                        IF r \in selected THEN report[r].version ELSE 0]]]
  /\ UNCHANGED <<clockVars, peopleVars, reportVars, pageVars>>
  /\ Append

\* The intent and the report versions are saved before any connection is opened.
ReserveTak(p, t, selected) ==
  /\ May(p, {"controller"})
  /\ Pending(transfer) = {}
  /\ transfer[t].status = "none"
  /\ selected # {} /\ \A r \in selected : Exists(r) /\ report[r].located
  /\ transfer' = [transfer EXCEPT ![t] =
       [status |-> "pending", by |-> p, outcome |-> "none",
        versions |-> [r \in Reports |->
                        IF r \in selected THEN report[r].version ELSE 0]]]
  /\ UNCHANGED <<clockVars, peopleVars, reportVars, pageVars>>
  /\ Append

\* Faulty variant: the outcome is subject to the rules for new work.
FinishAsController(p, t, outcome) ==
  /\ May(p, {"controller"})
  /\ transfer[t].status = "pending" /\ transfer[t].by = p
  /\ transfer' = [transfer EXCEPT ![t].status = "completed", ![t].outcome = outcome]
  /\ UNCHANGED <<clockVars, peopleVars, reportVars, pageVars>>
  /\ Append

\* The one operation an ended room, or a former controller, still accepts.
FinishTak(p, t, outcome) ==
  /\ role[p] # "none"
  /\ transfer[t].status = "pending" /\ transfer[t].by = p
  /\ transfer' = [transfer EXCEPT ![t].status = "completed", ![t].outcome = outcome]
  /\ UNCHANGED <<clockVars, peopleVars, reportVars, pageVars>>
  /\ Append

----------------------------------------------------------------------------
\* What happens on a participant's page, and a correction that changes nothing.
PageStep(p) ==
  \/ Read(p) \/ CloseRevision(p) \/ PostRevision(p) \/ Rebase(p)
  \/ \E r \in Reports : OpenRevision(p, r)
  \/ \E q \in posts : RefuseRevision(p, q)

MemberStep(p) ==
  \/ \E i \in Invitations, r \in Roles : Invite(p, i, r)
  \/ \E i \in Invitations : Join(p, i)
  \/ \E h \in Handovers, q \in Persons : OfferHandover(p, h, q)
  \/ \E h \in Handovers : AcceptHandover(p, h)
  \/ \E r \in Reports, located \in BOOLEAN : AddReport(p, r, located)
  \/ \E q \in posts : ReviseReport(p, q)
  \/ \E t \in Tasks, q \in Persons : AddRequest(p, t, q)
  \/ \E t \in Tasks : TransitionRequest(p, t)
  \/ AdvanceScenario(p)
  \/ \E action \in DOMAIN ClockActions : Clock(p, action)
  \/ PageStep(p)

RoomNext ==
  \/ Tick \/ \E t \in 0..MaxNow : SetClock(t)
  \/ \E p \in Persons : MemberStep(p)
=============================================================================
