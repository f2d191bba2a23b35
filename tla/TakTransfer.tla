---------------------------- MODULE TakTransfer ----------------------------
(***************************************************************************)
(* POST /tak/send (services/exercise_service/app.py, tak.py): a transfer   *)
(* is reserved in the room, written to a TLS socket with no transaction    *)
(* open, and its outcome recorded.  Other participants go on working in    *)
(* the room meanwhile, and the service may die at any point.               *)
(***************************************************************************)
EXTENDS ExerciseRoom

CONSTANT MaxCrashes   \* bound on restarts of the service

ASSUME TransferBound == MaxCrashes \in Nat

VARIABLES
  send,      \* per transfer: the executing handler
  socket,    \* per transfer: what its TLS socket took
  crashes

transferVars == <<send, socket, crashes>>
vars == <<roomVars, transferVars>>

Idle == [pc |-> "idle", transportStatus |-> "not_sent", payload |-> NoVersions]

TypeOK ==
  /\ RoomTypeOK
  /\ send \in [Transfers ->
       [pc : {"idle", "reserved", "writing", "returned"},
        transportStatus : {"not_sent", "delivery_unknown",
                           "written_to_tls_socket"},
        payload : Versions]]
  /\ socket \in [Transfers ->
       [taken : {"nothing", "part", "all"}, versions : Versions]]
  /\ crashes \in 0..MaxCrashes

Init ==
  /\ RoomInit
  /\ send = [t \in Transfers |-> Idle]
  /\ socket = [t \in Transfers |-> [taken |-> "nothing", versions |-> NoVersions]]
  /\ crashes = 0

----------------------------------------------------------------------------
\* reserve_tak() returned: the handler holds copies of the reports.
Reserve(p, t, selected) ==
  /\ ReserveTak(p, t, selected)
  /\ send' = [send EXCEPT ![t] = [pc |-> "reserved",
                                  transportStatus |-> "not_sent",
                                  payload |-> transfer'[t].versions]]
  /\ UNCHANGED <<socket, crashes>>

\* Invalid data or configuration, no connection, no TLS session.
GiveUp(t) ==
  /\ send[t].pc = "reserved"
  /\ send' = [send EXCEPT ![t].pc = "returned"]
  /\ UNCHANGED <<roomVars, socket, crashes>>

\* Faulty variant: the status changes only once the write has returned.
BeginWriteSilently(t) ==
  /\ send[t].pc = "reserved"
  /\ send' = [send EXCEPT ![t].pc = "writing"]
  /\ UNCHANGED <<roomVars, socket, crashes>>

\* From here a failure may leave part of the payload sent.
BeginWrite(t) ==
  /\ send[t].pc = "reserved"
  /\ send' = [send EXCEPT ![t].pc = "writing",
                          ![t].transportStatus = "delivery_unknown"]
  /\ UNCHANGED <<roomVars, socket, crashes>>

\* sendall() is under way: some or all bytes have left.
Transmit(t) ==
  /\ send[t].pc = "writing" /\ socket[t].taken # "all"
  /\ \E taken \in {"part", "all"} :
       socket' = [socket EXCEPT ![t] = [taken |-> taken,
                                        versions |-> send[t].payload]]
  /\ UNCHANGED <<roomVars, send, crashes>>

\* sendall() raised; its timeout does not tell how much has left.
WriteFails(t) ==
  /\ send[t].pc = "writing"
  /\ send' = [send EXCEPT ![t].pc = "returned"]
  /\ UNCHANGED <<roomVars, socket, crashes>>

\* sendall() returned; a failure after it is no longer the transfer's.
WriteCompletes(t) ==
  /\ send[t].pc = "writing" /\ socket[t].taken = "all"
  /\ send' = [send EXCEPT ![t].pc = "returned",
                          ![t].transportStatus = "written_to_tls_socket"]
  /\ UNCHANGED <<roomVars, socket, crashes>>

Finish(t) ==
  /\ send[t].pc = "returned"
  /\ FinishTak(transfer[t].by, t, send[t].transportStatus)
  /\ send' = [send EXCEPT ![t] = Idle]
  /\ UNCHANGED <<socket, crashes>>

\* Faulty variant: a restarted service retries the transfers it finds pending.
CrashRetrying ==
  /\ crashes < MaxCrashes
  /\ crashes' = crashes + 1
  /\ send' = [t \in Transfers |->
                IF transfer[t].status = "pending"
                  THEN [pc |-> "reserved", transportStatus |-> "not_sent",
                        payload |-> transfer[t].versions]
                  ELSE Idle]
  /\ UNCHANGED <<roomVars, socket>>

\* The service dies; the room is in the database, the handlers are not.
Crash ==
  /\ crashes < MaxCrashes
  /\ crashes' = crashes + 1
  /\ send' = [t \in Transfers |-> Idle]
  /\ UNCHANGED <<roomVars, socket>>

TransferStep(t) ==
  \/ GiveUp(t) \/ BeginWrite(t) \/ Transmit(t)
  \/ WriteFails(t) \/ WriteCompletes(t) \/ Finish(t)

Next ==
  \/ RoomNext /\ UNCHANGED transferVars
  \/ \E p \in Persons, t \in Transfers, selected \in SUBSET Reports :
       Reserve(p, t, selected)
  \/ \E t \in Transfers : TransferStep(t)
  \/ Crash

Spec == Init /\ [][Next]_vars

----------------------------------------------------------------------------
(* The room                                                                *)

\* Whatever handovers are offered, crossed and accepted, somebody is in charge:
\* only a controller can invite, run the clock, hand over or end the room.
AlwaysAController == \E p \in Persons : role[p] = "controller"

\* A pending handover can still be accepted: its giver is still a controller and
\* its recipient may act.  accept_handover()'s check of the giver never fires.
HandoverStaysAcceptable ==
  \A h \in Handovers : handover[h].status = "pending" =>
    role[handover[h].from] = "controller" /\ role[handover[h].to] \in Workers

\* Review work stays with a participant who may acknowledge and resolve it,
\* whatever role changes follow the assignment.
WorkStaysWithAWorker ==
  \A t \in Tasks : task[t].status # "none" => role[task[t].assignee] \in Workers

CorrectedByScript(r) == \E v \in 2..report[r].version : ~lineage[r][v].byHand

\* The scenario position and the record agree: every checkpoint passed has its
\* one report, and the scripted correction, not only one by hand, was applied to
\* the report it corrects.
CheckpointsOnRecord ==
  /\ \A k \in (0..step) \ {Correction} :
       Cardinality({r \in Reports : report[r].checkpoint = k}) = 1
  /\ step >= Correction =>
       \E r \in Reports : report[r].checkpoint = Corrected /\ CorrectedByScript(r)

\* How far a reader's elapsed time may be off: half of 0.1 s for each run of the
\* clock, as every pause saves a rounded time, not quite 1 ms for each start, and
\* whatever the wall clock was set by.  Nothing else accumulates over any number
\* of pauses, and nothing is lost or counted twice at one.
MayLose == Tenth * runs + 2 * adjusted
MayGain == (Tenth + 2 * (Millisecond - 1)) * runs + 2 * adjusted

ElapsedTracksRunningTime ==
  \A shown \in Rounded(Elapsed) :
    2 * (ran - shown) <= MayLose /\ 2 * (shown - ran) <= MayGain

\* The revisions of a report are one line: each replaces the version that its
\* author's dialog was working from, whatever the page has shown since, whoever
\* else corrects the report meanwhile, whichever answers are lost and whenever a
\* posted correction is handled.  No wording is replaced unseen.
CorrectionsFollowOn ==
  \A r \in Reports : \A v \in 2..report[r].version : lineage[r][v].basis = v - 1

----------------------------------------------------------------------------
(* The transfer                                                            *)

\* The outcome of a transfer can always be recorded: a full room has kept space
\* for it, and handing over or ending the room does not disown it.
OutcomeAlwaysRecordable ==
  \A t \in Pending(transfer) :
    /\ events + Cardinality(Pending(transfer)) <= MaxEvents
    /\ role[transfer[t].by] # "none"

\* At most one transfer of the room is on its way, and none that the room does
\* not list as pending, over crashes and the end of the room.
OneTransferAtATime ==
  /\ Cardinality({t \in Transfers : send[t].pc # "idle"}) <= 1
  /\ \A t \in Transfers : send[t].pc # "idle" => transfer[t].status = "pending"

\* What tak_status() tells: a pending transfer is of unknown delivery.
Reported(t) == IF transfer[t].status = "completed" THEN transfer[t].outcome
                                                   ELSE "delivery_unknown"

\* What leaves is what was recorded before the connection was opened, although
\* the reports may be corrected meanwhile.
SentAsRecorded ==
  \A t \in Transfers : socket[t].taken # "nothing" =>
    transfer[t].status # "none" /\ socket[t].versions = transfer[t].versions

\* The record never claims more, or less, than the socket took: "written" means
\* all of the recorded versions, "not sent" nothing of them, before, during and
\* after a crash.
RecordIsTruthful ==
  /\ SentAsRecorded
  /\ \A t \in Transfers : transfer[t].status # "none" =>
       /\ Reported(t) = "written_to_tls_socket" => socket[t].taken = "all"
       /\ Reported(t) = "not_sent" => socket[t].taken = "nothing"

\* A payload that may have left is never written again: nothing is retried, by
\* the handler or by a restarted service.
NeverResent ==
  [][\A t \in Transfers :
       (socket[t].taken # "nothing" /\ send[t].pc # "writing")
         => send'[t].pc # "writing"]_vars

\* The handler runs on unless the service dies.
Fairness == \A t \in Transfers : WF_vars(TransferStep(t))

FairSpec == Spec /\ Fairness

\* A transfer gets its outcome unless the service dies under it.
TransferConcludes ==
  \A t \in Transfers :
    transfer[t].status = "pending" ~> (transfer[t].status = "completed" \/ crashes > 0)

----------------------------------------------------------------------------
(* Why the invariants hold: the inductive strengthening                    *)

\* An unused invitation, an offer and a request name somebody who is there.
NamesKnown ==
  /\ \A i \in Invitations : invitation[i].status = "open" => invitation[i].role \in Roles
  /\ \A h \in Handovers : handover[h].status = "pending" =>
       handover[h].from \in Persons /\ handover[h].to \in Persons
  /\ \A t \in Tasks : task[t].status # "none" => task[t].assignee \in Persons
  /\ \A t \in Pending(transfer) :
       transfer[t].by \in Persons /\ role[transfer[t].by] # "none"

\* Nobody has two offers outstanding, so no acceptance disowns another offer.
OneOfferEach ==
  \A g, h \in Handovers :
    (/\ handover[g].status = "pending" /\ handover[h].status = "pending"
     /\ handover[g].from = handover[h].from) => g = h

\* The event table keeps a row for every outcome that is still owed.
SpaceKept == events + Cardinality(Pending(transfer)) <= MaxEvents

OnePending == \A t, u \in Pending(transfer) : t = u

\* A handler has the recorded versions, nothing has left before it writes, and
\* what it will report is what the socket took.
HandlersKnow ==
  \A t \in Transfers : send[t].pc # "idle" =>
    /\ transfer[t].status = "pending" /\ send[t].payload = transfer[t].versions
    /\ send[t].pc = "writing" => send[t].transportStatus = "delivery_unknown"
    /\ send[t].pc = "reserved" => send[t].transportStatus = "not_sent"
    /\ send[t].transportStatus = "not_sent" => socket[t].taken = "nothing"
    /\ send[t].transportStatus = "written_to_tls_socket" => socket[t].taken = "all"

\* Reports that are not written yet have no checkpoint, and those of the script
\* have one each, of the part that was played.
CheckpointsDistinct ==
  /\ \A r \in Reports : report[r].checkpoint # ByHand =>
       /\ Exists(r)
       /\ report[r].checkpoint \in (0..step) \ {Correction}
       /\ \A s \in Reports : report[s].checkpoint = report[r].checkpoint => s = r
  /\ \A k \in (0..step) \ {Correction} : \E r \in Reports : report[r].checkpoint = k
  /\ step >= Correction =>
       \E r \in Reports : report[r].checkpoint = Corrected /\ CorrectedByScript(r)

\* A stopped clock holds tenths; a running one has counted from its start, and is
\* not rounded yet.
ClockAccounts ==
  /\ \E k \in 0..elapsed : elapsed = Tenth * k
  /\ status = "running" =>
       /\ clockStartedAt # Stopped
       /\ 2 * (ran - (elapsed + now - clockStartedAt)) + Tenth <= MayLose
       /\ 2 * (elapsed + now - clockStartedAt - ran) + Tenth <= MayGain
       /\ 2 * (elapsed - ran) + Tenth <= MayGain
  /\ status # "running" =>
       2 * (ran - elapsed) <= MayLose /\ 2 * (elapsed - ran) <= MayGain

\* What a page posts is based on the version it says.
PostsHonest == \A q \in posts : q.basis = q.expectedVersion

RoomInv ==
  /\ TypeOK
  /\ ClockAccounts
  /\ NamesKnown /\ OneOfferEach
  /\ AlwaysAController /\ HandoverStaysAcceptable /\ WorkStaysWithAWorker
  /\ SpaceKept /\ OnePending /\ HandlersKnow /\ RecordIsTruthful
  /\ CheckpointsDistinct /\ CorrectionsFollowOn /\ PostsHonest
=============================================================================
