----------------------------- MODULE AuditChain -----------------------------
(***************************************************************************)
(* The audit file of the C2 node (main.py, State.record and __init__): a   *)
(* hash chain written as a whole and put in place by a rename, replayed    *)
(* when the node starts.  All its callers run on the node's event loop, so *)
(* a record is written without interruption, except by a failure of the    *)
(* file system or the end of the process.                                  *)
(***************************************************************************)
EXTENDS Naturals, Sequences

CONSTANTS
  Bodies,      \* contents of records, apart from their hashes
  PlainBodies, \* those whose JSON contains none of U+0085, U+2028 and U+2029
  MaxRecords   \* bound: records in the file

VARIABLES
  disk,     \* the audit file
  audit,    \* State.audit
  healthy,  \* State.audit_healthy
  running   \* whether the node's process is up

auditVars == <<disk, audit, healthy, running>>

\* A hash covers the record and, through previousRecordHash, every record
\* before it: it stands for the sequence of their contents.
Hashes == Seq(Bodies)
Record == [body : Bodies, previousRecordHash : Hashes, recordHash : Hashes]

AuditTypeOK ==
  /\ disk \in Seq(Record)
  /\ audit \in Seq(Record)
  /\ healthy \in BOOLEAN /\ running \in BOOLEAN

AuditInit == disk = <<>> /\ audit = <<>> /\ healthy = TRUE /\ running = TRUE

\* The hash the next record links to; none before the first record.
LastHash(chain) == IF chain = <<>> THEN <<>> ELSE chain[Len(chain)].recordHash

Entry(chain, body) ==
  [body |-> body, previousRecordHash |-> LastHash(chain),
   recordHash |-> Append(LastHash(chain), body)]

Links(chain, i) ==
  /\ chain[i].previousRecordHash = IF i = 1 THEN <<>> ELSE chain[i - 1].recordHash
  /\ chain[i].recordHash = Append(chain[i].previousRecordHash, chain[i].body)

\* What __init__() verifies of the records it reads.
Verifies(chain) == \A i \in 1..Len(chain) : Links(chain, i)

\* A record is written as one line, but read back with str.splitlines(), which
\* also ends a line at characters JSON leaves as they are.
OneLineEach(chain) == \A i \in 1..Len(chain) : chain[i].body \in PlainBodies

Replays(chain) == Verifies(chain) /\ OneLineEach(chain)

\* record(): the whole chain with the new record replaces the file, and only
\* then does the record enter memory.
Write(body) ==
  /\ running /\ Len(audit) < MaxRecords
  /\ disk' = Append(audit, Entry(audit, body))
  /\ audit' = disk'
  /\ healthy' = TRUE
  /\ UNCHANGED running

\* Faulty variant: the record enters memory before its write fails.
WriteFailsRemembering ==
  /\ running /\ Len(audit) < MaxRecords
  /\ healthy' = FALSE
  /\ \E body \in Bodies : audit' = Append(audit, Entry(audit, body))
  /\ UNCHANGED <<disk, running>>

\* The pending file cannot be written or renamed: neither chain changes.
WriteFails ==
  /\ running
  /\ healthy' = FALSE
  /\ UNCHANGED <<disk, audit, running>>

\* _ensure_audit_healthy(): the probe writes a file of its own.
Probe ==
  /\ running /\ ~healthy
  /\ healthy' = TRUE
  /\ UNCHANGED <<disk, audit, running>>

\* Faulty variant: the file is emptied and written in place.
CrashInPlace ==
  /\ running
  /\ disk' \in {disk, <<>>}
  /\ running' = FALSE /\ audit' = <<>> /\ healthy' = TRUE

\* The process ends at rest or inside record(), before or after the rename.
Crash ==
  /\ running
  /\ \/ disk' = disk
     \/ /\ Len(audit) < MaxRecords
        /\ \E body \in Bodies : disk' = Append(audit, Entry(audit, body))
  /\ running' = FALSE /\ audit' = <<>> /\ healthy' = TRUE

\* The node starts if the file replays; otherwise __init__() raises.
Start ==
  /\ ~running
  /\ Replays(disk)
  /\ running' = TRUE
  /\ audit' = disk
  /\ UNCHANGED <<disk, healthy>>

AuditNext == (\E body \in Bodies : Write(body)) \/ WriteFails \/ Probe \/ Crash \/ Start

AuditSpec == AuditInit /\ [][AuditNext]_auditVars

----------------------------------------------------------------------------
\* What the node has in memory while it runs is what a restart would read.
MemoryIsDisk == running => audit = disk

\* The chain in the file is intact at every moment a crash can leave it at.
DiskVerifies == Verifies(disk)

AuditInv == AuditTypeOK /\ MemoryIsDisk /\ DiskVerifies

\* No evidence that reached the file is lost or rewritten, by a failure, a
\* crash or a restart.
EvidenceSurvives ==
  [][/\ Len(disk) <= Len(disk')
     /\ \A i \in 1..Len(disk) : disk'[i] = disk[i]]_auditVars

\* A node can be started again on the evidence it wrote itself
\* (test_optional_jsonl_audit_survives_reference_node_restart).
RestartsOnItsEvidence == ~running => Replays(disk)
=============================================================================
