-------------------------- MODULE AuditChainProofs --------------------------
(***************************************************************************)
(* The audit chain, for any contents of records and any number of them,    *)
(* failures, crashes and restarts.                                         *)
(***************************************************************************)
EXTENDS AuditChain, TLAPS

----------------------------------------------------------------------------
(* Extending a chain.                                                       *)

\* A hash covers the hash before it, so the next record is one of the type.
LEMMA EntryType ==
  ASSUME NEW chain \in Seq(Record), NEW body \in Bodies
  PROVE  /\ LastHash(chain) \in Hashes
         /\ Entry(chain, body) \in Record
         /\ Append(chain, Entry(chain, body)) \in Seq(Record)
  <1>1. LastHash(chain) \in Seq(Bodies)
    <2>1. CASE chain = <<>>
      BY <2>1 DEF LastHash
    <2>2. CASE chain # <<>>
      <3>1. Len(chain) \in 1..Len(chain)
        BY <2>2
      <3>2. chain[Len(chain)] \in Record
        BY <3>1
      <3> QED
        BY <2>2, <3>2 DEF LastHash, Record, Hashes
    <2> QED
      BY <2>1, <2>2
  <1>2. Append(LastHash(chain), body) \in Seq(Bodies)
    BY <1>1
  <1>3. Entry(chain, body) \in Record
    BY <1>1, <1>2 DEF Entry, Record, Hashes
  <1> QED
    BY <1>1, <1>3 DEF Hashes

\* A chain that verifies still does with the record that record() adds.
LEMMA AppendVerifies ==
  ASSUME NEW chain \in Seq(Record), NEW body \in Bodies, Verifies(chain)
  PROVE  Verifies(Append(chain, Entry(chain, body)))
  <1> DEFINE new == Append(chain, Entry(chain, body))
  <1>1. Entry(chain, body) \in Record
    BY EntryType
  <1>2. /\ Len(new) = Len(chain) + 1 /\ Len(chain) \in Nat
        /\ \A i \in 1..Len(chain) : new[i] = chain[i]
        /\ new[Len(chain) + 1] = Entry(chain, body)
    BY <1>1
  <1>3. ASSUME NEW i \in 1..Len(new) PROVE Links(new, i)
    <2>1. CASE i \in 1..Len(chain)
      <3>1. Links(chain, i)
        BY <2>1 DEF Verifies
      <3>2. new[i] = chain[i] /\ (i # 1 => new[i - 1] = chain[i - 1])
        BY <1>2, <2>1
      <3> QED
        BY <3>1, <3>2 DEF Links
    <2>2. CASE i = Len(chain) + 1
      <3>1. new[i] = Entry(chain, body)
        BY <1>2, <2>2
      <3>2. LastHash(chain) = IF i = 1 THEN <<>> ELSE new[i - 1].recordHash
        <4>1. CASE i = 1
          BY <4>1, <2>2 DEF LastHash
        <4>2. CASE i # 1
          <5>1. Len(chain) \in 1..Len(chain) /\ i - 1 = Len(chain) /\ chain # <<>>
            BY <1>2, <2>2, <4>2
          <5>2. new[i - 1] = chain[Len(chain)]
            BY <1>2, <5>1
          <5> QED
            BY <4>2, <5>1, <5>2 DEF LastHash
        <4> QED
          BY <4>1, <4>2
      <3> HIDE DEF new
      <3> QED
        BY <3>1, <3>2 DEF Links, Entry
    <2> QED
      BY <1>2, <2>1, <2>2
  <1> QED
    BY <1>3 DEF Verifies
----------------------------------------------------------------------------
LEMMA AuditInvStep ==
  ASSUME AuditInv, [AuditNext]_auditVars
  PROVE  AuditInv'
  <1> USE DEF AuditInv, AuditTypeOK, MemoryIsDisk, DiskVerifies
  <1>1. CASE UNCHANGED auditVars
    BY <1>1 DEF auditVars, Verifies, Links
  <1>2. CASE \E body \in Bodies : Write(body)
    <2>1. PICK body \in Bodies : Write(body)
      BY <1>2
    <2>2. disk' = Append(disk, Entry(disk, body)) /\ audit' = disk'
      BY <2>1 DEF Write
    <2>3. disk' \in Seq(Record) /\ Verifies(disk')
      BY <2>2, EntryType, AppendVerifies
    <2>4. running' = running /\ healthy' = TRUE
      BY <2>1 DEF Write
    <2>5. DiskVerifies'
      BY <2>3 DEF Verifies, Links
    <2> QED
      BY <2>2, <2>3, <2>4, <2>5
  <1>3. CASE WriteFails \/ Probe
    BY <1>3 DEF WriteFails, Probe, Verifies, Links
  <1>4. CASE Crash
    <2>1. audit' = <<>> /\ running' = FALSE /\ healthy' = TRUE
      BY <1>4 DEF Crash
    <2>2. disk' = disk \/ \E body \in Bodies : disk' = Append(disk, Entry(disk, body))
      BY <1>4 DEF Crash
    <2>3. disk' \in Seq(Record) /\ Verifies(disk')
      BY <2>2, EntryType, AppendVerifies
    <2>4. DiskVerifies'
      BY <2>3 DEF Verifies, Links
    <2>5. AuditTypeOK'
      <3>1. <<>> \in Seq(Record)
        OBVIOUS
      <3> QED
        BY <2>1, <2>3, <3>1
    <2> QED
      BY <2>1, <2>4, <2>5
  <1>5. CASE Start
    BY <1>5 DEF Start, Verifies, Links
  <1> QED
    BY <1>1, <1>2, <1>3, <1>4, <1>5 DEF AuditNext

\* Memory and file agree while the node runs, and the file verifies whenever a
\* crash may leave it (main.py, State.record and __init__).
THEOREM AuditInvariant == AuditSpec => []AuditInv
  <1>1. AuditInit => AuditInv
    BY DEF AuditInit, AuditInv, AuditTypeOK, MemoryIsDisk, DiskVerifies, Verifies
  <1>2. AuditInv /\ [AuditNext]_auditVars => AuditInv'
    BY AuditInvStep
  <1> QED
    BY <1>1, <1>2, PTL DEF AuditSpec

LEMMA StepKeepsEvidence ==
  ASSUME AuditInv, [AuditNext]_auditVars
  PROVE  /\ Len(disk) <= Len(disk')
         /\ \A i \in 1..Len(disk) : disk'[i] = disk[i]
  <1>1. disk \in Seq(Record)
    BY DEF AuditInv, AuditTypeOK
  <1>2. \/ disk' = disk
        \/ \E body \in Bodies : disk' = Append(disk, Entry(disk, body))
    BY DEF AuditNext, auditVars, Write, WriteFails, Probe, Crash, Start,
           AuditInv, MemoryIsDisk
  <1>3. CASE disk' = disk
    BY <1>1, <1>3
  <1>4. CASE \E body \in Bodies : disk' = Append(disk, Entry(disk, body))
    <2>1. PICK body \in Bodies : disk' = Append(disk, Entry(disk, body))
      BY <1>4
    <2>2. Entry(disk, body) \in Record
      BY <1>1, EntryType
    <2> QED
      BY <1>1, <2>1, <2>2
  <1> QED
    BY <1>2, <1>3, <1>4

\* No record that reached the file is ever lost or rewritten.
THEOREM EvidenceIsKept == AuditSpec => EvidenceSurvives
  <1>1. AuditInv /\ [AuditNext]_auditVars =>
          [/\ Len(disk) <= Len(disk')
           /\ \A i \in 1..Len(disk) : disk'[i] = disk[i]]_auditVars
    BY StepKeepsEvidence
  <1> QED
    BY <1>1, AuditInvariant, PTL DEF AuditSpec, EvidenceSurvives
----------------------------------------------------------------------------
\* As long as every record's JSON keeps to one line as splitlines() sees it, a
\* node can always be started on the file it left; U+0085, U+2028 and U+2029 in
\* a text are the only way it cannot (run audit_replay).
OneLineInv == AuditInv /\ OneLineEach(disk)

LEMMA AppendOneLine ==
  ASSUME NEW chain \in Seq(Record), NEW body \in Bodies,
         OneLineEach(chain), Bodies \subseteq PlainBodies
  PROVE  OneLineEach(Append(chain, Entry(chain, body)))
  <1>1. Entry(chain, body) \in Record /\ Entry(chain, body).body = body
    BY EntryType DEF Entry
  <1> QED
    BY <1>1 DEF OneLineEach

THEOREM PlainEvidenceReplays ==
  ASSUME Bodies \subseteq PlainBodies
  PROVE  AuditSpec => []RestartsOnItsEvidence
  <1>1. AuditInv /\ [AuditNext]_auditVars => AuditInv'
    BY AuditInvStep
  <1>2. AuditInit => OneLineInv
    BY DEF AuditInit, OneLineInv, OneLineEach, AuditInv, AuditTypeOK, MemoryIsDisk,
           DiskVerifies, Verifies
  <1>3. OneLineInv /\ [AuditNext]_auditVars => OneLineInv'
    <2> SUFFICES ASSUME OneLineInv, [AuditNext]_auditVars PROVE OneLineEach(disk')
      BY <1>1 DEF OneLineInv, OneLineEach
    <2>1. disk \in Seq(Record) /\ OneLineEach(disk)
      BY DEF OneLineInv, AuditInv, AuditTypeOK
    <2>2. \/ disk' = disk
          \/ \E body \in Bodies : disk' = Append(disk, Entry(disk, body))
      BY DEF AuditNext, auditVars, Write, WriteFails, Probe, Crash, Start,
             OneLineInv, AuditInv, MemoryIsDisk
    <2> QED
      BY <2>1, <2>2, AppendOneLine
  <1>4. OneLineInv => RestartsOnItsEvidence
    BY DEF OneLineInv, AuditInv, DiskVerifies, RestartsOnItsEvidence, Replays
  <1> QED
    BY <1>2, <1>3, <1>4, PTL DEF AuditSpec
=============================================================================
