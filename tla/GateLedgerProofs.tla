-------------------------- MODULE GateLedgerProofs --------------------------
(***************************************************************************)
(* Theorems about GateLedger, for any number of gates, jobs, transactions  *)
(* and calls: rows and locks keep their types, a gate serves one job, the  *)
(* answers are true, and the ledger implements GateUse.                    *)
(***************************************************************************)
EXTENDS GateLedger, TLAPS

(* The inductive invariant: what a call may rely on before each query.     *)

HasGate == {"lock_job", "set_running", "mark_used", "set_applied", "set_failed",
            "provider_audit", "gate_audit", "commit"}
HasJob == HasGate \ {"lock_job"}

\* The rows it locked are as it validated them.
HoldsRows(c) ==
  /\ call[c].pc \in HasGate => gateLock[GateOf[c]] = c /\ GateFits(c)
  /\ call[c].pc \in HasJob => jobLock[JobOf[c]] = c /\ JobFits(c)

\* Its audit key is nobody else's.
HoldsKey(c) ==
  /\ call[c].pc \in {"gate_audit", "commit"} => call[c].audited
  /\ call[c].audited => call[c].pc \in {"gate_audit", "commit", "rollback"}
  /\ call[c].audited => <<TxnOf[c], "provider">> \notin audit
  /\ \A d \in Calls \ {c} : call[c].audited /\ call[d].audited => TxnOf[c] # TxnOf[d]

\* It answers what it did.
Answers(c) ==
  /\ call[c].pc \in Queries \cup {"idle"} => c \notin committed /\ call[c].answer = "none"
  /\ c \in Applied /\ c \in committed => call[c].answer \in {"applied", "compensate"}
  /\ call[c].answer = "applied" => job[JobOf[c]] = "applied" /\ gate[GateOf[c]] = "used"

CallInv(c) == HoldsRows(c) /\ HoldsKey(c) /\ Answers(c)

\* The key of an append that is not done is nobody else's.
AppendInv(t) ==
  append[t] = "waiting" =>
    /\ <<t, "provider">> \notin audit
    /\ \A c \in Calls : call[c].audited => TxnOf[c] # t

IInv ==
  /\ TypeOK
  /\ \A c \in Calls : CallInv(c)
  /\ \A t \in Txns : AppendInv(t)
  /\ GateServesOneJob

-----------------------------------------------------------------------------
LEMMA InitInv == Init => IInv
<1>. SUFFICES ASSUME Init PROVE IInv
  OBVIOUS
<1>. USE ConstantsAssumption DEF Init, NewCall
<1>1. TypeOK
  BY DEF TypeOK
<1>2. \A c \in Calls : CallInv(c)
  BY DEF CallInv, HoldsRows, HoldsKey, Answers, HasGate, HasJob, Queries
<1>3. GateServesOneJob
  BY DEF GateServesOneJob
<1>4. \A t \in Txns : AppendInv(t)
  BY DEF AppendInv
<1>. QED
  BY <1>1, <1>2, <1>3, <1>4 DEF IInv

CallRecord == [pc : Queries \cup {"idle", "rollback", "done"},
               answer : {"none", "applied", "failed", "compensate", "not_recorded"},
               audited : BOOLEAN]

\* A step that leaves the rows alone, gives call c the record r and takes or
\* frees locks for c only.
MovesTo(c, r) ==
  /\ r \in CallRecord
  /\ call' = [call EXCEPT ![c] = r]
  /\ rows' = rows /\ append' = append /\ committed' = committed /\ faults' \in 0 .. MaxFaults
  /\ gateLock' \in [Gates -> Calls \cup {Nobody}] /\ jobLock' \in [Jobs -> Calls \cup {Nobody}]
  /\ \A g \in Gates : gateLock'[g] = gateLock[g]
                      \/ (gateLock[g] \in {c, Nobody} /\ gateLock'[g] \in {c, Nobody})
  /\ \A j \in Jobs : jobLock'[j] = jobLock[j]
                     \/ (jobLock[j] \in {c, Nobody} /\ jobLock'[j] \in {c, Nobody})

\* What r and the locks must satisfy for the invariant to hold again.
LocksFit(c, r) ==
  /\ \A g \in Gates : gateLock'[g] = c => r.pc \in (Queries \ {"lock_gate"}) \cup {"rollback"}
  /\ \A j \in Jobs : jobLock'[j] = c => r.pc \in (Queries \ {"lock_gate", "lock_job"}) \cup {"rollback"}
  /\ r.pc \in HasGate => gateLock'[GateOf[c]] = c /\ GateFits(c)
  /\ r.pc \in HasJob => jobLock'[JobOf[c]] = c /\ JobFits(c)

RecordFits(c, r) ==
  /\ r.pc \in {"gate_audit", "commit"} => r.audited
  /\ r.audited => /\ r.pc \in {"gate_audit", "commit", "rollback"}
                  /\ call[c].audited \/ (~Pending(TxnOf[c]) /\ <<TxnOf[c], "provider">> \notin audit)
  /\ r.pc \in Queries \cup {"idle"} => c \notin committed /\ r.answer = "none"
  /\ c \in Applied /\ c \in committed => r.answer \in {"applied", "compensate"}
  /\ r.answer = "applied" => call[c].answer = "applied"

LEMMA MovesKeep ==
  ASSUME IInv, NEW c \in Calls, NEW r, MovesTo(c, r), LocksFit(c, r), RecordFits(c, r)
  PROVE  IInv'
<1>. USE ConstantsAssumption DEF IInv
<1>1. /\ gate' = gate /\ job' = job /\ audit' = audit /\ append' = append /\ committed' = committed
      /\ call \in [Calls -> CallRecord] /\ call'[c] = r
      /\ \A d \in Calls \ {c} : call'[d] = call[d]
      /\ c # Nobody
  BY DEF MovesTo, rows, TypeOK, CallRecord
<1>2. TypeOK'
  <2>1. call' \in [Calls -> CallRecord]
    BY <1>1 DEF MovesTo
  <2>2. \A g \in Gates : gateLock'[g] # Nobody =>
          call'[gateLock'[g]].pc \in (Queries \ {"lock_gate"}) \cup {"rollback"}
    <3>. SUFFICES ASSUME NEW g \in Gates, gateLock'[g] # Nobody
                  PROVE  call'[gateLock'[g]].pc \in (Queries \ {"lock_gate"}) \cup {"rollback"}
      OBVIOUS
    <3>1. CASE gateLock'[g] = c
      BY <3>1, <1>1 DEF LocksFit
    <3>2. CASE gateLock'[g] # c
      <4>1. gateLock'[g] = gateLock[g] /\ gateLock[g] \in Calls \ {c}
        BY <3>2 DEF MovesTo
      <4>. QED
        BY <4>1, <1>1 DEF TypeOK
    <3>. QED
      BY <3>1, <3>2
  <2>3. \A j \in Jobs : jobLock'[j] # Nobody =>
          call'[jobLock'[j]].pc \in (Queries \ {"lock_gate", "lock_job"}) \cup {"rollback"}
    <3>. SUFFICES ASSUME NEW j \in Jobs, jobLock'[j] # Nobody
                  PROVE  call'[jobLock'[j]].pc \in (Queries \ {"lock_gate", "lock_job"}) \cup {"rollback"}
      OBVIOUS
    <3>1. CASE jobLock'[j] = c
      BY <3>1, <1>1 DEF LocksFit
    <3>2. CASE jobLock'[j] # c
      <4>1. jobLock'[j] = jobLock[j] /\ jobLock[j] \in Calls \ {c}
        BY <3>2 DEF MovesTo
      <4>. QED
        BY <4>1, <1>1 DEF TypeOK
    <3>. QED
      BY <3>1, <3>2
  <2>. QED
    BY <1>1, <2>1, <2>2, <2>3 DEF TypeOK, MovesTo, CallRecord
<1>3. CallInv(c)'
  <2>1. HoldsRows(c)'
    BY <1>1 DEF HoldsRows, LocksFit, GateFits, JobFits
  <2>2. HoldsKey(c)'
    BY <1>1 DEF HoldsKey, RecordFits, Pending, CallInv
  <2>3. Answers(c)'
    BY <1>1 DEF Answers, RecordFits, CallInv
  <2>. QED
    BY <2>1, <2>2, <2>3 DEF CallInv
<1>4. ASSUME NEW d \in Calls \ {c} PROVE CallInv(d)'
  <2>1. HoldsRows(d)'
    BY <1>1, <1>4 DEF HoldsRows, GateFits, JobFits, CallInv, MovesTo
  <2>2. HoldsKey(d)'
    BY <1>1, <1>4 DEF HoldsKey, RecordFits, Pending, CallInv
  <2>3. Answers(d)'
    BY <1>1, <1>4 DEF Answers, CallInv
  <2>. QED
    BY <2>1, <2>2, <2>3 DEF CallInv
<1>5. GateServesOneJob'
  BY <1>1 DEF GateServesOneJob
<1>6. ASSUME NEW t \in Txns PROVE AppendInv(t)'
  <2>1. r.audited => call[c].audited \/ append[TxnOf[c]] # "waiting"
    BY DEF RecordFits, Pending
  <2>. QED
    BY <1>1, <1>6, <2>1 DEF AppendInv
<1>. QED
  BY <1>2, <1>3, <1>4, <1>5, <1>6

-----------------------------------------------------------------------------
(* Records.                                                                *)

LEMMA PcSet ==
  ASSUME NEW r \in CallRecord, NEW q \in Queries \cup {"idle", "rollback", "done"}
  PROVE  LET s == [r EXCEPT !.pc = q]
         IN  s \in CallRecord /\ s.pc = q /\ s.answer = r.answer /\ s.audited = r.audited
BY DEF CallRecord

LEMMA FailedRecord ==
  ASSUME NEW c \in Calls, call[c] \in CallRecord
  PROVE  /\ Failed(c) \in CallRecord /\ Failed(c).pc = "rollback"
         /\ Failed(c).audited = call[c].audited
         /\ Failed(c).answer = IF Compensates(c) THEN "compensate" ELSE "not_recorded"
<1>. DEFINE a == IF Compensates(c) THEN "compensate" ELSE "not_recorded"
<1>1. a \in {"compensate", "not_recorded"}
  OBVIOUS
<1>2. ASSUME NEW r \in CallRecord, NEW b \in {"compensate", "not_recorded"}
      PROVE  LET s == [r EXCEPT !.pc = "rollback", !.answer = b]
             IN  s \in CallRecord /\ s.pc = "rollback" /\ s.audited = r.audited /\ s.answer = b
  BY <1>2 DEF CallRecord
<1>3. Failed(c) = [call[c] EXCEPT !.pc = "rollback", !.answer = a]
  BY DEF Failed
<1>. HIDE DEF a
<1>4. LET s == [call[c] EXCEPT !.pc = "rollback", !.answer = a]
      IN  s \in CallRecord /\ s.pc = "rollback" /\ s.audited = call[c].audited /\ s.answer = a
  BY <1>1, <1>2
<1>. QED
  BY <1>3, <1>4 DEF a

LEMMA Records == ASSUME IInv PROVE call \in [Calls -> CallRecord]
BY DEF IInv, TypeOK, CallRecord

-----------------------------------------------------------------------------
(* Each step keeps the invariant.                                          *)

\* BEGIN.
LEMMA BeginKeeps ==
  ASSUME IInv, NEW c \in Calls, Begin(c)
  PROVE  IInv'
<1>. DEFINE r == [call[c] EXCEPT !.pc = "lock_gate"]
<1>1. r \in CallRecord /\ r.pc = "lock_gate" /\ r.answer = call[c].answer /\ r.audited = call[c].audited
  BY PcSet, Records DEF Queries
<1>2. call' = [call EXCEPT ![c] = r]
  BY DEF Begin, Goto
<1>. HIDE DEF r
<1>3. MovesTo(c, r)
  BY <1>1, <1>2 DEF Begin, MovesTo, IInv, TypeOK, rows, locks
<1>4. LocksFit(c, r)
  <2>1. gateLock' = gateLock /\ jobLock' = jobLock /\ call[c].pc = "idle" /\ c # Nobody
    BY ConstantsAssumption DEF Begin, At, locks
  <2>2. /\ \A g \in Gates : gateLock[g] # c
        /\ \A j \in Jobs : jobLock[j] # c
    BY <2>1 DEF IInv, TypeOK, Queries
  <2>. QED
    BY <1>1, <2>1, <2>2 DEF LocksFit, HasGate, HasJob
<1>5. RecordFits(c, r)
  BY <1>1 DEF Begin, At, RecordFits, IInv, CallInv, HoldsKey, Answers, Queries
<1>. QED
  BY <1>3, <1>4, <1>5, MovesKeep

\* A query fails: the call goes on to ROLLBACK with the locks it has.
LEMMA FailKeeps ==
  ASSUME IInv, NEW c \in Calls, Fail(c), call[c].pc \in Queries,
         rows' = rows, append' = append, committed' = committed, faults' \in 0 .. MaxFaults,
         gateLock' \in [Gates -> Calls \cup {Nobody}], jobLock' \in [Jobs -> Calls \cup {Nobody}],
         \A g \in Gates : gateLock'[g] = gateLock[g] \/ (gateLock[g] = Nobody /\ gateLock'[g] = c),
         \A j \in Jobs : jobLock'[j] = jobLock[j] \/ (jobLock[j] = Nobody /\ jobLock'[j] = c)
  PROVE  IInv'
<1>. DEFINE r == Failed(c)
<1>1. r \in CallRecord /\ r.pc = "rollback" /\ r.audited = call[c].audited
      /\ r.answer \in {"compensate", "not_recorded"}
  BY FailedRecord, Records
<1>2. call' = [call EXCEPT ![c] = r]
  BY DEF Fail
<1>. HIDE DEF r
<1>3. MovesTo(c, r)
  BY <1>1, <1>2 DEF MovesTo
<1>4. LocksFit(c, r)
  BY <1>1 DEF LocksFit, HasGate, HasJob
<1>5. RecordFits(c, r)
  BY <1>1 DEF RecordFits, IInv, CallInv, HoldsKey, Answers, Queries
<1>. QED
  BY <1>3, <1>4, <1>5, MovesKeep

\* A query rejects.
LEMMA RejectKeeps == ASSUME IInv, NEW c \in Calls, Reject(c) PROVE IInv'
<1>1. call[c].pc \in Queries /\ Fail(c) /\ rows' = rows /\ append' = append /\ committed' = committed
      /\ gateLock' = gateLock /\ jobLock' = jobLock
  BY DEF Reject, locks
<1>2. faults' \in 0 .. MaxFaults
  BY ConstantsAssumption DEF Reject, IInv, TypeOK
<1>3. gateLock \in [Gates -> Calls \cup {Nobody}] /\ jobLock \in [Jobs -> Calls \cup {Nobody}]
  BY DEF IInv, TypeOK
<1>. QED
  BY <1>1, <1>2, <1>3, FailKeeps

\* The gate is locked and validated.
LEMMA LockGateKeeps == ASSUME IInv, NEW c \in Calls, LockGate(c) PROVE IInv'
<1>. USE DEF LockGate
<1>0. gateLock' \in [Gates -> Calls \cup {Nobody}] /\ GateOf[c] \in Gates /\ faults' \in 0 .. MaxFaults
  BY ConstantsAssumption DEF IInv, TypeOK
<1>1. CASE ~GateFits(c)
  BY <1>0, <1>1, FailKeeps DEF IInv, TypeOK, At, Queries
<1>2. CASE GateFits(c)
  <2>. DEFINE r == [call[c] EXCEPT !.pc = "lock_job"]
  <2>1. r \in CallRecord /\ r.pc = "lock_job" /\ r.answer = call[c].answer /\ r.audited = call[c].audited
    BY PcSet, Records DEF Queries
  <2>2. call' = [call EXCEPT ![c] = r]
    BY <1>2 DEF Goto
  <2>. HIDE DEF r
  <2>3. MovesTo(c, r)
    BY <1>0, <2>1, <2>2 DEF MovesTo, IInv, TypeOK, rows
  <2>4. LocksFit(c, r)
    BY <1>0, <1>2, <2>1, ConstantsAssumption DEF LocksFit, IInv, TypeOK, At, HasGate, HasJob, Queries
  <2>5. RecordFits(c, r)
    BY <2>1 DEF RecordFits, IInv, CallInv, HoldsKey, Answers, Queries, At
  <2>. QED
    BY <2>3, <2>4, <2>5, MovesKeep
<1>. QED
  BY <1>1, <1>2

\* The job is locked and validated.
LEMMA LockJobKeeps == ASSUME IInv, NEW c \in Calls, LockJob(c) PROVE IInv'
<1>. USE DEF LockJob
<1>0. jobLock' \in [Jobs -> Calls \cup {Nobody}] /\ JobOf[c] \in Jobs /\ faults' \in 0 .. MaxFaults
  BY ConstantsAssumption DEF IInv, TypeOK
<1>1. CASE ~JobFits(c)
  BY <1>0, <1>1, FailKeeps DEF IInv, TypeOK, At, Queries
<1>2. CASE JobFits(c)
  <2>. DEFINE q == IF c \in Applied THEN "set_running" ELSE "set_failed"
              r == [call[c] EXCEPT !.pc = q]
  <2>0. q \in {"set_running", "set_failed"}
    OBVIOUS
  <2>2. call' = [call EXCEPT ![c] = r]
    BY <1>2 DEF Goto
  <2>. HIDE DEF q
  <2>1. r \in CallRecord /\ r.pc = q /\ r.answer = call[c].answer /\ r.audited = call[c].audited
    BY <2>0, PcSet, Records DEF Queries
  <2>. HIDE DEF r
  <2>3. MovesTo(c, r)
    BY <1>0, <2>1, <2>2 DEF MovesTo, IInv, TypeOK, rows
  <2>4. LocksFit(c, r)
    BY <1>0, <1>2, <2>0, <2>1, ConstantsAssumption DEF LocksFit, IInv, TypeOK, At, HasGate, HasJob, Queries, CallInv, HoldsRows
  <2>5. RecordFits(c, r)
    BY <2>0, <2>1 DEF RecordFits, IInv, CallInv, HoldsKey, Answers, Queries, At
  <2>. QED
    BY <2>3, <2>4, <2>5, MovesKeep
<1>. QED
  BY <1>1, <1>2

\* An update of the locked rows, unseen until COMMIT.
LEMMA UpdateKeeps == ASSUME IInv, NEW c \in Calls, Update(c) PROVE IInv'
<1>1. PICK q \in {"mark_used", "set_applied", "provider_audit"} :
        Goto(c, q) /\ call[c].pc \in HasJob \ {"gate_audit", "commit"}
  BY DEF Update, At, HasJob, HasGate
<1>. DEFINE r == [call[c] EXCEPT !.pc = q]
<1>2. r \in CallRecord /\ r.pc = q /\ r.answer = call[c].answer /\ r.audited = call[c].audited
  BY PcSet, Records DEF Queries
<1>3. call' = [call EXCEPT ![c] = r]
  BY <1>1 DEF Goto
<1>. HIDE DEF r
<1>4. MovesTo(c, r)
  BY <1>2, <1>3 DEF Update, MovesTo, IInv, TypeOK, rows, locks
<1>5. LocksFit(c, r)
  BY <1>1, <1>2, ConstantsAssumption DEF Update, LocksFit, IInv, TypeOK, CallInv, HoldsRows, HasGate, HasJob, Queries, locks
<1>6. RecordFits(c, r)
  BY <1>1, <1>2 DEF RecordFits, IInv, CallInv, HoldsKey, Answers, Queries, HasGate, HasJob
<1>. QED
  BY <1>4, <1>5, <1>6, MovesKeep

\* The audit key is inserted, or was in the table before.
LEMMA ProviderAuditKeeps == ASSUME IInv, NEW c \in Calls, ProviderAudit(c) PROVE IInv'
<1>. USE DEF ProviderAudit
<1>0. /\ gateLock' = gateLock /\ jobLock' = jobLock /\ faults' \in 0 .. MaxFaults
      /\ rows' = rows /\ append' = append /\ committed' = committed
  BY DEF IInv, TypeOK, locks
<1>1. CASE <<TxnOf[c], "provider">> \in audit
  BY <1>0, <1>1, FailKeeps DEF IInv, TypeOK, At, Queries
<1>2. CASE <<TxnOf[c], "provider">> \notin audit
  <2>. DEFINE q == IF c \in Applied THEN "gate_audit" ELSE "commit"
              r == [call[c] EXCEPT !.audited = TRUE, !.pc = q]
  <2>0. q \in {"gate_audit", "commit"}
    OBVIOUS
  <2>2. call' = [call EXCEPT ![c] = r]
    BY <1>2
  <2>. HIDE DEF q
  <2>3. ASSUME NEW s \in CallRecord
        PROVE  LET z == [s EXCEPT !.audited = TRUE, !.pc = q]
               IN  z \in CallRecord /\ z.pc = q /\ z.answer = s.answer /\ z.audited = TRUE
    BY <2>0 DEF CallRecord, Queries
  <2>1. r \in CallRecord /\ r.pc = q /\ r.answer = call[c].answer /\ r.audited = TRUE
    BY <2>3, Records
  <2>. HIDE DEF r
  <2>4. MovesTo(c, r)
    BY <1>0, <2>1, <2>2 DEF MovesTo, IInv, TypeOK
  <2>5. LocksFit(c, r)
    BY <1>0, <2>0, <2>1, ConstantsAssumption DEF LocksFit, IInv, TypeOK, At, HasGate, HasJob, Queries, CallInv, HoldsRows
  <2>6. RecordFits(c, r)
    BY <1>2, <2>0, <2>1 DEF RecordFits, IInv, CallInv, HoldsKey, Answers, Queries, At
  <2>. QED
    BY <2>4, <2>5, <2>6, MovesKeep
<1>. QED
  BY <1>1, <1>2

\* The second audit row.
LEMMA GateAuditKeeps ==
  ASSUME IInv, NEW c \in Calls, GateAudit(c)
  PROVE  IInv'
<1>. DEFINE r == [call[c] EXCEPT !.pc = "commit"]
<1>1. r \in CallRecord /\ r.pc = "commit" /\ r.answer = call[c].answer /\ r.audited = call[c].audited
  BY PcSet, Records DEF Queries
<1>2. call' = [call EXCEPT ![c] = r]
  BY DEF GateAudit, Goto
<1>. HIDE DEF r
<1>3. MovesTo(c, r)
  BY <1>1, <1>2 DEF GateAudit, MovesTo, IInv, TypeOK, rows, locks
<1>4. LocksFit(c, r)
  BY <1>1, ConstantsAssumption DEF GateAudit, At, LocksFit, IInv, TypeOK, CallInv, HoldsRows, HasGate, HasJob, Queries, locks
<1>5. RecordFits(c, r)
  BY <1>1 DEF GateAudit, At, RecordFits, IInv, CallInv, HoldsKey, Answers, Queries
<1>. QED
  BY <1>3, <1>4, <1>5, MovesKeep

\* The end of a transaction frees its locks and no others.
LEMMA ReleasedLocks ==
  ASSUME IInv, NEW c \in Calls, Release(c)
  PROVE  /\ gateLock' \in [Gates -> Calls \cup {Nobody}] /\ jobLock' \in [Jobs -> Calls \cup {Nobody}]
         /\ \A g \in Gates : /\ gateLock[g] = c => gateLock'[g] = Nobody
                             /\ gateLock[g] # c => gateLock'[g] = gateLock[g]
         /\ \A j \in Jobs : /\ jobLock[j] = c => jobLock'[j] = Nobody
                            /\ jobLock[j] # c => jobLock'[j] = jobLock[j]
BY DEF IInv, TypeOK, Release, Released

\* The transaction ends without its writes.
LEMMA RollbackKeeps == ASSUME IInv, NEW c \in Calls, Rollback(c) PROVE IInv'
<1>. DEFINE r == [call[c] EXCEPT !.pc = "done", !.audited = FALSE]
<1>0. ASSUME NEW s \in CallRecord
      PROVE  LET z == [s EXCEPT !.pc = "done", !.audited = FALSE]
             IN  z \in CallRecord /\ z.pc = "done" /\ z.answer = s.answer /\ z.audited = FALSE
  BY DEF CallRecord
<1>1. r \in CallRecord /\ r.pc = "done" /\ r.answer = call[c].answer /\ r.audited = FALSE
  BY <1>0, Records
<1>2. call' = [call EXCEPT ![c] = r]
  BY DEF Rollback
<1>. HIDE DEF r
<1>3. /\ gateLock' \in [Gates -> Calls \cup {Nobody}] /\ jobLock' \in [Jobs -> Calls \cup {Nobody}]
      /\ \A g \in Gates : /\ gateLock[g] = c => gateLock'[g] = Nobody
                          /\ gateLock[g] # c => gateLock'[g] = gateLock[g]
      /\ \A j \in Jobs : /\ jobLock[j] = c => jobLock'[j] = Nobody
                         /\ jobLock[j] # c => jobLock'[j] = jobLock[j]
  BY ReleasedLocks DEF Rollback
<1>5. MovesTo(c, r)
  <2>1. faults' \in 0 .. MaxFaults
    BY ConstantsAssumption DEF Rollback, IInv, TypeOK
  <2>. QED
    BY <1>1, <1>2, <1>3, <2>1 DEF Rollback, MovesTo, rows
<1>6. LocksFit(c, r)
  BY <1>1, <1>3, ConstantsAssumption DEF LocksFit, HasGate, HasJob
<1>4. RecordFits(c, r)
  BY <1>1 DEF Rollback, At, RecordFits, IInv, CallInv, Answers, Queries
<1>. QED
  BY <1>4, <1>5, <1>6, MovesKeep

\* The connection is lost.
LEMMA DropKeeps == ASSUME IInv, NEW c \in Calls, Drop(c) PROVE IInv'
<1>. DEFINE r == [call[c] EXCEPT !.pc = "done", !.audited = FALSE]
<1>0. ASSUME NEW s \in CallRecord
      PROVE  LET z == [s EXCEPT !.pc = "done", !.audited = FALSE]
             IN  z \in CallRecord /\ z.pc = "done" /\ z.answer = s.answer /\ z.audited = FALSE
  BY DEF CallRecord
<1>1. r \in CallRecord /\ r.pc = "done" /\ r.answer = call[c].answer /\ r.audited = FALSE
  BY <1>0, Records
<1>2. call' = [call EXCEPT ![c] = r]
  BY DEF Drop
<1>. HIDE DEF r
<1>3. /\ gateLock' \in [Gates -> Calls \cup {Nobody}] /\ jobLock' \in [Jobs -> Calls \cup {Nobody}]
      /\ \A g \in Gates : /\ gateLock[g] = c => gateLock'[g] = Nobody
                          /\ gateLock[g] # c => gateLock'[g] = gateLock[g]
      /\ \A j \in Jobs : /\ jobLock[j] = c => jobLock'[j] = Nobody
                         /\ jobLock[j] # c => jobLock'[j] = jobLock[j]
  BY ReleasedLocks DEF Drop
<1>5. MovesTo(c, r)
  <2>1. faults' \in 0 .. MaxFaults
    BY ConstantsAssumption DEF Drop, IInv, TypeOK
  <2>. QED
    BY <1>1, <1>2, <1>3, <2>1 DEF Drop, MovesTo, rows
<1>6. LocksFit(c, r)
  BY <1>1, <1>3, ConstantsAssumption DEF LocksFit, HasGate, HasJob
<1>4. RecordFits(c, r)
  BY <1>1 DEF Drop, At, RecordFits, IInv, CallInv, Answers, Queries
<1>. QED
  BY <1>4, <1>5, <1>6, MovesKeep

\* A record that is typed and agrees with what COMMIT did.
CommittedRecord(c, r) ==
  /\ r \in CallRecord /\ r.pc \in {"done", "rollback"} /\ ~r.audited
  /\ c \in Applied => r.answer \in {"applied", "compensate"}
  /\ c \notin Applied => r.answer # "applied"

\* COMMIT, answered or not.
LEMMA CommitsKeep ==
  ASSUME IInv, NEW c \in Calls, At(c, "commit"), Commits(c), NEW r, CommittedRecord(c, r),
         call' = [call EXCEPT ![c] = r], append' = append, faults' \in 0 .. MaxFaults
  PROVE  IInv'
<1>. USE ConstantsAssumption DEF IInv
<1>1. /\ call \in [Calls -> CallRecord] /\ call'[c] = r /\ c # Nobody
      /\ \A d \in Calls \ {c} : call'[d] = call[d]
      /\ GateOf[c] \in Gates /\ JobOf[c] \in Jobs /\ TxnOf[c] \in Txns
  BY Records
<1>2. /\ gateLock[GateOf[c]] = c /\ jobLock[JobOf[c]] = c
      /\ gate[GateOf[c]] = "approved" /\ job[JobOf[c]] = "planned"
      /\ GateOfJob[JobOf[c]] = GateOf[c] /\ call[c].audited
  BY DEF CallInv, HoldsRows, HoldsKey, GateFits, JobFits, HasGate, HasJob, At
<1>3. /\ \A g \in Gates \ {GateOf[c]} : gate'[g] = gate[g]
      /\ \A j \in Jobs \ {JobOf[c]} : job'[j] = job[j]
      /\ c \in Applied => gate'[GateOf[c]] = "used" /\ job'[JobOf[c]] = "applied"
      /\ c \notin Applied => gate' = gate /\ job'[JobOf[c]] = "failed"
      /\ gate' \in [Gates -> {"approved", "used"}] /\ job' \in [Jobs -> {"planned", "applied", "failed"}]
  BY <1>1 DEF Commits, TypeOK
<1>4. /\ audit' \subseteq Txns \X {"provider", "gate"}
      /\ \A t \in Txns \ {TxnOf[c]} : <<t, "provider">> \in audit' => <<t, "provider">> \in audit
  BY <1>1 DEF Commits, TypeOK
<1>5. TypeOK'
  <2>1. call' \in [Calls -> CallRecord]
    BY <1>1 DEF CommittedRecord
  <2>2. \A g \in Gates : gateLock'[g] # Nobody => gateLock'[g] = gateLock[g] /\ gateLock[g] \in Calls \ {c}
    BY ReleasedLocks DEF Commits, TypeOK
  <2>3. \A j \in Jobs : jobLock'[j] # Nobody => jobLock'[j] = jobLock[j] /\ jobLock[j] \in Calls \ {c}
    BY ReleasedLocks DEF Commits, TypeOK
  <2>4. gateLock' \in [Gates -> Calls \cup {Nobody}] /\ jobLock' \in [Jobs -> Calls \cup {Nobody}]
    BY ReleasedLocks DEF Commits
  <2>5. \A g \in Gates : gateLock'[g] # Nobody =>
          call'[gateLock'[g]].pc \in (Queries \ {"lock_gate"}) \cup {"rollback"}
    BY <1>1, <2>2 DEF TypeOK
  <2>6. \A j \in Jobs : jobLock'[j] # Nobody =>
          call'[jobLock'[j]].pc \in (Queries \ {"lock_gate", "lock_job"}) \cup {"rollback"}
    BY <1>1, <2>3 DEF TypeOK
  <2>7. committed' \subseteq Calls
    BY DEF Commits, TypeOK
  <2>. QED
    BY <1>3, <1>4, <2>1, <2>4, <2>5, <2>6, <2>7 DEF TypeOK, CallRecord
<1>6. CallInv(c)'
  <2>1. HoldsRows(c)'
    BY <1>1 DEF HoldsRows, CommittedRecord, HasGate, HasJob
  <2>2. HoldsKey(c)'
    BY <1>1 DEF HoldsKey, CommittedRecord
  <2>3. Answers(c)'
    BY <1>1, <1>3 DEF Answers, CommittedRecord, Queries
  <2>. QED
    BY <2>1, <2>2, <2>3 DEF CallInv
<1>7. ASSUME NEW d \in Calls \ {c} PROVE CallInv(d)'
  <2>0. CallInv(d) /\ call'[d] = call[d] /\ d # c /\ TxnOf[d] \in Txns /\ GateOf[d] \in Gates /\ JobOf[d] \in Jobs
    BY <1>1, <1>7
  <2>1. HoldsRows(d)'
    <3>1. gateLock[GateOf[d]] = d => gateLock'[GateOf[d]] = d /\ gate'[GateOf[d]] = gate[GateOf[d]]
      BY <1>2, <1>3, <2>0, ReleasedLocks DEF Commits
    <3>2. jobLock[JobOf[d]] = d => jobLock'[JobOf[d]] = d /\ job'[JobOf[d]] = job[JobOf[d]]
      BY <1>2, <1>3, <2>0, ReleasedLocks DEF Commits
    <3>. QED
      BY <2>0, <3>1, <3>2 DEF CallInv, HoldsRows, GateFits, JobFits, HasGate, HasJob
  <2>2. HoldsKey(d)'
    <3>1. call[d].audited => TxnOf[d] # TxnOf[c]
      BY <1>2, <2>0 DEF CallInv, HoldsKey
    <3>2. call[d].audited => <<TxnOf[d], "provider">> \notin audit'
      BY <1>4, <2>0, <3>1 DEF CallInv, HoldsKey
    <3>. QED
      BY <1>1, <2>0, <3>2 DEF CallInv, HoldsKey, CommittedRecord
  <2>3. Answers(d)'
    BY <1>1, <1>2, <1>3, <2>0 DEF CallInv, Answers, Commits
  <2>. QED
    BY <2>1, <2>2, <2>3 DEF CallInv
<1>8. GateServesOneJob'
  <2>1. ASSUME NEW j \in Jobs, job[j] = "applied" PROVE GateOfJob[j] # GateOf[c] /\ j # JobOf[c]
    BY <1>2, <2>1 DEF GateServesOneJob
  <2>2. \A j \in Jobs : GateOfJob[j] \in Gates
    OBVIOUS
  <2>. QED
    BY <1>1, <1>2, <1>3, <2>1, <2>2 DEF GateServesOneJob
<1>9. ASSUME NEW t \in Txns PROVE AppendInv(t)'
  <2>1. append[t] = "waiting" => t # TxnOf[c]
    BY <1>2, <1>9 DEF AppendInv
  <2>. QED
    BY <1>1, <1>4, <1>9, <2>1 DEF AppendInv, CommittedRecord
<1>. QED
  BY <1>5, <1>6, <1>7, <1>8, <1>9

\* COMMIT that is answered.
LEMMA CommitKeeps == ASSUME IInv, NEW c \in Calls, Commit(c) PROVE IInv'
<1>. DEFINE a == IF c \in Applied THEN "applied" ELSE "failed"
            r == [pc |-> "done", audited |-> FALSE, answer |-> a]
<1>1. CommittedRecord(c, r)
  BY DEF CommittedRecord, CallRecord
<1>2. call' = [call EXCEPT ![c] = r]
  BY DEF Commit
<1>. HIDE DEF r
<1>. QED
  BY <1>1, <1>2, CommitsKeep DEF Commit, IInv, TypeOK

\* COMMIT that is not.
LEMMA CommitUnclearKeeps == ASSUME IInv, NEW c \in Calls, CommitUnclear(c) PROVE IInv'
<1>. DEFINE r == [Failed(c) EXCEPT !.audited = FALSE]
<1>1. ASSUME NEW s \in CallRecord
      PROVE  LET z == [s EXCEPT !.audited = FALSE]
             IN  z \in CallRecord /\ z.pc = s.pc /\ z.answer = s.answer /\ z.audited = FALSE
  BY DEF CallRecord
<1>2. r \in CallRecord /\ r.pc = "rollback" /\ r.audited = FALSE /\ r.answer = Failed(c).answer
  BY <1>1, FailedRecord, Records
<1>3. Failed(c).answer = IF c \in Applied THEN "compensate" ELSE "not_recorded"
  BY FailedRecord, Records DEF CommitUnclear, At, Compensates
<1>4. call' = [call EXCEPT ![c] = r]
  BY DEF CommitUnclear
<1>. HIDE DEF r
<1>5. CommittedRecord(c, r)
  BY <1>2, <1>3 DEF CommittedRecord
<1>6. faults' \in 0 .. MaxFaults
  BY ConstantsAssumption DEF CommitUnclear, IInv, TypeOK
<1>. QED
  BY <1>4, <1>5, <1>6, CommitsKeep DEF CommitUnclear

\* appendSafeAudit takes a key that is free.
LEMMA AppendInsertKeeps == ASSUME IInv, NEW t \in Txns, AppendInsert(t) PROVE IInv'
<1>. USE DEF AppendInsert, IInv, locks, rows
<1>1. TypeOK'
  BY DEF TypeOK
<1>2. ASSUME NEW c \in Calls PROVE CallInv(c)'
  BY <1>2 DEF CallInv, HoldsRows, HoldsKey, Answers, GateFits, JobFits
<1>3. ASSUME NEW u \in Txns PROVE AppendInv(u)'
  BY <1>3 DEF AppendInv, Pending, TypeOK
<1>4. GateServesOneJob'
  BY DEF GateServesOneJob
<1>. QED
  BY <1>1, <1>2, <1>3, <1>4

\* Its row is committed.
LEMMA AppendDoneKeeps == ASSUME IInv, NEW t \in Txns, AppendDone(t) PROVE IInv'
<1>. USE DEF AppendDone, IInv, locks
<1>1. TypeOK'
  BY DEF TypeOK
<1>2. ASSUME NEW c \in Calls PROVE CallInv(c)'
  <2>1. HoldsRows(c)' /\ Answers(c)'
    BY <1>2 DEF CallInv, HoldsRows, Answers, GateFits, JobFits
  <2>2. call[c].audited => TxnOf[c] # t
    BY <1>2 DEF AppendInv
  <2>3. HoldsKey(c)'
    BY <1>2, <2>2 DEF CallInv, HoldsKey
  <2>. QED
    BY <2>1, <2>3 DEF CallInv
<1>3. ASSUME NEW u \in Txns PROVE AppendInv(u)'
  BY <1>3 DEF AppendInv, TypeOK
<1>4. GateServesOneJob'
  BY DEF GateServesOneJob
<1>. QED
  BY <1>1, <1>2, <1>3, <1>4

\* It ends without a row.
LEMMA AppendFailsKeeps == ASSUME IInv, NEW t \in Txns, AppendFails(t) PROVE IInv'
<1>. USE DEF AppendFails, IInv, locks, rows
<1>1. TypeOK'
  BY DEF TypeOK
<1>2. ASSUME NEW c \in Calls PROVE CallInv(c)'
  BY <1>2 DEF CallInv, HoldsRows, HoldsKey, Answers, GateFits, JobFits
<1>3. ASSUME NEW u \in Txns PROVE AppendInv(u)'
  BY <1>3 DEF AppendInv, TypeOK
<1>4. GateServesOneJob'
  BY DEF GateServesOneJob
<1>. QED
  BY <1>1, <1>2, <1>3, <1>4

\* One side of a deadlock is made to fail.
LEMMA BreakDeadlockKeeps == ASSUME IInv, NEW c \in Calls, BreakDeadlock(c) PROVE IInv'
<1>1. call[c].pc \in Queries
  BY DEF BreakDeadlock, Deadlocked, Waiting, At, Queries
<1>2. CASE Fail(c) /\ UNCHANGED <<rows, locks, append, committed, faults>>
  BY <1>1, <1>2, FailKeeps DEF IInv, TypeOK, locks
<1>3. CASE AppendFails(TxnOf[c])
  BY <1>3, AppendFailsKeeps, ConstantsAssumption
<1>. QED
  BY <1>2, <1>3 DEF BreakDeadlock

LEMMA NextInv == IInv /\ [Next]_vars => IInv'
<1>. SUFFICES ASSUME IInv, [Next]_vars PROVE IInv'
  OBVIOUS
<1>1. ASSUME NEW c \in Calls, Begin(c) \/ Step(c) \/ CommitUnclear(c) \/ Reject(c) \/ Drop(c)
      PROVE  IInv'
  BY <1>1, BeginKeeps, LockGateKeeps, LockJobKeeps, UpdateKeeps, ProviderAuditKeeps, GateAuditKeeps,
     CommitKeeps, RollbackKeeps, CommitUnclearKeeps, RejectKeeps, DropKeeps, BreakDeadlockKeeps DEF Step
<1>2. ASSUME NEW t \in Txns, AppendInsert(t) \/ AppendDone(t) \/ AppendFails(t) PROVE IInv'
  BY <1>2, AppendInsertKeeps, AppendDoneKeeps, AppendFailsKeeps
<1>3. CASE UNCHANGED vars
  BY <1>3 DEF vars, rows, locks, IInv, TypeOK, CallInv, HoldsRows, HoldsKey, Answers, GateFits,
     JobFits, AppendInv, GateServesOneJob
<1>. QED
  BY <1>1, <1>2, <1>3 DEF Next

\* Rows, locks and calls keep their types, and every lock has a holder that
\* is inside its transaction.
THEOREM TypeCorrect == Spec => []TypeOK
<1>1. IInv => TypeOK
  BY DEF IInv
<1>. QED
  BY InitInv, NextInv, <1>1, PTL DEF Spec

\* A gate is used for one job only, whatever calls race, fail or are repeated.
THEOREM SingleUse == Spec => []GateServesOneJob
<1>1. IInv => GateServesOneJob
  BY DEF IInv
<1>. QED
  BY InitInv, NextInv, <1>1, PTL DEF Spec

\* "applied" is answered only for what is recorded, and "not recorded" only
\* for what is not.
THEOREM AnswersAreTrue == Spec => []AnsweredTruthfully
<1>1. IInv => AnsweredTruthfully
  BY ConstantsAssumption DEF IInv, CallInv, Answers, AnsweredTruthfully
<1>. QED
  BY InitInv, NextInv, <1>1, PTL DEF Spec

-----------------------------------------------------------------------------
\* COMMIT is one step of GateUse.
LEMMA CommitsUse ==
  ASSUME IInv, NEW c \in Calls, At(c, "commit"), Commits(c)
  PROVE  Use!Use(JobOf[c], TxnOf[c]) \/ Use!RecordFailure(JobOf[c], TxnOf[c])
<1>1. /\ gate[GateOf[c]] = "approved" /\ job[JobOf[c]] = "planned"
      /\ GateOfJob[JobOf[c]] = GateOf[c] /\ <<TxnOf[c], "provider">> \notin audit
  BY DEF IInv, CallInv, HoldsRows, HoldsKey, GateFits, JobFits, HasGate, HasJob, At
<1>2. CASE c \in Applied
  <2>1. {TxnOf[c]} \X {"provider", "gate"} = {<<TxnOf[c], "provider">>, <<TxnOf[c], "gate">>}
    OBVIOUS
  <2>. QED
    BY <1>1, <1>2, <2>1 DEF Commits, Use!Use
<1>3. CASE c \notin Applied
  <2>1. {TxnOf[c]} \X {"provider"} = {<<TxnOf[c], "provider">>}
    OBVIOUS
  <2>. QED
    BY <1>1, <1>3, <2>1 DEF Commits, Use!RecordFailure
<1>. QED
  BY <1>2, <1>3

\* Every step of the ledger is a step of GateUse or leaves its rows alone.
LEMMA StepImplements == IInv /\ [Next]_vars => [Use!Next]_rows
<1>. SUFFICES ASSUME IInv, [Next]_vars PROVE [Use!Next]_rows
  OBVIOUS
<1>1. ASSUME NEW c \in Calls, Commit(c) \/ CommitUnclear(c) PROVE Use!Next
  <2>1. JobOf[c] \in Jobs /\ TxnOf[c] \in Txns
    BY ConstantsAssumption
  <2>. QED
    BY <1>1, <2>1, CommitsUse DEF Commit, CommitUnclear, Use!Next
<1>2. ASSUME NEW c \in Calls,
             Begin(c) \/ LockGate(c) \/ LockJob(c) \/ Update(c) \/ ProviderAudit(c) \/ GateAudit(c)
               \/ Rollback(c) \/ Reject(c) \/ Drop(c) \/ BreakDeadlock(c)
      PROVE  UNCHANGED rows
  BY <1>2 DEF Begin, LockGate, LockJob, Update, ProviderAudit, GateAudit, Rollback, Reject, Drop,
     BreakDeadlock, AppendFails
<1>3. ASSUME NEW t \in Txns, AppendInsert(t) \/ AppendDone(t) \/ AppendFails(t)
      PROVE  Use!Next \/ UNCHANGED rows
  BY <1>3 DEF AppendInsert, AppendDone, AppendFails, Use!Next, Use!Append
<1>4. CASE UNCHANGED vars
  BY <1>4 DEF vars
<1>. QED
  BY <1>1, <1>2, <1>3, <1>4 DEF Next, Step

\* The ledger implements GateUse: the interleaved queries amount to atomic
\* uses of a gate.
THEOREM Refinement == Spec => ImplementsGateUse
<1>1. Init => Use!Init
  BY DEF Init, Use!Init
<1>2. IInv /\ [Next]_vars => [Use!Next]_(Use!rows)
  BY StepImplements DEF Use!rows, rows
<1>. QED
  BY <1>1, <1>2, InitInv, NextInv, PTL DEF Spec, ImplementsGateUse, Use!Spec

=============================================================================
