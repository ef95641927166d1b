----------------------------- MODULE GateLedger -----------------------------
(***************************************************************************)
(* PostgresProviderApplyTransactionAdapter.commitRecordedProviderApply:    *)
(* the database transaction that records what a provider apply did, with   *)
(* its row locks, run by several callers at once beside appendSafeAudit.   *)
(*                                                                         *)
(* One step is one query.  The variables gate, job and audit are the       *)
(* committed rows; what an open transaction has written shows in its pc    *)
(* and is seen by nobody else until COMMIT.  The database is external: row *)
(* locks last until the transaction ends, a locking read sees the rows as  *)
(* committed by then, a second insert of a key waits for the first, and a  *)
(* deadlock is broken by making one side fail.                             *)
(***************************************************************************)
EXTENDS Naturals

CONSTANTS
  Gates, Jobs, Txns,
  GateOfJob,   \* manual_gate_id of each job
  Calls,       \* calls of the adapter
  GateOf, JobOf, TxnOf,  \* the identities each call is given
  Appends,     \* transaction ids an appendSafeAudit is made under, too
  AppendJob,   \* the job it names
  Applied,     \* calls with providerApplySucceeded
  Unfit,       \* calls whose operation, commit, environment or time do not fit the gate
  Nobody,      \* holder of a free lock
  MaxFaults    \* bound: rejected queries and dropped connections

ASSUME ConstantsAssumption ==
  /\ GateOfJob \in [Jobs -> Gates]
  /\ GateOf \in [Calls -> Gates] /\ JobOf \in [Calls -> Jobs] /\ TxnOf \in [Calls -> Txns]
  /\ Appends \subseteq Txns /\ AppendJob \in [Txns -> Jobs]
  /\ Applied \subseteq Calls /\ Unfit \subseteq Calls
  /\ Nobody \notin Calls
  /\ MaxFaults \in Nat

VARIABLES
  gate, job, audit,  \* manual_gates, provider_deployment_jobs, the audit tables' keys
  gateLock, jobLock, \* external: the transaction holding each row
  append,            \* where the appendSafeAudit under each transaction id is
  call,              \* where each call is: its next query, or its answer
  committed,         \* history: calls whose transaction committed
  faults

rows == <<gate, job, audit>>
locks == <<gateLock, jobLock>>
vars == <<rows, locks, append, call, committed, faults>>

NewCall == [pc |-> "idle", answer |-> "none", audited |-> FALSE]

Init ==
  /\ gate = [g \in Gates |-> "approved"]
  /\ job = [j \in Jobs |-> "planned"]
  /\ audit = {}
  /\ gateLock = [g \in Gates |-> Nobody]
  /\ jobLock = [j \in Jobs |-> Nobody]
  /\ append = [t \in Txns |-> IF t \in Appends THEN "idle" ELSE "done"]
  /\ call = [c \in Calls |-> NewCall]
  /\ committed = {}
  /\ faults = 0

At(c, pc) == call[c].pc = pc

Goto(c, pc) == call' = [call EXCEPT ![c].pc = pc]

-----------------------------------------------------------------------------
(* How a call that failed answers.                                         *)

\* Mutant: an unclear COMMIT is taken for one that did nothing.
Compensates_NotCommit(c) ==
  c \in Applied /\ call[c].pc \in {"mark_used", "set_applied", "provider_audit", "gate_audit"}

\* shouldCompensate, by the query that failed; the classification of the
\* error adds no other phase.
Compensates(c) ==
  c \in Applied /\ call[c].pc \in {"mark_used", "set_applied", "provider_audit", "gate_audit", "commit"}

\* The catch block: the transaction, if one is open, is rolled back next.
Failed(c) ==
  [call[c] EXCEPT !.pc = "rollback",
                  !.answer = IF Compensates(c) THEN "compensate" ELSE "not_recorded"]

\* Mutant: the catch block answers without ending the transaction.
Fail_NoRollback(c) == call' = [call EXCEPT ![c] = [Failed(c) EXCEPT !.pc = "done"]]

Fail(c) == call' = [call EXCEPT ![c] = Failed(c)]

\* Mutant: the transaction is left open.
Released_Never(lock, c) == lock

Released(lock, c) == [r \in DOMAIN lock |-> IF lock[r] = c THEN Nobody ELSE lock[r]]

Release(c) ==
  /\ gateLock' = Released(gateLock, c)
  /\ jobLock' = Released(jobLock, c)

Rollback(c) ==
  /\ At(c, "rollback")
  /\ Release(c)
  /\ call' = [call EXCEPT ![c].pc = "done", ![c].audited = FALSE]
  /\ UNCHANGED <<rows, append, committed, faults>>

-----------------------------------------------------------------------------
(* The queries in order.                                                   *)

Begin(c) ==
  /\ At(c, "idle")
  /\ Goto(c, "lock_gate")
  /\ UNCHANGED <<rows, locks, append, committed, faults>>

\* validateManualGate on the row the lock returned.
GateFits(c) == gate[GateOf[c]] = "approved" /\ c \notin Unfit

LockGate(c) ==
  /\ At(c, "lock_gate")
  /\ gateLock[GateOf[c]] = Nobody
  /\ gateLock' = [gateLock EXCEPT ![GateOf[c]] = c]
  /\ IF GateFits(c) THEN Goto(c, "lock_job") ELSE Fail(c)
  /\ UNCHANGED <<rows, jobLock, append, committed, faults>>

\* Mutant: a failed job may be applied after all.
JobFits_Failed(c) ==
  /\ job[JobOf[c]] \in {"planned", "failed"}
  /\ GateOfJob[JobOf[c]] = GateOf[c]

\* validateProviderJob.  No commit leaves a job running, which the code treats
\* as planned.
JobFits(c) ==
  /\ job[JobOf[c]] = "planned"
  /\ GateOfJob[JobOf[c]] = GateOf[c]

LockJob(c) ==
  /\ At(c, "lock_job")
  /\ jobLock[JobOf[c]] = Nobody
  /\ jobLock' = [jobLock EXCEPT ![JobOf[c]] = c]
  /\ IF JobFits(c) THEN Goto(c, IF c \in Applied THEN "set_running" ELSE "set_failed")
                   ELSE Fail(c)
  /\ UNCHANGED <<rows, gateLock, append, committed, faults>>

\* Updates of the two locked rows; the conditions of markManualGateUsed are
\* those validated under the same lock.
Update(c) ==
  /\ \/ At(c, "set_running") /\ Goto(c, "mark_used")
     \/ At(c, "mark_used") /\ Goto(c, "set_applied")
     \/ At(c, "set_applied") /\ Goto(c, "provider_audit")
     \/ At(c, "set_failed") /\ Goto(c, "provider_audit")
  /\ UNCHANGED <<rows, locks, append, committed, faults>>

\* An open transaction, or an insert that is not done, has taken the key.
Pending(t) ==
  \/ append[t] = "waiting"
  \/ \E o \in Calls : TxnOf[o] = t /\ call[o].audited

\* The primary key is made of the transaction id.
ProviderAudit(c) ==
  /\ At(c, "provider_audit")
  /\ ~Pending(TxnOf[c])
  /\ IF <<TxnOf[c], "provider">> \in audit
     THEN Fail(c)
     ELSE call' = [call EXCEPT ![c].audited = TRUE,
                     ![c].pc = IF c \in Applied THEN "gate_audit" ELSE "commit"]
  /\ UNCHANGED <<rows, locks, append, committed, faults>>

GateAudit(c) ==
  /\ At(c, "gate_audit")
  /\ Goto(c, "commit")
  /\ UNCHANGED <<rows, locks, append, committed, faults>>

\* What COMMIT makes of the rows.
Commits(c) ==
  /\ gate' = IF c \in Applied THEN [gate EXCEPT ![GateOf[c]] = "used"] ELSE gate
  /\ job' = [job EXCEPT ![JobOf[c]] = IF c \in Applied THEN "applied" ELSE "failed"]
  /\ audit' = audit \cup ({TxnOf[c]} \X (IF c \in Applied THEN {"provider", "gate"} ELSE {"provider"}))
  /\ committed' = committed \cup {c}
  /\ Release(c)

Commit(c) ==
  /\ At(c, "commit")
  /\ Commits(c)
  /\ call' = [call EXCEPT ![c] = [pc |-> "done", audited |-> FALSE,
                                  answer |-> IF c \in Applied THEN "applied" ELSE "failed"]]
  /\ UNCHANGED <<append, faults>>

\* COMMIT rejects although the database applied it.
CommitUnclear(c) ==
  /\ At(c, "commit")
  /\ faults < MaxFaults
  /\ faults' = faults + 1
  /\ Commits(c)
  /\ call' = [call EXCEPT ![c] = [Failed(c) EXCEPT !.audited = FALSE]]
  /\ UNCHANGED append

Queries == {"lock_gate", "lock_job", "set_running", "mark_used", "set_applied",
            "set_failed", "provider_audit", "gate_audit", "commit"}

\* A query rejects: a lock time-out, a broken connection.  BEGIN
\* that rejects leaves nothing to roll back, as does a ROLLBACK that rejects.
Reject(c) ==
  /\ call[c].pc \in Queries
  /\ faults < MaxFaults
  /\ faults' = faults + 1
  /\ Fail(c)
  /\ UNCHANGED <<rows, locks, append, committed>>

\* The caller's process dies, and the database ends its transaction.
Drop(c) ==
  /\ call[c].pc \in Queries
  /\ faults < MaxFaults
  /\ faults' = faults + 1
  /\ Release(c)
  /\ call' = [call EXCEPT ![c].pc = "done", ![c].audited = FALSE]
  /\ UNCHANGED <<rows, append, committed>>

-----------------------------------------------------------------------------
(* appendSafeAudit: the same insert, outside any transaction.  It takes the *)
(* key first and then, for the foreign key on job_id, waits until nobody    *)
(* has locked the job.  Bound: one per transaction id of Appends.           *)

AppendInsert(t) ==
  /\ append[t] = "idle"
  /\ ~Pending(t) /\ <<t, "provider">> \notin audit
  /\ append' = [append EXCEPT ![t] = "waiting"]
  /\ UNCHANGED <<rows, locks, call, committed, faults>>

AppendDone(t) ==
  /\ append[t] = "waiting"
  /\ jobLock[AppendJob[t]] = Nobody
  /\ append' = [append EXCEPT ![t] = "done"]
  /\ audit' = audit \cup {<<t, "provider">>}
  /\ UNCHANGED <<gate, job, locks, call, committed, faults>>

\* The insert rejects or its connection is lost.
AppendFails(t) ==
  /\ append[t] = "waiting"
  /\ append' = [append EXCEPT ![t] = "done"]
  /\ UNCHANGED <<rows, locks, call, committed, faults>>

\* Calls that wait for the key of an append.
Waiting == {c \in Calls : At(c, "provider_audit") /\ append[TxnOf[c]] = "waiting"}

\* The call is one of some whose appends all wait for a job one of them has
\* locked.
Deadlocked(c) ==
  \E S \in SUBSET Waiting : c \in S /\ \A d \in S : jobLock[AppendJob[TxnOf[d]]] \in S

\* The database breaks a deadlock: the call's insert or the append rejects.
BreakDeadlock(c) ==
  /\ Deadlocked(c)
  /\ \/ Fail(c) /\ UNCHANGED <<rows, locks, append, committed, faults>>
     \/ AppendFails(TxnOf[c])

-----------------------------------------------------------------------------
Step(c) ==
  \/ LockGate(c) \/ LockJob(c) \/ Update(c) \/ ProviderAudit(c) \/ GateAudit(c)
  \/ Commit(c) \/ Rollback(c) \/ BreakDeadlock(c)

Next ==
  \/ \E c \in Calls : Begin(c) \/ Step(c) \/ CommitUnclear(c) \/ Reject(c) \/ Drop(c)
  \/ \E t \in Txns : AppendInsert(t) \/ AppendDone(t) \/ AppendFails(t)

Spec == Init /\ [][Next]_vars

\* The database answers queries, grants a lock nobody holds and breaks
\* deadlocks.
FairSpec ==
  /\ Spec
  /\ \A c \in Calls : WF_vars(Step(c))
  /\ \A t \in Txns : WF_vars(AppendDone(t))

-----------------------------------------------------------------------------
\* Types; a row is locked only by a call that is inside its transaction.
TypeOK ==
  /\ gate \in [Gates -> {"approved", "used"}]
  /\ job \in [Jobs -> {"planned", "applied", "failed"}]
  /\ audit \subseteq Txns \X {"provider", "gate"}
  /\ gateLock \in [Gates -> Calls \cup {Nobody}]
  /\ jobLock \in [Jobs -> Calls \cup {Nobody}]
  /\ append \in [Txns -> {"idle", "waiting", "done"}]
  /\ call \in [Calls -> [pc : Queries \cup {"idle", "rollback", "done"},
                         answer : {"none", "applied", "failed", "compensate", "not_recorded"},
                         audited : BOOLEAN]]
  /\ committed \subseteq Calls
  /\ faults \in 0 .. MaxFaults
  /\ \A g \in Gates : gateLock[g] # Nobody =>
       call[gateLock[g]].pc \in (Queries \ {"lock_gate"}) \cup {"rollback"}
  /\ \A j \in Jobs : jobLock[j] # Nobody =>
       call[jobLock[j]].pc \in (Queries \ {"lock_gate", "lock_job"}) \cup {"rollback"}

Use == INSTANCE GateUse

\* The rows change only as GateUse allows: one use per gate, with its job and
\* its audit rows, however the queries of several callers interleave, fail or
\* are repeated.
ImplementsGateUse == Use!Spec

\* The answer tells the truth about a successful provider apply: "applied"
\* only if it was recorded, "not recorded" only if it was not: an unclear COMMIT
\* asks for compensation.
AnsweredTruthfully ==
  \A c \in Applied :
    /\ call[c].answer = "applied" => job[JobOf[c]] = "applied" /\ gate[GateOf[c]] = "used"
    /\ call[c].answer = "not_recorded" => c \notin committed

\* A job is applied through its own gate, and no gate serves two jobs.
GateServesOneJob ==
  \A j \in Jobs : job[j] = "applied" =>
    /\ gate[GateOfJob[j]] = "used"
    /\ \A k \in Jobs \ {j} : GateOfJob[k] = GateOfJob[j] => job[k] # "applied"

\* No call waits for ever: the row locks are taken in a fixed order and
\* before the audit keys, which leaves the deadlocks with appends for the
\* database to break; and every failure ends its transaction.
CallsEnd == \A c \in Calls : At(c, "lock_gate") ~> At(c, "done")
=============================================================================
