------------------------------- MODULE Outbox -------------------------------
(***************************************************************************)
(* The durable outbox: rows of outbox_events and dead_letter_events, the   *)
(* workers that run processOutboxBatch and reclaimStaleOutboxLocks, and    *)
(* the admin endpoint that requeues a dead letter.                         *)
(*                                                                         *)
(* One step is one SQL statement of PostgresRepository or one handler      *)
(* call, so every await of the code is a point where others may run.  The  *)
(* in-memory repository executes the statements of one method back to      *)
(* back, which is one of the interleavings.                                *)
(*                                                                         *)
(* Clock times are replaced by the two differences the code looks at: how  *)
(* long until next_attempt_at (wait) and how old locked_at is (age, which  *)
(* stops counting once it exceeds StaleLock).  One unit is the one second  *)
(* of the back-off.                                                        *)
(***************************************************************************)
EXTENDS Integers, FiniteSets

CONSTANTS
  Jobs,        \* the idempotency keys producers may enqueue
  Workers,     \* concurrently running workers
  Admins,      \* concurrently running calls of the retry endpoint
  NoWorker,    \* locked_by of an unlocked row
  NoJob,       \* a worker or an admin call that is not busy with a job
  MaxRetry,    \* max_retry_count of each job
  Limit,       \* the batch limit of claim and reclaim
  StaleLock,   \* staleLockMs
  HandlerMax,  \* the longest time a worker spends on one job
  MaxCrashes,  \* bound: how often a process may die
  MaxRequeues  \* bound: how many calls of the retry endpoint there are

ASSUME ConstantsAssumption ==
  /\ NoWorker \notin Workers
  /\ NoJob \notin Jobs
  /\ MaxRetry \in [Jobs -> Nat \ {0}]
  /\ Limit \in Nat \ {0}
  /\ StaleLock \in Nat
  /\ HandlerMax \in Nat
  /\ MaxCrashes \in Nat
  /\ MaxRequeues \in Nat

VARIABLES
  job,        \* the outbox_events row of each job
  dlq,        \* the jobs with at least one dead_letter_events row
  worker,     \* where each worker is in processOutboxBatch
  admin,      \* where each admin call is in retryDeadLetter
  crashes,    \* how many processes died so far
  requeues,   \* how many admin calls were made so far
  delivered,  \* history: jobs whose handler has resolved
  errors,     \* history: errors caught per job, up to its max_retry_count
  fatal,      \* history: jobs that met a TerminalOutboxError
  unacked,    \* history: jobs whose completeOutboxJob call rejected
  audits      \* jobs with a retry_dead_letter row in audit_logs

rows == <<job, dlq>>
history == <<delivered, errors, fatal, unacked>>
vars == <<job, dlq, worker, admin, crashes, requeues, delivered, errors, fatal,
          unacked, audits>>

-----------------------------------------------------------------------------
(* Rows and their transitions.  asked says that last_error starts with     *)
(* "DLQ retry requested", the only use the code makes of last_error.       *)

Absent == [status |-> "absent", retry |-> 0, wait |-> 0, age |-> 0,
           owner |-> NoWorker, asked |-> FALSE]

Enqueued == [Absent EXCEPT !.status = "pending"]

Unlocked(row, s) == [row EXCEPT !.status = s, !.owner = NoWorker, !.age = 0]

Claimed(row, w) == [row EXCEPT !.status = "processing", !.owner = w, !.age = 0]

\* Mutation of Reclaimed: the lock columns are left as they are.
Reclaimed_KeepsLock(row) ==
  [row EXCEPT !.status = "pending", !.wait = 0, !.asked = FALSE]

Reclaimed(row) == [Unlocked(row, "pending") EXCEPT !.wait = 0, !.asked = FALSE]

Completed(row) == Unlocked(row, "completed")

\* retry is what failOutboxJob read plus one, not what the row holds now.
BackedOff(row, retry) ==
  [Unlocked(row, "pending") EXCEPT !.retry = retry, !.wait = retry, !.asked = FALSE]

DeadLettered(row) == [Unlocked(row, "dead_lettered") EXCEPT !.asked = FALSE]

\* Mutation of Requeued: the lock columns are left as they are.
Requeued_KeepsLock(row) ==
  [row EXCEPT !.status = "pending", !.retry = 0, !.wait = 0, !.asked = TRUE]

Requeued(row) ==
  [Unlocked(row, "pending") EXCEPT !.retry = 0, !.wait = 0, !.asked = TRUE]

\* Mutations of Spent: one attempt too many, one too few.
Spent_Late(j, retry) == retry >= MaxRetry[j]
Spent_Early(j, retry) == retry + 2 >= MaxRetry[j]

\* failOutboxJob gives a job up once this attempt is its last.
Spent(j, retry) == retry + 1 >= MaxRetry[j]

\* Mutation of Due: any unlocked row.
Due_AnyStatus == {j \in Jobs : job[j].status # "absent" /\ job[j].owner = NoWorker /\ job[j].wait = 0}

Due == {j \in Jobs : job[j].status = "pending" /\ job[j].owner = NoWorker /\ job[j].wait = 0}

\* Mutation of Stale: a lock exactly StaleLock old counts as stale.
Stale_Inclusive == {j \in Jobs : job[j].status = "processing" /\ job[j].age >= StaleLock}

Stale == {j \in Jobs : job[j].status = "processing" /\ job[j].age > StaleLock}

\* limit: as many rows as match, at most Limit.  Which of the matching rows
\* come first depends on times the model does not keep.
IsBatch(S, matching) ==
  /\ S # {}
  /\ S \subseteq matching
  /\ Cardinality(S) = IF Cardinality(matching) < Limit THEN Cardinality(matching) ELSE Limit

-----------------------------------------------------------------------------
(* Workers.  batch holds the claimed jobs still to be handled, cur the one *)
(* in hand, seen the retry_count failOutboxJob has read, run the time      *)
(* spent on cur.                                                           *)

Idle == [pc |-> "idle", batch |-> {}, cur |-> NoJob, seen |-> 0, run |-> 0]

\* The for loop: the next claimed job in any order ("returning *" has none),
\* or the end of the batch.
Proceed(S) ==
  IF S = {} THEN {Idle}
  ELSE {[pc |-> "handle", batch |-> S \ {j}, cur |-> j, seen |-> 0, run |-> 0] : j \in S}

At(w, pc) == worker[w].pc = pc

Goto(w, pc) == worker' = [worker EXCEPT ![w].pc = pc]

\* The worker writes row to the job in hand and goes on with its batch.
FinishWith(w, row) ==
  /\ job' = [job EXCEPT ![worker[w].cur] = row]
  /\ \E r \in Proceed(worker[w].batch) : worker' = [worker EXCEPT ![w] = r]

Holding(w) == worker[w].batch \cup ({worker[w].cur} \ {NoJob})

\* on conflict (idempotency_key): a second enqueue changes nothing, so only
\* the first is a step.
Enqueue(j) ==
  /\ job[j].status = "absent"
  /\ job' = [job EXCEPT ![j] = Enqueued]
  /\ UNCHANGED <<dlq, worker, admin, crashes, requeues, history, audits>>

Claim(w) ==
  /\ At(w, "idle")
  /\ \E S \in SUBSET Jobs :
       /\ IsBatch(S, Due)
       /\ job' = [j \in Jobs |-> IF j \in S THEN Claimed(job[j], w) ELSE job[j]]
       /\ \E r \in Proceed(S) : worker' = [worker EXCEPT ![w] = r]
  /\ UNCHANGED <<dlq, admin, crashes, requeues, history, audits>>

Reclaim(w) ==
  /\ At(w, "idle")
  /\ \E S \in SUBSET Jobs :
       /\ IsBatch(S, Stale)
       /\ job' = [j \in Jobs |-> IF j \in S THEN Reclaimed(job[j]) ELSE job[j]]
  /\ UNCHANGED <<dlq, worker, admin, crashes, requeues, history, audits>>

HandlerResolves(w) ==
  /\ At(w, "handle")
  /\ delivered' = delivered \cup {worker[w].cur}
  /\ Goto(w, "complete")
  /\ UNCHANGED <<rows, admin, crashes, requeues, errors, fatal, unacked, audits>>

CountError(w) ==
  LET j == worker[w].cur
  IN  errors' = [errors EXCEPT ![j] = IF @ < MaxRetry[j] THEN @ + 1 ELSE @]

\* Mutation of HandlerThrows: the error is swallowed.
HandlerThrows_Swallowed(w) ==
  /\ At(w, "handle")
  /\ CountError(w)
  /\ Goto(w, "complete")
  /\ UNCHANGED <<rows, admin, crashes, requeues, delivered, fatal, unacked, audits>>

HandlerThrows(w) ==
  /\ At(w, "handle")
  /\ CountError(w)
  /\ Goto(w, "fail")
  /\ UNCHANGED <<rows, admin, crashes, requeues, delivered, fatal, unacked, audits>>

\* Mutation of HandlerThrowsTerminal: the row is marked before, and without,
\* its dead letter.
HandlerThrowsTerminal_NoRow(w) ==
  /\ At(w, "handle")
  /\ fatal' = fatal \cup {worker[w].cur}
  /\ Goto(w, "mark_dead")
  /\ UNCHANGED <<rows, admin, crashes, requeues, delivered, errors, unacked, audits>>

HandlerThrowsTerminal(w) ==
  /\ At(w, "handle")
  /\ fatal' = fatal \cup {worker[w].cur}
  /\ Goto(w, "insert_dead")
  /\ UNCHANGED <<rows, admin, crashes, requeues, delivered, errors, unacked, audits>>

Complete(w) ==
  /\ At(w, "complete")
  /\ FinishWith(w, Completed(job[worker[w].cur]))
  /\ UNCHANGED <<dlq, admin, crashes, requeues, history, audits>>

\* The update rejects, before or after the database applied it, and the same
\* catch that serves the handler calls failOutboxJob.
CompleteThrows(w) ==
  /\ At(w, "complete")
  /\ \/ UNCHANGED job
     \/ job' = [job EXCEPT ![worker[w].cur] = Completed(@)]
  /\ CountError(w)
  /\ unacked' = unacked \cup {worker[w].cur}
  /\ Goto(w, "fail")
  /\ UNCHANGED <<dlq, admin, crashes, requeues, delivered, fatal, audits>>

FailRead(w) ==
  /\ At(w, "fail")
  /\ LET j == worker[w].cur
     IN  worker' = [worker EXCEPT ![w].seen = job[j].retry,
                                  ![w].pc = IF Spent(j, job[j].retry) THEN "insert_dead" ELSE "back_off"]
  /\ UNCHANGED <<rows, admin, crashes, requeues, history, audits>>

BackOff(w) ==
  /\ At(w, "back_off")
  /\ FinishWith(w, BackedOff(job[worker[w].cur], worker[w].seen + 1))
  /\ UNCHANGED <<dlq, admin, crashes, requeues, history, audits>>

InsertDead(w) ==
  /\ At(w, "insert_dead")
  /\ dlq' = dlq \cup {worker[w].cur}
  /\ Goto(w, "mark_dead")
  /\ UNCHANGED <<job, admin, crashes, requeues, history, audits>>

MarkDead(w) ==
  /\ At(w, "mark_dead")
  /\ FinishWith(w, DeadLettered(job[worker[w].cur]))
  /\ UNCHANGED <<dlq, admin, crashes, requeues, history, audits>>

\* The process dies, or a repository call inside the catch block rejects and
\* processOutboxBatch with it: the rest of the batch stays locked.
Crash(w) ==
  /\ ~At(w, "idle")
  /\ crashes < MaxCrashes
  /\ crashes' = crashes + 1
  /\ worker' = [worker EXCEPT ![w] = Idle]
  /\ UNCHANGED <<rows, admin, requeues, history, audits>>

-----------------------------------------------------------------------------
(* retryDeadLetter, called by POST /admin/dead-letter/:deadLetterId/retry. *)

NoCall == [pc |-> "idle", job |-> NoJob, queued |-> FALSE]

\* Mutation of RetryRead: any pending row counts as already queued.
RetryRead_AnyPending(a, j) ==
  /\ admin[a].pc = "idle"
  /\ j \in dlq
  /\ requeues < MaxRequeues
  /\ requeues' = requeues + 1
  /\ admin' = [admin EXCEPT ![a] =
                 [pc |-> "write", job |-> j, queued |-> job[j].status = "pending"]]
  /\ UNCHANGED <<rows, worker, crashes, history, audits>>

RetryRead(a, j) ==
  /\ admin[a].pc = "idle"
  /\ j \in dlq
  /\ requeues < MaxRequeues
  /\ requeues' = requeues + 1
  /\ admin' = [admin EXCEPT ![a] =
                 [pc |-> "write", job |-> j,
                  queued |-> job[j].status = "pending" /\ job[j].asked]]
  /\ UNCHANGED <<rows, worker, crashes, history, audits>>

RetryWrite(a) ==
  /\ admin[a].pc = "write"
  /\ job' = [job EXCEPT ![admin[a].job] = Requeued(@)]
  /\ admin' = [admin EXCEPT ![a] = IF admin[a].queued THEN NoCall ELSE [@ EXCEPT !.pc = "audit"]]
  /\ UNCHANGED <<dlq, worker, crashes, requeues, history, audits>>

RetryAudit(a) ==
  /\ admin[a].pc = "audit"
  /\ audits' = audits \cup {admin[a].job}
  /\ admin' = [admin EXCEPT ![a] = NoCall]
  /\ UNCHANGED <<rows, worker, crashes, requeues, history>>

AdminCrash(a) ==
  /\ admin[a].pc # "idle"
  /\ crashes < MaxCrashes
  /\ crashes' = crashes + 1
  /\ admin' = [admin EXCEPT ![a] = NoCall]
  /\ UNCHANGED <<rows, worker, requeues, history, audits>>

-----------------------------------------------------------------------------
(* Time passes, but never so long that a worker exceeds HandlerMax on the  *)
(* job in hand.                                                            *)

Tick ==
  /\ \A w \in Workers : ~At(w, "idle") => worker[w].run < HandlerMax
  /\ job' = [j \in Jobs |->
       [job[j] EXCEPT
          !.wait = IF @ > 0 THEN @ - 1 ELSE @,
          !.age = IF job[j].status = "processing" /\ @ <= StaleLock THEN @ + 1 ELSE @]]
  /\ worker' = [w \in Workers |->
       [worker[w] EXCEPT !.run = IF At(w, "idle") THEN @ ELSE @ + 1]]
  /\ UNCHANGED <<dlq, admin, crashes, requeues, history, audits>>

Init ==
  /\ job = [j \in Jobs |-> Absent]
  /\ dlq = {}
  /\ worker = [w \in Workers |-> Idle]
  /\ admin = [a \in Admins |-> NoCall]
  /\ crashes = 0
  /\ requeues = 0
  /\ delivered = {}
  /\ errors = [j \in Jobs |-> 0]
  /\ fatal = {}
  /\ unacked = {}
  /\ audits = {}

\* One iteration of processOutboxBatch, step by step.
BatchStep(w) ==
  \/ HandlerResolves(w) \/ HandlerThrows(w) \/ HandlerThrowsTerminal(w)
  \/ Complete(w) \/ CompleteThrows(w)
  \/ FailRead(w) \/ BackOff(w) \/ InsertDead(w) \/ MarkDead(w)

CallStep(a) == RetryWrite(a) \/ RetryAudit(a)

Next ==
  \/ \E j \in Jobs : Enqueue(j)
  \/ \E w \in Workers : Claim(w) \/ Reclaim(w) \/ BatchStep(w) \/ Crash(w)
  \/ \E a \in Admins : CallStep(a) \/ AdminCrash(a) \/ \E j \in Jobs : RetryRead(a, j)
  \/ Tick

Spec == Init /\ [][Next]_vars

(***************************************************************************)
(* Workers poll: each reclaims before it claims and keeps claiming         *)
(* (docs/RUNBOOK.md), its awaits return, and time passes.  Nothing obliges *)
(* a producer to enqueue or an admin to call.                              *)
(***************************************************************************)
Fairness ==
  /\ WF_vars(Tick)
  /\ \A w \in Workers : WF_vars(Claim(w)) /\ WF_vars(Reclaim(w)) /\ WF_vars(BatchStep(w))
  /\ \A a \in Admins : WF_vars(CallStep(a))

FairSpec == Spec /\ Fairness

-----------------------------------------------------------------------------
(* What the outbox promises.                                               *)

Row == [status : {"absent", "pending", "processing", "completed", "dead_lettered"},
        retry : Nat, wait : Nat, age : 0 .. StaleLock + 1,
        owner : Workers \cup {NoWorker}, asked : BOOLEAN]

WorkerState ==
  [pc : {"idle", "handle", "complete", "fail", "back_off", "insert_dead", "mark_dead"},
   batch : SUBSET Jobs, cur : Jobs \cup {NoJob}, seen : Nat, run : 0 .. HandlerMax]

Call == [pc : {"idle", "write", "audit"}, job : Jobs \cup {NoJob}, queued : BOOLEAN]

\* Types, and the range failOutboxJob keeps retry_count and the back-off in:
\* a row is dead-lettered before its retry_count reaches max_retry_count.
TypeOK ==
  /\ job \in [Jobs -> Row]
  /\ dlq \subseteq Jobs
  /\ worker \in [Workers -> WorkerState]
  /\ admin \in [Admins -> Call]
  /\ crashes \in 0 .. MaxCrashes
  /\ requeues \in 0 .. MaxRequeues
  /\ delivered \subseteq Jobs
  /\ errors \in [Jobs -> Nat]
  /\ fatal \subseteq Jobs
  /\ unacked \subseteq Jobs
  /\ audits \subseteq Jobs
  /\ \A j \in Jobs : job[j].retry < MaxRetry[j] /\ job[j].wait < MaxRetry[j]

\* locked_at and locked_by are set exactly while a row is processing: a
\* pending row with a lock would be skipped by claim and by reclaim alike,
\* and a processing row without one could never be reclaimed.
LockIffProcessing ==
  \A j \in Jobs : job[j].status = "processing" <=> job[j].owner # NoWorker

\* A dead-lettered row can be found, and requeued, through a
\* dead_letter_events row, also when the worker died half way through
\* moveToDeadLetter or another worker wrote in between.
DeadLetteredHasRow ==
  \A j \in Jobs : job[j].status = "dead_lettered" => j \in dlq

\* No row is completed without a handler call that resolved, whatever
\* workers, reclaims and requeues did to the row meanwhile.
CompletedWasDelivered ==
  \A j \in Jobs : job[j].status = "completed" => j \in delivered

\* A dead letter means that the handler met a terminal error or that
\* max_retry_count attempts failed (before any requeue reset the count), even
\* when two workers fail the same job and one increment is lost.
NoEarlyDeadLetter ==
  requeues = 0 => \A j \in dlq : j \in fatal \/ errors[j] >= MaxRetry[j]

\* While no process dies, a row that says "DLQ retry requested" has its
\* retry_dead_letter audit row or a call that is about to write it.
RequeueLeavesTrace ==
  crashes = 0 =>
    \A j \in Jobs : job[j].asked =>
      j \in audits \/ \E a \in Admins : admin[a].pc = "audit" /\ admin[a].job = j

\* Two workers never hold the same job, and the row of a held job names its
\* holder, unless the holder completed it and was told otherwise
\* (docs/RUNBOOK.md: "Active locks are preserved").  The writes
\* by id alone in completeOutboxJob and failOutboxJob rely on it.
SingleHolder ==
  \A w \in Workers : \A j \in Holding(w) :
    /\ \/ job[j].status = "processing" /\ job[j].owner = w
       \/ job[j].status = "completed" /\ j \in unacked /\ j = worker[w].cur
    /\ \A v \in Workers \ {w} : j \notin Holding(v)

\* A row that was completed, and acknowledged as such, is never worked on
\* again: no late failure of another attempt takes it back to pending or to
\* the dead letters.
CompletedIsFinal ==
  [][\A j \in Jobs \ unacked :
       job[j].status = "completed" => job'[j].status = "completed"]_vars

\* What a worker or a producer sees of a row: its lock does not matter.
Phase(j) == IF job[j].status \in {"pending", "processing"} THEN "open" ELSE job[j].status

Queue == INSTANCE JobQueue WITH phase <- [j \in Jobs |-> Phase(j)], failures <- errors

\* The handler is called for open jobs only, each job is completed only after
\* it was delivered and given up only after its attempts, and a settled job is
\* let alone, whichever workers die, lose a lock race or are not acknowledged.
ImplementsQueue == Queue!Spec

\* Every enqueued job ends completed or dead-lettered and stays so, in spite
\* of crashed workers, lost locks and stale writes.
EventuallySettled ==
  <>[](\A j \in Jobs : job[j].status \in {"absent", "completed", "dead_lettered"})

=============================================================================
