---------------------------- MODULE OutboxProofs ----------------------------
(***************************************************************************)
(* Theorems about Outbox, for any number of jobs, workers and admin calls  *)
(* and any limits: the rows keep their types and ranges, a row is locked   *)
(* exactly while it is processing, a dead-lettered row has its dead        *)
(* letter, a completed row was delivered, a requeue is audited unless a    *)
(* process dies, and until the first requeue a dead letter is earned. When *)
(* StaleLock allows for a whole batch and nothing is requeued, each job    *)
(* has one holder and Outbox implements JobQueue.                          *)
(***************************************************************************)
EXTENDS Outbox, FiniteSetTheorems, TLAPS

(* The inductive invariant, one part per kind of actor.  D stands for dlq  *)
(* and A for delivered, so that a step may change them.                    *)

GoodRow(j, row, D, A) ==
  /\ row \in Row
  /\ row.retry < MaxRetry[j] /\ row.wait < MaxRetry[j]
  /\ row.status = "processing" <=> row.owner # NoWorker
  /\ row.status = "dead_lettered" => j \in D
  /\ row.status = "completed" => j \in A

\* What a worker may rely on at each point of processOutboxBatch.
GoodWorker(r, D, A) ==
  /\ r \in WorkerState
  /\ r.pc # "idle" => r.cur \in Jobs
  /\ r.pc = "complete" => r.cur \in A
  /\ r.pc = "mark_dead" => r.cur \in D
  /\ r.pc = "back_off" => r.seen + 1 < MaxRetry[r.cur]

GoodCall(c) == c \in Call /\ (c.pc # "idle" => c.job \in Jobs)

RowsInv ==
  /\ job \in [Jobs -> Row]
  /\ \A j \in Jobs : GoodRow(j, job[j], dlq, delivered)

WorkersInv ==
  /\ worker \in [Workers -> WorkerState]
  /\ \A w \in Workers : GoodWorker(worker[w], dlq, delivered)

CallsInv ==
  /\ admin \in [Admins -> Call]
  /\ \A a \in Admins : GoodCall(admin[a])

RestInv ==
  /\ crashes \in 0 .. MaxCrashes /\ requeues \in 0 .. MaxRequeues
  /\ dlq \subseteq Jobs /\ delivered \subseteq Jobs
  /\ fatal \subseteq Jobs /\ unacked \subseteq Jobs /\ audits \subseteq Jobs
  /\ errors \in [Jobs -> Nat]

IInv == RowsInv /\ WorkersInv /\ CallsInv /\ RestInv

-----------------------------------------------------------------------------
(* The row transitions keep a row good.                                    *)

\* Each transition of a row gives a good row.
LEMMA RowSteps ==
  ASSUME NEW j \in Jobs, NEW D, NEW A, NEW row, GoodRow(j, row, D, A)
  PROVE  /\ \A w \in Workers : GoodRow(j, Claimed(row, w), D, A)
         /\ GoodRow(j, Reclaimed(row), D, A)
         /\ GoodRow(j, Requeued(row), D, A)
         /\ j \in A => GoodRow(j, Completed(row), D, A)
         /\ j \in D => GoodRow(j, DeadLettered(row), D, A)
         /\ \A n \in Nat : n < MaxRetry[j] => GoodRow(j, BackedOff(row, n), D, A)
<1>. USE DEF GoodRow, Row, Unlocked
<1>0. 0 \in 0 .. StaleLock + 1 /\ MaxRetry[j] \in Nat /\ 0 < MaxRetry[j] /\ NoWorker \notin Workers
  BY ConstantsAssumption
<1>1. \A w \in Workers : GoodRow(j, Claimed(row, w), D, A)
  BY <1>0 DEF Claimed
<1>2. GoodRow(j, Reclaimed(row), D, A)
  BY <1>0 DEF Reclaimed
<1>3. GoodRow(j, Requeued(row), D, A)
  BY <1>0 DEF Requeued
<1>4. j \in A => GoodRow(j, Completed(row), D, A)
  BY <1>0 DEF Completed
<1>5. j \in D => GoodRow(j, DeadLettered(row), D, A)
  BY <1>0 DEF DeadLettered
<1>6. \A n \in Nat : n < MaxRetry[j] => GoodRow(j, BackedOff(row, n), D, A)
  BY <1>0 DEF BackedOff
<1>. QED
  BY <1>1, <1>2, <1>3, <1>4, <1>5, <1>6

\* A row stays good when more jobs are dead-lettered or delivered.
LEMMA RowMonotone ==
  ASSUME NEW j, NEW row, NEW D, NEW A, NEW D2, NEW A2,
         GoodRow(j, row, D, A), D \subseteq D2, A \subseteq A2
  PROVE  GoodRow(j, row, D2, A2)
BY DEF GoodRow

\* So does what a worker relies on.
LEMMA WorkerMonotone ==
  ASSUME NEW r, NEW D, NEW A, NEW D2, NEW A2,
         GoodWorker(r, D, A), D \subseteq D2, A \subseteq A2
  PROVE  GoodWorker(r, D2, A2)
BY DEF GoodWorker

\* A worker that starts on a batch, or goes idle, is good.
LEMMA ProceedGood ==
  ASSUME NEW S \in SUBSET Jobs, NEW D, NEW A, NEW r \in Proceed(S)
  PROVE  GoodWorker(r, D, A)
BY ConstantsAssumption DEF Proceed, Idle, GoodWorker, WorkerState

\* FinishWith keeps rows and workers good if the row it writes is good.
LEMMA FinishGood ==
  ASSUME IInv, NEW w \in Workers, worker[w].cur \in Jobs, NEW row,
         GoodRow(worker[w].cur, row, dlq, delivered), FinishWith(w, row),
         UNCHANGED <<dlq, delivered>>
  PROVE  RowsInv' /\ WorkersInv'
<1>. USE DEF IInv
<1>1. RowsInv'
  BY DEF RowsInv, FinishWith, GoodRow
<1>2. PICK r \in Proceed(worker[w].batch) : worker' = [worker EXCEPT ![w] = r]
  BY DEF FinishWith
<1>3. worker[w].batch \in SUBSET Jobs
  BY DEF WorkersInv, WorkerState
<1>4. GoodWorker(r, dlq, delivered) /\ r \in WorkerState
  BY <1>3, ProceedGood DEF GoodWorker
<1>5. WorkersInv'
  BY <1>2, <1>4 DEF WorkersInv
<1>. QED
  BY <1>1, <1>5

-----------------------------------------------------------------------------
(* Every action preserves IInv.                                            *)

\* Moving a worker to another point of the loop: the facts of that point must
\* hold, dlq and delivered may grow.
LEMMA MoveGood ==
  ASSUME IInv, NEW w \in Workers, NEW r \in WorkerState,
         worker' = [worker EXCEPT ![w] = r], GoodWorker(r, dlq', delivered'),
         dlq \subseteq dlq', delivered \subseteq delivered', UNCHANGED job
  PROVE  RowsInv' /\ WorkersInv'
<1>1. RowsInv'
  BY RowMonotone DEF IInv, RowsInv
<1>2. \A v \in Workers : GoodWorker(worker[v], dlq', delivered')
  BY WorkerMonotone DEF IInv, WorkersInv
<1>3. WorkersInv'
  BY <1>2 DEF IInv, WorkersInv
<1>. QED
  BY <1>1, <1>3

\* A new row is good.
LEMMA EnqueueStep == ASSUME IInv, NEW j \in Jobs, Enqueue(j) PROVE IInv'
<1>. USE DEF Enqueue, IInv, history
<1>1. 0 \in 0 .. StaleLock + 1 /\ MaxRetry[j] \in Nat /\ 0 < MaxRetry[j] /\ NoWorker \notin Workers
  BY ConstantsAssumption
<1>2. GoodRow(j, Enqueued, dlq, delivered)
  BY <1>1 DEF GoodRow, Row, Enqueued, Absent
<1>3. RowsInv'
  BY <1>2 DEF RowsInv, GoodRow
<1>4. WorkersInv' /\ CallsInv' /\ RestInv'
  BY DEF WorkersInv, CallsInv, RestInv
<1>. QED
  BY <1>3, <1>4

\* Claimed rows carry the lock of their claimer.
LEMMA ClaimStep == ASSUME IInv, NEW w \in Workers, Claim(w) PROVE IInv'
<1>. USE DEF IInv, history
<1>1. PICK S \in SUBSET Jobs :
        /\ job' = [j \in Jobs |-> IF j \in S THEN Claimed(job[j], w) ELSE job[j]]
        /\ \E r \in Proceed(S) : worker' = [worker EXCEPT ![w] = r]
  BY DEF Claim
<1>2. UNCHANGED <<dlq, admin, crashes, requeues, delivered, errors, fatal, unacked, audits>>
  BY DEF Claim
<1>3. RowsInv'
  <2>1. \A j \in Jobs : GoodRow(j, Claimed(job[j], w), dlq, delivered)
    BY RowSteps DEF RowsInv
  <2>2. \A j \in Jobs : GoodRow(j, job'[j], dlq, delivered) /\ job'[j] \in Row
    BY <1>1, <2>1 DEF RowsInv, GoodRow
  <2>. QED
    BY <1>1, <1>2, <2>2 DEF RowsInv
<1>4. PICK r \in Proceed(S) : worker' = [worker EXCEPT ![w] = r]
  BY <1>1
<1>5. GoodWorker(r, dlq, delivered) /\ r \in WorkerState
  BY ProceedGood DEF GoodWorker
<1>6. WorkersInv'
  BY <1>2, <1>4, <1>5 DEF WorkersInv
<1>7. CallsInv' /\ RestInv'
  BY <1>2 DEF CallsInv, RestInv
<1>. QED
  BY <1>3, <1>6, <1>7

\* Reclaimed rows carry no lock.
LEMMA ReclaimStep == ASSUME IInv, NEW w \in Workers, Reclaim(w) PROVE IInv'
<1>. USE DEF IInv, history
<1>1. PICK S \in SUBSET Jobs :
        job' = [j \in Jobs |-> IF j \in S THEN Reclaimed(job[j]) ELSE job[j]]
  BY DEF Reclaim
<1>2. UNCHANGED <<dlq, worker, admin, crashes, requeues, delivered, errors, fatal, unacked, audits>>
  BY DEF Reclaim
<1>3. RowsInv'
  BY <1>1, <1>2, RowSteps DEF RowsInv, GoodRow
<1>4. WorkersInv' /\ CallsInv' /\ RestInv'
  BY <1>2 DEF WorkersInv, CallsInv, RestInv
<1>. QED
  BY <1>3, <1>4

\* Counting an error keeps the counts naturals.
LEMMA CountErrorType ==
  ASSUME IInv, NEW w \in Workers, worker[w].cur \in Jobs, CountError(w)
  PROVE  errors' \in [Jobs -> Nat]
BY DEF IInv, RestInv, CountError

\* The three outcomes of a handler keep the invariant.
LEMMA HandlerStep ==
  ASSUME IInv, NEW w \in Workers,
         HandlerResolves(w) \/ HandlerThrows(w) \/ HandlerThrowsTerminal(w)
  PROVE  IInv'
<1>. USE DEF history, rows, Goto, At
<1>0. GoodWorker(worker[w], dlq, delivered) /\ worker[w].cur \in Jobs /\ worker[w].pc = "handle"
  BY DEF IInv, WorkersInv, GoodWorker, HandlerResolves, HandlerThrows, HandlerThrowsTerminal
<1>1. CASE HandlerResolves(w)
  <2>. DEFINE r == [worker[w] EXCEPT !.pc = "complete"]
  <2>1. GoodWorker(r, dlq', delivered')
    BY <1>0, <1>1 DEF HandlerResolves, GoodWorker, WorkerState
  <2>2. RowsInv' /\ WorkersInv'
    BY <2>1, <1>1, MoveGood DEF HandlerResolves, GoodWorker, IInv, WorkersInv
  <2>3. CallsInv' /\ RestInv'
    BY <1>0, <1>1 DEF HandlerResolves, IInv, CallsInv, RestInv
  <2>. QED  BY <2>2, <2>3 DEF IInv
<1>2. CASE HandlerThrows(w)
  <2>. DEFINE r == [worker[w] EXCEPT !.pc = "fail"]
  <2>1. GoodWorker(r, dlq', delivered')
    BY <1>0, <1>2 DEF HandlerThrows, GoodWorker, WorkerState
  <2>2. RowsInv' /\ WorkersInv'
    BY <2>1, <1>2, MoveGood DEF HandlerThrows, GoodWorker, IInv, WorkersInv
  <2>3. CallsInv' /\ RestInv'
    BY <1>0, <1>2, CountErrorType DEF HandlerThrows, IInv, CallsInv, RestInv
  <2>. QED  BY <2>2, <2>3 DEF IInv
<1>3. CASE HandlerThrowsTerminal(w)
  <2>. DEFINE r == [worker[w] EXCEPT !.pc = "insert_dead"]
  <2>1. GoodWorker(r, dlq', delivered')
    BY <1>0, <1>3 DEF HandlerThrowsTerminal, GoodWorker, WorkerState
  <2>2. RowsInv' /\ WorkersInv'
    BY <2>1, <1>3, MoveGood DEF HandlerThrowsTerminal, GoodWorker, IInv, WorkersInv
  <2>3. CallsInv' /\ RestInv'
    BY <1>0, <1>3 DEF HandlerThrowsTerminal, IInv, CallsInv, RestInv
  <2>. QED  BY <2>2, <2>3 DEF IInv
<1>. QED
  BY <1>1, <1>2, <1>3

\* A completed job was delivered by the worker that completes it.
LEMMA CompleteStep == ASSUME IInv, NEW w \in Workers, Complete(w) PROVE IInv'
<1>. USE DEF history, At
<1>1. worker[w].cur \in Jobs /\ worker[w].cur \in delivered
  BY DEF IInv, WorkersInv, GoodWorker, Complete
<1>2. GoodRow(worker[w].cur, Completed(job[worker[w].cur]), dlq, delivered)
  BY <1>1, RowSteps DEF IInv, RowsInv
<1>3. RowsInv' /\ WorkersInv'
  BY <1>1, <1>2, FinishGood DEF Complete
<1>4. CallsInv' /\ RestInv'
  BY DEF Complete, IInv, CallsInv, RestInv
<1>. QED
  BY <1>3, <1>4 DEF IInv

\* An update that rejects may still have completed the row.
LEMMA CompleteThrowsStep == ASSUME IInv, NEW w \in Workers, CompleteThrows(w) PROVE IInv'
<1>. USE DEF At, Goto
<1>1. /\ worker[w].cur \in Jobs /\ worker[w].cur \in delivered
      /\ GoodWorker(worker[w], dlq, delivered)
  BY DEF IInv, WorkersInv, GoodWorker, CompleteThrows
<1>2. GoodRow(worker[w].cur, Completed(job[worker[w].cur]), dlq, delivered)
  BY <1>1, RowSteps DEF IInv, RowsInv
<1>3. RowsInv'
  BY <1>1, <1>2 DEF CompleteThrows, IInv, RowsInv, GoodRow
<1>4. GoodWorker([worker[w] EXCEPT !.pc = "fail"], dlq, delivered)
  BY <1>1 DEF GoodWorker, WorkerState
<1>5. WorkersInv'
  BY <1>4 DEF CompleteThrows, IInv, WorkersInv, GoodWorker
<1>6. CallsInv' /\ RestInv'
  BY <1>1, CountErrorType DEF CompleteThrows, IInv, CallsInv, RestInv
<1>. QED
  BY <1>3, <1>5, <1>6 DEF IInv

\* What failOutboxJob read leaves room for one more attempt, or the job is given up.
LEMMA FailReadStep == ASSUME IInv, NEW w \in Workers, FailRead(w) PROVE IInv'
<1>. USE DEF At, history, rows
<1>. DEFINE j == worker[w].cur
            r == [worker[w] EXCEPT !.seen = job[j].retry,
                    !.pc = IF Spent(j, job[j].retry) THEN "insert_dead" ELSE "back_off"]
<1>1. j \in Jobs /\ GoodWorker(worker[w], dlq, delivered)
  BY DEF IInv, WorkersInv, GoodWorker, FailRead
<1>2. job[j].retry \in Nat /\ MaxRetry[j] \in Nat
  BY <1>1, ConstantsAssumption DEF IInv, RowsInv, Row
<1>3. r \in WorkerState
  BY <1>1, <1>2 DEF GoodWorker, WorkerState
<1>4. r.pc = "back_off" => r.seen + 1 < MaxRetry[r.cur]
  BY <1>1, <1>2 DEF Spent, GoodWorker, WorkerState
<1>5. GoodWorker(r, dlq, delivered)
  BY <1>1, <1>3, <1>4 DEF GoodWorker, WorkerState
<1>6. worker' = [worker EXCEPT ![w] = r]
  BY DEF FailRead, IInv, WorkersInv, WorkerState
<1>7. UNCHANGED <<job, dlq, admin, crashes, requeues, delivered, errors, fatal, unacked, audits>>
  BY DEF FailRead
<1>8. RowsInv' /\ WorkersInv'
  BY <1>3, <1>5, <1>6, <1>7, MoveGood
<1>9. CallsInv' /\ RestInv'
  BY <1>7 DEF IInv, CallsInv, RestInv
<1>. QED
  BY <1>8, <1>9 DEF IInv

\* The back-off stays below max_retry_count, whatever the row holds by now.
LEMMA BackOffStep == ASSUME IInv, NEW w \in Workers, BackOff(w) PROVE IInv'
<1>. USE DEF history, At
<1>1. /\ worker[w].cur \in Jobs /\ worker[w].seen \in Nat
      /\ worker[w].seen + 1 < MaxRetry[worker[w].cur]
  BY DEF IInv, WorkersInv, GoodWorker, WorkerState, BackOff
<1>. DEFINE j == worker[w].cur
<1>2. GoodRow(j, BackedOff(job[j], worker[w].seen + 1), dlq, delivered)
  <2>1. GoodRow(j, job[j], dlq, delivered)
    BY <1>1 DEF IInv, RowsInv
  <2>2. \A n \in Nat : n < MaxRetry[j] => GoodRow(j, BackedOff(job[j], n), dlq, delivered)
    BY <1>1, <2>1, RowSteps
  <2>3. worker[w].seen + 1 \in Nat
    BY <1>1
  <2>. QED
    BY <1>1, <2>2, <2>3
<1>3. RowsInv' /\ WorkersInv'
  BY <1>1, <1>2, FinishGood DEF BackOff
<1>4. CallsInv' /\ RestInv'
  BY DEF BackOff, IInv, CallsInv, RestInv
<1>. QED
  BY <1>3, <1>4 DEF IInv

\* The dead letter precedes the mark.
LEMMA InsertDeadStep == ASSUME IInv, NEW w \in Workers, InsertDead(w) PROVE IInv'
<1>. USE DEF history, At, Goto
<1>. DEFINE r == [worker[w] EXCEPT !.pc = "mark_dead"]
<1>1. worker[w].cur \in Jobs /\ GoodWorker(worker[w], dlq, delivered)
  BY DEF IInv, WorkersInv, GoodWorker, InsertDead
<1>2. GoodWorker(r, dlq', delivered')
  BY <1>1 DEF InsertDead, GoodWorker, WorkerState
<1>3. RowsInv' /\ WorkersInv'
  BY <1>2, MoveGood DEF InsertDead, GoodWorker, IInv, WorkersInv
<1>4. CallsInv' /\ RestInv'
  BY <1>1 DEF InsertDead, IInv, CallsInv, RestInv
<1>. QED
  BY <1>3, <1>4 DEF IInv

\* A row is marked only after its dead letter.
LEMMA MarkDeadStep == ASSUME IInv, NEW w \in Workers, MarkDead(w) PROVE IInv'
<1>. USE DEF history, At
<1>1. worker[w].cur \in Jobs /\ worker[w].cur \in dlq
  BY DEF IInv, WorkersInv, GoodWorker, MarkDead
<1>2. GoodRow(worker[w].cur, DeadLettered(job[worker[w].cur]), dlq, delivered)
  BY <1>1, RowSteps DEF IInv, RowsInv
<1>3. RowsInv' /\ WorkersInv'
  BY <1>1, <1>2, FinishGood DEF MarkDead
<1>4. CallsInv' /\ RestInv'
  BY DEF MarkDead, IInv, CallsInv, RestInv
<1>. QED
  BY <1>3, <1>4 DEF IInv

\* A worker that dies leaves the rows alone.
LEMMA CrashStep == ASSUME IInv, NEW w \in Workers, Crash(w) PROVE IInv'
<1>1. GoodWorker(Idle, dlq, delivered) /\ Idle \in WorkerState
  BY ConstantsAssumption DEF GoodWorker, WorkerState, Idle
<1>2. RowsInv' /\ WorkersInv'
  BY <1>1, MoveGood DEF Crash, rows, history
<1>3. CallsInv' /\ RestInv'
  BY ConstantsAssumption DEF Crash, IInv, CallsInv, RestInv, rows, history
<1>. QED
  BY <1>2, <1>3 DEF IInv

\* The steps of a retry keep the invariant.
LEMMA CallStepGood ==
  ASSUME IInv, NEW a \in Admins,
         CallStep(a) \/ AdminCrash(a) \/ \E j \in Jobs : RetryRead(a, j)
  PROVE  IInv'
<1>. USE DEF history, rows
<1>0. GoodCall(NoCall) /\ NoCall \in Call /\ GoodCall(admin[a])
  BY DEF NoCall, GoodCall, Call, IInv, CallsInv
<1>1. CASE RetryWrite(a)
  <2>1. admin[a].job \in Jobs
    BY <1>0, <1>1 DEF RetryWrite, GoodCall
  <2>2. GoodRow(admin[a].job, Requeued(job[admin[a].job]), dlq, delivered)
    BY <2>1, RowSteps DEF IInv, RowsInv
  <2>3. RowsInv'
    BY <1>1, <2>1, <2>2 DEF RetryWrite, IInv, RowsInv, GoodRow
  <2>4. GoodCall([admin[a] EXCEPT !.pc = "audit"])
    BY <1>0, <2>1 DEF GoodCall, Call
  <2>5. CallsInv'
    BY <1>0, <1>1, <2>4 DEF RetryWrite, IInv, CallsInv, GoodCall
  <2>6. WorkersInv' /\ RestInv'
    BY <1>1 DEF RetryWrite, IInv, WorkersInv, RestInv
  <2>. QED  BY <2>3, <2>5, <2>6 DEF IInv
<1>2. CASE RetryAudit(a)
  <2>1. RowsInv' /\ WorkersInv' /\ RestInv'
    BY <1>0, <1>2 DEF RetryAudit, IInv, RowsInv, WorkersInv, RestInv, GoodCall
  <2>2. CallsInv'
    BY <1>0, <1>2 DEF RetryAudit, IInv, CallsInv
  <2>. QED  BY <2>1, <2>2 DEF IInv
<1>3. CASE AdminCrash(a)
  <2>1. RowsInv' /\ WorkersInv' /\ RestInv'
    BY <1>3, ConstantsAssumption DEF AdminCrash, IInv, RowsInv, WorkersInv, RestInv
  <2>2. CallsInv'
    BY <1>0, <1>3 DEF AdminCrash, IInv, CallsInv
  <2>. QED  BY <2>1, <2>2 DEF IInv
<1>4. ASSUME NEW j \in Jobs, RetryRead(a, j)  PROVE IInv'
  <2>1. RowsInv' /\ WorkersInv' /\ RestInv'
    BY <1>4, ConstantsAssumption DEF RetryRead, IInv, RowsInv, WorkersInv, RestInv
  <2>. DEFINE c == [pc |-> "write", job |-> j, queued |-> job[j].status = "pending" /\ job[j].asked]
  <2>2. (job[j].status = "pending" /\ job[j].asked) \in BOOLEAN
    OBVIOUS
  <2>3. GoodCall(c) /\ c \in Call
    BY <2>2 DEF GoodCall, Call
  <2>4. CallsInv'
    BY <1>4, <2>3 DEF RetryRead, IInv, CallsInv
  <2>. QED  BY <2>1, <2>4 DEF IInv
<1>. QED
  BY <1>1, <1>2, <1>3, <1>4 DEF CallStep

\* Time passing keeps the ranges.
LEMMA TickStep == ASSUME IInv, Tick PROVE IInv'
<1>. USE DEF history
<1>1. \A j \in Jobs : GoodRow(j, job'[j], dlq, delivered) /\ job'[j] \in Row
  <2>. SUFFICES ASSUME NEW j \in Jobs PROVE GoodRow(j, job'[j], dlq, delivered)
    BY DEF GoodRow
  <2>1. GoodRow(j, job[j], dlq, delivered) /\ MaxRetry[j] \in Nat /\ StaleLock \in Nat
    BY ConstantsAssumption DEF IInv, RowsInv
  <2>. DEFINE row == job[j]
              wait == IF row.wait > 0 THEN row.wait - 1 ELSE row.wait
              age == IF row.status = "processing" /\ row.age <= StaleLock THEN row.age + 1 ELSE row.age
  <2>2. job'[j] = [row EXCEPT !.wait = wait, !.age = age]
    BY DEF Tick
  <2>3. wait \in Nat /\ wait < MaxRetry[j] /\ age \in 0 .. StaleLock + 1
    BY <2>1 DEF GoodRow, Row
  <2>. HIDE DEF wait, age
  <2>. QED  BY <2>1, <2>2, <2>3 DEF GoodRow, Row
<1>2. RowsInv'
  BY <1>1 DEF Tick, RowsInv
<1>3. \A w \in Workers : GoodWorker(worker'[w], dlq, delivered) /\ worker'[w] \in WorkerState
  <2>. SUFFICES ASSUME NEW w \in Workers PROVE GoodWorker(worker'[w], dlq, delivered)
    BY DEF GoodWorker
  <2>1. GoodWorker(worker[w], dlq, delivered) /\ HandlerMax \in Nat
    BY ConstantsAssumption DEF IInv, WorkersInv
  <2>2. /\ worker'[w] = [worker[w] EXCEPT !.run = IF At(w, "idle") THEN @ ELSE @ + 1]
        /\ ~At(w, "idle") => worker[w].run < HandlerMax
    BY DEF Tick
  <2>. QED  BY <2>1, <2>2 DEF GoodWorker, WorkerState
<1>4. WorkersInv'
  BY <1>3 DEF Tick, WorkersInv
<1>5. CallsInv' /\ RestInv'
  BY DEF Tick, IInv, CallsInv, RestInv
<1>. QED
  BY <1>2, <1>4, <1>5 DEF IInv

\* Init establishes the invariant.
LEMMA InitGood == Init => IInv
<1>. SUFFICES ASSUME Init PROVE IInv
  OBVIOUS
<1>. USE ConstantsAssumption DEF Init
<1>1. 0 \in 0 .. StaleLock + 1 /\ 0 \in 0 .. HandlerMax
  OBVIOUS
<1>2. \A j \in Jobs : GoodRow(j, Absent, dlq, delivered)
  BY <1>1 DEF GoodRow, Row, Absent
<1>3. GoodWorker(Idle, dlq, delivered)
  BY <1>1 DEF GoodWorker, WorkerState, Idle
<1>4. GoodCall(NoCall)
  BY DEF GoodCall, Call, NoCall
<1>5. RowsInv /\ WorkersInv /\ CallsInv
  BY <1>2, <1>3, <1>4 DEF RowsInv, WorkersInv, CallsInv, GoodRow, GoodWorker, GoodCall
<1>6. RestInv
  BY DEF RestInv
<1>. QED
  BY <1>5, <1>6 DEF IInv

\* Every step keeps the invariant.
LEMMA NextGood == IInv /\ [Next]_vars => IInv'
<1>. SUFFICES ASSUME IInv, [Next]_vars PROVE IInv'
  OBVIOUS
<1>1. CASE UNCHANGED vars
  BY <1>1 DEF vars, IInv, RowsInv, WorkersInv, CallsInv, RestInv
<1>2. ASSUME NEW j \in Jobs, Enqueue(j) PROVE IInv'
  BY <1>2, EnqueueStep
<1>3. ASSUME NEW w \in Workers, Claim(w) \/ Reclaim(w) \/ BatchStep(w) \/ Crash(w) PROVE IInv'
  BY <1>3, ClaimStep, ReclaimStep, HandlerStep, CompleteStep, CompleteThrowsStep, FailReadStep,
     BackOffStep, InsertDeadStep, MarkDeadStep, CrashStep
  DEF BatchStep
<1>4. ASSUME NEW a \in Admins, CallStep(a) \/ AdminCrash(a) \/ \E j \in Jobs : RetryRead(a, j)
      PROVE IInv'
  BY <1>4, CallStepGood
<1>5. CASE Tick
  BY <1>5, TickStep
<1>. QED
  BY <1>1, <1>2, <1>3, <1>4, <1>5 DEF Next

\* The invariant holds throughout.
LEMMA Invariance == Spec => []IInv
  BY InitGood, NextGood, PTL DEF Spec

\* The rows, the workers and the calls keep their types, and failOutboxJob
\* keeps retry_count and the back-off below max_retry_count, for every number
\* of workers racing on the same job.
THEOREM TypeCorrect == Spec => []TypeOK
<1>1. IInv => TypeOK
  BY DEF IInv, TypeOK, RowsInv, WorkersInv, CallsInv, RestInv, GoodRow
<1>. QED
  BY <1>1, Invariance, PTL

\* A row carries a lock exactly while it is processing, so claim and reclaim
\* between them can reach every unfinished row.
THEOREM LocksAreConsistent == Spec => []LockIffProcessing
<1>1. IInv => LockIffProcessing
  BY DEF IInv, LockIffProcessing, RowsInv, GoodRow
<1>. QED
  BY <1>1, Invariance, PTL

\* moveToDeadLetter inserts the dead letter before it marks the row, so no
\* crash or race leaves a dead-lettered row without a dead letter to retry.
THEOREM DeadLettersAreKept == Spec => []DeadLetteredHasRow
<1>1. IInv => DeadLetteredHasRow
  BY DEF IInv, DeadLetteredHasRow, RowsInv, GoodRow
<1>. QED
  BY <1>1, Invariance, PTL

\* The at-least-once promise: a completed row was delivered, although
\* completeOutboxJob and failOutboxJob write by id without checking the lock.
THEOREM CompletedMeansDelivered == Spec => []CompletedWasDelivered
<1>1. IInv => CompletedWasDelivered
  BY DEF IInv, CompletedWasDelivered, RowsInv, GoodRow
<1>. QED
  BY <1>1, Invariance, PTL

-----------------------------------------------------------------------------
(* Requeues are audited while no process dies.  A call that found the row  *)
(* already queued relies on the trace of an earlier call, hence the second *)
(* part of the invariant.                                                  *)

Trace(j) == j \in audits \/ \E a \in Admins : admin[a].pc = "audit" /\ admin[a].job = j

TraceInv ==
  crashes = 0 =>
    /\ \A j \in Jobs : job[j].asked => Trace(j)
    /\ \A a \in Admins : admin[a].pc = "write" /\ admin[a].queued => Trace(admin[a].job)

\* Only retryDeadLetter makes a row say that a retry was requested.
LEMMA OthersDoNotAsk ==
  ASSUME IInv,
         \/ Tick
         \/ \E k \in Jobs : Enqueue(k)
         \/ \E w \in Workers : Claim(w) \/ Reclaim(w) \/ BatchStep(w)
  PROVE  /\ \A j \in Jobs : job'[j].asked => job[j].asked
         /\ UNCHANGED <<admin, audits, crashes>>
<1>. DEFINE Goal == /\ \A j \in Jobs : job'[j].asked => job[j].asked
                    /\ UNCHANGED <<admin, audits, crashes>>
<1>. USE DEF IInv, RowsInv, Row, history, rows
<1>0. \A w \in Workers : worker[w].pc # "idle" => worker[w].cur \in Jobs
  BY DEF WorkersInv, GoodWorker
<1>1. CASE \E k \in Jobs : Enqueue(k)
  BY <1>1 DEF Enqueue, Enqueued, Absent
<1>2. ASSUME NEW w \in Workers, Claim(w) PROVE Goal
  <2>1. PICK S \in SUBSET Jobs : job' = [j \in Jobs |-> IF j \in S THEN Claimed(job[j], w) ELSE job[j]]
    BY <1>2 DEF Claim
  <2>2. \A j \in Jobs : Claimed(job[j], w).asked = job[j].asked
    BY DEF Claimed
  <2>. QED  BY <1>2, <2>1, <2>2 DEF Claim
<1>3. ASSUME NEW w \in Workers, Reclaim(w) PROVE Goal
  <2>1. PICK S \in SUBSET Jobs : job' = [j \in Jobs |-> IF j \in S THEN Reclaimed(job[j]) ELSE job[j]]
    BY <1>3 DEF Reclaim
  <2>2. \A j \in Jobs : ~Reclaimed(job[j]).asked
    BY DEF Reclaimed, Unlocked
  <2>. QED  BY <1>3, <2>1, <2>2 DEF Reclaim
<1>4. ASSUME NEW w \in Workers, HandlerResolves(w) \/ HandlerThrows(w) \/ HandlerThrowsTerminal(w) PROVE Goal
  BY <1>4 DEF HandlerResolves, HandlerThrows, HandlerThrowsTerminal
<1>5. ASSUME NEW w \in Workers, Complete(w) PROVE Goal
  BY <1>0, <1>5 DEF Complete, FinishWith, Completed, Unlocked, At
<1>6. ASSUME NEW w \in Workers, CompleteThrows(w) PROVE Goal
  <2>1. worker[w].cur \in Jobs
    BY <1>0, <1>6 DEF CompleteThrows, At
  <2>2. Completed(job[worker[w].cur]).asked = job[worker[w].cur].asked
    BY <2>1 DEF Completed, Unlocked
  <2>. QED  BY <1>6, <2>1, <2>2 DEF CompleteThrows
<1>7. ASSUME NEW w \in Workers, FailRead(w) \/ InsertDead(w) PROVE Goal
  BY <1>7 DEF FailRead, InsertDead
<1>8. ASSUME NEW w \in Workers, BackOff(w) PROVE Goal
  BY <1>0, <1>8 DEF BackOff, FinishWith, BackedOff, Unlocked, At
<1>9. ASSUME NEW w \in Workers, MarkDead(w) PROVE Goal
  BY <1>0, <1>9 DEF MarkDead, FinishWith, DeadLettered, Unlocked, At
<1>10. CASE Tick
  BY <1>10 DEF Tick
<1>. QED
  BY <1>1, <1>2, <1>3, <1>4, <1>5, <1>6, <1>7, <1>8, <1>9, <1>10 DEF BatchStep

\* Every step keeps TraceInv.
LEMMA TraceStep == IInv /\ TraceInv /\ [Next]_vars => TraceInv'
<1>. SUFFICES ASSUME IInv, TraceInv, [Next]_vars, crashes' = 0 PROVE TraceInv'
  BY DEF TraceInv
<1>. USE DEF TraceInv, Trace
<1>1. CASE UNCHANGED vars
  BY <1>1 DEF vars
<1>2. CASE \/ Tick
           \/ \E k \in Jobs : Enqueue(k)
           \/ \E w \in Workers : Claim(w) \/ Reclaim(w) \/ BatchStep(w)
  BY <1>2, OthersDoNotAsk
<1>3. ASSUME NEW w \in Workers, Crash(w) PROVE FALSE
  BY <1>3 DEF Crash, IInv, RestInv
<1>4. ASSUME NEW a \in Admins, AdminCrash(a) PROVE FALSE
  BY <1>4 DEF AdminCrash, IInv, RestInv
<1>5. ASSUME NEW a \in Admins, NEW j \in Jobs, RetryRead(a, j) PROVE TraceInv'
  BY <1>5 DEF RetryRead, rows, history, IInv, CallsInv, Call
<1>6. ASSUME NEW a \in Admins, RetryWrite(a) PROVE TraceInv'
  <2>1. admin[a].job \in Jobs
    BY <1>6 DEF RetryWrite, IInv, CallsInv, GoodCall
  <2>2. CASE admin[a].queued
    BY <1>6, <2>1, <2>2 DEF RetryWrite, NoCall, Requeued, Unlocked, history, IInv, RowsInv, Row, CallsInv, Call
  <2>3. CASE ~admin[a].queued
    BY <1>6, <2>1, <2>3 DEF RetryWrite, Requeued, Unlocked, history, IInv, RowsInv, Row, CallsInv, Call
  <2>. QED  BY <2>2, <2>3
<1>7. ASSUME NEW a \in Admins, RetryAudit(a) PROVE TraceInv'
  BY <1>7 DEF RetryAudit, NoCall, rows, history, IInv, CallsInv, Call
<1>. QED
  BY <1>1, <1>2, <1>3, <1>4, <1>5, <1>6, <1>7 DEF Next, CallStep

\* Unless a process dies between the two statements, a row that says that a
\* retry was requested has its audit row, or the call that will write it is
\* still running, for any number of concurrent retries of one dead letter.
THEOREM RequeuesAreTraced == Spec => []RequeueLeavesTrace
<1>1. Init => TraceInv
  BY DEF Init, TraceInv, Absent, NoCall
<1>2. TraceInv => RequeueLeavesTrace
  BY DEF TraceInv, Trace, RequeueLeavesTrace
<1>. QED
  BY <1>1, <1>2, TraceStep, Invariance, PTL DEF Spec

-----------------------------------------------------------------------------
(* One holder per job.  A batch is locked up front and handled one job      *)
(* after the other, so a lock is as old as the jobs handled before it; when *)
(* StaleLock allows for a whole batch, no lock is reclaimed while its       *)
(* worker lives.  A requeue takes a job from its holder, so the invariant   *)
(* speaks of the time before the first.                                     *)

LocksSuffice == IsFiniteSet(Jobs) /\ Limit * HandlerMax <= StaleLock

\* The most the locks of a batch can have aged: HandlerMax for each job that
\* is done with, and the time spent on the one in hand.
Elapsed(r) == (Limit - 1 - Cardinality(r.batch)) * HandlerMax + r.run

LockedFor(row, w, n) == row.status = "processing" /\ row.owner = w /\ row.age <= n

\* What worker w in state r has of its batch in the rows J; U is unacked.
KeepsLocks(r, w, J, U) ==
  IF r.pc = "idle" THEN r.batch = {} /\ r.cur = NoJob
  ELSE /\ r.cur \notin r.batch
       /\ IsFiniteSet(r.batch) /\ Cardinality(r.batch) < Limit
       /\ \A j \in r.batch : LockedFor(J[j], w, Elapsed(r))
       /\ \/ LockedFor(J[r.cur], w, Elapsed(r))
          \/ r.pc \notin {"handle", "complete"} /\ J[r.cur].status = "completed" /\ r.cur \in U

HeldBy(r) == r.batch \cup ({r.cur} \ {NoJob})

ExclusiveInv ==
  /\ \A a \in Admins : admin[a].pc = "idle"
  /\ \A w \in Workers : KeepsLocks(worker[w], w, job, unacked)
  /\ \A v, w \in Workers : v # w => HeldBy(worker[v]) \cap HeldBy(worker[w]) = {}

Exclusive == requeues = 0 => ExclusiveInv

\* The age of a lock never exceeds what a whole batch may take.
LEMMA ElapsedBounds ==
  ASSUME NEW r \in WorkerState, IsFiniteSet(r.batch), Cardinality(r.batch) < Limit
  PROVE  /\ Elapsed(r) \in Nat
         /\ Elapsed(r) <= Limit * HandlerMax
<1>. DEFINE n == Limit - 1 - Cardinality(r.batch)
<1>1. Cardinality(r.batch) \in Nat
  BY FS_CardinalityType
<1>2. n \in Nat /\ n + 1 <= Limit /\ Limit \in Nat /\ HandlerMax \in Nat /\ r.run \in 0 .. HandlerMax
  BY <1>1, ConstantsAssumption DEF WorkerState
<1>5. Elapsed(r) = n * HandlerMax + r.run
  BY DEF Elapsed
<1>. HIDE DEF n
<1>3. \A k, m, h \in Nat : k + 1 <= m => k * h \in Nat /\ m * h \in Nat /\ k * h + h <= m * h
  OBVIOUS
<1>. DEFINE p == n * HandlerMax
            q == Limit * HandlerMax
<1>4. p \in Nat /\ q \in Nat /\ p + HandlerMax <= q
  BY <1>2, <1>3
<1>6. Elapsed(r) = p + r.run
  BY <1>5
<1>. HIDE DEF p, q
<1>7. Elapsed(r) \in Nat /\ Elapsed(r) <= q
  BY <1>2, <1>4, <1>6
<1>. QED
  BY <1>7 DEF q

\* A busy worker has a job in hand, which it holds.
LEMMA CurIsHeld ==
  ASSUME IInv, NEW w \in Workers, worker[w].pc # "idle"
  PROVE  worker[w].cur \in Jobs /\ worker[w].cur \in HeldBy(worker[w])
BY ConstantsAssumption DEF IInv, WorkersInv, GoodWorker, HeldBy

\* What is held is a job, locked for its holder or completed unacknowledged.
LEMMA HeldRows ==
  ASSUME IInv, ExclusiveInv, NEW w \in Workers, NEW j \in HeldBy(worker[w])
  PROVE  /\ j \in Jobs
         /\ worker[w].pc # "idle"
         /\ \/ LockedFor(job[j], w, Elapsed(worker[w]))
            \/ /\ worker[w].pc \notin {"handle", "complete"} /\ j = worker[w].cur
               /\ job[j].status = "completed" /\ j \in unacked
<1>1. worker[w] \in WorkerState /\ KeepsLocks(worker[w], w, job, unacked)
  BY DEF IInv, WorkersInv, ExclusiveInv
<1>2. worker[w].pc # "idle"
  BY <1>1 DEF KeepsLocks, HeldBy
<1>. QED
  BY <1>1, <1>2, CurIsHeld DEF KeepsLocks, HeldBy, WorkerState

\* A worker keeps its locks while its rows and its state stay as they are.
LEMMA UndisturbedKeeps ==
  ASSUME IInv, NEW w \in Workers, KeepsLocks(worker[w], w, job, unacked),
         NEW J, NEW U, unacked \subseteq U, \A j \in HeldBy(worker[w]) : J[j] = job[j]
  PROVE  KeepsLocks(worker[w], w, J, U)
<1>1. CASE worker[w].pc = "idle"
  BY <1>1 DEF KeepsLocks
<1>2. CASE worker[w].pc # "idle"
  BY <1>2, CurIsHeld DEF KeepsLocks, HeldBy
<1>. QED
  BY <1>1, <1>2

\* One worker moves on; what the others hold is neither touched nor taken.
LEMMA HolderMoves ==
  ASSUME IInv, ExclusiveInv, NEW w \in Workers, NEW r,
         worker' = [worker EXCEPT ![w] = r], KeepsLocks(r, w, job', unacked'),
         \A v \in Workers \ {w} : \A j \in HeldBy(worker[v]) : j \notin HeldBy(r) /\ job'[j] = job[j],
         unacked \subseteq unacked', admin' = admin
  PROVE  ExclusiveInv'
<1>. USE DEF ExclusiveInv
<1>0. worker \in [Workers -> WorkerState]
  BY DEF IInv, WorkersInv
<1>1. worker'[w] = r /\ \A v \in Workers \ {w} : worker'[v] = worker[v]
  BY <1>0
<1>2. ASSUME NEW v \in Workers PROVE KeepsLocks(worker'[v], v, job', unacked')
  <2>1. CASE v = w
    BY <1>1, <2>1
  <2>2. CASE v # w
    BY <1>1, <2>2, UndisturbedKeeps
  <2>. QED  BY <2>1, <2>2
<1>3. ASSUME NEW u \in Workers, NEW v \in Workers, u # v
      PROVE  HeldBy(worker'[u]) \cap HeldBy(worker'[v]) = {}
  <2>1. CASE u = w
    BY <1>1, <1>3, <2>1
  <2>2. CASE v = w
    BY <1>1, <1>3, <2>2
  <2>3. CASE u # w /\ v # w
    BY <1>1, <1>3, <2>3
  <2>. QED  BY <2>1, <2>2, <2>3
<1>. QED
  BY <1>2, <1>3

\* Rows nobody holds may change.
LEMMA RowsMove ==
  ASSUME IInv, ExclusiveInv, UNCHANGED <<worker, admin, unacked>>,
         \A w \in Workers : \A j \in HeldBy(worker[w]) : job'[j] = job[j]
  PROVE  ExclusiveInv'
<1>1. \A w \in Workers : KeepsLocks(worker[w], w, job', unacked)
  BY UndisturbedKeeps DEF ExclusiveInv
<1>. QED
  BY <1>1 DEF ExclusiveInv

\* A worker that starts on the next job of a batch, or goes idle.
LEMMA ProceedKeeps ==
  ASSUME NEW w \in Workers, NEW S \in SUBSET Jobs, IsFiniteSet(S), Cardinality(S) <= Limit,
         NEW r \in Proceed(S), NEW J, NEW U,
         \A j \in S : LockedFor(J[j], w, (Limit - Cardinality(S)) * HandlerMax)
  PROVE  KeepsLocks(r, w, J, U) /\ HeldBy(r) \subseteq S
<1>1. CASE S = {}
  BY <1>1 DEF Proceed, Idle, KeepsLocks, HeldBy
<1>2. CASE S # {}
  <2>1. PICK j \in S : r = [pc |-> "handle", batch |-> S \ {j}, cur |-> j, seen |-> 0, run |-> 0]
    BY <1>2 DEF Proceed
  <2>2. /\ IsFiniteSet(r.batch) /\ Cardinality(r.batch) = Cardinality(S) - 1
        /\ Cardinality(S) \in Nat
    BY <2>1, FS_RemoveElement, FS_CardinalityType
  <2>3. Limit - 1 - Cardinality(r.batch) = Limit - Cardinality(S) /\ Cardinality(r.batch) < Limit
    BY <2>2, ConstantsAssumption
  <2>4. (Limit - Cardinality(S)) * HandlerMax \in Int
    BY <2>2, ConstantsAssumption
  <2>5. Elapsed(r) = (Limit - Cardinality(S)) * HandlerMax
    BY <2>1, <2>3, <2>4 DEF Elapsed
  <2>. QED
    BY <2>1, <2>2, <2>3, <2>5 DEF KeepsLocks, HeldBy
<1>. QED
  BY <1>1, <1>2

\* The time spent on the job in hand is at most HandlerMax.
LEMMA ElapsedNext ==
  ASSUME NEW r \in WorkerState, IsFiniteSet(r.batch), Cardinality(r.batch) < Limit
  PROVE  /\ Elapsed(r) \in Nat /\ (Limit - Cardinality(r.batch)) * HandlerMax \in Nat
         /\ Elapsed(r) <= (Limit - Cardinality(r.batch)) * HandlerMax
<1>. DEFINE n == Limit - 1 - Cardinality(r.batch)
<1>1. Cardinality(r.batch) \in Nat
  BY FS_CardinalityType
<1>2. n \in Nat /\ Limit - Cardinality(r.batch) = n + 1 /\ HandlerMax \in Nat /\ r.run \in 0 .. HandlerMax
  BY <1>1, ConstantsAssumption DEF WorkerState
<1>3. Elapsed(r) = n * HandlerMax + r.run
  BY DEF Elapsed
<1>. HIDE DEF n
<1>4. \A k, h \in Nat : k * h \in Nat /\ (k + 1) * h = k * h + h
  OBVIOUS
<1>. DEFINE p == n * HandlerMax
<1>5. p \in Nat /\ (Limit - Cardinality(r.batch)) * HandlerMax = p + HandlerMax /\ Elapsed(r) = p + r.run
  BY <1>2, <1>3, <1>4
<1>. HIDE DEF p
<1>. QED
  BY <1>2, <1>5

\* The holder writes the row of the job in hand and goes on with its batch.
LEMMA FinishKeeps ==
  ASSUME IInv, ExclusiveInv, NEW w \in Workers, worker[w].pc # "idle",
         NEW row, FinishWith(w, row), UNCHANGED <<admin, unacked>>
  PROVE  ExclusiveInv'
<1>. DEFINE s == worker[w]
            S == s.batch
<1>1. s \in WorkerState /\ KeepsLocks(s, w, job, unacked) /\ S \in SUBSET Jobs
  BY DEF IInv, WorkersInv, ExclusiveInv, WorkerState
<1>2. PICK r \in Proceed(S) : worker' = [worker EXCEPT ![w] = r]
  BY DEF FinishWith
<1>3. /\ s.cur \in Jobs /\ s.cur \notin S /\ s.cur \in HeldBy(s)
      /\ IsFiniteSet(S) /\ Cardinality(S) < Limit
      /\ \A j \in S : LockedFor(job[j], w, Elapsed(s))
  BY <1>1, CurIsHeld DEF KeepsLocks
<1>4. \A j \in Jobs \ {s.cur} : job'[j] = job[j]
  BY DEF FinishWith, IInv, RowsInv
<1>5. \A j \in S : LockedFor(job'[j], w, (Limit - Cardinality(S)) * HandlerMax)
  <2>1. \A j \in S : job'[j] = job[j] /\ job[j].age \in Nat
    BY <1>1, <1>3, <1>4, ConstantsAssumption DEF IInv, RowsInv, Row
  <2>2. /\ Elapsed(s) \in Nat /\ (Limit - Cardinality(S)) * HandlerMax \in Nat
        /\ Elapsed(s) <= (Limit - Cardinality(S)) * HandlerMax
    BY <1>1, <1>3, ElapsedNext
  <2>. DEFINE a == Elapsed(s)
              b == (Limit - Cardinality(S)) * HandlerMax
  <2>3. a \in Nat /\ b \in Nat /\ a <= b /\ \A j \in S : LockedFor(job[j], w, a)
    BY <1>3, <2>2
  <2>. HIDE DEF a, b
  <2>4. \A j \in S : LockedFor(job'[j], w, b)
    BY <2>1, <2>3 DEF LockedFor
  <2>. QED  BY <2>4 DEF b
<1>6. Cardinality(S) <= Limit
  BY <1>3, FS_CardinalityType, ConstantsAssumption
<1>7. KeepsLocks(r, w, job', unacked') /\ HeldBy(r) \subseteq S
  BY <1>1, <1>2, <1>3, <1>5, <1>6, ProceedKeeps
<1>8. ASSUME NEW v \in Workers \ {w}, NEW j \in HeldBy(worker[v])
      PROVE  j \notin HeldBy(r) /\ job'[j] = job[j]
  <2>1. j \in Jobs /\ j \notin HeldBy(s)
    BY <1>8, HeldRows DEF ExclusiveInv
  <2>. QED  BY <1>3, <1>4, <1>7, <2>1 DEF HeldBy
<1>. QED
  BY <1>2, <1>7, <1>8, HolderMoves

\* The holder moves on with the job in hand and touches no other row.
LEMMA SameBatchKeeps ==
  ASSUME IInv, ExclusiveInv, NEW w \in Workers, worker[w].pc # "idle",
         NEW r \in WorkerState, worker' = [worker EXCEPT ![w] = r], r.pc # "idle",
         r.batch = worker[w].batch, r.cur = worker[w].cur, r.run = worker[w].run,
         \A j \in Jobs \ {r.cur} : job'[j] = job[j],
         \/ /\ job'[r.cur] = job[r.cur]
            /\ worker[w].pc \in {"handle", "complete"} \/ r.pc \notin {"handle", "complete"}
         \/ r.pc \notin {"handle", "complete"} /\ job'[r.cur].status = "completed" /\ r.cur \in unacked',
         unacked \subseteq unacked', admin' = admin
  PROVE  ExclusiveInv'
<1>1. KeepsLocks(worker[w], w, job, unacked) /\ worker[w] \in WorkerState
  BY DEF ExclusiveInv, IInv, WorkersInv
<1>2. Elapsed(r) = Elapsed(worker[w]) /\ HeldBy(r) = HeldBy(worker[w])
  BY DEF Elapsed, HeldBy
<1>3. \A j \in r.batch : job'[j] = job[j]
  BY <1>1 DEF KeepsLocks, WorkerState
<1>4. KeepsLocks(r, w, job', unacked')
  BY <1>1, <1>2, <1>3 DEF KeepsLocks
<1>5. ASSUME NEW v \in Workers \ {w}, NEW j \in HeldBy(worker[v])
      PROVE  j \notin HeldBy(r) /\ job'[j] = job[j]
  <2>1. j \in Jobs /\ j \notin HeldBy(worker[w])
    BY <1>5, HeldRows DEF ExclusiveInv
  <2>. QED  BY <1>2, <2>1, CurIsHeld
<1>. QED
  BY <1>4, <1>5, HolderMoves

\* A claim takes rows nobody holds.
LEMMA ClaimKeeps ==
  ASSUME LocksSuffice, IInv, ExclusiveInv, NEW w \in Workers, Claim(w)
  PROVE  ExclusiveInv'
<1>1. PICK S \in SUBSET Jobs :
        /\ IsBatch(S, Due)
        /\ job' = [j \in Jobs |-> IF j \in S THEN Claimed(job[j], w) ELSE job[j]]
        /\ \E r \in Proceed(S) : worker' = [worker EXCEPT ![w] = r]
  BY DEF Claim
<1>2. PICK r \in Proceed(S) : worker' = [worker EXCEPT ![w] = r]
  BY <1>1
<1>3. IsFiniteSet(S) /\ Cardinality(S) \in Nat /\ Cardinality(S) <= Limit
  <2>1. IsFiniteSet(S) /\ Due \subseteq Jobs
    BY FS_Subset DEF LocksSuffice, Due
  <2>2. IsFiniteSet(Due)
    BY <2>1, FS_Subset DEF LocksSuffice
  <2>3. Cardinality(S) \in Nat /\ Cardinality(Due) \in Nat /\ Limit \in Nat
    BY <2>1, <2>2, FS_CardinalityType, ConstantsAssumption
  <2>. QED  BY <1>1, <2>1, <2>3 DEF IsBatch
<1>4. \A k, h \in Nat : k * h \in Nat
  OBVIOUS
<1>5. (Limit - Cardinality(S)) * HandlerMax \in Nat
  BY <1>3, <1>4, ConstantsAssumption
<1>6. \A j \in S : LockedFor(job'[j], w, (Limit - Cardinality(S)) * HandlerMax)
  <2>. DEFINE n == (Limit - Cardinality(S)) * HandlerMax
  <2>1. n \in Nat
    BY <1>5
  <2>. HIDE DEF n
  <2>2. ASSUME NEW j \in S PROVE LockedFor(job'[j], w, n)
    <3>1. job[j] \in Row /\ job'[j] = Claimed(job[j], w)
      BY <1>1 DEF IInv, RowsInv
    <3>. QED  BY <2>1, <3>1 DEF LockedFor, Claimed, Row
  <2>. QED  BY <2>2 DEF n
<1>7. KeepsLocks(r, w, job', unacked') /\ HeldBy(r) \subseteq S
  BY <1>3, <1>6, ProceedKeeps
<1>8. ASSUME NEW v \in Workers \ {w}, NEW j \in HeldBy(worker[v])
      PROVE  j \notin HeldBy(r) /\ job'[j] = job[j]
  <2>1. j \in Jobs /\ job[j].status # "pending"
    BY <1>8, HeldRows DEF LockedFor
  <2>2. j \notin S
    BY <1>1, <2>1 DEF IsBatch, Due
  <2>. QED  BY <1>1, <1>7, <2>1, <2>2
<1>. QED
  BY <1>2, <1>7, <1>8, HolderMoves DEF Claim, history

\* The lock of a living holder is never stale.
LEMMA HeldIsNotStale ==
  ASSUME LocksSuffice, IInv, ExclusiveInv, NEW w \in Workers, NEW j \in HeldBy(worker[w])
  PROVE  j \notin Stale
<1>1. worker[w] \in WorkerState /\ KeepsLocks(worker[w], w, job, unacked) /\ worker[w].pc # "idle"
  BY HeldRows DEF IInv, WorkersInv, ExclusiveInv
<1>2. Elapsed(worker[w]) \in Nat /\ Elapsed(worker[w]) <= Limit * HandlerMax
  BY <1>1, ElapsedBounds DEF KeepsLocks
<1>. DEFINE a == Elapsed(worker[w])
            q == Limit * HandlerMax
<1>3. a \in Nat /\ a <= q /\ q <= StaleLock /\ q \in Nat /\ StaleLock \in Nat
  BY <1>2, ConstantsAssumption DEF LocksSuffice
<1>4. LockedFor(job[j], w, a) \/ job[j].status = "completed"
  BY HeldRows
<1>5. job[j].age \in Nat
  BY HeldRows, ConstantsAssumption DEF IInv, RowsInv, Row
<1>. HIDE DEF a, q
<1>. QED
  BY <1>3, <1>4, <1>5 DEF Stale, LockedFor

\* So a reclaim takes no job from a living worker.
LEMMA ReclaimKeeps ==
  ASSUME LocksSuffice, IInv, ExclusiveInv, NEW w \in Workers, Reclaim(w)
  PROVE  ExclusiveInv'
<1>1. PICK S \in SUBSET Jobs :
        IsBatch(S, Stale) /\ job' = [j \in Jobs |-> IF j \in S THEN Reclaimed(job[j]) ELSE job[j]]
  BY DEF Reclaim
<1>2. ASSUME NEW v \in Workers, NEW j \in HeldBy(worker[v]) PROVE job'[j] = job[j]
  BY <1>1, <1>2, HeldIsNotStale, HeldRows DEF IsBatch
<1>. QED
  BY <1>2, RowsMove DEF Reclaim, history

\* The steps of a worker inside an iteration keep the locks apart.
LEMMA IterationKeeps ==
  ASSUME IInv, ExclusiveInv, NEW w \in Workers, BatchStep(w)
  PROVE  ExclusiveInv'
<1>. DEFINE s == worker[w]
<1>. USE DEF At, history, rows
<1>1. s \in WorkerState /\ worker \in [Workers -> WorkerState] /\ job \in [Jobs -> Row]
  BY DEF IInv, WorkersInv, RowsInv
<1>2. s.pc # "idle" /\ s.cur \in Jobs
  BY CurIsHeld DEF BatchStep, HandlerResolves, HandlerThrows, HandlerThrowsTerminal, Complete,
     CompleteThrows, FailRead, BackOff, InsertDead, MarkDead
<1>3. ASSUME NEW pc \in {"complete", "fail", "insert_dead", "mark_dead"}, Goto(w, pc), job' = job,
             unacked' = unacked, admin' = admin, s.pc = "handle" \/ pc \notin {"handle", "complete"}
      PROVE  ExclusiveInv'
  <2>. DEFINE r == [s EXCEPT !.pc = pc]
  <2>1. r \in WorkerState /\ worker' = [worker EXCEPT ![w] = r]
    BY <1>1, <1>3 DEF WorkerState, Goto
  <2>2. r.pc = pc /\ r.batch = s.batch /\ r.cur = s.cur /\ r.run = s.run
    BY <1>1 DEF WorkerState
  <2>. HIDE DEF r
  <2>. QED  BY <1>2, <1>3, <2>1, <2>2, SameBatchKeeps
<1>4. CASE HandlerResolves(w) \/ HandlerThrows(w) \/ HandlerThrowsTerminal(w)
  BY <1>3, <1>4 DEF HandlerResolves, HandlerThrows, HandlerThrowsTerminal
<1>5. CASE Complete(w) \/ BackOff(w) \/ MarkDead(w)
  BY <1>2, <1>5, FinishKeeps DEF Complete, BackOff, MarkDead
<1>6. CASE CompleteThrows(w)
  <2>. DEFINE r == [s EXCEPT !.pc = "fail"]
  <2>1. r \in WorkerState /\ worker' = [worker EXCEPT ![w] = r]
    BY <1>1, <1>6 DEF WorkerState, Goto, CompleteThrows
  <2>2. r.pc = "fail" /\ r.batch = s.batch /\ r.cur = s.cur /\ r.run = s.run
    BY <1>1 DEF WorkerState
  <2>3. \A j \in Jobs \ {s.cur} : job'[j] = job[j]
    BY <1>1, <1>6 DEF CompleteThrows
  <2>4. job'[s.cur] = job[s.cur] \/ job'[s.cur].status = "completed"
    <3>1. \A row \in Row : Completed(row).status = "completed"
      BY DEF Completed, Unlocked, Row
    <3>2. job' = job \/ job' = [job EXCEPT ![s.cur] = Completed(job[s.cur])]
      BY <1>6 DEF CompleteThrows
    <3>. QED  BY <1>1, <1>2, <3>1, <3>2
  <2>5. s.cur \in unacked' /\ unacked \subseteq unacked' /\ admin' = admin
    BY <1>6 DEF CompleteThrows
  <2>. HIDE DEF r
  <2>. QED  BY <1>2, <2>1, <2>2, <2>3, <2>4, <2>5, SameBatchKeeps
<1>7. CASE FailRead(w)
  <2>. DEFINE j == s.cur
              pc == IF Spent(j, job[j].retry) THEN "insert_dead" ELSE "back_off"
              r == [s EXCEPT !.seen = job[j].retry, !.pc = pc]
  <2>1. job[j].retry \in Nat
    BY <1>1, <1>2 DEF Row
  <2>2. pc \in {"insert_dead", "back_off"}
    OBVIOUS
  <2>3. worker' = [worker EXCEPT ![w] = [s EXCEPT !.seen = job[j].retry, !.pc = pc]]
    BY <1>1, <1>7 DEF FailRead
  <2>. HIDE DEF pc
  <2>4. r \in WorkerState
    BY <1>1, <2>1, <2>2 DEF WorkerState
  <2>5. r.pc = pc /\ r.batch = s.batch /\ r.cur = s.cur /\ r.run = s.run
    BY <1>1 DEF WorkerState
  <2>6. worker' = [worker EXCEPT ![w] = r]
    BY <2>3
  <2>. HIDE DEF r
  <2>. QED  BY <1>2, <1>7, <2>2, <2>4, <2>5, <2>6, SameBatchKeeps DEF FailRead
<1>8. CASE InsertDead(w)
  BY <1>3, <1>8 DEF InsertDead
<1>. QED
  BY <1>4, <1>5, <1>6, <1>7, <1>8 DEF BatchStep

\* A worker that dies holds nothing; the locks in the rows stay.
LEMMA CrashKeeps ==
  ASSUME IInv, ExclusiveInv, NEW w \in Workers, Crash(w)
  PROVE  ExclusiveInv'
<1>1. KeepsLocks(Idle, w, job', unacked') /\ HeldBy(Idle) = {}
  BY DEF KeepsLocks, Idle, HeldBy
<1>. QED
  BY <1>1, HolderMoves DEF Crash, rows, history

\* As time passes, a lock ages by as much as its holder may take.
LEMMA TickKeeps == ASSUME IInv, ExclusiveInv, Tick PROVE ExclusiveInv'
<1>1. job \in [Jobs -> Row] /\ worker \in [Workers -> WorkerState]
  BY DEF IInv, RowsInv, WorkersInv
<1>2. \A j \in Jobs :
        /\ job'[j].status = job[j].status /\ job'[j].owner = job[j].owner
        /\ job'[j].age \in Int /\ job'[j].age <= job[j].age + 1
  <2>. SUFFICES ASSUME NEW j \in Jobs
                PROVE  /\ job'[j].status = job[j].status /\ job'[j].owner = job[j].owner
                       /\ job'[j].age \in Int /\ job'[j].age <= job[j].age + 1
    OBVIOUS
  <2>. DEFINE row == job[j]
              wait == IF row.wait > 0 THEN row.wait - 1 ELSE row.wait
              age == IF row.status = "processing" /\ row.age <= StaleLock THEN row.age + 1 ELSE row.age
  <2>1. job'[j] = [row EXCEPT !.wait = wait, !.age = age]
    BY DEF Tick
  <2>2. age \in Int /\ age <= row.age + 1 /\ row \in Row
    BY <1>1, ConstantsAssumption DEF Row
  <2>. HIDE DEF wait, age
  <2>. QED  BY <2>1, <2>2 DEF Row
<1>3. \A w \in Workers :
        /\ worker'[w].pc = worker[w].pc /\ worker'[w].batch = worker[w].batch
        /\ worker'[w].cur = worker[w].cur
        /\ worker[w].pc # "idle" => worker'[w].run = worker[w].run + 1
  <2>. SUFFICES ASSUME NEW w \in Workers
                PROVE  /\ worker'[w].pc = worker[w].pc /\ worker'[w].batch = worker[w].batch
                       /\ worker'[w].cur = worker[w].cur
                       /\ worker[w].pc # "idle" => worker'[w].run = worker[w].run + 1
    OBVIOUS
  <2>1. worker[w] \in WorkerState
    BY <1>1
  <2>2. worker'[w] = [worker[w] EXCEPT !.run = IF At(w, "idle") THEN @ ELSE @ + 1]
    BY DEF Tick
  <2>. QED  BY <2>1, <2>2 DEF At, WorkerState
<1>4. ASSUME NEW w \in Workers PROVE KeepsLocks(worker'[w], w, job', unacked')
  <2>1. KeepsLocks(worker[w], w, job, unacked) /\ worker[w] \in WorkerState /\ unacked' = unacked
    BY <1>1 DEF ExclusiveInv, Tick, history
  <2>2. CASE worker[w].pc = "idle"
    BY <1>3, <2>1, <2>2 DEF KeepsLocks
  <2>3. CASE worker[w].pc # "idle"
    <3>. DEFINE a == Elapsed(worker[w])
                b == Elapsed(worker'[w])
                p == (Limit - 1 - Cardinality(worker[w].batch)) * HandlerMax
    <3>1. a \in Nat
      BY <2>1, <2>3, ElapsedBounds DEF KeepsLocks
    <3>2. a = p + worker[w].run /\ b = p + (worker[w].run + 1) /\ worker[w].run \in Int
      BY <1>3, <2>1, <2>3, ConstantsAssumption DEF Elapsed, WorkerState
    <3>3. p \in Int
      <4>1. Cardinality(worker[w].batch) \in Nat
        BY <2>1, <2>3, FS_CardinalityType DEF KeepsLocks
      <4>2. \A k, h \in Int : k * h \in Int
        OBVIOUS
      <4>. QED  BY <4>1, <4>2, ConstantsAssumption
    <3>. HIDE DEF p
    <3>4. b = a + 1
      BY <3>2, <3>3
    <3>. HIDE DEF a, b
    <3>5. \A j \in Jobs : LockedFor(job[j], w, a) => LockedFor(job'[j], w, b)
      <4>1. \A j \in Jobs : job[j].age \in Int
        BY <1>1, ConstantsAssumption DEF Row
      <4>. QED  BY <1>2, <3>1, <3>4, <4>1 DEF LockedFor
    <3>6. worker[w].cur \in Jobs /\ worker[w].batch \subseteq Jobs
      BY <2>1, <2>3, CurIsHeld DEF WorkerState
    <3>7. /\ worker[w].cur \notin worker[w].batch
          /\ IsFiniteSet(worker[w].batch) /\ Cardinality(worker[w].batch) < Limit
          /\ \A j \in worker[w].batch : LockedFor(job[j], w, a)
          /\ \/ LockedFor(job[worker[w].cur], w, a)
             \/ /\ worker[w].pc \notin {"handle", "complete"}
                /\ job[worker[w].cur].status = "completed" /\ worker[w].cur \in unacked
      BY <2>1, <2>3 DEF KeepsLocks, a
    <3>8. /\ \A j \in worker[w].batch : LockedFor(job'[j], w, b)
          /\ \/ LockedFor(job'[worker[w].cur], w, b)
             \/ /\ worker[w].pc \notin {"handle", "complete"}
                /\ job'[worker[w].cur].status = "completed" /\ worker[w].cur \in unacked'
      BY <1>2, <2>1, <3>5, <3>6, <3>7
    <3>. QED
      BY <1>3, <2>3, <3>7, <3>8 DEF KeepsLocks, b
  <2>. QED
    BY <2>2, <2>3
<1>5. \A w \in Workers : HeldBy(worker'[w]) = HeldBy(worker[w])
  BY <1>3 DEF HeldBy
<1>. QED
  BY <1>4, <1>5 DEF ExclusiveInv, Tick

\* Init establishes the invariant.
LEMMA ExclusiveInit == Init => Exclusive
BY DEF Init, Exclusive, ExclusiveInv, KeepsLocks, Idle, HeldBy, NoCall

\* Requeues are counted for ever, so before the first nobody asks for one.
LEMMA NoRequeueYet ==
  ASSUME IInv, [Next]_vars, requeues' = 0
  PROVE  requeues = 0 /\ \A a \in Admins, j \in Jobs : ~RetryRead(a, j)
<1>1. requeues \in Nat
  BY DEF IInv, RestInv
<1>2. requeues' = requeues \/ requeues' = requeues + 1
  BY DEF Next, vars, Enqueue, Claim, Reclaim, BatchStep, HandlerResolves, HandlerThrows,
     HandlerThrowsTerminal, Complete, CompleteThrows, FailRead, BackOff, InsertDead, MarkDead, Crash,
     CallStep, RetryWrite, RetryAudit, AdminCrash, RetryRead, Tick
<1>. QED
  BY <1>1, <1>2 DEF RetryRead

\* Before the first requeue, every step is one of a producer, a worker or time.
LEMMA StepsBeforeRequeue ==
  ASSUME IInv, [Next]_vars, requeues' = 0, \A a \in Admins : admin[a].pc = "idle"
  PROVE  \/ UNCHANGED vars
         \/ \E j \in Jobs : Enqueue(j)
         \/ \E w \in Workers : Claim(w) \/ Reclaim(w) \/ BatchStep(w) \/ Crash(w)
         \/ Tick
BY NoRequeueYet DEF Next, CallStep, RetryWrite, RetryAudit, AdminCrash

\* Every step keeps holders apart while locks outlast a batch.
LEMMA ExclusiveStep ==
  ASSUME LocksSuffice
  PROVE  IInv /\ Exclusive /\ [Next]_vars => Exclusive'
<1>. SUFFICES ASSUME IInv, Exclusive, [Next]_vars, requeues' = 0 PROVE ExclusiveInv'
  BY DEF Exclusive
<1>0. requeues = 0 /\ ExclusiveInv
  BY NoRequeueYet DEF Exclusive
<1>1. CASE UNCHANGED vars
  BY <1>0, <1>1 DEF vars, ExclusiveInv
<1>2. ASSUME NEW j \in Jobs, Enqueue(j) PROVE ExclusiveInv'
  <2>1. ASSUME NEW w \in Workers, NEW k \in HeldBy(worker[w]) PROVE job'[k] = job[k]
    <3>1. k \in Jobs /\ job[k].status # "absent"
      BY <1>0, <2>1, HeldRows DEF LockedFor
    <3>. QED  BY <1>2, <3>1 DEF Enqueue, IInv, RowsInv
  <2>. QED  BY <1>0, <1>2, <2>1, RowsMove DEF Enqueue, history
<1>3. ASSUME NEW w \in Workers, Claim(w) \/ Reclaim(w) \/ BatchStep(w) \/ Crash(w) PROVE ExclusiveInv'
  BY <1>0, <1>3, ClaimKeeps, ReclaimKeeps, IterationKeeps, CrashKeeps
<1>4. CASE Tick
  BY <1>0, <1>4, TickKeeps
<1>. QED
  BY <1>0, <1>1, <1>2, <1>3, <1>4, StepsBeforeRequeue DEF ExclusiveInv

\* Until the first requeue no two workers hold one job, and a held row names
\* its holder, if a lock may grow as old as a whole batch takes: the writes by
\* id alone in completeOutboxJob and failOutboxJob hit nobody else's attempt.
THEOREM OneHolderPerJob ==
  ASSUME LocksSuffice
  PROVE  Spec => [](requeues = 0 => SingleHolder)
<1>1. IInv /\ Exclusive => (requeues = 0 => SingleHolder)
  <2>. SUFFICES ASSUME IInv, ExclusiveInv, NEW w \in Workers, NEW j \in Holding(w)
                PROVE  /\ \/ job[j].status = "processing" /\ job[j].owner = w
                          \/ job[j].status = "completed" /\ j \in unacked /\ j = worker[w].cur
                       /\ \A v \in Workers \ {w} : j \notin Holding(v)
    BY DEF Exclusive, SingleHolder
  <2>1. \A v \in Workers : Holding(v) = HeldBy(worker[v])
    BY DEF Holding, HeldBy
  <2>2. LockedFor(job[j], w, Elapsed(worker[w]))
        \/ (job[j].status = "completed" /\ j \in unacked /\ j = worker[w].cur)
    BY <2>1, HeldRows
  <2>. QED  BY <2>1, <2>2 DEF ExclusiveInv, LockedFor
<1>. QED
  BY <1>1, ExclusiveInit, ExclusiveStep, Invariance, PTL DEF Spec

\* A row that is dead-lettered, or completed and acknowledged, is in nobody's
\* hands; nor is it claimed or reclaimed.
LEMMA SettledStays ==
  ASSUME IInv, ExclusiveInv, [Next]_vars, requeues' = 0,
         NEW j \in Jobs,
         job[j].status = "dead_lettered" \/ (job[j].status = "completed" /\ j \notin unacked)
  PROVE  job'[j].status = job[j].status
<1>. USE DEF history, rows
<1>0. job \in [Jobs -> Row]
  BY DEF IInv, RowsInv
<1>1. CASE UNCHANGED vars
  BY <1>1 DEF vars
<1>2. ASSUME NEW k \in Jobs, Enqueue(k) PROVE job'[j].status = job[j].status
  BY <1>0, <1>2 DEF Enqueue
<1>3. ASSUME NEW w \in Workers, Claim(w) \/ Reclaim(w) PROVE job'[j].status = job[j].status
  BY <1>3 DEF Claim, Reclaim, IsBatch, Due, Stale
<1>4. ASSUME NEW w \in Workers, BatchStep(w) PROVE job'[j].status = job[j].status
  <2>1. worker[w].pc # "idle"
    BY <1>4 DEF BatchStep, HandlerResolves, HandlerThrows, HandlerThrowsTerminal, Complete,
       CompleteThrows, FailRead, BackOff, InsertDead, MarkDead, At
  <2>2. worker[w].cur # j
    BY <2>1, CurIsHeld, HeldRows DEF LockedFor
  <2>3. \A k \in Jobs \ {worker[w].cur} : job'[k] = job[k]
    BY <1>0, <1>4 DEF BatchStep, HandlerResolves, HandlerThrows, HandlerThrowsTerminal, Complete,
       CompleteThrows, FailRead, BackOff, InsertDead, MarkDead, FinishWith
  <2>. QED  BY <2>2, <2>3
<1>5. ASSUME NEW w \in Workers, Crash(w) PROVE job'[j].status = job[j].status
  BY <1>5 DEF Crash
<1>6. CASE Tick
  <2>1. \E a, b : job'[j] = [job[j] EXCEPT !.wait = a, !.age = b]
    BY <1>6 DEF Tick
  <2>. QED  BY <1>0, <2>1 DEF Row
<1>. QED
  BY <1>1, <1>2, <1>3, <1>4, <1>5, <1>6, StepsBeforeRequeue DEF ExclusiveInv

\* Where nothing is requeued and a lock may grow as old as a whole batch
\* takes, an acknowledged completion is final: no late failure or dead letter
\* of another attempt is written over it.
THEOREM CompletionsAreFinal ==
  ASSUME LocksSuffice, MaxRequeues = 0
  PROVE  Spec => CompletedIsFinal
<1>1. IInv /\ IInv' /\ Exclusive /\ [Next]_vars =>
        [\A j \in Jobs \ unacked : job[j].status = "completed" => job'[j].status = "completed"]_vars
  BY SettledStays DEF Exclusive, IInv, RestInv
<1>. QED
  BY <1>1, ExclusiveInit, ExclusiveStep, Invariance, PTL DEF Spec, CompletedIsFinal

-----------------------------------------------------------------------------
(* No early dead letter.  Two workers that fail one job may read the same   *)
(* retry_count, so retry_count may fall behind the errors but never run     *)
(* ahead of them: what a row holds, or is about to be given, counts errors  *)
(* of attempts that are over, and each worker about to read it one more.    *)

Failing(j) == {w \in Workers : worker[w].pc = "fail" /\ worker[w].cur = j}

Enough(j) == errors[j] >= MaxRetry[j]

Counted(j, n) == Enough(j) \/ n + Cardinality(Failing(j)) <= errors[j]

AttemptsInv ==
  /\ \A a \in Admins : admin[a].pc = "idle"
  /\ \A j \in Jobs : Counted(j, job[j].retry)
  /\ \A w \in Workers :
       /\ worker[w].pc = "back_off" => Counted(worker[w].cur, worker[w].seen + 1)
       /\ worker[w].pc = "insert_dead" => worker[w].cur \in fatal \/ Enough(worker[w].cur)
  /\ \A j \in dlq : j \in fatal \/ Enough(j)

Attempts == requeues = 0 => AttemptsInv

\* How many workers are about to read the retry_count of a job.
LEMMA FailingMoves ==
  ASSUME IsFiniteSet(Workers), IInv, NEW w \in Workers, NEW r,
         worker' = [worker EXCEPT ![w] = r], NEW j \in Jobs
  PROVE  /\ Cardinality(Failing(j)) \in Nat /\ Cardinality(Failing(j)') \in Nat
         /\ ~(r.pc = "fail" /\ r.cur = j) => Cardinality(Failing(j)') <= Cardinality(Failing(j))
         /\ w \in Failing(j) /\ r.pc # "fail" => Cardinality(Failing(j)') = Cardinality(Failing(j)) - 1
         /\ worker[w].pc # "fail" /\ r.pc = "fail" /\ r.cur = j =>
              Cardinality(Failing(j)') = Cardinality(Failing(j)) + 1
<1>. DEFINE F == Failing(j)
            G == Failing(j)'
<1>0. worker \in [Workers -> WorkerState]
  BY DEF IInv, WorkersInv
<1>1. IsFiniteSet(F) /\ IsFiniteSet(G)
  BY FS_Subset DEF Failing
<1>2. Cardinality(F) \in Nat /\ Cardinality(G) \in Nat
  BY <1>1, FS_CardinalityType
<1>3. ~(r.pc = "fail" /\ r.cur = j) => G = F \ {w}
  BY <1>0 DEF Failing
<1>4. worker[w].pc # "fail" /\ r.pc = "fail" /\ r.cur = j => G = F \cup {w} /\ w \notin F
  BY <1>0 DEF Failing
<1>. HIDE DEF F, G
<1>5. Cardinality(F \ {w}) = IF w \in F THEN Cardinality(F) - 1 ELSE Cardinality(F)
  BY <1>1, FS_RemoveElement
<1>6. Cardinality(F \cup {w}) = IF w \in F THEN Cardinality(F) ELSE Cardinality(F) + 1
  BY <1>1, FS_AddElement
<1>7. ~(r.pc = "fail" /\ r.cur = j) =>
        Cardinality(G) = IF w \in F THEN Cardinality(F) - 1 ELSE Cardinality(F)
  BY <1>3, <1>5
<1>8. worker[w].pc # "fail" /\ r.pc = "fail" /\ r.cur = j => Cardinality(G) = Cardinality(F) + 1
  BY <1>4, <1>6
<1>. DEFINE f == Cardinality(F)
            g == Cardinality(G)
<1>9. /\ ~(r.pc = "fail" /\ r.cur = j) => g <= f
      /\ w \in F /\ r.pc # "fail" => g = f - 1
  <2>1. f \in Nat /\ (~(r.pc = "fail" /\ r.cur = j) => g = IF w \in F THEN f - 1 ELSE f)
    BY <1>2, <1>7
  <2>. HIDE DEF f, g
  <2>. QED  BY <2>1
<1>. QED
  BY <1>2, <1>8, <1>9 DEF F, G

\* A step that adds no failing worker and forgets no error.
LEMMA CountedKept ==
  ASSUME IsFiniteSet(Workers), IInv, NEW w \in Workers, NEW r, r.pc # "fail",
         worker' = [worker EXCEPT ![w] = r], errors' = errors, NEW j \in Jobs, NEW n \in Nat,
         Counted(j, n)
  PROVE  Counted(j, n)'
<1>. DEFINE f == Cardinality(Failing(j))
            g == Cardinality(Failing(j)')
<1>1. f \in Nat /\ g \in Nat /\ g <= f
  BY FailingMoves
<1>2. Enough(j) \/ n + f <= errors[j]
  BY DEF Counted
<1>3. errors[j] \in Nat
  BY DEF IInv, RestInv
<1>. HIDE DEF f, g
<1>4. Enough(j)' \/ n + g <= errors'[j]
  BY <1>1, <1>2, <1>3 DEF Enough
<1>. QED
  BY <1>4 DEF Counted, g

\* An error that is counted makes up for the worker that is about to read.
LEMMA CountedByError ==
  ASSUME IsFiniteSet(Workers), IInv, NEW w \in Workers, worker[w].pc \notin {"idle", "fail"},
         Goto(w, "fail"), CountError(w), NEW j \in Jobs
  PROVE  /\ Enough(j) => Enough(j)'
         /\ \A n \in Nat : Counted(j, n) => Counted(j, n)'
<1>. DEFINE r == [worker[w] EXCEPT !.pc = "fail"]
            f == Cardinality(Failing(j))
            g == Cardinality(Failing(j)')
<1>1. worker[w] \in WorkerState /\ worker' = [worker EXCEPT ![w] = r] /\ worker[w].cur \in Jobs
  BY CurIsHeld DEF IInv, WorkersInv, Goto
<1>2. r.pc = "fail" /\ r.cur = worker[w].cur
  BY <1>1 DEF WorkerState
<1>. HIDE DEF r
<1>3. f \in Nat /\ g \in Nat /\ (j # r.cur => g <= f) /\ (j = r.cur => g = f + 1)
  BY <1>1, <1>2, FailingMoves
<1>4. errors[j] \in Nat /\ MaxRetry[j] \in Nat
  BY ConstantsAssumption DEF IInv, RestInv
<1>5. /\ j = r.cur /\ errors[j] < MaxRetry[j] => errors'[j] = errors[j] + 1
      /\ ~(j = r.cur /\ errors[j] < MaxRetry[j]) => errors'[j] = errors[j]
  BY <1>1, <1>2 DEF CountError, IInv, RestInv
<1>6. Enough(j) => Enough(j)'
  BY <1>4, <1>5 DEF Enough
<1>7. ASSUME NEW n \in Nat, Counted(j, n) PROVE Counted(j, n)'
  <2>1. Enough(j) \/ n + f <= errors[j]
    BY <1>7 DEF Counted
  <2>. HIDE DEF f, g
  <2>2. Enough(j)' \/ n + g <= errors'[j]
    BY <1>3, <1>4, <1>5, <2>1 DEF Enough
  <2>. QED  BY <2>2 DEF Counted, g
<1>. QED
  BY <1>6, <1>7

\* A worker moves on without failing: it has counted errors for the retry it
\* writes, or is about to write, and for the dead letter.
LEMMA AttemptMoves ==
  ASSUME IsFiniteSet(Workers), IInv, IInv', AttemptsInv, NEW w \in Workers, NEW r, r.pc # "fail",
         worker' = [worker EXCEPT ![w] = r], errors' = errors, fatal \subseteq fatal', admin' = admin,
         \A j \in Jobs : Counted(j, job'[j].retry),
         r.pc = "back_off" => Counted(r.cur, r.seen + 1)',
         r.pc = "insert_dead" => r.cur \in fatal' \/ Enough(r.cur),
         \A j \in dlq' : j \in fatal' \/ Enough(j)
  PROVE  AttemptsInv'
<1>0. worker \in [Workers -> WorkerState] /\ worker' \in [Workers -> WorkerState]
  BY DEF IInv, WorkersInv
<1>1. \A j \in Jobs : Enough(j)' <=> Enough(j)
  BY DEF Enough
<1>2. ASSUME NEW j \in Jobs PROVE Counted(j, job[j].retry)'
  <2>1. job'[j].retry \in Nat
    BY DEF IInv, RowsInv, Row
  <2>2. \A n \in Nat : Counted(j, n) => Counted(j, n)'
    BY CountedKept
  <2>. QED  BY <2>1, <2>2 DEF Counted
<1>3. ASSUME NEW v \in Workers, worker'[v].pc = "back_off"
      PROVE  Counted(worker[v].cur, worker[v].seen + 1)'
  <2>1. CASE v = w
    BY <1>0, <1>3, <2>1 DEF Counted, Enough, Failing
  <2>2. CASE v # w
    <3>1. worker'[v] = worker[v] /\ worker[v].cur \in Jobs /\ worker[v].seen + 1 \in Nat
      BY <1>0, <1>3, <2>2, CurIsHeld DEF WorkerState
    <3>2. Counted(worker[v].cur, worker[v].seen + 1)
      BY <1>3, <3>1 DEF AttemptsInv
    <3>3. \A j \in Jobs, n \in Nat : Counted(j, n) => Counted(j, n)'
      BY CountedKept
    <3>. QED  BY <3>1, <3>2, <3>3 DEF Counted, Enough, Failing
  <2>. QED  BY <2>1, <2>2
<1>4. ASSUME NEW v \in Workers, worker'[v].pc = "insert_dead"
      PROVE  worker'[v].cur \in fatal' \/ Enough(worker[v].cur)'
  BY <1>0, <1>4 DEF AttemptsInv, Enough
<1>5. \A j \in dlq' : j \in fatal' \/ Enough(j)'
  BY DEF Enough
<1>6. \A a \in Admins : admin'[a].pc = "idle"
  BY DEF AttemptsInv
<1>. QED
  BY <1>2, <1>3, <1>4, <1>5, <1>6 DEF AttemptsInv

\* A worker that catches an error, and what this leaves of the others' counts.
LEMMA AttemptFails ==
  ASSUME IsFiniteSet(Workers), IInv, IInv', AttemptsInv, NEW w \in Workers,
         worker[w].pc \notin {"idle", "fail"}, Goto(w, "fail"), CountError(w),
         fatal' = fatal, dlq' = dlq, admin' = admin,
         \A j \in Jobs : job'[j].retry = job[j].retry
  PROVE  AttemptsInv'
<1>0. worker \in [Workers -> WorkerState] /\ \A j \in Jobs : job[j].retry \in Nat
  BY DEF IInv, WorkersInv, RowsInv, Row
<1>1. \A j \in Jobs : (Enough(j) => Enough(j)') /\ \A n \in Nat : Counted(j, n) => Counted(j, n)'
  BY CountedByError
<1>2. ASSUME NEW j \in Jobs PROVE Counted(j, job[j].retry)'
  <2>1. Counted(j, job[j].retry) /\ job[j].retry \in Nat /\ job'[j].retry = job[j].retry
    BY <1>0 DEF AttemptsInv
  <2>. QED  BY <1>1, <2>1 DEF Counted
<1>3. ASSUME NEW v \in Workers, worker'[v].pc \in {"back_off", "insert_dead"}
      PROVE  worker'[v] = worker[v] /\ worker[v].cur \in Jobs /\ worker[v].seen + 1 \in Nat
  <2>1. v # w
    BY <1>0, <1>3 DEF Goto, WorkerState
  <2>. QED  BY <1>0, <1>3, <2>1, CurIsHeld DEF Goto, WorkerState
<1>4. ASSUME NEW v \in Workers, worker'[v].pc = "back_off"
      PROVE  Counted(worker[v].cur, worker[v].seen + 1)'
  <2>1. Counted(worker[v].cur, worker[v].seen + 1)
    BY <1>3, <1>4 DEF AttemptsInv
  <2>. QED  BY <1>1, <1>3, <1>4, <2>1 DEF Counted, Enough, Failing
<1>5. ASSUME NEW v \in Workers, worker'[v].pc = "insert_dead"
      PROVE  worker'[v].cur \in fatal' \/ Enough(worker[v].cur)'
  BY <1>1, <1>3, <1>5 DEF AttemptsInv, Enough
<1>6. \A j \in dlq' : j \in fatal' \/ Enough(j)'
  BY <1>1 DEF AttemptsInv, IInv, RestInv
<1>7. \A a \in Admins : admin'[a].pc = "idle"
  BY DEF AttemptsInv
<1>. QED
  BY <1>2, <1>4, <1>5, <1>6, <1>7 DEF AttemptsInv

\* What failOutboxJob reads leaves out at least the error it was called for.
LEMMA FailReadCounts ==
  ASSUME IsFiniteSet(Workers), IInv, IInv', AttemptsInv, NEW w \in Workers, FailRead(w)
  PROVE  AttemptsInv'
<1>0. /\ worker \in [Workers -> WorkerState] /\ worker[w].pc = "fail" /\ worker[w].cur \in Jobs
      /\ \A i \in Jobs : job[i].retry \in Nat /\ errors[i] \in Nat /\ MaxRetry[i] \in Nat
  BY CurIsHeld, ConstantsAssumption DEF IInv, WorkersInv, RowsInv, RestInv, Row, FailRead, At
<1>1. PICK j \in Jobs, n \in Nat : j = worker[w].cur /\ n = job[j].retry
  BY <1>0
<1>2. PICK pc \in {"insert_dead", "back_off"} : pc = IF Spent(j, n) THEN "insert_dead" ELSE "back_off"
  OBVIOUS
<1>3. PICK r : r = [worker[w] EXCEPT !.seen = n, !.pc = pc]
  OBVIOUS
<1>4. worker' = [worker EXCEPT ![w] = r] /\ r.pc = pc /\ r.cur = j /\ r.seen = n
  BY <1>0, <1>1, <1>2, <1>3 DEF FailRead, WorkerState
<1>5. UNCHANGED <<job, dlq, admin, errors, fatal>>
  BY DEF FailRead, rows, history
<1>6. w \in Failing(j) /\ Counted(j, n)
  BY <1>0, <1>1 DEF Failing, AttemptsInv
<1>. DEFINE f == Cardinality(Failing(j))
            g == Cardinality(Failing(j)')
<1>7. f \in Nat /\ g \in Nat /\ g = f - 1 /\ (Enough(j) \/ n + f <= errors[j])
  BY <1>0, <1>2, <1>4, <1>6, FailingMoves DEF Counted
<1>. HIDE DEF f, g
<1>8. Enough(j) \/ (n + 1) + g <= errors[j]
  BY <1>0, <1>7
<1>9. pc = "back_off" => Counted(j, n + 1)'
  BY <1>5, <1>8 DEF Counted, Enough, g
<1>10. pc = "insert_dead" => Enough(j)
  BY <1>0, <1>2, <1>7 DEF Spent, Enough
<1>. QED
  BY <1>2, <1>4, <1>5, <1>9, <1>10, AttemptMoves DEF AttemptsInv

\* Nobody moves: rows that change keep a retry_count that has been counted.
LEMMA AttemptsUndisturbed ==
  ASSUME IInv, IInv', AttemptsInv, UNCHANGED <<errors, fatal, dlq, admin>>,
         \A w \in Workers : /\ worker'[w].pc = worker[w].pc /\ worker'[w].cur = worker[w].cur
                            /\ worker'[w].seen = worker[w].seen,
         \A j \in Jobs : Counted(j, job'[j].retry)
  PROVE  AttemptsInv'
<1>1. \A j \in Jobs : Failing(j)' = Failing(j) /\ (Enough(j)' <=> Enough(j))
  BY DEF Failing, Enough
<1>2. \A j \in Jobs : \A n : Counted(j, n) => Counted(j, n)'
  BY <1>1 DEF Counted, Enough
<1>3. \A w \in Workers : worker[w].pc # "idle" => worker[w].cur \in Jobs
  BY CurIsHeld
<1>4. \A j \in Jobs : Counted(j, job[j].retry)'
  BY <1>2 DEF Counted
<1>5. ASSUME NEW w \in Workers, worker'[w].pc = "back_off"
      PROVE  Counted(worker[w].cur, worker[w].seen + 1)'
  <2>1. Counted(worker[w].cur, worker[w].seen + 1) /\ worker[w].cur \in Jobs
    BY <1>3, <1>5 DEF AttemptsInv
  <2>. QED  BY <1>2, <2>1 DEF Counted, Enough, Failing
<1>6. ASSUME NEW w \in Workers, worker'[w].pc = "insert_dead"
      PROVE  worker'[w].cur \in fatal' \/ Enough(worker[w].cur)'
  BY <1>6 DEF AttemptsInv, Enough
<1>7. (\A a \in Admins : admin'[a].pc = "idle") /\ \A j \in dlq' : j \in fatal' \/ Enough(j)'
  BY DEF AttemptsInv, Enough
<1>. QED
  BY <1>4, <1>5, <1>6, <1>7 DEF AttemptsInv

\* What is counted stays so for a smaller retry_count.
LEMMA CountedDown ==
  ASSUME IsFiniteSet(Workers), IInv, NEW j \in Jobs, NEW n \in Nat, Counted(j, n), NEW m \in Nat, m <= n
  PROVE  Counted(j, m)
<1>1. IsFiniteSet(Failing(j))
  BY FS_Subset DEF Failing
<1>. DEFINE f == Cardinality(Failing(j))
<1>2. f \in Nat /\ errors[j] \in Nat /\ (Enough(j) \/ n + f <= errors[j])
  BY <1>1, FS_CardinalityType DEF IInv, RestInv, Counted
<1>. HIDE DEF f
<1>3. Enough(j) \/ m + f <= errors[j]
  BY <1>2
<1>. QED
  BY <1>3 DEF Counted, f

\* The steps that leave the workers where they are.
LEMMA QuietSteps ==
  ASSUME IsFiniteSet(Workers), IInv, IInv', AttemptsInv,
         (\E j \in Jobs : Enqueue(j)) \/ (\E w \in Workers : Reclaim(w)) \/ Tick
  PROVE  AttemptsInv'
<1>. USE DEF history, rows
<1>0. job \in [Jobs -> Row] /\ worker \in [Workers -> WorkerState]
  BY DEF IInv, RowsInv, WorkersInv
<1>1. ASSUME NEW j \in Jobs, Enqueue(j) PROVE AttemptsInv'
  <2>1. \A i \in Jobs : job'[i].retry \in Nat /\ job'[i].retry <= job[i].retry /\ job[i].retry \in Nat
    BY <1>0, <1>1 DEF Enqueue, Enqueued, Absent, Row
  <2>2. \A i \in Jobs : Counted(i, job'[i].retry)
    BY <2>1, CountedDown DEF AttemptsInv
  <2>. QED  BY <1>1, <2>2, AttemptsUndisturbed DEF Enqueue
<1>2. ASSUME NEW w \in Workers, Reclaim(w) PROVE AttemptsInv'
  <2>1. PICK S \in SUBSET Jobs : job' = [j \in Jobs |-> IF j \in S THEN Reclaimed(job[j]) ELSE job[j]]
    BY <1>2 DEF Reclaim
  <2>2. \A row \in Row : Reclaimed(row).retry = row.retry
    BY DEF Reclaimed, Unlocked, Row
  <2>3. \A i \in Jobs : Counted(i, job'[i].retry)
    BY <1>0, <2>1, <2>2 DEF AttemptsInv
  <2>. QED  BY <1>2, <2>3, AttemptsUndisturbed DEF Reclaim
<1>3. CASE Tick
  <2>1. \A i \in Jobs : \E a, b : job'[i] = [job[i] EXCEPT !.wait = a, !.age = b]
    BY <1>3 DEF Tick
  <2>2. \A i \in Jobs : job'[i].retry = job[i].retry
    BY <1>0, <2>1 DEF Row
  <2>3. \A w \in Workers : \E n : worker'[w] = [worker[w] EXCEPT !.run = n]
    BY <1>3 DEF Tick
  <2>4. \A w \in Workers : /\ worker'[w].pc = worker[w].pc /\ worker'[w].cur = worker[w].cur
                           /\ worker'[w].seen = worker[w].seen
    BY <1>0, <2>3 DEF WorkerState
  <2>5. \A i \in Jobs : Counted(i, job'[i].retry)
    BY <2>2 DEF AttemptsInv
  <2>. QED  BY <1>3, <2>4, <2>5, AttemptsUndisturbed DEF Tick
<1>. QED
  BY <1>1, <1>2, <1>3

\* A worker that is done with its job, dies or claims holds no attempt to count.
LEMMA StartSteps ==
  ASSUME IsFiniteSet(Workers), IInv, IInv', AttemptsInv, NEW w \in Workers,
         Claim(w) \/ Complete(w) \/ BackOff(w) \/ MarkDead(w) \/ Crash(w)
  PROVE  AttemptsInv'
<1>. USE DEF history, rows
<1>0. job \in [Jobs -> Row]
  BY DEF IInv, RowsInv
<1>1. \E S : \E r \in Proceed(S) : worker' = [worker EXCEPT ![w] = r]
  <2>1. CASE Crash(w)
    BY <2>1 DEF Crash, Proceed
  <2>2. CASE Claim(w)
    BY <2>2 DEF Claim
  <2>3. CASE Complete(w) \/ BackOff(w) \/ MarkDead(w)
    BY <2>3 DEF Complete, BackOff, MarkDead, FinishWith
  <2>. QED  BY <2>1, <2>2, <2>3
<1>2. PICK r : worker' = [worker EXCEPT ![w] = r] /\ r.pc \in {"idle", "handle"}
  <2>1. PICK S : \E r \in Proceed(S) : worker' = [worker EXCEPT ![w] = r]
    BY <1>1
  <2>2. \A r \in Proceed(S) : r.pc \in {"idle", "handle"}
    BY DEF Proceed, Idle
  <2>. QED  BY <2>1, <2>2
<1>3. UNCHANGED <<errors, fatal, dlq, admin>>
  BY DEF Claim, Complete, BackOff, MarkDead, Crash
<1>4. \A j \in Jobs : Counted(j, job'[j].retry)
  <2>1. CASE Claim(w)
    <3>1. PICK S \in SUBSET Jobs : job' = [j \in Jobs |-> IF j \in S THEN Claimed(job[j], w) ELSE job[j]]
      BY <2>1 DEF Claim
    <3>2. \A row \in Row : Claimed(row, w).retry = row.retry
      BY DEF Claimed, Row
    <3>. QED  BY <1>0, <3>1, <3>2 DEF AttemptsInv
  <2>2. CASE Crash(w)
    BY <2>2 DEF Crash, AttemptsInv
  <2>3. CASE Complete(w) \/ MarkDead(w)
    <3>1. \A row \in Row : Completed(row).retry = row.retry /\ DeadLettered(row).retry = row.retry
      BY DEF Completed, DeadLettered, Unlocked, Row
    <3>2. \A j \in Jobs : job'[j].retry = job[j].retry
      BY <1>0, <2>3, <3>1 DEF Complete, MarkDead, FinishWith
    <3>. QED  BY <3>2 DEF AttemptsInv
  <2>4. CASE BackOff(w)
    <3>1. \A row \in Row : \A n : BackedOff(row, n).retry = n
      BY DEF BackedOff, Unlocked, Row
    <3>2. Counted(worker[w].cur, worker[w].seen + 1)
      BY <2>4 DEF BackOff, At, AttemptsInv
    <3>3. \A j \in Jobs : job'[j].retry = IF j = worker[w].cur THEN worker[w].seen + 1 ELSE job[j].retry
      BY <1>0, <2>4, <3>1 DEF BackOff, FinishWith
    <3>. QED  BY <3>2, <3>3 DEF AttemptsInv
  <2>. QED  BY <2>1, <2>2, <2>3, <2>4
<1>. QED
  BY <1>2, <1>3, <1>4, AttemptMoves DEF AttemptsInv

\* The handler's outcomes, and the dead letter.
LEMMA OutcomeSteps ==
  ASSUME IsFiniteSet(Workers), IInv, IInv', AttemptsInv, NEW w \in Workers,
         \/ HandlerResolves(w) \/ HandlerThrows(w) \/ HandlerThrowsTerminal(w)
         \/ CompleteThrows(w) \/ InsertDead(w)
  PROVE  AttemptsInv'
<1>. USE DEF history, rows, At
<1>0. job \in [Jobs -> Row] /\ worker[w] \in WorkerState /\ \A j \in Jobs : Counted(j, job[j].retry)
  BY DEF IInv, RowsInv, WorkersInv, AttemptsInv
<1>1. ASSUME NEW pc \in {"complete", "insert_dead", "mark_dead"}, Goto(w, pc)
      PROVE  \E r : /\ worker' = [worker EXCEPT ![w] = r]
                    /\ r.pc = pc /\ r.cur = worker[w].cur
  <2>. DEFINE s == [worker[w] EXCEPT !.pc = pc]
  <2>1. worker' = [worker EXCEPT ![w] = s] /\ s.pc = pc /\ s.cur = worker[w].cur
    BY <1>0, <1>1 DEF Goto, WorkerState
  <2>. QED  BY <2>1
<1>2. CASE HandlerResolves(w)
  <2>1. PICK r : worker' = [worker EXCEPT ![w] = r] /\ r.pc = "complete"
    BY <1>1, <1>2 DEF HandlerResolves
  <2>. QED  BY <1>0, <1>2, <2>1, AttemptMoves DEF HandlerResolves, AttemptsInv
<1>3. CASE HandlerThrowsTerminal(w)
  <2>1. PICK r : worker' = [worker EXCEPT ![w] = r] /\ r.pc = "insert_dead" /\ r.cur = worker[w].cur
    BY <1>1, <1>3 DEF HandlerThrowsTerminal
  <2>. QED  BY <1>0, <1>3, <2>1, AttemptMoves DEF HandlerThrowsTerminal, AttemptsInv
<1>4. CASE InsertDead(w)
  <2>1. PICK r : worker' = [worker EXCEPT ![w] = r] /\ r.pc = "mark_dead"
    BY <1>1, <1>4 DEF InsertDead
  <2>. QED  BY <1>0, <1>4, <2>1, AttemptMoves DEF InsertDead, AttemptsInv
<1>5. CASE HandlerThrows(w)
  BY <1>5, AttemptFails DEF HandlerThrows
<1>6. CASE CompleteThrows(w)
  <2>1. \A row \in Row : Completed(row).retry = row.retry
    BY DEF Completed, Unlocked, Row
  <2>2. \A j \in Jobs : job'[j].retry = job[j].retry
    BY <1>0, <1>6, <2>1 DEF CompleteThrows
  <2>. QED  BY <1>6, <2>2, AttemptFails DEF CompleteThrows
<1>. QED
  BY <1>2, <1>3, <1>4, <1>5, <1>6

\* Init establishes the count, every step keeps it.
LEMMA AttemptsInit == ASSUME IsFiniteSet(Workers) PROVE Init => Attempts
<1>. SUFFICES ASSUME Init PROVE AttemptsInv
  BY DEF Attempts
<1>1. \A j \in Jobs : Failing(j) = {}
  BY DEF Init, Failing, Idle
<1>2. \A j \in Jobs : Counted(j, job[j].retry)
  BY <1>1, FS_EmptySet DEF Init, Counted, Absent
<1>. QED
  BY <1>2 DEF Init, AttemptsInv, Idle, NoCall

LEMMA AttemptsStep ==
  ASSUME IsFiniteSet(Workers)
  PROVE  IInv /\ Attempts /\ [Next]_vars => Attempts'
<1>. SUFFICES ASSUME IInv, Attempts, [Next]_vars, requeues' = 0 PROVE AttemptsInv'
  BY DEF Attempts
<1>0. AttemptsInv /\ IInv'
  BY NoRequeueYet, NextGood DEF Attempts
<1>1. CASE UNCHANGED vars
  BY <1>0, <1>1, AttemptsUndisturbed DEF vars, AttemptsInv
<1>2. CASE \/ \E j \in Jobs : Enqueue(j)
           \/ \E w \in Workers : Claim(w) \/ Reclaim(w) \/ BatchStep(w) \/ Crash(w)
           \/ Tick
  BY <1>0, <1>2, QuietSteps, StartSteps, OutcomeSteps, FailReadCounts DEF BatchStep
<1>. QED
  BY <1>0, <1>1, <1>2, StepsBeforeRequeue DEF AttemptsInv

\* Until the first requeue a dead letter means a terminal error or that all
\* attempts failed, for any number of workers that fail one job at the same
\* time and overwrite each other's retry_count.
THEOREM DeadLettersAreEarned ==
  ASSUME IsFiniteSet(Workers)
  PROVE  Spec => []NoEarlyDeadLetter
<1>1. Attempts => NoEarlyDeadLetter
  BY DEF Attempts, AttemptsInv, Enough, NoEarlyDeadLetter
<1>. QED
  BY <1>1, AttemptsInit, AttemptsStep, Invariance, PTL DEF Spec

-----------------------------------------------------------------------------
(* Outbox implements JobQueue, while locks outlast a batch and nothing is   *)
(* requeued.                                                                *)

PhaseOf(row) == IF row.status \in {"pending", "processing"} THEN "open" ELSE row.status
Phases == [j \in Jobs |-> PhaseOf(job[j])]

\* The refinement mapping, by rows.
LEMMA PhasesAreRows == [j \in Jobs |-> Phase(j)] = Phases
BY DEF Phases, PhaseOf, Phase

\* A row that keeps its phase or not.
LEMMA PhaseMoves ==
  ASSUME job \in [Jobs -> Row], NEW k \in Jobs, NEW row, job' = [job EXCEPT ![k] = row]
  PROVE  Phases' = [Phases EXCEPT ![k] = PhaseOf(row)]
BY DEF Phases

LEMMA PhasesStay ==
  ASSUME \A j \in Jobs : PhaseOf(job'[j]) = PhaseOf(job[j])
  PROVE  Phases' = Phases
BY DEF Phases

\* Claims, reclaims and time change no phase, and the workers' own steps
\* between their writes change no row.
LEMMA QuietQueue ==
  ASSUME IInv,
         \/ Tick
         \/ \E w \in Workers : Claim(w) \/ Reclaim(w) \/ FailRead(w) \/ InsertDead(w) \/ Crash(w)
  PROVE  Phases' = Phases /\ UNCHANGED history
<1>0. job \in [Jobs -> Row]
  BY DEF IInv, RowsInv
<1>1. CASE Tick
  <2>1. \A j \in Jobs : \E a, b : job'[j] = [job[j] EXCEPT !.wait = a, !.age = b]
    BY <1>1 DEF Tick
  <2>2. \A row \in Row : \A a, b : [row EXCEPT !.wait = a, !.age = b].status = row.status
    BY DEF Row
  <2>3. ASSUME NEW j \in Jobs PROVE PhaseOf(job'[j]) = PhaseOf(job[j])
    <3>1. job[j] \in Row
      BY <1>0
    <3>2. PICK a, b : job'[j] = [job[j] EXCEPT !.wait = a, !.age = b]
      BY <2>1
    <3>3. job'[j].status = job[j].status
      BY <2>2, <3>1, <3>2
    <3>. QED  BY <3>3 DEF PhaseOf
  <2>4. UNCHANGED history
    BY <1>1 DEF Tick
  <2>. QED  BY <2>3, <2>4, PhasesStay
<1>2. ASSUME NEW w \in Workers, Claim(w) \/ Reclaim(w)
      PROVE  Phases' = Phases /\ UNCHANGED history
  <2>1. \A row \in Row : Claimed(row, w).status = "processing" /\ Reclaimed(row).status = "pending"
    BY DEF Claimed, Reclaimed, Unlocked, Row
  <2>2. ASSUME NEW j \in Jobs PROVE PhaseOf(job'[j]) = PhaseOf(job[j])
    <3>0. job[j] \in Row
      BY <1>0
    <3>1. CASE Claim(w)
      <4>1. PICK S \in SUBSET Jobs :
              /\ S \subseteq Due
              /\ job' = [k \in Jobs |-> IF k \in S THEN Claimed(job[k], w) ELSE job[k]]
        BY <3>1 DEF Claim, IsBatch
      <4>2. CASE j \in S
        <5>1. job[j].status = "pending" /\ job'[j].status = "processing"
          BY <2>1, <3>0, <4>1, <4>2 DEF Due
        <5>. QED  BY <5>1 DEF PhaseOf
      <4>. QED  BY <4>1, <4>2
    <3>2. CASE Reclaim(w)
      <4>1. PICK S \in SUBSET Jobs :
              /\ S \subseteq Stale
              /\ job' = [k \in Jobs |-> IF k \in S THEN Reclaimed(job[k]) ELSE job[k]]
        BY <3>2 DEF Reclaim, IsBatch
      <4>2. CASE j \in S
        <5>1. job[j].status = "processing" /\ job'[j].status = "pending"
          BY <2>1, <3>0, <4>1, <4>2 DEF Stale
        <5>. QED  BY <5>1 DEF PhaseOf
      <4>. QED  BY <4>1, <4>2
    <3>. QED  BY <1>2, <3>1, <3>2
  <2>3. UNCHANGED history
    BY <1>2 DEF Claim, Reclaim
  <2>. QED  BY <2>2, <2>3, PhasesStay
<1>3. ASSUME NEW w \in Workers, FailRead(w) \/ InsertDead(w) \/ Crash(w)
      PROVE  Phases' = Phases /\ UNCHANGED history
  BY <1>3 DEF FailRead, InsertDead, Crash, rows, history, Phases
<1>. QED
  BY <1>1, <1>2, <1>3

\* The outcomes of the handler befall a job that is open.
LEMMA HandlerQueue ==
  ASSUME IInv, ExclusiveInv, NEW w \in Workers,
         HandlerResolves(w) \/ HandlerThrows(w) \/ HandlerThrowsTerminal(w)
  PROVE  Queue!Next
<1>1. PICK j \in Jobs : j = worker[w].cur /\ Phases[j] = "open"
  <2>1. worker[w].pc = "handle"
    BY DEF HandlerResolves, HandlerThrows, HandlerThrowsTerminal, At
  <2>2. job[worker[w].cur].status = "processing" /\ worker[w].cur \in Jobs
    BY <2>1, CurIsHeld, HeldRows DEF LockedFor
  <2>. QED  BY <2>2 DEF Phases, PhaseOf
<1>2. Phases' = Phases
  BY DEF HandlerResolves, HandlerThrows, HandlerThrowsTerminal, rows, Phases
<1>3. Queue!Deliver(j) \/ Queue!Fail(j) \/ Queue!FailForGood(j)
  BY <1>1, <1>2, PhasesAreRows
  DEF HandlerResolves, HandlerThrows, HandlerThrowsTerminal, CountError, Phases, PhaseOf, Phase,
      Queue!Deliver, Queue!Fail, Queue!FailForGood, Queue!CountFailure
<1>. QED
  BY <1>3 DEF Queue!Next

\* A completion, acknowledged or not, is one of a delivered, open job.
LEMMA CompletionQueue ==
  ASSUME IInv, ExclusiveInv, NEW w \in Workers, Complete(w) \/ CompleteThrows(w)
  PROVE  Queue!Next
<1>0. job \in [Jobs -> Row]
  BY DEF IInv, RowsInv
<1>1. PICK j \in Jobs : j = worker[w].cur /\ Phases[j] = "open" /\ j \in delivered
  <2>1. worker[w].pc = "complete"
    BY DEF Complete, CompleteThrows, At
  <2>2. worker[w].cur \in delivered
    BY <2>1 DEF IInv, WorkersInv, GoodWorker
  <2>3. job[worker[w].cur].status = "processing" /\ worker[w].cur \in Jobs
    BY <2>1, CurIsHeld, HeldRows DEF LockedFor
  <2>. QED  BY <2>2, <2>3 DEF Phases, PhaseOf
<1>2. PhaseOf(Completed(job[j])) = "completed"
  BY <1>0 DEF Completed, Unlocked, PhaseOf, Row
<1>3. \/ job' = job /\ Phases' = Phases
      \/ job' = [job EXCEPT ![j] = Completed(job[j])] /\ Phases' = [Phases EXCEPT ![j] = "completed"]
  <2>1. job' = job \/ job' = [job EXCEPT ![j] = Completed(job[j])]
    BY <1>1 DEF Complete, CompleteThrows, FinishWith
  <2>2. job' = job => Phases' = Phases
    BY DEF Phases
  <2>3. job' = [job EXCEPT ![j] = Completed(job[j])] => Phases' = [Phases EXCEPT ![j] = "completed"]
    BY <1>0, <1>2, PhaseMoves
  <2>. QED  BY <2>1, <2>2, <2>3
<1>4. CASE Complete(w)
  <2>1. Phases' = [Phases EXCEPT ![j] = "completed"]
    <3>1. job' = [job EXCEPT ![j] = Completed(job[j])]
      BY <1>1, <1>4 DEF Complete, FinishWith
    <3>. QED  BY <1>0, <1>2, <3>1, PhaseMoves
  <2>2. Queue!Complete(j)
    BY <1>1, <1>4, <2>1, PhasesAreRows
    DEF Complete, history, Phases, PhaseOf, Phase, Queue!Complete, Queue!Moves
  <2>. QED  BY <2>2 DEF Queue!Next
<1>5. CASE CompleteThrows(w)
  <2>1. Queue!CompleteUnheard(j)
    BY <1>1, <1>3, <1>5, PhasesAreRows
    DEF CompleteThrows, CountError, Phases, PhaseOf, Phase, Queue!CompleteUnheard, Queue!Moves,
        Queue!CountFailure
  <2>. QED  BY <2>1 DEF Queue!Next
<1>. QED
  BY <1>4, <1>5

\* A failed job goes back, or is given up after its attempts; if its row says
\* completed, nobody was told.
LEMMA FailureQueue ==
  ASSUME IInv, ExclusiveInv, AttemptsInv, NEW w \in Workers, BackOff(w) \/ MarkDead(w)
  PROVE  Queue!Next \/ (Phases' = Phases /\ UNCHANGED history)
<1>0. job \in [Jobs -> Row]
  BY DEF IInv, RowsInv
<1>1. PICK j \in Jobs : /\ j = worker[w].cur
                        /\ \/ job[j].status = "processing"
                           \/ job[j].status = "completed" /\ j \in unacked
  <2>1. worker[w].pc \in {"back_off", "mark_dead"}
    BY DEF BackOff, MarkDead, At
  <2>. QED  BY <2>1, CurIsHeld, HeldRows DEF LockedFor
<1>2. CASE BackOff(w)
  <2>1. PICK n : job' = [job EXCEPT ![j] = BackedOff(job[j], n)]
    BY <1>1, <1>2 DEF BackOff, FinishWith
  <2>2. PhaseOf(BackedOff(job[j], n)) = "open"
    BY <1>0 DEF BackedOff, Unlocked, PhaseOf, Row
  <2>3. Phases' = [Phases EXCEPT ![j] = "open"]
    BY <1>0, <2>1, <2>2, PhaseMoves
  <2>4. CASE job[j].status = "processing"
    BY <1>2, <2>3, <2>4 DEF BackOff, Phases, PhaseOf
  <2>5. CASE job[j].status = "completed" /\ j \in unacked
    <3>1. Queue!TryAgain(j)
      BY <1>2, <2>3, <2>5, PhasesAreRows
      DEF BackOff, history, Phases, PhaseOf, Phase, Queue!TryAgain, Queue!Moves
    <3>. QED  BY <3>1 DEF Queue!Next
  <2>. QED  BY <1>1, <2>4, <2>5
<1>3. CASE MarkDead(w)
  <2>1. job' = [job EXCEPT ![j] = DeadLettered(job[j])]
    BY <1>1, <1>3 DEF MarkDead, FinishWith
  <2>2. PhaseOf(DeadLettered(job[j])) = "dead_lettered"
    BY <1>0 DEF DeadLettered, Unlocked, PhaseOf, Row
  <2>3. Phases' = [Phases EXCEPT ![j] = "dead_lettered"]
    BY <1>0, <2>1, <2>2, PhaseMoves
  <2>4. j \in fatal \/ errors[j] >= MaxRetry[j]
    <3>1. j \in dlq
      BY <1>1, <1>3 DEF MarkDead, At, IInv, WorkersInv, GoodWorker
    <3>. QED  BY <3>1 DEF AttemptsInv, Enough
  <2>5. Queue!Unsettled(j)
    BY <1>1, PhasesAreRows DEF Phases, PhaseOf, Phase, Queue!Unsettled
  <2>6. Queue!GiveUp(j)
    BY <1>3, <2>3, <2>4, <2>5, PhasesAreRows
    DEF MarkDead, history, Phases, PhaseOf, Phase, Queue!GiveUp
  <2>. QED  BY <2>6 DEF Queue!Next
<1>. QED
  BY <1>2, <1>3

\* Every step is a step of the queue, or none.
LEMMA QueueStep ==
  IInv /\ Exclusive /\ Attempts /\ [Next]_vars /\ requeues' = 0 => [Queue!Next]_(Queue!vars)
<1>. SUFFICES ASSUME IInv, Exclusive, Attempts, [Next]_vars, requeues' = 0
              PROVE  Queue!Next \/ (Phases' = Phases /\ UNCHANGED history)
  BY PhasesAreRows DEF Queue!vars, history, Phases, PhaseOf, Phase
<1>0. ExclusiveInv /\ AttemptsInv
  BY NoRequeueYet DEF Exclusive, Attempts
<1>1. CASE UNCHANGED vars
  BY <1>1 DEF vars, history, Phases
<1>2. ASSUME NEW j \in Jobs, Enqueue(j) PROVE Queue!Next
  <2>0. job \in [Jobs -> Row]
    BY DEF IInv, RowsInv
  <2>1. PhaseOf(Enqueued) = "open"
    BY DEF Enqueued, Absent, PhaseOf
  <2>2. Phases' = [Phases EXCEPT ![j] = "open"]
    BY <1>2, <2>0, <2>1, PhaseMoves DEF Enqueue
  <2>3. Queue!Enqueue(j)
    BY <1>2, <2>2, PhasesAreRows
    DEF Enqueue, history, Phases, PhaseOf, Phase, Queue!Enqueue, Queue!Moves
  <2>. QED  BY <2>3 DEF Queue!Next
<1>3. ASSUME NEW w \in Workers, Claim(w) \/ Reclaim(w) \/ BatchStep(w) \/ Crash(w)
      PROVE  Queue!Next \/ (Phases' = Phases /\ UNCHANGED history)
  BY <1>0, <1>3, QuietQueue, HandlerQueue, CompletionQueue, FailureQueue DEF BatchStep
<1>. QED
  BY <1>0, <1>1, <1>2, <1>3, QuietQueue, StepsBeforeRequeue DEF ExclusiveInv

\* Where nothing is requeued and a lock may grow as old as a whole batch
\* takes, the outbox is the queue it is taken for, for any number of jobs,
\* workers and crashes: the handler is called for open jobs only, a job is
\* completed after delivery, given up after its attempts, and then let alone.
THEOREM OutboxImplementsQueue ==
  ASSUME LocksSuffice, IsFiniteSet(Workers), MaxRequeues = 0
  PROVE  Spec => ImplementsQueue
<1>1. Init => Queue!Init
  BY PhasesAreRows DEF Init, Absent, Phase, Queue!Init
<1>2. IInv' => requeues' = 0
  BY DEF IInv, RestInv
<1>3. IInv /\ IInv' /\ Exclusive /\ Attempts /\ [Next]_vars => [Queue!Next]_(Queue!vars)
  BY <1>2, QueueStep
<1>. QED
  BY <1>1, <1>3, ExclusiveInit, ExclusiveStep, AttemptsInit, AttemptsStep, Invariance, PTL
  DEF Spec, ImplementsQueue, Queue!Spec

=============================================================================
