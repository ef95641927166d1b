------------------------- MODULE IrisDeliveryProofs -------------------------
(***************************************************************************)
(* IrisDelivery is an implementation of Outbox, so what OutboxProofs shows *)
(* of every outbox holds of the one that delivers to IRIS Core; a          *)
(* completed job reached IRIS Core, for any number of jobs and workers.    *)
(* When StaleLock allows for a whole batch, the delivery_status agrees     *)
(* with the jobs, and what Core refused is not sent again.                 *)
(***************************************************************************)
EXTENDS IrisDelivery, OutboxProofs

\* A handler with an answer is still in its call, and "delivered" is only
\* written, and recorded by the outbox, for what Core accepted.
AnswersInv ==
  /\ delivered \subseteq core
  /\ \A w \in Workers : answer[w] = "delivered" => Job(w) \in core

IrisInv == IInv /\ IrisTypeOK /\ AnswersInv

-----------------------------------------------------------------------------
\* A worker that is in a handler call is not moved by what the others do.
LEMMA HandlerUndisturbed ==
  ASSUME IInv, NEW v \in Workers, AroundHandler(v), NEW w \in Workers, At(w, "handle")
  PROVE  worker'[w] = worker[w]
<1>. USE DEF At
<1>0. worker \in [Workers -> WorkerState]
  BY DEF IInv, WorkersInv
<1>1. v # w
  BY DEF AroundHandler, Claim, Reclaim, Complete, CompleteThrows, FailRead, BackOff, InsertDead, MarkDead
<1>2. CASE \E r : worker' = [worker EXCEPT ![v] = r]
  BY <1>0, <1>1, <1>2
<1>3. CASE worker' = worker
  BY <1>3
<1>4. (\E r : worker' = [worker EXCEPT ![v] = r]) \/ worker' = worker
  <2>1. CASE Claim(v)
    BY <2>1 DEF Claim
  <2>2. CASE Reclaim(v)
    BY <2>2 DEF Reclaim
  <2>3. CASE Complete(v) \/ BackOff(v) \/ MarkDead(v)
    BY <2>3 DEF Complete, BackOff, MarkDead, FinishWith
  <2>4. CASE CompleteThrows(v) \/ InsertDead(v)
    BY <2>4 DEF CompleteThrows, InsertDead, Goto
  <2>5. CASE FailRead(v)
    BY <2>5 DEF FailRead
  <2>. QED
    BY <2>1, <2>2, <2>3, <2>4, <2>5 DEF AroundHandler
<1>. QED
  BY <1>2, <1>3, <1>4

\* Nor by the clock, as far as its job is concerned.
LEMMA TickKeepsJobs ==
  ASSUME IInv, Tick, NEW w \in Workers
  PROVE  worker'[w].pc = worker[w].pc /\ worker'[w].cur = worker[w].cur
<1>1. worker[w] \in WorkerState
  BY DEF IInv, WorkersInv
<1>2. ASSUME NEW s \in WorkerState, NEW n
      PROVE  [s EXCEPT !.run = n].pc = s.pc /\ [s EXCEPT !.run = n].cur = s.cur
  BY DEF WorkerState
<1>3. \E n : worker'[w] = [worker[w] EXCEPT !.run = n]
  BY DEF Tick
<1>. QED
  BY <1>1, <1>2, <1>3

-----------------------------------------------------------------------------
\* Every step of the delivery is a step of the outbox or none.
LEMMA IrisStepIsOutboxStep == IrisNext => [Next]_vars
<1>. SUFFICES ASSUME IrisNext PROVE [Next]_vars
  OBVIOUS
<1>1. ASSUME NEW w \in Workers, CoreAccepts(w) \/ CoreUnclear(w) \/ CoreRefuses(w)
      PROVE  UNCHANGED vars
  BY <1>1 DEF CoreAccepts, CoreUnclear, CoreRefuses
<1>2. ASSUME NEW w \in Workers, WriteStatus(w) PROVE Next
  BY <1>2 DEF WriteStatus, Conclude, Next, BatchStep
<1>3. ASSUME NEW w \in Workers, StoreRejects(w) PROVE Next \/ UNCHANGED vars
  BY <1>3 DEF StoreRejects, Next, BatchStep
<1>4. ASSUME NEW w \in Workers, WorkerDies(w) PROVE Next
  BY <1>4 DEF WorkerDies, Next
<1>5. ASSUME NEW w \in Workers, AroundHandler(w) PROVE Next
  BY <1>5 DEF AroundHandler, Next, BatchStep
<1>6. ASSUME NEW j \in Jobs, Enqueue(j) PROVE Next
  BY <1>6 DEF Next
<1>7. CASE Tick
  BY <1>7 DEF Next
<1>. QED
  BY <1>1, <1>2, <1>3, <1>4, <1>5, <1>6, <1>7 DEF IrisNext, Deliver

\* So the invariant of the outbox is kept.
LEMMA OutboxInvKept == IInv /\ [IrisNext]_allVars => IInv'
<1>1. [IrisNext]_allVars => [Next]_vars
  BY IrisStepIsOutboxStep DEF allVars
<1>. QED
  BY <1>1, NextGood

LEMMA IrisInitInv == IrisInit => IrisInv
<1>. SUFFICES ASSUME IrisInit PROVE IrisInv
  OBVIOUS
<1>1. IInv
  BY InitGood DEF IrisInit
<1>2. IrisTypeOK /\ AnswersInv
  BY IrisAssumption DEF IrisInit, Init, IrisTypeOK, AnswersInv
<1>. QED
  BY <1>1, <1>2 DEF IrisInv

\* What IRIS Core answers.
LEMMA CoreKeeps ==
  ASSUME IrisInv, NEW w \in Workers, CoreAccepts(w) \/ CoreUnclear(w) \/ CoreRefuses(w)
  PROVE  IrisTypeOK' /\ AnswersInv'
<1>. USE DEF IrisInv, IrisTypeOK, AnswersInv, Asking, Hears, Job, At, vars, history, rows
<1>0. worker[w].cur \in Jobs
  BY DEF CoreAccepts, CoreUnclear, CoreRefuses, IInv, WorkersInv, GoodWorker
<1>1. CASE CoreAccepts(w)
  BY <1>0, <1>1 DEF CoreAccepts
<1>2. CASE CoreUnclear(w)
  BY <1>0, <1>2 DEF CoreUnclear
<1>3. CASE CoreRefuses(w)
  BY <1>0, <1>3 DEF CoreRefuses
<1>. QED
  BY <1>1, <1>2, <1>3

\* How the handler ends: its worker leaves the call and forgets the answer.
LEMMA EndKeeps ==
  ASSUME IrisInv, NEW w \in Workers, worker[w].pc = "handle", answer[w] # "none",
         Hears(w, "none"), \E r : worker' = [worker EXCEPT ![w] = r],
         core' = core, refused' = refused, storeFailures' \in 0 .. MaxStoreFailures,
         status' = status \/ (status' = answer[w] /\ Job(w) \in Tracked),
         delivered' \subseteq core
  PROVE  IrisTypeOK' /\ AnswersInv'
<1>. USE DEF IrisInv, IrisTypeOK, AnswersInv, Hears, Job, At
<1>0. worker \in [Workers -> WorkerState]
  BY DEF IInv, WorkersInv
<1>1. \A v \in Workers \ {w} : worker'[v] = worker[v] /\ answer'[v] = answer[v]
  BY <1>0
<1>2. answer'[w] = "none" /\ answer' \in [Workers -> {"none", "delivered", "retrying", "failed"}]
  OBVIOUS
<1>. QED
  BY <1>1, <1>2

LEMMA WriteStatusKeeps ==
  ASSUME IrisInv, NEW w \in Workers, WriteStatus(w)
  PROVE  IrisTypeOK' /\ AnswersInv'
<1>1. worker[w].pc = "handle" /\ answer[w] # "none"
  BY DEF WriteStatus, Conclude, HandlerResolves, HandlerThrows, HandlerThrowsTerminal, At
<1>2. \E r : worker' = [worker EXCEPT ![w] = r]
  BY DEF WriteStatus, Conclude, HandlerResolves, HandlerThrows, HandlerThrowsTerminal, Goto
<1>3. delivered' \subseteq core
  BY DEF WriteStatus, Conclude, HandlerResolves, HandlerThrows, HandlerThrowsTerminal, IrisInv, AnswersInv, Job
<1>. QED
  BY <1>1, <1>2, <1>3, EndKeeps DEF WriteStatus, IrisInv, IrisTypeOK

LEMMA StoreRejectsKeeps ==
  ASSUME IrisInv, NEW w \in Workers, StoreRejects(w)
  PROVE  IrisTypeOK' /\ AnswersInv'
<1>0. storeFailures' \in 0 .. MaxStoreFailures
  BY IrisAssumption DEF StoreRejects, IrisInv, IrisTypeOK
<1>1. CASE answer[w] = "delivered"
  BY <1>0, <1>1 DEF StoreRejects, IrisInv, IrisTypeOK, AnswersInv, Hears, Job, At, vars, history, rows
<1>2. CASE answer[w] # "delivered"
  <2>1. \E r : worker' = [worker EXCEPT ![w] = r]
    BY <1>2 DEF StoreRejects, HandlerThrows, Goto
  <2>2. delivered' \subseteq core
    BY <1>2 DEF StoreRejects, HandlerThrows, IrisInv, AnswersInv
  <2>. QED
    BY <1>0, <1>2, <2>1, <2>2, EndKeeps DEF StoreRejects, At
<1>. QED
  BY <1>1, <1>2

LEMMA WorkerDiesKeeps ==
  ASSUME IrisInv, NEW w \in Workers, WorkerDies(w)
  PROVE  IrisTypeOK' /\ AnswersInv'
<1>. USE DEF IrisInv, IrisTypeOK, AnswersInv, Hears, Job, At
<1>0. worker \in [Workers -> WorkerState]
  BY DEF IInv, WorkersInv
<1>1. \A v \in Workers \ {w} : worker'[v] = worker[v] /\ answer'[v] = answer[v]
  BY <1>0 DEF WorkerDies, Crash
<1>2. answer'[w] = "none" /\ answer' \in [Workers -> {"none", "delivered", "retrying", "failed"}]
  BY DEF WorkerDies
<1>3. delivered' = delivered /\ core' = core /\ refused' = refused /\ status' = status /\ storeFailures' = storeFailures
  BY DEF WorkerDies, Crash, history
<1>. QED
  BY <1>1, <1>2, <1>3

\* The outbox around the handler calls.
LEMMA AroundKeeps ==
  ASSUME IrisInv, UNCHANGED irisVars,
         (\E w \in Workers : AroundHandler(w)) \/ (\E j \in Jobs : Enqueue(j)) \/ Tick
  PROVE  IrisTypeOK' /\ AnswersInv'
<1>1. delivered' = delivered
  BY DEF AroundHandler, Claim, Reclaim, Complete, CompleteThrows, FailRead, BackOff, InsertDead, MarkDead,
     Enqueue, Tick, history
<1>2. ASSUME NEW v \in Workers, answer[v] # "none"
      PROVE  worker'[v].pc = worker[v].pc /\ worker'[v].cur = worker[v].cur
  <2>1. At(v, "handle") /\ IInv
    BY <1>2 DEF IrisInv, IrisTypeOK
  <2>2. CASE \E w \in Workers : AroundHandler(w)
    BY <2>1, <2>2, HandlerUndisturbed
  <2>3. CASE \E j \in Jobs : Enqueue(j)
    BY <2>3 DEF Enqueue
  <2>4. CASE Tick
    BY <2>1, <2>4, TickKeepsJobs
  <2>. QED
    BY <2>2, <2>3, <2>4
<1>. QED
  BY <1>1, <1>2 DEF IrisInv, IrisTypeOK, AnswersInv, irisVars, Job, At

LEMMA IrisNextInv == IrisInv /\ [IrisNext]_allVars => IrisInv'
<1>. SUFFICES ASSUME IrisInv, [IrisNext]_allVars PROVE IrisInv'
  OBVIOUS
<1>1. IInv'
  BY OutboxInvKept DEF IrisInv
<1>2. IrisTypeOK' /\ AnswersInv'
  <2>1. ASSUME NEW w \in Workers, Deliver(w) PROVE IrisTypeOK' /\ AnswersInv'
    BY <2>1, CoreKeeps, WriteStatusKeeps, StoreRejectsKeeps, WorkerDiesKeeps DEF Deliver
  <2>2. CASE UNCHANGED allVars
    BY <2>2 DEF allVars, vars, irisVars, history, rows, IrisInv, IrisTypeOK, AnswersInv, Job, At
  <2>. QED
    BY <2>1, <2>2, AroundKeeps DEF IrisNext
<1>. QED
  BY <1>1, <1>2 DEF IrisInv

-----------------------------------------------------------------------------
\* IrisDelivery implements Outbox: a request and its status write are one
\* handler call.
THEOREM DeliveryImplementsOutbox == IrisSpec => Spec
<1>1. IrisInit => Init
  BY DEF IrisInit
<1>2. [IrisNext]_allVars => [Next]_vars
  BY IrisStepIsOutboxStep DEF allVars
<1>. QED
  BY <1>1, <1>2, PTL DEF IrisSpec, Spec

\* Types; an answer is pending only inside a handler call, and the event is
\* marked failed only if IRIS Core refused one of its jobs.
THEOREM IrisTypeCorrect == IrisSpec => []IrisTypeOK
<1>1. IrisInv => IrisTypeOK
  BY DEF IrisInv
<1>. QED
  BY IrisInitInv, IrisNextInv, <1>1, PTL DEF IrisSpec

\* What is completed reached IRIS Core, whatever timed out, died or was tried
\* again on the way.
THEOREM CompletionsReachedCore == IrisSpec => []CompletedReachedCore
<1>1. IrisInv => CompletedReachedCore
  BY DEF IrisInv, IInv, RowsInv, GoodRow, AnswersInv, CompletedReachedCore
<1>. QED
  BY IrisInitInv, IrisNextInv, <1>1, PTL DEF IrisSpec

-----------------------------------------------------------------------------
(* The workers alone.  Nothing here requeues a dead letter, so what holds   *)
(* of the outbox before its first requeue holds throughout.                 *)

Alone == requeues = 0 /\ ExclusiveInv

LEMMA AloneInit == IrisInit => Alone
<1>. SUFFICES ASSUME IrisInit PROVE Alone
  OBVIOUS
<1>1. requeues = 0 /\ Init
  BY DEF IrisInit, Init
<1>. QED
  BY <1>1, ExclusiveInit DEF Alone, Exclusive

LEMMA NobodyRequeues == IrisNext => requeues' = requeues
BY DEF IrisNext, Deliver, CoreAccepts, CoreUnclear, CoreRefuses, WriteStatus, Conclude, StoreRejects,
   WorkerDies, HandlerResolves, HandlerThrows, HandlerThrowsTerminal, Crash, AroundHandler, Claim, Reclaim,
   Complete, CompleteThrows, FailRead, BackOff, InsertDead, MarkDead, Enqueue, Tick, vars

LEMMA AloneStep ==
  ASSUME LocksSuffice
  PROVE  IInv /\ Alone /\ [IrisNext]_allVars => Alone'
<1>. SUFFICES ASSUME IInv, Alone, [IrisNext]_allVars PROVE Alone'
  OBVIOUS
<1>1. [Next]_vars
  BY IrisStepIsOutboxStep DEF allVars
<1>2. requeues' = requeues
  BY NobodyRequeues DEF allVars, vars
<1>. QED
  BY <1>1, <1>2, ExclusiveStep DEF Alone, Exclusive

\* In a handler call the row of the job is processing, and nobody else has it.
LEMMA InHandler ==
  ASSUME IInv, ExclusiveInv, NEW w \in Workers, worker[w].pc \in {"handle", "complete"}
  PROVE  /\ Job(w) \in Jobs /\ job[Job(w)].status = "processing"
         /\ \A v \in Workers \ {w} : worker[v].pc # "idle" => Job(v) # Job(w)
<1>1. Job(w) \in Jobs /\ Job(w) \in HeldBy(worker[w])
  BY CurIsHeld DEF Job
<1>2. job[Job(w)].status = "processing"
  BY <1>1, HeldRows DEF LockedFor
<1>3. \A v \in Workers \ {w} : worker[v].pc # "idle" => Job(v) # Job(w)
  BY <1>1, CurIsHeld DEF ExclusiveInv, Job
<1>. QED
  BY <1>1, <1>2, <1>3

-----------------------------------------------------------------------------
(* The delivery_status agrees with the jobs.  A job is settling once a      *)
(* handler call of it has resolved; the status says anything but delivered  *)
(* only while some enqueued job of the event is not.                        *)

Settling(j) ==
  job[j].status = "completed" \/ \E w \in Workers : worker[w].pc = "complete" /\ worker[w].cur = j

StatusInv ==
  /\ status = "pending" => \A j \in Tracked : ~Settling(j)
  /\ status \in {"retrying", "failed"} => \E j \in Tracked : job[j].status # "absent" /\ ~Settling(j)

\* No row is removed, and only a handler that resolves makes a job settle.
LEMMA SettlingBefore ==
  ASSUME IInv, NEW j \in Jobs,
         \/ \E w \in Workers : HandlerThrows(w) \/ HandlerThrowsTerminal(w) \/ Crash(w) \/ AroundHandler(w)
         \/ \E k \in Jobs : Enqueue(k)
         \/ Tick
         \/ UNCHANGED vars
  PROVE  /\ Settling(j)' => Settling(j)
         /\ job[j].status # "absent" => job'[j].status # "absent"
<1>. DEFINE Goal == /\ Settling(j)' => Settling(j)
                    /\ job[j].status # "absent" => job'[j].status # "absent"
<1>. USE DEF Settling, At, Goto, history, rows
<1>0. job \in [Jobs -> Row] /\ worker \in [Workers -> WorkerState]
  BY DEF IInv, RowsInv, WorkersInv
<1>1. ASSUME NEW w \in Workers, HandlerThrows(w) \/ HandlerThrowsTerminal(w) PROVE Goal
  <2>1. \A v \in Workers : worker'[v].pc = "complete" => worker'[v] = worker[v]
    BY <1>0, <1>1 DEF HandlerThrows, HandlerThrowsTerminal, WorkerState
  <2>. QED  BY <1>1, <2>1 DEF HandlerThrows, HandlerThrowsTerminal
<1>2. ASSUME NEW w \in Workers, Crash(w) PROVE Goal
  BY <1>0, <1>2 DEF Crash, Idle
<1>3. ASSUME NEW w \in Workers, NEW r, worker' = [worker EXCEPT ![w] = r], r.pc # "complete",
             job'[j] = job[j] \/ job'[j].status \notin {"absent", "completed"}
                \/ (job'[j].status = "completed" /\ worker[w].pc = "complete" /\ worker[w].cur = j)
      PROVE  Goal
  BY <1>0, <1>3
<1>4. ASSUME NEW w \in Workers, Claim(w) PROVE Goal
  <2>1. PICK S \in SUBSET Jobs :
          /\ job' = [i \in Jobs |-> IF i \in S THEN Claimed(job[i], w) ELSE job[i]]
          /\ \E r \in Proceed(S) : worker' = [worker EXCEPT ![w] = r]
    BY <1>4 DEF Claim
  <2>2. \A row \in Row : Claimed(row, w).status = "processing"
    BY DEF Claimed, Row
  <2>3. \A r \in Proceed(S) : r.pc # "complete"
    BY DEF Proceed, Idle
  <2>. QED  BY <1>0, <1>3, <2>1, <2>2, <2>3
<1>5. ASSUME NEW w \in Workers, Reclaim(w) PROVE Goal
  <2>1. PICK S \in SUBSET Jobs : job' = [i \in Jobs |-> IF i \in S THEN Reclaimed(job[i]) ELSE job[i]]
    BY <1>5 DEF Reclaim
  <2>2. \A row \in Row : Reclaimed(row).status = "pending"
    BY DEF Reclaimed, Unlocked, Row
  <2>. QED  BY <1>0, <1>5, <2>1, <2>2 DEF Reclaim
<1>6. ASSUME NEW w \in Workers, NEW row, FinishWith(w, row), row.status \notin {"absent", "completed"}
                \/ (row.status = "completed" /\ worker[w].pc = "complete")
      PROVE  Goal
  <2>1. \A r \in Proceed(worker[w].batch) : r.pc # "complete"
    BY DEF Proceed, Idle
  <2>2. \/ job'[j] = job[j] \/ job'[j].status \notin {"absent", "completed"}
        \/ (job'[j].status = "completed" /\ worker[w].pc = "complete" /\ worker[w].cur = j)
    BY <1>0, <1>6 DEF FinishWith
  <2>. QED  BY <1>3, <1>6, <2>1, <2>2 DEF FinishWith
<1>7. \A row \in Row : \A n :
        /\ Completed(row).status = "completed"
        /\ BackedOff(row, n).status = "pending"
        /\ DeadLettered(row).status = "dead_lettered"
  BY DEF Completed, BackedOff, DeadLettered, Unlocked, Row
<1>8. \A w \in Workers : worker[w].pc # "idle" => job[worker[w].cur] \in Row
  BY <1>0, CurIsHeld
<1>9. ASSUME NEW w \in Workers, Complete(w) \/ BackOff(w) \/ MarkDead(w) PROVE Goal
  BY <1>6, <1>7, <1>8, <1>9 DEF Complete, BackOff, MarkDead
<1>10. ASSUME NEW w \in Workers, CompleteThrows(w) PROVE Goal
  <2>. DEFINE r == [worker[w] EXCEPT !.pc = "fail"]
  <2>1. worker' = [worker EXCEPT ![w] = r] /\ r.pc = "fail"
    BY <1>0, <1>10 DEF CompleteThrows, WorkerState
  <2>. HIDE DEF r
  <2>2. job' = job \/ job' = [job EXCEPT ![worker[w].cur] = Completed(job[worker[w].cur])]
    BY <1>10 DEF CompleteThrows
  <2>3. worker[w].pc = "complete"
    BY <1>10 DEF CompleteThrows
  <2>. QED  BY <1>0, <1>3, <1>7, <1>8, <2>1, <2>2, <2>3
<1>11. ASSUME NEW w \in Workers, FailRead(w) \/ InsertDead(w) PROVE Goal
  <2>1. \A v \in Workers : worker'[v].pc = "complete" => worker'[v] = worker[v]
    BY <1>0, <1>11 DEF FailRead, InsertDead, WorkerState
  <2>. QED  BY <1>11, <2>1 DEF FailRead, InsertDead
<1>12. ASSUME NEW k \in Jobs, Enqueue(k) PROVE Goal
  BY <1>0, <1>12 DEF Enqueue, Enqueued, Absent
<1>13. CASE Tick
  <2>1. \E a, b : job'[j] = [job[j] EXCEPT !.wait = a, !.age = b]
    BY <1>13 DEF Tick
  <2>2. job'[j].status = job[j].status
    BY <1>0, <2>1 DEF Row
  <2>. QED  BY <1>13, <2>2, TickKeepsJobs
<1>14. CASE UNCHANGED vars
  BY <1>14 DEF vars
<1>. QED
  BY <1>1, <1>2, <1>4, <1>5, <1>9, <1>10, <1>11, <1>12, <1>13, <1>14 DEF AroundHandler

\* Every step keeps the status in agreement.
LEMMA StatusStep ==
  IrisInv /\ Alone /\ StatusInv /\ [IrisNext]_allVars => StatusInv'
<1>. SUFFICES ASSUME IrisInv, Alone, StatusInv, [IrisNext]_allVars PROVE StatusInv'
  OBVIOUS
<1>. USE DEF Job, At, Hears
<1>0. IInv /\ ExclusiveInv /\ Tracked \subseteq Jobs /\ worker \in [Workers -> WorkerState]
  BY IrisAssumption DEF IrisInv, Alone, IInv, WorkersInv
\* A step after which the status is as it was.
<1>1. ASSUME status' = status,
             \A j \in Tracked : /\ Settling(j)' => Settling(j)
                                /\ job[j].status # "absent" => job'[j].status # "absent"
      PROVE  StatusInv'
  BY <1>1 DEF StatusInv
\* A write of another status than delivered, by a handler that then throws.
<1>2. ASSUME NEW w \in Workers, worker[w].pc = "handle", Job(w) \in Tracked, status' # "pending",
             \A j \in Tracked : /\ Settling(j)' => Settling(j)
                                /\ job[j].status # "absent" => job'[j].status # "absent"
      PROVE  StatusInv'
  <2>1. job[Job(w)].status = "processing" /\ ~Settling(Job(w))
    BY <1>0, <1>2, InHandler DEF Settling
  <2>. QED  BY <1>2, <2>1 DEF StatusInv
<1>3. ASSUME NEW w \in Workers, CoreAccepts(w) \/ CoreUnclear(w) \/ CoreRefuses(w) PROVE StatusInv'
  <2>1. UNCHANGED vars /\ status' = status
    BY <1>3 DEF CoreAccepts, CoreUnclear, CoreRefuses
  <2>. QED  BY <1>0, <1>1, <2>1, SettlingBefore
<1>4. ASSUME NEW w \in Workers, WriteStatus(w) PROVE StatusInv'
  <2>1. worker[w].pc = "handle"
    BY <1>4 DEF WriteStatus, Conclude, HandlerResolves, HandlerThrows, HandlerThrowsTerminal
  <2>2. CASE answer[w] = "delivered" /\ Job(w) \in Tracked
    BY <1>4, <2>2 DEF WriteStatus, StatusInv
  <2>3. CASE answer[w] = "delivered" /\ Job(w) \notin Tracked
    <3>1. HandlerResolves(w) /\ status' = status
      BY <1>4, <2>3 DEF WriteStatus, Conclude, HandlerThrows, HandlerThrowsTerminal
    <3>2. job' = job /\ \A v \in Workers : worker'[v].cur = worker[v].cur
                             /\ (v # w => worker'[v].pc = worker[v].pc)
      BY <1>0, <3>1 DEF HandlerResolves, Goto, rows, WorkerState
    <3>3. \A j \in Tracked : Settling(j)' => Settling(j)
      BY <1>0, <2>3, <3>2 DEF Settling
    <3>. QED  BY <1>1, <3>1, <3>2, <3>3
  <2>4. CASE answer[w] # "delivered"
    <3>1. HandlerThrows(w) \/ HandlerThrowsTerminal(w)
      BY <1>4, <2>4 DEF WriteStatus, Conclude
    <3>2. \A j \in Tracked : /\ Settling(j)' => Settling(j)
                             /\ job[j].status # "absent" => job'[j].status # "absent"
      BY <1>0, <3>1, SettlingBefore
    <3>3. Job(w) \in Tracked => status' # "pending"
      BY <1>4, <2>4 DEF WriteStatus, Conclude
    <3>4. Job(w) \notin Tracked => status' = status
      BY <1>4 DEF WriteStatus
    <3>. QED  BY <1>1, <1>2, <2>1, <3>2, <3>3, <3>4
  <2>. QED  BY <2>2, <2>3, <2>4
<1>5. ASSUME NEW w \in Workers, StoreRejects(w) PROVE StatusInv'
  <2>1. worker[w].pc = "handle" /\ Job(w) \in Tracked /\ answer[w] # "none"
        /\ answer[w] \in {"none", "delivered", "retrying", "failed"}
    BY <1>5 DEF StoreRejects, IrisInv, IrisTypeOK
  <2>2. UNCHANGED vars \/ HandlerThrows(w)
    BY <1>5 DEF StoreRejects
  <2>3. \A j \in Tracked : /\ Settling(j)' => Settling(j)
                           /\ job[j].status # "absent" => job'[j].status # "absent"
    BY <1>0, <2>2, SettlingBefore
  <2>4. status' = status \/ status' # "pending"
    BY <1>5, <2>1 DEF StoreRejects
  <2>. QED  BY <1>1, <1>2, <2>1, <2>3, <2>4
<1>6. ASSUME NEW w \in Workers, WorkerDies(w) PROVE StatusInv'
  BY <1>0, <1>1, <1>6, SettlingBefore DEF WorkerDies
<1>7. CASE /\ \/ \E w \in Workers : AroundHandler(w)
              \/ \E j \in Jobs : Enqueue(j)
              \/ Tick
           /\ UNCHANGED irisVars
  BY <1>0, <1>1, <1>7, SettlingBefore DEF irisVars
<1>8. CASE UNCHANGED allVars
  BY <1>0, <1>1, <1>8, SettlingBefore DEF irisVars, allVars
<1>. QED
  BY <1>3, <1>4, <1>5, <1>6, <1>7, <1>8 DEF IrisNext, Deliver

\* When every enqueued job of the support event is completed, its
\* delivery_status is delivered, whatever order the attempts of any number of
\* jobs ended in and whichever status writes failed, if no lock expires under
\* a living worker.
THEOREM StatusAgrees ==
  ASSUME LocksSuffice
  PROVE  IrisSpec => []DeliveredAgrees
<1>1. IrisInit => StatusInv
  BY IrisAssumption DEF IrisInit, Init, StatusInv, Settling, Absent, Idle
<1>2. IrisInv /\ StatusInv => DeliveredAgrees
  BY DEF IrisInv, IrisTypeOK, StatusInv, Settling, DeliveredAgrees
<1>3. IrisInv /\ Alone /\ [IrisNext]_allVars => Alone'
  BY AloneStep DEF IrisInv
<1>. QED
  BY <1>1, <1>2, <1>3, AloneInit, IrisInitInv, IrisNextInv, StatusStep, PTL DEF IrisSpec

-----------------------------------------------------------------------------
(* A refused job is not sent again: its worker is on the way to mark the    *)
(* row dead-lettered, and until then nobody else can claim it.              *)

Ending(w, j) ==
  /\ worker[w].cur = j
  /\ answer[w] = "failed" \/ worker[w].pc \in {"insert_dead", "mark_dead"}

RefusedInv ==
  crashes = 0 /\ storeFailures = 0 =>
    \A j \in refused : job[j].status = "dead_lettered" \/ \E w \in Workers : Ending(w, j)

\* Crashes and failed writes are counted for ever.
LEMMA FaultsCounted ==
  ASSUME IrisInv, [IrisNext]_allVars, crashes' = 0, storeFailures' = 0
  PROVE  /\ crashes = 0 /\ storeFailures = 0
         /\ \A w \in Workers : ~WorkerDies(w) /\ ~StoreRejects(w)
<1>1. crashes \in Nat /\ storeFailures \in Nat
  BY IrisAssumption, ConstantsAssumption DEF IrisInv, IInv, RestInv, IrisTypeOK
<1>2. \A w \in Workers : ~WorkerDies(w) /\ ~StoreRejects(w)
  BY <1>1 DEF WorkerDies, Crash, StoreRejects
<1>3. crashes' = crashes /\ storeFailures' = storeFailures
  BY <1>2 DEF IrisNext, Deliver, CoreAccepts, CoreUnclear, CoreRefuses, WriteStatus, Conclude,
     HandlerResolves, HandlerThrows, HandlerThrowsTerminal, AroundHandler, Claim, Reclaim,
     Complete, CompleteThrows, FailRead, BackOff, InsertDead, MarkDead, Enqueue, Tick, vars, allVars, irisVars
<1>. QED
  BY <1>1, <1>2, <1>3

\* Around the handler calls only the worker of the step moves.
LEMMA OthersStay ==
  ASSUME IInv, NEW w \in Workers, AroundHandler(w), NEW v \in Workers \ {w}
  PROVE  worker'[v] = worker[v]
<1>1. (\E r : worker' = [worker EXCEPT ![w] = r]) \/ worker' = worker
  <2>1. CASE Claim(w)
    BY <2>1 DEF Claim
  <2>2. CASE Reclaim(w)
    BY <2>2 DEF Reclaim
  <2>3. CASE Complete(w) \/ BackOff(w) \/ MarkDead(w)
    BY <2>3 DEF Complete, BackOff, MarkDead, FinishWith
  <2>4. CASE CompleteThrows(w) \/ InsertDead(w)
    BY <2>4 DEF CompleteThrows, InsertDead, Goto
  <2>5. CASE FailRead(w)
    BY <2>5 DEF FailRead
  <2>. QED
    BY <2>1, <2>2, <2>3, <2>4, <2>5 DEF AroundHandler
<1>. QED
  BY <1>1 DEF IInv, WorkersInv

\* The end of a refused job, around the handler call.
LEMMA EndingAround ==
  ASSUME IrisInv, ExclusiveInv, NEW w \in Workers, AroundHandler(w), answer' = answer,
         NEW v \in Workers, NEW j, Ending(v, j)
  PROVE  job'[j].status = "dead_lettered" \/ Ending(v, j)'
<1>0. job \in [Jobs -> Row] /\ worker \in [Workers -> WorkerState] /\ IInv
  BY DEF IrisInv, IInv, RowsInv, WorkersInv
<1>1. CASE v # w
  BY <1>0, <1>1, OthersStay DEF Ending
<1>2. CASE v = w
  <2>1. worker[w].pc # "handle"
    BY DEF AroundHandler, Claim, Reclaim, Complete, CompleteThrows, FailRead, BackOff, InsertDead, MarkDead, At
  <2>2. worker[w].pc \in {"insert_dead", "mark_dead"} /\ worker[w].cur = j
    BY <1>2, <2>1 DEF Ending, IrisInv, IrisTypeOK, At
  <2>3. InsertDead(w) \/ MarkDead(w)
    BY <2>2 DEF AroundHandler, Claim, Reclaim, Complete, CompleteThrows, FailRead, BackOff, InsertDead, MarkDead, At
  <2>4. CASE InsertDead(w)
    BY <1>0, <1>2, <2>2, <2>4 DEF InsertDead, Goto, Ending, WorkerState
  <2>5. CASE MarkDead(w)
    <3>1. \A row \in Row : DeadLettered(row).status = "dead_lettered"
      BY DEF DeadLettered, Unlocked, Row
    <3>2. worker[w].cur \in Jobs
      BY <1>0, <2>2, CurIsHeld
    <3>. QED  BY <1>0, <2>2, <2>5, <3>1, <3>2 DEF MarkDead, FinishWith
  <2>. QED  BY <2>3, <2>4, <2>5
<1>. QED
  BY <1>1, <1>2

\* Every step keeps refused jobs refused.
LEMMA RefusedStep ==
  IrisInv /\ Alone /\ RefusedInv /\ [IrisNext]_allVars => RefusedInv'
<1>. SUFFICES ASSUME IrisInv, Alone, RefusedInv, [IrisNext]_allVars, crashes' = 0, storeFailures' = 0,
                     NEW j \in refused'
              PROVE  job'[j].status = "dead_lettered" \/ \E w \in Workers : Ending(w, j)'
  BY DEF RefusedInv
<1>. DEFINE Goal == job'[j].status = "dead_lettered" \/ \E w \in Workers : Ending(w, j)'
<1>. USE DEF Job, At, Hears
<1>0. /\ IInv /\ ExclusiveInv /\ worker \in [Workers -> WorkerState] /\ job \in [Jobs -> Row]
      /\ answer \in [Workers -> {"none", "delivered", "retrying", "failed"}] /\ refused \subseteq Jobs
  BY DEF IrisInv, Alone, IInv, WorkersInv, RowsInv, IrisTypeOK
<1>1. \A i \in refused : job[i].status = "dead_lettered" \/ \E w \in Workers : Ending(w, i)
  BY FaultsCounted DEF RefusedInv
<1>2. job[j].status = "dead_lettered" /\ j \in refused => job'[j].status = "dead_lettered"
  <2>1. [Next]_vars /\ requeues' = 0
    BY IrisStepIsOutboxStep, NobodyRequeues DEF allVars, vars, Alone
  <2>. QED  BY <1>0, <2>1, SettledStays
<1>3. ASSUME NEW w \in Workers, CoreAccepts(w) \/ CoreUnclear(w) PROVE Goal
  BY <1>0, <1>1, <1>2, <1>3 DEF CoreAccepts, CoreUnclear, Asking, Ending, vars
<1>4. ASSUME NEW w \in Workers, CoreRefuses(w) PROVE Goal
  <2>1. CASE j = Job(w)
    BY <1>0, <1>4, <2>1 DEF CoreRefuses, Ending, vars
  <2>2. CASE j # Job(w)
    BY <1>0, <1>1, <1>2, <1>4, <2>2 DEF CoreRefuses, Asking, Ending, vars
  <2>. QED  BY <2>1, <2>2
<1>5. ASSUME NEW w \in Workers, WriteStatus(w) PROVE Goal
  <2>1. \A v \in Workers \ {w} : Ending(v, j) => Ending(v, j)'
    BY <1>0, <1>5 DEF WriteStatus, Conclude, HandlerResolves, HandlerThrows, HandlerThrowsTerminal, Goto, Ending
  <2>2. Ending(w, j) => Ending(w, j)'
    BY <1>0, <1>5 DEF WriteStatus, Conclude, HandlerResolves, HandlerThrows, HandlerThrowsTerminal, Goto, Ending,
       WorkerState
  <2>. QED  BY <1>1, <1>2, <1>5, <2>1, <2>2 DEF WriteStatus
<1>6. ASSUME NEW w \in Workers, AroundHandler(w), UNCHANGED irisVars PROVE Goal
  <2>1. j \in refused /\ answer' = answer
    BY <1>6 DEF irisVars
  <2>. QED  BY <1>0, <1>1, <1>2, <1>6, <2>1, EndingAround
<1>7. CASE UNCHANGED irisVars /\ ((\E k \in Jobs : Enqueue(k)) \/ Tick \/ UNCHANGED vars)
  <2>1. \A w \in Workers : worker'[w].pc = worker[w].pc /\ worker'[w].cur = worker[w].cur
    BY <1>0, <1>7, TickKeepsJobs DEF Enqueue, vars
  <2>. QED  BY <1>1, <1>2, <1>7, <2>1 DEF Ending, irisVars
<1>. QED
  BY <1>3, <1>4, <1>5, <1>6, <1>7, FaultsCounted DEF IrisNext, Deliver, allVars

\* While no process dies and no status write fails, a job IRIS Core refused
\* is not sent again, for any number of workers, if no lock expires under a
\* living worker.
THEOREM RefusalsAreFinal ==
  ASSUME LocksSuffice
  PROVE  IrisSpec => []RefusedIsLast
<1>1. IrisInit => RefusedInv
  BY DEF IrisInit, RefusedInv
<1>2. IrisInv /\ Alone /\ RefusedInv => RefusedIsLast
  <2>. SUFFICES ASSUME IrisInv, Alone, RefusedInv, crashes = 0, storeFailures = 0,
                       NEW w \in Workers, Asking(w), Job(w) \in refused
                PROVE  FALSE
    BY DEF RefusedIsLast
  <2>1. worker[w].pc = "handle" /\ answer[w] = "none" /\ IInv /\ ExclusiveInv
    BY DEF Asking, At, IrisInv, Alone
  <2>2. /\ job[Job(w)].status = "processing"
        /\ \A v \in Workers \ {w} : worker[v].pc # "idle" => Job(v) # Job(w)
    BY <2>1, InHandler
  <2>3. PICK v \in Workers : Ending(v, Job(w))
    BY <2>2 DEF RefusedInv
  <2>4. v # w /\ worker[v].pc # "idle" /\ Job(v) = Job(w)
    BY <2>1, <2>3 DEF Ending, Job, IrisInv, IrisTypeOK, At
  <2>. QED  BY <2>2, <2>4
<1>3. IrisInv /\ Alone /\ [IrisNext]_allVars => Alone'
  BY AloneStep DEF IrisInv
<1>. QED
  BY <1>1, <1>2, <1>3, AloneInit, IrisInitInv, IrisNextInv, RefusedStep, PTL DEF IrisSpec

=============================================================================
