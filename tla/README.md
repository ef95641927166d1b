# Verification of CRIPTO-TIP

TLA+ models of the parts of CRIPTO-TIP where concurrent requests, workers, callbacks,
transactions and crashes meet shared state, the TLC runs that check them on small
instances, and theorems about them that TLAPS proves for every value of the constants.

CRIPTO-TIP turns confirmed support (token tips sent through `TipRouterV1`, YouTube Super
Chats, manual entries) into `support.received` events and applies their effects once: an
affinity ledger entry, an overlay alert and a reaction request. The service is the Fastify
application `apps/api`; its state lives in Postgres (`repositories/postgres.ts`) or, for
development and tests, in maps (`repositories/in-memory.ts`).

## 1. Inventory

### Modelled

| Component | State it keeps | Operations | Talks to |
| --- | --- | --- | --- |
| Durable outbox (`outbox/worker.ts`, outbox part of `postgres.ts`) | `outbox_events`, `dead_letter_events`, retry rows of `audit_logs` | `enqueueOutbox`, `claimOutboxBatch`, `reclaimStaleOutboxLocks`, `processOutboxBatch` (complete, fail, dead-letter), `retryDeadLetter` | every producer; handlers such as `iris.deliver` |
| IRIS delivery (`iris/delivery-worker.ts`, `iris/core-client.ts`) | `delivery_status` of a support event | the `iris.deliver` handler: one request, one status write, resolve or throw | outbox workers, IRIS Core |
| Chain listener (`chain/tip-router-listener.ts`) | `tip_transactions`, `chain_cursors`, keys in the outbox | `catchUp`, `processLog` from the scan and from un-awaited subscription callbacks, `processConfirmations` | `EvmRpcProvider`, outbox |
| Support event pipeline (`server.ts`, `packages/shared`) | `support_events`, review audits, `affinity_ledger`, `overlay_events`, `reaction_requests`, jobs, pipeline dead letters | create (raw event, fixture, token tip, manual), approve, reject, patch, `applySupportReceivedEffects`, `overlay-resend`, `reaction-resend` | outbox, overlay |
| Reaction dispatch workflow (`server.ts`) | maps of candidates, approvals, boundaries, internal outbox, leases, plans, dry-run and adapter boundaries, simulations, dead letters; audit rows | propose, approve, boundary, enqueue, lease, plan, cancel, release, simulate, dead-letter | support events, audit log |
| YouTube live chat reading (`youtube-live-chat-list-connector-service.ts`, planner, `youtube-fixture-routes.ts`) | one cursor per chat in the API process | bounded `run`, guarded page ingest, operator clear, restart | YouTube transport, support pipeline |
| Provider apply transaction on Postgres (`repositories/postgres-provider-apply-transaction-adapter.ts`) | `manual_gates`, `provider_deployment_jobs`, two audit tables | `commitRecordedProviderApply`, `appendSafeAudit` | the caller that ran the apply |

What makes them hard, and what makes them correct:

* **Outbox.** Workers take a batch of locks and write rows by id without checking that the
  lock is still theirs; locks expire while their owner is alive; `failOutboxJob` reads and
  writes in two statements; a worker may die between two statements of `moveToDeadLetter`;
  an admin may requeue at any moment. Rows, locks, dead letters and audits must stay
  consistent; nothing may be completed without having been delivered or given up before its
  attempts are used; every job must settle.
* **IRIS delivery.** IRIS Core may take a job and not be heard; the status write comes
  after the answer and may itself fail; several jobs of one event write one status. A
  completed job must have reached Core, and the status must agree with the jobs.
* **Chain listener.** The chain reorganises between any two awaited calls, notifications
  come late or never, callbacks run concurrently with the scan, and calls reject. What is
  normalized must be and stay canonical; no tip may be skipped.
* **Support pipeline.** Every route reads, awaits and then writes unconditionally; a failed
  effect is dead-lettered or not, depending on which of its calls failed. No effect before a
  review, no reaction without affinity, nothing silently lost.
* **Reaction dispatch.** Eight gates, each with its own record; some handlers await before
  they write, leases expire, moderation and the operator change the event underneath. An
  item must pass the gates in order, a closed item must stay closed, and nothing may be
  simulated without the lease it was planned under.
* **YouTube reading.** The cursor outlives the runs; a page is ingested event by event and
  any event may fail; a failure class is counted over several runs. The cursor must pass no
  page with an event that is not stored, and the chat must be read to its end.
* **Provider apply.** The provider has already acted; a retry, a rival job on the same
  gate, a lost connection or an unclear `COMMIT` must not use a gate twice or answer what
  is not so.

### Not modelled

| Component | Why |
| --- | --- |
| Manual gates, provider deployment (`manual-gates.ts`, `provider-deployment.ts`) | the in-process forerunner of the Postgres transaction: every adapter of it in the repository is a mock or wraps one, and no route reaches it. It awaits the apply between checking and using the gate, so two overlapping calls pass one gate; listed as a hazard |
| Provider apply transaction in memory | synchronous snapshot and restore: there is no step at which two calls could meet |
| Operator and resolution notes | each appends an audit row; the resolution status that dispatch looks at is `Resolve` in ReactionDispatch |
| Wallet nonces | a nonce is consumed by one synchronous operation on a map; no production verifier is in the repository |
| Tip intents, recent-tip moderation | the recent tip count is read and recorded in separate statements, listed as a hazard; the token tip route itself is in SupportPipeline |
| Admin rate limit | a fixed window decided in synchronous code |
| Dead-letter, audit and dashboard routes | they only read; the retry's repository method is in Outbox |
| Overlay WebSocket | fire-and-forget sends to the sockets of one process |
| YouTube connector, OAuth contract, canary, kill-switch and readiness gates | sequential parsing with bounded retries of one call, and validators of records handed to them: conjunctions of checks with no steps |
| Affinity and moderation rules | the outcome is a constant (`Delta`) and a choice (a submission's status) of SupportPipeline; the rest is regular expressions and formatting |
| `TipRouterV1.sol` | atomic transactions; its events are ChainListener's external chain |
| Configuration, web companion | read once at start; user interface with a mocked wallet |
| `scripts/*.mjs`, `db-driver-*` validators, governance records | most of the repository's lines: tooling that checks documents and reports of the development process and keeps no state of the running system |

`PROJECT.json` lists the components with their files, and every hazard with the line where
it bites and the properties that cover it or the reason none does.

## 2. Modules and their correspondence to the code

    JobQueue       <== Outbox             (implements, refinement mapping)
    Outbox        <-- IrisDelivery        (EXTENDS, and implements it)
    SupportPipeline <-- SupportResend     (EXTENDS, and implements it)
    DispatchLadder <== ReactionDispatch   (implements, refinement mapping)
    GateUse        <== GateLedger         (implements, refinement mapping)
    ChainListener, YouTubeCursor

`X` has its instance in `MCX` and its theorems in `XProofs`. In all modules one action is
one awaited call: one SQL statement, one RPC call or one handler call, with the synchronous
code that follows it. Two awaits are never merged unless said so below. The in-memory
repository runs a method's statements back to back, which is one of the interleavings of
the model. `PROJECT.json` maps each definition to its lines. Definitions marked as a
mutation or mutant are deliberately wrong variants of the definition after them; they are
used to confirm that a property notices the bug, and nothing in the specification refers to
them.

### Outbox and JobQueue

`job` is the row of each idempotency key, `dlq` the dead letters, `worker` the position of
each worker in `processOutboxBatch` with the rest of its batch, `admin` the running calls of
the retry endpoint. Times are the two differences the code looks at: `wait` until
`next_attempt_at`, and `age` of the lock. `delivered`, `errors`, `fatal` and `unacked` are
history. A worker that dies leaves its batch locked; `CompleteThrows` is the rejection of
`completeOutboxJob` that the shared `catch` treats as a failed job. The handler is external:
it resolves, rejects, or throws `TerminalOutboxError`. `JobQueue` is what a producer may
rely on: per job a phase (absent, open, completed, dead-lettered), at-least-once calls while
it is open, a completion only after a call that resolved, a dead letter only after
`max_retry_count` failures or a terminal error. It knows no rows, locks or workers; `Phase`
maps a row's status to it. A completion that was not acknowledged counts as a failure there
too, because that is what the worker makes of it.

### IrisDelivery

Splits the handler call of an Outbox worker into the request and the status write. IRIS
Core, external, takes the job (`CoreAccepts`), refuses it with 401 or 403 (`CoreRefuses`),
or is not heard (`CoreUnclear`: a time-out or another status, whether or not Core took the
job). `status` is `delivery_status`; a job outside `Tracked` carries no support identity and
writes none. As in the code, a `delivered` write that rejects is handled like an error of
Core, and any other that rejects replaces what the handler was about to throw by an
ordinary, retryable error. Every other step is Outbox's own.

### ChainListener

`head`, `hash`, `mined`, `forks` and `feed` are the external chain and the notifications
under way; `tx`, `cursor`, `detected` and `normalized` are what the listener wrote; `call`
and `scan` are where each `processLog` and `catchUp` is. A block hash is the number of the
fork the block was mined on. Abstracted: the decoding of a log, the count and timestamp of
confirmations. Assumed: one `catchUp` runs at a time, the provider answers consistently and
knows every block asked for (the code treats an unknown hash as canonical). As in the code, a
removed log is matched by transaction hash and log index only, the cursor is the latest
block and not a final one, and a row marked `reorged` is not listed again: only a
confirmation already in flight can still overwrite it.

### SupportPipeline and SupportResend

`support` is the moderation status of each event, `review` what its review audits amount to,
then the effects, and `req` the requests in flight with the status they will write and the
affinity they read. `Unreliable` names the calls that may reject; `MayCrash` lets the
process end with all requests.

* Rejections of the affinity entry, of the overlay job and of the reaction job are caught by
  the code and dead-lettered; any other ends the request (`Dies`). A rejected call may or may
  not have been executed.
* `recordSupportPipelineDlq` is one step. A token tip makes the calls of a fixture, with an
  approved intent only; an item of a bulk review makes those of approve or reject.
* Review audits get random ids and the greatest is read, so a second review may or may not
  hide the first: `WriteAudit` chooses.
* One character; `shadow_ignored` behaves as `rejected`. Ledger entries are ordered as their
  inserts take effect. Tier and relationship are not kept: `updateSupportEvent` writes
  neither on Postgres.
* A resend reads the event and then inserts a row and a job under identities of its own, so
  it never meets the pipeline's rows. The two resend routes make the same calls and are one
  definition with the effect as parameter. `answered` is history.
* Left out: operator notes, overlay sockets, and what happens to the jobs, which is
  Outbox's part.

### ReactionDispatch and DispatchLadder

The records are maps of one API process. A handler that only reads maps is not interrupted
and is one step; one that rebuilds the candidate awaits two queries and is three: read the
event, read the rest, write. What it read is kept in `req`. After a restart the maps are
empty and a behaviour begins again at `Init`. The candidate id is a hash of the event and of
its safe context; the context is the viewer's support count, which may grow between two
rebuilds. The safety checks on texts and on snapshots handed in by the caller are abstracted
to current or not. `DispatchLadder` is what an operator relies on: a rung and a closed flag
per item; `ReactionDispatch` implements it with `Rung` and `Closed` computed from its
records.

### YouTubeCursor

`cursor` is the state in the API process, `persisted` the stored support events, `run` each
caller's progress in `run` and in the request it is making. A step ends at the transport, at
a request to a route, and at the pipeline, which stores one event of a page at a time.
External, and modelled from how the code uses them: the transport, which answers a page or a
failure class, and the restart that loses the cursor. The gateway that connects the service
to the routes is built in tests only; the routes are the API's. Page contents, fingerprints
and poll intervals are abstracted, and the page for a token has the same messages each time.
The plain `POST .../pages` route, which advances the cursor over a page without storing its
events, is not modelled: what is said of the cursor is said of a chat read through the guarded
`/pages/ingest`.

### GateLedger and GateUse

One step is one query of `commitRecordedProviderApply`. `gate`, `job` and `audit` are
committed rows; what an open transaction wrote shows in its `pc` and is seen by nobody else
until `COMMIT`. `appendSafeAudit` inserts into the same audit table outside any transaction
and is two steps: it takes the key (`AppendInsert`), and then the foreign key on `job_id`
(`migrations/0003_manual_gate_audit.sql:88`) makes it wait for whoever has locked the job
(`AppendDone`). The database is external: row locks last to the end of the transaction, a
locking read sees the rows as committed by then, a second insert of a key waits for the
first. Transactions take gate, job and key in this order, so they never wait for one another
in a circle; but a transaction can wait for the key of an append that waits for the job that
transaction has locked. Postgres ends one of the two (`BreakDeadlock`, 40P01). A lost
connection may leave `COMMIT` done or not done. In the repository the adapter meets a mock
client in tests; the model supplies the database that its queries are written for. `GateUse`
says it in three atomic actions.

## 3. Runs

| Run | Checks | Bounds | Distinct states |
| --- | --- | --- | --- |
| `outbox_race` | row types and ranges, locks, dead letters, delivery before completion, no early dead letter, trace of requeues; every job settles (fair) | 2 workers, 1 job with 2 attempts, 1 crash, 2 requeues, locks that go stale while their worker lives | 219967 |
| `iris_delivery` | completed jobs reached Core; status agrees with the jobs; a refused job is not asked again; one holder per job; implements JobQueue | 2 workers, a batch of 2 jobs of one event (2 attempts and 1), 1 crash, 1 failed status write, `Limit * HandlerMax <= StaleLock` | 685114 |
| `chain_reorg` | what is normalized is and stays canonical | 1 tip, 1 callback, 3 blocks, 2 forks of depth 1, 2 confirmations, 1 failure | 1437552 |
| `chain_scan` | the cursor covers the tips; every tip is announced and normalized (fair) | 2 tips, 2 callbacks, 3 blocks, 1 failure, no fork | 200350 |
| `chain_confirmed` | *violation* of "Confirmed transactions enqueue `support.normalize`" | 1 tip, 1 failure | |
| `support_reviews` | affinity fails closed; a held event has had no effect and no copy; an answered resend is complete | 2 requests (raw event, reviews) and 2 resends on one event, any call rejecting, process ending | 415869 |
| `support_settled` | an approved event nobody works on is applied or dead-lettered, and every approved event gets there (fair) | 2 requests on any route, the caught calls rejecting | 575397 |
| `support_sequential` | affinity is the sum of the ledger; rejected has no effects; reviews agree with events | 1 request at a time, 3 events of one viewer, any call rejecting, process ending | 1091475 |
| `support_rejected` | *violation*: a rejected event has had no effects | 2 concurrent requests | |
| `dispatch_gates` | implements DispatchLadder; decisions audited once; leases kept; simulations under their lease | 1 event with 2 contexts of which 1 is proposed, 2 rebuilding requests, leases of 2 ticks, 2 per item, all 3 simulation cases | 281536 |
| `youtube_read` | no event lost; where calls do not overlap, repeats of a failure below the cap over all runs, and the chat is read to its end (fair) | 2 callers, 3 pages sharing an event, 4 failures, 2 restarts | 297991 |
| `gate_ledger` | implements GateUse; answers are true; every call ends (fair) | 5 calls (a retry, a rival job, a failed apply, a wrong gate), 2 gates, an append under the id and job of one of them, 1 lost query, connection or `COMMIT`; deadlocks are not counted | 83091 |

`TypeOK` (`IrisTypeOK` in `iris_delivery`) is checked in one run of each module; that of
SupportResend, `ResendTypeOK`, is proved only.

Why the bounds suffice. The races are between two actors on one row: two workers, a scan and
a callback, two requests, two transactions. Two attempts are the least that distinguish a
back-off from the last failure; a batch of two is the least in which a lock waits behind
another job and in which two jobs share a status. Two confirmations with forks of depth one
is the least window in which a reorganisation is shallower than the window but not empty;
with two forks a tip is orphaned, re-mined and orphaned again. Two tips let a scan fail half
way and give the confirmation pass an order. A lease of two ticks can be renewed half way,
and two leases let a plan outlive its lease. Three pages with a shared event let a page
fail half way after another was advanced; four failures are more than the cap, so that the
count has to survive a run. Five calls on two gates hold one pair for each way two
transactions meet. In `support_reviews` one resend route stands for both, which are the
same calls. Nothing counts beyond these bounds except `retry_count`, whose range is proved.

The runs that check liveness are under fairness, without symmetry:

* Outbox: a worker polls for ever, reclaiming before it claims (`docs/RUNBOOK.md`), its
  awaits return and time passes. No producer or admin is obliged to act.
* ChainListener: the chain grows, `catchUp` is called again and again and its awaits and
  those of a callback return. No notification is obliged to arrive. `EveryTipNormalized`
  is conditional on no fork and no failure, because after a failure it is false
  (`chain_confirmed`).
* SupportPipeline: an accepted request runs on; its calls do answer, or reject into the
  code's own `catch`. No request is obliged to be made.
* YouTubeCursor: the callers keep calling `run` (nothing in the repository schedules it;
  whoever reads a chat must), their requests answer, and an operator clears a cursor that has
  stopped on a failure. Failures and restarts are finitely many.
* GateLedger: the database answers a query it can answer, grants a lock that is free and
  breaks a deadlock.

### What the violations show

* `chain_confirmed`: `confirmed` and the enqueue are two statements, and only
  unconfirmed rows are listed again; a failure in between loses the tip.
* `support_rejected`: approve and reject check, await and update unconditionally; the
  effects of the approval are applied to an event that ends rejected.

### Known from the code, and the scope it gives the properties

* *Locks.* A batch is locked up front and handled one by one. With a stale threshold of one
  handler's maximum, the last job of a batch loses its lock to reclaim while its worker is
  alive, against the runbook's "Active locks are preserved" (`docs/RUNBOOK.md`).
  `iris_delivery` uses the threshold that is enough, a whole batch. A dead-letter retry that
  read the row as already queued can bring it back a second time with only the first audit.
* *Delivery.* When the status write after a 401 fails, the refused job becomes retryable and
  Core is asked again; `RefusedIsLast` therefore speaks of runs of the handler whose writes
  succeed. Jobs of one event write one status and the last writer wins: an event may be
  `delivered` with another of its jobs dead-lettered for time-outs, since the attempt that
  exhausts the retries writes `retrying`.
* *Chain.* A removed log handled between the update to `confirmed` and the enqueue is
  overtaken by it: the tip is normalized though its row says `reorged`; `NormalizedIsCanonical`
  is about the chain, with forks shallower than the window. A failure between the insert of a
  tip and its `chain.tip.detected` is never repaired.
* *Pipeline.* The inserts of the overlay and reaction rows are awaited outside the `try`: if
  one rejects, the event is stored as approved, its retry is a duplicate, and its effects
  follow neither as rows nor as dead letters (hence `MCCaught` in `support_settled`). The
  manual route ignores `created`, so two manual entries with one `request_id`, one of them
  held, can break `HeldHasNoEffects`. A patch refuses approved to rejected but allows
  approved to hold and hold to rejected, which breaks `RejectedHasNoEffects` and, after a
  resend has read the event, `HeldHasNoCopies`. Two tips of one viewer in flight together
  lose an affinity increment, and concurrent reviews disagree with the event (hence one
  request at a time in `support_sequential`). A reaction may be resent for an event whose
  affinity failed closed.
* *Dispatch.* A simulation checks lease and plan but neither the event nor the candidate
  again: what was revoked after the adapter approval is still simulated.
* *YouTube.* `same_failure_repeat_limit` of 1 still lets a second call through, since the
  planner compares with its own constant 2 (`youtube-live-chat-quota-polling-planner.ts:74,96`);
  `RepeatsBounded` is about a limit of 2. Nothing keeps two calls of `run` on one cursor apart, and both may pass the
  token guard with one page. The later `advance` then moves the cursor back to a page whose
  result is kept, and from then on every read of that page is answered by the kept result
  without advancing: the chat stays unread. Overlapping calls also report failure counts
  they read before one another's. Nothing stored is lost (`NothingIsLost` is proved for any
  number of callers), but `RepeatsBounded` and `CatchesUp` are about calls that do not
  overlap (`Alone`).
* *Provider apply.* An `appendSafeAudit` under a transaction's id makes every later commit
  under that id fail. The answer does not ask for compensation when the failure came before
  the gate was to be marked used, although the provider has acted.
* *Small ones.* `event_id` is a 32-bit hash; the daily and stream caps are compared with a
  use of zero by every caller; the chain cursor is the latest block, and a block whose hash
  the provider does not know counts as canonical.

## 4. Proofs

The safety theorems have the form `Spec => []P` or `Spec => [][A]_vars`, the refinements
`Spec => AbstractSpec`; all hold for every value of the constants that satisfies the
module's assumptions.

| Theorem | States | Extra assumption |
| --- | --- | --- |
| `OutboxProofs!TypeCorrect` | types; retry count and back-off below `max_retry_count` | |
| `LocksAreConsistent` | locked exactly while processing | |
| `DeadLettersAreKept` | a dead-lettered row has a dead letter | |
| `CompletedMeansDelivered` | a completed row was delivered | |
| `RequeuesAreTraced` | while no process dies, a requested retry is audited or about to be | |
| `OneHolderPerJob` | until the first requeue, each job has one holder, named by its row | a batch within the stale threshold |
| `CompletionsAreFinal` | an acknowledged completion is never undone (`CompletedIsFinal`, implied by the refinement) | a batch within the stale threshold, no requeue |
| `DeadLettersAreEarned` | until the first requeue, a dead letter means a terminal error or all attempts failed | finitely many workers |
| `OutboxImplementsQueue` | Outbox implements JobQueue | a batch within the stale threshold, finitely many workers, no requeue |
| `IrisDeliveryProofs!DeliveryImplementsOutbox` | IrisDelivery implements Outbox | |
| `IrisTypeCorrect` | types; an answer is open only in a handler call; failed only if Core refused a job | |
| `CompletionsReachedCore` | a completed job was accepted by Core | |
| `StatusAgrees` | when all jobs of the event are completed, its status is delivered | a batch within the stale threshold |
| `RefusalsAreFinal` | while nothing dies and status writes succeed, a refused job is not sent again | a batch within the stale threshold |
| `ChainListenerProofs!TypeCorrect` | types; the cursor never ahead of the chain | |
| `NormalizedStaysCanonical` | what was normalized is and stays canonical | `MaxDepth < confirmationBlocks` |
| `CursorSkipsNoTip` | without forks, blocks behind the cursor are covered | |
| `SupportPipelineProofs!TypeCorrect` | types of rows and of requests in flight | |
| `AffinityFailsClosed` | no reaction without affinity and alert, no job without its row | |
| `HeldHasHadNoEffects` | a held event has had no effect | neither manual nor patch route in use |
| `ApprovedEventsAreApplied` | an approved event at rest is applied or dead-lettered | only the caught calls reject, no crash |
| `RejectedHasHadNoEffects` | a rejected event has had no effect | one request at a time, patch route not in use |
| `ReviewsAgree` | the review on record is the status of the event | the same |
| `ReviewsOfOneKindAgree` | both, for any number of concurrent requests | not approve and reject both, neither manual nor patch route in use |
| `EntriesAddUp` | each new ledger entry adds to the affinity what its event grants | one request at a time, neither patch nor raw event route in use |
| `AffinityAddsUp` | a viewer's affinity is what the ledger grants in all | the same |
| `NothingIsGrantedTwice` | the affinity never exceeds what the ledger grants, for any number of concurrent requests | raw event route not in use |
| `SupportResendProofs!ResendImplementsPipeline` | SupportResend implements SupportPipeline | |
| `ResendTypeCorrect` | types of resends and copies | |
| `ResendsAreComplete` | a copy's job has its row, an answered resend has both | |
| `HeldWasNotCopied` | a held event was never copied | patch route not in use |
| `ReactionDispatchProofs!TypeCorrect` | types of records and requests | |
| `DecisionsAuditedOnce` | one audit row per decision | |
| `LeasesKept` | an active lease is not replaced or shortened but by time and release | |
| `SimulationsUnderLease` | a simulation is made while queued, under the planned, active lease | |
| `Refinement` | ReactionDispatch implements DispatchLadder | |
| `YouTubeCursorProofs!TypeCorrect` | types; cycles and polls within budget | |
| `NothingIsLost` | the cursor passes no page with an event not stored | |
| `RepeatsAreBounded` | where runs do not overlap, no failure repeats beyond the limit, over all of them | the service's limit is the planner's, 2 |
| `GateLedgerProofs!TypeCorrect` | types; locks are held from inside a transaction | |
| `SingleUse` | a gate serves one job, a job uses its own gate (implied by the refinement) | |
| `AnswersAreTrue` | applied was recorded, not recorded was not | |
| `Refinement` | GateLedger implements GateUse | |

"A batch within the stale threshold" is `LocksSuffice`: finitely many jobs and
`Limit * HandlerMax <= StaleLock`. Without it the properties are false (see *Locks* above);
no requeue, because a retry of a dead letter takes the row from whoever holds it. The raw
event route writes the relationship the caller sent, whatever the ledger says. What the
patch route does to rejected events is said under *Pipeline*.

**Outbox.** The rows alone are not inductive: a worker writes what it decided some statements
ago. `IInv` adds what a worker may rely on at each point: before `complete` its job was
delivered, before `mark_dead` the dead letter exists, before `back_off` one more attempt is
left. `RowSteps` shows that every transition gives a good row whatever the row was before,
which is why the missing lock check does no harm to these properties. `RequeuesAreTraced`
adds `TraceInv`: a call that found the row already queued relies on an earlier trace.

`ExclusiveInv` is the argument why locks outlast a batch. The jobs of a batch are locked in
one statement, so a lock is never older than `Elapsed`: `HandlerMax` for each job the worker
is done with, plus the time on the one in hand. `Elapsed` stays within
`Limit * HandlerMax`, so no held row is stale, reclaim passes it by, claim takes only
unlocked rows, and the holdings of two workers stay disjoint. `AttemptsInv` needs none of
that and holds for locks that expire under their owner: `retry_count`, plus the number of
workers that failed and are about to read it, never exceeds the errors caught, so a lost
increment can only give a job more attempts. The refinement has one abstract action per write and
outcome; claims, reclaims, reads and deaths are stutters. It uses `ExclusiveInv` for the
phase a worker's job is in when it writes, and `AttemptsInv` for giving up.

**IrisDelivery.** Each step is an Outbox step or leaves its variables alone, so Outbox's
`IInv` holds of it; `AnswersInv` adds that what a worker is about to
answer as delivered is in `core`, and so is all that Outbox calls delivered. Nothing here
requeues, so `ExclusiveInv` holds throughout, which the last two theorems use. `StatusInv`
says of the single status all jobs share: while it is not `delivered`, some job of the event
is neither completed nor about to be, so the last job to complete also writes last.
`RefusedInv` says that a refused job is dead-lettered or its only holder is on the way to it.

**ChainListener.** `KnowledgeInv` says that whatever the listener knows (a notification, a
log in hand, a row) was once true of the chain: a log's block and hash are of some fork, and if
that fork is still canonical there, so is the log. `SettledInv` adds that from
`mark_confirmed` on the tip is as deep as the window, in the block its row names; no
shorter reorganisation reaches it (`SettledKept`). `CoverageInv` adds what the scan still has
in hand of the blocks it is about to pass.

**SupportPipeline and SupportResend.** Each theorem adds to the types what a request in
flight has behind it: `Behind` (the effects before its position), `Released` (it applies
effects only of an event past its review) and `Working`/`Vouched` (an approved event is
applied or somebody is at it), with `PatchRead` for the patch that writes back an approval it
has read. `CopyInv` does the same for a resend: past the row insert the row is there, past
the job insert the job; the refinement carries `ReleasedInv` over.

For one request at a time `SequentialInv` says that what the request has read of status,
review and effects is still so when it writes (`UpToDate`), and that no rejected event
shows an effect (`Unshown`). `OneReviewInv` replaces "is still so" by what survives other
requests when all reviews in flight are of one kind (`Prevails`): the event is still held,
or already reviewed the same way. So the race that `support_rejected` shows, an approval
against a rejection, is the only one among these routes. The affinity is then the sum over the ledger. Induction over data being
out of the prover's reach, the sum is stated as the number of points all entries grant
(`Granted` counts the set `Points`), and a new entry adds its own points, disjoint from the
others. `GrantInv` drops the restriction to one request: the affinity a request has read is never
more than what the ledger grants by now, since the ledger only grows meanwhile.

**ReactionDispatch.** `Gated` says that a record of one gate implies the records of the
gates before it and that a plan names a lease that was created; `GoodReq`, that what a
request in flight has read of the gates before its own still holds when it writes. The refinement has one
step per action: it raises the rung of one item, or closes some, or stutters.

**YouTubeCursor.** `GoodRun` relates the page in hand to the stored events: each event of it
is stored or still to do. The cursor is advanced only when nothing is left to do. `StreakInv`
is about the memory of failures over several runs: whoever will make the next call of the
transport, a caller or between runs the cursor, remembers at least how often the last failure
came in a row (`Remembers`), and with that at the limit the planner allows no call.

**GateLedger.** `CallInv` says what an open transaction knows by its position: past a
locking read it holds the row (`HoldsRows`) and past the audit insert the key (`HoldsKey`),
so the checks it made are still true when it commits. `AppendInv` says the same of the key
of an append that is not done. The refinement takes `COMMIT` and the end of an append to the
abstract actions and every other step to a stutter.

Only model-checked: liveness (`EventuallySettled`, `EveryTipNormalized`, `ApprovedIsApplied`,
`CatchesUp`, `CallsEnd`), which is beyond what the prover's backends support. Every safety
property, action property and refinement of a passing run is a theorem.

## 5. What is left

1. The chain listener and the pipeline as producers of `JobQueue`.
2. The in-process manual gates against `GateUse`, which their overlapping calls would not
   implement, and the pure rules of `packages/shared` against reference definitions.

## 6. Running

    tlc -config Outbox_race.cfg MCOutbox
    tlapm OutboxProofs.tla

with the module and configuration of each run as `PROJECT.json` lists them. Runs take from
seconds to about a minute with two workers, proofs a few minutes each.
