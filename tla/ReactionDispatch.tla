--------------------------- MODULE ReactionDispatch ---------------------------
(***************************************************************************)
(* The reaction dispatch workflow of apps/api/src/server.ts: a candidate   *)
(* reaction is built from a support event, approved or rejected, given an  *)
(* outbox boundary, queued in the internal outbox, leased, planned,        *)
(* approved as a dry run and as an adapter execution, simulated, and, when *)
(* the simulation fails, dead-lettered.                                    *)
(*                                                                         *)
(* The records live in maps of the API process, the support events in the  *)
(* database.  A handler that only reads maps is not interrupted and is one *)
(* step; one that rebuilds the candidate awaits two queries and is three:  *)
(* it reads the event, reads the rest of the context, and writes.  After a *)
(* restart the maps are empty: a behaviour begins again at Init.           *)
(***************************************************************************)
EXTENDS Naturals, FiniteSets

CONSTANTS
  Events,      \* support events
  Admins,      \* requests of the rebuilding handlers running concurrently
  NoItem,      \* an admin without such a request
  TTL,         \* REACTION_DISPATCH_INTERNAL_OUTBOX_LEASE_TTL_MS, in ticks
  MaxContext,  \* bound: how far a viewer's recent_support_count grows
  Contexts,    \* the counts at which candidates are built
  MaxLeases,   \* bound: leases created per queued item
  Cases        \* the simulation cases in use

ASSUME ConstantsAssumption ==
  /\ TTL \in Nat \ {0}
  /\ MaxContext \in Nat /\ MaxLeases \in Nat
  /\ Cases \subseteq {"success", "retryable_failure", "terminal_failure"}
  /\ Contexts \subseteq 0 .. MaxContext /\ 0 \in Contexts
  /\ NoItem \notin Events \X Contexts

\* The candidate id is a hash of the event and its safe context.  What is built
\* while the message is not approved has an id of its own and is blocked for
\* ever: it is not kept here.
Items == Events \X Contexts
Event(k) == k[1]
Context(k) == k[2]

Gates == {"approval", "boundary", "outbox"}

VARIABLES
  approved,   \* whether message_moderation_status is approved
  blocked,    \* whether the operator's resolution status is blocked
  count,      \* recent_support_count of the event's viewer
  candidate,  \* candidate_status
  approval,   \* approval_status of the candidate
  boundary,   \* items with a boundary_ready record
  outbox,     \* outbox_status
  lease,      \* the lease record: lease_status, lease_id, time left
  plan,       \* lease_id of the planned_internal attempt plan, 0 without one
  dryRun,     \* approval of the dry-run boundary
  adapter,    \* approval of the adapter execution boundary
  results,    \* simulated cases
  dead,       \* cases with a simulation failure dead letter
  req,        \* the rebuilding handlers in progress
  audits      \* audit rows written per item and gate

event == <<approved, blocked, count>>
gates == <<candidate, approval, boundary, outbox>>
work == <<lease, plan, dryRun, adapter, results, dead>>
vars == <<event, gates, work, req, audits>>

NotLeased == [status |-> "not_leased", id |-> 0, left |-> 0]
NoRequest == [op |-> "none", item |-> NoItem, status |-> "none", pc |-> "idle"]

Init ==
  /\ approved \in [Events -> BOOLEAN]
  /\ blocked = [e \in Events |-> FALSE]
  /\ count = [e \in Events |-> 0]
  /\ candidate = [k \in Items |-> "none"]
  /\ approval = [k \in Items |-> "none"]
  /\ boundary = {}
  /\ outbox = [k \in Items |-> "none"]
  /\ lease = [k \in Items |-> NotLeased]
  /\ plan = [k \in Items |-> 0]
  /\ dryRun = [k \in Items |-> "none"]
  /\ adapter = [k \in Items |-> "none"]
  /\ results = [k \in Items |-> {}]
  /\ dead = [k \in Items |-> {}]
  /\ req = [a \in Admins |-> NoRequest]
  /\ audits = [k \in Items |-> [g \in Gates |-> 0]]

-----------------------------------------------------------------------------
(* The support event, changed by the support pipeline and the operators.   *)

Moderate(e) ==
  /\ approved' = [approved EXCEPT ![e] = ~@]
  /\ UNCHANGED <<blocked, count, gates, work, req, audits>>

Resolve(e) ==
  /\ blocked' = [blocked EXCEPT ![e] = ~@]
  /\ UNCHANGED <<approved, count, gates, work, req, audits>>

SupportAgain(e) ==
  /\ count[e] < MaxContext
  /\ count' = [count EXCEPT ![e] = @ + 1]
  /\ UNCHANGED <<approved, blocked, gates, work, req, audits>>

-----------------------------------------------------------------------------
(* Handlers that rebuild the candidate.                                    *)

\* A handler that would be answered without a write, because the event is not
\* approved or the record exists, is no step.
Start(a, op, k) ==
  /\ req[a].pc = "idle"
  /\ approved[Event(k)]
  /\ req' = [req EXCEPT ![a] = [op |-> op, item |-> k, status |-> "none", pc |-> "rebuild"]]
  /\ UNCHANGED <<event, gates, work, audits>>

\* The item of a candidate to be created is known once the context is read.
StartCandidate(a, e) == Start(a, "candidate", <<e, 0>>)

StartApprove(a, k) ==
  candidate[k] = "candidate_ready" /\ approval[k] = "none" /\ Start(a, "approval", k)

StartBoundary(a, k) ==
  approval[k] = "approved_for_dispatch" /\ k \notin boundary /\ Start(a, "boundary", k)

StartEnqueue(a, k) ==
  /\ k \in boundary /\ approval[k] = "approved_for_dispatch"
  /\ outbox[k] = "none" /\ Start(a, "outbox", k)

Fresh(k) == ~blocked[Event(k)] /\ count[Event(k)] = Context(k)

\* buildReactionDispatchCandidate goes on from the event it has; for a stored
\* candidate validateCandidateForApproval compares the result.
Rebuild(a) ==
  LET k == req[a].item
      e == Event(k)
      status == IF blocked[e] THEN "candidate_blocked" ELSE "candidate_ready"
  IN /\ req[a].pc = "rebuild"
     /\ req' = [req EXCEPT ![a] =
          IF req[a].op = "candidate" /\ count[e] \in Contexts
          THEN [@ EXCEPT !.item = <<e, count[e]>>, !.status = status, !.pc = "write"]
          ELSE IF req[a].op # "candidate" /\ Fresh(k) THEN [@ EXCEPT !.pc = "write"]
          ELSE NoRequest]
     /\ UNCHANGED <<event, gates, work, audits>>

Writing(a, op) == req[a].pc = "write" /\ req[a].op = op

Answer(a) == req' = [req EXCEPT ![a] = NoRequest]

Audited(k, g) == audits' = [audits EXCEPT ![k][g] = @ + 1]

\* createReactionDispatchCandidateIfAbsent: the first status is kept.
WriteCandidate(a) ==
  LET k == req[a].item
  IN /\ Writing(a, "candidate")
     /\ candidate' = [candidate EXCEPT ![k] = IF @ = "none" THEN req[a].status ELSE @]
     /\ Answer(a)
     /\ UNCHANGED <<event, approval, boundary, outbox, work, audits>>

\* Mutant: the approval is written without looking again.
WriteApproval_Unconditional(a) ==
  LET k == req[a].item
  IN /\ Writing(a, "approval")
     /\ approval' = [approval EXCEPT ![k] = "approved_for_dispatch"]
     /\ Audited(k, "approval")
     /\ Answer(a)
     /\ UNCHANGED <<event, candidate, boundary, outbox, work>>

\* setReactionDispatchApprovalIfAbsent: the first decision is kept.
WriteApproval(a) ==
  LET k == req[a].item
  IN /\ Writing(a, "approval")
     /\ approval' = [approval EXCEPT ![k] = IF @ = "none" THEN "approved_for_dispatch" ELSE @]
     /\ IF approval[k] = "none" THEN Audited(k, "approval") ELSE UNCHANGED audits
     /\ Answer(a)
     /\ UNCHANGED <<event, candidate, boundary, outbox, work>>

WriteBoundary(a) ==
  LET k == req[a].item
  IN /\ Writing(a, "boundary")
     /\ boundary' = boundary \cup {k}
     /\ IF k \notin boundary THEN Audited(k, "boundary") ELSE UNCHANGED audits
     /\ Answer(a)
     /\ UNCHANGED <<event, candidate, approval, outbox, work>>

\* Mutant: the audit row is written whether or not the record was created.
WriteOutbox_AuditsAlways(a) ==
  LET k == req[a].item
  IN /\ Writing(a, "outbox")
     /\ outbox' = [outbox EXCEPT ![k] = IF @ = "none" THEN "queued_internal" ELSE @]
     /\ Audited(k, "outbox")
     /\ Answer(a)
     /\ UNCHANGED <<event, candidate, approval, boundary, work>>

WriteOutbox(a) ==
  LET k == req[a].item
  IN /\ Writing(a, "outbox")
     /\ outbox' = [outbox EXCEPT ![k] = IF @ = "none" THEN "queued_internal" ELSE @]
     /\ IF outbox[k] = "none" THEN Audited(k, "outbox") ELSE UNCHANGED audits
     /\ Answer(a)
     /\ UNCHANGED <<event, candidate, approval, boundary, work>>

\* The rejection reads no support event: it is one step.
RejectCandidate(k) ==
  /\ candidate[k] = "candidate_ready" /\ approval[k] = "none"
  /\ approval' = [approval EXCEPT ![k] = "rejected_by_admin"]
  /\ Audited(k, "approval")
  /\ UNCHANGED <<event, candidate, boundary, outbox, work, req>>

-----------------------------------------------------------------------------
(* Lease, plan and cancellation of a queued item.                          *)

Queued(k) == outbox[k] = "queued_internal"
Active(k) == lease[k].status = "leased_internal" /\ lease[k].left > 0

\* Mutant: a lease is created over one that is still active.
CreateLease_OverActive(k) ==
  /\ Queued(k)
  /\ lease[k].id < MaxLeases
  /\ lease' = [lease EXCEPT ![k] = [status |-> "leased_internal", id |-> @.id + 1, left |-> TTL]]
  /\ UNCHANGED <<event, gates, plan, dryRun, adapter, results, dead, req, audits>>

\* The new lease_id hashes the time and the lease before it: it is never reused.
CreateLease(k) ==
  /\ Queued(k) /\ ~Active(k)
  /\ lease[k].id < MaxLeases
  /\ lease' = [lease EXCEPT ![k] = [status |-> "leased_internal", id |-> @.id + 1, left |-> TTL]]
  /\ UNCHANGED <<event, gates, plan, dryRun, adapter, results, dead, req, audits>>

\* Mutant: the time is added to what is left.
ExtendLease_FromExpiry(k, id) ==
  /\ Queued(k) /\ Active(k) /\ id = lease[k].id
  /\ lease' = [lease EXCEPT ![k].left = @ + TTL]
  /\ UNCHANGED <<event, gates, plan, dryRun, adapter, results, dead, req, audits>>

ExtendLease(k, id) ==
  /\ Queued(k) /\ Active(k) /\ id = lease[k].id
  /\ lease' = [lease EXCEPT ![k].left = TTL]
  /\ UNCHANGED <<event, gates, plan, dryRun, adapter, results, dead, req, audits>>

\* Also of a cancelled item.  The expiry left behind is not looked at again.
ReleaseLease(k, id) ==
  /\ Active(k) /\ id = lease[k].id
  /\ lease' = [lease EXCEPT ![k].status = "lease_released", ![k].left = 0]
  /\ UNCHANGED <<event, gates, plan, dryRun, adapter, results, dead, req, audits>>

\* A planned_internal plan answers every later request.
PlanAttempt(k, id) ==
  /\ plan[k] = 0 /\ Queued(k) /\ Active(k) /\ id = lease[k].id
  /\ plan' = [plan EXCEPT ![k] = id]
  /\ UNCHANGED <<event, gates, lease, dryRun, adapter, results, dead, req, audits>>

Cancel(k) ==
  /\ Queued(k)
  /\ outbox' = [outbox EXCEPT ![k] = "cancelled_internal"]
  /\ UNCHANGED <<event, candidate, approval, boundary, work, req, audits>>

Tick ==
  /\ \E k \in Items : Active(k)
  /\ lease' = [k \in Items |->
       IF Active(k) THEN [lease[k] EXCEPT !.left = @ - 1] ELSE lease[k]]
  /\ UNCHANGED <<event, gates, plan, dryRun, adapter, results, dead, req, audits>>

-----------------------------------------------------------------------------
(* Dry run, adapter execution and simulation.                              *)

\* dry_run_status of the review entry.  Its id is another one as soon as it is
\* not ready, and what is approved or rejected under that id gates nothing.
DryRunReady(k) ==
  plan[k] # 0 /\ Queued(k) /\ Active(k) /\ lease[k].id = plan[k]

ApproveDryRun(k) ==
  /\ DryRunReady(k) /\ dryRun[k] = "none"
  /\ dryRun' = [dryRun EXCEPT ![k] = "approved_for_adapter_execution"]
  /\ UNCHANGED <<event, gates, lease, plan, adapter, results, dead, req, audits>>

RejectDryRun(k) ==
  /\ DryRunReady(k) /\ dryRun[k] = "none"
  /\ dryRun' = [dryRun EXCEPT ![k] = "rejected_by_admin"]
  /\ UNCHANGED <<event, gates, lease, plan, adapter, results, dead, req, audits>>

\* Mutant: an approved dry run is ready whatever became of lease and outbox.
PreviewReady_ApprovalOnly(k) == dryRun[k] = "approved_for_adapter_execution"

\* adapter_execution_boundary_preview_ready.  The hashes of the approval
\* snapshot cover the plan and its lease, which both never change.
PreviewReady(k) == dryRun[k] = "approved_for_adapter_execution" /\ DryRunReady(k)

ApproveAdapter(k) ==
  /\ PreviewReady(k) /\ adapter[k] = "none"
  /\ adapter' = [adapter EXCEPT ![k] = "approved_for_local_simulation"]
  /\ UNCHANGED <<event, gates, lease, plan, dryRun, results, dead, req, audits>>

RejectAdapter(k) ==
  /\ PreviewReady(k) /\ adapter[k] = "none"
  /\ adapter' = [adapter EXCEPT ![k] = "rejected_by_admin"]
  /\ UNCHANGED <<event, gates, lease, plan, dryRun, results, dead, req, audits>>

\* The result id hashes the approval snapshot and the case: a repeated request
\* finds it.
Simulate(k, c) ==
  /\ adapter[k] = "approved_for_local_simulation" /\ PreviewReady(k)
  /\ results' = [results EXCEPT ![k] = @ \cup {c}]
  /\ UNCHANGED <<event, gates, lease, plan, dryRun, adapter, dead, req, audits>>

DeadLetter(k, c) ==
  /\ c \in results[k] \ {"success"}
  /\ dead' = [dead EXCEPT ![k] = @ \cup {c}]
  /\ UNCHANGED <<event, gates, lease, plan, dryRun, adapter, results, req, audits>>

-----------------------------------------------------------------------------
Environment == \E e \in Events : Moderate(e) \/ Resolve(e) \/ SupportAgain(e)

Handler(a) ==
  \/ \E e \in Events : StartCandidate(a, e)
  \/ \E k \in Items : StartApprove(a, k) \/ StartBoundary(a, k) \/ StartEnqueue(a, k)
  \/ Rebuild(a)
  \/ WriteCandidate(a) \/ WriteApproval(a) \/ WriteBoundary(a) \/ WriteOutbox(a)

Gate(k) ==
  \/ RejectCandidate(k)
  \/ CreateLease(k) \/ Cancel(k)
  \/ \E id \in 1 .. MaxLeases : ExtendLease(k, id) \/ ReleaseLease(k, id) \/ PlanAttempt(k, id)
  \/ ApproveDryRun(k) \/ RejectDryRun(k)
  \/ ApproveAdapter(k) \/ RejectAdapter(k)
  \/ \E c \in Cases : Simulate(k, c) \/ DeadLetter(k, c)

Next ==
  \/ Environment
  \/ \E a \in Admins : Handler(a)
  \/ \E k \in Items : Gate(k)
  \/ Tick

Spec == Init /\ [][Next]_vars

-----------------------------------------------------------------------------
Request == [op : {"none", "candidate"} \cup Gates, item : Items \cup {NoItem},
            status : {"none", "candidate_ready", "candidate_blocked"},
            pc : {"idle", "rebuild", "write"}]

TypeOK ==
  /\ approved \in [Events -> BOOLEAN] /\ blocked \in [Events -> BOOLEAN]
  /\ count \in [Events -> 0 .. MaxContext]
  /\ candidate \in [Items -> {"none", "candidate_ready", "candidate_blocked"}]
  /\ approval \in [Items -> {"none", "approved_for_dispatch", "rejected_by_admin"}]
  /\ boundary \subseteq Items
  /\ outbox \in [Items -> {"none", "queued_internal", "cancelled_internal"}]
  /\ lease \in [Items -> [status : {"not_leased", "leased_internal", "lease_released"},
                          id : 0 .. MaxLeases, left : 0 .. TTL]]
  /\ plan \in [Items -> 0 .. MaxLeases]
  /\ dryRun \in [Items -> {"none", "approved_for_adapter_execution", "rejected_by_admin"}]
  /\ adapter \in [Items -> {"none", "approved_for_local_simulation", "rejected_by_admin"}]
  /\ results \in [Items -> SUBSET Cases] /\ dead \in [Items -> SUBSET Cases]
  /\ req \in [Admins -> Request]
  /\ audits \in [Items -> [Gates -> Nat]]

\* The gates an item has passed, and whether it can pass another.
Rung(k) ==
  IF candidate[k] = "none" THEN 0
  ELSE IF approval[k] # "approved_for_dispatch" THEN 1
  ELSE IF k \notin boundary THEN 2
  ELSE IF outbox[k] = "none" THEN 3
  ELSE IF plan[k] = 0 THEN 4
  ELSE IF dryRun[k] # "approved_for_adapter_execution" THEN 5
  ELSE IF adapter[k] # "approved_for_local_simulation" THEN 6
  ELSE IF results[k] = {} THEN 7 ELSE 8

Closed(k) ==
  \/ candidate[k] = "candidate_blocked"
  \/ "rejected_by_admin" \in {approval[k], dryRun[k], adapter[k]}
  \/ outbox[k] = "cancelled_internal"
  \/ plan[k] # 0 /\ ~DryRunReady(k)

Ladder == INSTANCE DispatchLadder WITH
  rung <- [k \in Items |-> Rung(k)], closed <- [k \in Items |-> Closed(k)]

\* Whatever requests overlap: gates are passed one at a time and in order, the
\* first decision at a gate stands, and what is refused, cancelled or planned
\* under a lease that lapsed goes no further (the endpoints of server.ts
\* 3659-4659 together; docs/REACTION_DISPATCH_CONTRACT.md).
ImplementsLadder == Ladder!Spec

\* An active lease is neither replaced nor shortened but by its own release
\* (docs/P0_REACTION_DISPATCH_INTERNAL_OUTBOX_LEASE.md: "An active unexpired
\* lease blocks a second lease").
ActiveLeaseKept ==
  [][\A k \in Items : Active(k) =>
       /\ lease'[k].id = lease[k].id
       /\ lease'[k].left < lease[k].left =>
            lease'[k].status = "lease_released" \/ lease'[k].left = lease[k].left - 1]_vars

\* Every simulation, a first or a repeated one, is made while the item is queued
\* and its plan's lease is active, so no two holders of an item simulate it.
SimulatedUnderLease ==
  [][\A k \in Items : results'[k] # results[k] =>
       Queued(k) /\ Active(k) /\ lease[k].id = plan[k]]_vars

\* Overlapping and repeated requests leave at most one audit row per decision,
\* and none for a decision that was not taken.
AuditedOnce ==
  \A k \in Items :
    /\ audits[k]["approval"] <= (IF approval[k] = "none" THEN 0 ELSE 1)
    /\ audits[k]["boundary"] <= (IF k \in boundary THEN 1 ELSE 0)
    /\ audits[k]["outbox"] <= (IF outbox[k] = "none" THEN 0 ELSE 1)
=============================================================================
