---------------------------- MODULE IrisDelivery ----------------------------
(***************************************************************************)
(* createIrisDeliverOutboxHandler run by the workers of Outbox: the call   *)
(* to IRIS Core, the delivery_status of the support event the jobs belong  *)
(* to, and how the answer decides between completion, retry and dead       *)
(* letter.  A handler call of Outbox becomes two steps: the request, and   *)
(* the status write with which the handler resolves or throws.             *)
(*                                                                         *)
(* All jobs are iris.deliver jobs; those in Tracked (support.received,     *)
(* affinity.apply, memory.write_candidate) carry the identity of the one   *)
(* support event, a reaction request does not.                             *)
(***************************************************************************)
EXTENDS Outbox

CONSTANTS
  Tracked,          \* jobs with a support identity
  MaxStoreFailures  \* bound: rejected status writes

ASSUME IrisAssumption == Tracked \subseteq Jobs /\ MaxStoreFailures \in Nat

VARIABLES
  status,        \* delivery_status of the support event
  answer,        \* per worker, what the handler will write
  core,          \* jobs IRIS Core has accepted
  refused,       \* history: jobs answered with 401 or 403
  storeFailures

irisVars == <<status, answer, core, refused, storeFailures>>
allVars == <<vars, irisVars>>

IrisInit ==
  /\ Init
  /\ status = "pending"
  /\ answer = [w \in Workers |-> "none"]
  /\ core = {}
  /\ refused = {}
  /\ storeFailures = 0

Job(w) == worker[w].cur

Asking(w) == At(w, "handle") /\ answer[w] = "none"

Hears(w, a) == answer' = [answer EXCEPT ![w] = a]

CoreAccepts(w) ==
  /\ Asking(w) /\ Hears(w, "delivered")
  /\ core' = core \cup {Job(w)}
  /\ UNCHANGED <<vars, status, refused, storeFailures>>

\* Mutant: a time-out counts as delivered.
CoreUnclear_Delivered(w) ==
  /\ Asking(w) /\ Hears(w, "delivered")
  /\ UNCHANGED <<vars, core, status, refused, storeFailures>>

\* Mutant: a time-out counts as terminal.
CoreUnclear_Terminal(w) ==
  /\ Asking(w) /\ Hears(w, "failed")
  /\ UNCHANGED <<vars, core, status, refused, storeFailures>>

\* A time-out or a 5xx: Core may have taken the job all the same.
CoreUnclear(w) ==
  /\ Asking(w) /\ Hears(w, "retrying")
  /\ core' \in {core, core \cup {Job(w)}}
  /\ UNCHANGED <<vars, status, refused, storeFailures>>

\* 401 or 403.
CoreRefuses(w) ==
  /\ Asking(w) /\ Hears(w, "failed")
  /\ refused' = refused \cup {Job(w)}
  /\ UNCHANGED <<vars, core, status, storeFailures>>

\* Mutant: a refusal is thrown like any other error.
Conclude_NeverTerminal(w) ==
  IF answer[w] = "delivered" THEN HandlerResolves(w) ELSE HandlerThrows(w)

\* How the handler ends once the status is written.
Conclude(w) ==
  \/ answer[w] = "delivered" /\ HandlerResolves(w)
  \/ answer[w] = "retrying" /\ HandlerThrows(w)
  \/ answer[w] = "failed" /\ HandlerThrowsTerminal(w)

\* updateSupportEventDeliveryStatus, by source and source_event_id alone.
WriteStatus(w) ==
  /\ Conclude(w)
  /\ status' = IF Job(w) \in Tracked THEN answer[w] ELSE status
  /\ Hears(w, "none")
  /\ UNCHANGED <<core, refused, storeFailures>>

\* Mutant: the rejection of the "delivered" write is ignored.
StoreRejects_Ignored(w) ==
  /\ answer[w] = "delivered" /\ Job(w) \in Tracked
  /\ storeFailures < MaxStoreFailures
  /\ storeFailures' = storeFailures + 1
  /\ HandlerResolves(w) /\ Hears(w, "none")
  /\ UNCHANGED <<status, core, refused>>

\* The write rejects, before or after the database applied it.  Inside the
\* try it is caught like an error of Core; inside the catch it replaces the
\* error being handled, the terminal one included.
StoreRejects(w) ==
  /\ At(w, "handle") /\ answer[w] # "none" /\ Job(w) \in Tracked
  /\ storeFailures < MaxStoreFailures
  /\ storeFailures' = storeFailures + 1
  /\ status' \in {status, answer[w]}
  /\ \/ answer[w] = "delivered" /\ Hears(w, "retrying") /\ UNCHANGED vars
     \/ answer[w] # "delivered" /\ Hears(w, "none") /\ HandlerThrows(w)
  /\ UNCHANGED <<core, refused>>

WorkerDies(w) ==
  /\ Crash(w) /\ Hears(w, "none")
  /\ UNCHANGED <<status, core, refused, storeFailures>>

\* What the outbox does around the handler.
AroundHandler(w) ==
  \/ Claim(w) \/ Reclaim(w) \/ Complete(w) \/ CompleteThrows(w)
  \/ FailRead(w) \/ BackOff(w) \/ InsertDead(w) \/ MarkDead(w)

Deliver(w) ==
  \/ CoreAccepts(w) \/ CoreUnclear(w) \/ CoreRefuses(w)
  \/ WriteStatus(w) \/ StoreRejects(w) \/ WorkerDies(w)

IrisNext ==
  \/ \E w \in Workers : Deliver(w)
  \/ /\ \/ \E w \in Workers : AroundHandler(w)
        \/ \E j \in Jobs : Enqueue(j)
        \/ Tick
     /\ UNCHANGED irisVars

IrisSpec == IrisInit /\ [][IrisNext]_allVars

-----------------------------------------------------------------------------
\* Types; a request is open only in a handler call, and the event is marked
\* failed only if IRIS Core refused one of its jobs.
IrisTypeOK ==
  /\ status \in {"pending", "retrying", "delivered", "failed"}
  /\ answer \in [Workers -> {"none", "delivered", "retrying", "failed"}]
  /\ core \subseteq Jobs /\ refused \subseteq Jobs
  /\ storeFailures \in 0 .. MaxStoreFailures
  /\ \A w \in Workers : answer[w] # "none" => At(w, "handle")
  /\ \A w \in Workers : answer[w] = "failed" => Job(w) \in refused
  /\ status = "failed" => refused \cap Tracked # {}

\* A completed iris.deliver job reached IRIS Core, whatever timed out, died or
\* was retried on the way ("Delivery is at least once").
CompletedReachedCore ==
  \A j \in Jobs : job[j].status = "completed" => j \in core

\* When the jobs of the support event are all completed, its delivery_status
\* says delivered: no "retrying" of an earlier attempt of any of them is the
\* last write.
DeliveredAgrees ==
  LET enqueued == {j \in Tracked : job[j].status # "absent"}
  IN  /\ enqueued # {}
      /\ \A j \in enqueued : job[j].status = "completed"
      => status = "delivered"

\* A job IRIS Core refused is not sent again ("401 and 403 are terminal"),
\* while no process dies and no status write fails.
RefusedIsLast ==
  crashes = 0 /\ storeFailures = 0 =>
    \A w \in Workers : Asking(w) => Job(w) \notin refused

=============================================================================
