------------------------ MODULE ReactionDispatchProofs ------------------------
(***************************************************************************)
(* Theorems about ReactionDispatch, for any number of events, contexts,    *)
(* concurrent requests and leases: the records keep their types, decisions *)
(* are audited at most once, dead letters stand for failed simulations, a  *)
(* lease that is active is kept, simulations are made under their lease,   *)
(* and the whole workflow implements DispatchLadder.                       *)
(***************************************************************************)
EXTENDS ReactionDispatch, TLAPS

(* The inductive invariant: a record of an item exists only if the records *)
(* of the gates before it do.                                              *)

Gated(k) ==
  /\ approval[k] # "none" => candidate[k] = "candidate_ready"
  /\ k \in boundary => approval[k] = "approved_for_dispatch"
  /\ outbox[k] # "none" => k \in boundary
  /\ plan[k] # 0 => outbox[k] # "none" /\ plan[k] <= lease[k].id
  /\ dryRun[k] # "none" => plan[k] # 0
  /\ adapter[k] # "none" => dryRun[k] = "approved_for_adapter_execution"
  /\ results[k] # {} => adapter[k] = "approved_for_local_simulation"
  /\ dead[k] \subseteq results[k] \ {"success"}

AuditInv(k) ==
  /\ audits[k]["approval"] <= (IF approval[k] = "none" THEN 0 ELSE 1)
  /\ audits[k]["boundary"] <= (IF k \in boundary THEN 1 ELSE 0)
  /\ audits[k]["outbox"] <= (IF outbox[k] = "none" THEN 0 ELSE 1)

\* What a rebuilding handler found before it began to wait stays so.
GoodReq(r, C, A, B) ==
  /\ r \in Request
  /\ r.pc # "idle" => r.item \in Items
  /\ r.pc # "idle" /\ r.op = "approval" => C[r.item] = "candidate_ready"
  /\ r.pc # "idle" /\ r.op = "boundary" => A[r.item] = "approved_for_dispatch"
  /\ r.pc # "idle" /\ r.op = "outbox" => r.item \in B
  /\ r.pc = "write" /\ r.op = "candidate" => r.status # "none"

IInv ==
  /\ TypeOK
  /\ \A k \in Items : Gated(k) /\ AuditInv(k)
  /\ \A a \in Admins : GoodReq(req[a], candidate, approval, boundary)

\* Nothing of item k changes.
SameItem(k) ==
  /\ candidate'[k] = candidate[k] /\ approval'[k] = approval[k]
  /\ k \in boundary' <=> k \in boundary
  /\ outbox'[k] = outbox[k] /\ lease'[k] = lease[k] /\ plan'[k] = plan[k]
  /\ dryRun'[k] = dryRun[k] /\ adapter'[k] = adapter[k]
  /\ results'[k] = results[k] /\ dead'[k] = dead[k] /\ audits'[k] = audits[k]

\* What a request in progress relies on is not taken back.
Forward(k) ==
  /\ candidate[k] = "candidate_ready" => candidate'[k] = "candidate_ready"
  /\ approval[k] = "approved_for_dispatch" => approval'[k] = "approved_for_dispatch"
  /\ k \in boundary => k \in boundary'

-----------------------------------------------------------------------------
LEMMA InitInv == Init => IInv
<1>. SUFFICES ASSUME Init PROVE IInv
  OBVIOUS
<1>. USE DEF Init
<1>1. NoRequest \in Request /\ NoRequest.pc = "idle"
  BY DEF NoRequest, Request
<1>2. 0 \in 0 .. MaxContext /\ 0 \in 0 .. MaxLeases /\ 0 \in 0 .. TTL
  BY ConstantsAssumption
<1>3. TypeOK
  BY <1>1, <1>2 DEF TypeOK, NotLeased
<1>4. \A k \in Items : Gated(k) /\ AuditInv(k)
  BY DEF Gated, AuditInv, Gates
<1>5. \A a \in Admins : GoodReq(req[a], candidate, approval, boundary)
  BY <1>1 DEF GoodReq
<1>. QED
  BY <1>3, <1>4, <1>5 DEF IInv

\* An item nothing happens to keeps its invariant.
LEMMA SameKeeps ==
  ASSUME NEW k \in Items, SameItem(k), Gated(k), AuditInv(k)
  PROVE  Gated(k)' /\ AuditInv(k)' /\ Forward(k)
BY DEF SameItem, Gated, AuditInv, Forward

\* A request in progress stays good.
LEMMA ReqKeeps ==
  ASSUME NEW r, GoodReq(r, candidate, approval, boundary), \A k \in Items : Forward(k)
  PROVE  GoodReq(r, candidate', approval', boundary')
BY DEF GoodReq, Forward

\* A step of one item's gates.
LEMMA GateFrame ==
  ASSUME IInv, TypeOK', NEW k \in Items, \A j \in Items \ {k} : SameItem(j),
         Gated(k)', AuditInv(k)', Forward(k), req' = req
  PROVE  IInv'
<1>1. \A j \in Items : Gated(j)' /\ AuditInv(j)' /\ Forward(j)
  <2>1. ASSUME NEW j \in Items, j # k PROVE Gated(j)' /\ AuditInv(j)' /\ Forward(j)
    BY <2>1, SameKeeps DEF IInv
  <2>. QED
    BY <2>1
<1>2. ASSUME NEW a \in Admins PROVE GoodReq(req[a], candidate, approval, boundary)'
  <2>1. GoodReq(req[a], candidate, approval, boundary)
    BY <1>2 DEF IInv
  <2>2. GoodReq(req[a], candidate', approval', boundary')
    BY <1>1, <2>1, ReqKeeps
  <2>. QED
    BY <2>2
<1>. QED
  BY <1>1, <1>2 DEF IInv

\* A step of a rebuilding handler that leaves it with r.
LEMMA HandlerFrame ==
  ASSUME IInv, TypeOK', NEW k \in Items, \A j \in Items \ {k} : SameItem(j),
         Gated(k)', AuditInv(k)', Forward(k),
         NEW a \in Admins, NEW r, req' = [req EXCEPT ![a] = r],
         GoodReq(r, candidate', approval', boundary')
  PROVE  IInv'
<1>1. \A j \in Items : Gated(j)' /\ AuditInv(j)' /\ Forward(j)
  <2>1. ASSUME NEW j \in Items, j # k PROVE Gated(j)' /\ AuditInv(j)' /\ Forward(j)
    BY <2>1, SameKeeps DEF IInv
  <2>. QED
    BY <2>1
<1>2. ASSUME NEW b \in Admins PROVE GoodReq(req[b], candidate, approval, boundary)'
  <2>1. GoodReq(req[b], candidate, approval, boundary)
    BY <1>2 DEF IInv
  <2>2. GoodReq(req[b], candidate', approval', boundary')
    BY <1>1, <2>1, ReqKeeps
  <2>3. req \in [Admins -> Request]
    BY DEF IInv, TypeOK
  <2>4. req'[b] = IF b = a THEN r ELSE req[b]
    BY <2>3
  <2>5. GoodReq(req'[b], candidate', approval', boundary')
    BY <2>2, <2>4
  <2>. QED
    BY <2>5
<1>. QED
  BY <1>1, <1>2 DEF IInv

-----------------------------------------------------------------------------
(* The handlers.                                                           *)

\* A support event changes; no record of the workflow does.
LEMMA EnvironmentKeeps ==
  ASSUME IInv, NEW e \in Events, Moderate(e) \/ Resolve(e) \/ SupportAgain(e)
  PROVE  IInv'
<1>1. UNCHANGED <<gates, work, req, audits>>
  BY DEF Moderate, Resolve, SupportAgain
<1>2. /\ approved' \in [Events -> BOOLEAN] /\ blocked' \in [Events -> BOOLEAN]
      /\ count' \in [Events -> 0 .. MaxContext]
  <2>1. CASE Moderate(e)
    BY <2>1 DEF Moderate, IInv, TypeOK
  <2>2. CASE Resolve(e)
    BY <2>2 DEF Resolve, IInv, TypeOK
  <2>3. CASE SupportAgain(e)
    BY <2>3, ConstantsAssumption DEF SupportAgain, IInv, TypeOK
  <2>. QED
    BY <2>1, <2>2, <2>3
<1>3. TypeOK'
  BY <1>1, <1>2 DEF IInv, TypeOK, gates, work
<1>4. \A k \in Items : Gated(k)' /\ AuditInv(k)'
  BY <1>1 DEF IInv, Gated, AuditInv, gates, work
<1>5. \A a \in Admins : GoodReq(req[a], candidate, approval, boundary)'
  BY <1>1 DEF IInv, GoodReq, gates
<1>. QED
  BY <1>3, <1>4, <1>5 DEF IInv

\* A step that leaves the records alone and handler a with request r.
LEMMA RequestKeeps ==
  ASSUME IInv, NEW a \in Admins, NEW r, req' = [req EXCEPT ![a] = r],
         GoodReq(r, candidate, approval, boundary), UNCHANGED <<event, gates, work, audits>>
  PROVE  IInv'
<1>1. TypeOK'
  BY DEF IInv, TypeOK, GoodReq, event, gates, work
<1>2. \A k \in Items : Gated(k)' /\ AuditInv(k)'
  BY DEF IInv, Gated, AuditInv, gates, work
<1>3. \A b \in Admins : GoodReq(req[b], candidate, approval, boundary)'
  BY DEF IInv, TypeOK, GoodReq, gates
<1>. QED
  BY <1>1, <1>2, <1>3 DEF IInv

\* A request that begins has seen the record it needs.
LEMMA StartKeeps ==
  ASSUME IInv, NEW a \in Admins, NEW op \in {"candidate"} \cup Gates, NEW k \in Items, Start(a, op, k),
         op = "approval" => candidate[k] = "candidate_ready",
         op = "boundary" => approval[k] = "approved_for_dispatch",
         op = "outbox" => k \in boundary
  PROVE  IInv'
<1>. DEFINE r == [op |-> op, item |-> k, status |-> "none", pc |-> "rebuild"]
<1>1. GoodReq(r, candidate, approval, boundary)
  BY DEF GoodReq, Request
<1>. HIDE DEF r
<1>2. req' = [req EXCEPT ![a] = r]
  BY DEF Start, r
<1>. QED
  BY <1>1, <1>2, RequestKeeps DEF Start

\* The idle request is good.
LEMMA NoRequestGood == NoRequest \in Request /\ \A C, A, B : GoodReq(NoRequest, C, A, B)
BY DEF GoodReq, NoRequest, Request

\* The candidate is rebuilt from what was read.
LEMMA RebuildKeeps ==
  ASSUME IInv, NEW a \in Admins, Rebuild(a)
  PROVE  IInv'
<1>. DEFINE k == req[a].item
            e == Event(k)
            status == IF blocked[e] THEN "candidate_blocked" ELSE "candidate_ready"
            i == <<e, count[e]>>
            r1 == [req[a] EXCEPT !.item = i, !.status = status, !.pc = "write"]
            r2 == [req[a] EXCEPT !.pc = "write"]
<1>1. /\ GoodReq(req[a], candidate, approval, boundary) /\ req[a].pc = "rebuild"
      /\ req[a] \in Request /\ k \in Items
  BY DEF IInv, Rebuild, GoodReq
<1>2. PICK r : /\ req' = [req EXCEPT ![a] = r]
               /\ \/ r = r1 /\ req[a].op = "candidate" /\ count[e] \in Contexts
                  \/ r = r2 /\ req[a].op # "candidate"
                  \/ r = NoRequest
  BY DEF Rebuild
<1>3. GoodReq(r, candidate, approval, boundary)
  <2>1. CASE r = r1 /\ req[a].op = "candidate" /\ count[e] \in Contexts
    <3>1. i \in Items
      BY <1>1, <2>1 DEF Items, Event
    <3>2. status \in {"candidate_ready", "candidate_blocked"}
      OBVIOUS
    <3>. HIDE DEF status, i
    <3>3. req[a] \in Request
      BY <1>1
    <3>4. r1 \in Request /\ r1.item = i /\ r1.status = status /\ r1.op = req[a].op
      BY <3>1, <3>2, <3>3 DEF Request
    <3>. HIDE DEF r1
    <3>. QED
      BY <2>1, <3>1, <3>2, <3>4 DEF GoodReq
  <2>2. CASE r = r2 /\ req[a].op # "candidate"
    <3>1. ASSUME NEW s \in Request
          PROVE  LET z == [s EXCEPT !.pc = "write"]
                 IN  z \in Request /\ z.item = s.item /\ z.op = s.op
      BY DEF Request
    <3>2. r2 \in Request /\ r2.item = req[a].item /\ r2.op = req[a].op
      BY <1>1, <3>1
    <3>. HIDE DEF r2
    <3>. QED
      BY <1>1, <2>2, <3>2 DEF GoodReq
  <2>3. CASE r = NoRequest
    BY <2>3, NoRequestGood
  <2>. QED
    BY <1>2, <2>1, <2>2, <2>3
<1>. QED
  BY <1>2, <1>3, RequestKeeps DEF Rebuild

\* One more audit row of one gate.
LEMMA AuditCounts ==
  ASSUME audits \in [Items -> [Gates -> Nat]], NEW k \in Items, NEW g \in Gates, Audited(k, g)
  PROVE  /\ audits' \in [Items -> [Gates -> Nat]]
         /\ \A j \in Items \ {k} : audits'[j] = audits[j]
         /\ audits'[k][g] = audits[k][g] + 1
         /\ \A h \in Gates \ {g} : audits'[k][h] = audits[k][h]
BY DEF Audited

\* What the write of a handler relies on.
LEMMA WriteFacts ==
  ASSUME IInv, NEW a \in Admins, NEW op, Writing(a, op)
  PROVE  /\ req[a].item \in Items
         /\ GoodReq(req[a], candidate, approval, boundary)
         /\ Gated(req[a].item) /\ AuditInv(req[a].item)
BY DEF IInv, Writing, GoodReq

LEMMA WriteCandidateKeeps ==
  ASSUME IInv, NEW a \in Admins, WriteCandidate(a)
  PROVE  IInv'
<1>a. PICK k \in Items : k = req[a].item
  BY WriteFacts DEF WriteCandidate
<1>0. Gated(k) /\ AuditInv(k) /\ req[a].status \in {"candidate_ready", "candidate_blocked"}
  BY <1>a, WriteFacts DEF WriteCandidate, Writing, GoodReq, Request
<1>1. /\ candidate' \in [Items -> {"none", "candidate_ready", "candidate_blocked"}]
      /\ \A j \in Items \ {k} : candidate'[j] = candidate[j]
      /\ candidate[k] # "none" => candidate'[k] = candidate[k]
  BY <1>0, <1>a DEF WriteCandidate, IInv, TypeOK
<1>2. /\ req' = [req EXCEPT ![a] = NoRequest] /\ UNCHANGED <<event, approval, boundary, outbox, work, audits>>
  BY DEF WriteCandidate, Answer
<1>3. TypeOK'
  BY <1>1, <1>2, NoRequestGood DEF IInv, TypeOK, event, work
<1>4. \A j \in Items \ {k} : SameItem(j)
  BY <1>1, <1>2 DEF SameItem, work
<1>5. Gated(k)' /\ AuditInv(k)' /\ Forward(k)
  BY <1>0, <1>1, <1>2 DEF Gated, AuditInv, Forward, work
<1>6. GoodReq(NoRequest, candidate', approval', boundary')
  BY NoRequestGood
<1>. QED
  BY <1>0, <1>2, <1>3, <1>4, <1>5, <1>6, HandlerFrame

LEMMA WriteApprovalKeeps ==
  ASSUME IInv, NEW a \in Admins, WriteApproval(a)
  PROVE  IInv'
<1>a. PICK k \in Items : k = req[a].item
  BY WriteFacts DEF WriteApproval
<1>0. Gated(k) /\ AuditInv(k) /\ candidate[k] = "candidate_ready"
  BY <1>a, WriteFacts DEF WriteApproval, Writing, GoodReq
<1>1. /\ approval' \in [Items -> {"none", "approved_for_dispatch", "rejected_by_admin"}]
      /\ \A j \in Items \ {k} : approval'[j] = approval[j]
      /\ approval'[k] = IF approval[k] = "none" THEN "approved_for_dispatch" ELSE approval[k]
  BY <1>0, <1>a DEF WriteApproval, IInv, TypeOK
<1>2. /\ req' = [req EXCEPT ![a] = NoRequest] /\ UNCHANGED <<event, candidate, boundary, outbox, work>>
  BY DEF WriteApproval, Answer
<1>7. IF approval[k] = "none" THEN Audited(k, "approval") ELSE UNCHANGED audits
  BY <1>a DEF WriteApproval
<1>8. /\ audits' \in [Items -> [Gates -> Nat]] /\ \A j \in Items \ {k} : audits'[j] = audits[j]
      /\ audits'[k]["approval"] = IF approval[k] = "none" THEN audits[k]["approval"] + 1 ELSE audits[k]["approval"]
      /\ audits'[k]["boundary"] = audits[k]["boundary"] /\ audits'[k]["outbox"] = audits[k]["outbox"]
  BY <1>0, <1>7, AuditCounts DEF IInv, TypeOK, Gates
<1>9. audits[k]["approval"] \in Nat
  BY <1>0 DEF IInv, TypeOK, Gates
<1>3. TypeOK'
  BY <1>1, <1>2, <1>8, NoRequestGood DEF IInv, TypeOK, event, work
<1>4. \A j \in Items \ {k} : SameItem(j)
  BY <1>1, <1>2, <1>8 DEF SameItem, work
<1>5. Gated(k)' /\ Forward(k)
  BY <1>0, <1>1, <1>2 DEF Gated, Forward, work
<1>10. AuditInv(k)'
  BY <1>0, <1>1, <1>2, <1>8, <1>9 DEF AuditInv
<1>6. GoodReq(NoRequest, candidate', approval', boundary')
  BY NoRequestGood
<1>. QED
  BY <1>0, <1>2, <1>3, <1>4, <1>5, <1>6, <1>10, HandlerFrame

LEMMA WriteBoundaryKeeps ==
  ASSUME IInv, NEW a \in Admins, WriteBoundary(a)
  PROVE  IInv'
<1>a. PICK k \in Items : k = req[a].item
  BY WriteFacts DEF WriteBoundary
<1>0. Gated(k) /\ AuditInv(k) /\ approval[k] = "approved_for_dispatch"
  BY <1>a, WriteFacts DEF WriteBoundary, Writing, GoodReq
<1>1. boundary' = boundary \cup {k}
  BY <1>a DEF WriteBoundary
<1>2. /\ req' = [req EXCEPT ![a] = NoRequest] /\ UNCHANGED <<event, candidate, approval, outbox, work>>
  BY DEF WriteBoundary, Answer
<1>7. IF k \notin boundary THEN Audited(k, "boundary") ELSE UNCHANGED audits
  BY <1>a DEF WriteBoundary
<1>8. /\ audits' \in [Items -> [Gates -> Nat]] /\ \A j \in Items \ {k} : audits'[j] = audits[j]
      /\ audits'[k]["boundary"] = IF k \notin boundary THEN audits[k]["boundary"] + 1 ELSE audits[k]["boundary"]
      /\ audits'[k]["approval"] = audits[k]["approval"] /\ audits'[k]["outbox"] = audits[k]["outbox"]
  BY <1>0, <1>7, AuditCounts DEF IInv, TypeOK, Gates
<1>9. audits[k]["boundary"] \in Nat
  BY <1>0 DEF IInv, TypeOK, Gates
<1>3. TypeOK'
  BY <1>0, <1>1, <1>2, <1>8, NoRequestGood DEF IInv, TypeOK, event, work
<1>4. \A j \in Items \ {k} : SameItem(j)
  BY <1>1, <1>2, <1>8 DEF SameItem, work
<1>5. Gated(k)' /\ Forward(k)
  BY <1>0, <1>1, <1>2 DEF Gated, Forward, work
<1>10. AuditInv(k)'
  BY <1>0, <1>1, <1>2, <1>8, <1>9 DEF AuditInv
<1>6. GoodReq(NoRequest, candidate', approval', boundary')
  BY NoRequestGood
<1>. QED
  BY <1>0, <1>2, <1>3, <1>4, <1>5, <1>6, <1>10, HandlerFrame

LEMMA WriteOutboxKeeps ==
  ASSUME IInv, NEW a \in Admins, WriteOutbox(a)
  PROVE  IInv'
<1>a. PICK k \in Items : k = req[a].item
  BY WriteFacts DEF WriteOutbox
<1>0. Gated(k) /\ AuditInv(k) /\ k \in boundary
  BY <1>a, WriteFacts DEF WriteOutbox, Writing, GoodReq
<1>1. /\ outbox' \in [Items -> {"none", "queued_internal", "cancelled_internal"}]
      /\ \A j \in Items \ {k} : outbox'[j] = outbox[j]
      /\ outbox'[k] = IF outbox[k] = "none" THEN "queued_internal" ELSE outbox[k]
  BY <1>0, <1>a DEF WriteOutbox, IInv, TypeOK
<1>2. /\ req' = [req EXCEPT ![a] = NoRequest] /\ UNCHANGED <<event, candidate, approval, boundary, work>>
  BY DEF WriteOutbox, Answer
<1>7. IF outbox[k] = "none" THEN Audited(k, "outbox") ELSE UNCHANGED audits
  BY <1>a DEF WriteOutbox
<1>8. /\ audits' \in [Items -> [Gates -> Nat]] /\ \A j \in Items \ {k} : audits'[j] = audits[j]
      /\ audits'[k]["outbox"] = IF outbox[k] = "none" THEN audits[k]["outbox"] + 1 ELSE audits[k]["outbox"]
      /\ audits'[k]["approval"] = audits[k]["approval"] /\ audits'[k]["boundary"] = audits[k]["boundary"]
  BY <1>0, <1>7, AuditCounts DEF IInv, TypeOK, Gates
<1>9. audits[k]["outbox"] \in Nat
  BY <1>0 DEF IInv, TypeOK, Gates
<1>3. TypeOK'
  BY <1>1, <1>2, <1>8, NoRequestGood DEF IInv, TypeOK, event, work
<1>4. \A j \in Items \ {k} : SameItem(j)
  BY <1>1, <1>2, <1>8 DEF SameItem, work
<1>5. Gated(k)' /\ Forward(k)
  BY <1>0, <1>1, <1>2 DEF Gated, Forward, work
<1>10. AuditInv(k)'
  BY <1>0, <1>1, <1>2, <1>8, <1>9 DEF AuditInv
<1>6. GoodReq(NoRequest, candidate', approval', boundary')
  BY NoRequestGood
<1>. QED
  BY <1>0, <1>2, <1>3, <1>4, <1>5, <1>6, <1>10, HandlerFrame

-----------------------------------------------------------------------------
(* The gates of an item.                                                   *)

LEMMA RejectCandidateKeeps ==
  ASSUME IInv, NEW k \in Items, RejectCandidate(k)
  PROVE  IInv'
<1>1. /\ approval' \in [Items -> {"none", "approved_for_dispatch", "rejected_by_admin"}]
      /\ \A j \in Items \ {k} : approval'[j] = approval[j]
      /\ approval[k] = "none" /\ approval'[k] = "rejected_by_admin" /\ candidate[k] = "candidate_ready"
  BY DEF RejectCandidate, IInv, TypeOK
<1>2. UNCHANGED <<event, candidate, boundary, outbox, work, req>> /\ Audited(k, "approval")
  BY DEF RejectCandidate
<1>3. /\ audits' \in [Items -> [Gates -> Nat]] /\ \A j \in Items \ {k} : audits'[j] = audits[j]
      /\ audits'[k]["approval"] = audits[k]["approval"] + 1 /\ audits[k]["approval"] \in Nat
      /\ audits'[k]["boundary"] = audits[k]["boundary"] /\ audits'[k]["outbox"] = audits[k]["outbox"]
  BY <1>2, AuditCounts DEF IInv, TypeOK, Gates
<1>4. TypeOK'
  BY <1>1, <1>2, <1>3 DEF IInv, TypeOK, event, work
<1>5. \A j \in Items \ {k} : SameItem(j)
  BY <1>1, <1>2, <1>3 DEF SameItem, work
<1>6. Gated(k) /\ AuditInv(k)
  BY DEF IInv
<1>7. Gated(k)' /\ Forward(k)
  BY <1>1, <1>2, <1>6 DEF Gated, Forward, work
<1>8. AuditInv(k)'
  BY <1>1, <1>2, <1>3, <1>6 DEF AuditInv
<1>. QED
  BY <1>2, <1>4, <1>5, <1>7, <1>8, GateFrame

\* What a change of the lease of item k must leave true.
LEMMA LeaseFrame ==
  ASSUME IInv, NEW k \in Items,
         NEW l \in [status : {"not_leased", "leased_internal", "lease_released"},
                    id : 0 .. MaxLeases, left : 0 .. TTL],
         lease' = [lease EXCEPT ![k] = l], l.id >= lease[k].id,
         UNCHANGED <<event, gates, plan, dryRun, adapter, results, dead, req, audits>>
  PROVE  IInv'
<1>1. TypeOK'
  BY DEF IInv, TypeOK, event, gates
<1>2. \A j \in Items \ {k} : SameItem(j)
  BY DEF SameItem, gates, IInv, TypeOK
<1>3. Gated(k) /\ AuditInv(k) /\ lease'[k] = l /\ lease[k].id \in 0 .. MaxLeases /\ plan[k] \in 0 .. MaxLeases
  BY DEF IInv, TypeOK
<1>4. Gated(k)' /\ AuditInv(k)' /\ Forward(k)
  <2>1. plan[k] # 0 => plan[k] <= l.id
    BY <1>3, ConstantsAssumption DEF Gated
  <2>. QED
    BY <1>3, <2>1 DEF Gated, AuditInv, Forward, gates
<1>. QED
  BY <1>1, <1>2, <1>4, GateFrame

\* The records a lease becomes.
LEMMA LeaseRecords ==
  ASSUME IInv, NEW k \in Items
  PROVE  /\ lease[k] \in [status : {"not_leased", "leased_internal", "lease_released"},
                          id : 0 .. MaxLeases, left : 0 .. TTL]
         /\ CreateLease(k) => \E l : /\ lease' = [lease EXCEPT ![k] = l]
                                     /\ l.status = "leased_internal" /\ l.id = lease[k].id + 1 /\ l.left = TTL
                                     /\ l \in [status : {"not_leased", "leased_internal", "lease_released"},
                                               id : 0 .. MaxLeases, left : 0 .. TTL]
         /\ \A id : ExtendLease(k, id) =>
              \E l : /\ lease' = [lease EXCEPT ![k] = l]
                     /\ l.status = lease[k].status /\ l.id = lease[k].id /\ l.left = TTL
                     /\ l \in [status : {"not_leased", "leased_internal", "lease_released"},
                               id : 0 .. MaxLeases, left : 0 .. TTL]
         /\ \A id : ReleaseLease(k, id) =>
              \E l : /\ lease' = [lease EXCEPT ![k] = l]
                     /\ l.status = "lease_released" /\ l.id = lease[k].id /\ l.left = 0
                     /\ l \in [status : {"not_leased", "leased_internal", "lease_released"},
                               id : 0 .. MaxLeases, left : 0 .. TTL]
<1>. DEFINE Lease == [status : {"not_leased", "leased_internal", "lease_released"},
                      id : 0 .. MaxLeases, left : 0 .. TTL]
<1>1. lease[k] \in Lease
  BY DEF IInv, TypeOK
<1>2. TTL \in 0 .. TTL /\ 0 \in 0 .. TTL /\ MaxLeases \in Nat
  BY ConstantsAssumption
<1>3. ASSUME CreateLease(k)
      PROVE  \E l : /\ lease' = [lease EXCEPT ![k] = l] /\ l \in Lease
                    /\ l.status = "leased_internal" /\ l.id = lease[k].id + 1 /\ l.left = TTL
  <2>. DEFINE l == [status |-> "leased_internal", id |-> lease[k].id + 1, left |-> TTL]
  <2>1. l \in Lease
    BY <1>1, <1>2, <1>3 DEF CreateLease
  <2>2. lease' = [lease EXCEPT ![k] = l]
    BY <1>3 DEF CreateLease
  <2>3. l.status = "leased_internal" /\ l.id = lease[k].id + 1 /\ l.left = TTL
    OBVIOUS
  <2>. HIDE DEF l
  <2>. QED
    BY <2>1, <2>2, <2>3
<1>4. ASSUME NEW id, ExtendLease(k, id)
      PROVE  \E l : /\ lease' = [lease EXCEPT ![k] = l] /\ l \in Lease
                    /\ l.status = lease[k].status /\ l.id = lease[k].id /\ l.left = TTL
  <2>. DEFINE l == [lease[k] EXCEPT !.left = TTL]
  <2>1. l \in Lease /\ l.status = lease[k].status /\ l.id = lease[k].id /\ l.left = TTL
    BY <1>1, <1>2
  <2>2. lease' = [lease EXCEPT ![k] = l]
    BY <1>4 DEF ExtendLease
  <2>. HIDE DEF l
  <2>. QED
    BY <2>1, <2>2
<1>5. ASSUME NEW id, ReleaseLease(k, id)
      PROVE  \E l : /\ lease' = [lease EXCEPT ![k] = l] /\ l \in Lease
                    /\ l.status = "lease_released" /\ l.id = lease[k].id /\ l.left = 0
  <2>. DEFINE l == [[lease[k] EXCEPT !.status = "lease_released"] EXCEPT !.left = 0]
  <2>1. l \in Lease /\ l.status = "lease_released" /\ l.id = lease[k].id /\ l.left = 0
    BY <1>1, <1>2
  <2>2. lease' = [lease EXCEPT ![k] = l]
    BY <1>1, <1>5 DEF ReleaseLease, IInv, TypeOK
  <2>. HIDE DEF l
  <2>. QED
    BY <2>1, <2>2
<1>. QED
  BY <1>1, <1>3, <1>4, <1>5

LEMMA LeaseKeeps ==
  ASSUME IInv, NEW k \in Items, NEW id, CreateLease(k) \/ ExtendLease(k, id) \/ ReleaseLease(k, id)
  PROVE  IInv'
<1>1. lease[k].id \in Nat
  BY LeaseRecords, ConstantsAssumption
<1>2. CASE CreateLease(k)
  <2>1. PICK l : /\ lease' = [lease EXCEPT ![k] = l] /\ l.id \in {lease[k].id, lease[k].id + 1}
                 /\ l \in [status : {"not_leased", "leased_internal", "lease_released"},
                           id : 0 .. MaxLeases, left : 0 .. TTL]
    BY <1>2, LeaseRecords
  <2>2. l.id >= lease[k].id
    BY <1>1, <2>1
  <2>3. UNCHANGED <<event, gates, plan, dryRun, adapter, results, dead, req, audits>>
    BY <1>2 DEF CreateLease
  <2>. QED
    BY <2>1, <2>2, <2>3, LeaseFrame
<1>3. CASE ExtendLease(k, id)
  <2>1. PICK l : /\ lease' = [lease EXCEPT ![k] = l] /\ l.id \in {lease[k].id, lease[k].id + 1}
                 /\ l \in [status : {"not_leased", "leased_internal", "lease_released"},
                           id : 0 .. MaxLeases, left : 0 .. TTL]
    BY <1>3, LeaseRecords
  <2>2. l.id >= lease[k].id
    BY <1>1, <2>1
  <2>3. UNCHANGED <<event, gates, plan, dryRun, adapter, results, dead, req, audits>>
    BY <1>3 DEF ExtendLease
  <2>. QED
    BY <2>1, <2>2, <2>3, LeaseFrame
<1>4. CASE ReleaseLease(k, id)
  <2>1. PICK l : /\ lease' = [lease EXCEPT ![k] = l] /\ l.id \in {lease[k].id, lease[k].id + 1}
                 /\ l \in [status : {"not_leased", "leased_internal", "lease_released"},
                           id : 0 .. MaxLeases, left : 0 .. TTL]
    BY <1>4, LeaseRecords
  <2>2. l.id >= lease[k].id
    BY <1>1, <2>1
  <2>3. UNCHANGED <<event, gates, plan, dryRun, adapter, results, dead, req, audits>>
    BY <1>4 DEF ReleaseLease
  <2>. QED
    BY <2>1, <2>2, <2>3, LeaseFrame
<1>. QED
  BY <1>2, <1>3, <1>4

\* Time passes for the active leases.
LEMMA TickedLeases ==
  ASSUME IInv, Tick
  PROVE  \A k \in Items : /\ lease'[k].id = lease[k].id /\ lease'[k].status = lease[k].status
                          /\ lease'[k].left = IF Active(k) THEN lease[k].left - 1 ELSE lease[k].left
                          /\ lease'[k] \in [status : {"not_leased", "leased_internal", "lease_released"},
                                            id : 0 .. MaxLeases, left : 0 .. TTL]
<1>. SUFFICES ASSUME NEW k \in Items
              PROVE  /\ lease'[k].id = lease[k].id /\ lease'[k].status = lease[k].status
                     /\ lease'[k].left = IF Active(k) THEN lease[k].left - 1 ELSE lease[k].left
                     /\ lease'[k] \in [status : {"not_leased", "leased_internal", "lease_released"},
                                       id : 0 .. MaxLeases, left : 0 .. TTL]
  OBVIOUS
<1>1. lease[k] \in [status : {"not_leased", "leased_internal", "lease_released"},
                    id : 0 .. MaxLeases, left : 0 .. TTL]
  BY DEF IInv, TypeOK
<1>2. CASE Active(k)
  <2>. DEFINE l == [lease[k] EXCEPT !.left = @ - 1]
  <2>1. lease[k].left - 1 \in 0 .. TTL
    BY <1>1, <1>2, ConstantsAssumption DEF Active
  <2>2. l.id = lease[k].id /\ l.status = lease[k].status /\ l.left = lease[k].left - 1
    BY <1>1
  <2>3. l \in [status : {"not_leased", "leased_internal", "lease_released"},
               id : 0 .. MaxLeases, left : 0 .. TTL]
    BY <1>1, <2>1
  <2>4. lease'[k] = l
    BY <1>2 DEF Tick
  <2>. HIDE DEF l
  <2>. QED
    BY <1>2, <2>2, <2>3, <2>4
<1>3. CASE ~Active(k)
  <2>1. lease'[k] = lease[k]
    BY <1>3 DEF Tick
  <2>. QED
    BY <1>1, <1>3, <2>1
<1>. QED
  BY <1>2, <1>3

LEMMA TickKeeps ==
  ASSUME IInv, Tick
  PROVE  IInv'
<1>1. UNCHANGED <<event, gates, plan, dryRun, adapter, results, dead, req, audits>>
  BY DEF Tick
<1>2. TypeOK'
  <2>1. lease' = [k \in Items |-> lease'[k]]
    BY DEF Tick
  <2>. QED
    BY <1>1, <2>1, TickedLeases DEF IInv, TypeOK, event, gates
<1>3. \A k \in Items : Gated(k)' /\ AuditInv(k)'
  BY <1>1, TickedLeases DEF IInv, Gated, AuditInv, gates
<1>4. \A a \in Admins : GoodReq(req[a], candidate, approval, boundary)'
  BY <1>1 DEF IInv, GoodReq, gates
<1>. QED
  BY <1>2, <1>3, <1>4 DEF IInv

\* A plan is made for a queued item under its lease.
LEMMA PlanKeeps ==
  ASSUME IInv, NEW k \in Items, NEW id \in 1 .. MaxLeases, PlanAttempt(k, id)
  PROVE  IInv'
<1>1. UNCHANGED <<event, gates, lease, dryRun, adapter, results, dead, req, audits>>
  BY DEF PlanAttempt
<1>2. /\ plan' \in [Items -> 0 .. MaxLeases] /\ \A j \in Items \ {k} : plan'[j] = plan[j]
      /\ plan'[k] = lease[k].id /\ outbox[k] = "queued_internal" /\ plan[k] = 0
  BY ConstantsAssumption DEF PlanAttempt, Queued, IInv, TypeOK
<1>3. TypeOK'
  BY <1>1, <1>2 DEF IInv, TypeOK, event, gates
<1>4. \A j \in Items \ {k} : SameItem(j)
  BY <1>1, <1>2 DEF SameItem, gates
<1>5. Gated(k) /\ AuditInv(k) /\ lease[k].id \in Nat /\ plan'[k] # 0
  BY <1>2, LeaseRecords, ConstantsAssumption DEF IInv, PlanAttempt
<1>6. Gated(k)' /\ AuditInv(k)' /\ Forward(k)
  BY <1>1, <1>2, <1>5 DEF Gated, AuditInv, Forward, gates
<1>. QED
  BY <1>1, <1>3, <1>4, <1>6, GateFrame

\* A queued item is cancelled.
LEMMA CancelKeeps ==
  ASSUME IInv, NEW k \in Items, Cancel(k)
  PROVE  IInv'
<1>1. UNCHANGED <<event, candidate, approval, boundary, work, req, audits>>
  BY DEF Cancel
<1>2. /\ outbox' \in [Items -> {"none", "queued_internal", "cancelled_internal"}]
      /\ \A j \in Items \ {k} : outbox'[j] = outbox[j]
      /\ outbox'[k] = "cancelled_internal" /\ outbox[k] = "queued_internal"
  BY DEF Cancel, Queued, IInv, TypeOK
<1>3. TypeOK'
  BY <1>1, <1>2 DEF IInv, TypeOK, event, work
<1>4. \A j \in Items \ {k} : SameItem(j)
  BY <1>1, <1>2 DEF SameItem, work
<1>5. Gated(k) /\ AuditInv(k)
  BY DEF IInv
<1>6. Gated(k)' /\ AuditInv(k)' /\ Forward(k)
  BY <1>1, <1>2, <1>5 DEF Gated, AuditInv, Forward, work
<1>. QED
  BY <1>1, <1>3, <1>4, <1>6, GateFrame

\* The dry run is decided.
LEMMA DryRunKeeps ==
  ASSUME IInv, NEW k \in Items, ApproveDryRun(k) \/ RejectDryRun(k)
  PROVE  IInv'
<1>1. UNCHANGED <<event, gates, lease, plan, adapter, results, dead, req, audits>>
  BY DEF ApproveDryRun, RejectDryRun
<1>2. /\ dryRun' \in [Items -> {"none", "approved_for_adapter_execution", "rejected_by_admin"}]
      /\ \A j \in Items \ {k} : dryRun'[j] = dryRun[j]
      /\ dryRun[k] = "none" /\ plan[k] # 0
  BY DEF ApproveDryRun, RejectDryRun, DryRunReady, IInv, TypeOK
<1>3. TypeOK'
  BY <1>1, <1>2 DEF IInv, TypeOK, event, gates
<1>4. \A j \in Items \ {k} : SameItem(j)
  BY <1>1, <1>2 DEF SameItem, gates
<1>5. Gated(k) /\ AuditInv(k)
  BY DEF IInv
<1>6. Gated(k)' /\ AuditInv(k)' /\ Forward(k)
  BY <1>1, <1>2, <1>5 DEF Gated, AuditInv, Forward, gates
<1>. QED
  BY <1>1, <1>3, <1>4, <1>6, GateFrame

\* The adapter execution is decided.
LEMMA AdapterKeeps ==
  ASSUME IInv, NEW k \in Items, ApproveAdapter(k) \/ RejectAdapter(k)
  PROVE  IInv'
<1>1. UNCHANGED <<event, gates, lease, plan, dryRun, results, dead, req, audits>>
  BY DEF ApproveAdapter, RejectAdapter
<1>2. /\ adapter' \in [Items -> {"none", "approved_for_local_simulation", "rejected_by_admin"}]
      /\ \A j \in Items \ {k} : adapter'[j] = adapter[j]
      /\ adapter[k] = "none" /\ dryRun[k] = "approved_for_adapter_execution"
  BY DEF ApproveAdapter, RejectAdapter, PreviewReady, IInv, TypeOK
<1>3. TypeOK'
  BY <1>1, <1>2 DEF IInv, TypeOK, event, gates
<1>4. \A j \in Items \ {k} : SameItem(j)
  BY <1>1, <1>2 DEF SameItem, gates
<1>5. Gated(k) /\ AuditInv(k)
  BY DEF IInv
<1>6. Gated(k)' /\ AuditInv(k)' /\ Forward(k)
  BY <1>1, <1>2, <1>5 DEF Gated, AuditInv, Forward, gates
<1>. QED
  BY <1>1, <1>3, <1>4, <1>6, GateFrame

\* A case is simulated, or its failure dead-lettered.
LEMMA ResultsKeep ==
  ASSUME IInv, NEW k \in Items, NEW c \in Cases, Simulate(k, c) \/ DeadLetter(k, c)
  PROVE  IInv'
<1>1. UNCHANGED <<event, gates, lease, plan, dryRun, adapter, req, audits>>
  BY DEF Simulate, DeadLetter
<1>2. /\ results' \in [Items -> SUBSET Cases] /\ \A j \in Items \ {k} : results'[j] = results[j]
      /\ dead' \in [Items -> SUBSET Cases] /\ \A j \in Items \ {k} : dead'[j] = dead[j]
      /\ results[k] \subseteq results'[k]
      /\ results'[k] # results[k] => adapter[k] = "approved_for_local_simulation"
      /\ dead'[k] \subseteq dead[k] \cup (results[k] \ {"success"})
  <2>1. CASE Simulate(k, c)
    BY <2>1 DEF Simulate, IInv, TypeOK
  <2>2. CASE DeadLetter(k, c)
    BY <2>2 DEF DeadLetter, IInv, TypeOK
  <2>. QED
    BY <2>1, <2>2
<1>3. TypeOK'
  BY <1>1, <1>2 DEF IInv, TypeOK, event, gates
<1>4. \A j \in Items \ {k} : SameItem(j)
  BY <1>1, <1>2 DEF SameItem, gates
<1>5. Gated(k) /\ AuditInv(k)
  BY DEF IInv
<1>6. Gated(k)' /\ AuditInv(k)' /\ Forward(k)
  BY <1>1, <1>2, <1>5 DEF Gated, AuditInv, Forward, gates
<1>. QED
  BY <1>1, <1>3, <1>4, <1>6, GateFrame

LEMMA HandlerKeeps == ASSUME IInv, NEW a \in Admins, Handler(a) PROVE IInv'
<1>1. ASSUME NEW e \in Events, StartCandidate(a, e) PROVE IInv'
  <2>1. <<e, 0>> \in Items
    BY ConstantsAssumption DEF Items
  <2>. QED
    BY <1>1, <2>1, StartKeeps DEF StartCandidate
<1>2. ASSUME NEW k \in Items, StartApprove(a, k) \/ StartBoundary(a, k) \/ StartEnqueue(a, k) PROVE IInv'
  BY <1>2, StartKeeps DEF StartApprove, StartBoundary, StartEnqueue, Gates
<1>. QED
  BY <1>1, <1>2, RebuildKeeps, WriteCandidateKeeps, WriteApprovalKeeps, WriteBoundaryKeeps,
     WriteOutboxKeeps DEF Handler

LEMMA GateKeeps == ASSUME IInv, NEW k \in Items, Gate(k) PROVE IInv'
BY RejectCandidateKeeps, LeaseKeeps, CancelKeeps, PlanKeeps, DryRunKeeps, AdapterKeeps, ResultsKeep DEF Gate

LEMMA NextInv == IInv /\ [Next]_vars => IInv'
<1>. SUFFICES ASSUME IInv, [Next]_vars PROVE IInv'
  OBVIOUS
<1>1. CASE Environment
  BY <1>1, EnvironmentKeeps DEF Environment
<1>2. CASE UNCHANGED vars
  BY <1>2 DEF vars, event, gates, work, IInv, TypeOK, Gated, AuditInv, GoodReq
<1>. QED
  BY <1>1, <1>2, HandlerKeeps, GateKeeps, TickKeeps DEF Next

\* The records, leases, requests and audit counts keep their types.
THEOREM TypeCorrect == Spec => []TypeOK
<1>1. IInv => TypeOK
  BY DEF IInv
<1>. QED
  BY InitInv, NextInv, <1>1, PTL DEF Spec

\* However requests overlap or are repeated, a decision has one audit row.
THEOREM DecisionsAuditedOnce == Spec => []AuditedOnce
<1>1. IInv => AuditedOnce
  BY DEF IInv, AuditInv, AuditedOnce
<1>. QED
  BY InitInv, NextInv, <1>1, PTL DEF Spec

-----------------------------------------------------------------------------
(* Leases.                                                                 *)

\* What a step may do to the lease of an item.
LeaseStep(k) ==
  \/ lease'[k] = lease[k]
  \/ ~Active(k) /\ lease'[k].id = lease[k].id + 1
  \/ Active(k) /\ lease'[k].id = lease[k].id
       /\ (lease'[k].status = "lease_released" \/ lease'[k].left = TTL \/ lease'[k].left = lease[k].left - 1)
  \/ ~Active(k) /\ lease'[k].id = lease[k].id /\ lease'[k].status = lease[k].status
       /\ lease'[k].left = lease[k].left

LEMMA LeaseSteps ==
  ASSUME IInv, [Next]_vars, NEW k \in Items
  PROVE  LeaseStep(k)
<1>0. lease \in [Items -> [status : {"not_leased", "leased_internal", "lease_released"},
                          id : 0 .. MaxLeases, left : 0 .. TTL]]
  BY DEF IInv, TypeOK
<1>1. ASSUME UNCHANGED lease PROVE LeaseStep(k)
  BY <1>1 DEF LeaseStep
<1>2. ASSUME NEW j \in Items, NEW id, CreateLease(j) \/ ExtendLease(j, id) \/ ReleaseLease(j, id)
      PROVE  LeaseStep(k)
  <2>1. CASE j # k
    <3>1. lease'[k] = lease[k]
      BY <1>0, <1>2, <2>1 DEF CreateLease, ExtendLease, ReleaseLease
    <3>. QED
      BY <3>1 DEF LeaseStep
  <2>2. CASE j = k /\ CreateLease(k)
    <3>1. PICK l : lease' = [lease EXCEPT ![k] = l] /\ l.id = lease[k].id + 1
      BY <2>2, LeaseRecords
    <3>. QED
      BY <1>0, <2>2, <3>1 DEF LeaseStep, CreateLease
  <2>3. CASE j = k /\ ExtendLease(k, id)
    <3>1. PICK l : lease' = [lease EXCEPT ![k] = l] /\ l.id = lease[k].id /\ l.left = TTL
      BY <2>3, LeaseRecords
    <3>. QED
      BY <1>0, <2>3, <3>1 DEF LeaseStep, ExtendLease
  <2>4. CASE j = k /\ ReleaseLease(k, id)
    <3>1. PICK l : lease' = [lease EXCEPT ![k] = l] /\ l.id = lease[k].id /\ l.status = "lease_released"
      BY <2>4, LeaseRecords
    <3>. QED
      BY <1>0, <2>4, <3>1 DEF LeaseStep, ReleaseLease
  <2>. QED
    BY <1>2, <2>1, <2>2, <2>3, <2>4
<1>3. CASE Tick
  BY <1>3, TickedLeases DEF LeaseStep
<1>4. CASE Environment
  BY <1>1, <1>4 DEF Environment, Moderate, Resolve, SupportAgain, work
<1>5. ASSUME NEW a \in Admins, Handler(a) PROVE LeaseStep(k)
  BY <1>1, <1>5 DEF Handler, StartCandidate, StartApprove, StartBoundary, StartEnqueue, Start, Rebuild,
     WriteCandidate, WriteApproval, WriteBoundary, WriteOutbox, work
<1>6. ASSUME NEW j \in Items, Gate(j) PROVE LeaseStep(k)
  <2>1. CASE \/ RejectCandidate(j) \/ Cancel(j) \/ (\E id \in 1 .. MaxLeases : PlanAttempt(j, id))
             \/ ApproveDryRun(j) \/ RejectDryRun(j) \/ ApproveAdapter(j) \/ RejectAdapter(j)
             \/ (\E c \in Cases : Simulate(j, c) \/ DeadLetter(j, c))
    BY <1>1, <2>1 DEF RejectCandidate, Cancel, PlanAttempt, ApproveDryRun, RejectDryRun, ApproveAdapter,
       RejectAdapter, Simulate, DeadLetter, work
  <2>. QED
    BY <1>2, <1>6, <2>1 DEF Gate
<1>7. CASE UNCHANGED vars
  BY <1>1, <1>7 DEF vars, work
<1>. QED
  BY <1>3, <1>4, <1>5, <1>6, <1>7 DEF Next

\* An active lease is only extended, released or used up by time.
THEOREM LeasesKept == Spec => ActiveLeaseKept
<1>1. IInv /\ [Next]_vars =>
        [\A k \in Items : Active(k) =>
           /\ lease'[k].id = lease[k].id
           /\ lease'[k].left < lease[k].left =>
                lease'[k].status = "lease_released" \/ lease'[k].left = lease[k].left - 1]_vars
  <2>. SUFFICES ASSUME IInv, [Next]_vars, NEW k \in Items, Active(k)
                PROVE  /\ lease'[k].id = lease[k].id
                       /\ lease'[k].left < lease[k].left =>
                            lease'[k].status = "lease_released" \/ lease'[k].left = lease[k].left - 1
    OBVIOUS
  <2>1. lease[k].left \in 0 .. TTL /\ TTL \in Nat
    BY LeaseRecords, ConstantsAssumption
  <2>. QED
    BY <2>1, LeaseSteps DEF LeaseStep
<1>. QED
  BY <1>1, InitInv, NextInv, PTL DEF Spec, ActiveLeaseKept

\* Every simulation is made while the item is queued and its plan's lease active.
THEOREM SimulationsUnderLease == Spec => SimulatedUnderLease
<1>1. [Next]_vars =>
        [\A k \in Items : results'[k] # results[k] =>
           Queued(k) /\ Active(k) /\ lease[k].id = plan[k]]_vars
  <2>. SUFFICES ASSUME Next, NEW k \in Items, results'[k] # results[k]
                PROVE  Queued(k) /\ Active(k) /\ lease[k].id = plan[k]
    BY DEF vars, work
  <2>1. ASSUME NEW j \in Items, NEW c \in Cases, Simulate(j, c)
        PROVE  Queued(k) /\ Active(k) /\ lease[k].id = plan[k]
    <3>1. j = k
      BY <2>1 DEF Simulate
    <3>. QED
      BY <2>1, <3>1 DEF Simulate, PreviewReady, DryRunReady
  <2>2. CASE Environment
    BY <2>2 DEF Environment, Moderate, Resolve, SupportAgain, work
  <2>3. CASE \E a \in Admins : Handler(a)
    BY <2>3 DEF Handler, StartCandidate, StartApprove, StartBoundary, StartEnqueue, Start, Rebuild,
       WriteCandidate, WriteApproval, WriteBoundary, WriteOutbox, work
  <2>4. CASE \E j \in Items : Gate(j)
    BY <2>1, <2>4 DEF Gate, RejectCandidate, CreateLease, ExtendLease, ReleaseLease, Cancel, PlanAttempt,
       ApproveDryRun, RejectDryRun, ApproveAdapter, RejectAdapter, DeadLetter, work
  <2>5. CASE Tick
    BY <2>5 DEF Tick
  <2>. QED
    BY <2>2, <2>3, <2>4, <2>5 DEF Next
<1>. QED
  BY <1>1, PTL DEF Spec, SimulatedUnderLease

-----------------------------------------------------------------------------
(* The ladder.                                                             *)

\* What a step of the ladder does to item k.
Proposes(k) == Rung(k) = 0 /\ ~Closed(k) /\ Rung(k)' = 1

Climbs(k) ==
  Rung(k) \in 1 .. 7 /\ ~Closed(k) /\ Rung(k)' = Rung(k) + 1 /\ ~Closed(k)'

Stays(k) == Rung(k)' = Rung(k) /\ (Closed(k) => Closed(k)')

Unmoved(k) == Rung(k)' = Rung(k) /\ (Closed(k) <=> Closed(k)')

LEMMA SameUnmoved ==
  ASSUME NEW k \in Items, SameItem(k)
  PROVE  Unmoved(k)
BY DEF SameItem, Unmoved, Rung, Closed, DryRunReady, Queued, Active

\* A step that moves one item at most is a step of the ladder.
LEMMA OneMoves ==
  ASSUME NEW k \in Items, \A j \in Items \ {k} : Unmoved(j), Proposes(k) \/ Climbs(k) \/ Stays(k)
  PROVE  Ladder!Next
<1>. DEFINE R == [j \in Items |-> Rung(j)]
            R1 == [j \in Items |-> Rung(j)']
            C == [j \in Items |-> Closed(j)]
            C1 == [j \in Items |-> Closed(j)']
<1>1. \A j \in Items : (Closed(j) \in BOOLEAN) /\ (Closed(j)' \in BOOLEAN)
  BY DEF Closed
<1>2. \A j \in Items : R[j] = Rung(j) /\ R1[j] = Rung(j)' /\ C[j] = Closed(j) /\ C1[j] = Closed(j)'
  OBVIOUS
<1>3. C \in [Items -> BOOLEAN] /\ C1 \in [Items -> BOOLEAN]
  BY <1>1
<1>4. R' = R1 /\ C' = C1
  OBVIOUS
<1>5. \A j \in Items \ {k} : R1[j] = R[j] /\ C1[j] = C[j]
  <2>. SUFFICES ASSUME NEW j \in Items \ {k} PROVE R1[j] = R[j] /\ C1[j] = C[j]
    OBVIOUS
  <2>1. Rung(j)' = Rung(j) /\ (Closed(j) <=> Closed(j)')
    BY DEF Unmoved
  <2>2. Closed(j) = Closed(j)'
    BY <1>1, <2>1
  <2>. QED
    BY <1>2, <2>1, <2>2
<1>6. DOMAIN R = Items /\ DOMAIN R1 = Items /\ DOMAIN C = Items /\ DOMAIN C1 = Items
  OBVIOUS
<1>7. CASE Proposes(k)
  <2>1. R[k] = 0 /\ ~C[k] /\ R1 = [R EXCEPT ![k] = 1]
    BY <1>2, <1>5, <1>7 DEF Proposes
  <2>2. C1 = [C EXCEPT ![k] = C1[k]] /\ C1[k] \in BOOLEAN
    BY <1>3, <1>5
  <2>3. Ladder!Propose(k)
    BY <1>4, <2>1, <2>2 DEF Ladder!Propose
  <2>. QED
    BY <2>3 DEF Ladder!Next
<1>8. CASE Climbs(k)
  <2>1. R[k] \in 1 .. 7 /\ ~C[k] /\ R1 = [R EXCEPT ![k] = R[k] + 1]
    BY <1>2, <1>5, <1>8 DEF Climbs
  <2>2. C1[k] = C[k]
    BY <1>1, <1>2, <1>8 DEF Climbs
  <2>3. C1 = C
    BY <1>3, <1>5, <2>2
  <2>4. Ladder!Climb(k)
    BY <1>4, <2>1, <2>3 DEF Ladder!Climb, Ladder!Top
  <2>. QED
    BY <2>4 DEF Ladder!Next
<1>9. CASE Stays(k)
  <2>1. R1 = R
    BY <1>2, <1>5, <1>9 DEF Stays
  <2>2. \A j \in Items : C[j] => C1[j]
    BY <1>2, <1>5, <1>9 DEF Stays
  <2>3. Ladder!Close
    BY <1>3, <1>4, <2>1, <2>2 DEF Ladder!Close
  <2>. QED
    BY <2>3 DEF Ladder!Next
<1>. QED
  BY <1>7, <1>8, <1>9

\* A step that moves no item up leaves the ladder, or closes items.
LEMMA AllStay ==
  ASSUME \A j \in Items : Stays(j)
  PROVE  Ladder!Next
<1>. DEFINE R == [j \in Items |-> Rung(j)]
            R1 == [j \in Items |-> Rung(j)']
            C == [j \in Items |-> Closed(j)]
            C1 == [j \in Items |-> Closed(j)']
<1>1. \A j \in Items : Closed(j)' \in BOOLEAN
  BY DEF Closed
<1>2. R' = R1 /\ C' = C1 /\ R1 = R
  BY DEF Stays
<1>3. C1 \in [Items -> BOOLEAN] /\ \A j \in Items : C[j] => C1[j]
  BY <1>1 DEF Stays
<1>4. Ladder!Close
  BY <1>2, <1>3 DEF Ladder!Close
<1>. QED
  BY <1>4 DEF Ladder!Next

\* The types a step of item k needs.
LEMMA ItemTypes ==
  ASSUME IInv, NEW k \in Items
  PROVE  /\ Gated(k)
         /\ candidate[k] \in {"none", "candidate_ready", "candidate_blocked"}
         /\ approval[k] \in {"none", "approved_for_dispatch", "rejected_by_admin"}
         /\ outbox[k] \in {"none", "queued_internal", "cancelled_internal"}
         /\ plan[k] \in Nat /\ lease[k].id \in Nat /\ lease[k].left \in Nat
         /\ dryRun[k] \in {"none", "approved_for_adapter_execution", "rejected_by_admin"}
         /\ adapter[k] \in {"none", "approved_for_local_simulation", "rejected_by_admin"}
BY ConstantsAssumption DEF IInv, TypeOK

\* The records the ladder is made of, for items a step leaves alone.
SameRecords(k) ==
  /\ candidate'[k] = candidate[k] /\ approval'[k] = approval[k]
  /\ k \in boundary' <=> k \in boundary
  /\ outbox'[k] = outbox[k] /\ lease'[k] = lease[k] /\ plan'[k] = plan[k]
  /\ dryRun'[k] = dryRun[k] /\ adapter'[k] = adapter[k] /\ results'[k] = results[k]

LEMMA SameRecordsUnmoved ==
  ASSUME NEW k \in Items, SameRecords(k)
  PROVE  Unmoved(k)
BY DEF SameRecords, Unmoved, Rung, Closed, DryRunReady, Queued, Active

LEMMA StaysStutters ==
  ASSUME \A j \in Items : Unmoved(j)
  PROVE  Ladder!Next
BY AllStay DEF Unmoved, Stays

\* The writes of the handlers.
LEMMA WritesClimb ==
  ASSUME IInv, NEW a \in Admins,
         WriteCandidate(a) \/ WriteApproval(a) \/ WriteBoundary(a) \/ WriteOutbox(a)
  PROVE  Ladder!Next
<1>a. PICK k \in Items : k = req[a].item
  BY WriteFacts DEF WriteCandidate, WriteApproval, WriteBoundary, WriteOutbox
<1>0. Gated(k) /\ GoodReq(req[a], candidate, approval, boundary)
      /\ candidate[k] \in {"none", "candidate_ready", "candidate_blocked"}
      /\ approval[k] \in {"none", "approved_for_dispatch", "rejected_by_admin"}
      /\ outbox[k] \in {"none", "queued_internal", "cancelled_internal"}
  BY ItemTypes DEF IInv
<1>. USE DEF SameRecords, Proposes, Climbs, Stays, Rung, Closed, Gated, work
<1>1. CASE WriteCandidate(a)
  <2>1. UNCHANGED <<approval, boundary, outbox, work>> /\ \A j \in Items \ {k} : candidate'[j] = candidate[j]
    BY <1>1, <1>a DEF WriteCandidate
  <2>2. candidate'[k] = IF candidate[k] = "none" THEN req[a].status ELSE candidate[k]
    BY <1>1, <1>a DEF WriteCandidate, IInv, TypeOK
  <2>3. req[a].status \in {"candidate_ready", "candidate_blocked"}
    BY <1>0, <1>1 DEF WriteCandidate, Writing, GoodReq, Request
  <2>4. \A j \in Items \ {k} : Unmoved(j)
    BY <2>1, SameRecordsUnmoved
  <2>5. Proposes(k) \/ Stays(k)
    BY <1>0, <2>1, <2>2, <2>3 DEF DryRunReady, Queued, Active
  <2>. QED
    BY <2>4, <2>5, OneMoves
<1>2. CASE WriteApproval(a)
  <2>1. UNCHANGED <<candidate, boundary, outbox, work>> /\ \A j \in Items \ {k} : approval'[j] = approval[j]
    BY <1>2, <1>a DEF WriteApproval
  <2>2. approval'[k] = IF approval[k] = "none" THEN "approved_for_dispatch" ELSE approval[k]
    BY <1>2, <1>a DEF WriteApproval, IInv, TypeOK
  <2>3. candidate[k] = "candidate_ready"
    BY <1>0, <1>2, <1>a DEF WriteApproval, Writing, GoodReq
  <2>4. \A j \in Items \ {k} : Unmoved(j)
    BY <2>1, SameRecordsUnmoved
  <2>5. Climbs(k) \/ Stays(k)
    BY <1>0, <2>1, <2>2, <2>3 DEF DryRunReady, Queued, Active
  <2>. QED
    BY <2>4, <2>5, OneMoves
<1>3. CASE WriteBoundary(a)
  <2>1. UNCHANGED <<candidate, approval, outbox, work>> /\ boundary' = boundary \cup {k}
    BY <1>3, <1>a DEF WriteBoundary
  <2>3. approval[k] = "approved_for_dispatch"
    BY <1>0, <1>3, <1>a DEF WriteBoundary, Writing, GoodReq
  <2>4. \A j \in Items \ {k} : Unmoved(j)
    BY <2>1, SameRecordsUnmoved
  <2>5. Climbs(k) \/ Stays(k)
    BY <1>0, <2>1, <2>3 DEF DryRunReady, Queued, Active
  <2>. QED
    BY <2>4, <2>5, OneMoves
<1>4. CASE WriteOutbox(a)
  <2>1. UNCHANGED <<candidate, approval, boundary, work>> /\ \A j \in Items \ {k} : outbox'[j] = outbox[j]
    BY <1>4, <1>a DEF WriteOutbox
  <2>2. outbox'[k] = IF outbox[k] = "none" THEN "queued_internal" ELSE outbox[k]
    BY <1>4, <1>a DEF WriteOutbox, IInv, TypeOK
  <2>3. k \in boundary
    BY <1>0, <1>4, <1>a DEF WriteOutbox, Writing, GoodReq
  <2>4. \A j \in Items \ {k} : Unmoved(j)
    BY <2>1, SameRecordsUnmoved
  <2>5. Climbs(k) \/ Stays(k)
    BY <1>0, <2>1, <2>2, <2>3 DEF DryRunReady, Queued, Active
  <2>. QED
    BY <2>4, <2>5, OneMoves
<1>. QED
  BY <1>1, <1>2, <1>3, <1>4

\* Steps that leave every record of the ladder alone.
LEMMA OthersStutter ==
  ASSUME UNCHANGED <<candidate, approval, boundary, outbox, lease, plan, dryRun, adapter, results>>
  PROVE  Ladder!Next
<1>1. \A j \in Items : SameRecords(j)
  BY DEF SameRecords
<1>. QED
  BY <1>1, SameRecordsUnmoved, StaysStutters

\* Steps of the leases close items and move none up.
LEMMA LeasesClose ==
  ASSUME IInv, [Next]_vars,
         UNCHANGED <<candidate, approval, boundary, outbox, plan, dryRun, adapter, results>>
  PROVE  Ladder!Next
<1>1. ASSUME NEW k \in Items PROVE Stays(k)
  <2>1. LeaseStep(k) /\ plan[k] \in Nat /\ lease[k].id \in Nat /\ lease[k].left \in Nat
        /\ (plan[k] # 0 => plan[k] <= lease[k].id)
    BY <1>1, LeaseSteps, ItemTypes DEF Gated
  <2>2. Rung(k)' = Rung(k)
    BY DEF Rung
  <2>3. ASSUME plan[k] # 0, ~DryRunReady(k) PROVE ~DryRunReady(k)'
    BY <2>1, <2>3 DEF DryRunReady, Active, Queued, LeaseStep
  <2>4. Closed(k) => Closed(k)'
    BY <2>3 DEF Closed
  <2>. QED
    BY <2>2, <2>4 DEF Stays
<1>. QED
  BY <1>1, AllStay

\* The decisions on an item.
LEMMA GatesClimb ==
  ASSUME IInv, NEW k \in Items,
         \/ RejectCandidate(k) \/ Cancel(k) \/ (\E id \in 1 .. MaxLeases : PlanAttempt(k, id))
         \/ ApproveDryRun(k) \/ RejectDryRun(k) \/ ApproveAdapter(k) \/ RejectAdapter(k)
         \/ (\E c \in Cases : Simulate(k, c))
  PROVE  Ladder!Next
<1>0. /\ Gated(k)
      /\ candidate[k] \in {"none", "candidate_ready", "candidate_blocked"}
      /\ approval[k] \in {"none", "approved_for_dispatch", "rejected_by_admin"}
      /\ outbox[k] \in {"none", "queued_internal", "cancelled_internal"}
      /\ plan[k] \in Nat /\ lease[k].id \in Nat /\ lease[k].left \in Nat
      /\ dryRun[k] \in {"none", "approved_for_adapter_execution", "rejected_by_admin"}
      /\ adapter[k] \in {"none", "approved_for_local_simulation", "rejected_by_admin"}
  BY ItemTypes
<1>. USE DEF SameRecords, Climbs, Stays, Rung, Closed, Gated, gates
<1>1. CASE RejectCandidate(k)
  <2>1. UNCHANGED <<candidate, boundary, outbox, work>> /\ \A j \in Items \ {k} : approval'[j] = approval[j]
    BY <1>1 DEF RejectCandidate
  <2>2. approval'[k] = "rejected_by_admin" /\ approval[k] = "none"
    BY <1>1 DEF RejectCandidate, IInv, TypeOK
  <2>3. \A j \in Items \ {k} : Unmoved(j)
    BY <2>1, SameRecordsUnmoved DEF work
  <2>4. Stays(k)
    BY <1>0, <2>1, <2>2 DEF work
  <2>. QED
    BY <2>3, <2>4, OneMoves
<1>2. CASE Cancel(k)
  <2>1. UNCHANGED <<candidate, approval, boundary, work>> /\ \A j \in Items \ {k} : outbox'[j] = outbox[j]
    BY <1>2 DEF Cancel
  <2>2. outbox'[k] = "cancelled_internal" /\ outbox[k] # "none"
    BY <1>2 DEF Cancel, Queued, IInv, TypeOK
  <2>3. \A j \in Items \ {k} : Unmoved(j)
    BY <2>1, SameRecordsUnmoved DEF work
  <2>4. Stays(k)
    BY <1>0, <2>1, <2>2 DEF work
  <2>. QED
    BY <2>3, <2>4, OneMoves
<1>3. ASSUME NEW id \in 1 .. MaxLeases, PlanAttempt(k, id) PROVE Ladder!Next
  <2>1. UNCHANGED <<gates, lease, dryRun, adapter, results>> /\ \A j \in Items \ {k} : plan'[j] = plan[j]
    BY <1>3 DEF PlanAttempt
  <2>2. plan'[k] = id /\ id # 0 /\ plan[k] = 0 /\ Queued(k) /\ Active(k) /\ id = lease[k].id
    BY <1>3, ConstantsAssumption DEF PlanAttempt, IInv, TypeOK
  <2>3. \A j \in Items \ {k} : Unmoved(j)
    BY <2>1, SameRecordsUnmoved
  <2>4. Climbs(k)
    BY <1>0, <2>1, <2>2 DEF DryRunReady, Queued, Active
  <2>. QED
    BY <2>3, <2>4, OneMoves
<1>4. CASE ApproveDryRun(k) \/ RejectDryRun(k)
  <2>0. PICK d \in {"approved_for_adapter_execution", "rejected_by_admin"} :
          /\ dryRun' = [dryRun EXCEPT ![k] = d]
          /\ UNCHANGED <<gates, lease, plan, adapter, results>>
    <3>1. CASE ApproveDryRun(k)
      BY <3>1 DEF ApproveDryRun
    <3>2. CASE RejectDryRun(k)
      BY <3>2 DEF RejectDryRun
    <3>. QED
      BY <1>4, <3>1, <3>2
  <2>1. UNCHANGED <<gates, lease, plan, adapter, results>> /\ \A j \in Items \ {k} : dryRun'[j] = dryRun[j]
    BY <2>0
  <2>2. /\ dryRun'[k] \in {"approved_for_adapter_execution", "rejected_by_admin"}
        /\ dryRun[k] = "none" /\ DryRunReady(k)
    BY <1>4 DEF ApproveDryRun, RejectDryRun, IInv, TypeOK
  <2>3. \A j \in Items \ {k} : Unmoved(j)
    BY <2>1, SameRecordsUnmoved
  <2>4. Climbs(k) \/ Stays(k)
    BY <1>0, <2>1, <2>2 DEF DryRunReady, Queued, Active
  <2>. QED
    BY <2>3, <2>4, OneMoves
<1>5. CASE ApproveAdapter(k) \/ RejectAdapter(k)
  <2>0. PICK d \in {"approved_for_local_simulation", "rejected_by_admin"} :
          /\ adapter' = [adapter EXCEPT ![k] = d]
          /\ UNCHANGED <<gates, lease, plan, dryRun, results>>
    <3>1. CASE ApproveAdapter(k)
      BY <3>1 DEF ApproveAdapter
    <3>2. CASE RejectAdapter(k)
      BY <3>2 DEF RejectAdapter
    <3>. QED
      BY <1>5, <3>1, <3>2
  <2>1. UNCHANGED <<gates, lease, plan, dryRun, results>> /\ \A j \in Items \ {k} : adapter'[j] = adapter[j]
    BY <2>0
  <2>2. /\ adapter'[k] \in {"approved_for_local_simulation", "rejected_by_admin"}
        /\ adapter[k] = "none" /\ dryRun[k] = "approved_for_adapter_execution" /\ DryRunReady(k)
    BY <1>5 DEF ApproveAdapter, RejectAdapter, PreviewReady, IInv, TypeOK
  <2>3. \A j \in Items \ {k} : Unmoved(j)
    BY <2>1, SameRecordsUnmoved
  <2>4. Climbs(k) \/ Stays(k)
    BY <1>0, <2>1, <2>2 DEF DryRunReady, Queued, Active
  <2>. QED
    BY <2>3, <2>4, OneMoves
<1>6. ASSUME NEW c \in Cases, Simulate(k, c) PROVE Ladder!Next
  <2>1. UNCHANGED <<gates, lease, plan, dryRun, adapter>> /\ \A j \in Items \ {k} : results'[j] = results[j]
    BY <1>6 DEF Simulate
  <2>2. results'[k] # {} /\ adapter[k] = "approved_for_local_simulation"
        /\ dryRun[k] = "approved_for_adapter_execution" /\ DryRunReady(k)
    BY <1>6 DEF Simulate, PreviewReady, IInv, TypeOK
  <2>3. \A j \in Items \ {k} : Unmoved(j)
    BY <2>1, SameRecordsUnmoved
  <2>4. Climbs(k) \/ Stays(k)
    BY <1>0, <2>1, <2>2 DEF DryRunReady, Queued, Active
  <2>. QED
    BY <2>3, <2>4, OneMoves
<1>. QED
  BY <1>1, <1>2, <1>3, <1>4, <1>5, <1>6

\* Every step of the workflow is a step of the ladder.
LEMMA StepImplements == IInv /\ [Next]_vars => Ladder!Next
<1>. SUFFICES ASSUME IInv, [Next]_vars PROVE Ladder!Next
  OBVIOUS
<1>1. CASE Environment
  BY <1>1, OthersStutter DEF Environment, Moderate, Resolve, SupportAgain, gates, work
<1>2. ASSUME NEW a \in Admins, Handler(a) PROVE Ladder!Next
  <2>1. CASE WriteCandidate(a) \/ WriteApproval(a) \/ WriteBoundary(a) \/ WriteOutbox(a)
    BY <2>1, WritesClimb
  <2>2. CASE ~(WriteCandidate(a) \/ WriteApproval(a) \/ WriteBoundary(a) \/ WriteOutbox(a))
    BY <1>2, <2>2, OthersStutter DEF Handler, StartCandidate, StartApprove, StartBoundary, StartEnqueue,
       Start, Rebuild, gates, work
  <2>. QED
    BY <2>1, <2>2
<1>3. ASSUME NEW k \in Items, Gate(k) PROVE Ladder!Next
  <2>1. CASE CreateLease(k) \/ (\E id \in 1 .. MaxLeases : ExtendLease(k, id) \/ ReleaseLease(k, id))
    BY <2>1, LeasesClose DEF CreateLease, ExtendLease, ReleaseLease, gates
  <2>2. CASE \E c \in Cases : DeadLetter(k, c)
    BY <2>2, OthersStutter DEF DeadLetter, gates
  <2>. QED
    BY <1>3, <2>1, <2>2, GatesClimb DEF Gate
<1>4. CASE Tick
  BY <1>4, LeasesClose DEF Tick, gates
<1>5. CASE UNCHANGED vars
  BY <1>5, OthersStutter DEF vars, gates, work
<1>. QED
  BY <1>1, <1>2, <1>3, <1>4, <1>5 DEF Next

\* The workflow implements the ladder: gates in order, first decisions final,
\* closed items closed for ever.
THEOREM Refinement == Spec => ImplementsLadder
<1>1. Init => Ladder!Init
  BY DEF Init, Ladder!Init, Rung, Closed
<1>2. IInv /\ [Next]_vars => [Ladder!Next]_(Ladder!ladderVars)
  BY StepImplements
<1>. QED
  BY <1>1, <1>2, InitInv, NextInv, PTL DEF Spec, ImplementsLadder, Ladder!Spec

=============================================================================
