------------------------ MODULE SupportPipelineProofs ------------------------
(***************************************************************************)
(* For any number of events, viewers and concurrent requests, whichever    *)
(* calls may reject: the types; affinity fails closed; when only the       *)
(* ingest and review routes are in use, a held event has had no effect;    *)
(* when only guarded calls may reject, an approved event is applied; no    *)
(* viewer is granted an event twice. For one request after another, or     *)
(* reviews of one kind only: rejected events have had no effects and       *)
(* reviews agree with the events. For one request after another: the       *)
(* affinity adds up.                                                       *)
(***************************************************************************)
EXTENDS SupportPipeline, FiniteSetTheorems, TLAPS

\* What a request carries at each of its steps.
Carries(q) ==
  /\ q.pc # "idle" => q.event \in Events /\ q.kind \in Kinds
  /\ q.pc \notin {"idle", "readEvent"} => q.status \in Status
  /\ q.kind = "approve" => q.status = "approved"
  /\ q.kind = "reject" => q.status = "rejected"
  /\ q.pc = "update" => q.kind \in {"approve", "reject", "patch"}
  /\ q.pc \in {"affinity", "affinityDlq"} => Viewer[q.event] \in Viewers

TypeInv == TypeOK /\ \A r \in Requests : Carries(req[r])

\* Init establishes the types.
LEMMA InitTypes == Init => TypeInv
  BY ConstantsAssumption DEF Init, TypeInv, TypeOK, Carries, Request, NoRequest

\* A request that moves on to a step whose demands it meets keeps the types.
LEMMA GotoTypes ==
  ASSUME TypeInv, NEW r \in Requests, NEW pc \in Steps \cup {"idle"}, Goto(r, pc),
         Carries([req[r] EXCEPT !.pc = pc])
  PROVE  req' \in [Requests -> Request] /\ \A s \in Requests : Carries(req'[s])
<1> USE DEF TypeInv, TypeOK
<1>1. req[r] \in Request
  OBVIOUS
<1>2. NoRequest \in Request /\ [req[r] EXCEPT !.pc = pc] \in Request
  BY <1>1 DEF NoRequest, Request
<1>3. Carries(NoRequest)
  BY DEF NoRequest, Carries
<1>4. PICK q \in Request : Carries(q) /\ req' = [req EXCEPT ![r] = q]
  BY <1>2, <1>3 DEF Goto
<1> QED
  BY <1>4

\* A new request starts with what its route demands.
LEMMA SubmitTypes ==
  ASSUME TypeInv, NEW r \in Requests, Submit(r)
  PROVE  TypeInv'
<1>1. PICK q \in Request : Carries(q) /\ req' = [req EXCEPT ![r] = q]
  <2>1. PICK e \in Events :
       \/ "event" \in Kinds /\ SubmitEvent(r, e)
       \/ "ingest" \in Kinds /\ SubmitIngest(r, e)
       \/ "manual" \in Kinds /\ SubmitManual(r, e)
       \/ "approve" \in Kinds /\ SubmitApprove(r, e)
       \/ "reject" \in Kinds /\ SubmitReject(r, e)
       \/ "patch" \in Kinds /\ SubmitPatch(r, e)
    BY DEF Submit
  <2>2. PICK kind \in Kinds, status \in Status \cup {"keep"}, previous \in Nat, pc \in Steps :
          /\ Accept(r, kind, e, status, previous, pc)
          /\ pc \in {"create", "lookup", "review", "readEvent"}
          /\ pc # "readEvent" => status \in Status
          /\ kind = "approve" => status = "approved"
          /\ kind = "reject" => status = "rejected"
    BY <2>1, ConstantsAssumption
    DEF SubmitEvent, SubmitIngest, SubmitManual, SubmitApprove, SubmitReject, SubmitPatch, Status, Steps
  <2>3. [kind |-> kind, event |-> e, status |-> status, previous |-> previous, pc |-> pc] \in Request
    BY ConstantsAssumption DEF Request
  <2>4. Carries([kind |-> kind, event |-> e, status |-> status, previous |-> previous, pc |-> pc])
    BY <2>2 DEF Carries
  <2> QED
    BY <2>2, <2>3, <2>4 DEF Accept
<1> QED
  BY <1>1 DEF Submit, effects, TypeInv, TypeOK

\* Where the effects go on is a step that demands nothing new of the request.
LEMMA WhereTypes ==
  ASSUME TypeInv, NEW r \in Requests, req[r].pc # "idle", req[r].status \in Status
  PROVE  /\ AfterEffects(r) \in {"audit", "idle"}
         /\ OverlayOrReturn(r, req[r].status) \in {"overlayRow", "audit", "idle"}
         /\ ReactionOrReturn(r) \in {"reactionRow", "audit", "idle"}
         /\ BeginEffects(r) \in {"affinity", "overlayRow", "audit", "idle"}
         /\ BeginEffects(r) = "affinity" => Viewer[req[r].event] \in Viewers
  BY ConstantsAssumption
  DEF AfterEffects, OverlayOrReturn, ReactionOrReturn, BeginEffects, Linked, TypeInv, TypeOK, Carries

Free == {"lookup", "readAffinity", "create", "review", "overlayRow", "overlayJob", "overlayDlq",
         "reactionRow", "reactionJob", "reactionDlq", "audit", "idle", "readEvent"}

\* Moving to such a step keeps the types.
LEMMA FreeTypes ==
  ASSUME TypeInv, NEW r \in Requests, NEW pc \in Free, Goto(r, pc),
         req[r].pc \notin {"idle", "readEvent"}
  PROVE  req' \in [Requests -> Request] /\ \A s \in Requests : Carries(req'[s])
<1>1. req[r] \in Request /\ Carries(req[r])
  BY DEF TypeInv, TypeOK
<1>2. pc \in Steps \cup {"idle"}
  BY DEF Free, Steps
<1>3. Carries([req[r] EXCEPT !.pc = pc])
  BY <1>1 DEF Carries, Free, Request
<1> QED
  BY <1>2, <1>3, GotoTypes

\* The effects keep the types.
LEMMA EffectTypes ==
  ASSUME TypeInv, NEW r \in Requests,
         \/ ApplyAffinity(r) \/ CreateOverlayEvent(r) \/ EnqueueOverlay(r)
         \/ CreateReactionRequest(r) \/ EnqueueReaction(r)
         \/ RecordAffinityDlq(r) \/ RecordOverlayDlq(r) \/ RecordReactionDlq(r)
         \/ Caught(r)
  PROVE  TypeInv'
<1>1. req[r] \in Request /\ Carries(req[r])
  BY DEF TypeInv, TypeOK
<1>2. /\ req[r].event \in Events /\ req[r].status \in Status
      /\ req[r].pc \in {"affinity", "affinityDlq", "overlayRow", "overlayJob", "overlayDlq",
                        "reactionRow", "reactionJob", "reactionDlq"}
  BY <1>1
  DEF ApplyAffinity, CreateOverlayEvent, EnqueueOverlay, CreateReactionRequest, EnqueueReaction,
      RecordAffinityDlq, RecordOverlayDlq, RecordReactionDlq, RecordDlq, Caught, AffinityRejects,
      OverlayRejects, ReactionRejects, EnqueueRejects, At, Carries
<1>3. req' \in [Requests -> Request] /\ \A s \in Requests : Carries(req'[s])
  <2>1. \/ \E pc \in Free : Goto(r, pc)
        \/ At(r, "affinity") /\ Goto(r, "affinityDlq")
    BY <1>2, WhereTypes
    DEF ApplyAffinity, CreateOverlayEvent, EnqueueOverlay, CreateReactionRequest, EnqueueReaction,
        RecordAffinityDlq, RecordOverlayDlq, RecordReactionDlq, RecordDlq, Caught, AffinityRejects,
        OverlayRejects, ReactionRejects, EnqueueRejects, Free
  <2>2. CASE At(r, "affinity") /\ Goto(r, "affinityDlq")
    <3>1. Carries([req[r] EXCEPT !.pc = "affinityDlq"])
      BY <1>1, <2>2 DEF Carries, Request, At
    <3> QED
      BY <2>2, <3>1, GotoTypes DEF Steps
  <2> QED
    BY <1>2, <2>1, <2>2, FreeTypes
<1>4. affinity' \in [Viewers -> Nat]
  <2>1. CASE affinity' = affinity
    BY <2>1 DEF TypeInv, TypeOK
  <2>2. CASE At(r, "affinity") /\ EntryAdded(req[r].event, req[r].previous)
    <3>1. req[r].previous + Delta[req[r].event] \in Nat /\ Viewer[req[r].event] \in Viewers
      BY <1>1, <1>2, <2>2, ConstantsAssumption DEF Request, At, Carries
    <3> QED
      BY <2>2, <3>1 DEF EntryAdded, TypeInv, TypeOK
  <2> QED
    BY <2>1, <2>2
    DEF ApplyAffinity, CreateOverlayEvent, EnqueueOverlay, CreateReactionRequest, EnqueueReaction,
        RecordAffinityDlq, RecordOverlayDlq, RecordReactionDlq, RecordDlq, Caught, AffinityRejects,
        OverlayRejects, ReactionRejects, EnqueueRejects
<1>5. /\ support' = support /\ review' = review
      /\ ledger' \subseteq Events /\ overlays' \subseteq Events /\ reactions' \subseteq Events
      /\ jobs' \subseteq {"overlay", "reaction"} \X Events
      /\ dlq' \subseteq {"affinity", "overlay", "reaction"} \X Events
  BY <1>2
  DEF ApplyAffinity, CreateOverlayEvent, EnqueueOverlay, CreateReactionRequest, EnqueueReaction,
      RecordAffinityDlq, RecordOverlayDlq, RecordReactionDlq, RecordDlq, Caught, AffinityRejects,
      OverlayRejects, ReactionRejects, EnqueueRejects, EntryAdded, TypeInv, TypeOK
<1> QED
  BY <1>3, <1>4, <1>5 DEF TypeInv, TypeOK

\* The steps of the routes keep the types.
LEMMA RouteTypes ==
  ASSUME TypeInv, NEW r \in Requests,
         \/ Lookup(r) \/ ReadAffinity(r) \/ CreateSupport(r) \/ ReadReview(r)
         \/ ReadHeldEvent(r) \/ ReadPatchedEvent(r) \/ UpdateSupport(r) \/ WriteAudit(r) \/ Dies(r)
  PROVE  TypeInv'
<1>1. req[r] \in Request /\ Carries(req[r])
  BY DEF TypeInv, TypeOK
<1>2. req[r].pc # "idle" => req[r].event \in Events
  BY <1>1 DEF Carries
<1>3. support' \in [Events -> Status \cup {"none"}] /\ UNCHANGED effects
      => \/ review' \notin [Events -> {"none", "approved", "rejected"}]
         \/ ~(req' \in [Requests -> Request] /\ \A s \in Requests : Carries(req'[s]))
         \/ TypeInv'
  BY DEF TypeInv, TypeOK, effects
<1>4. CASE Lookup(r)
  <2>1. req[r].pc = "lookup" /\ \E pc \in Free : Goto(r, pc)
    BY <1>4 DEF Lookup, At, Free
  <2>2. req' \in [Requests -> Request] /\ \A s \in Requests : Carries(req'[s])
    BY <2>1, FreeTypes
  <2> QED
    BY <1>3, <1>4, <2>2 DEF Lookup, TypeInv, TypeOK
<1>5. CASE ReadReview(r)
  <2>1. req[r].pc = "review" /\ Goto(r, IF review[req[r].event] = "none" THEN "readEvent" ELSE "idle")
    BY <1>5 DEF ReadReview, At
  <2>2. \E pc \in Free : Goto(r, pc)
    BY <2>1 DEF Free
  <2>3. req' \in [Requests -> Request] /\ \A s \in Requests : Carries(req'[s])
    BY <2>1, <2>2, FreeTypes
  <2> QED
    BY <1>3, <1>5, <2>3 DEF ReadReview, TypeInv, TypeOK
<1>6. CASE ReadHeldEvent(r)
  <2>1. PICK pc \in {"readAffinity", "idle"} : Goto(r, pc)
    BY <1>6 DEF ReadHeldEvent
  <2>2. Carries([req[r] EXCEPT !.pc = pc])
    BY <1>1, <1>6, <2>1 DEF ReadHeldEvent, At, Carries, Request, Status
  <2>3. req' \in [Requests -> Request] /\ \A s \in Requests : Carries(req'[s])
    BY <2>1, <2>2, GotoTypes DEF Steps
  <2> QED
    BY <1>3, <1>6, <2>3 DEF ReadHeldEvent, TypeInv, TypeOK
<1>7. CASE ReadPatchedEvent(r)
  <2>1. CASE Goto(r, "idle")
    <3>1. Carries([req[r] EXCEPT !.pc = "idle"])
      BY <1>1 DEF Carries, Request
    <3>2. req' \in [Requests -> Request] /\ \A s \in Requests : Carries(req'[s])
      BY <2>1, <3>1, GotoTypes
    <3> QED
      BY <1>3, <1>7, <3>2 DEF ReadPatchedEvent, TypeInv, TypeOK
  <2>2. CASE ~Goto(r, "idle")
    <3> DEFINE status == IF req[r].status = "keep" THEN support[req[r].event] ELSE req[r].status
               q == [req[r] EXCEPT !.status = status, !.pc = "update"]
    <3>1. /\ req' = [req EXCEPT ![r] = q] /\ support[req[r].event] # "none"
          /\ req[r].kind = "patch" /\ req[r].pc = "readEvent"
      BY <1>7, <2>2 DEF ReadPatchedEvent, At
    <3>2. status \in Status
      BY <1>1, <1>2, <3>1 DEF TypeInv, TypeOK, Request
    <3>3. q \in Request
      BY <1>1, <3>2 DEF Request, Steps
    <3>4. Carries(q)
      BY <1>1, <3>1, <3>2 DEF Carries, Request
    <3>5. req' \in [Requests -> Request] /\ \A s \in Requests : Carries(req'[s])
      BY <3>1, <3>3, <3>4 DEF TypeInv, TypeOK
    <3> QED
      BY <1>3, <1>7, <3>5 DEF ReadPatchedEvent, TypeInv, TypeOK
  <2> QED
    BY <2>1, <2>2
<1>8. CASE ReadAffinity(r)
  <2> DEFINE e == req[r].event
             q == [req[r] EXCEPT !.previous = IF Linked(e) THEN affinity[Viewer[e]] ELSE 0,
                     !.pc = IF req[r].kind \in {"approve", "reject"} THEN "update" ELSE "create"]
  <2>1. req' = [req EXCEPT ![r] = q] /\ req[r].pc = "readAffinity"
    BY <1>8 DEF ReadAffinity, At
  <2>2. (IF Linked(e) THEN affinity[Viewer[e]] ELSE 0) \in Nat
    BY <1>2, <2>1, ConstantsAssumption DEF Linked, TypeInv, TypeOK
  <2>3. q \in Request
    BY <1>1, <2>2 DEF Request, Steps
  <2>4. Carries(q)
    BY <1>1, <2>1 DEF Carries, Request
  <2>5. req' \in [Requests -> Request] /\ \A s \in Requests : Carries(req'[s])
    BY <2>1, <2>3, <2>4 DEF TypeInv, TypeOK
  <2> QED
    BY <1>3, <1>8, <2>5 DEF ReadAffinity, TypeInv, TypeOK
<1>9. ASSUME \/ CreateSupport(r) \/ UpdateSupport(r)
      PROVE  TypeInv'
  <2>1. /\ req[r].pc \in {"create", "update"} /\ req[r].event \in Events /\ req[r].status \in Status
        /\ UNCHANGED <<review, effects>>
    BY <1>1, <1>9 DEF CreateSupport, UpdateSupport, At, Carries
  <2>2. support' \in [Events -> Status \cup {"none"}]
    BY <1>9, <2>1 DEF CreateSupport, UpdateSupport, TypeInv, TypeOK
  <2>3. PICK pc \in {"affinity", "overlayRow", "audit", "idle"} :
          Goto(r, pc) /\ (pc = "affinity" => Viewer[req[r].event] \in Viewers)
    BY <1>9, <2>1, WhereTypes DEF CreateSupport, UpdateSupport
  <2>4. Carries([req[r] EXCEPT !.pc = pc])
    BY <1>1, <2>1, <2>3 DEF Carries, Request
  <2>5. req' \in [Requests -> Request] /\ \A s \in Requests : Carries(req'[s])
    BY <2>3, <2>4, GotoTypes DEF Steps
  <2> QED
    BY <1>3, <2>1, <2>2, <2>5 DEF TypeInv, TypeOK
<1>10. CASE WriteAudit(r)
  <2>1. req[r].pc = "audit" /\ Goto(r, "idle") /\ UNCHANGED <<support, effects>>
    BY <1>10 DEF WriteAudit, At
  <2>2. req' \in [Requests -> Request] /\ \A s \in Requests : Carries(req'[s])
    BY <2>1, FreeTypes DEF Free
  <2>3. review' \in [Events -> {"none", "approved", "rejected"}]
    <3>1. CASE req[r].kind \in {"approve", "reject"}
      <4>1. PICK status \in {review[req[r].event], req[r].status} \ {"none"} :
              review' = [review EXCEPT ![req[r].event] = status]
        BY <1>10, <3>1 DEF WriteAudit
      <4>2. status \in {"approved", "rejected"}
        BY <1>1, <1>2, <2>1, <3>1 DEF Carries, TypeInv, TypeOK
      <4> QED
        BY <4>1, <4>2 DEF TypeInv, TypeOK
    <3>2. CASE req[r].kind \notin {"approve", "reject"}
      BY <1>10, <3>2 DEF WriteAudit, TypeInv, TypeOK
    <3> QED
      BY <3>1, <3>2
  <2> QED
    BY <1>3, <2>1, <2>2, <2>3 DEF TypeInv, TypeOK
<1>11. CASE Dies(r)
  <2>1. Goto(r, "idle") /\ UNCHANGED <<support, review, effects>>
    BY <1>11 DEF Dies
  <2>2. Carries([req[r] EXCEPT !.pc = "idle"])
    BY <1>1 DEF Carries, Request
  <2>3. req' \in [Requests -> Request] /\ \A s \in Requests : Carries(req'[s])
    BY <2>1, <2>2, GotoTypes
  <2> QED
    BY <1>3, <2>1, <2>3 DEF TypeInv, TypeOK
<1> QED
  BY <1>4, <1>5, <1>6, <1>7, <1>8, <1>9, <1>10, <1>11

\* The end of the process leaves no request behind.
LEMMA CrashTypes == TypeInv /\ Crash => TypeInv'
  BY DEF TypeInv, TypeOK, Crash, effects, Carries, Request, NoRequest

\* Every step keeps the types.
LEMMA NextTypes == TypeInv /\ [Next]_vars => TypeInv'
<1>1. ASSUME TypeInv, UNCHANGED vars
      PROVE  TypeInv'
  BY <1>1 DEF vars, effects, TypeInv, TypeOK
<1>2. ASSUME TypeInv, NEW r \in Requests, Step(r)
      PROVE  TypeInv'
  BY <1>2, EffectTypes, RouteTypes, Zenon DEF Step
<1>3. ASSUME TypeInv, NEW r \in Requests, Submit(r) \/ Caught(r) \/ Dies(r)
      PROVE  TypeInv'
  BY <1>3, SubmitTypes, EffectTypes, RouteTypes, Zenon
<1> QED
  BY <1>1, <1>2, <1>3, CrashTypes, Zenon DEF Next

\* Every row, entry, job and dead letter has its type, and so has whatever a
\* request carries, for any number of requests, events and viewers.
THEOREM TypeCorrect == Spec => []TypeOK
<1>1. Spec => []TypeInv
  BY InitTypes, NextTypes, PTL DEF Spec
<1>2. TypeInv => TypeOK
  BY DEF TypeInv
<1> QED
  BY <1>1, <1>2, PTL

-----------------------------------------------------------------------------
(* Affinity fails closed. *)

PastAffinity == {"overlayRow", "overlayJob", "overlayDlq", "reactionRow", "reactionJob", "reactionDlq"}
PastOverlay == PastAffinity \ {"overlayRow"}
PastReaction == {"reactionRow", "reactionJob", "reactionDlq"}

\* The effects that a request has behind it.
Behind(r) ==
  LET q == req[r]
  IN /\ q.pc \in PastAffinity /\ CanApplyAffinity(q.status) /\ Linked(q.event) => q.event \in ledger
     /\ q.pc \in PastOverlay => q.event \in overlays
     /\ q.pc \in PastReaction => CanRequestAiReaction(q.status)
     /\ q.pc \in PastReaction \ {"reactionRow"} => q.event \in reactions

FailClosedInv == TypeInv /\ FailClosed /\ \A r \in Requests : Behind(r)

\* Effects are never undone.
EffectsGrow ==
  /\ ledger \subseteq ledger' /\ overlays \subseteq overlays' /\ reactions \subseteq reactions'
  /\ jobs \subseteq jobs' /\ dlq \subseteq dlq'

\* A step of one request leaves the others where they are.
OthersStay(r) == \A s \in Requests \ {r} : req'[s] = req[s]

EffectStep(r) ==
  \/ ApplyAffinity(r) \/ CreateOverlayEvent(r) \/ EnqueueOverlay(r)
  \/ CreateReactionRequest(r) \/ EnqueueReaction(r)
  \/ RecordAffinityDlq(r) \/ RecordOverlayDlq(r) \/ RecordReactionDlq(r)
  \/ Caught(r)

RouteStep(r) ==
  \/ Submit(r) \/ Lookup(r) \/ ReadAffinity(r) \/ CreateSupport(r) \/ ReadReview(r)
  \/ ReadHeldEvent(r) \/ ReadPatchedEvent(r) \/ UpdateSupport(r) \/ WriteAudit(r) \/ Dies(r)

\* Next is one of these, or the end of the process.
LEMMA NextCases ==
  Next => Crash \/ \E r \in Requests : EffectStep(r) \/ RouteStep(r)
  BY Zenon DEF Next, Step, EffectStep, RouteStep

\* A request step changes only that request, and effects only grow.
LEMMA StepFrame ==
  ASSUME TypeOK, NEW r \in Requests, EffectStep(r) \/ RouteStep(r)
  PROVE  EffectsGrow /\ OthersStay(r)
<1>1. CASE EffectStep(r)
  BY <1>1
  DEF EffectStep, ApplyAffinity, CreateOverlayEvent, EnqueueOverlay, CreateReactionRequest, EnqueueReaction,
      RecordAffinityDlq, RecordOverlayDlq, RecordReactionDlq, RecordDlq, Caught, AffinityRejects,
      OverlayRejects, ReactionRejects, EnqueueRejects, EntryAdded, Goto, EffectsGrow, OthersStay, TypeOK
<1>2. CASE RouteStep(r)
  <2>1. EffectsGrow
    BY <1>2
    DEF RouteStep, Submit, Lookup, ReadAffinity, CreateSupport, ReadReview, ReadHeldEvent, ReadPatchedEvent,
        UpdateSupport, WriteAudit, Dies, effects, EffectsGrow
  <2>2. OthersStay(r)
    <3>1. \/ \E q : req' = [req EXCEPT ![r] = q]
      BY <1>2
      DEF RouteStep, Submit, SubmitEvent, SubmitIngest, SubmitManual, SubmitApprove, SubmitReject, SubmitPatch,
          Accept, Lookup, ReadAffinity, CreateSupport, ReadReview, ReadHeldEvent, ReadPatchedEvent,
          UpdateSupport, WriteAudit, Dies, Goto, TypeOK
    <3> QED
      BY <3>1 DEF OthersStay, TypeOK
  <2> QED
    BY <2>1, <2>2
<1> QED
  BY <1>1, <1>2

\* What the others have behind them stays behind them.
LEMMA OthersBehind ==
  ASSUME NEW r \in Requests, EffectsGrow, OthersStay(r), \A s \in Requests : Behind(s)
  PROVE  \A s \in Requests \ {r} : Behind(s)'
  BY DEF Behind, EffectsGrow, OthersStay

\* The effects keep affinity fail-closed.
LEMMA EffectFailsClosed ==
  ASSUME FailClosedInv, NEW r \in Requests, EffectStep(r)
  PROVE  FailClosedInv'
<1>1. TypeInv'
  BY EffectTypes DEF EffectStep, FailClosedInv
<1>2. TypeOK /\ req[r] \in Request
  BY DEF FailClosedInv, TypeInv, TypeOK
<1>3. EffectsGrow /\ OthersStay(r)
  BY <1>2, StepFrame
<1>4. \A s \in Requests \ {r} : Behind(s)'
  BY <1>3, OthersBehind DEF FailClosedInv
<1>5. Behind(r)'
  BY <1>2
  DEF FailClosedInv, EffectStep, ApplyAffinity, CreateOverlayEvent, EnqueueOverlay, CreateReactionRequest,
      EnqueueReaction, RecordAffinityDlq, RecordOverlayDlq, RecordReactionDlq, RecordDlq, Caught,
      AffinityRejects, OverlayRejects, ReactionRejects, EnqueueRejects, EntryAdded, Goto, At, NoRequest,
      OverlayOrReturn, ReactionOrReturn, AfterEffects, CanApplyAffinity, CanEmitOverlay,
      CanRequestAiReaction, Behind, PastAffinity, PastOverlay, PastReaction, Request, TypeOK
<1>6. FailClosed'
  <2>1. reactions' = reactions \/ /\ reactions' = reactions \cup {req[r].event}
                                  /\ req[r].event \in overlays
                                  /\ Linked(req[r].event) => req[r].event \in ledger
    BY DEF FailClosedInv, EffectStep, ApplyAffinity, CreateOverlayEvent, EnqueueOverlay,
           CreateReactionRequest, EnqueueReaction, RecordAffinityDlq, RecordOverlayDlq, RecordReactionDlq,
           RecordDlq, Caught, AffinityRejects, OverlayRejects, ReactionRejects, EnqueueRejects, At,
           CanApplyAffinity, CanRequestAiReaction, Behind, PastAffinity, PastOverlay, PastReaction
  <2>2. \/ jobs' = jobs
        \/ jobs' = jobs \cup {<<"overlay", req[r].event>>} /\ req[r].event \in overlays
        \/ jobs' = jobs \cup {<<"reaction", req[r].event>>} /\ req[r].event \in reactions
    BY DEF FailClosedInv, EffectStep, ApplyAffinity, CreateOverlayEvent, EnqueueOverlay,
           CreateReactionRequest, EnqueueReaction, RecordAffinityDlq, RecordOverlayDlq, RecordReactionDlq,
           RecordDlq, Caught, AffinityRejects, OverlayRejects, ReactionRejects, EnqueueRejects, At,
           Behind, PastAffinity, PastOverlay, PastReaction
  <2>3. ASSUME NEW e \in Events
        PROVE  e \in reactions' => e \in overlays' /\ (Linked(e) => e \in ledger')
    BY <1>3, <2>1 DEF FailClosedInv, FailClosed, EffectsGrow
  <2>4. ASSUME NEW e \in Events
        PROVE  /\ <<"overlay", e>> \in jobs' => e \in overlays'
               /\ <<"reaction", e>> \in jobs' => e \in reactions'
    BY <1>3, <2>2 DEF FailClosedInv, FailClosed, EffectsGrow
  <2> QED
    BY <2>3, <2>4 DEF FailClosed, Linked
<1> QED
  BY <1>1, <1>4, <1>5, <1>6 DEF FailClosedInv

\* The steps around the effects keep affinity fail-closed.
LEMMA RouteFailsClosed ==
  ASSUME FailClosedInv, NEW r \in Requests, RouteStep(r)
  PROVE  FailClosedInv'
<1>1. TypeInv'
  BY SubmitTypes, RouteTypes DEF RouteStep, FailClosedInv
<1>2. TypeOK /\ req[r] \in Request
  BY DEF FailClosedInv, TypeInv, TypeOK
<1>3. \A s \in Requests \ {r} : Behind(s)'
  BY <1>2, StepFrame, OthersBehind DEF FailClosedInv
<1>4. UNCHANGED effects
  BY DEF RouteStep, Submit, Lookup, ReadAffinity, CreateSupport, ReadReview, ReadHeldEvent,
         ReadPatchedEvent, UpdateSupport, WriteAudit, Dies
<1>5. req'[r].pc \notin PastOverlay
      /\ (req'[r].pc = "overlayRow" => ~(CanApplyAffinity(req'[r].status) /\ Linked(req'[r].event)))
  BY <1>2
  DEF RouteStep, Submit, SubmitEvent, SubmitIngest, SubmitManual, SubmitApprove, SubmitReject, SubmitPatch,
      Accept, Lookup, ReadAffinity, CreateSupport, ReadReview, ReadHeldEvent, ReadPatchedEvent,
      UpdateSupport, WriteAudit, Dies, Goto, At, NoRequest, BeginEffects, OverlayOrReturn, AfterEffects,
      CanApplyAffinity, CanEmitOverlay, PastAffinity, PastOverlay, Request, TypeOK
<1>6. Behind(r)'
  BY <1>5 DEF Behind, PastAffinity, PastOverlay, PastReaction, Linked
<1> QED
  BY <1>1, <1>3, <1>4, <1>6 DEF FailClosedInv, FailClosed, effects, Linked

\* Whatever the routes in use and the calls that reject: no reaction without
\* its affinity entry and its alert, and no job without its row.
THEOREM AffinityFailsClosed == Spec => []FailClosed
<1>1. Init => FailClosedInv
  BY InitTypes
  DEF Init, NoRequest, FailClosedInv, FailClosed, Behind, PastAffinity, PastOverlay, PastReaction
<1>2. FailClosedInv /\ [Next]_vars => FailClosedInv'
  <2>1. ASSUME FailClosedInv, UNCHANGED vars
        PROVE  FailClosedInv'
    <3>1. TypeInv'
      BY <2>1, NextTypes DEF FailClosedInv
    <3> QED
      BY <2>1, <3>1 DEF vars, effects, FailClosedInv, FailClosed, Behind, Linked
  <2>2. ASSUME FailClosedInv, Crash
        PROVE  FailClosedInv'
    <3>1. TypeInv'
      BY <2>2, CrashTypes DEF FailClosedInv
    <3> QED
      BY <2>2, <3>1
      DEF Crash, effects, NoRequest, FailClosedInv, FailClosed, Behind, Linked,
          PastAffinity, PastOverlay, PastReaction
  <2> QED
    BY <2>1, <2>2, NextCases, EffectFailsClosed, RouteFailsClosed, Zenon
<1>3. FailClosedInv => FailClosed
  BY DEF FailClosedInv
<1> QED
  BY <1>1, <1>2, <1>3, PTL DEF Spec

-----------------------------------------------------------------------------
(* Held events, when neither the manual nor the patch route is in use. *)

Unreviewed(e) == support[e] \in {"none", "hold"}
InEffects == PastAffinity \cup {"affinity", "affinityDlq"}
Released(r) == req[r].pc \in InEffects => ~Unreviewed(req[r].event)

HeldInv ==
  /\ TypeInv
  /\ \A e \in Events : Unreviewed(e) => NoEffects(e)
  /\ \A r \in Requests : Released(r)

\* The effects only touch an event that was released.
LEMMA EffectHeld ==
  ASSUME HeldInv, NEW r \in Requests, EffectStep(r)
  PROVE  HeldInv'
<1>1. TypeInv'
  BY EffectTypes DEF EffectStep, HeldInv
<1>2. TypeOK /\ req[r] \in Request
  BY DEF HeldInv, TypeInv, TypeOK
<1>3. OthersStay(r)
  BY <1>2, StepFrame
<1>4. support' = support /\ req[r].pc \in InEffects
  BY DEF EffectStep, ApplyAffinity, CreateOverlayEvent, EnqueueOverlay, CreateReactionRequest,
         EnqueueReaction, RecordAffinityDlq, RecordOverlayDlq, RecordReactionDlq, RecordDlq, Caught,
         AffinityRejects, OverlayRejects, ReactionRejects, EnqueueRejects, At, InEffects, PastAffinity
<1>5. req'[r].pc \in InEffects => req'[r].event = req[r].event
  BY <1>2
  DEF EffectStep, ApplyAffinity, CreateOverlayEvent, EnqueueOverlay, CreateReactionRequest,
      EnqueueReaction, RecordAffinityDlq, RecordOverlayDlq, RecordReactionDlq, RecordDlq, Caught,
      AffinityRejects, OverlayRejects, ReactionRejects, EnqueueRejects, Goto, NoRequest, InEffects,
      PastAffinity, Request, TypeOK
<1>6. /\ ledger' \subseteq ledger \cup {req[r].event}
      /\ overlays' \subseteq overlays \cup {req[r].event}
      /\ reactions' \subseteq reactions \cup {req[r].event}
      /\ jobs' \subseteq jobs \cup ({"overlay", "reaction"} \X {req[r].event})
  BY DEF EffectStep, ApplyAffinity, CreateOverlayEvent, EnqueueOverlay, CreateReactionRequest,
         EnqueueReaction, RecordAffinityDlq, RecordOverlayDlq, RecordReactionDlq, RecordDlq, Caught,
         AffinityRejects, OverlayRejects, ReactionRejects, EnqueueRejects, EntryAdded
<1>7. ASSUME NEW e \in Events, Unreviewed(e)'
      PROVE  NoEffects(e)'
  <2>1. Unreviewed(e) /\ e # req[r].event
    BY <1>4, <1>7 DEF Unreviewed, HeldInv, Released
  <2>2. NoEffects(e)
    BY <2>1 DEF HeldInv
  <2> QED
    BY <1>6, <2>1, <2>2 DEF NoEffects
<1>8. ASSUME NEW s \in Requests
      PROVE  Released(s)'
  BY <1>3, <1>4, <1>5, <1>8 DEF HeldInv, Released, OthersStay, Unreviewed
<1> QED
  BY <1>1, <1>7, <1>8 DEF HeldInv, Unreviewed

\* The steps around the effects start them for a released event only.
LEMMA RouteHeld ==
  ASSUME Kinds \cap {"manual", "patch"} = {}, HeldInv, NEW r \in Requests, RouteStep(r)
  PROVE  HeldInv'
<1>1. TypeInv'
  BY SubmitTypes, RouteTypes DEF RouteStep, HeldInv
<1>2. TypeOK /\ req[r] \in Request /\ Carries(req[r])
  BY DEF HeldInv, TypeInv, TypeOK
<1>3. OthersStay(r)
  BY <1>2, StepFrame
<1>4. UNCHANGED effects
  BY DEF RouteStep, Submit, Lookup, ReadAffinity, CreateSupport, ReadReview, ReadHeldEvent,
         ReadPatchedEvent, UpdateSupport, WriteAudit, Dies
<1>5. CASE CreateSupport(r)
  <2>1. req[r].pc = "create" /\ req[r].kind # "manual" /\ req[r].event \in Events
    BY <1>2, <1>5 DEF CreateSupport, At, Carries
  <2>2. CASE support[req[r].event] = "none"
    <3>1. /\ support' = [support EXCEPT ![req[r].event] = req[r].status]
          /\ Goto(r, BeginEffects(r))
      BY <1>5, <2>1, <2>2 DEF CreateSupport
    <3>2. req'[r].pc \in InEffects => req'[r].event = req[r].event /\ req[r].status # "hold" /\ req[r].status # "none"
      BY <1>2, <3>1
      DEF Goto, BeginEffects, OverlayOrReturn, AfterEffects, CanApplyAffinity, CanEmitOverlay, InEffects,
          PastAffinity, NoRequest, Request, TypeOK
    <3>3. \A e \in Events : Unreviewed(e)' => Unreviewed(e)
      BY <2>2, <3>1 DEF Released, Unreviewed, TypeOK
    <3>4. Released(r)'
      BY <1>2, <2>1, <3>1, <3>2 DEF Released, Unreviewed, TypeOK
    <3>5. ASSUME NEW s \in Requests \ {r}
          PROVE  Released(s)'
      <4>1. req'[s] = req[s] /\ Released(s) /\ (req[s].pc \in InEffects => req[s].event \in Events)
        BY <1>3, <3>5 DEF OthersStay, HeldInv, TypeInv, Carries, InEffects, PastAffinity
      <4> QED
        BY <3>3, <4>1 DEF Released, Unreviewed
    <3> QED
      BY <1>1, <1>4, <3>3, <3>4, <3>5 DEF HeldInv, Released, NoEffects, effects, Unreviewed
  <2>3. CASE support[req[r].event] # "none"
    <3>1. support' = support /\ Goto(r, "idle")
      BY <1>5, <2>1, <2>3 DEF CreateSupport
    <3>2. req'[r].pc \notin InEffects
      BY <1>2, <3>1 DEF Goto, NoRequest, InEffects, PastAffinity, TypeOK
    <3> QED
      BY <1>1, <1>3, <1>4, <3>1, <3>2 DEF HeldInv, Released, NoEffects, effects, Unreviewed, OthersStay
  <2> QED
    BY <2>2, <2>3
<1>6. CASE UpdateSupport(r)
  <2>1. /\ req[r].event \in Events /\ req[r].status \in {"approved", "rejected"}
        /\ support' = [support EXCEPT ![req[r].event] = req[r].status]
    BY <1>2, <1>6 DEF UpdateSupport, At, Carries
  <2>2. \A e \in Events : Unreviewed(e)' => Unreviewed(e)
    BY <1>2, <2>1 DEF Released, Unreviewed, TypeOK
  <2>3. req'[r].pc \in InEffects => req'[r].event = req[r].event
    BY <1>2, <1>6 DEF UpdateSupport, Goto, NoRequest, InEffects, PastAffinity, TypeOK
  <2>4. Released(r)'
    BY <1>2, <2>1, <2>3 DEF Released, Unreviewed, TypeOK
  <2>5. ASSUME NEW s \in Requests \ {r}
        PROVE  Released(s)'
    <3>1. req'[s] = req[s] /\ Released(s) /\ (req[s].pc \in InEffects => req[s].event \in Events)
      BY <1>3, <2>5 DEF OthersStay, HeldInv, TypeInv, Carries, InEffects, PastAffinity
    <3> QED
      BY <2>2, <3>1 DEF Released, Unreviewed
  <2> QED
    BY <1>1, <1>4, <2>2, <2>4, <2>5 DEF HeldInv, Released, NoEffects, effects, Unreviewed
<1>7. CASE ~CreateSupport(r) /\ ~UpdateSupport(r)
  <2>1. support' = support
    BY <1>7 DEF RouteStep, Submit, Lookup, ReadAffinity, ReadReview, ReadHeldEvent, ReadPatchedEvent,
                WriteAudit, Dies
  <2>2. req'[r].pc \notin InEffects
    BY <1>2, <1>7
    DEF RouteStep, Submit, SubmitEvent, SubmitIngest, SubmitManual, SubmitApprove, SubmitReject, SubmitPatch,
        Accept, Lookup, ReadAffinity, ReadReview, ReadHeldEvent, ReadPatchedEvent, WriteAudit, Dies, Goto,
        NoRequest, InEffects, PastAffinity, Request, TypeOK
  <2> QED
    BY <1>1, <1>3, <1>4, <2>1, <2>2 DEF HeldInv, Released, NoEffects, effects, Unreviewed, OthersStay
<1> QED
  BY <1>5, <1>6, <1>7

\* With the ingest and review routes only, in whatever order their calls
\* interleave or fail, an event that waits for its review has had no effect.
THEOREM HeldHasHadNoEffects ==
  ASSUME Kinds \cap {"manual", "patch"} = {}
  PROVE  Spec => []HeldHasNoEffects
<1>1. Init => HeldInv
  BY InitTypes DEF Init, NoRequest, HeldInv, Released, NoEffects, InEffects, PastAffinity
<1>2. HeldInv /\ [Next]_vars => HeldInv'
  <2>1. ASSUME HeldInv, UNCHANGED vars
        PROVE  HeldInv'
    <3>1. TypeInv'
      BY <2>1, NextTypes DEF HeldInv
    <3> QED
      BY <2>1, <3>1 DEF vars, effects, HeldInv, Released, NoEffects, Unreviewed
  <2>2. ASSUME HeldInv, Crash
        PROVE  HeldInv'
    <3>1. TypeInv'
      BY <2>2, CrashTypes DEF HeldInv
    <3> QED
      BY <2>2, <3>1 DEF Crash, effects, NoRequest, HeldInv, Released, NoEffects, Unreviewed, InEffects, PastAffinity
  <2> QED
    BY <2>1, <2>2, NextCases, EffectHeld, RouteHeld, Zenon
<1>3. HeldInv => HeldHasNoEffects
  BY DEF HeldInv, HeldHasNoEffects, Unreviewed
<1> QED
  BY <1>1, <1>2, <1>3, PTL DEF Spec

-----------------------------------------------------------------------------
(* Approved events are applied, when only the caught calls may reject. *)

\* A request is applying the effects of an approved event.
Working(r, e) == req[r].event = e /\ req[r].status = "approved" /\ req[r].pc \in InEffects

\* The effects of an event are complete, or somebody is at work on them.
Vouched(e) == Applied(e) \/ \E r \in Requests : Working(r, e)

Announced(r) == req[r].pc \in PastReaction => <<"overlay", req[r].event>> \in jobs \cup dlq

\* A patch writes "approved" only if it read it.
PatchRead(r) ==
  /\ req[r].pc = "review" => req[r].kind # "patch"
  /\ req[r].kind = "patch" /\ req[r].pc = "readEvent" => req[r].status # "approved"
  /\ req[r].kind = "patch" /\ req[r].pc = "update" /\ req[r].status = "approved" => Vouched(req[r].event)

SettledInv ==
  /\ FailClosedInv
  /\ \A r \in Requests : Announced(r) /\ PatchRead(r)
  /\ \A e \in Events : support[e] = "approved" => Vouched(e)

\* What is applied stays applied.
LEMMA AppliedStays ==
  ASSUME EffectsGrow, NEW e, Applied(e)
  PROVE  Applied(e)'
  BY DEF EffectsGrow, Applied, Linked

\* A request at work goes on, or has completed the effects.
LEMMA WorkGoesOn ==
  ASSUME SettledInv, NEW r \in Requests, EffectStep(r), NEW e \in Events, Working(r, e)
  PROVE  Working(r, e)' \/ Applied(e)'
<1>1. TypeOK /\ req[r] \in Request /\ Behind(r) /\ Announced(r) /\ EffectsGrow
  BY StepFrame DEF SettledInv, FailClosedInv, TypeInv, TypeOK
<1>2. /\ req[r].event = e /\ req[r].status = "approved"
      /\ OverlayOrReturn(r, req[r].status) = "overlayRow" /\ ReactionOrReturn(r) = "reactionRow"
  BY DEF Working, OverlayOrReturn, ReactionOrReturn, CanEmitOverlay, CanRequestAiReaction
<1>3. CASE \E pc \in InEffects : Goto(r, pc)
  BY <1>1, <1>2, <1>3 DEF Goto, Working, InEffects, PastAffinity, Request, TypeOK
<1>4. CASE RecordAffinityDlq(r)
  BY <1>2, <1>4 DEF RecordAffinityDlq, RecordDlq, Applied
<1>5. CASE EnqueueReaction(r) \/ RecordReactionDlq(r)
  <2>1. /\ Linked(e) => e \in ledger
        /\ e \in overlays /\ e \in reactions
        /\ <<"overlay", e>> \in jobs \cup dlq
    BY <1>1, <1>2, <1>5
    DEF EnqueueReaction, RecordReactionDlq, RecordDlq, At, Behind, Announced, PastAffinity, PastOverlay,
        PastReaction, CanApplyAffinity
  <2>2. <<"reaction", e>> \in jobs' \cup dlq'
    BY <1>2, <1>5 DEF EnqueueReaction, RecordReactionDlq, RecordDlq
  <2> QED
    BY <1>1, <2>1, <2>2 DEF EffectsGrow, Applied, Linked
<1>6. CASE ~RecordAffinityDlq(r) /\ ~EnqueueReaction(r) /\ ~RecordReactionDlq(r)
  <2>1. \E pc \in InEffects : Goto(r, pc)
    BY <1>2, <1>6
    DEF EffectStep, ApplyAffinity, CreateOverlayEvent, EnqueueOverlay, CreateReactionRequest,
        RecordOverlayDlq, RecordDlq, Caught, AffinityRejects, OverlayRejects, ReactionRejects,
        EnqueueRejects, InEffects, PastAffinity
  <2> QED
    BY <1>3, <2>1
<1> QED
  BY <1>4, <1>5, <1>6

\* A step around the effects is not a step of a request at work.
LEMMA RouteIsIdle ==
  ASSUME NEW r \in Requests, RouteStep(r), ~Dies(r)
  PROVE  req[r].pc \notin InEffects
  BY DEF RouteStep, Submit, Lookup, ReadAffinity, CreateSupport, ReadReview, ReadHeldEvent,
         ReadPatchedEvent, UpdateSupport, WriteAudit, At, InEffects, PastAffinity

\* Nothing that is vouched for is forgotten.
LEMMA VouchedStays ==
  ASSUME SettledInv, NEW r \in Requests, EffectStep(r) \/ (RouteStep(r) /\ ~Dies(r)),
         NEW e \in Events, Vouched(e)
  PROVE  Vouched(e)'
<1>1. EffectsGrow /\ OthersStay(r)
  BY StepFrame DEF SettledInv, FailClosedInv, TypeInv
<1>2. CASE Applied(e)
  BY <1>1, <1>2, AppliedStays DEF Vouched
<1>3. ASSUME NEW s \in Requests, Working(s, e), s # r
      PROVE  Vouched(e)'
  BY <1>1, <1>3 DEF Vouched, Working, OthersStay
<1>4. CASE Working(r, e)
  <2>1. EffectStep(r)
    BY <1>4, RouteIsIdle DEF Working
  <2> QED
    BY <1>4, <2>1, WorkGoesOn DEF Vouched
<1> QED
  BY <1>2, <1>3, <1>4 DEF Vouched

\* The alert's job or dead letter precedes the reaction.
LEMMA AnnouncedStays ==
  ASSUME SettledInv, NEW r \in Requests, EffectStep(r) \/ RouteStep(r)
  PROVE  \A s \in Requests : Announced(s)'
<1>1. TypeOK /\ req[r] \in Request /\ Announced(r) /\ EffectsGrow /\ OthersStay(r)
  BY StepFrame DEF SettledInv, FailClosedInv, TypeInv, TypeOK
<1>2. \A s \in Requests \ {r} : Announced(s)'
  BY <1>1 DEF SettledInv, Announced, EffectsGrow, OthersStay
<1>3. CASE RouteStep(r)
  <2>1. req'[r].pc \notin PastReaction
    BY <1>1, <1>3
    DEF RouteStep, Submit, SubmitEvent, SubmitIngest, SubmitManual, SubmitApprove, SubmitReject,
        SubmitPatch, Accept, Lookup, ReadAffinity, CreateSupport, ReadReview, ReadHeldEvent,
        ReadPatchedEvent, UpdateSupport, WriteAudit, Dies, Goto, NoRequest, BeginEffects,
        OverlayOrReturn, AfterEffects, PastReaction, Request, TypeOK
  <2> QED
    BY <1>2, <2>1 DEF Announced
<1>4. CASE EffectStep(r)
  <2>1. req'[r].pc \in PastReaction => req'[r].event = req[r].event
    BY <1>1, <1>4
    DEF EffectStep, ApplyAffinity, CreateOverlayEvent, EnqueueOverlay, CreateReactionRequest,
        EnqueueReaction, RecordAffinityDlq, RecordOverlayDlq, RecordReactionDlq, RecordDlq, Caught,
        AffinityRejects, OverlayRejects, ReactionRejects, EnqueueRejects, Goto, NoRequest,
        PastReaction, Request, TypeOK
  <2>2. CASE EnqueueOverlay(r) \/ RecordOverlayDlq(r)
    <3>1. <<"overlay", req[r].event>> \in jobs' \cup dlq'
      BY <2>2 DEF EnqueueOverlay, RecordOverlayDlq, RecordDlq
    <3> QED
      BY <1>2, <2>1, <3>1 DEF Announced
  <2>3. CASE ~EnqueueOverlay(r) /\ ~RecordOverlayDlq(r)
    <3>1. req'[r].pc \in PastReaction => req[r].pc \in PastReaction
      BY <1>1, <1>4, <2>3
      DEF EffectStep, ApplyAffinity, CreateOverlayEvent, CreateReactionRequest, EnqueueReaction,
          RecordAffinityDlq, RecordReactionDlq, RecordDlq, Caught, AffinityRejects, OverlayRejects,
          ReactionRejects, EnqueueRejects, Goto, At, NoRequest, OverlayOrReturn, AfterEffects,
          PastReaction, Request, TypeOK
    <3> QED
      BY <1>1, <1>2, <2>1, <3>1 DEF Announced, EffectsGrow
  <2> QED
    BY <2>2, <2>3
<1> QED
  BY <1>3, <1>4

\* An event becomes approved only when a request starts on its effects, or
\* when a patch writes back what it read.
LEMMA ApprovalVouched ==
  ASSUME SettledInv, NEW r \in Requests, EffectStep(r) \/ (RouteStep(r) /\ ~Dies(r)),
         NEW e \in Events, support'[e] = "approved"
  PROVE  Vouched(e)'
<1>1. TypeOK /\ req[r] \in Request /\ Carries(req[r])
  BY DEF SettledInv, FailClosedInv, TypeInv, TypeOK
<1>2. CASE support[e] = "approved"
  BY <1>2, VouchedStays DEF SettledInv
<1>3. CASE support[e] # "approved"
  <2>1. CreateSupport(r) \/ UpdateSupport(r)
    BY <1>3
    DEF EffectStep, RouteStep, ApplyAffinity, CreateOverlayEvent, EnqueueOverlay, CreateReactionRequest,
        EnqueueReaction, RecordAffinityDlq, RecordOverlayDlq, RecordReactionDlq, RecordDlq, Caught,
        AffinityRejects, OverlayRejects, ReactionRejects, EnqueueRejects, Submit, Lookup, ReadAffinity,
        ReadReview, ReadHeldEvent, ReadPatchedEvent, WriteAudit, Dies
  <2>2. req[r].event = e /\ req[r].status = "approved" /\ req[r].pc \in {"create", "update"}
    BY <1>1, <1>3, <2>1 DEF CreateSupport, UpdateSupport, At, TypeOK
  <2>3. CASE UpdateSupport(r) /\ req[r].kind = "patch"
    <3>1. Vouched(e)
      BY <2>2, <2>3 DEF UpdateSupport, At, SettledInv, PatchRead
    <3> QED
      BY <3>1, VouchedStays
  <2>4. CASE CreateSupport(r) \/ (UpdateSupport(r) /\ req[r].kind # "patch")
    <3>1. Goto(r, BeginEffects(r))
      BY <1>1, <1>3, <2>2, <2>4 DEF CreateSupport, UpdateSupport, At, Carries, TypeOK
    <3>2. BeginEffects(r) \in {"affinity", "overlayRow"}
      BY <2>2 DEF BeginEffects, OverlayOrReturn, CanEmitOverlay
    <3>3. Working(r, e)'
      BY <1>1, <2>2, <3>1, <3>2 DEF Goto, Working, InEffects, PastAffinity, Request, TypeOK
    <3> QED
      BY <3>3 DEF Vouched
  <2> QED
    BY <2>1, <2>3, <2>4
<1> QED
  BY <1>2, <1>3

\* What a patch is about to write back is still vouched for.
LEMMA PatchReadStays ==
  ASSUME SettledInv, NEW r \in Requests, EffectStep(r) \/ (RouteStep(r) /\ ~Dies(r))
  PROVE  \A s \in Requests : PatchRead(s)'
<1>1. TypeOK /\ req[r] \in Request /\ Carries(req[r]) /\ PatchRead(r) /\ OthersStay(r)
  BY StepFrame DEF SettledInv, FailClosedInv, TypeInv, TypeOK
<1>2. ASSUME NEW s \in Requests, s # r
      PROVE  PatchRead(s)'
  <2>1. /\ req'[s] = req[s] /\ PatchRead(s)
        /\ req[s].pc = "update" => req[s].event \in Events
    BY <1>1, <1>2 DEF OthersStay, SettledInv, FailClosedInv, TypeInv, Carries
  <2>2. CASE req[s].kind = "patch" /\ req[s].pc = "update" /\ req[s].status = "approved"
    <3>1. Vouched(req[s].event)'
      <4>1. Vouched(req[s].event) /\ req[s].event \in Events
        BY <2>1, <2>2 DEF PatchRead
      <4>2. PICK e \in Events : e = req[s].event /\ Vouched(e)
        BY <4>1
      <4>3. Vouched(e)'
        BY <4>2, VouchedStays
      <4> QED
        BY <2>1, <4>2, <4>3 DEF Vouched, Applied, Working, Linked
    <3> QED
      BY <2>1, <2>2, <3>1 DEF PatchRead
  <2> QED
    BY <2>1, <2>2 DEF PatchRead
<1>3. ASSUME ReadPatchedEvent(r)
      PROVE  PatchRead(r)'
  <2>1. CASE Goto(r, "idle")
    BY <1>1, <2>1 DEF Goto, NoRequest, PatchRead, TypeOK
  <2>2. CASE ~Goto(r, "idle")
    <3>1. /\ req[r].pc = "readEvent" /\ req[r].kind = "patch"
          /\ req' = [req EXCEPT ![r].status = IF @ = "keep" THEN support[req[r].event] ELSE @,
                                ![r].pc = "update"]
      BY <1>3, <2>2 DEF ReadPatchedEvent, At
    <3>2. PICK e \in Events : e = req[r].event
      BY <1>1, <3>1 DEF Carries
    <3>3. /\ req'[r].event = e /\ req'[r].pc = "update"
          /\ req'[r].status = "approved" => support[e] = "approved"
      BY <1>1, <3>1, <3>2 DEF PatchRead, Request, TypeOK
    <3>4. req'[r].status = "approved" => Vouched(e)'
      BY <3>3, VouchedStays DEF SettledInv
    <3> QED
      BY <3>3, <3>4 DEF PatchRead, Vouched, Applied, Working, Linked
  <2> QED
    BY <2>1, <2>2
<1>4. ASSUME ~ReadPatchedEvent(r)
      PROVE  PatchRead(r)'
  <2>1. /\ req'[r].pc = "review" => req'[r].kind # "patch"
        /\ req'[r].kind = "patch" /\ req'[r].pc = "readEvent" => req'[r].status # "approved"
        /\ req'[r].pc = "update" => req'[r].kind # "patch"
    <3>1. CASE EffectStep(r)
      BY <1>1, <3>1
      DEF EffectStep, ApplyAffinity, CreateOverlayEvent, EnqueueOverlay, CreateReactionRequest,
          EnqueueReaction, RecordAffinityDlq, RecordOverlayDlq, RecordReactionDlq, RecordDlq, Caught,
          AffinityRejects, OverlayRejects, ReactionRejects, EnqueueRejects, Goto, NoRequest,
          OverlayOrReturn, ReactionOrReturn, AfterEffects, Request, TypeOK
    <3>2. CASE RouteStep(r)
      BY <1>1, <1>4, <3>2
      DEF RouteStep, Submit, SubmitEvent, SubmitIngest, SubmitManual, SubmitApprove, SubmitReject,
          SubmitPatch, Accept, Lookup, ReadAffinity, CreateSupport, ReadReview, ReadHeldEvent,
          UpdateSupport, WriteAudit, Dies, At, Goto, NoRequest, BeginEffects, OverlayOrReturn,
          AfterEffects, PatchRead, Request, TypeOK
    <3> QED
      BY <3>1, <3>2
  <2> QED
    BY <2>1 DEF PatchRead
<1> QED
  BY <1>2, <1>3, <1>4

\* If only the calls applySupportReceivedEffects guards may reject, then in
\* whatever order requests interleave on whatever routes, an approved event
\* that nobody works on has all its effects, or dead letters in their place.
THEOREM ApprovedEventsAreApplied ==
  ASSUME Unreliable \subseteq {"affinity", "overlayJob", "reactionJob"}, MayCrash = FALSE
  PROVE  Spec => []SettledIsApplied
<1>1. Init => SettledInv
  <2>1. ASSUME Init PROVE FailClosedInv
    BY <2>1, InitTypes
    DEF Init, NoRequest, FailClosedInv, FailClosed, Behind, PastAffinity, PastOverlay, PastReaction
  <2> QED
    BY <2>1 DEF Init, NoRequest, SettledInv, Announced, PatchRead, PastReaction
<1>2. SettledInv /\ [Next]_vars => SettledInv'
  <2>1. ASSUME SettledInv, UNCHANGED vars
        PROVE  SettledInv'
    <3>1. TypeInv'
      BY <2>1, NextTypes DEF SettledInv, FailClosedInv
    <3> QED
      BY <2>1, <3>1
      DEF vars, effects, SettledInv, FailClosedInv, FailClosed, Behind, Announced, PatchRead, Vouched,
          Applied, Working, Linked
  <2>2. ASSUME SettledInv, NEW r \in Requests, EffectStep(r) \/ (RouteStep(r) /\ ~Dies(r))
        PROVE  SettledInv'
    <3>1. FailClosedInv'
      BY <2>2, EffectFailsClosed, RouteFailsClosed DEF SettledInv
    <3>2. \A s \in Requests : Announced(s)' /\ PatchRead(s)'
      BY <2>2, AnnouncedStays, PatchReadStays
    <3>3. \A e \in Events : support'[e] = "approved" => Vouched(e)'
      BY <2>2, ApprovalVouched
    <3> QED
      BY <3>1, <3>2, <3>3 DEF SettledInv
  <2>3. ~Crash /\ \A r \in Requests : ~Dies(r)
    BY DEF Crash, Dies
  <2> QED
    BY <2>1, <2>2, <2>3, NextCases, Zenon
<1>3. SettledInv => SettledIsApplied
  BY DEF SettledInv, SettledIsApplied, Vouched, Working
<1> QED
  BY <1>1, <1>2, <1>3, PTL DEF Spec

-----------------------------------------------------------------------------
(* One request at a time, without the patch route. *)

Unshown(e) == support[e] \in {"none", "hold", "rejected"}

\* What a request read is still so, and a request at work has written its status.
UpToDate(r) ==
  LET q == req[r]
  IN /\ q.pc = "lookup" => q.kind \in {"ingest", "manual"}
     /\ q.pc \in {"readAffinity", "create"} /\ q.kind = "manual" => support[q.event] = "none"
     /\ q.pc \in {"readAffinity", "update"} /\ q.kind \in {"approve", "reject"} => support[q.event] = "hold"
     /\ q.pc \in {"create", "update", "affinity"} /\ q.kind # "event" /\ Linked(q.event)
        => q.previous = affinity[Viewer[q.event]]
     /\ q.pc \in InEffects => q.status \in {"approved", "display_only"} /\ support[q.event] = q.status
     /\ q.pc = "audit" /\ q.kind \in {"approve", "reject"} => support[q.event] = q.status

SequentialInv ==
  /\ TypeInv
  /\ \A e \in Events : Unshown(e) => NoEffects(e)
  /\ ReviewAgrees
  /\ \A r \in Requests : UpToDate(r)

OneAtATime == "patch" \notin Kinds /\ \A r, s \in Requests : r = s

\* The effects only touch an event whose status calls for them.
LEMMA EffectAlone ==
  ASSUME OneAtATime, SequentialInv, NEW r \in Requests, EffectStep(r)
  PROVE  SequentialInv'
<1>1. TypeInv'
  BY EffectTypes DEF EffectStep, SequentialInv
<1>2. TypeOK /\ req[r] \in Request /\ UpToDate(r)
  BY DEF SequentialInv, TypeInv, TypeOK
<1>3. /\ support' = support /\ review' = review /\ req[r].pc \in InEffects
  BY DEF EffectStep, ApplyAffinity, CreateOverlayEvent, EnqueueOverlay, CreateReactionRequest,
         EnqueueReaction, RecordAffinityDlq, RecordOverlayDlq, RecordReactionDlq, RecordDlq, Caught,
         AffinityRejects, OverlayRejects, ReactionRejects, EnqueueRejects, At, InEffects, PastAffinity
<1>4. PICK pc \in (InEffects \ {"affinity"}) \cup {"audit", "idle"} : Goto(r, pc)
  BY DEF EffectStep, ApplyAffinity, CreateOverlayEvent, EnqueueOverlay, CreateReactionRequest,
         EnqueueReaction, RecordAffinityDlq, RecordOverlayDlq, RecordReactionDlq, RecordDlq, Caught,
         AffinityRejects, OverlayRejects, ReactionRejects, EnqueueRejects, OverlayOrReturn,
         ReactionOrReturn, AfterEffects, InEffects, PastAffinity
<1>5. UpToDate(r)'
  BY <1>2, <1>3, <1>4 DEF Goto, NoRequest, UpToDate, InEffects, PastAffinity, Request, TypeOK
<1>6. /\ ledger' \subseteq ledger \cup {req[r].event}
      /\ overlays' \subseteq overlays \cup {req[r].event}
      /\ reactions' \subseteq reactions \cup {req[r].event}
      /\ jobs' \subseteq jobs \cup ({"overlay", "reaction"} \X {req[r].event})
  BY DEF EffectStep, ApplyAffinity, CreateOverlayEvent, EnqueueOverlay, CreateReactionRequest,
         EnqueueReaction, RecordAffinityDlq, RecordOverlayDlq, RecordReactionDlq, RecordDlq, Caught,
         AffinityRejects, OverlayRejects, ReactionRejects, EnqueueRejects, EntryAdded
<1>7. ASSUME NEW e \in Events, Unshown(e)'
      PROVE  NoEffects(e)'
  <2>1. Unshown(e) /\ e # req[r].event
    BY <1>2, <1>3, <1>7 DEF Unshown, UpToDate
  <2>2. NoEffects(e)
    BY <2>1 DEF SequentialInv
  <2> QED
    BY <1>6, <2>1, <2>2 DEF NoEffects
<1>8. ReviewAgrees'
  BY <1>3 DEF SequentialInv, ReviewAgrees
<1> QED
  BY <1>1, <1>5, <1>7, <1>8 DEF SequentialInv, OneAtATime, Unshown

\* The steps around the effects: a status is only given to an event that has
\* none or waits for its review, and the review on record is the one written.
LEMMA RouteAlone ==
  ASSUME OneAtATime, SequentialInv, NEW r \in Requests, RouteStep(r)
  PROVE  SequentialInv'
<1>1. TypeInv'
  BY SubmitTypes, RouteTypes DEF RouteStep, SequentialInv
<1>2. TypeOK /\ req[r] \in Request /\ Carries(req[r]) /\ UpToDate(r)
  BY DEF SequentialInv, TypeInv, TypeOK
<1>3. UNCHANGED effects
  BY DEF RouteStep, Submit, Lookup, ReadAffinity, CreateSupport, ReadReview, ReadHeldEvent,
         ReadPatchedEvent, UpdateSupport, WriteAudit, Dies
<1>4. ASSUME support' = support, review' = review, UpToDate(r)'
      PROVE  SequentialInv'
  <2>1. \A e \in Events : (Unshown(e) => NoEffects(e))'
    BY <1>3, <1>4 DEF SequentialInv, Unshown, NoEffects, effects
  <2>2. ReviewAgrees'
    BY <1>4 DEF SequentialInv, ReviewAgrees
  <2> QED
    BY <1>1, <1>4, <2>1, <2>2 DEF SequentialInv, OneAtATime
<1>5. CASE Submit(r)
  <2>1. /\ support' = support /\ review' = review
        /\ req'[r].pc \in {"create", "lookup", "review", "readEvent"}
        /\ req'[r].pc = "create" => req'[r].kind = "event"
        /\ req'[r].pc = "lookup" => req'[r].kind \in {"ingest", "manual"}
    BY <1>2, <1>5
    DEF Submit, SubmitEvent, SubmitIngest, SubmitManual, SubmitApprove, SubmitReject, SubmitPatch,
        Accept, TypeOK
  <2>2. UpToDate(r)'
    BY <2>1 DEF UpToDate, InEffects, PastAffinity
  <2> QED
    BY <1>4, <2>1, <2>2
<1>6. CASE Lookup(r) \/ ReadReview(r) \/ ReadHeldEvent(r) \/ Dies(r)
  <2>1. support' = support /\ review' = review /\ affinity' = affinity
    BY <1>6 DEF Lookup, ReadReview, ReadHeldEvent, Dies, effects
  <2>2. PICK pc \in {"readAffinity", "readEvent", "idle"} :
          /\ Goto(r, pc)
          /\ pc = "readAffinity" =>
               \/ req[r].kind \in {"ingest", "manual"} /\ support[req[r].event] = "none"
               \/ req[r].kind \in {"approve", "reject"} /\ support[req[r].event] = "hold"
    BY <1>2, <1>6 DEF Lookup, ReadReview, ReadHeldEvent, Dies, At, UpToDate
  <2>3. UpToDate(r)'
    BY <1>2, <2>1, <2>2 DEF Goto, NoRequest, UpToDate, InEffects, PastAffinity, Request, TypeOK
  <2> QED
    BY <1>4, <2>1, <2>3
<1>7. CASE ReadPatchedEvent(r)
  BY <1>2, <1>7 DEF ReadPatchedEvent, At, Carries, OneAtATime
<1>8. CASE ReadAffinity(r)
  <2>1. support' = support /\ review' = review /\ affinity' = affinity
    BY <1>8 DEF ReadAffinity, effects
  <2> DEFINE previous == IF Linked(req[r].event) THEN affinity[Viewer[req[r].event]] ELSE 0
             q == [req[r] EXCEPT !.previous = previous,
                                 !.pc = IF req[r].kind \in {"approve", "reject"} THEN "update" ELSE "create"]
  <2>2. req[r].pc = "readAffinity" /\ req' = [req EXCEPT ![r] = q]
    BY <1>8 DEF ReadAffinity, At
  <2>3. /\ q.kind = req[r].kind /\ q.event = req[r].event /\ q.previous = previous
        /\ q.pc = IF req[r].kind \in {"approve", "reject"} THEN "update" ELSE "create"
    BY <1>2 DEF Request
  <2>4. req'[r] = q
    BY <1>2, <2>2 DEF TypeOK
  <2> HIDE DEF q
  <2>5. UpToDate(r)'
    BY <1>2, <2>1, <2>2, <2>3, <2>4 DEF UpToDate, InEffects, PastAffinity, Linked
  <2> QED
    BY <1>4, <2>1, <2>5
<1>9. CASE CreateSupport(r) \/ UpdateSupport(r)
  <2>1. /\ req[r].event \in Events /\ req[r].status \in Status /\ req[r].pc \in {"create", "update"}
        /\ review' = review /\ affinity' = affinity
    BY <1>2, <1>9 DEF CreateSupport, UpdateSupport, At, Carries, effects
  <2>2. CASE support[req[r].event] \in {"none", "hold"} /\ support' = [support EXCEPT ![req[r].event] = req[r].status]
    <3>1. PICK pc \in {"affinity", "overlayRow", "audit", "idle"} :
            /\ Goto(r, pc)
            /\ pc \in {"affinity", "overlayRow"} => req[r].status \in {"approved", "display_only"}
            /\ pc = "affinity" => req[r].pc \in {"create", "update"}
      BY <1>2, <1>9, <2>1
      DEF CreateSupport, UpdateSupport, BeginEffects, OverlayOrReturn, AfterEffects, CanApplyAffinity,
          CanEmitOverlay
    <3>2. support'[req[r].event] = req[r].status
      BY <1>2, <2>1, <2>2 DEF TypeOK
    <3>3. UpToDate(r)'
      BY <1>2, <2>1, <3>1, <3>2 DEF Goto, NoRequest, UpToDate, InEffects, PastAffinity, Request, TypeOK, Linked
    <3>4. ASSUME NEW e \in Events, Unshown(e)'
          PROVE  NoEffects(e)'
      <4>1. Unshown(e)
        BY <1>2, <2>1, <2>2, <3>4 DEF Unshown, TypeOK
      <4>2. NoEffects(e)
        BY <4>1 DEF SequentialInv
      <4> QED
        BY <1>3, <4>2 DEF NoEffects, effects
    <3>5. ReviewAgrees'
      <4>1. review[req[r].event] = "none"
        BY <1>2, <2>1, <2>2 DEF SequentialInv, ReviewAgrees, TypeOK
      <4> QED
        BY <1>2, <2>1, <2>2, <4>1 DEF SequentialInv, ReviewAgrees, TypeOK
    <3> QED
      BY <1>1, <3>3, <3>4, <3>5 DEF SequentialInv, OneAtATime, Unshown
  <2>3. CASE support' = support /\ Goto(r, "idle")
    <3>1. UpToDate(r)'
      BY <1>2, <2>3 DEF Goto, NoRequest, UpToDate, InEffects, PastAffinity, TypeOK
    <3> QED
      BY <1>4, <2>1, <2>3, <3>1
  <2>4. CASE CreateSupport(r)
    <3>1. support[req[r].event] = "none" \/ req[r].kind # "manual"
      BY <1>2, <2>4 DEF CreateSupport, At, UpToDate
    <3> QED
      BY <2>2, <2>3, <2>4, <3>1 DEF CreateSupport
  <2>5. CASE UpdateSupport(r)
    <3>1. support[req[r].event] = "hold"
      BY <1>2, <2>5 DEF UpdateSupport, At, UpToDate, Carries, OneAtATime
    <3> QED
      BY <2>2, <2>5, <3>1 DEF UpdateSupport
  <2> QED
    BY <1>9, <2>4, <2>5
<1>10. CASE WriteAudit(r)
  <2>1. support' = support /\ Goto(r, "idle") /\ req[r].pc = "audit" /\ req[r].event \in Events
    BY <1>2, <1>10 DEF WriteAudit, At, Carries
  <2>2. UpToDate(r)'
    BY <1>2, <2>1 DEF Goto, NoRequest, UpToDate, InEffects, PastAffinity, TypeOK
  <2>3. CASE req[r].kind \in {"approve", "reject"}
    <3>1. PICK status \in {review[req[r].event], req[r].status} \ {"none"} :
            review' = [review EXCEPT ![req[r].event] = status]
      BY <1>10, <2>3 DEF WriteAudit
    <3>2. support[req[r].event] = req[r].status
      BY <1>2, <2>1, <2>3 DEF UpToDate
    <3>3. status = support[req[r].event]
      BY <2>1, <3>1, <3>2 DEF SequentialInv, ReviewAgrees
    <3>4. ReviewAgrees'
      BY <1>2, <2>1, <3>1, <3>3 DEF SequentialInv, ReviewAgrees, TypeOK
    <3>5. \A e \in Events : (Unshown(e) => NoEffects(e))'
      BY <1>3, <2>1 DEF SequentialInv, Unshown, NoEffects, effects
    <3> QED
      BY <1>1, <2>2, <3>4, <3>5 DEF SequentialInv, OneAtATime
  <2>4. CASE req[r].kind \notin {"approve", "reject"}
    <3>1. review' = review
      BY <1>10, <2>4 DEF WriteAudit
    <3> QED
      BY <1>4, <2>1, <2>2, <3>1
  <2> QED
    BY <2>3, <2>4
<1> QED
  BY <1>5, <1>6, <1>7, <1>8, <1>9, <1>10 DEF RouteStep

\* A single request, and whatever ends the process, keep the invariant.
LEMMA Sequential ==
  ASSUME OneAtATime
  PROVE  Spec => []SequentialInv
<1>1. Init => SequentialInv
  BY InitTypes
  DEF Init, NoRequest, SequentialInv, NoEffects, ReviewAgrees, UpToDate, InEffects, PastAffinity
<1>2. SequentialInv /\ [Next]_vars => SequentialInv'
  <2>1. ASSUME SequentialInv, UNCHANGED vars
        PROVE  SequentialInv'
    <3>1. TypeInv'
      BY <2>1, NextTypes DEF SequentialInv
    <3> QED
      BY <2>1, <3>1 DEF vars, effects, SequentialInv, Unshown, NoEffects, ReviewAgrees, UpToDate, Linked
  <2>2. ASSUME SequentialInv, Crash
        PROVE  SequentialInv'
    <3>1. TypeInv'
      BY <2>2, CrashTypes DEF SequentialInv
    <3>2. \A r \in Requests : UpToDate(r)'
      BY <2>2 DEF Crash, NoRequest, UpToDate, InEffects, PastAffinity
    <3> QED
      BY <2>2, <3>1, <3>2 DEF Crash, effects, SequentialInv, Unshown, NoEffects, ReviewAgrees
  <2> QED
    BY <2>1, <2>2, NextCases, EffectAlone, RouteAlone, Zenon
<1> QED
  BY <1>1, <1>2, PTL DEF Spec

\* One request at a time, on any route but the patch, whichever of its calls
\* fail and wherever the process ends: a rejected event has had no side effect.
THEOREM RejectedHasHadNoEffects ==
  ASSUME "patch" \notin Kinds, \A r, s \in Requests : r = s
  PROVE  Spec => []RejectedHasNoEffects
<1>1. Spec => []SequentialInv
  BY Sequential DEF OneAtATime
<1>2. SequentialInv => RejectedHasNoEffects
  BY DEF SequentialInv, RejectedHasNoEffects, Unshown
<1> QED
  BY <1>1, <1>2, PTL

\* Under the same conditions the review on record is the status of the event.
THEOREM ReviewsAgree ==
  ASSUME "patch" \notin Kinds, \A r, s \in Requests : r = s
  PROVE  Spec => []ReviewAgrees
<1>1. Spec => []SequentialInv
  BY Sequential DEF OneAtATime
<1>2. SequentialInv => ReviewAgrees
  BY DEF SequentialInv
<1> QED
  BY <1>1, <1>2, PTL

\* A change of the ledger is one new entry, and its viewer's affinity is what
\* it was and what the entry grants.
AddsUp ==
  \/ ledger' = ledger /\ affinity' = affinity
  \/ \E e \in Events \ ledger :
       /\ ledger' = ledger \cup {e}
       /\ affinity' = [affinity EXCEPT ![Viewer[e]] = @ + Delta[e]]

\* Under the same conditions, and without a raw event's own relationship, no
\* grant is lost: each new ledger entry adds what its event grants.
THEOREM EntriesAddUp ==
  ASSUME Kinds \cap {"patch", "event"} = {}, \A r, s \in Requests : r = s
  PROVE  Spec => [][AddsUp]_<<ledger, affinity>>
<1>1. Spec => []SequentialInv
  BY Sequential DEF OneAtATime
<1>2. ASSUME SequentialInv, [Next]_vars
      PROVE  [AddsUp]_<<ledger, affinity>>
  <2>1. ASSUME NEW r \in Requests, EntryAdded(req[r].event, req[r].previous), At(r, "affinity")
        PROVE  AddsUp
    <3>1. PICK e \in Events : e = req[r].event
      BY <1>2, <2>1 DEF SequentialInv, TypeInv, Carries, At
    <3>2. TypeOK /\ Viewer[e] \in Viewers /\ req[r].kind # "event"
      BY <1>2, <2>1, <3>1 DEF SequentialInv, TypeInv, Carries, At
    <3>3. req[r].previous = affinity[Viewer[e]]
      BY <1>2, <2>1, <3>1, <3>2, ConstantsAssumption DEF SequentialInv, UpToDate, Linked, At
    <3>4. CASE e \in ledger
      BY <2>1, <3>1, <3>4 DEF EntryAdded, AddsUp
    <3>5. CASE e \notin ledger
      BY <2>1, <3>1, <3>3, <3>5 DEF EntryAdded, AddsUp
    <3> QED
      BY <3>4, <3>5
  <2>2. ASSUME NEW r \in Requests, EffectStep(r)
        PROVE  [AddsUp]_<<ledger, affinity>>
    BY <2>1, <2>2
    DEF EffectStep, ApplyAffinity, CreateOverlayEvent, EnqueueOverlay, CreateReactionRequest,
        EnqueueReaction, RecordAffinityDlq, RecordOverlayDlq, RecordReactionDlq, RecordDlq, Caught,
        AffinityRejects, OverlayRejects, ReactionRejects, EnqueueRejects
  <2>3. ASSUME NEW r \in Requests, RouteStep(r)
        PROVE  UNCHANGED <<ledger, affinity>>
    BY <2>3
    DEF RouteStep, Submit, Lookup, ReadAffinity, CreateSupport, ReadReview, ReadHeldEvent,
        ReadPatchedEvent, UpdateSupport, WriteAudit, Dies, effects
  <2>4. Crash \/ UNCHANGED vars => UNCHANGED <<ledger, affinity>>
    BY DEF Crash, vars, effects
  <2> QED
    BY <1>2, <2>2, <2>3, <2>4, NextCases, Zenon
<1> QED
  BY <1>1, <1>2, PTL DEF Spec

-----------------------------------------------------------------------------
(* What the ledger grants. *)

Grants(v) == {e \in ledger : Viewer[e] = v}
FinitePoints == \A v \in Viewers : IsFiniteSet(Points(Grants(v)))

\* One more event grants its own points, besides those of the others.
LEMMA OneMoreGrant ==
  ASSUME NEW S, NEW e, e \notin S, Delta[e] \in Nat, IsFiniteSet(Points(S))
  PROVE  /\ IsFiniteSet(Points(S \cup {e}))
         /\ Cardinality(Points(S \cup {e})) = Cardinality(Points(S)) + Delta[e]
<1> DEFINE own == {e} \X (1 .. Delta[e])
<1>1. Points(S \cup {e}) = Points(S) \cup own
  BY DEF Points
<1>2. Points(S) \cap own = {}
  BY DEF Points
<1>3. IsFiniteSet(1 .. Delta[e]) /\ Cardinality(1 .. Delta[e]) = Delta[e]
  BY FS_Interval
<1>4. IsFiniteSet({e}) /\ Cardinality({e}) = 1
  BY FS_Singleton
<1>5. IsFiniteSet(own) /\ Cardinality(own) = Delta[e]
  <2> DEFINE T == 1 .. Delta[e]
  <2>1. IsFiniteSet(T) /\ Cardinality(T) = Delta[e]
    BY <1>3
  <2> HIDE DEF T
  <2>2. IsFiniteSet({e} \X T) /\ Cardinality({e} \X T) = Cardinality({e}) * Cardinality(T)
    BY <1>4, <2>1, FS_Product
  <2>3. Cardinality({e} \X T) = Delta[e]
    BY <1>4, <2>1, <2>2
  <2> QED
    BY <2>2, <2>3 DEF T
<1> HIDE DEF own
<1>6. /\ IsFiniteSet(Points(S) \cup own)
      /\ Cardinality(Points(S) \cup own) = Cardinality(Points(S)) + Cardinality(own) - Cardinality({})
  BY <1>2, <1>5, FS_Union
<1>7. Cardinality({}) = 0 /\ Cardinality(Points(S)) \in Nat
  BY FS_EmptySet, FS_CardinalityType
<1>8. Cardinality(Points(S) \cup own) = Cardinality(Points(S)) + Delta[e]
  BY <1>5, <1>6, <1>7
<1> QED
  BY <1>1, <1>6, <1>8

\* A new entry of the ledger, as each viewer sees it.
LEMMA EntryGrants ==
  ASSUME TypeOK, FinitePoints, NEW e \in Events \ ledger, ledger' = ledger \cup {e}, NEW v \in Viewers
  PROVE  /\ IsFiniteSet(Points(Grants(v)))'
         /\ Granted(v) \in Nat
         /\ Granted(v)' = IF Viewer[e] = v THEN Granted(v) + Delta[e] ELSE Granted(v)
<1>1. IsFiniteSet(Points(Grants(v))) /\ Delta[e] \in Nat
  BY ConstantsAssumption DEF FinitePoints
<1>2. Granted(v) = Cardinality(Points(Grants(v))) /\ Granted(v)' = Cardinality(Points(Grants(v)'))
  BY DEF Granted, Grants, Points
<1>3. Granted(v) \in Nat
  BY <1>1, <1>2, FS_CardinalityType
<1>4. CASE Viewer[e] = v
  <2>1. Grants(v)' = Grants(v) \cup {e} /\ e \notin Grants(v)
    BY <1>4 DEF Grants
  <2>2. /\ IsFiniteSet(Points(Grants(v) \cup {e}))
        /\ Cardinality(Points(Grants(v) \cup {e})) = Cardinality(Points(Grants(v))) + Delta[e]
    BY <1>1, <2>1, OneMoreGrant
  <2> QED
    BY <1>2, <1>3, <1>4, <2>1, <2>2 DEF Points
<1>5. CASE Viewer[e] # v
  <2>1. Grants(v)' = Grants(v)
    BY <1>5 DEF Grants
  <2> QED
    BY <1>1, <1>2, <1>3, <1>5, <2>1 DEF Points
<1> QED
  BY <1>4, <1>5

\* Nothing is granted to begin with.
LEMMA InitGrants == Init => FinitePoints /\ \A v \in Viewers : Granted(v) = 0 /\ affinity[v] = 0
<1> SUFFICES ASSUME Init PROVE FinitePoints /\ \A v \in Viewers : Granted(v) = 0 /\ affinity[v] = 0
  OBVIOUS
<1>1. \A v : Points({e \in ledger : Viewer[e] = v}) = {}
  BY DEF Init, Points
<1> QED
  BY <1>1, FS_EmptySet DEF Init, FinitePoints, Grants, Granted

\* One request at a time, without a raw event's own relationship and without
\* the patch route, whichever calls fail: a viewer's affinity is what all the
\* entries of the ledger grant together.
THEOREM AffinityAddsUp ==
  ASSUME Kinds \cap {"patch", "event"} = {}, \A r, s \in Requests : r = s
  PROVE  Spec => []AffinityAdds
<1>1. Spec => []TypeInv
  BY InitTypes, NextTypes, PTL DEF Spec
<1>2. Spec => [][AddsUp]_<<ledger, affinity>>
  BY EntriesAddUp
<1>3. Init => FinitePoints /\ AffinityAdds
  BY InitGrants DEF AffinityAdds
<1>4. ASSUME TypeInv, FinitePoints, AffinityAdds, [AddsUp]_<<ledger, affinity>>
      PROVE  FinitePoints' /\ AffinityAdds'
  <2>1. CASE ledger' = ledger /\ affinity' = affinity
    BY <1>4, <2>1 DEF FinitePoints, AffinityAdds, Grants, Granted, Points
  <2>2. ASSUME NEW e \in Events \ ledger, ledger' = ledger \cup {e},
               affinity' = [affinity EXCEPT ![Viewer[e]] = @ + Delta[e]]
        PROVE  FinitePoints' /\ AffinityAdds'
    <3>1. TypeOK
      BY <1>4 DEF TypeInv
    <3>2. ASSUME NEW v \in Viewers
          PROVE  IsFiniteSet(Points(Grants(v)))' /\ affinity'[v] = Granted(v)'
      <4>1. /\ IsFiniteSet(Points(Grants(v)))'
            /\ Granted(v)' = IF Viewer[e] = v THEN Granted(v) + Delta[e] ELSE Granted(v)
        BY <1>4, <2>2, <3>1, EntryGrants
      <4>2. affinity'[v] = IF Viewer[e] = v THEN affinity[v] + Delta[e] ELSE affinity[v]
        BY <2>2, <3>1 DEF TypeOK
      <4> QED
        BY <1>4, <4>1, <4>2 DEF AffinityAdds
    <3> QED
      BY <3>2 DEF FinitePoints, AffinityAdds
  <2> QED
    BY <1>4, <2>1, <2>2 DEF AddsUp
<1> QED
  BY <1>1, <1>2, <1>3, <1>4, PTL DEF Spec

-----------------------------------------------------------------------------
(* Any number of requests: a grant may be lost, but nothing is granted twice. *)

\* What a request read is no more than the ledger grants by now.
GrantInv ==
  /\ TypeInv /\ FinitePoints
  /\ \A v \in Viewers : affinity[v] <= Granted(v)
  /\ \A r \in Requests :
       req[r].event \in Events /\ Linked(req[r].event) => req[r].previous <= Granted(Viewer[req[r].event])

\* A change of the ledger is made with the affinity that a request has read.
LEMMA LedgerSteps ==
  ASSUME [Next]_vars
  PROVE  \/ ledger' = ledger /\ affinity' = affinity
         \/ \E r \in Requests : At(r, "affinity") /\ EntryAdded(req[r].event, req[r].previous)
<1>1. ASSUME NEW r \in Requests, EffectStep(r)
      PROVE  \/ ledger' = ledger /\ affinity' = affinity
             \/ At(r, "affinity") /\ EntryAdded(req[r].event, req[r].previous)
  BY <1>1
  DEF EffectStep, ApplyAffinity, CreateOverlayEvent, EnqueueOverlay, CreateReactionRequest,
      EnqueueReaction, RecordAffinityDlq, RecordOverlayDlq, RecordReactionDlq, RecordDlq, Caught,
      AffinityRejects, OverlayRejects, ReactionRejects, EnqueueRejects
<1>2. ASSUME NEW r \in Requests, RouteStep(r)
      PROVE  ledger' = ledger /\ affinity' = affinity
  BY <1>2
  DEF RouteStep, Submit, Lookup, ReadAffinity, CreateSupport, ReadReview, ReadHeldEvent,
      ReadPatchedEvent, UpdateSupport, WriteAudit, Dies, effects
<1>3. Crash \/ UNCHANGED vars => ledger' = ledger /\ affinity' = affinity
  BY DEF Crash, vars, effects
<1> QED
  BY <1>1, <1>2, <1>3, NextCases

\* Where the affinity that a request has read comes from.
LEMMA PreviousSteps ==
  ASSUME TypeInv, "event" \notin Kinds, [Next]_vars, NEW s \in Requests
  PROVE  \/ req'[s].previous = 0
         \/ /\ req'[s].event = req[s].event
            /\ \/ req'[s].previous = req[s].previous
               \/ Linked(req[s].event) => req'[s].previous = affinity[Viewer[req[s].event]]
<1> DEFINE Kept(q, p) == \/ q.previous = 0
                         \/ /\ q.event = p.event
                            /\ \/ q.previous = p.previous
                               \/ Linked(p.event) => q.previous = affinity[Viewer[p.event]]
<1>1. TypeOK
  BY DEF TypeInv
<1>2. CASE Crash
  BY <1>2 DEF Crash, NoRequest
<1>3. CASE UNCHANGED vars
  BY <1>3 DEF vars
<1>4. ASSUME NEW r \in Requests, EffectStep(r) \/ RouteStep(r)
      PROVE  Kept(req'[s], req[s])
  <2>1. OthersStay(r)
    BY <1>1, <1>4, StepFrame
  <2>2. CASE s # r
    BY <2>1, <2>2 DEF OthersStay
  <2>3. ASSUME NEW pc, Goto(r, pc)
        PROVE  Kept(req'[r], req[r])
    BY <1>1, <2>3 DEF Goto, NoRequest, TypeOK, Request
  <2>4. CASE Submit(r)
    BY <1>1, <2>4
    DEF Submit, SubmitEvent, SubmitIngest, SubmitManual, SubmitApprove, SubmitReject, SubmitPatch,
        Accept, TypeOK
  <2>5. CASE ReadAffinity(r)
    BY <1>1, <2>5 DEF ReadAffinity, TypeOK, Request
  <2>6. CASE ReadPatchedEvent(r) /\ ~Goto(r, "idle")
    BY <1>1, <2>6 DEF ReadPatchedEvent, TypeOK, Request
  <2>7. \/ Submit(r) \/ ReadAffinity(r) \/ (ReadPatchedEvent(r) /\ ~Goto(r, "idle"))
        \/ \E pc : Goto(r, pc)
    BY <1>4
    DEF EffectStep, RouteStep, ApplyAffinity, CreateOverlayEvent, EnqueueOverlay, CreateReactionRequest,
        EnqueueReaction, RecordAffinityDlq, RecordOverlayDlq, RecordReactionDlq, RecordDlq, Caught,
        AffinityRejects, OverlayRejects, ReactionRejects, EnqueueRejects, Lookup, CreateSupport,
        ReadReview, ReadHeldEvent, UpdateSupport, WriteAudit, Dies
  <2> HIDE DEF Kept
  <2> QED
    BY <2>2, <2>3, <2>4, <2>5, <2>6, <2>7
<1> QED
  BY <1>2, <1>3, <1>4, NextCases

\* Whatever is interleaved with reading and granting, the bound is kept.
LEMMA GrantStep == "event" \notin Kinds /\ GrantInv /\ [Next]_vars => GrantInv'
<1> SUFFICES ASSUME "event" \notin Kinds, GrantInv, [Next]_vars PROVE GrantInv'
  OBVIOUS
<1>1. TypeInv /\ TypeInv' /\ TypeOK
  BY NextTypes DEF GrantInv, TypeInv
<1>2. \A v \in Viewers : Granted(v) \in Nat
  BY FS_CardinalityType DEF GrantInv, FinitePoints, Granted, Grants
<1>3. /\ FinitePoints'
      /\ \A v \in Viewers : Granted(v)' \in Nat /\ Granted(v) <= Granted(v)' /\ affinity'[v] <= Granted(v)'
  <2>1. CASE ledger' = ledger /\ affinity' = affinity
    BY <1>2, <2>1 DEF GrantInv, FinitePoints, Grants, Granted, Points
  <2>2. ASSUME NEW r \in Requests, At(r, "affinity"), EntryAdded(req[r].event, req[r].previous),
               ~(ledger' = ledger /\ affinity' = affinity)
        PROVE  /\ FinitePoints'
               /\ \A v \in Viewers : Granted(v)' \in Nat /\ Granted(v) <= Granted(v)' /\ affinity'[v] <= Granted(v)'
    <3>1. req[r].event \in Events /\ Viewer[req[r].event] \in Viewers
      BY <1>1, <2>2 DEF TypeInv, Carries, At
    <3>2. PICK e \in Events \ ledger : e = req[r].event
      BY <2>2, <3>1 DEF EntryAdded
    <3>3. PICK n \in Nat : n = req[r].previous /\ n <= Granted(Viewer[e])
      BY <1>1, <3>1, <3>2, ConstantsAssumption DEF GrantInv, Linked, TypeOK, Request
    <3>4. ledger' = ledger \cup {e} /\ affinity' = [affinity EXCEPT ![Viewer[e]] = n + Delta[e]]
      BY <2>2, <3>2, <3>3 DEF EntryAdded
    <3>5. ASSUME NEW v \in Viewers
          PROVE  /\ IsFiniteSet(Points(Grants(v)))'
                 /\ Granted(v)' \in Nat /\ Granted(v) <= Granted(v)' /\ affinity'[v] <= Granted(v)'
      <4>1. /\ IsFiniteSet(Points(Grants(v)))' /\ Granted(v) \in Nat
            /\ Granted(v)' = IF Viewer[e] = v THEN Granted(v) + Delta[e] ELSE Granted(v)
        BY <1>1, <3>4, EntryGrants DEF GrantInv
      <4>2. affinity'[v] = IF Viewer[e] = v THEN n + Delta[e] ELSE affinity[v]
        BY <1>1, <3>4 DEF TypeOK
      <4>3. Delta[e] \in Nat /\ affinity[v] <= Granted(v)
        BY ConstantsAssumption DEF GrantInv
      <4> QED
        BY <3>3, <4>1, <4>2, <4>3
    <3> QED
      BY <3>5 DEF FinitePoints
  <2> QED
    BY <2>1, <2>2, LedgerSteps
<1>4. ASSUME NEW s \in Requests
      PROVE  (req[s].event \in Events /\ Linked(req[s].event)
              => req[s].previous <= Granted(Viewer[req[s].event]))'
  <2>1. SUFFICES ASSUME NEW e \in Events, e = req'[s].event, NEW v \in Viewers, v = Viewer[e]
                 PROVE  req'[s].previous <= Granted(v)'
    BY ConstantsAssumption DEF Linked, Granted
  <2>2. \/ req'[s].previous = 0
        \/ req[s].event = e /\ req'[s].previous \in {req[s].previous, affinity[v]}
    BY <1>1, <2>1, PreviousSteps, ConstantsAssumption DEF Linked
  <2>3. req[s].event = e => req[s].previous <= Granted(v) /\ req[s].previous \in Nat
    BY <1>1, <2>1, ConstantsAssumption DEF GrantInv, TypeOK, Request, Linked
  <2>4. affinity[v] \in Nat /\ affinity[v] <= Granted(v)
    BY <1>1 DEF GrantInv, TypeOK
  <2> QED
    BY <1>2, <1>3, <2>2, <2>3, <2>4
<1> QED
  BY <1>1, <1>3, <1>4 DEF GrantInv, Linked

\* However requests of all routes but the raw event interleave, fail or end
\* with the process: no viewer has more affinity than the ledger grants.  The
\* affinity is read before the entry that is computed from it is written, so
\* requests of one viewer may lose a grant; none is counted twice.
THEOREM NothingIsGrantedTwice ==
  ASSUME "event" \notin Kinds
  PROVE  Spec => [](\A v \in Viewers : affinity[v] <= Granted(v))
<1>1. Init => GrantInv
  BY InitTypes, InitGrants, ConstantsAssumption DEF Init, NoRequest, GrantInv
<1>2. GrantInv => \A v \in Viewers : affinity[v] <= Granted(v)
  BY DEF GrantInv
<1> QED
  BY <1>1, <1>2, GrantStep, PTL DEF Spec

-----------------------------------------------------------------------------
(* Any number of requests, as long as only one of approve and reject is in  *)
(* use: what breaks the two properties is the race of the two reviews.      *)

OneReview == Kinds \cap {"manual", "patch"} = {} /\ ~({"approve", "reject"} \subseteq Kinds)

\* A review in progress finds its event, now with status s, still held or
\* reviewed as it would itself; what was written stays.
Prevails(q, s) ==
  /\ q.pc \in {"readAffinity", "update"} /\ q.kind \in {"approve", "reject"} => s \in {"hold", q.status}
  /\ q.pc \in InEffects \cup {"audit"} => s = q.status
  /\ q.pc \in InEffects => q.status \in {"approved", "display_only"}
  /\ q.pc = "audit" => q.kind \in {"approve", "reject"}
  /\ q.pc = "lookup" => q.kind = "ingest"

OneReviewInv ==
  /\ TypeInv
  /\ \A e \in Events : Unshown(e) => NoEffects(e)
  /\ ReviewAgrees
  /\ \A r \in Requests : Prevails(req[r], support[req[r].event])

\* The effects only touch an event whose status calls for them.
LEMMA EffectPrevails ==
  ASSUME OneReview, OneReviewInv, NEW r \in Requests, EffectStep(r)
  PROVE  OneReviewInv'
<1>1. TypeInv'
  BY EffectTypes DEF EffectStep, OneReviewInv
<1>2. /\ TypeOK /\ req[r] \in Request /\ Carries(req[r])
      /\ \A s \in Requests : Prevails(req[s], support[req[s].event])
  BY DEF OneReviewInv, TypeInv, TypeOK
<1>3. OthersStay(r)
  BY <1>2, StepFrame
<1>4. /\ support' = support /\ review' = review /\ req[r].pc \in InEffects
  BY DEF EffectStep, ApplyAffinity, CreateOverlayEvent, EnqueueOverlay, CreateReactionRequest,
         EnqueueReaction, RecordAffinityDlq, RecordOverlayDlq, RecordReactionDlq, RecordDlq, Caught,
         AffinityRejects, OverlayRejects, ReactionRejects, EnqueueRejects, At, InEffects, PastAffinity
<1>5. PICK pc \in InEffects \cup {"audit", "idle"} :
        Goto(r, pc) /\ (pc = "audit" => req[r].kind \in {"approve", "manual"})
  BY DEF EffectStep, ApplyAffinity, CreateOverlayEvent, EnqueueOverlay, CreateReactionRequest,
         EnqueueReaction, RecordAffinityDlq, RecordOverlayDlq, RecordReactionDlq, RecordDlq, Caught,
         AffinityRejects, OverlayRejects, ReactionRejects, EnqueueRejects, OverlayOrReturn,
         ReactionOrReturn, AfterEffects, InEffects, PastAffinity
<1>6. req[r].event \in Events /\ req[r].kind \in Kinds \ {"manual"} /\ Prevails(req[r], support[req[r].event])
  BY <1>2, <1>4 DEF Carries, InEffects, PastAffinity, OneReview
<1>7. Prevails(req'[r], support'[req'[r].event])
  BY <1>2, <1>4, <1>5, <1>6 DEF Goto, NoRequest, Prevails, InEffects, PastAffinity, Request, TypeOK
<1>8. /\ ledger' \subseteq ledger \cup {req[r].event}
      /\ overlays' \subseteq overlays \cup {req[r].event}
      /\ reactions' \subseteq reactions \cup {req[r].event}
      /\ jobs' \subseteq jobs \cup ({"overlay", "reaction"} \X {req[r].event})
  BY DEF EffectStep, ApplyAffinity, CreateOverlayEvent, EnqueueOverlay, CreateReactionRequest,
         EnqueueReaction, RecordAffinityDlq, RecordOverlayDlq, RecordReactionDlq, RecordDlq, Caught,
         AffinityRejects, OverlayRejects, ReactionRejects, EnqueueRejects, EntryAdded
<1>9. ASSUME NEW e \in Events, Unshown(e)'
      PROVE  NoEffects(e)'
  <2>1. Unshown(e) /\ e # req[r].event
    BY <1>4, <1>6, <1>9 DEF Unshown, Prevails
  <2>2. NoEffects(e)
    BY <2>1 DEF OneReviewInv
  <2> QED
    BY <1>8, <2>1, <2>2 DEF NoEffects
<1>10. ReviewAgrees'
  BY <1>4 DEF OneReviewInv, ReviewAgrees
<1>11. \A s \in Requests : Prevails(req'[s], support'[req'[s].event])
  BY <1>2, <1>3, <1>4, <1>7 DEF OthersStay
<1> QED
  BY <1>1, <1>9, <1>10, <1>11 DEF OneReviewInv, Unshown

\* A new event, or the review of one: the others find what they relied on.
LEMMA StatusPrevails ==
  ASSUME OneReview, OneReviewInv, NEW r \in Requests, NEW e \in Events, e = req[r].event,
         OthersStay(r), TypeInv', UNCHANGED <<effects, review>>,
         support' = [support EXCEPT ![e] = req[r].status],
         \/ support[e] = "none"
         \/ req[r].pc = "update",
         req[r].pc \in {"create", "update"},
         Prevails(req'[r], req[r].status), req'[r].pc # "idle" => req'[r].event = e
  PROVE  OneReviewInv'
<1>1. TypeOK /\ \A s \in Requests : req[s] \in Request /\ Carries(req[s]) /\ Prevails(req[s], support[req[s].event])
  BY DEF OneReviewInv, TypeInv, TypeOK
<1>2. \/ support[e] = "none"
      \/ /\ req[r].kind \in {"approve", "reject"} \cap Kinds /\ support[e] \in {"hold", req[r].status}
         /\ req[r].status = IF req[r].kind = "approve" THEN "approved" ELSE "rejected"
  BY <1>1 DEF Carries, Prevails, OneReview
<1>3. ASSUME NEW s \in Requests \ {r}
      PROVE  Prevails(req'[s], support'[req'[s].event])
  <2>1. req'[s] = req[s] /\ req[s] \in Request /\ Carries(req[s]) /\ Prevails(req[s], support[req[s].event])
    BY <1>1, <1>3 DEF OthersStay
  <2>2. CASE req[s].event # e
    <3>1. support'[req[s].event] = support[req[s].event]
      BY <1>1, <2>2 DEF TypeOK
    <3> QED
      BY <2>1, <3>1
  <2>3. CASE req[s].event = e
    <3>1. support'[e] = req[r].status
      BY <1>1 DEF TypeOK
    <3>2. Prevails(req[s], support[e])
      BY <2>1, <2>3
    <3>3. Prevails(req[s], req[r].status)
      <4>1. CASE support[e] = "none"
        BY <2>1, <3>2, <4>1 DEF Prevails, Carries, Status, InEffects, PastAffinity
      <4>2. CASE support[e] = req[r].status
        BY <3>2, <4>2
      <4>3. CASE support[e] = "hold" /\ req[r].kind \in {"approve", "reject"} \cap Kinds
                 /\ req[r].status = IF req[r].kind = "approve" THEN "approved" ELSE "rejected"
        BY <2>1, <3>2, <4>3 DEF Prevails, Carries, OneReview, InEffects, PastAffinity
      <4> QED
        BY <1>2, <4>1, <4>2, <4>3
    <3> QED
      BY <2>1, <2>3, <3>1, <3>3
  <2> QED
    BY <2>2, <2>3
<1>4. Prevails(req'[r], support'[req'[r].event])
  <2>1. CASE req'[r].pc = "idle"
    BY <2>1 DEF Prevails, InEffects, PastAffinity
  <2>2. CASE req'[r].pc # "idle"
    BY <1>1, <2>2 DEF TypeOK
  <2> QED
    BY <2>1, <2>2
<1>5. ASSUME NEW k \in Events, Unshown(k)'
      PROVE  NoEffects(k)'
  <2>1. Unshown(k)
    <3>1. CASE k = e
      BY <1>1, <1>2, <1>5, <3>1 DEF Unshown, TypeOK
    <3>2. CASE k # e
      BY <1>1, <1>5, <3>2 DEF Unshown, TypeOK
    <3> QED
      BY <3>1, <3>2
  <2>2. NoEffects(k)
    BY <2>1 DEF OneReviewInv
  <2> QED
    BY <2>2 DEF NoEffects, effects
<1>6. ReviewAgrees'
  <2>1. review[e] # "none" => review[e] = req[r].status
    BY <1>1, <1>2 DEF OneReviewInv, ReviewAgrees, TypeOK
  <2> QED
    BY <1>1, <2>1 DEF OneReviewInv, ReviewAgrees, TypeOK
<1> QED
  BY <1>3, <1>4, <1>5, <1>6 DEF OneReviewInv, Unshown

\* The steps around the effects.
LEMMA RoutePrevails ==
  ASSUME OneReview, OneReviewInv, NEW r \in Requests, RouteStep(r)
  PROVE  OneReviewInv'
<1>1. TypeInv'
  BY SubmitTypes, RouteTypes DEF RouteStep, OneReviewInv
<1>2. /\ TypeOK /\ req[r] \in Request /\ Carries(req[r]) /\ Prevails(req[r], support[req[r].event])
      /\ \A s \in Requests : Prevails(req[s], support[req[s].event])
  BY DEF OneReviewInv, TypeInv, TypeOK
<1>3. OthersStay(r)
  BY <1>2, StepFrame
<1>4. UNCHANGED effects
  BY DEF RouteStep, Submit, Lookup, ReadAffinity, CreateSupport, ReadReview, ReadHeldEvent,
         ReadPatchedEvent, UpdateSupport, WriteAudit, Dies
<1>5. ASSUME support' = support, ReviewAgrees', Prevails(req'[r], support[req'[r].event])
      PROVE  OneReviewInv'
  <2>1. \A e \in Events : (Unshown(e) => NoEffects(e))'
    BY <1>4, <1>5 DEF OneReviewInv, Unshown, NoEffects, effects
  <2>2. \A s \in Requests : Prevails(req'[s], support'[req'[s].event])
    BY <1>2, <1>3, <1>5 DEF OthersStay
  <2> QED
    BY <1>1, <1>5, <2>1, <2>2 DEF OneReviewInv
<1>6. review' = review /\ support' = support => ReviewAgrees'
  BY DEF OneReviewInv, ReviewAgrees
<1>7. CASE Submit(r)
  <2>1. /\ support' = support /\ review' = review
        /\ req'[r].pc \in {"create", "lookup", "review", "readEvent"}
        /\ req'[r].pc = "lookup" => req'[r].kind = "ingest"
    BY <1>2, <1>7
    DEF Submit, SubmitEvent, SubmitIngest, SubmitManual, SubmitApprove, SubmitReject, SubmitPatch,
        Accept, TypeOK, OneReview
  <2>2. Prevails(req'[r], support[req'[r].event])
    BY <2>1 DEF Prevails, InEffects, PastAffinity
  <2> QED
    BY <1>5, <1>6, <2>1, <2>2
<1>8. CASE Lookup(r) \/ ReadReview(r) \/ ReadHeldEvent(r) \/ Dies(r)
  <2>1. support' = support /\ review' = review
    BY <1>8 DEF Lookup, ReadReview, ReadHeldEvent, Dies
  <2>2. PICK pc \in {"readAffinity", "readEvent", "idle"} :
          /\ Goto(r, pc)
          /\ pc = "readAffinity" => req[r].kind = "ingest" \/ support[req[r].event] = "hold"
    BY <1>2, <1>8 DEF Lookup, ReadReview, ReadHeldEvent, Dies, At, Prevails
  <2>3. Prevails(req'[r], support[req'[r].event])
    BY <1>2, <2>2 DEF Goto, NoRequest, Prevails, InEffects, PastAffinity, Request, TypeOK
  <2> QED
    BY <1>5, <1>6, <2>1, <2>3
<1>9. CASE ReadPatchedEvent(r)
  BY <1>2, <1>9 DEF ReadPatchedEvent, At, Carries, OneReview
<1>10. CASE ReadAffinity(r)
  <2>1. support' = support /\ review' = review
    BY <1>10 DEF ReadAffinity
  <2>2. PICK n, pc :
          /\ req' = [req EXCEPT ![r] = [req[r] EXCEPT !.previous = n, !.pc = pc]]
          /\ pc = IF req[r].kind \in {"approve", "reject"} THEN "update" ELSE "create"
    BY <1>10 DEF ReadAffinity
  <2>3. req'[r].pc = pc /\ req'[r].kind = req[r].kind /\ req'[r].event = req[r].event /\ req'[r].status = req[r].status
    BY <1>2, <2>2 DEF Request, TypeOK
  <2>4. req[r].pc = "readAffinity"
    BY <1>10 DEF ReadAffinity, At
  <2>5. Prevails(req'[r], support[req'[r].event])
    BY <1>2, <2>2, <2>3, <2>4 DEF Prevails, InEffects, PastAffinity
  <2> QED
    BY <1>5, <1>6, <2>1, <2>5
<1>11. CASE CreateSupport(r) \/ UpdateSupport(r)
  <2>1. /\ req[r].event \in Events /\ req[r].status \in Status /\ req[r].pc \in {"create", "update"}
        /\ req[r].kind \in Kinds \ {"manual", "patch"} /\ review' = review
    BY <1>2, <1>11 DEF CreateSupport, UpdateSupport, At, Carries, OneReview
  <2>2. CASE CreateSupport(r) /\ support[req[r].event] # "none"
    <3>1. support' = support /\ Goto(r, "idle")
      BY <2>1, <2>2 DEF CreateSupport
    <3>2. Prevails(req'[r], support[req'[r].event])
      BY <1>2, <3>1 DEF Goto, NoRequest, Prevails, InEffects, PastAffinity, TypeOK
    <3> QED
      BY <1>5, <1>6, <2>1, <3>1, <3>2
  <2>3. CASE UpdateSupport(r) \/ (CreateSupport(r) /\ support[req[r].event] = "none")
    <3>1. support' = [support EXCEPT ![req[r].event] = req[r].status]
      BY <2>3 DEF CreateSupport, UpdateSupport
    <3>2. req[r].pc = "update" \/ support[req[r].event] = "none"
      BY <2>3 DEF UpdateSupport, At
    <3>3. PICK pc \in {"affinity", "overlayRow", "audit", "idle"} :
            /\ Goto(r, pc)
            /\ pc \in {"affinity", "overlayRow"} => req[r].status \in {"approved", "display_only"}
            /\ pc = "audit" => req[r].kind \in {"approve", "reject"}
      <4>1. CASE UpdateSupport(r)
        BY <1>2, <2>1, <4>1
        DEF UpdateSupport, At, Carries, BeginEffects, OverlayOrReturn, AfterEffects, CanApplyAffinity, CanEmitOverlay
      <4>2. CASE CreateSupport(r) /\ support[req[r].event] = "none"
        BY <2>1, <4>2
        DEF CreateSupport, BeginEffects, OverlayOrReturn, AfterEffects, CanApplyAffinity, CanEmitOverlay
      <4> QED
        BY <2>3, <4>1, <4>2
    <3>4. /\ Prevails(req'[r], req[r].status)
          /\ req'[r].pc # "idle" => req'[r].event = req[r].event
      BY <1>2, <3>3 DEF Goto, NoRequest, Prevails, InEffects, PastAffinity, Request, TypeOK
    <3> QED
      BY <1>1, <1>3, <1>4, <2>1, <3>1, <3>2, <3>4, StatusPrevails
  <2> QED
    BY <1>11, <2>2, <2>3
<1>12. CASE WriteAudit(r)
  <2>1. support' = support /\ Goto(r, "idle") /\ req[r].pc = "audit" /\ req[r].event \in Events
    BY <1>2, <1>12 DEF WriteAudit, At, Carries
  <2>2. Prevails(req'[r], support[req'[r].event])
    BY <1>2, <2>1 DEF Goto, NoRequest, Prevails, InEffects, PastAffinity, TypeOK
  <2>3. req[r].kind \in {"approve", "reject"} /\ support[req[r].event] = req[r].status
    BY <1>2, <2>1 DEF Prevails
  <2>4. PICK status \in {review[req[r].event], req[r].status} \ {"none"} :
          review' = [review EXCEPT ![req[r].event] = status]
    BY <1>12, <2>3 DEF WriteAudit
  <2>5. status = support[req[r].event]
    BY <2>1, <2>3, <2>4 DEF OneReviewInv, ReviewAgrees
  <2>6. ReviewAgrees'
    BY <1>2, <2>1, <2>4, <2>5 DEF OneReviewInv, ReviewAgrees, TypeOK
  <2> QED
    BY <1>5, <2>1, <2>2, <2>6
<1> QED
  BY <1>7, <1>8, <1>9, <1>10, <1>11, <1>12 DEF RouteStep

\* However many requests create and review events at once, in whatever order
\* their calls interleave or fail, and wherever the process ends: if all reviews
\* in use are approvals, or all are rejections, a rejected event has had no
\* effect and a review on record is the status of its event.  The race of an
\* approval and a rejection is what breaks both.
THEOREM ReviewsOfOneKindAgree ==
  ASSUME Kinds \cap {"manual", "patch"} = {}, ~({"approve", "reject"} \subseteq Kinds)
  PROVE  Spec => [](RejectedHasNoEffects /\ ReviewAgrees)
<1> OneReview
  BY DEF OneReview
<1>1. Init => OneReviewInv
  BY InitTypes
  DEF Init, NoRequest, OneReviewInv, NoEffects, ReviewAgrees, Prevails, InEffects, PastAffinity
<1>2. OneReviewInv /\ [Next]_vars => OneReviewInv'
  <2>1. ASSUME OneReviewInv, UNCHANGED vars
        PROVE  OneReviewInv'
    <3>1. TypeInv'
      BY <2>1, NextTypes DEF OneReviewInv
    <3> QED
      BY <2>1, <3>1 DEF vars, effects, OneReviewInv, Unshown, NoEffects, ReviewAgrees
  <2>2. ASSUME OneReviewInv, Crash
        PROVE  OneReviewInv'
    <3>1. TypeInv'
      BY <2>2, CrashTypes DEF OneReviewInv
    <3>2. \A r \in Requests : Prevails(req'[r], support'[req'[r].event])
      BY <2>2 DEF Crash, NoRequest, Prevails, InEffects, PastAffinity
    <3> QED
      BY <2>2, <3>1, <3>2 DEF Crash, effects, OneReviewInv, Unshown, NoEffects, ReviewAgrees
  <2> QED
    BY <2>1, <2>2, NextCases, EffectPrevails, RoutePrevails, Zenon
<1>3. OneReviewInv => RejectedHasNoEffects /\ ReviewAgrees
  BY DEF OneReviewInv, RejectedHasNoEffects, Unshown
<1> QED
  BY <1>1, <1>2, <1>3, PTL DEF Spec

=============================================================================
