--------------------------- MODULE SupportPipeline ---------------------------
(***************************************************************************)
(* The support.received pipeline of apps/api/src/server.ts: the requests   *)
(* that create a support event, review a held one or adjust one, the side  *)
(* effects of an approved event (affinity ledger entry, overlay event and  *)
(* overlay.emit job, reaction request and reaction.request job), and the   *)
(* dead letters the pipeline writes when one of them fails.                *)
(*                                                                         *)
(* One step is one awaited repository call, as PostgresRepository executes *)
(* it.  With InMemoryRepository a request is in effect not interrupted:    *)
(* that is the instance with a single request.                             *)
(***************************************************************************)
EXTENDS Naturals, FiniteSets

CONSTANTS
  Events,        \* support events, by source and source_event_id
  ManualEvents,  \* those with source admin_manual_support
  NoEvent,       \* no event in hand
  Viewers,       \* IRIS users, for one character
  Viewer,        \* the viewer.iris_user_id of each event
  NoViewer,      \* an event without iris_user_id
  Delta,         \* what calculateAffinityDelta grants for each event's tier
  Claimed,       \* bound: relationship.previous_affinity in a raw event
  Requests,      \* HTTP requests running at the same time
  Kinds,         \* the routes in use
  Unreliable,    \* the calls that may reject, by the name of the step
  MayCrash       \* whether the process may end

Status == {"approved", "hold", "rejected", "display_only"}
AllKinds == {"event", "ingest", "manual", "approve", "reject", "patch"}
Steps == {"lookup", "readAffinity", "create", "review", "readEvent", "update",
          "affinity", "affinityDlq", "overlayRow", "overlayJob", "overlayDlq",
          "reactionRow", "reactionJob", "reactionDlq", "audit"}

ASSUME ConstantsAssumption ==
  /\ IsFiniteSet(Events) /\ ManualEvents \subseteq Events /\ NoEvent \notin Events
  /\ NoViewer \notin Viewers
  /\ Viewer \in [Events -> Viewers \cup {NoViewer}]
  /\ Delta \in [Events -> Nat]
  /\ Claimed \subseteq Nat
  /\ Kinds \subseteq AllKinds
  /\ Unreliable \subseteq Steps
  /\ MayCrash \in BOOLEAN

VARIABLES
  support,    \* support_events.message_moderation_status, "none" without a row
  review,     \* what the review audit logs of an event amount to
  ledger,     \* events with an affinity_ledger entry
  affinity,   \* new_affinity of each viewer's newest entry
  overlays,   \* events with an overlay_events row
  reactions,  \* events with a reaction_requests row
  jobs,       \* outbox jobs <<effect, event>> the effects enqueued
  dlq,        \* dead letters <<effect, event>> of the pipeline
  req         \* what each request is doing

effects == <<ledger, affinity, overlays, reactions, jobs, dlq>>
vars == <<support, review, effects, req>>

\* `status` is the status the request writes, for a patch the requested one
\* until the event is read; `previous` the affinity it read.
Request == [kind : AllKinds \cup {"none"}, event : Events \cup {NoEvent},
            status : Status \cup {"keep"}, previous : Nat, pc : Steps \cup {"idle"}]
NoRequest == [kind |-> "none", event |-> NoEvent, status |-> "keep", previous |-> 0, pc |-> "idle"]

Init ==
  /\ support = [e \in Events |-> "none"]
  /\ review = [e \in Events |-> "none"]
  /\ ledger = {} /\ overlays = {} /\ reactions = {} /\ jobs = {} /\ dlq = {}
  /\ affinity = [v \in Viewers |-> 0]
  /\ req = [r \in Requests |-> NoRequest]

Linked(e) == Viewer[e] # NoViewer
At(r, pc) == req[r].pc = pc
Goto(r, pc) ==
  req' = [req EXCEPT ![r] = IF pc = "idle" THEN NoRequest ELSE [@ EXCEPT !.pc = pc]]

CanApplyAffinity(status) == status = "approved"
\* Mutant: held events are shown on the overlay.
CanEmitOverlay_Held(status) == status \in {"approved", "display_only", "hold"}

CanEmitOverlay(status) == status \in {"approved", "display_only"}
CanRequestAiReaction(status) == status = "approved"

-----------------------------------------------------------------------------
(* Arrival of a request. *)

Accept(r, kind, e, status, previous, pc) ==
  req' = [req EXCEPT ![r] = [kind |-> kind, event |-> e, status |-> status,
                             previous |-> previous, pc |-> pc]]

\* A raw support.received carries its own status and relationship.
SubmitEvent(r, e) ==
  \E status \in Status, previous \in Claimed :
    Accept(r, "event", e, status, previous, "create")

\* A Super Chat fixture.  A token tip takes the same calls, but only with an
\* approved intent: its behaviours are among these.
SubmitIngest(r, e) ==
  /\ e \notin ManualEvents /\ Linked(e)
  /\ \E status \in {"approved", "hold", "rejected"} : Accept(r, "ingest", e, status, 0, "lookup")

SubmitManual(r, e) ==
  /\ e \in ManualEvents /\ Linked(e)
  /\ \E status \in {"approved", "hold", "rejected"} : Accept(r, "manual", e, status, 0, "lookup")

SubmitApprove(r, e) == Accept(r, "approve", e, "approved", 0, "review")
SubmitReject(r, e) == Accept(r, "reject", e, "rejected", 0, "review")

\* A patch to "approved" is answered 409 before anything is written.
SubmitPatch(r, e) ==
  \E status \in {"keep", "hold", "rejected"} : Accept(r, "patch", e, status, 0, "readEvent")

Submit(r) ==
  /\ At(r, "idle")
  /\ \E e \in Events :
       \/ "event" \in Kinds /\ SubmitEvent(r, e)
       \/ "ingest" \in Kinds /\ SubmitIngest(r, e)
       \/ "manual" \in Kinds /\ SubmitManual(r, e)
       \/ "approve" \in Kinds /\ SubmitApprove(r, e)
       \/ "reject" \in Kinds /\ SubmitReject(r, e)
       \/ "patch" \in Kinds /\ SubmitPatch(r, e)
  /\ UNCHANGED <<support, review, effects>>

-----------------------------------------------------------------------------
(* applySupportReceivedEffects: where it begins, and where its caller goes  *)
(* on when it returns.                                                      *)

AfterEffects(r) == IF req[r].kind \in {"approve", "manual"} THEN "audit" ELSE "idle"

OverlayOrReturn(r, status) ==
  IF CanEmitOverlay(status) THEN "overlayRow" ELSE AfterEffects(r)

ReactionOrReturn(r) ==
  IF CanRequestAiReaction(req[r].status) THEN "reactionRow" ELSE AfterEffects(r)

BeginEffects(r) ==
  IF CanApplyAffinity(req[r].status) /\ Linked(req[r].event)
  THEN "affinity" ELSE OverlayOrReturn(r, req[r].status)

\* The unique key keeps the first entry, and then the newest entry of the
\* viewer is still the one it was.
EntryAdded(e, previous) ==
  /\ ledger' = ledger \cup {e}
  /\ affinity' = IF e \in ledger THEN affinity
                 ELSE [affinity EXCEPT ![Viewer[e]] = previous + Delta[e]]

ApplyAffinity(r) ==
  /\ At(r, "affinity")
  /\ EntryAdded(req[r].event, req[r].previous)
  /\ Goto(r, OverlayOrReturn(r, req[r].status))
  /\ UNCHANGED <<support, review, overlays, reactions, jobs, dlq>>

CreateOverlayEvent(r) ==
  /\ At(r, "overlayRow")
  /\ overlays' = overlays \cup {req[r].event}
  /\ Goto(r, "overlayJob")
  /\ UNCHANGED <<support, review, ledger, affinity, reactions, jobs, dlq>>

EnqueueOverlay(r) ==
  /\ At(r, "overlayJob")
  /\ jobs' = jobs \cup {<<"overlay", req[r].event>>}
  /\ Goto(r, ReactionOrReturn(r))
  /\ UNCHANGED <<support, review, ledger, affinity, overlays, reactions, dlq>>

CreateReactionRequest(r) ==
  /\ At(r, "reactionRow")
  /\ reactions' = reactions \cup {req[r].event}
  /\ Goto(r, "reactionJob")
  /\ UNCHANGED <<support, review, ledger, affinity, overlays, jobs, dlq>>

EnqueueReaction(r) ==
  /\ At(r, "reactionJob")
  /\ jobs' = jobs \cup {<<"reaction", req[r].event>>}
  /\ Goto(r, AfterEffects(r))
  /\ UNCHANGED <<support, review, ledger, affinity, overlays, reactions, dlq>>

\* The rejections applySupportReceivedEffects catches.  The statement may have
\* been executed although its answer is an error.
AffinityRejects(r) ==
  /\ At(r, "affinity")
  /\ \/ EntryAdded(req[r].event, req[r].previous)
     \/ UNCHANGED <<ledger, affinity>>
  /\ Goto(r, "affinityDlq")
  /\ UNCHANGED <<support, review, overlays, reactions, jobs, dlq>>

EnqueueRejects(r, effect, pc, dlqPc) ==
  /\ At(r, pc)
  /\ \/ jobs' = jobs \cup {<<effect, req[r].event>>}
     \/ UNCHANGED jobs
  /\ Goto(r, dlqPc)
  /\ UNCHANGED <<support, review, ledger, affinity, overlays, reactions, dlq>>

OverlayRejects(r) == EnqueueRejects(r, "overlay", "overlayJob", "overlayDlq")
ReactionRejects(r) == EnqueueRejects(r, "reaction", "reactionJob", "reactionDlq")

RecordDlq(r, effect, pc, next) ==
  /\ At(r, pc)
  /\ dlq' = dlq \cup {<<effect, req[r].event>>}
  /\ Goto(r, next)
  /\ UNCHANGED <<support, review, ledger, affinity, overlays, reactions, jobs>>

\* Mutant: affinity fails open: overlay and reaction follow although it failed.
RecordAffinityDlq_FailOpen(r) ==
  RecordDlq(r, "affinity", "affinityDlq", OverlayOrReturn(r, req[r].status))

\* Affinity fails closed: the effects after it are not attempted.
RecordAffinityDlq(r) == RecordDlq(r, "affinity", "affinityDlq", AfterEffects(r))
\* Mutant: a failed overlay enqueue ends the effects, without the reaction.
RecordOverlayDlq_Returns(r) == RecordDlq(r, "overlay", "overlayDlq", AfterEffects(r))

\* Mutant: a failed alert is attempted again until it succeeds.
RecordOverlayDlq_Retries(r) == RecordDlq(r, "overlay", "overlayDlq", "overlayRow")

RecordOverlayDlq(r) == RecordDlq(r, "overlay", "overlayDlq", ReactionOrReturn(r))
RecordReactionDlq(r) == RecordDlq(r, "reaction", "reactionDlq", AfterEffects(r))

-----------------------------------------------------------------------------
(* The steps of the routes around the effects. *)

Lookup(r) ==
  /\ At(r, "lookup")
  /\ Goto(r, IF support[req[r].event] = "none" THEN "readAffinity" ELSE "idle")
  /\ UNCHANGED <<support, review, effects>>

\* Mutant: the review uses the relationship stored with the event, not the current one.
ReadAffinity_Stored(r) ==
  /\ At(r, "readAffinity")
  /\ Goto(r, IF req[r].kind \in {"approve", "reject"} THEN "update" ELSE "create")
  /\ UNCHANGED <<support, review, effects>>

\* getCurrentAffinity, when a support event is built or a review of it is.
ReadAffinity(r) ==
  LET e == req[r].event
      next == IF req[r].kind \in {"approve", "reject"} THEN "update" ELSE "create"
  IN /\ At(r, "readAffinity")
     /\ req' = [req EXCEPT ![r].previous = IF Linked(e) THEN affinity[Viewer[e]] ELSE 0,
                           ![r].pc = next]
     /\ UNCHANGED <<support, review, effects>>

\* A duplicate ends the request, but the manual route ignores `created`.
CreateSupport(r) ==
  LET e == req[r].event
      created == support[e] = "none"
  IN /\ At(r, "create")
     /\ support' = IF created THEN [support EXCEPT ![e] = req[r].status] ELSE support
     /\ Goto(r, IF req[r].kind = "manual"
                THEN IF req[r].status = "approved" THEN BeginEffects(r) ELSE "audit"
                ELSE IF created THEN BeginEffects(r) ELSE "idle")
     /\ UNCHANGED <<review, effects>>

\* A review that exists answers the request, as idempotent or as a conflict.
ReadReview(r) ==
  /\ At(r, "review")
  /\ Goto(r, IF review[req[r].event] = "none" THEN "readEvent" ELSE "idle")
  /\ UNCHANGED <<support, review, effects>>

\* Mutant: a review is taken of anything that is not rejected yet.
ReadHeldEvent_NotRejected(r) ==
  /\ At(r, "readEvent") /\ req[r].kind \in {"approve", "reject"}
  /\ Goto(r, IF support[req[r].event] \in {"hold", "approved"} THEN "readAffinity" ELSE "idle")
  /\ UNCHANGED <<support, review, effects>>

ReadHeldEvent(r) ==
  /\ At(r, "readEvent") /\ req[r].kind \in {"approve", "reject"}
  /\ Goto(r, IF support[req[r].event] = "hold" THEN "readAffinity" ELSE "idle")
  /\ UNCHANGED <<support, review, effects>>

\* Without a status in the patch the update writes back the status it read.
ReadPatchedEvent(r) ==
  LET current == support[req[r].event]
      refused == \/ current = "none"
                 \/ current = "approved" /\ req[r].status = "rejected"
  IN /\ At(r, "readEvent") /\ req[r].kind = "patch"
     /\ \/ refused /\ Goto(r, "idle")
        \/ /\ ~refused
           /\ req' = [req EXCEPT ![r].status = IF @ = "keep" THEN current ELSE @,
                                 ![r].pc = "update"]
     /\ UNCHANGED <<support, review, effects>>

\* Mutant: a rejection is audited but not written to the event.
UpdateSupport_ApproveOnly(r) ==
  /\ At(r, "update")
  /\ support' = IF req[r].kind = "reject" THEN support
                ELSE [support EXCEPT ![req[r].event] = req[r].status]
  /\ Goto(r, IF req[r].kind = "approve" THEN BeginEffects(r) ELSE "audit")
  /\ UNCHANGED <<review, effects>>

\* updateSupportEvent finds the row by its identity, whatever its status.
UpdateSupport(r) ==
  /\ At(r, "update")
  /\ support' = [support EXCEPT ![req[r].event] = req[r].status]
  /\ Goto(r, IF req[r].kind = "approve" THEN BeginEffects(r) ELSE "audit")
  /\ UNCHANGED <<review, effects>>

\* Mutant: an adjustment counts as a review.
WriteAudit_AnyRoute(r) ==
  /\ At(r, "audit")
  /\ review' = [review EXCEPT ![req[r].event] = req[r].status]
  /\ Goto(r, "idle")
  /\ UNCHANGED <<support, effects>>

\* Audit ids are random and getSupportModerationReviewStatus reads the greatest:
\* a second review may or may not hide the first.
WriteAudit(r) ==
  LET e == req[r].event
  IN /\ At(r, "audit")
     /\ IF req[r].kind \in {"approve", "reject"}
        THEN \E status \in {review[e], req[r].status} \ {"none"} :
               review' = [review EXCEPT ![e] = status]
        ELSE UNCHANGED review
     /\ Goto(r, "idle")
     /\ UNCHANGED <<support, effects>>

\* Any other rejected call ends the request there.
Dies(r) ==
  /\ req[r].pc \in Unreliable \ {"affinity", "overlayJob", "reactionJob"}
  /\ Goto(r, "idle")
  /\ UNCHANGED <<support, review, effects>>

Crash ==
  /\ MayCrash
  /\ req' = [r \in Requests |-> NoRequest]
  /\ UNCHANGED <<support, review, effects>>

Caught(r) ==
  \/ "affinity" \in Unreliable /\ AffinityRejects(r)
  \/ "overlayJob" \in Unreliable /\ OverlayRejects(r)
  \/ "reactionJob" \in Unreliable /\ ReactionRejects(r)

Step(r) ==
  \/ Lookup(r) \/ ReadAffinity(r) \/ CreateSupport(r)
  \/ ReadReview(r) \/ ReadHeldEvent(r) \/ ReadPatchedEvent(r)
  \/ UpdateSupport(r) \/ WriteAudit(r)
  \/ ApplyAffinity(r) \/ CreateOverlayEvent(r) \/ EnqueueOverlay(r)
  \/ CreateReactionRequest(r) \/ EnqueueReaction(r)
  \/ RecordAffinityDlq(r) \/ RecordOverlayDlq(r) \/ RecordReactionDlq(r)

Next ==
  \/ \E r \in Requests : Submit(r) \/ Step(r) \/ Caught(r) \/ Dies(r)
  \/ Crash

Spec == Init /\ [][Next]_vars

\* An accepted request runs on until it is answered; its calls do answer.
FairSpec == Spec /\ \A r \in Requests : WF_vars(Step(r) \/ Caught(r))

-----------------------------------------------------------------------------
TypeOK ==
  /\ support \in [Events -> Status \cup {"none"}]
  /\ review \in [Events -> {"none", "approved", "rejected"}]
  /\ ledger \subseteq Events /\ overlays \subseteq Events /\ reactions \subseteq Events
  /\ affinity \in [Viewers -> Nat]
  /\ jobs \subseteq {"overlay", "reaction"} \X Events
  /\ dlq \subseteq {"affinity", "overlay", "reaction"} \X Events
  /\ req \in [Requests -> Request]

\* Affinity fails closed: whichever requests worked on an event, and wherever
\* they failed, the character is only asked to react to a tip whose affinity is
\* in the ledger and whose alert was created, and no job goes without its row.
FailClosed ==
  \A e \in Events :
    /\ e \in reactions => e \in overlays /\ (Linked(e) => e \in ledger)
    /\ <<"overlay", e>> \in jobs => e \in overlays
    /\ <<"reaction", e>> \in jobs => e \in reactions

NoEffects(e) ==
  /\ e \notin ledger \cup overlays \cup reactions
  /\ \A effect \in {"overlay", "reaction"} : <<effect, e>> \notin jobs

\* An event waiting for its review has had no side effect.
HeldHasNoEffects == \A e \in Events : support[e] = "hold" => NoEffects(e)

\* A rejected event has had no side effect.
RejectedHasNoEffects == \A e \in Events : support[e] = "rejected" => NoEffects(e)

\* The points that events grant, one by one, and those of a viewer's entries.
Points(S) == UNION {{e} \X (1 .. Delta[e]) : e \in S}
Granted(v) == Cardinality(Points({e \in ledger : Viewer[e] = v}))

\* The affinity a viewer has is what the entries of the ledger grant together.
AffinityAdds == \A v \in Viewers : affinity[v] = Granted(v)

\* An event with a review on record has the status the review gave it.
ReviewAgrees == \A e \in Events : review[e] # "none" => support[e] = review[e]

\* Each effect of an approved event has happened or has left a dead letter.
Applied(e) ==
  \/ <<"affinity", e>> \in dlq
  \/ /\ Linked(e) => e \in ledger
     /\ e \in overlays /\ e \in reactions
     /\ \A effect \in {"overlay", "reaction"} : <<effect, e>> \in jobs \cup dlq

\* When nobody works on an approved event any more, its effects are complete,
\* though the caught calls of applySupportReceivedEffects failed.
SettledIsApplied ==
  \A e \in Events :
    support[e] = "approved" /\ (\A r \in Requests : req[r].event # e) => Applied(e)

\* Every approved event has its effects, or a dead letter, in the end: whoever
\* else reviews, patches or submits it again, no retry loops for ever.
ApprovedIsApplied == \A e \in Events : support[e] = "approved" ~> Applied(e)
=============================================================================
