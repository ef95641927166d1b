------------------------- MODULE SupportResendProofs -------------------------
(***************************************************************************)
(* The pipeline with resends is still the pipeline of SupportPipeline, so  *)
(* what SupportPipelineProofs shows of it holds; a resend leaves neither a *)
(* job without a row nor an answer without both; and, when the patch route *)
(* is not in use, an event that waits for its review was never copied.     *)
(***************************************************************************)
EXTENDS SupportResend, SupportPipelineProofs

\* Every step is one of the pipeline, or leaves its state alone.
LEMMA ResendStepIsPipelineStep == ResendNext => [Next]_vars
  BY DEF ResendNext, ResendCrash, Next

LEMMA PipelineTypesKept == TypeInv /\ [ResendNext]_allVars => TypeInv'
  BY ResendStepIsPipelineStep, NextTypes DEF allVars

-----------------------------------------------------------------------------
(* Types and completeness of the copies. *)

CopyInv == ResendTypeOK /\ CopiesComplete

LEMMA CopyInit == ResendInit => CopyInv
  BY DEF ResendInit, CopyInv, ResendTypeOK, CopiesComplete, NoResend, ResendAt

\* The step of a resend keeps them.
LEMMA ResendStepKeeps ==
  ASSUME CopyInv, NEW a \in Admins, ResendStep(a)
  PROVE  CopyInv'
<1>. USE DEF CopyInv, ResendTypeOK, CopiesComplete, ResendAt, Copy
<1>1. ASSUME NEW effect \in Effects, NEW e \in Events, AskResend(a, effect, e)
      PROVE  CopyInv'
  <2>1. [effect |-> effect, event |-> e, pc |-> "row"] \in
          [effect : Effects \cup {"none"}, event : Events \cup {NoEvent}, pc : {"idle", "row", "job", "audit"}]
    OBVIOUS
  <2>. QED
    BY <1>1, <2>1 DEF AskResend
<1>2. CASE InsertCopy(a)
  BY <1>2 DEF InsertCopy, ResendGoto
<1>3. CASE EnqueueCopy(a)
  BY <1>3 DEF EnqueueCopy, ResendGoto
<1>4. CASE AuditCopy(a)
  BY <1>4 DEF AuditCopy, ResendEnds, NoResend
<1>5. CASE ResendRejects(a)
  BY <1>5 DEF ResendRejects, ResendEnds, NoResend
<1>. QED
  BY <1>1, <1>2, <1>3, <1>4, <1>5 DEF ResendStep

LEMMA CopyKept == CopyInv /\ [ResendNext]_allVars => CopyInv'
<1>1. ASSUME CopyInv, UNCHANGED resendVars
      PROVE  CopyInv'
  BY <1>1 DEF resendVars, CopyInv, ResendTypeOK, CopiesComplete, ResendAt, Copy
<1>2. ASSUME CopyInv, ResendCrash
      PROVE  CopyInv'
  BY <1>2 DEF ResendCrash, NoResend, CopyInv, ResendTypeOK, CopiesComplete, ResendAt, Copy
<1>. QED
  BY <1>1, <1>2, ResendStepKeeps DEF ResendNext, allVars

-----------------------------------------------------------------------------
(* Copies of events that were released. *)

\* Without the patch route no event goes back to its review.
LEMMA ReleasedForGood ==
  ASSUME "patch" \notin Kinds, TypeInv, [Next]_vars, NEW e \in Events, Unreviewed(e)'
  PROVE  Unreviewed(e)
<1>1. ASSUME NEW r \in Requests, EffectStep(r)
      PROVE  support' = support
  BY <1>1 DEF EffectStep, ApplyAffinity, CreateOverlayEvent, EnqueueOverlay, CreateReactionRequest,
              EnqueueReaction, RecordAffinityDlq, RecordOverlayDlq, RecordReactionDlq, RecordDlq, Caught,
              AffinityRejects, OverlayRejects, ReactionRejects, EnqueueRejects
<1>2. ASSUME NEW r \in Requests, RouteStep(r)
      PROVE  \/ support' = support
             \/ /\ support' = [support EXCEPT ![req[r].event] = req[r].status]
                /\ support[req[r].event] = "none" \/ req[r].status \in {"approved", "rejected"}
  <2>1. req[r] \in Request /\ Carries(req[r])
    BY DEF TypeInv, TypeOK
  <2>2. CASE CreateSupport(r)
    BY <2>2 DEF CreateSupport
  <2>3. CASE UpdateSupport(r)
    BY <2>1, <2>3 DEF UpdateSupport, Carries, At
  <2>4. CASE ~CreateSupport(r) /\ ~UpdateSupport(r)
    BY <1>2, <2>4 DEF RouteStep, Submit, Lookup, ReadAffinity, ReadReview, ReadHeldEvent, ReadPatchedEvent,
                      WriteAudit, Dies
  <2>. QED
    BY <2>2, <2>3, <2>4
<1>3. support \in [Events -> Status \cup {"none"}]
  BY DEF TypeInv, TypeOK
<1>4. CASE support' = support
  BY <1>4 DEF Unreviewed
<1>5. ASSUME NEW r \in Requests, RouteStep(r), support' # support
      PROVE  Unreviewed(e)
  BY <1>2, <1>3, <1>5 DEF Unreviewed
<1>6. Crash => support' = support
  BY DEF Crash
<1>7. UNCHANGED vars => support' = support
  BY DEF vars
<1>. QED
  BY <1>1, <1>4, <1>5, <1>6, <1>7, NextCases

\* A resend in progress, and what it left, belong to a released event.
Copied(e) == \E effect \in Effects : <<effect, e>> \in copies \cup copyJobs

ReleasedInv ==
  /\ \A e \in Events : Copied(e) => ~Unreviewed(e)
  /\ \A a \in Admins : ~ResendAt(a, "idle") => ~Unreviewed(resend[a].event)

LEMMA ReleasedKept ==
  ASSUME "patch" \notin Kinds, TypeInv, CopyInv, ReleasedInv, [ResendNext]_allVars
  PROVE  ReleasedInv'
<1>1. \A e \in Events : Unreviewed(e)' => Unreviewed(e)
  BY ResendStepIsPipelineStep, ReleasedForGood DEF allVars
<1>2. \A a \in Admins : ~ResendAt(a, "idle") => resend[a].event \in Events /\ resend[a].effect \in Effects
  BY DEF CopyInv, ResendTypeOK, Copy
<1>3. CASE UNCHANGED resendVars
  BY <1>1, <1>2, <1>3 DEF ReleasedInv, Copied, resendVars, ResendAt
<1>4. CASE ResendCrash
  BY <1>1, <1>4 DEF ReleasedInv, Copied, ResendCrash, NoResend, ResendAt
<1>5. ASSUME NEW a \in Admins, ResendStep(a), UNCHANGED vars
      PROVE  ReleasedInv'
  <2>1. support' = support
    BY <1>5 DEF vars
  <2>2. resend \in [Admins -> [effect : Effects \cup {"none"}, event : Events \cup {NoEvent},
                               pc : {"idle", "row", "job", "audit"}]]
    BY DEF CopyInv, ResendTypeOK
  <2>3. ASSUME NEW effect \in Effects, NEW e \in Events, AskResend(a, effect, e)
        PROVE  ReleasedInv'
    BY <2>1, <2>2, <2>3 DEF AskResend, Resendable, ReleasedInv, Copied, ResendAt, Unreviewed
  <2>4. CASE InsertCopy(a)
    BY <1>2, <2>1, <2>2, <2>4 DEF InsertCopy, ResendGoto, Copy, ReleasedInv, Copied, ResendAt, Unreviewed
  <2>5. CASE EnqueueCopy(a)
    BY <1>2, <2>1, <2>2, <2>5 DEF EnqueueCopy, ResendGoto, Copy, ReleasedInv, Copied, ResendAt, Unreviewed
  <2>6. CASE AuditCopy(a)
    BY <2>1, <2>2, <2>6 DEF AuditCopy, ResendEnds, NoResend, ReleasedInv, Copied, ResendAt, Unreviewed
  <2>7. CASE ResendRejects(a)
    BY <1>2, <2>1, <2>2, <2>7 DEF ResendRejects, ResendEnds, NoResend, Copy, ReleasedInv, Copied, ResendAt, Unreviewed
  <2>. QED
    BY <1>5, <2>3, <2>4, <2>5, <2>6, <2>7 DEF ResendStep
<1>. QED
  BY <1>3, <1>4, <1>5 DEF ResendNext, allVars

-----------------------------------------------------------------------------
\* Whatever resends do, the pipeline behaves as SupportPipeline says.
THEOREM ResendImplementsPipeline == ResendSpec => Spec
<1>1. ResendInit => Init
  BY DEF ResendInit
<1>2. [ResendNext]_allVars => [Next]_vars
  BY ResendStepIsPipelineStep DEF allVars
<1>. QED
  BY <1>1, <1>2, PTL DEF ResendSpec, Spec

\* Resend requests and copies have their types, and no resend is ahead of what
\* it wrote.
THEOREM ResendTypeCorrect == ResendSpec => []ResendTypeOK
<1>1. CopyInv => ResendTypeOK
  BY DEF CopyInv
<1>. QED
  BY <1>1, CopyInit, CopyKept, PTL DEF ResendSpec

\* A job of a copy has its row and an answered resend has both, for any number
\* of resends that overlap, reject or end with the process.
THEOREM ResendsAreComplete == ResendSpec => []CopiesComplete
<1>1. CopyInv => CopiesComplete
  BY DEF CopyInv
<1>. QED
  BY <1>1, CopyInit, CopyKept, PTL DEF ResendSpec

\* Without the patch route, which takes an approved event back, an event that
\* waits for its review was never copied.
THEOREM HeldWasNotCopied ==
  ASSUME "patch" \notin Kinds
  PROVE  ResendSpec => []HeldHasNoCopies
<1>. DEFINE Inv == TypeInv /\ CopyInv /\ ReleasedInv
<1>1. ResendInit => Inv
  BY InitTypes, CopyInit DEF ResendInit, ReleasedInv, Copied, NoResend, ResendAt
<1>2. Inv /\ [ResendNext]_allVars => Inv'
  BY PipelineTypesKept, CopyKept, ReleasedKept
<1>3. Inv => HeldHasNoCopies
  BY DEF ReleasedInv, Copied, HeldHasNoCopies, Unreviewed
<1>. QED
  BY <1>1, <1>2, <1>3, PTL DEF ResendSpec
=============================================================================
