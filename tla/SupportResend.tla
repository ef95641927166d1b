---------------------------- MODULE SupportResend ----------------------------
(***************************************************************************)
(* overlay-resend and reaction-resend of apps/api/src/server.ts, beside    *)
(* the requests of SupportPipeline: an operator asks for a second copy of  *)
(* the overlay alert or of the reaction request of an approved event.      *)
(*                                                                         *)
(* The copy is a row and an outbox job with identities of their own        *)
(* (source_event_id and idempotency_key begin with "overlay-resend" or     *)
(* "reaction-resend"), so it never meets the rows of the pipeline.  Both   *)
(* routes make the same calls and are one definition with the effect as a  *)
(* parameter.  One step is one awaited repository call.                    *)
(***************************************************************************)
EXTENDS SupportPipeline

CONSTANTS
  Admins,  \* resend requests running at the same time
  Effects  \* the resend routes in use

ASSUME ResendAssumption == Effects \subseteq {"overlay", "reaction"}

VARIABLES
  resend,    \* what each resend request is doing
  copies,    \* <<effect, event>> with the row of a copy
  copyJobs,  \* <<effect, event>> with the outbox job of a copy
  answered   \* history: <<effect, event>> a resend was answered for

resendVars == <<resend, copies, copyJobs, answered>>
allVars == <<vars, resendVars>>

NoResend == [effect |-> "none", event |-> NoEvent, pc |-> "idle"]

ResendInit ==
  /\ Init
  /\ resend = [a \in Admins |-> NoResend]
  /\ copies = {} /\ copyJobs = {} /\ answered = {}

Copy(a) == <<resend[a].effect, resend[a].event>>
ResendAt(a, pc) == resend[a].pc = pc
ResendGoto(a, pc) == resend' = [resend EXCEPT ![a].pc = pc]
ResendEnds(a) == resend' = [resend EXCEPT ![a] = NoResend]

\* Mutant: only a rejected event is refused.
Resendable_NotRejected(e) == support[e] \notin {"none", "rejected"}

Resendable(e) == support[e] = "approved"

\* The event is read; one that may not be resent is answered at once.
AskResend(a, effect, e) ==
  /\ ResendAt(a, "idle")
  /\ Resendable(e)
  /\ resend' = [resend EXCEPT ![a] = [effect |-> effect, event |-> e, pc |-> "row"]]
  /\ UNCHANGED <<copies, copyJobs, answered>>

\* Mutant: a row that exists answers the request.
InsertCopy_DuplicateEnds(a) ==
  /\ ResendAt(a, "row")
  /\ copies' = copies \cup {Copy(a)}
  /\ IF Copy(a) \in copies
     THEN ResendEnds(a) /\ answered' = answered \cup {Copy(a)}
     ELSE ResendGoto(a, "job") /\ UNCHANGED answered
  /\ UNCHANGED copyJobs

\* createOverlayEventIfAbsent or createReactionRequestIfAbsent; a duplicate
\* goes on as well.
InsertCopy(a) ==
  /\ ResendAt(a, "row")
  /\ copies' = copies \cup {Copy(a)}
  /\ ResendGoto(a, "job")
  /\ UNCHANGED <<copyJobs, answered>>

EnqueueCopy(a) ==
  /\ ResendAt(a, "job")
  /\ copyJobs' = copyJobs \cup {Copy(a)}
  /\ ResendGoto(a, "audit")
  /\ UNCHANGED <<copies, answered>>

AuditCopy(a) ==
  /\ ResendAt(a, "audit")
  /\ answered' = answered \cup {Copy(a)}
  /\ ResendEnds(a)
  /\ UNCHANGED <<copies, copyJobs>>

\* A call rejects, executed or not, and the request fails.
ResendRejects(a) ==
  /\ ~ResendAt(a, "idle")
  /\ copies' \in {copies, IF ResendAt(a, "row") THEN copies \cup {Copy(a)} ELSE copies}
  /\ copyJobs' \in {copyJobs, IF ResendAt(a, "job") THEN copyJobs \cup {Copy(a)} ELSE copyJobs}
  /\ ResendEnds(a)
  /\ UNCHANGED answered

ResendStep(a) ==
  \/ \E effect \in Effects, e \in Events : AskResend(a, effect, e)
  \/ InsertCopy(a) \/ EnqueueCopy(a) \/ AuditCopy(a) \/ ResendRejects(a)

\* The process ends with the requests of both kinds.
ResendCrash ==
  /\ Crash
  /\ resend' = [a \in Admins |-> NoResend]
  /\ UNCHANGED <<copies, copyJobs, answered>>

ResendNext ==
  \/ /\ \E r \in Requests : Submit(r) \/ Step(r) \/ Caught(r) \/ Dies(r)
     /\ UNCHANGED resendVars
  \/ ResendCrash
  \/ \E a \in Admins : ResendStep(a) /\ UNCHANGED vars

ResendSpec == ResendInit /\ [][ResendNext]_allVars

-----------------------------------------------------------------------------
\* Types; a resend goes on to the job only with the row, and to the audit only
\* with both.
ResendTypeOK ==
  /\ resend \in [Admins -> [effect : Effects \cup {"none"}, event : Events \cup {NoEvent},
                            pc : {"idle", "row", "job", "audit"}]]
  /\ \A a \in Admins :
       /\ ~ResendAt(a, "idle") => Copy(a) \in Effects \X Events
       /\ ResendAt(a, "job") => Copy(a) \in copies
       /\ ResendAt(a, "audit") => Copy(a) \in copies \cap copyJobs
  /\ copies \subseteq Effects \X Events
  /\ copyJobs \subseteq Effects \X Events
  /\ answered \subseteq Effects \X Events

\* An event that waits for its review has never been copied to the overlay or
\* to the character, whatever requests overlapped (docs/P0_ADMIN_OVERLAY_RESEND
\* _CONTROLS.md: "Held support events cannot be resent until approved").
HeldHasNoCopies ==
  \A e \in Events : support[e] = "hold" =>
    \A effect \in Effects : <<effect, e>> \notin copies \cup copyJobs

\* A job of a copy never goes without its row, and a resend that was answered
\* has both, also when an earlier one of the same event failed between the two
\* or another one runs beside it.
CopiesComplete ==
  /\ copyJobs \subseteq copies
  /\ answered \subseteq copyJobs
=============================================================================
