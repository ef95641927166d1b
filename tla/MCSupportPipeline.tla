-------------------------- MODULE MCSupportPipeline --------------------------
(* Small instances of SupportPipeline for TLC. *)
EXTENDS SupportPipeline, TLC

CONSTANTS e1, e2, e3, v1, r1, r2

\* One event, or two tips and a manual entry of one viewer.
MCOneEvent == {e1}
MCThreeEvents == {e1, e2, e3}
MCManual == {e3}
MCNoManual == {}

MCViewers == {v1}
MCViewer == [e \in Events |-> v1]
MCDelta == [e \in Events |-> IF e = e1 THEN 3 ELSE IF e = e2 THEN 8 ELSE 15]
MCUnit == [e \in Events |-> 3]
MCClaimed == {0}

MCOneRequest == {r1}
MCTwoRequests == {r1, r2}

MCOneManual == {e1}
MCReviews == {"ingest", "approve", "reject"}
MCOneAtATime == {"ingest", "manual", "approve", "reject"}

MCNone == {}
MCCaught == {"affinity", "overlayJob", "reactionJob"}
MCSymmetry == Permutations(MCTwoRequests)
=============================================================================
