--------------------------- MODULE MCSupportResend ---------------------------
(* Small instances of SupportResend for TLC. *)
EXTENDS SupportResend, TLC

CONSTANTS e1, v1, r1, r2, a1, a2

MCEvents == {e1}
MCNoManual == {}
MCViewers == {v1}
MCViewer == [e \in Events |-> v1]
MCDelta == [e \in Events |-> 3]
MCClaimed == {0}
MCRequests == {r1, r2}
MCRawAndReview == {"event", "approve", "reject"}
MCAdmins == {a1, a2}
MCEffects == {"reaction"}
MCSymmetry == Permutations(MCRequests) \cup Permutations(MCAdmins)
=============================================================================
