-------------------------- MODULE MCReactionDispatch --------------------------
(* Small instances of ReactionDispatch for TLC. *)
EXTENDS ReactionDispatch, TLC

CONSTANTS e1, a1, a2

MCEvents == {e1}
MCTwoAdmins == {a1, a2}
MCCases == {"success", "retryable_failure", "terminal_failure"}
MCSymmetry == Permutations(MCTwoAdmins)
=============================================================================
