------------------------------ MODULE MCOutbox ------------------------------
(* Small instances of Outbox for TLC. *)
EXTENDS Outbox, TLC

CONSTANTS j1, w1, w2

MCOneJob == {j1}
MCWorkers == {w1, w2}

\* Two attempts.
MCOneJobMaxRetry == j1 :> 2
=============================================================================
