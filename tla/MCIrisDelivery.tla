--------------------------- MODULE MCIrisDelivery ---------------------------
(* Small instances of IrisDelivery for TLC: two jobs of one support event,  *)
(* one with two attempts and one with one.                                  *)
EXTENDS IrisDelivery, TLC

CONSTANTS j1, j2, w1, w2

MCJobs == {j1, j2}
MCWorkers == {w1, w2}
MCMaxRetry == j1 :> 2 @@ j2 :> 1
=============================================================================
