---------------------------- MODULE MCGateLedger ----------------------------
(* Small instances of GateLedger for TLC: two gates, one of them shared by  *)
(* two jobs; a call, its retry, a rival job on the same gate, a failed      *)
(* apply, a call that names a job of another gate, and an audit appended    *)
(* under the id and job of the first.                                       *)
EXTENDS GateLedger, TLC

CONSTANTS g1, g2, j1, j2, t1, t2, c1, c2, c3, c4, c5

MCGates == {g1, g2}
MCJobs == {j1, j2}
MCTxns == {t1, t2}
MCGateOfJob == j1 :> g1 @@ j2 :> g1
MCCalls == {c1, c2, c3, c4, c5}
MCGateOf == c1 :> g1 @@ c2 :> g1 @@ c3 :> g1 @@ c4 :> g1 @@ c5 :> g2
MCJobOf == c1 :> j1 @@ c2 :> j1 @@ c3 :> j2 @@ c4 :> j1 @@ c5 :> j1
MCTxnOf == c1 :> t1 @@ c2 :> t1 @@ c3 :> t2 @@ c4 :> t2 @@ c5 :> t2
MCAppends == {t1}
MCAppendJob == t1 :> j1 @@ t2 :> j2
MCApplied == {c1, c2, c3, c5}
=============================================================================
