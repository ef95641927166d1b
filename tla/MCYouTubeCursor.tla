---------------------------- MODULE MCYouTubeCursor ----------------------------
(* Small instances of YouTubeCursor for TLC: three pages, a super chat that *)
(* is on two of them, a failure that is retried and one that blocks.        *)
EXTENDS YouTubeCursor, TLC

CONSTANTS e1, e2, e3, r1, r2

MCEvents == {e1, e2, e3}
MCEventsOf == 0 :> {e1, e2} @@ 1 :> {e2} @@ 2 :> {e3}
MCRuns == {r1, r2}
MCClasses == {"upstream_unavailable", "oauth_missing"}
=============================================================================
