--------------------------- MODULE MCChainListener ---------------------------
(* Small instances of ChainListener for TLC. *)
EXTENDS ChainListener, TLC

CONSTANTS k1, k2, h1, h2

MCTwoTips == {k1, k2}
MCOneTip == {k1}
MCOneHandler == {h1}
MCTwoHandlers == {h1, h2}
=============================================================================
