SPECIFICATION FairSpec
CONSTANTS
  k1 = k1
  k2 = k2
  h1 = h1
  h2 = h2
  NoTip = NoTip
  Scanner = Scanner
  Tips <- MCTwoTips
  Handlers <- MCTwoHandlers
  confirmationBlocks = 2
  MaxHead = 3
  MaxForks = 0
  MaxDepth = 1
  MaxFailures = 1

INVARIANTS
  CursorCoversTips

PROPERTIES
  EveryTipNormalized
