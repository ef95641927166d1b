SPECIFICATION FairSpec
CONSTANTS
  k1 = k1
  k2 = k2
  h1 = h1
  h2 = h2
  NoTip = NoTip
  Scanner = Scanner
  Tips <- MCOneTip
  Handlers <- MCOneHandler
  confirmationBlocks = 1
  MaxHead = 2
  MaxForks = 0
  MaxDepth = 1
  MaxFailures = 1
PROPERTIES
  ConfirmedIsNormalized
