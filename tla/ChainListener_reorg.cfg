SPECIFICATION Spec
CONSTANTS
  k1 = k1
  k2 = k2
  h1 = h1
  h2 = h2
  NoTip = NoTip
  Scanner = Scanner
  Tips <- MCOneTip
  Handlers <- MCOneHandler
  confirmationBlocks = 2
  MaxHead = 3
  MaxForks = 2
  MaxDepth = 1
  MaxFailures = 1
INVARIANTS
  TypeOK
  NormalizedIsCanonical
