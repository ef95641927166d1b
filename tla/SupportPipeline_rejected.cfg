SPECIFICATION Spec
CONSTANTS
  e1 = e1
  e2 = e2
  e3 = e3
  v1 = v1
  r1 = r1
  r2 = r2
  NoEvent = NoEvent
  NoViewer = NoViewer
  Events <- MCOneEvent
  ManualEvents <- MCNoManual
  Viewers <- MCViewers
  Viewer <- MCViewer
  Delta <- MCUnit
  Claimed <- MCClaimed
  Requests <- MCTwoRequests
  Kinds <- MCReviews
  Unreliable <- MCNone
  MayCrash = FALSE
SYMMETRY MCSymmetry
INVARIANT
  RejectedHasNoEffects
