SPECIFICATION ResendSpec
CONSTANTS
  e1 = e1
  v1 = v1
  r1 = r1
  r2 = r2
  a1 = a1
  a2 = a2
  NoEvent = NoEvent
  NoViewer = NoViewer
  Events <- MCEvents
  ManualEvents <- MCNoManual
  Viewers <- MCViewers
  Viewer <- MCViewer
  Delta <- MCDelta
  Claimed <- MCClaimed
  Requests <- MCRequests
  Kinds <- MCRawAndReview
  Unreliable <- Steps
  MayCrash = TRUE
  Admins <- MCAdmins
  Effects <- MCEffects
SYMMETRY MCSymmetry
INVARIANTS
  FailClosed
  HeldHasNoEffects
  HeldHasNoCopies
  CopiesComplete
