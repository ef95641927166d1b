SPECIFICATION Spec
CONSTANTS
  e1 = e1
  e2 = e2
  e3 = e3
  v1 = v1
  r1 = r1
  r2 = r2
  NoEvent = NoEvent
  NoViewer = NoViewer
  Events <- MCThreeEvents
  ManualEvents <- MCManual
  Viewers <- MCViewers
  Viewer <- MCViewer
  Delta <- MCDelta
  Claimed <- MCClaimed
  Requests <- MCOneRequest
  Kinds <- MCOneAtATime
  Unreliable <- Steps
  MayCrash = TRUE
INVARIANTS
  AffinityAdds
  RejectedHasNoEffects
  ReviewAgrees
