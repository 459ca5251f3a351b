CONSTANTS
  c1 = c1
  c2 = c2
  s1 = s1
  s2 = s2
  None = None
  Detector = Detector
  Commits <- MCCommits
  Sinks <- MCSinks
  MaxMonitors = 2
SPECIFICATION Spec
INVARIANTS SinkRefsExact RecordedIsSetUp
PROPERTY LocksComeBack
CHECK_DEADLOCK FALSE
