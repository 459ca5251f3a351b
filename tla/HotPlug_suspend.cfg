SPECIFICATION Spec
CONSTANTS
  d1 = d1  d2 = d2  v1 = v1  crt1 = crt1  hdmi = hdmi  dp = dp
  DpPorts = {d1, d2}
  DviPorts = {v1}
  CrtPorts = {}
  Monitors = {hdmi}
  HdmiMonitors = {hdmi}
  Special = {hdmi}
  None = None
  QueueDepth = 1
  PollTimes = 1
  MaxLag = 1
  TestRequests = FALSE
  FastDetect = TRUE
  MaxChanges = 2
  MaxSuspends = 1
INVARIANTS SuspendQuiet DviIsDetected ChangesAnnounced NothingForgotten
SYMMETRY PortSymmetry
CHECK_DEADLOCK FALSE
