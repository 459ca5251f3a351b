SPECIFICATION FairSpec
CONSTANTS
  d1 = d1  d2 = d2  v1 = v1  crt1 = crt1  hdmi = hdmi  dp = dp
  DpPorts = {d1, d2}
  DviPorts = {}
  CrtPorts = {crt1}
  Monitors = {hdmi, dp}
  HdmiMonitors = {hdmi}
  Special = {hdmi}
  None = None
  QueueDepth = 2
  PollTimes = 2
  MaxLag = 2
  TestRequests = TRUE
  FastDetect = FALSE
  MaxChanges = 2
  MaxSuspends = 0
INVARIANTS WorkIsServed NothingForgotten ChangesAnnounced
PROPERTIES Settles
CHECK_DEADLOCK FALSE
