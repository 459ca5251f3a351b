SPECIFICATION Spec
CONSTANTS
  d1 = d1  d2 = d2  v1 = v1  crt1 = crt1  hdmi = hdmi  dp = dp
  DpPorts = {d1}
  DviPorts = {}
  CrtPorts = {}
  Monitors = {hdmi}
  HdmiMonitors = {hdmi}
  Special = {}
  None = None
  QueueDepth = 2
  PollTimes = 2
  MaxLag = 2
  TestRequests = FALSE
  FastDetect = FALSE
  MaxChanges = 3
  MaxSuspends = 1
INVARIANT EventIsHandled
CHECK_DEADLOCK FALSE
