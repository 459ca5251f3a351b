CONSTANTS
  panel = panel
  adapter = adapter
  NoSink = NoSink
  DpSinks <- MCDpSinks
  HdmiSinks <- MCHdmiSinks
  Caps <- MCCaps
  SourceMax <- MCSourceMax
  Boards = {"ordinary", "fastDetect", "DVIForce"}
  TestLinks <- MCTestLinks
  Interlaced <- Progressive
  MaxPlugs = 2
  MaxSwitches = 2
  MaxLosses = 1
  MaxTests = 1
  MaxFaults = 1
SPECIFICATION Spec
INVARIANTS MainLinkIsLocked LitPortIsSelected
PROPERTY LinkComesBack
