CONSTANTS
  panel = panel
  adapter = adapter
  NoSink = NoSink
  DpSinks <- MCDpSinks
  HdmiSinks <- MCHdmiSinks
  Caps <- MCCaps
  SourceMax <- MCSourceMax
  Boards = {"ordinary", "fastDetect", "DVIForce"}
  TestLinks <- MCTestLinks
  Interlaced <- Interlace
  MaxPlugs = 2
  MaxSwitches = 2
  MaxLosses = 1
  MaxTests = 1
  MaxFaults = 1
SPECIFICATION SafetySpec
INVARIANT InterlacedIsHalvedOnce
