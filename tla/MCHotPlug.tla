------------------------------- MODULE MCHotPlug -------------------------------
(* Instances of HotPlug for TLC: a few ports and one or two monitors; the   *)
(* DP and HDMI ports are interchangeable.                                   *)
EXTENDS HotPlug, TLC

CONSTANTS d1, d2, v1, crt1, hdmi, dp

PortSymmetry == Permutations(DpPorts)

=============================================================================
