----------------------------- MODULE MCDpPort -----------------------------
(* Model values for DpPort: a DP sink and an HDMI adapter, on every board. *)
EXTENDS DpPort

CONSTANTS panel, adapter

MCDpSinks == {panel}
MCHdmiSinks == {adapter}
MCCaps == [s \in MCDpSinks |-> [lanes |-> 2, rate |-> 1]]
MCSourceMax == [lanes |-> 4, rate |-> 3]
MCTestLinks == {[lanes |-> 1, rate |-> 1]}
Progressive == {FALSE}
Interlace == {TRUE}
===========================================================================
