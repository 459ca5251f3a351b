---------------------------- MODULE TrainingPromise ----------------------------
(***************************************************************************)
(* What a DisplayPort link training promises its caller, the DP monitor:   *)
(* it ends, and it either fails or gives a link that is no wider and no    *)
(* faster than what was asked.  Lanes are halved and never anything else.  *)
(***************************************************************************)
EXTENDS Integers

Rates == 1..3         \* BitRateIndex: 1.62, 2.7 and 5.4 Gbit/s
LaneCounts == {1, 2, 4}
NoLink == [lanes |-> 0, rate |-> 0]
Links == [lanes : LaneCounts, rate : Rates]

(* What a training that was asked for at most lanes and rate may give.      *)
Outcomes(lanes, rate) ==
  {NoLink} \cup {l \in Links : l.lanes <= lanes /\ l.rate <= rate}

VARIABLES asked, given

Init == asked = NoLink /\ given = NoLink

Ask == /\ asked = NoLink
       /\ asked' \in [lanes : LaneCounts, rate : Rates]
       /\ given' = NoLink

Answer == /\ asked # NoLink
          /\ given' \in Outcomes(asked.lanes, asked.rate)
          /\ asked' = NoLink

Next == Ask \/ Answer

Spec == Init /\ [][Next]_<<asked, given>> /\ WF_<<asked, given>>(Answer)
===============================================================================
