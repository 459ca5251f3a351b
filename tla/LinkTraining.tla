------------------------------ MODULE LinkTraining ------------------------------
(***************************************************************************)
(* The link training of CBiosDIU_DP.c: software programs one combination   *)
(* of lanes and rate after the other, the training engine of the port      *)
(* trains the sink over the AUX channel, and software polls for the end.   *)
(*                                                                         *)
(* A combination that fails is tried again; then the rate falls, and when  *)
(* it cannot fall further the lanes are halved and the rate is the asked   *)
(* one again.  The sink keeps what was written to its DPCD: its link       *)
(* configuration (100h, 101h), its scrambler (10Ah) and its training       *)
(* pattern (102h), which the engine sets and somebody has to clear.        *)
(*                                                                         *)
(* Several trainings follow one another, as the DP monitor asks for them.  *)
(* The caller holds pAuxMutex, so nobody else uses the port; what moves    *)
(* besides the driver is the engine, the cable and the sink.               *)
(***************************************************************************)
EXTENDS Integers, Sequences, FiniteSets

CONSTANTS Chip,         \* ChipID: "E2UMA", "CHX001" or "CHX002"
          Revision10,   \* RevisionID = 0x10
          RunCTS,       \* bRunCTS: a compliance test is running
          CPMethod,     \* "none", "ASSR" or "AF", the eDP content protection
          Offers,       \* bound: the combinations a training is asked for
          Cables,       \* bound: what a cable and a sink may be able to carry
          MaxPolls,     \* bound of the polls (601 of them in the code)
          MaxNoise,     \* bound: attempts that fail on a combination that works
          MaxFaults,    \* bound: AUX writes that are not acknowledged
          MaxPulls,     \* bound: unplugs
          MaxTrainings  \* bound: trainings

ASSUME ChipAssumption == Chip \in {"E2UMA", "CHX001", "CHX002"}
ASSUME ModeAssumption == /\ Revision10 \in BOOLEAN /\ RunCTS \in BOOLEAN
                         /\ CPMethod \in {"none", "ASSR", "AF"}
ASSUME BoundsAssumption == /\ MaxPolls \in Nat /\ MaxNoise \in Nat
                           /\ MaxFaults \in Nat /\ MaxPulls \in Nat
                           /\ MaxTrainings \in Nat

VARIABLES
  pc,        \* where LinkTrainingHw is
  asked,     \* MaxLaneCount and MaxBitRateIndex, NoLink when none runs
  lanes,     \* ulLaneNum
  rate,      \* BitRateIndex
  retry,     \* ulRetryCount
  polls,     \* the polls of this attempt
  given,     \* CurrLaneCount and CurrLinkSpeed of the last training
  engine,    \* the training engine
  hwFail,    \* HW_Link_Train_Fail
  mainUp,    \* Main_Link_Status is 3
  swing,     \* the levels loaded in the engine: swing and pre-emphasis
  plugged,   \* HPD_Status says a sink is there
  works,     \* combinations the cable and the sink can carry
  told,      \* the sink took the lanes and the rate of this attempt (history)
  config,    \* the sink's DPCD 100h and 101h
  scrambler, \* its DPCD 10Ah
  pattern,   \* its DPCD 102h is not 0
  locked,    \* the combination the sink is locked at
  noise,     \* attempts of this training that failed though they could work
  faults,    \* AUX writes of this training that did not get through
  pulls,     \* unplugs so far
  trainings  \* trainings so far

loop_vars == <<asked, lanes, rate, retry, given>>
port_vars == <<engine, hwFail, mainUp, swing>>
sink_vars == <<plugged, works, config, scrambler, pattern, locked>>
past_vars == <<told, noise, faults, pulls, trainings>>
vars == <<pc, asked, lanes, rate, retry, polls, given, engine, hwFail, mainUp,
          swing, plugged, works, told, config, scrambler, pattern, locked, noise,
          faults, pulls, trainings>>

(* What the caller knows of the last training: nothing while one runs.      *)
Reported == IF asked.lanes = 0 THEN given ELSE [lanes |-> 0, rate |-> 0]

P == INSTANCE TrainingPromise WITH given <- Reported
NoLink == P!NoLink
Link(n, r) == [lanes |-> n, rate |-> r]

ASSUME LinksAssumption == Offers \subseteq P!Links /\ Cables \subseteq SUBSET P!Links

(* ulMaxRetryCount.                                                         *)
MaxRetryCount == IF RunCTS THEN 1 ELSE 3

-------------------------------------------------------------------------------
(* The swing and pre-emphasis levels of the engine.  A level is one of the  *)
(* nine pairs (voltage, pre-emphasis) within Max_V_swing 3 and              *)
(* Max_Pre_emphasis 2, in the order of the load index: (0,0) (0,1) (0,2)    *)
(* (1,0) (1,1) (1,2) (2,0) (2,1) (3,0).                                     *)
Levels == 1..9

SwingE2 == [i \in {6} |-> <<56, 24>>]

SwingFast001 ==
  <<<<9, 0>>, <<16, 0>>, <<23, 28>>, <<17, 0>>, <<25, 8>>, <<51, 26>>,
    <<28, 0>>, <<20, 0>>, <<63, 0>>>>

SwingSlow001 ==
  <<<<9, 0>>, <<21, 6>>, <<29, 14>>, <<17, 0>>, <<48, 8>>, <<57, 26>>,
    <<48, 0>>, <<57, 10>>, <<63, 0>>>>

(* Behind a re-timer, which only an 0x10 part has at this rate.             *)
SwingRetimer == [i \in Levels |-> <<63, 4>>]

SwingFast ==
  <<<<9, 0>>, <<22, 6>>, <<49, 24>>, <<16, 0>>, <<28, 9>>, <<57, 28>>,
    <<22, 0>>, <<63, 14>>, <<48, 0>>>>

SwingSlow ==
  <<<<IF Revision10 THEN 9 ELSE 8, 0>>, <<IF Revision10 THEN 19 ELSE 17, 4>>,
    <<IF Revision10 THEN 23 ELSE 21, 9>>, <<14, 0>>,
    <<IF Revision10 THEN 38 ELSE 37, 5>>, <<40, 10>>,
    <<IF Revision10 THEN 22 ELSE 19, 0>>, <<IF Revision10 THEN 26 ELSE 25, 7>>,
    <<44, 0>>>>

(* The levels that are loaded for a rate.                                   *)
SwingTable(r) ==
  IF Chip = "E2UMA" THEN SwingE2
  ELSE IF Chip = "CHX001" THEN IF r = 3 THEN SwingFast001 ELSE SwingSlow001
  ELSE IF r < 3 THEN SwingSlow
  ELSE IF Revision10 THEN SwingRetimer ELSE SwingFast

LoadSwing(table) ==
  [i \in Levels |-> IF i \in DOMAIN table THEN table[i] ELSE swing[i]]

-------------------------------------------------------------------------------
(* Init: nothing was trained; the sink may be there or not.                 *)
Init ==
  /\ pc = "idle" /\ asked = NoLink /\ lanes = 0 /\ rate = 0 /\ retry = 0
  /\ polls = 0 /\ given = NoLink
  /\ engine = "idle" /\ hwFail = FALSE /\ mainUp = FALSE
  /\ swing = [i \in Levels |-> <<0, 0>>]
  /\ plugged \in BOOLEAN /\ works \in Cables
  /\ told = FALSE
  /\ config = NoLink /\ scrambler = "none" /\ pattern = FALSE /\ locked = NoLink
  /\ noise = 0 /\ faults = 0 /\ pulls = 0 /\ trainings = 0

(* The DP monitor asks for a training.                                      *)
Begin(n, r) ==
  /\ pc = "idle" /\ trainings < MaxTrainings
  /\ trainings' = trainings + 1
  /\ asked' = Link(n, r) /\ lanes' = n /\ rate' = r /\ retry' = 0
  /\ given' = NoLink /\ told' = FALSE /\ noise' = 0 /\ faults' = 0
  /\ pc' = "setup"
  /\ UNCHANGED <<polls, port_vars, sink_vars, pulls>>

(* The engine is reset, gets lanes, rate and pattern, and the preset        *)
(* clears what the last attempt left in the port.                           *)
Setup ==
  /\ pc = "setup"
  /\ engine' = "idle" /\ mainUp' = FALSE /\ hwFail' = FALSE
  /\ pc' = "config"
  /\ UNCHANGED <<loop_vars, polls, swing, sink_vars, past_vars>>

(* An AUX write.  A NACK counts as success though the sink did not take    *)
(* the data; a write that counts as lost may have been taken, when only the *)
(* reply was lost, unless nobody is there.                                  *)
Acked(next) ==
  /\ plugged
  /\ pc' = next /\ UNCHANGED faults

Nacked(next) ==
  /\ plugged /\ faults < MaxFaults
  /\ faults' = faults + 1 /\ pc' = next

Lost(next) ==
  /\ ~plugged \/ faults < MaxFaults
  /\ faults' = faults + 1 /\ pc' = next

ReplyLost(next) == plugged /\ Lost(next)

(* Lanes and rate go to the sink, which drops the lock it had.              *)
Config ==
  /\ pc = "config"
  /\ \/ /\ Acked("protect") \/ ReplyLost("end")
        /\ config' = Link(lanes, rate) /\ locked' = NoLink /\ told' = TRUE
     \/ /\ Nacked("protect") \/ Lost("end")
        /\ told' = FALSE /\ UNCHANGED <<config, locked>>
  /\ UNCHANGED <<loop_vars, polls, port_vars, plugged, works, scrambler, pattern,
                 noise, pulls, trainings>>

(* The content protection is set or switched off; whether it could be       *)
(* switched off is ignored.                                                 *)
Protect ==
  /\ pc = "protect"
  /\ LET failed == IF CPMethod = "none" THEN "start" ELSE "end"
     IN \/ /\ Acked("start") \/ ReplyLost(failed)
           /\ scrambler' = CPMethod
        \/ /\ Nacked("start") \/ Lost(failed)
           /\ UNCHANGED scrambler
  /\ UNCHANGED <<loop_vars, polls, port_vars, plugged, works, told, config, pattern,
                 locked, noise, pulls, trainings>>

(* The engine gets the AUX channel and the levels of this rate, and starts. *)
Start ==
  /\ pc = "start"
  /\ swing' = LoadSwing(SwingTable(rate)) /\ engine' = "running" /\ polls' = 0
  /\ pc' = "poll"
  /\ UNCHANGED <<loop_vars, hwFail, mainUp, sink_vars, past_vars>>

(* A poll that finds nothing.                                               *)
PollAgain ==
  /\ pc = "poll" /\ ~(engine = "done" /\ mainUp) /\ polls < MaxPolls
  /\ polls' = polls + 1
  /\ UNCHANGED <<pc, loop_vars, port_vars, sink_vars, past_vars>>

(* Mutant: HW_Link_Training_Done is enough.                                 *)
PollDoneOnly ==
  /\ pc = "poll" /\ engine = "done"
  /\ given' = Link(lanes, rate) /\ engine' = "idle"
  /\ pc' = "end"
  /\ UNCHANGED <<asked, lanes, rate, retry, polls, hwFail, mainUp, swing, sink_vars,
                 past_vars>>

(* A poll that finds the engine done and the main link up.                  *)
PollDone ==
  /\ pc = "poll" /\ engine = "done" /\ mainUp
  /\ given' = Link(lanes, rate) /\ engine' = "idle"
  /\ pc' = "end"
  /\ UNCHANGED <<asked, lanes, rate, retry, polls, hwFail, mainUp, swing, sink_vars,
                 past_vars>>

(* The last poll finds nothing, but the engine still runs.                 *)
PollsUsedUp ==
  /\ pc = "poll" /\ ~(engine = "done" /\ mainUp) /\ polls = MaxPolls
  /\ pc' = "stop"
  /\ UNCHANGED <<loop_vars, polls, port_vars, sink_vars, past_vars>>

(* Mutant: the pattern of a failed attempt is left to the next one.         *)
GiveUpKeep ==
  /\ pc = "stop"
  /\ engine' = "idle"
  /\ noise' = IF Link(lanes, rate) \in works THEN noise + 1 ELSE noise
  /\ pc' = "next"
  /\ UNCHANGED <<loop_vars, polls, hwFail, mainUp, swing, sink_vars, told, faults,
                 pulls, trainings>>

(* Mutant: the engine is looked at once more as it is stopped.              *)
GiveUpLooks ==
  /\ pc = "stop"
  /\ engine' = "idle"
  /\ noise' = IF Link(lanes, rate) \in works THEN noise + 1 ELSE noise
  /\ pc' = IF mainUp THEN "end" ELSE "clear"
  /\ UNCHANGED <<loop_vars, polls, hwFail, mainUp, swing, sink_vars, told, faults,
                 pulls, trainings>>

(* The engine is stopped, which may have ended since the last poll.         *)
GiveUp ==
  /\ pc = "stop"
  /\ engine' = "idle"
  /\ noise' = IF Link(lanes, rate) \in works THEN noise + 1 ELSE noise
  /\ pc' = "clear"
  /\ UNCHANGED <<loop_vars, polls, hwFail, mainUp, swing, sink_vars, told, faults,
                 pulls, trainings>>

(* Software clears the training pattern; a write that counts as lost ends   *)
(* the training.                                                            *)
Clear ==
  /\ pc = "clear"
  /\ \/ (Acked("next") \/ ReplyLost("end")) /\ pattern' = FALSE
     \/ (Nacked("next") \/ Lost("end")) /\ UNCHANGED pattern
  /\ UNCHANGED <<loop_vars, polls, port_vars, plugged, works, told, config, scrambler,
                 locked, noise, pulls, trainings>>

(* Mutant: one lane is halved as well, and nothing ends the loop.           *)
NextHalvesOne ==
  /\ pc = "next"
  /\ \/ /\ retry + 1 < MaxRetryCount
        /\ retry' = retry + 1 /\ UNCHANGED <<lanes, rate>>
     \/ /\ retry + 1 >= MaxRetryCount /\ rate > 1
        /\ retry' = 0 /\ rate' = rate - 1 /\ UNCHANGED lanes
     \/ /\ retry + 1 >= MaxRetryCount /\ rate = 1
        /\ retry' = 0 /\ lanes' = lanes \div 2 /\ rate' = asked.rate
  /\ pc' = "setup"
  /\ UNCHANGED <<asked, polls, given, port_vars, sink_vars, past_vars>>

(* Mutant: the sink is told once for all the rates of a lane count.         *)
NextKeepsConfig ==
  /\ pc = "next"
  /\ \/ /\ retry + 1 < MaxRetryCount
        /\ retry' = retry + 1 /\ pc' = "setup" /\ UNCHANGED <<lanes, rate>>
     \/ /\ retry + 1 >= MaxRetryCount /\ rate > 1
        /\ retry' = 0 /\ rate' = rate - 1 /\ pc' = "protect" /\ UNCHANGED lanes
     \/ /\ retry + 1 >= MaxRetryCount /\ rate = 1 /\ lanes > 1
        /\ retry' = 0 /\ lanes' = lanes \div 2 /\ rate' = asked.rate
        /\ pc' = "setup"
     \/ /\ retry + 1 >= MaxRetryCount /\ rate = 1 /\ lanes = 1
        /\ pc' = "end" /\ UNCHANGED <<lanes, rate, retry>>
  /\ UNCHANGED <<asked, polls, given, port_vars, sink_vars, past_vars>>

(* The three loops: again, slower, or on half the lanes at the full rate.   *)
NextAttempt ==
  /\ pc = "next"
  /\ \/ /\ retry + 1 < MaxRetryCount
        /\ retry' = retry + 1 /\ pc' = "setup" /\ UNCHANGED <<lanes, rate>>
     \/ /\ retry + 1 >= MaxRetryCount /\ rate > 1
        /\ retry' = 0 /\ rate' = rate - 1 /\ pc' = "setup" /\ UNCHANGED lanes
     \/ /\ retry + 1 >= MaxRetryCount /\ rate = 1 /\ lanes > 1
        /\ retry' = 0 /\ lanes' = lanes \div 2 /\ rate' = asked.rate
        /\ pc' = "setup"
     \/ /\ retry + 1 >= MaxRetryCount /\ rate = 1 /\ lanes = 1
        /\ pc' = "end" /\ UNCHANGED <<lanes, rate, retry>>
  /\ UNCHANGED <<asked, polls, given, port_vars, sink_vars, past_vars>>

(* EndOfLinkTraining: a failure the engine reports clears the pattern once  *)
(* more.                                                                    *)
Finish ==
  /\ pc = "end"
  /\ IF given = NoLink /\ hwFail
     THEN \/ (Acked("idle") \/ ReplyLost("idle")) /\ pattern' = FALSE
          \/ (Nacked("idle") \/ Lost("idle")) /\ UNCHANGED pattern
     ELSE pc' = "idle" /\ UNCHANGED <<faults, pattern>>
  /\ asked' = NoLink
  /\ UNCHANGED <<lanes, rate, retry, polls, given, port_vars, plugged, works, told,
                 config, scrambler, locked, noise, pulls, trainings>>

-------------------------------------------------------------------------------
(* The engine tells the sink to train.                                      *)
EngineBegin ==
  /\ engine = "running" /\ plugged /\ ~pattern
  /\ pattern' = TRUE
  /\ UNCHANGED <<pc, loop_vars, polls, port_vars, plugged, works, config, scrambler,
                 locked, past_vars>>

(* The engine ends well on a combination that works.  The sink is locked at *)
(* what it took itself to be told, which a NACKed write did not change.     *)
EngineTrains ==
  /\ engine = "running" /\ plugged /\ pattern
  /\ Link(lanes, rate) \in works
  /\ locked' = config /\ pattern' = FALSE
  /\ engine' = "done" /\ mainUp' = TRUE
  /\ UNCHANGED <<pc, loop_vars, polls, hwFail, swing, plugged, works, config, scrambler,
                 past_vars>>

(* The engine gives up: on a combination that does not work, on one the     *)
(* sink was not told, or by noise.                                          *)
EngineFails ==
  /\ engine = "running"
  /\ Link(lanes, rate) \in works /\ config = Link(lanes, rate) => noise < MaxNoise
  /\ engine' = "done" /\ hwFail' = TRUE
  /\ UNCHANGED <<pc, loop_vars, polls, mainUp, swing, sink_vars, past_vars>>

(* The cable is pulled: the sink forgets what it was told.                  *)
Pull ==
  /\ plugged /\ pulls < MaxPulls
  /\ plugged' = FALSE /\ pulls' = pulls + 1
  /\ config' = NoLink /\ scrambler' = "none" /\ pattern' = FALSE /\ locked' = NoLink
  /\ UNCHANGED <<pc, loop_vars, polls, port_vars, works, told, noise, faults, trainings>>

(* A sink is plugged, which may carry something else.                       *)
PlugIn ==
  /\ ~plugged
  /\ plugged' = TRUE /\ works' \in Cables
  /\ UNCHANGED <<pc, loop_vars, polls, port_vars, config, scrambler, pattern, locked,
                 past_vars>>

-------------------------------------------------------------------------------
Training ==
  \/ Setup \/ Config \/ Protect \/ Start \/ PollAgain \/ PollDone \/ PollsUsedUp
  \/ GiveUp \/ Clear \/ NextAttempt \/ Finish

Engine == EngineBegin \/ EngineTrains \/ EngineFails

Next ==
  \/ \E l \in Offers : Begin(l.lanes, l.rate)
  \/ Training \/ Engine \/ Pull \/ PlugIn

(* The code that trains is never blocked for ever.                          *)
Spec == Init /\ [][Next]_vars /\ WF_vars(Training)

-------------------------------------------------------------------------------
TypeOK ==
  /\ pc \in {"idle", "setup", "config", "protect", "start", "poll", "stop", "clear",
            "next", "end"}
  /\ asked \in P!Links \cup {NoLink} /\ given \in P!Links \cup {NoLink}
  /\ lanes \in 0..4 /\ rate \in 0..3 /\ retry \in 0..2 /\ polls \in 0..MaxPolls
  /\ engine \in {"idle", "running", "done"} /\ hwFail \in BOOLEAN /\ mainUp \in BOOLEAN
  /\ swing \in [Levels -> (0..63) \X (0..63)]
  /\ plugged \in BOOLEAN /\ works \in Cables /\ told \in BOOLEAN
  /\ config \in P!Links \cup {NoLink} /\ scrambler \in {"none", "ASSR", "AF"}
  /\ pattern \in BOOLEAN /\ locked \in P!Links \cup {NoLink}
  /\ noise \in Nat /\ faults \in Nat /\ pulls \in 0..MaxPulls
  /\ trainings \in 0..MaxTrainings

(* A training that reports success (CBiosDIU_DP.c:1690) has locked the sink *)
(* at what it was told last, whatever earlier attempts, trainings and an    *)
(* engine that ended too late left in the port, until the cable is pulled;  *)
(* and that is the lanes and the rate it reports unless the sink refused    *)
(* them: a NACK counts as success (CBiosDIU_DP.c:2318).                     *)
ReportedIsLocked ==
  pc \in {"end", "idle"} /\ given # NoLink /\ pulls = 0 =>
    locked = config /\ (told => config = given)

(* "Before link training pattern set, must update LINK_BW_SET and           *)
(* LANE_COUNT_SET" (CBiosDIU_DP.c:789): while the engine trains a sink, the *)
(* sink knows the lanes and the rate of this attempt, over all the falls of *)
(* rate and lanes, if the AUX writes of the training got through.           *)
ToldBeforePattern ==
  engine = "running" /\ pattern /\ faults = 0 /\ pulls = 0 => config = Link(lanes, rate)

(* A training leaves no sink in a training pattern if its AUX writes got    *)
(* through, in particular none whose engine was too slow for the polls.     *)
NoPatternLeft == pc = "idle" /\ faults = 0 => ~pattern

(* The combination that works and comes first: lanes before rate.           *)
Best ==
  LET can == {l \in works : l.lanes <= asked.lanes /\ l.rate <= asked.rate}
  IN IF can = {} THEN NoLink
     ELSE CHOOSE l \in can :
            \A k \in can : l.lanes > k.lanes \/ (l.lanes = k.lanes /\ l.rate >= k.rate)

(* Attempts that fail by noise, fewer than the tries of one combination, do *)
(* not cost lanes or rate: the training finds the first that works.         *)
RetriesAbsorbNoise ==
  pc = "end" /\ faults = 0 /\ pulls = 0 /\ noise < MaxRetryCount => given = Best

(* The training implements TrainingPromise: it ends, with a link no wider   *)
(* and no faster than asked, or with none.                                  *)
PromiseSpec == P!Spec

===============================================================================
