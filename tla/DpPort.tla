--------------------------------- MODULE DpPort ---------------------------------
(***************************************************************************)
(* A dual-mode DisplayPort connector: CBiosDP.c, and the DP monitor behind *)
(* it, CBiosDPMonitor.c.  Either a DP sink or an HDMI sink is plugged in;  *)
(* detection finds out which and switches the PHY between its DP and TMDS  *)
(* drivers.  Three things happen at once: a commit turns the port on and   *)
(* off (zx_encoder.c), the hot plug work answers the sink's interrupts and *)
(* detects, and the sink comes, goes, loses its link and asks for tests.   *)
(*                                                                         *)
(* Detection and power switching exclude each other by conn_mutex;         *)
(* detection and interrupts by mode_config.mutex; an interrupt and power   *)
(* switching only by pAuxMutex, which covers the monitor's part of OnOff   *)
(* but neither the choice of the side before it nor PowerState after it.   *)
(* What runs under pAuxMutex is one action here.  LinkTraining refines     *)
(* TrainingPromise, so a training is one of the promise's outcomes.        *)
(***************************************************************************)
EXTENDS Integers

CONSTANTS DpSinks,      \* sinks that speak DisplayPort
          HdmiSinks,    \* sinks behind a passive HDMI or DVI adapter
          NoSink,
          Caps,         \* Caps[s]: the widest and fastest link of DP sink s
          SourceMax,    \* SourceMaxLaneCount and SourceMaxLinkSpeed
          Boards,       \* the boards the port may be on: two have their own
                        \* detection (SVID 3A04, SSID 1008 and 1006)
          TestLinks,    \* bound: links a link training test may name
          Interlaced,   \* bound: what bInterlace of a mode may be
          MaxPlugs,     \* bound: plug-ins
          MaxSwitches,  \* bound: times the port is turned on
          MaxLosses,    \* bound: times a sink loses its link
          MaxTests,     \* bound: automated tests
          MaxFaults     \* bound: AUX requests that are not answered, and
                        \* trainings that fail though they could work

VARIABLES
  board,
  bDualMode, DPEphyMode, monitor,   \* of the port: CurrentMonitorType
  PowerState, bIsSrcChanged,
  use,        \* LaneNumberToUse and LinkSpeedToUse
  sinkMax,    \* SinkMaxLaneCount and SinkMaxLinkSpeed
  auxBusy,    \* AUX_WORKING_STATUS_LINKTRAINING in DpAuxWorkingStatus
  edid,       \* whose EDID EdidData is
  bInterlace, timing,  \* of the mode; how often TargetTiming was halved
  driver, sel,         \* Driver_Mode of the PHY, Sel_DP_TMDS of SR_3B
  main, halved,        \* the main link: its combination, its timing's halvings
  video, hdmi,         \* the DP side, the HDMI side is sending
  disp, bDPMode,       \* where the commit is, and the side OnOff has chosen
  work, Mode,          \* where the hot plug work is, and the driver it saved
  sink, awake, locked, \* what is plugged in, is it in D0, its link
  hpd, asks,           \* HPD_Status, the automated test the sink wants
  found,      \* the last detection found a sink
  unseen,     \* a plug-in was answered with a test instead of a detection
  tested,     \* the last training was an automated test
  swapped,    \* a detection changed DPEphyMode of a port that was on
  plugs, switches, losses, tests, faults

P == INSTANCE TrainingPromise WITH asked <- use, given <- locked
NoLink == P!NoLink

ASSUME SinksAssumption == /\ DpSinks \cap HdmiSinks = {}
                          /\ NoSink \notin DpSinks \cup HdmiSinks
                          /\ Caps \in [DpSinks -> P!Links]
                          /\ SourceMax \in P!Links /\ TestLinks \subseteq P!Links
ASSUME BoardsAssumption == Boards \subseteq {"ordinary", "fastDetect", "DVIForce"}
ASSUME BoundsAssumption == /\ Interlaced \subseteq BOOLEAN
                           /\ {MaxPlugs, MaxSwitches, MaxLosses, MaxTests, MaxFaults}
                                \subseteq Nat

port_vars == <<board, bDualMode, DPEphyMode, monitor>>
power_vars == <<PowerState, bIsSrcChanged, disp, bDPMode>>
mode_vars == <<bInterlace, timing>>
main_vars == <<timing, main, halved>>
link_vars == <<use, auxBusy, main_vars, locked, tested, faults>>
phy_vars == <<driver, sel>>
side_vars == <<video, hdmi>>
past_vars == <<plugs, switches, losses, tests>>
vars == <<board, bDualMode, DPEphyMode, monitor, PowerState, bIsSrcChanged, use, sinkMax,
          auxBusy, edid, bInterlace, timing, driver, sel, main, halved, video, hdmi,
          disp, bDPMode, work, Mode, sink, awake, locked, hpd, asks, found, unseen,
          tested, swapped, plugs, switches, losses, tests, faults>>

(* Dual-mode detection reads the EDID by I2C: an HDMI adapter answers.      *)
cbDualModeDetect == sink \in HdmiSinks
Speaks == sink \in DpSinks
LinksUpTo(best) == {l \in P!Links : l.lanes <= best.lanes /\ l.rate <= best.rate}
LeastLink(a, b) == [lanes |-> IF a.lanes < b.lanes THEN a.lanes ELSE b.lanes,
                    rate |-> IF a.rate < b.rate THEN a.rate ELSE b.rate]

TypeOK ==
  /\ board \in Boards /\ bDualMode \in BOOLEAN /\ DPEphyMode \in {"none", "DP", "TMDS"}
  /\ monitor \in {"none", "DP", "HDMI"} /\ PowerState \in {"invalid", "on", "off"}
  /\ bIsSrcChanged \in BOOLEAN /\ auxBusy \in BOOLEAN
  /\ use \in [lanes : {0} \cup P!LaneCounts, rate : {0} \cup P!Rates]
  /\ {sinkMax, main, locked} \subseteq P!Links \cup {NoLink}
  /\ edid \in DpSinks \cup HdmiSinks \cup {NoSink}
  /\ bInterlace \in BOOLEAN /\ {timing, halved} \subseteq 0..2
  /\ {driver, sel, Mode} \subseteq {"DP", "TMDS"}
  /\ {video, hdmi, bDPMode, awake, found, unseen, tested, swapped} \subseteq BOOLEAN
  /\ disp \in {"idle", "mode", "on", "switchOn", "lit", "switchOff", "dark"}
  /\ work \in {"idle", "in", "irq", "plug", "monitor"}
  /\ sink \in DpSinks \cup HdmiSinks \cup {NoSink}
  /\ hpd \in {"none", "in", "out", "irq"}
  /\ asks \in {"none", "edid", "training", "pattern"}
  /\ plugs \in 0..MaxPlugs /\ switches \in 0..MaxSwitches
  /\ losses \in 0..MaxLosses /\ tests \in 0..MaxTests /\ faults \in 0..MaxFaults

Init ==
  /\ board \in Boards /\ bDualMode = FALSE /\ DPEphyMode = "none" /\ monitor = "none"
  /\ PowerState = "invalid" /\ bIsSrcChanged = FALSE
  /\ use = NoLink /\ sinkMax = NoLink /\ auxBusy = FALSE /\ edid = NoSink
  /\ bInterlace = FALSE /\ timing = 0 /\ driver = "TMDS" /\ sel = "DP"
  /\ main = NoLink /\ halved = 0 /\ video = FALSE /\ hdmi = FALSE
  /\ disp = "idle" /\ bDPMode = FALSE /\ work = "idle" /\ Mode = "TMDS"
  /\ sink = NoSink /\ awake = FALSE /\ locked = NoLink /\ hpd = "none" /\ asks = "none"
  /\ found = FALSE /\ unseen = FALSE /\ tested = FALSE /\ swapped = FALSE
  /\ plugs = 0 /\ switches = 0 /\ losses = 0 /\ tests = 0 /\ faults = 0

----------------------------------------------------------------------------
(* CBiosPHY_DP.c: the driver of the PHY and the input of the port.          *)

SelectEphyMode(mode) == driver' = mode /\ sel' = mode

(* A new source selects the input of the side it is for as well.            *)
SelectPhySource(mode) == SelectEphyMode(mode)

DPModeOnOff(on) == driver' = IF on THEN "DP" ELSE "TMDS"

----------------------------------------------------------------------------
(* Link training and the main link.  All of it runs under pAuxMutex.        *)

(* cbDPMonitor_SetUpMainLink, for the link in use: TargetTiming itself is   *)
(* halved for an interlaced mode, so its next use starts from the half.     *)
SetUpMainLink ==
  /\ main' = use'
  /\ timing' = IF bInterlace /\ timing < 2 THEN timing + 1 ELSE timing
  /\ halved' = timing'

KeepMainLink == UNCHANGED main_vars

(* The links DetermineLinkTrainingPara may ask for: every lane the sink     *)
(* has, and the slowest rate that carries the pixel clock.                  *)
DetermineLinkTrainingPara(max) ==
  {LeastLink(SourceMax, LeastLink(max, [lanes |-> max.lanes, rate |-> r])) : r \in P!Rates}

(* GetAutoTestDpcdData: the sink names them; what cannot be read stays.     *)
AutoTestDpcdData == {LeastLink(SourceMax, l) : l \in TestLinks \cup {use}}

(* Mutant: a training that fails leaves its mark in DpAuxWorkingStatus.     *)
TrainedKeepsBusy(asked, given, isAutoTest) ==
  /\ use' = IF given = NoLink THEN asked ELSE given
  /\ locked' = IF driver' = "DP" THEN given ELSE NoLink
  /\ tested' = isAutoTest
  /\ auxBusy' = (given = NoLink)

(* The end of a training: what was given is in use from now on.  A link     *)
(* lives only as long as the PHY drives it as DP.                           *)
Trained(asked, given, isAutoTest) ==
  /\ use' = IF given = NoLink THEN asked ELSE given
  /\ locked' = IF driver' = "DP" THEN given ELSE NoLink
  /\ tested' = isAutoTest
  /\ auxBusy' = FALSE

(* cbDPMonitor_LinkTraining returns ok.  able: the sink is there and in D0. *)
(* spent: the faults of the AUX requests before.                            *)
LinkTraining(isAutoTest, ok, max, able, spent) ==
  /\ IF auxBusy
     THEN /\ ~ok /\ faults' = faults + spent
          /\ UNCHANGED <<use, auxBusy, locked, tested>>
     ELSE \E asked \in IF isAutoTest THEN AutoTestDpcdData ELSE DetermineLinkTrainingPara(max) :
            LET could == IF able THEN LinksUpTo(LeastLink(asked, Caps[sink])) ELSE {}
            IN \/ /\ ok /\ faults' = faults + spent
                  /\ \E given \in could : Trained(asked, given, isAutoTest)
               \/ /\ ~ok /\ Trained(asked, NoLink, isAutoTest)
                  /\ faults' = faults + spent + (IF could = {} THEN 0 ELSE 1)
  /\ faults' <= MaxFaults

(* The lanes a check of DPCD 202h to 204h finds not locked.                 *)
LinkIsBad(lanes) == lanes > locked.lanes \/ locked = NoLink

(* An AUX request before a training: answered, or not for want of a sink or *)
(* for one fault.                                                           *)
Answered == Speaks
NotAnswered == /\ faults' = faults + (IF Speaks THEN 1 ELSE 0)
               /\ faults' <= MaxFaults

NoTraining == UNCHANGED <<use, auxBusy, main_vars, locked, tested>>

----------------------------------------------------------------------------
(* The commit: mode set, on and off.                                        *)

ConnMutexFree == disp = "idle" /\ work # "monitor"

(* zx_encoder_atomic_mode_set while the port is off: cbDPPort_UpdateModeInfo*)
(* copies a fresh timing for a DP monitor, and the path is selected anew.   *)
SetMode ==
  /\ disp = "idle" /\ PowerState # "on" /\ monitor # "none"
  /\ \E i \in Interlaced : bInterlace' = (IF monitor = "DP" THEN i ELSE bInterlace)
  /\ timing' = IF monitor = "DP" THEN 0 ELSE timing
  /\ bIsSrcChanged' = TRUE
  /\ UNCHANGED <<port_vars, PowerState, disp, bDPMode, use, sinkMax, auxBusy, edid,
                 phy_vars, main, halved, side_vars, work, Mode, sink, awake, locked, hpd,
                 asks, found, unseen, tested, swapped, past_vars, faults>>

(* The part of cbDPPort_OnOff before pAuxMutex: the side is chosen by what  *)
(* detection found last, and the PHY is switched if a mode was set.         *)
ChooseSide(next) ==
  /\ ConnMutexFree
  /\ disp' = next
  /\ bDPMode' = (DPEphyMode = "DP")
  /\ bIsSrcChanged' = FALSE
  /\ IF bIsSrcChanged THEN SelectPhySource(DPEphyMode) ELSE UNCHANGED phy_vars
  /\ locked' = IF driver' = "DP" THEN locked ELSE NoLink
  /\ UNCHANGED <<port_vars, PowerState, mode_vars, use, sinkMax, auxBusy, edid, main, halved,
                 side_vars, work, Mode, sink, awake, hpd, asks, found, unseen, tested,
                 swapped, plugs, losses, tests, faults>>

SwitchOn ==
  /\ PowerState # "on" /\ (bIsSrcChanged \/ PowerState = "off")
  /\ switches < MaxSwitches /\ switches' = switches + 1
  /\ ChooseSide("switchOn")

SwitchOff == PowerState = "on" /\ switches' = switches /\ ChooseSide("switchOff")

Side == IF bDPMode THEN "DP" ELSE "HDMI"

(* cbDPMonitor_OnOff(on), or the HDMI side of the port.                     *)
OnMonitor ==
  /\ disp = "switchOn" /\ disp' = "lit"
  /\ IF Side = "DP" /\ monitor = "DP"
     THEN /\ DPModeOnOff(TRUE) /\ video' = TRUE /\ awake' = Speaks
          /\ \E ok \in BOOLEAN : /\ LinkTraining(FALSE, ok, sinkMax, Speaks, 0)
                                 /\ IF ok THEN SetUpMainLink ELSE KeepMainLink
          /\ UNCHANGED hdmi
     ELSE /\ hdmi' = (monitor = "HDMI" \/ hdmi)
          /\ UNCHANGED <<driver, video, awake, link_vars>>
  /\ UNCHANGED <<port_vars, PowerState, bIsSrcChanged, bDPMode, bInterlace, sinkMax, edid, sel,
                 work, Mode, sink, hpd, asks, found, unseen, swapped, past_vars>>

(* cbDPMonitor_OnOff(off): the PHY is left with the TMDS driver.            *)
OffMonitor ==
  /\ disp = "switchOff" /\ disp' = "dark"
  /\ IF Side = "DP" /\ monitor = "DP"
     THEN /\ DPModeOnOff(FALSE) /\ video' = FALSE /\ awake' = FALSE /\ locked' = NoLink
          /\ UNCHANGED hdmi
     ELSE /\ hdmi' = FALSE
          /\ UNCHANGED <<driver, video, awake, locked>>
  /\ UNCHANGED <<port_vars, PowerState, bIsSrcChanged, bDPMode, mode_vars, use, sinkMax, auxBusy,
                 edid, sel, main, halved, work, Mode, sink, hpd, asks, found, unseen, tested,
                 swapped, past_vars, faults>>

(* PowerState is set last, outside pAuxMutex.  (Locals that are dead are    *)
(* reset here and at the end of a detection.)                               *)
OnOffDone ==
  /\ disp \in {"lit", "dark"} /\ disp' = "idle" /\ bDPMode' = FALSE
  /\ PowerState' = IF disp = "lit" THEN "on" ELSE "off"
  /\ UNCHANGED <<port_vars, bIsSrcChanged, mode_vars, use, sinkMax, auxBusy, edid, phy_vars,
                 main, halved, side_vars, work, Mode, sink, awake, locked, hpd,
                 asks, found, unseen, tested, swapped, past_vars, faults>>

----------------------------------------------------------------------------
(* The hot plug work: interrupts, then detection, under mode_config.mutex.  *)

(* cbDPMonitor_GetInt.                                                      *)
GetInt ==
  /\ work = "idle" /\ hpd # "none" /\ hpd' = "none"
  /\ work' = IF hpd = "out" THEN "plug" ELSE hpd
  /\ UNCHANGED <<port_vars, power_vars, sinkMax, edid, bInterlace, link_vars, phy_vars,
                 side_vars, Mode, sink, awake, asks, found, unseen, swapped, past_vars>>

(* Somebody asks for the state of the connector.                            *)
AskDetect ==
  /\ work = "idle" /\ work' = "plug"
  /\ UNCHANGED <<port_vars, power_vars, sinkMax, edid, bInterlace, link_vars, phy_vars,
                 side_vars, Mode, sink, awake, hpd, asks, found, unseen, swapped, past_vars>>

(* HandleTestRequest: an EDID test and a pattern test need a detection      *)
(* afterwards, a training test does not and sets up no main link.  The      *)
(* request is cleared first: if the rest cannot be read it is lost.         *)
HandleTestRequest ==
  /\ asks # "none" /\ asks' = "none"
  /\ \/ /\ asks = "edid" /\ work' = "plug" /\ NoTraining
        /\ \/ edid' = sink /\ UNCHANGED faults
           \/ edid' = NoSink /\ faults < MaxFaults /\ faults' = faults + 1
     \/ /\ asks = "training" /\ work' = "idle" /\ UNCHANGED edid
        /\ \E ok \in BOOLEAN : LinkTraining(TRUE, ok, sinkMax, awake, 0)
        /\ KeepMainLink
     \/ /\ asks = "pattern" /\ work' = "plug" /\ UNCHANGED edid
        /\ \E ok \in BOOLEAN : /\ LinkTraining(FALSE, ok, sinkMax, awake, 0)
                               /\ IF ok THEN SetUpMainLink ELSE KeepMainLink
     \/ /\ faults < MaxFaults /\ faults' = faults + 1
        /\ work' = "idle" /\ UNCHANGED edid /\ NoTraining

(* HandleIrq of a plug-in.  The driver of the PHY is saved and restored,    *)
(* and the input of the port with it.                                       *)
HandleIn ==
  /\ work = "in"
  /\ IF cbDualModeDetect
     THEN work' = "plug" /\ UNCHANGED <<phy_vars, edid, link_vars, asks, unseen>>
     ELSE /\ SelectEphyMode(driver)
          /\ \/ /\ NotAnswered \/ (Answered /\ asks = "none" /\ UNCHANGED faults)
                /\ work' = "plug"
                /\ NoTraining /\ UNCHANGED <<edid, asks, unseen>>
             \/ /\ Answered /\ HandleTestRequest
                /\ unseen' = (unseen \/ work' = "idle")
  /\ UNCHANGED <<port_vars, power_vars, sinkMax, bInterlace, side_vars, Mode, sink, awake, hpd,
                 found, swapped, past_vars>>

(* Mutant: the link check trains and leaves the main link as it was.       *)
HandleIrqKeepsMain ==
  /\ work = "irq"
  /\ SelectEphyMode("DP")
  /\ \/ /\ NotAnswered
        /\ work' = "idle" /\ NoTraining /\ UNCHANGED <<edid, asks>>
     \/ Answered /\ HandleTestRequest
     \/ /\ Answered /\ asks = "none"
        /\ work' = "idle" /\ UNCHANGED <<edid, asks>>
        /\ IF PowerState = "on" /\ LinkIsBad(use.lanes)
           THEN \E ok \in BOOLEAN : /\ LinkTraining(FALSE, ok, sinkMax, awake, 0)
                                    /\ KeepMainLink
           ELSE NoTraining /\ UNCHANGED faults
  /\ UNCHANGED <<port_vars, power_vars, sinkMax, bInterlace, side_vars, Mode, sink, awake, hpd,
                 found, unseen, swapped, past_vars>>

(* HandleIrq of a short pulse: a test, or ProcLinkStatusCheck, which trains *)
(* a link with a bad lane again, but only of a port that is already on.     *)
HandleIrq ==
  /\ work = "irq"
  /\ SelectEphyMode("DP")
  /\ \/ /\ NotAnswered
        /\ work' = "idle" /\ NoTraining /\ UNCHANGED <<edid, asks>>
     \/ Answered /\ HandleTestRequest
     \/ /\ Answered /\ asks = "none"
        /\ work' = "idle" /\ UNCHANGED <<edid, asks>>
        /\ IF PowerState = "on" /\ LinkIsBad(use.lanes)
           THEN \E ok \in BOOLEAN : /\ LinkTraining(FALSE, ok, sinkMax, awake, 0)
                                    /\ IF ok THEN SetUpMainLink ELSE KeepMainLink
           ELSE NoTraining /\ UNCHANGED faults
  /\ UNCHANGED <<port_vars, power_vars, sinkMax, bInterlace, side_vars, Mode, sink, awake, hpd,
                 found, unseen, swapped, past_vars>>

(* HPD_Status holds the last change of the pin: nothing yet, or unplugged.  *)
PlugIsOut == sink = NoSink

(* cbDPPort_IsDevicePlugOut and the start of DeviceDetect, with conn_mutex. *)
(* Where detection is fast, a port that is not dual-mode asks the pin first *)
(* and is done at once; where DVI is forced, every sink is taken for one.   *)
DetectPlug ==
  /\ work = "plug" /\ disp = "idle"
  /\ bDualMode' = (cbDualModeDetect \/ board = "DVIForce")
  /\ IF board = "fastDetect" /\ ~bDualMode' /\ PlugIsOut
     THEN /\ work' = "idle" /\ edid' = NoSink /\ found' = FALSE /\ unseen' = FALSE
          /\ UNCHANGED Mode
     ELSE /\ work' = "monitor" /\ Mode' = driver
          /\ UNCHANGED <<edid, found, unseen>>
  /\ UNCHANGED <<board, DPEphyMode, monitor, power_vars, sinkMax, bInterlace, link_vars,
                 phy_vars, side_vars, sink, awake, hpd, asks, swapped, past_vars>>

(* Mutant: the side of a port that is on is not changed.                    *)
FoundKeepsSide(side, as) ==
  /\ DPEphyMode' = IF PowerState = "on" THEN DPEphyMode ELSE side
  /\ SelectEphyMode(side)
  /\ monitor' = as
  /\ found' = TRUE
  /\ swapped' = (swapped \/ (PowerState = "on" /\ DPEphyMode # side))

(* A sink was found that needs this side of the port.                       *)
Found(side, as) ==
  /\ DPEphyMode' = side /\ SelectEphyMode(side)
  /\ monitor' = as
  /\ found' = TRUE
  /\ swapped' = (swapped \/ (PowerState = "on" /\ DPEphyMode # side))

(* Nothing was found: the driver is restored and the EDID forgotten.        *)
NotFound ==
  /\ SelectEphyMode(Mode)
  /\ edid' = NoSink /\ found' = FALSE
  /\ locked' = IF Mode = "DP" THEN locked ELSE NoLink
  /\ UNCHANGED <<DPEphyMode, monitor, sinkMax, swapped, use, auxBusy, timing, main, halved,
                 tested>>

(* cbHDMIMonitor_Detect, as far as the port is concerned.                   *)
DetectHdmi ==
  /\ work = "monitor" /\ bDualMode
  /\ work' = "idle" /\ Mode' = "TMDS" /\ unseen' = FALSE
  /\ \/ /\ sink \in HdmiSinks
        /\ Found("TMDS", "HDMI")
        /\ edid' = sink /\ locked' = NoLink
        /\ UNCHANGED <<sinkMax, use, auxBusy, timing, main, halved, tested>>
     \/ sink \notin HdmiSinks /\ NotFound
  /\ UNCHANGED <<board, bDualMode, power_vars, bInterlace, side_vars, sink, awake, hpd, asks,
                 past_vars, faults>>

(* cbDPMonitor_Detect.  GetSinkCaps puts the sink's maximum into use even   *)
(* if it read nothing; a full detection of another EDID, and an unreadable  *)
(* one is another, trains a port that is on if a lane of that maximum is    *)
(* not locked.                                                              *)
DetectDp ==
  /\ work = "monitor" /\ ~bDualMode
  /\ work' = "idle" /\ Mode' = "TMDS" /\ unseen' = FALSE
  /\ \/ NotAnswered /\ NotFound /\ awake' = Speaks
     \/ /\ Answered /\ Found("DP", "DP") /\ awake' = TRUE
        /\ \E capsRead, edidRead, full \in BOOLEAN :
             LET spent == (IF capsRead THEN 0 ELSE 1) + (IF edidRead THEN 0 ELSE 1)
             IN /\ spent + faults <= MaxFaults
                /\ sinkMax' = IF capsRead THEN Caps[sink] ELSE sinkMax
                /\ edid' = IF edidRead THEN sink ELSE NoSink
                /\ IF /\ PowerState = "on" /\ full
                      /\ edid' # edid \/ ~edidRead
                      /\ sinkMax'.lanes > locked.lanes
                   THEN \E ok \in BOOLEAN : /\ LinkTraining(FALSE, ok, sinkMax', TRUE, spent)
                                            /\ IF ok THEN SetUpMainLink ELSE KeepMainLink
                   ELSE /\ use' = sinkMax' /\ faults' = faults + spent
                        /\ UNCHANGED <<auxBusy, timing, main, halved, locked, tested>>
  /\ UNCHANGED <<board, bDualMode, power_vars, bInterlace, side_vars, sink, hpd, asks, past_vars>>

----------------------------------------------------------------------------
(* The sink.                                                                *)

PlugIn(s) ==
  /\ sink = NoSink /\ plugs < MaxPlugs
  /\ sink' = s /\ awake' = (s \in DpSinks) /\ hpd' = "in" /\ plugs' = plugs + 1
  /\ \/ UNCHANGED <<asks, tests>>
     \/ /\ s \in DpSinks /\ tests < MaxTests /\ tests' = tests + 1
        /\ asks' \in {"edid", "training", "pattern"}
  /\ UNCHANGED <<port_vars, power_vars, sinkMax, edid, bInterlace, link_vars, phy_vars,
                 side_vars, work, Mode, found, unseen, swapped, switches, losses>>

Unplug ==
  /\ sink # NoSink
  /\ sink' = NoSink /\ awake' = FALSE /\ locked' = NoLink /\ asks' = "none" /\ hpd' = "out"
  /\ UNCHANGED <<port_vars, power_vars, sinkMax, edid, mode_vars, use, auxBusy, main, halved,
                 tested, faults, phy_vars, side_vars, work, Mode, found, unseen, swapped,
                 past_vars>>

LoseLink ==
  /\ locked # NoLink /\ losses < MaxLosses /\ losses' = losses + 1
  /\ locked' = NoLink
  /\ hpd' = IF hpd = "none" THEN "irq" ELSE hpd
  /\ UNCHANGED <<port_vars, power_vars, sinkMax, edid, mode_vars, use, auxBusy, main, halved,
                 tested, faults, phy_vars, side_vars, work, Mode, sink, awake, asks, found,
                 unseen, swapped, plugs, switches, tests>>

(* What the comment at CBiosDPMonitor.c:1576 counts on: a sink that gets    *)
(* video and has no link goes on asking for one.                            *)
AskAgain ==
  /\ Speaks /\ awake /\ video /\ locked = NoLink /\ hpd = "none"
  /\ hpd' = "irq"
  /\ UNCHANGED <<port_vars, power_vars, sinkMax, edid, bInterlace, link_vars, phy_vars,
                 side_vars, work, Mode, sink, awake, asks, found, unseen, swapped, past_vars>>

AskTest ==
  /\ Speaks /\ awake /\ asks = "none" /\ hpd = "none" /\ tests < MaxTests
  /\ asks' \in {"edid", "training", "pattern"} /\ tests' = tests + 1 /\ hpd' = "irq"
  /\ UNCHANGED <<port_vars, power_vars, sinkMax, edid, bInterlace, link_vars, phy_vars,
                 side_vars, work, Mode, sink, awake, found, unseen, swapped, plugs, switches,
                 losses>>

----------------------------------------------------------------------------
Commit == SetMode \/ SwitchOn \/ OnMonitor \/ SwitchOff \/ OffMonitor \/ OnOffDone
Detect == DetectPlug \/ DetectHdmi \/ DetectDp
HotPlugWork == GetInt \/ HandleIn \/ HandleIrq \/ Detect
Sink == Unplug \/ LoseLink \/ AskAgain \/ AskTest \/ \E s \in DpSinks \cup HdmiSinks : PlugIn(s)

Next == Commit \/ AskDetect \/ HotPlugWork \/ Sink

(* A commit that has begun ends, the hot plug work gets mode_config.mutex   *)
(* even if others keep asking for it (kernel mutexes hand themselves over), *)
(* and a sink without a link asks again.                                    *)
Fairness ==
  /\ WF_vars(OnMonitor \/ OffMonitor \/ OnOffDone)
  /\ SF_vars(GetInt)
  /\ WF_vars(HandleIn \/ HandleIrq \/ Detect)
  /\ WF_vars(AskAgain)

Spec == Init /\ [][Next]_vars /\ Fairness
SafetySpec == Init /\ [][Next]_vars

----------------------------------------------------------------------------
AtRest == disp = "idle" /\ work = "idle"

(* The main link is set up for the link the sink is locked at.  Four places *)
(* train and then set it up themselves (OnOff 1564, Detect 1399, the test   *)
(* pattern 1975, the link check 2075): none may forget it, and none may set *)
(* it up for a link that another has asked for since.  An automated link    *)
(* training (1697-1733, 1967) does leave it behind, which is excepted.      *)
MainLinkIsLocked == locked # NoLink /\ ~tested => main = locked

(* A port that is on drives the side its last detection found, in the PHY   *)
(* and at the port's input, through plug-ins, short pulses, failed          *)
(* detections and switching off and on again in between; a plug-in that     *)
(* was answered with a test instead of a detection is the exception.        *)
LitPortIsSelected ==
  AtRest /\ PowerState = "on" /\ found /\ ~unseen => driver = DPEphyMode /\ sel = DPEphyMode

(* A port that was turned off sends on neither side, unless a detection     *)
(* changed DPEphyMode while it was on: off then turns off the other side    *)
(* only (CBiosDP.c:320).                                                    *)
OffPortIsDark == AtRest /\ PowerState = "off" /\ ~swapped => ~video /\ ~hdmi

(* A DP sink that stays on a port that stays on gets its link back: after a *)
(* loss, a swap while the port was on, an interrupt that came before        *)
(* PowerState was set, or a training that failed.                           *)
Waiting == PowerState = "on" /\ video /\ Speaks /\ sinkMax # NoLink
LinkComesBack == <>[]Waiting => []<>(locked # NoLink)

(* "HDTV module is used to transfer P -> i, so pixel clock need to be       *)
(* divided by 2" (CBiosDPMonitor.c:488): the main link of an interlaced     *)
(* mode carries its timing halved once.                                     *)
InterlacedIsHalvedOnce == PowerState = "on" /\ locked # NoLink /\ ~tested => halved < 2
================================================================================
